------------------------------ MODULE ModelCard ------------------------------
(***************************************************************************)
(* What the service finds in a model card                                  *)
(* (app/classifier/inference/model_validator.py): the SHA-256 that stands  *)
(* first under one of four keys, anywhere in the JSON document, and the    *)
(* class names.  A value of JSON is a record of its type, its text where   *)
(* it is a string, and its entries where it is a dict or a list; those of  *)
(* a list have no key.  The searches recur on the values inside a value,   *)
(* and are functions on a set of values that has those too.                *)
(***************************************************************************)
EXTENDS Naturals, Sequences, FiniteSetsExt

CONSTANTS
    Values,      \* the values of JSON: cards, and all that is inside them
    Depth,       \* v -> how deep its entries are nested
    Keys, NoKey, \* the keys of dicts, and that of the entries of a list
    ShaKeys,     \* sha256, model_sha256, artifact_sha256, classifier_sha256
    NameKeys,    \* the sequence class_names, classes, labels
    Dataset, Classes,  \* the keys dataset and classes
    Artifact, Sha,     \* the keys artifact and sha256
    Blank,       \* the empty string
    Nothing      \* None

ASSUME NestingAssumption ==
    /\ Depth \in [Values -> Nat]
    /\ \A v \in Values :
           /\ v.entries \in Seq([key : Keys \cup {NoKey}, value : Values])
           /\ \A i \in DOMAIN v.entries : Depth[v.entries[i].value] < Depth[v]
           /\ v.type \notin {"dict", "list"} => v.entries = <<>>
ASSUME TextAssumption ==
    /\ Blank # Nothing
    /\ \A v \in Values : v.type = "string" => v.text # Nothing
\* No key is twice in a dict.
ASSUME KeysAssumption ==
    /\ NameKeys \in Seq(Keys)
    /\ Sha \in ShaKeys
    /\ \A v \in Values : \A i, j \in DOMAIN v.entries :
           v.type = "dict" /\ v.entries[i].key = v.entries[j].key => i = j

\* What `if found:` lets through.
Truthy(found) == found \notin {Nothing, Blank}

\* The first thing found below, going through the entries in their order.
FirstFound(below) ==
    LET found == {i \in DOMAIN below : Truthy(below[i])}
    IN IF found = {} THEN Nothing ELSE below[Min(found)]

\* The strings a dict has itself under the keys looked for.
OwnStrings(data) ==
    {i \in DOMAIN data.entries :
        /\ data.type = "dict"
        /\ data.entries[i].key \in ShaKeys
        /\ data.entries[i].value.type = "string"}

\* Mutant: the entries of a dict are looked at one by one, each with what is
\* below it.
FirstInOrder(data, below) ==
    FirstFound([i \in DOMAIN below |->
        IF i \in OwnStrings(data) THEN data.entries[i].value.text ELSE below[i]])

\* A dict's own strings come before whatever is below it; one that is empty
\* ends the search of that dict all the same.
FirstString(data, below) ==
    IF OwnStrings(data) # {}
    THEN data.entries[Min(OwnStrings(data))].value.text
    ELSE FirstFound(below)

FindFirstStringKey[data \in Values] ==
    FirstString(data, [i \in DOMAIN data.entries |-> FindFirstStringKey[data.entries[i].value]])

\* get_expected_sha256: Nothing where it raises.
GetExpectedSha(data) ==
    IF Truthy(FindFirstStringKey[data]) THEN FindFirstStringKey[data] ELSE Nothing

IsStringList(data) ==
    /\ data.type = "list"
    /\ data.entries # <<>>
    /\ \A i \in DOMAIN data.entries : data.entries[i].value.type = "string"

StringsOf(data) == [i \in DOMAIN data.entries |-> data.entries[i].value.text]

\* A list is neither None nor a string.
ASSUME ListsAssumption == \A v \in Values : StringsOf(v) \notin {Nothing, Blank}

FindFirstStringList[data \in Values] ==
    IF IsStringList(data)
    THEN StringsOf(data)
    ELSE FirstFound([i \in DOMAIN data.entries |->
                        FindFirstStringList[data.entries[i].value]])

\* dict.get, as the set of no or one value.
Get(data, key) ==
    {data.entries[i].value : i \in
        {j \in DOMAIN data.entries : data.type = "dict" /\ data.entries[j].key = key}}

\* get_class_names_from_model_card: the dataset's classes, a list under one
\* of three keys of the card, any list of strings, or an error.
GetClassNames(data) ==
    LET named == <<UNION {Get(dataset, Classes) : dataset \in Get(data, Dataset)}>>
                 \o [i \in DOMAIN NameKeys |-> Get(data, NameKeys[i])]
        lists == {i \in DOMAIN named : \E v \in named[i] : IsStringList(v)}
    IN IF lists = {} THEN FindFirstStringList[data]
       ELSE StringsOf(CHOOSE v \in named[Min(lists)] : TRUE)

\* The evaluation scripts read card["artifact"]["sha256"] instead.
ArtifactShaOf(data) ==
    LET shas == {v \in UNION {Get(artifact, Sha) : artifact \in Get(data, Artifact)} :
                    v.type = "string"}
    IN IF shas = {} THEN Nothing ELSE (CHOOSE v \in shas : TRUE).text

-----------------------------------------------------------------------------
(* What a card says, by the positions one follows from it down.            *)

\* The strings under the keys in a dict and in what is below it, each with
\* its path.
HitsFrom(data, below) ==
    {[path |-> <<i>>, text |-> data.entries[i].value.text] : i \in OwnStrings(data)}
    \cup UNION {{[path |-> <<i>> \o hit.path, text |-> hit.text] : hit \in below[i]} :
                    i \in DOMAIN data.entries}

Hits[data \in Values] ==
    HitsFrom(data, [i \in DOMAIN data.entries |-> Hits[data.entries[i].value]])

\* Where two paths part, the one that ends there comes first, else the one
\* that goes to the earlier entry.
Before(p, q) ==
    \E k \in 1..Len(p) :
        /\ k <= Len(q)
        /\ p[k] # q[k] /\ \A j \in 1..(k - 1) : p[j] = q[j]
        /\ IF (Len(p) = k) # (Len(q) = k) THEN Len(p) = k ELSE p[k] < q[k]

\* The dict in which the second path ends is on the first.
InDictOf(p, q) ==
    /\ Len(q) <= Len(p)
    /\ \A j \in 1..(Len(q) - 1) : p[j] = q[j]

\* An empty string hides what comes after it in its dict.
Visible(hits) ==
    {hit \in hits :
        /\ hit.text # Blank
        /\ \A other \in hits : other.text = Blank /\ InDictOf(hit.path, other.path) =>
               Before(hit.path, other.path)}

\* What a card gives for its SHA-256.
FirstHit(data) ==
    LET hits == Visible(Hits[data])
    IN IF hits = {} THEN Nothing
       ELSE (CHOOSE hit \in hits : \A other \in hits \ {hit} : Before(hit.path, other.path)).text

\* The lists of strings, anywhere in the card.
StringLists[data \in Values] ==
    (IF IsStringList(data) THEN {StringsOf(data)} ELSE {})
    \cup UNION {StringLists[data.entries[i].value] : i \in DOMAIN data.entries}

\* The values in which the search misses what comes first.
Misread == {v \in Values : GetExpectedSha(v) # FirstHit(v)}
=============================================================================
