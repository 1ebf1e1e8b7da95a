------------------------------ MODULE MCRelease ------------------------------
(***************************************************************************)
(* Instances of Release, and of the cards of ModelCard, for TLC.           *)
(***************************************************************************)
EXTENDS Release, FiniteSets

MCShaKeys == {"sha256", "model_sha256"}
MCNameKeys == <<"class_names", "labels">>

Text(t) == [type |-> "string", text |-> t, entries |-> <<>>]
Entry(k, v) == [key |-> k, value |-> v]
Dict(entries) == [type |-> "dict", text |-> Nothing, entries |-> entries]
List(ts) == [type |-> "list", text |-> Nothing,
             entries |-> [i \in DOMAIN ts |-> Entry(NoKey, Text(ts[i]))]]

ArtifactEntry(w) == Entry("artifact", Dict(<<Entry("sha256", Text(w))>>))
DatasetEntry(names) == Entry("dataset", Dict(<<Entry("classes", List(names))>>))

\* The first card has the class names in another order, the second has the
\* SHA-256 of older weights above its artifact, the third has a list of
\* strings before the class names, the last has a name too many.
MCTrees ==
    [c1 |-> Dict(<<DatasetEntry(<<"form", "letter">>), ArtifactEntry("w1")>>),
     c2 |-> Dict(<<DatasetEntry(<<"letter", "form">>),
                   Entry("training", Dict(<<Entry("model_sha256", Text("w3"))>>)),
                   ArtifactEntry("w1")>>),
     c3 |-> Dict(<<ArtifactEntry("w2"), Entry("authors", List(<<"a">>)),
                   Entry("labels", List(<<"letter", "form">>))>>),
     c4 |-> Dict(<<Entry("authors", List(<<"a">>)), ArtifactEntry("w3")>>),
     c5 |-> Dict(<<ArtifactEntry("w4")>>),
     c6 |-> Dict(<<ArtifactEntry("w1"), DatasetEntry(<<"letter", "form", "memo">>)>>)]

MCCards == DOMAIN MCTrees

\* Weights with too many names, with none, and with too few classes.
MCWeights == {"w1", "w2", "w3", "w4"}
MCNames == [w1 |-> <<"letter", "form">>, w2 |-> <<"letter", "form", "memo">>,
            w3 |-> Nothing, w4 |-> <<"letter">>]
MCNumClasses == [w1 |-> 2, w2 |-> 2, w3 |-> Nothing, w4 |-> 1]
MCOutputs == [w1 |-> 2, w2 |-> 2, w3 |-> 2, w4 |-> 1]
MCAnswers ==
    [x \in MCWeights \X {"service", "other"} \X {"i1", "i2"} |->
        IF x[2] = "service" THEN [top |-> <<1, 2>>, confidence |-> IF x[1] = "w1" THEN 9 ELSE 7]
        ELSE [top |-> <<2, 1>>, confidence |-> 6]]

\* Golden files that are right, that another machine computed, for another
\* preprocessing, with an image that is not there, and with none.
Golden(w, p, items) ==
    [sha |-> w, preprocessing |-> p,
     items |-> [i \in {"i1", "i2"} |-> IF i \in DOMAIN items THEN items[i] ELSE Nothing]]
Expected(n, c) == [id |-> n, confidence |-> c]
MCGoldens ==
    {Golden("w1", "service", [i \in {"i1"} |-> Expected(1, 8)]),
     Golden("w1", "service", [i \in {"i1"} |-> Expected(1, 5)]),
     Golden("w1", "other", [i \in {"i1"} |-> Expected(2, 6)]),
     Golden("w2", "service", [i \in {"i1"} |-> Expected(1, 7)]),
     Golden("w1", "service", [i \in {"i1", "i2"} |-> Expected(1, 9)]),
     Golden("w4", "service", [i \in {} |-> Expected(1, 9)])}

\* All small cards: a dict or a list of two values, which are no string, or
\* strings, or dicts of two of these.
Leaves == {Text(t) : t \in {Blank, "w1", "w2"}}
          \cup {[type |-> "number", text |-> Nothing, entries |-> <<>>]}
Dicts(values) ==
    {Dict(<<>>)} \cup
    {Dict(<<Entry(k[1], x), Entry(k[2], y)>>) :
        k \in {<<"sha256", "model_sha256">>, <<"sha256", "note">>, <<"note", "sha256">>},
        x, y \in values}
Lists(values) ==
    {[type |-> "list", text |-> Nothing, entries |-> <<Entry(NoKey, x), Entry(NoKey, y)>>] :
        x, y \in values}
SmallCards ==
    LET values == Leaves \cup Dicts(Leaves)
    IN values \cup Dicts(values) \cup Lists(values)

\* A value with all that is inside it, and how deep that is.
RECURSIVE Inside(_)
Inside(v) == {v} \cup UNION {Inside(v.entries[i].value) : i \in DOMAIN v.entries}
RECURSIVE DepthOf(_)
DepthOf(v) == Max({0} \cup {DepthOf(v.entries[i].value) + 1 : i \in DOMAIN v.entries})

MCValues == SmallCards \cup UNION {Inside(MCTrees[c]) : c \in MCCards}
MCDepth == [v \in MCValues |-> DepthOf(v)]
MCKeys ==
    MCShaKeys \cup {"note", "artifact", "dataset", "training", "authors",
                    "classes", "class_names", "labels"}
=============================================================================
