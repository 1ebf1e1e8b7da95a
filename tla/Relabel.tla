------------------------------ MODULE Relabel -------------------------------
(***************************************************************************)
(* Reviewers and administrators correct the label of a prediction          *)
(* (relabel of app/services/prediction_service.py): a request loads the    *)
(* row, checks who may change it, flushes the change, reads the row back   *)
(* for its answer, adds an audit row and commits.                          *)
(*                                                                         *)
(* Nothing locks the row between the load and the flush, and the ORM sends *)
(* an UPDATE of only the columns whose new value is not the one it loaded. *)
(* A flushed row is locked until the transaction ends.                     *)
(***************************************************************************)
EXTENDS Naturals, Sequences

CONSTANTS
    Predictions,      \* rows of the table
    Confident,        \* those whose confidence is above CONFIDENCE_THRESHOLD
    Borderline,       \* those whose confidence equals it
    ClassNames,       \* CLASS_NAMES, the labels by their id
    Admins, Reviewers, \* users, by the role they had at authentication
    Nobody,           \* relabeled_by of a row nobody has relabelled
    Missing,          \* an id, or a label, that there is not
    Requests,         \* requests in progress at a time
    MaxCalls,         \* bound: requests over all
    Faults            \* the kinds of failure that may happen

ClassIds == 0..(Len(ClassNames) - 1)
Labels == {ClassNames[i + 1] : i \in ClassIds}
Actors == Admins \cup Reviewers

ASSUME ClassAssumption ==
    /\ ClassNames \in Seq(Labels)
    /\ ClassNames # <<>>
    /\ \A i, j \in ClassIds : ClassNames[i + 1] = ClassNames[j + 1] => i = j
ASSUME ActorAssumption == Admins \cap Reviewers = {} /\ Nobody \notin Actors
ASSUME PredictionAssumption ==
    /\ Confident \cup Borderline \subseteq Predictions
    /\ Missing \notin Predictions \cup Labels
ASSUME BoundAssumption == MaxCalls \in Nat
ASSUME FaultsAssumption == Faults \subseteq {"db"}

VARIABLES
    row,         \* p -> the columns a relabel may change, as committed
    audits,      \* p -> its committed "relabel" audit rows
    calls,       \* requests so far
    at,          \* r -> where request r stands
    call,        \* r -> who asks for which label on which prediction
    seen,        \* r -> the columns its session loaded
    wrote,       \* r -> the columns it has sent and not committed
    logged,      \* the requests whose audit row is flushed and not committed
    told,        \* r -> what its answer will say
    version,     \* history: p -> UPDATEs committed
    loadedAt,    \* history: r -> version of its prediction when it was loaded
    latest,      \* history: p -> what the last of those UPDATEs was asked for
    overlapped   \* history: the predictions some request has changed that had
                 \* loaded them before another change was committed

tableVars == <<row, audits>>
sessionVars == <<at, call, seen, wrote, logged, told>>
historyVars == <<version, loadedAt, latest, overlapped>>
vars == <<tableVars, calls, sessionVars, historyVars>>

Columns == {"label_id", "label", "relabeled_by"}
Rows == [label_id : ClassIds, label : Labels, relabeled_by : Actors \cup {Nobody}]
Calls == [actor : Actors \cup {Nobody}, target : Predictions \cup {Missing},
          label : Labels \cup {Missing}]
NoCall == [actor |-> Nobody, target |-> Missing, label |-> Missing]
Places == {"idle", "begun", "loaded", "flushed", "refreshed", "logged"}

TypeOK ==
    /\ row \in [Predictions -> Rows]
    /\ audits \in [Predictions -> Nat]
    /\ calls \in 0..MaxCalls
    /\ at \in [Requests -> Places]
    /\ call \in [Requests -> Calls]
    /\ seen \in [Requests -> Rows]
    /\ wrote \in [Requests -> SUBSET Columns]
    /\ logged \subseteq Requests
    /\ told \in [Requests -> Rows]
    /\ version \in [Predictions -> Nat]
    /\ loadedAt \in [Requests -> Nat]
    /\ latest \in [Predictions -> Rows]
    /\ overlapped \subseteq Predictions

\* CLASS_NAMES.index, of a label that is one of them.
ClassIndex(label) == CHOOSE i \in ClassIds : ClassNames[i + 1] = label

RowOf(label, actor) ==
    [label_id |-> ClassIndex(label), label |-> label, relabeled_by |-> actor]

\* The row the worker made: a label of the model, nobody's correction.
Blank == RowOf(ClassNames[1], Nobody)

Init ==
    /\ row = [p \in Predictions |-> Blank]
    /\ audits = [p \in Predictions |-> 0]
    /\ calls = 0
    /\ at = [r \in Requests |-> "idle"]
    /\ call = [r \in Requests |-> NoCall]
    /\ seen = [r \in Requests |-> Blank]
    /\ wrote = [r \in Requests |-> {}]
    /\ logged = {}
    /\ told = [r \in Requests |-> Blank]
    /\ version = [p \in Predictions |-> 0]
    /\ loadedAt = [r \in Requests |-> 0]
    /\ latest = row
    /\ overlapped = {}

Target(r) == call[r].target
Asked(r) == RowOf(call[r].label, call[r].actor)

Holds(r) == wrote[r] # {}
Free(r) == \A s \in Requests \ {r} : Holds(s) => Target(s) # Target(r)

\* What a statement of r reads in its row: the columns it has sent, and
\* those committed.
View(r) ==
    LET Of(c) == IF c \in wrote[r] THEN Asked(r)[c] ELSE row[Target(r)][c]
    IN  [label_id |-> Of("label_id"), label |-> Of("label"),
         relabeled_by |-> Of("relabeled_by")]

GoesTo(r, from, to) == at[r] = from /\ at' = [at EXCEPT ![r] = to]

\* The session is closed; what it had not committed is rolled back.
Ends(r) ==
    /\ at' = [at EXCEPT ![r] = "idle"]
    /\ call' = [call EXCEPT ![r] = NoCall]
    /\ seen' = [seen EXCEPT ![r] = Blank]
    /\ wrote' = [wrote EXCEPT ![r] = {}]
    /\ logged' = logged \ {r}
    /\ told' = [told EXCEPT ![r] = Blank]
    /\ loadedAt' = [loadedAt EXCEPT ![r] = 0]

-----------------------------------------------------------------------------
\* PATCH /predictions/{id}: require_permission has let the actor through.
Begin(r) ==
    \E a \in Actors, p \in Predictions \cup {Missing}, n \in Labels \cup {Missing} :
        /\ GoesTo(r, "idle", "begun")
        /\ calls < MaxCalls
        /\ calls' = calls + 1
        /\ call' = [call EXCEPT ![r] = [actor |-> a, target |-> p, label |-> n]]
        /\ UNCHANGED <<tableVars, seen, wrote, logged, told, historyVars>>

\* An administrator may change any label, a reviewer those below the threshold.
MayRelabel(r) ==
    call[r].actor \in Admins \/ Target(r) \notin Confident \cup Borderline

\* The row as it is when the request reads it.
Load(r) ==
    /\ GoesTo(r, "begun", "loaded")
    /\ Target(r) # Missing
    /\ MayRelabel(r)
    /\ call[r].label # Missing
    /\ seen' = [seen EXCEPT ![r] = row[Target(r)]]
    /\ loadedAt' = [loadedAt EXCEPT ![r] = version[Target(r)]]
    /\ UNCHANGED <<tableVars, calls, call, wrote, logged, told, version, latest, overlapped>>

\* PredictionNotFound, UnauthorizedRelabel or InvalidLabel.
Refuse(r) ==
    /\ at[r] = "begun"
    /\ Target(r) = Missing \/ ~MayRelabel(r) \/ call[r].label = Missing
    /\ Ends(r)
    /\ UNCHANGED <<tableVars, calls, version, latest, overlapped>>

\* Mutant: the id of the label is not updated.
ChangedNoId(r) == {c \in {"label", "relabeled_by"} : Asked(r)[c] # seen[r][c]}

\* Mutant: the first to relabel a prediction stays its relabeled_by.
ChangedFirstBy(r) ==
    {c \in Columns : Asked(r)[c] # seen[r][c]
                     /\ (c = "relabeled_by" => seen[r].relabeled_by = Nobody)}

\* The columns whose new value is not the one loaded.
Changed(r) == {c \in Columns : Asked(r)[c] # seen[r][c]}

\* update_label assigns and flushes; with no column changed nothing is sent.
Flush(r) ==
    /\ GoesTo(r, "loaded", "flushed")
    /\ Changed(r) # {} => Free(r)
    /\ wrote' = [wrote EXCEPT ![r] = Changed(r)]
    /\ UNCHANGED <<tableVars, calls, call, seen, logged, told, historyVars>>

\* Mutant: the answer is what the request asked for.
RefreshForgotten(r) ==
    /\ GoesTo(r, "flushed", "refreshed")
    /\ told' = [told EXCEPT ![r] = Asked(r)]
    /\ UNCHANGED <<tableVars, calls, call, seen, wrote, logged, historyVars>>

\* session.refresh: the answer is what the row now says.
Refresh(r) ==
    /\ GoesTo(r, "flushed", "refreshed")
    /\ told' = [told EXCEPT ![r] = View(r)]
    /\ UNCHANGED <<tableVars, calls, call, seen, wrote, logged, historyVars>>

\* Mutant: an audit row that cannot be written does not stop the relabel.
LogTolerant(r) ==
    /\ GoesTo(r, "refreshed", "logged")
    /\ logged' \in {logged, logged \cup {r}}
    /\ UNCHANGED <<tableVars, calls, call, seen, wrote, told, historyVars>>

LogRelabel(r) ==
    /\ GoesTo(r, "refreshed", "logged")
    /\ logged' = logged \cup {r}
    /\ UNCHANGED <<tableVars, calls, call, seen, wrote, told, historyVars>>

\* One transaction for the columns and the audit row.
Commit(r) ==
    LET p == Target(r) IN
    /\ at[r] = "logged"
    /\ row' = [row EXCEPT ![p] = View(r)]
    /\ audits' = [audits EXCEPT ![p] = @ + (IF r \in logged THEN 1 ELSE 0)]
    /\ IF Holds(r)
       THEN /\ version' = [version EXCEPT ![p] = @ + 1]
            /\ latest' = [latest EXCEPT ![p] = Asked(r)]
            /\ overlapped' = IF loadedAt[r] = version[p] THEN overlapped
                             ELSE overlapped \cup {p}
       ELSE UNCHANGED <<version, latest, overlapped>>
    /\ Ends(r)
    /\ UNCHANGED calls

\* A statement or the commit raises: everything is rolled back.
Fail(r) ==
    /\ "db" \in Faults
    /\ at[r] # "idle"
    /\ Ends(r)
    /\ UNCHANGED <<tableVars, calls, version, latest, overlapped>>

Next ==
    \E r \in Requests :
        \/ Begin(r)
        \/ Load(r)
        \/ Refuse(r)
        \/ Flush(r)
        \/ Refresh(r)
        \/ LogRelabel(r)
        \/ Commit(r)
        \/ Fail(r)

Spec == Init /\ [][Next]_vars
-----------------------------------------------------------------------------
\* The id and the label of a prediction name the same class, whichever of
\* their columns each of several requests at once has sent.
IdNamesLabel ==
    \A p \in Predictions : row[p].label = ClassNames[row[p].label_id + 1]

\* At and above the threshold every correction is an administrator's
\* (prediction_service.py:67), whoever else was at the row meanwhile.
ThresholdKept ==
    \A p \in Confident \cup Borderline :
        row[p].relabeled_by \in Admins \cup {Nobody}

\* No change is committed without its audit row (ARCH.md:180).
ChangesAudited == \A p \in Predictions : version[p] <= audits[p]

\* Unless two requests overlapped, a prediction has the label that the one
\* named in relabeled_by asked for last.  (When they did, one of them may
\* have sent relabeled_by only, and be named beside the label of the other.)
CreditIsDue == \A p \in Predictions \ overlapped : row[p] = latest[p]

\* A request that changed the row answers with what it committed, though
\* that may be another's label: what it reads back it has locked.
AnswerHolds ==
    [][\A r \in Requests :
          at[r] = "logged" /\ Holds(r) /\ version'[Target(r)] # version[Target(r)] =>
              row'[Target(r)] = told[r]]_vars

-----------------------------------------------------------------------------
(* However the requests interleave and fail, the committed rows go from    *)
(* correction to correction as Labelling says.                             *)

Promise == INSTANCE Labelling WITH
    Classes <- {<<i, ClassNames[i + 1]>> : i \in ClassIds},
    Allowed <- {pair \in Actors \X Predictions :
                  pair[1] \in Admins \/ pair[2] \notin Confident \cup Borderline},
    class <- [p \in Predictions |-> <<row[p].label_id, row[p].label>>],
    by <- [p \in Predictions |-> row[p].relabeled_by]

\* Each committed request is one correction by somebody who may make it,
\* with its audit row; a request that fails has made none.
ImplementsLabelling == Promise!Spec

-----------------------------------------------------------------------------
(* The inductive invariant.                                                *)

Working == {"loaded", "flushed", "refreshed", "logged"}

\* Beyond its checks a request is about a row there is, a label there is and
\* somebody who may change it; it has sent what it found changed, and has
\* flushed its audit row at the last.
SessionConsistent ==
    \A r \in Requests :
        /\ at[r] # "idle" => call[r].actor \in Actors
        /\ at[r] \in Working =>
               /\ Target(r) \in Predictions
               /\ call[r].label \in Labels
               /\ MayRelabel(r)
        /\ at[r] \in {"idle", "begun", "loaded"} => wrote[r] = {}
        /\ at[r] \in {"flushed", "refreshed", "logged"} => wrote[r] = Changed(r)
        /\ r \in logged <=> at[r] = "logged"

\* The row lock.
OneHolder ==
    \A r, s \in Requests :
        Holds(r) /\ Holds(s) /\ Target(r) = Target(s) => r = s

\* What a request has loaded is what the row still says, unless an UPDATE
\* was committed since.
SeenUntilChanged ==
    \A r \in Requests :
        at[r] \in Working =>
            /\ seen[r].label = ClassNames[seen[r].label_id + 1]
            /\ loadedAt[r] = version[Target(r)] => seen[r] = row[Target(r)]
            /\ loadedAt[r] <= version[Target(r)]
            /\ seen[r].relabeled_by # Nobody => row[Target(r)].relabeled_by # Nobody

\* What a request that holds its row will answer is what the row would say
\* if it committed now.
ToldHolds ==
    \A r \in Requests :
        at[r] \in {"refreshed", "logged"} /\ Holds(r) => told[r] = View(r)

IInv ==
    /\ TypeOK
    /\ SessionConsistent
    /\ OneHolder
    /\ SeenUntilChanged
    /\ ToldHolds
    /\ IdNamesLabel
    /\ ThresholdKept
    /\ ChangesAudited
    /\ CreditIsDue
=============================================================================
