------------------------------ MODULE Labelling -------------------------------
(***************************************************************************)
(* What correcting a label promises, without saying how requests read and  *)
(* write the row.  A correction is one step: somebody who may correct this *)
(* prediction names a class, and what it leaves undone of that (because    *)
(* the prediction already was of the class, or another correction came     *)
(* between) it leaves as it was; it never leaves half a class, takes a     *)
(* class nobody named, or makes the prediction nobody's correction again.  *)
(***************************************************************************)
EXTENDS Naturals

CONSTANTS
    Predictions,
    Classes,     \* an id and its label
    Nobody,      \* whose correction a prediction is before the first
    Allowed      \* who may correct what: a set of <<user, prediction>>

VARIABLES
    class,       \* p -> its class
    by,          \* p -> who is named as having corrected it
    audits       \* p -> corrections on record

vars == <<class, by, audits>>

Init ==
    /\ class \in [Predictions -> Classes]
    /\ by = [p \in Predictions |-> Nobody]
    /\ audits = [p \in Predictions |-> 0]

Correct(p, u, c) ==
    /\ <<u, p>> \in Allowed
    /\ \E k \in {class[p], c} : class' = [class EXCEPT ![p] = k]
    /\ \E w \in {by[p], u} \ {Nobody} : by' = [by EXCEPT ![p] = w]
    /\ audits' = [audits EXCEPT ![p] = @ + 1]

Next ==
    \E pair \in Allowed, c \in Classes : Correct(pair[2], pair[1], c)

Spec == Init /\ [][Next]_vars
=============================================================================
