------------------------------ MODULE MCRelabel ------------------------------
(***************************************************************************)
(* Instances of Relabel for TLC.                                           *)
(***************************************************************************)
EXTENDS Relabel, TLC

CONSTANTS p1, p2, ann, bob, letter, memo, r1, r2

TwoClasses == <<letter, memo>>

Symmetry == Permutations(Requests)
=============================================================================
