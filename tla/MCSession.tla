------------------------------ MODULE MCSession ------------------------------
(***************************************************************************)
(* Instances of Session for TLC.                                           *)
(***************************************************************************)
EXTENDS Session, TLC

CONSTANTS alice, bob, t1, t2, first, second

Symmetry == Permutations(Tabs) \cup Permutations(Users) \cup Permutations(Loads)
=============================================================================
