------------------------------ MODULE MCPolling ------------------------------
(***************************************************************************)
(* Instances of Polling for TLC.                                           *)
(***************************************************************************)
EXTENDS Polling, TLC

CONSTANTS u1, t1, t2

Symmetry == Permutations(Tabs)
=============================================================================
