------------------------------- MODULE MCRoles -------------------------------
(***************************************************************************)
(* Instances of Roles for TLC.                                             *)
(***************************************************************************)
EXTENDS Roles, TLC

CONSTANTS ann, bob, joe, r1, r2

Symmetry == Permutations({r1, r2})
=============================================================================
