------------------------------ MODULE MCStartup ------------------------------
(***************************************************************************)
(* Instances of Startup for TLC.                                           *)
(***************************************************************************)
EXTENDS Startup

CONSTANTS jwt, database, old, new, read, relabel

Environment(k, d, s, v, g) ==
    [secrets |-> [f \in Fields |-> IF f = jwt THEN k ELSE d], secretKey |-> s,
     requireVault |-> v, debug |-> g, origins |-> TRUE,
     demo |-> g, credentials |-> TRUE]

\* As compose has it, as it is without Vault, with other secrets, and with
\* no password for the database.
SomeEnvironments ==
    {Environment(old, old, new, TRUE, TRUE),
     Environment(old, old, new, FALSE, FALSE),
     Environment(new, new, new, TRUE, FALSE),
     Environment(Empty, Empty, old, TRUE, FALSE)}

\* And some that no server may run with.
AllEnvironments ==
    SomeEnvironments \cup
    {Environment(Empty, old, Empty, FALSE, FALSE),
     [Environment(old, old, old, TRUE, FALSE) EXCEPT !.origins = FALSE],
     [Environment(old, old, old, TRUE, TRUE) EXCEPT !.credentials = FALSE]}
=============================================================================
