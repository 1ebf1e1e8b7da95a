----------------------------- MODULE MCPipeline -----------------------------
(***************************************************************************)
(* Instances of Pipeline for TLC.                                          *)
(***************************************************************************)
EXTENDS Pipeline, TLC

CONSTANTS u1, u2, u3, w1, w2

Symmetry == Permutations({u1, u2}) \cup Permutations({w1, w2})

\* Anything may fail, around every upload.
AnyFaults == [u \in Uploads |-> FaultKinds]

\* u1 meets aborted requests only, the unreadable u3 failing steps besides,
\* and everything may happen to u2, which shares their queue.
MixedFaults == [u \in Uploads |-> IF u = u1 THEN {"request"}
                                 ELSE IF u = u3 THEN {"step"}
                                 ELSE FaultKinds \ {"request"}]

NoFaults == [u \in Uploads |-> {}]
=============================================================================
