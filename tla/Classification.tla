--------------------------- MODULE Classification ---------------------------
(***************************************************************************)
(* What the service promises about an upload, without saying how: once it  *)
(* is accepted it is classified at most once or lost, never both, and the  *)
(* status a client reads is never "done" before there is a prediction to   *)
(* fetch.  The status is only a report: it may lag behind the outcome, it  *)
(* may go back to "processing", but not beyond, and it may say "failed" of *)
(* an upload that is classified.                                           *)
(***************************************************************************)

CONSTANT Uploads

VARIABLES
    outcome,   \* u -> "none", "accepted", "classified" or "lost"
    status     \* u -> what GET /batches/{bid} answers, or "absent"

vars == <<outcome, status>>

Init ==
    /\ outcome = [u \in Uploads |-> "none"]
    /\ status = [u \in Uploads |-> "absent"]

Becomes(u, from, to) ==
    /\ outcome[u] = from
    /\ outcome' = [outcome EXCEPT ![u] = to]
    /\ UNCHANGED status

\* A batch nobody has announced cannot be accepted for classification.
Accept(u) == status[u] # "absent" /\ Becomes(u, "none", "accepted")

Classify(u) == Becomes(u, "accepted", "classified")

Lose(u) == Becomes(u, "accepted", "lost")

\* The verdicts a client may be told, given what has become of the upload.
Truthful(u, s) ==
    \/ s = "pending" /\ outcome[u] = "none" /\ status[u] = "absent"
    \/ s = "processing" /\ status[u] # "absent"
    \/ s = "done" /\ outcome[u] = "classified"
    \/ s = "failed" /\ outcome[u] \in {"accepted", "classified"}

Report(u) ==
    \E s \in {"pending", "processing", "done", "failed"} :
        /\ Truthful(u, s)
        /\ status' = [status EXCEPT ![u] = s]
        /\ UNCHANGED outcome

Next == \E u \in Uploads : Accept(u) \/ Classify(u) \/ Lose(u) \/ Report(u)

Spec == Init /\ [][Next]_vars

\* Nothing accepted is left unresolved.
FairSpec == Spec /\ \A u \in Uploads : WF_vars(Classify(u) \/ Lose(u))
=============================================================================
