-------------------------------- MODULE Inbox --------------------------------
(***************************************************************************)
(* What the SFTP ingest promises a scanner, without saying how the poller  *)
(* goes about it.  A drop lies in the upload folder until it is replaced   *)
(* or filed; it is filed once it has been ingested, and stays filed, the   *)
(* only one of its name.  One exception is owned up to: a drop that comes  *)
(* over another, while that one is being read, may be filed in its stead,  *)
(* and then its own bytes are never ingested.                              *)
(***************************************************************************)
EXTENDS Naturals

CONSTANTS Names, MaxDrops

None == 0

VARIABLES
    waiting,     \* name -> the drop in the upload folder, or None
    filed,       \* name -> the drop in the processed folder, or None
    delivered,   \* drops so far: they are numbered as they come
    ingested,    \* the drops whose bytes have a job
    late         \* the drops that came over one being read

vars == <<waiting, filed, delivered, ingested, late>>

Init ==
    /\ waiting = [n \in Names |-> None]
    /\ filed = waiting
    /\ delivered = 0
    /\ ingested = {}
    /\ late = {}

Deliver(n) ==
    /\ delivered < MaxDrops
    /\ delivered' = delivered + 1
    /\ waiting' = [waiting EXCEPT ![n] = delivered']
    /\ \/ late' = late
       \/ waiting[n] # None /\ late' = late \cup {delivered'}
    /\ UNCHANGED <<filed, ingested>>

Ingest(d) ==
    /\ d \in 1..delivered
    /\ \A n \in Names : filed[n] # d
    /\ ingested' = ingested \cup {d}
    /\ UNCHANGED <<waiting, filed, delivered, late>>

File(n) ==
    /\ waiting[n] \in ingested \cup late
    /\ filed[n] = None
    /\ filed' = [filed EXCEPT ![n] = waiting[n]]
    /\ waiting' = [waiting EXCEPT ![n] = None]
    /\ UNCHANGED <<delivered, ingested, late>>

Next ==
    \/ \E n \in Names : Deliver(n) \/ File(n)
    \/ \E d \in 1..MaxDrops : Ingest(d)

Spec == Init /\ [][Next]_vars
=============================================================================
