-------------------------- MODULE SftpIngestProofs --------------------------
(***************************************************************************)
(* Proofs about SftpIngest, for any names, any bounds and any faults.      *)
(***************************************************************************)
EXTENDS SftpIngest, TLAPS

\* What the drops are made of, once and for all.
LEMMA Numbers ==
  ASSUME TypeOK
  PROVE  /\ drops \in Nat /\ bytes \in Nat
         /\ \A n \in Names : upload[n] \in Nat /\ archive[n] \in Nat
         /\ \A n \in Names : upload[n] # None => upload[n] \in Drops
         /\ \A n \in Names : archive[n] # None => archive[n] \in Drops
         /\ bytes # None => bytes \in Drops
         /\ \A d \in Drops : d \in Nat /\ jobs[d] \in Nat /\ interrupted[d] \in Nat
<1> USE BoundsAssumption DEF Drops, None, TypeOK
<1>1. drops \in Nat /\ bytes \in Nat /\ (bytes # None => bytes \in Drops)
  OBVIOUS
<1>2. ASSUME NEW n \in Names
      PROVE  upload[n] \in 0..MaxDrops /\ archive[n] \in 0..MaxDrops
  OBVIOUS
<1>3. ASSUME NEW d \in Drops
      PROVE  d \in Nat /\ jobs[d] \in Nat /\ interrupted[d] \in Nat
  OBVIOUS
<1> QED
  BY <1>1, <1>2, <1>3

LEMMA InitIInv == Init => IInv
<1> USE BoundsAssumption DEF Init, Drops, None
<1>1. Init => TypeOK
  <2>1. 0 \in 0..MaxDrops /\ 0 \in 0..MaxJobs
    OBVIOUS
  <2> QED
    BY <2>1 DEF TypeOK, PassStates
<1>2. Init => FoldersConsistent /\ PassConsistent /\ IngestsCounted
  BY TiffsAssumption DEF FoldersConsistent, PassConsistent, IngestsCounted
<1>3. Init => DuplicatesExplained /\ ArchivedIsIngested /\ RememberedIsDone
  BY DEF DuplicatesExplained, ArchivedIsIngested, RememberedIsDone
<1> QED
  BY <1>1, <1>2, <1>3 DEF IInv

\* What the invariant says of the names filed away and not remembered is all
\* there is to know of the stuck ones.
LEMMA StuckNames == ASSUME TypeOK, PassConsistent PROVE StuckWasForgotten
<1>1. SUFFICES ASSUME NEW n \in Names, Stuck(n) PROVE n \in forgotten
  BY DEF StuckWasForgotten
<1>2. CASE pc = "moved"
  BY <1>1, <1>2 DEF Stuck, PassConsistent
<1>3. CASE pc # "moved"
  BY <1>1, <1>3 DEF Stuck, PassConsistent
<1> QED
  BY <1>2, <1>3

LEMMA MoreProperties ==
  ASSUME NEW n \in 0..MaxJobs
  PROVE  /\ More(n) \in 0..MaxJobs /\ n <= More(n) /\ More(n) <= n + 1 /\ More(n) >= 1
         /\ \A k \in 0..MaxJobs : k <= n + 1 => k <= More(n)
  BY BoundsAssumption DEF More

\* A delivery brings a drop nobody has seen: it has no job, and its number
\* is above every other.
LEMMA DeliverIInv ==
  ASSUME IInv, NEW n \in Names, Drop(n) \/ Replace(n)
  PROVE  IInv'
<1> DEFINE new == drops + 1
<1> USE BoundsAssumption DEF Drops, None
<1>1. /\ new \in Drops /\ new # None /\ new > drops /\ drops \in Nat
      /\ drops' = new
      /\ upload' = [upload EXCEPT ![n] = new]
      /\ UNCHANGED <<archive, processed, pc, todo, file, bytes, jobs, interrupted, forgotten>>
  BY DEF IInv, TypeOK, Drop, Replace, Deliver, poller
<1>2. /\ overwrote' \subseteq overwrote \cup {new} /\ overwrote \subseteq overwrote'
      /\ upload[n] # None /\ pc \in {"downloaded", "enqueued"} /\ file = n => new \in overwrote'
  BY DEF Drop, Replace
<1>3. jobs[new] = 0 /\ interrupted[new] \in Nat
  BY <1>1 DEF IInv, FoldersConsistent, TypeOK
<1> HIDE DEF new
<1>4. TypeOK'
  <2>1. /\ drops' \in 0..MaxDrops /\ overwrote' \subseteq Drops
        /\ upload' \in [Names -> 0..MaxDrops]
    BY <1>1, <1>2 DEF IInv, TypeOK
  <2> QED
    BY <1>1, <2>1 DEF IInv, TypeOK
<1>5. FoldersConsistent'
  <2>1. \A m \in Names : upload[m] <= drops /\ archive[m] <= drops
                         /\ upload[m] \in Nat /\ archive[m] \in Nat
    BY Numbers DEF IInv, FoldersConsistent
  <2>2. \A m \in Names : upload'[m] = IF m = n THEN new ELSE upload[m]
    BY <1>1 DEF IInv, TypeOK
  <2> QED
    BY <1>1, <2>1, <2>2 DEF IInv, FoldersConsistent
<1>6. PassConsistent'
  <2>1. bytes <= drops => bytes <= drops'
    BY <1>1 DEF IInv, TypeOK
  <2>2. \A m \in Names : upload'[m] = IF m = n THEN new ELSE upload[m]
    BY <1>1 DEF IInv, TypeOK
  <2>3. file \in Names /\ todo \subseteq Names
    BY DEF IInv, TypeOK
  <2> QED
    BY <1>1, <1>2, <2>1, <2>2, <2>3 DEF IInv, PassConsistent
<1>7. IngestsCounted'
  BY <1>1, <1>3 DEF IInv, IngestsCounted, TypeOK
<1>8. DuplicatesExplained' /\ ArchivedIsIngested'
  BY <1>1, <1>2 DEF IInv, DuplicatesExplained, ArchivedIsIngested
<1>9. RememberedIsDone'
  <2>1. \A m \in Names : archive[m] <= drops /\ archive[m] \in Nat
    BY Numbers DEF IInv, FoldersConsistent
  <2> QED
    BY <1>1, <2>1 DEF IInv, RememberedIsDone, TypeOK
<1> QED
  BY <1>4, <1>5, <1>6, <1>7, <1>8, <1>9 DEF IInv

\* The steps that look at the listing.
LEMMA ScanIInv ==
  ASSUME IInv, \/ List \/ EndPass
               \/ \E n \in Names : SkipProcessed(n) \/ SkipUnsupported(n)
  PROVE  IInv'
<1> USE DEF IInv, List, EndPass, SkipProcessed, SkipUnsupported, folders
<1>1. TypeOK'
  BY DEF TypeOK, PassStates
<1>2. FoldersConsistent'
  BY DEF FoldersConsistent
<1>3. PassConsistent' /\ IngestsCounted'
  BY DEF PassConsistent, IngestsCounted
<1>4. DuplicatesExplained' /\ ArchivedIsIngested'
  BY DEF DuplicatesExplained, ArchivedIsIngested
<1>5. RememberedIsDone'
  BY DEF RememberedIsDone
<1> QED
  BY <1>1, <1>2, <1>3, <1>4, <1>5

LEMMA DownloadIInv == ASSUME IInv, NEW n \in Names, Download(n) PROVE IInv'
<1> USE DEF IInv, Download, folders
<1>1. TypeOK'
  BY DEF TypeOK, PassStates
<1>2. FoldersConsistent'
  BY DEF FoldersConsistent
<1>3. PassConsistent'
  BY DEF PassConsistent, FoldersConsistent, TypeOK
<1>4. IngestsCounted'
  BY DEF IngestsCounted, PassConsistent, TypeOK
<1>5. DuplicatesExplained' /\ ArchivedIsIngested' /\ RememberedIsDone'
  BY DEF DuplicatesExplained, ArchivedIsIngested, RememberedIsDone
<1> QED
  BY <1>1, <1>2, <1>3, <1>4, <1>5

LEMMA IngestIInv == ASSUME IInv, Ingest PROVE IInv'
<1> USE BoundsAssumption DEF IInv, Ingest, folders, Drops, None
<1>1. /\ bytes \in Drops /\ bytes <= drops /\ jobs[bytes] <= interrupted[bytes]
      /\ jobs[bytes] \in 0..MaxJobs /\ interrupted[bytes] \in 0..MaxJobs
  BY DEF PassConsistent, IngestsCounted, TypeOK
<1>2. PICK more \in 0..MaxJobs :
        /\ jobs' = [jobs EXCEPT ![bytes] = more]
        /\ jobs[bytes] <= more /\ more >= 1 /\ more <= 1 + interrupted[bytes]
  <2>1. /\ More(jobs[bytes]) \in 0..MaxJobs /\ jobs[bytes] <= More(jobs[bytes])
        /\ More(jobs[bytes]) >= 1 /\ More(jobs[bytes]) <= jobs[bytes] + 1
    BY <1>1, MoreProperties
  <2>2. More(jobs[bytes]) <= 1 + interrupted[bytes]
    BY <1>1, <2>1
  <2> QED
    BY <2>1, <2>2
<1>3. /\ pc = "downloaded" /\ pc' = "enqueued"
      /\ UNCHANGED <<upload, archive, drops, overwrote, processed, todo, file, bytes,
                     interrupted, forgotten>>
  OBVIOUS
<1>4. \A d \in Drops : jobs[d] \in Nat /\ jobs'[d] = IF d = bytes THEN more ELSE jobs[d]
  BY <1>2, Numbers DEF TypeOK
<1> HIDE DEF Ingest
<1>5. TypeOK'
  BY <1>1, <1>2, <1>3 DEF TypeOK, PassStates
<1>6. FoldersConsistent'
  BY <1>1, <1>3, <1>4, Numbers DEF FoldersConsistent
<1>7. PassConsistent'
  BY <1>1, <1>2, <1>3, <1>4 DEF PassConsistent, TypeOK
<1>8. IngestsCounted'
  <2>1. \A n \in Names : upload[n] # None => upload[n] \in Drops
    BY Numbers
  <2> QED
    BY <1>1, <1>3, <1>4, <2>1 DEF IngestsCounted
<1>9. DuplicatesExplained'
  BY <1>1, <1>2, <1>3, <1>4 DEF DuplicatesExplained
<1>10. ArchivedIsIngested'
  <2>1. \A n \in Names : archive[n] # None => archive[n] \in Drops
    BY Numbers
  <2> QED
    BY <1>1, <1>2, <1>3, <1>4, <2>1 DEF ArchivedIsIngested
<1>11. RememberedIsDone'
  BY <1>3 DEF RememberedIsDone
<1> QED
  BY <1>5, <1>6, <1>7, <1>8, <1>9, <1>10, <1>11

\* What is moved is what was ingested, or was put over it.
LEMMA MoveIInv == ASSUME IInv, Move PROVE IInv'
<1> USE DEF IInv, Move, Drops, None
<1>1. TypeOK'
  BY DEF TypeOK, PassStates
<1>2. FoldersConsistent'
  BY DEF FoldersConsistent, TypeOK
<1>3. PassConsistent'
  BY DEF PassConsistent, TypeOK
<1>4. IngestsCounted'
  BY DEF IngestsCounted, PassConsistent, FoldersConsistent, TypeOK
<1>5. DuplicatesExplained'
  BY DEF DuplicatesExplained
<1>6. ArchivedIsIngested'
  BY DEF ArchivedIsIngested, PassConsistent, TypeOK
<1>7. RememberedIsDone'
  BY DEF RememberedIsDone, PassConsistent, TypeOK
<1> QED
  BY <1>1, <1>2, <1>3, <1>4, <1>5, <1>6, <1>7

LEMMA MarkIInv == ASSUME IInv, Mark PROVE IInv'
<1> USE DEF IInv, Mark, folders, None
<1>1. TypeOK' /\ FoldersConsistent'
  BY DEF TypeOK, PassStates, FoldersConsistent
<1>2. PassConsistent' /\ IngestsCounted'
  BY DEF PassConsistent, IngestsCounted
<1>3. DuplicatesExplained' /\ ArchivedIsIngested'
  BY DEF DuplicatesExplained, ArchivedIsIngested
<1>4. RememberedIsDone'
  BY DEF RememberedIsDone, PassConsistent, FoldersConsistent, TypeOK
<1> QED
  BY <1>1, <1>2, <1>3, <1>4

\* A pass that ends early is counted when it had enqueued its file, so the
\* file may be ingested again.
LEMMA LeavePassIInv ==
  ASSUME IInv, LeavePass,
         \/ /\ UNCHANGED processed
            /\ forgotten' = IF pc = "moved" THEN forgotten \cup {file} ELSE forgotten
         \/ processed' = {} /\ forgotten' = {n \in Names : archive[n] # None}
  PROVE  IInv'
<1> USE DEF IInv, LeavePass, folders, Drops, None
<1>1. pc = "enqueued" => bytes \in Drops /\ jobs[bytes] \in 0..MaxJobs
                           /\ interrupted[bytes] \in 0..MaxJobs
  BY DEF PassConsistent, TypeOK
<1>2. PICK more \in 0..MaxJobs :
        /\ interrupted' = IF pc = "enqueued" THEN [interrupted EXCEPT ![bytes] = more]
                          ELSE interrupted
        /\ pc = "enqueued" => interrupted[bytes] <= more /\ jobs[bytes] <= more
  <2>1. CASE pc = "enqueued"
    <3>1. /\ More(interrupted[bytes]) \in 0..MaxJobs
          /\ interrupted[bytes] <= More(interrupted[bytes])
          /\ jobs[bytes] <= interrupted[bytes] + 1 => jobs[bytes] <= More(interrupted[bytes])
      BY <1>1, <2>1, MoreProperties
    <3>2. jobs[bytes] <= interrupted[bytes] + 1
      BY <1>1, <2>1 DEF DuplicatesExplained
    <3>3. interrupted' = [interrupted EXCEPT ![bytes] = More(interrupted[bytes])]
      BY <2>1
    <3> QED
      BY <2>1, <3>1, <3>2, <3>3
  <2>2. CASE pc # "enqueued"
    <3>1. 0 \in 0..MaxJobs
      BY BoundsAssumption
    <3> QED
      BY <2>2, <3>1
  <2> QED
    BY <2>1, <2>2
<1>3. /\ pc' = "asleep" /\ todo' = {}
      /\ UNCHANGED <<upload, archive, drops, overwrote, file, bytes, jobs>>
  OBVIOUS
<1>4. \A d \in Drops : /\ jobs[d] \in Nat /\ interrupted[d] \in Nat
                        /\ interrupted'[d] = IF pc = "enqueued" /\ d = bytes THEN more
                                             ELSE interrupted[d]
  BY <1>2, Numbers DEF TypeOK
<1> HIDE DEF LeavePass
<1>5. TypeOK'
  BY <1>1, <1>2, <1>3 DEF TypeOK, PassStates
<1>6. FoldersConsistent' /\ PassConsistent'
  BY <1>3, TiffsAssumption DEF FoldersConsistent, PassConsistent, TypeOK
<1>7. IngestsCounted'
  <2>1. \A n \in Names : upload[n] # None => upload[n] \in Drops
    BY Numbers
  <2> QED
    BY <1>1, <1>2, <1>3, <1>4, <2>1 DEF IngestsCounted
<1>8. DuplicatesExplained'
  BY <1>1, <1>2, <1>3, <1>4 DEF DuplicatesExplained
<1>9. ArchivedIsIngested' /\ RememberedIsDone'
  BY <1>3 DEF ArchivedIsIngested, RememberedIsDone
<1> QED
  BY <1>5, <1>6, <1>7, <1>8, <1>9

LEMMA StepIInv == IInv /\ [Next]_vars => IInv'
<1> SUFFICES ASSUME IInv, [Next]_vars PROVE IInv'
  OBVIOUS
<1>1. CASE UNCHANGED vars
  BY <1>1
  DEF IInv, vars, folders, poller, TypeOK, FoldersConsistent, PassConsistent, IngestsCounted,
      DuplicatesExplained, ArchivedIsIngested, RememberedIsDone
<1>2. CASE MoveRefused \/ PassFails \/ Restart
  BY <1>2, LeavePassIInv DEF MoveRefused, PassFails, Restart
<1>3. CASE PollerStep
  BY <1>2, <1>3, ScanIInv, DownloadIInv, IngestIInv, MoveIInv, MarkIInv DEF PollerStep
<1> QED
  BY <1>1, <1>2, <1>3, DeliverIInv DEF Next

\* The inductive invariant of the poller.
THEOREM Invariance == Spec => []IInv
  BY InitIInv, StepIInv, PTL DEF Spec

\* Every variable keeps its type.
THEOREM TypeCorrect == Spec => []TypeOK
  BY Invariance, PTL DEF IInv

\* A drop has at most one job more than it has interrupted passes.
THEOREM DuplicatesAreExplained == Spec => []DuplicatesExplained
  BY Invariance, PTL DEF IInv

\* Nothing is filed away unread, but for what was put over a file at hand.
THEOREM ArchiveIsIngested == Spec => []ArchivedIsIngested
  BY Invariance, PTL DEF IInv

\* The memory of the poller never hides a TIFF that was not handled before.
THEOREM MemoryIsSound == Spec => []RememberedIsDone
  BY Invariance, PTL DEF IInv

\* A name in both folders that is not remembered was filed away before a
\* restart, or by a rename whose reply was lost: a poller that lives and hears
\* of its renames stops at no file for ever.
THEOREM OnlyLossesForget == Spec => []StuckWasForgotten
<1>1. IInv => StuckWasForgotten
  BY StuckNames DEF IInv
<1> QED
  BY <1>1, Invariance, PTL

-----------------------------------------------------------------------------
(* The poller keeps the promise of Inbox.                                  *)

\* The drops that were ingested, as Inbox sees them.
Ingested == {d \in Drops : jobs[d] >= 1}

LEMMA InitPromise == Init => Promise!Init
  BY BoundsAssumption DEF Init, Promise!Init, Promise!None, None, Drops

\* A delivery of the one is a delivery of the other.
LEMMA DeliverPromise ==
  ASSUME IInv, NEW n \in Names, Drop(n) \/ Replace(n)
  PROVE  Promise!Deliver(n)
<1>1. Ingested' = Ingested
  BY DEF Ingested, Drop, Replace, Deliver
<1>2. drops < MaxDrops /\ drops' = drops + 1
      /\ upload' = [upload EXCEPT ![n] = drops'] /\ UNCHANGED archive
  BY DEF Drop, Replace, Deliver
<1>3. overwrote' = overwrote \/ (upload[n] # None /\ overwrote' = overwrote \cup {drops'})
  BY <1>2 DEF Drop, Replace
<1> QED
  BY <1>1, <1>2, <1>3 DEF Promise!Deliver, Promise!None, Ingested, None

\* Where neither folder and no count of jobs changes, Inbox stands still.
LEMMA QuietPromise ==
  ASSUME UNCHANGED <<folders, jobs>>
  PROVE  UNCHANGED Promise!vars
  BY DEF folders, Promise!vars

\* An ingest is one whether the drop has a job already or not.
LEMMA IngestPromise ==
  ASSUME IInv, Ingest, NEW d \in 1..MaxDrops, d = bytes
  PROVE  Promise!Ingest(d)
<1> USE BoundsAssumption DEF IInv, Drops, None
<1>1. bytes \in Drops /\ bytes \in 1..drops /\ jobs[bytes] \in 0..MaxJobs
      /\ \A n \in Names : archive[n] # bytes
  BY DEF Ingest, PassConsistent, TypeOK
<1>2. More(jobs[bytes]) >= 1 /\ More(jobs[bytes]) \in 0..MaxJobs
  BY <1>1, MoreProperties
<1>3. jobs' = [jobs EXCEPT ![bytes] = More(jobs[bytes])]
      /\ UNCHANGED <<upload, archive, drops, overwrote>>
  BY DEF Ingest, folders
<1>4. \A e \in Drops : jobs'[e] = IF e = bytes THEN More(jobs[bytes]) ELSE jobs[e]
  BY <1>3 DEF TypeOK
<1>5. Ingested' = Ingested \cup {bytes}
  BY <1>1, <1>2, <1>4 DEF Ingested
<1> QED
  BY <1>1, <1>3, <1>5 DEF Promise!Ingest, Ingested

\* What is moved was ingested, or lies over what was.
LEMMA MovePromise ==
  ASSUME IInv, Move, NEW n \in Names, n = file
  PROVE  Promise!File(n)
<1>1. /\ archive[file] = None
      /\ archive' = [archive EXCEPT ![file] = upload[file]]
      /\ upload' = [upload EXCEPT ![file] = None]
      /\ UNCHANGED <<drops, overwrote, jobs>>
  BY DEF Move
<1>2. upload[file] \in Ingested \cup overwrote
  BY DEF IInv, Move, PassConsistent, TypeOK, Ingested, Drops, None
<1> QED
  BY <1>1, <1>2 DEF Promise!File, Promise!None, Ingested, None

\* For any names, deliveries and faults the poller implements Inbox.
THEOREM Implementation == Spec => KeepsInbox
<1>1. IInv /\ [Next]_vars => [Promise!Next]_(Promise!vars)
  <2> SUFFICES ASSUME IInv, [Next]_vars PROVE [Promise!Next]_(Promise!vars)
    OBVIOUS
  <2>1. CASE \E n \in Names : Drop(n) \/ Replace(n)
    BY <2>1, DeliverPromise DEF Promise!Next
  <2>2. CASE Ingest
    <3>1. PICK d \in 1..MaxDrops : d = bytes
      BY <2>2 DEF IInv, Ingest, PassConsistent, TypeOK, None
    <3>2. Promise!Ingest(d)
      BY <2>2, <3>1, IngestPromise
    <3> QED
      BY <3>2 DEF Promise!Next
  <2>3. CASE Move
    <3>1. PICK n \in Names : n = file
      BY DEF IInv, TypeOK
    <3>2. Promise!File(n)
      BY <2>3, <3>1, MovePromise
    <3> QED
      BY <3>2 DEF Promise!Next
  <2>4. CASE \/ List \/ Mark \/ EndPass \/ MoveRefused \/ PassFails \/ Restart
             \/ \E n \in Names : SkipProcessed(n) \/ SkipUnsupported(n) \/ Download(n)
    <3>1. UNCHANGED <<folders, jobs>>
      BY <2>4 DEF List, Mark, EndPass, MoveRefused, PassFails, Restart, SkipProcessed,
                  SkipUnsupported, Download, LeavePass
    <3> QED
      BY <3>1, QuietPromise
  <2>5. CASE UNCHANGED vars
    BY <2>5, QuietPromise DEF vars
  <2> QED
    BY <2>1, <2>2, <2>3, <2>4, <2>5 DEF Next, PollerStep
<1> QED
  BY <1>1, InitPromise, Invariance, PTL DEF Spec, KeepsInbox, Promise!Spec

-----------------------------------------------------------------------------
(* Where nothing fails: scanners may still replace their files.            *)

OneJobEach == \A d \in Drops : jobs[d] <= 1

NoneStuck == \A n \in Names : ~Stuck(n)

\* No pass is interrupted, since no name that is worked on can be in the
\* processed folder without being remembered.
Undisturbed ==
    /\ forgotten = {}
    /\ interrupted = [d \in Drops |-> 0]
    /\ pc \in {"downloaded", "enqueued"} => file \in Tiffs \ processed

LEMMA NeverRefused ==
  ASSUME IInv, Undisturbed
  PROVE  ~MoveRefused
  BY DEF IInv, Undisturbed, MoveRefused, PassConsistent

\* Without failures and restarts each drop has one job at most, though its
\* name be dropped again and again, and no name ever ends a pass.
THEOREM FaultFree ==
  ASSUME Faults \subseteq {"replace"}
  PROVE  Spec => [](OneJobEach /\ NoneStuck)
<1>1. Init => Undisturbed
  BY DEF Init, Undisturbed
<1>2. IInv /\ Undisturbed /\ [Next]_vars => Undisturbed'
  <2> SUFFICES ASSUME IInv, Undisturbed, [Next]_vars PROVE Undisturbed'
    OBVIOUS
  <2> USE DEF Undisturbed
  <2>1. CASE \E n \in Names : Drop(n) \/ Replace(n)
    BY <2>1 DEF Drop, Replace, Deliver, poller
  <2>2. CASE \/ List \/ Ingest \/ Move \/ EndPass \/ Mark
             \/ \E n \in Names : SkipProcessed(n) \/ SkipUnsupported(n) \/ Download(n)
    BY <2>2 DEF List, Ingest, Move, EndPass, Mark, SkipProcessed, SkipUnsupported, Download
  <2>3. CASE PassFails \/ Restart
    BY <2>3 DEF PassFails, Restart
  <2>4. CASE UNCHANGED vars
    BY <2>4 DEF vars, poller
  <2> QED
    BY <2>1, <2>2, <2>3, <2>4, NeverRefused DEF Next, PollerStep
<1>3. IInv /\ Undisturbed => OneJobEach /\ NoneStuck
  <2> SUFFICES ASSUME IInv, Undisturbed PROVE OneJobEach /\ NoneStuck
    OBVIOUS
  <2>1. OneJobEach
    <3> SUFFICES ASSUME NEW d \in Drops PROVE jobs[d] <= 1
      BY DEF OneJobEach
    <3>1. jobs[d] <= 1 + interrupted[d] /\ interrupted[d] = 0
      BY DEF IInv, DuplicatesExplained, Undisturbed
    <3> QED
      BY <3>1
  <2>2. NoneStuck
    BY StuckNames DEF IInv, NoneStuck, StuckWasForgotten, Undisturbed
  <2> QED
    BY <2>1, <2>2
<1> QED
  BY <1>1, <1>2, <1>3, Invariance, PTL DEF Spec
=============================================================================
