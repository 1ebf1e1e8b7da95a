----------------------------- MODULE SftpIngest -----------------------------
(***************************************************************************)
(* The SFTP poller (app/workers/sftp_ingest_worker.py): a single process   *)
(* that lists the upload folder, ingests each TIFF it does not remember,   *)
(* moves it to the processed folder and remembers its name.  The memory is *)
(* PROCESSED_FILES, a set of names that lives as long as the process.      *)
(*                                                                         *)
(* A drop is one delivery of bytes by a scanner; several drops may carry   *)
(* the same name, one after the other.  Ingesting the bytes of a drop      *)
(* makes a batch and enqueues a job, which Pipeline describes; here it is  *)
(* one step, since nobody else touches what the poller makes.              *)
(***************************************************************************)
EXTENDS Naturals

CONSTANTS
    Names,       \* file names a scanner uses
    Tiffs,       \* those is_valid_tiff accepts
    MaxDrops,    \* bound: deliveries, over all names
    MaxJobs,     \* bound: how far the jobs of one delivery are counted
    Faults       \* the kinds of trouble that may happen

FaultKinds == {"pass", "restart", "replace"}

ASSUME TiffsAssumption == Tiffs \subseteq Names
ASSUME BoundsAssumption == MaxDrops \in Nat /\ MaxJobs \in Nat \ {0}
ASSUME FaultsAssumption == Faults \subseteq FaultKinds

Drops == 1..MaxDrops
None == 0

VARIABLES
    upload,      \* name -> the drop in the upload folder, or None
    archive,     \* name -> the drop in the processed folder, or None
    drops,       \* deliveries so far
    processed,   \* PROCESSED_FILES
    pc,          \* where the poller stands in a pass
    todo,        \* the names of the listing it has not come to yet
    file,        \* the name it is working on
    bytes,       \* the drop it has downloaded
    jobs,        \* drop -> jobs enqueued with its bytes
    interrupted, \* history: drop -> passes that ended between enqueue and move
    overwrote,   \* history: the drops put over a file already downloaded
    forgotten    \* history: the names filed away that the memory lost, by a
                 \* restart since or with the reply to their rename

folders == <<upload, archive, drops, overwrote>>
poller == <<processed, pc, todo, file, bytes>>
vars == <<folders, poller, jobs, interrupted, forgotten>>

PassStates == {"asleep", "scanning", "downloaded", "enqueued", "moved"}

TypeOK ==
    /\ upload \in [Names -> 0..MaxDrops]
    /\ archive \in [Names -> 0..MaxDrops]
    /\ drops \in 0..MaxDrops
    /\ processed \subseteq Names
    /\ pc \in PassStates
    /\ todo \subseteq Names
    /\ file \in Names
    /\ bytes \in 0..MaxDrops
    /\ jobs \in [Drops -> 0..MaxJobs]
    /\ interrupted \in [Drops -> 0..MaxJobs]
    /\ overwrote \subseteq Drops
    /\ forgotten \subseteq Names

Init ==
    /\ upload = [n \in Names |-> None]
    /\ archive = [n \in Names |-> None]
    /\ drops = 0
    /\ processed = {}
    /\ pc = "asleep"
    /\ todo = {}
    /\ file \in Names
    /\ bytes = None
    /\ jobs = [d \in Drops |-> 0]
    /\ interrupted = [d \in Drops |-> 0]
    /\ overwrote = {}
    /\ forgotten = {}

-----------------------------------------------------------------------------
(* The scanner, which knows nothing of the poller.                         *)

Deliver(n) ==
    /\ drops < MaxDrops
    /\ drops' = drops + 1
    /\ upload' = [upload EXCEPT ![n] = drops + 1]
    /\ UNCHANGED <<archive, poller, jobs, interrupted, forgotten>>

Drop(n) == upload[n] = None /\ Deliver(n) /\ UNCHANGED overwrote

\* The name is still there: its bytes are replaced where they lie.  A scanner
\* that lists its file before it has written all of it does the same: the
\* file as it was when the poller read it is one drop, the rest another.
Replace(n) ==
    /\ "replace" \in Faults
    /\ upload[n] # None
    /\ Deliver(n)
    /\ overwrote' = IF pc \in {"downloaded", "enqueued"} /\ file = n
                    THEN overwrote \cup {drops + 1} ELSE overwrote

-----------------------------------------------------------------------------
(* The poller.                                                             *)

\* One more, counted as far as the bound goes.
More(n) == IF n < MaxJobs THEN n + 1 ELSE n

\* An exception leaves the loop over the listing; _run_forever prints it.
LeavePass ==
    /\ pc' = "asleep"
    /\ todo' = {}
    /\ interrupted' = IF pc = "enqueued" THEN [interrupted EXCEPT ![bytes] = More(@)]
                      ELSE interrupted
    /\ UNCHANGED <<folders, file, bytes, jobs>>

\* SFTPClient() and list_files().
List ==
    /\ pc = "asleep"
    /\ pc' = "scanning"
    /\ todo' = {n \in Names : upload[n] # None}
    /\ UNCHANGED <<folders, processed, file, bytes, jobs, interrupted, forgotten>>

SkipProcessed(n) ==
    /\ pc = "scanning" /\ n \in todo
    /\ n \in processed
    /\ todo' = todo \ {n}
    /\ UNCHANGED <<folders, processed, pc, file, bytes, jobs, interrupted, forgotten>>

SkipUnsupported(n) ==
    /\ pc = "scanning" /\ n \in todo
    /\ n \notin processed /\ n \notin Tiffs
    /\ todo' = todo \ {n}
    /\ processed' = processed \cup {n}
    /\ UNCHANGED <<folders, pc, file, bytes, jobs, interrupted, forgotten>>

\* Mutant: the name is remembered before its file is processed.
DownloadMarks(n) ==
    /\ pc = "scanning" /\ n \in todo
    /\ n \in Tiffs \ processed
    /\ pc' = "downloaded"
    /\ file' = n
    /\ bytes' = upload[n]
    /\ todo' = todo \ {n}
    /\ processed' = processed \cup {n}
    /\ UNCHANGED <<folders, jobs, interrupted, forgotten>>

Download(n) ==
    /\ pc = "scanning" /\ n \in todo
    /\ n \in Tiffs \ processed
    /\ pc' = "downloaded"
    /\ file' = n
    /\ bytes' = upload[n]
    /\ todo' = todo \ {n}
    /\ UNCHANGED <<folders, processed, jobs, interrupted, forgotten>>

\* enqueue_uploaded_document.
Ingest ==
    /\ pc = "downloaded"
    /\ pc' = "enqueued"
    /\ jobs' = [jobs EXCEPT ![bytes] = More(@)]
    /\ UNCHANGED <<folders, processed, todo, file, bytes, interrupted, forgotten>>

\* Mutant: the file is copied, not renamed.
MoveCopies ==
    /\ pc = "enqueued"
    /\ archive[file] = None
    /\ pc' = "moved"
    /\ archive' = [archive EXCEPT ![file] = upload[file]]
    /\ UNCHANGED <<upload, drops, overwrote, processed, todo, file, bytes, jobs, interrupted, forgotten>>

\* Mutant: the file is moved before its bytes are ingested.
MoveEarly ==
    /\ pc = "downloaded"
    /\ archive[file] = None
    /\ pc' = "moved"
    /\ archive' = [archive EXCEPT ![file] = upload[file]]
    /\ upload' = [upload EXCEPT ![file] = None]
    /\ UNCHANGED <<drops, overwrote, processed, todo, file, bytes, jobs, interrupted, forgotten>>

\* A rename, which the server refuses when the processed folder has the name.
Move ==
    /\ pc = "enqueued"
    /\ archive[file] = None
    /\ pc' = "moved"
    /\ archive' = [archive EXCEPT ![file] = upload[file]]
    /\ upload' = [upload EXCEPT ![file] = None]
    /\ UNCHANGED <<drops, overwrote, processed, todo, file, bytes, jobs, interrupted, forgotten>>

\* Mutant: what is remembered is the drop, not its name.
MarkWrongKey ==
    /\ pc = "moved"
    /\ pc' = "scanning"
    /\ processed' = processed \cup {bytes}
    /\ UNCHANGED <<folders, todo, file, bytes, jobs, interrupted, forgotten>>

Mark ==
    /\ pc = "moved"
    /\ pc' = "scanning"
    /\ processed' = processed \cup {file}
    /\ UNCHANGED <<folders, todo, file, bytes, jobs, interrupted, forgotten>>

EndPass ==
    /\ pc = "scanning" /\ todo = {}
    /\ pc' = "asleep"
    /\ UNCHANGED <<folders, processed, todo, file, bytes, jobs, interrupted, forgotten>>

MoveRefused ==
    /\ pc = "enqueued"
    /\ archive[file] # None
    /\ LeavePass
    /\ UNCHANGED <<processed, forgotten>>

\* A connection breaks or a store is down, anywhere in the pass.  At "moved"
\* the server has renamed the file and its reply is lost: the rename raises, and
\* a name that is filed away is never remembered.
PassFails ==
    /\ "pass" \in Faults
    /\ pc # "asleep"
    /\ LeavePass
    /\ forgotten' = IF pc = "moved" THEN forgotten \cup {file} ELSE forgotten
    /\ UNCHANGED processed

\* The process dies and its container is started again, with no memory.
Restart ==
    /\ "restart" \in Faults
    /\ LeavePass
    /\ processed' = {}
    /\ forgotten' = {n \in Names : archive[n] # None}

-----------------------------------------------------------------------------
PollerStep ==
    \/ List
    \/ \E n \in Names : SkipProcessed(n) \/ SkipUnsupported(n) \/ Download(n)
    \/ Ingest
    \/ Move
    \/ Mark
    \/ EndPass
    \/ MoveRefused

Next ==
    \/ \E n \in Names : Drop(n) \/ Replace(n)
    \/ PollerStep
    \/ PassFails
    \/ Restart

Spec == Init /\ [][Next]_vars

\* The poller goes round for ever; a scanner need not drop anything.
FairSpec == Spec /\ WF_vars(PollerStep)

-----------------------------------------------------------------------------
\* Every job beyond the first of a drop answers for one pass that ended
\* between the enqueue and the move: nothing else makes the poller ingest
\* the same bytes twice, a rename whose reply is lost included.
DuplicatesExplained ==
    \A d \in Drops : jobs[d] <= 1 + interrupted[d]

\* No drop is filed away without having been ingested, unless it was put
\* over a file the poller had already downloaded.
ArchivedIsIngested ==
    \A n \in Names :
        archive[n] # None => jobs[archive[n]] >= 1 \/ archive[n] \in overwrote

\* A name is remembered only when it is no TIFF or an earlier drop of it has
\* been moved: a pass that fails leaves its file to the next one.
RememberedIsDone ==
    \A n \in processed \cap Tiffs :
        archive[n] # None /\ (upload[n] # None => archive[n] < upload[n])

\* A TIFF whose move will be refused, pass after pass: the processed folder
\* has its name and the memory has not.
Stuck(n) ==
    /\ n \in Tiffs \ processed /\ ~ (pc = "moved" /\ file = n)
    /\ upload[n] # None /\ archive[n] # None

\* Only a restart or a rename whose reply was lost can make a name stuck: as
\* long as the process lives and hears of its renames, the names in the
\* processed folder are those it remembers.
StuckWasForgotten == \A n \in Names : Stuck(n) => n \in forgotten

\* Once nothing fails any more, the first drop of a name leaves the upload
\* folder for the processed one, ingested, whatever else is dropped; it
\* waits for ever only where a stuck name ends every pass before its turn.
FirstDropHandled ==
    <>[][PollerStep \/ \E n \in Names : Drop(n) \/ Replace(n)]_vars =>
        \A n \in Tiffs, d \in Drops :
            (upload[n] = d /\ archive[n] = None)
                ~> \/ archive[n] = d /\ (jobs[d] >= 1 \/ d \in overwrote)
                   \/ upload[n] # d /\ archive[n] # d
                   \/ \E m \in Names : Stuck(m)

-----------------------------------------------------------------------------
(* The poller keeps what Inbox promises of the folders: a drop that was    *)
(* downloaded and ingested again, a pass that failed and a restart leave   *)
(* no trace in them.                                                       *)

Promise == INSTANCE Inbox WITH
    waiting <- upload,
    filed <- archive,
    delivered <- drops,
    ingested <- {d \in Drops : jobs[d] >= 1},
    late <- overwrote

\* Whatever fails and whatever is dropped meanwhile, a drop leaves the upload
\* folder only for another of its name or for the processed folder, in one
\* move; what is filed stays, was ingested before or is late, and is never
\* ingested after.
KeepsInbox == Promise!Spec

-----------------------------------------------------------------------------
(* The inductive invariant.                                                *)

\* Drops are numbered as they come, each lies in one place under one name,
\* and a later drop of a name has a higher number than the one filed away.
FoldersConsistent ==
    /\ \A n \in Names : upload[n] <= drops /\ archive[n] <= drops
    /\ \A n \in Names : upload[n] # None /\ archive[n] # None => archive[n] < upload[n]
    /\ \A m, n \in Names : upload[m] = upload[n] /\ upload[n] # None => m = n
    /\ \A m, n \in Names : archive[m] = upload[n] => upload[n] = None
    /\ \A d \in Drops : d > drops => jobs[d] = 0

\* The listing and the file at hand are in the upload folder; the file at
\* hand is what was downloaded, or was put over it since.
PassConsistent ==
    /\ pc # "asleep" => \A n \in todo : upload[n] # None
    /\ pc \in {"downloaded", "enqueued"} =>
          /\ bytes # None /\ bytes <= drops
          /\ file \notin todo
          /\ upload[file] # None
          /\ upload[file] = bytes \/ upload[file] \in overwrote
          /\ \A n \in Names \ {file} : upload[n] # bytes
          /\ \A n \in Names : archive[n] # bytes
    /\ pc = "enqueued" => jobs[bytes] >= 1
    /\ pc = "moved" => archive[file] # None
    /\ pc # "moved" => \A n \in Tiffs \ processed : archive[n] # None => n \in forgotten
    /\ \A n \in (Tiffs \ processed) \ {file} : archive[n] # None => n \in forgotten

\* A drop the poller may still download has been interrupted each time it
\* was ingested before, but for the ingest of the pass under way.
IngestsCounted ==
    /\ \A n \in Names :
          upload[n] # None /\ ~(pc = "enqueued" /\ bytes = upload[n]) =>
              jobs[upload[n]] <= interrupted[upload[n]]
    /\ pc = "downloaded" => jobs[bytes] <= interrupted[bytes]

IInv ==
    /\ TypeOK
    /\ FoldersConsistent
    /\ PassConsistent
    /\ IngestsCounted
    /\ DuplicatesExplained
    /\ ArchivedIsIngested
    /\ RememberedIsDone
=============================================================================
