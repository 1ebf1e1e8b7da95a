------------------------------ MODULE Pipeline ------------------------------
(***************************************************************************)
(* The document pipeline: an upload handled by the ingest service          *)
(* (app/services/ingest_service.py), the RQ queue it feeds, and the        *)
(* inference workers that take the job (app/workers/inference_worker.py).  *)
(* They share the database rows of a batch, the blob store and the queue,  *)
(* and nothing else: there is no lock and no acknowledgement between them. *)
(*                                                                         *)
(* One upload makes one batch, one document and one job, so an upload u    *)
(* names all three.  An ingest request of the API and one of the SFTP      *)
(* poller run the same code and are not told apart here.                   *)
(*                                                                         *)
(* A database transaction is: rows flushed and not committed (tx), rows    *)
(* committed (predictions, audits, batch).  A status update reads the row  *)
(* first and writes later; the ORM sends no UPDATE at all when the value   *)
(* it loaded is the value it is told to store.                             *)
(***************************************************************************)
EXTENDS Naturals, Sequences

CONSTANTS
    Uploads,       \* the files handed to the service
    Unsupported,   \* those whose extension is_supported_upload refuses
    Unreadable,    \* those the model cannot classify, whoever tries
    Workers,       \* the processes running `rq worker`
    Nothing,       \* the job of an idle worker
    Faults         \* u -> the kinds of failure that may happen around u

FaultKinds == {"request", "model", "step", "report", "horse"}

ASSUME UploadsAssumption == Unsupported \subseteq Uploads /\ Unreadable \subseteq Uploads
ASSUME NothingAssumption == Nothing \notin Uploads
ASSUME FaultsAssumption == Faults \in [Uploads -> SUBSET FaultKinds]

VARIABLES
    ingest,        \* u -> where the request that ingests u stands
    ingestSaw,     \* u -> the batch status that request loaded
    batch,         \* u -> batches.status, "absent" before the row exists
    documents,     \* the uploads with a committed documents row
    rawBlobs,      \* the uploads whose bytes are in the blob store
    overlays,      \* the uploads whose overlay image is in the blob store
    queue,         \* the RQ list
    job,           \* u -> the RQ state of its job
    horse,         \* w -> where worker w stands in its job
    current,       \* w -> the upload whose job w runs
    horseSaw,      \* w -> the batch status w loaded
    tx,            \* w -> the rows w has flushed and not committed
    predictions,   \* u -> its committed predictions rows
    audits         \* u -> its committed "prediction_created" audit rows

ingestVars == <<ingest, ingestSaw, documents, rawBlobs>>
jobVars == <<queue, job>>
horseVars == <<horse, current, horseSaw, tx>>
resultVars == <<overlays, predictions, audits>>
vars == <<ingestVars, batch, jobVars, horseVars, resultVars>>

Statuses == {"pending", "processing", "done", "failed"}
Final == {"done", "failed"}
IngestStates == {"idle", "rejected", "created", "documented", "uploaded",
                 "enqueued", "loaded", "answered", "aborted"}
JobStates == {"none", "queued", "started", "finished", "failed"}
HorseStates == {"idle", "fetched", "ready", "starting", "classifying", "overlaying",
                "inserting", "auditing", "persisting", "persisted", "finishing",
                "reported", "raised", "rolledback", "failing", "reraised"}

TypeOK ==
    /\ ingest \in [Uploads -> IngestStates]
    /\ ingestSaw \in [Uploads -> Statuses \cup {"absent"}]
    /\ batch \in [Uploads -> Statuses \cup {"absent"}]
    /\ documents \subseteq Uploads
    /\ rawBlobs \subseteq Uploads
    /\ overlays \subseteq Uploads
    /\ queue \in Seq(Uploads)
    /\ job \in [Uploads -> JobStates]
    /\ horse \in [Workers -> HorseStates]
    /\ current \in [Workers -> Uploads \cup {Nothing}]
    /\ horseSaw \in [Workers -> Statuses \cup {"absent"}]
    /\ tx \in [Workers -> SUBSET {"prediction", "audit"}]
    /\ predictions \in [Uploads -> Nat]
    /\ audits \in [Uploads -> Nat]

Init ==
    /\ ingest = [u \in Uploads |-> "idle"]
    /\ ingestSaw = [u \in Uploads |-> "absent"]
    /\ batch = [u \in Uploads |-> "absent"]
    /\ documents = {}
    /\ rawBlobs = {}
    /\ overlays = {}
    /\ queue = <<>>
    /\ job = [u \in Uploads |-> "none"]
    /\ horse = [w \in Workers |-> "idle"]
    /\ current = [w \in Workers |-> Nothing]
    /\ horseSaw = [w \in Workers |-> "absent"]
    /\ tx = [w \in Workers |-> {}]
    /\ predictions = [u \in Uploads |-> 0]
    /\ audits = [u \in Uploads |-> 0]

\* Mutant: the update is sent whatever was loaded (a bulk UPDATE statement).
StoredAlways(saw, new, stored) == new

\* What a row holds after a session that loaded `saw` stores `new`.
Stored(saw, new, stored) == IF saw = new THEN stored ELSE new

-----------------------------------------------------------------------------
(* The ingest service: one step for each commit, upload and enqueue.       *)

GoesTo(u, from, to) == ingest[u] = from /\ ingest' = [ingest EXCEPT ![u] = to]

\* is_supported_upload is false: ValueError before anything is stored.
Reject(u) ==
    /\ u \in Unsupported
    /\ GoesTo(u, "idle", "rejected")
    /\ UNCHANGED <<ingestSaw, documents, rawBlobs, batch, jobVars, horseVars, resultVars>>

CreateBatch(u) ==
    /\ u \notin Unsupported
    /\ GoesTo(u, "idle", "created")
    /\ batch' = [batch EXCEPT ![u] = "pending"]
    /\ UNCHANGED <<ingestSaw, documents, rawBlobs, jobVars, horseVars, resultVars>>

AddDocument(u) ==
    /\ GoesTo(u, "created", "documented")
    /\ documents' = documents \cup {u}
    /\ UNCHANGED <<ingestSaw, rawBlobs, batch, jobVars, horseVars, resultVars>>

UploadRaw(u) ==
    /\ GoesTo(u, "documented", "uploaded")
    /\ rawBlobs' = rawBlobs \cup {u}
    /\ UNCHANGED <<ingestSaw, documents, batch, jobVars, horseVars, resultVars>>

\* Mutant: the job is enqueued before the bytes are uploaded.
EnqueueBeforeUpload(u) ==
    /\ GoesTo(u, "documented", "enqueued")
    /\ queue' = Append(queue, u)
    /\ job' = [job EXCEPT ![u] = "queued"]
    /\ UNCHANGED <<ingestSaw, documents, rawBlobs, batch, horseVars, resultVars>>

\* Mutant: the job is recorded but its id never reaches the list.
EnqueueLost(u) ==
    /\ GoesTo(u, "uploaded", "enqueued")
    /\ job' = [job EXCEPT ![u] = "queued"]
    /\ UNCHANGED <<queue, ingestSaw, documents, rawBlobs, batch, horseVars, resultVars>>

Enqueue(u) ==
    /\ GoesTo(u, "uploaded", "enqueued")
    /\ queue' = Append(queue, u)
    /\ job' = [job EXCEPT ![u] = "queued"]
    /\ UNCHANGED <<ingestSaw, documents, rawBlobs, batch, horseVars, resultVars>>

\* session.get of update_status: the row is read here ...
LoadForProcessing(u) ==
    /\ GoesTo(u, "enqueued", "loaded")
    /\ ingestSaw' = [ingestSaw EXCEPT ![u] = batch[u]]
    /\ UNCHANGED <<documents, rawBlobs, batch, jobVars, horseVars, resultVars>>

\* ... and written here, after which the request is answered.
CommitProcessing(u) ==
    /\ GoesTo(u, "loaded", "answered")
    /\ batch' = [batch EXCEPT ![u] = Stored(ingestSaw[u], "processing", batch[u])]
    /\ UNCHANGED <<ingestSaw, documents, rawBlobs, jobVars, horseVars, resultVars>>

\* A call of the service raises, or its process dies: the rest is not done.
AbortRequest(u) ==
    /\ "request" \in Faults[u]
    /\ ingest[u] \notin {"idle", "rejected", "answered", "aborted"}
    /\ ingest' = [ingest EXCEPT ![u] = "aborted"]
    /\ UNCHANGED <<ingestSaw, documents, rawBlobs, batch, jobVars, horseVars, resultVars>>

-----------------------------------------------------------------------------
(* The inference worker.                                                   *)

At(w, from, to) == horse[w] = from /\ horse' = [horse EXCEPT ![w] = to]

\* The worker forks a work horse for the job at the head of the list.
Dequeue(w) ==
    /\ At(w, "idle", "fetched")
    /\ queue # <<>>
    /\ current' = [current EXCEPT ![w] = Head(queue)]
    /\ queue' = Tail(queue)
    /\ job' = [job EXCEPT ![Head(queue)] = "started"]
    /\ UNCHANGED <<horseSaw, tx, ingestVars, batch, resultVars>>

\* classify_document_job builds its clients and the predictor ...
BuildPredictor(w) ==
    /\ At(w, "fetched", "ready")
    /\ UNCHANGED <<current, horseSaw, tx, ingestVars, batch, jobVars, resultVars>>

\* ... and raises, outside the try, when the model or its checksum is wrong.
PredictorFails(w) ==
    /\ At(w, "fetched", "reraised")
    /\ "model" \in Faults[current[w]]
    /\ UNCHANGED <<current, horseSaw, tx, ingestVars, batch, jobVars, resultVars>>

\* Mutant: "done" is stored whether the job raised or not.
StatusUpdatesAlwaysDone == {
    [from |-> "ready", read |-> "starting", new |-> "processing",
     to |-> "classifying", missing |-> "raised"],
    [from |-> "persisted", read |-> "finishing", new |-> "done",
     to |-> "reported", missing |-> "raised"],
    [from |-> "rolledback", read |-> "failing", new |-> "done",
     to |-> "reraised", missing |-> "reraised"]}

\* The three status updates of a job: where each starts, where it has read
\* the row, what it stores, where it ends, and where BatchNotFound takes it.
StatusUpdates == {
    [from |-> "ready", read |-> "starting", new |-> "processing",
     to |-> "classifying", missing |-> "raised"],
    [from |-> "persisted", read |-> "finishing", new |-> "done",
     to |-> "reported", missing |-> "raised"],
    [from |-> "rolledback", read |-> "failing", new |-> "failed",
     to |-> "reraised", missing |-> "reraised"]}

LoadStatus(w) ==
    \E s \in StatusUpdates :
        /\ At(w, s.from, IF batch[current[w]] = "absent" THEN s.missing ELSE s.read)
        /\ horseSaw' = [horseSaw EXCEPT ![w] = batch[current[w]]]
        /\ UNCHANGED <<current, tx, ingestVars, batch, jobVars, resultVars>>

\* session.commit() makes every row flushed by w since its last one durable.
CommitRows(w) ==
    /\ predictions' = [predictions EXCEPT ![current[w]] =
                          @ + (IF "prediction" \in tx[w] THEN 1 ELSE 0)]
    /\ audits' = [audits EXCEPT ![current[w]] =
                          @ + (IF "audit" \in tx[w] THEN 1 ELSE 0)]
    /\ tx' = [tx EXCEPT ![w] = {}]

CommitStatus(w) ==
    \E s \in StatusUpdates :
        /\ At(w, s.read, s.to)
        /\ batch' = [batch EXCEPT ![current[w]] = Stored(horseSaw[w], s.new, @)]
        /\ CommitRows(w)
        /\ UNCHANGED <<current, horseSaw, ingestVars, jobVars, overlays>>

\* Download, predict_bytes and create_prediction_overlay: nothing is stored.
Classify(w) ==
    /\ At(w, "classifying", "overlaying")
    /\ current[w] \in rawBlobs \ Unreadable
    /\ UNCHANGED <<current, horseSaw, tx, ingestVars, batch, jobVars, resultVars>>

UploadOverlay(w) ==
    /\ At(w, "overlaying", "inserting")
    /\ overlays' = overlays \cup {current[w]}
    /\ UNCHANGED <<current, horseSaw, tx, ingestVars, batch, jobVars, predictions, audits>>

\* create_prediction: the row is flushed, then its audit row, then both
\* are committed.
InsertPrediction(w) ==
    /\ At(w, "inserting", "auditing")
    /\ tx' = [tx EXCEPT ![w] = @ \cup {"prediction"}]
    /\ UNCHANGED <<current, horseSaw, ingestVars, batch, jobVars, resultVars>>

LogPrediction(w) ==
    /\ At(w, "auditing", "persisting")
    /\ tx' = [tx EXCEPT ![w] = @ \cup {"audit"}]
    /\ UNCHANGED <<current, horseSaw, ingestVars, batch, jobVars, resultVars>>

CommitPrediction(w) ==
    /\ At(w, "persisting", "persisted")
    /\ CommitRows(w)
    /\ UNCHANGED <<current, horseSaw, ingestVars, batch, jobVars, overlays>>

\* Where the job stands inside the try block, "reported" included: the
\* commit of "done" may raise after the row is durable, its reply lost, and so
\* may what follows it in update_status.  A lost reply of any other commit is
\* a raise at the place after it.
InTry == {"ready", "starting", "classifying", "overlaying", "inserting",
          "auditing", "persisting", "persisted", "finishing", "reported"}

\* Mutant: the raise of an unreadable file is not handled by the try block.
ClassifyFailsUnhandled(w) ==
    /\ At(w, "classifying", "reraised")
    /\ current[w] \notin rawBlobs \ Unreadable
    /\ UNCHANGED <<current, horseSaw, tx, ingestVars, batch, jobVars, resultVars>>

\* The file cannot be classified: the raise every run of this job ends in.
ClassifyFails(w) ==
    /\ At(w, "classifying", "raised")
    /\ current[w] \notin rawBlobs \ Unreadable
    /\ UNCHANGED <<current, horseSaw, tx, ingestVars, batch, jobVars, resultVars>>

\* Mutant: a failed call is logged and the job goes on.
StepFailsIgnored(w) ==
    /\ horse[w] \in InTry
    /\ "step" \in Faults[current[w]]
    /\ horse' = [horse EXCEPT ![w] = "persisted"]
    /\ UNCHANGED <<current, horseSaw, tx, ingestVars, batch, jobVars, resultVars>>

\* Any call in the try block raises: a store is down, a reply is lost, the
\* job times out while the handler is there to see it.
StepFails(w) ==
    /\ horse[w] \in InTry
    /\ "step" \in Faults[current[w]]
    /\ horse' = [horse EXCEPT ![w] = "raised"]
    /\ UNCHANGED <<current, horseSaw, tx, ingestVars, batch, jobVars, resultVars>>

\* Mutant: the session is used again without a rollback.
RollbackForgotten(w) ==
    /\ At(w, "raised", "rolledback")
    /\ UNCHANGED <<tx, current, horseSaw, ingestVars, batch, jobVars, resultVars>>

Rollback(w) ==
    /\ At(w, "raised", "rolledback")
    /\ tx' = [tx EXCEPT ![w] = {}]
    /\ UNCHANGED <<current, horseSaw, ingestVars, batch, jobVars, resultVars>>

\* Mutant: a failed report is tried again until it works.
ReportFailsRetried(w) ==
    /\ horse[w] \in {"rolledback", "failing"}
    /\ "report" \in Faults[current[w]]
    /\ horse' = [horse EXCEPT ![w] = "rolledback"]
    /\ UNCHANGED <<current, horseSaw, tx, ingestVars, batch, jobVars, resultVars>>

\* The update to "failed" raises in its turn.
ReportFails(w) ==
    /\ horse[w] \in {"rolledback", "failing"}
    /\ "report" \in Faults[current[w]]
    /\ horse' = [horse EXCEPT ![w] = "reraised"]
    /\ UNCHANGED <<current, horseSaw, tx, ingestVars, batch, jobVars, resultVars>>

\* The job is over: RQ files it and the worker is free.
EndJob(w, verdict) ==
    /\ job' = [job EXCEPT ![current[w]] = verdict]
    /\ current' = [current EXCEPT ![w] = Nothing]
    /\ horse' = [horse EXCEPT ![w] = "idle"]
    /\ tx' = [tx EXCEPT ![w] = {}]
    /\ UNCHANGED <<queue, horseSaw, ingestVars, batch, resultVars>>

JobFinishes(w) == horse[w] = "reported" /\ EndJob(w, "finished")

\* Mutant: the exception is not raised again, so RQ sees a job that returned.
JobRaisesSwallowed(w) == horse[w] = "reraised" /\ EndJob(w, "finished")

JobRaises(w) == horse[w] = "reraised" /\ EndJob(w, "failed")

\* The work horse dies, or a JobTimeoutException leaves Runner.run and so skips
\* the except branch: either way the transaction is dropped, nothing is reported,
\* and RQ files the job as failed.  It was enqueued without a retry, so it never
\* runs again.
HorseDies(w) == horse[w] # "idle" /\ "horse" \in Faults[current[w]] /\ EndJob(w, "failed")

-----------------------------------------------------------------------------
\* What a request, once it has begun, does next when nothing fails.
IngestStep(u) ==
    \/ AddDocument(u)
    \/ UploadRaw(u)
    \/ Enqueue(u)
    \/ LoadForProcessing(u)
    \/ CommitProcessing(u)

\* What a worker does next when nothing but the file itself is wrong.
HorseStep(w) ==
    \/ Dequeue(w)
    \/ BuildPredictor(w)
    \/ LoadStatus(w)
    \/ CommitStatus(w)
    \/ Classify(w)
    \/ ClassifyFails(w)
    \/ UploadOverlay(w)
    \/ InsertPrediction(w)
    \/ LogPrediction(w)
    \/ CommitPrediction(w)
    \/ Rollback(w)
    \/ JobFinishes(w)
    \/ JobRaises(w)

Next ==
    \/ \E u \in Uploads :
        \/ Reject(u)
        \/ CreateBatch(u)
        \/ IngestStep(u)
        \/ AbortRequest(u)
    \/ \E w \in Workers :
        \/ HorseStep(w)
        \/ PredictorFails(w)
        \/ StepFails(w)
        \/ ReportFails(w)
        \/ HorseDies(w)

Spec == Init /\ [][Next]_vars

\* Nobody has to upload anything, and nothing has to fail; a request that
\* has begun and a worker with something to do go on.
Fairness ==
    /\ \A u \in Uploads : WF_vars(IngestStep(u))
    /\ \A w \in Workers : WF_vars(HorseStep(w))

FairSpec == Spec /\ Fairness
-----------------------------------------------------------------------------
\* A job never runs ahead of what it works on: whatever is queued, running
\* or over has its batch row, its document row and its bytes (the order of
\* the commits, the upload and the enqueue in enqueue_uploaded_document).
JobBacked ==
    \A u \in Uploads :
        job[u] # "none" => batch[u] # "absent" /\ u \in documents /\ u \in rawBlobs

\* A committed prediction has exactly one audit row, is the only one of its
\* document, and points at an overlay that exists, whichever step of the job
\* failed or died (ARCH.md:70, one transaction; the rollback before "failed").
PredictionAudited ==
    \A u \in Uploads :
        /\ predictions[u] = audits[u]
        /\ predictions[u] \in {0, 1}
        /\ predictions[u] = 1 => u \in overlays

\* A batch that says "done" has its prediction: a client that polls for
\* "done" and then fetches /predictions/batch/{id} finds one.
DoneHasPrediction ==
    \A u \in Uploads : batch[u] = "done" => predictions[u] = 1 /\ u \in overlays

\* The request that ingested u did send its UPDATE, of whatever status the
\* worker had reached: the one it loaded was not "processing" already.
WroteLate(u) == ingest[u] = "answered" /\ ingestSaw[u] # "processing"

\* A job that RQ calls finished has published its prediction, and only the
\* ingest request's own late write can hide that from its batch.
FinishedMeansDone ==
    \A u \in Uploads :
        job[u] = "finished" =>
            /\ predictions[u] = 1
            /\ batch[u] # "done" => batch[u] = "processing" /\ WroteLate(u)

\* The uploads whose job may end with nobody told: a predictor that cannot be
\* built (it is built outside the try block), a report that fails in its
\* turn, a dead horse.
Silenced == {u \in Uploads : Faults[u] \cap {"model", "report", "horse"} # {}}

\* Those are the only ways: a job that RQ calls failed has said so to its
\* batch, which the request's late write alone can hide.
FailedIsReported ==
    \A u \in Uploads :
        job[u] = "failed" /\ u \notin Silenced =>
            batch[u] = "failed" \/ (batch[u] = "processing" /\ WroteLate(u))

\* The request that ingested u writes late, what it loaded not being "processing".
WritesLate(u) ==
    /\ ingest[u] = "loaded"
    /\ ingestSaw[u] # "processing"
    /\ batch'[u] = "processing"

\* The job that stored "done" for u takes it for a failure: its commit, or the
\* rest of its update, raised after the row was durable, and the except branch
\* reports the raise.
ReportsOwnSuccess(u) ==
    /\ batch[u] = "done" /\ batch'[u] = "failed"
    /\ "step" \in Faults[u]
    /\ predictions[u] = 1
    /\ \E w \in Workers : current[w] = u /\ horse[w] = "failing"

\* "done" and "failed" are not taken back by anything but the one write of an
\* ingest request and the report of a job whose own "done" raised: no second
\* job does, and no request that had loaded "processing", whose update is not
\* sent.  And no job takes a "failed" back.
FinalStatusKept ==
    [][\A u \in Uploads :
          batch[u] \in Final /\ batch'[u] # batch[u] =>
              WritesLate(u) \/ ReportsOwnSuccess(u)]_vars

\* The most steps a worker still has to take in its job, by where it stands.
StepsLeft ==
    [fetched |-> 15, ready |-> 14, starting |-> 13, classifying |-> 12, overlaying |-> 11,
     inserting |-> 10, auditing |-> 9, persisting |-> 8, persisted |-> 7, finishing |-> 6,
     reported |-> 5, raised |-> 4, rolledback |-> 3, failing |-> 2, reraised |-> 1, idle |-> 0]

\* A worker leaves its job at the end of it, by a path that never returns.
GoesForward(w) ==
    horse[w] # "idle" /\ (horse'[w] # horse[w] \/ current'[w] # current[w]) =>
        /\ StepsLeft[horse'[w]] < StepsLeft[horse[w]]
        /\ IF horse'[w] = "idle" THEN job'[current[w]] \in {"finished", "failed"}
           ELSE current'[w] = current[w]

\* What is over never waits or runs again.
NoWayBack(u) ==
    job'[u] # job[u] =>
        <<job[u], job'[u]>> \in {<<"none", "queued">>, <<"queued", "started">>,
                                 <<"started", "finished">>, <<"started", "failed">>}

\* A job only ever goes forward: from its fetch its worker takes at most
\* fifteen steps, since no error path leads back into the job, and no job
\* is queued or taken twice.  (With the fairness of the workers this is why
\* JobsEnd holds.)
JobForward ==
    [][(\A w \in Workers : GoesForward(w)) /\ (\A u \in Uploads : NoWayBack(u))]_vars

\* Every job that was enqueued ends, whatever fails: a raise, a failed
\* report or a dead horse frees the worker for the next job, until none waits.
JobsEnd == []<>(\A u \in Uploads : job[u] \notin {"queued", "started"})

\* A job of u can only end in the verdict its file deserves: aborted requests
\* do not touch it, and a failing step ends where an unreadable file does.
Undisturbed(u) == Faults[u] \subseteq {"request"} \cup (IF u \in Unreadable THEN {"step"} ELSE {})

Verdict(u) == IF u \in Unreadable THEN "failed" ELSE "done"

\* The request is over and the job has not begun: nobody but the worker that
\* will take it writes the status any more.
LeftToWorker(u) == ingest[u] \in {"answered", "aborted"} /\ job[u] = "queued"

Over(u) == job[u] \in {"finished", "failed"}

\* An undisturbed upload left to its worker is given the right verdict by
\* the time its job is over, and keeps it, whatever befalls other jobs.
VerdictRight ==
    \A u \in {v \in Uploads : Undisturbed(v)} :
        [](LeftToWorker(u) => [](Over(u) => batch[u] = Verdict(u)))

\* When the request is over before its job starts, an undisturbed batch comes
\* to a verdict, the right one, and keeps it, whatever befalls other jobs.
VerdictKept ==
    \A u \in {v \in Uploads : Undisturbed(v)} :
        LeftToWorker(u) ~> [](batch[u] = Verdict(u))

\* README.md:68: the frontend polls the batch until it reaches "done".
ReachesDone ==
    \A u \in Uploads \ Unreadable : ingest[u] = "answered" ~> batch[u] = "done"

-----------------------------------------------------------------------------
(* The inductive invariant: what the properties above rest on.             *)

Begun(w) == horse[w] # "idle"

\* The job of w is on its way from a raise to the report of it.
Unwinding == {"raised", "rolledback", "failing"}

\* The job of w has not published a verdict yet.
Undecided == HorseStates \ ({"idle", "reported", "reraised"} \cup Unwinding)

\* Where the job of w stands before and after its prediction is committed.
Unpersisted == {"fetched", "ready", "starting", "classifying", "overlaying",
                "inserting", "auditing", "persisting"}
Persisted == {"persisted", "finishing", "reported"}

\* A request has made exactly what its place in the service says.
IngestConsistent ==
    \A u \in Uploads :
        /\ (batch[u] = "absent") <=> (ingest[u] \in {"idle", "rejected"})
        /\ ingest[u] \in {"documented", "uploaded"} => u \in documents
        /\ ingest[u] = "uploaded" => u \in rawBlobs
        /\ ingest[u] \in {"enqueued", "loaded", "answered"} => job[u] # "none"
        /\ ingest[u] \in {"idle", "rejected", "created", "documented", "uploaded"} =>
               job[u] = "none"

\* The list holds every job once, and only jobs that wait.
QueueConsistent ==
    /\ \A i \in 1..Len(queue) : job[queue[i]] = "queued"
    /\ \A i, j \in 1..Len(queue) : queue[i] = queue[j] => i = j

\* A started job is run by one worker, which runs no other.
OneHorsePerJob ==
    /\ \A w \in Workers : Begun(w) <=> current[w] # Nothing
    /\ \A w \in Workers : Begun(w) => job[current[w]] = "started"
    /\ \A v, w \in Workers : Begun(v) /\ Begun(w) /\ current[v] = current[w] => v = w

\* A job that has not begun has left nothing behind.
NothingBeforeStart ==
    \A u \in Uploads :
        job[u] \in {"none", "queued"} => predictions[u] = 0 /\ batch[u] \notin Final

\* The session of w holds what w has flushed at its place in the job, and
\* the rows, the overlay and the status of its upload are as far as w is.
HorseConsistent ==
    \A w \in Workers :
        /\ horse[w] \notin {"auditing", "persisting", "raised"} => tx[w] = {}
        /\ horse[w] = "auditing" => tx[w] = {"prediction"}
        /\ horse[w] = "persisting" => tx[w] = {"prediction", "audit"}
        /\ horse[w] \in Unpersisted => predictions[current[w]] = 0
        /\ horse[w] \in Persisted => predictions[current[w]] = 1
        /\ horse[w] \in {"inserting", "auditing", "persisting"} \cup Persisted =>
               current[w] \in overlays
        /\ horse[w] \in Undecided => batch[current[w]] \notin Final
        /\ horse[w] \in Unwinding =>
               \/ batch[current[w]] \notin Final
               \/ batch[current[w]] = "done" /\ "step" \in Faults[current[w]]
        /\ horse[w] \in {"starting", "finishing"} => horseSaw[w] \notin Final
        /\ horse[w] = "failing" => horseSaw[w] # "failed"
        /\ horse[w] = "reported" /\ batch[current[w]] # "done" =>
               batch[current[w]] = "processing" /\ WroteLate(current[w])
        /\ horse[w] = "reraised" /\ current[w] \notin Silenced =>
               \/ batch[current[w]] = "failed"
               \/ batch[current[w]] = "processing" /\ WroteLate(current[w])

IInv ==
    /\ TypeOK
    /\ IngestConsistent
    /\ QueueConsistent
    /\ OneHorsePerJob
    /\ NothingBeforeStart
    /\ HorseConsistent
    /\ JobBacked
    /\ PredictionAudited
    /\ DoneHasPrediction
    /\ FinishedMeansDone
    /\ FailedIsReported

-----------------------------------------------------------------------------
\* What the pipeline promises about an upload, as Classification states it.
Outcome(u) ==
    IF predictions[u] > 0 THEN "classified"
    ELSE IF job[u] = "failed" THEN "lost"
    ELSE IF job[u] = "none" THEN "none"
    ELSE "accepted"

Promise == INSTANCE Classification WITH
               outcome <- [u \in Uploads |-> Outcome(u)],
               status <- batch

\* The pipeline implements Classification: every step of a request or of a
\* worker is a step of an upload's outcome or status, or invisible.
ImplementsPromise == Promise!Spec

\* And with the fairness of the processes it keeps its liveness too.
KeepsPromise == Promise!FairSpec
=============================================================================
