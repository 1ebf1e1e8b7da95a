--------------------------- MODULE PipelineProofs ---------------------------
(***************************************************************************)
(* Proofs about Pipeline, for any number of uploads and workers and any    *)
(* set of faults.  The argument is one inductive invariant, IInv, shown to *)
(* hold initially and to be kept by every action; the safety properties    *)
(* are conjuncts of it, and the action property and the refinement of      *)
(* Classification are facts about one step taken in a state that has it.   *)
(***************************************************************************)
EXTENDS Pipeline, SequenceTheorems, TLAPS

\* Nothing has happened yet: the invariant holds of the initial state.
LEMMA InitIInv == Init => IInv
<1>1. Init => TypeOK
  BY UploadsAssumption DEF Init, TypeOK, IngestStates, Statuses, JobStates, HorseStates
<1>2. Init => IngestConsistent /\ QueueConsistent /\ OneHorsePerJob /\ NothingBeforeStart
  BY NothingAssumption
  DEF Init, IngestConsistent, QueueConsistent, OneHorsePerJob, NothingBeforeStart, Begun, Final
<1>3. Init => HorseConsistent
  BY DEF Init, HorseConsistent, Unpersisted, Persisted, Undecided, Unwinding, HorseStates
<1>4. Init => JobBacked /\ PredictionAudited /\ DoneHasPrediction /\ FinishedMeansDone
              /\ FailedIsReported
  BY DEF Init, JobBacked, PredictionAudited, DoneHasPrediction, FinishedMeansDone, FailedIsReported
<1> QED
  BY <1>1, <1>2, <1>3, <1>4 DEF IInv

\* A busy worker runs a started job that has all it needs.
LEMMA BusyWorker ==
  ASSUME IInv, NEW w \in Workers, horse[w] # "idle"
  PROVE  /\ current[w] \in Uploads
         /\ job[current[w]] = "started"
         /\ batch[current[w]] # "absent"
<1>1. current[w] \in Uploads /\ job[current[w]] = "started"
  BY DEF IInv, TypeOK, OneHorsePerJob, Begun
<1> QED
  BY <1>1 DEF IInv, JobBacked

-----------------------------------------------------------------------------
(* The steps of an ingest request.  What a request changes of its own      *)
(* upload says nothing about a worker's, but for the batch status.         *)

\* A step that changes only where request u stands and what it has stored
\* (not the queue, and the batch status only from "absent").
LEMMA QuietIngestStep ==
  ASSUME IInv, TypeOK', IngestConsistent',
         NEW u \in Uploads, ingest[u] # "answered",
         \A v \in Uploads \ {u} : ingest'[v] = ingest[v] /\ ingestSaw'[v] = ingestSaw[v],
         batch[u] # "absent" => batch'[u] = batch[u], batch'[u] \notin Final \/ batch'[u] = batch[u],
         \A v \in Uploads \ {u} : batch'[v] = batch[v],
         documents \subseteq documents', rawBlobs \subseteq rawBlobs',
         UNCHANGED <<jobVars, horseVars, resultVars>>
  PROVE  IInv'
<1> USE DEF IInv, TypeOK, jobVars, horseVars, resultVars
<1>1. QueueConsistent' /\ OneHorsePerJob'
  BY DEF QueueConsistent, OneHorsePerJob, Begun
<1>2. NothingBeforeStart' /\ JobBacked' /\ PredictionAudited' /\ DoneHasPrediction'
  BY DEF NothingBeforeStart, JobBacked, PredictionAudited, DoneHasPrediction, Final
<1>3. \A v \in Uploads : job[v] # "none" /\ WroteLate(v) => batch'[v] = batch[v] /\ WroteLate(v)'
  BY DEF WroteLate, JobBacked
<1>6. \A v \in Uploads : job[v] # "none" => batch'[v] = batch[v]
  BY DEF JobBacked
<1>7. FinishedMeansDone' /\ FailedIsReported'
  BY <1>3, <1>6 DEF FinishedMeansDone, FailedIsReported
<1>4. ASSUME NEW w \in Workers, horse[w] # "idle"
      PROVE  batch'[current[w]] = batch[current[w]]
  BY <1>4, BusyWorker
<1>5. HorseConsistent'
  BY <1>4, BusyWorker
  DEF HorseConsistent, Unpersisted, Persisted, Undecided, Unwinding, HorseStates, WroteLate
<1> QED
  BY <1>1, <1>2, <1>7, <1>5

LEMMA RejectIInv == ASSUME IInv, NEW u \in Uploads, Reject(u) PROVE IInv'
<1> USE DEF Reject, GoesTo
<1>1. TypeOK' /\ IngestConsistent'
  BY DEF IInv, TypeOK, IngestStates, IngestConsistent, jobVars, horseVars, resultVars
<1> QED
  BY <1>1, QuietIngestStep DEF IInv, TypeOK

LEMMA CreateBatchIInv == ASSUME IInv, NEW u \in Uploads, CreateBatch(u) PROVE IInv'
<1> USE DEF CreateBatch, GoesTo
<1>1. TypeOK' /\ IngestConsistent'
  BY DEF IInv, TypeOK, IngestStates, Statuses, IngestConsistent, jobVars, horseVars, resultVars
<1>2. batch[u] = "absent"
  BY DEF IInv, IngestConsistent
<1> QED
  BY <1>1, <1>2, QuietIngestStep DEF IInv, TypeOK, Final

LEMMA AddDocumentIInv == ASSUME IInv, NEW u \in Uploads, AddDocument(u) PROVE IInv'
<1> USE DEF AddDocument, GoesTo
<1>1. TypeOK' /\ IngestConsistent'
  BY DEF IInv, TypeOK, IngestStates, IngestConsistent, jobVars, horseVars, resultVars
<1> QED
  BY <1>1, QuietIngestStep DEF IInv, TypeOK

LEMMA UploadRawIInv == ASSUME IInv, NEW u \in Uploads, UploadRaw(u) PROVE IInv'
<1> USE DEF UploadRaw, GoesTo
<1>1. TypeOK' /\ IngestConsistent'
  BY DEF IInv, TypeOK, IngestStates, IngestConsistent, jobVars, horseVars, resultVars
<1> QED
  BY <1>1, QuietIngestStep DEF IInv, TypeOK

LEMMA LoadForProcessingIInv ==
  ASSUME IInv, NEW u \in Uploads, LoadForProcessing(u) PROVE IInv'
<1> USE DEF LoadForProcessing, GoesTo
<1>1. TypeOK' /\ IngestConsistent'
  BY DEF IInv, TypeOK, IngestStates, IngestConsistent, jobVars, horseVars, resultVars
<1> QED
  BY <1>1, QuietIngestStep DEF IInv, TypeOK

LEMMA AbortRequestIInv == ASSUME IInv, NEW u \in Uploads, AbortRequest(u) PROVE IInv'
<1> USE DEF AbortRequest
<1>1. TypeOK' /\ IngestConsistent'
  BY DEF IInv, TypeOK, IngestStates, IngestConsistent, jobVars, horseVars, resultVars
<1> QED
  BY <1>1, QuietIngestStep DEF IInv, TypeOK

\* The job appears at the end of the list: its upload was not in it, since
\* it had no job at all, and all it needs has been stored by now.
LEMMA EnqueueIInv == ASSUME IInv, NEW u \in Uploads, Enqueue(u) PROVE IInv'
<1> USE DEF Enqueue, GoesTo, horseVars, resultVars, IInv, TypeOK
<1>1. TypeOK'
  BY DEF IngestStates, JobStates
<1>2. QueueConsistent'
  <2>1. /\ Len(queue') = Len(queue) + 1 /\ queue'[Len(queue) + 1] = u
        /\ \A i \in 1..Len(queue) : queue'[i] = queue[i]
    OBVIOUS
  <2>2. \A i \in 1..Len(queue) : queue[i] # u
    BY DEF QueueConsistent, IngestConsistent
  <2>3. Len(queue) \in Nat /\ \A i \in 1..Len(queue) : queue[i] \in Uploads
    OBVIOUS
  <2> QED
    BY <2>1, <2>2, <2>3 DEF QueueConsistent
<1>3. OneHorsePerJob'
  BY DEF OneHorsePerJob, Begun, IngestConsistent
<1>4. IngestConsistent' /\ JobBacked'
  BY DEF IngestConsistent, JobBacked
<1>5. NothingBeforeStart' /\ PredictionAudited' /\ DoneHasPrediction'
  BY DEF NothingBeforeStart, PredictionAudited, DoneHasPrediction, IngestConsistent
<1>6. FinishedMeansDone' /\ FailedIsReported'
  BY DEF FinishedMeansDone, FailedIsReported, WroteLate
<1>7. HorseConsistent'
  BY BusyWorker DEF HorseConsistent, WroteLate, Unpersisted, Persisted, Undecided, Unwinding, HorseStates
<1> QED
  BY <1>1, <1>2, <1>3, <1>4, <1>5, <1>6, <1>7

\* The request's own status write.  If it is sent at all the batch becomes
\* "processing", which breaks no property of a batch whose job is running or
\* over: FinishedMeansDone and HorseConsistent allow for WroteLate.
LEMMA CommitProcessingIInv ==
  ASSUME IInv, NEW u \in Uploads, CommitProcessing(u) PROVE IInv'
<1> USE DEF CommitProcessing, GoesTo, Stored, jobVars, horseVars, resultVars, IInv, TypeOK
<1>1. TypeOK'
  BY DEF IngestStates, Statuses
<1>2. batch[u] # "absent" /\ job[u] # "none"
  BY DEF IngestConsistent
<1>3. QueueConsistent' /\ OneHorsePerJob' /\ PredictionAudited'
  BY DEF QueueConsistent, OneHorsePerJob, Begun, PredictionAudited
<1>4. IngestConsistent' /\ JobBacked'
  BY <1>2 DEF IngestConsistent, JobBacked
<1>5. NothingBeforeStart' /\ DoneHasPrediction'
  BY DEF NothingBeforeStart, DoneHasPrediction, Final
<1>6. FinishedMeansDone' /\ FailedIsReported'
  BY DEF FinishedMeansDone, FailedIsReported, WroteLate
<1>7. HorseConsistent'
  BY BusyWorker
  DEF HorseConsistent, WroteLate, Final, Unpersisted, Persisted, Undecided, Unwinding, HorseStates
<1> QED
  BY <1>1, <1>3, <1>4, <1>5, <1>6, <1>7

-----------------------------------------------------------------------------
(* The steps of a worker.                                                  *)

\* A step inside a job that stores no row and takes no job: only the place
\* of w, what its session holds, and perhaps the overlay of its upload.
LEMMA PrivateStep ==
  ASSUME IInv, TypeOK', HorseConsistent',
         NEW w \in Workers, horse[w] # "idle", horse'[w] # "idle",
         \A v \in Workers \ {w} : horse'[v] = horse[v],
         overlays \subseteq overlays',
         UNCHANGED <<ingestVars, batch, jobVars, current, predictions, audits>>
  PROVE  IInv'
<1> USE DEF IInv, TypeOK, ingestVars, jobVars
<1>1. QueueConsistent'
  BY DEF QueueConsistent
<1>2. OneHorsePerJob'
  BY DEF OneHorsePerJob, Begun
<1>3. IngestConsistent' /\ NothingBeforeStart' /\ JobBacked'
  BY DEF IngestConsistent, NothingBeforeStart, JobBacked
<1>4. PredictionAudited' /\ DoneHasPrediction' /\ FinishedMeansDone' /\ FailedIsReported'
  BY DEF PredictionAudited, DoneHasPrediction, FinishedMeansDone, FailedIsReported, WroteLate
<1> QED
  BY <1>1, <1>2, <1>3, <1>4

\* Each of the private steps, by its effect on HorseConsistent: a raise may
\* leave rows in the session of w, the rollback clears them.
LEMMA BuildPredictorIInv == ASSUME IInv, NEW w \in Workers, BuildPredictor(w) PROVE IInv'
<1> USE DEF BuildPredictor, At, ingestVars, jobVars, resultVars
<1>1. horse[w] # "idle" /\ current[w] \in Uploads
  BY BusyWorker
<1>2. TypeOK'
  BY <1>1 DEF IInv, TypeOK, HorseStates
<1>3. HorseConsistent'
  BY <1>1 DEF IInv, TypeOK, HorseConsistent, WroteLate,
              Unpersisted, Persisted, Undecided, Unwinding, HorseStates
<1> QED
  BY <1>1, <1>2, <1>3, PrivateStep DEF IInv, TypeOK

LEMMA PredictorFailsIInv == ASSUME IInv, NEW w \in Workers, PredictorFails(w) PROVE IInv'
<1> USE DEF PredictorFails, At, ingestVars, jobVars, resultVars
<1>1. horse[w] # "idle" /\ current[w] \in Uploads
  BY BusyWorker
<1>0. current[w] \in Silenced
  BY <1>1 DEF Silenced
<1>2. TypeOK'
  BY <1>1 DEF IInv, TypeOK, HorseStates
<1>3. HorseConsistent'
  BY <1>0, <1>1 DEF IInv, TypeOK, HorseConsistent, WroteLate,
                    Unpersisted, Persisted, Undecided, Unwinding, HorseStates
<1> QED
  BY <1>1, <1>2, <1>3, PrivateStep DEF IInv, TypeOK

LEMMA ClassifyIInv == ASSUME IInv, NEW w \in Workers, Classify(w) PROVE IInv'
<1> USE DEF Classify, At, ingestVars, jobVars, resultVars
<1>1. horse[w] # "idle" /\ current[w] \in Uploads
  BY BusyWorker
<1>2. TypeOK'
  BY <1>1 DEF IInv, TypeOK, HorseStates
<1>3. HorseConsistent'
  BY <1>1 DEF IInv, TypeOK, HorseConsistent, WroteLate,
              Unpersisted, Persisted, Undecided, Unwinding, HorseStates
<1> QED
  BY <1>1, <1>2, <1>3, PrivateStep DEF IInv, TypeOK

LEMMA ClassifyFailsIInv == ASSUME IInv, NEW w \in Workers, ClassifyFails(w) PROVE IInv'
<1> USE DEF ClassifyFails, At, ingestVars, jobVars, resultVars
<1>1. horse[w] # "idle" /\ current[w] \in Uploads
  BY BusyWorker
<1>2. TypeOK'
  BY <1>1 DEF IInv, TypeOK, HorseStates
<1>3. HorseConsistent'
  BY <1>1 DEF IInv, TypeOK, HorseConsistent, WroteLate,
              Unpersisted, Persisted, Undecided, Unwinding, HorseStates
<1> QED
  BY <1>1, <1>2, <1>3, PrivateStep DEF IInv, TypeOK

LEMMA UploadOverlayIInv == ASSUME IInv, NEW w \in Workers, UploadOverlay(w) PROVE IInv'
<1> USE DEF UploadOverlay, At, ingestVars, jobVars, resultVars
<1>1. horse[w] # "idle" /\ current[w] \in Uploads
  BY BusyWorker
<1>2. TypeOK'
  BY <1>1 DEF IInv, TypeOK, HorseStates
<1>3. HorseConsistent'
  BY <1>1 DEF IInv, TypeOK, HorseConsistent, WroteLate,
              Unpersisted, Persisted, Undecided, Unwinding, HorseStates
<1> QED
  BY <1>1, <1>2, <1>3, PrivateStep DEF IInv, TypeOK

LEMMA InsertPredictionIInv == ASSUME IInv, NEW w \in Workers, InsertPrediction(w) PROVE IInv'
<1> USE DEF InsertPrediction, At, ingestVars, jobVars, resultVars
<1>1. horse[w] # "idle" /\ current[w] \in Uploads
  BY BusyWorker
<1>2. TypeOK'
  BY <1>1 DEF IInv, TypeOK, HorseStates
<1>3. HorseConsistent'
  BY <1>1 DEF IInv, TypeOK, HorseConsistent, WroteLate,
              Unpersisted, Persisted, Undecided, Unwinding, HorseStates
<1> QED
  BY <1>1, <1>2, <1>3, PrivateStep DEF IInv, TypeOK

LEMMA LogPredictionIInv == ASSUME IInv, NEW w \in Workers, LogPrediction(w) PROVE IInv'
<1> USE DEF LogPrediction, At, ingestVars, jobVars, resultVars
<1>1. horse[w] # "idle" /\ current[w] \in Uploads
  BY BusyWorker
<1>2. TypeOK'
  BY <1>1 DEF IInv, TypeOK, HorseStates
<1>3. HorseConsistent'
  BY <1>1 DEF IInv, TypeOK, HorseConsistent, WroteLate,
              Unpersisted, Persisted, Undecided, Unwinding, HorseStates
<1> QED
  BY <1>1, <1>2, <1>3, PrivateStep DEF IInv, TypeOK

LEMMA StepFailsIInv == ASSUME IInv, NEW w \in Workers, StepFails(w) PROVE IInv'
<1> USE DEF StepFails, At, ingestVars, jobVars, resultVars, InTry
<1>1. horse[w] # "idle" /\ current[w] \in Uploads
  BY BusyWorker
<1>2. TypeOK'
  BY <1>1 DEF IInv, TypeOK, HorseStates
<1>3. HorseConsistent'
  BY <1>1 DEF IInv, TypeOK, HorseConsistent, WroteLate, Final,
              Unpersisted, Persisted, Undecided, Unwinding, HorseStates
<1> QED
  BY <1>1, <1>2, <1>3, PrivateStep DEF IInv, TypeOK

LEMMA RollbackIInv == ASSUME IInv, NEW w \in Workers, Rollback(w) PROVE IInv'
<1> USE DEF Rollback, At, ingestVars, jobVars, resultVars
<1>1. horse[w] # "idle" /\ current[w] \in Uploads
  BY BusyWorker
<1>2. TypeOK'
  BY <1>1 DEF IInv, TypeOK, HorseStates
<1>3. HorseConsistent'
  BY <1>1 DEF IInv, TypeOK, HorseConsistent, WroteLate,
              Unpersisted, Persisted, Undecided, Unwinding, HorseStates
<1> QED
  BY <1>1, <1>2, <1>3, PrivateStep DEF IInv, TypeOK

LEMMA ReportFailsIInv == ASSUME IInv, NEW w \in Workers, ReportFails(w) PROVE IInv'
<1> USE DEF ReportFails, At, ingestVars, jobVars, resultVars
<1>1. horse[w] # "idle" /\ current[w] \in Uploads
  BY BusyWorker
<1>0. current[w] \in Silenced
  BY <1>1 DEF Silenced
<1>2. TypeOK'
  BY <1>1 DEF IInv, TypeOK, HorseStates
<1>3. HorseConsistent'
  BY <1>0, <1>1 DEF IInv, TypeOK, HorseConsistent, WroteLate,
                    Unpersisted, Persisted, Undecided, Unwinding, HorseStates
<1> QED
  BY <1>1, <1>2, <1>3, PrivateStep DEF IInv, TypeOK

\* The row of a running job exists, so a load finds it; and no verdict has
\* been stored for a job that is not yet at one.
LEMMA LoadStatusIInv == ASSUME IInv, NEW w \in Workers, LoadStatus(w) PROVE IInv'
<1> USE DEF ingestVars, jobVars, resultVars
<1>1. PICK s \in StatusUpdates :
        At(w, s.from, IF batch[current[w]] = "absent" THEN s.missing ELSE s.read)
  BY DEF LoadStatus
<1>2. horse[w] # "idle" /\ current[w] \in Uploads /\ batch[current[w]] # "absent"
  BY <1>1, BusyWorker DEF StatusUpdates, At
<1>3. /\ s.from \in {"ready", "persisted", "rolledback"}
      /\ s.from = "ready" => s.read = "starting"
      /\ s.from = "persisted" => s.read = "finishing"
      /\ s.from = "rolledback" => s.read = "failing"
  BY DEF StatusUpdates
<1>4. /\ horse[w] = s.from /\ horse' = [horse EXCEPT ![w] = s.read]
      /\ horseSaw' = [horseSaw EXCEPT ![w] = batch[current[w]]]
      /\ UNCHANGED <<current, tx, ingestVars, batch, jobVars, resultVars>>
  BY <1>1, <1>2 DEF LoadStatus, At
<1>5. TypeOK'
  BY <1>2, <1>3, <1>4 DEF IInv, TypeOK, HorseStates
<1>6. HorseConsistent'
  BY <1>2, <1>3, <1>4 DEF IInv, TypeOK, HorseConsistent, WroteLate, Final,
                          Unpersisted, Persisted, Undecided, Unwinding, HorseStates
<1> QED
  BY <1>2, <1>3, <1>4, <1>5, <1>6, PrivateStep DEF IInv, TypeOK

\* The three commits of a status, one by one.
LEMMA CommitStatusCases ==
  ASSUME IInv, NEW w \in Workers, CommitStatus(w)
  PROVE  \E new \in {"processing", "done", "failed"}, to \in HorseStates :
           /\ \/ horse[w] = "starting" /\ new = "processing" /\ to = "classifying"
              \/ horse[w] = "finishing" /\ new = "done" /\ to = "reported"
              \/ horse[w] = "failing" /\ new = "failed" /\ to = "reraised"
           /\ horse' = [horse EXCEPT ![w] = to]
           /\ batch' = [batch EXCEPT ![current[w]] =
                           IF horseSaw[w] = new THEN @ ELSE new]
           /\ UNCHANGED <<current, horseSaw, tx, predictions, audits, overlays,
                          ingestVars, jobVars>>
<1>1. PICK s \in StatusUpdates :
        /\ At(w, s.read, s.to)
        /\ batch' = [batch EXCEPT ![current[w]] = Stored(horseSaw[w], s.new, @)]
        /\ CommitRows(w)
        /\ UNCHANGED <<current, horseSaw, ingestVars, jobVars, overlays>>
  BY DEF CommitStatus
<1>2. \/ s.read = "starting" /\ s.new = "processing" /\ s.to = "classifying"
      \/ s.read = "finishing" /\ s.new = "done" /\ s.to = "reported"
      \/ s.read = "failing" /\ s.new = "failed" /\ s.to = "reraised"
  BY DEF StatusUpdates
<1>3. tx[w] = {}
  BY <1>1, <1>2 DEF At, IInv, HorseConsistent
<1>4. UNCHANGED <<tx, predictions, audits>>
  <2>1. current[w] \in Uploads
    BY <1>1, <1>2, BusyWorker DEF At
  <2> QED
    BY <1>1, <1>3, <2>1 DEF CommitRows, IInv, TypeOK
<1>5. s.new \in {"processing", "done", "failed"} /\ s.to \in HorseStates
  BY <1>2 DEF HorseStates
<1> QED
  BY <1>1, <1>2, <1>4, <1>5 DEF At, Stored

LEMMA CommitStatusIInv == ASSUME IInv, NEW w \in Workers, CommitStatus(w) PROVE IInv'
<1> USE DEF ingestVars, jobVars
<1>1. PICK new \in {"processing", "done", "failed"}, to \in HorseStates :
        /\ \/ horse[w] = "starting" /\ new = "processing" /\ to = "classifying"
           \/ horse[w] = "finishing" /\ new = "done" /\ to = "reported"
           \/ horse[w] = "failing" /\ new = "failed" /\ to = "reraised"
        /\ horse' = [horse EXCEPT ![w] = to]
        /\ batch' = [batch EXCEPT ![current[w]] = IF horseSaw[w] = new THEN @ ELSE new]
        /\ UNCHANGED <<current, horseSaw, tx, predictions, audits, overlays,
                       ingestVars, jobVars>>
  BY CommitStatusCases
<1>2. horse[w] # "idle" /\ to # "idle"
  BY <1>1
<1>3. current[w] \in Uploads /\ job[current[w]] = "started" /\ batch[current[w]] # "absent"
  BY <1>2, BusyWorker
<1>4. new # "processing" => horseSaw[w] # new
  BY <1>1 DEF IInv, HorseConsistent, Final
<1>5. TypeOK'
  BY <1>1, <1>3 DEF IInv, TypeOK, Statuses
<1>6. QueueConsistent'
  BY <1>1 DEF IInv, QueueConsistent
<1>7. OneHorsePerJob'
  BY <1>1, <1>2 DEF IInv, TypeOK, OneHorsePerJob, Begun
<1>8. IngestConsistent' /\ NothingBeforeStart' /\ JobBacked' /\ PredictionAudited'
  BY <1>1, <1>3 DEF IInv, TypeOK, IngestConsistent, NothingBeforeStart, JobBacked, PredictionAudited
<1>9. DoneHasPrediction'
  BY <1>1, <1>3 DEF IInv, TypeOK, DoneHasPrediction, HorseConsistent, Persisted
<1>10. FinishedMeansDone' /\ FailedIsReported'
  BY <1>1, <1>3 DEF IInv, TypeOK, FinishedMeansDone, FailedIsReported, WroteLate
<1>11. HorseConsistent'
  BY <1>1, <1>3, <1>4
  DEF IInv, TypeOK, HorseConsistent, OneHorsePerJob, Begun, WroteLate, Final,
      Unpersisted, Persisted, Undecided, Unwinding, HorseStates
<1> QED
  BY <1>5, <1>6, <1>7, <1>8, <1>9, <1>10, <1>11 DEF IInv

\* The commit adds the one prediction and its audit row: w flushed both,
\* and no other worker runs this job.
LEMMA CommitPredictionIInv ==
  ASSUME IInv, NEW w \in Workers, CommitPrediction(w) PROVE IInv'
<1> USE DEF CommitPrediction, At, ingestVars, jobVars
<1>1. current[w] \in Uploads /\ job[current[w]] = "started"
  BY BusyWorker
<1>2. tx[w] = {"prediction", "audit"} /\ predictions[current[w]] = 0 /\ current[w] \in overlays
  BY DEF IInv, HorseConsistent, Unpersisted
<1>3. /\ predictions' = [predictions EXCEPT ![current[w]] = 1]
      /\ audits' = [audits EXCEPT ![current[w]] = 1]
      /\ tx' = [tx EXCEPT ![w] = {}]
  <2>1. audits[current[w]] = 0
    BY <1>1, <1>2 DEF IInv, PredictionAudited
  <2> QED
    BY <1>2, <2>1 DEF CommitRows
<1>4. TypeOK'
  BY <1>1, <1>3 DEF IInv, TypeOK, HorseStates
<1>5. QueueConsistent'
  BY DEF IInv, QueueConsistent
<1>6. OneHorsePerJob'
  BY DEF IInv, TypeOK, OneHorsePerJob, Begun
<1>7. IngestConsistent' /\ NothingBeforeStart' /\ JobBacked'
  BY <1>1, <1>3 DEF IInv, TypeOK, IngestConsistent, NothingBeforeStart, JobBacked
<1>8. PredictionAudited' /\ DoneHasPrediction' /\ FinishedMeansDone' /\ FailedIsReported'
  BY <1>1, <1>2, <1>3
  DEF IInv, TypeOK, PredictionAudited, DoneHasPrediction, FinishedMeansDone, FailedIsReported, WroteLate
<1>9. HorseConsistent'
  BY <1>1, <1>2, <1>3
  DEF IInv, TypeOK, HorseConsistent, OneHorsePerJob, Begun, WroteLate,
      Unpersisted, Persisted, Undecided, Unwinding, HorseStates
<1> QED
  BY <1>4, <1>5, <1>6, <1>7, <1>8, <1>9 DEF IInv

\* The job at the head waits, so no worker runs it; it leaves the list for
\* good, since it was in it once.
LEMMA DequeueIInv == ASSUME IInv, NEW w \in Workers, Dequeue(w) PROVE IInv'
<1> DEFINE u == Head(queue)
<1> USE DEF Dequeue, At, ingestVars, resultVars
<1>1. /\ u \in Uploads /\ u = queue[1]
      /\ Tail(queue) \in Seq(Uploads)
      /\ Len(queue) \in Nat \ {0} /\ Len(Tail(queue)) = Len(queue) - 1
      /\ \A i \in 1..Len(Tail(queue)) : Tail(queue)[i] = queue[i + 1]
  BY HeadTailProperties, EmptySeq DEF IInv, TypeOK
<1>2. job[u] = "queued"
  BY <1>1 DEF IInv, QueueConsistent
<1>3. /\ horse' = [horse EXCEPT ![w] = "fetched"] /\ horse[w] = "idle"
      /\ current' = [current EXCEPT ![w] = u]
      /\ job' = [job EXCEPT ![u] = "started"]
      /\ queue' = Tail(queue)
  OBVIOUS
<1> HIDE DEF u
<1>4. TypeOK'
  BY <1>1, <1>3 DEF IInv, TypeOK, HorseStates, JobStates
<1>5. QueueConsistent'
  BY <1>1, <1>3 DEF IInv, TypeOK, QueueConsistent
<1>6. OneHorsePerJob'
  BY <1>1, <1>2, <1>3, NothingAssumption DEF IInv, TypeOK, OneHorsePerJob, Begun
<1>7. IngestConsistent' /\ NothingBeforeStart' /\ JobBacked'
  BY <1>1, <1>2, <1>3 DEF IInv, TypeOK, IngestConsistent, NothingBeforeStart, JobBacked
<1>8. PredictionAudited' /\ DoneHasPrediction' /\ FinishedMeansDone' /\ FailedIsReported'
  BY <1>1, <1>3
  DEF IInv, TypeOK, PredictionAudited, DoneHasPrediction, FinishedMeansDone, FailedIsReported, WroteLate
<1>9. HorseConsistent'
  BY <1>1, <1>2, <1>3
  DEF IInv, TypeOK, HorseConsistent, NothingBeforeStart, WroteLate,
      Unpersisted, Persisted, Undecided, Unwinding, HorseStates
<1> QED
  BY <1>4, <1>5, <1>6, <1>7, <1>8, <1>9 DEF IInv

\* However a job ends; a finished one has reported.
LEMMA EndJobIInv ==
  ASSUME IInv, NEW w \in Workers, NEW verdict \in {"finished", "failed"},
         horse[w] # "idle", verdict = "finished" => horse[w] = "reported",
         verdict = "failed" => horse[w] = "reraised" \/ current[w] \in Silenced,
         EndJob(w, verdict)
  PROVE  IInv'
<1> USE DEF EndJob, ingestVars, resultVars
<1>1. current[w] \in Uploads /\ job[current[w]] = "started"
  BY BusyWorker
<1>2. TypeOK'
  BY <1>1 DEF IInv, TypeOK, HorseStates, JobStates
<1>3. QueueConsistent'
  <2>1. \A i \in 1..Len(queue) : queue[i] \in Uploads /\ queue[i] # current[w]
    BY <1>1 DEF IInv, TypeOK, QueueConsistent
  <2> QED
    BY <1>1, <2>1 DEF IInv, TypeOK, QueueConsistent
<1>4. OneHorsePerJob'
  BY <1>1 DEF IInv, TypeOK, OneHorsePerJob, Begun
<1>5. IngestConsistent' /\ NothingBeforeStart' /\ JobBacked'
  BY <1>1 DEF IInv, TypeOK, IngestConsistent, NothingBeforeStart, JobBacked
<1>6. PredictionAudited' /\ DoneHasPrediction'
  BY <1>1 DEF IInv, TypeOK, PredictionAudited, DoneHasPrediction
<1>7. FinishedMeansDone' /\ FailedIsReported'
  BY <1>1 DEF IInv, TypeOK, FinishedMeansDone, FailedIsReported, WroteLate, HorseConsistent, Persisted
<1>8. HorseConsistent'
  BY <1>1
  DEF IInv, TypeOK, HorseConsistent, WroteLate, Unpersisted, Persisted, Undecided, Unwinding, HorseStates
<1> QED
  BY <1>2, <1>3, <1>4, <1>5, <1>6, <1>7, <1>8 DEF IInv

-----------------------------------------------------------------------------
(* Every step keeps the invariant.                                         *)

LEMMA StepIInv == IInv /\ [Next]_vars => IInv'
<1> SUFFICES ASSUME IInv, [Next]_vars PROVE IInv'
  OBVIOUS
<1>1. CASE UNCHANGED vars
  <2> USE <1>1 DEF IInv, vars, ingestVars, jobVars, horseVars, resultVars
  <2>1. TypeOK' /\ IngestConsistent' /\ QueueConsistent' /\ OneHorsePerJob'
    BY DEF TypeOK, IngestConsistent, QueueConsistent, OneHorsePerJob, Begun
  <2>2. NothingBeforeStart' /\ JobBacked' /\ PredictionAudited' /\ DoneHasPrediction'
    BY DEF NothingBeforeStart, JobBacked, PredictionAudited, DoneHasPrediction
  <2>3. HorseConsistent' /\ FinishedMeansDone' /\ FailedIsReported'
    BY DEF HorseConsistent, FinishedMeansDone, FailedIsReported, WroteLate
  <2> QED
    BY <2>1, <2>2, <2>3
<1>2. ASSUME NEW u \in Uploads,
             Reject(u) \/ CreateBatch(u) \/ IngestStep(u) \/ AbortRequest(u)
      PROVE  IInv'
  BY <1>2, RejectIInv, CreateBatchIInv, AddDocumentIInv, UploadRawIInv, EnqueueIInv,
     LoadForProcessingIInv, CommitProcessingIInv, AbortRequestIInv
  DEF IngestStep
<1>3. ASSUME NEW w \in Workers, JobFinishes(w) \/ JobRaises(w) \/ HorseDies(w)
      PROVE  IInv'
  <2>1. CASE HorseDies(w)
    <3>1. current[w] \in Silenced
      BY <2>1, BusyWorker DEF HorseDies, Silenced
    <3> QED
      BY <2>1, <3>1, EndJobIInv DEF HorseDies
  <2> QED
    BY <1>3, <2>1, EndJobIInv DEF JobFinishes, JobRaises
<1>4. ASSUME NEW w \in Workers,
             HorseStep(w) \/ PredictorFails(w) \/ StepFails(w) \/ ReportFails(w) \/ HorseDies(w)
      PROVE  IInv'
  BY <1>3, <1>4, DequeueIInv, BuildPredictorIInv, LoadStatusIInv, CommitStatusIInv,
     ClassifyIInv, ClassifyFailsIInv, UploadOverlayIInv, InsertPredictionIInv,
     LogPredictionIInv, CommitPredictionIInv, RollbackIInv, PredictorFailsIInv,
     StepFailsIInv, ReportFailsIInv
  DEF HorseStep
<1> QED
  BY <1>1, <1>2, <1>4 DEF Next

\* The inductive invariant of the pipeline.
THEOREM Invariance == Spec => []IInv
  BY InitIInv, StepIInv, PTL DEF Spec

\* Every variable keeps its type.
THEOREM TypeCorrect == Spec => []TypeOK
  BY Invariance, PTL DEF IInv

\* A job never runs ahead of its batch, its document and its bytes.
THEOREM JobsAreBacked == Spec => []JobBacked
  BY Invariance, PTL DEF IInv

\* Whatever fails, a document has no prediction, or exactly one, audited
\* once and with its overlay stored.
THEOREM PredictionsAreAudited == Spec => []PredictionAudited
  BY Invariance, PTL DEF IInv

\* A client that reads "done" finds the prediction.
THEOREM DoneIsHonest == Spec => []DoneHasPrediction
  BY Invariance, PTL DEF IInv

\* Only the ingest request can hide the verdict of a finished job.
THEOREM FinishedIsDone == Spec => []FinishedMeansDone
  BY Invariance, PTL DEF IInv

\* A job that fails marks its batch, unless it is of a kind that cannot.
THEOREM FailuresAreReported == Spec => []FailedIsReported
  BY Invariance, PTL DEF IInv

-----------------------------------------------------------------------------
(* Facts about one step.                                                   *)

\* Who can change the status of a batch, and how.
LEMMA StatusWriters ==
  ASSUME IInv, [Next]_vars, NEW u \in Uploads, batch'[u] # batch[u]
  PROVE  \/ CreateBatch(u)
         \/ CommitProcessing(u)
         \/ \E w \in Workers : CommitStatus(w) /\ current[w] = u
<1> USE DEF IInv, TypeOK, ingestVars, jobVars, horseVars, resultVars
<1>1. CASE UNCHANGED vars
  BY <1>1 DEF vars
<1>2. ASSUME NEW v \in Uploads, CreateBatch(v) \/ CommitProcessing(v)
      PROVE  CreateBatch(u) \/ CommitProcessing(u)
  <2>1. v = u
    BY <1>2 DEF CreateBatch, CommitProcessing
  <2> QED
    BY <1>2, <2>1
<1>3. ASSUME NEW v \in Uploads,
             Reject(v) \/ AddDocument(v) \/ UploadRaw(v) \/ Enqueue(v)
               \/ LoadForProcessing(v) \/ AbortRequest(v)
      PROVE  FALSE
  BY <1>3 DEF Reject, AddDocument, UploadRaw, Enqueue, LoadForProcessing, AbortRequest
<1>4. ASSUME NEW w \in Workers, CommitStatus(w)
      PROVE  current[w] = u
  BY <1>4 DEF CommitStatus
<1>5. ASSUME NEW w \in Workers,
             \/ Dequeue(w) \/ BuildPredictor(w) \/ PredictorFails(w) \/ LoadStatus(w)
             \/ Classify(w) \/ ClassifyFails(w) \/ UploadOverlay(w) \/ InsertPrediction(w)
             \/ LogPrediction(w) \/ CommitPrediction(w) \/ StepFails(w) \/ Rollback(w)
             \/ ReportFails(w) \/ JobFinishes(w) \/ JobRaises(w) \/ HorseDies(w)
      PROVE  FALSE
  BY <1>5
  DEF Dequeue, BuildPredictor, PredictorFails, LoadStatus, Classify, ClassifyFails,
      UploadOverlay, InsertPrediction, LogPrediction, CommitPrediction, StepFails, Rollback,
      ReportFails, JobFinishes, JobRaises, HorseDies, EndJob
<1> QED
  BY <1>1, <1>2, <1>3, <1>4, <1>5 DEF Next, IngestStep, HorseStep

\* A verdict is taken back only by an ingest request that had not loaded
\* "processing", and a "done" also by the report of the job whose own update
\* to "done" raised.
THEOREM VerdictsAreKept == Spec => FinalStatusKept
<1>1. ASSUME IInv, [Next]_vars, NEW u \in Uploads,
             batch[u] \in Final, batch'[u] # batch[u]
      PROVE  WritesLate(u) \/ ReportsOwnSuccess(u)
  <2>1. ~ CreateBatch(u)
    BY <1>1 DEF CreateBatch, GoesTo, IInv, IngestConsistent, Final
  <2>2. ASSUME NEW w \in Workers, CommitStatus(w), current[w] = u
        PROVE  ReportsOwnSuccess(u)
    <3>1. PICK new \in {"processing", "done", "failed"} :
            /\ \/ horse[w] = "starting" /\ new = "processing"
               \/ horse[w] = "finishing" /\ new = "done"
               \/ horse[w] = "failing" /\ new = "failed"
            /\ batch' = [batch EXCEPT ![u] = IF horseSaw[w] = new THEN @ ELSE new]
      BY <1>1, <2>2, CommitStatusCases
    <3>2. horse[w] = "failing" /\ batch[u] = "done" /\ "step" \in Faults[u]
      BY <1>1, <2>2, <3>1 DEF IInv, HorseConsistent, Undecided, Unwinding, HorseStates
    <3>3. batch'[u] = "failed"
      BY <1>1, <3>1, <3>2 DEF IInv, TypeOK
    <3>4. predictions[u] = 1
      BY <1>1, <3>2 DEF IInv, DoneHasPrediction
    <3> QED
      BY <2>2, <3>2, <3>3, <3>4 DEF ReportsOwnSuccess
  <2>3. CASE CommitProcessing(u)
    BY <1>1, <2>3 DEF WritesLate, CommitProcessing, GoesTo, Stored, IInv, TypeOK
  <2> QED
    BY <1>1, <2>1, <2>2, <2>3, StatusWriters
<1>2. IInv /\ [Next]_vars =>
        [\A u \in Uploads :
            batch[u] \in Final /\ batch'[u] # batch[u] =>
                WritesLate(u) \/ ReportsOwnSuccess(u)]_vars
  BY <1>1
<1> QED
  BY <1>2, Invariance, PTL DEF Spec, FinalStatusKept

-----------------------------------------------------------------------------
(* A job goes forward.                                                     *)

\* What a step of a worker leaves as it is.
LEMMA OwnPlaceOnly ==
  ASSUME IInv, NEW w \in Workers, horse[w] # "idle",
         HorseStep(w) \/ PredictorFails(w) \/ StepFails(w) \/ ReportFails(w) \/ HorseDies(w)
  PROVE  \E to \in HorseStates :
           /\ horse' = [horse EXCEPT ![w] = to]
           /\ StepsLeft[to] < StepsLeft[horse[w]]
           /\ \/ /\ to = "idle"
                 /\ current' = [current EXCEPT ![w] = Nothing]
                 /\ \E verdict \in {"finished", "failed"} :
                       job' = [job EXCEPT ![current[w]] = verdict]
              \/ to # "idle" /\ UNCHANGED <<current, job>>
<1> USE DEF At, jobVars
<1>1. CASE BuildPredictor(w) \/ PredictorFails(w)
  <2>1. PICK to \in {"ready", "reraised"} : horse' = [horse EXCEPT ![w] = to]
    BY <1>1 DEF BuildPredictor, PredictorFails
  <2> QED
    BY <1>1, <2>1 DEF BuildPredictor, PredictorFails, StepsLeft, HorseStates
<1>2. CASE LoadStatus(w)
  <2>1. PICK s \in StatusUpdates :
          At(w, s.from, IF batch[current[w]] = "absent" THEN s.missing ELSE s.read)
    BY <1>2 DEF LoadStatus
  <2>2. batch[current[w]] # "absent"
    BY BusyWorker
  <2>3. /\ horse[w] = s.from /\ horse' = [horse EXCEPT ![w] = s.read]
        /\ \/ s.from = "ready" /\ s.read = "starting"
           \/ s.from = "persisted" /\ s.read = "finishing"
           \/ s.from = "rolledback" /\ s.read = "failing"
    BY <2>1, <2>2 DEF StatusUpdates
  <2>4. s.read \in HorseStates /\ s.read # "idle" /\ StepsLeft[s.read] < StepsLeft[horse[w]]
    BY <2>3 DEF HorseStates, StepsLeft
  <2> QED
    BY <1>2, <2>3, <2>4 DEF LoadStatus
<1>3. CASE CommitStatus(w)
  <2>1. PICK to \in HorseStates :
          /\ \/ horse[w] = "starting" /\ to = "classifying"
             \/ horse[w] = "finishing" /\ to = "reported"
             \/ horse[w] = "failing" /\ to = "reraised"
          /\ horse' = [horse EXCEPT ![w] = to]
          /\ UNCHANGED <<current, jobVars>>
    BY <1>3, CommitStatusCases
  <2>2. to # "idle" /\ StepsLeft[to] < StepsLeft[horse[w]]
    BY <2>1 DEF StepsLeft
  <2> QED
    BY <2>1, <2>2
<1>4. CASE Classify(w) \/ UploadOverlay(w) \/ InsertPrediction(w) \/ LogPrediction(w)
           \/ CommitPrediction(w)
  <2>1. PICK to \in {"overlaying", "inserting", "auditing", "persisting", "persisted"} :
          /\ horse' = [horse EXCEPT ![w] = to]
          /\ \/ horse[w] = "classifying" /\ to = "overlaying"
             \/ horse[w] = "overlaying" /\ to = "inserting"
             \/ horse[w] = "inserting" /\ to = "auditing"
             \/ horse[w] = "auditing" /\ to = "persisting"
             \/ horse[w] = "persisting" /\ to = "persisted"
    BY <1>4 DEF Classify, UploadOverlay, InsertPrediction, LogPrediction, CommitPrediction
  <2>2. to \in HorseStates /\ to # "idle" /\ StepsLeft[to] < StepsLeft[horse[w]]
    BY <2>1 DEF HorseStates, StepsLeft
  <2>3. UNCHANGED <<current, job>>
    BY <1>4 DEF Classify, UploadOverlay, InsertPrediction, LogPrediction, CommitPrediction
  <2> QED
    BY <2>1, <2>2, <2>3
<1>5. CASE ClassifyFails(w) \/ StepFails(w)
  <2>1. horse[w] \in InTry /\ horse' = [horse EXCEPT ![w] = "raised"] /\ UNCHANGED <<current, job>>
    BY <1>5 DEF ClassifyFails, StepFails, InTry
  <2>2. "raised" \in HorseStates /\ StepsLeft["raised"] < StepsLeft[horse[w]]
    BY <2>1 DEF InTry, HorseStates, StepsLeft
  <2> QED
    BY <2>1, <2>2
<1>6. CASE Rollback(w) \/ ReportFails(w)
  <2>1. PICK to \in {"rolledback", "reraised"} :
          /\ horse' = [horse EXCEPT ![w] = to] /\ UNCHANGED <<current, job>>
          /\ \/ horse[w] = "raised" /\ to = "rolledback"
             \/ horse[w] \in {"rolledback", "failing"} /\ to = "reraised"
    BY <1>6 DEF Rollback, ReportFails
  <2>2. to \in HorseStates /\ to # "idle" /\ StepsLeft[to] < StepsLeft[horse[w]]
    BY <2>1 DEF HorseStates, StepsLeft
  <2> QED
    BY <2>1, <2>2
<1>7. CASE JobFinishes(w) \/ JobRaises(w) \/ HorseDies(w)
  <2>1. PICK verdict \in {"finished", "failed"} : EndJob(w, verdict)
    BY <1>7 DEF JobFinishes, JobRaises, HorseDies
  <2>2. "idle" \in HorseStates /\ StepsLeft["idle"] < StepsLeft[horse[w]]
    BY DEF IInv, TypeOK, HorseStates, StepsLeft
  <2> QED
    BY <2>1, <2>2 DEF EndJob
<1> QED
  BY <1>1, <1>2, <1>3, <1>4, <1>5, <1>6, <1>7 DEF HorseStep, Dequeue

\* What a step of Next is to the workers and the jobs: an ingest, a dequeue,
\* or the next place of one worker.
LEMMA WhoMoves ==
  ASSUME IInv, [Next]_vars
  PROVE  \/ UNCHANGED <<horse, current, job>>
         \/ \E u \in Uploads : Enqueue(u)
         \/ \E w \in Workers : Dequeue(w)
         \/ \E w \in Workers :
               /\ horse[w] # "idle"
               /\ HorseStep(w) \/ PredictorFails(w) \/ StepFails(w) \/ ReportFails(w)
                    \/ HorseDies(w)
<1>1. CASE UNCHANGED vars
  BY <1>1 DEF vars, horseVars, jobVars
<1>2. ASSUME NEW u \in Uploads,
             Reject(u) \/ CreateBatch(u) \/ AddDocument(u) \/ UploadRaw(u)
               \/ LoadForProcessing(u) \/ CommitProcessing(u) \/ AbortRequest(u)
      PROVE  UNCHANGED <<horse, current, job>>
  BY <1>2 DEF Reject, CreateBatch, AddDocument, UploadRaw, LoadForProcessing, CommitProcessing,
              AbortRequest, horseVars, jobVars
<1>3. ASSUME NEW w \in Workers,
             \/ BuildPredictor(w) \/ PredictorFails(w) \/ LoadStatus(w) \/ CommitStatus(w)
             \/ Classify(w) \/ ClassifyFails(w) \/ UploadOverlay(w) \/ InsertPrediction(w)
             \/ LogPrediction(w) \/ CommitPrediction(w) \/ StepFails(w) \/ Rollback(w)
             \/ ReportFails(w) \/ JobFinishes(w) \/ JobRaises(w) \/ HorseDies(w)
      PROVE  horse[w] # "idle"
  BY <1>3
  DEF BuildPredictor, PredictorFails, LoadStatus, CommitStatus, StatusUpdates, Classify,
      ClassifyFails, UploadOverlay, InsertPrediction, LogPrediction, CommitPrediction, StepFails,
      InTry, Rollback, ReportFails, JobFinishes, JobRaises, HorseDies, At
<1> QED
  BY <1>1, <1>2, <1>3 DEF Next, IngestStep, HorseStep

\* No path of a job leads back into it.
THEOREM JobsGoForward == Spec => JobForward
<1> DEFINE Forward == (\A w \in Workers : GoesForward(w)) /\ (\A u \in Uploads : NoWayBack(u))
<1>1. IInv /\ [Next]_vars => Forward
  <2> SUFFICES ASSUME IInv, [Next]_vars PROVE Forward
    OBVIOUS
  <2> USE DEF IInv, TypeOK, GoesForward, NoWayBack
  <2>1. CASE UNCHANGED <<horse, current, job>>
    BY <2>1
  <2>2. ASSUME NEW u \in Uploads, Enqueue(u)
        PROVE  job[u] = "none" /\ job' = [job EXCEPT ![u] = "queued"] /\ UNCHANGED horseVars
    BY <2>2 DEF Enqueue, GoesTo, IngestConsistent
  <2>3. CASE \E u \in Uploads : Enqueue(u)
    BY <2>2, <2>3 DEF horseVars
  <2>4. ASSUME NEW v \in Workers, Dequeue(v)
        PROVE  \E u \in Uploads :
                 /\ job[u] = "queued" /\ job' = [job EXCEPT ![u] = "started"]
                 /\ horse[v] = "idle" /\ horse' = [horse EXCEPT ![v] = "fetched"]
                 /\ current' = [current EXCEPT ![v] = u]
    <3>1. Head(queue) = queue[1] /\ Head(queue) \in Uploads /\ Len(queue) >= 1
      BY <2>4, HeadTailProperties, EmptySeq DEF Dequeue
    <3>2. job[Head(queue)] = "queued"
      BY <3>1 DEF QueueConsistent
    <3> QED
      BY <2>4, <3>1, <3>2 DEF Dequeue, At
  <2>5. CASE \E v \in Workers : Dequeue(v)
    BY <2>4, <2>5
  <2>6. ASSUME NEW v \in Workers, horse[v] # "idle", NEW to \in HorseStates,
               horse' = [horse EXCEPT ![v] = to], StepsLeft[to] < StepsLeft[horse[v]],
               \/ /\ to = "idle"
                  /\ current' = [current EXCEPT ![v] = Nothing]
                  /\ \E verdict \in {"finished", "failed"} :
                        job' = [job EXCEPT ![current[v]] = verdict]
               \/ to # "idle" /\ UNCHANGED <<current, job>>
        PROVE  Forward
    <3>1. current[v] \in Uploads /\ job[current[v]] = "started"
      BY <2>6, BusyWorker
    <3>2. CASE to = "idle"
      <4>1. PICK verdict \in {"finished", "failed"} : job' = [job EXCEPT ![current[v]] = verdict]
        BY <2>6, <3>2
      <4> QED
        BY <2>6, <3>1, <3>2, <4>1
    <3>3. CASE to # "idle"
      BY <2>6, <3>3
    <3> QED
      BY <3>2, <3>3
  <2>7. CASE \E w \in Workers :
               /\ horse[w] # "idle"
               /\ HorseStep(w) \/ PredictorFails(w) \/ StepFails(w) \/ ReportFails(w)
                    \/ HorseDies(w)
    BY <2>6, <2>7, OwnPlaceOnly
  <2> QED
    BY <2>1, <2>3, <2>5, <2>7, WhoMoves
<1> QED
  BY <1>1, Invariance, PTL DEF Spec, JobForward

-----------------------------------------------------------------------------
(* An upload left to its worker gets the right verdict.                    *)

\* Where the job of an undisturbed upload may stand, by whether its file can
\* be classified.
Track(u) ==
    IF u \in Unreadable
    THEN {"fetched", "ready", "starting", "classifying", "raised", "rolledback", "failing", "reraised"}
    ELSE {"fetched", "ready", "starting", "classifying", "overlaying", "inserting", "auditing",
          "persisting", "persisted", "finishing", "reported"}

Told == {"reported", "reraised"}

\* What is true of such an upload from the moment it is left to its worker,
\* and for ever.
OnTrack(u) ==
    /\ ingest[u] \in {"answered", "aborted"}
    /\ job[u] # "none"
    /\ \A w \in Workers :
          current[w] = u =>
              /\ horse[w] \in Track(u)
              /\ horse[w] \in Told => batch[u] = Verdict(u)
    /\ Over(u) => batch[u] = Verdict(u)

LEMMA TrackBegins ==
  ASSUME IInv, NEW u \in Uploads, LeftToWorker(u)
  PROVE  OnTrack(u)
<1>1. \A w \in Workers : current[w] # u
  BY NothingAssumption DEF LeftToWorker, IInv, OneHorsePerJob, Begun
<1> QED
  BY <1>1 DEF LeftToWorker, OnTrack, Over

\* A step that touches neither the job of u nor its worker nor its batch.
LEMMA TrackUntouched ==
  ASSUME NEW u \in Uploads, OnTrack(u),
         ingest'[u] = ingest[u], job'[u] = job[u], batch'[u] = batch[u],
         \A w \in Workers :
             current'[w] = u => current[w] = u /\ horse'[w] = horse[w]
  PROVE  OnTrack(u)'
  BY DEF OnTrack, Over, Track, Told, Verdict

\* The requests: that of u is over, those of others are about others.
LEMMA TrackIngest ==
  ASSUME IInv, NEW u \in Uploads, OnTrack(u), NEW v \in Uploads,
         Reject(v) \/ CreateBatch(v) \/ IngestStep(v) \/ AbortRequest(v)
  PROVE  OnTrack(u)'
<1> USE DEF IInv, TypeOK, GoesTo, ingestVars, jobVars, horseVars, resultVars
<1>1. v # u
  BY DEF OnTrack, Reject, CreateBatch, IngestStep, AddDocument, UploadRaw, Enqueue,
         LoadForProcessing, CommitProcessing, AbortRequest
<1>2. UNCHANGED horseVars
  BY DEF Reject, CreateBatch, IngestStep, AddDocument, UploadRaw, Enqueue,
         LoadForProcessing, CommitProcessing, AbortRequest
<1>3. ingest'[u] = ingest[u] /\ job'[u] = job[u] /\ batch'[u] = batch[u]
  BY <1>1 DEF Reject, CreateBatch, IngestStep, AddDocument, UploadRaw, Enqueue,
         LoadForProcessing, CommitProcessing, AbortRequest
<1> QED
  BY <1>2, <1>3, TrackUntouched

\* The workers of other jobs.
LEMMA TrackOthers ==
  ASSUME IInv, NEW u \in Uploads, OnTrack(u), NEW w \in Workers,
         horse[w] # "idle", current[w] # u,
         HorseStep(w) \/ PredictorFails(w) \/ StepFails(w) \/ ReportFails(w) \/ HorseDies(w)
  PROVE  OnTrack(u)'
<1> USE DEF IInv, TypeOK
<1>1. PICK to \in HorseStates :
         /\ horse' = [horse EXCEPT ![w] = to]
         /\ \/ /\ current' = [current EXCEPT ![w] = Nothing]
               /\ \E verdict \in {"finished", "failed"} :
                     job' = [job EXCEPT ![current[w]] = verdict]
            \/ UNCHANGED <<current, job>>
  BY OwnPlaceOnly
<1>2. \A v \in Workers : current'[v] = u => current[v] = u /\ horse'[v] = horse[v]
  BY <1>1, NothingAssumption
<1>3. job'[u] = job[u]
  BY <1>1
<1>4. UNCHANGED ingest
  BY DEF HorseStep, Dequeue, BuildPredictor, PredictorFails, LoadStatus, CommitStatus, Classify,
         ClassifyFails, UploadOverlay, InsertPrediction, LogPrediction, CommitPrediction, StepFails,
         Rollback, ReportFails, JobFinishes, JobRaises, HorseDies, EndJob, ingestVars
<1>5. batch'[u] = batch[u]
  <2>1. CASE CommitStatus(w)
    BY <2>1 DEF CommitStatus
  <2>2. CASE ~CommitStatus(w)
    BY <2>2
    DEF HorseStep, Dequeue, BuildPredictor, PredictorFails, LoadStatus, Classify,
        ClassifyFails, UploadOverlay, InsertPrediction, LogPrediction, CommitPrediction, StepFails,
        Rollback, ReportFails, JobFinishes, JobRaises, HorseDies, EndJob
  <2> QED
    BY <2>1, <2>2
<1> QED
  BY <1>2, <1>3, <1>4, <1>5, TrackUntouched

\* The worker of u: nothing but its file can go wrong, and that as it must.
LEMMA TrackOwn ==
  ASSUME IInv, NEW u \in Uploads, Undisturbed(u), OnTrack(u), NEW w \in Workers,
         horse[w] # "idle", current[w] = u,
         HorseStep(w) \/ PredictorFails(w) \/ StepFails(w) \/ ReportFails(w) \/ HorseDies(w)
  PROVE  OnTrack(u)'
<1> USE DEF IInv, TypeOK, At, jobVars
<1>1. /\ horse[w] \in Track(u) /\ job[u] = "started" /\ u \in rawBlobs /\ batch[u] # "absent"
      /\ ingest[u] \in {"answered", "aborted"}
      /\ horse[w] \in Told => batch[u] = Verdict(u)
      /\ \A v \in Workers : current[v] = u => v = w
  <2>1. job[u] = "started" /\ \A v \in Workers : current[v] = u => v = w
    BY NothingAssumption DEF OneHorsePerJob, Begun
  <2> QED
    BY <2>1 DEF OnTrack, JobBacked
<1>2. /\ ~PredictorFails(w) /\ ~ReportFails(w) /\ ~HorseDies(w)
      /\ StepFails(w) => u \in Unreadable
  BY DEF Undisturbed, PredictorFails, ReportFails, HorseDies, StepFails
<1>3. UNCHANGED ingest
  BY <1>2
  DEF HorseStep, Dequeue, BuildPredictor, LoadStatus, CommitStatus, Classify,
      ClassifyFails, UploadOverlay, InsertPrediction, LogPrediction, CommitPrediction, StepFails,
      Rollback, JobFinishes, JobRaises, EndJob, ingestVars
<1>4. ASSUME NEW to \in Track(u) \ Told, horse' = [horse EXCEPT ![w] = to],
             UNCHANGED <<current, job>>
      PROVE  OnTrack(u)'
  BY <1>1, <1>3, <1>4 DEF OnTrack, Over, Track, Told
<1>5. CASE BuildPredictor(w) \/ UploadOverlay(w) \/ InsertPrediction(w) \/ LogPrediction(w)
           \/ CommitPrediction(w) \/ Rollback(w)
  <2>1. PICK to \in Track(u) \ Told : horse' = [horse EXCEPT ![w] = to]
    BY <1>1, <1>5 DEF BuildPredictor, UploadOverlay, InsertPrediction, LogPrediction,
                      CommitPrediction, Rollback, Track, Told
  <2>2. UNCHANGED <<current, job>>
    BY <1>5 DEF BuildPredictor, UploadOverlay, InsertPrediction, LogPrediction,
                CommitPrediction, Rollback
  <2> QED
    BY <1>4, <2>1, <2>2
<1>6. CASE LoadStatus(w)
  <2>1. PICK s \in StatusUpdates :
          At(w, s.from, IF batch[current[w]] = "absent" THEN s.missing ELSE s.read)
    BY <1>6 DEF LoadStatus
  <2>2. /\ horse[w] = s.from /\ horse' = [horse EXCEPT ![w] = s.read]
        /\ \/ s.from = "ready" /\ s.read = "starting"
           \/ s.from = "persisted" /\ s.read = "finishing"
           \/ s.from = "rolledback" /\ s.read = "failing"
    BY <1>1, <2>1 DEF StatusUpdates
  <2>3. s.read \in Track(u) \ Told
    BY <1>1, <2>2 DEF Track, Told
  <2> QED
    BY <1>4, <1>6, <2>2, <2>3 DEF LoadStatus
<1>7. CASE CommitStatus(w)
  <2>1. PICK new \in {"processing", "done", "failed"}, to \in HorseStates :
          /\ \/ horse[w] = "starting" /\ new = "processing" /\ to = "classifying"
             \/ horse[w] = "finishing" /\ new = "done" /\ to = "reported"
             \/ horse[w] = "failing" /\ new = "failed" /\ to = "reraised"
          /\ horse' = [horse EXCEPT ![w] = to]
          /\ batch' = [batch EXCEPT ![current[w]] = IF horseSaw[w] = new THEN @ ELSE new]
          /\ UNCHANGED <<current, horseSaw, tx, predictions, audits, overlays,
                         ingestVars, jobVars>>
    BY <1>7, CommitStatusCases
  <2>2. new # "processing" => horseSaw[w] # new
    BY <2>1 DEF HorseConsistent, Final
  <2>3. to \in Told => batch'[u] = new /\ new = Verdict(u)
    BY <1>1, <2>1, <2>2 DEF Told, Track, Verdict
  <2>4. to \in Track(u)
    BY <1>1, <2>1 DEF Track
  <2> QED
    BY <1>1, <1>3, <2>1, <2>3, <2>4 DEF OnTrack, Over, Track, Told, Verdict
<1>8. CASE Classify(w) \/ ClassifyFails(w) \/ StepFails(w)
  <2>1. PICK to \in Track(u) \ Told : horse' = [horse EXCEPT ![w] = to]
    BY <1>1, <1>2, <1>8 DEF Classify, ClassifyFails, StepFails, Track, Told
  <2> QED
    BY <1>4, <1>8, <2>1 DEF Classify, ClassifyFails, StepFails
<1>9. CASE JobFinishes(w) \/ JobRaises(w)
  <2>1. batch[u] = Verdict(u) /\ UNCHANGED batch
    BY <1>1, <1>9 DEF JobFinishes, JobRaises, EndJob, Told
  <2>2. \A v \in Workers : current'[v] # u
    BY <1>1, <1>9, NothingAssumption DEF JobFinishes, JobRaises, EndJob
  <2>3. job'[u] # "none"
    BY <1>1, <1>9 DEF JobFinishes, JobRaises, EndJob
  <2> QED
    BY <1>1, <1>3, <2>1, <2>2, <2>3 DEF OnTrack, Verdict
<1>10. ~Dequeue(w)
  BY DEF Dequeue
<1> QED
  BY <1>2, <1>5, <1>6, <1>7, <1>8, <1>9, <1>10 DEF HorseStep

\* The job is fetched, or another.
LEMMA TrackFetch ==
  ASSUME IInv, NEW u \in Uploads, OnTrack(u), NEW w \in Workers, Dequeue(w)
  PROVE  OnTrack(u)'
<1> USE DEF IInv, TypeOK, Dequeue, At
<1>1. Head(queue) \in Uploads /\ job[Head(queue)] = "queued"
  <2>1. Head(queue) = queue[1] /\ Head(queue) \in Uploads /\ Len(queue) >= 1
    BY HeadTailProperties, EmptySeq
  <2> QED
    BY <2>1 DEF QueueConsistent
<1>2. ingest' = ingest /\ batch' = batch
  BY DEF ingestVars
<1>3. CASE Head(queue) # u
  BY <1>1, <1>2, <1>3, TrackUntouched
<1>4. CASE Head(queue) = u
  <2>1. \A v \in Workers : current[v] # u
    BY <1>1, <1>4, NothingAssumption DEF OneHorsePerJob, Begun
  <2> QED
    BY <1>1, <1>2, <1>4, <2>1 DEF OnTrack, Over, Track, Told, Verdict
<1> QED
  BY <1>3, <1>4

LEMMA TrackKept ==
  ASSUME IInv, NEW u \in Uploads, Undisturbed(u), OnTrack(u), [Next]_vars
  PROVE  OnTrack(u)'
<1>1. CASE UNCHANGED vars
  BY <1>1 DEF OnTrack, Over, Track, Told, Verdict, vars, ingestVars, jobVars, horseVars
<1>2. ASSUME NEW w \in Workers,
             HorseStep(w) \/ PredictorFails(w) \/ StepFails(w) \/ ReportFails(w) \/ HorseDies(w)
      PROVE  OnTrack(u)'
  <2>1. horse[w] # "idle" \/ Dequeue(w)
    BY <1>2
    DEF HorseStep, BuildPredictor, PredictorFails, LoadStatus, CommitStatus, StatusUpdates,
        Classify, ClassifyFails, UploadOverlay, InsertPrediction, LogPrediction, CommitPrediction,
        StepFails, InTry, Rollback, ReportFails, JobFinishes, JobRaises, HorseDies, At
  <2> QED
    BY <1>2, <2>1, TrackOthers, TrackOwn, TrackFetch
<1> QED
  BY <1>1, <1>2, TrackIngest DEF Next

\* The safety half of VerdictKept, for any uploads, workers and faults: from
\* the moment an undisturbed upload is left to its worker, whoever else runs
\* and whatever befalls them, its job ends with the right verdict.
THEOREM VerdictsAreRight == Spec => VerdictRight
<1>1. ASSUME NEW u \in {v \in Uploads : Undisturbed(v)}
      PROVE  Spec => [](LeftToWorker(u) => [](Over(u) => batch[u] = Verdict(u)))
  <2>1. IInv /\ LeftToWorker(u) => OnTrack(u)
    BY TrackBegins
  <2>2. IInv /\ OnTrack(u) /\ [Next]_vars => OnTrack(u)'
    BY TrackKept
  <2>3. OnTrack(u) => (Over(u) => batch[u] = Verdict(u))
    BY DEF OnTrack
  <2> QED
    BY <2>1, <2>2, <2>3, Invariance, PTL DEF Spec
<1> QED
  BY <1>1 DEF VerdictRight

-----------------------------------------------------------------------------
(* The pipeline implements Classification.                                 *)

\* Nothing is accepted at first, and no batch exists.
LEMMA InitPromise == Init => Promise!Init
  BY DEF Init, Promise!Init, Outcome

\* A step that changes nothing Classification can see.
LEMMA InvisibleStep ==
  ASSUME batch' = batch, \A u \in Uploads : Outcome(u)' = Outcome(u)
  PROVE  UNCHANGED Promise!vars
  BY DEF Promise!vars

\* A step that changes the outcome of one upload, and no status.
LEMMA OutcomeStep ==
  ASSUME NEW u \in Uploads, NEW from, NEW to, batch' = batch,
         Outcome(u) = from, Outcome(u)' = to,
         \A v \in Uploads \ {u} : Outcome(v)' = Outcome(v)
  PROVE  Promise!Becomes(u, from, to)
  BY DEF Promise!Becomes

\* A step that stores a status Classification holds to be true.
LEMMA ReportStep ==
  ASSUME NEW u \in Uploads, NEW s \in Statuses,
         batch' = [batch EXCEPT ![u] = s], Promise!Truthful(u, s),
         \A v \in Uploads : Outcome(v)' = Outcome(v)
  PROVE  Promise!Report(u)
  BY DEF Promise!Report, Statuses

\* The steps of a request: its enqueue accepts the upload, its two status
\* writes are reports.
LEMMA IngestPromise ==
  ASSUME IInv, NEW u \in Uploads,
         Reject(u) \/ CreateBatch(u) \/ IngestStep(u) \/ AbortRequest(u)
  PROVE  [Promise!Next]_(Promise!vars)
<1> USE DEF IInv, TypeOK, GoesTo, ingestVars, jobVars, horseVars, resultVars
<1>1. CASE Reject(u) \/ AddDocument(u) \/ UploadRaw(u) \/ LoadForProcessing(u) \/ AbortRequest(u)
  <2>1. UNCHANGED <<batch, job, predictions>>
    BY <1>1 DEF Reject, AddDocument, UploadRaw, LoadForProcessing, AbortRequest
  <2> QED
    BY <2>1, InvisibleStep DEF Outcome
<1>2. CASE CreateBatch(u)
  <2>1. batch[u] = "absent" /\ job[u] = "none" /\ predictions[u] = 0
    BY <1>2 DEF CreateBatch, IngestConsistent, NothingBeforeStart
  <2>2. Promise!Truthful(u, "pending")
    BY <2>1 DEF Promise!Truthful, Outcome
  <2>3. batch' = [batch EXCEPT ![u] = "pending"] /\ \A v \in Uploads : Outcome(v)' = Outcome(v)
    BY <1>2 DEF CreateBatch, Outcome
  <2> QED
    BY <2>2, <2>3, ReportStep DEF Statuses, Promise!Next
<1>3. CASE Enqueue(u)
  <2>1. batch[u] # "absent" /\ job[u] = "none" /\ predictions[u] = 0
    BY <1>3 DEF Enqueue, IngestConsistent, NothingBeforeStart
  <2>2. Outcome(u) = "none" /\ Outcome(u)' = "accepted"
    BY <1>3, <2>1 DEF Enqueue, Outcome
  <2>3. batch' = batch /\ \A v \in Uploads \ {u} : Outcome(v)' = Outcome(v)
    BY <1>3 DEF Enqueue, Outcome
  <2>4. Promise!Becomes(u, "none", "accepted")
    BY <2>2, <2>3, OutcomeStep
  <2> QED
    BY <2>1, <2>4 DEF Promise!Accept, Promise!Next
<1>4. CASE CommitProcessing(u)
  <2>1. \A v \in Uploads : Outcome(v)' = Outcome(v)
    BY <1>4 DEF CommitProcessing, Outcome
  <2>2. CASE ingestSaw[u] = "processing"
    <3>1. batch' = batch
      BY <1>4, <2>2 DEF CommitProcessing, Stored
    <3> QED
      BY <2>1, <3>1, InvisibleStep
  <2>3. CASE ingestSaw[u] # "processing"
    <3>1. batch' = [batch EXCEPT ![u] = "processing"]
      BY <1>4, <2>3 DEF CommitProcessing, Stored
    <3>2. Promise!Truthful(u, "processing")
      BY <1>4 DEF CommitProcessing, IngestConsistent, Promise!Truthful, Outcome
    <3> QED
      BY <2>1, <3>1, <3>2, ReportStep DEF Statuses, Promise!Next
  <2> QED
    BY <2>2, <2>3
<1> QED
  BY <1>1, <1>2, <1>3, <1>4 DEF IngestStep

\* A worker's status write is a report: "done" once the prediction is there,
\* "failed" while the job still runs.
LEMMA StatusPromise ==
  ASSUME IInv, NEW w \in Workers, CommitStatus(w)
  PROVE  [Promise!Next]_(Promise!vars)
<1> USE DEF IInv, TypeOK, ingestVars, jobVars
<1>1. PICK new \in {"processing", "done", "failed"}, to \in HorseStates :
        /\ \/ horse[w] = "starting" /\ new = "processing" /\ to = "classifying"
           \/ horse[w] = "finishing" /\ new = "done" /\ to = "reported"
           \/ horse[w] = "failing" /\ new = "failed" /\ to = "reraised"
        /\ horse' = [horse EXCEPT ![w] = to]
        /\ batch' = [batch EXCEPT ![current[w]] = IF horseSaw[w] = new THEN @ ELSE new]
        /\ UNCHANGED <<current, horseSaw, tx, predictions, audits, overlays,
                       ingestVars, jobVars>>
  BY CommitStatusCases
<1>2. current[w] \in Uploads /\ job[current[w]] = "started" /\ batch[current[w]] # "absent"
  BY <1>1, BusyWorker
<1>3. \A v \in Uploads : Outcome(v)' = Outcome(v)
  BY <1>1 DEF Outcome
<1>4. CASE horseSaw[w] = new
  <2>1. batch' = batch
    BY <1>1, <1>4
  <2> QED
    BY <1>3, <2>1, InvisibleStep
<1>5. CASE horseSaw[w] # new
  <2>1. batch' = [batch EXCEPT ![current[w]] = new]
    BY <1>1, <1>5
  <2>2. new = "done" => predictions[current[w]] = 1
    BY <1>1 DEF HorseConsistent, Persisted
  <2>3. Outcome(current[w]) \in {"accepted", "classified"}
        /\ (predictions[current[w]] = 1 => Outcome(current[w]) = "classified")
    BY <1>2 DEF Outcome
  <2>4. Promise!Truthful(current[w], new)
    BY <1>2, <2>2, <2>3 DEF Promise!Truthful
  <2> QED
    BY <1>2, <1>3, <2>1, <2>4, ReportStep DEF Statuses, Promise!Next
<1> QED
  BY <1>4, <1>5

\* The other steps of a worker: the commit of the prediction classifies the
\* upload, a job that fails before it loses it, the rest cannot be seen.
LEMMA WorkerPromise ==
  ASSUME IInv, NEW w \in Workers,
         HorseStep(w) \/ PredictorFails(w) \/ StepFails(w) \/ ReportFails(w) \/ HorseDies(w)
  PROVE  [Promise!Next]_(Promise!vars)
<1> USE DEF IInv, TypeOK, At, ingestVars, jobVars, resultVars
<1>1. CASE \/ BuildPredictor(w) \/ PredictorFails(w) \/ LoadStatus(w) \/ Classify(w)
           \/ ClassifyFails(w) \/ UploadOverlay(w) \/ InsertPrediction(w)
           \/ LogPrediction(w) \/ StepFails(w) \/ Rollback(w) \/ ReportFails(w)
  <2>1. UNCHANGED <<batch, job, predictions>>
    BY <1>1
    DEF BuildPredictor, PredictorFails, LoadStatus, Classify, ClassifyFails, UploadOverlay,
        InsertPrediction, LogPrediction, StepFails, Rollback, ReportFails
  <2> QED
    BY <2>1, InvisibleStep DEF Outcome
<1>2. CASE Dequeue(w)
  <2>1. Head(queue) = queue[1] /\ Head(queue) \in Uploads /\ Len(queue) >= 1
    BY <1>2, HeadTailProperties, EmptySeq DEF Dequeue
  <2>2. job[Head(queue)] = "queued"
    BY <2>1 DEF QueueConsistent
  <2>3. batch' = batch /\ \A v \in Uploads : Outcome(v)' = Outcome(v)
    BY <1>2, <2>1, <2>2 DEF Dequeue, Outcome
  <2> QED
    BY <2>3, InvisibleStep
<1>3. CASE CommitPrediction(w)
  <2>1. PICK u \in Uploads : u = current[w] /\ job[u] = "started"
    BY <1>3, BusyWorker DEF CommitPrediction
  <2>2. tx[w] = {"prediction", "audit"} /\ predictions[u] = 0
    BY <1>3, <2>1 DEF CommitPrediction, HorseConsistent, Unpersisted
  <2>3. predictions' = [predictions EXCEPT ![u] = 1] /\ UNCHANGED <<batch, job>>
    BY <1>3, <2>1, <2>2 DEF CommitPrediction, CommitRows
  <2>4. Outcome(u) = "accepted" /\ Outcome(u)' = "classified"
    BY <2>1, <2>2, <2>3 DEF Outcome
  <2>5. \A v \in Uploads \ {u} : Outcome(v)' = Outcome(v)
    BY <2>3 DEF Outcome
  <2>6. Promise!Becomes(u, "accepted", "classified")
    BY <2>1, <2>3, <2>4, <2>5, OutcomeStep
  <2> QED
    BY <2>1, <2>6 DEF Promise!Classify, Promise!Next
<1>4. CASE JobFinishes(w) \/ JobRaises(w) \/ HorseDies(w)
  <2>1. PICK verdict \in {"finished", "failed"} :
          EndJob(w, verdict) /\ horse[w] # "idle" /\ (verdict = "finished" => horse[w] = "reported")
    BY <1>4 DEF JobFinishes, JobRaises, HorseDies
  <2>2. PICK u \in Uploads : u = current[w] /\ job[u] = "started"
    BY <2>1, BusyWorker
  <2>3. job' = [job EXCEPT ![u] = verdict] /\ UNCHANGED <<batch, predictions>>
    BY <2>1, <2>2 DEF EndJob
  <2>4. verdict = "finished" => predictions[u] = 1
    BY <2>1, <2>2 DEF HorseConsistent, Persisted
  <2>5. \A v \in Uploads \ {u} : Outcome(v)' = Outcome(v)
    BY <2>3 DEF Outcome
  <2>6. CASE predictions[u] > 0
    <3>1. Outcome(u)' = Outcome(u)
      BY <2>2, <2>3, <2>6 DEF Outcome
    <3> QED
      BY <2>2, <2>3, <2>5, <3>1, InvisibleStep
  <2>7. CASE ~ (predictions[u] > 0)
    <3>1. verdict = "failed"
      BY <2>4, <2>7
    <3>2. Outcome(u) = "accepted" /\ Outcome(u)' = "lost"
      BY <2>2, <2>3, <2>7, <3>1 DEF Outcome
    <3>3. Promise!Becomes(u, "accepted", "lost")
      BY <2>2, <2>3, <2>5, <3>2, OutcomeStep
    <3> QED
      BY <2>2, <3>3 DEF Promise!Lose, Promise!Next
  <2> QED
    BY <2>6, <2>7
<1> QED
  BY <1>1, <1>2, <1>3, <1>4, StatusPromise DEF HorseStep

\* The pipeline keeps the safety part of what the service promises: an
\* upload is classified at most once or lost, and no status runs ahead of it.
THEOREM Implementation == Spec => ImplementsPromise
<1>1. Init => Promise!Init
  BY InitPromise
<1>2. IInv /\ [Next]_vars => [Promise!Next]_(Promise!vars)
  <2> SUFFICES ASSUME IInv, [Next]_vars PROVE [Promise!Next]_(Promise!vars)
    OBVIOUS
  <2>1. CASE UNCHANGED vars
    <3>1. UNCHANGED <<batch, job, predictions>>
      BY <2>1 DEF vars, jobVars, resultVars
    <3> QED
      BY <3>1, InvisibleStep DEF Outcome
  <2> QED
    BY <2>1, IngestPromise, WorkerPromise DEF Next
<1> QED
  BY <1>1, <1>2, Invariance, PTL DEF Spec, ImplementsPromise, Promise!Spec

\* What has become of an upload is final, which follows from Classification
\* alone: a classified one is never lost, by a dead horse or a late failure,
\* and a lost one never classified.
OutcomeFinal ==
    [][\A u \in Uploads :
          Outcome(u) \in {"classified", "lost"} => Outcome(u)' = Outcome(u)]_vars

THEOREM OutcomesAreFinal == Spec => OutcomeFinal
<1> DEFINE Kept == \A u \in Uploads :
                     Outcome(u) \in {"classified", "lost"} => Outcome(u)' = Outcome(u)
<1> DEFINE outcome == [u \in Uploads |-> Outcome(u)]
<1>1. [Promise!Next]_(Promise!vars) => Kept
  <2> SUFFICES ASSUME [Promise!Next]_(Promise!vars) PROVE Kept
    OBVIOUS
  <2>1. ASSUME outcome' = outcome PROVE Kept
    <3>1. \A u \in Uploads : outcome[u] = Outcome(u) /\ outcome'[u] = Outcome(u)'
      OBVIOUS
    <3> QED
      BY <2>1, <3>1
  <2>2. ASSUME NEW v \in Uploads, NEW from \in {"none", "accepted"}, NEW to,
               Promise!Becomes(v, from, to)
        PROVE  Kept
    <3>1. outcome[v] = from /\ outcome' = [outcome EXCEPT ![v] = to]
      BY <2>2 DEF Promise!Becomes
    <3>2. \A u \in Uploads : outcome[u] = Outcome(u) /\ outcome'[u] = Outcome(u)'
      OBVIOUS
    <3> QED
      BY <3>1, <3>2
  <2>3. CASE UNCHANGED Promise!vars \/ \E u \in Uploads : Promise!Report(u)
    BY <2>1, <2>3 DEF Promise!vars, Promise!Report
  <2>4. CASE \E u \in Uploads : Promise!Accept(u) \/ Promise!Classify(u) \/ Promise!Lose(u)
    BY <2>2, <2>4 DEF Promise!Accept, Promise!Classify, Promise!Lose
  <2> QED
    BY <2>3, <2>4 DEF Promise!Next
<1> QED
  BY <1>1, Implementation, PTL DEF ImplementsPromise, Promise!Spec, OutcomeFinal
=============================================================================
