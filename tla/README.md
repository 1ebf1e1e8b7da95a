# A TLA+ model of the document classifier service

The repository is a service that classifies scanned TIFF documents: an HTTP API
(FastAPI) with a React front end, an SFTP poller, RQ workers that run a PyTorch
model, and Postgres, Redis, MinIO, Vault and Casbin around them.  This directory
holds a model of the parts of it that are concurrent, fail by halves or keep the
same fact in two places: TLA+ modules, TLC configurations that check them on
small instances, and TLAPS proofs for instances of any size.

    tlc -workers 2 -config MCPipelineFaults.cfg MCPipeline     # one of the runs
    tlapm PipelineProofs.tla                                   # the proofs

`PROJECT.json` gives, for every definition that models code, the lines it
models, and, for every property, a change of the model that breaks it.  The
definitions marked `Mutant:` in the modules are those changes; no specification
uses them.

## The system

| part | code | state it keeps | talks to |
|------|------|----------------|----------|
| API process | `app/main.py`, `app/api/` | the Casbin enforcer in memory | all the stores |
| ingest service | `app/services/ingest_service.py`, `batch_service.py` | rows `batches`, `documents`; raw blobs | Postgres, MinIO, RQ |
| inference worker | `app/workers/inference_worker.py` | its transaction; rows `predictions`, `audit_logs`; overlays | RQ, Postgres, MinIO |
| SFTP poller | `app/workers/sftp_ingest_worker.py`, `app/infra/sftp/client.py` | `PROCESSED_FILES`, in memory only | SFTP server, ingest service |
| users and roles | `app/services/user_service.py`, `role_service.py`, `app/auth/`, `app/api/deps/` | `users.role` and the Casbin grouping policy | Postgres, Casbin |
| relabel | `app/services/prediction_service.py` | `predictions.label`, `label_id`, `relabeled_by` | Postgres |
| response cache | `app/services/cache_service.py`, the `@cache` routes | Redis entries that live 60 s | Redis, browsers |
| upload page | `frontend/src/pages/Classify.jsx` | the polling loop of one upload | API |
| start-up | `app/core/startup.py`, `app/infra/vault/` | secrets in `settings` and in Vault; default policies; demo users | Vault, Casbin, Postgres |
| predictor | `app/classifier/inference/` | the weights it has loaded, for one job | `classifier.pt`, `model_card.json` |
| evaluation | `app/classifier/eval/` | `golden_expected.json` | the same files, golden images |
| sign-in of the front end | `frontend/src/context/AuthContext.jsx`, `pages/Login.jsx` | the user a tab shows; the token, in localStorage | API, browser cache |

How they interact.  An ingest request makes a batch row, a document row, a blob
and a job, *in that order and each with a commit of its own*, and then stores
`processing`.  The worker stores `processing`, classifies, uploads an overlay,
commits the prediction with its audit row, and stores `done`; a raise inside its
`try` rolls back and stores `failed`.  The two know each other only through the
queue and the row `batches.status`.  Whoever writes a batch clears its cache
entry after the commit.  Roles are kept in a column and in Casbin, which saves
at once and outside the transaction of the column.

What is hard about it:

* two writers of `batches.status` that read, and later write, with no lock;
* five commits of an ingest and three of a job, each of which may be the last;
* work horses that die, jobs with no retry, and stores that do not answer;
* a commit or a rename that is done and whose reply is lost, so that it raises;
* a poller whose memory dies with it, and a rename that may be refused;
* two stores of one role, one of them outside the transaction;
* an ORM that sends no UPDATE for a value that equals the one it loaded, and
  that flushes what any code assigned to a persistent object
  (`app/api/deps/auth.py:50`);
* cached answers that a slow reader stores after they were cleared;
* secrets that are read, completed and written back whole, between starts that
  may be cut short anywhere and have different environments;
* files of a release that three programs read one by one, each looking for other
  fields in them, while a maintainer may replace any;
* tabs that share a token and a browser cache, and not the user they show, and
  loads that ask for it twice.

`PROJECT.json` lists these as hazards, at the lines where they bite, with the
properties that would catch each.

## The modules

`Classification` is the abstract specification: what the service promises about
an upload (accepted once, then classified or lost; a status that never claims
"done" without a prediction).  `Inbox` promises a scanner what becomes of its
drops: they lie in the upload folder until they are replaced or filed, and are
filed once ingested; the one exception it owns up to is a drop put over another
that was being read.  `Labelling` promises a correction of a label in one step:
by somebody who may, with its audit row, to a class somebody named, and never half
of one.  They say nothing of passes, sessions, sends and locks, and the modules
that have those are shown to implement them:

    Classification  <--- implements ---  Pipeline      (ImplementsPromise, KeepsPromise)
                    <--- INSTANCE ------ Polling       (its batches change as promised)
    Inbox           <--- implements ---  SftpIngest    (KeepsInbox)
    Labelling       <--- implements ---  Relabel       (ImplementsLabelling)
    ModelCard       <--- EXTENDS ------- Release       (what its programs find in a card)
    SftpIngest      a job it enqueues is an upload of Pipeline
    Release         its refusal of a predictor is PredictorFails of Pipeline
    Roles, Startup, Session  on their own: they share no state with the others

`MC*` modules name the model values and symmetries of the runs; `*Proofs` modules
hold the theorems of the module they extend.

### Pipeline

An upload `u` names its batch, document and job, since an ingest makes exactly
one of each.  The ingest request is `CreateBatch`, `AddDocument`, `UploadRaw`,
`Enqueue`, `LoadForProcessing`, `CommitProcessing`: one action per commit, upload
or enqueue of `enqueue_uploaded_document`, with the read and the write of its
last `update_status` apart.  `AbortRequest` is a raise, or the end of the
process, between any two of them.  A worker `w` goes `Dequeue`, `BuildPredictor`,
then through `LoadStatus` and `CommitStatus` three times (`StatusUpdates`:
`processing`, `done`, `failed`), with `Classify`, `UploadOverlay`,
`InsertPrediction`, `LogPrediction` and `CommitPrediction` between the first two,
and `Rollback` before the third.  `StepFails`, `ReportFails`, `PredictorFails`
and `HorseDies` are the failures; what may fail around which upload is `Faults`,
so that one run can have an upload that nothing disturbs beside others that fail
in every way.  A call that does its work and raises all the same, its reply lost, is
a failure at the place after it.  For `done` that place (`reported`) is still inside
the `try`: the handler then stores `failed` over a `done` that is durable, and the
prediction stays.  RQ's timeout raises in the job; where the handler sees it this is
`StepFails`, and where it leaves `Runner.run` past the handler, `HorseDies`.

`Stored` is the ORM's rule: the UPDATE is sent only when the value loaded differs
from the value stored.  The row is read again by each `update_status`: the
session keeps no reference to the batch between two of them, although
`expire_on_commit` is off, because its identity map is weak.  `tx` holds the rows
flushed and not committed, so that a missing rollback would be visible.

The API's requests and the poller's run the same code; the model does not tell
them apart.  Rejecting an unsupported file is an action, for it must leave
nothing behind.

### SftpIngest

A *drop* is one delivery of bytes, numbered as it comes; a name may be used again.
A pass is `List`, then for each name in any order `SkipProcessed`,
`SkipUnsupported` or `Download`, `Ingest`, `Move`, `Mark`, and `EndPass`.
`MoveRefused` is the rename the server refuses, for the processed folder has the
name already; like `PassFails` it ends the pass (`_run_forever` catches it), and
the files after it in the listing wait for the next one.  `PassFails` is a raise at
any place of a pass.  Between `Move` and `Mark` it is the rename that the server has
done and whose reply is lost (`client.py:65`): the name is filed away and not
remembered, which `forgotten` records.  `Restart` loses `PROCESSED_FILES`, and so
forgets every name.  `Ingest` is one step here; Pipeline has its parts.
A drop under a remembered name is skipped (`SkipProcessed`) for as long as the
process lives: the code remembers names, not contents.  `Replace` is a file put
over one that lies there.  A file that is listed before its scanner has written
all of it is the same thing: what the poller read is one drop, the rest another.
`jobs` and `interrupted` are counted up to `MaxJobs` and stay there (`More`), so
that no pass is left out for having been tried too often.

### Roles

`row` is `users.role` as committed, `wrote` what each request has flushed (and so
locked), `unsent` what hangs on the actor's object and will be flushed before
the session's next statement.  `Authorize`, `Load`, `Guard`, `Flush`, `Assign`,
`Commit` are the steps of `PATCH /admin/users/{id}/role` between its awaits;
`LastAdmin` and `NotFound` its refusals; `Begin` stands for any other request
that commits.  `Register` and `AfterRegister` are the two halves of a
registration.  `Restart` and `DiesAssigning` stop the API and start it again,
with the demo users seeded anew.  Casbin's grants are in force as soon as
`Assign` has run.  There is one API process (`docker/api.Dockerfile`: one uvicorn
worker), so the enforcer in memory is the policy, and requests interleave at
awaits only.

`drifted` is a history variable.  It collects the users whose Casbin role was
ever assigned or written back outside a transaction that held the row and then
committed.  `RolesAgree` says of everybody else that the two stores agree, and
so lists all the ways in which they can part.  `overlapped` remembers that a
change of a role was committed while another was between its load and its
commit.  `AdminLeft` says that without that, and with the two stores agreeing,
the guard against the last demotion does its work under every failure.

### Polling

The upload page, as `Classify.jsx` has it: sleep an interval, ask, stop at
`failed`, fetch the predictions at `done`, give up after `MaxPolls` attempts.  An
answer comes from the browser's own copy while its `max-age` lasts
(`AnswerFromBrowser`), from Redis (`AnswerFromRedis`), or from the database, in
three steps between which anything may happen: `Miss`, `GetBatch`, `Store`.
`Commit` and `Clear` are the two halves of `update_status`; `ClearFails` is the
warning of `invalidate_batch`.  Time is counted in poll intervals; `Tick` ages
every entry by one.  `unclean`, `slow` and `settled` are history variables.

The cache of `/auth/me` is in Session; that of `/batches` works in the same way
under another key.  `/predictions/recent` has the default key builder, which
takes in the objects of the request, so that no request finds another's entry.

### Relabel

One request of `PATCH /predictions/{id}` is `Begin`, `Load`, `Flush`, `Refresh`,
`LogRelabel`, `Commit`, or `Refuse` or `Fail`: one action per statement it sends.
`row` is committed; `seen` is what the session of a request loaded; `Changed` is
the ORM's rule again, column by column; `wrote` is what it has sent, and a request
that has sent anything holds the row (`Free`).  `View` is what a statement of the
request reads: its own columns and, of the others, those committed by then.  A
request locks one row, so these requests do not deadlock.  `Fail` is a raise
anywhere, and what the session's context manager does then.

A user is an administrator or a reviewer for the whole of the module: the code
decides by the role it found at authentication and does not look again, and how
that role can be out of date is the matter of Roles.  The clear of the cached
predictions after the commit is that of Polling under another key.

`version`, `loadedAt`, `latest` and `overlapped` are history variables: a
prediction is in `overlapped` once a change of it was committed between another's
load and commit.  There the ORM's rule shows: a user who confirms the label that
a prediction has sends `relabeled_by` only, and if another label was committed
since the load it then stands under the name of somebody who did not ask for it.
`CreditIsDue` says that nothing of this kind happens outside `overlapped`.

### Startup

One start of the API is `Boot` (the modules are imported and read the
environment), `SkipVault` or `CheckVault`, `Read` or `ReadFails`, `Seed` and
`ReadBack` where something is missing, `Configure`, `Validate`, `AddPolicy` for
each policy that was not there when the seeding began (`Unsaved`, kept in `rest`),
and `Serve`, which asks nothing about the policies; `Stop` is a refusal, a raise or the
end of the container at any point, and `restart: unless-stopped` starts it again,
perhaps with another environment.  The calls to Vault are actions of their own,
so an operator (`Store`) and Vault's loss of memory (`Lose`: compose runs it in
dev mode) come between them.  An environment has the secrets, the switches, and
whether the other checks of the start would pass.

The secret is a function from fields to values; a field may be absent or empty.
`MissingFields` takes only the first for missing and `Complete` both, as
the two places of the code do.  `failed`, `touched`, `lastKey` and `disturbed` are
history variables.  `is_available` saying no is a `Stop`.  What a server does with
the secrets afterwards is not modelled; two of the four have no use there: the
MinIO client is built from the environment when its module is imported
(`minio_client.py:46`), before Vault is read, and the SFTP password serves the
poller, which never reads Vault.

### ModelCard and Release

A release of the classifier is three files that every container mounts:
`classifier.pt`, the model card, and the golden answers.  In Release a maintainer
replaces them (`ReplaceWeights`, `ReplaceCard`, `ReplaceGolden`) while three
programs read them.  A worker builds a predictor for each job: `ReadCard`,
`HashWeights`, `LoadWeights`, and, when it serves, `Served` is what it finds in an
image.  The golden test and the tool that writes golden answers anew share
`ReadFiles`, `HashTool` and `LoadTool`; then the test does `Compare`, the tool
`Recompute` (or `RecomputeRaises`) and `WriteBack`, between which the file is
empty.  `Kill` stops either of them anywhere.  The SHA-256 of a file of weights is
the file itself: two files differ in their hashes.

The programs do not look for the same things.  What they find in a card is
ModelCard: `FindFirstStringKey` is the search of the predictor through all of the
JSON, with its quirk that an empty string ends the search of its dict, and
`ArtifactShaOf` the one field the scripts read.  `FirstHit` says what the search
should find, by the paths of the document: of all the strings under the keys
(`Hits`), without those that an empty string hides (`Visible`), the one whose path
comes first, where a dict's own strings come before what is below (`Before`).
`FirstIsFound` compares the two, for the card a worker has read and for every value
of `Values`.  `StringLists` says the same of the class names.  A value is a record
of its type, its text and its entries; `Values` has with a value all that is inside
it, and `Depth` falls from a value to its entries, so the searches are recursive
functions on `Values`.

What a model answers for an image is a constant (`Answers`), by preprocessing and
image; confidences are whole numbers and so is the tolerance.

### Session

The tabs of one browser share the token (localStorage) and the browser's copy of
the answer of `/auth/me`; each has its page and the user it shows (`shown`).
`Load` is a page load, with its requests for `/auth/me`; `Login` stores the token
and asks too; `Logout` forgets both.  The page is rendered in `React.StrictMode`
(`main.jsx:7`) and the one deployment there is runs the dev server
(`docker/frontend.Dockerfile:12`), so the effect of a load runs twice: `Loads` are
its two requests, sent together with one token and answered or refused each on its
own.  (The proofs are for any number of them, one included.)  The page stops loading
at the first that is over (`Loading`); each later answer is shown, and each failure
takes the token away.  A request is answered by the browser while
the `max-age` of its copy lasts (`AnswerFromBrowser`), or by the server from
Redis or anew (`AnswerFromServer`), or not (`Fail`), and what comes of it
reaches the tab later (`ShowLoaded`, `LoadFails`, `ShowLoggedIn`,
`LoginFails`).  Every login has a token of its own.  `AskElsewhere` fills Redis
from another browser, `Invalidate` is the clear after a change of role, `Tick`
ages the entries.  `told`, `foreign`, `crossed` and `denied` are history variables.
The role in an answer is left out; Roles has how it changes.  So are the browser's
back and forward buttons, which show another page without a load.

## The runs

| run | asks | instance | distinct states |
|-----|------|----------|-----------------|
| `pipeline_faults` | do the database, the blobs and RQ ever contradict each other, and is every step one that Classification allows? | 3 uploads (1 unsupported), 2 workers, all failures | 387,108 |
| `pipeline_live` | does every job end, is every accepted upload classified or lost, does a batch that nothing disturbs come to the right verdict and keep it, and who is told of a failure? (liveness) | 3 uploads (1 with aborted requests only, 1 unreadable with failing steps, 1 with everything), 1 worker | 327,060 |
| `pipeline_reaches_done` | finding | 1 upload, 1 worker | |
| `sftp` | is what is archived, remembered and ingested consistent, and is the first drop of a name ingested and moved? (liveness) | 3 names, 3 deliveries, jobs counted to 3; failing passes, restarts, replaced files | 85,580 |
| `roles_faults` | can the column and Casbin part in any way not listed, and is an administrator left? | 1 administrator (seeded again), 1 newcomer, 2 requests, failing statements, restarts | 2,585,031 |
| `roles_last_admin` | finding | 2 administrators, 2 requests | |
| `polling` | what may a page be told, and for how long? | 1 upload, 2 pages, expiry of 2 intervals, 4 attempts, 2 writers, failed clears, lost requests | 480,293 |
| `relabel` | what do requests that meet at one prediction leave, and answer? | 2 predictions (one at the threshold), 2 labels, an administrator and a reviewer, 2 requests at a time, 4 in all, failures | 90,582 |
| `startup` | what may a start overwrite in Vault, and what does a server run with? | 2 fields, 2 secrets, 2 policies, 7 environments, failed reads, an operator, a Vault that forgets | 32,860 |
| `startup_missing` | finding | 2 fields, 4 environments, starts and stops only | |
| `release` | is what the golden test passes what users get, and named right? does the search of a card find what stands first? | 4 weights, 6 cards, 6 golden files, 2 images (1 there), 2 replacements; 3,845 documents | 1,398,137 |
| `session` | whom does a tab show, and whom does it act for? | 2 users, 2 tabs, 2 requests to a load, 2 logins, expiry of 1 interval | 1,373,690 |

A run checks what could be wrong; that every variable keeps its type, and the
inductive invariants, are theorems (below).

The properties, by hazard:

* *Ordering of commits.*  `JobBacked`: a job never runs ahead of its rows and
  bytes.  `DoneHasPrediction`: "done" is never said without a prediction.
  `PredictionAudited`: a prediction is single, audited and has its overlay
  whatever step failed; it is the rollback before "failed" that keeps this.
* *Two writers of the status.*  `FinalStatusKept` names the only two writes that take
  a verdict back: the `processing` of an ingest request that had not loaded it
  (`WritesLate`), and the `failed` of a job whose own `done` was committed and raised
  (`ReportsOwnSuccess`), which only that job can write, and only over its own `done`.
  No `failed` is taken back by a job.  `FinishedMeansDone` says what a job that RQ calls finished has
  left, and that nothing but the late write hides it.  `VerdictKept`: once the
  request is over before its job starts, the verdict comes, is right and stays.
  `VerdictRight` is its safety half: under that condition a job that is over has
  left the right verdict, and nothing else is ever said after it.
* *Jobs that end.*  `JobForward`: each step of a job leaves it fewer of its steps
  (`StepsLeft`), on every path and after every failure, and no job is queued or
  taken twice.  With a worker that is scheduled this is why jobs end (`JobsEnd`).
* *Failures nobody is told of.*  `FailedIsReported`: a job that RQ calls failed has
  marked its batch, unless the predictor could not be built (outside the `try`),
  the report failed in its turn, or the horse died (`Silenced`): the only ways.
* *Refinement.*  `ImplementsPromise` (safety) and `KeepsPromise` (with liveness) for
  Classification; `KeepsInbox` for Inbox; `ImplementsLabelling` for Labelling.
* *Poller.*  `DuplicatesExplained`, `ArchivedIsIngested`, `RememberedIsDone`.
  `StuckWasForgotten`: only a restart, or a rename whose reply was lost, makes a name
  whose file is ingested in every pass and moved in none.  `FirstDropHandled`: the first drop of a name is ingested
  and moved if passes stop failing, no restart comes, and no such name stands in
  its way: a file that raises ends the pass for all that are listed after it.
* *Roles.*  `RolesAgree`, `AdminLeft`.
* *Relabelling.*  `IdNamesLabel`: id and label stay a pair whichever columns of
  whichever request were sent.  `CreditIsDue`.  That only administrators correct
  a prediction at or above the threshold, and that no change lacks its audit row,
  is part of `ImplementsLabelling` (and `ThresholdKept` and `ChangesAudited` on
  their own, which are proved).
  `AnswerHolds`: a request that changed the row answers with the row it commits,
  even where that is another's label, for it reads the row back after its lock.
* *Start-up.*  `SecretsSurvive`: a start replaces a secret only after a read that
  failed, or where an operator changed it under its hands.  `KeyOutlivesRestarts`:
  tokens stay valid over restarts, whatever the environments say, as long as the
  key in Vault is left alone and can be read.  `ServesVault`: a server has what
  Vault has, but for changes since.  `PoliciesComplete`: a start that died among
  the policies does no harm to the next.  Nothing looks at the table before a server
  takes requests; it is complete because each start takes as missing what is missing
  then, and not, as `check_policies_initialized` would have it, all or nothing.
* *Cache.*  `StaleHasCause`: an entry is out of date only before a clear that is
  due, after one that failed, or after a fill that straddled a commit.
  `StaleIsBounded`: and then for less than the expiry, in Redis and the browser
  together, because the browser is given what is left of the entry's life and
  not a new one.  `NeverEmptyHanded`, `GivesUpLate`: what this means to the page.
* *Release.*  `ServedIsNamed`: predictions carry the SHA-256 of the weights that
  made them, unless those were replaced between the two readings.
  `GoldenHoldsInService`: what the test has passed is what a worker with weights of
  the same SHA-256 answers, class, label and confidence, whatever card it read, as
  long as the golden file has the preprocessing of the service.  `PassedLoads`: a
  worker refuses a release that passed for one of two reasons, another SHA-256
  above the artifact's in the card, or a count of names unlike that of classes.
  `RegeneratedPasses`: the tool's answers pass the test.  `FirstIsFound`: the
  SHA-256 a worker takes from its card is the one that stands first in it.
* *Sign-in.*  `OwnerOrRecent`: a tab shows the owner of the token it asked with,
  or one whom the server named to this browser less than the expiry ago, for the
  browser keeps answers by URL.  `ActsForShown`: the user a tab shows is the one its
  requests act for, unless another tab has written the token or a request of its
  load was still out when it logged in; and where one request of a load was answered
  and the other refused (`denied`) they act for nobody, never for somebody else.
  `NoBlankPage`: whatever order answers and failures come in, no tab is stuck
  without a user and without a request.

### Findings

Three runs check a statement of the documentation and fail.

1. `ReachesDone`: the ingest request stores `processing` *after* the job is out
   (`ingest_service.py:93-94`).  A worker that is done in between has its "done"
   overwritten for ever, and the page of README.md:68 polls until it times out.
2. `LastAdminKept`: two concurrent demotions each count two administrators
   (`user_service.py:56`).
3. `MissingIsSeeded`: a start whose environment lacks a secret writes an empty
   field to Vault; from then on the field is not missing (`startup.py:86`) and not
   acceptable (`startup.py:61`), and no environment lets the API start again.

Others have no run of their own.  A change to the role a user has already takes
no row lock, and its Casbin write can land after that of a real change
(`user_service.py:62`): one of the ways that `drifted` lists.  And the predictor
is built outside the `try` (`inference_worker.py:210`), so a missing model fails
every job and no batch is marked `failed`, against FINAL_DEMO_PREP.md:167-170.
The pipeline's runs have this failure (`PredictorFails`) among the others, and
`FailedIsReported` excepts it by name.  The golden test is to "fail if
model/preprocessing changed" (`golden.py:93`), but takes the preprocessing from
the golden file and not from the service: `GoldenHoldsInService` needs the two to
be the same.  And `/auth/me`, which is to "Return the current authenticated user"
(`routers/auth.py:18`), may be answered by the browser with the last one:
the second half of `OwnerOrRecent`.  The doubled load of the dev server can leave a
page that shows a user and has no token (`denied`); and a pass whose rename went
through unheard leaves a name that stops every later pass once it is used again
(`forgotten`).

### Bounds

*Pipeline.*  The hazards are between one request and one worker (the late write)
and between two workers (who has the job); two uploads and two workers have both,
and a queue that grows past one.  The third upload puts an unsupported file beside
them, and in `pipeline_live` an unreadable one.  One worker is enough there: its
question is what a job does to those behind it in the queue.  Nothing in the
module is cut off: each upload is handled once, and the behaviour ends, which is
why its runs do not look for deadlock.
*SftpIngest.*  `MaxDrops` bounds the deliveries.  Three of them reuse a name twice,
the third while the second is refused.  `MaxJobs` bounds how far jobs are counted
and stops nothing: three are two duplicates.
*Roles.*  Nothing is cut off.  Two requests are the least that race, and each
property is about one or two users.  The run for `LastAdminKept` stops looking for
deadlock because two requests may each wait for the row lock of the other, which
Postgres breaks with an error: `Fail`, left out of this run.  The demo users have
an administrator among them (`startup.py:105-108`), which is the module's assumption
and the run's `Demo`.
*Polling.*  `MaxWriters` bounds the clears still to come: the request and the
worker are two.  `Expire` is 2 intervals instead of 30 and `MaxPolls` 4 instead of
90: an entry passes through fresh, ageing and gone, and the page outlasts one.
Batches have keys of their own and do not meet, so one is enough; two pages are
needed for one to read what the other has stored.

*Relabel.*  `MaxCalls` bounds the requests: with four, a prediction is changed by
two that overlap, by one after them, and by one that fails; two users, two labels
and two rows are what the properties tell apart.  A prediction above the
threshold is treated as one at it, so `Confident` is empty here and not in the
proofs.  Its run ends when the requests do.

*Startup.*  Nothing is cut off.  The key for tokens is unlike the other fields,
which are alike: two are enough, and so are two values, one of them the last
server's.  The seven environments are the one of compose, one without Vault, one
with other secrets, one without, and one for each check that refuses.

*Release.*  `MaxEdits` bounds the replacements: two can fall between the steps of
one program, or one on each side of what another read.  The weights differ in
what the programs look for (names and classes that agree, a name too many, no
names, too few classes), and so do the cards (another order of names, an older
SHA-256 above the artifact's, a list of strings before the names, a name too many)
and the golden files (right, wrong, for another preprocessing, with an image that
is not there, with none).  `FirstIsFound` looks at these cards, at all that is inside
them, and at every dict or list of two entries down to a depth of two, with strings,
empty strings and a value of another type at its leaves.

*Session.*  `MaxLogins` bounds the logins; two are one by each of two users, or in
each of two tabs, which is what the properties tell apart.  Loads, logouts and
failures are not bounded.  `Loads` are two, as StrictMode has them.  `Expire` is one
interval: an entry is there or gone, an answer of this interval is younger than the
expiry and one of the last is not, which is the boundary `OwnerOrRecent` is about;
with two the run is several times as long, and the proof is for any expiry.

### Fairness

Used by `pipeline_live`, `pipeline_reaches_done` and `sftp` only.  A request
that has begun goes on (its coroutine is scheduled until it returns or raises;
starting one is not fair, nor is any failure).  A worker with something to do
does it: `rq worker` under `restart: unless-stopped`
(docker-compose.yml:176-191).  The poller's loop goes round for ever
(`_run_forever`).  No step is assumed strongly fair.

## What is proved

TLAPS proves these for every value of the constants allowed by the modules'
assumptions (any set of uploads and of workers, finite or not; any names and
deliveries; any kinds of failure).

`PipelineProofs` (1046 obligations): `TypeCorrect`, `Invariance`,
`JobsAreBacked`, `PredictionsAreAudited`, `DoneIsHonest`, `FinishedIsDone`,
`FailuresAreReported`, `VerdictsAreKept`, `Implementation`, `JobsGoForward`,
`VerdictsAreRight`, `OutcomesAreFinal`.  The properties are not inductive
alone.  `IInv` adds what they rest on: what a request has made at each place in
the service (`IngestConsistent`), that the list holds waiting jobs only, each
once (`QueueConsistent`), that a started job has one worker (`OneHorsePerJob`),
that a job not begun has left nothing (`NothingBeforeStart`), and what the
session, the rows and the overlay are at each place of a job
(`HorseConsistent`).  The heart of the argument is the last: only the worker
that runs the job writes a verdict, and it holds the job from `Dequeue` to
`EndJob`, so a verdict, once committed, has no other enemies than the request and
that worker: it is on its way to report a raise (`Unwinding`) with a `done` in the
row only where its own update to `done` raised.
`Implementation` maps each action to the step of Classification it performs or
to a stutter; `OutcomesAreFinal` proves of Classification alone that what became
of an upload is never taken back, and carries it over.  `JobsGoForward` shows,
action by action, that `StepsLeft` falls at the worker that moves and nowhere
rises.  `VerdictsAreRight` needs a predicate that is not an invariant but stays
once it holds (`OnTrack`): the request is over, no failure touches the upload,
and the job stands somewhere on the way to the verdict of its file.

`SftpIngestProofs` (383 obligations): `TypeCorrect`, `Invariance`,
`DuplicatesAreExplained`, `ArchiveIsIngested`, `MemoryIsSound`,
`OnlyLossesForget`, `Implementation`, `FaultFree`.  Its `IInv` says where each
drop lies, that a later drop of a name has the higher number, that the file at
hand is the one downloaded or one put over it since, and that a name in the
processed folder is remembered, being marked, or forgotten by a restart or a lost
reply.  For
`Implementation` it also says that bytes in the processed folder are not in the
upload folder (`FoldersConsistent`) and not those at hand before their move
(`PassConsistent`): the refinement failed without, for then a drop could be
ingested after it was filed.

`RelabelProofs` (536 obligations): `TypeCorrect`, `Invariance`, `IdsNameLabels`,
`ThresholdIsKept`, `ChangesAreAudited`, `CreditIsGiven`, `AnswersHold`,
`Implementation`, `OneAtATime`.  Its `IInv`
adds that what was loaded is what the row says unless a change came between
(`SeenUntilChanged`), that a changed row has one holder (`OneHolder`), and that the
holder's answer is what the row would say if it committed now (`ToldHolds`).  That
id and label stay a pair rests on `ClassAssumption`, that no name is twice in
`CLASS_NAMES`: then one of the two columns differs from what was loaded exactly
when the other does (lemma `ViewOfRow`).  In `Implementation` a `Commit` is the
correction, and all else a stutter: the class it leaves is the one the row has or
the one asked for, and somebody is named, because once a row names somebody each
request that reads it sees that (`SeenUntilChanged`).

`StartupProofs` (235 obligations): `TypeCorrect`, `Invariance`, `ServersFollowVault`,
`PoliciesAreComplete`, `SecretsAreKept`, `KeysOutliveRestarts`,
`SecretsAreFilledIn`, `KeysAgree`, `EmptySecretsLockOut`.  Its `IInv` follows
the secret from Vault through the start: what a start has read is Vault's but for
the fields touched since (`ReadIsCurrent`), what it has configured too
(`ConfiguredIsCurrent`), and the last server's key is at each place where the next
server's may come from (`KeyKept`).  `PoliciesAreComplete` rests on `PoliciesCovered`:
from the moment the seeding begins the table and what it has still to add make up
all the policies, whatever the table held.

`PollingProofs` (493 obligations): `TypeCorrect`, `Invariance`, `DoneIsNotEmpty`,
`StalenessHasCause`, `StalenessIsBounded`, `GivingUpIsLate`, `FailureIsRecent`.  Its
`IInv` bounds the
life an entry has left by the age of what it says: whatever in Redis or in a
browser is older than the last commit has at most `Expire` less the time since
that commit to live (`EntriesRight`), and the same holds of what a page was told
(`TabsRight`).  That is why the browser must be given what is left of an entry's
life and not a new one.  The last two theorems rest on one lemma: the answer that
ends the loop of a page is true, or was until less than the expiry ago
(`ToldRecently`).

`RolesProofs` (992 obligations): `TypeCorrect`, `Invariance`, `StoresAgree`,
`AdminIsLeft`, `LastAdminStays`, `StoresAreSame`.  Its `IInv` has what each
place of a request has flushed, and so locked (`CallsRight`, `LocksRight`), that
the two stores agree outside `drifted` up to what the holder of the lock has
already given to Casbin (`StoresRight`), and that a demotion past its guard
leaves another administrator while no two changes overlap (`ReadsHold`).  The
administrators a change counts are finite sets of any size.

`ReleaseProofs` (1604 obligations): `TypeCorrect`, `Invariance`,
`PredictionsAreNamed`, `GoldenIsServed`, `PassedIsLoaded`,
`RegeneratedIsPassed`, `FirstIsTaken`, `OneShaIsEnough`, `UnderOneRelease`; and of
the cards, `SearchFindsFirst` and `NamesAreFound`.  Its `IInv` says what each program
knows at each step (`WorkerKnows`, `ToolKnows`), what of it is still so when
nothing was replaced (`WorkerCalm`, `ToolCalm`), and that stamped answers would
pass (`StampedPasses`).

`SearchFindsFirst` is about cards of any shape and depth: what
`get_expected_sha256` returns is `FirstHit`, and it raises where there is none.  It
needs induction, and the library's theorems for that take an operator, which the
provers cannot instantiate; but the set of values that go wrong, if there are any,
has a member that is nested least (`Shallowest`, from the well-foundedness of `<`),
and inside that one all is right.  That the recursive functions obey their
definitions at all is proved in the same way (`Recursion`: a function that does so
exists down to every depth, and two that do agree).  Then the order of paths is shown
to be one (`BeforeAsymmetric`, `OneFirst`) and to survive a step down
(`BeforeShift`), and `SearchIsRight` goes through the two cases of the search: a
dict with a string of its own, which comes first and hides the rest where it is
empty (`OwnIsFirst`), and a value without, whose first visible hit is that of the
first entry with any (`BelowIsFirst`).  `NamesAreFound`: the class names are one of
the lists of strings in the card, and `get_class_names_from_model_card` raises only
for a card without any.  These rest on `NestingAssumption`, `TextAssumption`,
`KeysAssumption` and `ListsAssumption`, which say what JSON is: a value is finite, a
string is a text, no key is twice in a dict, a list is not None.

`OneShaIsEnough` says what a maintainer can do about `PassedLoads`: with no other
SHA-256 in the card than the artifact's, what passed the test is never refused for
its hash.

`SessionProofs` (526 obligations): `TypeCorrect`, `Invariance`, `OwnerIsShown`,
`TabsActForShown`, `NoPageIsBlank`, `OneTab`.  Its `IInv` says whom the caches
name and since when the server has not (`CachesRight`), the same of answers on
their way (`RequestsRight`), that only a tab that crossed its requests has a login
and a load under way at once (`OneAtATime`), that what is under way was asked with
the token there is, and that a tab that was denied has none (`AsksWithToken`).

Some theorems are about a part of the system's use, which their assumption names.
The general properties except what their history variables collect (`drifted`,
`overlapped`, `foreign`, `swapped`, `interrupted`, `forgotten`, `failed`); these theorems say where
that remains empty, or does no harm, and the plain statement holds:

| theorem | where | what holds without exceptions |
|---------|-------|-------------------------------|
| `RolesProofs!LastAdminStays` | one request at a time, no failure | an administrator is left: what ARCH.md:205 says, and `roles_last_admin` refutes with two requests |
| `RolesProofs!StoresAreSame` | the same | outside the two writes of a change the column and Casbin agree, or Casbin has the role of the registration |
| `RelabelProofs!OneAtATime` | one request at a time | a prediction has the label last asked for, and names who asked |
| `SftpIngestProofs!FaultFree` | no pass fails, no restart; files may be replaced | a drop has one job at most, and no name stops a pass |
| `StartupProofs!SecretsAreFilledIn` | Vault answers and nobody else writes to it; starts may die anywhere | a start changes no secret that is in Vault |
| `StartupProofs!KeysAgree` | the same | every server that requires Vault signs with the key that is there |
| `StartupProofs!EmptySecretsLockOut` | the same | once a field in Vault is empty no start that requires Vault serves again: the third finding, for good and in every environment |
| `ReleaseProofs!OneShaIsEnough` | one SHA-256 in the card | a release that passed the test is refused for its class names only |
| `ReleaseProofs!UnderOneRelease` | no file replaced by hand | predictions are named right, and users get what the test has passed |
| `SessionProofs!OneTab` | one tab | it acts for the user it shows or, after a load answered and refused, for nobody; unless a login crossed a load |

`LastAdminStays` needs an invariant of its own (`OneGoes`), as `drifted` may be
non-empty there: giving a user the role it has writes to Casbin without a lock, and a
registration may end after an administrator has changed the role it gives.  Neither
can leave Casbin with more than the row has, so nothing is ever written back
(`ChangeGoes`), and the count of administrators still holds when it is acted on.
With a failure it does not stand: TLC has a demotion that is rolled back after
Casbin was told, and whose row is later brought after it by the write-back.

Every safety property of a passing run is a theorem.  Each `IInv` was an invariant of a run of TLC before its
proof, and can be again by naming it in the configuration.

Checked by TLC only: the liveness properties `JobsEnd`,
`KeepsPromise`, `VerdictKept` and `FirstDropHandled`, since the prover has no ENABLED.
Of the first three the parts without fairness are proved: `JobForward`,
`ImplementsPromise` and `VerdictRight`.

## What is not modelled

* The numbers of the classifier: tensors, the network, image files.  Release has
  them as constants; they are floating-point and hold no state.
* Login itself, tokens and passwords: FastAPI Users does them.  Session has the
  token as a value, Roles the user as authenticated.
* The cached lists of batches and predictions: Polling has the same cache with a
  key that matters more; a list that is 60 seconds old misleads no one who acts.
* The API's MinIO credentials and buckets (`minio_client.py:46`): the client is built
  before Vault is read, in every start and whatever the order of anything, so
  there is nothing to explore.
* Middleware, schemas, logging, health checks: no step of another part reads what
  they do.  `measure_inference_latency.py` and the other scripts measure or seed
  once.  Migrations run before anything starts.
* The pages of the front end that show the answer of one request.

What could follow: a composition of Release with Pipeline, in which jobs queue
while a release is replaced (they share only the verdict "the predictor could not
be built", which Pipeline already allows at any job), one of Pipeline with Polling
(whose batches change as Classification says, which Pipeline is shown to implement),
and the list caches.
