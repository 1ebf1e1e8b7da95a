------------------------------- MODULE Polling -------------------------------
(***************************************************************************)
(* What a user of the upload page is told: the browser polls               *)
(* GET /batches/{bid} until the batch is done or failed                    *)
(* (frontend/src/pages/Classify.jsx), the route is cached in Redis for 60  *)
(* seconds (app/api/routers/batches.py), whoever writes a batch clears its *)
(* entry after the commit (app/services/cache_service.py), and the answer  *)
(* carries a max-age that lets the browser answer itself meanwhile.        *)
(*                                                                         *)
(* The batches are those of Classification, which Pipeline implements: here*)
(* they change in any way it promises.  Time passes in poll intervals.     *)
(***************************************************************************)
EXTENDS Naturals

CONSTANTS
    Uploads,
    Tabs,         \* pages that poll a batch
    Expire,       \* the expire=60 of the route, in poll intervals
    MaxPolls,     \* MAX_POLL_ATTEMPTS
    MaxWriters,   \* bound: commits of one batch whose clear is still to come
    Faults        \* the kinds of failure that may happen

ASSUME ExpireAssumption == Expire \in Nat \ {0} /\ MaxPolls \in Nat \ {0}
ASSUME WritersAssumption == MaxWriters \in Nat \ {0}
ASSUME FaultsAssumption == Faults \subseteq {"clear", "network"}

VARIABLES
    outcome, status,   \* what has become of an upload, and what its batch says
    clears,       \* b -> commits of batch b whose clear is still to come
    redis,        \* key -> the cached answer and the intervals it has left
    tab,          \* t -> where tab t stands
    watch,        \* t -> the batch it polls
    polls,        \* t -> the attempts of its loop so far, while it lasts
    got,          \* t -> the status its request read in the database
    copy,         \* t -> the answer its browser keeps, as in redis
    settled,      \* history: b -> intervals since its status changed, at most Expire
    unclean,      \* history: batches with a clear that failed, or a fill that
                  \* stored what it read before a commit, and no clear since
    slow          \* history: batches with a fill that took over an interval

serviceVars == <<outcome, status>>
tabVars == <<tab, watch, polls, got, copy>>
historyVars == <<settled, unclean, slow>>
vars == <<serviceVars, clears, redis, tabVars, historyVars>>

Service == INSTANCE Classification

Statuses == {"pending", "processing", "done", "failed"}
Verdicts == {"done", "failed"}
Places == {"closed", "sleeping", "asking", "reading", "storing", "fetching",
           "shown", "failed", "timedout", "empty", "broken"}
Entries == [status : Statuses \cup {"none"}, ttl : 0..Expire]
NoEntry == [status |-> "none", ttl |-> 0]

TypeOK ==
    /\ outcome \in [Uploads -> {"none", "accepted", "classified", "lost"}]
    /\ status \in [Uploads -> Statuses \cup {"absent"}]
    /\ clears \in [Uploads -> 0..MaxWriters]
    /\ redis \in [Uploads -> Entries]
    /\ tab \in [Tabs -> Places]
    /\ watch \in [Tabs -> Uploads]
    /\ polls \in [Tabs -> 0..(MaxPolls - 1)]
    /\ got \in [Tabs -> Statuses \cup {"none"}]
    /\ copy \in [Tabs -> Entries]
    /\ settled \in [Uploads -> 0..Expire]
    /\ unclean \subseteq Uploads
    /\ slow \subseteq Uploads

Init ==
    /\ Service!Init
    /\ clears = [b \in Uploads |-> 0]
    /\ redis = [b \in Uploads |-> NoEntry]
    /\ tab = [t \in Tabs |-> "closed"]
    /\ watch \in [Tabs -> Uploads]
    /\ polls = [t \in Tabs |-> 0]
    /\ got = [t \in Tabs |-> "none"]
    /\ copy = [t \in Tabs |-> NoEntry]
    /\ settled = [b \in Uploads |-> 0]
    /\ unclean = {}
    /\ slow = {}

\* batch_detail_key_builder: a namespace for each batch, so that a clear takes
\* no other batch's entry, and the md5 of what names it.
CacheKey(b) == b

-----------------------------------------------------------------------------
(* The service, as Classification has it, and the clear that follows each  *)
(* commit of a batch row.                                                  *)

Resolve(b) ==
    /\ Service!Accept(b) \/ Service!Classify(b) \/ Service!Lose(b)
    /\ UNCHANGED <<clears, redis, tabVars, historyVars>>

\* Mutant: the entry is cleared before the commit.
CommitAfterClear(b) ==
    /\ clears[b] < MaxWriters
    /\ Service!Report(b)
    /\ settled' = IF status' = status THEN settled ELSE [settled EXCEPT ![b] = 0]
    /\ UNCHANGED <<clears, redis, tabVars, unclean, slow>>

Commit(b) ==
    /\ clears[b] < MaxWriters
    /\ Service!Report(b)
    /\ clears' = [clears EXCEPT ![b] = @ + 1]
    /\ settled' = IF status' = status THEN settled ELSE [settled EXCEPT ![b] = 0]
    /\ UNCHANGED <<redis, tabVars, unclean, slow>>

Cleared(b) == clears[b] > 0 /\ clears' = [clears EXCEPT ![b] = @ - 1]

Clear(b) ==
    /\ Cleared(b)
    /\ redis' = [redis EXCEPT ![CacheKey(b)] = NoEntry]
    /\ unclean' = unclean \ {b}
    /\ UNCHANGED <<serviceVars, tabVars, settled, slow>>

\* Redis does not answer: a warning is logged and the entry stays.
ClearFails(b) ==
    /\ "clear" \in Faults
    /\ Cleared(b)
    /\ unclean' = unclean \cup {b}
    /\ UNCHANGED <<serviceVars, redis, tabVars, settled, slow>>

-----------------------------------------------------------------------------
(* The page.                                                               *)

\* The answer to the upload comes when its job has been accepted.
Open(t) ==
    /\ tab[t] = "closed"
    /\ outcome[watch[t]] # "none"
    /\ tab' = [tab EXCEPT ![t] = "sleeping"]
    /\ UNCHANGED <<serviceVars, clears, redis, watch, polls, got, copy, historyVars>>

\* Mutant: the loop waits for "done" only.
VerdictIgnoresFailed(t, s) ==
    /\ tab' = [tab EXCEPT ![t] =
                  IF s = "done" THEN "fetching"
                  ELSE IF polls[t] + 1 = MaxPolls THEN "timedout"
                  ELSE "sleeping"]
    /\ polls' = [polls EXCEPT ![t] = IF tab'[t] = "sleeping" THEN @ + 1 ELSE 0]

\* Mutant: the predictions are fetched after every verdict.
VerdictFetchesAlways(t, s) ==
    /\ tab' = [tab EXCEPT ![t] =
                  IF s \in Verdicts THEN "fetching"
                  ELSE IF polls[t] + 1 = MaxPolls THEN "timedout"
                  ELSE "sleeping"]
    /\ polls' = [polls EXCEPT ![t] = IF tab'[t] = "sleeping" THEN @ + 1 ELSE 0]

\* What the loop makes of an answer.
Verdict(t, s) ==
    /\ tab' = [tab EXCEPT ![t] =
                  IF s = "failed" THEN "failed"
                  ELSE IF s = "done" THEN "fetching"
                  ELSE IF polls[t] + 1 = MaxPolls THEN "timedout"
                  ELSE "sleeping"]
    /\ polls' = [polls EXCEPT ![t] = IF tab'[t] = "sleeping" THEN @ + 1 ELSE 0]

\* The browser still has an answer it may use.
AnswerFromBrowser(t) ==
    /\ tab[t] = "asking"
    /\ copy[t].ttl > 0
    /\ Verdict(t, copy[t].status)
    /\ UNCHANGED <<serviceVars, clears, redis, watch, got, copy, historyVars>>

\* Mutant: the max-age is that of the route, however old the entry is.
AnswerFromRedisFullAge(t) ==
    LET entry == redis[CacheKey(watch[t])] IN
    /\ tab[t] = "asking"
    /\ copy[t].ttl = 0
    /\ entry.ttl > 0
    /\ Verdict(t, entry.status)
    /\ copy' = [copy EXCEPT ![t] = [entry EXCEPT !.ttl = Expire]]
    /\ UNCHANGED <<serviceVars, clears, redis, watch, got, historyVars>>

\* The route finds the entry; its max-age is what the entry has left.
AnswerFromRedis(t) ==
    LET entry == redis[CacheKey(watch[t])] IN
    /\ tab[t] = "asking"
    /\ copy[t].ttl = 0
    /\ entry.ttl > 0
    /\ Verdict(t, entry.status)
    /\ copy' = [copy EXCEPT ![t] = entry]
    /\ UNCHANGED <<serviceVars, clears, redis, watch, got, historyVars>>

\* A miss: get_batch reads the row ...
Miss(t) ==
    /\ tab[t] = "asking"
    /\ copy[t].ttl = 0
    /\ redis[CacheKey(watch[t])].ttl = 0
    /\ tab' = [tab EXCEPT ![t] = "reading"]
    /\ UNCHANGED <<serviceVars, clears, redis, watch, polls, got, copy, historyVars>>

GetBatch(t) ==
    /\ tab[t] = "reading"
    /\ tab' = [tab EXCEPT ![t] = "storing"]
    /\ got' = [got EXCEPT ![t] = status[watch[t]]]
    /\ UNCHANGED <<serviceVars, clears, redis, watch, polls, copy, historyVars>>

\* ... and what was read is stored, whatever was cleared meanwhile.
Store(t) ==
    LET entry == [status |-> got[t], ttl |-> Expire] IN
    /\ tab[t] = "storing"
    /\ redis' = [redis EXCEPT ![CacheKey(watch[t])] = entry]
    /\ copy' = [copy EXCEPT ![t] = entry]
    /\ got' = [got EXCEPT ![t] = "none"]
    /\ Verdict(t, got[t])
    /\ unclean' = IF got[t] = status[watch[t]] THEN unclean ELSE unclean \cup {watch[t]}
    /\ UNCHANGED <<serviceVars, clears, watch, settled, slow>>

\* The batch is done: GET /predictions/batch/{id}, which is not cached.
FetchPredictions(t) ==
    /\ tab[t] = "fetching"
    /\ tab' = [tab EXCEPT ![t] =
                  IF outcome[watch[t]] = "classified" THEN "shown" ELSE "empty"]
    /\ UNCHANGED <<serviceVars, clears, redis, watch, polls, got, copy, historyVars>>

\* A request of the page is not answered: the loop ends with its error.
RequestFails(t) ==
    /\ "network" \in Faults
    /\ tab[t] \in {"asking", "reading", "storing", "fetching"}
    /\ tab' = [tab EXCEPT ![t] = "broken"]
    /\ got' = [got EXCEPT ![t] = "none"]
    /\ polls' = [polls EXCEPT ![t] = 0]
    /\ UNCHANGED <<serviceVars, clears, redis, watch, copy, historyVars>>

\* An interval passes.
Older(entry) == IF entry.ttl <= 1 THEN NoEntry ELSE [entry EXCEPT !.ttl = @ - 1]

Tick ==
    /\ redis' = [b \in Uploads |-> Older(redis[b])]
    /\ copy' = [t \in Tabs |-> Older(copy[t])]
    /\ settled' = [b \in Uploads |->
                      IF settled[b] = Expire THEN Expire ELSE settled[b] + 1]
    /\ tab' = [t \in Tabs |-> IF tab[t] = "sleeping" THEN "asking" ELSE tab[t]]
    /\ slow' = slow \cup {watch[t] : t \in {s \in Tabs : tab[s] = "storing"}}
    /\ UNCHANGED <<serviceVars, clears, watch, polls, got, unclean>>

-----------------------------------------------------------------------------
Next ==
    \/ \E b \in Uploads : Resolve(b) \/ Commit(b) \/ Clear(b) \/ ClearFails(b)
    \/ \E t \in Tabs :
        \/ Open(t)
        \/ AnswerFromBrowser(t)
        \/ AnswerFromRedis(t)
        \/ Miss(t)
        \/ GetBatch(t)
        \/ Store(t)
        \/ FetchPredictions(t)
        \/ RequestFails(t)
    \/ Tick

Spec == Init /\ [][Next]_vars
-----------------------------------------------------------------------------
\* Nobody is told a batch is done and then finds no prediction (the error of
\* Classify.jsx:61), however old the answer was: a prediction is never lost.
NeverEmptyHanded == \A t \in Tabs : tab[t] # "empty"

Fresh(b, entry) == entry.ttl > 0 => entry.status = status[b]

\* Redis holds an answer that is out of date only while the clear of a commit
\* is still to come, or after a clear that failed or a fill that read the row
\* before a commit and stored it after: no other order of reads, commits,
\* clears and fills (get_batch_route, batch_service, cache_service) leaves one.
StaleHasCause ==
    \A b \in Uploads :
        clears[b] = 0 /\ b \notin unclean => Fresh(b, redis[CacheKey(b)])

\* The expiry bounds how long a cached answer outlives what it says, in Redis
\* and in the browser together, even when a clear fails or a fill races with
\* a commit; only a fill that takes longer than an interval can exceed it.
StaleIsBounded ==
    \A b \in Uploads \ slow :
        settled[b] = Expire =>
            /\ Fresh(b, redis[CacheKey(b)])
            /\ \A t \in Tabs : watch[t] = b => Fresh(b, copy[t])

\* A page (Classify.jsx:71) gives up on a batch only when that has no verdict,
\* or has one that came less than the expiry of a cached answer ago.
GivesUpLate ==
    [][\A t \in Tabs :
          tab[t] # "timedout" /\ tab'[t] = "timedout" =>
              \/ status[watch[t]] \notin Verdicts
              \/ settled[watch[t]] < Expire
              \/ watch[t] \in slow]_vars
-----------------------------------------------------------------------------
(* The inductive invariant.                                                *)

\* What Classification keeps: a batch that is done has its prediction, and an
\* upload that was accepted has a batch.
ReportsTrue ==
    \A b \in Uploads :
        /\ status[b] = "done" => outcome[b] = "classified"
        /\ outcome[b] # "none" => status[b] # "absent"

\* An answer s about b, with ttl intervals to live, was true when it was read,
\* and that was not longer ago than its expiry allows.
TrueWithin(b, s, ttl) ==
    /\ s \in Statuses
    /\ s = "done" => outcome[b] = "classified"
    /\ b \notin slow => s = status[b] \/ settled[b] + ttl <= Expire

EntriesRight ==
    /\ \A b \in Uploads : redis[b].ttl > 0 => TrueWithin(b, redis[b].status, redis[b].ttl)
    /\ \A t \in Tabs : copy[t].ttl > 0 => TrueWithin(watch[t], copy[t].status, copy[t].ttl)

TabsRight ==
    \A t \in Tabs :
        /\ tab[t] # "closed" => outcome[watch[t]] # "none"
        /\ tab[t] = "storing" => TrueWithin(watch[t], got[t], Expire)
        /\ tab[t] = "fetching" => outcome[watch[t]] = "classified"

IInv ==
    /\ TypeOK
    /\ ReportsTrue
    /\ EntriesRight
    /\ TabsRight
    /\ NeverEmptyHanded
    /\ StaleHasCause
=============================================================================
