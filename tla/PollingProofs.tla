---------------------------- MODULE PollingProofs ----------------------------
(***************************************************************************)
(* Proofs about Polling, for any uploads and pages, any expiry, any number *)
(* of attempts and of writers.                                             *)
(***************************************************************************)
EXTENDS Polling, TLAPS

USE DEF CacheKey

LEMMA Bounds == /\ Expire \in Nat /\ Expire > 0
                /\ MaxPolls \in Nat /\ MaxPolls > 0
                /\ MaxWriters \in Nat /\ MaxWriters > 0
  BY ExpireAssumption, WritersAssumption

LEMMA NoEntryType == NoEntry \in Entries /\ NoEntry.ttl = 0
  BY Bounds DEF NoEntry, Entries

LEMMA InitIInv == Init => IInv
<1> SUFFICES ASSUME Init  PROVE IInv
  OBVIOUS
<1> USE DEF Init, Service!Init
<1>1. TypeOK
  BY Bounds, NoEntryType DEF TypeOK, Places
<1>2. ReportsTrue
  BY DEF ReportsTrue
<1>3. EntriesRight /\ TabsRight /\ NeverEmptyHanded /\ StaleHasCause
  BY NoEntryType DEF EntriesRight, TabsRight, NeverEmptyHanded, StaleHasCause, Fresh
<1> QED
  BY <1>1, <1>2, <1>3 DEF IInv

-----------------------------------------------------------------------------
(* The service.                                                            *)

\* What an upload's batch says stays true, while neither the status nor the
\* interval moves on.
LEMMA StillTrue ==
  ASSUME NEW b, NEW s, NEW ttl,
         UNCHANGED <<status, settled, slow>>,
         outcome[b] = "classified" => outcome'[b] = "classified",
         TrueWithin(b, s, ttl)
  PROVE  TrueWithin(b, s, ttl)'
  BY DEF TrueWithin

LEMMA ResolveIInv ==
  ASSUME IInv, NEW b \in Uploads, Resolve(b)
  PROVE  IInv'
<1> USE DEF Resolve, Service!Accept, Service!Classify, Service!Lose, Service!Becomes
<1>1. UNCHANGED <<status, clears, redis, tabVars, historyVars>>
  OBVIOUS
<1>2. /\ outcome' \in [Uploads -> {"none", "accepted", "classified", "lost"}]
      /\ status[b] # "absent"
      /\ \A c \in Uploads : /\ outcome[c] = "classified" => outcome'[c] = "classified"
                            /\ outcome[c] # "none" => outcome'[c] # "none"
                            /\ outcome'[c] # outcome[c] => c = b
  BY DEF IInv, TypeOK, ReportsTrue
<1>3. TypeOK'
  BY <1>1, <1>2 DEF IInv, TypeOK, tabVars, historyVars
<1>4. ReportsTrue'
  BY <1>1, <1>2 DEF IInv, ReportsTrue
<1>5. /\ \A c \in Uploads : outcome[c] = "classified" => outcome'[c] = "classified"
      /\ UNCHANGED <<status, settled, slow, redis, copy, watch, tab, got>>
      /\ \A t \in Tabs : watch[t] \in Uploads
  BY <1>1, <1>2 DEF IInv, TypeOK, tabVars, historyVars
<1>6. EntriesRight'
  BY <1>5, StillTrue DEF IInv, EntriesRight
<1>7. TabsRight'
  BY <1>2, <1>5, StillTrue DEF IInv, TabsRight
<1>8. NeverEmptyHanded' /\ StaleHasCause'
  BY <1>1 DEF IInv, NeverEmptyHanded, StaleHasCause, Fresh, tabVars, historyVars
<1> QED
  BY <1>3, <1>4, <1>6, <1>7, <1>8 DEF IInv

LEMMA CommitIInv ==
  ASSUME IInv, NEW b \in Uploads, Commit(b)
  PROVE  IInv'
<1>1. PICK s \in Statuses :
          /\ Service!Truthful(b, s)
          /\ status' = [status EXCEPT ![b] = s]
          /\ outcome' = outcome
  BY DEF Commit, Service!Report, Statuses
<1>2. /\ UNCHANGED <<redis, tab, watch, polls, got, copy, unclean, slow>>
      /\ clears[b] < MaxWriters /\ clears' = [clears EXCEPT ![b] = @ + 1]
      /\ settled' = IF status' = status THEN settled ELSE [settled EXCEPT ![b] = 0]
  BY DEF Commit, tabVars
<1>3. /\ status'[b] = s /\ \A c \in Uploads \ {b} : status'[c] = status[c]
      /\ \A c \in Uploads : settled[c] \in 0..Expire /\ settled'[c] \in 0..Expire
      /\ \A c \in Uploads : status'[c] # status[c] => settled'[c] = 0
      /\ \A c \in Uploads : settled'[c] # settled[c] => settled'[c] = 0
  BY <1>1, <1>2, Bounds DEF IInv, TypeOK
<1>4. TypeOK'
  <2>1. clears' \in [Uploads -> 0..MaxWriters]
    BY <1>2, Bounds DEF IInv, TypeOK
  <2>2. settled' \in [Uploads -> 0..Expire]
    BY <1>2, Bounds DEF IInv, TypeOK
  <2>3. status' \in [Uploads -> Statuses \cup {"absent"}]
    BY <1>1 DEF IInv, TypeOK
  <2> QED
    BY <1>1, <1>2, <2>1, <2>2, <2>3 DEF IInv, TypeOK
<1>5. ReportsTrue'
  BY <1>1, <1>3 DEF IInv, ReportsTrue, Service!Truthful, Statuses
<1>6. ASSUME NEW c \in Uploads, NEW r, NEW ttl \in 0..Expire, TrueWithin(c, r, ttl)
      PROVE  TrueWithin(c, r, ttl)'
  <2>1. settled'[c] = 0 => settled'[c] + ttl <= Expire
    BY Bounds
  <2>2. CASE settled'[c] = 0
    BY <1>1, <1>2, <1>6, <2>1, <2>2 DEF TrueWithin
  <2>3. CASE settled'[c] # 0
    <3>1. settled'[c] = settled[c] /\ status'[c] = status[c]
      BY <1>3, <2>3
    <3> QED
      BY <1>1, <1>2, <1>6, <3>1 DEF TrueWithin
  <2> QED
    BY <2>2, <2>3
<1>7. EntriesRight'
  BY <1>2, <1>6 DEF IInv, TypeOK, Entries, EntriesRight
<1>8. TabsRight'
  BY <1>1, <1>2, <1>6, Bounds DEF IInv, TypeOK, TabsRight
<1>9. NeverEmptyHanded'
  BY <1>2 DEF IInv, NeverEmptyHanded
<1>10. StaleHasCause'
  <2>1. clears'[b] # 0 /\ \A c \in Uploads \ {b} : clears'[c] = clears[c]
    BY <1>2, Bounds DEF IInv, TypeOK
  <2> QED
    BY <1>2, <1>3, <2>1 DEF IInv, StaleHasCause, Fresh
<1> QED
  BY <1>4, <1>5, <1>7, <1>8, <1>9, <1>10 DEF IInv

LEMMA ClearIInv ==
  ASSUME IInv, NEW b \in Uploads, Clear(b) \/ ClearFails(b)
  PROVE  IInv'
<1> USE DEF Clear, ClearFails, Cleared
<1>1. /\ UNCHANGED <<outcome, status, tab, watch, polls, got, copy, settled, slow>>
      /\ clears[b] > 0 /\ clears' = [clears EXCEPT ![b] = @ - 1]
      /\ redis' \in {redis, [redis EXCEPT ![b] = NoEntry]}
      /\ unclean' \in {unclean \ {b}, unclean \cup {b}}
  BY DEF serviceVars, tabVars
<1>2. TypeOK'
  <2>1. clears' \in [Uploads -> 0..MaxWriters]
    BY <1>1, Bounds DEF IInv, TypeOK
  <2> QED
    BY <1>1, <2>1, NoEntryType DEF IInv, TypeOK
<1>3. ReportsTrue' /\ NeverEmptyHanded'
  BY <1>1 DEF IInv, ReportsTrue, NeverEmptyHanded
<1>4. TabsRight'
  BY <1>1, StillTrue DEF IInv, TabsRight
<1>5. EntriesRight'
  <2>1. \A c \in Uploads : redis'[c].ttl > 0 => redis'[c] = redis[c]
    BY <1>1, NoEntryType DEF IInv, TypeOK
  <2> QED
    BY <1>1, <2>1, StillTrue DEF IInv, EntriesRight
<1>6. StaleHasCause'
  <2>1. \A c \in Uploads \ {b} : clears'[c] = clears[c] /\ redis'[c] = redis[c]
    BY <1>1 DEF IInv, TypeOK
  <2>2. b \in unclean' \/ redis'[b].ttl = 0
    BY NoEntryType DEF IInv, TypeOK
  <2> QED
    BY <1>1, <2>1, <2>2 DEF IInv, StaleHasCause, Fresh
<1> QED
  BY <1>2, <1>3, <1>4, <1>5, <1>6 DEF IInv

-----------------------------------------------------------------------------
(* The page.                                                               *)

LEMMA VerdictKeeps ==
  ASSUME IInv, NEW t \in Tabs, NEW s, Verdict(t, s)
  PROVE  /\ tab' \in [Tabs -> Places] /\ polls' \in [Tabs -> 0..(MaxPolls - 1)]
         /\ tab'[t] \in {"failed", "fetching", "timedout", "sleeping"}
         /\ tab'[t] = "fetching" => s = "done"
         /\ tab'[t] = "timedout" => s \notin Verdicts
         /\ \A r \in Tabs \ {t} : tab'[r] = tab[r]
<1>1. /\ tab' \in [Tabs -> Places]
      /\ tab'[t] \in {"failed", "fetching", "timedout", "sleeping"}
      /\ tab'[t] = "fetching" => s = "done"
      /\ tab'[t] = "timedout" => s \notin Verdicts
      /\ tab'[t] = "sleeping" => polls[t] + 1 # MaxPolls
      /\ \A r \in Tabs \ {t} : tab'[r] = tab[r]
  BY DEF Verdict, IInv, TypeOK, Places, Verdicts
<1>2. polls[t] \in 0..(MaxPolls - 1)
  BY DEF IInv, TypeOK
<1>3. (IF tab'[t] = "sleeping" THEN polls[t] + 1 ELSE 0) \in 0..(MaxPolls - 1)
  BY <1>1, <1>2, Bounds
<1>4. polls' \in [Tabs -> 0..(MaxPolls - 1)]
  BY <1>3 DEF Verdict, IInv, TypeOK
<1> QED
  BY <1>1, <1>4

\* An answer that is kept, in the browser or in Redis, is given to a page.
LEMMA AnswerIInv ==
  ASSUME IInv, NEW t \in Tabs, AnswerFromBrowser(t) \/ AnswerFromRedis(t)
  PROVE  IInv'
<1>1. /\ UNCHANGED <<outcome, status, clears, redis, watch, got, settled, unclean, slow>>
      /\ tab[t] = "asking"
      /\ copy' \in {copy, [copy EXCEPT ![t] = redis[watch[t]]]}
  BY DEF AnswerFromBrowser, AnswerFromRedis, serviceVars, historyVars
<1>2. PICK s : Verdict(t, s) /\ TrueWithin(watch[t], s, 1)
  <2>1. watch[t] \in Uploads
    BY DEF IInv, TypeOK
  <2>2. ASSUME NEW ttl \in 0..Expire, ttl > 0, NEW s, TrueWithin(watch[t], s, ttl)
        PROVE  TrueWithin(watch[t], s, 1)
    BY <2>1, <2>2, Bounds DEF TrueWithin, IInv, TypeOK
  <2>3. CASE AnswerFromBrowser(t)
    BY <2>1, <2>2, <2>3 DEF AnswerFromBrowser, IInv, EntriesRight, TypeOK, Entries
  <2>4. CASE AnswerFromRedis(t)
    BY <2>1, <2>2, <2>4 DEF AnswerFromRedis, IInv, EntriesRight, TypeOK, Entries
  <2> QED
    BY <2>3, <2>4
<1>3. /\ tab' \in [Tabs -> Places] /\ polls' \in [Tabs -> 0..(MaxPolls - 1)]
      /\ tab'[t] \in {"failed", "fetching", "timedout", "sleeping"}
      /\ tab'[t] = "fetching" => s = "done"
      /\ \A r \in Tabs \ {t} : tab'[r] = tab[r]
  BY <1>2, VerdictKeeps
<1>4. TypeOK'
  BY <1>1, <1>3 DEF IInv, TypeOK
<1>5. ReportsTrue' /\ StaleHasCause'
  BY <1>1 DEF IInv, ReportsTrue, StaleHasCause, Fresh
<1>6. EntriesRight'
  <2>1. \A r \in Tabs : copy'[r] = copy[r] \/ (r = t /\ copy'[r] = redis[watch[t]])
    BY <1>1 DEF IInv, TypeOK
  <2>2. watch[t] \in Uploads
    BY DEF IInv, TypeOK
  <2> QED
    BY <1>1, <2>1, <2>2, StillTrue DEF IInv, EntriesRight
<1>7. TabsRight'
  <2>1. tab[t] # "closed" /\ (s = "done" => outcome[watch[t]] = "classified")
    BY <1>1, <1>2 DEF TrueWithin
  <2> QED
    BY <1>1, <1>3, <2>1, StillTrue DEF IInv, TabsRight
<1>8. NeverEmptyHanded'
  BY <1>3 DEF IInv, NeverEmptyHanded
<1> QED
  BY <1>4, <1>5, <1>6, <1>7, <1>8 DEF IInv

LEMMA StoreIInv ==
  ASSUME IInv, NEW t \in Tabs, Store(t)
  PROVE  IInv'
<1> DEFINE entry == [status |-> got[t], ttl |-> Expire]
           b == watch[t]
<1>1. /\ UNCHANGED <<outcome, status, clears, watch, settled, slow>>
      /\ tab[t] = "storing"
      /\ redis' = [redis EXCEPT ![b] = entry]
      /\ copy' = [copy EXCEPT ![t] = entry]
      /\ got' = [got EXCEPT ![t] = "none"]
      /\ unclean' = IF got[t] = status[b] THEN unclean ELSE unclean \cup {b}
      /\ Verdict(t, got[t])
  BY DEF Store, serviceVars
<1>2. b \in Uploads /\ TrueWithin(b, got[t], Expire)
  BY <1>1 DEF IInv, TypeOK, TabsRight
<1>3. entry \in Entries /\ entry.status = got[t] /\ entry.ttl = Expire
  BY <1>2, Bounds DEF Entries, TrueWithin
<1>4. /\ tab' \in [Tabs -> Places] /\ polls' \in [Tabs -> 0..(MaxPolls - 1)]
      /\ tab'[t] \in {"failed", "fetching", "timedout", "sleeping"}
      /\ tab'[t] = "fetching" => got[t] = "done"
      /\ \A r \in Tabs \ {t} : tab'[r] = tab[r]
  BY <1>1, VerdictKeeps
<1> HIDE DEF entry, b
<1>5. TypeOK'
  <2>1. redis' \in [Uploads -> Entries] /\ copy' \in [Tabs -> Entries]
    BY <1>1, <1>3 DEF IInv, TypeOK
  <2>2. got' \in [Tabs -> Statuses \cup {"none"}] /\ unclean' \subseteq Uploads
    BY <1>1, <1>2 DEF IInv, TypeOK
  <2> QED
    BY <1>1, <1>4, <2>1, <2>2 DEF IInv, TypeOK
<1>6. ReportsTrue'
  BY <1>1 DEF IInv, ReportsTrue
<1>7. EntriesRight'
  <2>1. \A c \in Uploads : redis'[c] = redis[c] \/ (c = b /\ redis'[c] = entry)
    BY <1>1 DEF IInv, TypeOK
  <2>2. \A r \in Tabs : copy'[r] = copy[r] \/ (r = t /\ copy'[r] = entry)
    BY <1>1 DEF IInv, TypeOK
  <2> QED
    BY <1>1, <1>2, <1>3, <2>1, <2>2, StillTrue DEF IInv, EntriesRight, b
<1>8. TabsRight'
  <2>1. tab[t] # "closed" /\ (got[t] = "done" => outcome[b] = "classified")
    BY <1>1, <1>2 DEF TrueWithin
  <2>2. \A r \in Tabs \ {t} : got'[r] = got[r]
    BY <1>1 DEF IInv, TypeOK
  <2> QED
    BY <1>1, <1>4, <2>1, <2>2, StillTrue DEF IInv, TabsRight, b
<1>9. NeverEmptyHanded'
  BY <1>4 DEF IInv, NeverEmptyHanded
<1>10. StaleHasCause'
  <2>1. \A c \in Uploads \ {b} : redis'[c] = redis[c]
    BY <1>1 DEF IInv, TypeOK
  <2>2. b \in unclean' \/ redis'[b].status = status'[b]
    BY <1>1, <1>2, <1>3 DEF IInv, TypeOK
  <2> QED
    BY <1>1, <2>1, <2>2 DEF IInv, StaleHasCause, Fresh
<1> QED
  BY <1>5, <1>6, <1>7, <1>8, <1>9, <1>10 DEF IInv

\* The steps of a page that write nothing.
LEMMA PageIInv ==
  ASSUME IInv, NEW t \in Tabs,
         Open(t) \/ Miss(t) \/ GetBatch(t) \/ FetchPredictions(t) \/ RequestFails(t)
  PROVE  IInv'
<1> USE DEF Open, Miss, GetBatch, FetchPredictions, RequestFails
<1>1. UNCHANGED <<outcome, status, clears, redis, watch, copy, settled, unclean, slow>>
  BY DEF serviceVars, historyVars
<1>2. /\ \A r \in Tabs \ {t} : tab'[r] = tab[r] /\ got'[r] = got[r]
      /\ outcome[watch[t]] # "none"
      /\ tab'[t] # "storing" => tab'[t] \notin {"fetching", "empty"}
      /\ tab'[t] = "storing" => got'[t] = status[watch[t]]
  BY DEF IInv, TypeOK, TabsRight
<1>3. TypeOK'
  <2>1. tab' \in [Tabs -> Places] /\ got' \in [Tabs -> Statuses \cup {"none"}]
    BY DEF IInv, TypeOK, TabsRight, ReportsTrue, Places
  <2>2. polls' \in [Tabs -> 0..(MaxPolls - 1)]
    BY Bounds DEF IInv, TypeOK
  <2> QED
    BY <1>1, <2>1, <2>2 DEF IInv, TypeOK
<1>4. ReportsTrue' /\ StaleHasCause'
  BY <1>1 DEF IInv, ReportsTrue, StaleHasCause, Fresh
<1>5. EntriesRight'
  BY <1>1, StillTrue DEF IInv, EntriesRight
<1>6. TabsRight'
  <2>1. TrueWithin(watch[t], status[watch[t]], Expire)
    BY <1>2 DEF IInv, TypeOK, ReportsTrue, TrueWithin
  <2> QED
    BY <1>1, <1>2, <2>1, StillTrue DEF IInv, TabsRight
<1>7. NeverEmptyHanded'
  BY <1>2 DEF IInv, NeverEmptyHanded
<1> QED
  BY <1>3, <1>4, <1>5, <1>6, <1>7 DEF IInv

LEMMA TickIInv ==
  ASSUME IInv, Tick
  PROVE  IInv'
<1>1. UNCHANGED <<outcome, status, clears, watch, polls, got, unclean>>
  BY DEF Tick, serviceVars
<1>2. ASSUME NEW e \in Entries
      PROVE  /\ Older(e) \in Entries
             /\ Older(e).ttl > 0 => /\ Older(e).status = e.status /\ e.ttl > 0
                                    /\ Older(e).ttl = e.ttl - 1
  BY Bounds DEF Older, Entries, NoEntry
<1>3. \A b \in Uploads : /\ settled[b] \in 0..Expire /\ settled'[b] \in 0..Expire
                         /\ settled'[b] <= settled[b] + 1
  BY Bounds DEF Tick, IInv, TypeOK
<1>4. TypeOK'
  <2>1. redis' \in [Uploads -> Entries] /\ copy' \in [Tabs -> Entries]
    BY <1>2 DEF Tick, IInv, TypeOK
  <2>2. settled' \in [Uploads -> 0..Expire]
    BY <1>3 DEF Tick, IInv, TypeOK
  <2>3. tab' \in [Tabs -> Places]
    BY DEF Tick, IInv, TypeOK, Places
  <2>4. slow' \subseteq Uploads
    BY DEF Tick, IInv, TypeOK
  <2> QED
    BY <1>1, <2>1, <2>2, <2>3, <2>4 DEF IInv, TypeOK
<1>5. ReportsTrue'
  BY <1>1 DEF IInv, ReportsTrue
<1>6. ASSUME NEW b \in Uploads, NEW s, NEW ttl \in 1..Expire, TrueWithin(b, s, ttl)
      PROVE  TrueWithin(b, s, ttl - 1)'
  <2>1. settled[b] + ttl <= Expire => settled'[b] + (ttl - 1) <= Expire
    BY <1>3, Bounds
  <2>2. slow \subseteq slow'
    BY DEF Tick
  <2> QED
    BY <1>1, <1>6, <2>1, <2>2 DEF TrueWithin
<1>7. EntriesRight'
  <2>1. ASSUME NEW b \in Uploads, redis'[b].ttl > 0
        PROVE  TrueWithin(b, redis[b].status, redis[b].ttl)'
    <3>1. /\ redis'[b].status = redis[b].status /\ redis'[b].ttl = redis[b].ttl - 1
          /\ redis[b].ttl \in 1..Expire
      BY <1>2, <2>1, Bounds DEF Tick, IInv, TypeOK, Entries
    <3> QED
      BY <1>6, <3>1, Bounds DEF IInv, EntriesRight
  <2>2. ASSUME NEW t \in Tabs, copy'[t].ttl > 0
        PROVE  TrueWithin(watch[t], copy[t].status, copy[t].ttl)'
    <3>1. /\ copy'[t].status = copy[t].status /\ copy'[t].ttl = copy[t].ttl - 1
          /\ copy[t].ttl \in 1..Expire /\ watch[t] \in Uploads
      BY <1>2, <2>2, Bounds DEF Tick, IInv, TypeOK, Entries
    <3> QED
      BY <1>1, <1>6, <3>1, Bounds DEF IInv, EntriesRight
  <2> QED
    BY <2>1, <2>2 DEF EntriesRight
<1>8. TabsRight'
  <2>1. ASSUME NEW t \in Tabs  PROVE tab'[t] # tab[t] => tab[t] = "sleeping" /\ tab'[t] = "asking"
    BY DEF Tick, IInv, TypeOK
  <2>2. ASSUME NEW t \in Tabs, tab'[t] = "storing"  PROVE TrueWithin(watch[t], got[t], Expire)'
    <3>1. tab[t] = "storing" /\ watch[t] \in slow'
      BY <2>1, <2>2 DEF Tick
    <3> QED
      BY <1>1, <3>1 DEF IInv, TabsRight, TrueWithin
  <2> QED
    BY <1>1, <2>1, <2>2 DEF IInv, TabsRight
<1>9. NeverEmptyHanded'
  BY DEF Tick, IInv, TypeOK, NeverEmptyHanded
<1>10. StaleHasCause'
  BY <1>1, <1>2 DEF Tick, IInv, TypeOK, StaleHasCause, Fresh
<1> QED
  BY <1>4, <1>5, <1>7, <1>8, <1>9, <1>10 DEF IInv

LEMMA NextIInv == IInv /\ [Next]_vars => IInv'
<1> SUFFICES ASSUME IInv, [Next]_vars  PROVE IInv'
  OBVIOUS
<1>1. ASSUME NEW b \in Uploads, Resolve(b)  PROVE IInv'
  BY <1>1, ResolveIInv
<1>2. ASSUME NEW b \in Uploads, Commit(b)  PROVE IInv'
  BY <1>2, CommitIInv
<1>3. ASSUME NEW b \in Uploads, Clear(b) \/ ClearFails(b)  PROVE IInv'
  BY <1>3, ClearIInv
<1>4. ASSUME NEW t \in Tabs, AnswerFromBrowser(t) \/ AnswerFromRedis(t)  PROVE IInv'
  BY <1>4, AnswerIInv
<1>5. ASSUME NEW t \in Tabs, Store(t)  PROVE IInv'
  BY <1>5, StoreIInv
<1>6. ASSUME NEW t \in Tabs,
             Open(t) \/ Miss(t) \/ GetBatch(t) \/ FetchPredictions(t) \/ RequestFails(t)
      PROVE  IInv'
  BY <1>6, PageIInv
<1>7. CASE Tick
  BY <1>7, TickIInv
<1>8. CASE UNCHANGED vars
  <2> USE <1>8 DEF vars, serviceVars, tabVars, historyVars
  <2>1. TypeOK' /\ ReportsTrue'
    BY DEF IInv, TypeOK, ReportsTrue
  <2>2. EntriesRight' /\ TabsRight'
    BY DEF IInv, EntriesRight, TabsRight, TrueWithin
  <2>3. NeverEmptyHanded' /\ StaleHasCause'
    BY DEF IInv, NeverEmptyHanded, StaleHasCause, Fresh
  <2> QED
    BY <2>1, <2>2, <2>3 DEF IInv
<1> QED
  BY <1>1, <1>2, <1>3, <1>4, <1>5, <1>6, <1>7, <1>8 DEF Next

-----------------------------------------------------------------------------
\* The inductive invariant holds of every reachable state.
THEOREM Invariance == Spec => []IInv
  BY InitIInv, NextIInv, PTL DEF Spec

\* The variables keep their types.
THEOREM TypeCorrect == Spec => []TypeOK
<1>1. IInv => TypeOK
  BY DEF IInv
<1> QED
  BY Invariance, <1>1, PTL

\* A page that is told its batch is done finds the predictions (Classify.jsx).
THEOREM DoneIsNotEmpty == Spec => []NeverEmptyHanded
<1>1. IInv => NeverEmptyHanded
  BY DEF IInv
<1> QED
  BY Invariance, <1>1, PTL

\* Redis is out of date only before a clear, after one that failed, or after a
\* fill that raced with a commit (cache_service.py).
THEOREM StalenessHasCause == Spec => []StaleHasCause
<1>1. IInv => StaleHasCause
  BY DEF IInv
<1> QED
  BY Invariance, <1>1, PTL

\* A cached answer does not outlive what it says by more than the expiry of
\* the route, in Redis and the browser together.
THEOREM StalenessIsBounded == Spec => []StaleIsBounded
<1>1. ASSUME IInv, NEW b \in Uploads \ slow, settled[b] = Expire,
             NEW s, NEW ttl \in 1..Expire, TrueWithin(b, s, ttl)
      PROVE  s = status[b]
  BY <1>1, Bounds DEF TrueWithin
<1>2. IInv => StaleIsBounded
  BY <1>1, Bounds DEF IInv, TypeOK, Entries, EntriesRight, StaleIsBounded, Fresh
<1> QED
  BY Invariance, <1>2, PTL

\* What the loop of a page ends with is an answer that is true, or was until
\* less than the expiry ago.
LEMMA ToldRecently ==
  ASSUME IInv, [Next]_vars, NEW t \in Tabs,
         tab'[t] # tab[t], tab'[t] \in {"failed", "timedout"}
  PROVE  \E s : /\ Verdict(t, s)
                /\ \/ s = status[watch[t]]
                   \/ settled[watch[t]] < Expire
                   \/ watch[t] \in slow
<1>1. ASSUME NEW s, NEW ttl \in 1..Expire, TrueWithin(watch[t], s, ttl)
      PROVE  watch[t] \in slow \/ s = status[watch[t]] \/ settled[watch[t]] < Expire
  BY <1>1, Bounds DEF TrueWithin, IInv, TypeOK
<1>2. CASE AnswerFromBrowser(t)
  BY <1>1, <1>2, Bounds DEF AnswerFromBrowser, IInv, TypeOK, Entries, EntriesRight
<1>3. CASE AnswerFromRedis(t)
  BY <1>1, <1>3, Bounds DEF AnswerFromRedis, IInv, TypeOK, Entries, EntriesRight
<1>4. CASE Store(t)
  BY <1>1, <1>4, Bounds DEF Store, IInv, TabsRight
<1>5. CASE Open(t) \/ Miss(t) \/ GetBatch(t) \/ FetchPredictions(t) \/ RequestFails(t)
  BY <1>5 DEF Open, Miss, GetBatch, FetchPredictions, RequestFails, IInv, TypeOK
<1>6. ASSUME NEW r \in Tabs \ {t},
             AnswerFromBrowser(r) \/ AnswerFromRedis(r) \/ Store(r) \/ Open(r) \/ Miss(r)
             \/ GetBatch(r) \/ FetchPredictions(r) \/ RequestFails(r)
      PROVE  tab'[t] = tab[t]
  BY <1>6 DEF AnswerFromBrowser, AnswerFromRedis, Store, Open, Miss, GetBatch,
              FetchPredictions, RequestFails, Verdict, IInv, TypeOK
<1>7. CASE Tick
  BY <1>7 DEF Tick, IInv, TypeOK
<1>8. ASSUME NEW b \in Uploads, Resolve(b) \/ Commit(b) \/ Clear(b) \/ ClearFails(b)
      PROVE  tab' = tab
  BY <1>8 DEF Resolve, Commit, Clear, ClearFails, tabVars
<1>9. CASE UNCHANGED vars
  BY <1>9 DEF vars, tabVars
<1> QED
  BY <1>2, <1>3, <1>4, <1>5, <1>6, <1>7, <1>8, <1>9 DEF Next

\* A page gives up on a batch only when there is no verdict, or one so recent
\* that an older answer may still be kept (Classify.jsx:71).
THEOREM GivingUpIsLate == Spec => GivesUpLate
<1> DEFINE Late(t) == tab[t] # "timedout" /\ tab'[t] = "timedout" =>
               \/ status[watch[t]] \notin Verdicts
               \/ settled[watch[t]] < Expire
               \/ watch[t] \in slow
<1>1. ASSUME IInv, [Next]_vars, NEW t \in Tabs  PROVE Late(t)
  BY <1>1, ToldRecently, VerdictKeeps
<1>2. IInv /\ [Next]_vars => [\A t \in Tabs : Late(t)]_vars
  BY <1>1
<1> QED
  BY Invariance, <1>2, PTL DEF Spec, GivesUpLate

\* A page says a batch has failed (Classify.jsx:55) only when it has, or had
\* less than the expiry of a cached answer ago: a job that is run again takes
\* back a failure, and no page shows it for longer.
FailsRecently ==
    [][\A t \in Tabs :
          tab[t] # "failed" /\ tab'[t] = "failed" =>
              \/ status[watch[t]] = "failed"
              \/ settled[watch[t]] < Expire
              \/ watch[t] \in slow]_vars

THEOREM FailureIsRecent == Spec => FailsRecently
<1> DEFINE Recent(t) == tab[t] # "failed" /\ tab'[t] = "failed" =>
               \/ status[watch[t]] = "failed"
               \/ settled[watch[t]] < Expire
               \/ watch[t] \in slow
<1>1. ASSUME IInv, [Next]_vars, NEW t \in Tabs  PROVE Recent(t)
  <2> SUFFICES ASSUME tab[t] # "failed", tab'[t] = "failed"
               PROVE  Recent(t)
    OBVIOUS
  <2>1. PICK s : /\ Verdict(t, s)
                 /\ \/ s = status[watch[t]]
                    \/ settled[watch[t]] < Expire
                    \/ watch[t] \in slow
    BY <1>1, ToldRecently
  <2>2. s = "failed"
    BY <1>1, <2>1 DEF Verdict, IInv, TypeOK
  <2> QED
    BY <2>1, <2>2
<1>2. IInv /\ [Next]_vars => [\A t \in Tabs : Recent(t)]_vars
  BY <1>1
<1> QED
  BY Invariance, <1>2, PTL DEF Spec, FailsRecently
=============================================================================
