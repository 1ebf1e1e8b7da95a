---------------------------- MODULE SessionProofs ----------------------------
(***************************************************************************)
(* Proofs about Session, for any users and tabs, any expiry and any number *)
(* of logins.                                                              *)
(***************************************************************************)
EXTENDS Session, TLAPS

USE DEF Kinds, CacheKey

LEMMA Apart == /\ NoToken \notin Tokens
               /\ NoAnswer \notin Answers
  BY UsersAssumption DEF NoToken, Tokens, NoAnswer, Answers

LEMMA InitIInv == Init => IInv
<1> SUFFICES ASSUME Init  PROVE IInv
  OBVIOUS
<1>1. TypeOK
  <2>1. NoRequest \in Requests
    BY DEF NoRequest, Requests
  <2>2. NoEntry \in Entries
    BY ExpireAssumption DEF NoEntry, Entries
  <2> QED
    BY <2>1, <2>2, ExpireAssumption DEF Init, TypeOK
<1>2. CachesRight /\ OwnerOrRecent
  BY DEF Init, CachesRight, OwnerOrRecent, NoEntry
<1>3. RequestsRight /\ OneAtATime /\ AsksWithToken
  BY DEF Init, RequestsRight, OneAtATime, AsksWithToken, Waits, NoRequest
<1>4. ActsForShown /\ NoBlankPage
  BY DEF Init, ActsForShown, NoBlankPage
<1> QED
  BY <1>1, <1>2, <1>3, <1>4 DEF IInv

-----------------------------------------------------------------------------
(* Loading, logging in, logging out.                                       *)

LEMMA LoadIInv ==
  ASSUME IInv, NEW t \in Tabs, Load(t)
  PROVE  IInv'
<1> DEFINE Asks(k) == IF k \in Loads /\ token # NoToken THEN Sent(token) ELSE NoRequest
<1>1. \A k \in Kinds : Asks(k) \in Requests
  BY DEF IInv, TypeOK, Requests, Sent, NoRequest
<1>2. /\ asked' \in [Tabs -> [Kinds -> Requests]]
      /\ \A k \in Kinds : asked'[t][k] = Asks(k)
      /\ \A s \in Tabs \ {t} : asked'[s] = asked[s]
  BY <1>1 DEF Load, IInv, TypeOK
<1>3. \A k \in Kinds :
          /\ asked'[t][k].at = IF k \in Loads /\ token # NoToken THEN "sent" ELSE "none"
          /\ asked'[t][k].at # "none" => asked'[t][k].token = token
  BY <1>2 DEF Sent, NoRequest
<1>4. ~Waits(t, "login")' /\ \A k \in Loads : Waits(t, k)' <=> token # NoToken
  BY <1>3, LoadsAssumption DEF Waits
<1>5. /\ page' \in [Tabs -> {"login", "app"}] /\ shown' \in [Tabs -> Answers \cup {NoAnswer}]
      /\ shown'[t] = NoAnswer /\ (token = NoToken => page'[t] = "login")
      /\ \A s \in Tabs \ {t} : page'[s] = page[s] /\ shown'[s] = shown[s]
  BY DEF Load, IInv, TypeOK
<1>6. /\ UNCHANGED <<token, redis, copy, logins, told>>
      /\ foreign' = foreign \ {t} /\ crossed' = crossed \ {t} /\ denied' = denied \ {t}
  BY DEF Load, cacheVars
<1>7. \A s \in Tabs \ {t}, k \in Kinds : Waits(s, k)' <=> Waits(s, k)
  BY <1>2 DEF Waits
<1> HIDE DEF Asks
<1>8. TypeOK' /\ CachesRight'
  BY <1>2, <1>5, <1>6 DEF IInv, TypeOK, CachesRight
<1>9. RequestsRight'
  <2>1. token # NoToken => token \in Tokens
    BY DEF IInv, TypeOK
  <2>2. ASSUME NEW k \in Kinds
        PROVE  /\ asked'[t][k].at # "none" => asked'[t][k].token \in Tokens
               /\ asked'[t][k].at # "answered"
    BY <2>1, <1>3
  <2> QED
    BY <2>2, <1>2 DEF IInv, RequestsRight, NamesOwner
<1>10. OneAtATime'
  BY <1>4, <1>5, <1>6, <1>7 DEF IInv, OneAtATime
<1>11. AsksWithToken'
  <2>1. ASSUME NEW k \in Loads, Waits(t, k)'  PROVE asked'[t][k].token = token
    BY <2>1, <1>3 DEF Waits
  <2>2. \A s \in Tabs \ {t}, k \in Kinds : asked'[s][k].token = asked[s][k].token
    BY <1>2
  <2> QED
    BY <2>1, <2>2, <1>4, <1>5, <1>6, <1>7 DEF IInv, AsksWithToken
<1>12. OwnerOrRecent' /\ ActsForShown'
  BY <1>5, <1>6 DEF IInv, OwnerOrRecent, ActsForShown
<1>13. NoBlankPage'
  BY <1>4, <1>5, <1>7 DEF IInv, NoBlankPage, Loading
<1> QED
  BY <1>8, <1>9, <1>10, <1>11, <1>12, <1>13 DEF IInv

LEMMA LoginIInv ==
  ASSUME IInv, NEW t \in Tabs, Login(t)
  PROVE  IInv'
<1>1. logins' \in 1..MaxLogins /\ token' \in Tokens
  <2>1. logins' \in 1..MaxLogins
    BY ExpireAssumption DEF Login, IInv, TypeOK
  <2> QED
    BY <2>1 DEF Login, Tokens
<1>2. /\ asked' \in [Tabs -> [Kinds -> Requests]]
      /\ asked'[t]["login"] = Sent(token')
      /\ \A k \in Loads : asked'[t][k] = asked[t][k]
      /\ \A s \in Tabs \ {t} : asked'[s] = asked[s]
  BY <1>1, LoadsAssumption DEF Login, IInv, TypeOK, Requests, Sent
<1>3. asked'[t]["login"].at = "sent" /\ asked'[t]["login"].token = token'
  BY <1>2 DEF Sent
<1>4. TypeOK'
  <2>1. logins' \in 0..MaxLogins
    BY <1>1, ExpireAssumption
  <2>2. foreign' \subseteq Tabs /\ crossed' \subseteq Tabs
    BY DEF Login, IInv, TypeOK
  <2>3. denied' \subseteq Tabs
    BY DEF Login, IInv, TypeOK
  <2> QED
    BY <1>1, <1>2, <2>1, <2>2, <2>3 DEF Login, IInv, TypeOK, cacheVars
<1>5. CachesRight' /\ OwnerOrRecent' /\ NoBlankPage'
  BY <1>2 DEF Login, IInv, CachesRight, OwnerOrRecent, NoBlankPage, Loading, Waits, cacheVars
<1>6. RequestsRight'
  BY <1>1, <1>2, <1>3 DEF Login, IInv, RequestsRight
<1>7. OneAtATime'
  BY <1>2, <1>3 DEF Login, IInv, OneAtATime, Waits
<1>8. AsksWithToken' /\ ActsForShown'
  BY <1>2, <1>3 DEF Login, IInv, AsksWithToken, ActsForShown, Waits
<1> QED
  BY <1>4, <1>5, <1>6, <1>7, <1>8 DEF IInv

LEMMA LogoutIInv ==
  ASSUME IInv, NEW t \in Tabs, Logout(t)
  PROVE  IInv'
<1>1. TypeOK'
  BY DEF Logout, IInv, TypeOK, cacheVars
<1>2. CachesRight' /\ RequestsRight'
  BY DEF Logout, IInv, CachesRight, RequestsRight, cacheVars
<1>3. OneAtATime' /\ OwnerOrRecent' /\ NoBlankPage'
  BY DEF Logout, IInv, TypeOK, OneAtATime, OwnerOrRecent, NoBlankPage, Loading, Waits
<1>4. AsksWithToken' /\ ActsForShown'
  BY DEF Logout, IInv, TypeOK, OneAtATime, AsksWithToken, ActsForShown, Waits
<1> QED
  BY <1>1, <1>2, <1>3, <1>4 DEF IInv

-----------------------------------------------------------------------------
(* GET /auth/me.                                                           *)

\* A request that is answered, or fails, stays under way.
LEMMA StillAsked ==
  ASSUME IInv, UNCHANGED <<token, page, shown, foreign, crossed, denied>>,
         \A s \in Tabs, j \in Kinds :
             /\ Waits(s, j)' <=> Waits(s, j)
             /\ asked'[s][j].token = asked[s][j].token
  PROVE  OneAtATime' /\ AsksWithToken' /\ OwnerOrRecent' /\ ActsForShown' /\ NoBlankPage'
  BY DEF IInv, OneAtATime, AsksWithToken, OwnerOrRecent, ActsForShown, NoBlankPage,
         Loading, Waits

LEMMA AnswerIInv ==
  ASSUME IInv, NEW t \in Tabs, NEW k \in Kinds,
         AnswerFromBrowser(t, k) \/ AnswerFromServer(t, k)
  PROVE  IInv'
<1> DEFINE user == asked[t][k].token.user
           kept == redis[user]
           entry == IF kept.ttl > 0 THEN kept ELSE [user |-> user, ttl |-> Expire]
           Answer(u, lent, age) == [token |-> asked[t][k].token, user |-> u,
                                    lent |-> lent, age |-> age]
<1>1. /\ asked[t][k].at = "sent" /\ asked[t][k] \in Requests
      /\ asked[t][k].token \in Tokens /\ user \in Users
      /\ kept \in Entries
  <2>1. asked[t][k].at = "sent"
    BY DEF AnswerFromBrowser, AnswerFromServer
  <2>2. asked[t][k] \in Requests
    BY DEF IInv, TypeOK
  <2>3. asked[t][k].token \in Tokens
    BY <2>1 DEF IInv, RequestsRight
  <2>4. user \in Users
    BY <2>3 DEF Tokens
  <2> QED
    BY <2>1, <2>2, <2>3, <2>4 DEF IInv, TypeOK
<1>2. entry.user = user /\ entry \in Entries /\ entry.ttl \in 1..Expire
  BY <1>1, ExpireAssumption DEF IInv, CachesRight, Entries
<1>3. \E u \in Users, lent \in BOOLEAN, age \in 0..Expire :
          /\ Answered(t, k, u, lent, age)
          /\ u # user => lent /\ age < Expire
  <2>1. CASE AnswerFromBrowser(t, k)
    <3>1. /\ copy.user \in Users /\ told[copy.user] \in 0..Expire
          /\ told[copy.user] < Expire
          /\ Answered(t, k, copy.user, TRUE, told[copy.user])
      <4>1. copy.ttl > 0 /\ Answered(t, k, copy.user, TRUE, told[copy.user])
        BY <2>1 DEF AnswerFromBrowser
      <4>2. copy.user \in Users /\ told[copy.user] + copy.ttl <= Expire
        BY <4>1 DEF IInv, CachesRight
      <4>3. copy.ttl \in 0..Expire /\ told[copy.user] \in 0..Expire
        BY <4>2 DEF IInv, TypeOK, Entries
      <4>4. told[copy.user] < Expire
        BY <4>1, <4>2, <4>3, ExpireAssumption
      <4> QED
        BY <4>1, <4>2, <4>3, <4>4
    <3> QED
      BY <3>1
  <2>2. CASE AnswerFromServer(t, k)
    <3>1. Answered(t, k, entry.user, FALSE, 0)
      BY <2>2 DEF AnswerFromServer
    <3>2. entry.user \in Users /\ 0 \in 0..Expire /\ FALSE \in BOOLEAN
      BY <1>1, <1>2, ExpireAssumption
    <3>3. entry.user = user
      BY <1>2
    <3> HIDE DEF entry, user
    <3> QED
      BY <3>1, <3>2, <3>3
  <2> QED
    BY <2>1, <2>2
<1>4. PICK u \in Users, lent \in BOOLEAN, age \in 0..Expire :
          /\ Answered(t, k, u, lent, age)
          /\ u # user => lent /\ age < Expire
  BY <1>3
<1>5. /\ Answer(u, lent, age) \in Answers
      /\ Answer(u, lent, age).token = asked[t][k].token
      /\ NamesOwner(Answer(u, lent, age))
  BY <1>1, <1>4 DEF Answers, NamesOwner
<1>6. /\ asked' \in [Tabs -> [Kinds -> Requests]]
      /\ asked'[t][k].at = "answered"
      /\ asked'[t][k].token = asked[t][k].token
      /\ asked'[t][k].answer = Answer(u, lent, age)
      /\ \A s \in Tabs, j \in Kinds : s # t \/ j # k => asked'[s][j] = asked[s][j]
  BY <1>1, <1>4, <1>5 DEF Answered, IInv, TypeOK, Requests
<1>7. TypeOK'
  <2>1. CASE AnswerFromBrowser(t, k)
    BY <2>1, <1>6 DEF AnswerFromBrowser, IInv, TypeOK, cacheVars, historyVars
  <2>2. CASE AnswerFromServer(t, k)
    <3>1. /\ redis' = [redis EXCEPT ![user] = entry]
          /\ copy' = entry
          /\ told' = [told EXCEPT ![entry.user] = 0]
          /\ UNCHANGED <<token, page, shown, logins, foreign, crossed, denied>>
      BY <2>2 DEF AnswerFromServer
    <3>2. 0 \in 0..Expire
      BY ExpireAssumption
    <3> QED
      BY <3>1, <3>2, <1>2, <1>6 DEF IInv, TypeOK
  <2> QED
    BY <2>1, <2>2
<1>8. CachesRight'
  <2>1. CASE AnswerFromBrowser(t, k)
    BY <2>1 DEF AnswerFromBrowser, IInv, CachesRight, cacheVars, historyVars
  <2>2. CASE AnswerFromServer(t, k)
    <3>1. /\ redis' = [redis EXCEPT ![user] = entry]
          /\ copy' = entry
          /\ told' = [told EXCEPT ![entry.user] = 0]
      BY <2>2 DEF AnswerFromServer
    <3>2. told'[user] = 0
      BY <3>1, <1>1, <1>2 DEF IInv, TypeOK
    <3>3. ASSUME NEW v \in Users, redis'[v].ttl > 0  PROVE redis'[v].user = v
      BY <3>1, <3>3, <1>1, <1>2 DEF IInv, TypeOK, CachesRight
    <3>4. copy'.user = user /\ copy'.ttl \in 1..Expire
      BY <3>1, <1>2
    <3>5. copy'.user \in Users /\ told'[copy'.user] + copy'.ttl <= Expire
      BY <3>2, <3>4, <1>1, ExpireAssumption
    <3> QED
      BY <3>3, <3>5 DEF CachesRight
  <2> QED
    BY <2>1, <2>2
<1>9. RequestsRight'
  BY <1>1, <1>5, <1>6 DEF IInv, RequestsRight, NamesOwner
<1>10. OneAtATime' /\ AsksWithToken' /\ OwnerOrRecent' /\ ActsForShown' /\ NoBlankPage'
  <2>1. UNCHANGED <<token, page, shown, foreign, crossed, denied>>
    BY DEF AnswerFromBrowser, AnswerFromServer, historyVars
  <2>2. \A s \in Tabs, j \in Kinds : /\ Waits(s, j)' <=> Waits(s, j)
                                     /\ asked'[s][j].token = asked[s][j].token
    BY <1>1, <1>6 DEF Waits
  <2> QED
    BY <2>1, <2>2, StillAsked
<1> QED
  BY <1>7, <1>8, <1>9, <1>10 DEF IInv

LEMMA FailIInv ==
  ASSUME IInv, NEW t \in Tabs, NEW k \in Kinds, Fail(t, k)
  PROVE  IInv'
<1>1. /\ asked' \in [Tabs -> [Kinds -> Requests]]
      /\ asked'[t][k].at = "failed"
      /\ asked'[t][k].token = asked[t][k].token
      /\ \A s \in Tabs, j \in Kinds : s # t \/ j # k => asked'[s][j] = asked[s][j]
  <2>1. asked[t][k] \in Requests
    BY DEF IInv, TypeOK
  <2>2. [asked[t][k] EXCEPT !.at = "failed"] \in Requests
    BY <2>1 DEF Requests
  <2>3. asked' = [asked EXCEPT ![t][k] = [asked[t][k] EXCEPT !.at = "failed"]]
    BY DEF Fail, IInv, TypeOK
  <2> QED
    BY <2>1, <2>2, <2>3 DEF IInv, TypeOK, Requests
<1>2. TypeOK'
  BY <1>1 DEF Fail, IInv, TypeOK, cacheVars, historyVars
<1>3. CachesRight'
  BY DEF Fail, IInv, CachesRight, cacheVars, historyVars
<1>4. RequestsRight'
  BY <1>1 DEF Fail, IInv, RequestsRight, NamesOwner
<1>5. OneAtATime' /\ AsksWithToken' /\ OwnerOrRecent' /\ ActsForShown' /\ NoBlankPage'
  <2>1. UNCHANGED <<token, page, shown, foreign, crossed, denied>>
    BY DEF Fail, historyVars
  <2>2. \A s \in Tabs, j \in Kinds : /\ Waits(s, j)' <=> Waits(s, j)
                                     /\ asked'[s][j].token = asked[s][j].token
    BY <1>1 DEF Fail, Waits
  <2> QED
    BY <2>1, <2>2, StillAsked
<1> QED
  BY <1>2, <1>3, <1>4, <1>5 DEF IInv

\* A request that is over leaves the others as they are.
LEMMA OverIInv ==
  ASSUME IInv, NEW t \in Tabs, NEW k \in Kinds,
         \/ k \in Loads /\ (ShowLoaded(t, k) \/ LoadFails(t, k))
         \/ k = "login" /\ (ShowLoggedIn(t) \/ LoginFails(t))
  PROVE  IInv'
<1> USE DEF ShowLoaded, LoadFails, ShowLoggedIn, LoginFails
<1>1. /\ asked' \in [Tabs -> [Kinds -> Requests]]
      /\ asked'[t][k].at = "none"
      /\ \A s \in Tabs, j \in Kinds : s # t \/ j # k => asked'[s][j] = asked[s][j]
  <2>1. asked' = [asked EXCEPT ![t][k] = NoRequest]
    OBVIOUS
  <2>2. NoRequest \in Requests /\ NoRequest.at = "none"
    BY DEF Requests, NoRequest
  <2> QED
    BY <2>1, <2>2 DEF IInv, TypeOK
<1>2. Waits(t, k)
  BY DEF Waits
<1>3. TypeOK'
  <2>1. shown' \in [Tabs -> Answers \cup {NoAnswer}]
    BY DEF IInv, TypeOK, RequestsRight
  <2>2. token' \in Tokens \cup {NoToken} /\ page' \in [Tabs -> {"login", "app"}]
    BY DEF IInv, TypeOK
  <2>3. foreign' \subseteq Tabs /\ denied' \subseteq Tabs
    BY DEF IInv, TypeOK, historyVars
  <2>4. UNCHANGED <<redis, copy, logins, told, crossed>>
    BY DEF cacheVars, historyVars
  <2> QED
    BY <1>1, <2>1, <2>2, <2>3, <2>4 DEF IInv, TypeOK
<1>4. CachesRight'
  BY DEF IInv, CachesRight, cacheVars, historyVars
<1>5. RequestsRight'
  BY <1>1 DEF IInv, RequestsRight
<1>6. OneAtATime'
  BY <1>1, <1>2, LoadsAssumption DEF IInv, TypeOK, OneAtATime, Waits, historyVars
<1>7. OwnerOrRecent'
  BY DEF IInv, TypeOK, RequestsRight, NamesOwner, OwnerOrRecent
<1>8. AsksWithToken'
  <2>1. \A s \in Tabs, j \in Kinds :
            /\ Waits(s, j)' => Waits(s, j) /\ (s # t \/ j # k)
            /\ s # t \/ j # k => asked'[s][j].token = asked[s][j].token
    BY <1>1 DEF Waits
  <2>2. CASE UNCHANGED <<token, page, foreign, crossed, denied>>
    BY <2>1, <2>2 DEF IInv, AsksWithToken
  <2>3. CASE k \in Loads /\ LoadFails(t, k)
    <3>1. token' = NoToken /\ foreign' = foreign \cup (Tabs \ {t}) /\ crossed' = crossed
      BY <2>3 DEF historyVars
    <3>2. t \notin crossed => ~Waits(t, "login")
      BY <2>3, <1>2 DEF IInv, OneAtATime
    <3>3. page'[t] = "app" => t \in denied'
      BY <2>3 DEF IInv, TypeOK
    <3> HIDE DEF LoadFails
    <3> QED
      BY <3>1, <3>2, <3>3, <2>1 DEF AsksWithToken
  <2>4. CASE k = "login" /\ ShowLoggedIn(t)
    <3>1. UNCHANGED <<token, foreign, crossed, denied>> /\ t \in Tabs
      BY <2>4 DEF historyVars
    <3>2. t \notin crossed => \A j \in Loads : ~Waits(t, j)
      BY <2>4, <1>2 DEF IInv, OneAtATime
    <3>3. \A s \in Tabs \ {t} : page'[s] = page[s]
      BY <2>4 DEF IInv, TypeOK
    <3> HIDE DEF ShowLoggedIn
    <3> QED
      BY <3>1, <3>2, <3>3, <2>1 DEF IInv, AsksWithToken
  <2> QED
    BY <2>2, <2>3, <2>4 DEF historyVars
<1>9. ActsForShown'
  <2>1. \A s \in Tabs \ {t} : page'[s] = page[s] /\ shown'[s] = shown[s]
    BY DEF IInv, TypeOK
  <2>2. CASE UNCHANGED <<token, page, shown, foreign, crossed, denied>>
    BY <2>2 DEF IInv, ActsForShown
  <2>3. CASE k \in Loads /\ LoadFails(t, k)
    <3>1. /\ token' = NoToken /\ shown' = shown
          /\ foreign' = foreign \cup (Tabs \ {t}) /\ crossed' = crossed
          /\ shown[t] = NoAnswer \/ t \in denied'
      BY <2>3 DEF historyVars
    <3> HIDE DEF LoadFails
    <3> QED
      BY <3>1 DEF ActsForShown
  <2>4. ASSUME UNCHANGED <<token, foreign, crossed, denied>>,
               shown'[t].token = asked[t][k].token,
               page'[t] = "app" /\ t \notin foreign \cup crossed =>
                   asked[t][k].token = token \/ (t \in denied /\ token = NoToken)
        PROVE  ActsForShown'
    <3> HIDE DEF ShowLoaded, LoadFails, ShowLoggedIn, LoginFails
    <3> QED
      BY <2>1, <2>4 DEF IInv, ActsForShown
  <2>5. CASE k \in Loads /\ ShowLoaded(t, k)
    <3>1. /\ UNCHANGED <<token, page, foreign, crossed, denied>>
          /\ shown'[t].token = asked[t][k].token
      BY <2>5 DEF IInv, TypeOK, RequestsRight, historyVars
    <3>2. k \in Loads
      BY <2>5
    <3> HIDE DEF ShowLoaded, LoadFails, ShowLoggedIn, LoginFails
    <3>3. page[t] = "app" /\ t \notin foreign \cup crossed =>
              asked[t][k].token = token \/ (t \in denied /\ token = NoToken)
      BY <3>2, <1>2 DEF IInv, AsksWithToken
    <3> QED
      BY <3>1, <3>3, <2>4
  <2>6. CASE k = "login" /\ ShowLoggedIn(t)
    <3>1. /\ UNCHANGED <<token, foreign, crossed, denied>>
          /\ shown'[t].token = asked[t][k].token
      BY <2>6 DEF IInv, TypeOK, RequestsRight, historyVars
    <3>2. k = "login"
      BY <2>6
    <3> HIDE DEF ShowLoaded, LoadFails, ShowLoggedIn, LoginFails
    <3>3. t \notin foreign \cup crossed =>
              asked[t][k].token = token \/ (t \in denied /\ token = NoToken)
      BY <3>2, <1>2 DEF IInv, AsksWithToken
    <3> QED
      BY <3>1, <3>3, <2>4
  <2>7. CASE k = "login" /\ LoginFails(t)
    BY <2>7, <2>2 DEF historyVars
  <2> QED
    BY <2>3, <2>5, <2>6, <2>7
<1>10. NoBlankPage'
  BY <1>1, <1>2, Apart, LoadsAssumption
     DEF IInv, TypeOK, RequestsRight, NoBlankPage, Loading, Waits
<1> QED
  BY <1>3, <1>4, <1>5, <1>6, <1>7, <1>8, <1>9, <1>10 DEF IInv

-----------------------------------------------------------------------------
(* The rest of the service, and time.                                      *)

LEMMA QuietTabs ==
  ASSUME IInv, UNCHANGED <<token, tabVars, foreign, crossed, denied>>
  PROVE  /\ RequestsRight' /\ OneAtATime' /\ AsksWithToken'
         /\ OwnerOrRecent' /\ ActsForShown' /\ NoBlankPage'
  BY DEF IInv, RequestsRight, OneAtATime, AsksWithToken, OwnerOrRecent, ActsForShown,
         NoBlankPage, Loading, NamesOwner, Waits, tabVars

LEMMA CacheIInv ==
  ASSUME IInv, NEW u \in Users, AskElsewhere(u) \/ Invalidate(u)
  PROVE  IInv'
<1> USE DEF AskElsewhere, Invalidate, historyVars
<1>1. [user |-> u, ttl |-> Expire] \in Entries /\ NoEntry \in Entries
  BY ExpireAssumption DEF Entries, NoEntry
<1>2. TypeOK'
  BY <1>1 DEF IInv, TypeOK, tabVars
<1>3. CachesRight'
  BY DEF IInv, TypeOK, CachesRight, NoEntry
<1>4. /\ RequestsRight' /\ OneAtATime' /\ AsksWithToken'
      /\ OwnerOrRecent' /\ ActsForShown' /\ NoBlankPage'
  BY QuietTabs
<1> QED
  BY <1>2, <1>3, <1>4 DEF IInv

LEMMA TickIInv ==
  ASSUME IInv, Tick
  PROVE  IInv'
<1>1. ASSUME NEW entry \in Entries
      PROVE  /\ Older(entry) \in Entries
             /\ Older(entry).ttl > 0 => /\ Older(entry).user = entry.user
                                        /\ Older(entry).ttl = entry.ttl - 1
                                        /\ entry.ttl > 0
  BY ExpireAssumption DEF Older, Entries, NoEntry
<1>2. TypeOK'
  <2>1. redis' \in [Users -> Entries] /\ copy' \in Entries
    BY <1>1 DEF Tick, IInv, TypeOK
  <2>2. \A u \in Users : told[u] \in 0..Expire /\ told[u] # Expire => told[u] + 1 \in 0..Expire
    BY ExpireAssumption
  <2>3. told' \in [Users -> 0..Expire]
    BY <2>2, ExpireAssumption DEF Tick, IInv, TypeOK
  <2> QED
    BY <2>1, <2>3 DEF Tick, IInv, TypeOK, tabVars
<1>3. CachesRight'
  <2>1. ASSUME NEW u \in Users, redis'[u].ttl > 0  PROVE redis'[u].user = u
    BY <2>1, <1>1 DEF Tick, IInv, TypeOK, CachesRight
  <2>2. ASSUME copy'.ttl > 0
        PROVE  copy'.user \in Users /\ told'[copy'.user] + copy'.ttl <= Expire
    <3>1. copy.ttl > 0 /\ copy'.user = copy.user /\ copy'.ttl = copy.ttl - 1 /\ copy.ttl \in 0..Expire
      BY <2>2, <1>1 DEF Tick, IInv, TypeOK, Entries
    <3>2. copy.user \in Users /\ told[copy.user] + copy.ttl <= Expire
      BY <3>1 DEF IInv, CachesRight
    <3>3. told'[copy.user] <= told[copy.user] + 1 /\ told[copy.user] \in 0..Expire
      BY <3>2, ExpireAssumption DEF Tick, IInv, TypeOK
    <3>4. told'[copy.user] \in 0..Expire
      BY <1>2, <3>2 DEF TypeOK
    <3> QED
      BY <3>1, <3>2, <3>3, <3>4, ExpireAssumption
  <2> QED
    BY <2>1, <2>2 DEF CachesRight
<1>4. /\ RequestsRight' /\ OneAtATime' /\ AsksWithToken'
      /\ OwnerOrRecent' /\ ActsForShown' /\ NoBlankPage'
  BY QuietTabs DEF Tick
<1> QED
  BY <1>2, <1>3, <1>4 DEF IInv

LEMMA NextIInv == IInv /\ [Next]_vars => IInv'
<1> SUFFICES ASSUME IInv, [Next]_vars  PROVE IInv'
  OBVIOUS
<1>1. ASSUME NEW t \in Tabs, Load(t)  PROVE IInv'
  BY <1>1, LoadIInv
<1>2. ASSUME NEW t \in Tabs, Login(t)  PROVE IInv'
  BY <1>2, LoginIInv
<1>3. ASSUME NEW t \in Tabs, Logout(t)  PROVE IInv'
  BY <1>3, LogoutIInv
<1>4. ASSUME NEW t \in Tabs, NEW k \in Kinds, AnswerFromBrowser(t, k) \/ AnswerFromServer(t, k)
      PROVE  IInv'
  BY <1>4, AnswerIInv
<1>5. ASSUME NEW t \in Tabs, NEW k \in Kinds, Fail(t, k)  PROVE IInv'
  BY <1>5, FailIInv
<1>6. ASSUME NEW t \in Tabs, NEW k \in Kinds,
             \/ k \in Loads /\ (ShowLoaded(t, k) \/ LoadFails(t, k))
             \/ k = "login" /\ (ShowLoggedIn(t) \/ LoginFails(t))
      PROVE  IInv'
  BY <1>6, OverIInv
<1>7. ASSUME NEW u \in Users, AskElsewhere(u) \/ Invalidate(u)  PROVE IInv'
  BY <1>7, CacheIInv
<1>8. CASE Tick
  BY <1>8, TickIInv
<1>9. CASE UNCHANGED vars
  <2>1. TypeOK' /\ CachesRight'
    BY <1>9 DEF IInv, TypeOK, CachesRight, vars, tabVars, cacheVars, historyVars
  <2>2. /\ RequestsRight' /\ OneAtATime' /\ AsksWithToken'
        /\ OwnerOrRecent' /\ ActsForShown' /\ NoBlankPage'
    BY <1>9, QuietTabs DEF vars, historyVars
  <2> QED
    BY <2>1, <2>2 DEF IInv
<1> QED
  BY <1>1, <1>2, <1>3, <1>4, <1>5, <1>6, <1>7, <1>8, <1>9 DEF Next

-----------------------------------------------------------------------------
\* The inductive invariant holds of every reachable state.
THEOREM Invariance == Spec => []IInv
  BY InitIInv, NextIInv, PTL DEF Spec

\* The variables keep their types.
THEOREM TypeCorrect == Spec => []TypeOK
<1>1. IInv => TypeOK
  BY DEF IInv
<1> QED
  BY Invariance, <1>1, PTL

\* A tab shows the owner of its token, or someone this browser was told of
\* less than the expiry of the route ago (routers/auth.py).
THEOREM OwnerIsShown == Spec => []OwnerOrRecent
<1>1. IInv => OwnerOrRecent
  BY DEF IInv
<1> QED
  BY Invariance, <1>1, PTL

\* A tab that is alone, and logs in only when its load is over, acts for the
\* user it shows; or for nobody, if one request of its load was refused after
\* another had been answered (AuthContext.jsx).
THEOREM TabsActForShown == Spec => []ActsForShown
<1>1. IInv => ActsForShown
  BY DEF IInv
<1> QED
  BY Invariance, <1>1, PTL

\* No page waits for a user that nobody asked for (ProtectedRoute.jsx).
THEOREM NoPageIsBlank == Spec => []NoBlankPage
<1>1. IInv => NoBlankPage
  BY DEF IInv
<1> QED
  BY Invariance, <1>1, PTL

-----------------------------------------------------------------------------
\* With one tab nobody else writes the token.  What parts a page from the
\* token it acts with is then a login while the load is under way, or a load
\* answered and refused, which leaves no token at all (AuthContext.jsx:10-26).
OnlyTabActs ==
    \A t \in Tabs \ crossed :
        page[t] = "app" /\ shown[t] # NoAnswer =>
            \/ shown[t].token = token
            \/ t \in denied /\ token = NoToken

THEOREM OneTab ==
  ASSUME \A s, t \in Tabs : s = t
  PROVE  Spec => []OnlyTabActs
<1> DEFINE Alone == foreign = {}
<1>1. Init => Alone
  BY DEF Init
<1>2. Alone /\ [Next]_vars => Alone'
  <2> SUFFICES ASSUME Alone, [Next]_vars  PROVE Alone'
    OBVIOUS
  <2>1. \A t \in Tabs : Tabs \ {t} = {}
    OBVIOUS
  <2>2. ASSUME NEW t \in Tabs, Load(t) \/ Login(t) \/ Logout(t)
        PROVE  Alone'
    BY <2>1, <2>2 DEF Load, Login, Logout
  <2>3. ASSUME NEW t \in Tabs, NEW k \in Kinds,
               AnswerFromBrowser(t, k) \/ AnswerFromServer(t, k) \/ Fail(t, k)
        PROVE  Alone'
    BY <2>3, Zenon DEF AnswerFromBrowser, AnswerFromServer, Fail, historyVars
  <2>4. ASSUME NEW t \in Tabs, NEW k \in Loads, ShowLoaded(t, k) \/ LoadFails(t, k)
        PROVE  Alone'
    BY <2>1, <2>4 DEF ShowLoaded, LoadFails, historyVars
  <2>8. ASSUME NEW t \in Tabs, ShowLoggedIn(t) \/ LoginFails(t)
        PROVE  Alone'
    BY <2>8 DEF ShowLoggedIn, LoginFails, historyVars
  <2>5. ASSUME NEW u \in Users, AskElsewhere(u) \/ Invalidate(u)
        PROVE  Alone'
    BY <2>5 DEF AskElsewhere, Invalidate, historyVars
  <2>6. CASE Tick
    BY <2>6 DEF Tick
  <2>7. CASE UNCHANGED vars
    BY <2>7 DEF vars, historyVars
  <2> QED
    BY <2>2, <2>3, <2>4, <2>5, <2>6, <2>7, <2>8 DEF Next
<1>3. Alone /\ ActsForShown => OnlyTabActs
  BY DEF ActsForShown, OnlyTabActs
<1> QED
  BY <1>1, <1>2, <1>3, TabsActForShown, PTL DEF Spec
=============================================================================
