------------------------------- MODULE Session -------------------------------
(***************************************************************************)
(* Who is signed in, as the tabs of one browser have it                    *)
(* (frontend/src/context/AuthContext.jsx).  They share the token, which is *)
(* in localStorage, and the browser's cache; each keeps the user it shows. *)
(* A tab learns that user from GET /auth/me, when it loads and after a     *)
(* login.  The page is rendered in React's StrictMode (frontend/src/       *)
(* main.jsx) and served by the dev server (docker/frontend.Dockerfile), so *)
(* that the effect of a load runs twice: two requests with the same token, *)
(* whose answers may differ and come in any order.                         *)
(*                                                                         *)
(* The route is cached in Redis for 60 seconds under a key of the user     *)
(* (app/api/routers/auth.py, app/services/cache_service.py), and the       *)
(* answer lets the browser answer the same URL itself meanwhile, whatever  *)
(* token the request carries.                                              *)
(*                                                                         *)
(* Requests go out with the token that is in localStorage then: whom a tab *)
(* shows and whom it acts for are two things.  Time passes in intervals.   *)
(***************************************************************************)
EXTENDS Naturals

CONSTANTS
    Users,
    Tabs,
    Loads,       \* the requests of a load: two in StrictMode, else one
    Expire,      \* the expire=60 of the route, in intervals
    MaxLogins,   \* bound: logins over all
    Nobody       \* no token, or no user

ASSUME UsersAssumption == Nobody \notin Users
ASSUME LoadsAssumption == Loads # {} /\ "login" \notin Loads
ASSUME ExpireAssumption == Expire \in Nat \ {0} /\ MaxLogins \in Nat

VARIABLES
    token,       \* the token in localStorage; every login gets another
    page,        \* t -> the page of tab t: the login page, or another
    shown,       \* t -> the answer its user state came from
    asked,       \* t -> kind -> its request for /auth/me, if one is under way
    redis,       \* key -> the cached answer, and the intervals it has left
    copy,        \* the browser's copy of the last answer, the same way
    logins,      \* the logins so far
    told,        \* history: u -> intervals, at most Expire, since the server
                 \* last answered this browser that it is u
    foreign,     \* history: the tabs that another tab has written the token
                 \* under since they last sent a request
    crossed,     \* history: the tabs that logged in with a request of their
                 \* load still under way
    denied       \* history: the tabs one request of whose load failed after
                 \* another had been answered, until they load or log in

tabVars == <<page, shown, asked>>
cacheVars == <<redis, copy>>
historyVars == <<told, foreign, crossed, denied>>
vars == <<token, tabVars, cacheVars, logins, historyVars>>

Kinds == Loads \cup {"login"}
Tokens == [user : Users, serial : 1..MaxLogins]
NoToken == [user |-> Nobody, serial |-> 0]

\* An answer: to which token, who it says it is, whether the browser gave it,
\* and how long ago the server had last said so.
Answers == [token : Tokens, user : Users, lent : BOOLEAN, age : 0..Expire]
NoAnswer == [token |-> NoToken, user |-> Nobody, lent |-> FALSE, age |-> 0]

Requests == [at : {"none", "sent", "answered", "failed"},
             token : Tokens \cup {NoToken}, answer : Answers \cup {NoAnswer}]
NoRequest == [at |-> "none", token |-> NoToken, answer |-> NoAnswer]
Sent(t) == [at |-> "sent", token |-> t, answer |-> NoAnswer]

Entries == [user : Users \cup {Nobody}, ttl : 0..Expire]
NoEntry == [user |-> Nobody, ttl |-> 0]

TypeOK ==
    /\ token \in Tokens \cup {NoToken}
    /\ page \in [Tabs -> {"login", "app"}]
    /\ shown \in [Tabs -> Answers \cup {NoAnswer}]
    /\ asked \in [Tabs -> [Kinds -> Requests]]
    /\ redis \in [Users -> Entries]
    /\ copy \in Entries
    /\ logins \in 0..MaxLogins
    /\ told \in [Users -> 0..Expire]
    /\ foreign \subseteq Tabs
    /\ crossed \subseteq Tabs
    /\ denied \subseteq Tabs

Init ==
    /\ token = NoToken
    /\ page = [t \in Tabs |-> "login"]
    /\ shown = [t \in Tabs |-> NoAnswer]
    /\ asked = [t \in Tabs |-> [k \in Kinds |-> NoRequest]]
    /\ redis = [u \in Users |-> NoEntry]
    /\ copy = NoEntry
    /\ logins = 0
    /\ told = [u \in Users |-> Expire]
    /\ foreign = {}
    /\ crossed = {}
    /\ denied = {}

\* Mutant: one key for all users.
CacheKeyOfRoute(u) == CHOOSE v \in Users : TRUE

\* auth_me_key_builder: the md5 of what names the route and the user's id.
CacheKey(u) == u

-----------------------------------------------------------------------------
(* A tab.                                                                  *)

Waits(t, k) == asked[t][k].at # "none"

\* The page is loaded, or loaded again: without a token nothing is asked, and
\* ProtectedRoute sends every page but the login page there.  With one, each
\* run of the effect asks.
Load(t) ==
    /\ \E p \in {"login", "app"} :
           page' = [page EXCEPT ![t] = IF token = NoToken THEN "login" ELSE p]
    /\ shown' = [shown EXCEPT ![t] = NoAnswer]
    /\ asked' = [asked EXCEPT ![t] =
           [k \in Kinds |-> IF k \in Loads /\ token # NoToken THEN Sent(token) ELSE NoRequest]]
    /\ foreign' = foreign \ {t}
    /\ crossed' = crossed \ {t}
    /\ denied' = denied \ {t}
    /\ UNCHANGED <<token, cacheVars, logins, told>>

\* The server lets u in: the token is stored, and /auth/me asked with it.
Login(t) ==
    /\ page[t] = "login"
    /\ ~Waits(t, "login")
    /\ logins < MaxLogins
    /\ logins' = logins + 1
    /\ \E u \in Users : token' = [user |-> u, serial |-> logins']
    /\ asked' = [asked EXCEPT ![t]["login"] = Sent(token')]
    /\ foreign' = Tabs \ {t}
    /\ crossed' = IF \E k \in Loads : Waits(t, k) THEN crossed \cup {t} ELSE crossed \ {t}
    /\ denied' = denied \ {t}
    /\ UNCHANGED <<page, shown, cacheVars, told>>

\* Mutant: the user stays, and so does the page.
LogoutTokenOnly(t) ==
    /\ page[t] = "app"
    /\ shown[t] # NoAnswer
    /\ token' = NoToken
    /\ foreign' = foreign \cup (Tabs \ {t})
    /\ UNCHANGED <<tabVars, cacheVars, logins, told, crossed, denied>>

Logout(t) ==
    /\ page[t] = "app"
    /\ shown[t] # NoAnswer
    /\ token' = NoToken
    /\ shown' = [shown EXCEPT ![t] = NoAnswer]
    /\ page' = [page EXCEPT ![t] = "login"]
    /\ foreign' = foreign \cup (Tabs \ {t})
    /\ UNCHANGED <<asked, cacheVars, logins, told, crossed, denied>>

-----------------------------------------------------------------------------
(* GET /auth/me.                                                           *)

Answered(t, k, u, lent, age) ==
    asked' = [asked EXCEPT ![t][k].at = "answered",
                           ![t][k].answer = [token |-> asked[t][k].token, user |-> u,
                                             lent |-> lent, age |-> age]]

\* The browser has an answer it may use, and does not ask.
AnswerFromBrowser(t, k) ==
    /\ asked[t][k].at = "sent"
    /\ copy.ttl > 0
    /\ Answered(t, k, copy.user, TRUE, told[copy.user])
    /\ UNCHANGED <<token, page, shown, cacheVars, logins, historyVars>>

\* The server has the answer in Redis, or stores it there; its max-age is
\* what the entry has left.  (All answers about a user name the same user, so
\* that it does not matter when they are stored.)
AnswerFromServer(t, k) ==
    LET user == asked[t][k].token.user
        kept == redis[CacheKey(user)]
        entry == IF kept.ttl > 0 THEN kept ELSE [user |-> user, ttl |-> Expire]
    IN
    /\ asked[t][k].at = "sent"
    /\ copy.ttl = 0
    /\ redis' = [redis EXCEPT ![CacheKey(user)] = entry]
    /\ copy' = entry
    /\ told' = [told EXCEPT ![entry.user] = 0]
    /\ Answered(t, k, entry.user, FALSE, 0)
    /\ UNCHANGED <<token, page, shown, logins, foreign, crossed, denied>>

\* The token has expired, or the request is not answered.
Fail(t, k) ==
    /\ asked[t][k].at = "sent"
    /\ asked' = [asked EXCEPT ![t][k].at = "failed"]
    /\ UNCHANGED <<token, page, shown, cacheVars, logins, historyVars>>

\* The load of the tab is still `loading`: none of its requests is over.
Loading(t) == \A k \in Loads : Waits(t, k)

\* The answers reach the tab, each when it does; the last one is shown.
ShowLoaded(t, k) ==
    /\ asked[t][k].at = "answered"
    /\ shown' = [shown EXCEPT ![t] = asked[t][k].answer]
    /\ asked' = [asked EXCEPT ![t][k] = NoRequest]
    /\ UNCHANGED <<token, page, cacheVars, logins, historyVars>>

\* Mutant: the token is left, and so is the page that the load has shown.
LoadFailsTokenKept(t, k) ==
    /\ asked[t][k].at = "failed"
    /\ asked' = [asked EXCEPT ![t][k] = NoRequest]
    /\ UNCHANGED <<token, page, shown, cacheVars, logins, historyVars>>

\* Without an answer the load takes the token away, whichever is there now; a
\* page that shows no user goes to the login page, one that does stays.  (An
\* answer rendered along with the failure is one that was shown before it.)
LoadFails(t, k) ==
    /\ asked[t][k].at = "failed"
    /\ token' = NoToken
    /\ page' = [page EXCEPT ![t] = IF shown[t] = NoAnswer THEN "login" ELSE @]
    /\ asked' = [asked EXCEPT ![t][k] = NoRequest]
    /\ foreign' = foreign \cup (Tabs \ {t})
    /\ denied' = IF shown[t] = NoAnswer THEN denied ELSE denied \cup {t}
    /\ UNCHANGED <<shown, cacheVars, logins, told, crossed>>

ShowLoggedIn(t) ==
    /\ asked[t]["login"].at = "answered"
    /\ shown' = [shown EXCEPT ![t] = asked[t]["login"].answer]
    /\ page' = [page EXCEPT ![t] = "app"]
    /\ asked' = [asked EXCEPT ![t]["login"] = NoRequest]
    /\ UNCHANGED <<token, cacheVars, logins, historyVars>>

\* The form shows the error; the token stays where it is.
LoginFails(t) ==
    /\ asked[t]["login"].at = "failed"
    /\ asked' = [asked EXCEPT ![t]["login"] = NoRequest]
    /\ UNCHANGED <<token, page, shown, cacheVars, logins, historyVars>>

-----------------------------------------------------------------------------
(* The rest of the service, and time.                                      *)

\* u is signed in in another browser too, and asks there.
AskElsewhere(u) ==
    /\ redis[CacheKey(u)].ttl = 0
    /\ redis' = [redis EXCEPT ![CacheKey(u)] = [user |-> u, ttl |-> Expire]]
    /\ UNCHANGED <<token, tabVars, copy, logins, historyVars>>

\* invalidate_auth_user, after a change of u's role.
Invalidate(u) ==
    /\ redis[CacheKey(u)] # NoEntry
    /\ redis' = [redis EXCEPT ![CacheKey(u)] = NoEntry]
    /\ UNCHANGED <<token, tabVars, copy, logins, historyVars>>

Older(entry) == IF entry.ttl <= 1 THEN NoEntry ELSE [entry EXCEPT !.ttl = @ - 1]

Tick ==
    /\ redis' = [u \in Users |-> Older(redis[u])]
    /\ copy' = Older(copy)
    /\ told' = [u \in Users |-> IF told[u] = Expire THEN Expire ELSE told[u] + 1]
    /\ UNCHANGED <<token, tabVars, logins, foreign, crossed, denied>>

Next ==
    \/ \E t \in Tabs :
        \/ Load(t)
        \/ Login(t)
        \/ Logout(t)
        \/ \E k \in Kinds : AnswerFromBrowser(t, k) \/ AnswerFromServer(t, k) \/ Fail(t, k)
        \/ \E k \in Loads : ShowLoaded(t, k) \/ LoadFails(t, k)
        \/ ShowLoggedIn(t)
        \/ LoginFails(t)
    \/ \E u \in Users : AskElsewhere(u) \/ Invalidate(u)
    \/ Tick

Spec == Init /\ [][Next]_vars
-----------------------------------------------------------------------------
\* A tab shows the owner of the token it asked with; or, for an answer the
\* browser gave, a user the server had named to this browser less than the
\* expiry of the route ago.  No other order of logins, answers and expiries
\* shows someone else.
OwnerOrRecent ==
    \A t \in Tabs : shown[t] # NoAnswer /\ shown[t].user # shown[t].token.user =>
        shown[t].lent /\ shown[t].age < Expire

\* A tab acts for the user it shows: the token is the one it asked with,
\* unless another tab has written the token since it last asked, or it logged
\* in with a request of its load under way, whose answer may come later than
\* the login's (AuthContext.jsx:14-16 and 20-26).  Where the doubled load was
\* answered and then refused it acts for nobody, but never for somebody else.
ActsForShown ==
    \A t \in Tabs \ (foreign \cup crossed) :
        page[t] = "app" /\ shown[t] # NoAnswer =>
            \/ shown[t].token = token
            \/ t \in denied /\ token = NoToken

\* A tab is never stuck on a page other than the login page with no user and
\* nothing asked.
NoBlankPage ==
    \A t \in Tabs :
        page[t] = "app" /\ shown[t] = NoAnswer => Loading(t)

-----------------------------------------------------------------------------
(* The inductive invariant.                                                *)

\* What Redis has under a user's key names that user, and what the browser
\* keeps the server has said less than the expiry ago.
CachesRight ==
    /\ \A u \in Users : redis[u].ttl > 0 => redis[u].user = u
    /\ copy.ttl > 0 => copy.user \in Users /\ told[copy.user] + copy.ttl <= Expire

NamesOwner(answer) ==
    answer.user # answer.token.user => answer.lent /\ answer.age < Expire

RequestsRight ==
    \A t \in Tabs, k \in Kinds :
        /\ asked[t][k].at # "none" => asked[t][k].token \in Tokens
        /\ asked[t][k].at = "answered" =>
               /\ asked[t][k].answer \in Answers
               /\ asked[t][k].answer.token = asked[t][k].token
               /\ NamesOwner(asked[t][k].answer)

\* A login is asked about on the login page, and along with a load only by a
\* tab that crossed them.
OneAtATime ==
    \A t \in Tabs :
        /\ Waits(t, "login") => page[t] = "login"
        /\ t \notin crossed /\ Waits(t, "login") => \A k \in Loads : ~Waits(t, k)

\* A request that may still change whom a page shows was sent with the token
\* there is; a tab that was denied has none.
AsksWithToken ==
    \A t \in Tabs \ (foreign \cup crossed) :
        /\ Waits(t, "login") => asked[t]["login"].token = token
        /\ t \notin denied /\ page[t] = "app" =>
               \A k \in Loads : Waits(t, k) => asked[t][k].token = token
        /\ t \in denied => token = NoToken

IInv ==
    /\ TypeOK
    /\ CachesRight
    /\ RequestsRight
    /\ OneAtATime
    /\ AsksWithToken
    /\ OwnerOrRecent
    /\ ActsForShown
    /\ NoBlankPage
=============================================================================
