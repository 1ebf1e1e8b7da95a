----------------------------- MODULE RolesProofs -----------------------------
(***************************************************************************)
(* Proofs about Roles, for any users, any number of requests and any of    *)
(* the faults.                                                             *)
(***************************************************************************)
EXTENDS Roles, FiniteSetTheorems, TLAPS

USE DEF Actor, Target

LEMMA NobodyElse == Nobody \notin Users /\ IsFiniteSet(Users)
  BY UsersAssumption

LEMMA Roles3 == /\ "clean" \notin UserRoles /\ "none" \notin UserRoles /\ "absent" \notin UserRoles
                /\ "admin" \in UserRoles /\ "auditor" \in UserRoles /\ "reviewer" \in UserRoles
  BY DEF UserRoles

LEMMA SeedRoleType == ASSUME NEW u \in Seeded  PROVE SeedRole(u) \in UserRoles
  BY DEF SeedRole, Seeded, UserRoles

LEMMA NoCallType == NoCall \in Calls /\ NothingWritten \in [Users -> UserRoles \cup {"clean"}]
  BY DEF NoCall, Calls, NothingWritten

LEMMA InitIInv == Init => IInv
<1> SUFFICES ASSUME Init  PROVE IInv
  OBVIOUS
<1>1. TypeOK
  BY SeedRoleType, NoCallType DEF Init, TypeOK, Users, Places
<1>2. CallsRight /\ ReadsHold
  BY DEF Init, CallsRight, ReadsHold, Changing
<1>3. LocksRight
  BY DEF Init, LocksRight, Holds, NothingWritten
<1>4. StoresRight
  BY SeedRoleType, Roles3 DEF Init, StoresRight, Unhooked, Holds, NothingWritten
<1>5. AdminLeft
  <2>1. PICK u \in Admins : TRUE
    BY UsersAssumption
  <2>2. u \in Users /\ u \in Seeded /\ SeedRole(u) = "admin"
    BY UsersAssumption DEF Users, Seeded, SeedRole
  <2> QED
    BY <2>2 DEF Init, AdminLeft
<1> QED
  BY <1>1, <1>2, <1>3, <1>4, <1>5 DEF IInv

-----------------------------------------------------------------------------
(* The session of one request.                                             *)

\* A session that is closed without a commit holds nothing any more.
LEMMA EndsIInv ==
  ASSUME IInv, NEW r \in Requests, Ends(r),
         UNCHANGED <<row, registering, overlapped>>,
         drifted \subseteq drifted', drifted' \subseteq Users,
         casbin' \in [Users -> UserRoles \cup {"none"}],
         \A u \in Users : casbin'[u] = casbin[u] \/ (u \in drifted' /\ row[u] # "absent"),
         at[r] = "assigned" => Target(r) \in drifted'
  PROVE  IInv'
<1>1. /\ at' = [at EXCEPT ![r] = "idle"] /\ call' = [call EXCEPT ![r] = NoCall]
      /\ unsent' = [unsent EXCEPT ![r] = "clean"] /\ wrote' = [wrote EXCEPT ![r] = NothingWritten]
  BY DEF Ends
<1>2. TypeOK'
  BY <1>1, NoCallType DEF IInv, TypeOK, Places
<1>3. /\ at'[r] = "idle" /\ \A u \in Users : ~Holds(r, u)'
      /\ \A s \in Requests \ {r} : at'[s] = at[s] /\ call'[s] = call[s]
                                   /\ unsent'[s] = unsent[s] /\ wrote'[s] = wrote[s]
  BY <1>1 DEF IInv, TypeOK, Holds, NothingWritten
<1>4. CallsRight'
  BY <1>3 DEF IInv, CallsRight, Changing
<1>5. LocksRight'
  BY <1>3 DEF IInv, LocksRight, Holds, Free, Sent, PastFlush
<1>6. StoresRight'
  <2>1. \A s \in Requests, u \in Users : Holds(s, u)' => s # r /\ Holds(s, u)
    BY <1>3 DEF Holds
  <2>2. \A u \in Users : Locked(u) => Locked(u)' \/ Holds(r, u)
    BY <1>3 DEF Locked, Holds
  <2>3. \A u \in Users \ drifted' : /\ u \notin drifted /\ casbin'[u] = casbin[u]
                                  /\ ~(Target(r) = u /\ at[r] = "assigned")
                                  /\ Unhooked(u)' <=> Unhooked(u)
    BY DEF Unhooked
  <2> QED
    BY <1>3, <2>1, <2>2, <2>3 DEF IInv, StoresRight
<1>7. ReadsHold'
  BY <1>3 DEF IInv, ReadsHold, Changing, Demotes
<1>8. AdminLeft'
  BY DEF IInv, AdminLeft
<1> QED
  BY <1>2, <1>4, <1>5, <1>6, <1>7, <1>8 DEF IInv

\* A step of r that writes nothing.
LEMMA QuietIInv ==
  ASSUME IInv, NEW r \in Requests, NEW to \in Places \ {"idle", "flushed", "assigned"},
         at[r] \notin {"working", "flushed", "assigned"}, to = "working" => at[r] = "idle",
         at' = [at EXCEPT ![r] = to],
         UNCHANGED <<storeVars, registering, wrote, historyVars>>,
         call' \in [Requests -> Calls],
         unsent' \in [Requests -> UserRoles \cup {"clean"}],
         \A s \in Requests \ {r} : call'[s] = call[s] /\ unsent'[s] = unsent[s],
         at[r] # "idle" => Actor(r)' = Actor(r) /\ Target(r)' = Target(r)
                           /\ call'[r].new = call[r].new /\ unsent'[r] = unsent[r],
         CallsRight', ReadsHold'
  PROVE  IInv'
<1> USE DEF storeVars, historyVars
<1>1. TypeOK'
  BY DEF IInv, TypeOK
<1>2. \A s \in Requests \ {r} : at'[s] = at[s]
  BY DEF IInv, TypeOK
<1>3. at'[r] = to /\ (at[r] = "idle" => \A u \in Users : ~Holds(r, u))
  BY DEF IInv, TypeOK, LocksRight
<1>4. LocksRight'
  <2>1. \A u \in Users : Holds(r, u) => u = Actor(r) /\ wrote[r][u] = "admin"
    BY DEF IInv, LocksRight, PastFlush
  <2> QED
    BY <1>2, <1>3, <2>1 DEF IInv, LocksRight, Holds, Free, Sent, PastFlush
<1>5. StoresRight'
  <2>1. \A u \in Users, s \in Requests : /\ Holds(s, u)' <=> Holds(s, u)
                                         /\ Unhooked(u)' <=> Unhooked(u)
                                         /\ Locked(u)' <=> Locked(u)
    BY DEF Holds, Unhooked, Locked
  <2>2. \A u \in Users, s \in Requests : Holds(s, u) =>
            /\ Target(s) = u /\ at[s] = "flushed" <=> Target(s)' = u /\ at'[s] = "flushed"
            /\ Target(s) = u /\ at[s] = "assigned" <=> Target(s)' = u /\ at'[s] = "assigned"
    BY <1>2, <1>3
  <2> QED
    BY <2>1, <2>2 DEF IInv, StoresRight
<1>6. AdminLeft'
  BY DEF IInv, AdminLeft
<1> QED
  BY <1>1, <1>4, <1>5, <1>6 DEF IInv

LEMMA AuthenticateIInv ==
  ASSUME IInv, NEW r \in Requests, Authorize(r) \/ Begin(r)
  PROVE  IInv'
<1>1. PICK a \in Users, t \in Users \cup {Nobody}, n \in UserRoles \cup {"none"},
           to \in {"working", "authorized"} :
        /\ GoesTo(r, "idle", to)
        /\ casbin[a] \in UserRoles
        /\ to = "authorized" => casbin[a] = "admin" /\ t \in Users /\ n \in UserRoles
        /\ Authenticate(r, a, t, n)
  BY Roles3 DEF Authorize, Begin
<1>2. /\ at' = [at EXCEPT ![r] = to] /\ at[r] = "idle" /\ row[a] # "absent"
      /\ call' = [call EXCEPT ![r] = [actor |-> a, target |-> t, new |-> n, seen |-> "none"]]
      /\ unsent' = [unsent EXCEPT ![r] = IF casbin[a] = row[a] THEN "clean" ELSE casbin[a]]
      /\ UNCHANGED <<storeVars, registering, wrote, historyVars>>
  BY <1>1 DEF GoesTo, Authenticate
<1>3. /\ at'[r] = to /\ \A s \in Requests \ {r} : at'[s] = at[s]
      /\ call'[r] = [actor |-> a, target |-> t, new |-> n, seen |-> "none"]
      /\ unsent'[r] \in {"clean", casbin[a]}
      /\ call' \in [Requests -> Calls] /\ unsent' \in [Requests -> UserRoles \cup {"clean"}]
      /\ \A s \in Requests \ {r} : call'[s] = call[s] /\ unsent'[s] = unsent[s]
  BY <1>1, <1>2 DEF IInv, TypeOK, Calls
<1>4. CallsRight'
  BY <1>1, <1>2, <1>3 DEF IInv, CallsRight, Changing, storeVars
<1>5. ReadsHold'
  BY <1>1, <1>2, <1>3 DEF IInv, ReadsHold, Changing, Demotes, storeVars, historyVars
<1>6. to \in Places \ {"idle", "flushed", "assigned"}
  BY DEF Places
<1> QED
  BY <1>2, <1>3, <1>4, <1>5, <1>6, QuietIInv

LEMMA WriteBackIInv ==
  ASSUME IInv, NEW r \in Requests, WriteBack(r)
  PROVE  IInv'
<1> DEFINE a == Actor(r)
<1>1. /\ unsent[r] # "clean" /\ Free(r, a)
      /\ wrote' = [wrote EXCEPT ![r][a] = unsent[r]]
      /\ unsent' = [unsent EXCEPT ![r] = "clean"]
      /\ drifted' = IF casbin[a] = unsent[r] THEN drifted ELSE drifted \cup {a}
      /\ UNCHANGED <<row, casbin, registering, at, call, overlapped>>
  BY DEF WriteBack, Sent, storeVars
<1>2. /\ at[r] \in {"working", "authorized", "loaded", "guarded"}
      /\ a \in Users /\ row[a] # "absent"
      /\ at[r] # "working" => unsent[r] = "admin"
      /\ unsent[r] \in UserRoles
      /\ \A u \in Users : ~Holds(r, u)
  BY <1>1 DEF WriteBack, FlushPoint, IInv, TypeOK, CallsRight, LocksRight, Sent
<1>3. /\ wrote'[r][a] = unsent[r]
      /\ \A s \in Requests, u \in Users : s # r \/ u # a => wrote'[s][u] = wrote[s][u]
      /\ \A s \in Requests \ {r} : unsent'[s] = unsent[s]
      /\ unsent'[r] = "clean"
  BY <1>1, <1>2 DEF IInv, TypeOK
<1>4. TypeOK'
  BY <1>1, <1>2 DEF IInv, TypeOK
<1>5. CallsRight' /\ AdminLeft'
  BY <1>1, <1>3 DEF IInv, CallsRight, Changing, AdminLeft
<1>6. /\ Holds(r, a)' /\ \A u \in Users \ {a} : ~Holds(r, u)'
      /\ \A s \in Requests \ {r}, u \in Users : Holds(s, u)' <=> Holds(s, u)
      /\ \A s \in Requests \ {r} : ~Holds(s, a)
  BY <1>1, <1>2, <1>3, Roles3 DEF Holds, Free
<1>7. LocksRight'
  <2>1. ASSUME NEW s \in Requests \ {r}, NEW u \in Users, Holds(s, u)  PROVE u # a
    BY <1>6, <2>1
  <2> QED
    BY <1>1, <1>2, <1>3, <1>6, <2>1 DEF IInv, LocksRight, Free, Sent, PastFlush
<1>8. StoresRight'
  <2>1. ASSUME a \notin drifted'
        PROVE  ~Unhooked(a) /\ casbin[a] = row[a] /\ unsent[r] = row[a]
    <3>1. casbin[a] = unsent[r] /\ a \notin drifted
      BY <1>1, <2>1
    <3>2. ~Locked(a) /\ ~Unhooked(a)
      BY <1>2, <1>6, <3>1, Roles3 DEF Locked, Unhooked
    <3> QED
      BY <1>2, <3>1, <3>2 DEF IInv, StoresRight
  <2>2. \A u \in Users \ {a} : Locked(u)' <=> Locked(u)
    BY <1>2, <1>6 DEF Locked
  <2>3. \A u \in Users : (Unhooked(u)' <=> Unhooked(u)) /\ (u # a => (u \notin drifted' <=> u \notin drifted))
    BY <1>1 DEF Unhooked
  <2> QED
    BY <1>1, <1>2, <1>3, <1>6, <2>1, <2>2, <2>3 DEF IInv, StoresRight, Locked
<1>9. ReadsHold'
  BY <1>1 DEF IInv, ReadsHold, Changing, Demotes
<1> QED
  BY <1>4, <1>5, <1>7, <1>8, <1>9 DEF IInv

-----------------------------------------------------------------------------
(* toggle_role.                                                            *)

LEMMA LoadIInv ==
  ASSUME IInv, NEW r \in Requests, Load(r)
  PROVE  IInv'
<1>1. /\ at[r] = "authorized" /\ at' = [at EXCEPT ![r] = "loaded"]
      /\ row[Target(r)] # "absent"
      /\ call' = [call EXCEPT ![r].seen =
                     IF Target(r) = Actor(r) THEN "admin" ELSE row[Target(r)]]
      /\ UNCHANGED <<storeVars, registering, unsent, wrote, historyVars>>
  BY DEF Load, GoesTo
<1>2. Target(r) \in Users /\ row[Target(r)] \in UserRoles
  BY <1>1 DEF IInv, TypeOK, CallsRight
<1>3. /\ call' \in [Requests -> Calls]
      /\ \A s \in Requests \ {r} : call'[s] = call[s] /\ at'[s] = at[s]
      /\ at'[r] = "loaded"
      /\ call'[r].actor = call[r].actor /\ call'[r].target = call[r].target
      /\ call'[r].new = call[r].new
      /\ call'[r].seen = IF Target(r) = Actor(r) THEN "admin" ELSE row[Target(r)]
  <2>1. (IF Target(r) = Actor(r) THEN "admin" ELSE row[Target(r)]) \in UserRoles
    BY <1>2, Roles3
  <2>2. call[r] \in Calls /\ call \in [Requests -> Calls] /\ at \in [Requests -> Places]
    BY DEF IInv, TypeOK
  <2>3. call'[r] = [call[r] EXCEPT !.seen =
                        IF Target(r) = Actor(r) THEN "admin" ELSE row[Target(r)]]
    BY <1>1, <2>2
  <2>4. call'[r] \in Calls
    BY <2>1, <2>2, <2>3 DEF Calls
  <2> QED
    BY <1>1, <2>2, <2>3, <2>4 DEF Calls
<1>4. CallsRight'
  BY <1>1, <1>2, <1>3, Roles3 DEF IInv, CallsRight, Changing, storeVars
<1>5. ReadsHold'
  BY <1>1, <1>3 DEF IInv, ReadsHold, Changing, Demotes, storeVars, historyVars
<1>6. "loaded" \in Places \ {"idle", "flushed", "assigned"}
  BY DEF Places
<1> QED
  BY <1>1, <1>3, <1>4, <1>5, <1>6, QuietIInv DEF IInv, TypeOK

\* What r reads, while nothing has drifted, is what is committed, but for the
\* role it has flushed itself.
LEMMA ViewIsRow ==
  ASSUME IInv, drifted = {}, NEW r \in Requests, NEW u \in Users,
         ~(Target(r) = u /\ PastFlush(r))
  PROVE  View(r, u) = row[u]
<1>1. CASE Holds(r, u)
  BY <1>1 DEF View, IInv, LocksRight, StoresRight, PastFlush
<1>2. CASE ~Holds(r, u)
  BY <1>2 DEF View
<1> QED
  BY <1>1, <1>2

LEMMA GuardIInv ==
  ASSUME IInv, NEW r \in Requests, Guard(r)
  PROVE  IInv'
<1>1. /\ at[r] = "loaded" /\ at' = [at EXCEPT ![r] = "guarded"]
      /\ Demotes(r) => AdminCount(r) > 1
      /\ UNCHANGED <<storeVars, registering, call, unsent, wrote, historyVars>>
  BY DEF Guard, GoesTo
<1>2. at'[r] = "guarded" /\ \A s \in Requests \ {r} : at'[s] = at[s]
  BY <1>1 DEF IInv, TypeOK
<1>3. CallsRight'
  BY <1>1, <1>2 DEF IInv, CallsRight, Changing, storeVars
<1>4. ASSUME drifted = {}, Demotes(r)
      PROVE  \E u \in Users \ {Target(r)} : row[u] = "admin"
  <2> DEFINE S == {u \in Users : View(r, u) = "admin"}
  <2>1. PICK u \in S : u # Target(r)
    <3> SUFFICES ASSUME S \subseteq {Target(r)}  PROVE FALSE
      OBVIOUS
    <3>1. IsFiniteSet({Target(r)}) /\ Cardinality({Target(r)}) = 1
      BY FS_Singleton
    <3>2. IsFiniteSet(S) /\ Cardinality(S) <= 1
      BY <3>1, FS_Subset
    <3>3. Cardinality(S) \in Nat
      BY <3>2, FS_CardinalityType
    <3> QED
      BY <1>1, <1>4, <3>2, <3>3 DEF AdminCount
  <2>2. View(r, u) = row[u]
    BY <1>1, <1>4, ViewIsRow DEF PastFlush
  <2> QED
    BY <2>1, <2>2
<1>5. ReadsHold'
  BY <1>1, <1>2, <1>4 DEF IInv, ReadsHold, Changing, Demotes, storeVars, historyVars
<1>6. "guarded" \in Places \ {"idle", "flushed", "assigned"}
  BY DEF Places
<1> QED
  BY <1>1, <1>2, <1>3, <1>5, <1>6, QuietIInv DEF IInv, TypeOK

LEMMA FlushIInv ==
  ASSUME IInv, NEW r \in Requests, Flush(r)
  PROVE  IInv'
<1> DEFINE u == Target(r)
<1>1. /\ at[r] = "guarded" /\ at' = [at EXCEPT ![r] = "flushed"] /\ Sent(r)
      /\ UNCHANGED <<row, casbin, registering, call, unsent, drifted, overlapped>>
      /\ IF call[r].new = call[r].seen
         THEN wrote' = wrote
         ELSE Free(r, u) /\ wrote' = [wrote EXCEPT ![r][u] = call[r].new]
  BY DEF Flush, GoesTo, storeVars, historyVars
<1>2. /\ u \in Users /\ Actor(r) \in Users /\ call[r].new \in UserRoles /\ row[u] # "absent"
      /\ u = Actor(r) => call[r].seen = "admin"
  BY <1>1 DEF IInv, CallsRight, Changing
<1>3. TypeOK'
  <2>1. at' \in [Requests -> Places]
    BY <1>1 DEF IInv, TypeOK, Places
  <2>2. wrote' \in [Requests -> [Users -> UserRoles \cup {"clean"}]]
    <3>1. /\ wrote \in [Requests -> [Users -> UserRoles \cup {"clean"}]]
          /\ u \in Users /\ call[r].new \in UserRoles \cup {"clean"}
      BY <1>2 DEF IInv, TypeOK
    <3>2. wrote' = wrote \/ wrote' = [wrote EXCEPT ![r][u] = call[r].new]
      BY <1>1
    <3> HIDE DEF u
    <3> QED
      BY <3>1, <3>2
  <2> QED
    BY <1>1, <2>1, <2>2 DEF IInv, TypeOK
<1>4. /\ at'[r] = "flushed" /\ \A s \in Requests \ {r} : at'[s] = at[s]
      /\ \A s \in Requests, v \in Users : s # r \/ v # u => wrote'[s][v] = wrote[s][v]
      /\ wrote'[r][u] = IF call[r].new = call[r].seen THEN wrote[r][u] ELSE call[r].new
  BY <1>1, <1>2 DEF IInv, TypeOK
<1>5. CallsRight' /\ AdminLeft'
  BY <1>1, <1>4 DEF IInv, CallsRight, Changing, AdminLeft
<1>6. \A v \in Users : Holds(r, v) => v = Actor(r) /\ wrote[r][v] = "admin" /\ Free(r, v)
  BY <1>1 DEF IInv, LocksRight, PastFlush
<1>7. Holds(r, u)' => wrote'[r][u] = call[r].new /\ Free(r, u)
  BY <1>1, <1>2, <1>4, <1>6 DEF Holds
<1>8. \A s \in Requests, v \in Users : s # r \/ v # u => (Holds(s, v)' <=> Holds(s, v))
  BY <1>4 DEF Holds
<1>9. LocksRight'
  <2>1. ASSUME NEW v \in Users, Holds(r, v)'
        PROVE  /\ Free(r, v)'
               /\ IF u = v THEN wrote'[r][v] = call[r].new ELSE v = Actor(r) /\ wrote'[r][v] = "admin"
    <3>1. Free(r, v) /\ (u # v => Holds(r, v))
      BY <1>1, <1>6, <1>7, <1>8, <2>1
    <3>2. Free(r, v)'
      BY <1>1, <1>8, <3>1 DEF Free
    <3> QED
      BY <1>1, <1>4, <1>6, <1>7, <2>1, <3>1, <3>2
  <2>2. ASSUME NEW s \in Requests \ {r}, NEW v \in Users, Holds(s, v)'
        PROVE  Free(s, v)'
    <3>1. Holds(s, v) /\ Free(s, v)
      BY <1>8, <2>2 DEF IInv, LocksRight
    <3>2. ~(v = u /\ Holds(r, u)')
      BY <1>7, <2>2, <3>1 DEF Free
    <3>3. ASSUME NEW q \in Requests \ {s}  PROVE ~Holds(q, v)'
      BY <1>1, <1>8, <3>1, <3>2, <3>3 DEF Free
    <3> QED
      BY <3>3 DEF Free
  <2> QED
    BY <1>1, <1>2, <1>4, <1>8, <2>1, <2>2 DEF IInv, LocksRight, Sent, PastFlush
<1>10. StoresRight'
  <2>1. Holds(r, u) => Holds(r, u)'
    BY <1>1, <1>2, <1>4, Roles3 DEF Holds
  <2>2. \A v \in Users : (Unhooked(v)' <=> Unhooked(v)) /\ (Locked(v) => Locked(v)')
    BY <1>1, <1>8, <2>1 DEF Unhooked, Locked
  <2>3. ASSUME u \notin drifted, ~Unhooked(u)  PROVE Holds(r, u)' => casbin[u] = row[u]
    <3>1. CASE Locked(u)
      BY <1>1, <1>2, <1>7, <2>3, <3>1 DEF IInv, StoresRight, Locked, Free
    <3>2. CASE ~Locked(u)
      BY <1>2, <2>3, <3>2 DEF IInv, StoresRight
    <3> QED
      BY <3>1, <3>2
  <2> QED
    BY <1>1, <1>2, <1>4, <1>8, <2>1, <2>2, <2>3 DEF IInv, StoresRight
<1>11. ReadsHold'
  BY <1>1, <1>4 DEF IInv, ReadsHold, Changing, Demotes
<1> QED
  BY <1>3, <1>5, <1>9, <1>10, <1>11 DEF IInv

LEMMA AssignIInv ==
  ASSUME IInv, NEW r \in Requests, Assign(r)
  PROVE  IInv'
<1> DEFINE u == Target(r)
<1>1. /\ at[r] = "flushed" /\ at' = [at EXCEPT ![r] = "assigned"]
      /\ casbin' = [casbin EXCEPT ![u] = call[r].new]
      /\ drifted' = IF Holds(r, u) THEN drifted ELSE drifted \cup {u}
      /\ UNCHANGED <<row, registering, call, unsent, wrote, overlapped>>
  BY DEF Assign, GoesTo
<1>2. u \in Users /\ call[r].new \in UserRoles /\ row[u] # "absent"
  BY <1>1 DEF IInv, CallsRight, Changing
<1>3. TypeOK'
  BY <1>1, <1>2 DEF IInv, TypeOK, Places
<1>4. /\ at'[r] = "assigned" /\ \A s \in Requests \ {r} : at'[s] = at[s]
      /\ casbin'[u] = call[r].new /\ \A v \in Users \ {u} : casbin'[v] = casbin[v]
  BY <1>1, <1>2 DEF IInv, TypeOK
<1>5. CallsRight' /\ AdminLeft'
  BY <1>1, <1>4 DEF IInv, CallsRight, Changing, AdminLeft
<1>6. LocksRight'
  BY <1>1, <1>4 DEF IInv, LocksRight, Holds, Free, Sent, PastFlush
<1>7. StoresRight'
  <2>1. ASSUME u \notin drifted'
        PROVE  /\ Holds(r, u) /\ casbin'[u] = wrote[r][u] /\ ~Unhooked(u)'
               /\ \A s \in Requests \ {r} : ~Holds(s, u)
    <3>1. Holds(r, u)
      BY <1>1, <2>1
    <3> QED
      BY <1>1, <1>2, <1>4, <3>1, Roles3 DEF IInv, LocksRight, PastFlush, Free, Unhooked
  <2>2. \A v \in Users \ {u} : (Unhooked(v)' <=> Unhooked(v)) /\ (v \notin drifted' <=> v \notin drifted)
    BY <1>1, <1>4 DEF Unhooked
  <2>3. \A s \in Requests, v \in Users : (Holds(s, v)' <=> Holds(s, v)) /\ (Locked(v)' <=> Locked(v))
    BY <1>1 DEF Holds, Locked
  <2> QED
    BY <1>1, <1>2, <1>4, <2>1, <2>2, <2>3 DEF IInv, StoresRight, Locked
<1>8. ReadsHold'
  BY <1>1, <1>4 DEF IInv, ReadsHold, Changing, Demotes
<1> QED
  BY <1>3, <1>5, <1>6, <1>7, <1>8 DEF IInv

LEMMA FailIInv ==
  ASSUME IInv, NEW r \in Requests, NotFound(r) \/ LastAdmin(r) \/ Fail(r) \/ AssignFails(r)
  PROVE  IInv'
<1> DEFINE u == Target(r)
<1>1. /\ Ends(r) /\ UNCHANGED <<row, registering, overlapped>>
      /\ drifted' \in {drifted, drifted \cup {u}}
      /\ drifted' # drifted => PastFlush(r)
      /\ at[r] = "assigned" => u \in drifted'
      /\ casbin' = casbin \/ (at[r] = "flushed" /\ u \in drifted' /\ casbin' = [casbin EXCEPT ![u] = "none"])
  BY DEF NotFound, LastAdmin, Fail, AssignFails, storeVars, historyVars, PastFlush
<1>2. PastFlush(r) => u \in Users /\ row[u] # "absent"
  BY DEF IInv, CallsRight, PastFlush, Changing
<1> HIDE DEF u
<1>3. drifted \subseteq drifted' /\ drifted' \subseteq Users
  BY <1>1, <1>2 DEF IInv, TypeOK
<1>4. casbin' \in [Users -> UserRoles \cup {"none"}]
  BY <1>1 DEF IInv, TypeOK
<1>5. \A v \in Users : casbin'[v] = casbin[v] \/ (v \in drifted' /\ row[v] # "absent")
  BY <1>1, <1>2 DEF IInv, TypeOK, PastFlush
<1> QED
  BY <1>1, <1>3, <1>4, <1>5, EndsIInv DEF u

LEMMA CommitIInv ==
  ASSUME IInv, NEW r \in Requests, Commit(r)
  PROVE  IInv'
<1>1. /\ at[r] \in {"assigned", "working"}
      /\ row' = [u \in Users |-> View(r, u)]
      /\ overlapped' = (overlapped \/ (at[r] = "assigned" /\ \E s \in Requests \ {r} : Changing(s)))
      /\ at' = [at EXCEPT ![r] = "idle"] /\ call' = [call EXCEPT ![r] = NoCall]
      /\ unsent' = [unsent EXCEPT ![r] = "clean"] /\ wrote' = [wrote EXCEPT ![r] = NothingWritten]
      /\ UNCHANGED <<casbin, registering, drifted>>
  BY DEF Commit, Ends
<1>2. \A u \in Users : /\ row'[u] = IF Holds(r, u) THEN wrote[r][u] ELSE row[u]
                       /\ Holds(r, u) => row[u] # "absent" /\ wrote[r][u] \in UserRoles
                       /\ row'[u] = "absent" <=> row[u] = "absent"
  BY <1>1, Roles3 DEF View, IInv, TypeOK, LocksRight, Holds
<1>3. TypeOK'
  <2>1. row' \in [Users -> UserRoles \cup {"absent"}]
    BY <1>1, <1>2 DEF IInv, TypeOK, View
  <2>2. overlapped' \in BOOLEAN
    BY <1>1 DEF IInv, TypeOK
  <2> QED
    BY <1>1, <2>1, <2>2, NoCallType DEF IInv, TypeOK, Places
<1>4. /\ at'[r] = "idle" /\ \A u \in Users : ~Holds(r, u)'
      /\ \A s \in Requests \ {r} : /\ at'[s] = at[s] /\ call'[s] = call[s]
                                   /\ unsent'[s] = unsent[s] /\ wrote'[s] = wrote[s]
  BY <1>1 DEF IInv, TypeOK, Holds, NothingWritten
<1>5. CallsRight'
  BY <1>2, <1>4 DEF IInv, CallsRight, Changing
<1>6. \A s \in Requests, u \in Users : /\ Holds(s, u)' => s # r /\ Holds(s, u)
                                       /\ s # r => (Holds(s, u)' <=> Holds(s, u))
  BY <1>4 DEF Holds
<1>7. LocksRight'
  BY <1>2, <1>4, <1>6 DEF IInv, LocksRight, Free, Sent, PastFlush
<1>8. StoresRight'
  <2>1. \A u \in Users : (Unhooked(u)' <=> Unhooked(u)) /\ (Locked(u) => Locked(u)' \/ Holds(r, u))
    BY <1>1, <1>6 DEF Unhooked, Locked
  <2>2. ASSUME NEW u \in Users, Holds(r, u)
        PROVE  /\ \A s \in Requests : ~Holds(s, u)'
               /\ u \notin drifted => ~Unhooked(u) /\ casbin[u] = row'[u]
    <3>1. \A s \in Requests : ~Holds(s, u)'
      BY <1>6, <2>2 DEF IInv, LocksRight, Free
    <3>2. u \notin drifted => ~Unhooked(u) /\ casbin[u] = wrote[r][u]
      BY <1>1, <1>2, <2>2 DEF IInv, StoresRight
    <3> QED
      BY <1>2, <2>2, <3>1, <3>2
  <2> QED
    BY <1>1, <1>2, <1>4, <1>6, <2>1, <2>2 DEF IInv, StoresRight, Locked
<1>9. ASSUME drifted = {}, NEW u \in Users, ~(Target(r) = u /\ PastFlush(r))
      PROVE  row'[u] = row[u]
  BY <1>1, <1>9, ViewIsRow
<1>10. ReadsHold'
  <2> SUFFICES ASSUME ~overlapped', drifted' = {}, NEW s \in Requests, Changing(s)'
               PROVE  /\ Target(s)' # Actor(s)' => row'[Target(s)'] = call'[s].seen
                      /\ at'[s] # "loaded" /\ Demotes(s)' =>
                             \E u \in Users \ {Target(s)'} : row'[u] = "admin"
    BY DEF ReadsHold
  <2>1. s # r /\ at[s] = at'[s] /\ call[s] = call'[s] /\ Changing(s)
    BY <1>4 DEF Changing
  <2>2. ~overlapped /\ drifted = {} /\ at[r] = "working"
    BY <1>1, <2>1
  <2>3. \A u \in Users : row'[u] = row[u]
    BY <1>9, <2>2 DEF PastFlush
  <2>4. Target(s) \in Users
    BY <2>1 DEF IInv, CallsRight, Changing
  <2> QED
    BY <2>1, <2>2, <2>3, <2>4 DEF IInv, ReadsHold, Demotes
<1>11. AdminLeft'
  <2> SUFFICES ASSUME ~overlapped', drifted' = {}  PROVE \E u \in Users : row'[u] = "admin"
    BY DEF AdminLeft
  <2>1. ~overlapped /\ drifted = {}
    BY <1>1
  <2>2. PICK u \in Users : row[u] = "admin"
    BY <2>1 DEF IInv, AdminLeft
  <2>3. CASE ~(Target(r) = u /\ PastFlush(r))
    BY <1>9, <2>1, <2>2, <2>3
  <2>4. CASE Target(r) = u /\ PastFlush(r) /\ ~Holds(r, u)
    BY <1>2, <2>2, <2>4
  <2>5. CASE Target(r) = u /\ PastFlush(r) /\ Holds(r, u)
    <3>1. Changing(r) /\ wrote[r][u] = call[r].new
      BY <2>5 DEF IInv, LocksRight, PastFlush, Changing
    <3>2. call[r].seen = "admin"
      BY <2>1, <2>2, <2>5, <3>1 DEF IInv, ReadsHold, CallsRight
    <3>3. CASE call[r].new = "admin"
      BY <1>2, <2>5, <3>1, <3>3
    <3>4. CASE call[r].new # "admin"
      <4>1. PICK v \in Users \ {u} : row[v] = "admin"
        BY <2>1, <2>5, <3>1, <3>2, <3>4 DEF IInv, ReadsHold, Demotes, PastFlush
      <4> QED
        BY <1>9, <2>1, <2>5, <4>1
    <3> QED
      BY <3>3, <3>4
  <2> QED
    BY <2>3, <2>4, <2>5
<1> QED
  BY <1>3, <1>5, <1>7, <1>8, <1>10, <1>11 DEF IInv

-----------------------------------------------------------------------------
(* Registration and restart.                                               *)

LEMMA RegisterIInv ==
  ASSUME IInv, NEW u \in Newcomers, Register(u)
  PROVE  IInv'
<1>1. /\ u \in Users /\ row[u] = "absent"
      /\ row' = [row EXCEPT ![u] = "auditor"] /\ registering' = registering \cup {u}
      /\ UNCHANGED <<casbin, at, call, unsent, wrote, drifted, overlapped>>
  BY DEF Register, Users, sessionVars, historyVars
<1>2. row'[u] = "auditor" /\ \A v \in Users \ {u} : row'[v] = row[v]
  BY <1>1 DEF IInv, TypeOK
<1>3. TypeOK'
  BY <1>1, Roles3 DEF IInv, TypeOK
<1>4. CallsRight' /\ LocksRight'
  BY <1>1, <1>2 DEF IInv, CallsRight, Changing, LocksRight, Holds, Free, Sent, PastFlush
<1>5. StoresRight'
  <2>1. casbin[u] = "none" /\ Unhooked(u)' /\ \A r \in Requests : ~Holds(r, u)
    BY <1>1 DEF IInv, StoresRight, LocksRight, Unhooked
  <2>2. \A v \in Users \ {u} : Unhooked(v)' <=> Unhooked(v)
    BY <1>1 DEF Unhooked
  <2>3. \A r \in Requests, v \in Users : (Holds(r, v)' <=> Holds(r, v)) /\ (Locked(v)' <=> Locked(v))
    BY <1>1 DEF Holds, Locked
  <2>4. \A v \in Users \ {u} : /\ (v \in registering' <=> v \in registering)
                             /\ (v \in drifted' <=> v \in drifted)
    BY <1>1
  <2> DEFINE Right(v) ==
        /\ row[v] = "absent" => casbin[v] = "none" /\ v \notin registering
        /\ v \notin drifted /\ Unhooked(v) =>
               /\ row[v] = "auditor"
               /\ \A r \in Requests : Holds(r, v) => at[r] = "flushed" /\ Target(r) = v
        /\ v \notin drifted /\ row[v] # "absent" /\ ~Unhooked(v) =>
               /\ ~Locked(v) => casbin[v] = row[v]
               /\ \A r \in Requests : Holds(r, v) =>
                      IF Target(r) = v /\ at[r] = "assigned"
                      THEN casbin[v] = wrote[r][v]
                      ELSE /\ casbin[v] = row[v]
                           /\ (Target(r) = v /\ at[r] = "flushed") \/ wrote[r][v] = row[v]
  <2>5. Right(u)'
    BY <1>1, <1>2, <2>1, <2>3
  <2>6. ASSUME NEW v \in Users \ {u}  PROVE Right(v)'
    <3>1. Right(v)
      BY DEF IInv, StoresRight
    <3>2. row'[v] = row[v] /\ (Unhooked(v)' <=> Unhooked(v)) /\ (Locked(v)' <=> Locked(v))
      BY <1>1, <1>2 DEF Unhooked, Holds, Locked
    <3> QED
      BY <1>1, <2>3, <2>4, <3>1, <3>2
  <2> QED
    BY <1>1, <2>5, <2>6 DEF StoresRight
<1>6. ReadsHold'
  BY <1>1, <1>2 DEF IInv, CallsRight, ReadsHold, Changing, Demotes
<1>7. AdminLeft'
  BY <1>1, <1>2 DEF IInv, AdminLeft
<1> QED
  BY <1>3, <1>4, <1>5, <1>6, <1>7 DEF IInv

LEMMA AfterRegisterIInv ==
  ASSUME IInv, NEW u \in Newcomers, AfterRegister(u) \/ RegisterFails(u)
  PROVE  IInv'
<1>1. /\ u \in Users /\ u \in registering /\ registering' = registering \ {u}
      /\ UNCHANGED <<row, at, call, unsent, wrote, overlapped>>
      /\ drifted' \in {drifted, drifted \cup {u}}
      /\ casbin' \in {casbin, [casbin EXCEPT ![u] = "auditor"]}
  BY DEF AfterRegister, RegisterFails, Users, sessionVars, storeVars
<1>2. /\ \A v \in Users \ {u} : casbin'[v] = casbin[v]
      /\ u \notin drifted' => Untouched(u) /\ casbin'[u] = "auditor"
  BY <1>1 DEF AfterRegister, RegisterFails, IInv, TypeOK
<1>3. TypeOK'
  BY <1>1, Roles3 DEF IInv, TypeOK
<1>4. CallsRight' /\ LocksRight' /\ AdminLeft'
  BY <1>1 DEF IInv, CallsRight, Changing, LocksRight, Holds, Free, Sent, PastFlush, AdminLeft
<1>5. StoresRight'
  <2>1. row[u] # "absent" /\ ~Unhooked(u)'
    BY <1>1 DEF IInv, StoresRight, Unhooked
  <2>2. u \notin drifted' => casbin'[u] = row[u] /\ ~Locked(u)
    BY <1>1, <1>2 DEF Untouched, Unhooked, IInv, StoresRight
  <2>3. \A v \in Users \ {u} : (Unhooked(v)' <=> Unhooked(v)) /\ (v \in drifted' <=> v \in drifted)
    BY <1>1, <1>2 DEF Unhooked
  <2>4. \A r \in Requests, v \in Users : (Holds(r, v)' <=> Holds(r, v)) /\ (Locked(v)' <=> Locked(v))
    BY <1>1 DEF Holds, Locked
  <2> QED
    BY <1>1, <1>2, <2>1, <2>2, <2>3, <2>4 DEF IInv, StoresRight, Locked
<1>6. ReadsHold'
  BY <1>1 DEF IInv, ReadsHold, Changing, Demotes
<1> QED
  BY <1>3, <1>4, <1>5, <1>6 DEF IInv

LEMMA RebootIInv ==
  ASSUME IInv, NEW saved \in [Users -> UserRoles \cup {"none"}], NEW lost \in SUBSET Users,
         Reboot(saved, lost),
         \A r \in Requests : at[r] = "assigned" => Target(r) \in lost,
         \A u \in Users \ lost : saved[u] = casbin[u],
         \A u \in Users : row[u] = "absent" => saved[u] = "none"
  PROVE  IInv'
<1>1. /\ \A r \in Requests : at'[r] = "idle" /\ call'[r] = NoCall /\ unsent'[r] = "clean"
      /\ \A r \in Requests, u \in Users : ~Holds(r, u)'
      /\ drifted' = (drifted \cup lost \cup registering) \ Demo
      /\ registering' = {} /\ overlapped' = overlapped
  BY DEF Reboot, Holds, NothingWritten
<1>2. /\ Demo \subseteq Users /\ \A u \in Demo : SeedRole(u) \in UserRoles
      /\ \A u \in Demo : row'[u] = SeedRole(u) /\ casbin'[u] = SeedRole(u)
      /\ \A u \in Users \ Demo : row'[u] = row[u] /\ casbin'[u] = saved[u]
  BY UsersAssumption, SeedRoleType DEF Reboot, Users
<1>3. TypeOK'
  <2>1. row' \in [Users -> UserRoles \cup {"absent"}] /\ casbin' \in [Users -> UserRoles \cup {"none"}]
    BY <1>2 DEF Reboot, IInv, TypeOK
  <2>2. drifted' \subseteq Users
    BY <1>1 DEF IInv, TypeOK, Users
  <2> QED
    BY <1>1, <2>1, <2>2, NoCallType DEF Reboot, IInv, TypeOK, Places
<1>4. CallsRight' /\ LocksRight' /\ ReadsHold'
  BY <1>1 DEF CallsRight, Changing, LocksRight, ReadsHold
<1>5. StoresRight'
  <2>1. ASSUME NEW u \in Users \ Demo, u \notin drifted', row[u] # "absent"  PROVE casbin'[u] = row'[u]
    <3>1. u \notin drifted /\ u \notin lost /\ ~Unhooked(u)
      BY <1>1, <2>1 DEF Unhooked
    <3> QED
      BY <1>2, <2>1, <3>1 DEF IInv, StoresRight, Locked
  <2>2. \A u \in Users : ~Unhooked(u)'
    BY <1>1 DEF Unhooked
  <2> QED
    BY <1>1, <1>2, <2>1, <2>2, Roles3 DEF StoresRight
<1>6. AdminLeft'
  <2>1. CASE Demo = {}
    BY <1>1, <1>2, <2>1 DEF IInv, AdminLeft
  <2>2. CASE Demo # {}
    <3>1. PICK u \in Demo : u \in Admins
      BY <2>2, UsersAssumption
    <3>2. row'[u] = "admin" /\ u \in Users
      BY <1>2, <3>1, UsersAssumption DEF SeedRole
    <3> QED
      BY <3>2 DEF AdminLeft
  <2> QED
    BY <2>1, <2>2
<1> QED
  BY <1>3, <1>4, <1>5, <1>6 DEF IInv

LEMMA RestartIInv ==
  ASSUME IInv, Restart \/ \E r \in Requests : DiesAssigning(r)
  PROVE  IInv'
<1>1. /\ HalfDone \subseteq Users
      /\ \A r \in Requests : at[r] = "assigned" => Target(r) \in HalfDone
  BY DEF HalfDone, IInv, CallsRight
<1>2. CASE Restart
  <2>1. casbin \in [Users -> UserRoles \cup {"none"}] /\ HalfDone \in SUBSET Users
    BY <1>1 DEF IInv, TypeOK
  <2>2. \A u \in Users : row[u] = "absent" => casbin[u] = "none"
    BY DEF IInv, StoresRight
  <2> QED
    BY <1>1, <1>2, <2>1, <2>2, RebootIInv DEF Restart
<1>3. ASSUME NEW r \in Requests, DiesAssigning(r)  PROVE IInv'
  <2> DEFINE u == Target(r)
             saved == [casbin EXCEPT ![u] = "none"]
             lost == HalfDone \cup {u}
  <2>1. u \in Users /\ Reboot(saved, lost)
    BY <1>3 DEF DiesAssigning, IInv, CallsRight
  <2>2. saved \in [Users -> UserRoles \cup {"none"}] /\ lost \in SUBSET Users
    BY <1>1, <2>1 DEF IInv, TypeOK
  <2>3. \A v \in Users : /\ v \notin lost => saved[v] = casbin[v]
                         /\ row[v] = "absent" => saved[v] = "none"
    BY <2>1 DEF IInv, TypeOK, StoresRight
  <2>4. \A s \in Requests : at[s] = "assigned" => Target(s) \in lost
    BY <1>1
  <2> HIDE DEF saved, lost
  <2> QED
    BY <2>1, <2>2, <2>3, <2>4, RebootIInv
<1> QED
  BY <1>2, <1>3

LEMMA NextIInv == IInv /\ [Next]_vars => IInv'
<1> SUFFICES ASSUME IInv, [Next]_vars  PROVE IInv'
  OBVIOUS
<1>1. ASSUME NEW r \in Requests, Authorize(r) \/ Begin(r)  PROVE IInv'
  BY <1>1, AuthenticateIInv
<1>2. ASSUME NEW r \in Requests, WriteBack(r)  PROVE IInv'
  BY <1>2, WriteBackIInv
<1>3. ASSUME NEW r \in Requests, Load(r)  PROVE IInv'
  BY <1>3, LoadIInv
<1>4. ASSUME NEW r \in Requests, Guard(r)  PROVE IInv'
  BY <1>4, GuardIInv
<1>5. ASSUME NEW r \in Requests, Flush(r)  PROVE IInv'
  BY <1>5, FlushIInv
<1>6. ASSUME NEW r \in Requests, Assign(r)  PROVE IInv'
  BY <1>6, AssignIInv
<1>7. ASSUME NEW r \in Requests, Commit(r)  PROVE IInv'
  BY <1>7, CommitIInv
<1>8. ASSUME NEW r \in Requests, NotFound(r) \/ LastAdmin(r) \/ Fail(r) \/ AssignFails(r)
      PROVE  IInv'
  BY <1>8, FailIInv
<1>9. ASSUME NEW u \in Newcomers, Register(u)  PROVE IInv'
  BY <1>9, RegisterIInv
<1>10. ASSUME NEW u \in Newcomers, AfterRegister(u) \/ RegisterFails(u)  PROVE IInv'
  BY <1>10, AfterRegisterIInv
<1>11. CASE Restart \/ \E r \in Requests : DiesAssigning(r)
  BY <1>11, RestartIInv
<1>12. CASE UNCHANGED vars
  <2> USE <1>12 DEF vars, storeVars, sessionVars, historyVars
  <2>1. TypeOK' /\ CallsRight' /\ AdminLeft'
    BY DEF IInv, TypeOK, CallsRight, Changing, AdminLeft
  <2>2. LocksRight'
    BY DEF IInv, LocksRight, Holds, Free, Sent, PastFlush
  <2>3. StoresRight'
    BY DEF IInv, StoresRight, Unhooked, Holds, Locked
  <2>4. ReadsHold'
    BY DEF IInv, ReadsHold, Changing, Demotes
  <2> QED
    BY <2>1, <2>2, <2>3, <2>4 DEF IInv
<1> QED
  BY <1>1, <1>2, <1>3, <1>4, <1>5, <1>6, <1>7, <1>8, <1>9, <1>10, <1>11, <1>12 DEF Next

-----------------------------------------------------------------------------
\* The inductive invariant holds of every reachable state.
THEOREM Invariance == Spec => []IInv
  BY InitIInv, NextIInv, PTL DEF Spec

\* The variables keep their types.
THEOREM TypeCorrect == Spec => []TypeOK
<1>1. IInv => TypeOK
  BY DEF IInv
<1> QED
  BY Invariance, <1>1, PTL

\* users.role and Casbin agree on every user whose role was always changed
\* under the lock of its row (user_service.py, role_service.py, deps/auth.py).
THEOREM StoresAgree == Spec => []RolesAgree
<1>1. IInv => RolesAgree
  BY DEF IInv, StoresRight, Unhooked, RolesAgree
<1> QED
  BY Invariance, <1>1, PTL

\* An administrator is left while no two changes of roles overlap and the
\* stores agree (toggle_role in user_service.py).
THEOREM AdminIsLeft == Spec => []AdminLeft
<1>1. IInv => AdminLeft
  BY DEF IInv
<1> QED
  BY Invariance, <1>1, PTL

-----------------------------------------------------------------------------
(* One request at a time, and no failure.                                  *)

\* All that Casbin has of u is what its registration leaves there.
Registered(u) == u \in Newcomers /\ casbin[u] \in {"none", "auditor"}

\* A change of a role as it goes, when nothing else does: what it has read is
\* so, what it writes is the role asked for, and Casbin has it when assigned.
ChangeGoes(r) ==
    /\ Sent(r)
    /\ \A u \in Users : Holds(r, u) =>
           Target(r) = u /\ PastFlush(r) /\ wrote[r][u] = call[r].new
    /\ at[r] = "authorized" => row[Actor(r)] = "admin"
    /\ Changing(r) => call[r].seen = row[Target(r)]
    /\ PastFlush(r) => Holds(r, Target(r)) \/ call[r].new = row[Target(r)]
    /\ at[r] \in {"guarded", "flushed", "assigned"} /\ Demotes(r) =>
           \E u \in Users \ {Target(r)} : row[u] = "admin"
    /\ \A u \in Users :
           \/ casbin[u] = IF at[r] = "assigned" /\ u = Target(r) THEN call[r].new ELSE row[u]
           \/ Registered(u)

\* The only request there is goes that way, and the stores are as it leaves
\* them: an administrator is left.
OneGoes(r) ==
    /\ ChangeGoes(r)
    /\ LastAdminKept

LEMMA InitGoes ==
  ASSUME NEW r \in Requests, Init
  PROVE  OneGoes(r)
<1>1. /\ Sent(r) /\ ~Changing(r) /\ ~PastFlush(r) /\ \A u \in Users : ~Holds(r, u)
      /\ at[r] = "idle"
  BY DEF Init, Sent, Changing, PastFlush, Holds, NothingWritten
<1>2. \A u \in Users : casbin[u] = row[u] \/ Registered(u)
  BY DEF Init, Users, Registered
<1>3. LastAdminKept
  <2>1. PICK u \in Admins : TRUE
    BY UsersAssumption
  <2> QED
    BY <2>1, UsersAssumption DEF Init, LastAdminKept, Users, Seeded, SeedRole
<1> QED
  BY <1>1, <1>2, <1>3 DEF OneGoes, ChangeGoes

\* A request that begins attaches nothing to its actor: the stores agree.
LEMMA BeginGoes ==
  ASSUME IInv, NEW r \in Requests, OneGoes(r), Authorize(r) \/ Begin(r)
  PROVE  OneGoes(r)'
<1>1. PICK a \in Users, t \in Users \cup {Nobody}, n \in UserRoles \cup {"none"} :
          /\ at[r] = "idle" /\ at' = [at EXCEPT ![r] = at'[r]]
          /\ at'[r] \in {"authorized", "working"}
          /\ at'[r] = "authorized" => casbin[a] = "admin"
          /\ casbin[a] \in {"admin", "reviewer"}
          /\ Authenticate(r, a, t, n)
  BY DEF IInv, TypeOK, Authorize, Begin, GoesTo
<1>2. casbin[a] = row[a]
  BY <1>1 DEF OneGoes, ChangeGoes, Registered
<1>3. /\ unsent'[r] = "clean" /\ call'[r].actor = a /\ UNCHANGED <<row, casbin, wrote>>
  BY <1>1, <1>2 DEF Authenticate, IInv, TypeOK, storeVars
<1>4. \A u \in Users : ~Holds(r, u) /\ ~Holds(r, u)'
  BY <1>1, <1>3 DEF OneGoes, ChangeGoes, PastFlush, Holds
<1>5. ~Changing(r)' /\ ~PastFlush(r)' /\ Sent(r)' /\ at'[r] # "assigned"
  BY <1>1, <1>3 DEF Changing, PastFlush, Sent
<1>6. \A u \in Users : casbin'[u] = row'[u] \/ Registered(u)'
  BY <1>1, <1>3 DEF OneGoes, ChangeGoes, Registered
<1> QED
  BY <1>1, <1>2, <1>3, <1>4, <1>5, <1>6 DEF OneGoes, ChangeGoes, LastAdminKept, Changing

\* A step of the change.
LEMMA ChangeStepGoes ==
  ASSUME IInv, NEW r \in Requests, OneGoes(r), Load(r) \/ Guard(r) \/ Flush(r) \/ Assign(r)
  PROVE  OneGoes(r)'
<1> DEFINE t == call[r].target
<1>1. /\ UNCHANGED <<row, unsent>> /\ at[r] \in {"authorized", "loaded", "guarded", "flushed"}
      /\ call'[r].target = t /\ call'[r].new = call[r].new /\ call'[r].actor = call[r].actor
  BY DEF Load, Guard, Flush, Assign, GoesTo, storeVars, IInv, TypeOK, Calls
<1>2. /\ t \in Users /\ call[r].new \in UserRoles /\ call[r].actor \in Users
  BY <1>1 DEF IInv, CallsRight
<1>3. Sent(r)' /\ LastAdminKept'
  BY <1>1 DEF OneGoes, ChangeGoes, LastAdminKept, Sent
<1>4. CASE Load(r)
  <2>1. /\ at[r] = "authorized" /\ at'[r] = "loaded" /\ UNCHANGED <<casbin, wrote>>
        /\ call'[r].seen = IF t = call[r].actor THEN "admin" ELSE row[t]
    BY <1>4 DEF Load, GoesTo, storeVars, IInv, TypeOK, Calls
  <2>2. \A u \in Users : /\ ~Holds(r, u) /\ ~Holds(r, u)'
                         /\ casbin'[u] = row'[u] \/ Registered(u)'
    BY <1>1, <2>1 DEF OneGoes, ChangeGoes, PastFlush, Holds, Registered
  <2>3. call'[r].seen = row'[t]
    BY <1>1, <2>1 DEF OneGoes, ChangeGoes
  <2> QED
    BY <1>1, <1>3, <2>1, <2>2, <2>3 DEF OneGoes, ChangeGoes, PastFlush
<1>5. CASE Guard(r)
  <2>1. /\ at[r] = "loaded" /\ at'[r] = "guarded" /\ UNCHANGED <<casbin, wrote, call>>
        /\ Demotes(r) => AdminCount(r) > 1
    BY <1>5 DEF Guard, GoesTo, storeVars, IInv, TypeOK
  <2>2. \A u \in Users : /\ ~Holds(r, u) /\ ~Holds(r, u)' /\ View(r, u) = row[u]
                         /\ casbin'[u] = row'[u] \/ Registered(u)'
    BY <1>1, <2>1 DEF OneGoes, ChangeGoes, PastFlush, Holds, View, Registered
  <2>3. ASSUME Demotes(r)  PROVE \E u \in Users \ {t} : row[u] = "admin"
    <3> DEFINE admins == {u \in Users : View(r, u) = "admin"}
    <3>1. IsFiniteSet(admins) /\ Cardinality(admins) > 1
      BY <2>1, <2>3, NobodyElse, FS_Subset DEF AdminCount
    <3>2. IsFiniteSet({t}) /\ Cardinality({t}) = 1
      BY FS_Singleton
    <3>3. ~(admins \subseteq {t})
      BY <3>1, <3>2, FS_Subset, FS_CardinalityType
    <3> QED
      BY <2>2, <3>3
  <2> QED
    BY <1>1, <1>3, <2>1, <2>2, <2>3 DEF OneGoes, ChangeGoes, PastFlush, Changing, Demotes
<1>6. CASE Flush(r)
  <2>1. /\ at[r] = "guarded" /\ at'[r] = "flushed" /\ UNCHANGED <<casbin, call>>
        /\ IF call[r].new = call[r].seen
           THEN wrote' = wrote
           ELSE wrote' = [wrote EXCEPT ![r][t] = call[r].new]
    BY <1>6 DEF Flush, GoesTo, storeVars, IInv, TypeOK
  <2>2. \A u \in Users : wrote[r][u] = "clean" /\ (casbin'[u] = row'[u] \/ Registered(u)')
    BY <1>1, <2>1 DEF OneGoes, ChangeGoes, PastFlush, Holds, Registered
  <2>3. call[r].seen = row[t]
    BY <2>1 DEF OneGoes, ChangeGoes, Changing
  <2>4. CASE call[r].new = call[r].seen
    BY <1>1, <1>3, <2>1, <2>2, <2>3, <2>4
       DEF OneGoes, ChangeGoes, PastFlush, Changing, Demotes, Holds
  <2>5. CASE call[r].new # call[r].seen
    <3>1. wrote'[r][t] = call[r].new /\ \A u \in Users \ {t} : wrote'[r][u] = "clean"
      BY <1>2, <2>1, <2>2, <2>5 DEF IInv, TypeOK
    <3>2. call[r].new # "clean"
      BY <1>2, Roles3
    <3> QED
      BY <1>1, <1>3, <2>1, <2>2, <2>3, <3>1, <3>2
         DEF OneGoes, ChangeGoes, PastFlush, Changing, Demotes, Holds
  <2> QED
    BY <2>4, <2>5
<1>7. CASE Assign(r)
  <2>1. /\ at[r] = "flushed" /\ at'[r] = "assigned" /\ UNCHANGED <<wrote, call>>
        /\ casbin' = [casbin EXCEPT ![t] = call[r].new]
    BY <1>7 DEF Assign, GoesTo, IInv, TypeOK
  <2>2. \A u \in Users : \/ casbin'[u] = IF u = t THEN call[r].new ELSE row[u]
                         \/ Registered(u)'
    BY <1>2, <2>1 DEF OneGoes, ChangeGoes, IInv, TypeOK, Registered
  <2> QED
    BY <1>1, <1>3, <2>1, <2>2 DEF OneGoes, ChangeGoes, PastFlush, Changing, Demotes, Holds
<1> QED
  BY <1>4, <1>5, <1>6, <1>7

\* It commits what it was to change, or is refused.
LEMMA EndGoes ==
  ASSUME IInv, NEW r \in Requests, OneGoes(r), Commit(r) \/ NotFound(r) \/ LastAdmin(r)
  PROVE  OneGoes(r)'
<1> DEFINE t == call[r].target
<1>1. Ends(r) /\ casbin' = casbin
  BY DEF Commit, NotFound, LastAdmin, storeVars
<1>2. /\ at'[r] = "idle" /\ Sent(r)' /\ ~Changing(r)' /\ ~PastFlush(r)'
      /\ \A u \in Users : ~Holds(r, u)'
  BY <1>1 DEF Ends, IInv, TypeOK, Sent, Changing, PastFlush, Holds, NothingWritten
<1>3. CASE NotFound(r) \/ LastAdmin(r)
  <2>1. row' = row /\ at[r] # "assigned"
    BY <1>3 DEF NotFound, LastAdmin, storeVars
  <2> QED
    BY <1>1, <1>2, <2>1 DEF OneGoes, ChangeGoes, LastAdminKept, Changing, Registered
<1>4. CASE Commit(r)
  <2>1. /\ at[r] \in {"assigned", "working"}
        /\ \A u \in Users : row'[u] = IF Holds(r, u) THEN wrote[r][u] ELSE row[u]
    BY <1>4 DEF Commit, View
  <2>2. \A u \in Users : casbin'[u] = row'[u] \/ Registered(u)'
    BY <1>1, <2>1 DEF OneGoes, ChangeGoes, PastFlush, Registered
  <2>3. LastAdminKept'
    <3>1. PICK u \in Users : row[u] = "admin"
      BY DEF OneGoes, LastAdminKept
    <3>2. CASE ~Holds(r, u)
      BY <2>1, <3>1, <3>2 DEF LastAdminKept
    <3>3. CASE Holds(r, u)
      <4>1. u = t /\ wrote[r][u] = call[r].new /\ at[r] = "assigned" /\ call[r].seen = "admin"
        BY <2>1, <3>1, <3>3 DEF OneGoes, ChangeGoes, PastFlush, Changing
      <4>2. CASE call[r].new = "admin"
        BY <2>1, <3>1, <3>3, <4>1, <4>2 DEF LastAdminKept
      <4>3. CASE call[r].new # "admin"
        <5>1. PICK v \in Users \ {t} : row[v] = "admin"
          BY <4>1, <4>3 DEF OneGoes, ChangeGoes, Demotes
        <5>2. ~Holds(r, v)
          BY <5>1 DEF OneGoes, ChangeGoes
        <5> QED
          BY <2>1, <5>1, <5>2 DEF LastAdminKept
      <4> QED
        BY <4>2, <4>3
    <3> QED
      BY <3>2, <3>3
  <2> QED
    BY <1>2, <2>2, <2>3 DEF OneGoes, ChangeGoes
<1> QED
  BY <1>3, <1>4

\* A registration gives no role but the least, in the row and in Casbin.
LEMMA RegisterGoes ==
  ASSUME IInv, NEW r \in Requests, OneGoes(r), NEW u \in Newcomers,
         Register(u) \/ AfterRegister(u)
  PROVE  OneGoes(r)'
<1>1. /\ UNCHANGED <<at, call, unsent, wrote>>
      /\ \A v \in Users : row'[v] = IF Register(u) /\ v = u THEN "auditor" ELSE row[v]
      /\ Register(u) => row[u] = "absent" /\ casbin' = casbin /\ casbin[u] = "none"
      /\ AfterRegister(u) => \A v \in Users : casbin'[v] = IF v = u THEN "auditor" ELSE casbin[v]
  BY DEF Register, AfterRegister, sessionVars, IInv, TypeOK, StoresRight, Users
<1>2. \A v \in Users : Registered(v) \/ v = u => Registered(v)'
  BY <1>1 DEF Registered, Users
<1>3. \A v \in Users : v = u \/ (row'[v] = row[v] /\ casbin'[v] = casbin[v])
  BY <1>1
<1>4. \A v \in Users : /\ row[v] = "admin" => row'[v] = "admin"
                       /\ row[v] # "absent" => row'[v] = row[v]
  BY <1>1
<1>5. /\ at[r] = "authorized" => row'[Actor(r)] = "admin"
      /\ Changing(r) => Target(r) \in Users /\ row'[Target(r)] = row[Target(r)]
  BY <1>4 DEF IInv, CallsRight, OneGoes, ChangeGoes, Changing
<1>6. LastAdminKept'
  BY <1>4 DEF OneGoes, LastAdminKept
<1>7. at[r] \in {"guarded", "flushed", "assigned"} /\ Demotes(r) =>
          \E v \in Users \ {Target(r)} : row'[v] = "admin"
  BY <1>4 DEF OneGoes, ChangeGoes
<1> QED
  BY <1>1, <1>2, <1>3, <1>5, <1>6, <1>7
     DEF OneGoes, ChangeGoes, Sent, Holds, PastFlush, Changing, Demotes

\* With one request at a time and no failure it always goes that way.
LEMMA GoesAlways ==
  ASSUME NEW r, Requests = {r}, Faults = {}
  PROVE  Spec => []OneGoes(r)
<1>1. Init => OneGoes(r)
  BY InitGoes
<1>2. IInv /\ OneGoes(r) /\ [Next]_vars => OneGoes(r)'
  <2> SUFFICES ASSUME IInv, OneGoes(r), [Next]_vars  PROVE OneGoes(r)'
    OBVIOUS
  <2>1. ~(Restart \/ AssignFails(r) \/ Fail(r) \/ DiesAssigning(r) \/ WriteBack(r))
    BY DEF Restart, AssignFails, Fail, DiesAssigning, Reboot, WriteBack, OneGoes, ChangeGoes
  <2>2. CASE UNCHANGED vars
    BY <2>2 DEF vars, storeVars, sessionVars, OneGoes, ChangeGoes, LastAdminKept, Sent, Holds,
                PastFlush, Changing, Demotes, Registered
  <2>3. ASSUME NEW u \in Newcomers, Register(u) \/ AfterRegister(u) \/ RegisterFails(u)
        PROVE  OneGoes(r)'
    BY <2>3, RegisterGoes DEF RegisterFails
  <2> QED
    BY <2>1, <2>2, <2>3, BeginGoes, ChangeStepGoes, EndGoes DEF Next
<1> QED
  BY <1>1, <1>2, Invariance, PTL DEF Spec

\* ARCH.md:205 as it stands: when requests come one at a time and nothing
\* fails, whoever registers, the last administrator is never demoted.
THEOREM LastAdminStays ==
  ASSUME NEW r, Requests = {r}, Faults = {}
  PROVE  Spec => []LastAdminKept
<1>1. OneGoes(r) => LastAdminKept
  BY DEF OneGoes
<1> QED
  BY <1>1, GoesAlways, PTL

\* Under the same conditions, but while a change of a role is between its
\* write to Casbin and its commit, the stores have the same role for every
\* user, or Casbin has what the registration of the user left there
\* (user_service.py, users.py).
SameRoles ==
    (\A r \in Requests : at[r] # "assigned") =>
        \A u \in Users : casbin[u] = row[u] \/ Registered(u)

THEOREM StoresAreSame ==
  ASSUME NEW r, Requests = {r}, Faults = {}
  PROVE  Spec => []SameRoles
<1>1. OneGoes(r) => SameRoles
  BY DEF OneGoes, ChangeGoes, SameRoles
<1> QED
  BY <1>1, GoesAlways, PTL
=============================================================================
