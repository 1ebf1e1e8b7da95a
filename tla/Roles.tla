-------------------------------- MODULE Roles --------------------------------
(***************************************************************************)
(* Who may do what: the role of a user is kept twice, in users.role and in *)
(* the Casbin policy, and only the second is consulted.  The administrator *)
(* changes both in one request (toggle_role of app/services/user_service.py*)
(* and assign_role of app/services/role_service.py), registration fills    *)
(* them one after the other (app/auth/users.py), and every authenticated   *)
(* request that commits writes Casbin's role back into the row             *)
(* (get_current_user_with_role of app/api/deps/auth.py assigns to an       *)
(* object of the request's own session).                                   *)
(*                                                                         *)
(* The row is written in a transaction: flushed rows are locked until the  *)
(* commit, and an UPDATE is only sent for a value that changes.  Casbin is *)
(* synchronous and saves at once, outside that transaction.  All requests  *)
(* run on the event loop of one API process and interleave at its awaits.  *)
(***************************************************************************)
EXTENDS Naturals, FiniteSets

CONSTANTS
    Admins, Reviewers, Auditors,   \* the users there are at first, by role
    Newcomers,                     \* those who may register
    Demo,                          \* those every startup seeds again
    Requests,                      \* requests in progress at a time
    Nobody,                        \* the target of a request on other things
    Faults                         \* the kinds of failure that may happen

Seeded == Admins \cup Reviewers \cup Auditors
Users == Seeded \cup Newcomers

ASSUME UsersAssumption ==
    /\ IsFiniteSet(Users)
    /\ Seeded \cap Newcomers = {}
    /\ Admins \cap (Reviewers \cup Auditors) = {}
    /\ Reviewers \cap Auditors = {}
    /\ Admins # {}
    /\ Demo \subseteq Seeded
    /\ Demo # {} => Demo \cap Admins # {}
    /\ Nobody \notin Users
ASSUME FaultsAssumption == Faults \subseteq {"db", "restart"}

VARIABLES
    row,           \* u -> users.role as committed, "absent" before it exists
    casbin,        \* u -> its role in the Casbin policy, or "none"
    registering,   \* the users committed whose on_after_register has not run
    at,            \* r -> where request r stands
    call,          \* r -> its actor, its target, the role asked for, and the
                   \*      role its session found on the target
    unsent,        \* r -> the role attached to its actor and not yet flushed
    wrote,         \* r -> u -> the role r has flushed and not committed
    drifted,       \* history: the users whose Casbin role was ever written, or
                   \* written back, outside a transaction that then committed
    overlapped     \* history: two changes of roles were ever between load and
                   \* commit together, and one of them committed

storeVars == <<row, casbin>>
sessionVars == <<at, call, unsent, wrote>>
historyVars == <<drifted, overlapped>>
vars == <<storeVars, registering, sessionVars, historyVars>>

UserRoles == {"admin", "reviewer", "auditor"}
Places == {"idle", "working", "authorized", "loaded", "guarded", "flushed", "assigned"}
Calls == [actor : Users \cup {Nobody}, target : Users \cup {Nobody},
          new : UserRoles \cup {"none"}, seen : UserRoles \cup {"none"}]
NoCall == [actor |-> Nobody, target |-> Nobody, new |-> "none", seen |-> "none"]
NothingWritten == [u \in Users |-> "clean"]

TypeOK ==
    /\ row \in [Users -> UserRoles \cup {"absent"}]
    /\ casbin \in [Users -> UserRoles \cup {"none"}]
    /\ registering \subseteq Newcomers
    /\ at \in [Requests -> Places]
    /\ call \in [Requests -> Calls]
    /\ unsent \in [Requests -> UserRoles \cup {"clean"}]
    /\ wrote \in [Requests -> [Users -> UserRoles \cup {"clean"}]]
    /\ drifted \subseteq Users
    /\ overlapped \in BOOLEAN

SeedRole(u) ==
    CASE u \in Admins -> "admin"
      [] u \in Reviewers -> "reviewer"
      [] u \in Auditors -> "auditor"

Init ==
    /\ row = [u \in Users |-> IF u \in Seeded THEN SeedRole(u) ELSE "absent"]
    /\ casbin = [u \in Users |-> IF u \in Seeded THEN SeedRole(u) ELSE "none"]
    /\ registering = {}
    /\ at = [r \in Requests |-> "idle"]
    /\ call = [r \in Requests |-> NoCall]
    /\ unsent = [r \in Requests |-> "clean"]
    /\ wrote = [r \in Requests |-> NothingWritten]
    /\ drifted = {}
    /\ overlapped = FALSE

Actor(r) == call[r].actor
Target(r) == call[r].target

\* A flushed row stays locked until its transaction ends.
Holds(r, u) == wrote[r][u] # "clean"
Locked(u) == \E r \in Requests : Holds(r, u)
Free(r, u) == \A s \in Requests \ {r} : ~Holds(s, u)

\* Nothing of the session waits to be flushed.
Sent(r) == unsent[r] = "clean"

GoesTo(r, from, to) == at[r] = from /\ at' = [at EXCEPT ![r] = to]

\* The session of r is closed; what it had not committed is rolled back.
Ends(r) ==
    /\ at' = [at EXCEPT ![r] = "idle"]
    /\ call' = [call EXCEPT ![r] = NoCall]
    /\ unsent' = [unsent EXCEPT ![r] = "clean"]
    /\ wrote' = [wrote EXCEPT ![r] = NothingWritten]

-----------------------------------------------------------------------------
(* Authentication, and what it leaves in the session.                      *)

\* get_current_user_with_role: the actor's row is loaded into the session,
\* and given the role Casbin has for it.
Authenticate(r, a, t, n) ==
    /\ row[a] # "absent"
    /\ call' = [call EXCEPT ![r] =
                   [actor |-> a, target |-> t, new |-> n, seen |-> "none"]]
    /\ unsent' = [unsent EXCEPT ![r] = IF casbin[a] = row[a] THEN "clean" ELSE casbin[a]]
    /\ UNCHANGED <<storeVars, registering, wrote, historyVars>>

\* PATCH /admin/users/{id}/role, for whom require_admin lets through.
Authorize(r) ==
    \E a, t \in Users, n \in UserRoles :
        /\ GoesTo(r, "idle", "authorized")
        /\ casbin[a] = "admin"
        /\ Authenticate(r, a, t, n)

\* Any other request that commits: an upload or a relabel, for which
\* require_permission wants a reviewer or an administrator.
Begin(r) ==
    \E a \in Users :
        /\ GoesTo(r, "idle", "working")
        /\ casbin[a] \in {"admin", "reviewer"}
        /\ Authenticate(r, a, Nobody, "none")

Demotes(r) == call[r].seen = "admin" /\ call[r].new # "admin"

\* The next thing r does sends a statement, so its session is flushed first.
\* (session.get of the actor itself is answered from the session.)
FlushPoint(r) ==
    \/ at[r] = "working"
    \/ at[r] = "authorized" /\ Target(r) # Actor(r)
    \/ at[r] = "loaded" /\ Demotes(r)
    \/ at[r] = "guarded"

WriteBack(r) ==
    /\ FlushPoint(r)
    /\ ~Sent(r)
    /\ Free(r, Actor(r))
    /\ wrote' = [wrote EXCEPT ![r][Actor(r)] = unsent[r]]
    /\ unsent' = [unsent EXCEPT ![r] = "clean"]
    /\ drifted' = IF casbin[Actor(r)] = unsent[r] THEN drifted ELSE drifted \cup {Actor(r)}
    /\ UNCHANGED <<storeVars, registering, at, call, overlapped>>

-----------------------------------------------------------------------------
(* toggle_role.                                                            *)

Load(r) ==
    /\ GoesTo(r, "authorized", "loaded")
    /\ Target(r) = Actor(r) \/ Sent(r)
    /\ row[Target(r)] # "absent"
    /\ call' = [call EXCEPT ![r].seen =
                   IF Target(r) = Actor(r) THEN "admin" ELSE row[Target(r)]]
    /\ UNCHANGED <<storeVars, registering, unsent, wrote, historyVars>>

\* UserNotFound.
NotFound(r) ==
    /\ at[r] = "authorized"
    /\ Target(r) # Actor(r) /\ Sent(r)
    /\ row[Target(r)] = "absent"
    /\ Ends(r)
    /\ UNCHANGED <<storeVars, registering, historyVars>>

\* What a statement of r reads in the row of u.
View(r, u) == IF Holds(r, u) THEN wrote[r][u] ELSE row[u]

AdminCount(r) == Cardinality({u \in Users : View(r, u) = "admin"})

\* Mutant: the count is compared with zero.
GuardOffByOne(r) ==
    /\ GoesTo(r, "loaded", "guarded")
    /\ Demotes(r) => Sent(r) /\ AdminCount(r) >= 1
    /\ UNCHANGED <<storeVars, registering, call, unsent, wrote, historyVars>>

Guard(r) ==
    /\ GoesTo(r, "loaded", "guarded")
    /\ Demotes(r) => Sent(r) /\ AdminCount(r) > 1
    /\ UNCHANGED <<storeVars, registering, call, unsent, wrote, historyVars>>

\* LastAdminError.
LastAdmin(r) ==
    /\ at[r] = "loaded"
    /\ Demotes(r) /\ Sent(r) /\ AdminCount(r) <= 1
    /\ Ends(r)
    /\ UNCHANGED <<storeVars, registering, historyVars>>

\* update_role: no UPDATE, and so no lock, when the role is the one seen.
Flush(r) ==
    /\ GoesTo(r, "guarded", "flushed")
    /\ Sent(r)
    /\ IF call[r].new = call[r].seen
       THEN UNCHANGED wrote
       ELSE /\ Free(r, Target(r))
            /\ wrote' = [wrote EXCEPT ![r][Target(r)] = call[r].new]
    /\ UNCHANGED <<storeVars, registering, call, unsent, historyVars>>

\* RoleService.assign_role: in force, and saved, before the commit.
Assign(r) ==
    /\ GoesTo(r, "flushed", "assigned")
    /\ casbin' = [casbin EXCEPT ![Target(r)] = call[r].new]
    /\ drifted' = IF Holds(r, Target(r)) THEN drifted ELSE drifted \cup {Target(r)}
    /\ UNCHANGED <<row, registering, call, unsent, wrote, overlapped>>

\* The role is deleted and adding the new one raises.
AssignFails(r) ==
    /\ "db" \in Faults
    /\ at[r] = "flushed"
    /\ casbin' = [casbin EXCEPT ![Target(r)] = "none"]
    /\ drifted' = drifted \cup {Target(r)}
    /\ Ends(r)
    /\ UNCHANGED <<row, registering, overlapped>>

\* r is in toggle_role, and has loaded its target.
Changing(r) == at[r] \in {"loaded", "guarded", "flushed", "assigned"}

\* Mutant: session.commit() is missing.
CommitForgotten(r) ==
    /\ at[r] = "assigned" \/ (at[r] = "working" /\ Sent(r))
    /\ Ends(r)
    /\ UNCHANGED <<row, casbin, registering, historyVars>>

\* session.commit(): of toggle_role after its audit row, or of another request.
Commit(r) ==
    /\ at[r] = "assigned" \/ (at[r] = "working" /\ Sent(r))
    /\ row' = [u \in Users |-> View(r, u)]
    /\ overlapped' = (overlapped \/ (at[r] = "assigned" /\ \E s \in Requests \ {r} : Changing(s)))
    /\ Ends(r)
    /\ UNCHANGED <<casbin, registering, drifted>>

\* A statement or the commit raises, or the database breaks a deadlock: the
\* transaction is rolled back, and what Casbin was told stands.
Fail(r) ==
    /\ "db" \in Faults
    /\ at[r] # "idle"
    /\ drifted' = IF at[r] = "assigned" THEN drifted \cup {Target(r)} ELSE drifted
    /\ Ends(r)
    /\ UNCHANGED <<storeVars, registering, overlapped>>

-----------------------------------------------------------------------------
(* Registration and restart.                                               *)

\* The row is committed with the default role of the column ...
Register(u) ==
    /\ row[u] = "absent"
    /\ row' = [row EXCEPT ![u] = "auditor"]
    /\ registering' = registering \cup {u}
    /\ UNCHANGED <<casbin, sessionVars, historyVars>>

\* Nobody has touched the role of u since its row was committed.
Untouched(u) == casbin[u] = "none" /\ ~Locked(u)

\* ... and on_after_register assigns it in Casbin.
AfterRegister(u) ==
    /\ u \in registering
    /\ registering' = registering \ {u}
    /\ casbin' = [casbin EXCEPT ![u] = "auditor"]
    /\ drifted' = IF Untouched(u) THEN drifted ELSE drifted \cup {u}
    /\ UNCHANGED <<row, sessionVars, overlapped>>

\* The hook raises: the user exists and has no Casbin role.
RegisterFails(u) ==
    /\ "db" \in Faults
    /\ u \in registering
    /\ registering' = registering \ {u}
    /\ drifted' = drifted \cup {u}
    /\ UNCHANGED <<storeVars, sessionVars, overlapped>>

\* The API stops at any point and starts again from what was saved: every
\* request is lost, and the demo users are given their first roles again.
Reboot(saved, lost) ==
    /\ "restart" \in Faults
    /\ row' = [u \in Users |-> IF u \in Demo THEN SeedRole(u) ELSE row[u]]
    /\ casbin' = [u \in Users |-> IF u \in Demo THEN SeedRole(u) ELSE saved[u]]
    /\ drifted' = (drifted \cup lost \cup registering) \ Demo
    /\ registering' = {}
    /\ at' = [r \in Requests |-> "idle"]
    /\ call' = [r \in Requests |-> NoCall]
    /\ unsent' = [r \in Requests |-> "clean"]
    /\ wrote' = [r \in Requests |-> NothingWritten]
    /\ UNCHANGED overlapped

HalfDone == {Target(r) : r \in {s \in Requests : at[s] = "assigned"}}

Restart == Reboot(casbin, HalfDone)

\* It stops inside assign_role, between the delete and the add.
DiesAssigning(r) ==
    /\ at[r] = "flushed"
    /\ Reboot([casbin EXCEPT ![Target(r)] = "none"], HalfDone \cup {Target(r)})

-----------------------------------------------------------------------------
Next ==
    \/ \E r \in Requests :
        \/ Authorize(r)
        \/ Begin(r)
        \/ WriteBack(r)
        \/ Load(r)
        \/ NotFound(r)
        \/ Guard(r)
        \/ LastAdmin(r)
        \/ Flush(r)
        \/ Assign(r)
        \/ AssignFails(r)
        \/ Commit(r)
        \/ Fail(r)
        \/ DiesAssigning(r)
    \/ \E u \in Newcomers : Register(u) \/ AfterRegister(u) \/ RegisterFails(u)
    \/ Restart

Spec == Init /\ [][Next]_vars
-----------------------------------------------------------------------------
\* The two stores agree on every user but those being changed and those
\* whose Casbin role was assigned or written back outside a transaction that
\* held the row and then committed: the row lock is what keeps concurrent
\* role changes of one user in one order in both stores.
RolesAgree ==
    \A u \in Users \ (drifted \cup registering) :
        row[u] # "absent" /\ ~Locked(u) => casbin[u] = row[u]

\* An administrator is left (the LastAdminError guard), whatever fails or
\* restarts, as long as changes of roles did not overlap and the two stores
\* agree: the guard counts rows, and who gets to it is decided by Casbin.
AdminLeft ==
    ~overlapped /\ drifted = {} => \E u \in Users : row[u] = "admin"

\* ARCH.md:205: demoting the last administrator is refused.
LastAdminKept == \E u \in Users : row[u] = "admin"
-----------------------------------------------------------------------------
(* The inductive invariant.                                                *)

\* The actor of a request, and the target it has loaded, are users that are
\* there; the session has an actor that is an administrator to Casbin.
CallsRight ==
    \A r \in Requests :
        /\ at[r] # "idle" => Actor(r) \in Users /\ row[Actor(r)] # "absent"
        /\ at[r] \notin {"idle", "working"} =>
               /\ Target(r) \in Users
               /\ call[r].new \in UserRoles
               /\ unsent[r] \in {"clean", "admin"}
        /\ Changing(r) =>
               /\ row[Target(r)] # "absent"
               /\ call[r].seen \in UserRoles
               /\ Target(r) = Actor(r) => call[r].seen = "admin"

\* The target of r has been flushed, if it was to change.
PastFlush(r) == at[r] \in {"flushed", "assigned"}

\* A lock is one session's, on its actor or on the target it has flushed.
LocksRight ==
    \A r \in Requests, u \in Users : Holds(r, u) =>
        /\ at[r] # "idle" /\ Sent(r) /\ row[u] # "absent"
        /\ Free(r, u)
        /\ IF Target(r) = u /\ PastFlush(r)
           THEN wrote[r][u] = call[r].new
           ELSE u = Actor(r) /\ (at[r] # "working" => wrote[r][u] = "admin")

\* Before on_after_register a user has no role in Casbin but one that an
\* administrator assigned meanwhile.
Unhooked(u) == u \in registering /\ casbin[u] = "none"

\* Where the stores are, for a user neither drifted nor about to get its first
\* role: together, but for the one change of its role that is under way.
StoresRight ==
    \A u \in Users :
        /\ row[u] = "absent" => casbin[u] = "none" /\ u \notin registering
        /\ u \notin drifted /\ Unhooked(u) =>
               /\ row[u] = "auditor"
               /\ \A r \in Requests : Holds(r, u) => at[r] = "flushed" /\ Target(r) = u
        /\ u \notin drifted /\ row[u] # "absent" /\ ~Unhooked(u) =>
               /\ ~Locked(u) => casbin[u] = row[u]
               /\ \A r \in Requests : Holds(r, u) =>
                      IF Target(r) = u /\ at[r] = "assigned"
                      THEN casbin[u] = wrote[r][u]
                      ELSE /\ casbin[u] = row[u]
                           /\ (Target(r) = u /\ at[r] = "flushed") \/ wrote[r][u] = row[u]

\* What a change of a role has read is still so when it commits.
ReadsHold ==
    ~overlapped /\ drifted = {} => \A r \in Requests : Changing(r) =>
        /\ Target(r) # Actor(r) => row[Target(r)] = call[r].seen
        /\ at[r] # "loaded" /\ Demotes(r) =>
               \E u \in Users \ {Target(r)} : row[u] = "admin"

IInv ==
    /\ TypeOK
    /\ CallsRight
    /\ LocksRight
    /\ StoresRight
    /\ ReadsHold
    /\ AdminLeft
=============================================================================
