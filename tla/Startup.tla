------------------------------ MODULE Startup -------------------------------
(***************************************************************************)
(* The start of the API (app/core/startup.py): its secrets come from the   *)
(* environment when its modules are imported, then from Vault where Vault  *)
(* is required, and what Vault has not is seeded there from the            *)
(* environment.  The Casbin policies follow: those the table has not are   *)
(* added, each saved as it is added.                                       *)
(* The process may be stopped at any point and is started again, perhaps   *)
(* with another environment; all that lasts is Vault and the policies.     *)
(*                                                                         *)
(* Vault is read, and later written whole, with nothing in between to tell *)
(* that an operator has stored a secret meanwhile.                         *)
(***************************************************************************)
CONSTANTS
    Fields,          \* REQUIRED_VAULT_FIELDS
    JwtField,        \* JWT_SECRET_FIELD, one of them
    Values,          \* the secrets there may be
    Empty, Absent,   \* the empty secret, and none at all
    Policies,        \* the default policies
    Environments,    \* what the process may be started with
    Faults           \* what may happen besides stops

Secrets == [Fields -> Values \cup {Empty, Absent}]
Nothing == [f \in Fields |-> Absent]

\* An environment: the fields (Empty where unset), SECRET_KEY or else
\* JWT_SECRET_KEY, the switches, and whether ALLOWED_ORIGINS and the
\* credentials of the demo users are fit for use.
EnvironmentRecords ==
    [secrets : [Fields -> Values \cup {Empty}], secretKey : Values \cup {Empty},
     requireVault : BOOLEAN, debug : BOOLEAN, origins : BOOLEAN,
     demo : BOOLEAN, credentials : BOOLEAN]

ASSUME FieldsAssumption == JwtField \in Fields
ASSUME ValuesAssumption == Empty \notin Values /\ Absent \notin Values /\ Empty # Absent
ASSUME EnvironmentsAssumption == Environments \subseteq EnvironmentRecords /\ Environments # {}
ASSUME FaultsAssumption == Faults \subseteq {"read", "store", "lose"}

VARIABLES
    vault,       \* f -> the field of the secret as Vault has it
    policies,    \* the policies saved
    at,          \* where the start stands
    rest,        \* the policies this start has found missing and not yet added
    env,         \* the environment of the process
    secret,      \* the secret the start works with
    settings,    \* f -> the field of settings in memory
    signing,     \* security_settings.SECRET_KEY, in memory
    failed,      \* history: the first read of this start failed
    touched,     \* history: the fields that changed in Vault since this start
                 \* read them, other than by its own write
    lastKey,     \* history: the key of the last server that required Vault
    disturbed    \* history: since then Vault's key was changed by others, or
                 \* could not be read

memoryVars == <<env, secret, settings, signing>>
historyVars == <<failed, touched, lastKey, disturbed>>
vars == <<vault, policies, at, rest, memoryVars, historyVars>>

Places == {"down", "imported", "available", "seeding", "written", "read",
           "configured", "validated", "serving"}

TypeOK ==
    /\ vault \in Secrets
    /\ policies \subseteq Policies
    /\ at \in Places
    /\ rest \subseteq Policies
    /\ env \in Environments
    /\ secret \in Secrets
    /\ settings \in [Fields -> Values \cup {Empty}]
    /\ signing \in Values \cup {Empty}
    /\ failed \in BOOLEAN
    /\ touched \subseteq Fields
    /\ lastKey \in Values \cup {Absent}
    /\ disturbed \in BOOLEAN

Init ==
    /\ vault = Nothing
    /\ policies = {}
    /\ at = "down"
    /\ rest = {}
    /\ env \in Environments
    /\ secret = Nothing
    /\ settings = env.secrets
    /\ signing = env.secretKey
    /\ failed = FALSE
    /\ touched = {}
    /\ lastKey = Absent
    /\ disturbed = FALSE

GoesTo(from, to) == at = from /\ at' = to

-----------------------------------------------------------------------------
(* configure_app_secrets.                                                  *)

\* The process is started: its settings are read from the environment.
Boot ==
    /\ GoesTo("down", "imported")
    /\ env' \in Environments
    /\ settings' = env'.secrets
    /\ signing' = env'.secretKey
    /\ UNCHANGED <<vault, policies, rest, secret, historyVars>>

SkipVault ==
    /\ GoesTo("imported", "configured")
    /\ ~env.requireVault
    /\ UNCHANGED <<vault, policies, rest, memoryVars, historyVars>>

CheckVault ==
    /\ GoesTo("imported", "available")
    /\ env.requireVault
    /\ UNCHANGED <<vault, policies, rest, memoryVars, historyVars>>

\* An empty field is not a missing one here.
MissingFields(s) == {f \in Fields : s[f] = Absent}

Read ==
    /\ at = "available"
    /\ secret' = vault
    /\ at' = IF MissingFields(vault) = {} THEN "read" ELSE "seeding"
    /\ touched' = {}
    /\ UNCHANGED <<vault, policies, rest, env, settings, signing, failed, lastKey, disturbed>>

\* Whatever read_secret raises is taken for a secret with no fields.
ReadFails ==
    /\ "read" \in Faults
    /\ GoesTo("available", "seeding")
    /\ secret' = Nothing
    /\ failed' = TRUE
    /\ touched' = {}
    /\ disturbed' = TRUE
    /\ UNCHANGED <<vault, policies, rest, env, settings, signing, lastKey>>

\* The settings that are put where Vault has nothing.
Fallback(f) ==
    IF f = JwtField /\ settings[f] = Empty THEN signing ELSE settings[f]

\* Mutant: the environment is put over what Vault has.
SeedOver ==
    /\ GoesTo("seeding", "written")
    /\ vault' = [f \in Fields |-> Fallback(f)]
    /\ UNCHANGED <<policies, rest, memoryVars, historyVars>>

\* Vault's secret is replaced by what was read, with the gaps filled.
Seed ==
    /\ GoesTo("seeding", "written")
    /\ vault' = [f \in Fields |-> IF secret[f] = Absent THEN Fallback(f) ELSE secret[f]]
    /\ UNCHANGED <<policies, rest, memoryVars, historyVars>>

ReadBack ==
    /\ GoesTo("written", "read")
    /\ secret' = vault
    /\ touched' = {}
    /\ UNCHANGED <<vault, policies, rest, env, settings, signing, failed, lastKey, disturbed>>

\* Mutant: the check is the one of the seeding.
CompleteMissing(s) == MissingFields(s) = {}

\* An empty field is a missing one here.
Complete(s) == \A f \in Fields : s[f] \notin {Absent, Empty}

\* Mutant: what the environment gives is preferred.
ConfigureEnvFirst ==
    /\ GoesTo("read", "configured")
    /\ Complete(secret)
    /\ settings' = [f \in Fields |-> IF settings[f] = Empty THEN secret[f] ELSE settings[f]]
    /\ signing' = settings'[JwtField]
    /\ UNCHANGED <<vault, policies, rest, env, secret, historyVars>>

Configure ==
    /\ GoesTo("read", "configured")
    /\ Complete(secret)
    /\ settings' = secret
    /\ signing' = secret[JwtField]
    /\ UNCHANGED <<vault, policies, rest, env, secret, historyVars>>

-----------------------------------------------------------------------------
(* The rest of init_app.                                                   *)

\* validate_settings.
Valid == env.debug \/ (signing # Empty /\ env.origins)

\* Mutant: the policies are seeded only into an empty table, which is all that
\* check_policies_initialized asks about.
UnsavedIfNone == IF policies = {} THEN Policies ELSE {}

\* The policies that add_policy will find new: those not in the table that the
\* enforcer loads when seed_default_policies asks for it.
Unsaved == Policies \ policies

Validate ==
    /\ GoesTo("configured", "validated")
    /\ Valid
    /\ rest' = Unsaved
    /\ UNCHANGED <<vault, policies, memoryVars, historyVars>>

\* seed_default_policies adds them one by one, each saved at once; the last
\* save_policy writes the same rows again, in one transaction.
AddPolicy ==
    /\ at = "validated"
    /\ \E p \in rest :
          /\ policies' = policies \cup {p}
          /\ rest' = rest \ {p}
    /\ UNCHANGED <<vault, at, memoryVars, historyVars>>

\* seed_demo_users refuses a demo user without a credential.
UsersSeeded == env.debug /\ env.demo => env.credentials

\* The policies gone through, and demo users seeded, the server takes
\* requests.  Nobody asks whether the table is complete.
Serve ==
    /\ GoesTo("validated", "serving")
    /\ rest = {}
    /\ UsersSeeded
    /\ IF env.requireVault
       THEN lastKey' = signing /\ disturbed' = (JwtField \in touched)
       ELSE UNCHANGED <<lastKey, disturbed>>
    /\ UNCHANGED <<vault, policies, rest, memoryVars, failed, touched>>

\* The process ends: a check refuses, a call raises, or it is stopped.
Stop ==
    /\ at # "down"
    /\ at' = "down"
    /\ rest' = {}
    /\ secret' = Nothing
    /\ settings' = env.secrets
    /\ signing' = env.secretKey
    /\ failed' = FALSE
    /\ touched' = {}
    /\ UNCHANGED <<vault, policies, env, lastKey, disturbed>>

-----------------------------------------------------------------------------
(* What others do to Vault.                                                *)

VaultBecomes(s) ==
    /\ vault' = s
    /\ touched' = touched \cup {f \in Fields : s[f] # vault[f]}
    /\ disturbed' = (disturbed \/ s[JwtField] # vault[JwtField])
    /\ UNCHANGED <<policies, at, rest, memoryVars, failed, lastKey>>

\* An operator stores a secret, of all fields or of some.
Store ==
    /\ "store" \in Faults
    /\ \E s \in [Fields -> Values \cup {Absent}] : VaultBecomes(s)

\* Vault, which compose runs in dev mode, restarts and has forgotten all.
Lose ==
    /\ "lose" \in Faults
    /\ VaultBecomes(Nothing)

Next ==
    \/ Boot
    \/ SkipVault
    \/ CheckVault
    \/ Read
    \/ ReadFails
    \/ Seed
    \/ ReadBack
    \/ Configure
    \/ Validate
    \/ AddPolicy
    \/ Serve
    \/ Stop
    \/ Store
    \/ Lose

Spec == Init /\ [][Next]_vars
-----------------------------------------------------------------------------
\* A start takes a secret from Vault only after a read that failed, or when
\* an operator has changed that field while it was at work.
SecretsSurvive ==
    [][\A f \in Fields :
          GoesTo("seeding", "written") /\ vault[f] # Absent /\ vault'[f] # vault[f] =>
              failed \/ f \in touched]_vars

\* A server that requires Vault has every secret as Vault has it, but for
\* those changed there since it read them; none is empty, and tokens are
\* signed with the one for them.
ServesVault ==
    at = "serving" /\ env.requireVault =>
        /\ \A f \in Fields \ touched : settings[f] = vault[f]
        /\ \A f \in Fields : settings[f] # Empty
        /\ signing = settings[JwtField]

\* Tokens outlive restarts: the next server that requires Vault signs with
\* the key of the last, whatever its environment says, unless Vault's key
\* was changed by others or could not be read.
KeyOutlivesRestarts ==
    [][GoesTo("validated", "serving") /\ env.requireVault /\ lastKey # Absent /\ ~disturbed =>
          signing = lastKey]_vars

\* A server has all its policies, also when earlier starts died among them
\* and the server found a table that was neither empty nor complete.
PoliciesComplete == at = "serving" => policies = Policies

\* FINAL_DEMO_PREP.md:109: missing fields are seeded in Vault from the
\* current settings.  (startup.py:58-65 calls an empty field missing.)
MissingIsSeeded ==
    at = "read" => \A f \in Fields : settings[f] # Empty => secret[f] \notin {Absent, Empty}

-----------------------------------------------------------------------------
(* The inductive invariant.                                                *)

\* Until it is configured a process has its environment's settings, and
\* goes to Vault only where Vault is required.
FromEnvironment ==
    /\ at \in {"down", "imported", "available", "seeding", "written", "read"} =>
           settings = env.secrets /\ signing = env.secretKey
    /\ at \in {"available", "seeding", "written", "read"} => env.requireVault

\* What a start has read is what Vault has, but for the fields touched.
ReadIsCurrent ==
    /\ at = "read" \/ (at = "seeding" /\ ~failed) =>
           \A f \in Fields \ touched : secret[f] = vault[f]

\* What it has configured from what it read, too.
ConfiguredIsCurrent ==
    at \in {"configured", "validated", "serving"} /\ env.requireVault =>
        /\ \A f \in Fields \ touched : settings[f] = vault[f]
        /\ \A f \in Fields : settings[f] # Empty
        /\ signing = settings[JwtField]

\* What is not saved is still to be added, by the start that found it missing.
PoliciesCovered ==
    at \in {"validated", "serving"} => policies \cup rest = Policies

\* The last key is in Vault until that is disturbed, and in the hands of a
\* start that has read it.
KeyKept ==
    lastKey # Absent /\ ~disturbed =>
        /\ vault[JwtField] = lastKey
        /\ at \in {"seeding", "read"} => secret[JwtField] = lastKey
        /\ at \in {"configured", "validated", "serving"} /\ env.requireVault =>
               signing = lastKey

IInv ==
    /\ TypeOK
    /\ FromEnvironment
    /\ ReadIsCurrent
    /\ ConfiguredIsCurrent
    /\ KeyKept
    /\ PoliciesCovered
    /\ PoliciesComplete
=============================================================================
