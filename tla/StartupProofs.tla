--------------------------- MODULE StartupProofs ----------------------------
(***************************************************************************)
(* Proofs about Startup, for any fields, secrets, policies and             *)
(* environments, and whatever happens to Vault.                            *)
(***************************************************************************)
EXTENDS Startup, TLAPS

LEMMA InitIInv == Init => IInv
<1> SUFFICES ASSUME Init  PROVE IInv
  OBVIOUS
<1>1. env \in EnvironmentRecords
  BY EnvironmentsAssumption DEF Init
<1>2. TypeOK
  BY <1>1 DEF Init, TypeOK, Secrets, Nothing, Places, EnvironmentRecords
<1> QED
  BY <1>2 DEF Init, IInv, FromEnvironment, ReadIsCurrent, ConfiguredIsCurrent, KeyKept,
              PoliciesCovered, PoliciesComplete

\* Steps that leave Vault and the secrets in memory as they are, and take
\* the start from one place to another.
LEMMA QuietIInv ==
  ASSUME IInv, SkipVault \/ CheckVault \/ Validate \/ AddPolicy
  PROVE  IInv'
<1> USE DEF memoryVars, historyVars
<1>1. TypeOK'
  BY DEF IInv, TypeOK, Places, GoesTo, SkipVault, CheckVault, Validate, AddPolicy, Unsaved
<1>2. FromEnvironment' /\ ReadIsCurrent' /\ PoliciesComplete'
  BY DEF IInv, FromEnvironment, ReadIsCurrent, PoliciesComplete,
         GoesTo, SkipVault, CheckVault, Validate, AddPolicy
<1>3. ConfiguredIsCurrent' /\ KeyKept'
  BY DEF IInv, ConfiguredIsCurrent, KeyKept,
         GoesTo, SkipVault, CheckVault, Validate, AddPolicy
<1>4. PoliciesCovered'
  <2>1. CASE SkipVault \/ CheckVault
    BY <2>1 DEF PoliciesCovered, GoesTo, SkipVault, CheckVault
  <2>2. CASE Validate
    BY <2>2 DEF IInv, TypeOK, PoliciesCovered, GoesTo, Validate, Unsaved
  <2>3. CASE AddPolicy
    <3>1. PICK p \in rest : policies' = policies \cup {p} /\ rest' = rest \ {p}
      BY <2>3 DEF AddPolicy
    <3>2. policies \cup rest = Policies /\ p \in Policies
      BY <2>3, <3>1 DEF IInv, TypeOK, PoliciesCovered, AddPolicy
    <3> QED
      BY <3>1, <3>2 DEF PoliciesCovered
  <2> QED
    BY <2>1, <2>2, <2>3
<1> QED
  BY <1>1, <1>2, <1>3, <1>4 DEF IInv

LEMMA BootIInv ==
  ASSUME IInv, Boot
  PROVE  IInv'
<1> USE DEF historyVars
<1>1. env' \in EnvironmentRecords
  BY EnvironmentsAssumption DEF Boot
<1>2. TypeOK'
  BY <1>1 DEF IInv, TypeOK, Places, GoesTo, Boot, EnvironmentRecords
<1> QED
  BY <1>2 DEF IInv, FromEnvironment, ReadIsCurrent, ConfiguredIsCurrent, KeyKept,
              PoliciesCovered, PoliciesComplete, GoesTo, Boot

LEMMA StopIInv ==
  ASSUME IInv, Stop
  PROVE  IInv'
<1>1. env \in EnvironmentRecords
  BY EnvironmentsAssumption DEF IInv, TypeOK
<1>2. TypeOK'
  BY <1>1 DEF IInv, TypeOK, Places, Secrets, Nothing, Stop, EnvironmentRecords
<1> QED
  BY <1>2 DEF IInv, FromEnvironment, ReadIsCurrent, ConfiguredIsCurrent, KeyKept,
              PoliciesCovered, PoliciesComplete, Stop

LEMMA ReadIInv ==
  ASSUME IInv, Read \/ ReadFails \/ ReadBack
  PROVE  IInv'
<1>1. TypeOK'
  BY DEF IInv, TypeOK, Places, Secrets, Nothing, GoesTo, Read, ReadFails, ReadBack
<1>2. FromEnvironment' /\ PoliciesCovered' /\ PoliciesComplete' /\ ConfiguredIsCurrent'
  BY DEF IInv, FromEnvironment, PoliciesCovered, PoliciesComplete, ConfiguredIsCurrent,
         GoesTo, Read, ReadFails, ReadBack
<1>3. ReadIsCurrent' /\ KeyKept'
  BY DEF IInv, TypeOK, ReadIsCurrent, KeyKept, GoesTo, Read, ReadFails, ReadBack
<1> QED
  BY <1>1, <1>2, <1>3 DEF IInv

\* The key that Vault has and the start has read is written as it is.
LEMMA SeedIInv ==
  ASSUME IInv, Seed
  PROVE  IInv'
<1> USE DEF memoryVars, historyVars
<1>1. \A f \in Fields : Fallback(f) \in Values \cup {Empty}
  BY DEF IInv, TypeOK, Fallback
<1>2. TypeOK'
  BY <1>1 DEF IInv, TypeOK, Places, Secrets, GoesTo, Seed
<1>3. FromEnvironment' /\ PoliciesCovered' /\ PoliciesComplete' /\ ConfiguredIsCurrent' /\ ReadIsCurrent'
  BY DEF IInv, FromEnvironment, PoliciesCovered, PoliciesComplete, ConfiguredIsCurrent, ReadIsCurrent,
         GoesTo, Seed
<1>4. KeyKept'
  BY FieldsAssumption DEF IInv, KeyKept, GoesTo, Seed
<1> QED
  BY <1>2, <1>3, <1>4 DEF IInv

LEMMA ConfigureIInv ==
  ASSUME IInv, Configure
  PROVE  IInv'
<1> USE DEF historyVars
<1>1. secret \in [Fields -> Values] /\ \A f \in Fields : secret[f] # Empty
  BY DEF IInv, TypeOK, Secrets, Configure, Complete
<1>2. TypeOK'
  BY <1>1, FieldsAssumption DEF IInv, TypeOK, Places, GoesTo, Configure
<1>3. FromEnvironment' /\ PoliciesCovered' /\ PoliciesComplete' /\ ReadIsCurrent'
  BY DEF FromEnvironment, PoliciesCovered, PoliciesComplete, ReadIsCurrent, GoesTo, Configure
<1>4. ConfiguredIsCurrent' /\ KeyKept'
  BY <1>1 DEF IInv, ReadIsCurrent, ConfiguredIsCurrent, KeyKept, GoesTo, Configure
<1> QED
  BY <1>2, <1>3, <1>4 DEF IInv

\* The new last key is the one in Vault, or that has been touched.
LEMMA ServeIInv ==
  ASSUME IInv, Serve
  PROVE  IInv'
<1> USE DEF memoryVars
<1>1. /\ at = "validated" /\ at' = "serving" /\ rest = {}
      /\ UNCHANGED <<vault, policies, rest, env, secret, settings, signing, failed, touched>>
  BY DEF GoesTo, Serve
<1>2. env.requireVault => /\ lastKey' = signing /\ disturbed' = (JwtField \in touched)
                          /\ signing \in Values
                          /\ JwtField \notin touched => signing = vault[JwtField]
  BY <1>1, FieldsAssumption DEF IInv, TypeOK, ConfiguredIsCurrent, Serve
<1>3. ~env.requireVault => UNCHANGED <<lastKey, disturbed>>
  BY DEF Serve
<1>4. TypeOK'
  <2>1. lastKey' \in Values \cup {Absent}
    BY <1>2, <1>3 DEF IInv, TypeOK
  <2>2. disturbed' \in BOOLEAN
    <3>1. CASE env.requireVault
      <4>1. disturbed' = (JwtField \in touched)
        BY <1>2, <3>1, Zenon
      <4> QED
        BY <4>1
    <3>2. CASE ~env.requireVault
      BY <1>3, <3>2, Zenon DEF IInv, TypeOK
    <3> QED
      BY <3>1, <3>2, Zenon
  <2> QED
    BY <1>1, <2>1, <2>2 DEF IInv, TypeOK, Places
<1>5. FromEnvironment' /\ PoliciesCovered' /\ PoliciesComplete' /\ ReadIsCurrent' /\ ConfiguredIsCurrent'
  BY <1>1 DEF IInv, FromEnvironment, PoliciesCovered, PoliciesComplete, ReadIsCurrent, ConfiguredIsCurrent
<1>6. KeyKept'
  BY <1>1, <1>2, <1>3 DEF IInv, KeyKept
<1> QED
  BY <1>4, <1>5, <1>6 DEF IInv

\* A field that others change in Vault is touched, and the key disturbed.
LEMMA VaultBecomesIInv ==
  ASSUME IInv, NEW s \in Secrets, VaultBecomes(s)
  PROVE  IInv'
<1> USE DEF memoryVars
<1>1. TypeOK'
  BY DEF IInv, TypeOK, VaultBecomes
<1>2. FromEnvironment' /\ PoliciesCovered' /\ PoliciesComplete'
  BY DEF IInv, FromEnvironment, PoliciesCovered, PoliciesComplete, VaultBecomes
<1>3. \A f \in Fields \ touched' : f \notin touched /\ vault'[f] = vault[f]
  BY DEF VaultBecomes
<1>4. ReadIsCurrent' /\ ConfiguredIsCurrent'
  BY <1>3 DEF IInv, ReadIsCurrent, ConfiguredIsCurrent, VaultBecomes
<1>5. KeyKept'
  BY DEF IInv, KeyKept, VaultBecomes
<1> QED
  BY <1>1, <1>2, <1>4, <1>5 DEF IInv

LEMMA NextIInv == IInv /\ [Next]_vars => IInv'
<1> SUFFICES ASSUME IInv, [Next]_vars  PROVE IInv'
  OBVIOUS
<1>1. CASE SkipVault \/ CheckVault \/ Validate \/ AddPolicy
  BY <1>1, QuietIInv
<1>2. CASE Boot
  BY <1>2, BootIInv
<1>3. CASE Stop
  BY <1>3, StopIInv
<1>4. CASE Read \/ ReadFails \/ ReadBack
  BY <1>4, ReadIInv
<1>5. CASE Seed
  BY <1>5, SeedIInv
<1>6. CASE Configure
  BY <1>6, ConfigureIInv
<1>7. CASE Serve
  BY <1>7, ServeIInv
<1>8. CASE Store \/ Lose
  BY <1>8, VaultBecomesIInv DEF Store, Lose, Secrets, Nothing
<1>9. CASE UNCHANGED vars
  BY <1>9 DEF vars, memoryVars, historyVars, IInv, TypeOK, FromEnvironment, ReadIsCurrent,
              ConfiguredIsCurrent, KeyKept, PoliciesCovered, PoliciesComplete
<1> QED
  BY <1>1, <1>2, <1>3, <1>4, <1>5, <1>6, <1>7, <1>8, <1>9 DEF Next

-----------------------------------------------------------------------------
\* The inductive invariant holds of every reachable state.
THEOREM Invariance == Spec => []IInv
  BY InitIInv, NextIInv, PTL DEF Spec

\* The variables keep their types: above all no server has an absent secret.
THEOREM TypeCorrect == Spec => []TypeOK
<1>1. IInv => TypeOK
  BY DEF IInv
<1> QED
  BY Invariance, <1>1, PTL

\* A server that requires Vault differs from it only in what was changed
\* there since it read it (configure_app_secrets).
THEOREM ServersFollowVault == Spec => []ServesVault
<1>1. IInv => ServesVault
  BY DEF IInv, ConfiguredIsCurrent, ServesVault
<1> QED
  BY Invariance, <1>1, PTL

\* A server has all default policies, however many starts died among them:
\* each start adds what it finds missing (seed_default_policies).
THEOREM PoliciesAreComplete == Spec => []PoliciesComplete
<1>1. IInv => PoliciesComplete
  BY DEF IInv
<1> QED
  BY Invariance, <1>1, PTL

\* The seeding replaces a secret of Vault's only after a read that failed,
\* or over an operator's change since (_read_or_seed_app_secret).
THEOREM SecretsAreKept == Spec => SecretsSurvive
<1>1. ASSUME IInv, [Next]_vars, NEW f \in Fields, GoesTo("seeding", "written"),
             vault[f] # Absent, vault'[f] # vault[f], ~failed, f \notin touched
      PROVE  FALSE
  <2>1. secret[f] = vault[f]
    BY <1>1 DEF IInv, ReadIsCurrent, GoesTo
  <2>2. Seed
    BY <1>1 DEF Next, vars, Boot, SkipVault, CheckVault, Read, ReadFails, ReadBack, Configure,
                Validate, AddPolicy, Serve, Stop, Store, Lose, VaultBecomes, GoesTo
  <2> QED
    BY <1>1, <2>1, <2>2 DEF Seed
<1>2. IInv /\ [Next]_vars =>
        [\A f \in Fields :
            GoesTo("seeding", "written") /\ vault[f] # Absent /\ vault'[f] # vault[f] =>
                failed \/ f \in touched]_vars
  BY <1>1
<1> QED
  BY Invariance, <1>2, PTL DEF Spec, SecretsSurvive

\* Tokens outlive restarts while Vault's key is left alone.
THEOREM KeysOutliveRestarts == Spec => KeyOutlivesRestarts
<1>1. IInv => [GoesTo("validated", "serving") /\ env.requireVault /\ lastKey # Absent /\ ~disturbed =>
                  signing = lastKey]_vars
  BY DEF IInv, KeyKept, GoesTo
<1> QED
  BY Invariance, <1>1, PTL DEF KeyOutlivesRestarts

-----------------------------------------------------------------------------
(* Where Vault always answers and nobody else writes to it: the process may *)
(* still be stopped anywhere, and be started in any environment.            *)

\* A secret that is in Vault stays as it is.
VaultOnlyFills ==
    [][\A f \in Fields : vault[f] # Absent => vault'[f] = vault[f]]_vars

ServingFromVault == at = "serving" /\ env.requireVault

\* Every server that requires Vault signs with the key that is there.
OneKey == ServingFromVault => signing = vault[JwtField]

\* An empty field is no missing one to the seeding and a missing one to the
\* check after it, so that once one is in Vault no start that requires Vault
\* gets through, whatever its environment has (startup.py:58-72).
EmptyLocksOut == \A f \in Fields : [](vault[f] = Empty => []~ServingFromVault)

Quiet ==
    /\ failed = FALSE
    /\ touched = {}

LEMMA QuietHolds ==
  ASSUME Faults = {}
  PROVE  /\ Init => Quiet
         /\ Quiet /\ [Next]_vars => Quiet'
<1>1. Init => Quiet
  BY DEF Init, Quiet
<1>2. ASSUME Quiet, [Next]_vars PROVE Quiet'
  BY <1>2
  DEF Quiet, Next, vars, memoryVars, historyVars, Boot, SkipVault, CheckVault, Read, ReadFails,
      Seed, ReadBack, Configure, Validate, AddPolicy, Serve, Stop, Store, Lose
<1> QED
  BY <1>1, <1>2

\* Only the seeding writes, and what it writes over what it read is that.
LEMMA SeedFills ==
  ASSUME Faults = {}, IInv, Quiet, [Next]_vars, NEW f \in Fields, vault[f] # Absent
  PROVE  vault'[f] = vault[f]
<1>1. CASE Seed
  <2>1. secret[f] = vault[f]
    BY <1>1 DEF Seed, GoesTo, IInv, ReadIsCurrent, Quiet
  <2> QED
    BY <1>1, <2>1 DEF Seed
<1>2. CASE ~Seed
  BY <1>2
  DEF Next, vars, Boot, SkipVault, CheckVault, Read, ReadFails, ReadBack, Configure,
      Validate, AddPolicy, Serve, Stop, Store, Lose
<1> QED
  BY <1>1, <1>2

\* Started ever so often, in whatever environments, the API never changes a
\* secret that is in Vault.
THEOREM SecretsAreFilledIn == ASSUME Faults = {} PROVE Spec => VaultOnlyFills
<1>1. IInv /\ Quiet /\ [Next]_vars => \A f \in Fields : vault[f] # Absent => vault'[f] = vault[f]
  BY SeedFills
<1> QED
  BY <1>1, QuietHolds, Invariance, PTL DEF Spec, VaultOnlyFills

\* So all servers that require Vault sign, and accept, the same tokens.
THEOREM KeysAgree == ASSUME Faults = {} PROVE Spec => []OneKey
<1>1. IInv /\ Quiet => OneKey
  BY FieldsAssumption DEF IInv, Quiet, ConfiguredIsCurrent, OneKey, ServingFromVault
<1> QED
  BY <1>1, QuietHolds, Invariance, PTL DEF Spec

\* And the same rule makes an empty secret final.
THEOREM EmptySecretsLockOut == ASSUME Faults = {} PROVE Spec => EmptyLocksOut
<1>1. ASSUME NEW f \in Fields
      PROVE  Spec => [](vault[f] = Empty => []~ServingFromVault)
  <2>1. IInv /\ Quiet /\ vault[f] = Empty /\ [Next]_vars => (vault[f] = Empty)'
    BY SeedFills, ValuesAssumption
  <2>2. IInv /\ Quiet /\ vault[f] = Empty => ~ServingFromVault
    BY DEF IInv, Quiet, ConfiguredIsCurrent, ServingFromVault
  <2> QED
    BY <2>1, <2>2, QuietHolds, Invariance, PTL DEF Spec
<1> QED
  BY <1>1 DEF EmptyLocksOut
=============================================================================
