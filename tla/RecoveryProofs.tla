---------------------------- MODULE RecoveryProofs ----------------------------
(***************************************************************************)
(* The safety invariants of the engine hold in every incarnation of a      *)
(* coordinator that is killed anywhere and started again from its state    *)
(* file.  The running incarnation preserves SafetyInv by the proofs of     *)
(* CoordinatorProofs, once no late completion is accepted; what is left is *)
(* that load re-establishes it from any state saved earlier.               *)
(***************************************************************************)
EXTENDS Recovery, CoordinatorProofs

\* Time limits of the provers, in seconds.
USE ZenonT(4), SMTT(15), ZenonT(30), SMTT(90)

\* A state that can be loaded: what SafetyInv says of the durable variables alone.
Image(v) ==
    /\ v \in Durable
    /\ \A p \in PlanIds : v.plans[p] # None =>
          /\ v.operations[v.plans[p].operation] # None
          /\ v.plans[p].lifecycle = "COMMITTED" =>
                \E i \in DOMAIN v.results : /\ v.results[i].authority.plan = p
                                            /\ v.results[i].committed
    /\ \A i \in DOMAIN v.results :
          LET m == v.results[i].authority IN
          /\ v.plans[m.plan] # None
          /\ v.plans[m.plan].lifecycle \notin Live
          /\ v.results[i].committed => /\ v.plans[m.plan].lifecycle = "COMMITTED"
                                       /\ v.plans[m.plan].dispatch = m.dispatch

\* The running incarnation remembers all of v.
Kept(v) ==
    /\ Len(v.results) <= Len(results)
    /\ \A i \in DOMAIN v.results : results[i] = v.results[i]
    /\ \A p \in PlanIds : v.plans[p] # None =>
          /\ plans[p] # None
          /\ plans[p].target = v.plans[p].target
          /\ plans[p].snapshot = v.plans[p].snapshot
          /\ v.plans[p].lifecycle = "COMMITTED" => plans[p].lifecycle = "COMMITTED"
          /\ v.plans[p].dispatch # None => pinned_msg(p, v.plans[p].dispatch) \in sent

\* What earlier incarnations handed out concerns plans that are unknown or closed by now.
LostIsClosed ==
    /\ lost \subseteq DispatchMsg
    /\ \A m \in lost : m.plan \in used /\ (plans[m.plan] # None => plans[m.plan].lifecycle \notin Live)

RecoveryInv ==
    /\ SafetyInv
    /\ existing \subseteq used
    /\ LostIsClosed
    /\ recovered \in Nat
    /\ NoAuthorityCrossesRestart
    /\ \A v \in offered : Image(v) /\ Kept(v)
    /\ recovers => Image(file) /\ Kept(file)

-----------------------------------------------------------------------------
LEMMA RecoveryInvInit == RecoveryInit => RecoveryInv
<1> SUFFICES ASSUME RecoveryInit PROVE RecoveryInv
    OBVIOUS
<1>1. SafetyInv
    BY SafetyInit DEF RecoveryInit
<1>2. existing = {} /\ DOMAIN results = {}
    BY DEF RecoveryInit, Init, existing
<1>3. file = None /\ offered = {} /\ lost = {} /\ recovered = 0
    BY DEF RecoveryInit, Register!Init
<1>4. QED BY <1>1, <1>2, <1>3
    DEF RecoveryInv, LostIsClosed, NoAuthorityCrossesRestart, recovers

-----------------------------------------------------------------------------
(* The running process.                                                    *)

\* A late completion finds its plan unknown or closed, so a call is a step of the engine.
LEMMA CallIsNext ==
    ASSUME RecoveryInv, call
    PROVE  Next
<1>1. ASSUME NEW m \in lost, NEW outcome, apply_result(m, outcome) PROVE FALSE
    BY <1>1 DEF RecoveryInv, LostIsClosed, apply_result, accepted, in, Live
<1>2. QED BY <1>1 DEF call

\* The results only grow.
LEMMA ResultsGrow ==
    ASSUME SafetyInv, [Next]_vars
    PROVE  /\ Len(results) <= Len(results') /\ Len(results) \in Nat
           /\ DOMAIN results = 1 .. Len(results)
           /\ \A i \in DOMAIN results : i \in DOMAIN results' /\ results'[i] = results[i]
           /\ \A i \in DOMAIN results' : i \notin DOMAIN results =>
                 /\ i = Len(results) + 1
                 /\ \E p \in existing : /\ results'[i].authority.plan = p
                                        /\ plans[p].lifecycle \in InFlight
<1>1. results \in Seq(ExecutionResult) /\ TypeInv
    BY DEF SafetyInv, TypeInv, TypeOK
<1>2. CASE results' = results
    BY <1>1, <1>2
<1>3. CASE results' # results
    <2>1. PICK m \in DispatchMsg, outcome \in {"intact", "corrupt", "unknown"} :
             /\ m.plan \in existing
             /\ plans[m.plan].lifecycle \in InFlight
             /\ results' = Append(results, new_result(m, outcome))
        BY <1>1, <1>3, RecordStep
    <2>2. new_result(m, outcome) \in ExecutionResult /\ new_result(m, outcome).authority = m
        BY DEF new_result, ExecutionResult
    <2>3. /\ DOMAIN results' = DOMAIN results \cup {Len(results) + 1}
          /\ \A i \in DOMAIN results : results'[i] = results[i]
          /\ results'[Len(results) + 1] = new_result(m, outcome)
        BY <1>1, <2>1, <2>2, Appended
    <2>4. Len(results') = Len(results) + 1 /\ Len(results) \in Nat
        BY <1>1, <2>1, <2>2
    <2>5. QED BY <1>1, <2>1, <2>2, <2>3, <2>4
<1>4. QED BY <1>2, <1>3

\* What is remembered stays remembered while the process runs.
LEMMA KeptStep ==
    ASSUME SafetyInv, [Next]_vars, NEW v, v \in Durable, Kept(v)
    PROVE  Kept(v)'
<1>1. TypeInv
    BY DEF SafetyInv
<1>2. sent \subseteq sent'
    BY WhatChanges DEF prepare_dispatch
<1>3. v.results \in Seq(ExecutionResult) /\ Len(v.results) \in Nat
    BY DEF Durable
<1>4. Len(v.results) <= Len(results') /\ \A i \in DOMAIN v.results : results'[i] = v.results[i]
    BY <1>3, ResultsGrow DEF Kept
<1>5. ASSUME NEW p \in PlanIds, v.plans[p] # None
      PROVE  /\ plans'[p] # None
             /\ plans'[p].target = v.plans[p].target
             /\ plans'[p].snapshot = v.plans[p].snapshot
             /\ v.plans[p].lifecycle = "COMMITTED" => plans'[p].lifecycle = "COMMITTED"
             /\ v.plans[p].dispatch # None => pinned_msg(p, v.plans[p].dispatch)' \in sent'
    <2>1. p \in existing
        BY <1>5 DEF Kept, existing
    <2>2. PlanStep(p)
        BY <1>1, <2>1, StepFacts
    <2>3. pinned_msg(p, v.plans[p].dispatch)' = pinned_msg(p, v.plans[p].dispatch)
        BY <1>1, <2>1, PinnedStable
    <2>4. /\ plans[p].target = v.plans[p].target
          /\ plans[p].snapshot = v.plans[p].snapshot
          /\ v.plans[p].lifecycle = "COMMITTED" => plans[p].lifecycle = "COMMITTED"
          /\ v.plans[p].dispatch # None => pinned_msg(p, v.plans[p].dispatch) \in sent
        BY <1>5 DEF Kept
    <2>5. plans[p].lifecycle = "COMMITTED" => plans'[p].lifecycle = "COMMITTED"
        BY <2>2 DEF PlanStep, Forward, InFlight
    <2>6. QED BY <1>2, <2>2, <2>3, <2>4, <2>5 DEF PlanStep
<1>6. QED BY <1>4, <1>5 DEF Kept

LEMMA CallStep ==
    ASSUME RecoveryInv, call
    PROVE  RecoveryInv'
<1>1. [Next]_vars /\ SafetyInv /\ SafetyInv' /\ TypeInv
    BY CallIsNext, SafetyNext DEF RecoveryInv, SafetyInv
<1>2. /\ file' = file /\ offered' = offered /\ lost' = lost /\ recovered' = recovered
      /\ used' = used \cup existing'
      /\ existing' \cap used \subseteq existing
    BY DEF call
<1>3. LostIsClosed'
    <2>1. ASSUME NEW m \in lost, plans'[m.plan] # None
          PROVE  plans'[m.plan].lifecycle \notin Live
        <3>1. m.plan \in existing
            BY <1>2, <2>1 DEF RecoveryInv, LostIsClosed, DispatchMsg, existing
        <3>2. plans[m.plan].lifecycle \notin Live
            BY <3>1 DEF RecoveryInv, LostIsClosed, existing
        <3>3. PlanStep(m.plan)
            BY <1>1, <3>1, StepFacts
        <3>4. QED BY <3>2, <3>3 DEF PlanStep, Forward, Live, InFlight
    <2>2. QED BY <1>2, <2>1 DEF RecoveryInv, LostIsClosed
<1>4. NoAuthorityCrossesRestart'
    <2>1. ASSUME NEW i \in DOMAIN results', i > recovered PROVE results'[i].authority \notin lost
        <3>1. CASE i \in DOMAIN results
            BY <1>1, <2>1, <3>1, ResultsGrow DEF RecoveryInv, NoAuthorityCrossesRestart
        <3>2. CASE i \notin DOMAIN results
            <4>1. PICK p \in existing : /\ results'[i].authority.plan = p
                                        /\ plans[p].lifecycle \in InFlight
                BY <1>1, <2>1, <3>2, ResultsGrow
            <4>2. QED BY <4>1 DEF RecoveryInv, LostIsClosed, existing, Live
        <3>3. QED BY <3>1, <3>2
    <2>2. QED BY <1>2, <2>1 DEF NoAuthorityCrossesRestart
<1>5. \A v \in offered : Image(v)' /\ Kept(v)'
    BY <1>1, KeptStep DEF RecoveryInv, Image
<1>6. recovers' => Image(file)' /\ Kept(file)'
    BY <1>1, <1>2, KeptStep DEF RecoveryInv, recovers, decodes, Image
<1>7. QED BY <1>1, <1>2, <1>3, <1>4, <1>5, <1>6 DEF RecoveryInv

\* The state that is running can be loaded later.
LEMMA DurableImage ==
    ASSUME SafetyInv
    PROVE  Image(durable) /\ Kept(durable)
<1>1. /\ durable.plans = plans /\ durable.results = results /\ durable.operations = operations
    BY DEF durable
<1>2. durable \in Durable
    BY DEF durable, Durable, SafetyInv, TypeInv, TypeOK
<1>3. ASSUME NEW p \in PlanIds, plans[p] # None
      PROVE  /\ operations[plans[p].operation] # None
             /\ plans[p].lifecycle = "COMMITTED" =>
                   \E i \in DOMAIN results : results[i].authority.plan = p /\ results[i].committed
             /\ plans[p].dispatch # None => pinned_msg(p, plans[p].dispatch) \in sent
    BY <1>3 DEF SafetyInv, TypeInv, PlansNameOperations, ResultMatchesPlan, HandedOut, existing
<1>4. ASSUME NEW i \in DOMAIN results
      PROVE  LET m == results[i].authority IN
             /\ plans[m.plan] # None
             /\ plans[m.plan].lifecycle \notin Live
             /\ results[i].committed => /\ plans[m.plan].lifecycle = "COMMITTED"
                                        /\ plans[m.plan].dispatch = m.dispatch
    BY <1>4 DEF SafetyInv, ResultsSettled, CommitsWereHandedOut, existing
<1>5. Len(results) \in Nat
    BY DEF SafetyInv, TypeInv, TypeOK
<1>6. Image(durable)
    BY <1>1, <1>2, <1>3, <1>4 DEF Image
<1>7. Kept(durable)
    BY <1>1, <1>3, <1>5 DEF Kept
<1>8. QED BY <1>6, <1>7

\* A step of the store leaves the engine alone.
LEMMA EngineUnchanged ==
    ASSUME RecoveryInv, UNCHANGED <<vars, used, lost, recovered>>
    PROVE  /\ SafetyInv' /\ existing' \subseteq used' /\ LostIsClosed' /\ recovered' \in Nat
           /\ NoAuthorityCrossesRestart'
           /\ \A v : Image(v) /\ Kept(v) => Kept(v)'
<1>1. SafetyInv' /\ SafetyInv /\ [Next]_vars
    BY SafetyNext DEF RecoveryInv
<1>2. UNCHANGED <<plans, results>>
    BY DEF vars, planVars
<1>3. \A v : Image(v) /\ Kept(v) => Kept(v)'
    BY <1>1, KeptStep DEF Image
<1>4. existing' = existing
    BY <1>2 DEF existing
<1>5. QED BY <1>1, <1>2, <1>3, <1>4
    DEF RecoveryInv, LostIsClosed, NoAuthorityCrossesRestart

LEMMA SaveStep ==
    ASSUME RecoveryInv, save
    PROVE  RecoveryInv'
<1>1. UNCHANGED <<vars, used, lost, recovered>> /\ file' = file
    BY DEF save, Register!Offer
<1>2. PICK d : d = durable
    OBVIOUS
<1>3. offered' = offered \cup {d}
    BY <1>2 DEF save, Register!Offer
<1>4. Image(d) /\ Kept(d)
    BY <1>2, DurableImage DEF RecoveryInv
<1>5. \A v \in offered' : Image(v) /\ Kept(v)'
    BY <1>1, <1>3, <1>4, EngineUnchanged DEF RecoveryInv
<1>6. recovers' => Image(file)' /\ Kept(file)'
    BY <1>1, EngineUnchanged DEF RecoveryInv, recovers, decodes, Image
<1>7. QED BY <1>1, <1>5, <1>6, EngineUnchanged DEF RecoveryInv, Image

LEMMA SaveEndsStep ==
    ASSUME RecoveryInv, save_ends
    PROVE  RecoveryInv'
<1>1. UNCHANGED <<vars, used, lost, recovered>>
    BY DEF save_ends
<1>2. offered' \subseteq offered /\ (file' = file \/ file' \in offered)
    BY DEF save_ends, Register!Install, Register!Withdraw
<1>3. \A v \in offered : Image(v) /\ Kept(v)'
    BY <1>1, EngineUnchanged DEF RecoveryInv
<1>4. recovers' => Image(file)' /\ Kept(file)'
    <2>1. CASE file' = file
        BY <1>1, <2>1, EngineUnchanged DEF RecoveryInv, recovers, decodes, Image
    <2>2. CASE file' \in offered
        <3>1. PICK x \in offered : x = file'
            BY <2>2
        <3>2. Image(x) /\ Kept(x)'
            BY <1>3
        <3>3. QED BY <3>1, <3>2 DEF Image, Kept
    <2>3. QED BY <1>2, <2>1, <2>2
<1>5. QED BY <1>1, <1>2, <1>3, <1>4, EngineUnchanged DEF RecoveryInv, Image

-----------------------------------------------------------------------------
(* Restart.                                                                *)

\* Loading a plan keeps all of it but its lifecycle, and leaves nothing live.
LEMMA WithdrawnFacts ==
    ASSUME NEW pl \in [PlanIds -> ExecutionPlan \cup {None}]
    PROVE  /\ withdrawn(pl) \in [PlanIds -> ExecutionPlan \cup {None}]
           /\ \A p \in PlanIds : withdrawn(pl)[p] = None <=> pl[p] = None
           /\ \A p \in PlanIds : pl[p] # None =>
                /\ SameButLifecycle(pl[p], withdrawn(pl)[p])
                /\ withdrawn(pl)[p].lifecycle \notin Live
                /\ withdrawn(pl)[p].lifecycle \in {"COMMITTED", "OUTCOME_UNKNOWN", "SUPERSEDED"}
                /\ withdrawn(pl)[p].lifecycle = "COMMITTED" <=> pl[p].lifecycle = "COMMITTED"
<1> DEFINE w == withdrawn(pl)
<1>1. ASSUME NEW p \in PlanIds, pl[p] # None, pl[p].lifecycle # "COMMITTED"
      PROVE  /\ w[p] \in ExecutionPlan /\ w[p] # None
             /\ SameButLifecycle(pl[p], w[p])
             /\ w[p].lifecycle \in {"OUTCOME_UNKNOWN", "SUPERSEDED"}
    <2>1. pl[p] \in ExecutionPlan /\ pl[p].lifecycle \in ExecutionLifecycle
        BY <1>1 DEF ExecutionPlan
    <2>2. PICK l : l = unknown_or_superseded[pl[p].lifecycle]
        OBVIOUS
    <2>3. l \in {"OUTCOME_UNKNOWN", "SUPERSEDED"} /\ l \in ExecutionLifecycle
        BY <2>1, <2>2 DEF unknown_or_superseded, ExecutionLifecycle
    <2>4. w[p] = [pl[p] EXCEPT !.lifecycle = l]
        BY <1>1, <2>1, <2>2 DEF withdrawn, ExecutionPlan
    <2>5. w[p] \in ExecutionPlan /\ SameButLifecycle(pl[p], w[p]) /\ w[p].lifecycle = l
        BY <2>1, <2>3, <2>4 DEF ExecutionPlan, SameButLifecycle
    <2>6. QED BY <2>3, <2>5, NoneIsNoEntry
<1>2. ASSUME NEW p \in PlanIds, pl[p] = None \/ pl[p].lifecycle = "COMMITTED"
      PROVE  w[p] = pl[p]
    BY <1>2 DEF withdrawn
<1>3. \A p \in PlanIds : w[p] \in ExecutionPlan \cup {None}
    BY <1>1, <1>2
<1>4. w \in [PlanIds -> ExecutionPlan \cup {None}]
    BY <1>3 DEF withdrawn
<1>5. ASSUME NEW p \in PlanIds, pl[p] # None
      PROVE  /\ w[p] # None
             /\ SameButLifecycle(pl[p], w[p])
             /\ w[p].lifecycle \notin Live
             /\ w[p].lifecycle \in {"COMMITTED", "OUTCOME_UNKNOWN", "SUPERSEDED"}
             /\ w[p].lifecycle = "COMMITTED" <=> pl[p].lifecycle = "COMMITTED"
    <2>1. CASE pl[p].lifecycle = "COMMITTED"
        BY <1>2, <1>5, <2>1 DEF SameButLifecycle, Live, InFlight
    <2>2. CASE pl[p].lifecycle # "COMMITTED"
        BY <1>1, <1>5, <2>2 DEF Live, InFlight
    <2>3. QED BY <2>1, <2>2
<1>6. QED BY <1>2, <1>4, <1>5

\* What every restart does to the histories and to the evidence.
LEMMA RestartFacts ==
    ASSUME RecoveryInv, restart
    PROVE  /\ file' = file /\ offered' = {} /\ used' = used /\ lost' = lost \cup sent
           /\ recovered' = Len(results')
           /\ sent' = {m \in sent : m.plan \in existing'}
           /\ revoked' = {p \in existing' : p \in revoked \/ plans'[p].lifecycle # "COMMITTED"}
           /\ runtime' \in [Targets -> TargetRuntime \cup {None}]
           /\ capabilities' \in [Targets -> CapabilitySet \cup {None}]
           /\ data_evidence' \in [Regions -> DataEvidence \cup {None}]
           /\ workers' \in [Workers -> [boot : Boots, connected : BOOLEAN] \cup {None}]
           /\ reservations' \in [Targets -> [slots : Nat, workspace : Nat]]
           /\ sent' \subseteq DispatchMsg
           /\ revoked' \subseteq PlanIds
<1>1. forget
    BY DEF restart, load, start_empty
<1>2. sent \subseteq DispatchMsg
    BY DEF RecoveryInv, SafetyInv, TypeInv, TypeOK
<1>3. QED BY <1>1, <1>2 DEF restart, Register!Withdraw, forget, existing

\* A restart that finds nothing to load is a new beginning.
LEMMA EmptyStep ==
    ASSUME RecoveryInv, restart, ~recovers, start_empty
    PROVE  RecoveryInv'
<1>1. existing' = {} /\ results' = <<>> /\ DOMAIN results' = {}
    BY DEF start_empty, existing
<1>2. /\ file' = file /\ offered' = {} /\ used' = used /\ lost' = lost \cup sent
      /\ recovered' = 0 /\ sent' = {} /\ revoked' = {}
    BY <1>1, RestartFacts
<1>3. TypeOK'
    <2>1. default_policy \in Descriptor
        BY IdTypes DEF default_policy, Descriptor
    <2>2. results' \in Seq(ExecutionResult)
        BY <1>1
    <2>3. QED BY <1>2, <2>1, <2>2, RestartFacts DEF start_empty, TypeOK
<1>4. SafetyInv'
    BY <1>1, <1>2, <1>3
    DEF SafetyInv, TypeInv, PlansNameOperations, LivePlansAreOfThisEpoch, RevokedNeverCommits,
        ResultsSettled, ResultMatchesPlan, DispatchCarriesPinnedAuthority, HandedOut,
        CommitsWereHandedOut, IndexedPlansAreOpen, start_empty
<1>5. LostIsClosed'
    <2>1. \A m \in sent : m \in DispatchMsg /\ m.plan \in existing
        BY DEF RecoveryInv, SafetyInv, TypeInv, TypeOK, DispatchCarriesPinnedAuthority,
               DispatchMsg, existing
    <2>2. \A m \in lost' : m \in DispatchMsg /\ m.plan \in used /\ plans'[m.plan] = None
        BY <1>2, <2>1 DEF RecoveryInv, LostIsClosed, DispatchMsg, start_empty
    <2>3. QED BY <1>2, <2>2 DEF LostIsClosed
<1>6. ~recovers'
    BY <1>2 DEF recovers, decodes
<1>7. QED BY <1>1, <1>2, <1>4, <1>5, <1>6 DEF RecoveryInv, NoAuthorityCrossesRestart

\* What load makes of the plans and results of a file it can read.
LEMMA Loaded ==
    ASSUME RecoveryInv, restart, recovers, load(file)
    PROVE  /\ Image(file) /\ Kept(file) /\ results' = file.results
           /\ plans' \in [PlanIds -> ExecutionPlan \cup {None}]
           /\ \A p \in PlanIds : plans'[p] = None <=> file.plans[p] = None
           /\ existing' \subseteq existing
           /\ \A p \in existing' :
                /\ file.plans[p] # None
                /\ SameButLifecycle(file.plans[p], plans'[p])
                /\ plans'[p].lifecycle \notin Live
                /\ plans'[p].lifecycle \in {"COMMITTED", "OUTCOME_UNKNOWN", "SUPERSEDED"}
                /\ plans'[p].lifecycle = "COMMITTED" <=> file.plans[p].lifecycle = "COMMITTED"
                /\ plans'[p].target = plans[p].target /\ plans'[p].snapshot = plans[p].snapshot
           /\ \A p \in existing' : \A d : pinned_msg(p, d)' = pinned_msg(p, d)
<1>1. Image(file) /\ Kept(file) /\ file \in Durable
    BY DEF RecoveryInv, Image
<1>2. file.plans \in [PlanIds -> ExecutionPlan \cup {None}] /\ plans' = withdrawn(file.plans)
    BY <1>1 DEF Durable, load
<1>3. /\ plans' \in [PlanIds -> ExecutionPlan \cup {None}]
      /\ \A p \in PlanIds : plans'[p] = None <=> file.plans[p] = None
      /\ \A p \in PlanIds : file.plans[p] # None =>
           /\ SameButLifecycle(file.plans[p], plans'[p])
           /\ plans'[p].lifecycle \notin Live
           /\ plans'[p].lifecycle \in {"COMMITTED", "OUTCOME_UNKNOWN", "SUPERSEDED"}
           /\ plans'[p].lifecycle = "COMMITTED" <=> file.plans[p].lifecycle = "COMMITTED"
    BY <1>2, WithdrawnFacts
<1>4. \A p \in existing' : p \in PlanIds /\ plans'[p] # None /\ file.plans[p] # None
    BY <1>3 DEF existing
<1>5. \A p \in existing' : /\ p \in existing
                           /\ plans'[p].target = plans[p].target
                           /\ plans'[p].snapshot = plans[p].snapshot
    BY <1>1, <1>3, <1>4 DEF Kept, SameButLifecycle, existing
<1>6. \A p \in existing' : \A d : pinned_msg(p, d)' = pinned_msg(p, d)
    BY <1>5 DEF pinned_msg
<1>7. results' = file.results
    BY DEF load
<1>8. QED BY <1>1, <1>3, <1>4, <1>5, <1>6, <1>7

\* Every result of the file is the same result of the incarnation that is gone, of a plan that
\* is known after the load.
LEMMA LoadedResults ==
    ASSUME RecoveryInv, restart, recovers, load(file)
    PROVE  \A i \in DOMAIN results' :
             /\ i \in DOMAIN results /\ results'[i] = results[i] /\ results[i] \in ExecutionResult
             /\ results'[i].authority \in DispatchMsg
             /\ results'[i].authority.plan \in existing'
             /\ results'[i].committed =>
                   LET p == results'[i].authority.plan IN
                   /\ plans'[p].lifecycle = "COMMITTED"
                   /\ plans'[p].dispatch = results'[i].authority.dispatch
<1>1. /\ file.results \in Seq(ExecutionResult) /\ results \in Seq(ExecutionResult)
      /\ results' = file.results /\ Len(file.results) <= Len(results)
      /\ \A i \in DOMAIN file.results : results[i] = file.results[i]
    BY Loaded DEF Image, Durable, Kept, RecoveryInv, SafetyInv, TypeInv, TypeOK
<1>2. ASSUME NEW i \in DOMAIN results'
      PROVE  i \in DOMAIN results /\ results'[i] = results[i] /\ results[i] \in ExecutionResult
    BY <1>1
<1>3. ASSUME NEW i \in DOMAIN results'
      PROVE  /\ results'[i].authority \in DispatchMsg
             /\ results'[i].authority.plan \in existing'
             /\ results'[i].committed =>
                   LET p == results'[i].authority.plan IN
                   /\ plans'[p].lifecycle = "COMMITTED"
                   /\ plans'[p].dispatch = results'[i].authority.dispatch
    <2> DEFINE m == results'[i].authority
    <2>1. m \in DispatchMsg /\ m.plan \in PlanIds
        BY <1>2 DEF ExecutionResult, DispatchMsg
    <2>2. /\ file.plans[m.plan] # None
          /\ results'[i].committed => /\ file.plans[m.plan].lifecycle = "COMMITTED"
                                      /\ file.plans[m.plan].dispatch = m.dispatch
        BY <1>1, Loaded DEF Image
    <2>3. m.plan \in existing'
        BY <2>1, <2>2, Loaded DEF existing
    <2>4. QED BY <2>1, <2>2, <2>3, Loaded DEF SameButLifecycle
<1>4. QED BY <1>2, <1>3

LEMMA LoadSafety ==
    ASSUME RecoveryInv, restart, recovers, load(file)
    PROVE  SafetyInv'
<1>1. TypeOK'
    <2>1. file \in Durable
        BY Loaded DEF Image
    <2>2. /\ epoch' \in Nat /\ descriptors' \subseteq Descriptor
          /\ operations' \in [Operations -> OperationSpec \cup {None}]
          /\ targets' \in [Targets -> TargetDefinition \cup {None}]
          /\ results' \in Seq(ExecutionResult)
        BY <2>1 DEF load, Durable
    <2>3. active_plans' \in [Operations -> PlanIds \cup {None}]
        BY RebuiltType DEF load
    <2>4. QED BY <2>2, <2>3, Loaded, RestartFacts DEF TypeOK
<1>2. PlansNameOperations'
    <2>1. ASSUME NEW p \in existing' PROVE operations'[plans'[p].operation] # None
        <3>1. p \in PlanIds /\ file.plans[p] # None /\ plans'[p].operation = file.plans[p].operation
            BY Loaded DEF existing, SameButLifecycle
        <3>2. Image(file) /\ operations' = file.operations
            BY Loaded DEF load
        <3>3. QED BY <3>1, <3>2 DEF Image
    <2>2. QED BY <2>1 DEF PlansNameOperations
<1>3. LivePlansAreOfThisEpoch'
    BY Loaded DEF LivePlansAreOfThisEpoch
<1>4. RevokedNeverCommits'
    <2>1. ASSUME NEW p \in revoked'
          PROVE  plans'[p] # None /\ plans'[p].lifecycle \notin Live \cup {"COMMITTED"}
        <3>1. p \in existing' /\ (p \in revoked \/ plans'[p].lifecycle # "COMMITTED")
            BY RestartFacts
        <3>2. plans'[p] # None /\ plans'[p].lifecycle \notin Live /\ p \in PlanIds
            BY <3>1, Loaded DEF existing
        <3>3. ASSUME p \in revoked, plans'[p].lifecycle = "COMMITTED" PROVE FALSE
            BY <3>1, <3>2, <3>3, Loaded DEF Kept, RecoveryInv, SafetyInv, RevokedNeverCommits
        <3>4. QED BY <3>1, <3>2, <3>3
    <2>2. QED BY <2>1 DEF RevokedNeverCommits
<1>5. ResultsSettled'
    BY Loaded, LoadedResults DEF ResultsSettled
<1>6. ResultMatchesPlan'
    <2>1. \A i, j \in DOMAIN results' :
            results'[i].authority.plan = results'[j].authority.plan => i = j
        BY LoadedResults DEF RecoveryInv, SafetyInv, ResultMatchesPlan
    <2>2. ASSUME NEW p \in existing', plans'[p].lifecycle = "COMMITTED"
          PROVE  \E i \in DOMAIN results' : results'[i].authority.plan = p /\ results'[i].committed
        <3>1. /\ p \in PlanIds /\ file.plans[p] # None /\ file.plans[p].lifecycle = "COMMITTED"
              /\ results' = file.results /\ Image(file)
            BY <2>2, Loaded DEF existing
        <3>2. QED BY <3>1 DEF Image
    <2>3. QED BY <2>1, <2>2, LoadedResults DEF ResultMatchesPlan
<1>7. DispatchCarriesPinnedAuthority'
    <2>1. ASSUME NEW m \in sent'
          PROVE  plans'[m.plan] # None /\ m = pinned_msg(m.plan, m.dispatch)'
        <3>1. m \in sent /\ m.plan \in existing'
            BY RestartFacts
        <3>2. m = pinned_msg(m.plan, m.dispatch)
            BY <3>1 DEF RecoveryInv, SafetyInv, DispatchCarriesPinnedAuthority
        <3>3. QED BY <3>1, <3>2, Loaded DEF existing
    <2>2. QED BY <2>1 DEF DispatchCarriesPinnedAuthority
<1>8. HandedOut'
    <2>1. ASSUME NEW p \in existing', plans'[p].dispatch # None
          PROVE  pinned_msg(p, plans[p].dispatch)' \in sent'
        <3>1. p \in PlanIds /\ file.plans[p] # None /\ plans'[p].dispatch = file.plans[p].dispatch
            BY Loaded DEF existing, SameButLifecycle
        <3>2. pinned_msg(p, plans'[p].dispatch) \in sent
            BY <2>1, <3>1, Loaded DEF Kept
        <3>3. pinned_msg(p, plans'[p].dispatch).plan = p
            BY DEF pinned_msg
        <3>4. pinned_msg(p, plans'[p].dispatch) \in sent'
            BY <3>2, <3>3, RestartFacts
        <3>5. pinned_msg(p, plans[p].dispatch)' = pinned_msg(p, plans'[p].dispatch)
            <4>1. plans'[p].target = plans[p].target /\ plans'[p].snapshot = plans[p].snapshot
                BY Loaded
            <4>2. QED BY <4>1 DEF pinned_msg
        <3>6. QED BY <3>4, <3>5
    <2>2. QED BY <2>1 DEF HandedOut
<1>9. CommitsWereHandedOut'
    <2>1. ASSUME NEW i \in DOMAIN results', results'[i].committed
          PROVE  LET m == results'[i].authority IN
                 /\ plans'[m.plan] # None
                 /\ m.dispatch = plans'[m.plan].dispatch
                 /\ [m EXCEPT !.target = plans'[m.plan].target] \in sent'
        <3> DEFINE m == results'[i].authority
        <3>1. /\ i \in DOMAIN results /\ m = results[i].authority /\ results[i].committed
              /\ m \in DispatchMsg /\ m.plan \in existing'
              /\ m.dispatch = plans'[m.plan].dispatch
            BY <2>1, LoadedResults
        <3>2. plans'[m.plan] # None /\ plans'[m.plan].target = plans[m.plan].target
            BY <3>1, Loaded DEF existing
        <3>3. [m EXCEPT !.target = plans[m.plan].target] \in sent
            BY <3>1 DEF RecoveryInv, SafetyInv, CommitsWereHandedOut
        <3>4. [m EXCEPT !.target = plans[m.plan].target].plan = m.plan
            BY <3>1 DEF DispatchMsg
        <3>5. [m EXCEPT !.target = plans[m.plan].target] \in sent'
            BY <3>1, <3>3, <3>4, RestartFacts
        <3>6. QED BY <3>1, <3>2, <3>5
    <2>2. QED BY <2>1 DEF CommitsWereHandedOut
<1>10. IndexedPlansAreOpen'
    <2>1. active_plans' = rebuild_active_plans(plans')
        BY DEF load
    <2>2. ASSUME NEW o \in Operations, active_plans'[o] # None
          PROVE  LET pl == plans'[active_plans'[o]] IN
                 /\ pl # None /\ pl.operation = o
                 /\ pl.lifecycle \notin {"COMMITTED", "FAILED", "CANCELLED", "FENCED"}
        <3>1. LET p == rebuild_active_plans(plans')[o] IN
              p # None => /\ p \in PlanIds /\ plans'[p] # None
                          /\ plans'[p].operation = o /\ plans'[p].lifecycle \notin Finished
            BY Rebuilt
        <3>2. QED BY <2>1, <2>2, <3>1 DEF Finished
    <2>3. QED BY <2>2 DEF IndexedPlansAreOpen
<1>11. QED
    BY <1>1, <1>2, <1>3, <1>4, <1>5, <1>6, <1>7, <1>8, <1>9, <1>10 DEF SafetyInv, TypeInv

LEMMA LoadStep ==
    ASSUME RecoveryInv, restart, recovers, load(file)
    PROVE  RecoveryInv'
<1>1. SafetyInv'
    BY LoadSafety
<1>2. existing' \subseteq used'
    BY Loaded, RestartFacts DEF RecoveryInv
<1>3. LostIsClosed'
    <2>1. \A m \in sent : m \in DispatchMsg /\ m.plan \in existing
        BY DEF RecoveryInv, SafetyInv, TypeInv, TypeOK, DispatchCarriesPinnedAuthority,
               DispatchMsg, existing
    <2>2. ASSUME NEW m \in lost'
          PROVE  /\ m \in DispatchMsg /\ m.plan \in used'
                 /\ plans'[m.plan] # None => plans'[m.plan].lifecycle \notin Live
        <3>1. m \in DispatchMsg /\ m.plan \in used
            BY <2>1, RestartFacts DEF RecoveryInv, LostIsClosed
        <3>2. plans'[m.plan] # None => m.plan \in existing'
            BY <3>1 DEF DispatchMsg, existing
        <3>3. QED BY <3>1, <3>2, Loaded, RestartFacts
    <2>3. QED BY <2>2 DEF LostIsClosed
<1>4. recovered' \in Nat /\ NoAuthorityCrossesRestart'
    <2>1. results' \in Seq(ExecutionResult) /\ recovered' = Len(results')
        BY <1>1, RestartFacts DEF SafetyInv, TypeInv, TypeOK
    <2>2. QED BY <2>1 DEF NoAuthorityCrossesRestart
<1>5. Image(file)' /\ Kept(file)'
    <2>1. Image(file)'
        <3>1. Image(file) /\ file' = file
            BY Loaded, RestartFacts
        <3>2. QED BY <3>1 DEF Image
    <2>2. results' = file.results /\ Len(file.results) \in Nat
        <3>1. results' = file.results /\ file \in Durable
            BY Loaded, Zenon DEF Image
        <3>2. file.results \in Seq(ExecutionResult)
            BY <3>1 DEF Durable
        <3>3. QED BY <3>1, <3>2
    <2>3. ASSUME NEW p \in PlanIds, file.plans[p] # None
          PROVE  /\ plans'[p] # None
                 /\ plans'[p].target = file.plans[p].target
                 /\ plans'[p].snapshot = file.plans[p].snapshot
                 /\ file.plans[p].lifecycle = "COMMITTED" => plans'[p].lifecycle = "COMMITTED"
                 /\ file.plans[p].dispatch # None =>
                       pinned_msg(p, file.plans[p].dispatch)' \in sent'
        <3>1. p \in existing' /\ SameButLifecycle(file.plans[p], plans'[p])
            BY <2>3, Loaded DEF existing
        <3>2. plans'[p].dispatch = file.plans[p].dispatch /\ file' = file
            BY <3>1, RestartFacts DEF SameButLifecycle
        <3>3. plans'[p].dispatch # None => pinned_msg(p, plans[p].dispatch)' \in sent'
            BY <1>1, <3>1 DEF SafetyInv, HandedOut
        <3>4. pinned_msg(p, plans[p].dispatch)' = pinned_msg(p, file.plans[p].dispatch)'
            BY <3>2 DEF pinned_msg
        <3>5. QED BY <3>1, <3>2, <3>3, <3>4, Loaded DEF SameButLifecycle, existing
    <2>4. file' = file
        BY RestartFacts
    <2>5. QED BY <2>1, <2>2, <2>3, <2>4 DEF Kept
<1>6. QED BY <1>1, <1>2, <1>3, <1>4, <1>5, RestartFacts DEF RecoveryInv

-----------------------------------------------------------------------------
(* The theorems.                                                           *)

LEMMA RecoveryInvNext == RecoveryInv /\ [RecoveryNext]_recoveryVars => RecoveryInv'
<1> SUFFICES ASSUME RecoveryInv, [RecoveryNext]_recoveryVars PROVE RecoveryInv'
    OBVIOUS
<1>1. CASE call
    BY <1>1, CallStep
<1>2. CASE save
    BY <1>2, SaveStep
<1>3. CASE save_ends
    BY <1>3, SaveEndsStep
<1>4. CASE restart
    <2>1. (recovers /\ load(file)) \/ (~recovers /\ start_empty)
        BY <1>4 DEF restart
    <2>2. QED BY <1>4, <2>1, LoadStep, EmptyStep
<1>5. CASE UNCHANGED recoveryVars
    <2>1. UNCHANGED <<vars, used, lost, recovered>> /\ UNCHANGED <<file, offered>>
        BY <1>5 DEF recoveryVars
    <2>2. \A v \in offered : Image(v) /\ Kept(v)'
        BY <2>1, EngineUnchanged DEF RecoveryInv
    <2>3. recovers' => Image(file)' /\ Kept(file)'
        <3>1. recovers' => recovers
            BY <2>1 DEF recovers, decodes
        <3>2. recovers => Image(file) /\ Kept(file) /\ Kept(file)'
            BY <2>1, EngineUnchanged DEF RecoveryInv, Kept
        <3>3. QED BY <2>1, <3>1, <3>2 DEF Image
    <2>4. QED BY <2>1, <2>2, <2>3, EngineUnchanged DEF RecoveryInv, Image
<1>6. QED BY <1>1, <1>2, <1>3, <1>4, <1>5 DEF RecoveryNext

LEMMA RecoverySafety == RecoverySpec => []RecoveryInv
BY RecoveryInvInit, RecoveryInvNext, PTL DEF RecoverySpec

\* Coordinator::load restores no authority: no completion of something handed out before a
\* restart is recorded after it, whatever the state file held and however old it was.
THEOREM RestartFencesWorkers == RecoverySpec => []NoAuthorityCrossesRestart
<1>1. RecoveryInv => NoAuthorityCrossesRestart
    BY DEF RecoveryInv
<1>2. QED BY <1>1, RecoverySafety, PTL

\* A state file that load can read loses nothing: its results and its COMMITTED plans are those
\* of the running incarnation, now and after every later restart.
THEOREM LoadForgetsNothing == RecoverySpec => []FileIsRemembered
<1>1. RecoveryInv => FileIsRemembered
    BY DEF RecoveryInv, FileIsRemembered, Kept
<1>2. QED BY <1>1, RecoverySafety, PTL

\* In every incarnation at most one completion of a plan is on record, and a plan is COMMITTED
\* exactly when that one is a committed result.
THEOREM ResultsAgreeAfterRestart == RecoverySpec => []ResultMatchesPlan
<1>1. RecoveryInv => ResultMatchesPlan
    BY DEF RecoveryInv, SafetyInv
<1>2. QED BY <1>1, RecoverySafety, PTL

\* No plan that was loaded is live: what can still execute was planned in this incarnation's
\* epoch.
THEOREM EpochFencesRestart == RecoverySpec => []LivePlansAreOfThisEpoch
<1>1. RecoveryInv => LivePlansAreOfThisEpoch
    BY DEF RecoveryInv, SafetyInv
<1>2. QED BY <1>1, RecoverySafety, PTL
=============================================================================
