--------------------------- MODULE CoordinatorProofs ---------------------------
(***************************************************************************)
(* Machine-checked proofs about Coordinator, for every set of plans,       *)
(* targets, operations, workers and messages.                              *)
(***************************************************************************)
EXTENDS Coordinator, TLAPS

\* Time limits of the provers, in seconds.
USE ZenonT(4), SMTT(15), ZenonT(30), SMTT(90)

-----------------------------------------------------------------------------
(* Lemmas about the helpers.                                               *)

\* The rebuilt index names, for each operation, one of its unfinished plans or nothing.
LEMMA Rebuilt ==
    ASSUME NEW pl, NEW o \in Operations
    PROVE  LET p == rebuild_active_plans(pl)[o] IN
           p # None => /\ p \in PlanIds /\ pl[p] # None
                       /\ pl[p].operation = o /\ pl[p].lifecycle \notin Finished
BY DEF rebuild_active_plans

LEMMA RebuiltType ==
    ASSUME NEW pl
    PROVE  rebuild_active_plans(pl) \in [Operations -> PlanIds \cup {None}]
<1>1. \A o \in Operations : rebuild_active_plans(pl)[o] \in PlanIds \cup {None}
    BY Rebuilt
<1>2. QED BY <1>1 DEF rebuild_active_plans

\* What the lookups of a well-typed state return when they find something.
LEMMA Lookups ==
    ASSUME TypeOK
    PROVE  /\ \A p \in existing : /\ plans[p] \in ExecutionPlan
                                  /\ plans[p].operation \in Operations
                                  /\ plans[p].target \in Targets
                                  /\ plans[p].lifecycle \in ExecutionLifecycle
                                  /\ plans[p].snapshot \in AuthoritySnapshot
                                  /\ plans[p].reserved_workspace \in Nat
           /\ \A o \in Operations : operations[o] # None => operations[o] \in OperationSpec
           /\ \A t \in Targets : /\ targets[t] # None => targets[t] \in TargetDefinition
                                 /\ runtime[t] # None => runtime[t] \in TargetRuntime
                                 /\ capabilities[t] # None => capabilities[t] \in CapabilitySet
                                 /\ reservations[t].slots \in Nat
                                 /\ reservations[t].workspace \in Nat
           /\ \A r \in Regions : data_evidence[r] # None => data_evidence[r] \in DataEvidence
BY DEF TypeOK, existing, ExecutionPlan

\* Giving a slot back keeps the counters natural numbers.
LEMMA ReleaseType ==
    ASSUME TypeOK, NEW p \in existing
    PROVE  release(p) \in [Targets -> [slots : Nat, workspace : Nat]]
<1>1. /\ plans[p].target \in Targets
      /\ plans[p].reserved_workspace \in Nat
    BY Lookups
<1>2. \A r \in [slots : Nat, workspace : Nat], n \in Nat :
        [slots |-> IF r.slots > 0 THEN r.slots - 1 ELSE 0,
         workspace |-> IF r.workspace >= n THEN r.workspace - n ELSE r.workspace]
            \in [slots : Nat, workspace : Nat]
    OBVIOUS
<1>3. QED BY <1>1, <1>2, ZenonT(30) DEF release, TypeOK

\* The three ways authority is withdrawn map lifecycles to lifecycles.
Withdrawal == {unknown_or_superseded, unknown_or_fenced, fenced}

LEMMA WithdrawalType ==
    \A to \in Withdrawal : \A l \in ExecutionLifecycle :
        /\ to[l] \in ExecutionLifecycle
        /\ to[l] \in {"OUTCOME_UNKNOWN", "SUPERSEDED", "FENCED"}
BY DEF Withdrawal, unknown_or_superseded, unknown_or_fenced, fenced, ExecutionLifecycle

\* Withdrawing authority moves the lifecycles of the plans in S and changes nothing else.
SameButLifecycle(x, y) ==
    /\ y.operation = x.operation /\ y.target = x.target /\ y.snapshot = x.snapshot
    /\ y.dispatch = x.dispatch /\ y.reserved_slots = x.reserved_slots
    /\ y.reserved_workspace = x.reserved_workspace

LEMMA MovedFacts ==
    ASSUME TypeOK, NEW S \in SUBSET existing, NEW to \in Withdrawal
    PROVE  /\ moved(S, to) \in [PlanIds -> ExecutionPlan \cup {None}]
           /\ \A p \in PlanIds : moved(S, to)[p] = None <=> plans[p] = None
           /\ \A p \in S : /\ SameButLifecycle(plans[p], moved(S, to)[p])
                           /\ moved(S, to)[p].lifecycle = to[plans[p].lifecycle]
           /\ \A p \in PlanIds \ S : moved(S, to)[p] = plans[p]
<1>1. \A p \in S : plans[p] \in ExecutionPlan /\ plans[p].lifecycle \in ExecutionLifecycle
    BY Lookups
<1>2. S \subseteq PlanIds
    BY DEF existing
<1>3. \A p \in S : moved(S, to)[p] = [plans[p] EXCEPT !.lifecycle = to[plans[p].lifecycle]]
    BY <1>1, <1>2 DEF moved, ExecutionPlan
<1>4. ASSUME NEW p \in S
      PROVE  /\ moved(S, to)[p] \in ExecutionPlan
             /\ SameButLifecycle(plans[p], moved(S, to)[p])
             /\ moved(S, to)[p].lifecycle = to[plans[p].lifecycle]
    <2>1. to[plans[p].lifecycle] \in ExecutionLifecycle
        BY <1>1, WithdrawalType
    <2>2. plans[p] \in ExecutionPlan
        BY <1>1
    <2>3. moved(S, to)[p] = [plans[p] EXCEPT !.lifecycle = to[plans[p].lifecycle]]
        BY <1>3
    <2>4. QED BY <2>1, <2>2, <2>3 DEF ExecutionPlan, SameButLifecycle
<1>5. \A p \in S : /\ moved(S, to)[p] \in ExecutionPlan
                   /\ SameButLifecycle(plans[p], moved(S, to)[p])
                   /\ moved(S, to)[p].lifecycle = to[plans[p].lifecycle]
    BY <1>4
<1>6. \A p \in PlanIds \ S : moved(S, to)[p] = plans[p]
    BY DEF moved
<1>7. \A p \in PlanIds : moved(S, to)[p] \in ExecutionPlan \cup {None}
    BY <1>5, <1>6 DEF TypeOK
<1>8. moved(S, to) \in [PlanIds -> ExecutionPlan \cup {None}]
    BY <1>7 DEF moved
<1>9. \A p \in PlanIds : moved(S, to)[p] = None <=> plans[p] = None
    BY <1>1, <1>5, <1>6, NoneIsNoEntry
<1>10. QED BY <1>5, <1>6, <1>8, <1>9

\* Invalidating dynamic evidence keeps it well typed.
LEMMA InvalidatedType ==
    ASSUME TypeOK, NEW T, NEW B
    PROVE  /\ invalidated_runtime(T) \in [Targets -> TargetRuntime \cup {None}]
           /\ invalidated_evidence(capabilities, B) \in [Targets -> CapabilitySet \cup {None}]
           /\ invalidated_evidence(data_evidence, B) \in [Regions -> DataEvidence \cup {None}]
<1>1. \A x \in TargetRuntime :
        [x EXCEPT !.dynamic_current = FALSE, !.reachable = FALSE,
                  !.lifecycle = "REVALIDATION_REQUIRED"] \in TargetRuntime
    BY DEF TargetRuntime, TargetLifecycle
<1>2. \A x \in CapabilitySet : [x EXCEPT !.dynamic_current = FALSE] \in CapabilitySet
    BY DEF CapabilitySet
<1>3. \A x \in DataEvidence : [x EXCEPT !.dynamic_current = FALSE] \in DataEvidence
    BY DEF DataEvidence
<1>4. invalidated_runtime(T) \in [Targets -> TargetRuntime \cup {None}]
    BY <1>1 DEF TypeOK, invalidated_runtime
<1>5. invalidated_evidence(capabilities, B) \in [Targets -> CapabilitySet \cup {None}]
    BY <1>2 DEF TypeOK, invalidated_evidence
<1>6. invalidated_evidence(data_evidence, B) \in [Regions -> DataEvidence \cup {None}]
    BY <1>3 DEF TypeOK, invalidated_evidence
<1>7. QED BY <1>4, <1>5, <1>6

\* A candidate the planner ranks is a known target with a runtime state and capabilities, and
\* the operation's region has data evidence.
LEMMA Ranked ==
    ASSUME NEW o \in Operations, NEW pol, NEW best \in front(candidates(o, pol))
    PROVE  /\ best.target \in Targets
           /\ targets[best.target] # None
           /\ runtime[best.target] # None
           /\ capabilities[best.target] # None
           /\ data_evidence[operations[o].region] # None
<1>1. PICK t \in Targets :
        /\ best = candidate(t, operations[o], runtime[t])
        /\ targets[t] # None /\ runtime[t] # None /\ capabilities[t] # None
        /\ \E prog : hard_filter(targets[t], runtime[t], operations[o],
                                 data_evidence[operations[o].region], capabilities[t], prog, pol)
                        = {}
    BY Zenon DEF front, candidates
<1>2. best.target = t
    BY <1>1 DEF candidate
<1>3. data_evidence[operations[o].region] # None
    BY <1>1 DEF hard_filter
<1>4. QED BY <1>1, <1>2, <1>3

\* The plan built from a ranked candidate is well typed.
LEMMA NewPlanType ==
    ASSUME TypeOK, NEW o \in Operations, operations[o] # None,
           NEW pol, NEW best \in front(candidates(o, pol))
    PROVE  new_plan(o, best.target) \in ExecutionPlan
<1>1. /\ best.target \in Targets
      /\ targets[best.target] \in TargetDefinition
      /\ runtime[best.target] \in TargetRuntime
      /\ capabilities[best.target] \in CapabilitySet
      /\ operations[o] \in OperationSpec
    BY Ranked, Lookups
<1>2. data_evidence[operations[o].region] \in DataEvidence
    BY <1>1, Ranked, Lookups DEF OperationSpec
<1>3. new_plan(o, best.target).snapshot \in AuthoritySnapshot
    BY <1>1, <1>2 DEF TypeOK, new_plan, AuthoritySnapshot, TargetDefinition, TargetRuntime,
                      CapabilitySet, OperationSpec, DataEvidence
<1>4. QED
    BY <1>1, <1>3 DEF new_plan, ExecutionPlan, ExecutionLifecycle

-----------------------------------------------------------------------------
(* Type correctness.                                                       *)

\* TypeOK is not inductive alone: reserve and prepare_dispatch look up the plan's operation,
\* which is there because operations are never removed.
PlansNameOperations == \A p \in existing : operations[plans[p].operation] # None

TypeInv == TypeOK /\ PlansNameOperations

LEMMA TypeInvInit == Init => TypeInv
<1> SUFFICES ASSUME Init PROVE TypeInv
    OBVIOUS
<1>1. default_policy \in Descriptor
    BY IdTypes DEF default_policy, Descriptor
<1>2. <<>> \in Seq(ExecutionResult)
    OBVIOUS
<1>3. existing = {}
    BY DEF Init, existing
<1>4. QED BY <1>1, <1>2, <1>3 DEF Init, TypeInv, TypeOK, PlansNameOperations

\* A set of plans losing its authority keeps TypeInv.
LEMMA MovedTypeInv ==
    ASSUME TypeInv, NEW S \in SUBSET existing, NEW to \in Withdrawal,
           operations' = operations, plans' = moved(S, to)
    PROVE  /\ plans' \in [PlanIds -> ExecutionPlan \cup {None}]
           /\ PlansNameOperations'
<1>1. \A p \in PlanIds : plans'[p] # None =>
          plans[p] # None /\ plans'[p].operation = plans[p].operation
    BY MovedFacts DEF TypeInv, SameButLifecycle, existing
<1>2. QED BY <1>1, MovedFacts DEF TypeInv, PlansNameOperations, existing

\* Moving one plan to another lifecycle changes nothing else.
LEMMA OneMoved ==
    ASSUME TypeOK, NEW p \in existing, NEW l \in ExecutionLifecycle,
           plans' = [plans EXCEPT ![p].lifecycle = l]
    PROVE  /\ plans' \in [PlanIds -> ExecutionPlan \cup {None}]
           /\ \A q \in PlanIds : plans'[q] = None <=> plans[q] = None
           /\ SameButLifecycle(plans[p], plans'[p])
           /\ plans'[p].lifecycle = l
           /\ \A q \in PlanIds \ {p} : plans'[q] = plans[q]
           /\ \A q \in existing : plans'[q].operation = plans[q].operation
<1>1. p \in PlanIds /\ plans[p] \in ExecutionPlan
    BY Lookups DEF existing
<1>2. plans'[p] = [plans[p] EXCEPT !.lifecycle = l]
    BY <1>1 DEF TypeOK
<1>3. /\ plans'[p] \in ExecutionPlan /\ plans'[p].lifecycle = l
      /\ SameButLifecycle(plans[p], plans'[p])
    BY <1>1, <1>2 DEF ExecutionPlan, SameButLifecycle
<1>4. \A q \in PlanIds \ {p} : plans'[q] = plans[q]
    BY DEF TypeOK
<1>5. plans' \in [PlanIds -> ExecutionPlan \cup {None}]
    BY <1>1, <1>3, <1>4 DEF TypeOK
<1>6. \A q \in existing : plans'[q].operation = plans[q].operation
    BY <1>3, <1>4 DEF SameButLifecycle, existing
<1>7. \A q \in PlanIds : plans'[q] = None <=> plans[q] = None
    BY <1>1, <1>3, <1>4, NoneIsNoEntry
<1>8. QED BY <1>3, <1>4, <1>5, <1>6, <1>7

\* Handing one plan out under a dispatch id changes nothing else.
LEMMA OneHandedOut ==
    ASSUME TypeOK, NEW p \in existing, NEW d \in DispatchIds,
           plans' = [plans EXCEPT ![p].dispatch = d]
    PROVE  /\ plans' \in [PlanIds -> ExecutionPlan \cup {None}]
           /\ \A q \in PlanIds : plans'[q] = None <=> plans[q] = None
           /\ plans'[p].dispatch = d
           /\ \A q \in existing : /\ plans'[q].operation = plans[q].operation
                                  /\ plans'[q].target = plans[q].target
                                  /\ plans'[q].snapshot = plans[q].snapshot
                                  /\ plans'[q].lifecycle = plans[q].lifecycle
           /\ \A q \in PlanIds \ {p} : plans'[q] = plans[q]
<1>1. p \in PlanIds /\ plans[p] \in ExecutionPlan
    BY Lookups DEF existing
<1>2. plans'[p] = [plans[p] EXCEPT !.dispatch = d]
    BY <1>1 DEF TypeOK
<1>3. /\ plans'[p] \in ExecutionPlan /\ plans'[p].dispatch = d
      /\ plans'[p].operation = plans[p].operation
      /\ plans'[p].target = plans[p].target
      /\ plans'[p].snapshot = plans[p].snapshot
      /\ plans'[p].lifecycle = plans[p].lifecycle
    BY <1>1, <1>2 DEF ExecutionPlan
<1>4. \A q \in PlanIds \ {p} : plans'[q] = plans[q]
    BY DEF TypeOK
<1>5. plans' \in [PlanIds -> ExecutionPlan \cup {None}]
    BY <1>1, <1>3, <1>4 DEF TypeOK
<1>6. \A q \in PlanIds : plans'[q] = None <=> plans[q] = None
    BY <1>1, <1>3, <1>4, NoneIsNoEntry
<1>7. QED BY <1>3, <1>4, <1>5, <1>6 DEF existing

\* A dispatch message handed out is well typed.
LEMMA DispatchMsgType ==
    ASSUME TypeOK, PlansNameOperations, NEW p \in existing, NEW d \in DispatchIds,
           runtime[plans[p].target] # None
    PROVE  dispatch_msg(p, d) \in DispatchMsg
<1>1. /\ p \in PlanIds /\ plans[p].target \in Targets
      /\ plans[p].snapshot \in AuthoritySnapshot
      /\ operations[plans[p].operation] \in OperationSpec
      /\ runtime[plans[p].target] \in TargetRuntime
      /\ epoch \in Nat
    BY Lookups DEF PlansNameOperations, existing, TypeOK
<1>2. QED
    BY <1>1 DEF dispatch_msg, DispatchMsg, AuthoritySnapshot, OperationSpec, TargetRuntime

LEMMA TypeInvNext == TypeInv /\ [Next]_vars => TypeInv'
<1> SUFFICES ASSUME TypeInv, [Next]_vars PROVE TypeInv'
    OBVIOUS
<1> USE DEF catalogVars, evidenceVars, planVars
<1>0. TypeOK /\ PlansNameOperations
    BY DEF TypeInv
<1>1. CASE UNCHANGED vars
    BY <1>0, <1>1 DEF TypeInv, TypeOK, PlansNameOperations, existing, vars
<1>2. CASE advance_epoch
    <2>1. uncommitted(existing) \in SUBSET existing
        BY DEF uncommitted
    <2>2. plans' \in [PlanIds -> ExecutionPlan \cup {None}] /\ PlansNameOperations'
        BY <1>2, <2>1, MovedTypeInv DEF advance_epoch, Withdrawal
    <2>3. active_plans' \in [Operations -> PlanIds \cup {None}]
        BY <1>2, RebuiltType DEF advance_epoch
    <2>4. QED
        BY <1>0, <1>2, <2>1, <2>2, <2>3, InvalidatedType
        DEF advance_epoch, TypeInv, TypeOK, existing
<1>3. CASE \E d \in Descriptors : register(d)
    BY <1>0, <1>3, InputTypes DEF register, TypeInv, TypeOK, PlansNameOperations, existing
<1>4. CASE \E spec \in OperationSpecs : create_operation(spec)
    <2>1. PICK spec \in OperationSpecs : create_operation(spec)
        BY <1>4
    <2>2. spec \in OperationSpec /\ spec.id \in Operations /\ spec # None
        BY InputTypes, NoneIsNoEntry DEF OperationSpec
    <2>3. TypeOK'
        BY <1>0, <2>1, <2>2 DEF create_operation, TypeOK
    <2>4. PlansNameOperations'
        BY <1>0, <2>1, <2>2 DEF create_operation, TypeOK, PlansNameOperations, existing
    <2>5. QED BY <2>3, <2>4, Zenon DEF TypeInv
<1>5. CASE \E w \in Workers, b \in Boots : bind_worker_session(w, b)
    <2>1. PICK w \in Workers, b \in Boots : bind_worker_session(w, b)
        BY <1>5
    <2>2. TypeOK'
        BY <1>0, <2>1 DEF bind_worker_session, TypeOK
    <2>3. PlansNameOperations'
        BY <1>0, <2>1, Zenon DEF bind_worker_session, PlansNameOperations, existing
    <2>4. QED BY <2>2, <2>3, Zenon DEF TypeInv
<1>6. CASE \E m \in TargetMsgs : apply_register_target(m)
    <2>1. PICK m \in TargetMsgs : apply_register_target(m)
        BY <1>6
    <2>2. m.target \in Targets /\ m.def \in TargetDefinition /\ m.owner_boot \in Boots
        BY InputTypes DEF RegisterTargetMsg
    <2>3. [lifecycle |-> "REGISTERED", owner_boot |-> m.owner_boot, reachable |-> FALSE,
           dynamic_current |-> FALSE, latency_ns |-> 0, confidence |-> 0] \in TargetRuntime
        BY <2>2 DEF TargetRuntime, TargetLifecycle
    <2>4. QED
        BY <1>0, <2>1, <2>2, <2>3
        DEF apply_register_target, TypeInv, TypeOK, PlansNameOperations, existing
<1>7. CASE \E m \in CapabilityMsgs : apply_capability(m)
    <2>1. PICK m \in CapabilityMsgs : apply_capability(m)
        BY <1>7
    <2>2. m \in CapabilityMsg /\ m.target \in Targets
        BY InputTypes DEF CapabilityMsg
    <2>3. [generation |-> m.generation, evidence_generation |-> m.evidence_generation,
           publisher |-> m.publisher, entries |-> m.entries, dynamic_current |-> TRUE]
              \in CapabilitySet
        BY <2>2 DEF CapabilityMsg, CapabilitySet
    <2>4. QED
        BY <1>0, <2>1, <2>2, <2>3
        DEF apply_capability, TypeInv, TypeOK, PlansNameOperations, existing
<1>8. CASE \E m \in EvidenceMsgs : apply_data_evidence(m)
    <2>1. PICK m \in EvidenceMsgs : apply_data_evidence(m)
        BY <1>8
    <2>2. m \in DataEvidenceMsg /\ m.region \in Regions
        BY InputTypes DEF DataEvidenceMsg
    <2>3. [dataset_generation |-> m.dataset_generation,
           memory_domain_generation |-> m.memory_domain_generation, present |-> m.present,
           current |-> m.current, reachable |-> m.reachable, publisher |-> m.publisher,
           dynamic_current |-> TRUE] \in DataEvidence
        BY <2>2 DEF DataEvidenceMsg, DataEvidence
    <2>4. QED
        BY <1>0, <2>1, <2>2, <2>3
        DEF apply_data_evidence, TypeInv, TypeOK, PlansNameOperations, existing
<1>9. CASE \E m \in HeartbeatMsgs : apply_heartbeat(m)
    <2>1. PICK m \in HeartbeatMsgs : apply_heartbeat(m)
        BY <1>9
    <2>2. m \in HeartbeatMsg /\ m.target \in Targets
        BY InputTypes DEF HeartbeatMsg
    <2>3. runtime[m.target].owner_boot \in Boots
        BY <1>0, <2>1, <2>2, Lookups DEF apply_heartbeat, TargetRuntime
    <2>4. [lifecycle |-> m.lifecycle, owner_boot |-> runtime[m.target].owner_boot,
           reachable |-> m.reachable, dynamic_current |-> TRUE,
           latency_ns |-> m.latency_ns, confidence |-> m.confidence] \in TargetRuntime
        BY <2>2, <2>3 DEF HeartbeatMsg, TargetRuntime
    <2>5. QED
        BY <1>0, <2>1, <2>2, <2>4
        DEF apply_heartbeat, TypeInv, TypeOK, PlansNameOperations, existing
<1>10. CASE \E o \in Operations : plan(o)
    <2>1. PICK o \in Operations : plan(o)
        BY <1>10
    <2>2. PICK pol \in descriptors :
            \E best \in front(candidates(o, pol)), p \in PlanIds \ existing :
                /\ plans' = [plans EXCEPT ![p] = new_plan(o, best.target)]
                /\ active_plans' = [active_plans EXCEPT ![o] = p]
        BY <2>1, ZenonT(30) DEF plan
    <2>3. PICK best \in front(candidates(o, pol)), p \in PlanIds \ existing :
            /\ plans' = [plans EXCEPT ![p] = new_plan(o, best.target)]
            /\ active_plans' = [active_plans EXCEPT ![o] = p]
        BY <2>2
    <2>4. new_plan(o, best.target) \in ExecutionPlan
        BY <1>0, <2>1, NewPlanType DEF plan
    <2>5. new_plan(o, best.target).operation = o
        BY DEF new_plan
    <2>6. TypeOK'
        BY <1>0, <2>1, <2>3, <2>4 DEF plan, TypeOK
    <2>7. PlansNameOperations'
        BY <1>0, <2>1, <2>3, <2>5 DEF plan, TypeOK, PlansNameOperations, existing
    <2>8. QED BY <2>6, <2>7 DEF TypeInv
<1>11. CASE \E p \in PlanIds : reserve(p)
    <2>1. PICK p \in PlanIds : reserve(p)
        BY <1>11
    <2>2. p \in existing
        BY <2>1 DEF reserve, in, existing
    <2>3. /\ plans[p] \in ExecutionPlan /\ plans[p].target \in Targets
          /\ operations[plans[p].operation] \in OperationSpec
        BY <1>0, <2>2, Lookups DEF PlansNameOperations
    <2>4. operations[plans[p].operation].workspace \in Nat
        BY <2>3 DEF OperationSpec
    <2>5. /\ reservations[plans[p].target].slots + 1 \in Nat
          /\ (reservations[plans[p].target].workspace
                + operations[plans[p].operation].workspace) % U64 \in Nat
        <3>1. /\ reservations[plans[p].target].slots \in Nat
              /\ reservations[plans[p].target].workspace \in Nat
            BY <1>0, <2>3, Lookups, Zenon
        <3>2. PICK s \in Nat, w \in Nat, ws \in Nat :
                /\ s = reservations[plans[p].target].slots
                /\ w = reservations[plans[p].target].workspace
                /\ ws = operations[plans[p].operation].workspace
            BY <2>4, <3>1, Zenon
        <3>3. s + 1 \in Nat /\ (w + ws) % U64 \in Nat
            BY CostConstants
        <3>4. QED BY <3>2, <3>3, Zenon
    <2>6. reservations' \in [Targets -> [slots : Nat, workspace : Nat]]
        BY <1>0, <2>1, <2>3, <2>5 DEF reserve, TypeOK
    <2>7. /\ plans' \in [PlanIds -> ExecutionPlan \cup {None}]
          /\ \A q \in PlanIds : plans'[q] # None =>
                plans[q] # None /\ plans'[q].operation = plans[q].operation
        <3>1. PICK ws \in Nat : ws = operations[plans[p].operation].workspace
            BY <2>4, Zenon
        <3>2. /\ plans \in [PlanIds -> ExecutionPlan \cup {None}] /\ plans[p] # None
              /\ plans' = [plans EXCEPT ![p].lifecycle = "RESERVED", ![p].reserved_slots = 1,
                                        ![p].reserved_workspace = ws]
            BY <1>0, <2>1, <2>2, <3>1, Zenon DEF reserve, TypeOK, existing
        <3>3. plans'[p] \in ExecutionPlan /\ plans'[p].operation = plans[p].operation
            BY <2>3, <3>2 DEF ExecutionPlan, ExecutionLifecycle
        <3>4. DOMAIN plans' = PlanIds /\ \A q \in PlanIds \ {p} : plans'[q] = plans[q]
            BY <3>2
        <3>5. plans' \in [PlanIds -> ExecutionPlan \cup {None}]
            BY <3>2, <3>3, <3>4
        <3>6. QED BY <3>2, <3>3, <3>4, <3>5, Zenon
    <2>8. UNCHANGED <<epoch, catalogVars, evidenceVars, active_plans, results, sent, revoked>>
        BY <2>1, Zenon DEF reserve
    <2>9. TypeOK'
        BY <1>0, <2>6, <2>7, <2>8 DEF TypeOK
    <2>10. PlansNameOperations'
        BY <1>0, <2>7, <2>8, Zenon DEF PlansNameOperations, existing
    <2>11. QED BY <2>9, <2>10, Zenon DEF TypeInv
<1>12. CASE \E p \in PlanIds, d \in DispatchIds : prepare_dispatch(p, d)
    <2>1. PICK p \in PlanIds, d \in DispatchIds : prepare_dispatch(p, d)
        BY <1>12
    <2>2. p \in existing
        BY <2>1 DEF prepare_dispatch, in, existing
    <2>3. \/ /\ plans' = [plans EXCEPT ![p].lifecycle = "SUPERSEDED"]
             /\ sent' = sent
          \/ /\ plans' = [plans EXCEPT ![p].dispatch = d]
             /\ sent' = sent \cup {dispatch_msg(p, d)}
             /\ runtime[plans[p].target] # None
        BY <2>1 DEF prepare_dispatch
    <2>4. runtime[plans[p].target] # None => dispatch_msg(p, d) \in DispatchMsg
        BY <1>0, <2>2, DispatchMsgType
    <2>5. /\ plans' \in [PlanIds -> ExecutionPlan \cup {None}]
          /\ \A q \in PlanIds : plans'[q] # None =>
                plans[q] # None /\ plans'[q].operation = plans[q].operation
        BY <1>0, <2>2, <2>3, OneMoved, OneHandedOut DEF ExecutionLifecycle, existing
    <2>6. sent' \subseteq DispatchMsg
        BY <1>0, <2>3, <2>4 DEF TypeOK
    <2>7. QED
        BY <1>0, <2>1, <2>5, <2>6
        DEF prepare_dispatch, TypeInv, TypeOK, PlansNameOperations, existing
<1>13. CASE \E p \in PlanIds, d \in DispatchIds : confirm_dispatched(p, d)
    <2>1. PICK p \in PlanIds, d \in DispatchIds : confirm_dispatched(p, d)
        BY <1>13
    <2>2. p \in existing /\ plans' = [plans EXCEPT ![p].lifecycle = "DISPATCHED"]
        BY <2>1 DEF confirm_dispatched, in, existing
    <2>3. /\ plans' \in [PlanIds -> ExecutionPlan \cup {None}]
          /\ \A q \in PlanIds : plans'[q] # None =>
                plans[q] # None /\ plans'[q].operation = plans[q].operation
        BY <1>0, <2>2, OneMoved DEF ExecutionLifecycle, existing
    <2>4. QED
        BY <1>0, <2>1, <2>3
        DEF confirm_dispatched, TypeInv, TypeOK, PlansNameOperations, existing
<1>14. CASE \E m \in sent \cup StrayResults, outcome \in {"intact", "corrupt", "unknown"} :
              apply_result(m, outcome)
    <2>1. PICK m \in sent \cup StrayResults, outcome \in {"intact", "corrupt", "unknown"} :
            apply_result(m, outcome)
        BY <1>14
    <2>2. m \in DispatchMsg /\ m.plan \in PlanIds
        BY <1>0, InputTypes DEF TypeOK, DispatchMsg
    <2>3. m.plan \in existing
        BY <2>1, <2>2 DEF apply_result, accepted, in, existing
    <2>4. verdict(outcome) \in ExecutionLifecycle /\ new_result(m, outcome) \in ExecutionResult
        BY <2>2 DEF verdict, new_result, ExecutionLifecycle, ExecutionResult
    <2>5. /\ plans' \in [PlanIds -> ExecutionPlan \cup {None}]
          /\ \A q \in PlanIds : plans'[q] # None =>
                plans[q] # None /\ plans'[q].operation = plans[q].operation
        BY <1>0, <2>1, <2>3, <2>4, OneMoved DEF apply_result, existing
    <2>6. reservations' \in [Targets -> [slots : Nat, workspace : Nat]]
        BY <1>0, <2>1, <2>3, ReleaseType DEF apply_result, TypeOK
    <2>7. results' \in Seq(ExecutionResult)
        BY <1>0, <2>1, <2>4 DEF apply_result, TypeOK
    <2>8. QED
        BY <1>0, <2>1, <2>5, <2>6, <2>7, ZenonT(30)
        DEF apply_result, TypeInv, TypeOK, PlansNameOperations, existing
<1>15. CASE \E t \in Targets : begin_drain(t)
    <2>1. \A x \in TargetRuntime : [x EXCEPT !.lifecycle = "DRAINING"] \in TargetRuntime
        BY DEF TargetRuntime, TargetLifecycle
    <2>2. QED
        BY <1>0, <1>15, <2>1
        DEF begin_drain, TypeInv, TypeOK, PlansNameOperations, existing
<1>16. CASE \E p \in PlanIds : cancel_plan(p)
    <2>1. PICK p \in PlanIds : cancel_plan(p)
        BY <1>16
    <2>2. p \in existing /\ plans' = [plans EXCEPT ![p].lifecycle = "CANCELLED"]
        BY <2>1 DEF cancel_plan, in, existing
    <2>3. /\ plans' \in [PlanIds -> ExecutionPlan \cup {None}]
          /\ \A q \in PlanIds : plans'[q] # None =>
                plans[q] # None /\ plans'[q].operation = plans[q].operation
        BY <1>0, <2>2, OneMoved DEF ExecutionLifecycle, existing
    <2>4. reservations' \in [Targets -> [slots : Nat, workspace : Nat]]
        BY <1>0, <2>1, <2>2, ReleaseType DEF cancel_plan
    <2>5. QED
        BY <1>0, <2>1, <2>3, <2>4, ZenonT(30)
        DEF cancel_plan, TypeInv, TypeOK, PlansNameOperations, existing
<1>17. CASE \E b \in Boots : fence_worker(b) \/ on_worker_disconnected(b)
    <2>1. PICK b \in Boots : fence_worker(b) \/ on_worker_disconnected(b)
        BY <1>17
    <2>2. invalidate_boot(b) /\ operations' = operations
        BY <2>1 DEF fence_worker, on_worker_disconnected
    <2>3. /\ unfinished(pinned_to(b)) \in SUBSET existing
          /\ uncommitted(pinned_to(b)) \in SUBSET PlanIds
        BY DEF unfinished, uncommitted, pinned_to, existing
    <2>4. plans' \in [PlanIds -> ExecutionPlan \cup {None}] /\ PlansNameOperations'
        BY <2>2, <2>3, MovedTypeInv DEF invalidate_boot, Withdrawal
    <2>5. active_plans' \in [Operations -> PlanIds \cup {None}]
        BY <2>2, RebuiltType DEF invalidate_boot
    <2>6. /\ runtime' \in [Targets -> TargetRuntime \cup {None}]
          /\ capabilities' \in [Targets -> CapabilitySet \cup {None}]
          /\ data_evidence' \in [Regions -> DataEvidence \cup {None}]
          /\ revoked' \subseteq PlanIds
        BY <1>0, <2>2, <2>3, InvalidatedType DEF invalidate_boot, TypeOK
    <2>7. workers' \in [Workers -> [boot : Boots, connected : BOOLEAN] \cup {None}]
        <3>1. CASE workers' = workers
            BY <1>0, <3>1 DEF TypeOK
        <3>2. CASE on_worker_disconnected(b)
            BY ZenonT(30), <1>0, <3>2 DEF on_worker_disconnected, TypeOK
        <3>3. QED BY <2>1, <3>1, <3>2 DEF fence_worker
    <2>8. QED
        BY <1>0, <2>1, <2>4, <2>5, <2>6, <2>7
        DEF fence_worker, on_worker_disconnected, TypeInv, TypeOK
<1>18. CASE \E t \in Targets : retire_target(t)
    <2>1. PICK t \in Targets : retire_target(t)
        BY <1>18
    <2>2. /\ unfinished(placed_on(t)) \in SUBSET existing
          /\ uncommitted(placed_on(t)) \in SUBSET PlanIds
        BY DEF unfinished, uncommitted, placed_on, existing
    <2>3. plans' \in [PlanIds -> ExecutionPlan \cup {None}] /\ PlansNameOperations'
        BY <2>1, <2>2, MovedTypeInv DEF retire_target, Withdrawal
    <2>4. active_plans' \in [Operations -> PlanIds \cup {None}]
        BY <2>1, RebuiltType DEF retire_target
    <2>5. \A x \in TargetRuntime :
            [x EXCEPT !.lifecycle = "RETIRED", !.reachable = FALSE,
                      !.dynamic_current = FALSE] \in TargetRuntime
        BY DEF TargetRuntime, TargetLifecycle
    <2>6. runtime' \in [Targets -> TargetRuntime \cup {None}]
        BY ZenonT(30), <1>0, <2>1, <2>5 DEF retire_target, TypeOK
    <2>7. QED
        BY <1>0, <2>1, <2>2, <2>3, <2>4, <2>6 DEF retire_target, TypeInv, TypeOK
<1>19. QED
    BY <1>1, <1>2, <1>3, <1>4, <1>5, <1>6, <1>7, <1>8, <1>9, <1>10, <1>11, <1>12, <1>13, <1>14,
       <1>15, <1>16, <1>17, <1>18 DEF Next

\* Every value the coordinator stores has the shape its C++ type gives it, whatever the callers
\* and the worker processes send.
THEOREM TypeCorrect == Spec => []TypeOK
<1>1. TypeInv => TypeOK
    BY DEF TypeInv
<1>2. QED BY <1>1, TypeInvInit, TypeInvNext, PTL DEF Spec

-----------------------------------------------------------------------------
(* What any step may do to a plan that exists.                             *)

\* The moves of ExecutionLifecycle the code makes.
Forward(old, new) ==
    \/ new = old
    \/ old = "PLANNED" /\ new = "RESERVED"
    \/ old = "RESERVED" /\ new = "DISPATCHED"
    \/ old \in InFlight /\ new \in {"COMMITTED", "FAILED", "OUTCOME_UNKNOWN"}
    \/ old # "COMMITTED" /\ new \in {"SUPERSEDED", "OUTCOME_UNKNOWN", "FENCED", "CANCELLED"}

\* The two steps the safety proofs single out: plan p is handed out, and plan p commits.
HandsOut(p) ==
    /\ plans[p].lifecycle = "RESERVED"
    /\ staleness(p) = {}
    /\ runtime[plans[p].target] # None
    /\ sent' = sent \cup {dispatch_msg(p, plans'[p].dispatch)}

Commits(p) ==
    \E m \in sent \cup StrayResults : m.plan = p /\ apply_result(m, "intact")

\* A plan keeps its operation, target and snapshot, moves forward, gets a dispatch id only by
\* being handed out, and becomes COMMITTED only by an intact completion that names it.
PlanStep(p) ==
    /\ plans'[p] # None
    /\ plans'[p].operation = plans[p].operation
    /\ plans'[p].target = plans[p].target
    /\ plans'[p].snapshot = plans[p].snapshot
    /\ plans'[p].dispatch = plans[p].dispatch \/ HandsOut(p)
    /\ Forward(plans[p].lifecycle, plans'[p].lifecycle)
    /\ plans'[p].lifecycle = "COMMITTED" => plans[p].lifecycle = "COMMITTED" \/ Commits(p)

\* A plan that is not withdrawn is left as it is.
LEMMA MovedRest ==
    ASSUME NEW S, NEW to, plans' = moved(S, to), NEW p \in PlanIds, p \notin S
    PROVE  plans'[p] = plans[p]
BY DEF moved

\* Withdrawing authority from plans that have not committed is a forward move.
LEMMA MovedStep ==
    ASSUME TypeOK, NEW S \in SUBSET existing, NEW to \in Withdrawal, plans' = moved(S, to),
           \A p \in S : plans[p].lifecycle # "COMMITTED"
    PROVE  \A p \in existing : PlanStep(p)
<1>1. ASSUME NEW p \in existing, p \notin S
      PROVE  PlanStep(p)
    <2>1. plans'[p] = plans[p] /\ plans[p] # None
        BY <1>1, MovedRest DEF existing
    <2>2. QED BY <2>1 DEF PlanStep, Forward
<1>2. ASSUME NEW p \in existing, p \in S
      PROVE  PlanStep(p)
    <2>1. to[plans[p].lifecycle] \in {"OUTCOME_UNKNOWN", "SUPERSEDED", "FENCED"}
        BY Lookups, WithdrawalType
    <2>2. QED BY <1>2, <2>1, MovedFacts DEF PlanStep, Forward, SameButLifecycle, existing
<1>3. QED BY <1>1, <1>2

LEMMA OneMovedStep ==
    ASSUME TypeOK, NEW p \in existing, NEW l \in ExecutionLifecycle,
           plans' = [plans EXCEPT ![p].lifecycle = l], Forward(plans[p].lifecycle, l),
           l = "COMMITTED" => Commits(p)
    PROVE  \A q \in existing : PlanStep(q)
<1>1. PlanStep(p)
    BY OneMoved, ZenonT(30) DEF PlanStep, SameButLifecycle, existing
<1>2. ASSUME NEW q \in existing, q # p PROVE PlanStep(q)
    BY <1>2, OneMoved DEF PlanStep, Forward, existing
<1>3. QED BY <1>1, <1>2

LEMMA PlansStep == TypeInv /\ [Next]_vars => \A p \in existing : PlanStep(p)
<1> SUFFICES ASSUME TypeInv, [Next]_vars PROVE \A p \in existing : PlanStep(p)
    OBVIOUS
<1> USE DEF catalogVars, evidenceVars, planVars
<1>0. TypeOK
    BY DEF TypeInv
<1>1. CASE plans' = plans
    BY <1>1 DEF PlanStep, Forward, existing
<1>2. CASE advance_epoch
    <2>1. /\ uncommitted(existing) \in SUBSET existing /\ unknown_or_superseded \in Withdrawal
          /\ \A p \in uncommitted(existing) : plans[p].lifecycle # "COMMITTED"
        BY DEF uncommitted, Withdrawal
    <2>2. plans' = moved(uncommitted(existing), unknown_or_superseded)
        BY <1>2, Zenon DEF advance_epoch
    <2>3. QED BY <1>0, <2>1, <2>2, MovedStep, Zenon
<1>3. CASE \E o \in Operations : plan(o)
    <2>1. PICK p \in PlanIds \ existing : \E x : plans' = [plans EXCEPT ![p] = x]
        BY <1>3 DEF plan
    <2>2. \A q \in existing : plans'[q] = plans[q]
        BY <1>0, <2>1 DEF TypeOK, existing
    <2>3. QED BY <2>2 DEF PlanStep, Forward, existing
<1>4. CASE \E p \in PlanIds : reserve(p)
    <2>1. PICK p \in PlanIds : reserve(p)
        BY <1>4
    <2>2. /\ p \in existing /\ plans[p] \in ExecutionPlan /\ plans[p].lifecycle = "PLANNED"
          /\ operations[plans[p].operation] \in OperationSpec
        BY <1>0, <2>1, Lookups DEF reserve, in, existing, TypeInv, PlansNameOperations
    <2> DEFINE ws == operations[plans[p].operation].workspace
    <2>3. ws \in Nat
        BY <2>2 DEF OperationSpec
    <2>4. plans' = [plans EXCEPT ![p].lifecycle = "RESERVED", ![p].reserved_slots = 1,
                                 ![p].reserved_workspace = ws]
        BY <2>1 DEF reserve
    <2> HIDE DEF ws
    <2>5. plans'[p] = [plans[p] EXCEPT !.lifecycle = "RESERVED", !.reserved_slots = 1,
                                       !.reserved_workspace = ws]
        BY <1>0, <2>4 DEF TypeOK
    <2>6. plans'[p] \in ExecutionPlan
        BY <2>2, <2>3, <2>5 DEF ExecutionPlan, ExecutionLifecycle
    <2>7. PlanStep(p)
        BY <2>2, <2>5, <2>6, NoneIsNoEntry, ZenonT(30) DEF PlanStep, Forward, ExecutionPlan
    <2>8. \A q \in existing \ {p} : plans'[q] = plans[q]
        BY <1>0, <2>4 DEF TypeOK, existing
    <2>9. QED BY <2>7, <2>8 DEF PlanStep, Forward, existing
<1>5. CASE \E p \in PlanIds, d \in DispatchIds : prepare_dispatch(p, d)
    <2>1. PICK p \in PlanIds, d \in DispatchIds : prepare_dispatch(p, d)
        BY <1>5
    <2>2. p \in existing /\ plans[p].lifecycle = "RESERVED"
        BY <2>1 DEF prepare_dispatch, in, existing
    <2>3. CASE plans' = [plans EXCEPT ![p].lifecycle = "SUPERSEDED"]
        BY <1>0, <2>2, <2>3, OneMovedStep DEF Forward, ExecutionLifecycle
    <2>4. CASE /\ plans' = [plans EXCEPT ![p].dispatch = d]
               /\ staleness(p) = {}
               /\ runtime[plans[p].target] # None
               /\ sent' = sent \cup {dispatch_msg(p, d)}
        <3>1. HandsOut(p)
            BY <1>0, <2>2, <2>4, OneHandedOut, ZenonT(30) DEF HandsOut
        <3>2. QED BY <1>0, <2>2, <2>4, <3>1, OneHandedOut, ZenonT(30) DEF PlanStep, Forward, existing
    <2>5. QED BY <2>1, <2>3, <2>4 DEF prepare_dispatch
<1>6. CASE \E p \in PlanIds, d \in DispatchIds : confirm_dispatched(p, d)
    <2>1. PICK p \in PlanIds, d \in DispatchIds : confirm_dispatched(p, d)
        BY <1>6
    <2>2. p \in existing /\ plans[p].lifecycle = "RESERVED"
        BY <2>1 DEF confirm_dispatched, in, existing
    <2>3. QED
        BY <1>0, <2>1, <2>2, OneMovedStep DEF confirm_dispatched, Forward, ExecutionLifecycle
<1>7. CASE \E m \in sent \cup StrayResults, outcome \in {"intact", "corrupt", "unknown"} :
              apply_result(m, outcome)
    <2>1. PICK m \in sent \cup StrayResults, outcome \in {"intact", "corrupt", "unknown"} :
            apply_result(m, outcome)
        BY <1>7
    <2>2. m.plan \in PlanIds
        BY <1>0, InputTypes DEF TypeOK, DispatchMsg
    <2>3. m.plan \in existing /\ plans[m.plan].lifecycle \in InFlight
        BY <2>1, <2>2 DEF apply_result, accepted, in, existing
    <2>4. verdict(outcome) \in ExecutionLifecycle /\ Forward(plans[m.plan].lifecycle, verdict(outcome))
        BY <2>3 DEF verdict, Forward, ExecutionLifecycle
    <2>5. verdict(outcome) = "COMMITTED" => Commits(m.plan)
        BY <2>1 DEF verdict, Commits
    <2>6. QED BY <1>0, <2>1, <2>3, <2>4, <2>5, OneMovedStep DEF apply_result
<1>8. CASE \E p \in PlanIds : cancel_plan(p)
    <2>1. PICK p \in PlanIds : cancel_plan(p)
        BY <1>8
    <2>2. p \in existing /\ plans[p].lifecycle # "COMMITTED"
        BY <2>1 DEF cancel_plan, in, existing, Finished
    <2>3. QED
        BY <1>0, <2>1, <2>2, OneMovedStep DEF cancel_plan, Forward, ExecutionLifecycle
<1>9. CASE \E b \in Boots : invalidate_boot(b)
    <2>1. PICK b \in Boots : invalidate_boot(b)
        BY <1>9
    <2>2. /\ unfinished(pinned_to(b)) \in SUBSET existing
          /\ \A p \in unfinished(pinned_to(b)) : plans[p].lifecycle # "COMMITTED"
        BY DEF unfinished, pinned_to, Finished
    <2>3. QED BY <1>0, <2>1, <2>2, MovedStep DEF invalidate_boot, Withdrawal
<1>10. CASE \E t \in Targets : retire_target(t)
    <2>1. PICK t \in Targets : retire_target(t)
        BY <1>10
    <2>2. /\ unfinished(placed_on(t)) \in SUBSET existing
          /\ \A p \in unfinished(placed_on(t)) : plans[p].lifecycle # "COMMITTED"
        BY DEF unfinished, placed_on, Finished
    <2>3. QED BY <1>0, <2>1, <2>2, MovedStep DEF retire_target, Withdrawal
<1>11. QED
    BY <1>1, <1>2, <1>3, <1>4, <1>5, <1>6, <1>7, <1>8, <1>9, <1>10
    DEF Next, vars, register, create_operation, bind_worker_session, apply_register_target,
        apply_capability, apply_data_evidence, apply_heartbeat, begin_drain, fence_worker,
        on_worker_disconnected

\* An execution only moves forward: COMMITTED is entered only from in flight and is final, and
\* a plan that left the live states never returns to one.
THEOREM OnlyForward == Spec => ExecutionMovesForward
<1>1. TypeInv /\ [Next]_vars =>
        [\A p \in existing :
            LET old == plans[p].lifecycle
                new == plans'[p].lifecycle
            IN /\ plans'[p] # None
               /\ new = "RESERVED" => old \in {"PLANNED", "RESERVED"}
               /\ new = "DISPATCHED" => old \in {"RESERVED", "DISPATCHED"}
               /\ new = "COMMITTED" => old \in InFlight \cup {"COMMITTED"}
               /\ old \notin Live => new \notin Live
               /\ old = "COMMITTED" => new = "COMMITTED"]_vars
    BY PlansStep DEF PlanStep, Forward, Live, InFlight
<1>2. QED BY <1>1, TypeInvInit, TypeInvNext, PTL DEF Spec, ExecutionMovesForward

-----------------------------------------------------------------------------
(* The safety invariants.  PlansStep says what a step may do to a plan     *)
(* that exists; what is left is, for each invariant, the one or two        *)
(* actions that add something it speaks of.                                *)

\* Every completion recorded is of a plan that is no longer live, and of a COMMITTED plan if the
\* completion is a committed one: this is why a second completion finds its plan closed.
ResultsSettled ==
    \A i \in DOMAIN results :
        LET p == results[i].authority.plan IN
        /\ p \in existing
        /\ plans[p].lifecycle \notin Live
        /\ results[i].committed => plans[p].lifecycle = "COMMITTED"

\* The dispatch id a plan carries is that of a message handed out with the plan's authority.
HandedOut ==
    \A p \in existing :
        plans[p].dispatch # None => pinned_msg(p, plans[p].dispatch) \in sent

SafetyInv ==
    /\ TypeInv
    /\ LivePlansAreOfThisEpoch
    /\ RevokedNeverCommits
    /\ ResultsSettled
    /\ ResultMatchesPlan
    /\ DispatchCarriesPinnedAuthority
    /\ HandedOut
    /\ CommitsWereHandedOut
    /\ IndexedPlansAreOpen

LEMMA SafetyInit == Init => SafetyInv
<1> SUFFICES ASSUME Init PROVE SafetyInv
    OBVIOUS
<1>1. existing = {} /\ DOMAIN results = {} /\ sent = {} /\ revoked = {}
    BY DEF Init, existing
<1>2. \A o \in Operations : active_plans[o] = None
    BY DEF Init
<1>3. QED
    BY <1>1, <1>2, TypeInvInit
    DEF SafetyInv, LivePlansAreOfThisEpoch, RevokedNeverCommits, ResultsSettled,
        ResultMatchesPlan, DispatchCarriesPinnedAuthority, HandedOut, CommitsWereHandedOut,
        IndexedPlansAreOpen

\* Which actions change what.
LEMMA WhatChanges ==
    ASSUME [Next]_vars
    PROVE  /\ epoch' = epoch \/ advance_epoch
           /\ \/ results' = results
              \/ \E m \in sent \cup StrayResults, outcome \in {"intact", "corrupt", "unknown"} :
                    apply_result(m, outcome)
           /\ \/ sent' = sent
              \/ \E p \in PlanIds, d \in DispatchIds : prepare_dispatch(p, d)
           /\ \/ revoked' = revoked
              \/ advance_epoch
              \/ \E p \in PlanIds : cancel_plan(p)
              \/ \E b \in Boots : invalidate_boot(b)
              \/ \E t \in Targets : retire_target(t)
BY Zenon DEF Next, vars, catalogVars, evidenceVars, planVars, advance_epoch, register,
       create_operation, bind_worker_session, apply_register_target, apply_capability,
       apply_data_evidence, apply_heartbeat, plan, reserve, prepare_dispatch,
       confirm_dispatched, apply_result, begin_drain, cancel_plan, fence_worker,
       on_worker_disconnected, retire_target

\* Only plan(o) adds a plan, PLANNED in the current epoch and not yet handed out.
LEMMA NewPlans ==
    ASSUME TypeInv, [Next]_vars, NEW p \in PlanIds, plans'[p] # None, plans[p] = None
    PROVE  /\ plans'[p].lifecycle = "PLANNED"
           /\ plans'[p].snapshot.epoch = epoch
           /\ plans'[p].dispatch = None
           /\ \E o \in Operations : plan(o)
<1> USE DEF catalogVars, evidenceVars, planVars
<1>0. TypeOK /\ p \notin existing
    BY DEF TypeInv, existing
<1>1. ASSUME NEW q \in existing, NEW x, plans' = [plans EXCEPT ![q] = x] PROVE FALSE
    BY <1>0, <1>1 DEF TypeOK, existing
<1>2. ASSUME NEW S \in SUBSET existing, NEW to \in Withdrawal, plans' = moved(S, to) PROVE FALSE
    BY <1>0, <1>2, MovedFacts, ZenonT(30)
<1>3. ~advance_epoch
    BY <1>2 DEF advance_epoch, uncommitted, Withdrawal
<1>4. ASSUME NEW b \in Boots, invalidate_boot(b) PROVE FALSE
    BY <1>2, <1>4, Zenon DEF invalidate_boot, unfinished, pinned_to, Withdrawal
<1>5. ASSUME NEW t \in Targets, retire_target(t) PROVE FALSE
    BY <1>2, <1>5, Zenon DEF retire_target, unfinished, placed_on, Withdrawal
<1>6. ASSUME NEW q \in PlanIds, reserve(q) \/ cancel_plan(q) PROVE FALSE
    <2>1. q \in existing
        BY <1>6 DEF reserve, cancel_plan, in, existing
    <2>2. \E x : plans' = [plans EXCEPT ![q] = x]
        BY <1>6 DEF reserve, cancel_plan
    <2>3. QED BY <1>1, <2>1, <2>2, Zenon
<1>7. ASSUME NEW q \in PlanIds, NEW d \in DispatchIds,
             prepare_dispatch(q, d) \/ confirm_dispatched(q, d)
      PROVE  FALSE
    <2>1. q \in existing
        BY <1>7 DEF prepare_dispatch, confirm_dispatched, in, existing
    <2>2. \E x : plans' = [plans EXCEPT ![q] = x]
        BY <1>7 DEF prepare_dispatch, confirm_dispatched
    <2>3. QED BY <1>1, <2>1, <2>2, Zenon
<1>8. ASSUME NEW m \in sent \cup StrayResults, NEW outcome, apply_result(m, outcome) PROVE FALSE
    <2>1. m.plan \in existing
        BY <1>0, <1>8, InputTypes DEF apply_result, accepted, in, existing, TypeOK, DispatchMsg
    <2>2. \E x : plans' = [plans EXCEPT ![m.plan] = x]
        BY <1>8, Zenon DEF apply_result
    <2>3. QED BY <1>1, <2>1, <2>2, Zenon
<1>9. PICK o \in Operations : plan(o)
    BY <1>3, <1>4, <1>5, <1>6, <1>7, <1>8, Zenon
    DEF Next, vars, register, create_operation, bind_worker_session, apply_register_target,
        apply_capability, apply_data_evidence, apply_heartbeat, begin_drain, fence_worker,
        on_worker_disconnected
<1>10. PICK q \in PlanIds : \E t : plans' = [plans EXCEPT ![q] = new_plan(o, t)]
    BY <1>9, Zenon DEF plan
<1>11. PICK t : plans'[p] = new_plan(o, t)
    BY <1>0, <1>10 DEF TypeOK, existing
<1>12. QED BY <1>9, <1>11 DEF new_plan

-----------------------------------------------------------------------------
(* One lemma per invariant.                                                *)

\* What every lemma below starts from.
LEMMA StepFacts ==
    ASSUME TypeInv, [Next]_vars
    PROVE  /\ TypeOK /\ TypeOK'
           /\ existing \subseteq existing'
           /\ \A p \in existing : PlanStep(p)
           /\ \A p \in existing' \ existing :
                /\ plans'[p].lifecycle = "PLANNED"
                /\ plans'[p].snapshot.epoch = epoch
                /\ plans'[p].dispatch = None
<1>1. TypeOK /\ TypeOK' /\ \A p \in existing : PlanStep(p)
    BY TypeInvNext, PlansStep DEF TypeInv
<1>2. existing \subseteq existing'
    BY <1>1 DEF PlanStep, existing
<1>3. \A p \in existing' \ existing : p \in PlanIds /\ plans'[p] # None /\ plans[p] = None
    BY DEF existing
<1>4. QED BY <1>1, <1>2, <1>3, NewPlans

\* advance_epoch leaves nothing live; otherwise a live plan was live before, or is new.
LEMMA EpochStep ==
    ASSUME TypeInv, [Next]_vars, LivePlansAreOfThisEpoch
    PROVE  LivePlansAreOfThisEpoch'
<1>1. CASE advance_epoch
    <2>1. ASSUME NEW p \in existing PROVE plans'[p].lifecycle \notin Live
        <3>1. CASE p \in uncommitted(existing)
            <4>1. uncommitted(existing) \in SUBSET existing /\ unknown_or_superseded \in Withdrawal
                BY DEF uncommitted, Withdrawal
            <4>2. plans'[p].lifecycle = unknown_or_superseded[plans[p].lifecycle]
                BY <1>1, <3>1, <4>1, MovedFacts DEF advance_epoch, TypeInv
            <4>3. plans'[p].lifecycle \in {"OUTCOME_UNKNOWN", "SUPERSEDED", "FENCED"}
                BY <4>1, <4>2, Lookups, WithdrawalType DEF TypeInv
            <4>4. QED BY <4>3 DEF Live, InFlight
        <3>2. CASE plans[p].lifecycle = "COMMITTED"
            BY <3>2, StepFacts DEF PlanStep, Forward, Live, InFlight
        <3>3. QED BY <3>1, <3>2 DEF uncommitted
    <2>2. existing' = existing
        <3>1. uncommitted(existing) \in SUBSET existing /\ unknown_or_superseded \in Withdrawal
            BY DEF uncommitted, Withdrawal
        <3>2. QED BY <1>1, <3>1, MovedFacts DEF advance_epoch, existing, TypeInv
    <2>3. QED BY <2>1, <2>2 DEF LivePlansAreOfThisEpoch
<1>2. CASE epoch' = epoch
    <2>1. ASSUME NEW p \in existing, plans'[p].lifecycle \in Live
          PROVE  plans'[p].snapshot.epoch = epoch
        BY <2>1, StepFacts DEF PlanStep, Forward, Live, InFlight, LivePlansAreOfThisEpoch
    <2>2. QED BY <1>2, <2>1, StepFacts DEF LivePlansAreOfThisEpoch
<1>3. QED BY <1>1, <1>2, WhatChanges

\* A plan that is neither live nor COMMITTED stays so.
LEMMA ClosedStaysClosed ==
    ASSUME TypeInv, [Next]_vars, NEW p \in existing,
           plans[p].lifecycle \notin Live \cup {"COMMITTED"}
    PROVE  plans'[p] # None /\ plans'[p].lifecycle \notin Live \cup {"COMMITTED"}
BY StepFacts DEF PlanStep, Forward, Live, InFlight

\* The plans added to revoked by this step are closed by it.
LEMMA RevokedStep ==
    ASSUME TypeInv, [Next]_vars, RevokedNeverCommits
    PROVE  RevokedNeverCommits'
<1> DEFINE closed(p) == plans'[p] # None /\ plans'[p].lifecycle \notin Live \cup {"COMMITTED"}
<1>1. \A p \in revoked : closed(p)
    BY ClosedStaysClosed DEF RevokedNeverCommits, TypeInv, TypeOK, existing
<1>2. ASSUME NEW S \in SUBSET existing, NEW to \in Withdrawal, plans' = moved(S, to),
             NEW p \in existing, p \in S \/ plans[p].lifecycle \in Finished \ {"COMMITTED"}
      PROVE  closed(p)
    <2>1. CASE p \in S
        <3>1. plans'[p].lifecycle = to[plans[p].lifecycle]
            BY <1>2, <2>1, MovedFacts DEF TypeInv
        <3>2. to[plans[p].lifecycle] \in {"OUTCOME_UNKNOWN", "SUPERSEDED", "FENCED"}
            BY Lookups, WithdrawalType DEF TypeInv
        <3>3. plans'[p] # None
            BY StepFacts DEF PlanStep
        <3>4. QED BY <3>1, <3>2, <3>3 DEF Live, InFlight
    <2>2. CASE plans[p].lifecycle \in Finished \ {"COMMITTED"}
        BY <2>2, ClosedStaysClosed DEF Finished, Live, InFlight
    <2>3. QED BY <1>2, <2>1, <2>2
<1>3. CASE advance_epoch
    <2>1. uncommitted(existing) \in SUBSET existing /\ unknown_or_superseded \in Withdrawal
        BY DEF uncommitted, Withdrawal
    <2>2. \A p \in uncommitted(existing) : closed(p)
        BY <1>2, <1>3, <2>1 DEF advance_epoch
    <2>3. QED BY <1>1, <1>3, <2>2 DEF advance_epoch, RevokedNeverCommits
<1>4. CASE \E p \in PlanIds : cancel_plan(p)
    <2>1. PICK p \in PlanIds : cancel_plan(p)
        BY <1>4
    <2>2. closed(p)
        <3>1. p \in existing
            BY <2>1 DEF cancel_plan, in, existing
        <3>2. plans'[p].lifecycle = "CANCELLED"
            BY <2>1, <3>1, OneMoved, Zenon DEF cancel_plan, ExecutionLifecycle, TypeInv
        <3>3. QED BY <3>1, <3>2, StepFacts DEF PlanStep, Live, InFlight
    <2>3. QED BY <1>1, <2>1, <2>2 DEF cancel_plan, RevokedNeverCommits
<1>5. CASE \E b \in Boots : invalidate_boot(b)
    <2>1. PICK b \in Boots : invalidate_boot(b)
        BY <1>5
    <2>2. unfinished(pinned_to(b)) \in SUBSET existing /\ unknown_or_fenced \in Withdrawal
        BY DEF unfinished, pinned_to, Withdrawal
    <2>3. \A p \in uncommitted(pinned_to(b)) : closed(p)
        BY <1>2, <2>1, <2>2, Zenon DEF invalidate_boot, uncommitted, unfinished, pinned_to
    <2>4. QED BY <1>1, <2>1, <2>3 DEF invalidate_boot, RevokedNeverCommits
<1>6. CASE \E t \in Targets : retire_target(t)
    <2>1. PICK t \in Targets : retire_target(t)
        BY <1>6
    <2>2. unfinished(placed_on(t)) \in SUBSET existing /\ fenced \in Withdrawal
        BY DEF unfinished, placed_on, Withdrawal
    <2>3. \A p \in uncommitted(placed_on(t)) : closed(p)
        BY <1>2, <2>1, <2>2, Zenon DEF retire_target, uncommitted, unfinished, placed_on
    <2>4. QED BY <1>1, <2>1, <2>3 DEF retire_target, RevokedNeverCommits
<1>7. CASE revoked' = revoked
    BY <1>1, <1>7 DEF RevokedNeverCommits
<1>8. QED BY <1>3, <1>4, <1>5, <1>6, <1>7, WhatChanges

\* A step records nothing, or one completion, of a plan that was in flight and now has the
\* lifecycle the completion's outcome calls for.
LEMMA RecordStep ==
    ASSUME TypeInv, [Next]_vars, results' # results
    PROVE  \E m \in DispatchMsg, outcome \in {"intact", "corrupt", "unknown"} :
             /\ m \in sent \cup StrayResults
             /\ accepted(m) /\ sent' = sent
             /\ m.plan \in existing
             /\ plans[m.plan].lifecycle \in InFlight
             /\ plans'[m.plan].lifecycle = verdict(outcome)
             /\ plans'[m.plan].dispatch = plans[m.plan].dispatch
             /\ plans'[m.plan].target = plans[m.plan].target
             /\ results' = Append(results, new_result(m, outcome))
             /\ \A q \in PlanIds \ {m.plan} : plans'[q] = plans[q]
<1>1. PICK m \in sent \cup StrayResults, outcome \in {"intact", "corrupt", "unknown"} :
        apply_result(m, outcome)
    BY WhatChanges
<1>2. m \in DispatchMsg /\ m.plan \in PlanIds
    BY InputTypes DEF TypeInv, TypeOK, DispatchMsg
<1>3. m.plan \in existing /\ plans[m.plan].lifecycle \in InFlight
    BY <1>1, <1>2 DEF apply_result, accepted, in, existing
<1>4. verdict(outcome) \in ExecutionLifecycle
    BY DEF verdict, ExecutionLifecycle
<1>5. /\ plans'[m.plan].lifecycle = verdict(outcome)
      /\ SameButLifecycle(plans[m.plan], plans'[m.plan])
      /\ \A q \in PlanIds \ {m.plan} : plans'[q] = plans[q]
    BY <1>1, <1>3, <1>4, OneMoved, Zenon DEF apply_result, TypeInv
<1>6. QED BY <1>1, <1>2, <1>3, <1>5 DEF apply_result, SameButLifecycle

\* What Append does to the indices.
LEMMA Appended ==
    ASSUME NEW T, NEW s \in Seq(T), NEW x \in T
    PROVE  /\ DOMAIN Append(s, x) = DOMAIN s \cup {Len(s) + 1}
           /\ Len(s) + 1 \notin DOMAIN s
           /\ \A i \in DOMAIN s : Append(s, x)[i] = s[i]
           /\ Append(s, x)[Len(s) + 1] = x
OBVIOUS

\* The same of a sequence that is known to be the longer one.
LEMMA Grown ==
    ASSUME NEW T, NEW s \in Seq(T), NEW x \in T, NEW q, q = Append(s, x)
    PROVE  /\ \A i \in DOMAIN s : i \in DOMAIN q /\ q[i] = s[i]
           /\ \E i \in DOMAIN q : q[i] = x
BY Appended

\* A recorded completion leaves its plan settled, and an earlier one stays settled.
LEMMA SettledStep ==
    ASSUME TypeInv, [Next]_vars, ResultsSettled
    PROVE  ResultsSettled'
<1>1. ASSUME NEW i \in DOMAIN results
      PROVE  LET p == results[i].authority.plan IN
             /\ p \in existing'
             /\ plans'[p].lifecycle \notin Live
             /\ results[i].committed => plans'[p].lifecycle = "COMMITTED"
    BY StepFacts DEF ResultsSettled, PlanStep, Forward, Live, InFlight
<1>2. CASE results' = results
    BY <1>1, <1>2 DEF ResultsSettled
<1>3. CASE results' # results
    <2>1. PICK m \in DispatchMsg, outcome \in {"intact", "corrupt", "unknown"} :
             /\ m.plan \in existing
             /\ plans'[m.plan].lifecycle = verdict(outcome)
             /\ results' = Append(results, new_result(m, outcome))
        BY <1>3, RecordStep
    <2>2. new_result(m, outcome) \in ExecutionResult /\ results \in Seq(ExecutionResult)
        BY DEF new_result, ExecutionResult, TypeInv, TypeOK
    <2>3. /\ new_result(m, outcome).authority.plan = m.plan
          /\ new_result(m, outcome).committed => outcome = "intact"
        BY Zenon DEF new_result
    <2>4. /\ m.plan \in existing'
          /\ plans'[m.plan].lifecycle \notin Live
          /\ outcome = "intact" => plans'[m.plan].lifecycle = "COMMITTED"
        BY <2>1, StepFacts DEF verdict, Live, InFlight
    <2>5. ASSUME NEW i \in DOMAIN results'
          PROVE  LET p == results'[i].authority.plan IN
                 /\ p \in existing'
                 /\ plans'[p].lifecycle \notin Live
                 /\ results'[i].committed => plans'[p].lifecycle = "COMMITTED"
        <3>1. CASE i \in DOMAIN results
            BY <1>1, <2>1, <2>2, <3>1, Appended
        <3>2. CASE i = Len(results) + 1
            <4>1. results'[i] = new_result(m, outcome)
                BY <2>1, <2>2, <3>2, Appended
            <4>2. QED BY <2>3, <2>4, <4>1
        <3>3. DOMAIN results' = DOMAIN results \cup {Len(results) + 1}
            BY <2>1, <2>2, Appended
        <3>4. QED BY <3>1, <3>2, <3>3
    <2>6. QED BY <2>5 DEF ResultsSettled
<1>4. QED BY <1>2, <1>3

\* A second completion of a plan finds it settled, and COMMITTED comes with its record.
LEMMA ResultStep ==
    ASSUME TypeInv, [Next]_vars, ResultsSettled, ResultMatchesPlan
    PROVE  ResultMatchesPlan'
<1>0. ResultsSettled'
    BY SettledStep
<1>1. CASE results' = results
    <2>1. ASSUME NEW p \in existing', plans'[p].lifecycle = "COMMITTED"
          PROVE  p \in existing /\ plans[p].lifecycle = "COMMITTED"
        <3>1. p \in existing
            BY <2>1, StepFacts
        <3>2. ~Commits(p)
            <4>1. ASSUME NEW m, results' = Append(results, new_result(m, "intact")) PROVE FALSE
                <5>1. results \in Seq(ExecutionResult)
                    BY DEF TypeInv, TypeOK
                <5>2. Len(Append(results, new_result(m, "intact"))) # Len(results)
                    BY <5>1
                <5>3. QED BY <1>1, <4>1, <5>2
            <4>2. QED BY <4>1, Zenon DEF Commits, apply_result
        <3>3. QED BY <2>1, <3>1, <3>2, StepFacts DEF PlanStep
    <2>2. \A p \in existing' : plans'[p].lifecycle = "COMMITTED" <=>
            \E i \in DOMAIN results : results[i].authority.plan = p /\ results[i].committed
        BY <1>0, <1>1, <2>1 DEF ResultMatchesPlan, ResultsSettled
    <2>3. QED BY <1>1, <2>2 DEF ResultMatchesPlan
<1>2. CASE results' # results
    <2>1. PICK m \in DispatchMsg, outcome \in {"intact", "corrupt", "unknown"} :
             /\ m.plan \in existing
             /\ plans[m.plan].lifecycle \in InFlight
             /\ plans'[m.plan].lifecycle = verdict(outcome)
             /\ results' = Append(results, new_result(m, outcome))
             /\ \A q \in PlanIds \ {m.plan} : plans'[q] = plans[q]
        BY <1>2, RecordStep
    <2>2. new_result(m, outcome) \in ExecutionResult /\ results \in Seq(ExecutionResult)
        BY DEF new_result, ExecutionResult, TypeInv, TypeOK
    <2> DEFINE last == Len(results) + 1
    <2>3. /\ DOMAIN results' = DOMAIN results \cup {last}
          /\ last \notin DOMAIN results
          /\ \A i \in DOMAIN results : results'[i] = results[i]
          /\ results'[last] = new_result(m, outcome)
        BY <2>1, <2>2, Appended
    <2> HIDE DEF last
    <2>4. results'[last].authority.plan = m.plan /\ (results'[last].committed <=> outcome = "intact")
        <3>1. /\ new_result(m, outcome).authority.plan = m.plan
              /\ new_result(m, outcome).committed <=> outcome = "intact"
            BY Zenon DEF new_result
        <3>2. QED BY <2>3, <3>1
    <2>5. \A i \in DOMAIN results : results[i].authority.plan # m.plan
        BY <2>1 DEF ResultsSettled, Live
    <2>6. \A i, j \in DOMAIN results' :
            results'[i].authority.plan = results'[j].authority.plan => i = j
        BY <2>3, <2>4, <2>5 DEF ResultMatchesPlan
    <2>7. ASSUME NEW p \in existing', plans'[p].lifecycle = "COMMITTED"
          PROVE  \E i \in DOMAIN results' : results'[i].authority.plan = p /\ results'[i].committed
        <3>1. CASE p = m.plan
            BY <2>1, <2>3, <2>4, <2>7, <3>1 DEF verdict
        <3>2. CASE p # m.plan
            <4>1. p \in existing /\ plans[p].lifecycle = "COMMITTED"
                BY <2>1, <2>7, <3>2 DEF existing
            <4>2. QED BY <2>3, <4>1 DEF ResultMatchesPlan
        <3>3. QED BY <3>1, <3>2
    <2>8. QED BY <1>0, <2>6, <2>7 DEF ResultMatchesPlan, ResultsSettled
<1>3. QED BY <1>1, <1>2

\* A plan no authority dimension of which moved is handed out with the authority it pinned: the
\* boot, epoch and operation generation that are current are then the pinned ones.
LEMMA FreshIsPinned ==
    ASSUME TypeInv, NEW p \in existing, NEW d, staleness(p) = {}, runtime[plans[p].target] # None
    PROVE  dispatch_msg(p, d) = pinned_msg(p, d)
<1> DEFINE s  == plans[p].snapshot
           op == operations[plans[p].operation]
<1>1. /\ reason("epoch", epoch # s.epoch) = {}
      /\ reason("worker_boot", runtime[plans[p].target] # None
                                /\ runtime[plans[p].target].owner_boot # s.worker_boot) = {}
      /\ reason("operation_generation", op.generation # s.operation_generation) = {}
    BY Zenon DEF staleness
<1>2. /\ epoch = s.epoch
      /\ runtime[plans[p].target].owner_boot = s.worker_boot
      /\ op.generation = s.operation_generation
    BY <1>1 DEF reason
<1>3. QED BY <1>2 DEF dispatch_msg, pinned_msg

\* The pinned message of a plan never changes.
LEMMA PinnedStable ==
    ASSUME TypeInv, [Next]_vars, NEW p \in existing, NEW d
    PROVE  pinned_msg(p, d)' = pinned_msg(p, d)
BY StepFacts DEF PlanStep, pinned_msg

\* What is handed out carries the plan's authority, and a plan's dispatch id was handed out.
LEMMA HandOutStep ==
    ASSUME TypeInv, [Next]_vars, DispatchCarriesPinnedAuthority, HandedOut
    PROVE  DispatchCarriesPinnedAuthority' /\ HandedOut'
<1>1. ASSUME NEW m \in sent PROVE plans'[m.plan] # None /\ m = pinned_msg(m.plan, m.dispatch)'
    <2>1. m.plan \in existing
        BY DEF DispatchCarriesPinnedAuthority, TypeInv, TypeOK, DispatchMsg, existing
    <2>2. QED BY <2>1, StepFacts, PinnedStable, ZenonT(30) DEF PlanStep, DispatchCarriesPinnedAuthority
<1>2. sent \subseteq sent'
    BY WhatChanges DEF prepare_dispatch
<1>3. HandedOut'
    <2>1. ASSUME NEW p \in existing', plans'[p].dispatch # None
          PROVE  pinned_msg(p, plans[p].dispatch)' \in sent'
        <3>1. p \in existing
            BY <2>1, StepFacts
        <3>2. pinned_msg(p, plans[p].dispatch)' = pinned_msg(p, plans'[p].dispatch)
            BY <3>1, StepFacts DEF PlanStep, pinned_msg
        <3>3. CASE plans'[p].dispatch = plans[p].dispatch
            BY <1>2, <2>1, <3>1, <3>2, <3>3 DEF HandedOut
        <3>4. CASE HandsOut(p)
            BY <3>1, <3>2, <3>4, FreshIsPinned DEF HandsOut
        <3>5. QED BY <3>1, <3>3, <3>4, StepFacts DEF PlanStep
    <2>2. QED BY <2>1 DEF HandedOut
<1>4. DispatchCarriesPinnedAuthority'
    <2>1. CASE sent' = sent
        BY <1>1, <2>1 DEF DispatchCarriesPinnedAuthority
    <2>2. ASSUME NEW p \in PlanIds, NEW d \in DispatchIds, prepare_dispatch(p, d), sent' # sent
          PROVE  DispatchCarriesPinnedAuthority'
        <3>1. /\ p \in existing /\ staleness(p) = {} /\ runtime[plans[p].target] # None
              /\ sent' = sent \cup {dispatch_msg(p, d)}
            BY <2>2 DEF prepare_dispatch, in, existing
        <3>2. dispatch_msg(p, d) = pinned_msg(p, d)'
            BY <3>1, FreshIsPinned, PinnedStable
        <3>3. dispatch_msg(p, d).plan = p /\ dispatch_msg(p, d).dispatch = d
            BY DEF dispatch_msg
        <3>4. QED
            BY <1>1, <3>1, <3>2, <3>3, StepFacts DEF DispatchCarriesPinnedAuthority, PlanStep
    <2>3. QED BY <2>1, <2>2, WhatChanges
<1>5. QED BY <1>3, <1>4

\* A completion that is accepted repeats the authority its plan pinned, apart from the target id.
LEMMA AcceptedIsPinned ==
    ASSUME NEW m \in DispatchMsg, accepted(m)
    PROVE  [m EXCEPT !.target = plans[m.plan].target] = pinned_msg(m.plan, plans[m.plan].dispatch)
BY DEF accepted, authentic, validate_completion, pinned_msg, DispatchMsg

LEMMA CommitStep ==
    ASSUME TypeInv, [Next]_vars, HandedOut, ResultsSettled, CommitsWereHandedOut
    PROVE  CommitsWereHandedOut'
<1> DEFINE ok(r) == r.committed =>
               /\ plans'[r.authority.plan] # None
               /\ r.authority.dispatch = plans'[r.authority.plan].dispatch
               /\ [r.authority EXCEPT !.target = plans'[r.authority.plan].target] \in sent'
<1>1. sent \subseteq sent'
    BY WhatChanges DEF prepare_dispatch
<1>2. ASSUME NEW i \in DOMAIN results PROVE ok(results[i])
    <2>1. CASE results[i].committed
        <3>1. /\ results[i].authority.plan \in existing
              /\ plans[results[i].authority.plan].lifecycle = "COMMITTED"
            BY <2>1 DEF ResultsSettled
        <3>2. /\ plans'[results[i].authority.plan] # None
              /\ plans'[results[i].authority.plan].dispatch = plans[results[i].authority.plan].dispatch
              /\ plans'[results[i].authority.plan].target = plans[results[i].authority.plan].target
            BY <3>1, StepFacts DEF PlanStep, HandsOut
        <3>3. QED BY <1>1, <2>1, <3>2 DEF CommitsWereHandedOut
    <2>2. QED BY <2>1
<1>3. CASE results' = results
    BY <1>2, <1>3 DEF CommitsWereHandedOut
<1>4. CASE results' # results
    <2>1. PICK m \in DispatchMsg, outcome \in {"intact", "corrupt", "unknown"} :
             /\ accepted(m) /\ m.plan \in existing
             /\ plans'[m.plan].dispatch = plans[m.plan].dispatch
             /\ plans'[m.plan].target = plans[m.plan].target
             /\ results' = Append(results, new_result(m, outcome))
        BY <1>4, RecordStep
    <2>2. new_result(m, outcome) \in ExecutionResult /\ results \in Seq(ExecutionResult)
        BY DEF new_result, ExecutionResult, TypeInv, TypeOK
    <2>3. m.dispatch = plans[m.plan].dispatch /\ m.dispatch # None
        BY <2>1, NoneIsNoEntry DEF accepted, DispatchMsg
    <2>4. [m EXCEPT !.target = plans[m.plan].target] \in sent
        BY <2>1, <2>3, AcceptedIsPinned DEF HandedOut
    <2>5. new_result(m, outcome).authority = m
        BY DEF new_result
    <2>6. ok(new_result(m, outcome))
        BY <1>1, <2>1, <2>3, <2>4, <2>5, StepFacts DEF PlanStep
    <2> HIDE DEF ok
    <2>7. \A i \in DOMAIN results' : ok(results'[i])
        BY <1>2, <2>1, <2>2, <2>6, Appended
    <2> USE DEF ok
    <2>8. QED BY <2>7 DEF CommitsWereHandedOut
<1>5. QED BY <1>3, <1>4

\* The rebuilding steps are right by construction; apply_result and cancel_plan close a plan and
\* erase the entry of its operation, and no other operation's entry names that plan.
LEMMA IndexStep ==
    ASSUME TypeInv, [Next]_vars, IndexedPlansAreOpen
    PROVE  IndexedPlansAreOpen'
<1> USE DEF catalogVars, evidenceVars, planVars
<1> DEFINE Closed  == {"COMMITTED", "FAILED", "CANCELLED", "FENCED"}
           good(o) == active_plans'[o] # None =>
                        /\ plans'[active_plans'[o]] # None
                        /\ plans'[active_plans'[o]].operation = o
                        /\ plans'[active_plans'[o]].lifecycle \notin Closed
<1> SUFFICES \A o \in Operations : good(o)
    BY DEF IndexedPlansAreOpen
<1>0. TypeOK
    BY DEF TypeInv
<1>1. ASSUME active_plans' = rebuild_active_plans(plans') PROVE \A o \in Operations : good(o)
    BY <1>1, Rebuilt DEF Finished
\* an entry that stays survives if its plan does not close
<1>2. ASSUME NEW o \in Operations, active_plans'[o] = active_plans[o],
             active_plans[o] # None =>
                \/ plans'[active_plans[o]].lifecycle = plans[active_plans[o]].lifecycle
                \/ plans'[active_plans[o]].lifecycle \notin Closed
      PROVE  good(o)
    <2>1. CASE active_plans[o] # None
        <3>1. active_plans[o] \in existing
            BY <1>0, <2>1 DEF IndexedPlansAreOpen, TypeOK, existing
        <3>2. QED BY <1>2, <2>1, <3>1, StepFacts DEF IndexedPlansAreOpen, PlanStep
    <2>2. QED BY <1>2, <2>1
\* one plan closes and its operation's entry is erased
<1>3. ASSUME NEW p \in existing, NEW l \in ExecutionLifecycle,
             plans' = [plans EXCEPT ![p].lifecycle = l],
             active_plans' = [active_plans EXCEPT ![plans[p].operation] = None]
      PROVE  \A o \in Operations : good(o)
    <2>1. plans[p].operation \in Operations
        BY <1>0, Lookups
    <2>2. good(plans[p].operation)
        BY <1>0, <1>3, <2>1 DEF TypeOK
    <2>3. ASSUME NEW o \in Operations, o # plans[p].operation PROVE good(o)
        <3>1. active_plans'[o] = active_plans[o]
            BY <1>0, <1>3, <2>3 DEF TypeOK
        <3>2. active_plans[o] # None => active_plans[o] \in PlanIds \ {p}
            BY <1>0, <2>3 DEF IndexedPlansAreOpen, TypeOK
        <3>3. active_plans[o] # None => plans'[active_plans[o]] = plans[active_plans[o]]
            BY <1>0, <1>3, <3>2, OneMoved
        <3>4. QED BY <1>2, <3>1, <3>3
    <2>4. QED BY <2>2, <2>3
<1> HIDE DEF good
<1>4. CASE \/ advance_epoch
           \/ \E b \in Boots : fence_worker(b) \/ on_worker_disconnected(b)
           \/ \E t \in Targets : retire_target(t)
    BY <1>1, <1>4, Zenon
    DEF advance_epoch, fence_worker, on_worker_disconnected, invalidate_boot, retire_target
<1>5. CASE \E m \in sent \cup StrayResults, outcome \in {"intact", "corrupt", "unknown"} :
             apply_result(m, outcome)
    <2>1. PICK m \in sent \cup StrayResults, outcome \in {"intact", "corrupt", "unknown"} :
            apply_result(m, outcome)
        BY <1>5
    <2>2. m.plan \in existing
        BY <1>0, <2>1, InputTypes DEF apply_result, accepted, in, existing, TypeOK, DispatchMsg
    <2>3. verdict(outcome) \in ExecutionLifecycle
        BY DEF verdict, ExecutionLifecycle
    <2>4. QED BY <1>3, <2>1, <2>2, <2>3, Zenon DEF apply_result
<1>6. CASE \E p \in PlanIds : cancel_plan(p)
    <2>1. PICK p \in PlanIds : cancel_plan(p)
        BY <1>6
    <2>2. p \in existing /\ "CANCELLED" \in ExecutionLifecycle
        BY <2>1 DEF cancel_plan, in, existing, ExecutionLifecycle
    <2>3. QED BY <1>3, <2>1, <2>2, Zenon DEF cancel_plan
<1>7. CASE \E o \in Operations : plan(o)
    <2>1. PICK o \in Operations : plan(o)
        BY <1>7
    <2>2. PICK pol \in descriptors :
            \E best \in front(candidates(o, pol)), p \in PlanIds \ existing :
                /\ plans' = [plans EXCEPT ![p] = new_plan(o, best.target)]
                /\ active_plans' = [active_plans EXCEPT ![o] = p]
        BY <2>1, ZenonT(30) DEF plan
    <2>3. PICK best \in front(candidates(o, pol)), p \in PlanIds \ existing :
            /\ plans' = [plans EXCEPT ![p] = new_plan(o, best.target)]
            /\ active_plans' = [active_plans EXCEPT ![o] = p]
        BY <2>2, Zenon
    <2>4. /\ plans'[p] = new_plan(o, best.target) /\ active_plans'[o] = p
          /\ new_plan(o, best.target) # None
        <3>1. operations[o] # None
            BY <2>1 DEF plan
        <3>2. new_plan(o, best.target) \in ExecutionPlan
            BY <1>0, <3>1, NewPlanType
        <3>3. new_plan(o, best.target) # None
            BY <3>2, NoneIsNoEntry
        <3>4. QED BY <1>0, <2>3, <3>3 DEF TypeOK
    <2>5. good(o)
        <3>1. PICK x : x = new_plan(o, best.target)
            OBVIOUS
        <3>2. x.operation = o /\ x.lifecycle = "PLANNED"
            BY <3>1, Zenon DEF new_plan
        <3>3. "PLANNED" \notin Closed
            OBVIOUS
        <3> HIDE DEF Closed
        <3>4. plans'[active_plans'[o]] = x /\ x # None
            BY <2>4, <3>1, Zenon
        <3>5. QED BY <3>2, <3>3, <3>4, Zenon DEF good
    <2>6. ASSUME NEW x \in Operations, x # o PROVE good(x)
        <3>1. active_plans'[x] = active_plans[x]
            BY <1>0, <2>3, <2>6 DEF TypeOK
        <3>2. active_plans[x] # None => active_plans[x] \in existing
            BY <1>0, ZenonT(30) DEF IndexedPlansAreOpen, TypeOK, existing
        <3>3. active_plans[x] # None => plans'[active_plans[x]] = plans[active_plans[x]]
            BY <1>0, <2>3, <3>2 DEF TypeOK, existing
        <3>4. QED BY <1>2, <3>1, <3>3
    <2>7. QED BY <2>5, <2>6
\* one plan moves, not to a closed lifecycle, and the index stays
<1>8. ASSUME NEW p \in existing, active_plans' = active_plans,
             \A q \in PlanIds \ {p} : plans'[q] = plans[q],
             plans'[p].lifecycle \in {"RESERVED", "DISPATCHED", "SUPERSEDED"}
      PROVE  \A o \in Operations : good(o)
    BY <1>0, <1>2, <1>8, Zenon DEF TypeOK
<1>9. CASE \E p \in PlanIds : reserve(p)
    <2>1. PICK p \in PlanIds : reserve(p)
        BY <1>9
    <2>2. p \in existing /\ plans[p] \in ExecutionPlan
        BY <1>0, <2>1, Lookups, Zenon DEF reserve, in, existing
    <2>3. PICK ws : plans' = [plans EXCEPT ![p].lifecycle = "RESERVED", ![p].reserved_slots = 1,
                                           ![p].reserved_workspace = ws]
        BY <2>1, Zenon DEF reserve
    <2>4. plans'[p] = [plans[p] EXCEPT !.lifecycle = "RESERVED", !.reserved_slots = 1,
                                       !.reserved_workspace = ws]
        BY <1>0, <2>2, <2>3 DEF TypeOK
    <2>5. plans'[p].lifecycle = "RESERVED" /\ \A q \in PlanIds \ {p} : plans'[q] = plans[q]
        BY <1>0, <2>2, <2>3, <2>4 DEF TypeOK, ExecutionPlan
    <2>6. QED BY <1>8, <2>1, <2>2, <2>5 DEF reserve
<1>10. CASE \E p \in PlanIds, d \in DispatchIds : prepare_dispatch(p, d)
    <2>1. PICK p \in PlanIds, d \in DispatchIds : prepare_dispatch(p, d)
        BY <1>10
    <2>2. p \in existing /\ plans[p].lifecycle = "RESERVED" /\ active_plans' = active_plans
        BY <2>1 DEF prepare_dispatch, in, existing
    <2>3. CASE plans' = [plans EXCEPT ![p].lifecycle = "SUPERSEDED"]
        BY <1>0, <1>8, <2>2, <2>3, OneMoved, Zenon DEF ExecutionLifecycle
    <2>4. CASE plans' = [plans EXCEPT ![p].dispatch = d]
        BY <1>0, <1>8, <2>2, <2>4, OneHandedOut
    <2>5. QED BY <2>1, <2>3, <2>4 DEF prepare_dispatch
<1>11. CASE \E p \in PlanIds, d \in DispatchIds : confirm_dispatched(p, d)
    <2>1. PICK p \in PlanIds, d \in DispatchIds : confirm_dispatched(p, d)
        BY <1>11
    <2>2. p \in existing
        BY <2>1 DEF confirm_dispatched, in, existing
    <2>3. QED BY <1>0, <1>8, <2>1, <2>2, OneMoved, Zenon DEF confirm_dispatched, ExecutionLifecycle
<1>12. CASE active_plans' = active_plans /\ plans' = plans
    BY <1>2, <1>12
<1>13. QED
    BY <1>4, <1>5, <1>6, <1>7, <1>9, <1>10, <1>11, <1>12
    DEF Next, vars, register, create_operation, bind_worker_session, apply_register_target,
        apply_capability, apply_data_evidence, apply_heartbeat, begin_drain

-----------------------------------------------------------------------------
(* The theorems.                                                           *)

LEMMA SafetyNext == SafetyInv /\ [Next]_vars => SafetyInv'
BY TypeInvNext, EpochStep, RevokedStep, SettledStep, ResultStep, HandOutStep, CommitStep, IndexStep
DEF SafetyInv

LEMMA Safety == Spec => []SafetyInv
BY SafetyInit, SafetyNext, PTL DEF Spec

\* Once a plan's authority was withdrawn before it committed (cancel_plan, fence_worker,
\* on_worker_disconnected, retire_target, advance_epoch), no later completion commits it.
THEOREM WithdrawalIsFinal == Spec => []RevokedNeverCommits
<1>1. SafetyInv => RevokedNeverCommits
    BY DEF SafetyInv
<1>2. QED BY <1>1, Safety, PTL

\* apply_result records at most one completion of a plan, and a plan is COMMITTED exactly when
\* the recorded one is a committed result.
THEOREM ResultsAgreeWithPlans == Spec => []ResultMatchesPlan
<1>1. SafetyInv => ResultMatchesPlan
    BY DEF SafetyInv
<1>2. QED BY <1>1, Safety, PTL

\* Every DispatchMsg that prepare_dispatch returns carries the authority its plan pinned.
THEOREM DispatchIsPinned == Spec => []DispatchCarriesPinnedAuthority
<1>1. SafetyInv => DispatchCarriesPinnedAuthority
    BY DEF SafetyInv
<1>2. QED BY <1>1, Safety, PTL

\* Whatever completions arrive, only one that repeats the last hand-out of its plan commits.
THEOREM OnlyHandedOutCommits == Spec => []CommitsWereHandedOut
<1>1. SafetyInv => CommitsWereHandedOut
    BY DEF SafetyInv
<1>2. QED BY <1>1, Safety, PTL

\* advance_epoch leaves no plan of an older epoch that could still execute or complete.
THEOREM EpochFencesPlans == Spec => []LivePlansAreOfThisEpoch
<1>1. SafetyInv => LivePlansAreOfThisEpoch
    BY DEF SafetyInv
<1>2. QED BY <1>1, Safety, PTL

\* The hot-path index active_plans never names a plan of another operation, nor one that
\* committed, failed, was cancelled or was fenced (a superseded one may stay until a rebuild).
THEOREM IndexIsOpen == Spec => []IndexedPlansAreOpen
<1>1. SafetyInv => IndexedPlansAreOpen
    BY DEF SafetyInv
<1>2. QED BY <1>1, Safety, PTL

-----------------------------------------------------------------------------
(* Retired targets.                                                        *)

\* A candidate the planner ranks is current.
LEMMA RankedIsCurrent ==
    ASSUME NEW o \in Operations, NEW pol, NEW best \in front(candidates(o, pol))
    PROVE  runtime[best.target].dynamic_current
<1>1. PICK t \in Targets :
        /\ best = candidate(t, operations[o], runtime[t])
        /\ \E prog : hard_filter(targets[t], runtime[t], operations[o],
                                 data_evidence[operations[o].region], capabilities[t], prog, pol)
                        = {}
    BY Zenon DEF front, candidates
<1>2. best.target = t
    BY <1>1 DEF candidate
<1>3. reason("TARGET_REVALIDATION_REQUIRED",
             \/ ~runtime[t].dynamic_current
             \/ runtime[t].lifecycle = "REVALIDATION_REQUIRED"
             \/ capabilities[t].entries[operations[o].op_class] = "REVALIDATION_REQUIRED") = {}
    <2>1. data_evidence[operations[o].region] # None
        BY <1>1, Zenon DEF hard_filter
    <2>2. QED BY <1>1, <2>1, Zenon DEF hard_filter
<1>4. QED BY <1>2, <1>3 DEF reason

LEMMA NewPlanFields ==
    ASSUME NEW o \in Operations, NEW t \in Targets
    PROVE  /\ new_plan(o, t).target = t
           /\ new_plan(o, t).snapshot.worker_boot = runtime[t].owner_boot
           /\ new_plan(o, t).snapshot.target_generation = targets[t].generation
BY DEF new_plan

\* A new plan is pinned to the worker of a target that is current.
LEMMA NewPlanPinned ==
    ASSUME TypeInv, [Next]_vars, NEW p \in existing' \ existing
    PROVE  \E t \in Targets :
             /\ runtime[t] # None /\ runtime[t].dynamic_current
             /\ plans'[p].target = t
             /\ plans'[p].snapshot.worker_boot = runtime[t].owner_boot
             /\ plans'[p].snapshot.target_generation = targets[t].generation
<1>1. TypeOK /\ p \in PlanIds /\ plans'[p] # None /\ plans[p] = None
    BY DEF TypeInv, existing
<1>2. PICK o \in Operations : plan(o)
    BY <1>1, NewPlans
<1>3. PICK pol \in descriptors :
        \E best \in front(candidates(o, pol)), q \in PlanIds :
            plans' = [plans EXCEPT ![q] = new_plan(o, best.target)]
    BY <1>2, Zenon DEF plan
<1>4. PICK best \in front(candidates(o, pol)), q \in PlanIds :
        plans' = [plans EXCEPT ![q] = new_plan(o, best.target)]
    BY <1>3, Zenon
<1>5. plans'[p] = new_plan(o, best.target)
    BY <1>1, <1>4 DEF TypeOK
<1>6. /\ best.target \in Targets /\ runtime[best.target] # None
      /\ runtime[best.target].dynamic_current
    BY Ranked, RankedIsCurrent
<1>7. /\ plans'[p].target = best.target
      /\ plans'[p].snapshot.worker_boot = runtime[best.target].owner_boot
      /\ plans'[p].snapshot.target_generation = targets[best.target].generation
    <2>1. PICK t \in Targets : t = best.target
        BY <1>6, Zenon
    <2>2. plans'[p] = new_plan(o, t)
        BY <1>5, <2>1, Zenon
    <2>3. /\ new_plan(o, t).target = t
          /\ new_plan(o, t).snapshot.worker_boot = runtime[t].owner_boot
          /\ new_plan(o, t).snapshot.target_generation = targets[t].generation
        BY NewPlanFields, Zenon
    <2>4. QED BY <2>1, <2>2, <2>3, Zenon
<1>8. QED BY <1>6, <1>7, Zenon

\* Target t was taken out of service by retire_target, and nothing has overwritten that.
Retired(t) ==
    runtime[t] # None /\ runtime[t].lifecycle = "RETIRED" /\ ~runtime[t].dynamic_current

\* Only retire_target leads to that state: a heartbeat that reports RETIRED leaves the evidence
\* current, and every other writer of the runtime state puts another lifecycle there.
LEMMA OnlyRetireRetires ==
    ASSUME TypeInv, [Next]_vars, NEW t \in Targets, Retired(t)'
    PROVE  Retired(t) \/ retire_target(t)
<1> USE DEF catalogVars, evidenceVars, planVars
<1>0. /\ TypeOK
      /\ runtime'[t] # None /\ runtime'[t].lifecycle = "RETIRED" /\ ~runtime'[t].dynamic_current
    BY DEF TypeInv, Retired
<1>1. ASSUME runtime'[t] = runtime[t] PROVE Retired(t)
    BY <1>0, <1>1 DEF Retired
<1>2. ASSUME NEW u \in Targets, NEW x, runtime' = [runtime EXCEPT ![u] = x], u # t
      PROVE  Retired(t)
    <2>1. runtime'[t] = runtime[t]
        BY <1>0, <1>2 DEF TypeOK
    <2>2. QED BY <1>1, <2>1
<1>3. ASSUME NEW T, runtime' = invalidated_runtime(T) PROVE Retired(t)
    <2>1. CASE t \in T /\ runtime[t] # None
        <3>1. runtime'[t] = [runtime[t] EXCEPT !.dynamic_current = FALSE, !.reachable = FALSE,
                                               !.lifecycle = "REVALIDATION_REQUIRED"]
            BY <1>3, <2>1 DEF invalidated_runtime
        <3>2. runtime[t] \in TargetRuntime
            BY <1>0, <2>1 DEF TypeOK
        <3>3. runtime'[t].lifecycle = "REVALIDATION_REQUIRED"
            BY <3>1, <3>2 DEF TargetRuntime
        <3>4. QED BY <1>0, <3>3
    <2>2. CASE ~(t \in T /\ runtime[t] # None)
        <3>1. runtime'[t] = runtime[t]
            BY <1>3, <2>2, Zenon DEF invalidated_runtime
        <3>2. QED BY <1>1, <3>1
    <2>3. QED BY <2>1, <2>2
<1>4. ASSUME NEW m \in TargetMsgs, apply_register_target(m) PROVE Retired(t)
    <2>1. m.target \in Targets
        BY InputTypes DEF RegisterTargetMsg
    <2>2. CASE m.target # t
        BY <1>2, <1>4, <2>1, <2>2, Zenon DEF apply_register_target
    <2>3. CASE m.target = t
        <3>1. runtime'[t].lifecycle = "REGISTERED"
            BY <1>0, <1>4, <2>3 DEF apply_register_target, TypeOK
        <3>2. QED BY <1>0, <3>1
    <2>4. QED BY <2>2, <2>3
<1>5. ASSUME NEW m \in HeartbeatMsgs, apply_heartbeat(m) PROVE Retired(t)
    <2>1. m.target \in Targets
        BY InputTypes DEF HeartbeatMsg
    <2>2. CASE m.target # t
        <3>1. \E x : runtime' = [runtime EXCEPT ![m.target] = x]
            BY <1>5, Zenon DEF apply_heartbeat
        <3>2. QED BY <1>2, <2>1, <2>2, <3>1, Zenon
    <2>3. CASE m.target = t
        <3>1. runtime'[t].dynamic_current
            BY <1>0, <1>5, <2>3 DEF apply_heartbeat, TypeOK
        <3>2. QED BY <1>0, <3>1
    <2>4. QED BY <2>2, <2>3
<1>6. ASSUME NEW u \in Targets, begin_drain(u) PROVE Retired(t)
    <2>1. CASE u # t
        <3>1. \E x : runtime' = [runtime EXCEPT ![u] = x]
            BY <1>6, Zenon DEF begin_drain
        <3>2. QED BY <1>2, <2>1, <3>1, Zenon
    <2>2. CASE u = t
        <3>1. /\ runtime[t] \in TargetRuntime
              /\ runtime'[t] = [runtime[t] EXCEPT !.lifecycle = "DRAINING"]
            BY <1>0, <1>6, <2>2 DEF begin_drain, TypeOK
        <3>2. runtime'[t].lifecycle = "DRAINING"
            BY <3>1 DEF TargetRuntime
        <3>3. QED BY <1>0, <3>2
    <2>3. QED BY <2>1, <2>2
<1>7. ASSUME NEW u \in Targets, retire_target(u) PROVE Retired(t) \/ retire_target(t)
    <2>1. CASE u # t
        <3>1. \E x : runtime' = [runtime EXCEPT ![u] = x]
            BY <1>7, Zenon DEF retire_target
        <3>2. QED BY <1>2, <2>1, <3>1, Zenon
    <2>2. QED BY <1>7, <2>1
<1> HIDE DEF Retired
<1>8. QED
    BY <1>1, <1>3, <1>4, <1>5, <1>6, <1>7, ZenonT(30)
    DEF Next, vars, advance_epoch, register, create_operation, bind_worker_session,
        apply_capability, apply_data_evidence, plan, reserve, prepare_dispatch,
        confirm_dispatched, apply_result, cancel_plan, fence_worker, on_worker_disconnected,
        invalidate_boot

\* retire_target fences what is on the target; later no plan revives, and none is made there
\* because the planner's filter wants current evidence.
LEMMA RetiredStep ==
    ASSUME TypeInv, [Next]_vars, RetiredTargetIsIdle
    PROVE  RetiredTargetIsIdle'
<1> SUFFICES ASSUME NEW t \in Targets, Retired(t)', NEW p \in placed_on(t)'
             PROVE  plans'[p].lifecycle \notin Live
    BY DEF RetiredTargetIsIdle, Retired
<1>0. p \in existing' /\ plans'[p].target = t
    BY DEF placed_on
<1>1. Retired(t) \/ retire_target(t)
    BY OnlyRetireRetires
<1>2. CASE p \in existing
    <2>1. PlanStep(p) /\ p \in placed_on(t)
        BY <1>0, <1>2, StepFacts DEF PlanStep, placed_on
    <2>2. CASE plans[p].lifecycle \notin Live
        BY <2>1, <2>2 DEF PlanStep, Forward, Live, InFlight
    <2>3. CASE Retired(t)
        BY <2>1, <2>2, <2>3 DEF RetiredTargetIsIdle, Retired
    <2>4. CASE retire_target(t) /\ plans[p].lifecycle \in Live
        <3>1. /\ unfinished(placed_on(t)) \in SUBSET existing /\ fenced \in Withdrawal
              /\ p \in unfinished(placed_on(t))
            BY <2>1, <2>4 DEF unfinished, placed_on, Withdrawal, Finished, Live, InFlight
        <3>2. plans'[p].lifecycle = fenced[plans[p].lifecycle]
            BY <2>4, <3>1, MovedFacts, Zenon DEF retire_target, TypeInv
        <3>3. plans[p].lifecycle \in ExecutionLifecycle
            BY <1>2, Lookups DEF TypeInv
        <3>4. plans'[p].lifecycle = "FENCED"
            BY <3>2, <3>3 DEF fenced
        <3>5. QED BY <3>4 DEF Live, InFlight
    <2>5. QED BY <1>1, <2>2, <2>3, <2>4
<1>3. CASE p \notin existing
    <2>1. runtime[t] # None /\ runtime[t].dynamic_current
        BY <1>0, <1>3, NewPlanPinned
    <2>2. \E o \in Operations : plan(o)
        BY <1>0, <1>3, NewPlans DEF existing
    <2>3. runtime' = runtime
        BY <2>2 DEF plan, evidenceVars
    <2>4. QED BY <2>1, <2>3 DEF Retired
<1>4. QED BY <1>2, <1>3

\* What retire_target retired is idle, until a registration, the loss of its boot or a new epoch
\* overwrites the state: no plan there executes or completes, for any number of targets, plans
\* and clients.
THEOREM RetirementEndsWork == Spec => []RetiredTargetIsIdle
<1>1. Init => RetiredTargetIsIdle
    BY DEF Init, RetiredTargetIsIdle
<1>2. TypeInv /\ RetiredTargetIsIdle /\ [Next]_vars => RetiredTargetIsIdle'
    BY RetiredStep
<1>3. QED BY <1>1, <1>2, TypeInvInit, TypeInvNext, PTL DEF Spec

-----------------------------------------------------------------------------
(* Coordinator implements ExecutionAuthority.  A step that records a       *)
(* completion decides its plan; one that adds a plan opens it; a fresh     *)
(* prepare_dispatch grants it; any other step withdraws the plans that     *)
(* stop being live, often none.                                            *)

\* Only prepare_dispatch changes the dispatch id of a plan that exists.
LEMMA OnlyPrepareGrants ==
    ASSUME TypeInv, [Next]_vars,
           ~ \E p \in PlanIds, d \in DispatchIds : prepare_dispatch(p, d)
    PROVE  \A p \in existing : plans'[p].dispatch = plans[p].dispatch
<1> USE DEF catalogVars, evidenceVars, planVars
<1> DEFINE same == \A p \in existing : plans'[p].dispatch = plans[p].dispatch
<1>0. TypeOK
    BY DEF TypeInv
<1>1. CASE plans' = plans
    BY <1>1
<1>2. ASSUME NEW S \in SUBSET existing, NEW to \in Withdrawal, plans' = moved(S, to) PROVE same
    <2>1. ASSUME NEW p \in S PROVE plans'[p].dispatch = plans[p].dispatch
        <3>1. SameButLifecycle(plans[p], moved(S, to)[p])
            BY <1>0, MovedFacts, Zenon
        <3>2. QED BY <1>2, <3>1, Zenon DEF SameButLifecycle
    <2>2. ASSUME NEW p \in existing \ S PROVE plans'[p].dispatch = plans[p].dispatch
        <3>1. p \in PlanIds \ S
            BY DEF existing
        <3>2. moved(S, to)[p] = plans[p]
            BY <1>0, <3>1, MovedFacts, Zenon
        <3>3. QED BY <1>2, <3>2, Zenon
    <2>3. QED BY <2>1, <2>2, Zenon
<1>3. ASSUME NEW q \in existing, NEW l \in ExecutionLifecycle,
             plans' = [plans EXCEPT ![q].lifecycle = l]
      PROVE  same
    BY <1>0, <1>3, OneMoved DEF SameButLifecycle, existing
<1>4. CASE advance_epoch
    BY <1>2, <1>4 DEF advance_epoch, uncommitted, Withdrawal
<1>5. CASE \E b \in Boots : invalidate_boot(b)
    BY <1>2, <1>5, Zenon DEF invalidate_boot, unfinished, pinned_to, Withdrawal
<1>6. CASE \E t \in Targets : retire_target(t)
    BY <1>2, <1>6 DEF retire_target, unfinished, placed_on, Withdrawal
<1>7. CASE \E p \in PlanIds : cancel_plan(p)
    <2>1. PICK p \in PlanIds : cancel_plan(p)
        BY <1>7
    <2>2. p \in existing /\ "CANCELLED" \in ExecutionLifecycle
        BY <2>1 DEF cancel_plan, in, existing, ExecutionLifecycle
    <2>3. QED BY <1>3, <2>1, <2>2 DEF cancel_plan
<1>8. CASE \E p \in PlanIds, d \in DispatchIds : confirm_dispatched(p, d)
    <2>1. PICK p \in PlanIds, d \in DispatchIds : confirm_dispatched(p, d)
        BY <1>8
    <2>2. p \in existing /\ "DISPATCHED" \in ExecutionLifecycle
        BY <2>1 DEF confirm_dispatched, in, existing, ExecutionLifecycle
    <2>3. QED BY <1>3, <2>1, <2>2 DEF confirm_dispatched
<1>9. CASE \E p \in PlanIds : reserve(p)
    <2>1. PICK p \in PlanIds : reserve(p)
        BY <1>9
    <2>2. p \in existing /\ plans[p] \in ExecutionPlan
        BY <1>0, <2>1, Lookups DEF reserve, in, existing
    <2>3. PICK ws : plans' = [plans EXCEPT ![p].lifecycle = "RESERVED", ![p].reserved_slots = 1,
                                           ![p].reserved_workspace = ws]
        BY <2>1, Zenon DEF reserve
    <2>4. plans'[p] = [plans[p] EXCEPT !.lifecycle = "RESERVED", !.reserved_slots = 1,
                                       !.reserved_workspace = ws]
        BY <1>0, <2>2, <2>3 DEF TypeOK
    <2>5. plans'[p].dispatch = plans[p].dispatch
        BY <2>2, <2>4 DEF ExecutionPlan
    <2>6. QED BY <1>0, <2>3, <2>5 DEF TypeOK, existing
<1>10. CASE \E o \in Operations : plan(o)
    <2>1. PICK p \in PlanIds \ existing : \E x : plans' = [plans EXCEPT ![p] = x]
        BY <1>10, Zenon DEF plan
    <2>2. QED BY <1>0, <2>1 DEF TypeOK, existing
<1>11. CASE \E m \in sent \cup StrayResults, outcome \in {"intact", "corrupt", "unknown"} :
               apply_result(m, outcome)
    <2>1. PICK m \in sent \cup StrayResults, outcome \in {"intact", "corrupt", "unknown"} :
               apply_result(m, outcome)
        BY <1>11
    <2>2. m.plan \in existing /\ verdict(outcome) \in ExecutionLifecycle
        BY <1>0, <2>1, InputTypes
        DEF apply_result, accepted, in, existing, TypeOK, DispatchMsg, verdict, ExecutionLifecycle
    <2>3. QED BY <1>3, <2>1, <2>2 DEF apply_result
<1>12. QED
    BY <1>1, <1>4, <1>5, <1>6, <1>7, <1>8, <1>9, <1>10, <1>11, ZenonT(30)
    DEF Next, vars, register, create_operation, bind_worker_session, apply_register_target,
        apply_capability, apply_data_evidence, apply_heartbeat, begin_drain, fence_worker,
        on_worker_disconnected

-----------------------------------------------------------------------------
(* Each kind of step under the refinement mapping.                         *)

\* A plan without a record of this step keeps its status or is closed while it was open.
LEMMA StatusStep ==
    ASSUME TypeInv, [Next]_vars, NEW p \in existing, ~Commits(p)
    PROVE  \/ status_of(p)' = status_of(p)
           \/ status_of(p) = "open" /\ status_of(p)' = "closed"
<1>1. PlanStep(p) /\ plans[p] # None
    BY StepFacts DEF existing
<1>2. plans'[p].lifecycle = "COMMITTED" => plans[p].lifecycle = "COMMITTED"
    BY <1>1 DEF PlanStep
<1>3. plans'[p] # None /\ Forward(plans[p].lifecycle, plans'[p].lifecycle)
    BY <1>1 DEF PlanStep
<1>4. \/ plans'[p].lifecycle = plans[p].lifecycle
      \/ plans[p].lifecycle \in Live /\ plans'[p].lifecycle \in Live
      \/ plans[p].lifecycle # "COMMITTED" /\ plans'[p].lifecycle \notin Live \cup {"COMMITTED"}
    BY <1>2, <1>3 DEF Forward, Live, InFlight
<1>5. QED BY <1>1, <1>3, <1>4 DEF status_of, Live, InFlight

\* Without a record no plan commits.
LEMMA NoRecordNoCommit ==
    ASSUME TypeInv, results' = results, NEW p
    PROVE  ~Commits(p)
<1>1. ASSUME NEW m, results' = Append(results, new_result(m, "intact")) PROVE FALSE
    <2>1. results \in Seq(ExecutionResult)
        BY DEF TypeInv, TypeOK
    <2>2. Len(Append(results, new_result(m, "intact"))) # Len(results)
        BY <2>1
    <2>3. QED BY <1>1, <2>2
<1>2. QED BY <1>1, Zenon DEF Commits, apply_result

LEMMA DecideStep ==
    ASSUME TypeInv, [Next]_vars, results' # results
    PROVE  Authority!Next
<1>1. PICK m \in DispatchMsg, outcome \in {"intact", "corrupt", "unknown"} :
         /\ accepted(m)
         /\ m.plan \in existing
         /\ plans[m.plan].lifecycle \in InFlight
         /\ plans'[m.plan].lifecycle = verdict(outcome)
         /\ plans'[m.plan].dispatch = plans[m.plan].dispatch
         /\ results' = Append(results, new_result(m, outcome))
         /\ \A q \in PlanIds \ {m.plan} : plans'[q] = plans[q]
    BY RecordStep
<1> DEFINE p == m.plan
           committed == outcome = "intact"
<1>2. /\ p \in PlanIds /\ plans[p] # None /\ plans'[p] # None
      /\ plans[p].dispatch = m.dispatch /\ m.dispatch # None /\ committed \in BOOLEAN
    BY <1>1, StepFacts, NoneIsNoEntry DEF DispatchMsg, existing, accepted, PlanStep
<1>3. status_of(p) = "open" /\ holder_of(p) = m.dispatch /\ holder_of(p)' = m.dispatch
    BY <1>1, <1>2 DEF status_of, holder_of, Live
<1>4. status_of(p)' = IF committed THEN "committed" ELSE "closed"
    BY <1>1, <1>2 DEF status_of, verdict, Live, InFlight
<1>5. \A q \in PlanIds \ {p} : status_of(q)' = status_of(q) /\ holder_of(q)' = holder_of(q)
    BY <1>1 DEF status_of, holder_of
<1>6. decisions' = decisions \cup {[plan |-> p, dispatch |-> m.dispatch, committed |-> committed]}
    <2>1. new_result(m, outcome) \in ExecutionResult /\ results \in Seq(ExecutionResult)
        BY DEF new_result, ExecutionResult, TypeInv, TypeOK
    <2>2. /\ DOMAIN results' = DOMAIN results \cup {Len(results) + 1}
          /\ \A i \in DOMAIN results : results'[i] = results[i]
          /\ results'[Len(results) + 1] = new_result(m, outcome)
        <3>1. PICK r \in ExecutionResult : r = new_result(m, outcome)
            BY <2>1, Zenon
        <3>2. results' = Append(results, r)
            BY <1>1, <3>1, Zenon
        <3>3. QED BY <2>1, <3>1, <3>2, Appended
    <2>3. /\ new_result(m, outcome).authority = m
          /\ new_result(m, outcome).committed = committed
        BY Zenon DEF new_result
    <2> DEFINE decision(r) == [plan |-> r.authority.plan, dispatch |-> r.authority.dispatch,
                               committed |-> r.committed]
    <2>4. /\ decisions = {decision(results[i]) : i \in DOMAIN results}
          /\ decisions' = {decision(results'[i]) : i \in DOMAIN results'}
        BY Zenon DEF decisions
    <2>5. decision(new_result(m, outcome)) =
            [plan |-> p, dispatch |-> m.dispatch, committed |-> committed]
        BY <2>3, Zenon
    <2> HIDE DEF decision
    <2>6. decisions' = decisions \cup {decision(new_result(m, outcome))}
        BY <2>2, <2>4
    <2>7. QED BY <2>5, <2>6, Zenon
<1>7. [q \in PlanIds |-> status_of(q)]' =
        [[q \in PlanIds |-> status_of(q)] EXCEPT ![p] = IF committed THEN "committed" ELSE "closed"]
    BY <1>2, <1>4, <1>5, Zenon
<1>8. [q \in PlanIds |-> holder_of(q)]' = [q \in PlanIds |-> holder_of(q)]
    BY <1>3, <1>5
<1>9. Authority!Decide(p, committed)
    BY <1>2, <1>3, <1>6, <1>7, <1>8 DEF Authority!Decide
<1>10. QED BY <1>2, <1>9, Zenon DEF Authority!Next

LEMMA OpenStep ==
    ASSUME TypeInv, [Next]_vars, NEW o \in Operations, plan(o)
    PROVE  Authority!Next
<1>1. PICK p \in PlanIds \ existing : \E x : plans' = [plans EXCEPT ![p] = x] /\ plans'[p] # None
    <2>1. PICK pol \in descriptors :
            \E best \in front(candidates(o, pol)), p \in PlanIds \ existing :
                plans' = [plans EXCEPT ![p] = new_plan(o, best.target)]
        BY Zenon DEF plan
    <2>2. PICK best \in front(candidates(o, pol)), p \in PlanIds \ existing :
            plans' = [plans EXCEPT ![p] = new_plan(o, best.target)]
        BY <2>1, Zenon
    <2>3. new_plan(o, best.target) \in ExecutionPlan
        BY NewPlanType DEF plan, TypeInv
    <2>4. plans'[p] = new_plan(o, best.target)
        BY <2>2 DEF TypeInv, TypeOK
    <2>5. QED BY <2>2, <2>3, <2>4, NoneIsNoEntry, Zenon
<1>2. plans[p] = None /\ plans'[p] # None /\ \A q \in PlanIds \ {p} : plans'[q] = plans[q]
    BY <1>1 DEF existing, TypeInv, TypeOK
<1>3. plans'[p].lifecycle = "PLANNED" /\ plans'[p].dispatch = None
    BY <1>2, NewPlans
<1>4. /\ status_of(p) = "none" /\ status_of(p)' = "open"
      /\ holder_of(p) = None /\ holder_of(p)' = None
    BY <1>2, <1>3 DEF status_of, holder_of, Live
<1>5. \A q \in PlanIds \ {p} : status_of(q)' = status_of(q) /\ holder_of(q)' = holder_of(q)
    BY <1>2 DEF status_of, holder_of
<1>6. decisions' = decisions
    BY DEF plan, decisions
<1>7. [q \in PlanIds |-> status_of(q)]' = [[q \in PlanIds |-> status_of(q)] EXCEPT ![p] = "open"]
    BY <1>4, <1>5, Zenon
<1>8. [q \in PlanIds |-> holder_of(q)]' = [q \in PlanIds |-> holder_of(q)]
    BY <1>4, <1>5
<1>9. Authority!Open(p)
    BY <1>4, <1>6, <1>7, <1>8 DEF Authority!Open
<1>10. QED BY <1>9 DEF Authority!Next

\* Steps that leave the records, the set of plans and every dispatch id alone withdraw the plans
\* that they close.
LEMMA WithdrawStep ==
    ASSUME TypeInv, [Next]_vars, results' = results, existing' = existing,
           \A p \in existing : plans'[p].dispatch = plans[p].dispatch
    PROVE  Authority!Next
<1> DEFINE S == {p \in existing : status_of(p) = "open" /\ status_of(p)' = "closed"}
<1>1. \A p \in PlanIds \ existing : status_of(p)' = status_of(p) /\ holder_of(p)' = holder_of(p)
    <2>1. \A p \in PlanIds \ existing : plans[p] = None /\ plans'[p] = None
        BY DEF existing
    <2>2. QED BY <2>1 DEF status_of, holder_of
<1>2. \A p \in existing : holder_of(p)' = holder_of(p)
    BY DEF holder_of, existing
<1>3. \A p \in existing \ S : status_of(p)' = status_of(p)
    BY StatusStep, NoRecordNoCommit
<1>4. decisions' = decisions
    BY DEF decisions
<1>5. existing \subseteq PlanIds
    BY DEF existing
<1>6. \A p \in PlanIds : status_of(p)' = IF p \in S THEN "closed" ELSE status_of(p)
    BY <1>1, <1>3
<1>7. [p \in PlanIds |-> status_of(p)]' =
        [p \in PlanIds |-> IF p \in S THEN "closed" ELSE [q \in PlanIds |-> status_of(q)][p]]
    BY <1>6
<1>8. [p \in PlanIds |-> holder_of(p)]' = [p \in PlanIds |-> holder_of(p)]
    BY <1>1, <1>2
<1>9. S \in SUBSET PlanIds /\ \A p \in S : [q \in PlanIds |-> status_of(q)][p] = "open"
    BY <1>5
<1> HIDE DEF S
<1>10. Authority!Withdraw(S)
    BY <1>4, <1>7, <1>8, <1>9 DEF Authority!Withdraw
<1>11. QED BY <1>9, <1>10 DEF Authority!Next

LEMMA PrepareStep ==
    ASSUME TypeInv, [Next]_vars, NEW p \in PlanIds, NEW d \in DispatchIds, prepare_dispatch(p, d)
    PROVE  Authority!Next
<1>1. /\ TypeOK /\ p \in existing /\ plans[p] # None /\ plans[p].lifecycle = "RESERVED"
      /\ results' = results
    BY DEF prepare_dispatch, in, existing, TypeInv
<1>2. CASE plans' = [plans EXCEPT ![p].lifecycle = "SUPERSEDED"]
    <2>1. /\ \A q \in PlanIds : plans'[q] = None <=> plans[q] = None
          /\ \A q \in existing : plans'[q].dispatch = plans[q].dispatch
        BY <1>1, <1>2, OneMoved, Zenon DEF ExecutionLifecycle, SameButLifecycle, existing
    <2>2. existing' = existing
        BY <2>1 DEF existing
    <2>3. QED BY <1>1, <2>1, <2>2, WithdrawStep
<1>3. CASE plans' = [plans EXCEPT ![p].dispatch = d]
    <2>1. plans[p] \in ExecutionPlan
        BY <1>1, Lookups
    <2>2. plans'[p] = [plans[p] EXCEPT !.dispatch = d]
        BY <1>1, <1>3 DEF TypeOK
    <2>3. /\ plans'[p] # None /\ plans'[p].dispatch = d
          /\ plans'[p].lifecycle = plans[p].lifecycle
        BY <1>1, <1>3, <2>1, <2>2, OneHandedOut, Zenon DEF ExecutionPlan
    <2>4. \A q \in PlanIds \ {p} : plans'[q] = plans[q]
        BY <1>1, <1>3 DEF TypeOK
    <2>5. status_of(p) = "open" /\ status_of(p)' = "open" /\ holder_of(p)' = d
        BY <1>1, <2>3 DEF status_of, holder_of, Live
    <2>6. \A q \in PlanIds \ {p} : status_of(q)' = status_of(q) /\ holder_of(q)' = holder_of(q)
        BY <2>4 DEF status_of, holder_of
    <2>7. [q \in PlanIds |-> status_of(q)]' = [q \in PlanIds |-> status_of(q)]
        BY <2>5, <2>6
    <2>8. [q \in PlanIds |-> holder_of(q)]' = [[q \in PlanIds |-> holder_of(q)] EXCEPT ![p] = d]
        BY <2>5, <2>6, Zenon
    <2>9. decisions' = decisions
        BY <1>1 DEF decisions
    <2>10. Authority!Grant(p, d)
        BY <2>5, <2>7, <2>8, <2>9 DEF Authority!Grant
    <2>11. QED BY <2>10 DEF Authority!Next
<1>4. QED BY <1>2, <1>3 DEF prepare_dispatch

-----------------------------------------------------------------------------
(* The theorem.                                                            *)

LEMMA AuthorityInit == Init => Authority!Init
<1> SUFFICES ASSUME Init PROVE Authority!Init
    OBVIOUS
<1>1. \A p \in PlanIds : status_of(p) = "none" /\ holder_of(p) = None
    BY DEF Init, status_of, holder_of
<1>2. decisions = {}
    <2>1. results = <<>>
        BY Zenon DEF Init
    <2>2. DOMAIN results = {}
        BY <2>1
    <2>3. QED BY <2>2, Zenon DEF decisions
<1>3. QED BY <1>1, <1>2 DEF Authority!Init

LEMMA AuthorityNext == TypeInv /\ [Next]_vars => [Authority!Next]_(Authority!authorityVars)
<1> SUFFICES ASSUME TypeInv, [Next]_vars PROVE Authority!Next
    OBVIOUS
<1>1. CASE results' # results
    BY <1>1, DecideStep
<1>2. CASE \E o \in Operations : plan(o)
    BY <1>2, OpenStep
<1>3. CASE \E p \in PlanIds, d \in DispatchIds : prepare_dispatch(p, d)
    BY <1>3, PrepareStep
<1>4. CASE /\ results' = results
           /\ ~ \E o \in Operations : plan(o)
           /\ ~ \E p \in PlanIds, d \in DispatchIds : prepare_dispatch(p, d)
    <2>1. existing' = existing
        <3>1. \A p \in existing' \ existing : p \in PlanIds /\ plans'[p] # None /\ plans[p] = None
            BY DEF existing
        <3>2. existing' \subseteq existing
            BY <1>4, <3>1, NewPlans
        <3>3. QED BY <3>2, StepFacts
    <2>2. QED BY <1>4, <2>1, OnlyPrepareGrants, WithdrawStep
<1>5. QED BY <1>1, <1>2, <1>3, <1>4

\* The coordinator implements ExecutionAuthority: every call decides, opens, grants or withdraws
\* executions as that specification allows, whatever targets, evidence, epochs and completions.
THEOREM CoordinatorImplementsAuthority == Spec => ActsAsAuthority
<1>1. Spec => []TypeInv
    BY TypeInvInit, TypeInvNext, PTL DEF Spec
<1>2. Spec => Authority!Init
    BY AuthorityInit DEF Spec
<1>3. Spec => [][Authority!Next]_(Authority!authorityVars)
    BY <1>1, AuthorityNext, PTL DEF Spec
<1>4. QED BY <1>2, <1>3, PTL DEF ActsAsAuthority, Authority!Spec
=============================================================================
