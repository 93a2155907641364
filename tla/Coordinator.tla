------------------------------ MODULE Coordinator ------------------------------
(***************************************************************************)
(* The control plane: class Coordinator of src/coordinator.cpp.  Every     *)
(* public method takes the one mutex mu_ for its whole body, so each is    *)
(* one atomic action here.  A call that returns an error without changing  *)
(* state is a stuttering step and has no action; a call that returns an    *)
(* error AFTER changing state (prepare_dispatch on a stale plan) is one.   *)
(*                                                                         *)
(* Maps are functions to None where the code finds no entry.  A dispatch   *)
(* id stands for the pair (DispatchId, AttemptId), always made and checked *)
(* together.  Plan ids are numbers because std::map visits plans in id     *)
(* order; they are drawn at random, so a new plan takes any unused id.     *)
(***************************************************************************)
EXTENDS Planning, Sequences, FiniteSets

CONSTANTS
    Targets, PlanIds,                  \* sets of numbers, as std::map orders them
    Operations, Regions, Boots, Workers, DispatchIds, OpClasses, Shapes, DescriptorIds,
    DefaultPolicy,                     \* PolicyId(1), present from construction
    \* what callers and worker processes may send
    Descriptors, OperationSpecs, TargetMsgs, CapabilityMsgs, EvidenceMsgs, HeartbeatMsgs,
    StrayResults,                      \* completions that echo no dispatch of ours
    MaxEpoch                           \* bound on advance_epoch

VARIABLES
    epoch,           \* st_.epoch
    descriptors,     \* memory_domains, datasets, regions, programs, policies
    operations, targets, runtime, capabilities, data_evidence, workers,
    plans, active_plans, reservations, results,
    sent,            \* every DispatchMsg handed out, hence every completion a worker can echo
    revoked          \* history: plans whose authority was withdrawn before they committed

evidenceVars == <<runtime, capabilities, data_evidence>>
planVars     == <<plans, active_plans>>
catalogVars  == <<descriptors, operations, targets, workers>>
vars == <<epoch, catalogVars, evidenceVars, planVars, reservations, results, sent, revoked>>

-----------------------------------------------------------------------------
(* Record types.                                                           *)

ExecutionLifecycle ==
    {"PLANNED", "RESERVED", "DISPATCHED", "RUNNING", "VERIFYING", "COMPLETED", "COMMITTED",
     "FAILED", "OUTCOME_UNKNOWN", "CANCELLED", "FENCED", "SUPERSEDED"}

InFlight == {"DISPATCHED", "RUNNING", "VERIFYING"}
Finished == {"COMMITTED", "FAILED", "CANCELLED", "SUPERSEDED", "FENCED"}

Descriptor ==
    [kind : {"memory_domain", "dataset", "region", "program", "policy"}, id : DescriptorIds,
     generation : Nat,
     lifecycle : {None, "READY", "NOT_READY"}, op_class : OpClasses \cup {None}, \* program
     shapes : SUBSET Shapes,
     required_confidence : Nat]                                                 \* policy

OperationSpec ==
    [id : Operations, generation : Nat, op_class : OpClasses, shape : Shapes,
     dataset : DescriptorIds, dataset_generation : Nat,
     region : Regions, region_generation : Nat,
     input_bytes : Nat, output_bytes : Nat, workspace : Nat,
     policy : DescriptorIds, policy_generation : Nat,
     program : DescriptorIds \cup {None}, program_generation : Nat \cup {None}]

TargetDefinition ==
    [generation : Nat, capacity : Nat, workspace : Nat,
     ops : SUBSET OpClasses, shapes : SUBSET Shapes]
RegisterTargetMsg == [target : Targets, owner_boot : Boots, def : TargetDefinition]

TargetRuntime ==
    [lifecycle : TargetLifecycle, owner_boot : Boots, reachable : BOOLEAN,
     dynamic_current : BOOLEAN, latency_ns : Nat, confidence : Nat]
HeartbeatMsg ==
    [target : Targets, lifecycle : TargetLifecycle, reachable : BOOLEAN,
     latency_ns : Nat, confidence : Nat]

CapabilitySet ==
    [generation : Nat, evidence_generation : Nat, publisher : Boots,
     entries : [OpClasses -> CapabilityState], dynamic_current : BOOLEAN]
CapabilityMsg ==
    [target : Targets, generation : Nat, evidence_generation : Nat, publisher : Boots,
     entries : [OpClasses -> CapabilityState]]

DataEvidence ==
    [dataset_generation : Nat, memory_domain_generation : Nat, present : BOOLEAN,
     current : BOOLEAN, reachable : BOOLEAN, publisher : Boots, dynamic_current : BOOLEAN]
DataEvidenceMsg ==
    [region : Regions, dataset_generation : Nat, memory_domain_generation : Nat,
     present : BOOLEAN, current : BOOLEAN, reachable : BOOLEAN, publisher : Boots]

AuthoritySnapshot ==
    [epoch : Nat, worker_boot : Boots, target_generation : Nat,
     memory_domain_generation : Nat, dataset_generation : Nat, region_generation : Nat,
     operation_generation : Nat, program_generation : Nat \cup {None},
     capability_generation : Nat, policy_generation : Nat, evidence_generation : Nat]

ExecutionPlan ==
    [operation : Operations, target : Targets, snapshot : AuthoritySnapshot,
     lifecycle : ExecutionLifecycle, dispatch : DispatchIds \cup {None},
     reserved_slots : {0, 1}, reserved_workspace : Nat]

\* The authority fields of a DispatchMsg, which a ResultMsg repeats.
DispatchMsg ==
    [plan : PlanIds, dispatch : DispatchIds, target : Targets, target_gen : Nat,
     worker_boot : Boots, epoch : Nat, dataset_gen : Nat, region_gen : Nat,
     operation_gen : Nat]

ExecutionResult ==
    [authority : DispatchMsg, verification : {"VERIFIED", "MISMATCH", "UNKNOWN"},
     committed : BOOLEAN, ambiguous : BOOLEAN]

ASSUME InputTypes ==
    /\ Descriptors \subseteq Descriptor
    /\ OperationSpecs \subseteq OperationSpec
    /\ TargetMsgs \subseteq RegisterTargetMsg
    /\ CapabilityMsgs \subseteq CapabilityMsg
    /\ EvidenceMsgs \subseteq DataEvidenceMsg
    /\ HeartbeatMsgs \subseteq HeartbeatMsg
    /\ StrayResults \subseteq DispatchMsg
ASSUME IdTypes ==
    /\ Targets \subseteq Nat
    /\ PlanIds \subseteq Nat
    /\ DefaultPolicy \in DescriptorIds
    /\ MaxEpoch \in Nat
\* Ids are of type std::uint64_t.
ASSUME PlanIdWidth == \A p \in PlanIds : p < U64
ASSUME TargetIdWidth == \A t \in Targets : t < U64
\* A null pointer is no entry of any map.
ASSUME NoneIsNoEntry ==
    None \notin ExecutionPlan \cup OperationSpec \cup TargetRuntime \cup PlanIds \cup DispatchIds

default_policy ==
    [kind |-> "policy", id |-> DefaultPolicy, generation |-> 1, lifecycle |-> None,
     op_class |-> None, shapes |-> {}, required_confidence |-> 0]

Init ==
    /\ epoch = 1
    /\ descriptors = {default_policy}
    /\ operations = [o \in Operations |-> None]
    /\ targets = [t \in Targets |-> None]
    /\ runtime = [t \in Targets |-> None]
    /\ capabilities = [t \in Targets |-> None]
    /\ data_evidence = [r \in Regions |-> None]
    /\ workers = [w \in Workers |-> None]
    /\ plans = [p \in PlanIds |-> None]
    /\ active_plans = [o \in Operations |-> None]
    /\ reservations = [t \in Targets |-> [slots |-> 0, workspace |-> 0]]
    /\ results = <<>>
    /\ sent = {}
    /\ revoked = {}

-----------------------------------------------------------------------------
(* Helpers.                                                                *)

\* Plan p exists and its lifecycle is one of L.
in(p, L) == plans[p] # None /\ plans[p].lifecycle \in L

\* The plans of set S move to the lifecycle to[their current one].
moved(S, to) ==
    [p \in PlanIds |-> IF p \in S THEN [plans[p] EXCEPT !.lifecycle = to[@]] ELSE plans[p]]

\* rebuild_active_plans_locked: the last unfinished plan of each operation, in id order.
rebuild_active_plans(pl) ==
    [o \in Operations |->
        LET open == {p \in PlanIds : /\ pl[p] # None
                                     /\ pl[p].operation = o
                                     /\ pl[p].lifecycle \notin Finished}
            last == {p \in open : \A q \in open : q <= p}
        IN IF last = {} THEN None ELSE CHOOSE p \in last : TRUE]

\* Mutants: the counter is decremented without a test; only a plan with workspace gives its
\* slot back.
release_underflows(p) ==
    [reservations EXCEPT ![plans[p].target].slots = @ - 1]
release_skips_slot(p) ==
    IF plans[p].reserved_workspace = 0 THEN reservations
    ELSE [reservations EXCEPT ![plans[p].target].slots = IF @ > 0 THEN @ - 1 ELSE 0]

\* The release shared by apply_result and cancel_plan; it never asks whether p reserved.
release(p) ==
    [reservations EXCEPT ![plans[p].target] =
        [slots |-> IF @.slots > 0 THEN @.slots - 1 ELSE 0,
         workspace |-> IF @.workspace >= plans[p].reserved_workspace
                       THEN @.workspace - plans[p].reserved_workspace ELSE @.workspace]]

\* Plans of S that have not committed: withdrawing their authority is remembered.
uncommitted(S) == {p \in S : plans[p].lifecycle # "COMMITTED"}

existing == {p \in PlanIds : plans[p] # None}

-----------------------------------------------------------------------------
(* Epoch and registration.                                                 *)

\* Mutant: only what is in flight loses its authority.
only_in_flight_lost ==
    [l \in ExecutionLifecycle |-> IF l \in InFlight THEN "OUTCOME_UNKNOWN" ELSE l]

unknown_or_superseded ==
    [l \in ExecutionLifecycle |-> IF l \in InFlight THEN "OUTCOME_UNKNOWN" ELSE "SUPERSEDED"]

invalidated_runtime(T) ==
    [t \in Targets |-> IF t \in T /\ runtime[t] # None
                       THEN [runtime[t] EXCEPT !.dynamic_current = FALSE, !.reachable = FALSE,
                                               !.lifecycle = "REVALIDATION_REQUIRED"]
                       ELSE runtime[t]]

\* Entries of a map of evidence whose publisher is one of B are no longer current.
invalidated_evidence(m, B) ==
    [k \in DOMAIN m |-> IF m[k] # None /\ m[k].publisher \in B
                        THEN [m[k] EXCEPT !.dynamic_current = FALSE] ELSE m[k]]

advance_epoch ==
    /\ epoch < MaxEpoch
    /\ epoch' = epoch + 1
    /\ runtime' = invalidated_runtime(Targets)
    /\ capabilities' = invalidated_evidence(capabilities, Boots)
    /\ data_evidence' = invalidated_evidence(data_evidence, Boots)
    /\ plans' = moved(uncommitted(existing), unknown_or_superseded)
    /\ active_plans' = rebuild_active_plans(plans')
    /\ revoked' = revoked \cup uncommitted(existing)
    /\ UNCHANGED <<catalogVars, reservations, results, sent>>

\* register_memory_domain, _dataset, _region, _program and _policy: never replace an entry, so
\* never the built-in policy either.
register(d) ==
    /\ d.generation # 0
    /\ ~ \E x \in descriptors : x.kind = d.kind /\ x.id = d.id
    /\ descriptors' = descriptors \cup {d}
    /\ UNCHANGED <<epoch, operations, targets, workers, evidenceVars, planVars, reservations,
                   results, sent, revoked>>

create_operation(spec) ==
    /\ spec.generation # 0
    /\ operations[spec.id] = None
    /\ operations' = [operations EXCEPT ![spec.id] = spec]
    /\ UNCHANGED <<epoch, descriptors, targets, workers, evidenceVars, planVars, reservations,
                   results, sent, revoked>>

bind_worker_session(w, b) ==
    /\ workers' = [workers EXCEPT ![w] = [boot |-> b, connected |-> TRUE]]
    /\ UNCHANGED <<epoch, descriptors, operations, targets, evidenceVars, planVars,
                   reservations, results, sent, revoked>>

-----------------------------------------------------------------------------
(* Evidence published by workers.                                          *)

apply_register_target(m) ==
    /\ m.def.generation # 0
    /\ targets' = [targets EXCEPT ![m.target] = m.def]
    /\ runtime' = [runtime EXCEPT ![m.target] =
                      [lifecycle |-> "REGISTERED", owner_boot |-> m.owner_boot,
                       reachable |-> FALSE, dynamic_current |-> FALSE,
                       latency_ns |-> 0, confidence |-> 0]]
    /\ UNCHANGED <<epoch, descriptors, operations, workers, capabilities, data_evidence,
                   planVars, reservations, results, sent, revoked>>

apply_capability(m) ==
    /\ targets[m.target] # None
    /\ capabilities' = [capabilities EXCEPT ![m.target] =
                           [generation |-> m.generation,
                            evidence_generation |-> m.evidence_generation,
                            publisher |-> m.publisher, entries |-> m.entries,
                            dynamic_current |-> TRUE]]
    /\ UNCHANGED <<epoch, catalogVars, runtime, data_evidence, planVars, reservations, results,
                   sent, revoked>>

apply_data_evidence(m) ==
    /\ data_evidence' = [data_evidence EXCEPT ![m.region] =
                            [dataset_generation |-> m.dataset_generation,
                             memory_domain_generation |-> m.memory_domain_generation,
                             present |-> m.present, current |-> m.current,
                             reachable |-> m.reachable, publisher |-> m.publisher,
                             dynamic_current |-> TRUE]]
    /\ UNCHANGED <<epoch, catalogVars, runtime, capabilities, planVars, reservations, results,
                   sent, revoked>>

\* A terminal target ignores heartbeats; any other takes the reported lifecycle.
apply_heartbeat(m) ==
    /\ runtime[m.target] # None
    /\ runtime[m.target].lifecycle \notin {"RETIRED", "FAILED"}
    /\ runtime' = [runtime EXCEPT ![m.target] =
                      [lifecycle |-> m.lifecycle, owner_boot |-> @.owner_boot,
                       reachable |-> m.reachable, dynamic_current |-> TRUE,
                       latency_ns |-> m.latency_ns, confidence |-> m.confidence]]
    /\ UNCHANGED <<epoch, catalogVars, capabilities, data_evidence, planVars, reservations,
                   results, sent, revoked>>

-----------------------------------------------------------------------------
(* Planning.                                                               *)

\* Mutant: who owns the target now is not compared.
staleness_ignores_boot(p) ==
    LET s == plans[p].snapshot
        t == plans[p].target
    IN reason("epoch", epoch # s.epoch)
       \cup reason("target_dynamic", runtime[t] # None /\ ~runtime[t].dynamic_current)

\* staleness_locked: the authority dimensions of plan p that moved.  A missing entry on the
\* current side counts as not moved.
staleness(p) ==
    LET s    == plans[p].snapshot
        t    == plans[p].target
        op   == operations[plans[p].operation]
        data == data_evidence[op.region]
        \* the registered descriptor of this kind and id carries another generation
        differs(kind, id, gen) ==
            \E x \in descriptors : x.kind = kind /\ x.id = id /\ x.generation # gen
    IN UNION {
         reason("epoch", epoch # s.epoch),
         reason("worker_boot", runtime[t] # None /\ runtime[t].owner_boot # s.worker_boot),
         reason("target_generation",
                targets[t] # None /\ targets[t].generation # s.target_generation),
         reason("dataset_generation",
                \/ differs("dataset", op.dataset, s.dataset_generation)
                \/ data # None /\ data.dataset_generation # s.dataset_generation),
         reason("region_generation", differs("region", op.region, s.region_generation)),
         reason("operation_generation", op.generation # s.operation_generation),
         reason("program_generation",
                /\ s.program_generation # None /\ op.program # None
                /\ differs("program", op.program, s.program_generation)),
         reason("policy_generation", differs("policy", op.policy, s.policy_generation)),
         reason("capability_generation",
                capabilities[t] # None /\ capabilities[t].generation # s.capability_generation),
         reason("evidence_generation",
                /\ capabilities[t] # None
                /\ capabilities[t].evidence_generation # s.evidence_generation),
         reason("target_dynamic", runtime[t] # None /\ ~runtime[t].dynamic_current),
         reason("capability_dynamic",
                capabilities[t] # None /\ ~capabilities[t].dynamic_current),
         reason("data_dynamic", data # None /\ ~data.dynamic_current) }

\* The candidates of operation o under policy pol, hard-filtered and costed.
candidates(o, pol) ==
    LET op   == operations[o]
        prog == IF \E x \in descriptors : x.kind = "program" /\ x.id = op.program
                THEN CHOOSE x \in descriptors : x.kind = "program" /\ x.id = op.program
                ELSE None
        eligible(t) == /\ targets[t] # None /\ runtime[t] # None /\ capabilities[t] # None
                       /\ hard_filter(targets[t], runtime[t], op, data_evidence[op.region],
                                      capabilities[t], prog, pol) = {}
    IN {candidate(t, op, runtime[t]) : t \in {u \in Targets : eligible(u)}}

\* The plan built for operation o on target t, pinned to the authority current now.
new_plan(o, t) ==
    LET op == operations[o] IN
    [operation |-> o, target |-> t, lifecycle |-> "PLANNED", dispatch |-> None,
     reserved_slots |-> 0, reserved_workspace |-> 0,
     snapshot |->
        [epoch |-> epoch, worker_boot |-> runtime[t].owner_boot,
         target_generation |-> targets[t].generation,
         memory_domain_generation |-> data_evidence[op.region].memory_domain_generation,
         dataset_generation |-> op.dataset_generation,
         region_generation |-> op.region_generation,
         operation_generation |-> op.generation,
         program_generation |-> op.program_generation,
         capability_generation |-> capabilities[t].generation,
         policy_generation |-> op.policy_generation,
         evidence_generation |-> capabilities[t].evidence_generation]]

\* Mutant: whether the operation already has a plan is not asked.
plan_again(o) ==
    /\ operations[o] # None
    /\ \E pol \in descriptors :
          /\ pol.kind = "policy" /\ pol.id = operations[o].policy
          /\ \E best \in front(candidates(o, pol)), p \in PlanIds \ existing :
                /\ best.decision = "NEAR_MEMORY_SELECTED"
                /\ plans' = [plans EXCEPT ![p] = new_plan(o, best.target)]
                /\ active_plans' = [active_plans EXCEPT ![o] = p]
    /\ UNCHANGED <<epoch, catalogVars, evidenceVars, reservations, results, sent, revoked>>

\* plan_locked, where it creates a plan; every other outcome only answers the caller.
plan(o) ==
    /\ operations[o] # None
    /\ active_plans[o] = None
    /\ \E pol \in descriptors :
          /\ pol.kind = "policy" /\ pol.id = operations[o].policy
          /\ \E best \in front(candidates(o, pol)), p \in PlanIds \ existing :
                /\ best.decision = "NEAR_MEMORY_SELECTED"
                /\ plans' = [plans EXCEPT ![p] = new_plan(o, best.target)]
                /\ active_plans' = [active_plans EXCEPT ![o] = p]
    /\ UNCHANGED <<epoch, catalogVars, evidenceVars, reservations, results, sent, revoked>>

-----------------------------------------------------------------------------
(* Admission, dispatch and completion.                                     *)

\* Mutant: an admission that needs no workspace is not counted.
reserve_uncounted(p) ==
    /\ in(p, {"PLANNED"})
    /\ runtime[plans[p].target] # None
    /\ reservations[plans[p].target].slots < targets[plans[p].target].capacity
    /\ plans' = [plans EXCEPT ![p].lifecycle = "RESERVED", ![p].reserved_slots = 1]
    /\ UNCHANGED <<epoch, catalogVars, evidenceVars, active_plans, reservations, results, sent,
                   revoked>>

reserve(p) ==
    /\ in(p, {"PLANNED"})
    /\ LET t  == plans[p].target
           rs == reservations[t]
           ws == operations[plans[p].operation].workspace
       IN /\ runtime[t] # None
          /\ rs.slots < targets[t].capacity
          /\ rs.workspace <= targets[t].workspace
          /\ runtime[t].lifecycle \notin {"DRAINING", "DEGRADED", "REVALIDATION_REQUIRED"}
          /\ (rs.workspace + ws) % U64 <= targets[t].workspace
          /\ reservations' = [reservations EXCEPT ![t] =
                                 [slots |-> @.slots + 1, workspace |-> (@.workspace + ws) % U64]]
          /\ plans' = [plans EXCEPT ![p].lifecycle = "RESERVED", ![p].reserved_slots = 1,
                                    ![p].reserved_workspace = ws]
    /\ UNCHANGED <<epoch, catalogVars, evidenceVars, active_plans, results, sent, revoked>>

dispatch_msg(p, d) ==
    LET pl == plans[p] IN
    [plan |-> p, dispatch |-> d, target |-> pl.target,
     target_gen |-> pl.snapshot.target_generation,
     worker_boot |-> runtime[pl.target].owner_boot, epoch |-> epoch,
     dataset_gen |-> pl.snapshot.dataset_generation,
     region_gen |-> pl.snapshot.region_generation,
     operation_gen |-> operations[pl.operation].generation]

\* Mutant: a plan that was cancelled after it was admitted is handed out.
prepare_cancelled(p, d) ==
    /\ in(p, {"RESERVED", "CANCELLED"})
    /\ staleness(p) = {}
    /\ runtime[plans[p].target] # None
    /\ plans' = [plans EXCEPT ![p].dispatch = d]
    /\ sent' = sent \cup {dispatch_msg(p, d)}
    /\ UNCHANGED <<epoch, catalogVars, evidenceVars, active_plans, reservations, results,
                   revoked>>

\* A stale plan is superseded, and the caller gets an error: its slot stays taken and the
\* operation's index entry stays.  A fresh one is handed out under the id d its caller chose,
\* which replaces the id of an earlier hand-out that was not confirmed.
prepare_dispatch(p, d) ==
    /\ in(p, {"RESERVED"})
    /\ \/ /\ staleness(p) # {}
          /\ plans' = [plans EXCEPT ![p].lifecycle = "SUPERSEDED"]
          /\ UNCHANGED sent
       \/ /\ staleness(p) = {}
          /\ runtime[plans[p].target] # None
          /\ \E w \in Workers :
                workers[w] # None /\ workers[w].boot = runtime[plans[p].target].owner_boot
          /\ plans' = [plans EXCEPT ![p].dispatch = d]
          /\ sent' = sent \cup {dispatch_msg(p, d)}
    /\ UNCHANGED <<epoch, catalogVars, evidenceVars, active_plans, reservations, results,
                   revoked>>

\* Mutant: an execution whose digest did not match is dispatched once more.
confirm_after_failure(p, d) ==
    /\ in(p, {"RESERVED", "FAILED"})
    /\ plans[p].dispatch = d
    /\ plans' = [plans EXCEPT ![p].lifecycle = "DISPATCHED"]
    /\ UNCHANGED <<epoch, catalogVars, evidenceVars, active_plans, reservations, results, sent,
                   revoked>>

confirm_dispatched(p, d) ==
    /\ in(p, {"RESERVED"})
    /\ plans[p].dispatch = d
    /\ plans' = [plans EXCEPT ![p].lifecycle = "DISPATCHED"]
    /\ UNCHANGED <<epoch, catalogVars, evidenceVars, active_plans, reservations, results, sent,
                   revoked>>

\* validate_completion_against_plan: the completion repeats what the plan pinned.
validate_completion(m, s) ==
    /\ m.target_gen = s.target_generation
    /\ m.worker_boot = s.worker_boot
    /\ m.epoch = s.epoch
    /\ m.dataset_gen = s.dataset_generation
    /\ m.region_gen = s.region_generation
    /\ m.operation_gen = s.operation_generation

\* Completion m carries the authority that is current and the one its plan pinned.
authentic(m) ==
    /\ m.epoch = epoch
    /\ targets[m.target] # None => targets[m.target].generation = m.target_gen
    /\ runtime[m.target] # None => runtime[m.target].owner_boot = m.worker_boot
    /\ validate_completion(m, plans[m.plan].snapshot)

\* Mutants: a second completion of a committed plan is let in; so is one that arrives after
\* cancellation; the dispatch id is not compared.
accepts_duplicate(m) == /\ in(m.plan, InFlight \cup {"COMMITTED"})
                        /\ authentic(m) /\ plans[m.plan].dispatch = m.dispatch
accepts_cancelled(m) == /\ in(m.plan, InFlight \cup {"CANCELLED"})
                        /\ authentic(m) /\ plans[m.plan].dispatch = m.dispatch
accepts_any_dispatch(m) == in(m.plan, InFlight) /\ authentic(m)

\* Completion m passes every check apply_result makes before it mutates anything.
accepted(m) ==
    /\ in(m.plan, InFlight)
    /\ authentic(m)
    /\ plans[m.plan].dispatch = m.dispatch

\* The digest the worker sent either matches the output it sent, or not, or the worker could
\* not tell what happened (msg.unknown).
verdict(outcome) == CASE outcome = "intact"  -> "COMMITTED"
                      [] outcome = "corrupt" -> "FAILED"
                      [] outcome = "unknown" -> "OUTCOME_UNKNOWN"

new_result(m, outcome) ==
    [authority |-> m,
     verification |-> CASE outcome = "intact"  -> "VERIFIED"
                        [] outcome = "corrupt" -> "MISMATCH"
                        [] outcome = "unknown" -> "UNKNOWN",
     committed |-> outcome = "intact", ambiguous |-> outcome = "unknown"]

apply_result(m, outcome) ==
    /\ accepted(m)
    /\ plans' = [plans EXCEPT ![m.plan].lifecycle = verdict(outcome)]
    /\ active_plans' = [active_plans EXCEPT ![plans[m.plan].operation] = None]
    /\ results' = Append(results, new_result(m, outcome))
    /\ reservations' = IF outcome = "intact" THEN release(m.plan) ELSE reservations
    /\ UNCHANGED <<epoch, catalogVars, evidenceVars, sent, revoked>>

-----------------------------------------------------------------------------
(* Withdrawal of authority.                                                *)

begin_drain(t) ==
    /\ runtime[t] # None
    /\ runtime[t].lifecycle \notin {"RETIRED", "FAILED"}
    /\ runtime' = [runtime EXCEPT ![t].lifecycle = "DRAINING"]
    /\ UNCHANGED <<epoch, catalogVars, capabilities, data_evidence, planVars, reservations,
                   results, sent, revoked>>

cancel_plan(p) ==
    /\ in(p, ExecutionLifecycle \ Finished)
    /\ reservations' = release(p)
    /\ plans' = [plans EXCEPT ![p].lifecycle = "CANCELLED"]
    /\ active_plans' = [active_plans EXCEPT ![plans[p].operation] = None]
    /\ revoked' = revoked \cup {p}
    /\ UNCHANGED <<epoch, catalogVars, evidenceVars, results, sent>>

\* Mutant: an execution in flight keeps waiting for a worker that is gone.
in_flight_kept ==
    [l \in ExecutionLifecycle |-> IF l \in InFlight THEN l ELSE "FENCED"]

unknown_or_fenced ==
    [l \in ExecutionLifecycle |-> IF l \in InFlight THEN "OUTCOME_UNKNOWN" ELSE "FENCED"]
fenced == [l \in ExecutionLifecycle |-> "FENCED"]

pinned_to(b) == {p \in existing : plans[p].snapshot.worker_boot = b}
unfinished(S) == {p \in S : plans[p].lifecycle \notin Finished}

\* The invalidation fence_worker and on_worker_disconnected both perform.
invalidate_boot(b) ==
    /\ runtime' = invalidated_runtime({t \in Targets : runtime[t] # None
                                                       /\ runtime[t].owner_boot = b})
    /\ capabilities' = invalidated_evidence(capabilities, {b})
    /\ data_evidence' = invalidated_evidence(data_evidence, {b})
    /\ plans' = moved(unfinished(pinned_to(b)), unknown_or_fenced)
    /\ active_plans' = rebuild_active_plans(plans')
    /\ revoked' = revoked \cup uncommitted(pinned_to(b))

fence_worker(b) ==
    /\ invalidate_boot(b)
    /\ UNCHANGED <<epoch, catalogVars, reservations, results, sent>>

on_worker_disconnected(b) ==
    /\ workers' = [w \in Workers |-> IF workers[w] # None /\ workers[w].boot = b
                                     THEN [workers[w] EXCEPT !.connected = FALSE]
                                     ELSE workers[w]]
    /\ invalidate_boot(b)
    /\ UNCHANGED <<epoch, descriptors, operations, targets, reservations, results, sent>>

placed_on(t) == {p \in existing : plans[p].target = t}

\* Mutant: the index is not rebuilt.
retire_keeps_index(t) ==
    /\ runtime[t] # None
    /\ runtime' = [runtime EXCEPT ![t].lifecycle = "RETIRED", ![t].reachable = FALSE,
                                  ![t].dynamic_current = FALSE]
    /\ plans' = moved(unfinished(placed_on(t)), fenced)
    /\ revoked' = revoked \cup uncommitted(placed_on(t))
    /\ UNCHANGED <<epoch, catalogVars, capabilities, data_evidence, active_plans, reservations,
                   results, sent>>

\* Mutant: only the plans the hot-path index names are fenced.
retire_indexed(t) ==
    /\ runtime[t] # None
    /\ runtime' = [runtime EXCEPT ![t].lifecycle = "RETIRED", ![t].reachable = FALSE,
                                  ![t].dynamic_current = FALSE]
    /\ plans' = moved({p \in unfinished(placed_on(t)) : active_plans[plans[p].operation] = p},
                      fenced)
    /\ active_plans' = rebuild_active_plans(plans')
    /\ revoked' = revoked \cup uncommitted(placed_on(t))
    /\ UNCHANGED <<epoch, catalogVars, capabilities, data_evidence, reservations, results, sent>>

retire_target(t) ==
    /\ runtime[t] # None
    /\ runtime' = [runtime EXCEPT ![t].lifecycle = "RETIRED", ![t].reachable = FALSE,
                                  ![t].dynamic_current = FALSE]
    /\ plans' = moved(unfinished(placed_on(t)), fenced)
    /\ active_plans' = rebuild_active_plans(plans')
    /\ revoked' = revoked \cup uncommitted(placed_on(t))
    /\ UNCHANGED <<epoch, catalogVars, capabilities, data_evidence, reservations, results, sent>>

-----------------------------------------------------------------------------
Next ==
    \/ advance_epoch
    \/ \E d \in Descriptors : register(d)
    \/ \E spec \in OperationSpecs : create_operation(spec)
    \/ \E w \in Workers, b \in Boots : bind_worker_session(w, b)
    \/ \E m \in TargetMsgs : apply_register_target(m)
    \/ \E m \in CapabilityMsgs : apply_capability(m)
    \/ \E m \in EvidenceMsgs : apply_data_evidence(m)
    \/ \E m \in HeartbeatMsgs : apply_heartbeat(m)
    \/ \E o \in Operations : plan(o)
    \/ \E p \in PlanIds : reserve(p)
    \/ \E p \in PlanIds, d \in DispatchIds : prepare_dispatch(p, d)
    \/ \E p \in PlanIds, d \in DispatchIds : confirm_dispatched(p, d)
    \/ \E m \in sent \cup StrayResults, outcome \in {"intact", "corrupt", "unknown"} :
          apply_result(m, outcome)
    \/ \E t \in Targets : begin_drain(t)
    \/ \E p \in PlanIds : cancel_plan(p)
    \/ \E b \in Boots : fence_worker(b)
    \/ \E b \in Boots : on_worker_disconnected(b)
    \/ \E t \in Targets : retire_target(t)

Spec == Init /\ [][Next]_vars

-----------------------------------------------------------------------------
(* Properties.                                                             *)

\* Every piece of coordinator state has the shape its C++ type gives it.
TypeOK ==
    /\ epoch \in Nat
    /\ descriptors \subseteq Descriptor
    /\ operations \in [Operations -> OperationSpec \cup {None}]
    /\ targets \in [Targets -> TargetDefinition \cup {None}]
    /\ runtime \in [Targets -> TargetRuntime \cup {None}]
    /\ capabilities \in [Targets -> CapabilitySet \cup {None}]
    /\ data_evidence \in [Regions -> DataEvidence \cup {None}]
    /\ workers \in [Workers -> [boot : Boots, connected : BOOLEAN] \cup {None}]
    /\ plans \in [PlanIds -> ExecutionPlan \cup {None}]
    /\ active_plans \in [Operations -> PlanIds \cup {None}]
    /\ reservations \in [Targets -> [slots : Nat, workspace : Nat]]
    /\ results \in Seq(ExecutionResult)
    /\ sent \subseteq DispatchMsg
    /\ revoked \subseteq PlanIds

Live == {"PLANNED", "RESERVED"} \cup InFlight

\* The DispatchMsg of plan p under id d, with every authority field taken from p's snapshot.
pinned_msg(p, d) ==
    LET pl == plans[p] IN
    [plan |-> p, dispatch |-> d, target |-> pl.target,
     target_gen |-> pl.snapshot.target_generation, worker_boot |-> pl.snapshot.worker_boot,
     epoch |-> pl.snapshot.epoch, dataset_gen |-> pl.snapshot.dataset_generation,
     region_gen |-> pl.snapshot.region_generation,
     operation_gen |-> pl.snapshot.operation_generation]

\* At most one completion of a plan is ever recorded, so result_of(plan) is unambiguous, and
\* it says what the plan's lifecycle says: a plan is COMMITTED exactly when its recorded
\* result is a committed one, however many duplicates and late completions arrive.
ResultMatchesPlan ==
    /\ \A i, j \in DOMAIN results :
          results[i].authority.plan = results[j].authority.plan => i = j
    /\ \A p \in existing : plans[p].lifecycle = "COMMITTED" <=>
          \E i \in DOMAIN results : results[i].authority.plan = p /\ results[i].committed

\* Every DispatchMsg carries the authority its plan pinned when it was made, although
\* prepare_dispatch fills in the boot, the epoch and the operation generation that are current.
DispatchCarriesPinnedAuthority ==
    \A m \in sent : /\ plans[m.plan] # None
                    /\ m = pinned_msg(m.plan, m.dispatch)

\* A result commits only for an execution this coordinator handed out: the completion repeats
\* the plan, the dispatch, the boot, the epoch and the generations of a DispatchMsg (apply_result
\* never compares the target id itself), and it was the plan's last hand-out.
CommitsWereHandedOut ==
    \A i \in DOMAIN results : results[i].committed =>
        LET m == results[i].authority IN
        /\ plans[m.plan] # None
        /\ m.dispatch = plans[m.plan].dispatch
        /\ [m EXCEPT !.target = plans[m.plan].target] \in sent

\* A plan that can still execute or complete was planned in the current epoch: advancing the
\* epoch leaves no live plan of an older epoch behind.
LivePlansAreOfThisEpoch ==
    \A p \in existing : plans[p].lifecycle \in Live => plans[p].snapshot.epoch = epoch

\* A plan cancelled, or whose worker was fenced or lost, target retired, or epoch left while
\* it had not committed, never commits afterwards, whatever completion still arrives.
RevokedNeverCommits ==
    \A p \in revoked : plans[p] # None /\ plans[p].lifecycle \notin Live \cup {"COMMITTED"}

\* The hot-path index never names a plan of another operation, nor one that committed, failed,
\* was cancelled or fenced: those paths erase or rebuild the entry, so it cannot block planning.
IndexedPlansAreOpen ==
    \A o \in Operations : active_plans[o] # None =>
        LET pl == plans[active_plans[o]] IN
        /\ pl # None
        /\ pl.operation = o
        /\ pl.lifecycle \notin {"COMMITTED", "FAILED", "CANCELLED", "FENCED"}

\* Plans placed on target t that took a slot and neither committed nor were cancelled.
holders(t) == {p \in placed_on(t) : /\ plans[p].reserved_slots = 1
                                    /\ plans[p].lifecycle \notin {"COMMITTED", "CANCELLED"}}

\* The slots counted against a target never exceed the plans that took one there and have
\* neither committed nor been cancelled: a release is never forgotten by those two paths.
NoPhantomSlots == \A t \in Targets : reservations[t].slots <= Cardinality(holders(t))

\* The other half of the accounting: every plan that took a slot and surely kept it is still
\* counted, except for the slots that cancel_plan gave back on behalf of plans that never took
\* one; capacity can be exceeded by no more executions than that.  advance_epoch turns CANCELLED
\* into SUPERSEDED, so a superseded plan may be one that was cancelled: it is not required to be
\* counted, and if it never took a slot it may be such an exception.
SlotsAreHeld ==
    \A t \in Targets :
        Cardinality({p \in holders(t) : plans[p].lifecycle # "SUPERSEDED"})
            <= reservations[t].slots
               + Cardinality({p \in placed_on(t) : /\ plans[p].lifecycle \in {"CANCELLED", "SUPERSEDED"}
                                                   /\ plans[p].reserved_slots = 0})

\* An operation has one live plan at a time, although the index that is to ensure it is kept
\* apart from the plans and rebuilt by four methods; only after one of its plans was cancelled
\* (cancel_plan erases the entry of whatever plan is indexed) can there be two.
OneLivePlanUnlessCancelled ==
    \A p, q \in existing :
        ( /\ p # q
          /\ plans[p].lifecycle \in Live /\ plans[q].lifecycle \in Live
          /\ plans[p].operation = plans[q].operation )
        => \E c \in existing : /\ plans[c].operation = plans[p].operation
                               /\ plans[c].lifecycle = "CANCELLED"

\* What retire_target retired has no work left and gets none: no plan placed there, made before
\* or after, can still execute or complete.  reserve refuses a draining or degraded target but
\* never tests for a retired one, so it is this, not a guard, that keeps a late client out.
\* (A worker's own heartbeat may report RETIRED: it fences nothing and leaves dynamic_current
\* true.  Registration, a lost boot and a new epoch overwrite RETIRED, and the promise ends.)
RetiredTargetIsIdle ==
    \A t \in Targets :
        (runtime[t] # None /\ runtime[t].lifecycle = "RETIRED" /\ ~runtime[t].dynamic_current)
        => \A p \in placed_on(t) : plans[p].lifecycle \notin Live

\* An execution only moves forward: a plan enters DISPATCHED from RESERVED and COMMITTED from
\* in flight, a plan that left the live states never returns to one, and COMMITTED is final.
ExecutionMovesForward ==
    [][\A p \in existing :
          LET old == plans[p].lifecycle
              new == plans'[p].lifecycle
          IN /\ plans'[p] # None
             /\ new = "RESERVED" => old \in {"PLANNED", "RESERVED"}
             /\ new = "DISPATCHED" => old \in {"RESERVED", "DISPATCHED"}
             /\ new = "COMMITTED" => old \in InFlight \cup {"COMMITTED"}
             /\ old \notin Live => new \notin Live
             /\ old = "COMMITTED" => new = "COMMITTED"]_vars

\* The refinement mapping: what a client can tell of a plan and its results.
status_of(p) ==
    IF plans[p] = None THEN "none"
    ELSE IF plans[p].lifecycle \in Live THEN "open"
    ELSE IF plans[p].lifecycle = "COMMITTED" THEN "committed" ELSE "closed"

holder_of(p) == IF plans[p] = None THEN None ELSE plans[p].dispatch

decisions == {[plan |-> results[i].authority.plan, dispatch |-> results[i].authority.dispatch,
               committed |-> results[i].committed] : i \in DOMAIN results}

Authority == INSTANCE ExecutionAuthority
    WITH status <- [p \in PlanIds |-> status_of(p)],
         holder <- [p \in PlanIds |-> holder_of(p)],
         record <- decisions

\* The whole control plane implements ExecutionAuthority: each call decides at most one open
\* execution, for the dispatch it was last granted to, or withdraws open executions, and a
\* decided or withdrawn execution is never opened, granted or decided again.
ActsAsAuthority == Authority!Spec
=============================================================================
