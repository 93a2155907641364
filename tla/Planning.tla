------------------------------- MODULE Planning -------------------------------
(***************************************************************************)
(* The pure part of the planner: hard feasibility filtering, the           *)
(* movement-versus-compute cost comparison, and the ranking of the         *)
(* candidates that survive (include/nmc/planning.hpp and economics.hpp).   *)
(*                                                                         *)
(* Times and sizes are natural numbers modulo U64, the width of the code's *)
(* std::uint64_t.  A confidence is a natural number: only its order        *)
(* matters.  A Shape stands for the triple (data type, layout, alignment)  *)
(* of an operation; a target names the set of shapes it accepts, which     *)
(* folds three independent tests of the filter into one.                   *)
(***************************************************************************)
EXTENDS Integers

CONSTANTS
    None,            \* a null pointer or an empty std::optional
    U64,             \* 2^64 in the code
    ConvLatencyNs,   \* kDefaultConventionalLatencyNs
    BytesPerNs       \* kDefaultConventionalBandwidthBps / 10^9

ASSUME CostConstants == /\ U64 \in Nat \ {0}
                        /\ ConvLatencyNs \in Nat
                        /\ BytesPerNs \in Nat \ {0}

TargetLifecycle ==
    {"DISCOVERED", "REGISTERED", "PROBING", "READY", "BUSY", "DEGRADED", "DRAINING",
     "REVALIDATION_REQUIRED", "OFFLINE", "FAILED", "RETIRED"}

CapabilityState == {"SUPPORTED", "UNSUPPORTED", "UNKNOWN", "REVALIDATION_REQUIRED"}

reason(name, holds) == IF holds THEN {name} ELSE {}

-----------------------------------------------------------------------------
(* Hard feasibility.  The empty set of reasons means eligible.             *)

program_reasons(op, prog) ==
    reason("PROGRAM_INCOMPATIBLE",
           /\ op.program # None
           /\ \/ prog = None
              \/ prog # None /\ ( \/ prog.lifecycle # "READY"
                                  \/ prog.op_class # op.op_class
                                  \/ op.shape \notin prog.shapes ))

\* concurrency_in_use is never written by the code, so it keeps its initial 0.
hard_filter(def, rt, op, data, caps, prog, pol) ==
    IF data = None THEN {"TARGET_OFFLINE"} ELSE
    UNION {
      reason("TARGET_OFFLINE", rt.lifecycle \in {"OFFLINE", "FAILED", "RETIRED"}),
      reason("TARGET_DEGRADED", rt.lifecycle = "DEGRADED"),
      reason("TARGET_UNREACHABLE", ~rt.reachable),
      reason("TARGET_REVALIDATION_REQUIRED",
             \/ ~rt.dynamic_current
             \/ rt.lifecycle = "REVALIDATION_REQUIRED"
             \/ caps.entries[op.op_class] = "REVALIDATION_REQUIRED"),
      reason("OPERATION_UNSUPPORTED", op.op_class \notin def.ops),
      reason("OPERATION_UNKNOWN", caps.entries[op.op_class] = "UNKNOWN"),
      reason("SHAPE_UNSUPPORTED", op.shape \notin def.shapes),
      reason("DATA_UNREACHABLE", ~data.present \/ ~data.reachable),
      reason("DATA_STALE", ~data.current),
      reason("DATA_WRONG_GENERATION", data.dataset_generation # op.dataset_generation),
      reason("INSUFFICIENT_WORKSPACE", op.workspace > def.workspace),
      reason("CONCURRENCY_EXHAUSTED", 0 >= def.capacity),
      program_reasons(op, prog),
      reason("EVIDENCE_STALE", ~caps.dynamic_current),
      reason("INSUFFICIENT_CONFIDENCE", rt.confidence < pol.required_confidence) }

-----------------------------------------------------------------------------
(* Economics.  Every sum wraps at the width of the code's integers.        *)

transfer_ns(bytes) == bytes \div BytesPerNs

near_total(op, rt) == (2 * rt.latency_ns + transfer_ns(op.output_bytes)) % U64

conv_total(op) == (op.input_bytes + ConvLatencyNs + transfer_ns(op.input_bytes)) % U64

choose_path(op, rt) ==
    IF near_total(op, rt) <= conv_total(op)
    THEN "NEAR_MEMORY_SELECTED" ELSE "CONVENTIONAL_CPU_SELECTED"

-----------------------------------------------------------------------------
(* Ranking.  A candidate is a record of the five sort keys and a decision. *)

candidate(t, op, rt) ==
    [target    |-> t,
     decision  |-> choose_path(op, rt),
     cost      |-> near_total(op, rt),
     movement  |-> op.input_bytes,
     latency   |-> (2 * rt.latency_ns) % U64,
     confidence|-> rt.confidence]

precedes(a, b) ==
    \/ a.cost < b.cost
    \/ a.cost = b.cost /\ a.movement > b.movement
    \/ a.cost = b.cost /\ a.movement = b.movement /\ a.latency < b.latency
    \/ /\ a.cost = b.cost /\ a.movement = b.movement /\ a.latency = b.latency
       /\ a.confidence > b.confidence
    \/ /\ a.cost = b.cost /\ a.movement = b.movement /\ a.latency = b.latency
       /\ a.confidence = b.confidence /\ a.target < b.target

\* rank_candidates(C).front(): the one candidate nothing precedes, or none if C is empty.
front(C) == {a \in C : \A b \in C : ~precedes(b, a)}
=============================================================================
