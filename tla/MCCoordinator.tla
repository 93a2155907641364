----------------------------- MODULE MCCoordinator -----------------------------
(***************************************************************************)
(* Small instances of Coordinator for TLC.  Each group of definitions is   *)
(* the input alphabet of one question, a set of records; a .cfg file picks *)
(* from them.  There is one operation class, one shape and one region.     *)
(***************************************************************************)
EXTENDS Coordinator, TLC

MCIds == {"default", "ds", "r"}
NoInputs == {}

\* Target 1 with one slot and one unit of workspace, registered by a boot of B.
OneSlotTarget(B) ==
    [target : {1}, owner_boot : B,
     def : [generation : {1}, capacity : {1}, workspace : {1}, ops : {{"SUM"}}, shapes : {{"u8"}}]]
Heartbeats(lifecycles) ==
    [target : {1}, lifecycle : lifecycles, reachable : {TRUE}, latency_ns : {1}, confidence : {1}]
Supported ==
    [target : {1}, generation : {1}, evidence_generation : {1}, publisher : {"b1"},
     entries : {"SUM" :> "SUPPORTED"}]
DataOf(generations) ==
    [region : {"r"}, dataset_generation : generations, memory_domain_generation : {1},
     present : {TRUE}, current : {TRUE}, reachable : {TRUE}, publisher : {"b1"}]
Op(o, ws) ==
    [id : {o}, generation : {1}, op_class : {"SUM"}, shape : {"u8"},
     dataset : {"ds"}, dataset_generation : {1}, region : {"r"}, region_generation : {1},
     input_bytes : {4}, output_bytes : {0}, workspace : {ws},
     policy : {"default"}, policy_generation : {1},
     program : {None}, program_generation : {None}]

OneOp == Op("o1", 0)
OneHeartbeat == Heartbeats({"READY"})

-----------------------------------------------------------------------------
(* Authority: one target that a second worker incarnation takes over, two  *)
(* dispatches, evidence, datasets and epochs that move under a plan, and a *)
(* completion that no dispatch of ours calls for.                          *)

AuthorityTargets == OneSlotTarget({"b1", "b2"})
AuthorityData == DataOf({1, 2})
AuthorityDescriptors ==
    [kind : {"dataset"}, id : {"ds"}, generation : {2}, lifecycle : {None}, op_class : {None},
     shapes : {{}}, required_confidence : {0}]
AuthorityStrays ==
    [plan : {1}, dispatch : {"d1"}, target : {1}, target_gen : {1}, worker_boot : {"b2"},
     epoch : {1}, dataset_gen : {1}, region_gen : {1}, operation_gen : {1}]

-----------------------------------------------------------------------------
(* Admission: two operations compete for the slot of one worker's target.  *)

TwoOps == Op("o1", 0) \cup Op("o2", 1)
OneSlot == OneSlotTarget({"b1"})
OneData == DataOf({1})
AdmissionHeartbeats == Heartbeats({"READY", "DEGRADED", "RETIRED"})
=============================================================================
