-------------------------------- MODULE MCNode --------------------------------
(***************************************************************************)
(* Small instances of Node.  Worker process b owns the target              *)
(* TargetOf[b]; every worker reports the same region.                      *)
(***************************************************************************)
EXTENDS Node, TLC

CONSTANTS TargetOf, Slots

MCIds == {"default", "ds", "r"}
NoInputs == {}

FirstTarget == "b1" :> 1
TwoTargets == ("b1" :> 1) @@ ("b2" :> 2)
FirstWorker == "b1" :> "w1"
TwoWorkers == ("b1" :> "w1") @@ ("b2" :> "w2")

Registrations ==
    UNION {[target : {TargetOf[b]}, owner_boot : {b},
            def : [generation : {1}, capacity : {Slots}, workspace : {1}, ops : {{"SUM"}},
                   shapes : {{"u8"}}]] : b \in Boots}
Capabilities ==
    UNION {[target : {TargetOf[b]}, generation : {1}, evidence_generation : {1},
            publisher : {b}, entries : {"SUM" :> "SUPPORTED"}] : b \in Boots}
Evidence ==
    [region : {"r"}, dataset_generation : {1}, memory_domain_generation : {1},
     present : {TRUE}, current : {TRUE}, reachable : {TRUE}, publisher : Boots]
Heartbeats ==
    [target : Targets, lifecycle : {"READY"}, reachable : {TRUE}, latency_ns : {1},
     confidence : {1}]
Ops ==
    [id : Operations, generation : {1}, op_class : {"SUM"}, shape : {"u8"},
     dataset : {"ds"}, dataset_generation : {1}, region : {"r"}, region_generation : {1},
     input_bytes : {4}, output_bytes : {0}, workspace : {0},
     policy : {"default"}, policy_generation : {1},
     program : {None}, program_generation : {None}]

Handshakes ==
    [b \in Boots |->
        [register   |-> CHOOSE m \in Registrations : m.owner_boot = b,
         capability |-> CHOOSE m \in Capabilities : m.publisher = b,
         evidence   |-> CHOOSE m \in Evidence : m.publisher = b,
         heartbeat  |-> CHOOSE m \in Heartbeats : m.target = TargetOf[b]]]
=============================================================================
