----------------------------- MODULE MCRecovery -----------------------------
(***************************************************************************)
(* A coordinator with one target and one operation that is killed and      *)
(* started again while its worker lives on.                                *)
(***************************************************************************)
EXTENDS Recovery, TLC

MCIds == {"default", "ds", "r", "pr"}
NoInputs == {}

OneTarget ==
    [target : {1}, owner_boot : {"b1"},
     def : [generation : {1}, capacity : {1}, workspace : {1}, ops : {{"SUM"}}, shapes : {{"u8"}}]]
OneHeartbeat ==
    [target : {1}, lifecycle : {"READY"}, reachable : {TRUE}, latency_ns : {1}, confidence : {1}]
Supported ==
    [target : {1}, generation : {1}, evidence_generation : {1}, publisher : {"b1"},
     entries : {"SUM" :> "SUPPORTED"}]
OneData ==
    [region : {"r"}, dataset_generation : {1}, memory_domain_generation : {1},
     present : {TRUE}, current : {TRUE}, reachable : {TRUE}, publisher : {"b1"}]
OneOp ==
    [id : {"o1"}, generation : {1}, op_class : {"SUM"}, shape : {"u8"},
     dataset : {"ds"}, dataset_generation : {1}, region : {"r"}, region_generation : {1},
     input_bytes : {4}, output_bytes : {0}, workspace : {0},
     policy : {"default"}, policy_generation : {1},
     program : {None}, program_generation : {None}]
\* A second operation, which names a program.
WithProgram ==
    OneOp \cup {[op EXCEPT !.id = "o2", !.program = "pr", !.program_generation = 1] : op \in OneOp}
=============================================================================
