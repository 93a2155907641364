------------------------------- MODULE Recovery -------------------------------
(***************************************************************************)
(* Crash and restart of the control plane: Coordinator::save and           *)
(* Coordinator::load around the whole engine of module Coordinator.  The   *)
(* state file is a DurableRegister, which FileStore is shown to implement; *)
(* what a save that failed, was overtaken or died leaves behind is what    *)
(* that specification allows.                                              *)
(*                                                                         *)
(* A worker may outlive the coordinator and deliver, to the next           *)
(* incarnation, a completion of what an earlier one handed out.  Plan ids  *)
(* are drawn at random, so an id is never drawn twice, not even after the  *)
(* state that knew it was lost.                                            *)
(***************************************************************************)
EXTENDS Coordinator

CONSTANTS MaxSaves      \* bound on the saves in progress at one time

VARIABLES
    file,       \* what load would return, None while there is no file
    offered,    \* the states that saves in progress are writing
    used,       \* history: plan ids drawn so far
    lost,       \* history: dispatches handed out by incarnations that are gone
    recovered   \* history: how many results this incarnation started with

recoveryVars == <<vars, file, offered, used, lost, recovered>>

\* What encode_state writes and decode_state reads back.
Durable == [epoch : Nat, descriptors : SUBSET Descriptor,
            operations : [Operations -> OperationSpec \cup {None}],
            targets : [Targets -> TargetDefinition \cup {None}],
            plans : [PlanIds -> ExecutionPlan \cup {None}], results : Seq(ExecutionResult)]

durable == [epoch |-> epoch, descriptors |-> descriptors, operations |-> operations,
            targets |-> targets, plans |-> plans, results |-> results]

Register == INSTANCE DurableRegister WITH Values <- Durable, value <- file

RecoveryInit ==
    /\ Init
    /\ Register!Init
    /\ used = {} /\ lost = {} /\ recovered = 0

-----------------------------------------------------------------------------
(* The running process.                                                    *)

\* A call of the engine, or a late completion of what an earlier incarnation handed out.
call ==
    /\ \/ Next
       \/ \E m \in lost, outcome \in {"intact", "corrupt", "unknown"} : apply_result(m, outcome)
    /\ existing' \cap used \subseteq existing
    /\ used' = used \cup existing'
    /\ UNCHANGED <<file, offered, lost, recovered>>

\* Coordinator::save copies the state under the mutex; the store writes the copy outside it.
\* The RESULT handler calls it after a completion that committed.
save ==
    /\ \E i \in DOMAIN results : i > recovered /\ results[i].committed
    /\ Cardinality(offered) < MaxSaves
    /\ Register!Offer(durable)
    /\ UNCHANGED <<vars, used, lost, recovered>>

\* A save takes effect, or returns an error.
save_ends ==
    /\ \/ \E v \in offered : Register!Install(v)
       \/ Register!Withdraw
    /\ UNCHANGED <<vars, used, lost, recovered>>

-----------------------------------------------------------------------------
(* Restart.                                                                *)

\* decode_state reads the length of an operation's description where encode_state wrote the id
\* of its program, drawn at random from 64 bits: a file with such an operation is refused.
decodes(f) == \A o \in Operations : f.operations[o] # None => f.operations[o].program = None

recovers == file # None /\ decodes(file)

\* Nothing dynamic is in the file, and load clears what the constructor set up.
forget ==
    /\ runtime' = [t \in Targets |-> None]
    /\ capabilities' = [t \in Targets |-> None]
    /\ data_evidence' = [r \in Regions |-> None]
    /\ workers' = [w \in Workers |-> None]
    /\ reservations' = [t \in Targets |-> [slots |-> 0, workspace |-> 0]]

\* Mutants: COMMITTED plans are withdrawn too; the others are dropped.
withdrawn_all(pl) ==
    [p \in PlanIds |-> IF pl[p] # None
                       THEN [pl[p] EXCEPT !.lifecycle = unknown_or_superseded[@]] ELSE pl[p]]
only_committed(pl) ==
    [p \in PlanIds |-> IF pl[p] # None /\ pl[p].lifecycle # "COMMITTED" THEN None ELSE pl[p]]

\* What the plans of the file become: all that did not commit lose their authority.
withdrawn(pl) ==
    [p \in PlanIds |-> IF pl[p] # None /\ pl[p].lifecycle # "COMMITTED"
                       THEN [pl[p] EXCEPT !.lifecycle = unknown_or_superseded[@]] ELSE pl[p]]

\* Mutants: the state comes back as it was saved; the plans come back as they were saved.
load_verbatim(f) ==
    /\ epoch' = f.epoch
    /\ descriptors' = f.descriptors /\ operations' = f.operations /\ targets' = f.targets
    /\ plans' = f.plans
    /\ active_plans' = rebuild_active_plans(plans')
    /\ results' = f.results
    /\ forget
load_keeps_plans(f) ==
    /\ epoch' = f.epoch + 1
    /\ descriptors' = f.descriptors /\ operations' = f.operations /\ targets' = f.targets
    /\ plans' = f.plans
    /\ active_plans' = rebuild_active_plans(plans')
    /\ results' = f.results
    /\ forget

load(f) ==
    /\ epoch' = f.epoch + 1
    /\ descriptors' = f.descriptors /\ operations' = f.operations /\ targets' = f.targets
    /\ plans' = withdrawn(f.plans)
    /\ active_plans' = rebuild_active_plans(plans')
    /\ results' = f.results
    /\ forget

\* A coordinator that found no file, or could not decode it, starts as its constructor does.
start_empty ==
    /\ epoch' = 1
    /\ descriptors' = {default_policy}
    /\ operations' = [o \in Operations |-> None]
    /\ targets' = [t \in Targets |-> None]
    /\ plans' = [p \in PlanIds |-> None]
    /\ active_plans' = [o \in Operations |-> None]
    /\ results' = <<>>
    /\ forget

\* The process dies, anywhere, and main starts it again.  The engine's history variables keep
\* what concerns the plans that the new incarnation knows.
restart ==
    /\ \/ recovers /\ file.epoch < MaxEpoch /\ load(file)
       \/ ~recovers /\ start_empty
    /\ Register!Withdraw /\ offered' = {}
    /\ sent' = {m \in sent : m.plan \in existing'}
    /\ revoked' = {p \in existing' : p \in revoked \/ plans'[p].lifecycle # "COMMITTED"}
    /\ lost' = lost \cup sent
    /\ recovered' = Len(results')
    /\ UNCHANGED used

RecoveryNext == call \/ save \/ save_ends \/ restart

RecoverySpec == RecoveryInit /\ [][RecoveryNext]_recoveryVars

-----------------------------------------------------------------------------
(* Properties.  The invariants of Coordinator are claimed here as well, of *)
(* every incarnation.                                                      *)

\* "Recovery ... never silently restores an old worker's authority" (README.md): no completion
\* of something an earlier incarnation handed out is recorded by a later one, whatever the file
\* held, however old it was, and although epochs can repeat when nothing was saved in between.
NoAuthorityCrossesRestart ==
    \A i \in DOMAIN results : i > recovered => results[i].authority \notin lost

\* What a save published is never taken back by the engine: every result in a readable file is
\* a result of the running incarnation, and every plan in it is known there under the same
\* authority, committed if it is committed in the file.
FileIsRemembered ==
    recovers =>
        /\ Len(file.results) <= Len(results)
        /\ \A i \in DOMAIN file.results : results[i] = file.results[i]
        /\ \A p \in PlanIds : file.plans[p] # None =>
              /\ plans[p] # None
              /\ plans[p].snapshot = file.plans[p].snapshot
              /\ file.plans[p].lifecycle = "COMMITTED" => plans[p].lifecycle = "COMMITTED"

\* "committed result survives" (tests/test_persist.cpp, of a save and a load that both return
\* success): a result in the last state file is a result of every later incarnation.
PublishedResultsSurvive ==
    file # None => \A i \in DOMAIN file.results :
                      \E j \in DOMAIN results : results[j] = file.results[i]
=============================================================================
