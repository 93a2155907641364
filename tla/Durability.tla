------------------------------- MODULE Durability -------------------------------
(***************************************************************************)
(* Committed results and the state file: the RESULT handler and the start  *)
(* of apps/nmc_coordinator.cpp run with --persist, on top of FileStore.    *)
(* The engine is reduced to what a client would miss after a restart: its  *)
(* epoch and the results it has recorded (Recovery keeps the whole         *)
(* engine).  A thread of Savers serves one worker connection.              *)
(***************************************************************************)
EXTENDS FileStore, Naturals, Sequences, FiniteSets

CONSTANTS
    Plans,
    StartEpoch,         \* the --epoch argument; 1 when it is not given
    kMaxPersistCount,   \* entries of one kind a state file can hold and still be read
    MaxStarts           \* bound on the number of times the process is started

ASSUME Bounds == StartEpoch \in Nat \ {0} /\ kMaxPersistCount \in Nat /\ MaxStarts \in Nat

State == [epoch : Nat, results : SUBSET Plans]
fresh == [epoch |-> StartEpoch, results |-> {}]

VARIABLES
    memory,         \* the engine's state, None while the process is down
    stage, reply,   \* each connection thread: its place in the handler, the plan it answers
    applied,        \* history: plans whose result was ever recorded (plan ids are never reused)
    saved,          \* history: plans whose result was in a state whose save returned success
    acknowledged,   \* history: plans whose client was told that the result is committed
    starts          \* history: for each start, the epoch, whether a file was recovered, and
                    \* whether a save of that incarnation has taken effect

handlerVars == <<stage, reply>>
historyVars == <<applied, saved, acknowledged, starts>>
durableVars == <<storeVars, memory, handlerVars, historyVars>>

\* The state file does not exist before the first start.
DurableInit ==
    /\ StoreInit
    /\ memory = None
    /\ stage = [s \in Savers |-> "receive"]
    /\ reply = [s \in Savers |-> None]
    /\ applied = {} /\ saved = {} /\ acknowledged = {}
    /\ starts = <<>>

\* decode_state accepts what encode_state wrote.  Every result has a plan, and encode_state clips
\* the count but not the entries: past the bound the id of a plan is read as the number of results.
decodes(v) == Cardinality(v.results) <= kMaxPersistCount

later(e) == IF e < StartEpoch THEN StartEpoch ELSE e

\* Mutant: the recovered state keeps its epoch.
start_same_epoch ==
    LET recovers == path # None /\ path.state # "partial" /\ decodes(path.value) IN
    /\ memory = None
    /\ Len(starts) < MaxStarts
    /\ memory' = IF recovers THEN path.value ELSE fresh
    /\ starts' = Append(starts, [epoch |-> memory'.epoch, recovered |-> recovers, saved |-> FALSE])
    /\ UNCHANGED <<storeVars, handlerVars, applied, saved, acknowledged>>

\* main: load the file if it exists.  A file that cannot be read or decoded is only reported.
start ==
    LET recovers == path # None /\ path.state # "partial" /\ decodes(path.value) IN
    /\ memory = None
    /\ Len(starts) < MaxStarts
    /\ memory' = IF recovers THEN [path.value EXCEPT !.epoch = later(@ + 1)] ELSE fresh
    /\ starts' = Append(starts, [epoch |-> memory'.epoch, recovered |-> recovers, saved |-> FALSE])
    /\ UNCHANGED <<storeVars, handlerVars, applied, saved, acknowledged>>

\* apply_result commits the execution of plan p; its thread goes on to save.
apply(s, p) ==
    /\ memory # None
    /\ stage[s] = "receive"
    /\ memory' = [memory EXCEPT !.results = @ \cup {p}]
    /\ stage' = [stage EXCEPT ![s] = "save"]
    /\ reply' = [reply EXCEPT ![s] = p]
    /\ applied' = applied \cup {p}
    /\ UNCHANGED <<storeVars, saved, acknowledged, starts>>

\* Coordinator::save copies the state under the mutex and writes the copy outside it.
save(s) ==
    /\ stage[s] = "save"
    /\ begin(s, memory)
    /\ stage' = [stage EXCEPT ![s] = "saving"]
    /\ UNCHANGED <<memory, reply, historyVars>>

saving(s) ==
    LET succeeds == at(s, "move") /\ pc'[s] = "idle" IN
    /\ stage[s] = "saving"
    /\ save_step(s)
    /\ saved' = IF succeeds THEN saved \cup copy[s].results ELSE saved
    /\ starts' = IF succeeds THEN [starts EXCEPT ![Len(starts)].saved = TRUE] ELSE starts
    /\ UNCHANGED <<memory, handlerVars, applied, acknowledged>>

\* resolve_dispatch answers the client, whether or not save returned success.
resolve(s) ==
    /\ stage[s] = "saving" /\ at(s, "idle")
    /\ acknowledged' = acknowledged \cup {reply[s]}
    /\ stage' = [stage EXCEPT ![s] = "receive"]
    /\ reply' = [reply EXCEPT ![s] = None]
    /\ UNCHANGED <<storeVars, memory, applied, saved, starts>>

\* The process or the machine stops anywhere.
die ==
    /\ memory # None
    /\ process_crash \/ power_loss
    /\ memory' = None
    /\ stage' = [s \in Savers |-> "receive"]
    /\ reply' = [s \in Savers |-> None]
    /\ UNCHANGED historyVars

DurableNext ==
    \/ start
    \/ \E s \in Savers, p \in Plans \ applied : apply(s, p)
    \/ \E s \in Savers : save(s) \/ saving(s) \/ resolve(s)
    \/ die

DurableSpec == DurableInit /\ [][DurableNext]_durableVars

-----------------------------------------------------------------------------
(* Properties.                                                             *)

\* A result that was in a state whose save returned success is there in every later incarnation
\* of the coordinator, wherever crashes fall: Coordinator::save, when it reports success, has
\* made everything recorded so far durable.
SavedResultsSurvive == memory # None => saved \subseteq memory.results

\* "Durability: the previously committed result survives restart." (tests/test_distributed.cpp):
\* a result whose client was told that it is committed is known to every later incarnation.
AcknowledgedResultsSurvive == memory # None => acknowledged \subseteq memory.results

\* "Recovery advances the coordinator epoch" (README.md, Persistence): the incarnation after one
\* whose save took effect has a later epoch.  After an incarnation that saved nothing the same
\* file is recovered again, into the same epoch.
RecoveryAdvancesEpoch ==
    \A i \in 2 .. Len(starts) :
        (starts[i].recovered /\ starts[i - 1].saved) => starts[i].epoch > starts[i - 1].epoch
=============================================================================
