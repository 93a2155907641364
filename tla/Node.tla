--------------------------------- MODULE Node ---------------------------------
(***************************************************************************)
(* The coordinator and worker processes around the control plane           *)
(* (apps/nmc_coordinator.cpp and apps/nmc_worker.cpp).  The coordinator    *)
(* runs one thread per TCP connection.  A thread calls the engine, whose   *)
(* methods are the actions of Coordinator, and guards the maps it shares   *)
(* with other threads by a second mutex, so one critical section or one    *)
(* engine call is one step here and everything between two of them is an   *)
(* interleaving point.                                                     *)
(*                                                                         *)
(* A worker process is named by the boot id it draws at random when it     *)
(* starts: a worker that restarts is another boot with another target.     *)
(***************************************************************************)
EXTENDS Coordinator

CONSTANTS
    Clients,        \* client connections, one thread each
    WorkerOf,       \* the WorkerId a worker process draws beside its boot id
    Published,      \* what a worker publishes about itself when it connects
    Holding         \* workers started with --hold-result

VARIABLES
    process,        \* the worker process of each boot
    up, down,       \* bytes in flight on its connection, as sequences of frames
    thread,         \* the coordinator's thread for that connection
    outbox,         \* the reply that thread is about to resolve
    node_workers,   \* Node::workers, the boots whose socket is listed
    pending,        \* Node::pending, the boot each open promise waits for
    promise,        \* what each promise was fulfilled with
    client          \* where each client thread is in CLIENT_DISPATCH

connVars == <<process, up, down, thread, outbox>>
nodeVars == <<vars, connVars, node_workers, pending, promise, client>>

ASSUME PublishedTypes ==
    /\ None \notin Boots \cup [boot : Boots, connected : BOOLEAN]
    /\ WorkerOf \in [Boots -> Workers]
    /\ \A a, b \in Boots : WorkerOf[a] = WorkerOf[b] => a = b
    /\ Holding \subseteq Boots
    /\ \A b \in Boots : /\ Published[b].register \in TargetMsgs
                        /\ Published[b].register.owner_boot = b
                        /\ Published[b].capability \in CapabilityMsgs
                        /\ Published[b].evidence \in EvidenceMsgs
                        /\ Published[b].heartbeat \in HeartbeatMsgs
\* NearMemoryTargetId::make(): each worker process draws a target of its own.
ASSUME OwnTarget ==
    \A a, b \in Boots :
        /\ Published[b].heartbeat.target = Published[b].register.target
        /\ Published[a].register.target = Published[b].register.target => a = b

-----------------------------------------------------------------------------
(* Frames and the state of a request.                                      *)

FrameType == {"HELLO", "REGISTER_TARGET", "CAPABILITY", "DATA_EVIDENCE", "HEARTBEAT", "RESULT"}
Frame == [type : FrameType, msg : DispatchMsg \cup {None},
          outcome : {"intact", "unknown", None}]

frame(type) == [type |-> type, msg |-> None, outcome |-> None]

\* What a client can be told: the verdict on its execution, that the completion was refused,
\* that the worker was lost, or that the dispatch could not be sent.
Answer == {"committed", "ambiguous", "rejected", "lost", "send_failed"}
ASSUME NoneIsNoAnswer == None \notin Answer

idle == [pc |-> "idle", plan |-> None, dispatch |-> None, msg |-> None]

NodeInit ==
    /\ Init
    /\ process = [b \in Boots |-> "unborn"]
    /\ up = [b \in Boots |-> <<>>]
    /\ down = [b \in Boots |-> <<>>]
    /\ thread = [b \in Boots |-> "none"]
    /\ outbox = [b \in Boots |-> None]
    /\ node_workers = {}
    /\ pending = [d \in DispatchIds |-> None]
    /\ promise = [d \in DispatchIds |-> None]
    /\ client = [c \in Clients |-> idle]

-----------------------------------------------------------------------------
(* Promises.  Taking one out of pending under the mutex and fulfilling it  *)
(* after the unlock are one step: nobody else can reach it in between.     *)

\* Mutant: the entry is left in the map.
resolve_keeps_entry(d, answer) ==
    /\ promise' = [promise EXCEPT ![d] = IF pending[d] = None THEN @ ELSE answer]
    /\ UNCHANGED pending

resolve_dispatch(d, answer) ==
    /\ promise' = [promise EXCEPT ![d] = IF pending[d] = None THEN @ ELSE answer]
    /\ pending' = [pending EXCEPT ![d] = None]

\* Mutant: the promises of the lost worker stay open.
only_unlist(b) ==
    /\ node_workers' = node_workers \ {b}
    /\ UNCHANGED <<promise, pending>>

resolve_disconnect(b) ==
    /\ promise' = [d \in DispatchIds |-> IF pending[d] = b THEN "lost" ELSE promise[d]]
    /\ pending' = [d \in DispatchIds |-> IF pending[d] = b THEN None ELSE pending[d]]
    /\ node_workers' = node_workers \ {b}

-----------------------------------------------------------------------------
(* The worker process.                                                     *)

handshake == <<frame("HELLO"), frame("REGISTER_TARGET"), frame("CAPABILITY"),
               frame("DATA_EVIDENCE"), frame("HEARTBEAT")>>

\* The worker connects and sends its whole handshake without waiting for an answer.
start(b) ==
    /\ process[b] = "unborn"
    /\ process' = [process EXCEPT ![b] = "running"]
    /\ up' = [up EXCEPT ![b] = handshake]
    /\ thread' = [thread EXCEPT ![b] = "recv"]
    /\ UNCHANGED <<vars, down, outbox, node_workers, pending, promise, client>>

\* Mutant: a backend that fails is not reported.
serve_successes(b) ==
    /\ process[b] = "running" /\ down[b] # <<>>
    /\ down' = [down EXCEPT ![b] = Tail(@)]
    /\ \E outcome \in {"intact", "unknown"} :
          up' = IF b \in Holding \/ outcome = "unknown" THEN up
                ELSE [up EXCEPT ![b] = Append(@, [type |-> "RESULT", msg |-> Head(down[b]),
                                                  outcome |-> outcome])]
    /\ UNCHANGED <<vars, process, thread, outbox, node_workers, pending, promise, client>>

\* It executes one dispatch and answers it; a backend that fails reports an unknown outcome.
serve(b) ==
    /\ process[b] = "running" /\ down[b] # <<>>
    /\ down' = [down EXCEPT ![b] = Tail(@)]
    /\ \E outcome \in {"intact", "unknown"} :
          up' = IF b \in Holding THEN up
                ELSE [up EXCEPT ![b] = Append(@, [type |-> "RESULT", msg |-> Head(down[b]),
                                                  outcome |-> outcome])]
    /\ UNCHANGED <<vars, process, thread, outbox, node_workers, pending, promise, client>>

\* It exits or is killed: any suffix of what it sent may be lost, what it was sent is.
crash(b) ==
    /\ process[b] = "running"
    /\ process' = [process EXCEPT ![b] = "dead"]
    /\ \E n \in 0 .. Len(up[b]) : up' = [up EXCEPT ![b] = SubSeq(@, 1, n)]
    /\ down' = [down EXCEPT ![b] = <<>>]
    /\ UNCHANGED <<vars, thread, outbox, node_workers, pending, promise, client>>

-----------------------------------------------------------------------------
(* The coordinator's thread for a worker connection.                       *)

\* recv_frame returns the next frame, which the thread handles before it reads another.
received(b, type) ==
    /\ thread[b] = "recv" /\ up[b] # <<>> /\ Head(up[b]).type = type
    /\ up' = [up EXCEPT ![b] = Tail(@)]
    /\ UNCHANGED <<process, down, node_workers, pending, promise, client>>

hello(b) ==
    /\ received(b, "HELLO")
    /\ bind_worker_session(WorkerOf[b], b)
    /\ thread' = [thread EXCEPT ![b] = "greeting"]
    /\ UNCHANGED outbox

enlist(b) ==
    /\ thread[b] = "greeting"
    /\ node_workers' = node_workers \cup {b}
    /\ thread' = [thread EXCEPT ![b] = "recv"]
    /\ UNCHANGED <<vars, process, up, down, outbox, pending, promise, client>>

register_target(b) ==
    /\ received(b, "REGISTER_TARGET")
    /\ apply_register_target([Published[b].register EXCEPT !.owner_boot = b])
    /\ UNCHANGED <<thread, outbox>>

capability(b) ==
    /\ received(b, "CAPABILITY")
    /\ apply_capability(Published[b].capability)
    /\ UNCHANGED <<thread, outbox>>

evidence(b) ==
    /\ received(b, "DATA_EVIDENCE")
    /\ apply_data_evidence(Published[b].evidence)
    /\ UNCHANGED <<thread, outbox>>

heartbeat(b) ==
    /\ received(b, "HEARTBEAT")
    /\ apply_heartbeat(Published[b].heartbeat)
    /\ UNCHANGED <<thread, outbox>>

\* Mutant: a completion the engine accepted is reported as committed.
accepted_is_committed(m, outcome) == IF accepted(m) THEN "committed" ELSE "rejected"

\* The reply built from what apply_result returns for completion m.
answer_to(m, outcome) ==
    IF ~accepted(m) THEN "rejected"
    ELSE IF outcome = "intact" THEN "committed" ELSE "ambiguous"

result(b) ==
    /\ received(b, "RESULT")
    /\ LET m       == Head(up[b]).msg
           outcome == Head(up[b]).outcome
       IN /\ IF accepted(m) THEN apply_result(m, outcome) ELSE UNCHANGED vars
          /\ outbox' = [outbox EXCEPT ![b] = [dispatch |-> m.dispatch,
                                              answer |-> answer_to(m, outcome)]]
    /\ thread' = [thread EXCEPT ![b] = "replying"]

answer(b) ==
    /\ thread[b] = "replying"
    /\ resolve_dispatch(outbox[b].dispatch, outbox[b].answer)
    /\ outbox' = [outbox EXCEPT ![b] = None]
    /\ thread' = [thread EXCEPT ![b] = "recv"]
    /\ UNCHANGED <<vars, process, up, down, node_workers, client>>

\* Mutant: the engine is not told.
disconnect_unreported(b) ==
    /\ thread[b] = "recv" /\ process[b] = "dead" /\ up[b] = <<>>
    /\ thread' = [thread EXCEPT ![b] = IF workers[WorkerOf[b]] # None
                                       THEN "detaching" ELSE "closing"]
    /\ UNCHANGED <<vars, process, up, down, outbox, node_workers, pending, promise, client>>

\* recv_frame reports a disconnect.  A connection that said HELLO is a worker's.
disconnect(b) ==
    /\ thread[b] = "recv" /\ process[b] = "dead" /\ up[b] = <<>>
    /\ IF workers[WorkerOf[b]] # None THEN on_worker_disconnected(b) ELSE UNCHANGED vars
    /\ thread' = [thread EXCEPT ![b] = IF workers[WorkerOf[b]] # None
                                       THEN "detaching" ELSE "closing"]
    /\ UNCHANGED <<process, up, down, outbox, node_workers, pending, promise, client>>

detach(b) ==
    /\ thread[b] = "detaching"
    /\ resolve_disconnect(b)
    /\ thread' = [thread EXCEPT ![b] = "closing"]
    /\ UNCHANGED <<vars, process, up, down, outbox, client>>

close(b) ==
    /\ thread[b] = "closing"
    /\ thread' = [thread EXCEPT ![b] = "closed"]
    /\ UNCHANGED <<vars, process, up, down, outbox, node_workers, pending, promise, client>>

connection(b) ==
    \/ hello(b) \/ enlist(b) \/ register_target(b) \/ capability(b) \/ evidence(b)
    \/ heartbeat(b) \/ result(b) \/ answer(b) \/ disconnect(b) \/ detach(b) \/ close(b)

-----------------------------------------------------------------------------
(* A client thread in CLIENT_DISPATCH.  Each operator is one step.         *)

at(c, pc) == client[c].pc = pc
moves(c, pc) == client' = [client EXCEPT ![c].pc = pc]
returns(c) == client' = [client EXCEPT ![c] = idle]

\* DispatchId::make(): an id nobody has used.
fresh(d) == /\ \A m \in sent : m.dispatch # d
            /\ \A c \in Clients : client[c].dispatch # d

\* cancel_plan, whose error the callers ignore.
try_cancel(p) == IF in(p, ExecutionLifecycle \ Finished) THEN cancel_plan(p) ELSE UNCHANGED vars

\* A request that cannot reserve is refused at once and changes nothing.
request(c) ==
    /\ at(c, "idle")
    /\ \E p \in existing, d \in DispatchIds :
          /\ fresh(d)
          /\ reserve(p)
          /\ client' = [client EXCEPT ![c] = [pc |-> "reserved", plan |-> p, dispatch |-> d,
                                              msg |-> None]]
    /\ UNCHANGED <<connVars, node_workers, pending, promise>>

\* The plan is handed out, or superseded because it is stale, or found closed meanwhile.
prepare(c) ==
    /\ at(c, "reserved")
    /\ LET p == client[c].plan
           d == client[c].dispatch
       IN \/ /\ prepare_dispatch(p, d)
             /\ client' = [client EXCEPT ![c] = IF plans'[p].lifecycle = "SUPERSEDED" THEN idle
                              ELSE [@ EXCEPT !.pc = "prepared", !.msg = dispatch_msg(p, d)]]
          \/ ~in(p, {"RESERVED"}) /\ returns(c) /\ UNCHANGED vars
    /\ UNCHANGED <<connVars, node_workers, pending, promise>>

lookup(c) ==
    /\ at(c, "prepared")
    /\ moves(c, IF client[c].msg.worker_boot \in node_workers THEN "found" ELSE "abandoning")
    /\ UNCHANGED <<vars, connVars, node_workers, pending, promise>>

confirm(c) ==
    /\ at(c, "found")
    /\ \/ confirm_dispatched(client[c].plan, client[c].dispatch) /\ moves(c, "confirmed")
       \/ ~in(client[c].plan, {"RESERVED"}) /\ moves(c, "abandoning") /\ UNCHANGED vars
    /\ UNCHANGED <<connVars, node_workers, pending, promise>>

abandon(c) ==
    /\ at(c, "abandoning")
    /\ try_cancel(client[c].plan)
    /\ returns(c)
    /\ UNCHANGED <<connVars, node_workers, pending, promise>>

\* Mutant: Pending{std::move(p)}, without the boot: the promise is filed under the null boot id.
await_null_boot(c) ==
    /\ at(c, "confirmed")
    /\ pending' = [pending EXCEPT ![client[c].dispatch] = "null"]
    /\ moves(c, "sending")
    /\ UNCHANGED <<vars, connVars, node_workers, promise>>

await(c) ==
    /\ at(c, "confirmed")
    /\ pending' = [pending EXCEPT ![client[c].dispatch] = client[c].msg.worker_boot]
    /\ moves(c, "sending")
    /\ UNCHANGED <<vars, connVars, node_workers, promise>>

\* send_all succeeds as long as the local socket is open, even if the peer has just gone: the
\* bytes are then lost.  It may also report the reset, and fails once the socket is closed.
send(c) ==
    /\ at(c, "sending")
    /\ LET b == client[c].msg.worker_boot
       IN \/ /\ thread[b] # "closed"
             /\ down' = IF process[b] = "running"
                        THEN [down EXCEPT ![b] = Append(@, client[c].msg)] ELSE down
             /\ moves(c, "waiting")
          \/ /\ process[b] = "dead"
             /\ moves(c, "unsent")
             /\ UNCHANGED down
    /\ UNCHANGED <<vars, process, up, thread, outbox, node_workers, pending, promise>>

report_unsent(c) ==
    /\ at(c, "unsent")
    /\ resolve_dispatch(client[c].dispatch, "send_failed")
    /\ moves(c, "cancelling")
    /\ UNCHANGED <<vars, connVars, node_workers>>

cancel_unsent(c) ==
    /\ at(c, "cancelling")
    /\ try_cancel(client[c].plan)
    /\ moves(c, "waiting")
    /\ UNCHANGED <<connVars, node_workers, pending, promise>>

\* fut.get() returns and the client is answered.
get(c) ==
    /\ at(c, "waiting")
    /\ promise[client[c].dispatch] # None
    /\ returns(c)
    /\ UNCHANGED <<vars, connVars, node_workers, pending, promise>>

dispatching(c) ==
    \/ prepare(c) \/ lookup(c) \/ confirm(c) \/ abandon(c) \/ await(c) \/ send(c)
    \/ report_unsent(c) \/ cancel_unsent(c) \/ get(c)

\* CLIENT_REGISTER_OPERATION and CLIENT_PLAN are one engine call each.
define_operation == /\ \E spec \in OperationSpecs : create_operation(spec)
                    /\ UNCHANGED <<connVars, node_workers, pending, promise, client>>
ask_plan == /\ \E o \in Operations : plan(o)
            /\ UNCHANGED <<connVars, node_workers, pending, promise, client>>

-----------------------------------------------------------------------------
NodeNext ==
    \/ \E b \in Boots : start(b) \/ serve(b) \/ crash(b) \/ connection(b)
    \/ \E c \in Clients : request(c) \/ dispatching(c)
    \/ define_operation
    \/ ask_plan

\* A thread that can run is scheduled, recv returns what has arrived, and a live worker
\* executes what it receives.  Nothing obliges a worker to crash or a client to ask.
NodeSpec == /\ NodeInit /\ [][NodeNext]_nodeVars
            /\ \A b \in Boots : WF_nodeVars(connection(b)) /\ WF_nodeVars(serve(b))
            /\ \A c \in Clients : WF_nodeVars(dispatching(c))

-----------------------------------------------------------------------------
(* Properties.                                                             *)

\* Every shared map and thread-local of the two processes has its shape.
NodeTypeOK ==
    /\ process \in [Boots -> {"unborn", "running", "dead"}]
    /\ up \in [Boots -> Seq(Frame)]
    /\ down \in [Boots -> Seq(DispatchMsg)]
    /\ thread \in [Boots -> {"none", "recv", "greeting", "replying", "detaching", "closing",
                             "closed"}]
    /\ outbox \in [Boots -> [dispatch : DispatchIds, answer : Answer] \cup {None}]
    /\ node_workers \subseteq Boots
    /\ pending \in [DispatchIds -> Boots \cup {None}]
    /\ promise \in [DispatchIds -> Answer \cup {None}]
    /\ client \in [Clients ->
          [pc : {"idle", "reserved", "prepared", "found", "confirmed", "sending", "waiting",
                 "abandoning", "unsent", "cancelling"},
           plan : PlanIds \cup {None}, dispatch : DispatchIds \cup {None},
           msg : DispatchMsg \cup {None}]]

\* What a client is told is true: its dispatch is reported committed exactly when the
\* coordinator has committed a result of that dispatch, and it stays true whatever frames
\* still arrive (the RESULT handler, resolve_disconnect and the send-failure path all answer).
AnswersAreTrue ==
    \A d \in DispatchIds : promise[d] # None =>
        (promise[d] = "committed" <=>
            \E i \in DOMAIN results : results[i].committed /\ results[i].authority.dispatch = d)

\* A promise is fulfilled at most once (a second set_value would throw): a result, a
\* disconnect and a failed send may all try to answer the same dispatch.
FulfilledOnce ==
    [][\A d \in DispatchIds : promise[d] # None =>
          pending'[d] = None /\ promise'[d] = promise[d]]_nodeVars

\* Once a worker's connection thread has handled the disconnect, no plan pinned to that boot
\* can still execute or commit, although client threads may be half way through dispatching it.
LostWorkerHasNoLivePlan ==
    \A b \in Boots : thread[b] \in {"detaching", "closing", "closed"} =>
        \A p \in pinned_to(b) : plans[p].lifecycle \notin Live

\* Dispatch d is on its way to worker b, or its result on the way back, or being answered.
in_transit(d, b) ==
    \/ \E i \in DOMAIN down[b] : down[b][i].dispatch = d
    \/ \E i \in DOMAIN up[b] : up[b][i].type = "RESULT" /\ up[b][i].msg.dispatch = d
    \/ thread[b] = "replying" /\ outbox[b].dispatch = d

\* Only a worker can leave a client of CLIENT_DISPATCH waiting: the promise of a client blocked
\* in fut.get() stays on file under the boot its message went to until it is fulfilled; as long
\* as that worker lives and does not withhold results, its dispatch is never lost between the
\* client's thread, the worker process and the thread of the worker's connection; and as long as
\* that worker is listed, this thread has resolve_disconnect still before it.
WaitIsServed ==
    \A c \in Clients : at(c, "waiting") /\ promise[client[c].dispatch] = None =>
        LET b == client[c].msg.worker_boot
        IN /\ pending[client[c].dispatch] = b
           /\ process[b] = "running" /\ b \notin Holding => in_transit(client[c].dispatch, b)
           /\ b \in node_workers => thread[b] \in {"recv", "greeting", "replying", "detaching"}

\* A promise registered while its worker is still listed is always fulfilled: by the result,
\* by the failed send, or by resolve_disconnect.
PendingIsResolved ==
    \A d \in DispatchIds, b \in Boots :
        (pending[d] = b /\ b \in node_workers) ~> (promise[d] # None)

\* A plan in flight always leaves that state: a result settles it, or losing its worker makes
\* its outcome unknown.
InFlightSettles == \A p \in PlanIds : in(p, InFlight) ~> ~in(p, InFlight)

\* "no timeout: resolved by result or worker disconnect" (apps/nmc_coordinator.cpp): every
\* client that waits for its promise is answered.
EveryWaitEnds == \A c \in Clients : at(c, "waiting") ~> at(c, "idle")
=============================================================================
