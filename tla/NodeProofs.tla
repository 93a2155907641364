------------------------------ MODULE NodeProofs ------------------------------
(***************************************************************************)
(* The processes use the control plane only through its operations: what   *)
(* Node does to the engine's variables is a behaviour of Coordinator.  All *)
(* that is proved of Coordinator therefore holds in the running system,    *)
(* whatever its threads, workers and connections do.  The same inductive   *)
(* invariant shows that no promise is ever fulfilled twice.                *)
(***************************************************************************)
EXTENDS Node, CoordinatorProofs

\* Time limits of the provers, in seconds.
USE ZenonT(4), SMTT(15), ZenonT(30), SMTT(90)

\* A RESULT frame repeats a message that was handed out: workers copy what they were sent.
Wire == {f \in Frame : f.type = "RESULT" => f.msg \in sent /\ f.outcome \in {"intact", "unknown"}}

Reply == [dispatch : DispatchIds, answer : Answer]

FramesAreSent ==
    /\ up \in [Boots -> Seq(Wire)]
    /\ down \in [Boots -> Seq(sent)]
    /\ \A b \in Boots : thread[b] = "replying" => outbox[b] \in Reply

\* A client thread holds a message that carries its own dispatch id.
ClientsHold ==
    \A c \in Clients :
        /\ client[c].pc # "idle" =>
              client[c].plan \in PlanIds /\ client[c].dispatch \in DispatchIds
        /\ client[c].pc \notin {"idle", "reserved"} =>
              client[c].msg \in sent /\ client[c].msg.dispatch = client[c].dispatch

BeforeAwait == {"reserved", "prepared", "found", "confirmed"}

\* Dispatch ids are never reused, and nothing is filed under one before its client does it.
PromisesAreOwned ==
    /\ \A c, e \in Clients :
          c # e /\ client[c].dispatch # None => client[c].dispatch # client[e].dispatch
    /\ \A c \in Clients : client[c].pc \in BeforeAwait =>
          promise[client[c].dispatch] = None /\ pending[client[c].dispatch] = None
    /\ \A d \in DispatchIds :
          /\ promise[d] # None => pending[d] = None
          /\ promise[d] # None \/ pending[d] # None => \E m \in sent : m.dispatch = d

NodeInv == TypeInv /\ NodeTypeOK /\ FramesAreSent /\ ClientsHold /\ PromisesAreOwned

\* What the ends of a channel's sequence are made of.
LEMMA HeadAndTail ==
    ASSUME NEW S, NEW s \in Seq(S), s # <<>>
    PROVE  /\ Head(s) \in S
           /\ Tail(s) \in Seq(S)
           /\ Len(Tail(s)) = Len(s) - 1
           /\ \A i \in 1 .. Len(Tail(s)) : Tail(s)[i] = s[i + 1]
OBVIOUS

LEMMA LongerSeq ==
    ASSUME NEW S, NEW s \in Seq(S), NEW e \in S
    PROVE  Append(s, e) \in Seq(S)
OBVIOUS

\* What a crash leaves of a connection is still a sequence of what was sent on it.
LEMMA CutShort ==
    ASSUME NEW S, NEW s \in Seq(S), NEW n \in 0 .. Len(s)
    PROVE  SubSeq(s, 1, n) \in Seq(S)
OBVIOUS

\* Cancelling a plan on behalf of a client is an engine step or no step.
LEMMA TryCancelStep ==
    ASSUME NEW p \in PlanIds, try_cancel(p)
    PROVE  [Next]_vars
BY DEF try_cancel, Next

\* The frame a connection thread takes off the wire.
LEMMA ReceivedFrame ==
    ASSUME NodeInv, NEW b \in Boots, NEW type, received(b, type)
    PROVE  /\ Head(up[b]) \in Wire
           /\ up' \in [Boots -> Seq(Wire)]
<1>1. up[b] \in Seq(Wire) /\ up[b] # <<>>
    BY DEF NodeInv, FramesAreSent, received
<1>2. Head(up[b]) \in Wire /\ Tail(up[b]) \in Seq(Wire)
    BY <1>1, HeadAndTail
<1>3. QED BY <1>2 DEF received, NodeInv, FramesAreSent

\* Every step of the two processes is a step of the control plane or leaves it alone.
LEMMA EngineStep == NodeInv /\ [NodeNext]_nodeVars => [Next]_vars
<1> SUFFICES ASSUME NodeInv, [NodeNext]_nodeVars PROVE [Next]_vars
    OBVIOUS
<1>1. CASE UNCHANGED nodeVars
    BY <1>1 DEF nodeVars
<1>2. ASSUME NEW b \in Boots, start(b) \/ serve(b) \/ crash(b) PROVE UNCHANGED vars
    BY <1>2 DEF start, serve, crash
<1>3. ASSUME NEW b \in Boots, connection(b) PROVE [Next]_vars
    <2>1. CASE hello(b)
        <3>1. WorkerOf[b] \in Workers
            BY PublishedTypes
        <3>2. QED BY <2>1, <3>1 DEF hello, Next
    <2>2. CASE register_target(b)
        <3>1. [Published[b].register EXCEPT !.owner_boot = b] = Published[b].register
            BY PublishedTypes, InputTypes DEF RegisterTargetMsg
        <3>2. Published[b].register \in TargetMsgs
            BY PublishedTypes
        <3>3. QED BY <2>2, <3>1, <3>2 DEF register_target, Next
    <2>3. CASE capability(b) \/ evidence(b) \/ heartbeat(b)
        BY <2>3, PublishedTypes DEF capability, evidence, heartbeat, Next
    <2>4. CASE result(b)
        <3>1. received(b, "RESULT") /\ Head(up[b]).type = "RESULT"
            BY <2>4 DEF result, received
        <3>2. /\ Head(up[b]).msg \in sent
              /\ Head(up[b]).outcome \in {"intact", "corrupt", "unknown"}
            BY <3>1, ReceivedFrame DEF Wire, Frame
        <3>3. QED BY <2>4, <3>2 DEF result, Next
    <2>5. CASE disconnect(b)
        BY <2>5 DEF disconnect, Next
    <2>6. CASE enlist(b) \/ answer(b) \/ detach(b) \/ close(b)
        BY <2>6 DEF enlist, answer, detach, close
    <2>7. QED BY <1>3, <2>1, <2>2, <2>3, <2>4, <2>5, <2>6 DEF connection
<1>4. ASSUME NEW c \in Clients, request(c) PROVE [Next]_vars
    BY <1>4 DEF request, existing, Next
<1>5. ASSUME NEW c \in Clients, dispatching(c) PROVE [Next]_vars
    <2>1. client[c].pc # "idle" => client[c].plan \in PlanIds /\ client[c].dispatch \in DispatchIds
        BY DEF NodeInv, ClientsHold
    <2>2. CASE prepare(c)
        BY <2>1, <2>2 DEF prepare, at, Next
    <2>3. CASE confirm(c)
        BY <2>1, <2>3 DEF confirm, at, Next
    <2>4. CASE abandon(c) \/ cancel_unsent(c)
        BY <2>1, <2>4, TryCancelStep DEF abandon, cancel_unsent, at
    <2>5. CASE lookup(c) \/ await(c) \/ send(c) \/ report_unsent(c) \/ get(c)
        BY <2>5 DEF lookup, await, send, report_unsent, get
    <2>6. QED BY <1>5, <2>2, <2>3, <2>4, <2>5 DEF dispatching
<1>6. CASE define_operation \/ ask_plan
    BY <1>6 DEF define_operation, ask_plan, Next
<1>7. QED BY <1>1, <1>2, <1>3, <1>4, <1>5, <1>6 DEF NodeNext

-----------------------------------------------------------------------------
(* The invariant is inductive.                                             *)

LEMMA SeqGrows ==
    ASSUME NEW S, NEW T, S \subseteq T
    PROVE  Seq(S) \subseteq Seq(T)
OBVIOUS

\* Messages handed out are never taken back, so what is on the wire stays genuine.
LEMMA SentGrows ==
    ASSUME [Next]_vars
    PROVE  /\ sent \subseteq sent'
           /\ Wire \subseteq Wire'
           /\ Seq(sent) \subseteq Seq(sent')
           /\ Seq(Wire) \subseteq Seq(Wire')
<1>1. sent \subseteq sent'
    BY WhatChanges DEF prepare_dispatch
<1>2. Wire \subseteq Wire'
    BY <1>1 DEF Wire, Frame
<1>3. QED BY <1>1, <1>2, SeqGrows

Threads == {"none", "recv", "greeting", "replying", "detaching", "closing", "closed"}

\* The connections: processes, frames, threads and the socket list.
ConnTypes ==
    /\ process \in [Boots -> {"unborn", "running", "dead"}]
    /\ thread \in [Boots -> Threads]
    /\ outbox \in [Boots -> Reply \cup {None}]
    /\ node_workers \subseteq Boots

LEMMA HandshakeType == handshake \in Seq(Wire)
<1>1. \A type \in FrameType \ {"RESULT"} : frame(type) \in Wire
    BY DEF frame, Wire, Frame
<1>2. QED BY <1>1 DEF handshake, FrameType

LEMMA ConnStep ==
    NodeInv /\ [NodeNext]_nodeVars => ConnTypes' /\ FramesAreSent'
<1> SUFFICES ASSUME NodeInv, [NodeNext]_nodeVars
             PROVE  ConnTypes' /\ FramesAreSent'
    OBVIOUS
<1>0. /\ sent \subseteq sent' /\ Seq(sent) \subseteq Seq(sent') /\ Seq(Wire) \subseteq Seq(Wire')
      /\ sent \subseteq DispatchMsg
    BY EngineStep, SentGrows DEF NodeInv, TypeInv, TypeOK
<1>1. ConnTypes /\ FramesAreSent
    BY DEF NodeInv, NodeTypeOK, ConnTypes, Threads, Reply
<1>2. \A b \in Boots : up[b] \in Seq(Wire) /\ down[b] \in Seq(sent)
    BY <1>1 DEF FramesAreSent
<1> DEFINE Preserved ==
               /\ ConnTypes'
               /\ up' \in [Boots -> Seq(Wire)]
               /\ down' \in [Boots -> Seq(sent')]
               /\ \A b \in Boots : thread'[b] = "replying" => outbox'[b] \in Reply
<1>3. SUFFICES Preserved
    BY <1>0 DEF FramesAreSent
<1>4. CASE UNCHANGED connVars /\ UNCHANGED node_workers
    BY <1>0, <1>1, <1>4 DEF ConnTypes, FramesAreSent, connVars
<1>5. ASSUME NEW b \in Boots, start(b) PROVE Preserved
    BY <1>0, <1>1, <1>5, HandshakeType DEF start, ConnTypes, FramesAreSent, Threads
<1>6. ASSUME NEW b \in Boots, serve(b) PROVE Preserved
    <2>1. Head(down[b]) \in sent /\ Tail(down[b]) \in Seq(sent)
        BY <1>2, <1>6, HeadAndTail DEF serve
    <2>2. down' \in [Boots -> Seq(sent')]
        BY <1>0, <1>1, <1>6, <2>1 DEF serve, FramesAreSent
    <2>3. \A outcome \in {"intact", "unknown"} :
            [type |-> "RESULT", msg |-> Head(down[b]), outcome |-> outcome] \in Wire
        BY <1>0, <2>1 DEF Wire, Frame, FrameType
    <2>4. PICK outcome \in {"intact", "unknown"} :
            up' = IF b \in Holding THEN up
                  ELSE [up EXCEPT ![b] = Append(@, [type |-> "RESULT", msg |-> Head(down[b]),
                                                    outcome |-> outcome])]
        BY <1>6 DEF serve
    <2>5. up' \in [Boots -> Seq(Wire)]
        BY <1>1, <1>2, <2>3, <2>4, LongerSeq DEF FramesAreSent
    <2>6. QED BY <1>1, <1>6, <2>2, <2>5 DEF serve, ConnTypes, FramesAreSent
<1>7. ASSUME NEW b \in Boots, crash(b) PROVE Preserved
    <2>1. \A n \in 0 .. Len(up[b]) : SubSeq(up[b], 1, n) \in Seq(Wire)
        BY <1>2, CutShort
    <2>2. up' \in [Boots -> Seq(Wire)]
        BY <1>1, <1>7, <2>1 DEF crash, FramesAreSent
    <2>3. <<>> \in Seq(sent')
        OBVIOUS
    <2>4. QED BY <1>0, <1>1, <1>7, <2>2, <2>3 DEF crash, ConnTypes, FramesAreSent
<1>8. ASSUME NEW b \in Boots, NEW type, received(b, type),
             UNCHANGED outbox, thread' \in [Boots -> Threads],
             \A x \in Boots : thread'[x] # thread[x] => thread'[x] # "replying"
      PROVE  Preserved
    <2>1. up' \in [Boots -> Seq(Wire)]
        BY <1>8, ReceivedFrame
    <2>2. QED BY <1>0, <1>1, <1>8, <2>1 DEF received, ConnTypes, FramesAreSent
<1>9. ASSUME NEW b \in Boots, hello(b) PROVE Preserved
    <2>1. /\ thread' \in [Boots -> Threads]
          /\ \A x \in Boots : thread'[x] # thread[x] => thread'[x] # "replying"
        BY <1>1, <1>9 DEF hello, ConnTypes, Threads
    <2>2. QED BY <1>8, <1>9, <2>1 DEF hello
<1>10. ASSUME NEW b \in Boots,
              register_target(b) \/ capability(b) \/ evidence(b) \/ heartbeat(b)
       PROVE  Preserved
    <2>1. thread' = thread /\ thread \in [Boots -> Threads]
        BY <1>1, <1>10 DEF register_target, capability, evidence, heartbeat, ConnTypes
    <2>2. QED BY <1>8, <1>10, <2>1 DEF register_target, capability, evidence, heartbeat
<1>11. ASSUME NEW b \in Boots, result(b) PROVE Preserved
    <2>1. /\ Head(up[b]).type = "RESULT" /\ Head(up[b]) \in Wire
          /\ up' \in [Boots -> Seq(Wire)]
        BY <1>11, ReceivedFrame DEF result, received
    <2>2. Head(up[b]).msg.dispatch \in DispatchIds
        BY <1>0, <2>1 DEF Wire, DispatchMsg
    <2>3. \A m, outcome : answer_to(m, outcome) \in Answer
        BY DEF answer_to, Answer
    <2>4. PICK reply \in Reply :
            outbox' = [outbox EXCEPT ![b] = reply]
        BY <1>11, <2>2, <2>3 DEF result, Reply
    <2>5. QED BY <1>0, <1>1, <1>11, <2>1, <2>4
          DEF result, received, ConnTypes, FramesAreSent, Threads
<1>12. ASSUME NEW b \in Boots,
              enlist(b) \/ answer(b) \/ disconnect(b) \/ detach(b) \/ close(b)
       PROVE  Preserved
    BY <1>0, <1>1, <1>12, ZenonT(30)
    DEF enlist, answer, disconnect, detach, close, resolve_disconnect, ConnTypes, FramesAreSent,
        Threads
<1>13. ASSUME NEW c \in Clients, send(c) PROVE Preserved
    <2>1. client[c].msg \in sent
        BY <1>13 DEF send, at, NodeInv, ClientsHold
    <2>2. client[c].msg.worker_boot \in Boots
        BY <1>0, <2>1 DEF DispatchMsg
    <2>3. down' \in [Boots -> Seq(sent')]
        <3>1. Append(down[client[c].msg.worker_boot], client[c].msg) \in Seq(sent)
            BY <1>2, <2>1, <2>2, LongerSeq
        <3>2. down \in [Boots -> Seq(sent)] /\ sent' = sent
            BY <1>1, <1>13 DEF send, FramesAreSent, vars
        <3>3. \/ down' = down
              \/ down' = [down EXCEPT ![client[c].msg.worker_boot] =
                               Append(@, client[c].msg)]
            BY <1>13 DEF send
        <3>4. QED BY <2>2, <3>1, <3>2, <3>3, ZenonT(30)
    <2>4. QED BY <1>0, <1>1, <1>13, <2>3 DEF send, ConnTypes, FramesAreSent
<1>14. ASSUME NEW c \in Clients, request(c) \/ dispatching(c), ~send(c)
       PROVE  UNCHANGED connVars /\ UNCHANGED node_workers
    BY <1>14 DEF request, dispatching, prepare, lookup, confirm, abandon, await, report_unsent,
                 cancel_unsent, get
<1>15. CASE define_operation \/ ask_plan \/ UNCHANGED nodeVars
    BY <1>4, <1>15 DEF define_operation, ask_plan, nodeVars
<1>16. QED
    BY <1>4, <1>5, <1>6, <1>7, <1>9, <1>10, <1>11, <1>12, <1>13, <1>14, <1>15, ZenonT(30)
    DEF NodeNext, connection

-----------------------------------------------------------------------------
(* The clients' thread-local state.                                        *)

Pc == {"idle", "reserved", "prepared", "found", "confirmed", "sending", "waiting",
       "abandoning", "unsent", "cancelling"}

Request == [pc : Pc, plan : PlanIds \cup {None}, dispatch : DispatchIds \cup {None},
            msg : DispatchMsg \cup {None}]

\* A client that moves keeps what it holds.
LEMMA MovesFacts ==
    ASSUME client \in [Clients -> Request], NEW c \in Clients, NEW pc \in Pc, moves(c, pc)
    PROVE  /\ client' \in [Clients -> Request]
           /\ \A e \in Clients : e # c => client'[e] = client[e]
           /\ client'[c].pc = pc
           /\ client'[c].plan = client[c].plan
           /\ client'[c].dispatch = client[c].dispatch
           /\ client'[c].msg = client[c].msg
<1>1. client' = [client EXCEPT ![c] = [client[c] EXCEPT !.pc = pc]]
    BY DEF moves
<1>2. client[c] \in Request
    OBVIOUS
<1>3. /\ [client[c] EXCEPT !.pc = pc] \in Request
      /\ [client[c] EXCEPT !.pc = pc].pc = pc
      /\ [client[c] EXCEPT !.pc = pc].plan = client[c].plan
      /\ [client[c] EXCEPT !.pc = pc].dispatch = client[c].dispatch
      /\ [client[c] EXCEPT !.pc = pc].msg = client[c].msg
    BY <1>2 DEF Request
<1>4. QED BY <1>1, <1>3

LEMMA ReturnsFacts ==
    ASSUME client \in [Clients -> Request], NEW c \in Clients, returns(c)
    PROVE  /\ client' \in [Clients -> Request]
           /\ \A e \in Clients : e # c => client'[e] = client[e]
           /\ client'[c].pc = "idle" /\ client'[c].dispatch = None
<1>1. idle \in Request /\ idle.pc = "idle" /\ idle.dispatch = None
    BY DEF idle, Request, Pc
<1>2. QED BY <1>1 DEF returns

\* The client gives its plan up, or holds the message it was handed.
LEMMA PrepareFacts ==
    ASSUME NodeInv, client \in [Clients -> Request], NEW c \in Clients, prepare(c)
    PROVE  /\ client' \in [Clients -> Request]
           /\ \A e \in Clients : e # c => client'[e] = client[e]
           /\ \/ client'[c].pc = "idle" /\ client'[c].dispatch = None /\ sent' = sent
              \/ /\ client'[c].pc = "prepared"
                 /\ client'[c].plan = client[c].plan
                 /\ client'[c].dispatch = client[c].dispatch
                 /\ client'[c].msg.plan = client[c].plan
                 /\ client'[c].msg.dispatch = client[c].dispatch
                 /\ sent' = sent \cup {client'[c].msg}
<1> DEFINE p == client[c].plan
           d == client[c].dispatch
           handed == [client[c] EXCEPT !.pc = "prepared", !.msg = dispatch_msg(p, d)]
<1>1. client[c] \in Request /\ p \in PlanIds /\ d \in DispatchIds
    BY DEF prepare, at, NodeInv, ClientsHold
<1>2. CASE returns(c) /\ UNCHANGED vars
    BY <1>2, ReturnsFacts DEF vars
<1>3. CASE /\ prepare_dispatch(p, d) /\ plans'[p].lifecycle = "SUPERSEDED"
           /\ client' = [client EXCEPT ![c] = idle]
    <2>1. p \in existing /\ plans[p] \in ExecutionPlan /\ plans[p].lifecycle = "RESERVED"
        BY <1>1, <1>3, Lookups DEF prepare_dispatch, in, existing, NodeInv, TypeInv
    <2>2. plans' # [plans EXCEPT ![p].dispatch = d]
        BY <1>1, <1>3, <2>1, ZenonT(30) DEF NodeInv, TypeInv, TypeOK, ExecutionPlan
    <2>3. sent' = sent
        BY <1>3, <2>2 DEF prepare_dispatch
    <2>4. QED BY <1>3, <2>3, ReturnsFacts, ZenonT(30) DEF returns
<1>4. CASE /\ prepare_dispatch(p, d) /\ plans'[p].lifecycle # "SUPERSEDED"
           /\ client' = [client EXCEPT ![c] = handed]
    <2>1. p \in existing /\ plans[p] \in ExecutionPlan
        BY <1>1, <1>4, Lookups DEF prepare_dispatch, in, existing, NodeInv, TypeInv
    <2>2. plans' # [plans EXCEPT ![p].lifecycle = "SUPERSEDED"]
        BY <1>1, <1>4, <2>1 DEF NodeInv, TypeInv, TypeOK, ExecutionPlan
    <2>3. runtime[plans[p].target] # None /\ sent' = sent \cup {dispatch_msg(p, d)}
        BY <1>4, <2>2 DEF prepare_dispatch
    <2>4. dispatch_msg(p, d) \in DispatchMsg
        BY <1>1, <2>1, <2>3, DispatchMsgType DEF NodeInv, TypeInv
    <2>5. dispatch_msg(p, d).plan = p /\ dispatch_msg(p, d).dispatch = d
        BY DEF dispatch_msg
    <2>6. /\ handed \in Request /\ handed.pc = "prepared" /\ handed.plan = p
          /\ handed.dispatch = d /\ handed.msg = dispatch_msg(p, d)
        BY <1>1, <2>4 DEF Request, Pc
    <2>7. QED BY <1>4, <2>3, <2>5, <2>6
<1>5. QED BY <1>2, <1>3, <1>4 DEF prepare

LEMMA ClientsStep ==
    NodeInv /\ [NodeNext]_nodeVars => client' \in [Clients -> Request] /\ ClientsHold'
<1> SUFFICES ASSUME NodeInv, [NodeNext]_nodeVars
             PROVE  client' \in [Clients -> Request] /\ ClientsHold'
    OBVIOUS
<1>0. sent \subseteq sent' /\ client \in [Clients -> Request] /\ ClientsHold
    BY EngineStep, SentGrows DEF NodeInv, NodeTypeOK, Request, Pc
<1>1. CASE UNCHANGED client
    BY <1>0, <1>1 DEF ClientsHold
<1>2. ASSUME NEW c \in Clients, returns(c) PROVE client' \in [Clients -> Request] /\ ClientsHold'
    BY <1>0, <1>2, ReturnsFacts DEF ClientsHold
<1>3. ASSUME NEW c \in Clients, NEW pc \in Pc, moves(c, pc),
             client[c].pc \notin {"idle", "reserved"}
      PROVE  client' \in [Clients -> Request] /\ ClientsHold'
    <2>1. /\ client' \in [Clients -> Request]
          /\ \A e \in Clients : e # c => client'[e] = client[e]
          /\ client'[c].plan = client[c].plan
          /\ client'[c].dispatch = client[c].dispatch
          /\ client'[c].msg = client[c].msg
        BY <1>0, <1>3, MovesFacts
    <2>2. QED BY <1>0, <1>3, <2>1 DEF ClientsHold
<1>4. ASSUME NEW c \in Clients, request(c) PROVE client' \in [Clients -> Request] /\ ClientsHold'
    <2>1. PICK p \in PlanIds, d \in DispatchIds :
            client' = [client EXCEPT ![c] = [pc |-> "reserved", plan |-> p, dispatch |-> d,
                                             msg |-> None]]
        BY <1>4 DEF request, existing
    <2>2. QED BY <1>0, <2>1 DEF ClientsHold, Request, Pc
<1>5. ASSUME NEW c \in Clients, prepare(c) PROVE client' \in [Clients -> Request] /\ ClientsHold'
    <2>1. client[c].pc = "reserved"
        BY <1>5 DEF prepare, at
    <2>2. QED BY <1>0, <1>5, <2>1, PrepareFacts DEF ClientsHold
<1>6. ASSUME NEW c \in Clients, dispatching(c), ~prepare(c)
      PROVE  \/ returns(c)
             \/ \E pc \in Pc : moves(c, pc) /\ client[c].pc \notin {"idle", "reserved"}
    BY <1>6 DEF dispatching, lookup, confirm, abandon, await, send, report_unsent, cancel_unsent,
                get, at, Pc
<1>7. ASSUME NEW b \in Boots, start(b) \/ serve(b) \/ crash(b) \/ connection(b)
      PROVE  UNCHANGED client
    BY <1>7 DEF start, serve, crash, connection, received, hello, enlist, register_target,
                capability, evidence, heartbeat, result, answer, disconnect, detach, close
<1>8. QED
    BY <1>1, <1>2, <1>3, <1>4, <1>5, <1>6, <1>7
    DEF NodeNext, nodeVars, define_operation, ask_plan

-----------------------------------------------------------------------------
(* Promises.                                                               *)

\* Entries may leave pending; a promise changes only when its entry leaves.
PromisesSettle ==
    \A d \in DispatchIds :
        \/ promise'[d] = promise[d] /\ pending'[d] = pending[d]
        \/ pending[d] # None /\ pending'[d] = None

\* Clients may drop their dispatch id; none comes to stand before await.
ClientsSettle ==
    \A c \in Clients :
        /\ client'[c].dispatch \in {client[c].dispatch, None}
        /\ client'[c].pc \in BeforeAwait =>
              client[c].pc \in BeforeAwait /\ client'[c].dispatch = client[c].dispatch

PromiseTypes == /\ pending \in [DispatchIds -> Boots \cup {None}]
                /\ promise \in [DispatchIds -> Answer \cup {None}]

LEMMA ResolveFacts ==
    ASSUME PromiseTypes, NEW d \in DispatchIds, NEW a \in Answer, resolve_dispatch(d, a)
    PROVE  PromiseTypes' /\ PromisesSettle
BY DEF resolve_dispatch, PromiseTypes, PromisesSettle

LEMMA DisconnectFacts ==
    ASSUME PromiseTypes, NEW b \in Boots, resolve_disconnect(b)
    PROVE  PromiseTypes' /\ PromisesSettle
<1>1. b # None
    BY PublishedTypes
<1>2. "lost" \in Answer
    BY DEF Answer
<1>3. PromiseTypes'
    BY <1>2 DEF resolve_disconnect, PromiseTypes
<1>4. QED BY <1>1, <1>3 DEF resolve_disconnect, PromisesSettle

\* Every step but a new request and the registration of its promise only settles things.
LEMMA SettlingSteps ==
    ASSUME NodeInv, [NodeNext]_nodeVars,
           \A c \in Clients : ~request(c) /\ ~await(c)
    PROVE  PromiseTypes' /\ PromisesSettle /\ ClientsSettle
<1>0. PromiseTypes /\ client \in [Clients -> Request] /\ ClientsHold /\ FramesAreSent
    BY DEF NodeInv, NodeTypeOK, PromiseTypes, Request, Pc
<1>1. ASSUME UNCHANGED <<pending, promise>> PROVE PromiseTypes' /\ PromisesSettle
    BY <1>0, <1>1 DEF PromiseTypes, PromisesSettle
<1>2. ASSUME UNCHANGED client PROVE ClientsSettle
    BY <1>2 DEF ClientsSettle
<1>3. ASSUME NEW b \in Boots, start(b) \/ serve(b) \/ crash(b) \/ connection(b)
      PROVE  UNCHANGED client
    BY <1>3 DEF start, serve, crash, connection, received, hello, enlist, register_target,
                capability, evidence, heartbeat, result, answer, disconnect, detach, close
<1>4. ASSUME NEW b \in Boots, start(b) \/ serve(b) \/ crash(b) \/ connection(b),
             ~answer(b), ~detach(b)
      PROVE  UNCHANGED <<pending, promise>>
    BY <1>4 DEF start, serve, crash, connection, received, hello, enlist, register_target,
                capability, evidence, heartbeat, result, disconnect, close
<1>5. ASSUME NEW b \in Boots, answer(b) PROVE PromiseTypes' /\ PromisesSettle
    <2>1. outbox[b] \in Reply
        BY <1>0, <1>5 DEF answer, FramesAreSent
    <2>2. QED BY <1>0, <1>5, <2>1, ResolveFacts DEF answer, Reply
<1>6. ASSUME NEW b \in Boots, detach(b) PROVE PromiseTypes' /\ PromisesSettle
    BY <1>0, <1>6, DisconnectFacts DEF detach
<1>7. ASSUME NEW c \in Clients, report_unsent(c) PROVE PromiseTypes' /\ PromisesSettle
    <2>1. client[c].dispatch \in DispatchIds /\ "send_failed" \in Answer
        BY <1>0, <1>7 DEF report_unsent, at, ClientsHold, Answer
    <2>2. QED BY <1>0, <1>7, <2>1, ResolveFacts DEF report_unsent
<1>8. ASSUME NEW c \in Clients, dispatching(c), ~report_unsent(c)
      PROVE  UNCHANGED <<pending, promise>>
    BY <1>8 DEF dispatching, prepare, lookup, confirm, abandon, send, cancel_unsent, get
<1>9. ASSUME NEW c \in Clients, dispatching(c) PROVE ClientsSettle
    <2>1. CASE returns(c)
        BY <1>0, <2>1, ReturnsFacts DEF ClientsSettle, BeforeAwait
    <2>2. ASSUME NEW pc \in Pc, moves(c, pc),
                 pc \in BeforeAwait => client[c].pc \in BeforeAwait
          PROVE  ClientsSettle
        <3>1. /\ \A e \in Clients : e # c => client'[e] = client[e]
              /\ client'[c].pc = pc
              /\ client'[c].dispatch = client[c].dispatch
            BY <1>0, <2>2, MovesFacts
        <3>2. QED BY <2>2, <3>1 DEF ClientsSettle
    <2>3. CASE prepare(c)
        <3>1. client[c].pc = "reserved"
            BY <2>3 DEF prepare, at
        <3>2. QED BY <1>0, <2>3, <3>1, PrepareFacts DEF ClientsSettle, BeforeAwait
    <2>4. CASE ~prepare(c)
        <3>1. \/ returns(c)
              \/ \E pc \in Pc : moves(c, pc) /\ (pc \in BeforeAwait => client[c].pc \in BeforeAwait)
            BY <1>9, <2>4 DEF dispatching, lookup, confirm, abandon, send, report_unsent,
                              cancel_unsent, get, at, Pc, BeforeAwait
        <3>2. QED BY <2>1, <2>2, <3>1
    <2>5. QED BY <2>3, <2>4
<1>10. CASE define_operation \/ ask_plan \/ UNCHANGED nodeVars
    BY <1>1, <1>2, <1>10 DEF define_operation, ask_plan, nodeVars
<1>11. QED
    BY <1>1, <1>2, <1>3, <1>4, <1>5, <1>6, <1>7, <1>8, <1>9, <1>10 DEF NodeNext

LEMMA SettledPromises ==
    ASSUME PromisesAreOwned, PromisesSettle, ClientsSettle, sent \subseteq sent',
           \A c \in Clients : client[c].pc \in BeforeAwait => client[c].dispatch \in DispatchIds
    PROVE  PromisesAreOwned'
<1>1. ASSUME NEW c \in Clients, NEW e \in Clients, c # e, client'[c].dispatch # None
      PROVE  client'[c].dispatch # client'[e].dispatch
    <2>1. /\ client'[c].dispatch \in {client[c].dispatch, None}
          /\ client'[e].dispatch \in {client[e].dispatch, None}
        BY Zenon DEF ClientsSettle
    <2>2. client[c].dispatch # None => client[c].dispatch # client[e].dispatch
        BY <1>1, Zenon DEF PromisesAreOwned
    <2>3. QED BY <1>1, <2>1, <2>2
<1>2. ASSUME NEW c \in Clients, client'[c].pc \in BeforeAwait
      PROVE  promise'[client'[c].dispatch] = None /\ pending'[client'[c].dispatch] = None
    <2>1. client[c].pc \in BeforeAwait /\ client'[c].dispatch = client[c].dispatch
        BY <1>2, Zenon DEF ClientsSettle
    <2>2. /\ client[c].dispatch \in DispatchIds
          /\ promise[client[c].dispatch] = None /\ pending[client[c].dispatch] = None
        BY <2>1, Zenon DEF PromisesAreOwned
    <2>3. promise'[client[c].dispatch] = None /\ pending'[client[c].dispatch] = None
        BY <2>2, Zenon DEF PromisesSettle
    <2>4. QED BY <2>1, <2>3, Zenon
<1>3. ASSUME NEW d \in DispatchIds
      PROVE  /\ promise'[d] # None => pending'[d] = None
             /\ promise'[d] # None \/ pending'[d] # None => \E m \in sent' : m.dispatch = d
    BY <1>3 DEF PromisesAreOwned, PromisesSettle
<1>4. QED BY <1>1, <1>2, <1>3 DEF PromisesAreOwned

\* A request draws an id under which nothing was ever filed.
LEMMA RequestStep ==
    ASSUME NodeInv, sent \subseteq sent', NEW c \in Clients, request(c)
    PROVE  PromiseTypes' /\ PromisesSettle /\ PromisesAreOwned'
<1>0. /\ PromiseTypes /\ PromisesAreOwned /\ client \in [Clients -> Request]
      /\ pending' = pending /\ promise' = promise
    BY DEF NodeInv, NodeTypeOK, PromiseTypes, Request, Pc, request
<1>1. PICK p \in existing, d \in DispatchIds :
        /\ fresh(d)
        /\ client' = [client EXCEPT ![c] = [pc |-> "reserved", plan |-> p, dispatch |-> d,
                                            msg |-> None]]
    BY DEF request
<1>2. promise[d] = None /\ pending[d] = None
    BY <1>0, <1>1, ZenonT(30) DEF fresh, PromisesAreOwned
<1>3. /\ client'[c].dispatch = d
      /\ \A e \in Clients : e # c => client'[e] = client[e] /\ client[e].dispatch # d
    BY <1>0, <1>1 DEF fresh
<1>4. PromisesAreOwned'
    <2>1. \A e, f \in Clients :
            e # f /\ client'[e].dispatch # None => client'[e].dispatch # client'[f].dispatch
        <3> SUFFICES ASSUME NEW e \in Clients, NEW f \in Clients, e # f,
                            client'[e].dispatch # None
                     PROVE  client'[e].dispatch # client'[f].dispatch
            BY Zenon
        <3>1. CASE e # c /\ f # c
            <4>1. client'[e] = client[e] /\ client'[f] = client[f]
                BY <1>3, <3>1, Zenon
            <4>2. client[e].dispatch # None => client[e].dispatch # client[f].dispatch
                BY <1>0, Zenon DEF PromisesAreOwned
            <4>3. QED BY <4>1, <4>2, Zenon
        <3>2. CASE e = c \/ f = c
            BY <1>3, <3>2, Zenon
        <3>3. QED BY <3>1, <3>2, Zenon
    <2>2. \A e \in Clients : client'[e].pc \in BeforeAwait =>
            promise'[client'[e].dispatch] = None /\ pending'[client'[e].dispatch] = None
        BY <1>0, <1>2, <1>3 DEF PromisesAreOwned
    <2>3. QED BY <1>0, <2>1, <2>2 DEF PromisesAreOwned
<1>5. QED BY <1>0, <1>4 DEF PromiseTypes, PromisesSettle

\* The promise is registered under an id that has none yet.
LEMMA AwaitStep ==
    ASSUME NodeInv, NEW c \in Clients, await(c)
    PROVE  /\ PromiseTypes' /\ PromisesAreOwned'
           /\ \A d \in DispatchIds : promise[d] # None =>
                 pending'[d] = None /\ promise'[d] = promise[d]
<1> DEFINE d == client[c].dispatch
           m == client[c].msg
<1>0. /\ PromiseTypes /\ PromisesAreOwned /\ client \in [Clients -> Request] /\ ClientsHold
      /\ sent \subseteq DispatchMsg /\ sent' = sent /\ promise' = promise
      /\ client[c].pc = "confirmed" /\ pending' = [pending EXCEPT ![d] = m.worker_boot]
      /\ moves(c, "sending") /\ "sending" \in Pc
    BY DEF NodeInv, NodeTypeOK, TypeInv, TypeOK, PromiseTypes, Request, Pc, await, at, vars
<1>1. /\ d \in DispatchIds /\ m \in sent /\ m.dispatch = d /\ m.worker_boot \in Boots
      /\ promise[d] = None
    BY <1>0 DEF ClientsHold, PromisesAreOwned, BeforeAwait, DispatchMsg
<1>2. /\ \A e \in Clients : e # c => client'[e] = client[e]
      /\ client'[c].pc = "sending" /\ client'[c].dispatch = d
    BY <1>0, MovesFacts
<1>3. \A e \in Clients : e # c => client[e].dispatch # d
    <2>1. d # None
        BY <1>1, NoneIsNoEntry
    <2>2. QED BY <1>0, <2>1, ZenonT(30) DEF PromisesAreOwned
<1>4. PromisesAreOwned'
    <2>1. \A e, f \in Clients :
            e # f /\ client'[e].dispatch # None => client'[e].dispatch # client'[f].dispatch
        <3> SUFFICES ASSUME NEW e \in Clients, NEW f \in Clients, e # f,
                            client'[e].dispatch # None
                     PROVE  client'[e].dispatch # client'[f].dispatch
            BY Zenon
        <3>1. client'[e].dispatch = client[e].dispatch /\ client'[f].dispatch = client[f].dispatch
            BY <1>2, Zenon
        <3>2. client[e].dispatch # None => client[e].dispatch # client[f].dispatch
            BY <1>0, Zenon DEF PromisesAreOwned
        <3>3. QED BY <3>1, <3>2, Zenon
    <2>2. \A e \in Clients : client'[e].pc \in BeforeAwait =>
            promise'[client'[e].dispatch] = None /\ pending'[client'[e].dispatch] = None
        <3> SUFFICES ASSUME NEW e \in Clients, client'[e].pc \in BeforeAwait
                     PROVE  /\ promise'[client'[e].dispatch] = None
                            /\ pending'[client'[e].dispatch] = None
            BY Zenon
        <3>1. e # c
            BY <1>2 DEF BeforeAwait
        <3>2. client'[e] = client[e] /\ client[e].dispatch # d
            BY <1>2, <1>3, <3>1, Zenon
        <3>3. promise[client[e].dispatch] = None /\ pending[client[e].dispatch] = None
            BY <1>0, <3>2, Zenon DEF PromisesAreOwned
        <3>4. client[e].dispatch \in DOMAIN pending
            BY <1>0, <3>2 DEF ClientsHold, BeforeAwait, PromiseTypes
        <3>5. pending'[client[e].dispatch] = pending[client[e].dispatch]
            BY <1>0, <3>2, <3>4, Zenon
        <3>6. QED BY <1>0, <3>2, <3>3, <3>5, Zenon
    <2>3. ASSUME NEW x \in DispatchIds
          PROVE  /\ promise'[x] # None => pending'[x] = None
                 /\ promise'[x] # None \/ pending'[x] # None => \E n \in sent' : n.dispatch = x
        BY <1>0, <1>1 DEF PromisesAreOwned, PromiseTypes
    <2>4. QED BY <2>1, <2>2, <2>3, ZenonT(30) DEF PromisesAreOwned
<1>5. QED BY <1>0, <1>1, <1>4 DEF PromiseTypes, PromisesAreOwned

LEMMA PromisesStep ==
    NodeInv /\ [NodeNext]_nodeVars =>
        /\ PromiseTypes' /\ PromisesAreOwned'
        /\ \A d \in DispatchIds : promise[d] # None =>
              pending'[d] = None /\ promise'[d] = promise[d]
<1> SUFFICES ASSUME NodeInv, [NodeNext]_nodeVars
             PROVE  /\ PromiseTypes' /\ PromisesAreOwned'
                    /\ \A d \in DispatchIds : promise[d] # None =>
                          pending'[d] = None /\ promise'[d] = promise[d]
    OBVIOUS
<1>0. sent \subseteq sent'
    BY EngineStep, SentGrows
<1>1. PromisesSettle => \A d \in DispatchIds : promise[d] # None =>
        pending'[d] = None /\ promise'[d] = promise[d]
    BY DEF PromisesSettle, NodeInv, PromisesAreOwned
<1>2. ASSUME NEW c \in Clients, request(c)
      PROVE  PromiseTypes' /\ PromisesSettle /\ PromisesAreOwned'
    BY <1>0, <1>2, RequestStep
<1>3. CASE \A c \in Clients : ~request(c) /\ ~await(c)
    <2>1. \A c \in Clients : client[c].pc \in BeforeAwait => client[c].dispatch \in DispatchIds
        BY DEF NodeInv, ClientsHold, BeforeAwait
    <2>2. QED BY <1>0, <1>1, <1>3, <2>1, SettlingSteps, SettledPromises DEF NodeInv
<1>4. QED BY <1>1, <1>2, <1>3, AwaitStep

-----------------------------------------------------------------------------
(* What one step does to a client thread, a promise and a reply.           *)

\* The id a client holds is its own.
LEMMA OwnDispatch ==
    ASSUME NodeInv, NEW c \in Clients, NEW e \in Clients, client[c].dispatch \in DispatchIds,
           client[e].dispatch = client[c].dispatch
    PROVE  c = e
<1>1. client[c].dispatch # None
    BY NoneIsNoEntry
<1>2. QED BY <1>1 DEF NodeInv, PromisesAreOwned

\* What client c must have done to move on to pc.
Onward(c, pc) ==
    /\ pc = "found" => client[c].msg.worker_boot \in node_workers
    /\ pc = "confirmed" => /\ client[c].pc = "found"
                           /\ confirm_dispatched(client[c].plan, client[c].dispatch)
    /\ pc = "sending" => await(c)
    /\ pc = "waiting" => send(c) \/ client[c].pc = "cancelling"
    /\ pc = "unsent" => client[c].pc = "sending" /\ process[client[c].msg.worker_boot] = "dead"
    /\ pc = "cancelling" => client[c].pc = "unsent"

\* What one step does to a client thread: nothing, an end, a new request under an unused id, the
\* hand-out, or a move on, each with what it must have done for it.
ClientMove(c) ==
    \/ client'[c] = client[c]
    \/ client'[c].pc = "idle" /\ client'[c].dispatch = None
    \/ /\ client'[c].pc = "reserved" /\ client'[c].dispatch \in DispatchIds
       /\ fresh(client'[c].dispatch)
       /\ sent' = sent
    \/ /\ client[c].pc = "reserved" /\ client'[c].pc = "prepared"
       /\ client'[c].dispatch = client[c].dispatch
       /\ client'[c].msg.plan = client'[c].plan
    \/ /\ client[c].pc \notin {"idle", "reserved", "waiting"}
       /\ client'[c].pc \notin {"idle", "reserved"}
       /\ client'[c].plan = client[c].plan /\ client'[c].dispatch = client[c].dispatch
       /\ client'[c].msg = client[c].msg
       /\ Onward(c, client'[c].pc)

LEMMA ClientMoves ==
    ASSUME NodeInv, [NodeNext]_nodeVars, NEW c \in Clients
    PROVE  ClientMove(c)
<1>0. client \in [Clients -> Request] /\ ClientsHold
    BY DEF NodeInv, NodeTypeOK, Request, Pc
<1>1. CASE client'[c] = client[c]
    BY <1>1 DEF ClientMove
<1>2. ASSUME NEW e \in Clients, request(e) PROVE ClientMove(c)
    <2>1. PICK p \in existing, d \in DispatchIds :
            /\ fresh(d) /\ reserve(p)
            /\ client' = [client EXCEPT ![e] = [pc |-> "reserved", plan |-> p, dispatch |-> d,
                                                msg |-> None]]
        BY <1>2, Zenon DEF request
    <2>2. sent' = sent
        BY <2>1 DEF reserve
    <2>3. e # c => client'[c] = client[c]
        BY <1>0, <2>1
    <2>4. e = c => client'[c].pc = "reserved" /\ client'[c].dispatch = d
        BY <1>0, <2>1
    <2>5. QED BY <2>1, <2>2, <2>3, <2>4 DEF ClientMove
<1>3. ASSUME NEW e \in Clients, returns(e) PROVE ClientMove(c)
    BY <1>0, <1>3, ReturnsFacts DEF ClientMove
<1>4. ASSUME NEW e \in Clients, prepare(e) PROVE ClientMove(c)
    BY <1>0, <1>4, PrepareFacts, ZenonT(30) DEF ClientMove, prepare, at
<1>5. ASSUME NEW e \in Clients, NEW pc \in Pc, moves(e, pc),
             client[e].pc \notin {"idle", "reserved", "waiting"}, pc \notin {"idle", "reserved"},
             Onward(e, pc)
      PROVE  ClientMove(c)
    <2>1. /\ e # c => client'[c] = client[c]
          /\ client'[e].pc = pc
          /\ client'[e].plan = client[e].plan
          /\ client'[e].dispatch = client[e].dispatch
          /\ client'[e].msg = client[e].msg
        BY <1>0, <1>5, MovesFacts
    <2>2. QED BY <1>5, <2>1 DEF ClientMove
<1>6. ASSUME NEW e \in Clients, dispatching(e), ~prepare(e)
      PROVE  \/ returns(e)
             \/ \E pc \in Pc :
                    /\ moves(e, pc) /\ client[e].pc \notin {"idle", "reserved", "waiting"}
                    /\ pc \notin {"idle", "reserved"}
                    /\ Onward(e, pc)
    <2>1. CASE lookup(e)
        BY <2>1 DEF lookup, at, Pc, Onward
    <2>2. CASE confirm(e)
        BY <2>2 DEF confirm, at, Pc, Onward
    <2>3. CASE abandon(e) \/ get(e)
        BY <2>3, Zenon DEF abandon, get
    <2>4. CASE await(e)
        <3>1. moves(e, "sending") /\ client[e].pc = "confirmed"
            BY <2>4, Zenon DEF await, at
        <3>2. QED BY <2>4, <3>1 DEF Pc, Onward
    <2>5. CASE send(e)
        <3>1. /\ client[e].pc = "sending"
              /\ \/ moves(e, "waiting")
                 \/ moves(e, "unsent") /\ process[client[e].msg.worker_boot] = "dead"
            BY <2>5, Zenon DEF send, at
        <3>2. QED BY <2>5, <3>1 DEF Pc, Onward
    <2>6. CASE report_unsent(e)
        <3>1. moves(e, "cancelling") /\ client[e].pc = "unsent"
            BY <2>6, Zenon DEF report_unsent, at
        <3>2. QED BY <3>1 DEF Pc, Onward
    <2>7. CASE cancel_unsent(e)
        <3>1. moves(e, "waiting") /\ client[e].pc = "cancelling"
            BY <2>7, Zenon DEF cancel_unsent, at
        <3>2. QED BY <3>1 DEF Pc, Onward
    <2>8. QED BY <1>6, <2>1, <2>2, <2>3, <2>4, <2>5, <2>6, <2>7, Zenon DEF dispatching
<1>7. ASSUME NEW b \in Boots, start(b) \/ serve(b) \/ crash(b) \/ connection(b)
      PROVE  UNCHANGED client
    BY <1>7, Zenon DEF start, serve, crash, connection, received, hello, enlist, register_target,
                capability, evidence, heartbeat, result, answer, disconnect, detach, close
<1>8. QED
    BY <1>1, <1>2, <1>3, <1>4, <1>5, <1>6, <1>7, ZenonT(30)
    DEF NodeNext, nodeVars, define_operation, ask_plan

\* What one step does to the entry and the promise of dispatch d.
Fulfils(d) ==
    \/ \E b \in Boots : answer(b) /\ outbox[b].dispatch = d /\ promise'[d] = outbox[b].answer
    \/ pending[d] \in Boots /\ detach(pending[d]) /\ promise'[d] = "lost"
    \/ \E c \in Clients :
          report_unsent(c) /\ client[c].dispatch = d /\ promise'[d] = "send_failed"

PromiseMove(d) ==
    \/ pending'[d] = pending[d] /\ promise'[d] = promise[d]
    \/ \E c \in Clients : /\ await(c) /\ client[c].dispatch = d
                          /\ pending'[d] = client[c].msg.worker_boot /\ promise'[d] = promise[d]
    \/ pending[d] # None /\ pending'[d] = None /\ Fulfils(d)

LEMMA PromiseMoves ==
    ASSUME NodeInv, [NodeNext]_nodeVars, NEW d \in DispatchIds
    PROVE  PromiseMove(d)
<1>0. /\ pending \in [DispatchIds -> Boots \cup {None}]
      /\ promise \in [DispatchIds -> Answer \cup {None}]
    BY DEF NodeInv, NodeTypeOK
<1>1. CASE UNCHANGED <<pending, promise>>
    BY <1>1 DEF PromiseMove
<1>2. ASSUME NEW b \in Boots, answer(b) PROVE PromiseMove(d)
    BY <1>0, <1>2, Zenon DEF answer, resolve_dispatch, PromiseMove, Fulfils
<1>3. ASSUME NEW b \in Boots, detach(b) PROVE PromiseMove(d)
    <2>1. pending[d] = b => pending'[d] = None /\ promise'[d] = "lost"
        BY <1>3 DEF detach, resolve_disconnect
    <2>2. pending[d] # b => pending'[d] = pending[d] /\ promise'[d] = promise[d]
        BY <1>3 DEF detach, resolve_disconnect
    <2>3. b # None
        BY PublishedTypes
    <2>4. QED BY <1>3, <2>1, <2>2, <2>3 DEF PromiseMove, Fulfils
<1>4. ASSUME NEW c \in Clients, report_unsent(c) PROVE PromiseMove(d)
    BY <1>0, <1>4, ZenonT(30) DEF report_unsent, resolve_dispatch, PromiseMove, Fulfils
<1>5. ASSUME NEW c \in Clients, await(c) PROVE PromiseMove(d)
    <2>1. client[c].dispatch \in DispatchIds
        BY <1>5 DEF await, at, NodeInv, ClientsHold
    <2>2. promise' = promise /\ pending' = [pending EXCEPT ![client[c].dispatch] =
                                                client[c].msg.worker_boot]
        BY <1>5 DEF await
    <2>3. QED BY <1>0, <1>5, <2>1, <2>2 DEF PromiseMove
<1>6. ASSUME NEW b \in Boots, start(b) \/ serve(b) \/ crash(b) \/ connection(b),
             ~answer(b), ~detach(b)
      PROVE  UNCHANGED <<pending, promise>>
    BY <1>6 DEF start, serve, crash, connection, received, hello, enlist, register_target,
                capability, evidence, heartbeat, result, disconnect, close
<1>7. ASSUME NEW c \in Clients, request(c) \/ dispatching(c), ~report_unsent(c), ~await(c)
      PROVE  UNCHANGED <<pending, promise>>
    BY <1>7, Zenon DEF request, dispatching, prepare, lookup, confirm, abandon, send, cancel_unsent, get
<1>8. CASE define_operation \/ ask_plan \/ UNCHANGED nodeVars
    BY <1>1, <1>8 DEF define_operation, ask_plan, nodeVars
<1>9. QED BY <1>1, <1>2, <1>3, <1>4, <1>5, <1>6, <1>7, <1>8 DEF NodeNext

\* The coordinator has no thread for a worker that has not connected.
ThreadsAreStarted == \A b \in Boots : process[b] = "unborn" => thread[b] = "none"

LEMMA StartedStep ==
    ASSUME NodeInv, ThreadsAreStarted, [NodeNext]_nodeVars
    PROVE  ThreadsAreStarted'
<1>0. /\ thread \in [Boots -> Threads]
      /\ process \in [Boots -> {"unborn", "running", "dead"}]
    BY DEF NodeInv, NodeTypeOK, Threads
<1>1. CASE UNCHANGED <<thread, process>>
    BY <1>1 DEF ThreadsAreStarted
<1>2. ASSUME NEW b \in Boots, start(b) \/ crash(b) PROVE ThreadsAreStarted'
    BY <1>0, <1>2 DEF ThreadsAreStarted, start, crash
<1>3. ASSUME NEW b \in Boots, serve(b) PROVE UNCHANGED <<thread, process>>
    BY <1>3 DEF serve
<1>4. ASSUME NEW b \in Boots, connection(b) PROVE ThreadsAreStarted'
    <2>1. thread[b] # "none" /\ process' = process
          /\ \A x \in Boots : x # b => thread'[x] = thread[x]
        BY <1>0, <1>4 DEF connection, received, hello, enlist, register_target, capability,
              evidence, heartbeat, result, answer, disconnect, detach, close
    <2>2. QED BY <2>1 DEF ThreadsAreStarted
<1>5. ASSUME NEW c \in Clients, request(c) \/ dispatching(c) PROVE UNCHANGED <<thread, process>>
    BY <1>5, Zenon DEF request, dispatching, prepare, lookup, confirm, abandon, await, send,
                report_unsent, cancel_unsent, get, connVars
<1>6. CASE define_operation \/ ask_plan \/ UNCHANGED nodeVars
    BY <1>1, <1>6 DEF define_operation, ask_plan, nodeVars, connVars
<1>7. QED BY <1>1, <1>2, <1>3, <1>4, <1>5, <1>6 DEF NodeNext

\* A connection thread about to reply has handled a RESULT, and replies before anything else.
LEMMA ReplyMoves ==
    ASSUME NodeInv, ThreadsAreStarted, [NodeNext]_nodeVars, NEW b \in Boots
    PROVE  /\ thread'[b] = "replying" =>
                result(b) \/ (thread[b] = "replying" /\ outbox'[b] = outbox[b])
           /\ thread[b] = "replying" =>
                answer(b) \/ (thread'[b] = "replying" /\ outbox'[b] = outbox[b])
<1>0. /\ thread \in [Boots -> Threads] /\ DOMAIN outbox = Boots
    BY DEF NodeInv, NodeTypeOK, Threads
<1> DEFINE Same == thread'[b] = thread[b] /\ outbox'[b] = outbox[b]
           Goal == /\ thread'[b] = "replying" =>
                        result(b) \/ (thread[b] = "replying" /\ outbox'[b] = outbox[b])
                   /\ thread[b] = "replying" =>
                        answer(b) \/ (thread'[b] = "replying" /\ outbox'[b] = outbox[b])
<1>1. CASE Same
    BY <1>1
<1>2. ASSUME NEW x \in Boots, x # b, start(x) \/ serve(x) \/ crash(x) \/ connection(x) PROVE Same
    BY <1>0, <1>2, ZenonT(30) DEF start, serve, crash, connection, received, hello, enlist, register_target,
                capability, evidence, heartbeat, result, answer, disconnect, detach, close
<1>3. CASE serve(b) \/ crash(b) \/ register_target(b) \/ capability(b) \/ evidence(b)
           \/ heartbeat(b)
    BY <1>1, <1>3 DEF serve, crash, register_target, capability, evidence, heartbeat
<1>4. CASE start(b)
    <2>1. thread'[b] = "recv" /\ outbox' = outbox
        BY <1>0, <1>4 DEF start
    <2>2. thread[b] # "replying"
        BY <1>4 DEF start, ThreadsAreStarted
    <2>3. QED BY <2>1, <2>2
<1>5. CASE hello(b) \/ enlist(b) \/ disconnect(b) \/ detach(b) \/ close(b)
    BY <1>0, <1>5, ZenonT(30) DEF hello, received, enlist, disconnect, detach, close
<1>6. CASE result(b)
    BY <1>0, <1>6, ZenonT(30) DEF result, received
<1>7. CASE answer(b)
    BY <1>0, <1>7 DEF answer
<1>8. ASSUME NEW c \in Clients, request(c) \/ dispatching(c) PROVE Same
    BY <1>8, Zenon DEF request, dispatching, prepare, lookup, confirm, abandon, await, send,
                report_unsent, cancel_unsent, get, connVars
<1>9. CASE define_operation \/ ask_plan \/ UNCHANGED nodeVars
    BY <1>1, <1>9, ZenonT(30) DEF define_operation, ask_plan, nodeVars, connVars
<1>10. QED
    BY <1>1, <1>2, <1>3, <1>4, <1>5, <1>6, <1>7, <1>8, <1>9, ZenonT(30) DEF NodeNext, connection

\* Worker process b has said HELLO.
greeted(b) == workers[WorkerOf[b]] # None

\* A worker is never forgotten.
LEMMA GreetedStays ==
    ASSUME TypeInv, [Next]_vars, NEW b \in Boots, greeted(b)
    PROVE  greeted(b)'
<1>1. WorkerOf[b] \in Workers /\ workers \in [Workers -> [boot : Boots, connected : BOOLEAN] \cup {None}]
    BY PublishedTypes DEF TypeInv, TypeOK
<1>2. ASSUME NEW x \in Boots, on_worker_disconnected(x) PROVE greeted(b)'
    <2>1. workers[WorkerOf[b]] \in [boot : Boots, connected : BOOLEAN]
        BY <1>1 DEF greeted
    <2>2. [workers[WorkerOf[b]] EXCEPT !.connected = FALSE] \in [boot : Boots, connected : BOOLEAN]
        BY <2>1, Zenon
    <2>3. workers'[WorkerOf[b]] # None
        BY <1>1, <1>2, <2>2, PublishedTypes, Zenon DEF on_worker_disconnected, greeted
    <2>4. QED BY <2>3 DEF greeted
<1>3. ASSUME NEW w \in Workers, NEW x \in Boots, bind_worker_session(w, x) PROVE greeted(b)'
    <2>1. [boot |-> x, connected |-> TRUE] \in [boot : Boots, connected : BOOLEAN]
        OBVIOUS
    <2>2. workers'[WorkerOf[b]] # None
        BY <1>1, <1>3, <2>1, PublishedTypes, Zenon DEF bind_worker_session, greeted
    <2>3. QED BY <2>2 DEF greeted
<1>4. CASE workers' = workers
    BY <1>4 DEF greeted
<1>5. QED
    BY <1>2, <1>3, <1>4, ZenonT(30)
    DEF Next, vars, catalogVars, evidenceVars, planVars, advance_epoch, register,
        create_operation, apply_register_target, apply_capability, apply_data_evidence,
        apply_heartbeat, plan, reserve, prepare_dispatch, confirm_dispatched, apply_result,
        begin_drain, cancel_plan, fence_worker, retire_target

-----------------------------------------------------------------------------
(* The theorems.                                                           *)

LEMMA NodeInvInit == NodeInit => NodeInv
<1> SUFFICES ASSUME NodeInit PROVE NodeInv
    OBVIOUS
<1>1. TypeInv
    BY TypeInvInit DEF NodeInit
<1>2. /\ idle.pc = "idle" /\ idle.dispatch = None
      /\ idle \in Request /\ client = [c \in Clients |-> idle]
    BY DEF idle, Request, Pc, NodeInit
<1>3. NodeTypeOK
    <2>1. client \in [Clients -> Request]
        BY <1>2
    <2>2. <<>> \in Seq(Frame) /\ <<>> \in Seq(DispatchMsg)
        OBVIOUS
    <2>3. QED BY <2>1, <2>2 DEF NodeTypeOK, NodeInit, Request, Pc
<1>4. FramesAreSent
    <2>1. <<>> \in Seq(Wire) /\ <<>> \in Seq(sent)
        OBVIOUS
    <2>2. QED BY <2>1 DEF FramesAreSent, NodeInit
<1>5. ClientsHold
    BY <1>2 DEF ClientsHold
<1>6. PromisesAreOwned
    BY <1>2 DEF PromisesAreOwned, BeforeAwait, NodeInit
<1>7. QED BY <1>1, <1>3, <1>4, <1>5, <1>6 DEF NodeInv

LEMMA NodeInvNext == NodeInv /\ [NodeNext]_nodeVars => NodeInv'
<1> SUFFICES ASSUME NodeInv, [NodeNext]_nodeVars PROVE NodeInv'
    OBVIOUS
<1>1. TypeInv'
    BY EngineStep, TypeInvNext DEF NodeInv
<1>2. /\ ConnTypes' /\ FramesAreSent' /\ client' \in [Clients -> Request] /\ ClientsHold'
      /\ PromiseTypes' /\ PromisesAreOwned'
    BY ConnStep, ClientsStep, PromisesStep
<1>3. NodeTypeOK'
    <2>1. Wire' \subseteq Frame /\ sent' \subseteq DispatchMsg
        BY <1>1 DEF Wire, TypeInv, TypeOK
    <2>2. Seq(Wire') \subseteq Seq(Frame) /\ Seq(sent') \subseteq Seq(DispatchMsg)
        BY <2>1, SeqGrows
    <2>3. up' \in [Boots -> Seq(Frame)] /\ down' \in [Boots -> Seq(DispatchMsg)]
        BY <1>2, <2>2, ZenonT(30) DEF FramesAreSent
    <2>4. QED BY <1>2, <2>3
          DEF NodeTypeOK, ConnTypes, PromiseTypes, Request, Reply, Pc, Threads
<1>4. QED BY <1>1, <1>2, <1>3 DEF NodeInv

LEMMA NodeInvariant == NodeSpec => []NodeInv
BY NodeInvInit, NodeInvNext, PTL DEF NodeSpec

\* The maps the connection threads share keep their shape in every interleaving.
THEOREM NodeTypeCorrect == NodeSpec => []NodeTypeOK
<1>1. NodeInv => NodeTypeOK
    BY DEF NodeInv
<1>2. QED BY <1>1, NodeInvariant, PTL

\* No promise is fulfilled twice: RESULT, resolve_disconnect and a failed send each find the
\* entry gone once another of them has answered, and CLIENT_DISPATCH never registers it again.
THEOREM PromisesFulfilledOnce == NodeSpec => FulfilledOnce
<1>1. NodeInv /\ [NodeNext]_nodeVars =>
        [\A d \in DispatchIds : promise[d] # None =>
            pending'[d] = None /\ promise'[d] = promise[d]]_nodeVars
    BY PromisesStep
<1>2. QED BY <1>1, NodeInvariant, PTL DEF NodeSpec, FulfilledOnce

\* The processes implement the control plane: with a mutex of its own, one thread per
\* connection and workers that die at any moment, nmc_coordinator drives the engine only
\* through behaviours of Coordinator.
THEOREM NodeImplementsCoordinator == NodeSpec => Spec
<1>1. NodeInit => Init
    BY DEF NodeInit
<1>2. QED BY <1>1, EngineStep, NodeInvariant, PTL DEF NodeSpec, Spec

\* So a plan whose authority was withdrawn never commits in the running system either,
\* whatever late RESULT frames arrive from a worker whose connection was lost.
THEOREM NoLateCommit == NodeSpec => []RevokedNeverCommits
BY NodeImplementsCoordinator, WithdrawalIsFinal, PTL

\* And the running system implements ExecutionAuthority: its threads, its workers and their
\* connections decide an execution at most once, and only under the grant it is held by.
THEOREM NodeImplementsAuthority == NodeSpec => ActsAsAuthority
BY NodeImplementsCoordinator, CoordinatorImplementsAuthority, PTL
=============================================================================
