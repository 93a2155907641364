----------------------------- MODULE AnswerProofs -----------------------------
(***************************************************************************)
(* What a client is told of its dispatch is true.  The proof follows a     *)
(* message through client threads, connections, worker processes and       *)
(* connection threads.                                                     *)
(***************************************************************************)
EXTENDS LossProofs

\* Time limits of the provers, in seconds.
USE ZenonT(4), SMTT(30), ZenonT(30), SMTT(90)

-----------------------------------------------------------------------------
(* What a client is told.                                                  *)

\* A dispatch id is handed out once, to the client that drew it.
DispatchedOnce ==
    /\ \A m, n \in sent : m.dispatch = n.dispatch => m = n
    /\ \A c \in Clients :
          /\ client[c].pc = "reserved" => \A m \in sent : m.dispatch # client[c].dispatch
          /\ client[c].pc \notin {"idle", "reserved"} => client[c].msg.plan = client[c].plan

\* The plan of m is in flight under the dispatch id of m, or can no longer complete.
Confirmed(m) ==
    \/ plans[m.plan].lifecycle \notin Live
    \/ plans[m.plan].lifecycle \in InFlight /\ plans[m.plan].dispatch = m.dispatch

\* The messages that a client has put on the connection to b: their plan was confirmed, their
\* promise registered and not answered by a failed send, and their client, if still there, waits.
PostedTo(b) ==
    {m \in sent :
        /\ m.worker_boot = b
        /\ Confirmed(m)
        /\ pending[m.dispatch] = b \/ promise[m.dispatch] # None
        /\ promise[m.dispatch] # "send_failed"
        /\ \A c \in Clients : client[c].dispatch = m.dispatch => client[c].pc = "waiting"}

FrameOf(b) == {f \in Frame : f.type = "RESULT" => f.msg \in PostedTo(b)}

FramesArePosted ==
    \A b \in Boots : down[b] \in Seq(PostedTo(b)) /\ up[b] \in Seq(FrameOf(b))

\* A client confirms before it registers its promise, and registers it before it sends.
ClientsConfirm ==
    \A c \in Clients :
        /\ client[c].pc \in {"confirmed", "sending"} => Confirmed(client[c].msg)
        /\ client[c].pc = "sending" =>
              /\ promise[client[c].dispatch] # "send_failed"
              /\ \/ promise[client[c].dispatch] # None
                 \/ pending[client[c].dispatch] = client[c].msg.worker_boot

committed_under(d) ==
    \E i \in DOMAIN results : results[i].committed /\ results[i].authority.dispatch = d

\* The plan handed out under d can no longer complete.
settled(d) == \E m \in sent : m.dispatch = d /\ plans[m.plan].lifecycle \notin Live

\* A connection thread about to reply has a settled plan in hand, and a commit if it says so.
RepliesAreTrue ==
    \A b \in Boots : thread[b] = "replying" =>
        /\ \E m \in PostedTo(b) : m.dispatch = outbox[b].dispatch
        /\ settled(outbox[b].dispatch)
        /\ outbox[b].answer # "send_failed"
        /\ outbox[b].answer = "committed" => committed_under(outbox[b].dispatch)

\* An open promise waits for the worker its dispatch was for.  A promise that was answered, other
\* than by a failed send, is of a settled plan.  A commit has been answered, or is about to be by
\* the thread that its promise waits for.
PromisesAreTrue ==
    \A d \in DispatchIds :
        /\ pending[d] # None => \E m \in sent : m.dispatch = d /\ m.worker_boot = pending[d]
        /\ promise[d] \notin {None, "send_failed"} => settled(d)
        /\ promise[d] = "committed" => committed_under(d)
        /\ committed_under(d) =>
              \/ promise[d] = "committed"
              \/ \E b \in Boots : /\ thread[b] = "replying" /\ pending[d] = b
                                  /\ outbox[b] = [dispatch |-> d, answer |-> "committed"]

AnswerInv ==
    /\ ThreadsAreStarted /\ DispatchedOnce /\ FramesArePosted /\ ClientsConfirm
    /\ RepliesAreTrue /\ PromisesAreTrue

\* A message repeats what its plan pinned.
LEMMA PinnedFields ==
    ASSUME NEW m \in sent, m = pinned_msg(m.plan, m.dispatch)
    PROVE  /\ m.epoch = plans[m.plan].snapshot.epoch /\ m.target = plans[m.plan].target
           /\ m.target_gen = plans[m.plan].snapshot.target_generation
           /\ validate_completion(m, plans[m.plan].snapshot)
<1>1. PICK p, d : p = m.plan /\ d = m.dispatch
    BY Zenon
<1>2. m = pinned_msg(p, d)
    BY <1>1, Zenon
<1>3. /\ m.epoch = plans[p].snapshot.epoch /\ m.target = plans[p].target
      /\ m.target_gen = plans[p].snapshot.target_generation
      /\ validate_completion(m, plans[p].snapshot)
    BY <1>2, ZenonT(30) DEF pinned_msg, validate_completion
<1>4. QED BY <1>1, <1>3, Zenon

\* A completion from the last hand-out of a plan in flight is accepted: its worker is the one
\* that owns the target, and neither the epoch nor what the worker published has changed.
LEMMA InFlightIsAccepted ==
    ASSUME NodeInv, SafetyInv, TargetsAreOwned, NEW m \in sent,
           plans[m.plan].lifecycle \in InFlight, plans[m.plan].dispatch = m.dispatch
    PROVE  accepted(m)
<1> DEFINE p == m.plan
           t == m.target
           b == m.worker_boot
<1>1. /\ p \in existing /\ m = pinned_msg(p, m.dispatch) /\ b = plans[p].snapshot.worker_boot
    BY SentToGreeted
<1>2. /\ m.epoch = plans[p].snapshot.epoch /\ t = plans[p].target
      /\ m.target_gen = plans[p].snapshot.target_generation
      /\ validate_completion(m, plans[p].snapshot)
    BY <1>1, PinnedFields, Zenon
<1>3. m.epoch = epoch
    BY <1>1, <1>2 DEF SafetyInv, LivePlansAreOfThisEpoch, Live
<1>4. t \in Targets /\ b \in Boots
    BY DEF SafetyInv, TypeInv, TypeOK, DispatchMsg
<1>5. Published[b].register.target = t /\ Published[b].register.def.generation = m.target_gen
    BY <1>1, <1>2, ZenonT(30) DEF TargetsAreOwned
<1>6. targets[t] # None \/ runtime[t] # None =>
        runtime[t].owner_boot = b /\ targets[t] = Published[b].register.def
    <2>1. runtime[t] # None => runtime[t].owner_boot \in Boots
        BY <1>4 DEF SafetyInv, TypeInv, TypeOK, TargetRuntime
    <2>2. targets[t] # None \/ runtime[t] # None =>
            /\ runtime[t] # None /\ Published[runtime[t].owner_boot].register.target = t
            /\ Published[runtime[t].owner_boot].register.def = targets[t]
        BY <1>4 DEF TargetsAreOwned
    <2>3. ASSUME NEW a \in Boots, Published[a].register.target = t
          PROVE  a = b
        BY <1>4, <1>5, <2>3, OwnTarget, ZenonT(30)
    <2>4. QED BY <2>1, <2>2, <2>3, Zenon
<1>7. authentic(m)
    <2>1. targets[t] # None => targets[t].generation = m.target_gen
        BY <1>5, <1>6, ZenonT(30)
    <2>2. runtime[t] # None => runtime[t].owner_boot = b
        BY <1>6, Zenon
    <2>3. QED BY <1>2, <1>3, <2>1, <2>2, Zenon DEF authentic
<1>8. in(p, InFlight)
    BY <1>1 DEF in, existing
<1>9. QED BY <1>7, <1>8 DEF accepted

\* Once confirmed, a hand-out stays the last one of its plan.
LEMMA ConfirmedStays ==
    ASSUME TypeInv, [Next]_vars, NEW m, m.plan \in existing, Confirmed(m)
    PROVE  Confirmed(m)'
<1>1. /\ Forward(plans[m.plan].lifecycle, plans'[m.plan].lifecycle)
      /\ plans'[m.plan].dispatch = plans[m.plan].dispatch \/ HandsOut(m.plan)
    BY StepFacts DEF PlanStep
<1>2. QED BY <1>1 DEF Confirmed, Forward, HandsOut, Live, InFlight

\* A plan that can no longer complete stays so.
LEMMA SettledStays ==
    ASSUME SafetyInv, [Next]_vars, NEW d, settled(d)
    PROVE  settled(d)'
<1>1. PICK m \in sent : m.dispatch = d /\ plans[m.plan].lifecycle \notin Live
    BY DEF settled
<1>2. m.plan \in existing
    BY DEF SafetyInv, DispatchCarriesPinnedAuthority, TypeInv, TypeOK, DispatchMsg, existing
<1>3. plans'[m.plan].lifecycle \notin Live /\ m \in sent'
    BY <1>1, <1>2, StepFacts, SentGrows DEF SafetyInv, PlanStep, Forward, Live, InFlight
<1>4. QED BY <1>1, <1>3 DEF settled

\* Only a hand-out adds a message, and only a RESULT handler records a completion.
LEMMA SentMoves ==
    ASSUME [NodeNext]_nodeVars
    PROVE  sent' = sent \/ \E c \in Clients : prepare(c)
<1> USE DEF vars, catalogVars, evidenceVars, planVars
<1>1. ASSUME NEW b \in Boots, connection(b) PROVE sent' = sent
    BY <1>1, Zenon DEF connection, hello, enlist, register_target, capability, evidence, heartbeat,
                result, answer, disconnect, detach, close, bind_worker_session,
                apply_register_target, apply_capability, apply_data_evidence, apply_heartbeat,
                apply_result, on_worker_disconnected
<1>2. ASSUME NEW b \in Boots, start(b) \/ serve(b) \/ crash(b) PROVE sent' = sent
    BY <1>2 DEF start, serve, crash
<1>3. ASSUME NEW c \in Clients, request(c) \/ dispatching(c), ~prepare(c) PROVE sent' = sent
    BY <1>3, Zenon DEF request, dispatching, lookup, confirm, abandon, await, send, report_unsent,
                cancel_unsent, get, reserve, confirm_dispatched, try_cancel, cancel_plan
<1>4. CASE define_operation \/ ask_plan
    BY <1>4, ZenonT(30) DEF define_operation, ask_plan, create_operation, plan
<1>5. QED BY <1>1, <1>2, <1>3, <1>4 DEF NodeNext, nodeVars

LEMMA ResultMoves ==
    ASSUME [NodeNext]_nodeVars
    PROVE  results' = results \/ \E b \in Boots : result(b) /\ accepted(Head(up[b]).msg)
<1> USE DEF vars, catalogVars, evidenceVars, planVars
<1>1. ASSUME NEW b \in Boots, connection(b), ~(result(b) /\ accepted(Head(up[b]).msg))
      PROVE  results' = results
    BY <1>1, Zenon DEF connection, hello, enlist, register_target, capability, evidence, heartbeat,
                result, answer, disconnect, detach, close, bind_worker_session,
                apply_register_target, apply_capability, apply_data_evidence, apply_heartbeat,
                on_worker_disconnected
<1>2. ASSUME NEW b \in Boots, start(b) \/ serve(b) \/ crash(b) PROVE results' = results
    BY <1>2 DEF start, serve, crash
<1>3. ASSUME NEW c \in Clients, request(c) \/ dispatching(c) PROVE results' = results
    BY <1>3, Zenon DEF request, dispatching, prepare, lookup, confirm, abandon, await, send,
                report_unsent, cancel_unsent, get, reserve, prepare_dispatch,
                confirm_dispatched, try_cancel, cancel_plan
<1>4. CASE define_operation \/ ask_plan
    BY <1>4, ZenonT(30) DEF define_operation, ask_plan, create_operation, plan
<1>5. QED BY <1>1, <1>2, <1>3, <1>4, ZenonT(30) DEF NodeNext, nodeVars

LEMMA DispatchedStep ==
    ASSUME NodeInv, DispatchedOnce, [NodeNext]_nodeVars
    PROVE  DispatchedOnce'
<1>0. client \in [Clients -> Request]
    BY DEF NodeInv, NodeTypeOK, Request, Pc
<1>1. sent' = sent \/ \E c \in Clients :
        /\ client[c].pc = "reserved" /\ client[c].dispatch \in DispatchIds
        /\ client'[c].pc \notin {"idle", "reserved"}
        /\ client'[c].msg.dispatch = client[c].dispatch
        /\ sent' = sent \cup {client'[c].msg}
    <2>1. ASSUME NEW c \in Clients, prepare(c)
          PROVE  client[c].pc = "reserved" /\ client[c].dispatch \in DispatchIds
        BY <2>1 DEF prepare, at, NodeInv, ClientsHold
    <2>2. QED BY <1>0, <2>1, SentMoves, PrepareFacts
<1>2. ASSUME NEW m \in sent', NEW n \in sent', m.dispatch = n.dispatch PROVE m = n
    <2>1. CASE sent' = sent
        BY <1>2, <2>1, Zenon DEF DispatchedOnce
    <2>2. ASSUME NEW c \in Clients, client[c].pc = "reserved", NEW new,
                 new.dispatch = client[c].dispatch, sent' = sent \cup {new}
          PROVE  m = n
        <3>1. \A x \in sent : x.dispatch # new.dispatch
            BY <2>2, Zenon DEF DispatchedOnce
        <3>2. m \in sent /\ n \in sent => m = n
            BY <1>2, Zenon DEF DispatchedOnce
        <3>3. (m \in sent \/ m = new) /\ (n \in sent \/ n = new)
            BY <1>2, <2>2
        <3>4. QED BY <1>2, <3>1, <3>2, <3>3, Zenon
    <2>3. QED BY <1>1, <2>1, <2>2, Zenon
<1>3. ASSUME NEW c \in Clients, client'[c].pc = "reserved", NEW m \in sent'
      PROVE  m.dispatch # client'[c].dispatch
    <2>1. CASE client'[c] = client[c]
        <3>1. client[c].dispatch \in DispatchIds /\ client[c].pc = "reserved"
            BY <1>3, <2>1 DEF NodeInv, ClientsHold
        <3>2. CASE sent' = sent
            BY <1>3, <2>1, <3>1, <3>2 DEF DispatchedOnce
        <3>3. ASSUME NEW e \in Clients, client[e].pc = "reserved",
                     client[e].dispatch \in DispatchIds,
                     client'[e].pc \notin {"idle", "reserved"},
                     client'[e].msg.dispatch = client[e].dispatch,
                     sent' = sent \cup {client'[e].msg}
              PROVE  m.dispatch # client'[c].dispatch
            <4>1. e # c
                BY <1>3, <3>3
            <4>2. client[e].dispatch # client[c].dispatch
                BY <3>1, <3>3, <4>1, OwnDispatch
            <4>3. QED BY <2>1, <3>1, <3>3, <4>2 DEF DispatchedOnce
        <3>4. QED BY <1>1, <3>2, <3>3
    <2>2. CASE client'[c] # client[c]
        BY <1>3, <2>2, ClientMoves DEF ClientMove, fresh
    <2>3. QED BY <2>1, <2>2
<1>4. ASSUME NEW c \in Clients, client'[c].pc \notin {"idle", "reserved"}
      PROVE  client'[c].msg.plan = client'[c].plan
    BY <1>4, ClientMoves DEF ClientMove, DispatchedOnce
<1>5. QED BY <1>2, <1>3, <1>4 DEF DispatchedOnce

\* Except for a send that failed, a promise is fulfilled with what the worker's loss or its
\* result meant.
LEMMA FulfilledWith ==
    ASSUME NodeInv, AnswerInv, NEW d \in DispatchIds, Fulfils(d),
           \A c \in Clients : client[c].dispatch = d => ~report_unsent(c)
    PROVE  promise'[d] # None /\ promise'[d] # "send_failed"
<1>1. ASSUME NEW x \in Boots, answer(x), promise'[d] = outbox[x].answer
      PROVE  promise'[d] # None /\ promise'[d] # "send_failed"
    <2>1. thread[x] = "replying"
        BY <1>1 DEF answer
    <2>2. outbox[x].answer \in Answer /\ outbox[x].answer # "send_failed"
        BY <2>1, ZenonT(30) DEF NodeInv, FramesAreSent, Reply, AnswerInv, RepliesAreTrue
    <2>3. QED BY <1>1, <2>2, NoneIsNoAnswer
<1>2. CASE promise'[d] = "lost"
    BY <1>2, NoneIsNoAnswer DEF Answer
<1>3. QED BY <1>1, <1>2 DEF Fulfils

LEMMA PostedStays ==
    ASSUME NodeInv, SafetyInv, LossInv, AnswerInv, [NodeNext]_nodeVars, NEW b \in Boots
    PROVE  PostedTo(b) \subseteq PostedTo(b)'
<1> SUFFICES ASSUME NEW m \in PostedTo(b) PROVE m \in PostedTo(b)'
    OBVIOUS
<1> DEFINE d == m.dispatch
<1>1. /\ m \in sent /\ m.worker_boot = b /\ Confirmed(m)
      /\ pending[d] = b \/ promise[d] # None
      /\ promise[d] # "send_failed"
      /\ \A c \in Clients : client[c].dispatch = d => client[c].pc = "waiting"
    BY DEF PostedTo
<1>2. m \in sent'
    BY <1>1, EngineStep, SentGrows, ZenonT(30)
<1>3. d \in DispatchIds /\ d # None
    <2>1. m \in DispatchMsg
        BY <1>1, Zenon DEF NodeInv, TypeInv, TypeOK
    <2>2. d \in DispatchIds
        BY <2>1 DEF DispatchMsg
    <2>3. QED BY <2>2, NoneIsNoEntry
<1>4. Confirmed(m)'
    BY <1>1, EngineStep, SentToGreeted, ConfirmedStays DEF NodeInv, LossInv
<1>5. \A c \in Clients : client'[c].dispatch = d => client'[c].pc = "waiting"
    <2> SUFFICES ASSUME NEW c \in Clients, client'[c].dispatch = d PROVE client'[c].pc = "waiting"
        OBVIOUS
    <2>1. ClientMove(c)
        BY ClientMoves
    <2>2. QED BY <1>1, <1>3, <2>1, ZenonT(30) DEF ClientMove, fresh
<1>6. /\ pending'[d] = b \/ promise'[d] # None
      /\ promise'[d] # "send_failed"
    <2> HIDE DEF d
    <2>1. CASE pending'[d] = pending[d] /\ promise'[d] = promise[d]
        BY <1>1, <2>1, ZenonT(30)
    <2>2. ASSUME NEW c \in Clients, await(c) PROVE client[c].dispatch # d
        BY <1>1, <2>2 DEF await, at
    <2>3. CASE Fulfils(d)
        <3>1. \A c \in Clients : client[c].dispatch = d => ~report_unsent(c)
            BY <1>1 DEF report_unsent, at
        <3>2. QED BY <1>3, <2>3, <3>1, FulfilledWith, ZenonT(30)
    <2>4. QED BY <1>3, <2>1, <2>2, <2>3, PromiseMoves DEF PromiseMove
<1>7. QED BY <1>1, <1>2, <1>4, <1>5, <1>6 DEF PostedTo

\* What is on the connections stays genuine.
LEMMA FramesStay ==
    ASSUME NodeInv, SafetyInv, LossInv, AnswerInv, [NodeNext]_nodeVars, NEW b \in Boots
    PROVE  /\ FrameOf(b) \subseteq FrameOf(b)'
           /\ Seq(PostedTo(b)) \subseteq Seq(PostedTo(b)')
           /\ Seq(FrameOf(b)) \subseteq Seq(FrameOf(b)')
<1>1. PostedTo(b) \subseteq PostedTo(b)'
    BY PostedStays
<1>2. FrameOf(b) \subseteq FrameOf(b)'
    BY <1>1 DEF FrameOf, Frame
<1>3. QED BY <1>1, <1>2, SeqGrows

\* A dispatch on a connection stays one that was posted, and a result is the result of one.
LEMMA FramesStep ==
    ASSUME NodeInv, SafetyInv, LossInv, AnswerInv, [NodeNext]_nodeVars
    PROVE  FramesArePosted'
<1> DEFINE P(b) == PostedTo(b)'
           F(b) == FrameOf(b)'
           Fine(b) == down'[b] \in Seq(P(b)) /\ up'[b] \in Seq(F(b))
<1>0. /\ \A b \in Boots : /\ down[b] \in Seq(PostedTo(b)) /\ up[b] \in Seq(FrameOf(b))
                          /\ down[b] \in Seq(P(b)) /\ up[b] \in Seq(F(b))
                          /\ PostedTo(b) \subseteq P(b) /\ FrameOf(b) \subseteq F(b)
      /\ DOMAIN up = Boots /\ DOMAIN down = Boots
    <2>1. DOMAIN up = Boots /\ DOMAIN down = Boots
        BY DEF NodeInv, NodeTypeOK
    <2>2. \A b \in Boots : down[b] \in Seq(PostedTo(b)) /\ up[b] \in Seq(FrameOf(b))
        BY Zenon DEF AnswerInv, FramesArePosted
    <2>3. \A b \in Boots : /\ PostedTo(b) \subseteq P(b) /\ FrameOf(b) \subseteq F(b)
                           /\ Seq(PostedTo(b)) \subseteq Seq(P(b))
                           /\ Seq(FrameOf(b)) \subseteq Seq(F(b))
        BY FramesStay, PostedStays, Zenon
    <2> HIDE DEF P, F
    <2>4. QED BY <2>1, <2>2, <2>3, Zenon
<1> SUFFICES ASSUME NEW b \in Boots PROVE Fine(b)
    BY DEF FramesArePosted
<1> HIDE DEF P, F
<1>1. CASE down'[b] = down[b] /\ up'[b] = up[b]
    BY <1>0, <1>1
<1>2. CASE start(b)
    <2>1. \A type \in FrameType \ {"RESULT"} : frame(type) \in FrameOf(b)
        BY DEF frame, FrameOf, Frame
    <2>2. handshake \in Seq(F(b))
        BY <1>0, <2>1 DEF handshake, FrameType
    <2>3. up'[b] = handshake /\ down' = down
        BY <1>0, <1>2 DEF start
    <2>4. QED BY <1>0, <2>2, <2>3
<1>3. CASE serve(b)
    <2>1. /\ Head(down[b]) \in P(b) /\ Head(down[b]) \in PostedTo(b)
          /\ Tail(down[b]) \in Seq(P(b))
        BY <1>0, <1>3, HeadAndTail DEF serve
    <2>2. Head(down[b]) \in DispatchMsg
        BY <2>1, ZenonT(30) DEF PostedTo, NodeInv, TypeInv, TypeOK
    <2>3. \A outcome \in {"intact", "unknown"} :
            [type |-> "RESULT", msg |-> Head(down[b]), outcome |-> outcome] \in F(b)
        BY <1>0, <2>1, <2>2, Zenon DEF FrameOf, Frame, FrameType
    <2>4. PICK outcome \in {"intact", "unknown"} :
            up' = IF b \in Holding THEN up
                  ELSE [up EXCEPT ![b] = Append(@, [type |-> "RESULT", msg |-> Head(down[b]),
                                                    outcome |-> outcome])]
        BY <1>3, Zenon DEF serve
    <2>5. up'[b] \in Seq(F(b))
        BY <1>0, <2>3, <2>4, LongerSeq
    <2>6. down'[b] = Tail(down[b])
        BY <1>0, <1>3, ZenonT(30) DEF serve
    <2>7. QED BY <2>1, <2>5, <2>6
<1>4. CASE crash(b)
    <2>1. PICK n \in 0 .. Len(up[b]) : up'[b] = SubSeq(up[b], 1, n)
        BY <1>0, <1>4 DEF crash
    <2>2. PICK T, s : s \in Seq(T) /\ T = F(b) /\ s = up[b]
        BY <1>0, Zenon
    <2>3. SubSeq(up[b], 1, n) \in Seq(F(b))
        <3>1. n \in 0 .. Len(s)
            BY <2>2, Zenon
        <3>2. SubSeq(s, 1, n) \in Seq(T)
            BY <2>2, <3>1, CutShort
        <3>3. QED BY <2>2, <3>2, Zenon
    <2>4. down'[b] = <<>>
        BY <1>0, <1>4 DEF crash
    <2>5. QED BY <2>1, <2>3, <2>4
<1>5. ASSUME NEW type, received(b, type) PROVE Fine(b)
    <2>1. up'[b] = Tail(up[b]) /\ down' = down /\ up[b] # <<>>
        BY <1>0, <1>5 DEF received
    <2>2. QED BY <1>0, <2>1, HeadAndTail
<1>6. ASSUME NEW x \in Boots, x # b, start(x) \/ serve(x) \/ crash(x) \/ connection(x)
      PROVE  down'[b] = down[b] /\ up'[b] = up[b]
    BY <1>0, <1>6, ZenonT(30) DEF start, serve, crash, connection, received, hello, enlist, register_target,
                capability, evidence, heartbeat, result, answer, disconnect, detach, close
<1>7. CASE connection(b)
    <2>1. CASE \E type \in FrameType : received(b, type)
        BY <1>5, <2>1
    <2>2. CASE UNCHANGED <<up, down>>
        BY <1>1, <2>2
    <2>3. QED BY <1>7, <2>1, <2>2
          DEF connection, hello, enlist, register_target, capability, evidence, heartbeat,
              result, answer, disconnect, detach, close, FrameType
<1>8. ASSUME NEW c \in Clients, send(c) PROVE Fine(b)
    <2>0. /\ client \in [Clients -> Request] /\ client[c].pc = "sending"
          /\ client[c].dispatch \in DispatchIds /\ client[c].msg \in sent
        BY <1>8, ZenonT(30) DEF send, at, NodeInv, NodeTypeOK, ClientsHold, Request, Pc
    <2>1. PICK m \in sent : m = client[c].msg
        BY <2>0
    <2>2. /\ m.dispatch = client[c].dispatch /\ Confirmed(m) /\ m.worker_boot \in Boots
          /\ promise[m.dispatch] # "send_failed"
          /\ promise[m.dispatch] # None \/ pending[m.dispatch] = m.worker_boot
        BY <2>0, <2>1, ZenonT(30)
        DEF NodeInv, TypeInv, TypeOK, DispatchMsg, ClientsHold, AnswerInv, ClientsConfirm
    <2>3. CASE moves(c, "waiting")
        <3>1. /\ \A e \in Clients : e # c => client'[e] = client[e]
              /\ client'[c].pc = "waiting"
            BY <2>0, <2>3, MovesFacts DEF Pc
        <3>2. \A e \in Clients : client'[e].dispatch = m.dispatch => client'[e].pc = "waiting"
            BY <2>0, <2>2, <3>1, OwnDispatch
        <3>3. UNCHANGED <<sent, plans, pending, promise>>
            BY <1>8, ZenonT(30) DEF send, vars, planVars
        <3>4. m \in P(m.worker_boot)
            BY <2>2, <3>2, <3>3, ZenonT(30) DEF P, PostedTo, Confirmed
        <3>5. \/ down' = down
              \/ down' = [down EXCEPT ![m.worker_boot] = Append(@, m)]
            BY <1>8, <2>1, ZenonT(30) DEF send
        <3>6. Append(down[m.worker_boot], m) \in Seq(P(m.worker_boot))
            BY <1>0, <2>2, <3>4, LongerSeq
        <3>7. down'[b] \in Seq(P(b))
            BY <1>0, <3>5, <3>6, Zenon
        <3>8. up' = up
            BY <1>8, ZenonT(30) DEF send
        <3>9. QED BY <1>0, <3>7, <3>8, ZenonT(30)
    <2>4. CASE UNCHANGED <<up, down>>
        BY <1>1, <2>4
    <2>5. QED BY <1>8, <2>3, <2>4, ZenonT(30) DEF send
<1>9. ASSUME NEW c \in Clients, request(c) \/ dispatching(c), ~send(c)
      PROVE  UNCHANGED <<up, down>>
    BY <1>9 DEF request, dispatching, prepare, lookup, confirm, abandon, await, report_unsent,
                cancel_unsent, get, connVars
<1>10. CASE define_operation \/ ask_plan \/ UNCHANGED nodeVars
    BY <1>1, <1>10 DEF define_operation, ask_plan, nodeVars, connVars
<1>11. QED
    BY <1>1, <1>2, <1>3, <1>4, <1>6, <1>7, <1>8, <1>9, <1>10, ZenonT(30) DEF NodeNext

LEMMA ConfirmStep ==
    ASSUME NodeInv, SafetyInv, LossInv, AnswerInv, [NodeNext]_nodeVars
    PROVE  ClientsConfirm'
<1> SUFFICES ASSUME NEW c \in Clients
             PROVE  /\ client'[c].pc \in {"confirmed", "sending"} => Confirmed(client[c].msg)'
                    /\ client'[c].pc = "sending" =>
                          /\ promise'[client'[c].dispatch] # "send_failed"
                          /\ \/ promise'[client'[c].dispatch] # None
                             \/ pending'[client'[c].dispatch] = client'[c].msg.worker_boot
    BY DEF ClientsConfirm
<1>0. CASE client'[c].pc \notin {"confirmed", "sending"}
    BY <1>0
<1>1. CASE client'[c].pc \in {"confirmed", "sending"}
    <2>1. /\ client[c].pc \notin {"idle", "reserved"}
          /\ client'[c].plan = client[c].plan /\ client'[c].dispatch = client[c].dispatch
          /\ client'[c].msg = client[c].msg
          /\ client'[c].pc = "confirmed" =>
                client[c].pc = "confirmed" \/ confirm_dispatched(client[c].plan, client[c].dispatch)
          /\ client'[c].pc = "sending" => client[c].pc = "sending" \/ await(c)
        <3>1. CASE client'[c] = client[c]
            BY <1>1, <3>1
        <3>2. CASE client'[c] # client[c]
            <4>1. ClientMove(c)
                BY ClientMoves, Zenon
            <4>2. QED BY <1>1, <3>2, <4>1, ZenonT(30) DEF ClientMove, Onward
        <3>3. QED BY <3>1, <3>2, Zenon
    <2>2. PICK m \in sent : m = client[c].msg
        BY <2>1, Zenon DEF NodeInv, ClientsHold
    <2>3. PICK d \in DispatchIds : d = client[c].dispatch
        BY <2>1, ZenonT(30) DEF NodeInv, ClientsHold
    <2>4. m.dispatch = d /\ m.plan = client[c].plan /\ m.plan \in existing
        <3>1. m.dispatch = d
            BY <2>1, <2>2, <2>3, Zenon DEF NodeInv, ClientsHold
        <3>2. m.plan = client[c].plan
            BY <2>1, <2>2, Zenon DEF AnswerInv, DispatchedOnce
        <3>3. m.plan \in existing
            BY SentToGreeted DEF LossInv
        <3>4. QED BY <3>1, <3>2, <3>3
    <2>5. Confirmed(m)'
        <3>1. CASE client[c].pc \in {"confirmed", "sending"} \/ await(c)
            <4>1. Confirmed(m)
                BY <2>2, <3>1, ZenonT(30) DEF AnswerInv, ClientsConfirm, await, at
            <4>2. QED BY <2>4, <4>1, EngineStep, ConfirmedStays DEF NodeInv
        <3>2. CASE confirm_dispatched(m.plan, d)
            <4>1. plans[m.plan] \in ExecutionPlan /\ plans \in [PlanIds -> ExecutionPlan \cup {None}]
                BY <2>4, Lookups, ZenonT(30) DEF existing, NodeInv, TypeInv, TypeOK
            <4>2. /\ plans[m.plan].dispatch = d
                  /\ plans' = [plans EXCEPT ![m.plan].lifecycle = "DISPATCHED"]
                BY <3>2 DEF confirm_dispatched
            <4>3. plans'[m.plan].lifecycle = "DISPATCHED" /\ plans'[m.plan].dispatch = d
                BY <2>4, <4>1, <4>2 DEF ExecutionPlan, existing
            <4>4. QED BY <2>4, <4>3 DEF Confirmed, InFlight
        <3>3. QED BY <1>1, <2>1, <2>3, <2>4, <3>1, <3>2
    <2>6. ASSUME client'[c].pc = "sending"
          PROVE  promise'[d] # "send_failed" /\ (promise'[d] # None \/ pending'[d] = m.worker_boot)
        <3>1. CASE await(c)
            <4>1. promise[d] = None /\ promise' = promise
                BY <2>3, <3>1, ZenonT(30) DEF await, at, NodeInv, PromisesAreOwned, BeforeAwait
            <4>2. pending'[d] = m.worker_boot
                BY <2>2, <2>3, <3>1, ZenonT(30) DEF await, NodeInv, NodeTypeOK
            <4>3. QED BY <4>1, <4>2, NoneIsNoAnswer DEF Answer
        <3>2. CASE client[c].pc = "sending"
            <4>1. promise[d] # "send_failed" /\ (promise[d] # None \/ pending[d] = m.worker_boot)
                BY <2>2, <2>3, <3>2, ZenonT(30) DEF AnswerInv, ClientsConfirm
            <4>2. \A e \in Clients : client[e].dispatch = d => ~await(e) /\ ~report_unsent(e)
                BY <2>3, <3>2, OwnDispatch DEF await, report_unsent, at
            <4>3. CASE Fulfils(d)
                BY <4>2, <4>3, FulfilledWith DEF Fulfils
            <4>4. QED BY <4>1, <4>2, <4>3, PromiseMoves DEF PromiseMove
        <3>3. QED BY <2>1, <2>6, <3>1, <3>2, ZenonT(30)
    <2>7. QED BY <2>1, <2>2, <2>3, <2>5, <2>6, ZenonT(30)
<1>2. QED BY <1>0, <1>1

\* The fields of a reply.
LEMMA ReplyFields ==
    ASSUME NEW reply, NEW d, NEW a, reply = [dispatch |-> d, answer |-> a]
    PROVE  reply.dispatch = d /\ reply.answer = a
OBVIOUS

\* The RESULT handler settles the plan in hand: it accepts the completion, or the plan was
\* settled before.  It records a commit exactly when it says so.
LEMMA HandlerStep ==
    ASSUME NodeInv, SafetyInv, LossInv, AnswerInv, [NodeNext]_nodeVars, NEW b \in Boots, result(b)
    PROVE  \E m \in PostedTo(b), outcome \in {"intact", "unknown"} :
             /\ m = Head(up[b]).msg
             /\ outbox'[b] = [dispatch |-> m.dispatch, answer |-> answer_to(m, outcome)]
             /\ outbox'[b].dispatch = m.dispatch /\ outbox'[b].answer = answer_to(m, outcome)
             /\ plans'[m.plan].lifecycle \notin Live
             /\ thread'[b] = "replying" /\ pending' = pending /\ promise' = promise
             /\ accepted(m) => results' = Append(results, new_result(m, outcome))
<1> DEFINE m == Head(up[b]).msg
           outcome == Head(up[b]).outcome
<1>1. received(b, "RESULT") /\ Head(up[b]).type = "RESULT" /\ up[b] # <<>>
    BY DEF result, received
<1>2. m \in PostedTo(b) /\ outcome \in {"intact", "unknown"}
    <2>1. Head(up[b]) \in FrameOf(b)
        BY <1>1, HeadAndTail DEF AnswerInv, FramesArePosted
    <2>2. Head(up[b]) \in Wire
        BY <1>1, ReceivedFrame
    <2>3. QED BY <1>1, <2>1, <2>2 DEF FrameOf, Wire
<1>3. /\ IF accepted(m) THEN apply_result(m, outcome) ELSE UNCHANGED vars
      /\ outbox'[b] = [dispatch |-> m.dispatch, answer |-> answer_to(m, outcome)]
      /\ thread'[b] = "replying" /\ pending' = pending /\ promise' = promise
    BY <1>1, ZenonT(30) DEF result, received, NodeInv, NodeTypeOK
<1> HIDE DEF m, outcome
<1>4. outbox'[b].dispatch = m.dispatch /\ outbox'[b].answer = answer_to(m, outcome)
    <2>1. PICK reply : reply = outbox'[b]
        OBVIOUS
    <2>2. PICK d, a : d = m.dispatch /\ a = answer_to(m, outcome)
        OBVIOUS
    <2>3. reply = [dispatch |-> d, answer |-> a]
        BY <1>3, <2>1, <2>2, Zenon
    <2>4. reply.dispatch = d /\ reply.answer = a
        BY <2>3, ReplyFields
    <2>5. QED BY <2>1, <2>2, <2>4, Zenon
<1>5. m \in sent /\ Confirmed(m) /\ m.plan \in existing
    BY <1>2, SentToGreeted DEF PostedTo, LossInv
<1>6. CASE accepted(m)
    <2>1. /\ plans' = [plans EXCEPT ![m.plan].lifecycle = verdict(outcome)]
          /\ results' = Append(results, new_result(m, outcome))
        BY <1>3, <1>6 DEF apply_result
    <2>2. plans[m.plan] \in ExecutionPlan /\ plans \in [PlanIds -> ExecutionPlan \cup {None}]
        BY <1>5, Lookups, ZenonT(30) DEF existing, NodeInv, TypeInv, TypeOK
    <2>3. plans'[m.plan].lifecycle = verdict(outcome)
        BY <1>5, <2>1, <2>2 DEF ExecutionPlan, existing
    <2>4. verdict(outcome) \notin Live
        BY <1>2 DEF verdict, Live, InFlight
    <2>5. QED BY <1>2, <1>3, <1>4, <2>1, <2>3, <2>4, ZenonT(30) DEF m
<1>7. CASE ~accepted(m)
    <2>1. plans[m.plan].lifecycle \notin Live /\ plans' = plans
        BY <1>3, <1>5, <1>7, InFlightIsAccepted, ZenonT(30) DEF LossInv, Confirmed, vars, planVars
    <2>2. QED BY <1>2, <1>3, <1>7, <1>4, <2>1, Zenon DEF m
<1>8. QED BY <1>6, <1>7, Zenon

LEMMA NewResultType ==
    ASSUME NEW m \in DispatchMsg, NEW outcome \in {"intact", "unknown"}
    PROVE  /\ new_result(m, outcome) \in ExecutionResult
           /\ new_result(m, outcome).committed <=> outcome = "intact"
           /\ new_result(m, outcome).authority = m
BY Zenon DEF new_result, ExecutionResult

\* A recorded commit stays recorded, and only an accepted, intact completion adds one.
LEMMA CommittedMoves ==
    ASSUME NodeInv, SafetyInv, LossInv, AnswerInv, [NodeNext]_nodeVars, NEW d
    PROVE  /\ committed_under(d) => committed_under(d)'
           /\ committed_under(d)' => \/ committed_under(d)
                                     \/ \E b \in Boots : \E m \in PostedTo(b) :
                                          /\ result(b) /\ accepted(m) /\ m.dispatch = d
                                          /\ outbox'[b] = [dispatch |-> d, answer |-> "committed"]
                                          /\ thread'[b] = "replying"
                                          /\ pending' = pending /\ promise' = promise
           /\ \A b \in Boots : result(b) /\ outbox'[b].dispatch = d
                                         /\ outbox'[b].answer = "committed" => committed_under(d)'
<1>1. results \in Seq(ExecutionResult)
    BY DEF NodeInv, TypeInv, TypeOK
<1>2. ASSUME NEW b \in Boots, result(b), accepted(Head(up[b]).msg)
      PROVE  /\ committed_under(d) => committed_under(d)'
             /\ committed_under(d)' => \/ committed_under(d)
                                       \/ \E m \in PostedTo(b) :
                                          /\ result(b) /\ accepted(m) /\ m.dispatch = d
                                          /\ outbox'[b] = [dispatch |-> d, answer |-> "committed"]
                                          /\ thread'[b] = "replying"
                                          /\ pending' = pending /\ promise' = promise
             /\ outbox'[b].dispatch = d /\ outbox'[b].answer = "committed" => committed_under(d)'
    <2>1. PICK m \in PostedTo(b), outcome \in {"intact", "unknown"} :
             /\ m = Head(up[b]).msg
             /\ outbox'[b] = [dispatch |-> m.dispatch, answer |-> answer_to(m, outcome)]
             /\ outbox'[b].dispatch = m.dispatch /\ outbox'[b].answer = answer_to(m, outcome)
             /\ thread'[b] = "replying" /\ pending' = pending /\ promise' = promise
             /\ accepted(m) => results' = Append(results, new_result(m, outcome))
        BY <1>2, HandlerStep, Zenon
    <2>2. m \in DispatchMsg
        BY DEF PostedTo, NodeInv, TypeInv, TypeOK
    <2>3. PICK r \in ExecutionResult :
            r = new_result(m, outcome) /\ (r.committed <=> outcome = "intact") /\ r.authority = m
        BY <2>2, NewResultType
    <2>0. accepted(m) /\ results' = Append(results, r)
        BY <1>2, <2>1, <2>3, Zenon
    <2>4. /\ DOMAIN results' = DOMAIN results \cup {Len(results) + 1}
          /\ \A i \in DOMAIN results : results'[i] = results[i]
          /\ results'[Len(results) + 1] = r
        <3>1. DOMAIN Append(results, r) = DOMAIN results \cup {Len(results) + 1}
            BY <1>1, Appended
        <3>2. \A i \in DOMAIN results : Append(results, r)[i] = results[i]
            BY <1>1, Appended
        <3>3. Append(results, r)[Len(results) + 1] = r
            BY <1>1, Appended
        <3>4. QED BY <2>0, <3>1, <3>2, <3>3, Zenon
    <2>5. committed_under(d)' <=> committed_under(d) \/ (r.committed /\ m.dispatch = d)
        BY <2>3, <2>4 DEF committed_under
    <2>6. accepted(m) /\ (answer_to(m, outcome) = "committed" <=> outcome = "intact")
        BY <2>0 DEF answer_to
    <2>7. outbox'[b].dispatch = m.dispatch /\ outbox'[b].answer = answer_to(m, outcome)
        BY <2>1, Zenon
    <2>8. r.committed /\ m.dispatch = d => outbox'[b] = [dispatch |-> d, answer |-> "committed"]
        BY <2>1, <2>3, <2>6, Zenon
    <2>9. QED BY <1>2, <2>1, <2>3, <2>5, <2>6, <2>7, <2>8, Zenon
<1>3. ASSUME NEW b \in Boots, result(b), ~accepted(Head(up[b]).msg)
      PROVE  outbox'[b].answer # "committed"
    <2>1. PICK m \in PostedTo(b), outcome \in {"intact", "unknown"} :
             m = Head(up[b]).msg /\ outbox'[b].answer = answer_to(m, outcome)
        BY <1>3, HandlerStep, Zenon
    <2>2. answer_to(m, outcome) = "rejected"
        BY <1>3, <2>1, Zenon DEF answer_to
    <2>3. QED BY <2>1, <2>2
<1>4. CASE results' = results
    <2>1. committed_under(d)' <=> committed_under(d)
        BY <1>4 DEF committed_under
    <2>2. QED BY <1>2, <1>3, <2>1, ZenonT(30)
<1>5. CASE results' # results
    <2>1. PICK b \in Boots : result(b) /\ accepted(Head(up[b]).msg)
        BY <1>5, ResultMoves
    <2>2. QED BY <1>2, <1>3, <2>1, ZenonT(30)
<1>6. QED BY <1>4, <1>5, ZenonT(30)

LEMMA RepliesStep ==
    ASSUME NodeInv, SafetyInv, LossInv, AnswerInv, [NodeNext]_nodeVars
    PROVE  RepliesAreTrue'
<1> SUFFICES ASSUME NEW b \in Boots, thread'[b] = "replying"
             PROVE  /\ \E m \in PostedTo(b)' : m.dispatch = outbox'[b].dispatch
                    /\ settled(outbox[b].dispatch)'
                    /\ outbox'[b].answer # "send_failed"
                    /\ outbox'[b].answer = "committed" => committed_under(outbox[b].dispatch)'
    BY DEF RepliesAreTrue
<1>0. [Next]_vars /\ PostedTo(b) \subseteq PostedTo(b)'
    BY EngineStep, PostedStays
<1>1. CASE result(b)
    <2>1. PICK m \in PostedTo(b), outcome \in {"intact", "unknown"} :
             /\ outbox'[b].dispatch = m.dispatch /\ outbox'[b].answer = answer_to(m, outcome)
             /\ plans'[m.plan].lifecycle \notin Live
        BY <1>1, HandlerStep, Zenon
    <2>2. m \in sent'
        BY <1>0, SentGrows, ZenonT(30) DEF PostedTo
    <2>3. PICK d : d = m.dispatch
        OBVIOUS
    <2>4. outbox'[b].dispatch = d /\ settled(d)'
        BY <2>1, <2>2, <2>3, Zenon DEF settled
    <2>5. outbox'[b].answer # "send_failed"
        BY <2>1 DEF answer_to
    <2>6. outbox'[b].answer = "committed" => committed_under(d)'
        BY <1>1, <2>4, CommittedMoves, ZenonT(30)
    <2>7. QED BY <1>0, <2>1, <2>3, <2>4, <2>5, <2>6, ZenonT(30)
<1>2. CASE thread[b] = "replying" /\ outbox'[b] = outbox[b]
    <2>1. PICK d : d = outbox[b].dispatch
        OBVIOUS
    <2>2. /\ \E m \in PostedTo(b) : m.dispatch = d
          /\ settled(d) /\ outbox[b].answer # "send_failed"
          /\ outbox[b].answer = "committed" => committed_under(d)
        BY <1>2, <2>1, ZenonT(30) DEF AnswerInv, RepliesAreTrue
    <2>3. settled(d)' /\ (committed_under(d) => committed_under(d)')
        BY <1>0, <2>2, SettledStays, CommittedMoves, Zenon
    <2>4. QED BY <1>0, <1>2, <2>1, <2>2, <2>3, ZenonT(30)
<1>3. QED BY <1>1, <1>2, ReplyMoves, ZenonT(30) DEF AnswerInv

\* The plan of a promise that waits for a worker is settled once that worker's loss is handled.
LEMMA LostIsSettled ==
    ASSUME SafetyInv, LossInv, AnswerInv, NEW d \in DispatchIds, pending[d] \in Boots,
           detach(pending[d]), pending[d] # None
    PROVE  settled(d)
<1>1. PICK m \in sent : m.dispatch = d /\ m.worker_boot = pending[d]
    BY Zenon DEF AnswerInv, PromisesAreTrue
<1>2. thread[m.worker_boot] = "detaching" /\ m.worker_boot \in Boots
    BY <1>1 DEF detach
<1>3. m.plan \in pinned_to(m.worker_boot)
    BY SentToGreeted DEF LossInv
<1>4. plans[m.plan].lifecycle \notin Live
    BY <1>2, <1>3 DEF LossInv, LostWorkerHasNoLivePlan
<1>5. QED BY <1>1, <1>4 DEF settled

\* Two messages on the connections under one dispatch id are the same message, to one worker.
LEMMA OnePosted ==
    ASSUME AnswerInv, NEW b \in Boots, NEW e \in Boots, NEW m \in PostedTo(b), NEW n \in PostedTo(e),
           m.dispatch = n.dispatch
    PROVE  b = e
BY DEF PostedTo, AnswerInv, DispatchedOnce

LEMMA PromisesTrueStep ==
    ASSUME NodeInv, SafetyInv, LossInv, AnswerInv, [NodeNext]_nodeVars
    PROVE  PromisesAreTrue'
<1> SUFFICES ASSUME NEW d \in DispatchIds
             PROVE  /\ pending'[d] # None =>
                          \E m \in sent' : m.dispatch = d /\ m.worker_boot = pending'[d]
                    /\ promise'[d] \notin {None, "send_failed"} => settled(d)'
                    /\ promise'[d] = "committed" => committed_under(d)'
                    /\ committed_under(d)' =>
                          \/ promise'[d] = "committed"
                          \/ \E b \in Boots :
                                /\ thread'[b] = "replying" /\ pending'[d] = b
                                /\ outbox'[b] = [dispatch |-> d, answer |-> "committed"]
    BY DEF PromisesAreTrue
<1>0. /\ [Next]_vars /\ sent \subseteq sent'
      /\ settled(d) => settled(d)'
      /\ committed_under(d) => committed_under(d)'
    BY EngineStep, SentGrows, SettledStays, CommittedMoves, Zenon
<1>1. /\ pending[d] # None => \E m \in sent : m.dispatch = d /\ m.worker_boot = pending[d]
      /\ promise[d] \notin {None, "send_failed"} => settled(d)
      /\ promise[d] = "committed" => committed_under(d)
    BY ZenonT(30) DEF AnswerInv, PromisesAreTrue
<1>2. PromiseMove(d)
    BY PromiseMoves
<1>3. pending'[d] # None => \E m \in sent' : m.dispatch = d /\ m.worker_boot = pending'[d]
    <2>1. ASSUME NEW c \in Clients, await(c), client[c].dispatch = d
          PROVE  client[c].msg \in sent /\ client[c].msg.dispatch = d
        BY <2>1, ZenonT(30) DEF await, at, NodeInv, ClientsHold
    <2>2. QED BY <1>0, <1>1, <1>2, <2>1, ZenonT(30) DEF PromiseMove
<1>4. /\ promise'[d] \notin {None, "send_failed"} => settled(d)'
      /\ promise'[d] = "committed" => committed_under(d)'
    <2>1. CASE promise'[d] = promise[d]
        BY <1>0, <1>1, <2>1, ZenonT(30)
    <2>2. ASSUME NEW b \in Boots, answer(b), outbox[b].dispatch = d, promise'[d] = outbox[b].answer
          PROVE  settled(d) /\ (promise'[d] = "committed" => committed_under(d))
        BY <2>2, ZenonT(30) DEF answer, AnswerInv, RepliesAreTrue
    <2>3. CASE pending[d] # None /\ pending[d] \in Boots /\ detach(pending[d])
               /\ promise'[d] = "lost"
        BY <1>0, <2>3, LostIsSettled, ZenonT(30)
    <2>4. QED BY <1>0, <1>2, <2>1, <2>2, <2>3, ZenonT(30) DEF PromiseMove, Fulfils
<1>5. ASSUME committed_under(d)
      PROVE  \/ promise'[d] = "committed"
             \/ \E b \in Boots : /\ thread'[b] = "replying" /\ pending'[d] = b
                                 /\ outbox'[b] = [dispatch |-> d, answer |-> "committed"]
    <2>1. CASE promise[d] = "committed"
        <3>1. promise[d] # None
            BY <2>1, NoneIsNoAnswer DEF Answer
        <3>2. QED BY <2>1, <3>1, PromisesStep
    <2>2. ASSUME NEW b \in Boots, thread[b] = "replying", pending[d] = b,
                 outbox[b] = [dispatch |-> d, answer |-> "committed"]
          PROVE  \/ promise'[d] = "committed"
                 \/ /\ thread'[b] = "replying" /\ pending'[d] = b
                    /\ outbox'[b] = [dispatch |-> d, answer |-> "committed"]
        <3>0. b # None /\ outbox[b].dispatch = d /\ outbox[b].answer = "committed"
            BY <2>2, PublishedTypes
        <3>1. PICK m \in PostedTo(b) : m.dispatch = d
            BY <2>2, <3>0 DEF AnswerInv, RepliesAreTrue
        <3>2. CASE answer(b)
            BY <2>2, <3>0, <3>2 DEF answer, resolve_dispatch, NodeInv, NodeTypeOK
        <3>3. CASE ~answer(b)
            <4>1. thread'[b] = "replying" /\ outbox'[b] = outbox[b]
                BY <2>2, <3>3, ReplyMoves, ZenonT(30) DEF AnswerInv
            <4>2. ASSUME NEW c \in Clients, client[c].dispatch = d
                  PROVE  ~await(c) /\ ~report_unsent(c)
                BY <3>1, <4>2 DEF PostedTo, await, report_unsent, at
            <4>3. ASSUME NEW e \in Boots, answer(e), outbox[e].dispatch = d PROVE FALSE
                <5>1. PICK n \in PostedTo(e) : n.dispatch = d
                    BY <4>3, ZenonT(30) DEF answer, AnswerInv, RepliesAreTrue
                <5>2. QED BY <3>1, <3>3, <4>3, <5>1, OnePosted
            <4>4. ~detach(pending[d])
                BY <2>2, ZenonT(30) DEF detach
            <4>5. pending'[d] = pending[d]
                BY <1>2, <4>2, <4>3, <4>4, ZenonT(30) DEF PromiseMove, Fulfils
            <4>6. QED BY <2>2, <4>1, <4>5, ZenonT(30)
        <3>4. QED BY <3>2, <3>3
    <2>3. QED BY <1>5, <2>1, <2>2, ZenonT(30) DEF AnswerInv, PromisesAreTrue
<1>6. ASSUME NEW b \in Boots, NEW m \in PostedTo(b), accepted(m), m.dispatch = d
      PROVE  pending[d] = b
    <2>1. /\ m \in sent /\ promise[d] # "send_failed"
          /\ pending[d] = b \/ promise[d] # None
        BY <1>6, ZenonT(30) DEF PostedTo
    <2>2. plans[m.plan].lifecycle \in Live
        BY <1>6 DEF accepted, in, Live, InFlight
    <2>3. ~settled(d)
        BY <1>6, <2>1, <2>2 DEF settled, AnswerInv, DispatchedOnce
    <2>4. QED BY <1>1, <2>1, <2>3, ZenonT(30)
<1>7. QED BY <1>3, <1>4, <1>5, <1>6, CommittedMoves, ZenonT(30)
-----------------------------------------------------------------------------
(* The theorem.                                                            *)

LEMMA AnswerInit == NodeInit => AnswerInv
<1> SUFFICES ASSUME NodeInit PROVE AnswerInv
    OBVIOUS
<1>1. /\ sent = {} /\ results = <<>>
      /\ \A b \in Boots : /\ thread[b] = "none" /\ up[b] = <<>> /\ down[b] = <<>>
      /\ \A c \in Clients : client[c].pc = "idle"
      /\ \A d \in DispatchIds : pending[d] = None /\ promise[d] = None
    BY DEF NodeInit, Init, idle
<1>2. ThreadsAreStarted /\ DispatchedOnce /\ ClientsConfirm /\ RepliesAreTrue
    BY <1>1, ZenonT(30) DEF ThreadsAreStarted, DispatchedOnce, ClientsConfirm, RepliesAreTrue
<1>3. FramesArePosted
    <2>1. \A b \in Boots : <<>> \in Seq(PostedTo(b)) /\ <<>> \in Seq(FrameOf(b))
        OBVIOUS
    <2>2. QED BY <1>1, <2>1, Zenon DEF FramesArePosted
<1>4. PromisesAreTrue
    <2>1. None # "committed"
        BY NoneIsNoAnswer DEF Answer
    <2>2. \A d : ~committed_under(d)
        BY <1>1 DEF committed_under
    <2>3. QED BY <1>1, <2>1, <2>2 DEF PromisesAreTrue
<1>5. QED BY <1>2, <1>3, <1>4 DEF AnswerInv

LEMMA AnswerStep ==
    NodeInv /\ SafetyInv /\ LossInv /\ AnswerInv /\ [NodeNext]_nodeVars => AnswerInv'
<1> SUFFICES ASSUME NodeInv, SafetyInv, LossInv, AnswerInv, [NodeNext]_nodeVars
             PROVE  AnswerInv'
    OBVIOUS
<1>1. ThreadsAreStarted' /\ DispatchedOnce'
    BY StartedStep, DispatchedStep DEF AnswerInv
<1>2. FramesArePosted' /\ ClientsConfirm' /\ RepliesAreTrue' /\ PromisesAreTrue'
    BY FramesStep, ConfirmStep, RepliesStep, PromisesTrueStep
<1>3. QED BY <1>1, <1>2 DEF AnswerInv

\* What a client is told is true, and stays true: a dispatch is answered "committed" exactly
\* when the coordinator has committed a result of that dispatch.  A RESULT that arrives after
\* its promise was answered otherwise can no longer commit, because the plan was settled before
\* the answer was given; and a commit is answered by the thread that made it, because no
\* disconnect or failed send can take its promise first.
THEOREM ClientsAreToldTheTruth == NodeSpec => []AnswersAreTrue
<1>1. NodeInv /\ AnswerInv => AnswersAreTrue
    <2> SUFFICES ASSUME NodeInv, AnswerInv, NEW d \in DispatchIds, promise[d] # None
                 PROVE  promise[d] = "committed" <=> committed_under(d)
        BY DEF AnswersAreTrue, committed_under
    <2>1. pending[d] = None /\ None \notin Boots
        BY PublishedTypes DEF NodeInv, PromisesAreOwned
    <2>2. QED BY <2>1, Zenon DEF AnswerInv, PromisesAreTrue
<1>2. QED BY <1>1, LossInvariant, AnswerInit, AnswerStep, PTL DEF NodeSpec
=============================================================================
