------------------------------ MODULE LossProofs ------------------------------
(***************************************************************************)
(* What the loss of a worker may not do: a worker that is lost is out of   *)
(* the system for good, and a client that waits for one is being served,   *)
(* for what it waits for is in one of the places between the two.          *)
(***************************************************************************)
EXTENDS NodeProofs

\* Time limits of the provers, in seconds.
USE ZenonT(4), SMTT(30), ZenonT(30), SMTT(90)

-----------------------------------------------------------------------------
(* A worker that is gone.                                                  *)

Gone == {"detaching", "closing", "closed"}

\* What the maps hold of a target is what its own worker published, after its HELLO; so is what
\* a plan pinned.
TargetsAreOwned ==
    /\ \A t \in Targets : targets[t] # None \/ runtime[t] # None =>
          /\ runtime[t] # None
          /\ Published[runtime[t].owner_boot].register.target = t
          /\ Published[runtime[t].owner_boot].register.def = targets[t]
          /\ greeted(runtime[t].owner_boot)
    /\ \A p \in existing :
          LET b == plans[p].snapshot.worker_boot IN
          /\ Published[b].register.target = plans[p].target
          /\ Published[b].register.def.generation = plans[p].snapshot.target_generation
          /\ greeted(b)

\* A worker that has not said HELLO has been sent nothing, and says nothing else first.
HelloIsFirst ==
    \A b \in Boots : ~greeted(b) =>
        down[b] = <<>> /\ (up[b] # <<>> => Head(up[b]).type = "HELLO")

\* A connection thread that has handled the disconnect reads nothing more, and the target of
\* its worker is not current again.
GoneIsSilent ==
    \A b \in Boots : thread[b] \in Gone =>
        /\ process[b] = "dead" /\ up[b] = <<>>
        /\ \A t \in Targets : runtime[t] # None /\ runtime[t].owner_boot = b =>
              ~runtime[t].dynamic_current

LossInv == TargetsAreOwned /\ HelloIsFirst /\ GoneIsSilent /\ LostWorkerHasNoLivePlan

\* The three things a step of the processes can do to a target: leave it, or lose it; believe
\* the heartbeat of its own worker; register it for its own worker.
Kept(t) ==
    /\ targets'[t] = targets[t]
    /\ runtime'[t] = None <=> runtime[t] = None
    /\ runtime[t] # None => /\ runtime'[t].owner_boot = runtime[t].owner_boot
                            /\ runtime'[t].dynamic_current => runtime[t].dynamic_current

Revived(t) ==
    /\ targets'[t] = targets[t]
    /\ runtime[t] # None /\ runtime'[t] # None
    /\ runtime'[t].owner_boot = runtime[t].owner_boot
    /\ \E b \in Boots : heartbeat(b) /\ Published[b].register.target = t

Registered(t) ==
    /\ runtime'[t] # None /\ ~runtime'[t].dynamic_current
    /\ Published[runtime'[t].owner_boot].register.target = t
    /\ Published[runtime'[t].owner_boot].register.def = targets'[t]
    /\ register_target(runtime'[t].owner_boot)

\* Losing a worker only makes its targets stale.
LEMMA InvalidatedKept ==
    ASSUME TypeInv, NEW T, runtime' = invalidated_runtime(T), targets' = targets, NEW t \in Targets
    PROVE  /\ Kept(t)
           /\ t \in T /\ runtime[t] # None => ~runtime'[t].dynamic_current
<1>1. runtime[t] # None => runtime[t] \in TargetRuntime
    BY Lookups DEF TypeInv
<1>2. CASE t \in T /\ runtime[t] # None
    <2> DEFINE r == [runtime[t] EXCEPT !.dynamic_current = FALSE, !.reachable = FALSE,
                                       !.lifecycle = "REVALIDATION_REQUIRED"]
    <2>1. runtime'[t] = r
        BY <1>2, Zenon DEF invalidated_runtime
    <2>2. /\ r \in TargetRuntime /\ r.owner_boot = runtime[t].owner_boot
          /\ r.dynamic_current = FALSE
        BY <1>1, <1>2, Zenon DEF TargetRuntime, TargetLifecycle
    <2>3. QED BY <1>2, <2>1, <2>2, NoneIsNoEntry DEF Kept
<1>3. CASE ~(t \in T /\ runtime[t] # None)
    BY <1>3, Zenon DEF invalidated_runtime, Kept
<1>4. QED BY <1>2, <1>3

LEMMA TargetStep ==
    ASSUME NodeInv, [NodeNext]_nodeVars, NEW t \in Targets
    PROVE  Kept(t) \/ Revived(t) \/ Registered(t)
<1> USE DEF catalogVars, evidenceVars, planVars
<1>0. TypeInv /\ TypeOK
    BY DEF NodeInv, TypeInv
<1>1. CASE targets' = targets /\ runtime' = runtime
    BY <1>1 DEF Kept
<1>2. ASSUME NEW b \in Boots, register_target(b) PROVE Kept(t) \/ Registered(t)
    <2> DEFINE m == Published[b].register
               r == [lifecycle |-> "REGISTERED", owner_boot |-> b, reachable |-> FALSE,
                     dynamic_current |-> FALSE, latency_ns |-> 0, confidence |-> 0]
    <2>1. m \in RegisterTargetMsg /\ m.owner_boot = b /\ m.target \in Targets
        BY PublishedTypes, InputTypes DEF RegisterTargetMsg
    <2>2. [m EXCEPT !.owner_boot = b] = m
        BY <2>1 DEF RegisterTargetMsg
    <2>3. apply_register_target(m)
        BY <1>2, <2>2 DEF register_target
    <2>4. /\ targets' = [targets EXCEPT ![m.target] = m.def]
          /\ runtime' = [runtime EXCEPT ![m.target] = r]
        <3> HIDE DEF m
        <3>1. QED BY <2>1, <2>3 DEF apply_register_target
    <2>5. r \in TargetRuntime /\ r # None /\ r.owner_boot = b /\ ~r.dynamic_current
        <3>1. r \in TargetRuntime
            BY DEF TargetRuntime, TargetLifecycle
        <3>2. QED BY <3>1, NoneIsNoEntry, ZenonT(30)
    <2> HIDE DEF m, r
    <2>6. CASE t = m.target
        <3>1. targets'[t] = m.def /\ runtime'[t] = r
            BY <1>0, <2>1, <2>4, <2>6 DEF TypeOK
        <3>2. QED BY <1>2, <2>5, <2>6, <3>1 DEF Registered, m
    <2>7. CASE t # m.target
        BY <1>0, <2>4, <2>7 DEF TypeOK, Kept
    <2>8. QED BY <2>6, <2>7
<1>3. ASSUME NEW b \in Boots, heartbeat(b) PROVE Kept(t) \/ Revived(t)
    <2> DEFINE m == Published[b].heartbeat
               r == [lifecycle |-> m.lifecycle, owner_boot |-> runtime[m.target].owner_boot,
                     reachable |-> m.reachable, dynamic_current |-> TRUE,
                     latency_ns |-> m.latency_ns, confidence |-> m.confidence]
    <2>1. m \in HeartbeatMsg /\ m.target \in Targets
        BY PublishedTypes, InputTypes DEF HeartbeatMsg
    <2>2. /\ runtime[m.target] # None /\ targets' = targets
          /\ runtime' = [runtime EXCEPT ![m.target] = r]
        BY <1>0, <1>3, <2>1 DEF heartbeat, apply_heartbeat, TypeOK
    <2>3. runtime[m.target] \in TargetRuntime
        BY <1>0, <2>1, <2>2, Lookups
    <2>4. r # None /\ r.owner_boot = runtime[m.target].owner_boot
        <3>1. r \in TargetRuntime
            BY <2>1, <2>3 DEF HeartbeatMsg, TargetRuntime
        <3>2. QED BY <3>1, NoneIsNoEntry
    <2> HIDE DEF m, r
    <2>5. CASE t = m.target
        <3>1. runtime'[t] = r
            BY <1>0, <2>1, <2>2, <2>5 DEF TypeOK
        <3>2. Published[b].register.target = t
            BY <2>5, OwnTarget DEF m
        <3>3. QED BY <1>3, <2>2, <2>4, <2>5, <3>1, <3>2 DEF Revived
    <2>6. CASE t # m.target
        BY <1>0, <2>2, <2>6 DEF TypeOK, Kept
    <2>7. QED BY <2>5, <2>6
<1>4. ASSUME NEW b \in Boots, disconnect(b) PROVE Kept(t)
    <2>1. CASE on_worker_disconnected(b)
        BY <1>0, <2>1, InvalidatedKept DEF on_worker_disconnected, invalidate_boot
    <2>2. QED BY <1>1, <1>4, <2>1 DEF disconnect, vars, Kept
<1>5. ASSUME NEW b \in Boots, connection(b), ~register_target(b), ~heartbeat(b), ~disconnect(b)
      PROVE  targets' = targets /\ runtime' = runtime
    BY <1>5
    DEF connection, hello, enlist, capability, evidence, result, answer, detach, close, vars,
        bind_worker_session, apply_capability, apply_data_evidence, apply_result
<1>6. ASSUME NEW c \in Clients, request(c) \/ dispatching(c)
      PROVE  targets' = targets /\ runtime' = runtime
    BY <1>6, ZenonT(30)
    DEF request, dispatching, prepare, lookup, confirm, abandon, await, send, report_unsent,
        cancel_unsent, get, vars, try_cancel, reserve, prepare_dispatch, confirm_dispatched,
        cancel_plan
<1>7. CASE define_operation \/ ask_plan \/ UNCHANGED nodeVars
    BY <1>1, <1>7 DEF define_operation, ask_plan, nodeVars, vars, create_operation, plan
<1>8. ASSUME NEW b \in Boots, start(b) \/ serve(b) \/ crash(b)
      PROVE  targets' = targets /\ runtime' = runtime
    BY <1>8 DEF start, serve, crash, vars
<1>9. QED BY <1>1, <1>2, <1>3, <1>4, <1>5, <1>6, <1>7, <1>8 DEF NodeNext

LEMMA OwnedStep ==
    ASSUME NodeInv, TargetsAreOwned, HelloIsFirst, [NodeNext]_nodeVars
    PROVE  TargetsAreOwned'
<1>0. TypeInv /\ [Next]_vars /\ TypeOK /\ TypeOK'
    BY EngineStep, TypeInvNext DEF NodeInv, TypeInv
<1>1. \A b \in Boots : greeted(b) => greeted(b)'
    BY <1>0, GreetedStays
<1>2. \A t \in Targets : /\ runtime[t] # None => runtime[t].owner_boot \in Boots
                         /\ runtime'[t] # None => runtime'[t].owner_boot \in Boots
    BY <1>0 DEF TypeOK, TargetRuntime
<1>3. ASSUME NEW t \in Targets, targets'[t] # None \/ runtime'[t] # None
      PROVE  /\ runtime'[t] # None
             /\ Published[runtime'[t].owner_boot].register.target = t
             /\ Published[runtime'[t].owner_boot].register.def = targets'[t]
             /\ greeted(runtime[t].owner_boot)'
    <2>1. CASE Kept(t) \/ Revived(t)
        <3>1. /\ targets'[t] = targets[t] /\ runtime[t] # None /\ runtime'[t] # None
              /\ runtime'[t].owner_boot = runtime[t].owner_boot
            BY <1>3, <2>1 DEF Kept, Revived, TargetsAreOwned
        <3>2. greeted(runtime[t].owner_boot)
            BY <3>1 DEF TargetsAreOwned
        <3>3. workers'[WorkerOf[runtime[t].owner_boot]] # None
            BY <1>1, <1>2, <3>1, <3>2 DEF greeted
        <3>4. QED BY <3>1, <3>3 DEF TargetsAreOwned, greeted
    <2>2. CASE Registered(t)
        <3> DEFINE b == runtime'[t].owner_boot
        <3>1. runtime'[t] # None /\ b \in Boots /\ register_target(b)
            BY <1>2, <2>2 DEF Registered
        <3>2. greeted(b)
            BY <3>1 DEF register_target, received, HelloIsFirst
        <3>3. workers'[WorkerOf[b]] # None
            BY <1>1, <3>1, <3>2 DEF greeted
        <3>4. QED BY <2>2, <3>1, <3>3 DEF Registered, greeted
    <2>3. QED BY <2>1, <2>2, TargetStep
<1>4. ASSUME NEW p \in existing'
      PROVE  /\ Published[plans'[p].snapshot.worker_boot].register.target = plans'[p].target
             /\ Published[plans'[p].snapshot.worker_boot].register.def.generation
                    = plans'[p].snapshot.target_generation
             /\ plans'[p].snapshot.worker_boot \in Boots
             /\ workers'[WorkerOf[plans'[p].snapshot.worker_boot]] # None
    <2>1. CASE p \in existing
        <3>1. /\ plans'[p].target = plans[p].target /\ plans'[p].snapshot = plans[p].snapshot
              /\ plans[p].snapshot.worker_boot \in Boots
            BY <1>0, <2>1, StepFacts, Lookups DEF PlanStep, AuthoritySnapshot
        <3>2. QED BY <1>1, <2>1, <3>1, ZenonT(30) DEF TargetsAreOwned, greeted
    <2>2. CASE p \notin existing
        <3>1. PICK t \in Targets :
                /\ runtime[t] # None
                /\ plans'[p].target = t
                /\ plans'[p].snapshot.worker_boot = runtime[t].owner_boot
                /\ plans'[p].snapshot.target_generation = targets[t].generation
            BY <1>0, <1>4, <2>2, NewPlanPinned
        <3>2. QED BY <1>1, <1>2, <3>1, ZenonT(30) DEF TargetsAreOwned, greeted
    <2>3. QED BY <2>1, <2>2, ZenonT(30)
<1>5. QED BY <1>3, <1>4, Zenon DEF TargetsAreOwned, greeted

\* A message is handed out for a worker that has said HELLO.
LEMMA SentToGreeted ==
    ASSUME SafetyInv, TargetsAreOwned, NEW m \in sent
    PROVE  /\ m.plan \in existing /\ m = pinned_msg(m.plan, m.dispatch)
           /\ m.worker_boot = plans[m.plan].snapshot.worker_boot
           /\ m.plan \in pinned_to(m.worker_boot)
           /\ greeted(m.worker_boot)
<1>1. m.plan \in PlanIds /\ plans[m.plan] # None /\ m = pinned_msg(m.plan, m.dispatch)
    BY DEF SafetyInv, DispatchCarriesPinnedAuthority, TypeInv, TypeOK, DispatchMsg
<1>2. m.worker_boot = plans[m.plan].snapshot.worker_boot
    BY <1>1 DEF pinned_msg
<1>3. QED BY <1>1, <1>2 DEF existing, pinned_to, TargetsAreOwned

LEMMA HelloStep ==
    ASSUME NodeInv, SafetyInv, TargetsAreOwned, HelloIsFirst, [NodeNext]_nodeVars
    PROVE  HelloIsFirst'
<1>0. TypeInv /\ [Next]_vars /\ NodeTypeOK
    BY EngineStep DEF NodeInv
<1> SUFFICES ASSUME NEW b \in Boots, ~greeted(b)'
             PROVE  down'[b] = <<>> /\ (up'[b] # <<>> => Head(up'[b]).type = "HELLO")
    BY DEF HelloIsFirst, greeted
<1>1. /\ ~greeted(b) /\ down[b] = <<>> /\ (up[b] # <<>> => Head(up[b]).type = "HELLO")
      /\ up \in [Boots -> Seq(Frame)] /\ down \in [Boots -> Seq(DispatchMsg)]
    BY <1>0, GreetedStays DEF HelloIsFirst, NodeTypeOK
<1>2. CASE up'[b] = up[b] /\ down'[b] = down[b]
    BY <1>1, <1>2
<1>3. ASSUME start(b) PROVE down'[b] = <<>> /\ (up'[b] # <<>> => Head(up'[b]).type = "HELLO")
    <2>1. up'[b] = handshake /\ down'[b] = down[b]
        BY <1>1, <1>3 DEF start
    <2>2. Head(handshake).type = "HELLO"
        BY DEF handshake, frame
    <2>3. QED BY <1>1, <2>1, <2>2
<1>4. ASSUME crash(b) PROVE down'[b] = <<>> /\ (up'[b] # <<>> => Head(up'[b]).type = "HELLO")
    <2>1. PICK n \in 0 .. Len(up[b]) : up'[b] = SubSeq(up[b], 1, n)
        BY <1>1, <1>4 DEF crash
    <2>2. up[b] \in Seq(Frame) /\ down'[b] = <<>>
        BY <1>1, <1>4 DEF crash
    <2>3. n > 0 => up[b] # <<>> /\ Head(SubSeq(up[b], 1, n)) = Head(up[b])
        BY <2>2
    <2>4. n = 0 => SubSeq(up[b], 1, n) = <<>>
        BY <2>2
    <2>5. QED BY <1>1, <2>1, <2>2, <2>3, <2>4
<1>5. ~serve(b)
    BY <1>1 DEF serve
<1>6. ASSUME NEW type, received(b, type) PROVE type = "HELLO"
    BY <1>1, <1>6 DEF received
<1>7. ~hello(b)
    <2>1. ASSUME hello(b) PROVE workers'[WorkerOf[b]] # None
        <3>1. /\ WorkerOf[b] \in Workers
              /\ workers' = [workers EXCEPT ![WorkerOf[b]] = [boot |-> b, connected |-> TRUE]]
            BY <2>1, PublishedTypes DEF hello, bind_worker_session
        <3>2. [boot |-> b, connected |-> TRUE] \in [boot : Boots, connected : BOOLEAN]
            OBVIOUS
        <3>3. QED BY <1>0, <3>1, <3>2, PublishedTypes, ZenonT(30) DEF TypeInv, TypeOK
    <2>2. QED BY <2>1 DEF greeted
<1>8. ASSUME NEW c \in Clients, send(c) PROVE up'[b] = up[b] /\ down'[b] = down[b]
    <2>1. client[c].msg \in sent
        BY <1>8 DEF send, at, NodeInv, ClientsHold
    <2>2. client[c].msg.worker_boot # b
        BY <1>1, <2>1, SentToGreeted
    <2>3. QED BY <1>1, <1>8, <2>2, ZenonT(30) DEF send
<1>9. ASSUME NEW x \in Boots, start(x) \/ serve(x) \/ crash(x) \/ connection(x), x # b
      PROVE  up'[b] = up[b] /\ down'[b] = down[b]
    BY <1>1, <1>9, ZenonT(30)
    DEF start, serve, crash, connection, hello, enlist, register_target, capability, evidence,
        heartbeat, result, answer, disconnect, detach, close, received
<1>10. ASSUME connection(b) PROVE up'[b] = up[b] /\ down'[b] = down[b]
    BY <1>6, <1>7, <1>10
    DEF connection, enlist, register_target, capability, evidence, heartbeat, result, answer,
        disconnect, detach, close
<1>11. ASSUME NEW c \in Clients, request(c) \/ dispatching(c), ~send(c)
       PROVE  UNCHANGED connVars
    BY <1>11 DEF request, dispatching, prepare, lookup, confirm, abandon, await, report_unsent,
                 cancel_unsent, get
<1>12. CASE define_operation \/ ask_plan \/ UNCHANGED nodeVars
    BY <1>2, <1>12, ZenonT(30) DEF define_operation, ask_plan, nodeVars, connVars
<1>13. QED
    BY <1>2, <1>3, <1>4, <1>5, <1>8, <1>9, <1>10, <1>11, <1>12 DEF NodeNext, connVars
\* What the engine does when a connection is lost: nothing of that worker is current any more,
\* and none of its plans is live.
LEMMA DisconnectEffect ==
    ASSUME NodeInv, TargetsAreOwned, NEW b \in Boots, disconnect(b)
    PROVE  /\ \A t \in Targets : runtime'[t] # None /\ runtime'[t].owner_boot = b =>
                  ~runtime'[t].dynamic_current
           /\ \A p \in existing' : plans'[p].snapshot.worker_boot = b =>
                  plans'[p].lifecycle \notin Live
<1>0. TypeInv /\ TypeOK
    BY DEF NodeInv, TypeInv
<1>1. CASE greeted(b)
    <2>1. on_worker_disconnected(b)
        BY <1>1 DEF disconnect, greeted
    <2> DEFINE T == {t \in Targets : runtime[t] # None /\ runtime[t].owner_boot = b}
               S == unfinished(pinned_to(b))
    <2>2. /\ runtime' = invalidated_runtime(T) /\ targets' = targets
          /\ plans' = moved(S, unknown_or_fenced)
        BY <2>1 DEF on_worker_disconnected, invalidate_boot
    <2>3. S \in SUBSET existing /\ unknown_or_fenced \in Withdrawal
        BY DEF unfinished, pinned_to, Withdrawal
    <2>4. ASSUME NEW t \in Targets, runtime'[t] # None, runtime'[t].owner_boot = b
          PROVE  ~runtime'[t].dynamic_current
        <3>1. Kept(t) /\ (t \in T /\ runtime[t] # None => ~runtime'[t].dynamic_current)
            BY <1>0, <2>2, InvalidatedKept
        <3>2. QED BY <2>4, <3>1 DEF Kept
    <2>5. ASSUME NEW p \in existing', plans'[p].snapshot.worker_boot = b
          PROVE  plans'[p].lifecycle \notin Live
        <3>1. p \in existing
            BY <1>0, <2>2, <2>3, MovedFacts DEF existing
        <3>2. CASE p \in S
            <4>1. plans'[p].lifecycle \in {"OUTCOME_UNKNOWN", "SUPERSEDED", "FENCED"}
                BY <1>0, <2>2, <2>3, <3>1, <3>2, MovedFacts, WithdrawalType, Lookups, ZenonT(30)
            <4>2. QED BY <4>1 DEF Live, InFlight
        <3>3. CASE p \notin S
            <4>1. plans'[p] = plans[p]
                BY <2>2, <3>1, <3>3, MovedRest DEF existing
            <4>2. plans[p].lifecycle \in Finished
                BY <2>5, <3>1, <3>3, <4>1 DEF unfinished, pinned_to
            <4>3. QED BY <4>1, <4>2 DEF Finished, Live, InFlight
        <3>4. QED BY <3>2, <3>3
    <2>6. QED BY <2>4, <2>5
<1>2. CASE ~greeted(b)
    <2>1. runtime' = runtime /\ plans' = plans
        BY <1>2 DEF disconnect, greeted, vars, evidenceVars, planVars
    <2>2. QED BY <1>2, <2>1 DEF TargetsAreOwned, existing
<1>3. QED BY <1>1, <1>2

\* A thread comes to be gone only by handling the disconnect; from then on nothing is read from
\* its connection.
LEMMA GoneStep ==
    ASSUME NodeInv, GoneIsSilent, [NodeNext]_nodeVars, NEW b \in Boots, thread'[b] \in Gone
    PROVE  /\ process'[b] = "dead" /\ up'[b] = <<>>
           /\ thread[b] \in Gone \/ disconnect(b)
           /\ thread[b] \in Gone => ~heartbeat(b)
<1>1. /\ thread \in [Boots -> Threads]
      /\ up \in [Boots -> Seq(Frame)]
      /\ process \in [Boots -> {"unborn", "running", "dead"}]
    BY DEF NodeInv, NodeTypeOK, Threads
<1>2. thread[b] \in Gone => ~heartbeat(b)
    BY DEF heartbeat, received, Gone
<1>3. thread[b] \in Gone \/ disconnect(b)
    <2>1. ASSUME NEW x \in Boots, start(x) \/ serve(x) \/ crash(x) \/ connection(x),
                 ~disconnect(b)
          PROVE  thread[b] \in Gone
        BY <1>1, <2>1, Zenon
        DEF start, serve, crash, connection, hello, enlist, register_target, capability,
            evidence, heartbeat, result, answer, disconnect, detach, close, received, Gone
    <2>2. ASSUME NEW c \in Clients, request(c) \/ dispatching(c) PROVE thread[b] \in Gone
        BY <2>2, Zenon DEF request, dispatching, prepare, lookup, confirm, abandon, await, send,
                    report_unsent, cancel_unsent, get, connVars
    <2>3. QED BY <2>1, <2>2 DEF NodeNext, define_operation, ask_plan, nodeVars, connVars
<1>4. CASE thread[b] \in Gone
    <2>1. thread[b] # "recv" /\ process[b] = "dead" /\ up[b] = <<>>
        BY <1>4 DEF GoneIsSilent, Gone
    <2>2. ASSUME NEW x \in Boots, start(x) \/ serve(x) \/ crash(x) \/ connection(x)
          PROVE  process'[b] = process[b] /\ up'[b] = up[b]
        BY <1>1, <2>1, <2>2, ZenonT(30)
        DEF start, serve, crash, connection, hello, enlist, register_target, capability,
            evidence, heartbeat, result, answer, disconnect, detach, close, received
    <2>3. ASSUME NEW c \in Clients, request(c) \/ dispatching(c)
          PROVE  process'[b] = process[b] /\ up'[b] = up[b]
        BY <2>3, Zenon DEF request, dispatching, prepare, lookup, confirm, abandon, await, send,
                    report_unsent, cancel_unsent, get, connVars
    <2>4. QED
        BY <1>2, <1>4, <2>1, <2>2, <2>3 DEF NodeNext, define_operation, ask_plan, nodeVars, connVars
<1>5. CASE disconnect(b)
    BY <1>2, <1>5 DEF disconnect
<1>6. QED BY <1>3, <1>4, <1>5

LEMMA LossStep ==
    ASSUME NodeInv, SafetyInv, LossInv, [NodeNext]_nodeVars
    PROVE  LossInv'
<1>0. TypeInv /\ [Next]_vars /\ TypeOK
    BY EngineStep DEF NodeInv, TypeInv
<1>1. TargetsAreOwned' /\ HelloIsFirst'
    BY OwnedStep, HelloStep DEF LossInv
<1>2. ASSUME NEW b \in Boots, thread'[b] \in Gone
      PROVE  /\ process'[b] = "dead" /\ up'[b] = <<>>
             /\ \A t \in Targets : runtime'[t] # None /\ runtime'[t].owner_boot = b =>
                    ~runtime'[t].dynamic_current
             /\ \A p \in existing' : plans'[p].snapshot.worker_boot = b =>
                    plans'[p].lifecycle \notin Live
    <2>1. process'[b] = "dead" /\ up'[b] = <<>> /\ (thread[b] \in Gone \/ disconnect(b))
        BY <1>2, GoneStep DEF LossInv
    <2>2. CASE thread[b] \in Gone
        <3>1. ASSUME NEW t \in Targets, runtime'[t] # None, runtime'[t].owner_boot = b
              PROVE  ~runtime'[t].dynamic_current
            <4>1. CASE Kept(t)
                BY <2>2, <3>1, <4>1, Zenon DEF Kept, LossInv, GoneIsSilent
            <4>2. ~Revived(t)
                <5> SUFFICES ASSUME Revived(t) PROVE FALSE
                    OBVIOUS
                <5>1. PICK x \in Boots : heartbeat(x) /\ Published[x].register.target = t
                    BY Zenon DEF Revived
                <5>2. runtime[t] # None /\ runtime[t].owner_boot = b
                    BY <3>1, Zenon DEF Revived
                <5>3. Published[b].register.target = t
                    BY <5>2, Zenon DEF LossInv, TargetsAreOwned
                <5>4. x = b
                    BY <5>1, <5>3, OwnTarget
                <5>5. ~heartbeat(b)
                    BY <1>2, <2>2, GoneStep, Zenon DEF LossInv
                <5>6. QED BY <5>1, <5>4, <5>5, Zenon
            <4>3. CASE Registered(t)
                BY <4>3 DEF Registered
            <4>4. QED BY <4>1, <4>2, <4>3, TargetStep
        <3>2. ASSUME NEW p \in existing', plans'[p].snapshot.worker_boot = b
              PROVE  plans'[p].lifecycle \notin Live
            <4>1. p \in existing
                BY <1>0, <2>2, <3>2, NewPlanPinned DEF LossInv, GoneIsSilent
            <4>2. /\ plans'[p].snapshot = plans[p].snapshot
                  /\ Forward(plans[p].lifecycle, plans'[p].lifecycle)
                BY <1>0, <4>1, StepFacts DEF PlanStep
            <4>3. plans[p].lifecycle \notin Live
                BY <2>2, <3>2, <4>1, <4>2 DEF LossInv, LostWorkerHasNoLivePlan, pinned_to, Gone
            <4>4. QED BY <4>2, <4>3 DEF Forward, Live, InFlight
        <3>3. QED BY <2>1, <3>1, <3>2
    <2>3. CASE disconnect(b)
        BY <2>1, <2>3, DisconnectEffect DEF LossInv
    <2>4. QED BY <2>1, <2>2, <2>3
<1>3. GoneIsSilent'
    BY <1>2 DEF GoneIsSilent
<1>4. LostWorkerHasNoLivePlan'
    BY <1>2 DEF LostWorkerHasNoLivePlan, pinned_to, Gone
<1>5. QED BY <1>1, <1>3, <1>4 DEF LossInv

LEMMA LossInit == NodeInit => LossInv
<1> SUFFICES ASSUME NodeInit PROVE LossInv
    OBVIOUS
<1>1. existing = {} /\ \A t \in Targets : targets[t] = None /\ runtime[t] = None
    BY DEF NodeInit, Init, existing
<1>2. \A b \in Boots : up[b] = <<>> /\ down[b] = <<>> /\ thread[b] = "none"
    BY DEF NodeInit
<1>3. QED
    BY <1>1, <1>2
    DEF LossInv, TargetsAreOwned, HelloIsFirst, GoneIsSilent, LostWorkerHasNoLivePlan, Gone,
        pinned_to

\* The safety of the control plane carries over to the processes, and so does the loss of a worker.
LEMMA LossInvariant == NodeSpec => [](NodeInv /\ SafetyInv /\ LossInv)
<1>1. NodeSpec => []SafetyInv
    BY NodeImplementsCoordinator, Safety, PTL
<1>2. NodeInv /\ SafetyInv /\ LossInv /\ [NodeNext]_nodeVars => LossInv'
    BY LossStep
<1>3. QED BY <1>1, <1>2, LossInit, NodeInvariant, PTL DEF NodeSpec

\* Once a connection thread has handled the loss of its worker, no plan pinned to that worker can
\* execute or commit, and none is made: not by a client thread that is half way through
\* dispatching it, not by a heartbeat or a registration of another worker.
THEOREM LostWorkerIsOut == NodeSpec => []LostWorkerHasNoLivePlan
<1>1. LossInv => LostWorkerHasNoLivePlan
    BY DEF LossInv
<1>2. QED BY <1>1, LossInvariant, PTL

-----------------------------------------------------------------------------
(* A client that waits.                                                    *)

AfterAwait == {"sending", "waiting", "unsent", "cancelling"}

\* The thread of a connection before it has resolved what waits for its worker.
Attending == {"recv", "greeting", "replying", "detaching"}

\* A worker that is listed has said HELLO, and its connection is attended to.
ListedAreAttended ==
    \A b \in Boots :
        /\ b \in node_workers \/ thread[b] = "greeting" => greeted(b)
        /\ b \in node_workers => thread[b] \in Attending

\* A worker that a client has found was started; one that a client failed to send to is dead.
WorkersAreStarted ==
    \A c \in Clients :
        /\ client[c].pc \in {"found", "confirmed"} \cup AfterAwait =>
              process[client[c].msg.worker_boot] # "unborn"
        /\ client[c].pc \in {"unsent", "cancelling"} =>
              process[client[c].msg.worker_boot] = "dead"

\* From await on, the promise of a client is on file until it is fulfilled.
PromisesAreFiled ==
    \A c \in Clients : client[c].pc \in AfterAwait =>
        \/ promise[client[c].dispatch] # None
        \/ pending[client[c].dispatch] = client[c].msg.worker_boot

WaitInv ==
    /\ ThreadsAreStarted /\ ListedAreAttended /\ WorkersAreStarted
    /\ PromisesAreFiled /\ WaitIsServed

\* A worker process is started once and dies once.
LEMMA ProcessMoves ==
    ASSUME NodeInv, [NodeNext]_nodeVars, NEW b \in Boots
    PROVE  /\ process[b] # "unborn" => process'[b] # "unborn"
           /\ process[b] = "dead" => process'[b] = "dead"
           /\ process[b] = "unborn" /\ process'[b] # "unborn" => client' = client
<1>0. process \in [Boots -> {"unborn", "running", "dead"}]
    BY DEF NodeInv, NodeTypeOK
<1>1. CASE process' = process
    BY <1>1
<1>2. ASSUME NEW x \in Boots, start(x) \/ crash(x)
      PROVE  /\ process[b] # "unborn" => process'[b] # "unborn"
             /\ process[b] = "dead" => process'[b] = "dead"
             /\ client' = client
    BY <1>0, <1>2 DEF start, crash
<1>3. ASSUME NEW x \in Boots, serve(x) \/ connection(x) PROVE process' = process
    BY <1>3, Zenon
    DEF serve, connection, received, hello, enlist, register_target, capability, evidence,
        heartbeat, result, answer, disconnect, detach, close
<1>4. ASSUME NEW c \in Clients, request(c) \/ dispatching(c) PROVE process' = process
    BY <1>4, Zenon
    DEF request, dispatching, prepare, lookup, confirm, abandon, await, send, report_unsent,
        cancel_unsent, get, connVars
<1>5. CASE define_operation \/ ask_plan \/ UNCHANGED nodeVars
    BY <1>1, <1>5 DEF define_operation, ask_plan, nodeVars, connVars
<1>6. QED BY <1>1, <1>2, <1>3, <1>4, <1>5 DEF NodeNext

\* A worker is listed by the thread of its own connection.
LEMMA ListMoves ==
    ASSUME [NodeNext]_nodeVars, NEW b \in node_workers' \ node_workers
    PROVE  b \in Boots /\ thread[b] = "greeting"
<1>1. ASSUME NEW x \in Boots, enlist(x) PROVE b = x /\ thread[x] = "greeting"
    BY <1>1 DEF enlist
<1>2. ASSUME NEW x \in Boots, connection(x), ~enlist(x) PROVE node_workers' \subseteq node_workers
    BY <1>2
    DEF connection, received, hello, register_target, capability, evidence, heartbeat, result,
        answer, disconnect, detach, resolve_disconnect, close
<1>3. ASSUME NEW x \in Boots, start(x) \/ serve(x) \/ crash(x) PROVE node_workers' = node_workers
    BY <1>3 DEF start, serve, crash
<1>4. ASSUME NEW c \in Clients, request(c) \/ dispatching(c) PROVE node_workers' = node_workers
    BY <1>4, Zenon
    DEF request, dispatching, prepare, lookup, confirm, abandon, await, send, report_unsent,
        cancel_unsent, get
<1>5. CASE define_operation \/ ask_plan \/ UNCHANGED nodeVars
    BY <1>5 DEF define_operation, ask_plan, nodeVars
<1>6. QED BY <1>1, <1>2, <1>3, <1>4, <1>5 DEF NodeNext

\* The boot a client's message is for.
LEMMA MessageBoot ==
    ASSUME NodeInv, NEW c \in Clients, client[c].pc \notin {"idle", "reserved"}
    PROVE  client[c].msg.worker_boot \in Boots /\ client[c].dispatch \in DispatchIds
<1>1. client[c].msg \in sent /\ client[c].dispatch \in DispatchIds
    BY Zenon DEF NodeInv, ClientsHold
<1>2. QED BY <1>1 DEF NodeInv, TypeInv, TypeOK, DispatchMsg

\* Where a client that stands at found or later came from.
LEMMA LateMove ==
    ASSUME NodeInv, [NodeNext]_nodeVars, NEW c \in Clients,
           client'[c].pc \in {"found", "confirmed"} \cup AfterAwait, client'[c] # client[c]
    PROVE  /\ client[c].pc \notin {"idle", "reserved", "waiting"}
           /\ client'[c].dispatch = client[c].dispatch /\ client'[c].msg = client[c].msg
           /\ Onward(c, client'[c].pc)
<1>1. client'[c].pc \notin {"idle", "reserved", "prepared"}
    BY DEF AfterAwait
<1>2. QED BY <1>1, ClientMoves, Zenon DEF ClientMove

\* What one step does to the thread of a connection.
LEMMA ThreadMoves ==
    ASSUME NodeInv, [NodeNext]_nodeVars, NEW b \in Boots
    PROVE  \/ thread'[b] = thread[b] \/ thread'[b] \in {"recv", "replying"}
           \/ hello(b) \/ disconnect(b) \/ detach(b) \/ close(b)
<1>0. DOMAIN thread = Boots
    BY DEF NodeInv, NodeTypeOK
<1>1. ASSUME NEW x \in Boots, start(x) \/ serve(x) \/ crash(x) \/ connection(x), x # b
      PROVE  thread'[b] = thread[b]
    BY <1>0, <1>1, ZenonT(30)
    DEF start, serve, crash, connection, received, hello, enlist, register_target, capability,
        evidence, heartbeat, result, answer, disconnect, detach, close
<1>2. CASE serve(b) \/ crash(b) \/ register_target(b) \/ capability(b) \/ evidence(b)
           \/ heartbeat(b)
    BY <1>2, Zenon DEF serve, crash, register_target, capability, evidence, heartbeat
<1>3. CASE start(b) \/ enlist(b) \/ result(b) \/ answer(b)
    BY <1>0, <1>3 DEF start, enlist, result, answer
<1>4. ASSUME NEW c \in Clients, request(c) \/ dispatching(c) PROVE thread' = thread
    BY <1>4, Zenon
    DEF request, dispatching, prepare, lookup, confirm, abandon, await, send, report_unsent,
        cancel_unsent, get, connVars
<1>5. CASE define_operation \/ ask_plan \/ UNCHANGED nodeVars
    BY <1>5, Zenon DEF define_operation, ask_plan, nodeVars, connVars
<1>6. QED BY <1>1, <1>2, <1>3, <1>4, <1>5, Zenon DEF NodeNext, connection

LEMMA ListStep ==
    ASSUME NodeInv, ListedAreAttended, [NodeNext]_nodeVars
    PROVE  ListedAreAttended'
<1> SUFFICES ASSUME NEW b \in Boots
             PROVE  /\ b \in node_workers' \/ thread'[b] = "greeting" => greeted(b)'
                    /\ b \in node_workers' => thread'[b] \in Attending
    BY Zenon DEF ListedAreAttended
<1>0. TypeInv /\ TypeOK /\ [Next]_vars /\ DOMAIN thread = Boots
    BY EngineStep DEF NodeInv, TypeInv, NodeTypeOK
<1>1. greeted(b) => greeted(b)'
    BY <1>0, GreetedStays, Zenon
<1>2. hello(b) => greeted(b)' /\ thread'[b] = "greeting"
    <2> SUFFICES ASSUME hello(b) PROVE greeted(b)' /\ thread'[b] = "greeting"
        BY Zenon
    <2>1. thread'[b] = "greeting" /\ bind_worker_session(WorkerOf[b], b)
        BY <1>0 DEF hello
    <2>2. WorkerOf[b] \in Workers /\ DOMAIN workers = Workers
        BY <1>0, PublishedTypes DEF TypeOK
    <2>3. PICK w \in [boot : Boots, connected : BOOLEAN] : workers'[WorkerOf[b]] = w
        <3>1. [boot |-> b, connected |-> TRUE] \in [boot : Boots, connected : BOOLEAN]
            OBVIOUS
        <3>2. workers'[WorkerOf[b]] = [boot |-> b, connected |-> TRUE]
            BY <2>1, <2>2, Zenon DEF bind_worker_session
        <3>3. QED BY <3>1, <3>2, Zenon
    <2>4. workers'[WorkerOf[b]] # None
        BY <2>3, PublishedTypes, Zenon
    <2>5. QED BY <2>1, <2>4, Zenon DEF greeted
<1>3. thread'[b] # "greeting" \/ thread'[b] = thread[b] \/ hello(b)
    BY <1>0, ThreadMoves, ZenonT(30) DEF disconnect, detach, close
<1>4. b \in node_workers' => b \in node_workers \/ thread[b] = "greeting"
    BY ListMoves, Zenon
<1>5. ASSUME b \in node_workers' PROVE thread'[b] \in Attending
    <2>1. greeted(b) /\ thread[b] \in Attending
        BY <1>4, <1>5 DEF ListedAreAttended, Attending
    <2>2. CASE disconnect(b)
        BY <1>0, <2>1, <2>2 DEF disconnect, greeted, Attending
    <2>3. ~detach(b)
        BY <1>5 DEF detach, resolve_disconnect
    <2>4. ~close(b)
        BY <2>1 DEF close, Attending
    <2>5. QED BY <1>2, <2>1, <2>2, <2>3, <2>4, ThreadMoves, ZenonT(30) DEF Attending
<1>6. QED BY <1>1, <1>2, <1>3, <1>4, <1>5, Zenon DEF ListedAreAttended

LEMMA WorkersStep ==
    ASSUME NodeInv, ThreadsAreStarted, ListedAreAttended, WorkersAreStarted, [NodeNext]_nodeVars
    PROVE  WorkersAreStarted'
<1>1. ASSUME NEW b \in node_workers PROVE process[b] # "unborn"
    <2>1. b \in Boots /\ thread[b] \in Attending
        BY <1>1 DEF ListedAreAttended, NodeInv, NodeTypeOK
    <2>2. QED BY <2>1 DEF ThreadsAreStarted, Attending
<1>2. ASSUME NEW c \in Clients, client'[c].pc \in {"found", "confirmed"} \cup AfterAwait
      PROVE  /\ process'[client'[c].msg.worker_boot] # "unborn"
             /\ client'[c].pc \in {"unsent", "cancelling"} =>
                   process'[client'[c].msg.worker_boot] = "dead"
    <2>1. CASE client'[c] = client[c]
        <3>1. client[c].msg.worker_boot \in Boots
            BY <1>2, <2>1, MessageBoot DEF AfterAwait
        <3>2. /\ process[client[c].msg.worker_boot] # "unborn"
              /\ client[c].pc \in {"unsent", "cancelling"} =>
                    process[client[c].msg.worker_boot] = "dead"
            BY <1>2, <2>1, Zenon DEF WorkersAreStarted
        <3>3. QED BY <2>1, <3>1, <3>2, ProcessMoves
    <2>2. CASE client'[c] # client[c]
        <3>1. /\ client[c].pc \notin {"idle", "reserved", "waiting"}
              /\ client'[c].msg = client[c].msg /\ Onward(c, client'[c].pc)
            BY <1>2, <2>2, LateMove
        <3>2. PICK b \in Boots : b = client[c].msg.worker_boot
            BY <3>1, MessageBoot
        <3>3. /\ client'[c].pc = "found" => b \in node_workers
              /\ client'[c].pc \in {"confirmed", "sending", "waiting"} =>
                    client[c].pc \in {"found", "confirmed", "sending", "cancelling"}
              /\ client'[c].pc = "unsent" => process[b] = "dead"
              /\ client'[c].pc = "cancelling" => client[c].pc = "unsent"
            BY <3>1, <3>2, ZenonT(30) DEF Onward, await, send, at
        <3>4. /\ process[b] # "unborn"
              /\ client'[c].pc \in {"unsent", "cancelling"} => process[b] = "dead"
            BY <1>1, <1>2, <3>2, <3>3, ZenonT(30) DEF WorkersAreStarted, AfterAwait
        <3>5. QED BY <3>1, <3>2, <3>4, ProcessMoves
    <2>3. QED BY <2>1, <2>2
<1>3. {"unsent", "cancelling"} \subseteq {"found", "confirmed"} \cup AfterAwait
    BY DEF AfterAwait
<1>4. QED BY <1>2, <1>3 DEF WorkersAreStarted

\* A promise that loses its entry was fulfilled.
LEMMA FulfilledIsSome ==
    ASSUME NodeInv, NEW d \in DispatchIds, Fulfils(d)
    PROVE  promise'[d] # None
<1>1. ASSUME NEW b \in Boots, answer(b), promise'[d] = outbox[b].answer
      PROVE  promise'[d] # None
    <2>1. outbox[b] \in Reply
        BY <1>1, ZenonT(30) DEF answer, NodeInv, FramesAreSent
    <2>2. QED BY <1>1, <2>1, NoneIsNoAnswer DEF Reply
<1>2. "lost" # None /\ "send_failed" # None
    BY NoneIsNoAnswer DEF Answer
<1>3. QED BY <1>1, <1>2, Zenon DEF Fulfils

LEMMA FiledStep ==
    ASSUME NodeInv, PromisesAreFiled, [NodeNext]_nodeVars
    PROVE  PromisesAreFiled'
<1> SUFFICES ASSUME NEW c \in Clients, client'[c].pc \in AfterAwait
             PROVE  \/ promise'[client'[c].dispatch] # None
                    \/ pending'[client'[c].dispatch] = client'[c].msg.worker_boot
    BY Zenon DEF PromisesAreFiled
<1>1. /\ client'[c].dispatch = client[c].dispatch /\ client'[c].msg = client[c].msg
      /\ client[c].pc \in AfterAwait \/ await(c)
    <2>1. CASE client'[c] = client[c]
        BY <2>1
    <2>2. CASE client'[c] # client[c]
        <3>1. /\ client'[c].dispatch = client[c].dispatch /\ client'[c].msg = client[c].msg
              /\ Onward(c, client'[c].pc)
            BY <2>2, LateMove
        <3>2. QED BY <3>1, ZenonT(30) DEF Onward, AfterAwait, send, at
    <2>3. QED BY <2>1, <2>2
<1>2. client[c].pc \notin {"idle", "reserved"}
    BY <1>1 DEF AfterAwait, await, at
<1>3. PICK d \in DispatchIds : d = client[c].dispatch
    BY <1>2, MessageBoot
<1>4. CASE await(c)
    <2>1. pending' = [pending EXCEPT ![d] = client[c].msg.worker_boot]
        BY <1>3, <1>4, Zenon DEF await
    <2>2. QED BY <1>1, <1>3, <2>1 DEF NodeInv, NodeTypeOK
<1>5. CASE client[c].pc \in AfterAwait
    <2>1. promise[d] # None \/ pending[d] = client[c].msg.worker_boot
        BY <1>3, <1>5, Zenon DEF PromisesAreFiled
    <2>2. ASSUME NEW e \in Clients, await(e) PROVE client[e].dispatch # d
        <3>1. c # e
            BY <1>5, <2>2 DEF await, at, AfterAwait
        <3>2. QED BY <1>3, <3>1, OwnDispatch
    <2>3. CASE pending'[d] = pending[d] /\ promise'[d] = promise[d]
        BY <1>1, <1>3, <2>1, <2>3
    <2>4. CASE Fulfils(d)
        BY <1>1, <1>3, <2>4, FulfilledIsSome
    <2>5. QED BY <1>3, <2>2, <2>3, <2>4, PromiseMoves, Zenon DEF PromiseMove
<1>6. QED BY <1>1, <1>4, <1>5

\* What one step does to the bytes on the way to worker b.
LEMMA DownMoves ==
    ASSUME NodeInv, [NodeNext]_nodeVars, NEW b \in Boots
    PROVE  \/ down'[b] = down[b] \/ serve(b) \/ crash(b)
           \/ \E m \in sent : down'[b] = Append(down[b], m)
<1>0. DOMAIN down = Boots
    BY DEF NodeInv, NodeTypeOK
<1>1. ASSUME NEW x \in Boots, start(x) \/ connection(x) PROVE down' = down
    BY <1>1, Zenon
    DEF start, connection, received, hello, enlist, register_target, capability, evidence,
        heartbeat, result, answer, disconnect, detach, close
<1>2. ASSUME NEW x \in Boots, serve(x) \/ crash(x), x # b PROVE down'[b] = down[b]
    BY <1>0, <1>2 DEF serve, crash
<1>3. ASSUME NEW c \in Clients, send(c)
      PROVE  down'[b] = down[b] \/ \E m \in sent : down'[b] = Append(down[b], m)
    <2>1. PICK m \in sent : m = client[c].msg
        BY <1>3, Zenon DEF send, at, NodeInv, ClientsHold
    <2>2. down' = down \/ down' = [down EXCEPT ![m.worker_boot] = Append(@, m)]
        BY <1>3, <2>1, Zenon DEF send
    <2>3. QED BY <1>0, <2>2
<1>4. ASSUME NEW c \in Clients, request(c) \/ dispatching(c), ~send(c) PROVE down' = down
    BY <1>4, Zenon
    DEF request, dispatching, prepare, lookup, confirm, abandon, await, report_unsent,
        cancel_unsent, get, connVars
<1>5. CASE define_operation \/ ask_plan \/ UNCHANGED nodeVars
    BY <1>5 DEF define_operation, ask_plan, nodeVars, connVars
<1>6. QED BY <1>1, <1>2, <1>3, <1>4, <1>5, Zenon DEF NodeNext

\* What one step does to the bytes on the way back: only the RESULT handler takes a RESULT.
LEMMA UpMoves ==
    ASSUME NodeInv, [NodeNext]_nodeVars, NEW b \in Boots
    PROVE  \/ up'[b] = up[b] \/ start(b) \/ crash(b)
           \/ \E f \in Wire : up'[b] = Append(up[b], f)
           \/ /\ up[b] # <<>> /\ up'[b] = Tail(up[b])
              /\ Head(up[b]).type = "RESULT" => result(b)
<1>0. DOMAIN up = Boots
    BY DEF NodeInv, NodeTypeOK
<1>1. ASSUME NEW x \in Boots, x # b, start(x) \/ serve(x) \/ crash(x) \/ connection(x)
      PROVE  up'[b] = up[b]
    BY <1>0, <1>1, ZenonT(30)
    DEF start, serve, crash, connection, received, hello, enlist, register_target, capability,
        evidence, heartbeat, result, answer, disconnect, detach, close
<1>2. CASE serve(b)
    <2>1. PICK outcome \in {"intact", "unknown"} :
            up' = IF b \in Holding THEN up
                  ELSE [up EXCEPT ![b] = Append(@, [type |-> "RESULT", msg |-> Head(down[b]),
                                                    outcome |-> outcome])]
        BY <1>2, Zenon DEF serve
    <2>2. Head(down[b]) \in sent
        BY <1>2, HeadAndTail DEF serve, NodeInv, FramesAreSent
    <2>3. sent \subseteq DispatchMsg
        BY Zenon DEF NodeInv, TypeInv, TypeOK
    <2>4. PICK f \in Wire : f = [type |-> "RESULT", msg |-> Head(down[b]), outcome |-> outcome]
        <3>1. [type |-> "RESULT", msg |-> Head(down[b]), outcome |-> outcome] \in Wire
            BY <2>2, <2>3 DEF Wire, Frame, FrameType
        <3>2. QED BY <3>1, Zenon
    <2>5. up' = up \/ up' = [up EXCEPT ![b] = Append(@, f)]
        BY <2>1, <2>4, Zenon
    <2>6. QED BY <1>0, <2>5
<1>3. ASSUME NEW type, received(b, type), type = "RESULT" => result(b)
      PROVE  /\ up[b] # <<>> /\ up'[b] = Tail(up[b])
             /\ Head(up[b]).type = "RESULT" => result(b)
    BY <1>0, <1>3 DEF received
<1>4. CASE connection(b)
    <2>1. \/ up' = up
          \/ \E type : received(b, type) /\ (type = "RESULT" => result(b))
        <3>1. CASE result(b)
            BY <3>1, Zenon DEF result
        <3>2. CASE \/ hello(b) \/ register_target(b) \/ capability(b) \/ evidence(b)
                   \/ heartbeat(b)
            <4>1. \E type \in {"HELLO", "REGISTER_TARGET", "CAPABILITY", "DATA_EVIDENCE", "HEARTBEAT"} :
                    received(b, type)
                BY <3>2, Zenon DEF hello, register_target, capability, evidence, heartbeat
            <4>2. QED BY <4>1
        <3>3. CASE enlist(b) \/ answer(b) \/ disconnect(b) \/ detach(b) \/ close(b)
            BY <3>3, Zenon DEF enlist, answer, disconnect, detach, close
        <3>4. QED BY <1>4, <3>1, <3>2, <3>3, Zenon DEF connection
    <2>2. QED BY <1>3, <2>1, Zenon
<1>5. ASSUME NEW c \in Clients, request(c) \/ dispatching(c) PROVE up' = up
    BY <1>5, Zenon
    DEF request, dispatching, prepare, lookup, confirm, abandon, await, send, report_unsent,
        cancel_unsent, get, connVars
<1>6. CASE define_operation \/ ask_plan \/ UNCHANGED nodeVars
    BY <1>6 DEF define_operation, ask_plan, nodeVars, connVars
<1>7. QED BY <1>1, <1>2, <1>4, <1>5, <1>6, Zenon DEF NodeNext

\* What a queue holds after a frame was taken from its head.
LEMMA QueueShrinks ==
    ASSUME NEW S, NEW q \in Seq(S), q # <<>>, NEW i \in DOMAIN q
    PROVE  \/ q[i] = Head(q)
           \/ \E j \in DOMAIN Tail(q) : Tail(q)[j] = q[i]
<1>1. CASE i = 1
    BY <1>1
<1>2. CASE i # 1
    <2>1. i - 1 \in DOMAIN Tail(q) /\ Tail(q)[i - 1] = q[i]
        BY <1>2, HeadAndTail
    <2>2. QED BY <2>1
<1>3. QED BY <1>1, <1>2

\* What a connection holds after a frame was sent on it, in either direction.
LEMMA DownGrows ==
    ASSUME NEW b \in Boots, NEW m \in sent, down[b] \in Seq(sent), down'[b] = Append(down[b], m)
    PROVE  /\ \A i \in DOMAIN down[b] : i \in DOMAIN down'[b] /\ down'[b][i] = down[b][i]
           /\ \E i \in DOMAIN down'[b] : down'[b][i] = m
<1>1. PICK s, q : s \in Seq(sent) /\ s = down[b] /\ q = down'[b]
    BY Zenon
<1>2. q = Append(s, m)
    BY <1>1, Zenon
<1>3. /\ \A i \in DOMAIN s : i \in DOMAIN q /\ q[i] = s[i]
      /\ \E i \in DOMAIN q : q[i] = m
    BY <1>1, <1>2, Grown
<1>4. QED BY <1>1, <1>3, Zenon

LEMMA UpGrows ==
    ASSUME NEW b \in Boots, NEW f \in Wire, up[b] \in Seq(Wire), up'[b] = Append(up[b], f)
    PROVE  /\ \A i \in DOMAIN up[b] : i \in DOMAIN up'[b] /\ up'[b][i] = up[b][i]
           /\ \E i \in DOMAIN up'[b] : up'[b][i] = f
<1>1. PICK s, q : s \in Seq(Wire) /\ s = up[b] /\ q = up'[b]
    BY Zenon
<1>2. q = Append(s, f)
    BY <1>1, Zenon
<1>3. /\ \A i \in DOMAIN s : i \in DOMAIN q /\ q[i] = s[i]
      /\ \E i \in DOMAIN q : q[i] = f
    BY <1>1, <1>2, Grown
<1>4. QED BY <1>1, <1>3, Zenon

outgoing(d, b) == \E i \in DOMAIN down[b] : down[b][i].dispatch = d

returning(d, b) == \E i \in DOMAIN up[b] : up[b][i].type = "RESULT" /\ up[b][i].msg.dispatch = d

\* A dispatch on its way to a live worker that does not withhold results stays there, or its
\* result is sent.
LEMMA OutgoingStep ==
    ASSUME NodeInv, [NodeNext]_nodeVars, NEW b \in Boots \ Holding, NEW d,
           process'[b] = "running", outgoing(d, b)
    PROVE  outgoing(d, b)' \/ returning(d, b)'
<1>0. /\ down[b] \in Seq(sent) /\ up[b] \in Seq(Wire) /\ DOMAIN down = Boots
      /\ DOMAIN up = Boots /\ DOMAIN process = Boots
    BY DEF NodeInv, FramesAreSent, NodeTypeOK
<1>1. PICK i \in DOMAIN down[b] : down[b][i].dispatch = d
    BY Zenon DEF outgoing
<1>2. CASE down'[b] = down[b]
    BY <1>1, <1>2, Zenon DEF outgoing
<1>3. ASSUME NEW m \in sent, down'[b] = Append(down[b], m) PROVE outgoing(d, b)'
    <2>1. i \in DOMAIN down'[b] /\ down'[b][i] = down[b][i]
        BY <1>0, <1>3, DownGrows, Zenon
    <2>2. QED BY <1>1, <2>1, Zenon DEF outgoing
<1>4. CASE serve(b)
    <2>1. /\ down[b] # <<>> /\ down'[b] = Tail(down[b])
        BY <1>0, <1>4 DEF serve
    <2>2. PICK f : /\ f.type = "RESULT" /\ f.msg = Head(down[b])
                   /\ up'[b] = Append(up[b], f) /\ f \in Wire
        <3>1. PICK outcome \in {"intact", "unknown"} :
                up' = [up EXCEPT ![b] = Append(@, [type |-> "RESULT", msg |-> Head(down[b]),
                                                   outcome |-> outcome])]
            BY <1>4, Zenon DEF serve
        <3>2. Head(down[b]) \in sent /\ sent \subseteq DispatchMsg
            BY <1>0, <2>1, HeadAndTail DEF NodeInv, TypeInv, TypeOK
        <3>3. PICK f : f = [type |-> "RESULT", msg |-> Head(down[b]), outcome |-> outcome]
            BY Zenon
        <3>4. f.type = "RESULT" /\ f.msg = Head(down[b])
            BY <3>3
        <3>5. f \in Wire
            BY <3>2, <3>3 DEF Wire, Frame, FrameType
        <3>6. up' = [up EXCEPT ![b] = Append(@, f)]
            BY <3>1, <3>3, Zenon
        <3>7. up'[b] = Append(up[b], f)
            BY <1>0, <3>6
        <3>8. QED BY <3>4, <3>5, <3>7
    <2>3. CASE down[b][i] = Head(down[b])
        <3>1. PICK j \in DOMAIN up'[b] : up'[b][j] = f
            BY <1>0, <2>2, UpGrows, Zenon
        <3>2. QED BY <1>1, <2>2, <2>3, <3>1, Zenon DEF returning
    <2>4. CASE \E j \in DOMAIN Tail(down[b]) : Tail(down[b])[j] = down[b][i]
        BY <1>1, <2>1, <2>4, Zenon DEF outgoing
    <2>5. QED BY <1>0, <2>1, <2>3, <2>4, QueueShrinks, ZenonT(30)
<1>5. ~crash(b)
    BY <1>0 DEF crash
<1>6. QED BY <1>2, <1>3, <1>4, <1>5, DownMoves, Zenon

\* A result on its way back stays there, or the thread of the connection has it in hand.
LEMMA ReturningStep ==
    ASSUME NodeInv, [NodeNext]_nodeVars, NEW b \in Boots, NEW d,
           process[b] # "unborn", process'[b] = "running", returning(d, b)
    PROVE  returning(d, b)' \/ (thread'[b] = "replying" /\ outbox'[b].dispatch = d)
<1>0. /\ up[b] \in Seq(Wire) /\ DOMAIN up = Boots /\ DOMAIN process = Boots
      /\ DOMAIN thread = Boots /\ DOMAIN outbox = Boots
    BY DEF NodeInv, FramesAreSent, NodeTypeOK
<1>1. PICK i \in DOMAIN up[b] : up[b][i].type = "RESULT" /\ up[b][i].msg.dispatch = d
    BY Zenon DEF returning
<1>2. CASE up'[b] = up[b]
    BY <1>1, <1>2, Zenon DEF returning
<1>3. ASSUME NEW f \in Wire, up'[b] = Append(up[b], f) PROVE returning(d, b)'
    <2>1. i \in DOMAIN up'[b] /\ up'[b][i] = up[b][i]
        BY <1>0, <1>3, UpGrows, Zenon
    <2>2. QED BY <1>1, <2>1, Zenon DEF returning
<1>4. CASE /\ up[b] # <<>> /\ up'[b] = Tail(up[b])
           /\ Head(up[b]).type = "RESULT" => result(b)
    <2>1. CASE up[b][i] = Head(up[b])
        <3>1. result(b) /\ Head(up[b]).msg.dispatch = d
            BY <1>1, <1>4, <2>1, Zenon
        <3>2. PICK reply, a : /\ reply = [dispatch |-> d, answer |-> a]
                              /\ outbox' = [outbox EXCEPT ![b] = reply]
            BY <3>1, Zenon DEF result
        <3>3. reply.dispatch = d
            BY <3>2
        <3>4. outbox'[b] = reply /\ thread'[b] = "replying"
            BY <1>0, <3>1, <3>2, Zenon DEF result
        <3>5. QED BY <3>3, <3>4, Zenon
    <2>2. CASE \E j \in DOMAIN Tail(up[b]) : Tail(up[b])[j] = up[b][i]
        BY <1>1, <1>4, <2>2, Zenon DEF returning
    <2>3. QED BY <1>0, <1>4, <2>1, <2>2, QueueShrinks
<1>5. ~crash(b) /\ ~start(b)
    BY <1>0 DEF crash, start
<1>6. QED BY <1>2, <1>3, <1>4, <1>5, UpMoves, Zenon

\* The dispatch of a client that waits leaves the connection only by its answer.
LEMMA TransitStep ==
    ASSUME NodeInv, ThreadsAreStarted, [NodeNext]_nodeVars, NEW b \in Boots \ Holding, NEW d,
           process[b] # "unborn", process'[b] = "running", in_transit(d, b)
    PROVE  in_transit(d, b)' \/ (answer(b) /\ outbox[b].dispatch = d)
<1>1. /\ outgoing(d, b)' => in_transit(d, b)'
      /\ returning(d, b)' => in_transit(d, b)'
      /\ thread'[b] = "replying" /\ outbox'[b].dispatch = d => in_transit(d, b)'
    BY Zenon DEF in_transit, outgoing, returning
<1>2. CASE outgoing(d, b)
    BY <1>1, <1>2, OutgoingStep, Zenon
<1>3. CASE returning(d, b)
    BY <1>1, <1>3, ReturningStep, Zenon
<1>4. CASE thread[b] = "replying" /\ outbox[b].dispatch = d
    BY <1>1, <1>4, ReplyMoves, Zenon
<1>5. QED BY <1>2, <1>3, <1>4, Zenon DEF in_transit, outgoing, returning

\* A dispatch that is sent to a live worker is on its way.
LEMMA SendStep ==
    ASSUME NodeInv, NEW c \in Clients, send(c), client'[c].pc = "waiting",
           process[client[c].msg.worker_boot] = "running"
    PROVE  outgoing(client[c].dispatch, client[c].msg.worker_boot)'
<1>0. client \in [Clients -> Request] /\ client[c].pc = "sending"
    BY DEF send, at, NodeInv, NodeTypeOK, Request, Pc
<1>1. PICK m \in sent : m = client[c].msg /\ m.dispatch = client[c].dispatch
    BY <1>0, Zenon DEF NodeInv, ClientsHold
<1>2. m.worker_boot \in Boots
    BY <1>1, ZenonT(30) DEF NodeInv, TypeInv, TypeOK, DispatchMsg
<1>3. ~moves(c, "unsent")
    BY <1>0, MovesFacts, ZenonT(30) DEF Pc
<1>4. down' = [down EXCEPT ![m.worker_boot] = Append(@, m)]
    BY <1>1, <1>3, Zenon DEF send
<1>5. /\ down[m.worker_boot] \in Seq(sent)
      /\ down'[m.worker_boot] = Append(down[m.worker_boot], m)
    BY <1>2, <1>4 DEF NodeInv, FramesAreSent
<1>6. PICK i \in DOMAIN down'[m.worker_boot] : down'[m.worker_boot][i] = m
    BY <1>2, <1>5, DownGrows, Zenon
<1>7. UNCHANGED <<client[c].dispatch, client[c].msg>>
    BY <1>0, MovesFacts, ZenonT(30) DEF send, Pc
<1>8. QED BY <1>1, <1>6, <1>7, Zenon DEF outgoing

LEMMA ServedStep ==
    ASSUME NodeInv, NodeInv', WaitInv, PromisesAreFiled', ListedAreAttended',
           [NodeNext]_nodeVars
    PROVE  WaitIsServed'
<1> SUFFICES ASSUME NEW c \in Clients, client'[c].pc = "waiting",
                    promise'[client'[c].dispatch] = None
             PROVE  /\ pending'[client'[c].dispatch] = client'[c].msg.worker_boot
                    /\ process'[client'[c].msg.worker_boot] = "running"
                          /\ client'[c].msg.worker_boot \notin Holding =>
                       in_transit(client[c].dispatch, client[c].msg.worker_boot)'
    <2>1. \A b \in node_workers' : thread'[b] \in {"recv", "greeting", "replying", "detaching"}
        BY DEF ListedAreAttended, Attending, NodeInv, NodeTypeOK
    <2>2. QED BY <2>1, Zenon DEF WaitIsServed, at
<1>1. pending'[client'[c].dispatch] = client'[c].msg.worker_boot
    <2>1. "waiting" \in AfterAwait
        BY DEF AfterAwait
    <2>2. QED BY <2>1, Zenon DEF PromisesAreFiled
<1> SUFFICES ASSUME process'[client'[c].msg.worker_boot] = "running",
                    client'[c].msg.worker_boot \notin Holding
             PROVE  in_transit(client[c].dispatch, client[c].msg.worker_boot)'
    BY <1>1, Zenon
<1>2. CASE client'[c] # client[c]
    <2>1. /\ client[c].pc \notin {"idle", "reserved", "waiting"}
          /\ client'[c].dispatch = client[c].dispatch /\ client'[c].msg = client[c].msg
          /\ send(c) \/ client[c].pc = "cancelling"
        BY <1>2, LateMove, ZenonT(30) DEF Onward, AfterAwait
    <2>2. PICK b \in Boots : b = client[c].msg.worker_boot
        BY <2>1, MessageBoot
    <2>3. client[c].pc # "cancelling"
        BY <2>1, <2>2, ProcessMoves DEF WaitInv, WorkersAreStarted
    <2>4. process[b] = "running"
        <3>1. process' = process
            BY <2>1, <2>3, ZenonT(30) DEF send
        <3>2. QED BY <2>1, <2>2, <3>1
    <2>5. outgoing(client[c].dispatch, client[c].msg.worker_boot)'
        BY <2>1, <2>2, <2>3, <2>4, SendStep
    <2>6. QED BY <2>5, Zenon DEF in_transit, outgoing
<1>3. CASE client'[c] = client[c]
    <2>1. PICK b \in Boots, d \in DispatchIds : b = client[c].msg.worker_boot /\ d = client[c].dispatch
        BY <1>3, MessageBoot
    <2>2. promise[d] = None
        BY <1>3, <2>1, PromisesStep
    <2>3. process[b] # "unborn"
        BY <1>3, <2>1 DEF WaitInv, WorkersAreStarted, AfterAwait
    <2>4. process[b] = "running"
        <3>1. process[b] # "dead"
            BY <1>3, <2>1, ProcessMoves
        <3>2. process \in [Boots -> {"unborn", "running", "dead"}]
            BY Zenon DEF NodeInv, NodeTypeOK
        <3>3. QED BY <2>3, <3>1, <3>2
    <2>5. pending[d] = b /\ in_transit(d, b)
        BY <1>3, <2>1, <2>2, <2>4 DEF WaitInv, WaitIsServed, at
    <2>6. ~(answer(b) /\ outbox[b].dispatch = d)
        <3> SUFFICES ASSUME answer(b), outbox[b].dispatch = d PROVE FALSE
            OBVIOUS
        <3>1. outbox[b] \in Reply
            BY DEF answer, NodeInv, FramesAreSent
        <3>2. outbox[b].answer \in Answer /\ promise'[d] = outbox[b].answer
            <4>1. pending[d] # None
                BY <2>5, PublishedTypes
            <4>2. promise' = [promise EXCEPT ![d] = IF pending[d] = None THEN @ ELSE outbox[b].answer]
                BY <4>1, Zenon DEF answer, resolve_dispatch
            <4>3. DOMAIN promise = DispatchIds
                BY DEF NodeInv, NodeTypeOK
            <4>4. QED BY <3>1, <4>1, <4>2, <4>3 DEF Reply
        <3>3. QED BY <1>3, <2>1, <3>2, NoneIsNoAnswer
    <2>7. in_transit(d, b)'
        <3>1. b \in Boots \ Holding /\ process'[b] = "running"
            BY <1>3, <2>1, Zenon
        <3>2. QED BY <2>3, <2>5, <2>6, <3>1, TransitStep, Zenon DEF WaitInv
    <2>8. QED BY <1>3, <2>1, <2>7, Zenon DEF in_transit
<1>4. QED BY <1>2, <1>3

LEMMA WaitInit == NodeInit => WaitInv
<1> SUFFICES ASSUME NodeInit PROVE WaitInv
    OBVIOUS
<1>1. \A c \in Clients : client[c].pc = "idle"
    BY DEF NodeInit, idle
<1>2. ThreadsAreStarted /\ ListedAreAttended
    BY DEF NodeInit, ThreadsAreStarted, ListedAreAttended
<1>3. QED BY <1>1, <1>2, ZenonT(30)
      DEF WaitInv, WorkersAreStarted, PromisesAreFiled, WaitIsServed, AfterAwait, at

\* A client of CLIENT_DISPATCH is left waiting by nobody but its worker: as long as the worker
\* lives and does not withhold results, its dispatch, its result or its answer is under way, its
\* promise stays where the RESULT handler, resolve_disconnect and a failed send find it, and
\* resolve_disconnect is still to come as long as the worker is listed.
THEOREM WaitersAreServed == NodeSpec => []WaitIsServed
<1>1. NodeInv /\ WaitInv /\ [NodeNext]_nodeVars => WaitInv'
    BY NodeInvNext, StartedStep, ListStep, WorkersStep, FiledStep, ServedStep, Zenon DEF WaitInv
<1>2. WaitInv => WaitIsServed
    BY DEF WaitInv
<1>3. QED BY <1>1, <1>2, WaitInit, NodeInvariant, PTL DEF NodeSpec
=============================================================================
