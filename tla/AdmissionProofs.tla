---------------------------- MODULE AdmissionProofs ----------------------------
(***************************************************************************)
(* What is planned and admitted.  The ranking of candidates is a strict    *)
(* total order, so the candidate in front does not depend on the order in  *)
(* which the coordinator's tables list them; an operation has one live     *)
(* plan; and the slots that reserve takes and that apply_result and        *)
(* cancel_plan give back are counted, for every set of plans and targets.  *)
(***************************************************************************)
EXTENDS CoordinatorProofs, FiniteSetTheorems

\* Time limits of the provers, in seconds.
USE ZenonT(4), SMTT(15), ZenonT(30), SMTT(90)

-----------------------------------------------------------------------------
(* The ranking of candidates.                                              *)

Decisions == {"NEAR_MEMORY_SELECTED", "CONVENTIONAL_CPU_SELECTED"}

\* What rank_candidates is given: targets are the keys of a map, so no two are the same.
Candidates(C) ==
    /\ C \subseteq [target : Int, decision : Decisions, cost : Int, movement : Int,
                    latency : Int, confidence : Int]
    /\ \A a, b \in C : a.target = b.target => a = b

\* No candidate precedes itself: the comparator of std::sort is irreflexive.
LEMMA Irreflexive ==
    ASSUME NEW C, Candidates(C), NEW a \in C
    PROVE  ~precedes(a, a)
    BY SMTT(30) DEF Candidates, precedes

\* The comparator of std::sort is transitive.
LEMMA Transitive ==
    ASSUME NEW C, Candidates(C), NEW a \in C, NEW b \in C, NEW c \in C,
           precedes(a, b), precedes(b, c)
    PROVE  precedes(a, c)
    BY SMTT(30) DEF Candidates, precedes

\* Two candidates that the comparator does not order are the same: the target id breaks every tie.
LEMMA Total ==
    ASSUME NEW C, Candidates(C), NEW a \in C, NEW b \in C
    PROVE  precedes(a, b) \/ precedes(b, a) \/ a = b
<1>1. precedes(a, b) \/ precedes(b, a) \/ a.target = b.target
    BY SMTT(30) DEF Candidates, precedes
<1> QED
    BY <1>1 DEF Candidates

\* rank_candidates orders the candidates by a strict total order (planning.hpp 135-136):
\* irreflexive, transitive, and any two different candidates are ordered.
THEOREM RankingIsATotalOrder ==
    ASSUME NEW C, Candidates(C)
    PROVE  /\ \A a \in C : ~precedes(a, a)
           /\ \A a, b, c \in C : precedes(a, b) /\ precedes(b, c) => precedes(a, c)
           /\ \A a, b \in C : precedes(a, b) \/ precedes(b, a) \/ a = b
<1>1. \A a \in C : ~precedes(a, a)
    BY Irreflexive
<1>2. \A a, b, c \in C : precedes(a, b) /\ precedes(b, c) => precedes(a, c)
    BY Transitive
<1>3. \A a, b \in C : precedes(a, b) \/ precedes(b, a) \/ a = b
    BY Total
<1> QED
    BY <1>1, <1>2, <1>3

\* The planner's choice is unique: at most one candidate is in front of all others.
THEOREM FrontIsUnique ==
    ASSUME NEW C, Candidates(C), NEW a \in front(C), NEW b \in front(C)
    PROVE  a = b
<1>1. a \in C /\ b \in C /\ ~precedes(a, b) /\ ~precedes(b, a)
    BY DEF front
<1> QED
    BY <1>1, Total

\* A larger set of candidates never promotes a loser: the front of C, if it is still a
\* candidate in a subset, is the front of the subset (filtering does not reorder).
THEOREM FrontSurvivesFiltering ==
    ASSUME NEW C, Candidates(C), NEW S \in SUBSET C, NEW a \in front(C), a \in S
    PROVE  front(S) = {a}
<1>1. a \in front(S)
    BY DEF front
<1>2. Candidates(S)
    BY DEF Candidates
<1>3. \A b \in front(S) : b = a
    BY <1>1, <1>2, FrontIsUnique
<1> QED
    BY <1>1, <1>3

\* Candidates that are finitely many and at least one have a front: the smallest of the sets of
\* candidates that precede one of them is empty.
LEMMA FrontExists ==
    ASSUME NEW C, Candidates(C), IsFiniteSet(C), C # {}
    PROVE  front(C) # {}
<1> DEFINE before(a) == {b \in C : precedes(b, a)}
           T == {before(a) : a \in C}
<1>1. IsWellFoundedOn(StrictSubsetOrdering(C), SUBSET C)
    BY FS_StrictSubsetOrderingWellFounded, FS_FiniteSubsetsOfFinite
<1>2. T \subseteq SUBSET C /\ T # {}
    OBVIOUS
<1>3. PICK x \in T : \A y \in T : ~ (<<y, x>> \in StrictSubsetOrdering(C))
    <2> HIDE DEF T
    <2> QED BY <1>1, <1>2, WFMin
<1>4. PICK a \in C : x = before(a)
    BY <1>3
<1>5. ASSUME NEW b \in C, precedes(b, a) PROVE FALSE
    <2>1. before(b) \subseteq before(a)
        BY <1>5, Transitive
    <2>2. b \in before(a) /\ b \notin before(b)
        BY <1>5, Irreflexive
    <2>3. before(b) \in SUBSET C /\ before(a) \in SUBSET C /\ before(b) \in T
        OBVIOUS
    <2> HIDE DEF before, T
    <2>4. <<before(b), before(a)>> \in StrictSubsetOrdering(C)
        BY <2>1, <2>2, <2>3 DEF StrictSubsetOrdering
    <2>5. QED BY <1>3, <1>4, <2>3, <2>4
<1>6. a \in front(C)
    BY <1>5 DEF front
<1>7. QED BY <1>6

\* What the coordinator hands to the ranking are candidates, one for each eligible target.
LEMMA CandidateType ==
    ASSUME TypeOK, NEW o \in Operations, operations[o] # None, NEW t \in Targets, runtime[t] # None
    PROVE  candidate(t, operations[o], runtime[t]) \in
               [target : Int, decision : Decisions, cost : Int, movement : Int,
                latency : Int, confidence : Int]
<1>1. /\ operations[o].input_bytes \in Nat /\ operations[o].output_bytes \in Nat
      /\ runtime[t].latency_ns \in Nat /\ runtime[t].confidence \in Nat /\ t \in Nat
    BY Lookups, IdTypes DEF OperationSpec, TargetRuntime
<1>2. transfer_ns(operations[o].output_bytes) \in Int
    BY <1>1, CostConstants DEF transfer_ns
<1>3. near_total(operations[o], runtime[t]) \in Int
    BY <1>1, <1>2, CostConstants DEF near_total
<1>4. (2 * runtime[t].latency_ns) % U64 \in Int
    BY <1>1, CostConstants
<1>5. choose_path(operations[o], runtime[t]) \in Decisions
    BY DEF choose_path, Decisions
<1>6. QED BY <1>1, <1>3, <1>4, <1>5 DEF candidate

LEMMA RankedAreCandidates ==
    ASSUME TypeOK, NEW o \in Operations, operations[o] # None, NEW pol
    PROVE  Candidates(candidates(o, pol)) /\ IsFiniteSet(candidates(o, pol))
<1> DEFINE C == candidates(o, pol)
<1>1. \A c \in C : \E t \in Targets : runtime[t] # None /\ c = candidate(t, operations[o], runtime[t])
    BY Zenon DEF candidates
<1>2. \A t : candidate(t, operations[o], runtime[t]).target = t
    BY DEF candidate
<1> HIDE DEF C
<1>3. Candidates(C)
    <2>1. C \subseteq [target : Int, decision : Decisions, cost : Int, movement : Int,
                       latency : Int, confidence : Int]
        BY <1>1, CandidateType
    <2>2. \A a, b \in C : a.target = b.target => a = b
        BY <1>1, <1>2
    <2>3. QED BY <2>1, <2>2 DEF Candidates
<1>4. IsFiniteSet(Targets)
    <2>1. Targets \in SUBSET Nat /\ U64 \in Nat /\ \A t \in Targets : t <= U64
        BY IdTypes, TargetIdWidth, CostConstants
    <2>2. QED BY <2>1, FS_BoundedSetOfNaturals
<1>5. IsFiniteSet(C)
    <2> DEFINE f == [c \in C |-> c.target]
    <2>1. \A c \in C : c.target \in Targets
        BY <1>1, <1>2
    <2>2. \A a, b \in C : a.target = b.target => a = b
        BY <1>3 DEF Candidates
    <2>3. f \in Injection(C, Targets)
        BY <2>1, <2>2 DEF Injection, IsInjective
    <2>4. QED BY <1>4, <2>3, FS_Injection
<1>6. QED BY <1>3, <1>5 DEF C

\* The planner always decides: in every reachable state, for a known operation and policy, exactly
\* one of the targets that pass the hard filter is in front, and there is none only if none passes.
\* So plan_locked never falls through its ranking, and what it selects does not depend on the
\* order of the tables.
PlannerDecides ==
    \A o \in Operations, pol \in descriptors : operations[o] # None =>
        LET C == candidates(o, pol) IN C # {} => \E best \in C : front(C) = {best}

THEOREM SelectionIsDetermined == Spec => []PlannerDecides
<1>1. ASSUME TypeOK, NEW o \in Operations, NEW pol \in descriptors, operations[o] # None,
             candidates(o, pol) # {}
      PROVE  \E best \in candidates(o, pol) : front(candidates(o, pol)) = {best}
    <2> DEFINE C == candidates(o, pol)
    <2>1. Candidates(C) /\ IsFiniteSet(C)
        BY <1>1, RankedAreCandidates
    <2> HIDE DEF C
    <2>2. PICK best : best \in front(C)
        BY <1>1, <2>1, FrontExists DEF C
    <2>3. \A b \in front(C) : b = best
        BY <2>1, <2>2, FrontIsUnique
    <2>4. best \in C /\ front(C) = {best}
        BY <2>2, <2>3 DEF front
    <2>5. QED BY <2>4 DEF C
<1>2. TypeOK => PlannerDecides
    BY <1>1 DEF PlannerDecides
<1>3. QED BY <1>2, TypeCorrect, PTL

-----------------------------------------------------------------------------
(* One live plan per operation.                                            *)

\* Some plan of operation o was cancelled.
cancelled(o) == \E c \in existing : plans[c].operation = o /\ plans[c].lifecycle = "CANCELLED"

\* Why plan(o) makes no second live plan: the index entry of an operation with a live plan is
\* taken.  The entry need not name that plan: a rebuild prefers one with a larger id whose outcome
\* is unknown.
LiveIsBlocked ==
    \A p \in existing : plans[p].lifecycle \in Live =>
        active_plans[plans[p].operation] # None \/ cancelled(plans[p].operation)

LivePlanInv == SafetyInv /\ LiveIsBlocked /\ OneLivePlanUnlessCancelled

\* A non-empty set of plan ids has a last element, because ids have a width.
LEMMA LastExists ==
    ASSUME NEW T \in SUBSET PlanIds, T # {}
    PROVE  \E p \in T : \A q \in T : q <= p
<1> DEFINE D == {U64 - p : p \in T}
<1>1. T \subseteq Nat /\ \A p \in T : p < U64
    BY IdTypes, PlanIdWidth
<1>2. U64 \in Nat
    BY CostConstants
<1>3. D \subseteq Nat /\ D # {}
    <2>1. \A p \in T : U64 - p \in Nat
        BY <1>1, <1>2
    <2> QED BY <2>1
<1>4. PICK x \in D : \A y \in D : ~ (<<y, x>> \in OpToRel(<, Nat))
    BY <1>3, NatLessThanWellFounded, WFMin
<1>5. \A y \in D : x <= y
    <2> SUFFICES ASSUME NEW y \in D PROVE x <= y
        OBVIOUS
    <2>1. x \in Nat /\ y \in Nat
        BY <1>3
    <2>2. y < x => <<y, x>> \in OpToRel(<, Nat)
        BY <2>1 DEF OpToRel
    <2>3. ~(y < x)
        BY <1>4, <2>2
    <2> HIDE DEF D
    <2> QED BY <2>1, <2>3
<1>6. PICK p \in T : x = U64 - p
    OBVIOUS
<1>7. \A q \in T : q <= p
    BY <1>1, <1>2, <1>5, <1>6
<1> QED BY <1>7

\* rebuild_active_plans_locked leaves no operation with an unfinished plan without an entry.
LEMMA RebuiltCovers ==
    ASSUME NEW pl, NEW p \in PlanIds, NEW o \in Operations,
           pl[p] # None, pl[p].operation = o, pl[p].lifecycle \notin Finished
    PROVE  rebuild_active_plans(pl)[o] # None
<1> DEFINE open == {q \in PlanIds : /\ pl[q] # None
                                    /\ pl[q].operation = o
                                    /\ pl[q].lifecycle \notin Finished}
           last == {q \in open : \A r \in open : r <= q}
<1>1. last # {}
    BY LastExists
<1>2. rebuild_active_plans(pl)[o] = CHOOSE q \in last : TRUE
    BY <1>1 DEF rebuild_active_plans
<1>3. (CHOOSE q \in last : TRUE) \in PlanIds
    BY <1>1
<1> QED BY <1>2, <1>3, NoneIsNoEntry

\* Only advance_epoch takes a plan out of CANCELLED.
LEMMA CancelledStays ==
    ASSUME TypeInv, [Next]_vars, ~advance_epoch,
           NEW c \in existing, plans[c].lifecycle = "CANCELLED"
    PROVE  plans'[c].lifecycle = "CANCELLED"
<1> USE DEF catalogVars, evidenceVars, planVars
<1>0. TypeOK /\ c \in PlanIds /\ plans[c] # None
    BY DEF TypeInv, existing
<1>1. ASSUME NEW q \in PlanIds \ {c}, NEW x, plans' = [plans EXCEPT ![q] = x]
      PROVE  plans'[c].lifecycle = "CANCELLED"
    BY <1>0, <1>1 DEF TypeOK
<1>2. ASSUME NEW S \in SUBSET existing, NEW to \in Withdrawal, plans' = moved(S, to), c \notin S
      PROVE  plans'[c].lifecycle = "CANCELLED"
    BY <1>0, <1>2, MovedFacts
<1>3. ASSUME NEW b \in Boots, invalidate_boot(b) PROVE plans'[c].lifecycle = "CANCELLED"
    BY <1>2, <1>3 DEF invalidate_boot, unfinished, pinned_to, Withdrawal, Finished
<1>4. ASSUME NEW t \in Targets, retire_target(t) PROVE plans'[c].lifecycle = "CANCELLED"
    BY <1>2, <1>4 DEF retire_target, unfinished, placed_on, Withdrawal, Finished
<1>5. ASSUME NEW q \in PlanIds, reserve(q) \/ cancel_plan(q)
      PROVE  plans'[c].lifecycle = "CANCELLED"
    <2>1. q # c
        BY <1>5 DEF reserve, cancel_plan, in, Finished
    <2>2. \E x : plans' = [plans EXCEPT ![q] = x]
        BY <1>5 DEF reserve, cancel_plan
    <2>3. QED BY <1>1, <2>1, <2>2
<1>6. ASSUME NEW q \in PlanIds, NEW d \in DispatchIds,
             prepare_dispatch(q, d) \/ confirm_dispatched(q, d)
      PROVE  plans'[c].lifecycle = "CANCELLED"
    <2>1. q # c
        BY <1>6 DEF prepare_dispatch, confirm_dispatched, in
    <2>2. \E x : plans' = [plans EXCEPT ![q] = x]
        BY <1>6 DEF prepare_dispatch, confirm_dispatched
    <2>3. QED BY <1>1, <2>1, <2>2
<1>7. ASSUME NEW m \in sent \cup StrayResults, NEW outcome, apply_result(m, outcome)
      PROVE  plans'[c].lifecycle = "CANCELLED"
    <2>1. m.plan \in PlanIds /\ m.plan # c
        BY <1>0, <1>7, InputTypes DEF apply_result, accepted, in, InFlight, TypeOK, DispatchMsg
    <2>2. \E x : plans' = [plans EXCEPT ![m.plan] = x]
        BY <1>7 DEF apply_result
    <2>3. QED BY <1>1, <2>1, <2>2
<1>8. ASSUME NEW o \in Operations, plan(o) PROVE plans'[c].lifecycle = "CANCELLED"
    <2>1. PICK q \in PlanIds \ existing : \E x : plans' = [plans EXCEPT ![q] = x]
        BY <1>8 DEF plan
    <2>2. QED BY <1>1, <2>1
<1>9. QED
    BY <1>3, <1>4, <1>5, <1>6, <1>7, <1>8
    DEF Next, vars, register, create_operation, bind_worker_session, apply_register_target,
        apply_capability, apply_data_evidence, apply_heartbeat, begin_drain, fence_worker,
        on_worker_disconnected

\* advance_epoch leaves no live plan.
LEMMA EpochLeavesNoneLive ==
    ASSUME TypeInv, advance_epoch
    PROVE  \A p \in existing' : plans'[p].lifecycle \notin Live
<1>1. TypeOK /\ uncommitted(existing) \in SUBSET existing /\ unknown_or_superseded \in Withdrawal
    BY DEF TypeInv, uncommitted, Withdrawal
<1>2. plans' = moved(uncommitted(existing), unknown_or_superseded)
    BY DEF advance_epoch
<1>3. existing' = existing
    BY <1>1, <1>2, MovedFacts DEF existing
<1>4. ASSUME NEW p \in existing PROVE plans'[p].lifecycle \notin Live
    <2>1. CASE p \in uncommitted(existing)
        <3>1. plans'[p].lifecycle = unknown_or_superseded[plans[p].lifecycle]
            BY <1>1, <1>2, <2>1, MovedFacts
        <3>2. plans[p].lifecycle \in ExecutionLifecycle
            BY <1>1, Lookups
        <3>3. QED BY <1>1, <3>1, <3>2, WithdrawalType DEF Live, InFlight
    <2>2. CASE p \notin uncommitted(existing)
        <3>1. plans'[p] = plans[p]
            BY <1>1, <1>2, <2>2, MovedFacts DEF existing
        <3>2. QED BY <2>2, <3>1 DEF uncommitted, Live, InFlight
    <2>3. QED BY <2>1, <2>2
<1>5. QED BY <1>3, <1>4

\* A new plan is a plan of the operation it is made for.
LEMMA NewPlanOperation == ASSUME NEW o, NEW t PROVE new_plan(o, t).operation = o
BY Zenon DEF new_plan

\* plan(o) adds one plan of o, only when the index has no entry for o, and enters it there.
LEMMA PlanAdds ==
    ASSUME TypeInv, NEW o \in Operations, plan(o)
    PROVE  \E n \in PlanIds : /\ existing' \subseteq existing \cup {n}
                              /\ plans'[n].operation = o
                              /\ active_plans[o] = None
                              /\ active_plans' = [active_plans EXCEPT ![o] = n]
<1>0. TypeOK
    BY DEF TypeInv
<1>1. PICK n \in PlanIds : \E t : /\ plans' = [plans EXCEPT ![n] = new_plan(o, t)]
                                  /\ active_plans' = [active_plans EXCEPT ![o] = n]
    BY DEF plan
<1>2. PICK t : plans' = [plans EXCEPT ![n] = new_plan(o, t)]
    BY <1>1
<1>3. plans'[n] = new_plan(o, t) /\ \A q \in PlanIds \ {n} : plans'[q] = plans[q]
    BY <1>0, <1>2 DEF TypeOK
<1>4. existing' \subseteq existing \cup {n}
    BY <1>3 DEF existing
<1>5. plans'[n].operation = o
    BY <1>3, NewPlanOperation
<1>6. active_plans[o] = None
    BY DEF plan
<1>7. QED BY <1>1, <1>4, <1>5, <1>6

\* A live plan after a step is new or was live; what it is a plan of never changes.
LEMMA WasLive ==
    ASSUME TypeInv, [Next]_vars, NEW p \in existing', plans'[p].lifecycle \in Live, p \in existing
    PROVE  plans[p].lifecycle \in Live /\ plans'[p].operation = plans[p].operation
<1>1. PlanStep(p)
    BY StepFacts
<1>2. QED BY <1>1 DEF PlanStep, Forward, Live, InFlight

LEMMA OneLiveStep ==
    ASSUME LivePlanInv, [Next]_vars
    PROVE  OneLivePlanUnlessCancelled' /\ LiveIsBlocked'
<1> DEFINE gone(o) == \E c \in existing' : plans'[c].operation = o /\ plans'[c].lifecycle = "CANCELLED"
<1>0. TypeInv /\ TypeOK /\ TypeOK'
    BY StepFacts DEF LivePlanInv, SafetyInv
<1>1. CASE advance_epoch
    BY <1>0, <1>1, EpochLeavesNoneLive DEF OneLivePlanUnlessCancelled, LiveIsBlocked
<1>2. CASE ~advance_epoch
    <2>1. ASSUME NEW o, cancelled(o) PROVE gone(o)
        <3>1. PICK c \in existing : plans[c].operation = o /\ plans[c].lifecycle = "CANCELLED"
            BY <2>1 DEF cancelled
        <3>2. c \in existing' /\ plans'[c].operation = o
            BY <1>0, <3>1, StepFacts DEF PlanStep
        <3>3. plans'[c].lifecycle = "CANCELLED"
            BY <1>0, <1>2, <3>1, CancelledStays
        <3>4. QED BY <3>2, <3>3
    <2> HIDE DEF gone
    \* two live plans before the step, or one and an operation whose entry is free
    <2>2. ASSUME NEW p \in existing, NEW q \in existing, p # q, plans[p].lifecycle \in Live,
                 plans[q].lifecycle \in Live, plans[p].operation = plans[q].operation
          PROVE  cancelled(plans[p].operation)
        BY <2>2 DEF LivePlanInv, OneLivePlanUnlessCancelled, cancelled
    <2>3. ASSUME NEW p \in existing, plans[p].lifecycle \in Live,
                 active_plans[plans[p].operation] = None
          PROVE  cancelled(plans[p].operation)
        BY <2>3 DEF LivePlanInv, LiveIsBlocked
    <2>4. ASSUME NEW p \in existing', NEW q \in existing', p # q, plans'[p].lifecycle \in Live,
                 plans'[q].lifecycle \in Live, plans'[p].operation = plans'[q].operation
          PROVE  gone(plans'[p].operation)
        <3>1. CASE p \in existing /\ q \in existing
            <4>1. /\ plans[p].lifecycle \in Live /\ plans'[p].operation = plans[p].operation
                  /\ plans[q].lifecycle \in Live /\ plans'[q].operation = plans[q].operation
                BY <1>0, <2>4, <3>1, WasLive
            <4>2. cancelled(plans[p].operation)
                BY <2>2, <2>4, <3>1, <4>1
            <4>3. QED BY <2>1, <4>1, <4>2
        <3>2. CASE p \notin existing \/ q \notin existing
            <4>1. PICK o \in Operations : plan(o)
                BY <1>0, <3>2, NewPlans DEF existing
            <4>2. PICK n \in PlanIds : /\ existing' \subseteq existing \cup {n}
                                      /\ plans'[n].operation = o /\ active_plans[o] = None
                BY <1>0, <4>1, PlanAdds
            <4>3. PICK r \in {p, q} : r \in existing
                BY <2>4, <4>2
            <4>4. plans'[r].operation = o /\ plans'[p].operation = o
                BY <2>4, <3>2, <4>2
            <4>5. plans[r].lifecycle \in Live /\ plans[r].operation = o
                BY <1>0, <2>4, <4>3, <4>4, WasLive
            <4>6. cancelled(o)
                BY <2>3, <4>2, <4>3, <4>5
            <4>7. QED BY <2>1, <4>4, <4>6
        <3>3. QED BY <3>1, <3>2
    <2> USE DEF gone
    <2>5. OneLivePlanUnlessCancelled'
        BY <2>4 DEF OneLivePlanUnlessCancelled
    <2> HIDE DEF gone
    <2>6. ASSUME NEW p \in existing', plans'[p].lifecycle \in Live
          PROVE  active_plans'[plans'[p].operation] # None \/ gone(plans'[p].operation)
        <3>0. plans'[p].operation \in Operations /\ p \in PlanIds /\ plans'[p] # None
            BY <1>0, <2>6 DEF TypeOK, existing, ExecutionPlan
        <3>1. CASE active_plans' = rebuild_active_plans(plans')
            BY <2>6, <3>0, <3>1, RebuiltCovers DEF Live, InFlight, Finished
        <3>2. ASSUME NEW o \in Operations, plan(o)
              PROVE  active_plans'[plans'[p].operation] # None \/ gone(plans'[p].operation)
            <4>1. PICK n \in PlanIds : /\ existing' \subseteq existing \cup {n}
                                      /\ plans'[n].operation = o
                                      /\ active_plans' = [active_plans EXCEPT ![o] = n]
                BY <1>0, <3>2, PlanAdds
            <4>2. active_plans'[o] = n /\ n # None
                BY <1>0, <4>1, NoneIsNoEntry DEF TypeOK
            <4>3. CASE plans'[p].operation = o
                BY <4>2, <4>3
            <4>4. CASE plans'[p].operation # o
                <5>1. p \in existing
                    BY <4>1, <4>4
                <5>2. plans[p].lifecycle \in Live /\ plans'[p].operation = plans[p].operation
                    BY <1>0, <2>6, <5>1, WasLive
                <5>3. active_plans'[plans'[p].operation] = active_plans[plans[p].operation]
                    BY <1>0, <3>0, <4>1, <4>4, <5>2 DEF TypeOK
                <5>4. QED BY <2>1, <2>3, <5>1, <5>2, <5>3
            <4>5. QED BY <4>3, <4>4
        <3>3. CASE ~ \E o \in Operations : plan(o)
            <4>1. p \in existing
                BY <1>0, <2>6, <3>0, <3>3, NewPlans DEF existing
            <4>2. plans[p].lifecycle \in Live /\ plans'[p].operation = plans[p].operation
                BY <1>0, <2>6, <4>1, WasLive
            <4>3. CASE active_plans' = active_plans
                BY <2>1, <2>3, <4>1, <4>2, <4>3
            \* plan q closes and the entry of its operation is erased
            <4>4. ASSUME NEW q \in existing, p # q, plans[q].lifecycle \in Live \/ gone(plans[q].operation),
                         active_plans' = [active_plans EXCEPT ![plans[q].operation] = None]
                  PROVE  active_plans'[plans'[p].operation] # None \/ gone(plans'[p].operation)
                <5>1. CASE plans[p].operation = plans[q].operation
                    BY <2>1, <2>2, <4>1, <4>2, <4>4, <5>1
                <5>2. CASE plans[p].operation # plans[q].operation
                    <6>1. active_plans'[plans[p].operation] = active_plans[plans[p].operation]
                        BY <1>0, <3>0, <4>2, <4>4, <5>2 DEF TypeOK
                    <6>2. QED BY <2>1, <2>3, <4>1, <4>2, <6>1
                <5>3. QED BY <5>1, <5>2
            <4>5. ASSUME NEW m \in sent \cup StrayResults,
                         NEW outcome \in {"intact", "corrupt", "unknown"}, apply_result(m, outcome)
                  PROVE  active_plans'[plans'[p].operation] # None \/ gone(plans'[p].operation)
                <5>1. m.plan \in existing /\ plans[m.plan].lifecycle \in Live
                    BY <1>0, <4>5, InputTypes
                    DEF apply_result, accepted, in, existing, TypeOK, DispatchMsg, Live
                <5>2. verdict(outcome) \in ExecutionLifecycle \ Live
                    BY DEF verdict, ExecutionLifecycle, Live, InFlight
                <5>3. plans' = [plans EXCEPT ![m.plan].lifecycle = verdict(outcome)]
                    BY <4>5 DEF apply_result
                <5>4. plans'[m.plan].lifecycle = verdict(outcome)
                    BY <1>0, <5>1, <5>2, <5>3, OneMoved
                <5>5. p # m.plan
                    BY <2>6, <5>2, <5>4
                <5>6. QED BY <4>4, <4>5, <5>1, <5>5 DEF apply_result
            <4>6. ASSUME NEW q \in PlanIds, cancel_plan(q)
                  PROVE  active_plans'[plans'[p].operation] # None \/ gone(plans'[p].operation)
                <5>1. q \in existing /\ plans' = [plans EXCEPT ![q].lifecycle = "CANCELLED"]
                    BY <4>6 DEF cancel_plan, in, existing
                <5>2. /\ plans'[q].lifecycle = "CANCELLED"
                      /\ plans'[q].operation = plans[q].operation /\ q \in existing'
                    BY <1>0, <5>1, OneMoved DEF SameButLifecycle, existing, ExecutionLifecycle
                <5>3. gone(plans[q].operation)
                    BY <5>2 DEF gone
                <5>4. p # q
                    BY <2>6, <5>2 DEF Live, InFlight
                <5>5. QED BY <4>4, <4>6, <5>1, <5>3, <5>4 DEF cancel_plan
            <4>7. \/ active_plans' = active_plans \/ active_plans' = rebuild_active_plans(plans')
                  \/ \E m \in sent \cup StrayResults, outcome \in {"intact", "corrupt", "unknown"} :
                        apply_result(m, outcome)
                  \/ \E q \in PlanIds : cancel_plan(q)
                BY <3>3
                DEF Next, vars, catalogVars, evidenceVars, planVars, advance_epoch, register,
                    create_operation, bind_worker_session, apply_register_target,
                    apply_capability, apply_data_evidence, apply_heartbeat, reserve,
                    prepare_dispatch, confirm_dispatched, begin_drain, fence_worker,
                    on_worker_disconnected, invalidate_boot, retire_target
            <4>8. QED BY <3>1, <4>3, <4>5, <4>6, <4>7
        <3>4. QED BY <3>2, <3>3
    <2> USE DEF gone
    <2>7. LiveIsBlocked'
        BY <2>6 DEF LiveIsBlocked, cancelled
    <2>8. QED BY <2>5, <2>7
<1>3. QED BY <1>1, <1>2

\* plan() never makes a second live plan of an operation none of whose plans was cancelled,
\* although the index it consults is erased and rebuilt by six other methods.
THEOREM OneLivePlan == Spec => []OneLivePlanUnlessCancelled
<1>1. Init => LivePlanInv
    BY SafetyInit DEF LivePlanInv, LiveIsBlocked, OneLivePlanUnlessCancelled, Init, existing
<1>2. LivePlanInv /\ [Next]_vars => LivePlanInv'
    BY OneLiveStep, SafetyNext DEF LivePlanInv
<1>3. LivePlanInv => OneLivePlanUnlessCancelled
    BY DEF LivePlanInv
<1>4. QED BY <1>1, <1>2, <1>3, PTL DEF Spec

-----------------------------------------------------------------------------
(* The slots of a target.                                                  *)

\* Plans on t that took a slot and surely kept it, and plans on t that may have given back a slot
\* they never took.
kept(t) == {p \in holders(t) : plans[p].lifecycle # "SUPERSEDED"}
unearned(t) == {p \in placed_on(t) : /\ plans[p].lifecycle \in {"CANCELLED", "SUPERSEDED"}
                                     /\ plans[p].reserved_slots = 0}

\* A plan says truly whether it took a slot: not before it is admitted, always once it is.
Admitted == {"RESERVED"} \cup InFlight
SlotsRecorded ==
    \A p \in existing : /\ plans[p].lifecycle = "PLANNED" => plans[p].reserved_slots = 0
                        /\ plans[p].lifecycle \in Admitted => plans[p].reserved_slots = 1

\* The three things a step can do to the accounts.  Relabels: no slot changes hands.
Relabelled(old, new) ==
    /\ old \in {"CANCELLED", "SUPERSEDED"} => new \in {old, "SUPERSEDED"}
    /\ old = "COMMITTED" <=> new = "COMMITTED"
    /\ new = "CANCELLED" => old = "CANCELLED"
    /\ new \in Admitted => old \in Admitted
    /\ new = "PLANNED" => old = "PLANNED"

Relabels ==
    /\ reservations' = reservations
    /\ \A p \in existing : /\ plans'[p] # None
                           /\ plans'[p].target = plans[p].target
                           /\ plans'[p].reserved_slots = plans[p].reserved_slots
                           /\ Relabelled(plans[p].lifecycle, plans'[p].lifecycle)
    /\ \A p \in existing' \ existing : /\ plans'[p].lifecycle = "PLANNED"
                                       /\ plans'[p].reserved_slots = 0

\* Plan p is admitted and one slot more is counted against its target.
Takes(p) ==
    /\ plans[p].lifecycle = "PLANNED" /\ plans'[p].lifecycle = "RESERVED"
    /\ plans'[p].reserved_slots = 1 /\ plans'[p].target = plans[p].target
    /\ \A t \in Targets :
         reservations'[t].slots = IF t = plans[p].target THEN reservations[t].slots + 1
                                                         ELSE reservations[t].slots

\* Plan p commits or is cancelled and its target's count goes down, never below zero.
Gives(p) ==
    /\ \/ plans[p].lifecycle \in InFlight /\ plans'[p].lifecycle = "COMMITTED"
       \/ plans[p].lifecycle \notin Finished /\ plans'[p].lifecycle = "CANCELLED"
    /\ plans'[p].reserved_slots = plans[p].reserved_slots
    /\ plans'[p].target = plans[p].target
    /\ \A t \in Targets :
         reservations'[t].slots = IF t = plans[p].target /\ reservations[t].slots > 0
                                  THEN reservations[t].slots - 1 ELSE reservations[t].slots

\* Nothing happens to the other plans.
OnlyPlan(p) == existing' = existing /\ \A q \in existing \ {p} : plans'[q] = plans[q]

\* Withdrawing authority relabels, if nothing finished is touched or everything left of it is
\* SUPERSEDED.
LEMMA MovedRelabels ==
    ASSUME TypeOK, NEW S \in SUBSET existing, NEW to \in Withdrawal, plans' = moved(S, to),
           reservations' = reservations,
           \/ S = unfinished(S)
           \/ to = unknown_or_superseded /\ S = uncommitted(S)
    PROVE  Relabels
<1>1. /\ S \subseteq PlanIds
      /\ \A p \in PlanIds : plans'[p] = None <=> plans[p] = None
      /\ \A p \in S : /\ SameButLifecycle(plans[p], plans'[p])
                      /\ plans'[p].lifecycle = to[plans[p].lifecycle]
      /\ \A p \in PlanIds \ S : plans'[p] = plans[p]
    BY MovedFacts DEF existing
<1>2. existing' = existing
    BY <1>1 DEF existing
<1>3. ASSUME NEW p \in existing, p \notin S
      PROVE  /\ plans'[p] # None
             /\ plans'[p].target = plans[p].target
             /\ plans'[p].reserved_slots = plans[p].reserved_slots
             /\ Relabelled(plans[p].lifecycle, plans'[p].lifecycle)
    BY <1>1, <1>3 DEF Relabelled, existing
<1>4. ASSUME NEW p \in S
      PROVE  /\ plans'[p] # None
             /\ plans'[p].target = plans[p].target
             /\ plans'[p].reserved_slots = plans[p].reserved_slots
             /\ Relabelled(plans[p].lifecycle, plans'[p].lifecycle)
    <2>1. /\ plans'[p] # None
          /\ plans'[p].target = plans[p].target
          /\ plans'[p].reserved_slots = plans[p].reserved_slots
          /\ plans'[p].lifecycle = to[plans[p].lifecycle]
        BY <1>1 DEF SameButLifecycle, existing
    <2>2. plans[p].lifecycle \in ExecutionLifecycle
        BY Lookups
    <2>3. to[plans[p].lifecycle] \in {"OUTCOME_UNKNOWN", "SUPERSEDED", "FENCED"}
        BY <2>2, WithdrawalType
    <2>4. CASE S = unfinished(S)
        <3>1. plans[p].lifecycle \notin Finished
            BY <2>4 DEF unfinished
        <3>2. QED BY <2>1, <2>3, <3>1 DEF Relabelled, Finished, Admitted, InFlight
    <2>5. CASE to = unknown_or_superseded /\ S = uncommitted(S)
        <3>1. plans[p].lifecycle # "COMMITTED"
            BY <2>5 DEF uncommitted
        <3>2. plans[p].lifecycle \notin InFlight => to[plans[p].lifecycle] = "SUPERSEDED"
            BY <2>2, <2>5 DEF unknown_or_superseded
        <3>3. QED BY <2>1, <2>3, <3>1, <3>2 DEF Relabelled, Admitted, InFlight
    <2>6. QED BY <2>4, <2>5
<1>5. QED BY <1>2, <1>3, <1>4 DEF Relabels

\* Moving one plan between lifecycles that are accounted alike relabels.
LEMMA OneRelabels ==
    ASSUME TypeOK, NEW p \in existing, NEW l \in ExecutionLifecycle,
           plans' = [plans EXCEPT ![p].lifecycle = l], reservations' = reservations,
           Relabelled(plans[p].lifecycle, l)
    PROVE  Relabels
<1>1. /\ \A q \in PlanIds : plans'[q] = None <=> plans[q] = None
      /\ SameButLifecycle(plans[p], plans'[p])
      /\ plans'[p].lifecycle = l
      /\ \A q \in PlanIds \ {p} : plans'[q] = plans[q]
    BY OneMoved
<1>2. existing' = existing
    BY <1>1 DEF existing
<1>3. ASSUME NEW q \in existing \ {p} PROVE plans'[q] = plans[q] /\ plans'[q] # None
    BY <1>1 DEF existing
<1>4. QED BY <1>1, <1>2, <1>3 DEF Relabels, Relabelled, SameButLifecycle, existing

\* Giving the slot of plan p back lowers the count of p's target, never below zero.
LEMMA ReleaseSlots ==
    ASSUME TypeOK, NEW p \in existing, reservations' = release(p), NEW t \in Targets
    PROVE  reservations'[t].slots = IF t = plans[p].target /\ reservations[t].slots > 0
                                    THEN reservations[t].slots - 1 ELSE reservations[t].slots
<1>1. reservations[t].slots \in Nat /\ plans[p].target \in Targets
    BY Lookups
<1>2. CASE t = plans[p].target
    <2>1. PICK ws : reservations'[t] =
            [slots |-> IF reservations[t].slots > 0 THEN reservations[t].slots - 1 ELSE 0,
             workspace |-> ws]
        BY <1>2 DEF release, TypeOK
    <2>2. QED BY <1>1, <1>2, <2>1
<1>3. CASE t # plans[p].target
    BY <1>3 DEF release, TypeOK
<1>4. QED BY <1>2, <1>3

\* A plan that commits or is cancelled gives its slot back.
LEMMA OneGives ==
    ASSUME TypeOK, NEW p \in existing, NEW l \in ExecutionLifecycle,
           plans' = [plans EXCEPT ![p].lifecycle = l], reservations' = release(p),
           \/ plans[p].lifecycle \in InFlight /\ l = "COMMITTED"
           \/ plans[p].lifecycle \notin Finished /\ l = "CANCELLED"
    PROVE  Gives(p) /\ OnlyPlan(p)
<1>1. /\ \A q \in PlanIds : plans'[q] = None <=> plans[q] = None
      /\ SameButLifecycle(plans[p], plans'[p])
      /\ plans'[p].lifecycle = l
      /\ \A q \in PlanIds \ {p} : plans'[q] = plans[q]
    BY OneMoved
<1>2. OnlyPlan(p)
    BY <1>1 DEF OnlyPlan, existing
<1>3. Gives(p)
    BY <1>1, ReleaseSlots DEF Gives, SameButLifecycle
<1>4. QED BY <1>2, <1>3

\* Every step of the coordinator relabels, takes one slot or gives one back.
LEMMA AccountingStep ==
    ASSUME TypeInv, [Next]_vars
    PROVE  \/ Relabels
           \/ \E p \in existing : (Takes(p) \/ Gives(p)) /\ OnlyPlan(p)
<1> USE DEF catalogVars, evidenceVars, planVars
<1>0. TypeOK
    BY DEF TypeInv
<1>1. CASE plans' = plans /\ reservations' = reservations
    BY <1>1 DEF Relabels, Relabelled, existing
<1>2. CASE advance_epoch
    <2>1. /\ uncommitted(existing) \in SUBSET existing /\ unknown_or_superseded \in Withdrawal
          /\ uncommitted(existing) = uncommitted(uncommitted(existing))
        BY DEF uncommitted, Withdrawal
    <2>2. QED BY <1>0, <1>2, <2>1, MovedRelabels DEF advance_epoch
<1>3. CASE \E o \in Operations : plan(o)
    <2>1. PICK o \in Operations, p \in PlanIds \ existing :
            \E t : plans' = [plans EXCEPT ![p] = new_plan(o, t)]
        BY <1>3 DEF plan
    <2>2. PICK t : plans' = [plans EXCEPT ![p] = new_plan(o, t)]
        BY <2>1
    <2>3. plans'[p] = new_plan(o, t) /\ \A q \in PlanIds \ {p} : plans'[q] = plans[q]
        BY <1>0, <2>2 DEF TypeOK
    <2>4. new_plan(o, t).lifecycle = "PLANNED" /\ new_plan(o, t).reserved_slots = 0
        BY Zenon DEF new_plan
    <2>5. \A q \in existing : plans'[q] = plans[q] /\ plans[q] # None
        BY <2>3 DEF existing
    <2>6. existing' \ existing \subseteq {p}
        BY <2>3 DEF existing
    <2>7. reservations' = reservations
        BY <1>3 DEF plan
    <2>8. QED BY <2>3, <2>4, <2>5, <2>6, <2>7 DEF Relabels, Relabelled
<1>4. CASE \E p \in PlanIds : reserve(p)
    <2>1. PICK p \in PlanIds : reserve(p)
        BY <1>4
    <2>2. /\ p \in existing /\ plans[p] \in ExecutionPlan /\ plans[p].lifecycle = "PLANNED"
          /\ plans[p].target \in Targets
        BY <1>0, <2>1, Lookups DEF reserve, in, existing
    <2> DEFINE ws == operations[plans[p].operation].workspace
               wt == (reservations[plans[p].target].workspace + ws) % U64
    <2>3. /\ plans' = [plans EXCEPT ![p].lifecycle = "RESERVED", ![p].reserved_slots = 1,
                                    ![p].reserved_workspace = ws]
          /\ reservations' = [reservations EXCEPT ![plans[p].target] =
                                 [slots |-> @.slots + 1, workspace |-> wt]]
        BY <2>1 DEF reserve
    <2> HIDE DEF ws, wt
    <2>4. plans'[p] = [plans[p] EXCEPT !.lifecycle = "RESERVED", !.reserved_slots = 1,
                                       !.reserved_workspace = ws]
        BY <1>0, <2>3 DEF TypeOK
    <2>5. /\ plans'[p].lifecycle = "RESERVED" /\ plans'[p].reserved_slots = 1
          /\ plans'[p].target = plans[p].target
        BY <2>2, <2>4 DEF ExecutionPlan
    <2>6. \A q \in PlanIds \ {p} : plans'[q] = plans[q]
        BY <1>0, <2>3 DEF TypeOK
    <2>7. plans'[p] # None
        BY <2>2, PlansStep DEF PlanStep
    <2>8. OnlyPlan(p)
        BY <2>2, <2>6, <2>7 DEF OnlyPlan, existing
    <2>9. \A t \in Targets :
            reservations'[t].slots = IF t = plans[p].target THEN reservations[t].slots + 1
                                                            ELSE reservations[t].slots
        BY <1>0, <2>2, <2>3 DEF TypeOK
    <2>10. QED BY <2>2, <2>5, <2>8, <2>9 DEF Takes
<1>5. CASE \E p \in PlanIds, d \in DispatchIds : prepare_dispatch(p, d)
    <2>1. PICK p \in PlanIds, d \in DispatchIds : prepare_dispatch(p, d)
        BY <1>5
    <2>2. p \in existing /\ plans[p].lifecycle = "RESERVED" /\ reservations' = reservations
        BY <2>1 DEF prepare_dispatch, in, existing
    <2>3. CASE plans' = [plans EXCEPT ![p].lifecycle = "SUPERSEDED"]
        BY <1>0, <2>2, <2>3, OneRelabels DEF Relabelled, ExecutionLifecycle, Admitted, InFlight
    <2>4. CASE plans' = [plans EXCEPT ![p].dispatch = d]
        <3>1. plans[p] \in ExecutionPlan /\ plans'[p] = [plans[p] EXCEPT !.dispatch = d]
            BY <1>0, <2>2, <2>4, Lookups DEF TypeOK, existing
        <3>2. plans'[p].reserved_slots = plans[p].reserved_slots
            BY <3>1 DEF ExecutionPlan
        <3>3. /\ \A q \in PlanIds : plans'[q] = None <=> plans[q] = None
              /\ \A q \in existing : /\ plans'[q].target = plans[q].target
                                     /\ plans'[q].lifecycle = plans[q].lifecycle
              /\ \A q \in PlanIds \ {p} : plans'[q] = plans[q]
            BY <1>0, <2>2, <2>4, OneHandedOut
        <3>4. existing' = existing
            BY <3>3 DEF existing
        <3>5. QED BY <2>2, <3>2, <3>3, <3>4 DEF Relabels, Relabelled, existing
    <2>5. QED BY <2>1, <2>3, <2>4 DEF prepare_dispatch
<1>6. CASE \E p \in PlanIds, d \in DispatchIds : confirm_dispatched(p, d)
    <2>1. PICK p \in PlanIds, d \in DispatchIds : confirm_dispatched(p, d)
        BY <1>6
    <2>2. p \in existing /\ plans[p].lifecycle = "RESERVED"
        BY <2>1 DEF confirm_dispatched, in, existing
    <2>3. QED
        BY <1>0, <2>1, <2>2, OneRelabels
        DEF confirm_dispatched, Relabelled, ExecutionLifecycle, Admitted, InFlight
<1>7. CASE \E m \in sent \cup StrayResults, outcome \in {"intact", "corrupt", "unknown"} :
              apply_result(m, outcome)
    <2>1. PICK m \in sent \cup StrayResults, outcome \in {"intact", "corrupt", "unknown"} :
            apply_result(m, outcome)
        BY <1>7
    <2>2. m.plan \in PlanIds
        BY <1>0, InputTypes DEF TypeOK, DispatchMsg
    <2>3. m.plan \in existing /\ plans[m.plan].lifecycle \in InFlight
        BY <2>1, <2>2 DEF apply_result, accepted, in, existing
    <2>4. CASE outcome = "intact"
        <3>1. verdict(outcome) = "COMMITTED" /\ verdict(outcome) \in ExecutionLifecycle
            BY <2>4 DEF verdict, ExecutionLifecycle
        <3>2. QED BY <1>0, <2>1, <2>3, <2>4, <3>1, OneGives DEF apply_result
    <2>5. CASE outcome # "intact"
        <3>1. /\ verdict(outcome) \in {"FAILED", "OUTCOME_UNKNOWN"}
              /\ verdict(outcome) \in ExecutionLifecycle
            BY <2>5 DEF verdict, ExecutionLifecycle
        <3>2. Relabelled(plans[m.plan].lifecycle, verdict(outcome))
            BY <2>3, <3>1 DEF Relabelled, Admitted, InFlight
        <3>3. QED BY <1>0, <2>1, <2>3, <2>5, <3>1, <3>2, OneRelabels DEF apply_result
    <2>6. QED BY <2>4, <2>5
<1>8. CASE \E p \in PlanIds : cancel_plan(p)
    <2>1. PICK p \in PlanIds : cancel_plan(p)
        BY <1>8
    <2>2. /\ p \in existing /\ plans[p].lifecycle \notin Finished
          /\ "CANCELLED" \in ExecutionLifecycle
        BY <2>1 DEF cancel_plan, in, existing, ExecutionLifecycle
    <2>3. QED BY <1>0, <2>1, <2>2, OneGives DEF cancel_plan
<1>9. CASE \E b \in Boots : invalidate_boot(b) /\ reservations' = reservations
    <2>1. PICK b \in Boots : invalidate_boot(b) /\ reservations' = reservations
        BY <1>9
    <2>2. /\ unfinished(pinned_to(b)) \in SUBSET existing /\ unknown_or_fenced \in Withdrawal
          /\ unfinished(pinned_to(b)) = unfinished(unfinished(pinned_to(b)))
        BY DEF unfinished, pinned_to, Withdrawal
    <2>3. QED BY <1>0, <2>1, <2>2, MovedRelabels DEF invalidate_boot
<1>10. CASE \E t \in Targets : retire_target(t)
    <2>1. PICK t \in Targets : retire_target(t)
        BY <1>10
    <2>2. /\ unfinished(placed_on(t)) \in SUBSET existing /\ fenced \in Withdrawal
          /\ unfinished(placed_on(t)) = unfinished(unfinished(placed_on(t)))
        BY DEF unfinished, placed_on, Withdrawal
    <2>3. QED BY <1>0, <2>1, <2>2, MovedRelabels DEF retire_target
<1>11. QED
    BY <1>1, <1>2, <1>3, <1>4, <1>5, <1>6, <1>7, <1>8, <1>9, <1>10
    DEF Next, vars, register, create_operation, bind_worker_session, apply_register_target,
        apply_capability, apply_data_evidence, apply_heartbeat, begin_drain, fence_worker,
        on_worker_disconnected

\* Plan ids have a width, so there are finitely many plans.
LEMMA PlansAreFinite == \A S \in SUBSET PlanIds : IsFiniteSet(S) /\ Cardinality(S) \in Nat
<1>1. IsFiniteSet(PlanIds)
    <2>1. PlanIds \in SUBSET Nat /\ U64 \in Nat /\ \A p \in PlanIds : p <= U64
        BY IdTypes, PlanIdWidth, CostConstants
    <2>2. QED BY <2>1, FS_BoundedSetOfNaturals
<1>2. QED BY <1>1, FS_Subset, FS_CardinalityType

\* How the size of a set of plans changes with one element, and with inclusion.
LEMMA Counting ==
    ASSUME NEW S \in SUBSET PlanIds, NEW T \in SUBSET PlanIds
    PROVE  /\ S \subseteq T => Cardinality(S) <= Cardinality(T)
           /\ \A p \in PlanIds : p \notin S /\ T = S \cup {p} => Cardinality(T) = Cardinality(S) + 1
           /\ \A p \in PlanIds : T = S \ {p} => Cardinality(T) >= Cardinality(S) - 1
           /\ \A p \in PlanIds : p \in S /\ T = S \ {p} => Cardinality(T) = Cardinality(S) - 1
<1>1. IsFiniteSet(S) /\ IsFiniteSet(T) /\ Cardinality(S) \in Nat /\ Cardinality(T) \in Nat
    BY PlansAreFinite
<1>2. S \subseteq T => Cardinality(S) <= Cardinality(T)
    BY <1>1, FS_Subset
<1>3. ASSUME NEW p \in PlanIds, p \notin S, T = S \cup {p}
      PROVE  Cardinality(T) = Cardinality(S) + 1
    BY <1>1, <1>3, FS_AddElement
<1>4. ASSUME NEW p \in PlanIds, T = S \ {p}
      PROVE  Cardinality(T) = IF p \in S THEN Cardinality(S) - 1 ELSE Cardinality(S)
    BY <1>1, <1>4, FS_RemoveElement
<1>5. QED BY <1>1, <1>2, <1>3, <1>4

SlotInv == TypeInv /\ SlotsRecorded /\ NoPhantomSlots /\ SlotsAreHeld

\* The three sets the accounts compare are sets of plan ids.
LEMMA AccountTypes ==
    \A t \in Targets : /\ holders(t) \in SUBSET PlanIds
                       /\ kept(t) \in SUBSET PlanIds
                       /\ unearned(t) \in SUBSET PlanIds
BY DEF holders, kept, unearned, placed_on, existing

LEMMA RelabelsCounts ==
    ASSUME Relabels, NEW t \in Targets
    PROVE  /\ holders(t) \subseteq holders(t)'
           /\ kept(t)' \subseteq kept(t)
           /\ unearned(t) \subseteq unearned(t)'
<1> USE DEF holders, kept, unearned, placed_on
<1>1. \A p \in existing : p \in existing'
    BY DEF Relabels, existing
<1>2. ASSUME NEW p \in holders(t) PROVE p \in holders(t)'
    BY <1>1 DEF Relabels, Relabelled
<1>3. ASSUME NEW p \in unearned(t) PROVE p \in unearned(t)'
    BY <1>1 DEF Relabels, Relabelled
<1>4. ASSUME NEW p \in kept(t)' PROVE p \in kept(t)
    <2>1. p \in existing
        BY <1>4 DEF Relabels
    <2>2. QED BY <1>4, <2>1 DEF Relabels, Relabelled
<1>5. QED BY <1>2, <1>3, <1>4

LEMMA TakesCounts ==
    ASSUME SlotsRecorded, NEW p \in existing, Takes(p), OnlyPlan(p), NEW t \in Targets
    PROVE  IF t = plans[p].target
           THEN /\ p \notin holders(t) /\ holders(t)' = holders(t) \cup {p}
                /\ p \notin kept(t) /\ kept(t)' = kept(t) \cup {p}
                /\ unearned(t)' = unearned(t)
           ELSE /\ holders(t)' = holders(t) /\ kept(t)' = kept(t)
                /\ unearned(t)' = unearned(t)
<1> USE DEF holders, kept, unearned, placed_on, OnlyPlan
<1>1. plans[p].reserved_slots = 0
    BY DEF SlotsRecorded, Takes
<1>2. \A q \in existing \ {p} : /\ q \in holders(t)' <=> q \in holders(t)
                                /\ q \in kept(t)' <=> q \in kept(t)
                                /\ q \in unearned(t)' <=> q \in unearned(t)
    OBVIOUS
<1>3. /\ p \notin holders(t) /\ p \notin kept(t) /\ p \notin unearned(t) /\ p \notin unearned(t)'
      /\ p \in holders(t)' <=> t = plans[p].target
      /\ p \in kept(t)' <=> t = plans[p].target
    BY <1>1 DEF Takes
<1>4. /\ holders(t) \cup holders(t)' \subseteq existing
      /\ kept(t) \cup kept(t)' \subseteq existing
      /\ unearned(t) \cup unearned(t)' \subseteq existing
    OBVIOUS
<1> HIDE DEF holders, kept, unearned, placed_on, OnlyPlan
<1>5. holders(t)' = IF t = plans[p].target THEN holders(t) \cup {p} ELSE holders(t)
    BY <1>2, <1>3, <1>4
<1>6. kept(t)' = IF t = plans[p].target THEN kept(t) \cup {p} ELSE kept(t)
    BY <1>2, <1>3, <1>4
<1>7. unearned(t)' = unearned(t)
    BY <1>2, <1>3, <1>4
<1>8. QED BY <1>3, <1>5, <1>6, <1>7, Zenon

LEMMA GivesCounts ==
    ASSUME TypeOK, SlotsRecorded, NEW p \in existing, Gives(p), OnlyPlan(p), NEW t \in Targets
    PROVE  IF t = plans[p].target
           THEN /\ holders(t)' = holders(t) \ {p}
                /\ \/ p \in kept(t) /\ kept(t)' = kept(t) \ {p} /\ unearned(t)' = unearned(t)
                   \/ /\ kept(t)' = kept(t)
                      /\ p \notin unearned(t) /\ unearned(t)' = unearned(t) \cup {p}
           ELSE /\ holders(t)' = holders(t) /\ kept(t)' = kept(t)
                /\ unearned(t)' = unearned(t)
<1> USE DEF holders, kept, unearned, placed_on, OnlyPlan
<1>1. \A q \in existing \ {p} : /\ q \in holders(t)' <=> q \in holders(t)
                                /\ q \in kept(t)' <=> q \in kept(t)
                                /\ q \in unearned(t)' <=> q \in unearned(t)
    OBVIOUS
<1>2. /\ plans[p].lifecycle \notin Finished
      /\ plans'[p].lifecycle \in {"COMMITTED", "CANCELLED"}
      /\ plans'[p].lifecycle = "COMMITTED" => plans[p].reserved_slots = 1
      /\ plans[p].reserved_slots \in {0, 1}
    BY Lookups DEF Gives, SlotsRecorded, Admitted, InFlight, Finished, ExecutionPlan
<1>3. p \notin holders(t)' /\ p \notin kept(t)' /\ p \notin unearned(t)
    BY <1>2 DEF Finished
<1>4. ASSUME t # plans[p].target
      PROVE  p \notin holders(t) /\ p \notin kept(t) /\ p \notin unearned(t)'
    BY <1>4 DEF Gives
<1>5. ASSUME t = plans[p].target, plans[p].reserved_slots = 1
      PROVE  p \in kept(t) /\ p \notin unearned(t)'
    BY <1>2, <1>5 DEF Gives, Finished
<1>6. ASSUME t = plans[p].target, plans[p].reserved_slots = 0
      PROVE  p \notin kept(t) /\ p \in unearned(t)'
    BY <1>2, <1>6 DEF Gives
<1>7. /\ holders(t) \cup holders(t)' \subseteq existing
      /\ kept(t) \cup kept(t)' \subseteq existing
      /\ unearned(t) \cup unearned(t)' \subseteq existing
    OBVIOUS
<1> HIDE DEF holders, kept, unearned, placed_on, OnlyPlan
<1>8. holders(t)' = holders(t) \ {p}
    BY <1>1, <1>3, <1>7, Zenon
<1>9. p \notin kept(t) => kept(t)' = kept(t)
    BY <1>1, <1>3, <1>7
<1>10. p \notin unearned(t)' => unearned(t)' = unearned(t)
    BY <1>1, <1>3, <1>7
<1>11. CASE t # plans[p].target
    <2>1. holders(t)' = holders(t)
        BY <1>4, <1>8, <1>11, Zenon
    <2>2. QED BY <1>4, <1>9, <1>10, <1>11, <2>1, Zenon
<1>12. CASE t = plans[p].target /\ plans[p].reserved_slots = 1
    <2>1. p \in kept(t) /\ kept(t)' = kept(t) \ {p}
        BY <1>1, <1>3, <1>5, <1>7, <1>12, Zenon
    <2>2. QED BY <1>5, <1>8, <1>10, <1>12, <2>1, Zenon
<1>13. CASE t = plans[p].target /\ plans[p].reserved_slots = 0
    <2>1. p \notin unearned(t) /\ unearned(t)' = unearned(t) \cup {p}
        BY <1>1, <1>3, <1>6, <1>7, <1>13, Zenon
    <2>2. QED BY <1>6, <1>8, <1>9, <1>13, <2>1, Zenon
<1>14. QED BY <1>2, <1>11, <1>12, <1>13

LEMMA RecordedStep ==
    ASSUME TypeInv, [Next]_vars, SlotsRecorded
    PROVE  SlotsRecorded'
<1>1. CASE Relabels
    BY <1>1 DEF Relabels, Relabelled, SlotsRecorded, Admitted, InFlight
<1>2. ASSUME NEW p \in existing, Takes(p) \/ Gives(p), OnlyPlan(p)
      PROVE  SlotsRecorded'
    BY <1>2 DEF Takes, Gives, OnlyPlan, SlotsRecorded, Admitted, InFlight
<1>3. QED BY <1>1, <1>2, AccountingStep

LEMMA SlotNext == SlotInv /\ [Next]_vars => SlotInv'
<1> SUFFICES ASSUME SlotInv, [Next]_vars PROVE SlotInv'
    OBVIOUS
<1>0. TypeInv /\ TypeOK /\ SlotsRecorded /\ TypeInv' /\ TypeOK' /\ SlotsRecorded'
    BY TypeInvNext, RecordedStep DEF SlotInv, TypeInv
<1>1. ASSUME NEW t \in Targets
      PROVE  /\ reservations'[t].slots <= Cardinality(holders(t)')
             /\ Cardinality(kept(t)') <= reservations'[t].slots + Cardinality(unearned(t)')
    <2> DEFINE n  == reservations[t].slots       n1 == reservations'[t].slots
               H  == holders(t)                  H1 == holders(t)'
               K  == kept(t)                     K1 == kept(t)'
               U  == unearned(t)                 U1 == unearned(t)'
    <2>1. /\ n \in Nat /\ n1 \in Nat
          /\ H \in SUBSET PlanIds /\ H1 \in SUBSET PlanIds /\ K \in SUBSET PlanIds
          /\ K1 \in SUBSET PlanIds /\ U \in SUBSET PlanIds /\ U1 \in SUBSET PlanIds
        BY <1>0, AccountTypes DEF TypeOK, holders, kept, unearned, placed_on, existing
    <2>2. n <= Cardinality(H) /\ Cardinality(K) <= n + Cardinality(U)
        BY DEF SlotInv, NoPhantomSlots, SlotsAreHeld, kept, unearned
    <2>3. CASE Relabels
        <3>1. n1 = n /\ H \subseteq H1 /\ K1 \subseteq K /\ U \subseteq U1
            BY <2>3, RelabelsCounts DEF Relabels
        <3> HIDE DEF n, n1, H, H1, K, K1, U, U1
        <3>2. /\ Cardinality(H) <= Cardinality(H1) /\ Cardinality(K1) <= Cardinality(K)
              /\ Cardinality(U) <= Cardinality(U1)
            BY <2>1, <3>1, Counting
        <3>3. n1 <= Cardinality(H1) /\ Cardinality(K1) <= n1 + Cardinality(U1)
            BY <2>1, <2>2, <3>1, <3>2, PlansAreFinite
        <3>4. QED BY <3>3 DEF n1, H1, K1, U1
    <2>4. ASSUME NEW p \in existing, Takes(p), OnlyPlan(p)
          PROVE  n1 <= Cardinality(H1) /\ Cardinality(K1) <= n1 + Cardinality(U1)
        <3>1. \/ /\ n1 = n + 1 /\ p \notin H /\ H1 = H \cup {p}
                 /\ p \notin K /\ K1 = K \cup {p} /\ U1 = U
              \/ n1 = n /\ H1 = H /\ K1 = K /\ U1 = U
            BY <1>0, <2>4, TakesCounts DEF Takes
        <3>2. p \in PlanIds
            BY DEF existing
        <3> HIDE DEF n, n1, H, H1, K, K1, U, U1
        <3>3. \/ /\ n1 = n + 1 /\ Cardinality(H1) = Cardinality(H) + 1
                 /\ Cardinality(K1) = Cardinality(K) + 1 /\ U1 = U
              \/ n1 = n /\ H1 = H /\ K1 = K /\ U1 = U
            BY <2>1, <3>1, <3>2, Counting
        <3>4. QED BY <2>1, <2>2, <3>3, PlansAreFinite
    <2>5. ASSUME NEW p \in existing, Gives(p), OnlyPlan(p)
          PROVE  n1 <= Cardinality(H1) /\ Cardinality(K1) <= n1 + Cardinality(U1)
        <3>1. \/ /\ n1 = IF n > 0 THEN n - 1 ELSE n
                 /\ H1 = H \ {p}
                 /\ \/ p \in K /\ K1 = K \ {p} /\ U1 = U
                    \/ K1 = K /\ p \notin U /\ U1 = U \cup {p}
              \/ n1 = n /\ H1 = H /\ K1 = K /\ U1 = U
            BY <1>0, <2>5, GivesCounts DEF Gives
        <3>2. p \in PlanIds
            BY DEF existing
        <3> HIDE DEF n, n1, H, H1, K, K1, U, U1
        <3>3. \/ /\ n1 = IF n > 0 THEN n - 1 ELSE n
                 /\ Cardinality(H1) >= Cardinality(H) - 1
                 /\ \/ Cardinality(K1) = Cardinality(K) - 1 /\ U1 = U
                    \/ K1 = K /\ Cardinality(U1) = Cardinality(U) + 1
              \/ n1 = n /\ H1 = H /\ K1 = K /\ U1 = U
            BY <2>1, <3>1, <3>2, Counting
        <3>4. QED BY <2>1, <2>2, <3>3, PlansAreFinite
    <2>6. QED BY <1>0, <2>3, <2>4, <2>5, AccountingStep
<1>2. NoPhantomSlots'
    BY <1>1 DEF NoPhantomSlots
<1>3. SlotsAreHeld'
    BY <1>1 DEF SlotsAreHeld, kept, unearned
<1>4. QED BY <1>0, <1>2, <1>3 DEF SlotInv

LEMMA SlotInit == Init => SlotInv
<1> SUFFICES ASSUME Init PROVE SlotInv
    OBVIOUS
<1>1. existing = {} /\ \A t \in Targets : reservations[t].slots = 0
    BY DEF Init, existing
<1>2. \A t \in Targets : holders(t) = {} /\ kept(t) = {} /\ unearned(t) = {}
    BY <1>1 DEF holders, kept, unearned, placed_on
<1>3. Cardinality({}) = 0
    BY FS_EmptySet
<1>4. NoPhantomSlots
    BY <1>1, <1>2, <1>3 DEF NoPhantomSlots
<1>5. SlotsAreHeld
    <2>1. \A t \in Targets :
            Cardinality(kept(t)) <= reservations[t].slots + Cardinality(unearned(t))
        BY <1>1, <1>2, <1>3
    <2>2. QED BY <2>1 DEF SlotsAreHeld, kept, unearned
<1>6. QED BY <1>1, <1>4, <1>5, TypeInvInit DEF SlotInv, SlotsRecorded

\* No release is forgotten: the slots counted against a target never exceed the plans that took
\* one there and have neither committed nor been cancelled.
THEOREM NoSlotIsPhantom == Spec => []NoPhantomSlots
<1>1. SlotInv => NoPhantomSlots
    BY DEF SlotInv
<1>2. QED BY <1>1, SlotInit, SlotNext, PTL DEF Spec

\* Capacity is exceeded by no more executions than cancel_plan gave back slots for plans that
\* never took one.
THEOREM SlotsStayHeld == Spec => []SlotsAreHeld
<1>1. SlotInv => SlotsAreHeld
    BY DEF SlotInv
<1>2. QED BY <1>1, SlotInit, SlotNext, PTL DEF Spec
=============================================================================
