-------------------------- MODULE ExecutionAuthority --------------------------
(***************************************************************************)
(* What the coordinator promises about an execution, without targets,      *)
(* epochs, evidence or messages: it is open, it is decided at most once,   *)
(* only for the one holder it was last granted to, and never once its      *)
(* authority was withdrawn.                                                *)
(***************************************************************************)
CONSTANTS None, PlanIds, DispatchIds

VARIABLES
    status,     \* of each execution: none, open, committed or closed
    holder,     \* the dispatch it was last granted to
    record      \* the decisions: whose, for which holder, committed or not

authorityVars == <<status, holder, record>>

Init ==
    /\ status = [p \in PlanIds |-> "none"]
    /\ holder = [p \in PlanIds |-> None]
    /\ record = {}

Open(p) ==
    /\ status[p] = "none"
    /\ status' = [status EXCEPT ![p] = "open"]
    /\ UNCHANGED <<holder, record>>

\* A later grant takes the execution away from the earlier holder.
Grant(p, d) ==
    /\ status[p] = "open"
    /\ holder' = [holder EXCEPT ![p] = d]
    /\ UNCHANGED <<status, record>>

Decide(p, committed) ==
    /\ status[p] = "open"
    /\ holder[p] # None
    /\ status' = [status EXCEPT ![p] = IF committed THEN "committed" ELSE "closed"]
    /\ record' = record \cup {[plan |-> p, dispatch |-> holder[p], committed |-> committed]}
    /\ UNCHANGED holder

\* Fencing, retirement, cancellation, staleness or a new epoch close any number at once.
Withdraw(S) ==
    /\ \A p \in S : status[p] = "open"
    /\ status' = [p \in PlanIds |-> IF p \in S THEN "closed" ELSE status[p]]
    /\ UNCHANGED <<holder, record>>

Next ==
    \/ \E p \in PlanIds : Open(p)
    \/ \E p \in PlanIds, d \in DispatchIds : Grant(p, d)
    \/ \E p \in PlanIds, committed \in BOOLEAN : Decide(p, committed)
    \/ \E S \in SUBSET PlanIds : Withdraw(S)

Spec == Init /\ [][Next]_authorityVars
=============================================================================
