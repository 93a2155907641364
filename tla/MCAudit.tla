------------------------------- MODULE MCAudit -------------------------------
(***************************************************************************)
(* A statement the repository makes about the coordinator that the code    *)
(* does not keep.  The history variable holds the plans that committed     *)
(* while the dataset they were pinned to was superseded.                   *)
(***************************************************************************)
EXTENDS MCCoordinator

VARIABLE stale_commits

commits(p) == plans'[p] # None /\ plans'[p].lifecycle = "COMMITTED" /\ ~in(p, {"COMMITTED"})

Watch == stale_commits' = stale_commits \cup
             {p \in PlanIds : commits(p) /\ "dataset_generation" \in staleness(p)}

AuditSpec == /\ Init /\ stale_commits = {}
             /\ [][Next /\ Watch]_<<vars, stale_commits>>

\* Every completion must "match the current authoritative generation set or be rejected BEFORE
\* mutation" (include/nmc/authority.hpp); "the runtime rejects ... stale datasets" (README.md).
\* Authority is tested when the dispatch is prepared; the dataset may move before it is confirmed
\* or while the worker computes.
StaleNeverCommitted == stale_commits = {}
=============================================================================
