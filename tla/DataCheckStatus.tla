--------------------------- MODULE DataCheckStatus ---------------------------
(***************************************************************************)
(* The pure rules of the data-check pipeline: unit policies, the           *)
(* dependency rule and the aggregation of unit statuses into a run status  *)
(* (services/data_check/status_service.py), and the mapping of a run       *)
(* status to the commission's stage status (reconcile_service.py).         *)
(*                                                                         *)
(* The policy table is data of the program; it is a parameter here, so     *)
(* that small instances keep its shape (a first wave without dependencies, *)
(* units that depend on it, units that depend on those).                   *)
(***************************************************************************)
EXTENDS Naturals, FiniteSets

CONSTANTS
    Unit,      \* DataCheckUnitType: the units of the policy table
    Required,  \* the units whose policy has required=True (today: all)
    Deps       \* Deps[u]: the units that policy.dependencies of u names

ASSUME PolicyAssumption ==
    /\ IsFiniteSet(Unit) /\ Unit # {}
    /\ Required \subseteq Unit
    /\ Deps \in [Unit -> SUBSET Unit]

TerminalUnitStatus == {"completed", "failed", "manual_review_required"}

UnitStatus == {"pending", "queued", "running"} \cup TerminalUnitStatus

\* An open run, as bootstrap and the sweep see it, and a finished one.
ActiveRunStatus == {"pending", "running"}
TerminalRunStatus == {"ready", "partial", "failed"}
RunStatus == ActiveRunStatus \cup TerminalRunStatus

FirstWave == {u \in Unit : Deps[u] = {}}

-----------------------------------------------------------------------------
(* The aggregation rule. "statuses" is total on Unit: the source reads a   *)
(* unit without a row as pending.                                          *)

AllTerminal(statuses) == \A u \in Unit : statuses[u] \in TerminalUnitStatus

DependenciesMet(u, statuses) ==
    \A d \in Deps[u] : statuses[d] \in TerminalUnitStatus

RunStatusOf(statuses) ==
    LET present == {statuses[u] : u \in Unit}
        requiredFailed == \E u \in Required : statuses[u] = "failed"
    IN  IF ~AllTerminal(statuses)
        THEN IF present \subseteq {"pending"} THEN "pending" ELSE "running"
        ELSE IF requiredFailed THEN "failed"
        ELSE IF present \subseteq {"completed"} THEN "ready" ELSE "partial"

\* manual_review_required of the aggregate: the commission's attention flag.
NeedsManualReview(runStatus) == runStatus \in {"partial", "failed"}

\* (mutated: one terminal dependency is enough)
FollowupsOfAnyDependency(statuses) ==
    {u \in Unit \ FirstWave : /\ statuses[u] \in {"pending", "queued"}
                              /\ \E d \in Deps[u] : statuses[d] \in TerminalUnitStatus}

\* The units that are to be queued now: dependents that wait (pending or
\* queued) while everything they depend on is terminal.
ReadyFollowups(statuses) ==
    {u \in Unit \ FirstWave : /\ statuses[u] \in {"pending", "queued"}
                              /\ DependenciesMet(u, statuses)}

StageStatus == {"none", "new", "in_review", "approved", "needs_attention"}

\* (mutated: the run status itself)
StageStatusOfRaw(runStatus) == runStatus

StageStatusOf(runStatus) ==
    CASE runStatus \in ActiveRunStatus -> "in_review"
      [] runStatus = "ready" -> "approved"
      [] runStatus \in {"partial", "failed"} -> "needs_attention"
      [] OTHER -> "in_review"
=============================================================================
