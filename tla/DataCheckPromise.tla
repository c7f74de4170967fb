-------------------------- MODULE DataCheckPromise --------------------------
(***************************************************************************)
(* What the data check promises whoever submitted an application and       *)
(* whoever reviews it, without queue, workers, locks or transactions: the  *)
(* units end one at a time, each once and after all it depends on; in the  *)
(* same step in which the last one ends the run has its verdict, the       *)
(* commission sees it on the card, and a run without problems has left     *)
(* the screening stage.  DataCheckPipeline implements it.                  *)
(***************************************************************************)
EXTENDS DataCheckStatus

VARIABLES
    at,       \* the stage the application is in
    outcome,  \* what each unit ended with, or open
    verdict,  \* the aggregate of the ended run, or open
    shown     \* the card: its stage, status and attention mark

vars == <<at, outcome, verdict, shown>>

VerdictOf(o) == IF AllTerminal(o) THEN RunStatusOf(o) ELSE "open"

\* The card at the screening stage: new until a unit has ended.
Screening(s, flagged) ==
    [stage |-> "initial_screening", status |-> s, attention |-> flagged]

Left(stage) == [stage |-> stage, status |-> "none", attention |-> FALSE]

Init ==
    /\ at = "application"
    /\ outcome = [u \in Unit |-> "open"]
    /\ verdict = "open"
    /\ shown = Left("application")

Submit ==
    /\ at = "application"
    /\ at' = "initial_screening"
    /\ shown' = Screening("new", FALSE)
    /\ UNCHANGED <<outcome, verdict>>

End(u, out) ==
    /\ at = "initial_screening"
    /\ outcome[u] = "open"
    /\ DependenciesMet(u, outcome)
    /\ outcome' = [outcome EXCEPT ![u] = out]
    /\ verdict' = VerdictOf(outcome')
    /\ IF verdict' = "ready"
       THEN at' = "application_review" /\ shown' = Left(at')
       ELSE /\ at' = at
            /\ shown' = IF verdict' = "open" THEN Screening("in_review", FALSE)
                        ELSE Screening("needs_attention", TRUE)

Next == Submit \/ \E u \in Unit, out \in TerminalUnitStatus : End(u, out)

Spec == Init /\ [][Next]_vars
=============================================================================
