--------------------------- MODULE MCValidationRuns ---------------------------
(* Instances of ValidationRuns for TLC: a policy of two units, of which one *)
(* checks links, and an orchestrator of two checks.                         *)
EXTENDS ValidationRuns

MCUnit == {"motivation", "link"}
MCDeps == [u \in MCUnit |-> {}]
MCCheck == {"links", "videoPresentation"}
MCAsked == {<<>>, <<"links", "videoPresentation">>}
=============================================================================
