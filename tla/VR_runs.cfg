SPECIFICATION Spec
CONSTANTS
    Unit <- MCUnit
    Required <- MCUnit
    Deps <- MCDeps
    Link = "link"
    Before = {"motivation"}
    Check <- MCCheck
    Addressed = {"videoPresentation"}
    Asked <- MCAsked
    MaxRuns = 3
    MaxContent = 2
    MaxFaults = 1
    Outcome = {"completed", "failed"}
    Verdict = {"passed", "failed"}
    MaxAsked = 1
INVARIANTS ChecksStand 
PROPERTIES AdvancedByCompleteRun RunsEnd
CHECK_DEADLOCK FALSE
