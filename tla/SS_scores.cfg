SPECIFICATION DeskSpec
CONSTANTS
    r1 = r1
    r2 = r2
    Reviewers = {r1, r2}
    Units = 8
    Trio <- TwoSections
    Forms <- MCForms
    Sheets <- MCSheets
    Reviewed <- MCReviewed
    TagRequests <- MCTagRequests
    Verdicts <- MCVerdicts
    Advice <- MCAdvice
    MaxSaves = 3
    MaxOpen = 2
SYMMETRY Symmetry
INVARIANTS ReviewStands 
PROPERTY BetterNeverScoresLower
