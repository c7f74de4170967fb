SPECIFICATION Spec
CONSTANTS
    ToeflThreshold = 60
    Candidate = {"a"}
    Document <- MCDocument
    Forms <- MCForms
    Page <- MCPage
    Faint <- MCFaint
    Typed = {"total"}
    NoDoc = "nothing"
    File <- MCFile
    Copy <- MCCopy
    Folder <- MCFolder
    Crashes = 1
INVARIANTS  OwnDocument VerdictsEarned
PROPERTY UnitsEnd
CHECK_DEADLOCK FALSE
