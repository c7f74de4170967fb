SPECIFICATION Spec
CONSTANTS
    r1 = r1  r2 = r2
    Request = {r1, r2}
    Decision = {"enrolled", "reject"}
    MaxApps = 3
    MaxRows = 6
    MaxMarks = 1
SYMMETRY Symmetry
INVARIANTS StagesAgree OneActive CardFollows
PROPERTY NeverBackAfterReview
CHECK_DEADLOCK FALSE
