SPECIFICATION FairWindowSpec
CONSTANTS
    r1 = r1
    r2 = r2
    t1 = t1
    t2 = t2
    s1 = s1
    q1 = q1
    short = short
    full = full
    yes = yes
    Reviewer = {r1, r2}
    Tab = {t1, t2}
    Scheduler = {s1}
    Question = {q1}
    List = {short, full}
    Asks <- TwoAsks
    Text = {yes}
    MinQuestions = 1
    MaxQuestions = 1
    MaxRevision = 2
PROPERTIES AdvanceOnApprovedSet AnswersSettle WindowOpensOnce WindowEnds
