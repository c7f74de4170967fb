SPECIFICATION EngagementSpec
CONSTANTS
    info = info
    Fast = 0
    Slow = 1
    Day = 1
    Some = 1
    Many = 3
    Opened = {info}
    Strong = 2
    Lead = 1
    Skew <- Skews
    Notice <- Notices
    MaxTime = 6
    MaxStamps = 2
INVARIANTS SilenceIsHighRisk LevelsAgree
PROPERTIES SilenceNeverHelps ActionNeverHurts
CHECK_DEADLOCK FALSE
