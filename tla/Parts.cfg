CONSTANTS
    Calls = {c1}
    Settings <- Both
    MaxTimers = 3
    MayStop = TRUE
    MaxChanges = 3
    MaxTorn = 3
    StepSize = 3
    Values = {1, 2}
    FirstTime = 7
    MaxTime = 12
SPECIFICATION PartsSpec
INVARIANTS ExchangesGoOn UrgentHonoured NoSpin LoopGoesOn SavedIsFound PointsRight
PROPERTIES RegisterAnswered PingerNotices
CHECK_DEADLOCK FALSE
