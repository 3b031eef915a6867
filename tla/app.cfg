SPECIFICATION Spec
CONSTANTS
    a1 = a1
    a2 = a2
    Attempts = {a1, a2}
    Handler <- HandlerOf
    Optional = {"questdb", "earnings"}
    Limit = 1
    MaxStarts = 2
    MaxFaults = 1
INVARIANTS
    LogTellsTheTruth
    PagesMissNothing
    StatsAddUp
    PartsOutliveTheirUsers
CHECK_DEADLOCK FALSE
