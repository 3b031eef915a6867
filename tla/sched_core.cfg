SPECIFICATION Spec
CONSTANTS
    i1 = i1
    i2 = i2
    i3 = i3
    c1 = c1
    c2 = c2
    Ids = {i1, i2, i3}
    Clients = {c1, c2}
    FileJobs <- ThreeFileJobs
    Requests <- MixedRequests
    NoJob = NoJob
    MaxRequests = 4
    MaxTriggers = 3
SYMMETRY Symmetry
INVARIANTS
    ScheduleIsConsistent
    FiringsAreCurrent
PROPERTIES
    ScheduledWhenFirstAdded
CHECK_DEADLOCK FALSE
