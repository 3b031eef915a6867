SPECIFICATION Spec
CONSTANTS
    p1 = p1
    p2 = p2
    q1 = q1
    q2 = q2
    aapl = aapl
    cpi = cpi
    EarningsJobs = {p1, p2}
    EconomicJobs = {q1, q2}
    Symbols = {aapl}
    Events = {cpi}
    LookForward = 1
    MaxEdition = 2
INVARIANTS
    SyncIsComplete
PROPERTIES
    RowsDoNotGoBack
    SyncEnds
CHECK_DEADLOCK FALSE
