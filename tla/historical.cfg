SPECIFICATION Spec
CONSTANTS
    job = job
    fetch = fetch
    i1 = i1
    i2 = i2
    Jobs = {job}
    Fetches = {fetch}
    Instruments = {i1, i2}
    Series <- MCSeries
    Now = 200
    JobPeriods <- MCJobPeriods
    FetchPeriods <- MCFetchPeriods
    PageLen = 2
    MaxPages = 3
    BatchLen = 2
    Nothing = Nothing
INVARIANTS
    FillIsExact
    CountedBarsAreStored
PROPERTIES
    JobsEnd
CHECK_DEADLOCK FALSE
