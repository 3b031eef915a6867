SPECIFICATION Spec
CONSTANTS
    bulk = bulk
    incr = incr
    Ingests = {bulk, incr}
    File <- Files
    BatchSize = 2
    MaxRows <- Limits
    MaxRetries = 1
    Cancellable = {bulk}
    MaxFaults = 1
    MaxCloses = 1
    Nobody = Nobody
INVARIANTS
    IngestIsExact
    CleanResultIsComplete
PROPERTIES
    IngestEnds
CHECK_DEADLOCK FALSE
