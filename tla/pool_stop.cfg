\* One caller stops the pool while jobs are submitted, run and retried; the audit table and the handlers may fail.
CONSTANTS
    j1 = j1
    j2 = j2
    j3 = j3
    j4 = j4
    NoJob = NoJob
    Jobs = {j1, j2}
    Workers = {w1, w2}
    Stoppers = {s1}
    QueueCapacity = 1
    MaxDeadLetterSize = 2
    MaxAttempts <- AnyAttempts
    Audited = {j1, j2}
    Handled = {j1, j2}
    Outcomes = {"success", "error", "panic", "hang"}
    AuditFaults = TRUE
SPECIFICATION FairSpec
INVARIANTS
    SafeWhileStopping
    StopWaits
PROPERTIES
    StopReturns
    KeepsLifecycle
CHECK_DEADLOCK FALSE
