\* Two workers, four jobs (one without a handler), one queue slot; nobody stops the pool.
CONSTANTS
    j1 = j1
    j2 = j2
    j3 = j3
    j4 = j4
    NoJob = NoJob
    Jobs = {j1, j2, j3, j4}
    Workers = {w1, w2}
    Stoppers = {}
    QueueCapacity = 1
    MaxDeadLetterSize = 2
    MaxAttempts <- FewAttempts
    Audited = {j2, j3, j4}
    Handled = {j1, j2, j3}
    Outcomes = {"success", "error", "hang"}
    AuditFaults = FALSE
SPECIFICATION FairSpec
INVARIANTS
    TypeOK
    OnePlace
    AttemptsExact
    AuditTrail
PROPERTIES
    DeadLettersAccountedFor
    PoolMakesProgress
CHECK_DEADLOCK FALSE
