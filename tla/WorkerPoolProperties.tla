------------------------ MODULE WorkerPoolProperties ------------------------
(***************************************************************************)
(* What the runs check of WorkerPool: its type invariant, the safety       *)
(* invariants, progress, and that it implements JobLifecycle.              *)
(***************************************************************************)
EXTENDS WorkerPool, FiniteSets

\* Every variable holds a value of its kind, and neither channel exceeds its
\* capacity.
TypeOK ==
    /\ running \in BOOLEAN
    /\ closeStage \in 0..3
    /\ stopPc \in [Stoppers -> StopPcs]
    /\ submit \in [Jobs -> SubmitPcs]
    /\ jobChan \in Seq(Items) /\ Len(jobChan) <= QueueCapacity
    /\ pc \in [Workers -> WorkerPcs]
    /\ held \in [Workers -> Items \cup {NoItem}]
    /\ row \in [Workers -> Nat]
    /\ audit \in [Jobs -> Seq(AuditRows)]
    /\ deadLetter \in Seq(Entries) /\ Len(deadLetter) <= QueueCapacity
    /\ deadLetterQ \in Seq(Entries)
    /\ dlProcessor \in {"on", "exited"}
    /\ gauge \in Nat
    /\ crashed \in BOOLEAN
    /\ ran \in [Jobs -> Nat]
    /\ fate \in [Jobs -> Fates]

\* Where the pool has a copy of job j: positions of the channel, workers, and
\* the end it came to.
Places(j) ==
    {<<"queue", i>> : i \in {k \in DOMAIN jobChan : jobChan[k].job = j}}
    \cup {<<"worker", w>> : w \in {v \in Workers : held[v].job = j}}
    \cup {<<"ended", f>> : f \in {fate[j]} \ {"none"}}

\* An accepted job is in exactly one place (one channel slot, one worker, or
\* ended), a job that was not accepted in none: no step of Submit, the retry
\* loop, the dead-letter path or Stop loses a job or runs two copies of it.
OnePlace ==
    \A j \in Jobs :
        IF submit[j] = "accepted"
        THEN \E p \in Places(j) : Places(j) = {p}
        ELSE Places(j) = {}

\* The Attempt field a job carries is the number of handler calls behind it
\* (one less from the call until the backoff has elapsed), and no job exceeds
\* its budget of calls, whichever workers its attempts ran on.
AttemptsExact ==
    /\ \A j \in Jobs : ran[j] <= Budget(j)
    /\ \A i \in DOMAIN jobChan :
           /\ jobChan[i].attempt = ran[jobChan[i].job]
           /\ ran[jobChan[i].job] < Budget(jobChan[i].job)
    /\ \A w \in Workers :
           held[w] # NoItem =>
               LET calls == ran[held[w].job] IN
               IF pc[w] \in {"running", "hung", "backoff", "max_retries_exceeded"}
               THEN held[w].attempt + 1 = calls
               ELSE held[w].attempt = calls

\* The entries of the dead-letter channel and list.
DeadLetters == deadLetterQ \o deadLetter

\* A dead-letter entry tells the truth about its job: a job whose retries are
\* exhausted used its whole budget, one that was never run has no handler, one
\* that gave up early did so because the queue was full or the pool stopped;
\* and no job is buried twice or after it succeeded.
BurialJustified ==
    /\ \A i \in DOMAIN DeadLetters :
           LET e == DeadLetters[i]
               j == e.item.job
           IN  /\ fate[j] = "buried"
               /\ CASE e.reason = "max_retries_exceeded" -> ran[j] = Budget(j)
                    [] e.reason = "handler_not_found" -> ran[j] = 0 /\ j \notin Handled
                    [] e.reason = "queue_full_on_retry" -> ran[j] \in 1..Budget(j) - 1
                    [] OTHER -> ran[j] \in 1..Budget(j) - 1 /\ ~running
    /\ \A i, k \in DOMAIN DeadLetters :
           DeadLetters[i].item.job = DeadLetters[k].item.job => i = k

\* No burial is forgotten while no more than MaxDeadLetterSize jobs are buried,
\* and of more the list keeps at least half of that limit ("keep only half when
\* exceeding max").
DeadLettersListed ==
    LET buried == {j \in Jobs : fate[j] = "buried"}
        listed == {DeadLetters[i].item.job : i \in DOMAIN DeadLetters}
    IN  /\ Cardinality(buried) <= MaxDeadLetterSize => listed = buried
        /\ Cardinality(buried) >= MaxDeadLetterSize \div 2 =>
               Cardinality(listed) >= MaxDeadLetterSize \div 2

\* Only the attempt a worker is executing may have an open audit row: rows come
\* in attempt order, every row before the last is closed as a failure unless an
\* audit write failed, and success is recorded for succeeded jobs only.
AuditTrail ==
    \A j \in Jobs :
        /\ \A i, k \in DOMAIN audit[j] :
               i < k => /\ audit[j][i].attempt < audit[j][k].attempt
                        /\ audit[j][i].status # "success"
        /\ \A i \in DOMAIN audit[j] :
               /\ j \in Handled => audit[j][i].attempt <= ran[j]
               /\ audit[j][i].status = "success" => fate[j] = "succeeded"
               /\ ~AuditFaults /\ audit[j][i].status = "running" =>
                      \E w \in Workers :
                          /\ held[w].job = j
                          /\ row[w] = i
                          /\ pc[w] \in {"running", "hung", "missing"}
        /\ ~AuditFaults /\ j \in Audited \cap Handled => Len(audit[j]) = ran[j]

\* A step adds at most one entry, behind the others, and cuts entries only in
\* front of them, and only off a list that has reached its limit: those that
\* stay are the newest, in their order.
CutInFront ==
    \/ DeadLetters' = DeadLetters
    \/ /\ Len(DeadLetters') = Len(DeadLetters) + 1
       /\ DeadLetters = SubSeq(DeadLetters', 1, Len(DeadLetters))
    \/ /\ Len(deadLetterQ) >= MaxDeadLetterSize
       /\ \E first \in DOMAIN DeadLetters :
              DeadLetters' = SubSeq(DeadLetters, first, Len(DeadLetters))

\* Every entry is justified, none is forgotten below the limit, and above it the
\* oldest go first.
DeadLettersAccountedFor ==
    [](BurialJustified /\ DeadLettersListed) /\ [][CutInFront]_vars

\* What holds of jobs, burials and audit rows holds on while Stop closes the
\* channels, handlers panic and the audit table fails.
SafeWhileStopping ==
    TypeOK /\ OnePlace /\ AttemptsExact /\ BurialJustified /\ AuditTrail

\* When Stop has returned, every worker and the dead-letter processor has
\* exited: no handler is then in the middle of a call.
StopWaits ==
    \A s \in Stoppers :
        stopPc[s] = "returned" =>
            /\ \A w \in Workers : pc[w] = "exited"
            /\ dlProcessor = "exited"

Hung(w) == pc[w] = "hung"

\* An accepted job runs to an end while nobody stops the pool, unless its own
\* handler never returns or every worker sits in such a handler: a hung handler
\* costs its worker and nothing else, and neither a full queue nor workers that
\* all wait to put a retry back blocks a job for ever.
EveryAcceptedJobEnds ==
    \A j \in Jobs :
        submit[j] = "accepted" ~>
            \/ fate[j] # "none"
            \/ \E w \in Workers : Hung(w) /\ held[w].job = j
            \/ \A w \in Workers : Hung(w)

\* An entry accepted by the dead-letter channel reaches the list (where a later
\* trim may cut it): the channel is always drained.
DeadLettersAreRecorded == (deadLetter # <<>>) ~> (deadLetter = <<>>)

\* A Stop that began to close the channels returns, unless the process crashed
\* or a handler never returns: no retry, backoff or dead-letter send keeps it
\* waiting for ever.
StopReturns ==
    \A s \in Stoppers :
        stopPc[s] = "closing" ~>
            (stopPc[s] = "returned" \/ crashed \/ \E w \in Workers : Hung(w))

\* The pool keeps the promise of JobLifecycle.
Phase(j) ==
    CASE fate[j] = "succeeded" -> "done"
      [] fate[j] \in {"buried", "dropped"} -> "dead"
      [] submit[j] \in {"idle", "checked"} -> "new"
      [] submit[j] \in {"full", "stopped", "swallowed"} -> "refused"
      [] \E w \in Workers :
             /\ held[w].job = j
             /\ pc[w] \notin {"taken", "missing", "handler_not_found"} -> "running"
      [] OTHER -> "queued"

Lifecycle == INSTANCE JobLifecycle WITH
    MaxRuns <- [j \in Jobs |-> Budget(j)],
    phase   <- [j \in Jobs |-> Phase(j)],
    runs    <- ran

\* Each step of the pool is a step of the job's life or none: safety, with Stop
\* and crashes.
KeepsLifecycle == Lifecycle!Spec

\* While nobody stops the pool every accepted job and every dead letter comes to
\* its end, as far as handlers return.
PoolMakesProgress == EveryAcceptedJobEnds /\ DeadLettersAreRecorded

-----------------------------------------------------------------------------
(* Claims of the code's comments and tests that the code does not keep.    *)

\* pool.go, sendToDeadLetter: when the channel is "full or closed, still record
\* metric"; so no shutdown ends the process with a panic.
NoCrash == ~crashed

\* TestPoolSubmitAfterStop: a Submit that finds the pool stopped returns an
\* error; so a nil error means the job went into the queue.
NilMeansQueued == \A j \in Jobs : submit[j] # "swallowed"

\* pool.go, MaxDeadLetterSize: "the maximum number of dead letter entries to
\* keep".  The list is cut when an entry arrives and finds it longer than that.
ListWithinLimit == Len(deadLetterQ) <= MaxDeadLetterSize

\* metrics.go, DeadLetterGauge: the "current number of jobs in dead letter
\* queue".  It only ever counts up, dropped and cut entries included.
GaugeIsCurrent == gauge <= Len(deadLetterQ) + Len(deadLetter)

\* pool.go, Stop: "waits for all in-progress jobs to complete", and executeJob's
\* timeout context is to end each of them; a handler that does not look at it
\* keeps Stop waiting.
StopAlwaysReturns ==
    \A s \in Stoppers : stopPc[s] = "closing" ~> stopPc[s] = "returned"
=============================================================================
