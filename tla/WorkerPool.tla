----------------------------- MODULE WorkerPool -----------------------------
(***************************************************************************)
(* The bounded worker pool of internal/worker/pool.go: submitters, the job *)
(* channel, the worker goroutines with their retry loop, the dead-letter   *)
(* channel and its processor, the audit rows the workers write, and Stop.  *)
(*                                                                         *)
(* A member of Jobs is one submission (a Job value handed to Submit); two  *)
(* submissions with the same job id are two members.  A step of a          *)
(* goroutine is what it does between two points where another goroutine    *)
(* can be seen or can interfere: a lock, a channel operation, a write to   *)
(* the audit table, the handler call, the backoff sleep.                   *)
(***************************************************************************)
EXTENDS Integers, Sequences

CONSTANTS
    Jobs,               \* the submissions
    Workers,            \* the goroutines of startWorkers (cfg.PoolSize)
    Stoppers,           \* the goroutines that call Stop
    QueueCapacity,      \* cfg.QueueCapacity, the size of both channels
    MaxDeadLetterSize,  \* the constant of the same name (1000 in the code)
    MaxAttempts,        \* job.Retry.MaxAttempts of each submission
    Audited,            \* the jobs whose config says audit: true
    Handled,            \* the jobs whose handler name is registered
    Outcomes,           \* what a handler call may do: a subset of HandlerOutcomes
    AuditFaults,        \* TRUE: a statement on the audit table may fail
    NoJob               \* the job of a worker that holds none

HandlerOutcomes == {"success", "error", "panic", "hang"}

ASSUME PoolAssumption ==
    /\ NoJob \notin Jobs
    /\ QueueCapacity \in Nat \ {0}
    /\ MaxDeadLetterSize \in Nat \ {0}
    /\ MaxAttempts \in [Jobs -> Nat]
    /\ Outcomes \subseteq HandlerOutcomes
    /\ AuditFaults \in BOOLEAN

VARIABLES
    running,      \* Pool.running
    closeStage,   \* how many of stopCh, jobChan, deadLetter Stop has closed
    stopPc,       \* where each caller of Stop is
    submit,       \* where each Submit call is, and what it returned
    jobChan,      \* the buffered job channel
    pc,           \* where each worker goroutine is
    held,         \* the job (with its Attempt field) a worker executes
    row,          \* the audit row of the attempt (0: auditFail is nil)
    audit,        \* the rows of job_runs each job has, in insertion order
    deadLetter,   \* the buffered dead-letter channel
    deadLetterQ,  \* the dead-letter list served by GET /dead-letter
    dlProcessor,  \* whether processDeadLetter still runs
    gauge,        \* metrics.DeadLetterGauge
    crashed,      \* a panic nobody recovers has ended the process
    ran,          \* (history) how often the job's handler was called
    fate          \* (history) how the pool finished with the job

stopVars == <<running, closeStage, stopPc>>
dlVars   == <<deadLetter, deadLetterQ, dlProcessor, gauge>>
history  == <<ran, fate>>
vars     == <<stopVars, submit, jobChan, pc, held, row, audit, dlVars, crashed,
              history>>

-----------------------------------------------------------------------------
(* Values.                                                                 *)

Items  == [job : Jobs, attempt : Nat]      \* Job, with the 0-based Attempt
NoItem == [job |-> NoJob, attempt |-> 0]

\* The reasons sendToDeadLetter is called with; a worker whose pc is one of
\* them is about to make that call.  ("job_timeout" is never reached: the
\* context it waits on descends from context.Background.)
Reasons == {"handler_not_found", "max_retries_exceeded", "pool_stopped",
            "pool_stopped_panic", "queue_full_on_retry"}

Entries == [item : Items, reason : Reasons]

WorkerPcs == {"idle", "taken", "missing", "running", "hung", "backoff", "check",
              "requeue", "exited"} \cup Reasons

\* "accepted", "swallowed": Submit returned nil; "full", "stopped": an error.
SubmitPcs == {"idle", "checked", "accepted", "swallowed", "full", "stopped"}

StopPcs == {"none", "closing", "waiting", "returned"}

AuditRows == [attempt : Nat \ {0}, status : {"running", "success", "failure"}]

Fates == {"none", "succeeded", "buried", "dropped"}

\* How often the handler may be called: the test Attempt < MaxAttempts-1
\* comes after the call, so a job with MaxAttempts = 0 runs once too.
Budget(j) == IF MaxAttempts[j] = 0 THEN 1 ELSE MaxAttempts[j]

StopClosed       == closeStage >= 1
JobChanClosed    == closeStage >= 2
DeadLetterClosed == closeStage >= 3

-----------------------------------------------------------------------------
Init ==
    /\ running = TRUE
    /\ closeStage = 0
    /\ stopPc = [s \in Stoppers |-> "none"]
    /\ submit = [j \in Jobs |-> "idle"]
    /\ jobChan = <<>>
    /\ pc = [w \in Workers |-> "idle"]
    /\ held = [w \in Workers |-> NoItem]
    /\ row = [w \in Workers |-> 0]
    /\ audit = [j \in Jobs |-> <<>>]
    /\ deadLetter = <<>>
    /\ deadLetterQ = <<>>
    /\ dlProcessor = "on"
    /\ gauge = 0
    /\ crashed = FALSE
    /\ ran = [j \in Jobs |-> 0]
    /\ fate = [j \in Jobs |-> "none"]

-----------------------------------------------------------------------------
(* The job channel.                                                        *)

JobChanFullLate == Len(jobChan) > QueueCapacity        \* mutant: off by one
JobChanFull     == Len(jobChan) >= QueueCapacity

Enqueue(item) ==
    /\ ~JobChanClosed
    /\ ~JobChanFull
    /\ jobChan' = Append(jobChan, item)

(* Submit: the running check and the channel send are two steps.           *)

SubmitCheck(j) ==
    /\ submit[j] = "idle"
    /\ submit' = [submit EXCEPT ![j] = IF running THEN "checked" ELSE "stopped"]
    /\ UNCHANGED <<stopVars, jobChan, pc, held, row, audit, dlVars, crashed, history>>

\* The send on a closed channel panics; the deferred recover logs "job
\* rejected" and Submit returns its zero value, a nil error.
SubmitSend(j) ==
    /\ submit[j] = "checked"
    /\ \/ /\ JobChanClosed
          /\ submit' = [submit EXCEPT ![j] = "swallowed"]
          /\ UNCHANGED jobChan
       \/ /\ Enqueue([job |-> j, attempt |-> 0])
          /\ submit' = [submit EXCEPT ![j] = "accepted"]
       \/ /\ ~JobChanClosed /\ JobChanFull
          /\ submit' = [submit EXCEPT ![j] = "full"]
          /\ UNCHANGED jobChan
    /\ UNCHANGED <<stopVars, pc, held, row, audit, dlVars, crashed, history>>

-----------------------------------------------------------------------------
(* The worker goroutine: its select, and executeJob.                       *)

Goto(w, label) == pc' = [pc EXCEPT ![w] = label]

\* executeJob returns and the worker is back at its select.
Release(w) ==
    /\ Goto(w, "idle")
    /\ held' = [held EXCEPT ![w] = NoItem]
    /\ row' = [row EXCEPT ![w] = 0]

\* When stopCh is closed and a job is buffered, select takes either.
Receive(w) ==
    /\ pc[w] = "idle"
    /\ jobChan # <<>>
    /\ held' = [held EXCEPT ![w] = Head(jobChan)]
    /\ jobChan' = Tail(jobChan)
    /\ Goto(w, "taken")
    /\ UNCHANGED <<stopVars, submit, row, audit, dlVars, crashed, history>>

ExitWorker(w) ==
    /\ pc[w] = "idle"
    /\ StopClosed \/ (JobChanClosed /\ jobChan = <<>>)
    /\ Goto(w, "exited")
    /\ UNCHANGED <<stopVars, submit, jobChan, held, row, audit, dlVars, crashed,
                   history>>

\* auditLogger.Start: a new row in status running, or no row and no closures.
OpenRow(w, j, attempt) ==
    \/ /\ j \in Audited
       /\ audit' = [audit EXCEPT ![j] =
                       Append(@, [attempt |-> attempt, status |-> "running"])]
       /\ row' = [row EXCEPT ![w] = Len(audit[j]) + 1]
    \/ /\ j \notin Audited \/ AuditFaults
       /\ UNCHANGED <<audit, row>>

\* Mutant: the row is left open.
CloseRowNever(w, j, status) == UNCHANGED audit

\* auditComplete, auditFail: an UPDATE of the row; its error is only logged.
CloseRow(w, j, status) ==
    \/ /\ row[w] # 0
       /\ audit' = [audit EXCEPT ![j][row[w]].status = status]
    \/ /\ row[w] = 0 \/ AuditFaults
       /\ UNCHANGED audit

StartAttempt(w) ==
    LET j == held[w].job IN
    /\ pc[w] = "taken"
    /\ OpenRow(w, j, held[w].attempt + 1)
    /\ \/ /\ j \in Handled
          /\ Goto(w, "running")
          /\ ran' = [ran EXCEPT ![j] = @ + 1]
       \/ /\ j \notin Handled
          /\ Goto(w, "missing")
          /\ UNCHANGED ran
    /\ UNCHANGED <<stopVars, submit, jobChan, held, dlVars, crashed, fate>>

HandlerMissing(w) ==
    /\ pc[w] = "missing"
    /\ CloseRow(w, held[w].job, "failure")
    /\ Goto(w, "handler_not_found")
    /\ UNCHANGED <<stopVars, submit, jobChan, held, row, dlVars, crashed, history>>

HandlerSucceeds(w) ==
    LET j == held[w].job IN
    /\ pc[w] = "running"
    /\ "success" \in Outcomes
    /\ CloseRow(w, j, "success")
    /\ fate' = [fate EXCEPT ![j] = "succeeded"]
    /\ Release(w)
    /\ UNCHANGED <<stopVars, submit, jobChan, dlVars, crashed, ran>>

LastAttemptLate(j) == MaxAttempts[j]                   \* mutant: one attempt too many
LastAttempt(j)     == MaxAttempts[j] - 1

HandlerFails(w) ==
    LET j == held[w].job IN
    /\ pc[w] = "running"
    /\ "error" \in Outcomes
    /\ CloseRow(w, j, "failure")
    /\ Goto(w, IF held[w].attempt < LastAttempt(j)
               THEN "backoff" ELSE "max_retries_exceeded")
    /\ UNCHANGED <<stopVars, submit, jobChan, held, row, dlVars, crashed, history>>

\* No recover is registered while the handler runs: its panic is the process's.
HandlerPanics(w) ==
    /\ pc[w] = "running"
    /\ "panic" \in Outcomes
    /\ crashed' = TRUE
    /\ UNCHANGED <<stopVars, submit, jobChan, pc, held, row, audit, dlVars, history>>

\* The handler is called in the worker's own goroutine and its context only asks
\* it to end: one that waits for itself or spins never returns, and the worker
\* takes no further step.
HandlerHangs(w) ==
    /\ pc[w] = "running"
    /\ "hang" \in Outcomes
    /\ Goto(w, "hung")
    /\ UNCHANGED <<stopVars, submit, jobChan, held, row, audit, dlVars, crashed,
                   history>>

UncountedItem(item) == item                            \* mutant: Attempt kept
NextItem(item)      == [item EXCEPT !.attempt = @ + 1]

\* The backoff is slept in the worker's own slot; Stop does not cut it short.
BackoffElapses(w) ==
    /\ pc[w] = "backoff"
    /\ held' = [held EXCEPT ![w] = NextItem(@)]
    /\ Goto(w, "check")
    /\ UNCHANGED <<stopVars, submit, jobChan, row, audit, dlVars, crashed, history>>

AfterCheckSwapped == IF running THEN "pool_stopped" ELSE "requeue"  \* mutant
AfterCheck        == IF running THEN "requeue" ELSE "pool_stopped"

CheckRunning(w) ==
    /\ pc[w] = "check"
    /\ Goto(w, AfterCheck)
    /\ UNCHANGED <<stopVars, submit, jobChan, held, row, audit, dlVars, crashed,
                   history>>

RetryLost(w)    == Release(w) /\ UNCHANGED jobChan     \* mutants: the job is
RetryBlocked(w) == FALSE                               \* lost; the send blocks

\* A send on the closed channel panics and the deferred recover buries the job.
RetryClosed(w) == Goto(w, "pool_stopped_panic") /\ UNCHANGED <<jobChan, held, row>>
RetryFull(w)   == Goto(w, "queue_full_on_retry") /\ UNCHANGED <<jobChan, held, row>>

Requeue(w) ==
    /\ pc[w] = "requeue"
    /\ \/ JobChanClosed /\ RetryClosed(w)
       \/ Enqueue(held[w]) /\ Release(w)
       \/ ~JobChanClosed /\ JobChanFull /\ RetryFull(w)
    /\ UNCHANGED <<stopVars, submit, audit, dlVars, crashed, history>>

\* sendToDeadLetter.  A full channel drops the entry but still counts it.  A
\* closed one panics; where a recover is registered it repeats the same send,
\* so the process ends on every path.
Bury(w) ==
    LET j == held[w].job IN
    /\ pc[w] \in Reasons
    /\ \/ /\ DeadLetterClosed
          /\ crashed' = TRUE
          /\ UNCHANGED <<pc, held, row, deadLetter, gauge, fate>>
       \/ /\ ~DeadLetterClosed
          /\ Len(deadLetter) < QueueCapacity
          /\ deadLetter' = Append(deadLetter, [item |-> held[w], reason |-> pc[w]])
          /\ fate' = [fate EXCEPT ![j] = "buried"]
          /\ gauge' = gauge + 1
          /\ Release(w)
          /\ UNCHANGED crashed
       \/ /\ ~DeadLetterClosed
          /\ Len(deadLetter) >= QueueCapacity
          /\ fate' = [fate EXCEPT ![j] = "dropped"]
          /\ gauge' = gauge + 1
          /\ Release(w)
          /\ UNCHANGED <<deadLetter, crashed>>
    /\ UNCHANGED <<stopVars, submit, jobChan, audit, deadLetterQ, dlProcessor, ran>>

WorkerStep(w) ==
    \/ Receive(w) \/ ExitWorker(w) \/ StartAttempt(w) \/ HandlerMissing(w)
    \/ HandlerSucceeds(w) \/ HandlerFails(w) \/ HandlerPanics(w) \/ HandlerHangs(w)
    \/ BackoffElapses(w) \/ CheckRunning(w) \/ Requeue(w) \/ Bury(w)

-----------------------------------------------------------------------------
(* processDeadLetter.                                                      *)

\* A list above the limit is first cut to the newest half of the limit.
TrimmedOldest(q) ==                                  \* mutant: keeps the oldest
    IF Len(q) > MaxDeadLetterSize THEN SubSeq(q, 1, MaxDeadLetterSize \div 2) ELSE q
Trimmed(q) ==
    IF Len(q) > MaxDeadLetterSize
    THEN SubSeq(q, Len(q) - (MaxDeadLetterSize \div 2) + 1, Len(q))
    ELSE q

Receives == deadLetter # <<>>

RecordDeadLetter ==
    /\ dlProcessor = "on"
    /\ Receives
    /\ deadLetterQ' = Append(Trimmed(deadLetterQ), Head(deadLetter))
    /\ deadLetter' = Tail(deadLetter)
    /\ UNCHANGED <<stopVars, submit, jobChan, pc, held, row, audit, dlProcessor,
                   gauge, crashed, history>>

ExitDeadLetter ==
    /\ dlProcessor = "on"
    /\ StopClosed \/ (DeadLetterClosed /\ deadLetter = <<>>)
    /\ dlProcessor' = "exited"
    /\ UNCHANGED <<stopVars, submit, jobChan, pc, held, row, audit, deadLetter,
                   deadLetterQ, gauge, crashed, history>>

-----------------------------------------------------------------------------
(* Stop.                                                                   *)

StopBegin(s) ==
    /\ stopPc[s] = "none"
    /\ running' = FALSE
    /\ stopPc' = [stopPc EXCEPT ![s] = IF running THEN "closing" ELSE "returned"]
    /\ UNCHANGED <<closeStage, submit, jobChan, pc, held, row, audit, dlVars,
                   crashed, history>>

ClosesLast == closeStage = 2

\* stopCh, then jobChan, then deadLetter: three closes, three steps.
StopClose(s) ==
    /\ stopPc[s] = "closing"
    /\ closeStage' = closeStage + 1
    /\ stopPc' = [stopPc EXCEPT ![s] = IF ClosesLast THEN "waiting" ELSE "closing"]
    /\ UNCHANGED <<running, submit, jobChan, pc, held, row, audit, dlVars, crashed,
                   history>>

\* Mutants: the wait group does not count the workers; Stop also waits for an
\* empty queue.
WaitGroupEarly   == dlProcessor = "exited"
WaitGroupDrained == /\ \A w \in Workers : pc[w] = "exited"
                    /\ dlProcessor = "exited" /\ jobChan = <<>>
WaitGroupDone    == /\ \A w \in Workers : pc[w] = "exited"
                    /\ dlProcessor = "exited"

StopReturn(s) ==
    /\ stopPc[s] = "waiting"
    /\ WaitGroupDone
    /\ stopPc' = [stopPc EXCEPT ![s] = "returned"]
    /\ UNCHANGED <<running, closeStage, submit, jobChan, pc, held, row, audit,
                   dlVars, crashed, history>>

-----------------------------------------------------------------------------
SubmitStep(j)  == ~crashed /\ (SubmitCheck(j) \/ SubmitSend(j))
WorkerTurn(w)  == ~crashed /\ WorkerStep(w)
DeadLetterStep == ~crashed /\ (RecordDeadLetter \/ ExitDeadLetter)
StopStep(s)    == ~crashed /\ (StopBegin(s) \/ StopClose(s) \/ StopReturn(s))

Next ==
    \/ \E j \in Jobs : SubmitStep(j)
    \/ \E w \in Workers : WorkerTurn(w)
    \/ DeadLetterStep
    \/ \E s \in Stoppers : StopStep(s)

Spec == Init /\ [][Next]_vars

\* The Go scheduler runs every runnable goroutine and a backoff timer fires.
\* That a handler returns is not assumed: it does, or HandlerHangs.  Nothing
\* makes a caller submit a job or call Stop, but a call that began is carried
\* out.
Fairness ==
    /\ \A j \in Jobs : WF_vars(~crashed /\ SubmitSend(j))
    /\ \A w \in Workers : WF_vars(WorkerTurn(w))
    /\ WF_vars(DeadLetterStep)
    /\ \A s \in Stoppers : WF_vars(~crashed /\ (StopClose(s) \/ StopReturn(s)))

FairSpec == Spec /\ Fairness

=============================================================================
