-------------------------- MODULE WorkerPoolProofs --------------------------
(***************************************************************************)
(* Proofs about WorkerPool for every set of jobs, workers and callers of   *)
(* Stop, every capacity and every retry configuration.                     *)
(*                                                                         *)
(* PoolInv is the inductive invariant.  Its first part is the type         *)
(* invariant; StopOrder is about the one caller that closes the channels;  *)
(* Hands ties a worker's program counter to the job it holds; Apart and    *)
(* Kept say that a job is in one place (at most one, and at least one);    *)
(* Counted relates the attempt number a job carries to the handler calls   *)
(* made for it, at each program counter.                                   *)
(*                                                                         *)
(* EndsInv adds what burials and audit rows need (ReasonsFit, RowsFit),    *)
(* AccountsFit what the dead-letter list does.                             *)
(* The last theorem is that the pool implements JobLifecycle.              *)
(***************************************************************************)
EXTENDS WorkerPoolProperties, FiniteSetTheorems, SequenceTheorems, TLAPS

-----------------------------------------------------------------------------
(* The inductive invariant.                                                *)

StopOrder ==
    /\ running => closeStage = 0 /\ \A s \in Stoppers : stopPc[s] = "none"
    /\ \A s \in Stoppers : stopPc[s] = "closing" => closeStage <= 2
    /\ \A s, t \in Stoppers :
           stopPc[s] \in {"closing", "waiting"} /\ stopPc[t] \in {"closing", "waiting"}
               => s = t

Hands ==
    \A w \in Workers : pc[w] \in {"idle", "exited"} <=> held[w] = NoItem

\* No two places hold the same job, and what a place holds was accepted and
\* has not ended.
Apart ==
    /\ \A i, k \in DOMAIN jobChan : jobChan[i].job = jobChan[k].job => i = k
    /\ \A v, w \in Workers :
           held[v] \in Items /\ held[v].job = held[w].job => v = w
    /\ \A i \in DOMAIN jobChan : \A w \in Workers : jobChan[i].job # held[w].job
    /\ \A i \in DOMAIN jobChan :
           submit[jobChan[i].job] = "accepted" /\ fate[jobChan[i].job] = "none"
    /\ \A w \in Workers :
           held[w] \in Items =>
               submit[held[w].job] = "accepted" /\ fate[held[w].job] = "none"
    /\ \A j \in Jobs : submit[j] # "accepted" => fate[j] = "none" /\ ran[j] = 0

\* An accepted job that has not ended is somewhere.
Kept ==
    \A j \in Jobs :
        submit[j] = "accepted" /\ fate[j] = "none" =>
            \/ \E i \in DOMAIN jobChan : jobChan[i].job = j
            \/ \E w \in Workers : held[w].job = j

\* Handler calls of the job a worker holds, by program counter.
CountAt(label, attempt, calls, budget) ==
    /\ label \in {"taken", "missing", "handler_not_found"} =>
           attempt = calls /\ calls < budget
    /\ label \in {"running", "hung"} => attempt + 1 = calls /\ calls <= budget
    /\ label = "backoff" => attempt + 1 = calls /\ calls < budget
    /\ label = "max_retries_exceeded" => attempt + 1 = calls /\ calls = budget
    /\ label \in {"check", "requeue", "pool_stopped", "pool_stopped_panic",
                  "queue_full_on_retry"} =>
           attempt = calls /\ calls < budget /\ calls > 0

Counted ==
    /\ \A j \in Jobs : ran[j] <= Budget(j)
    /\ \A i \in DOMAIN jobChan :
           /\ jobChan[i].attempt = ran[jobChan[i].job]
           /\ ran[jobChan[i].job] < Budget(jobChan[i].job)
    /\ \A w \in Workers :
           held[w] \in Items =>
               CountAt(pc[w], held[w].attempt, ran[held[w].job], Budget(held[w].job))

PoolInv == TypeOK /\ StopOrder /\ Hands /\ Apart /\ Kept /\ Counted

-----------------------------------------------------------------------------
(* Facts about the values.                                                 *)

\* A worker that holds nothing holds no job: NoItem is not an item.
LEMMA NoItemIsNone ==
    /\ NoItem \notin Items
    /\ NoItem.job \notin Jobs
    /\ \A item \in Items : item.job \in Jobs /\ item.attempt \in Nat
BY PoolAssumption DEF NoItem, Items

\* The budget of handler calls is positive, and MaxAttempts when that is.
LEMMA BudgetFacts ==
    ASSUME NEW j \in Jobs
    PROVE  /\ Budget(j) \in Nat
           /\ Budget(j) >= 1
           /\ Budget(j) >= MaxAttempts[j]
           /\ MaxAttempts[j] >= 1 => Budget(j) = MaxAttempts[j]
           /\ MaxAttempts[j] = 0 => Budget(j) = 1
           /\ MaxAttempts[j] \in Nat
BY PoolAssumption DEF Budget

\* What a send adds to a channel and what a receive takes from it.
LEMMA AppendFacts ==
    ASSUME NEW S, NEW q \in Seq(S), NEW e \in S
    PROVE  /\ Append(q, e) \in Seq(S)
           /\ Len(Append(q, e)) = Len(q) + 1
           /\ DOMAIN Append(q, e) = 1..Len(q) + 1
           /\ DOMAIN q = 1..Len(q)
           /\ \A i \in 1..Len(q) : Append(q, e)[i] = q[i]
           /\ Append(q, e)[Len(q) + 1] = e
OBVIOUS

\* A receive takes the first element and nothing else.
LEMMA TailFacts ==
    ASSUME NEW S, NEW q \in Seq(S), q # <<>>
    PROVE  /\ Tail(q) \in Seq(S)
           /\ Head(q) \in S
           /\ Head(q) = q[1]
           /\ Len(q) \in Nat \ {0}
           /\ Len(Tail(q)) = Len(q) - 1
           /\ DOMAIN q = 1..Len(q)
           /\ DOMAIN Tail(q) = 1..Len(q) - 1
           /\ \A i \in 1..Len(q) - 1 : Tail(q)[i] = q[i + 1]
OBVIOUS

\* Opening and closing audit rows keeps the rows rows.
LEMMA OpenRowType ==
    ASSUME TypeOK, NEW w \in Workers, NEW j \in Jobs, NEW n \in Nat \ {0},
           OpenRow(w, j, n)
    PROVE  audit' \in [Jobs -> Seq(AuditRows)] /\ row' \in [Workers -> Nat]
<1> DEFINE r == [attempt |-> n, status |-> "running"]
<1>1. r \in AuditRows
  BY DEF AuditRows
<1>2. audit[j] \in Seq(AuditRows)
  BY DEF TypeOK
<1>3. Append(audit[j], r) \in Seq(AuditRows) /\ Len(audit[j]) + 1 \in Nat
  BY <1>1, <1>2
<1>4. CASE /\ audit' = [audit EXCEPT ![j] = Append(@, r)]
           /\ row' = [row EXCEPT ![w] = Len(audit[j]) + 1]
  BY <1>3, <1>4 DEF TypeOK
<1>5. CASE UNCHANGED <<audit, row>>
  BY <1>5 DEF TypeOK
<1> QED
  BY <1>4, <1>5 DEF OpenRow

\* The same of closing them.
LEMMA CloseRowType ==
    ASSUME TypeOK, NEW w \in Workers, NEW j \in Jobs,
           NEW status \in {"running", "success", "failure"},
           CloseRow(w, j, status)
    PROVE  audit' \in [Jobs -> Seq(AuditRows)]
<1> DEFINE q == [audit[j] EXCEPT ![row[w]].status = status]
<1>1. audit[j] \in Seq(AuditRows)
  BY DEF TypeOK
<1>2. q \in Seq(AuditRows)
  <2>1. \A r \in AuditRows : [r EXCEPT !.status = status] \in AuditRows
    BY DEF AuditRows
  <2>2. DOMAIN q = 1..Len(audit[j]) /\ Len(audit[j]) \in Nat
    BY <1>1
  <2>3. \A i \in 1..Len(audit[j]) : q[i] \in AuditRows
    BY <1>1, <2>1
  <2>4. q \in [1..Len(audit[j]) -> AuditRows]
    BY <2>2, <2>3
  <2> HIDE DEF q
  <2> QED
    BY <2>2, <2>4, SeqDef
<1>3. CASE audit' = [audit EXCEPT ![j][row[w]].status = status]
  BY <1>2, <1>3 DEF TypeOK
<1>4. CASE UNCHANGED audit
  BY <1>4 DEF TypeOK
<1> QED
  BY <1>3, <1>4 DEF CloseRow

\* Trimming a dead-letter list keeps it a list of entries.
LEMMA TrimmedType ==
    ASSUME NEW q \in Seq(Entries)
    PROVE  Trimmed(q) \in Seq(Entries)
<1>1. CASE Len(q) > MaxDeadLetterSize
  <2> DEFINE m == Len(q) - (MaxDeadLetterSize \div 2) + 1
  <2>1. Len(q) \in Nat /\ m \in 1..Len(q) + 1
    <3>1. MaxDeadLetterSize \div 2 \in 0..MaxDeadLetterSize
      BY PoolAssumption
    <3> QED
      BY <1>1, <3>1, PoolAssumption
  <2>2. \A i \in m..Len(q) : q[i] \in Entries
    BY <2>1
  <2> HIDE DEF m
  <2>3. m \in Int /\ Len(q) \in Int
    BY <2>1
  <2>4. SubSeq(q, m, Len(q)) \in Seq(Entries)
    BY <2>2, <2>3, SubSeqProperties, Zenon
  <2> USE DEF m
  <2> QED
    BY <1>1, <2>4 DEF Trimmed
<1> QED
  BY <1>1 DEF Trimmed

\* A worker that is not at its select holds an item.
LEMMA HeldItem ==
    ASSUME TypeOK, Hands, NEW w \in Workers, pc[w] \notin {"idle", "exited"}
    PROVE  held[w] \in Items /\ held[w].job \in Jobs /\ held[w].attempt \in Nat
BY NoItemIsNone DEF TypeOK, Hands

\* So does every slot of the job channel.
LEMMA QueuedItem ==
    ASSUME TypeOK, NEW i \in DOMAIN jobChan
    PROVE  /\ jobChan[i] \in Items /\ jobChan[i].job \in Jobs
           /\ jobChan[i].attempt \in Nat /\ i \in Nat \ {0}
<1>1. jobChan \in Seq(Items)
  BY DEF TypeOK
<1>2. DOMAIN jobChan = 1..Len(jobChan) /\ Len(jobChan) \in Nat
  BY <1>1
<1>3. jobChan[i] \in Items /\ i \in Nat \ {0}
  BY <1>1, <1>2
<1> QED
  BY <1>3, NoItemIsNone

-----------------------------------------------------------------------------
(* The type invariant is preserved.                                        *)

\* Every step of the pool keeps every variable in its type.
LEMMA TypeStep ==
    ASSUME TypeOK, StopOrder, Hands, [Next]_vars
    PROVE  TypeOK'
<1> USE DEF stopVars, dlVars, history
<1>1. CASE UNCHANGED vars
  BY <1>1 DEF TypeOK, vars
<1>2. ASSUME NEW j \in Jobs, SubmitCheck(j) PROVE TypeOK'
  BY <1>2 DEF TypeOK, SubmitCheck, SubmitPcs
<1>3. ASSUME NEW j \in Jobs, SubmitSend(j) PROVE TypeOK'
  <2>1. CASE JobChanClosed /\ submit' = [submit EXCEPT ![j] = "swallowed"] /\ UNCHANGED jobChan
    BY <1>3, <2>1 DEF TypeOK, SubmitSend, SubmitPcs
  <2>2. CASE Enqueue([job |-> j, attempt |-> 0]) /\ submit' = [submit EXCEPT ![j] = "accepted"]
    <3>1. [job |-> j, attempt |-> 0] \in Items
      BY DEF Items
    <3>2. jobChan' \in Seq(Items) /\ Len(jobChan') <= QueueCapacity
      BY <2>2, <3>1, AppendFacts, PoolAssumption DEF TypeOK, Enqueue, JobChanFull
    <3> QED
      BY <1>3, <2>2, <3>2 DEF TypeOK, SubmitSend, SubmitPcs
  <2>3. CASE submit' = [submit EXCEPT ![j] = "full"] /\ UNCHANGED jobChan
    BY <1>3, <2>3 DEF TypeOK, SubmitSend, SubmitPcs
  <2> QED
    BY <1>3, <2>1, <2>2, <2>3 DEF SubmitSend
<1>4. ASSUME NEW w \in Workers, Receive(w) PROVE TypeOK'
  <2>1. Head(jobChan) \in Items /\ Tail(jobChan) \in Seq(Items)
        /\ Len(Tail(jobChan)) <= QueueCapacity
    BY <1>4, TailFacts, PoolAssumption DEF TypeOK, Receive
  <2> QED
    BY <1>4, <2>1 DEF TypeOK, Receive, Goto, WorkerPcs
<1>5. ASSUME NEW w \in Workers, ExitWorker(w) PROVE TypeOK'
  BY <1>5 DEF TypeOK, ExitWorker, Goto, WorkerPcs
<1>6. ASSUME NEW w \in Workers, StartAttempt(w) PROVE TypeOK'
  <2>1. held[w].job \in Jobs /\ held[w].attempt + 1 \in Nat \ {0}
    BY <1>6, HeldItem DEF StartAttempt
  <2>2. audit' \in [Jobs -> Seq(AuditRows)] /\ row' \in [Workers -> Nat]
    BY <1>6, <2>1, OpenRowType DEF StartAttempt
  <2>3. ran' = [ran EXCEPT ![held[w].job] = @ + 1] \/ ran' = ran
    BY <1>6 DEF StartAttempt
  <2>4. ran' \in [Jobs -> Nat]
    BY <2>1, <2>3 DEF TypeOK
  <2> QED
    BY <1>6, <2>2, <2>4 DEF TypeOK, StartAttempt, Goto, WorkerPcs
<1>7. ASSUME NEW w \in Workers, HandlerMissing(w) PROVE TypeOK'
  <2>1. audit' \in [Jobs -> Seq(AuditRows)]
    BY <1>7, HeldItem, CloseRowType DEF HandlerMissing
  <2> QED
    BY <1>7, <2>1 DEF TypeOK, HandlerMissing, Goto, WorkerPcs, Reasons
<1>8. ASSUME NEW w \in Workers, HandlerSucceeds(w) PROVE TypeOK'
  <2>1. audit' \in [Jobs -> Seq(AuditRows)]
    BY <1>8, HeldItem, CloseRowType DEF HandlerSucceeds
  <2> QED
    BY <1>8, <2>1 DEF TypeOK, HandlerSucceeds, Release, Goto, WorkerPcs, Fates
<1>9. ASSUME NEW w \in Workers, HandlerFails(w) PROVE TypeOK'
  <2>1. audit' \in [Jobs -> Seq(AuditRows)]
    BY <1>9, HeldItem, CloseRowType DEF HandlerFails
  <2> QED
    BY <1>9, <2>1 DEF TypeOK, HandlerFails, Goto, WorkerPcs, Reasons
<1>10. ASSUME NEW w \in Workers, HandlerPanics(w) PROVE TypeOK'
  BY <1>10 DEF TypeOK, HandlerPanics
<1>11. ASSUME NEW w \in Workers, BackoffElapses(w) PROVE TypeOK'
  <2>1. held[w] \in Items
    BY <1>11, HeldItem DEF BackoffElapses
  <2>2. NextItem(held[w]) \in Items
    BY <2>1 DEF NextItem, Items
  <2> QED
    BY <1>11, <2>2 DEF TypeOK, BackoffElapses, Goto, WorkerPcs
<1>12. ASSUME NEW w \in Workers, CheckRunning(w) PROVE TypeOK'
  BY <1>12 DEF TypeOK, CheckRunning, AfterCheck, Goto, WorkerPcs, Reasons
<1>13. ASSUME NEW w \in Workers, Requeue(w) PROVE TypeOK'
  <2>1. CASE RetryClosed(w)
    BY <1>13, <2>1 DEF TypeOK, Requeue, RetryClosed, Goto, WorkerPcs, Reasons
  <2>2. CASE Enqueue(held[w]) /\ Release(w)
    <3>1. held[w] \in Items
      BY <1>13, HeldItem DEF Requeue
    <3>2. jobChan' \in Seq(Items) /\ Len(jobChan') <= QueueCapacity
      BY <2>2, <3>1, AppendFacts, PoolAssumption DEF TypeOK, Enqueue, JobChanFull
    <3> QED
      BY <1>13, <2>2, <3>2 DEF TypeOK, Requeue, Release, Goto, WorkerPcs
  <2>3. CASE RetryFull(w)
    BY <1>13, <2>3 DEF TypeOK, Requeue, RetryFull, Goto, WorkerPcs, Reasons
  <2> QED
    BY <1>13, <2>1, <2>2, <2>3 DEF Requeue
<1>14. ASSUME NEW w \in Workers, Bury(w) PROVE TypeOK'
  <2>1. held[w] \in Items /\ held[w].job \in Jobs /\ pc[w] \in Reasons
    BY <1>14, HeldItem DEF Bury, Reasons
  <2>2. CASE crashed' = TRUE /\ UNCHANGED <<pc, held, row, deadLetter, gauge, fate>>
    BY <1>14, <2>2 DEF TypeOK, Bury
  <2>3. CASE /\ Len(deadLetter) < QueueCapacity
             /\ deadLetter' = Append(deadLetter, [item |-> held[w], reason |-> pc[w]])
             /\ fate' = [fate EXCEPT ![held[w].job] = "buried"]
             /\ gauge' = gauge + 1
             /\ Release(w)
             /\ UNCHANGED crashed
    <3>1. [item |-> held[w], reason |-> pc[w]] \in Entries
      BY <2>1 DEF Entries
    <3>2. deadLetter' \in Seq(Entries) /\ Len(deadLetter') <= QueueCapacity
      BY <2>3, <3>1, AppendFacts, PoolAssumption DEF TypeOK
    <3> QED
      BY <1>14, <2>1, <2>3, <3>2 DEF TypeOK, Bury, Release, Goto, WorkerPcs, Fates
  <2>4. CASE /\ fate' = [fate EXCEPT ![held[w].job] = "dropped"]
             /\ gauge' = gauge + 1
             /\ Release(w)
             /\ UNCHANGED <<deadLetter, crashed>>
    BY <1>14, <2>1, <2>4 DEF TypeOK, Bury, Release, Goto, WorkerPcs, Fates
  <2> QED
    BY <1>14, <2>2, <2>3, <2>4 DEF Bury
<1>15. ASSUME RecordDeadLetter PROVE TypeOK'
  <2>1. Head(deadLetter) \in Entries /\ Tail(deadLetter) \in Seq(Entries)
        /\ Len(Tail(deadLetter)) <= QueueCapacity
    BY <1>15, TailFacts, PoolAssumption DEF TypeOK, RecordDeadLetter, Receives
  <2>2. Trimmed(deadLetterQ) \in Seq(Entries)
    BY TrimmedType DEF TypeOK
  <2>3. deadLetterQ' \in Seq(Entries)
    BY <1>15, <2>1, <2>2, AppendFacts DEF RecordDeadLetter
  <2> QED
    BY <1>15, <2>1, <2>3 DEF TypeOK, RecordDeadLetter
<1>16. ASSUME ExitDeadLetter PROVE TypeOK'
  BY <1>16 DEF TypeOK, ExitDeadLetter
<1>17. ASSUME NEW s \in Stoppers, StopBegin(s) PROVE TypeOK'
  BY <1>17 DEF TypeOK, StopBegin, StopPcs
<1>18. ASSUME NEW s \in Stoppers, StopClose(s) PROVE TypeOK'
  BY <1>18 DEF TypeOK, StopOrder, StopClose, ClosesLast, StopPcs
<1>19. ASSUME NEW s \in Stoppers, StopReturn(s) PROVE TypeOK'
  BY <1>19 DEF TypeOK, StopReturn, StopPcs
<1>20. ASSUME NEW w \in Workers, HandlerHangs(w) PROVE TypeOK'
  BY <1>20 DEF TypeOK, HandlerHangs, Goto, WorkerPcs
<1> QED
  BY <1>1, <1>2, <1>3, <1>4, <1>5, <1>6, <1>7, <1>8, <1>9, <1>10, <1>11, <1>12,
     <1>13, <1>14, <1>15, <1>16, <1>17, <1>18, <1>19, <1>20
  DEF Next, SubmitStep, WorkerTurn, WorkerStep, DeadLetterStep, StopStep

-----------------------------------------------------------------------------
(* One caller closes the channels; a worker at its select holds nothing.   *)

\* The first caller of Stop is the only one that reaches the closing of the
\* channels.
LEMMA StopOrderStep ==
    ASSUME TypeOK, StopOrder, [Next]_vars
    PROVE  StopOrder'
<1> USE DEF stopVars
<1>1. CASE UNCHANGED stopVars
  BY <1>1 DEF StopOrder
<1>2. ASSUME NEW s \in Stoppers, StopBegin(s) PROVE StopOrder'
  BY <1>2 DEF TypeOK, StopOrder, StopBegin
<1>3. ASSUME NEW s \in Stoppers, StopClose(s) PROVE StopOrder'
  BY <1>3 DEF TypeOK, StopOrder, StopClose, ClosesLast
<1>4. ASSUME NEW s \in Stoppers, StopReturn(s) PROVE StopOrder'
  BY <1>4 DEF TypeOK, StopOrder, StopReturn
<1>5. ASSUME NEW j \in Jobs, SubmitStep(j) PROVE UNCHANGED stopVars
  BY <1>5 DEF SubmitStep, SubmitCheck, SubmitSend
<1>6. ASSUME NEW w \in Workers, WorkerTurn(w) PROVE UNCHANGED stopVars
  BY <1>6 DEF WorkerTurn, WorkerStep, Receive, ExitWorker, StartAttempt,
     HandlerMissing, HandlerSucceeds, HandlerFails, HandlerPanics, HandlerHangs, BackoffElapses,
     CheckRunning, Requeue, Bury
<1>7. ASSUME DeadLetterStep PROVE UNCHANGED stopVars
  BY <1>7 DEF DeadLetterStep, RecordDeadLetter, ExitDeadLetter
<1>8. CASE UNCHANGED vars
  BY <1>1, <1>8 DEF vars
<1> QED
  BY <1>1, <1>2, <1>3, <1>4, <1>5, <1>6, <1>7, <1>8 DEF Next, StopStep

\* A worker holds an item exactly while it is inside executeJob.
LEMMA HandsStep ==
    ASSUME TypeOK, Hands, [Next]_vars
    PROVE  Hands'
<1>1. CASE UNCHANGED <<pc, held>>
  BY <1>1 DEF Hands
<1>2. ASSUME NEW w \in Workers, Receive(w) PROVE Hands'
  <2>1. Head(jobChan) # NoItem
    BY <1>2, TailFacts, NoItemIsNone DEF TypeOK, Receive
  <2> QED
    BY <1>2, <2>1 DEF TypeOK, Hands, Receive, Goto
<1>3. ASSUME NEW w \in Workers, Release(w) PROVE Hands'
  BY <1>3 DEF TypeOK, Hands, Release, Goto
<1>4. ASSUME NEW w \in Workers, NEW label, Goto(w, label), UNCHANGED held,
             (pc[w] \in {"idle", "exited"}) <=> (label \in {"idle", "exited"})
      PROVE  Hands'
  BY <1>4 DEF TypeOK, Hands, Goto
<1>5. ASSUME NEW w \in Workers, BackoffElapses(w) PROVE Hands'
  <2>1. held[w] \in Items
    BY <1>5, HeldItem DEF BackoffElapses
  <2>2. NextItem(held[w]) # NoItem
    BY <2>1, NoItemIsNone DEF NextItem, Items
  <2> QED
    BY <1>5, <2>2 DEF TypeOK, Hands, BackoffElapses, Goto
<1>6. ASSUME NEW w \in Workers, WorkerStep(w) PROVE Hands'
  <2>1. CASE ExitWorker(w)
    BY <1>4, <2>1 DEF ExitWorker
  <2>2. CASE StartAttempt(w)
    BY <1>4, <2>2 DEF StartAttempt
  <2>3. CASE HandlerMissing(w)
    BY <1>4, <2>3 DEF HandlerMissing
  <2>4. CASE HandlerSucceeds(w)
    BY <1>3, <2>4 DEF HandlerSucceeds
  <2>5. CASE HandlerFails(w)
    BY <1>4, <2>5 DEF HandlerFails
  <2>6. CASE HandlerPanics(w)
    BY <1>1, <2>6 DEF HandlerPanics
  <2>7. CASE CheckRunning(w)
    BY <1>4, <2>7 DEF CheckRunning, AfterCheck
  <2>8. CASE Requeue(w)
    BY <1>3, <1>4, <2>8 DEF Requeue, RetryClosed, RetryFull
  <2>9. CASE Bury(w)
    BY <1>1, <1>3, <2>9 DEF Bury
  <2>10. CASE HandlerHangs(w)
    BY <1>4, <2>10 DEF HandlerHangs
  <2> QED
    BY <1>2, <1>5, <1>6, <2>1, <2>2, <2>3, <2>4, <2>5, <2>6, <2>7, <2>8, <2>9, <2>10
    DEF WorkerStep
<1>7. ASSUME NEW j \in Jobs, SubmitStep(j) PROVE Hands'
  BY <1>1, <1>7 DEF SubmitStep, SubmitCheck, SubmitSend
<1>8. ASSUME DeadLetterStep PROVE Hands'
  BY <1>1, <1>8 DEF DeadLetterStep, RecordDeadLetter, ExitDeadLetter
<1>9. ASSUME NEW s \in Stoppers, StopStep(s) PROVE Hands'
  BY <1>1, <1>9 DEF StopStep, StopBegin, StopClose, StopReturn
<1>10. CASE UNCHANGED vars
  BY <1>1, <1>10 DEF vars
<1> QED
  BY <1>6, <1>7, <1>8, <1>9, <1>10 DEF Next, WorkerTurn

-----------------------------------------------------------------------------
(* Where the jobs are.  The steps of the pool fall into seven kinds.       *)

\* No job moves, starts or ends.
Quiet ==
    /\ UNCHANGED <<jobChan, held, fate, ran>>
    /\ submit' \in [Jobs -> SubmitPcs]
    /\ \A j \in Jobs : submit'[j] = "accepted" <=> submit[j] = "accepted"

\* Job j enters the queue.
Enters(j) ==
    /\ submit[j] = "checked"
    /\ jobChan' = Append(jobChan, [job |-> j, attempt |-> 0])
    /\ submit' = [submit EXCEPT ![j] = "accepted"]
    /\ UNCHANGED <<held, fate, ran>>

\* The handler of the job worker w holds is called.
Called(w) ==
    /\ held[w] \in Items
    /\ pc[w] = "taken"
    /\ ran' = [ran EXCEPT ![held[w].job] = @ + 1]
    /\ UNCHANGED <<jobChan, held, fate, submit>>

\* The job worker w holds ends.
Ends(w) ==
    /\ held[w] \in Items
    /\ \E f \in Fates \ {"none"} : fate' = [fate EXCEPT ![held[w].job] = f]
    /\ held' = [held EXCEPT ![w] = NoItem]
    /\ UNCHANGED <<jobChan, ran, submit>>

\* The attempt number of the job worker w holds goes up.
Counts(w) ==
    /\ held[w] \in Items
    /\ held' = [held EXCEPT ![w] = NextItem(held[w])]
    /\ UNCHANGED <<jobChan, fate, ran, submit>>

\* The job worker w holds goes back to the queue.
Returns(w) ==
    /\ held[w] \in Items
    /\ jobChan' = Append(jobChan, held[w])
    /\ held' = [held EXCEPT ![w] = NoItem]
    /\ UNCHANGED <<fate, ran, submit>>

\* What a step does to the jobs is one of the six cases above; the lemmas that
\* follow go through these instead of through the actions.
LEMMA Kinds ==
    ASSUME TypeOK, Hands, [Next]_vars
    PROVE  \/ Quiet
           \/ \E j \in Jobs : Enters(j)
           \/ \E w \in Workers :
                  Receive(w) \/ Called(w) \/ Ends(w) \/ Counts(w) \/ Returns(w)
<1> USE DEF stopVars, dlVars, history
<1>1. ASSUME UNCHANGED <<jobChan, held, fate, ran, submit>> PROVE Quiet
  BY <1>1 DEF Quiet, TypeOK
<1>2. ASSUME NEW j \in Jobs, SubmitCheck(j) PROVE Quiet
  BY <1>2 DEF Quiet, TypeOK, SubmitCheck, SubmitPcs
<1>3. ASSUME NEW j \in Jobs, SubmitSend(j) PROVE Quiet \/ Enters(j)
  BY <1>3 DEF Quiet, Enters, Enqueue, TypeOK, SubmitSend, SubmitPcs
<1>4. ASSUME NEW w \in Workers, WorkerStep(w)
      PROVE  Quiet \/ Receive(w) \/ Called(w) \/ Ends(w) \/ Counts(w) \/ Returns(w)
  <2>1. CASE ExitWorker(w)
    BY <1>1, <2>1 DEF ExitWorker
  <2>2. CASE StartAttempt(w)
    BY <1>1, <2>2, HeldItem DEF StartAttempt, Called
  <2>3. CASE HandlerMissing(w)
    BY <1>1, <2>3 DEF HandlerMissing
  <2>4. CASE HandlerSucceeds(w)
    BY <2>4, HeldItem DEF HandlerSucceeds, Release, Ends, Fates
  <2>5. CASE HandlerFails(w)
    BY <1>1, <2>5 DEF HandlerFails
  <2>6. CASE HandlerPanics(w)
    BY <1>1, <2>6 DEF HandlerPanics
  <2>7. CASE BackoffElapses(w)
    BY <2>7, HeldItem DEF BackoffElapses, Counts
  <2>8. CASE CheckRunning(w)
    BY <1>1, <2>8 DEF CheckRunning
  <2>9. CASE Requeue(w)
    <3>1. held[w] \in Items
      BY <2>9, HeldItem DEF Requeue
    <3> QED
      BY <1>1, <2>9, <3>1 DEF Requeue, RetryClosed, RetryFull, Enqueue, Release, Returns
  <2>10. CASE Bury(w)
    <3>1. held[w] \in Items
      BY <2>10, HeldItem DEF Bury, Reasons
    <3> QED
      BY <1>1, <2>10, <3>1 DEF Bury, Release, Ends, Fates
  <2>11. CASE HandlerHangs(w)
    BY <1>1, <2>11 DEF HandlerHangs
  <2> QED
    BY <1>4, <2>1, <2>2, <2>3, <2>4, <2>5, <2>6, <2>7, <2>8, <2>9, <2>10, <2>11
    DEF WorkerStep
<1>5. ASSUME DeadLetterStep PROVE Quiet
  BY <1>1, <1>5 DEF DeadLetterStep, RecordDeadLetter, ExitDeadLetter
<1>6. ASSUME NEW s \in Stoppers, StopStep(s) PROVE Quiet
  BY <1>1, <1>6 DEF StopStep, StopBegin, StopClose, StopReturn
<1>7. CASE UNCHANGED vars
  BY <1>1, <1>7 DEF vars
<1> QED
  BY <1>2, <1>3, <1>4, <1>5, <1>6, <1>7 DEF Next, SubmitStep, WorkerTurn

\* Two copies of a job never come to exist, and an ended job is nowhere.
LEMMA ApartStep ==
    ASSUME TypeOK, Hands, Apart, [Next]_vars
    PROVE  Apart'
<1>1. CASE Quiet
  <2>1. \A i \in DOMAIN jobChan : jobChan[i].job \in Jobs
    BY QueuedItem
  <2>2. \A w \in Workers : held[w] \in Items => held[w].job \in Jobs
    BY DEF Items
  <2> QED
    BY <1>1, <2>1, <2>2 DEF Quiet, Apart
<1>2. ASSUME NEW j \in Jobs, Enters(j) PROVE Apart'
  <2> DEFINE e == [job |-> j, attempt |-> 0]
  <2>1. e \in Items /\ e.job = j
    BY DEF Items
  <2>2. \A i \in DOMAIN jobChan : jobChan[i].job # j
    BY <1>2 DEF Enters, Apart
  <2>3. \A w \in Workers : held[w].job # j
    <3> SUFFICES ASSUME NEW w \in Workers PROVE held[w].job # j
      OBVIOUS
    <3>1. CASE held[w] = NoItem
      BY <3>1, NoItemIsNone
    <3>2. CASE held[w] \in Items
      BY <1>2, <3>2 DEF Enters, Apart
    <3> QED
      BY <3>1, <3>2 DEF TypeOK
  <2>4. /\ DOMAIN jobChan' = 1..Len(jobChan) + 1
        /\ DOMAIN jobChan = 1..Len(jobChan)
        /\ Len(jobChan) \in Nat
        /\ \A i \in 1..Len(jobChan) : jobChan'[i] = jobChan[i]
        /\ jobChan'[Len(jobChan) + 1] = e
    BY <1>2, <2>1, AppendFacts DEF Enters, TypeOK
  <2> HIDE DEF e
  <2>5. \A i \in DOMAIN jobChan' :
            \/ i \in DOMAIN jobChan /\ jobChan'[i] = jobChan[i]
            \/ i = Len(jobChan) + 1 /\ jobChan'[i] = e
    BY <2>4
  <2>6. fate[j] = "none" /\ submit'[j] = "accepted"
    BY <1>2 DEF Enters, Apart, TypeOK
  <2> QED
    BY <1>2, <2>1, <2>2, <2>3, <2>5, <2>6 DEF Enters, Apart, TypeOK
<1>3. ASSUME NEW w \in Workers, Receive(w) PROVE Apart'
  <2>1. /\ Head(jobChan) \in Items
        /\ Head(jobChan) = jobChan[1]
        /\ 1 \in DOMAIN jobChan
        /\ \A i \in DOMAIN jobChan' :
               /\ i + 1 \in DOMAIN jobChan
               /\ jobChan'[i] = jobChan[i + 1]
               /\ i \in Nat \ {0}
    BY <1>3, TailFacts DEF Receive, TypeOK
  <2>2. held' = [held EXCEPT ![w] = jobChan[1]]
    BY <1>3, <2>1 DEF Receive
  <2>3. UNCHANGED <<submit, fate, ran>>
    BY <1>3 DEF Receive, history
  <2>4. \A i, k \in DOMAIN jobChan' : jobChan'[i].job = jobChan'[k].job => i = k
    <3> SUFFICES ASSUME NEW i \in DOMAIN jobChan', NEW k \in DOMAIN jobChan',
                        jobChan'[i].job = jobChan'[k].job
                 PROVE  i = k
      OBVIOUS
    <3>1. i + 1 = k + 1
      BY <2>1 DEF Apart
    <3> QED
      BY <2>1, <3>1
  <2>5. \A i \in DOMAIN jobChan' : \A v \in Workers : jobChan'[i].job # held'[v].job
    <3> SUFFICES ASSUME NEW i \in DOMAIN jobChan', NEW v \in Workers,
                        jobChan'[i].job = held'[v].job
                 PROVE  FALSE
      OBVIOUS
    <3>1. CASE v = w
      <4>1. jobChan[i + 1].job = jobChan[1].job
        BY <2>1, <2>2, <3>1 DEF TypeOK
      <4>2. i + 1 = 1
        BY <2>1, <4>1 DEF Apart
      <4> QED
        BY <2>1, <4>2
    <3>2. CASE v # w
      BY <2>1, <2>2, <3>2 DEF Apart, TypeOK
    <3> QED
      BY <3>1, <3>2
  <2> QED
    BY <2>1, <2>2, <2>3, <2>4, <2>5 DEF Apart, TypeOK
<1>4. ASSUME NEW w \in Workers, Called(w) PROVE Apart'
  BY <1>4 DEF Called, Apart, TypeOK, Items
<1>5. ASSUME NEW w \in Workers, Ends(w) PROVE Apart'
  BY <1>5, NoItemIsNone DEF Ends, Apart, TypeOK
<1>6. ASSUME NEW w \in Workers, Counts(w) PROVE Apart'
  <2>1. NextItem(held[w]) \in Items /\ NextItem(held[w]).job = held[w].job
    BY <1>6 DEF Counts, NextItem, Items
  <2> QED
    BY <1>6, <2>1 DEF Counts, Apart, TypeOK
<1>7. ASSUME NEW w \in Workers, Returns(w) PROVE Apart'
  <2>1. /\ DOMAIN jobChan = 1..Len(jobChan)
        /\ \A i \in DOMAIN jobChan' :
               \/ i \in DOMAIN jobChan /\ jobChan'[i] = jobChan[i]
               \/ i = Len(jobChan) + 1 /\ jobChan'[i] = held[w]
    BY <1>7, AppendFacts DEF Returns, TypeOK
  <2>2. \A v \in Workers : v # w => held'[v] = held[v]
    BY <1>7 DEF Returns, TypeOK
  <2>3. held'[w] = NoItem
    BY <1>7 DEF Returns, TypeOK
  <2> QED
    BY <1>7, <2>1, <2>2, <2>3, NoItemIsNone DEF Returns, Apart, TypeOK
<1> QED
  BY <1>1, <1>2, <1>3, <1>4, <1>5, <1>6, <1>7, Kinds

\* A job that was accepted does not vanish before it has ended.
LEMMA KeptStep ==
    ASSUME TypeOK, Hands, Apart, Kept, [Next]_vars
    PROVE  Kept'
<1>1. CASE Quiet
  BY <1>1 DEF Quiet, Kept
<1>2. ASSUME NEW j \in Jobs, Enters(j) PROVE Kept'
  <2> DEFINE e == [job |-> j, attempt |-> 0]
  <2>1. e \in Items /\ e.job = j
    BY DEF Items
  <2>2. /\ Len(jobChan) + 1 \in DOMAIN jobChan'
        /\ jobChan'[Len(jobChan) + 1].job = j
        /\ \A i \in DOMAIN jobChan : i \in DOMAIN jobChan' /\ jobChan'[i] = jobChan[i]
    BY <1>2, <2>1, AppendFacts DEF Enters, TypeOK
  <2>3. \A k \in Jobs : k # j => submit'[k] = submit[k]
    BY <1>2 DEF Enters, TypeOK
  <2> QED
    BY <1>2, <2>2, <2>3 DEF Enters, Kept
<1>3. ASSUME NEW w \in Workers, Receive(w) PROVE Kept'
  <2>1. /\ \A i \in DOMAIN jobChan :
               i = 1 \/ (i - 1 \in DOMAIN jobChan' /\ jobChan'[i - 1] = jobChan[i])
        /\ held' = [held EXCEPT ![w] = jobChan[1]]
        /\ held[w] = NoItem
    <3>1. held[w] = NoItem
      BY <1>3 DEF Receive, Hands
    <3> QED
      BY <1>3, <3>1, TailFacts DEF Receive, TypeOK
  <2>2. UNCHANGED <<submit, fate>>
    BY <1>3 DEF Receive, history
  <2> SUFFICES ASSUME NEW j \in Jobs, submit[j] = "accepted", fate[j] = "none"
               PROVE  \/ \E i \in DOMAIN jobChan' : jobChan'[i].job = j
                      \/ \E v \in Workers : held'[v].job = j
    BY <2>2 DEF Kept
  <2>3. CASE \E i \in DOMAIN jobChan : jobChan[i].job = j
    BY <2>1, <2>3 DEF TypeOK
  <2>4. CASE \E v \in Workers : held[v].job = j
    <3>1. PICK v \in Workers : held[v].job = j
      BY <2>4
    <3>2. v # w
      BY <2>1, <3>1, NoItemIsNone
    <3> QED
      BY <2>1, <3>1, <3>2 DEF TypeOK
  <2> QED
    BY <2>3, <2>4 DEF Kept
<1>4. ASSUME NEW w \in Workers, Called(w) PROVE Kept'
  BY <1>4 DEF Called, Kept
<1>5. ASSUME NEW w \in Workers, Ends(w) PROVE Kept'
  <2> SUFFICES ASSUME NEW j \in Jobs, submit'[j] = "accepted", fate'[j] = "none"
               PROVE  \/ \E i \in DOMAIN jobChan' : jobChan'[i].job = j
                      \/ \E v \in Workers : held'[v].job = j
    BY DEF Kept
  <2>1. held[w].job \in Jobs
    BY <1>5, NoItemIsNone DEF Ends
  <2>2. j # held[w].job /\ fate[j] = "none" /\ submit[j] = "accepted"
    BY <1>5, <2>1 DEF Ends, TypeOK
  <2>3. \/ \E i \in DOMAIN jobChan : jobChan[i].job = j
        \/ \E v \in Workers : v # w /\ held[v].job = j
    BY <2>2 DEF Kept
  <2> QED
    BY <1>5, <2>3 DEF Ends, TypeOK
<1>6. ASSUME NEW w \in Workers, Counts(w) PROVE Kept'
  <2>1. NextItem(held[w]).job = held[w].job
    BY <1>6 DEF Counts, NextItem, Items
  <2> QED
    BY <1>6, <2>1 DEF Counts, Kept, TypeOK
<1>7. ASSUME NEW w \in Workers, Returns(w) PROVE Kept'
  <2>1. /\ Len(jobChan) + 1 \in DOMAIN jobChan'
        /\ jobChan'[Len(jobChan) + 1] = held[w]
        /\ \A i \in DOMAIN jobChan : i \in DOMAIN jobChan' /\ jobChan'[i] = jobChan[i]
    BY <1>7, AppendFacts DEF Returns, TypeOK
  <2>2. \A v \in Workers : v # w => held'[v] = held[v]
    BY <1>7 DEF Returns, TypeOK
  <2> QED
    BY <1>7, <2>1, <2>2 DEF Returns, Kept
<1> QED
  BY <1>1, <1>2, <1>3, <1>4, <1>5, <1>6, <1>7, Kinds

-----------------------------------------------------------------------------
(* How often a job was run.                                                *)

\* The attempt number in the queue or in a hand stays the number of calls of
\* the handler.
LEMMA CountedStep ==
    ASSUME TypeOK, Hands, Apart, Counted, [Next]_vars
    PROVE  Counted'
<1> USE DEF stopVars, dlVars, history
<1>1. ASSUME UNCHANGED <<jobChan, ran, held, pc>> PROVE Counted'
  BY <1>1 DEF Counted, CountAt
\* A worker goes on with its item.
<1>2. ASSUME NEW w \in Workers, NEW label, Goto(w, label),
             UNCHANGED <<jobChan, ran, held>>,
             held[w] \in Items =>
                 CountAt(label, held[w].attempt, ran[held[w].job], Budget(held[w].job))
      PROVE  Counted'
  <2>1. pc' = [pc EXCEPT ![w] = label] /\ pc \in [Workers -> WorkerPcs]
    BY <1>2 DEF Goto, TypeOK
  <2>2. \A v \in Workers :
            held[v] \in Items =>
                CountAt(pc'[v], held[v].attempt, ran[held[v].job], Budget(held[v].job))
    BY <1>2, <2>1 DEF Counted
  <2> QED
    BY <1>2, <2>2 DEF Counted
\* A worker lets go of its item.
<1>3. ASSUME NEW w \in Workers, Release(w), UNCHANGED <<jobChan, ran>>
      PROVE  Counted'
  <2>1. \A v \in Workers : v # w => held'[v] = held[v] /\ pc'[v] = pc[v]
    BY <1>3 DEF Release, Goto, TypeOK
  <2>2. held'[w] \notin Items
    BY <1>3, NoItemIsNone DEF Release, TypeOK
  <2> QED
    BY <1>3, <2>1, <2>2 DEF Counted
\* An item whose attempt number is its job's count joins the queue.
<1>4. ASSUME NEW item \in Items, jobChan' = Append(jobChan, item), UNCHANGED ran,
             item.attempt = ran[item.job], ran[item.job] < Budget(item.job)
      PROVE  \A i \in DOMAIN jobChan' :
                 /\ jobChan'[i].attempt = ran'[jobChan'[i].job]
                 /\ ran'[jobChan'[i].job] < Budget(jobChan'[i].job)
  <2>1. \A i \in DOMAIN jobChan' :
            (i \in DOMAIN jobChan /\ jobChan'[i] = jobChan[i]) \/ jobChan'[i] = item
    BY <1>4, AppendFacts DEF TypeOK
  <2> QED
    BY <1>4, <2>1 DEF Counted
<1>5. ASSUME NEW j \in Jobs, SubmitSend(j) PROVE Counted'
  <2>1. CASE UNCHANGED jobChan
    BY <1>1, <1>5, <2>1 DEF SubmitSend
  <2>2. CASE Enqueue([job |-> j, attempt |-> 0])
    <3> DEFINE e == [job |-> j, attempt |-> 0]
    <3>1. e \in Items /\ e.attempt = ran[e.job] /\ ran[e.job] < Budget(e.job)
      BY <1>5, BudgetFacts DEF SubmitSend, Apart, Items
    <3>2. jobChan' = Append(jobChan, e) /\ UNCHANGED <<ran, held, pc>>
      BY <1>5, <2>2 DEF SubmitSend, Enqueue
    <3> HIDE DEF e
    <3>3. \A i \in DOMAIN jobChan' :
              /\ jobChan'[i].attempt = ran'[jobChan'[i].job]
              /\ ran'[jobChan'[i].job] < Budget(jobChan'[i].job)
      BY <1>4, <3>1, <3>2
    <3> QED
      BY <3>2, <3>3 DEF Counted
  <2> QED
    BY <1>5, <2>1, <2>2 DEF SubmitSend
<1>6. ASSUME NEW w \in Workers, Receive(w) PROVE Counted'
  <2>1. /\ 1 \in DOMAIN jobChan
        /\ \A i \in DOMAIN jobChan' :
               i + 1 \in DOMAIN jobChan /\ jobChan'[i] = jobChan[i + 1]
        /\ held' = [held EXCEPT ![w] = jobChan[1]]
        /\ pc' = [pc EXCEPT ![w] = "taken"]
        /\ UNCHANGED ran
    BY <1>6, TailFacts DEF Receive, TypeOK, Goto
  <2>2. CountAt("taken", jobChan[1].attempt, ran[jobChan[1].job], Budget(jobChan[1].job))
    BY <2>1 DEF Counted, CountAt
  <2>3. \A v \in Workers : v # w => held'[v] = held[v] /\ pc'[v] = pc[v]
    BY <2>1 DEF TypeOK
  <2>4. held'[w] = jobChan[1] /\ pc'[w] = "taken"
    BY <2>1 DEF TypeOK
  <2> QED
    BY <2>1, <2>2, <2>3, <2>4 DEF Counted
<1>7. ASSUME NEW w \in Workers, StartAttempt(w) PROVE Counted'
  <2>1. held[w] \in Items /\ held[w].job \in Jobs /\ held[w].attempt \in Nat
    BY <1>7, HeldItem DEF StartAttempt
  <2>2. held[w].attempt = ran[held[w].job] /\ ran[held[w].job] < Budget(held[w].job)
    BY <1>7, <2>1 DEF StartAttempt, Counted, CountAt
  <2>3. CASE Goto(w, "missing") /\ UNCHANGED ran
    BY <1>2, <1>7, <2>2, <2>3 DEF StartAttempt, CountAt
  <2>4. CASE Goto(w, "running") /\ ran' = [ran EXCEPT ![held[w].job] = @ + 1]
    <3>1. UNCHANGED <<jobChan, held>>
      BY <1>7 DEF StartAttempt
    <3>2. /\ ran'[held[w].job] = ran[held[w].job] + 1
          /\ \A j \in Jobs : j # held[w].job => ran'[j] = ran[j]
          /\ pc'[w] = "running"
          /\ \A v \in Workers : v # w => pc'[v] = pc[v]
      BY <2>1, <2>4 DEF TypeOK, Goto
    <3>3. \A j \in Jobs : ran'[j] <= Budget(j)
      <4>1. ran[held[w].job] + 1 <= Budget(held[w].job)
        BY <2>1, <2>2, BudgetFacts DEF TypeOK
      <4> QED
        BY <3>2, <4>1 DEF Counted
    <3>4. \A i \in DOMAIN jobChan : ran'[jobChan[i].job] = ran[jobChan[i].job]
      BY <3>2, QueuedItem DEF Apart
    <3>5. \A v \in Workers :
              v # w /\ held[v] \in Items => ran'[held[v].job] = ran[held[v].job]
      BY <2>1, <3>2, NoItemIsNone DEF Apart
    <3>6. CountAt("running", held[w].attempt, ran'[held[w].job], Budget(held[w].job))
      BY <2>1, <2>2, <3>2, <3>3 DEF CountAt
    <3> QED
      BY <3>1, <3>2, <3>3, <3>4, <3>5, <3>6 DEF Counted
  <2> QED
    BY <1>7, <2>3, <2>4 DEF StartAttempt
<1>8. ASSUME NEW w \in Workers, HandlerMissing(w) PROVE Counted'
  BY <1>2, <1>8 DEF HandlerMissing, Counted, CountAt
<1>9. ASSUME NEW w \in Workers, HandlerSucceeds(w) PROVE Counted'
  BY <1>3, <1>9 DEF HandlerSucceeds
<1>10. ASSUME NEW w \in Workers, HandlerFails(w) PROVE Counted'
  <2> DEFINE j == held[w].job
             a == held[w].attempt
  <2>1. held[w] \in Items /\ j \in Jobs /\ a \in Nat
    BY <1>10, HeldItem DEF HandlerFails
  <2>2. a + 1 = ran[j] /\ ran[j] <= Budget(j)
    BY <1>10, <2>1 DEF HandlerFails, Counted, CountAt
  <2>3. CASE a < LastAttempt(j)
    <3>1. CountAt("backoff", a, ran[j], Budget(j))
      BY <2>1, <2>2, <2>3, BudgetFacts DEF CountAt, LastAttempt
    <3> QED
      BY <1>2, <1>10, <2>3, <3>1 DEF HandlerFails
  <2>4. CASE ~(a < LastAttempt(j))
    <3>1. CountAt("max_retries_exceeded", a, ran[j], Budget(j))
      BY <2>1, <2>2, <2>4, BudgetFacts DEF CountAt, LastAttempt
    <3> QED
      BY <1>2, <1>10, <2>4, <3>1 DEF HandlerFails
  <2> QED
    BY <2>3, <2>4
<1>11. ASSUME NEW w \in Workers, BackoffElapses(w) PROVE Counted'
  <2>1. held[w] \in Items /\ held[w].job \in Jobs /\ held[w].attempt \in Nat
    BY <1>11, HeldItem DEF BackoffElapses
  <2>2. NextItem(held[w]) \in Items /\ NextItem(held[w]).job = held[w].job
        /\ NextItem(held[w]).attempt = held[w].attempt + 1
    BY <2>1 DEF NextItem, Items
  <2>3. CountAt("check", held[w].attempt + 1, ran[held[w].job], Budget(held[w].job))
    BY <1>11, <2>1 DEF BackoffElapses, Counted, CountAt
  <2>4. /\ held'[w] = NextItem(held[w]) /\ pc'[w] = "check"
        /\ \A v \in Workers : v # w => held'[v] = held[v] /\ pc'[v] = pc[v]
        /\ UNCHANGED <<jobChan, ran>>
    BY <1>11 DEF BackoffElapses, Goto, TypeOK
  <2> QED
    BY <2>2, <2>3, <2>4 DEF Counted
<1>12. ASSUME NEW w \in Workers, CheckRunning(w) PROVE Counted'
  BY <1>2, <1>12 DEF CheckRunning, AfterCheck, Counted, CountAt
<1>13. ASSUME NEW w \in Workers, Requeue(w) PROVE Counted'
  <2>1. held[w] \in Items
    BY <1>13, HeldItem DEF Requeue
  <2>2. held[w].attempt = ran[held[w].job] /\ ran[held[w].job] < Budget(held[w].job)
        /\ ran[held[w].job] > 0
    BY <1>13, <2>1 DEF Requeue, Counted, CountAt
  <2>3. CASE RetryClosed(w)
    BY <1>2, <1>13, <2>2, <2>3 DEF Requeue, RetryClosed, CountAt
  <2>4. CASE RetryFull(w)
    BY <1>2, <1>13, <2>2, <2>4 DEF Requeue, RetryFull, CountAt
  <2>5. CASE Enqueue(held[w]) /\ Release(w)
    <3>1. jobChan' = Append(jobChan, held[w]) /\ UNCHANGED ran
      BY <1>13, <2>5 DEF Enqueue, Requeue
    <3>2. \A i \in DOMAIN jobChan' :
              /\ jobChan'[i].attempt = ran'[jobChan'[i].job]
              /\ ran'[jobChan'[i].job] < Budget(jobChan'[i].job)
      BY <1>4, <2>1, <2>2, <3>1
    <3>3. \A v \in Workers : v # w => held'[v] = held[v] /\ pc'[v] = pc[v]
      BY <2>5 DEF Release, Goto, TypeOK
    <3>4. held'[w] \notin Items
      BY <2>5, NoItemIsNone DEF Release, TypeOK
    <3> QED
      BY <3>1, <3>2, <3>3, <3>4 DEF Counted
  <2> QED
    BY <1>13, <2>3, <2>4, <2>5 DEF Requeue
<1>14. ASSUME NEW w \in Workers, Bury(w) PROVE Counted'
  BY <1>1, <1>3, <1>14 DEF Bury
<1>15. ASSUME NEW w \in Workers, WorkerStep(w) PROVE Counted'
  <2>1. CASE ExitWorker(w)
    BY <1>2, <2>1, NoItemIsNone DEF ExitWorker, CountAt
  <2>2. CASE HandlerPanics(w)
    BY <1>1, <2>2 DEF HandlerPanics
  <2>3. CASE HandlerHangs(w)
    <3>1. CountAt("running", held[w].attempt, ran[held[w].job], Budget(held[w].job))
      BY <2>3, HeldItem DEF HandlerHangs, Counted
    <3> QED
      BY <1>2, <2>3, <3>1 DEF HandlerHangs, CountAt
  <2> QED
    BY <1>6, <1>7, <1>8, <1>9, <1>10, <1>11, <1>12, <1>13, <1>14, <1>15, <2>1, <2>2, <2>3
    DEF WorkerStep
<1>16. ASSUME NEW j \in Jobs, SubmitCheck(j) PROVE Counted'
  BY <1>1, <1>16 DEF SubmitCheck
<1>17. ASSUME DeadLetterStep PROVE Counted'
  BY <1>1, <1>17 DEF DeadLetterStep, RecordDeadLetter, ExitDeadLetter
<1>18. ASSUME NEW s \in Stoppers, StopStep(s) PROVE Counted'
  BY <1>1, <1>18 DEF StopStep, StopBegin, StopClose, StopReturn
<1>19. CASE UNCHANGED vars
  BY <1>1, <1>19 DEF vars
<1> QED
  BY <1>5, <1>15, <1>16, <1>17, <1>18, <1>19 DEF Next, SubmitStep, WorkerTurn

-----------------------------------------------------------------------------
(* The theorems.                                                           *)

\* The inductive invariant holds before the first step.
LEMMA InitPoolInv == Init => PoolInv
<1> SUFFICES ASSUME Init PROVE PoolInv
  OBVIOUS
<1>1. TypeOK
  <2>1. /\ jobChan \in Seq(Items) /\ Len(jobChan) <= QueueCapacity
        /\ deadLetter \in Seq(Entries) /\ Len(deadLetter) <= QueueCapacity
        /\ deadLetterQ \in Seq(Entries)
    BY PoolAssumption DEF Init
  <2>2. audit \in [Jobs -> Seq(AuditRows)] /\ held \in [Workers -> Items \cup {NoItem}]
    BY DEF Init
  <2>3. /\ stopPc \in [Stoppers -> StopPcs] /\ submit \in [Jobs -> SubmitPcs]
        /\ pc \in [Workers -> WorkerPcs] /\ fate \in [Jobs -> Fates]
        /\ row \in [Workers -> Nat] /\ ran \in [Jobs -> Nat]
    BY DEF Init, StopPcs, SubmitPcs, WorkerPcs, Fates
  <2>4. gauge \in Nat /\ closeStage \in 0..3 /\ dlProcessor \in {"on", "exited"}
    BY DEF Init
  <2>5. running \in BOOLEAN /\ crashed \in BOOLEAN
    BY DEF Init
  <2> QED
    BY <2>1, <2>2, <2>3, <2>4, <2>5 DEF TypeOK
<1>2. StopOrder
  BY DEF Init, StopOrder
<1>3. Hands
  BY DEF Init, Hands
<1>4. Apart /\ Kept
  BY NoItemIsNone DEF Init, Apart, Kept
<1>5. Counted
  BY NoItemIsNone, BudgetFacts DEF Init, Counted
<1> QED
  BY <1>1, <1>2, <1>3, <1>4, <1>5 DEF PoolInv

\* Every step keeps it.
LEMMA NextPoolInv == PoolInv /\ [Next]_vars => PoolInv'
BY TypeStep, StopOrderStep, HandsStep, ApartStep, KeptStep, CountedStep DEF PoolInv

\* So it holds in every reachable state of the pool.
LEMMA PoolInvariant == Spec => []PoolInv
BY InitPoolInv, NextPoolInv, PTL DEF Spec

\* Type correctness, with the bounds of both channels, for every instance.
THEOREM TypeCorrect == Spec => []TypeOK
<1>1. PoolInv => TypeOK
  BY DEF PoolInv
<1> QED
  BY <1>1, PoolInvariant, PTL

\* No interleaving of submitters, workers, retries, dead-letter sends and Stop
\* loses an accepted job or makes a second copy of it.
THEOREM NoJobLostOrDoubled == Spec => []OnePlace
<1>1. PoolInv => OnePlace
  <2> SUFFICES ASSUME PoolInv, NEW j \in Jobs
               PROVE  IF submit[j] = "accepted"
                      THEN \E p \in Places(j) : Places(j) = {p}
                      ELSE Places(j) = {}
    BY DEF OnePlace
  <2> DEFINE Q == {<<"queue", i>> : i \in {k \in DOMAIN jobChan : jobChan[k].job = j}}
             H == {<<"worker", w>> : w \in {v \in Workers : held[v].job = j}}
             E == {<<"ended", f>> : f \in {fate[j]} \ {"none"}}
  <2> USE DEF PoolInv
  <2>1. Places(j) = Q \cup H \cup E
    BY DEF Places
  <2>2. \A v \in Workers : held[v].job = j => held[v] \in Items
    BY NoItemIsNone DEF TypeOK
  <2>3. CASE submit[j] # "accepted"
    <3>1. Q = {} /\ H = {} /\ E = {}
      BY <2>2, <2>3 DEF Apart
    <3> QED
      BY <2>1, <2>3, <3>1
  <2>4. CASE submit[j] = "accepted" /\ fate[j] # "none"
    <3>1. Q = {} /\ H = {}
      BY <2>2, <2>4 DEF Apart
    <3>2. E = {<<"ended", fate[j]>>}
      BY <2>4
    <3> QED
      BY <2>1, <2>4, <3>1, <3>2
  <2>5. CASE submit[j] = "accepted" /\ fate[j] = "none"
    <3>1. E = {}
      BY <2>5
    <3>2. CASE \E i \in DOMAIN jobChan : jobChan[i].job = j
      <4>1. PICK i \in DOMAIN jobChan : jobChan[i].job = j
        BY <3>2
      <4>2. Q = {<<"queue", i>>}
        BY <4>1 DEF Apart
      <4>3. H = {}
        BY <4>1 DEF Apart
      <4> QED
        BY <2>1, <2>5, <3>1, <4>2, <4>3
    <3>3. CASE \E w \in Workers : held[w].job = j
      <4>1. PICK w \in Workers : held[w].job = j
        BY <3>3
      <4>2. H = {<<"worker", w>>}
        BY <2>2, <4>1 DEF Apart
      <4>3. Q = {}
        BY <4>1 DEF Apart
      <4> QED
        BY <2>1, <2>5, <3>1, <4>2, <4>3
    <3> QED
      BY <2>5, <3>2, <3>3 DEF Kept
  <2> QED
    BY <2>3, <2>4, <2>5
<1> QED
  BY <1>1, PoolInvariant, PTL

\* Every job is run at most as often as its retry configuration allows, and the
\* attempt number it carries is the number of its runs.
THEOREM AttemptsAreExact == Spec => []AttemptsExact
<1>1. PoolInv => AttemptsExact
  <2> SUFFICES ASSUME PoolInv PROVE AttemptsExact
    OBVIOUS
  <2>1. ASSUME NEW w \in Workers, held[w] # NoItem
        PROVE  IF pc[w] \in {"running", "hung", "backoff", "max_retries_exceeded"}
               THEN held[w].attempt + 1 = ran[held[w].job]
               ELSE held[w].attempt = ran[held[w].job]
    <3>1. held[w] \in Items /\ pc[w] \in WorkerPcs \ {"idle", "exited"}
      BY <2>1 DEF PoolInv, TypeOK, Hands
    <3>2. CountAt(pc[w], held[w].attempt, ran[held[w].job], Budget(held[w].job))
      BY <3>1 DEF PoolInv, Counted
    <3> QED
      BY <3>1, <3>2 DEF CountAt, WorkerPcs, Reasons
  <2> QED
    BY <2>1 DEF PoolInv, Counted, AttemptsExact
<1> QED
  BY <1>1, PoolInvariant, PTL

-----------------------------------------------------------------------------
(* Burials and audit rows.  Both need to know which jobs have a handler    *)
(* and what a reason to bury says about the pool; the rows need to know    *)
(* that the row of a worker is the last of its job's.                      *)

\* Only a job with a handler is called, only one without is not found, and a
\* worker buries for the end of the pool only when it is over.
ReasonsFit ==
    /\ \A j \in Jobs : ran[j] > 0 => j \in Handled
    /\ \A w \in Workers :
        /\ pc[w] \in {"missing", "handler_not_found"} => held[w].job \notin Handled
        /\ pc[w] \in {"pool_stopped", "pool_stopped_panic"} => ~running

\* What a reason says of the pool stays true.
LEMMA ReasonsStep ==
    ASSUME PoolInv, ReasonsFit, [Next]_vars
    PROVE  ReasonsFit'
<1> USE DEF PoolInv, stopVars, dlVars, history
<1>1. CASE UNCHANGED <<running, pc, held, ran>>
  BY <1>1 DEF ReasonsFit
<1>2. ASSUME NEW w \in Workers, Receive(w) PROVE ReasonsFit'
  BY <1>2 DEF Receive, Goto, ReasonsFit, TypeOK
<1>3. ASSUME NEW w \in Workers, ExitWorker(w) PROVE ReasonsFit'
  BY <1>3 DEF ExitWorker, Goto, ReasonsFit, TypeOK
<1>4. ASSUME NEW w \in Workers, StartAttempt(w) PROVE ReasonsFit'
  <2>1. held[w].job \in Jobs
    BY <1>4, HeldItem DEF StartAttempt
  <2> QED
    BY <1>4, <2>1 DEF StartAttempt, Goto, ReasonsFit, TypeOK
<1>5. ASSUME NEW w \in Workers, HandlerMissing(w) PROVE ReasonsFit'
  BY <1>5 DEF HandlerMissing, Goto, ReasonsFit, TypeOK
<1>6. ASSUME NEW w \in Workers, HandlerSucceeds(w) PROVE ReasonsFit'
  BY <1>6 DEF HandlerSucceeds, Release, Goto, ReasonsFit, TypeOK
<1>7. ASSUME NEW w \in Workers, HandlerFails(w) PROVE ReasonsFit'
  BY <1>7 DEF HandlerFails, Goto, ReasonsFit, TypeOK
<1>8. ASSUME NEW w \in Workers, BackoffElapses(w) PROVE ReasonsFit'
  BY <1>8 DEF BackoffElapses, Goto, ReasonsFit, TypeOK
<1>9. ASSUME NEW w \in Workers, CheckRunning(w) PROVE ReasonsFit'
  BY <1>9 DEF CheckRunning, AfterCheck, Goto, ReasonsFit, TypeOK
<1>10. ASSUME NEW w \in Workers, Requeue(w) PROVE ReasonsFit'
  <2>1. JobChanClosed => ~running
    BY DEF JobChanClosed, StopOrder
  <2> QED
    BY <1>10, <2>1
    DEF Requeue, RetryClosed, RetryFull, Release, Goto, ReasonsFit, TypeOK
<1>11. ASSUME NEW w \in Workers, Bury(w) PROVE ReasonsFit'
  BY <1>11 DEF Bury, Release, Goto, ReasonsFit, TypeOK
<1>12. ASSUME NEW s \in Stoppers, StopStep(s) PROVE ReasonsFit'
  BY <1>12 DEF StopStep, StopBegin, StopClose, StopReturn, ReasonsFit
<1>13. ASSUME NEW j \in Jobs, SubmitStep(j) PROVE ReasonsFit'
  BY <1>1, <1>13 DEF SubmitStep, SubmitCheck, SubmitSend
<1>14. ASSUME DeadLetterStep PROVE ReasonsFit'
  BY <1>1, <1>14 DEF DeadLetterStep, RecordDeadLetter, ExitDeadLetter
<1>15. ASSUME NEW w \in Workers, HandlerPanics(w) PROVE ReasonsFit'
  BY <1>1, <1>15 DEF HandlerPanics
<1>16. ASSUME NEW w \in Workers, HandlerHangs(w) PROVE ReasonsFit'
  BY <1>16 DEF HandlerHangs, Goto, ReasonsFit, TypeOK
<1>17. CASE UNCHANGED vars
  BY <1>1, <1>17 DEF vars
<1> QED
  BY <1>2, <1>3, <1>4, <1>5, <1>6, <1>7, <1>8, <1>9, <1>10, <1>11, <1>12, <1>13, <1>14,
     <1>15, <1>16, <1>17 DEF Next, WorkerTurn, WorkerStep

-----------------------------------------------------------------------------
(* Burials.                                                                *)

\* What an entry says about its job.
Justified(e) ==
    LET j == e.item.job IN
    /\ fate[j] = "buried"
    /\ CASE e.reason = "max_retries_exceeded" -> ran[j] = Budget(j)
         [] e.reason = "handler_not_found" -> ran[j] = 0 /\ j \notin Handled
         [] e.reason = "queue_full_on_retry" -> ran[j] \in 1..Budget(j) - 1
         [] OTHER -> ran[j] \in 1..Budget(j) - 1 /\ ~running

\* The entries of the channel and the list are entries.
LEMMA DeadLettersType ==
    ASSUME TypeOK
    PROVE  /\ DeadLetters \in Seq(Entries) /\ Len(DeadLetters) \in Nat
           /\ DOMAIN DeadLetters = 1..Len(DeadLetters)
           /\ \A i \in DOMAIN DeadLetters :
                  DeadLetters[i] \in Entries /\ DeadLetters[i].item.job \in Jobs
<1>1. DeadLetters \in Seq(Entries)
  BY DEF TypeOK, DeadLetters
<1>2. Len(DeadLetters) \in Nat /\ DOMAIN DeadLetters = 1..Len(DeadLetters)
  BY <1>1, LenProperties
<1>3. \A i \in 1..Len(DeadLetters) : DeadLetters[i] \in Entries
  BY <1>1, ElementOfSeq
<1> QED
  BY <1>1, <1>2, <1>3 DEF Entries, Items

\* The entries stay, and what they say stays true: nothing happens to a job that
\* has ended, and Stop is for good.
LEMMA JustifiedStays ==
    ASSUME TypeOK, BurialJustified, UNCHANGED DeadLetters,
           running' => running,
           \A j \in Jobs : fate[j] = "buried" => fate'[j] = "buried" /\ ran'[j] = ran[j]
    PROVE  BurialJustified'
<1>1. \A i \in DOMAIN DeadLetters : Justified(DeadLetters[i])
  BY DEF BurialJustified, Justified
<1>2. \A i \in DOMAIN DeadLetters' : Justified(DeadLetters[i])'
  BY <1>1, DeadLettersType DEF Justified
<1> QED
  BY <1>2 DEF BurialJustified, Justified

\* A worker that buries its job does it for the reason it says.
LEMMA BuriedForAReason ==
    ASSUME PoolInv, ReasonsFit, NEW w \in Workers, pc[w] \in Reasons
    PROVE  LET j == held[w].job IN
           CASE pc[w] = "max_retries_exceeded" -> ran[j] = Budget(j)
             [] pc[w] = "handler_not_found" -> ran[j] = 0 /\ j \notin Handled
             [] pc[w] = "queue_full_on_retry" -> ran[j] \in 1..Budget(j) - 1
             [] OTHER -> ran[j] \in 1..Budget(j) - 1 /\ ~running
<1> DEFINE j == held[w].job
<1>1. held[w] \in Items /\ j \in Jobs /\ held[w].attempt \in Nat
  BY HeldItem DEF PoolInv, Reasons
<1>2. CountAt(pc[w], held[w].attempt, ran[j], Budget(j))
  BY <1>1 DEF PoolInv, Counted
<1>3. ran[j] \in Nat /\ Budget(j) \in Nat
  BY <1>1, BudgetFacts DEF PoolInv, TypeOK
<1>4. CASE pc[w] = "max_retries_exceeded"
  BY <1>2, <1>4 DEF CountAt
<1>5. CASE pc[w] = "handler_not_found"
  BY <1>1, <1>3, <1>5 DEF ReasonsFit
<1>6. CASE pc[w] = "queue_full_on_retry"
  BY <1>2, <1>3, <1>6 DEF CountAt
<1>7. CASE pc[w] \in {"pool_stopped", "pool_stopped_panic"}
  <2>1. ran[j] \in 1..Budget(j) - 1
    BY <1>2, <1>3, <1>7 DEF CountAt
  <2> QED
    BY <1>7, <2>1 DEF ReasonsFit
<1> QED
  BY <1>4, <1>5, <1>6, <1>7 DEF Reasons

\* An entry is justified when the worker sends it.
LEMMA BuryStep ==
    ASSUME PoolInv, ReasonsFit, BurialJustified, NEW w \in Workers, Bury(w)
    PROVE  BurialJustified'
<1> DEFINE j == held[w].job
           e == [item |-> held[w], reason |-> pc[w]]
<1> USE DEF PoolInv, stopVars
<1>1. held[w] \in Items /\ j \in Jobs /\ fate[j] = "none"
  BY HeldItem DEF Bury, Reasons, Apart
<1>2. CASE UNCHANGED <<deadLetter, fate>>
  BY <1>2, JustifiedStays DEF Bury, DeadLetters
<1>3. CASE UNCHANGED deadLetter /\ fate' = [fate EXCEPT ![j] = "dropped"]
  <2>1. \A k \in Jobs : fate[k] = "buried" => fate'[k] = "buried"
    BY <1>1, <1>3 DEF TypeOK
  <2> QED
    BY <1>3, <2>1, JustifiedStays DEF Bury, DeadLetters
<1>4. CASE deadLetter' = Append(deadLetter, e) /\ fate' = [fate EXCEPT ![j] = "buried"]
  <2>1. e \in Entries /\ e.item = held[w] /\ e.reason = pc[w]
    BY <1>1 DEF Bury, Entries
  <2> HIDE DEF e
  <2>2. DeadLetters' = Append(DeadLetters, e)
    BY <1>4, <2>1 DEF DeadLetters, Bury, TypeOK
  <2>3. \A i \in DOMAIN DeadLetters' :
            \/ i \in DOMAIN DeadLetters /\ DeadLetters'[i] = DeadLetters[i]
            \/ i = Len(DeadLetters) + 1 /\ DeadLetters'[i] = e
    BY <2>1, <2>2, DeadLettersType, AppendFacts
  <2>4. \A k \in Jobs : k # j => fate'[k] = fate[k]
    BY <1>1, <1>4 DEF TypeOK
  <2>5. fate'[j] = "buried" /\ UNCHANGED <<running, ran>>
    BY <1>1, <1>4 DEF Bury, TypeOK
  <2>6. \A i \in DOMAIN DeadLetters :
            DeadLetters[i].item.job \in Jobs /\ DeadLetters[i].item.job # j
    BY <1>1, DeadLettersType DEF BurialJustified
  <2>7. \A i \in DOMAIN DeadLetters' : Justified(DeadLetters[i])'
    <3> SUFFICES ASSUME NEW i \in DOMAIN DeadLetters' PROVE Justified(DeadLetters[i])'
      OBVIOUS
    <3>1. CASE i \in DOMAIN DeadLetters /\ DeadLetters'[i] = DeadLetters[i]
      BY <2>4, <2>5, <2>6, <3>1 DEF BurialJustified, Justified
    <3>2. CASE DeadLetters'[i] = e
      <4>1. pc[w] \in Reasons
        BY DEF Bury
      <4> QED
        BY <2>1, <2>5, <3>2, <4>1, BuriedForAReason DEF Justified
    <3> QED
      BY <2>3, <3>1, <3>2
  <2>8. \A i, k \in DOMAIN DeadLetters' :
            DeadLetters'[i].item.job = DeadLetters'[k].item.job => i = k
    BY <2>1, <2>3, <2>6 DEF BurialJustified
  <2> QED
    BY <2>7, <2>8 DEF BurialJustified, Justified
<1> QED
  BY <1>2, <1>3, <1>4 DEF Bury

\* processDeadLetter moves an entry from the channel to the list, whose oldest
\* entries it may cut: what is left keeps its order.
LEMMA RecordShifts ==
    ASSUME TypeOK, RecordDeadLetter
    PROVE  \E n \in Nat : \A i \in DOMAIN DeadLetters' :
               /\ i \in Nat /\ i + n \in DOMAIN DeadLetters
               /\ DeadLetters'[i] = DeadLetters[i + n]
<1> DEFINE q == deadLetterQ
           t == Trimmed(q)
<1>1. q \in Seq(Entries) /\ deadLetter \in Seq(Entries) /\ deadLetter # <<>>
  BY DEF TypeOK, RecordDeadLetter, Receives
<1>2. /\ Tail(deadLetter) \in Seq(Entries) /\ Head(deadLetter) \in Entries
      /\ Head(deadLetter) = deadLetter[1] /\ Len(deadLetter) \in Nat \ {0}
      /\ Len(Tail(deadLetter)) = Len(deadLetter) - 1
      /\ \A i \in 1..Len(deadLetter) - 1 : Tail(deadLetter)[i] = deadLetter[i + 1]
  BY <1>1, TailFacts
<1>3. DeadLetters' = Append(t, Head(deadLetter)) \o Tail(deadLetter)
  BY DEF RecordDeadLetter, DeadLetters
<1>4. Len(q) \in Nat /\ t \in Seq(Entries)
  BY <1>1, TrimmedType
<1>5. PICK n \in Nat : Len(t) = Len(q) - n /\ \A i \in 1..Len(t) : t[i] = q[i + n]
  <2>1. CASE Len(q) > MaxDeadLetterSize
    <3> DEFINE n == Len(q) - (MaxDeadLetterSize \div 2)
    <3>1. n \in Nat /\ n <= Len(q)
      <4>1. MaxDeadLetterSize \div 2 \in 0..MaxDeadLetterSize
        BY PoolAssumption
      <4> QED
        BY <1>4, <2>1, <4>1, PoolAssumption
    <3>2. t = SubSeq(q, n + 1, Len(q))
      BY <2>1 DEF Trimmed
    <3> HIDE DEF n, t
    <3>3. Len(t) = Len(q) - n /\ \A i \in 1..Len(t) : t[i] = q[i + n]
      BY <1>1, <1>4, <3>1, <3>2
    <3> QED
      BY <3>1, <3>3
  <2>2. CASE ~(Len(q) > MaxDeadLetterSize)
    <3>1. t = q
      BY <2>2 DEF Trimmed
    <3> QED
      BY <1>4, <3>1
  <2> QED
    BY <2>1, <2>2
<1> HIDE DEF t
<1>6. /\ Len(t) \in Nat /\ Append(t, Head(deadLetter)) \in Seq(Entries)
      /\ Len(Append(t, Head(deadLetter))) = Len(t) + 1
      /\ \A i \in 1..Len(t) : Append(t, Head(deadLetter))[i] = t[i]
      /\ Append(t, Head(deadLetter))[Len(t) + 1] = deadLetter[1]
  BY <1>2, <1>4, AppendFacts
<1> DEFINE a == Append(t, Head(deadLetter))
<1> HIDE DEF a
<1>7. /\ DOMAIN DeadLetters' = 1..Len(t) + Len(deadLetter)
      /\ \A i \in 1..Len(t) + Len(deadLetter) :
            DeadLetters'[i] = IF i <= Len(t) + 1 THEN a[i]
                              ELSE Tail(deadLetter)[i - (Len(t) + 1)]
  <2>1. a \in Seq(Entries) /\ Len(a) = Len(t) + 1 /\ DeadLetters' = a \o Tail(deadLetter)
    BY <1>3, <1>6 DEF a
  <2> DEFINE c == Tail(deadLetter)
  <2>2. c \in Seq(Entries) /\ Len(c) = Len(deadLetter) - 1 /\ Len(deadLetter) \in Nat
    BY <1>2
  <2> HIDE DEF c
  <2>3. DOMAIN (a \o c) = 1..Len(t) + Len(deadLetter)
    <3>1. a \o c \in Seq(Entries) /\ Len(a \o c) = Len(a) + Len(c)
      BY <2>1, <2>2, ConcatProperties
    <3>2. Len(a) + Len(c) = Len(t) + Len(deadLetter)
      BY <1>6, <2>1, <2>2
    <3> QED
      BY <3>1, <3>2, LenProperties
  <2>4. \A i \in 1..Len(t) + Len(deadLetter) :
            (a \o c)[i] = IF i <= Len(t) + 1 THEN a[i] ELSE c[i - (Len(t) + 1)]
    BY <1>6, <2>1, <2>2, ConcatProperties
  <2> QED
    BY <2>1, <2>3, <2>4 DEF c
<1>8. /\ DOMAIN DeadLetters = 1..Len(q) + Len(deadLetter)
      /\ \A i \in 1..Len(q) + Len(deadLetter) :
            DeadLetters[i] = IF i <= Len(q) THEN q[i] ELSE deadLetter[i - Len(q)]
  <2>1. DeadLetters = q \o deadLetter /\ Len(deadLetter) \in Nat
    BY <1>2 DEF DeadLetters
  <2> HIDE DEF q
  <2>2. DOMAIN (q \o deadLetter) = 1..Len(q) + Len(deadLetter)
    BY <1>1, <1>4, <2>1, ConcatProperties, LenProperties
  <2>3. \A i \in 1..Len(q) + Len(deadLetter) :
            (q \o deadLetter)[i] = IF i <= Len(q) THEN q[i] ELSE deadLetter[i - Len(q)]
    BY <1>1, <1>4, <2>1, ConcatProperties
  <2> QED
    BY <2>1, <2>2, <2>3
<1>9. ASSUME NEW i \in DOMAIN DeadLetters'
      PROVE  /\ i \in Nat /\ i + n \in DOMAIN DeadLetters
             /\ DeadLetters'[i] = DeadLetters[i + n]
  <2>1. /\ i \in Nat /\ i >= 1 /\ i <= Len(t) + Len(deadLetter)
        /\ i + n \in 1..Len(q) + Len(deadLetter)
    BY <1>2, <1>4, <1>5, <1>6, <1>7, <1>9
  <2>2. CASE i <= Len(t)
    BY <1>4, <1>5, <1>6, <1>7, <1>8, <2>1, <2>2 DEF a
  <2>3. CASE i = Len(t) + 1
    <3>1. DeadLetters'[i] = deadLetter[1]
      BY <1>6, <1>7, <2>1, <2>3 DEF a
    <3>2. i + n = Len(q) + 1
      BY <1>4, <1>5, <1>6, <2>3
    <3> QED
      BY <1>4, <1>8, <2>1, <3>1, <3>2
  <2>4. CASE i > Len(t) + 1
    <3>1. DeadLetters'[i] = Tail(deadLetter)[i - (Len(t) + 1)]
      BY <1>6, <1>7, <2>1, <2>4
    <3>2. i - (Len(t) + 1) \in 1..Len(deadLetter) - 1
      BY <1>2, <1>6, <2>1, <2>4
    <3>3. DeadLetters'[i] = deadLetter[i - Len(t)]
      BY <1>2, <1>6, <2>1, <3>1, <3>2
    <3>4. i + n - Len(q) = i - Len(t) /\ i + n > Len(q)
      BY <1>4, <1>5, <1>6, <2>1, <2>4
    <3> QED
      BY <1>4, <1>8, <2>1, <3>3, <3>4
  <2> QED
    BY <1>6, <2>1, <2>2, <2>3, <2>4
<1> QED
  BY <1>9

\* An entry stays justified when it moves to the list.
LEMMA RecordStep ==
    ASSUME TypeOK, BurialJustified, RecordDeadLetter
    PROVE  BurialJustified'
<1>1. PICK n \in Nat : \A i \in DOMAIN DeadLetters' :
          /\ i \in Nat /\ i + n \in DOMAIN DeadLetters
          /\ DeadLetters'[i] = DeadLetters[i + n]
  BY RecordShifts
<1>2. UNCHANGED <<running, ran, fate>>
  BY DEF RecordDeadLetter, stopVars, history
<1>3. \A i \in DOMAIN DeadLetters' : Justified(DeadLetters[i])'
  BY <1>1, <1>2 DEF BurialJustified, Justified
<1>4. \A i, k \in DOMAIN DeadLetters' :
          DeadLetters'[i].item.job = DeadLetters'[k].item.job => i = k
  <2> SUFFICES ASSUME NEW i \in DOMAIN DeadLetters', NEW k \in DOMAIN DeadLetters',
                      DeadLetters'[i].item.job = DeadLetters'[k].item.job
               PROVE  i = k
    OBVIOUS
  <2>1. i + n = k + n
    BY <1>1 DEF BurialJustified
  <2> QED
    BY <1>1, <2>1
<1> QED
  BY <1>3, <1>4 DEF BurialJustified, Justified

\* Every step keeps the entries justified.
LEMMA BurialStep ==
    ASSUME PoolInv, ReasonsFit, BurialJustified, [Next]_vars
    PROVE  BurialJustified'
<1> USE DEF stopVars, dlVars, history
<1>1. ASSUME UNCHANGED <<deadLetter, deadLetterQ, running, ran, fate>> PROVE BurialJustified'
  BY <1>1, JustifiedStays DEF PoolInv, DeadLetters
<1>2. ASSUME NEW w \in Workers, StartAttempt(w) PROVE BurialJustified'
  <2>1. held[w] \in Items /\ held[w].job \in Jobs /\ fate[held[w].job] = "none"
    BY <1>2, HeldItem DEF StartAttempt, PoolInv, Apart
  <2>2. \A j \in Jobs : fate[j] = "buried" => ran'[j] = ran[j]
    BY <1>2, <2>1 DEF StartAttempt, PoolInv, TypeOK
  <2> QED
    BY <1>2, <2>2, JustifiedStays DEF StartAttempt, PoolInv, DeadLetters
<1>3. ASSUME NEW w \in Workers, HandlerSucceeds(w) PROVE BurialJustified'
  <2>1. held[w] \in Items /\ held[w].job \in Jobs /\ fate[held[w].job] = "none"
    BY <1>3, HeldItem DEF HandlerSucceeds, PoolInv, Apart
  <2>2. \A j \in Jobs : fate[j] = "buried" => fate'[j] = "buried"
    BY <1>3, <2>1 DEF HandlerSucceeds, PoolInv, TypeOK
  <2> QED
    BY <1>3, <2>2, JustifiedStays DEF HandlerSucceeds, PoolInv, DeadLetters
<1>4. ASSUME NEW s \in Stoppers, StopStep(s) PROVE BurialJustified'
  <2>1. (running' => running) /\ UNCHANGED <<deadLetter, deadLetterQ, ran, fate>>
    BY <1>4 DEF StopStep, StopBegin, StopClose, StopReturn
  <2> QED
    BY <2>1, JustifiedStays DEF PoolInv, DeadLetters
<1>5. ASSUME NEW w \in Workers, WorkerStep(w) PROVE BurialJustified'
  <2>1. ASSUME \/ Receive(w) \/ ExitWorker(w) \/ HandlerMissing(w) \/ HandlerFails(w)
               \/ HandlerPanics(w) \/ HandlerHangs(w) \/ BackoffElapses(w)
               \/ CheckRunning(w) \/ Requeue(w)
        PROVE  UNCHANGED <<deadLetter, deadLetterQ, running, ran, fate>>
    BY <2>1 DEF Receive, ExitWorker, HandlerMissing, HandlerFails, HandlerPanics, HandlerHangs,
       BackoffElapses, CheckRunning, Requeue
  <2> QED
    BY <1>1, <1>2, <1>3, <1>5, <2>1, BuryStep DEF WorkerStep
<1>6. ASSUME NEW j \in Jobs, SubmitStep(j) PROVE BurialJustified'
  BY <1>1, <1>6 DEF SubmitStep, SubmitCheck, SubmitSend
<1>7. ASSUME DeadLetterStep PROVE BurialJustified'
  <2>1. CASE ExitDeadLetter
    BY <1>1, <2>1 DEF ExitDeadLetter
  <2> QED
    BY <1>7, <2>1, RecordStep DEF DeadLetterStep, PoolInv
<1>8. CASE UNCHANGED vars
  BY <1>1, <1>8 DEF vars
<1> QED
  BY <1>4, <1>5, <1>6, <1>7, <1>8 DEF Next, WorkerTurn

-----------------------------------------------------------------------------
(* Audit rows.                                                             *)

\* The row of a worker is the last of its job's, and a job without a handler
\* has no row before the one attempt that does not find it.
RowsFit ==
    /\ \A w \in Workers :
           row[w] # 0 => /\ pc[w] \notin {"idle", "taken", "exited"}
                         /\ row[w] = Len(audit[held[w].job])
    /\ \A j \in Jobs : submit[j] # "accepted" => audit[j] = <<>>
    /\ \A i \in DOMAIN jobChan :
           jobChan[i].job \notin Handled => audit[jobChan[i].job] = <<>>
    /\ \A w \in Workers :
           pc[w] = "taken" /\ held[w].job \notin Handled => audit[held[w].job] = <<>>

\* Closing a row changes its status and nothing else.
LEMMA ClosedRow ==
    ASSUME NEW q \in Seq(AuditRows), NEW n \in Nat,
           NEW status \in {"running", "success", "failure"}
    PROVE  LET c == [q EXCEPT ![n].status = status] IN
           /\ c \in Seq(AuditRows)
           /\ Len(c) = Len(q) /\ DOMAIN c = DOMAIN q
           /\ \A i \in DOMAIN q :
                  /\ c[i].attempt = q[i].attempt
                  /\ i = n => c[i].status = status
                  /\ i # n => c[i] = q[i]
<1> DEFINE c == [q EXCEPT ![n].status = status]
<1>1. Len(q) \in Nat /\ DOMAIN q = 1..Len(q) /\ \A i \in 1..Len(q) : q[i] \in AuditRows
  BY LenProperties, ElementOfSeq
<1>2. \A r \in AuditRows :
          /\ [r EXCEPT !.status = status] \in AuditRows
          /\ [r EXCEPT !.status = status].attempt = r.attempt
          /\ [r EXCEPT !.status = status].status = status
  BY DEF AuditRows
<1>3. DOMAIN c = 1..Len(q)
  BY <1>1
<1>4. \A i \in 1..Len(q) :
          /\ i = n => c[i] = [q[i] EXCEPT !.status = status]
          /\ i # n => c[i] = q[i]
  BY <1>1
<1>5. c = [i \in 1..Len(q) |-> c[i]]
  BY <1>3
<1> HIDE DEF c
<1>6. \A i \in 1..Len(q) : c[i] \in AuditRows
  BY <1>1, <1>2, <1>4
<1>7. c \in [1..Len(q) -> AuditRows]
  BY <1>5, <1>6
<1>8. c \in Seq(AuditRows)
  BY <1>1, <1>7, SeqDef
<1>9. Len(c) = Len(q)
  <2>1. Len(c) \in Nat /\ 1..Len(c) = 1..Len(q)
    BY <1>3, <1>8, LenProperties
  <2> QED
    BY <1>1, <2>1
<1> QED
  BY <1>1, <1>2, <1>3, <1>4, <1>8, <1>9 DEF c

\* The rows of every job.
LEMMA RowFacts ==
    ASSUME TypeOK, NEW j \in Jobs
    PROVE  /\ audit[j] \in Seq(AuditRows) /\ Len(audit[j]) \in Nat
           /\ DOMAIN audit[j] = 1..Len(audit[j])
           /\ \A i \in DOMAIN audit[j] :
                  audit[j][i].attempt \in Nat /\ i \in Nat \ {0}
<1>1. audit[j] \in Seq(AuditRows)
  BY DEF TypeOK
<1>2. Len(audit[j]) \in Nat /\ DOMAIN audit[j] = 1..Len(audit[j])
  BY <1>1, LenProperties
<1>3. \A i \in 1..Len(audit[j]) : audit[j][i] \in AuditRows
  BY <1>1, ElementOfSeq
<1> QED
  BY <1>1, <1>2, <1>3 DEF AuditRows

\* What a worker does outside the call of its handler leaves the rows as true
\* as they were.
LEMMA AuditSame ==
    ASSUME PoolInv, AuditTrail, NEW w \in Workers, pc[w] \notin {"running", "hung", "missing"},
           UNCHANGED <<audit, ran>>,
           \A v \in Workers \ {w} : /\ held'[v] = held[v] /\ row'[v] = row[v]
                                    /\ pc'[v] = pc[v],
           \A j \in Jobs : fate[j] = "succeeded" => fate'[j] = "succeeded"
    PROVE  AuditTrail'
<1>1. ASSUME NEW j \in Jobs, NEW i \in DOMAIN audit[j],
             \E v \in Workers : /\ held[v].job = j /\ row[v] = i
                                /\ pc[v] \in {"running", "hung", "missing"}
      PROVE  \E v \in Workers : /\ held'[v].job = j /\ row'[v] = i
                                /\ pc'[v] \in {"running", "hung", "missing"}
  BY <1>1
<1> QED
  BY <1>1 DEF AuditTrail

\* What AuditTrail says of one job.
GoodRows(k) ==
    /\ \A i, n \in DOMAIN audit[k] :
           i < n => /\ audit[k][i].attempt < audit[k][n].attempt
                    /\ audit[k][i].status # "success"
    /\ \A i \in DOMAIN audit[k] :
           /\ k \in Handled => audit[k][i].attempt <= ran[k]
           /\ audit[k][i].status = "success" => fate[k] = "succeeded"
           /\ ~AuditFaults /\ audit[k][i].status = "running" =>
                  \E v \in Workers : /\ held[v].job = k /\ row[v] = i
                                     /\ pc[v] \in {"running", "hung", "missing"}
    /\ ~AuditFaults /\ k \in Audited \cap Handled => Len(audit[k]) = ran[k]

\* A new row is the one of the attempt that begins.
LEMMA StartKeepsAudit ==
    ASSUME PoolInv, RowsFit, AuditTrail, NEW w \in Workers, StartAttempt(w)
    PROVE  AuditTrail'
<1>0. PICK j \in Jobs : j = held[w].job
  BY HeldItem DEF PoolInv, StartAttempt
<1> DEFINE r == [attempt |-> held[w].attempt + 1, status |-> "running"]
<1> USE <1>0 DEF PoolInv
<1>1. /\ held[w] \in Items /\ j \in Jobs /\ held[w].attempt \in Nat
      /\ pc[w] = "taken" /\ fate[j] = "none" /\ ran[j] \in Nat
  BY <1>0, HeldItem DEF StartAttempt, Apart, TypeOK
<1>2. held[w].attempt = ran[j]
  BY <1>1 DEF Counted, CountAt
<1>3. \A v \in Workers \ {w} : /\ held'[v] = held[v] /\ row'[v] = row[v] /\ pc'[v] = pc[v]
                               /\ held[v].job # j
  <2>1. held' = held
    BY DEF StartAttempt
  <2>2. \A v \in Workers \ {w} : row'[v] = row[v]
    BY DEF StartAttempt, OpenRow, TypeOK
  <2>3. \A v \in Workers \ {w} : pc'[v] = pc[v]
    BY DEF StartAttempt, Goto, TypeOK
  <2>4. \A v \in Workers \ {w} : held[v].job # j
    BY <1>1 DEF Apart
  <2> QED
    BY <2>1, <2>2, <2>3, <2>4
<1>4. held'[w].job = j /\ pc'[w] \in {"running", "hung", "missing"} /\ fate' = fate
  BY <1>1 DEF StartAttempt, Goto, TypeOK
<1>5. \A k \in Jobs \ {j} : audit'[k] = audit[k] /\ ran'[k] = ran[k]
  <2>1. \A k \in Jobs \ {j} : audit'[k] = audit[k]
    BY <1>1 DEF StartAttempt, OpenRow, TypeOK
  <2>2. \A k \in Jobs \ {j} : ran'[k] = ran[k]
    BY <1>1 DEF StartAttempt, TypeOK
  <2> QED
    BY <2>1, <2>2
<1>6. /\ j \in Handled => ran'[j] = ran[j] + 1
      /\ j \notin Handled => audit[j] = <<>>
  BY <1>1 DEF StartAttempt, TypeOK, RowsFit
<1>7. \A i \in DOMAIN audit[j] : ~AuditFaults => audit[j][i].status # "running"
  BY <1>1, <1>3 DEF AuditTrail
<1>8. \A i \in DOMAIN audit[j] : audit[j][i].status # "success"
  BY <1>1 DEF AuditTrail
<1>9. \A k \in Jobs : GoodRows(k)
  BY DEF AuditTrail, GoodRows
<1>10. \A k \in Jobs \ {j} : GoodRows(k)'
  <2> SUFFICES ASSUME NEW k \in Jobs \ {j} PROVE GoodRows(k)'
    OBVIOUS
  <2>1. \A i \in DOMAIN audit[k] : \A v \in Workers :
            held[v].job = k /\ row[v] = i /\ pc[v] \in {"running", "hung", "missing"}
                => held'[v].job = k /\ row'[v] = i /\ pc'[v] \in {"running", "hung", "missing"}
    BY <1>1, <1>3
  <2> QED
    BY <1>4, <1>5, <1>9, <2>1 DEF GoodRows
<1>11. CASE UNCHANGED <<audit, row>> /\ (j \notin Audited \/ AuditFaults)
  <2>1. GoodRows(j)'
    <3>1. \A i \in DOMAIN audit[j] : j \in Handled => audit[j][i].attempt <= ran'[j]
      <4>1. \A i \in DOMAIN audit[j] : audit[j][i].attempt \in Nat
        BY <1>1, RowFacts
      <4> QED
        BY <1>1, <1>6, <1>9, <4>1 DEF GoodRows
    <3> QED
      BY <1>1, <1>4, <1>7, <1>8, <1>9, <1>11, <3>1 DEF GoodRows
  <2> QED
    BY <1>10, <2>1 DEF AuditTrail, GoodRows
<1>12. CASE /\ audit' = [audit EXCEPT ![j] = Append(@, r)]
            /\ row' = [row EXCEPT ![w] = Len(audit[j]) + 1]
  <2>1. r \in AuditRows /\ r.attempt = ran[j] + 1 /\ r.status = "running"
    BY <1>1, <1>2 DEF AuditRows
  <2> HIDE DEF r
  <2>2. audit'[j] = Append(audit[j], r) /\ row'[w] = Len(audit[j]) + 1
    BY <1>1, <1>12 DEF TypeOK
  <2>3. /\ Len(audit[j]) \in Nat
        /\ DOMAIN audit'[j] = 1..Len(audit[j]) + 1 /\ Len(audit'[j]) = Len(audit[j]) + 1
        /\ DOMAIN audit[j] = 1..Len(audit[j])
        /\ \A i \in DOMAIN audit[j] : audit'[j][i] = audit[j][i]
        /\ audit'[j][Len(audit[j]) + 1] = r
    BY <1>1, <2>1, <2>2, RowFacts, AppendFacts
  <2>4. \A i \in DOMAIN audit'[j] :
            \/ i \in DOMAIN audit[j] /\ audit'[j][i] = audit[j][i]
            \/ i = Len(audit[j]) + 1 /\ audit'[j][i] = r
    BY <2>3
  <2>5. \A i \in DOMAIN audit[j] : audit[j][i].attempt \in Nat /\ audit[j][i].attempt <= ran[j]
    BY <1>1, <1>6, <1>9, RowFacts DEF GoodRows
  <2>6. \A i, n \in DOMAIN audit'[j] :
            i < n => audit'[j][i].attempt < audit'[j][n].attempt /\ audit'[j][i].status # "success"
    <3> SUFFICES ASSUME NEW i \in DOMAIN audit'[j], NEW n \in DOMAIN audit'[j], i < n
                 PROVE  /\ audit'[j][i].attempt < audit'[j][n].attempt
                        /\ audit'[j][i].status # "success"
      OBVIOUS
    <3>1. i \in DOMAIN audit[j] /\ audit'[j][i] = audit[j][i]
      BY <2>3
    <3>2. audit[j][i].status # "success"
      BY <1>8, <3>1
    <3>3. CASE n \in DOMAIN audit[j]
      BY <1>1, <1>9, <2>3, <3>1, <3>2, <3>3 DEF GoodRows
    <3>4. CASE audit'[j][n] = r
      BY <1>1, <2>1, <2>5, <3>1, <3>2, <3>4
    <3> QED
      BY <2>4, <3>3, <3>4
  <2>7. \A i \in DOMAIN audit'[j] :
            /\ j \in Handled => audit'[j][i].attempt <= ran'[j]
            /\ audit'[j][i].status # "success"
            /\ ~AuditFaults /\ audit'[j][i].status = "running" => i = Len(audit[j]) + 1
    BY <1>1, <1>6, <1>7, <1>8, <2>1, <2>4, <2>5
  <2>8. ~AuditFaults /\ j \in Audited \cap Handled => Len(audit'[j]) = ran'[j]
    BY <1>1, <1>6, <1>9, <2>3 DEF GoodRows
  <2>9. GoodRows(j)'
    BY <1>4, <2>2, <2>6, <2>7, <2>8 DEF GoodRows
  <2> QED
    BY <1>10, <2>9 DEF AuditTrail, GoodRows
<1> QED
  BY <1>11, <1>12 DEF StartAttempt, OpenRow

\* A handler that returns, or is not found, closes the row of its attempt.
LEMMA CloseKeepsAudit ==
    ASSUME PoolInv, RowsFit, AuditTrail, NEW w \in Workers, pc[w] \notin {"idle", "exited"},
           NEW status \in {"success", "failure"}, CloseRow(w, held[w].job, status),
           UNCHANGED ran,
           \A v \in Workers \ {w} : /\ held'[v] = held[v] /\ row'[v] = row[v]
                                    /\ pc'[v] = pc[v],
           \A k \in Jobs : fate[k] = "succeeded" => fate'[k] = "succeeded",
           status = "success" => fate'[held[w].job] = "succeeded"
    PROVE  AuditTrail'
<1>0. PICK j \in Jobs : j = held[w].job
  BY HeldItem DEF PoolInv
<1> USE <1>0 DEF PoolInv
<1>1. held[w] \in Items /\ j \in Jobs /\ fate[j] = "none"
  BY <1>0, HeldItem DEF Apart
<1>2. \A v \in Workers \ {w} : held[v].job # j
  BY <1>1 DEF Apart
<1>3. row[w] \in Nat /\ (row[w] # 0 => row[w] = Len(audit[j]))
  BY DEF TypeOK, RowsFit
<1>4. /\ Len(audit'[j]) = Len(audit[j]) /\ DOMAIN audit'[j] = DOMAIN audit[j]
      /\ \A i \in DOMAIN audit[j] :
             /\ audit'[j][i].attempt = audit[j][i].attempt
             /\ i # Len(audit[j]) => audit'[j][i] = audit[j][i]
             /\ audit'[j][i].status = "success" => status = "success"
             /\ ~AuditFaults => audit'[j][i].status # "running"
  <2>0. /\ \A i \in DOMAIN audit[j] : audit[j][i].status # "success"
        /\ \A i \in DOMAIN audit[j] : i \in Nat \ {0}
    BY <1>1, RowFacts DEF AuditTrail
  <2>1. \A i \in DOMAIN audit[j] : ~AuditFaults /\ audit[j][i].status = "running" => i = row[w]
    BY <1>1, <1>2 DEF AuditTrail
  <2>2. CASE row[w] # 0 /\ audit' = [audit EXCEPT ![j][row[w]].status = status]
    <3>1. audit'[j] = [audit[j] EXCEPT ![row[w]].status = status]
      BY <1>1, <2>2 DEF TypeOK
    <3>2. audit[j] \in Seq(AuditRows)
      BY <1>1 DEF TypeOK
    <3>3. /\ Len(audit'[j]) = Len(audit[j]) /\ DOMAIN audit'[j] = DOMAIN audit[j]
          /\ \A i \in DOMAIN audit[j] :
                  /\ audit'[j][i].attempt = audit[j][i].attempt
                  /\ i = row[w] => audit'[j][i].status = status
                  /\ i # row[w] => audit'[j][i] = audit[j][i]
      BY <1>3, <3>1, <3>2, ClosedRow
    <3> QED
      BY <1>3, <2>0, <2>1, <2>2, <3>3
  <2>3. CASE (row[w] = 0 \/ AuditFaults) /\ UNCHANGED audit
    BY <2>0, <2>1, <2>3
  <2> QED
    BY <2>2, <2>3 DEF CloseRow
<1>5. \A k \in Jobs \ {j} : audit'[k] = audit[k]
  BY <1>1 DEF CloseRow, TypeOK
<1>6. \A k \in Jobs : GoodRows(k)
  BY DEF AuditTrail, GoodRows
<1>7. \A k \in Jobs \ {j} : GoodRows(k)'
  <2> SUFFICES ASSUME NEW k \in Jobs \ {j} PROVE GoodRows(k)'
    OBVIOUS
  <2>1. \A i \in DOMAIN audit[k] : \A v \in Workers :
            held[v].job = k /\ row[v] = i /\ pc[v] \in {"running", "hung", "missing"}
                => held'[v].job = k /\ row'[v] = i /\ pc'[v] \in {"running", "hung", "missing"}
    OBVIOUS
  <2> QED
    BY <1>5, <1>6, <2>1 DEF GoodRows
<1>8. GoodRows(j)'
  <2>1. \A i, n \in DOMAIN audit[j] : i < n => i # Len(audit[j])
    BY <1>1, RowFacts
  <2>2. \A i, n \in DOMAIN audit'[j] :
            i < n => /\ audit'[j][i].attempt < audit'[j][n].attempt
                     /\ audit'[j][i].status # "success"
    BY <1>1, <1>4, <1>6, <2>1 DEF GoodRows
  <2> QED
    BY <1>1, <1>4, <1>6, <2>2 DEF GoodRows
<1> QED
  BY <1>7, <1>8 DEF AuditTrail, GoodRows

\* The first step of an attempt opens its row, or none.
LEMMA StartKeepsRows ==
    ASSUME PoolInv, RowsFit, NEW w \in Workers, StartAttempt(w)
    PROVE  RowsFit'
<1>0. PICK j \in Jobs : j = held[w].job
  BY HeldItem DEF PoolInv, StartAttempt
<1> USE <1>0 DEF PoolInv, stopVars
<1>1. /\ held[w] \in Items /\ pc[w] = "taken" /\ submit[j] = "accepted"
      /\ UNCHANGED <<held, jobChan, submit>>
  BY HeldItem DEF StartAttempt, Apart
<1>2. \A v \in Workers \ {w} : row'[v] = row[v] /\ pc'[v] = pc[v] /\ held[v].job # j
  <2>1. \A v \in Workers \ {w} : row'[v] = row[v]
    BY DEF StartAttempt, OpenRow, TypeOK
  <2>2. \A v \in Workers \ {w} : pc'[v] = pc[v]
    BY DEF StartAttempt, Goto, TypeOK
  <2>3. \A v \in Workers \ {w} : held[v].job # j
    BY <1>1 DEF Apart
  <2> QED
    BY <2>1, <2>2, <2>3
<1>3. \A k \in Jobs \ {j} : audit'[k] = audit[k]
  BY DEF StartAttempt, OpenRow, TypeOK
<1>4. pc'[w] \in {"running", "hung", "missing"} /\ (row'[w] # 0 => row'[w] = Len(audit'[j]))
  <2>1. pc'[w] \in {"running", "hung", "missing"}
    BY DEF StartAttempt, Goto, TypeOK
  <2>2. row[w] = 0
    BY <1>1 DEF RowsFit
  <2>3. CASE /\ audit' = [audit EXCEPT
                             ![j] = Append(@, [attempt |-> held[w].attempt + 1,
                                               status |-> "running"])]
             /\ row' = [row EXCEPT ![w] = Len(audit[j]) + 1]
    <3> DEFINE r == [attempt |-> held[w].attempt + 1, status |-> "running"]
    <3>1. r \in AuditRows
      BY <1>1 DEF Items, AuditRows
    <3> HIDE DEF r
    <3>2. audit'[j] = Append(audit[j], r) /\ row'[w] = Len(audit[j]) + 1
      BY <2>3 DEF r, TypeOK
    <3>3. Len(audit'[j]) = Len(audit[j]) + 1
      BY <3>1, <3>2, RowFacts, AppendFacts
    <3> QED
      BY <2>1, <3>2, <3>3
  <2>4. CASE UNCHANGED <<audit, row>>
    BY <2>1, <2>2, <2>4
  <2> QED
    BY <2>3, <2>4 DEF StartAttempt, OpenRow
<1>5. \A v \in Workers \ {w} : held[v] \in Items => held[v].job \in Jobs \ {j}
  BY <1>2, NoItemIsNone
<1>6. \A i \in DOMAIN jobChan : jobChan[i].job \in Jobs \ {j}
  BY <1>1, QueuedItem DEF Apart
<1>7. \A v \in Workers :
          row'[v] # 0 => /\ pc'[v] \notin {"idle", "taken", "exited"}
                         /\ row'[v] = Len(audit'[held'[v].job])
  <2> SUFFICES ASSUME NEW v \in Workers, v # w, row[v] # 0
               PROVE  /\ pc[v] \notin {"idle", "taken", "exited"}
                      /\ row[v] = Len(audit'[held[v].job])
    BY <1>1, <1>2, <1>4
  <2>1. pc[v] \notin {"idle", "taken", "exited"} /\ row[v] = Len(audit[held[v].job])
    BY DEF RowsFit
  <2>2. held[v].job \in Jobs \ {j}
    BY <1>5, <2>1, HeldItem
  <2> QED
    BY <1>3, <2>1, <2>2
<1>8. \A k \in Jobs : submit'[k] # "accepted" => audit'[k] = <<>>
  BY <1>1, <1>3 DEF RowsFit
<1>9. \A i \in DOMAIN jobChan' :
          jobChan'[i].job \notin Handled => audit'[jobChan'[i].job] = <<>>
  BY <1>1, <1>3, <1>6 DEF RowsFit
<1>10. \A v \in Workers :
          pc'[v] = "taken" /\ held'[v].job \notin Handled => audit'[held'[v].job] = <<>>
  <2> SUFFICES ASSUME NEW v \in Workers, v # w, pc[v] = "taken", held[v].job \notin Handled
               PROVE  audit'[held[v].job] = <<>>
    BY <1>1, <1>2, <1>4
  <2>1. held[v].job \in Jobs \ {j} /\ audit[held[v].job] = <<>>
    BY <1>5, HeldItem DEF RowsFit
  <2> QED
    BY <1>3, <2>1
<1> QED
  BY <1>7, <1>8, <1>9, <1>10 DEF RowsFit

\* Closing a row keeps the number of rows, and the worker its row or gives it up.
LEMMA CloseKeepsRows ==
    ASSUME PoolInv, RowsFit, NEW w \in Workers, pc[w] \in {"running", "hung", "missing"},
           NEW status \in {"success", "failure"}, CloseRow(w, held[w].job, status),
           UNCHANGED <<jobChan, submit>>,
           \A v \in Workers \ {w} : /\ held'[v] = held[v] /\ row'[v] = row[v]
                                    /\ pc'[v] = pc[v],
           \/ row'[w] = 0 /\ pc'[w] = "idle"
           \/ /\ row'[w] = row[w] /\ held'[w] = held[w]
              /\ pc'[w] \notin {"idle", "taken", "exited"}
    PROVE  RowsFit'
<1>0. PICK j \in Jobs : j = held[w].job
  BY HeldItem DEF PoolInv
<1> USE <1>0 DEF PoolInv
<1>1. held[w] \in Items /\ submit[j] = "accepted"
  BY HeldItem DEF Apart
<1>2. \A k \in Jobs \ {j} : audit'[k] = audit[k]
  BY DEF CloseRow, TypeOK
<1>3. Len(audit'[j]) = Len(audit[j])
  <2>1. CASE row[w] # 0 /\ audit' = [audit EXCEPT ![j][row[w]].status = status]
    <3>1. audit'[j] = [audit[j] EXCEPT ![row[w]].status = status]
      BY <2>1 DEF TypeOK
    <3>2. audit[j] \in Seq(AuditRows) /\ row[w] \in Nat
      BY DEF TypeOK
    <3> QED
      BY <3>1, <3>2, ClosedRow
  <2>2. CASE UNCHANGED audit
    BY <2>2
  <2> QED
    BY <2>1, <2>2 DEF CloseRow
<1>4. \A i \in DOMAIN jobChan : jobChan[i].job \in Jobs \ {j}
  BY <1>1, QueuedItem DEF Apart
<1>5. \A v \in Workers \ {w} :
          pc[v] \notin {"idle", "exited"} => held[v].job \in Jobs \ {j}
  BY <1>1, HeldItem DEF Apart
<1>6. \A v \in Workers :
          row'[v] # 0 => /\ pc'[v] \notin {"idle", "taken", "exited"}
                         /\ row'[v] = Len(audit'[held'[v].job])
  <2>1. ASSUME NEW v \in Workers \ {w}, row[v] # 0
        PROVE  /\ pc[v] \notin {"idle", "taken", "exited"}
               /\ row[v] = Len(audit'[held[v].job])
    <3>1. pc[v] \notin {"idle", "taken", "exited"} /\ row[v] = Len(audit[held[v].job])
      BY <2>1 DEF RowsFit
    <3> QED
      BY <1>2, <1>5, <3>1
  <2>2. row[w] # 0 => row[w] = Len(audit'[j])
    BY <1>3 DEF RowsFit
  <2> QED
    BY <2>1, <2>2
<1>7. \A k \in Jobs : submit'[k] # "accepted" => audit'[k] = <<>>
  BY <1>1, <1>2 DEF RowsFit
<1>8. \A i \in DOMAIN jobChan' :
          jobChan'[i].job \notin Handled => audit'[jobChan'[i].job] = <<>>
  BY <1>2, <1>4 DEF RowsFit
<1>9. \A v \in Workers :
          pc'[v] = "taken" /\ held'[v].job \notin Handled => audit'[held'[v].job] = <<>>
  BY <1>2, <1>5 DEF RowsFit
<1> QED
  BY <1>6, <1>7, <1>8, <1>9 DEF RowsFit

\* Every step keeps each worker at the row it opened.
LEMMA RowsStep ==
    ASSUME PoolInv, ReasonsFit, RowsFit, [Next]_vars
    PROVE  RowsFit'
<1> USE DEF PoolInv, stopVars, dlVars, history
<1>1. ASSUME UNCHANGED <<jobChan, pc, held, row, audit>>,
             \A j \in Jobs : submit'[j] # "accepted" => submit[j] # "accepted"
      PROVE  RowsFit'
  BY <1>1 DEF RowsFit
\* A worker outside its call goes on, with the rows as they are.
<1>2. ASSUME NEW w \in Workers, UNCHANGED <<submit, audit>>,
             \A v \in Workers \ {w} : /\ held'[v] = held[v] /\ row'[v] = row[v]
                                      /\ pc'[v] = pc[v],
             \/ row'[w] = 0
             \/ /\ row'[w] = row[w] /\ held'[w].job = held[w].job
                /\ pc'[w] \notin {"idle", "exited"},
             pc'[w] # "taken",
             \A i \in DOMAIN jobChan' :
                 jobChan'[i].job \notin Handled => audit[jobChan'[i].job] = <<>>
      PROVE  RowsFit'
  BY <1>2 DEF RowsFit
<1>3. ASSUME NEW w \in Workers, Release(w), UNCHANGED <<jobChan, submit, audit>>
      PROVE  RowsFit'
  <2>1. /\ \A v \in Workers \ {w} : /\ held'[v] = held[v] /\ row'[v] = row[v]
                                    /\ pc'[v] = pc[v]
        /\ row'[w] = 0 /\ pc'[w] = "idle"
    BY <1>3 DEF Release, Goto, TypeOK
  <2> QED
    BY <1>2, <1>3, <2>1 DEF RowsFit
<1>4. ASSUME NEW w \in Workers, Receive(w) PROVE RowsFit'
  <2>1. /\ 1 \in DOMAIN jobChan
        /\ \A i \in DOMAIN jobChan' :
               i + 1 \in DOMAIN jobChan /\ jobChan'[i] = jobChan[i + 1]
        /\ held' = [held EXCEPT ![w] = jobChan[1]]
        /\ pc' = [pc EXCEPT ![w] = "taken"]
        /\ UNCHANGED <<row, audit, submit>> /\ pc[w] = "idle"
    BY <1>4, TailFacts DEF Receive, TypeOK, Goto
  <2>2. /\ \A v \in Workers \ {w} : held'[v] = held[v] /\ pc'[v] = pc[v]
        /\ held'[w] = jobChan[1] /\ pc'[w] = "taken" /\ row[w] = 0
    BY <2>1 DEF TypeOK, RowsFit
  <2>3. \A i \in DOMAIN jobChan' :
            jobChan'[i].job \notin Handled => audit[jobChan'[i].job] = <<>>
    BY <2>1 DEF RowsFit
  <2>4. jobChan[1].job \notin Handled => audit[jobChan[1].job] = <<>>
    BY <2>1 DEF RowsFit
  <2> QED
    BY <2>1, <2>2, <2>3, <2>4 DEF RowsFit
<1>5. ASSUME NEW w \in Workers, HandlerMissing(w) PROVE RowsFit'
  <2>1. /\ \A v \in Workers \ {w} : /\ held'[v] = held[v] /\ row'[v] = row[v]
                                    /\ pc'[v] = pc[v]
        /\ row'[w] = row[w] /\ held'[w] = held[w] /\ pc'[w] = "handler_not_found"
        /\ CloseRow(w, held[w].job, "failure") /\ UNCHANGED <<jobChan, submit>>
        /\ pc[w] = "missing"
    BY <1>5 DEF HandlerMissing, Goto, TypeOK
  <2> QED
    BY <2>1, CloseKeepsRows
<1>6. ASSUME NEW w \in Workers, HandlerSucceeds(w) PROVE RowsFit'
  <2>1. /\ \A v \in Workers \ {w} : /\ held'[v] = held[v] /\ row'[v] = row[v]
                                    /\ pc'[v] = pc[v]
        /\ row'[w] = 0 /\ pc'[w] = "idle"
        /\ CloseRow(w, held[w].job, "success") /\ UNCHANGED <<jobChan, submit>>
        /\ pc[w] = "running"
    BY <1>6 DEF HandlerSucceeds, Release, Goto, TypeOK
  <2> QED
    BY <2>1, CloseKeepsRows
<1>7. ASSUME NEW w \in Workers, HandlerFails(w) PROVE RowsFit'
  <2>1. /\ \A v \in Workers \ {w} : /\ held'[v] = held[v] /\ row'[v] = row[v]
                                    /\ pc'[v] = pc[v]
        /\ row'[w] = row[w] /\ held'[w] = held[w]
        /\ pc'[w] \in {"backoff", "max_retries_exceeded"}
        /\ CloseRow(w, held[w].job, "failure") /\ UNCHANGED <<jobChan, submit>>
        /\ pc[w] = "running"
    BY <1>7 DEF HandlerFails, Goto, TypeOK
  <2> QED
    BY <2>1, CloseKeepsRows
<1>8. ASSUME NEW w \in Workers, NEW label, Goto(w, label), pc[w] \notin {"idle", "exited"},
             label \in WorkerPcs \ {"idle", "exited", "taken"},
             UNCHANGED <<row, jobChan, submit, audit>>,
             \A v \in Workers \ {w} : held'[v] = held[v], held'[w].job = held[w].job
      PROVE  RowsFit'
  <2>1. /\ \A v \in Workers \ {w} : pc'[v] = pc[v]
        /\ pc'[w] = label
    BY <1>8 DEF Goto, TypeOK
  <2> QED
    BY <1>2, <1>8, <2>1 DEF RowsFit
<1>9. ASSUME NEW w \in Workers, BackoffElapses(w) PROVE RowsFit'
  <2>1. NextItem(held[w]).job = held[w].job
    BY <1>9, HeldItem DEF BackoffElapses, NextItem, Items
  <2>2. /\ held'[w].job = held[w].job
        /\ \A v \in Workers \ {w} : held'[v] = held[v]
        /\ pc[w] = "backoff" /\ Goto(w, "check") /\ UNCHANGED <<row, jobChan, submit, audit>>
    BY <1>9, <2>1 DEF BackoffElapses, TypeOK
  <2> QED
    BY <1>8, <2>2 DEF WorkerPcs
<1>10. ASSUME NEW w \in Workers, CheckRunning(w) PROVE RowsFit'
  BY <1>8, <1>10 DEF CheckRunning, AfterCheck, WorkerPcs, Reasons
<1>11. ASSUME NEW w \in Workers, Requeue(w) PROVE RowsFit'
  <2>1. CASE RetryClosed(w)
    BY <1>8, <1>11, <2>1 DEF Requeue, RetryClosed, WorkerPcs, Reasons
  <2>2. CASE RetryFull(w)
    BY <1>8, <1>11, <2>2 DEF Requeue, RetryFull, WorkerPcs, Reasons
  <2>3. CASE Enqueue(held[w]) /\ Release(w)
    <3>1. held[w] \in Items /\ held[w].job \in Jobs
      BY <1>11, HeldItem DEF Requeue
    <3>2. held[w].job \in Handled
      BY <1>11, <3>1 DEF Requeue, Counted, CountAt, ReasonsFit
    <3>3. jobChan' = Append(jobChan, held[w]) /\ UNCHANGED <<submit, audit>>
      BY <1>11, <2>3 DEF Requeue, Enqueue
    <3>4. \A i \in DOMAIN jobChan' :
              (i \in DOMAIN jobChan /\ jobChan'[i] = jobChan[i]) \/ jobChan'[i] = held[w]
      BY <3>1, <3>3, AppendFacts DEF TypeOK
    <3>5. \A i \in DOMAIN jobChan' :
              jobChan'[i].job \notin Handled => audit[jobChan'[i].job] = <<>>
      BY <3>2, <3>4 DEF RowsFit
    <3>6. /\ \A v \in Workers \ {w} : /\ held'[v] = held[v] /\ row'[v] = row[v]
                                      /\ pc'[v] = pc[v]
          /\ row'[w] = 0 /\ pc'[w] = "idle"
      BY <2>3 DEF Release, Goto, TypeOK
    <3> QED
      BY <1>2, <3>3, <3>5, <3>6
  <2> QED
    BY <1>11, <2>1, <2>2, <2>3 DEF Requeue
<1>12. ASSUME NEW w \in Workers, Bury(w) PROVE RowsFit'
  <2>1. CASE UNCHANGED <<pc, held, row>>
    BY <1>1, <1>12, <2>1 DEF Bury
  <2>2. CASE Release(w)
    BY <1>3, <1>12, <2>2 DEF Bury
  <2> QED
    BY <1>12, <2>1, <2>2 DEF Bury
<1>13. ASSUME NEW w \in Workers, ExitWorker(w) PROVE RowsFit'
  <2>1. /\ \A v \in Workers \ {w} : pc'[v] = pc[v]
        /\ pc'[w] = "exited" /\ row[w] = 0 /\ UNCHANGED <<jobChan, held, row, audit, submit>>
    BY <1>13 DEF ExitWorker, Goto, TypeOK, RowsFit
  <2> QED
    BY <1>2, <2>1 DEF RowsFit
<1>14. ASSUME NEW w \in Workers, HandlerPanics(w) PROVE RowsFit'
  BY <1>1, <1>14 DEF HandlerPanics
<1>15. ASSUME NEW j \in Jobs, SubmitCheck(j) PROVE RowsFit'
  <2>1. UNCHANGED <<jobChan, pc, held, row, audit>>
    BY <1>15 DEF SubmitCheck
  <2>2. \A k \in Jobs : submit'[k] # "accepted" => submit[k] # "accepted"
    BY <1>15 DEF SubmitCheck, TypeOK
  <2> QED
    BY <1>1, <2>1, <2>2
<1>16. ASSUME NEW j \in Jobs, SubmitSend(j) PROVE RowsFit'
  <2>1. UNCHANGED <<pc, held, row, audit>> /\ submit[j] = "checked"
    BY <1>16 DEF SubmitSend
  <2>2. \A k \in Jobs : submit'[k] # "accepted" => submit[k] # "accepted"
    BY <1>16 DEF SubmitSend, TypeOK
  <2>3. CASE UNCHANGED jobChan
    BY <1>1, <2>1, <2>2, <2>3
  <2>4. CASE Enqueue([job |-> j, attempt |-> 0])
    <3> DEFINE e == [job |-> j, attempt |-> 0]
    <3>1. e \in Items /\ e.job = j
      BY DEF Items
    <3>2. jobChan' = Append(jobChan, e)
      BY <2>4 DEF Enqueue
    <3> HIDE DEF e
    <3>3. \A i \in DOMAIN jobChan' :
              (i \in DOMAIN jobChan /\ jobChan'[i] = jobChan[i]) \/ jobChan'[i] = e
      BY <3>1, <3>2, AppendFacts DEF TypeOK
    <3>4. audit[j] = <<>>
      BY <2>1 DEF RowsFit
    <3>5. \A i \in DOMAIN jobChan' :
              jobChan'[i].job \notin Handled => audit'[jobChan'[i].job] = <<>>
      BY <2>1, <3>1, <3>3, <3>4 DEF RowsFit
    <3> QED
      BY <2>1, <2>2, <3>5 DEF RowsFit
  <2> QED
    BY <1>16, <2>3, <2>4 DEF SubmitSend
<1>17. ASSUME DeadLetterStep PROVE RowsFit'
  BY <1>1, <1>17 DEF DeadLetterStep, RecordDeadLetter, ExitDeadLetter
<1>18. ASSUME NEW s \in Stoppers, StopStep(s) PROVE RowsFit'
  BY <1>1, <1>18 DEF StopStep, StopBegin, StopClose, StopReturn
<1>19. ASSUME NEW w \in Workers, HandlerHangs(w) PROVE RowsFit'
  BY <1>8, <1>19 DEF HandlerHangs, WorkerPcs
<1>20. CASE UNCHANGED vars
  BY <1>1, <1>20 DEF vars
<1> QED
  BY <1>4, <1>5, <1>6, <1>7, <1>9, <1>10, <1>11, <1>12, <1>13, <1>14, <1>15, <1>16,
     <1>17, <1>18, <1>19, <1>20, StartKeepsRows DEF Next, SubmitStep, WorkerTurn, WorkerStep

\* Every step keeps the rows true.
LEMMA AuditStep ==
    ASSUME PoolInv, RowsFit, AuditTrail, [Next]_vars
    PROVE  AuditTrail'
<1> USE DEF PoolInv, stopVars, dlVars, history
<1>1. ASSUME UNCHANGED <<audit, ran, fate, pc, held, row>> PROVE AuditTrail'
  BY <1>1 DEF AuditTrail
<1>2. ASSUME NEW w \in Workers, HandlerMissing(w) PROVE AuditTrail'
  <2>1. /\ \A v \in Workers \ {w} : /\ held'[v] = held[v] /\ row'[v] = row[v]
                                    /\ pc'[v] = pc[v]
        /\ CloseRow(w, held[w].job, "failure") /\ UNCHANGED <<ran, fate>>
        /\ pc[w] = "missing"
    BY <1>2 DEF HandlerMissing, Goto, TypeOK
  <2> QED
    BY <2>1, CloseKeepsAudit
<1>3. ASSUME NEW w \in Workers, HandlerSucceeds(w) PROVE AuditTrail'
  <2>1. held[w].job \in Jobs /\ fate' = [fate EXCEPT ![held[w].job] = "succeeded"]
    BY <1>3, HeldItem DEF HandlerSucceeds
  <2>2. /\ fate'[held[w].job] = "succeeded"
        /\ \A k \in Jobs : fate[k] = "succeeded" => fate'[k] = "succeeded"
    BY <2>1 DEF TypeOK
  <2>3. /\ \A v \in Workers \ {w} : /\ held'[v] = held[v] /\ row'[v] = row[v]
                                    /\ pc'[v] = pc[v]
        /\ CloseRow(w, held[w].job, "success") /\ UNCHANGED ran
        /\ pc[w] = "running"
    BY <1>3 DEF HandlerSucceeds, Release, Goto, TypeOK
  <2> QED
    BY <2>2, <2>3, CloseKeepsAudit
<1>4. ASSUME NEW w \in Workers, HandlerFails(w) PROVE AuditTrail'
  <2>1. /\ \A v \in Workers \ {w} : /\ held'[v] = held[v] /\ row'[v] = row[v]
                                    /\ pc'[v] = pc[v]
        /\ CloseRow(w, held[w].job, "failure") /\ UNCHANGED <<ran, fate>>
        /\ pc[w] = "running"
    BY <1>4 DEF HandlerFails, Goto, TypeOK
  <2> QED
    BY <2>1, CloseKeepsAudit
\* A worker outside its call goes on with its item or lets go of it.
<1>5. ASSUME NEW w \in Workers, pc[w] \notin {"running", "hung", "missing"},
             UNCHANGED <<audit, ran, fate>>,
             \/ \E label \in WorkerPcs : Goto(w, label) /\ UNCHANGED <<held, row>>
             \/ Release(w)
      PROVE  AuditTrail'
  <2>1. \A v \in Workers \ {w} : /\ held'[v] = held[v] /\ row'[v] = row[v]
                                 /\ pc'[v] = pc[v]
    BY <1>5 DEF Release, Goto, TypeOK
  <2> QED
    BY <1>5, <2>1, AuditSame
<1>6. ASSUME NEW w \in Workers, Receive(w) \/ BackoffElapses(w) PROVE AuditTrail'
  <2>1. /\ \A v \in Workers \ {w} : /\ held'[v] = held[v] /\ row'[v] = row[v]
                                    /\ pc'[v] = pc[v]
        /\ pc[w] \notin {"running", "hung", "missing"} /\ UNCHANGED <<audit, ran, fate>>
    BY <1>6 DEF Receive, BackoffElapses, Goto, TypeOK
  <2> QED
    BY <2>1, AuditSame
<1>7. ASSUME NEW w \in Workers, ExitWorker(w) \/ CheckRunning(w) \/ Requeue(w)
      PROVE  AuditTrail'
  BY <1>5, <1>7 DEF ExitWorker, CheckRunning, AfterCheck, Requeue, RetryClosed, RetryFull,
     WorkerPcs, Reasons
<1>8. ASSUME NEW w \in Workers, Bury(w) PROVE AuditTrail'
  <2>1. CASE UNCHANGED <<pc, held, row, fate>>
    BY <1>1, <1>8, <2>1 DEF Bury
  <2>2. CASE Release(w)
    <3>1. held[w] \in Items /\ held[w].job \in Jobs /\ fate[held[w].job] = "none"
      BY <1>8, HeldItem DEF Bury, Reasons, Apart
    <3>2. \A k \in Jobs : fate[k] = "succeeded" => fate'[k] = "succeeded"
      BY <1>8, <3>1 DEF Bury, TypeOK
    <3>3. /\ \A v \in Workers \ {w} : /\ held'[v] = held[v] /\ row'[v] = row[v]
                                      /\ pc'[v] = pc[v]
          /\ pc[w] \notin {"running", "hung", "missing"} /\ UNCHANGED <<audit, ran>>
      BY <1>8, <2>2 DEF Bury, Reasons, Release, Goto, TypeOK
    <3> QED
      BY <3>2, <3>3, AuditSame
  <2> QED
    BY <1>8, <2>1, <2>2 DEF Bury
<1>9. ASSUME NEW w \in Workers, HandlerPanics(w) PROVE AuditTrail'
  BY <1>1, <1>9 DEF HandlerPanics
<1>10. ASSUME NEW j \in Jobs, SubmitStep(j) PROVE AuditTrail'
  BY <1>1, <1>10 DEF SubmitStep, SubmitCheck, SubmitSend
<1>11. ASSUME DeadLetterStep PROVE AuditTrail'
  BY <1>1, <1>11 DEF DeadLetterStep, RecordDeadLetter, ExitDeadLetter
<1>12. ASSUME NEW s \in Stoppers, StopStep(s) PROVE AuditTrail'
  BY <1>1, <1>12 DEF StopStep, StopBegin, StopClose, StopReturn
<1>13. ASSUME NEW w \in Workers, HandlerHangs(w) PROVE AuditTrail'
  <2>1. /\ \A v \in Workers \ {w} : pc'[v] = pc[v]
        /\ pc'[w] = "hung" /\ UNCHANGED <<held, row, audit, ran, fate>>
    BY <1>13 DEF HandlerHangs, Goto, TypeOK
  <2>2. \A v \in Workers : pc[v] \in {"running", "hung", "missing"} =>
                              pc'[v] \in {"running", "hung", "missing"}
    BY <2>1
  <2> QED
    BY <2>1, <2>2 DEF AuditTrail
<1>14. CASE UNCHANGED vars
  BY <1>1, <1>14 DEF vars
<1> QED
  BY <1>2, <1>3, <1>4, <1>6, <1>7, <1>8, <1>9, <1>10, <1>11, <1>12, <1>13, <1>14,
     StartKeepsAudit DEF Next, WorkerTurn, WorkerStep

-----------------------------------------------------------------------------
(* Stop.                                                                   *)

\* What has exited stays so, and Stop returns after the wait: if it is called
\* once.  (A second caller returns at once, whatever still runs.)
StopFits == running \/ \E s \in Stoppers : stopPc[s] # "none"

\* Every step keeps what Stop promises one caller.
LEMMA StopStays ==
    ASSUME TypeOK, Hands, StopFits, StopWaits, \A s, t \in Stoppers : s = t, [Next]_vars
    PROVE  StopFits' /\ StopWaits'
<1> USE DEF stopVars, dlVars, history
<1>1. ASSUME \A w \in Workers : pc[w] = "exited" => pc'[w] = "exited",
             dlProcessor = "exited" => dlProcessor' = "exited", UNCHANGED stopVars
      PROVE  StopFits' /\ StopWaits'
  BY <1>1 DEF StopFits, StopWaits
<1>2. ASSUME NEW w \in Workers, WorkerTurn(w) PROVE StopFits' /\ StopWaits'
  <2>1. UNCHANGED <<dlProcessor, stopVars>>
    BY <1>2 DEF WorkerTurn, WorkerStep, Receive, ExitWorker, StartAttempt,
       HandlerMissing, HandlerSucceeds, HandlerFails, HandlerPanics, HandlerHangs, BackoffElapses,
       CheckRunning, Requeue, Bury
  <2>2. pc[w] # "exited" /\ \A v \in Workers \ {w} : pc'[v] = pc[v]
    BY <1>2 DEF WorkerTurn, WorkerStep, Receive, ExitWorker, StartAttempt,
       HandlerMissing, HandlerSucceeds, HandlerFails, HandlerPanics, HandlerHangs, BackoffElapses,
       CheckRunning, Requeue, RetryClosed, RetryFull, Bury, Release, Goto, Reasons, TypeOK
  <2> QED
    BY <1>1, <2>1, <2>2
<1>3. ASSUME DeadLetterStep PROVE StopFits' /\ StopWaits'
  BY <1>1, <1>3 DEF DeadLetterStep, RecordDeadLetter, ExitDeadLetter
<1>4. ASSUME NEW j \in Jobs, SubmitStep(j) PROVE StopFits' /\ StopWaits'
  BY <1>1, <1>4 DEF SubmitStep, SubmitCheck, SubmitSend
<1>5. ASSUME NEW s \in Stoppers, StopBegin(s) PROVE StopFits' /\ StopWaits'
  BY <1>5 DEF StopBegin, StopFits, StopWaits, TypeOK
<1>6. ASSUME NEW s \in Stoppers, StopClose(s) PROVE StopFits' /\ StopWaits'
  BY <1>6 DEF StopClose, StopFits, StopWaits, TypeOK
<1>7. ASSUME NEW s \in Stoppers, StopReturn(s) PROVE StopFits' /\ StopWaits'
  BY <1>7 DEF StopReturn, WaitGroupDone, StopFits, StopWaits, TypeOK
<1>8. CASE UNCHANGED vars
  BY <1>1, <1>8 DEF vars
<1> QED
  BY <1>2, <1>3, <1>4, <1>5, <1>6, <1>7, <1>8 DEF Next, StopStep

-----------------------------------------------------------------------------
(* The theorems on burials, rows and Stop.                                 *)

\* The inductive invariant behind them.
EndsInv == PoolInv /\ ReasonsFit /\ BurialJustified /\ RowsFit /\ AuditTrail

\* It holds before the first step,
LEMMA InitEndsInv == Init => EndsInv
<1> SUFFICES ASSUME Init PROVE EndsInv
  OBVIOUS
<1>1. ReasonsFit /\ RowsFit
  BY DEF Init, ReasonsFit, RowsFit
<1>2. DeadLetters = <<>>
  BY DEF Init, DeadLetters
<1>3. BurialJustified /\ AuditTrail
  BY <1>2 DEF Init, BurialJustified, AuditTrail
<1> QED
  BY <1>1, <1>3, InitPoolInv DEF EndsInv

\* and so in every reachable state.
LEMMA EndsInvariant == Spec => []EndsInv
<1>1. EndsInv /\ [Next]_vars => EndsInv'
  BY NextPoolInv, ReasonsStep, BurialStep, RowsStep, AuditStep DEF EndsInv
<1> QED
  BY <1>1, InitEndsInv, PTL DEF Spec

\* An audit row tells the truth about its attempt: it is closed when the
\* attempt is, as a success only if the job succeeded, and no attempt is without
\* its row, unless a write of the audit table failed.
THEOREM AuditRowsAreTrue == Spec => []AuditTrail
<1>1. EndsInv => AuditTrail
  BY DEF EndsInv
<1> QED
  BY <1>1, EndsInvariant, PTL

\* No shutdown, panic, failed audit write or full channel loses or doubles a
\* job, miscounts its attempts, buries it for a reason that is not its own, or
\* leaves a row that is false.
THEOREM SafeWhileItStops == Spec => []SafeWhileStopping
<1>1. EndsInv /\ OnePlace /\ AttemptsExact => SafeWhileStopping
  BY DEF EndsInv, PoolInv, SafeWhileStopping
<1> QED
  BY <1>1, EndsInvariant, NoJobLostOrDoubled, AttemptsAreExact, PTL

\* A Stop that has returned leaves no goroutine of the pool behind, if one
\* caller stops the pool.
THEOREM StopWaitsForAll ==
    ASSUME \A s, t \in Stoppers : s = t
    PROVE  Spec => []StopWaits
<1>1. Init => StopFits /\ StopWaits
  BY DEF Init, StopFits, StopWaits
<1>2. PoolInv /\ StopFits /\ StopWaits /\ [Next]_vars => (StopFits /\ StopWaits)'
  BY StopStays DEF PoolInv
<1> QED
  BY <1>1, <1>2, PoolInvariant, PTL DEF Spec

-----------------------------------------------------------------------------
(* The dead-letter list.                                                   *)

\* What a cut leaves; the jobs that were buried; those the channel and the list
\* have an entry of.
Half   == MaxDeadLetterSize \div 2
Buried == {j \in Jobs : fate[j] = "buried"}
Listed == {DeadLetters[i].item.job : i \in DOMAIN DeadLetters}

\* DeadLettersListed in terms of the length of the list, which a burial adds to
\* and a cut leaves at Half or more.
AccountsFit ==
    /\ IsFiniteSet(Buried)
    /\ Cardinality(Buried) <= MaxDeadLetterSize => Listed = Buried
    /\ Cardinality(Buried) >= Half => Len(DeadLetters) >= Half

\* The limit is positive.
LEMMA HalfFacts ==
    /\ Half \in Nat /\ Half <= MaxDeadLetterSize
    /\ MaxDeadLetterSize \in Nat /\ MaxDeadLetterSize >= 1
<1>1. MaxDeadLetterSize \in Nat /\ MaxDeadLetterSize >= 1
  BY PoolAssumption
<1> QED
  BY <1>1 DEF Half

\* No job has two entries: there are as many jobs in the list as entries.
LEMMA ListedCount ==
    ASSUME TypeOK, BurialJustified
    PROVE  /\ IsFiniteSet(Listed) /\ Cardinality(Listed) = Len(DeadLetters)
           /\ Listed \subseteq Buried
<1> DEFINE n == Len(DeadLetters)
           f == [i \in 1..n |-> DeadLetters[i].item.job]
<1>1. n \in Nat /\ DOMAIN DeadLetters = 1..n
  BY DeadLettersType
<1>2. Listed \subseteq Buried
  BY DeadLettersType DEF Listed, Buried, BurialJustified
<1>3. /\ f \in [1..n -> Listed]
      /\ \A i, k \in 1..n : f[i] = f[k] => i = k
      /\ \A j \in Listed : \E i \in 1..n : f[i] = j
  <2> HIDE DEF n
  <2> QED
    BY <1>1 DEF Listed, BurialJustified
<1> HIDE DEF f, n
<1>4. ExistsBijection(1..n, Listed)
  <2>1. DOMAIN f = 1..n
    BY <1>3
  <2>2. f \in Injection(1..n, Listed)
    BY <1>3, <2>1 DEF Injection, IsInjective
  <2>3. f \in Surjection(1..n, Listed)
    BY <1>3 DEF Surjection
  <2> QED
    BY <2>2, <2>3 DEF ExistsBijection, Bijection
<1>5. IsFiniteSet(1..n) /\ Cardinality(1..n) = n
  BY <1>1, FS_Interval
<1> QED
  BY <1>2, <1>4, <1>5, FS_Bijection DEF n

\* Moving an entry from the channel to the list changes neither what they have
\* together nor its order, except by a cut, which takes the front off.
LEMMA RecordCuts ==
    ASSUME TypeOK, RecordDeadLetter
    PROVE  /\ Len(deadLetterQ) <= MaxDeadLetterSize => DeadLetters' = DeadLetters
           /\ Len(deadLetterQ) > MaxDeadLetterSize =>
                 /\ Len(DeadLetters') >= Half /\ Len(DeadLetters) > Len(deadLetterQ)
                 /\ \E first \in DOMAIN DeadLetters :
                        DeadLetters' = SubSeq(DeadLetters, first, Len(DeadLetters))
<1> DEFINE q == deadLetterQ
           h == Head(deadLetter)
           r == Tail(deadLetter)
           t == Trimmed(q)
<1>1. q \in Seq(Entries) /\ deadLetter \in Seq(Entries) /\ deadLetter # <<>>
  BY DEF TypeOK, RecordDeadLetter, Receives
<1>2. /\ h \in Entries /\ r \in Seq(Entries) /\ Len(r) \in Nat /\ Len(q) \in Nat
      /\ deadLetter = <<h>> \o r
      /\ Len(deadLetter) = Len(r) + 1
      /\ deadLetter[1] = h /\ \A i \in 1..Len(r) : deadLetter[i + 1] = r[i]
  BY <1>1
<1>3. t \in Seq(Entries)
  BY <1>1, TrimmedType
<1>4. deadLetterQ' = Append(t, h) /\ deadLetter' = r
  BY DEF RecordDeadLetter
<1>5. DeadLetters = q \o deadLetter /\ DeadLetters' = Append(t, h) \o r
  BY <1>4 DEF DeadLetters
<1>6. CASE Len(q) <= MaxDeadLetterSize
  <2>1. t = q
    BY <1>2, <1>6, PoolAssumption DEF Trimmed
  <2> HIDE DEF q, t, h, r
  <2>2. Append(q, h) = q \o <<h>> /\ <<h>> \in Seq(Entries)
    BY <1>1, <1>2
  <2>3. (q \o <<h>>) \o r = q \o (<<h>> \o r)
    BY <1>1, <1>2, <2>2, ConcatAssociative
  <2>4. DeadLetters' = DeadLetters
    BY <1>2, <1>5, <2>1, <2>2, <2>3
  <2>5. ~(Len(q) > MaxDeadLetterSize)
    BY <1>2, <1>6, PoolAssumption
  <2> QED
    BY <2>4, <2>5 DEF q
<1>7. CASE Len(q) > MaxDeadLetterSize
  <2> DEFINE first == Len(q) - Half + 1
             cut   == SubSeq(DeadLetters, first, Len(DeadLetters))
  <2>1. t = SubSeq(q, first, Len(q))
    BY <1>7 DEF Trimmed, Half
  <2> HIDE DEF q, t, h, r
  <2>2. first \in Int /\ first \in 1..Len(q) + 1
    BY <1>2, <1>7, HalfFacts
  <2>3. Len(t) = Half /\ \A i \in 1..Half : t[i] = q[first + i - 1]
    BY <1>1, <1>2, <2>1, <2>2, HalfFacts
  <2>4. /\ Append(t, h) \in Seq(Entries) /\ Len(Append(t, h)) = Half + 1
        /\ Append(t, h)[Half + 1] = h /\ \A i \in 1..Half : Append(t, h)[i] = t[i]
    BY <1>2, <1>3, <2>3, AppendFacts, HalfFacts
  <2>5. /\ DeadLetters' \in Seq(Entries) /\ Len(DeadLetters') = Half + 1 + Len(r)
        /\ \A i \in 1..Half + 1 : DeadLetters'[i] = Append(t, h)[i]
        /\ \A i \in 1..Len(r) : DeadLetters'[Half + 1 + i] = r[i]
    <3> DEFINE a == Append(t, h)
    <3>1. a \in Seq(Entries) /\ Len(a) = Half + 1 /\ DeadLetters' = a \o r
      BY <1>5, <2>4
    <3> HIDE DEF a
    <3>2. /\ a \o r \in Seq(Entries) /\ Len(a \o r) = Len(a) + Len(r)
          /\ \A i \in 1..Len(a) + Len(r) :
                 (a \o r)[i] = IF i <= Len(a) THEN a[i] ELSE r[i - Len(a)]
      BY <1>2, <3>1, ConcatProperties
    <3>3. \A i \in 1..Half + 1 : (a \o r)[i] = a[i]
      BY <1>2, <3>1, <3>2, HalfFacts
    <3>4. \A i \in 1..Len(r) : (a \o r)[Half + 1 + i] = r[i]
      BY <1>2, <3>1, <3>2, HalfFacts
    <3> QED
      BY <3>1, <3>2, <3>3, <3>4 DEF a
  <2>6. /\ DeadLetters \in Seq(Entries) /\ Len(DeadLetters) = Len(q) + 1 + Len(r)
        /\ DOMAIN DeadLetters = 1..Len(DeadLetters)
        /\ \A i \in 1..Len(q) : DeadLetters[i] = q[i]
        /\ DeadLetters[Len(q) + 1] = h
        /\ \A i \in 1..Len(r) : DeadLetters[Len(q) + 1 + i] = r[i]
    <3>1. /\ q \o deadLetter \in Seq(Entries) /\ Len(q \o deadLetter) = Len(q) + Len(deadLetter)
          /\ \A i \in 1..Len(q) + Len(deadLetter) :
                 (q \o deadLetter)[i] = IF i <= Len(q) THEN q[i] ELSE deadLetter[i - Len(q)]
      BY <1>1, ConcatProperties
    <3>2. \A i \in 1..Len(q) : (q \o deadLetter)[i] = q[i]
      BY <1>2, <3>1
    <3>3. \A i \in 1..Len(r) + 1 : (q \o deadLetter)[Len(q) + i] = deadLetter[i]
      BY <1>2, <3>1
    <3>4. (q \o deadLetter)[Len(q) + 1] = h
      BY <1>2, <3>3
    <3>5. \A i \in 1..Len(r) : (q \o deadLetter)[Len(q) + 1 + i] = r[i]
      <4> SUFFICES ASSUME NEW i \in 1..Len(r) PROVE (q \o deadLetter)[Len(q) + 1 + i] = r[i]
        OBVIOUS
      <4>1. i + 1 \in 1..Len(r) + 1 /\ Len(q) + 1 + i = Len(q) + (i + 1)
        BY <1>2
      <4> QED
        BY <1>2, <3>3, <4>1
    <3>6. Len(q \o deadLetter) = Len(q) + 1 + Len(r)
      BY <1>2, <3>1
    <3> QED
      BY <1>5, <3>1, <3>2, <3>4, <3>5, <3>6
  <2>7. first \in DOMAIN DeadLetters /\ Len(DeadLetters) \in Nat
    BY <1>2, <2>2, <2>6
  <2> HIDE DEF first
  <2>8. /\ cut \in Seq(Entries) /\ Len(cut) = Len(DeadLetters) - first + 1
        /\ \A i \in 1..Len(cut) : cut[i] = DeadLetters[first + i - 1]
    BY <2>6, <2>7
  <2> HIDE DEF cut
  <2>9. Len(cut) = Half + 1 + Len(r)
    BY <1>2, <2>6, <2>8, HalfFacts DEF first
  <2>10. \A i \in 1..Len(cut) : DeadLetters'[i] = cut[i]
    <3> SUFFICES ASSUME NEW i \in 1..Half + 1 + Len(r) PROVE DeadLetters'[i] = cut[i]
      BY <2>9
    <3>0. first + i - 1 = Len(q) - Half + i /\ i \in 1..Len(cut)
      <4>1. i \in Int /\ Half \in Int /\ Len(q) \in Int
        BY <1>2, HalfFacts
      <4> QED
        BY <2>9, <4>1 DEF first
    <3>1. cut[i] = DeadLetters[Len(q) - Half + i]
      BY <2>8, <3>0
    <3>2. CASE i <= Half
      <4>1. i \in 1..Half /\ i \in 1..Half + 1 /\ Len(q) - Half + i \in 1..Len(q)
        BY <1>2, <1>7, <3>2, HalfFacts
      <4>2. DeadLetters'[i] = t[i] /\ t[i] = q[Len(q) - Half + i]
        BY <2>3, <2>4, <2>5, <3>0, <4>1
      <4>3. DeadLetters[Len(q) - Half + i] = q[Len(q) - Half + i]
        BY <2>6, <4>1
      <4> QED
        BY <3>1, <4>2, <4>3
    <3>3. CASE i = Half + 1
      <4>1. Len(q) - Half + i = Len(q) + 1 /\ i \in 1..Half + 1
        BY <1>2, <3>3, HalfFacts
      <4> QED
        BY <2>4, <2>5, <2>6, <3>1, <3>3, <4>1
    <3>4. CASE i > Half + 1
      <4> DEFINE k == i - Half - 1
      <4>1. k \in 1..Len(r) /\ i = Half + 1 + k /\ Len(q) - Half + i = Len(q) + 1 + k
        BY <1>2, <3>4, HalfFacts
      <4> HIDE DEF k
      <4> QED
        BY <2>5, <2>6, <3>1, <4>1
    <3> QED
      BY <1>2, <3>2, <3>3, <3>4, HalfFacts
  <2>11. DeadLetters' = cut
    <3> DEFINE p == DeadLetters'
    <3>1. p \in Seq(Entries) /\ Len(p) = Len(cut) /\ \A i \in 1..Len(p) : p[i] = cut[i]
      BY <2>5, <2>9, <2>10
    <3> HIDE DEF p
    <3>2. p = cut
      BY <2>8, <3>1, SeqEqual
    <3> QED
      BY <3>2 DEF p
  <2>12. Len(DeadLetters') >= Half /\ Len(DeadLetters) > Len(q)
    BY <1>2, <2>5, <2>6, HalfFacts
  <2>13. ~(Len(q) <= MaxDeadLetterSize)
    BY <1>2, <1>7, PoolAssumption
  <2> QED
    BY <2>7, <2>11, <2>12, <2>13 DEF q, cut
<1>8. Len(q) <= MaxDeadLetterSize \/ Len(q) > MaxDeadLetterSize
  BY <1>2, PoolAssumption
<1> QED
  BY <1>6, <1>7, <1>8

\* A job that comes to another end than a burial changes no account.
LEMMA AccountsSame ==
    ASSUME AccountsFit, UNCHANGED <<DeadLetters, Buried>>
    PROVE  AccountsFit'
BY DEF AccountsFit, Listed

\* The list is cut when there are more burials than it is to hold.
LEMMA CutLate ==
    ASSUME TypeOK, BurialJustified, AccountsFit, RecordDeadLetter PROVE AccountsFit'
<1>1. Buried' = Buried
  BY DEF RecordDeadLetter, history, Buried
<1>2. Len(deadLetterQ) \in Nat /\ Len(DeadLetters) \in Nat
  BY DeadLettersType DEF TypeOK
<1>3. CASE Len(deadLetterQ) <= MaxDeadLetterSize
  BY <1>1, <1>3, RecordCuts, AccountsSame
<1>4. CASE Len(deadLetterQ) > MaxDeadLetterSize
  <2>1. Len(DeadLetters') >= Half /\ Len(DeadLetters) > Len(deadLetterQ)
    BY <1>4, RecordCuts
  <2>2. /\ IsFiniteSet(Listed) /\ Cardinality(Listed) = Len(DeadLetters)
        /\ Listed \subseteq Buried
    BY ListedCount
  <2>3. IsFiniteSet(Buried) /\ Cardinality(Buried) \in Nat
    BY FS_CardinalityType DEF AccountsFit
  <2>4. Cardinality(Listed) <= Cardinality(Buried)
    BY <2>2, <2>3, FS_Subset
  <2>5. ~(Cardinality(Buried) <= MaxDeadLetterSize)
    BY <1>2, <1>4, <2>1, <2>2, <2>3, <2>4, HalfFacts
  <2> QED
    BY <1>1, <2>1, <2>3, <2>5 DEF AccountsFit
<1> QED
  BY <1>2, <1>3, <1>4, HalfFacts

\* A burial that the channel takes is one more entry behind the others.
LEMMA BuryAppends ==
    ASSUME TypeOK, NEW w \in Workers, held[w] \in Items, Bury(w),
           deadLetter' = Append(deadLetter, [item |-> held[w], reason |-> pc[w]])
    PROVE  /\ DeadLetters \in Seq(Entries) /\ Len(DeadLetters) \in Nat
           /\ DOMAIN DeadLetters = 1..Len(DeadLetters)
           /\ DeadLetters' \in Seq(Entries) /\ Len(DeadLetters') = Len(DeadLetters) + 1
           /\ DOMAIN DeadLetters' = 1..Len(DeadLetters) + 1
           /\ \A i \in 1..Len(DeadLetters) : DeadLetters'[i] = DeadLetters[i]
           /\ DeadLetters'[Len(DeadLetters) + 1].item = held[w]
<1> DEFINE e == [item |-> held[w], reason |-> pc[w]]
<1>1. e \in Entries /\ e.item = held[w]
  BY DEF Bury, Entries
<1>2. DeadLetters' = Append(DeadLetters, e)
  BY <1>1 DEF DeadLetters, Bury, TypeOK
<1> HIDE DEF e
<1>3. DeadLetters \in Seq(Entries)
  BY DeadLettersType
<1> QED
  BY <1>1, <1>2, <1>3, AppendFacts

\* A burial adds one to each account.
LEMMA BuryAccounts ==
    ASSUME PoolInv, BurialJustified, AccountsFit, NEW w \in Workers, Bury(w)
    PROVE  AccountsFit'
<1> DEFINE j == held[w].job
           e == [item |-> held[w], reason |-> pc[w]]
           n == Len(DeadLetters)
<1>0. TypeOK
  BY DEF PoolInv
<1>1. held[w] \in Items /\ j \in Jobs /\ fate[j] = "none"
  BY HeldItem DEF Bury, Reasons, Apart, PoolInv
<1>2. CASE UNCHANGED <<deadLetter, fate>>
  BY <1>2, AccountsSame DEF Bury, DeadLetters, Buried
<1>3. CASE UNCHANGED deadLetter /\ fate' = [fate EXCEPT ![j] = "dropped"]
  <2>1. Buried' = Buried
    BY <1>0, <1>1, <1>3 DEF Buried, TypeOK
  <2> QED
    BY <1>3, <2>1, AccountsSame DEF Bury, DeadLetters
<1>4. CASE deadLetter' = Append(deadLetter, e) /\ fate' = [fate EXCEPT ![j] = "buried"]
  <2>1. Buried' = Buried \cup {j} /\ j \notin Buried
    BY <1>0, <1>1, <1>4 DEF Buried, TypeOK
  <2>2. /\ IsFiniteSet(Buried') /\ Cardinality(Buried') = Cardinality(Buried) + 1
        /\ Cardinality(Buried) \in Nat
    BY <2>1, FS_AddElement, FS_CardinalityType DEF AccountsFit
  <2>3. /\ n \in Nat /\ Len(DeadLetters') = n + 1
        /\ DOMAIN DeadLetters' = 1..n + 1 /\ DOMAIN DeadLetters = 1..n
        /\ \A i \in 1..n : DeadLetters'[i] = DeadLetters[i]
        /\ DeadLetters'[n + 1].item = held[w]
    BY <1>0, <1>1, <1>4, BuryAppends
  <2>4. Listed' = Listed \cup {j}
    <3>1. Listed' = {DeadLetters'[i].item.job : i \in 1..n + 1}
      BY <2>3 DEF Listed
    <3>2. Listed = {DeadLetters[i].item.job : i \in 1..n}
      BY <2>3 DEF Listed
    <3>3. 1..n + 1 = 1..n \cup {n + 1} /\ n + 1 \notin 1..n
      BY <2>3
    <3>4. DeadLetters'[n + 1].item.job = j
      BY <2>3
    <3> HIDE DEF n, j
    <3> QED
      BY <2>3, <3>1, <3>2, <3>3, <3>4
  <2>5. Cardinality(Listed) = n
    BY <1>0, ListedCount
  <2>6. Cardinality(Buried') <= MaxDeadLetterSize => Listed' = Buried'
    BY <2>1, <2>2, <2>4, HalfFacts DEF AccountsFit
  <2>7. Cardinality(Buried') >= Half => Len(DeadLetters') >= Half
    <3>1. CASE Cardinality(Buried) >= Half
      BY <2>3, <3>1, HalfFacts DEF AccountsFit
    <3>2. CASE ~(Cardinality(Buried) >= Half)
      <4>1. Listed = Buried
        BY <2>2, <3>2, HalfFacts DEF AccountsFit
      <4> QED
        BY <2>2, <2>3, <2>5, <4>1, HalfFacts
    <3> QED
      BY <3>1, <3>2
  <2> QED
    BY <2>2, <2>6, <2>7 DEF AccountsFit
<1> QED
  BY <1>2, <1>3, <1>4 DEF Bury

\* Every step that is neither a burial nor the processor's leaves the entries and
\* the burials alone.
LEMMA OthersBuryNothing ==
    ASSUME PoolInv, Next \/ UNCHANGED vars,
           ~RecordDeadLetter, \A w \in Workers : ~Bury(w)
    PROVE  UNCHANGED <<DeadLetters, Buried>>
<1> USE DEF stopVars, dlVars, history
<1>1. ASSUME UNCHANGED <<deadLetter, deadLetterQ, fate>> PROVE UNCHANGED <<DeadLetters, Buried>>
  BY <1>1 DEF DeadLetters, Buried
<1>2. ASSUME NEW w \in Workers, HandlerSucceeds(w) PROVE UNCHANGED <<DeadLetters, Buried>>
  <2>1. held[w] \in Items /\ held[w].job \in Jobs /\ fate[held[w].job] = "none"
    BY <1>2, HeldItem DEF HandlerSucceeds, PoolInv, Apart
  <2>2. Buried' = Buried
    BY <1>2, <2>1 DEF HandlerSucceeds, PoolInv, TypeOK, Buried
  <2> QED
    BY <1>2, <2>2 DEF HandlerSucceeds, DeadLetters
<1>3. ASSUME NEW w \in Workers, WorkerStep(w) PROVE UNCHANGED <<DeadLetters, Buried>>
  <2>1. ASSUME \/ Receive(w) \/ ExitWorker(w) \/ StartAttempt(w) \/ HandlerMissing(w)
               \/ HandlerFails(w) \/ HandlerPanics(w) \/ HandlerHangs(w)
               \/ BackoffElapses(w) \/ CheckRunning(w) \/ Requeue(w)
        PROVE  UNCHANGED <<deadLetter, deadLetterQ, fate>>
    BY <2>1 DEF Receive, ExitWorker, StartAttempt, HandlerMissing, HandlerFails, HandlerPanics,
       HandlerHangs, BackoffElapses, CheckRunning, Requeue
  <2> QED
    BY <1>1, <1>2, <1>3, <2>1 DEF WorkerStep
<1>4. ASSUME NEW j \in Jobs, SubmitStep(j) PROVE UNCHANGED <<deadLetter, deadLetterQ, fate>>
  BY <1>4 DEF SubmitStep, SubmitCheck, SubmitSend
<1>5. ASSUME DeadLetterStep PROVE UNCHANGED <<deadLetter, deadLetterQ, fate>>
  BY <1>5 DEF DeadLetterStep, ExitDeadLetter
<1>6. ASSUME NEW s \in Stoppers, StopStep(s) PROVE UNCHANGED <<deadLetter, deadLetterQ, fate>>
  BY <1>6 DEF StopStep, StopBegin, StopClose, StopReturn
<1>7. CASE UNCHANGED vars
  BY <1>1, <1>7 DEF vars
<1> QED
  BY <1>1, <1>3, <1>4, <1>5, <1>6, <1>7 DEF Next, WorkerTurn

\* Every step keeps the accounts.
LEMMA AccountsStep ==
    ASSUME PoolInv, BurialJustified, AccountsFit, [Next]_vars PROVE AccountsFit'
<1>1. TypeOK
  BY DEF PoolInv
<1>2. CASE ~RecordDeadLetter /\ \A w \in Workers : ~Bury(w)
  BY <1>2, OthersBuryNothing, AccountsSame
<1> QED
  BY <1>1, <1>2, CutLate, BuryAccounts

\* Every step cuts in front or adds behind.
LEMMA CutStep ==
    ASSUME PoolInv, [Next]_vars PROVE CutInFront
<1>1. TypeOK
  BY DEF PoolInv
<1>2. CASE RecordDeadLetter
  <2>1. Len(deadLetterQ) \in Nat
    BY <1>1 DEF TypeOK
  <2>2. CASE Len(deadLetterQ) <= MaxDeadLetterSize
    BY <1>1, <1>2, <2>2, RecordCuts DEF CutInFront
  <2>3. CASE Len(deadLetterQ) > MaxDeadLetterSize
    <3>1. Len(deadLetterQ) >= MaxDeadLetterSize
      BY <2>1, <2>3, HalfFacts
    <3> QED
      BY <1>1, <1>2, <2>3, <3>1, RecordCuts DEF CutInFront
  <2> QED
    BY <2>1, <2>2, <2>3, HalfFacts
<1>3. ASSUME NEW w \in Workers, Bury(w) PROVE CutInFront
  <2>1. held[w] \in Items
    BY <1>3, HeldItem DEF Bury, Reasons, PoolInv
  <2>2. CASE UNCHANGED deadLetter
    BY <1>3, <2>2 DEF Bury, DeadLetters, CutInFront
  <2>3. CASE deadLetter' = Append(deadLetter, [item |-> held[w], reason |-> pc[w]])
    <3> DEFINE p == DeadLetters
               q == DeadLetters'
    <3>1. /\ p \in Seq(Entries) /\ q \in Seq(Entries) /\ Len(q) = Len(p) + 1
          /\ \A i \in 1..Len(p) : q[i] = p[i]
      BY <1>1, <1>3, <2>1, <2>3, BuryAppends
    <3> HIDE DEF p, q
    <3>2. /\ SubSeq(q, 1, Len(p)) \in Seq(Entries) /\ Len(SubSeq(q, 1, Len(p))) = Len(p)
          /\ \A i \in 1..Len(p) : p[i] = SubSeq(q, 1, Len(p))[i]
      BY <3>1
    <3>3. p = SubSeq(q, 1, Len(p))
      BY <3>1, <3>2, SeqEqual
    <3> QED
      BY <3>1, <3>3 DEF CutInFront, p, q
  <2> QED
    BY <1>3, <2>2, <2>3 DEF Bury
<1>4. CASE ~RecordDeadLetter /\ \A w \in Workers : ~Bury(w)
  BY <1>4, OthersBuryNothing DEF CutInFront
<1> QED
  BY <1>2, <1>3, <1>4

\* Every entry is justified, none is forgotten while no more than
\* MaxDeadLetterSize jobs are buried, and of more the newest stay, at least half
\* of the limit.
THEOREM DeadLettersAreAccountedFor == Spec => DeadLettersAccountedFor
<1>1. Init => AccountsFit
  <2> SUFFICES ASSUME Init PROVE AccountsFit
    OBVIOUS
  <2>1. Buried = {} /\ DeadLetters = <<>>
    BY DEF Init, Buried, DeadLetters
  <2>2. Listed = {} /\ Len(DeadLetters) = 0
    BY <2>1 DEF Listed
  <2>3. IsFiniteSet({}) /\ Cardinality({}) = 0
    BY FS_EmptySet
  <2> QED
    BY <2>1, <2>2, <2>3, HalfFacts DEF AccountsFit
<1>2. EndsInv => PoolInv /\ BurialJustified
  BY DEF EndsInv
<1>3. PoolInv /\ BurialJustified /\ AccountsFit => DeadLettersListed
  <2> SUFFICES ASSUME PoolInv, BurialJustified, AccountsFit PROVE DeadLettersListed
    OBVIOUS
  <2>1. Cardinality(Listed) = Len(DeadLetters)
    BY ListedCount DEF PoolInv
  <2> QED
    BY <2>1 DEF AccountsFit, DeadLettersListed, Listed, Buried, Half
<1>4. PoolInv /\ [Next]_vars => [CutInFront]_vars
  BY CutStep
<1> QED
  BY <1>1, <1>2, <1>3, <1>4, EndsInvariant, AccountsStep, PTL DEF Spec, DeadLettersAccountedFor

-----------------------------------------------------------------------------
(* The pool implements the life of a job.                                  *)

\* A worker that has taken its job but does not call the handler (yet).
Before == {"taken", "missing", "handler_not_found"}

Executing(j) == \E w \in Workers : held[w].job = j /\ pc[w] \notin Before

\* The phase of a job whose end, submission and executor do not change.
LEMMA PhaseSame ==
    ASSUME NEW j \in Jobs, fate'[j] = fate[j], submit'[j] = submit[j],
           Executing(j)' <=> Executing(j)
    PROVE  Phase(j)' = Phase(j)
BY Zenon DEF Phase, Executing, Before

\* The phases of the jobs in hand and of those that have ended.
PhasesFit ==
    /\ \A w \in Workers : \A j \in Jobs :
           held[w].job = j => Phase(j) = IF pc[w] \in Before THEN "queued" ELSE "running"
    /\ \A j \in Jobs :
           /\ fate[j] = "succeeded" => Phase(j) = "done"
           /\ fate[j] \in {"buried", "dropped"} => Phase(j) = "dead"

\* They follow from the invariant of the pool.
LEMMA PhasesOfThePool == PoolInv => PhasesFit
<1> SUFFICES ASSUME PoolInv PROVE PhasesFit
  OBVIOUS
<1>1. \A w \in Workers : held[w].job \in Jobs => held[w] \in Items
  BY NoItemIsNone DEF PoolInv, TypeOK
<1>2. ASSUME NEW w \in Workers, NEW j \in Jobs, held[w].job = j
      PROVE  Phase(j) = IF pc[w] \in Before THEN "queued" ELSE "running"
  <2>1. fate[j] = "none" /\ submit[j] = "accepted"
    BY <1>1, <1>2 DEF PoolInv, Apart
  <2>2. \A v \in Workers : held[v].job = j => v = w
    BY <1>1, <1>2 DEF PoolInv, Apart
  <2> QED
    BY <1>2, <2>1, <2>2 DEF Phase, Before
<1>3. ASSUME NEW j \in Jobs, fate[j] # "none"
      PROVE  /\ fate[j] = "succeeded" => Phase(j) = "done"
             /\ fate[j] \in {"buried", "dropped"} => Phase(j) = "dead"
  <2>1. submit[j] = "accepted" /\ ~Executing(j)
    BY <1>1, <1>3 DEF PoolInv, Apart, Executing
  <2> QED
    BY <2>1 DEF Phase, Executing, Before
<1> QED
  BY <1>2, <1>3 DEF PhasesFit

\* A step of a worker does not change the phase of a job it does not execute.
LEMMA PhaseElsewhere ==
    ASSUME NEW w \in Workers, NEW k \in Jobs,
           \A v \in Workers \ {w} : held'[v] = held[v] /\ pc'[v] = pc[v],
           held[w].job # k \/ pc[w] \in Before,
           held'[w].job # k \/ pc'[w] \in Before,
           fate'[k] = fate[k], UNCHANGED submit
    PROVE  Phase(k)' = Phase(k)
<1>1. Executing(k)' <=> Executing(k)
  BY DEF Executing
<1> QED
  BY <1>1, PhaseSame

\* One job goes from one phase to another.
Moves(j, to) ==
    \A k \in Jobs : Phase(k)' = IF k = j THEN to ELSE Phase(k)

\* That is a move of the abstract specification,
LEMMA MovesTo ==
    ASSUME NEW j \in Jobs, NEW from, NEW to, Phase(j) \in from, Moves(j, to)
    PROVE  Lifecycle!Move(j, from, to)
<1> DEFINE phase == [k \in Jobs |-> Phase(k)]
<1>1. phase' = [phase EXCEPT ![j] = to]
  BY DEF Moves
<1>2. phase[j] \in from
  OBVIOUS
<1> QED
  BY <1>1, <1>2 DEF Lifecycle!Move

\* and a step that moves no job is none of it.
LEMMA Stutters ==
    ASSUME \A k \in Jobs : Phase(k)' = Phase(k), UNCHANGED ran
    PROVE  UNCHANGED Lifecycle!lifecycleVars
<1>1. [k \in Jobs |-> Phase(k)]' = [k \in Jobs |-> Phase(k)]
  OBVIOUS
<1> QED
  BY <1>1 DEF Lifecycle!lifecycleVars

\* Submit takes a job or refuses it, once.
LEMMA SubmitIsAStep ==
    ASSUME PoolInv, NEW j \in Jobs, SubmitCheck(j) \/ SubmitSend(j)
    PROVE  [Lifecycle!Next]_Lifecycle!lifecycleVars
<1> USE DEF PoolInv, stopVars, dlVars, history
<1>1. /\ UNCHANGED <<fate, held, pc, ran>>
      /\ submit[j] \in {"idle", "checked"}
      /\ \A k \in Jobs \ {j} : submit'[k] = submit[k]
      /\ submit'[j] \in {"checked", "stopped", "swallowed", "accepted", "full"}
  BY DEF SubmitCheck, SubmitSend, TypeOK
<1>2. \A k \in Jobs : Executing(k)' <=> Executing(k)
  BY <1>1 DEF Executing
<1>3. \A k \in Jobs \ {j} : Phase(k)' = Phase(k)
  BY <1>1, <1>2, PhaseSame
<1>4. ~Executing(j)
  <2>1. \A w \in Workers : held[w].job = j => held[w] \in Items
    BY NoItemIsNone DEF TypeOK
  <2> QED
    BY <1>1, <2>1 DEF Apart, Executing
<1>5. fate[j] = "none" /\ Phase(j) = "new"
  <2>1. fate[j] = "none"
    BY <1>1 DEF Apart
  <2> QED
    BY <1>1, <1>4, <2>1 DEF Phase, Executing, Before
<1>6. CASE submit'[j] = "checked"
  <2>1. Phase(j)' = "new"
    BY <1>1, <1>2, <1>4, <1>5, <1>6 DEF Phase, Executing, Before
  <2> QED
    BY <1>1, <1>3, <1>5, <2>1, Stutters
<1>7. CASE submit'[j] \in {"stopped", "swallowed", "full"}
  <2>1. Phase(j)' = "refused"
    BY <1>1, <1>2, <1>4, <1>5, <1>7 DEF Phase, Executing, Before
  <2>2. Lifecycle!Move(j, {"new"}, "refused")
    BY <1>3, <1>5, <2>1, MovesTo DEF Moves
  <2>3. Lifecycle!Refuse(j)
    BY <1>1, <2>2 DEF Lifecycle!Refuse
  <2> QED
    BY <2>3 DEF Lifecycle!Next
<1>8. CASE submit'[j] = "accepted"
  <2>1. Phase(j)' = "queued"
    BY <1>1, <1>2, <1>4, <1>5, <1>8 DEF Phase, Executing, Before
  <2>2. Lifecycle!Move(j, {"new"}, "queued")
    BY <1>3, <1>5, <2>1, MovesTo DEF Moves
  <2>3. Lifecycle!Accept(j)
    BY <1>1, <2>2 DEF Lifecycle!Accept
  <2> QED
    BY <2>3 DEF Lifecycle!Next
<1> QED
  BY <1>1, <1>6, <1>7, <1>8

\* Each step of executeJob advances its job or leaves it where it is.
LEMMA WorkerIsAStep ==
    ASSUME PoolInv, PoolInv', NEW w \in Workers, WorkerStep(w)
    PROVE  [Lifecycle!Next]_Lifecycle!lifecycleVars
<1> USE DEF stopVars, dlVars, history
<1>1. UNCHANGED submit /\ \A v \in Workers \ {w} : held'[v] = held[v] /\ pc'[v] = pc[v]
  <2>1. UNCHANGED submit
    BY DEF WorkerStep, Receive, ExitWorker, StartAttempt, HandlerMissing, HandlerSucceeds,
       HandlerFails, HandlerPanics, HandlerHangs, BackoffElapses, CheckRunning, Requeue, Bury
  <2>2. \A v \in Workers \ {w} : held'[v] = held[v]
    BY DEF PoolInv, TypeOK, WorkerStep, Receive, ExitWorker, StartAttempt, HandlerMissing,
       HandlerSucceeds, HandlerFails, HandlerPanics, HandlerHangs, BackoffElapses, CheckRunning, Requeue,
       RetryClosed, RetryFull, Bury, Release
  <2>3. \A v \in Workers \ {w} : pc'[v] = pc[v]
    BY DEF PoolInv, TypeOK, WorkerStep, Receive, ExitWorker, StartAttempt, HandlerMissing,
       HandlerSucceeds, HandlerFails, HandlerPanics, HandlerHangs, BackoffElapses, CheckRunning, Requeue,
       RetryClosed, RetryFull, Bury, Release, Goto
  <2> QED
    BY <2>1, <2>2, <2>3
<1>2. CASE Receive(w) \/ ExitWorker(w)
  <2>1. /\ held[w].job \notin Jobs /\ UNCHANGED <<fate, ran>>
        /\ pc'[w] = "taken" \/ held'[w] = held[w]
    BY <1>2, NoItemIsNone DEF PoolInv, Hands, TypeOK, Receive, ExitWorker, Goto
  <2>2. \A k \in Jobs : Phase(k)' = Phase(k)
    <3> SUFFICES ASSUME NEW k \in Jobs PROVE Phase(k)' = Phase(k)
      OBVIOUS
    <3>1. held[w].job # k /\ (held'[w].job # k \/ pc'[w] \in Before)
      BY <2>1 DEF Before
    <3> QED
      BY <1>1, <2>1, <3>1, PhaseElsewhere
  <2> QED
    BY <2>1, <2>2, Stutters
<1>3. CASE ~Receive(w) /\ ~ExitWorker(w)
  <2>0. PhasesFit /\ PhasesFit'
    BY PhasesOfThePool, PTL
  <2>1. pc[w] \notin {"idle", "exited"}
    BY <1>3 DEF WorkerStep, Receive, ExitWorker, StartAttempt, HandlerMissing,
       HandlerSucceeds, HandlerFails, HandlerPanics, HandlerHangs, BackoffElapses, CheckRunning, Requeue,
       Bury, Reasons
  <2>2. PICK j \in Jobs : j = held[w].job
    BY <2>1, HeldItem DEF PoolInv
  <2> USE <2>2
  <2>3. held[w] \in Items /\ fate[j] = "none" /\ submit[j] = "accepted" /\ ran[j] \in Nat
    BY <2>1, HeldItem DEF PoolInv, Apart, TypeOK
  <2>4. held'[w].job = j \/ held'[w] = NoItem
    <3>1. NextItem(held[w]).job = held[w].job
      BY <2>3 DEF NextItem, Items
    <3> QED
      BY <1>3, <3>1 DEF PoolInv, TypeOK, WorkerStep, StartAttempt, HandlerMissing,
         HandlerSucceeds, HandlerFails, HandlerPanics, HandlerHangs, BackoffElapses, CheckRunning, Requeue,
         RetryClosed, RetryFull, Bury, Release
  <2>5. \A k \in Jobs \ {j} : fate'[k] = fate[k]
    BY <1>3 DEF PoolInv, TypeOK, WorkerStep, StartAttempt, HandlerMissing, HandlerSucceeds,
       HandlerFails, HandlerPanics, HandlerHangs, BackoffElapses, CheckRunning, Requeue, Bury
  <2>6. \A k \in Jobs \ {j} : Phase(k)' = Phase(k)
    BY <1>1, <2>4, <2>5, NoItemIsNone, PhaseElsewhere
  <2>7. Phase(j) = IF pc[w] \in Before THEN "queued" ELSE "running"
    BY <2>0 DEF PhasesFit
  <2>8. held'[w].job = j => Phase(j)' = IF pc'[w] \in Before THEN "queued" ELSE "running"
    BY <2>0 DEF PhasesFit
  <2>9. CASE held'[w].job = j /\ (pc'[w] \in Before <=> pc[w] \in Before) /\ UNCHANGED ran
    BY <2>6, <2>7, <2>8, <2>9, Stutters
  <2>10. CASE StartAttempt(w)
    <3>1. CASE j \notin Handled
      <4>1. held'[w].job = j /\ pc'[w] \in Before /\ pc[w] \in Before /\ UNCHANGED ran
        BY <2>10, <3>1 DEF PoolInv, TypeOK, StartAttempt, Goto, Before
      <4> QED
        BY <2>9, <4>1
    <3>2. CASE j \in Handled
      <4>1. /\ held'[w].job = j /\ pc'[w] = "running" /\ pc[w] = "taken"
            /\ ran' = [ran EXCEPT ![j] = @ + 1]
        BY <2>10, <3>2 DEF PoolInv, TypeOK, StartAttempt, Goto
      <4>2. ran[j] < Budget(j)
        BY <2>3, <4>1 DEF PoolInv, Counted, CountAt
      <4>3. Phase(j) \in {"queued"} /\ Phase(j)' = "running"
        BY <2>7, <2>8, <4>1 DEF Before
      <4>4. Lifecycle!Move(j, {"queued"}, "running")
        BY <2>6, <4>3, MovesTo DEF Moves
      <4>5. Lifecycle!Run(j)
        BY <4>1, <4>2, <4>4 DEF Lifecycle!Run
      <4> QED
        BY <4>5 DEF Lifecycle!Next, Lifecycle!Advance
    <3> QED
      BY <3>1, <3>2
  <2>11. CASE HandlerSucceeds(w)
    <3>1. /\ fate'[j] = "succeeded" /\ UNCHANGED ran /\ pc[w] = "running"
      BY <2>11 DEF PoolInv, TypeOK, HandlerSucceeds
    <3>2. Phase(j) \in {"running"} /\ Phase(j)' = "done"
      BY <2>0, <2>7, <3>1 DEF PhasesFit, Before
    <3>3. Lifecycle!Move(j, {"running"}, "done")
      BY <2>6, <3>2, MovesTo DEF Moves
    <3>4. Lifecycle!Finish(j)
      BY <3>1, <3>3 DEF Lifecycle!Finish
    <3> QED
      BY <3>4 DEF Lifecycle!Next, Lifecycle!Advance
  <2>12. CASE Bury(w) /\ ~UNCHANGED fate
    <3>1. fate'[j] \in {"buried", "dropped"} /\ UNCHANGED ran
      BY <2>12 DEF PoolInv, TypeOK, Bury
    <3>2. Phase(j) \in {"queued", "running"} /\ Phase(j)' = "dead"
      BY <2>0, <2>7, <3>1 DEF PhasesFit
    <3>3. Lifecycle!Move(j, {"queued", "running"}, "dead")
      BY <2>6, <3>2, MovesTo DEF Moves
    <3>4. Lifecycle!GiveUp(j)
      BY <3>1, <3>3 DEF Lifecycle!GiveUp
    <3> QED
      BY <3>4 DEF Lifecycle!Next, Lifecycle!Advance
  <2>13. CASE Requeue(w) /\ Release(w)
    <3>1. /\ held'[w] = NoItem /\ pc[w] = "requeue" /\ UNCHANGED <<fate, ran>>
      BY <2>13 DEF PoolInv, TypeOK, Requeue, Release
    <3>2. ~Executing(j)'
      <4>1. \A v \in Workers \ {w} : held[v].job # j
        BY <2>3 DEF PoolInv, Apart
      <4> QED
        BY <1>1, <3>1, <4>1, NoItemIsNone DEF Executing
    <3>3. Phase(j) \in {"running"} /\ Phase(j)' = "queued"
      BY <1>1, <2>3, <2>7, <3>1, <3>2 DEF Phase, Executing, Before
    <3>4. ran[j] < Budget(j)
      BY <2>3, <3>1 DEF PoolInv, Counted, CountAt
    <3>5. Lifecycle!Move(j, {"running"}, "queued")
      BY <2>6, <3>3, MovesTo DEF Moves
    <3>6. Lifecycle!Retry(j)
      BY <3>1, <3>4, <3>5 DEF Lifecycle!Retry
    <3> QED
      BY <3>6 DEF Lifecycle!Next, Lifecycle!Advance
  <2>14. CASE HandlerMissing(w) \/ HandlerFails(w) \/ HandlerPanics(w) \/ HandlerHangs(w)
              \/ BackoffElapses(w) \/ CheckRunning(w)
    <3>1. UNCHANGED ran /\ held'[w] # NoItem
      BY <2>14 DEF PoolInv, Hands, HandlerMissing, HandlerFails, HandlerPanics, HandlerHangs,
         BackoffElapses, CheckRunning, AfterCheck, Goto, TypeOK
    <3>2. pc'[w] \in Before <=> pc[w] \in Before
      BY <2>14 DEF PoolInv, TypeOK, HandlerMissing, HandlerFails, HandlerPanics, HandlerHangs,
         BackoffElapses, CheckRunning, AfterCheck, Goto, Before
    <3> QED
      BY <2>4, <2>9, <3>1, <3>2
  <2>15. CASE Requeue(w) /\ (RetryClosed(w) \/ RetryFull(w))
    <3>1. UNCHANGED <<ran, held>> /\ (pc'[w] \in Before <=> pc[w] \in Before)
      BY <2>15 DEF PoolInv, TypeOK, Requeue, RetryClosed, RetryFull, Goto, Before
    <3> QED
      BY <2>9, <3>1
  <2>16. CASE Bury(w) /\ UNCHANGED fate
    <3>1. UNCHANGED <<ran, held, pc>>
      <4>1. fate' # [fate EXCEPT ![j] = "buried"] /\ fate' # [fate EXCEPT ![j] = "dropped"]
        BY <2>3, <2>16 DEF PoolInv, TypeOK
      <4> QED
        BY <2>16, <4>1 DEF Bury
    <3> QED
      BY <2>9, <3>1
  <2> QED
    BY <1>3, <2>10, <2>11, <2>12, <2>13, <2>14, <2>15, <2>16 DEF WorkerStep, Requeue
<1> QED
  BY <1>2, <1>3

\* Every step of the pool is a step of some job's life, or none: jobs are taken
\* or refused once, run within their budget, and end once.
THEOREM PoolKeepsLifecycle == Spec => KeepsLifecycle
<1>1. Init => Lifecycle!Init
  <2> SUFFICES ASSUME Init PROVE Lifecycle!Init
    OBVIOUS
  <2>1. \A j \in Jobs : fate[j] = "none" /\ submit[j] = "idle"
    BY DEF Init
  <2>2. \A j \in Jobs : Phase(j) = "new"
    <3>1. \A w \in Workers : held[w].job \notin Jobs
      BY NoItemIsNone DEF Init
    <3> QED
      BY <2>1, <3>1 DEF Phase
  <2>3. ran = [j \in Jobs |-> 0]
    BY DEF Init
  <2> QED
    BY <2>2, <2>3 DEF Lifecycle!Init
<1>2. PoolInv /\ [Next]_vars => [Lifecycle!Next]_Lifecycle!lifecycleVars
  <2> SUFFICES ASSUME PoolInv, [Next]_vars PROVE [Lifecycle!Next]_Lifecycle!lifecycleVars
    OBVIOUS
  <2>1. PoolInv'
    BY NextPoolInv
  <2>2. ASSUME UNCHANGED <<submit, fate, held, pc, ran>>
        PROVE  [Lifecycle!Next]_Lifecycle!lifecycleVars
    <3>1. \A k \in Jobs : Executing(k)' <=> Executing(k)
      BY <2>2 DEF Executing
    <3> QED
      BY <2>2, <3>1, PhaseSame, Stutters
  <2>3. ASSUME DeadLetterStep \/ \E s \in Stoppers : StopStep(s)
        PROVE  [Lifecycle!Next]_Lifecycle!lifecycleVars
    BY <2>2, <2>3 DEF DeadLetterStep, RecordDeadLetter, ExitDeadLetter, StopStep, StopBegin,
       StopClose, StopReturn, history
  <2>4. CASE UNCHANGED vars
    BY <2>2, <2>4 DEF vars, history
  <2> QED
    BY <2>1, <2>3, <2>4, SubmitIsAStep, WorkerIsAStep DEF Next, SubmitStep, WorkerTurn
<1> QED
  BY <1>1, <1>2, PoolInvariant, PTL DEF Spec, KeepsLifecycle, Lifecycle!Spec

=============================================================================
