------------------------- MODULE SchedulerProperties -------------------------
(* What the scheduler should and does guarantee.                           *)
EXTENDS Scheduler

Entries  == [id : Ids, job : JobRecords, by : Clients \cup (1..Len(FileJobs))]
Triggers == [id : Ids, job : JobRecords, source : {"cron", "api"}]
WorkerJobs == [id : Ids, retry : Retries, source : {"cron", "api"}]

Scheduled(id) == \E e \in DOMAIN entries : entries[e].id = id

\* Every variable has its type, and the bounds on the environment hold.
TypeOK ==
    /\ loaded \in 0..Len(FileJobs)
    /\ cron \in {"new", "running", "stopped"}
    /\ jobs \in [Ids -> JobRecords \cup {NoJob}]
    /\ entries \in Seq(Entries)
    /\ creating \in [Clients -> [id : Ids, cfg : JobConfigs] \cup {NoCreate}]
    /\ triggers \in Seq(Triggers)
    /\ contested \subseteq Ids
    /\ submitted \in Seq(WorkerJobs)
    /\ Len(triggers) + Len(submitted) <= MaxTriggers
    /\ served \in 0..MaxRequests

\* A cron entry can never be removed, so what keeps an id from firing twice is
\* that AddJob is reached once.  Whatever requests overlap, a goroutine that is
\* past CreateJob's existence check adds at most one entry for its id, and one
\* that comes later is refused; an id no two creates were after at once, and
\* the file names once, has one entry at most.
OneEntryPerJob ==
    \A e, f \in DOMAIN entries :
        /\ entries[e].id = entries[f].id
        /\ entries[e].by = entries[f].by \/ entries[e].id \notin contested
        => e = f

\* What a cron firing runs by value is what GET /jobs shows for the id, but
\* for the enabled flag: unless two creates raced for the id, AddJob never
\* replaces a scheduled definition.  The job shown is there in any case.
FiringsAreCurrent ==
    \A t \in DOMAIN triggers :
        LET fired == triggers[t] IN
        fired.source = "cron" =>
            /\ jobs[fired.id] # NoJob
            /\ fired.id \notin contested =>
                   /\ fired.job.cron = jobs[fired.id].cron
                   /\ fired.job.retry = jobs[fired.id].retry

\* A job gets its cron entry when it enters the map, if it is enabled then
\* and its cron expression is accepted.  No later request (PUT, DELETE, run)
\* takes it away, and none gives an entry to a job that has none, but for the
\* add of a create that raced with the first.
ScheduledWhenFirstAdded ==
    [][\A id \in Ids :
        IF jobs[id] = NoJob
        THEN jobs'[id] # NoJob =>
                 (Scheduled(id)' <=>
                     jobs'[id].enabled /\ jobs'[id].cron = "accepted")
        ELSE /\ Scheduled(id) => Scheduled(id)'
             /\ Scheduled(id)' => Scheduled(id) \/ id \in contested']_vars

\* Whatever retry numbers a file or a request carried, zeros and negative
\* numbers included, the pool is handed a positive attempt budget, delays and
\* multiplier.
SaneRetries ==
    \A s \in DOMAIN submitted :
        \A f \in RetryFields : submitted[s].retry[f] > 0

\* The map, the entries and the jobs handed over fit together: types and
\* bounds, one entry per id and create, usable retries.
ScheduleIsConsistent == TypeOK /\ OneEntryPerJob /\ SaneRetries

-----------------------------------------------------------------------------
(* Claims of comments and answers that the code does not keep.             *)

\* "Check if job already exists" (jobs.go:74) and the answer "job already
\* exists" with 409: an id is created once.  Two creates that overlap are both
\* answered with 201, and the id is then scheduled twice.
CreatesAreExclusive ==
    \A e, f \in DOMAIN entries : entries[e].id = entries[f].id => e = f

\* DELETE /jobs/{id} answers "job disabled"; a disabled job is not fired by
\* cron.
DisabledJobsDoNotFire ==
    [][Len(triggers') > Len(triggers) =>
        LET t == triggers'[Len(triggers')] IN
        t.source = "cron" => jobs[t.id].enabled]_vars

\* "Stop scheduler first (no new jobs)" (app.go:167): nothing is handed to the
\* pool after Stop.  Run requests are served on, and firings that are already
\* in their goroutine go on.
NoJobsAfterStop == [][cron = "stopped" => submitted' = submitted]_vars
=============================================================================
