------------------------------ MODULE Scheduler ------------------------------
(***************************************************************************)
(* The job scheduler of internal/scheduler/scheduler.go with the HTTP      *)
(* handlers that change it (internal/handlers/jobs.go, system.go) and the  *)
(* loading of the configured jobs (cmd/server/app.go).                     *)
(*                                                                         *)
(* net/http serves each request in a goroutine of its own, so two creates   *)
(* can overlap: CreateJob looks for the id under one lock and AddJob takes *)
(* another.                                                                *)
(*                                                                         *)
(* The cron library is external: it keeps a list of entries, fires any     *)
(* entry at any time between Start and Stop, each firing in a goroutine of *)
(* its own, and never forgets an entry, because the scheduler keeps no     *)
(* entry id to remove one with.  The closure an entry calls holds the Job  *)
(* it was added with by value.                                             *)
(***************************************************************************)
EXTENDS Integers, Sequences

CONSTANTS
    Ids,           \* job ids
    Clients,       \* goroutines that serve HTTP requests
    FileJobs,      \* cfg.Jobs: a sequence of [id, cfg] records
    Requests,      \* the JobConfigs a POST /jobs may carry
    NoJob,         \* the absence of a job
    MaxRequests,   \* bound: requests served
    MaxTriggers    \* bound: calls of executeJob

\* A cron expression is empty, one the cron parser accepts, or one it rejects
\* (the file is not validated, and the handlers' validator is another parser).
CronSpecs   == {"", "accepted", "rejected"}
RetryFields == {"MaxAttempts", "InitialDelay", "MaxDelay", "Multiplier"}
Retries     == [RetryFields -> Int]
JobRecords  == [enabled : BOOLEAN, cron : CronSpecs, retry : Retries]
JobConfigs  == JobRecords

ASSUME SchedulerAssumption ==
    /\ FileJobs \in Seq([id : Ids, cfg : JobConfigs])
    /\ Requests \subseteq JobConfigs
    /\ NoJob \notin JobRecords
    /\ MaxRequests \in Nat
    /\ MaxTriggers \in Nat

VARIABLES
    loaded,     \* how many of FileJobs initScheduler has added
    cron,       \* the cron library: "new", "running" or "stopped"
    jobs,       \* Scheduler.jobs
    entries,    \* the cron entries: the job each closure holds, and (history) who added it
    creating,   \* the POST a client has found no job for, and not yet added
    triggers,   \* the executeJob goroutines that have not submitted yet
    contested,  \* (history) the ids the file names again or two creates were after at once
    submitted,  \* (history) the worker jobs handed to Pool.Submit
    served      \* (history) how many requests were taken
vars == <<loaded, cron, jobs, entries, creating, triggers, contested, submitted, served>>

NoCreate == [id |-> NoJob, cfg |-> NoJob]

Init ==
    /\ loaded = 0
    /\ cron = "new"
    /\ jobs = [i \in Ids |-> NoJob]
    /\ entries = <<>>
    /\ creating = [c \in Clients |-> NoCreate]
    /\ triggers = <<>>
    /\ contested = {}
    /\ submitted = <<>>
    /\ served = 0

-----------------------------------------------------------------------------
(* AddJob.  The job goes into the map whether or not its cron expression   *)
(* is accepted.  The metadata of a configuration has no field in Job, and  *)
(* no cron run carries it.                                                 *)

Added(id, cfg) == [jobs EXCEPT ![id] = cfg]

SchedulableAnyway(job) == job.cron = "accepted"           \* mutant: no Enabled test
Schedulable(job) == job.enabled /\ job.cron = "accepted"

AddJob(id, cfg, by) ==
    /\ jobs' = Added(id, cfg)
    /\ entries' = IF Schedulable(cfg)
                  THEN Append(entries, [id |-> id, job |-> cfg, by |-> by])
                  ELSE entries

\* initScheduler adds the configured jobs in order and only logs an error.  The
\* file is not searched for an id that it names twice.
LoadJob ==
    /\ cron = "new" /\ loaded < Len(FileJobs)
    /\ loaded' = loaded + 1
    /\ LET row == FileJobs[loaded + 1] IN
        /\ AddJob(row.id, row.cfg, loaded + 1)
        /\ contested' = contested \cup {id \in {row.id} : jobs[id] # NoJob}
    /\ UNCHANGED <<cron, creating, triggers, submitted, served>>

\* The HTTP server is started after the scheduler.
Start ==
    /\ cron = "new" /\ loaded = Len(FileJobs)
    /\ cron' = "running"
    /\ UNCHANGED <<loaded, jobs, entries, creating, triggers, contested, submitted, served>>

Stop ==
    /\ cron = "running"
    /\ cron' = "stopped"
    /\ UNCHANGED <<loaded, jobs, entries, creating, triggers, contested, submitted, served>>

-----------------------------------------------------------------------------
(* Requests.  A client whose request is refused changes nothing.           *)

Takes(c) ==
    /\ cron # "new" /\ creating[c] = NoCreate /\ served < MaxRequests
    /\ served' = served + 1

AbsentNever(id) == TRUE                             \* mutant: no existence check
Absent(id) == jobs[id] = NoJob

\* POST /jobs: GetJob under the read lock, AddJob later under the write lock.
CreateCheck(c, id, cfg) ==
    /\ Takes(c) /\ Absent(id)
    /\ creating' = [creating EXCEPT ![c] = [id |-> id, cfg |-> cfg]]
    /\ contested' = IF \E d \in Clients : creating[d] # NoCreate /\ creating[d].id = id
                    THEN contested \cup {id}
                    ELSE contested
    /\ UNCHANGED <<loaded, cron, jobs, entries, triggers, submitted>>

CreateAdd(c) ==
    /\ creating[c] # NoCreate
    /\ AddJob(creating[c].id, creating[c].cfg, c)
    /\ creating' = [creating EXCEPT ![c] = NoCreate]
    /\ UNCHANGED <<loaded, cron, triggers, contested, submitted, served>>

\* setJobEnabled, called by PUT /jobs/{id} and (with FALSE) by DELETE: a job
\* never leaves the map, so the handlers' own GetJob is not a separate step.
SetJobEnabled(c, id, b) ==
    /\ Takes(c) /\ jobs[id] # NoJob
    /\ jobs' = [jobs EXCEPT ![id].enabled = b]
    /\ UNCHANGED <<loaded, cron, entries, creating, triggers, contested, submitted>>

-----------------------------------------------------------------------------
(* Triggers: executeJob runs in a goroutine of its own in both cases.      *)

Begin(id, job, source) ==
    /\ Len(triggers) + Len(submitted) < MaxTriggers
    /\ triggers' = Append(triggers, [id |-> id, job |-> job, source |-> source])

\* POST /jobs/{id}/run: the job of the map, enabled or not.
RunNow(c, id) ==
    /\ Takes(c) /\ jobs[id] # NoJob
    /\ Begin(id, jobs[id], "api")
    /\ UNCHANGED <<loaded, cron, jobs, entries, creating, contested, submitted>>

\* The job of the entry, as it was when the entry was added.
CronFire(e) ==
    /\ cron = "running"
    /\ Begin(entries[e].id, entries[e].job, "cron")
    /\ UNCHANGED <<loaded, cron, jobs, entries, creating, contested, submitted, served>>

RetryDefaults ==
    [MaxAttempts |-> 3, InitialDelay |-> 1000, MaxDelay |-> 60000,
     Multiplier |-> 2]

Sanitized(retry) ==
    [f \in RetryFields |-> IF retry[f] <= 0 THEN RetryDefaults[f] ELSE retry[f]]

WorkerJob(t) ==
    [id |-> t.id, retry |-> Sanitized(t.job.retry), source |-> t.source]

\* executeJob calls Pool.Submit; an error is only logged.
Submit(t) ==
    /\ submitted' = Append(submitted, WorkerJob(triggers[t]))
    /\ triggers' = [i \in 1..(Len(triggers) - 1) |->
                        IF i < t THEN triggers[i] ELSE triggers[i + 1]]
    /\ UNCHANGED <<loaded, cron, jobs, entries, creating, contested, served>>

-----------------------------------------------------------------------------
RequestStep(c) ==
    \/ \E id \in Ids, cfg \in Requests : CreateCheck(c, id, cfg)
    \/ \E id \in Ids, b \in BOOLEAN : SetJobEnabled(c, id, b)
    \/ \E id \in Ids : RunNow(c, id)

SubmitStep == \E t \in DOMAIN triggers : Submit(t)

Next ==
    \/ LoadJob
    \/ Start
    \/ Stop
    \/ \E c \in Clients : RequestStep(c) \/ CreateAdd(c)
    \/ \E e \in DOMAIN entries : CronFire(e)
    \/ SubmitStep

Spec == Init /\ [][Next]_vars
=============================================================================
