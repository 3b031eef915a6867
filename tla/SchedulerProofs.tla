--------------------------- MODULE SchedulerProofs ---------------------------
(***************************************************************************)
(* Proofs about the scheduler, for every set of ids, clients, configured   *)
(* jobs and requests, and every number of requests and triggers: a create  *)
(* adds one cron entry, an id that no two creates raced for has one and    *)
(* cron runs what the map shows for it, and the pool gets usable retry     *)
(* numbers.                                                                *)
(*                                                                         *)
(* None of it is inductive.  Entries and map are tied together by what a   *)
(* create that is past its check knows: it has added nothing yet for its   *)
(* id, and if nobody raced with it, the id is still absent from the map    *)
(* and nobody else is about to add it.                                     *)
(***************************************************************************)
EXTENDS SchedulerProperties, SequenceTheorems, TLAPS

\* The definition x is what the map shows for id, but for the enabled flag.
Shown(id, x) == x.cron = jobs[id].cron /\ x.retry = jobs[id].retry

EntriesAreCurrent ==
    \A e \in DOMAIN entries :
        /\ jobs[entries[e].id] # NoJob
        /\ entries[e].id \notin contested => Shown(entries[e].id, entries[e].job)

\* Until the scheduler starts, the entries are those of the file's rows so
\* far, and nobody asks.
LoadingFits ==
    cron = "new" =>
        /\ \A c \in Clients : creating[c] = NoCreate
        /\ \A e \in DOMAIN entries : entries[e].by \in 1..loaded

\* A create that has passed its check has not added its entry, and without a
\* race it is the only one that is about to add its id.
CreatesFit ==
    \A c \in Clients :
        creating[c] # NoCreate =>
            /\ \A e \in DOMAIN entries :
                   entries[e].id = creating[c].id => entries[e].by # c
            /\ creating[c].id \notin contested =>
                   /\ jobs[creating[c].id] = NoJob
                   /\ \A d \in Clients :
                          creating[d] # NoCreate /\ creating[d].id = creating[c].id => d = c

IInv ==
    /\ TypeOK /\ EntriesAreCurrent /\ OneEntryPerJob
    /\ LoadingFits /\ CreatesFit
    /\ FiringsAreCurrent /\ SaneRetries

-----------------------------------------------------------------------------
\* What the entries and the triggers are.
LEMMA ItemsFit ==
    ASSUME TypeOK
    PROVE  /\ DOMAIN entries = 1..Len(entries) /\ Len(entries) \in Nat
           /\ \A e \in DOMAIN entries : /\ entries[e].id \in Ids /\ entries[e].job \in JobRecords
                                       /\ entries[e].by \in Clients \cup (1..Len(FileJobs))
           /\ DOMAIN triggers = 1..Len(triggers) /\ Len(triggers) \in Nat
           /\ \A t \in DOMAIN triggers : triggers[t] \in Triggers
           /\ \A n \in DOMAIN FileJobs : FileJobs[n].id \in Ids /\ FileJobs[n].cfg \in JobConfigs
<1>1. /\ DOMAIN entries = 1..Len(entries) /\ Len(entries) \in Nat
      /\ DOMAIN triggers = 1..Len(triggers) /\ Len(triggers) \in Nat
      /\ DOMAIN FileJobs = 1..Len(FileJobs)
    BY SchedulerAssumption, LenProperties DEF TypeOK
<1>2. \A e \in 1..Len(entries) : entries[e] \in Entries
    BY ElementOfSeq DEF TypeOK
<1>3. \A t \in 1..Len(triggers) : triggers[t] \in Triggers
    BY ElementOfSeq DEF TypeOK
<1>4. \A n \in 1..Len(FileJobs) : FileJobs[n] \in [id : Ids, cfg : JobConfigs]
    BY SchedulerAssumption, ElementOfSeq
<1> QED
    BY <1>1, <1>2, <1>3, <1>4 DEF Entries

\* Whatever the numbers, sanitizeRetry returns positive ones.
LEMMA SanitizedIsPositive ==
    ASSUME NEW r \in Retries
    PROVE  Sanitized(r) \in Retries /\ \A f \in RetryFields : Sanitized(r)[f] > 0
<1>1. \A f \in RetryFields : RetryDefaults[f] \in Int /\ RetryDefaults[f] > 0
    BY DEF RetryDefaults, RetryFields
<1>2. \A f \in RetryFields : r[f] \in Int
    BY DEF Retries
<1> QED
    BY <1>1, <1>2 DEF Sanitized, Retries

LEMMA InitIInv == Init => IInv
<1> SUFFICES ASSUME Init PROVE IInv
    OBVIOUS
<1>1. entries = <<>> /\ triggers = <<>> /\ submitted = <<>> /\ loaded = 0 /\ cron = "new"
    BY DEF Init
<1>2. TypeOK
    BY SchedulerAssumption DEF Init, TypeOK
<1>3. LoadingFits /\ CreatesFit
    BY DEF Init, LoadingFits, CreatesFit
<1> QED
    BY <1>1, <1>2, <1>3 DEF IInv, EntriesAreCurrent, OneEntryPerJob, FiringsAreCurrent, SaneRetries

-----------------------------------------------------------------------------
\* AddJob by a goroutine that has added no entry for the id, and of an id that
\* is absent from the map or raced for.
LEMMA AddJobKeeps ==
    ASSUME TypeOK, EntriesAreCurrent, OneEntryPerJob, FiringsAreCurrent,
           NEW id \in Ids, NEW cfg \in JobConfigs,
           NEW by \in Clients \cup (1..Len(FileJobs)), AddJob(id, cfg, by),
           UNCHANGED triggers,
           contested \subseteq contested', id \notin contested' => jobs[id] = NoJob,
           \A e \in DOMAIN entries : entries[e].id = id => entries[e].by # by
    PROVE  /\ jobs' \in [Ids -> JobRecords \cup {NoJob}]
           /\ entries' \in Seq(Entries)
           /\ EntriesAreCurrent' /\ OneEntryPerJob' /\ FiringsAreCurrent'
           /\ jobs'[id] # NoJob /\ \A i \in Ids : i # id => jobs'[i] = jobs[i]
           /\ \A e \in DOMAIN entries' :
                  \/ e \in DOMAIN entries /\ entries'[e] = entries[e]
                  \/ entries'[e].id = id /\ entries'[e].by = by
<1>1. cfg \in JobRecords /\ cfg # NoJob
    BY SchedulerAssumption DEF JobConfigs
<1>2. /\ jobs' \in [Ids -> JobRecords \cup {NoJob}] /\ jobs'[id] = cfg
      /\ \A i \in Ids : i # id => jobs'[i] = jobs[i]
    BY <1>1 DEF AddJob, Added, TypeOK
<1>3. FiringsAreCurrent'
    <2>1. \A t \in DOMAIN triggers : triggers[t].id \in Ids
        BY ItemsFit DEF Triggers
    <2> QED
        BY <1>1, <1>2, <2>1 DEF FiringsAreCurrent
<1>4. \A e \in DOMAIN entries :
          entries[e].id \in Ids /\ (entries[e].id = id => id \in contested')
    <2>1. \A e \in DOMAIN entries : entries[e].id \in Ids
        BY ItemsFit
    <2> QED
        BY <2>1 DEF EntriesAreCurrent
<1>5. \A e \in DOMAIN entries :
          /\ jobs'[entries[e].id] # NoJob
          /\ entries[e].id \notin contested' =>
                 /\ entries[e].job.cron = jobs'[entries[e].id].cron
                 /\ entries[e].job.retry = jobs'[entries[e].id].retry
    BY <1>1, <1>2, <1>4 DEF EntriesAreCurrent, Shown
<1>6. CASE Schedulable(cfg)
    <2> DEFINE new == [id |-> id, job |-> cfg, by |-> by]
    <2>1. entries' = Append(entries, new) /\ new \in Entries
        BY <1>1, <1>6 DEF AddJob, Entries
    <2>2. entries' \in Seq(Entries)
        BY <2>1, AppendProperties DEF TypeOK
    <2>3. \A e \in DOMAIN entries' :
              \/ e \in DOMAIN entries /\ entries'[e] = entries[e]
              \/ e = Len(entries) + 1 /\ e \notin DOMAIN entries /\ entries'[e] = new
        BY <2>1, AppendProperties DEF TypeOK
    <2>4. new.id = id /\ new.job = cfg /\ new.by = by
        OBVIOUS
    <2> HIDE DEF new
    <2>5. EntriesAreCurrent'
        <3> SUFFICES ASSUME NEW e \in DOMAIN entries'
                     PROVE  /\ jobs'[entries'[e].id] # NoJob
                            /\ entries'[e].id \notin contested' =>
                                  Shown(entries[e].id, entries[e].job)'
            BY DEF EntriesAreCurrent
        <3>1. CASE e \in DOMAIN entries /\ entries'[e] = entries[e]
            BY <1>5, <3>1 DEF Shown
        <3>2. CASE entries'[e] = new
            BY <1>1, <1>2, <2>4, <3>2 DEF Shown
        <3> QED
            BY <2>3, <3>1, <3>2
    <2>6. OneEntryPerJob'
        <3> SUFFICES ASSUME NEW e \in DOMAIN entries', NEW f \in DOMAIN entries',
                            entries'[e].id = entries'[f].id,
                            \/ entries'[e].by = entries'[f].by
                            \/ entries'[e].id \notin contested'
                     PROVE  e = f
            BY DEF OneEntryPerJob
        <3>1. CASE /\ e \in DOMAIN entries /\ entries'[e] = entries[e]
                   /\ f \in DOMAIN entries /\ entries'[f] = entries[f]
            BY <3>1 DEF OneEntryPerJob
        <3>2. CASE /\ e \in DOMAIN entries /\ entries'[e] = entries[e] /\ entries'[f] = new
            BY <1>4, <2>4, <3>2
        <3>3. CASE /\ f \in DOMAIN entries /\ entries'[f] = entries[f] /\ entries'[e] = new
            BY <1>4, <2>4, <3>3
        <3> QED
            BY <2>3, <3>1, <3>2, <3>3
    <2> QED
        BY <1>1, <1>2, <1>3, <2>2, <2>3, <2>4, <2>5, <2>6
<1>7. CASE ~Schedulable(cfg)
    <2>1. entries' = entries
        BY <1>7 DEF AddJob
    <2>2. EntriesAreCurrent'
        BY <1>5, <2>1 DEF EntriesAreCurrent, Shown
    <2>3. OneEntryPerJob'
        BY <2>1 DEF OneEntryPerJob
    <2> QED
        BY <1>1, <1>2, <1>3, <2>1, <2>2, <2>3 DEF TypeOK
<1> QED
    BY <1>6, <1>7

\* A row of the file names a new id or one that is contested from now on, and
\* its number has no entry yet.
LEMMA LoadedFits ==
    ASSUME IInv, LoadJob
    PROVE  /\ cron = "new" /\ loaded' = loaded + 1
           /\ loaded + 1 \in DOMAIN FileJobs /\ loaded + 1 \in 1..Len(FileJobs)
           /\ FileJobs[loaded + 1].id \in Ids /\ FileJobs[loaded + 1].cfg \in JobConfigs
           /\ AddJob(FileJobs[loaded + 1].id, FileJobs[loaded + 1].cfg, loaded + 1)
           /\ contested \subseteq contested' /\ contested' \subseteq Ids
           /\ FileJobs[loaded + 1].id \notin contested' => jobs[FileJobs[loaded + 1].id] = NoJob
           /\ \A e \in DOMAIN entries : entries[e].by # loaded + 1
<1>1. /\ cron = "new" /\ loaded + 1 \in 1..Len(FileJobs) /\ loaded' = loaded + 1
      /\ loaded + 1 \in DOMAIN FileJobs /\ loaded \in Nat
    BY SchedulerAssumption DEF LoadJob, IInv, TypeOK
<1>2. FileJobs[loaded + 1].id \in Ids /\ FileJobs[loaded + 1].cfg \in JobConfigs
    BY <1>1, ItemsFit DEF IInv
<1>3. \A e \in DOMAIN entries : entries[e].by # loaded + 1
    BY <1>1 DEF IInv, LoadingFits
<1> QED
    BY <1>1, <1>2, <1>3 DEF LoadJob, IInv, TypeOK

LEMMA LoadJobKeeps == ASSUME IInv, LoadJob PROVE IInv'
<1> DEFINE id == FileJobs[loaded + 1].id
           cfg == FileJobs[loaded + 1].cfg
           by == loaded + 1
<1>1. UNCHANGED <<cron, creating, triggers, submitted, served>>
    BY DEF LoadJob
<1>2. /\ cron = "new" /\ loaded' = by /\ by \in 1..Len(FileJobs)
      /\ id \in Ids /\ cfg \in JobConfigs /\ AddJob(id, cfg, by)
      /\ contested \subseteq contested' /\ contested' \subseteq Ids
      /\ id \notin contested' => jobs[id] = NoJob
      /\ \A e \in DOMAIN entries : entries[e].by # by
    BY LoadedFits
<1>3. /\ jobs' \in [Ids -> JobRecords \cup {NoJob}]
      /\ entries' \in Seq(Entries)
      /\ EntriesAreCurrent' /\ OneEntryPerJob' /\ FiringsAreCurrent'
      /\ \A e \in DOMAIN entries' :
             \/ e \in DOMAIN entries /\ entries'[e] = entries[e]
             \/ entries'[e].id = id /\ entries'[e].by = by
    BY <1>1, <1>2, AddJobKeeps DEF IInv
<1>4. TypeOK'
    BY <1>1, <1>2, <1>3, SchedulerAssumption DEF IInv, TypeOK
<1>5. LoadingFits'
    <2>1. loaded \in Nat /\ \A n \in 1..loaded : n \in 1..by
        BY DEF IInv, TypeOK
    <2> QED
        BY <1>1, <1>2, <1>3, <2>1 DEF IInv, LoadingFits
<1>6. CreatesFit' /\ SaneRetries'
    BY <1>1, <1>2 DEF IInv, LoadingFits, CreatesFit, SaneRetries
<1> QED
    BY <1>3, <1>4, <1>5, <1>6 DEF IInv

LEMMA CreateCheckKeeps ==
    ASSUME IInv, NEW c \in Clients, NEW id \in Ids, NEW cfg \in Requests, CreateCheck(c, id, cfg)
    PROVE  IInv'
<1> DEFINE new == [id |-> id, cfg |-> cfg]
<1>1. /\ cron # "new" /\ jobs[id] = NoJob /\ served < MaxRequests /\ served' = served + 1
      /\ creating[c] = NoCreate /\ creating' = [creating EXCEPT ![c] = new]
      /\ UNCHANGED <<loaded, cron, jobs, entries, triggers, submitted>>
    BY DEF CreateCheck, Takes, Absent
<1>2. /\ contested \subseteq contested' /\ contested' \subseteq contested \cup {id}
      /\ id \notin contested' =>
             \A d \in Clients : creating[d] # NoCreate => creating[d].id # id
    BY DEF CreateCheck
<1>3. cfg \in JobConfigs
    BY SchedulerAssumption
<1>4. TypeOK'
    BY <1>1, <1>2, <1>3, SchedulerAssumption DEF IInv, TypeOK
<1>5. CreatesFit'
    <2>1. /\ creating'[c] = new /\ new.id = id
          /\ \A d \in Clients : d # c => creating'[d] = creating[d]
        BY <1>1 DEF IInv, TypeOK
    <2>2. \A e \in DOMAIN entries : entries[e].id # id
        BY <1>1 DEF IInv, EntriesAreCurrent
    <2> HIDE DEF new
    <2> SUFFICES ASSUME NEW b \in Clients, creating'[b] # NoCreate
                 PROVE  /\ \A e \in DOMAIN entries :
                               entries[e].id = creating'[b].id => entries[e].by # b
                        /\ creating'[b].id \notin contested' =>
                               /\ jobs[creating'[b].id] = NoJob
                               /\ \A d \in Clients :
                                      /\ creating'[d] # NoCreate
                                      /\ creating'[d].id = creating'[b].id
                                      => d = b
        BY <1>1 DEF CreatesFit
    <2>3. CASE b = c
        BY <1>1, <1>2, <2>1, <2>2, <2>3
    <2>4. CASE b # c
        BY <1>2, <2>1, <2>4 DEF IInv, CreatesFit
    <2> QED
        BY <2>3, <2>4
<1> QED
    BY <1>1, <1>2, <1>4, <1>5
    DEF IInv, EntriesAreCurrent, Shown, OneEntryPerJob, LoadingFits, FiringsAreCurrent, SaneRetries

LEMMA CreateAddKeeps == ASSUME IInv, NEW c \in Clients, CreateAdd(c) PROVE IInv'
<1> DEFINE id == creating[c].id
           cfg == creating[c].cfg
<1>1. /\ creating[c] # NoCreate /\ AddJob(id, cfg, c)
      /\ creating' = [creating EXCEPT ![c] = NoCreate]
      /\ UNCHANGED <<loaded, cron, triggers, contested, submitted, served>>
    BY DEF CreateAdd
<1>2. id \in Ids /\ cfg \in JobConfigs
    BY <1>1 DEF IInv, TypeOK
<1>3. /\ cron # "new"
      /\ id \notin contested => jobs[id] = NoJob
      /\ \A e \in DOMAIN entries : entries[e].id = id => entries[e].by # c
    BY <1>1 DEF IInv, LoadingFits, CreatesFit
<1>4. /\ jobs' \in [Ids -> JobRecords \cup {NoJob}]
      /\ entries' \in Seq(Entries)
      /\ EntriesAreCurrent' /\ OneEntryPerJob' /\ FiringsAreCurrent'
      /\ \A i \in Ids : i # id => jobs'[i] = jobs[i]
      /\ \A e \in DOMAIN entries' :
             \/ e \in DOMAIN entries /\ entries'[e] = entries[e]
             \/ entries'[e].id = id /\ entries'[e].by = c
    BY <1>1, <1>2, <1>3, AddJobKeeps DEF IInv
<1>5. TypeOK'
    BY <1>1, <1>4 DEF IInv, TypeOK
<1>6. CreatesFit'
    <2>1. /\ creating'[c] = NoCreate
          /\ \A d \in Clients : d # c => creating'[d] = creating[d]
        BY <1>1 DEF IInv, TypeOK
    <2> SUFFICES ASSUME NEW b \in Clients, b # c, creating[b] # NoCreate
                 PROVE  /\ \A e \in DOMAIN entries' :
                               entries'[e].id = creating[b].id => entries'[e].by # b
                        /\ creating[b].id \notin contested =>
                               /\ jobs'[creating[b].id] = NoJob
                               /\ \A d \in Clients :
                                      /\ creating'[d] # NoCreate
                                      /\ creating'[d].id = creating[b].id
                                      => d = b
        BY <1>1, <2>1 DEF CreatesFit
    <2>2. creating[b].id \in Ids
        BY DEF IInv, TypeOK
    <2>3. \A e \in DOMAIN entries' : entries'[e].id = creating[b].id => entries'[e].by # b
        BY <1>4 DEF IInv, CreatesFit
    <2>4. creating[b].id \notin contested => creating[b].id # id
        BY <1>1 DEF IInv, CreatesFit
    <2> QED
        BY <1>4, <2>1, <2>2, <2>3, <2>4 DEF IInv, CreatesFit
<1>7. LoadingFits' /\ SaneRetries'
    BY <1>1, <1>3 DEF IInv, LoadingFits, SaneRetries
<1> QED
    BY <1>4, <1>5, <1>6, <1>7 DEF IInv

LEMMA SetJobEnabledKeeps ==
    ASSUME IInv, NEW c \in Clients, NEW id \in Ids, NEW b \in BOOLEAN, SetJobEnabled(c, id, b)
    PROVE  IInv'
<1>1. /\ cron # "new" /\ jobs[id] # NoJob /\ served < MaxRequests /\ served' = served + 1
      /\ jobs' = [jobs EXCEPT ![id].enabled = b]
      /\ UNCHANGED <<loaded, cron, entries, creating, triggers, contested, submitted>>
    BY DEF SetJobEnabled, Takes
<1>2. jobs[id] \in JobRecords
    BY <1>1 DEF IInv, TypeOK
<1>3. /\ jobs'[id] \in JobRecords
      /\ jobs'[id].cron = jobs[id].cron /\ jobs'[id].retry = jobs[id].retry
    BY <1>1, <1>2 DEF IInv, TypeOK, JobRecords
<1>4. jobs' \in [Ids -> JobRecords \cup {NoJob}] /\ \A i \in Ids : i # id => jobs'[i] = jobs[i]
    BY <1>1, <1>3 DEF IInv, TypeOK
<1>5. TypeOK'
    BY <1>1, <1>4, SchedulerAssumption DEF IInv, TypeOK
<1>6. \A i \in Ids : /\ jobs[i] # NoJob =>
                          /\ jobs'[i] # NoJob
                          /\ jobs'[i].cron = jobs[i].cron /\ jobs'[i].retry = jobs[i].retry
                     /\ jobs[i] = NoJob => jobs'[i] = NoJob
    BY <1>1, <1>3, <1>4, SchedulerAssumption
<1>7. EntriesAreCurrent'
    <2>1. \A e \in DOMAIN entries : entries[e].id \in Ids
        BY ItemsFit DEF IInv
    <2> QED
        BY <1>1, <1>6, <2>1 DEF IInv, EntriesAreCurrent, Shown
<1>8. FiringsAreCurrent'
    <2>1. \A t \in DOMAIN triggers : triggers[t].id \in Ids
        BY ItemsFit DEF IInv, Triggers
    <2> QED
        BY <1>1, <1>6, <2>1 DEF IInv, FiringsAreCurrent
<1>9. CreatesFit'
    <2>1. \A d \in Clients : creating[d] # NoCreate => creating[d].id \in Ids
        BY DEF IInv, TypeOK
    <2> QED
        BY <1>1, <1>6, <2>1 DEF IInv, CreatesFit
<1> QED
    BY <1>1, <1>5, <1>7, <1>8, <1>9 DEF IInv, OneEntryPerJob, LoadingFits, SaneRetries

\* A goroutine of executeJob more, which runs what the map shows if cron began it.
LEMMA BeginKeeps ==
    ASSUME IInv, NEW id \in Ids, NEW job \in JobRecords, NEW source \in {"cron", "api"},
           Begin(id, job, source), source = "cron" =>
               jobs[id] # NoJob /\ (id \notin contested => Shown(id, job)),
           served' \in 0..MaxRequests, cron # "new",
           UNCHANGED <<loaded, cron, jobs, entries, creating, contested, submitted>>
    PROVE  IInv'
<1> DEFINE new == [id |-> id, job |-> job, source |-> source]
<1>1. triggers' = Append(triggers, new) /\ new \in Triggers
    BY DEF Begin, Triggers
<1>2. triggers' \in Seq(Triggers) /\ Len(triggers') = Len(triggers) + 1
    BY <1>1, AppendProperties DEF IInv, TypeOK
<1>3. \A t \in DOMAIN triggers' :
          \/ t \in DOMAIN triggers /\ triggers'[t] = triggers[t]
          \/ triggers'[t] = new
    BY <1>1, AppendProperties DEF IInv, TypeOK
<1>4. TypeOK'
    <2>1. Len(triggers') + Len(submitted') <= MaxTriggers
        BY <1>2, SchedulerAssumption DEF Begin, IInv, TypeOK
    <2> QED
        BY <1>2, <2>1 DEF IInv, TypeOK
<1>5. FiringsAreCurrent'
    BY <1>3 DEF IInv, FiringsAreCurrent, Shown
<1> QED
    BY <1>4, <1>5
    DEF IInv, EntriesAreCurrent, Shown, OneEntryPerJob, LoadingFits, CreatesFit, SaneRetries

LEMMA SubmitKeeps == ASSUME IInv, NEW t \in DOMAIN triggers, Submit(t) PROVE IInv'
<1> DEFINE new == WorkerJob(triggers[t])
<1>1. /\ submitted' = Append(submitted, new)
      /\ triggers' = [i \in 1..(Len(triggers) - 1) |->
                          IF i < t THEN triggers[i] ELSE triggers[i + 1]]
      /\ UNCHANGED <<loaded, cron, jobs, entries, creating, contested, served>>
    BY DEF Submit
<1>2. triggers[t] \in Triggers /\ t \in 1..Len(triggers) /\ Len(triggers) \in Nat
    BY ItemsFit DEF IInv
<1>3. new \in WorkerJobs /\ \A f \in RetryFields : new.retry[f] > 0
    <2>1. triggers[t].job.retry \in Retries
        BY <1>2 DEF Triggers, JobRecords
    <2>2. Sanitized(triggers[t].job.retry) \in Retries
        BY <2>1, SanitizedIsPositive
    <2> QED
        BY <1>2, <2>1, <2>2, SanitizedIsPositive DEF WorkerJob, WorkerJobs, Triggers
<1>4. submitted' \in Seq(WorkerJobs) /\ Len(submitted') = Len(submitted) + 1
    BY <1>1, <1>3, AppendProperties DEF IInv, TypeOK
<1>5. \A s \in DOMAIN submitted' :
          \/ s \in DOMAIN submitted /\ submitted'[s] = submitted[s]
          \/ submitted'[s] = new
    BY <1>1, AppendProperties DEF IInv, TypeOK
<1>6. \A i \in 1..(Len(triggers) - 1) :
          \E n \in DOMAIN triggers : triggers'[i] = triggers[n]
    BY <1>1, <1>2, ItemsFit DEF IInv
<1>7. triggers' \in Seq(Triggers) /\ Len(triggers') = Len(triggers) - 1
    <2>1. \A i \in 1..(Len(triggers) - 1) : triggers'[i] \in Triggers
        BY <1>6 DEF IInv, TypeOK
    <2>2. triggers' \in [1..(Len(triggers) - 1) -> Triggers]
        BY <1>1, <2>1
    <2> QED
        BY <1>2, <2>2
<1>8. TypeOK'
    <2>1. Len(triggers') + Len(submitted') <= MaxTriggers
        BY <1>4, <1>7, SchedulerAssumption DEF IInv, TypeOK
    <2> QED
        BY <1>1, <1>4, <1>7, <2>1 DEF IInv, TypeOK
<1>9. FiringsAreCurrent'
    BY <1>1, <1>6, <1>7 DEF IInv, FiringsAreCurrent
<1>10. SaneRetries'
    BY <1>3, <1>5 DEF IInv, SaneRetries
<1> QED
    BY <1>1, <1>8, <1>9, <1>10
    DEF IInv, EntriesAreCurrent, Shown, OneEntryPerJob, LoadingFits, CreatesFit

-----------------------------------------------------------------------------
LEMMA StepKeeps == IInv /\ [Next]_vars => IInv'
<1> SUFFICES ASSUME IInv, [Next]_vars PROVE IInv'
    OBVIOUS
<1>1. ASSUME Start \/ Stop PROVE IInv'
    <2>1. /\ cron' \in {"running", "stopped"}
          /\ UNCHANGED <<loaded, jobs, entries, creating, triggers, contested, submitted, served>>
        BY <1>1 DEF Start, Stop
    <2>2. TypeOK'
        BY <2>1 DEF IInv, TypeOK
    <2>3. EntriesAreCurrent' /\ OneEntryPerJob' /\ FiringsAreCurrent'
        BY <2>1 DEF IInv, EntriesAreCurrent, Shown, OneEntryPerJob, FiringsAreCurrent
    <2>4. LoadingFits' /\ CreatesFit' /\ SaneRetries'
        BY <2>1 DEF IInv, LoadingFits, CreatesFit, SaneRetries
    <2> QED
        BY <2>2, <2>3, <2>4 DEF IInv
<1>2. ASSUME NEW c \in Clients, NEW id \in Ids, RunNow(c, id) PROVE IInv'
    <2>1. jobs[id] \in JobRecords
        BY <1>2 DEF RunNow, IInv, TypeOK
    <2>2. cron # "new" /\ served' \in 0..MaxRequests
        BY <1>2, SchedulerAssumption DEF RunNow, Takes, IInv, TypeOK
    <2> QED
        BY <1>2, <2>1, <2>2, BeginKeeps DEF RunNow
<1>3. ASSUME NEW e \in DOMAIN entries, CronFire(e) PROVE IInv'
    <2>1. entries[e].id \in Ids /\ entries[e].job \in JobRecords
        BY <1>3, ItemsFit DEF IInv
    <2>2. /\ jobs[entries[e].id] # NoJob
          /\ entries[e].id \notin contested => Shown(entries[e].id, entries[e].job)
        BY <1>3 DEF IInv, EntriesAreCurrent
    <2>3. cron # "new" /\ served' \in 0..MaxRequests
        BY <1>3 DEF CronFire, IInv, TypeOK
    <2> QED
        BY <1>3, <2>1, <2>2, <2>3, BeginKeeps DEF CronFire
<1>4. ASSUME NEW c \in Clients, RequestStep(c) PROVE IInv'
    BY <1>2, <1>4, CreateCheckKeeps, SetJobEnabledKeeps DEF RequestStep
<1>5. CASE UNCHANGED vars
    BY <1>5 DEF IInv, vars, TypeOK, EntriesAreCurrent, Shown, OneEntryPerJob, LoadingFits,
       CreatesFit, FiringsAreCurrent, SaneRetries
<1> QED
    BY <1>1, <1>3, <1>4, <1>5, LoadJobKeeps, CreateAddKeeps, SubmitKeeps DEF Next, SubmitStep

LEMMA Invariance == Spec => []IInv
BY InitIInv, StepKeeps, PTL DEF Spec

\* The map, the entries and the jobs handed to the pool fit together, however many
\* requests overlap: each create adds one cron entry at most (AddJob, which has no
\* way to remove one), an id that nobody raced for has one, and the retry numbers
\* handed over are usable whatever was configured.
THEOREM SchedulesAreConsistent == Spec => []ScheduleIsConsistent
<1>1. IInv => ScheduleIsConsistent
    BY DEF IInv, ScheduleIsConsistent
<1> QED
    BY <1>1, Invariance, PTL

\* What cron runs by value is in the map, and without a race for its id it is what
\* the map shows, but for the enabled flag.
THEOREM FiringsStayCurrent == Spec => []FiringsAreCurrent
<1>1. IInv => FiringsAreCurrent
    BY DEF IInv
<1> QED
    BY <1>1, Invariance, PTL

-----------------------------------------------------------------------------
\* What a step may do to the schedule of an id.
ScheduleStep(id) ==
    IF jobs[id] = NoJob
    THEN jobs'[id] # NoJob =>
             (Scheduled(id)' <=> jobs'[id].enabled /\ jobs'[id].cron = "accepted")
    ELSE /\ Scheduled(id) => Scheduled(id)'
         /\ Scheduled(id)' => Scheduled(id) \/ id \in contested'

\* An AddJob gives its id an entry exactly if it is enabled and its expression is
\* accepted, and touches the entry of no other id.
LEMMA AddJobSchedules ==
    ASSUME IInv, NEW i \in Ids, NEW cfg \in JobConfigs, NEW by, AddJob(i, cfg, by),
           by \in Clients \cup (1..Len(FileJobs)),
           i \notin contested' => jobs[i] = NoJob, NEW id \in Ids
    PROVE  ScheduleStep(id)
<1> DEFINE new == [id |-> i, job |-> cfg, by |-> by]
<1>1. TypeOK /\ EntriesAreCurrent
    BY DEF IInv
<1>2. jobs'[i] = cfg /\ \A j \in Ids : j # i => jobs'[j] = jobs[j]
    BY <1>1 DEF AddJob, Added, TypeOK
<1>3. \A j \in Ids : jobs[j] = NoJob => ~Scheduled(j)
    BY <1>1 DEF Scheduled, EntriesAreCurrent
<1>4. CASE Schedulable(cfg)
    <2>1. entries' = Append(entries, new) /\ new \in Entries
        BY <1>4 DEF AddJob, JobConfigs, Entries
    <2>2. DOMAIN entries' = DOMAIN entries \cup {Len(entries) + 1}
        BY <1>1, <2>1, AppendProperties DEF TypeOK
    <2>3. /\ \A e \in DOMAIN entries : entries'[e] = entries[e]
          /\ entries'[Len(entries) + 1] = new
        BY <1>1, <2>1, ItemsFit, AppendProperties DEF TypeOK
    <2>4. Scheduled(id)' <=> Scheduled(id) \/ id = i
        <3>1. new.id = i
            OBVIOUS
        <3> QED
            BY <2>2, <2>3, <3>1 DEF Scheduled
    <2> QED
        BY <1>2, <1>3, <1>4, <2>4 DEF Schedulable, ScheduleStep
<1>5. CASE ~Schedulable(cfg)
    <2>1. Scheduled(id)' <=> Scheduled(id)
        BY <1>5 DEF AddJob, Scheduled
    <2> QED
        BY <1>2, <1>3, <1>5, <2>1 DEF Schedulable, ScheduleStep
<1> QED
    BY <1>4, <1>5

\* A job gets its cron entry when it enters the map or never, races for its id
\* aside: neither switching it off and on nor deleting or running it changes what
\* cron holds.
THEOREM ScheduledOnce == Spec => ScheduledWhenFirstAdded
<1>1. ASSUME IInv, [Next]_vars, NEW id \in Ids PROVE ScheduleStep(id)
    <2>1. CASE LoadJob
        BY <1>1, <2>1, LoadedFits, AddJobSchedules
    <2>2. ASSUME NEW c \in Clients, CreateAdd(c) PROVE ScheduleStep(id)
        <3>1. /\ AddJob(creating[c].id, creating[c].cfg, c)
              /\ creating[c].id \in Ids /\ creating[c].cfg \in JobConfigs
              /\ creating[c].id \notin contested' => jobs[creating[c].id] = NoJob
            BY <1>1, <2>2 DEF CreateAdd, IInv, CreatesFit, TypeOK
        <3> QED
            BY <1>1, <3>1, AddJobSchedules
    <2>3. ASSUME NEW c \in Clients, NEW i \in Ids, NEW b \in BOOLEAN, SetJobEnabled(c, i, b)
          PROVE  ScheduleStep(id)
        <3>1. jobs[id] = NoJob => jobs'[id] = NoJob
            BY <1>1, <2>3 DEF SetJobEnabled, IInv, TypeOK
        <3> QED
            BY <2>3, <3>1 DEF SetJobEnabled, Scheduled, ScheduleStep
    <2>4. CASE UNCHANGED <<jobs, entries>>
        BY <2>4 DEF Scheduled, ScheduleStep
    <2> QED
        BY <1>1, <2>1, <2>2, <2>3, <2>4
        DEF Next, RequestStep, SubmitStep, Start, Stop, CreateCheck, RunNow, CronFire, Submit, vars
<1>2. IInv /\ [Next]_vars => [\A id \in Ids : ScheduleStep(id)]_vars
    BY <1>1
<1> QED
    BY <1>2, Invariance, PTL DEF Spec, ScheduledWhenFirstAdded, ScheduleStep
=============================================================================
