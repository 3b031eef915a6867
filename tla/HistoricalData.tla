--------------------------- MODULE HistoricalData ---------------------------
(***************************************************************************)
(* Bars from the IB gateway into QuestDB: the historical_data job          *)
(* (internal/jobs/historical) and DownloadHistoricalData, which fetches and*)
(* stores one page (internal/handlers/marketdata.go; exported, but for now *)
(* no route calls it), both over the one LineSender of                     *)
(* internal/database/questdb.go.                                           *)
(*                                                                         *)
(* The job goes backwards: it asks for the newest page, then for the page  *)
(* before its oldest bar, until a page reaches the start of the period.    *)
(* What the gateway answers is external: the newest PageLen bars of the    *)
(* period that ends at startTime, with or without a bar at startTime.      *)
(* The LineSender is not safe for concurrent use and nothing locks it: a   *)
(* row begun while another is being built is an error or a mixed row.      *)
(* An upsert's errors are counted in a result that the job does not read.  *)
(* Time is in minutes.  Prices, volumes and the order of bars are left out.*)
(***************************************************************************)
EXTENDS Integers, FiniteSets, FiniteSetsExt

CONSTANTS
    Jobs,        \* runs of the historical_data job
    Fetches,     \* calls of DownloadHistoricalData
    Instruments, \* the rows of table instruments
    Series,      \* the bars the gateway has of each instrument: their times
    Now,
    JobPeriods,  \* the periods that jobs are configured with
    FetchPeriods, \* and those that a download is asked for
    PageLen,     \* the bars of a page
    MaxPages,    \* maxPages
    BatchLen,    \* upsertBatchSize
    Nothing

Procs == Jobs \cup Fetches
Times == UNION {Series[i] : i \in Instruments}
Rows == Instruments \X Times

\* parsePeriodToDuration: the largest value of each unit, and its minutes.
Largest == [min |-> 30, h |-> 8, d |-> 1000, w |-> 792, m |-> 182, y |-> 15]
Minutes == [min |-> 1, h |-> 60, d |-> 1440, w |-> 10080, m |-> 43200, y |-> 525600]

ValidPeriod(d) == d.unit \in DOMAIN Largest /\ d.value \in 1 .. Largest[d.unit]
Duration(d) == d.value * Minutes[d.unit]

ASSUME HistoricalAssumption ==
    /\ Jobs \cap Fetches = {}
    /\ Now \in Nat
    /\ Series \in [Instruments -> SUBSET (0 .. Now)]
    /\ \A d \in FetchPeriods : ValidPeriod(d)
    /\ PageLen \in Nat \ {0} /\ MaxPages \in Nat \ {0} /\ BatchLen \in Nat \ {0}

VARIABLES
    inclusive, \* the gateway's page has the bar at startTime
    pc,
    period,    \* what it was asked for
    wanted,    \* the instruments to come
    current,   \* the instrument at hand
    start,     \* startTime of the next page
    page,      \* pageCount
    bars,      \* the bars it has of each instrument: how often, at most Many
    unsent,    \* those of the instrument at hand that are not in the sender yet
    batch,     \* the rows of the batch so far
    counted,   \* the instruments reported as upserted
    failed,    \* failedSymbols
    cut,       \* the instruments whose paging ended at MaxPages
    building,  \* LineSender: who is in the middle of a row
    mixed,     \* two were, since it was last empty
    buffer,    \* its rows
    table,     \* ohlcv_bars
    trouble    \* what has gone wrong with the sender so far
paging == <<start, page, bars, cut>>
sender == <<building, mixed, buffer, table, trouble>>
report == <<counted, failed>>
vars == <<inclusive, pc, period, wanted, current, paging, unsent, batch, report, sender>>

Many == 2  \* bound: as often as this or more

NoBars == [t \in Times |-> 0]
NoRows == [r \in Rows |-> 0]
Atmost(n) == IF n > Many THEN Many ELSE n
Plus(b, S) == [x \in DOMAIN b |-> IF x \in S THEN Atmost(b[x] + 1) ELSE b[x]]
Total(b, c) == [x \in DOMAIN b |-> Atmost(b[x] + c[x])]
Held(b) == {x \in DOMAIN b : b[x] > 0}

Init ==
    /\ inclusive \in BOOLEAN
    /\ pc = [p \in Procs |-> "idle"]
    /\ period = [p \in Procs |-> Nothing]
    /\ wanted = [p \in Procs |-> {}]
    /\ current = [p \in Procs |-> Nothing]
    /\ start = [p \in Procs |-> Now]
    /\ page = [p \in Procs |-> 0]
    /\ bars = [p \in Procs |-> [i \in Instruments |-> NoBars]]
    /\ unsent = [p \in Procs |-> NoBars]
    /\ batch = [p \in Procs |-> 0]
    /\ counted = [p \in Procs |-> {}] /\ failed = [p \in Procs |-> {}]
    /\ cut = [p \in Procs |-> {}]
    /\ building = {} /\ mixed = FALSE
    /\ buffer = NoRows /\ table = NoRows
    /\ trouble = {}

Goto(p, there) == pc' = [pc EXCEPT ![p] = there]
Fails(p) ==
    /\ failed' = [failed EXCEPT ![p] = @ \cup {current[p]}]
    /\ Goto(p, "next")
    /\ UNCHANGED counted

-----------------------------------------------------------------------------
(* The job's parameters and instruments.                                   *)

FromTime(p) == Now - Duration(period[p])

\* Ids that table instruments does not have are not found; none means all.
Selected(ids) == IF ids = {} THEN Instruments ELSE ids \cap Instruments

\* The job's instruments are read; that may fail, and the job with it.
Begin(p) ==
    /\ pc[p] = "idle" /\ p \in Jobs
    /\ \E d \in JobPeriods, ids \in SUBSET Instruments :
          /\ period' = [period EXCEPT ![p] = d]
          /\ wanted' = [wanted EXCEPT ![p] = Selected(ids)]
    /\ Goto(p, "next")
    /\ UNCHANGED <<inclusive, current, paging, unsent, batch, report, sender>>

BeginFails(p) ==
    /\ pc[p] = "idle" /\ p \in Jobs
    /\ Goto(p, "done")
    /\ UNCHANGED <<inclusive, period, wanted, current, paging, unsent, batch, report, sender>>

\* DownloadHistoricalData: one instrument, whose id is looked up by its symbol.
\* The period is the gateway's to judge; that it refuses one is FetchFails.
BeginFetch(p) ==
    /\ pc[p] = "idle" /\ p \in Fetches
    /\ \E d \in FetchPeriods, i \in Instruments :
          /\ period' = [period EXCEPT ![p] = d]
          /\ wanted' = [wanted EXCEPT ![p] = {i}]
    /\ Goto(p, "next")
    /\ UNCHANGED <<inclusive, current, paging, unsent, batch, report, sender>>

\* processInstruments: one after the other; an invalid period fails each.
NextInstrument(p) ==
    /\ pc[p] = "next"
    /\ \E i \in wanted[p] :
          /\ wanted' = [wanted EXCEPT ![p] = @ \ {i}]
          /\ current' = [current EXCEPT ![p] = i]
          /\ IF p \in Fetches \/ ValidPeriod(period[p])
             THEN Goto(p, "page") /\ UNCHANGED failed
             ELSE /\ failed' = [failed EXCEPT ![p] = @ \cup {i}]
                  /\ UNCHANGED pc
    /\ UNCHANGED <<inclusive, period, paging, unsent, batch, counted, sender>>

\* The job succeeds, whatever failed.
Finish(p) ==
    /\ pc[p] = "next" /\ wanted[p] = {}
    /\ Goto(p, "done")
    /\ UNCHANGED <<inclusive, period, wanted, current, paging, unsent, batch, report, sender>>

-----------------------------------------------------------------------------
(* fetchOHLCV.                                                             *)

\* External: the bars of the period that ends at startTime, the newest of them.
Before(p, t) == IF page[p] = 0 THEN t <= Now
                ELSE t < start[p] \/ (inclusive /\ t = start[p])
Window(p) == {t \in Series[current[p]] : Before(p, t) /\ t >= start[p] - Duration(period[p])}
Answer(p) == {t \in Window(p) : Cardinality({u \in Window(p) : u > t}) < PageLen}

NextStartNewest(got) == Max(got)  \* mutant: the page after the newest bar
NextStart(got) == Min(got)

CountPageNever(p) == UNCHANGED page  \* mutant: pageCount is not incremented
CountPage(p) == page' = [page EXCEPT ![p] = @ + 1]

\* filterBarsFromTime.
Filter(p, got) == {t \in got : t >= FromTime(p)}

Reached(got, kept) == kept # got

Collect(p, kept) == bars' = [bars EXCEPT ![p][current[p]] = Plus(@, kept)]

\* The variables of fetchOHLCV end with it.
PagingOver(p) == start' = [start EXCEPT ![p] = Now] /\ page' = [page EXCEPT ![p] = 0]

\* Without bars the instrument is neither counted nor failed.
Collected(p, b) == Goto(p, IF Held(b) = {} THEN "next" ELSE "ensure")

FetchPage(p) ==
    /\ pc[p] = "page" /\ p \in Jobs /\ page[p] < MaxPages
    /\ LET got  == Answer(p)
           kept == Filter(p, got)
       IN  /\ Collect(p, kept)
           /\ IF kept = {} \/ Reached(got, kept)
              THEN Collected(p, bars'[p][current[p]]) /\ PagingOver(p)
              ELSE /\ start' = [start EXCEPT ![p] = NextStart(got)]
                   /\ CountPage(p)
                   /\ UNCHANGED pc
    /\ UNCHANGED <<inclusive, period, wanted, current, cut, unsent, batch, report, sender>>

\* What was collected is kept and nothing is reported but a warning in the log.
PageLimit(p) ==
    /\ pc[p] = "page" /\ p \in Jobs /\ page[p] = MaxPages
    /\ cut' = [cut EXCEPT ![p] = @ \cup {current[p]}]
    /\ Collected(p, bars[p][current[p]]) /\ PagingOver(p)
    /\ UNCHANGED <<inclusive, period, wanted, current, bars, unsent, batch, report, sender>>

\* A request of the gateway fails: the pages before it are lost with it.
FetchFails(p) ==
    /\ pc[p] = "page" /\ (p \in Jobs => page[p] < MaxPages)
    /\ bars' = [bars EXCEPT ![p][current[p]] = NoBars]
    /\ Fails(p) /\ PagingOver(p)
    /\ UNCHANGED <<inclusive, period, wanted, current, cut, unsent, batch, sender>>

\* DownloadHistoricalData: one page, all of it.
FetchOnce(p) ==
    /\ pc[p] = "page" /\ p \in Fetches
    /\ Collect(p, Answer(p))
    /\ Collected(p, bars'[p][current[p]])
    /\ UNCHANGED <<inclusive, period, wanted, current, start, page, cut, unsent, batch,
                   report, sender>>

-----------------------------------------------------------------------------
(* upsertOHLCVBatches and UpsertOHLCVBars.                                 *)

EnsureTable(p) ==
    /\ pc[p] = "ensure"
    /\ unsent' = [unsent EXCEPT ![p] = bars[p][current[p]]]
    /\ Goto(p, "row")
    /\ UNCHANGED <<inclusive, period, wanted, current, paging, batch, report, sender>>

EnsureTableFails(p) ==
    /\ pc[p] = "ensure"
    /\ Fails(p)
    /\ UNCHANGED <<inclusive, period, wanted, current, paging, unsent, batch, sender>>

\* A fetch stores its bars in one upsert, a job in batches.
BatchFull(p) == p \in Jobs /\ batch[p] = BatchLen

Row(p) ==
    /\ pc[p] = "row" /\ Held(unsent[p]) # {} /\ ~BatchFull(p)
    /\ building' = building \cup {p}
    /\ mixed' = (building # {})
    /\ trouble' = IF mixed' THEN trouble \cup {"race"} ELSE trouble
    /\ Goto(p, "at")
    /\ UNCHANGED <<inclusive, period, wanted, current, paging, unsent, batch, report,
                   buffer, table>>

Bar(p) == Min(Held(unsent[p]))

\* Its own timestamp, the symbol of any of the rows being built.
MixedRows(p) == {<<current[q], Bar(p)>> : q \in building}

\* At ends the row.  A row that was mixed is refused or has fields of both.
At(p) ==
    /\ pc[p] = "at"
    /\ building' = building \ {p}
    /\ IF mixed THEN \E R \in {{}} \cup {{r} : r \in MixedRows(p)} : buffer' = Plus(buffer, R)
       ELSE buffer' = Plus(buffer, {<<current[p], Bar(p)>>})
    /\ unsent' = [unsent EXCEPT ![p][Bar(p)] = @ - 1]
    /\ batch' = [batch EXCEPT ![p] = IF p \in Jobs THEN @ + 1 ELSE @]
    /\ Goto(p, "row")
    /\ UNCHANGED <<inclusive, period, wanted, current, paging, report, mixed, table, trouble>>

MayFlushFull(p) == BatchFull(p) \/ Held(unsent[p]) = {}
MayFlush(p) == pc[p] = "row" /\ MayFlushFull(p)

\* The last batch of the instrument: it is counted, whatever the result says.
Flushed(p) ==
    /\ batch' = [batch EXCEPT ![p] = 0]
    /\ IF Held(unsent[p]) # {} THEN UNCHANGED <<report, pc>>
       ELSE /\ counted' = [counted EXCEPT ![p] = @ \cup {current[p]}]
            /\ Goto(p, "next")
            /\ UNCHANGED failed

\* Flush sends the rows of everybody.  (The client also sends by itself after
\* some time: an earlier Flush, left out.)
SendLate(p) ==  \* mutant: Flush only after a full batch
    IF BatchFull(p) THEN table' = Total(table, buffer) /\ buffer' = NoRows
    ELSE UNCHANGED <<table, buffer>>
Send(p) == table' = Total(table, buffer) /\ buffer' = NoRows

Flush(p) ==
    /\ MayFlush(p) /\ building = {}
    /\ Send(p)
    /\ Flushed(p)
    /\ UNCHANGED <<inclusive, period, wanted, current, paging, unsent, building, mixed, trouble>>

\* In the middle of another's row, or by the network: its rows may have arrived
\* or not, and may stay in the buffer or not.
FlushFails(p) ==
    /\ MayFlush(p)
    /\ building = {} => "flush" \notin trouble  \* bound: one failure of the network
    /\ \E arrived, kept \in BOOLEAN :
          /\ building # {} => kept /\ ~arrived
          /\ table' = IF arrived THEN Total(table, buffer) ELSE table
          /\ buffer' = IF kept THEN buffer ELSE NoRows
    /\ trouble' = trouble \cup {"flush"}
    /\ Flushed(p)
    /\ UNCHANGED <<inclusive, period, wanted, current, paging, unsent, building, mixed>>

-----------------------------------------------------------------------------
Step(p) ==
    \/ NextInstrument(p) \/ Finish(p)
    \/ FetchPage(p) \/ PageLimit(p) \/ FetchOnce(p)
    \/ EnsureTable(p) \/ Row(p) \/ At(p) \/ Flush(p)
Error(p) == FetchFails(p) \/ EnsureTableFails(p) \/ FlushFails(p)
Next ==
    \E p \in Procs : Begin(p) \/ BeginFails(p) \/ BeginFetch(p) \/ Step(p) \/ Error(p)

\* Every call of the gateway and of QuestDB ends, by its timeout, well or badly.
Fairness == \A p \in Procs : WF_vars(Step(p))

Spec == Init /\ [][Next]_vars /\ Fairness
-----------------------------------------------------------------------------
(* Properties.                                                             *)

Places == {"idle", "next", "page", "ensure", "row", "at", "done"}
Counts(S) == [S -> 0 .. Many]

\* Types of the variables.
TypeOK ==
    /\ inclusive \in BOOLEAN
    /\ pc \in [Procs -> Places]
    /\ period \in [Procs -> JobPeriods \cup FetchPeriods \cup {Nothing}]
    /\ wanted \in [Procs -> SUBSET Instruments]
    /\ batch \in [Procs -> 0 .. BatchLen]
    /\ current \in [Procs -> Instruments \cup {Nothing}]
    /\ start \in [Procs -> Times \cup {Now}]
    /\ page \in [Procs -> 0 .. MaxPages]
    /\ bars \in [Procs -> [Instruments -> Counts(Times)]]
    /\ unsent \in [Procs -> Counts(Times)]
    /\ counted \in [Procs -> SUBSET Instruments]
    /\ failed \in [Procs -> SUBSET Instruments]
    /\ cut \in [Procs -> SUBSET Instruments]
    /\ building \subseteq Procs /\ mixed \in BOOLEAN
    /\ buffer \in Counts(Rows) /\ table \in Counts(Rows)
    /\ trouble \subseteq {"race", "flush"}

\* The bars of the period that the gateway has.
Due(p, i) == {t \in Series[i] : t >= FromTime(p)}

\* Paging backwards leaves no hole: at any time, and when maxPages ends it too,
\* what a job has of an instrument are the newest bars without exception.
FillIsGapless ==
    \A p \in Jobs, i \in Instruments :
       \A t \in Held(bars[p][i]) : \A u \in Series[i] :
          t >= FromTime(p) /\ (u > t => u \in Held(bars[p][i]))

\* The job succeeds with less than the period it was asked for only when
\* maxPages stopped it: no other end of the paging comes too early.
FillReachesTheStart ==
    \A p \in Jobs : \A i \in counted[p] \ cut[p] : Held(bars[p][i]) = Due(p, i)

\* If a page ends before startTime no bar is collected twice.  (If the gateway
\* includes the bar at startTime every page repeats the last bar of the one before.)
NoBarTwice ==
    ~inclusive => \A p \in Jobs, i \in Instruments, t \in Times : bars[p][i][t] <= 1

\* A job has exactly the bars of its period, each once, but for those that
\* maxPages leaves out at the old end.
FillIsExact == TypeOK /\ FillIsGapless /\ FillReachesTheStart /\ NoBarTwice

\* What is reported as upserted is in QuestDB, and nothing but bars of the
\* gateway is, unless two used the LineSender at once or a Flush failed: the
\* job reports success then too.
CountedBarsAreStored ==
    /\ trouble = {} => \A p \in Procs : \A i \in counted[p] :
                          \A t \in Times : table[<<i, t>>] >= bars[p][i][t]
    /\ "race" \notin trouble => \A r \in Held(table) : r[2] \in Series[r[1]]

\* A run that has begun ends, even if the gateway repeats its last bar for ever
\* (maxPages in fetchOHLCV).
JobsEnd == \A p \in Procs : pc[p] # "idle" ~> pc[p] = "done"
=============================================================================
