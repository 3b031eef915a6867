---------------------------- MODULE CalendarSync ----------------------------
(***************************************************************************)
(* The two jobs that copy a provider's calendar into SQLite:               *)
(* earnings_sync (internal/jobs/stocks), which goes through the days from  *)
(* today on, and economic_sync (internal/jobs/calendar), for today only.   *)
(*                                                                         *)
(* Each fetches a day, asks which of its rows are there, and upserts in    *)
(* one transaction.  earnings_sync upserts the rows that were not there,   *)
(* and a day that fails is logged and passed over; economic_sync upserts   *)
(* all of them, and fails with its day.  Other runs, and other jobs, come  *)
(* in between these steps.  A refused row is logged and passed over.       *)
(*                                                                         *)
(* What the provider publishes is external: it is edited again and again,  *)
(* and a row is the edition that it was fetched from; it is taken to answer*)
(* for the day that it is asked for.  A transaction is one step: it holds  *)
(* the only connection from its beginning to its end.                      *)
(***************************************************************************)
EXTENDS Integers, FiniteSets

CONSTANTS
    EarningsJobs, EconomicJobs, \* their runs
    Symbols, Events, \* what the rows of a day are about
    LookForward,     \* lookForwardDays
    MaxEdition       \* bound: how often the provider edits what it publishes

ASSUME SyncAssumption ==
    /\ EarningsJobs \cap EconomicJobs = {}
    /\ LookForward \in Nat /\ MaxEdition \in Nat \ {0}

Jobs == EarningsJobs \cup EconomicJobs
Days == 0 .. LookForward
Keys(p) == IF p \in EarningsJobs THEN Symbols ELSE Events

VARIABLES
    edition,  \* what the provider publishes now
    earnings, \* stocks_earnings: the edition of the row of a day and a symbol, 0 without
    economic, \* calendar_economic, for today
    pc,
    day,      \* the day a run is at
    got,      \* economic_sync, and earnings_sync for its day: the provider's answer
    absent,   \* the keys of it that had no row when the run looked
    due,      \* (history) the rows it fetched, refused ones and failed days apart
    tried,    \* the days it is through with
    outcome,
    overlapped \* two runs of a job have been under way at once
local == <<pc, day, got, absent, due, tried, outcome>>
vars  == <<edition, earnings, economic, local, overlapped>>

NoAnswer == [keys |-> {}, edition |-> 0]

Init ==
    /\ edition = 1
    /\ earnings = [d \in Days |-> [s \in Symbols |-> 0]]
    /\ economic = [e \in Events |-> 0]
    /\ pc = [p \in Jobs |-> "idle"]
    /\ day = [p \in Jobs |-> 0]
    /\ got = [p \in Jobs |-> NoAnswer]
    /\ absent = [p \in Jobs |-> {}]
    /\ due = [p \in Jobs |-> {}]
    /\ tried = [p \in Jobs |-> {}]
    /\ outcome = [p \in Jobs |-> "none"]
    /\ overlapped = FALSE

Publish ==
    /\ edition < MaxEdition
    /\ edition' = edition + 1
    /\ UNCHANGED <<earnings, economic, local, overlapped>>

Goto(p, there) == pc' = [pc EXCEPT ![p] = there]
Ends(p, o) ==
    /\ Goto(p, "done")
    /\ outcome' = [outcome EXCEPT ![p] = o]

RowOfToday(p, k) ==  \* mutant: the query is for today, whatever the day
    IF p \in EarningsJobs THEN earnings[0][k] ELSE economic[k]
Row(p, k) == IF p \in EarningsJobs THEN earnings[day[p]][k] ELSE economic[k]
Likes(p) == IF p \in EarningsJobs THEN EarningsJobs ELSE EconomicJobs
UnderWay == {q \in Jobs : pc[q] \notin {"idle", "done"}}

Begin(p) ==
    /\ pc[p] = "idle"
    /\ Goto(p, "fetch")
    /\ overlapped' = (overlapped \/ UnderWay \cap Likes(p) # {})
    /\ UNCHANGED <<edition, earnings, economic, day, got, absent, due, tried, outcome>>

\* No provider is configured: HandlerWithDeps made a handler that only fails.
BeginFails(p) ==
    /\ pc[p] = "idle"
    /\ Ends(p, "error")
    /\ UNCHANGED <<edition, earnings, economic, day, got, absent, due, tried, overlapped>>

\* The loop over the days; the economic calendar has one.
NextDay(p) ==
    /\ tried' = [tried EXCEPT ![p] = @ \cup {day[p]}]
    /\ IF p \in EarningsJobs /\ day[p] < LookForward
       THEN day' = [day EXCEPT ![p] = @ + 1] /\ Goto(p, "fetch") /\ UNCHANGED outcome
       ELSE Ends(p, "ok") /\ UNCHANGED day

\* The variables of syncEarningsForDate end with it.
DayOver(p) == got' = [got EXCEPT ![p] = IF p \in EarningsJobs THEN NoAnswer ELSE @]

DayFailsAgain(p) ==  \* mutant: the day is fetched again until it succeeds
    IF p \in EarningsJobs THEN Goto(p, "fetch") /\ UNCHANGED <<day, tried, outcome>>
    ELSE Ends(p, "error") /\ UNCHANGED <<day, tried>>
DayFails(p) ==
    IF p \in EarningsJobs THEN NextDay(p)
    ELSE Ends(p, "error") /\ UNCHANGED <<day, tried>>

RowsOf(p, ks) == {<<day[p], k>> : k \in ks}

Fetch(p) ==
    /\ pc[p] = "fetch"
    /\ \E ks \in SUBSET Keys(p) :
          /\ due' = [due EXCEPT ![p] = @ \cup RowsOf(p, ks)]
          /\ IF ks = {} THEN NextDay(p) /\ UNCHANGED got
             ELSE /\ got' = [got EXCEPT ![p] = [keys |-> ks, edition |-> edition]]
                  /\ Goto(p, "compare")
                  /\ UNCHANGED <<day, tried, outcome>>
    /\ UNCHANGED <<edition, earnings, economic, absent, overlapped>>

\* GetByDateAndSymbols, GetByDate.
Compare(p) ==
    /\ pc[p] = "compare"
    /\ absent' = [absent EXCEPT ![p] = {k \in got[p].keys : Row(p, k) = 0}]
    /\ IF p \in EarningsJobs /\ absent'[p] = {} THEN NextDay(p) /\ DayOver(p)
       ELSE Goto(p, "upsert") /\ UNCHANGED <<day, tried, outcome, got>>
    /\ UNCHANGED <<edition, earnings, economic, due, overlapped>>

ToWriteExisting(p) ==  \* mutant: the filter of earnings_sync is turned round
    IF p \in EarningsJobs THEN got[p].keys \ absent[p] ELSE got[p].keys
ToWrite(p) == IF p \in EarningsJobs THEN absent[p] ELSE got[p].keys

\* INSERT ... ON CONFLICT DO UPDATE of one row.
NewRow(p, old) == got[p].edition
Written(p, table, K) == [k \in DOMAIN table |-> IF k \in K THEN NewRow(p, table[k]) ELSE table[k]]

\* UpsertBatch; when every row is refused it is an error.
Upsert(p) ==
    /\ pc[p] = "upsert"
    /\ \E bad \in SUBSET ToWrite(p) :
          LET K == ToWrite(p) \ bad IN
          /\ IF p \in EarningsJobs
             THEN /\ earnings' = [earnings EXCEPT ![day[p]] = Written(p, @, K)]
                  /\ UNCHANGED economic
             ELSE /\ economic' = Written(p, economic, K)
                  /\ UNCHANGED earnings
          /\ due' = [due EXCEPT ![p] = @ \ RowsOf(p, bad)]
          /\ IF K = {} THEN DayFails(p) ELSE NextDay(p)
    /\ absent' = [absent EXCEPT ![p] = {}] /\ DayOver(p)
    /\ UNCHANGED <<edition, overlapped>>

\* The provider, the query, the transaction or its commit fails.
Error(p) ==
    /\ pc[p] \in {"fetch", "compare", "upsert"}
    /\ DayFails(p) /\ DayOver(p)
    /\ absent' = [absent EXCEPT ![p] = {}]
    /\ due' = [due EXCEPT ![p] = @ \ RowsOf(p, Keys(p))]
    /\ UNCHANGED <<edition, earnings, economic, overlapped>>

Step(p) == Fetch(p) \/ Compare(p) \/ Upsert(p)
Next == Publish \/ \E p \in Jobs : Begin(p) \/ BeginFails(p) \/ Step(p) \/ Error(p)

\* A call of the provider or the database ends, well or badly.
Fairness == \A p \in Jobs : WF_vars(Step(p) \/ Error(p))

Spec == Init /\ [][Next]_vars /\ Fairness
-----------------------------------------------------------------------------
(* Properties.                                                             *)

Editions == 0 .. MaxEdition
Answers == [keys : SUBSET (Symbols \cup Events), edition : Editions]

\* Types of the variables.
TypeOK ==
    /\ edition \in Editions
    /\ earnings \in [Days -> [Symbols -> Editions]]
    /\ economic \in [Events -> Editions]
    /\ pc \in [Jobs -> {"idle", "fetch", "compare", "upsert", "done"}]
    /\ day \in [Jobs -> Days]
    /\ got \in [Jobs -> Answers]
    /\ absent \in [Jobs -> SUBSET (Symbols \cup Events)]
    /\ \A p \in Jobs : absent[p] \subseteq Keys(p)
    /\ due \in [Jobs -> SUBSET (Days \X (Symbols \cup Events))]
    /\ tried \in [Jobs -> SUBSET Days]
    /\ outcome \in [Jobs -> {"none", "ok", "error"}]
    /\ overlapped \in BOOLEAN

\* A day that fails does not cost the others: a run of earnings_sync that has
\* ended was through with every day of its window, and succeeds.
EveryDayIsTried ==
    \A p \in EarningsJobs : tried[p] # {} /\ pc[p] = "done"
        => tried[p] = Days /\ outcome[p] = "ok"

\* While runs come one after the other, a row of stocks_earnings is never
\* written again (rows that exist are skipped) and one of calendar_economic only
\* by a later edition.  Two runs at once can undo this: what was not there when
\* one looked may be there when it writes, and newer than what it fetched.
RowsDoNotGoBack ==
    [][~overlapped =>
          /\ \A d \in Days, s \in Symbols :
                earnings[d][s] # 0 => earnings'[d][s] = earnings[d][s]
          /\ \A e \in Events : economic[e] <= economic'[e]]_vars

\* Every row that a run has fetched is stored, but for the rows that the
\* database refused and those of a day that failed.  earnings_sync: from the
\* day's end on there is a row, the fetched one or, skipped, one that was there
\* before, also when runs overlap.  economic_sync: a success has brought the
\* table up to what was fetched, unless another run was under way.
SyncedIsStored ==
    /\ \A p \in EarningsJobs : \A row \in due[p] :
           row[1] \in tried[p] => earnings[row[1]][row[2]] # 0
    /\ \A p \in EconomicJobs : outcome[p] = "ok" /\ ~overlapped =>
           \A row \in due[p] : economic[row[2]] >= got[p].edition

\* A run that ends has been through its window, and what it fetched and counts
\* as upserted or skipped is in the table.
SyncIsComplete == TypeOK /\ EveryDayIsTried /\ SyncedIsStored

\* A run that has begun ends, whatever the provider and the database answer.
SyncEnds == \A p \in Jobs : pc[p] # "idle" ~> pc[p] = "done"
=============================================================================
