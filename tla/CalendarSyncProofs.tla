-------------------------- MODULE CalendarSyncProofs -------------------------
(***************************************************************************)
(* Proofs about the calendar jobs, for every number of runs, of days and   *)
(* of rows: a run that ends well is complete, and rows do not go back      *)
(* while runs of a job come one after the other.                           *)
(*                                                                         *)
(* What a run has read stays true until it writes because nobody else      *)
(* writes that table meanwhile; that is what overlapped says, and why the  *)
(* order of editions is claimed without it only.  That a fetched row has a *)
(* row in stocks_earnings needs less: whoever wrote it, it is never taken  *)
(* away again.                                                             *)
(*                                                                         *)
(* The second part is about the token bucket the jobs wait in before a     *)
(* request, for every capacity, refill rate and set of callers: its type,  *)
(* how long a waiter waits, and the rate it keeps.                         *)
(***************************************************************************)
EXTENDS CalendarSync, TokenBucket, TLAPS

Busy(p) == pc[p] \notin {"idle", "done"}

\* Without an overlap, one run of a job is under way at a time.
OneAtATime ==
    ~overlapped =>
        \A p, q \in Jobs : Busy(p) /\ Busy(q) /\ q \in Likes(p) => p = q

\* A run has been through the days before its own, and an ended one through all.
DaysFit ==
    \A p \in Jobs :
        /\ pc[p] = "idle" => tried[p] = {} /\ day[p] = 0
        /\ Busy(p) => tried[p] = 0 .. day[p] - 1
        /\ outcome[p] = "none" <=> pc[p] # "done"
        /\ p \in EconomicJobs /\ pc[p] \in {"idle", "fetch"} => got[p] = NoAnswer

\* Nothing is newer than what is published, and what a run fetched and found
\* absent is so until it writes.
AnswersFit ==
    /\ \A e \in Events : economic[e] <= edition
    /\ \A p \in Jobs : got[p].keys \subseteq Keys(p) /\ got[p].edition <= edition
    /\ ~overlapped => \A p \in Jobs :
        /\ p \in EconomicJobs /\ pc[p] \in {"compare", "upsert"} =>
            \A e \in Events : economic[e] <= got[p].edition
        /\ p \in EarningsJobs /\ pc[p] = "upsert" =>
            \A s \in absent[p] : earnings[day[p]][s] = 0

IInv == TypeOK /\ EveryDayIsTried /\ OneAtATime /\ DaysFit /\ AnswersFit
Dues == [Jobs -> SUBSET (Days \X (Symbols \cup Events))]

LEMMA InitIInv == Init => IInv
<1> SUFFICES ASSUME Init PROVE IInv
    OBVIOUS
<1>1. TypeOK
    <2>1. overlapped \in BOOLEAN
        BY Zenon DEF Init
    <2> QED
        BY <2>1, SyncAssumption DEF Init, TypeOK, Days, Answers, NoAnswer, Editions
<1>2. OneAtATime /\ DaysFit
    BY SyncAssumption DEF Init, OneAtATime, DaysFit, Busy
<1>3. AnswersFit
    BY DEF Init, AnswersFit, NoAnswer
<1>4. EveryDayIsTried
    BY DEF Init, EveryDayIsTried, Jobs
<1> QED
    BY <1>1, <1>2, <1>3, <1>4 DEF IInv

-----------------------------------------------------------------------------
\* The three ways on for a run.
LEMMA NextDayTypes ==
    ASSUME IInv, NEW p \in Jobs, Busy(p), NextDay(p)
    PROVE  /\ pc' \in [Jobs -> {"idle", "fetch", "compare", "upsert", "done"}]
           /\ day' \in [Jobs -> Days] /\ tried' \in [Jobs -> SUBSET Days]
           /\ outcome' \in [Jobs -> {"none", "ok", "error"}]
           /\ \A q \in Jobs : q # p => /\ pc'[q] = pc[q] /\ day'[q] = day[q]
                                       /\ tried'[q] = tried[q] /\ outcome'[q] = outcome[q]
           /\ tried'[p] = 0 .. day[p]
           /\ \/ /\ p \in EarningsJobs /\ pc'[p] = "fetch" /\ day'[p] = day[p] + 1
                 /\ outcome'[p] = "none"
              \/ /\ pc'[p] = "done" /\ outcome'[p] = "ok" /\ day'[p] = day[p]
                 /\ p \in EarningsJobs => tried'[p] = Days
<1>1. tried[p] = 0 .. day[p] - 1 /\ outcome[p] = "none" /\ day[p] \in 0 .. LookForward
    BY DEF IInv, DaysFit, Busy, TypeOK, Days
<1>2. (0 .. day[p] - 1) \cup {day[p]} = 0 .. day[p]
    BY <1>1, SyncAssumption
<1>3. tried' = [tried EXCEPT ![p] = 0 .. day[p]]
    BY <1>1, <1>2 DEF NextDay
<1>4. 0 .. day[p] \subseteq Days
    BY <1>1, SyncAssumption DEF Days
<1>5. CASE p \in EarningsJobs /\ day[p] < LookForward
    <2>1. day' = [day EXCEPT ![p] = day[p] + 1] /\ pc' = [pc EXCEPT ![p] = "fetch"] /\ UNCHANGED outcome
        BY <1>5 DEF NextDay, Goto
    <2>2. day[p] + 1 \in Days
        BY <1>1, <1>5, SyncAssumption DEF Days
    <2> QED
        BY <1>1, <1>3, <1>4, <1>5, <2>1, <2>2 DEF IInv, TypeOK
<1>6. CASE ~(p \in EarningsJobs /\ day[p] < LookForward)
    <2>1. /\ UNCHANGED day /\ pc' = [pc EXCEPT ![p] = "done"]
          /\ outcome' = [outcome EXCEPT ![p] = "ok"]
        BY <1>6 DEF NextDay, Ends, Goto
    <2>2. p \in EarningsJobs => 0 .. day[p] = Days
        BY <1>1, <1>6, SyncAssumption DEF Days
    <2> QED
        BY <1>1, <1>3, <1>4, <2>1, <2>2 DEF IInv, TypeOK
<1> QED
    BY <1>5, <1>6

\* How a step of a run leaves its place.
Moves(p) ==
    \/ NextDay(p)
    \/ p \in EconomicJobs /\ Ends(p, "error") /\ UNCHANGED <<day, tried>>
    \/ \E there \in {"compare", "upsert"} : Goto(p, there) /\ UNCHANGED <<day, tried, outcome>>

LEMMA MovesKeep ==
    ASSUME IInv, NEW p \in Jobs, Busy(p), Moves(p), UNCHANGED overlapped,
           \A q \in Jobs : q # p => got'[q] = got[q]
    PROVE  /\ pc' \in [Jobs -> {"idle", "fetch", "compare", "upsert", "done"}]
           /\ day' \in [Jobs -> Days] /\ tried' \in [Jobs -> SUBSET Days]
           /\ outcome' \in [Jobs -> {"none", "ok", "error"}]
           /\ OneAtATime' /\ DaysFit' /\ EveryDayIsTried'
<1> USE DEF IInv
<1>0. EarningsJobs \cap EconomicJobs = {} /\ EarningsJobs \subseteq Jobs
    BY SyncAssumption DEF Jobs
<1>1. CASE NextDay(p)
    <2>1. /\ pc' \in [Jobs -> {"idle", "fetch", "compare", "upsert", "done"}]
          /\ day' \in [Jobs -> Days] /\ tried' \in [Jobs -> SUBSET Days]
          /\ outcome' \in [Jobs -> {"none", "ok", "error"}]
        BY <1>1, NextDayTypes
    <2>2. \A q \in Jobs : q # p => /\ pc'[q] = pc[q] /\ day'[q] = day[q]
                                   /\ tried'[q] = tried[q] /\ outcome'[q] = outcome[q]
        BY <1>1, NextDayTypes
    <2>3. tried'[p] = 0 .. day[p] /\ day[p] \in Int
        BY <1>1, NextDayTypes DEF TypeOK, Days
    <2>4. \/ /\ p \in EarningsJobs /\ pc'[p] = "fetch" /\ day'[p] = day[p] + 1
             /\ outcome'[p] = "none"
          \/ /\ pc'[p] = "done" /\ outcome'[p] = "ok" /\ day'[p] = day[p]
             /\ p \in EarningsJobs => tried'[p] = Days
        BY <1>1, NextDayTypes
    <2>5. OneAtATime'
        BY <2>2 DEF OneAtATime, Busy, Likes
    <2>6. DaysFit'
        BY <1>0, <2>2, <2>3, <2>4 DEF DaysFit, Busy
    <2>7. EveryDayIsTried'
        BY <1>0, <2>2, <2>4 DEF EveryDayIsTried
    <2> QED
        BY <2>1, <2>5, <2>6, <2>7
<1>2. CASE p \in EconomicJobs /\ Ends(p, "error") /\ UNCHANGED <<day, tried>>
    <2>1. /\ pc' = [pc EXCEPT ![p] = "done"] /\ outcome' = [outcome EXCEPT ![p] = "error"]
          /\ p \notin EarningsJobs /\ UNCHANGED <<day, tried>>
        BY <1>0, <1>2 DEF Ends, Goto
    <2>2. OneAtATime'
        BY <2>1 DEF OneAtATime, Busy, Likes, TypeOK
    <2>3. DaysFit'
        BY <2>1 DEF DaysFit, Busy, TypeOK
    <2>4. EveryDayIsTried'
        BY <1>0, <2>1 DEF EveryDayIsTried, TypeOK
    <2> QED
        BY <2>1, <2>2, <2>3, <2>4 DEF TypeOK
<1>3. ASSUME NEW there \in {"compare", "upsert"}, Goto(p, there), UNCHANGED <<day, tried, outcome>>
      PROVE  /\ pc' \in [Jobs -> {"idle", "fetch", "compare", "upsert", "done"}]
             /\ OneAtATime' /\ DaysFit' /\ EveryDayIsTried'
    <2>1. pc' = [pc EXCEPT ![p] = there]
        BY <1>3 DEF Goto
    <2>2. OneAtATime'
        BY <2>1 DEF OneAtATime, Busy, Likes, TypeOK
    <2>3. DaysFit'
        BY <1>3, <2>1 DEF DaysFit, Busy, TypeOK
    <2>4. EveryDayIsTried'
        BY <1>0, <1>3, <2>1 DEF EveryDayIsTried, TypeOK
    <2> QED
        BY <2>1, <2>2, <2>3, <2>4 DEF TypeOK
<1> QED
    BY <1>1, <1>2, <1>3 DEF Moves, TypeOK

\* A day that fails moves the run on, or ends it.
LEMMA FailingMoves == ASSUME NEW p \in Jobs, DayFails(p) PROVE Moves(p)
BY DEF DayFails, Moves, Jobs

-----------------------------------------------------------------------------
(* One action after the other.                                             *)

LEMMA PublishKeeps == ASSUME IInv, Publish PROVE IInv'
<1> USE DEF IInv
<1>1. UNCHANGED <<earnings, economic, pc, day, got, absent, due, tried, outcome, overlapped>>
    BY DEF Publish, local
<1>2. edition' \in Editions /\ edition' = edition + 1 /\ edition \in Nat
    BY SyncAssumption DEF Publish, TypeOK, Editions
<1>3. TypeOK'
    BY <1>1, <1>2 DEF TypeOK
<1>4. OneAtATime' /\ DaysFit' /\ EveryDayIsTried'
    BY <1>1 DEF OneAtATime, DaysFit, Busy, EveryDayIsTried
<1>5. AnswersFit'
    <2>1. \A n \in Int : n <= edition => n <= edition'
        BY <1>2
    <2>2. \A e \in Events : economic[e] \in Int
        BY DEF TypeOK, Editions
    <2>3. \A p \in Jobs : got[p].edition \in Int
        BY DEF TypeOK, Answers, Editions
    <2> QED
        BY <1>1, <2>1, <2>2, <2>3 DEF AnswersFit
<1> QED
    BY <1>3, <1>4, <1>5

LEMMA BeginKeeps == ASSUME IInv, NEW p \in Jobs, Begin(p) PROVE IInv'
<1> USE DEF IInv
<1>1. /\ UNCHANGED <<edition, earnings, economic, day, got, absent, due, tried, outcome>>
      /\ pc' = [pc EXCEPT ![p] = "fetch"] /\ pc[p] = "idle"
    BY DEF Begin, Goto
<1>2. overlapped' \in BOOLEAN
    BY Zenon DEF Begin
<1>3. ~overlapped' => ~overlapped /\ \A q \in Jobs : Busy(q) => q \notin Likes(p)
    BY DEF Begin, UnderWay, Busy
<1>4. TypeOK'
    BY <1>1, <1>2 DEF TypeOK
<1>5. OneAtATime'
    BY <1>1, <1>3, SyncAssumption DEF OneAtATime, Busy, Likes, TypeOK, Jobs
<1>6. DaysFit'
    <2>1. tried[p] = {} /\ day[p] = 0 /\ (0 .. day[p] - 1) = {}
        BY <1>1 DEF DaysFit
    <2>2. outcome[p] = "none"
        BY <1>1 DEF DaysFit, TypeOK
    <2> QED
        BY <1>1, <2>1, <2>2 DEF DaysFit, Busy, TypeOK
<1>7. EveryDayIsTried'
    BY <1>1 DEF EveryDayIsTried, TypeOK, Jobs
<1>8. AnswersFit'
    BY <1>1, <1>3 DEF AnswersFit, TypeOK
<1> QED
    BY <1>4, <1>5, <1>6, <1>7, <1>8

LEMMA BeginFailsKeeps == ASSUME IInv, NEW p \in Jobs, BeginFails(p) PROVE IInv'
<1> USE DEF IInv
<1>1. /\ UNCHANGED <<edition, earnings, economic, day, got, absent, due, tried, overlapped>>
      /\ pc' = [pc EXCEPT ![p] = "done"] /\ outcome' = [outcome EXCEPT ![p] = "error"]
      /\ pc[p] = "idle"
    BY DEF BeginFails, Ends, Goto
<1>2. TypeOK'
    BY <1>1 DEF TypeOK
<1>3. OneAtATime' /\ DaysFit' /\ EveryDayIsTried'
    BY <1>1 DEF OneAtATime, DaysFit, EveryDayIsTried, Busy, Likes, TypeOK, Jobs
<1>4. AnswersFit'
    BY <1>1 DEF AnswersFit, TypeOK
<1> QED
    BY <1>2, <1>3, <1>4

\* What a step that writes no table leaves to be shown.
LEMMA ReadingKeeps ==
    ASSUME IInv, NEW p \in Jobs, Busy(p), Moves(p), UNCHANGED <<edition, earnings, economic, overlapped>>,
           \A q \in Jobs : q # p => got'[q] = got[q] /\ absent'[q] = absent[q],
           due' \in Dues, got' \in [Jobs -> Answers],
           absent' \in [Jobs -> SUBSET (Symbols \cup Events)],
           absent'[p] \subseteq Keys(p),
           got'[p].keys \subseteq Keys(p) /\ got'[p].edition <= edition,
           ~overlapped /\ p \in EconomicJobs /\ pc'[p] \in {"compare", "upsert"} =>
               \A e \in Events : economic[e] <= got'[p].edition,
           p \in EarningsJobs /\ pc'[p] = "upsert" =>
               \A s \in absent'[p] : earnings[day[p]][s] = 0
    PROVE  IInv'
<1> USE DEF IInv
<1>1. /\ pc' \in [Jobs -> {"idle", "fetch", "compare", "upsert", "done"}]
      /\ day' \in [Jobs -> Days] /\ tried' \in [Jobs -> SUBSET Days]
      /\ outcome' \in [Jobs -> {"none", "ok", "error"}]
      /\ OneAtATime' /\ DaysFit' /\ EveryDayIsTried'
    BY MovesKeep
<1>2. TypeOK'
    BY <1>1 DEF TypeOK, Keys, Dues
<1>3. /\ \A q \in Jobs : q # p => pc'[q] = pc[q] /\ day'[q] = day[q] /\ outcome'[q] = outcome[q]
      /\ pc'[p] = "upsert" => day'[p] = day[p]
    <2>1. CASE NextDay(p)
        BY <2>1, NextDayTypes
    <2>2. CASE ~NextDay(p)
        BY <2>2 DEF Moves, Ends, Goto, TypeOK
    <2> QED
        BY <2>1, <2>2
<1>4. AnswersFit'
    BY <1>3 DEF AnswersFit, Keys
<1> QED
    BY <1>1, <1>2, <1>4

\* A step of a run puts rows of its day among those that are due, or takes some away.
LEMMA DueTypes ==
    ASSUME IInv, NEW p \in Jobs, NEW ks \in SUBSET (Symbols \cup Events),
           \/ due' = [due EXCEPT ![p] = @ \cup RowsOf(p, ks)]
           \/ due' = [due EXCEPT ![p] = @ \ RowsOf(p, ks)]
    PROVE  due' \in Dues /\ \A q \in Jobs : q # p => due'[q] = due[q]
<1>1. due \in Dues /\ day[p] \in Days
    BY DEF IInv, TypeOK, Dues
<1>2. RowsOf(p, ks) \subseteq Days \X (Symbols \cup Events)
    BY <1>1 DEF RowsOf
<1> QED
    BY <1>1, <1>2 DEF Dues

LEMMA FetchKeeps == ASSUME IInv, NEW p \in Jobs, Fetch(p) PROVE IInv'
<1> USE DEF IInv
<1>1. /\ Busy(p) /\ pc[p] = "fetch"
      /\ UNCHANGED <<edition, earnings, economic, absent, overlapped>>
    BY DEF Fetch, Busy
<1>2. PICK ks \in SUBSET Keys(p) :
          /\ due' = [due EXCEPT ![p] = @ \cup RowsOf(p, ks)]
          /\ IF ks = {} THEN NextDay(p) /\ UNCHANGED got
             ELSE /\ got' = [got EXCEPT ![p] = [keys |-> ks, edition |-> edition]]
                  /\ Goto(p, "compare")
                  /\ UNCHANGED <<day, tried, outcome>>
    BY DEF Fetch
<1>6. due' \in Dues
    <2>1. ks \in SUBSET (Symbols \cup Events)
        BY DEF Keys
    <2> QED
        BY <1>2, <2>1, DueTypes
<1>3. /\ absent'[p] \subseteq Keys(p) /\ edition \in Editions
      /\ absent' \in [Jobs -> SUBSET (Symbols \cup Events)] /\ \A q \in Jobs : absent'[q] = absent[q]
    BY <1>1 DEF TypeOK
<1>4. CASE ks = {}
    <2>1. NextDay(p) /\ UNCHANGED got
        BY <1>2, <1>4
    <2>2. pc'[p] \in {"fetch", "done"}
        BY <1>1, <2>1, NextDayTypes
    <2> QED
        BY <1>1, <1>3, <1>6, <2>1, <2>2, ReadingKeeps DEF Moves, TypeOK, AnswersFit
<1>5. CASE ks # {}
    <2>1. /\ got' = [got EXCEPT ![p] = [keys |-> ks, edition |-> edition]]
          /\ Goto(p, "compare") /\ UNCHANGED <<day, tried, outcome>>
        BY <1>2, <1>5
    <2>2. [keys |-> ks, edition |-> edition] \in Answers
        BY <1>3 DEF Answers, Keys
    <2>3. got' \in [Jobs -> Answers] /\ \A q \in Jobs : q # p => got'[q] = got[q]
        BY <2>1, <2>2 DEF TypeOK
    <2>4. got'[p].keys = ks /\ got'[p].edition = edition /\ edition <= edition
        BY <1>3, <2>1 DEF TypeOK, Editions
    <2>5. pc'[p] = "compare" /\ outcome'[p] = "none"
        BY <1>1, <2>1 DEF Goto, TypeOK, DaysFit
    <2> QED
        BY <1>1, <1>3, <1>6, <2>1, <2>3, <2>4, <2>5, ReadingKeeps DEF Moves, AnswersFit
<1> QED
    BY <1>4, <1>5

\* A run forgets its answer with its day.
LEMMA ForgottenFits ==
    ASSUME IInv, NEW p \in Jobs, DayOver(p)
    PROVE  /\ got' \in [Jobs -> Answers]
           /\ \A q \in Jobs : q # p => got'[q] = got[q]
           /\ p \in EconomicJobs => UNCHANGED got
           /\ got'[p].keys \subseteq Keys(p) /\ got'[p].edition <= edition
<1> USE DEF IInv
<1>1. NoAnswer \in Answers /\ NoAnswer.keys = {} /\ NoAnswer.edition <= edition
    BY SyncAssumption DEF NoAnswer, Answers, Editions, TypeOK
<1>2. got[p].keys \subseteq Keys(p) /\ got[p].edition <= edition
    BY DEF AnswersFit
<1>3. CASE p \in EarningsJobs
    BY <1>1, <1>3, SyncAssumption DEF DayOver, TypeOK
<1>4. CASE p \notin EarningsJobs
    BY <1>2, <1>4 DEF DayOver, TypeOK
<1> QED
    BY <1>3, <1>4

LEMMA CompareKeeps == ASSUME IInv, NEW p \in Jobs, Compare(p) PROVE IInv'
<1> USE DEF IInv
<1>1. /\ Busy(p) /\ pc[p] = "compare"
      /\ UNCHANGED <<edition, earnings, economic, due, overlapped>> /\ due' \in Dues
      /\ absent' = [absent EXCEPT ![p] = {k \in got[p].keys : Row(p, k) = 0}]
    BY DEF Compare, Busy, TypeOK, Dues
<1>2. CASE p \in EarningsJobs /\ absent'[p] = {}
    <2>1. NextDay(p) /\ DayOver(p)
        BY <1>2 DEF Compare
    <2>2. pc'[p] \in {"fetch", "done"}
        BY <1>1, <2>1, NextDayTypes
    <2>3. absent'[p] \subseteq Keys(p) /\ absent' \in [Jobs -> SUBSET (Symbols \cup Events)]
        BY <1>1, <1>2 DEF TypeOK
    <2>4. \A q \in Jobs : q # p => got'[q] = got[q] /\ absent'[q] = absent[q]
        BY <1>1, <2>1, ForgottenFits DEF TypeOK
    <2>5. Moves(p) /\ p \notin EconomicJobs
        BY <1>2, <2>1, SyncAssumption DEF Moves
    <2>6. got' \in [Jobs -> Answers] /\ got'[p].keys \subseteq Keys(p) /\ got'[p].edition <= edition
        BY <2>1, ForgottenFits
    <2> QED
        BY <1>1, <2>2, <2>3, <2>4, <2>5, <2>6, ReadingKeeps
<1>3. CASE ~(p \in EarningsJobs /\ absent'[p] = {})
    <2>1. Goto(p, "upsert") /\ UNCHANGED <<day, tried, outcome, got>>
        BY <1>3 DEF Compare
    <2>2. pc'[p] = "upsert" /\ outcome'[p] = "none"
        BY <1>1, <2>1 DEF Goto, TypeOK, DaysFit
    <2>3. ~overlapped /\ p \in EconomicJobs => \A e \in Events : economic[e] <= got'[p].edition
        BY <1>1, <2>1 DEF AnswersFit
    <2>4. /\ got'[p].keys \subseteq Keys(p) /\ got'[p].edition <= edition
          /\ got' \in [Jobs -> Answers] /\ \A q \in Jobs : q # p => got'[q] = got[q]
        BY <2>1 DEF AnswersFit, TypeOK
    <2>5. /\ absent'[p] \subseteq Keys(p) /\ absent' \in [Jobs -> SUBSET (Symbols \cup Events)]
          /\ \A q \in Jobs : q # p => absent'[q] = absent[q]
        BY <1>1, <2>1, <2>4 DEF TypeOK, Keys
    <2>6. p \in EarningsJobs => \A s \in absent'[p] : earnings[day[p]][s] = 0
        BY <1>1 DEF TypeOK, Row
    <2>7. Moves(p)
        BY <2>1 DEF Moves
    <2> QED
        BY <1>1, <2>2, <2>3, <2>4, <2>5, <2>6, <2>7, ReadingKeeps
<1> QED
    BY <1>2, <1>3

LEMMA ErrorKeeps == ASSUME IInv, NEW p \in Jobs, Error(p) PROVE IInv'
<1> USE DEF IInv
<1>1. /\ Busy(p) /\ DayFails(p) /\ DayOver(p)
      /\ UNCHANGED <<edition, earnings, economic, overlapped>>
      /\ absent' = [absent EXCEPT ![p] = {}]
      /\ due' = [due EXCEPT ![p] = @ \ RowsOf(p, Keys(p))]
    BY DEF Error, Busy
<1>6. due' \in Dues
    <2>1. Keys(p) \in SUBSET (Symbols \cup Events)
        BY DEF Keys
    <2> QED
        BY <1>1, <2>1, DueTypes
<1>2. pc'[p] \in {"fetch", "done"} /\ (p \in EconomicJobs => outcome'[p] = "error")
    <2>1. CASE p \in EarningsJobs
        BY <1>1, <2>1, NextDayTypes, SyncAssumption DEF DayFails
    <2>2. CASE p \notin EarningsJobs
        BY <1>1, <2>2 DEF DayFails, Ends, Goto, TypeOK
    <2> QED
        BY <2>1, <2>2
<1>3. /\ absent'[p] \subseteq Keys(p) /\ absent' \in [Jobs -> SUBSET (Symbols \cup Events)]
      /\ \A q \in Jobs : q # p => absent'[q] = absent[q]
    BY <1>1 DEF TypeOK
<1>4. /\ got' \in [Jobs -> Answers] /\ \A q \in Jobs : q # p => got'[q] = got[q]
      /\ got'[p].keys \subseteq Keys(p) /\ got'[p].edition <= edition
    BY <1>1, ForgottenFits
<1>5. Moves(p)
    BY <1>1, FailingMoves
<1> QED
    BY <1>1, <1>2, <1>3, <1>4, <1>5, <1>6, ReadingKeeps

\* What the transaction of a run writes, and where the run goes.
LEMMA UpsertWrites ==
    ASSUME IInv, NEW p \in Jobs, Upsert(p)
    PROVE  /\ Busy(p) /\ pc[p] = "upsert" /\ Moves(p) /\ DayOver(p)
           /\ UNCHANGED <<edition, overlapped>> /\ absent' = [absent EXCEPT ![p] = {}]
           /\ \/ /\ p \in EarningsJobs /\ UNCHANGED economic /\ NextDay(p)
                 /\ pc'[p] \in {"fetch", "done"}
                 /\ \E bad \in SUBSET absent[p] :
                        /\ earnings' = [earnings EXCEPT ![day[p]] =
                               [k \in Symbols |-> IF k \in absent[p] \ bad THEN got[p].edition
                                                  ELSE earnings[day[p]][k]]]
                        /\ due' = [due EXCEPT ![p] = @ \ RowsOf(p, bad)]
              \/ /\ p \in EconomicJobs /\ UNCHANGED earnings
                 /\ pc'[p] = "done"
                 /\ \E bad \in SUBSET got[p].keys :
                        /\ economic' = [e \in Events |->
                               IF e \in got[p].keys \ bad THEN got[p].edition ELSE economic[e]]
                        /\ due' = [due EXCEPT ![p] = @ \ RowsOf(p, bad)]
                        /\ \/ NextDay(p)
                           \/ /\ bad = got[p].keys
                              /\ Ends(p, "error") /\ UNCHANGED <<day, tried>>
<1> USE DEF IInv
<1>1. /\ Busy(p) /\ pc[p] = "upsert" /\ DayOver(p)
      /\ UNCHANGED <<edition, overlapped>> /\ absent' = [absent EXCEPT ![p] = {}]
    BY DEF Upsert, Busy
<1>2. PICK bad \in SUBSET ToWrite(p) :
          LET new == ToWrite(p) \ bad IN
          /\ IF p \in EarningsJobs
             THEN /\ earnings' = [earnings EXCEPT ![day[p]] = Written(p, @, new)]
                  /\ UNCHANGED economic
             ELSE /\ economic' = Written(p, economic, new)
                  /\ UNCHANGED earnings
          /\ due' = [due EXCEPT ![p] = @ \ RowsOf(p, bad)]
          /\ IF new = {} THEN DayFails(p) ELSE NextDay(p)
    BY DEF Upsert
<1>3. Moves(p)
    BY <1>2, FailingMoves DEF Moves
<1>4. CASE p \in EarningsJobs
    <2>1. NextDay(p)
        BY <1>2, <1>4 DEF DayFails
    <2>2. pc'[p] \in {"fetch", "done"}
        BY <1>1, <2>1, NextDayTypes
    <2>3. DOMAIN earnings[day[p]] = Symbols
        BY DEF TypeOK
    <2>4. ToWrite(p) = absent[p]
        BY <1>4 DEF ToWrite
    <2> QED
        BY <1>1, <1>2, <1>3, <1>4, <2>1, <2>2, <2>3, <2>4 DEF Written, NewRow
<1>5. CASE p \notin EarningsJobs
    <2>1. pc'[p] = "done"
        BY <1>1, <1>2, <1>5, NextDayTypes DEF DayFails, Ends, Goto, TypeOK
    <2>2. DOMAIN economic = Events /\ ToWrite(p) = got[p].keys /\ p \in EconomicJobs
        BY <1>5 DEF TypeOK, ToWrite, Jobs
    <2>3. \/ NextDay(p)
          \/ bad = got[p].keys /\ Ends(p, "error") /\ UNCHANGED <<day, tried>>
        BY <1>2, <1>5, <2>2 DEF DayFails
    <2> QED
        BY <1>1, <1>2, <1>3, <1>5, <2>1, <2>2, <2>3 DEF Written, NewRow
<1> QED
    BY <1>4, <1>5

LEMMA UpsertKeeps == ASSUME IInv, NEW p \in Jobs, Upsert(p) PROVE IInv'
<1> USE DEF IInv
<1>1. /\ Busy(p) /\ Moves(p) /\ UNCHANGED <<edition, overlapped>> /\ DayOver(p)
      /\ absent' = [absent EXCEPT ![p] = {}]
    BY UpsertWrites
<1>2. /\ got' \in [Jobs -> Answers] /\ \A q \in Jobs : q # p => got'[q] = got[q]
      /\ p \in EconomicJobs => UNCHANGED got
      /\ got'[p].keys \subseteq Keys(p) /\ got'[p].edition <= edition
    BY <1>1, ForgottenFits
<1>3. /\ pc' \in [Jobs -> {"idle", "fetch", "compare", "upsert", "done"}]
      /\ day' \in [Jobs -> Days] /\ tried' \in [Jobs -> SUBSET Days]
      /\ outcome' \in [Jobs -> {"none", "ok", "error"}]
      /\ OneAtATime' /\ DaysFit' /\ EveryDayIsTried'
    BY <1>1, <1>2, MovesKeep
<1>4. \A q \in Jobs : q # p => pc'[q] = pc[q] /\ day'[q] = day[q] /\ outcome'[q] = outcome[q]
    <2>1. CASE NextDay(p)
        BY <1>1, <2>1, NextDayTypes
    <2>2. CASE ~NextDay(p)
        BY <1>1, <2>2 DEF Moves, Ends, Goto, TypeOK
    <2> QED
        BY <2>1, <2>2
<1>5. got[p].edition \in Editions /\ got[p].keys \subseteq Keys(p) /\ got[p].edition <= edition
    BY DEF TypeOK, Answers, AnswersFit
<1>6. absent' \in [Jobs -> SUBSET (Symbols \cup Events)] /\ \A q \in Jobs : absent'[q] \subseteq absent[q]
    BY <1>1 DEF TypeOK
<1>7. \A q \in Jobs : q # p => absent'[q] = absent[q]
    BY <1>1 DEF TypeOK
<1>8. CASE p \in EarningsJobs
    <2>1. PICK bad \in SUBSET absent[p] :
              /\ earnings' = [earnings EXCEPT ![day[p]] =
                     [k \in Symbols |-> IF k \in absent[p] \ bad THEN got[p].edition
                                        ELSE earnings[day[p]][k]]]
              /\ due' = [due EXCEPT ![p] = @ \ RowsOf(p, bad)]
        BY <1>8, UpsertWrites, SyncAssumption
    <2>8. due' \in Dues
        BY <2>1, DueTypes DEF TypeOK
    <2>2. UNCHANGED economic /\ pc'[p] \in {"fetch", "done"} /\ p \notin EconomicJobs
        BY <1>8, UpsertWrites, SyncAssumption
    <2>3. earnings' \in [Days -> [Symbols -> Editions]]
        BY <1>5, <2>1 DEF TypeOK
    <2>4. TypeOK'
        BY <1>1, <1>2, <1>3, <1>6, <2>2, <2>3, <2>8 DEF TypeOK, Keys, Dues
    <2>5. ~overlapped => \A q \in EarningsJobs : pc'[q] # "upsert"
        BY <1>4, <1>8, <2>2, UpsertWrites DEF OneAtATime, Busy, Likes, Jobs
    <2>6. AnswersFit'
        BY <1>1, <1>2, <1>4, <2>2, <2>5 DEF AnswersFit, Keys, Jobs
    <2> QED
        BY <1>3, <2>4, <2>6
<1>9. CASE p \notin EarningsJobs
    <2>1. p \in EconomicJobs /\ UNCHANGED <<earnings, got>> /\ pc'[p] = "done" /\ pc[p] = "upsert"
        BY <1>2, <1>9, UpsertWrites DEF Jobs
    <2>2. PICK bad \in SUBSET got[p].keys :
              /\ economic' = [e \in Events |->
                     IF e \in got[p].keys \ bad THEN got[p].edition ELSE economic[e]]
              /\ due' = [due EXCEPT ![p] = @ \ RowsOf(p, bad)]
        BY <1>9, UpsertWrites
    <2>8. due' \in Dues
        BY <1>5, <2>2, DueTypes DEF Keys
    <2>3. got[p].keys \subseteq Events
        BY <1>5, <1>9 DEF Keys
    <2>4. TypeOK'
        BY <1>1, <1>2, <1>3, <1>5, <1>6, <2>1, <2>2, <2>3, <2>8 DEF TypeOK, Keys, Dues
    <2>5. ~overlapped => \A q \in EconomicJobs : pc'[q] \notin {"compare", "upsert"}
        BY <1>4, <1>9, <2>1 DEF OneAtATime, Busy, Likes, Jobs
    <2>6. AnswersFit'
        BY <1>1, <1>2, <1>4, <1>5, <1>7, <2>1, <2>2, <2>5, SyncAssumption DEF AnswersFit, Keys, Jobs
    <2> QED
        BY <1>3, <2>4, <2>6
<1> QED
    BY <1>8, <1>9

LEMMA StepKeeps == IInv /\ [Next]_vars => IInv'
<1> SUFFICES ASSUME IInv, [Next]_vars PROVE IInv'
    OBVIOUS
<1>1. CASE UNCHANGED vars
    BY <1>1
    DEF IInv, TypeOK, EveryDayIsTried, OneAtATime, DaysFit, AnswersFit, Busy, vars, local
<1> QED
    BY <1>1, PublishKeeps, BeginKeeps, BeginFailsKeeps, FetchKeeps, CompareKeeps, UpsertKeeps,
       ErrorKeeps
    DEF Next, Step

LEMMA Invariance == Spec => []IInv
BY InitIInv, StepKeeps, PTL DEF Spec

LEMMA StepsGoForward ==
    ASSUME IInv, [Next]_vars, ~overlapped
    PROVE  /\ \A d \in Days, s \in Symbols : earnings[d][s] # 0 => earnings'[d][s] = earnings[d][s]
           /\ \A e \in Events : economic[e] <= economic'[e]
<1> USE DEF IInv
<1>0. \A e \in Events : economic[e] \in Int
    BY DEF TypeOK, Editions
<1>1. CASE UNCHANGED <<earnings, economic>>
    BY <1>0, <1>1
<1>2. ASSUME NEW p \in Jobs, Upsert(p), p \in EarningsJobs
      PROVE  /\ \A d \in Days, s \in Symbols : earnings[d][s] # 0 => earnings'[d][s] = earnings[d][s]
             /\ UNCHANGED economic
    <2>1. PICK bad \in SUBSET absent[p] :
              earnings' = [earnings EXCEPT ![day[p]] =
                  [k \in Symbols |-> IF k \in absent[p] \ bad THEN got[p].edition
                                     ELSE earnings[day[p]][k]]]
        BY <1>2, UpsertWrites, SyncAssumption
    <2>2. \A s \in absent[p] : earnings[day[p]][s] = 0
        BY <1>2, UpsertWrites DEF AnswersFit
    <2> QED
        BY <1>2, <2>1, <2>2, UpsertWrites, SyncAssumption DEF TypeOK
<1>3. ASSUME NEW p \in Jobs, Upsert(p), p \notin EarningsJobs
      PROVE  /\ UNCHANGED earnings
             /\ \A e \in Events : economic[e] <= economic'[e]
    <2>1. p \in EconomicJobs /\ pc[p] = "upsert" /\ UNCHANGED earnings
        BY <1>3, UpsertWrites DEF Jobs
    <2>2. PICK bad \in SUBSET got[p].keys :
              economic' = [e \in Events |->
                     IF e \in got[p].keys \ bad THEN got[p].edition ELSE economic[e]]
        BY <1>3, UpsertWrites
    <2>3. \A e \in Events : economic[e] <= got[p].edition
        BY <2>1 DEF AnswersFit
    <2> QED
        BY <1>0, <2>1, <2>2, <2>3
<1> QED
    BY <1>0, <1>1, <1>2, <1>3
    DEF Next, vars, Publish, Begin, BeginFails, Step, Fetch, Compare, Error

-----------------------------------------------------------------------------
(* What a run has fetched it stores.  On top of IInv, per run.             *)

\* A row that is due is of a day that the run is through with, or of its answer for
\* the day that it is at.
DueFits(p) ==
    \A row \in due[p] :
        /\ row[2] \in Keys(p)
        /\ \/ row[1] \in tried[p]
           \/ /\ pc[p] \in {"compare", "upsert"}
              /\ row[1] = day[p] /\ row[2] \in got[p].keys

\* What earnings_sync does not write it found, and what is written is an edition.
FoundFits(p) ==
    /\ pc[p] \in {"compare", "upsert"} => got[p].edition > 0
    /\ p \in EconomicJobs => day[p] = 0
    /\ p \in EarningsJobs /\ pc[p] = "upsert" =>
           \A s \in got[p].keys \ absent[p] : earnings[day[p]][s] # 0

EarningsStored(p) ==
    p \in EarningsJobs =>
        \A row \in due[p] : row[1] \in tried[p] => earnings[row[1]][row[2]] # 0
EconomicStored(p) ==
    p \in EconomicJobs /\ outcome[p] = "ok" /\ ~overlapped =>
        \A row \in due[p] : economic[row[2]] >= got[p].edition

StoredBy(p) == DueFits(p) /\ FoundFits(p) /\ EarningsStored(p) /\ EconomicStored(p)
StoredInv == edition > 0 /\ \A p \in Jobs : StoredBy(p)

\* What a step leaves in the tables for the runs that did not take it.
TablesKeep ==
    /\ \A d \in Days, s \in Symbols : earnings[d][s] # 0 => earnings'[d][s] # 0
    /\ ~overlapped' => ~overlapped /\ \A e \in Events : economic[e] <= economic'[e]

SameRun(p) ==
    /\ pc'[p] = pc[p] /\ day'[p] = day[p] /\ got'[p] = got[p] /\ absent'[p] = absent[p]
    /\ due'[p] = due[p] /\ tried'[p] = tried[p] /\ outcome'[p] = outcome[p]

LEMMA DueRows ==
    ASSUME IInv, NEW p \in Jobs, NEW row \in due[p]
    PROVE  row[1] \in Days /\ row[2] \in Symbols \cup Events /\ row = <<row[1], row[2]>>
BY DEF IInv, TypeOK

LEMMA OthersKeep ==
    ASSUME IInv, IInv', TablesKeep, NEW p \in Jobs, StoredBy(p), SameRun(p)
    PROVE  StoredBy(p)'
<1>0. EarningsJobs \cap EconomicJobs = {} /\ \A row \in due[p] : row[1] \in Days
    BY DueRows, SyncAssumption
<1>1. DueFits(p)'
    BY DEF StoredBy, DueFits, SameRun, Keys
<1>2. FoundFits(p)'
    <2>1. day[p] \in Days /\ (p \in EarningsJobs => got[p].keys \subseteq Symbols)
        BY DEF IInv, TypeOK, AnswersFit, Keys
    <2> QED
        BY <2>1 DEF StoredBy, FoundFits, SameRun, TablesKeep
<1>3. EarningsStored(p)'
    BY <1>0 DEF StoredBy, DueFits, EarningsStored, SameRun, TablesKeep, Keys
<1>4. EconomicStored(p)'
    <2> SUFFICES ASSUME p \in EconomicJobs, outcome[p] = "ok", ~overlapped', NEW row \in due[p]
                 PROVE  economic'[row[2]] >= got[p].edition
        BY DEF EconomicStored, SameRun
    <2>1. row[2] \in Events
        BY <1>0 DEF StoredBy, DueFits, Keys
    <2>2. economic[row[2]] \in Int /\ economic'[row[2]] \in Int /\ got[p].edition \in Int
        BY <2>1 DEF IInv, TypeOK, Answers, Editions
    <2>3. economic[row[2]] >= got[p].edition /\ economic[row[2]] <= economic'[row[2]]
        BY <2>1 DEF StoredBy, EconomicStored, TablesKeep
    <2> QED
        BY <2>2, <2>3
<1> QED
    BY <1>1, <1>2, <1>3, <1>4 DEF StoredBy

\* A row once there stays, and the editions of the economic calendar only grow.
LEMMA TablesAreKept == ASSUME IInv, StoredInv, [Next]_vars PROVE TablesKeep
<1>1. ~overlapped' => ~overlapped
    BY DEF Next, vars, local, Publish, Begin, BeginFails, Step, Fetch, Compare, Upsert, Error
<1>2. ASSUME NEW p \in Jobs, Upsert(p), p \in EarningsJobs
      PROVE  \A d \in Days, s \in Symbols : earnings[d][s] # 0 => earnings'[d][s] # 0
    <2>1. PICK bad \in SUBSET absent[p] :
              earnings' = [earnings EXCEPT ![day[p]] =
                  [k \in Symbols |-> IF k \in absent[p] \ bad THEN got[p].edition
                                     ELSE earnings[day[p]][k]]]
        BY <1>2, UpsertWrites, SyncAssumption
    <2>2. got[p].edition # 0 /\ got[p].edition \in Int
        BY <1>2, UpsertWrites DEF StoredInv, StoredBy, FoundFits, IInv, TypeOK, Answers, Editions
    <2> QED
        BY <2>1, <2>2 DEF IInv, TypeOK
<1>3. ASSUME NEW p \in Jobs, Upsert(p), p \notin EarningsJobs PROVE UNCHANGED earnings
    BY <1>3 DEF Upsert
<1>4. \A d \in Days, s \in Symbols : earnings[d][s] # 0 => earnings'[d][s] # 0
    <2>1. CASE UNCHANGED earnings
        BY <2>1
    <2> QED
        BY <1>2, <1>3, <2>1
        DEF Next, vars, Publish, Begin, BeginFails, Step, Fetch, Compare, Error
<1> QED
    BY <1>1, <1>4, StepsGoForward DEF TablesKeep

-----------------------------------------------------------------------------
\* A step of a run leaves what the other runs know.
LEMMA StepIsOwn ==
    ASSUME IInv, NEW p \in Jobs, Begin(p) \/ BeginFails(p) \/ Step(p) \/ Error(p), NEW q \in Jobs, q # p
    PROVE  SameRun(q)
<1> USE DEF IInv, TypeOK
<1>1. ASSUME NextDay(p) PROVE /\ pc'[q] = pc[q] /\ day'[q] = day[q]
                              /\ tried'[q] = tried[q] /\ outcome'[q] = outcome[q]
    BY <1>1 DEF NextDay, Goto, Ends
<1>2. ASSUME DayFails(p) PROVE /\ pc'[q] = pc[q] /\ day'[q] = day[q]
                               /\ tried'[q] = tried[q] /\ outcome'[q] = outcome[q]
    BY <1>1, <1>2 DEF DayFails, Goto, Ends
<1>3. ASSUME DayOver(p) PROVE got'[q] = got[q]
    BY <1>3 DEF DayOver
<1>4. CASE Begin(p) \/ BeginFails(p)
    BY <1>4 DEF Begin, BeginFails, Goto, Ends, SameRun
<1>5. CASE Fetch(p)
    BY <1>1, <1>5 DEF Fetch, Goto, SameRun
<1>6. CASE Compare(p)
    BY <1>1, <1>3, <1>6 DEF Compare, Goto, SameRun
<1>7. CASE Upsert(p)
    BY <1>1, <1>2, <1>3, <1>7 DEF Upsert, SameRun
<1>8. CASE Error(p)
    BY <1>2, <1>3, <1>8 DEF Error, SameRun
<1> QED
    BY <1>4, <1>5, <1>6, <1>7, <1>8 DEF Step

\* A run that looks for, or fetches, its first rows owes none.
LEMMA NothingYet ==
    ASSUME IInv, NEW p \in Jobs, StoredBy(p)
    PROVE  /\ pc[p] = "idle" => due[p] = {}
           /\ p \in EconomicJobs /\ pc[p] = "fetch" => due[p] = {}
           /\ p \in EconomicJobs /\ pc[p] = "upsert" => tried[p] = {}
<1>1. p \in EconomicJobs /\ Busy(p) => tried[p] = {}
    <2>1. p \in EconomicJobs => day[p] = 0 /\ 0 .. day[p] - 1 = {}
        BY DEF StoredBy, FoundFits
    <2> QED
        BY <2>1 DEF IInv, DaysFit
<1>2. pc[p] = "idle" => tried[p] = {}
    BY DEF IInv, DaysFit
<1> QED
    BY <1>1, <1>2 DEF StoredBy, DueFits, Busy

LEMMA BeginningStores ==
    ASSUME IInv, IInv', NEW p \in Jobs, StoredBy(p), Begin(p) \/ BeginFails(p) PROVE StoredBy(p)'
<1>1. /\ due[p] = {} /\ UNCHANGED <<due, day, got, absent>>
      /\ pc'[p] \in {"fetch", "done"}
    BY NothingYet DEF Begin, BeginFails, Goto, Ends, IInv, TypeOK
<1> QED
    BY <1>1 DEF StoredBy, DueFits, FoundFits, EarningsStored, EconomicStored

\* A run that is through with its day, when what is due of that day is there.
LEMMA DayEnds ==
    ASSUME IInv, IInv', TablesKeep, NEW p \in Jobs, StoredBy(p), Busy(p), NextDay(p),
           due'[p] \subseteq due[p],
           p \in EarningsJobs =>
               \A row \in due'[p] : row[1] = day[p] => earnings'[row[1]][row[2]] # 0,
           p \in EconomicJobs /\ ~overlapped' =>
               \A row \in due'[p] : economic'[row[2]] >= got'[p].edition
    PROVE  StoredBy(p)'
<1>1. /\ tried'[p] = tried[p] \cup {day[p]} /\ pc'[p] \in {"fetch", "done"}
      /\ p \in EconomicJobs => day'[p] = day[p]
    BY SyncAssumption, NextDayTypes DEF NextDay, IInv, TypeOK
<1>2. DueFits(p)'
    BY <1>1 DEF StoredBy, DueFits, Keys
<1>3. FoundFits(p)'
    BY <1>1 DEF StoredBy, FoundFits
<1>4. EarningsStored(p)'
    <2> SUFFICES ASSUME p \in EarningsJobs, NEW row \in due'[p], row[1] \in tried'[p]
                 PROVE  earnings'[row[1]][row[2]] # 0
        BY DEF EarningsStored
    <2>1. CASE row[1] = day[p]
        BY <2>1
    <2>2. CASE row[1] \in tried[p]
        <3>1. earnings[row[1]][row[2]] # 0 /\ row[1] \in Days /\ row[2] \in Symbols
            BY <2>2, DueRows DEF StoredBy, EarningsStored, DueFits, Keys
        <3> QED
            BY <3>1 DEF TablesKeep
    <2> QED
        BY <1>1, <2>1, <2>2
<1>5. EconomicStored(p)'
    BY DEF EconomicStored
<1> QED
    BY <1>2, <1>3, <1>4, <1>5 DEF StoredBy

LEMMA FetchStores ==
    ASSUME IInv, IInv', TablesKeep, edition > 0, NEW p \in Jobs, StoredBy(p), Fetch(p)
    PROVE  StoredBy(p)'
<1>1. PICK ks \in SUBSET Keys(p) :
          /\ due' = [due EXCEPT ![p] = @ \cup RowsOf(p, ks)]
          /\ IF ks = {} THEN NextDay(p) /\ UNCHANGED got
             ELSE /\ got' = [got EXCEPT ![p] = [keys |-> ks, edition |-> edition]]
                  /\ Goto(p, "compare")
                  /\ UNCHANGED <<day, tried, outcome>>
    BY DEF Fetch
<1>2. /\ pc[p] = "fetch" /\ Busy(p) /\ UNCHANGED <<earnings, economic, absent, overlapped>>
      /\ due'[p] = due[p] \cup RowsOf(p, ks)
    BY <1>1 DEF Fetch, Busy, IInv, TypeOK
<1>3. \A row \in due[p] : row[1] \in tried[p] /\ row[1] # day[p]
    <2>1. tried[p] = 0 .. day[p] - 1 /\ day[p] \in Int
        BY <1>2 DEF IInv, DaysFit, TypeOK, Days
    <2>2. day[p] \notin tried[p]
        BY <2>1
    <2> QED
        BY <1>2, <2>2 DEF StoredBy, DueFits
<1>4. CASE ks = {}
    <2>1. due'[p] = due[p] /\ NextDay(p)
        BY <1>1, <1>2, <1>4 DEF RowsOf
    <2>2. p \in EconomicJobs => due[p] = {}
        BY <1>2, NothingYet
    <2> QED
        BY <1>2, <1>3, <2>1, <2>2, DayEnds
<1>5. CASE ks # {}
    <2>1. /\ got'[p].keys = ks /\ got'[p].edition = edition /\ pc'[p] = "compare"
          /\ UNCHANGED <<day, tried, outcome>>
        BY <1>1, <1>5 DEF Goto, IInv, TypeOK
    <2>2. \A row \in RowsOf(p, ks) : row[1] = day[p] /\ row[2] \in ks
        BY DEF RowsOf
    <2>3. DueFits(p)'
        BY <1>2, <1>3, <2>1, <2>2 DEF StoredBy, DueFits, Keys
    <2>4. FoundFits(p)'
        BY <2>1 DEF StoredBy, FoundFits
    <2>5. day[p] \notin tried[p]
        <3>1. tried[p] = 0 .. day[p] - 1 /\ day[p] \in Int
            BY <1>2 DEF IInv, DaysFit, TypeOK, Days
        <3> QED
            BY <3>1
    <2>6. EarningsStored(p)'
        BY <1>2, <2>1, <2>2, <2>5 DEF StoredBy, EarningsStored
    <2>7. EconomicStored(p)'
        BY <1>2, <2>1 DEF EconomicStored, IInv, DaysFit, Busy
    <2> QED
        BY <2>3, <2>4, <2>6, <2>7 DEF StoredBy
<1> QED
    BY <1>4, <1>5

LEMMA CompareStores ==
    ASSUME IInv, IInv', TablesKeep, NEW p \in Jobs, StoredBy(p), Compare(p)
    PROVE  StoredBy(p)'
<1>1. /\ pc[p] = "compare" /\ Busy(p) /\ UNCHANGED <<earnings, economic, due, overlapped>>
      /\ absent'[p] = {k \in got[p].keys : Row(p, k) = 0}
    BY DEF Compare, Busy, IInv, TypeOK
<1>2. p \in EarningsJobs => \A s \in got[p].keys \ absent'[p] : earnings[day[p]][s] # 0
    BY <1>1 DEF Row
<1>3. CASE p \in EarningsJobs /\ absent'[p] = {}
    <2>1. NextDay(p)
        BY <1>3 DEF Compare
    <2>2. \A row \in due[p] : row[1] = day[p] => row[2] \in got[p].keys
        <3>1. tried[p] = 0 .. day[p] - 1 /\ day[p] \in Int
            BY <1>1 DEF IInv, DaysFit, TypeOK, Days
        <3>2. day[p] \notin tried[p]
            BY <3>1
        <3> QED
            BY <3>2 DEF StoredBy, DueFits
    <2>3. p \notin EconomicJobs
        BY <1>3, SyncAssumption
    <2> QED
        BY <1>1, <1>2, <1>3, <2>1, <2>2, <2>3, DayEnds
<1>4. CASE ~(p \in EarningsJobs /\ absent'[p] = {})
    <2>1. pc'[p] = "upsert" /\ UNCHANGED <<day, tried, outcome, got>>
        BY <1>4 DEF Compare, Goto, IInv, TypeOK
    <2>2. DueFits(p)'
        BY <1>1, <2>1 DEF StoredBy, DueFits, Keys
    <2>3. FoundFits(p)'
        BY <1>1, <1>2, <2>1 DEF StoredBy, FoundFits
    <2>4. EarningsStored(p)' /\ EconomicStored(p)'
        BY <1>1, <2>1 DEF StoredBy, EarningsStored, EconomicStored
    <2> QED
        BY <2>2, <2>3, <2>4 DEF StoredBy
<1> QED
    BY <1>3, <1>4

LEMMA ErrorStores ==
    ASSUME IInv, IInv', TablesKeep, NEW p \in Jobs, StoredBy(p), Error(p)
    PROVE  StoredBy(p)'
<1>1. /\ Busy(p) /\ DayFails(p) /\ UNCHANGED <<earnings, economic, overlapped>>
      /\ due'[p] = due[p] \ RowsOf(p, Keys(p)) /\ DayOver(p)
    BY DEF Error, Busy, IInv, TypeOK
<1>2. \A row \in due'[p] : row[1] # day[p]
    <2>1. \A row \in due[p] : row = <<row[1], row[2]>> /\ row[2] \in Keys(p)
        BY DueRows DEF StoredBy, DueFits
    <2> QED
        BY <1>1, <2>1 DEF RowsOf
<1>3. CASE p \in EarningsJobs
    <2>1. NextDay(p) /\ p \notin EconomicJobs
        BY <1>1, <1>3, SyncAssumption DEF DayFails
    <2> QED
        BY <1>1, <1>2, <2>1, DayEnds
<1>4. CASE p \notin EarningsJobs
    <2>1. /\ pc'[p] = "done" /\ outcome'[p] = "error" /\ UNCHANGED <<day, tried>>
        BY <1>1, <1>4 DEF DayFails, Ends, Goto, IInv, TypeOK
    <2>2. DueFits(p)'
        BY <1>1, <1>2, <2>1 DEF StoredBy, DueFits, Keys
    <2>3. FoundFits(p)' /\ EarningsStored(p)' /\ EconomicStored(p)'
        BY <1>4, <2>1 DEF StoredBy, FoundFits, EarningsStored, EconomicStored
    <2> QED
        BY <2>2, <2>3 DEF StoredBy
<1> QED
    BY <1>3, <1>4

\* The rows of the day that are due after the transaction: the ones that it wrote,
\* and for earnings_sync the ones that were found.
LEMMA UpsertStores ==
    ASSUME IInv, IInv', TablesKeep, NEW p \in Jobs, StoredBy(p), Upsert(p)
    PROVE  StoredBy(p)'
<1>1. Busy(p) /\ pc[p] = "upsert" /\ DayOver(p)
    BY UpsertWrites
<1>2. \A row \in due[p] : row = <<row[1], row[2]>> /\ row[1] \in Days /\ row[2] \in Keys(p)
    BY DueRows DEF StoredBy, DueFits
<1>3. \A row \in due[p] : row[1] = day[p] => row[2] \in got[p].keys
    <2>1. tried[p] = 0 .. day[p] - 1 /\ day[p] \in Int
        BY <1>1 DEF IInv, DaysFit, TypeOK, Days
    <2>2. day[p] \notin tried[p]
        BY <2>1
    <2> QED
        BY <2>2 DEF StoredBy, DueFits
<1>4. got[p].edition \in Int /\ got[p].edition > 0
    BY <1>1 DEF StoredBy, FoundFits, IInv, TypeOK, Answers, Editions
<1>5. CASE p \in EarningsJobs
    <2>1. PICK bad \in SUBSET absent[p] :
              /\ earnings' = [earnings EXCEPT ![day[p]] =
                     [k \in Symbols |-> IF k \in absent[p] \ bad THEN got[p].edition
                                        ELSE earnings[day[p]][k]]]
              /\ due' = [due EXCEPT ![p] = @ \ RowsOf(p, bad)]
        BY <1>5, UpsertWrites, SyncAssumption
    <2>2. NextDay(p) /\ p \notin EconomicJobs
        BY <1>5, UpsertWrites, SyncAssumption
    <2>3. due'[p] = due[p] \ RowsOf(p, bad) /\ day[p] \in Days
        BY <2>1 DEF IInv, TypeOK
    <2>4. ASSUME NEW row \in due'[p], row[1] = day[p] PROVE earnings'[row[1]][row[2]] # 0
        <3>1. row[2] \in got[p].keys /\ row[2] \in Symbols /\ row[2] \notin bad
            BY <1>2, <1>3, <1>5, <2>3, <2>4 DEF RowsOf, Keys
        <3>2. earnings'[day[p]][row[2]] = IF row[2] \in absent[p] \ bad THEN got[p].edition
                                          ELSE earnings[day[p]][row[2]]
            BY <2>1, <2>3, <3>1 DEF IInv, TypeOK
        <3>3. row[2] \notin absent[p] => earnings[day[p]][row[2]] # 0
            BY <1>1, <1>5, <3>1 DEF StoredBy, FoundFits
        <3> QED
            BY <1>4, <2>4, <3>1, <3>2, <3>3
    <2> QED
        BY <1>1, <2>2, <2>3, <2>4, DayEnds
<1>6. CASE p \notin EarningsJobs
    <2>1. p \in EconomicJobs /\ pc'[p] = "done" /\ UNCHANGED got
        BY <1>1, <1>6, UpsertWrites, ForgottenFits DEF Jobs
    <2>2. PICK bad \in SUBSET got[p].keys :
              /\ economic' = [e \in Events |->
                     IF e \in got[p].keys \ bad THEN got[p].edition ELSE economic[e]]
              /\ due' = [due EXCEPT ![p] = @ \ RowsOf(p, bad)]
              /\ \/ NextDay(p)
                 \/ bad = got[p].keys /\ Ends(p, "error") /\ UNCHANGED <<day, tried>>
        BY <1>6, UpsertWrites
    <2>3. due'[p] = due[p] \ RowsOf(p, bad)
        BY <2>2 DEF IInv, TypeOK
    <2>4. \A row \in due'[p] : economic'[row[2]] >= got[p].edition
        <3> SUFFICES ASSUME NEW row \in due'[p]
                     PROVE  economic'[row[2]] >= got[p].edition
            OBVIOUS
        <3>1. row \in due[p] /\ row[1] = day[p]
            BY <1>1, <2>1, <2>3, NothingYet DEF StoredBy, DueFits
        <3>2. row[2] \in got[p].keys /\ row[2] \in Events /\ row[2] \notin bad
            BY <1>2, <1>3, <1>6, <2>3, <3>1 DEF RowsOf, Keys
        <3> QED
            BY <1>4, <2>2, <3>2
    <2>5. CASE NextDay(p)
        BY <1>1, <1>6, <2>1, <2>3, <2>4, <2>5, DayEnds
    <2>6. CASE ~NextDay(p)
        <3>1. bad = got[p].keys /\ Ends(p, "error") /\ UNCHANGED <<day, tried>>
            BY <2>2, <2>6
        <3>2. outcome'[p] = "error"
            BY <3>1 DEF Ends, IInv, TypeOK
        <3>3. due'[p] = {}
            <4>1. \A row \in due[p] : row[1] = day[p] /\ row[2] \in got[p].keys
                BY <1>1, <1>3, <2>1, NothingYet DEF StoredBy, DueFits
            <4> QED
                BY <1>2, <2>3, <3>1, <4>1 DEF RowsOf
        <3> QED
            BY <1>6, <2>1, <3>1, <3>2, <3>3
            DEF StoredBy, DueFits, FoundFits, EarningsStored, EconomicStored
    <2> QED
        BY <2>5, <2>6
<1> QED
    BY <1>5, <1>6

LEMMA StoredKeeps == IInv /\ StoredInv /\ [Next]_vars => StoredInv'
<1> SUFFICES ASSUME IInv, StoredInv, [Next]_vars PROVE StoredInv'
    OBVIOUS
<1>1. IInv' /\ TablesKeep
    BY StepKeeps, TablesAreKept
<1>2. edition' > 0
    <2>1. edition \in Int /\ edition > 0
        BY DEF IInv, TypeOK, Editions, StoredInv
    <2> QED
        BY <2>1, UpsertWrites
        DEF Next, vars, Publish, Begin, BeginFails, Step, Fetch, Compare, Upsert, Error
<1>3. ASSUME NEW p \in Jobs, Begin(p) \/ BeginFails(p) \/ Step(p) \/ Error(p)
      PROVE  \A q \in Jobs : StoredBy(q)'
    <2>1. StoredBy(p)'
        BY <1>1, <1>3, BeginningStores, FetchStores, CompareStores, UpsertStores, ErrorStores
        DEF StoredInv, Step
    <2>2. ASSUME NEW q \in Jobs, q # p PROVE StoredBy(q)'
        BY <1>1, <1>3, <2>2, StepIsOwn, OthersKeep DEF StoredInv
    <2> QED
        BY <2>1, <2>2
<1>4. ASSUME Publish \/ UNCHANGED vars PROVE \A q \in Jobs : StoredBy(q)'
    <2>1. \A q \in Jobs : SameRun(q)
        BY <1>4 DEF Publish, vars, local, SameRun
    <2> QED
        BY <1>1, <2>1, OthersKeep DEF StoredInv
<1> QED
    BY <1>2, <1>3, <1>4 DEF StoredInv, Next

LEMMA InitStored == Init => StoredInv
BY DEF Init, StoredInv, StoredBy, DueFits, FoundFits, EarningsStored, EconomicStored

\* A run of earnings_sync that has ended was through with every day whatever
\* failed; what it fetched for a day that did not fail has its row, unless the
\* database refused it; and a run of economic_sync that succeeds has brought its
\* table up to what it fetched, unless another run was under way.
THEOREM SyncsAreComplete == Spec => []SyncIsComplete
<1>1. IInv /\ StoredInv => SyncIsComplete
    <2>1. ASSUME StoredInv PROVE SyncedIsStored
        BY <2>1 DEF SyncedIsStored, StoredInv, StoredBy, EarningsStored, EconomicStored, Jobs
    <2> QED
        BY <2>1 DEF IInv, SyncIsComplete
<1>2. Init /\ [][Next]_vars => [](IInv /\ StoredInv)
    BY InitIInv, InitStored, StepKeeps, StoredKeeps, PTL
<1> QED
    BY <1>1, <1>2, PTL DEF Spec

\* While runs of a job come one after the other, a row of stocks_earnings is
\* never written again and a row of calendar_economic only by a later edition.
THEOREM RowsGoForward == Spec => RowsDoNotGoBack
<1>1. IInv /\ [Next]_vars =>
        [~overlapped =>
            /\ \A d \in Days, s \in Symbols :
                  earnings[d][s] # 0 => earnings'[d][s] = earnings[d][s]
            /\ \A e \in Events : economic[e] <= economic'[e]]_vars
    BY StepsGoForward
<1> QED
    BY <1>1, Invariance, PTL DEF Spec, RowsDoNotGoBack

-----------------------------------------------------------------------------
(* The token bucket in front of the providers.  A run that fetches waits   *)
(* in it before each request.                                              *)

\* The capacity of the bucket is a number of units, at least one token.
LEMMA MaxFacts == Max \in Nat /\ K \in Nat \ {0} /\ K <= Max
<1>1. MaxTokens \in Nat /\ MaxTokens >= 1 /\ K \in Nat \ {0}
  BY BucketAssumption
<1>2. (MaxTokens - 1) * K \in Nat /\ MaxTokens * K = (MaxTokens - 1) * K + K
  BY <1>1, Z3
<1> QED BY <1>1, <1>2 DEF Max

\* No caller is the absence of a caller.
LEMMA NobodyIsNoCaller == Nobody \notin Callers
BY BucketAssumption DEF Callers

-----------------------------------------------------------------------------
(* The type and the wait are one inductive invariant: the wait of the      *)
(* owner needs tokens < K, and 0 <= left <= K needs the type of tokens.    *)

BucketInv == BucketTypeOK /\ WaitsAsNeeded

\* A new bucket satisfies the invariant.
LEMMA InitBucketInv == BucketInit => BucketInv
<1> SUFFICES ASSUME BucketInit PROVE BucketInv
  OBVIOUS
<1>1. BucketTypeOK
  <2>1. conforms \in BOOLEAN /\ waited \in BOOLEAN
    BY Zenon DEF BucketInit
  <2> QED BY <2>1, MaxFacts, NobodyIsNoCaller DEF BucketInit, BucketTypeOK, Pcs
<1>2. WaitsAsNeeded
  BY DEF BucketInit, WaitsAsNeeded
<1> QED BY <1>1, <1>2 DEF BucketInv

\* Every step of a caller, of the clock and of Reset keeps it.
LEMMA NextBucketInv == BucketInv /\ [BucketNext]_bucketVars => BucketInv'
<1> SUFFICES ASSUME BucketInv, [BucketNext]_bucketVars PROVE BucketInv'
  OBVIOUS
<1> USE MaxFacts, NobodyIsNoCaller
<1>a. Refilled \in 0..Max /\ Capped(since + 1) \in 0..Max /\ Capped(credit + 1) \in 0..Max
  BY DEF BucketInv, BucketTypeOK, Refilled, Capped
<1>b. (IF credit >= K THEN credit - K ELSE 0) \in 0..Max
  BY DEF BucketInv, BucketTypeOK
<1>c. (conforms /\ credit >= K) \in BOOLEAN
  OBVIOUS
<1>1. CASE Tick
  BY <1>1, <1>a DEF BucketInv, BucketTypeOK, WaitsAsNeeded, Tick, Capped
<1>2. CASE Reset
  <2>1. conforms' \in BOOLEAN /\ waited' \in BOOLEAN
    BY <1>2, Zenon DEF Reset
  <2> QED BY <1>2, <2>1 DEF BucketInv, BucketTypeOK, WaitsAsNeeded, Reset
<1>3. ASSUME NEW c \in Callers, Call(c) PROVE BucketInv'
  BY <1>3 DEF BucketInv, BucketTypeOK, WaitsAsNeeded, Call, Pcs, Callers
<1>4. ASSUME NEW c \in Callers, Cancel(c) PROVE BucketInv'
  BY <1>4 DEF BucketInv, BucketTypeOK, WaitsAsNeeded, Cancel
<1>5. ASSUME NEW c \in Callers, Grant(c) PROVE BucketInv'
  <2>1. BucketTypeOK'
    <3>1. Refilled - K \in 0..Max
      BY <1>5, <1>a DEF Grant, HasToken
    <3>2. at' \in [Callers -> Pcs] /\ \A d \in Callers : at'[d] = "waiting" <=> mu' = d
      BY <1>5 DEF Grant, BucketInv, BucketTypeOK, Pcs, Results
    <3>3. conforms' \in BOOLEAN
      BY <1>5, <1>c, Zenon DEF Grant, Charge
    <3> QED BY <1>5, <3>1, <3>2, <3>3, <1>b DEF Grant, Charge, BucketInv, BucketTypeOK
  <2>2. WaitsAsNeeded'
    BY <1>5 DEF Grant, WaitsAsNeeded
  <2> QED BY <2>1, <2>2 DEF BucketInv
<1>6. ASSUME NEW c \in Callers, Refuse(c) PROVE BucketInv'
  BY <1>6, <1>a DEF BucketInv, BucketTypeOK, WaitsAsNeeded, Refuse, Pcs, Results
<1>7. ASSUME NEW c \in Callers, Wait(c) PROVE BucketInv'
  <2>1. K - Refilled \in 0..K
    BY <1>7, <1>a DEF Wait, HasToken
  <2> QED BY <1>7, <2>1, <1>a DEF BucketInv, BucketTypeOK, WaitsAsNeeded, Wait, Missing, Pcs
<1>8. ASSUME NEW c \in Callers, TimerFires(c) PROVE BucketInv'
  <2>1. BucketTypeOK'
    <3>1. AfterWait = tokens
      BY DEF AfterWait, BucketInv, BucketTypeOK
    <3>2. at' \in [Callers -> Pcs] /\ \A d \in Callers : at'[d] = "waiting" <=> mu' = d
      BY <1>8 DEF TimerFires, BucketInv, BucketTypeOK, Pcs, Results
    <3>3. conforms' \in BOOLEAN
      BY <1>8, <1>c, Zenon DEF TimerFires, Charge
    <3> QED BY <1>8, <3>1, <3>2, <3>3, <1>b DEF TimerFires, Charge, BucketInv, BucketTypeOK
  <2>2. WaitsAsNeeded'
    BY <1>8 DEF TimerFires, WaitsAsNeeded
  <2> QED BY <2>1, <2>2 DEF BucketInv
<1>9. ASSUME NEW c \in Callers, GiveUp(c) PROVE BucketInv'
  BY <1>9 DEF BucketInv, BucketTypeOK, WaitsAsNeeded, GiveUp, Unlock, Pcs, Results
<1>10. CASE UNCHANGED bucketVars
  BY <1>10 DEF BucketInv, BucketTypeOK, WaitsAsNeeded, bucketVars
<1> QED BY <1>1, <1>2, <1>3, <1>4, <1>5, <1>6, <1>7, <1>8, <1>9, <1>10 DEF BucketNext, Acquire

\* In every reachable state the bucket is between empty and full, the mutex
\* is held across time only by the caller that waits, and a wait is at most
\* one token long (ratelimiter.go: Allow, AllowImmediate, Reset).
THEOREM BucketTypeCorrect == BucketSpec => []BucketTypeOK
<1>1. BucketInv => BucketTypeOK
  BY DEF BucketInv
<1> QED BY <1>1, InitBucketInv, NextBucketInv, PTL DEF BucketSpec

\* A waiter of Allow waits exactly for the units that are missing when it
\* locks: it is let through neither before they are earned nor later than
\* that by the timer.
THEOREM WaitsAreExact == BucketSpec => []WaitsAsNeeded
<1>1. BucketInv => WaitsAsNeeded
  BY DEF BucketInv
<1> QED BY <1>1, InitBucketInv, NextBucketInv, PTL DEF BucketSpec

-----------------------------------------------------------------------------
(* As long as no wait has run to its end, the bucket that is refilled when *)
(* it is used holds what a bucket refilled at every tick would hold.       *)

RateInv == BucketInv /\ NothingLostUntilAWaitEnds /\ RateKeptUntilAWaitEnds

\* A new bucket is full, and so is the exact one.
LEMMA InitRateInv == BucketInit => RateInv
BY InitBucketInv, MaxFacts
   DEF RateInv, BucketInit, NothingLostUntilAWaitEnds, RateKeptUntilAWaitEnds, Capped

\* Every step keeps the two buckets together, but for the end of a wait.
LEMMA NextRateInv == RateInv /\ [BucketNext]_bucketVars => RateInv'
<1> SUFFICES ASSUME RateInv, [BucketNext]_bucketVars
             PROVE  NothingLostUntilAWaitEnds' /\ RateKeptUntilAWaitEnds'
  BY NextBucketInv DEF RateInv
<1> DEFINE Kept == NothingLostUntilAWaitEnds' /\ RateKeptUntilAWaitEnds'
<1> USE MaxFacts DEF NothingLostUntilAWaitEnds, RateKeptUntilAWaitEnds
<1>t. /\ tokens \in 0..Max /\ since \in 0..Max /\ credit \in 0..Max
      /\ ~waited => credit = Capped(tokens + since) /\ conforms
  BY DEF RateInv, BucketInv, BucketTypeOK
<1>1. CASE Tick
  BY <1>1, <1>t DEF Tick, Capped
<1>2. CASE Reset
  BY <1>2, <1>t DEF Reset, Capped
<1>3. ASSUME NEW c \in Callers, Call(c) \/ Cancel(c) PROVE Kept
  BY <1>3, <1>t DEF Call, Cancel, Capped
<1>4. ASSUME NEW c \in Callers, Grant(c) PROVE Kept
  <2> SUFFICES ASSUME ~waited
               PROVE  credit' = Capped(tokens' + since') /\ conforms'
    BY <1>4 DEF Grant
  <2>1. credit = Refilled /\ Refilled \in 0..Max /\ credit >= K
    BY <1>4, <1>t DEF Grant, Refilled, HasToken, Capped
  <2>2. credit' = credit - K /\ tokens' = Refilled - K /\ since' = 0
    BY <1>4, <2>1 DEF Grant, Charge
  <2>3. conforms'
    BY <1>4, <1>t, <2>1 DEF Grant, Charge
  <2> QED BY <2>1, <2>2, <2>3 DEF Capped
<1>5. ASSUME NEW c \in Callers, Refuse(c) PROVE Kept
  BY <1>5, <1>t DEF Refuse, Refilled, Capped
<1>6. ASSUME NEW c \in Callers, Wait(c) PROVE Kept
  BY <1>6, <1>t DEF Wait, Refilled, Capped
<1>7. ASSUME NEW c \in Callers, TimerFires(c) PROVE Kept
  BY <1>7 DEF TimerFires
<1>8. ASSUME NEW c \in Callers, GiveUp(c) PROVE Kept
  BY <1>8, <1>t DEF GiveUp
<1>9. CASE UNCHANGED bucketVars
  BY <1>9, <1>t DEF bucketVars, Capped
<1> QED BY <1>1, <1>2, <1>3, <1>4, <1>5, <1>6, <1>7, <1>8, <1>9 DEF BucketNext, Acquire

\* Until a wait of Allow runs to its end, the bucket keeps the rate that
\* NewTokenBucket is given: whatever the capacity, the refill rate and the
\* number of callers, an exact token bucket could pay for every request let
\* through.  (After such a wait this is false: WithinRate does not hold.)
THEOREM RateKept == BucketSpec => []RateKeptUntilAWaitEnds
<1>1. RateInv => RateKeptUntilAWaitEnds
  BY DEF RateInv
<1> QED BY <1>1, InitRateInv, NextRateInv, PTL DEF BucketSpec

\* And it holds every unit an exact bucket would hold, so no request is
\* refused, or made to wait, that the exact bucket could pay for.
THEOREM NothingIsLost == BucketSpec => []NothingLostUntilAWaitEnds
<1>1. RateInv => NothingLostUntilAWaitEnds
  BY DEF RateInv
<1> QED BY <1>1, InitRateInv, NextRateInv, PTL DEF BucketSpec

\* Both at once, as the run bucket_core checks it: until a wait ends by its
\* timer, Allow and AllowImmediate decide as an exact token bucket would.
THEOREM ExactUntilThen == BucketSpec => []ExactUntilAWaitEnds
<1>1. RateInv => ExactUntilAWaitEnds
  BY DEF RateInv, ExactUntilAWaitEnds
<1> QED BY <1>1, InitRateInv, NextRateInv, PTL DEF BucketSpec
=============================================================================
