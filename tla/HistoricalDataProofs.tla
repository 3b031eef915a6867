------------------------ MODULE HistoricalDataProofs ------------------------
(***************************************************************************)
(* Proofs about HistoricalData for every set of jobs, downloads and        *)
(* instruments, every series of bars, every period and every length of     *)
(* pages and batches.                                                      *)
(*                                                                         *)
(* A fill without holes needs that, between two pages, a job has exactly   *)
(* the bars from the start of the next page on, and that this start is     *)
(* not before the period.  That what is counted is stored needs that each  *)
(* bar of the instrument at hand is in the table, in the sender's buffer   *)
(* or still to be sent, as often as the job has it.                        *)
(***************************************************************************)
EXTENDS HistoricalData, FiniteSetTheorems, WellFoundedInduction, TLAPS

-----------------------------------------------------------------------------
(* Numbers, and the functions that count.                                  *)

LEMMA LeastNumber ==
    ASSUME NEW S \in SUBSET Nat, S # {}
    PROVE  \E m \in S : \A k \in S : m <= k
<1> DEFINE R == {ss \in Nat \X Nat : ss[1] < ss[2]}
<1>1. IsWellFoundedOn(R, Nat)
    BY NatLessThanWellFounded DEF OpToRel
<1>2. \E x \in S : \A y \in S : ~ (<<y, x>> \in R)
    <2> HIDE DEF R
    <2> QED
        BY <1>1, WFMin
<1>3. PICK m \in S : \A y \in S : ~ (<<y, m>> \in R)
    BY <1>2
<1>4. ASSUME NEW k \in S PROVE m <= k
    <2>1. k \in Nat /\ m \in Nat /\ ~(<<k, m>> \in R)
        BY <1>3
    <2> QED
        BY <2>1
<1> QED
    BY <1>4

LEMMA GreatestNumber ==
    ASSUME NEW n \in Nat, NEW S \in SUBSET (0 .. n), S # {}
    PROVE  \E m \in S : \A k \in S : k <= m
<1> DEFINE T == {n - k : k \in S}
<1>1. T \in SUBSET Nat /\ T # {}
    <2>1. \A k \in S : n - k \in Nat
        OBVIOUS
    <2>2. T \subseteq Nat
        BY <2>1
    <2>3. PICK k \in S : TRUE
        OBVIOUS
    <2>4. n - k \in T
        OBVIOUS
    <2> QED
        BY <2>2, <2>4
<1>2. PICK l \in T : \A k \in T : l <= k
    <2> HIDE DEF T
    <2> QED
        BY <1>1, LeastNumber
<1>3. PICK m \in S : l = n - m
    OBVIOUS
<1>4. ASSUME NEW k \in S PROVE k <= m
    <2>1. n - k \in T
        OBVIOUS
    <2>2. n - m <= n - k
        BY <1>2, <1>3, <2>1
    <2> QED
        BY <2>2
<1> QED
    BY <1>4

\* The smallest of some times is one of them.
LEMMA MinFacts ==
    ASSUME NEW S \in SUBSET Nat, S # {}
    PROVE  Min(S) \in S /\ \A k \in S : Min(S) <= k
BY LeastNumber DEF Min

\* A period that parsePeriodToDuration takes has a length.
LEMMA DurationFacts ==
    ASSUME NEW d, ValidPeriod(d) PROVE Duration(d) \in Nat
<1>1. d.unit \in {"min", "h", "d", "w", "m", "y"}
    BY DEF ValidPeriod, Largest
<1>2. Minutes[d.unit] \in Nat
    BY <1>1 DEF Minutes
<1>3. Largest[d.unit] \in Nat
    BY <1>1 DEF Largest
<1>4. d.value \in Nat
    BY <1>3 DEF ValidPeriod
<1> QED
    BY <1>2, <1>4 DEF Duration

\* One more of each member of T.
LEMMA PlusFacts ==
    ASSUME NEW S, NEW b \in Counts(S), NEW T
    PROVE  /\ Plus(b, T) \in Counts(S)
           /\ \A x \in S : Plus(b, T)[x] = IF x \in T THEN IF b[x] = 2 THEN 2 ELSE b[x] + 1
                                           ELSE b[x]
           /\ Held(Plus(b, T)) = Held(b) \cup (T \cap S)
<1>1. b \in [S -> 0 .. 2] /\ DOMAIN b = S
    BY DEF Counts, Many
<1>2. \A x \in S : b[x] \in 0 .. 2
    BY <1>1
<1>3. \A x \in S : Plus(b, T)[x] = IF x \in T THEN IF b[x] = 2 THEN 2 ELSE b[x] + 1 ELSE b[x]
    BY <1>1, <1>2 DEF Plus, Atmost, Many
<1>4. \A x \in S : Plus(b, T)[x] \in 0 .. 2
    BY <1>2, <1>3
<1>5. Plus(b, T) \in Counts(S) /\ DOMAIN Plus(b, T) = S
    BY <1>1, <1>4 DEF Plus, Counts, Many
<1>6. ASSUME NEW x \in S PROVE Plus(b, T)[x] > 0 <=> b[x] > 0 \/ x \in T
    BY <1>2, <1>3
<1> QED
    BY <1>1, <1>3, <1>5, <1>6 DEF Held

\* Both together.
LEMMA TotalFacts ==
    ASSUME NEW S, NEW b \in Counts(S), NEW c \in Counts(S)
    PROVE  /\ Total(b, c) \in Counts(S)
           /\ \A x \in S : Total(b, c)[x] = IF b[x] + c[x] > 2 THEN 2 ELSE b[x] + c[x]
           /\ Held(Total(b, c)) = Held(b) \cup Held(c)
<1>1. b \in [S -> 0 .. 2] /\ DOMAIN b = S /\ c \in [S -> 0 .. 2] /\ DOMAIN c = S
    BY DEF Counts, Many
<1>2. \A x \in S : b[x] \in 0 .. 2 /\ c[x] \in 0 .. 2
    BY <1>1
<1>3. \A x \in S : Total(b, c)[x] = IF b[x] + c[x] > 2 THEN 2 ELSE b[x] + c[x]
    BY <1>1, <1>2 DEF Total, Atmost, Many
<1>4. \A x \in S : Total(b, c)[x] \in 0 .. 2
    BY <1>2, <1>3
<1>5. Total(b, c) \in Counts(S) /\ DOMAIN Total(b, c) = S
    BY <1>1, <1>4 DEF Total, Counts, Many
<1>6. ASSUME NEW x \in S PROVE Total(b, c)[x] > 0 <=> b[x] > 0 \/ c[x] > 0
    BY <1>2, <1>3
<1> QED
    BY <1>1, <1>3, <1>5, <1>6 DEF Held

\* What is counted, and counting from nothing.
LEMMA CountsFacts ==
    /\ \A S : \A b \in Counts(S) : /\ Held(b) = {x \in S : b[x] > 0}
                                   /\ \A x \in S : b[x] \in 0 .. 2
    /\ NoBars \in Counts(Times) /\ Held(NoBars) = {} /\ \A t \in Times : NoBars[t] = 0
    /\ NoRows \in Counts(Rows) /\ Held(NoRows) = {} /\ \A r \in Rows : NoRows[r] = 0
<1>1. ASSUME NEW S, NEW b \in Counts(S)
      PROVE  Held(b) = {x \in S : b[x] > 0} /\ \A x \in S : b[x] \in 0 .. 2
    BY DEF Held, Counts, Many
<1>2. NoBars \in Counts(Times) /\ \A t \in Times : NoBars[t] = 0
    BY DEF NoBars, Counts, Many
<1>3. NoRows \in Counts(Rows) /\ \A r \in Rows : NoRows[r] = 0
    BY DEF NoRows, Counts, Many
<1>4. Held(NoBars) = {}
    BY <1>2 DEF Held, NoBars
<1>5. Held(NoRows) = {}
    BY <1>3 DEF Held, NoRows
<1> QED
    BY <1>1, <1>2, <1>3, <1>4, <1>5

\* The times of the bars.
LEMMA TimesFacts ==
    /\ Now \in Nat /\ Times \subseteq 0 .. Now
    /\ \A i \in Instruments : Series[i] \subseteq Times
<1>1. \A i \in Instruments : Series[i] \in SUBSET (0 .. Now)
    BY HistoricalAssumption
<1> QED
    BY <1>1, HistoricalAssumption DEF Times

-----------------------------------------------------------------------------
(* The invariant.                                                          *)

Since(i, s) == {t \in Series[i] : t >= s}

\* Where a process is at an instrument, and where it stores its bars.
AtHand == {"page", "ensure", "row", "at"}
Storing == {"ensure", "row", "at"}

\* An instrument that is still to come has nothing yet.
Fresh(p, i) == bars[p][i] = NoBars /\ i \notin counted[p] /\ i \notin cut[p]

\* The instrument at hand is a new one, and its period is valid.
PlaceOf(p) ==
    /\ pc[p] = "idle" => \A i \in Instruments : Fresh(p, i)
    /\ \A i \in wanted[p] : Fresh(p, i)
    /\ pc[p] \in AtHand =>
         /\ current[p] \in Instruments
         /\ current[p] \notin wanted[p]
         /\ current[p] \notin counted[p]
         /\ p \in Jobs => ValidPeriod(period[p])
    /\ pc[p] = "at" => Held(unsent[p]) # {} /\ (p \in Jobs => batch[p] < BatchLen)

\* Between two pages a job has the bars from startTime on; after the last page,
\* all of the period.
PageOf(p) ==
    p \in Jobs =>
    /\ pc[p] # "page" => start[p] = Now /\ page[p] = 0
    /\ pc[p] = "page" =>
         IF page[p] = 0
         THEN start[p] = Now /\ bars[p][current[p]] = NoBars
         ELSE /\ start[p] >= FromTime(p)
              /\ Held(bars[p][current[p]]) = Since(current[p], start[p])
    /\ pc[p] \in Storing /\ current[p] \notin cut[p] =>
         Held(bars[p][current[p]]) = Due(p, current[p])

\* The bars are bars of the gateway.
BarsOf(p) ==
    /\ \A i \in Instruments : Held(bars[p][i]) \subseteq Series[i]
    /\ pc[p] \in {"row", "at"} => Held(unsent[p]) \subseteq Series[current[p]]

\* What FillIsExact says of one process.
FilledOf(p) ==
    p \in Jobs =>
    /\ \A i \in Instruments : \A t \in Held(bars[p][i]) : \A u \in Series[i] :
          t >= FromTime(p) /\ (u > t => u \in Held(bars[p][i]))
    /\ \A i \in counted[p] \ cut[p] : Held(bars[p][i]) = Due(p, i)
    /\ ~inclusive => \A i \in Instruments, t \in Times : bars[p][i][t] <= 1

\* The sender knows who is in the middle of a row, and while nobody has raced
\* for it its rows are bars of the gateway.
SenderFits ==
    /\ building = {p \in Procs : pc[p] = "at"}
    /\ "race" \notin trouble =>
         /\ ~mixed
         /\ \A r \in Held(buffer) \cup Held(table) : r[2] \in Series[r[1]]

\* No bar of the instrument at hand is missing from the table, the buffer and
\* what is still to be sent.
SentOf(p) ==
    pc[p] \in {"row", "at"} => \A t \in Times :
        table[<<current[p], t>>] + buffer[<<current[p], t>>] + unsent[p][t]
            >= bars[p][current[p]][t]
CountedOf(p) ==
    \A i \in counted[p] : \A t \in Times : table[<<i, t>>] >= bars[p][i][t]
SentFits == trouble = {} => \A p \in Procs : SentOf(p) /\ CountedOf(p)

FillInv ==
    /\ TypeOK
    /\ \A p \in Procs : PlaceOf(p) /\ PageOf(p) /\ BarsOf(p) /\ FilledOf(p)
HistoricalInv == FillInv /\ SenderFits /\ SentFits

-----------------------------------------------------------------------------
(* Pages.                                                                  *)

LEMMA PeriodFacts ==
    ASSUME NEW p \in Procs, ValidPeriod(period[p])
    PROVE  Duration(period[p]) \in Nat /\ FromTime(p) \in Int
BY DurationFacts, TimesFacts DEF FromTime

\* A page of the gateway has the newest bars of its period.
LEMMA AnswerFacts ==
    ASSUME NEW p \in Procs, current[p] \in Instruments
    PROVE  /\ Answer(p) \subseteq Window(p) /\ Window(p) \subseteq Series[current[p]]
           /\ \A t \in Answer(p), u \in Window(p) : u > t => u \in Answer(p)
           /\ Window(p) # {} => \E m \in Answer(p) : \A u \in Window(p) : u <= m
<1> DEFINE W == Window(p)
           Newer(t) == {u \in W : u > t}
<1>1. W \subseteq Series[current[p]] /\ Answer(p) \subseteq W
    BY DEF Window, Answer
<1>2. W \in SUBSET (0 .. Now) /\ IsFiniteSet(W) /\ \A t \in W : t \in Int
    <2>1. W \subseteq 0 .. Now /\ Now \in Nat
        BY <1>1, TimesFacts
    <2>2. IsFiniteSet(0 .. Now)
        BY <2>1, FS_Interval
    <2> QED
        BY <2>1, <2>2, FS_Subset
<1>3. \A t \in W : t \in Answer(p) <=> Cardinality(Newer(t)) < PageLen
    BY DEF Answer
<1>4. PageLen \in Nat /\ PageLen >= 1
    BY HistoricalAssumption
<1> HIDE DEF W
<1>5. ASSUME NEW t \in Answer(p), NEW u \in W, u > t PROVE u \in Answer(p)
    <2>1. t \in Int /\ u \in Int /\ t \in W
        BY <1>1, <1>2
    <2>2. Newer(u) \subseteq Newer(t)
        <3>1. ASSUME NEW v \in W, v > u PROVE v > t
            <4>1. v \in Int
                BY <1>2
            <4> QED
                BY <1>5, <2>1, <3>1, <4>1
        <3> QED
            BY <3>1
    <2>3. IsFiniteSet(Newer(t))
        BY <1>2, FS_Subset
    <2>4. /\ Cardinality(Newer(u)) \in Nat /\ Cardinality(Newer(t)) \in Nat
          /\ Cardinality(Newer(u)) <= Cardinality(Newer(t))
        BY <2>2, <2>3, FS_Subset, FS_CardinalityType
    <2>5. Cardinality(Newer(t)) < PageLen
        BY <1>3, <2>1
    <2>6. Cardinality(Newer(u)) < PageLen
        BY <1>4, <2>4, <2>5
    <2> QED
        BY <1>3, <2>6
<1>6. ASSUME W # {} PROVE \E m \in Answer(p) : \A u \in W : u <= m
    <2>1. PICK m \in W : \A u \in W : u <= m
        BY <1>2, <1>6, TimesFacts, GreatestNumber
    <2>2. Newer(m) = {}
        <3>1. ASSUME NEW v \in W PROVE ~(v > m)
            <4>1. v \in Int /\ m \in Int /\ v <= m
                BY <1>2, <2>1
            <4> QED
                BY <4>1
        <3> QED
            BY <3>1
    <2>3. Cardinality(Newer(m)) = 0
        BY <2>2, FS_EmptySet
    <2>4. m \in Answer(p)
        BY <1>3, <1>4, <2>3
    <2> QED
        BY <2>1, <2>4
<1> QED
    BY <1>1, <1>5, <1>6 DEF W

\* What a job has after a page: nothing twice, and all the bars from the next
\* startTime on or, when the paging ends, all of the period.
LEMMA PageFacts ==
    ASSUME FillInv, NEW p \in Jobs, pc[p] = "page",
           NEW i, i = current[p], NEW got, got = Answer(p), NEW kept, kept = Filter(p, got)
    PROVE  /\ kept \subseteq Due(p, i) /\ kept \subseteq Times
           /\ Held(bars[p][i]) \subseteq Due(p, i)
           /\ ~inclusive => kept \cap Held(bars[p][i]) = {}
           /\ \A t \in Held(bars[p][i]) \cup kept : \A u \in Series[i] :
                 u > t => u \in Held(bars[p][i]) \cup kept
           /\ kept = {} \/ Reached(got, kept) =>
                 Held(bars[p][i]) \cup kept = Due(p, i)
           /\ kept # {} /\ ~Reached(got, kept) =>
                 /\ NextStart(got) \in Times /\ NextStart(got) >= FromTime(p)
                 /\ Held(bars[p][i]) \cup kept = Since(i, NextStart(got))
<1> DEFINE H == Held(bars[p][i])
           W == Window(p)
           s == start[p]
           F == FromTime(p)
           D == Duration(period[p])
<1>1. /\ p \in Procs /\ i \in Instruments /\ ValidPeriod(period[p])
      /\ D \in Nat /\ F = Now - D /\ F \in Int /\ Now \in Nat
    BY PeriodFacts, TimesFacts DEF Procs, FillInv, PlaceOf, AtHand, FromTime
<1>2. s \in Nat /\ s <= Now /\ Series[i] \subseteq 0 .. Now /\ Series[i] \subseteq Times
    BY <1>1, TimesFacts DEF FillInv, TypeOK
<1>3. /\ got \subseteq W /\ W \subseteq Series[i]
      /\ \A t \in got, u \in W : u > t => u \in got
      /\ W # {} => \E m \in got : \A u \in W : u <= m
    BY <1>1, AnswerFacts
<1>4. kept = {t \in got : t >= F}
    BY DEF Filter
<1>5. \/ page[p] = 0 /\ s = Now /\ H = {}
      \/ page[p] # 0 /\ s >= F /\ H = Since(i, s)
    BY CountsFacts DEF FillInv, PageOf, Procs
<1>6. W = {t \in Series[i] : Before(p, t) /\ t >= s - D}
    BY DEF Window
\* The window has the bars of the period before startTime, and none behind it.
<1>7. ASSUME NEW t \in Series[i], t >= F, t \notin H PROVE t \in W
    <2>1. t \in 0 .. Now
        BY <1>2
    <2>2. t >= s - D
        BY <1>1, <1>2, <1>7, <2>1
    <2>3. Before(p, t)
        <3>1. CASE page[p] = 0
            BY <1>5, <2>1, <3>1 DEF Before
        <3>2. CASE page[p] # 0
            <4>1. ~(t >= s)
                BY <1>5, <1>7, <3>2 DEF Since
            <4> QED
                BY <1>2, <2>1, <3>2, <4>1 DEF Before
        <3> QED
            BY <3>1, <3>2
    <2> QED
        BY <1>6, <2>2, <2>3
<1>8. ASSUME NEW t \in W PROVE t <= s /\ (~inclusive => t \notin H)
    <2>1. t \in 0 .. Now /\ t \in Series[i] /\ Before(p, t)
        BY <1>2, <1>6
    <2>2. CASE page[p] = 0
        BY <1>5, <2>1, <2>2
    <2>3. CASE page[p] # 0
        BY <1>2, <1>5, <2>1, <2>3 DEF Before, Since
    <2> QED
        BY <2>2, <2>3
<1>9. H \subseteq Series[i] /\ \A t \in Series[i] : t \in Nat /\ (t > s => t \in H \/ t > Now)
    BY <1>2, <1>5 DEF Since
<1> HIDE DEF H, W, s, F, D
<1>10. H \subseteq Due(p, i)
    <2> SUFFICES ASSUME NEW t \in H PROVE t >= F
        BY <1>9 DEF Due, F
    <2>1. t \in Nat /\ s >= F /\ t >= s
        BY <1>5, <1>9 DEF Since
    <2> QED
        BY <1>1, <1>2, <2>1
<1>11. kept \subseteq Due(p, i) /\ kept \subseteq Times
    BY <1>2, <1>3, <1>4 DEF Due, F
<1>12. ~inclusive => kept \cap H = {}
    BY <1>3, <1>4, <1>8
<1>13. ASSUME NEW t \in H \cup kept, NEW u \in Series[i], u > t PROVE u \in H \cup kept
    <2>1. t \in Nat /\ u \in Nat /\ t >= F
        BY <1>9, <1>10, <1>11 DEF Due, F
    <2>2. u >= F
        BY <1>1, <1>13, <2>1
    <2>3. CASE t \in H
        <3>1. t >= s /\ H = Since(i, s)
            BY <1>5, <2>3 DEF Since
        <3>2. u >= s
            BY <1>2, <1>13, <2>1, <3>1
        <3> QED
            BY <3>1, <3>2 DEF Since
    <2>4. CASE u \notin H /\ t \notin H
        <3>1. t \in got /\ u \in W
            BY <1>4, <1>7, <2>2, <2>4
        <3>2. u \in got
            BY <1>3, <1>13, <3>1
        <3> QED
            BY <1>4, <2>2, <3>2
    <2> QED
        BY <2>3, <2>4
<1>14. ASSUME kept = {} \/ Reached(got, kept) PROVE H \cup kept = Due(p, i)
    <2> SUFFICES ASSUME NEW t \in Series[i], t >= F, t \notin H PROVE t \in kept
        BY <1>10, <1>11 DEF Due, F
    <2>1. t \in W /\ t \in Nat
        BY <1>7, <1>9
    <2>2. \A v \in got : v \in Nat
        BY <1>3, <1>9
    <2>3. CASE kept = {}
        <3>1. PICK m \in got : t <= m
            BY <1>3, <2>1
        <3>2. m >= F
            BY <1>1, <2>1, <2>2, <3>1
        <3> QED
            BY <1>4, <2>3, <3>2
    <2>4. CASE Reached(got, kept)
        <3>1. PICK v \in got : ~(v >= F)
            BY <1>4, <2>4 DEF Reached
        <3>2. t > v
            BY <1>1, <2>1, <2>2, <3>1
        <3>3. t \in got
            BY <1>3, <2>1, <3>2
        <3> QED
            BY <1>4, <3>3
    <2> QED
        BY <1>14, <2>3, <2>4
<1>15. ASSUME kept # {}, ~Reached(got, kept)
       PROVE  /\ NextStart(got) \in Times /\ NextStart(got) >= F
              /\ H \cup kept = Since(i, NextStart(got))
    <2>1. kept = got /\ got \in SUBSET Nat /\ got # {}
        BY <1>3, <1>9, <1>15 DEF Reached
    <2>2. NextStart(got) \in got /\ \A v \in got : NextStart(got) <= v
        BY <2>1, MinFacts DEF NextStart
    <2>3. NextStart(got) \in Times /\ NextStart(got) >= F /\ NextStart(got) \in Nat
        BY <1>4, <1>11, <2>1, <2>2
    <2>4. NextStart(got) <= s
        BY <1>3, <1>8, <2>2
    <2>5. ASSUME NEW t \in Series[i], t >= NextStart(got) PROVE t \in H \cup kept
        <3>1. t \in Nat
            BY <1>9
        <3>2. t = NextStart(got) \/ t > NextStart(got)
            BY <2>3, <2>5, <3>1
        <3>3. CASE t = NextStart(got)
            BY <2>1, <2>2, <3>3
        <3>4. CASE t > NextStart(got)
            BY <1>13, <2>1, <2>2, <3>4
        <3> QED
            BY <3>2, <3>3, <3>4
    <2>6. ASSUME NEW t \in H \cup kept PROVE t \in Series[i] /\ t >= NextStart(got)
        <3>1. CASE t \in kept
            BY <1>3, <2>1, <2>2, <2>3, <3>1, <1>9
        <3>2. CASE t \in H
            <4>1. t \in Nat /\ t >= s /\ t \in Series[i]
                BY <1>5, <1>9, <3>2 DEF Since
            <4> QED
                BY <1>2, <2>3, <2>4, <4>1
        <3> QED
            BY <3>1, <3>2
    <2> QED
        BY <2>3, <2>5, <2>6 DEF Since
<1> QED
    BY <1>10, <1>11, <1>12, <1>13, <1>14, <1>15 DEF H, F

-----------------------------------------------------------------------------
(* A step of one process, and the others.                                  *)

FillTyped ==
    /\ inclusive \in BOOLEAN
    /\ pc \in [Procs -> Places]
    /\ period \in [Procs -> JobPeriods \cup FetchPeriods \cup {Nothing}]
    /\ wanted \in [Procs -> SUBSET Instruments]
    /\ batch \in [Procs -> 0 .. BatchLen]
    /\ current \in [Procs -> Instruments \cup {Nothing}]
    /\ start \in [Procs -> Times \cup {Now}]
    /\ page \in [Procs -> 0 .. MaxPages]
    /\ bars \in [Procs -> [Instruments -> Counts(Times)]]
    /\ unsent \in [Procs -> Counts(Times)]
    /\ counted \in [Procs -> SUBSET Instruments]
    /\ failed \in [Procs -> SUBSET Instruments]
    /\ cut \in [Procs -> SUBSET Instruments]

SenderTyped ==
    /\ building \subseteq Procs /\ mixed \in BOOLEAN
    /\ buffer \in Counts(Rows) /\ table \in Counts(Rows)
    /\ trouble \subseteq {"race", "flush"}

\* Nothing changes for the other processes.
Alone(p) ==
    /\ inclusive' = inclusive
    /\ \A q \in Procs \ {p} :
        /\ pc'[q] = pc[q] /\ period'[q] = period[q] /\ wanted'[q] = wanted[q]
        /\ batch'[q] = batch[q] /\ current'[q] = current[q] /\ start'[q] = start[q]
        /\ page'[q] = page[q] /\ bars'[q] = bars[q] /\ unsent'[q] = unsent[q]
        /\ counted'[q] = counted[q] /\ cut'[q] = cut[q]

\* It does not touch the sender, and what was counted stays as it was.
Quiet(p) ==
    /\ UNCHANGED sender
    /\ counted'[p] = counted[p] /\ \A i \in counted[p] : bars'[p][i] = bars[p][i]
    /\ pc[p] # "at" /\ pc'[p] # "at"
    /\ pc'[p] = "row" => unsent'[p] = bars'[p][current'[p]]

Fits(p) == PlaceOf(p) /\ PageOf(p) /\ BarsOf(p) /\ FilledOf(p)

\* What is the same for a process fits as it did.
LEMMA SameFits ==
    ASSUME NEW q \in Procs, Fits(q), inclusive' = inclusive,
           pc'[q] = pc[q], period'[q] = period[q], wanted'[q] = wanted[q],
           batch'[q] = batch[q], current'[q] = current[q], start'[q] = start[q],
           page'[q] = page[q], bars'[q] = bars[q], unsent'[q] = unsent[q],
           counted'[q] = counted[q], cut'[q] = cut[q]
    PROVE  Fits(q)'
<1>1. FromTime(q)' = FromTime(q)
    BY DEF FromTime
<1>2. \A i : Due(q, i)' = Due(q, i)
    BY <1>1 DEF Due
<1>3. PlaceOf(q)'
    BY DEF Fits, PlaceOf, Fresh
<1>4. PageOf(q)'
    BY <1>1, <1>2 DEF Fits, PageOf
<1>5. BarsOf(q)'
    BY DEF Fits, BarsOf
<1>6. FilledOf(q)'
    BY <1>1, <1>2 DEF Fits, FilledOf
<1> QED
    BY <1>3, <1>4, <1>5, <1>6 DEF Fits

LEMMA OneStep ==
    ASSUME FillInv, NEW p \in Procs, Alone(p), FillTyped', SenderTyped', Fits(p)'
    PROVE  FillInv'
<1>1. \A q \in Procs : Fits(q)
    BY DEF FillInv, Fits
<1>2. ASSUME NEW q \in Procs \ {p} PROVE Fits(q)'
    BY <1>1, SameFits DEF Alone
<1>3. \A q \in Procs : Fits(q)'
    BY <1>2
<1>4. TypeOK'
    BY DEF TypeOK, FillTyped, SenderTyped
<1> QED
    BY <1>3, <1>4 DEF FillInv, Fits

\* A page is collected.
LEMMA CollectFacts ==
    ASSUME FillTyped, NEW p \in Procs, NEW c \in Instruments, c = current[p],
           NEW kept \in SUBSET Times, Collect(p, kept)
    PROVE  /\ bars' \in [Procs -> [Instruments -> Counts(Times)]]
           /\ bars'[p][c] = Plus(bars[p][c], kept)
           /\ Held(bars'[p][c]) = Held(bars[p][c]) \cup kept
           /\ \A i \in Instruments \ {c} : bars'[p][i] = bars[p][i]
           /\ \A q \in Procs \ {p} : bars'[q] = bars[q]
<1>1. bars[p][c] \in Counts(Times)
    BY DEF FillTyped
<1>2. Plus(bars[p][c], kept) \in Counts(Times) /\ kept \cap Times = kept
    BY <1>1, PlusFacts
<1>3. bars' = [bars EXCEPT ![p][c] = Plus(bars[p][c], kept)]
    BY DEF Collect
<1>4. Held(Plus(bars[p][c], kept)) = Held(bars[p][c]) \cup kept
    BY <1>1, <1>2, PlusFacts
<1>5. ASSUME NEW b \in Counts(Times), bars' = [bars EXCEPT ![p][c] = b]
      PROVE  /\ bars' \in [Procs -> [Instruments -> Counts(Times)]]
             /\ bars'[p][c] = b /\ \A i \in Instruments \ {c} : bars'[p][i] = bars[p][i]
             /\ \A q \in Procs \ {p} : bars'[q] = bars[q]
    BY <1>5 DEF FillTyped
<1> QED
    BY <1>2, <1>3, <1>4, <1>5

\* A process without bars, and one that has everything but some place to be.
LEMMA TypesFacts ==
    ASSUME FillInv
    PROVE  /\ FillTyped /\ SenderTyped
           /\ 0 \in 0 .. MaxPages /\ 0 \in 0 .. BatchLen /\ BatchLen \in Nat /\ MaxPages \in Nat
           /\ \A p \in Jobs : p \in Procs /\ p \notin Fetches
BY HistoricalAssumption DEF FillInv, TypeOK, FillTyped, SenderTyped, Procs

-----------------------------------------------------------------------------
(* The steps of the paging.                                                *)

LEMMA BeginFill ==
    ASSUME FillInv, NEW p \in Procs, Begin(p) \/ BeginFetch(p) PROVE FillInv' /\ Alone(p) /\ Quiet(p)
<1>0. FillTyped /\ SenderTyped
    BY TypesFacts
<1>1. PICK d \in JobPeriods \cup FetchPeriods, w \in SUBSET Instruments :
          /\ pc[p] = "idle"
          /\ period' = [period EXCEPT ![p] = d] /\ wanted' = [wanted EXCEPT ![p] = w]
          /\ pc' = [pc EXCEPT ![p] = "next"]
          /\ UNCHANGED <<inclusive, current, paging, unsent, batch, report, sender>>
    <2>1. \A ids \in SUBSET Instruments : Selected(ids) \in SUBSET Instruments
        BY DEF Selected
    <2> QED
        BY <2>1 DEF Begin, BeginFetch, Goto
<1>2. FillTyped'
    BY <1>0, <1>1 DEF FillTyped, paging, report, Places
<1>3. SenderTyped'
    BY <1>0, <1>1 DEF SenderTyped, sender
<1>4. Alone(p)
    BY <1>0, <1>1 DEF Alone, FillTyped, paging, report
<1>5. \A i \in Instruments : bars'[p][i] = NoBars /\ i \notin counted'[p] /\ i \notin cut'[p]
    BY <1>1 DEF FillInv, PlaceOf, Fresh, paging, report
<1>6. pc'[p] = "next" /\ start'[p] = start[p] /\ page'[p] = page[p]
    BY <1>0, <1>1 DEF FillTyped, paging
<1>7. PlaceOf(p)'
    BY <1>2, <1>5, <1>6 DEF PlaceOf, Fresh, FillTyped, AtHand
<1>8. PageOf(p)'
    BY <1>1, <1>6 DEF PageOf, FillInv, Storing
<1>9. BarsOf(p)' /\ FilledOf(p)'
    BY <1>2, <1>5, <1>6, CountsFacts DEF BarsOf, FilledOf, FillTyped
<1>20. Quiet(p)
    BY <1>1, <1>6 DEF Quiet, paging, report
<1> QED
    BY <1>2, <1>3, <1>4, <1>7, <1>8, <1>9, <1>20, OneStep DEF Fits

\* A process whose bars, instruments and report stay goes on to the next
\* instrument or to its end.
LEMMA LeaveFill ==
    ASSUME FillInv, NEW p \in Procs, BeginFails(p) \/ Finish(p) \/ EnsureTableFails(p)
    PROVE  FillInv' /\ Alone(p) /\ Quiet(p)
<1>0. FillTyped /\ SenderTyped
    BY TypesFacts
<1>1. /\ \E w \in {"next", "done"} : pc' = [pc EXCEPT ![p] = w]
      /\ pc[p] \notin {"page", "at"}
      /\ UNCHANGED <<inclusive, period, wanted, current, paging, unsent, batch, counted, sender>>
    BY DEF BeginFails, Finish, EnsureTableFails, Fails, Goto, report
<1>2. failed' \in [Procs -> SUBSET Instruments]
    <2>1. CASE failed' = failed
        BY <1>0, <2>1 DEF FillTyped
    <2>2. CASE EnsureTableFails(p)
        <3>1. current[p] \in Instruments
            BY <2>2 DEF EnsureTableFails, FillInv, PlaceOf, AtHand
        <3> QED
            BY <1>0, <2>2, <3>1 DEF EnsureTableFails, Fails, FillTyped
    <2> QED
        BY <2>1, <2>2 DEF BeginFails, Finish, report
<1>3. FillTyped'
    BY <1>0, <1>1, <1>2 DEF FillTyped, paging, Places
<1>4. SenderTyped'
    BY <1>0, <1>1 DEF SenderTyped, sender
<1>5. Alone(p)
    BY <1>0, <1>1 DEF Alone, FillTyped, paging
<1>6. pc'[p] \in {"next", "done"}
    BY <1>0, <1>1 DEF FillTyped
<1>7. FromTime(p)' = FromTime(p) /\ \A i : Due(p, i)' = Due(p, i)
    BY <1>1 DEF FromTime, Due
<1>8. PlaceOf(p)'
    BY <1>1, <1>6 DEF FillInv, PlaceOf, Fresh, paging, AtHand
<1>9. PageOf(p)'
    BY <1>1, <1>6 DEF FillInv, PageOf, paging, Storing
<1>10. BarsOf(p)'
    BY <1>1, <1>6 DEF FillInv, BarsOf, paging
<1>11. FilledOf(p)'
    BY <1>1, <1>7 DEF FillInv, FilledOf, paging
<1>20. Quiet(p)
    BY <1>1, <1>6 DEF Quiet, paging
<1> QED
    BY <1>3, <1>4, <1>5, <1>8, <1>9, <1>10, <1>11, <1>20, OneStep DEF Fits

LEMMA NextInstrumentFill ==
    ASSUME FillInv, NEW p \in Procs, NextInstrument(p) PROVE FillInv' /\ Alone(p) /\ Quiet(p)
<1>0. FillTyped /\ SenderTyped /\ (p \in Jobs => p \notin Fetches)
    BY TypesFacts
<1>1. PICK i \in wanted[p] :
          /\ pc[p] = "next"
          /\ wanted' = [wanted EXCEPT ![p] = @ \ {i}]
          /\ current' = [current EXCEPT ![p] = i]
          /\ \/ /\ p \in Fetches \/ ValidPeriod(period[p])
                /\ pc' = [pc EXCEPT ![p] = "page"] /\ UNCHANGED failed
             \/ failed' = [failed EXCEPT ![p] = @ \cup {i}] /\ UNCHANGED pc
          /\ UNCHANGED <<inclusive, period, paging, unsent, batch, counted, sender>>
    BY DEF NextInstrument, Goto
<1>2. i \in Instruments /\ Fresh(p, i)
    BY <1>0, <1>1 DEF FillTyped, FillInv, PlaceOf
<1>3. FillTyped'
    <2>1. pc' \in [Procs -> Places] /\ failed' \in [Procs -> SUBSET Instruments]
        <3>1. pc \in [Procs -> Places] /\ failed \in [Procs -> SUBSET Instruments]
            BY <1>0 DEF FillTyped
        <3>2. CASE pc' = [pc EXCEPT ![p] = "page"] /\ failed' = failed
            BY <3>1, <3>2 DEF Places
        <3>3. CASE failed' = [failed EXCEPT ![p] = @ \cup {i}] /\ pc' = pc
            <4>1. failed[p] \cup {i} \in SUBSET Instruments
                BY <1>2, <3>1
            <4> QED
                BY <3>1, <3>3, <4>1
        <3> QED
            BY <1>1, <3>2, <3>3
    <2>3. wanted' \in [Procs -> SUBSET Instruments]
        BY <1>0, <1>1 DEF FillTyped
    <2>4. current' \in [Procs -> Instruments \cup {Nothing}]
        BY <1>0, <1>1, <1>2 DEF FillTyped
    <2>2. UNCHANGED <<inclusive, period, start, page, bars, cut, unsent, batch, counted>>
        BY <1>1 DEF paging
    <2> QED
        BY <1>0, <2>1, <2>2, <2>3, <2>4 DEF FillTyped
<1>4. SenderTyped'
    BY <1>0, <1>1 DEF SenderTyped, sender
<1>5. Alone(p)
    BY <1>0, <1>1 DEF Alone, FillTyped, paging
<1>6. /\ pc'[p] = "next" \/ (pc'[p] = "page" /\ (p \in Jobs => ValidPeriod(period[p])))
      /\ current'[p] = i /\ wanted'[p] = wanted[p] \ {i}
    BY <1>0, <1>1 DEF FillTyped
<1>7. FromTime(p)' = FromTime(p) /\ \A k : Due(p, k)' = Due(p, k)
    BY <1>1 DEF FromTime, Due
<1>8. PlaceOf(p)'
    BY <1>1, <1>2, <1>6 DEF FillInv, PlaceOf, Fresh, paging
<1>9. PageOf(p)'
    BY <1>1, <1>2, <1>6 DEF FillInv, PageOf, Fresh, paging, Storing
<1>10. BarsOf(p)'
    BY <1>1, <1>6 DEF FillInv, BarsOf, paging
<1>11. FilledOf(p)'
    BY <1>1, <1>7 DEF FillInv, FilledOf, paging
<1>20. Quiet(p)
    BY <1>1, <1>6 DEF Quiet, paging
<1> QED
    BY <1>3, <1>4, <1>5, <1>8, <1>9, <1>10, <1>11, <1>20, OneStep DEF Fits

\* The places that the end of the paging leads to.
LEMMA CollectedFacts ==
    ASSUME FillTyped, NEW p \in Procs, NEW b \in Counts(Times), Collected(p, b)
    PROVE  /\ pc' \in [Procs -> Places]
           /\ pc'[p] = IF Held(b) = {} THEN "next" ELSE "ensure"
           /\ \A q \in Procs \ {p} : pc'[q] = pc[q]
BY DEF Collected, Goto, FillTyped, Places

LEMMA PagingOverFacts ==
    ASSUME FillTyped, NEW p \in Procs, PagingOver(p)
    PROVE  /\ start' \in [Procs -> Times \cup {Now}] /\ page' \in [Procs -> 0 .. MaxPages]
           /\ start'[p] = Now /\ page'[p] = 0
           /\ \A q \in Procs \ {p} : start'[q] = start[q] /\ page'[q] = page[q]
<1>1. 0 \in 0 .. MaxPages
    BY HistoricalAssumption
<1> QED
    BY <1>1 DEF PagingOver, FillTyped

LEMMA FetchPageFill ==
    ASSUME FillInv, NEW p \in Procs, FetchPage(p) PROVE FillInv' /\ Alone(p) /\ Quiet(p)
<1>0. FillTyped /\ SenderTyped
    BY TypesFacts
<1> DEFINE i == current[p]
           got == Answer(p)
           kept == Filter(p, got)
           H == Held(bars[p][i])
<1>1. /\ p \in Jobs /\ pc[p] = "page" /\ page[p] < MaxPages /\ Collect(p, kept)
      /\ \/ /\ kept = {} \/ Reached(got, kept)
            /\ Collected(p, bars'[p][i]) /\ PagingOver(p)
         \/ /\ kept # {} /\ ~Reached(got, kept)
            /\ start' = [start EXCEPT ![p] = NextStart(got)]
            /\ page' = [page EXCEPT ![p] = @ + 1]
            /\ UNCHANGED pc
      /\ UNCHANGED <<inclusive, period, wanted, current, cut, unsent, batch, counted, failed,
                     sender>>
    BY DEF FetchPage, CountPage, report
<1>2. /\ i \in Instruments /\ i \notin wanted[p] /\ i \notin counted[p]
      /\ ValidPeriod(period[p])
    BY <1>1 DEF FillInv, PlaceOf, AtHand
<1>3. /\ kept \subseteq Due(p, i) /\ kept \subseteq Times /\ H \subseteq Due(p, i)
      /\ ~inclusive => kept \cap H = {}
      /\ \A t \in H \cup kept : \A u \in Series[i] : u > t => u \in H \cup kept
      /\ kept = {} \/ Reached(got, kept) => H \cup kept = Due(p, i)
      /\ kept # {} /\ ~Reached(got, kept) =>
             /\ NextStart(got) \in Times /\ NextStart(got) >= FromTime(p)
             /\ H \cup kept = Since(i, NextStart(got))
    BY <1>1, PageFacts
<1>4. Due(p, i) \subseteq Series[i] /\ \A t \in Due(p, i) : t >= FromTime(p)
    BY DEF Due
<1> HIDE DEF kept, got
<1>5. /\ bars' \in [Procs -> [Instruments -> Counts(Times)]]
      /\ bars'[p][i] = Plus(bars[p][i], kept)
      /\ Held(bars'[p][i]) = H \cup kept
      /\ \A k \in Instruments \ {i} : bars'[p][k] = bars[p][k]
      /\ \A q \in Procs \ {p} : bars'[q] = bars[q]
    BY <1>0, <1>1, <1>2, <1>3, CollectFacts
<1>6. bars[p][i] \in Counts(Times) /\ bars'[p][i] \in Counts(Times)
    BY <1>0, <1>2, <1>5 DEF FillTyped
\* Where it goes.
<1>7. /\ pc' \in [Procs -> Places]
      /\ start' \in [Procs -> Times \cup {Now}] /\ page' \in [Procs -> 0 .. MaxPages]
      /\ \A q \in Procs \ {p} : pc'[q] = pc[q] /\ start'[q] = start[q] /\ page'[q] = page[q]
      /\ \/ /\ H \cup kept = Due(p, i) /\ pc'[p] \in {"next", "ensure"}
            /\ start'[p] = Now /\ page'[p] = 0
         \/ /\ H \cup kept = Since(i, start'[p]) /\ start'[p] >= FromTime(p)
            /\ pc'[p] = "page" /\ page'[p] # 0
    <2>1. CASE /\ kept = {} \/ Reached(got, kept)
               /\ Collected(p, bars'[p][i]) /\ PagingOver(p)
        BY <1>0, <1>3, <1>6, <2>1, CollectedFacts, PagingOverFacts
    <2>2. CASE /\ kept # {} /\ ~Reached(got, kept)
               /\ start' = [start EXCEPT ![p] = NextStart(got)]
               /\ page' = [page EXCEPT ![p] = @ + 1]
               /\ UNCHANGED pc
        <3>1. page[p] \in Nat /\ page[p] + 1 \in 0 .. MaxPages /\ page[p] + 1 # 0
            BY <1>0, <1>1, TypesFacts DEF FillTyped
        <3> QED
            BY <1>0, <1>1, <1>3, <2>2, <3>1 DEF FillTyped
    <2> QED
        BY <1>1, <2>1, <2>2
<1>8. FillTyped'
    BY <1>0, <1>1, <1>5, <1>7 DEF FillTyped
<1>9. SenderTyped'
    BY <1>0, <1>1 DEF SenderTyped, sender
<1>10. Alone(p)
    BY <1>1, <1>5, <1>7 DEF Alone
<1>11. FromTime(p)' = FromTime(p) /\ \A k : Due(p, k)' = Due(p, k)
    BY <1>1 DEF FromTime, Due
<1>12. PlaceOf(p)'
    <2>1. \A k \in wanted'[p] : Fresh(p, k)'
        <3> SUFFICES ASSUME NEW k \in wanted[p] PROVE Fresh(p, k)'
            BY <1>1
        <3>1. k # i /\ k \in Instruments /\ Fresh(p, k)
            BY <1>0, <1>2 DEF FillInv, PlaceOf, FillTyped
        <3> QED
            BY <1>1, <1>5, <3>1 DEF Fresh
    <2> QED
        BY <1>1, <1>2, <1>7, <2>1 DEF PlaceOf
<1>13. PageOf(p)'
    BY <1>1, <1>5, <1>7, <1>11 DEF PageOf, Storing, Since
<1>14. BarsOf(p)'
    <2>1. \A k \in Instruments : Held(bars'[p][k]) \subseteq Series[k]
        <3>1. \A k \in Instruments : Held(bars[p][k]) \subseteq Series[k]
            BY DEF FillInv, BarsOf
        <3>2. H \cup kept \subseteq Series[i]
            BY <1>3, <1>4
        <3> QED
            BY <1>5, <3>1, <3>2
    <2> QED
        BY <1>7, <2>1 DEF BarsOf
<1>15. FilledOf(p)'
    <2>1. /\ \A k \in Instruments : \A t \in Held(bars[p][k]) : \A u \in Series[k] :
                t >= FromTime(p) /\ (u > t => u \in Held(bars[p][k]))
          /\ \A k \in counted[p] \ cut[p] : Held(bars[p][k]) = Due(p, k)
          /\ ~inclusive => \A k \in Instruments, t \in Times : bars[p][k][t] <= 1
        BY <1>1 DEF FillInv, FilledOf
    <2>2. \A t \in H \cup kept : \A u \in Series[i] :
             t >= FromTime(p) /\ (u > t => u \in H \cup kept)
        BY <1>3, <1>4
    <2>3. ASSUME NEW k \in Instruments, NEW t \in Held(bars'[p][k]), NEW u \in Series[k]
          PROVE  t >= FromTime(p) /\ (u > t => u \in Held(bars'[p][k]))
        <3>1. CASE k = i
            BY <1>5, <2>2, <2>3, <3>1
        <3>2. CASE k # i
            BY <1>5, <2>1, <2>3, <3>2
        <3> QED
            BY <3>1, <3>2
    <2>4. \A k \in counted'[p] \ cut'[p] : Held(bars'[p][k]) = Due(p, k)
        <3>1. counted[p] \subseteq Instruments
            BY <1>0 DEF FillTyped
        <3> QED
            BY <1>1, <1>2, <1>5, <2>1, <3>1
    <2>5. ASSUME ~inclusive, NEW k \in Instruments, NEW t \in Times PROVE bars'[p][k][t] <= 1
        <3>1. CASE k # i
            BY <1>5, <2>1, <2>5, <3>1
        <3>2. CASE k = i /\ t \notin kept
            BY <1>5, <1>6, <2>1, <2>5, <3>2, PlusFacts
        <3>3. CASE k = i /\ t \in kept
            <4>1. t \notin H
                BY <1>3, <2>5, <3>3
            <4>2. bars[p][i][t] = 0
                BY <1>6, <4>1, CountsFacts
            <4> QED
                BY <1>5, <1>6, <3>3, <4>2, PlusFacts
        <3> QED
            BY <3>1, <3>2, <3>3
    <2> QED
        BY <1>1, <1>11, <2>3, <2>4, <2>5 DEF FilledOf
<1>20. Quiet(p)
    <2>1. counted[p] \subseteq Instruments
        BY <1>0 DEF FillTyped
    <2> QED
        BY <1>1, <1>2, <1>5, <1>7, <2>1 DEF Quiet
<1> QED
    BY <1>8, <1>9, <1>10, <1>12, <1>13, <1>14, <1>15, <1>20, OneStep DEF Fits

LEMMA PageLimitFill ==
    ASSUME FillInv, NEW p \in Procs, PageLimit(p) PROVE FillInv' /\ Alone(p) /\ Quiet(p)
<1>0. FillTyped /\ SenderTyped
    BY TypesFacts
<1> DEFINE i == current[p]
<1>1. /\ p \in Jobs /\ pc[p] = "page"
      /\ cut' = [cut EXCEPT ![p] = @ \cup {i}]
      /\ Collected(p, bars[p][i]) /\ PagingOver(p)
      /\ UNCHANGED <<inclusive, period, wanted, current, bars, unsent, batch, counted, failed,
                     sender>>
    BY DEF PageLimit, report
<1>2. i \in Instruments /\ i \notin wanted[p] /\ i \notin counted[p] /\ ValidPeriod(period[p])
    BY <1>1 DEF FillInv, PlaceOf, AtHand
<1>3. bars[p][i] \in Counts(Times)
    BY <1>0, <1>2 DEF FillTyped
<1>4. /\ pc' \in [Procs -> Places] /\ pc'[p] \in {"next", "ensure"}
      /\ \A q \in Procs \ {p} : pc'[q] = pc[q]
    BY <1>0, <1>1, <1>3, CollectedFacts
<1>5. /\ start' \in [Procs -> Times \cup {Now}] /\ page' \in [Procs -> 0 .. MaxPages]
      /\ start'[p] = Now /\ page'[p] = 0
      /\ \A q \in Procs \ {p} : start'[q] = start[q] /\ page'[q] = page[q]
    BY <1>0, <1>1, PagingOverFacts
<1>6. /\ cut' \in [Procs -> SUBSET Instruments] /\ cut'[p] = cut[p] \cup {i}
      /\ \A q \in Procs \ {p} : cut'[q] = cut[q]
    BY <1>0, <1>1, <1>2 DEF FillTyped
<1>7. FillTyped'
    BY <1>0, <1>1, <1>4, <1>5, <1>6 DEF FillTyped
<1>8. SenderTyped'
    BY <1>0, <1>1 DEF SenderTyped, sender
<1>9. Alone(p)
    BY <1>1, <1>4, <1>5, <1>6 DEF Alone
<1>10. FromTime(p)' = FromTime(p) /\ \A k : Due(p, k)' = Due(p, k)
    BY <1>1 DEF FromTime, Due
<1>11. PlaceOf(p)'
    BY <1>1, <1>2, <1>4, <1>6 DEF FillInv, PlaceOf, Fresh
<1>12. PageOf(p)'
    BY <1>1, <1>4, <1>5, <1>6 DEF PageOf
<1>13. BarsOf(p)'
    BY <1>1, <1>4 DEF FillInv, BarsOf
<1>14. FilledOf(p)'
    BY <1>1, <1>6, <1>10 DEF FillInv, FilledOf
<1>20. Quiet(p)
    BY <1>1, <1>4 DEF Quiet
<1> QED
    BY <1>7, <1>8, <1>9, <1>11, <1>12, <1>13, <1>14, <1>20, OneStep DEF Fits

LEMMA FetchFailsFill ==
    ASSUME FillInv, NEW p \in Procs, FetchFails(p) PROVE FillInv' /\ Alone(p) /\ Quiet(p)
<1>0. FillTyped /\ SenderTyped
    BY TypesFacts
<1> DEFINE i == current[p]
<1>1. /\ pc[p] = "page"
      /\ bars' = [bars EXCEPT ![p][i] = NoBars]
      /\ failed' = [failed EXCEPT ![p] = @ \cup {i}]
      /\ pc' = [pc EXCEPT ![p] = "next"] /\ PagingOver(p)
      /\ UNCHANGED <<inclusive, period, wanted, current, cut, unsent, batch, counted, sender>>
    BY DEF FetchFails, Fails, Goto
<1>2. i \in Instruments /\ i \notin wanted[p] /\ i \notin counted[p]
    BY <1>1 DEF FillInv, PlaceOf, AtHand
<1>3. /\ bars' \in [Procs -> [Instruments -> Counts(Times)]]
      /\ bars'[p][i] = NoBars /\ \A k \in Instruments \ {i} : bars'[p][k] = bars[p][k]
      /\ \A q \in Procs \ {p} : bars'[q] = bars[q]
    BY <1>0, <1>1, <1>2, CountsFacts DEF FillTyped
<1>4. /\ start' \in [Procs -> Times \cup {Now}] /\ page' \in [Procs -> 0 .. MaxPages]
      /\ start'[p] = Now /\ page'[p] = 0
      /\ \A q \in Procs \ {p} : start'[q] = start[q] /\ page'[q] = page[q]
    BY <1>0, <1>1, PagingOverFacts
<1>5. /\ pc' \in [Procs -> Places] /\ pc'[p] = "next"
      /\ \A q \in Procs \ {p} : pc'[q] = pc[q]
      /\ failed' \in [Procs -> SUBSET Instruments]
    BY <1>0, <1>1, <1>2 DEF FillTyped, Places
<1>6. FillTyped'
    BY <1>0, <1>1, <1>3, <1>4, <1>5 DEF FillTyped
<1>7. SenderTyped'
    BY <1>0, <1>1 DEF SenderTyped, sender
<1>8. Alone(p)
    BY <1>1, <1>3, <1>4, <1>5 DEF Alone
<1>9. FromTime(p)' = FromTime(p) /\ \A k : Due(p, k)' = Due(p, k)
    BY <1>1 DEF FromTime, Due
<1>10. \A k \in Instruments : bars'[p][k] = bars[p][k] \/ bars'[p][k] = NoBars
    BY <1>3
<1>11. PlaceOf(p)'
    <2>1. wanted[p] \subseteq Instruments /\ \A k \in wanted[p] : Fresh(p, k)
        BY <1>0 DEF FillTyped, FillInv, PlaceOf
    <2>2. \A k \in wanted'[p] : Fresh(p, k)'
        BY <1>1, <1>10, <2>1 DEF Fresh
    <2> QED
        BY <1>5, <2>2 DEF PlaceOf, AtHand
<1>12. PageOf(p)'
    BY <1>4, <1>5 DEF PageOf, Storing
<1>13. BarsOf(p)'
    BY <1>5, <1>10, CountsFacts DEF FillInv, BarsOf
<1>14. FilledOf(p)'
    <2> SUFFICES ASSUME p \in Jobs PROVE FilledOf(p)'
        BY DEF FilledOf
    <2>1. \A k \in Instruments : \A t \in Held(bars'[p][k]) : \A u \in Series[k] :
              t >= FromTime(p) /\ (u > t => u \in Held(bars'[p][k]))
        BY <1>10, CountsFacts DEF FillInv, FilledOf
    <2>2. \A k \in counted'[p] \ cut'[p] : Held(bars'[p][k]) = Due(p, k)
        <3>1. counted[p] \subseteq Instruments
            BY <1>0 DEF FillTyped
        <3> QED
            BY <1>1, <1>2, <1>3, <3>1 DEF FillInv, FilledOf
    <2>3. ~inclusive => \A k \in Instruments, t \in Times : bars'[p][k][t] <= 1
        BY <1>10, CountsFacts DEF FillInv, FilledOf
    <2> QED
        BY <1>1, <1>9, <2>1, <2>2, <2>3 DEF FilledOf
<1>20. Quiet(p)
    <2>1. counted[p] \subseteq Instruments
        BY <1>0 DEF FillTyped
    <2> QED
        BY <1>1, <1>2, <1>3, <1>5, <2>1 DEF Quiet
<1> QED
    BY <1>6, <1>7, <1>8, <1>11, <1>12, <1>13, <1>14, <1>20, OneStep DEF Fits

LEMMA FetchOnceFill ==
    ASSUME FillInv, NEW p \in Procs, FetchOnce(p) PROVE FillInv' /\ Alone(p) /\ Quiet(p)
<1>0. FillTyped /\ SenderTyped /\ p \notin Jobs
    BY TypesFacts DEF FetchOnce
<1> DEFINE i == current[p]
           got == Answer(p)
<1>1. /\ pc[p] = "page" /\ Collect(p, got) /\ Collected(p, bars'[p][i])
      /\ UNCHANGED <<inclusive, period, wanted, current, start, page, cut, unsent, batch,
                     report, sender>>
    BY DEF FetchOnce
<1>2. i \in Instruments /\ i \notin wanted[p] /\ i \notin counted[p]
    BY <1>1 DEF FillInv, PlaceOf, AtHand
<1>3. got \subseteq Series[i] /\ got \subseteq Times
    BY <1>2, AnswerFacts, TimesFacts
<1> HIDE DEF got
<1>4. /\ bars' \in [Procs -> [Instruments -> Counts(Times)]]
      /\ Held(bars'[p][i]) = Held(bars[p][i]) \cup got
      /\ \A k \in Instruments \ {i} : bars'[p][k] = bars[p][k]
      /\ \A q \in Procs \ {p} : bars'[q] = bars[q]
    BY <1>0, <1>1, <1>2, <1>3, CollectFacts
<1>5. bars'[p][i] \in Counts(Times)
    BY <1>2, <1>4
<1>6. /\ pc' \in [Procs -> Places] /\ pc'[p] \in {"next", "ensure"}
      /\ \A q \in Procs \ {p} : pc'[q] = pc[q]
    BY <1>0, <1>1, <1>5, CollectedFacts
<1>7. FillTyped'
    BY <1>0, <1>1, <1>4, <1>6 DEF FillTyped, report
<1>8. SenderTyped'
    BY <1>0, <1>1 DEF SenderTyped, sender
<1>9. Alone(p)
    BY <1>1, <1>4, <1>6 DEF Alone, report
<1>10. PlaceOf(p)'
    <2>1. \A k \in wanted'[p] : Fresh(p, k)'
        <3> SUFFICES ASSUME NEW k \in wanted[p] PROVE Fresh(p, k)'
            BY <1>1
        <3>1. k # i /\ k \in Instruments /\ Fresh(p, k)
            BY <1>0, <1>2 DEF FillInv, PlaceOf, FillTyped
        <3> QED
            BY <1>1, <1>4, <3>1 DEF Fresh, report
    <2> QED
        BY <1>0, <1>1, <1>2, <1>6, <2>1 DEF PlaceOf, report
<1>11. PageOf(p)' /\ FilledOf(p)'
    BY <1>0 DEF PageOf, FilledOf
<1>12. BarsOf(p)'
    <2>1. \A k \in Instruments : Held(bars'[p][k]) \subseteq Series[k]
        <3>1. \A k \in Instruments : Held(bars[p][k]) \subseteq Series[k]
            BY DEF FillInv, BarsOf
        <3> QED
            BY <1>3, <1>4, <3>1
    <2> QED
        BY <1>6, <2>1 DEF BarsOf
<1>20. Quiet(p)
    <2>1. counted[p] \subseteq Instruments
        BY <1>0 DEF FillTyped
    <2> QED
        BY <1>1, <1>2, <1>4, <1>6, <2>1 DEF Quiet, report
<1> QED
    BY <1>7, <1>8, <1>9, <1>10, <1>11, <1>12, <1>20, OneStep DEF Fits

-----------------------------------------------------------------------------
(* The steps of the upsert.                                                *)

LEMMA EnsureTableFill ==
    ASSUME FillInv, NEW p \in Procs, EnsureTable(p) PROVE FillInv' /\ Alone(p) /\ Quiet(p)
<1>0. FillTyped /\ SenderTyped
    BY TypesFacts
<1>1. /\ pc[p] = "ensure" /\ pc' = [pc EXCEPT ![p] = "row"]
      /\ unsent' = [unsent EXCEPT ![p] = bars[p][current[p]]]
      /\ UNCHANGED <<inclusive, period, wanted, current, paging, batch, report, sender>>
    BY DEF EnsureTable, Goto
<1>2. current[p] \in Instruments
    BY <1>1 DEF FillInv, PlaceOf, AtHand
<1>3. /\ unsent' \in [Procs -> Counts(Times)] /\ unsent'[p] = bars[p][current[p]]
      /\ \A q \in Procs \ {p} : unsent'[q] = unsent[q]
    BY <1>0, <1>1, <1>2 DEF FillTyped
<1>4. /\ pc' \in [Procs -> Places] /\ pc'[p] = "row" /\ \A q \in Procs \ {p} : pc'[q] = pc[q]
    BY <1>0, <1>1 DEF FillTyped, Places
<1>5. FillTyped'
    BY <1>0, <1>1, <1>3, <1>4 DEF FillTyped, paging, report
<1>6. SenderTyped'
    BY <1>0, <1>1 DEF SenderTyped, sender
<1>7. Alone(p)
    BY <1>1, <1>3, <1>4 DEF Alone, paging, report
<1>8. FromTime(p)' = FromTime(p) /\ \A k : Due(p, k)' = Due(p, k)
    BY <1>1 DEF FromTime, Due
<1>9. PlaceOf(p)'
    BY <1>1, <1>4 DEF FillInv, PlaceOf, Fresh, paging, report, AtHand
<1>10. PageOf(p)'
    BY <1>1, <1>4, <1>8 DEF FillInv, PageOf, paging, Storing
<1>11. BarsOf(p)'
    BY <1>1, <1>2, <1>3, <1>4 DEF FillInv, BarsOf, paging
<1>12. FilledOf(p)'
    BY <1>1, <1>8 DEF FillInv, FilledOf, paging, report
<1>20. Quiet(p)
    BY <1>1, <1>3, <1>4 DEF Quiet, paging, report
<1> QED
    BY <1>5, <1>6, <1>7, <1>9, <1>10, <1>11, <1>12, <1>20, OneStep DEF Fits

LEMMA RowFill ==
    ASSUME FillInv, NEW p \in Procs, Row(p) PROVE FillInv' /\ Alone(p)
<1>0. FillTyped /\ SenderTyped
    BY TypesFacts
<1>1. /\ pc[p] = "row" /\ pc' = [pc EXCEPT ![p] = "at"]
      /\ Held(unsent[p]) # {} /\ (p \in Jobs => batch[p] # BatchLen)
      /\ UNCHANGED <<inclusive, period, wanted, current, paging, unsent, batch, report>>
    BY DEF Row, Goto, BatchFull
<1>2. /\ pc' \in [Procs -> Places] /\ pc'[p] = "at" /\ \A q \in Procs \ {p} : pc'[q] = pc[q]
    BY <1>0, <1>1 DEF FillTyped, Places
<1>3. FillTyped'
    BY <1>0, <1>1, <1>2 DEF FillTyped, paging, report
<1>4. SenderTyped'
    BY <1>0 DEF Row, SenderTyped
<1>5. Alone(p)
    BY <1>1, <1>2 DEF Alone, paging, report
<1>6. FromTime(p)' = FromTime(p) /\ \A k : Due(p, k)' = Due(p, k)
    BY <1>1 DEF FromTime, Due
<1>7. p \in Jobs => batch[p] < BatchLen
    <2>1. batch[p] \in 0 .. BatchLen /\ BatchLen \in Nat
        BY <1>0, TypesFacts DEF FillTyped
    <2> QED
        BY <1>1, <2>1
<1>8. PlaceOf(p)'
    BY <1>1, <1>2, <1>7 DEF FillInv, PlaceOf, Fresh, paging, report, AtHand
<1>9. PageOf(p)'
    BY <1>1, <1>2, <1>6 DEF FillInv, PageOf, paging, Storing
<1>10. BarsOf(p)'
    BY <1>1, <1>2 DEF FillInv, BarsOf, paging
<1>11. FilledOf(p)'
    BY <1>1, <1>6 DEF FillInv, FilledOf, paging, report
<1> QED
    BY <1>3, <1>4, <1>5, <1>8, <1>9, <1>10, <1>11, OneStep DEF Fits

\* The bar whose row is being built, and what remains to be sent after it.
LEMMA BarFacts ==
    ASSUME FillTyped, NEW p \in Procs, Held(unsent[p]) # {}
    PROVE  /\ Bar(p) \in Held(unsent[p]) /\ Bar(p) \in Times
           /\ unsent[p][Bar(p)] \in 1 .. 2
<1>1. unsent[p] \in Counts(Times) /\ Held(unsent[p]) = {t \in Times : unsent[p][t] > 0}
    BY CountsFacts DEF FillTyped
<1>2. Held(unsent[p]) \in SUBSET Nat
    BY <1>1, TimesFacts
<1>3. Bar(p) \in Held(unsent[p])
    BY <1>2, MinFacts DEF Bar
<1>4. unsent[p][Bar(p)] \in 0 .. 2
    BY <1>1, <1>3, CountsFacts
<1> QED
    BY <1>1, <1>3, <1>4

LEMMA AtFacts ==
    ASSUME FillTyped, NEW p \in Procs, Held(unsent[p]) # {},
           unsent' = [unsent EXCEPT ![p][Bar(p)] = @ - 1]
    PROVE  /\ unsent' \in [Procs -> Counts(Times)]
           /\ unsent'[p][Bar(p)] = unsent[p][Bar(p)] - 1
           /\ \A t \in Times \ {Bar(p)} : unsent'[p][t] = unsent[p][t]
           /\ Held(unsent'[p]) \subseteq Held(unsent[p])
           /\ \A q \in Procs \ {p} : unsent'[q] = unsent[q]
<1> DEFINE b == Bar(p)
<1>1. b \in Held(unsent[p]) /\ b \in Times /\ unsent[p][b] \in 1 .. 2
    BY BarFacts
<1>2. unsent' = [unsent EXCEPT ![p][b] = unsent[p][b] - 1]
    OBVIOUS
<1> HIDE DEF b
<1>3. unsent[p][b] - 1 \in 0 .. 2
    BY <1>1
<1>4. unsent \in [Procs -> [Times -> 0 .. 2]]
    BY DEF FillTyped, Counts, Many
<1>5. /\ unsent' \in [Procs -> [Times -> 0 .. 2]]
      /\ unsent'[p][b] = unsent[p][b] - 1
      /\ \A t \in Times \ {b} : unsent'[p][t] = unsent[p][t]
      /\ \A q \in Procs \ {p} : unsent'[q] = unsent[q]
    BY <1>1, <1>2, <1>3, <1>4
<1>6. unsent'[p] \in Counts(Times) /\ unsent[p] \in Counts(Times)
    BY <1>4, <1>5 DEF Counts, Many
<1>7. /\ Held(unsent'[p]) = {t \in Times : unsent'[p][t] > 0}
      /\ Held(unsent[p]) = {t \in Times : unsent[p][t] > 0}
    BY <1>6 DEF Held, Counts
<1>8. Held(unsent'[p]) \subseteq Held(unsent[p])
    BY <1>1, <1>5, <1>7
<1> QED
    BY <1>5, <1>8 DEF b, Counts, Many

LEMMA AtFill ==
    ASSUME FillInv, NEW p \in Procs, At(p) PROVE FillInv' /\ Alone(p)
<1>0. FillTyped /\ SenderTyped
    BY TypesFacts
<1>1. /\ pc[p] = "at" /\ pc' = [pc EXCEPT ![p] = "row"]
      /\ unsent' = [unsent EXCEPT ![p][Bar(p)] = @ - 1]
      /\ batch' = [batch EXCEPT ![p] = IF p \in Jobs THEN @ + 1 ELSE @]
      /\ UNCHANGED <<inclusive, period, wanted, current, paging, report, mixed, table, trouble>>
    BY DEF At, Goto
<1>2. Held(unsent[p]) # {} /\ (p \in Jobs => batch[p] < BatchLen)
    BY <1>1 DEF FillInv, PlaceOf
<1>3. /\ unsent' \in [Procs -> Counts(Times)] /\ Held(unsent'[p]) \subseteq Held(unsent[p])
      /\ \A q \in Procs \ {p} : unsent'[q] = unsent[q]
    BY <1>0, <1>1, <1>2, AtFacts
<1>4. /\ pc' \in [Procs -> Places] /\ pc'[p] = "row" /\ \A q \in Procs \ {p} : pc'[q] = pc[q]
    BY <1>0, <1>1 DEF FillTyped, Places
<1>5. batch' \in [Procs -> 0 .. BatchLen] /\ \A q \in Procs \ {p} : batch'[q] = batch[q]
    <2>1. batch \in [Procs -> 0 .. BatchLen] /\ BatchLen \in Nat
        BY <1>0, TypesFacts DEF FillTyped
    <2>2. (IF p \in Jobs THEN batch[p] + 1 ELSE batch[p]) \in 0 .. BatchLen
        BY <1>2, <2>1
    <2> QED
        BY <1>1, <2>1, <2>2
<1>6. FillTyped'
    BY <1>0, <1>1, <1>3, <1>4, <1>5 DEF FillTyped, paging, report
<1>7. SenderTyped'
    <2>1. \E R : buffer' = Plus(buffer, R)
        BY DEF At
    <2>2. buffer' \in Counts(Rows)
        BY <1>0, <2>1, PlusFacts DEF SenderTyped
    <2>3. building' \subseteq Procs
        BY <1>0 DEF At, SenderTyped
    <2> QED
        BY <1>0, <1>1, <2>2, <2>3 DEF SenderTyped
<1>8. Alone(p)
    BY <1>1, <1>3, <1>4, <1>5 DEF Alone, paging, report
<1>9. FromTime(p)' = FromTime(p) /\ \A k : Due(p, k)' = Due(p, k)
    BY <1>1 DEF FromTime, Due
<1>10. PlaceOf(p)'
    BY <1>1, <1>4 DEF FillInv, PlaceOf, Fresh, paging, report, AtHand
<1>11. PageOf(p)'
    BY <1>1, <1>4, <1>9 DEF FillInv, PageOf, paging, Storing
<1>12. BarsOf(p)'
    BY <1>1, <1>3, <1>4 DEF FillInv, BarsOf, paging
<1>13. FilledOf(p)'
    BY <1>1, <1>9 DEF FillInv, FilledOf, paging, report
<1> QED
    BY <1>6, <1>7, <1>8, <1>10, <1>11, <1>12, <1>13, OneStep DEF Fits

LEMMA FlushFill ==
    ASSUME FillInv, NEW p \in Procs, Flush(p) \/ FlushFails(p) PROVE FillInv' /\ Alone(p)
<1>0. FillTyped /\ SenderTyped
    BY TypesFacts
<1>1. /\ pc[p] = "row" /\ batch' = [batch EXCEPT ![p] = 0] /\ failed' = failed
      /\ \/ UNCHANGED <<counted, pc>>
         \/ /\ counted' = [counted EXCEPT ![p] = @ \cup {current[p]}]
            /\ pc' = [pc EXCEPT ![p] = "next"]
      /\ UNCHANGED <<inclusive, period, wanted, current, paging, unsent, building, mixed>>
    BY DEF Flush, FlushFails, MayFlush, Flushed, Goto, report
<1>2. current[p] \in Instruments /\ current[p] \notin wanted[p]
    BY <1>1 DEF FillInv, PlaceOf, AtHand
<1>3. batch' \in [Procs -> 0 .. BatchLen] /\ \A q \in Procs \ {p} : batch'[q] = batch[q]
    BY <1>0, <1>1, TypesFacts DEF FillTyped
<1>4. /\ pc' \in [Procs -> Places] /\ \A q \in Procs \ {p} : pc'[q] = pc[q]
      /\ counted' \in [Procs -> SUBSET Instruments]
      /\ \A q \in Procs \ {p} : counted'[q] = counted[q]
      /\ \/ pc'[p] = "row" /\ counted'[p] = counted[p]
         \/ pc'[p] = "next" /\ counted'[p] = counted[p] \cup {current[p]}
    <2>1. CASE UNCHANGED <<counted, pc>>
        BY <1>0, <1>1, <2>1 DEF FillTyped
    <2>2. CASE /\ counted' = [counted EXCEPT ![p] = @ \cup {current[p]}]
               /\ pc' = [pc EXCEPT ![p] = "next"]
        BY <1>0, <1>2, <2>2 DEF FillTyped, Places
    <2> QED
        BY <1>1, <2>1, <2>2
<1>5. FillTyped'
    BY <1>0, <1>1, <1>3, <1>4 DEF FillTyped, paging
<1>6. SenderTyped'
    <2>1. Total(table, buffer) \in Counts(Rows) /\ NoRows \in Counts(Rows)
        BY <1>0, TotalFacts, CountsFacts DEF SenderTyped
    <2>2. /\ table' \in {table, Total(table, buffer)} /\ buffer' \in {buffer, NoRows}
          /\ trouble' \subseteq trouble \cup {"flush"}
        BY DEF Flush, FlushFails, Send
    <2> QED
        BY <1>0, <1>1, <2>1, <2>2 DEF SenderTyped
<1>7. Alone(p)
    BY <1>1, <1>3, <1>4 DEF Alone, paging
<1>8. FromTime(p)' = FromTime(p) /\ \A k : Due(p, k)' = Due(p, k)
    BY <1>1 DEF FromTime, Due
<1>9. PlaceOf(p)'
    BY <1>1, <1>2, <1>4 DEF FillInv, PlaceOf, Fresh, paging, AtHand
<1>10. PageOf(p)'
    BY <1>1, <1>4, <1>8 DEF FillInv, PageOf, paging, Storing
<1>11. BarsOf(p)'
    BY <1>1, <1>4 DEF FillInv, BarsOf, paging
<1>12. FilledOf(p)'
    <2>1. p \in Jobs /\ current[p] \notin cut[p] => Held(bars[p][current[p]]) = Due(p, current[p])
        BY <1>1 DEF FillInv, PageOf, Storing
    <2> QED
        BY <1>1, <1>4, <1>8, <2>1 DEF FillInv, FilledOf, paging
<1> QED
    BY <1>5, <1>6, <1>7, <1>9, <1>10, <1>11, <1>12, OneStep DEF Fits

LEMMA StepFill ==
    ASSUME FillInv, Next
    PROVE  /\ FillInv'
           /\ \E p \in Procs :
                 Alone(p) /\ (Quiet(p) \/ Row(p) \/ At(p) \/ Flush(p) \/ FlushFails(p))
<1>1. PICK p \in Procs : Begin(p) \/ BeginFails(p) \/ BeginFetch(p) \/ Step(p) \/ Error(p)
    BY DEF Next
<1>2. /\ FillInv' /\ Alone(p)
      /\ Quiet(p) \/ Row(p) \/ At(p) \/ Flush(p) \/ FlushFails(p)
    BY <1>1, BeginFill, LeaveFill, NextInstrumentFill, FetchPageFill, PageLimitFill,
       FetchFailsFill, FetchOnceFill, EnsureTableFill, RowFill, AtFill, FlushFill
       DEF Step, Error
<1> QED
    BY <1>2

LEMMA StutterFill == ASSUME FillInv, UNCHANGED vars PROVE FillInv'
<1>1. TypeOK'
    BY DEF FillInv, TypeOK, vars, paging, sender, report
<1>2. ASSUME NEW p \in Procs PROVE Fits(p)'
    BY SameFits DEF FillInv, Fits, vars, paging, sender, report
<1> QED
    BY <1>1, <1>2 DEF FillInv, Fits

-----------------------------------------------------------------------------
(* The sender.                                                             *)

LEMMA SenderKept ==
    ASSUME FillInv, SenderFits, NEW p \in Procs, Alone(p), FillInv',
           Quiet(p) \/ Row(p) \/ At(p) \/ Flush(p) \/ FlushFails(p)
    PROVE  SenderFits'
<1>0. FillTyped /\ SenderTyped /\ pc' \in [Procs -> Places]
    BY TypesFacts DEF FillInv, TypeOK
<1>1. CASE Quiet(p)
    BY <1>1 DEF Quiet, sender, Alone, SenderFits
<1>2. CASE Row(p)
    <2>1. pc[p] = "row" /\ pc'[p] = "at" /\ building' = building \cup {p}
        BY <1>0, <1>2 DEF Row, Goto, FillTyped
    <2>2. building' = {q \in Procs : pc'[q] = "at"}
        BY <2>1 DEF Alone, SenderFits
    <2>3. UNCHANGED <<buffer, table>>
        BY <1>2 DEF Row
    <2>4. "race" \notin trouble' => ~mixed' /\ "race" \notin trouble
        <3>1. trouble' = IF mixed' THEN trouble \cup {"race"} ELSE trouble
            BY <1>2, Zenon DEF Row
        <3> QED
            BY <3>1, Zenon
    <2> QED
        BY <2>2, <2>3, <2>4 DEF SenderFits
<1>3. CASE At(p)
    <2>1. pc[p] = "at" /\ pc'[p] = "row" /\ building' = building \ {p}
        BY <1>0, <1>3 DEF At, Goto, FillTyped
    <2>2. building' = {q \in Procs : pc'[q] = "at"}
        BY <2>1 DEF Alone, SenderFits
    <2>3. UNCHANGED <<mixed, table, trouble>>
        BY <1>3 DEF At
    <2>4. ASSUME "race" \notin trouble, NEW r \in Held(buffer') PROVE r[2] \in Series[r[1]]
        <3>1. ~mixed
            BY <2>4 DEF SenderFits
        <3>2. buffer' = Plus(buffer, {<<current[p], Bar(p)>>})
            BY <1>3, <3>1 DEF At
        <3>3. r \in Held(buffer) \/ r = <<current[p], Bar(p)>>
            BY <1>0, <2>4, <3>2, PlusFacts DEF SenderTyped
        <3>4. Bar(p) \in Series[current[p]]
            BY <1>0, <2>1, BarFacts DEF FillInv, PlaceOf, BarsOf
        <3> QED
            BY <2>4, <3>3, <3>4 DEF SenderFits
    <2> QED
        BY <2>2, <2>3, <2>4 DEF SenderFits
<1>4. CASE Flush(p) \/ FlushFails(p)
    <2>1. pc[p] = "row" /\ pc'[p] # "at" /\ building' = building /\ mixed' = mixed
        BY <1>0, <1>4 DEF Flush, FlushFails, MayFlush, Flushed, Goto, FillTyped
    <2>2. building' = {q \in Procs : pc'[q] = "at"}
        BY <2>1 DEF Alone, SenderFits
    <2>3. /\ table' \in {table, Total(table, buffer)} /\ buffer' \in {buffer, NoRows}
          /\ trouble \subseteq trouble'
        BY <1>4 DEF Flush, FlushFails, Send
    <2>4. Held(buffer') \cup Held(table') \subseteq Held(buffer) \cup Held(table)
        BY <1>0, <2>3, TotalFacts, CountsFacts DEF SenderTyped
    <2> QED
        BY <2>1, <2>2, <2>3, <2>4 DEF SenderFits
<1> QED
    BY <1>1, <1>2, <1>3, <1>4

\* The numbers that are compared.
LEMMA NumbersFacts ==
    ASSUME FillInv
    PROVE  \A q \in Procs : \A i \in Instruments : \A t \in Times :
              /\ <<i, t>> \in Rows /\ table[<<i, t>>] \in 0 .. 2 /\ buffer[<<i, t>>] \in 0 .. 2
              /\ unsent[q][t] \in 0 .. 2 /\ bars[q][i][t] \in 0 .. 2
<1> SUFFICES ASSUME NEW q \in Procs, NEW i \in Instruments, NEW t \in Times
             PROVE  /\ <<i, t>> \in Rows
                    /\ table[<<i, t>>] \in 0 .. 2 /\ buffer[<<i, t>>] \in 0 .. 2
                    /\ unsent[q][t] \in 0 .. 2 /\ bars[q][i][t] \in 0 .. 2
    OBVIOUS
<1>1. <<i, t>> \in Rows
    BY DEF Rows
<1>2. /\ table \in [Rows -> 0 .. 2] /\ buffer \in [Rows -> 0 .. 2]
      /\ unsent[q] \in [Times -> 0 .. 2] /\ bars[q][i] \in [Times -> 0 .. 2]
    BY DEF FillInv, TypeOK, Counts, Many
<1> QED
    BY <1>1, <1>2

LEMMA SentKept ==
    ASSUME FillInv, FillInv', SenderFits, SentFits, NEW p \in Procs, Alone(p),
           Quiet(p) \/ Row(p) \/ At(p) \/ Flush(p) \/ FlushFails(p)
    PROVE  SentFits'
<1>0. FillTyped /\ SenderTyped
    BY TypesFacts
<1>6. \A q \in Procs : \A i \in Instruments : \A t \in Times :
          /\ <<i, t>> \in Rows /\ table[<<i, t>>] \in 0 .. 2 /\ buffer[<<i, t>>] \in 0 .. 2
          /\ unsent[q][t] \in 0 .. 2 /\ bars[q][i][t] \in 0 .. 2
    BY NumbersFacts
<1>7. /\ \A q \in Procs : pc[q] \in {"row", "at"} => current[q] \in Instruments
      /\ \A q \in Procs : counted[q] \subseteq Instruments
    BY <1>0 DEF FillInv, PlaceOf, AtHand, FillTyped
<1>1. CASE Quiet(p)
    <2> SUFFICES ASSUME trouble = {}, NEW q \in Procs PROVE SentOf(q)' /\ CountedOf(q)'
        BY <1>1 DEF Quiet, sender, SentFits
    <2>1. SentOf(q) /\ CountedOf(q) /\ UNCHANGED <<table, buffer>>
        BY <1>1 DEF SentFits, Quiet, sender
    <2>2. CASE q # p
        BY <2>1, <2>2 DEF Alone, SentOf, CountedOf
    <2>3. CASE q = p
        <3>1. CountedOf(p)'
            BY <1>1, <2>1, <2>3 DEF Quiet, CountedOf
        <3>2. SentOf(p)'
            <4> SUFFICES ASSUME pc'[p] \in {"row", "at"}, NEW t \in Times
                         PROVE  table'[<<current'[p], t>>] + buffer'[<<current'[p], t>>]
                                   + unsent'[p][t] >= bars'[p][current'[p]][t]
                BY DEF SentOf
            <4>1. current'[p] \in Instruments
                BY DEF FillInv, PlaceOf, AtHand
            <4>2. /\ table'[<<current'[p], t>>] \in 0 .. 2
                  /\ buffer'[<<current'[p], t>>] \in 0 .. 2
                BY <1>6, <2>1, <4>1
            <4>3. unsent'[p] = bars'[p][current'[p]]
                BY <1>1 DEF Quiet
            <4>4. bars'[p][current'[p]][t] \in Nat
                <5>1. bars'[p][current'[p]] \in [Times -> 0 .. 2]
                    BY <4>1 DEF FillInv, TypeOK, Counts, Many
                <5> QED
                    BY <5>1
            <4> QED
                BY <4>2, <4>3, <4>4
        <3> QED
            BY <2>3, <3>1, <3>2
    <2> QED
        BY <2>2, <2>3
<1>2. CASE Row(p)
    <2>1. /\ pc[p] = "row" /\ trouble \subseteq trouble'
          /\ UNCHANGED <<current, bars, unsent, counted, table, buffer>>
        BY <1>2 DEF Row, paging, report
    <2>2. trouble' = {} => trouble = {}
        BY <2>1
    <2>3. \A q \in Procs : pc'[q] \in {"row", "at"} => pc[q] \in {"row", "at"}
        BY <2>1 DEF Alone
    <2> QED
        BY <2>1, <2>2, <2>3 DEF SentFits, SentOf, CountedOf
<1>3. CASE At(p)
    <2>1. /\ pc[p] = "at"
          /\ unsent' = [unsent EXCEPT ![p][Bar(p)] = @ - 1]
          /\ UNCHANGED <<current, bars, counted, table, trouble>>
        BY <1>3 DEF At, paging, report
    <2>2. current[p] \in Instruments /\ Held(unsent[p]) # {}
        BY <2>1 DEF FillInv, PlaceOf, AtHand
    <2> DEFINE r == <<current[p], Bar(p)>>
    <2>3. Bar(p) \in Times /\ unsent[p][Bar(p)] \in 1 .. 2 /\ r \in Rows
        BY <1>0, <2>2, BarFacts DEF Rows
    <2>4. /\ unsent'[p][Bar(p)] = unsent[p][Bar(p)] - 1
          /\ \A t \in Times \ {Bar(p)} : unsent'[p][t] = unsent[p][t]
          /\ \A q \in Procs \ {p} : unsent'[q] = unsent[q]
        BY <1>0, <2>1, <2>2, AtFacts
    <2> SUFFICES ASSUME trouble = {}, NEW q \in Procs PROVE SentOf(q)' /\ CountedOf(q)'
        BY <2>1 DEF SentFits
    <2>5. SentOf(q) /\ CountedOf(q) /\ ~mixed
        BY DEF SentFits, SenderFits
    <2>6. buffer' = Plus(buffer, {r})
        BY <1>3, <2>5 DEF At
    <2> HIDE DEF r
    <2>7. \A x \in Rows : buffer'[x] = IF x = r THEN IF buffer[x] = 2 THEN 2 ELSE buffer[x] + 1
                                       ELSE buffer[x]
        BY <1>0, <2>6, PlusFacts DEF SenderTyped
    <2>8. CountedOf(q)'
        BY <2>1, <2>5 DEF CountedOf
    <2>9. pc'[q] \in {"row", "at"} => pc[q] \in {"row", "at"}
        BY <2>1 DEF Alone
    <2>10. ASSUME pc[q] \in {"row", "at"}, NEW t \in Times
           PROVE  table[<<current[q], t>>] + buffer'[<<current[q], t>>] + unsent'[q][t]
                      >= bars[q][current[q]][t]
        <3>1. /\ table[<<current[q], t>>] \in 0 .. 2 /\ buffer[<<current[q], t>>] \in 0 .. 2
              /\ unsent[q][t] \in 0 .. 2 /\ bars[q][current[q]][t] \in 0 .. 2
              /\ <<current[q], t>> \in Rows
            BY <1>6, <1>7, <2>10
        <3>2. table[<<current[q], t>>] + buffer[<<current[q], t>>] + unsent[q][t]
                  >= bars[q][current[q]][t]
            BY <2>5, <2>10 DEF SentOf
        <3>3. CASE q = p /\ t = Bar(p)
            <4>1. /\ buffer'[<<current[q], t>>] = 2
                     \/ buffer'[<<current[q], t>>] = buffer[<<current[q], t>>] + 1
                  /\ unsent'[q][t] = unsent[q][t] - 1
                BY <2>4, <2>7, <3>1, <3>3 DEF r
            <4>2. unsent[q][t] >= 1
                BY <2>3, <3>3
            <4> QED
                BY <3>1, <3>2, <4>1, <4>2
        <3>4. CASE ~(q = p /\ t = Bar(p))
            <4>1. unsent'[q][t] = unsent[q][t]
                BY <2>4, <3>4
            <4>2. \/ buffer'[<<current[q], t>>] = 2
                  \/ buffer'[<<current[q], t>>] = buffer[<<current[q], t>>] + 1
                  \/ buffer'[<<current[q], t>>] = buffer[<<current[q], t>>]
                BY <2>7, <3>1
            <4> QED
                BY <3>1, <3>2, <4>1, <4>2
        <3> QED
            BY <3>3, <3>4
    <2> QED
        BY <2>1, <2>8, <2>9, <2>10 DEF SentOf
<1>4. CASE Flush(p)
    <2>1. /\ pc[p] = "row" /\ table' = Total(table, buffer) /\ buffer' = NoRows
          /\ UNCHANGED <<current, bars, unsent, trouble>>
          /\ Flushed(p)
        BY <1>4 DEF Flush, MayFlush, Send, paging
    <2>2. \A x \in Rows : /\ buffer'[x] = 0
                          /\ table'[x] = IF table[x] + buffer[x] > 2 THEN 2
                                         ELSE table[x] + buffer[x]
        BY <1>0, <2>1, TotalFacts, CountsFacts DEF SenderTyped
    <2> SUFFICES ASSUME trouble = {}, NEW q \in Procs PROVE SentOf(q)' /\ CountedOf(q)'
        BY <2>1 DEF SentFits
    <2>3. SentOf(q) /\ CountedOf(q)
        BY DEF SentFits
    <2>4. pc'[q] \in {"row", "at"} => pc[q] \in {"row", "at"}
        BY <2>1 DEF Alone
    <2>5. ASSUME pc[q] \in {"row", "at"}, NEW t \in Times
          PROVE  table'[<<current[q], t>>] + unsent[q][t] >= bars[q][current[q]][t]
        <3>1. /\ table[<<current[q], t>>] \in 0 .. 2 /\ buffer[<<current[q], t>>] \in 0 .. 2
              /\ unsent[q][t] \in 0 .. 2 /\ bars[q][current[q]][t] \in 0 .. 2
              /\ <<current[q], t>> \in Rows
            BY <1>6, <1>7, <2>5
        <3>2. table[<<current[q], t>>] + buffer[<<current[q], t>>] + unsent[q][t]
                  >= bars[q][current[q]][t]
            BY <2>3, <2>5 DEF SentOf
        <3> QED
            BY <2>2, <3>1, <3>2
    <2>6. SentOf(q)'
        <3> SUFFICES ASSUME pc[q] \in {"row", "at"}, NEW t \in Times
                     PROVE  table'[<<current[q], t>>] + buffer'[<<current[q], t>>] + unsent[q][t]
                               >= bars[q][current[q]][t]
            BY <2>1, <2>4 DEF SentOf
        <3>1. /\ table[<<current[q], t>>] \in 0 .. 2 /\ buffer[<<current[q], t>>] \in 0 .. 2
              /\ <<current[q], t>> \in Rows /\ unsent[q][t] \in 0 .. 2
            BY <1>6, <1>7
        <3>2. table'[<<current[q], t>>] \in Nat /\ buffer'[<<current[q], t>>] = 0
            BY <2>2, <3>1
        <3> QED
            BY <2>5, <3>1, <3>2
    <2>7. ASSUME NEW i \in counted'[q], NEW t \in Times
          PROVE  table'[<<i, t>>] >= bars[q][i][t]
        <3>1. \/ i \in counted[q]
              \/ q = p /\ i = current[p] /\ Held(unsent[p]) = {}
            <4>1. CASE q # p
                BY <2>7, <4>1 DEF Alone
            <4>2. CASE q = p /\ counted' = counted
                BY <2>7, <4>2
            <4>3. CASE /\ q = p /\ Held(unsent[p]) = {}
                       /\ counted' = [counted EXCEPT ![p] = @ \cup {current[p]}]
                BY <1>0, <2>7, <4>3 DEF FillTyped
            <4> QED
                BY <2>1, <4>1, <4>2, <4>3 DEF Flushed, report
        <3>2. i \in Instruments
            BY <1>7, <2>1, <3>1
        <3>3. /\ <<i, t>> \in Rows /\ table[<<i, t>>] \in 0 .. 2 /\ buffer[<<i, t>>] \in 0 .. 2
              /\ unsent[q][t] \in 0 .. 2 /\ bars[q][i][t] \in 0 .. 2
            BY <1>6, <3>2
        <3>4. CASE i \in counted[q]
            <4>1. table[<<i, t>>] >= bars[q][i][t]
                BY <2>3, <3>4 DEF CountedOf
            <4> QED
                BY <2>2, <3>3, <4>1
        <3>5. CASE q = p /\ i = current[p] /\ Held(unsent[p]) = {}
            <4>1. unsent[q][t] = 0
                <5>1. unsent[p] \in Counts(Times)
                    BY <1>0 DEF FillTyped
                <5>2. Held(unsent[p]) = {u \in Times : unsent[p][u] > 0}
                    BY <5>1, CountsFacts
                <5> QED
                    BY <3>3, <3>5, <5>2
            <4>2. table'[<<i, t>>] + unsent[q][t] >= bars[q][i][t]
                BY <2>1, <2>5, <3>5
            <4>3. table'[<<i, t>>] \in Nat
                BY <2>2, <3>3
            <4> QED
                BY <3>3, <4>1, <4>2, <4>3
        <3> QED
            BY <3>1, <3>4, <3>5
    <2> QED
        BY <2>1, <2>6, <2>7 DEF CountedOf
<1>5. CASE FlushFails(p)
    <2>1. "flush" \in trouble'
        BY <1>5 DEF FlushFails
    <2> QED
        BY <2>1 DEF SentFits
<1> QED
    BY <1>1, <1>2, <1>3, <1>4, <1>5

-----------------------------------------------------------------------------
(* The invariant.                                                          *)

LEMMA InitHistorical == ASSUME Init PROVE HistoricalInv
<1>0. /\ 0 \in 0 .. MaxPages /\ 0 \in 0 .. BatchLen
      /\ NoBars \in Counts(Times) /\ NoRows \in Counts(Rows)
      /\ Held(NoBars) = {} /\ Held(NoRows) = {}
      /\ \A t \in Times : NoBars[t] <= 1
    BY CountsFacts, HistoricalAssumption
<1>1. FillTyped
    BY <1>0 DEF Init, FillTyped, Places
<1>2. SenderTyped
    BY <1>0 DEF Init, SenderTyped
<1>3. ASSUME NEW p \in Procs PROVE Fits(p)
    <2>1. /\ pc[p] = "idle" /\ wanted[p] = {} /\ counted[p] = {} /\ cut[p] = {}
          /\ start[p] = Now /\ page[p] = 0
          /\ \A i \in Instruments : bars[p][i] = NoBars
        BY <1>3 DEF Init
    <2> QED
        BY <1>0, <2>1 DEF Fits, PlaceOf, PageOf, BarsOf, FilledOf, Fresh, AtHand, Storing
<1>4. SenderFits
    BY <1>0 DEF Init, SenderFits
<1>5. SentFits
    BY DEF Init, SentFits, SentOf, CountedOf
<1> QED
    BY <1>1, <1>2, <1>3, <1>4, <1>5
       DEF HistoricalInv, FillInv, TypeOK, FillTyped, SenderTyped, Fits

LEMMA StepHistorical == ASSUME HistoricalInv, [Next]_vars PROVE HistoricalInv'
<1>1. CASE UNCHANGED vars
    <2>1. FillInv'
        BY <1>1, StutterFill DEF HistoricalInv
    <2>2. SenderFits' /\ SentFits'
        BY <1>1 DEF HistoricalInv, SenderFits, SentFits, SentOf, CountedOf,
                    vars, paging, sender, report
    <2> QED
        BY <2>1, <2>2 DEF HistoricalInv
<1>2. CASE Next
    BY <1>2, StepFill, SenderKept, SentKept DEF HistoricalInv
<1> QED
    BY <1>1, <1>2

LEMMA HistoricalInvHolds == Spec => []HistoricalInv
<1>1. Init => HistoricalInv
    BY InitHistorical
<1>2. HistoricalInv /\ [Next]_vars => HistoricalInv'
    BY StepHistorical
<1> QED
    BY <1>1, <1>2, PTL DEF Spec

\* Paging backwards leaves no hole, stops before the start of the period only at
\* maxPages and collects no bar twice unless the gateway repeats it (fetchOHLCV).
THEOREM FillsAreExact == Spec => []FillIsExact
<1>1. HistoricalInv => FillIsExact
    <2> SUFFICES ASSUME HistoricalInv PROVE FillIsExact
        OBVIOUS
    <2>1. TypeOK /\ \A p \in Jobs : p \in Procs /\ FilledOf(p)
        BY DEF HistoricalInv, FillInv, Procs
    <2>2. FillIsGapless
        BY <2>1 DEF FilledOf, FillIsGapless
    <2>3. FillReachesTheStart
        BY <2>1 DEF FilledOf, FillReachesTheStart
    <2>4. NoBarTwice
        BY <2>1 DEF FilledOf, NoBarTwice
    <2> QED
        BY <2>1, <2>2, <2>3, <2>4 DEF FillIsExact
<1> QED
    BY <1>1, HistoricalInvHolds, PTL

\* While no Flush failed and nobody raced for the LineSender, all the bars of the
\* instruments that are reported as upserted are in ohlcv_bars, and nothing but
\* bars of the gateway is (upsertOHLCVBatches, UpsertOHLCVBars).
THEOREM CountedBarsStayStored == Spec => []CountedBarsAreStored
<1>1. HistoricalInv => CountedBarsAreStored
    BY DEF HistoricalInv, SenderFits, SentFits, CountedOf, CountedBarsAreStored
<1> QED
    BY <1>1, HistoricalInvHolds, PTL
=============================================================================
