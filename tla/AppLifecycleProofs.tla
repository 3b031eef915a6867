------------------------- MODULE AppLifecycleProofs -------------------------
(***************************************************************************)
(* Proofs about the life of the process, for every set of attempts, every  *)
(* assignment of handlers to them and every number of starts and faults:   *)
(* the audit log tells the truth, its pages and its counts are complete,   *)
(* and no part of the application is closed under those who use it.        *)
(*                                                                         *)
(* The log needs, besides what it says, that an attempt whose row is being *)
(* closed knows the right row and how it ended, and that one that has not  *)
(* started has none.  Its pages need the places of the rows: none that     *)
(* stays is moved towards the front, and nothing is behind a short page.   *)
(* The parts need the order of App.Stop: the server is never open without  *)
(* SQLite, and a request without a server is one whose shutdown timed out. *)
(*                                                                         *)
(* The last part is about one of the clients that App.Stop closes, the one *)
(* of the IB gateway, for every number of keep-alives and requests.        *)
(***************************************************************************)
EXTENDS AppLifecycle, IBClient, FiniteSetTheorems, TLAPS

\* An attempt that has not started has no row; one whose row is to be closed has
\* a row, unless Cleanup took it, and an end that GetStats knows.
AttemptsFit ==
    \A a \in Attempts :
        /\ at[a] \in {"new", "queued", "lost"} => run[a] = 0
        /\ run[a] \in Ids => rows[run[a]].of = a
        /\ at[a] = "ending" => outcome[a] \in {"success", "failure"}

\* The server is never open without the database behind it, and a request that
\* outlives the server has made its shutdown time out.
StopFits ==
    /\ life = "off" => open = {}
    /\ life \in {"sqlite", "clients", "made"} => "sqlite" \in open
    /\ "server" \in open => "sqlite" \in open
    /\ InFlight /\ "server" \notin open => timedOut

\* The pool has only handlers whose tested clients are there.
HandlersFit ==
    /\ life = "off" => handlers = {}
    /\ \A h \in handlers : Registered(h)

LogInv  == TypeOK /\ AttemptsFit /\ RowsTellTheTruth
PartInv == StopFits /\ HandlersFit /\ PartsOutliveTheirUsers

-----------------------------------------------------------------------------
(* The log.                                                                *)

\* There are finitely many rows, whose ids begin with 1.
LEMMA CountsAreNaturals ==
    ASSUME TypeOK, NEW c PROVE Count(c) \in Nat
<1> DEFINE Them == {i \in Ids : c = "total" \/ rows[i].status = c}
<1>1. IsFiniteSet(1..seq)
    BY FS_Interval DEF TypeOK, AuditTypeOK
<1>2. Them \subseteq 1..seq
    BY DEF TypeOK, AuditTypeOK
<1>3. IsFiniteSet(Them)
    BY <1>1, <1>2, FS_Subset
<1>4. Cardinality(Them) \in Nat
    BY <1>3, FS_CardinalityType
<1> QED
    BY <1>4 DEF Count

LEMMA InitLogInv == Init => LogInv
<1> SUFFICES ASSUME Init PROVE LogInv
    OBVIOUS
<1>1. Ids = {} /\ seq = 0
    BY DEF Init, AuditInit, Ids
<1>2. AuditTypeOK
    <2>1. at \in [Attempts -> {"new", "queued", "running", "ending", "done", "dead", "lost"}]
        BY DEF Init, AuditInit
    <2>2. run \in [Attempts -> 0..seq]
        BY <1>1 DEF Init, AuditInit
    <2>3. outcome \in [Attempts -> {"none", "success", "failure", "panic"}]
        BY DEF Init, AuditInit
    <2>4. counts \in [Counted -> Nat]
        BY DEF Init, AuditInit
    <2>5. ask = "idle" /\ unsaved = {}
        BY DEF Init, AuditInit
    <2> QED
        BY <1>1, <2>1, <2>2, <2>3, <2>4, <2>5 DEF AuditTypeOK
<1>3. TypeOK
    <2>1. timedOut \in BOOLEAN
        BY Zenon DEF Init
    <2>2. starts \in 0..MaxStarts /\ faults \in 0..MaxFaults
        BY LifeAssumption DEF Init
    <2> QED
        BY <1>2, <2>1, <2>2, Zenon DEF Init, TypeOK
<1>4. AttemptsFit /\ RowsTellTheTruth
    BY <1>1 DEF Init, AuditInit, AttemptsFit, RowsTellTheTruth
<1> QED
    BY <1>3, <1>4 DEF LogInv

LEMMA StartRowKeeps ==
    ASSUME LogInv, NEW a \in Attempts, NEW answers \in BOOLEAN, StartRow(a, answers)
    PROVE  AuditTypeOK' /\ AttemptsFit' /\ RowsTellTheTruth'
<1> USE DEF LogInv, TypeOK
<1>1. CASE answers
    <2>1. seq' = seq + 1 /\ Ids' = Ids \cup {seq + 1}
        BY <1>1 DEF StartRow, NextId, Ids
    <2>2. \A i \in Ids : rows'[i] = rows[i] /\ i # seq + 1 /\ i # 0
        BY <1>1, <2>1 DEF StartRow, NextId, AuditTypeOK, Ids
    <2>3. rows'[seq + 1] = [of |-> a, status |-> "running"]
        BY <1>1 DEF StartRow, NextId, Ids
    <2>4. AuditTypeOK'
        BY <1>1, <2>1, <2>2, <2>3 DEF AuditTypeOK, StartRow, NextId, Statuses, reader
    <2>5. AttemptsFit'
        BY <1>1, <2>1, <2>2, <2>3 DEF AuditTypeOK, AttemptsFit, StartRow, NextId
    <2>6. RowsTellTheTruth'
        BY <1>1, <2>1, <2>2, <2>3
        DEF AuditTypeOK, AttemptsFit, RowsTellTheTruth, Open, StartRow, NextId
    <2> QED
        BY <2>4, <2>5, <2>6
<1>2. CASE ~answers
    BY <1>2 DEF AuditTypeOK, AttemptsFit, RowsTellTheTruth, Open, StartRow, table, Ids, reader
<1> QED
    BY <1>1, <1>2

LEMMA HandlerEndsKeeps ==
    ASSUME LogInv, NEW a \in Attempts, NEW o \in {"success", "failure"}, HandlerEnds(a, o)
    PROVE  AuditTypeOK' /\ AttemptsFit' /\ RowsTellTheTruth'
BY DEF LogInv, TypeOK, AuditTypeOK, AttemptsFit, RowsTellTheTruth, Open, HandlerEnds, Ids, table, reader

LEMMA EndRowKeeps ==
    ASSUME LogInv, NEW a \in Attempts, NEW answers \in BOOLEAN, EndRow(a, answers)
    PROVE  AuditTypeOK' /\ AttemptsFit' /\ RowsTellTheTruth'
<1> USE DEF LogInv, TypeOK
<1>1. CASE answers
    <2>1. Ids' = Ids
        BY <1>1 DEF EndRow, Ids
    <2>2. \A i \in Ids : rows'[i] = IF i = run[a] THEN [rows[i] EXCEPT !.status = outcome[a]]
                                    ELSE rows[i]
        BY <1>1 DEF EndRow, FinalStatus, Ids
    <2>3. outcome[a] \in {"success", "failure"}
        BY DEF EndRow, AttemptsFit
    <2>4. \A i \in Ids : /\ rows'[i].of = rows[i].of
                         /\ rows'[i].status = IF i = run[a] THEN outcome[a] ELSE rows[i].status
        BY <2>2 DEF AuditTypeOK
    <2>5. AuditTypeOK'
        BY <1>1, <2>1, <2>2, <2>3 DEF AuditTypeOK, EndRow, Statuses, reader
    <2>6. AttemptsFit'
        BY <1>1, <2>1, <2>4 DEF AuditTypeOK, AttemptsFit, EndRow
    <2>7. RowsTellTheTruth'
        BY <1>1, <2>1, <2>3, <2>4
        DEF AuditTypeOK, AttemptsFit, RowsTellTheTruth, Open, EndRow
    <2> QED
        BY <2>5, <2>6, <2>7
<1>2. CASE ~answers
    BY <1>2 DEF AuditTypeOK, AttemptsFit, RowsTellTheTruth, Open, EndRow, Ids, reader
<1> QED
    BY <1>1, <1>2

LEMMA CleanupKeeps ==
    ASSUME LogInv, Cleanup PROVE AuditTypeOK' /\ AttemptsFit' /\ RowsTellTheTruth'
<1>1. Ids' \subseteq Ids /\ \A i \in Ids' : rows'[i] = rows[i]
    BY DEF Cleanup, Restrict, Ids
<1> QED
    BY <1>1 DEF LogInv, TypeOK, AuditTypeOK, AttemptsFit, RowsTellTheTruth, Open, Cleanup,
        attempt, reader

\* The reader writes nothing.
LEMMA QueryKeeps ==
    ASSUME LogInv, Query PROVE AuditTypeOK' /\ AttemptsFit' /\ RowsTellTheTruth'
<1> USE DEF LogInv, TypeOK
<1>1. UNCHANGED <<table, attempt>>
    BY DEF Query, AskList, AskStats, GetByJobID, GetStats, AskFails
<1>2. /\ ask' \in {"idle", "list", "between", "listed", "stats", "failed", "closed"} \cup Counted
      /\ counts' \in [Counted -> Nat]
    BY CountsAreNaturals
    DEF Query, AskList, AskStats, GetByJobID, GetStats, AskFails, GiveUp, AuditTypeOK, After,
        Counted, Statuses
<1> QED
    BY <1>1, <1>2
    DEF AuditTypeOK, AttemptsFit, RowsTellTheTruth, Open, table, attempt, Ids

\* The end of the process, with the outcome of the attempt that panics.
LEMMA ForgetKeeps ==
    ASSUME LogInv, Forget,
           UNCHANGED outcome \/ \E a \in Attempts : at[a] = "running" /\ outcome' = [outcome EXCEPT ![a] = "panic"]
    PROVE  AuditTypeOK' /\ AttemptsFit' /\ RowsTellTheTruth'
<1> USE DEF LogInv, TypeOK
<1>1. /\ at' \in [Attempts -> {"new", "queued", "running", "ending", "done", "dead", "lost"}]
      /\ \A a \in Attempts :
            /\ at'[a] \in {"new", "lost"} => at[a] \in {"new", "queued", "lost"}
            /\ at'[a] \notin {"queued", "running", "ending"}
            /\ at'[a] # at[a] /\ at[a] # "queued" => at'[a] = "dead"
            /\ at[a] = "done" => at'[a] = "done"
            /\ at[a] \in {"running", "ending"} => at'[a] = "dead"
            /\ at[a] = "dead" => at'[a] = "dead"
    BY DEF Forget, AuditTypeOK
<1>2. /\ ask' \in {"idle", "list", "between", "listed", "stats", "failed", "closed"} \cup Counted
      /\ counts' \in [Counted -> Nat]
    BY DEF Forget, GiveUp, AuditTypeOK, reader
<1>3. outcome' \in [Attempts -> {"none", "success", "failure", "panic"}]
    BY DEF AuditTypeOK
<1>4. AuditTypeOK'
    BY <1>1, <1>2, <1>3 DEF AuditTypeOK, Forget, table, Ids
<1>5. AttemptsFit'
    BY <1>1 DEF AttemptsFit, Forget, table, Ids
<1>6. RowsTellTheTruth'
    <2>1. Ids' = Ids /\ rows' = rows /\ run' = run /\ unsaved' = unsaved
        BY DEF Forget, table, Ids
    <2>2. \A i \in Ids : rows[i].of \in Attempts
        BY DEF AuditTypeOK
    <2>3. \A a \in Attempts : at[a] = "done" => outcome'[a] = outcome[a]
        BY DEF AuditTypeOK
    <2> QED
        BY <1>1, <2>1, <2>2, <2>3 DEF RowsTellTheTruth, Open
<1> QED
    BY <1>4, <1>5, <1>6

\* The variables of the application.
LEMMA AppTypesKept == ASSUME TypeOK, [Next]_vars, AuditTypeOK' PROVE TypeOK'
<1> USE DEF TypeOK, appVars
<1>0. CASE UNCHANGED vars
    BY <1>0 DEF vars
<1>1. CASE InitSQLite \/ InitSQLiteFails
    <2>1. starts' \in 0..MaxStarts
        BY <1>1, LifeAssumption DEF InitSQLite, InitSQLiteFails
    <2>2. UNCHANGED <<handlers, timedOut, faults>>
        BY <1>1 DEF InitSQLite, InitSQLiteFails
    <2>3. /\ life' \in {"off", "sqlite", "clients", "made", "running", "stopping"}
          /\ open' \subseteq Resources /\ made' \subseteq Resources
        BY <1>1 DEF InitSQLite, InitSQLiteFails, Resources
    <2> QED
        BY <2>1, <2>2, <2>3
<1>2. CASE InitClients
    BY <1>2, LifeAssumption DEF InitClients, Resources, Clients
<1>3. CASE InitWorkerPool \/ Start
    BY <1>3 DEF InitWorkerPool, Start, Resources
<1>4. CASE Ends
    BY <1>4 DEF Ends
<1>5. CASE StopNext
    <2>1. timedOut' \in BOOLEAN
        BY <1>5, Zenon DEF StopNext
    <2> QED
        BY <1>5, <2>1 DEF StopNext
<1>6. ASSUME NEW a \in Attempts, Submit(a) PROVE TypeOK'
    BY <1>6 DEF Submit
<1>7. ASSUME NEW answers \in BOOLEAN, Statement(answers) PROVE TypeOK'
    BY <1>7, LifeAssumption DEF Statement
<1>8. CASE UNCHANGED appVars
    BY <1>8
<1> QED
    BY <1>0, <1>1, <1>2, <1>3, <1>4, <1>5, <1>6, <1>7, <1>8
    DEF Next, Exit, Crash, Execute, Panics

\* Every step of the application keeps the log.
LEMMA LogStepKeeps == LogInv /\ [Next]_vars => LogInv'
<1> SUFFICES ASSUME LogInv, [Next]_vars PROVE AuditTypeOK' /\ AttemptsFit' /\ RowsTellTheTruth'
    BY AppTypesKept DEF LogInv
<1>1. CASE UNCHANGED auditVars
    BY <1>1
    DEF LogInv, TypeOK, AuditTypeOK, AttemptsFit, RowsTellTheTruth, Open, Ids, auditVars, table,
        attempt, reader
<1>2. CASE Exit \/ Crash
    BY <1>2, ForgetKeeps DEF Exit, Crash, Ends
<1>3. ASSUME NEW a \in Attempts, Submit(a) PROVE AuditTypeOK' /\ AttemptsFit' /\ RowsTellTheTruth'
    BY <1>3
    DEF LogInv, TypeOK, AuditTypeOK, AttemptsFit, RowsTellTheTruth, Open, Ids, Submit, table, reader
<1>4. ASSUME NEW a \in Attempts, Execute(a) PROVE AuditTypeOK' /\ AttemptsFit' /\ RowsTellTheTruth'
    <2>1. CASE Panics(a)
        BY <2>1, ForgetKeeps DEF Panics, Ends
    <2>2. ASSUME NEW o \in Outcomes(a), HandlerEnds(a, o)
          PROVE AuditTypeOK' /\ AttemptsFit' /\ RowsTellTheTruth'
        BY <2>2, HandlerEndsKeeps DEF Outcomes
    <2> QED
        BY <1>4, <2>1, <2>2, StartRowKeeps, EndRowKeeps DEF Execute
<1>5. CASE Query
    BY <1>5, QueryKeeps
<1>6. CASE Cleanup
    BY <1>6, CleanupKeeps
<1> QED
    BY <1>1, <1>2, <1>3, <1>4, <1>5, <1>6
    DEF Next, vars, InitSQLite, InitSQLiteFails, InitClients, InitWorkerPool, Start, StopNext

LEMMA LogInvariance == Spec => []LogInv
BY InitLogInv, LogStepKeeps, PTL DEF Spec

\* However often the process starts, ends, panics or crashes, and whatever
\* statement fails, no row of the log belongs to two attempts, a finished row
\* tells how its attempt ended, and a row that says running is excused.
THEOREM LogIsTruthful == Spec => []LogTellsTheTruth
<1>1. LogInv => LogTellsTheTruth
    BY DEF LogInv, LogTellsTheTruth
<1> QED
    BY <1>1, LogInvariance, PTL

-----------------------------------------------------------------------------
(* The readers of the log.                                                 *)

\* A finite set of numbers has a largest one.
LEMMA LargestNumber ==
    ASSUME NEW S \in SUBSET Int, IsFiniteSet(S), S # {}
    PROVE  \E m \in S : \A k \in S : k <= m
<1> DEFINE Above(i) == {k \in S : k > i}
           Less == StrictSubsetOrdering(S)
           T == {Above(i) : i \in S}
<1>1. IsWellFoundedOn(Less, FiniteSubsetsOf(S))
    BY FS_StrictSubsetOrderingWellFounded
<1>2. T \subseteq FiniteSubsetsOf(S) /\ T # {}
    <2>1. FiniteSubsetsOf(S) = SUBSET S
        BY FS_FiniteSubsetsOfFinite
    <2>2. \A i \in S : Above(i) \in SUBSET S
        OBVIOUS
    <2>3. \A x \in T : x \in SUBSET S
        <3> HIDE DEF Above
        <3> QED
            BY <2>2
    <2>4. T # {}
        <3>1. PICK i \in S : TRUE
            OBVIOUS
        <3>2. Above(i) \in T
            OBVIOUS
        <3> HIDE DEF T
        <3> QED
            BY <3>2
    <2> HIDE DEF T
    <2> QED
        BY <2>1, <2>3, <2>4
<1>3. \E x \in T : \A y \in T : <<y, x>> \notin Less
    <2> HIDE DEF Less, T
    <2> QED BY <1>1, <1>2, WFMin
<1>4. PICK m \in S : \A y \in T : <<y, Above(m)>> \notin Less
    <2> HIDE DEF Above, Less
    <2> QED BY <1>3, Zenon
<1>5. ASSUME NEW k \in S, k > m PROVE FALSE
    <2>1. k \in Int /\ m \in Int /\ \A j \in S : j \in Int
        OBVIOUS
    <2>2. k \in Above(m) /\ k \notin Above(k)
        BY <1>5, <2>1
    <2>3. Above(k) \subseteq Above(m)
        <3>1. ASSUME NEW j \in S, j > k PROVE j > m
            <4>1. j \in Int
                BY <2>1
            <4> QED
                BY <1>5, <2>1, <3>1, <4>1
        <3> QED
            BY <3>1
    <2>4. Above(k) \in T
        OBVIOUS
    <2>5. Above(k) \in SUBSET S /\ Above(m) \in SUBSET S
        OBVIOUS
    <2>6. <<Above(k), Above(m)>> \in Less
        <3> HIDE DEF Above
        <3> QED
            BY <2>2, <2>3, <2>5 DEF StrictSubsetOrdering
    <2> HIDE DEF Above, T, Less
    <2> QED
        BY <1>4, <2>4, <2>6, Zenon
<1> QED
    BY <1>5

LEMMA SmallestNumber ==
    ASSUME NEW S \in SUBSET Int, IsFiniteSet(S), S # {}
    PROVE  \E m \in S : \A k \in S : m <= k
<1> DEFINE Below(i) == {k \in S : k < i}
           Less == StrictSubsetOrdering(S)
           T == {Below(i) : i \in S}
<1>1. IsWellFoundedOn(Less, FiniteSubsetsOf(S))
    BY FS_StrictSubsetOrderingWellFounded
<1>2. T \subseteq FiniteSubsetsOf(S) /\ T # {}
    <2>1. FiniteSubsetsOf(S) = SUBSET S
        BY FS_FiniteSubsetsOfFinite
    <2>2. \A i \in S : Below(i) \in SUBSET S
        OBVIOUS
    <2>3. \A x \in T : x \in SUBSET S
        <3> HIDE DEF Below
        <3> QED
            BY <2>2
    <2>4. T # {}
        <3>1. PICK i \in S : TRUE
            OBVIOUS
        <3>2. Below(i) \in T
            OBVIOUS
        <3> HIDE DEF T
        <3> QED
            BY <3>2
    <2> HIDE DEF T
    <2> QED
        BY <2>1, <2>3, <2>4
<1>3. \E x \in T : \A y \in T : <<y, x>> \notin Less
    <2> HIDE DEF Less, T
    <2> QED BY <1>1, <1>2, WFMin
<1>4. PICK m \in S : \A y \in T : <<y, Below(m)>> \notin Less
    <2> HIDE DEF Below, Less
    <2> QED BY <1>3, Zenon
<1>5. ASSUME NEW k \in S, k < m PROVE FALSE
    <2>1. k \in Int /\ m \in Int /\ \A j \in S : j \in Int
        OBVIOUS
    <2>2. k \in Below(m) /\ k \notin Below(k)
        BY <1>5, <2>1
    <2>3. Below(k) \subseteq Below(m)
        <3>1. ASSUME NEW j \in S, j < k PROVE j < m
            <4>1. j \in Int
                BY <2>1
            <4> QED
                BY <1>5, <2>1, <3>1, <4>1
        <3> QED
            BY <3>1
    <2>4. Below(k) \in T
        OBVIOUS
    <2>5. Below(k) \in SUBSET S /\ Below(m) \in SUBSET S
        OBVIOUS
    <2>6. <<Below(k), Below(m)>> \in Less
        <3> HIDE DEF Below
        <3> QED
            BY <2>2, <2>3, <2>5 DEF StrictSubsetOrdering
    <2> HIDE DEF Below, T, Less
    <2> QED
        BY <1>4, <2>4, <2>6, Zenon
<1> QED
    BY <1>5

\* The rows behind place n, newest first: as many as there are, up to n.
Top(n) == {i \in Ids : Place(i) < n}

LEMMA IdsAreFinite ==
    ASSUME TypeOK
    PROVE  /\ Ids \in SUBSET Int /\ IsFiniteSet(Ids)
           /\ \A i : Place(i) \in Nat
<1>1. IsFiniteSet(1..seq) /\ Ids \subseteq 1..seq /\ seq \in Nat
    BY FS_Interval DEF TypeOK, AuditTypeOK
<1>2. IsFiniteSet(Ids)
    BY <1>1, FS_Subset
<1>3. ASSUME NEW i PROVE Place(i) \in Nat
    <2>1. IsFiniteSet({k \in Ids : k > i})
        BY <1>2, FS_Subset
    <2> QED
        BY <2>1, FS_CardinalityType DEF Place
<1> QED
    BY <1>1, <1>2, <1>3

LEMMA TopIsSmall ==
    ASSUME TypeOK, NEW n \in Nat
    PROVE  IsFiniteSet(Top(n)) /\ Cardinality(Top(n)) <= n
<1>1. Ids \in SUBSET Int /\ IsFiniteSet(Ids)
    BY IdsAreFinite
<1>2. IsFiniteSet(Top(n))
    BY <1>1, FS_Subset DEF Top
<1>3. CASE Top(n) = {}
    BY <1>3, FS_EmptySet
<1>4. CASE Top(n) # {}
    <2>1. PICK m \in Top(n) : \A k \in Top(n) : m <= k
        BY <1>1, <1>2, <1>4, SmallestNumber DEF Top
    <2> DEFINE Above == {k \in Ids : k > m}
    <2>2. IsFiniteSet(Above) /\ Cardinality(Above) \in Nat /\ Cardinality(Above) < n
        BY <1>1, <2>1, FS_Subset, FS_CardinalityType DEF Top, Place
    <2>3. Top(n) \subseteq Above \cup {m}
        <3> SUFFICES ASSUME NEW k \in Top(n), k # m PROVE k \in Above
            OBVIOUS
        <3>1. k \in Ids /\ k \in Int /\ m \in Int /\ m <= k
            BY <1>1, <2>1 DEF Top
        <3> QED
            BY <3>1
    <2>4. IsFiniteSet(Above \cup {m}) /\ Cardinality(Above \cup {m}) = Cardinality(Above) + 1
        <3>1. m \notin Above
            BY <1>1, <2>1 DEF Top
        <3> HIDE DEF Above
        <3> QED
            BY <2>2, <3>1, FS_AddElement
    <2>5. Cardinality(Top(n)) <= Cardinality(Above \cup {m})
        BY <2>3, <2>4, FS_Subset
    <2>6. Cardinality(Top(n)) \in Nat
        BY <1>2, FS_CardinalityType
    <2> QED
        BY <1>2, <2>2, <2>4, <2>5, <2>6
<1> QED
    BY <1>2, <1>3, <1>4

LEMMA TopIsFull ==
    ASSUME TypeOK, NEW n \in Nat, NEW i \in Ids, Place(i) >= n
    PROVE  Cardinality(Top(n)) >= n
<1>1. Ids \in SUBSET Int /\ IsFiniteSet(Ids) /\ \A k : Place(k) \in Nat
    BY IdsAreFinite
<1> DEFINE Rest == {k \in Ids : Place(k) >= n}
<1>2. PICK m \in Rest : \A k \in Rest : k <= m
    <2>1. IsFiniteSet(Rest) /\ Rest \in SUBSET Int /\ i \in Rest
        BY <1>1, FS_Subset
    <2> HIDE DEF Rest
    <2> QED
        BY <2>1, LargestNumber
<1> DEFINE Above == {k \in Ids : k > m}
<1>3. Above \subseteq Top(n)
    <2> SUFFICES ASSUME NEW k \in Ids, k > m PROVE Place(k) < n
        BY DEF Top
    <2>1. k \in Int /\ m \in Int /\ Place(k) \in Nat
        BY <1>1, <1>2
    <2> QED
        BY <1>2, <2>1
<1>4. IsFiniteSet(Top(n)) /\ Cardinality(Above) >= n
    BY <1>1, <1>2, FS_Subset DEF Top, Place
<1>5. Cardinality(Above) <= Cardinality(Top(n)) /\ Cardinality(Above) \in Nat /\ Cardinality(Top(n)) \in Nat
    BY <1>3, <1>4, FS_Subset, FS_CardinalityType
<1> QED
    BY <1>4, <1>5

\* A page that is not full is the last one.
LEMMA ShortPageIsLast ==
    ASSUME TypeOK, offset \in Nat, Cardinality(Page) < Limit
    PROVE  \A i \in Ids : Place(i) < offset + Limit
<1> SUFFICES ASSUME NEW i \in Ids, Place(i) >= offset + Limit
             PROVE  FALSE
    BY IdsAreFinite, AuditAssumption
<1>1. Limit \in Nat
    BY AuditAssumption
<1>2. /\ IsFiniteSet(Top(offset)) /\ Cardinality(Top(offset)) <= offset
      /\ IsFiniteSet(Top(offset + Limit)) /\ Cardinality(Top(offset + Limit)) >= offset + Limit
    BY <1>1, TopIsSmall, TopIsFull
<1>3. Page = Top(offset + Limit) \ Top(offset)
    BY <1>1, IdsAreFinite DEF Page, Top
<1>4. Top(offset + Limit) \cap Top(offset) = Top(offset)
    BY <1>1, IdsAreFinite DEF Top
<1>5. Cardinality(Page) = Cardinality(Top(offset + Limit)) - Cardinality(Top(offset))
    BY <1>2, <1>3, <1>4, FS_Difference
<1>6. Cardinality(Top(offset)) \in Nat /\ Cardinality(Top(offset + Limit)) \in Nat
    BY <1>2, FS_CardinalityType
<1> QED
    BY <1>1, <1>2, <1>5, <1>6

\* While it pages, each row of its base that is left is one it saw or one whose
\* place is not before its offset.
PagesFit ==
    /\ offset \in Nat /\ base \subseteq 1..seq
    /\ ask = "idle" => offset = 0
    /\ ask \in {"list", "between"} => \A i \in base \cap Ids : i \in seen \/ Place(i) >= offset
    /\ PagesMissNothing

\* What it counted is what there is, as long as no row is written.
StatsFit ==
    ~touched =>
        /\ ask \in {"success", "failure", "running"} => counts["total"] = Count("total")
        /\ ask \in {"failure", "running"} => counts["success"] = Count("success")
        /\ ask = "running" => counts["failure"] = Count("failure")
        /\ ask = "stats" =>
              counts["total"] = counts["success"] + counts["failure"] + counts["running"]

\* A row that stays is not moved towards the front: new rows come before it, and
\* Cleanup takes none that does.
LEMMA PlacesGrow ==
    ASSUME TypeOK', NEW i, {k \in Ids : k > i} \subseteq {k \in Ids' : k > i}
    PROVE  Place(i) <= Place(i)'
<1>1. IsFiniteSet(1..seq') /\ Ids' \subseteq 1..seq'
    BY FS_Interval DEF TypeOK, AuditTypeOK
<1>2. IsFiniteSet({k \in Ids' : k > i})
    BY <1>1, FS_Subset
<1> QED
    BY <1>2, FS_Subset DEF Place

LEMMA PlacesAreNumbers == ASSUME TypeOK' PROVE \A i : Place(i)' \in Nat
<1> SUFFICES ASSUME NEW i PROVE Place(i)' \in Nat
    OBVIOUS
<1>1. IsFiniteSet(1..seq') /\ Ids' \subseteq 1..seq'
    BY FS_Interval DEF TypeOK, AuditTypeOK
<1>2. IsFiniteSet({k \in Ids' : k > i})
    BY <1>1, FS_Subset
<1> QED
    BY <1>2, FS_CardinalityType DEF Place

\* The steps that write rows.
LEMMA WritesKeepPages ==
    ASSUME TypeOK, TypeOK', PagesFit, UNCHANGED reader, seq' \in Nat, seq' >= seq,
           \A i \in Ids' : i \in Ids \/ i > seq,
           \A i \in Ids' \cap Ids : {k \in Ids : k > i} \subseteq {k \in Ids' : k > i}
    PROVE  PagesFit'
<1>1. seq \in Nat /\ Ids \subseteq 1..seq /\ seq' \in Nat
    BY DEF TypeOK, AuditTypeOK
<1>2. base \cap Ids' \subseteq base \cap Ids
    <2> SUFFICES ASSUME NEW i \in base, i \in Ids' PROVE i \in Ids
        OBVIOUS
    <2>1. i \in 1..seq
        BY DEF PagesFit
    <2>2. i \in Ids \/ i > seq
        OBVIOUS
    <2> QED
        BY <1>1, <2>1, <2>2
<1>3. \A i \in Ids' \cap Ids : Place(i) <= Place(i)' /\ Place(i) \in Nat /\ Place(i)' \in Nat
    <2>1. \A i \in Ids' \cap Ids : Place(i) <= Place(i)'
        BY PlacesGrow
    <2>2. \A i : Place(i) \in Nat /\ Place(i)' \in Nat
        BY IdsAreFinite, PlacesAreNumbers
    <2> QED
        BY <2>1, <2>2
<1>4. ask' = ask /\ offset' = offset /\ base' = base /\ seen' = seen
    BY DEF reader
<1>5. base' \subseteq 1..seq'
    BY <1>1, <1>4 DEF PagesFit
<1>6. ASSUME ask \in {"list", "between"}, NEW i \in base \cap Ids', i \notin seen
      PROVE  Place(i)' >= offset
    <2>1. Place(i) >= offset /\ Place(i) <= Place(i)' /\ Place(i) \in Nat /\ Place(i)' \in Nat
        BY <1>2, <1>3, <1>6 DEF PagesFit
    <2>2. offset \in Nat
        BY DEF PagesFit
    <2> QED
        BY <2>1, <2>2
<1>7. ask = "listed" => base \cap Ids' \subseteq seen
    BY <1>2 DEF PagesFit, PagesMissNothing
<1>8. offset \in Nat /\ (ask = "idle" => offset = 0)
    BY DEF PagesFit
<1> QED
    BY <1>4, <1>5, <1>6, <1>7, <1>8 DEF PagesFit, PagesMissNothing

\* StartRow, EndRow and Cleanup write rows, and the end of the process gives up.
LEMMA RowsKeepPages ==
    ASSUME TypeOK, TypeOK', PagesFit,
           \/ \E a \in Attempts, answers \in BOOLEAN : StartRow(a, answers) \/ EndRow(a, answers)
           \/ Cleanup
    PROVE  PagesFit'
<1>0. seq \in Nat /\ Ids \subseteq 1..seq /\ UNCHANGED reader
    BY DEF TypeOK, AuditTypeOK, StartRow, EndRow, Cleanup
<1>1. ASSUME Ids' = Ids, seq' = seq PROVE PagesFit'
    BY <1>0, <1>1, WritesKeepPages
<1>2. ASSUME NEW a \in Attempts, StartRow(a, TRUE) PROVE PagesFit'
    <2>1. seq' = seq + 1 /\ Ids' = Ids \cup {seq + 1}
        BY <1>2 DEF StartRow, NextId, Ids
    <2> QED
        BY <1>0, <2>1, WritesKeepPages
<1>3. CASE Cleanup
    <2>1. seq' = seq
        BY <1>3 DEF Cleanup
    <2>2. PICK k \in Ids : Ids' = {i \in Ids : i > k}
        BY <1>3 DEF Cleanup, Restrict, Ids
    <2>3. ASSUME NEW i \in Ids', NEW j \in Ids, j > i PROVE j \in Ids'
        <3>1. i \in Int /\ j \in Int /\ k \in Int /\ i > k
            BY <1>0, <2>2
        <3> QED
            BY <2>2, <2>3, <3>1
    <2>4. \A i \in Ids' : i \in Ids
        BY <2>2
    <2>5. \A i \in Ids' \cap Ids : {j \in Ids : j > i} \subseteq {j \in Ids' : j > i}
        BY <2>3
    <2> QED
        BY <1>0, <2>1, <2>4, <2>5, WritesKeepPages
<1>4. ASSUME NEW a \in Attempts, NEW answers \in BOOLEAN, EndRow(a, answers) PROVE PagesFit'
    BY <1>1, <1>4 DEF EndRow, Ids
<1>5. ASSUME NEW a \in Attempts, StartRow(a, FALSE) PROVE PagesFit'
    BY <1>1, <1>5 DEF StartRow, table, Ids
<1> QED
    BY <1>2, <1>3, <1>4, <1>5

\* A page takes those at the places from offset on: what is left is behind it, and
\* after a short page nothing is.
LEMMA QueryKeepsPages == ASSUME TypeOK, PagesFit, Query PROVE PagesFit'
<1>0. /\ Ids' = Ids /\ seq' = seq /\ \A i : Place(i)' = Place(i)
    BY DEF Query, AskList, AskStats, GetByJobID, GetStats, AskFails, table, Ids, Place
<1>1. \A i : Place(i) \in Nat
    BY IdsAreFinite
<1>2. Limit \in Nat /\ Limit > 0 /\ offset \in Nat /\ base \subseteq 1..seq /\ Ids \subseteq 1..seq
    BY AuditAssumption DEF PagesFit, TypeOK, AuditTypeOK
<1>3. CASE AskList
    <2>1. ask' = "list" /\ offset' = offset /\ seen' = seen /\ ask \in {"idle", "between"}
        BY <1>3 DEF AskList
    <2>2. CASE ask = "idle"
        BY <1>0, <1>1, <1>2, <1>3, <2>1, <2>2 DEF AskList, PagesFit, PagesMissNothing
    <2>3. CASE ask = "between"
        <3>1. base' = base
            BY <1>3, <2>3 DEF AskList
        <3> QED
            BY <1>0, <1>2, <2>1, <2>3, <3>1 DEF PagesFit, PagesMissNothing
    <2> QED
        BY <2>1, <2>2, <2>3
<1>4. CASE GetByJobID
    <2>1. /\ seen' = seen \cup Page /\ offset' = offset + Limit /\ base' = base
          /\ ask = "list" /\ ask' = IF Cardinality(Page) < Limit THEN "listed" ELSE "between"
        BY <1>4 DEF GetByJobID
    <2>2. \A i \in base \cap Ids : i \in seen' \/ Place(i) >= offset + Limit
        <3> SUFFICES ASSUME NEW i \in base \cap Ids, i \notin seen, Place(i) < offset + Limit
                     PROVE  i \in Page
            BY <1>1, <1>2, <2>1
        <3>1. Place(i) >= offset
            BY <2>1 DEF PagesFit
        <3> QED
            BY <3>1 DEF Page
    <2>3. CASE Cardinality(Page) < Limit
        <3>1. \A i \in Ids : Place(i) < offset + Limit
            BY <1>2, <2>3, ShortPageIsLast
        <3>2. base \cap Ids \subseteq seen'
            BY <1>1, <1>2, <2>2, <3>1
        <3> QED
            BY <1>0, <1>2, <2>1, <2>3, <3>2 DEF PagesFit, PagesMissNothing
    <2>4. CASE ~(Cardinality(Page) < Limit)
        BY <1>0, <1>2, <2>1, <2>2, <2>4 DEF PagesFit, PagesMissNothing
    <2> QED
        BY <2>3, <2>4
<1>5. CASE AskStats \/ GetStats
    <2>1. /\ offset' = offset /\ base' = base
          /\ ask' \notin {"idle", "list", "between", "listed"}
        BY <1>5 DEF AskStats, GetStats, After, Counted, Statuses
    <2> QED
        BY <1>0, <1>2, <2>1 DEF PagesFit, PagesMissNothing
<1>6. ASSUME NEW how \in {"closed", "failed"}, GiveUp(how) PROVE PagesFit'
    BY <1>0, <1>6 DEF GiveUp, PagesFit, PagesMissNothing
<1> QED
    BY <1>3, <1>4, <1>5, <1>6 DEF Query, AskFails

LEMMA ForgetKeepsPages == ASSUME PagesFit, Forget PROVE PagesFit'
<1>0. Ids' = Ids /\ seq' = seq /\ \A i : Place(i)' = Place(i)
    BY DEF Forget, table, Ids, Place
<1>1. CASE UNCHANGED reader
    BY <1>0, <1>1 DEF reader, PagesFit, PagesMissNothing
<1>2. CASE GiveUp("failed")
    BY <1>0, <1>2 DEF GiveUp, PagesFit, PagesMissNothing
<1> QED
    BY <1>1, <1>2 DEF Forget

LEMMA PagesStepKeeps == ASSUME TypeOK, TypeOK', PagesFit, [Next]_vars PROVE PagesFit'
<1>1. CASE UNCHANGED <<table, reader>>
    BY <1>1 DEF table, reader, PagesFit, PagesMissNothing, Ids, Place
<1>2. CASE Exit \/ Crash
    BY <1>2, ForgetKeepsPages DEF Exit, Crash, Ends
<1>3. ASSUME NEW a \in Attempts, Submit(a) PROVE PagesFit'
    BY <1>1, <1>3 DEF Submit
<1>4. ASSUME NEW a \in Attempts, Execute(a) PROVE PagesFit'
    <2>1. CASE Panics(a)
        BY <2>1, ForgetKeepsPages DEF Panics, Ends
    <2>2. ASSUME NEW o \in Outcomes(a), HandlerEnds(a, o) PROVE PagesFit'
        BY <1>1, <2>2 DEF HandlerEnds
    <2> QED
        BY <1>4, <2>1, <2>2, RowsKeepPages DEF Execute
<1>5. CASE Query
    BY <1>5, QueryKeepsPages
<1>6. CASE Cleanup
    BY <1>6, RowsKeepPages
<1> QED
    BY <1>1, <1>2, <1>3, <1>4, <1>5, <1>6
    DEF Next, vars, auditVars, InitSQLite, InitSQLiteFails, InitClients, InitWorkerPool, Start,
        StopNext

\* Who pages through the log, newest first, sees every row that stays, however
\* many rows begin, end and go between its pages.
THEOREM PagesAreComplete == Spec => []PagesMissNothing
<1>1. Init => PagesFit
    BY DEF Init, AuditInit, PagesFit, PagesMissNothing
<1>2. LogInv => TypeOK
    BY DEF LogInv
<1>3. PagesFit => PagesMissNothing
    BY DEF PagesFit
<1> QED
    BY <1>1, <1>2, <1>3, LogInvariance, PagesStepKeeps, PTL DEF Spec

\* A row has one status of three.
LEMMA StatusesPartition ==
    ASSUME TypeOK
    PROVE  Count("total") = Count("success") + Count("failure") + Count("running")
<1> DEFINE Of(c) == {i \in Ids : rows[i].status = c}
<1>1. IsFiniteSet(1..seq) /\ Ids \subseteq 1..seq
    BY FS_Interval DEF TypeOK, AuditTypeOK
<1>2. \A c : IsFiniteSet(Of(c)) /\ Cardinality(Of(c)) \in Nat
    <2> SUFFICES ASSUME NEW c PROVE IsFiniteSet(Of(c)) /\ Cardinality(Of(c)) \in Nat
        OBVIOUS
    <2>1. Of(c) \subseteq 1..seq
        BY <1>1
    <2>2. IsFiniteSet(Of(c))
        BY <1>1, <2>1, FS_Subset
    <2> HIDE DEF Of
    <2> QED
        BY <2>2, FS_CardinalityType
<1>3. Ids = (Of("success") \cup Of("failure")) \cup Of("running")
    BY DEF TypeOK, AuditTypeOK, Statuses
<1>4. /\ Of("success") \cap Of("failure") = {}
      /\ (Of("success") \cup Of("failure")) \cap Of("running") = {}
    OBVIOUS
<1>5. /\ Count("total") = Cardinality(Ids) /\ Count("success") = Cardinality(Of("success"))
      /\ Count("failure") = Cardinality(Of("failure"))
      /\ Count("running") = Cardinality(Of("running"))
    <2>1. {i \in Ids : "total" = "total" \/ rows[i].status = "total"} = Ids
        OBVIOUS
    <2>2. \A c \in {"success", "failure", "running"} :
              {i \in Ids : c = "total" \/ rows[i].status = c} = Of(c)
        OBVIOUS
    <2> QED
        BY <2>1, <2>2 DEF Count
<1> HIDE DEF Of
<1>6. /\ IsFiniteSet(Of("success") \cup Of("failure"))
      /\ Cardinality(Of("success") \cup Of("failure")) = Cardinality(Of("success")) + Cardinality(Of("failure"))
    BY <1>2, <1>4, FS_Union, FS_EmptySet
<1>7. Cardinality(Ids) = Cardinality(Of("success") \cup Of("failure")) + Cardinality(Of("running"))
    <2> DEFINE Ended == Of("success") \cup Of("failure")
    <2>1. IsFiniteSet(Ended) /\ Ended \cap Of("running") = {} /\ Ids = Ended \cup Of("running")
        BY <1>3, <1>4, <1>6
    <2>2. Cardinality(Ended) \in Nat /\ IsFiniteSet(Of("running")) /\ Cardinality(Of("running")) \in Nat
        BY <1>2, <1>6
    <2> HIDE DEF Ended
    <2>3. Cardinality(Ended \cup Of("running"))
             = Cardinality(Ended) + Cardinality(Of("running")) - Cardinality(Ended \cap Of("running"))
        BY <2>1, <2>2, FS_Union
    <2>4. Cardinality(Ended \cap Of("running")) = 0
        BY <2>1, FS_EmptySet
    <2>5. Cardinality(Ids) = Cardinality(Ended) + Cardinality(Of("running"))
        BY <2>1, <2>2, <2>3, <2>4
    <2> QED
        BY <2>5 DEF Ended
<1> QED
    BY <1>2, <1>5, <1>6, <1>7

\* What is written while GetStats asks is known to be.
LEMMA RowsKeepStats ==
    ASSUME StatsFit, UNCHANGED reader, touched' = touched, UNCHANGED rows PROVE StatsFit'
BY DEF StatsFit, reader, Count, Ids

LEMMA TouchKeepsStats == ASSUME StatsFit, UNCHANGED reader, Touch PROVE StatsFit'
BY DEF StatsFit, reader, Touch, Counted, Statuses

LEMMA GiveUpKeepsStats == ASSUME NEW how \in {"closed", "failed"}, GiveUp(how) PROVE StatsFit'
BY DEF StatsFit, GiveUp

LEMMA QueryKeepsStats == ASSUME TypeOK, StatsFit, Query PROVE StatsFit'
<1>0. \A c : Count(c)' = Count(c)
    BY DEF Query, AskList, AskStats, GetByJobID, GetStats, AskFails, table, Ids, Count
<1>1. CASE AskList \/ AskStats \/ GetByJobID
    <2>1. ask' \in {"list", "total", "listed", "between"}
        BY <1>1 DEF AskList, AskStats, GetByJobID
    <2> QED
        BY <2>1 DEF StatsFit
<1>2. CASE GetStats
    <2> SUFFICES ASSUME ~touched PROVE StatsFit'
        BY <1>2 DEF StatsFit, GetStats
    <2>1. /\ touched' = touched /\ ask \in Counted /\ ask' = After[ask]
          /\ \A c \in Counted : counts'[c] = IF c = ask THEN Count(ask) ELSE counts[c]
        BY <1>2 DEF GetStats, TypeOK, AuditTypeOK
    <2>2. Counted = {"total", "success", "failure", "running"}
        BY DEF Counted, Statuses
    <2>3. CASE ask = "total"
        BY <1>0, <2>1, <2>2, <2>3 DEF StatsFit, After
    <2>4. CASE ask = "success"
        BY <1>0, <2>1, <2>2, <2>4 DEF StatsFit, After
    <2>5. CASE ask = "failure"
        BY <1>0, <2>1, <2>2, <2>5 DEF StatsFit, After
    <2>6. CASE ask = "running"
        <3>1. /\ ask' = "stats" /\ counts'["total"] = Count("total")
              /\ counts'["success"] = Count("success") /\ counts'["failure"] = Count("failure")
              /\ counts'["running"] = Count("running")
            BY <2>1, <2>2, <2>6 DEF StatsFit, After
        <3> QED
            BY <3>1, StatusesPartition DEF StatsFit
    <2> QED
        BY <2>1, <2>2, <2>3, <2>4, <2>5, <2>6
<1> QED
    BY <1>1, <1>2, GiveUpKeepsStats DEF Query, AskFails

LEMMA ForgetKeepsStats == ASSUME StatsFit, Forget PROVE StatsFit'
<1>1. rows' = rows
    BY DEF Forget, table
<1> QED
    BY <1>1, GiveUpKeepsStats, RowsKeepStats DEF Forget

LEMMA StatsStepKeeps == ASSUME TypeOK, StatsFit, [Next]_vars PROVE StatsFit'
<1>1. CASE UNCHANGED <<table, reader, touched>>
    BY <1>1, RowsKeepStats DEF table
<1>2. CASE Exit \/ Crash
    BY <1>2, ForgetKeepsStats DEF Exit, Crash, Ends
<1>3. ASSUME NEW a \in Attempts, Submit(a) PROVE StatsFit'
    BY <1>1, <1>3 DEF Submit
<1>4. ASSUME NEW a \in Attempts, Execute(a) PROVE StatsFit'
    <2>1. CASE Panics(a)
        BY <2>1, ForgetKeepsStats DEF Panics, Ends
    <2>2. ASSUME NEW o \in Outcomes(a), HandlerEnds(a, o) PROVE StatsFit'
        BY <1>1, <2>2 DEF HandlerEnds
    <2>3. ASSUME NEW answers \in BOOLEAN, StartRow(a, answers) \/ EndRow(a, answers)
          PROVE  StatsFit'
        BY <2>3, TouchKeepsStats, RowsKeepStats DEF StartRow, EndRow, table
    <2> QED
        BY <1>4, <2>1, <2>2, <2>3 DEF Execute
<1>5. CASE Query
    BY <1>5, QueryKeepsStats
<1>6. CASE Cleanup
    BY <1>6, TouchKeepsStats DEF Cleanup
<1> QED
    BY <1>1, <1>2, <1>3, <1>4, <1>5, <1>6
    DEF Next, vars, auditVars, InitSQLite, InitSQLiteFails, InitClients, InitWorkerPool, Start,
        StopNext

\* Four counts asked one after the other add up, whatever there is to count, unless
\* a row is written between them.
THEOREM StatsAreConsistent == Spec => []StatsAddUp
<1>1. Init => StatsFit
    BY DEF Init, AuditInit, StatsFit
<1>2. LogInv => TypeOK
    BY DEF LogInv
<1>3. StatsFit => StatsAddUp
    BY DEF StatsFit, StatsAddUp
<1> QED
    BY <1>1, <1>2, <1>3, LogInvariance, StatsStepKeeps, PTL DEF Spec

-----------------------------------------------------------------------------
(* The parts.                                                              *)

\* App.Stop takes the next part in its order: nothing before it is open.
LEMMA StopNextCloses ==
    ASSUME TypeOK, StopNext
    PROVE  \E n \in 1..4 :
              /\ \A m \in 1..(n - 1) : Closed(m)
              /\ open' = open \ Order[n]
              /\ timedOut' = (timedOut \/ ("server" \in Order[n] /\ InFlight))
<1> DEFINE First(n) == ~Closed(n) /\ \A m \in 1..(n - 1) : Closed(m)
<1>1. DOMAIN Order = 1..4
    BY DEF Order
<1>2. ~(Closed(1) /\ Closed(2) /\ Closed(3) /\ Closed(4))
    BY DEF StopNext, TypeOK, Resources, Closed, Order
<1>3. CASE ~Closed(1)
    <2>1. First(1)
        BY <1>3
    <2> QED
        BY <1>1, <2>1 DEF StopNext
<1>4. CASE Closed(1) /\ ~Closed(2)
    <2>1. First(2)
        BY <1>4
    <2> QED
        BY <1>1, <2>1 DEF StopNext
<1>5. CASE Closed(1) /\ Closed(2) /\ ~Closed(3)
    <2>1. First(3)
        BY <1>5
    <2> QED
        BY <1>1, <2>1 DEF StopNext
<1>6. CASE Closed(1) /\ Closed(2) /\ Closed(3) /\ ~Closed(4)
    <2>1. First(4)
        BY <1>6
    <2> QED
        BY <1>1, <2>1 DEF StopNext
<1> QED
    BY <1>2, <1>3, <1>4, <1>5, <1>6

LEMMA InitPartInv == Init => PartInv
BY DEF Init, AuditInit, PartInv, StopFits, HandlersFit, PartsOutliveTheirUsers,
    RequestsSeeOpenDatabase, TestedHandlersNeverPanic, InFlight, Counted, Statuses

LEMMA StopFitsKept == ASSUME TypeOK, StopFits, [Next]_vars PROVE StopFits'
<1> USE DEF StopFits, InFlight, Counted, Statuses
<1>1. CASE UNCHANGED vars
    BY <1>1 DEF vars, auditVars, reader, appVars
<1>2. CASE InitSQLite \/ InitSQLiteFails
    BY <1>2 DEF InitSQLite, InitSQLiteFails, auditVars, reader
<1>3. CASE InitClients
    BY <1>3 DEF InitClients, auditVars, reader
<1>4. CASE InitWorkerPool \/ Start
    BY <1>4 DEF InitWorkerPool, Start, auditVars, reader
<1>5. CASE Ends
    BY <1>5 DEF Ends, Forget, GiveUp, reader
<1>6. CASE StopNext
    <2>1. PICK n \in 1..4 :
              /\ \A m \in 1..(n - 1) : Closed(m)
              /\ open' = open \ Order[n]
              /\ timedOut' = (timedOut \/ ("server" \in Order[n] /\ InFlight))
        BY <1>6, StopNextCloses
    <2>2. "sqlite" \in Order[n] => n = 4
        BY DEF Order, Clients
    <2>3. n = 4 => "server" \notin open
        BY <2>1 DEF Closed, Order
    <2>4. "server" \in open' => "sqlite" \in open'
        BY <2>1, <2>2, <2>3
    <2>5. "server" \notin open' /\ InFlight => timedOut'
        BY <2>1
    <2> QED
        BY <1>6, <2>4, <2>5 DEF StopNext, auditVars, reader
<1>7. ASSUME UNCHANGED <<life, open, timedOut, reader>> PROVE StopFits'
    BY <1>7 DEF reader
<1>8. ASSUME NEW a \in Attempts, Submit(a) \/ Execute(a) PROVE StopFits'
    BY <1>5, <1>7, <1>8
    DEF Submit, Execute, Panics, Statement, StartRow, HandlerEnds, EndRow, appVars
<1>9. CASE Query /\ UNCHANGED appVars
    BY <1>9 DEF Query, AskList, AskStats, GetByJobID, GetStats, AskFails, GiveUp, After, appVars
<1>10. CASE Cleanup /\ UNCHANGED appVars
    BY <1>7, <1>10 DEF Cleanup, appVars
<1> QED
    BY <1>1, <1>2, <1>3, <1>4, <1>5, <1>6, <1>8, <1>9, <1>10 DEF Next, Exit, Crash

LEMMA HandlersFitKept == ASSUME HandlersFit, [Next]_vars PROVE HandlersFit'
<1> USE DEF HandlersFit, Registered
<1>1. CASE UNCHANGED <<life, handlers, made>>
    BY <1>1
<1>2. CASE InitSQLite \/ InitSQLiteFails \/ InitClients \/ InitWorkerPool
    BY <1>2 DEF InitSQLite, InitSQLiteFails, InitClients, InitWorkerPool
<1>3. CASE Start \/ StopNext
    BY <1>3 DEF Start, StopNext
<1>4. CASE Ends
    BY <1>4 DEF Ends
<1> QED
    BY <1>1, <1>2, <1>3, <1>4
    DEF Next, vars, appVars, Exit, Crash, Submit, Execute, Panics, Statement

LEMMA UsersKept ==
    ASSUME TypeOK, PartInv, [Next]_vars PROVE PartsOutliveTheirUsers'
<1> USE DEF PartsOutliveTheirUsers
<1>1. RequestsSeeOpenDatabase'
    <2> USE DEF PartInv, StopFits, RequestsSeeOpenDatabase
    <2>1. CASE UNCHANGED ask
        BY <2>1
        DEF Next, vars, appVars, InitSQLite, InitSQLiteFails, InitClients, InitWorkerPool, Start,
            Exit, Crash, Ends, StopNext, Submit, Execute, Statement, Panics
    <2>2. CASE Ends
        BY <2>2 DEF Ends, Forget, GiveUp, reader
    <2>3. CASE Query /\ UNCHANGED appVars
        <3>1. CASE AskList \/ AskStats \/ GetByJobID
            BY <3>1 DEF AskList, AskStats, GetByJobID
        <3>2. CASE GetStats
            BY <3>2 DEF GetStats, After, Counted, Statuses
        <3>3. CASE InFlight /\ "sqlite" \notin open
            BY <2>3, <3>3 DEF appVars
        <3>4. CASE AskFails("failed")
            BY <3>4 DEF AskFails, GiveUp
        <3> QED
            BY <2>3, <3>1, <3>2, <3>3, <3>4 DEF Query
    <2> QED
        BY <2>1, <2>2, <2>3
        DEF Next, vars, auditVars, reader, InitSQLite, InitSQLiteFails, InitClients,
            InitWorkerPool, Start, Exit, Crash, StopNext, Submit, Execute, Panics, StartRow,
            HandlerEnds, EndRow, Cleanup
<1>2. TestedHandlersNeverPanic'
    <2> USE DEF PartInv, TestedHandlersNeverPanic
    <2>1. CASE UNCHANGED outcome
        BY <2>1
    <2>2. ASSUME NEW a \in Attempts, Panics(a) PROVE TestedHandlersNeverPanic'
        <3>1. Needs(Handler[a]) \cap {"ib", "ilp"} # {}
            BY <2>2 DEF Panics, CallsNil, HandlersFit, Registered
        <3> QED
            BY <2>2, <3>1 DEF Panics, TypeOK, AuditTypeOK
    <2>3. ASSUME NEW a \in Attempts, NEW o \in {"success", "failure"}, HandlerEnds(a, o)
          PROVE TestedHandlersNeverPanic'
        BY <2>3 DEF HandlerEnds, TypeOK, AuditTypeOK
    <2> QED
        BY <2>1, <2>2, <2>3
        DEF Next, vars, auditVars, attempt, InitSQLite, InitSQLiteFails, InitClients,
            InitWorkerPool, Start, Exit, Crash, StopNext, Submit, Execute, Outcomes, StartRow,
            EndRow, Query, AskList, AskStats, GetByJobID, GetStats, AskFails, Cleanup
<1> QED
    BY <1>1, <1>2

\* Wherever App.Stop is, whatever NewApp could not make: a request of the audit
\* API meets a closed database only after the shutdown of the server timed out,
\* and only a handler of the IB or the ILP client ends the process.
THEOREM PartsOutliveUsers == Spec => []PartsOutliveTheirUsers
<1>1. TypeOK /\ PartInv /\ [Next]_vars => PartInv'
    BY StopFitsKept, HandlersFitKept, UsersKept DEF PartInv
<1>2. LogInv => TypeOK
    BY DEF LogInv
<1>3. PartInv => PartsOutliveTheirUsers
    BY DEF PartInv
<1> QED
    BY <1>1, <1>2, <1>3, InitPartInv, LogInvariance, PTL DEF Spec

-----------------------------------------------------------------------------
(* The client of the IB gateway.  SessionIsKept is not inductive.  What it *)
(* leaves open is who may be at which place, that mu says who is in a      *)
(* request and in Close, and that the session's client, once it is there,  *)
(* is never taken away again, although authenticated is: the flag is       *)
(* dropped by a failed ping, the client is not.                            *)

\* A fetch never authenticates, only Close takes the write lock.
PlacesFit ==
    /\ \A k \in KeepAlives : pc[k] \notin {"writeLock", "closing"}
    /\ \A f \in Fetches : pc[f] \in {"idle", "readLock", "request", "done"}
    /\ pc[Closer] \in {"idle", "writeLock", "closing", "done"}

\* mu is held by those who are in a request, or by Close alone.
MuFits ==
    /\ \A c \in Calls : pc[c] = "request" <=> c \in readers
    /\ writer = Closer <=> pc[Closer] = "closing"
    /\ writer = Closer => readers = {}
    /\ result[Closer] = "ok" => closed /\ readers = {}

\* Whoever is past the authentication finds the session's client.
SessionFits ==
    /\ authenticated => client = "session"
    /\ \A k \in KeepAlives : pc[k] = "verify" => client = "session"
    /\ Credentials =>
        \A k \in KeepAlives :
            /\ pc[k] = "readLock" => client = "session"
            /\ pc[k] = "request" => used[k] = "session"
            /\ result[k] = "ok" => used[k] = "session"

IBInv == IBTypeOK /\ PlacesFit /\ MuFits /\ SessionFits

LEMMA InitIBInv == IBInit => IBInv
BY ClientAssumption
DEF IBInit, IBInv, IBTypeOK, PlacesFit, MuFits, SessionFits, Places, Sessions, Results, Procs, Calls

\* What every step preserves needs who is who.
LEMMA CallsApart ==
    /\ KeepAlives \cap Fetches = {} /\ Calls = KeepAlives \cup Fetches
    /\ Procs = Calls \cup {Closer} /\ Closer \notin Calls
    /\ Nobody \notin Calls /\ Nobody # Closer
BY ClientAssumption DEF Procs, Calls

LEMMA BeginKeeps == ASSUME IBInv, NEW c \in Calls, Begin(c) PROVE IBInv'
BY CallsApart
DEF IBInv, IBTypeOK, PlacesFit, MuFits, SessionFits, Begin, Goto, Places, locks, fields

LEMMA AuthLockKeeps == ASSUME IBInv, NEW c \in Calls, AuthLock(c) PROVE IBInv'
BY CallsApart
DEF IBInv, IBTypeOK, PlacesFit, MuFits, SessionFits, AuthLock, Take, Goto, Places, fields

LEMMA AuthenticateKeeps == ASSUME IBInv, NEW c \in Calls, Authenticate(c) PROVE IBInv'
BY CallsApart
DEF IBInv, IBTypeOK, PlacesFit, MuFits, SessionFits, Authenticate, NewClient, Release,
    Goto, Places, Sessions

LEMMA AuthenticateFailsKeeps == ASSUME IBInv, NEW c \in Calls, AuthenticateFails(c) PROVE IBInv'
BY CallsApart
DEF IBInv, IBTypeOK, PlacesFit, MuFits, SessionFits, AuthenticateFails, Release, Returns,
    Goto, Places, Results, fields

LEMMA VerifyKeeps == ASSUME IBInv, NEW c \in Calls, Verify(c) PROVE IBInv'
BY CallsApart
DEF IBInv, IBTypeOK, PlacesFit, MuFits, SessionFits, Verify, Release, Goto, Places, fields

LEMMA VerifyFailsKeeps == ASSUME IBInv, NEW c \in Calls, VerifyFails(c) PROVE IBInv'
BY CallsApart
DEF IBInv, IBTypeOK, PlacesFit, MuFits, SessionFits, VerifyFails, Goto, Places, locks

LEMMA RequestKeeps == ASSUME IBInv, NEW c \in Calls, Request(c) PROVE IBInv'
BY CallsApart
DEF IBInv, IBTypeOK, PlacesFit, MuFits, SessionFits, Request, MayRead, IsClosed, Goto,
    Places, Sessions, fields

LEMMA RefusedKeeps == ASSUME IBInv, NEW c \in Calls, Refused(c) PROVE IBInv'
BY CallsApart
DEF IBInv, IBTypeOK, PlacesFit, MuFits, SessionFits, Refused, MayRead, IsClosed, Returns,
    Goto, Places, Results, locks, fields

LEMMA AnswerKeeps == ASSUME IBInv, NEW c \in Calls, Answer(c) PROVE IBInv'
BY CallsApart
DEF IBInv, IBTypeOK, PlacesFit, MuFits, SessionFits, Answer, Unread, Returns, Goto,
    Places, Results, fields

LEMMA CloseCalledKeeps == ASSUME IBInv, CloseCalled PROVE IBInv'
BY CallsApart
DEF IBInv, IBTypeOK, PlacesFit, MuFits, SessionFits, CloseCalled, Goto, Places, locks, fields

LEMMA CloseLockKeeps == ASSUME IBInv, CloseLock PROVE IBInv'
BY CallsApart
DEF IBInv, IBTypeOK, PlacesFit, MuFits, SessionFits, CloseLock, CloseMayLock, Goto, Places, fields

LEMMA CloseKeeps == ASSUME IBInv, Close PROVE IBInv'
BY CallsApart
DEF IBInv, IBTypeOK, PlacesFit, MuFits, SessionFits, Close, Returns, Goto, Places, Results

LEMMA IBStepKeeps == IBInv /\ [IBNext]_ibVars => IBInv'
<1> SUFFICES ASSUME IBInv, [IBNext]_ibVars PROVE IBInv'
    OBVIOUS
<1>1. CASE UNCHANGED ibVars
    BY <1>1 DEF IBInv, IBTypeOK, PlacesFit, MuFits, SessionFits, ibVars, locks, fields
<1>2. ASSUME NEW c \in Calls, Begin(c) PROVE IBInv'
    BY <1>2, BeginKeeps
<1>3. ASSUME NEW c \in Calls, Step(c) PROVE IBInv'
    BY <1>3, AuthLockKeeps, AuthenticateKeeps, AuthenticateFailsKeeps, VerifyKeeps,
       VerifyFailsKeeps, RequestKeeps, RefusedKeeps, AnswerKeeps DEF Step
<1>4. CASE CloseCalled
    BY <1>4, CloseCalledKeeps
<1>5. CASE CloseStep
    BY <1>5, CloseLockKeeps, CloseKeeps DEF CloseStep
<1> QED
    BY <1>1, <1>2, <1>3, <1>4, <1>5 DEF IBNext

LEMMA IBInvSuffices == IBInv => SessionIsKept
BY CallsApart
DEF IBInv, IBTypeOK, MuFits, PlacesFit, SessionFits, SessionIsKept, QuietAfterClose, SuccessMeansSession

\* With any number of keep-alives and requests, the variables have their types,
\* nobody talks to the gateway once Close has returned, and a keep-alive that
\* reports success has pinged with the session's client.
THEOREM RequestsAndSessions == IBSpec => []SessionIsKept
BY InitIBInv, IBStepKeeps, IBInvSuffices, PTL DEF IBSpec
=============================================================================
