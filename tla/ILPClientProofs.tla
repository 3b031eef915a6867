-------------------------- MODULE ILPClientProofs --------------------------
(***************************************************************************)
(* Proofs about ILPClient for every number of ingests, every file, batch   *)
(* size, row limit and number of retries.                                  *)
(*                                                                         *)
(* Storing a row once needs that the rows still to be sent, and those not  *)
(* yet read, are not stored, and that a connection with an unfinished line *)
(* takes no more bytes, so that nothing ends the line.  The row limit      *)
(* needs that an ingest that goes on has taken whole batches; a clean      *)
(* result, that each row it has read is stored or still to be sent.        *)
(***************************************************************************)
EXTENDS ILPClient, TLAPS

\* Where an ingest has a batch.
Inside == {"ready", "test", "write", "backoff"}

\* What is to be sent is of the batch, and the batch is the last thing read.
BatchFits ==
    \A j \in Ingests :
        /\ total[j] + size[j] <= at[j]
        /\ lines[j] \subseteq (at[j] - size[j] + 1)..at[j]
        /\ pc[j] \notin Inside => size[j] = 0 /\ lines[j] = {}
        /\ pc[j] = "backoff" => attempt[j] < MaxRetries
        /\ pc[j] \in {"idle", "refused"} => total[j] = 0

\* No ping gets through behind an unfinished line.
StubFits == (stub # NoStub => conn = "expired") /\ ~garbled

\* What is to be sent, or to be read, is not stored.
StoredFits ==
    \A j \in Ingests : \A r \in Rows(j) :
        /\ stored[j][r] <= 1
        /\ r \in lines[j] \/ r > at[j] => stored[j][r] = 0

\* An ingest that is not at the end of its file has taken whole batches.
Whole(n)  == \E k \in Nat : n = BatchSize * k
Bound(j)  == BatchSize * ((MaxRows[j] + BatchSize - 1) \div BatchSize)
AtEnd(j)  == at[j] = Len(File[j])
LimitFits ==
    \A j \in Ingests : MaxRows[j] > 0 =>
        /\ total[j] + size[j] <= Bound(j)
        /\ pc[j] = "loop" /\ ~AtEnd(j) => total[j] < MaxRows[j] /\ Whole(total[j])
        /\ pc[j] \in Inside /\ ~AtEnd(j) => Whole(total[j]) /\ size[j] = BatchSize

\* What a result without errors has read is stored or still to be sent.
CleanFits ==
    ~lost => \A j \in Ingests : ~noted[j] =>
        /\ total[j] + size[j] = at[j]
        /\ \A r \in 1..at[j] : File[j][r] = "good" => stored[j][r] = 1 \/ r \in lines[j]
        /\ pc[j] = "done" => AtEnd(j) \/ MaxRows[j] > 0

IngestInv == TypeOK /\ BatchFits /\ StubFits /\ StoredFits /\ LimitFits /\ CleanFits

-----------------------------------------------------------------------------
(* Numbers.                                                                *)

\* The rows of a file and the size of a batch.
LEMMA FileFacts ==
    /\ BatchSize \in Nat /\ BatchSize >= 1 /\ MaxRetries \in Nat /\ Nobody \notin Ingests
    /\ \A j \in Ingests : /\ Len(File[j]) \in Nat /\ Rows(j) = 1..Len(File[j])
                          /\ MaxRows[j] \in Nat
BY IngestAssumption DEF Rows

\* A whole number of batches below the limit has room for one more.
LEMMA RoomForABatch ==
    ASSUME NEW B \in Nat, B >= 1, NEW m \in Nat, NEW k \in Nat, B * k < m
    PROVE  B * k + B <= B * ((m + B - 1) \div B)
<1> DEFINE q == (m + B - 1) \div B
<1>1. q \in Int /\ m + B - 1 = B * q + ((m + B - 1) % B) /\ (m + B - 1) % B \in 0..B - 1
    <2> DEFINE a == m + B - 1
    <2>1. a \in Int
        OBVIOUS
    <2> HIDE DEF a
    <2>2. a \div B \in Int /\ a = B * (a \div B) + (a % B) /\ a % B \in 0..B - 1
        BY <2>1
    <2> QED
        BY <2>2 DEF a
<1>2. B * q >= m
    BY <1>1
<1> HIDE DEF q
<1>3. B * q > B * k
    BY <1>1, <1>2
<1>4. q > k
    BY <1>1, <1>3
<1>5. q >= k + 1
    BY <1>1, <1>4
<1>6. B * q >= B * (k + 1)
    BY <1>1, <1>5
<1>7. B * (k + 1) = B * k + B
    OBVIOUS
<1> QED
    BY <1>1, <1>6, <1>7 DEF q

\* One more batch is a whole number of them.
LEMMA OneMoreBatch ==
    ASSUME NEW n \in Nat, Whole(n) PROVE Whole(n + BatchSize)
<1>1. PICK k \in Nat : n = BatchSize * k
    BY DEF Whole
<1>2. n + BatchSize = BatchSize * (k + 1) /\ k + 1 \in Nat
    BY <1>1, FileFacts
<1> QED
    BY <1>2 DEF Whole

-----------------------------------------------------------------------------
(* What a step does to the batches: it reads one, sends of one, or neither. *)

\* No batch changes; an ingest may begin or be refused.
Waits ==
    /\ UNCHANGED <<at, size, lines, attempt, total, noted, stored>>
    /\ lost => lost'
    /\ \A j \in Ingests :
          pc'[j] # pc[j] => pc[j] \in {"idle", "refused"} /\ pc'[j] \in {"loop", "refused"}

\* Some rows of the batch of ingest j are stored, and it is done with the batch.
Finishes(j, rows, err) ==
    /\ pc[j] \in Inside /\ rows \subseteq lines[j]
    /\ stored' = Stored(j, rows)
    /\ BatchEnds(j, err)
    /\ lost => lost'
    /\ rows = lines[j] \/ err \/ lost'
    /\ UNCHANGED at

\* Some rows of the batch of ingest j are stored, and others are still to be sent.
Continues(j, rows, left) ==
    /\ pc[j] \in Inside /\ rows \subseteq lines[j]
    /\ stored' = Stored(j, rows)
    /\ left \subseteq lines[j] \ rows
    /\ lost => lost'
    /\ lines[j] = rows \cup left \/ lost'
    /\ lines' = [lines EXCEPT ![j] = left]
    /\ pc'[j] \in Inside /\ \A k \in Ingests \ {j} : pc'[k] = pc[k]
    /\ pc'[j] = "backoff" => attempt[j] < MaxRetries
    /\ \/ UNCHANGED attempt
       \/ pc[j] = "backoff" /\ pc'[j] = "test" /\ attempt' = [attempt EXCEPT ![j] = @ + 1]
    /\ UNCHANGED <<at, size, total, noted>>

Kind ==
    \/ Waits
    \/ \E j \in Ingests :
          \/ ReadBatch(j) \/ ReadFault(j)
          \/ \E rows, err : err \in BOOLEAN /\ Finishes(j, rows, err)
          \/ \E rows, left : Continues(j, rows, left)

\* To store no row is to store nothing.
LEMMA StoreNothing ==
    ASSUME TypeOK, NEW j \in Ingests PROVE stored = Stored(j, {})
<1> DEFINE f == [r \in Rows(j) |-> IF r \in {} /\ stored[j][r] < 2 THEN stored[j][r] + 1
                                  ELSE stored[j][r]]
<1>1. f = stored[j]
    BY DEF TypeOK
<1>2. stored = [stored EXCEPT ![j] = f]
    <2> HIDE DEF f
    <2> QED
        BY <1>1 DEF TypeOK
<1> QED
    BY <1>2 DEF Stored

\* A ping stores nothing: a connection that takes it holds no unfinished line.
LEMMA PingsStoreNothing ==
    ASSUME StubFits, Pings PROVE stored' = stored /\ StubFits'
<1>1. stub = NoStub
    BY DEF StubFits, Pings, PingMayPass, PingMayFail
<1>2. ~stub.whole
    BY <1>1 DEF NoStub
<1> QED
    BY <1>1, <1>2 DEF StubFits, Pings

LEMMA Kinds == ASSUME TypeOK, BatchFits, StubFits, [Next]_vars PROVE Kind
<1> USE DEF batch, wire
<1>1. CASE Close \/ Die \/ Expire \/ UNCHANGED vars
    BY <1>1 DEF Close, Die, Expire, vars, Kind, Waits
<1>2. ASSUME NEW j \in Ingests, Start(j) PROVE Kind
    <2>1. \A k \in Ingests :
              pc'[k] # pc[k] => pc[k] \in {"idle", "refused"} /\ pc'[k] \in {"loop", "refused"}
        BY <1>2 DEF Start, Goto, TypeOK
    <2>2. UNCHANGED <<at, size, lines, attempt, total, noted, stored, lost>>
        BY <1>2 DEF Start
    <2> QED
        BY <2>1, <2>2 DEF Kind, Waits
<1>3. ASSUME NEW j \in Ingests, Cancel(j) PROVE Kind
    BY <1>3 DEF Cancel, Kind, Waits
<1>4. ASSUME NEW j \in Ingests, SendBegin(j) PROVE Kind
    <2>1. pc[j] \in Inside /\ stored' = stored /\ lost' = lost /\ at' = at
        BY <1>4 DEF SendBegin, Inside
    <2>2. stored' = Stored(j, {})
        BY <2>1, StoreNothing
    <2>3. CASE (cancelled[j] \/ lines[j] = {}) /\ BatchEnds(j, cancelled[j])
        <3>1. cancelled[j] \in BOOLEAN
            BY DEF TypeOK
        <3>2. Finishes(j, {}, cancelled[j])
            BY <2>1, <2>2, <2>3 DEF Finishes
        <3> QED
            BY <3>1, <3>2 DEF Kind
    <2>4. CASE Goto(j, "test") /\ UNCHANGED <<size, lines, attempt, total, noted>>
        <3>1. /\ lines' = [lines EXCEPT ![j] = lines[j]]
              /\ pc'[j] = "test" /\ \A k \in Ingests \ {j} : pc'[k] = pc[k]
            BY <2>4 DEF TypeOK, Goto
        <3>2. Continues(j, {}, lines[j])
            BY <2>1, <2>2, <2>4, <3>1 DEF Continues, Inside
        <3> QED
            BY <3>2 DEF Kind
    <2> QED
        BY <1>4, <2>3, <2>4 DEF SendBegin
<1>5. ASSUME NEW j \in Ingests, Test(j) PROVE Kind
    <2>1. pc[j] \in Inside /\ stored' = stored /\ lost' = lost /\ at' = at
        BY <1>5, PingsStoreNothing DEF Test, Inside
    <2>2. stored' = Stored(j, {})
        BY <2>1, StoreNothing
    <2>3. CASE BatchEnds(j, TRUE)
        <3>1. Finishes(j, {}, TRUE)
            BY <2>1, <2>2, <2>3 DEF Finishes
        <3> QED
            BY <3>1 DEF Kind
    <2>4. CASE Goto(j, "write") /\ UNCHANGED <<size, lines, attempt, total, noted>>
        <3>1. /\ lines' = [lines EXCEPT ![j] = lines[j]]
              /\ pc'[j] = "write" /\ \A k \in Ingests \ {j} : pc'[k] = pc[k]
            BY <2>4 DEF TypeOK, Goto
        <3>2. Continues(j, {}, lines[j])
            BY <2>1, <2>2, <2>4, <3>1 DEF Continues, Inside
        <3> QED
            BY <3>2 DEF Kind
    <2> QED
        BY <1>5, <2>3, <2>4 DEF Test
<1>6. ASSUME NEW j \in Ingests, WriteAll(j) PROVE Kind
    <2> DEFINE Read(rows) == /\ stored' = Stored(j, rows) /\ rows \subseteq lines[j]
                             /\ lost => lost'
                             /\ rows = lines[j] \/ lost'
    <2>1. PICK rows : Read(rows)
        <3>1. CASE stored' = Stored(j, lines[j]) /\ lost' = lost
            <4>1. Read(lines[j])
                BY <3>1
            <4> QED
                BY <4>1
        <3>2. ASSUME lost' = TRUE, NEW read \in Begun(lines[j]), stored' = Stored(j, read)
              PROVE  \E rows : Read(rows)
            <4>1. Read(read)
                BY <3>2 DEF Begun
            <4> QED
                BY <4>1
        <3>3. \/ stored' = Stored(j, lines[j]) /\ lost' = lost
              \/ lost' = TRUE /\ \E read \in Begun(lines[j]) : stored' = Stored(j, read)
            BY <1>6 DEF WriteAll
        <3> HIDE DEF Read
        <3> QED
            BY <3>1, <3>2, <3>3
    <2>2. pc[j] \in Inside /\ BatchEnds(j, FALSE) /\ at' = at
        BY <1>6 DEF WriteAll, Inside
    <2>3. Finishes(j, rows, FALSE)
        BY <2>1, <2>2 DEF Finishes
    <2> QED
        BY <2>3 DEF Kind
<1>7. ASSUME NEW j \in Ingests, WriteFails(j) PROVE Kind
    <2>1. PICK taken \in Begun(lines[j]) :
              /\ \/ stored' = Stored(j, taken) /\ lost' = lost
                 \/ lost' /\ \E read \in Begun(taken) : stored' = Stored(j, read)
              /\ LET left == lines[j] \ taken IN
                 \/ /\ attempt[j] < MaxRetries
                    /\ lines' = [lines EXCEPT ![j] = left]
                    /\ Goto(j, "backoff")
                    /\ UNCHANGED <<size, attempt, total, noted>>
                 \/ BatchEnds(j, TRUE)
        BY <1>7 DEF WriteFails, CountNewlines
    <2>2. PICK rows : /\ rows \subseteq taken /\ stored' = Stored(j, rows)
                      /\ lost => lost'
                      /\ rows = taken \/ lost'
        <3>1. CASE stored' = Stored(j, taken) /\ lost' = lost
            BY <3>1
        <3>2. CASE lost' /\ \E read \in Begun(taken) : stored' = Stored(j, read)
            BY <3>2 DEF Begun
        <3> QED
            BY <2>1, <3>1, <3>2
    <2>3. taken \subseteq lines[j]
        BY DEF Begun
    <2>4. pc[j] \in Inside /\ at' = at
        BY <1>7 DEF WriteFails, Inside
    <2>5. CASE BatchEnds(j, TRUE)
        <3>1. Finishes(j, rows, TRUE)
            BY <2>4, <2>2, <2>3, <2>5 DEF Finishes
        <3> QED
            BY <3>1 DEF Kind
    <2>6. CASE ~BatchEnds(j, TRUE)
        <3>1. /\ attempt[j] < MaxRetries /\ lines' = [lines EXCEPT ![j] = lines[j] \ taken]
              /\ UNCHANGED <<size, attempt, total, noted>>
              /\ pc'[j] = "backoff" /\ \A k \in Ingests \ {j} : pc'[k] = pc[k]
            BY <2>1, <2>6 DEF Goto, TypeOK
        <3>2. Continues(j, rows, lines[j] \ taken)
            BY <2>4, <2>2, <2>3, <3>1 DEF Continues, Inside
        <3> QED
            BY <3>2 DEF Kind
    <2> QED
        BY <2>5, <2>6
<1>8. ASSUME NEW j \in Ingests, Backoff(j) PROVE Kind
    <2>1. pc[j] \in Inside /\ pc[j] = "backoff" /\ stored' = stored /\ lost' = lost /\ at' = at
        BY <1>8 DEF Backoff, Inside
    <2>2. stored' = Stored(j, {})
        BY <2>1, StoreNothing
    <2>3. CASE BatchEnds(j, TRUE)
        <3>1. Finishes(j, {}, TRUE)
            BY <2>1, <2>2, <2>3 DEF Finishes
        <3> QED
            BY <3>1 DEF Kind
    <2>4. CASE /\ attempt' = [attempt EXCEPT ![j] = @ + 1] /\ Goto(j, "test")
               /\ UNCHANGED <<size, lines, total, noted>>
        <3>1. /\ lines' = [lines EXCEPT ![j] = lines[j]]
              /\ pc'[j] = "test" /\ \A k \in Ingests \ {j} : pc'[k] = pc[k]
            BY <2>4 DEF TypeOK, Goto
        <3>2. Continues(j, {}, lines[j])
            BY <2>1, <2>2, <2>4, <3>1 DEF Continues, Inside
        <3> QED
            BY <3>2 DEF Kind
    <2> QED
        BY <1>8, <2>3, <2>4 DEF Backoff
<1>9. ASSUME NEW j \in Ingests, ReadBatch(j) \/ ReadFault(j) PROVE Kind
    BY <1>9 DEF Kind
<1> QED
    BY <1>1, <1>2, <1>3, <1>4, <1>5, <1>6, <1>7, <1>8, <1>9 DEF Next, Step

-----------------------------------------------------------------------------
(* What the kinds of step keep.                                            *)

\* The batch that is read.
LEMMA ReadFacts ==
    ASSUME TypeOK, BatchFits, NEW j \in Ingests, ReadBatch(j)
    PROVE  \E n \in 0..BatchSize :
             /\ n <= Len(File[j]) - at[j] /\ (n = BatchSize \/ n = Len(File[j]) - at[j])
             /\ pc[j] = "loop" /\ size[j] = 0 /\ lines[j] = {}
             /\ at'[j] = at[j] + n /\ size'[j] = n /\ total' = total /\ lines'[j] = Lines(j, n)
             /\ pc'[j] = IF n = 0 THEN "done" ELSE "ready"
             /\ noted'[j] = (noted[j] \/ cancelled[j] \/ Lines(j, n) # NextRows(j, n))
             /\ \A k \in Ingests \ {j} : /\ at'[k] = at[k] /\ size'[k] = size[k]
                                         /\ lines'[k] = lines[k] /\ pc'[k] = pc[k]
                                         /\ noted'[k] = noted[k]
             /\ UNCHANGED <<stored, lost, attempt>>
<1> DEFINE n == Least(BatchSize, Unread(j))
<1>1. at[j] \in Nat /\ Len(File[j]) \in Nat /\ at[j] <= Len(File[j]) /\ BatchSize \in Nat
    BY FileFacts DEF TypeOK
<1>2. /\ n \in 0..BatchSize /\ n <= Len(File[j]) - at[j]
      /\ n = BatchSize \/ n = Len(File[j]) - at[j]
    BY <1>1 DEF Least, Unread
<1>3. /\ pc[j] = "loop" /\ UNCHANGED <<stored, lost, attempt, total>>
      /\ at' = [at EXCEPT ![j] = @ + n] /\ size' = [size EXCEPT ![j] = n]
      /\ lines' = [lines EXCEPT ![j] = Lines(j, n)]
      /\ noted' = [noted EXCEPT ![j] = @ \/ cancelled[j] \/ Lines(j, n) # NextRows(j, n)]
      /\ pc' = [pc EXCEPT ![j] = IF n = 0 THEN "done" ELSE "ready"]
    BY DEF ReadBatch, Goto, wire
<1>4. size[j] = 0 /\ lines[j] = {}
    BY <1>3 DEF BatchFits, Inside
<1> HIDE DEF n
<1>5. noted'[j] = (noted[j] \/ cancelled[j] \/ Lines(j, n) # NextRows(j, n))
    BY <1>3, Zenon DEF TypeOK
<1>6. at'[j] = at[j] + n /\ size'[j] = n /\ lines'[j] = Lines(j, n)
    BY <1>3 DEF TypeOK
<1>7. pc'[j] = IF n = 0 THEN "done" ELSE "ready"
    BY <1>3 DEF TypeOK
<1>8. \A k \in Ingests \ {j} : /\ at'[k] = at[k] /\ size'[k] = size[k]
                               /\ lines'[k] = lines[k] /\ pc'[k] = pc[k]
                               /\ noted'[k] = noted[k]
    BY <1>3 DEF TypeOK
<1> QED
    BY <1>2, <1>3, <1>4, <1>5, <1>6, <1>7, <1>8

\* The batch that is done with.
LEMMA FinishFacts ==
    ASSUME TypeOK, NEW j \in Ingests, NEW rows, NEW err \in BOOLEAN, Finishes(j, rows, err)
    PROVE  /\ at' = at /\ size'[j] = 0 /\ total'[j] = total[j] + size[j]
           /\ lines'[j] = {} /\ attempt'[j] = 0
           /\ pc'[j] = IF LimitReached(total[j] + size[j], j) THEN "done" ELSE "loop"
           /\ noted'[j] = (noted[j] \/ err)
           /\ \A k \in Ingests \ {j} : /\ size'[k] = size[k] /\ total'[k] = total[k]
                                       /\ lines'[k] = lines[k] /\ attempt'[k] = attempt[k]
                                       /\ pc'[k] = pc[k] /\ noted'[k] = noted[k]
<1>1. noted' = [noted EXCEPT ![j] = @ \/ err]
    BY DEF Finishes, BatchEnds, Notes
<1>2. noted'[j] = (noted[j] \/ err)
    BY <1>1, Zenon DEF TypeOK
<1>3. \A k \in Ingests \ {j} : noted'[k] = noted[k]
    BY <1>1 DEF TypeOK
<1> QED
    BY <1>2, <1>3 DEF TypeOK, Finishes, BatchEnds, Goto

LEMMA CountFacts ==
    ASSUME TypeOK
    PROVE  \A j \in Ingests : at[j] \in Nat /\ total[j] \in Nat /\ size[j] \in Nat
<1> SUFFICES ASSUME NEW j \in Ingests PROVE at[j] \in Nat /\ total[j] \in Nat /\ size[j] \in Nat
    OBVIOUS
<1>1. size[j] \in 0..BatchSize /\ at[j] \in Nat /\ total[j] \in Nat
    BY DEF TypeOK
<1> QED
    BY <1>1, FileFacts

\* What becomes of the stored rows of each ingest.
LEMMA StoreFacts ==
    ASSUME TypeOK, StoredFits, NEW j \in Ingests, NEW rows \in SUBSET lines[j],
           stored' = Stored(j, rows)
    PROVE  \A k \in Ingests : \A r \in Rows(k) :
               stored'[k][r] = IF k = j /\ r \in rows THEN 1 ELSE stored[k][r]
<1> DEFINE f == [r \in Rows(j) |-> IF r \in rows /\ stored[j][r] < 2 THEN stored[j][r] + 1
                                   ELSE stored[j][r]]
<1>1. stored' = [stored EXCEPT ![j] = f]
    BY DEF Stored
<1>2. \A r \in Rows(j) : f[r] = IF r \in rows THEN 1 ELSE stored[j][r]
    <2>1. \A r \in Rows(j) : r \in rows => stored[j][r] = 0
        BY DEF StoredFits
    <2> QED
        BY <2>1
<1> HIDE DEF f
<1>3. stored'[j] = f /\ \A k \in Ingests \ {j} : stored'[k] = stored[k]
    BY <1>1 DEF TypeOK
<1> QED
    BY <1>2, <1>3

LEMMA BatchKept == ASSUME TypeOK, BatchFits, Kind PROVE BatchFits'
<1>0. \A j \in Ingests : at[j] \in Nat /\ total[j] \in Nat /\ size[j] \in Nat
    BY CountFacts
<1>1. CASE Waits
    BY <1>1 DEF Waits, BatchFits, Inside
<1>2. ASSUME NEW j \in Ingests, ReadBatch(j) PROVE BatchFits'
    <2>1. PICK n \in 0..BatchSize :
             /\ pc[j] = "loop" /\ size[j] = 0 /\ lines[j] = {}
             /\ at'[j] = at[j] + n /\ size'[j] = n /\ total' = total /\ lines'[j] = Lines(j, n)
             /\ pc'[j] = IF n = 0 THEN "done" ELSE "ready"
             /\ \A k \in Ingests \ {j} : /\ at'[k] = at[k] /\ size'[k] = size[k]
                                         /\ lines'[k] = lines[k] /\ pc'[k] = pc[k]
             /\ attempt' = attempt
        BY <1>2, ReadFacts
    <2>2. Lines(j, n) \subseteq (at[j] + 1)..(at[j] + n) /\ n \in Nat
        BY FileFacts DEF Lines, NextRows
    <2>3. n = 0 => Lines(j, n) = {}
        BY <1>0, <2>2
    <2>4. at'[j] - size'[j] + 1 = at[j] + 1
        BY <1>0, <2>1, <2>2
    <2> SUFFICES ASSUME NEW k \in Ingests
                 PROVE  /\ total'[k] + size'[k] <= at'[k]
                        /\ lines'[k] \subseteq (at'[k] - size'[k] + 1)..at'[k]
                        /\ pc'[k] \notin Inside => size'[k] = 0 /\ lines'[k] = {}
                        /\ pc'[k] = "backoff" => attempt'[k] < MaxRetries
                        /\ pc'[k] \in {"idle", "refused"} => total'[k] = 0
        BY DEF BatchFits
    <2>5. CASE k = j
        <3>1. total'[j] + size'[j] <= at'[j]
            BY <1>0, <2>1, <2>2 DEF BatchFits
        <3> QED
            BY <2>1, <2>2, <2>3, <2>4, <2>5, <3>1 DEF Inside
    <2>6. CASE k # j
        BY <2>1, <2>6 DEF BatchFits
    <2> QED
        BY <2>5, <2>6
<1>3. ASSUME NEW j \in Ingests, ReadFault(j) PROVE BatchFits'
    <2>1. PICK n \in 0..Least(BatchSize - 1, Unread(j)) : at' = [at EXCEPT ![j] = @ + n]
        BY <1>3 DEF ReadFault
    <2>2. n \in Nat
        BY <1>0, FileFacts DEF Least, Unread
    <2>3. pc[j] = "loop" /\ UNCHANGED <<pc, size, lines, attempt, total>>
        BY <1>3 DEF ReadFault
    <2>4. at'[j] = at[j] + n /\ \A k \in Ingests \ {j} : at'[k] = at[k]
        BY <2>1 DEF TypeOK
    <2> SUFFICES ASSUME NEW k \in Ingests
                 PROVE  /\ total[k] + size[k] <= at'[k]
                        /\ lines[k] \subseteq (at'[k] - size[k] + 1)..at'[k]
        BY <2>3 DEF BatchFits
    <2>5. CASE k = j
        BY <1>0, <2>2, <2>3, <2>4, <2>5 DEF BatchFits, Inside
    <2>6. CASE k # j
        BY <2>4, <2>6 DEF BatchFits
    <2> QED
        BY <2>5, <2>6
<1>4. ASSUME NEW j \in Ingests, NEW rows, NEW err \in BOOLEAN, Finishes(j, rows, err)
      PROVE  BatchFits'
    <2>1. pc'[j] \notin Inside \cup {"idle", "refused"}
        BY <1>4, FinishFacts DEF Inside
    <2> SUFFICES ASSUME NEW k \in Ingests
                 PROVE  /\ total'[k] + size'[k] <= at'[k]
                        /\ lines'[k] \subseteq (at'[k] - size'[k] + 1)..at'[k]
                        /\ pc'[k] \notin Inside => size'[k] = 0 /\ lines'[k] = {}
                        /\ pc'[k] = "backoff" => attempt'[k] < MaxRetries
                        /\ pc'[k] \in {"idle", "refused"} => total'[k] = 0
        BY DEF BatchFits
    <2>2. CASE k = j
        BY <1>0, <1>4, <2>1, <2>2, FinishFacts DEF BatchFits, Inside
    <2>3. CASE k # j
        BY <1>4, <2>3, FinishFacts DEF BatchFits
    <2> QED
        BY <2>2, <2>3
<1>5. ASSUME NEW j \in Ingests, NEW rows, NEW left, Continues(j, rows, left) PROVE BatchFits'
    <2>1. /\ UNCHANGED <<at, size, total>> /\ lines'[j] \subseteq lines[j]
          /\ \A k \in Ingests \ {j} : lines'[k] = lines[k] /\ pc'[k] = pc[k]
          /\ pc'[j] \in Inside
        BY <1>5 DEF Continues, TypeOK
    <2>2. \A k \in Ingests \ {j} : attempt'[k] = attempt[k]
        BY <1>5 DEF Continues, TypeOK
    <2>3. pc'[j] = "backoff" => attempt'[j] < MaxRetries
        BY <1>5 DEF Continues
    <2> QED
        BY <2>1, <2>2, <2>3 DEF BatchFits, Inside
<1> QED
    BY <1>1, <1>2, <1>3, <1>4, <1>5 DEF Kind

LEMMA StoredKept == ASSUME TypeOK, BatchFits, StoredFits, Kind PROVE StoredFits'
<1>0. /\ \A j \in Ingests : at[j] \in Nat /\ total[j] \in Nat /\ size[j] \in Nat
      /\ \A j \in Ingests : Rows(j) \subseteq Nat
      /\ \A j \in Ingests : \A r \in Rows(j) : stored[j][r] \in Nat
    <2>1. ASSUME NEW j \in Ingests PROVE Rows(j) \subseteq Nat
        BY FileFacts
    <2>2. ASSUME NEW j \in Ingests, NEW r \in Rows(j) PROVE stored[j][r] \in Nat
        <3>1. stored[j] \in [Rows(j) -> 0..2]
            BY DEF TypeOK
        <3>2. stored[j][r] \in 0..2
            BY <3>1
        <3> QED
            BY <3>2
    <2> QED
        BY <2>1, <2>2, CountFacts
<1>1. CASE Waits
    BY <1>1 DEF Waits, StoredFits
<1>2. ASSUME NEW j \in Ingests, ReadBatch(j) PROVE StoredFits'
    <2>1. PICK n \in 0..BatchSize :
             /\ at'[j] = at[j] + n /\ lines'[j] = Lines(j, n) /\ stored' = stored
             /\ \A k \in Ingests \ {j} : at'[k] = at[k] /\ lines'[k] = lines[k]
        BY <1>2, ReadFacts
    <2>2. n \in Nat
        BY FileFacts
    <2>3. \A r \in Rows(j) : r \in Lines(j, n) \/ r > at[j] + n => r > at[j]
        BY <1>0, <2>2 DEF Lines, NextRows
    <2> QED
        BY <2>1, <2>3 DEF StoredFits
<1>3. ASSUME NEW j \in Ingests, ReadFault(j) PROVE StoredFits'
    <2>1. PICK n \in 0..Least(BatchSize - 1, Unread(j)) : at' = [at EXCEPT ![j] = @ + n]
        BY <1>3 DEF ReadFault
    <2>2. n \in Nat
        BY <1>0, FileFacts DEF Least, Unread
    <2>3. stored' = stored /\ lines' = lines
        BY <1>3 DEF ReadFault, wire
    <2>4. at'[j] = at[j] + n /\ \A k \in Ingests \ {j} : at'[k] = at[k]
        BY <2>1 DEF TypeOK
    <2>5. \A k \in Ingests : \A r \in Rows(k) : r > at'[k] => r > at[k]
        BY <1>0, <2>2, <2>4
    <2> QED
        BY <2>3, <2>5 DEF StoredFits
<1>4. ASSUME NEW j \in Ingests, NEW rows, NEW left, rows \subseteq lines[j],
             stored' = Stored(j, rows), at' = at, lines'[j] \subseteq lines[j] \ rows,
             \A k \in Ingests \ {j} : lines'[k] = lines[k]
      PROVE  StoredFits'
    <2>1. \A k \in Ingests : \A r \in Rows(k) :
              stored'[k][r] = IF k = j /\ r \in rows THEN 1 ELSE stored[k][r]
        BY <1>4, StoreFacts
    <2>2. \A r \in lines[j] : ~(r > at[j])
        BY <1>0 DEF BatchFits
    <2> SUFFICES ASSUME NEW k \in Ingests, NEW r \in Rows(k)
                 PROVE  /\ stored'[k][r] <= 1
                        /\ r \in lines'[k] \/ r > at[k] => stored'[k][r] = 0
        BY <1>4 DEF StoredFits
    <2>3. CASE k = j /\ r \in rows
        BY <1>4, <2>1, <2>2, <2>3
    <2>4. CASE ~(k = j /\ r \in rows)
        <3>1. stored'[k][r] = stored[k][r] /\ lines'[k] \subseteq lines[k]
            BY <1>4, <2>1, <2>4
        <3> QED
            BY <3>1 DEF StoredFits
    <2> QED
        BY <2>3, <2>4
<1>5. ASSUME NEW j \in Ingests, NEW rows, NEW err \in BOOLEAN, Finishes(j, rows, err)
      PROVE  StoredFits'
    BY <1>4, <1>5, FinishFacts DEF Finishes
<1>6. ASSUME NEW j \in Ingests, NEW rows, NEW left, Continues(j, rows, left) PROVE StoredFits'
    <2>1. lines'[j] = left /\ \A k \in Ingests \ {j} : lines'[k] = lines[k]
        BY <1>6 DEF Continues, TypeOK
    <2> QED
        BY <1>4, <1>6, <2>1 DEF Continues
<1> QED
    BY <1>1, <1>2, <1>3, <1>5, <1>6 DEF Kind

LEMMA LimitKeeps == ASSUME TypeOK, TypeOK', BatchFits, LimitFits, Kind PROVE LimitFits'
<1>0. /\ \A j \in Ingests : at[j] \in Nat /\ total[j] \in Nat /\ size[j] \in Nat
      /\ \A j \in Ingests : Len(File[j]) \in Nat /\ MaxRows[j] \in Nat /\ at[j] <= Len(File[j])
      /\ \A j \in Ingests : at'[j] \in Nat /\ at'[j] <= Len(File[j])
      /\ BatchSize \in Nat /\ BatchSize >= 1
    BY FileFacts, CountFacts DEF TypeOK
<1>1. CASE Waits
    <2>1. Whole(0)
        BY <1>0 DEF Whole
    <2> SUFFICES ASSUME NEW j \in Ingests, MaxRows[j] > 0
                 PROVE  /\ total[j] + size[j] <= Bound(j)
                        /\ pc'[j] = "loop" /\ ~AtEnd(j) => total[j] < MaxRows[j] /\ Whole(total[j])
                        /\ pc'[j] \in Inside /\ ~AtEnd(j) => Whole(total[j]) /\ size[j] = BatchSize
        BY <1>1 DEF Waits, LimitFits, Bound, AtEnd, Whole
    <2>2. CASE pc'[j] = pc[j]
        BY <2>2 DEF LimitFits
    <2>3. CASE pc'[j] # pc[j]
        <3>1. pc[j] \in {"idle", "refused"} /\ pc'[j] \in {"loop", "refused"}
            BY <1>1, <2>3 DEF Waits
        <3>2. total[j] = 0
            BY <3>1 DEF BatchFits
        <3> QED
            BY <1>0, <2>1, <3>1, <3>2 DEF LimitFits, Inside
    <2> QED
        BY <2>2, <2>3
<1>2. ASSUME NEW j \in Ingests, ReadBatch(j) PROVE LimitFits'
    <2>1. PICK n \in 0..BatchSize :
             /\ n <= Len(File[j]) - at[j] /\ (n = BatchSize \/ n = Len(File[j]) - at[j])
             /\ pc[j] = "loop" /\ size[j] = 0
             /\ at'[j] = at[j] + n /\ size'[j] = n /\ total' = total
             /\ pc'[j] = IF n = 0 THEN "done" ELSE "ready"
             /\ \A k \in Ingests \ {j} : /\ at'[k] = at[k] /\ size'[k] = size[k]
                                         /\ pc'[k] = pc[k]
        BY <1>2, ReadFacts
    <2>2. n \in Nat /\ n <= BatchSize
        BY <1>0
    <2> SUFFICES ASSUME NEW k \in Ingests, MaxRows[k] > 0
                 PROVE  /\ total[k] + size'[k] <= Bound(k)
                        /\ pc'[k] = "loop" /\ ~AtEnd(k)' => total[k] < MaxRows[k] /\ Whole(total[k])
                        /\ pc'[k] \in Inside /\ ~AtEnd(k)' => Whole(total[k]) /\ size'[k] = BatchSize
        BY <2>1 DEF LimitFits, Bound, Whole
    <2>3. CASE k # j
        BY <2>1, <2>3 DEF LimitFits, AtEnd
    <2>4. CASE k = j /\ AtEnd(j)
        <3>1. n = 0
            BY <1>0, <2>1, <2>2, <2>4 DEF AtEnd
        <3> QED
            BY <1>0, <2>1, <2>4, <3>1 DEF LimitFits, Inside
    <2>5. CASE k = j /\ ~AtEnd(j)
        <3>1. total[j] < MaxRows[j] /\ Whole(total[j])
            BY <2>1, <2>5 DEF LimitFits
        <3>2. PICK m \in Nat : total[j] = BatchSize * m
            BY <3>1 DEF Whole
        <3>3. BatchSize * m + BatchSize <= Bound(j)
            BY <1>0, <3>1, <3>2, RoomForABatch DEF Bound
        <3>4. BatchSize * m \in Nat
            BY <1>0, <3>2
        <3>5. total[j] + BatchSize <= Bound(j) /\ Bound(j) \in Int
            <4>1. (MaxRows[j] + BatchSize - 1) \div BatchSize \in Int
                BY <1>0
            <4>2. Bound(j) \in Int
                BY <1>0, <4>1 DEF Bound
            <4> QED
                BY <3>2, <3>3, <4>2
        <3>6. total[j] + n <= Bound(j)
            BY <1>0, <2>2, <3>5
        <3>7. ~AtEnd(j)' => n = BatchSize
            BY <1>0, <2>1, <2>2 DEF AtEnd
        <3>8. pc'[j] # "loop"
            BY <2>1
        <3> QED
            BY <2>1, <2>5, <3>1, <3>6, <3>7, <3>8
    <2> QED
        BY <2>3, <2>4, <2>5
<1>3. ASSUME NEW j \in Ingests, ReadFault(j) PROVE LimitFits'
    <2>1. PICK n \in 0..Least(BatchSize - 1, Unread(j)) : at' = [at EXCEPT ![j] = @ + n]
        BY <1>3 DEF ReadFault
    <2>2. n \in Nat
        BY <1>0 DEF Least, Unread
    <2>3. UNCHANGED <<pc, size, total>> /\ pc[j] = "loop"
        BY <1>3 DEF ReadFault
    <2>4. at'[j] = at[j] + n /\ \A k \in Ingests \ {j} : at'[k] = at[k]
        BY <2>1 DEF TypeOK
    <2>5. \A k \in Ingests : AtEnd(k) => AtEnd(k)'
        <3> SUFFICES ASSUME NEW k \in Ingests, at[k] = Len(File[k]) PROVE at'[k] = Len(File[k])
            BY DEF AtEnd
        <3>1. at'[k] >= at[k]
            BY <1>0, <2>2, <2>4
        <3> QED
            BY <1>0, <3>1
    <2> QED
        BY <2>3, <2>5 DEF LimitFits, Bound, Whole
<1>4. ASSUME NEW j \in Ingests, NEW rows, NEW err \in BOOLEAN, Finishes(j, rows, err)
      PROVE  LimitFits'
    <2>1. /\ at' = at /\ size'[j] = 0 /\ total'[j] = total[j] + size[j] /\ pc[j] \in Inside
          /\ pc'[j] = IF LimitReached(total[j] + size[j], j) THEN "done" ELSE "loop"
          /\ \A k \in Ingests \ {j} : /\ size'[k] = size[k] /\ total'[k] = total[k]
                                      /\ pc'[k] = pc[k]
        BY <1>4, FinishFacts DEF Finishes
    <2> SUFFICES ASSUME NEW k \in Ingests, MaxRows[k] > 0
                 PROVE  /\ total'[k] + size'[k] <= Bound(k)
                        /\ pc'[k] = "loop" /\ ~AtEnd(k) => total'[k] < MaxRows[k] /\ Whole(total'[k])
                        /\ pc'[k] \in Inside /\ ~AtEnd(k) => Whole(total'[k]) /\ size'[k] = BatchSize
        BY <2>1 DEF LimitFits, Bound, AtEnd, Whole
    <2>2. CASE k # j
        BY <2>1, <2>2 DEF LimitFits
    <2>3. CASE k = j
        <3>1. total'[j] + size'[j] <= Bound(j)
            BY <1>0, <2>1, <2>3 DEF LimitFits
        <3>2. ASSUME pc'[j] = "loop", ~AtEnd(j) PROVE total'[j] < MaxRows[j] /\ Whole(total'[j])
            <4>1. Whole(total[j]) /\ size[j] = BatchSize
                BY <2>1, <2>3, <3>2 DEF LimitFits
            <4>2. Whole(total'[j])
                BY <1>0, <2>1, <4>1, OneMoreBatch
            <4>3. ~(total[j] + size[j] >= MaxRows[j])
                BY <2>1, <2>3, <3>2 DEF LimitReached
            <4> QED
                BY <1>0, <2>1, <4>2, <4>3
        <3>3. pc'[j] \notin Inside
            BY <2>1 DEF Inside
        <3> QED
            BY <2>3, <3>1, <3>2, <3>3
    <2> QED
        BY <2>2, <2>3
<1>5. ASSUME NEW j \in Ingests, NEW rows, NEW left, Continues(j, rows, left) PROVE LimitFits'
    <2>1. /\ UNCHANGED <<at, size, total>> /\ pc[j] \in Inside /\ pc'[j] \in Inside
          /\ \A k \in Ingests \ {j} : pc'[k] = pc[k]
        BY <1>5 DEF Continues
    <2> QED
        BY <2>1 DEF LimitFits, Bound, AtEnd, Whole, Inside
<1> QED
    BY <1>1, <1>2, <1>3, <1>4, <1>5 DEF Kind

LEMMA CleanKept ==
    ASSUME TypeOK, BatchFits, StoredFits, CleanFits, Kind PROVE CleanFits'
<1>0. /\ \A j \in Ingests : at[j] \in Nat /\ total[j] \in Nat /\ size[j] \in Nat
      /\ \A j \in Ingests : /\ Len(File[j]) \in Nat /\ Rows(j) = 1..Len(File[j])
                            /\ MaxRows[j] \in Nat /\ at[j] <= Len(File[j])
      /\ BatchSize \in Nat /\ BatchSize >= 1
    BY FileFacts, CountFacts DEF TypeOK
<1>1. CASE Waits
    BY <1>1 DEF Waits, CleanFits, AtEnd
<1>2. ASSUME NEW j \in Ingests, ReadBatch(j) PROVE CleanFits'
    <2>1. PICK n \in 0..BatchSize :
             /\ n <= Len(File[j]) - at[j] /\ (n = BatchSize \/ n = Len(File[j]) - at[j])
             /\ size[j] = 0 /\ lines[j] = {}
             /\ at'[j] = at[j] + n /\ size'[j] = n /\ total' = total /\ lines'[j] = Lines(j, n)
             /\ pc'[j] = IF n = 0 THEN "done" ELSE "ready"
             /\ noted'[j] = (noted[j] \/ cancelled[j] \/ Lines(j, n) # NextRows(j, n))
             /\ \A k \in Ingests \ {j} : /\ at'[k] = at[k] /\ size'[k] = size[k]
                                         /\ lines'[k] = lines[k] /\ pc'[k] = pc[k]
                                         /\ noted'[k] = noted[k]
             /\ UNCHANGED <<stored, lost, attempt>>
        BY <1>2, ReadFacts
    <2>2. n \in Nat
        BY FileFacts
    <2> SUFFICES ASSUME ~lost, NEW k \in Ingests, ~noted'[k]
                 PROVE  /\ total[k] + size'[k] = at'[k]
                        /\ \A r \in 1..at'[k] : File[k][r] = "good" =>
                              stored[k][r] = 1 \/ r \in lines'[k]
                        /\ pc'[k] = "done" => AtEnd(k)' \/ MaxRows[k] > 0
        BY <2>1 DEF CleanFits
    <2>3. CASE k # j
        BY <2>1, <2>3 DEF CleanFits, AtEnd
    <2>4. CASE k = j
        <3>1. ~noted[j] /\ lines'[j] = (at[j] + 1)..(at[j] + n)
            BY <2>1, <2>4 DEF NextRows
        <3>2. total[j] = at[j]
            BY <1>0, <2>1, <3>1 DEF CleanFits
        <3>3. \A r \in 1..at[j] : File[j][r] = "good" => stored[j][r] = 1
            BY <2>1, <3>1 DEF CleanFits
        <3>4. ASSUME NEW r \in 1..(at[j] + n), File[j][r] = "good"
              PROVE  stored[j][r] = 1 \/ r \in lines'[j]
            BY <1>0, <2>2, <3>1, <3>3, <3>4
        <3>5. n = 0 => at'[j] = Len(File[j])
            BY <1>0, <2>1
        <3> QED
            BY <2>1, <2>4, <3>2, <3>4, <3>5 DEF AtEnd
    <2> QED
        BY <2>3, <2>4
<1>3. ASSUME NEW j \in Ingests, ReadFault(j) PROVE CleanFits'
    <2>1. /\ UNCHANGED <<pc, size, lines, total, stored, lost>> /\ noted'[j]
          /\ \A k \in Ingests \ {j} : at'[k] = at[k] /\ noted'[k] = noted[k]
        BY <1>3 DEF ReadFault, wire, TypeOK
    <2> QED
        BY <2>1 DEF CleanFits, AtEnd
<1>4. ASSUME NEW j \in Ingests, NEW rows, NEW err \in BOOLEAN, Finishes(j, rows, err)
      PROVE  CleanFits'
    <2>1. /\ at' = at /\ size'[j] = 0 /\ total'[j] = total[j] + size[j] /\ lines'[j] = {}
          /\ pc'[j] = IF LimitReached(total[j] + size[j], j) THEN "done" ELSE "loop"
          /\ noted'[j] = (noted[j] \/ err)
          /\ \A k \in Ingests \ {j} : /\ size'[k] = size[k] /\ total'[k] = total[k]
                                      /\ lines'[k] = lines[k] /\ pc'[k] = pc[k]
                                      /\ noted'[k] = noted[k]
        BY <1>4, FinishFacts
    <2>2. rows \in SUBSET lines[j] /\ stored' = Stored(j, rows)
        BY <1>4 DEF Finishes
    <2>7. (lost => lost') /\ (rows = lines[j] \/ err \/ lost')
        BY <1>4, Zenon DEF Finishes
    <2>3. \A k \in Ingests : \A r \in Rows(k) :
              stored'[k][r] = IF k = j /\ r \in rows THEN 1 ELSE stored[k][r]
        BY <2>2, StoreFacts
    <2> SUFFICES ASSUME ~lost', NEW k \in Ingests, ~noted'[k]
                 PROVE  /\ total'[k] + size'[k] = at[k]
                        /\ \A r \in 1..at[k] : File[k][r] = "good" =>
                              stored'[k][r] = 1 \/ r \in lines'[k]
                        /\ pc'[k] = "done" => AtEnd(k) \/ MaxRows[k] > 0
        BY <2>1 DEF CleanFits, AtEnd
    <2>4. 1..at[k] \subseteq Rows(k)
        BY <1>0
    <2>5. CASE k # j
        <3>1. noted'[k] = noted[k]
            BY <2>1, <2>5
        <3>2. ~noted[k] /\ ~lost
            BY <2>7, <3>1, Zenon
        <3> QED
            BY <2>1, <2>3, <2>4, <2>5, <3>2 DEF CleanFits
    <2>6. CASE k = j
        <3>1. ~noted[j] /\ ~lost /\ rows = lines[j]
            <4>1. noted'[j] = (noted[j] \/ err) /\ ~noted'[j]
                BY <2>1, <2>6, Zenon
            <4> QED
                BY <2>7, <4>1, Zenon
        <3>2. total'[j] + size'[j] = at[j]
            BY <1>0, <2>1, <3>1 DEF CleanFits
        <3>3. ASSUME NEW r \in 1..at[j], File[j][r] = "good" PROVE stored'[j][r] = 1
            BY <2>3, <2>4, <2>6, <3>1, <3>3 DEF CleanFits
        <3>4. pc'[j] = "done" => MaxRows[j] > 0
            BY <2>1 DEF LimitReached
        <3> QED
            BY <2>6, <3>2, <3>3, <3>4
    <2> QED
        BY <2>5, <2>6
<1>5. ASSUME NEW j \in Ingests, NEW rows, NEW left, Continues(j, rows, left) PROVE CleanFits'
    <2>8. lost => lost'
        BY <1>5, Zenon DEF Continues
    <2>9. lines[j] = rows \cup left \/ lost'
        BY <1>5, Zenon DEF Continues
    <2>1. /\ UNCHANGED <<at, size, total, noted>>
          /\ rows \in SUBSET lines[j] /\ stored' = Stored(j, rows)
          /\ pc'[j] # "done" /\ \A k \in Ingests \ {j} : pc'[k] = pc[k]
        BY <1>5 DEF Continues, Inside
    <2>2. lines'[j] = left /\ \A k \in Ingests \ {j} : lines'[k] = lines[k]
        BY <1>5 DEF Continues, TypeOK
    <2>3. \A k \in Ingests : \A r \in Rows(k) :
              stored'[k][r] = IF k = j /\ r \in rows THEN 1 ELSE stored[k][r]
        BY <2>1, StoreFacts
    <2> SUFFICES ASSUME ~lost', NEW k \in Ingests, ~noted[k]
                 PROVE  /\ total[k] + size[k] = at[k]
                        /\ \A r \in 1..at[k] : File[k][r] = "good" =>
                              stored'[k][r] = 1 \/ r \in lines'[k]
                        /\ pc'[k] = "done" => AtEnd(k) \/ MaxRows[k] > 0
        BY <2>1 DEF CleanFits, AtEnd
    <2>4. 1..at[k] \subseteq Rows(k)
        BY <1>0
    <2>5. ~lost
        BY <2>8, Zenon
    <2>6. total[k] + size[k] = at[k] /\ (pc'[k] = "done" => AtEnd(k) \/ MaxRows[k] > 0)
        BY <2>1, <2>5 DEF CleanFits
    <2>7. ASSUME NEW r \in 1..at[k], File[k][r] = "good"
          PROVE  stored'[k][r] = 1 \/ r \in lines'[k]
        <3>1. stored[k][r] = 1 \/ r \in lines[k]
            BY <2>5, <2>7 DEF CleanFits
        <3> QED
            BY <2>2, <2>3, <2>4, <2>9, <3>1
    <2> QED
        BY <2>6, <2>7
<1> QED
    BY <1>1, <1>2, <1>3, <1>4, <1>5 DEF Kind

-----------------------------------------------------------------------------
(* The connection and the mutex.                                           *)

LEMMA StubKept == ASSUME StubFits, [Next]_vars PROVE StubFits'
<1> USE DEF StubFits, wire
<1>1. CASE Close \/ Die \/ Expire \/ UNCHANGED vars
    BY <1>1 DEF Close, Die, Expire, vars
<1>2. ASSUME NEW j \in Ingests, Start(j) PROVE StubFits'
    BY <1>2 DEF Start, Dials, DialFails
<1>3. ASSUME NEW j \in Ingests,
             Cancel(j) \/ ReadFault(j) \/ ReadBatch(j) \/ SendBegin(j) \/ Backoff(j)
      PROVE  StubFits'
    <2>1. UNCHANGED wire
        BY <1>3 DEF Cancel, ReadFault, ReadBatch, SendBegin, Backoff
    <2> QED
        BY <2>1
<1>4. ASSUME NEW j \in Ingests, Test(j) PROVE StubFits'
    <2>1. CASE Pings
        BY <2>1, PingsStoreNothing
    <2>2. CASE stub' = NoStub /\ garbled' = garbled
        BY <2>2
    <2> QED
        BY <1>4, <2>1, <2>2 DEF Test, Dials, DialFails
<1>5. ASSUME NEW j \in Ingests, WriteAll(j) PROVE StubFits'
    <2>1. conn \in {"open", "dead"} /\ UNCHANGED <<stub, garbled>>
        BY <1>5 DEF WriteAll
    <2> QED
        BY <2>1
<1>6. ASSUME NEW j \in Ingests, WriteFails(j) PROVE StubFits'
    <2>1. (conn' = "expired" \/ stub' = NoStub) /\ garbled' = garbled
        BY <1>6 DEF WriteFails
    <2> QED
        BY <2>1
<1> QED
    BY <1>1, <1>2, <1>3, <1>4, <1>5, <1>6 DEF Next, Step

WireTyped ==
    /\ conn \in Conns
    /\ stub = NoStub \/ stub \in [owner : Ingests, row : Nat, whole : BOOLEAN]
    /\ cancelled \in [Ingests -> BOOLEAN]
    /\ garbled \in BOOLEAN /\ lost \in BOOLEAN
    /\ faults \in 0..MaxFaults /\ closes \in 0..MaxCloses

LEMMA WireTypes == ASSUME TypeOK, StubFits, [Next]_vars PROVE WireTyped'
<1> USE DEF Conns, wire
<1>0. WireTyped /\ MaxFaults \in Nat /\ MaxCloses \in Nat
    BY IngestAssumption DEF TypeOK, WireTyped
<1> USE <1>0 DEF WireTyped
<1>1. CASE UNCHANGED vars
    BY <1>1 DEF vars
<1>8. CASE Close \/ Die \/ Expire
    <2>1. /\ conn' \in Conns /\ (stub' = stub \/ stub' = NoStub)
          /\ lost' \in BOOLEAN /\ UNCHANGED <<garbled, cancelled, faults>>
        BY <1>8 DEF Close, Die, Expire
    <2>2. closes' \in 0..MaxCloses
        BY <1>8 DEF Close, Die, Expire
    <2> QED
        BY <2>1, <2>2
<1>2. ASSUME NEW j \in Ingests, Start(j) PROVE WireTyped'
    BY <1>2 DEF Start, Dials, DialFails
<1>3. ASSUME NEW j \in Ingests, Cancel(j) \/ ReadFault(j) PROVE WireTyped'
    <2>1. UNCHANGED <<wire, closes>> /\ cancelled' \in [Ingests -> BOOLEAN]
        BY <1>3 DEF Cancel, ReadFault
    <2>2. faults' \in 0..MaxFaults
        BY <1>3 DEF Cancel, ReadFault
    <2> QED
        BY <2>1, <2>2
<1>4. ASSUME NEW j \in Ingests, ReadBatch(j) \/ SendBegin(j) \/ Backoff(j) PROVE WireTyped'
    BY <1>4 DEF ReadBatch, SendBegin, Backoff
<1>5. ASSUME NEW j \in Ingests, Test(j) PROVE WireTyped'
    <2>1. stub' = NoStub /\ garbled' \in BOOLEAN /\ conn' \in Conns
        BY <1>5 DEF Test, Pings, Dials, DialFails
    <2>2. UNCHANGED <<cancelled, lost, faults, closes>>
        BY <1>5 DEF Test
    <2> QED
        BY <2>1, <2>2
<1>6. ASSUME NEW j \in Ingests, WriteAll(j) PROVE WireTyped'
    <2>1. conn' \in Conns /\ lost' \in BOOLEAN
        BY <1>6 DEF WriteAll
    <2>2. UNCHANGED <<stub, garbled, cancelled, faults, closes>>
        BY <1>6 DEF WriteAll
    <2> QED
        BY <2>1, <2>2
<1>7. ASSUME NEW j \in Ingests, WriteFails(j) PROVE WireTyped'
    <2>1. PICK next \in lines[j], partial \in {"none", "part", "whole"} :
              /\ conn' \in Conns /\ lost' \in BOOLEAN
              /\ \/ stub' = NoStub
                 \/ stub' = [owner |-> j, row |-> next, whole |-> partial = "whole"]
        BY <1>7 DEF WriteFails
    <2>2. next \in Nat
        BY DEF TypeOK
    <2>3. UNCHANGED <<garbled, cancelled, faults, closes>>
        BY <1>7 DEF WriteFails
    <2>4. stub' = NoStub \/ stub' \in [owner : Ingests, row : Nat, whole : BOOLEAN]
        <3>1. ASSUME NEW w \in BOOLEAN, stub' = [owner |-> j, row |-> next, whole |-> w]
              PROVE  stub' \in [owner : Ingests, row : Nat, whole : BOOLEAN]
            BY <2>2, <3>1
        <3>2. (partial = "whole") \in BOOLEAN
            OBVIOUS
        <3> QED
            BY <2>1, <3>1, <3>2
    <2> QED
        BY <2>1, <2>3, <2>4
<1> QED
    BY <1>1, <1>2, <1>3, <1>4, <1>5, <1>6, <1>7, <1>8 DEF Next, Step

\* The mutex is held across steps by the ingest that is inside sendLines.
LockTyped ==
    /\ mu \in Ingests \cup {Nobody}
    /\ pc \in [Ingests -> Pcs]
    /\ \A j \in Ingests : pc[j] \in {"test", "write", "backoff"} <=> mu = j

LEMMA LockTypes == ASSUME TypeOK, [Next]_vars PROVE LockTyped'
<1> USE DEF Pcs
<1>0. LockTyped /\ Nobody \notin Ingests
    BY FileFacts DEF TypeOK, LockTyped
<1> USE <1>0 DEF LockTyped, Goto
<1>1. CASE Close \/ Die \/ Expire \/ UNCHANGED vars
    BY <1>1 DEF Close, Die, Expire, vars
<1>2. ASSUME NEW j \in Ingests, Start(j) PROVE LockTyped'
    BY <1>2 DEF Start
<1>3. ASSUME NEW j \in Ingests, Cancel(j) \/ ReadFault(j) PROVE LockTyped'
    BY <1>3 DEF Cancel, ReadFault
<1>4. ASSUME NEW j \in Ingests, ReadBatch(j) PROVE LockTyped'
    <2>1. mu' = mu /\ pc[j] = "loop" /\ \E w \in {"ready", "done"} : pc' = [pc EXCEPT ![j] = w]
        BY <1>4 DEF ReadBatch
    <2> QED
        BY <2>1
<1>5. ASSUME NEW j \in Ingests, mu = Nobody \/ mu = j, mu' = Nobody,
             \E err : BatchEnds(j, err)
      PROVE  LockTyped'
    <2>1. \E w \in {"loop", "done"} : pc' = [pc EXCEPT ![j] = w]
        BY <1>5 DEF BatchEnds
    <2> QED
        BY <1>5, <2>1
<1>6. ASSUME NEW j \in Ingests, mu = j, mu' = j,
             \E w \in {"test", "write", "backoff"} : Goto(j, w)
      PROVE  LockTyped'
    BY <1>6
<1>7. ASSUME NEW j \in Ingests, SendBegin(j) PROVE LockTyped'
    <2>1. CASE mu' = mu /\ BatchEnds(j, cancelled[j])
        BY <1>5, <1>7, <2>1 DEF SendBegin
    <2>2. CASE mu' = j /\ pc' = [pc EXCEPT ![j] = "test"]
        BY <1>7, <2>2 DEF SendBegin
    <2> QED
        BY <1>7, <2>1, <2>2 DEF SendBegin
<1>8. ASSUME NEW j \in Ingests, Test(j) \/ WriteAll(j) \/ WriteFails(j) \/ Backoff(j)
      PROVE  LockTyped'
    <2>1. mu = j
        BY <1>8 DEF Test, WriteAll, WriteFails, Backoff
    <2>2. \/ mu' = Nobody /\ \E err : BatchEnds(j, err)
          \/ mu' = mu /\ \E w \in {"test", "write", "backoff"} : Goto(j, w)
        <3> USE DEF Unlock
        <3> HIDE DEF Goto
        <3>1. CASE Test(j)
            BY <3>1 DEF Test
        <3>2. CASE WriteAll(j)
            BY <3>2 DEF WriteAll
        <3>3. CASE WriteFails(j)
            BY <3>3 DEF WriteFails
        <3>4. CASE Backoff(j)
            BY <3>4 DEF Backoff
        <3> QED
            BY <1>8, <3>1, <3>2, <3>3, <3>4
    <2> QED
        BY <1>5, <1>6, <2>1, <2>2
<1> QED
    BY <1>1, <1>2, <1>3, <1>4, <1>7, <1>8 DEF Next, Step

BatchTyped ==
    /\ at \in [Ingests -> Nat] /\ total \in [Ingests -> Nat]
    /\ size \in [Ingests -> 0..BatchSize]
    /\ attempt \in [Ingests -> 0..MaxRetries]
    /\ lines \in [Ingests -> SUBSET Nat]
    /\ stored = [j \in Ingests |-> stored[j]]
    /\ \A j \in Ingests : /\ total[j] <= at[j] /\ at[j] <= Len(File[j])
                          /\ lines[j] \subseteq Rows(j)
                          /\ stored[j] \in [Rows(j) -> 0..2]
    /\ noted \in [Ingests -> BOOLEAN]

LEMMA StoredTypes ==
    ASSUME TypeOK, NEW j \in Ingests, NEW rows, stored' = Stored(j, rows)
    PROVE  /\ stored' = [k \in Ingests |-> stored'[k]]
           /\ \A k \in Ingests : stored'[k] \in [Rows(k) -> 0..2]
<1> DEFINE f == [r \in Rows(j) |-> IF r \in rows /\ stored[j][r] < 2 THEN stored[j][r] + 1
                                   ELSE stored[j][r]]
<1>1. stored' = [stored EXCEPT ![j] = f]
    BY DEF Stored
<1>2. f \in [Rows(j) -> 0..2]
    <2>1. stored[j] \in [Rows(j) -> 0..2]
        BY DEF TypeOK
    <2>2. ASSUME NEW r \in Rows(j) PROVE stored[j][r] \in 0..2
        BY <2>1
    <2>3. \A r \in Rows(j) : f[r] \in 0..2
        BY <2>2
    <2> QED
        BY <2>3
<1> HIDE DEF f
<1>3. /\ stored' = [k \in Ingests |-> stored'[k]]
      /\ stored'[j] = f /\ \A k \in Ingests \ {j} : stored'[k] = stored[k]
    BY <1>1 DEF TypeOK
<1> QED
    BY <1>2, <1>3 DEF TypeOK

LEMMA BatchTypes == ASSUME TypeOK, BatchFits, Kind PROVE BatchTyped'
<1>0. BatchTyped
    BY DEF TypeOK, BatchTyped
<1>9. /\ \A j \in Ingests : at[j] \in Nat /\ total[j] \in Nat /\ size[j] \in Nat
      /\ \A j \in Ingests : Len(File[j]) \in Nat /\ Rows(j) = 1..Len(File[j])
      /\ \A j \in Ingests : at[j] <= Len(File[j]) /\ total[j] <= at[j]
      /\ BatchSize \in Nat /\ BatchSize >= 1 /\ MaxRetries \in Nat
    BY FileFacts, CountFacts DEF TypeOK
<1>1. CASE Waits
    <2>1. UNCHANGED <<at, size, lines, attempt, total, noted, stored>>
        BY <1>1 DEF Waits
    <2> QED
        BY <1>0, <2>1 DEF BatchTyped
<1>2. ASSUME NEW j \in Ingests, ReadBatch(j) PROVE BatchTyped'
    <2>1. PICK n \in 0..BatchSize :
             /\ n <= Len(File[j]) - at[j]
             /\ at'[j] = at[j] + n /\ total' = total /\ lines'[j] = Lines(j, n)
             /\ \A k \in Ingests \ {j} : at'[k] = at[k] /\ lines'[k] = lines[k]
             /\ UNCHANGED <<stored, attempt>>
        BY <1>2, ReadFacts
    <2>2. /\ at' = [at EXCEPT ![j] = @ + Least(BatchSize, Unread(j))]
          /\ size' = [size EXCEPT ![j] = Least(BatchSize, Unread(j))]
          /\ lines' = [lines EXCEPT ![j] = Lines(j, Least(BatchSize, Unread(j)))]
          /\ \E b : noted' = [noted EXCEPT ![j] = @ \/ cancelled[j] \/ b]
        BY <1>2 DEF ReadBatch
    <2>3. n \in Nat /\ Least(BatchSize, Unread(j)) \in 0..BatchSize
        BY <1>9 DEF Least, Unread
    <2>4. at' \in [Ingests -> Nat] /\ size' \in [Ingests -> 0..BatchSize]
        BY <1>0, <1>9, <2>2, <2>3 DEF BatchTyped
    <2>5. \A k \in Nat : Lines(j, k) \subseteq Nat
        BY <1>9 DEF Lines, NextRows
    <2>6. lines' \in [Ingests -> SUBSET Nat]
        BY <1>0, <1>9, <2>2, <2>3, <2>5 DEF BatchTyped
    <2>7. noted' \in [Ingests -> BOOLEAN]
        <3>1. PICK b : noted' = [noted EXCEPT ![j] = @ \/ cancelled[j] \/ b]
            BY <2>2
        <3>2. (noted[j] \/ cancelled[j] \/ b) \in BOOLEAN
            OBVIOUS
        <3>3. noted \in [Ingests -> BOOLEAN]
            BY <1>0 DEF BatchTyped
        <3> QED
            BY <3>1, <3>2, <3>3, Zenon
    <2>8. Lines(j, n) \subseteq Rows(j)
        BY <1>9, <2>1, <2>3 DEF Lines, NextRows
    <2>9. ASSUME NEW k \in Ingests
          PROVE  /\ total'[k] <= at'[k] /\ at'[k] <= Len(File[k])
                 /\ lines'[k] \subseteq Rows(k) /\ stored'[k] \in [Rows(k) -> 0..2]
        <3>1. CASE k = j
            BY <1>0, <1>9, <2>1, <2>3, <2>8, <3>1 DEF BatchTyped
        <3>2. CASE k # j
            BY <1>0, <2>1, <3>2 DEF BatchTyped
        <3> QED
            BY <3>1, <3>2
    <2> QED
        BY <1>0, <2>1, <2>4, <2>6, <2>7, <2>9 DEF BatchTyped
<1>3. ASSUME NEW j \in Ingests, ReadFault(j) PROVE BatchTyped'
    <2>1. PICK n \in 0..Least(BatchSize - 1, Unread(j)) : at' = [at EXCEPT ![j] = @ + n]
        BY <1>3 DEF ReadFault
    <2>2. n \in Nat /\ n <= Len(File[j]) - at[j]
        BY <1>9 DEF Least, Unread
    <2>3. /\ UNCHANGED <<size, lines, attempt, total, stored>>
          /\ noted' = [noted EXCEPT ![j] = TRUE]
        BY <1>3 DEF ReadFault, wire
    <2>4. /\ at' \in [Ingests -> Nat] /\ at'[j] = at[j] + n
          /\ \A k \in Ingests \ {j} : at'[k] = at[k]
        BY <1>0, <1>9, <2>1, <2>2 DEF BatchTyped
    <2>5. noted' \in [Ingests -> BOOLEAN]
        BY <1>0, <2>3 DEF BatchTyped
    <2>6. \A k \in Ingests : total[k] <= at'[k] /\ at'[k] <= Len(File[k])
        BY <1>9, <2>2, <2>4
    <2> QED
        BY <1>0, <2>3, <2>4, <2>5, <2>6 DEF BatchTyped
<1>4. ASSUME NEW j \in Ingests, NEW rows, NEW err \in BOOLEAN, Finishes(j, rows, err)
      PROVE  BatchTyped'
    <2>1. /\ stored' = Stored(j, rows) /\ at' = at
          /\ total' = [total EXCEPT ![j] = @ + size[j]]
          /\ lines' = [lines EXCEPT ![j] = {}]
          /\ attempt' = [attempt EXCEPT ![j] = 0]
          /\ size' = [size EXCEPT ![j] = 0]
          /\ noted' = [noted EXCEPT ![j] = @ \/ err]
        BY <1>4 DEF Finishes, BatchEnds, Notes
    <2>2. /\ lines' \in [Ingests -> SUBSET Nat] /\ lines'[j] = {}
          /\ \A k \in Ingests \ {j} : lines'[k] = lines[k]
        BY <1>0, <2>1 DEF BatchTyped
    <2>3. /\ total' \in [Ingests -> Nat] /\ total'[j] = total[j] + size[j]
          /\ \A k \in Ingests \ {j} : total'[k] = total[k]
        BY <1>0, <1>9, <2>1 DEF BatchTyped
    <2>4. attempt' \in [Ingests -> 0..MaxRetries] /\ size' \in [Ingests -> 0..BatchSize]
        <3>1. 0 \in 0..MaxRetries /\ 0 \in 0..BatchSize
            BY <1>9
        <3> QED
            BY <1>0, <2>1, <3>1 DEF BatchTyped
    <2>5. noted' \in [Ingests -> BOOLEAN]
        <3>1. noted \in [Ingests -> BOOLEAN] /\ (noted[j] \/ err) \in BOOLEAN
            BY <1>0, Zenon DEF BatchTyped
        <3> QED
            BY <2>1, <3>1, Zenon
    <2>6. total[j] + size[j] <= at[j]
        BY DEF BatchFits
    <2> QED
        BY <1>0, <1>4, <2>1, <2>2, <2>3, <2>4, <2>5, <2>6, StoredTypes DEF BatchTyped
<1>5. ASSUME NEW j \in Ingests, NEW rows, NEW left, Continues(j, rows, left) PROVE BatchTyped'
    <2>1. /\ UNCHANGED <<at, size, total>> /\ stored' = Stored(j, rows)
          /\ left \subseteq lines[j] /\ lines' = [lines EXCEPT ![j] = left]
        BY <1>5 DEF Continues
    <2>2. noted' = noted
        BY <1>5, Zenon DEF Continues
    <2>3. /\ lines' \in [Ingests -> SUBSET Nat]
          /\ \A k \in Ingests : lines'[k] \subseteq lines[k]
        BY <1>0, <2>1 DEF BatchTyped
    <2>4. attempt' \in [Ingests -> 0..MaxRetries]
        <3>1. CASE attempt' = attempt
            BY <1>0, <3>1 DEF BatchTyped
        <3>2. CASE pc[j] = "backoff" /\ attempt' = [attempt EXCEPT ![j] = @ + 1]
            <4>1. attempt \in [Ingests -> 0..MaxRetries] /\ attempt[j] < MaxRetries
                BY <1>0, <3>2 DEF BatchTyped, BatchFits
            <4>2. attempt[j] + 1 \in 0..MaxRetries
                BY <1>9, <4>1
            <4> QED
                BY <3>2, <4>1, <4>2
        <3> QED
            BY <1>5, <3>1, <3>2 DEF Continues
    <2> QED
        BY <1>0, <2>1, <2>2, <2>3, <2>4, StoredTypes DEF BatchTyped
<1> QED
    BY <1>1, <1>2, <1>3, <1>4, <1>5 DEF Kind

-----------------------------------------------------------------------------
(* The invariant.                                                          *)

LEMMA InitFits == ASSUME Init PROVE IngestInv
<1>0. /\ BatchSize \in Nat /\ BatchSize >= 1 /\ MaxRetries \in Nat /\ Nobody \notin Ingests
      /\ MaxFaults \in Nat /\ MaxCloses \in Nat
      /\ \A j \in Ingests : /\ Len(File[j]) \in Nat /\ Rows(j) = 1..Len(File[j])
                            /\ MaxRows[j] \in Nat
    BY FileFacts, IngestAssumption
<1>1. TypeOK
    <2>1. WireTyped
        <3>1. /\ conn = "none" /\ stub = NoStub /\ cancelled = [j \in Ingests |-> FALSE]
              /\ garbled = FALSE /\ lost = FALSE /\ faults = 0 /\ closes = 0
            BY DEF Init
        <3>2. conn \in Conns /\ cancelled \in [Ingests -> BOOLEAN]
            BY <3>1 DEF Conns
        <3>3. faults \in 0..MaxFaults /\ closes \in 0..MaxCloses
            BY <1>0, <3>1
        <3> QED
            BY <3>1, <3>2, <3>3 DEF WireTyped
    <2>2. LockTyped
        BY <1>0 DEF Init, LockTyped, Pcs
    <2>3. BatchTyped
        <3>1. /\ stored = [j \in Ingests |-> stored[j]]
              /\ \A j \in Ingests : stored[j] \in [Rows(j) -> 0..2]
            BY DEF Init
        <3>2. at \in [Ingests -> Nat] /\ total \in [Ingests -> Nat] /\ noted \in [Ingests -> BOOLEAN]
            BY DEF Init
        <3>3. size \in [Ingests -> 0..BatchSize] /\ attempt \in [Ingests -> 0..MaxRetries]
            BY <1>0 DEF Init
        <3>4. lines \in [Ingests -> SUBSET Nat]
            BY DEF Init
        <3>5. \A j \in Ingests : /\ total[j] <= at[j] /\ at[j] <= Len(File[j])
                                 /\ lines[j] \subseteq Rows(j)
            <4> SUFFICES ASSUME NEW j \in Ingests
                         PROVE  total[j] <= at[j] /\ at[j] <= Len(File[j])
                BY DEF Init
            <4>1. total[j] = 0 /\ at[j] = 0
                BY DEF Init
            <4>2. Len(File[j]) >= 0
                BY <1>0
            <4> QED
                BY <4>1, <4>2
        <3> QED
            BY <3>1, <3>2, <3>3, <3>4, <3>5 DEF BatchTyped
    <2> QED
        BY <2>1, <2>2, <2>3 DEF TypeOK, WireTyped, LockTyped, BatchTyped
<1>2. BatchFits
    <2>1. \A j \in Ingests : lines[j] = {} /\ pc[j] = "idle"
        BY DEF Init
    <2>2. ASSUME NEW j \in Ingests
          PROVE  total[j] = 0 /\ size[j] = 0 /\ total[j] + size[j] <= at[j]
        BY DEF Init
    <2>3. \A S : {} \subseteq S
        OBVIOUS
    <2>4. \A j \in Ingests : lines[j] \subseteq (at[j] - size[j] + 1)..at[j]
        BY <2>1, <2>3
    <2> QED
        BY <2>1, <2>2, <2>4 DEF BatchFits, Inside
<1>3. StubFits
    BY DEF Init, StubFits
<1>4. StoredFits
    BY DEF Init, StoredFits
<1>5. LimitFits
    <2> SUFFICES ASSUME NEW j \in Ingests, MaxRows[j] > 0
                 PROVE  0 <= Bound(j) /\ Whole(0)
        BY <1>0 DEF Init, LimitFits, Inside
    <2>1. Whole(0) /\ 0 \in Nat /\ BatchSize * 0 = 0
        BY <1>0 DEF Whole
    <2>2. 0 + BatchSize <= Bound(j)
        BY <1>0, <2>1, RoomForABatch DEF Bound
    <2>3. Bound(j) \in Int
        <3>1. (MaxRows[j] + BatchSize - 1) \div BatchSize \in Int
            BY <1>0
        <3> QED
            BY <1>0, <3>1 DEF Bound
    <2> QED
        BY <1>0, <2>1, <2>2, <2>3
<1>6. CleanFits
    BY <1>0 DEF Init, CleanFits
<1> QED
    BY <1>1, <1>2, <1>3, <1>4, <1>5, <1>6 DEF IngestInv

LEMMA StepFits == ASSUME IngestInv, [Next]_vars PROVE IngestInv'
<1> USE DEF IngestInv
<1>1. Kind
    BY Kinds
<1>2. TypeOK'
    BY <1>1, WireTypes, LockTypes, BatchTypes DEF TypeOK, WireTyped, LockTyped, BatchTyped
<1>3. BatchFits' /\ StubFits' /\ StoredFits' /\ CleanFits'
    BY <1>1, BatchKept, StubKept, StoredKept, CleanKept
<1>4. LimitFits'
    BY <1>1, <1>2, LimitKeeps
<1> QED
    BY <1>2, <1>3, <1>4

LEMMA IngestInvHolds == Spec => []IngestInv
<1>1. Init => IngestInv
    BY InitFits
<1>2. IngestInv /\ [Next]_vars => IngestInv'
    BY StepFits
<1> QED
    BY <1>1, <1>2, PTL DEF Spec

\* No row is stored twice and no fragment of one is stored, across retries after
\* partial writes, reconnects and ingests that share the connection, and no
\* ingest overruns its row limit by a batch (sendLines and IngestCSV).
THEOREM IngestsAreExact == Spec => []IngestIsExact
<1>1. IngestInv => RowsStoredOnce
    <2> SUFFICES ASSUME IngestInv PROVE RowsStoredOnce
        OBVIOUS
    <2> QED
        BY DEF IngestInv, StoredFits, StubFits, RowsStoredOnce
<1>2. IngestInv => LimitKept
    <2> SUFFICES ASSUME IngestInv, NEW j \in Ingests, MaxRows[j] > 0
                 PROVE  total[j] <= Bound(j)
        BY DEF LimitKept, Bound
    <2>1. total[j] \in Nat /\ size[j] \in Nat /\ total[j] + size[j] <= Bound(j)
        BY CountFacts DEF IngestInv, LimitFits
    <2>2. Bound(j) \in Int
        <3>1. (MaxRows[j] + BatchSize - 1) \div BatchSize \in Int
            BY FileFacts
        <3> QED
            BY FileFacts, <3>1 DEF Bound
    <2> QED
        BY <2>1, <2>2
<1>3. IngestInv => IngestIsExact
    BY <1>1, <1>2 DEF IngestInv, IngestIsExact
<1> QED
    BY <1>3, IngestInvHolds, PTL

\* When no peer died, a result without errors means that each well-formed row of
\* the file, up to the row limit, is stored exactly once (IngestCSV's result).
THEOREM CleanResultsAreComplete == Spec => []CleanResultIsComplete
<1>1. IngestInv => CleanResultIsComplete
    <2> SUFFICES ASSUME IngestInv, ~lost, NEW j \in Ingests, pc[j] = "done", ~noted[j]
                 PROVE  /\ \A r \in 1..total[j] : File[j][r] = "good" => stored[j][r] = 1
                        /\ MaxRows[j] = 0 => total[j] = Len(File[j])
        BY DEF CleanResultIsComplete
    <2>1. size[j] = 0 /\ lines[j] = {}
        BY DEF IngestInv, BatchFits, Inside
    <2>2. /\ total[j] + size[j] = at[j] /\ (AtEnd(j) \/ MaxRows[j] > 0)
          /\ \A r \in 1..at[j] : File[j][r] = "good" => stored[j][r] = 1 \/ r \in lines[j]
        BY DEF IngestInv, CleanFits
    <2>3. total[j] = at[j]
        BY <2>1, <2>2, CountFacts DEF IngestInv
    <2> QED
        BY <2>1, <2>2, <2>3 DEF AtEnd
<1> QED
    BY <1>1, IngestInvHolds, PTL
=============================================================================
