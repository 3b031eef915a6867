----------------------------- MODULE ILPClient -----------------------------
(***************************************************************************)
(* CSV ingestion over the QuestDB line protocol: IngestCSV and sendLines   *)
(* of internal/ingestion/ilp.go, one client shared by the jobs that run in *)
(* the worker pool, its connection, and what the server makes of it.       *)
(*                                                                         *)
(* A row is a position of an ingest's file.  The server is external: it    *)
(* stores every line that ends in a newline on one connection, forgets an  *)
(* unfinished line when the connection closes, and acknowledges nothing,   *)
(* so what is written to a connection the peer has lost just disappears.   *)
(***************************************************************************)
EXTENDS Integers, Sequences

CONSTANTS
    Ingests,     \* the calls of IngestCSV (jobs; a job that failed is retried)
    File,        \* the rows of each one's file: "good" or "malformed"
    BatchSize,   \* opts.BatchSize
    MaxRows,     \* opts.MaxRows, 0 for no limit
    MaxRetries,  \* ILPClient.maxRetries
    Cancellable, \* the ingests whose context may be cancelled
    MaxFaults,   \* bound: failed reads of a file
    MaxCloses,   \* bound: calls of Close
    Nobody       \* the owner of the free mutex

ASSUME IngestAssumption ==
    /\ File \in [Ingests -> Seq({"good", "malformed"})]
    /\ BatchSize \in Nat \ {0}
    /\ MaxRows \in [Ingests -> Nat]
    /\ MaxRetries \in Nat
    /\ Cancellable \subseteq Ingests
    /\ MaxFaults \in Nat /\ MaxCloses \in Nat
    /\ Nobody \notin Ingests

VARIABLES
    mu,         \* who holds ILPClient.mu across steps
    conn,       \* ILPClient.conn and the state of its socket
    stub,       \* the unfinished line the server holds for the connection
    pc,         \* where each ingest is
    at,         \* how many rows it has read
    size,       \* the rows of its batch, malformed ones included
    lines,      \* currentLines: the rows of the batch that are still to send
    attempt,    \* the attempt of sendLines
    total,      \* totalRows, which becomes RowsIngested
    noted,      \* result.Errors is not empty
    cancelled,  \* its context is done
    stored,     \* how often the server has stored each row (2: more than once)
    garbled,    \* the server has stored a fragment of a row
    lost,       \* (history) a connection died with lines in flight, or unnoticed
    faults, closes
wire  == <<conn, stub, stored, garbled, lost>>
batch == <<at, size, lines, attempt>>
vars  == <<mu, wire, pc, batch, total, noted, cancelled, faults, closes>>

\* "expired": the write deadline of an earlier write has passed, and so every
\* write fails; "broken": the socket reports an error; "dead": the peer is gone
\* and the socket does not know yet.
Conns == {"none", "open", "expired", "broken", "dead"}
Pcs   == {"idle", "refused", "loop", "ready", "test", "write", "backoff", "done"}

NoStub  == [owner |-> Nobody, row |-> 0, whole |-> FALSE]
Rows(j) == DOMAIN File[j]

Init ==
    /\ mu = Nobody
    /\ conn = "none"
    /\ stub = NoStub
    /\ pc = [j \in Ingests |-> "idle"]
    /\ at = [j \in Ingests |-> 0]
    /\ size = [j \in Ingests |-> 0]
    /\ lines = [j \in Ingests |-> {}]
    /\ attempt = [j \in Ingests |-> 0]
    /\ total = [j \in Ingests |-> 0]
    /\ noted = [j \in Ingests |-> FALSE]
    /\ cancelled = [j \in Ingests |-> FALSE]
    /\ stored = [j \in Ingests |-> [r \in Rows(j) |-> 0]]
    /\ garbled = FALSE
    /\ lost = FALSE
    /\ faults = 0
    /\ closes = 0

-----------------------------------------------------------------------------
(* The connection.                                                         *)

Goto(j, where) == pc' = [pc EXCEPT ![j] = where]

\* connectLocked: the old connection is closed, which drops its unfinished
\* line, and a new one dialled unless the context is done.
Dials(j) ==
    /\ ~cancelled[j]
    /\ conn' = "open"
    /\ stub' = NoStub
DialFails ==
    /\ conn' = "none"
    /\ stub' = NoStub

PingMayFailRearmed == conn \in {"broken", "dead"}  \* mutant: ping resets the write deadline
PingMayFail == conn \in {"expired", "broken", "dead"}
PingMayPass == conn \in {"open", "dead"} \/ ~PingMayFail

Stored(j, rows) ==
    [stored EXCEPT ![j] = [r \in Rows(j) |->
        IF r \in rows /\ @[r] < 2 THEN @[r] + 1 ELSE @[r]]]

\* The newline of ping ends a line that was left unfinished.
Pings ==
    /\ PingMayPass
    /\ stub' = NoStub
    /\ conn' = IF conn = "dead" THEN "dead" ELSE "open"
    /\ stored' = IF stub.whole /\ conn # "dead"
                 THEN Stored(stub.owner, {stub.row}) ELSE stored
    /\ garbled' = (garbled \/ (stub # NoStub /\ ~stub.whole /\ conn # "dead"))

\* App.Stop closes the client; nothing keeps a running ingest from dialling.
Close ==
    /\ mu = Nobody /\ closes < MaxCloses
    /\ conn' = "none"
    /\ stub' = NoStub
    /\ closes' = closes + 1
    /\ UNCHANGED <<mu, stored, garbled, lost, pc, batch, total, noted, cancelled, faults>>

\* The peer goes away.
Die ==
    /\ conn = "open"
    /\ conn' = "dead"
    /\ lost' = TRUE
    /\ UNCHANGED <<mu, stub, stored, garbled, pc, batch, total, noted, cancelled,
                   faults, closes>>

\* The deadline set for the last write passes while nobody sends.
Expire ==
    /\ mu = Nobody /\ conn = "open"
    /\ conn' = "expired"
    /\ UNCHANGED <<mu, stub, stored, garbled, lost, pc, batch, total, noted,
                   cancelled, faults, closes>>

Cancel(j) ==
    /\ j \in Cancellable /\ pc[j] \notin {"idle", "refused", "done"} /\ ~cancelled[j]
    /\ cancelled' = [cancelled EXCEPT ![j] = TRUE]
    /\ UNCHANGED <<mu, wire, pc, batch, total, noted, faults, closes>>

-----------------------------------------------------------------------------
(* IngestCSV.                                                              *)

\* Connect, then the file and its header; an error of either fails the job,
\* which the pool runs again.
Start(j) ==
    /\ pc[j] \in {"idle", "refused"} /\ mu = Nobody
    /\ \/ Dials(j) /\ Goto(j, "loop")
       \/ Dials(j) /\ Goto(j, "refused")
       \/ DialFails /\ Goto(j, "refused")
    /\ UNCHANGED <<mu, stored, garbled, lost, batch, total, noted, cancelled,
                   faults, closes>>

Least(a, b) == IF a < b THEN a ELSE b
Unread(j)   == Len(File[j]) - at[j]

\* The next n rows, and their lines: batchToILP makes none of a row with a wrong
\* number of columns.  (The lines of a batch go out in the order of their rows.)
NextRows(j, n) == (at[j] + 1)..(at[j] + n)
Lines(j, n)    == {r \in NextRows(j, n) : File[j][r] = "good"}

\* readBatch and batchToILP, which notes the rows it drops.  A context that is
\* done is noted, and the loop goes on: break leaves the select.
ReadBatch(j) ==
    LET n == Least(BatchSize, Unread(j)) IN
        /\ pc[j] = "loop"
        /\ at' = [at EXCEPT ![j] = @ + n]
        /\ size' = [size EXCEPT ![j] = n]
        /\ lines' = [lines EXCEPT ![j] = Lines(j, n)]
        /\ noted' = [noted EXCEPT ![j] =
                        @ \/ cancelled[j] \/ Lines(j, n) # NextRows(j, n)]
        /\ Goto(j, IF n = 0 THEN "done" ELSE "ready")
        /\ UNCHANGED <<mu, wire, attempt, total, cancelled, faults, closes>>

\* A failed read drops the rows the batch had, and the loop goes on.
ReadFault(j) ==
    /\ pc[j] = "loop" /\ faults < MaxFaults
    /\ faults' = faults + 1
    /\ noted' = [noted EXCEPT ![j] = TRUE]
    /\ \E n \in 0..Least(BatchSize - 1, Unread(j)) : at' = [at EXCEPT ![j] = @ + n]
    /\ UNCHANGED <<mu, wire, pc, size, lines, attempt, total, cancelled, closes>>

LimitReached(n, j) == MaxRows[j] > 0 /\ n >= MaxRows[j]

NotesNever(j, err) == noted                       \* mutant: the error is only logged
Notes(j, err) == [noted EXCEPT ![j] = @ \/ err]

\* sendLines returns: an error is noted, every row of the batch counts as
\* ingested, and the next batch follows unless the limit is reached.
BatchEnds(j, err) ==
    /\ noted' = Notes(j, err)
    /\ total' = [total EXCEPT ![j] = @ + size[j]]
    /\ lines' = [lines EXCEPT ![j] = {}]
    /\ attempt' = [attempt EXCEPT ![j] = 0]
    /\ size' = [size EXCEPT ![j] = 0]
    /\ Goto(j, IF LimitReached(total[j] + size[j], j) THEN "done" ELSE "loop")

-----------------------------------------------------------------------------
(* sendLines, with the mutex held from its first step to its return.       *)

SendBegin(j) ==
    /\ pc[j] = "ready" /\ mu = Nobody
    /\ \/ /\ cancelled[j] \/ lines[j] = {}
          /\ BatchEnds(j, cancelled[j])
          /\ UNCHANGED mu
       \/ /\ ~cancelled[j] /\ lines[j] # {}
          /\ mu' = j
          /\ Goto(j, "test")
          /\ UNCHANGED <<size, lines, attempt, total, noted>>
    /\ UNCHANGED <<wire, at, cancelled, faults, closes>>

UnlockNever == mu                              \* mutant: returns with the mutex held
Unlock == Nobody

\* testAndReconnect.
Test(j) ==
    /\ pc[j] = "test"
    /\ \/ /\ conn # "none" /\ Pings
          /\ Goto(j, "write")
          /\ UNCHANGED <<mu, size, lines, attempt, total, noted>>
       \/ /\ conn = "none" \/ PingMayFail
          /\ Dials(j)
          /\ Goto(j, "write")
          /\ UNCHANGED <<mu, size, lines, attempt, total, noted, stored, garbled>>
       \/ /\ conn = "none" \/ PingMayFail
          /\ DialFails
          /\ mu' = Unlock
          /\ BatchEnds(j, TRUE)
          /\ UNCHANGED <<stored, garbled>>
    /\ UNCHANGED <<lost, at, cancelled, faults, closes>>

\* The lines the socket may have taken of those in s: the first ones.
Begun(s) == {p \in SUBSET s : \A r \in p, q \in s \ p : r < q}

\* The socket takes all lines.  The peer may die before it has read them all.
WriteAll(j) ==
    /\ pc[j] = "write"
    /\ \/ /\ conn = "open"
          /\ stored' = Stored(j, lines[j])
          /\ UNCHANGED <<conn, lost>>
       \/ /\ conn \in {"open", "dead"}
          /\ \E read \in Begun(lines[j]) \ {lines[j]} :
                /\ conn = "dead" => read = {}
                /\ stored' = Stored(j, read)
          /\ conn' = "dead"
          /\ lost' = TRUE
    /\ mu' = Unlock
    /\ BatchEnds(j, FALSE)
    /\ UNCHANGED <<stub, garbled, at, cancelled, faults, closes>>

CountNewlines(taken, partial) == taken

\* The socket takes some lines and possibly a part of the next, or all of it but
\* its newline, before the write fails.  (It never takes all and fails.)
WriteFails(j) ==
    /\ pc[j] = "write"
    /\ \E taken \in Begun(lines[j]), next \in lines[j], partial \in {"none", "part", "whole"} :
        /\ next \notin taken /\ \A r \in lines[j] \ taken : next <= r
        /\ \/ /\ conn = "open"           \* the deadline passes: the peer reads slowly
              /\ conn' = "expired"
              /\ stored' = Stored(j, taken)
              /\ stub' = IF partial = "none" THEN NoStub
                         ELSE [owner |-> j, row |-> next, whole |-> partial = "whole"]
              /\ UNCHANGED lost
           \/ /\ conn \in {"open", "dead"}          \* the peer has closed
              /\ conn' = "broken"
              /\ \E read \in Begun(taken) :
                    /\ conn = "dead" => read = {}
                    /\ stored' = Stored(j, read)
              /\ stub' = NoStub
              /\ lost' = TRUE
        /\ LET left == lines[j] \ CountNewlines(taken, partial) IN
           IF attempt[j] < MaxRetries /\ left # {}
           THEN /\ lines' = [lines EXCEPT ![j] = left]
                /\ Goto(j, "backoff")
                /\ UNCHANGED <<mu, size, attempt, total, noted>>
           ELSE /\ mu' = Unlock
                /\ BatchEnds(j, TRUE)
    /\ UNCHANGED <<garbled, at, cancelled, faults, closes>>

\* The wait between attempts ends, or the context does.
Backoff(j) ==
    /\ pc[j] = "backoff"
    /\ \/ /\ attempt' = [attempt EXCEPT ![j] = @ + 1]
          /\ Goto(j, "test")
          /\ UNCHANGED <<mu, size, lines, total, noted>>
       \/ /\ cancelled[j]
          /\ mu' = Unlock
          /\ BatchEnds(j, TRUE)
    /\ UNCHANGED <<wire, at, cancelled, faults, closes>>

Step(j) ==
    \/ ReadBatch(j) \/ SendBegin(j) \/ Test(j) \/ WriteAll(j) \/ WriteFails(j)
    \/ Backoff(j)

Next ==
    \/ Close \/ Die \/ Expire
    \/ \E j \in Ingests : Start(j) \/ Cancel(j) \/ ReadFault(j) \/ Step(j)

\* A running ingest goes on.  The mutex is handed to a starving waiter, and
\* dial, write and backoff all have timeouts.
Fairness == \A j \in Ingests : WF_vars(Step(j)) /\ SF_vars(SendBegin(j))

Spec == Init /\ [][Next]_vars /\ Fairness

-----------------------------------------------------------------------------
(* Properties.                                                             *)

\* Every variable has its type, and the mutex is held across steps by the one
\* ingest that is inside sendLines.
TypeOK ==
    /\ mu \in Ingests \cup {Nobody}
    /\ conn \in Conns
    /\ stub = NoStub \/ stub \in [owner : Ingests, row : Nat, whole : BOOLEAN]
    /\ pc \in [Ingests -> Pcs]
    /\ at \in [Ingests -> Nat] /\ total \in [Ingests -> Nat]
    /\ size \in [Ingests -> 0..BatchSize]
    /\ attempt \in [Ingests -> 0..MaxRetries]
    /\ lines \in [Ingests -> SUBSET Nat]
    /\ stored = [j \in Ingests |-> stored[j]]
    /\ \A j \in Ingests :
        /\ total[j] <= at[j] /\ at[j] <= Len(File[j])
        /\ lines[j] \subseteq Rows(j)
        /\ stored[j] \in [Rows(j) -> 0..2]
        /\ pc[j] \in {"test", "write", "backoff"} <=> mu = j
    /\ noted \in [Ingests -> BOOLEAN]
    /\ cancelled \in [Ingests -> BOOLEAN]
    /\ garbled \in BOOLEAN /\ lost \in BOOLEAN
    /\ faults \in 0..MaxFaults /\ closes \in 0..MaxCloses

\* "Idempotent retry - no duplicates": no row is stored twice and no fragment
\* of one is stored, across retries after partial writes, reconnects, ingests
\* that share the connection, and a job the pool runs again.
RowsStoredOnce ==
    /\ \A j \in Ingests : \A r \in Rows(j) : stored[j][r] <= 1
    /\ ~garbled

\* A result without errors can be trusted as far as TCP can: when no peer died,
\* each well-formed row of the file, up to the row limit, is stored once.
CleanResultIsComplete ==
    ~lost => \A j \in Ingests : pc[j] = "done" /\ ~noted[j] =>
        /\ \A r \in 1..total[j] : File[j][r] = "good" => stored[j][r] = 1
        /\ MaxRows[j] = 0 => total[j] = Len(File[j])

\* An ingest takes no more batches than the row limit asks for, so it overruns
\* the limit by less than a batch, and an incremental update, whose limit is
\* its batch size, takes one batch; also when batches fail and are noted.
LimitKept ==
    \A j \in Ingests :
        MaxRows[j] > 0 =>
            total[j] <= BatchSize * ((MaxRows[j] + BatchSize - 1) \div BatchSize)

\* An ingest is exact in what it stores and in how much it reads.
IngestIsExact == TypeOK /\ RowsStoredOnce /\ LimitKept

\* An ingest that began comes to its end: retries are bounded, and neither a
\* cancelled context nor another ingest that waits with the mutex held keeps
\* it for ever (while reads of the file do not fail for ever).
IngestEnds == \A j \in Ingests : pc[j] = "loop" ~> pc[j] = "done"
=============================================================================
