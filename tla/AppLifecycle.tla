---------------------------- MODULE AppLifecycle ----------------------------
(***************************************************************************)
(* The life of the server process (cmd/server/main.go and app.go): NewApp  *)
(* opens the stores and clients and registers the handlers whose clients   *)
(* are there (internal/jobs/registry.go), Start lets jobs in, App.Stop     *)
(* closes one thing after the other, and a signal ends the process without *)
(* App.Stop.  Composed with the audit log, whose table it leaves behind.   *)
(*                                                                         *)
(* A job is one attempt here: WorkerPool has the retries.                  *)
(***************************************************************************)
EXTENDS AuditLog, Sequences

CONSTANTS
    Handler,    \* the handler each attempt is for
    Optional,   \* the stores and clients that NewApp may fail to make
    MaxStarts,  \* bound: starts of the process
    MaxFaults   \* bound: statements that fail

Handlers == {"noop", "ib_ping", "bulk_ingest", "historical_data", "earnings_sync"}

ASSUME LifeAssumption ==
    /\ Handler \in [Attempts -> Handlers]
    /\ Optional \subseteq {"questdb", "ib", "earnings"}
    /\ MaxStarts \in Nat /\ MaxFaults \in Nat

VARIABLES
    life,     \* how far the process is
    open,     \* what is open: stores, clients, scheduler, server
    made,     \* what NewApp could make: the others are nil
    handlers, \* the handlers the pool has
    timedOut, \* (history) the server's shutdown gave up on a request
    starts, faults
appVars == <<life, open, made, handlers, timedOut, starts, faults>>
vars == <<auditVars, appVars>>

Clients   == {"ilp", "ib", "earnings"}
Resources == {"sqlite", "questdb", "scheduler", "server"} \cup Clients

Init ==
    /\ AuditInit
    /\ life = "off" /\ open = {} /\ made = {} /\ handlers = {}
    /\ timedOut = FALSE
    /\ starts = 0 /\ faults = 0

-----------------------------------------------------------------------------
(* NewApp and Start.                                                       *)

\* SQLite and its migrations, without which the process ends.
InitSQLite ==
    /\ life = "off" /\ starts < MaxStarts
    /\ starts' = starts + 1
    /\ life' = "sqlite"
    /\ open' = {"sqlite"} /\ made' = {"sqlite"}
    /\ UNCHANGED <<auditVars, handlers, timedOut, faults>>

InitSQLiteFails ==
    /\ life = "off" /\ starts < MaxStarts
    /\ starts' = starts + 1
    /\ UNCHANGED <<auditVars, life, open, made, handlers, timedOut, faults>>

\* QuestDB is optional, and the ILP client comes with it; so are IB and earnings.
InitClients ==
    /\ life = "sqlite"
    /\ \E missing \in SUBSET Optional :
        LET got == ({"questdb", "ib", "earnings"} \ missing)
                   \cup (IF "questdb" \in missing THEN {} ELSE {"ilp"})
        IN made' = made \cup got /\ open' = open \cup got
    /\ life' = "clients"
    /\ UNCHANGED <<auditVars, handlers, timedOut, starts, faults>>

\* The stores and clients a handler calls.
Needs(h) ==
    CASE h = "noop" -> {}
      [] h = "ib_ping" -> {"ib"}
      [] h = "bulk_ingest" -> {"ilp"}
      [] h = "historical_data" -> {"questdb", "sqlite", "ib"}
      [] h = "earnings_sync" -> {"sqlite", "earnings"}

\* initWorkerPool: the IB client is tested for nil, but a nil *ib.Client in an
\* interface is not nil; bulk_ingest is registered without a test.
Registered(h) == Needs(h) \ {"ib", "ilp"} \subseteq made

InitWorkerPool ==
    /\ life = "clients"
    /\ handlers' = {h \in Handlers : Registered(h)}
    /\ life' = "made"
    /\ UNCHANGED <<auditVars, open, made, timedOut, starts, faults>>

Start ==
    /\ life = "made"
    /\ open' = open \cup {"scheduler", "server"}
    /\ life' = "running"
    /\ UNCHANGED <<auditVars, made, handlers, timedOut, starts, faults>>

-----------------------------------------------------------------------------
(* The end: the signal, a crash, App.Stop.                                 *)

Ends ==
    /\ Forget
    /\ life' = "off" /\ open' = {} /\ made' = {} /\ handlers' = {}
    /\ UNCHANGED <<timedOut, starts, faults>>

\* The signal closes quit, WaitForShutdown returns, and main does: no App.Stop.
Exit  == life = "running" /\ Ends /\ UNCHANGED outcome
Crash == life # "off" /\ Ends /\ UNCHANGED outcome

\* App.Stop, one call after the other: the scheduler, the clients, the server
\* (which waits for the requests in flight, for so long), the stores.
OrderServerLast == <<{"scheduler"}, Clients, {"sqlite", "questdb"}, {"server"}>>  \* mutant
Order == <<{"scheduler"}, Clients, {"server"}, {"sqlite", "questdb"}>>

Closed(n) == Order[n] \cap open = {}
StopNext ==
    /\ life \in {"running", "stopping"} /\ open # {}
    /\ LET n == CHOOSE n \in DOMAIN Order : ~Closed(n) /\ \A m \in 1..(n - 1) : Closed(m) IN
        /\ open' = open \ Order[n]
        /\ timedOut' = (timedOut \/ ("server" \in Order[n] /\ InFlight))
    /\ life' = "stopping"
    /\ UNCHANGED <<auditVars, made, handlers, starts, faults>>

-----------------------------------------------------------------------------
(* Jobs and requests.  The workers live as long as the process: App.Stop   *)
(* does not stop the pool.                                                 *)

\* By the scheduler, or by POST /jobs/{id}/run.
Submit(a) ==
    /\ at[a] = "new" /\ open \cap {"scheduler", "server"} # {}
    /\ at' = [at EXCEPT ![a] = "queued"]
    /\ UNCHANGED <<table, run, outcome, unsaved, reader, touched, appVars>>

\* A statement is answered when SQLite is open, but for faults.
Statement(answers) ==
    /\ answers => "sqlite" \in open
    /\ faults' = IF ~answers /\ "sqlite" \in open THEN faults + 1 ELSE faults
    /\ faults' <= MaxFaults
    /\ UNCHANGED <<life, open, made, handlers, timedOut, starts>>

\* A handler that is not registered fails.
Outcomes(a) == IF Handler[a] \in handlers THEN {"success", "failure"} ELSE {"failure"}

\* One whose client is nil panics; the worker recovers from nothing, and the
\* process ends.
CallsNil(a) == Handler[a] \in handlers /\ ~(Needs(Handler[a]) \subseteq made)

Panics(a) ==
    /\ at[a] = "running" /\ CallsNil(a)
    /\ outcome' = [outcome EXCEPT ![a] = "panic"]
    /\ Ends

Execute(a) ==
    \/ \E answers \in BOOLEAN : Statement(answers) /\ (StartRow(a, answers) \/ EndRow(a, answers))
    \/ \E o \in Outcomes(a) : ~CallsNil(a) /\ HandlerEnds(a, o) /\ UNCHANGED appVars
    \/ Panics(a)

Query ==
    \/ "server" \in open /\ (AskList \/ AskStats)
    \/ "sqlite" \in open /\ (GetByJobID \/ GetStats)
    \/ AskFails(IF InFlight /\ "sqlite" \notin open THEN "closed" ELSE "failed")

Next ==
    \/ InitSQLite \/ InitSQLiteFails \/ InitClients \/ InitWorkerPool \/ Start
    \/ Exit \/ Crash \/ StopNext
    \/ \E a \in Attempts : Submit(a) \/ Execute(a)
    \/ Query /\ UNCHANGED appVars
    \/ Cleanup /\ "sqlite" \in open /\ UNCHANGED appVars

Spec == Init /\ [][Next]_vars
-----------------------------------------------------------------------------
(* Properties.                                                             *)

\* Types, of the log's variables too.
TypeOK ==
    /\ AuditTypeOK
    /\ life \in {"off", "sqlite", "clients", "made", "running", "stopping"}
    /\ open \subseteq Resources /\ made \subseteq Resources /\ handlers \subseteq Handlers
    /\ timedOut \in BOOLEAN
    /\ starts \in 0..MaxStarts /\ faults \in 0..MaxFaults

\* App.Stop closes SQLite under no request: the server, closed before it, has let
\* them end, unless its shutdown timed out.
RequestsSeeOpenDatabase == ask = "closed" => timedOut

\* A handler that needs no IB and no ILP client never ends the process with a nil
\* one, however NewApp and its optional parts went.
TestedHandlersNeverPanic ==
    \A a \in Attempts : outcome[a] = "panic" => Needs(Handler[a]) \cap {"ib", "ilp"} # {}

\* Across starts, ends and crashes, the log is well formed and truthful.
LogTellsTheTruth == TypeOK /\ RowsTellTheTruth

\* The order in which the application builds and closes its parts gives every
\* request its database and every tested handler its clients.
PartsOutliveTheirUsers == RequestsSeeOpenDatabase /\ TestedHandlersNeverPanic
=============================================================================
