------------------------------ MODULE AuditLog ------------------------------
(***************************************************************************)
(* The audit log: the table job_runs as internal/audit/logger.go writes it *)
(* for the attempts of jobs, and the requests of internal/handlers/audit.go*)
(* that read it.  Each statement on the table is a step of its own: the    *)
(* database has one connection.  The table outlives the process, the       *)
(* closures that finish a row do not.                                      *)
(*                                                                         *)
(* The actions take from AppLifecycle whether the database answers.  The   *)
(* clock is read and the row inserted in one step, so that rows are in the *)
(* order of their id, of started_at and of created_at.                     *)
(***************************************************************************)
EXTENDS Integers, FiniteSets, Functions

CONSTANTS
    Attempts, \* the executions of jobs, retries included
    Limit     \* JobRunQuery.Limit, the rows of a page

ASSUME AuditAssumption == Limit \in Nat \ {0}

VARIABLES
    rows,    \* job_runs: from the ids that are there to attempt and status
    seq,     \* the last id given out: AUTOINCREMENT
    at,      \* where each attempt is
    run,     \* the id its closures finish, 0 when the INSERT failed
    outcome, \* what its handler ended with
    unsaved, \* (history) the attempts whose row a failed UPDATE left open
    ask,     \* where the reader is: a request at a time
    offset,  \* the offset of its next page
    base,    \* (history) the rows there were when it began to page
    seen,    \* the ids its pages had
    counts,  \* GetStats: what its queries counted
    touched  \* (history) a row was written since GetStats began
table  == <<rows, seq>>
attempt == <<at, run, outcome, unsaved>>
reader == <<ask, offset, base, seen, counts>>
auditVars == <<table, attempt, reader, touched>>

Statuses == {"running", "success", "failure"}
Counted  == {"total"} \cup Statuses
Ids      == DOMAIN rows

AuditInit ==
    /\ rows = [i \in {} |-> [of |-> 0, status |-> "running"]] /\ seq = 0
    /\ at = [a \in Attempts |-> "new"]
    /\ run = [a \in Attempts |-> 0]
    /\ outcome = [a \in Attempts |-> "none"]
    /\ unsaved = {}
    /\ ask = "idle" /\ offset = 0 /\ base = {} /\ seen = {}
    /\ counts = [c \in Counted |-> 0]
    /\ touched = FALSE

-----------------------------------------------------------------------------
(* Logger.Start, the handler, and Logger.complete.                         *)

Touch == touched' = (touched \/ ask \in Counted)

NextIdReused == 1 + Cardinality({i \in 1..seq : \E k \in Ids : k >= i})  \* mutant:
                                              \* no AUTOINCREMENT, the id after the last row
NextId == seq + 1

StartRow(a, answers) ==
    /\ at[a] = "queued"
    /\ at' = [at EXCEPT ![a] = "running"]
    /\ IF answers
       THEN /\ rows' = [i \in Ids \cup {NextId} |->
                           IF i = NextId THEN [of |-> a, status |-> "running"] ELSE rows[i]]
            /\ seq' = NextId
            /\ run' = [run EXCEPT ![a] = NextId]
            /\ Touch
       ELSE UNCHANGED <<table, run, touched>>
    /\ UNCHANGED <<outcome, unsaved, reader>>

HandlerEnds(a, o) ==
    /\ at[a] = "running"
    /\ outcome' = [outcome EXCEPT ![a] = o]
    /\ at' = [at EXCEPT ![a] = IF run[a] = 0 THEN "done" ELSE "ending"]
    /\ UNCHANGED <<table, run, unsaved, reader, touched>>

FinalStatusCancelled(a) ==         \* mutant: a status of types.go that GetStats omits
    IF outcome[a] = "failure" THEN "cancelled" ELSE outcome[a]
FinalStatus(a) == outcome[a]

\* complete: an UPDATE by id, of no row when Cleanup took it.
EndRow(a, answers) ==
    /\ at[a] = "ending"
    /\ at' = [at EXCEPT ![a] = "done"]
    /\ IF answers
       THEN /\ rows' = [i \in Ids |-> IF i = run[a]
                           THEN [rows[i] EXCEPT !.status = FinalStatus(a)] ELSE rows[i]]
            /\ Touch
            /\ UNCHANGED unsaved
       ELSE /\ unsaved' = unsaved \cup {a}
            /\ UNCHANGED <<rows, touched>>
    /\ UNCHANGED <<seq, run, outcome, reader>>

\* Rows older than the retention, running ones included.  Nothing calls it yet.
Cleanup ==
    /\ \E k \in Ids : rows' = Restrict(rows, {i \in Ids : i > k})
    /\ Touch
    /\ UNCHANGED <<seq, attempt, reader>>

-----------------------------------------------------------------------------
(* GET /audit/runs, page after page, and GET /audit/runs/stats.            *)

InFlight == ask \in {"list"} \cup Counted

AskList ==
    /\ ask \in {"idle", "between"}
    /\ ask' = "list"
    /\ base' = IF ask = "idle" THEN Ids ELSE base
    /\ UNCHANGED <<table, attempt, offset, seen, counts, touched>>

PlaceOldestFirst(i) == Cardinality({k \in Ids : k < i})  \* mutant: ORDER BY started_at ASC
Place(i) == Cardinality({k \in Ids : k > i})             \* ORDER BY started_at DESC
Page     == {i \in Ids : Place(i) >= offset /\ Place(i) < offset + Limit}

GetByJobID ==
    /\ ask = "list"
    /\ seen' = seen \cup Page
    /\ offset' = offset + Limit
    /\ ask' = IF Cardinality(Page) < Limit THEN "listed" ELSE "between"
    /\ UNCHANGED <<table, attempt, base, counts, touched>>

AskStats ==
    /\ ask = "idle"
    /\ ask' = "total"
    /\ touched' = FALSE
    /\ UNCHANGED <<table, attempt, offset, base, seen, counts>>

\* The four counts of GetStats, each a query.
Count(c) == Cardinality({i \in Ids : c = "total" \/ rows[i].status = c})
After    == [total |-> "success", success |-> "failure", failure |-> "running", running |-> "stats"]
GetStats ==
    /\ ask \in Counted
    /\ counts' = [counts EXCEPT ![ask] = Count(ask)]
    /\ ask' = After[ask]
    /\ UNCHANGED <<table, attempt, offset, base, seen, touched>>

\* A query fails, or the client of the API gives up.
GiveUp(how) ==
    /\ ask' = how
    /\ offset' = 0 /\ base' = {} /\ seen' = {}
    /\ counts' = [c \in Counted |-> 0]
    /\ touched' = FALSE
AskFails(how) ==
    /\ InFlight \/ ask = "between"
    /\ GiveUp(how)
    /\ UNCHANGED <<table, attempt>>

\* The process ends: what it had in memory is gone, the table is not.
Forget ==
    /\ at' = [a \in Attempts |->
                CASE at[a] \in {"running", "ending"} -> "dead"
                  [] at[a] = "queued" -> "lost"
                  [] OTHER -> at[a]]
    /\ IF InFlight \/ ask = "between" THEN GiveUp("failed") ELSE UNCHANGED <<reader, touched>>
    /\ UNCHANGED <<table, run, unsaved>>

-----------------------------------------------------------------------------
(* Properties of the log.                                                  *)

AuditTypeOK ==
    /\ seq \in Nat /\ Ids \subseteq 1..seq
    /\ \A i \in Ids : rows[i] \in [of : Attempts, status : Statuses]
    /\ at \in [Attempts -> {"new", "queued", "running", "ending", "done", "dead", "lost"}]
    /\ run \in [Attempts -> 0..seq]
    /\ outcome \in [Attempts -> {"none", "success", "failure", "panic"}]
    /\ unsaved \subseteq Attempts
    /\ ask \in {"idle", "list", "between", "listed", "stats", "failed", "closed"} \cup Counted
    /\ counts \in [Counted -> Nat]

\* A row tells how its own attempt ended, and a row that says running belongs to
\* an attempt that runs, died with its process, or could not write its end:
\* across restarts, Cleanup of rows of running attempts, and ids.
Open(a) == at[a] \in {"running", "ending", "dead"} \/ a \in unsaved
RowsTellTheTruth ==
    /\ \A i, k \in Ids : rows[i].of = rows[k].of => i = k
    /\ \A i \in Ids : LET a == rows[i].of IN
        /\ run[a] = i
        /\ IF rows[i].status = "running" THEN Open(a)
           ELSE at[a] = "done" /\ rows[i].status = outcome[a]

\* Who reads the list page by page, newest first, sees every row that was there
\* at the first request and is still there at the last, whatever starts meanwhile.
PagesMissNothing == ask = "listed" => base \cap Ids \subseteq seen

\* The counts of GetStats add up when no row is written while it asks.
StatsAddUp ==
    ask = "stats" /\ ~touched =>
        counts["total"] = counts["success"] + counts["failure"] + counts["running"]
=============================================================================
