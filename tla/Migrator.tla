------------------------------ MODULE Migrator ------------------------------
(***************************************************************************)
(* The SQLite migrator of internal/migrate/migrate.go.  The server runs Up *)
(* at start-up (sqlite.go: RunMigrations) and cmd/migrate runs Up, Down,   *)
(* Reset and ForceVersion as processes of their own, so commands overlap.  *)
(*                                                                         *)
(* Each statement on the database is a step; applyMigration is one, being  *)
(* a transaction.  A statement may fail (a busy database, an SQL error)    *)
(* and a process may end between any two: both end the command there.      *)
(* The migrations create with IF NOT EXISTS and drop with IF EXISTS.       *)
(***************************************************************************)
EXTENDS Integers, FiniteSets

CONSTANTS
    Procs,   \* processes that run Up: servers starting, and cmd/migrate
    Tools,   \* those of them that are cmd/migrate and run the other commands
    Files    \* the up migrations of the directory

\* place is a file's place in the directory, version the NNN part of its name
\* alone, and down says whether a file of the other direction exists.
ASSUME FilesAssumption ==
    /\ Tools \subseteq Procs
    /\ IsFiniteSet(Files)
    /\ Files \subseteq [place : Nat, version : Nat, down : BOOLEAN]
    /\ \A f, g \in Files : f.place = g.place => f = g

Versions == {f.version : f \in Files}

VARIABLES
    tracking,  \* the table schema_migrations exists
    recorded,  \* the versions in it
    tables,    \* the files whose tables exist
    pc,        \* where each process is, and how its last command ended
    todo,      \* the files it has still to apply, look at or drop
    snap,      \* the versions Up found recorded when it began
    target,    \* the version Down rolls back (latestVersion, 0 for none)
    alone,     \* (history) no two commands but Ups have overlapped
    whole      \* (history) no Reset was cut short and no version was forced
vars == <<tracking, recorded, tables, pc, todo, snap, target, alone, whole>>
schema == <<tracking, recorded, tables>>

Ends == {"idle", "ok", "failed"}
Pcs  == Ends \cup {"upList", "up", "down", "downRun", "reset"}

Active(p) == pc[p] \notin Ends

Init ==
    /\ tracking = FALSE
    /\ recorded = {}
    /\ tables = {}
    /\ pc = [p \in Procs |-> "idle"]
    /\ todo = [p \in Procs |-> {}]
    /\ snap = [p \in Procs |-> {}]
    /\ target = [p \in Procs |-> 0]
    /\ alone = TRUE
    /\ whole = TRUE

-----------------------------------------------------------------------------
Goto(p, where) == pc' = [pc EXCEPT ![p] = where]

\* The command is over, and its local variables with it.
Ended(p, how) ==
    /\ Goto(p, how)
    /\ todo' = [todo EXCEPT ![p] = {}]
    /\ snap' = [snap EXCEPT ![p] = {}]
    /\ target' = [target EXCEPT ![p] = 0]

Upward == {p \in Procs : pc[p] \in {"upList", "up"}}

\* A new command of a process: only the Ups in others may be under way with it.
Begins(p, others) ==
    /\ ~Active(p)
    /\ alone' = (alone /\ \A q \in Procs : Active(q) => q \in others)

\* The command ends with an error, or its process ends.
Fail(p) ==
    /\ Active(p)
    /\ Ended(p, "failed")
    /\ whole' = (whole /\ pc[p] # "reset")
    /\ UNCHANGED <<schema, alone>>

FirstAny(files) == files                              \* mutant: not sorted
First(files) == {f \in files : \A g \in files : f.version <= g.version}
Last(files)  == {f \in files : \A g \in files : f.version >= g.version}

-----------------------------------------------------------------------------
(* Up.                                                                     *)

\* Up and Down begin with ensureSchemaMigrations.
UpEnsure(p) ==
    /\ Begins(p, Upward)
    /\ tracking' = TRUE
    /\ Goto(p, "upList")
    /\ UNCHANGED <<recorded, tables, todo, snap, target, whole>>

\* getAppliedVersions, then readMigrations.
UpList(p) ==
    /\ pc[p] = "upList" /\ tracking
    /\ snap' = [snap EXCEPT ![p] = recorded]
    /\ todo' = [todo EXCEPT ![p] = Files]
    /\ Goto(p, "up")
    /\ UNCHANGED <<schema, target, alone, whole>>

SkippableOnError(p, f) == TRUE               \* mutant: an error skips the file
Skippable(p, f) == f.version \in snap[p]

UpSkip(p, f) ==
    /\ pc[p] = "up" /\ Skippable(p, f)
    /\ todo' = [todo EXCEPT ![p] = @ \ {f}]
    /\ UNCHANGED <<schema, pc, snap, target, alone, whole>>

Inserts(v) == tracking /\ v \notin recorded

\* applyMigration upwards: the SQL and the INSERT commit together, and the
\* primary key refuses a version another process recorded since snap.
UpApply(p, f) ==
    /\ pc[p] = "up" /\ f.version \notin snap[p] /\ Inserts(f.version)
    /\ tables' = tables \cup {f}
    /\ recorded' = recorded \cup {f.version}
    /\ todo' = [todo EXCEPT ![p] = @ \ {f}]
    /\ UNCHANGED <<tracking, pc, snap, target, alone, whole>>

UpEnd(p) ==
    /\ pc[p] = "up" /\ todo[p] = {}
    /\ Ended(p, "ok")
    /\ UNCHANGED <<schema, alone, whole>>

UpStep(p) ==
    \/ UpEnsure(p) \/ UpList(p) \/ UpEnd(p)
    \/ \E f \in First(todo[p]) : UpSkip(p, f) \/ UpApply(p, f)

-----------------------------------------------------------------------------
(* Down.                                                                   *)

DownEnsure(p) ==
    /\ Begins(p, {})
    /\ tracking' = TRUE
    /\ todo' = [todo EXCEPT ![p] = Files]
    /\ Goto(p, "down")
    /\ UNCHANGED <<recorded, tables, snap, target, whole>>

\* The loop from the highest version down: one query for each version that has
\* a down file, until one is recorded.
DownPass(p, f) ==
    /\ pc[p] = "down"
    /\ ~f.down \/ (tracking /\ f.version \notin recorded)
    /\ todo' = [todo EXCEPT ![p] = @ \ {f}]
    /\ UNCHANGED <<schema, pc, snap, target, alone, whole>>

DownPick(p, f) ==
    /\ pc[p] = "down" /\ f.down /\ tracking /\ f.version \in recorded
    /\ target' = [target EXCEPT ![p] = f.version]
    /\ Goto(p, "downRun")
    /\ UNCHANGED <<schema, todo, snap, alone, whole>>

\* findDownMigration takes the first down file of the version; the DELETE
\* does not mind that another process has removed the row.
DownFile(v) == CHOOSE f \in Files :
    /\ f.version = v /\ f.down
    /\ \A g \in Files : g.version = v /\ g.down => f.place <= g.place

UnrecordedLate(v) == recorded                     \* mutant: the row stays
Unrecorded(v) == recorded \ {v}

DownRun(p) ==
    /\ pc[p] = "downRun" /\ target[p] # 0 /\ tracking
    /\ tables' = tables \ {DownFile(target[p])}
    /\ recorded' = Unrecorded(target[p])
    /\ Ended(p, "ok")
    /\ UNCHANGED <<tracking, alone, whole>>

DownStep(p) ==
    \/ DownEnsure(p) \/ DownRun(p)
    \/ \E f \in Last(todo[p]) : DownPass(p, f) \/ DownPick(p, f)

-----------------------------------------------------------------------------
(* Reset and ForceVersion.                                                 *)

ResetList(p) ==
    /\ Begins(p, {})
    /\ todo' = [todo EXCEPT ![p] = tables]
    /\ Goto(p, "reset")
    /\ UNCHANGED <<schema, snap, target, whole>>

\* One DROP TABLE for each table that was listed, in no transaction.
ResetDrop(p, t) ==
    /\ pc[p] = "reset" /\ t \in todo[p]
    /\ tables' = tables \ {t}
    /\ todo' = [todo EXCEPT ![p] = @ \ {t}]
    /\ UNCHANGED <<tracking, recorded, pc, snap, target, alone, whole>>

\* schema_migrations goes last.
ResetEnd(p) ==
    /\ pc[p] = "reset" /\ todo[p] = {}
    /\ tracking' = FALSE
    /\ recorded' = {}
    /\ Ended(p, "ok")
    /\ alone' = (~ \E q \in Procs \ {p} : Active(q))
    /\ whole' = TRUE
    /\ UNCHANGED tables

ResetStep(p) == ResetList(p) \/ ResetEnd(p) \/ \E t \in todo[p] : ResetDrop(p, t)

\* A row without its SQL.
ForceVersion(p, v) ==
    /\ Begins(p, {}) /\ tracking
    /\ recorded' = recorded \cup {v}
    /\ Goto(p, "ok")
    /\ whole' = FALSE
    /\ UNCHANGED <<tracking, tables, todo, snap, target>>

Next ==
    \/ \E p \in Procs : Fail(p) \/ UpStep(p)
    \/ \E p \in Tools :
        DownStep(p) \/ ResetStep(p) \/ \E v \in Versions : ForceVersion(p, v)

Spec == Init /\ [][Next]_vars

-----------------------------------------------------------------------------
(* Properties.                                                             *)

\* Every variable has its type, and rows need the table they are in.
TypeOK ==
    /\ tracking \in BOOLEAN
    /\ recorded \subseteq Versions
    /\ tables \subseteq Files
    /\ pc \in [Procs -> Pcs]
    /\ todo \in [Procs -> SUBSET Files]
    /\ snap \in [Procs -> SUBSET Versions]
    /\ target \in [Procs -> Versions \cup {0}]
    /\ alone \in BOOLEAN /\ whole \in BOOLEAN
    /\ recorded # {} => tracking

\* A recorded migration has its tables, however the commands of the server and
\* of cmd/migrate overlap, fail or die; but for a Reset on its way or cut
\* short, and a forced version.
RecordedHasTables ==
    whole /\ (\A p \in Procs : pc[p] # "reset") =>
        \A v \in recorded : \E f \in tables : f.version = v

\* The schema is in order: types, and tables for what is recorded.
SchemaIsConsistent == TypeOK /\ RecordedHasTables

\* The recorded versions have no hole: a version is applied after, and rolled
\* back before, every lower one, also when Ups overlap or fail half-way.
NoHoles ==
    alone /\ whole =>
        \A v \in recorded, w \in Versions : w < v => w \in recorded

\* An Up that returns without an error has applied every file of the directory
\* or found it applied, also when another Up (a server starting, cmd/migrate)
\* runs at the same time.
UpCompletes ==
    [][\A p \in Procs :
        pc[p] = "up" /\ pc'[p] = "ok" /\ alone /\ whole =>
            recorded = Versions /\ tables = Files]_vars
=============================================================================
