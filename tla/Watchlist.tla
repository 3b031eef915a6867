------------------------------ MODULE Watchlist -----------------------------
(***************************************************************************)
(* Watchlists: internal/repository/watchlist.go behind the handlers of     *)
(* internal/handlers/watchlist.go.                                         *)
(*                                                                         *)
(* SQLite is opened with one connection: a statement waits until no        *)
(* transaction holds it, and between two statements of a request without a *)
(* transaction any other request may come in.  Only Create uses one.  A    *)
(* statement may fail: the client went away and its context is done, or    *)
(* the database reports an error.  The foreign keys of migration 008 are   *)
(* declared and not enforced: nothing sets PRAGMA foreign_keys.            *)
(* Names, notes and positions are left out.                                *)
(***************************************************************************)
EXTENDS Sequences, SequencesExt

CONSTANTS
    Requests,   \* the HTTP requests
    Ids, Symbols, Owners,
    MaxSymbols, \* bound: the symbols a list is created with
    NoList, NoCall, Nobody

ASSUME WatchlistAssumption ==
    /\ MaxSymbols \in Nat
    /\ NoList \notin [owner : Owners, public : BOOLEAN]
    /\ Nobody \notin Requests

VARIABLES
    lists,   \* table watchlists: the list of an id, or NoList
    symbols, \* table watchlist_symbols: pairs of an id and a symbol
    conn,    \* the request whose transaction holds the connection, or Nobody
    tx,      \* the tables as that transaction sees them, and its next symbol
    call,    \* what each request asks for
    at,      \* the statement it comes to next
    changed, \* it has changed the tables
    answer,  \* what it was answered
    view     \* the lists and the symbols it read
store == <<lists, symbols>>
vars  == <<store, conn, tx, call, at, changed, answer, view>>

\* What the requests ask for, with the names of the abstract store.
Contents == SeqOf(Symbols, MaxSymbols)

\* The symbols that belong to a list.  The others are left over from one that
\* was deleted, or were added where there is none.
ListedSymbols == {r \in symbols : lists[r[1]] # NoList}
W == INSTANCE WatchlistStore WITH symbols <- ListedSymbols

ASSUME CallAssumption == NoCall \notin W!Calls

NothingRead == [lists |-> {}, symbols |-> {}]
NoTx == [lists |-> [i \in Ids |-> NoList], symbols |-> {}, next |-> 1]

Init ==
    /\ lists \in [Ids -> W!Watchlists \cup {NoList}]
    /\ symbols \in SUBSET (Ids \X Symbols)
    /\ conn = Nobody /\ tx = NoTx
    /\ call = [p \in Requests |-> NoCall]
    /\ at = [p \in Requests |-> "idle"]
    /\ changed = [p \in Requests |-> FALSE]
    /\ answer = [p \in Requests |-> "none"]
    /\ view = [p \in Requests |-> NothingRead]

Goto(p, there) == at' = [at EXCEPT ![p] = there]
Respond(p, a) ==
    /\ Goto(p, "done")
    /\ answer' = [answer EXCEPT ![p] = a]
Changed(p) == changed' = [changed EXCEPT ![p] = TRUE]
Show(p, ls, ss) == view' = [view EXCEPT ![p] = [lists |-> ls, symbols |-> ss]]

\* The statement at which the handler's call of the repository starts.
First(c) ==
    CASE c \in W!Creates -> "begin"
      [] c \in W!Deletes \cup W!Changes -> "exec"
      [] c \in W!Updates -> IF c.public = "same" THEN "read" ELSE "exec"
      [] c \in W!Reads -> IF c.op = "symbols" THEN "symbols" ELSE "read"
      [] OTHER -> "select"

Ask(p) ==
    /\ at[p] = "idle"
    /\ \E c \in W!Calls :
          /\ call' = [call EXCEPT ![p] = c]
          /\ Goto(p, First(c))
    /\ UNCHANGED <<store, conn, tx, changed, answer, view>>

\* A statement outside a transaction, when its turn has come.
Statement(p, here) == at[p] = here /\ conn = Nobody

-----------------------------------------------------------------------------
(* Create: a transaction.                                                  *)

Begin(p) ==
    /\ Statement(p, "begin")
    /\ conn' = p
    /\ tx' = [lists |-> lists, symbols |-> symbols, next |-> 1]
    /\ Goto(p, "insert")
    /\ UNCHANGED <<store, call, changed, answer, view>>

InsertList(p) ==
    /\ at[p] = "insert" /\ tx.lists[call[p].id] = NoList
    /\ tx' = [tx EXCEPT !.lists[call[p].id] = call[p].list]
    /\ Goto(p, "insertSymbols")
    /\ UNCHANGED <<store, conn, call, changed, answer, view>>

\* The row of the next symbol, <<id, symbol>>; no row with this key may exist.
Row(p) == <<call[p].id, call[p].symbols[tx.next]>>
Inserting(p) == at[p] = "insertSymbols" /\ tx.next <= Len(call[p].symbols)

InsertSymbol(p) ==
    /\ Inserting(p) /\ Row(p) \notin tx.symbols
    /\ tx' = [tx EXCEPT !.symbols = @ \cup {Row(p)}, !.next = @ + 1]
    /\ UNCHANGED <<store, conn, call, at, changed, answer, view>>

Duplicate(p) ==
    \/ at[p] = "insert" /\ tx.lists[call[p].id] # NoList
    \/ Inserting(p) /\ Row(p) \in tx.symbols

InTx(p) == at[p] \in {"insert", "insertSymbols"}

Commit(p) ==
    /\ at[p] = "insertSymbols" /\ tx.next > Len(call[p].symbols)
    /\ lists' = tx.lists /\ symbols' = tx.symbols
    /\ conn' = Nobody /\ tx' = NoTx
    /\ Changed(p) /\ Respond(p, "ok")
    /\ UNCHANGED <<call, view>>

\* The deferred Rollback runs on every return.
UndoneNever == UNCHANGED <<store, conn, tx>>  \* mutant: no deferred Rollback
UndoneKept ==                                 \* mutant: Commit is what is deferred
    /\ lists' = tx.lists /\ symbols' = tx.symbols
    /\ conn' = Nobody /\ tx' = NoTx
Undone == conn' = Nobody /\ tx' = NoTx /\ UNCHANGED store

CreateFails(p) ==
    /\ InTx(p)
    /\ Undone
    /\ Respond(p, "error")
    /\ UNCHANGED <<call, changed, view>>

-----------------------------------------------------------------------------
(* The other calls: statements of their own.                               *)

UpdateRowUpsert(c) ==  \* mutant: INSERT OR REPLACE instead of UPDATE
    /\ lists' = [lists EXCEPT ![c.id] = [public |-> c.public = "yes"]]
    /\ UNCHANGED symbols
UpdateRow(c) ==
    /\ lists' = [lists EXCEPT ![c.id] = IF @ = NoList THEN NoList
                              ELSE [@ EXCEPT !.public = (c.public = "yes")]]
    /\ UNCHANGED symbols

Update(p) ==
    /\ Statement(p, "exec") /\ call[p] \in W!Updates
    /\ UpdateRow(call[p])
    /\ Changed(p) /\ Goto(p, "read")
    /\ UNCHANGED <<conn, tx, call, answer, view>>

\* The cascade to watchlist_symbols is declared only.
Delete(p) ==
    /\ Statement(p, "exec") /\ call[p] \in W!Deletes
    /\ lists' = [lists EXCEPT ![call[p].id] = NoList]
    /\ Changed(p) /\ Respond(p, "ok")
    /\ UNCHANGED <<symbols, conn, tx, call, view>>

AddSymbol(p) ==
    /\ Statement(p, "exec") /\ call[p].op = "add"
    /\ symbols' = symbols \cup {<<call[p].id, call[p].symbol>>}
    /\ Changed(p) /\ Goto(p, "touch")
    /\ UNCHANGED <<lists, conn, tx, call, answer, view>>

RemoveSymbol(p) ==
    /\ Statement(p, "exec") /\ call[p].op = "remove"
    /\ symbols' = symbols \ {<<call[p].id, call[p].symbol>>}
    /\ Changed(p) /\ Goto(p, "touch")
    /\ UNCHANGED <<lists, conn, tx, call, answer, view>>

\* updated_at of the list, when there is one.
Touch(p) ==
    /\ Statement(p, "touch")
    /\ Respond(p, "ok")
    /\ UNCHANGED <<store, conn, tx, call, changed, view>>

SymbolsOf(i) == {s \in Symbols : <<i, s>> \in symbols}

GetByID(p) ==
    /\ Statement(p, "read")
    /\ LET i == call[p].id IN
       IF lists[i] = NoList THEN Respond(p, "notFound") /\ UNCHANGED view
       ELSE /\ Show(p, {i}, {})
            /\ IF call[p].op = "getWithSymbols"
               THEN Goto(p, "symbols") /\ UNCHANGED answer
               ELSE Respond(p, "ok")
    /\ UNCHANGED <<store, conn, tx, call, changed>>

\* Does not ask whether there is a list.
GetSymbols(p) ==
    /\ Statement(p, "symbols")
    /\ Show(p, view[p].lists, SymbolsOf(call[p].id))
    /\ Respond(p, "ok")
    /\ UNCHANGED <<store, conn, tx, call, changed>>

Existing == {i \in Ids : lists[i] # NoList}
Public == {i \in Existing : lists[i].public}

Holding(s) == {i \in Public : <<i, s>> \in symbols}

GetWatchlistsBySymbol(p) ==
    /\ Statement(p, "select") /\ call[p].op = "lookup"
    /\ Show(p, Holding(call[p].symbol), {})
    /\ Respond(p, "ok")
    /\ UNCHANGED <<store, conn, tx, call, changed>>

ListWatchlists(p) ==
    /\ Statement(p, "select") /\ call[p].op \in {"owned", "public"}
    /\ Show(p, IF call[p].op = "public" THEN Public
               ELSE {i \in Existing : lists[i].owner = call[p].owner}, {})
    /\ Respond(p, "ok")
    /\ UNCHANGED <<store, conn, tx, call, changed>>

\* The context is done while the request waits, or the statement fails.
Outside(p) == at[p] \in {"begin", "exec", "touch", "read", "symbols", "select"}
Fails(p) ==
    /\ Outside(p)
    /\ Respond(p, "error")
    /\ UNCHANGED <<store, conn, tx, call, changed, view>>

-----------------------------------------------------------------------------
Create(p) == Begin(p) \/ InsertList(p) \/ InsertSymbol(p) \/ Commit(p)
             \/ (Duplicate(p) /\ CreateFails(p))
Step(p) ==
    \/ Create(p)
    \/ Update(p) \/ Delete(p) \/ AddSymbol(p) \/ RemoveSymbol(p) \/ Touch(p)
    \/ GetByID(p) \/ GetSymbols(p) \/ GetWatchlistsBySymbol(p) \/ ListWatchlists(p)

Next == \E p \in Requests : Ask(p) \/ Step(p) \/ CreateFails(p) \/ Fails(p)

\* The pool gives the connection to one who waits; a statement ends.
Fairness == \A p \in Requests : WF_vars(Step(p))

Spec == Init /\ [][Next]_vars /\ Fairness
-----------------------------------------------------------------------------
(* Properties.                                                             *)

Places == {"idle", "begin", "insert", "insertSymbols", "exec", "touch",
           "read", "symbols", "select", "done"}

\* Types of the variables.
TypeOK ==
    /\ lists \in [Ids -> W!Watchlists \cup {NoList}]
    /\ symbols \subseteq Ids \X Symbols
    /\ conn \in Requests \cup {Nobody}
    /\ tx \in [lists : [Ids -> W!Watchlists \cup {NoList}],
              symbols : SUBSET (Ids \X Symbols), next : 1 .. MaxSymbols + 1]
    /\ call \in [Requests -> W!Calls \cup {NoCall}]
    /\ at \in [Requests -> Places]
    /\ changed \in [Requests -> BOOLEAN]
    /\ answer \in [Requests -> {"none", "ok", "notFound", "error"}]
    /\ view \in [Requests -> [lists : SUBSET Ids, symbols : SUBSET Symbols]]

\* The one connection of the database is held by a request exactly while it is
\* inside the transaction of Create, and the tables do not change meanwhile: a
\* transaction left open on some return of Create would stop every other
\* statement of the process until the context of its request ends.
ConnectionIsHeldByCreate ==
    /\ \A p \in Requests : conn = p <=> InTx(p)
    /\ \A p \in Requests : InTx(p) =>
          LET made == {<<call[p].id, call[p].symbols[n]>> : n \in 1 .. tx.next - 1} IN
          /\ tx.symbols = symbols \cup made
          /\ lists[call[p].id] = NoList \/ tx.lists = lists

\* The tables and their connection are in order.
TablesAreInOrder == TypeOK /\ ConnectionIsHeldByCreate

\* Looking a symbol up (GetWatchlistsBySymbol) and the public listing never
\* show a private list nor one that does not exist, although symbols of deleted
\* lists stay in their table.
LookupsShowPublicLists ==
    [][\A p \in Requests : at'[p] = "done" /\ at[p] = "select" /\ answer'[p] = "ok"
          => \A i \in view'[p].lists :
                /\ lists[i] # NoList
                /\ call[p].op # "owned" => lists[i].public]_vars

\* The fault of a delete that leaves the symbols in their table: a list that is
\* created with the id of a deleted one takes over the symbols left there.
TakesLeftovers(p) == Commit(p) /\ SymbolsOf(call[p].id) # {}

\* Each request takes effect at one instant or not at all, a failed create
\* leaves nothing, and a deleted list loses its symbols: the promises of
\* WatchlistStore for the symbols of the lists that exist, whatever fails in
\* between.  The one step that breaks them is a create that meets leftovers.
KeepsPromises == W!Init /\ [][W!Next \/ \E p \in Requests : TakesLeftovers(p)]_(W!vars)

\* The promise of the comment at Delete ("deletes a watchlist and its symbols")
\* and of the ON DELETE CASCADE of migration 008, without that exception.  The
\* code does not keep it, and no run uses it.
DeletedSymbolsStayAway == W!Spec

\* ... and what it shows is what may be shown.
ListsKeepPromises == KeepsPromises /\ LookupsShowPublicLists

\* A request that has been read is answered (every handler responds on every
\* path, and Create's deferred Rollback gives the connection back).
RequestsAreAnswered ==
    \A p \in Requests : at[p] # "idle" ~> at[p] = "done"
=============================================================================
