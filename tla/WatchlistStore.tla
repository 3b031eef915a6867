--------------------------- MODULE WatchlistStore ---------------------------
(***************************************************************************)
(* What the watchlist API promises its callers, without connection,        *)
(* transactions or statements: a call changes the two tables at one        *)
(* instant, at most once and before its answer; what fails in the middle   *)
(* leaves all of it or nothing.  An answer "ok" means the change is made;  *)
(* an error means that it is not when a list is created or deleted, and    *)
(* may hide a change that was made for the other calls.  Symbols belong to *)
(* a list: "Delete deletes a watchlist and its symbols", and what is added *)
(* where there is no list is not kept.                                     *)
(***************************************************************************)
EXTENDS Sequences

CONSTANTS Requests, Ids, Symbols, Owners, NoList, NoCall, Contents

VARIABLES lists, symbols, call, changed, answer
store == <<lists, symbols>>
vars  == <<store, call, changed, answer>>

Watchlists == [owner : Owners, public : BOOLEAN]

\* Calls that may change the tables, and calls that only read them.
Creates == [op : {"create"}, id : Ids, list : Watchlists, symbols : Contents]
Updates == [op : {"update"}, id : Ids, public : {"same", "yes", "no"}]
Deletes == [op : {"delete"}, id : Ids]
Changes == [op : {"add", "remove"}, id : Ids, symbol : Symbols]
Reads   == [op : {"get", "getWithSymbols", "symbols"}, id : Ids]
Lookups == [op : {"lookup"}, symbol : Symbols]
Lists   == [op : {"owned"}, owner : Owners] \cup [op : {"public"}]
Writers == Creates \cup Updates \cup Deletes \cup Changes
Calls   == Writers \cup Reads \cup Lookups \cup Lists

Elements(s) == {s[n] : n \in DOMAIN s}

\* A call that has to have changed the tables before it answers "ok".
MustChange(c) ==
    \/ c \in Creates \cup Deletes \cup Changes
    \/ c \in Updates /\ c.public # "same"

Put(i, w) == lists' = [lists EXCEPT ![i] = w]

RowsOf(i) == {r \in symbols : r[1] = i}

Effect(c) ==
    \/ /\ c \in Creates /\ lists[c.id] = NoList
       /\ Put(c.id, c.list)
       /\ symbols' = symbols \cup {<<c.id, s>> : s \in Elements(c.symbols)}
    \/ /\ c \in Updates /\ c.public # "same"
       /\ IF lists[c.id] = NoList THEN UNCHANGED lists
          ELSE Put(c.id, [lists[c.id] EXCEPT !.public = (c.public = "yes")])
       /\ UNCHANGED symbols
    \/ c \in Deletes /\ Put(c.id, NoList) /\ symbols' = symbols \ RowsOf(c.id)
    \/ /\ c \in Changes
       /\ symbols' = IF c.op = "remove" THEN symbols \ {<<c.id, c.symbol>>}
                     ELSE IF lists[c.id] = NoList THEN symbols
                     ELSE symbols \cup {<<c.id, c.symbol>>}
       /\ UNCHANGED lists

Init ==
    /\ lists \in [Ids -> Watchlists \cup {NoList}]
    /\ symbols \in SUBSET ({i \in Ids : lists[i] # NoList} \X Symbols)
    /\ call = [p \in Requests |-> NoCall]
    /\ changed = [p \in Requests |-> FALSE]
    /\ answer = [p \in Requests |-> "none"]

Ask(p) ==
    /\ call[p] = NoCall
    /\ \E c \in Calls : call' = [call EXCEPT ![p] = c]
    /\ UNCHANGED <<store, changed, answer>>

\* Creating or deleting a list and answering "ok" are one instant.
Change(p) ==
    /\ call[p] # NoCall /\ ~changed[p] /\ answer[p] = "none"
    /\ Effect(call[p])
    /\ changed' = [changed EXCEPT ![p] = TRUE]
    /\ answer' = [answer EXCEPT ![p] = IF call[p] \in Creates \cup Deletes THEN "ok" ELSE @]
    /\ UNCHANGED call

Answer(p) ==
    /\ call[p] # NoCall /\ answer[p] = "none"
    /\ \E a \in {"ok", "notFound", "error"} :
          /\ (a = "ok" /\ MustChange(call[p])) => changed[p]
          /\ answer' = [answer EXCEPT ![p] = a]
    /\ UNCHANGED <<store, call, changed>>

Next == \E p \in Requests : Ask(p) \/ Change(p) \/ Answer(p)

Spec == Init /\ [][Next]_vars
=============================================================================
