--------------------------- MODULE WatchlistProofs ---------------------------
(***************************************************************************)
(* Proofs about the watchlists, for every set of requests, ids, symbols    *)
(* and owners: the tables are in order, and the statements of the          *)
(* repository implement the store of WatchlistStore, whose calls take      *)
(* effect at one instant, but for a create that takes over the symbols of  *)
(* a deleted list.                                                         *)
(*                                                                         *)
(* The inductive invariant says what a transaction of Create has done so   *)
(* far, and that the tables stay under it as they were when it began; and  *)
(* for every other request which call may be at which statement, and       *)
(* whether it has changed the tables there.                                *)
(***************************************************************************)
EXTENDS Watchlist, TLAPS

\* The rows that the transaction of p has inserted.
Made(p) == {<<call[p].id, call[p].symbols[n]>> : n \in 1 .. tx.next - 1}

TxFits ==
    /\ \A p \in Requests : conn = p <=> InTx(p)
    /\ \A p \in Requests :
        /\ at[p] = "insert" =>
            tx = [lists |-> lists, symbols |-> symbols, next |-> 1]
        /\ at[p] = "insertSymbols" =>
            /\ lists[call[p].id] = NoList
            /\ tx.lists = [lists EXCEPT ![call[p].id] = call[p].list]
            /\ tx.symbols = symbols \cup Made(p)
            /\ tx.next \in 1 .. Len(call[p].symbols) + 1
            /\ Made(p) \cap symbols = {}

\* Which call may be where, and what it has done there.
CallsFit ==
    \A p \in Requests :
        /\ at[p] = "idle" <=> call[p] = NoCall
        /\ at[p] = "idle" => ~changed[p]
        /\ answer[p] = "none" <=> at[p] # "done"
        /\ at[p] \in {"begin", "insert", "insertSymbols"} => call[p] \in W!Creates /\ ~changed[p]
        /\ at[p] = "exec" => call[p] \in W!Writers \ W!Creates /\ W!MustChange(call[p]) /\ ~changed[p]
        /\ at[p] = "touch" => call[p] \in W!Changes /\ changed[p]
        /\ at[p] = "read" =>
            \/ call[p] \in W!Updates /\ (W!MustChange(call[p]) => changed[p])
            \/ call[p] \in W!Reads
        /\ at[p] = "symbols" => call[p] \in W!Reads
        /\ at[p] = "select" => call[p] \in W!Lookups \cup W!Lists

IInv == TypeOK /\ TxFits /\ CallsFit

\* Calls of different kinds are different.
LEMMA Kinds ==
    /\ \A c \in W!Creates : c.op = "create" /\ c.id \in Ids /\ c.list \in W!Watchlists
                            /\ c.symbols \in Contents
    /\ \A c \in W!Updates : c.op = "update" /\ c.id \in Ids
    /\ \A c \in W!Deletes : c.op = "delete" /\ c.id \in Ids
    /\ \A c \in W!Changes : c.op \in {"add", "remove"} /\ c.id \in Ids /\ c.symbol \in Symbols
    /\ \A c \in W!Reads : c.op \in {"get", "getWithSymbols", "symbols"} /\ c.id \in Ids
    /\ \A c \in W!Lookups : c.op = "lookup" /\ c.symbol \in Symbols
    /\ \A c \in W!Lists : c.op \in {"owned", "public"}
BY DEF W!Creates, W!Updates, W!Deletes, W!Changes, W!Reads, W!Lookups, W!Lists

LEMMA ContentsAreShort ==
    ASSUME NEW s \in Contents
    PROVE  /\ Len(s) \in 0 .. MaxSymbols /\ DOMAIN s = 1 .. Len(s)
           /\ \A n \in 1 .. Len(s) : s[n] \in Symbols
<1>1. PICK m \in 0 .. MaxSymbols : s \in [1 .. m -> Symbols]
    BY DEF Contents, SeqOf
<1>2. s \in Seq(Symbols) /\ Len(s) = m
    BY <1>1, WatchlistAssumption
<1> QED
    BY <1>1, <1>2

-----------------------------------------------------------------------------
LEMMA InitIInv == Init => IInv
BY WatchlistAssumption
DEF Init, IInv, TypeOK, TxFits, CallsFit, NoTx, NothingRead, InTx, Places

LEMMA AskKeeps == ASSUME IInv, NEW p \in Requests, Ask(p) PROVE IInv'
<1> USE DEF IInv
<1>1. PICK c \in W!Calls : call' = [call EXCEPT ![p] = c] /\ Goto(p, First(c))
    BY DEF Ask
<1>2. c # NoCall
    BY CallAssumption
<1>3. /\ First(c) \in {"begin", "exec", "read", "symbols", "select"}
      /\ First(c) = "begin" => c \in W!Creates
      /\ First(c) = "exec" => c \in W!Writers \ W!Creates /\ W!MustChange(c)
      /\ First(c) = "read" => c \in W!Reads \/ (c \in W!Updates /\ ~W!MustChange(c))
      /\ First(c) = "symbols" => c \in W!Reads
      /\ First(c) = "select" => c \in W!Lookups \cup W!Lists
    BY Kinds DEF First, W!Calls, W!Writers, W!MustChange
<1>4. UNCHANGED <<lists, symbols, conn, tx, changed, answer, view>>
    BY DEF Ask, store
<1>5. /\ at' = [at EXCEPT ![p] = First(c)] /\ at[p] = "idle"
      /\ \A q \in Requests : q # p => at'[q] = at[q] /\ call'[q] = call[q]
      /\ at'[p] = First(c) /\ call'[p] = c
    BY <1>1 DEF Ask, Goto, TypeOK
<1>6. TypeOK'
    BY <1>1, <1>3, <1>4, <1>5 DEF TypeOK, Places
<1>7. \A q \in Requests : InTx(q)' <=> InTx(q)
    BY <1>3, <1>5 DEF InTx
<1>8. \A q \in Requests : q # p => Made(q)' = Made(q)
    BY <1>4, <1>5 DEF Made
<1>9. TxFits'
    BY <1>3, <1>4, <1>5, <1>7, <1>8 DEF TxFits
<1>10. CallsFit'
    BY <1>2, <1>3, <1>4, <1>5 DEF CallsFit
<1> QED
    BY <1>6, <1>9, <1>10

\* A step of p is no step of the others, and leaves the connection, the
\* transaction and the tables alone.
Quiet(p) ==
    /\ UNCHANGED <<store, conn, tx, call>>
    /\ \E there \in Places \ {"insert", "insertSymbols"} : Goto(p, there)
    /\ at[p] \notin {"insert", "insertSymbols"}

LEMMA QuietKeepsTx == ASSUME IInv, NEW p \in Requests, Quiet(p) PROVE TxFits'
<1>1. UNCHANGED <<lists, symbols, conn, tx, call>>
    BY DEF Quiet, store
<1>2. \A q \in Requests : InTx(q)' <=> InTx(q)
    BY DEF IInv, TypeOK, Quiet, Goto, InTx
<1>3. \A q \in Requests : InTx(q) => at'[q] = at[q]
    BY DEF IInv, TypeOK, Quiet, Goto, InTx
<1>4. \A q \in Requests : Made(q)' = Made(q)
    BY <1>1 DEF Made
<1> QED
    BY <1>1, <1>2, <1>3, <1>4 DEF IInv, TxFits, InTx

-----------------------------------------------------------------------------
(* Create.                                                                 *)

LEMMA BeginKeeps == ASSUME IInv, NEW p \in Requests, Begin(p) PROVE IInv'
<1> USE DEF IInv
<1>1. /\ UNCHANGED <<lists, symbols, call, changed, answer, view>>
      /\ conn = Nobody /\ conn' = p
      /\ tx' = [lists |-> lists, symbols |-> symbols, next |-> 1]
    BY DEF Begin, Statement, store
<1>2. /\ at' = [at EXCEPT ![p] = "insert"] /\ at[p] = "begin"
      /\ \A q \in Requests : q # p => at'[q] = at[q]
      /\ at'[p] = "insert"
    BY DEF Begin, Statement, Goto, TypeOK
<1>3. \A q \in Requests : ~InTx(q)
    BY <1>1, WatchlistAssumption DEF TxFits
<1>4. TypeOK'
    BY <1>1, <1>2, WatchlistAssumption DEF TypeOK, Places
<1>5. TxFits'
    BY <1>1, <1>2, <1>3 DEF TxFits, InTx
<1>6. CallsFit'
    BY <1>1, <1>2 DEF CallsFit
<1> QED
    BY <1>4, <1>5, <1>6

\* Only one request is in a transaction.
LEMMA OneInTx ==
    ASSUME IInv, NEW p \in Requests, InTx(p)
    PROVE  conn = p /\ \A q \in Requests : q # p => ~InTx(q)
BY DEF IInv, TxFits

LEMMA InsertListKeeps == ASSUME IInv, NEW p \in Requests, InsertList(p) PROVE IInv'
<1> USE DEF IInv
<1>1. /\ UNCHANGED <<lists, symbols, conn, call, changed, answer, view>>
      /\ tx' = [tx EXCEPT !.lists[call[p].id] = call[p].list]
      /\ tx.lists[call[p].id] = NoList
    BY DEF InsertList, store
<1>2. /\ at' = [at EXCEPT ![p] = "insertSymbols"] /\ at[p] = "insert"
      /\ \A q \in Requests : q # p => at'[q] = at[q]
      /\ at'[p] = "insertSymbols"
    BY DEF InsertList, Goto, TypeOK
<1>3. conn = p /\ \A q \in Requests : q # p => ~InTx(q)
    BY <1>2, OneInTx DEF InTx
<1>4. tx = [lists |-> lists, symbols |-> symbols, next |-> 1] /\ call[p] \in W!Creates
    BY <1>2 DEF TxFits, CallsFit
<1>5. /\ call[p].id \in Ids /\ call[p].list \in W!Watchlists
      /\ Len(call[p].symbols) \in Nat
    BY <1>4, Kinds, ContentsAreShort, WatchlistAssumption
<1>6. /\ tx' = [tx EXCEPT !.lists = [lists EXCEPT ![call[p].id] = call[p].list]]
      /\ tx'.lists = [lists EXCEPT ![call[p].id] = call[p].list]
      /\ tx'.symbols = symbols /\ tx'.next = 1
    BY <1>1, <1>4
<1>7. TypeOK'
    <2>1. [lists EXCEPT ![call[p].id] = call[p].list] \in [Ids -> W!Watchlists \cup {NoList}]
        BY <1>5 DEF TypeOK
    <2>2. tx' \in [lists : [Ids -> W!Watchlists \cup {NoList}],
                   symbols : SUBSET (Ids \X Symbols), next : 1 .. MaxSymbols + 1]
        BY <1>6, <2>1 DEF TypeOK
    <2> QED
        BY <1>1, <1>2, <2>2 DEF TypeOK, Places
<1>8. Made(p)' = {}
    <2>1. 1 .. tx'.next - 1 = {}
        BY <1>6
    <2> QED
        BY <2>1 DEF Made
<1>9. TxFits'
    <2>1. lists[call[p].id] = NoList /\ 1 \in 1 .. Len(call[p].symbols) + 1
        BY <1>1, <1>4, <1>5
    <2>2. tx'.symbols = symbols' \cup Made(p)' /\ Made(p)' \cap symbols' = {}
        BY <1>1, <1>6, <1>8
    <2>3. \A q \in Requests : q # p => ~InTx(q)'
        BY <1>2, <1>3 DEF InTx
    <2> QED
        BY <1>1, <1>2, <1>3, <1>6, <2>1, <2>2, <2>3 DEF TxFits, InTx
<1>10. CallsFit'
    BY <1>1, <1>2 DEF CallsFit
<1> QED
    BY <1>7, <1>9, <1>10

LEMMA InsertSymbolKeeps == ASSUME IInv, NEW p \in Requests, InsertSymbol(p) PROVE IInv'
<1> USE DEF IInv
<1>1. /\ UNCHANGED <<lists, symbols, conn, call, at, changed, answer, view>>
      /\ tx' = [tx EXCEPT !.symbols = @ \cup {Row(p)}, !.next = @ + 1]
      /\ at[p] = "insertSymbols" /\ tx.next <= Len(call[p].symbols) /\ Row(p) \notin tx.symbols
    BY DEF InsertSymbol, Inserting, store
<1>2. conn = p /\ \A q \in Requests : q # p => ~InTx(q)
    BY <1>1, OneInTx DEF InTx
<1>3. call[p] \in W!Creates
    BY <1>1 DEF CallsFit
<1>4. /\ call[p].id \in Ids
      /\ Len(call[p].symbols) \in 0 .. MaxSymbols
      /\ \A n \in 1 .. Len(call[p].symbols) : call[p].symbols[n] \in Symbols
    BY <1>3, Kinds, ContentsAreShort
<1>5. /\ lists[call[p].id] = NoList
      /\ tx.lists = [lists EXCEPT ![call[p].id] = call[p].list]
      /\ tx.symbols = symbols \cup Made(p)
      /\ tx.next \in 1 .. Len(call[p].symbols) + 1
      /\ Made(p) \cap symbols = {}
    BY <1>1 DEF TxFits
<1>6. tx'.lists = tx.lists /\ tx'.symbols = tx.symbols \cup {Row(p)} /\ tx'.next = tx.next + 1
    BY <1>1 DEF TypeOK
<1>7. Row(p) \in Ids \X Symbols
    BY <1>1, <1>4, <1>5 DEF Row
<1>8. TypeOK'
    <2>1. tx.next + 1 \in 1 .. MaxSymbols + 1
        BY <1>1, <1>4, <1>5, WatchlistAssumption
    <2>2. tx' \in [lists : [Ids -> W!Watchlists \cup {NoList}],
                   symbols : SUBSET (Ids \X Symbols), next : 1 .. MaxSymbols + 1]
        BY <1>1, <1>7, <2>1 DEF TypeOK
    <2> QED
        BY <1>1, <2>2 DEF TypeOK
<1>9. Made(p)' = Made(p) \cup {Row(p)}
    <2>1. 1 .. tx'.next - 1 = (1 .. tx.next - 1) \cup {tx.next}
        BY <1>4, <1>5, <1>6
    <2> QED
        BY <1>1, <2>1 DEF Made, Row
<1>10. TxFits'
    BY <1>1, <1>2, <1>4, <1>5, <1>6, <1>9 DEF TxFits, InTx
<1>11. CallsFit'
    BY <1>1 DEF CallsFit
<1> QED
    BY <1>8, <1>10, <1>11

LEMMA CommitKeeps == ASSUME IInv, NEW p \in Requests, Commit(p) PROVE IInv'
<1> USE DEF IInv
<1>1. /\ at[p] = "insertSymbols"
      /\ lists' = tx.lists /\ symbols' = tx.symbols
      /\ conn' = Nobody /\ tx' = NoTx /\ UNCHANGED <<call, view>>
      /\ changed' = [changed EXCEPT ![p] = TRUE]
      /\ answer' = [answer EXCEPT ![p] = "ok"] /\ at' = [at EXCEPT ![p] = "done"]
    BY DEF Commit, Changed, Respond, Goto
<1>2. \A q \in Requests : q # p => ~InTx(q)
    BY <1>1, OneInTx DEF InTx
<1>3. tx' \in [lists : [Ids -> W!Watchlists \cup {NoList}],
               symbols : SUBSET (Ids \X Symbols), next : 1 .. MaxSymbols + 1]
    BY <1>1, WatchlistAssumption DEF NoTx
<1>4. TypeOK'
    BY <1>1, <1>3 DEF TypeOK, Places
<1>5. \A q \in Requests : ~InTx(q)'
    BY <1>1, <1>2 DEF InTx, TypeOK
<1>6. TxFits'
    BY <1>1, <1>5, WatchlistAssumption DEF TxFits, InTx
<1>7. CallsFit'
    BY <1>1, CallAssumption DEF CallsFit, TypeOK
<1> QED
    BY <1>4, <1>6, <1>7

LEMMA CreateFailsKeeps == ASSUME IInv, NEW p \in Requests, CreateFails(p) PROVE IInv'
<1> USE DEF IInv
<1>1. /\ InTx(p)
      /\ conn' = Nobody /\ tx' = NoTx /\ UNCHANGED <<lists, symbols, call, changed, view>>
      /\ answer' = [answer EXCEPT ![p] = "error"] /\ at' = [at EXCEPT ![p] = "done"]
    BY DEF CreateFails, Undone, Respond, Goto, store
<1>2. \A q \in Requests : q # p => ~InTx(q)
    BY <1>1, OneInTx
<1>3. tx' \in [lists : [Ids -> W!Watchlists \cup {NoList}],
               symbols : SUBSET (Ids \X Symbols), next : 1 .. MaxSymbols + 1]
    BY <1>1, WatchlistAssumption DEF NoTx
<1>4. TypeOK'
    BY <1>1, <1>3 DEF TypeOK, Places
<1>5. \A q \in Requests : ~InTx(q)'
    BY <1>1, <1>2 DEF InTx, TypeOK
<1>6. TxFits'
    BY <1>1, <1>5, WatchlistAssumption DEF TxFits, InTx
<1>7. CallsFit'
    BY <1>1, CallAssumption DEF CallsFit, TypeOK, InTx
<1> QED
    BY <1>4, <1>6, <1>7

-----------------------------------------------------------------------------
(* The statements outside of a transaction.                                *)

\* While one is made, no transaction is open.
LEMMA NoTxAtStatement ==
    ASSUME IInv, NEW p \in Requests, NEW here, Statement(p, here)
    PROVE  \A q \in Requests : ~InTx(q)
BY WatchlistAssumption DEF IInv, TxFits, Statement

\* What such a statement may do.
LEMMA StatementKeeps ==
    ASSUME IInv, NEW p \in Requests, conn = Nobody, UNCHANGED <<conn, tx, call>>,
           NEW there \in Places \ {"insert", "insertSymbols"}, at' = [at EXCEPT ![p] = there],
           TypeOK', CallsFit'
    PROVE  IInv'
<1>1. \A q \in Requests : ~InTx(q)
    BY WatchlistAssumption DEF IInv, TxFits
<1>2. \A q \in Requests : ~InTx(q)'
    BY <1>1 DEF InTx, IInv, TypeOK
<1>3. TxFits'
    BY <1>2, WatchlistAssumption DEF TxFits, InTx
<1> QED
    BY <1>3 DEF IInv

LEMMA UpdateKeeps == ASSUME IInv, NEW p \in Requests, Update(p) PROVE IInv'
<1> USE DEF IInv
<1>1. /\ at[p] = "exec" /\ conn = Nobody /\ call[p] \in W!Updates
      /\ UNCHANGED <<symbols, conn, tx, call, answer, view>>
      /\ lists' = [lists EXCEPT ![call[p].id] = IF @ = NoList THEN NoList
                                ELSE [@ EXCEPT !.public = (call[p].public = "yes")]]
      /\ changed' = [changed EXCEPT ![p] = TRUE] /\ at' = [at EXCEPT ![p] = "read"]
    BY DEF Update, UpdateRow, Statement, Changed, Goto
<1>2. \A w \in W!Watchlists : [w EXCEPT !.public = (call[p].public = "yes")] \in W!Watchlists
    BY Zenon DEF W!Watchlists
<1>3. lists' \in [Ids -> W!Watchlists \cup {NoList}]
    BY <1>1, <1>2, Kinds DEF TypeOK
<1>4. TypeOK'
    BY <1>1, <1>3 DEF TypeOK, Places
<1>5. CallsFit'
    BY <1>1, CallAssumption DEF CallsFit, TypeOK
<1> QED
    BY <1>1, <1>4, <1>5, StatementKeeps DEF Places

LEMMA DeleteKeeps == ASSUME IInv, NEW p \in Requests, Delete(p) PROVE IInv'
<1> USE DEF IInv
<1>1. /\ at[p] = "exec" /\ conn = Nobody /\ call[p] \in W!Deletes
      /\ UNCHANGED <<symbols, conn, tx, call, view>>
      /\ lists' = [lists EXCEPT ![call[p].id] = NoList]
      /\ answer' = [answer EXCEPT ![p] = "ok"]
      /\ changed' = [changed EXCEPT ![p] = TRUE] /\ at' = [at EXCEPT ![p] = "done"]
    BY DEF Delete, Statement, Changed, Respond, Goto
<1>2. TypeOK'
    BY <1>1, Kinds DEF TypeOK, Places
<1>3. CallsFit'
    BY <1>1, CallAssumption DEF CallsFit, TypeOK
<1> QED
    BY <1>1, <1>2, <1>3, StatementKeeps DEF Places

LEMMA ChangeSymbolKeeps ==
    ASSUME IInv, NEW p \in Requests, AddSymbol(p) \/ RemoveSymbol(p) PROVE IInv'
<1> USE DEF IInv
<1>1. /\ at[p] = "exec" /\ conn = Nobody /\ call[p].op \in {"add", "remove"}
      /\ UNCHANGED <<lists, conn, tx, call, answer, view>>
      /\ changed' = [changed EXCEPT ![p] = TRUE] /\ at' = [at EXCEPT ![p] = "touch"]
    BY DEF AddSymbol, RemoveSymbol, Statement, Changed, Goto
<1>2. call[p] \in W!Changes
    BY <1>1, Kinds DEF CallsFit, W!Writers
<1>3. symbols' \subseteq Ids \X Symbols
    BY <1>2, Kinds DEF AddSymbol, RemoveSymbol, TypeOK
<1>4. TypeOK'
    BY <1>1, <1>3 DEF TypeOK, Places
<1>5. CallsFit'
    BY <1>1, <1>2, CallAssumption DEF CallsFit, TypeOK
<1> QED
    BY <1>1, <1>4, <1>5, StatementKeeps DEF Places

LEMMA TouchKeeps == ASSUME IInv, NEW p \in Requests, Touch(p) PROVE IInv'
<1> USE DEF IInv
<1>1. /\ at[p] = "touch" /\ conn = Nobody
      /\ UNCHANGED <<lists, symbols, conn, tx, call, changed, view>>
      /\ answer' = [answer EXCEPT ![p] = "ok"] /\ at' = [at EXCEPT ![p] = "done"]
    BY DEF Touch, Statement, Respond, Goto, store
<1>2. TypeOK' /\ CallsFit'
    BY <1>1, CallAssumption DEF CallsFit, TypeOK, Places
<1> QED
    BY <1>1, <1>2, StatementKeeps DEF Places

LEMMA ViewsAreTyped ==
    ASSUME NEW p \in Requests, NEW ls \in SUBSET Ids, NEW ss \in SUBSET Symbols, Show(p, ls, ss),
           view \in [Requests -> [lists : SUBSET Ids, symbols : SUBSET Symbols]]
    PROVE  view' \in [Requests -> [lists : SUBSET Ids, symbols : SUBSET Symbols]]
BY DEF Show

LEMMA GetByIDKeeps == ASSUME IInv, NEW p \in Requests, GetByID(p) PROVE IInv'
<1> USE DEF IInv
<1>1. /\ at[p] = "read" /\ conn = Nobody
      /\ UNCHANGED <<lists, symbols, conn, tx, call, changed>>
    BY DEF GetByID, Statement, store
<1>2. call[p].id \in Ids
    BY <1>1, Kinds DEF CallsFit
<1>3. view' \in [Requests -> [lists : SUBSET Ids, symbols : SUBSET Symbols]]
    <2>1. {call[p].id} \in SUBSET Ids /\ {} \in SUBSET Symbols
        BY <1>2
    <2> QED
        BY <2>1, ViewsAreTyped DEF GetByID, TypeOK
<1>4. \/ \E a \in {"ok", "notFound"} :
            at' = [at EXCEPT ![p] = "done"] /\ answer' = [answer EXCEPT ![p] = a]
      \/ /\ call[p].op = "getWithSymbols"
         /\ at' = [at EXCEPT ![p] = "symbols"] /\ UNCHANGED answer
    BY DEF GetByID, Respond, Goto
<1>5. call[p].op = "getWithSymbols" => call[p] \in W!Reads
    BY <1>1, Kinds DEF CallsFit
<1>6. TypeOK' /\ CallsFit'
    <2>1. ASSUME NEW a \in {"ok", "notFound"},
                 at' = [at EXCEPT ![p] = "done"], answer' = [answer EXCEPT ![p] = a]
          PROVE TypeOK' /\ CallsFit'
        BY <1>1, <1>3, <2>1 DEF CallsFit, TypeOK, Places
    <2>2. ASSUME call[p].op = "getWithSymbols",
                 at' = [at EXCEPT ![p] = "symbols"], UNCHANGED answer
          PROVE TypeOK' /\ CallsFit'
        BY <1>1, <1>3, <1>5, <2>2 DEF CallsFit, TypeOK, Places
    <2> QED
        BY <1>4, <2>1, <2>2
<1> QED
    BY <1>1, <1>4, <1>6, StatementKeeps DEF Places

\* The other reads answer at once.
LEMMA ReadKeeps ==
    ASSUME IInv, NEW p \in Requests,
           GetSymbols(p) \/ GetWatchlistsBySymbol(p) \/ ListWatchlists(p)
    PROVE  IInv'
<1> USE DEF IInv
<1>1. /\ at[p] \in {"symbols", "select"} /\ conn = Nobody
      /\ UNCHANGED <<lists, symbols, conn, tx, call, changed>>
      /\ answer' = [answer EXCEPT ![p] = "ok"] /\ at' = [at EXCEPT ![p] = "done"]
    BY DEF GetSymbols, GetWatchlistsBySymbol, ListWatchlists, Statement, Respond, Goto, store
<1>2. \E ls \in SUBSET Ids, ss \in SUBSET Symbols : Show(p, ls, ss)
    <2>1. CASE GetSymbols(p)
        <3>1. view[p].lists \in SUBSET Ids /\ SymbolsOf(call[p].id) \in SUBSET Symbols
            BY DEF TypeOK, SymbolsOf
        <3> QED
            BY <2>1, <3>1 DEF GetSymbols
    <2>2. CASE GetWatchlistsBySymbol(p) \/ ListWatchlists(p)
        <3>1. /\ Holding(call[p].symbol) \in SUBSET Ids /\ Public \in SUBSET Ids
              /\ {i \in Existing : lists[i].owner = call[p].owner} \in SUBSET Ids
            BY DEF Holding, Public, Existing
        <3> QED
            BY <2>2, <3>1 DEF GetWatchlistsBySymbol, ListWatchlists
    <2> QED
        BY <2>1, <2>2
<1>v. view' \in [Requests -> [lists : SUBSET Ids, symbols : SUBSET Symbols]]
    BY <1>2, ViewsAreTyped DEF TypeOK
<1>3. TypeOK' /\ CallsFit'
    BY <1>1, <1>v, CallAssumption DEF CallsFit, TypeOK, Places
<1> QED
    BY <1>1, <1>3, StatementKeeps DEF Places

LEMMA FailsKeeps == ASSUME IInv, NEW p \in Requests, Fails(p) PROVE IInv'
<1> USE DEF IInv
<1>1. /\ at[p] \in {"begin", "exec", "touch", "read", "symbols", "select"}
      /\ UNCHANGED <<lists, symbols, conn, tx, call, changed, view>>
      /\ answer' = [answer EXCEPT ![p] = "error"] /\ at' = [at EXCEPT ![p] = "done"]
    BY DEF Fails, Outside, Respond, Goto, store
<1>2. TypeOK' /\ CallsFit'
    BY <1>1, CallAssumption DEF CallsFit, TypeOK, Places
<1>3. Quiet(p)
    BY <1>1 DEF Quiet, Goto, Places, store
<1> QED
    BY <1>2, <1>3, QuietKeepsTx

LEMMA StepKeeps == IInv /\ [Next]_vars => IInv'
<1> SUFFICES ASSUME IInv, [Next]_vars PROVE IInv'
    OBVIOUS
<1>1. CASE UNCHANGED vars
    BY <1>1 DEF IInv, TypeOK, TxFits, CallsFit, Made, InTx, vars, store
<1>2. ASSUME NEW p \in Requests, Step(p) PROVE IInv'
    BY <1>2, BeginKeeps, InsertListKeeps, InsertSymbolKeeps, CommitKeeps, CreateFailsKeeps,
       UpdateKeeps, DeleteKeeps, ChangeSymbolKeeps, TouchKeeps, GetByIDKeeps, ReadKeeps
    DEF Step, Create
<1> QED
    BY <1>1, <1>2, AskKeeps, CreateFailsKeeps, FailsKeeps DEF Next

LEMMA Invariance == Spec => []IInv
BY InitIInv, StepKeeps, PTL DEF Spec

\* The connection is held exactly by the request that is inside the transaction
\* of Create, whatever fails, and the tables do not change under it.
THEOREM TablesStayInOrder == Spec => []TablesAreInOrder
<1>1. ASSUME IInv, NEW p \in Requests, InTx(p)
      PROVE  /\ tx.symbols = symbols \cup Made(p)
             /\ lists[call[p].id] = NoList \/ tx.lists = lists
    <2>1. CASE at[p] = "insert"
        <3>1. tx = [lists |-> lists, symbols |-> symbols, next |-> 1]
            BY <1>1, <2>1 DEF IInv, TxFits
        <3>2. 1 .. tx.next - 1 = {}
            BY <3>1
        <3> QED
            BY <3>1, <3>2 DEF Made
    <2>2. CASE at[p] = "insertSymbols"
        BY <1>1, <2>2 DEF IInv, TxFits
    <2> QED
        BY <1>1, <2>1, <2>2 DEF InTx
<1>2. IInv => TablesAreInOrder
    BY <1>1 DEF IInv, TxFits, TablesAreInOrder, ConnectionIsHeldByCreate, Made
<1> QED
    BY <1>2, Invariance, PTL

-----------------------------------------------------------------------------
(* The refinement.                                                         *)

\* What does not change the tables does not change the symbols of the lists.
LEMMA SameTables ==
    ASSUME UNCHANGED <<lists, symbols>>
    PROVE  UNCHANGED ListedSymbols
BY DEF ListedSymbols

\* The commit of Create is the instant at which the list and its symbols appear,
\* unless there are symbols already.
LEMMA CommitImplements ==
    ASSUME IInv, NEW p \in Requests, Commit(p), ~TakesLeftovers(p)
    PROVE  W!Change(p)
<1> USE DEF IInv
<1> DEFINE id == call[p].id
<1>1. /\ at[p] = "insertSymbols" /\ tx.next > Len(call[p].symbols)
      /\ lists' = tx.lists /\ symbols' = tx.symbols /\ UNCHANGED call
      /\ changed' = [changed EXCEPT ![p] = TRUE]
      /\ answer' = [answer EXCEPT ![p] = "ok"]
    BY DEF Commit, Changed, Respond
<1>2. /\ call[p] # NoCall /\ ~changed[p] /\ answer[p] = "none"
      /\ call[p] \in W!Creates
    BY <1>1 DEF CallsFit
<1>3. /\ lists[id] = NoList
      /\ tx.lists = [lists EXCEPT ![id] = call[p].list]
      /\ tx.symbols = symbols \cup Made(p)
      /\ tx.next \in 1 .. Len(call[p].symbols) + 1
    BY <1>1 DEF TxFits
<1>4. DOMAIN call[p].symbols = 1 .. Len(call[p].symbols) /\ Len(call[p].symbols) \in Nat
    BY <1>2, Kinds, ContentsAreShort, WatchlistAssumption
<1>5. 1 .. tx.next - 1 = DOMAIN call[p].symbols
    BY <1>1, <1>3, <1>4
<1>6. Made(p) = {<<id, s>> : s \in W!Elements(call[p].symbols)}
    BY <1>5 DEF Made, W!Elements
<1>7. id \in Ids /\ call[p].list # NoList
    BY <1>2, Kinds, WatchlistAssumption DEF W!Watchlists
<1>8. \A r \in symbols : r[1] \in Ids /\ r[1] # id
    <2>1. \A r \in symbols : r[1] \in Ids /\ r[2] \in Symbols /\ r = <<r[1], r[2]>>
        BY DEF TypeOK
    <2>2. SymbolsOf(id) = {}
        BY DEF TakesLeftovers
    <2> QED
        BY <2>1, <2>2 DEF SymbolsOf
<1>9. \A r \in Made(p) : r[1] = id
    BY DEF Made
<1>10. lists'[id] # NoList /\ \A i \in Ids : i # id => lists'[i] = lists[i]
    BY <1>1, <1>3, <1>7 DEF TypeOK
<1>11. ListedSymbols' = ListedSymbols \cup Made(p)
    BY <1>1, <1>3, <1>8, <1>9, <1>10 DEF ListedSymbols
<1>12. W!Effect(call[p])
    BY <1>1, <1>2, <1>3, <1>6, <1>11 DEF W!Effect, W!Put
<1> QED
    BY <1>1, <1>2, <1>12 DEF W!Change

\* The other statements that change a table are the instant of their call.
LEMMA ExecImplements ==
    ASSUME IInv, NEW p \in Requests,
           Update(p) \/ Delete(p) \/ AddSymbol(p) \/ RemoveSymbol(p)
    PROVE  W!Change(p)
<1> USE DEF IInv
<1> DEFINE id == call[p].id
<1>1. /\ at[p] = "exec" /\ UNCHANGED call /\ changed' = [changed EXCEPT ![p] = TRUE]
    BY DEF Update, Delete, AddSymbol, RemoveSymbol, Statement, Changed
<1>2. /\ call[p] # NoCall /\ ~changed[p] /\ answer[p] = "none"
      /\ call[p] \in W!Writers \ W!Creates /\ W!MustChange(call[p])
    BY <1>1 DEF CallsFit
<1>3. \A r \in symbols : r[1] \in Ids
    BY DEF TypeOK
<1>4. CASE Update(p)
    <2>1. call[p] \in W!Updates /\ call[p].public # "same" /\ id \in Ids
        BY <1>2, <1>4, Kinds DEF Update, W!MustChange
    <2>2. UNCHANGED symbols
          /\ lists' = [lists EXCEPT ![id] = IF @ = NoList THEN NoList
                        ELSE [@ EXCEPT !.public = (call[p].public = "yes")]]
        BY <1>4 DEF Update, UpdateRow
    <2>3. IF lists[id] = NoList THEN UNCHANGED lists
          ELSE lists' = [lists EXCEPT ![id] =
                            [lists[id] EXCEPT !.public = (call[p].public = "yes")]]
        BY <2>1, <2>2 DEF TypeOK
    <2>4. \A w \in W!Watchlists : [w EXCEPT !.public = (call[p].public = "yes")] # NoList
        <3>1. \A w \in W!Watchlists :
                 [w EXCEPT !.public = (call[p].public = "yes")] \in W!Watchlists
            BY Zenon DEF W!Watchlists
        <3> QED
            BY <3>1, WatchlistAssumption DEF W!Watchlists
    <2>5. \A i \in Ids : lists'[i] = NoList <=> lists[i] = NoList
        BY <2>1, <2>3, <2>4 DEF TypeOK
    <2>6. UNCHANGED ListedSymbols
        BY <1>3, <2>2, <2>5 DEF ListedSymbols
    <2>7. W!Effect(call[p])
        BY <2>1, <2>3, <2>6 DEF W!Effect, W!Put
    <2>8. UNCHANGED answer /\ call[p] \notin W!Creates \cup W!Deletes
        BY <1>4, <2>1, Kinds DEF Update
    <2> QED
        BY <1>1, <1>2, <2>7, <2>8 DEF W!Change, TypeOK
<1>5. CASE Delete(p)
    <2>1. /\ call[p] \in W!Deletes /\ id \in Ids
          /\ lists' = [lists EXCEPT ![id] = NoList] /\ UNCHANGED symbols
          /\ answer' = [answer EXCEPT ![p] = "ok"]
        BY <1>5, Kinds DEF Delete, Respond
    <2>2. lists'[id] = NoList /\ \A i \in Ids : i # id => lists'[i] = lists[i]
        BY <2>1 DEF TypeOK
    <2>3. ListedSymbols' = ListedSymbols \ W!RowsOf(id)
        BY <1>3, <2>1, <2>2 DEF ListedSymbols, W!RowsOf
    <2>4. W!Effect(call[p])
        BY <2>1, <2>3 DEF W!Effect, W!Put
    <2> QED
        BY <1>1, <1>2, <2>1, <2>4 DEF W!Change
<1>6. CASE AddSymbol(p) \/ RemoveSymbol(p)
    <2>1. /\ call[p] \in W!Changes /\ UNCHANGED <<lists, answer>>
          /\ call[p] \notin W!Creates \cup W!Deletes
        BY <1>2, <1>6, Kinds DEF AddSymbol, RemoveSymbol, W!Writers
    <2>2. CASE AddSymbol(p)
        <3>1. call[p].op = "add" /\ symbols' = symbols \cup {<<id, call[p].symbol>>}
            BY <2>2 DEF AddSymbol
        <3>2. ListedSymbols' = IF lists[id] = NoList THEN ListedSymbols
                               ELSE ListedSymbols \cup {<<id, call[p].symbol>>}
            BY <2>1, <3>1 DEF ListedSymbols
        <3> QED
            BY <1>1, <1>2, <2>1, <3>1, <3>2 DEF W!Effect, W!Change, TypeOK
    <2>3. CASE RemoveSymbol(p)
        <3>1. call[p].op = "remove" /\ symbols' = symbols \ {<<id, call[p].symbol>>}
            BY <2>3 DEF RemoveSymbol
        <3>2. ListedSymbols' = ListedSymbols \ {<<id, call[p].symbol>>}
            BY <2>1, <3>1 DEF ListedSymbols
        <3> QED
            BY <1>1, <1>2, <2>1, <3>1, <3>2 DEF W!Effect, W!Change, TypeOK
    <2> QED
        BY <1>6, <2>2, <2>3
<1> QED
    BY <1>4, <1>5, <1>6

\* An answer, with the change made where "ok" promises it.
LEMMA AnswerImplements ==
    ASSUME IInv, NEW p \in Requests, NEW a \in {"ok", "notFound", "error"},
           at[p] \notin {"idle", "done"}, UNCHANGED <<lists, symbols, call, changed>>,
           answer' = [answer EXCEPT ![p] = a],
           a = "ok" /\ W!MustChange(call[p]) => changed[p]
    PROVE  W!Answer(p)
BY SameTables DEF IInv, CallsFit, W!Answer, W!store

\* Calls that do not change a table promise no change.
LEMMA ReadsPromiseNothing ==
    \A c \in W!Reads \cup W!Lookups \cup W!Lists : ~W!MustChange(c)
BY Kinds DEF W!MustChange

LEMMA StepImplements ==
    ASSUME IInv, [Next]_vars, \A p \in Requests : ~TakesLeftovers(p)
    PROVE  [W!Next]_(W!vars)
<1> USE DEF W!vars, W!store
<1>1. CASE UNCHANGED vars
    BY <1>1, SameTables DEF vars, store
<1>2. ASSUME NEW p \in Requests, Ask(p) PROVE W!Next
    BY <1>2, SameTables DEF Ask, IInv, CallsFit, W!Next, W!Ask, store
<1>3. ASSUME NEW p \in Requests, Begin(p) \/ InsertList(p) \/ InsertSymbol(p)
      PROVE UNCHANGED W!vars
    BY <1>3, SameTables DEF Begin, InsertList, InsertSymbol, store
<1>4. ASSUME NEW p \in Requests, Commit(p) PROVE W!Next
    BY <1>4, CommitImplements DEF W!Next
<1>5. ASSUME NEW p \in Requests, CreateFails(p) \/ Fails(p) PROVE W!Next
    <2>1. /\ at[p] \notin {"idle", "done"} /\ UNCHANGED <<lists, symbols, call, changed>>
          /\ answer' = [answer EXCEPT ![p] = "error"]
        BY <1>5 DEF CreateFails, Fails, InTx, Outside, Undone, Respond, store
    <2> QED
        BY <2>1, AnswerImplements DEF W!Next
<1>6. ASSUME NEW p \in Requests, Update(p) \/ Delete(p) \/ AddSymbol(p) \/ RemoveSymbol(p)
      PROVE W!Next
    BY <1>6, ExecImplements DEF W!Next
<1>7. ASSUME NEW p \in Requests, Touch(p) PROVE W!Next
    <2>1. /\ at[p] = "touch" /\ UNCHANGED <<lists, symbols, call, changed>>
          /\ answer' = [answer EXCEPT ![p] = "ok"] /\ changed[p]
        BY <1>7 DEF Touch, Statement, Respond, store, IInv, CallsFit
    <2> QED
        BY <2>1, AnswerImplements DEF W!Next
<1>8. ASSUME NEW p \in Requests, GetByID(p) PROVE [W!Next]_(W!vars)
    <2>1. /\ at[p] = "read" /\ UNCHANGED <<lists, symbols, call, changed>>
          /\ W!MustChange(call[p]) => changed[p]
        BY <1>8, ReadsPromiseNothing DEF GetByID, Statement, store, IInv, CallsFit
    <2>2. \/ \E a \in {"ok", "notFound"} : answer' = [answer EXCEPT ![p] = a]
          \/ UNCHANGED answer
        BY <1>8 DEF GetByID, Respond
    <2> QED
        BY <2>1, <2>2, AnswerImplements, SameTables DEF W!Next
<1>9. ASSUME NEW p \in Requests, GetSymbols(p) \/ GetWatchlistsBySymbol(p) \/ ListWatchlists(p)
      PROVE W!Next
    <2>1. /\ at[p] \in {"symbols", "select"} /\ UNCHANGED <<lists, symbols, call, changed>>
          /\ answer' = [answer EXCEPT ![p] = "ok"] /\ ~W!MustChange(call[p])
        BY <1>9, ReadsPromiseNothing
        DEF GetSymbols, GetWatchlistsBySymbol, ListWatchlists, Statement, Respond, store, IInv,
            CallsFit
    <2> QED
        BY <2>1, AnswerImplements DEF W!Next
<1> QED
    BY <1>1, <1>2, <1>3, <1>4, <1>5, <1>6, <1>7, <1>8, <1>9 DEF Next, Step, Create

\* What is looked up or listed is there, and public unless its owner lists it.
LEMMA StepShowsPublicLists ==
    ASSUME IInv, [Next]_vars, NEW p \in Requests,
           at'[p] = "done", at[p] = "select", answer'[p] = "ok", NEW i \in view'[p].lists
    PROVE  lists[i] # NoList /\ (call[p].op # "owned" => lists[i].public)
<1> USE DEF IInv, TypeOK
<1>1. GetWatchlistsBySymbol(p) \/ ListWatchlists(p)
    <2>1. PICK q \in Requests : Ask(q) \/ Step(q) \/ CreateFails(q) \/ Fails(q)
        BY DEF Next, vars
    <2>2. CASE q = p
        BY <2>1, <2>2
        DEF Ask, Step, Create, CreateFails, Fails, InTx, Respond, Begin, InsertList, InsertSymbol,
            Inserting, Commit, Update, Delete, AddSymbol, RemoveSymbol, Touch, GetByID, GetSymbols,
            Statement
    <2>3. CASE q # p
        <3>1. at'[p] = at[p]
            BY <2>1, <2>3
            DEF Ask, Step, Create, CreateFails, Fails, Respond, Goto, Begin, InsertList,
                InsertSymbol, Commit, Update, Delete, AddSymbol, RemoveSymbol, Touch, GetByID,
                GetSymbols, GetWatchlistsBySymbol, ListWatchlists
        <3> QED
            BY <3>1
    <2> QED
        BY <2>2, <2>3
<1>2. CASE GetWatchlistsBySymbol(p)
    <2>1. view'[p].lists = Holding(call[p].symbol)
        BY <1>2 DEF GetWatchlistsBySymbol, Show
    <2> QED
        BY <2>1 DEF Holding, Public, Existing
<1>3. CASE ListWatchlists(p)
    <2>1. view'[p].lists = IF call[p].op = "public" THEN Public
                           ELSE {k \in Existing : lists[k].owner = call[p].owner}
        BY <1>3 DEF ListWatchlists, Show
    <2> QED
        BY <1>3, <2>1 DEF ListWatchlists, Public, Existing
<1> QED
    BY <1>1, <1>2, <1>3

\* Whatever fails in between and however the requests interleave, each takes
\* effect at one instant or not at all, a deleted list loses its symbols but for
\* a create that takes them over, and no private or missing list is shown.
THEOREM PromisesAreKept == Spec => ListsKeepPromises
<1>1. Init => W!Init
    BY DEF Init, W!Init, ListedSymbols
<1>2. IInv /\ [Next]_vars =>
        [W!Next \/ \E p \in Requests : TakesLeftovers(p)]_(W!vars)
    BY StepImplements
<1>3. IInv /\ [Next]_vars =>
        [\A p \in Requests : at'[p] = "done" /\ at[p] = "select" /\ answer'[p] = "ok"
            => \A i \in view'[p].lists :
                /\ lists[i] # NoList
                /\ call[p].op # "owned" => lists[i].public]_vars
    BY StepShowsPublicLists
<1> QED
    BY <1>1, <1>2, <1>3, Invariance, PTL
    DEF Spec, ListsKeepPromises, KeepsPromises, LookupsShowPublicLists
=============================================================================
