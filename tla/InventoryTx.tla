----------------------------- MODULE InventoryTx -----------------------------
(***************************************************************************)
(* inventory-svc statement by statement: each call is a Postgres           *)
(* transaction at READ COMMITTED, run on a connection of its own.  A plain *)
(* read sees what is committed; an UPDATE or a SELECT ... FOR UPDATE waits *)
(* for the row's lock, then judges the latest committed version; writes    *)
(* become visible at COMMIT.                                               *)
(*                                                                         *)
(* A transaction may be rolled back at any point: a connection that drops, *)
(* a client that hangs up, a deadlock victim.  A refusal and a retry with  *)
(* nothing to do end the same way, so a call that may not go on has        *)
(* Rollback as its only step.                                              *)
(*                                                                         *)
(* class, row and lapsed are the committed tables of Inventory, and        *)
(* Inventory!Spec is what the interleaved statements must amount to.       *)
(***************************************************************************)
EXTENDS Inventory

CONSTANT Procs   \* connections

VARIABLES
  classLock,   \* classLock[c]: the connection that holds the ticket_class row
  rowLock,     \* rowLock[o][c]: the connection that holds the reservation row
  tx           \* tx[p]: what connection p is doing

txVars == <<class, row, lapsed, classLock, rowLock, tx>>
tables == <<class, row, lapsed>>

NoOne == "nobody"
ASSUME ProcsAssumption == NoOne \notin Procs

\* op     the call
\* step   the statement it is about to run
\* cand   reservation rows it has still to lock (or, for Reserve, to insert)
\* seen   the rows it has locked, with the status it read
\* todo   classes it has still to update
\* dirty  its uncommitted versions of the classes it has locked
Idle == [op |-> "idle", step |-> "none", cand |-> {}, seen |-> {}, todo |-> {}, dirty |-> <<>>]

\* A version of one class alone, and one more among others.
Only(c, v) == [d \in {c} |-> v]
Put(dirty, c, v) == [d \in DOMAIN dirty \cup {c} |-> IF d = c THEN v ELSE dirty[d]]

RowAt(r) == row[r[1]][r[2]]
ReadOf(r) == <<r[1], r[2], RowAt(r)>>
SeenRows(p) == {<<s[1], s[2]>> : s \in tx[p].seen}
SeenStatuses(p) == {s[3] : s \in tx[p].seen}
SeenClasses(p, st) == {s[2] : s \in {s \in tx[p].seen : s[3] \in st}}

\* The tickets p moves in class c.
Qty(p, c) == BatchQty(tx[p].cand \cup SeenRows(p), c)

\* Mutant: Reserve takes its classes in the order the caller listed them.
NextClassUnsorted(p) ==
  IF tx[p].op = "reserve" THEN CHOOSE c \in tx[p].todo : \A d \in tx[p].todo : d <= c
  ELSE First(tx[p].todo)

\* Classes are updated in ascending order, whatever the call.
NextClass(p) == First(tx[p].todo)

\* The rows of an order come by class, through idx_order_ticket; a DELETE takes
\* the rows of its class in any one order.
NextRow(p) == CHOOSE r \in tx[p].cand : r[2] = First({q[2] : q \in tx[p].cand})

-----------------------------------------------------------------------------
(***************************************************************************)
(* First statements.                                                       *)
(***************************************************************************)
Start(p, t) == tx[p] = Idle /\ tx' = [tx EXCEPT ![p] = t]

\* Reserve reads the order's statuses without a lock and goes on only when
\* there are none.
BeginReserve(p, o) ==
  /\ Rows(o) = {}
  /\ Start(p, [Idle EXCEPT !.op = "reserve", !.step = "classes",
                           !.cand = {o} \X Ids(o), !.todo = Ids(o)])
  /\ UNCHANGED <<tables, classLock, rowLock>>

\* Confirm and Release: SELECT ... FOR UPDATE of the order's rows.
BeginOnOrder(p, o, op) ==
  /\ Rows(o) # {}
  /\ Start(p, [Idle EXCEPT !.op = op, !.step = "rows", !.cand = {o} \X Rows(o)])
  /\ UNCHANGED <<tables, classLock, rowLock>>

\* The sweep locks a page of overdue rows in one go and skips locked ones.
BeginSweep(p) ==
  LET free == {r \in Overdue : rowLock[r[1]][r[2]] = NoOne} IN
  \E page \in SUBSET free :
    /\ page # {}
    /\ Cardinality(page) = BatchSize \/ (page = free /\ Cardinality(page) < BatchSize)
    /\ Start(p, [Idle EXCEPT !.op = "sweep", !.step = "classes",
                             !.seen = {ReadOf(r) : r \in page}, !.todo = {r[2] : r \in page}])
    /\ rowLock' = [o \in Orders |-> [c \in Classes |->
                     IF <<o, c>> \in page THEN p ELSE rowLock[o][c]]]
    /\ UNCHANGED <<tables, classLock>>

LockClass(p, c) == classLock[c] = NoOne /\ classLock' = [classLock EXCEPT ![c] = p]

\* Update and Delete: SELECT ... FOR UPDATE of the class row.
BeginUpdate(p, c, total, status) ==
  /\ Present(c)
  /\ LockClass(p, c)
  /\ total # class[c].total => total >= class[c].reserved + class[c].sold
  /\ Start(p, [Idle EXCEPT !.op = "update", !.step = "commit",
                           !.dirty = Only(c, [class[c] EXCEPT !.total = total, !.status = status])])
  /\ UNCHANGED <<tables, rowLock>>

BeginDelete(p, c) ==
  /\ Present(c)
  /\ LockClass(p, c)
  /\ Start(p, [Idle EXCEPT !.op = "delete", !.step = "count",
                           !.dirty = Only(c, [status |-> "deleted", total |-> 0, reserved |-> 0, sold |-> 0])])
  /\ UNCHANGED <<tables, rowLock>>

-----------------------------------------------------------------------------
(***************************************************************************)
(* Statements in the middle.                                               *)
(***************************************************************************)

\* Delete counts live rows and deletes the terminal ones it sees.
CountLive(p) ==
  /\ tx[p].step = "count"
  /\ LET rows == {r \in Orders \X DOMAIN tx[p].dirty : RowAt(r) # "none"} IN
     /\ \A r \in rows : RowAt(r) \notin Live
     /\ tx' = [tx EXCEPT ![p].step = "rows", ![p].cand = rows]
  /\ UNCHANGED <<tables, classLock, rowLock>>

\* Mutant: the rows are read without FOR UPDATE.
LockRowUnlocked(p) ==
  /\ tx[p].step = "rows" /\ tx[p].cand # {}
  /\ LET r == NextRow(p) IN
     tx' = [tx EXCEPT ![p].cand = @ \ {r},
                      ![p].seen = IF RowAt(r) = "none" THEN @ ELSE @ \cup {ReadOf(r)}]
  /\ UNCHANGED <<tables, classLock, rowLock>>

\* p locks its next row once nobody holds it.  A row deleted meanwhile is
\* passed over, and so is a row a DELETE finds live.
LockRow(p) ==
  /\ tx[p].step = "rows" /\ tx[p].cand # {}
  /\ LET r == NextRow(p)
         gone == RowAt(r) = "none" \/ (tx[p].op = "delete" /\ RowAt(r) \in Live)
     IN /\ rowLock[r[1]][r[2]] = NoOne
        /\ tx' = [tx EXCEPT ![p].cand = @ \ {r},
                            ![p].seen = IF gone THEN @ ELSE @ \cup {ReadOf(r)}]
        /\ rowLock' = IF gone THEN rowLock ELSE [rowLock EXCEPT ![r[1]][r[2]] = p]
  /\ UNCHANGED <<tables, classLock>>

\* With its rows locked a call decides from their statuses.  ON DELETE
\* RESTRICT refuses to delete a class that still has a row.
Decide(p) ==
  /\ tx[p].step = "rows" /\ tx[p].cand = {}
  /\ \/ /\ tx[p].op = "confirm"
        /\ tx[p].seen # {} /\ SeenStatuses(p) \subseteq {"ACTIVE", "EXPIRED"}
        /\ tx' = [tx EXCEPT ![p].step = "classes", ![p].todo = SeenClasses(p, {"ACTIVE", "EXPIRED"})]
     \/ /\ tx[p].op = "release"
        /\ "ACTIVE" \in SeenStatuses(p) /\ "CONFIRMED" \notin SeenStatuses(p)
        /\ tx' = [tx EXCEPT ![p].step = "classes", ![p].todo = SeenClasses(p, {"ACTIVE"})]
     \/ /\ tx[p].op = "delete"
        /\ \A r \in Orders \X DOMAIN tx[p].dirty : RowAt(r) = "none" \/ r \in SeenRows(p)
        /\ tx' = [tx EXCEPT ![p].step = "commit"]
  /\ UNCHANGED <<tables, classLock, rowLock>>

\* The guarded UPDATE: whether it matches the row, and the version it writes.
Matches(p, c) ==
  LET q == Qty(p, c) IN
  CASE tx[p].op = "reserve"                                  -> OnSale(c, Classes) /\ Fits(c, q)
    [] tx[p].op = "confirm" /\ c \in SeenClasses(p, {"EXPIRED"}) -> Fits(c, q)
    [] OTHER                                                 -> class[c].reserved >= q

Version(p, c) ==
  LET q == Qty(p, c) IN
  CASE tx[p].op = "reserve" -> [class[c] EXCEPT !.reserved = @ + q]
    [] tx[p].op = "confirm" /\ c \in SeenClasses(p, {"EXPIRED"}) -> [class[c] EXCEPT !.sold = @ + q]
    [] tx[p].op = "confirm" /\ c \notin SeenClasses(p, {"EXPIRED"}) ->
         [class[c] EXCEPT !.reserved = @ - q, !.sold = @ + q]
    [] OTHER -> [class[c] EXCEPT !.reserved = @ - q]

\* Mutant: the counters are read first and written later, without a lock.
UpdateClassUnlocked(p) ==
  /\ tx[p].step = "classes" /\ tx[p].todo # {}
  /\ LET c == NextClass(p) IN
     /\ Matches(p, c)
     /\ tx' = [tx EXCEPT ![p].todo = @ \ {c}, ![p].dirty = Put(@, c, Version(p, c))]
  /\ UNCHANGED <<tables, classLock, rowLock>>

\* One guarded UPDATE.  A sweep goes on past a class that does not match, any
\* other call is refused.
UpdateClass(p) ==
  /\ tx[p].step = "classes" /\ tx[p].todo # {}
  /\ LET c == NextClass(p) IN
     /\ classLock[c] = NoOne
     /\ Matches(p, c) \/ tx[p].op = "sweep"
     /\ classLock' = IF Matches(p, c) THEN [classLock EXCEPT ![c] = p] ELSE classLock
     /\ tx' = [tx EXCEPT ![p].todo = @ \ {c},
                         ![p].dirty = IF Matches(p, c) THEN Put(@, c, Version(p, c)) ELSE @]
  /\ UNCHANGED <<tables, rowLock>>

\* The order's status update, or the INSERT of its holds, which waits for
\* another insert of the same rows to end and is refused when they are there.
WriteRows(p) ==
  /\ tx[p].step = "classes" /\ tx[p].todo = {}
  /\ \A r \in tx[p].cand : rowLock[r[1]][r[2]] = NoOne /\ RowAt(r) = "none"
  /\ tx' = [tx EXCEPT ![p].step = "commit", ![p].cand = {},
                      ![p].seen = @ \cup {ReadOf(r) : r \in tx[p].cand}]
  /\ rowLock' = [o \in Orders |-> [c \in Classes |->
                   IF <<o, c>> \in tx[p].cand THEN p ELSE rowLock[o][c]]]
  /\ UNCHANGED <<tables, classLock>>

-----------------------------------------------------------------------------
(***************************************************************************)
(* The end of a transaction.                                               *)
(***************************************************************************)
After == [reserve |-> "ACTIVE", confirm |-> "CONFIRMED", release |-> "CANCELLED",
          sweep |-> "EXPIRED", delete |-> "none", update |-> "none"]

Unlock(p) ==
  /\ classLock' = [c \in Classes |-> IF classLock[c] = p THEN NoOne ELSE classLock[c]]
  /\ rowLock' = [o \in Orders |-> [c \in Classes |->
                   IF rowLock[o][c] = p THEN NoOne ELSE rowLock[o][c]]]
  /\ tx' = [tx EXCEPT ![p] = Idle]

\* The rows written are those of the classes that moved: Release passes over
\* rows already terminal, the sweep over drifted classes.
Written(p) == {r \in SeenRows(p) : r[2] \in DOMAIN tx[p].dirty}

Commit(p) ==
  /\ tx[p].step = "commit"
  /\ class' = [c \in Classes |-> IF c \in DOMAIN tx[p].dirty THEN tx[p].dirty[c] ELSE class[c]]
  /\ row' = [o \in Orders |-> [c \in Classes |->
               IF <<o, c>> \in Written(p) THEN After[tx[p].op] ELSE row[o][c]]]
  /\ lapsed' = IF tx[p].op = "reserve" THEN lapsed \ {r[1] : r \in SeenRows(p)} ELSE lapsed
  /\ Unlock(p)

Rollback(p) == tx[p] # Idle /\ Unlock(p) /\ UNCHANGED tables

-----------------------------------------------------------------------------
Begin(p) ==
  \/ \E o \in Orders : \/ BeginReserve(p, o)
                       \/ \E op \in {"confirm", "release"} : BeginOnOrder(p, o, op)
  \/ BeginSweep(p)
  \/ \E c \in Classes :
       \/ \E t \in Totals \cup {class[c].total}, s \in {"ACTIVE", "INACTIVE"} : BeginUpdate(p, c, t, s)
       \/ BeginDelete(p, c)

Continue(p) == CountLive(p) \/ LockRow(p) \/ Decide(p) \/ UpdateClass(p) \/ WriteRows(p)

\* A single INSERT and the passing of time touch nothing another call holds.
Outside ==
  /\ \/ \E c \in Classes, t \in Totals : Create(c, t)
     \/ \E o \in Orders : Lapse(o)
  /\ UNCHANGED <<classLock, rowLock, tx>>

TxInit ==
  /\ Init
  /\ classLock = [c \in Classes |-> NoOne]
  /\ rowLock = [o \in Orders |-> [c \in Classes |-> NoOne]]
  /\ tx = [p \in Procs |-> Idle]

TxNext == Outside \/ \E p \in Procs : Begin(p) \/ Continue(p) \/ Commit(p) \/ Rollback(p)

TxSpec == TxInit /\ [][TxNext]_txVars

-----------------------------------------------------------------------------
\* Interleaved under row locks, the statements of all calls amount to one
\* atomic ledger step per committed transaction and none per rolled back one.
ImplementsLedger == Spec

\* What a call has read FOR UPDATE, or found free to insert, is still so when
\* it commits, however long it waited for class locks in between.
ReadsStayTrue ==
  \A p \in Procs : \A s \in tx[p].seen : row[s[1]][s[2]] = s[3]

\* Who keeps p from its next statement.
BlockedBy(p) ==
  CASE tx[p].step = "rows" /\ tx[p].cand # {}    -> {rowLock[NextRow(p)[1]][NextRow(p)[2]]} \ {NoOne}
    [] tx[p].step = "classes" /\ tx[p].todo # {} -> {classLock[NextClass(p)]} \ {NoOne}
    [] tx[p].step = "classes" /\ tx[p].todo = {} ->
         {rowLock[r[1]][r[2]] : r \in {r \in tx[p].cand : RowAt(r) = "none"}} \ {NoOne}
    [] OTHER                                     -> {}

Deadlocked(S) == S # {} /\ \A p \in S : BlockedBy(p) \cap S # {}

\* Ascending locks keep Reserve, Confirm, Release and the sweep from ever
\* waiting in a circle with each other, also for several classes.  Every circle
\* has a Delete in it that wants a terminal row of an order which a Confirm or a
\* Release has locked, while that call waits, alone or behind others, for a
\* class; Postgres then rolls one of them back.
OnlyDeletesDeadlock ==
  \A S \in SUBSET Procs :
     Deadlocked(S) => /\ "delete" \in {tx[p].op : p \in S}
                      /\ {"confirm", "release"} \cap {tx[p].op : p \in S} # {}
=============================================================================
