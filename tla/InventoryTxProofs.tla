-------------------------- MODULE InventoryTxProofs --------------------------
(***************************************************************************)
(* Proofs about InventoryTx, for every number of connections: however the  *)
(* statements interleave, the committed tables follow Inventory!Spec, so   *)
(* that everything InventoryProofs shows of the ledger holds of the tables *)
(* under row locks.  The argument is the one of two-phase locking: what a  *)
(* call has computed from a row stays true until it commits, because only  *)
(* the holder of the row's lock writes it.                                 *)
(***************************************************************************)
EXTENDS InventoryTx, InventoryProofs, WellFoundedInduction

-----------------------------------------------------------------------------
(***************************************************************************)
(* Operators of the model.                                                 *)
(***************************************************************************)
LEMMA LessInRel ==
  ASSUME NEW x \in Nat, NEW y \in Nat, x < y
  PROVE  <<x, y>> \in OpToRel(<, Nat)
<1>1. <<x, y>> \in Nat \X Nat
  OBVIOUS
<1>2. <<x, y>>[1] < <<x, y>>[2]
  OBVIOUS
<1> QED BY <1>1, <1>2, Zenon DEF OpToRel

\* A non-empty set of numbers has a least one.
LEMMA LeastOf ==
  ASSUME NEW S \in SUBSET Nat, S # {}
  PROVE  \E n \in S : \A m \in S : n <= m
<1>1. PICK n \in S : \A m \in S : ~ (<<m, n>> \in OpToRel(<, Nat))
  BY NatLessThanWellFounded, WFMin
<1>2. \A m \in S : ~ (m < n)
  BY <1>1, LessInRel
<1> QED BY <1>2

\* A non-empty set of classes has a first one.
LEMMA FirstIsLeast ==
  ASSUME NEW S \in SUBSET Classes, S # {}
  PROVE  /\ First(S) \in S
         /\ \A d \in S : First(S) <= d
<1>1. \E n \in S : \A m \in S : n <= m
  BY ClassesAssumption, LeastOf
<1> QED BY <1>1 DEF First

\* The row a call locks next is one it still has to lock, of the first class.
LEMMA NextRowIsFirst ==
  ASSUME NEW p \in Procs, tx[p].cand \in SUBSET (Orders \X Classes), tx[p].cand # {}
  PROVE  /\ NextRow(p) \in tx[p].cand
         /\ \A r \in tx[p].cand : NextRow(p)[2] <= r[2]
<1> DEFINE S == {q[2] : q \in tx[p].cand}
<1>1. S \in SUBSET Classes /\ S # {}
  OBVIOUS
<1>2. First(S) \in S /\ \A d \in S : First(S) <= d
  BY <1>1, FirstIsLeast
<1>3. \E r \in tx[p].cand : r[2] = First(S)
  BY <1>2
<1>4. NextRow(p) \in tx[p].cand /\ NextRow(p)[2] = First(S)
  BY <1>3 DEF NextRow
<1> QED BY <1>2, <1>4

\* The tickets of an order's lines in one class are what the line asks for.
LEMMA OrderQty ==
  ASSUME NEW o \in Orders, NEW batch \in SUBSET ({o} \X Classes), NEW c \in Classes, <<o, c>> \in batch
  PROVE  BatchQty(batch, c) = Demand[o][c]
<1>1. Demand[o][c] \in 0..MaxQty
  BY DemandAssumption
<1>2. BatchUnits(batch, c) = {o} \X (1..Demand[o][c])
  BY <1>1, QtyAssumption DEF BatchUnits
<1> QED BY <1>2, LineUnits DEF BatchQty

\* A sweep of held rows never takes more from a class than is reserved.
LEMMA HeldBatchFits ==
  ASSUME LedgerInv, NEW batch \in SUBSET (Orders \X Classes), NEW c \in Classes,
         \A r \in batch : RowAt(r) = "ACTIVE"
  PROVE  /\ BatchQty(batch, c) \in Nat
         /\ BatchQty(batch, c) <= class[c].reserved
<1>1. BatchUnits(batch, c) \in SUBSET Units(c, "ACTIVE")
  BY DEF BatchUnits, Units, RowAt
<1>2. BatchUnits(batch, c) \in SUBSET (Orders \X (1..MaxQty)) /\ Units(c, "ACTIVE") \in SUBSET (Orders \X (1..MaxQty))
  BY DEF BatchUnits, Units
<1>3. IsFiniteSet(Units(c, "ACTIVE"))
  BY <1>2, TicketsAreFinite
<1>4. Cardinality(BatchUnits(batch, c)) <= Cardinality(Units(c, "ACTIVE"))
  BY <1>1, <1>3, FS_Subset
<1>5. Cardinality(BatchUnits(batch, c)) \in Nat
  BY <1>2, TicketsAreFinite
<1> QED BY <1>4, <1>5 DEF BatchQty, LedgerInv, CountersMatchRows

-----------------------------------------------------------------------------
(***************************************************************************)
(* The inductive invariant.                                                *)
(***************************************************************************)
Versions == UNION {[D -> TicketClass] : D \in SUBSET Classes}

Calls == {"idle", "reserve", "confirm", "release", "sweep", "update", "delete"}
Steps == {"none", "rows", "count", "classes", "commit"}

Transaction ==
  [op : Calls, step : Steps, cand : SUBSET (Orders \X Classes),
   seen : SUBSET (Orders \X Classes \X RowStatus), todo : SUBSET Classes, dirty : Versions]

TxTypeOK ==
  /\ classLock \in [Classes -> Procs \cup {NoOne}]
  /\ rowLock \in [Orders -> [Classes -> Procs \cup {NoOne}]]
  /\ tx \in [Procs -> Transaction]

\* A row never outlives its class, terminal rows included.
RowsHaveTheirClass ==
  \A o \in Orders, c \in Classes : row[o][c] # "none" => Present(c)

\* An order has all its lines or none, but for the classes deleted since.
OrdersAreWhole ==
  \A o \in Orders, c \in Classes :
     Rows(o) # {} /\ c \in Ids(o) => row[o][c] # "none" \/ class[c].status = "deleted"

Tables == LedgerInv /\ RowsHaveTheirClass /\ OrdersAreWhole

\* A connection holds the lock of exactly the rows it has read for update or
\* written, and what it read is still so.
HoldsItsRows(p) ==
  /\ \A c \in Classes : classLock[c] = p <=> c \in DOMAIN tx[p].dirty
  /\ \A o \in Orders, c \in Classes : rowLock[o][c] = p <=> <<o, c>> \in SeenRows(p)
  /\ \A s \in tx[p].seen : row[s[1]][s[2]] = s[3]

IdleStage(p) == tx[p].op = "idle" => tx[p] = Idle

\* Reserve: the holds it is to insert are those of one order.
ReserveStage(p) ==
  tx[p].op = "reserve" =>
    \E o \in Orders :
      /\ tx[p].step \in {"classes", "commit"}
      /\ tx[p].cand \cup SeenRows(p) = {o} \X Ids(o)
      /\ tx[p].step = "classes" => tx[p].seen = {}
      /\ tx[p].step = "commit" => tx[p].cand = {}
      /\ \A s \in tx[p].seen : s[3] = "none"

\* Confirm and Release: the rows seen or still to lock are all the order has,
\* but for those of deleted classes; they are locked by class.
OrderStage(p) ==
  tx[p].op \in {"confirm", "release"} =>
    \E o \in Orders :
      /\ tx[p].step \in {"rows", "classes", "commit"}
      /\ tx[p].cand \cup SeenRows(p) \subseteq {o} \X Classes
      /\ \A c \in Ids(o) : <<o, c>> \in tx[p].cand \cup SeenRows(p) \/ class[c].status = "deleted"
      /\ \A r \in tx[p].cand : RowAt(r) # "none" \/ class[r[2]].status = "deleted"
      /\ \A s \in tx[p].seen : s[3] # "none"
      /\ \A s \in tx[p].seen, r \in tx[p].cand : s[2] < r[2]
      /\ tx[p].step = "rows" => tx[p].todo = {} /\ DOMAIN tx[p].dirty = {}
      /\ tx[p].step # "rows" =>
           /\ tx[p].cand = {}
           /\ tx[p].op = "confirm" => tx[p].seen # {} /\ SeenStatuses(p) \subseteq {"ACTIVE", "EXPIRED"}
           /\ tx[p].op = "release" => "ACTIVE" \in SeenStatuses(p) /\ "CONFIRMED" \notin SeenStatuses(p)

SweepStage(p) ==
  tx[p].op = "sweep" =>
    /\ tx[p].step \in {"classes", "commit"}
    /\ tx[p].cand = {} /\ tx[p].seen # {}
    /\ Cardinality(SeenRows(p)) <= BatchSize
    /\ \A s \in tx[p].seen : s[3] = "ACTIVE" /\ s[1] \in lapsed

UpdateStage(p) ==
  tx[p].op = "update" =>
    \E c \in Classes :
      \E t \in Totals \cup {class[c].total}, st \in {"ACTIVE", "INACTIVE"} :
        /\ tx[p].step = "commit" /\ tx[p].cand = {} /\ tx[p].seen = {}
        /\ Present(c)
        /\ t # class[c].total => t >= class[c].reserved + class[c].sold
        /\ tx[p].dirty = Only(c, [class[c] EXCEPT !.total = t, !.status = st])

\* Delete: once it has counted, no row of its class is live until it ends.
DeleteStage(p) ==
  tx[p].op = "delete" =>
    \E c \in Classes :
      /\ tx[p].step \in {"count", "rows", "commit"}
      /\ Present(c)
      /\ tx[p].dirty = Only(c, [status |-> "deleted", total |-> 0, reserved |-> 0, sold |-> 0])
      /\ tx[p].cand \cup SeenRows(p) \subseteq Orders \X {c}
      /\ tx[p].cand \cap SeenRows(p) = {}
      /\ \A s \in tx[p].seen : s[3] # "none"
      /\ tx[p].step = "count" => tx[p].cand = {} /\ tx[p].seen = {}
      /\ tx[p].step # "count" => \A o \in Orders : row[o][c] \notin Live
      /\ tx[p].step = "commit" => \A o \in Orders : row[o][c] = "none" \/ <<o, c>> \in SeenRows(p)

\* The classes a call has to update.
Aim(p) ==
  CASE tx[p].op = "reserve" -> {r[2] : r \in tx[p].cand \cup SeenRows(p)}
    [] tx[p].op = "release" -> SeenClasses(p, {"ACTIVE"})
    [] OTHER                -> {s[2] : s \in tx[p].seen}

\* It takes them in ascending order, each matches, and the version it has
\* written is the one it would write now.
MoveStage(p) ==
  tx[p].op \in {"reserve", "confirm", "release", "sweep"} /\ tx[p].step \in {"classes", "commit"} =>
    /\ tx[p].todo \subseteq Aim(p)
    /\ DOMAIN tx[p].dirty = Aim(p) \ tx[p].todo
    /\ tx[p].step = "commit" => tx[p].todo = {}
    /\ \A c \in DOMAIN tx[p].dirty : Matches(p, c) /\ tx[p].dirty[c] = Version(p, c)
    /\ \A d \in DOMAIN tx[p].dirty, c \in tx[p].todo : d < c

Stages(p) ==
  /\ IdleStage(p) /\ ReserveStage(p) /\ OrderStage(p) /\ SweepStage(p)
  /\ UpdateStage(p) /\ DeleteStage(p) /\ MoveStage(p)

TxInv ==
  /\ TxTypeOK
  /\ Tables
  /\ \A p \in Procs : HoldsItsRows(p) /\ Stages(p)
-----------------------------------------------------------------------------
(***************************************************************************)
(* The ledger keeps its rows with their classes.                           *)
(***************************************************************************)

\* A deleted class stays deleted, and a row goes only with its class.
DeletedForGood ==
  /\ \A c \in Classes : class[c].status = "deleted" => class'[c].status = "deleted"
  /\ \A o \in Orders, c \in Classes :
       row[o][c] # "none" => row'[o][c] # "none" \/ class'[c].status = "deleted"

LEMMA TablesMove ==
  ASSUME Tables, Next
  PROVE  RowsHaveTheirClass' /\ OrdersAreWhole' /\ DeletedForGood
<1>1. TypeOK /\ RowsHaveTheirClass /\ OrdersAreWhole
  BY DEF Tables, LedgerInv
<1>2. \A c \in Classes : class[c] \in TicketClass
  BY <1>1 DEF TypeOK
<1>3. ASSUME NEW o \in Orders, \E open \in SUBSET Classes : Reserve(o, open)
      PROVE  RowsHaveTheirClass' /\ OrdersAreWhole' /\ DeletedForGood
  <2>1. PICK open \in SUBSET Classes : Reserve(o, open)
    BY <1>3
  <2>2. \A c \in Ids(o) : Present(c)
    BY <2>1 DEF Reserve, CanReserve, Missed, OnSale, Present
  <2>3. \A c \in Classes : class'[c].status = class[c].status
    BY <2>1, <1>2 DEF Reserve, TicketClass
  <2>4. \A q \in Orders, c \in Classes :
          row'[q][c] = IF q = o THEN IF c \in Ids(o) THEN "ACTIVE" ELSE "none" ELSE row[q][c]
    BY <2>1, <1>1 DEF Reserve, TypeOK
  <2>5. RowsHaveTheirClass'
    BY <1>1, <2>2, <2>3, <2>4 DEF RowsHaveTheirClass, Present
  <2>6. OrdersAreWhole'
    BY <1>1, <2>3, <2>4 DEF OrdersAreWhole, Rows, Ids
  <2>7. DeletedForGood
    BY <1>1, <2>1, <2>3, <2>4 DEF DeletedForGood, Reserve, CanReserve, Rows
  <2> QED BY <2>5, <2>6, <2>7
<1>4. ASSUME \A c \in Classes : class'[c].status = class[c].status,
             \A o \in Orders, c \in Classes : row'[o][c] = "none" <=> row[o][c] = "none"
      PROVE  RowsHaveTheirClass' /\ OrdersAreWhole' /\ DeletedForGood
  <2>1. RowsHaveTheirClass'
    BY <1>1, <1>4 DEF RowsHaveTheirClass, Present
  <2>2. OrdersAreWhole'
    BY <1>1, <1>4 DEF OrdersAreWhole, Rows, Ids
  <2>3. DeletedForGood
    BY <1>4 DEF DeletedForGood
  <2> QED BY <2>1, <2>2, <2>3
<1>5. ASSUME NEW o \in Orders, Confirm(o) \/ Release(o) \/ Lapse(o)
      PROVE  /\ \A c \in Classes : class'[c].status = class[c].status
             /\ \A q \in Orders, c \in Classes : row'[q][c] = "none" <=> row[q][c] = "none"
  <2>1. CASE Confirm(o)
    BY <2>1, <1>1, <1>2 DEF Confirm, TypeOK, TicketClass, Rows
  <2>2. CASE Release(o)
    BY <2>2, <1>1, <1>2 DEF Release, TypeOK, TicketClass, Rows
  <2>3. CASE Lapse(o)
    BY <2>3 DEF Lapse
  <2> QED BY <1>5, <2>1, <2>2, <2>3
<1>6. ASSUME NEW batch \in SUBSET Overdue, Expire(batch)
      PROVE  /\ \A c \in Classes : class'[c].status = class[c].status
             /\ \A q \in Orders, c \in Classes : row'[q][c] = "none" <=> row[q][c] = "none"
  <2>1. \A r \in batch : row[r[1]][r[2]] = "ACTIVE"
    BY DEF Overdue
  <2>2. \A q \in Orders, c \in Classes :
          row'[q][c] = row[q][c] \/ (<<q, c>> \in batch /\ row'[q][c] = "EXPIRED")
    BY <1>6 DEF Expire
  <2>3. \A c \in Classes : class'[c].status = class[c].status
    BY <1>6, <1>2 DEF Expire, TicketClass
  <2>4. \A q \in Orders, c \in Classes : <<q, c>> \in batch => row[q][c] = "ACTIVE"
    BY <2>1
  <2> QED BY <2>2, <2>3, <2>4
<1>7. ASSUME NEW k \in Classes, NEW t \in Totals, Create(k, t)
      PROVE  RowsHaveTheirClass' /\ OrdersAreWhole' /\ DeletedForGood
  <2>1. /\ \A c \in Classes : class[c].status = "deleted" => class'[c].status = "deleted"
        /\ \A c \in Classes : class'[c].status = class[c].status \/ class'[c].status = "ACTIVE"
        /\ row' = row
    BY <1>7, <1>1 DEF Create, TypeOK
  <2>2. RowsHaveTheirClass'
    BY <1>1, <2>1 DEF RowsHaveTheirClass, Present
  <2>3. OrdersAreWhole'
    BY <1>1, <2>1 DEF OrdersAreWhole, Rows, Ids
  <2>4. DeletedForGood
    BY <2>1 DEF DeletedForGood
  <2> QED BY <2>2, <2>3, <2>4
<1>8. ASSUME NEW k \in Classes, NEW t \in Totals \cup {class[k].total}, NEW s \in {"ACTIVE", "INACTIVE"},
             Update(k, t, s)
      PROVE  RowsHaveTheirClass' /\ OrdersAreWhole' /\ DeletedForGood
  <2>1. /\ \A c \in Classes : class[c].status = "deleted" => class'[c].status = "deleted"
        /\ \A c \in Classes : Present(c) => class'[c].status \in {"ACTIVE", "INACTIVE"}
        /\ row' = row
    BY <1>8, <1>1, <1>2 DEF Update, TypeOK, Present, TicketClass
  <2>2. RowsHaveTheirClass'
    BY <1>1, <2>1 DEF RowsHaveTheirClass, Present
  <2>3. OrdersAreWhole'
    BY <1>1, <2>1 DEF OrdersAreWhole, Rows, Ids
  <2>4. DeletedForGood
    BY <2>1 DEF DeletedForGood
  <2> QED BY <2>2, <2>3, <2>4
<1>9. ASSUME NEW k \in Classes, Delete(k)
      PROVE  RowsHaveTheirClass' /\ OrdersAreWhole' /\ DeletedForGood
  <2>1. /\ \A c \in Classes : c # k => class'[c] = class[c]
        /\ class'[k].status = "deleted"
        /\ \A o \in Orders, c \in Classes : row'[o][c] = IF c = k THEN "none" ELSE row[o][c]
    BY <1>9, <1>1 DEF Delete, TypeOK
  <2>2. RowsHaveTheirClass'
    BY <1>1, <2>1 DEF RowsHaveTheirClass, Present
  <2>3. OrdersAreWhole'
    BY <1>1, <2>1 DEF OrdersAreWhole, Rows, Ids
  <2>4. DeletedForGood
    BY <2>1 DEF DeletedForGood
  <2> QED BY <2>2, <2>3, <2>4
<1> QED BY <1>3, <1>4, <1>5, <1>6, <1>7, <1>8, <1>9
        DEF Next, Orderer, Organiser, BatchExpireReservations

\* A committed step of the ledger, and no step at all, keep the tables sound.
LEMMA LedgerStepKeepsTables ==
  ASSUME Tables, [Next]_vars
  PROVE  Tables' /\ DeletedForGood
<1>1. LedgerInv'
  BY NextKeepsLedger DEF Tables
<1>2. CASE Next
  BY <1>1, <1>2, TablesMove DEF Tables
<1>3. CASE UNCHANGED vars
  <2>1. RowsHaveTheirClass' /\ OrdersAreWhole'
    BY <1>3 DEF vars, Tables, RowsHaveTheirClass, OrdersAreWhole, Rows, Ids, Present
  <2>2. DeletedForGood
    BY <1>3 DEF vars, DeletedForGood
  <2> QED BY <1>1, <2>1, <2>2 DEF Tables
<1> QED BY <1>2, <1>3
-----------------------------------------------------------------------------
(***************************************************************************)
(* A connection that others leave alone.                                   *)
(***************************************************************************)

\* What the other connections, new classes and the clock may do to the rows a
\* connection p holds: nothing.
LeftAlone(p) ==
  /\ tx'[p] = tx[p]
  /\ \A c \in Classes : classLock'[c] = p <=> classLock[c] = p
  /\ \A o \in Orders, c \in Classes : rowLock'[o][c] = p <=> rowLock[o][c] = p
  /\ \A c \in DOMAIN tx[p].dirty : /\ class'[c] = class[c]
                                   /\ \A o \in Orders : row'[o][c] = row[o][c]
  /\ \A s \in tx[p].seen : /\ row'[s[1]][s[2]] = row[s[1]][s[2]]
                           /\ s[3] = "ACTIVE" /\ s[1] \in lapsed => s[1] \in lapsed'
  /\ \A c \in Classes : class[c].status = "deleted" => class'[c].status = "deleted"
  /\ \A o \in Orders, c \in Classes :
       row[o][c] # "none" => row'[o][c] # "none" \/ class'[c].status = "deleted"

LEMMA LeftAloneKeeps ==
  ASSUME NEW p \in Procs, HoldsItsRows(p), Stages(p), LeftAlone(p)
  PROVE  HoldsItsRows(p)' /\ Stages(p)'
<1>1. tx'[p] = tx[p]
  BY DEF LeftAlone
<1>2. /\ SeenRows(p)' = SeenRows(p) /\ SeenStatuses(p)' = SeenStatuses(p) /\ Aim(p)' = Aim(p)
      /\ \A st : SeenClasses(p, st)' = SeenClasses(p, st)
  <2>1. SeenRows(p)' = SeenRows(p) /\ SeenStatuses(p)' = SeenStatuses(p)
    BY <1>1 DEF SeenRows, SeenStatuses
  <2>2. ASSUME NEW st PROVE SeenClasses(p, st)' = SeenClasses(p, st)
    BY <1>1 DEF SeenClasses
  <2>3. Aim(p)' = Aim(p)
    BY <1>1, <2>1 DEF Aim, SeenClasses
  <2> QED BY <2>1, <2>2, <2>3
<1>3. HoldsItsRows(p)'
  <2>1. \A c \in Classes : classLock'[c] = p <=> c \in DOMAIN tx'[p].dirty
    BY <1>1 DEF HoldsItsRows, LeftAlone
  <2>2. \A o \in Orders, c \in Classes : rowLock'[o][c] = p <=> <<o, c>> \in SeenRows(p)'
    BY <1>2 DEF HoldsItsRows, LeftAlone
  <2>3. \A s \in tx'[p].seen : row'[s[1]][s[2]] = s[3]
    BY <1>1 DEF HoldsItsRows, LeftAlone
  <2> QED BY <2>1, <2>2, <2>3 DEF HoldsItsRows
<1>4. IdleStage(p)'
  BY <1>1 DEF Stages, IdleStage, Idle
<1>5. ReserveStage(p)'
  BY <1>1, <1>2 DEF Stages, ReserveStage, Ids
<1>6. OrderStage(p)'
  <2> SUFFICES ASSUME tx[p].op \in {"confirm", "release"} PROVE OrderStage(p)'
    BY <1>1 DEF OrderStage
  <2>1. PICK o \in Orders :
      /\ tx[p].step \in {"rows", "classes", "commit"}
      /\ tx[p].cand \cup SeenRows(p) \subseteq {o} \X Classes
      /\ \A c \in Ids(o) : <<o, c>> \in tx[p].cand \cup SeenRows(p) \/ class[c].status = "deleted"
      /\ \A r \in tx[p].cand : RowAt(r) # "none" \/ class[r[2]].status = "deleted"
      /\ \A s \in tx[p].seen : s[3] # "none"
      /\ \A s \in tx[p].seen, r \in tx[p].cand : s[2] < r[2]
      /\ tx[p].step = "rows" => tx[p].todo = {} /\ DOMAIN tx[p].dirty = {}
      /\ tx[p].step # "rows" =>
           /\ tx[p].cand = {}
           /\ tx[p].op = "confirm" => tx[p].seen # {} /\ SeenStatuses(p) \subseteq {"ACTIVE", "EXPIRED"}
           /\ tx[p].op = "release" => "ACTIVE" \in SeenStatuses(p) /\ "CONFIRMED" \notin SeenStatuses(p)
    BY DEF Stages, OrderStage
  <2>2. \A c \in Ids(o) : <<o, c>> \in tx'[p].cand \cup SeenRows(p)' \/ class'[c].status = "deleted"
    BY <1>1, <1>2, <2>1 DEF LeftAlone, Ids
  <2>3. \A r \in tx'[p].cand : row'[r[1]][r[2]] # "none" \/ class'[r[2]].status = "deleted"
    BY <1>1, <2>1 DEF LeftAlone, RowAt
  <2> QED BY <1>1, <1>2, <2>1, <2>2, <2>3 DEF OrderStage, Ids, RowAt
<1>7. SweepStage(p)'
  BY <1>1, <1>2 DEF Stages, SweepStage, LeftAlone
<1>8. UpdateStage(p)'
  <2> SUFFICES ASSUME tx[p].op = "update" PROVE UpdateStage(p)'
    BY <1>1 DEF UpdateStage
  <2>1. PICK c \in Classes : \E t \in Totals \cup {class[c].total}, st \in {"ACTIVE", "INACTIVE"} :
        /\ tx[p].step = "commit" /\ tx[p].cand = {} /\ tx[p].seen = {}
        /\ Present(c)
        /\ t # class[c].total => t >= class[c].reserved + class[c].sold
        /\ tx[p].dirty = Only(c, [class[c] EXCEPT !.total = t, !.status = st])
    BY DEF Stages, UpdateStage
  <2>2. c \in DOMAIN tx[p].dirty
    BY <2>1 DEF Only
  <2>3. class'[c] = class[c]
    BY <2>2 DEF LeftAlone
  <2>4. PICK t \in Totals \cup {class[c].total}, st \in {"ACTIVE", "INACTIVE"} :
        /\ tx[p].step = "commit" /\ tx[p].cand = {} /\ tx[p].seen = {}
        /\ Present(c)
        /\ t # class[c].total => t >= class[c].reserved + class[c].sold
        /\ tx[p].dirty = Only(c, [class[c] EXCEPT !.total = t, !.status = st])
    BY <2>1
  <2>5. /\ t \in Totals \cup {class'[c].total}
        /\ tx'[p].step = "commit" /\ tx'[p].cand = {} /\ tx'[p].seen = {}
        /\ Present(c)'
        /\ t # class'[c].total => t >= class'[c].reserved + class'[c].sold
        /\ tx'[p].dirty = Only(c, [class'[c] EXCEPT !.total = t, !.status = st])
    BY <2>3, <2>4, <1>1 DEF Present
  <2> QED BY <2>5 DEF UpdateStage, Only
<1>9. DeleteStage(p)'
  <2> SUFFICES ASSUME tx[p].op = "delete" PROVE DeleteStage(p)'
    BY <1>1 DEF DeleteStage
  <2>1. PICK c \in Classes :
      /\ tx[p].step \in {"count", "rows", "commit"}
      /\ Present(c)
      /\ tx[p].dirty = Only(c, [status |-> "deleted", total |-> 0, reserved |-> 0, sold |-> 0])
      /\ tx[p].cand \cup SeenRows(p) \subseteq Orders \X {c}
      /\ tx[p].cand \cap SeenRows(p) = {}
      /\ \A s \in tx[p].seen : s[3] # "none"
      /\ tx[p].step = "count" => tx[p].cand = {} /\ tx[p].seen = {}
      /\ tx[p].step # "count" => \A o \in Orders : row[o][c] \notin Live
      /\ tx[p].step = "commit" => \A o \in Orders : row[o][c] = "none" \/ <<o, c>> \in SeenRows(p)
    BY DEF Stages, DeleteStage
  <2>2. c \in DOMAIN tx[p].dirty
    BY <2>1 DEF Only
  <2>3. class'[c] = class[c] /\ \A o \in Orders : row'[o][c] = row[o][c]
    BY <2>2 DEF LeftAlone
  <2> QED BY <2>1, <2>3, <1>1, <1>2 DEF DeleteStage, Present, Only
<1>10. MoveStage(p)'
  <2> SUFFICES ASSUME tx[p].op \in {"reserve", "confirm", "release", "sweep"}, tx[p].step \in {"classes", "commit"}
               PROVE  MoveStage(p)'
    BY <1>1 DEF MoveStage
  <2>1. ASSUME NEW c \in DOMAIN tx[p].dirty
        PROVE  Matches(p, c)' /\ tx'[p].dirty[c] = Version(p, c)'
    <3>1. Matches(p, c) /\ tx[p].dirty[c] = Version(p, c)
      BY DEF Stages, MoveStage
    <3>2. class'[c] = class[c]
      BY DEF LeftAlone
    <3>3. Qty(p, c)' = Qty(p, c)
      BY <1>1, <1>2 DEF Qty, BatchQty, BatchUnits
    <3>4. SeenClasses(p, {"EXPIRED"})' = SeenClasses(p, {"EXPIRED"})
      BY <1>2
    <3>5. Matches(p, c)' = Matches(p, c)
      BY <1>1, <3>2, <3>3, <3>4 DEF Matches, OnSale, Fits
    <3>6. Version(p, c)' = Version(p, c)
      BY <1>1, <3>2, <3>3, <3>4 DEF Version
    <3> QED BY <1>1, <3>1, <3>5, <3>6
  <2>2. /\ tx'[p].todo \subseteq Aim(p)'
        /\ DOMAIN tx'[p].dirty = Aim(p)' \ tx'[p].todo
        /\ tx'[p].step = "commit" => tx'[p].todo = {}
        /\ \A d \in DOMAIN tx'[p].dirty, c \in tx'[p].todo : d < c
    BY <1>1, <1>2 DEF Stages, MoveStage
  <2>3. \A c \in DOMAIN tx'[p].dirty : Matches(p, c)' /\ tx'[p].dirty[c] = Version(p, c)'
    BY <1>1, <2>1
  <2> QED BY <2>2, <2>3 DEF MoveStage
<1> QED BY <1>3, <1>4, <1>5, <1>6, <1>7, <1>8, <1>9, <1>10 DEF Stages
-----------------------------------------------------------------------------
(***************************************************************************)
(* Statements: the tables do not move, locks are taken only from nobody.   *)
(***************************************************************************)

\* What every statement of p but the last one does to the rest.
Statement(p) ==
  /\ UNCHANGED tables
  /\ \A q \in Procs : q # p => tx'[q] = tx[q]
  /\ \A c \in Classes : classLock'[c] = classLock[c] \/ (classLock[c] = NoOne /\ classLock'[c] = p)
  /\ \A o \in Orders, c \in Classes :
       rowLock'[o][c] = rowLock[o][c] \/ (rowLock[o][c] = NoOne /\ rowLock'[o][c] = p)

LEMMA StatementKeeps ==
  ASSUME TxInv, NEW p \in Procs, Statement(p), TxTypeOK', HoldsItsRows(p)', Stages(p)'
  PROVE  TxInv'
<1>1. Tables'
  <2>1. class' = class /\ row' = row /\ lapsed' = lapsed
    BY DEF Statement, tables
  <2>2. [Next]_vars
    BY <2>1 DEF vars
  <2> QED BY <2>2, LedgerStepKeepsTables DEF TxInv
<1>2. ASSUME NEW q \in Procs
      PROVE  HoldsItsRows(q)' /\ Stages(q)'
  <2>1. CASE q = p
    BY <2>1
  <2>2. CASE q # p
    <3>1. LeftAlone(q)
      BY <2>2, ProcsAssumption DEF LeftAlone, Statement, tables
    <3> QED BY <3>1, LeftAloneKeeps DEF TxInv
  <2> QED BY <2>1, <2>2
<1> QED BY <1>1, <1>2 DEF TxInv

LEMMA NoVersions == DOMAIN <<>> = {} /\ <<>> \in Versions
<1>1. DOMAIN <<>> = {} /\ <<>> \in [{} -> TicketClass]
  OBVIOUS
<1> QED BY <1>1 DEF Versions

LEMMA AreVersions ==
  ASSUME NEW D \in SUBSET Classes, NEW f \in [D -> TicketClass]
  PROVE  f \in Versions
BY DEF Versions

LEMMA VersionsFacts ==
  ASSUME NEW f \in Versions
  PROVE  /\ DOMAIN f \subseteq Classes
         /\ f \in [DOMAIN f -> TicketClass]
BY DEF Versions

LEMMA IdleHoldsNothing ==
  ASSUME TxInv, NEW p \in Procs, tx[p] = Idle
  PROVE  /\ \A c \in Classes : classLock[c] # p
         /\ \A o \in Orders, c \in Classes : rowLock[o][c] # p
<1>1. tx[p].dirty = <<>> /\ tx[p].seen = {}
  BY DEF Idle
<1>2. DOMAIN tx[p].dirty = {} /\ SeenRows(p) = {}
  BY <1>1, NoVersions DEF SeenRows
<1> QED BY <1>2 DEF TxInv, HoldsItsRows

LEMMA SecondParts ==
  ASSUME NEW o, NEW S
  PROVE  {r[2] : r \in {o} \X S} = S
<1>1. \A c \in S : <<o, c>> \in {o} \X S /\ <<o, c>>[2] = c
  OBVIOUS
<1> QED BY <1>1

LEMMA BeginReserveKeeps ==
  ASSUME TxInv, NEW p \in Procs, NEW o \in Orders, BeginReserve(p, o)
  PROVE  TxInv'
<1> DEFINE t == [Idle EXCEPT !.op = "reserve", !.step = "classes", !.cand = {o} \X Ids(o), !.todo = Ids(o)]
<1>1. tx[p] = Idle /\ tx' = [tx EXCEPT ![p] = t] /\ UNCHANGED <<class, row, lapsed, classLock, rowLock>>
  <2>2. tx[p] = Idle /\ tx' = [tx EXCEPT ![p] = t]
    BY DEF BeginReserve, Start
  <2>3. UNCHANGED <<class, row, lapsed, classLock, rowLock>>
    BY DEF BeginReserve, tables
  <2> QED BY <2>2, <2>3
<1>2. t \in Transaction
  BY NoVersions DEF Transaction, Calls, Steps, Ids, Idle
<1>3. TxTypeOK'
  BY <1>1, <1>2 DEF TxInv, TxTypeOK
<1>4. tx'[p] = t
  BY <1>1 DEF TxInv, TxTypeOK
<1>5. /\ tx'[p].op = "reserve" /\ tx'[p].step = "classes" /\ tx'[p].cand = {o} \X Ids(o)
      /\ tx'[p].seen = {} /\ tx'[p].todo = Ids(o) /\ DOMAIN tx'[p].dirty = {}
  BY <1>4, NoVersions DEF Idle
<1> HIDE DEF t
<1>6. SeenRows(p)' = {}
  BY <1>5 DEF SeenRows
<1>7. HoldsItsRows(p)'
  BY <1>1, <1>5, <1>6, IdleHoldsNothing DEF HoldsItsRows
<1>8. ReserveStage(p)'
  BY <1>5, <1>6 DEF ReserveStage, Ids
<1>9. MoveStage(p)'
  <2>1. Aim(p)' = {r[2] : r \in {o} \X Ids(o)}
    BY <1>5, <1>6 DEF Aim
  <2>2. Aim(p)' = Ids(o)
    BY <2>1, SecondParts
  <2> QED BY <1>5, <2>2 DEF MoveStage
<1>10. Stages(p)'
  BY <1>5, <1>8, <1>9 DEF Stages, IdleStage, OrderStage, SweepStage, UpdateStage, DeleteStage
<1>11. Statement(p)
  BY <1>1 DEF Statement, tables, TxInv, TxTypeOK
<1> QED BY <1>3, <1>7, <1>10, <1>11, StatementKeeps

LEMMA BeginOnOrderKeeps ==
  ASSUME TxInv, NEW p \in Procs, NEW o \in Orders, NEW op \in {"confirm", "release"}, BeginOnOrder(p, o, op)
  PROVE  TxInv'
<1> DEFINE t == [Idle EXCEPT !.op = op, !.step = "rows", !.cand = {o} \X Rows(o)]
<1>1. tx[p] = Idle /\ tx' = [tx EXCEPT ![p] = t] /\ UNCHANGED <<class, row, lapsed, classLock, rowLock>>
  <2>2. tx[p] = Idle /\ tx' = [tx EXCEPT ![p] = t]
    BY DEF BeginOnOrder, Start
  <2>3. UNCHANGED <<class, row, lapsed, classLock, rowLock>>
    BY DEF BeginOnOrder, tables
  <2> QED BY <2>2, <2>3
<1>2. t \in Transaction
  BY NoVersions DEF Transaction, Calls, Steps, Rows, Idle
<1>3. TxTypeOK'
  BY <1>1, <1>2 DEF TxInv, TxTypeOK
<1>4. tx'[p] = t
  BY <1>1 DEF TxInv, TxTypeOK
<1>5. /\ tx'[p].op = op /\ tx'[p].step = "rows" /\ tx'[p].cand = {o} \X Rows(o)
      /\ tx'[p].seen = {} /\ tx'[p].todo = {} /\ DOMAIN tx'[p].dirty = {}
  BY <1>4, NoVersions DEF Idle
<1> HIDE DEF t
<1>6. SeenRows(p)' = {}
  BY <1>5 DEF SeenRows
<1>7. HoldsItsRows(p)'
  BY <1>1, <1>5, <1>6, IdleHoldsNothing DEF HoldsItsRows
<1>8. \A c \in Ids(o) : <<o, c>> \in tx'[p].cand \/ class'[c].status = "deleted"
  BY <1>1, <1>5 DEF TxInv, Tables, OrdersAreWhole, BeginOnOrder, Rows, Ids
<1>9. OrderStage(p)'
  BY <1>1, <1>5, <1>6, <1>8 DEF OrderStage, Ids, Rows, RowAt
<1>10. Stages(p)'
  BY <1>5, <1>9 DEF Stages, IdleStage, ReserveStage, SweepStage, UpdateStage, DeleteStage, MoveStage
<1>11. Statement(p)
  BY <1>1 DEF Statement, tables, TxInv, TxTypeOK
<1> QED BY <1>3, <1>7, <1>10, <1>11, StatementKeeps
LEMMA BeginSweepKeeps ==
  ASSUME TxInv, NEW p \in Procs, BeginSweep(p)
  PROVE  TxInv'
<1> DEFINE free == {r \in Overdue : rowLock[r[1]][r[2]] = NoOne}
<1>1. PICK page \in SUBSET free :
        /\ page # {}
        /\ Cardinality(page) = BatchSize \/ (page = free /\ Cardinality(page) < BatchSize)
        /\ Start(p, [Idle EXCEPT !.op = "sweep", !.step = "classes",
                                 !.seen = {ReadOf(r) : r \in page}, !.todo = {r[2] : r \in page}])
        /\ rowLock' = [o \in Orders |-> [c \in Classes |->
                         IF <<o, c>> \in page THEN p ELSE rowLock[o][c]]]
        /\ UNCHANGED <<tables, classLock>>
  BY DEF BeginSweep
<1>2. /\ class' = class /\ row' = row /\ lapsed' = lapsed /\ classLock' = classLock
  BY <1>1 DEF tables
<1>3. /\ TypeOK /\ TxTypeOK
  BY DEF TxInv, Tables, LedgerInv
<1>4. /\ page \in SUBSET (Orders \X Classes)
      /\ \A r \in page : RowAt(r) = "ACTIVE" /\ r[1] \in lapsed /\ rowLock[r[1]][r[2]] = NoOne
  BY <1>3 DEF Overdue, TypeOK, RowAt
<1> HIDE DEF free
<1>5. Cardinality(page) <= BatchSize
  <2>1. IsFiniteSet(Orders \X Classes)
    BY OrdersAssumption, ClassesAssumption, FS_Product
  <2>2. IsFiniteSet(page)
    BY <1>4, <2>1, FS_Subset
  <2>3. Cardinality(page) \in Nat
    BY <2>2, FS_CardinalityType
  <2> QED BY <1>1, <2>3, BatchAssumption
<1> DEFINE read == {ReadOf(r) : r \in page}
           aim == {r[2] : r \in page}
           t == [Idle EXCEPT !.op = "sweep", !.step = "classes", !.seen = read, !.todo = aim]
<1>6. /\ \A r \in page : r = <<r[1], r[2]>> /\ r[1] \in Orders /\ r[2] \in Classes
      /\ \A r \in page : ReadOf(r) = <<r[1], r[2], "ACTIVE">>
  BY <1>4 DEF ReadOf
<1>7. /\ {<<s[1], s[2]>> : s \in read} = page
      /\ {s[2] : s \in read} = aim
      /\ \A s \in read : s[3] = "ACTIVE" /\ s[1] \in lapsed /\ row[s[1]][s[2]] = "ACTIVE"
      /\ read \in SUBSET (Orders \X Classes \X RowStatus) /\ aim \in SUBSET Classes
      /\ read # {}
  <2>1. {<<s[1], s[2]>> : s \in read} = page
    BY <1>6
  <2>2. {s[2] : s \in read} = aim
    BY <1>6
  <2>3. \A s \in read : s[3] = "ACTIVE" /\ s[1] \in lapsed /\ row[s[1]][s[2]] = "ACTIVE"
    BY <1>4, <1>6 DEF RowAt
  <2>4. read \in SUBSET (Orders \X Classes \X RowStatus) /\ aim \in SUBSET Classes
    BY <1>6 DEF RowStatus
  <2>5. read # {}
    BY <1>1
  <2> QED BY <2>1, <2>2, <2>3, <2>4, <2>5
<1>8. tx[p] = Idle /\ tx' = [tx EXCEPT ![p] = t]
  BY <1>1 DEF Start
<1> HIDE DEF read, aim
<1>9. t \in Transaction
  BY <1>7, NoVersions DEF Transaction, Calls, Steps, Idle
<1>10. /\ tx'[p].op = "sweep" /\ tx'[p].step = "classes" /\ tx'[p].cand = {}
       /\ tx'[p].seen = read /\ tx'[p].todo = aim /\ DOMAIN tx'[p].dirty = {}
  BY <1>3, <1>8, NoVersions DEF Idle, TxTypeOK
<1>11. TxTypeOK'
  <2>1. rowLock' \in [Orders -> [Classes -> Procs \cup {NoOne}]]
    BY <1>1, <1>3 DEF TxTypeOK
  <2> QED BY <1>2, <1>3, <1>8, <1>9, <2>1 DEF TxTypeOK
<1> HIDE DEF t
<1>12. SeenRows(p)' = page
  BY <1>7, <1>10 DEF SeenRows
<1>13. \A o \in Orders, c \in Classes : rowLock'[o][c] = IF <<o, c>> \in page THEN p ELSE rowLock[o][c]
  BY <1>1
<1>14. HoldsItsRows(p)'
  <2>1. \A c \in Classes : classLock'[c] = p <=> c \in DOMAIN tx'[p].dirty
    BY <1>2, <1>8, <1>10, IdleHoldsNothing
  <2>2. \A o \in Orders, c \in Classes : rowLock'[o][c] = p <=> <<o, c>> \in SeenRows(p)'
    BY <1>8, <1>12, <1>13, IdleHoldsNothing
  <2>3. \A s \in tx'[p].seen : row'[s[1]][s[2]] = s[3]
    BY <1>2, <1>7, <1>10
  <2> QED BY <2>1, <2>2, <2>3 DEF HoldsItsRows
<1>15. SweepStage(p)'
  BY <1>2, <1>5, <1>7, <1>10, <1>12 DEF SweepStage
<1>16. MoveStage(p)'
  <2>1. Aim(p)' = aim
    BY <1>7, <1>10 DEF Aim
  <2> QED BY <1>10, <2>1 DEF MoveStage
<1>17. Stages(p)'
  BY <1>10, <1>15, <1>16 DEF Stages, IdleStage, ReserveStage, OrderStage, UpdateStage, DeleteStage
<1>18. Statement(p)
  <2>1. \A o \in Orders, c \in Classes :
          rowLock'[o][c] = rowLock[o][c] \/ (rowLock[o][c] = NoOne /\ rowLock'[o][c] = p)
    BY <1>4, <1>13
  <2>2. \A q \in Procs : q # p => tx'[q] = tx[q]
    BY <1>3, <1>8 DEF TxTypeOK
  <2> QED BY <1>2, <2>1, <2>2 DEF Statement, tables
<1> QED BY <1>11, <1>14, <1>17, <1>18, StatementKeeps

\* Update and Delete start with the class row and nothing else.
LEMMA BeginOnClass ==
  ASSUME TxInv, NEW p \in Procs, NEW c \in Classes, LockClass(p, c), NEW t,
         Start(p, t), t.seen = {}, t.cand = {}, DOMAIN t.dirty = {c}, t \in Transaction,
         UNCHANGED <<class, row, lapsed, rowLock>>
  PROVE  TxTypeOK' /\ HoldsItsRows(p)' /\ Statement(p) /\ tx'[p] = t /\ SeenRows(p)' = {}
<1>1. TxTypeOK
  BY DEF TxInv
<1>2. tx[p] = Idle /\ tx' = [tx EXCEPT ![p] = t]
  BY DEF Start
<1>3. TxTypeOK'
  BY <1>1, <1>2 DEF TxTypeOK, LockClass
<1>4. tx'[p] = t /\ \A q \in Procs : q # p => tx'[q] = tx[q]
  BY <1>1, <1>2 DEF TxTypeOK
<1>5. SeenRows(p)' = {}
  BY <1>4 DEF SeenRows
<1>6. \A d \in Classes : classLock'[d] = IF d = c THEN p ELSE classLock[d]
  BY <1>1 DEF LockClass, TxTypeOK
<1>7. HoldsItsRows(p)'
  <2>1. \A d \in Classes : classLock'[d] = p <=> d \in DOMAIN tx'[p].dirty
    BY <1>2, <1>4, <1>6, IdleHoldsNothing
  <2>2. \A o \in Orders, d \in Classes : rowLock'[o][d] = p <=> <<o, d>> \in SeenRows(p)'
    BY <1>2, <1>5, IdleHoldsNothing
  <2> QED BY <1>4, <2>1, <2>2 DEF HoldsItsRows
<1>8. Statement(p)
  BY <1>4, <1>6 DEF Statement, tables, LockClass
<1> QED BY <1>3, <1>4, <1>5, <1>7, <1>8

LEMMA BeginUpdateKeeps ==
  ASSUME TxInv, NEW p \in Procs, NEW c \in Classes, NEW total \in Totals \cup {class[c].total},
         NEW status \in {"ACTIVE", "INACTIVE"}, BeginUpdate(p, c, total, status)
  PROVE  TxInv'
<1> DEFINE v == [class[c] EXCEPT !.total = total, !.status = status]
           t == [Idle EXCEPT !.op = "update", !.step = "commit", !.dirty = Only(c, v)]
<1>1. class[c] \in TicketClass
  BY DEF TxInv, Tables, LedgerInv, TypeOK
<1>2. v \in TicketClass
  BY <1>1, TotalsAssumption DEF TicketClass, ClassStatus
<1>3. /\ LockClass(p, c) /\ Start(p, t) /\ Present(c)
      /\ total # class[c].total => total >= class[c].reserved + class[c].sold
      /\ UNCHANGED <<class, row, lapsed, rowLock>>
  BY DEF BeginUpdate, tables
<1>4. DOMAIN Only(c, v) = {c} /\ Only(c, v) \in Versions
  <2>1. Only(c, v) \in [{c} -> TicketClass]
    BY <1>2 DEF Only
  <2> QED BY <2>1, AreVersions
<1>5. /\ t \in Transaction
      /\ t.op = "update" /\ t.step = "commit" /\ t.cand = {} /\ t.seen = {} /\ t.todo = {} /\ t.dirty = Only(c, v)
  BY <1>4 DEF Idle, Transaction, Calls, Steps
<1> HIDE DEF t
<1>6. TxTypeOK' /\ HoldsItsRows(p)' /\ Statement(p) /\ tx'[p] = t
  BY <1>3, <1>4, <1>5, BeginOnClass
<1>7. /\ tx'[p].op = "update" /\ tx'[p].step = "commit" /\ tx'[p].cand = {} /\ tx'[p].seen = {}
      /\ tx'[p].dirty = Only(c, [class'[c] EXCEPT !.total = total, !.status = status])
      /\ Present(c)' /\ total \in Totals \cup {class'[c].total}
      /\ total # class'[c].total => total >= class'[c].reserved + class'[c].sold
  BY <1>3, <1>5, <1>6 DEF Present
<1>8. UpdateStage(p)'
  BY <1>7 DEF UpdateStage, Only
<1>9. Stages(p)'
  BY <1>7, <1>8 DEF Stages, IdleStage, ReserveStage, OrderStage, SweepStage, DeleteStage, MoveStage
<1> QED BY <1>6, <1>9, StatementKeeps

LEMMA BeginDeleteKeeps ==
  ASSUME TxInv, NEW p \in Procs, NEW c \in Classes, BeginDelete(p, c)
  PROVE  TxInv'
<1> DEFINE v == [status |-> "deleted", total |-> 0, reserved |-> 0, sold |-> 0]
           t == [Idle EXCEPT !.op = "delete", !.step = "count", !.dirty = Only(c, v)]
<1>1. v \in TicketClass
  BY DEF TicketClass, ClassStatus
<1>2. /\ LockClass(p, c) /\ Start(p, t) /\ Present(c)
      /\ UNCHANGED <<class, row, lapsed, rowLock>>
  BY DEF BeginDelete, tables
<1>3. DOMAIN Only(c, v) = {c} /\ Only(c, v) \in Versions
  <2>1. Only(c, v) \in [{c} -> TicketClass]
    BY <1>1 DEF Only
  <2> QED BY <2>1, AreVersions
<1>4. /\ t \in Transaction
      /\ t.op = "delete" /\ t.step = "count" /\ t.cand = {} /\ t.seen = {} /\ t.todo = {} /\ t.dirty = Only(c, v)
  BY <1>3 DEF Idle, Transaction, Calls, Steps
<1> HIDE DEF t
<1>5. TxTypeOK' /\ HoldsItsRows(p)' /\ Statement(p) /\ tx'[p] = t /\ SeenRows(p)' = {}
  BY <1>2, <1>3, <1>4, BeginOnClass
<1>6. /\ tx'[p].op = "delete" /\ tx'[p].step = "count" /\ tx'[p].cand = {} /\ tx'[p].seen = {}
      /\ tx'[p].dirty = Only(c, v) /\ Present(c)'
  BY <1>2, <1>4, <1>5 DEF Present
<1>7. DeleteStage(p)'
  BY <1>5, <1>6 DEF DeleteStage, Only
<1>8. Stages(p)'
  BY <1>6, <1>7 DEF Stages, IdleStage, ReserveStage, OrderStage, SweepStage, UpdateStage, MoveStage
<1> QED BY <1>5, <1>8, StatementKeeps
\* What the stages say of the calls that may be at a step.
LEMMA CallsAtStep ==
  ASSUME TxInv, NEW p \in Procs
  PROVE  /\ tx[p].step = "count" => tx[p].op = "delete"
         /\ tx[p].step = "rows" => tx[p].op \in {"confirm", "release", "delete"}
         /\ tx[p].step = "classes" => tx[p].op \in {"reserve", "confirm", "release", "sweep"}
         /\ tx[p].step = "commit" => tx[p].op \in {"reserve", "confirm", "release", "sweep", "update", "delete"}
<1>1. tx[p].op \in Calls /\ Stages(p)
  BY DEF TxInv, TxTypeOK, Transaction
<1>2. /\ tx[p].op = "idle" => tx[p].step = "none"
      /\ tx[p].op = "reserve" => tx[p].step \in {"classes", "commit"}
      /\ tx[p].op = "sweep" => tx[p].step \in {"classes", "commit"}
      /\ tx[p].op = "update" => tx[p].step = "commit"
      /\ tx[p].op \in {"confirm", "release"} => tx[p].step \in {"rows", "classes", "commit"}
      /\ tx[p].op = "delete" => tx[p].step \in {"count", "rows", "commit"}
  <2>1. tx[p].op = "idle" => tx[p].step = "none"
    BY <1>1 DEF Stages, IdleStage, Idle
  <2>2. tx[p].op = "reserve" => tx[p].step \in {"classes", "commit"}
    BY <1>1 DEF Stages, ReserveStage
  <2>3. tx[p].op = "sweep" => tx[p].step \in {"classes", "commit"}
    BY <1>1 DEF Stages, SweepStage
  <2>4. tx[p].op = "update" => tx[p].step = "commit"
    BY <1>1 DEF Stages, UpdateStage
  <2>5. tx[p].op \in {"confirm", "release"} => tx[p].step \in {"rows", "classes", "commit"}
    BY <1>1 DEF Stages, OrderStage
  <2>6. tx[p].op = "delete" => tx[p].step \in {"count", "rows", "commit"}
    BY <1>1 DEF Stages, DeleteStage
  <2> QED BY <2>1, <2>2, <2>3, <2>4, <2>5, <2>6
<1> QED BY <1>1, <1>2 DEF Calls

LEMMA CountLiveKeeps ==
  ASSUME TxInv, NEW p \in Procs, CountLive(p)
  PROVE  TxInv'
<1> DEFINE rows == {r \in Orders \X DOMAIN tx[p].dirty : RowAt(r) # "none"}
<1>1. /\ tx[p].step = "count" /\ tx[p].op = "delete"
      /\ \A r \in rows : RowAt(r) \notin Live
      /\ tx' = [tx EXCEPT ![p].step = "rows", ![p].cand = rows]
      /\ class' = class /\ row' = row /\ lapsed' = lapsed /\ classLock' = classLock /\ rowLock' = rowLock
  BY CallsAtStep DEF CountLive, tables
<1>2. TxTypeOK /\ HoldsItsRows(p) /\ DeleteStage(p) /\ tx[p] \in Transaction
  BY DEF TxInv, Stages, TxTypeOK
<1>3. PICK c \in Classes :
        /\ Present(c)
        /\ tx[p].dirty = Only(c, [status |-> "deleted", total |-> 0, reserved |-> 0, sold |-> 0])
        /\ tx[p].cand = {} /\ tx[p].seen = {}
  BY <1>1, <1>2 DEF DeleteStage
<1>4. DOMAIN tx[p].dirty = {c}
  BY <1>3 DEF Only
<1>5. /\ rows \in SUBSET (Orders \X Classes) /\ rows \subseteq Orders \X {c}
      /\ \A o \in Orders : row[o][c] \notin Live
  <2>1. rows \in SUBSET (Orders \X Classes) /\ rows \subseteq Orders \X {c}
    BY <1>4
  <2>2. ASSUME NEW o \in Orders PROVE row[o][c] \notin Live
    <3>1. <<o, c>> \in Orders \X DOMAIN tx[p].dirty /\ RowAt(<<o, c>>) = row[o][c]
      BY <1>4 DEF RowAt
    <3>2. CASE row[o][c] = "none"
      BY <3>2 DEF Live
    <3>3. CASE row[o][c] # "none"
      BY <1>1, <3>1, <3>3
    <3> QED BY <3>2, <3>3
  <2> QED BY <2>1, <2>2
<1> HIDE DEF rows
<1>6. /\ tx'[p].op = "delete" /\ tx'[p].step = "rows" /\ tx'[p].cand = rows /\ tx'[p].seen = {}
      /\ tx'[p].dirty = tx[p].dirty /\ tx'[p] \in Transaction
      /\ \A q \in Procs : q # p => tx'[q] = tx[q]
  BY <1>1, <1>2, <1>3, <1>5 DEF TxTypeOK, Transaction, Steps
<1>7. TxTypeOK'
  BY <1>1, <1>2, <1>6 DEF TxTypeOK
<1>8. SeenRows(p)' = {} /\ SeenRows(p) = {}
  BY <1>3, <1>6 DEF SeenRows
<1>9. HoldsItsRows(p)'
  BY <1>1, <1>2, <1>3, <1>6, <1>8 DEF HoldsItsRows
<1>10. DeleteStage(p)'
  BY <1>1, <1>3, <1>5, <1>6, <1>8 DEF DeleteStage, Present, Only
<1>11. Stages(p)'
  BY <1>6, <1>10 DEF Stages, IdleStage, ReserveStage, OrderStage, SweepStage, UpdateStage, MoveStage
<1>12. Statement(p)
  BY <1>1, <1>6 DEF Statement, tables
<1> QED BY <1>7, <1>9, <1>11, <1>12, StatementKeeps

LEMMA LockRowKeeps ==
  ASSUME TxInv, NEW p \in Procs, LockRow(p)
  PROVE  TxInv'
<1> DEFINE r == NextRow(p)
           gone == RowAt(r) = "none" \/ (tx[p].op = "delete" /\ RowAt(r) \in Live)
<1>1. /\ tx[p].step = "rows" /\ tx[p].cand # {} /\ rowLock[r[1]][r[2]] = NoOne
      /\ tx' = [tx EXCEPT ![p].cand = @ \ {r}, ![p].seen = IF gone THEN @ ELSE @ \cup {ReadOf(r)}]
      /\ rowLock' = IF gone THEN rowLock ELSE [rowLock EXCEPT ![r[1]][r[2]] = p]
      /\ class' = class /\ row' = row /\ lapsed' = lapsed /\ classLock' = classLock
  BY DEF LockRow, tables
<1>2. TxTypeOK /\ HoldsItsRows(p) /\ Stages(p) /\ tx[p] \in Transaction /\ TypeOK
  BY DEF TxInv, TxTypeOK, Tables, LedgerInv
<1>3. /\ tx[p].cand \in SUBSET (Orders \X Classes)
      /\ tx[p].seen \in SUBSET (Orders \X Classes \X RowStatus)
  BY <1>2 DEF Transaction
<1>4. r \in tx[p].cand /\ \A q \in tx[p].cand : r[2] <= q[2]
  BY <1>1, <1>3, NextRowIsFirst
<1> HIDE DEF r
<1>5. /\ r = <<r[1], r[2]>> /\ r[1] \in Orders /\ r[2] \in Classes
      /\ ReadOf(r) = <<r[1], r[2], RowAt(r)>> /\ RowAt(r) = row[r[1]][r[2]] /\ RowAt(r) \in RowStatus
  BY <1>2, <1>3, <1>4 DEF ReadOf, RowAt, TypeOK
<1> DEFINE seen == IF gone THEN tx[p].seen ELSE tx[p].seen \cup {ReadOf(r)}
<1>6. seen \in SUBSET (Orders \X Classes \X RowStatus)
  BY <1>3, <1>5
<1>7. /\ tx'[p].op = tx[p].op /\ tx'[p].step = "rows" /\ tx'[p].cand = tx[p].cand \ {r} /\ tx'[p].seen = seen
      /\ tx'[p].todo = tx[p].todo /\ tx'[p].dirty = tx[p].dirty /\ tx'[p] \in Transaction
      /\ \A q \in Procs : q # p => tx'[q] = tx[q]
  BY <1>1, <1>2, <1>6 DEF TxTypeOK, Transaction
<1>8. TxTypeOK'
  <2>1. rowLock' \in [Orders -> [Classes -> Procs \cup {NoOne}]]
    BY <1>1, <1>2, <1>5 DEF TxTypeOK
  <2>2. tx' \in [Procs -> Transaction]
    BY <1>1, <1>2, <1>7 DEF TxTypeOK
  <2> QED BY <1>1, <1>2, <2>1, <2>2 DEF TxTypeOK
<1>9. SeenRows(p)' = IF gone THEN SeenRows(p) ELSE SeenRows(p) \cup {r}
  <2>1. CASE gone
    BY <2>1, <1>7 DEF SeenRows
  <2>2. CASE ~ gone
    BY <2>2, <1>5, <1>7 DEF SeenRows
  <2> QED BY <2>1, <2>2
<1>10. \A o \in Orders, c \in Classes :
         rowLock'[o][c] = IF ~ gone /\ <<o, c>> = r THEN p ELSE rowLock[o][c]
  <2>1. CASE gone
    BY <2>1, <1>1
  <2>2. CASE ~ gone
    BY <2>2, <1>1, <1>2, <1>5 DEF TxTypeOK
  <2> QED BY <2>1, <2>2
<1>11. HoldsItsRows(p)'
  <2>1. \A c \in Classes : classLock'[c] = p <=> c \in DOMAIN tx'[p].dirty
    BY <1>1, <1>2, <1>7 DEF HoldsItsRows
  <2>2. \A o \in Orders, c \in Classes : rowLock'[o][c] = p <=> <<o, c>> \in SeenRows(p)'
    <3> SUFFICES ASSUME NEW o \in Orders, NEW c \in Classes
                 PROVE  rowLock'[o][c] = p <=> <<o, c>> \in SeenRows(p)'
      OBVIOUS
    <3>1. rowLock[o][c] = p <=> <<o, c>> \in SeenRows(p)
      BY <1>2 DEF HoldsItsRows
    <3> HIDE DEF gone
    <3>2. CASE gone
      BY <3>1, <3>2, <1>9, <1>10
    <3>3. CASE ~ gone
      BY <3>1, <3>3, <1>9, <1>10
    <3> QED BY <3>2, <3>3
  <2>3. \A s \in tx'[p].seen : row'[s[1]][s[2]] = s[3]
    <3>1. \A s \in tx[p].seen : row[s[1]][s[2]] = s[3]
      BY <1>2 DEF HoldsItsRows
    <3>2. row[ReadOf(r)[1]][ReadOf(r)[2]] = ReadOf(r)[3]
      BY <1>5
    <3>3. \A s \in seen : s \in tx[p].seen \/ s = ReadOf(r)
      OBVIOUS
    <3> QED BY <1>1, <1>7, <3>1, <3>2, <3>3
  <2> QED BY <2>1, <2>2, <2>3 DEF HoldsItsRows
<1>12. ASSUME tx[p].op \in {"confirm", "release"} PROVE OrderStage(p)'
  <2>1. PICK o \in Orders :
      /\ tx[p].cand \cup SeenRows(p) \subseteq {o} \X Classes
      /\ \A c \in Ids(o) : <<o, c>> \in tx[p].cand \cup SeenRows(p) \/ class[c].status = "deleted"
      /\ \A q \in tx[p].cand : RowAt(q) # "none" \/ class[q[2]].status = "deleted"
      /\ \A s \in tx[p].seen : s[3] # "none"
      /\ \A s \in tx[p].seen, q \in tx[p].cand : s[2] < q[2]
      /\ tx[p].todo = {} /\ DOMAIN tx[p].dirty = {}
    BY <1>1, <1>2, <1>12 DEF Stages, OrderStage
  <2>3. tx'[p].cand \cup SeenRows(p)' \subseteq {o} \X Classes
    BY <1>4, <1>7, <1>9, <2>1
  <2>4. \A c \in Ids(o) : <<o, c>> \in tx'[p].cand \cup SeenRows(p)' \/ class'[c].status = "deleted"
    <3> SUFFICES ASSUME NEW c \in Ids(o), <<o, c>> \notin tx'[p].cand \cup SeenRows(p)'
                 PROVE  class[c].status = "deleted"
      BY <1>1
    <3>1. CASE <<o, c>> = r
      <4>1. RowAt(r) = "none"
        BY <3>1, <1>9, <1>12
      <4>2. class[r[2]].status = "deleted"
        BY <4>1, <1>4, <2>1
      <4> QED BY <3>1, <4>2
    <3>2. CASE <<o, c>> # r
      BY <3>2, <1>7, <1>9, <2>1
    <3> QED BY <3>1, <3>2
  <2>5. \A q \in tx'[p].cand : row'[q[1]][q[2]] # "none" \/ class'[q[2]].status = "deleted"
    BY <1>1, <1>7, <2>1 DEF RowAt
  <2>6. \A s \in tx'[p].seen : s[3] # "none"
    BY <1>5, <1>7, <2>1
  <2>7. \A s \in tx'[p].seen, q \in tx'[p].cand : s[2] < q[2]
    <3> SUFFICES ASSUME NEW s \in seen, NEW q \in tx[p].cand \ {r} PROVE s[2] < q[2]
      BY <1>7
    <3>1. CASE s \in tx[p].seen
      BY <3>1, <2>1
    <3>2. CASE s = ReadOf(r)
      <4>1. q = <<o, q[2]>> /\ r = <<o, r[2]>> /\ q # r /\ q[2] \in Nat /\ r[2] \in Nat
        <5>1. q \in {o} \X Classes /\ r \in {o} \X Classes
          BY <2>1, <1>4
        <5>2. q[2] \in Classes /\ r[2] \in Classes /\ q = <<o, q[2]>> /\ r = <<o, r[2]>>
          BY <5>1
        <5> QED BY <5>2, ClassesAssumption
      <4>2. q[2] # r[2] /\ r[2] <= q[2]
        BY <4>1, <1>4
      <4>3. s[2] = r[2]
        BY <3>2, <1>5
      <4> QED BY <4>1, <4>2, <4>3
    <3> QED BY <3>1, <3>2
  <2> HIDE DEF gone, seen
  <2>8. tx'[p].step = "rows" /\ tx'[p].todo = {} /\ DOMAIN tx'[p].dirty = {}
    BY <1>7, <2>1
  <2> QED BY <2>3, <2>4, <2>5, <2>6, <2>7, <2>8 DEF OrderStage, Ids, RowAt
<1>13. ASSUME tx[p].op = "delete" PROVE DeleteStage(p)'
  <2>1. PICK c \in Classes :
      /\ Present(c)
      /\ tx[p].dirty = Only(c, [status |-> "deleted", total |-> 0, reserved |-> 0, sold |-> 0])
      /\ tx[p].cand \cup SeenRows(p) \subseteq Orders \X {c}
      /\ tx[p].cand \cap SeenRows(p) = {}
      /\ \A s \in tx[p].seen : s[3] # "none"
      /\ \A o \in Orders : row[o][c] \notin Live
    BY <1>1, <1>2, <1>13 DEF Stages, DeleteStage
  <2>2. tx'[p].cand \cup SeenRows(p)' \subseteq Orders \X {c} /\ tx'[p].cand \cap SeenRows(p)' = {}
    BY <1>4, <1>7, <1>9, <2>1
  <2>3. \A s \in tx'[p].seen : s[3] # "none"
    BY <1>5, <1>7, <2>1
  <2> HIDE DEF gone, seen
  <2>4. Present(c)' /\ \A o \in Orders : row'[o][c] \notin Live
    BY <1>1, <2>1 DEF Present
  <2> QED BY <1>7, <2>1, <2>2, <2>3, <2>4 DEF DeleteStage, Only
<1> HIDE DEF gone, seen
<1>14. tx[p].op \in {"confirm", "release", "delete"}
  BY <1>1, CallsAtStep
<1>15. Stages(p)'
  BY <1>7, <1>12, <1>13, <1>14
     DEF Stages, IdleStage, ReserveStage, OrderStage, DeleteStage, SweepStage, UpdateStage, MoveStage
<1>16. Statement(p)
  <2>1. \A o \in Orders, c \in Classes :
          rowLock'[o][c] = rowLock[o][c] \/ (rowLock[o][c] = NoOne /\ rowLock'[o][c] = p)
    BY <1>1, <1>5, <1>10
  <2> QED BY <1>1, <1>7, <2>1 DEF Statement, tables
<1> QED BY <1>8, <1>11, <1>15, <1>16, StatementKeeps
\* A step in which p takes no lock and reads no row.
LEMMA NoLockNoRead ==
  ASSUME TxInv, NEW p \in Procs, NEW t \in Transaction, tx' = [tx EXCEPT ![p] = t],
         UNCHANGED <<tables, classLock, rowLock>>, t.seen = tx[p].seen, t.dirty = tx[p].dirty
  PROVE  TxTypeOK' /\ HoldsItsRows(p)' /\ Statement(p) /\ tx'[p] = t /\ SeenRows(p)' = SeenRows(p)
<1>1. TxTypeOK /\ HoldsItsRows(p)
  BY DEF TxInv
<1>2. /\ class' = class /\ row' = row /\ lapsed' = lapsed /\ classLock' = classLock /\ rowLock' = rowLock
  BY DEF tables
<1>3. tx'[p] = t /\ \A q \in Procs : q # p => tx'[q] = tx[q]
  BY <1>1 DEF TxTypeOK
<1>4. TxTypeOK'
  BY <1>1, <1>2 DEF TxTypeOK
<1>5. SeenRows(p)' = SeenRows(p)
  BY <1>3 DEF SeenRows
<1>6. HoldsItsRows(p)'
  BY <1>1, <1>2, <1>3, <1>5 DEF HoldsItsRows
<1>7. Statement(p)
  BY <1>2, <1>3 DEF Statement, tables
<1> QED BY <1>3, <1>4, <1>5, <1>6, <1>7

LEMMA DecideKeeps ==
  ASSUME TxInv, NEW p \in Procs, Decide(p)
  PROVE  TxInv'
<1>1. /\ tx[p].step = "rows" /\ tx[p].cand = {}
      /\ UNCHANGED <<tables, classLock, rowLock>>
      /\ class' = class /\ row' = row
  BY DEF Decide, tables
<1>2. TxTypeOK /\ Stages(p) /\ tx[p] \in Transaction
  BY DEF TxInv, TxTypeOK
<1>3. ASSUME NEW st \in SUBSET {"ACTIVE", "EXPIRED"},
             tx[p].op \in {"confirm", "release"},
             tx[p].op = "confirm" => tx[p].seen # {} /\ SeenStatuses(p) \subseteq st,
             tx[p].op = "release" => st = {"ACTIVE"} /\ "ACTIVE" \in SeenStatuses(p)
                                     /\ "CONFIRMED" \notin SeenStatuses(p),
             tx' = [tx EXCEPT ![p].step = "classes", ![p].todo = SeenClasses(p, st)]
      PROVE  TxInv'
  <2> DEFINE t == [tx[p] EXCEPT !.step = "classes", !.todo = SeenClasses(p, st)]
  <2>1. SeenClasses(p, st) \in SUBSET Classes
    BY <1>2 DEF SeenClasses, Transaction
  <2>2. tx' = [tx EXCEPT ![p] = t]
    BY <1>3
  <2>3. t \in Transaction
    BY <1>2, <2>1 DEF Transaction, Steps
  <2>4. /\ t.op = tx[p].op /\ t.step = "classes" /\ t.cand = {} /\ t.seen = tx[p].seen
        /\ t.dirty = tx[p].dirty /\ t.todo = SeenClasses(p, st)
    BY <1>1, <1>2 DEF Transaction
  <2> HIDE DEF t
  <2>5. TxTypeOK' /\ HoldsItsRows(p)' /\ Statement(p) /\ tx'[p] = t /\ SeenRows(p)' = SeenRows(p)
    BY <1>1, <2>2, <2>3, <2>4, NoLockNoRead
  <2>6. PICK o \in Orders :
      /\ SeenRows(p) \subseteq {o} \X Classes
      /\ \A c \in Ids(o) : <<o, c>> \in SeenRows(p) \/ class[c].status = "deleted"
      /\ \A s \in tx[p].seen : s[3] # "none"
      /\ DOMAIN tx[p].dirty = {}
    BY <1>1, <1>2, <1>3 DEF Stages, OrderStage
  <2>7. SeenStatuses(p)' = SeenStatuses(p)
    BY <2>4, <2>5 DEF SeenStatuses
  <2>8. OrderStage(p)'
    <3>1. /\ tx'[p].step = "classes" /\ tx'[p].cand = {}
          /\ tx'[p].cand \cup SeenRows(p)' \subseteq {o} \X Classes
          /\ \A c \in Ids(o) : <<o, c>> \in tx'[p].cand \cup SeenRows(p)' \/ class'[c].status = "deleted"
          /\ \A s \in tx'[p].seen : s[3] # "none"
      BY <1>1, <2>4, <2>5, <2>6
    <3>2. /\ tx'[p].op = "confirm" => tx'[p].seen # {} /\ SeenStatuses(p)' \subseteq {"ACTIVE", "EXPIRED"}
          /\ tx'[p].op = "release" => "ACTIVE" \in SeenStatuses(p)' /\ "CONFIRMED" \notin SeenStatuses(p)'
      BY <1>3, <2>4, <2>5, <2>7
    <3> QED BY <3>1, <3>2 DEF OrderStage, Ids
  <2>9. Aim(p)' = SeenClasses(p, st)
    <3>1. CASE tx[p].op = "release"
      <4>1. Aim(p)' = SeenClasses(p, {"ACTIVE"})
        BY <3>1, <2>4, <2>5 DEF Aim, SeenClasses
      <4> QED BY <4>1, <3>1, <1>3
    <3>2. CASE tx[p].op = "confirm"
      <4>1. Aim(p)' = {s[2] : s \in tx[p].seen}
        BY <3>2, <2>4, <2>5 DEF Aim
      <4>2. \A s \in tx[p].seen : s[3] \in st
        BY <3>2, <1>3 DEF SeenStatuses
      <4>3. SeenClasses(p, st) = {s[2] : s \in tx[p].seen}
        BY <4>2 DEF SeenClasses
      <4> QED BY <4>1, <4>3
    <3> QED BY <1>3, <3>1, <3>2
  <2>10. MoveStage(p)'
    BY <2>4, <2>5, <2>6, <2>9 DEF MoveStage
  <2>11. tx'[p].op \in {"confirm", "release"}
    BY <1>3, <2>4, <2>5
  <2>12. Stages(p)'
    BY <2>8, <2>10, <2>11 DEF Stages, IdleStage, ReserveStage, DeleteStage, SweepStage, UpdateStage
  <2> QED BY <2>5, <2>12, StatementKeeps
<1>4. ASSUME tx[p].op = "delete",
             \A r \in Orders \X DOMAIN tx[p].dirty : RowAt(r) = "none" \/ r \in SeenRows(p),
             tx' = [tx EXCEPT ![p].step = "commit"]
      PROVE  TxInv'
  <2> DEFINE t == [tx[p] EXCEPT !.step = "commit"]
  <2>1. tx' = [tx EXCEPT ![p] = t]
    BY <1>4
  <2>2. t \in Transaction
    BY <1>2 DEF Transaction, Steps
  <2>3. /\ t.op = "delete" /\ t.step = "commit" /\ t.cand = {} /\ t.seen = tx[p].seen
        /\ t.dirty = tx[p].dirty
    BY <1>1, <1>2, <1>4 DEF Transaction
  <2> HIDE DEF t
  <2>4. TxTypeOK' /\ HoldsItsRows(p)' /\ Statement(p) /\ tx'[p] = t /\ SeenRows(p)' = SeenRows(p)
    BY <1>1, <2>1, <2>2, <2>3, NoLockNoRead
  <2>5. PICK c \in Classes :
      /\ Present(c)
      /\ tx[p].dirty = Only(c, [status |-> "deleted", total |-> 0, reserved |-> 0, sold |-> 0])
      /\ SeenRows(p) \subseteq Orders \X {c}
      /\ \A s \in tx[p].seen : s[3] # "none"
      /\ \A o \in Orders : row[o][c] \notin Live
    BY <1>1, <1>2, <1>4 DEF Stages, DeleteStage
  <2>6. DOMAIN tx[p].dirty = {c}
    BY <2>5 DEF Only
  <2>7. \A o \in Orders : row[o][c] = "none" \/ <<o, c>> \in SeenRows(p)
    <3> SUFFICES ASSUME NEW o \in Orders PROVE row[o][c] = "none" \/ <<o, c>> \in SeenRows(p)
      OBVIOUS
    <3>1. <<o, c>> \in Orders \X DOMAIN tx[p].dirty /\ RowAt(<<o, c>>) = row[o][c]
      BY <2>6 DEF RowAt
    <3> QED BY <3>1, <1>4
  <2>8. DeleteStage(p)'
    BY <1>1, <2>3, <2>4, <2>5, <2>7 DEF DeleteStage, Present, Only
  <2>9. Stages(p)'
    BY <2>3, <2>4, <2>8 DEF Stages, IdleStage, ReserveStage, OrderStage, SweepStage, UpdateStage, MoveStage
  <2> QED BY <2>4, <2>9, StatementKeeps
<1>5. CASE /\ tx[p].op = "confirm"
           /\ tx[p].seen # {} /\ SeenStatuses(p) \subseteq {"ACTIVE", "EXPIRED"}
           /\ tx' = [tx EXCEPT ![p].step = "classes", ![p].todo = SeenClasses(p, {"ACTIVE", "EXPIRED"})]
  BY <1>3, <1>5
<1>6. CASE /\ tx[p].op = "release"
           /\ "ACTIVE" \in SeenStatuses(p) /\ "CONFIRMED" \notin SeenStatuses(p)
           /\ tx' = [tx EXCEPT ![p].step = "classes", ![p].todo = SeenClasses(p, {"ACTIVE"})]
  <2>1. {"ACTIVE"} \in SUBSET {"ACTIVE", "EXPIRED"}
    OBVIOUS
  <2> QED BY <1>3, <1>6, <2>1
<1> QED BY <1>4, <1>5, <1>6 DEF Decide
LEMMA QtyType ==
  ASSUME NEW p, NEW c
  PROVE  Qty(p, c) \in Nat
<1>1. BatchUnits(tx[p].cand \cup SeenRows(p), c) \in SUBSET (Orders \X (1..MaxQty))
  BY DEF BatchUnits
<1> QED BY <1>1, TicketsAreFinite DEF Qty, BatchQty

\* The guard of an update is what keeps the version it writes a version.
LEMMA VersionType ==
  ASSUME TypeOK, NEW p \in Procs, NEW c \in Classes, Matches(p, c)
  PROVE  Version(p, c) \in TicketClass
<1>1. /\ class[c] \in TicketClass /\ Qty(p, c) \in Nat
      /\ class[c].reserved \in Nat /\ class[c].sold \in Nat /\ class[c].total \in Nat
  BY QtyType DEF TypeOK, TicketClass
<1> DEFINE q == Qty(p, c)
           late == c \in SeenClasses(p, {"EXPIRED"})
<1>2. CASE tx[p].op = "reserve"
  <2>1. Version(p, c) = [class[c] EXCEPT !.reserved = class[c].reserved + q]
    BY <1>2 DEF Version
  <2>2. class[c].reserved + q \in Nat
    BY <1>1
  <2> QED BY <1>1, <2>1, <2>2 DEF TicketClass
<1>3. CASE tx[p].op = "confirm" /\ late
  <2>1. Version(p, c) = [class[c] EXCEPT !.sold = class[c].sold + q]
    BY <1>3 DEF Version
  <2>2. class[c].sold + q \in Nat
    BY <1>1
  <2> QED BY <1>1, <2>1, <2>2 DEF TicketClass
<1>4. CASE tx[p].op = "confirm" /\ ~ late
  <2>1. Version(p, c) = [class[c] EXCEPT !.reserved = class[c].reserved - q, !.sold = class[c].sold + q]
    BY <1>4 DEF Version
  <2>2. class[c].reserved >= q
    BY <1>4 DEF Matches
  <2>3. class[c].sold + q \in Nat /\ class[c].reserved - q \in Nat
    BY <1>1, <2>2
  <2> QED BY <1>1, <2>1, <2>3 DEF TicketClass
<1>5. CASE tx[p].op # "reserve" /\ tx[p].op # "confirm"
  <2>1. Version(p, c) = [class[c] EXCEPT !.reserved = class[c].reserved - q]
    BY <1>5 DEF Version
  <2>2. class[c].reserved >= q
    BY <1>5 DEF Matches
  <2>3. class[c].reserved - q \in Nat
    BY <1>1, <2>2
  <2> QED BY <1>1, <2>1, <2>3 DEF TicketClass
<1> QED BY <1>2, <1>3, <1>4, <1>5

\* A sweep never meets a class that does not match: the drift it is prepared
\* for cannot happen.
LEMMA SweepMatches ==
  ASSUME TxInv, NEW p \in Procs, NEW c \in Classes, tx[p].op = "sweep"
  PROVE  Matches(p, c)
<1>1. tx[p].cand = {} /\ \A s \in tx[p].seen : s[3] = "ACTIVE" /\ row[s[1]][s[2]] = s[3]
  BY DEF TxInv, Stages, SweepStage, HoldsItsRows
<1>2. tx[p].seen \in SUBSET (Orders \X Classes \X RowStatus)
  BY DEF TxInv, TxTypeOK, Transaction
<1>3. SeenRows(p) \in SUBSET (Orders \X Classes) /\ \A r \in SeenRows(p) : RowAt(r) = "ACTIVE"
  BY <1>1, <1>2 DEF SeenRows, RowAt
<1>4. BatchQty(SeenRows(p), c) \in Nat /\ BatchQty(SeenRows(p), c) <= class[c].reserved
  BY <1>3, HeldBatchFits DEF TxInv, Tables
<1>5. Qty(p, c) = BatchQty(SeenRows(p), c)
  BY <1>1 DEF Qty
<1>6. class[c].reserved \in Nat
  BY DEF TxInv, Tables, LedgerInv, TypeOK, TicketClass
<1>7. class[c].reserved >= Qty(p, c)
  BY <1>4, <1>5, <1>6
<1> QED BY <1>7 DEF Matches

\* What a call would write depends on the rows it works on and on the class.
LEMMA SameVersion ==
  ASSUME NEW p \in Procs, NEW c \in Classes, class'[c] = class[c], tx'[p].op = tx[p].op,
         tx'[p].cand \cup SeenRows(p)' = tx[p].cand \cup SeenRows(p),
         tx[p].op = "confirm" => tx'[p].seen = tx[p].seen
  PROVE  Matches(p, c)' = Matches(p, c) /\ Version(p, c)' = Version(p, c)
<1>1. Qty(p, c)' = Qty(p, c)
  BY DEF Qty, BatchQty, BatchUnits
<1>2. tx[p].op = "confirm" => SeenClasses(p, {"EXPIRED"})' = SeenClasses(p, {"EXPIRED"})
  BY DEF SeenClasses
<1>3. CASE tx[p].op = "confirm"
  <2>1. SeenClasses(p, {"EXPIRED"})' = SeenClasses(p, {"EXPIRED"})
    BY <1>2, <1>3
  <2>2. Matches(p, c)' = Matches(p, c)
    BY <1>1, <2>1, <1>3 DEF Matches, Fits, OnSale
  <2>3. Version(p, c)' = Version(p, c)
    BY <1>1, <2>1, <1>3 DEF Version
  <2> QED BY <2>2, <2>3
<1>4. CASE tx[p].op # "confirm"
  <2>1. Matches(p, c)' = Matches(p, c)
    BY <1>1, <1>4 DEF Matches, Fits, OnSale
  <2>2. Version(p, c)' = Version(p, c)
    BY <1>1, <1>4 DEF Version
  <2> QED BY <2>1, <2>2
<1> QED BY <1>3, <1>4

LEMMA UpdateClassKeeps ==
  ASSUME TxInv, NEW p \in Procs, UpdateClass(p)
  PROVE  TxInv'
<1> DEFINE c == NextClass(p)
<1>1. /\ TxTypeOK /\ HoldsItsRows(p) /\ Stages(p) /\ tx[p] \in Transaction /\ TypeOK
  BY DEF TxInv, TxTypeOK, Tables, LedgerInv
<1>2. /\ tx[p].step = "classes" /\ tx[p].todo # {} /\ tx[p].todo \in SUBSET Classes
      /\ tx[p].op \in {"reserve", "confirm", "release", "sweep"} /\ tx[p].dirty \in Versions
  BY <1>1, CallsAtStep DEF UpdateClass, Transaction
<1>3. c \in tx[p].todo /\ \A d \in tx[p].todo : c <= d
  BY <1>2, FirstIsLeast DEF NextClass
<1>4. c \in Classes
  BY <1>2, <1>3
<1>5. /\ classLock[c] = NoOne
      /\ Matches(p, c) \/ tx[p].op = "sweep"
      /\ classLock' = IF Matches(p, c) THEN [classLock EXCEPT ![c] = p] ELSE classLock
      /\ tx' = [tx EXCEPT ![p].todo = @ \ {c},
                          ![p].dirty = IF Matches(p, c) THEN Put(@, c, Version(p, c)) ELSE @]
      /\ class' = class /\ row' = row /\ lapsed' = lapsed /\ rowLock' = rowLock
  BY DEF UpdateClass, tables
<1> HIDE DEF c
<1>6. Matches(p, c)
  BY <1>4, <1>5, SweepMatches
<1> DEFINE v == Version(p, c)
           dirty == Put(tx[p].dirty, c, v)
           t == [tx[p] EXCEPT !.todo = tx[p].todo \ {c}, !.dirty = dirty]
<1>7. /\ classLock' = [classLock EXCEPT ![c] = p]
      /\ tx' = [tx EXCEPT ![p] = t]
  BY <1>5, <1>6
<1>8. v \in TicketClass
  BY <1>1, <1>4, <1>6, VersionType
<1> HIDE DEF v
<1>9. /\ DOMAIN dirty = DOMAIN tx[p].dirty \cup {c}
      /\ dirty[c] = v
      /\ \A d \in DOMAIN tx[p].dirty : d # c => dirty[d] = tx[p].dirty[d]
  BY DEF Put
<1>10. dirty \in Versions
  <2>1. /\ DOMAIN tx[p].dirty \subseteq Classes
        /\ tx[p].dirty \in [DOMAIN tx[p].dirty -> TicketClass]
    BY <1>2, VersionsFacts
  <2>2. dirty \in [DOMAIN tx[p].dirty \cup {c} -> TicketClass]
    BY <1>8, <2>1 DEF Put
  <2>3. DOMAIN tx[p].dirty \cup {c} \in SUBSET Classes
    BY <1>4, <2>1
  <2> QED BY <2>2, <2>3, AreVersions
<1> HIDE DEF dirty
<1>11. /\ t \in Transaction /\ t.op = tx[p].op /\ t.step = "classes" /\ t.cand = tx[p].cand
       /\ t.seen = tx[p].seen /\ t.todo = tx[p].todo \ {c} /\ t.dirty = dirty
  BY <1>1, <1>2, <1>10 DEF Transaction
<1> HIDE DEF t
<1>12. tx'[p] = t /\ \A q \in Procs : q # p => tx'[q] = tx[q]
  BY <1>1, <1>7 DEF TxTypeOK
<1>13. TxTypeOK'
  <2>1. classLock' \in [Classes -> Procs \cup {NoOne}]
    BY <1>1, <1>7 DEF TxTypeOK
  <2>2. tx' \in [Procs -> Transaction]
    BY <1>1, <1>7, <1>11 DEF TxTypeOK
  <2>3. rowLock' \in [Orders -> [Classes -> Procs \cup {NoOne}]]
    BY <1>1, <1>5 DEF TxTypeOK
  <2> QED BY <2>1, <2>2, <2>3 DEF TxTypeOK
<1>14. /\ SeenRows(p)' = SeenRows(p) /\ SeenStatuses(p)' = SeenStatuses(p) /\ Aim(p)' = Aim(p)
  <2>1. SeenRows(p)' = SeenRows(p) /\ SeenStatuses(p)' = SeenStatuses(p)
    BY <1>11, <1>12 DEF SeenRows, SeenStatuses
  <2> QED BY <2>1, <1>11, <1>12 DEF Aim, SeenClasses
<1>15. \A d \in Classes : classLock'[d] = IF d = c THEN p ELSE classLock[d]
  BY <1>1, <1>7 DEF TxTypeOK
<1>16. HoldsItsRows(p)'
  <2>1. \A d \in Classes : classLock'[d] = p <=> d \in DOMAIN tx'[p].dirty
    BY <1>1, <1>9, <1>11, <1>12, <1>15 DEF HoldsItsRows
  <2>2. \A o \in Orders, d \in Classes : rowLock'[o][d] = p <=> <<o, d>> \in SeenRows(p)'
    BY <1>1, <1>5, <1>14 DEF HoldsItsRows
  <2>3. \A s \in tx'[p].seen : row'[s[1]][s[2]] = s[3]
    BY <1>1, <1>5, <1>11, <1>12 DEF HoldsItsRows
  <2> QED BY <2>1, <2>2, <2>3 DEF HoldsItsRows
<1>17. MoveStage(p)'
  <2>1. /\ tx[p].todo \subseteq Aim(p)
        /\ DOMAIN tx[p].dirty = Aim(p) \ tx[p].todo
        /\ \A d \in DOMAIN tx[p].dirty : Matches(p, d) /\ tx[p].dirty[d] = Version(p, d)
        /\ \A d \in DOMAIN tx[p].dirty, e \in tx[p].todo : d < e
    BY <1>1, <1>2 DEF Stages, MoveStage
  <2>2. /\ tx'[p].todo \subseteq Aim(p)'
        /\ DOMAIN tx'[p].dirty = Aim(p)' \ tx'[p].todo
    BY <1>3, <1>9, <1>11, <1>12, <1>14, <2>1
  <2>3. ASSUME NEW d \in DOMAIN tx'[p].dirty
        PROVE  Matches(p, d)' /\ tx'[p].dirty[d] = Version(p, d)'
    <3>1. d \in Classes /\ d \in DOMAIN dirty
      BY <1>2, <1>4, <1>9, <1>11, <1>12, VersionsFacts
    <3>2. Matches(p, d)' = Matches(p, d) /\ Version(p, d)' = Version(p, d)
      BY <3>1, <1>5, <1>11, <1>12, <1>14, SameVersion
    <3>3. Matches(p, d) /\ dirty[d] = Version(p, d)
      <4>1. CASE d = c
        BY <4>1, <1>6, <1>9 DEF v
      <4>2. CASE d # c
        BY <4>2, <3>1, <1>9, <2>1
      <4> QED BY <4>1, <4>2
    <3> QED BY <3>2, <3>3, <1>11, <1>12
  <2>4. \A d \in DOMAIN tx'[p].dirty, e \in tx'[p].todo : d < e
    <3> SUFFICES ASSUME NEW d \in DOMAIN dirty, NEW e \in tx[p].todo \ {c} PROVE d < e
      BY <1>11, <1>12
    <3>1. CASE d = c
      <4>1. c \in Nat /\ e \in Nat /\ c <= e /\ c # e
        BY <1>2, <1>3, <1>4, ClassesAssumption
      <4> QED BY <4>1, <3>1
    <3>2. CASE d # c
      BY <3>2, <1>9, <2>1
    <3> QED BY <3>1, <3>2
  <2>5. \A d \in DOMAIN tx'[p].dirty : Matches(p, d)' /\ tx'[p].dirty[d] = Version(p, d)'
    BY <2>3
  <2>6. tx'[p].step = "classes"
    BY <1>11, <1>12
  <2> QED BY <2>2, <2>4, <2>5, <2>6 DEF MoveStage
<1>18. ReserveStage(p)'
  BY <1>1, <1>2, <1>11, <1>12, <1>14 DEF Stages, ReserveStage, Ids
<1>19. SweepStage(p)'
  BY <1>1, <1>2, <1>5, <1>11, <1>12, <1>14 DEF Stages, SweepStage
<1>20. OrderStage(p)'
  BY <1>1, <1>2, <1>5, <1>11, <1>12, <1>14 DEF Stages, OrderStage, Ids, RowAt
<1>21. Stages(p)'
  BY <1>2, <1>11, <1>12, <1>17, <1>18, <1>19, <1>20 DEF Stages, IdleStage, UpdateStage, DeleteStage
<1>22. Statement(p)
  BY <1>5, <1>12, <1>15 DEF Statement, tables
<1> QED BY <1>13, <1>16, <1>21, <1>22, StatementKeeps

LEMMA WriteRowsKeeps ==
  ASSUME TxInv, NEW p \in Procs, WriteRows(p)
  PROVE  TxInv'
<1> DEFINE cand == tx[p].cand
           read == {ReadOf(r) : r \in cand}
           t == [tx[p] EXCEPT !.step = "commit", !.cand = {}, !.seen = tx[p].seen \cup read]
<1>1. /\ TxTypeOK /\ HoldsItsRows(p) /\ Stages(p) /\ tx[p] \in Transaction /\ TypeOK
  BY DEF TxInv, TxTypeOK, Tables, LedgerInv
<1>2. /\ tx[p].step = "classes" /\ tx[p].todo = {} /\ cand \in SUBSET (Orders \X Classes)
      /\ tx[p].op \in {"reserve", "confirm", "release", "sweep"}
      /\ tx[p].seen \in SUBSET (Orders \X Classes \X RowStatus)
  BY <1>1, CallsAtStep DEF WriteRows, Transaction
<1>3. /\ \A r \in cand : rowLock[r[1]][r[2]] = NoOne /\ RowAt(r) = "none"
      /\ tx' = [tx EXCEPT ![p] = t]
      /\ rowLock' = [o \in Orders |-> [c \in Classes |->
                       IF <<o, c>> \in cand THEN p ELSE rowLock[o][c]]]
      /\ class' = class /\ row' = row /\ lapsed' = lapsed /\ classLock' = classLock
  BY DEF WriteRows, tables
<1> HIDE DEF cand
<1>4. /\ \A r \in cand : r = <<r[1], r[2]>> /\ r[1] \in Orders /\ r[2] \in Classes
      /\ \A r \in cand : ReadOf(r) = <<r[1], r[2], "none">> /\ row[r[1]][r[2]] = "none"
  BY <1>2, <1>3 DEF ReadOf, RowAt
<1>5. /\ {<<s[1], s[2]>> : s \in read} = cand
      /\ \A s \in read : s[3] = "none" /\ row[s[1]][s[2]] = s[3]
      /\ read \in SUBSET (Orders \X Classes \X RowStatus)
      /\ cand = {} => read = {}
  <2>1. {<<s[1], s[2]>> : s \in read} = cand
    BY <1>4
  <2>2. \A s \in read : s[3] = "none" /\ row[s[1]][s[2]] = s[3]
    BY <1>4
  <2>3. read \in SUBSET (Orders \X Classes \X RowStatus)
    BY <1>4 DEF RowStatus
  <2> QED BY <2>1, <2>2, <2>3
<1> HIDE DEF read
<1>6. /\ t \in Transaction /\ t.op = tx[p].op /\ t.step = "commit" /\ t.cand = {}
      /\ t.seen = tx[p].seen \cup read /\ t.todo = {} /\ t.dirty = tx[p].dirty
  BY <1>1, <1>2, <1>5 DEF Transaction, Steps
<1> HIDE DEF t
<1>7. tx'[p] = t /\ \A q \in Procs : q # p => tx'[q] = tx[q]
  BY <1>1, <1>3 DEF TxTypeOK
<1>8. TxTypeOK'
  <2>1. rowLock' \in [Orders -> [Classes -> Procs \cup {NoOne}]]
    BY <1>1, <1>3 DEF TxTypeOK
  <2> QED BY <1>1, <1>3, <1>6, <2>1 DEF TxTypeOK
<1>9. SeenRows(p)' = SeenRows(p) \cup cand
  BY <1>5, <1>6, <1>7 DEF SeenRows
<1>10. \A o \in Orders, c \in Classes : rowLock'[o][c] = IF <<o, c>> \in cand THEN p ELSE rowLock[o][c]
  BY <1>3
<1>11. HoldsItsRows(p)'
  <2>1. \A d \in Classes : classLock'[d] = p <=> d \in DOMAIN tx'[p].dirty
    BY <1>1, <1>3, <1>6, <1>7 DEF HoldsItsRows
  <2>2. \A o \in Orders, d \in Classes : rowLock'[o][d] = p <=> <<o, d>> \in SeenRows(p)'
    <3> SUFFICES ASSUME NEW o \in Orders, NEW d \in Classes
                 PROVE  rowLock'[o][d] = p <=> <<o, d>> \in SeenRows(p)'
      OBVIOUS
    <3>1. rowLock[o][d] = p <=> <<o, d>> \in SeenRows(p)
      BY <1>1 DEF HoldsItsRows
    <3>2. rowLock'[o][d] = IF <<o, d>> \in cand THEN p ELSE rowLock[o][d]
      BY <1>10
    <3> QED BY <1>9, <3>1, <3>2
  <2>3. \A s \in tx'[p].seen : row'[s[1]][s[2]] = s[3]
    <3>1. \A s \in tx[p].seen : row[s[1]][s[2]] = s[3]
      BY <1>1 DEF HoldsItsRows
    <3> QED BY <1>3, <1>5, <1>6, <1>7, <3>1
  <2> QED BY <2>1, <2>2, <2>3 DEF HoldsItsRows
<1>12. tx'[p].cand \cup SeenRows(p)' = tx[p].cand \cup SeenRows(p)
  BY <1>6, <1>7, <1>9 DEF cand
<1>13. tx[p].op # "reserve" => tx'[p].seen = tx[p].seen
  <2>1. tx[p].op \in {"confirm", "release", "sweep"} => cand = {}
    BY <1>1, <1>2 DEF Stages, OrderStage, SweepStage, cand
  <2> QED BY <1>2, <1>5, <1>6, <1>7, <2>1
<1>14. Aim(p)' = Aim(p)
  BY <1>6, <1>7, <1>12, <1>13 DEF Aim, SeenClasses
<1>15. MoveStage(p)'
  <2>1. /\ DOMAIN tx[p].dirty = Aim(p)
        /\ \A d \in DOMAIN tx[p].dirty : Matches(p, d) /\ tx[p].dirty[d] = Version(p, d)
    BY <1>1, <1>2 DEF Stages, MoveStage
  <2>2. ASSUME NEW d \in DOMAIN tx'[p].dirty
        PROVE  Matches(p, d)' /\ tx'[p].dirty[d] = Version(p, d)'
    <3>1. d \in Classes
      BY <1>1, <1>6, <1>7, VersionsFacts DEF Transaction
    <3>2. Matches(p, d)' = Matches(p, d) /\ Version(p, d)' = Version(p, d)
      BY <3>1, <1>3, <1>6, <1>7, <1>12, <1>13, SameVersion
    <3> QED BY <3>2, <2>1, <1>6, <1>7
  <2>3. \A d \in DOMAIN tx'[p].dirty : Matches(p, d)' /\ tx'[p].dirty[d] = Version(p, d)'
    BY <2>2
  <2>4. /\ tx'[p].todo = {} /\ DOMAIN tx'[p].dirty = Aim(p)' \ tx'[p].todo
    BY <1>6, <1>7, <1>14, <2>1
  <2> QED BY <2>3, <2>4 DEF MoveStage
<1>16. ReserveStage(p)'
  BY <1>1, <1>2, <1>5, <1>6, <1>7, <1>12 DEF Stages, ReserveStage, Ids
<1>17. SweepStage(p)'
  <2> SUFFICES ASSUME tx[p].op = "sweep" PROVE SweepStage(p)'
    BY <1>6, <1>7 DEF SweepStage
  <2>1. SeenRows(p)' = SeenRows(p) /\ tx'[p].seen = tx[p].seen
    BY <1>13, <1>7 DEF SeenRows
  <2> QED BY <2>1, <1>1, <1>3, <1>6, <1>7 DEF Stages, SweepStage
<1>18. OrderStage(p)'
  <2> SUFFICES ASSUME tx[p].op \in {"confirm", "release"} PROVE OrderStage(p)'
    BY <1>6, <1>7 DEF OrderStage
  <2>1. SeenRows(p)' = SeenRows(p) /\ tx'[p].seen = tx[p].seen /\ SeenStatuses(p)' = SeenStatuses(p)
    BY <1>13 DEF SeenRows, SeenStatuses
  <2>2. tx[p].cand = {}
    BY <1>1, <1>2 DEF Stages, OrderStage
  <2> QED BY <2>1, <2>2, <1>1, <1>2, <1>3, <1>6, <1>7 DEF Stages, OrderStage, Ids, RowAt
<1>19. Stages(p)'
  BY <1>2, <1>6, <1>7, <1>15, <1>16, <1>17, <1>18 DEF Stages, IdleStage, UpdateStage, DeleteStage
<1>20. Statement(p)
  <2>1. \A o \in Orders, c \in Classes :
          rowLock'[o][c] = rowLock[o][c] \/ (rowLock[o][c] = NoOne /\ rowLock'[o][c] = p)
    <3> SUFFICES ASSUME NEW o \in Orders, NEW c \in Classes, <<o, c>> \in cand
                 PROVE  rowLock[o][c] = NoOne
      BY <1>10
    <3> QED BY <1>3
  <2> QED BY <1>3, <1>7, <2>1 DEF Statement, tables
<1> QED BY <1>8, <1>11, <1>19, <1>20, StatementKeeps
-----------------------------------------------------------------------------
(***************************************************************************)
(* Commits: one for each call, every one a step of the ledger.             *)
(***************************************************************************)

LEMMA CommitReserve ==
  ASSUME TxInv, NEW p \in Procs, Commit(p), tx[p].op = "reserve"
  PROVE  [Next]_vars
<1>1. /\ Stages(p) /\ HoldsItsRows(p) /\ TypeOK /\ RowsWereAskedFor
      /\ tx[p].step = "commit" /\ tx[p].seen \in SUBSET (Orders \X Classes \X RowStatus)
  BY DEF TxInv, TxTypeOK, Transaction, Tables, LedgerInv, Commit
<1>2. PICK o \in Orders :
        /\ tx[p].cand = {} /\ SeenRows(p) = {o} \X Ids(o)
        /\ \A s \in tx[p].seen : s[3] = "none"
  BY <1>1 DEF Stages, ReserveStage
<1>3. \A c \in Classes : Demand[o][c] \in Nat /\ (c \in Ids(o) <=> Demand[o][c] > 0)
  BY DemandAssumption, QtyAssumption DEF Ids
<1>4. Ids(o) \subseteq Classes
  BY DEF Ids
<1>5. DOMAIN tx[p].dirty = Ids(o)
  <2>1. Aim(p) = {r[2] : r \in {o} \X Ids(o)}
    BY <1>2 DEF Aim
  <2>2. Aim(p) = Ids(o)
    BY <2>1, SecondParts
  <2> QED BY <1>1, <2>2 DEF Stages, MoveStage
<1>6. ASSUME NEW c \in Ids(o)
      PROVE  /\ OnSale(c, Classes) /\ Fits(c, Demand[o][c])
             /\ tx[p].dirty[c] = [class[c] EXCEPT !.reserved = @ + Demand[o][c]]
  <2>1. Matches(p, c) /\ tx[p].dirty[c] = Version(p, c)
    BY <1>1, <1>5 DEF Stages, MoveStage
  <2>2. Qty(p, c) = BatchQty({o} \X Ids(o), c)
    BY <1>2 DEF Qty
  <2>3. BatchQty({o} \X Ids(o), c) = Demand[o][c]
    BY <1>4, OrderQty
  <2> QED BY <2>1, <2>2, <2>3 DEF Matches, Version
<1>7. Rows(o) = {}
  <2>1. ASSUME NEW c \in Classes PROVE row[o][c] = "none"
    <3>1. CASE c \in Ids(o)
      <4>1. <<o, c>> \in SeenRows(p)
        BY <3>1, <1>2
      <4>2. PICK s \in tx[p].seen : <<s[1], s[2]>> = <<o, c>>
        BY <4>1 DEF SeenRows
      <4> QED BY <4>2, <1>1, <1>2 DEF HoldsItsRows
    <3>2. CASE c \notin Ids(o)
      BY <3>2, <1>1, <1>3 DEF RowsWereAskedFor
    <3> QED BY <3>1, <3>2
  <2> QED BY <2>1 DEF Rows
<1>8. Written(p) = {o} \X Ids(o)
  BY <1>2, <1>5 DEF Written
<1>9. \A c \in Classes : class'[c] = [class[c] EXCEPT !.reserved = @ + Demand[o][c]]
  <2> SUFFICES ASSUME NEW c \in Classes
               PROVE  class'[c] = [class[c] EXCEPT !.reserved = @ + Demand[o][c]]
    OBVIOUS
  <2>1. class'[c] = IF c \in Ids(o) THEN tx[p].dirty[c] ELSE class[c]
    BY <1>5 DEF Commit
  <2>2. CASE c \in Ids(o)
    BY <2>1, <2>2, <1>6
  <2>3. CASE c \notin Ids(o)
    <3>1. class[c] \in TicketClass /\ Demand[o][c] = 0
      BY <2>3, <1>1, <1>3 DEF TypeOK
    <3>2. class[c].reserved + Demand[o][c] = class[c].reserved
      BY <3>1 DEF TicketClass
    <3>3. [class[c] EXCEPT !.reserved = @ + Demand[o][c]] = class[c]
      BY <3>1, <3>2 DEF TicketClass
    <3> QED BY <2>1, <2>3, <3>3
  <2> QED BY <2>2, <2>3
<1>10. class' = [c \in Classes |-> [class[c] EXCEPT !.reserved = @ + Demand[o][c]]]
  BY <1>9 DEF Commit
<1>11. row' = [row EXCEPT ![o] = [c \in Classes |-> IF c \in Ids(o) THEN "ACTIVE" ELSE "none"]]
  <2>1. row' = [q \in Orders |-> [c \in Classes |->
                  IF <<q, c>> \in {o} \X Ids(o) THEN "ACTIVE" ELSE row[q][c]]]
    BY <1>8 DEF Commit, After
  <2>2. \A c \in Classes : row[o][c] = "none"
    BY <1>7 DEF Rows
  <2>3. \A q \in Orders : row[q] \in [Classes -> RowStatus]
    BY <1>1 DEF TypeOK
  <2>4. ASSUME NEW q \in Orders
        PROVE  row'[q] = IF q = o THEN [c \in Classes |-> IF c \in Ids(o) THEN "ACTIVE" ELSE "none"]
                         ELSE row[q]
    <3>1. row'[q] = [c \in Classes |-> IF <<q, c>> \in {o} \X Ids(o) THEN "ACTIVE" ELSE row[q][c]]
      BY <2>1
    <3>2. CASE q = o
      BY <3>1, <3>2, <2>2
    <3>3. CASE q # o
      BY <3>1, <3>3, <2>3
    <3> QED BY <3>2, <3>3
  <2> QED BY <2>1, <2>4, <1>1 DEF TypeOK
<1>12. lapsed' = lapsed \ {r[1] : r \in {o} \X Ids(o)}
  BY <1>2 DEF Commit
<1>13. CASE Ids(o) = {}
  <2>1. lapsed' = lapsed
    BY <1>12, <1>13
  <2>2. class' = class
    <3>1. class' = [c \in Classes |-> IF c \in Ids(o) THEN tx[p].dirty[c] ELSE class[c]]
      BY <1>5 DEF Commit
    <3> QED BY <3>1, <1>13, <1>1 DEF TypeOK
  <2>3. row' = row
    <3>1. row' = [q \in Orders |-> [c \in Classes |->
                   IF <<q, c>> \in {o} \X Ids(o) THEN "ACTIVE" ELSE row[q][c]]]
      BY <1>8 DEF Commit, After
    <3>2. \A q \in Orders : [c \in Classes |-> row[q][c]] = row[q]
      BY <1>1 DEF TypeOK
    <3>3. row' = [q \in Orders |-> [c \in Classes |-> row[q][c]]]
      BY <3>1, <1>13
    <3> QED BY <3>2, <3>3, <1>1 DEF TypeOK
  <2> QED BY <2>1, <2>2, <2>3 DEF vars
<1>14. CASE Ids(o) # {}
  <2>1. PICK c \in Ids(o) : TRUE
    BY <1>14
  <2>2. <<o, c>> \in {o} \X Ids(o) /\ <<o, c>>[1] = o
    OBVIOUS
  <2>3. {r[1] : r \in {o} \X Ids(o)} = {o}
    BY <2>2
  <2>4. lapsed' = lapsed \ {o}
    BY <1>12, <2>3
  <2>5. CanReserve(o, Classes)
    BY <1>6, <1>7 DEF CanReserve, Missed
  <2>6. Reserve(o, Classes)
    BY <1>10, <1>11, <2>4, <2>5 DEF Reserve
  <2>7. Classes \in SUBSET Classes
    OBVIOUS
  <2> QED BY <2>6, <2>7 DEF Next, Orderer
<1> QED BY <1>13, <1>14

\* A Confirm or Release that has locked its rows has them all, as they are.
LEMMA OrderHeld ==
  ASSUME TxInv, NEW p \in Procs, tx[p].op \in {"confirm", "release"}, tx[p].step = "commit"
  PROVE  \E o \in Orders :
           /\ SeenRows(p) = {o} \X Rows(o)
           /\ SeenStatuses(p) = Statuses(o)
           /\ \A st : SeenClasses(p, st) = {c \in Rows(o) : row[o][c] \in st}
           /\ {s[2] : s \in tx[p].seen} = Rows(o)
           /\ \A c \in Rows(o) : Qty(p, c) = Demand[o][c]
<1>1. /\ Stages(p) /\ HoldsItsRows(p) /\ TypeOK /\ RowsWereAskedFor /\ RowsHaveTheirClass
      /\ tx[p].seen \in SUBSET (Orders \X Classes \X RowStatus)
  BY DEF TxInv, TxTypeOK, Transaction, Tables, LedgerInv
<1>2. PICK o \in Orders :
        /\ tx[p].cand = {} /\ SeenRows(p) \subseteq {o} \X Classes
        /\ \A c \in Ids(o) : <<o, c>> \in SeenRows(p) \/ class[c].status = "deleted"
        /\ \A s \in tx[p].seen : s[3] # "none"
  BY <1>1 DEF Stages, OrderStage
<1>3. ASSUME NEW s \in tx[p].seen
      PROVE  s = <<o, s[2], row[o][s[2]]>> /\ s[2] \in Rows(o)
  <2>1. <<s[1], s[2]>> \in SeenRows(p)
    BY DEF SeenRows
  <2>2. s[1] = o /\ s[2] \in Classes
    BY <2>1, <1>2
  <2>3. row[o][s[2]] = s[3] /\ s = <<s[1], s[2], s[3]>>
    BY <1>1, <2>2 DEF HoldsItsRows
  <2> QED BY <1>2, <2>2, <2>3 DEF Rows
<1>4. ASSUME NEW c \in Rows(o)
      PROVE  <<o, c, row[o][c]>> \in tx[p].seen
  <2>1. c \in Classes /\ row[o][c] # "none"
    BY DEF Rows
  <2>2. Present(c) /\ Demand[o][c] > 0
    BY <1>1, <2>1 DEF RowsHaveTheirClass, RowsWereAskedFor
  <2>3. <<o, c>> \in SeenRows(p)
    BY <1>2, <2>1, <2>2 DEF Ids, Present
  <2>4. PICK s \in tx[p].seen : <<s[1], s[2]>> = <<o, c>>
    BY <2>3 DEF SeenRows
  <2>5. s = <<o, s[2], row[o][s[2]]>>
    BY <1>3
  <2> QED BY <2>4, <2>5
<1>5. SeenRows(p) = {o} \X Rows(o)
  <2>1. \A r \in SeenRows(p) : r \in {o} \X Rows(o)
    BY <1>3 DEF SeenRows
  <2>2. ASSUME NEW c \in Rows(o) PROVE <<o, c>> \in SeenRows(p)
    <3> DEFINE s == <<o, c, row[o][c]>>
    <3>1. s \in tx[p].seen /\ <<s[1], s[2]>> = <<o, c>>
      BY <1>4
    <3> HIDE DEF s
    <3> QED BY <3>1 DEF SeenRows
  <2> QED BY <2>1, <2>2
<1>6. SeenStatuses(p) = Statuses(o)
  <2>1. \A x \in SeenStatuses(p) : x \in Statuses(o)
    BY <1>3 DEF SeenStatuses, Statuses
  <2>2. ASSUME NEW x \in Statuses(o) PROVE x \in SeenStatuses(p)
    <3>1. PICK c \in Rows(o) : x = row[o][c]
      BY DEF Statuses
    <3>2. <<o, c, x>> \in tx[p].seen /\ <<o, c, x>>[3] = x
      BY <1>4, <3>1
    <3> QED BY <3>2 DEF SeenStatuses
  <2> QED BY <2>1, <2>2
<1>7. ASSUME NEW st PROVE SeenClasses(p, st) = {c \in Rows(o) : row[o][c] \in st}
  <2>1. \A c \in SeenClasses(p, st) : c \in Rows(o) /\ row[o][c] \in st
    BY <1>3 DEF SeenClasses
  <2>2. ASSUME NEW c \in Rows(o), row[o][c] \in st PROVE c \in SeenClasses(p, st)
    <3>1. <<o, c, row[o][c]>> \in tx[p].seen /\ <<o, c, row[o][c]>>[3] \in st
      BY <1>4, <2>2
    <3>2. <<o, c, row[o][c]>>[2] = c
      OBVIOUS
    <3> QED BY <3>1, <3>2 DEF SeenClasses
  <2> QED BY <2>1, <2>2
<1>8. {s[2] : s \in tx[p].seen} = Rows(o)
  <2>1. \A c \in {s[2] : s \in tx[p].seen} : c \in Rows(o)
    BY <1>3
  <2>2. ASSUME NEW c \in Rows(o) PROVE c \in {s[2] : s \in tx[p].seen}
    <3>1. <<o, c, row[o][c]>> \in tx[p].seen /\ <<o, c, row[o][c]>>[2] = c
      BY <1>4
    <3> QED BY <3>1
  <2> QED BY <2>1, <2>2
<1>9. ASSUME NEW c \in Rows(o) PROVE Qty(p, c) = Demand[o][c]
  <2>1. {o} \X Rows(o) \in SUBSET ({o} \X Classes) /\ <<o, c>> \in {o} \X Rows(o) /\ c \in Classes
    BY DEF Rows
  <2>2. Qty(p, c) = BatchQty({o} \X Rows(o), c)
    BY <1>2, <1>5 DEF Qty
  <2> QED BY <2>1, <2>2, OrderQty
<1> QED BY <1>5, <1>6, <1>7, <1>8, <1>9
LEMMA CommitConfirm ==
  ASSUME TxInv, NEW p \in Procs, Commit(p), tx[p].op = "confirm"
  PROVE  [Next]_vars
<1>1. Stages(p) /\ TypeOK /\ tx[p].step = "commit"
  BY DEF TxInv, Tables, LedgerInv, Commit
<1>2. PICK o \in Orders :
           /\ SeenRows(p) = {o} \X Rows(o)
           /\ SeenStatuses(p) = Statuses(o)
           /\ \A st : SeenClasses(p, st) = {c \in Rows(o) : row[o][c] \in st}
           /\ {s[2] : s \in tx[p].seen} = Rows(o)
           /\ \A c \in Rows(o) : Qty(p, c) = Demand[o][c]
  BY <1>1, OrderHeld
<1>3. DOMAIN tx[p].dirty = Rows(o)
  <2>1. Aim(p) = Rows(o)
    BY <1>2 DEF Aim
  <2> QED BY <1>1, <2>1 DEF Stages, MoveStage
<1>4. Confirmable(o)
  <2>1. tx[p].seen # {} /\ SeenStatuses(p) \subseteq {"ACTIVE", "EXPIRED"}
    BY <1>1 DEF Stages, OrderStage
  <2>2. Rows(o) # {}
    BY <1>2, <2>1
  <2> QED BY <1>2, <2>1, <2>2 DEF Confirmable
<1>5. \A c \in Rows(o) : row[o][c] \in {"ACTIVE", "EXPIRED"}
  BY <1>4 DEF Confirmable, Statuses
<1>6. ASSUME NEW c \in Rows(o)
      PROVE  /\ row[o][c] = "ACTIVE" =>
                  /\ class[c].reserved >= Demand[o][c]
                  /\ tx[p].dirty[c] = [class[c] EXCEPT !.reserved = @ - Demand[o][c],
                                                       !.sold = @ + Demand[o][c]]
             /\ row[o][c] = "EXPIRED" =>
                  /\ Fits(c, Demand[o][c])
                  /\ tx[p].dirty[c] = [class[c] EXCEPT !.sold = @ + Demand[o][c]]
  <2>1. Matches(p, c) /\ tx[p].dirty[c] = Version(p, c) /\ Qty(p, c) = Demand[o][c]
    BY <1>1, <1>2, <1>3 DEF Stages, MoveStage
  <2>2. c \in SeenClasses(p, {"EXPIRED"}) <=> row[o][c] = "EXPIRED"
    BY <1>2
  <2>3. CASE row[o][c] = "ACTIVE"
    <3>1. c \notin SeenClasses(p, {"EXPIRED"})
      BY <2>2, <2>3
    <3> QED BY <2>1, <2>3, <3>1 DEF Matches, Version
  <2>4. CASE row[o][c] = "EXPIRED"
    <3>1. c \in SeenClasses(p, {"EXPIRED"})
      BY <2>2, <2>4
    <3> QED BY <2>1, <2>4, <3>1 DEF Matches, Version
  <2> QED BY <2>3, <2>4
<1>7. CanConfirm(o)
  <2>1. Drifted(o) = {}
    <3> SUFFICES ASSUME NEW c \in Rows(o), row[o][c] = "ACTIVE", class[c].reserved < Demand[o][c]
                 PROVE  FALSE
      BY DEF Drifted
    <3>1. c \in Classes
      BY DEF Rows
    <3>2. class[c].reserved \in Nat /\ Demand[o][c] \in Nat
      BY <1>1, <3>1, DemandAssumption, QtyAssumption DEF TypeOK, TicketClass
    <3>3. class[c].reserved >= Demand[o][c]
      BY <1>6
    <3> QED BY <3>2, <3>3
  <2>2. SoldOut(o) = {}
    BY <1>6 DEF SoldOut
  <2> QED BY <1>4, <2>1, <2>2 DEF CanConfirm
<1>8. Written(p) = {o} \X Rows(o)
  BY <1>2, <1>3 DEF Written
<1>9. class' = [c \in Classes |->
                 CASE row[o][c] = "ACTIVE"  -> [class[c] EXCEPT !.reserved = @ - Demand[o][c],
                                                               !.sold = @ + Demand[o][c]]
                   [] row[o][c] = "EXPIRED" -> [class[c] EXCEPT !.sold = @ + Demand[o][c]]
                   [] OTHER                 -> class[c]]
  <2>1. class' = [c \in Classes |-> IF c \in Rows(o) THEN tx[p].dirty[c] ELSE class[c]]
    BY <1>3 DEF Commit
  <2>2. ASSUME NEW c \in Classes
        PROVE  (IF c \in Rows(o) THEN tx[p].dirty[c] ELSE class[c]) =
                 CASE row[o][c] = "ACTIVE"  -> [class[c] EXCEPT !.reserved = @ - Demand[o][c],
                                                               !.sold = @ + Demand[o][c]]
                   [] row[o][c] = "EXPIRED" -> [class[c] EXCEPT !.sold = @ + Demand[o][c]]
                   [] OTHER                 -> class[c]
    <3>1. CASE c \in Rows(o) /\ row[o][c] = "ACTIVE"
      BY <3>1, <1>6
    <3>2. CASE c \in Rows(o) /\ row[o][c] = "EXPIRED"
      BY <3>2, <1>6
    <3>3. CASE c \notin Rows(o)
      <4>1. row[o][c] = "none"
        BY <3>3 DEF Rows
      <4> QED BY <4>1, <3>3
    <3> QED BY <1>5, <3>1, <3>2, <3>3
  <2> QED BY <2>1, <2>2
<1>10. row' = [row EXCEPT ![o] = [c \in Classes |-> IF c \in Rows(o) THEN "CONFIRMED" ELSE "none"]]
  <2>1. row' = [q \in Orders |-> [c \in Classes |->
                  IF <<q, c>> \in {o} \X Rows(o) THEN "CONFIRMED" ELSE row[q][c]]]
    BY <1>8 DEF Commit, After
  <2>2. \A c \in Classes : c \notin Rows(o) => row[o][c] = "none"
    BY DEF Rows
  <2>3. \A q \in Orders : row[q] \in [Classes -> RowStatus]
    BY <1>1 DEF TypeOK
  <2>4. ASSUME NEW q \in Orders
        PROVE  row'[q] = IF q = o THEN [c \in Classes |-> IF c \in Rows(o) THEN "CONFIRMED" ELSE "none"]
                         ELSE row[q]
    <3>1. row'[q] = [c \in Classes |-> IF <<q, c>> \in {o} \X Rows(o) THEN "CONFIRMED" ELSE row[q][c]]
      BY <2>1
    <3>2. CASE q = o
      BY <3>1, <3>2, <2>2
    <3>3. CASE q # o
      BY <3>1, <3>3, <2>3
    <3> QED BY <3>2, <3>3
  <2> QED BY <2>1, <2>4, <1>1 DEF TypeOK
<1>11. lapsed' = lapsed
  BY DEF Commit
<1>12. Confirm(o)
  BY <1>7, <1>9, <1>10, <1>11 DEF Confirm
<1> QED BY <1>12 DEF Next, Orderer

LEMMA CommitRelease ==
  ASSUME TxInv, NEW p \in Procs, Commit(p), tx[p].op = "release"
  PROVE  [Next]_vars
<1>1. Stages(p) /\ TypeOK /\ tx[p].step = "commit"
  BY DEF TxInv, Tables, LedgerInv, Commit
<1>2. PICK o \in Orders :
           /\ SeenRows(p) = {o} \X Rows(o)
           /\ SeenStatuses(p) = Statuses(o)
           /\ \A st : SeenClasses(p, st) = {c \in Rows(o) : row[o][c] \in st}
           /\ \A c \in Rows(o) : Qty(p, c) = Demand[o][c]
  BY <1>1, OrderHeld
<1> DEFINE held == {c \in Classes : row[o][c] = "ACTIVE"}
<1>3. DOMAIN tx[p].dirty = held
  <2>1. Aim(p) = {c \in Rows(o) : row[o][c] \in {"ACTIVE"}}
    BY <1>2 DEF Aim
  <2>2. Aim(p) = held
    BY <2>1 DEF Rows
  <2> QED BY <1>1, <2>2 DEF Stages, MoveStage
<1>4. Releasable(o)
  <2>1. "ACTIVE" \in SeenStatuses(p) /\ "CONFIRMED" \notin SeenStatuses(p)
    BY <1>1 DEF Stages, OrderStage
  <2> QED BY <1>2, <2>1 DEF Releasable
<1>5. ASSUME NEW c \in held
      PROVE  /\ class[c].reserved >= Demand[o][c]
             /\ tx[p].dirty[c] = [class[c] EXCEPT !.reserved = @ - Demand[o][c]]
  <2>1. c \in Rows(o)
    BY DEF Rows
  <2>2. Matches(p, c) /\ tx[p].dirty[c] = Version(p, c) /\ Qty(p, c) = Demand[o][c]
    BY <1>1, <1>2, <1>3, <2>1 DEF Stages, MoveStage
  <2> QED BY <2>2 DEF Matches, Version
<1>6. CanRelease(o)
  <2> SUFFICES ASSUME NEW c \in held, class[c].reserved < Demand[o][c] PROVE FALSE
    BY <1>4 DEF CanRelease, Drifted, Rows
  <2>1. class[c].reserved \in Nat /\ Demand[o][c] \in Nat
    BY <1>1, DemandAssumption, QtyAssumption DEF TypeOK, TicketClass
  <2>2. class[c].reserved >= Demand[o][c]
    BY <1>5
  <2> QED BY <2>1, <2>2
<1>7. \A q \in Orders, c \in Classes : <<q, c>> \in Written(p) <=> q = o /\ row[o][c] = "ACTIVE"
  BY <1>2, <1>3 DEF Written, Rows
<1>8. class' = [c \in Classes |->
                 IF row[o][c] = "ACTIVE" THEN [class[c] EXCEPT !.reserved = @ - Demand[o][c]]
                 ELSE class[c]]
  <2>1. class' = [c \in Classes |-> IF c \in held THEN tx[p].dirty[c] ELSE class[c]]
    BY <1>3 DEF Commit
  <2>2. \A c \in Classes : c \in held <=> row[o][c] = "ACTIVE"
    OBVIOUS
  <2> QED BY <2>1, <2>2, <1>5
<1>9. row' = [row EXCEPT ![o] = [c \in Classes |-> IF row[o][c] = "ACTIVE" THEN "CANCELLED" ELSE row[o][c]]]
  <2>1. row' = [q \in Orders |-> [c \in Classes |-> IF <<q, c>> \in Written(p) THEN "CANCELLED" ELSE row[q][c]]]
    BY DEF Commit, After
  <2>2. \A q \in Orders : row[q] \in [Classes -> RowStatus]
    BY <1>1 DEF TypeOK
  <2>3. ASSUME NEW q \in Orders
        PROVE  row'[q] = IF q = o
                         THEN [c \in Classes |-> IF row[o][c] = "ACTIVE" THEN "CANCELLED" ELSE row[o][c]]
                         ELSE row[q]
    <3>1. row'[q] = [c \in Classes |-> IF q = o /\ row[o][c] = "ACTIVE" THEN "CANCELLED" ELSE row[q][c]]
      BY <2>1, <1>7
    <3>2. CASE q = o
      BY <3>1, <3>2
    <3>3. CASE q # o
      BY <3>1, <3>3, <2>2
    <3> QED BY <3>2, <3>3
  <2> QED BY <2>1, <2>3, <1>1 DEF TypeOK
<1>10. lapsed' = lapsed
  BY DEF Commit
<1>11. Release(o)
  BY <1>6, <1>8, <1>9, <1>10 DEF Release
<1> QED BY <1>11 DEF Next, Orderer

LEMMA CommitSweep ==
  ASSUME TxInv, NEW p \in Procs, Commit(p), tx[p].op = "sweep"
  PROVE  [Next]_vars
<1> DEFINE batch == SeenRows(p)
<1>1. /\ Stages(p) /\ HoldsItsRows(p) /\ TypeOK /\ LedgerInv /\ tx[p].step = "commit"
      /\ tx[p].seen \in SUBSET (Orders \X Classes \X RowStatus)
  BY DEF TxInv, TxTypeOK, Transaction, Tables, LedgerInv, Commit
<1>2. /\ tx[p].cand = {} /\ tx[p].seen # {} /\ Cardinality(batch) <= BatchSize
      /\ \A s \in tx[p].seen : s[3] = "ACTIVE" /\ s[1] \in lapsed /\ row[s[1]][s[2]] = s[3]
  BY <1>1 DEF Stages, SweepStage, HoldsItsRows
<1>3. /\ batch # {} /\ batch \in SUBSET Overdue /\ batch \in SUBSET (Orders \X Classes)
      /\ \A r \in batch : RowAt(r) = "ACTIVE"
  <2>1. batch # {}
    BY <1>2 DEF SeenRows
  <2>2. ASSUME NEW r \in batch
        PROVE  r \in Overdue /\ r \in Orders \X Classes /\ RowAt(r) = "ACTIVE"
    <3>1. PICK s \in tx[p].seen : r = <<s[1], s[2]>>
      BY DEF SeenRows
    <3> QED BY <3>1, <1>1, <1>2 DEF Overdue, RowAt
  <2> QED BY <2>1, <2>2
<1>4. DOMAIN tx[p].dirty = {s[2] : s \in tx[p].seen}
  BY <1>1 DEF Stages, MoveStage, Aim
<1>5. \A c \in Classes : c \in DOMAIN tx[p].dirty <=> \E r \in batch : r[2] = c
  <2>1. ASSUME NEW c \in DOMAIN tx[p].dirty
        PROVE  \E r \in batch : r[2] = c
    <3>1. PICK s \in tx[p].seen : c = s[2]
      BY <1>4
    <3>2. <<s[1], s[2]>> \in batch /\ <<s[1], s[2]>>[2] = c
      BY <3>1 DEF SeenRows
    <3> QED BY <3>2
  <2>2. ASSUME NEW r \in batch
        PROVE  r[2] \in DOMAIN tx[p].dirty
    <3>1. PICK s \in tx[p].seen : r = <<s[1], s[2]>>
      BY DEF SeenRows
    <3> QED BY <3>1, <1>4
  <2> QED BY <2>1, <2>2
<1>6. \A c \in DOMAIN tx[p].dirty : tx[p].dirty[c] = [class[c] EXCEPT !.reserved = @ - BatchQty(batch, c)]
  <2> SUFFICES ASSUME NEW c \in DOMAIN tx[p].dirty
               PROVE  tx[p].dirty[c] = [class[c] EXCEPT !.reserved = @ - BatchQty(batch, c)]
    OBVIOUS
  <2>1. tx[p].dirty[c] = Version(p, c)
    BY <1>1 DEF Stages, MoveStage
  <2>2. Qty(p, c) = BatchQty(batch, c)
    BY <1>2 DEF Qty
  <2> QED BY <2>1, <2>2 DEF Version
<1> HIDE DEF batch
<1>7. ASSUME NEW c \in Classes
      PROVE  /\ Absorbs(batch, c)
             /\ class'[c] = [class[c] EXCEPT !.reserved = @ - BatchQty(batch, c)]
  <2>1. BatchQty(batch, c) \in Nat /\ BatchQty(batch, c) <= class[c].reserved
    BY <1>1, <1>3, HeldBatchFits
  <2>2. class'[c] = IF c \in DOMAIN tx[p].dirty THEN tx[p].dirty[c] ELSE class[c]
    BY DEF Commit
  <2>3. CASE c \in DOMAIN tx[p].dirty
    BY <2>1, <2>2, <2>3, <1>6 DEF Absorbs
  <2>4. CASE c \notin DOMAIN tx[p].dirty
    <3>1. BatchUnits(batch, c) = {}
      <4> SUFFICES ASSUME NEW u \in BatchUnits(batch, c) PROVE FALSE
        OBVIOUS
      <4>1. <<u[1], c>> \in batch /\ <<u[1], c>>[2] = c
        BY DEF BatchUnits
      <4> QED BY <4>1, <1>5, <2>4
    <3>2. BatchQty(batch, c) = 0
      BY <3>1, FS_EmptySet DEF BatchQty
    <3>3. class[c] \in TicketClass
      BY <1>1 DEF TypeOK
    <3>4. class[c].reserved - BatchQty(batch, c) = class[c].reserved
      BY <3>2, <3>3 DEF TicketClass
    <3>5. [class[c] EXCEPT !.reserved = @ - BatchQty(batch, c)] = class[c]
      BY <3>3, <3>4 DEF TicketClass
    <3> QED BY <2>1, <2>2, <2>4, <3>5 DEF Absorbs
  <2> QED BY <2>3, <2>4
<1>8. class' = [c \in Classes |->
                 IF Absorbs(batch, c)
                 THEN [class[c] EXCEPT !.reserved = @ - BatchQty(batch, c)]
                 ELSE class[c]]
  BY <1>7 DEF Commit
<1>9. \A r \in Orders \X Classes : r \in Written(p) <=> r \in batch
  <2>1. \A r \in Orders \X Classes : r \in Written(p) <=> r \in batch /\ r[2] \in DOMAIN tx[p].dirty
    BY DEF Written, batch
  <2> QED BY <2>1, <1>5
<1>10. row' = [o \in Orders |-> [c \in Classes |->
               IF <<o, c>> \in batch /\ Absorbs(batch, c) THEN "EXPIRED" ELSE row[o][c]]]
  <2>1. row' = [o \in Orders |-> [c \in Classes |-> IF <<o, c>> \in Written(p) THEN "EXPIRED" ELSE row[o][c]]]
    BY DEF Commit, After
  <2>2. \A o \in Orders, c \in Classes : <<o, c>> \in Written(p) <=> (<<o, c>> \in batch /\ Absorbs(batch, c))
    BY <1>7, <1>9
  <2> QED BY <2>1, <2>2
<1>11. lapsed' = lapsed
  BY DEF Commit
<1>12. Cardinality(batch) <= BatchSize
  BY <1>2 DEF batch
<1>13. Expire(batch)
  BY <1>3, <1>8, <1>10, <1>11, <1>12 DEF Expire
<1> QED BY <1>3, <1>13 DEF Next, BatchExpireReservations

LEMMA CommitUpdate ==
  ASSUME TxInv, NEW p \in Procs, Commit(p), tx[p].op = "update"
  PROVE  [Next]_vars
<1>1. Stages(p) /\ TypeOK
  BY DEF TxInv, Tables, LedgerInv
<1>2. PICK c \in Classes : \E t \in Totals \cup {class[c].total}, st \in {"ACTIVE", "INACTIVE"} :
        /\ tx[p].seen = {}
        /\ Present(c)
        /\ t # class[c].total => t >= class[c].reserved + class[c].sold
        /\ tx[p].dirty = Only(c, [class[c] EXCEPT !.total = t, !.status = st])
  BY <1>1 DEF Stages, UpdateStage
<1>3. PICK t \in Totals \cup {class[c].total}, st \in {"ACTIVE", "INACTIVE"} :
        /\ tx[p].seen = {}
        /\ Present(c)
        /\ t # class[c].total => t >= class[c].reserved + class[c].sold
        /\ tx[p].dirty = Only(c, [class[c] EXCEPT !.total = t, !.status = st])
  BY <1>2
<1> DEFINE v == [class[c] EXCEPT !.total = t, !.status = st]
<1>4. DOMAIN tx[p].dirty = {c} /\ tx[p].dirty[c] = v
  BY <1>3 DEF Only
<1>5. class' = [class EXCEPT ![c].total = t, ![c].status = st]
  <2>1. class' = [d \in Classes |-> IF d \in DOMAIN tx[p].dirty THEN tx[p].dirty[d] ELSE class[d]]
    BY DEF Commit
  <2> HIDE DEF v
  <2>2. class' = [d \in Classes |-> IF d = c THEN v ELSE class[d]]
    BY <1>4, <2>1
  <2>3. class' = [class EXCEPT ![c] = v]
    BY <1>1, <2>2 DEF TypeOK
  <2>4. class[c] \in TicketClass
    BY <1>1 DEF TypeOK
  <2> QED BY <2>3, <2>4, <1>1 DEF v, TypeOK
<1>6. row' = row /\ lapsed' = lapsed
  <2>1. Written(p) = {}
    BY <1>3 DEF Written, SeenRows
  <2>2. row' = [o \in Orders |-> [d \in Classes |-> row[o][d]]]
    BY <2>1 DEF Commit
  <2>3. \A o \in Orders : [d \in Classes |-> row[o][d]] = row[o]
    BY <1>1 DEF TypeOK
  <2>4. row' = row
    BY <2>2, <2>3, <1>1 DEF TypeOK
  <2>5. lapsed' = lapsed
    BY DEF Commit
  <2> QED BY <2>4, <2>5
<1>7. Update(c, t, st)
  BY <1>3, <1>5, <1>6 DEF Update
<1> QED BY <1>7 DEF Next, Organiser

LEMMA CommitDelete ==
  ASSUME TxInv, NEW p \in Procs, Commit(p), tx[p].op = "delete"
  PROVE  [Next]_vars
<1> DEFINE v == [status |-> "deleted", total |-> 0, reserved |-> 0, sold |-> 0]
<1>1. Stages(p) /\ TypeOK /\ tx[p].step = "commit"
  BY DEF TxInv, Tables, LedgerInv, Commit
<1>2. PICK c \in Classes :
      /\ Present(c)
      /\ tx[p].dirty = Only(c, v)
      /\ SeenRows(p) \subseteq Orders \X {c}
      /\ \A o \in Orders : row[o][c] \notin Live
      /\ \A o \in Orders : row[o][c] = "none" \/ <<o, c>> \in SeenRows(p)
  BY <1>1 DEF Stages, DeleteStage
<1>3. DOMAIN tx[p].dirty = {c} /\ tx[p].dirty[c] = v
  BY <1>2 DEF Only
<1> HIDE DEF v
<1>4. class' = [class EXCEPT ![c] = v]
  <2>1. class' = [d \in Classes |-> IF d \in DOMAIN tx[p].dirty THEN tx[p].dirty[d] ELSE class[d]]
    BY DEF Commit
  <2> QED BY <1>1, <1>3, <2>1 DEF TypeOK
<1>5. row' = [o \in Orders |-> [row[o] EXCEPT ![c] = "none"]]
  <2>1. row' = [o \in Orders |-> [d \in Classes |-> IF <<o, d>> \in Written(p) THEN "none" ELSE row[o][d]]]
    BY DEF Commit, After
  <2>2. \A o \in Orders, d \in Classes : <<o, d>> \in Written(p) <=> (d = c /\ <<o, d>> \in SeenRows(p))
    BY <1>2, <1>3 DEF Written
  <2>3. ASSUME NEW o \in Orders
        PROVE  [d \in Classes |-> IF <<o, d>> \in Written(p) THEN "none" ELSE row[o][d]]
               = [row[o] EXCEPT ![c] = "none"]
    <3>1. row[o] \in [Classes -> RowStatus]
      BY <1>1 DEF TypeOK
    <3>2. \A d \in Classes : (IF <<o, d>> \in Written(p) THEN "none" ELSE row[o][d])
                             = IF d = c THEN "none" ELSE row[o][d]
      BY <1>2, <2>2
    <3> QED BY <3>1, <3>2
  <2> QED BY <2>1, <2>3
<1>6. lapsed' = lapsed
  BY DEF Commit
<1>7. Delete(c)
  BY <1>2, <1>4, <1>5, <1>6 DEF Delete, v
<1> QED BY <1>7 DEF Next, Organiser

\* The commit of any call is one step of the ledger, or none.
LEMMA CommitIsLedgerStep ==
  ASSUME TxInv, NEW p \in Procs, Commit(p)
  PROVE  [Next]_vars
<1>1. tx[p].op \in {"reserve", "confirm", "release", "sweep", "update", "delete"}
  BY CallsAtStep DEF Commit
<1> QED BY <1>1, CommitReserve, CommitConfirm, CommitRelease, CommitSweep, CommitUpdate, CommitDelete
-----------------------------------------------------------------------------
(***************************************************************************)
(* The end of a transaction, and what happens outside of any.              *)
(***************************************************************************)

\* Nobody locks a class that is not there.
LEMMA LockedClassesArePresent ==
  ASSUME TxInv, NEW q \in Procs, NEW c \in DOMAIN tx[q].dirty
  PROVE  c \in Classes /\ Present(c)
<1>1. /\ Stages(q) /\ HoldsItsRows(q) /\ RowsHaveTheirClass
      /\ tx[q].op \in Calls /\ tx[q].dirty \in Versions
      /\ tx[q].seen \in SUBSET (Orders \X Classes \X RowStatus)
  BY DEF TxInv, TxTypeOK, Transaction, Tables
<1>2. c \in Classes
  BY <1>1, VersionsFacts
<1>3. CASE tx[q].op = "idle"
  <2>1. tx[q].dirty = <<>>
    BY <1>1, <1>3 DEF Stages, IdleStage, Idle
  <2> QED BY <2>1, NoVersions
<1>4. CASE tx[q].op = "reserve"
  <2>1. tx[q].step \in {"classes", "commit"}
    BY <1>1, <1>4 DEF Stages, ReserveStage
  <2>2. Matches(q, c)
    BY <1>1, <1>4, <2>1 DEF Stages, MoveStage
  <2>3. OnSale(c, Classes)
    BY <1>4, <2>2 DEF Matches
  <2> QED BY <1>2, <2>3 DEF OnSale, Present
<1>5. CASE tx[q].op \in {"confirm", "release", "sweep"}
  <2>1. \A s \in tx[q].seen : s[3] # "none"
    BY <1>1, <1>5 DEF Stages, OrderStage, SweepStage
  <2>2. tx[q].step \in {"rows", "classes", "commit"} /\ (tx[q].op = "sweep" => tx[q].step # "rows")
    BY <1>1, <1>5 DEF Stages, OrderStage, SweepStage
  <2>3. tx[q].step # "rows"
    BY <1>1, <1>5, <2>2 DEF Stages, OrderStage
  <2>4. c \in Aim(q)
    BY <1>1, <1>5, <2>2, <2>3 DEF Stages, MoveStage
  <2>5. PICK s \in tx[q].seen : c = s[2]
    BY <1>5, <2>4 DEF Aim, SeenClasses
  <2>6. row[s[1]][c] # "none" /\ s[1] \in Orders
    BY <1>1, <2>1, <2>5 DEF HoldsItsRows
  <2> QED BY <1>1, <1>2, <2>6 DEF RowsHaveTheirClass
<1>6. CASE tx[q].op = "update"
  <2>1. PICK k \in Classes : Present(k) /\ \E v : tx[q].dirty = Only(k, v)
    BY <1>1, <1>6 DEF Stages, UpdateStage
  <2> QED BY <1>2, <2>1 DEF Only
<1>7. CASE tx[q].op = "delete"
  <2>1. PICK k \in Classes : Present(k) /\ \E v : tx[q].dirty = Only(k, v)
    BY <1>1, <1>7 DEF Stages, DeleteStage
  <2> QED BY <1>2, <2>1 DEF Only
<1> QED BY <1>1, <1>3, <1>4, <1>5, <1>6, <1>7 DEF Calls

LEMMA UnlockKeeps ==
  ASSUME TxInv, NEW p \in Procs, Unlock(p), Tables', \A q \in Procs \ {p} : LeftAlone(q)
  PROVE  TxInv'
<1>1. TxTypeOK
  BY DEF TxInv
<1>2. Idle \in Transaction
  BY NoVersions DEF Idle, Transaction, Calls, Steps
<1>3. tx' = [tx EXCEPT ![p] = Idle]
  BY DEF Unlock
<1>4. /\ classLock' = [c \in Classes |-> IF classLock[c] = p THEN NoOne ELSE classLock[c]]
      /\ rowLock' = [o \in Orders |-> [c \in Classes |-> IF rowLock[o][c] = p THEN NoOne ELSE rowLock[o][c]]]
  BY DEF Unlock
<1>5. tx' \in [Procs -> Transaction] /\ tx'[p] = Idle
  BY <1>1, <1>2, <1>3 DEF TxTypeOK
<1>6. TxTypeOK'
  <2>1. classLock' \in [Classes -> Procs \cup {NoOne}]
    BY <1>1, <1>4 DEF TxTypeOK
  <2>2. rowLock' \in [Orders -> [Classes -> Procs \cup {NoOne}]]
    BY <1>1, <1>4 DEF TxTypeOK
  <2> QED BY <1>5, <2>1, <2>2 DEF TxTypeOK
<1>7. /\ \A c \in Classes : classLock'[c] # p
      /\ \A o \in Orders, c \in Classes : rowLock'[o][c] # p
  BY <1>4, ProcsAssumption
<1>8. tx'[p].op = "idle" /\ tx'[p].step = "none" /\ tx'[p].seen = {} /\ DOMAIN tx'[p].dirty = {}
  BY <1>5, NoVersions DEF Idle
<1>9. HoldsItsRows(p)'
  <2>1. SeenRows(p)' = {}
    BY <1>8 DEF SeenRows
  <2> QED BY <1>7, <1>8, <2>1 DEF HoldsItsRows
<1>10. Stages(p)'
  BY <1>5, <1>8 DEF Stages, IdleStage, ReserveStage, OrderStage, SweepStage, UpdateStage, DeleteStage, MoveStage
<1>11. ASSUME NEW q \in Procs
       PROVE  HoldsItsRows(q)' /\ Stages(q)'
  <2>1. CASE q = p
    BY <2>1, <1>9, <1>10
  <2>2. CASE q # p
    BY <2>2, LeftAloneKeeps DEF TxInv
  <2> QED BY <2>1, <2>2
<1> QED BY <1>6, <1>11 DEF TxInv

\* Another connection keeps its locks and its place.
LEMMA UnlockSparesLocks ==
  ASSUME TxInv, NEW p \in Procs, Unlock(p), NEW q \in Procs \ {p}
  PROVE  /\ tx'[q] = tx[q]
         /\ \A c \in Classes : classLock'[c] = q <=> classLock[c] = q
         /\ \A o \in Orders, c \in Classes : rowLock'[o][c] = q <=> rowLock[o][c] = q
<1>1. TxTypeOK
  BY DEF TxInv
<1>2. tx'[q] = tx[q]
  BY <1>1 DEF TxTypeOK, Unlock
<1>3. \A c \in Classes : classLock'[c] = q <=> classLock[c] = q
  BY ProcsAssumption DEF Unlock
<1>4. \A o \in Orders, c \in Classes : rowLock'[o][c] = q <=> rowLock[o][c] = q
  BY ProcsAssumption DEF Unlock
<1> QED BY <1>2, <1>3, <1>4

LEMMA RollbackKeeps ==
  ASSUME TxInv, NEW p \in Procs, Rollback(p)
  PROVE  TxInv'
<1>1. Unlock(p) /\ class' = class /\ row' = row /\ lapsed' = lapsed
  BY DEF Rollback, tables
<1>2. Tables'
  <2>1. [Next]_vars
    BY <1>1 DEF vars
  <2> QED BY <2>1, LedgerStepKeepsTables DEF TxInv
<1>3. ASSUME NEW q \in Procs \ {p} PROVE LeftAlone(q)
  BY <1>1, UnlockSparesLocks DEF LeftAlone
<1> QED BY <1>1, <1>2, <1>3, UnlockKeeps

LEMMA CommitKeeps ==
  ASSUME TxInv, NEW p \in Procs, Commit(p)
  PROVE  TxInv'
<1>1. Unlock(p) /\ TxTypeOK /\ TypeOK /\ RowsWereAskedFor
  BY DEF Commit, TxInv, Tables, LedgerInv
<1>2. Tables' /\ DeletedForGood
  BY CommitIsLedgerStep, LedgerStepKeepsTables DEF TxInv
<1>3. /\ \A c \in Classes : c \notin DOMAIN tx[p].dirty => class'[c] = class[c]
      /\ \A o \in Orders, c \in Classes :
           c \notin DOMAIN tx[p].dirty \/ <<o, c>> \notin SeenRows(p) => row'[o][c] = row[o][c]
  BY DEF Commit, Written
<1>4. ASSUME NEW q \in Procs \ {p} PROVE LeftAlone(q)
  <2>1. /\ HoldsItsRows(p) /\ HoldsItsRows(q)
        /\ tx[q].seen \in SUBSET (Orders \X Classes \X RowStatus) /\ tx[q].dirty \in Versions
    BY <1>1 DEF TxInv, TxTypeOK, Transaction
  <2>2. ASSUME NEW c \in DOMAIN tx[q].dirty
        PROVE  class'[c] = class[c] /\ \A o \in Orders : row'[o][c] = row[o][c]
    <3>1. c \in Classes
      BY <2>1, VersionsFacts
    <3>2. classLock[c] = q
      BY <2>1, <3>1 DEF HoldsItsRows
    <3>3. c \notin DOMAIN tx[p].dirty
      BY <2>1, <3>1, <3>2 DEF HoldsItsRows
    <3> QED BY <1>3, <3>1, <3>3
  <2>3. ASSUME NEW s \in tx[q].seen
        PROVE  /\ row'[s[1]][s[2]] = row[s[1]][s[2]]
               /\ s[3] = "ACTIVE" /\ s[1] \in lapsed => s[1] \in lapsed'
    <3>1. s[1] \in Orders /\ s[2] \in Classes
      BY <2>1
    <3>2. <<s[1], s[2]>> \in SeenRows(q)
      BY DEF SeenRows
    <3>3. rowLock[s[1]][s[2]] = q
      BY <2>1, <3>1, <3>2 DEF HoldsItsRows
    <3>4. <<s[1], s[2]>> \notin SeenRows(p)
      BY <2>1, <3>1, <3>3 DEF HoldsItsRows
    <3>5. row'[s[1]][s[2]] = row[s[1]][s[2]]
      BY <1>3, <3>1, <3>4
    <3>6. ASSUME s[3] = "ACTIVE", s[1] \in lapsed, s[1] \notin lapsed'
          PROVE  FALSE
      <4>1. tx[p].op = "reserve" /\ s[1] \in {r[1] : r \in SeenRows(p)} /\ tx[p].step = "commit"
        BY <3>6 DEF Commit
      <4>2. PICK o \in Orders : SeenRows(p) = {o} \X Ids(o)
        BY <4>1 DEF TxInv, Stages, ReserveStage
      <4>3. s[1] = o
        BY <4>1, <4>2
      <4>4. row[s[1]][s[2]] = "ACTIVE"
        BY <2>1, <3>6 DEF HoldsItsRows
      <4>5. s[2] \in Ids(o)
        BY <1>1, <3>1, <4>3, <4>4 DEF RowsWereAskedFor, Ids
      <4> QED BY <3>4, <4>2, <4>3, <4>5
    <3> QED BY <3>5, <3>6
  <2>4. /\ tx'[q] = tx[q]
        /\ \A c \in Classes : classLock'[c] = q <=> classLock[c] = q
        /\ \A o \in Orders, c \in Classes : rowLock'[o][c] = q <=> rowLock[o][c] = q
    BY <1>1, UnlockSparesLocks
  <2> QED BY <1>2, <2>2, <2>3, <2>4 DEF LeftAlone, DeletedForGood
<1> QED BY <1>1, <1>2, <1>4, UnlockKeeps

LEMMA OutsideKeeps ==
  ASSUME TxInv, Outside
  PROVE  TxInv'
<1>1. /\ classLock' = classLock /\ rowLock' = rowLock /\ tx' = tx
      /\ TxTypeOK /\ TypeOK
  BY DEF Outside, TxInv, Tables, LedgerInv
<1>2. TxTypeOK'
  BY <1>1 DEF TxTypeOK
<1>3. [Next]_vars
  BY DEF Outside, Next, Organiser, Orderer
<1>4. Tables' /\ DeletedForGood
  BY <1>3, LedgerStepKeepsTables DEF TxInv
<1>5. /\ row' = row
      /\ lapsed \subseteq lapsed'
      /\ \A c \in Classes : Present(c) => class'[c] = class[c]
  <2>1. CASE \E c \in Classes, t \in Totals : Create(c, t)
    BY <1>1, <2>1 DEF Create, Present, TypeOK
  <2>2. CASE \E o \in Orders : Lapse(o)
    BY <2>2 DEF Lapse
  <2> QED BY <2>1, <2>2 DEF Outside
<1>6. ASSUME NEW q \in Procs PROVE HoldsItsRows(q)' /\ Stages(q)'
  <2>1. \A c \in DOMAIN tx[q].dirty : class'[c] = class[c]
    BY <1>5, LockedClassesArePresent
  <2>2. LeftAlone(q)
    BY <1>1, <1>4, <1>5, <2>1 DEF LeftAlone, DeletedForGood
  <2> QED BY <2>2, LeftAloneKeeps DEF TxInv
<1> QED BY <1>2, <1>4, <1>6 DEF TxInv

-----------------------------------------------------------------------------
(***************************************************************************)
(* The theorems.                                                           *)
(***************************************************************************)
LEMMA InitTxInv == TxInit => TxInv
<1> SUFFICES ASSUME TxInit PROVE TxInv
  OBVIOUS
<1>1. Idle \in Transaction
  BY NoVersions DEF Idle, Transaction, Calls, Steps
<1>2. TxTypeOK
  BY <1>1 DEF TxInit, TxTypeOK
<1>3. /\ \A p \in Procs : tx[p] = Idle
      /\ \A c \in Classes : classLock[c] = NoOne
      /\ \A o \in Orders, c \in Classes : rowLock[o][c] = NoOne
      /\ \A o \in Orders, c \in Classes : row[o][c] = "none"
  BY DEF TxInit, Init
<1>4. Tables
  <2>1. LedgerInv
    BY InitLedgerInv DEF TxInit
  <2> QED BY <1>3, <2>1 DEF Tables, RowsHaveTheirClass, OrdersAreWhole, Rows
<1>5. ASSUME NEW p \in Procs PROVE HoldsItsRows(p) /\ Stages(p)
  <2>1. tx[p].op = "idle" /\ tx[p].step = "none" /\ tx[p].seen = {} /\ DOMAIN tx[p].dirty = {}
    BY <1>3, NoVersions DEF Idle
  <2>2. HoldsItsRows(p)
    BY <1>3, <2>1, ProcsAssumption DEF HoldsItsRows, SeenRows
  <2>3. Stages(p)
    BY <1>3, <2>1 DEF Stages, IdleStage, ReserveStage, OrderStage, SweepStage, UpdateStage, DeleteStage, MoveStage
  <2> QED BY <2>2, <2>3
<1> QED BY <1>2, <1>4, <1>5 DEF TxInv

LEMMA NextKeepsTxInv == TxInv /\ [TxNext]_txVars => TxInv'
<1> SUFFICES ASSUME TxInv, [TxNext]_txVars PROVE TxInv'
  OBVIOUS
<1>1. CASE Outside
  BY <1>1, OutsideKeeps
<1>2. ASSUME NEW p \in Procs, Begin(p) PROVE TxInv'
  <2>1. ASSUME NEW o \in Orders, BeginReserve(p, o) PROVE TxInv'
    BY <2>1, BeginReserveKeeps
  <2>2. ASSUME NEW o \in Orders, NEW op \in {"confirm", "release"}, BeginOnOrder(p, o, op) PROVE TxInv'
    BY <2>2, BeginOnOrderKeeps
  <2>3. CASE BeginSweep(p)
    BY <2>3, BeginSweepKeeps
  <2>4. ASSUME NEW c \in Classes, NEW t \in Totals \cup {class[c].total}, NEW s \in {"ACTIVE", "INACTIVE"},
               BeginUpdate(p, c, t, s)
        PROVE TxInv'
    BY <2>4, BeginUpdateKeeps
  <2>5. ASSUME NEW c \in Classes, BeginDelete(p, c) PROVE TxInv'
    BY <2>5, BeginDeleteKeeps
  <2> QED BY <1>2, <2>1, <2>2, <2>3, <2>4, <2>5 DEF Begin
<1>3. ASSUME NEW p \in Procs, Continue(p) PROVE TxInv'
  BY <1>3, CountLiveKeeps, LockRowKeeps, DecideKeeps, UpdateClassKeeps, WriteRowsKeeps DEF Continue
<1>4. ASSUME NEW p \in Procs, Commit(p) \/ Rollback(p) PROVE TxInv'
  BY <1>4, CommitKeeps, RollbackKeeps
<1>5. CASE UNCHANGED txVars
  <2>1. /\ class' = class /\ row' = row /\ lapsed' = lapsed
        /\ classLock' = classLock /\ rowLock' = rowLock /\ tx' = tx
    BY <1>5 DEF txVars
  <2>2. Tables'
    <3>1. [Next]_vars
      BY <2>1 DEF vars
    <3> QED BY <3>1, LedgerStepKeepsTables DEF TxInv
  <2>3. TxTypeOK'
    BY <2>1 DEF TxInv, TxTypeOK
  <2>4. ASSUME NEW p \in Procs PROVE HoldsItsRows(p)' /\ Stages(p)'
    <3>1. LeftAlone(p)
      BY <2>1 DEF LeftAlone
    <3> QED BY <3>1, LeftAloneKeeps DEF TxInv
  <2> QED BY <2>2, <2>3, <2>4 DEF TxInv
<1> QED BY <1>1, <1>2, <1>3, <1>4, <1>5 DEF TxNext

\* Every reachable state of the interleaved calls satisfies TxInv: the locks are
\* held by whom tx says, and every call is at a stage its reads justify.
THEOREM TxInvariant == TxSpec => []TxInv
<1>1. TxInit => TxInv
  BY InitTxInv
<1>2. TxInv /\ [TxNext]_txVars => TxInv'
  BY NextKeepsTxInv
<1> QED BY <1>1, <1>2, PTL DEF TxSpec

\* What a call has read under FOR UPDATE, or found free to insert, is still so
\* when it commits, for any number of connections: no row is judged on a status
\* another call has changed since.
THEOREM ReadsHold == TxSpec => []ReadsStayTrue
<1>1. TxInv => ReadsStayTrue
  BY DEF TxInv, HoldsItsRows, ReadsStayTrue
<1> QED BY <1>1, TxInvariant, PTL

LEMMA TxStepIsLedgerStep == TxInv /\ [TxNext]_txVars => [Next]_vars
<1> SUFFICES ASSUME TxInv, [TxNext]_txVars PROVE [Next]_vars
  OBVIOUS
<1>1. CASE Outside
  BY <1>1 DEF Outside, Next, Organiser, Orderer
<1>2. ASSUME NEW p \in Procs, Begin(p) PROVE UNCHANGED vars
  <2>1. UNCHANGED tables
    BY <1>2 DEF Begin, BeginReserve, BeginOnOrder, BeginSweep, BeginUpdate, BeginDelete
  <2> QED BY <2>1 DEF tables, vars
<1>3. ASSUME NEW p \in Procs, Continue(p) \/ Rollback(p) PROVE UNCHANGED vars
  <2>1. UNCHANGED tables
    BY <1>3 DEF Continue, CountLive, LockRow, Decide, UpdateClass, WriteRows, Rollback
  <2> QED BY <2>1 DEF tables, vars
<1>4. ASSUME NEW p \in Procs, Commit(p) PROVE [Next]_vars
  BY <1>4, CommitIsLedgerStep
<1>5. CASE UNCHANGED txVars
  BY <1>5 DEF txVars, vars
<1> QED BY <1>1, <1>2, <1>3, <1>4, <1>5 DEF TxNext

\* Interleaved statement by statement on any number of connections, the calls of
\* inventory-svc amount to one atomic ledger step per commit: no lost update of a
\* counter, no decision on a stale status, no half of a call.
THEOREM StatementsAmountToTheLedger == TxSpec => ImplementsLedger
<1>1. TxInit => Init
  BY DEF TxInit
<1>2. TxInv /\ [TxNext]_txVars => [Next]_vars
  BY TxStepIsLedgerStep
<1> QED BY <1>1, <1>2, TxInvariant, PTL DEF TxSpec, ImplementsLedger, Spec

\* So no interleaving ever sells more of a class than it has.
THEOREM NeverOversoldUnderLocks == TxSpec => []NoOversell
BY StatementsAmountToTheLedger, NeverOversold, PTL DEF ImplementsLedger

-----------------------------------------------------------------------------
(***************************************************************************)
(* Deadlocks.                                                              *)
(***************************************************************************)

\* Classes cannot be climbed for ever.
LEMMA NoClimb ==
  ASSUME NEW S \in SUBSET Classes, \A c \in S : \E d \in S : c < d
  PROVE  S = {}
<1> SUFFICES ASSUME S # {} PROVE FALSE
  OBVIOUS
<1> DEFINE Above(c) == {d \in Classes : c < d}
           Sizes == {Cardinality(Above(c)) : c \in S}
<1>1. ASSUME NEW c \in S
      PROVE  IsFiniteSet(Above(c)) /\ Cardinality(Above(c)) \in Nat
  <2>1. Above(c) \in SUBSET Classes
    OBVIOUS
  <2> HIDE DEF Above
  <2>2. IsFiniteSet(Above(c))
    BY <2>1, ClassesAssumption, FS_Subset
  <2> QED BY <2>2, FS_CardinalityType
<1>2. Sizes \in SUBSET Nat /\ Sizes # {}
  BY <1>1
<1>3. PICK n \in Sizes : \A m \in Sizes : n <= m
  BY <1>2, LeastOf
<1>4. PICK c \in S : n = Cardinality(Above(c))
  BY <1>3
<1>5. PICK d \in S : c < d
  OBVIOUS
<1>6. Above(d) \subseteq Above(c) /\ d \in Above(c) /\ d \notin Above(d)
  <2>1. c \in Nat /\ d \in Nat /\ Classes \subseteq Nat
    BY ClassesAssumption
  <2>2. ASSUME NEW x \in Above(d) PROVE x \in Above(c)
    <3>1. x \in Nat /\ d < x /\ x \in Classes
      BY <2>1
    <3>2. c < x
      BY <1>5, <2>1, <3>1
    <3> QED BY <3>1, <3>2
  <2>3. d \in Above(c)
    BY <1>5
  <2>4. ~ (d < d)
    BY <2>1
  <2>5. d \notin Above(d)
    BY <2>4
  <2> QED BY <2>2, <2>3, <2>5
<1>7. Cardinality(Above(c)) <= Cardinality(Above(d))
  BY <1>3, <1>4
<1> HIDE DEF Above
<1>8. Cardinality(Above(d)) < Cardinality(Above(c))
  <2>1. Cardinality(Above(d)) <= Cardinality(Above(c)) /\ Cardinality(Above(d)) # Cardinality(Above(c))
    BY <1>1, <1>6, FS_Subset
  <2> QED BY <1>1, <2>1
<1> QED BY <1>1, <1>7, <1>8

\* Whoever holds a row has read it, and it is still as read.
LEMMA HolderHasRead ==
  ASSUME TxInv, NEW q \in Procs, NEW o \in Orders, NEW c \in Classes, rowLock[o][c] = q
  PROVE  \E s \in tx[q].seen : s[1] = o /\ s[2] = c /\ s[3] = row[o][c]
<1>1. HoldsItsRows(q)
  BY DEF TxInv
<1>2. PICK s \in tx[q].seen : <<o, c>> = <<s[1], s[2]>>
  BY <1>1 DEF HoldsItsRows, SeenRows
<1>3. s[1] = o /\ s[2] = c
  BY <1>2
<1> QED BY <1>1, <1>3 DEF HoldsItsRows

\* What a blocked call waits for.
WaitsForRow(p, q) ==
  /\ tx[p].step = "rows" /\ tx[p].cand # {}
  /\ rowLock[NextRow(p)[1]][NextRow(p)[2]] = q

WaitsForClass(p, q) ==
  /\ tx[p].step = "classes" /\ tx[p].todo # {}
  /\ classLock[NextClass(p)] = q

WaitsForInsert(p, q) ==
  /\ tx[p].step = "classes" /\ tx[p].todo = {}
  /\ \E r \in tx[p].cand : RowAt(r) = "none" /\ rowLock[r[1]][r[2]] = q

LEMMA BlockedWaits ==
  ASSUME TxInv, NEW p \in Procs, NEW q \in BlockedBy(p)
  PROVE  WaitsForRow(p, q) \/ WaitsForClass(p, q) \/ WaitsForInsert(p, q)
BY DEF BlockedBy, WaitsForRow, WaitsForClass, WaitsForInsert

LEMMA CommitsAreNotBlocked ==
  ASSUME NEW p \in Procs, tx[p].step \notin {"rows", "classes"}
  PROVE  BlockedBy(p) = {}
BY DEF BlockedBy

\* Rows that are not there are held only by a Reserve about to commit.
LEMMA InsertersAreNotBlocked ==
  ASSUME TxInv, NEW q \in Procs, NEW s \in tx[q].seen, s[3] = "none"
  PROVE  tx[q].step = "commit"
<1>1. Stages(q) /\ tx[q].op \in Calls
  BY DEF TxInv, TxTypeOK, Transaction
<1>2. tx[q].op # "idle"
  BY <1>1 DEF Stages, IdleStage, Idle
<1>3. tx[q].op \notin {"confirm", "release"}
  BY <1>1 DEF Stages, OrderStage
<1>4. tx[q].op # "sweep"
  BY <1>1 DEF Stages, SweepStage
<1>5. tx[q].op # "update"
  BY <1>1 DEF Stages, UpdateStage
<1>6. tx[q].op # "delete"
  BY <1>1 DEF Stages, DeleteStage
<1>7. tx[q].op = "reserve"
  BY <1>1, <1>2, <1>3, <1>4, <1>5, <1>6 DEF Calls
<1> QED BY <1>1, <1>7 DEF Stages, ReserveStage

\* Nobody waits for a call at its insert.
LEMMA NobodyWaitsToInsert ==
  ASSUME TxInv, NEW p \in Procs, NEW q \in Procs, WaitsForInsert(p, q)
  PROVE  tx[q].step = "commit"
<1>1. PICK r \in tx[p].cand : RowAt(r) = "none" /\ rowLock[r[1]][r[2]] = q
  BY DEF WaitsForInsert
<1>2. r[1] \in Orders /\ r[2] \in Classes
  BY <1>1 DEF TxInv, TxTypeOK, Transaction
<1>3. PICK s \in tx[q].seen : s[3] = row[r[1]][r[2]]
  BY <1>1, <1>2, HolderHasRead
<1> QED BY <1>1, <1>3, InsertersAreNotBlocked DEF RowAt

\* The class a blocked call waits at.
Wall(p) == IF tx[p].step = "rows" THEN NextRow(p)[2] ELSE NextClass(p)

\* A call that waits for a row waits at a class below that of its holder, if
\* the holder waits for a row too and neither is a Delete.
LEMMA RowsAreClimbed ==
  ASSUME TxInv, NEW p \in Procs, NEW q \in Procs, WaitsForRow(p, q),
         tx[q].step = "rows", tx[q].cand # {}, tx[q].op # "delete"
  PROVE  Wall(p) \in Classes /\ Wall(q) \in Classes /\ Wall(p) < Wall(q)
<1>1. /\ tx[p].cand \in SUBSET (Orders \X Classes) /\ tx[q].cand \in SUBSET (Orders \X Classes)
      /\ Stages(q)
  BY DEF TxInv, TxTypeOK, Transaction
<1>2. /\ NextRow(p) \in Orders \X Classes /\ NextRow(q) \in tx[q].cand /\ NextRow(q) \in Orders \X Classes
  BY <1>1, NextRowIsFirst DEF WaitsForRow
<1>3. PICK s \in tx[q].seen : s[2] = NextRow(p)[2]
  BY <1>2, HolderHasRead DEF WaitsForRow
<1>4. tx[q].op \in {"confirm", "release"}
  BY CallsAtStep
<1>5. \A t \in tx[q].seen, r \in tx[q].cand : t[2] < r[2]
  BY <1>1, <1>4 DEF Stages, OrderStage
<1>6. NextRow(p)[2] < NextRow(q)[2]
  BY <1>2, <1>3, <1>5
<1> QED BY <1>2, <1>6 DEF Wall, WaitsForRow

\* A call that waits for a class waits at one below that of its holder, if the
\* holder waits for a class too; a holder that waits for a row is a Delete.
LEMMA ClassesAreClimbed ==
  ASSUME TxInv, NEW p \in Procs, NEW q \in Procs, WaitsForClass(p, q)
  PROVE  /\ tx[q].step = "rows" => tx[q].op = "delete"
         /\ tx[q].step = "classes" /\ tx[q].todo # {} =>
              Wall(p) \in Classes /\ Wall(q) \in Classes /\ Wall(p) < Wall(q)
<1>1. /\ tx[p].todo \in SUBSET Classes /\ tx[q].todo \in SUBSET Classes
      /\ Stages(q) /\ HoldsItsRows(q)
  BY DEF TxInv, TxTypeOK, Transaction
<1>2. NextClass(p) \in Classes
  BY <1>1, FirstIsLeast DEF WaitsForClass, NextClass
<1>3. NextClass(p) \in DOMAIN tx[q].dirty
  BY <1>1, <1>2 DEF WaitsForClass, HoldsItsRows
<1>4. tx[q].step = "rows" => tx[q].op = "delete"
  <2> SUFFICES ASSUME tx[q].step = "rows", tx[q].op # "delete" PROVE FALSE
    OBVIOUS
  <2>1. tx[q].op \in {"confirm", "release"}
    BY CallsAtStep
  <2>2. DOMAIN tx[q].dirty = {}
    BY <1>1, <2>1 DEF Stages, OrderStage
  <2> QED BY <1>3, <2>2
<1>5. ASSUME tx[q].step = "classes", tx[q].todo # {}
      PROVE  Wall(p) \in Classes /\ Wall(q) \in Classes /\ Wall(p) < Wall(q)
  <2>1. tx[q].op \in {"reserve", "confirm", "release", "sweep"}
    BY <1>5, CallsAtStep
  <2>2. \A d \in DOMAIN tx[q].dirty, c \in tx[q].todo : d < c
    BY <1>1, <1>5, <2>1 DEF Stages, MoveStage
  <2>3. NextClass(q) \in tx[q].todo
    BY <1>1, <1>5, FirstIsLeast DEF NextClass
  <2>4. NextClass(p) < NextClass(q) /\ NextClass(q) \in Classes
    BY <1>1, <1>3, <2>2, <2>3
  <2> QED BY <1>2, <1>5, <2>4 DEF Wall, WaitsForClass
<1> QED BY <1>4, <1>5

LEMMA CirclesHaveADelete ==
  ASSUME TxInv, NEW S \in SUBSET Procs, Deadlocked(S)
  PROVE  \E p \in S : tx[p].op = "delete"
<1> SUFFICES ASSUME \A p \in S : tx[p].op # "delete" PROVE FALSE
  OBVIOUS
<1>1. ASSUME NEW p \in S PROVE tx[p].step \in {"rows", "classes"}
  BY CommitsAreNotBlocked DEF Deadlocked
<1>2. ASSUME NEW p \in S
      PROVE  \E q \in S : WaitsForRow(p, q) \/ WaitsForClass(p, q)
  <2>1. PICK q \in S : q \in BlockedBy(p)
    BY DEF Deadlocked
  <2>2. ~ WaitsForInsert(p, q)
    BY <1>1, NobodyWaitsToInsert
  <2> QED BY <2>1, <2>2, BlockedWaits
<1> DEFINE AtClasses == {p \in S : tx[p].step = "classes"}
           Walls == {Wall(p) : p \in AtClasses}
<1>3. AtClasses = {}
  <2>1. ASSUME NEW p \in AtClasses
        PROVE  /\ Wall(p) \in Classes
               /\ \E q \in AtClasses : Wall(p) < Wall(q)
    <3>1. PICK q \in S : WaitsForClass(p, q)
      BY <1>2 DEF WaitsForRow
    <3>2. tx[q].step = "classes"
      BY <1>1, <3>1, ClassesAreClimbed
    <3>3. tx[q].todo # {}
      BY <1>2, <3>2 DEF WaitsForRow, WaitsForClass
    <3> QED BY <3>1, <3>2, <3>3, ClassesAreClimbed
  <2>2. Walls \in SUBSET Classes /\ \A c \in Walls : \E d \in Walls : c < d
    BY <2>1
  <2>3. Walls = {}
    BY <2>2, NoClimb
  <2> QED BY <2>3
<1> DEFINE Rungs == {Wall(p) : p \in S}
<1>4. ASSUME NEW p \in S
      PROVE  /\ Wall(p) \in Classes
             /\ \E q \in S : Wall(p) < Wall(q)
  <2>1. tx[p].step = "rows"
    BY <1>1, <1>3
  <2>2. PICK q \in S : WaitsForRow(p, q)
    BY <1>2, <2>1 DEF WaitsForClass
  <2>3. tx[q].step = "rows"
    BY <1>1, <1>3
  <2>4. tx[q].cand # {}
    BY <1>2, <2>3 DEF WaitsForRow, WaitsForClass
  <2> QED BY <2>2, <2>3, <2>4, RowsAreClimbed
<1>5. Rungs \in SUBSET Classes /\ \A c \in Rungs : \E d \in Rungs : c < d
  BY <1>4
<1>6. Rungs = {}
  BY <1>5, NoClimb
<1> QED BY <1>6 DEF Deadlocked

\* In a circle a Delete waits for a Confirm or a Release.
LEMMA DeletesWaitForOrders ==
  ASSUME TxInv, NEW S \in SUBSET Procs, Deadlocked(S), NEW p \in S, tx[p].op = "delete"
  PROVE  \E q \in S : tx[q].op \in {"confirm", "release"}
<1>1. tx[p].step = "rows"
  <2>1. tx[p].step \in {"rows", "classes"}
    BY CommitsAreNotBlocked DEF Deadlocked
  <2> QED BY <2>1, CallsAtStep
<1>2. PICK q \in S : q \in BlockedBy(p)
  BY DEF Deadlocked
<1>3. WaitsForRow(p, q)
  BY <1>1, <1>2, BlockedWaits DEF WaitsForClass, WaitsForInsert
<1>4. PICK c \in Classes :
        /\ \E v : tx[p].dirty = Only(c, v)
        /\ tx[p].cand \subseteq Orders \X {c}
        /\ tx[p].cand \cap SeenRows(p) = {}
        /\ \A o \in Orders : row[o][c] \notin Live
  BY <1>1 DEF TxInv, Stages, DeleteStage
<1>5. /\ HoldsItsRows(p) /\ HoldsItsRows(q) /\ Stages(q) /\ tx[q].op \in Calls
      /\ tx[p].cand \in SUBSET (Orders \X Classes)
  BY DEF TxInv, TxTypeOK, Transaction
<1>6. NextRow(p) \in tx[p].cand
  BY <1>3, <1>5, NextRowIsFirst DEF WaitsForRow
<1>7. PICK o \in Orders : NextRow(p) = <<o, c>>
  BY <1>4, <1>6
<1>8. rowLock[o][c] = q
  BY <1>3, <1>7 DEF WaitsForRow
<1>9. PICK s \in tx[q].seen : s[1] = o /\ s[2] = c /\ s[3] = row[o][c]
  BY <1>8, HolderHasRead
<1>10. tx[q].op \notin {"idle", "update"}
  <2>1. tx[q].op = "idle" => tx[q].seen = {}
    BY <1>5 DEF Stages, IdleStage, Idle
  <2>2. tx[q].op = "update" => tx[q].seen = {}
    BY <1>5 DEF Stages, UpdateStage
  <2> QED BY <1>9, <2>1, <2>2
<1>11. tx[q].op # "sweep"
  BY <1>4, <1>5, <1>9 DEF Stages, SweepStage, Live
<1>12. tx[q].op # "reserve"
  <2>1. ASSUME tx[q].op = "reserve" PROVE tx[q].step = "commit"
    BY <1>5, <1>9, <2>1 DEF Stages, ReserveStage
  <2>2. tx[q].step \in {"rows", "classes"}
    BY CommitsAreNotBlocked DEF Deadlocked
  <2> QED BY <2>1, <2>2
<1>13. ASSUME tx[q].op = "delete" PROVE FALSE
  <2>1. <<o, c>> \in SeenRows(q)
    BY <1>5, <1>8 DEF HoldsItsRows
  <2>2. PICK k \in Classes : (\E v : tx[q].dirty = Only(k, v)) /\ SeenRows(q) \subseteq Orders \X {k}
    BY <1>5, <1>13 DEF Stages, DeleteStage
  <2>3. k = c
    BY <2>1, <2>2
  <2>4. c \in DOMAIN tx[p].dirty /\ c \in DOMAIN tx[q].dirty
    BY <1>4, <2>2, <2>3 DEF Only
  <2>5. p = q
    BY <1>5, <2>4 DEF HoldsItsRows
  <2> QED BY <1>4, <1>6, <1>7, <2>1, <2>5
<1> QED BY <1>5, <1>10, <1>11, <1>12, <1>13 DEF Calls

\* Reserve, Confirm, Release, Update and the sweep never wait in a circle among
\* themselves, for any number of connections and classes: every circle has a
\* Delete in it, and a Confirm or a Release that it waits for.
THEOREM OnlyDeletes == TxSpec => []OnlyDeletesDeadlock
<1>1. TxInv => OnlyDeletesDeadlock
  <2> SUFFICES ASSUME TxInv, NEW S \in SUBSET Procs, Deadlocked(S)
               PROVE  /\ "delete" \in {tx[p].op : p \in S}
                      /\ {"confirm", "release"} \cap {tx[p].op : p \in S} # {}
    BY DEF OnlyDeletesDeadlock
  <2>1. PICK p \in S : tx[p].op = "delete"
    BY CirclesHaveADelete
  <2>2. PICK q \in S : tx[q].op \in {"confirm", "release"}
    BY <2>1, DeletesWaitForOrders
  <2> QED BY <2>1, <2>2
<1> QED BY <1>1, TxInvariant, PTL

\* Unless a Delete is under way, some call under way has nobody to wait for.
SomebodyGoesOn ==
  (\E p \in Procs : tx[p] # Idle) /\ (\A p \in Procs : tx[p].op # "delete") =>
     \E p \in Procs : tx[p] # Idle /\ BlockedBy(p) = {}

\* inventory-svc without an organiser's Delete never stands still: Postgres has no
\* victim to choose, and whoever waits for a lock waits for a call that can go on,
\* or for one that waits for such a call.
THEOREM CallsGoOn == TxSpec => []SomebodyGoesOn
<1>1. TxInv => SomebodyGoesOn
  <2> SUFFICES ASSUME TxInv, NEW q \in Procs, tx[q] # Idle, \A p \in Procs : tx[p].op # "delete",
                      \A p \in Procs : tx[p] # Idle => BlockedBy(p) # {}
               PROVE  FALSE
    BY DEF SomebodyGoesOn
  <2> DEFINE S == {p \in Procs : tx[p] # Idle}
  <2>1. ASSUME NEW p \in S PROVE BlockedBy(p) \cap S # {}
    <3>1. PICK r \in BlockedBy(p) : TRUE
      OBVIOUS
    <3>2. /\ tx[p].cand \in SUBSET (Orders \X Classes) /\ tx[p].todo \in SUBSET Classes
          /\ classLock \in [Classes -> Procs \cup {NoOne}]
          /\ rowLock \in [Orders -> [Classes -> Procs \cup {NoOne}]]
      BY DEF TxInv, TxTypeOK, Transaction
    <3>3. r # NoOne
      BY DEF BlockedBy
    <3>4. \/ \E o \in Orders, c \in Classes : rowLock[o][c] = r
          \/ \E c \in Classes : classLock[c] = r
      <4>1. CASE WaitsForRow(p, r)
        <5>1. NextRow(p) \in tx[p].cand
          BY <3>2, <4>1, NextRowIsFirst DEF WaitsForRow
        <5> QED BY <3>2, <4>1, <5>1 DEF WaitsForRow
      <4>2. CASE WaitsForClass(p, r)
        <5>1. NextClass(p) \in Classes
          BY <3>2, <4>2, FirstIsLeast DEF WaitsForClass, NextClass
        <5> QED BY <4>2, <5>1 DEF WaitsForClass
      <4>3. CASE WaitsForInsert(p, r)
        BY <3>2, <4>3 DEF WaitsForInsert
      <4> QED BY <4>1, <4>2, <4>3, BlockedWaits
    <3>5. r \in Procs
      BY <3>2, <3>3, <3>4
    <3>6. tx[r] # Idle
      BY <3>4, <3>5, IdleHoldsNothing
    <3> QED BY <3>5, <3>6
  <2>2. Deadlocked(S)
    BY <2>1 DEF Deadlocked
  <2> QED BY <2>2, CirclesHaveADelete
<1> QED BY <1>1, TxInvariant, PTL
=============================================================================
