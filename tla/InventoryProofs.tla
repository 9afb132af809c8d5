--------------------------- MODULE InventoryProofs ---------------------------
(***************************************************************************)
(* Proofs about Inventory, for every set of orders and classes, every      *)
(* demand and every capacity.  The two tables are tied by counting: the    *)
(* tickets behind a status are a finite set (Units), and each call moves   *)
(* the set and the counter by the same amount.                             *)
(***************************************************************************)
EXTENDS Inventory, FiniteSetTheorems, TLAPS

-----------------------------------------------------------------------------
(***************************************************************************)
(* Counting the tickets behind rows.                                       *)
(***************************************************************************)

LEMMA UpTo ==
  ASSUME NEW n \in Nat
  PROVE  IsFiniteSet(1..n) /\ Cardinality(1..n) = n
<1>1. /\ IsFiniteSet(1..n)
      /\ Cardinality(1..n) = IF 1 > n THEN 0 ELSE n - 1 + 1
  BY FS_Interval
<1>. QED  BY <1>1

\* The tickets of one line are as many as the line asks for.
LEMMA LineUnits ==
  ASSUME NEW o \in Orders, NEW c \in Classes
  PROVE  /\ IsFiniteSet({o} \X (1..Demand[o][c]))
         /\ Cardinality({o} \X (1..Demand[o][c])) = Demand[o][c]
<1>1. Demand[o][c] \in Nat
  BY DemandAssumption, QtyAssumption
<1>2. IsFiniteSet({o}) /\ Cardinality({o}) = 1
  BY FS_Singleton
<1>3. IsFiniteSet(1..Demand[o][c]) /\ Cardinality(1..Demand[o][c]) = Demand[o][c]
  BY <1>1, UpTo
<1>4. /\ IsFiniteSet({o} \X (1..Demand[o][c]))
      /\ Cardinality({o} \X (1..Demand[o][c])) = 1 * Demand[o][c]
  BY <1>2, <1>3, FS_Product
<1>. QED  BY <1>1, <1>4

\* Every set of tickets the model speaks of is finite.
LEMMA TicketsAreFinite ==
  ASSUME NEW S \in SUBSET (Orders \X (1..MaxQty))
  PROVE  IsFiniteSet(S) /\ Cardinality(S) \in Nat
<1>1. IsFiniteSet(1..MaxQty)
  BY QtyAssumption, FS_Interval
<1>2. IsFiniteSet(Orders \X (1..MaxQty))
  BY <1>1, OrdersAssumption, FS_Product
<1>3. IsFiniteSet(S)
  BY <1>2, FS_Subset
<1>. QED  BY <1>3, FS_CardinalityType

\* A set of tickets that gains the line of one order grows by that line.
LEMMA GainLine ==
  ASSUME NEW S \in SUBSET (Orders \X (1..MaxQty)), NEW o \in Orders, NEW c \in Classes,
         \A u \in S : u[1] # o
  PROVE  Cardinality(S \cup ({o} \X (1..Demand[o][c]))) = Cardinality(S) + Demand[o][c]
<1> DEFINE L == {o} \X (1..Demand[o][c])
<1>1. IsFiniteSet(S) /\ Cardinality(S) \in Nat
  BY TicketsAreFinite
<1>2. IsFiniteSet(L) /\ Cardinality(L) = Demand[o][c]
  BY LineUnits
<1>3. S \cap L = {}
  OBVIOUS
<1>4. Cardinality(S \cup L) = Cardinality(S) + Cardinality(L) - Cardinality(S \cap L)
  BY <1>1, <1>2, FS_Union
<1>5. Demand[o][c] \in Nat
  BY DemandAssumption, QtyAssumption
<1>6. Cardinality(S \cap L) = 0
  BY <1>3, FS_EmptySet
<1>. HIDE DEF L
<1>7. Cardinality(S \cup L) = Cardinality(S) + Demand[o][c]
  BY <1>1, <1>2, <1>4, <1>5, <1>6
<1>. QED  BY <1>7 DEF L

\* Units is always such a set.
LEMMA UnitsType ==
  ASSUME NEW c, NEW st
  PROVE  Units(c, st) \in SUBSET (Orders \X (1..MaxQty))
BY DEF Units

\* One order's line enters a status, nobody else's row of that class moves.
LEMMA UnitsGain ==
  ASSUME NEW o \in Orders, NEW c \in Classes, NEW st,
         row[o][c] # st, row'[o][c] = st,
         \A p \in Orders \ {o} : row'[p][c] = row[p][c]
  PROVE  Cardinality(Units(c, st)') = Cardinality(Units(c, st)) + Demand[o][c]
<1> DEFINE L == {o} \X (1..Demand[o][c])
<1>1. Demand[o][c] \in 0..MaxQty
  BY DemandAssumption
<1>2. Units(c, st)' = Units(c, st) \cup L
  BY <1>1, QtyAssumption DEF Units
<1>3. \A u \in Units(c, st) : u[1] # o
  BY DEF Units
<1>. QED  BY <1>2, <1>3, UnitsType, GainLine

\* One order's line leaves a status.
LEMMA UnitsLose ==
  ASSUME NEW o \in Orders, NEW c \in Classes, NEW st,
         row[o][c] = st, row'[o][c] # st,
         \A p \in Orders \ {o} : row'[p][c] = row[p][c]
  PROVE  Cardinality(Units(c, st)) = Cardinality(Units(c, st)') + Demand[o][c]
<1> DEFINE L == {o} \X (1..Demand[o][c])
<1>1. Demand[o][c] \in 0..MaxQty
  BY DemandAssumption
<1>2. Units(c, st) = Units(c, st)' \cup L
  BY <1>1, QtyAssumption DEF Units
<1>3. \A u \in Units(c, st)' : u[1] # o
  BY DEF Units
<1>4. Units(c, st)' \in SUBSET (Orders \X (1..MaxQty))
  BY DEF Units
<1>. QED  BY <1>2, <1>3, <1>4, GainLine

\* No row of the class enters or leaves a status.
LEMMA UnitsSame ==
  ASSUME NEW c \in Classes, NEW st,
         \A p \in Orders : row'[p][c] = st <=> row[p][c] = st
  PROVE  Units(c, st)' = Units(c, st)
BY DEF Units

-----------------------------------------------------------------------------
(***************************************************************************)
(* The inductive invariant.                                                *)
(***************************************************************************)

\* A class that is not there counts nothing.
AbsentCountsNothing ==
  \A c \in Classes :
     ~ Present(c) => class[c].total = 0 /\ class[c].reserved = 0 /\ class[c].sold = 0

\* Rows exist only for lines that ask for a ticket.
RowsWereAskedFor ==
  \A o \in Orders, c \in Classes : row[o][c] # "none" => Demand[o][c] > 0

LedgerInv ==
  /\ TypeOK
  /\ NoOversell
  /\ CountersMatchRows
  /\ AbsentCountsNothing
  /\ RowsWereAskedFor

LEMMA InitLedgerInv == Init => LedgerInv
<1> SUFFICES ASSUME Init PROVE LedgerInv
  OBVIOUS
<1>1. TypeOK
  BY DEF Init, TypeOK, TicketClass, ClassStatus, RowStatus
<1>2. NoOversell /\ AbsentCountsNothing /\ RowsWereAskedFor
  BY DEF Init, NoOversell, AbsentCountsNothing, RowsWereAskedFor, Present
<1>3. ASSUME NEW c \in Classes, NEW st \in Live PROVE Cardinality(Units(c, st)) = 0
  <2>1. Units(c, st) = {}
    BY <1>3 DEF Init, Units, Live
  <2>. QED  BY <2>1, FS_EmptySet
<1>4. CountersMatchRows
  BY <1>3 DEF Init, CountersMatchRows, Live
<1>. QED  BY <1>1, <1>2, <1>4 DEF LedgerInv

-----------------------------------------------------------------------------
(***************************************************************************)
(* One lemma per call: it keeps the ledger.                                *)
(***************************************************************************)

LEMMA ReserveKeepsLedger ==
  ASSUME LedgerInv, NEW o \in Orders, NEW open \in SUBSET Classes, Reserve(o, open)
  PROVE  LedgerInv'
<1>. USE DEF LedgerInv
<1>1. /\ \A c \in Classes : row[o][c] = "none"
      /\ \A c \in Ids(o) : OnSale(c, open) /\ Fits(c, Demand[o][c])
  BY DEF Reserve, CanReserve, Missed, Rows
<1>2. \A c \in Classes : Demand[o][c] \in Nat /\ (c \in Ids(o) <=> Demand[o][c] > 0)
  BY DemandAssumption, QtyAssumption DEF Ids
<1>3. TypeOK'
  <2>1. ASSUME NEW c \in Classes
        PROVE  [class[c] EXCEPT !.reserved = class[c].reserved + Demand[o][c]] \in TicketClass
    BY <1>2 DEF TypeOK, TicketClass
  <2>2. row' \in [Orders -> [Classes -> RowStatus]]
    BY DEF Reserve, TypeOK, RowStatus
  <2>3. lapsed' \subseteq Orders
    BY DEF Reserve, TypeOK
  <2>4. class' \in [Classes -> TicketClass]
    BY <2>1 DEF Reserve
  <2>. QED  BY <2>2, <2>3, <2>4 DEF TypeOK
<1>4. ASSUME NEW c \in Classes
      PROVE  /\ class'[c].reserved = class[c].reserved + Demand[o][c]
             /\ class'[c].sold = class[c].sold
             /\ class'[c].total = class[c].total
             /\ class'[c].status = class[c].status
             /\ row'[o][c] = IF Demand[o][c] > 0 THEN "ACTIVE" ELSE "none"
             /\ \A p \in Orders \ {o} : row'[p][c] = row[p][c]
             /\ class[c].reserved \in Nat /\ class[c].sold \in Nat /\ class[c].total \in Nat
  BY <1>2 DEF Reserve, TypeOK, TicketClass
<1>5. NoOversell'
  <2> SUFFICES ASSUME NEW c \in Classes
               PROVE  class'[c].reserved + class'[c].sold <= class'[c].total
    BY DEF NoOversell
  <2>1. CASE c \in Ids(o)
    BY <2>1, <1>1, <1>2, <1>4 DEF Fits
  <2>2. CASE c \notin Ids(o)
    BY <2>2, <1>2, <1>4 DEF NoOversell
  <2>. QED  BY <2>1, <2>2
<1>6. CountersMatchRows'
  <2> SUFFICES ASSUME NEW c \in Classes
               PROVE  /\ class'[c].reserved = Cardinality(Units(c, "ACTIVE")')
                      /\ class'[c].sold = Cardinality(Units(c, "CONFIRMED")')
    BY DEF CountersMatchRows
  <2>1. Units(c, "CONFIRMED")' = Units(c, "CONFIRMED")
    BY <1>1, <1>4, UnitsSame
  <2>2. CASE Demand[o][c] > 0
    <3>1. Cardinality(Units(c, "ACTIVE")') = Cardinality(Units(c, "ACTIVE")) + Demand[o][c]
      BY <2>2, <1>1, <1>4, UnitsGain
    <3>. QED  BY <2>1, <3>1, <1>4 DEF CountersMatchRows
  <2>3. CASE Demand[o][c] = 0
    <3>1. Units(c, "ACTIVE")' = Units(c, "ACTIVE")
      BY <2>3, <1>1, <1>4, UnitsSame
    <3>. QED  BY <2>1, <2>3, <3>1, <1>4 DEF CountersMatchRows
  <2>. QED  BY <1>2, <2>2, <2>3
<1>7. AbsentCountsNothing'
  BY <1>1, <1>2, <1>4 DEF AbsentCountsNothing, Present, OnSale
<1>8. RowsWereAskedFor'
  BY <1>4 DEF RowsWereAskedFor
<1>. QED  BY <1>3, <1>5, <1>6, <1>7, <1>8

LEMMA ConfirmKeepsLedger ==
  ASSUME LedgerInv, NEW o \in Orders, Confirm(o)
  PROVE  LedgerInv'
<1>. USE DEF LedgerInv
<1>1. \A c \in Classes :
        /\ row[o][c] \in {"none", "ACTIVE", "EXPIRED"}
        /\ row[o][c] = "ACTIVE" => class[c].reserved >= Demand[o][c]
        /\ row[o][c] = "EXPIRED" => Fits(c, Demand[o][c])
  <2>1. \A c \in Classes : Demand[o][c] \in Nat
    BY DemandAssumption, QtyAssumption
  <2>2. \A c \in Classes : row[o][c] \in {"none", "ACTIVE", "EXPIRED"}
    BY DEF Confirm, CanConfirm, Confirmable, Statuses, Rows
  <2>3. \A c \in Classes : c \notin Drifted(o) /\ c \notin SoldOut(o)
    BY DEF Confirm, CanConfirm
  <2>4. \A c \in Classes : class[c].reserved \in Nat
    BY DEF TypeOK, TicketClass
  <2>. QED  BY <2>1, <2>2, <2>3, <2>4 DEF Rows, Drifted, SoldOut
<1>2. \A c \in Classes : Demand[o][c] \in Nat
  BY DemandAssumption, QtyAssumption
<1>3. TypeOK'
  <2>1. ASSUME NEW c \in Classes
        PROVE  class'[c] \in TicketClass
    <3>0. class[c] \in TicketClass
      BY DEF TypeOK
    <3>1. CASE row[o][c] = "ACTIVE"
      <4>1. class'[c] = [class[c] EXCEPT !.reserved = class[c].reserved - Demand[o][c],
                                         !.sold = class[c].sold + Demand[o][c]]
        BY <3>1 DEF Confirm
      <4>2. class[c].reserved - Demand[o][c] \in Nat /\ class[c].sold + Demand[o][c] \in Nat
        BY <3>0, <3>1, <1>1, <1>2 DEF TicketClass
      <4>. QED  BY <4>1, <4>2, <3>0 DEF TicketClass
    <3>2. CASE row[o][c] = "EXPIRED"
      <4>1. class'[c] = [class[c] EXCEPT !.sold = class[c].sold + Demand[o][c]]
        BY <3>2 DEF Confirm
      <4>. QED  BY <4>1, <3>0, <1>2 DEF TicketClass
    <3>3. CASE row[o][c] = "none"
      <4>1. class'[c] = class[c]
        BY <3>3 DEF Confirm
      <4>. QED  BY <4>1, <3>0
    <3>. QED  BY <1>1, <3>1, <3>2, <3>3
  <2>2. row' \in [Orders -> [Classes -> RowStatus]]
    BY DEF Confirm, TypeOK, RowStatus
  <2>3. lapsed' \subseteq Orders
    BY DEF Confirm, TypeOK
  <2>4. class' = [c \in Classes |-> class'[c]]
    BY DEF Confirm
  <2>5. class' \in [Classes -> TicketClass]
    BY <2>1, <2>4
  <2>. QED  BY <2>2, <2>3, <2>5 DEF TypeOK
<1>4. ASSUME NEW c \in Classes
      PROVE  /\ class'[c].total = class[c].total
             /\ class'[c].status = class[c].status
             /\ row[o][c] = "ACTIVE" => /\ class'[c].reserved = class[c].reserved - Demand[o][c]
                                       /\ class'[c].sold = class[c].sold + Demand[o][c]
             /\ row[o][c] = "EXPIRED" => /\ class'[c].reserved = class[c].reserved
                                        /\ class'[c].sold = class[c].sold + Demand[o][c]
             /\ row[o][c] = "none" => class'[c] = class[c]
             /\ row'[o][c] = IF row[o][c] = "none" THEN "none" ELSE "CONFIRMED"
             /\ \A p \in Orders \ {o} : row'[p][c] = row[p][c]
             /\ class[c].reserved \in Nat /\ class[c].sold \in Nat /\ class[c].total \in Nat
  BY <1>2 DEF Confirm, TypeOK, TicketClass, Rows
<1>5. NoOversell'
  <2> SUFFICES ASSUME NEW c \in Classes
               PROVE  class'[c].reserved + class'[c].sold <= class'[c].total
    BY DEF NoOversell
  <2>1. CASE row[o][c] = "ACTIVE"
    BY <2>1, <1>1, <1>2, <1>4 DEF NoOversell
  <2>2. CASE row[o][c] = "EXPIRED"
    BY <2>2, <1>1, <1>2, <1>4 DEF Fits
  <2>3. CASE row[o][c] = "none"
    BY <2>3, <1>4 DEF NoOversell
  <2>. QED  BY <1>1, <2>1, <2>2, <2>3
<1>6. CountersMatchRows'
  <2> SUFFICES ASSUME NEW c \in Classes
               PROVE  /\ class'[c].reserved = Cardinality(Units(c, "ACTIVE")')
                      /\ class'[c].sold = Cardinality(Units(c, "CONFIRMED")')
    BY DEF CountersMatchRows
  <2>0. /\ class[c].reserved = Cardinality(Units(c, "ACTIVE"))
        /\ class[c].sold = Cardinality(Units(c, "CONFIRMED"))
    BY DEF CountersMatchRows
  <2>1. CASE row[o][c] = "ACTIVE"
    <3>1. Cardinality(Units(c, "CONFIRMED")') = Cardinality(Units(c, "CONFIRMED")) + Demand[o][c]
      BY <2>1, <1>4, UnitsGain
    <3>2. Cardinality(Units(c, "ACTIVE")) = Cardinality(Units(c, "ACTIVE")') + Demand[o][c]
      BY <2>1, <1>4, UnitsLose
    <3>3. Cardinality(Units(c, "ACTIVE")') \in Nat
      <4>1. Units(c, "ACTIVE")' \in SUBSET (Orders \X (1..MaxQty))
        BY DEF Units
      <4>. QED  BY <4>1, TicketsAreFinite
    <3>. QED  BY <2>0, <2>1, <3>1, <3>2, <3>3, <1>2, <1>4
  <2>2. CASE row[o][c] = "EXPIRED"
    <3>1. Cardinality(Units(c, "CONFIRMED")') = Cardinality(Units(c, "CONFIRMED")) + Demand[o][c]
      BY <2>2, <1>4, UnitsGain
    <3>2. Units(c, "ACTIVE")' = Units(c, "ACTIVE")
      BY <2>2, <1>4, UnitsSame
    <3>. QED  BY <2>0, <2>2, <3>1, <3>2, <1>4
  <2>3. CASE row[o][c] = "none"
    <3>1. Units(c, "ACTIVE")' = Units(c, "ACTIVE") /\ Units(c, "CONFIRMED")' = Units(c, "CONFIRMED")
      BY <2>3, <1>4, UnitsSame
    <3>. QED  BY <2>0, <2>3, <3>1, <1>4
  <2>. QED  BY <1>1, <2>1, <2>2, <2>3
<1>7. RowsWereAskedFor'
  BY <1>4 DEF RowsWereAskedFor
<1>8. AbsentCountsNothing'
  <2> SUFFICES ASSUME NEW c \in Classes, ~ Present(c)'
               PROVE  class'[c].total = 0 /\ class'[c].reserved = 0 /\ class'[c].sold = 0
    BY DEF AbsentCountsNothing
  <2>1. ~ Present(c) /\ class[c].total = 0 /\ class[c].reserved = 0 /\ class[c].sold = 0
    BY <1>4 DEF Present, AbsentCountsNothing
  <2>. QED  BY <2>1, <1>1, <1>2, <1>4 DEF RowsWereAskedFor, Fits
<1>. QED  BY <1>3, <1>5, <1>6, <1>7, <1>8

LEMMA ReleaseKeepsLedger ==
  ASSUME LedgerInv, NEW o \in Orders, Release(o)
  PROVE  LedgerInv'
<1>. USE DEF LedgerInv
<1>1. \A c \in Classes : Demand[o][c] \in Nat
  BY DemandAssumption, QtyAssumption
<1>2. ASSUME NEW c \in Classes
      PROVE  /\ class[c] \in TicketClass
             /\ row[o][c] = "ACTIVE" => class[c].reserved >= Demand[o][c]
  <2>1. class[c] \in TicketClass
    BY DEF TypeOK
  <2>2. c \notin Drifted(o)
    BY DEF Release, CanRelease
  <2>. QED  BY <1>1, <2>1, <2>2 DEF Drifted, Rows, TicketClass
<1>3. ASSUME NEW c \in Classes
      PROVE  /\ class'[c] \in TicketClass
             /\ class'[c].status = class[c].status
             /\ class'[c].total = class[c].total
             /\ class'[c].sold = class[c].sold
             /\ class'[c].reserved = IF row[o][c] = "ACTIVE" THEN class[c].reserved - Demand[o][c]
                                     ELSE class[c].reserved
             /\ row'[o][c] = IF row[o][c] = "ACTIVE" THEN "CANCELLED" ELSE row[o][c]
             /\ \A p \in Orders \ {o} : row'[p][c] = row[p][c]
  <2>1. /\ row'[o][c] = IF row[o][c] = "ACTIVE" THEN "CANCELLED" ELSE row[o][c]
        /\ \A p \in Orders \ {o} : row'[p][c] = row[p][c]
    BY DEF Release, TypeOK
  <2>2. CASE row[o][c] = "ACTIVE"
    <3>1. class'[c] = [class[c] EXCEPT !.reserved = class[c].reserved - Demand[o][c]]
      BY <2>2 DEF Release
    <3>2. class[c].reserved - Demand[o][c] \in Nat
      BY <2>2, <1>1, <1>2 DEF TicketClass
    <3>. QED  BY <2>1, <2>2, <3>1, <3>2, <1>2 DEF TicketClass
  <2>3. CASE row[o][c] # "ACTIVE"
    <3>1. class'[c] = class[c]
      BY <2>3 DEF Release
    <3>. QED  BY <2>1, <2>3, <3>1, <1>2
  <2>. QED  BY <2>2, <2>3
<1>4. TypeOK'
  <2>1. class' = [c \in Classes |-> class'[c]]
    BY DEF Release
  <2>2. class' \in [Classes -> TicketClass]
    BY <1>3, <2>1
  <2>3. row' \in [Orders -> [Classes -> RowStatus]] /\ lapsed' \subseteq Orders
    BY DEF Release, TypeOK, RowStatus
  <2>. QED  BY <2>2, <2>3 DEF TypeOK
<1>5. NoOversell'
  <2> SUFFICES ASSUME NEW c \in Classes
               PROVE  class'[c].reserved + class'[c].sold <= class'[c].total
    BY DEF NoOversell
  <2>1. class[c].reserved + class[c].sold <= class[c].total
    BY DEF NoOversell
  <2>2. class'[c].reserved <= class[c].reserved
    BY <1>1, <1>2, <1>3 DEF TicketClass
  <2>. QED  BY <2>1, <2>2, <1>2, <1>3 DEF TicketClass
<1>6. CountersMatchRows'
  <2> SUFFICES ASSUME NEW c \in Classes
               PROVE  /\ class'[c].reserved = Cardinality(Units(c, "ACTIVE")')
                      /\ class'[c].sold = Cardinality(Units(c, "CONFIRMED")')
    BY DEF CountersMatchRows
  <2>0. /\ class[c].reserved = Cardinality(Units(c, "ACTIVE"))
        /\ class[c].sold = Cardinality(Units(c, "CONFIRMED"))
    BY DEF CountersMatchRows
  <2>1. Units(c, "CONFIRMED")' = Units(c, "CONFIRMED")
    BY <1>3, UnitsSame
  <2>2. CASE row[o][c] = "ACTIVE"
    <3>1. Cardinality(Units(c, "ACTIVE")) = Cardinality(Units(c, "ACTIVE")') + Demand[o][c]
      BY <2>2, <1>3, UnitsLose
    <3>2. Cardinality(Units(c, "ACTIVE")') \in Nat
      <4>1. Units(c, "ACTIVE")' \in SUBSET (Orders \X (1..MaxQty))
        BY DEF Units
      <4>. QED  BY <4>1, TicketsAreFinite
    <3>. QED  BY <2>0, <2>1, <2>2, <3>1, <3>2, <1>1, <1>3
  <2>3. CASE row[o][c] # "ACTIVE"
    <3>1. Units(c, "ACTIVE")' = Units(c, "ACTIVE")
      BY <2>3, <1>3, UnitsSame
    <3>. QED  BY <2>0, <2>1, <2>3, <3>1, <1>3
  <2>. QED  BY <2>2, <2>3
<1>7. RowsWereAskedFor'
  BY <1>3 DEF RowsWereAskedFor
<1>8. AbsentCountsNothing'
  <2> SUFFICES ASSUME NEW c \in Classes, ~ Present(c)'
               PROVE  class'[c].total = 0 /\ class'[c].reserved = 0 /\ class'[c].sold = 0
    BY DEF AbsentCountsNothing
  <2>1. ~ Present(c) /\ class[c].total = 0 /\ class[c].reserved = 0 /\ class[c].sold = 0
    BY <1>3 DEF Present, AbsentCountsNothing
  <2>. QED  BY <2>1, <1>1, <1>2, <1>3
<1>. QED  BY <1>4, <1>5, <1>6, <1>7, <1>8

\* A sweep takes whole lines of a class out of reserved: the lines of the batch
\* are a part of the held ones.
LEMMA ExpireKeepsLedger ==
  ASSUME LedgerInv, NEW batch \in SUBSET Overdue, Expire(batch)
  PROVE  LedgerInv'
<1>. USE DEF LedgerInv
<1>1. ASSUME NEW c \in Classes
      PROVE  /\ class[c] \in TicketClass
             /\ BatchUnits(batch, c) \in SUBSET (Orders \X (1..MaxQty))
             /\ BatchUnits(batch, c) \subseteq Units(c, "ACTIVE")
             /\ BatchQty(batch, c) \in Nat
  <2>1. class[c] \in TicketClass
    BY DEF TypeOK
  <2>2. BatchUnits(batch, c) \in SUBSET (Orders \X (1..MaxQty))
    BY DEF BatchUnits
  <2>3. BatchUnits(batch, c) \subseteq Units(c, "ACTIVE")
    BY DEF BatchUnits, Units, Overdue
  <2>. QED  BY <2>1, <2>2, <2>3, TicketsAreFinite DEF BatchQty
<1>2. ASSUME NEW c \in Classes
      PROVE  /\ class'[c] \in TicketClass
             /\ class'[c].status = class[c].status
             /\ class'[c].total = class[c].total
             /\ class'[c].sold = class[c].sold
             /\ class'[c].reserved = IF Absorbs(batch, c) THEN class[c].reserved - BatchQty(batch, c)
                                     ELSE class[c].reserved
  <2>1. CASE Absorbs(batch, c)
    <3>1. class'[c] = [class[c] EXCEPT !.reserved = class[c].reserved - BatchQty(batch, c)]
      BY <2>1 DEF Expire
    <3>2. class[c].reserved - BatchQty(batch, c) \in Nat
      BY <2>1, <1>1 DEF TicketClass, Absorbs
    <3>. QED  BY <2>1, <3>1, <3>2, <1>1 DEF TicketClass
  <2>2. CASE ~ Absorbs(batch, c)
    <3>1. class'[c] = class[c]
      BY <2>2 DEF Expire
    <3>. QED  BY <2>2, <3>1, <1>1
  <2>. QED  BY <2>1, <2>2
<1>3. ASSUME NEW o \in Orders, NEW c \in Classes
      PROVE  row'[o][c] = IF <<o, c>> \in batch /\ Absorbs(batch, c) THEN "EXPIRED" ELSE row[o][c]
  BY DEF Expire
<1>4. TypeOK'
  <2>1. class' = [c \in Classes |-> class'[c]]
    BY DEF Expire
  <2>2. class' \in [Classes -> TicketClass]
    BY <1>2, <2>1
  <2>3. row' = [o \in Orders |-> [c \in Classes |->
                 IF <<o, c>> \in batch /\ Absorbs(batch, c) THEN "EXPIRED" ELSE row[o][c]]]
    BY DEF Expire
  <2>4. \A o \in Orders, c \in Classes : row[o][c] \in RowStatus
    BY DEF TypeOK
  <2>5. row' \in [Orders -> [Classes -> RowStatus]]
    BY <2>3, <2>4 DEF RowStatus
  <2>6. lapsed' \subseteq Orders
    BY DEF Expire, TypeOK
  <2>. QED  BY <2>2, <2>5, <2>6 DEF TypeOK
<1>5. NoOversell'
  <2> SUFFICES ASSUME NEW c \in Classes
               PROVE  class'[c].reserved + class'[c].sold <= class'[c].total
    BY DEF NoOversell
  <2>1. class[c].reserved + class[c].sold <= class[c].total
    BY DEF NoOversell
  <2>2. class'[c].reserved <= class[c].reserved
    BY <1>1, <1>2 DEF TicketClass
  <2>. QED  BY <2>1, <2>2, <1>1, <1>2 DEF TicketClass
<1>6. CountersMatchRows'
  <2> SUFFICES ASSUME NEW c \in Classes
               PROVE  /\ class'[c].reserved = Cardinality(Units(c, "ACTIVE")')
                      /\ class'[c].sold = Cardinality(Units(c, "CONFIRMED")')
    BY DEF CountersMatchRows
  <2>0. /\ class[c].reserved = Cardinality(Units(c, "ACTIVE"))
        /\ class[c].sold = Cardinality(Units(c, "CONFIRMED"))
    BY DEF CountersMatchRows
  <2>1. \A p \in Orders : row'[p][c] = "CONFIRMED" <=> row[p][c] = "CONFIRMED"
    BY <1>3 DEF Overdue
  <2>2. Units(c, "CONFIRMED")' = Units(c, "CONFIRMED")
    BY <2>1, UnitsSame
  <2>3. CASE Absorbs(batch, c)
    <3>1. Units(c, "ACTIVE")' = Units(c, "ACTIVE") \ BatchUnits(batch, c)
      BY <2>3, <1>3 DEF Units, BatchUnits
    <3>2. IsFiniteSet(Units(c, "ACTIVE"))
      BY UnitsType, TicketsAreFinite
    <3>3. Units(c, "ACTIVE") \cap BatchUnits(batch, c) = BatchUnits(batch, c)
      BY <1>1
    <3>4. Cardinality(Units(c, "ACTIVE") \ BatchUnits(batch, c))
            = Cardinality(Units(c, "ACTIVE")) - Cardinality(Units(c, "ACTIVE") \cap BatchUnits(batch, c))
      BY <3>2, FS_Difference
    <3>. QED  BY <2>0, <2>2, <2>3, <3>1, <3>3, <3>4, <1>2 DEF BatchQty
  <2>4. CASE ~ Absorbs(batch, c)
    <3>1. Units(c, "ACTIVE")' = Units(c, "ACTIVE")
      BY <2>4, <1>3, UnitsSame
    <3>. QED  BY <2>0, <2>2, <2>4, <3>1, <1>2
  <2>. QED  BY <2>3, <2>4
<1>7. RowsWereAskedFor'
  BY <1>3 DEF RowsWereAskedFor, Overdue
<1>8. AbsentCountsNothing'
  <2> SUFFICES ASSUME NEW c \in Classes, ~ Present(c)'
               PROVE  class'[c].total = 0 /\ class'[c].reserved = 0 /\ class'[c].sold = 0
    BY DEF AbsentCountsNothing
  <2>1. ~ Present(c) /\ class[c].total = 0 /\ class[c].reserved = 0 /\ class[c].sold = 0
    BY <1>2 DEF Present, AbsentCountsNothing
  <2>. QED  BY <2>1, <1>1, <1>2 DEF Absorbs
<1>. QED  BY <1>4, <1>5, <1>6, <1>7, <1>8

LEMMA LapseKeepsLedger ==
  ASSUME LedgerInv, NEW o \in Orders, Lapse(o)
  PROVE  LedgerInv'
<1>1. class' = class /\ row' = row /\ lapsed' \subseteq Orders
  BY DEF Lapse, LedgerInv, TypeOK
<1>2. \A c, st : Units(c, st)' = Units(c, st)
  BY <1>1 DEF Units
<1>. QED
  BY <1>1, <1>2 DEF LedgerInv, TypeOK, NoOversell, CountersMatchRows, AbsentCountsNothing,
                    Present, RowsWereAskedFor

\* The organiser's three calls.  What they share: the counters of a class keep
\* their value, or the class counts nothing before and after.
LEMMA OrganiserKeepsLedger ==
  ASSUME LedgerInv, NEW d \in Classes,
         \/ \E t \in Totals : Create(d, t)
         \/ \E t \in Totals \cup {class[d].total}, s \in {"ACTIVE", "INACTIVE"} : Update(d, t, s)
         \/ Delete(d)
  PROVE  LedgerInv'
<1>. USE DEF LedgerInv
<1>0. \A c \in Classes : class[c] \in TicketClass
  BY DEF TypeOK
<1>1. CASE \E t \in Totals : Create(d, t)
  <2>1. PICK t \in Totals : Create(d, t)
    BY <1>1
  <2>2. t \in Nat
    BY TotalsAssumption
  <2>3. class[d].reserved = 0 /\ class[d].sold = 0
    BY <2>1 DEF Create, Present, AbsentCountsNothing
  <2>4. /\ class' = [class EXCEPT ![d] = [status |-> "ACTIVE", total |-> t, reserved |-> 0, sold |-> 0]]
        /\ row' = row /\ lapsed' = lapsed
    BY <2>1 DEF Create
  <2>5. TypeOK'
    BY <2>2, <2>4 DEF TypeOK, TicketClass, ClassStatus
  <2>6. \A c \in Classes : class'[c] = IF c = d THEN [status |-> "ACTIVE", total |-> t, reserved |-> 0, sold |-> 0]
                                       ELSE class[c]
    BY <2>4 DEF TypeOK
  <2>7. NoOversell'
    BY <2>2, <2>6 DEF NoOversell
  <2>8. \A c, st : Units(c, st)' = Units(c, st)
    BY <2>4 DEF Units
  <2>9. CountersMatchRows'
    BY <2>3, <2>6, <2>8 DEF CountersMatchRows
  <2>10. AbsentCountsNothing' /\ RowsWereAskedFor'
    BY <2>4, <2>6 DEF AbsentCountsNothing, Present, RowsWereAskedFor
  <2>. QED  BY <2>5, <2>7, <2>9, <2>10
<1>2. CASE \E t \in Totals \cup {class[d].total}, s \in {"ACTIVE", "INACTIVE"} : Update(d, t, s)
  <2>1. PICK t \in Totals \cup {class[d].total}, s \in {"ACTIVE", "INACTIVE"} : Update(d, t, s)
    BY <1>2
  <2>2. t \in Nat
    BY <1>0, TotalsAssumption DEF TicketClass
  <2>3. t >= class[d].reserved + class[d].sold
    BY <2>1, <2>2, <1>0 DEF Update, NoOversell, TicketClass
  <2>4. class' = [class EXCEPT ![d].total = t, ![d].status = s] /\ row' = row /\ lapsed' = lapsed
    BY <2>1 DEF Update
  <2>5. \A c \in Classes : class'[c] = IF c = d THEN [class[d] EXCEPT !.total = t, !.status = s]
                                       ELSE class[c]
    BY <2>4 DEF TypeOK
  <2>6. [class[d] EXCEPT !.total = t, !.status = s] \in TicketClass
    BY <2>2, <1>0 DEF TicketClass, ClassStatus
  <2>7. class' \in [Classes -> TicketClass]
    BY <2>4, <2>6 DEF TypeOK
  <2>8. TypeOK'
    BY <2>4, <2>7 DEF TypeOK
  <2>9. ASSUME NEW c \in Classes
        PROVE  /\ class'[c].reserved = class[c].reserved /\ class'[c].sold = class[c].sold
               /\ class'[c].total = IF c = d THEN t ELSE class[c].total
               /\ class'[c].status = IF c = d THEN s ELSE class[c].status
    BY <2>5, <1>0 DEF TicketClass
  <2>10. NoOversell'
    BY <2>3, <2>9 DEF NoOversell
  <2>11. \A c, st : Units(c, st)' = Units(c, st)
    BY <2>4 DEF Units
  <2>12. CountersMatchRows'
    BY <2>9, <2>11 DEF CountersMatchRows
  <2>13. AbsentCountsNothing' /\ RowsWereAskedFor'
    BY <2>1, <2>4, <2>9 DEF AbsentCountsNothing, Present, RowsWereAskedFor
  <2>. QED  BY <2>8, <2>10, <2>12, <2>13
<1>3. CASE Delete(d)
  <2> DEFINE Gone == [status |-> "deleted", total |-> 0, reserved |-> 0, sold |-> 0]
  <2>1. /\ class' = [class EXCEPT ![d] = Gone]
        /\ row' = [o \in Orders |-> [row[o] EXCEPT ![d] = "none"]]
        /\ lapsed' = lapsed
        /\ \A o \in Orders : row[o][d] \notin Live
    BY <1>3 DEF Delete
  <2>2. \A c \in Classes : class'[c] = IF c = d THEN Gone ELSE class[c]
    BY <2>1 DEF TypeOK
  <2>3. ASSUME NEW o \in Orders, NEW c \in Classes
        PROVE  row'[o][c] = IF c = d THEN "none" ELSE row[o][c]
    BY <2>1 DEF TypeOK
  <2>4. TypeOK'
    <3>1. Gone \in TicketClass
      BY DEF TicketClass, ClassStatus
    <3>2. class' \in [Classes -> TicketClass]
      BY <2>1, <3>1 DEF TypeOK
    <3>3. row' \in [Orders -> [Classes -> RowStatus]]
      BY <2>1 DEF TypeOK, RowStatus
    <3>. QED  BY <2>1, <3>2, <3>3 DEF TypeOK
  <2>5. NoOversell'
    BY <2>2 DEF NoOversell
  <2>6. CountersMatchRows'
    <3> SUFFICES ASSUME NEW c \in Classes
                 PROVE  /\ class'[c].reserved = Cardinality(Units(c, "ACTIVE")')
                        /\ class'[c].sold = Cardinality(Units(c, "CONFIRMED")')
      BY DEF CountersMatchRows
    <3>1. CASE c = d
      <4>1. Units(c, "ACTIVE")' = {} /\ Units(c, "CONFIRMED")' = {}
        BY <3>1, <2>3 DEF Units
      <4>. QED  BY <3>1, <4>1, <2>2, FS_EmptySet
    <3>2. CASE c # d
      <4>1. Units(c, "ACTIVE")' = Units(c, "ACTIVE") /\ Units(c, "CONFIRMED")' = Units(c, "CONFIRMED")
        BY <3>2, <2>3, UnitsSame
      <4>. QED  BY <3>2, <4>1, <2>2 DEF CountersMatchRows
    <3>. QED  BY <3>1, <3>2
  <2>7. AbsentCountsNothing' /\ RowsWereAskedFor'
    BY <2>2, <2>3 DEF AbsentCountsNothing, Present, RowsWereAskedFor
  <2>. QED  BY <2>4, <2>5, <2>6, <2>7
<1>. QED  BY <1>1, <1>2, <1>3

-----------------------------------------------------------------------------
(***************************************************************************)
(* The theorems.                                                           *)
(***************************************************************************)

LEMMA NextKeepsLedger == LedgerInv /\ [Next]_vars => LedgerInv'
<1> SUFFICES ASSUME LedgerInv, [Next]_vars PROVE LedgerInv'
  OBVIOUS
<1>1. ASSUME NEW o \in Orders, NEW open \in SUBSET Classes, Reserve(o, open) PROVE LedgerInv'
  BY <1>1, ReserveKeepsLedger
<1>2. ASSUME NEW o \in Orders, Confirm(o) PROVE LedgerInv'
  BY <1>2, ConfirmKeepsLedger
<1>3. ASSUME NEW o \in Orders, Release(o) PROVE LedgerInv'
  BY <1>3, ReleaseKeepsLedger
<1>4. ASSUME NEW o \in Orders, Lapse(o) PROVE LedgerInv'
  BY <1>4, LapseKeepsLedger
<1>5. ASSUME NEW batch \in SUBSET Overdue, Expire(batch) PROVE LedgerInv'
  BY <1>5, ExpireKeepsLedger
<1>6. CASE Organiser
  BY <1>6, OrganiserKeepsLedger DEF Organiser
<1>7. CASE UNCHANGED vars
  <2>1. class' = class /\ row' = row /\ lapsed' = lapsed
    BY <1>7 DEF vars
  <2>2. \A c, st : Units(c, st)' = Units(c, st)
    BY <2>1 DEF Units
  <2>. QED
    BY <2>1, <2>2 DEF LedgerInv, TypeOK, NoOversell, CountersMatchRows, AbsentCountsNothing,
                      Present, RowsWereAskedFor
<1>. QED
  BY <1>1, <1>2, <1>3, <1>4, <1>5, <1>6, <1>7 DEF Next, Orderer, BatchExpireReservations

\* The ledger invariant holds in every reachable state.
THEOREM LedgerInvariant == Spec => []LedgerInv
<1>1. Init => LedgerInv
  BY InitLedgerInv
<1>2. LedgerInv /\ [Next]_vars => LedgerInv'
  BY NextKeepsLedger
<1>. QED  BY <1>1, <1>2, PTL DEF Spec

\* Every variable keeps its type.
THEOREM Typing == Spec => []TypeOK
<1>1. LedgerInv => TypeOK
  BY DEF LedgerInv
<1>. QED  BY <1>1, LedgerInvariant, PTL

\* No class is ever oversold, by any interleaving of calls and sweeps.
THEOREM NeverOversold == Spec => []NoOversell
<1>1. LedgerInv => NoOversell
  BY DEF LedgerInv
<1>. QED  BY <1>1, LedgerInvariant, PTL

\* The counters of every class always equal what its rows account for.
THEOREM CountersAreExact == Spec => []CountersMatchRows
<1>1. LedgerInv => CountersMatchRows
  BY DEF LedgerInv
<1>. QED  BY <1>1, LedgerInvariant, PTL

\* What a held line asks for is never more than what its class has reserved.
LEMMA HeldLinesAreCovered ==
  ASSUME LedgerInv, NEW o \in Orders, NEW c \in Classes, row[o][c] = "ACTIVE"
  PROVE  Demand[o][c] <= class[c].reserved
<1> DEFINE L == {o} \X (1..Demand[o][c])
<1>1. Demand[o][c] \in 0..MaxQty
  BY DemandAssumption
<1>2. L \in SUBSET Units(c, "ACTIVE")
  BY <1>1, QtyAssumption DEF Units
<1>3. IsFiniteSet(Units(c, "ACTIVE"))
  BY UnitsType, TicketsAreFinite
<1>4. Cardinality(L) <= Cardinality(Units(c, "ACTIVE"))
  BY <1>2, <1>3, FS_Subset
<1>5. Cardinality(L) = Demand[o][c]
  BY LineUnits
<1>. QED  BY <1>4, <1>5 DEF LedgerInv, CountersMatchRows

\* ErrInventoryDrift is unreachable: neither Confirm nor Release ever answers it.
THEOREM DriftIsUnreachable == Spec => []NeverDrifts
<1>1. LedgerInv => NeverDrifts
  <2> SUFFICES ASSUME LedgerInv, NEW o \in Orders
               PROVE  ConfirmReply(o) # "InventoryDrift" /\ ReleaseReply(o) # "InventoryDrift"
    BY DEF NeverDrifts
  <2>1. Drifted(o) = {}
    <3>1. \A c \in Classes : class[c].reserved \in Nat /\ Demand[o][c] \in Nat
      BY DemandAssumption, QtyAssumption DEF LedgerInv, TypeOK, TicketClass
    <3>. QED  BY <3>1, HeldLinesAreCovered DEF Drifted, Rows
  <2>2. ReleaseReply(o) # "InventoryDrift"
    BY <2>1 DEF ReleaseReply, Releasable, CanRelease, Live, Statuses, Rows
  <2>3. ConfirmReply(o) # "InventoryDrift"
    BY <2>1 DEF ConfirmReply, Confirmable, CanConfirm
  <2>. QED  BY <2>2, <2>3
<1>. QED  BY <1>1, LedgerInvariant, PTL

\* An order whose every line is held is always confirmed when asked.
THEOREM HeldOrdersConfirm == Spec => []HeldOrderConfirms
<1>1. LedgerInv => HeldOrderConfirms
  <2> SUFFICES ASSUME LedgerInv, NEW o \in Orders, Statuses(o) = {"ACTIVE"}
               PROVE  ConfirmReply(o) = "ok"
    BY DEF HeldOrderConfirms
  <2>1. Rows(o) # {} /\ \A c \in Rows(o) : row[o][c] = "ACTIVE"
    BY DEF Statuses
  <2>2. \A c \in Classes : class[c].reserved \in Nat /\ Demand[o][c] \in Nat
    BY DemandAssumption, QtyAssumption DEF LedgerInv, TypeOK, TicketClass
  <2>3. Drifted(o) = {} /\ SoldOut(o) = {}
    BY <2>1, <2>2, HeldLinesAreCovered DEF Drifted, SoldOut, Rows
  <2>4. CanConfirm(o) /\ Confirmable(o)
    BY <2>1, <2>3 DEF CanConfirm, Confirmable
  <2>5. "ACTIVE" \in Statuses(o)
    OBVIOUS
  <2>6. Statuses(o) # {"CONFIRMED"}
    BY <2>5
  <2>. QED  BY <2>1, <2>4, <2>6 DEF ConfirmReply
<1>. QED  BY <1>1, LedgerInvariant, PTL

\* Every live row has its class.
THEOREM NoOrphanedRows == Spec => []LiveRowsHaveTheirClass
<1>1. LedgerInv => LiveRowsHaveTheirClass
  <2> SUFFICES ASSUME LedgerInv, NEW o \in Orders, NEW c \in Classes, row[o][c] \in Live, ~ Present(c)
               PROVE  FALSE
    BY DEF LiveRowsHaveTheirClass
  <2> DEFINE U == Units(c, row[o][c])
  <2>1. IsFiniteSet(U)
    BY UnitsType, TicketsAreFinite
  <2>2. Cardinality(U) = 0
    BY DEF Live, LedgerInv, CountersMatchRows, AbsentCountsNothing
  <2>3. U = {}
    BY <2>1, <2>2, FS_EmptySet
  <2>4. Demand[o][c] \in 1..MaxQty
    BY DemandAssumption, QtyAssumption DEF Live, LedgerInv, RowsWereAskedFor
  <2>5. <<o, 1>> \in U
    BY <2>4, QtyAssumption DEF Units
  <2>. QED  BY <2>3, <2>5
<1>. QED  BY <1>1, LedgerInvariant, PTL

-----------------------------------------------------------------------------
(***************************************************************************)
(* How the rows of one order move together.                                *)
(***************************************************************************)

\* What each step may do to one row: the facts the three theorems below share.
LEMMA RowMoves ==
  ASSUME TypeOK, [Next]_vars, NEW o \in Orders
  PROVE  \/ \A c \in Classes : row'[o][c] = row[o][c]
         \/ /\ \A c \in Classes : row[o][c] = "none"
            /\ \A c \in Classes : row'[o][c] \in {"none", "ACTIVE"}
         \/ /\ \A c \in Classes : row[o][c] \in {"none", "ACTIVE", "EXPIRED"}
            /\ \A c \in Classes : row'[o][c] = IF row[o][c] = "none" THEN "none" ELSE "CONFIRMED"
         \/ /\ \A c \in Classes : row[o][c] # "CONFIRMED"
            /\ \A c \in Classes : row'[o][c] = IF row[o][c] = "ACTIVE" THEN "CANCELLED" ELSE row[o][c]
         \/ \A c \in Classes :
              row'[o][c] = row[o][c] \/ (row[o][c] = "ACTIVE" /\ row'[o][c] = "EXPIRED")
         \/ \A c \in Classes :
              row'[o][c] = row[o][c] \/ (row[o][c] \notin Live /\ row'[o][c] = "none")
<1>1. ASSUME NEW p \in Orders, NEW open \in SUBSET Classes, Reserve(p, open), p = o
      PROVE  /\ \A c \in Classes : row[o][c] = "none"
             /\ \A c \in Classes : row'[o][c] \in {"none", "ACTIVE"}
  BY <1>1 DEF Reserve, CanReserve, Rows, TypeOK
<1>2. ASSUME NEW p \in Orders, Confirm(p), p = o
      PROVE  /\ \A c \in Classes : row[o][c] \in {"none", "ACTIVE", "EXPIRED"}
             /\ \A c \in Classes : row'[o][c] = IF row[o][c] = "none" THEN "none" ELSE "CONFIRMED"
  BY <1>2 DEF Confirm, CanConfirm, Confirmable, Statuses, Rows, TypeOK
<1>3. ASSUME NEW p \in Orders, Release(p), p = o
      PROVE  /\ \A c \in Classes : row[o][c] # "CONFIRMED"
             /\ \A c \in Classes : row'[o][c] = IF row[o][c] = "ACTIVE" THEN "CANCELLED" ELSE row[o][c]
  BY <1>3 DEF Release, CanRelease, Releasable, Statuses, Rows, TypeOK
<1>4. ASSUME NEW p \in Orders, p # o,
             (\E open \in SUBSET Classes : Reserve(p, open)) \/ Confirm(p) \/ Release(p)
      PROVE  \A c \in Classes : row'[o][c] = row[o][c]
  BY <1>4 DEF Reserve, Confirm, Release, TypeOK
<1>5. ASSUME NEW batch \in SUBSET Overdue, Expire(batch)
      PROVE  \A c \in Classes :
              row'[o][c] = row[o][c] \/ (row[o][c] = "ACTIVE" /\ row'[o][c] = "EXPIRED")
  BY <1>5 DEF Expire, Overdue
<1>6. ASSUME NEW d \in Classes, Delete(d)
      PROVE  \A c \in Classes :
              row'[o][c] = row[o][c] \/ (row[o][c] \notin Live /\ row'[o][c] = "none")
  BY <1>6 DEF Delete, TypeOK
<1>7. ASSUME \/ UNCHANGED vars
             \/ \E p \in Orders : Lapse(p)
             \/ \E d \in Classes : \/ \E t \in Totals : Create(d, t)
                                   \/ \E t \in Totals \cup {class[d].total}, s \in {"ACTIVE", "INACTIVE"} :
                                         Update(d, t, s)
      PROVE  \A c \in Classes : row'[o][c] = row[o][c]
  BY <1>7 DEF vars, Lapse, Create, Update
<1>8. CASE Orderer
  <2>1. PICK p \in Orders : \/ \E open \in SUBSET Classes : Reserve(p, open)
                            \/ Confirm(p) \/ Release(p) \/ Lapse(p)
    BY <1>8 DEF Orderer
  <2>2. CASE p = o
    BY <2>1, <2>2, <1>1, <1>2, <1>3, <1>7
  <2>3. CASE p # o
    BY <2>1, <2>3, <1>4, <1>7
  <2>. QED  BY <2>2, <2>3
<1>9. CASE BatchExpireReservations
  BY <1>9, <1>5 DEF BatchExpireReservations
<1>10. CASE Organiser
  BY <1>10, <1>6, <1>7 DEF Organiser
<1>. QED  BY <1>7, <1>8, <1>9, <1>10 DEF Next

\* A sale is never undone.
THEOREM SalesAreFinal == Spec => PaidStaysPaid
<1>1. TypeOK /\ [Next]_vars =>
        [\A o \in Orders, c \in Classes : row[o][c] = "CONFIRMED" => row'[o][c] = "CONFIRMED"]_vars
  BY RowMoves DEF Live
<1>. QED  BY <1>1, Typing, PTL DEF Spec, PaidStaysPaid

\* An order with a cancelled line is sold nothing and held nothing.
THEOREM CancelledStaysUnsold == Spec => CancelledOrdersAreNotSold
<1>1. ASSUME TypeOK, [Next]_vars, NEW o \in Orders, "CANCELLED" \in Statuses(o),
             NEW c \in Classes, row'[o][c] \in Live
      PROVE  row'[o][c] = row[o][c]
  <2>1. PICK d \in Classes : row[o][d] = "CANCELLED"
    BY <1>1 DEF Statuses, Rows
  <2>. QED  BY <1>1, <2>1, RowMoves DEF Live
<1>2. TypeOK /\ [Next]_vars =>
        [\A o \in Orders : "CANCELLED" \in Statuses(o) =>
           \A c \in Classes : row'[o][c] \in Live => row'[o][c] = row[o][c]]_vars
  BY <1>1
<1>. QED  BY <1>2, Typing, PTL DEF Spec, CancelledOrdersAreNotSold

\* A paid line stands beside paid lines only.
THEOREM ConfirmationsAreWhole == Spec => []ConfirmIsWhole
<1> DEFINE Whole == \A o \in Orders : \A c, d \in Classes :
                      row[o][c] = "CONFIRMED" => row[o][d] \in {"none", "CONFIRMED"}
<1>1. Init => Whole
  BY DEF Init
<1>2. TypeOK /\ Whole /\ [Next]_vars => Whole'
  <2> SUFFICES ASSUME TypeOK, Whole, [Next]_vars, NEW o \in Orders,
                      NEW c \in Classes, NEW d \in Classes, row'[o][c] = "CONFIRMED"
               PROVE  row'[o][d] \in {"none", "CONFIRMED"}
    OBVIOUS
  <2>. QED  BY RowMoves DEF Live
<1>3. Whole => ConfirmIsWhole
  BY DEF ConfirmIsWhole, Statuses, Rows
<1>. HIDE DEF Whole
<1>. QED  BY <1>1, <1>2, <1>3, Typing, PTL DEF Spec
=============================================================================
