------------------------------ MODULE Inventory ------------------------------
(***************************************************************************)
(* inventory-svc as a ledger: every gRPC call and every sweep of the       *)
(* expiry worker is one atomic step.  The counters of a ticket class       *)
(* (total, reserved, sold) and the reservation rows of an order are two    *)
(* separate tables that each call moves together; this module says what    *)
(* they promise one another.  InventoryTx splits the same calls into SQL   *)
(* statements under row locks and is shown to implement this module.       *)
(*                                                                         *)
(* A call that changes nothing (a refusal, an idempotent retry) is a       *)
(* stuttering step; its answer is given by the ...Reply operators, which   *)
(* callers compose with.                                                   *)
(***************************************************************************)
EXTENDS Integers, FiniteSets

CONSTANTS
  Orders,     \* order codes
  Classes,    \* ticket class ids, in the order Postgres hands them out
  Demand,     \* Demand[o][c]: tickets of class c that order o asks for
  MaxQty,     \* the largest quantity one line of an order may ask for
  Totals,     \* capacities an organiser may set
  BatchSize   \* the most rows one sweep may expire

ASSUME ClassesAssumption == Classes \subseteq Nat /\ IsFiniteSet(Classes)
ASSUME OrdersAssumption == IsFiniteSet(Orders)
ASSUME QtyAssumption == MaxQty \in Nat
\* An order code is always sent with the same items: order-svc derives both
\* from one workflow input, and validation refuses an empty item list.
ASSUME DemandAssumption == Demand \in [Orders -> [Classes -> 0..MaxQty]]
ASSUME TotalsAssumption == Totals \subseteq Nat
ASSUME BatchAssumption == BatchSize \in Nat \ {0}

VARIABLES
  class,    \* table ticket_class, one row per id
  row,      \* table reservation: row[o][c] is the status of (order_code, ticket_class_id)
  lapsed    \* orders whose hold is past expires_at

vars == <<class, row, lapsed>>

ClassStatus == {"uncreated", "ACTIVE", "INACTIVE", "deleted"}
TicketClass == [status : ClassStatus, total : Nat, reserved : Nat, sold : Nat]
RowStatus == {"none", "ACTIVE", "CONFIRMED", "EXPIRED", "CANCELLED"}
Live == {"ACTIVE", "CONFIRMED"}

Present(c) == class[c].status \in {"ACTIVE", "INACTIVE"}
Rows(o) == {c \in Classes : row[o][c] # "none"}
Statuses(o) == {row[o][c] : c \in Rows(o)}

\* aggregateDemand: the classes an order names, one entry each.
Ids(o) == {c \in Classes : Demand[o][c] > 0}

\* The tickets that rows of one status account for, numbered within an order.
Units(c, st) == {u \in Orders \X (1..MaxQty) :
                   row[u[1]][c] = st /\ u[2] <= Demand[u[1]][c]}

\* onSale: "open" holds the classes whose sale window contains the caller's now.
OnSale(c, open) == class[c].status = "ACTIVE" /\ c \in open

\* Mutant: forgets the tickets already sold.
FitsIgnoringSold(c, q) == class[c].reserved + q <= class[c].total

\* reserved + sold + q <= total
Fits(c, q) == class[c].reserved + class[c].sold + q <= class[c].total

-----------------------------------------------------------------------------
(***************************************************************************)
(* What a call answers.                                                    *)
(***************************************************************************)
Missed(o, open) == {c \in Ids(o) : ~ (OnSale(c, open) /\ Fits(c, Demand[o][c]))}
First(S) == CHOOSE c \in S : \A d \in S : c <= d

\* explainReserveMiss
Miss(c, open) ==
  IF ~ Present(c) THEN "NotFound"
  ELSE IF ~ OnSale(c, open) THEN "SaleClosed" ELSE "InsufficientStock"

\* Mutant: an order whose rows are all terminal may reserve again.
CanReserveReopening(o, open) == Statuses(o) \cap Live = {} /\ Missed(o, open) = {}

CanReserve(o, open) == Rows(o) = {} /\ Missed(o, open) = {}

ReserveReply(o, open) ==
  CASE CanReserve(o, open)                         -> "ok"
    [] Rows(o) = {} /\ Missed(o, open) # {}        -> Miss(First(Missed(o, open)), open)
    [] Rows(o) # {} /\ Statuses(o) \cap Live # {}  -> "noop"
    [] Rows(o) # {} /\ Statuses(o) \cap Live = {}  -> "StateConflict"

Drifted(o) == {c \in Rows(o) : row[o][c] = "ACTIVE" /\ class[c].reserved < Demand[o][c]}
SoldOut(o) == {c \in Rows(o) : row[o][c] = "EXPIRED" /\ ~ Fits(c, Demand[o][c])}

\* An order is confirmable when it has rows and each is held or expired.
Confirmable(o) == Rows(o) # {} /\ Statuses(o) \subseteq {"ACTIVE", "EXPIRED"}
CanConfirm(o) == Confirmable(o) /\ Drifted(o) \cup SoldOut(o) = {}

ConfirmReply(o) ==
  CASE CanConfirm(o)                    -> "ok"
    [] Rows(o) = {}                     -> "NotFound"
    [] Statuses(o) = {"CONFIRMED"}      -> "noop"
    [] Confirmable(o) /\ ~ CanConfirm(o) ->
         IF First(Drifted(o) \cup SoldOut(o)) \in Drifted(o) THEN "InventoryDrift" ELSE "StateConflict"
    [] Rows(o) # {} /\ Statuses(o) # {"CONFIRMED"} /\ ~ Confirmable(o) -> "StateConflict"

Releasable(o) == "ACTIVE" \in Statuses(o) /\ "CONFIRMED" \notin Statuses(o)
CanRelease(o) == Releasable(o) /\ Drifted(o) = {}

ReleaseReply(o) ==
  CASE CanRelease(o)                       -> "ok"
    [] Releasable(o) /\ Drifted(o) # {}    -> "InventoryDrift"
    [] "CONFIRMED" \in Statuses(o)         -> "StateConflict"
    [] Statuses(o) \cap Live = {}          -> "noop"

-----------------------------------------------------------------------------
(***************************************************************************)
(* What a call changes.                                                    *)
(***************************************************************************)
\* All lines of the order are taken, or the transaction rolls back with none.
Reserve(o, open) ==
  /\ CanReserve(o, open)
  /\ class' = [c \in Classes |->
                 [class[c] EXCEPT !.reserved = @ + Demand[o][c]]]
  /\ row' = [row EXCEPT ![o] = [c \in Classes |-> IF c \in Ids(o) THEN "ACTIVE" ELSE "none"]]
  /\ lapsed' = lapsed \ {o}

\* Mutant: only the held lines are marked paid.
ConfirmSkippingExpired(o) ==
  /\ CanConfirm(o)
  /\ class' = [c \in Classes |->
                 IF row[o][c] = "ACTIVE"
                 THEN [class[c] EXCEPT !.reserved = @ - Demand[o][c], !.sold = @ + Demand[o][c]]
                 ELSE class[c]]
  /\ row' = [row EXCEPT ![o] = [c \in Classes |-> IF row[o][c] = "ACTIVE" THEN "CONFIRMED" ELSE row[o][c]]]
  /\ UNCHANGED lapsed

\* Mutant: an expired line is taken from reserved, as if still held.
ConfirmExpiredFromReserved(o) ==
  /\ CanConfirm(o)
  /\ class' = [c \in Classes |->
                 IF c \in Rows(o)
                 THEN [class[c] EXCEPT !.reserved = @ - Demand[o][c], !.sold = @ + Demand[o][c]]
                 ELSE class[c]]
  /\ row' = [row EXCEPT ![o] = [c \in Classes |-> IF c \in Rows(o) THEN "CONFIRMED" ELSE "none"]]
  /\ UNCHANGED lapsed

\* A held line moves reserved -> sold; a line the worker already expired is
\* taken again out of free stock.
Confirm(o) ==
  /\ CanConfirm(o)
  /\ class' = [c \in Classes |->
                 CASE row[o][c] = "ACTIVE"  -> [class[c] EXCEPT !.reserved = @ - Demand[o][c],
                                                               !.sold = @ + Demand[o][c]]
                   [] row[o][c] = "EXPIRED" -> [class[c] EXCEPT !.sold = @ + Demand[o][c]]
                   [] OTHER                 -> class[c]]
  /\ row' = [row EXCEPT ![o] = [c \in Classes |-> IF c \in Rows(o) THEN "CONFIRMED" ELSE "none"]]
  /\ UNCHANGED lapsed

\* Mutant: gives back every line, the ones the worker already expired too.
ReleaseEveryLine(o) ==
  /\ CanRelease(o)
  /\ class' = [c \in Classes |->
                 IF c \in Rows(o) THEN [class[c] EXCEPT !.reserved = @ - Demand[o][c]] ELSE class[c]]
  /\ row' = [row EXCEPT ![o] = [c \in Classes |-> IF row[o][c] = "ACTIVE" THEN "CANCELLED" ELSE row[o][c]]]
  /\ UNCHANGED lapsed

\* cancelReservationTx: only the lines still held give stock back.
Release(o) ==
  /\ CanRelease(o)
  /\ class' = [c \in Classes |->
                 IF row[o][c] = "ACTIVE" THEN [class[c] EXCEPT !.reserved = @ - Demand[o][c]]
                 ELSE class[c]]
  /\ row' = [row EXCEPT ![o] = [c \in Classes |-> IF row[o][c] = "ACTIVE" THEN "CANCELLED" ELSE row[o][c]]]
  /\ UNCHANGED lapsed

\* Mutant: the sweep selects by expires_at alone.
OverdueAnyLive == {r \in lapsed \X Classes : row[r[1]][r[2]] \in Live}

\* The rows one sweep may look at: held, past expires_at.  Which of them a
\* batch gets depends on the page size and on what other transactions lock.
Overdue == {r \in lapsed \X Classes : row[r[1]][r[2]] = "ACTIVE"}
BatchUnits(batch, c) == {u \in Orders \X (1..MaxQty) :
                           <<u[1], c>> \in batch /\ u[2] <= Demand[u[1]][c]}
BatchQty(batch, c) == Cardinality(BatchUnits(batch, c))
\* Mutant: off by one, a class whose every hold lapsed at once is called drifted.
AbsorbsStrictly(batch, c) == BatchQty(batch, c) < class[c].reserved

\* Classes whose counter can absorb the whole decrement; the rows of any
\* other class are left ACTIVE.
Absorbs(batch, c) == BatchQty(batch, c) <= class[c].reserved

\* Mutant: counters and rows move in two transactions and the second is lost.
ExpireCountersOnly(batch) ==
  /\ batch # {} /\ Cardinality(batch) <= BatchSize
  /\ class' = [c \in Classes |->
                 IF Absorbs(batch, c)
                 THEN [class[c] EXCEPT !.reserved = @ - BatchQty(batch, c)]
                 ELSE class[c]]
  /\ UNCHANGED <<row, lapsed>>

\* selectAndExpireBatch
Expire(batch) ==
  /\ batch # {} /\ Cardinality(batch) <= BatchSize
  /\ class' = [c \in Classes |->
                 IF Absorbs(batch, c)
                 THEN [class[c] EXCEPT !.reserved = @ - BatchQty(batch, c)]
                 ELSE class[c]]
  /\ row' = [o \in Orders |-> [c \in Classes |->
               IF <<o, c>> \in batch /\ Absorbs(batch, c) THEN "EXPIRED" ELSE row[o][c]]]
  /\ UNCHANGED lapsed

BatchExpireReservations == \E batch \in SUBSET Overdue : Expire(batch)

\* The clock passes expires_at of an order's hold.
Lapse(o) ==
  /\ Rows(o) # {} /\ o \notin lapsed
  /\ lapsed' = lapsed \cup {o}
  /\ UNCHANGED <<class, row>>

-----------------------------------------------------------------------------
(***************************************************************************)
(* The organiser's side: ticket classes.                                   *)
(***************************************************************************)
Create(c, total) ==
  /\ class[c].status = "uncreated"
  /\ class' = [class EXCEPT ![c] = [status |-> "ACTIVE", total |-> total, reserved |-> 0, sold |-> 0]]
  /\ UNCHANGED <<row, lapsed>>

\* A partial update: a field the caller leaves out keeps its value.
Update(c, total, status) ==
  /\ Present(c)
  /\ total # class[c].total => total >= class[c].reserved + class[c].sold
  /\ class' = [class EXCEPT ![c].total = total, ![c].status = status]
  /\ UNCHANGED <<row, lapsed>>

\* Terminal rows go with the class; a live row refuses the delete.
Delete(c) ==
  /\ Present(c)
  /\ \A o \in Orders : row[o][c] \notin Live
  /\ class' = [class EXCEPT ![c] = [status |-> "deleted", total |-> 0, reserved |-> 0, sold |-> 0]]
  /\ row' = [o \in Orders |-> [row[o] EXCEPT ![c] = "none"]]
  /\ UNCHANGED lapsed

Organiser ==
  \E c \in Classes :
     \/ \E t \in Totals : Create(c, t)
     \/ \E t \in Totals \cup {class[c].total}, s \in {"ACTIVE", "INACTIVE"} : Update(c, t, s)
     \/ Delete(c)

Orderer ==
  \E o \in Orders :
     \/ \E open \in SUBSET Classes : Reserve(o, open)
     \/ Confirm(o)
     \/ Release(o)
     \/ Lapse(o)

-----------------------------------------------------------------------------
Init ==
  /\ class = [c \in Classes |-> [status |-> "uncreated", total |-> 0, reserved |-> 0, sold |-> 0]]
  /\ row = [o \in Orders |-> [c \in Classes |-> "none"]]
  /\ lapsed = {}

Next == Orderer \/ BatchExpireReservations \/ Organiser

Spec == Init /\ [][Next]_vars

\* The expiry worker runs on a ticker for as long as the process lives.
FairSpec == Spec /\ WF_vars(BatchExpireReservations)

-----------------------------------------------------------------------------
TypeOK ==
  /\ class \in [Classes -> TicketClass]
  /\ row \in [Orders -> [Classes -> RowStatus]]
  /\ lapsed \subseteq Orders

-----------------------------------------------------------------------------
(***************************************************************************)
(* Safety.                                                                 *)
(***************************************************************************)

\* A class never has more tickets out, held and sold together, than its
\* capacity: chk_ticket_class_capacity is a backstop no call ever trips.
NoOversell ==
  \A c \in Classes : class[c].reserved + class[c].sold <= class[c].total

\* The counters of a class are exactly what its rows account for: tickets on
\* ACTIVE rows are reserved, tickets on CONFIRMED rows are sold.
CountersMatchRows ==
  \A c \in Classes :
     /\ class[c].reserved = Cardinality(Units(c, "ACTIVE"))
     /\ class[c].sold = Cardinality(Units(c, "CONFIRMED"))

\* A live row always has its class row: Delete can never orphan a hold or a
\* sale, whatever Reserve, Confirm and the sweep did in between.
LiveRowsHaveTheirClass ==
  \A o \in Orders, c \in Classes : row[o][c] \in Live => Present(c)

\* Confirming an order all of whose lines are still held cannot fail: a pure
\* reserved -> sold move, also when the hold is past expires_at but not swept.
HeldOrderConfirms ==
  \A o \in Orders : Statuses(o) = {"ACTIVE"} => ConfirmReply(o) = "ok"

\* No call ever meets ErrInventoryDrift.
NeverDrifts ==
  \A o \in Orders : /\ ConfirmReply(o) # "InventoryDrift"
                    /\ ReleaseReply(o) # "InventoryDrift"

\* Confirm takes every line an order still has or none: a paid line is never
\* found beside one that is held, expired or cancelled.
ConfirmIsWhole ==
  \A o \in Orders : "CONFIRMED" \in Statuses(o) => Statuses(o) = {"CONFIRMED"}

(***************************************************************************)
(* What a step may never do.                                               *)
(***************************************************************************)

\* A paid line stays paid: no release, sweep, update or delete undoes a sale.
PaidStaysPaid ==
  [][\A o \in Orders, c \in Classes :
       row[o][c] = "CONFIRMED" => row'[o][c] = "CONFIRMED"]_vars

\* An order with a cancelled line is never sold a ticket afterwards while that
\* line is on record, and a cancelled line is never held again.
CancelledOrdersAreNotSold ==
  [][\A o \in Orders :
       "CANCELLED" \in Statuses(o) =>
         \A c \in Classes : row'[o][c] \in Live => row'[o][c] = row[o][c]]_vars

(***************************************************************************)
(* Liveness.                                                               *)
(***************************************************************************)

\* A hold past its deadline does not stay in reserved for ever: it is swept,
\* or it was confirmed or released first.
LapsedHoldsEnd ==
  \A o \in Orders, c \in Classes :
     (o \in lapsed /\ row[o][c] = "ACTIVE") ~> row[o][c] # "ACTIVE"
=============================================================================
