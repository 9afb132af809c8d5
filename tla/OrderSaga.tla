------------------------------ MODULE OrderSaga ------------------------------
(***************************************************************************)
(* order-svc over inventory-svc and payment-svc: how one purchase ends.    *)
(*                                                                         *)
(* An order code is minted per Create request.  Six processes work on it:  *)
(* the request that was sent (call), the CreateOrder workflow (saga), the  *)
(* ConfirmOrder workflow a payment starts (confirm), the delayed           *)
(* ExpireOrder workflow (clock), the buyer's Cancel (cancel) and the       *)
(* handler of a failed payment (fail).  Between any two steps of one of    *)
(* them every other may move, and so may the inventory's expiry worker.    *)
(*                                                                         *)
(* A remote step is answered, or has its effect and loses its answer, or   *)
(* exhausts its retries; the last two, and a crash of the process that     *)
(* serves a request, are faults and at most MaxFaults happen.  Steps are   *)
(* durable (Temporal) and idempotent, so re-running one is re-taking its   *)
(* action.  inventory-svc is the ledger of Inventory, call by call.        *)
(***************************************************************************)
EXTENDS Inventory

CONSTANTS
  Buyers,       \* purchase-slot keys: a session, or a user and an event
  BuyerOf,      \* BuyerOf[o]: who asks for order o
  Stock,        \* Stock[c]: tickets of class c on sale
  Impatient,    \* whether a Create may run into createTimeout
  Outcomes,     \* how a payment may end at the provider
  MaxFaults     \* bound on faults in one behaviour

ASSUME BuyerAssumption == BuyerOf \in [Orders -> Buyers]
ASSUME StockAssumption == Stock \in [Classes -> Nat]
ASSUME OutcomeAssumption == Outcomes \subseteq {"COMPLETED", "FAILED"}
ASSUME FaultAssumption == MaxFaults \in Nat /\ Impatient \in BOOLEAN

VARIABLES
  slot,      \* slot[b]: the order code b's purchase slot names, or Free
  aged,      \* buyers whose claim is older than purchaseSlotSettleWindow
  order,     \* order[o]: the order row [status, gone], gone: soft-deleted
  pay,       \* pay[o]: the payment intent at payment-svc
  link,      \* orders whose payment URL a buyer has been given
  answered,  \* orders whose payment event is marked, never to be redelivered
  told,      \* told[o]: events published about o
  at,        \* at[o]: where the six processes of o stand
  faults

front == <<slot, aged>>
sagaVars == <<class, row, lapsed, slot, aged, order, pay, link, answered, told, at, faults>>

\* No order code is empty.
Free == "free"
ASSUME FreeAssumption == Free \notin Orders
Terminal == {"CANCELLED", "PAYMENT_FAILED", "TIMEOUT", "REFUND_REQUIRED"}
OrderStatus == {"none", "PENDING", "COMPLETED"} \cup Terminal

\* GetByCode
Visible(o) == order[o].status # "none" /\ ~ order[o].gone
Is(o, st) == Visible(o) /\ order[o].status = st

Fine == UNCHANGED faults
Fault == faults < MaxFaults /\ faults' = faults + 1
Heard(ok) == IF ok THEN Fine ELSE Fault

At(o, p, step) == at[o][p] = step
Goto(o, p, step) == at' = [at EXCEPT ![o][p] = step]
SetStatus(o, st) == order' = [order EXCEPT ![o].status = st]
Tell(o, what) == told' = [told EXCEPT ![o] = @ \cup {what}]

\* Mutant: the slot is dropped whoever holds it.
FreeSlotOfBuyer(o) == slot' = [slot EXCEPT ![BuyerOf[o]] = Free]

\* ReleasePurchaseSlot: only while the slot still names o.
FreeSlot(o) == slot' = [slot EXCEPT ![BuyerOf[o]] = IF @ = o THEN Free ELSE @]

\* inventory.Release and inventory.Confirm: a refusal changes nothing.
CallRelease(o) == IF CanRelease(o) THEN Release(o) ELSE UNCHANGED vars
CallConfirm(o) == IF CanConfirm(o) THEN Confirm(o) ELSE UNCHANGED vars

-----------------------------------------------------------------------------
(***************************************************************************)
(* The Create request.                                                     *)
(***************************************************************************)
rest == <<order, pay, answered, told>>

ClaimWon(o) ==
  /\ At(o, "call", "new") /\ slot[BuyerOf[o]] = Free
  /\ slot' = [slot EXCEPT ![BuyerOf[o]] = o]
  /\ aged' = aged \ {BuyerOf[o]}
  /\ Goto(o, "call", "claimed")
  /\ Fine /\ UNCHANGED <<vars, rest, link>>

ClaimLost(o) ==
  /\ At(o, "call", "new") /\ slot[BuyerOf[o]] # Free
  /\ at' = [at EXCEPT ![o].call = "resume", ![o].held = slot[BuyerOf[o]]]
  /\ Fine /\ UNCHANGED <<vars, front, rest, link>>

\* The slot names an order that was never written: left alone while its create
\* may still be running.
ResumeUnwritten(o) ==
  LET w == at[o].held IN
  /\ At(o, "call", "resume") /\ ~ Visible(w)
  /\ IF BuyerOf[o] \in aged THEN FreeSlot(w) ELSE UNCHANGED slot
  /\ Goto(o, "call", "over")
  /\ Fine /\ UNCHANGED <<vars, aged, rest, link>>

\* The slot names an order that ended: dropped, and taken again (or given up
\* on, after claimAttempts).
ResumeTerminal(o) ==
  LET w == at[o].held IN
  /\ At(o, "call", "resume") /\ Visible(w) /\ order[w].status \in Terminal
  /\ FreeSlot(w)
  /\ \E next \in {"new", "over"} : Goto(o, "call", next)
  /\ Fine /\ UNCHANGED <<vars, aged, rest, link>>

\* The slot names a live order: its payment URL is handed out, if there is one.
ResumeLive(o) ==
  LET w == at[o].held IN
  /\ At(o, "call", "resume") /\ Visible(w) /\ order[w].status \notin Terminal
  /\ link' = IF pay[w] = "none" THEN link ELSE link \cup {w}
  /\ Goto(o, "call", "over")
  /\ Fine /\ UNCHANGED <<vars, front, rest>>

\* ticket classes cannot be read, or the workflow cannot be started; started says
\* that it was, and only the answer was lost.
PrepareFails(o, started) ==
  /\ At(o, "call", "claimed")
  /\ FreeSlot(o)
  /\ at' = [at EXCEPT ![o].call = "over", ![o].saga = IF started THEN "reserve" ELSE "none"]
  /\ Heard(~ started) /\ UNCHANGED <<vars, aged, rest, link>>

StartSaga(o) ==
  /\ At(o, "call", "claimed")
  /\ at' = [at EXCEPT ![o].call = "waiting", ![o].saga = "reserve"]
  /\ Fine /\ UNCHANGED <<vars, front, rest, link>>

\* The saga's result reaches the request, which starts the order's clock.
AnswerCreated(o, clocked) ==
  /\ At(o, "call", "waiting") /\ At(o, "saga", "done")
  /\ at' = [at EXCEPT ![o].call = "over", ![o].clock = IF clocked THEN "set" ELSE "off"]
  /\ link' = link \cup {o}
  /\ Heard(clocked) /\ UNCHANGED <<vars, front, rest>>

AnswerFailed(o) ==
  /\ At(o, "call", "waiting") /\ At(o, "saga", "failed")
  /\ FreeSlot(o)
  /\ Goto(o, "call", "over")
  /\ Fine /\ UNCHANGED <<vars, aged, rest, link>>

\* createTimeout: the saga is asked to cancel and the slot given back; with the
\* saga closed there is nothing to cancel, and the claim stays.
GiveUp(o) ==
  /\ Impatient /\ At(o, "call", "waiting")
  /\ IF at[o].saga \in {"done", "failed"}
     THEN Goto(o, "call", "over") /\ UNCHANGED slot
     ELSE /\ at' = [at EXCEPT ![o].call = "abandoned",
                              ![o].asked = IF at[o].saga = "intent" THEN "late" ELSE "early"]
          /\ FreeSlot(o)
  /\ Fine /\ UNCHANGED <<vars, aged, rest, link>>

\* The process that serves the request dies, or cannot reach Temporal.
Crash(o) ==
  /\ at[o].call \in {"claimed", "resume", "waiting"}
  /\ Goto(o, "call", "over")
  /\ Fault /\ UNCHANGED <<vars, front, rest, link>>

\* Mutant: a claim is called abandoned while its saga may still write the order.
CreateMayStillWriteNever(o) == FALSE

\* What the settle window is sized to outlast.
CreateMayStillWrite(o) == At(o, "call", "claimed") \/ at[o].saga \in {"reserve", "row"}

Age(b) ==
  /\ slot[b] # Free /\ b \notin aged /\ ~ CreateMayStillWrite(slot[b])
  /\ aged' = aged \cup {b}
  /\ Fine /\ UNCHANGED <<vars, slot, rest, link, at>>

Request(o) ==
  \/ ClaimWon(o) \/ ClaimLost(o)
  \/ ResumeUnwritten(o) \/ ResumeTerminal(o) \/ ResumeLive(o)
  \/ StartSaga(o) \/ AnswerFailed(o)
  \/ \E b \in BOOLEAN : PrepareFails(o, b) \/ AnswerCreated(o, b)
  \/ GiveUp(o) \/ Crash(o)

-----------------------------------------------------------------------------
(***************************************************************************)
(* CreateOrder: reserve, order row, items, payment intent; undone in       *)
(* reverse.  heard = FALSE is an effect whose answer is lost.              *)
(***************************************************************************)
\* A cancelled workflow does not wait for the answer of a step under way.
SagaHeard(o, heard) == Heard(heard \/ at[o].asked # "no")

SagaReserve(o, heard) ==
  /\ At(o, "saga", "reserve")
  /\ LET reply == ReserveReply(o, Classes) IN
     /\ IF reply = "ok" THEN Reserve(o, Classes) ELSE UNCHANGED vars
     /\ Goto(o, "saga", CASE ~ heard                 -> "reserve"
                          [] heard /\ reply \in {"ok", "noop"}    -> "row"
                          [] heard /\ reply \notin {"ok", "noop"} -> "failed")
  /\ SagaHeard(o, heard) /\ UNCHANGED <<front, rest, link>>

\* attribute_not_exists makes the replay of a landed write serve that write.
SagaRow(o, heard) ==
  /\ At(o, "saga", "row")
  /\ order' = IF order[o].status = "none" THEN [order EXCEPT ![o].status = "PENDING"] ELSE order
  /\ Goto(o, "saga", IF heard THEN "items" ELSE "row")
  /\ SagaHeard(o, heard) /\ UNCHANGED <<vars, front, pay, answered, told, link>>

SagaItems(o) ==
  /\ At(o, "saga", "items") /\ Goto(o, "saga", "intent")
  /\ Fine /\ UNCHANGED <<vars, front, rest, link>>

\* The last step outruns a cancellation only if it was already under way.
SagaIntent(o, heard) ==
  /\ At(o, "saga", "intent") /\ at[o].asked # "early"
  /\ pay' = IF pay[o] = "none" THEN [pay EXCEPT ![o] = "PENDING"] ELSE pay
  /\ Goto(o, "saga", IF heard THEN "done" ELSE "intent")
  /\ SagaHeard(o, heard) /\ UNCHANGED <<vars, front, order, answered, told, link>>

\* Where the compensations start when a step fails: only steps that were
\* answered are undone.
Undo(step) == CASE step = "reserve" -> "failed"   [] step = "row"    -> "undoHold"
                [] step = "items"   -> "undoRow"  [] step = "intent" -> "undoItems"

\* A step exhausts its retries, or returns because the workflow is cancelled.
SagaStepFails(o) ==
  /\ at[o].saga \in {"reserve", "row", "items", "intent"}
  /\ Goto(o, "saga", Undo(at[o].saga))
  /\ IF at[o].asked = "no" THEN Fault ELSE Fine
  /\ UNCHANGED <<vars, front, rest, link>>

SagaUndoItems(o) ==
  /\ At(o, "saga", "undoItems") /\ Goto(o, "saga", "undoRow")
  /\ Fine /\ UNCHANGED <<vars, front, rest, link>>

\* A failed undo is logged and the next one runs.
SagaUndoRow(o, worked) ==
  /\ At(o, "saga", "undoRow") /\ Goto(o, "saga", "undoHold")
  /\ order' = IF worked THEN [order EXCEPT ![o].gone = TRUE] ELSE order
  /\ Heard(worked) /\ UNCHANGED <<vars, front, pay, answered, told, link>>

SagaUndoHold(o, worked) ==
  /\ At(o, "saga", "undoHold") /\ Goto(o, "saga", "failed")
  /\ IF worked THEN CallRelease(o) ELSE UNCHANGED vars
  /\ Heard(worked) /\ UNCHANGED <<front, rest, link>>

CreateOrder(o) ==
  \/ \E b \in BOOLEAN : SagaReserve(o, b) \/ SagaRow(o, b) \/ SagaIntent(o, b)
                        \/ SagaUndoRow(o, b) \/ SagaUndoHold(o, b)
  \/ SagaItems(o) \/ SagaUndoItems(o) \/ SagaStepFails(o)

-----------------------------------------------------------------------------
(***************************************************************************)
(* A payment ends once, at the provider's word (handleFailedPayment would  *)
(* overwrite a completed one, but a provider does not fail what it took).  *)
(* Its event is delivered at least once, as PaymentEvents promises and     *)
(* PaymentOutbox keeps: a handler may run again any time until it is       *)
(* marked.                                                                 *)
(***************************************************************************)
PaymentEnds(o, outcome) ==
  /\ pay[o] = "PENDING"
  /\ outcome = "COMPLETED" => o \in link
  /\ pay' = [pay EXCEPT ![o] = outcome]
  /\ Fine /\ UNCHANGED <<vars, front, order, link, answered, told, at>>

\* ConfirmOrder's first step reads the order and decides.  A path that ends in
\* "already processed" or "not found" marks the event whatever happens next.
ConfirmStart(o) ==
  /\ pay[o] = "COMPLETED" /\ At(o, "confirm", "idle")
  /\ IF Is(o, "PENDING") \/ Is(o, "TIMEOUT")
     THEN Goto(o, "confirm", "inventory") /\ UNCHANGED answered
     ELSE /\ answered' = answered \cup {o}
          /\ IF Is(o, "CANCELLED") \/ Is(o, "PAYMENT_FAILED")
             THEN Goto(o, "confirm", "refund") ELSE UNCHANGED at
  /\ Fine /\ UNCHANGED <<vars, front, order, pay, link, told>>

\* Mutant: the order is completed before its hold is confirmed.
ConfirmInventoryLater(o, heard) ==
  /\ At(o, "confirm", "inventory") /\ Goto(o, "confirm", "complete")
  /\ Heard(heard) /\ UNCHANGED <<vars, front, rest, link>>

\* FailedPrecondition and NotFound cannot be retried; anything else is.
ConfirmInventory(o, heard) ==
  /\ At(o, "confirm", "inventory")
  /\ LET reply == ConfirmReply(o) IN
     /\ CallConfirm(o)
     /\ Goto(o, "confirm", CASE ~ heard \/ reply = "InventoryDrift" -> "inventory"
                             [] heard /\ reply \in {"ok", "noop"} -> "complete"
                             [] heard /\ reply \in {"NotFound", "StateConflict"} -> "refund")
  /\ Heard(heard) /\ UNCHANGED <<front, rest, link>>

\* Mutant: a completion that was not written is only logged.
ConfirmCompleteIfItCan(o) ==
  /\ At(o, "confirm", "complete") /\ Goto(o, "confirm", "slot")
  /\ \/ Fine /\ SetStatus(o, "COMPLETED")
     \/ Fault /\ UNCHANGED order
  /\ UNCHANGED <<vars, front, pay, link, answered, told>>

\* An unconditional write.
ConfirmComplete(o) ==
  /\ At(o, "confirm", "complete")
  /\ SetStatus(o, "COMPLETED")
  /\ Goto(o, "confirm", "slot")
  /\ Fine /\ UNCHANGED <<vars, front, pay, link, answered, told>>

\* Mutant: the consumer marks a failed message and moves on.
ConfirmFailsForGood(o) ==
  /\ at[o].confirm \in {"inventory", "complete"}
  /\ Goto(o, "confirm", "idle")
  /\ answered' = answered \cup {o}
  /\ Fault /\ UNCHANGED <<vars, front, order, pay, link, told>>

\* A step before completion exhausts its retries: the workflow fails, the event
\* stays unmarked.
ConfirmFails(o) ==
  /\ at[o].confirm \in {"inventory", "complete"}
  /\ Goto(o, "confirm", "idle")
  /\ Fault /\ UNCHANGED <<vars, front, rest, link>>

ConfirmSlot(o, worked) ==
  /\ At(o, "confirm", "slot") /\ Goto(o, "confirm", "tell")
  /\ IF worked THEN FreeSlot(o) ELSE UNCHANGED slot
  /\ Heard(worked) /\ UNCHANGED <<vars, aged, rest, link>>

ConfirmTell(o, worked) ==
  /\ At(o, "confirm", "tell") /\ Goto(o, "confirm", "idle")
  /\ IF worked THEN Tell(o, "completed") ELSE UNCHANGED told
  /\ answered' = answered \cup {o}
  /\ Heard(worked) /\ UNCHANGED <<vars, front, order, pay, link>>

\* markForRefund: three best-effort steps.
RefundMark(o, worked) ==
  /\ At(o, "confirm", "refund") /\ Goto(o, "confirm", "refundTell")
  /\ IF worked THEN SetStatus(o, "REFUND_REQUIRED") ELSE UNCHANGED order
  /\ Heard(worked) /\ UNCHANGED <<vars, front, pay, link, answered, told>>

RefundTell(o, worked) ==
  /\ At(o, "confirm", "refundTell") /\ Goto(o, "confirm", "refundSlot")
  /\ IF worked THEN Tell(o, "refund") ELSE UNCHANGED told
  /\ Heard(worked) /\ UNCHANGED <<vars, front, order, pay, link, answered>>

RefundSlot(o, worked) ==
  /\ At(o, "confirm", "refundSlot") /\ Goto(o, "confirm", "idle")
  /\ IF worked THEN FreeSlot(o) ELSE UNCHANGED slot
  /\ Heard(worked) /\ UNCHANGED <<vars, aged, rest, link>>

ConfirmOrder(o) ==
  \/ ConfirmStart(o) \/ ConfirmComplete(o) \/ ConfirmFails(o)
  \/ \E b \in BOOLEAN : ConfirmInventory(o, b) \/ ConfirmSlot(o, b) \/ ConfirmTell(o, b)
                        \/ RefundMark(o, b) \/ RefundTell(o, b) \/ RefundSlot(o, b)

\* handlePaymentFailure: release, then an unconditional write.
FailRelease(o, worked) ==
  /\ pay[o] = "FAILED" /\ At(o, "fail", "idle") /\ Goto(o, "fail", "mark")
  /\ IF worked THEN CallRelease(o) ELSE UNCHANGED vars
  /\ Heard(worked) /\ UNCHANGED <<front, rest, link>>

FailMark(o) ==
  /\ At(o, "fail", "mark")
  /\ IF Visible(o)
     THEN SetStatus(o, "PAYMENT_FAILED") /\ Goto(o, "fail", "tell") /\ UNCHANGED answered
     ELSE UNCHANGED order /\ Goto(o, "fail", "idle") /\ answered' = answered \cup {o}
  /\ Fine /\ UNCHANGED <<vars, front, pay, link, told>>

FailTell(o, worked) ==
  /\ At(o, "fail", "tell") /\ Goto(o, "fail", "idle")
  /\ IF worked THEN Tell(o, "failed") ELSE UNCHANGED told
  /\ answered' = answered \cup {o}
  /\ Heard(worked) /\ UNCHANGED <<vars, front, order, pay, link>>

\* The write fails: the event stays unmarked, and its redelivery starts over.
FailMarkFails(o) ==
  /\ At(o, "fail", "mark") /\ Goto(o, "fail", "idle")
  /\ Fault /\ UNCHANGED <<vars, front, rest, link>>

HandlePaymentFailed(o) == \/ \E b \in BOOLEAN : FailRelease(o, b) \/ FailTell(o, b)
                          \/ FailMark(o) \/ FailMarkFails(o)

-----------------------------------------------------------------------------
(***************************************************************************)
(* ExpireOrder and Cancel: a conditional write, then what it gives back.   *)
(***************************************************************************)

\* Mutant: the status is written without its condition.
LeavePendingAlways(o, to) == SetStatus(o, to)

\* leavePending
LeavePending(o, to) == IF order[o].status = "PENDING" THEN SetStatus(o, to) ELSE UNCHANGED order

\* Mutant: the clock only runs for an order that still holds its tickets.
DueWhileHeld(o) == o \in lapsed /\ "ACTIVE" \in Statuses(o)

\* The clock runs for CheckoutLifetime, the length of the hold.
Due(o) == o \in lapsed

ClockFires(o) ==
  /\ At(o, "clock", "set") /\ Due(o)
  /\ LeavePending(o, "TIMEOUT")
  /\ Goto(o, "clock", IF order'[o].status = "TIMEOUT" THEN "release" ELSE "done")
  /\ Fine /\ UNCHANGED <<vars, front, pay, link, answered, told>>

\* The clock's own workflow exhausts its retries.
ClockFails(o) ==
  /\ At(o, "clock", "set") /\ Due(o) /\ Goto(o, "clock", "failed")
  /\ Fault /\ UNCHANGED <<vars, front, rest, link>>

ClockRelease(o, worked) ==
  /\ At(o, "clock", "release") /\ Goto(o, "clock", "slot")
  /\ IF worked THEN CallRelease(o) ELSE UNCHANGED vars
  /\ Heard(worked) /\ UNCHANGED <<front, rest, link>>

ClockSlot(o, worked) ==
  /\ At(o, "clock", "slot") /\ Goto(o, "clock", "tell")
  /\ IF worked THEN FreeSlot(o) ELSE UNCHANGED slot
  /\ Heard(worked) /\ UNCHANGED <<vars, aged, rest, link>>

ClockTell(o, worked) ==
  /\ At(o, "clock", "tell") /\ Goto(o, "clock", "done")
  /\ IF worked THEN Tell(o, "expired") ELSE UNCHANGED told
  /\ Heard(worked) /\ UNCHANGED <<vars, front, order, pay, link, answered>>

ExpireOrder(o) ==
  \/ ClockFires(o) \/ ClockFails(o)
  \/ \E b \in BOOLEAN : ClockRelease(o, b) \/ ClockSlot(o, b) \/ ClockTell(o, b)

\* A write whose answer is lost is an error to the buyer, and gives nothing back.
CancelFlip(o, heard) ==
  /\ Is(o, "PENDING") /\ At(o, "cancel", "idle")
  /\ LeavePending(o, "CANCELLED")
  /\ Goto(o, "cancel", IF heard THEN "release" ELSE "done")
  /\ Heard(heard) /\ UNCHANGED <<vars, front, pay, link, answered, told>>

CancelRelease(o, worked) ==
  /\ At(o, "cancel", "release") /\ Goto(o, "cancel", "tell")
  /\ IF worked THEN CallRelease(o) ELSE UNCHANGED vars
  /\ Heard(worked) /\ UNCHANGED <<front, rest, link>>

CancelTell(o, worked) ==
  /\ At(o, "cancel", "tell") /\ Goto(o, "cancel", "done")
  /\ IF worked THEN Tell(o, "failed") ELSE UNCHANGED told
  /\ Heard(worked) /\ UNCHANGED <<vars, front, order, pay, link, answered>>

Cancel(o) == \E b \in BOOLEAN : CancelFlip(o, b) \/ CancelRelease(o, b) \/ CancelTell(o, b)

-----------------------------------------------------------------------------
Idle == [call |-> "new", held |-> Free, asked |-> "no", saga |-> "none",
         confirm |-> "idle", clock |-> "off", cancel |-> "idle", fail |-> "idle"]

\* Every class is on sale and stays so.
SagaInit ==
  /\ class = [c \in Classes |-> [status |-> "ACTIVE", total |-> Stock[c], reserved |-> 0, sold |-> 0]]
  /\ row = [o \in Orders |-> [c \in Classes |-> "none"]]
  /\ lapsed = {}
  /\ slot = [b \in Buyers |-> Free]
  /\ aged = {}
  /\ order = [o \in Orders |-> [status |-> "none", gone |-> FALSE]]
  /\ pay = [o \in Orders |-> "none"]
  /\ link = {} /\ answered = {}
  /\ told = [o \in Orders |-> {}]
  /\ at = [o \in Orders |-> Idle]
  /\ faults = 0

\* The expiry worker and the passing of time.
Inventories == /\ BatchExpireReservations \/ \E o \in Orders : Lapse(o)
               /\ Fine /\ UNCHANGED <<front, rest, link, at>>

SagaNext ==
  \/ \E o \in Orders :
       \/ Request(o) \/ CreateOrder(o) \/ ConfirmOrder(o)
       \/ ExpireOrder(o) \/ Cancel(o) \/ HandlePaymentFailed(o)
       \/ \E outcome \in Outcomes : PaymentEnds(o, outcome)
  \/ \E b \in Buyers : Age(b)
  \/ Inventories

SagaSpec == SagaInit /\ [][SagaNext]_sagaVars

\* Temporal runs a started workflow to its end, a payment event is delivered
\* again until it is marked, time passes and the expiry worker ticks.
Delivering(o) == o \notin answered \/ ~ At(o, "confirm", "idle")

SagaFairness ==
  /\ \A o \in Orders : /\ WF_sagaVars(Delivering(o) /\ ConfirmOrder(o))
                       /\ WF_sagaVars(ExpireOrder(o))
  /\ WF_sagaVars(Inventories)

FairSagaSpec == SagaSpec /\ SagaFairness

-----------------------------------------------------------------------------
(***************************************************************************)
(* Safety.                                                                 *)
(***************************************************************************)

Process ==
  {p \in [call    : {"new", "claimed", "resume", "waiting", "abandoned", "over"},
          held    : Orders \cup {Free},
          asked   : {"no", "early", "late"},
          saga    : {"none", "reserve", "row", "items", "intent", "done",
                     "undoItems", "undoRow", "undoHold", "failed"},
          confirm : {"idle", "inventory", "complete", "slot", "tell",
                     "refund", "refundTell", "refundSlot"},
          clock   : {"off", "set", "release", "slot", "tell", "done", "failed"},
          cancel  : {"idle", "release", "tell", "done"},
          fail    : {"idle", "mark", "tell"}] :
     p.call = "resume" => p.held \in Orders}

\* The tables keep their types and every process stands at one of its steps,
\* wherever a failure, a crash or a cancellation sends it.
SagaTypeOK ==
  /\ TypeOK
  /\ slot \in [Buyers -> Orders \cup {Free}] /\ aged \subseteq Buyers
  /\ order \in [Orders -> [status : OrderStatus, gone : BOOLEAN]]
  /\ pay \in [Orders -> {"none", "PENDING", "COMPLETED", "FAILED"}]
  /\ link \subseteq Orders /\ answered \subseteq Orders
  /\ told \in [Orders -> SUBSET {"completed", "refund", "expired", "failed"}]
  /\ at \in [Orders -> Process]
  /\ faults \in 0..MaxFaults

\* A completed order, or one the waiting room was told is complete, has every
\* ticket it asked for, whatever cancels, timeouts and failures raced it.
CompletedOrdersHoldTheirTickets ==
  \A o \in Orders :
     order[o].status = "COMPLETED" \/ "completed" \in told[o] =>
       Rows(o) = Ids(o) /\ Statuses(o) = {"CONFIRMED"}

\* An outcome that involves money is never overwritten: not by a timeout, a
\* cancel, a late failure or a redelivered payment.
SettledOrdersAreFinal ==
  [][\A o \in Orders :
       order[o].status \in {"COMPLETED", "REFUND_REQUIRED"} =>
         order'[o].status = order[o].status]_sagaVars

\* A buyer has at most one order that is being made or waits for its payment,
\* however many requests, retries and late releases race for the slot.
MayBePaid(o) == Is(o, "PENDING") \/ at[o].saga \in {"reserve", "row"}
OneCheckoutPerBuyer ==
  \A o, p \in Orders :
     o # p /\ BuyerOf[o] = BuyerOf[p] => ~ (MayBePaid(o) /\ MayBePaid(p))

(***************************************************************************)
(* Liveness.                                                               *)
(***************************************************************************)

\* A payment on an order that exists ends in a sale or in a recorded debt.
PaidOrdersAreAnswered ==
  \A o \in Orders :
     pay[o] = "COMPLETED" /\ Visible(o) ~>
       order[o].status \in {"COMPLETED", "REFUND_REQUIRED"} \/ "refund" \in told[o] \/ ~ Visible(o)

\* An order whose clock was started does not stay unpaid for ever (a clock
\* whose own workflow fails is the one exception).
UnpaidOrdersTimeOut ==
  \A o \in Orders :
     At(o, "clock", "set") ~> ~ Is(o, "PENDING") \/ At(o, "clock", "failed")

-----------------------------------------------------------------------------
(***************************************************************************)
(* What a comment of order-svc says, and the code does not keep.           *)
(***************************************************************************)

\* "No ticket is held in any of these", of an order that is owed a refund.
RefundedOrdersHoldNoTicket ==
  \A o \in Orders : order[o].status = "REFUND_REQUIRED" => "CONFIRMED" \notin Statuses(o)
=============================================================================
