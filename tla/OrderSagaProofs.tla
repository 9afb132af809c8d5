--------------------------- MODULE OrderSagaProofs ---------------------------
(***************************************************************************)
(* Proofs about OrderSaga, for every set of orders and buyers, any number  *)
(* of faults and any caller.  First the composition: whatever the sagas    *)
(* do, inventory-svc only ever sees calls of Inventory, so its ledger      *)
(* stays exact.  Then what a payment leads to.                             *)
(***************************************************************************)
EXTENDS SagaSale, InventoryProofs

-----------------------------------------------------------------------------
(***************************************************************************)
(* The saga and the ledger.                                                *)
(***************************************************************************)

\* What one step of a saga may be to inventory-svc.
LedgerStep ==
  \/ UNCHANGED vars
  \/ \E o \in Orders : Reserve(o, Classes) \/ Confirm(o) \/ Release(o) \/ Lapse(o)
  \/ BatchExpireReservations

\* Every step of the saga is one call of inventory-svc, a sweep, or none.
LEMMA SagaLedgerStep == [SagaNext]_sagaVars => LedgerStep
<1> SUFFICES ASSUME [SagaNext]_sagaVars PROVE LedgerStep
  OBVIOUS
<1>1. ASSUME NEW o \in Orders, Request(o) PROVE LedgerStep
  BY <1>1 DEF Request, LedgerStep, ClaimWon, ClaimLost, ResumeUnwritten, ResumeTerminal, ResumeLive,
              StartSaga, AnswerFailed, PrepareFails, AnswerCreated, GiveUp, Crash
<1>2. ASSUME NEW o \in Orders, CreateOrder(o) PROVE LedgerStep
  BY <1>2 DEF CreateOrder, LedgerStep, SagaReserve, SagaRow, SagaIntent, SagaUndoRow, SagaUndoHold,
              CallRelease, SagaItems, SagaUndoItems, SagaStepFails
<1>3. ASSUME NEW o \in Orders, ConfirmOrder(o) PROVE LedgerStep
  BY <1>3 DEF ConfirmOrder, LedgerStep, ConfirmStart, ConfirmComplete, ConfirmFails, ConfirmInventory,
              ConfirmSlot, ConfirmTell, RefundMark, RefundTell, RefundSlot, CallConfirm
<1>4. ASSUME NEW o \in Orders, ExpireOrder(o) \/ Cancel(o) \/ HandlePaymentFailed(o) PROVE LedgerStep
  BY <1>4 DEF ExpireOrder, Cancel, HandlePaymentFailed, LedgerStep, ClockFires, ClockFails, ClockRelease,
              ClockSlot, ClockTell, CancelFlip, CancelRelease, CancelTell,
              FailRelease, FailTell, FailMark, FailMarkFails, CallRelease
<1>5. ASSUME NEW o \in Orders, NEW outcome \in Outcomes, PaymentEnds(o, outcome) PROVE LedgerStep
  BY <1>5 DEF PaymentEnds, LedgerStep
<1>6. ASSUME NEW b \in Buyers, Age(b) PROVE LedgerStep
  BY <1>6 DEF Age, LedgerStep
<1>7. CASE Inventories
  BY <1>7 DEF Inventories, LedgerStep
<1>8. CASE UNCHANGED sagaVars
  BY <1>8 DEF sagaVars, vars, LedgerStep
<1>. QED  BY <1>1, <1>2, <1>3, <1>4, <1>5, <1>6, <1>7, <1>8 DEF SagaNext

\* These are steps of the ledger.
LEMMA LedgerStepIsNext == LedgerStep => [Next]_vars
BY DEF LedgerStep, Next, Orderer

\* Classes on sale and no rows: the ledger is exact.
LEMMA SagaInitLedger == SagaInit => LedgerInv
<1> SUFFICES ASSUME SagaInit PROVE LedgerInv
  OBVIOUS
<1>1. TypeOK
  BY StockAssumption DEF SagaInit, TypeOK, TicketClass, ClassStatus, RowStatus
<1>2. NoOversell /\ AbsentCountsNothing /\ RowsWereAskedFor
  BY StockAssumption DEF SagaInit, NoOversell, AbsentCountsNothing, RowsWereAskedFor, Present
<1>3. ASSUME NEW c \in Classes, NEW st \in Live PROVE Cardinality(Units(c, st)) = 0
  <2>1. Units(c, st) = {}
    BY <1>3 DEF SagaInit, Units, Live
  <2>. QED  BY <2>1, FS_EmptySet
<1>4. CountersMatchRows
  BY <1>3 DEF SagaInit, CountersMatchRows, Live
<1>. QED  BY <1>1, <1>2, <1>4 DEF LedgerInv

\* Composition: inventory-svc is only ever asked for calls of its own ledger.
THEOREM SagaCallsTheLedger == SagaSpec => [][Next]_vars
<1>1. [SagaNext]_sagaVars => [Next]_vars
  BY SagaLedgerStep, LedgerStepIsNext
<1>. QED  BY <1>1, PTL DEF SagaSpec

\* Under every interleaving of sagas, payments, clocks and cancels the ledger
\* of inventory-svc stays typed, within capacity and equal to its rows.
THEOREM SagaKeepsLedger == SagaSpec => []LedgerInv
<1>1. LedgerInv /\ [SagaNext]_sagaVars => LedgerInv'
  BY SagaLedgerStep, LedgerStepIsNext, NextKeepsLedger
<1>. QED  BY <1>1, SagaInitLedger, PTL DEF SagaSpec

-----------------------------------------------------------------------------
(***************************************************************************)
(* Types, and the steps that leave the money alone: whatever a request, a  *)
(* CreateOrder, a clock or a cancel does, the processes that a payment     *)
(* started stay where they are, and a status moves only out of PENDING.    *)
(***************************************************************************)

MoneyAt(q) == <<at[q].confirm, at[q].fail>>

Quiet ==
  \A q \in Orders :
     /\ MoneyAt(q)' = MoneyAt(q)
     /\ \/ order'[q].status = order[q].status
        \/ order[q].status \in {"none", "PENDING"} /\ order'[q].status \in {"PENDING", "TIMEOUT", "CANCELLED"}
     /\ pay'[q] = pay[q] \/ pay[q] = "none"
     /\ "completed" \in told'[q] => "completed" \in told[q]

\* One order's record of processes is replaced, and every other kept.
LEMMA ProcessMoves ==
  ASSUME at \in [Orders -> Process], NEW o \in Orders, NEW r \in Process, at' = [at EXCEPT ![o] = r],
         r.confirm = at[o].confirm, r.fail = at[o].fail
  PROVE  at' \in [Orders -> Process] /\ \A q \in Orders : MoneyAt(q)' = MoneyAt(q)
BY DEF MoneyAt

\* Where a request may send itself, its saga and its clock.
LEMMA RequestMoves ==
  ASSUME at \in [Orders -> Process], NEW o \in Orders,
         \/ \E s \in {"claimed", "waiting", "over", "new"} : Goto(o, "call", s)
         \/ \E w \in Orders : at' = [at EXCEPT ![o].call = "resume", ![o].held = w]
         \/ \E c \in {"waiting", "over"}, s \in {"reserve", "none"} :
               at' = [at EXCEPT ![o].call = c, ![o].saga = s]
         \/ \E s \in {"set", "off"} : at' = [at EXCEPT ![o].call = "over", ![o].clock = s]
         \/ \E s \in {"late", "early"} : at' = [at EXCEPT ![o].call = "abandoned", ![o].asked = s]
  PROVE  at' \in [Orders -> Process] /\ \A q \in Orders : MoneyAt(q)' = MoneyAt(q)
<1> DEFINE Good(r) == at' = [at EXCEPT ![o] = r] /\ r \in Process
                      /\ r.confirm = at[o].confirm /\ r.fail = at[o].fail
<1>1. at[o] \in Process
  OBVIOUS
<1>2. ASSUME NEW s \in {"claimed", "waiting", "over", "new"}, Goto(o, "call", s)
      PROVE  \E r : Good(r)
  <2> DEFINE r == [at[o] EXCEPT !.call = s]
  <2>1. r \in Process
    BY <1>1, <1>2 DEF Process
  <2>2. r.confirm = at[o].confirm /\ r.fail = at[o].fail
    BY <1>1, <1>2 DEF Process
  <2>3. at' = [at EXCEPT ![o] = r]
    BY <1>2 DEF Goto
  <2>. QED  BY <2>1, <2>2, <2>3
<1>3. ASSUME NEW w \in Orders, at' = [at EXCEPT ![o].call = "resume", ![o].held = w]
      PROVE  \E r : Good(r)
  <2> DEFINE r == [at[o] EXCEPT !.call = "resume", !.held = w]
  <2>1. r \in Process
    BY <1>1, <1>3 DEF Process
  <2>2. r.confirm = at[o].confirm /\ r.fail = at[o].fail
    BY <1>1, <1>3 DEF Process
  <2>3. at' = [at EXCEPT ![o] = r]
    BY <1>3
  <2>. QED  BY <2>1, <2>2, <2>3
<1>4. ASSUME NEW c \in {"waiting", "over"}, NEW s \in {"reserve", "none"},
             at' = [at EXCEPT ![o].call = c, ![o].saga = s]
      PROVE  \E r : Good(r)
  <2> DEFINE r == [at[o] EXCEPT !.call = c, !.saga = s]
  <2>1. r \in Process
    BY <1>1, <1>4 DEF Process
  <2>2. r.confirm = at[o].confirm /\ r.fail = at[o].fail
    BY <1>1, <1>4 DEF Process
  <2>3. at' = [at EXCEPT ![o] = r]
    BY <1>4
  <2>. QED  BY <2>1, <2>2, <2>3
<1>5. ASSUME NEW s \in {"set", "off"}, at' = [at EXCEPT ![o].call = "over", ![o].clock = s]
      PROVE  \E r : Good(r)
  <2> DEFINE r == [at[o] EXCEPT !.call = "over", !.clock = s]
  <2>1. r \in Process
    BY <1>1, <1>5 DEF Process
  <2>2. r.confirm = at[o].confirm /\ r.fail = at[o].fail
    BY <1>1, <1>5 DEF Process
  <2>3. at' = [at EXCEPT ![o] = r]
    BY <1>5
  <2>. QED  BY <2>1, <2>2, <2>3
<1>6. ASSUME NEW s \in {"late", "early"}, at' = [at EXCEPT ![o].call = "abandoned", ![o].asked = s]
      PROVE  \E r : Good(r)
  <2> DEFINE r == [at[o] EXCEPT !.call = "abandoned", !.asked = s]
  <2>1. r \in Process
    BY <1>1, <1>6 DEF Process
  <2>2. r.confirm = at[o].confirm /\ r.fail = at[o].fail
    BY <1>1, <1>6 DEF Process
  <2>3. at' = [at EXCEPT ![o] = r]
    BY <1>6
  <2>. QED  BY <2>1, <2>2, <2>3
<1>7. \E r : Good(r)
  BY <1>2, <1>3, <1>4, <1>5, <1>6
<1>. QED  BY <1>7, ProcessMoves

\* Where a create, a clock and a cancel may go.
LEMMA WorkflowMoves ==
  ASSUME at \in [Orders -> Process], NEW o \in Orders,
         \/ \E s \in {"reserve", "row", "items", "intent", "done",
                      "undoItems", "undoRow", "undoHold", "failed"} : Goto(o, "saga", s)
         \/ \E s \in {"release", "slot", "tell", "done", "failed"} : Goto(o, "clock", s)
         \/ \E s \in {"release", "tell", "done"} : Goto(o, "cancel", s)
  PROVE  at' \in [Orders -> Process] /\ \A q \in Orders : MoneyAt(q)' = MoneyAt(q)
<1> DEFINE Good(r) == at' = [at EXCEPT ![o] = r] /\ r \in Process
                      /\ r.confirm = at[o].confirm /\ r.fail = at[o].fail
<1>1. at[o] \in Process
  OBVIOUS
<1>2. ASSUME NEW s \in {"reserve", "row", "items", "intent", "done",
                        "undoItems", "undoRow", "undoHold", "failed"}, Goto(o, "saga", s)
      PROVE  \E r : Good(r)
  <2> DEFINE r == [at[o] EXCEPT !.saga = s]
  <2>1. r \in Process
    BY <1>1, <1>2 DEF Process
  <2>2. r.confirm = at[o].confirm /\ r.fail = at[o].fail
    BY <1>1, <1>2 DEF Process
  <2>3. at' = [at EXCEPT ![o] = r]
    BY <1>2 DEF Goto
  <2>. QED  BY <2>1, <2>2, <2>3
<1>3. ASSUME NEW s \in {"release", "slot", "tell", "done", "failed"}, Goto(o, "clock", s)
      PROVE  \E r : Good(r)
  <2> DEFINE r == [at[o] EXCEPT !.clock = s]
  <2>1. r \in Process
    BY <1>1, <1>3 DEF Process
  <2>2. r.confirm = at[o].confirm /\ r.fail = at[o].fail
    BY <1>1, <1>3 DEF Process
  <2>3. at' = [at EXCEPT ![o] = r]
    BY <1>3 DEF Goto
  <2>. QED  BY <2>1, <2>2, <2>3
<1>4. ASSUME NEW s \in {"release", "tell", "done"}, Goto(o, "cancel", s)
      PROVE  \E r : Good(r)
  <2> DEFINE r == [at[o] EXCEPT !.cancel = s]
  <2>1. r \in Process
    BY <1>1, <1>4 DEF Process
  <2>2. r.confirm = at[o].confirm /\ r.fail = at[o].fail
    BY <1>1, <1>4 DEF Process
  <2>3. at' = [at EXCEPT ![o] = r]
    BY <1>4 DEF Goto
  <2>. QED  BY <2>1, <2>2, <2>3
<1>5. \E r : Good(r)
  BY <1>2, <1>3, <1>4
<1>. QED  BY <1>5, ProcessMoves

\* A request writes no order and no payment.
LEMMA RequestIsQuiet ==
  ASSUME SagaTypeOK, TypeOK', NEW o \in Orders, Request(o)
  PROVE  SagaTypeOK' /\ Quiet
<1> DEFINE Moved == at' \in [Orders -> Process] /\ \A q \in Orders : MoneyAt(q)' = MoneyAt(q)
<1>1. at \in [Orders -> Process] /\ slot \in [Buyers -> Orders \cup {Free}]
  BY DEF SagaTypeOK
<1>2. UNCHANGED rest
  BY DEF Request, ClaimWon, ClaimLost, ResumeUnwritten, ResumeTerminal, ResumeLive, StartSaga,
         AnswerFailed, PrepareFails, AnswerCreated, GiveUp, Crash
<1>3. faults' \in 0..MaxFaults
  BY FaultAssumption
     DEF Request, ClaimWon, ClaimLost, ResumeUnwritten, ResumeTerminal, ResumeLive, StartSaga,
         AnswerFailed, PrepareFails, AnswerCreated, GiveUp, Crash, Fine, Fault, Heard, SagaTypeOK
<1>4. link' \subseteq Orders
  <2>1. CASE ResumeLive(o)
    <3>1. at[o].held \in Orders
      BY <1>1, <2>1 DEF ResumeLive, Process, At
    <3>2. link' = link \/ link' = link \cup {at[o].held}
      BY <2>1 DEF ResumeLive
    <3>. QED  BY <3>1, <3>2 DEF SagaTypeOK
  <2>2. CASE ~ ResumeLive(o)
    BY <2>2
       DEF Request, ClaimWon, ClaimLost, ResumeUnwritten, ResumeTerminal, StartSaga,
           AnswerFailed, PrepareFails, AnswerCreated, GiveUp, Crash, SagaTypeOK
  <2>. QED  BY <2>1, <2>2
<1>5. slot' \in [Buyers -> Orders \cup {Free}] /\ aged' \subseteq Buyers
  BY BuyerAssumption
     DEF Request, ClaimWon, ClaimLost, ResumeUnwritten, ResumeTerminal, ResumeLive, StartSaga,
         AnswerFailed, PrepareFails, AnswerCreated, GiveUp, Crash, FreeSlot, SagaTypeOK, front
<1>6. Moved
  <2>1. \/ \E s \in {"claimed", "waiting", "over", "new"} : Goto(o, "call", s)
        \/ \E w \in Orders : at' = [at EXCEPT ![o].call = "resume", ![o].held = w]
        \/ \E c \in {"waiting", "over"}, s \in {"reserve", "none"} :
              at' = [at EXCEPT ![o].call = c, ![o].saga = s]
        \/ \E s \in {"set", "off"} : at' = [at EXCEPT ![o].call = "over", ![o].clock = s]
        \/ \E s \in {"late", "early"} : at' = [at EXCEPT ![o].call = "abandoned", ![o].asked = s]
    <3>1. CASE ClaimLost(o)
      <4>1. slot[BuyerOf[o]] \in Orders
        BY <1>1, <3>1, BuyerAssumption DEF ClaimLost
      <4>. QED  BY <3>1, <4>1 DEF ClaimLost
    <3>2. CASE ClaimWon(o) \/ ResumeUnwritten(o) \/ ResumeTerminal(o) \/ ResumeLive(o)
                \/ AnswerFailed(o) \/ Crash(o)
      BY <3>2 DEF ClaimWon, ResumeUnwritten, ResumeTerminal, ResumeLive, AnswerFailed, Crash
    <3>3. CASE StartSaga(o)
      BY <3>3 DEF StartSaga
    <3>4. ASSUME NEW b \in BOOLEAN, PrepareFails(o, b)
          PROVE  \E s \in {"reserve", "none"} : at' = [at EXCEPT ![o].call = "over", ![o].saga = s]
      BY <3>4 DEF PrepareFails
    <3>5. ASSUME NEW b \in BOOLEAN, AnswerCreated(o, b)
          PROVE  \E s \in {"set", "off"} : at' = [at EXCEPT ![o].call = "over", ![o].clock = s]
      BY <3>5 DEF AnswerCreated
    <3>6. ASSUME GiveUp(o)
          PROVE  Goto(o, "call", "over") \/ \E s \in {"late", "early"} :
                    at' = [at EXCEPT ![o].call = "abandoned", ![o].asked = s]
      BY <3>6 DEF GiveUp
    <3>. QED  BY <3>1, <3>2, <3>3, <3>4, <3>5, <3>6 DEF Request
  <2>. QED  BY <1>1, <2>1, RequestMoves
<1>. QED
  BY <1>2, <1>3, <1>4, <1>5, <1>6 DEF SagaTypeOK, Quiet, rest

\* A create writes a status only where there was none.
LEMMA CreateOrderIsQuiet ==
  ASSUME SagaTypeOK, TypeOK', NEW o \in Orders, CreateOrder(o)
  PROVE  SagaTypeOK' /\ Quiet
<1>1. at \in [Orders -> Process]
  BY DEF SagaTypeOK
<1>2. faults' \in 0..MaxFaults
  BY FaultAssumption
     DEF CreateOrder, SagaReserve, SagaRow, SagaIntent, SagaUndoRow, SagaUndoHold, SagaItems,
         SagaUndoItems, SagaStepFails, SagaHeard, Heard, Fine, Fault, SagaTypeOK
<1>3. at' \in [Orders -> Process] /\ \A q \in Orders : MoneyAt(q)' = MoneyAt(q)
  <2>1. \E s \in {"reserve", "row", "items", "intent", "done",
                  "undoItems", "undoRow", "undoHold", "failed"} : Goto(o, "saga", s)
    <3>1. ASSUME NEW b \in BOOLEAN, SagaReserve(o, b)
          PROVE  \E s \in {"reserve", "row", "failed"} : Goto(o, "saga", s)
      BY <3>1 DEF SagaReserve
    <3>2. CASE SagaStepFails(o)
      BY <3>2 DEF SagaStepFails, Undo
    <3>. QED
      BY <3>1, <3>2
         DEF CreateOrder, SagaRow, SagaIntent, SagaUndoRow, SagaUndoHold, SagaItems, SagaUndoItems
  <2>. QED  BY <1>1, <2>1, WorkflowMoves
<1>4. UNCHANGED <<slot, aged, link, answered, told>>
  BY DEF CreateOrder, SagaReserve, SagaRow, SagaIntent, SagaUndoRow, SagaUndoHold, SagaItems,
         SagaUndoItems, SagaStepFails, front, rest
<1>5. \/ order' = order
      \/ order[o].status = "none" /\ order' = [order EXCEPT ![o].status = "PENDING"]
      \/ order' = [order EXCEPT ![o].gone = TRUE]
  BY DEF CreateOrder, SagaReserve, SagaRow, SagaIntent, SagaUndoRow, SagaUndoHold, SagaItems,
         SagaUndoItems, SagaStepFails, rest
<1>6. pay' = pay \/ (pay[o] = "none" /\ pay' = [pay EXCEPT ![o] = "PENDING"])
  BY DEF CreateOrder, SagaReserve, SagaRow, SagaIntent, SagaUndoRow, SagaUndoHold, SagaItems,
         SagaUndoItems, SagaStepFails, rest
<1>7. /\ order' \in [Orders -> [status : OrderStatus, gone : BOOLEAN]]
      /\ \A q \in Orders : \/ order'[q].status = order[q].status
                           \/ order[q].status = "none" /\ order'[q].status = "PENDING"
  <2>1. order \in [Orders -> [status : OrderStatus, gone : BOOLEAN]]
    BY DEF SagaTypeOK
  <2>2. CASE order' = order
    BY <2>1, <2>2
  <2>3. CASE order[o].status = "none" /\ order' = [order EXCEPT ![o].status = "PENDING"]
    BY <2>1, <2>3 DEF OrderStatus
  <2>4. CASE order' = [order EXCEPT ![o].gone = TRUE]
    BY <2>1, <2>4
  <2>. QED  BY <1>5, <2>2, <2>3, <2>4
<1>8. /\ pay' \in [Orders -> {"none", "PENDING", "COMPLETED", "FAILED"}]
      /\ \A q \in Orders : pay'[q] = pay[q] \/ pay[q] = "none"
  BY <1>6 DEF SagaTypeOK
<1>. QED
  BY <1>2, <1>3, <1>4, <1>7, <1>8 DEF SagaTypeOK, Quiet

\* leavePending moves one order, and only out of PENDING.
LEMMA LeavePendingMoves ==
  ASSUME SagaTypeOK, NEW o \in Orders, NEW to \in {"TIMEOUT", "CANCELLED"},
         order' = order \/ LeavePending(o, to)
  PROVE  /\ order' \in [Orders -> [status : OrderStatus, gone : BOOLEAN]]
         /\ \A q \in Orders : \/ order'[q].status = order[q].status
                              \/ order[q].status = "PENDING" /\ order'[q].status = to
BY DEF LeavePending, SetStatus, SagaTypeOK, OrderStatus, Terminal

\* Only ConfirmOrder tells of a completion.
LEMMA TellMoves ==
  ASSUME SagaTypeOK, NEW o \in Orders, NEW what \in {"refund", "expired", "failed"},
         told' = told \/ Tell(o, what)
  PROVE  /\ told' \in [Orders -> SUBSET {"completed", "refund", "expired", "failed"}]
         /\ \A q \in Orders : "completed" \in told'[q] => "completed" \in told[q]
BY DEF Tell, SagaTypeOK

\* The clock moves PENDING to TIMEOUT, if anything.
LEMMA ExpireOrderIsQuiet ==
  ASSUME SagaTypeOK, TypeOK', NEW o \in Orders, ExpireOrder(o)
  PROVE  SagaTypeOK' /\ Quiet
<1>1. faults' \in 0..MaxFaults
  BY FaultAssumption
     DEF ExpireOrder, ClockFires, ClockFails, ClockRelease, ClockSlot, ClockTell, Heard, Fine, Fault, SagaTypeOK
<1>2. at' \in [Orders -> Process] /\ \A q \in Orders : MoneyAt(q)' = MoneyAt(q)
  <2>1. \E s \in {"release", "slot", "tell", "done", "failed"} : Goto(o, "clock", s)
    BY DEF ExpireOrder, ClockFires, ClockFails, ClockRelease, ClockSlot, ClockTell
  <2>. QED  BY <2>1, WorkflowMoves DEF SagaTypeOK
<1>3. UNCHANGED <<aged, link, answered, pay>>
  BY DEF ExpireOrder, ClockFires, ClockFails, ClockRelease, ClockSlot, ClockTell, front, rest
<1>4. slot' \in [Buyers -> Orders \cup {Free}]
  BY BuyerAssumption
     DEF ExpireOrder, ClockFires, ClockFails, ClockRelease, ClockSlot, ClockTell, FreeSlot, front, SagaTypeOK
<1>5. order' = order \/ LeavePending(o, "TIMEOUT")
  BY DEF ExpireOrder, ClockFires, ClockFails, ClockRelease, ClockSlot, ClockTell, rest
<1>6. told' = told \/ Tell(o, "expired")
  BY DEF ExpireOrder, ClockFires, ClockFails, ClockRelease, ClockSlot, ClockTell, rest
<1>. QED
  BY <1>1, <1>2, <1>3, <1>4, <1>5, <1>6, LeavePendingMoves, TellMoves DEF SagaTypeOK, Quiet

\* The buyer moves PENDING to CANCELLED, if anything.
LEMMA CancelIsQuiet ==
  ASSUME SagaTypeOK, TypeOK', NEW o \in Orders, Cancel(o)
  PROVE  SagaTypeOK' /\ Quiet
<1>1. faults' \in 0..MaxFaults
  BY FaultAssumption DEF Cancel, CancelFlip, CancelRelease, CancelTell, Heard, Fine, Fault, SagaTypeOK
<1>2. at' \in [Orders -> Process] /\ \A q \in Orders : MoneyAt(q)' = MoneyAt(q)
  <2>1. \E s \in {"release", "tell", "done"} : Goto(o, "cancel", s)
    BY DEF Cancel, CancelFlip, CancelRelease, CancelTell
  <2>. QED  BY <2>1, WorkflowMoves DEF SagaTypeOK
<1>3. UNCHANGED <<slot, aged, link, answered, pay>>
  BY DEF Cancel, CancelFlip, CancelRelease, CancelTell, front, rest
<1>4. order' = order \/ LeavePending(o, "CANCELLED")
  BY DEF Cancel, CancelFlip, CancelRelease, CancelTell, rest
<1>5. told' = told \/ Tell(o, "failed")
  BY DEF Cancel, CancelFlip, CancelRelease, CancelTell, rest
<1>. QED
  BY <1>1, <1>2, <1>3, <1>4, <1>5, LeavePendingMoves, TellMoves DEF SagaTypeOK, Quiet

\* A claim that ages concerns the slot alone.
LEMMA AgeIsQuiet ==
  ASSUME SagaTypeOK, TypeOK', NEW b \in Buyers, Age(b)
  PROVE  SagaTypeOK' /\ Quiet
<1>1. UNCHANGED <<slot, order, pay, link, answered, told, at, faults>> /\ aged' \subseteq Buyers
  BY DEF Age, Fine, rest, SagaTypeOK
<1>. QED  BY <1>1 DEF SagaTypeOK, Quiet, MoneyAt

\* The sweep and the clock of the holds touch no order.
LEMMA InventoriesAreQuiet ==
  ASSUME SagaTypeOK, TypeOK', Inventories
  PROVE  SagaTypeOK' /\ Quiet
<1>1. UNCHANGED <<slot, aged, order, pay, link, answered, told, at, faults>>
  BY DEF Inventories, Fine, front, rest
<1>. QED  BY <1>1 DEF SagaTypeOK, Quiet, MoneyAt

-----------------------------------------------------------------------------
(***************************************************************************)
(* Rows: an order has all its lines or none, and paid lines stay paid.     *)
(***************************************************************************)

LinesWhole == \A o \in Orders : Rows(o) = {} \/ Rows(o) = Ids(o)
AllPaid(o) == Rows(o) = Ids(o) /\ Statuses(o) = {"CONFIRMED"}

\* What a step may do to the lines of one order.
LEMMA LineMoves ==
  ASSUME TypeOK, LedgerStep, NEW o \in Orders
  PROVE  \/ Rows(o) = {} /\ Rows(o)' = Ids(o)
         \/ /\ Rows(o)' = Rows(o)
            /\ \A c \in Classes : row[o][c] = "CONFIRMED" => row'[o][c] = "CONFIRMED"
<1>1. ASSUME NEW p \in Orders, Reserve(p, Classes), p = o
      PROVE  Rows(o) = {} /\ Rows(o)' = Ids(o)
  BY <1>1 DEF Reserve, CanReserve, Rows, Ids, TypeOK
<1>2. ASSUME NEW p \in Orders, p # o, Reserve(p, Classes) \/ Confirm(p) \/ Release(p)
      PROVE  row'[o] = row[o]
  BY <1>2 DEF Reserve, Confirm, Release, TypeOK
<1>3. ASSUME NEW p \in Orders, p = o, Confirm(p) \/ Release(p), NEW c \in Classes
      PROVE  (row'[o][c] = "none" <=> row[o][c] = "none") /\ (row[o][c] = "CONFIRMED" => row'[o][c] = "CONFIRMED")
  <2>1. CASE Confirm(o)
    BY <2>1 DEF Confirm, Rows, TypeOK
  <2>2. CASE Release(o)
    BY <2>2 DEF Release, TypeOK
  <2>. QED  BY <1>3, <2>1, <2>2
<1>4. ASSUME BatchExpireReservations, NEW c \in Classes
      PROVE  (row'[o][c] = "none" <=> row[o][c] = "none") /\ (row[o][c] = "CONFIRMED" => row'[o][c] = "CONFIRMED")
  BY <1>4 DEF BatchExpireReservations, Expire, Overdue
<1>5. ASSUME UNCHANGED vars \/ \E p \in Orders : Lapse(p) PROVE row' = row
  BY <1>5 DEF vars, Lapse
<1>6. CASE \A c \in Classes : /\ row'[o][c] = "none" <=> row[o][c] = "none"
                              /\ row[o][c] = "CONFIRMED" => row'[o][c] = "CONFIRMED"
  BY <1>6 DEF Rows
<1>. QED  BY <1>1, <1>2, <1>3, <1>4, <1>5, <1>6 DEF LedgerStep

\* No step of the saga takes a part of an order, or gives up a paid line.
LEMMA LinesStayWhole ==
  ASSUME TypeOK, LedgerStep, LinesWhole
  PROVE  LinesWhole' /\ \A o \in Orders : AllPaid(o) => AllPaid(o)'
<1>1. LinesWhole'
  BY LineMoves DEF LinesWhole, Ids
<1>2. ASSUME NEW o \in Orders, AllPaid(o) PROVE AllPaid(o)'
  <2>1. Rows(o) # {} /\ \A c \in Rows(o) : row[o][c] = "CONFIRMED"
    BY <1>2 DEF AllPaid, Statuses
  <2>2. Rows(o)' = Rows(o) /\ \A c \in Rows(o) : row'[o][c] = "CONFIRMED"
    BY <2>1, LineMoves DEF Rows
  <2>. QED  BY <1>2, <2>1, <2>2 DEF AllPaid, Statuses, Ids
<1>. QED  BY <1>1, <1>2

\* What inventory may answer.
LEMMA ConfirmReplies ==
  ASSUME NEW o \in Orders
  PROVE  ConfirmReply(o) \in {"ok", "noop", "NotFound", "StateConflict", "InventoryDrift"}
BY DEF ConfirmReply, CanConfirm

\* An order that inventory has confirmed, now or before, has all it asked for.
LEMMA ConfirmSells ==
  ASSUME TypeOK, LinesWhole, NEW o \in Orders, CallConfirm(o), ConfirmReply(o) \in {"ok", "noop"}
  PROVE  AllPaid(o)'
<1>1. CASE CanConfirm(o)
  <2>1. Confirm(o) /\ Rows(o) # {}
    BY <1>1 DEF CallConfirm, CanConfirm, Confirmable
  <2>2. \A c \in Classes : row'[o][c] = IF c \in Rows(o) THEN "CONFIRMED" ELSE "none"
    BY <2>1 DEF Confirm, TypeOK
  <2>3. Rows(o)' = Rows(o) /\ Rows(o) = Ids(o)
    BY <2>1, <2>2 DEF Rows, LinesWhole
  <2>. QED  BY <2>1, <2>2, <2>3 DEF AllPaid, Statuses, Ids, Rows
<1>2. CASE ~ CanConfirm(o)
  <2>1. Statuses(o) = {"CONFIRMED"}
    BY <1>2 DEF ConfirmReply
  <2>2. Rows(o) # {} /\ row' = row
    BY <1>2, <2>1 DEF CallConfirm, Statuses, vars
  <2>. QED  BY <2>1, <2>2 DEF AllPaid, Statuses, Ids, Rows, LinesWhole
<1>. QED  BY <1>1, <1>2

-----------------------------------------------------------------------------
(***************************************************************************)
(* What a payment leads to.                                                *)
(***************************************************************************)

\* A payment ends one way, and only its own handler works for it.
OnePayment ==
  \A o \in Orders :
     /\ at[o].confirm # "idle" \/ order[o].status \in {"COMPLETED", "REFUND_REQUIRED"} => pay[o] = "COMPLETED"
     /\ at[o].fail # "idle" => pay[o] = "FAILED"

\* ConfirmOrder writes an outcome only to an order that has none.
OpenWhileDeciding ==
  \A o \in Orders :
     at[o].confirm \in {"inventory", "complete", "refund"} =>
       order[o].status \notin {"COMPLETED", "REFUND_REQUIRED"}

\* From the moment ConfirmOrder goes on to complete an order, inventory has sold
\* it every line.
SalesAreReal ==
  \A o \in Orders :
     at[o].confirm \in {"complete", "slot", "tell"} \/ order[o].status = "COMPLETED" \/ "completed" \in told[o] =>
       AllPaid(o)

MoneyInv == LinesWhole /\ OnePayment /\ OpenWhileDeciding /\ SalesAreReal

Final ==
  \A o \in Orders :
     order[o].status \in {"COMPLETED", "REFUND_REQUIRED"} => order'[o].status = order[o].status

\* A step that is quiet disturbs nothing a payment led to.
LEMMA QuietKeepsMoney ==
  ASSUME SagaTypeOK, MoneyInv, LinesWhole', \A o \in Orders : AllPaid(o) => AllPaid(o)', Quiet
  PROVE  MoneyInv' /\ Final
<1>1. Final
  BY DEF Final, Quiet
<1>2. OnePayment'
  BY DEF OnePayment, Quiet, MoneyInv, MoneyAt
<1>3. OpenWhileDeciding'
  BY DEF OpenWhileDeciding, Quiet, MoneyInv, MoneyAt
<1>4. SalesAreReal'
  BY DEF SalesAreReal, Quiet, MoneyInv, MoneyAt
<1>. QED  BY <1>1, <1>2, <1>3, <1>4 DEF MoneyInv

\* A step of ConfirmOrder moves its own process.
LEMMA ConfirmMoves ==
  ASSUME at \in [Orders -> Process], NEW o \in Orders,
         NEW s \in {"idle", "inventory", "complete", "slot", "tell", "refund", "refundTell", "refundSlot"},
         Goto(o, "confirm", s)
  PROVE  /\ at' \in [Orders -> Process]
         /\ \A q \in Orders : /\ at'[q].confirm = IF q = o THEN s ELSE at[q].confirm
                              /\ at'[q].fail = at[q].fail
<1>1. at[o] \in Process
  OBVIOUS
<1>2. [at[o] EXCEPT !.confirm = s] \in Process
  BY <1>1 DEF Process
<1>3. [at[o] EXCEPT !.confirm = s].confirm = s /\ [at[o] EXCEPT !.confirm = s].fail = at[o].fail
  BY <1>1 DEF Process
<1>4. at' = [at EXCEPT ![o] = [at[o] EXCEPT !.confirm = s]]
  BY DEF Goto
<1>. QED  BY <1>2, <1>3, <1>4

\* So does a step of the failure handler.
LEMMA FailMoves ==
  ASSUME at \in [Orders -> Process], NEW o \in Orders, NEW s \in {"idle", "mark", "tell"}, Goto(o, "fail", s)
  PROVE  /\ at' \in [Orders -> Process]
         /\ \A q \in Orders : /\ at'[q].fail = IF q = o THEN s ELSE at[q].fail
                              /\ at'[q].confirm = at[q].confirm
<1>1. at[o] \in Process
  OBVIOUS
<1>2. [at[o] EXCEPT !.fail = s] \in Process
  BY <1>1 DEF Process
<1>3. [at[o] EXCEPT !.fail = s].fail = s /\ [at[o] EXCEPT !.fail = s].confirm = at[o].confirm
  BY <1>1 DEF Process
<1>4. at' = [at EXCEPT ![o] = [at[o] EXCEPT !.fail = s]]
  BY DEF Goto
<1>. QED  BY <1>2, <1>3, <1>4

\* One order's status is written.
LEMMA StatusMoves ==
  ASSUME SagaTypeOK, NEW o \in Orders, NEW st \in OrderStatus, SetStatus(o, st)
  PROVE  /\ order' \in [Orders -> [status : OrderStatus, gone : BOOLEAN]]
         /\ \A q \in Orders : order'[q].status = IF q = o THEN st ELSE order[q].status
BY DEF SetStatus, SagaTypeOK

\* What both payment handlers leave alone.
LEMMA HandlersKeepTheRest ==
  ASSUME SagaTypeOK, NEW o \in Orders, ConfirmOrder(o) \/ HandlePaymentFailed(o)
  PROVE  /\ UNCHANGED <<aged, link, pay>>
         /\ slot' \in [Buyers -> Orders \cup {Free}]
         /\ answered' \subseteq Orders /\ faults' \in 0..MaxFaults
<1>1. CASE ConfirmOrder(o)
  <2>1. UNCHANGED <<aged, link, pay>>
    BY <1>1 DEF ConfirmOrder, ConfirmStart, ConfirmComplete, ConfirmFails, ConfirmInventory, ConfirmSlot,
                ConfirmTell, RefundMark, RefundTell, RefundSlot, front, rest
  <2>2. slot' \in [Buyers -> Orders \cup {Free}]
    BY <1>1, BuyerAssumption
       DEF ConfirmOrder, ConfirmStart, ConfirmComplete, ConfirmFails, ConfirmInventory, ConfirmSlot,
           ConfirmTell, RefundMark, RefundTell, RefundSlot, FreeSlot, front, SagaTypeOK
  <2>3. answered' \subseteq Orders
    BY <1>1 DEF ConfirmOrder, ConfirmStart, ConfirmComplete, ConfirmFails, ConfirmInventory, ConfirmSlot,
                ConfirmTell, RefundMark, RefundTell, RefundSlot, rest, SagaTypeOK
  <2>4. faults' \in 0..MaxFaults
    BY <1>1, FaultAssumption
       DEF ConfirmOrder, ConfirmStart, ConfirmComplete, ConfirmFails, ConfirmInventory, ConfirmSlot,
           ConfirmTell, RefundMark, RefundTell, RefundSlot, Heard, Fine, Fault, SagaTypeOK
  <2>. QED  BY <2>1, <2>2, <2>3, <2>4
<1>2. CASE HandlePaymentFailed(o)
  BY <1>2, FaultAssumption
     DEF HandlePaymentFailed, FailRelease, FailTell, FailMark, FailMarkFails, Heard, Fine, Fault,
         SagaTypeOK, front, rest
<1>. QED  BY <1>1, <1>2

\* Each step of ConfirmOrder: where it goes, what it leaves as the order's
\* status and what it tells, with the reason why that is allowed.
LEMMA ConfirmOrderKeepsMoney ==
  ASSUME SagaTypeOK, TypeOK', MoneyInv, LinesWhole', \A q \in Orders : AllPaid(q) => AllPaid(q)',
         NEW o \in Orders, ConfirmOrder(o)
  PROVE  SagaTypeOK' /\ MoneyInv' /\ Final
<1> DEFINE Told == {"completed", "refund", "expired", "failed"}
           Steps == {"idle", "inventory", "complete", "slot", "tell", "refund", "refundTell", "refundSlot"}
           Kept == /\ at' \in [Orders -> Process] /\ told' \in [Orders -> SUBSET Told]
                   /\ order' \in [Orders -> [status : OrderStatus, gone : BOOLEAN]]
                   /\ MoneyInv' /\ Final
           Open == order[o].status \notin {"COMPLETED", "REFUND_REQUIRED"}
           Moves(s) == /\ at' \in [Orders -> Process]
                       /\ \A q \in Orders : /\ at'[q].confirm = IF q = o THEN s ELSE at[q].confirm
                                            /\ at'[q].fail = at[q].fail
<1>1. /\ at \in [Orders -> Process] /\ told \in [Orders -> SUBSET Told]
      /\ order \in [Orders -> [status : OrderStatus, gone : BOOLEAN]]
  BY DEF SagaTypeOK
<1>2. pay[o] = "COMPLETED" /\ pay' = pay
  BY HandlersKeepTheRest
     DEF ConfirmOrder, ConfirmStart, ConfirmComplete, ConfirmFails, ConfirmInventory, ConfirmSlot,
         ConfirmTell, RefundMark, RefundTell, RefundSlot, At, MoneyInv, OnePayment
<1>3. SUFFICES Kept
  BY HandlersKeepTheRest DEF SagaTypeOK
<1>4. order[o].status = "COMPLETED" \/ "completed" \in told[o] => AllPaid(o)'
  BY DEF MoneyInv, SalesAreReal
<1>5. ASSUME NEW s \in Steps, Goto(o, "confirm", s) PROVE Moves(s)
  BY <1>1, <1>5, ConfirmMoves
<1>. HIDE DEF Told, Kept, Moves
<1>6. ASSUME NEW s \in Steps, Goto(o, "confirm", s), NEW st \in OrderStatus,
             (order' = order /\ st = order[o].status) \/ SetStatus(o, st),
             NEW what \in Told, told' = told \/ Tell(o, what),
             ~ Open => st = order[o].status,
             s \in {"inventory", "complete", "refund"} => st \notin {"COMPLETED", "REFUND_REQUIRED"},
             s \in {"complete", "slot", "tell"} \/ st = "COMPLETED" => AllPaid(o)',
             what = "completed" => AllPaid(o)'
      PROVE  Kept
  <2>1. Moves(s)
    BY <1>5, <1>6
  <2>2. /\ order' \in [Orders -> [status : OrderStatus, gone : BOOLEAN]]
        /\ \A q \in Orders : order'[q].status = IF q = o THEN st ELSE order[q].status
    BY <1>1, <1>6, StatusMoves
  <2>3. /\ told' \in [Orders -> SUBSET Told]
        /\ \A q \in Orders : q # o => told'[q] = told[q]
        /\ "completed" \in told'[o] => AllPaid(o)'
    <3>1. CASE told' = told
      BY <1>1, <1>4, <3>1
    <3>2. CASE Tell(o, what)
      <4>1. told' \in [Orders -> SUBSET Told] /\ (\A q \in Orders : q # o => told'[q] = told[q])
            /\ told'[o] = told[o] \cup {what}
        BY <1>1, <1>6, <3>2 DEF Tell
      <4>. QED  BY <1>4, <1>6, <4>1
    <3>. QED  BY <1>6, <3>1, <3>2
  <2>4. \A q \in Orders : /\ at'[q].confirm = IF q = o THEN s ELSE at[q].confirm
                          /\ at'[q].fail = at[q].fail
                          /\ order'[q].status = IF q = o THEN st ELSE order[q].status
                          /\ q # o => told'[q] = told[q]
    BY <2>1, <2>2, <2>3 DEF Moves
  <2>5. order[o].status \in {"COMPLETED", "REFUND_REQUIRED"} => st = order[o].status
    BY <1>6
  <2>6. s \in {"complete", "slot", "tell"} \/ st = "COMPLETED" \/ "completed" \in told'[o] => AllPaid(o)'
    BY <1>6, <2>3
  <2>7. Final
    BY <2>4, <2>5 DEF Final
  <2>8. OnePayment'
    BY <1>2, <2>4 DEF OnePayment, MoneyInv
  <2>9. OpenWhileDeciding'
    BY <1>6, <2>4 DEF OpenWhileDeciding, MoneyInv
  <2>10. SalesAreReal'
    BY <2>4, <2>6 DEF SalesAreReal, MoneyInv
  <2>11. MoneyInv'
    BY <2>8, <2>9, <2>10 DEF MoneyInv
  <2>. QED  BY <2>1, <2>2, <2>3, <2>7, <2>11 DEF Kept, Moves
<1>7. /\ order[o].status \in OrderStatus
      /\ {"completed", "refund"} \subseteq Told
      /\ {"COMPLETED", "REFUND_REQUIRED"} \subseteq OrderStatus
  BY <1>1 DEF Told, OrderStatus, Terminal
<1>8. ASSUME NEW s \in Steps, Goto(o, "confirm", s), order' = order, told' = told,
             s \in {"inventory", "complete", "refund"} => Open,
             s \in {"complete", "slot", "tell"} => AllPaid(o)'
      PROVE  Kept
  <2>1. ~ Open => order[o].status = order[o].status
    OBVIOUS
  <2>. QED  BY <1>4, <1>6, <1>7, <1>8, <2>1
<1>9. at[o].confirm \in {"inventory", "complete", "refund"} => Open
  BY DEF MoneyInv, OpenWhileDeciding
<1>10. at[o].confirm \in {"complete", "slot", "tell"} => AllPaid(o)'
  BY DEF MoneyInv, SalesAreReal
<1>11. CASE ConfirmStart(o)
  <2>1. CASE Is(o, "PENDING") \/ Is(o, "TIMEOUT")
    <3>1. Goto(o, "confirm", "inventory") /\ order' = order /\ told' = told /\ Open
      BY <1>11, <2>1 DEF ConfirmStart, Is
    <3>. QED  BY <1>8, <3>1
  <2>2. CASE Is(o, "CANCELLED") \/ Is(o, "PAYMENT_FAILED")
    <3>1. Goto(o, "confirm", "refund") /\ order' = order /\ told' = told /\ Open
      BY <1>11, <2>2 DEF ConfirmStart, Is
    <3>. QED  BY <1>8, <3>1
  <2>3. CASE \A st \in {"PENDING", "TIMEOUT", "CANCELLED", "PAYMENT_FAILED"} : ~ Is(o, st)
    <3>1. at' = at /\ order' = order /\ told' = told
      BY <1>11, <2>3 DEF ConfirmStart
    <3>2. MoneyInv' /\ Final
      BY <1>2, <3>1 DEF MoneyInv, OnePayment, OpenWhileDeciding, SalesAreReal, Final
    <3>. QED  BY <1>1, <3>1, <3>2 DEF Kept
  <2>. QED  BY <2>1, <2>2, <2>3
<1>12. ASSUME NEW b \in BOOLEAN, ConfirmInventory(o, b) PROVE Kept
  <2>1. order' = order /\ told' = told /\ Open
    BY <1>9, <1>12 DEF ConfirmInventory, rest, At
  <2>2. \/ \E s \in {"inventory", "refund"} : Goto(o, "confirm", s)
        \/ ConfirmReply(o) \in {"ok", "noop"} /\ Goto(o, "confirm", "complete")
    BY <1>12, ConfirmReplies DEF ConfirmInventory
  <2>3. Goto(o, "confirm", "complete") /\ ConfirmReply(o) \in {"ok", "noop"} => AllPaid(o)'
    BY <1>12, ConfirmSells DEF ConfirmInventory, SagaTypeOK, MoneyInv
  <2>. QED  BY <1>8, <2>1, <2>2, <2>3
<1>13. CASE ConfirmComplete(o)
  <2>1. Goto(o, "confirm", "slot") /\ SetStatus(o, "COMPLETED") /\ told' = told /\ Open /\ AllPaid(o)'
    BY <1>9, <1>10, <1>13 DEF ConfirmComplete, At
  <2>. QED  BY <1>6, <1>7, <2>1
<1>14. CASE ConfirmFails(o)
  <2>1. Goto(o, "confirm", "idle") /\ order' = order /\ told' = told
    BY <1>14 DEF ConfirmFails, rest
  <2>. QED  BY <1>8, <2>1
<1>15. ASSUME NEW b \in BOOLEAN, ConfirmSlot(o, b) PROVE Kept
  <2>1. Goto(o, "confirm", "tell") /\ order' = order /\ told' = told /\ AllPaid(o)'
    BY <1>10, <1>15 DEF ConfirmSlot, rest, At
  <2>. QED  BY <1>8, <2>1
<1>16. ASSUME NEW b \in BOOLEAN, ConfirmTell(o, b) PROVE Kept
  <2>1. /\ Goto(o, "confirm", "idle") /\ order' = order /\ AllPaid(o)'
        /\ told' = told \/ Tell(o, "completed")
    BY <1>10, <1>16 DEF ConfirmTell, At
  <2>. QED  BY <1>6, <1>7, <2>1
<1>17. ASSUME NEW b \in BOOLEAN, RefundMark(o, b) PROVE Kept
  <2>1. /\ Goto(o, "confirm", "refundTell") /\ told' = told /\ Open
        /\ order' = order \/ SetStatus(o, "REFUND_REQUIRED")
    BY <1>9, <1>17 DEF RefundMark, At
  <2>2. CASE order' = order
    BY <1>8, <2>1, <2>2
  <2>3. CASE SetStatus(o, "REFUND_REQUIRED")
    BY <1>6, <1>7, <2>1, <2>3
  <2>. QED  BY <2>1, <2>2, <2>3
<1>18. ASSUME NEW b \in BOOLEAN, RefundTell(o, b) PROVE Kept
  <2>1. Goto(o, "confirm", "refundSlot") /\ order' = order /\ (told' = told \/ Tell(o, "refund"))
    BY <1>18 DEF RefundTell
  <2>. QED  BY <1>4, <1>6, <1>7, <2>1
<1>19. ASSUME NEW b \in BOOLEAN, RefundSlot(o, b) PROVE Kept
  <2>1. Goto(o, "confirm", "idle") /\ order' = order /\ told' = told
    BY <1>19 DEF RefundSlot, rest
  <2>. QED  BY <1>8, <2>1
<1>. QED
  BY <1>11, <1>12, <1>13, <1>14, <1>15, <1>16, <1>17, <1>18, <1>19 DEF ConfirmOrder

\* A payment that failed has no ConfirmOrder and no settled order.
LEMMA FailureKeepsMoney ==
  ASSUME SagaTypeOK, TypeOK', MoneyInv, LinesWhole', \A q \in Orders : AllPaid(q) => AllPaid(q)',
         NEW o \in Orders, HandlePaymentFailed(o)
  PROVE  SagaTypeOK' /\ MoneyInv' /\ Final
<1>1. /\ at \in [Orders -> Process] /\ told \in [Orders -> SUBSET {"completed", "refund", "expired", "failed"}]
      /\ order \in [Orders -> [status : OrderStatus, gone : BOOLEAN]]
  BY DEF SagaTypeOK
<1>2. pay[o] = "FAILED" /\ pay' = pay
  BY HandlersKeepTheRest
     DEF HandlePaymentFailed, FailRelease, FailTell, FailMark, FailMarkFails, At, MoneyInv, OnePayment
<1>3. order[o].status \notin {"COMPLETED", "REFUND_REQUIRED"}
  BY <1>2 DEF MoneyInv, OnePayment
<1>4. at' \in [Orders -> Process]
      /\ \A q \in Orders : at'[q].confirm = at[q].confirm /\ (q # o => at'[q].fail = at[q].fail)
  <2>1. \E s \in {"idle", "mark", "tell"} : Goto(o, "fail", s)
    BY DEF HandlePaymentFailed, FailRelease, FailTell, FailMark, FailMarkFails
  <2>. QED  BY <1>1, <2>1, FailMoves
<1>5. /\ order' \in [Orders -> [status : OrderStatus, gone : BOOLEAN]]
      /\ \A q \in Orders : order'[q].status = order[q].status
                           \/ (q = o /\ order'[q].status = "PAYMENT_FAILED")
  <2>1. order' = order \/ SetStatus(o, "PAYMENT_FAILED")
    BY DEF HandlePaymentFailed, FailRelease, FailTell, FailMark, FailMarkFails, rest
  <2>2. "PAYMENT_FAILED" \in OrderStatus
    BY DEF OrderStatus, Terminal
  <2>. QED  BY <1>1, <2>1, <2>2, StatusMoves
<1>6. /\ told' \in [Orders -> SUBSET {"completed", "refund", "expired", "failed"}]
      /\ \A q \in Orders : "completed" \in told'[q] => "completed" \in told[q]
  <2>1. told' = told \/ Tell(o, "failed")
    BY DEF HandlePaymentFailed, FailRelease, FailTell, FailMark, FailMarkFails, rest
  <2>. QED  BY <2>1, TellMoves
<1>7. SagaTypeOK'
  BY <1>4, <1>5, <1>6, HandlersKeepTheRest DEF SagaTypeOK
<1>8. Final
  BY <1>3, <1>5 DEF Final
<1>9. OnePayment'
  BY <1>2, <1>4, <1>5 DEF OnePayment, MoneyInv
<1>10. OpenWhileDeciding'
  BY <1>4, <1>5 DEF OpenWhileDeciding, MoneyInv
<1>11. SalesAreReal'
  BY <1>4, <1>5, <1>6 DEF SalesAreReal, MoneyInv
<1>. QED  BY <1>7, <1>8, <1>9, <1>10, <1>11 DEF MoneyInv

\* A payment ends once.
LEMMA PaymentKeepsMoney ==
  ASSUME SagaTypeOK, TypeOK', MoneyInv, LinesWhole', \A q \in Orders : AllPaid(q) => AllPaid(q)',
         NEW o \in Orders, NEW outcome \in Outcomes, PaymentEnds(o, outcome)
  PROVE  SagaTypeOK' /\ MoneyInv' /\ Final
<1>1. UNCHANGED <<slot, aged, order, link, answered, told, at, faults>>
  BY DEF PaymentEnds, Fine, front
<1>2. /\ pay[o] = "PENDING" /\ pay' = [pay EXCEPT ![o] = outcome]
      /\ outcome \in {"COMPLETED", "FAILED"} /\ pay \in [Orders -> {"none", "PENDING", "COMPLETED", "FAILED"}]
  BY OutcomeAssumption DEF PaymentEnds, SagaTypeOK
<1>3. SagaTypeOK'
  BY <1>1, <1>2 DEF SagaTypeOK
<1>4. OnePayment'
  BY <1>1, <1>2 DEF OnePayment, MoneyInv
<1>5. OpenWhileDeciding' /\ SalesAreReal' /\ Final
  BY <1>1 DEF OpenWhileDeciding, SalesAreReal, MoneyInv, Final
<1>. QED  BY <1>3, <1>4, <1>5 DEF MoneyInv

-----------------------------------------------------------------------------
(***************************************************************************)
(* The theorems.                                                           *)
(***************************************************************************)

\* The inductive invariant: the ledger is exact, types hold, and what follows
\* from a payment is accounted for.
SagaInv == LedgerInv /\ SagaTypeOK /\ MoneyInv

\* Before the first request.
LEMMA SagaInitInv == SagaInit => SagaInv
<1> SUFFICES ASSUME SagaInit PROVE SagaInv
  OBVIOUS
<1>1. LedgerInv
  BY SagaInitLedger
<1>2. Idle \in Process
  BY DEF Idle, Process
<1>3. SagaTypeOK
  BY <1>1, <1>2, FaultAssumption DEF LedgerInv, SagaInit, SagaTypeOK, OrderStatus
<1>4. \A o \in Orders : at[o].confirm = "idle" /\ at[o].fail = "idle" /\ order[o].status = "none" /\ told[o] = {}
  BY DEF SagaInit, Idle
<1>5. LinesWhole
  BY DEF SagaInit, LinesWhole, Rows
<1>. QED
  BY <1>1, <1>3, <1>4, <1>5 DEF SagaInv, MoneyInv, OnePayment, OpenWhileDeciding, SalesAreReal

\* Every step keeps the invariant, and no step changes a settled status.
LEMMA SagaNextInv == SagaInv /\ [SagaNext]_sagaVars => SagaInv' /\ Final
<1> SUFFICES ASSUME SagaInv, [SagaNext]_sagaVars PROVE SagaInv' /\ Final
  OBVIOUS
<1> DEFINE Kept == SagaTypeOK' /\ MoneyInv' /\ Final
<1>1. LedgerInv' /\ LedgerStep
  BY SagaLedgerStep, LedgerStepIsNext, NextKeepsLedger DEF SagaInv
<1>2. TypeOK /\ TypeOK' /\ SagaTypeOK /\ MoneyInv
  BY <1>1 DEF SagaInv, LedgerInv
<1>3. LinesWhole' /\ \A q \in Orders : AllPaid(q) => AllPaid(q)'
  BY <1>1, <1>2, LinesStayWhole DEF MoneyInv
<1>4. ASSUME SagaTypeOK' /\ Quiet PROVE Kept
  BY <1>2, <1>3, <1>4, QuietKeepsMoney
<1>5. ASSUME NEW o \in Orders, Request(o) PROVE Kept
  BY <1>2, <1>4, <1>5, RequestIsQuiet
<1>6. ASSUME NEW o \in Orders, CreateOrder(o) PROVE Kept
  BY <1>2, <1>4, <1>6, CreateOrderIsQuiet
<1>7. ASSUME NEW o \in Orders, ConfirmOrder(o) PROVE Kept
  BY <1>2, <1>3, <1>7, ConfirmOrderKeepsMoney
<1>8. ASSUME NEW o \in Orders, ExpireOrder(o) PROVE Kept
  BY <1>2, <1>4, <1>8, ExpireOrderIsQuiet
<1>9. ASSUME NEW o \in Orders, Cancel(o) PROVE Kept
  BY <1>2, <1>4, <1>9, CancelIsQuiet
<1>10. ASSUME NEW o \in Orders, HandlePaymentFailed(o) PROVE Kept
  BY <1>2, <1>3, <1>10, FailureKeepsMoney
<1>11. ASSUME NEW o \in Orders, NEW outcome \in Outcomes, PaymentEnds(o, outcome) PROVE Kept
  BY <1>2, <1>3, <1>11, PaymentKeepsMoney
<1>12. ASSUME NEW b \in Buyers, Age(b) PROVE Kept
  BY <1>2, <1>4, <1>12, AgeIsQuiet
<1>. HIDE DEF Kept
<1>13. ASSUME Inventories PROVE Kept
  BY <1>2, <1>4, <1>13, InventoriesAreQuiet
<1>14. ASSUME UNCHANGED sagaVars PROVE Kept
  <2>1. SagaTypeOK' /\ Quiet
    BY <1>2, <1>14 DEF sagaVars, SagaTypeOK, Quiet, MoneyAt
  <2>. QED  BY <1>4, <2>1
<1>15. Kept
  BY <1>5, <1>6, <1>7, <1>8, <1>9, <1>10, <1>11, <1>12, <1>13, <1>14 DEF SagaNext
<1>. QED  BY <1>1, <1>15 DEF SagaInv, Kept

\* The inductive invariant of the purchase.
THEOREM SagaInvariant == SagaSpec => []SagaInv
<1>1. SagaInv /\ [SagaNext]_sagaVars => SagaInv'
  BY SagaNextInv
<1>. QED  BY <1>1, SagaInitInv, PTL DEF SagaSpec

\* Every table and every process of the purchase keeps its type.
THEOREM SagaTyping == SagaSpec => []SagaTypeOK
<1>1. SagaInv => SagaTypeOK
  BY DEF SagaInv
<1>. QED  BY <1>1, SagaInvariant, PTL

\* A completed order holds every ticket it asked for.
THEOREM CompletedMeansSold == SagaSpec => []CompletedOrdersHoldTheirTickets
<1>1. SagaInv => CompletedOrdersHoldTheirTickets
  BY DEF SagaInv, MoneyInv, SalesAreReal, AllPaid, CompletedOrdersHoldTheirTickets
<1>. QED  BY <1>1, SagaInvariant, PTL

\* A completed order stays completed, an order owed a refund stays owed one.
THEOREM SettledIsFinal == SagaSpec => SettledOrdersAreFinal
<1>1. SagaInv /\ [SagaNext]_sagaVars =>
        [\A o \in Orders : order[o].status \in {"COMPLETED", "REFUND_REQUIRED"} =>
           order'[o].status = order[o].status]_sagaVars
  BY SagaNextInv DEF Final
<1>. QED  BY <1>1, SagaInvariant, PTL DEF SagaSpec, SettledOrdersAreFinal

-----------------------------------------------------------------------------
(***************************************************************************)
(* The sagas implement Sale.  Two more facts make the mapping exact: lines *)
(* that were sold or given back are so together, and a completion is       *)
(* announced after it is written.                                          *)
(***************************************************************************)

SettledTogether ==
  \A o \in Orders :
     /\ "CONFIRMED" \in Statuses(o) => Statuses(o) = {"CONFIRMED"}
     /\ "CANCELLED" \in Statuses(o) => "ACTIVE" \notin Statuses(o)

CompletedFirst ==
  \A o \in Orders : at[o].confirm \in {"slot", "tell"} => order[o].status = "COMPLETED"

SaleInv == SagaInv /\ SettledTogether /\ CompletedFirst

Paid(q) == pay[q] = "COMPLETED"
Announced(q) == "completed" \in told[q]

\* What the papers of one order may do while its tickets stay as they are.
PaperMoves(q) ==
  \/ UNCHANGED <<StatusOf(q), Paid(q), Announced(q)>>
  \/ StatusOf(q) = "open" /\ StatusOf(q)' = "closed" /\ UNCHANGED <<Paid(q), Announced(q)>>
  \/ /\ StatusOf(q) \in {"open", "closed"} /\ StatusOf(q)' = "completed"
     /\ TicketsOf(q) = "sold" /\ UNCHANGED <<Paid(q), Announced(q)>>
  \/ /\ StatusOf(q) \in {"open", "closed"} /\ StatusOf(q)' = "refund"
     /\ Paid(q) /\ UNCHANGED <<Paid(q), Announced(q)>>
  \/ ~ Paid(q) /\ Paid(q)' /\ UNCHANGED <<StatusOf(q), Announced(q)>>
  \/ StatusOf(q) = "completed" /\ Announced(q)' /\ UNCHANGED <<StatusOf(q), Paid(q)>>

\* A step on paper is a step of the promise.
LEMMA PaperStep ==
  ASSUME row' = row, \A q \in Orders : PaperMoves(q)
  PROVE  Promise!SaleNext
<1>1. \A q \in Orders : TicketsOf(q)' = TicketsOf(q)
  BY DEF TicketsOf, Statuses, Rows
<1> SUFFICES ASSUME NEW q \in Orders PROVE Promise!SaleStep(q) \/ UNCHANGED Promise!sale(q)
  BY DEF Promise!SaleNext
<1> USE DEF Promise!sale, Promise!SaleStep, Promise!Status, Paid, Announced
<1>2. CASE UNCHANGED <<StatusOf(q), Paid(q), Announced(q)>>
  BY <1>1, <1>2
<1>3. CASE StatusOf(q) = "open" /\ StatusOf(q)' = "closed" /\ UNCHANGED <<Paid(q), Announced(q)>>
  BY <1>1, <1>3 DEF Promise!Close
<1>4. CASE /\ StatusOf(q) \in {"open", "closed"} /\ StatusOf(q)' = "completed"
           /\ TicketsOf(q) = "sold" /\ UNCHANGED <<Paid(q), Announced(q)>>
  BY <1>1, <1>4 DEF Promise!Complete
<1>5. CASE /\ StatusOf(q) \in {"open", "closed"} /\ StatusOf(q)' = "refund"
           /\ Paid(q) /\ UNCHANGED <<Paid(q), Announced(q)>>
  BY <1>1, <1>5 DEF Promise!Owe
<1>6. CASE ~ Paid(q) /\ Paid(q)' /\ UNCHANGED <<StatusOf(q), Announced(q)>>
  BY <1>1, <1>6 DEF Promise!Pay
<1>7. CASE StatusOf(q) = "completed" /\ Announced(q)' /\ UNCHANGED <<StatusOf(q), Paid(q)>>
  BY <1>1, <1>7 DEF Promise!Announce
<1>. QED  BY <1>2, <1>3, <1>4, <1>5, <1>6, <1>7 DEF PaperMoves

\* What a call of the ledger or a sweep may do to the tickets of one order.
TicketMoves(q) ==
  \/ TicketsOf(q)' = TicketsOf(q)
  \/ TicketsOf(q) = "none" /\ TicketsOf(q)' = "held"
  \/ TicketsOf(q) = "held" /\ TicketsOf(q)' \in {"lapsed", "returned"}
  \/ TicketsOf(q) \in {"held", "lapsed"} /\ TicketsOf(q)' = "sold" /\ Paid(q)

\* And such a step is a step of the promise.
LEMMA TicketStep ==
  ASSUME UNCHANGED <<order, pay, told>>, \A q \in Orders : TicketMoves(q)
  PROVE  Promise!SaleNext
<1> SUFFICES ASSUME NEW q \in Orders PROVE Promise!SaleStep(q) \/ UNCHANGED Promise!sale(q)
  BY DEF Promise!SaleNext
<1>1. UNCHANGED <<StatusOf(q), Paid(q), Announced(q)>>
  BY DEF StatusOf, Paid, Announced
<1> USE DEF Promise!sale, Promise!SaleStep, Promise!Tickets, Paid, Announced
<1>2. CASE TicketsOf(q)' = TicketsOf(q)
  BY <1>1, <1>2
<1>3. CASE TicketsOf(q) = "none" /\ TicketsOf(q)' = "held"
  BY <1>1, <1>3 DEF Promise!Hold
<1>4. CASE TicketsOf(q) = "held" /\ TicketsOf(q)' = "lapsed"
  BY <1>1, <1>4 DEF Promise!Lapse
<1>5. CASE TicketsOf(q) = "held" /\ TicketsOf(q)' = "returned"
  BY <1>1, <1>5 DEF Promise!Return
<1>6. CASE TicketsOf(q) \in {"held", "lapsed"} /\ TicketsOf(q)' = "sold" /\ Paid(q)
  BY <1>1, <1>6 DEF Promise!Sell
<1>. QED  BY <1>2, <1>3, <1>4, <1>5, <1>6 DEF TicketMoves

\* What a call or a sweep does to the statuses of one order's lines.
LEMMA StatusesMove ==
  ASSUME TypeOK, NEW q \in Orders,
         \/ UNCHANGED vars \/ BatchExpireReservations
         \/ \E p \in Orders : Reserve(p, Classes) \/ (Confirm(p) /\ Paid(p)) \/ Release(p) \/ Lapse(p)
  PROVE  LET S == Statuses(q)
             T == Statuses(q)' IN
         \/ T = S
         \/ S = {} /\ T \subseteq {"ACTIVE"}
         \/ S # {} /\ S \subseteq {"ACTIVE", "EXPIRED"} /\ T = {"CONFIRMED"} /\ Paid(q)
         \/ "ACTIVE" \in S /\ "CONFIRMED" \notin S /\ T = (S \ {"ACTIVE"}) \cup {"CANCELLED"}
         \/ /\ "ACTIVE" \in S /\ S \ {"ACTIVE"} \subseteq T /\ "EXPIRED" \in T
            /\ T \subseteq S \cup {"EXPIRED"}
<1> DEFINE S == Statuses(q)
           T == Statuses(q)'
<1>1. CASE row'[q] = row[q]
  BY <1>1 DEF Statuses, Rows
<1>2. CASE UNCHANGED vars \/ \E p \in Orders : Lapse(p) \/ (p # q /\ (Reserve(p, Classes) \/ Confirm(p) \/ Release(p)))
  BY <1>1, <1>2 DEF vars, Lapse, Reserve, Confirm, Release, TypeOK
<1>3. CASE Reserve(q, Classes)
  <2>1. S = {}
    BY <1>3 DEF Reserve, CanReserve, Statuses
  <2>2. \A c \in Classes : row'[q][c] = IF c \in Ids(q) THEN "ACTIVE" ELSE "none"
    BY <1>3 DEF Reserve, TypeOK
  <2>3. \A c \in Rows(q)' : row'[q][c] = "ACTIVE"
    BY <2>2 DEF Rows
  <2>4. T \subseteq {"ACTIVE"}
    BY <2>3 DEF Statuses
  <2>. QED  BY <2>1, <2>4
<1>4. CASE Confirm(q) /\ Paid(q)
  <2>1. Rows(q) # {} /\ S \subseteq {"ACTIVE", "EXPIRED"}
    BY <1>4 DEF Confirm, CanConfirm, Confirmable
  <2>2. \A c \in Classes : row'[q][c] = IF c \in Rows(q) THEN "CONFIRMED" ELSE "none"
    BY <1>4 DEF Confirm, TypeOK
  <2>3. Rows(q)' = Rows(q)
    BY <2>2 DEF Rows
  <2>4. S # {} /\ T = {"CONFIRMED"}
    <3>1. PICK c \in Rows(q) : TRUE
      BY <2>1
    <3>2. \A d \in Rows(q)' : row'[q][d] = "CONFIRMED"
      BY <2>2, <2>3 DEF Rows
    <3>3. row[q][c] \in S
      BY <3>1 DEF Statuses
    <3>4. T = {"CONFIRMED"}
      BY <2>3, <3>1, <3>2 DEF Statuses
    <3>. QED  BY <3>3, <3>4
  <2>. QED  BY <1>4, <2>1, <2>4
<1>5. CASE Release(q)
  <2>1. "ACTIVE" \in S /\ "CONFIRMED" \notin S
    BY <1>5 DEF Release, CanRelease, Releasable
  <2>2. \A c \in Classes : row'[q][c] = IF row[q][c] = "ACTIVE" THEN "CANCELLED" ELSE row[q][c]
    BY <1>5 DEF Release, TypeOK
  <2>3. Rows(q)' = Rows(q)
    BY <2>2 DEF Rows
  <2>4. T = {IF row[q][c] = "ACTIVE" THEN "CANCELLED" ELSE row[q][c] : c \in Rows(q)}
    BY <2>2, <2>3 DEF Statuses, Rows
  <2>5. T = (S \ {"ACTIVE"}) \cup {"CANCELLED"}
    BY <2>1, <2>4 DEF Statuses
  <2>. QED  BY <2>1, <2>5
<1>6. CASE BatchExpireReservations
  <2>1. \A c \in Classes : row'[q][c] = row[q][c] \/ (row[q][c] = "ACTIVE" /\ row'[q][c] = "EXPIRED")
    BY <1>6 DEF BatchExpireReservations, Expire, Overdue
  <2>2. Rows(q)' = Rows(q)
    BY <2>1 DEF Rows
  <2>3. S \ {"ACTIVE"} \subseteq T /\ T \subseteq S \cup {"EXPIRED"}
    BY <2>1, <2>2 DEF Statuses, Rows
  <2>4. CASE \E c \in Rows(q) : row'[q][c] # row[q][c]
    BY <2>1, <2>2, <2>3, <2>4 DEF Statuses, Rows
  <2>5. CASE \A c \in Rows(q) : row'[q][c] = row[q][c]
    BY <2>2, <2>5 DEF Statuses
  <2>. QED  BY <2>4, <2>5
<1>. QED  BY <1>2, <1>3, <1>4, <1>5, <1>6

\* So lines stay settled together and the tickets move as promised.
LEMMA TicketsMove ==
  ASSUME TypeOK, SettledTogether,
         \/ UNCHANGED vars \/ BatchExpireReservations
         \/ \E p \in Orders : Reserve(p, Classes) \/ (Confirm(p) /\ Paid(p)) \/ Release(p) \/ Lapse(p)
  PROVE  SettledTogether' /\ \A q \in Orders : TicketMoves(q)
<1> SUFFICES ASSUME NEW q \in Orders
             PROVE  /\ "CONFIRMED" \in Statuses(q)' => Statuses(q)' = {"CONFIRMED"}
                    /\ "CANCELLED" \in Statuses(q)' => "ACTIVE" \notin Statuses(q)'
                    /\ TicketMoves(q)
  BY DEF SettledTogether
<1> DEFINE S == Statuses(q)
           T == Statuses(q)'
<1>1. /\ "CONFIRMED" \in S => S = {"CONFIRMED"}
      /\ "CANCELLED" \in S => "ACTIVE" \notin S
  BY DEF SettledTogether
<1>2. \/ T = S
      \/ S = {} /\ T \subseteq {"ACTIVE"}
      \/ S # {} /\ S \subseteq {"ACTIVE", "EXPIRED"} /\ T = {"CONFIRMED"} /\ Paid(q)
      \/ "ACTIVE" \in S /\ "CONFIRMED" \notin S /\ T = (S \ {"ACTIVE"}) \cup {"CANCELLED"}
      \/ /\ "ACTIVE" \in S /\ S \ {"ACTIVE"} \subseteq T /\ "EXPIRED" \in T
         /\ T \subseteq S \cup {"EXPIRED"}
  BY StatusesMove
<1>3. /\ "CONFIRMED" \in T => T = {"CONFIRMED"}
      /\ "CANCELLED" \in T => "ACTIVE" \notin T
  BY <1>1, <1>2
<1>4. /\ S = {} => TicketsOf(q) = "none"
      /\ S = {"CONFIRMED"} => TicketsOf(q) = "sold"
      /\ "CANCELLED" \in S /\ "CONFIRMED" \notin S => TicketsOf(q) = "returned"
      /\ S = {"EXPIRED"} => TicketsOf(q) = "lapsed"
      /\ S # {} /\ S # {"EXPIRED"} /\ S \cap {"CONFIRMED", "CANCELLED"} = {} => TicketsOf(q) = "held"
  BY DEF TicketsOf
<1>5. /\ T = {} => TicketsOf(q)' = "none"
      /\ T = {"CONFIRMED"} => TicketsOf(q)' = "sold"
      /\ "CANCELLED" \in T /\ "CONFIRMED" \notin T => TicketsOf(q)' = "returned"
      /\ T = {"EXPIRED"} => TicketsOf(q)' = "lapsed"
      /\ T # {} /\ T # {"EXPIRED"} /\ T \cap {"CONFIRMED", "CANCELLED"} = {} => TicketsOf(q)' = "held"
  BY DEF TicketsOf
<1>6. TicketsOf(q)' = TicketsOf(q) \/ T # S
  BY DEF TicketsOf
<1>7. CASE S = {} /\ T \subseteq {"ACTIVE"}
  BY <1>4, <1>5, <1>6, <1>7 DEF TicketMoves
<1>8. CASE S # {} /\ S \subseteq {"ACTIVE", "EXPIRED"} /\ T = {"CONFIRMED"} /\ Paid(q)
  <2>1. TicketsOf(q) \in {"held", "lapsed"}
    BY <1>4, <1>8
  <2>. QED  BY <1>5, <1>8, <2>1 DEF TicketMoves
<1>9. CASE "ACTIVE" \in S /\ "CONFIRMED" \notin S /\ T = (S \ {"ACTIVE"}) \cup {"CANCELLED"}
  <2>1. TicketsOf(q) = "held"
    BY <1>1, <1>4, <1>9
  <2>2. "CANCELLED" \in T /\ "CONFIRMED" \notin T
    BY <1>9
  <2>3. TicketsOf(q)' = "returned"
    BY <1>5, <2>2
  <2>. QED  BY <1>3, <2>1, <2>3 DEF TicketMoves
<1>10. CASE "ACTIVE" \in S /\ S \ {"ACTIVE"} \subseteq T /\ "EXPIRED" \in T /\ T \subseteq S \cup {"EXPIRED"}
  <2>1. TicketsOf(q) = "held"
    BY <1>1, <1>4, <1>10
  <2>2. T # {} /\ T \cap {"CONFIRMED", "CANCELLED"} = {}
    BY <1>1, <1>10
  <2>3. TicketsOf(q)' \in {"held", "lapsed"}
    BY <1>5, <2>2
  <2>. QED  BY <1>3, <2>1, <2>3 DEF TicketMoves
<1>. QED  BY <1>2, <1>3, <1>6, <1>7, <1>8, <1>9, <1>10 DEF TicketMoves

\* Every step of the saga is one of the two.
OnPaper == row' = row /\ \A q \in Orders : PaperMoves(q)

OnTickets ==
  /\ UNCHANGED <<order, pay, told>>
  /\ \/ UNCHANGED vars \/ BatchExpireReservations
     \/ \E p \in Orders : Reserve(p, Classes) \/ (Confirm(p) /\ Paid(p)) \/ Release(p) \/ Lapse(p)

\* A write of one order's status, and of nothing else.
LEMMA StatusOnPaper ==
  ASSUME SagaTypeOK, NEW o \in Orders, NEW st \in OrderStatus, SetStatus(o, st),
         UNCHANGED <<vars, pay, told>>,
         \/ order[o].status = "none" /\ st = "PENDING"
         \/ order[o].status \notin {"COMPLETED", "REFUND_REQUIRED"} /\
               \/ st \in {"CANCELLED", "PAYMENT_FAILED", "TIMEOUT"}
               \/ st = "COMPLETED" /\ TicketsOf(o) = "sold"
               \/ st = "REFUND_REQUIRED" /\ Paid(o)
  PROVE  OnPaper
<1>1. \A q \in Orders : order'[q].status = IF q = o THEN st ELSE order[q].status
  BY StatusMoves
<1>2. row' = row /\ \A q \in Orders : UNCHANGED <<Paid(q), Announced(q)>>
  BY DEF vars, Paid, Announced
<1>3. \A q \in Orders \ {o} : StatusOf(q)' = StatusOf(q)
  BY <1>1 DEF StatusOf
<1>4. order[o].status \in OrderStatus
  BY DEF SagaTypeOK
<1>5. \/ StatusOf(o)' = StatusOf(o)
      \/ StatusOf(o) = "open" /\ StatusOf(o)' = "closed"
      \/ StatusOf(o) \in {"open", "closed"} /\ StatusOf(o)' = "completed" /\ TicketsOf(o) = "sold"
      \/ StatusOf(o) \in {"open", "closed"} /\ StatusOf(o)' = "refund" /\ Paid(o)
  BY <1>1, <1>4 DEF StatusOf, OrderStatus, Terminal
<1>6. \A q \in Orders : PaperMoves(q)
  BY <1>2, <1>3, <1>5 DEF PaperMoves
<1>. QED  BY <1>2, <1>6 DEF OnPaper

\* An event other than the completion.
LEMMA ToldOnPaper ==
  ASSUME SagaTypeOK, NEW o \in Orders, NEW what \in {"refund", "expired", "failed"},
         told' = told \/ Tell(o, what), UNCHANGED <<vars, order, pay>>
  PROVE  OnPaper
<1>1. \A q \in Orders : Announced(q)' = Announced(q)
  BY DEF Tell, Announced, SagaTypeOK
<1>2. row' = row /\ \A q \in Orders : UNCHANGED <<StatusOf(q), Paid(q)>>
  BY DEF vars, StatusOf, Paid
<1>. QED  BY <1>1, <1>2 DEF OnPaper, PaperMoves

LEMMA CreateOrderKinds ==
  ASSUME SaleInv, NEW o \in Orders, CreateOrder(o)
  PROVE  OnPaper \/ OnTickets
<1>1. SagaTypeOK
  BY DEF SaleInv, SagaInv
<1>2. CASE UNCHANGED <<vars, order, pay, told>>
  BY <1>2 DEF OnTickets
<1>3. ASSUME NEW b \in BOOLEAN, SagaReserve(o, b) \/ SagaUndoHold(o, b) PROVE OnTickets
  BY <1>3 DEF SagaReserve, SagaUndoHold, CallRelease, rest, OnTickets
<1>4. ASSUME NEW b \in BOOLEAN, SagaRow(o, b) PROVE OnPaper \/ OnTickets
  <2>1. "PENDING" \in OrderStatus
    BY DEF OrderStatus
  <2>2. CASE order[o].status = "none"
    BY <1>1, <1>4, <2>1, <2>2, StatusOnPaper DEF SagaRow, SetStatus
  <2>3. CASE order[o].status # "none"
    BY <1>4, <2>3 DEF SagaRow, OnTickets
  <2>. QED  BY <2>2, <2>3
<1>5. ASSUME NEW b \in BOOLEAN, SagaIntent(o, b) PROVE OnPaper
  <2>1. \A q \in Orders : Paid(q)' = Paid(q)
    BY <1>1, <1>5 DEF SagaIntent, Paid, SagaTypeOK
  <2>2. row' = row /\ \A q \in Orders : UNCHANGED <<StatusOf(q), Announced(q)>>
    BY <1>5 DEF SagaIntent, vars, StatusOf, Announced
  <2>. QED  BY <2>1, <2>2 DEF OnPaper, PaperMoves
<1>6. ASSUME NEW b \in BOOLEAN, SagaUndoRow(o, b) PROVE OnPaper
  <2>1. \A q \in Orders : order'[q].status = order[q].status
    BY <1>1, <1>6 DEF SagaUndoRow, SagaTypeOK
  <2>2. row' = row /\ \A q \in Orders : UNCHANGED <<StatusOf(q), Paid(q), Announced(q)>>
    BY <1>6, <2>1 DEF SagaUndoRow, vars, StatusOf, Announced, Paid
  <2>. QED  BY <2>2 DEF OnPaper, PaperMoves
<1>7. SagaItems(o) \/ SagaUndoItems(o) \/ SagaStepFails(o) => UNCHANGED <<vars, order, pay, told>>
  BY DEF SagaItems, SagaUndoItems, SagaStepFails, rest
<1>. QED  BY <1>2, <1>3, <1>4, <1>5, <1>6, <1>7 DEF CreateOrder

LEMMA ConfirmOrderKinds ==
  ASSUME SaleInv, NEW o \in Orders, ConfirmOrder(o)
  PROVE  OnPaper \/ OnTickets
<1>1. SagaTypeOK /\ MoneyInv /\ CompletedFirst /\ {"COMPLETED", "REFUND_REQUIRED"} \subseteq OrderStatus
  BY DEF SaleInv, SagaInv, OrderStatus, Terminal
<1>2. at[o].confirm # "idle" => Paid(o)
  BY <1>1 DEF MoneyInv, OnePayment, Paid
<1>3. ASSUME NEW b \in BOOLEAN, ConfirmInventory(o, b) PROVE OnTickets
  <2>1. Paid(o)
    BY <1>2, <1>3 DEF ConfirmInventory, At
  <2>. QED  BY <1>3, <2>1 DEF ConfirmInventory, CallConfirm, rest, OnTickets
<1>4. CASE ConfirmComplete(o)
  <2>1. AllPaid(o) /\ order[o].status \notin {"COMPLETED", "REFUND_REQUIRED"}
    BY <1>1, <1>4 DEF ConfirmComplete, At, MoneyInv, SalesAreReal, OpenWhileDeciding
  <2>2. TicketsOf(o) = "sold"
    BY <2>1 DEF AllPaid, TicketsOf
  <2>. QED  BY <1>1, <1>4, <2>1, <2>2, StatusOnPaper DEF ConfirmComplete
<1>5. ASSUME NEW b \in BOOLEAN, ConfirmTell(o, b) PROVE OnPaper \/ OnTickets
  <2>1. StatusOf(o) = "completed"
    BY <1>1, <1>5 DEF ConfirmTell, At, CompletedFirst, StatusOf
  <2>2. UNCHANGED <<vars, order, pay>> /\ (told' = told \/ Tell(o, "completed"))
    BY <1>5 DEF ConfirmTell
  <2>3. row' = row /\ \A q \in Orders : UNCHANGED <<StatusOf(q), Paid(q)>>
    BY <2>2 DEF vars, StatusOf, Paid
  <2>4. CASE Tell(o, "completed")
    <3>1. Announced(o)' /\ \A q \in Orders \ {o} : Announced(q)' = Announced(q)
      BY <1>1, <2>4 DEF Tell, Announced, SagaTypeOK
    <3>. QED  BY <2>1, <2>3, <3>1 DEF OnPaper, PaperMoves
  <2>. QED  BY <2>2, <2>4 DEF OnTickets
<1>6. ASSUME NEW b \in BOOLEAN, RefundMark(o, b) PROVE OnPaper \/ OnTickets
  <2>1. Paid(o) /\ order[o].status \notin {"COMPLETED", "REFUND_REQUIRED"}
    BY <1>1, <1>2, <1>6 DEF RefundMark, At, MoneyInv, OpenWhileDeciding
  <2>2. UNCHANGED <<vars, pay, told>> /\ (order' = order \/ SetStatus(o, "REFUND_REQUIRED"))
    BY <1>6 DEF RefundMark
  <2>3. CASE SetStatus(o, "REFUND_REQUIRED")
    BY <1>1, <2>1, <2>2, <2>3, StatusOnPaper
  <2>. QED  BY <2>2, <2>3 DEF OnTickets
<1>7. ASSUME NEW b \in BOOLEAN, RefundTell(o, b) PROVE OnPaper
  BY <1>1, <1>7, ToldOnPaper DEF RefundTell
<1>8. (ConfirmStart(o) \/ ConfirmFails(o) \/ \E b \in BOOLEAN : ConfirmSlot(o, b) \/ RefundSlot(o, b))
        => OnTickets
  BY DEF ConfirmStart, ConfirmFails, ConfirmSlot, RefundSlot, rest, OnTickets
<1>. QED  BY <1>3, <1>4, <1>5, <1>6, <1>7, <1>8 DEF ConfirmOrder

LEMMA EndingKinds ==
  ASSUME SaleInv, NEW o \in Orders, ExpireOrder(o) \/ Cancel(o) \/ HandlePaymentFailed(o)
  PROVE  OnPaper \/ OnTickets
<1>1. SagaTypeOK /\ MoneyInv /\ {"CANCELLED", "PAYMENT_FAILED", "TIMEOUT"} \subseteq OrderStatus
  BY DEF SaleInv, SagaInv, OrderStatus, Terminal
<1>2. ASSUME NEW st \in {"CANCELLED", "TIMEOUT"}, LeavePending(o, st), UNCHANGED <<vars, pay, told>>
      PROVE  OnPaper \/ OnTickets
  BY <1>1, <1>2, StatusOnPaper DEF LeavePending, OnTickets
<1>3. CASE ClockFires(o) \/ \E b \in BOOLEAN : CancelFlip(o, b)
  BY <1>2, <1>3 DEF ClockFires, CancelFlip
<1>4. ASSUME NEW b \in BOOLEAN, ClockRelease(o, b) \/ CancelRelease(o, b) \/ FailRelease(o, b) PROVE OnTickets
  BY <1>4 DEF ClockRelease, CancelRelease, FailRelease, CallRelease, rest, OnTickets
<1>5. ASSUME NEW b \in BOOLEAN, ClockTell(o, b) \/ CancelTell(o, b) \/ FailTell(o, b) PROVE OnPaper
  BY <1>1, <1>5, ToldOnPaper DEF ClockTell, CancelTell, FailTell
<1>6. CASE ClockFails(o) \/ FailMarkFails(o) \/ \E b \in BOOLEAN : ClockSlot(o, b)
  BY <1>6 DEF ClockFails, FailMarkFails, ClockSlot, rest, OnTickets
<1>7. CASE FailMark(o)
  <2>1. order[o].status \notin {"COMPLETED", "REFUND_REQUIRED"}
    BY <1>1, <1>7 DEF FailMark, At, MoneyInv, OnePayment
  <2>2. UNCHANGED <<vars, pay, told>> /\ (order' = order \/ SetStatus(o, "PAYMENT_FAILED"))
    BY <1>7 DEF FailMark
  <2>3. CASE SetStatus(o, "PAYMENT_FAILED")
    BY <1>1, <2>1, <2>2, <2>3, StatusOnPaper
  <2>. QED  BY <2>2, <2>3 DEF OnTickets
<1>. QED  BY <1>3, <1>4, <1>5, <1>6, <1>7 DEF ExpireOrder, Cancel, HandlePaymentFailed

LEMMA StepKinds ==
  ASSUME SaleInv, [SagaNext]_sagaVars
  PROVE  OnPaper \/ OnTickets
<1>1. SagaTypeOK
  BY DEF SaleInv, SagaInv
<1>2. ASSUME NEW o \in Orders, Request(o) PROVE OnTickets
  BY <1>2 DEF Request, OnTickets, ClaimWon, ClaimLost, ResumeUnwritten, ResumeTerminal, ResumeLive,
              StartSaga, AnswerFailed, PrepareFails, AnswerCreated, GiveUp, Crash, rest
<1>3. ASSUME NEW o \in Orders, NEW outcome \in Outcomes, PaymentEnds(o, outcome) PROVE OnPaper
  <2>1. UNCHANGED <<vars, order, told>> /\ pay[o] = "PENDING" /\ pay' = [pay EXCEPT ![o] = outcome]
    BY <1>3 DEF PaymentEnds
  <2>2. row' = row /\ \A q \in Orders : UNCHANGED <<StatusOf(q), Announced(q)>>
    BY <2>1 DEF vars, StatusOf, Announced
  <2>3. \A q \in Orders : q # o => Paid(q)' = Paid(q)
    BY <1>1, <2>1 DEF Paid, SagaTypeOK
  <2>4. Paid(o)' = Paid(o) \/ (~ Paid(o) /\ Paid(o)')
    BY <2>1 DEF Paid
  <2>5. \A q \in Orders : PaperMoves(q)
    BY <2>2, <2>3, <2>4 DEF PaperMoves
  <2>. QED  BY <2>2, <2>5 DEF OnPaper
<1>4. CASE Inventories
  BY <1>4 DEF Inventories, OnTickets, rest
<1>5. ASSUME NEW b \in Buyers, Age(b) PROVE OnTickets
  BY <1>5 DEF Age, OnTickets, rest
<1>6. CASE UNCHANGED sagaVars
  BY <1>6 DEF sagaVars, vars, OnTickets
<1>. QED
  BY <1>2, <1>3, <1>4, <1>5, <1>6, CreateOrderKinds, ConfirmOrderKinds, EndingKinds DEF SagaNext

\* The completion is written before ConfirmOrder goes on to free the slot and tell.
LEMMA CompletedFirstStays ==
  ASSUME SaleInv, [SagaNext]_sagaVars
  PROVE  CompletedFirst'
<1>1. SagaTypeOK /\ CompletedFirst /\ Final /\ at \in [Orders -> Process]
      /\ TypeOK /\ TypeOK'
  BY SagaNextInv DEF SaleInv, SagaInv, SagaTypeOK, LedgerInv
<1>2. CASE \A q \in Orders : at'[q].confirm = at[q].confirm
  BY <1>1, <1>2 DEF CompletedFirst, Final
<1>3. CASE Quiet
  BY <1>2, <1>3 DEF Quiet, MoneyAt
<1>4. ASSUME NEW o \in Orders, Request(o) \/ CreateOrder(o) \/ ExpireOrder(o) \/ Cancel(o) PROVE Quiet
  BY <1>1, <1>4, RequestIsQuiet, CreateOrderIsQuiet, ExpireOrderIsQuiet, CancelIsQuiet
<1>5. ASSUME NEW o \in Orders, HandlePaymentFailed(o) PROVE \A q \in Orders : at'[q].confirm = at[q].confirm
  <2>1. \E s \in {"idle", "mark", "tell"} : Goto(o, "fail", s)
    BY <1>5 DEF HandlePaymentFailed, FailRelease, FailTell, FailMark, FailMarkFails
  <2>. QED  BY <1>1, <2>1, FailMoves
<1>6. ASSUME NEW o \in Orders, ConfirmOrder(o) PROVE CompletedFirst'
  <2>1. CASE ConfirmComplete(o)
    <3>1. \A q \in Orders : at'[q].confirm = IF q = o THEN "slot" ELSE at[q].confirm
      BY <1>1, <2>1, ConfirmMoves DEF ConfirmComplete
    <3>2. "COMPLETED" \in OrderStatus
      BY DEF OrderStatus
    <3>3. \A q \in Orders : order'[q].status = IF q = o THEN "COMPLETED" ELSE order[q].status
      BY <1>1, <2>1, <3>2, StatusMoves DEF ConfirmComplete
    <3>. QED  BY <1>1, <3>1, <3>3 DEF CompletedFirst
  <2>2. CASE \E b \in BOOLEAN : ConfirmSlot(o, b)
    <3>1. Goto(o, "confirm", "tell") /\ at[o].confirm = "slot"
      BY <2>2 DEF ConfirmSlot, At
    <3>2. \A q \in Orders : at'[q].confirm = IF q = o THEN "tell" ELSE at[q].confirm
      BY <1>1, <3>1, ConfirmMoves
    <3>. QED  BY <1>1, <3>1, <3>2 DEF CompletedFirst, Final
  <2>3. CASE ConfirmStart(o) /\ at' = at
    BY <1>2, <2>3
  <2>4. CASE \E s \in {"idle", "inventory", "complete", "refund", "refundTell", "refundSlot"} : Goto(o, "confirm", s)
    <3>1. PICK s \in {"idle", "inventory", "complete", "refund", "refundTell", "refundSlot"} :
             Goto(o, "confirm", s)
      BY <2>4
    <3>2. \A q \in Orders : at'[q].confirm = IF q = o THEN s ELSE at[q].confirm
      BY <1>1, <3>1, ConfirmMoves
    <3>. QED  BY <1>1, <3>1, <3>2 DEF CompletedFirst, Final
  <2>5. ConfirmStart(o) => at' = at \/ \E s \in {"inventory", "refund"} : Goto(o, "confirm", s)
    BY DEF ConfirmStart
  <2>6. ASSUME NEW b \in BOOLEAN, ConfirmInventory(o, b)
        PROVE  \E s \in {"inventory", "complete", "refund"} : Goto(o, "confirm", s)
    BY <2>6, ConfirmReplies DEF ConfirmInventory
  <2>7. ConfirmFails(o) \/ (\E b \in BOOLEAN : ConfirmTell(o, b) \/ RefundMark(o, b) \/ RefundTell(o, b) \/ RefundSlot(o, b))
          => \E s \in {"idle", "refundTell", "refundSlot"} : Goto(o, "confirm", s)
    BY DEF ConfirmFails, ConfirmTell, RefundMark, RefundTell, RefundSlot
  <2>. QED  BY <1>6, <2>1, <2>2, <2>3, <2>4, <2>5, <2>6, <2>7 DEF ConfirmOrder
<1>7. ASSUME NEW o \in Orders, NEW outcome \in Outcomes, PaymentEnds(o, outcome) PROVE at' = at
  BY <1>7 DEF PaymentEnds
<1>8. (\E b \in Buyers : Age(b)) \/ Inventories \/ UNCHANGED sagaVars => at' = at
  BY DEF Age, Inventories, sagaVars
<1>. QED  BY <1>2, <1>3, <1>4, <1>5, <1>6, <1>7, <1>8 DEF SagaNext

LEMMA SaleNextInv == SaleInv /\ [SagaNext]_sagaVars => SaleInv' /\ Promise!SaleNext
<1> SUFFICES ASSUME SaleInv, [SagaNext]_sagaVars PROVE SaleInv' /\ Promise!SaleNext
  OBVIOUS
<1>1. SagaInv' /\ CompletedFirst'
  BY SagaNextInv, CompletedFirstStays DEF SaleInv
<1>2. CASE OnPaper
  <2>1. SettledTogether'
    BY <1>2 DEF OnPaper, SaleInv, SettledTogether, Statuses, Rows
  <2>. QED  BY <1>1, <1>2, <2>1, PaperStep DEF OnPaper, SaleInv
<1>3. CASE OnTickets
  <2>1. TypeOK /\ SettledTogether
    BY DEF SaleInv, SagaInv, LedgerInv
  <2>2. SettledTogether' /\ \A q \in Orders : TicketMoves(q)
    BY <1>3, <2>1, TicketsMove DEF OnTickets
  <2>. QED  BY <1>1, <1>3, <2>2, TicketStep DEF OnTickets, SaleInv
<1>. QED  BY <1>2, <1>3, StepKinds

LEMMA SaleInitInv == SagaInit => SaleInv /\ Promise!SaleInit
<1> SUFFICES ASSUME SagaInit PROVE SaleInv /\ Promise!SaleInit
  OBVIOUS
<1>1. \A o \in Orders : Statuses(o) = {} /\ at[o].confirm = "idle" /\ order[o].status = "none"
                        /\ pay[o] = "none" /\ told[o] = {}
  BY DEF SagaInit, Idle, Statuses, Rows
<1>2. SaleInv
  BY <1>1, SagaInitInv DEF SaleInv, SettledTogether, CompletedFirst
<1>3. \A o \in Orders : TicketsOf(o) = "none" /\ StatusOf(o) = "open"
  BY <1>1 DEF TicketsOf, StatusOf
<1>4. \A o \in Orders : (pay[o] = "COMPLETED") = FALSE /\ ("completed" \in told[o]) = FALSE
  BY <1>1
<1>5. Promise!SaleInit
  BY <1>3, <1>4 DEF Promise!SaleInit
<1>. QED  BY <1>2, <1>5

\* The sagas, the payment, the clock and the expiry worker together implement the
\* promise of a sale: whatever is lost, retried, cancelled or late, tickets are sold
\* to a payment only and for good, an order is completed after its tickets are sold
\* and announced after it is completed, and a refund is owed only for what was paid.
THEOREM SagasImplementSale == SagaSpec => ImplementsSale
<1>1. SaleInv /\ [SagaNext]_sagaVars => SaleInv' /\ Promise!SaleNext
  BY SaleNextInv
<1>2. SagaInit => SaleInv /\ Promise!SaleInit
  BY SaleInitInv
<1>. QED  BY <1>1, <1>2, PTL DEF SagaSpec, ImplementsSale, Promise!SaleSpec

-----------------------------------------------------------------------------
(***************************************************************************)
(* One checkout per buyer.  The slot is given up early by a caller who     *)
(* does not wait, and by a start whose answer was lost; what is shown is   *)
(* that nothing else does it.                                              *)
(***************************************************************************)

Active(o) == At(o, "call", "claimed") \/ MayBePaid(o)

\* How far an order of which no step failed may be.
Smooth(o) ==
  /\ at[o].asked = "no" /\ at[o].saga \notin {"undoItems", "undoRow", "undoHold"}
  /\ at[o].call \in {"new", "claimed", "resume"} => at[o].saga = "none"
  /\ at[o].saga \in {"none", "reserve", "row", "failed"} => order[o].status = "none"
  /\ at[o].confirm \in {"inventory", "complete", "refund"} => order[o].status # "none"
  /\ at[o].confirm \in {"slot", "tell"} => order[o].status = "COMPLETED"
  /\ at[o].confirm \in {"refundTell", "refundSlot"} => order[o].status = "REFUND_REQUIRED"
  /\ at[o].clock \in {"release", "slot"} => order[o].status \notin {"none", "PENDING"}
  /\ at[o].call = "resume" => BuyerOf[at[o].held] = BuyerOf[o]

\* A slot names an order of its buyer, one that is not being written once the
\* settle window is over; an order in the making is named by the slot.
SlotInv ==
  /\ \A o \in Orders : Smooth(o)
  /\ \A b \in Buyers : slot[b] # Free =>
       BuyerOf[slot[b]] = b /\ (b \in aged => ~ CreateMayStillWrite(slot[b]))
  /\ \A o \in Orders : Active(o) => slot[BuyerOf[o]] = o

\* A process that moves leaves the others of its order, and all other orders, alone.
LEMMA FieldGoes ==
  ASSUME at \in [Orders -> Process], NEW o \in Orders, NEW s,
         NEW p \in {"call", "saga", "confirm", "clock", "cancel", "fail"}, Goto(o, p, s)
  PROVE  /\ \A q \in Orders : q # o => at'[q] = at[q]
         /\ at'[o].held = at[o].held /\ at'[o].asked = at[o].asked
         /\ at'[o].call = IF p = "call" THEN s ELSE at[o].call
         /\ at'[o].saga = IF p = "saga" THEN s ELSE at[o].saga
         /\ at'[o].confirm = IF p = "confirm" THEN s ELSE at[o].confirm
         /\ at'[o].clock = IF p = "clock" THEN s ELSE at[o].clock
<1>1. at[o] \in Process /\ (\A q \in Orders : q # o => at'[q] = at[q]) /\ at'[o] = [at[o] EXCEPT ![p] = s]
  BY DEF Goto
<1> HIDE DEF Goto
<1>2. CASE p = "call"
  BY <1>1, <1>2 DEF Process
<1>3. CASE p = "saga"
  BY <1>1, <1>3 DEF Process
<1>4. CASE p = "confirm"
  BY <1>1, <1>4 DEF Process
<1>5. CASE p = "clock"
  BY <1>1, <1>5 DEF Process
<1>6. CASE p = "cancel"
  BY <1>1, <1>6 DEF Process
<1>7. CASE p = "fail"
  BY <1>1, <1>7 DEF Process
<1>. QED  BY <1>2, <1>3, <1>4, <1>5, <1>6, <1>7

\* A step about one order that takes no slot, and frees one only of an order that
\* is not in the making.
LEMMA SlotMoves ==
  ASSUME SagaTypeOK, SlotInv, NEW o \in Orders,
         \A q \in Orders : q # o => at'[q] = at[q] /\ order'[q] = order[q],
         Smooth(o)', aged' = aged, Active(o)' => Active(o),
         CreateMayStillWrite(o)' => CreateMayStillWrite(o),
         slot' = slot \/ \E w \in Orders : FreeSlot(w) /\ (~ Active(w) \/ (w = o /\ ~ Active(o)'))
  PROVE  SlotInv'
<1>1. \A q \in Orders : q # o => /\ Smooth(q)' <=> Smooth(q)
                                 /\ Active(q)' <=> Active(q)
                                 /\ CreateMayStillWrite(q)' <=> CreateMayStillWrite(q)
  BY DEF Smooth, Active, MayBePaid, Is, Visible, At, CreateMayStillWrite
<1>2. \A b \in Buyers : slot'[b] = slot[b] \/ (slot'[b] = Free /\ \E w \in Orders : slot[b] = w /\ ~ Active(w)')
  <2>1. CASE slot' = slot
    BY <2>1
  <2>2. ASSUME NEW w \in Orders, FreeSlot(w), ~ Active(w) \/ (w = o /\ ~ Active(o)')
        PROVE  \A b \in Buyers : slot'[b] = slot[b] \/ (slot'[b] = Free /\ slot[b] = w /\ ~ Active(w)')
    <3>1. ~ Active(w)'
      BY <1>1, <2>2
    <3>2. slot \in [Buyers -> Orders \cup {Free}] /\ BuyerOf[w] \in Buyers
      BY BuyerAssumption DEF SagaTypeOK
    <3>. QED  BY <2>2, <3>1, <3>2 DEF FreeSlot
  <2>. QED  BY <2>1, <2>2
<1>3. \A q \in Orders : Smooth(q)'
  BY <1>1 DEF SlotInv
<1>4. \A q \in Orders : /\ Active(q)' => Active(q)
                        /\ CreateMayStillWrite(q)' => CreateMayStillWrite(q)
  BY <1>1
<1>5. \A b \in Buyers : slot[b] \in Orders \cup {Free}
  BY DEF SagaTypeOK
<1>6. ASSUME NEW b \in Buyers, slot'[b] # Free
      PROVE  BuyerOf[slot'[b]] = b /\ (b \in aged' => ~ CreateMayStillWrite(slot[b])' /\ slot'[b] = slot[b])
  <2>1. slot'[b] = slot[b] /\ slot[b] \in Orders
    BY <1>2, <1>5, <1>6
  <2>2. BuyerOf[slot[b]] = b /\ (b \in aged => ~ CreateMayStillWrite(slot[b]))
    BY <1>6, <2>1 DEF SlotInv
  <2>3. b \in aged => ~ CreateMayStillWrite(slot[b])'
    <3> DEFINE w == slot[b]
    <3>1. \A q \in Orders : CreateMayStillWrite(q)' => CreateMayStillWrite(q)
      BY <1>4
    <3>. QED  BY <2>1, <2>2, <3>1 DEF CreateMayStillWrite, At
  <2>. QED  BY <2>1, <2>2, <2>3
<1>7. ASSUME NEW q \in Orders, Active(q)' PROVE slot'[BuyerOf[q]] = q
  <2>1. Active(q) /\ slot[BuyerOf[q]] = q /\ BuyerOf[q] \in Buyers
    BY <1>4, <1>7, BuyerAssumption DEF SlotInv
  <2>. QED  BY <1>2, <1>7, <2>1
<1>. QED  BY <1>3, <1>6, <1>7 DEF SlotInv

\* With no fault to come, every answer is heard.
LEMMA NoFault ==
  ASSUME MaxFaults = 0, SagaTypeOK
  PROVE  ~ Fault /\ \A b \in BOOLEAN : Heard(b) => b = TRUE
BY DEF SagaTypeOK, Fault, Heard

LEMMA RequestKeepsSlots ==
  ASSUME SagaTypeOK, SlotInv, MaxFaults = 0, ~ Impatient, NEW o \in Orders, Request(o)
  PROVE  SlotInv'
<1>1. at \in [Orders -> Process] /\ at[o] \in Process /\ Smooth(o) /\ BuyerOf[o] \in Buyers
      /\ slot \in [Buyers -> Orders \cup {Free}]
  BY BuyerAssumption DEF SagaTypeOK, SlotInv
<1>2. order' = order
  BY DEF Request, ClaimWon, ClaimLost, ResumeUnwritten, ResumeTerminal, ResumeLive, StartSaga, AnswerFailed,
         PrepareFails, AnswerCreated, GiveUp, Crash, rest
<1>3. ~ Fault /\ \A b \in BOOLEAN : Heard(b) => b = TRUE
  BY NoFault
<1> USE DEF At
<1>4. ASSUME NEW s, Goto(o, "call", s), s \in {"new", "claimed"} => at[o].saga = "none", s # "resume"
      PROVE  Smooth(o)' /\ (\A q \in Orders : q # o => at'[q] = at[q])
             /\ at'[o].call = s /\ at'[o].saga = at[o].saga
  <2>1. /\ \A q \in Orders : q # o => at'[q] = at[q]
        /\ at'[o].held = at[o].held /\ at'[o].asked = at[o].asked
        /\ at'[o].call = s /\ at'[o].saga = at[o].saga
        /\ at'[o].confirm = at[o].confirm /\ at'[o].clock = at[o].clock
    BY <1>1, <1>4, FieldGoes
  <2>. QED  BY <1>1, <1>2, <1>4, <2>1 DEF Smooth
<1>5. CASE ClaimWon(o)
  <2>1. /\ at[o].call = "new" /\ Goto(o, "call", "claimed")
        /\ slot[BuyerOf[o]] = Free /\ slot' = [slot EXCEPT ![BuyerOf[o]] = o] /\ aged' = aged \ {BuyerOf[o]}
    BY <1>5 DEF ClaimWon
  <2>2. Smooth(o)' /\ (\A q \in Orders : q # o => at'[q] = at[q]) /\ at'[o].call = "claimed"
    BY <1>1, <1>4, <2>1 DEF Smooth
  <2>3. \A q \in Orders : q # o => /\ Smooth(q)' <=> Smooth(q)
                                   /\ Active(q)' <=> Active(q)
                                   /\ CreateMayStillWrite(q)' <=> CreateMayStillWrite(q)
    BY <1>2, <2>2 DEF Smooth, Active, MayBePaid, Is, Visible, CreateMayStillWrite
  <2>4. \A q \in Orders : Smooth(q)'
    BY <2>2, <2>3 DEF SlotInv
  <2>5. \A b \in Buyers : slot'[b] = IF b = BuyerOf[o] THEN o ELSE slot[b]
    BY <1>1, <2>1
  <2>6. ASSUME NEW b \in Buyers, slot'[b] # Free
        PROVE  BuyerOf[slot'[b]] = b /\ (b \in aged' => ~ CreateMayStillWrite(slot[b])' /\ slot'[b] = slot[b])
    <3>1. CASE b = BuyerOf[o]
      BY <2>1, <2>5, <3>1
    <3>2. CASE b # BuyerOf[o]
      <4>1. slot'[b] = slot[b] /\ slot[b] \in Orders /\ BuyerOf[slot[b]] = b
            /\ (b \in aged => ~ CreateMayStillWrite(slot[b]))
        BY <1>1, <2>5, <2>6, <3>2 DEF SlotInv
      <4>2. slot[b] # o
        BY <3>2, <4>1
      <4>. QED  BY <2>1, <2>2, <4>1, <4>2 DEF CreateMayStillWrite
    <3>. QED  BY <3>1, <3>2
  <2>7. ASSUME NEW q \in Orders, Active(q)' PROVE slot'[BuyerOf[q]] = q
    <3>1. CASE q = o
      BY <1>1, <2>5, <3>1
    <3>2. CASE q # o
      <4>1. slot[BuyerOf[q]] = q /\ BuyerOf[q] \in Buyers /\ q # Free
        BY <2>3, <2>7, <3>2, BuyerAssumption, FreeAssumption DEF SlotInv
      <4>. QED  BY <2>1, <2>5, <4>1
    <3>. QED  BY <3>1, <3>2
  <2>. QED  BY <2>4, <2>6, <2>7 DEF SlotInv
<1>6. CASE ClaimLost(o)
  <2> DEFINE w == slot[BuyerOf[o]]
  <2>1. /\ at[o].call = "new" /\ w # Free /\ UNCHANGED <<slot, aged>>
        /\ at' = [at EXCEPT ![o].call = "resume", ![o].held = w]
    BY <1>6 DEF ClaimLost, front
  <2>2. BuyerOf[w] = BuyerOf[o]
    BY <1>1, <2>1 DEF SlotInv
  <2> HIDE DEF w
  <2>3. /\ \A q \in Orders : q # o => at'[q] = at[q]
        /\ at'[o] = [at[o] EXCEPT !.call = "resume", !.held = w]
    BY <1>1, <2>1
  <2>4. /\ at'[o].held = w /\ at'[o].asked = at[o].asked
        /\ at'[o].call = "resume" /\ at'[o].saga = at[o].saga
        /\ at'[o].confirm = at[o].confirm /\ at'[o].clock = at[o].clock
    BY <1>1, <2>3 DEF Process
  <2>5. Smooth(o)'
    BY <1>1, <1>2, <2>1, <2>2, <2>4 DEF Smooth
  <2>6. (Active(o)' => Active(o)) /\ (CreateMayStillWrite(o)' => CreateMayStillWrite(o))
    BY <1>2, <2>4 DEF Active, MayBePaid, Is, Visible, CreateMayStillWrite
  <2>. QED  BY <1>2, <2>1, <2>3, <2>5, <2>6, SlotMoves
<1>7. ASSUME NEW s \in {"over", "waiting", "new"}, Goto(o, "call", s), s = "new" => at[o].call = "resume",
             aged' = aged, slot' = slot \/ \E w \in Orders : FreeSlot(w) /\ ~ Active(w)
      PROVE  SlotInv'
  <2>1. Smooth(o)' /\ (\A q \in Orders : q # o => at'[q] = at[q]) /\ at'[o].call = s /\ at'[o].saga = at[o].saga
    BY <1>1, <1>4, <1>7 DEF Smooth
  <2>2. (Active(o)' => Active(o)) /\ (CreateMayStillWrite(o)' => CreateMayStillWrite(o))
    BY <1>2, <2>1 DEF Active, MayBePaid, Is, Visible, CreateMayStillWrite
  <2>. QED  BY <1>2, <1>7, <2>1, <2>2, SlotMoves
<1>8. CASE ResumeUnwritten(o)
  <2> DEFINE w == at[o].held
  <2>1. at[o].call = "resume" /\ w \in Orders /\ BuyerOf[w] = BuyerOf[o] /\ ~ Visible(w)
        /\ Goto(o, "call", "over") /\ aged' = aged
    BY <1>1, <1>8 DEF ResumeUnwritten, Process, Smooth
  <2>2. CASE BuyerOf[o] \in aged
    <3>1. FreeSlot(w)
      BY <1>8, <2>2 DEF ResumeUnwritten
    <3>2. CASE slot[BuyerOf[o]] = w
      <4>1. w # Free
        BY <2>1, FreeAssumption
      <4>2. ~ CreateMayStillWrite(w)
        BY <1>1, <2>2, <3>2, <4>1 DEF SlotInv
      <4>3. ~ Active(w)
        BY <2>1, <4>2 DEF Active, MayBePaid, Is, CreateMayStillWrite
      <4>. QED  BY <1>7, <2>1, <3>1, <4>3
    <3>3. CASE slot[BuyerOf[o]] # w
      <4>1. slot' = slot
        BY <1>1, <2>1, <3>1, <3>3 DEF FreeSlot
      <4>. QED  BY <1>7, <2>1, <4>1
    <3>. QED  BY <3>2, <3>3
  <2>3. CASE BuyerOf[o] \notin aged
    <3>1. slot' = slot
      BY <1>8, <2>3 DEF ResumeUnwritten
    <3>. QED  BY <1>7, <2>1, <3>1
  <2>. QED  BY <2>2, <2>3
<1>9. CASE ResumeTerminal(o)
  <2> DEFINE w == at[o].held
  <2>1. at[o].call = "resume" /\ w \in Orders /\ order[w].status \in Terminal /\ FreeSlot(w) /\ aged' = aged
    BY <1>1, <1>9 DEF ResumeTerminal, Process
  <2>2. PICK s \in {"new", "over"} : Goto(o, "call", s)
    BY <1>9 DEF ResumeTerminal
  <2>3. ~ Active(w)
    BY <2>1 DEF Active, MayBePaid, Is, SlotInv, Smooth, Terminal
  <2>. QED  BY <1>7, <2>1, <2>2, <2>3
<1>10. CASE ResumeLive(o)
  BY <1>7, <1>10 DEF ResumeLive, front
<1>11. ASSUME NEW c \in {"over", "waiting"}, NEW g \in {"none", "reserve"}, at[o].call = "claimed",
              at' = [at EXCEPT ![o].call = c, ![o].saga = g], aged' = aged,
              \/ slot' = slot
              \/ g = "none" /\ FreeSlot(o)
       PROVE  SlotInv'
  <2>1. /\ \A q \in Orders : q # o => at'[q] = at[q]
        /\ at'[o] = [at[o] EXCEPT !.call = c, !.saga = g]
    BY <1>1, <1>11
  <2>2. /\ at'[o].held = at[o].held /\ at'[o].asked = at[o].asked
        /\ at'[o].call = c /\ at'[o].saga = g
        /\ at'[o].confirm = at[o].confirm /\ at'[o].clock = at[o].clock
    BY <1>1, <2>1 DEF Process
  <2>3. Smooth(o)' /\ Active(o) /\ CreateMayStillWrite(o)
    BY <1>1, <1>2, <1>11, <2>2 DEF Smooth, Active, CreateMayStillWrite
  <2>4. CASE slot' = slot
    BY <1>2, <1>11, <2>1, <2>3, <2>4, SlotMoves
  <2>5. CASE g = "none" /\ FreeSlot(o)
    <3>1. ~ Active(o)'
      BY <1>1, <1>2, <1>11, <2>2, <2>5 DEF Active, MayBePaid, Is, Smooth
    <3>. QED  BY <1>2, <1>11, <2>1, <2>3, <2>5, <3>1, SlotMoves
  <2>. QED  BY <1>11, <2>4, <2>5
<1>12. ASSUME NEW b \in BOOLEAN, PrepareFails(o, b) PROVE SlotInv'
  <2>1. b = FALSE
    BY <1>3, <1>12 DEF PrepareFails
  <2>2. /\ at[o].call = "claimed" /\ at' = [at EXCEPT ![o].call = "over", ![o].saga = "none"]
        /\ aged' = aged /\ FreeSlot(o)
    BY <1>12, <2>1 DEF PrepareFails
  <2>. QED  BY <1>11, <2>2
<1>13. CASE StartSaga(o)
  BY <1>11, <1>13 DEF StartSaga, front
<1>14. ASSUME NEW b \in BOOLEAN, AnswerCreated(o, b) PROVE SlotInv'
  <2> DEFINE k == IF b THEN "set" ELSE "off"
  <2>1. at[o].call = "waiting" /\ UNCHANGED <<slot, aged>> /\ at' = [at EXCEPT ![o].call = "over", ![o].clock = k]
    BY <1>14 DEF AnswerCreated, front
  <2> HIDE DEF k
  <2>2. /\ \A q \in Orders : q # o => at'[q] = at[q]
        /\ at'[o] = [at[o] EXCEPT !.call = "over", !.clock = k]
    BY <1>1, <2>1
  <2>3. /\ at'[o].held = at[o].held /\ at'[o].asked = at[o].asked
        /\ at'[o].call = "over" /\ at'[o].saga = at[o].saga
        /\ at'[o].confirm = at[o].confirm /\ at'[o].clock = k
    BY <1>1, <2>2 DEF Process
  <2>4. k \notin {"release", "slot"}
    BY DEF k
  <2>5. Smooth(o)' /\ (Active(o)' => Active(o)) /\ (CreateMayStillWrite(o)' => CreateMayStillWrite(o))
    BY <1>1, <1>2, <2>1, <2>3, <2>4 DEF Smooth, Active, MayBePaid, Is, Visible, CreateMayStillWrite
  <2>. QED  BY <1>2, <2>1, <2>2, <2>5, SlotMoves
<1>15. CASE AnswerFailed(o)
  <2>1. at[o].call = "waiting" /\ at[o].saga = "failed" /\ FreeSlot(o) /\ aged' = aged /\ Goto(o, "call", "over")
    BY <1>15 DEF AnswerFailed
  <2>2. ~ Active(o)
    BY <1>1, <2>1 DEF Active, MayBePaid, Is, Smooth
  <2>. QED  BY <1>7, <2>1, <2>2
<1>16. ~ GiveUp(o) /\ ~ Crash(o)
  BY <1>3 DEF GiveUp, Crash
<1>. QED
  BY <1>5, <1>6, <1>8, <1>9, <1>10, <1>12, <1>13, <1>14, <1>15, <1>16 DEF Request

LEMMA CreateOrderKeepsSlots ==
  ASSUME SagaTypeOK, SlotInv, MaxFaults = 0, NEW o \in Orders, CreateOrder(o)
  PROVE  SlotInv'
<1>1. at \in [Orders -> Process] /\ at[o] \in Process /\ Smooth(o)
  BY DEF SagaTypeOK, SlotInv
<1>2. ~ Fault /\ \A b \in BOOLEAN : Heard(b) => b = TRUE
  BY NoFault
<1>3. at[o].asked = "no" /\ \A b \in BOOLEAN : SagaHeard(o, b) => b = TRUE
  BY <1>1, <1>2 DEF Smooth, SagaHeard, Heard
<1>4. slot' = slot /\ aged' = aged
  BY DEF CreateOrder, SagaReserve, SagaRow, SagaIntent, SagaUndoRow, SagaUndoHold,
         SagaItems, SagaUndoItems, SagaStepFails, front
<1> USE DEF At
<1>5. ASSUME NEW s, Goto(o, "saga", s), s \notin {"reserve", "undoItems", "undoRow", "undoHold", "none"},
             at[o].saga # "none", s = "row" => at[o].saga = "reserve",
             s = "failed" => at[o].saga = "reserve", at[o].saga = "items" => s = "intent",
             \/ order' = order /\ at[o].saga # "row"
             \/ at[o].saga = "row" /\ SetStatus(o, "PENDING") /\ s = "items"
      PROVE  SlotInv'
  <2>1. /\ \A q \in Orders : q # o => at'[q] = at[q]
        /\ at'[o].held = at[o].held /\ at'[o].asked = at[o].asked
        /\ at'[o].call = at[o].call /\ at'[o].saga = s
        /\ at'[o].confirm = at[o].confirm /\ at'[o].clock = at[o].clock
    BY <1>1, <1>5, FieldGoes
  <2>2. CASE order' = order /\ at[o].saga # "row"
    <3>1. Smooth(o)'
      BY <1>1, <1>5, <2>1, <2>2 DEF Smooth
    <3>2. (Active(o)' => Active(o)) /\ (CreateMayStillWrite(o)' => CreateMayStillWrite(o))
      BY <1>5, <2>1, <2>2 DEF Active, MayBePaid, Is, Visible, CreateMayStillWrite
    <3>. QED  BY <1>4, <2>1, <2>2, <3>1, <3>2, SlotMoves
  <2>3. CASE at[o].saga = "row" /\ SetStatus(o, "PENDING") /\ s = "items"
    <3>1. "PENDING" \in OrderStatus
      BY DEF OrderStatus
    <3>2. \A q \in Orders : order'[q].status = IF q = o THEN "PENDING" ELSE order[q].status
      BY <2>3, <3>1, StatusMoves
    <3>3. \A q \in Orders : q # o => order'[q] = order[q]
      BY <2>3 DEF SetStatus, SagaTypeOK
    <3>4. Active(o) /\ CreateMayStillWrite(o) /\ order[o].status = "none"
      BY <1>1, <2>3 DEF Active, MayBePaid, CreateMayStillWrite, Smooth
    <3>5. at[o].clock \notin {"release", "slot"}
      BY <1>1, <3>4 DEF Smooth
    <3>6. Smooth(o)'
      BY <1>1, <2>1, <2>3, <3>2, <3>4, <3>5 DEF Smooth
    <3>. QED  BY <1>4, <2>1, <3>3, <3>4, <3>6, SlotMoves
  <2>. QED  BY <1>5, <2>2, <2>3
<1>6. ASSUME NEW b \in BOOLEAN, SagaReserve(o, b) PROVE SlotInv'
  <2>1. b = TRUE /\ at[o].saga = "reserve" /\ order' = order
    BY <1>3, <1>6 DEF SagaReserve, rest
  <2>2. \E s \in {"row", "failed"} : Goto(o, "saga", s)
    BY <1>6, <2>1 DEF SagaReserve
  <2>. QED  BY <1>5, <2>1, <2>2
<1>7. ASSUME NEW b \in BOOLEAN, SagaRow(o, b) PROVE SlotInv'
  <2>1. b = TRUE /\ at[o].saga = "row" /\ order[o].status = "none"
    BY <1>1, <1>3, <1>7 DEF SagaRow, Smooth
  <2>2. Goto(o, "saga", "items") /\ SetStatus(o, "PENDING")
    BY <1>7, <2>1 DEF SagaRow, SetStatus
  <2>. QED  BY <1>5, <2>1, <2>2
<1>8. CASE SagaItems(o)
  BY <1>5, <1>8 DEF SagaItems, rest
<1>9. ASSUME NEW b \in BOOLEAN, SagaIntent(o, b) PROVE SlotInv'
  <2>1. b = TRUE
    BY <1>3, <1>9 DEF SagaIntent
  <2>. QED  BY <1>5, <1>9, <2>1 DEF SagaIntent
<1>10. ~ SagaStepFails(o)
  BY <1>2, <1>3 DEF SagaStepFails
<1>11. ~ SagaUndoItems(o) /\ \A b \in BOOLEAN : ~ SagaUndoRow(o, b) /\ ~ SagaUndoHold(o, b)
  BY <1>1 DEF SagaUndoItems, SagaUndoRow, SagaUndoHold, Smooth
<1>. QED  BY <1>6, <1>7, <1>8, <1>9, <1>10, <1>11 DEF CreateOrder

\* A status that is written over an order's: never "none" or PENDING again.
LEMMA StatusEnds ==
  ASSUME SagaTypeOK, NEW o \in Orders, NEW st \in OrderStatus \ {"none", "PENDING"}, SetStatus(o, st)
  PROVE  /\ \A q \in Orders : q # o => order'[q] = order[q]
         /\ order'[o].status = st /\ order'[o].gone = order[o].gone
BY DEF SetStatus, SagaTypeOK

LEMMA ConfirmOrderKeepsSlots ==
  ASSUME SagaTypeOK, SlotInv, MaxFaults = 0, NEW o \in Orders, ConfirmOrder(o)
  PROVE  SlotInv'
<1>1. at \in [Orders -> Process] /\ at[o] \in Process /\ Smooth(o)
  BY DEF SagaTypeOK, SlotInv
<1>2. ~ Fault /\ \A b \in BOOLEAN : Heard(b) => b = TRUE
  BY NoFault
<1> USE DEF At
<1>3. ASSUME NEW s, Goto(o, "confirm", s), aged' = aged,
             slot' = slot \/ (FreeSlot(o) /\ at[o].confirm \in {"slot", "refundSlot"}),
             \/ order' = order
             \/ \E st \in {"COMPLETED", "REFUND_REQUIRED"} :
                   at[o].confirm \in {"complete", "refund"} /\ SetStatus(o, st)
                   /\ s = (IF st = "COMPLETED" THEN "slot" ELSE "refundTell"),
             s \in {"inventory", "complete", "refund"} => order[o].status # "none" /\ order' = order,
             s \in {"slot", "tell"} => order'[o].status = "COMPLETED",
             s \in {"refundTell", "refundSlot"} => order'[o].status = "REFUND_REQUIRED"
      PROVE  SlotInv'
  <2>1. /\ \A q \in Orders : q # o => at'[q] = at[q]
        /\ at'[o].held = at[o].held /\ at'[o].asked = at[o].asked
        /\ at'[o].call = at[o].call /\ at'[o].saga = at[o].saga
        /\ at'[o].confirm = s /\ at'[o].clock = at[o].clock
    BY <1>1, <1>3, FieldGoes
  <2>2. /\ \A q \in Orders : q # o => order'[q] = order[q]
        /\ order'[o].gone = order[o].gone
        /\ \/ order'[o].status = order[o].status
           \/ order[o].status # "none" /\ order'[o].status \notin {"none", "PENDING"}
    <3>1. CASE order' = order
      BY <3>1
    <3>2. ASSUME NEW st \in {"COMPLETED", "REFUND_REQUIRED"},
                 at[o].confirm \in {"complete", "refund"}, SetStatus(o, st)
          PROVE  /\ \A q \in Orders : q # o => order'[q] = order[q]
                 /\ order'[o].gone = order[o].gone
                 /\ order[o].status # "none" /\ order'[o].status \notin {"none", "PENDING"}
      <4>1. st \in OrderStatus \ {"none", "PENDING"}
        BY DEF OrderStatus, Terminal
      <4>2. /\ \A q \in Orders : q # o => order'[q] = order[q]
            /\ order'[o].status = st /\ order'[o].gone = order[o].gone
        BY <3>2, <4>1, StatusEnds
      <4>. QED  BY <1>1, <3>2, <4>2 DEF Smooth
    <3>. QED  BY <1>3, <3>1, <3>2
  <2>3. Smooth(o)'
    BY <1>1, <1>3, <2>1, <2>2 DEF Smooth
  <2>4. (Active(o)' => Active(o)) /\ (CreateMayStillWrite(o)' => CreateMayStillWrite(o))
    BY <2>1, <2>2 DEF Active, MayBePaid, Is, Visible, CreateMayStillWrite
  <2>5. at[o].confirm \in {"slot", "refundSlot"} => ~ Active(o)
    BY <1>1 DEF Smooth, Active, MayBePaid, Is
  <2>. QED  BY <1>3, <2>1, <2>2, <2>3, <2>4, <2>5, SlotMoves
<1>4. CASE ConfirmStart(o)
  <2>1. CASE at' = at
    <3>1. order' = order /\ slot' = slot /\ aged' = aged
      BY <1>4 DEF ConfirmStart, front
    <3>. QED  BY <2>1, <3>1, <1>1, SlotMoves DEF Smooth, Active, MayBePaid, Is, Visible, CreateMayStillWrite
  <2>2. CASE at' # at
    <3>1. (\E s \in {"inventory", "refund"} : Goto(o, "confirm", s)) /\ order[o].status # "none"
      BY <1>4, <2>2 DEF ConfirmStart, Is
    <3>2. order' = order /\ slot' = slot /\ aged' = aged
      BY <1>4 DEF ConfirmStart, front
    <3>. QED  BY <1>3, <3>1, <3>2
  <2>. QED  BY <2>1, <2>2
<1>5. ASSUME NEW b \in BOOLEAN, ConfirmInventory(o, b) PROVE SlotInv'
  <2>1. order' = order /\ slot' = slot /\ aged' = aged /\ order[o].status # "none"
    BY <1>1, <1>5 DEF ConfirmInventory, front, rest, Smooth
  <2>2. \E s \in {"inventory", "complete", "refund"} : Goto(o, "confirm", s)
    BY <1>5, ConfirmReplies DEF ConfirmInventory
  <2>. QED  BY <1>3, <2>1, <2>2
<1>6. CASE ConfirmComplete(o)
  <2>1. /\ at[o].confirm = "complete" /\ SetStatus(o, "COMPLETED") /\ Goto(o, "confirm", "slot")
        /\ slot' = slot /\ aged' = aged
    BY <1>6 DEF ConfirmComplete, front
  <2>2. "COMPLETED" \in OrderStatus \ {"none", "PENDING"}
    BY DEF OrderStatus
  <2>3. order'[o].status = "COMPLETED"
    BY <2>1, <2>2, StatusEnds
  <2>. QED  BY <1>3, <2>1, <2>3
<1>7. ~ ConfirmFails(o)
  BY <1>2 DEF ConfirmFails
<1>8. ASSUME NEW b \in BOOLEAN, ConfirmSlot(o, b) PROVE SlotInv'
  <2>1. /\ at[o].confirm = "slot" /\ Goto(o, "confirm", "tell") /\ FreeSlot(o)
        /\ order' = order /\ aged' = aged
    BY <1>2, <1>8 DEF ConfirmSlot, rest
  <2>2. order'[o].status = "COMPLETED"
    BY <1>1, <2>1 DEF Smooth
  <2>. QED  BY <1>3, <2>1, <2>2
<1>9. ASSUME NEW b \in BOOLEAN, ConfirmTell(o, b) PROVE SlotInv'
  <2>1. Goto(o, "confirm", "idle") /\ order' = order /\ slot' = slot /\ aged' = aged
    BY <1>9 DEF ConfirmTell, front
  <2>. QED  BY <1>3, <2>1
<1>10. ASSUME NEW b \in BOOLEAN, RefundMark(o, b) PROVE SlotInv'
  <2>1. /\ at[o].confirm = "refund" /\ Goto(o, "confirm", "refundTell") /\ SetStatus(o, "REFUND_REQUIRED")
        /\ slot' = slot /\ aged' = aged
    BY <1>2, <1>10 DEF RefundMark, front
  <2>2. "REFUND_REQUIRED" \in OrderStatus \ {"none", "PENDING"}
    BY DEF OrderStatus, Terminal
  <2>3. order'[o].status = "REFUND_REQUIRED"
    BY <2>1, <2>2, StatusEnds
  <2>. QED  BY <1>3, <2>1, <2>3
<1>11. ASSUME NEW b \in BOOLEAN, RefundTell(o, b) PROVE SlotInv'
  <2>1. /\ at[o].confirm = "refundTell" /\ Goto(o, "confirm", "refundSlot")
        /\ order' = order /\ slot' = slot /\ aged' = aged
    BY <1>11 DEF RefundTell, front
  <2>2. order'[o].status = "REFUND_REQUIRED"
    BY <1>1, <2>1 DEF Smooth
  <2>. QED  BY <1>3, <2>1, <2>2
<1>12. ASSUME NEW b \in BOOLEAN, RefundSlot(o, b) PROVE SlotInv'
  <2>1. /\ at[o].confirm = "refundSlot" /\ Goto(o, "confirm", "idle") /\ FreeSlot(o)
        /\ order' = order /\ aged' = aged
    BY <1>2, <1>12 DEF RefundSlot, rest
  <2>. QED  BY <1>3, <2>1
<1>. QED
  BY <1>4, <1>5, <1>6, <1>7, <1>8, <1>9, <1>10, <1>11, <1>12 DEF ConfirmOrder

LEMMA EndingKeepsSlots ==
  ASSUME SagaTypeOK, SlotInv, OnePayment, MaxFaults = 0, NEW o \in Orders,
         ExpireOrder(o) \/ Cancel(o) \/ HandlePaymentFailed(o)
  PROVE  SlotInv'
<1>1. at \in [Orders -> Process] /\ at[o] \in Process /\ Smooth(o)
  BY DEF SagaTypeOK, SlotInv
<1>2. ~ Fault /\ \A b \in BOOLEAN : Heard(b) => b = TRUE
  BY NoFault
<1> USE DEF At
<1>3. ASSUME NEW p \in {"clock", "cancel", "fail"}, NEW s, Goto(o, p, s), aged' = aged,
             slot' = slot \/ (FreeSlot(o) /\ at[o].clock = "slot"),
             \/ order' = order
             \/ /\ order[o].status # "none" /\ at[o].confirm \notin {"slot", "tell", "refundTell", "refundSlot"}
                /\ \E st \in {"TIMEOUT", "CANCELLED", "PAYMENT_FAILED"} : SetStatus(o, st),
             p = "clock" /\ s \in {"release", "slot"} => order'[o].status \notin {"none", "PENDING"}
      PROVE  SlotInv'
  <2>1. /\ \A q \in Orders : q # o => at'[q] = at[q]
        /\ at'[o].held = at[o].held /\ at'[o].asked = at[o].asked
        /\ at'[o].call = at[o].call /\ at'[o].saga = at[o].saga
        /\ at'[o].confirm = at[o].confirm /\ at'[o].clock = IF p = "clock" THEN s ELSE at[o].clock
    BY <1>1, <1>3, FieldGoes
  <2>2. /\ \A q \in Orders : q # o => order'[q] = order[q]
        /\ order'[o].gone = order[o].gone
        /\ \/ order'[o].status = order[o].status
           \/ /\ order[o].status # "none" /\ order'[o].status \notin {"none", "PENDING"}
              /\ at[o].confirm \notin {"slot", "tell", "refundTell", "refundSlot"}
    <3>1. CASE order' = order
      BY <3>1
    <3>2. ASSUME NEW st \in {"TIMEOUT", "CANCELLED", "PAYMENT_FAILED"}, SetStatus(o, st)
          PROVE  /\ \A q \in Orders : q # o => order'[q] = order[q]
                 /\ order'[o].gone = order[o].gone
                 /\ order'[o].status \notin {"none", "PENDING"}
      <4>1. st \in OrderStatus \ {"none", "PENDING"}
        BY DEF OrderStatus, Terminal
      <4>. QED  BY <3>2, <4>1, StatusEnds
    <3>. QED  BY <1>3, <3>1, <3>2
  <2>3. Smooth(o)'
    BY <1>1, <1>3, <2>1, <2>2 DEF Smooth
  <2>4. (Active(o)' => Active(o)) /\ (CreateMayStillWrite(o)' => CreateMayStillWrite(o))
    BY <2>1, <2>2 DEF Active, MayBePaid, Is, Visible, CreateMayStillWrite
  <2>5. at[o].clock = "slot" => ~ Active(o)
    BY <1>1 DEF Smooth, Active, MayBePaid, Is
  <2>. QED  BY <1>3, <2>1, <2>2, <2>3, <2>4, <2>5, SlotMoves
<1>4. ASSUME NEW to \in {"TIMEOUT", "CANCELLED"}, LeavePending(o, to)
      PROVE  /\ \/ order' = order
                \/ /\ order[o].status # "none" /\ at[o].confirm \notin {"slot", "tell", "refundTell", "refundSlot"}
                   /\ \E st \in {"TIMEOUT", "CANCELLED", "PAYMENT_FAILED"} : SetStatus(o, st)
  BY <1>1, <1>4 DEF LeavePending, Smooth
<1>5. CASE ClockFires(o)
  <2>1. LeavePending(o, "TIMEOUT") /\ aged' = aged /\ slot' = slot
    BY <1>5 DEF ClockFires, front
  <2>2. Goto(o, "clock", IF order'[o].status = "TIMEOUT" THEN "release" ELSE "done")
    BY <1>5 DEF ClockFires
  <2>. QED  BY <1>3, <1>4, <2>1, <2>2
<1>6. ~ ClockFails(o)
  BY <1>2 DEF ClockFails
<1>7. ASSUME NEW b \in BOOLEAN, ClockRelease(o, b) PROVE SlotInv'
  <2>1. at[o].clock = "release" /\ Goto(o, "clock", "slot") /\ order' = order /\ slot' = slot /\ aged' = aged
    BY <1>7 DEF ClockRelease, front, rest
  <2>2. order'[o].status \notin {"none", "PENDING"}
    BY <1>1, <2>1 DEF Smooth
  <2>. QED  BY <1>3, <2>1, <2>2
<1>8. ASSUME NEW b \in BOOLEAN, ClockSlot(o, b) PROVE SlotInv'
  <2>1. at[o].clock = "slot" /\ Goto(o, "clock", "tell") /\ order' = order /\ FreeSlot(o) /\ aged' = aged
    BY <1>2, <1>8 DEF ClockSlot, rest
  <2>. QED  BY <1>3, <2>1
<1>9. ASSUME NEW b \in BOOLEAN, ClockTell(o, b) PROVE SlotInv'
  <2>1. Goto(o, "clock", "done") /\ order' = order /\ slot' = slot /\ aged' = aged
    BY <1>9 DEF ClockTell, front
  <2>. QED  BY <1>3, <2>1
<1>10. ASSUME NEW b \in BOOLEAN, CancelFlip(o, b) PROVE SlotInv'
  <2>1. LeavePending(o, "CANCELLED") /\ aged' = aged /\ slot' = slot /\ \E s : Goto(o, "cancel", s)
    BY <1>10 DEF CancelFlip, front
  <2>. QED  BY <1>3, <1>4, <2>1
<1>11. ASSUME NEW b \in BOOLEAN, CancelRelease(o, b) \/ CancelTell(o, b) PROVE SlotInv'
  <2>1. order' = order /\ slot' = slot /\ aged' = aged /\ \E s : Goto(o, "cancel", s)
    <3>1. CASE CancelRelease(o, b)
      BY <3>1 DEF CancelRelease, front, rest
    <3>2. CASE CancelTell(o, b)
      BY <3>2 DEF CancelTell, front
    <3>. QED  BY <1>11, <3>1, <3>2
  <2>. QED  BY <1>3, <2>1
<1>12. ASSUME NEW b \in BOOLEAN, FailRelease(o, b) \/ FailTell(o, b) PROVE SlotInv'
  <2>1. order' = order /\ slot' = slot /\ aged' = aged /\ \E s : Goto(o, "fail", s)
    <3>1. CASE FailRelease(o, b)
      BY <3>1 DEF FailRelease, front, rest
    <3>2. CASE FailTell(o, b)
      BY <3>2 DEF FailTell, front
    <3>. QED  BY <1>12, <3>1, <3>2
  <2>. QED  BY <1>3, <2>1
<1>13. CASE FailMark(o)
  <2>1. at[o].confirm = "idle" /\ slot' = slot /\ aged' = aged
    BY <1>13 DEF FailMark, front, OnePayment
  <2>2. CASE Visible(o)
    <3>1. SetStatus(o, "PAYMENT_FAILED") /\ Goto(o, "fail", "tell") /\ order[o].status # "none"
      BY <1>13, <2>2 DEF FailMark, Visible
    <3>. QED  BY <1>3, <2>1, <3>1
  <2>3. CASE ~ Visible(o)
    <3>1. order' = order /\ Goto(o, "fail", "idle")
      BY <1>13, <2>3 DEF FailMark
    <3>. QED  BY <1>3, <2>1, <3>1
  <2>. QED  BY <2>2, <2>3
<1>14. ~ FailMarkFails(o)
  BY <1>2 DEF FailMarkFails
<1>15. CASE ExpireOrder(o)
  BY <1>5, <1>6, <1>7, <1>8, <1>9, <1>15 DEF ExpireOrder
<1>16. CASE Cancel(o)
  BY <1>10, <1>11, <1>16 DEF Cancel
<1>17. CASE HandlePaymentFailed(o)
  BY <1>12, <1>13, <1>14, <1>17 DEF HandlePaymentFailed
<1>. QED  BY <1>15, <1>16, <1>17

\* Time and the provider: a claim grows old once its order is no longer being written.
LEMMA AgeKeepsSlots ==
  ASSUME SagaTypeOK, SlotInv, NEW b \in Buyers, Age(b)
  PROVE  SlotInv'
<1>1. /\ order' = order /\ at' = at /\ slot' = slot
      /\ \A c \in aged' : c \in aged \/ (c = b /\ ~ CreateMayStillWrite(slot[b]))
  BY DEF Age, rest
<1>2. \A q \in Orders : (Smooth(q)' <=> Smooth(q)) /\ (Active(q)' <=> Active(q))
  BY <1>1 DEF Smooth, Active, MayBePaid, Is, Visible, At
<1>3. \A c \in Buyers : CreateMayStillWrite(slot[c])' <=> CreateMayStillWrite(slot[c])
  BY <1>1 DEF CreateMayStillWrite, At
<1>. QED  BY <1>1, <1>2, <1>3 DEF SlotInv

\* What the slot does not see.
LEMMA SlotIdle ==
  ASSUME SagaTypeOK, SlotInv, UNCHANGED <<slot, aged, order, at>>
  PROVE  SlotInv'
<1>1. \A q \in Orders : (Smooth(q)' <=> Smooth(q)) /\ (Active(q)' <=> Active(q))
  BY DEF Smooth, Active, MayBePaid, Is, Visible, At
<1>2. \A c \in Buyers : CreateMayStillWrite(slot[c])' <=> CreateMayStillWrite(slot[c])
  BY DEF CreateMayStillWrite, At
<1>. QED  BY <1>1, <1>2 DEF SlotInv

LEMMA SlotInitInv == SagaInit => SlotInv
<1> SUFFICES ASSUME SagaInit PROVE SlotInv
  OBVIOUS
<1>1. \A o \in Orders : at[o] = Idle /\ order[o].status = "none"
  BY DEF SagaInit
<1>2. \A o \in Orders : Smooth(o)
  BY <1>1 DEF Smooth, Idle
<1>3. \A o \in Orders : ~ Active(o)
  BY <1>1 DEF Active, MayBePaid, Is, At, Idle
<1>4. \A b \in Buyers : slot[b] = Free
  BY DEF SagaInit
<1>. QED  BY <1>2, <1>3, <1>4 DEF SlotInv

LEMMA SlotNextInv ==
  ASSUME MaxFaults = 0, ~ Impatient, SagaInv, SlotInv, [SagaNext]_sagaVars
  PROVE  SlotInv'
<1> USE DEF SagaInv
<1>1. ASSUME NEW o \in Orders, Request(o) PROVE SlotInv'
  BY <1>1, RequestKeepsSlots
<1>2. ASSUME NEW o \in Orders, CreateOrder(o) PROVE SlotInv'
  BY <1>2, CreateOrderKeepsSlots
<1>3. ASSUME NEW o \in Orders, ConfirmOrder(o) PROVE SlotInv'
  BY <1>3, ConfirmOrderKeepsSlots
<1>4. ASSUME NEW o \in Orders, ExpireOrder(o) \/ Cancel(o) \/ HandlePaymentFailed(o) PROVE SlotInv'
  BY <1>4, EndingKeepsSlots DEF MoneyInv
<1>5. ASSUME NEW o \in Orders, NEW outcome \in Outcomes, PaymentEnds(o, outcome) PROVE SlotInv'
  BY <1>5, SlotIdle DEF PaymentEnds, front
<1>6. ASSUME NEW b \in Buyers, Age(b) PROVE SlotInv'
  BY <1>6, AgeKeepsSlots
<1>7. CASE Inventories
  BY <1>7, SlotIdle DEF Inventories, front, rest
<1>8. CASE UNCHANGED sagaVars
  BY <1>8, SlotIdle DEF sagaVars
<1>. QED  BY <1>1, <1>2, <1>3, <1>4, <1>5, <1>6, <1>7, <1>8 DEF SagaNext

\* As long as no answer is lost, no process dies and no caller gives up waiting, a
\* buyer never has two orders that are being made or wait for a payment, whatever
\* requests, payments, cancels, clocks and old claims race for the slot.
THEOREM OneCheckout ==
  ASSUME MaxFaults = 0, ~ Impatient
  PROVE  SagaSpec => []OneCheckoutPerBuyer
<1>1. SagaInv /\ SlotInv /\ [SagaNext]_sagaVars => (SagaInv /\ SlotInv)'
  BY SagaNextInv, SlotNextInv
<1>2. SagaInit => SagaInv /\ SlotInv
  BY SagaInitInv, SlotInitInv
<1>3. SlotInv => OneCheckoutPerBuyer
  BY DEF SlotInv, Active, OneCheckoutPerBuyer
<1>. QED  BY <1>1, <1>2, <1>3, PTL DEF SagaSpec
=============================================================================
