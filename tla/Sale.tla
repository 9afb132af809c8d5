--------------------------------- MODULE Sale ---------------------------------
(***************************************************************************)
(* What a purchase promises, order by order: tickets are held, lapse, are  *)
(* given back or are sold; they are sold to a payment only and for good;   *)
(* an order is completed when they are sold, announced when it is          *)
(* completed, and owed a refund when it was paid and not completed.        *)
(***************************************************************************)
CONSTANT Orders

VARIABLES
  tickets,    \* tickets[o]: "none", "held", "lapsed", "returned", "sold"
  paid,       \* paid[o]: the provider took the money
  status,     \* status[o]: "open", "closed", "completed", "refund"
  announced   \* announced[o]: the waiting room was told of the completion

sale(o) == <<tickets[o], paid[o], status[o], announced[o]>>

Tickets(o, from, to) ==
  /\ tickets[o] \in from /\ tickets'[o] = to
  /\ UNCHANGED <<paid[o], status[o], announced[o]>>

Hold(o) == Tickets(o, {"none"}, "held")
Lapse(o) == Tickets(o, {"held"}, "lapsed")
Return(o) == Tickets(o, {"held", "lapsed"}, "returned")
Sell(o) == paid[o] /\ Tickets(o, {"held", "lapsed"}, "sold")

Pay(o) ==
  /\ ~ paid[o] /\ paid'[o]
  /\ UNCHANGED <<tickets[o], status[o], announced[o]>>

Status(o, from, to) ==
  /\ status[o] \in from /\ status'[o] = to
  /\ UNCHANGED <<tickets[o], paid[o], announced[o]>>

Close(o) == Status(o, {"open"}, "closed")
Complete(o) == tickets[o] = "sold" /\ Status(o, {"open", "closed"}, "completed")
Owe(o) == paid[o] /\ Status(o, {"open", "closed"}, "refund")

Announce(o) ==
  /\ status[o] = "completed" /\ announced'[o]
  /\ UNCHANGED <<tickets[o], paid[o], status[o]>>

SaleInit ==
  /\ tickets = [o \in Orders |-> "none"] /\ paid = [o \in Orders |-> FALSE]
  /\ status = [o \in Orders |-> "open"] /\ announced = [o \in Orders |-> FALSE]

SaleStep(o) == \/ Hold(o) \/ Lapse(o) \/ Return(o) \/ Sell(o) \/ Pay(o)
               \/ Close(o) \/ Complete(o) \/ Owe(o) \/ Announce(o)

\* Orders may move together: one sweep ends the holds of several.
SaleNext == \A o \in Orders : SaleStep(o) \/ UNCHANGED sale(o)

SaleSpec == SaleInit /\ [][SaleNext]_<<tickets, paid, status, announced>>
=============================================================================
