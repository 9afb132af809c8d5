------------------------------- MODULE SagaSale -------------------------------
(***************************************************************************)
(* The order sagas, with the payment and the clock, implement Sale: what   *)
(* the rows of inventory-svc, the order row, the payment intent and the    *)
(* published events say of an order, taken together, follows the promise   *)
(* step by step.                                                           *)
(***************************************************************************)
EXTENDS OrderSaga

TicketsOf(o) ==
  CASE Statuses(o) = {}             -> "none"
    [] "CONFIRMED" \in Statuses(o)  -> "sold"
    [] "CANCELLED" \in Statuses(o)  -> "returned"
    [] Statuses(o) = {"EXPIRED"}    -> "lapsed"
    [] OTHER                        -> "held"

StatusOf(o) ==
  CASE order[o].status \in {"none", "PENDING"}  -> "open"
    [] order[o].status = "COMPLETED"            -> "completed"
    [] order[o].status = "REFUND_REQUIRED"      -> "refund"
    [] OTHER                                    -> "closed"

Promise == INSTANCE Sale WITH
  tickets   <- [o \in Orders |-> TicketsOf(o)],
  paid      <- [o \in Orders |-> pay[o] = "COMPLETED"],
  status    <- [o \in Orders |-> StatusOf(o)],
  announced <- [o \in Orders |-> "completed" \in told[o]]

\* Whatever is lost, retried, cancelled or late, no ticket is sold without a
\* payment or taken back once sold, no order is completed or announced before
\* its tickets are sold, and no refund is owed for what was not paid.
ImplementsSale == Promise!SaleSpec
=============================================================================
