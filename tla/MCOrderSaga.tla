----------------------------- MODULE MCOrderSaga -----------------------------
(* Small instances of OrderSaga for TLC. *)
EXTENDS SagaSale, TLC

CONSTANTS o1, o2, o3, b1

\* Requests of one buyer for one ticket of one class.
MCDemand == [o \in Orders |-> <<1>>]
MCBuyerOf == [o \in Orders |-> b1]

\* One ticket: what one order holds, another cannot.
LastTicket == <<1>>
TwoTickets == <<2>>

\* One ticket of each of two classes: a sweep may take one line and leave the other.
MCPair == [o \in Orders |-> <<1, 1>>]
OneOfEach == <<1, 1>>

Codes == Permutations(Orders)
=============================================================================
