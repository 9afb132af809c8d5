--------------------------- MODULE MCPaymentOutbox ---------------------------
(* A small instance of PaymentOutbox for TLC: one payment, created by two    *)
(* calls at once, and the rows of its repeated callbacks.                    *)
EXTENDS PaymentOutbox

CONSTANTS p1, k1, k2, r1, r2

MCPaymentOf == [k \in Calls |-> p1]
=============================================================================
