------------------------------ MODULE MCDelivery ------------------------------
(* A small instance of Delivery for TLC.                                     *)
EXTENDS Delivery

CONSTANTS p1, p2
=============================================================================
