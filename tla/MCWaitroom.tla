----------------------------- MODULE MCWaitroom ------------------------------
(* A small instance of Waitroom for TLC: two buyers, one ticket.             *)
EXTENDS Waitroom

CONSTANTS s1, s2
=============================================================================
