------------------------------ MODULE MCProcessor -----------------------------
(* A small instance of Processor for TLC.                                    *)
EXTENDS Processor

CONSTANTS p1, p2, b1, b2
=============================================================================
