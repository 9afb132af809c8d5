----------------------------- MODULE MCEventGate ------------------------------
(* A small instance of EventGate over Events for TLC.                        *)
EXTENDS EventGate

CONSTANTS c1, c2, j1, j2

MCRole == [u \in Users |-> IF u = "ann" THEN "ADMIN" ELSE "EDITOR"]
=============================================================================
