---------------------------- MODULE MCInventoryTx ----------------------------
(* Small instances of InventoryTx for TLC. *)
EXTENDS InventoryTx, TLC

CONSTANTS o1, o2, p1, p2

\* Both orders want both classes, and together more of the second than it has.
MCDemand == (o1 :> <<1, 1>>) @@ (o2 :> <<1, 2>>)

Connections == Permutations({p1, p2})
=============================================================================
