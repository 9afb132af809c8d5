----------------------------- MODULE MCInventory -----------------------------
(* Small instances of Inventory for TLC. *)
EXTENDS Inventory, TLC

CONSTANTS o1, o2, o3

\* o1 wants both classes, o2 and o3 compete with it for one class each.
MCDemand == (o1 :> <<1, 1>>) @@ (o2 :> <<2, 0>>) @@ (o3 :> <<1, 2>>)

\* Two orders, the second of one class only.
MCDemand2 == (o1 :> <<1, 2>>) @@ (o2 :> <<1, 0>>)
=============================================================================
