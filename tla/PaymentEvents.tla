---------------------------- MODULE PaymentEvents ----------------------------
(***************************************************************************)
(* What payment-svc promises the rest of the system: a payment is settled  *)
(* once, and its event is published at least once and never before.        *)
(***************************************************************************)
CONSTANT Payments

VARIABLES
  settled,     \* settled[p]: how p ended, or "open"
  announced    \* payments of which an event is on the topic

Outcome == {"COMPLETED", "FAILED"}

Init == settled = [p \in Payments |-> "open"] /\ announced = {}

Settle(p, outcome) ==
  /\ settled[p] = "open"
  /\ settled' = [settled EXCEPT ![p] = outcome]
  /\ UNCHANGED announced

Announce(p) ==
  /\ settled[p] # "open"
  /\ announced' = announced \cup {p}
  /\ UNCHANGED settled

Next == \E p \in Payments : Announce(p) \/ \E outcome \in Outcome : Settle(p, outcome)

Spec == Init /\ [][Next]_<<settled, announced>>
=============================================================================
