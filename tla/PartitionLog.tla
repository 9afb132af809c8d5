----------------------------- MODULE PartitionLog -----------------------------
(***************************************************************************)
(* What a consumer group promises about one partition: its messages are    *)
(* settled in their order, an offset is committed only behind what is      *)
(* settled, and only a group that has never committed may pass messages    *)
(* over.                                                                   *)
(***************************************************************************)
EXTENDS Integers

CONSTANT Last   \* messages ever sent

NoOffset == -1

VARIABLES
  sent,
  frontier,   \* every message before it is settled or passed over
  committed   \* the broker's offset, NoOffset before the first commit

logVars == <<sent, frontier, committed>>

Send ==
  /\ sent < Last /\ sent' = sent + 1
  /\ UNCHANGED <<frontier, committed>>

Settle ==
  /\ frontier < sent /\ frontier' = frontier + 1
  /\ UNCHANGED <<sent, committed>>

Commit ==
  /\ committed' \in committed + 1..frontier
  /\ UNCHANGED <<sent, frontier>>

PassOver ==
  /\ committed = NoOffset /\ frontier' = sent
  /\ UNCHANGED <<sent, committed>>

LogInit == sent = 0 /\ frontier = 0 /\ committed = NoOffset

LogNext == Send \/ Settle \/ Commit \/ PassOver

LogSpec == LogInit /\ [][LogNext]_logVars
=============================================================================
