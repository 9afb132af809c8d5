------------------------------- MODULE Delivery -------------------------------
(***************************************************************************)
(* The Kafka consumers of waitroom-svc and order-svc: one partition, the   *)
(* pods of one consumer group, and what each service does with a message   *)
(* its handler failed on.                                                  *)
(*   waitroom-svc  tries again in place, then parks it on the dead-letter  *)
(*                 topic; a payload it cannot read is parked at once;      *)
(*   order-svc     ends its session after a pause, so that the message is  *)
(*                 read again; a failure that is already answered is passed*)
(* The group itself is sarama's: marks are kept per session and committed  *)
(* now and then and at the session's end, the highest mark counts, and a   *)
(* pod the broker gave up on goes on until it notices, but cannot commit.  *)
(* The broker's answer may be lost: a dead letter that is there counts as  *)
(* failed, and the commits of a session that ends may not be made.         *)
(***************************************************************************)
EXTENDS Integers, FiniteSets

CONSTANTS
  Pods,
  Last,          \* messages ever sent
  MaxAttempts,   \* ConsumerRetryMax
  MaxTrouble     \* crashes, evictions, cancelled sessions, and answers of the
                 \* dead-letter topic or of the last commit that are lost, all together

ASSUME DeliveryAssumption ==
  Last \in Nat /\ MaxAttempts \in Nat \ {0} /\ MaxTrouble \in Nat /\ "nobody" \notin Pods

VARIABLES
  svc,         \* whose consumer it is: it never changes
  poison,      \* offsets of the payloads no handler can read: they never change
  sent,        \* messages in the partition
  committed,   \* the group's offset at the broker, NoOffset before the first commit
  owner,       \* the pod the broker gave the partition to
  at,          \* at[p]: where the claim of p stands
  handled,     \* offsets a handler answered
  parked,      \* offsets on the dead-letter topic
  missed,      \* offsets a first session began behind
  trouble      \* what MaxTrouble bounds, so far

vars == <<svc, poison, sent, committed, owner, at, handled, parked, missed, trouble>>

NoOffset == -1
Messages == 0..(Last - 1)
Settled == handled \cup parked

Out == [step |-> "out", pos |-> 0, mark |-> NoOffset, tries |-> 0, over |-> FALSE]

At(p, step) == at[p].step = step
Goes(p, step) == at' = [at EXCEPT ![p].step = step]
Message(p) == at[p].pos
\* Mutant: the offset that is marked is the message's own.
MarksItself(p) == at' = [at EXCEPT ![p].step = "claim", ![p].pos = @ + 1, ![p].mark = Message(p), ![p].tries = 0]

\* MarkMessage: the next offset to read is marked.
Marks(p) == at' = [at EXCEPT ![p].step = "claim", ![p].pos = @ + 1, ![p].mark = Message(p) + 1, ![p].tries = 0]
InSession(p) == ~ At(p, "out")

Upto(m) == IF m > committed THEN m ELSE committed

Troubled == trouble < MaxTrouble /\ trouble' = trouble + 1

-----------------------------------------------------------------------------
Send ==
  /\ sent < Last /\ sent' = sent + 1
  /\ UNCHANGED <<svc, poison, committed, owner, at, handled, parked, missed, trouble>>

\* A group without an offset begins at the newest message.
FirstOffset == IF committed = NoOffset THEN sent ELSE committed

Join(p) ==
  /\ At(p, "out") /\ owner = "nobody"
  /\ owner' = p
  /\ at' = [at EXCEPT ![p] = [Out EXCEPT !.step = "claim", !.pos = FirstOffset, !.mark = committed]]
  /\ missed' = missed \cup ((0..FirstOffset - 1) \ Settled)
  /\ UNCHANGED <<svc, poison, sent, committed, handled, parked, trouble>>

\* The claim's select: messages and the session's end may both be ready.
Take(p) ==
  /\ At(p, "claim") /\ Message(p) < sent
  /\ at' = [at EXCEPT ![p].step = "handle", ![p].tries = 1]
  /\ UNCHANGED <<svc, poison, sent, committed, owner, handled, parked, missed, trouble>>

ClaimEnds(p) ==
  /\ At(p, "claim") /\ at[p].over /\ Goes(p, "leave")
  /\ UNCHANGED <<svc, poison, sent, committed, owner, handled, parked, missed, trouble>>

Readable(p) == Message(p) \notin poison

-----------------------------------------------------------------------------
(* waitroom-svc: deliver                                                     *)

Handle(p) ==
  /\ svc = "waitroom" /\ At(p, "handle") /\ Readable(p)
  /\ handled' = handled \cup {Message(p)}
  /\ Marks(p)
  /\ UNCHANGED <<svc, poison, sent, committed, owner, parked, missed, trouble>>

\* Mutant: one attempt too many.
HandleFailsLate(p) ==
  /\ svc = "waitroom" /\ At(p, "handle")
  /\ Goes(p, IF ~ Readable(p) \/ at[p].tries > MaxAttempts THEN "park" ELSE "retry")
  /\ UNCHANGED <<svc, poison, sent, committed, owner, handled, parked, missed, trouble>>

\* Mutant: the attempts start anew each time.
HandleFailsForEver(p) ==
  /\ svc = "waitroom" /\ At(p, "handle")
  /\ at' = [at EXCEPT ![p].step = "retry", ![p].tries = 0]
  /\ UNCHANGED <<svc, poison, sent, committed, owner, handled, parked, missed, trouble>>

\* What no retry can fix, and what the retries did not fix, is parked.
HandleFails(p) ==
  /\ svc = "waitroom" /\ At(p, "handle")
  /\ Goes(p, IF ~ Readable(p) \/ at[p].tries = MaxAttempts THEN "park" ELSE "retry")
  /\ UNCHANGED <<svc, poison, sent, committed, owner, handled, parked, missed, trouble>>

Retry(p) ==
  /\ At(p, "retry")
  /\ at' = [at EXCEPT ![p].step = "handle", ![p].tries = @ + 1]
  /\ UNCHANGED <<svc, poison, sent, committed, owner, handled, parked, missed, trouble>>

\* The session ends while a retry is due: the message stays uncommitted and the
\* claim ends with it.
RetryAbandoned(p) ==
  /\ At(p, "retry") /\ at[p].over /\ Goes(p, "leave")
  /\ UNCHANGED <<svc, poison, sent, committed, owner, handled, parked, missed, trouble>>

Park(p) ==
  /\ At(p, "park")
  /\ parked' = parked \cup {Message(p)}
  /\ Marks(p)
  /\ UNCHANGED <<svc, poison, sent, committed, owner, handled, missed, trouble>>

\* Nowhere safe to put it.
ParkFails(p) ==
  /\ At(p, "park") /\ Goes(p, "leave")
  /\ UNCHANGED <<svc, poison, sent, committed, owner, handled, parked, missed, trouble>>

\* It is there, but the producer answers an error all the same: nothing is marked,
\* and the message will be read and parked once more.
ParkUnanswered(p) ==
  /\ At(p, "park") /\ Troubled
  /\ parked' = parked \cup {Message(p)}
  /\ Goes(p, "leave")
  /\ UNCHANGED <<svc, poison, sent, committed, owner, handled, missed>>

-----------------------------------------------------------------------------
(* order-svc: ConsumeClaim                                                   *)

\* Handled, or answered before: the order accounts for the payment, or there is
\* no order.
Answer(p) ==
  /\ svc = "order" /\ At(p, "handle") /\ Readable(p)
  /\ handled' = handled \cup {Message(p)}
  /\ Marks(p)
  /\ UNCHANGED <<svc, poison, sent, committed, owner, parked, missed, trouble>>

\* Mutant: the claim goes on to the next message.
AnswerFailsAndGoesOn(p) ==
  /\ svc = "order" /\ At(p, "handle")
  /\ at' = [at EXCEPT ![p].step = "claim", ![p].pos = @ + 1]
  /\ UNCHANGED <<svc, poison, sent, committed, owner, handled, parked, missed, trouble>>

AnswerFails(p) ==
  /\ svc = "order" /\ At(p, "handle") /\ Goes(p, "pause")
  /\ UNCHANGED <<svc, poison, sent, committed, owner, handled, parked, missed, trouble>>

\* The five seconds are over, or the session is.
PauseEnds(p) ==
  /\ At(p, "pause") /\ Goes(p, "leave")
  /\ UNCHANGED <<svc, poison, sent, committed, owner, handled, parked, missed, trouble>>

-----------------------------------------------------------------------------
(* The group                                                                 *)

AutoCommit(p) ==
  /\ owner = p /\ InSession(p) /\ at[p].mark > committed
  /\ committed' = at[p].mark
  /\ UNCHANGED <<svc, poison, sent, owner, at, handled, parked, missed, trouble>>

\* The session is released, with its marks while the broker still listens; then
\* Consume returns and the loop of Start joins again.
Leave(p) ==
  /\ At(p, "leave")
  /\ IF owner = p THEN owner' = "nobody" /\ committed' = Upto(at[p].mark)
                  ELSE UNCHANGED <<owner, committed>>
  /\ at' = [at EXCEPT ![p] = Out]
  /\ UNCHANGED <<svc, poison, sent, handled, parked, missed, trouble>>

\* The last commit fails: the marks the timer has not committed are gone.
LeaveUncommitted(p) ==
  /\ At(p, "leave") /\ owner = p /\ Troubled
  /\ owner' = "nobody"
  /\ at' = [at EXCEPT ![p] = Out]
  /\ UNCHANGED <<svc, poison, sent, committed, handled, parked, missed>>

\* A rebalance, a shutdown, or another claim of the session that ended.
Cancel(p) ==
  /\ Troubled /\ InSession(p) /\ ~ at[p].over
  /\ at' = [at EXCEPT ![p].over = TRUE]
  /\ UNCHANGED <<svc, poison, sent, committed, owner, handled, parked, missed>>

\* No heartbeat for too long: the pod works on and knows nothing.
Evict(p) ==
  /\ Troubled /\ owner = p
  /\ owner' = "nobody"
  /\ UNCHANGED <<svc, poison, sent, committed, at, handled, parked, missed>>

Notice(p) ==
  /\ InSession(p) /\ owner # p /\ ~ at[p].over
  /\ at' = [at EXCEPT ![p].over = TRUE]
  /\ UNCHANGED <<svc, poison, sent, committed, owner, handled, parked, missed, trouble>>

Crash(p) ==
  /\ Troubled /\ InSession(p)
  /\ at' = [at EXCEPT ![p] = Out]
  /\ owner' = IF owner = p THEN "nobody" ELSE owner
  /\ UNCHANGED <<svc, poison, sent, committed, handled, parked, missed>>

-----------------------------------------------------------------------------
Init ==
  /\ svc \in {"waitroom", "order"}
  /\ poison \in SUBSET Messages
  /\ sent = 0 /\ committed = NoOffset /\ owner = "nobody"
  /\ at = [p \in Pods |-> Out]
  /\ handled = {} /\ parked = {} /\ missed = {} /\ trouble = 0

Returns(p) == Handle(p) \/ HandleFails(p) \/ Answer(p) \/ AnswerFails(p)

Next ==
  \/ Send
  \/ \E p \in Pods :
       \/ Join(p) \/ Take(p) \/ ClaimEnds(p)
       \/ Returns(p) \/ Retry(p) \/ RetryAbandoned(p) \/ Park(p) \/ ParkFails(p) \/ PauseEnds(p)
       \/ AutoCommit(p) \/ Leave(p) \/ Notice(p)
       \/ ParkUnanswered(p) \/ LeaveUncommitted(p)
       \/ Cancel(p) \/ Evict(p) \/ Crash(p)

Spec == Init /\ [][Next]_vars

\* The broker gives the partition to somebody, a claim goes on, a handler
\* returns, and one that is called again and again succeeds some time; so does
\* the dead-letter topic.
FairSpec ==
  /\ Spec
  /\ WF_vars(\E p \in Pods : Join(p))
  /\ \A p \in Pods :
       /\ WF_vars(Take(p) \/ ClaimEnds(p))
       /\ WF_vars(Returns(p) \/ Retry(p) \/ RetryAbandoned(p) \/ Park(p) \/ ParkFails(p) \/ PauseEnds(p))
       /\ WF_vars(Leave(p))
       /\ SF_vars(Handle(p) \/ Answer(p)) /\ SF_vars(Park(p))

-----------------------------------------------------------------------------
TypeOK ==
  /\ svc \in {"waitroom", "order"} /\ poison \subseteq Messages
  /\ sent \in 0..Last /\ committed \in NoOffset..Last
  /\ owner \in Pods \cup {"nobody"}
  /\ at \in [Pods -> [step : {"out", "claim", "handle", "retry", "park", "pause", "leave"},
                      pos : 0..Last, mark : NoOffset..Last, tries : 0..MaxAttempts, over : BOOLEAN]]
  /\ handled \subseteq Messages /\ parked \subseteq Messages /\ missed \subseteq Messages
  /\ trouble \in 0..MaxTrouble

\* "Never mark a failed offset -- sarama keeps the highest mark": the group's
\* offset, whoever commits it, stays behind what is settled, and messages are
\* settled in their order, as the abstract log promises.
Log == INSTANCE PartitionLog WITH frontier <- Cardinality(Settled \cup missed)
KeepsItsPlace == Log!LogSpec

\* A message that is settled is handled again only after a crash, an eviction, a
\* cancelled session, a dead letter whose answer was lost, or a last commit that
\* was not made: a handler's failure, however often it ends the session, repeats
\* nothing that was settled before it, and neither does a dead letter refused.
RepeatsComeFromTrouble ==
  \A p \in Pods : At(p, "handle") /\ Message(p) \in Settled => trouble > 0

\* No message is tried more often than MaxAttempts, nor again without trouble.
DeliveryInv == TypeOK /\ RepeatsComeFromTrouble

\* Every message is settled some time, whatever fails on the way; in order-svc
\* only if no payload before it, nor its own, is one no handler can read.
MessagesSettle ==
  \A m \in Messages :
    sent > m ~> m \in Settled \cup missed \/ (svc = "order" /\ poison \cap (0..m) # {})
=============================================================================
