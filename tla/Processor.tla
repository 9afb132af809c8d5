------------------------------ MODULE Processor -------------------------------
(***************************************************************************)
(* waitroom-svc's queue processor as a process: the loop of each pod, the  *)
(* lock its Stop holds while it waits for that loop, and the QUEUE_READY   *)
(* announcements, which are published or else kept in a Redis list for a   *)
(* later tick.  Who is admitted is Waitroom's business: here a tick admits *)
(* any buyer.                                                              *)
(*                                                                         *)
(* There is one pod but for a rollout, when the new one runs before the    *)
(* old one is stopped.                                                     *)
(***************************************************************************)
EXTENDS Naturals, Sequences

CONSTANTS
  Pods,
  Old,         \* the pod a rollout replaces
  Buyers,
  Batch,       \* BatchSize
  Cap,         \* maxBufferedQueueReady
  MaxTrouble   \* pods that die and Redis calls that fail, all together

ASSUME ProcessorAssumption == Old \in Pods /\ Batch \in Nat \ {0} /\ Cap \in Nat \ {0} /\ MaxTrouble \in Nat

VARIABLES
  loop,        \* loop[p]: the step the loop of p is at
  stop,        \* how far the old pod's Stop has come
  hand,        \* hand[p]: the payloads a drain has read and not settled
  settled,     \* settled[p]: how many of them it has settled
  claim,       \* claim[p]: the buyer being announced
  excess,      \* excess[p]: how far its push took the buffer over Cap
  buffer,      \* the Redis list
  slots,       \* buyers whose slot was taken
  announced,   \* announced[b]: how often, twice or more counted as twice
  lapsed,      \* buyers whose checkout window is over
  lost,        \* announcements given up: not buffered, shed, or dead with their pod
  overlapped,  \* ticks of two pods have met
  untidy,      \* something that reached Kafka was sent again, or may be
  trouble

vars == <<loop, stop, hand, settled, claim, excess, buffer, slots, announced, lapsed, lost,
          overlapped, untidy, trouble>>

tick == <<hand, settled, claim, excess>>
world == <<buffer, slots, announced, lapsed, lost, overlapped, untidy, trouble>>

At(p, step) == loop[p] = step
Goes(p, step) == loop' = [loop EXCEPT ![p] = step]
Ticking(p) == loop[p] \notin {"off", "wait", "ended"}

\* qp.mu: Stop keeps it from its first line to its last.
Unlocked(p) == p # Old \/ stop # "waiting"

Announce(b, n) == announced' = [announced EXCEPT ![b] = IF @ + n > 2 THEN 2 ELSE @ + n]

\* SendMessage: Kafka takes an announcement.  Its producer is not idempotent: when
\* an answer is lost sarama itself sends again.
Sends(b) ==
  \/ Announce(b, 1) /\ UNCHANGED untidy
  \/ Announce(b, 2) /\ untidy' = TRUE

\* It answers an error: Kafka refused it, or took it and the answers were lost.
SendFails(b) ==
  \/ UNCHANGED <<announced, untidy>>
  \/ \E n \in 1..2 : Announce(b, n) /\ untidy' = TRUE

Troubled == trouble < MaxTrouble /\ trouble' = trouble + 1
Members(s) == {s[i] : i \in 1..Len(s)}
After(s, n) == SubSeq(s, n + 1, Len(s))

-----------------------------------------------------------------------------
(* Start, Stop and the loop                                                  *)

Start(p) ==
  /\ At(p, "off") /\ (p = Old => stop = "no") /\ Goes(p, "wait")
  /\ UNCHANGED <<stop, tick, world>>

\* The lock is taken, stopCh closed and the ticker stopped.
BeginStop ==
  /\ stop = "no" /\ ~ At(Old, "off")
  /\ \E q \in Pods \ {Old} : ~ At(q, "off")
  /\ stop' = "waiting"
  /\ UNCHANGED <<loop, tick, world>>

StopDone ==
  /\ stop = "waiting" /\ At(Old, "ended")
  /\ stop' = "over"
  /\ UNCHANGED <<loop, tick, world>>

\* Mutant: Stop waits for the loop however long it takes.
StopPatiently ==
  /\ stop = "waiting" /\ At(Old, "ended")
  /\ stop' = "over"
  /\ UNCHANGED <<loop, tick, world>>

StopTimesOut ==
  /\ stop = "waiting" /\ ~ At(Old, "ended")
  /\ stop' = "over"
  /\ UNCHANGED <<loop, tick, world>>

\* processLoop's select.
Tick(p) ==
  /\ At(p, "wait") /\ (p = Old => stop = "no") /\ Goes(p, "drain")
  /\ overlapped' = (overlapped \/ \E q \in Pods \ {p} : Ticking(q))
  /\ UNCHANGED <<stop, tick, buffer, slots, announced, lapsed, lost, untidy, trouble>>

LoopEnds ==
  /\ At(Old, "wait") /\ stop # "no" /\ Goes(Old, "ended")
  /\ UNCHANGED <<stop, tick, world>>

\* Its own lock at the end, and the ones for totalAdmitted before it.
TickEnds(p) ==
  /\ At(p, "admit") /\ Unlocked(p) /\ Goes(p, "wait")
  /\ UNCHANGED <<stop, tick, world>>

-----------------------------------------------------------------------------
(* claimSlot and bufferQueueReady                                            *)

\* Mutant: the slot is left to the buyer's checkout.
AnnounceWithoutSlot(p, b) ==
  /\ At(p, "admit") /\ b \notin slots /\ Goes(p, "publish")
  /\ claim' = [claim EXCEPT ![p] = {b}]
  /\ UNCHANGED <<stop, hand, settled, excess, world>>

AddToProcessing(p, b) ==
  /\ At(p, "admit") /\ b \notin slots /\ Goes(p, "publish")
  /\ slots' = slots \cup {b}
  /\ claim' = [claim EXCEPT ![p] = {b}]
  /\ UNCHANGED <<stop, hand, settled, excess, buffer, announced, lapsed, lost, overlapped, untidy, trouble>>

Claimed(p, b) == claim[p] = {b}
Lets(p) == claim' = [claim EXCEPT ![p] = {}]

PublishQueueReady(p, b) ==
  /\ At(p, "publish") /\ Claimed(p, b) /\ Goes(p, "admit")
  /\ Sends(b) /\ Lets(p)
  /\ UNCHANGED <<stop, hand, settled, excess, buffer, slots, lapsed, lost, overlapped, trouble>>

\* Mutant: a failed publish is only logged.
PublishFailsQuietly(p, b) ==
  /\ At(p, "publish") /\ Claimed(p, b) /\ Goes(p, "admit") /\ Lets(p)
  /\ UNCHANGED <<stop, hand, settled, excess, buffer, slots, announced, lapsed, lost, overlapped, untidy, trouble>>

PublishFails(p, b) ==
  /\ At(p, "publish") /\ Claimed(p, b) /\ Goes(p, "buffer")
  /\ SendFails(b)
  /\ UNCHANGED <<stop, tick, buffer, slots, lapsed, lost, overlapped, trouble>>

\* RPUSH, and whether its answer is over the cap.
BufferQueueReady(p, b) ==
  /\ At(p, "buffer") /\ Claimed(p, b) /\ Lets(p)
  /\ buffer' = Append(buffer, b)
  /\ IF Len(buffer) + 1 > Cap
     THEN Goes(p, "shed") /\ excess' = [excess EXCEPT ![p] = Len(buffer) + 1 - Cap]
     ELSE Goes(p, "admit") /\ UNCHANGED excess
  /\ UNCHANGED <<stop, hand, settled, slots, announced, lapsed, lost, overlapped, untidy, trouble>>

\* The error is counted under the lock.
BufferFails(p, b) ==
  /\ At(p, "buffer") /\ Claimed(p, b) /\ Troubled /\ Lets(p) /\ Goes(p, "count")
  /\ lost' = lost \cup {b}
  /\ UNCHANGED <<stop, hand, settled, excess, buffer, slots, announced, lapsed, overlapped, untidy>>

CountError(p) ==
  /\ At(p, "count") /\ Unlocked(p) /\ Goes(p, "admit")
  /\ UNCHANGED <<stop, tick, world>>

\* The oldest are dropped, by the number the push answered.
Shed(p) ==
  /\ At(p, "shed") /\ Goes(p, "admit")
  /\ excess' = [excess EXCEPT ![p] = 0]
  /\ buffer' = After(buffer, excess[p])
  /\ lost' = lost \cup (Members(buffer) \ Members(buffer'))
  /\ UNCHANGED <<stop, hand, settled, claim, slots, announced, lapsed, overlapped, untidy, trouble>>

ShedFails(p) ==
  /\ At(p, "shed") /\ Troubled /\ Goes(p, "admit")
  /\ excess' = [excess EXCEPT ![p] = 0]
  /\ UNCHANGED <<stop, hand, settled, claim, buffer, slots, announced, lapsed, lost, overlapped, untidy>>

-----------------------------------------------------------------------------
(* drainBufferedQueueReady                                                   *)

PeekBuffered(p) ==
  /\ At(p, "drain")
  /\ LET n == IF Len(buffer) < Batch THEN Len(buffer) ELSE Batch IN
       /\ hand' = [hand EXCEPT ![p] = SubSeq(buffer, 1, n)]
       /\ Goes(p, IF n = 0 THEN "admit" ELSE "republish")
  /\ UNCHANGED <<stop, settled, claim, excess, world>>

PeekFails(p) ==
  /\ At(p, "drain") /\ Troubled /\ Goes(p, "admit")
  /\ UNCHANGED <<stop, tick, buffer, slots, announced, lapsed, lost, overlapped, untidy>>

More(p) == hand[p] # <<>>
Settles(p) ==
  /\ settled' = [settled EXCEPT ![p] = @ + 1]
  /\ hand' = [hand EXCEPT ![p] = Tail(@)]

\* Mutant: the drain ends at an expired payload.
StopAtExpired(p) ==
  /\ At(p, "republish") /\ More(p) /\ Head(hand[p]) \in lapsed
  /\ hand' = [hand EXCEPT ![p] = <<>>]
  /\ UNCHANGED <<loop, stop, settled, claim, excess, world>>

\* An expired token would announce a checkout nobody can complete.
DiscardExpired(p) ==
  /\ At(p, "republish") /\ More(p) /\ Head(hand[p]) \in lapsed /\ Settles(p)
  /\ UNCHANGED <<loop, stop, claim, excess, world>>

Republish(p) ==
  /\ At(p, "republish") /\ More(p) /\ Head(hand[p]) \notin lapsed
  /\ Sends(Head(hand[p])) /\ Settles(p)
  /\ UNCHANGED <<loop, stop, claim, excess, buffer, slots, lapsed, lost, overlapped, trouble>>

\* Mutant: the drain goes on with the next payload.
RepublishSkips(p) ==
  /\ At(p, "republish") /\ More(p) /\ Head(hand[p]) \notin lapsed
  /\ hand' = [hand EXCEPT ![p] = Tail(@)]
  /\ UNCHANGED <<loop, stop, settled, claim, excess, world>>

\* The drain stops there, and a later one sends that payload again.
RepublishFails(p) ==
  /\ At(p, "republish") /\ More(p) /\ Head(hand[p]) \notin lapsed
  /\ SendFails(Head(hand[p]))
  /\ hand' = [hand EXCEPT ![p] = <<>>]
  /\ UNCHANGED <<loop, stop, settled, claim, excess, buffer, slots, lapsed, lost, overlapped, trouble>>

\* Mutant: what was published is not trimmed.
TrimNothing(p) ==
  /\ At(p, "republish") /\ ~ More(p) /\ Goes(p, "admit")
  /\ settled' = [settled EXCEPT ![p] = 0]
  /\ UNCHANGED <<stop, hand, claim, excess, world>>

TrimBuffered(p) ==
  /\ At(p, "republish") /\ ~ More(p) /\ Goes(p, "admit")
  /\ buffer' = After(buffer, settled[p])
  /\ settled' = [settled EXCEPT ![p] = 0]
  /\ UNCHANGED <<stop, hand, claim, excess, slots, announced, lapsed, lost, overlapped, untidy, trouble>>

TrimFails(p) ==
  /\ At(p, "republish") /\ ~ More(p) /\ settled[p] > 0 /\ Troubled /\ Goes(p, "admit")
  /\ settled' = [settled EXCEPT ![p] = 0]
  /\ untidy' = TRUE
  /\ UNCHANGED <<stop, hand, claim, excess, buffer, slots, announced, lapsed, lost, overlapped>>

-----------------------------------------------------------------------------
(* Time and death                                                            *)

Lapse(b) ==
  /\ b \in slots \ lapsed /\ lapsed' = lapsed \cup {b}
  /\ UNCHANGED <<loop, stop, tick, buffer, slots, announced, lost, overlapped, untidy, trouble>>

\* What the pod had in hand goes with it.
Dies(p) ==
  /\ Goes(p, "off")
  /\ hand' = [hand EXCEPT ![p] = <<>>] /\ settled' = [settled EXCEPT ![p] = 0]
  /\ claim' = [claim EXCEPT ![p] = {}] /\ excess' = [excess EXCEPT ![p] = 0]
  /\ lost' = lost \cup claim[p]
  /\ untidy' = (untidy \/ settled[p] > 0)
  /\ UNCHANGED <<buffer, slots, announced, lapsed, overlapped>>

\* After Stop, in time or not, main cancels, waits a second and returns.
Exit ==
  /\ stop = "over" /\ ~ At(Old, "off") /\ Dies(Old)
  /\ UNCHANGED <<stop, trouble>>

\* A pod that was being stopped is gone; any other starts again.
Crash(p) ==
  /\ Troubled /\ ~ At(p, "off") /\ Dies(p)
  /\ stop' = IF p = Old /\ stop = "waiting" THEN "over" ELSE stop

-----------------------------------------------------------------------------
Init ==
  /\ loop = [p \in Pods |-> "off"] /\ stop = "no"
  /\ hand = [p \in Pods |-> <<>>] /\ settled = [p \in Pods |-> 0]
  /\ claim = [p \in Pods |-> {}] /\ excess = [p \in Pods |-> 0]
  /\ buffer = <<>> /\ slots = {} /\ announced = [b \in Buyers |-> 0]
  /\ lapsed = {} /\ lost = {} /\ overlapped = FALSE /\ untidy = FALSE /\ trouble = 0

Claims(p) == \E b \in Buyers : PublishQueueReady(p, b) \/ PublishFails(p, b) \/ BufferQueueReady(p, b)
                               \/ BufferFails(p, b)
Drains(p) == PeekBuffered(p) \/ PeekFails(p) \/ DiscardExpired(p) \/ Republish(p) \/ RepublishFails(p)
             \/ TrimBuffered(p) \/ TrimFails(p)
TickGoesOn(p) == Claims(p) \/ CountError(p) \/ Shed(p) \/ ShedFails(p) \/ Drains(p)

Next ==
  \/ \E p \in Pods :
       \/ Start(p) \/ Tick(p) \/ TickGoesOn(p) \/ TickEnds(p) \/ Crash(p)
       \/ \E b \in Buyers : AddToProcessing(p, b)
  \/ BeginStop \/ StopDone \/ StopTimesOut \/ LoopEnds \/ Exit
  \/ \E b \in Buyers : Lapse(b)

Spec == Init /\ [][Next]_vars

Proceeds(p) == Start(p) \/ Tick(p) \/ TickGoesOn(p) \/ TickEnds(p)
Stopping == LoopEnds \/ StopDone \/ StopTimesOut \/ Exit

\* A pod that is not stopped runs, its ticker ticks, its tick goes on to its end,
\* Stop's own clock runs, and Kafka takes some announcement it is offered again
\* and again.
FairSpec ==
  /\ Spec
  /\ \A p \in Pods : WF_vars(Proceeds(p)) /\ SF_vars(Republish(p))
  /\ WF_vars(Stopping)

-----------------------------------------------------------------------------
TypeOK ==
  /\ loop \in [Pods -> {"off", "wait", "drain", "republish", "admit", "publish", "buffer", "count", "shed",
                        "ended"}]
  /\ stop \in {"no", "waiting", "over"}
  /\ \A p \in Pods : Len(hand[p]) + settled[p] <= Batch /\ claim[p] \subseteq Buyers
  /\ Members(buffer) \subseteq slots /\ slots \subseteq Buyers
  /\ announced \in [Buyers -> 0..2]
  /\ lapsed \subseteq slots /\ lost \subseteq slots
  /\ overlapped \in BOOLEAN /\ untidy \in BOOLEAN /\ trouble \in 0..MaxTrouble

\* Who holds a slot was told so, or is about to be, unless the window is over, the
\* announcement could not be buffered, was shed, or died with its pod.  Two ticks
\* at once may break it: each trims what the other read.
AnnouncementsAreKept ==
  \A b \in slots :
    \/ announced[b] > 0 \/ b \in Members(buffer) \/ b \in lapsed \cup lost \cup UNION {claim[p] : p \in Pods}
    \/ overlapped

\* "A failed trim republishes next tick": nothing else announces a buyer twice but
\* an answer of Kafka that was lost, at the first publish or at a later one, a
\* death between publish and trim, and two ticks at once.
DuplicatesComeFromFaults ==
  \A b \in Buyers : announced[b] > 1 => untidy \/ overlapped

\* What is buffered has its slot, a drain holds no more than a batch, and a buyer
\* hears twice only after a fault.
ProcessorInv == TypeOK /\ DuplicatesComeFromFaults

\* A tick and the Stop that waits for it while it waits for Stop's lock do not
\* hold each other up for ever.
StopsEnd == stop = "waiting" ~> stop = "over"

\* What was buffered is announced some time, or dropped for a reason.
BufferedIsAnnounced ==
  \A b \in Buyers :
    b \in Members(buffer) ~> announced[b] > 0 \/ b \in lapsed \cup lost \/ overlapped
=============================================================================
