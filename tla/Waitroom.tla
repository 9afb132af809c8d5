------------------------------ MODULE Waitroom -------------------------------
(***************************************************************************)
(* waitroom-svc: one event's line, from joining it to the end of the       *)
(* checkout it leads to.  Everything lives in Redis, one call at a time: a *)
(* join, a leave, the tick of the queue processor and the consumer of      *)
(* checkout events interleave between any two calls.  The service runs in  *)
(* one replica, so one tick runs at a time.                                *)
(*                                                                         *)
(* A session record is its status.  Its token is written with the status   *)
(* "admitted" and every reader of the token looks at the status first.     *)
(* The token and the slot end at the same instant, CheckoutExpiresAt, so   *)
(* one clock per session, window[s], stands for both.                      *)
(*                                                                         *)
(* A place in line is a score, drawn with the session; the entry is in the *)
(* sorted set only a round trip later.  arriving and line hold the scores  *)
(* drawn, and the sorted set is what they hold but for Unwritten.          *)
(***************************************************************************)
EXTENDS Integers, Sequences, FiniteSets, SequencesExt

CONSTANTS
  Sessions,   \* one per join: a buyer who comes back gets a new session
  Leavers,    \* the sessions whose buyer may call LeaveQueue
  Outcomes,   \* how an order may end
  Tickets,    \* total of the classes that can still sell
  BatchSize,  \* QUEUE_DEFAULT_RELEASE_RATE, buyers due per tick
  MaxFaults   \* bound on failed calls, crashes, unanswered questions, and
              \* sessions that reach their ExpiresAt, two hours on

ASSUME SessionsAssumption == IsFiniteSet(Sessions) /\ Leavers \subseteq Sessions
ASSUME OutcomesAssumption == Outcomes \subseteq {"completed", "failed", "expired"}
ASSUME SizesAssumption == Tickets \in Nat \ {0} /\ BatchSize \in Nat \ {0} /\ MaxFaults \in Nat

VARIABLES
  rec,       \* rec[s]: the session's status in Redis, "gone" without a record
  old,       \* sessions past ExpiresAt
  arriving,  \* who drew the second it is: all before the sale opens is one second
  line,      \* who drew one that has passed, by score, and then by lot or by uuid
  late,      \* history: whose entry came in due since the tick last looked
  active,    \* the event is in waitroom:active_events
  slots,     \* slots[s]: the chair in :checkouts, and whether stock was counted for it
  window,    \* window[s]: the checkout window of the session's token
  banned,    \* sessions whose token is on the blacklist
  join,      \* join[s]: where JoinQueue stands
  leave,     \* leave[s]: where LeaveQueue stands
  tick,      \* where the processor stands
  order,     \* order[s]: the order the token was used for, and its end
  news,      \* sessions whose checkout event is not committed yet
  hear,      \* hear[s]: where the event's handler stands, and the status it read
  faults

stored == <<rec, old, arriving, line, late, active, slots, window, banned>>
vars == <<rec, old, arriving, line, late, active, slots, window, banned,
          join, leave, tick, order, news, hear, faults>>

Ended == {"completed", "expired", "abandoned", "failed", "sold_out"}  \* IsTerminal
Resting == [step |-> "idle", due |-> <<>>, leaving |-> {}, avail |-> 0, counted |-> FALSE]

Fine == UNCHANGED faults
Fault == faults < MaxFaults /\ faults' = faults + 1

Inside == {s \in Sessions : slots[s] # "none"}
HasStatus(s, status) == rec' = [rec EXCEPT ![s] = status]

\* ZREM: the entries that stay keep their order.
Without(seq, gone) ==
  LET kept  == {i \in DOMAIN seq : seq[i] \notin gone}
      place == 1..Cardinality(kept)
      from  == CHOOSE f \in [place -> kept] : \A m, n \in place : m < n => f[m] < f[n]
  IN  [n \in place |-> seq[from[n]]]

\* Those whose ZADD is still to come, and the part of the sorted set that is due.
Unwritten == {s \in Sessions : join[s] = "created"}
Queue == Without(line, Unwritten)
InLine(s) == s \in (arriving \cup ToSet(line)) \ Unwritten

-----------------------------------------------------------------------------
(***************************************************************************)
(* Orders, and what inventory counts for them                              *)
(***************************************************************************)
Sold == Cardinality({s \in Sessions : order[s] = "completed"})
Held == Cardinality({s \in Sessions : order[s] = "holding"})
Available == Tickets - Sold - Held

\* ValidateCheckoutToken, asked by order-svc when a checkout starts.
TokenValid(s) == s \notin banned /\ window[s] = "open" /\ rec[s] = "admitted"

StartCheckout(s) ==
  /\ join[s] = "in" /\ TokenValid(s) /\ order[s] = "none" /\ Available > 0
  /\ order' = [order EXCEPT ![s] = "holding"]
  /\ Fine /\ UNCHANGED <<stored, join, leave, tick, news, hear>>

OrderEnds(s) ==
  /\ order[s] = "holding"
  /\ \E o \in Outcomes : order' = [order EXCEPT ![s] = o]
  /\ news' = news \cup {s}
  /\ Fine /\ UNCHANGED <<stored, join, leave, tick, hear>>

-----------------------------------------------------------------------------
(***************************************************************************)
(* Time                                                                    *)
(***************************************************************************)
\* Who drew the second that has passed is due, in the set or not yet, by lot or by
\* uuid among themselves and behind everybody who drew an earlier one.
NextSecond ==
  /\ arriving # {}
  /\ \E lot \in SetToSeqs(arriving) : line' = line \o lot
  /\ arriving' = {}
  /\ Fine
  /\ UNCHANGED <<rec, old, late, active, slots, window, banned, join, leave, tick, order, news, hear>>

\* A slot past its expiry is reaped by the count and refused by IsProcessing.
WindowEnds(s) ==
  /\ window[s] = "open"
  /\ window' = [window EXCEPT ![s] = "over"]
  /\ slots' = [slots EXCEPT ![s] = "none"]
  /\ Fine
  /\ UNCHANGED <<rec, old, arriving, line, late, active, banned, join, leave, tick, order, news, hear>>

Lapse(s) ==
  /\ s \notin old /\ rec[s] # "gone"
  /\ old' = old \cup {s}
  /\ Fault
  /\ UNCHANGED <<rec, arriving, line, late, active, slots, window, banned, join, leave, tick, order, news, hear>>

RecordEnds(s) ==
  /\ s \in old /\ rec[s] # "gone"
  /\ HasStatus(s, "gone")
  /\ Fine
  /\ UNCHANGED <<old, arriving, line, late, active, slots, window, banned, join, leave, tick, order, news, hear>>

-----------------------------------------------------------------------------
(***************************************************************************)
(* JoinQueue                                                               *)
(***************************************************************************)
\* The score is drawn here and written with the session.
CreateSession(s) ==
  /\ join[s] = "away"
  /\ \/ Sold < Tickets /\ Fine
     \/ Sold >= Tickets /\ Fault      \* inventory did not answer
  /\ HasStatus(s, "queued")
  /\ arriving' = arriving \cup {s}
  /\ join' = [join EXCEPT ![s] = "created"]
  /\ UNCHANGED <<old, line, late, active, slots, window, banned, leave, tick, order, news, hear>>

\* ZADD, a round trip later and with the score drawn: if the second has passed, in
\* the midst of those who are due.
AddToQueue(s) ==
  /\ join[s] = "created"
  /\ late' = late \cup ({s} \cap ToSet(line))
  /\ join' = [join EXCEPT ![s] = "added"]
  /\ Fine
  /\ UNCHANGED <<rec, old, arriving, line, active, slots, window, banned, leave, tick, order, news, hear>>

AddActiveEvent(s) ==
  /\ join[s] = "added"
  /\ active' = TRUE
  /\ join' = [join EXCEPT ![s] = "in"]
  /\ Fine
  /\ UNCHANGED <<rec, old, arriving, line, late, slots, window, banned, leave, tick, order, news, hear>>

\* The call fails or its pod dies: the buyer never learns the session's id.
JoinFails(s) ==
  /\ \/ /\ join[s] = "created"
        /\ arriving' = arriving \ {s} /\ line' = Without(line, {s})
     \/ join[s] = "added" /\ UNCHANGED <<arriving, line>>
  /\ join' = [join EXCEPT ![s] = "failed"]
  /\ Fault
  /\ UNCHANGED <<rec, old, late, active, slots, window, banned, leave, tick, order, news, hear>>

\* SADD fails: the join goes on with a warning.
JoinUnlisted(s) ==
  /\ join[s] = "added"
  /\ join' = [join EXCEPT ![s] = "in"]
  /\ Fault
  /\ UNCHANGED <<stored, leave, tick, order, news, hear>>

Join(s) == \/ CreateSession(s) \/ AddToQueue(s) \/ AddActiveEvent(s)
           \/ JoinFails(s) \/ JoinUnlisted(s)

-----------------------------------------------------------------------------
(***************************************************************************)
(* LeaveQueue                                                              *)
(***************************************************************************)
LeaveGoes(s, from, to) == leave[s] = from /\ leave' = [leave EXCEPT ![s] = to]

\* The session is read for its owner only: leaving is open to every status.
LeaveLine(s) ==
  /\ s \in Leavers /\ join[s] = "in" /\ rec[s] # "gone"
  /\ LeaveGoes(s, "no", "length")
  /\ arriving' = arriving \ {s}
  /\ line' = Without(line, {s})
  /\ Fine
  /\ UNCHANGED <<rec, old, late, active, slots, window, banned, join, tick, order, news, hear>>

LineIsEmpty == \A s \in Sessions : ~InLine(s)

ReadLength(s) ==
  /\ IF LineIsEmpty THEN LeaveGoes(s, "length", "unlist") ELSE LeaveGoes(s, "length", "status")
  /\ Fine /\ UNCHANGED <<stored, join, tick, order, news, hear>>

RemoveActiveEvent(s) ==
  /\ LeaveGoes(s, "unlist", "status")
  /\ active' = FALSE
  /\ Fine
  /\ UNCHANGED <<rec, old, arriving, line, late, slots, window, banned, join, tick, order, news, hear>>

\* Mutant: the reason of the queue.left event becomes the status.
MarkLeft(s) ==
  /\ LeaveGoes(s, "status", "done")
  /\ IF rec[s] = "gone" THEN UNCHANGED rec ELSE HasStatus(s, "user_left")
  /\ Fine
  /\ UNCHANGED <<old, arriving, line, late, active, slots, window, banned, join, tick, order, news, hear>>

MarkAbandoned(s) ==
  /\ LeaveGoes(s, "status", "done")
  /\ IF rec[s] = "gone" THEN UNCHANGED rec ELSE HasStatus(s, "abandoned")
  /\ Fine
  /\ UNCHANGED <<old, arriving, line, late, active, slots, window, banned, join, tick, order, news, hear>>

\* A call fails or the pod dies; failures before the status only skip ahead
\* where the code logs and goes on.
LeaveFails(s) ==
  /\ \/ LeaveGoes(s, "length", "status")
     \/ LeaveGoes(s, "unlist", "status")
     \/ LeaveGoes(s, "status", "failed")
  /\ Fault /\ UNCHANGED <<stored, join, tick, order, news, hear>>

Leave(s) == \/ LeaveLine(s) \/ ReadLength(s)
            \/ RemoveActiveEvent(s) \/ MarkAbandoned(s) \/ LeaveFails(s)

-----------------------------------------------------------------------------
(***************************************************************************)
(* The tick                                                                *)
(***************************************************************************)
At(step) == tick.step = step /\ tick.due # <<>>
Turn == Head(tick.due)

\* The entry whose turn it was is done; a batch without entries left is over.
NextTurn(step, left) ==
  tick' = [tick EXCEPT !.due = Tail(@), !.leaving = @ \cup left,
                       !.step = IF Len(tick.due) = 1 THEN "remove" ELSE step]
Settled == NextTurn("get", {Turn})
Goes(step) == tick' = [tick EXCEPT !.step = step]
TickOnly == UNCHANGED <<stored, join, leave, order, news, hear>>

\* Mutant: the batch is cut from the wrong end.
LastOnes(n, seq) == SubSeq(seq, IF n < Len(seq) THEN Len(seq) - n + 1 ELSE 1, Len(seq))
FirstOnes(n, seq) == SubSeq(seq, 1, IF n < Len(seq) THEN n ELSE Len(seq))

PeekQueue ==
  /\ tick.step = "idle" /\ active /\ Queue # <<>>
  /\ tick' = [Resting EXCEPT !.step = "stock", !.due = FirstOnes(BatchSize, Queue)]
  /\ late' = {}
  /\ Fine
  /\ UNCHANGED <<rec, old, arriving, line, active, slots, window, banned, join, leave, order, news, hear>>

\* What the door does: closeLine and dropDeadHead peek again, 100 entries.
Door == CASE Sold >= Tickets -> "close"
          [] Sold < Tickets /\ Available <= 0 -> "dead"
          [] OTHER -> "count"

AskStock ==
  /\ At("stock")
  /\ tick' = IF Door = "count"
             THEN [tick EXCEPT !.step = Door, !.avail = Available, !.counted = TRUE]
             ELSE [tick EXCEPT !.step = IF Queue = <<>> THEN "remove" ELSE Door, !.due = Queue]
  /\ Fine /\ TickOnly

\* Inventory does not answer within a second: the door fails open.
StockUnanswered == At("stock") /\ Goes("count") /\ Fault /\ TickOnly

\* Mutants: the buyers inside are not counted; the last ticket is kept back.
AdmitWhatIsLeft(due, inside) ==
  IF tick.counted /\ tick.avail < due THEN tick.avail ELSE due
AdmitShort(due, inside) ==
  IF ~tick.counted THEN due
  ELSE LET room == tick.avail - inside - 1 IN IF room < 0 THEN 0 ELSE IF room < due THEN room ELSE due
AdmitCount(due, inside) ==
  IF tick.counted
  THEN LET room == tick.avail - inside IN IF room < 0 THEN 0 ELSE IF room < due THEN room ELSE due
  ELSE due

CountRoom ==
  /\ At("count")
  /\ LET n == AdmitCount(Len(tick.due), Cardinality(Inside)) IN
     tick' = IF n = 0 THEN Resting ELSE [tick EXCEPT !.step = "get", !.due = FirstOnes(n, @), !.avail = 0]
  /\ Fine /\ TickOnly

\* Mutant: only the expiry is looked at.
CanAdmitThoughEnded(s) == rec[s] # "gone" /\ s \notin old
CanAdmit(s) == rec[s] = "queued" /\ s \notin old
\* Mutant: a half-finished admission counts as settled.
NeverResume(s) == FALSE /\ s \in Sessions
CanResume(s) == rec[s] = "admitted" /\ s \notin old /\ window[s] = "open"

ReadSession ==
  /\ At("get")
  /\ \/ CanAdmit(Turn) /\ Goes("token")
     \/ CanResume(Turn) /\ Goes("holding")
     \/ ~CanAdmit(Turn) /\ ~CanResume(Turn) /\ Settled
  /\ Fine /\ TickOnly

\* UpdateCheckoutToken reads the record again and writes it back admitted,
\* whatever status it found.
UpdateCheckoutToken ==
  /\ At("token")
  /\ IF rec[Turn] = "gone"
     THEN Goes("get") /\ UNCHANGED <<rec, window>>
     ELSE /\ HasStatus(Turn, "admitted")
          /\ window' = [window EXCEPT ![Turn] = "open"]
          /\ Goes("claim")
  /\ Fine
  /\ UNCHANGED <<old, arriving, line, late, active, slots, banned, join, leave, order, news, hear>>

IsProcessing ==
  /\ At("holding")
  /\ IF slots[Turn] # "none" THEN Settled ELSE Goes("claim")
  /\ Fine /\ TickOnly

AddToProcessing ==
  /\ At("claim")
  /\ slots' = [slots EXCEPT ![Turn] = IF window[Turn] # "open" THEN "none"
                                      ELSE IF tick.counted THEN "counted" ELSE "uncounted"]
  /\ Settled /\ Fine
  /\ UNCHANGED <<rec, old, arriving, line, late, active, window, banned, join, leave, order, news, hear>>

\* A call of the admission fails: tried again from GetSession, or left queued
\* once the attempts are used up.
AdmissionFails ==
  /\ \E step \in {"get", "token", "holding", "claim"} : At(step)
  /\ Goes("get") \/ NextTurn("get", {})
  /\ Fault /\ TickOnly

ReadWhileClosing ==
  /\ At("close")
  /\ \/ rec[Turn] = "queued" /\ Goes("closing")
     \/ rec[Turn] \in Ended \cup {"gone"} /\ NextTurn("close", {Turn})
     \/ rec[Turn] = "admitted" /\ NextTurn("close", {})
  /\ Fine /\ TickOnly

CloseSession ==
  /\ At("closing")
  /\ IF rec[Turn] = "gone"
     THEN UNCHANGED rec /\ NextTurn("close", {})
     ELSE HasStatus(Turn, "sold_out") /\ NextTurn("close", {Turn})
  /\ Fine
  /\ UNCHANGED <<old, arriving, line, late, active, slots, window, banned, join, leave, order, news, hear>>

DropDeadHead ==
  /\ At("dead")
  /\ IF rec[Turn] \in Ended \cup {"gone"} \/ Turn \in old
     THEN NextTurn("dead", {Turn})
     ELSE tick' = [tick EXCEPT !.step = "remove", !.due = <<>>]
  /\ Fine /\ TickOnly

\* Only settled entries leave the line.
RemoveFromQueue ==
  /\ tick.step = "remove"
  /\ line' = Without(line, tick.leaving)
  /\ arriving' = arriving \ tick.leaving
  /\ tick' = Resting
  /\ Fine
  /\ UNCHANGED <<rec, old, late, active, slots, window, banned, join, leave, order, news, hear>>

\* The pod dies, its ten seconds run out, or the removal fails.
TickDies == tick.step # "idle" /\ tick' = Resting /\ Fault /\ TickOnly

Tick == \/ PeekQueue \/ AskStock \/ StockUnanswered \/ CountRoom \/ ReadSession
        \/ UpdateCheckoutToken \/ IsProcessing \/ AddToProcessing \/ AdmissionFails
        \/ ReadWhileClosing \/ CloseSession \/ DropDeadHead \/ RemoveFromQueue \/ TickDies

-----------------------------------------------------------------------------
(***************************************************************************)
(* HandleCheckoutCompleted, HandleCheckoutFailed, HandleCheckoutExpired    *)
(***************************************************************************)
Hears(s, step) == hear' = [hear EXCEPT ![s] = [step |-> step, status |-> "gone"]]

\* GetSession, and the same read by InvalidateToken right after it.
HearSession(s) ==
  /\ s \in news /\ hear[s].step = "idle"
  /\ IF rec[s] = "gone"
     THEN news' = news \ {s} /\ UNCHANGED hear
     ELSE hear' = [hear EXCEPT ![s] = [step |-> "ban", status |-> rec[s]]] /\ UNCHANGED news
  /\ Fine /\ UNCHANGED <<stored, join, leave, tick, order>>

\* Writes the record it read back, with the token invalidated.
InvalidateToken(s) ==
  /\ hear[s].step = "ban" /\ Hears(s, "free")
  /\ banned' = banned \cup {s}
  /\ HasStatus(s, hear[s].status)
  /\ Fine
  /\ UNCHANGED <<old, arriving, line, late, active, slots, window, join, leave, tick, order, news>>

RemoveFromProcessing(s) ==
  /\ hear[s].step = "free" /\ Hears(s, "write")
  /\ slots' = [slots EXCEPT ![s] = "none"]
  /\ Fine
  /\ UNCHANGED <<rec, old, arriving, line, late, active, window, banned, join, leave, tick, order, news>>

UpdateSession(s) ==
  /\ hear[s].step = "write"
  /\ HasStatus(s, order[s])
  /\ Hears(s, "idle")
  /\ \/ news' = news \ {s} /\ Fine
     \/ news' = news /\ Fault       \* not marked: delivered again
  /\ UNCHANGED <<old, arriving, line, late, active, slots, window, banned, join, leave, tick, order>>

\* A failed InvalidateToken or RemoveFromProcessing is logged and skipped; any
\* other failure, or the consumer's death, redelivers or goes to the DLQ.
HearingFails(s) ==
  /\ \/ hear[s].step = "ban" /\ Hears(s, "free") /\ UNCHANGED news
     \/ hear[s].step = "free" /\ Hears(s, "write") /\ UNCHANGED news
     \/ hear[s].step # "idle" /\ Hears(s, "idle") /\ news' \in {news, news \ {s}}
  /\ Fault /\ UNCHANGED <<stored, join, leave, tick, order>>

Hear(s) == \/ HearSession(s) \/ InvalidateToken(s)
           \/ RemoveFromProcessing(s) \/ UpdateSession(s) \/ HearingFails(s)

-----------------------------------------------------------------------------
Init ==
  /\ rec = [s \in Sessions |-> "gone"] /\ old = {}
  /\ arriving = {} /\ line = <<>> /\ late = {} /\ active = FALSE
  /\ slots = [s \in Sessions |-> "none"] /\ window = [s \in Sessions |-> "none"] /\ banned = {}
  /\ join = [s \in Sessions |-> "away"] /\ leave = [s \in Sessions |-> "no"]
  /\ tick = Resting
  /\ order = [s \in Sessions |-> "none"] /\ news = {}
  /\ hear = [s \in Sessions |-> [step |-> "idle", status |-> "gone"]]
  /\ faults = 0

Next ==
  \/ NextSecond \/ Tick
  \/ \E s \in Sessions : \/ StartCheckout(s) \/ OrderEnds(s) \/ WindowEnds(s) \/ Lapse(s) \/ RecordEnds(s)
                         \/ Join(s) \/ Leave(s) \/ Hear(s)

Spec == Init /\ [][Next]_vars

\* The ticker fires every second and its calls return; a pod that answers a
\* join, a leave or an event goes on with it; a second passes, a window ends and
\* order-svc settles or times out every order.  Nothing makes a buyer join,
\* leave or start a checkout, a session lapse, or a call fail.
FairSpec ==
  /\ Spec
  /\ WF_vars(Tick) /\ WF_vars(NextSecond)
  /\ \A s \in Sessions :
       /\ WF_vars(AddToQueue(s)) /\ WF_vars(AddActiveEvent(s))
       /\ WF_vars(ReadLength(s) \/ RemoveActiveEvent(s) \/ MarkAbandoned(s))
       /\ WF_vars(Hear(s)) /\ WF_vars(WindowEnds(s)) /\ WF_vars(OrderEnds(s))

-----------------------------------------------------------------------------
(***************************************************************************)
(* What must hold                                                          *)
(***************************************************************************)
\* Statuses are those of SessionStatus, places and slots hold sessions, and an
\* admission's budget stays within the event's tickets.
TypeOK ==
  /\ rec \in [Sessions -> Ended \cup {"queued", "admitted", "gone"}]
  /\ old \subseteq Sessions /\ arriving \subseteq Sessions /\ late \subseteq Sessions
  /\ line \in Seq(Sessions) /\ active \in BOOLEAN
  /\ slots \in [Sessions -> {"none", "counted", "uncounted"}]
  /\ window \in [Sessions -> {"none", "open", "over"}] /\ banned \subseteq Sessions
  /\ join \in [Sessions -> {"away", "created", "added", "in", "failed"}]
  /\ leave \in [Sessions -> {"no", "length", "unlist", "status", "done", "failed"}]
  /\ tick.due \in Seq(Sessions) /\ tick.leaving \subseteq Sessions /\ tick.avail \in 0..Tickets
  /\ order \in [Sessions -> {"none", "holding"} \cup Outcomes] /\ news \subseteq Sessions
  /\ faults \in 0..MaxFaults

\* ProcessEventQueue's own invariant, "a session is never in neither the queue
\* nor the processing set": whatever fails between an admission's calls, a buyer
\* who joined, did not leave and has not ordered stands in line or holds a slot
\* until their token's window is over.
NobodyIsLost ==
  \A s \in Sessions :
    join[s] = "in" /\ leave[s] = "no" /\ order[s] = "none" /\ s \notin old
      /\ rec[s] \in {"queued", "admitted"} /\ window[s] # "over"
    => InLine(s) \/ slots[s] # "none"

\* An event admits buyers only while it has tickets for them: the slots given on
\* inventory's counts never outnumber the event's tickets, though the counts, the
\* slots and the line are read and written one call at a time (admitCount).
RoomFitsTickets ==
  Cardinality({s \in Sessions : slots[s] = "counted"}) <= Tickets

\* "Ended is final for that session": no admission, resume or stale write-back of
\* InvalidateToken puts a session that ended back in the line or inside.  A leave
\* can be undone by the admission it races, so "abandoned" is left out.
EndedIsFinal ==
  [][\A s \in Sessions :
       rec[s] \in Ended \ {"abandoned"} => rec'[s] \notin {"queued", "admitted"}]_vars

\* Buyers are let in by their place in line: as long as nothing fails, a slot is
\* claimed only when nobody due ahead can still be admitted, but for those whose
\* entry came in ahead after the tick had looked.  A join may be that late, since
\* it draws its score a round trip before its entry is there: the batch the tick
\* had read passes it, and no later batch does.
NoOvertaking ==
  [][\A t \in Sessions :
       faults = 0 /\ slots[t] = "none" /\ slots'[t] # "none" =>
         \A j \in DOMAIN Queue : Queue[j] = t =>
           \A i \in 1..(j - 1) : ~CanAdmit(Queue[i]) \/ Queue[i] \in late]_vars

\* Every waiter of a listed event is answered: admitted, told that it is sold
\* out, or gone of their own accord, whatever those inside do with their slots.
WaitersAreAnswered ==
  \A s \in Sessions :
    (InLine(s) /\ rec[s] = "queued" /\ active) ~> (~InLine(s) \/ rec[s] # "queued" \/ ~active)

\* waitroom:active_events is the "Set of event IDs with queues": once the joins
\* and leaves under way are over, an event with a waiter is in it.
QueuedEventsAreActive ==
  (\A s \in Sessions : join[s] \in {"away", "in"} /\ leave[s] \in {"no", "done"})
    /\ ~LineIsEmpty
  => active
=============================================================================
