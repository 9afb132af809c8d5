---------------------------- MODULE PaymentOutbox ----------------------------
(***************************************************************************)
(* payment-svc: from a payment intent to an event on Kafka.                *)
(*                                                                         *)
(* createPaymentIntent is called again by Temporal while an earlier call   *)
(* may still run.  The webhook settles a payment and writes its outbox row *)
(* in one transaction.  Several relay pods claim rows FOR UPDATE SKIP      *)
(* LOCKED, publish them and mark them, all in one transaction.  A publish  *)
(* is up to MaxSends sends, each a new message to Kafka: one may land and  *)
(* lose its answer, and a pod may die anywhere.  The daily cleanup deletes *)
(* published rows and reports exhausted ones.                              *)
(*                                                                         *)
(* The provider is external: it decides a payment once, and repeats its    *)
(* callback as often as it likes.                                          *)
(***************************************************************************)
EXTENDS Integers, FiniteSets, Sequences

CONSTANTS
  Payments,     \* one per order: orderCode and idempotencyKey are unique
  Calls,        \* calls of createPaymentIntent; each would make its own link
  PaymentOf,    \* PaymentOf[k]: the payment call k is about
  Relays,       \* pods of outbox-relay
  BatchSize,    \* OUTBOX_BATCH_SIZE
  MaxRetries,   \* OUTBOX_MAX_RETRIES
  MaxSends,     \* maxRetries of publishWithRetry: sends of one publish
  MaxRows,      \* bound on outbox rows
  MaxFaults     \* bound on failed sends, failed commits and crashes

ASSUME CallsAssumption == PaymentOf \in [Calls -> Payments]
ASSUME RelayAssumption == BatchSize \in Nat \ {0} /\ MaxRetries \in Nat \ {0} /\ MaxSends \in Nat \ {0}
ASSUME BoundsAssumption == MaxRows \in Nat /\ MaxFaults \in Nat

VARIABLES
  call,      \* call[k]: "new", "link", "saved", "over"
  handed,    \* calls whose own or whose winner's link was returned: [by, link]
  link,      \* link[p]: the call whose link the payment row holds, or NoLink
  verdict,   \* verdict[p]: what the provider decided
  status,    \* status[p]: the payment row
  outbox,    \* the outbox table in createdAt order
  relay,     \* relay[r]: where the pod's drain stands
  sent,      \* sent[i]: how often the event of row i is on the topic
  reported,  \* rows sent to the dead-letter queue
  faults

intents == <<call, handed, link>>
vars == <<call, handed, link, verdict, status, outbox, relay, sent, reported, faults>>

\* No call is the missing link.
NoLink == "none"
ASSUME NoLinkAssumption == NoLink \notin Calls

Row == [payment : Payments, event : {"COMPLETED", "FAILED"}, retries : 0..MaxRetries,
        state : {"unpublished", "published", "deleted"}]
Rows == 1..Len(outbox)

\* tries: the sends that failed in this round, for each row.
NoTries == [i \in 1..MaxRows |-> 0]
Idle == [step |-> "idle", again |-> FALSE, batch |-> {}, ok |-> {}, tries |-> NoTries]

Fine == UNCHANGED faults
Fault == faults < MaxFaults /\ faults' = faults + 1

-----------------------------------------------------------------------------
(***************************************************************************)
(* createPaymentIntent                                                     *)
(***************************************************************************)
Hand(k, l) == handed' = handed \cup {[by |-> k, link |-> l]}

FindExisting(k) ==
  LET p == PaymentOf[k] IN
  /\ call[k] = "new"
  /\ IF link[p] # NoLink
     THEN call' = [call EXCEPT ![k] = "over"] /\ Hand(k, link[p])
     ELSE call' = [call EXCEPT ![k] = "link"] /\ UNCHANGED handed
  /\ Fine /\ UNCHANGED <<link, verdict, status, outbox, relay, sent, reported>>

\* Mutant: the loser of the insert race returns its own link.
SaveKeepingOwnLink(k) ==
  LET p == PaymentOf[k] IN
  /\ call[k] = "link"
  /\ call' = [call EXCEPT ![k] = "over"]
  /\ Hand(k, k)
  /\ link' = IF link[p] = NoLink THEN [link EXCEPT ![p] = k] ELSE link
  /\ status' = IF link[p] = NoLink THEN [status EXCEPT ![p] = "PENDING"] ELSE status
  /\ Fine /\ UNCHANGED <<verdict, outbox, relay, sent, reported>>

\* The gateway made a link; the insert wins, or P2002 says who won.
Save(k) ==
  LET p == PaymentOf[k]
      winner == IF link[p] = NoLink THEN k ELSE link[p] IN
  /\ call[k] = "link"
  /\ call' = [call EXCEPT ![k] = "over"]
  /\ Hand(k, winner)
  /\ link' = [link EXCEPT ![p] = winner]
  /\ status' = IF link[p] = NoLink THEN [status EXCEPT ![p] = "PENDING"] ELSE status
  /\ Fine /\ UNCHANGED <<verdict, outbox, relay, sent, reported>>

\* The buyer pays, or does not, through a link that was handed out.
ProviderDecides(p, v) ==
  /\ verdict[p] = "open" /\ \E h \in handed : PaymentOf[h.by] = p
  /\ verdict' = [verdict EXCEPT ![p] = v]
  /\ Fine /\ UNCHANGED <<intents, status, outbox, relay, sent, reported>>

-----------------------------------------------------------------------------
(***************************************************************************)
(* Callbacks.                                                              *)
(***************************************************************************)
\* MaxRows leaves room for one row of every payment that has none.
Room(p) ==
  Len(outbox) + Cardinality({q \in Payments \ {p} : status[q] \notin {"COMPLETED", "FAILED"}}) < MaxRows

Enqueue(p, e) ==
  /\ Room(p)
  /\ outbox' = Append(outbox, [payment |-> p, event |-> e, retries |-> 0, state |-> "unpublished"])
  /\ sent' = Append(sent, 0)

\* Mutant: a repeated callback completes the payment again.
MayCompleteAgain(p) == status[p] \in {"PENDING", "COMPLETED"}

\* WHERE status = 'PENDING': a repeated callback matches no row.
MayComplete(p) == status[p] = "PENDING"

\* Mutant: two transactions, the row first.
CompletePaymentAfterEnqueue(p) ==
  /\ verdict[p] = "paid" /\ MayComplete(p)
  /\ \/ Enqueue(p, "COMPLETED") /\ UNCHANGED status
     \/ /\ \E i \in Rows : outbox[i].payment = p
        /\ status' = [status EXCEPT ![p] = "COMPLETED"]
        /\ UNCHANGED <<outbox, sent>>
  /\ Fine /\ UNCHANGED <<intents, verdict, relay, reported>>

CompletePaymentAndEnqueue(p) ==
  /\ verdict[p] = "paid" /\ MayComplete(p)
  /\ status' = [status EXCEPT ![p] = "COMPLETED"]
  /\ Enqueue(p, "COMPLETED")
  /\ Fine /\ UNCHANGED <<intents, verdict, relay, reported>>

\* Unconditional: every repetition writes another row.
HandleFailedPayment(p) ==
  /\ verdict[p] = "refused" /\ status[p] # "none"
  /\ status' = [status EXCEPT ![p] = "FAILED"]
  /\ Enqueue(p, "FAILED")
  /\ Fine /\ UNCHANGED <<intents, verdict, relay, reported>>

-----------------------------------------------------------------------------
(***************************************************************************)
(* The relay.                                                              *)
(***************************************************************************)
SetRelay(r, s) == relay' = [relay EXCEPT ![r] = s]
unchangedTables == <<intents, verdict, status, outbox, sent, reported>>

\* A NOTIFY, a reconnect, the safety poll or the boot: coalesced while a drain
\* runs.
Trigger(r) ==
  /\ SetRelay(r, IF relay[r].step = "idle" THEN [relay[r] EXCEPT !.step = "claim"]
                                           ELSE [relay[r] EXCEPT !.again = TRUE])
  /\ Fine /\ UNCHANGED unchangedTables

Locked == UNION {relay[r].batch : r \in Relays}

\* Mutant: the claim does not skip what another pod holds.
ClaimableThoughLocked == {i \in Rows : outbox[i].state = "unpublished" /\ outbox[i].retries < MaxRetries}

\* Mutant: a row that failed once is not tried again.
ClaimableOnce == {i \in Rows \ Locked : outbox[i].state = "unpublished" /\ outbox[i].retries = 0}

Claimable ==
  {i \in Rows \ Locked : outbox[i].state = "unpublished" /\ outbox[i].retries < MaxRetries}

\* claimBatch: the oldest BatchSize of them.
ClaimBatch == {i \in Claimable : Cardinality({j \in Claimable : j < i}) < BatchSize}

\* The drain ends; a trigger that came meanwhile runs it once more.
Finish(r) == [Idle EXCEPT !.step = IF relay[r].again THEN "claim" ELSE "idle"]

Claim(r) ==
  /\ relay[r].step = "claim"
  /\ SetRelay(r, IF ClaimBatch = {} THEN Finish(r)
                 ELSE [relay[r] EXCEPT !.step = "publish", !.batch = ClaimBatch])
  /\ Fine /\ UNCHANGED unchangedTables

\* Rows of a batch are published side by side.
Failed(r) == {i \in relay[r].batch \ relay[r].ok : relay[r].tries[i] >= MaxSends}
Waiting(r) == relay[r].batch \ (relay[r].ok \cup Failed(r))

\* A send is answered: the publish is over.
Publish(r, i) ==
  /\ relay[r].step = "publish" /\ i \in Waiting(r)
  /\ sent' = [sent EXCEPT ![i] = @ + 1]
  /\ SetRelay(r, [relay[r] EXCEPT !.ok = @ \cup {i}])
  /\ Fine /\ UNCHANGED <<intents, verdict, status, outbox, reported>>

\* A send fails for the relay; landed says that it reached the topic all the same.
\* After MaxSends of them the publish has failed.
SendFails(r, i, landed) ==
  /\ relay[r].step = "publish" /\ i \in Waiting(r)
  /\ sent' = IF landed THEN [sent EXCEPT ![i] = @ + 1] ELSE sent
  /\ SetRelay(r, [relay[r] EXCEPT !.tries[i] = @ + 1])
  /\ Fault /\ UNCHANGED <<intents, verdict, status, outbox, reported>>

\* Mutant: a batch is marked published as a whole.
MarkedAll(r, i) ==
  IF i \in relay[r].batch THEN [outbox[i] EXCEPT !.state = "published"] ELSE outbox[i]

\* markPublished and markFailed
Marked(r, i) ==
  CASE i \in relay[r].ok -> [outbox[i] EXCEPT !.state = "published"]
    [] i \in Failed(r)    -> [outbox[i] EXCEPT !.retries = @ + 1]
    [] OTHER              -> outbox[i]

\* All settled: marked and committed.  Any failure ends the drain.
Commit(r) ==
  /\ relay[r].step = "publish" /\ Waiting(r) = {}
  /\ outbox' = [i \in Rows |-> Marked(r, i)]
  /\ SetRelay(r, IF Failed(r) = {} THEN [Idle EXCEPT !.step = "claim", !.again = relay[r].again]
                                    ELSE Finish(r))
  /\ Fine /\ UNCHANGED <<intents, verdict, status, sent, reported>>

\* The transaction rolls back: what was published stays published.
Rollback(r) ==
  /\ relay[r].step = "publish"
  /\ SetRelay(r, Finish(r))
  /\ Fault /\ UNCHANGED unchangedTables

\* The pod dies; its successor starts idle and is triggered at boot.
Crash(r) ==
  /\ relay[r].step # "idle"
  /\ SetRelay(r, Idle)
  /\ Fault /\ UNCHANGED unchangedTables

-----------------------------------------------------------------------------
\* Mutant: retention also takes rows that gave up.
ErasableWithExhausted(i) == outbox[i].state = "published" \/ outbox[i].retries = MaxRetries

\* Published longer ago than the retention.
Erasable(i) == outbox[i].state = "published"

\* The daily cleanup: deletes, then reports what no relay will claim again.
Cleanup ==
  /\ \E old \in SUBSET {i \in Rows : Erasable(i)} :
       outbox' = [i \in Rows |-> IF i \in old THEN [outbox[i] EXCEPT !.state = "deleted"] ELSE outbox[i]]
  /\ reported' = reported \cup {i \in Rows : outbox[i].state = "unpublished" /\ outbox[i].retries = MaxRetries}
  /\ Fine /\ UNCHANGED <<intents, verdict, status, relay, sent>>

-----------------------------------------------------------------------------
Init ==
  /\ call = [k \in Calls |-> "new"]
  /\ handed = {}
  /\ link = [p \in Payments |-> NoLink]
  /\ verdict = [p \in Payments |-> "open"]
  /\ status = [p \in Payments |-> "none"]
  /\ outbox = << >> /\ sent = << >>
  /\ relay = [r \in Relays |-> Idle]
  /\ reported = {}
  /\ faults = 0

Drain(r) ==
  \/ Claim(r) \/ Commit(r)
  \/ \E i \in Rows : Publish(r, i)

Next ==
  \/ \E k \in Calls : FindExisting(k) \/ Save(k)
  \/ \E p \in Payments :
       \/ \E v \in {"paid", "refused"} : ProviderDecides(p, v)
       \/ CompletePaymentAndEnqueue(p) \/ HandleFailedPayment(p)
  \/ \E r \in Relays :
       \/ Trigger(r) \/ Drain(r) \/ Rollback(r) \/ Crash(r)
       \/ \E i \in Rows, landed \in BOOLEAN : SendFails(r, i, landed)
  \/ Cleanup

Spec == Init /\ [][Next]_vars

\* The provider repeats a callback until it is answered; a pod that runs gets on
\* with its drain, and the safety poll keeps triggering it.
Fairness ==
  /\ \A p \in Payments : WF_vars(CompletePaymentAndEnqueue(p))
  /\ \A r \in Relays : WF_vars(Trigger(r)) /\ WF_vars(Drain(r))

FairSpec == Spec /\ Fairness

-----------------------------------------------------------------------------
(***************************************************************************)
(* Safety.                                                                 *)
(***************************************************************************)

\* Whoever asks for the payment link of an order gets the link whose callback
\* payment-svc recognises, also when two calls race to create it.
HandedLinksArePayable == \A h \in handed : link[PaymentOf[h.by]] = h.link

\* A settled payment never loses its event: until it is on the topic, its row is
\* in the table, unpublished; failed publishes, rollbacks and the cleanup included.
Undelivered(i) == sent[i] = 0
SettledPaymentsKeepTheirEvent ==
  /\ \A p \in Payments : status[p] \in {"COMPLETED", "FAILED"} => \E i \in Rows : outbox[i].payment = p
  /\ \A i \in Rows : Undelivered(i) => outbox[i].state = "unpublished"

\* Repeated callbacks and racing pods do not multiply events: a completion is
\* published once, and once more for each failed send, rollback or crash at most.
DuplicatesComeFromFaults ==
  \A p \in Payments :
     LET mine == {i \in Rows : outbox[i].payment = p /\ outbox[i].event = "COMPLETED"} IN
     Cardinality(mine) <= 1 /\ \A i \in mine : sent[i] <= 1 + faults

(***************************************************************************)
(* Liveness: a completed payment reaches the topic, unless its row gave up *)
(* after MaxRetries rounds.                                                *)
(***************************************************************************)
Exhausted(i) == outbox[i].retries = MaxRetries
CompletionsAreAnnounced ==
  \A p \in Payments :
     verdict[p] = "paid" ~> \E i \in Rows : outbox[i].payment = p /\ (~ Undelivered(i) \/ Exhausted(i))

(***************************************************************************)
(* Refinement: payments settle once and are announced afterwards.          *)
(***************************************************************************)
Settled == [p \in Payments |-> IF status[p] \in {"COMPLETED", "FAILED"} THEN status[p] ELSE "open"]
Announced == {outbox[i].payment : i \in {j \in Rows : ~ Undelivered(j)}}

Promise == INSTANCE PaymentEvents WITH settled <- Settled, announced <- Announced
KeepsPromise == Promise!Spec
=============================================================================
