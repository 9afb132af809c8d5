------------------------ MODULE PaymentOutboxProofs ------------------------
(***************************************************************************)
(* Proofs about PaymentOutbox, for any number of payments, calls, relay    *)
(* pods, rows and faults: the link a buyer is handed is the one whose      *)
(* callback is recognised, no settled payment loses its event, repetitions *)
(* are bounded by what went wrong, and PaymentEvents is implemented.       *)
(***************************************************************************)
EXTENDS PaymentOutbox, SequenceTheorems, FiniteSetTheorems, TLAPS

Pod == [step : {"idle", "claim", "publish"}, again : BOOLEAN,
        batch : SUBSET Nat, ok : SUBSET Nat, tries : [1..MaxRows -> Nat]]

Typed ==
  /\ call \in [Calls -> {"new", "link", "over"}]
  /\ handed \subseteq [by : Calls, link : Calls]
  /\ link \in [Payments -> Calls \cup {NoLink}]
  /\ verdict \in [Payments -> {"open", "paid", "refused"}]
  /\ status \in [Payments -> {"none", "PENDING", "COMPLETED", "FAILED"}]
  /\ outbox \in Seq(Row) /\ sent \in Seq(Nat) /\ Len(sent) = Len(outbox)
  /\ relay \in [Relays -> Pod]
  /\ faults \in Nat

\* A payment row exists as soon as it holds a link, and ends as the provider said.
RowsOfPayments ==
  \A p \in Payments : /\ link[p] = NoLink <=> status[p] = "none"
                      /\ status[p] = "COMPLETED" => verdict[p] = "paid"
                      /\ status[p] = "FAILED" => verdict[p] = "refused"

\* An outbox row says how its payment ended, and was written with that end.
RowsTellTheEnd ==
  /\ \A i \in Rows : status[outbox[i].payment] = outbox[i].event
  /\ \A p \in Payments : status[p] \in {"COMPLETED", "FAILED"} => \E i \in Rows : outbox[i].payment = p
  /\ \A i, j \in Rows : outbox[i].event = "COMPLETED" /\ outbox[j].payment = outbox[i].payment => i = j

\* A pod that publishes holds its rows: no other pod does, and they stay unpublished.
Batches ==
  /\ \A r \in Relays :
       /\ relay[r].step # "publish" => relay[r].batch = {}
       /\ relay[r].ok \subseteq relay[r].batch
       /\ relay[r].batch \subseteq Rows
       /\ \A i \in relay[r].batch : outbox[i].state = "unpublished" /\ outbox[i].retries < MaxRetries
  /\ \A r, s \in Relays : r # s => relay[r].batch \cap relay[s].batch = {}

\* Published by a drain that has not committed yet.
InHand(i) == \E r \in Relays : i \in relay[r].ok

\* Each event is on the topic once if it was published, and once more per fault.
Counted ==
  \A i \in Rows :
     /\ outbox[i].state # "unpublished" \/ InHand(i) => sent[i] >= 1
     /\ sent[i] <= faults + 1
     /\ outbox[i].state = "unpublished" /\ ~ InHand(i) => sent[i] <= faults

Inv == Typed /\ RowsOfPayments /\ HandedLinksArePayable /\ RowsTellTheEnd /\ Batches /\ Counted

\* The columns of an outbox row, and the count of its event.
LEMMA RowFields ==
  ASSUME Typed, NEW i \in Rows
  PROVE  /\ outbox[i] \in Row /\ sent[i] \in Nat /\ i \in Nat
         /\ outbox[i].payment \in Payments /\ outbox[i].event \in {"COMPLETED", "FAILED"}
         /\ outbox[i].retries \in 0..MaxRetries /\ outbox[i].state \in {"unpublished", "published", "deleted"}
<1>1. outbox[i] \in Row
  BY ElementOfSeq DEF Typed, Rows
<1>2. i \in 1..Len(sent) /\ sent \in Seq(Nat)
  BY DEF Typed, Rows
<1>3. sent[i] \in Nat
  BY <1>2, ElementOfSeq
<1>. QED  BY <1>1, <1>2, <1>3 DEF Row

LEMMA InitInv == Init => Inv
<1> SUFFICES ASSUME Init PROVE Inv
  OBVIOUS
<1>1. outbox = << >> /\ sent = << >> /\ Rows = {} /\ \A r \in Relays : relay[r] = Idle
  BY DEF Init, Rows
<1>2. Idle \in Pod
  BY DEF Idle, NoTries, Pod
<1>3. Typed
  BY <1>1, <1>2 DEF Init, Typed
<1>4. RowsOfPayments /\ HandedLinksArePayable
  BY DEF Init, RowsOfPayments, HandedLinksArePayable
<1>5. RowsTellTheEnd
  BY <1>1 DEF Init, RowsTellTheEnd
<1>6. Batches
  BY <1>1 DEF Batches, Idle
<1>7. Counted
  BY <1>1 DEF Counted
<1>. QED  BY <1>3, <1>4, <1>5, <1>6, <1>7 DEF Inv

-----------------------------------------------------------------------------
(***************************************************************************)
(* The request and the provider.                                           *)
(***************************************************************************)

\* Nothing of the outbox moves.
OutboxStays == UNCHANGED <<outbox, sent, relay, faults>>

LEMMA OutboxIdle ==
  ASSUME Batches, Counted, OutboxStays
  PROVE  Batches' /\ Counted' /\ Rows' = Rows
<1>1. Rows' = Rows
  BY DEF OutboxStays, Rows
<1>2. Batches'
  BY <1>1 DEF OutboxStays, Batches
<1>3. \A i : InHand(i)' <=> InHand(i)
  BY DEF OutboxStays, InHand
<1>4. Counted'
  BY <1>1, <1>3 DEF OutboxStays, Counted
<1>. QED  BY <1>1, <1>2, <1>4

\* Finding the payment, or saving it, hands out the link the payment row holds.
LEMMA CallKeepsInv ==
  ASSUME Inv, NEW k \in Calls, FindExisting(k) \/ Save(k)
  PROVE  Inv'
<1> DEFINE p == PaymentOf[k]
<1>1. p \in Payments
  BY CallsAssumption
<1>2. OutboxStays /\ verdict' = verdict
  BY DEF FindExisting, Save, Fine, OutboxStays
<1>3. Batches' /\ Counted' /\ Rows' = Rows
  BY <1>2, OutboxIdle DEF Inv
<1>4. PICK l \in Calls :
        /\ handed' = handed \/ (handed' = handed \cup {[by |-> k, link |-> l]} /\ link'[p] = l)
        /\ call' \in [Calls -> {"new", "link", "over"}]
        /\ \/ UNCHANGED <<link, status>>
           \/ /\ link[p] = NoLink
              /\ link' = [link EXCEPT ![p] = l] /\ status' = [status EXCEPT ![p] = "PENDING"]
  <2>1. CASE FindExisting(k)
    <3>1. CASE link[p] # NoLink
      <4>1. link[p] \in Calls
        BY <1>1, <3>1 DEF Inv, Typed
      <4>2. link' = link /\ status' = status /\ handed' = handed \cup {[by |-> k, link |-> link[p]]}
        BY <2>1, <3>1 DEF FindExisting, Hand
      <4>3. call' \in [Calls -> {"new", "link", "over"}]
        BY <2>1 DEF FindExisting, Inv, Typed
      <4>. QED  BY <4>1, <4>2, <4>3
    <3>2. CASE link[p] = NoLink
      <4>1. link' = link /\ status' = status /\ handed' = handed
        BY <2>1, <3>2 DEF FindExisting
      <4>2. call' \in [Calls -> {"new", "link", "over"}]
        BY <2>1 DEF FindExisting, Inv, Typed
      <4>. QED  BY <4>1, <4>2
    <3>. QED  BY <3>1, <3>2
  <2>2. CASE Save(k)
    <3>1. call' \in [Calls -> {"new", "link", "over"}]
      BY <2>2 DEF Save, Inv, Typed
    <3>2. CASE link[p] = NoLink
      <4>1. /\ handed' = handed \cup {[by |-> k, link |-> k]}
            /\ link' = [link EXCEPT ![p] = k] /\ status' = [status EXCEPT ![p] = "PENDING"]
        BY <2>2, <3>2 DEF Save, Hand
      <4>2. link'[p] = k
        BY <1>1, <4>1 DEF Inv, Typed
      <4>. QED  BY <3>1, <3>2, <4>1, <4>2
    <3>3. CASE link[p] # NoLink
      <4>1. link[p] \in Calls
        BY <1>1, <3>3 DEF Inv, Typed
      <4>2. /\ handed' = handed \cup {[by |-> k, link |-> link[p]]}
            /\ link' = [link EXCEPT ![p] = link[p]] /\ status' = status
        BY <2>2, <3>3 DEF Save, Hand
      <4>3. link' = link
        BY <4>2, <1>1 DEF Inv, Typed
      <4>. QED  BY <3>1, <4>1, <4>2, <4>3
    <3>. QED  BY <3>2, <3>3
  <2>. QED  BY <2>1, <2>2
<1>5. link[p] = NoLink => status[p] = "none"
  BY <1>1 DEF Inv, RowsOfPayments
<1>6. Typed'
  <2>1. link' \in [Payments -> Calls \cup {NoLink}]
    <3>1. link \in [Payments -> Calls \cup {NoLink}]
      BY DEF Inv, Typed
    <3>2. link' = link \/ link' = [link EXCEPT ![p] = l]
      BY <1>4
    <3>. QED  BY <3>1, <3>2
  <2>2. status' \in [Payments -> {"none", "PENDING", "COMPLETED", "FAILED"}]
    BY <1>4 DEF Inv, Typed
  <2>3. handed' \subseteq [by : Calls, link : Calls]
    <3>1. handed \subseteq [by : Calls, link : Calls]
      BY DEF Inv, Typed
    <3>2. [by |-> k, link |-> l] \in [by : Calls, link : Calls]
      OBVIOUS
    <3>. QED  BY <1>4, <3>1, <3>2
  <2>. QED  BY <1>2, <1>4, <2>1, <2>2, <2>3 DEF Inv, Typed, OutboxStays
<1>7. \A q \in Payments : \/ link'[q] = link[q] /\ status'[q] = status[q]
                          \/ /\ link[q] = NoLink /\ status[q] = "none"
                             /\ link'[q] \in Calls /\ status'[q] = "PENDING"
  BY <1>4, <1>5 DEF Inv, Typed
<1>8. RowsOfPayments'
  BY <1>2, <1>7, NoLinkAssumption DEF Inv, RowsOfPayments
<1>9. HandedLinksArePayable'
  <2>1. ASSUME NEW h \in handed PROVE link'[PaymentOf[h.by]] = h.link
    <3>1. h.link \in Calls /\ link[PaymentOf[h.by]] = h.link /\ PaymentOf[h.by] \in Payments
      BY CallsAssumption DEF Inv, Typed, HandedLinksArePayable
    <3>. QED  BY <1>7, <3>1, NoLinkAssumption
  <2>2. handed' \subseteq handed \cup {[by |-> k, link |-> link'[p]]}
    BY <1>4
  <2>. QED  BY <2>1, <2>2 DEF HandedLinksArePayable
<1>10. RowsTellTheEnd'
  <2>1. \A i \in Rows : outbox[i].payment \in Payments /\ outbox[i].event \in {"COMPLETED", "FAILED"}
    BY RowFields DEF Inv
  <2>2. outbox' = outbox
    BY <1>2 DEF OutboxStays
  <2>. QED  BY <1>3, <1>7, <2>1, <2>2 DEF Inv, RowsTellTheEnd
<1>. QED  BY <1>3, <1>6, <1>8, <1>9, <1>10 DEF Inv

\* The provider's word is its last.
LEMMA ProviderKeepsInv ==
  ASSUME Inv, NEW p \in Payments, NEW v \in {"paid", "refused"}, ProviderDecides(p, v)
  PROVE  Inv'
<1>1. OutboxStays /\ UNCHANGED <<call, handed, link, status>>
  BY DEF ProviderDecides, intents, Fine, OutboxStays
<1>2. Batches' /\ Counted' /\ Rows' = Rows
  BY <1>1, OutboxIdle DEF Inv
<1>3. Typed'
  BY <1>1 DEF ProviderDecides, Inv, Typed, OutboxStays
<1>4. RowsOfPayments'
  BY <1>1 DEF ProviderDecides, Inv, Typed, RowsOfPayments
<1>5. HandedLinksArePayable' /\ RowsTellTheEnd'
  BY <1>1, <1>2 DEF Inv, HandedLinksArePayable, RowsTellTheEnd, OutboxStays
<1>. QED  BY <1>2, <1>3, <1>4, <1>5 DEF Inv

-----------------------------------------------------------------------------
(***************************************************************************)
(* The callbacks: one transaction settles the payment and writes its row.  *)
(***************************************************************************)

\* A row is written last; what is there stays.
LEMMA EnqueueAppends ==
  ASSUME Typed, NEW p \in Payments, NEW e \in {"COMPLETED", "FAILED"}, Enqueue(p, e)
  PROVE  LET n == Len(outbox) + 1 IN
         /\ outbox' \in Seq(Row) /\ sent' \in Seq(Nat) /\ Len(sent') = Len(outbox')
         /\ Rows' = Rows \cup {n} /\ n \notin Rows
         /\ \A i \in Rows : outbox'[i] = outbox[i] /\ sent'[i] = sent[i]
         /\ outbox'[n] = [payment |-> p, event |-> e, retries |-> 0, state |-> "unpublished"] /\ sent'[n] = 0
<1> DEFINE rec == [payment |-> p, event |-> e, retries |-> 0, state |-> "unpublished"]
<1>1. rec \in Row
  BY RelayAssumption DEF Row
<1> HIDE DEF rec
<1>2. outbox \in Seq(Row) /\ sent \in Seq(Nat) /\ Len(sent) = Len(outbox) /\ Len(outbox) \in Nat
  BY DEF Typed
<1>3. outbox' = Append(outbox, rec) /\ sent' = Append(sent, 0)
  BY DEF Enqueue, rec
<1>4. /\ outbox' \in Seq(Row) /\ Len(outbox') = Len(outbox) + 1
      /\ \A i \in 1..Len(outbox) : outbox'[i] = outbox[i]
      /\ outbox'[Len(outbox) + 1] = rec
  BY <1>1, <1>2, <1>3, AppendProperties
<1>5. /\ sent' \in Seq(Nat) /\ Len(sent') = Len(outbox) + 1
      /\ \A i \in 1..Len(outbox) : sent'[i] = sent[i]
      /\ sent'[Len(outbox) + 1] = 0
  BY <1>2, <1>3, AppendProperties
<1>6. Rows = 1..Len(outbox) /\ Rows' = 1..(Len(outbox) + 1)
  BY <1>4 DEF Rows
<1>. QED  BY <1>2, <1>4, <1>5, <1>6 DEF rec

\* A payment is settled as the provider decided, with a row that says so.
LEMMA SettleKeepsInv ==
  ASSUME Inv, NEW p \in Payments, NEW e \in {"COMPLETED", "FAILED"}, Enqueue(p, e),
         status' = [status EXCEPT ![p] = e], status[p] # "none",
         e = "COMPLETED" => status[p] = "PENDING" /\ verdict[p] = "paid",
         e = "FAILED" => verdict[p] = "refused",
         UNCHANGED <<intents, verdict, relay, reported, faults>>
  PROVE  Inv'
<1> DEFINE n == Len(outbox) + 1
<1>1. /\ outbox' \in Seq(Row) /\ sent' \in Seq(Nat) /\ Len(sent') = Len(outbox')
      /\ Rows' = Rows \cup {n} /\ n \notin Rows
      /\ \A i \in Rows : outbox'[i] = outbox[i] /\ sent'[i] = sent[i]
      /\ outbox'[n] = [payment |-> p, event |-> e, retries |-> 0, state |-> "unpublished"] /\ sent'[n] = 0
  BY EnqueueAppends DEF Inv
<1>2. /\ outbox'[n].payment = p /\ outbox'[n].event = e /\ outbox'[n].state = "unpublished"
  BY <1>1
<1> HIDE DEF n
<1>3. /\ Typed /\ RowsOfPayments /\ RowsTellTheEnd /\ Batches /\ Counted
      /\ UNCHANGED <<call, handed, link, verdict, relay, faults>>
  BY DEF Inv, intents
<1>4. \A q \in Payments : status'[q] = IF q = p THEN e ELSE status[q]
  BY <1>3 DEF Typed
<1>5. Typed'
  <2>1. status' \in [Payments -> {"none", "PENDING", "COMPLETED", "FAILED"}]
    BY <1>3 DEF Typed
  <2>. QED  BY <1>1, <1>3, <2>1 DEF Typed
<1>6. RowsOfPayments'
  BY <1>3, <1>4 DEF RowsOfPayments
<1>7. HandedLinksArePayable'
  BY <1>3 DEF Inv, HandedLinksArePayable
<1>8. \A i \in Rows : /\ outbox[i].payment \in Payments /\ outbox[i].event \in {"COMPLETED", "FAILED"}
                      /\ status[outbox[i].payment] = outbox[i].event
                      /\ outbox[i].event = "COMPLETED" => verdict[outbox[i].payment] = "paid"
  BY <1>3, RowFields DEF RowsTellTheEnd, RowsOfPayments
<1>9. \A i \in Rows : outbox[i].payment = p => e = "FAILED" /\ outbox[i].event = "FAILED"
  BY <1>3, <1>8
<1>10. RowsTellTheEnd'
  <2>1. ASSUME NEW i \in Rows' PROVE status'[outbox'[i].payment] = outbox'[i].event
    <3>1. CASE i \in Rows
      BY <1>1, <1>4, <1>8, <1>9, <3>1
    <3>2. CASE i = n
      BY <1>2, <1>4, <3>2
    <3>. QED  BY <1>1, <2>1, <3>1, <3>2
  <2>2. ASSUME NEW q \in Payments, status'[q] \in {"COMPLETED", "FAILED"}
        PROVE  \E i \in Rows' : outbox'[i].payment = q
    <3>1. CASE q = p
      BY <1>1, <1>2, <3>1
    <3>2. CASE q # p
      <4>1. PICK i \in Rows : outbox[i].payment = q
        BY <1>3, <1>4, <2>2, <3>2 DEF RowsTellTheEnd
      <4>. QED  BY <1>1, <4>1
    <3>. QED  BY <3>1, <3>2
  <2>3. ASSUME NEW i \in Rows', NEW j \in Rows', outbox'[i].event = "COMPLETED",
               outbox'[j].payment = outbox'[i].payment
        PROVE  i = j
    <3>1. CASE i \in Rows /\ j \in Rows
      BY <1>1, <1>3, <2>3, <3>1 DEF RowsTellTheEnd
    <3>2. CASE i = n /\ j \in Rows
      BY <1>1, <1>2, <1>9, <2>3, <3>2
    <3>3. CASE i \in Rows /\ j = n
      BY <1>1, <1>2, <1>9, <2>3, <3>3
    <3>. QED  BY <1>1, <2>3, <3>1, <3>2, <3>3
  <2>. QED  BY <2>1, <2>2, <2>3 DEF RowsTellTheEnd
<1>11. Batches'
  <2>1. \A r \in Relays : \A i \in relay[r].batch : i \in Rows /\ outbox'[i] = outbox[i]
    BY <1>1, <1>3 DEF Batches
  <2>. QED  BY <1>1, <1>3, <2>1 DEF Batches
<1>12. Counted'
  <2>1. \A i : InHand(i)' <=> InHand(i)
    BY <1>3 DEF InHand
  <2>2. \A i : InHand(i) => i \in Rows
    BY <1>3 DEF InHand, Batches
  <2>3. faults \in Nat
    BY <1>3 DEF Typed
  <2>4. ASSUME NEW i \in Rows'
        PROVE  /\ outbox'[i].state # "unpublished" \/ InHand(i)' => sent'[i] >= 1
               /\ sent'[i] <= faults' + 1
               /\ outbox'[i].state = "unpublished" /\ ~ InHand(i)' => sent'[i] <= faults'
    <3>1. CASE i \in Rows
      BY <1>1, <1>3, <2>1, <3>1 DEF Counted
    <3>2. CASE i = n
      <4>1. sent'[i] = 0 /\ outbox'[i].state = "unpublished" /\ ~ InHand(i)
        BY <1>1, <1>2, <2>2, <3>2
      <4>2. 0 <= faults + 1 /\ 0 <= faults /\ faults' = faults
        BY <1>3, <2>3
      <4>. QED  BY <2>1, <4>1, <4>2
    <3>. QED  BY <1>1, <2>4, <3>1, <3>2
  <2>. QED  BY <2>4 DEF Counted
<1>. QED  BY <1>5, <1>6, <1>7, <1>10, <1>11, <1>12 DEF Inv

LEMMA CallbackKeepsInv ==
  ASSUME Inv, NEW p \in Payments, CompletePaymentAndEnqueue(p) \/ HandleFailedPayment(p)
  PROVE  Inv'
<1>1. CASE CompletePaymentAndEnqueue(p)
  BY <1>1, SettleKeepsInv DEF CompletePaymentAndEnqueue, MayComplete, Fine
<1>2. CASE HandleFailedPayment(p)
  BY <1>2, SettleKeepsInv DEF HandleFailedPayment, Fine
<1>. QED  BY <1>1, <1>2

-----------------------------------------------------------------------------
(***************************************************************************)
(* The relay.                                                              *)
(***************************************************************************)

\* The tables a payment is settled in: no relay touches them.
LEMMA RelayLeavesPayments ==
  ASSUME Inv, UNCHANGED <<intents, verdict, status>>, Rows' = Rows,
         \A i \in Rows : outbox'[i].payment = outbox[i].payment /\ outbox'[i].event = outbox[i].event
  PROVE  RowsOfPayments' /\ HandedLinksArePayable' /\ RowsTellTheEnd'
<1>1. RowsOfPayments'
  BY DEF Inv, RowsOfPayments, intents
<1>2. HandedLinksArePayable'
  BY DEF Inv, HandedLinksArePayable, intents
<1>3. RowsTellTheEnd'
  BY DEF Inv, RowsTellTheEnd
<1>. QED  BY <1>1, <1>2, <1>3

\* A pod whose batch does not grow takes nothing from another.
LEMMA PodKeepsBatches ==
  ASSUME Typed, Batches, Rows' = Rows, NEW r \in Relays, NEW s \in Pod, relay' = [relay EXCEPT ![r] = s],
         \A i \in Rows : /\ outbox'[i].state = outbox[i].state \/ i \in relay[r].batch \/ outbox[i].state = "published"
                         /\ outbox'[i].retries = outbox[i].retries \/ i \in relay[r].batch,
         s.step # "publish" => s.batch = {},
         s.ok \subseteq s.batch,
         s.batch \subseteq Rows,
         \A i \in s.batch : outbox'[i].state = "unpublished" /\ outbox'[i].retries < MaxRetries,
         \A q \in Relays \ {r} : s.batch \cap relay[q].batch = {}
  PROVE  Batches'
<1>1. \A q \in Relays : relay'[q] = IF q = r THEN s ELSE relay[q]
  BY DEF Typed
<1>2. ASSUME NEW q \in Relays
      PROVE  /\ relay'[q].step # "publish" => relay'[q].batch = {}
             /\ relay'[q].ok \subseteq relay'[q].batch
             /\ relay'[q].batch \subseteq Rows'
             /\ \A i \in relay'[q].batch : outbox'[i].state = "unpublished" /\ outbox'[i].retries < MaxRetries
  <2>1. CASE q = r
    BY <1>1, <2>1
  <2>2. CASE q # r
    <3>1. \A i \in relay[q].batch : i \in Rows /\ i \notin relay[r].batch
                                    /\ outbox[i].state = "unpublished" /\ outbox[i].retries < MaxRetries
      BY <2>2 DEF Batches
    <3>2. \A i \in relay[q].batch : outbox'[i].state = "unpublished" /\ outbox'[i].retries < MaxRetries
      BY <3>1
    <3>3. relay'[q] = relay[q]
      BY <1>1, <2>2
    <3>. QED  BY <3>2, <3>3 DEF Batches
  <2>. QED  BY <2>1, <2>2
<1>3. ASSUME NEW q \in Relays, NEW t \in Relays, q # t
      PROVE  relay'[q].batch \cap relay'[t].batch = {}
  BY <1>1, <1>3 DEF Batches
<1>. QED  BY <1>2, <1>3 DEF Batches

\* Who holds a published row that is not committed, when one pod moves.
LEMMA PodInHand ==
  ASSUME Typed, Batches, NEW r \in Relays, NEW s, relay' = [relay EXCEPT ![r] = s]
  PROVE  /\ \A i : InHand(i)' <=> i \in s.ok \/ \E q \in Relays \ {r} : i \in relay[q].ok
         /\ \A i \in relay[r].batch : \A q \in Relays \ {r} : i \notin relay[q].ok
<1>1. \A q \in Relays : relay'[q] = IF q = r THEN s ELSE relay[q]
  BY DEF Typed
<1>2. \A i : InHand(i)' <=> i \in s.ok \/ \E q \in Relays \ {r} : i \in relay[q].ok
  BY <1>1 DEF InHand
<1>3. \A i \in relay[r].batch : \A q \in Relays \ {r} : i \notin relay[q].ok
  BY DEF Batches
<1>. QED  BY <1>2, <1>3

\* A pod that is woken, or claims rows nobody holds, publishes nothing.
LEMMA QuietPod ==
  ASSUME Inv, NEW r \in Relays, NEW s \in Pod, SetRelay(r, s), UNCHANGED unchangedTables, Fine,
         \/ s.batch = relay[r].batch /\ s.ok = relay[r].ok
            /\ (s.step # "publish" => relay[r].step # "publish")
         \/ /\ relay[r].step = "claim" /\ s.ok = {}
            /\ s.batch = {} \/ (s.batch = ClaimBatch /\ s.step = "publish")
  PROVE  Inv'
<1>1. Rows' = Rows /\ relay' = [relay EXCEPT ![r] = s]
  BY DEF unchangedTables, Rows, SetRelay
<1>2. RowsOfPayments' /\ HandedLinksArePayable' /\ RowsTellTheEnd'
  BY <1>1, RelayLeavesPayments DEF unchangedTables
<1>3. Typed'
  BY <1>1 DEF Inv, Typed, unchangedTables, Fine, intents
<1>4. relay[r].step = "claim" => relay[r].batch = {} /\ relay[r].ok = {}
  BY DEF Inv, Batches
<1>5. /\ s.step # "publish" => s.batch = {}
      /\ s.ok \subseteq s.batch
      /\ s.batch \subseteq Rows
      /\ \A i \in s.batch : outbox[i].state = "unpublished" /\ outbox[i].retries < MaxRetries
      /\ \A q \in Relays \ {r} : s.batch \cap relay[q].batch = {}
  <2>1. CASE s.batch = relay[r].batch /\ s.ok = relay[r].ok
             /\ (s.step # "publish" => relay[r].step # "publish")
    BY <2>1 DEF Inv, Batches
  <2>2. CASE s.ok = {} /\ s.batch = {}
    BY <2>2
  <2>3. CASE s.ok = {} /\ s.batch = ClaimBatch /\ s.step = "publish"
    <3>1. ClaimBatch \subseteq Claimable
      BY DEF ClaimBatch
    <3>2. \A i \in Claimable : /\ i \in Rows /\ outbox[i].state = "unpublished" /\ outbox[i].retries < MaxRetries
                               /\ \A q \in Relays : i \notin relay[q].batch
      BY DEF Claimable, Locked
    <3>. QED  BY <2>3, <3>1, <3>2
  <2>. QED  BY <2>1, <2>2, <2>3
<1>6. outbox' = outbox
  BY DEF unchangedTables
<1>7. Batches'
  BY <1>1, <1>5, <1>6, PodKeepsBatches DEF Inv
<1>8. s.ok = relay[r].ok
  BY <1>4
<1>9. \A i : InHand(i)' <=> InHand(i)
  BY <1>1, <1>8, PodInHand DEF Inv, InHand
<1>10. Counted'
  BY <1>1, <1>9 DEF Inv, Counted, unchangedTables, Fine
<1>. QED  BY <1>2, <1>3, <1>7, <1>10 DEF Inv

\* A send reaches the topic at most once, and the row is ok only when it did.
LEMMA PublishingPod ==
  ASSUME Inv, NEW r \in Relays, NEW i \in Rows, relay[r].step = "publish", i \in Waiting(r),
         NEW s \in Pod, SetRelay(r, s), s.step = "publish", s.batch = relay[r].batch,
         UNCHANGED <<intents, verdict, status, outbox, reported>>,
         \/ /\ s.ok = relay[r].ok \cup {i}
            /\ sent' = [sent EXCEPT ![i] = @ + 1] /\ Fine
         \/ /\ s.ok = relay[r].ok
            /\ sent' = sent \/ sent' = [sent EXCEPT ![i] = @ + 1]
            /\ Fault
  PROVE  Inv'
<1>1. Rows' = Rows /\ relay' = [relay EXCEPT ![r] = s]
  BY DEF Rows, SetRelay
<1>2. RowsOfPayments' /\ HandedLinksArePayable' /\ RowsTellTheEnd'
  BY <1>1, RelayLeavesPayments
<1>3. /\ sent \in Seq(Nat) /\ Len(sent) = Len(outbox) /\ i \in 1..Len(sent) /\ sent[i] \in Nat /\ faults \in Nat
      /\ i \in relay[r].batch /\ i \notin relay[r].ok
  BY RowFields DEF Inv, Typed, Rows, Waiting
<1>4. /\ sent' \in Seq(Nat) /\ Len(sent') = Len(sent)
      /\ \A j \in Rows : j # i => sent'[j] = sent[j]
      /\ sent'[i] = sent[i] \/ sent'[i] = sent[i] + 1
      /\ i \in s.ok => sent'[i] = sent[i] + 1
  <2>1. sent[i] + 1 \in Nat
    BY <1>3
  <2>2. sent' = sent \/ sent' = [sent EXCEPT ![i] = sent[i] + 1]
    OBVIOUS
  <2>3. i \in s.ok => sent' = [sent EXCEPT ![i] = sent[i] + 1]
    BY <1>3
  <2> DEFINE more == [sent EXCEPT ![i] = sent[i] + 1]
  <2>4. more \in Seq(Nat) /\ Len(more) = Len(sent)
        /\ \A j \in 1..Len(sent) : more[j] = IF j = i THEN sent[i] + 1 ELSE sent[j]
    BY <1>3, <2>1, ExceptSeq
  <2>5. Rows = 1..Len(sent)
    BY <1>3 DEF Rows
  <2>6. (sent' = sent \/ sent' = more) /\ (i \in s.ok => sent' = more)
    BY <2>2, <2>3
  <2> HIDE DEF more
  <2>7. CASE sent' = more
    BY <1>3, <2>4, <2>5, <2>7
  <2>8. CASE sent' # more
    BY <1>3, <2>6, <2>8
  <2>. QED  BY <2>7, <2>8
<1>5. faults' \in Nat /\ (i \notin s.ok => faults' = faults + 1) /\ (i \in s.ok => faults' = faults)
  BY <1>3 DEF Fine, Fault
<1>6. Typed'
  BY <1>1, <1>3, <1>4, <1>5 DEF Inv, Typed, intents
<1>7. Batches'
  <2>1. /\ s.ok \subseteq s.batch
        /\ s.batch \subseteq Rows
        /\ \A j \in s.batch : outbox[j].state = "unpublished" /\ outbox[j].retries < MaxRetries
        /\ \A q \in Relays \ {r} : s.batch \cap relay[q].batch = {}
    BY <1>3 DEF Inv, Batches
  <2>2. outbox' = outbox
    OBVIOUS
  <2>3. \A j \in Rows : outbox'[j].state = outbox[j].state /\ outbox'[j].retries = outbox[j].retries
    BY <2>2
  <2>4. \A j \in s.batch : outbox'[j].state = "unpublished" /\ outbox'[j].retries < MaxRetries
    BY <2>1, <2>2
  <2>5. Typed /\ Batches /\ s.step = "publish"
    BY DEF Inv
  <2>. QED  BY <1>1, <2>1, <2>3, <2>4, <2>5, PodKeepsBatches
<1>8. Counted'
  <2>1. /\ \A j : InHand(j)' <=> j \in s.ok \/ \E q \in Relays \ {r} : j \in relay[q].ok
        /\ \A q \in Relays \ {r} : i \notin relay[q].ok
    BY <1>1, <1>3, PodInHand DEF Inv
  <2>2. (\A j : j # i => (InHand(j)' <=> InHand(j))) /\ (InHand(i)' <=> i \in s.ok) /\ ~ InHand(i)
    BY <1>3, <2>1 DEF InHand
  <2>3. outbox[i].state = "unpublished" /\ sent[i] <= faults
    BY <1>3, <2>2 DEF Inv, Batches, Counted
  <2>4. ASSUME NEW j \in Rows
        PROVE  /\ outbox[j].state # "unpublished" \/ InHand(j)' => sent'[j] >= 1
               /\ sent'[j] <= faults' + 1
               /\ outbox[j].state = "unpublished" /\ ~ InHand(j)' => sent'[j] <= faults'
    <3>1. CASE j = i
      <4>1. InHand(i)' => sent'[i] >= 1 /\ sent'[i] <= faults' + 1
        BY <1>3, <1>4, <1>5, <2>2, <2>3
      <4>2. ~ InHand(i)' => sent'[i] <= faults' /\ sent'[i] <= faults' + 1
        BY <1>3, <1>4, <1>5, <2>2, <2>3
      <4>. QED  BY <2>3, <3>1, <4>1, <4>2
    <3>2. CASE j # i
      <4>1. sent'[j] = sent[j] /\ sent[j] \in Nat /\ (InHand(j)' <=> InHand(j))
        BY <1>4, <2>2, <3>2, RowFields DEF Inv
      <4>2. /\ outbox[j].state # "unpublished" \/ InHand(j) => sent[j] >= 1
            /\ sent[j] <= faults + 1
            /\ outbox[j].state = "unpublished" /\ ~ InHand(j) => sent[j] <= faults
        BY DEF Inv, Counted
      <4>3. faults' = faults \/ faults' = faults + 1
        BY <1>5
      <4>4. (sent[j] <= faults + 1 => sent[j] <= faults' + 1) /\ (sent[j] <= faults => sent[j] <= faults')
        BY <1>3, <4>1, <4>3
      <4>. QED  BY <4>1, <4>2, <4>4
    <3>. QED  BY <3>1, <3>2
  <2>. QED  BY <1>1, <2>4 DEF Counted
<1>. QED  BY <1>2, <1>6, <1>7, <1>8 DEF Inv

\* The rows are rewritten in place.
LEMMA RewriteRows ==
  ASSUME outbox \in Seq(Row), NEW f \in [Rows -> Row], outbox' = f
  PROVE  outbox' \in Seq(Row) /\ Len(outbox') = Len(outbox) /\ Rows' = Rows
<1>1. Len(outbox) \in Nat
  OBVIOUS
<1>2. f \in [1..Len(outbox) -> Row]
  BY DEF Rows
<1>3. f \in Seq(Row) /\ Len(f) = Len(outbox)
  BY <1>1, <1>2, SeqDef
<1>. QED  BY <1>3 DEF Rows

\* A pod that gives up, or dies, leaves its rows unpublished in the table although
\* their events may be on the topic: that is the fault which pays for a duplicate.
LEMMA PodGivesUp ==
  ASSUME Inv, NEW r \in Relays, NEW s \in Pod, SetRelay(r, s), UNCHANGED unchangedTables, Fault,
         s.step # "publish", s.batch = {}, s.ok = {}
  PROVE  Inv'
<1>1. Rows' = Rows /\ relay' = [relay EXCEPT ![r] = s] /\ outbox' = outbox /\ sent' = sent
  BY DEF unchangedTables, Rows, SetRelay
<1>2. RowsOfPayments' /\ HandedLinksArePayable' /\ RowsTellTheEnd'
  BY <1>1, RelayLeavesPayments DEF unchangedTables
<1>3. faults \in Nat /\ faults' = faults + 1
  BY DEF Inv, Typed, Fault
<1>4. Typed'
  BY <1>1, <1>3 DEF Inv, Typed, unchangedTables, intents
<1>5. Batches'
  BY <1>1, PodKeepsBatches DEF Inv
<1>6. \A i : InHand(i)' => InHand(i)
  BY <1>1, PodInHand DEF Inv, InHand
<1>7. ASSUME NEW i \in Rows
      PROVE  /\ outbox[i].state # "unpublished" \/ InHand(i)' => sent[i] >= 1
             /\ sent[i] <= faults'
  <2>1. sent[i] \in Nat /\ sent[i] <= faults + 1
    BY RowFields DEF Inv, Counted
  <2>2. outbox[i].state # "unpublished" \/ InHand(i) => sent[i] >= 1
    BY DEF Inv, Counted
  <2>. QED  BY <1>3, <1>6, <2>1, <2>2
<1>8. \A i \in Rows : sent[i] \in Nat /\ (sent[i] <= faults' => sent[i] <= faults' + 1)
  <2>1. \A i \in Rows : sent[i] \in Nat
    BY RowFields DEF Inv
  <2>. QED  BY <1>3, <2>1
<1>9. Counted'
  BY <1>1, <1>7, <1>8 DEF Counted
<1>. QED  BY <1>2, <1>4, <1>5, <1>9 DEF Inv

\* Rows are rewritten, none is added, and each is still about its payment.
SamePayments ==
  Rows' = Rows /\ \A i \in Rows : outbox'[i].payment = outbox[i].payment /\ outbox'[i].event = outbox[i].event

\* A commit marks what was published, counts what failed, and lets the batch go.
LEMMA CommitKeepsInv ==
  ASSUME Inv, NEW r \in Relays, Commit(r)
  PROVE  Inv' /\ SamePayments
<1> DEFINE s == IF Failed(r) = {} THEN [Idle EXCEPT !.step = "claim", !.again = relay[r].again] ELSE Finish(r)
<1>1. relay[r] \in Pod /\ relay[r].again \in BOOLEAN
  BY DEF Inv, Typed, Pod
<1>2. s \in Pod /\ s.step # "publish" /\ s.batch = {} /\ s.ok = {}
  BY <1>1 DEF Finish, Idle, NoTries, Pod
<1>3. relay' = [relay EXCEPT ![r] = s] /\ UNCHANGED <<intents, verdict, status, sent, reported, faults>>
  BY DEF Commit, SetRelay, Fine
<1> HIDE DEF s
<1>4. /\ relay[r].batch \subseteq Rows /\ relay[r].batch = relay[r].ok \cup Failed(r)
      /\ \A i \in relay[r].batch : outbox[i].state = "unpublished" /\ outbox[i].retries < MaxRetries
  BY DEF Commit, Waiting, Failed, Inv, Batches
<1>5. ASSUME NEW i \in Rows
      PROVE  /\ Marked(r, i) \in Row
             /\ Marked(r, i).payment = outbox[i].payment /\ Marked(r, i).event = outbox[i].event
             /\ i \notin relay[r].batch => Marked(r, i) = outbox[i]
             /\ i \in relay[r].ok => Marked(r, i).state = "published"
             /\ i \notin relay[r].ok => Marked(r, i).state = outbox[i].state
             /\ i \in relay[r].batch \/ Marked(r, i).retries = outbox[i].retries
  <2>1. outbox[i] \in Row /\ outbox[i].retries \in 0..MaxRetries
    BY RowFields DEF Inv
  <2>2. i \in Failed(r) => outbox[i].retries + 1 \in 0..MaxRetries
    BY <1>4, <2>1, RelayAssumption
  <2>3. CASE i \in relay[r].ok
    <3>0. i \notin Failed(r)
      BY <2>3 DEF Failed
    <3>1. Marked(r, i) = [outbox[i] EXCEPT !.state = "published"]
      BY <2>3, <3>0 DEF Marked
    <3>2. i \in relay[r].batch
      BY <1>4, <2>3
    <3>3. /\ Marked(r, i) \in Row
          /\ Marked(r, i).payment = outbox[i].payment /\ Marked(r, i).event = outbox[i].event
          /\ Marked(r, i).state = "published"
      BY <2>1, <3>1 DEF Row
    <3>. QED  BY <2>3, <3>2, <3>3
  <2>4. CASE i \notin relay[r].ok /\ i \in Failed(r)
    <3> DEFINE n == outbox[i].retries + 1
    <3>1. Marked(r, i) = [outbox[i] EXCEPT !.retries = n] /\ n \in 0..MaxRetries
      BY <2>2, <2>4 DEF Marked
    <3> HIDE DEF n
    <3>. QED  BY <1>4, <2>1, <2>4, <3>1 DEF Row
  <2>5. CASE i \notin relay[r].ok /\ i \notin Failed(r)
    BY <1>4, <2>1, <2>5 DEF Marked
  <2>. QED  BY <2>3, <2>4, <2>5
<1> DEFINE f == [i \in Rows |-> Marked(r, i)]
<1>6. f \in [Rows -> Row] /\ outbox' = f
  BY <1>5 DEF Commit
<1>7. /\ outbox' \in Seq(Row) /\ Len(outbox') = Len(outbox) /\ Rows' = Rows
  <2> HIDE DEF f
  <2>. QED  BY <1>6, RewriteRows DEF Inv, Typed
<1>8. \A i \in Rows : outbox'[i] = Marked(r, i)
  BY <1>6
<1> HIDE DEF f
<1>9. RowsOfPayments' /\ HandedLinksArePayable' /\ RowsTellTheEnd'
  BY <1>3, <1>5, <1>7, <1>8, RelayLeavesPayments
<1>10. Typed'
  BY <1>2, <1>3, <1>7 DEF Inv, Typed, intents
<1>11. Batches'
  <2>1. \A i \in Rows : /\ outbox'[i].state = outbox[i].state \/ i \in relay[r].batch
                        /\ outbox'[i].retries = outbox[i].retries \/ i \in relay[r].batch
    BY <1>5, <1>8
  <2>. QED  BY <1>2, <1>3, <1>7, <2>1, PodKeepsBatches DEF Inv
<1>12. Counted'
  <2>1. \A i : InHand(i)' <=> \E q \in Relays \ {r} : i \in relay[q].ok
    BY <1>2, <1>3, PodInHand DEF Inv
  <2>2. ASSUME NEW i \in Rows
        PROVE  /\ outbox'[i].state # "unpublished" \/ InHand(i)' => sent[i] >= 1
               /\ sent[i] <= faults + 1
               /\ outbox'[i].state = "unpublished" /\ ~ InHand(i)' => sent[i] <= faults
    <3>1. /\ outbox[i].state # "unpublished" \/ InHand(i) => sent[i] >= 1
          /\ sent[i] <= faults + 1
          /\ outbox[i].state = "unpublished" /\ ~ InHand(i) => sent[i] <= faults
      BY DEF Inv, Counted
    <3>2. CASE i \in relay[r].ok
      <4>1. InHand(i) /\ outbox'[i].state = "published"
        BY <1>5, <1>8, <3>2 DEF InHand
      <4>. QED  BY <3>1, <4>1
    <3>3. CASE i \notin relay[r].ok
      <4>1. (InHand(i)' <=> InHand(i)) /\ outbox'[i].state = outbox[i].state
        BY <1>5, <1>8, <2>1, <3>3 DEF InHand
      <4>. QED  BY <3>1, <4>1
    <3>. QED  BY <3>2, <3>3
  <2>. QED  BY <1>3, <1>7, <2>2 DEF Counted
<1>13. SamePayments
  BY <1>5, <1>7, <1>8 DEF SamePayments
<1>. QED  BY <1>9, <1>10, <1>11, <1>12, <1>13 DEF Inv

\* The cleanup deletes published rows only, and no pod holds one.
LEMMA CleanupKeepsInv ==
  ASSUME Inv, Cleanup
  PROVE  Inv' /\ SamePayments
<1>1. PICK old \in SUBSET {i \in Rows : Erasable(i)} :
        outbox' = [i \in Rows |-> IF i \in old THEN [outbox[i] EXCEPT !.state = "deleted"] ELSE outbox[i]]
  BY DEF Cleanup
<1>2. UNCHANGED <<intents, verdict, status, relay, sent, faults>>
  BY DEF Cleanup, Fine
<1> DEFINE mark(i) == IF i \in old THEN [outbox[i] EXCEPT !.state = "deleted"] ELSE outbox[i]
           f == [i \in Rows |-> mark(i)]
<1>3. ASSUME NEW i \in Rows
      PROVE  /\ mark(i) \in Row
             /\ mark(i).payment = outbox[i].payment /\ mark(i).event = outbox[i].event
             /\ mark(i).retries = outbox[i].retries
             /\ mark(i).state = outbox[i].state \/ (outbox[i].state = "published" /\ mark(i).state = "deleted")
  <2>1. outbox[i] \in Row
    BY RowFields DEF Inv
  <2>2. CASE i \in old
    BY <1>1, <2>1, <2>2 DEF Erasable, Row
  <2>3. CASE i \notin old
    BY <2>1, <2>3
  <2>. QED  BY <2>2, <2>3
<1>4. f \in [Rows -> Row] /\ outbox' = f
  BY <1>1, <1>3
<1>5. outbox' \in Seq(Row) /\ Len(outbox') = Len(outbox) /\ Rows' = Rows
  <2> HIDE DEF f
  <2>. QED  BY <1>4, RewriteRows DEF Inv, Typed
<1>6. \A i \in Rows : outbox'[i] = mark(i)
  BY <1>4
<1> HIDE DEF f, mark
<1>7. RowsOfPayments' /\ HandedLinksArePayable' /\ RowsTellTheEnd'
  BY <1>2, <1>3, <1>5, <1>6, RelayLeavesPayments
<1>8. Typed'
  BY <1>2, <1>5 DEF Inv, Typed, intents
<1>9. \A i \in Rows : /\ outbox'[i].retries = outbox[i].retries
                      /\ \/ outbox'[i].state = outbox[i].state
                         \/ outbox[i].state = "published" /\ outbox'[i].state = "deleted"
  BY <1>3, <1>6
<1>10. Batches'
  <2>1. \A r \in Relays : \A i \in relay[r].batch :
          outbox'[i].state = "unpublished" /\ outbox'[i].retries < MaxRetries
    BY <1>9 DEF Inv, Batches
  <2>. QED  BY <1>2, <1>5, <2>1 DEF Inv, Batches
<1>11. Counted'
  <2>1. \A i : InHand(i)' <=> InHand(i)
    BY <1>2 DEF InHand
  <2>. QED  BY <1>2, <1>5, <1>9, <2>1 DEF Inv, Counted
<1>12. SamePayments
  BY <1>3, <1>5, <1>6 DEF SamePayments
<1>. QED  BY <1>7, <1>8, <1>10, <1>11, <1>12 DEF Inv

LEMMA PodFinishes ==
  ASSUME Inv, NEW r \in Relays
  PROVE  /\ Finish(r) \in Pod /\ Finish(r).step # "publish"
         /\ Finish(r).batch = {} /\ Finish(r).ok = {}
<1>1. relay[r] \in Pod /\ relay[r].again \in BOOLEAN
  BY DEF Inv, Typed, Pod
<1>. QED  BY <1>1 DEF Finish, Idle, NoTries, Pod

LEMMA RelayKeepsInv ==
  ASSUME Inv, NEW r \in Relays,
         \/ Trigger(r) \/ Drain(r) \/ Rollback(r) \/ Crash(r)
         \/ \E i \in Rows, landed \in BOOLEAN : SendFails(r, i, landed)
  PROVE  Inv'
<1>1. relay[r] \in Pod
  BY DEF Inv, Typed
<1>2. CASE Trigger(r)
  <2> DEFINE s == IF relay[r].step = "idle" THEN [relay[r] EXCEPT !.step = "claim"]
                                            ELSE [relay[r] EXCEPT !.again = TRUE]
  <2>1. /\ s \in Pod /\ s.batch = relay[r].batch /\ s.ok = relay[r].ok
        /\ s.step # "publish" => relay[r].step # "publish"
    BY <1>1 DEF Pod
  <2>2. SetRelay(r, s) /\ UNCHANGED unchangedTables /\ Fine
    BY <1>2 DEF Trigger
  <2> HIDE DEF s
  <2>. QED  BY <2>1, <2>2, QuietPod
<1>3. CASE Claim(r)
  <2>1. relay[r].step = "claim" /\ UNCHANGED unchangedTables /\ Fine /\ relay[r].batch = {}
    BY <1>3 DEF Claim, Inv, Batches
  <2>2. CASE ClaimBatch = {}
    <3>1. SetRelay(r, Finish(r))
      BY <1>3, <2>2 DEF Claim
    <3>. QED  BY <2>1, <3>1, PodFinishes, QuietPod
  <2>3. CASE ClaimBatch # {}
    <3> DEFINE s == [relay[r] EXCEPT !.step = "publish", !.batch = ClaimBatch]
    <3>1. SetRelay(r, s)
      BY <1>3, <2>3 DEF Claim
    <3>2. ClaimBatch \in SUBSET Nat
      <4>1. Len(outbox) \in Nat
        BY DEF Inv, Typed
      <4>. QED  BY <4>1 DEF ClaimBatch, Claimable, Rows
    <3>3. relay[r].ok = {}
      BY <2>1 DEF Inv, Batches
    <3>4. s \in Pod /\ s.ok = {} /\ s.batch = ClaimBatch /\ s.step = "publish"
      BY <1>1, <3>2, <3>3 DEF Pod
    <3> HIDE DEF s
    <3>. QED  BY <2>1, <3>1, <3>4, QuietPod
  <2>. QED  BY <2>2, <2>3
<1>4. CASE Commit(r)
  BY <1>4, CommitKeepsInv
<1>5. ASSUME NEW i \in Rows, Publish(r, i) PROVE Inv'
  <2> DEFINE s == [relay[r] EXCEPT !.ok = @ \cup {i}]
  <2>1. /\ relay[r].step = "publish" /\ i \in Waiting(r) /\ SetRelay(r, s) /\ Fine
        /\ UNCHANGED <<intents, verdict, status, outbox, reported>>
        /\ sent' = [sent EXCEPT ![i] = @ + 1]
    BY <1>5 DEF Publish
  <2>2. i \in Nat
    BY RowFields DEF Inv
  <2>3. /\ s \in Pod /\ s.step = relay[r].step /\ s.batch = relay[r].batch
        /\ s.ok = relay[r].ok \cup {i}
    BY <1>1, <2>2 DEF Pod
  <2> HIDE DEF s
  <2>. QED  BY <2>1, <2>3, PublishingPod
<1>6. ASSUME NEW i \in Rows, NEW landed \in BOOLEAN, SendFails(r, i, landed) PROVE Inv'
  <2> DEFINE s == [relay[r] EXCEPT !.tries[i] = @ + 1]
  <2>1. /\ relay[r].step = "publish" /\ i \in Waiting(r) /\ SetRelay(r, s) /\ Fault
        /\ UNCHANGED <<intents, verdict, status, outbox, reported>>
        /\ sent' = sent \/ sent' = [sent EXCEPT ![i] = @ + 1]
    BY <1>6 DEF SendFails
  <2>2. i \in Nat
    BY RowFields DEF Inv
  <2>3. /\ s \in Pod /\ s.step = relay[r].step /\ s.batch = relay[r].batch
        /\ s.ok = relay[r].ok
    <3>1. relay[r].tries \in [1..MaxRows -> Nat]
      BY <1>1 DEF Pod
    <3> DEFINE t == [relay[r].tries EXCEPT ![i] = @ + 1]
    <3>2. t \in [1..MaxRows -> Nat]
      <4> DEFINE n == relay[r].tries[i] + 1
      <4>1. ASSUME i \in 1..MaxRows PROVE n \in Nat
        <5>1. relay[r].tries[i] \in Nat
          <6> HIDE DEF s
          <6>. QED  BY <3>1, <4>1
        <5>. QED  BY <5>1
      <4>2. t = [relay[r].tries EXCEPT ![i] = n]
        OBVIOUS
      <4> HIDE DEF n, t, s
      <4>. QED  BY <3>1, <4>1, <4>2
    <3>3. s = [relay[r] EXCEPT !.tries = t]
      OBVIOUS
    <3> HIDE DEF t, s
    <3>. QED  BY <1>1, <3>2, <3>3 DEF Pod
  <2> HIDE DEF s
  <2>. QED  BY <2>1, <2>3, PublishingPod
<1>7. CASE Rollback(r)
  BY <1>7, PodFinishes, PodGivesUp DEF Rollback
<1>8. CASE Crash(r)
  <2>1. Idle \in Pod /\ Idle.step # "publish" /\ Idle.batch = {} /\ Idle.ok = {}
    BY DEF Idle, NoTries, Pod
  <2>. QED  BY <1>8, <2>1, PodGivesUp DEF Crash
<1>. QED  BY <1>2, <1>3, <1>4, <1>5, <1>6, <1>7, <1>8 DEF Drain

LEMMA NextInv == Inv /\ [Next]_vars => Inv'
<1> SUFFICES ASSUME Inv, [Next]_vars PROVE Inv'
  OBVIOUS
<1>1. ASSUME NEW k \in Calls, FindExisting(k) \/ Save(k) PROVE Inv'
  BY <1>1, CallKeepsInv
<1>2. ASSUME NEW p \in Payments, NEW v \in {"paid", "refused"}, ProviderDecides(p, v) PROVE Inv'
  BY <1>2, ProviderKeepsInv
<1>3. ASSUME NEW p \in Payments, CompletePaymentAndEnqueue(p) \/ HandleFailedPayment(p) PROVE Inv'
  BY <1>3, CallbackKeepsInv
<1>4. ASSUME NEW r \in Relays,
             \/ Trigger(r) \/ Drain(r) \/ Rollback(r) \/ Crash(r)
             \/ \E i \in Rows, landed \in BOOLEAN : SendFails(r, i, landed)
      PROVE  Inv'
  BY <1>4, RelayKeepsInv
<1>5. CASE Cleanup
  BY <1>5, CleanupKeepsInv
<1>6. CASE UNCHANGED vars
  <2>1. OutboxStays /\ UNCHANGED <<call, handed, link, verdict, status>>
    BY <1>6 DEF vars, OutboxStays
  <2>2. Batches' /\ Counted' /\ Rows' = Rows
    BY <2>1, OutboxIdle DEF Inv
  <2>. QED  BY <2>1, <2>2 DEF Inv, Typed, RowsOfPayments, HandedLinksArePayable, RowsTellTheEnd, OutboxStays
<1>. QED  BY <1>1, <1>2, <1>3, <1>4, <1>5, <1>6 DEF Next

-----------------------------------------------------------------------------
(***************************************************************************)
(* What holds in every state.                                              *)
(***************************************************************************)

\* The inductive invariant of payment-svc.
THEOREM OutboxInvariant == Spec => []Inv
BY InitInv, NextInv, PTL DEF Spec

\* Whichever of the racing calls made it, the link a buyer is handed is the one in
\* the payment row, and stays so.
THEOREM LinksArePayable == Spec => []HandedLinksArePayable
<1>1. Inv => HandedLinksArePayable
  BY DEF Inv
<1>. QED  BY <1>1, OutboxInvariant, PTL

\* Until the event of a settled payment is on the topic its row waits in the table,
\* whatever publish fails, whichever pod dies and whenever the cleanup runs.
THEOREM EventsAreKept == Spec => []SettledPaymentsKeepTheirEvent
<1>1. Inv => SettledPaymentsKeepTheirEvent
  <2> SUFFICES ASSUME Inv, NEW i \in Rows, sent[i] = 0 PROVE outbox[i].state = "unpublished"
    BY DEF SettledPaymentsKeepTheirEvent, Inv, RowsTellTheEnd, Undelivered
  <2>. QED  BY DEF Inv, Counted
<1>. QED  BY <1>1, OutboxInvariant, PTL

\* A completion has one row, and its event is on the topic once plus once for each
\* failed send, rollback or crash at most, with any number of relay pods.
THEOREM DuplicatesArePaidFor == Spec => []DuplicatesComeFromFaults
<1>1. Inv => DuplicatesComeFromFaults
  <2> SUFFICES ASSUME Inv, NEW p \in Payments
               PROVE  LET mine == {i \in Rows : outbox[i].payment = p /\ outbox[i].event = "COMPLETED"} IN
                      Cardinality(mine) <= 1 /\ \A i \in mine : sent[i] <= 1 + faults
    BY DEF DuplicatesComeFromFaults
  <2> DEFINE mine == {i \in Rows : outbox[i].payment = p /\ outbox[i].event = "COMPLETED"}
  <2>1. \A i, j \in mine : i = j
    BY DEF Inv, RowsTellTheEnd
  <2>2. \A i \in mine : sent[i] <= 1 + faults
    <3>1. \A i \in mine : sent[i] <= faults + 1
      BY DEF Inv, Counted
    <3>2. faults \in Nat
      BY DEF Inv, Typed
    <3>. QED  BY <3>1, <3>2
  <2> HIDE DEF mine
  <2>3. Cardinality(mine) <= 1
    <3>1. CASE mine = {}
      BY <3>1, FS_EmptySet
    <3>2. CASE mine # {}
      <4>1. PICK i : mine = {i}
        BY <2>1, <3>2
      <4>2. Cardinality({i}) = 1
        BY FS_Singleton
      <4>. QED  BY <4>1, <4>2
    <3>. QED  BY <3>1, <3>2
  <2>. QED  BY <2>2, <2>3 DEF mine
<1>. QED  BY <1>1, OutboxInvariant, PTL

-----------------------------------------------------------------------------
(***************************************************************************)
(* payment-svc implements PaymentEvents.                                   *)
(***************************************************************************)

Ended(q) == status[q] \in {"COMPLETED", "FAILED"}

\* A step that settles and announces nothing, settles one payment, or announces a
\* settled one.
LEMMA PromiseStep ==
  ASSUME status' = status \/ \E p \in Payments, e \in {"none", "PENDING", "COMPLETED", "FAILED"} :
                               /\ status' = [status EXCEPT ![p] = e]
                               /\ ~ Ended(p) \/ e = status[p],
         status \in [Payments -> {"none", "PENDING", "COMPLETED", "FAILED"}],
         \/ Announced' = Announced
         \/ Settled' = Settled /\ \E p \in Payments : Ended(p) /\ Announced' = Announced \cup {p}
  PROVE  [Promise!Next]_<<Settled, Announced>>
<1>1. \A q \in Payments : Settled[q] = IF Ended(q) THEN status[q] ELSE "open"
  BY DEF Settled, Ended
<1>2. Settled' = [q \in Payments |-> IF Ended(q)' THEN status'[q] ELSE "open"]
      /\ Settled = [q \in Payments |-> IF Ended(q) THEN status[q] ELSE "open"]
  BY DEF Settled, Ended
<1>3. CASE Settled' = Settled /\ \E p \in Payments : Ended(p) /\ Announced' = Announced \cup {p}
  <2>1. PICK p \in Payments : Ended(p) /\ Announced' = Announced \cup {p}
    BY <1>3
  <2>2. Settled[p] # "open"
    BY <1>1, <2>1 DEF Ended
  <2>3. Promise!Announce(p)
    BY <1>3, <2>1, <2>2 DEF Promise!Announce
  <2>. QED  BY <2>3 DEF Promise!Next
<1>4. CASE Announced' = Announced /\ status' = status
  BY <1>4 DEF Settled
<1>5. ASSUME NEW p \in Payments, NEW e \in {"none", "PENDING", "COMPLETED", "FAILED"},
             status' = [status EXCEPT ![p] = e], ~ Ended(p) \/ e = status[p], Announced' = Announced
      PROVE  [Promise!Next]_<<Settled, Announced>>
  <2>1. \A q \in Payments : status'[q] = IF q = p THEN e ELSE status[q]
    BY <1>5
  <2>2. CASE e \in {"COMPLETED", "FAILED"} /\ ~ Ended(p)
    <3>1. Settled[p] = "open"
      BY <1>1, <2>2
    <3>2. Settled' = [Settled EXCEPT ![p] = e]
      BY <1>2, <2>1, <2>2 DEF Ended
    <3>3. Promise!Settle(p, e) /\ e \in Promise!Outcome
      BY <1>5, <2>2, <3>1, <3>2 DEF Promise!Settle, Promise!Outcome
    <3>. QED  BY <3>3 DEF Promise!Next
  <2>3. CASE e \notin {"COMPLETED", "FAILED"} \/ Ended(p)
    <3>1. \A q \in Payments : (Ended(q)' <=> Ended(q)) /\ (Ended(q) => status'[q] = status[q])
      BY <1>5, <2>1, <2>3 DEF Ended
    <3>2. Settled' = Settled
      BY <1>2, <3>1
    <3>. QED  BY <1>5, <3>2
  <2>. QED  BY <2>2, <2>3
<1>. QED  BY <1>3, <1>4, <1>5

\* Rows rewritten in place announce nothing.
LEMMA SameAnnouncements ==
  ASSUME Rows' = Rows, \A i \in Rows : outbox'[i].payment = outbox[i].payment /\ (sent'[i] = 0 <=> sent[i] = 0)
  PROVE  Announced' = Announced
<1>1. Announced = {outbox[i].payment : i \in {j \in Rows : sent[j] # 0}}
      /\ Announced' = {outbox'[i].payment : i \in {j \in Rows' : sent'[j] # 0}}
  BY DEF Announced, Undelivered
<1>2. {j \in Rows' : sent'[j] # 0} = {j \in Rows : sent[j] # 0}
  OBVIOUS
<1>. QED  BY <1>1, <1>2

LEMMA CallbackKeepsPromise ==
  ASSUME Inv, NEW p \in Payments, CompletePaymentAndEnqueue(p) \/ HandleFailedPayment(p)
  PROVE  [Promise!Next]_<<Settled, Announced>>
<1>1. PICK e \in {"COMPLETED", "FAILED"} :
        Enqueue(p, e) /\ status' = [status EXCEPT ![p] = e] /\ (~ Ended(p) \/ e = status[p])
  <2>1. CASE CompletePaymentAndEnqueue(p)
    BY <2>1 DEF CompletePaymentAndEnqueue, MayComplete, Ended
  <2>2. CASE HandleFailedPayment(p)
    <3>1. Enqueue(p, "FAILED") /\ status' = [status EXCEPT ![p] = "FAILED"] /\ verdict[p] = "refused"
      BY <2>2 DEF HandleFailedPayment
    <3>2. ~ Ended(p) \/ "FAILED" = status[p]
      BY <3>1 DEF Ended, Inv, RowsOfPayments
    <3>. QED  BY <3>1, <3>2
  <2>. QED  BY <2>1, <2>2
<1> DEFINE n == Len(outbox) + 1
<1>2. /\ Rows' = Rows \cup {n} /\ n \notin Rows
      /\ \A i \in Rows : outbox'[i] = outbox[i] /\ sent'[i] = sent[i]
      /\ sent'[n] = 0
  BY <1>1, EnqueueAppends DEF Inv
<1> HIDE DEF n
<1>3. {j \in Rows' : sent'[j] # 0} = {j \in Rows : sent[j] # 0}
  BY <1>2
<1>4. \A i \in {j \in Rows : sent[j] # 0} : outbox'[i].payment = outbox[i].payment
  BY <1>2
<1>5. Announced' = Announced
  BY <1>3, <1>4 DEF Announced, Undelivered
<1>. QED  BY <1>1, <1>5, PromiseStep DEF Inv, Typed

LEMMA PublishKeepsPromise ==
  ASSUME Inv, NEW i \in Rows, sent' = [sent EXCEPT ![i] = @ + 1], outbox' = outbox, status' = status
  PROVE  [Promise!Next]_<<Settled, Announced>>
<1>1. sent \in Seq(Nat) /\ Len(sent) = Len(outbox) /\ i \in 1..Len(sent) /\ sent[i] \in Nat
      /\ outbox[i].payment \in Payments
  BY RowFields DEF Inv, Typed, Rows
<1>2. Rows' = Rows /\ Rows = 1..Len(sent)
  BY <1>1 DEF Rows
<1>3. \A j \in Rows : sent'[j] = IF j = i THEN sent[i] + 1 ELSE sent[j]
  <2>1. sent[i] + 1 \in Nat
    BY <1>1
  <2> DEFINE k == sent[i] + 1
  <2>2. sent' = [sent EXCEPT ![i] = k]
    OBVIOUS
  <2> HIDE DEF k
  <2>3. \A j \in 1..Len(sent) : sent'[j] = IF j = i THEN k ELSE sent[j]
    BY <1>1, <2>1, <2>2, ExceptSeq DEF k
  <2>. QED  BY <1>2, <2>3 DEF k
<1>4. sent'[i] # 0 /\ \A j \in Rows : j # i => sent'[j] = sent[j]
  BY <1>1, <1>3
<1>5. {j \in Rows' : sent'[j] # 0} = {j \in Rows : sent[j] # 0} \cup {i}
  BY <1>2, <1>4
<1>6. Announced' = Announced \cup {outbox[i].payment}
  BY <1>5 DEF Announced, Undelivered
<1>7. Ended(outbox[i].payment)
  BY RowFields DEF Inv, RowsTellTheEnd, Ended
<1>8. Settled' = Settled
  BY DEF Settled
<1>. QED  BY <1>1, <1>6, <1>7, <1>8, PromiseStep DEF Inv, Typed

LEMMA QuietKeepsPromise ==
  ASSUME Inv, Rows' = Rows, sent' = sent, status' = status,
         \A i \in Rows : outbox'[i].payment = outbox[i].payment
  PROVE  [Promise!Next]_<<Settled, Announced>>
<1>1. Announced' = Announced
  BY SameAnnouncements
<1>. QED  BY <1>1, PromiseStep DEF Inv, Typed

LEMMA NextKeepsPromise == Inv /\ [Next]_vars => [Promise!Next]_<<Settled, Announced>>
<1> SUFFICES ASSUME Inv, [Next]_vars PROVE [Promise!Next]_<<Settled, Announced>>
  OBVIOUS
<1>1. ASSUME NEW k \in Calls, FindExisting(k) \/ Save(k) PROVE [Promise!Next]_<<Settled, Announced>>
  <2>1. outbox' = outbox /\ sent' = sent /\ PaymentOf[k] \in Payments
    BY <1>1, CallsAssumption DEF FindExisting, Save
  <2>2. \/ status' = status
        \/ link[PaymentOf[k]] = NoLink /\ status' = [status EXCEPT ![PaymentOf[k]] = "PENDING"]
    BY <1>1 DEF FindExisting, Save
  <2>3. link[PaymentOf[k]] = NoLink => ~ Ended(PaymentOf[k])
    BY <2>1 DEF Inv, RowsOfPayments, Ended
  <2>4. Announced' = Announced
    BY <2>1, SameAnnouncements DEF Rows
  <2>5. status' = status \/ \E p \in Payments, e \in {"none", "PENDING", "COMPLETED", "FAILED"} :
                               /\ status' = [status EXCEPT ![p] = e]
                               /\ ~ Ended(p) \/ e = status[p]
    BY <2>1, <2>2, <2>3
  <2>. QED  BY <2>4, <2>5, PromiseStep DEF Inv, Typed
<1>2. ASSUME NEW p \in Payments, CompletePaymentAndEnqueue(p) \/ HandleFailedPayment(p)
      PROVE  [Promise!Next]_<<Settled, Announced>>
  BY <1>2, CallbackKeepsPromise
<1>3. ASSUME outbox' = outbox, sent' = sent, status' = status
      PROVE  [Promise!Next]_<<Settled, Announced>>
  BY <1>3, QuietKeepsPromise DEF Rows
<1>4. ASSUME NEW p \in Payments, NEW v \in {"paid", "refused"}, ProviderDecides(p, v)
      PROVE  [Promise!Next]_<<Settled, Announced>>
  BY <1>3, <1>4 DEF ProviderDecides
<1>5. ASSUME NEW r \in Relays, Trigger(r) \/ Claim(r) \/ Rollback(r) \/ Crash(r)
      PROVE  [Promise!Next]_<<Settled, Announced>>
  BY <1>3, <1>5 DEF Trigger, Claim, Rollback, Crash, unchangedTables
<1>6. ASSUME NEW r \in Relays, NEW i \in Rows, Publish(r, i) PROVE [Promise!Next]_<<Settled, Announced>>
  BY <1>6, PublishKeepsPromise DEF Publish
<1>7. ASSUME NEW r \in Relays, NEW i \in Rows, NEW landed \in BOOLEAN, SendFails(r, i, landed)
      PROVE  [Promise!Next]_<<Settled, Announced>>
  <2>1. outbox' = outbox /\ status' = status /\ (sent' = sent \/ sent' = [sent EXCEPT ![i] = @ + 1])
    BY <1>7 DEF SendFails
  <2>. QED  BY <1>3, <2>1, PublishKeepsPromise
<1>8. ASSUME NEW r \in Relays, Commit(r) PROVE [Promise!Next]_<<Settled, Announced>>
  <2>1. SamePayments /\ sent' = sent /\ status' = status
    BY <1>8, CommitKeepsInv DEF Commit
  <2>. QED  BY <2>1, QuietKeepsPromise DEF SamePayments
<1>9. CASE Cleanup
  <2>1. SamePayments /\ sent' = sent /\ status' = status
    BY <1>9, CleanupKeepsInv DEF Cleanup
  <2>. QED  BY <2>1, QuietKeepsPromise DEF SamePayments
<1>10. CASE UNCHANGED vars
  BY <1>3, <1>10 DEF vars
<1>. QED  BY <1>1, <1>2, <1>4, <1>5, <1>6, <1>7, <1>8, <1>9, <1>10 DEF Next, Drain

LEMMA InitKeepsPromise == Init => Promise!Init
<1> SUFFICES ASSUME Init PROVE Promise!Init
  OBVIOUS
<1>1. Rows = {} /\ \A p \in Payments : status[p] = "none"
  BY DEF Init, Rows
<1>2. Announced = {} /\ Settled = [p \in Payments |-> "open"]
  BY <1>1 DEF Announced, Settled
<1>. QED  BY <1>2 DEF Promise!Init

\* payment-svc keeps what PaymentEvents promises: a payment is settled once, and no
\* event about it is on the topic before.
THEOREM OutboxKeepsPromise == Spec => KeepsPromise
<1>1. Inv /\ [Next]_vars => Inv' /\ [Promise!Next]_<<Settled, Announced>>
  BY NextInv, NextKeepsPromise
<1>2. Init => Inv /\ Promise!Init
  BY InitInv, InitKeepsPromise
<1>. QED  BY <1>1, <1>2, PTL DEF Spec, KeepsPromise, Promise!Spec
=============================================================================
