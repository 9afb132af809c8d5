--------------------------- MODULE ProcessorProofs ----------------------------
(***************************************************************************)
(* Proofs about Processor, for any number of pods and of buyers, any batch *)
(* and cap, and any number of crashes and of failed calls to Redis.        *)
(***************************************************************************)
EXTENDS Processor, SequenceTheorems, TLAPS

\* The types that TypeOK does not say, since TLC need not be told.
Typed ==
  /\ TypeOK
  /\ buffer \in Seq(Buyers) /\ hand \in [Pods -> Seq(Buyers)]
  /\ settled \in [Pods -> Nat] /\ excess \in [Pods -> Nat] /\ claim \in [Pods -> SUBSET Buyers]

\* What a pod holds it holds at a step that deals with it.
Places ==
  \A p \in Pods :
    /\ claim[p] # {} => loop[p] \in {"publish", "buffer"}
    /\ claim[p] \subseteq slots
    /\ hand[p] # <<>> \/ settled[p] > 0 => At(p, "republish")

\* Whoever takes a slot is claimed by one pod, and then stands once in the buffer:
\* no second announcement of the same slot comes this way.
OnceInLine ==
  /\ \A p, q \in Pods : p # q => claim[p] \cap claim[q] = {}
  /\ \A p \in Pods : claim[p] \cap Members(buffer) = {}
  /\ \A i, j \in 1..Len(buffer) : buffer[i] = buffer[j] => i = j

\* As long as no two ticks have met, one pod at most is within a tick.
Alone == overlapped \/ \A p, q \in Pods : Ticking(p) /\ Ticking(q) => p = q

\* Then what a drain read is still the head of the buffer, what it settled comes
\* before what it holds, and was announced or had lapsed: a trim drops nothing else.
DrainsTheHead ==
  overlapped \/
    \A p \in Pods : At(p, "republish") =>
      /\ settled[p] + Len(hand[p]) <= Len(buffer)
      /\ \A i \in 1..Len(hand[p]) : hand[p][i] = buffer[settled[p] + i]
      /\ \A i \in 1..settled[p] : announced[buffer[i]] > 0 \/ buffer[i] \in lapsed

\* Without a fault a buyer who is waiting for an announcement has not had it: not
\* before the slot, not while claimed, nor in the buffer past what a drain settled.
NotYetTold ==
  untidy \/ overlapped \/
    /\ \A b \in Buyers : announced[b] <= 1
    /\ \A b \in Buyers \ slots : announced[b] = 0
    /\ \A p \in Pods : \A b \in claim[p] : announced[b] = 0
    /\ \A i \in 1..Len(buffer) :
         announced[buffer[i]] = 0 \/ \E p \in Pods : At(p, "republish") /\ i <= settled[p]

\* AnnouncementsAreKept, with the pod that makes the claim.
Kept ==
  overlapped \/
    \A b \in slots :
      \/ announced[b] > 0 \/ b \in Members(buffer) \/ b \in lapsed \/ b \in lost
      \/ \E p \in Pods : b \in claim[p]

Inv == Typed /\ Places /\ OnceInLine /\ Alone /\ DrainsTheHead /\ NotYetTold /\ Kept

-----------------------------------------------------------------------------
\* What is left when the first n are taken off, be there so many or not.
LEMMA AfterFacts ==
  ASSUME NEW S, NEW s \in Seq(S), NEW n \in Nat
  PROVE  /\ After(s, n) \in Seq(S)
         /\ Len(After(s, n)) = IF n <= Len(s) THEN Len(s) - n ELSE 0
         /\ \A i \in 1..Len(After(s, n)) : n + i \in 1..Len(s) /\ After(s, n)[i] = s[n + i]
         /\ Members(After(s, n)) \subseteq Members(s)
         /\ \A x \in Members(s) \ Members(After(s, n)) : \E i \in 1..Len(s) : i <= n /\ x = s[i]
<1>1. Len(s) \in Nat /\ \A i \in n + 1..Len(s) : s[i] \in S
  BY LenProperties, ElementOfSeq
<1>2. /\ After(s, n) \in Seq(S)
      /\ Len(After(s, n)) = IF n + 1 <= Len(s) THEN Len(s) - (n + 1) + 1 ELSE 0
      /\ \A i \in 1..Len(s) - (n + 1) + 1 : After(s, n)[i] = s[n + 1 + i - 1]
  BY <1>1, SubSeqProperties DEF After
<1>3. Len(After(s, n)) = IF n <= Len(s) THEN Len(s) - n ELSE 0
  BY <1>1, <1>2
<1>4. \A i \in 1..Len(After(s, n)) : n + i \in 1..Len(s) /\ After(s, n)[i] = s[n + i]
  BY <1>1, <1>2, <1>3
<1>5. Members(After(s, n)) \subseteq Members(s)
  BY <1>4 DEF Members
<1>6. ASSUME NEW x \in Members(s) \ Members(After(s, n)) PROVE \E i \in 1..Len(s) : i <= n /\ x = s[i]
  <2>1. PICK i \in 1..Len(s) : x = s[i]
    BY DEF Members
  <2>2. CASE i > n
    <3>1. i - n \in 1..Len(After(s, n)) /\ n + (i - n) = i
      BY <1>1, <1>3, <2>2
    <3>. QED  BY <1>4, <2>1, <3>1 DEF Members
  <2>. QED  BY <1>1, <2>1, <2>2
<1>. QED  BY <1>2, <1>3, <1>4, <1>5, <1>6

\* A push adds one member, at the end.
LEMMA AppendFacts ==
  ASSUME NEW S, NEW s \in Seq(S), NEW x \in S
  PROVE  /\ Append(s, x) \in Seq(S) /\ Len(Append(s, x)) = Len(s) + 1
         /\ \A i \in 1..Len(s) : Append(s, x)[i] = s[i]
         /\ Append(s, x)[Len(s) + 1] = x
         /\ Members(Append(s, x)) = Members(s) \cup {x}
<1>1. Len(s) \in Nat
  BY LenProperties
<1>2. /\ Append(s, x) \in Seq(S) /\ Len(Append(s, x)) = Len(s) + 1
      /\ \A i \in 1..Len(s) : Append(s, x)[i] = s[i]
      /\ Append(s, x)[Len(s) + 1] = x
  BY AppendProperties
<1>3. 1..Len(s) + 1 = 1..Len(s) \cup {Len(s) + 1}
  BY <1>1
<1>. QED  BY <1>2, <1>3 DEF Members

LEMMA InitInv == Init => Inv
<1> SUFFICES ASSUME Init PROVE Inv
  OBVIOUS
<1>1. buffer \in Seq(Buyers) /\ Len(buffer) = 0 /\ Members(buffer) = {}
  BY EmptySeq DEF Init, Members
<1>2. hand \in [Pods -> Seq(Buyers)] /\ \A p \in Pods : Len(hand[p]) = 0
  BY EmptySeq DEF Init
<1>3. TypeOK
  <2>1. 0 \in 0..MaxTrouble /\ 0 <= Batch
    BY ProcessorAssumption
  <2>2. \A p \in Pods : Len(hand[p]) + settled[p] <= Batch /\ claim[p] \subseteq Buyers
    <3>1. 0 + 0 <= Batch
      BY <2>1
    <3>. QED  BY <1>2, <3>1 DEF Init
  <2>3. announced \in [Buyers -> 0..2]
    BY DEF Init
  <2>. QED  BY <1>1, <2>1, <2>2, <2>3 DEF Init, TypeOK
<1>4. Typed
  BY <1>1, <1>2, <1>3 DEF Typed, Init
<1>5. Places /\ OnceInLine /\ Alone /\ DrainsTheHead /\ NotYetTold /\ Kept
  BY <1>1, <1>2 DEF Init, Places, OnceInLine, Alone, DrainsTheHead, NotYetTold, Kept, Ticking, At
<1>. QED  BY <1>4, <1>5 DEF Inv

-----------------------------------------------------------------------------
\* Steps that only move a loop or a Stop, none into a tick, count trouble, or let
\* a window end.
LEMMA QuietKeepsInv ==
  ASSUME Inv,
         \/ \E p \in Pods : Start(p) \/ TickEnds(p) \/ CountError(p) \/ PeekFails(p)
         \/ BeginStop \/ StopDone \/ StopTimesOut \/ LoopEnds
         \/ \E b \in Buyers : Lapse(b)
         \/ UNCHANGED vars
  PROVE  Inv'
<1> USE DEF At, Goes, Ticking, tick, world
<1>1. UNCHANGED <<tick, buffer, slots, announced, lost, overlapped, untidy>>
  BY DEF Start, TickEnds, CountError, PeekFails, BeginStop, StopDone, StopTimesOut, LoopEnds, Lapse, vars
<1>2. /\ lapsed \subseteq lapsed' /\ lapsed' \subseteq slots
      /\ stop' \in {"no", "waiting", "over"} /\ trouble' \in 0..MaxTrouble
  <2>1. trouble \in 0..MaxTrouble /\ stop \in {"no", "waiting", "over"} /\ lapsed \subseteq slots
    BY DEF Inv, Typed, TypeOK
  <2>2. trouble' \in 0..MaxTrouble
    BY <2>1, ProcessorAssumption DEF Start, TickEnds, CountError, PeekFails, BeginStop, StopDone, StopTimesOut, LoopEnds, Lapse, vars,
                Troubled
  <2>. QED  BY <2>1, <2>2 DEF Start, TickEnds, CountError, PeekFails, BeginStop, StopDone, StopTimesOut, LoopEnds, Lapse, vars
<1>3. /\ loop' \in [Pods -> {"off", "wait", "drain", "republish", "admit", "publish", "buffer", "count", "shed", "ended"}]
      /\ \A p \in Pods : /\ loop'[p] # loop[p] => loop[p] \in {"off", "wait", "admit", "count", "drain"}
                         /\ loop'[p] # loop[p] => loop'[p] \in {"wait", "admit", "ended"}
                         /\ Ticking(p)' => Ticking(p)
  <2>1. loop \in [Pods -> {"off", "wait", "drain", "republish", "admit", "publish", "buffer", "count", "shed", "ended"}]
    BY DEF Inv, Typed, TypeOK
  <2>. QED  BY <2>1, ProcessorAssumption DEF Start, TickEnds, CountError, PeekFails, BeginStop, StopDone, StopTimesOut, LoopEnds, Lapse, vars
<1>4. Typed'
  BY <1>1, <1>2, <1>3 DEF Inv, Typed, TypeOK, Members
<1>5. Places' /\ OnceInLine' /\ Alone'
  BY <1>1, <1>2, <1>3 DEF Inv, Places, OnceInLine, Alone, Members
<1>6. DrainsTheHead' /\ NotYetTold'
  BY <1>1, <1>2, <1>3 DEF Inv, DrainsTheHead, NotYetTold
<1>7. Kept'
  BY <1>1, <1>2, <1>3 DEF Inv, Kept, Members
<1>. QED  BY <1>4, <1>5, <1>6, <1>7 DEF Inv

\* A tick that begins while another runs is noted.
LEMMA TickKeepsInv ==
  ASSUME Inv, NEW p \in Pods, Tick(p)
  PROVE  Inv'
<1> USE DEF At, Goes, Ticking, Tick, tick
<1>1. UNCHANGED <<hand, settled, claim, excess, buffer, slots, announced, lapsed, lost, untidy, trouble, stop>>
  OBVIOUS
<1>2. Typed'
  BY DEF Inv, Typed, TypeOK, Members
<1>3. Places' /\ OnceInLine'
  BY DEF Inv, Typed, TypeOK, Places, OnceInLine, Members
<1>4. Alone' /\ DrainsTheHead'
  BY DEF Inv, Typed, TypeOK, Alone, DrainsTheHead
<1>5. NotYetTold'
  BY DEF Inv, Typed, TypeOK, NotYetTold
<1>6. Kept'
  BY DEF Inv, Typed, TypeOK, Kept, Members
<1>. QED  BY <1>2, <1>3, <1>4, <1>5, <1>6 DEF Inv

-----------------------------------------------------------------------------
\* The steps of an announcement.
LEMMA SlotKeepsInv ==
  ASSUME Inv, NEW p \in Pods, NEW b \in Buyers, AddToProcessing(p, b)
  PROVE  Inv'
<1> USE DEF At, Goes, Ticking, AddToProcessing
<1>1. /\ UNCHANGED <<stop, hand, settled, excess, buffer, announced, lapsed, lost, overlapped, untidy, trouble>>
      /\ At(p, "admit") /\ b \notin slots /\ slots' = slots \cup {b}
      /\ claim' = [claim EXCEPT ![p] = {b}] /\ loop' = [loop EXCEPT ![p] = "publish"]
  OBVIOUS
<1>2. claim[p] = {} /\ claim'[p] = {b} /\ \A q \in Pods \ {p} : claim'[q] = claim[q] /\ b \notin claim[q]
  BY <1>1 DEF Inv, Typed, Places
<1>3. Typed'
  BY <1>1, <1>2 DEF Inv, Typed, TypeOK, Members
<1>4. Places'
  BY <1>1, <1>2 DEF Inv, Typed, TypeOK, Places
<1>5. OnceInLine'
  BY <1>1, <1>2 DEF Inv, Typed, TypeOK, OnceInLine, Members
<1>6. Alone' /\ DrainsTheHead'
  BY <1>1 DEF Inv, Typed, TypeOK, Alone, DrainsTheHead
<1>7. NotYetTold'
  BY <1>1, <1>2 DEF Inv, Typed, TypeOK, NotYetTold
<1>8. Kept'
  <2>1. Members(buffer)' = Members(buffer) /\ \A q \in Pods : claim[q] \subseteq claim'[q]
    BY <1>1, <1>2 DEF Members
  <2>. QED  BY <1>1, <1>2, <2>1 DEF Inv, Kept
<1>. QED  BY <1>3, <1>4, <1>5, <1>6, <1>7, <1>8 DEF Inv

\* One more announcement never loses one, and counts no further than twice.
LEMMA AnnounceFacts ==
  ASSUME announced \in [Buyers -> 0..2], NEW b \in Buyers, NEW n \in 1..2, Announce(b, n)
  PROVE  /\ announced' \in [Buyers -> 0..2]
         /\ announced'[b] = (IF announced[b] + n > 2 THEN 2 ELSE announced[b] + n)
         /\ announced'[b] > 0
         /\ \A a \in Buyers \ {b} : announced'[a] = announced[a]
BY DEF Announce

\* What a send does to its buyer, answered or not.
LEMMA SendFacts ==
  ASSUME announced \in [Buyers -> 0..2], NEW b \in Buyers, Sends(b) \/ SendFails(b)
  PROVE  /\ announced' \in [Buyers -> 0..2]
         /\ \A a \in Buyers : announced[a] > 0 => announced'[a] > 0
         /\ \A a \in Buyers \ {b} : announced'[a] = announced[a]
         /\ untidy' = untidy \/ untidy' = TRUE
         /\ ~ untidy' => announced'[b] <= announced[b] + 1
         /\ SendFails(b) /\ ~ untidy' => announced' = announced
         /\ Sends(b) => announced'[b] > 0
<1>1. CASE announced' = announced /\ untidy' = untidy /\ SendFails(b) /\ ~ Sends(b)
  BY <1>1
<1>2. ASSUME NEW n \in 1..2, Announce(b, n), untidy' = TRUE \/ (n = 1 /\ untidy' = untidy /\ Sends(b))
      PROVE  /\ announced' \in [Buyers -> 0..2] /\ announced'[b] > 0
             /\ \A a \in Buyers : announced[a] > 0 => announced'[a] > 0
             /\ \A a \in Buyers \ {b} : announced'[a] = announced[a]
             /\ untidy' = untidy \/ untidy' = TRUE
             /\ ~ untidy' => announced'[b] <= announced[b] + 1
  <2>1. /\ announced' \in [Buyers -> 0..2] /\ announced'[b] > 0
        /\ announced'[b] = (IF announced[b] + n > 2 THEN 2 ELSE announced[b] + n)
        /\ \A a \in Buyers \ {b} : announced'[a] = announced[a]
    BY <1>2, AnnounceFacts
  <2>. QED  BY <1>2, <2>1
<1>3. CASE Sends(b)
  <2>1. PICK n \in 1..2 : Announce(b, n) /\ (untidy' = TRUE \/ (n = 1 /\ untidy' = untidy))
    BY <1>3 DEF Sends
  <2>2. CASE SendFails(b) /\ ~ untidy' /\ announced' # announced
    BY <2>2 DEF SendFails
  <2>. QED  BY <1>2, <1>3, <2>1, <2>2
<1>4. CASE SendFails(b) /\ ~ Sends(b)
  <2>1. CASE UNCHANGED <<announced, untidy>>
    BY <1>1, <1>4, <2>1
  <2>2. CASE ~ UNCHANGED <<announced, untidy>>
    <3>1. PICK n \in 1..2 : Announce(b, n) /\ untidy' = TRUE
      BY <1>4, <2>2 DEF SendFails
    <3>. QED  BY <1>2, <1>4, <3>1
  <2>. QED  BY <2>1, <2>2
<1>. QED  BY <1>3, <1>4

LEMMA PublishKeepsInv ==
  ASSUME Inv, NEW p \in Pods, NEW b \in Buyers, PublishQueueReady(p, b) \/ PublishFails(p, b)
  PROVE  Inv'
<1> USE DEF At, Goes, Ticking, Lets, Claimed
<1>1. /\ UNCHANGED <<stop, hand, settled, excess, buffer, slots, lapsed, lost, overlapped, trouble>>
      /\ At(p, "publish") /\ claim[p] = {b} /\ b \in slots
  <2>1. claim[p] \subseteq slots
    BY DEF Inv, Places
  <2>2. CASE PublishQueueReady(p, b)
    BY <2>1, <2>2 DEF PublishQueueReady
  <2>3. CASE PublishFails(p, b)
    BY <2>1, <2>3 DEF PublishFails, tick
  <2>. QED  BY <2>2, <2>3
<1>2. \/ /\ claim' = [claim EXCEPT ![p] = {}] /\ loop' = [loop EXCEPT ![p] = "admit"]
         /\ Sends(b)
      \/ /\ claim' = claim /\ loop' = [loop EXCEPT ![p] = "buffer"]
         /\ SendFails(b)
  BY DEF PublishQueueReady, PublishFails, tick
<1>3. announced \in [Buyers -> 0..2]
  BY DEF Inv, Typed, TypeOK
<1>4. /\ announced' \in [Buyers -> 0..2]
      /\ \A a \in Buyers : announced[a] > 0 => announced'[a] > 0
      /\ \A a \in Buyers \ {b} : announced'[a] = announced[a]
      /\ untidy' = untidy \/ untidy' = TRUE
      /\ announced'[b] > 0 \/ claim' = claim
      /\ ~ untidy' => announced'[b] <= announced[b] + 1
      /\ ~ untidy' => announced' = announced \/ claim' = [claim EXCEPT ![p] = {}]
  BY <1>2, <1>3, SendFacts
<1>5. Typed'
  <2>1. untidy' \in BOOLEAN
    BY <1>4 DEF Inv, Typed, TypeOK
  <2>2. loop' \in [Pods -> {"off", "wait", "drain", "republish", "admit", "publish", "buffer", "count", "shed", "ended"}]
    BY <1>2 DEF Inv, Typed, TypeOK
  <2>3. claim' \in [Pods -> SUBSET Buyers]
    BY <1>2 DEF Inv, Typed, TypeOK
  <2>. QED  BY <1>1, <1>4, <2>1, <2>2, <2>3 DEF Inv, Typed, TypeOK, Members
<1>6. Places'
  BY <1>1, <1>2 DEF Inv, Typed, TypeOK, Places
<1>7. OnceInLine'
  <2>1. \A q \in Pods : claim'[q] \subseteq claim[q]
    BY <1>2 DEF Inv, Typed
  <2>. QED  BY <1>1, <2>1 DEF Inv, OnceInLine, Members
<1>8. Alone'
  BY <1>1, <1>2 DEF Inv, Typed, TypeOK, Alone
<1>9. DrainsTheHead'
  <2>1. \A q \in Pods : loop'[q] = "republish" => loop[q] = "republish"
    BY <1>1, <1>2 DEF Inv, Typed, TypeOK
  <2>2. \A q \in Pods : \A i \in 1..settled[q] : ~ overlapped /\ At(q, "republish") => buffer[i] \in Buyers
    BY ElementOfSeq, LenProperties DEF Inv, Typed, DrainsTheHead
  <2>. QED  BY <1>1, <1>4, <2>1, <2>2 DEF Inv, Typed, DrainsTheHead
<1>10. NotYetTold'
  <2>1. CASE untidy' \/ overlapped
    BY <1>1, <2>1 DEF NotYetTold
  <2>2. CASE ~ (untidy' \/ overlapped)
    <3>1. ~ untidy
      BY <1>4, <2>2
    <3>2. announced[b] = 0 /\ \A q \in Pods \ {p} : b \notin claim[q]
      BY <1>1, <2>2, <3>1 DEF Inv, NotYetTold, OnceInLine
    <3>3. b \notin Members(buffer)
      BY <1>1 DEF Inv, OnceInLine
    <3>4. announced'[b] <= 1 /\ (announced'[b] = 0 \/ claim' = [claim EXCEPT ![p] = {}])
      <4>1. announced'[b] <= 0 + 1
        BY <1>4, <2>2, <3>2
      <4>. QED  BY <1>4, <2>2, <3>2, <4>1
    <3>5. \A a \in Buyers : announced'[a] <= 1
      BY <1>4, <2>2, <3>1, <3>4 DEF Inv, NotYetTold
    <3>6. \A a \in Buyers \ slots : announced'[a] = 0
      BY <1>1, <1>4, <2>2, <3>1 DEF Inv, NotYetTold
    <3>7. \A q \in Pods : \A a \in claim'[q] : announced'[a] = 0
      BY <1>1, <1>2, <1>4, <2>2, <3>1, <3>2, <3>4 DEF Inv, Typed, NotYetTold
    <3>8. \A i \in 1..Len(buffer) : buffer[i] \in Buyers \ {b}
      BY <3>3, ElementOfSeq DEF Inv, Typed, Members
    <3>9. \A q \in Pods : loop[q] = "republish" => loop'[q] = "republish"
      BY <1>1, <1>2 DEF Inv, Typed, TypeOK
    <3>10. \A i \in 1..Len(buffer) :
             announced'[buffer[i]] = 0 \/ \E q \in Pods : loop'[q] = "republish" /\ i <= settled[q]
      BY <1>4, <2>2, <3>1, <3>8, <3>9 DEF Inv, NotYetTold
    <3>. QED  BY <1>1, <3>5, <3>6, <3>7, <3>10 DEF NotYetTold
  <2>. QED  BY <2>1, <2>2
<1>11. Kept'
  <2>1. announced'[b] > 0 \/ claim' = claim
    BY <1>4
  <2>2. slots \subseteq Buyers
    BY DEF Inv, Typed, TypeOK
  <2>3. \A q \in Pods \ {p} : claim'[q] = claim[q]
    BY <1>2 DEF Inv, Typed
  <2>. QED  BY <1>1, <1>4, <2>1, <2>2, <2>3 DEF Inv, Kept, Members
<1>. QED  BY <1>5, <1>6, <1>7, <1>8, <1>9, <1>10, <1>11 DEF Inv

\* The push: whoever was claimed is at the end of the buffer.
LEMMA BufferKeepsInv ==
  ASSUME Inv, NEW p \in Pods, NEW b \in Buyers, BufferQueueReady(p, b)
  PROVE  Inv'
<1> USE DEF At, Goes, Ticking
<1>1. /\ UNCHANGED <<stop, hand, settled, slots, announced, lapsed, lost, overlapped, untidy, trouble>>
      /\ At(p, "buffer") /\ claim[p] = {b}
      /\ claim' = [claim EXCEPT ![p] = {}]
      /\ buffer' = Append(buffer, b)
  BY DEF BufferQueueReady, Lets, Claimed
<1>2. b \in slots
  BY <1>1 DEF Inv, Places
<1>3. /\ buffer \in Seq(Buyers) /\ Len(buffer) \in Nat
      /\ buffer' \in Seq(Buyers) /\ Len(buffer') = Len(buffer) + 1
      /\ \A i \in 1..Len(buffer) : buffer'[i] = buffer[i] /\ buffer[i] \in Buyers
      /\ buffer'[Len(buffer) + 1] = b
      /\ Members(buffer)' = Members(buffer) \cup {b}
  BY <1>1, AppendFacts, LenProperties, ElementOfSeq DEF Inv, Typed, Members
<1>4. /\ loop' = [loop EXCEPT ![p] = "shed"] \/ loop' = [loop EXCEPT ![p] = "admit"]
      /\ loop \in [Pods -> {"off", "wait", "drain", "republish", "admit", "publish", "buffer", "count", "shed", "ended"}]
  BY DEF BufferQueueReady, Inv, Typed, TypeOK
<1>5. claim' \in [Pods -> SUBSET Buyers] /\ claim'[p] = {} /\ \A q \in Pods \ {p} : claim'[q] = claim[q]
  BY <1>1 DEF Inv, Typed
<1>6. Typed'
  <2>1. excess' \in [Pods -> Nat]
    <3>1. Cap \in Nat /\ excess \in [Pods -> Nat]
      BY ProcessorAssumption DEF Inv, Typed
    <3>2. CASE Len(buffer) + 1 > Cap
      <4>1. Len(buffer) + 1 - Cap \in Nat
        BY <1>3, <3>1, <3>2
      <4>. QED  BY <3>1, <3>2, <4>1 DEF BufferQueueReady
    <3>. QED  BY <3>1, <3>2 DEF BufferQueueReady
  <2>. QED  BY <1>1, <1>2, <1>3, <1>4, <1>5, <2>1 DEF Inv, Typed, TypeOK
<1>7. Places'
  BY <1>1, <1>4, <1>5 DEF Inv, Places
<1>8. OnceInLine'
  <2>1. \A q \in Pods : claim'[q] \cap Members(buffer)' = {}
    BY <1>1, <1>3, <1>5 DEF Inv, OnceInLine
  <2>2. \A i \in 1..Len(buffer) : buffer[i] # b
    BY <1>1 DEF Inv, OnceInLine, Members
  <2>3. \A i, j \in 1..Len(buffer') : buffer'[i] = buffer'[j] => i = j
    <3>1. 1..Len(buffer') = 1..Len(buffer) \cup {Len(buffer) + 1}
      BY <1>3
    <3>. QED  BY <1>3, <2>2, <3>1 DEF Inv, OnceInLine
  <2>. QED  BY <1>5, <2>1, <2>3 DEF Inv, OnceInLine
<1>9. Alone'
  BY <1>1, <1>4 DEF Inv, Alone
<1>10. DrainsTheHead'
  <2> SUFFICES ASSUME ~ overlapped, NEW q \in Pods, loop'[q] = "republish"
               PROVE  /\ settled[q] + Len(hand[q]) <= Len(buffer')
                      /\ \A i \in 1..Len(hand[q]) : hand[q][i] = buffer'[settled[q] + i]
                      /\ \A i \in 1..settled[q] : announced[buffer'[i]] > 0 \/ buffer'[i] \in lapsed
    BY <1>1 DEF DrainsTheHead
  <2>1. loop[q] = "republish"
    BY <1>1, <1>4
  <2>2. settled[q] \in Nat /\ Len(hand[q]) \in Nat
    BY LenProperties DEF Inv, Typed
  <2>3. /\ settled[q] + Len(hand[q]) <= Len(buffer)
        /\ \A i \in 1..Len(hand[q]) : hand[q][i] = buffer[settled[q] + i]
        /\ \A i \in 1..settled[q] : announced[buffer[i]] > 0 \/ buffer[i] \in lapsed
    BY <2>1 DEF Inv, DrainsTheHead
  <2>4. /\ \A i \in 1..Len(hand[q]) : settled[q] + i \in 1..Len(buffer)
        /\ \A i \in 1..settled[q] : i \in 1..Len(buffer)
    BY <1>3, <2>2, <2>3
  <2>5. settled[q] + Len(hand[q]) <= Len(buffer')
    BY <1>3, <2>2, <2>3
  <2>6. \A i \in 1..Len(hand[q]) : hand[q][i] = buffer'[settled[q] + i]
    BY <1>3, <2>3, <2>4
  <2>7. \A i \in 1..settled[q] : announced[buffer'[i]] > 0 \/ buffer'[i] \in lapsed
    BY <1>3, <2>3, <2>4
  <2>. QED  BY <2>5, <2>6, <2>7
<1>11. NotYetTold'
  <2> SUFFICES ASSUME ~ untidy, ~ overlapped PROVE NotYetTold'
    BY <1>1 DEF NotYetTold
  <2>1. announced[b] = 0 /\ \A q \in Pods : loop[q] = "republish" => loop'[q] = "republish"
    BY <1>1, <1>4 DEF Inv, NotYetTold
  <2>2. \A i \in 1..Len(buffer') :
          announced'[buffer'[i]] = 0 \/ \E q \in Pods : loop'[q] = "republish" /\ i <= settled'[q]
    <3>1. 1..Len(buffer') = 1..Len(buffer) \cup {Len(buffer) + 1}
      BY <1>3
    <3>. QED  BY <1>1, <1>3, <2>1, <3>1 DEF Inv, NotYetTold
  <2>. QED  BY <1>1, <1>5, <2>2 DEF Inv, NotYetTold
<1>12. Kept'
  BY <1>1, <1>3, <1>5 DEF Inv, Kept
<1>. QED  BY <1>6, <1>7, <1>8, <1>9, <1>10, <1>11, <1>12 DEF Inv

\* A push that fails gives the announcement up.
LEMMA BufferFailsKeepsInv ==
  ASSUME Inv, NEW p \in Pods, NEW b \in Buyers, BufferFails(p, b)
  PROVE  Inv'
<1> USE DEF At, Goes, Ticking
<1>1. /\ UNCHANGED <<stop, hand, settled, excess, buffer, slots, announced, lapsed, overlapped, untidy>>
      /\ At(p, "buffer") /\ claim[p] = {b} /\ b \in slots
      /\ claim' = [claim EXCEPT ![p] = {}] /\ loop' = [loop EXCEPT ![p] = "count"]
      /\ lost' = lost \cup {b}
  BY DEF BufferFails, Lets, Claimed, Inv, Places
<1>2. claim' \in [Pods -> SUBSET Buyers] /\ claim'[p] = {} /\ \A q \in Pods \ {p} : claim'[q] = claim[q]
  BY <1>1 DEF Inv, Typed
<1>3. Members(buffer)' = Members(buffer)
  BY <1>1 DEF Members
<1>4. Typed'
  <2>1. trouble' \in 0..MaxTrouble
    BY ProcessorAssumption DEF BufferFails, Troubled, Inv, Typed, TypeOK
  <2>2. loop' \in [Pods -> {"off", "wait", "drain", "republish", "admit", "publish", "buffer", "count", "shed", "ended"}]
    BY <1>1 DEF Inv, Typed, TypeOK
  <2>. QED  BY <1>1, <1>2, <1>3, <2>1, <2>2 DEF Inv, Typed, TypeOK
<1>5. Places'
  BY <1>1, <1>2 DEF Inv, Typed, TypeOK, Places
<1>6. OnceInLine'
  BY <1>1, <1>2, <1>3 DEF Inv, OnceInLine
<1>7. Alone' /\ DrainsTheHead'
  BY <1>1 DEF Inv, Typed, TypeOK, Alone, DrainsTheHead
<1>8. NotYetTold'
  BY <1>1, <1>2 DEF Inv, Typed, TypeOK, NotYetTold
<1>9. Kept'
  BY <1>1, <1>2, <1>3 DEF Inv, Kept
<1>. QED  BY <1>4, <1>5, <1>6, <1>7, <1>8, <1>9 DEF Inv

\* The oldest are shed while no drain is under way, and are given up.
LEMMA ShedKeepsInv ==
  ASSUME Inv, NEW p \in Pods, Shed(p) \/ ShedFails(p)
  PROVE  Inv'
<1> USE DEF At, Goes, Ticking
<1>1. /\ UNCHANGED <<stop, hand, settled, claim, slots, announced, lapsed, overlapped, untidy>>
      /\ At(p, "shed") /\ loop' = [loop EXCEPT ![p] = "admit"]
      /\ excess' = [excess EXCEPT ![p] = 0]
  BY DEF Shed, ShedFails
<1>2. PICK n \in Nat : buffer' = After(buffer, n) \/ (n = 0 /\ buffer' = buffer)
  BY DEF Shed, ShedFails, Inv, Typed
<1>3. buffer \in Seq(Buyers) /\ Len(buffer) \in Nat /\ \A i \in 1..Len(buffer) : buffer[i] \in Buyers
  BY LenProperties, ElementOfSeq DEF Inv, Typed
<1>4. /\ buffer' \in Seq(Buyers) /\ Len(buffer') \in Nat
      /\ \A i \in 1..Len(buffer') : n + i \in 1..Len(buffer) /\ buffer'[i] = buffer[n + i]
      /\ Members(buffer)' \subseteq Members(buffer)
  <2>1. CASE buffer' = After(buffer, n)
    <3>1. Members(buffer)' = Members(After(buffer, n))
      BY <2>1 DEF Members
    <3>2. buffer' \in Seq(Buyers) /\ Len(buffer') \in Nat
      BY <1>3, <2>1, AfterFacts, LenProperties
    <3>3. \A i \in 1..Len(buffer') : n + i \in 1..Len(buffer) /\ buffer'[i] = buffer[n + i]
      BY <1>3, <2>1, AfterFacts
    <3>4. Members(After(buffer, n)) \subseteq Members(buffer)
      BY <1>3, AfterFacts
    <3>. QED  BY <3>1, <3>2, <3>3, <3>4
  <2>2. CASE n = 0 /\ buffer' = buffer
    BY <1>3, <2>2 DEF Members
  <2>. QED  BY <1>2, <2>1, <2>2
<1>5. lost \subseteq lost' /\ lost' \subseteq slots /\ Members(buffer) \subseteq Members(buffer)' \cup lost'
  <2>1. Members(buffer) \subseteq slots /\ lost \subseteq slots
    BY DEF Inv, Typed, TypeOK
  <2>2. CASE Shed(p)
    <3>1. lost' = lost \cup (Members(buffer) \ Members(buffer)')
      BY <2>2 DEF Shed, Members
    <3>. QED  BY <2>1, <3>1
  <2>3. CASE ShedFails(p)
    BY <2>1, <2>3 DEF ShedFails, Members
  <2>. QED  BY <2>2, <2>3
<1>6. Typed'
  <2>1. trouble' \in 0..MaxTrouble
    BY ProcessorAssumption DEF Shed, ShedFails, Troubled, Inv, Typed, TypeOK
  <2>2. excess' \in [Pods -> Nat]
    BY <1>1 DEF Inv, Typed
  <2>. QED  BY <1>1, <1>4, <1>5, <2>1, <2>2 DEF Inv, Typed, TypeOK
<1>7. Places'
  BY <1>1 DEF Inv, Typed, TypeOK, Places
<1>8. OnceInLine'
  <2>1. \A q \in Pods : claim'[q] \cap Members(buffer)' = {}
    BY <1>1, <1>4 DEF Inv, OnceInLine
  <2>2. \A i, j \in 1..Len(buffer') : buffer'[i] = buffer'[j] => i = j
    <3>1. \A i, j \in 1..Len(buffer') : buffer'[i] = buffer'[j] => n + i = n + j
      BY <1>4 DEF Inv, OnceInLine
    <3>. QED  BY <1>2, <1>4, <3>1
  <2>3. \A q, r \in Pods : q # r => claim'[q] \cap claim'[r] = {}
    BY <1>1 DEF Inv, OnceInLine
  <2>. QED  BY <2>1, <2>2, <2>3 DEF OnceInLine
<1>9. Alone'
  BY <1>1 DEF Inv, Typed, TypeOK, Alone
<1>10. overlapped \/ \A q \in Pods : loop[q] # "republish" /\ loop'[q] # "republish"
  BY <1>1 DEF Inv, Typed, TypeOK, Alone
<1>11. DrainsTheHead'
  BY <1>1, <1>10 DEF DrainsTheHead
<1>12. NotYetTold'
  BY <1>1, <1>3, <1>4, <1>10 DEF Inv, NotYetTold
<1>13. Kept'
  BY <1>1, <1>5 DEF Inv, Kept
<1>. QED  BY <1>6, <1>7, <1>8, <1>9, <1>11, <1>12, <1>13 DEF Inv

-----------------------------------------------------------------------------
\* The drain.  It reads the head of the buffer with nothing settled.
LEMMA PeekKeepsInv ==
  ASSUME Inv, NEW p \in Pods, PeekBuffered(p)
  PROVE  Inv'
<1> USE DEF At, Goes, Ticking
<1> DEFINE n == IF Len(buffer) < Batch THEN Len(buffer) ELSE Batch
           h == SubSeq(buffer, 1, n)
<1>1. /\ UNCHANGED <<stop, settled, claim, excess, buffer, slots, announced, lapsed, lost, overlapped, untidy, trouble>>
      /\ At(p, "drain") /\ hand' = [hand EXCEPT ![p] = h]
      /\ loop' = [loop EXCEPT ![p] = IF n = 0 THEN "admit" ELSE "republish"]
  BY DEF PeekBuffered, world
<1>2. settled[p] = 0 /\ claim[p] = {}
  <2>1. settled[p] \in Nat
    BY DEF Inv, Typed
  <2>2. ~ (settled[p] > 0) /\ claim[p] = {}
    BY <1>1 DEF Inv, Places
  <2>. QED  BY <2>1, <2>2
<1>3. buffer \in Seq(Buyers) /\ Len(buffer) \in Nat /\ \A i \in 1..Len(buffer) : buffer[i] \in Buyers
  BY LenProperties, ElementOfSeq DEF Inv, Typed
<1>4. n \in Nat /\ n <= Len(buffer) /\ n <= Batch /\ Batch \in Nat
  BY <1>3, ProcessorAssumption
<1>5. h \in Seq(Buyers) /\ Len(h) = n /\ \A i \in 1..n : h[i] = buffer[i]
  <2>1. \A i \in 1..n : buffer[i] \in Buyers
    BY <1>3, <1>4
  <2>2. /\ h \in Seq(Buyers) /\ Len(h) = IF 1 <= n THEN n - 1 + 1 ELSE 0
        /\ \A i \in 1..n - 1 + 1 : h[i] = buffer[1 + i - 1]
    BY <1>4, <2>1, SubSeqProperties
  <2>. HIDE DEF n, h
  <2>. QED  BY <1>4, <2>2
<1>6. n = 0 => h = <<>>
  BY <1>5, EmptySeq
<1>7. hand' \in [Pods -> Seq(Buyers)] /\ hand'[p] = h /\ \A q \in Pods \ {p} : hand'[q] = hand[q]
  BY <1>1, <1>5 DEF Inv, Typed
<1>. HIDE DEF n, h
<1>8. loop' \in [Pods -> {"off", "wait", "drain", "republish", "admit", "publish", "buffer", "count", "shed", "ended"}]
  BY <1>1 DEF Inv, Typed, TypeOK
<1>9. Typed'
  <2>1. Len(hand'[p]) + settled[p] <= Batch
    BY <1>2, <1>4, <1>5, <1>7
  <2>2. \A q \in Pods : Len(hand'[q]) + settled[q] <= Batch
    BY <1>7, <2>1 DEF Inv, Typed, TypeOK
  <2>. QED  BY <1>1, <1>7, <1>8, <2>2 DEF Inv, Typed, TypeOK, Members
<1>10. Places'
  BY <1>1, <1>2, <1>6, <1>7 DEF Inv, Typed, TypeOK, Places
<1>11. OnceInLine'
  BY <1>1 DEF Inv, OnceInLine, Members
<1>12. Alone'
  BY <1>1 DEF Inv, Typed, TypeOK, Alone
<1>13. DrainsTheHead'
  <2> SUFFICES ASSUME ~ overlapped, NEW q \in Pods, loop'[q] = "republish"
               PROVE  /\ settled[q] + Len(hand'[q]) <= Len(buffer)
                      /\ \A i \in 1..Len(hand'[q]) : hand'[q][i] = buffer[settled[q] + i]
                      /\ \A i \in 1..settled[q] : announced[buffer[i]] > 0 \/ buffer[i] \in lapsed
    BY <1>1 DEF DrainsTheHead
  <2>1. CASE q = p
    <3>1. Len(hand'[q]) = n /\ settled[q] = 0 /\ settled[q] + Len(hand'[q]) <= Len(buffer)
      BY <1>2, <1>3, <1>4, <1>5, <1>7, <2>1
    <3>2. \A i \in 1..Len(hand'[q]) : hand'[q][i] = buffer[settled[q] + i]
      BY <1>4, <1>5, <1>7, <2>1, <3>1
    <3>. QED  BY <3>1, <3>2
  <2>2. CASE q # p
    BY <1>1, <1>7, <2>2 DEF Inv, DrainsTheHead
  <2>. QED  BY <2>1, <2>2
<1>14. NotYetTold'
  BY <1>1 DEF Inv, Typed, TypeOK, NotYetTold
<1>15. Kept'
  BY <1>1 DEF Inv, Kept, Members
<1>. QED  BY <1>9, <1>10, <1>11, <1>12, <1>13, <1>14, <1>15 DEF Inv

\* Each payload settled moves the border by one, and was announced or had lapsed.
LEMMA SettleKeepsInv ==
  ASSUME Inv, NEW p \in Pods, DiscardExpired(p) \/ Republish(p)
  PROVE  Inv'
<1> USE DEF At, Goes, Ticking
<1> DEFINE b == Head(hand[p])
           k == settled[p] + 1
<1>1. /\ UNCHANGED <<loop, stop, claim, excess, buffer, slots, lapsed, lost, overlapped, trouble>>
      /\ At(p, "republish") /\ hand[p] # <<>>
      /\ settled' = [settled EXCEPT ![p] = k] /\ hand' = [hand EXCEPT ![p] = Tail(hand[p])]
  BY DEF DiscardExpired, Republish, Settles, More, world, Inv, Typed
<1>2. /\ settled[p] \in Nat /\ k \in Nat /\ Len(hand[p]) \in Nat \ {0}
      /\ hand[p] \in Seq(Buyers) /\ b \in Buyers /\ b = hand[p][1]
      /\ Tail(hand[p]) \in Seq(Buyers) /\ Len(Tail(hand[p])) = Len(hand[p]) - 1
      /\ \A i \in 1..Len(Tail(hand[p])) : Tail(hand[p])[i] = hand[p][i + 1]
  <2>1. settled[p] \in Nat /\ hand[p] \in Seq(Buyers)
    BY DEF Inv, Typed
  <2>2. Len(hand[p]) \in Nat \ {0}
    BY <1>1, <2>1, LenProperties, EmptySeq
  <2>. QED  BY <1>1, <2>1, <2>2, HeadTailProperties
<1>3. \/ b \in lapsed /\ announced' = announced /\ untidy' = untidy
      \/ Sends(b)
  BY DEF DiscardExpired, Republish, world
<1>. HIDE DEF b
<1>4. announced \in [Buyers -> 0..2]
  BY DEF Inv, Typed, TypeOK
<1>5. /\ announced' \in [Buyers -> 0..2]
      /\ announced'[b] > 0 \/ b \in lapsed
      /\ \A a \in Buyers : announced[a] > 0 => announced'[a] > 0
      /\ \A a \in Buyers \ {b} : announced'[a] = announced[a]
      /\ untidy' = untidy \/ untidy' = TRUE
      /\ ~ untidy' => announced'[b] <= announced[b] + 1
  <2>1. CASE b \in lapsed /\ announced' = announced /\ untidy' = untidy
    BY <1>2, <1>4, <2>1
  <2>2. CASE Sends(b)
    BY <1>2, <1>4, <2>2, SendFacts
  <2>. QED  BY <1>3, <2>1, <2>2
<1>6. /\ hand' \in [Pods -> Seq(Buyers)] /\ settled' \in [Pods -> Nat]
      /\ hand'[p] = Tail(hand[p]) /\ settled'[p] = k
      /\ \A q \in Pods \ {p} : hand'[q] = hand[q] /\ settled'[q] = settled[q]
  BY <1>1, <1>2 DEF Inv, Typed
<1>7. Typed'
  <2>1. Len(hand'[p]) = Len(hand[p]) - 1 /\ settled'[p] = settled[p] + 1
    BY <1>2, <1>6
  <2>2. Len(hand'[p]) + settled'[p] = Len(hand[p]) + settled[p]
    <3>1. Len(hand[p]) \in Nat /\ settled[p] \in Nat
      BY <1>2
    <3>2. \A l, s \in Nat : (l - 1) + (s + 1) = l + s
      OBVIOUS
    <3>3. (Len(hand[p]) - 1) + (settled[p] + 1) = Len(hand[p]) + settled[p]
      BY <3>1, <3>2
    <3>. QED  BY <2>1, <3>3
  <2>3. \A q \in Pods : Len(hand'[q]) + settled'[q] <= Batch
    BY <1>6, <2>2 DEF Inv, Typed, TypeOK
  <2>4. untidy' \in BOOLEAN
    BY <1>5 DEF Inv, Typed, TypeOK
  <2>. QED  BY <1>1, <1>5, <1>6, <2>3, <2>4 DEF Inv, Typed, TypeOK, Members
<1>8. Places'
  BY <1>1, <1>6 DEF Inv, Places
<1>9. OnceInLine' /\ Alone'
  BY <1>1 DEF Inv, OnceInLine, Alone, Members
<1>10. Len(buffer) \in Nat /\ \A i \in 1..Len(buffer) : buffer[i] \in Buyers
  BY LenProperties, ElementOfSeq DEF Inv, Typed
<1>11. ASSUME ~ overlapped
       PROVE  /\ settled[p] + Len(hand[p]) <= Len(buffer) /\ k \in 1..Len(buffer) /\ buffer[k] = b
              /\ \A i \in 1..settled[p] : i \in 1..Len(buffer)
              /\ \A q \in Pods : At(q, "republish") => q = p
  <2>1. /\ settled[p] + Len(hand[p]) <= Len(buffer)
        /\ \A i \in 1..Len(hand[p]) : hand[p][i] = buffer[settled[p] + i]
    BY <1>1, <1>11 DEF Inv, DrainsTheHead
  <2>2. k \in 1..Len(buffer) /\ 1 \in 1..Len(hand[p]) /\ \A i \in 1..settled[p] : i \in 1..Len(buffer)
    BY <1>2, <1>10, <2>1
  <2>3. \A q \in Pods : At(q, "republish") => q = p
    BY <1>1, <1>11 DEF Inv, Alone
  <2>. QED  BY <1>2, <2>1, <2>2, <2>3
<1>12. DrainsTheHead'
  <2> SUFFICES ASSUME ~ overlapped
               PROVE  /\ settled'[p] + Len(hand'[p]) <= Len(buffer)
                      /\ \A i \in 1..Len(hand'[p]) : hand'[p][i] = buffer[settled'[p] + i]
                      /\ \A i \in 1..settled'[p] : announced'[buffer[i]] > 0 \/ buffer[i] \in lapsed
    BY <1>1, <1>11 DEF DrainsTheHead
  <2>1. settled'[p] + Len(hand'[p]) <= Len(buffer)
    BY <1>2, <1>6, <1>10, <1>11
  <2>2. ASSUME NEW i \in 1..Len(hand'[p]) PROVE hand'[p][i] = buffer[settled'[p] + i]
    <3>1. i \in 1..Len(hand[p]) - 1 /\ i \in 1..Len(Tail(hand[p])) /\ i \in Nat
      BY <1>2, <1>6, <2>2
    <3>2. i + 1 \in 1..Len(hand[p]) /\ settled[p] + (i + 1) = k + i
      BY <1>2, <3>1
    <3>3. hand[p][i + 1] = buffer[settled[p] + (i + 1)]
      BY <1>1, <3>2 DEF Inv, DrainsTheHead
    <3>. QED  BY <1>2, <1>6, <3>1, <3>2, <3>3
  <2>3. ASSUME NEW i \in 1..settled'[p] PROVE announced'[buffer[i]] > 0 \/ buffer[i] \in lapsed
    <3>1. CASE i = k
      BY <1>5, <1>11, <3>1
    <3>2. CASE i # k
      <4>1. i \in 1..settled[p]
        BY <1>2, <1>6, <3>2
      <4>. QED  BY <1>1, <1>5, <1>10, <1>11, <4>1 DEF Inv, DrainsTheHead
    <3>. QED  BY <3>1, <3>2
  <2>. QED  BY <2>1, <2>2, <2>3
<1>13. NotYetTold'
  <2> SUFFICES ASSUME ~ untidy', ~ untidy, ~ overlapped PROVE NotYetTold'
    BY <1>1, <1>5 DEF NotYetTold
  <2>1. announced[b] = 0
    <3>1. announced[buffer[k]] = 0 \/ \E q \in Pods : At(q, "republish") /\ k <= settled[q]
      BY <1>11 DEF Inv, NotYetTold
    <3>. QED  BY <1>2, <1>11, <3>1
  <2>2. announced'[b] <= 1
    <3>1. announced'[b] <= 0 + 1
      BY <1>5, <2>1
    <3>. QED  BY <3>1
  <2>3. b \in Members(buffer)
    BY <1>11 DEF Members
  <2>4. b \in slots /\ \A q \in Pods : b \notin claim[q]
    BY <2>3 DEF Inv, Typed, TypeOK, OnceInLine
  <2>5. \A a \in Buyers : announced'[a] <= 1
    BY <1>5, <2>2 DEF Inv, NotYetTold
  <2>6. /\ \A a \in Buyers \ slots : announced'[a] = 0
        /\ \A q \in Pods : \A a \in claim[q] : announced'[a] = 0
    BY <1>5, <2>4 DEF Inv, Typed, NotYetTold
  <2>7. ASSUME NEW i \in 1..Len(buffer)
        PROVE  announced'[buffer[i]] = 0 \/ \E q \in Pods : At(q, "republish") /\ i <= settled'[q]
    <3>1. CASE i <= k
      BY <1>1, <1>6, <3>1
    <3>2. CASE ~ (i <= k)
      <4>1. buffer[i] # b
        BY <1>2, <1>11, <3>2 DEF Inv, OnceInLine
      <4>2. announced[buffer[i]] = 0
        <5>1. \A q \in Pods : At(q, "republish") => ~ (i <= settled[q])
          BY <1>2, <1>11, <3>2
        <5>. QED  BY <5>1 DEF Inv, NotYetTold
      <4>. QED  BY <1>5, <1>10, <4>1, <4>2
    <3>. QED  BY <3>1, <3>2
  <2>. QED  BY <1>1, <2>5, <2>6, <2>7 DEF NotYetTold
<1>14. Kept'
  <2>1. slots \subseteq Buyers /\ Members(buffer)' = Members(buffer)
    BY <1>1 DEF Inv, Typed, TypeOK, Members
  <2>. QED  BY <1>1, <1>5, <2>1 DEF Inv, Kept
<1>. QED  BY <1>7, <1>8, <1>9, <1>12, <1>13, <1>14 DEF Inv

\* A drain that fails lets go of the rest; what it settled stays to be trimmed.
LEMMA RepublishFailsKeepsInv ==
  ASSUME Inv, NEW p \in Pods, RepublishFails(p)
  PROVE  Inv'
<1> USE DEF At, Goes, Ticking
<1> DEFINE b == Head(hand[p])
<1>1. /\ UNCHANGED <<loop, stop, settled, claim, excess, buffer, slots, lapsed, lost, overlapped, trouble>>
      /\ At(p, "republish") /\ hand' = [hand EXCEPT ![p] = <<>>]
      /\ hand[p] # <<>> /\ SendFails(b)
  BY DEF RepublishFails, More
<1>0. b \in Buyers
  <2>1. hand[p] \in Seq(Buyers) /\ hand[p] # <<>>
    BY <1>1 DEF Inv, Typed
  <2>. QED  BY <2>1, HeadTailProperties
<1> HIDE DEF b
<1>9. /\ announced' \in [Buyers -> 0..2]
      /\ \A a \in Buyers : announced[a] > 0 => announced'[a] > 0
      /\ untidy' = untidy \/ untidy' = TRUE
      /\ ~ untidy' => announced' = announced
  BY <1>0, <1>1, SendFacts DEF Inv, Typed, TypeOK
<1>2. /\ hand' \in [Pods -> Seq(Buyers)] /\ hand'[p] = <<>> /\ Len(hand'[p]) = 0
      /\ \A q \in Pods \ {p} : hand'[q] = hand[q]
  BY <1>1, EmptySeq DEF Inv, Typed
<1>3. settled[p] \in Nat /\ Len(hand[p]) \in Nat /\ Len(buffer) \in Nat
  BY LenProperties DEF Inv, Typed
<1>4. Typed'
  <2>1. Len(hand'[p]) + settled[p] <= Batch
    <3>1. Len(hand[p]) + settled[p] <= Batch
      BY DEF Inv, Typed, TypeOK
    <3>. QED  BY <1>2, <1>3, <3>1, ProcessorAssumption
  <2>2. \A q \in Pods : Len(hand'[q]) + settled[q] <= Batch
    BY <1>2, <2>1 DEF Inv, Typed, TypeOK
  <2>3. untidy' \in BOOLEAN
    BY <1>9 DEF Inv, Typed, TypeOK
  <2>. QED  BY <1>1, <1>2, <1>9, <2>2, <2>3 DEF Inv, Typed, TypeOK, Members
<1>5. Places'
  BY <1>1, <1>2 DEF Inv, Places
<1>6. OnceInLine' /\ Alone'
  BY <1>1 DEF Inv, OnceInLine, Alone, Members
<1>7. DrainsTheHead'
  <2> SUFFICES ASSUME ~ overlapped, NEW q \in Pods, loop[q] = "republish"
               PROVE  /\ settled[q] + Len(hand'[q]) <= Len(buffer)
                      /\ \A i \in 1..Len(hand'[q]) : hand'[q][i] = buffer[settled[q] + i]
                      /\ \A i \in 1..settled[q] : announced'[buffer[i]] > 0 \/ buffer[i] \in lapsed
    BY <1>1 DEF DrainsTheHead
  <2>1. /\ settled[q] + Len(hand[q]) <= Len(buffer)
        /\ \A i \in 1..Len(hand[q]) : hand[q][i] = buffer[settled[q] + i]
        /\ \A i \in 1..settled[q] : announced[buffer[i]] > 0 \/ buffer[i] \in lapsed
    BY DEF Inv, DrainsTheHead
  <2>2. settled[q] + Len(hand'[q]) <= Len(buffer)
    BY <1>2, <1>3, <2>1
  <2>3. \A i \in 1..Len(hand'[q]) : hand'[q][i] = buffer[settled[q] + i]
    BY <1>2, <2>1
  <2>4. \A i \in 1..settled[q] : buffer[i] \in Buyers
    <3>1. \A i \in 1..settled[q] : i \in 1..Len(buffer)
      <4>1. settled[q] \in Nat /\ Len(hand[q]) \in Nat /\ Len(buffer) \in Nat
        BY LenProperties DEF Inv, Typed
      <4>. QED  BY <2>1, <4>1
    <3>. QED  BY <3>1, ElementOfSeq DEF Inv, Typed
  <2>. QED  BY <1>9, <2>1, <2>2, <2>3, <2>4
<1>8. NotYetTold'
  <2>1. CASE untidy'
    BY <2>1 DEF NotYetTold
  <2>2. CASE ~ untidy'
    <3>1. announced' = announced /\ ~ untidy
      BY <1>9, <2>2
    <3>. QED  BY <1>1, <3>1 DEF Inv, NotYetTold
  <2>. QED  BY <2>1, <2>2
<1>10. Kept'
  <2>1. slots \subseteq Buyers /\ Members(buffer)' = Members(buffer)
    BY <1>1 DEF Inv, Typed, TypeOK, Members
  <2>. QED  BY <1>1, <1>9, <2>1 DEF Inv, Kept
<1>. QED  BY <1>4, <1>5, <1>6, <1>7, <1>8, <1>10 DEF Inv

\* A trim takes off what was settled, and nothing that is still awaited.
LEMMA TrimKeepsInv ==
  ASSUME Inv, NEW p \in Pods, TrimBuffered(p)
  PROVE  Inv'
<1> USE DEF At, Goes, Ticking
<1> DEFINE n == settled[p]
<1>1. /\ UNCHANGED <<stop, hand, claim, excess, slots, announced, lapsed, lost, overlapped, untidy, trouble>>
      /\ At(p, "republish") /\ hand[p] = <<>>
      /\ loop' = [loop EXCEPT ![p] = "admit"] /\ settled' = [settled EXCEPT ![p] = 0]
      /\ buffer' = After(buffer, n)
  BY DEF TrimBuffered, More
<1>2. /\ buffer \in Seq(Buyers) /\ Len(buffer) \in Nat /\ n \in Nat
      /\ \A i \in 1..Len(buffer) : buffer[i] \in Buyers
  BY LenProperties, ElementOfSeq DEF Inv, Typed
<1>3. Members(buffer)' = Members(After(buffer, n))
  BY <1>1 DEF Members
<1>4. /\ buffer' \in Seq(Buyers) /\ Len(buffer') \in Nat
      /\ \A i \in 1..Len(buffer') : n + i \in 1..Len(buffer) /\ buffer'[i] = buffer[n + i]
      /\ Members(buffer)' \subseteq Members(buffer)
      /\ \A x \in Members(buffer) \ Members(buffer)' : \E i \in 1..Len(buffer) : i <= n /\ x = buffer[i]
  <2>. HIDE DEF n
  <2>1. buffer' \in Seq(Buyers) /\ Len(buffer') \in Nat
    BY <1>1, <1>2, AfterFacts, LenProperties
  <2>2. \A i \in 1..Len(buffer') : n + i \in 1..Len(buffer) /\ buffer'[i] = buffer[n + i]
    BY <1>1, <1>2, AfterFacts
  <2>3. /\ Members(buffer)' \subseteq Members(buffer)
        /\ \A x \in Members(buffer) \ Members(buffer)' : \E i \in 1..Len(buffer) : i <= n /\ x = buffer[i]
    BY <1>2, <1>3, AfterFacts
  <2>. QED  BY <2>1, <2>2, <2>3
<1>5. /\ settled' \in [Pods -> Nat] /\ settled'[p] = 0
      /\ \A q \in Pods \ {p} : settled'[q] = settled[q]
      /\ loop' \in [Pods -> {"off", "wait", "drain", "republish", "admit", "publish", "buffer", "count", "shed", "ended"}]
  BY <1>1 DEF Inv, Typed, TypeOK
<1>6. Typed'
  <2>1. Len(hand[p]) + settled'[p] <= Batch
    <3>1. Len(hand[p]) = 0
      BY <1>1
    <3>. QED  BY <1>5, <3>1, ProcessorAssumption
  <2>2. \A q \in Pods : Len(hand[q]) + settled'[q] <= Batch
    BY <1>5, <2>1 DEF Inv, Typed, TypeOK
  <2>3. Members(buffer)' \subseteq slots
    BY <1>4 DEF Inv, Typed, TypeOK
  <2>. QED  BY <1>1, <1>4, <1>5, <2>2, <2>3 DEF Inv, Typed, TypeOK
<1>7. Places'
  <2>1. ~ (settled'[p] > 0)
    BY <1>5
  <2>. QED  BY <1>1, <1>5, <2>1 DEF Inv, Typed, TypeOK, Places
<1>8. OnceInLine'
  <2>1. \A q \in Pods : claim'[q] \cap Members(buffer)' = {}
    BY <1>1, <1>4 DEF Inv, OnceInLine
  <2>2. \A i, j \in 1..Len(buffer') : buffer'[i] = buffer'[j] => i = j
    <3>1. \A i, j \in 1..Len(buffer') : buffer'[i] = buffer'[j] => n + i = n + j
      BY <1>4 DEF Inv, OnceInLine
    <3>. QED  BY <1>2, <1>4, <3>1
  <2>3. \A q, r \in Pods : q # r => claim'[q] \cap claim'[r] = {}
    BY <1>1 DEF Inv, OnceInLine
  <2>. QED  BY <2>1, <2>2, <2>3 DEF OnceInLine
<1>9. Alone'
  BY <1>1 DEF Inv, Typed, TypeOK, Alone
<1>10. overlapped \/ \A q \in Pods : At(q, "republish") => q = p
  BY <1>1 DEF Inv, Alone
<1>11. DrainsTheHead'
  BY <1>1, <1>5, <1>10 DEF Inv, Typed, TypeOK, DrainsTheHead
<1>12. NotYetTold'
  <2> SUFFICES ASSUME ~ untidy, ~ overlapped PROVE NotYetTold'
    BY <1>1 DEF NotYetTold
  <2>1. ASSUME NEW i \in 1..Len(buffer') PROVE announced[buffer'[i]] = 0
    <3>1. n + i \in 1..Len(buffer) /\ buffer'[i] = buffer[n + i] /\ ~ (n + i <= n)
      BY <1>2, <1>4
    <3>. QED  BY <1>10, <3>1 DEF Inv, NotYetTold
  <2>. QED  BY <1>1, <2>1 DEF Inv, NotYetTold
<1>13. Kept'
  <2> SUFFICES ASSUME ~ overlapped, NEW b \in Members(buffer) \ Members(buffer)'
               PROVE  announced[b] > 0 \/ b \in lapsed
    BY <1>1 DEF Inv, Kept
  <2>1. PICK i \in 1..Len(buffer) : i <= n /\ b = buffer[i]
    BY <1>4
  <2>2. i \in 1..settled[p]
    BY <1>2, <2>1
  <2>. QED  BY <1>1, <2>1, <2>2 DEF Inv, DrainsTheHead
<1>. QED  BY <1>6, <1>7, <1>8, <1>9, <1>11, <1>12, <1>13 DEF Inv

\* "A failed trim republishes next tick": the buffer keeps what was published.
LEMMA TrimFailsKeepsInv ==
  ASSUME Inv, NEW p \in Pods, TrimFails(p)
  PROVE  Inv'
<1> USE DEF At, Goes, Ticking
<1>1. /\ UNCHANGED <<stop, hand, claim, excess, buffer, slots, announced, lapsed, lost, overlapped>>
      /\ At(p, "republish") /\ hand[p] = <<>> /\ untidy' = TRUE
      /\ loop' = [loop EXCEPT ![p] = "admit"] /\ settled' = [settled EXCEPT ![p] = 0]
  BY DEF TrimFails, More
<1>2. /\ settled' \in [Pods -> Nat] /\ settled'[p] = 0
      /\ \A q \in Pods \ {p} : settled'[q] = settled[q]
      /\ loop' \in [Pods -> {"off", "wait", "drain", "republish", "admit", "publish", "buffer", "count", "shed", "ended"}]
  BY <1>1 DEF Inv, Typed, TypeOK
<1>3. Typed'
  <2>1. Len(hand[p]) + settled'[p] <= Batch
    <3>1. Len(hand[p]) = 0
      BY <1>1
    <3>. QED  BY <1>2, <3>1, ProcessorAssumption
  <2>2. \A q \in Pods : Len(hand[q]) + settled'[q] <= Batch
    BY <1>2, <2>1 DEF Inv, Typed, TypeOK
  <2>3. trouble' \in 0..MaxTrouble
    BY ProcessorAssumption DEF TrimFails, Troubled, Inv, Typed, TypeOK
  <2>. QED  BY <1>1, <1>2, <2>2, <2>3 DEF Inv, Typed, TypeOK, Members
<1>4. Places'
  <2>1. ~ (settled'[p] > 0)
    BY <1>2
  <2>. QED  BY <1>1, <1>2, <2>1 DEF Inv, Typed, TypeOK, Places
<1>5. OnceInLine'
  BY <1>1 DEF Inv, OnceInLine, Members
<1>6. Alone'
  BY <1>1 DEF Inv, Typed, TypeOK, Alone
<1>7. DrainsTheHead'
  BY <1>1, <1>2 DEF Inv, Typed, TypeOK, Alone, DrainsTheHead
<1>8. NotYetTold'
  BY <1>1 DEF NotYetTold
<1>9. Kept'
  BY <1>1 DEF Inv, Kept, Members
<1>. QED  BY <1>3, <1>4, <1>5, <1>6, <1>7, <1>8, <1>9 DEF Inv

\* A pod that dies takes what it held with it, and is remembered for what it had
\* published and not trimmed.
LEMMA DeathKeepsInv ==
  ASSUME Inv, NEW p \in Pods, Dies(p), stop' \in {"no", "waiting", "over"}, trouble' \in 0..MaxTrouble
  PROVE  Inv'
<1> USE DEF At, Goes, Ticking
<1>1. /\ UNCHANGED <<buffer, slots, announced, lapsed, overlapped>>
      /\ loop' = [loop EXCEPT ![p] = "off"]
      /\ hand' = [hand EXCEPT ![p] = <<>>] /\ settled' = [settled EXCEPT ![p] = 0]
      /\ claim' = [claim EXCEPT ![p] = {}] /\ excess' = [excess EXCEPT ![p] = 0]
      /\ lost' = lost \cup claim[p]
      /\ untidy' = (untidy \/ settled[p] > 0)
  BY DEF Dies
<1>2. /\ hand' \in [Pods -> Seq(Buyers)] /\ hand'[p] = <<>> /\ Len(hand'[p]) = 0
      /\ \A q \in Pods \ {p} : hand'[q] = hand[q]
  BY <1>1, EmptySeq DEF Inv, Typed
<1>3. /\ settled' \in [Pods -> Nat] /\ settled'[p] = 0 /\ settled[p] \in Nat
      /\ \A q \in Pods \ {p} : settled'[q] = settled[q]
  BY <1>1 DEF Inv, Typed
<1>4. /\ claim' \in [Pods -> SUBSET Buyers] /\ claim'[p] = {}
      /\ \A q \in Pods \ {p} : claim'[q] = claim[q]
  BY <1>1 DEF Inv, Typed
<1>5. loop' \in [Pods -> {"off", "wait", "drain", "republish", "admit", "publish", "buffer", "count", "shed", "ended"}]
  BY <1>1 DEF Inv, Typed, TypeOK
<1>6. Typed'
  <2>1. Len(hand'[p]) + settled'[p] <= Batch
    BY <1>2, <1>3, ProcessorAssumption
  <2>2. \A q \in Pods : Len(hand'[q]) + settled'[q] <= Batch
    BY <1>2, <1>3, <2>1 DEF Inv, Typed, TypeOK
  <2>3. untidy' \in BOOLEAN
    BY <1>1
  <2>4. excess' \in [Pods -> Nat]
    BY <1>1 DEF Inv, Typed
  <2>5. lost' \subseteq slots
    BY <1>1 DEF Inv, Typed, TypeOK, Places
  <2>. QED  BY <1>1, <1>2, <1>3, <1>4, <1>5, <2>2, <2>3, <2>4, <2>5 DEF Inv, Typed, TypeOK, Members
<1>7. Places'
  <2>1. ~ (settled'[p] > 0)
    BY <1>3
  <2>. QED  BY <1>1, <1>2, <1>3, <1>4, <2>1 DEF Inv, Typed, TypeOK, Places
<1>8. OnceInLine'
  BY <1>1, <1>4 DEF Inv, OnceInLine, Members
<1>9. Alone'
  BY <1>1 DEF Inv, Typed, TypeOK, Alone
<1>10. DrainsTheHead'
  BY <1>1, <1>2, <1>3 DEF Inv, Typed, TypeOK, DrainsTheHead
<1>11. NotYetTold'
  <2> SUFFICES ASSUME ~ untidy, ~ (settled[p] > 0), ~ overlapped PROVE NotYetTold'
    BY <1>1 DEF NotYetTold
  <2>1. ASSUME NEW i \in 1..Len(buffer)
        PROVE  announced[buffer[i]] = 0 \/ \E q \in Pods : loop'[q] = "republish" /\ i <= settled'[q]
    <3>1. ~ (i <= settled[p])
      BY <1>3
    <3>2. announced[buffer[i]] = 0 \/ \E q \in Pods : At(q, "republish") /\ i <= settled[q]
      BY DEF Inv, NotYetTold
    <3>3. \A q \in Pods \ {p} : loop'[q] = loop[q]
      BY <1>1 DEF Inv, Typed, TypeOK
    <3>. QED  BY <1>3, <3>1, <3>2, <3>3
  <2>. QED  BY <1>1, <1>4, <2>1 DEF Inv, NotYetTold
<1>12. Kept'
  <2>1. Members(buffer)' = Members(buffer)
    BY <1>1 DEF Members
  <2>. QED  BY <1>1, <1>4, <2>1 DEF Inv, Kept
<1>. QED  BY <1>6, <1>7, <1>8, <1>9, <1>10, <1>11, <1>12 DEF Inv

-----------------------------------------------------------------------------
LEMMA NextInv == Inv /\ [Next]_vars => Inv'
<1> SUFFICES ASSUME Inv, [Next]_vars PROVE Inv'
  OBVIOUS
<1>1. ASSUME NEW p \in Pods, TickGoesOn(p) PROVE Inv'
  <2>1. ASSUME NEW b \in Buyers,
               PublishQueueReady(p, b) \/ PublishFails(p, b) \/ BufferQueueReady(p, b) \/ BufferFails(p, b)
        PROVE  Inv'
    BY <2>1, PublishKeepsInv, BufferKeepsInv, BufferFailsKeepsInv
  <2>2. CASE CountError(p) \/ PeekFails(p)
    BY <2>2, QuietKeepsInv
  <2>3. CASE Shed(p) \/ ShedFails(p)
    BY <2>3, ShedKeepsInv
  <2>4. CASE PeekBuffered(p)
    BY <2>4, PeekKeepsInv
  <2>5. CASE DiscardExpired(p) \/ Republish(p)
    BY <2>5, SettleKeepsInv
  <2>6. CASE RepublishFails(p)
    BY <2>6, RepublishFailsKeepsInv
  <2>7. CASE TrimBuffered(p)
    BY <2>7, TrimKeepsInv
  <2>8. CASE TrimFails(p)
    BY <2>8, TrimFailsKeepsInv
  <2>. QED  BY <1>1, <2>1, <2>2, <2>3, <2>4, <2>5, <2>6, <2>7, <2>8 DEF TickGoesOn, Claims, Drains
<1>2. ASSUME NEW p \in Pods, Start(p) \/ TickEnds(p) PROVE Inv'
  BY <1>2, QuietKeepsInv
<1>3. ASSUME NEW p \in Pods, Tick(p) PROVE Inv'
  BY <1>3, TickKeepsInv
<1>4. ASSUME NEW p \in Pods, NEW b \in Buyers, AddToProcessing(p, b) PROVE Inv'
  BY <1>4, SlotKeepsInv
<1>5. ASSUME NEW p \in Pods, Crash(p) PROVE Inv'
  <2>1. Dies(p) /\ stop' \in {"no", "waiting", "over"}
    BY <1>5 DEF Crash, Inv, Typed, TypeOK
  <2>2. trouble' \in 0..MaxTrouble
    BY <1>5, ProcessorAssumption DEF Crash, Troubled, Inv, Typed, TypeOK
  <2>. QED  BY <2>1, <2>2, DeathKeepsInv
<1>6. CASE Exit
  <2>1. Dies(Old) /\ stop' \in {"no", "waiting", "over"} /\ trouble' \in 0..MaxTrouble
    BY <1>6 DEF Exit, Inv, Typed, TypeOK
  <2>. QED  BY <2>1, DeathKeepsInv, ProcessorAssumption
<1>7. CASE BeginStop \/ StopDone \/ StopTimesOut \/ LoopEnds \/ (\E b \in Buyers : Lapse(b)) \/ UNCHANGED vars
  BY <1>7, QuietKeepsInv
<1>. QED  BY <1>1, <1>2, <1>3, <1>4, <1>5, <1>6, <1>7 DEF Next

\* The invariant holds of every run of the processor, rollouts, crashes and failed
\* calls to Redis and Kafka included.
THEOREM QueueReadyInvariant == Spec => []Inv
BY InitInv, NextInv, PTL DEF Spec

\* What is buffered has its slot, a drain holds no more than a batch, and a buyer
\* hears twice only after a fault, a lost answer of any publish included, or when two
\* ticks met.
THEOREM AnnouncedOnceWithoutFault == Spec => []ProcessorInv
<1>1. Inv => ProcessorInv
  <2> SUFFICES ASSUME Inv PROVE ProcessorInv
    OBVIOUS
  <2>1. ASSUME NEW b \in Buyers, announced[b] > 1 PROVE untidy \/ overlapped
    <3>1. announced[b] \in 0..2 /\ ~ (announced[b] <= 1)
      BY <2>1 DEF Inv, Typed, TypeOK
    <3>. QED  BY <3>1 DEF Inv, NotYetTold
  <2>. QED  BY <2>1 DEF Inv, Typed, ProcessorInv, DuplicatesComeFromFaults
<1>. QED  BY <1>1, QueueReadyInvariant, PTL

\* A buyer whose slot was taken has been told, is about to be, or is accounted for:
\* no order of publish, push, drain, trim, shed and crash forgets one, but for two
\* ticks that met.
THEOREM NobodyWaitsUnannounced == Spec => []AnnouncementsAreKept
<1>1. Inv => AnnouncementsAreKept
  BY DEF Inv, Kept, AnnouncementsAreKept
<1>. QED  BY <1>1, QueueReadyInvariant, PTL
=============================================================================
