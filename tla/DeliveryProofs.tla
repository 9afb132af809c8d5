---------------------------- MODULE DeliveryProofs ----------------------------
(***************************************************************************)
(* Proofs about Delivery, for any number of pods and messages, any payloads*)
(* no handler can read, and any number of crashes, evictions and lost      *)
(* answers of the dead-letter topic and of the last commit: that the       *)
(* group keeps its place, as PartitionLog promises, and that a failure     *)
(* alone repeats nothing.                                                  *)
(***************************************************************************)
EXTENDS Delivery, FiniteSetTheorems, TLAPS

Passed == Settled \cup missed
Front == Cardinality(Passed)

Claim == [step : {"out", "claim", "handle", "retry", "park", "pause", "leave"},
          pos : 0..Last, mark : NoOffset..Last, tries : 0..MaxAttempts, over : BOOLEAN]

-----------------------------------------------------------------------------
(***************************************************************************)
(* The inductive invariant.                                                *)
(***************************************************************************)

\* What is settled or passed over is the beginning of the partition.
Prefix == Front \in 0..sent /\ Passed = 0..(Front - 1)

\* No pod reads, marks or commits past it, though several may believe the
\* partition is theirs.
Behind ==
  /\ committed <= Front
  /\ \A p \in Pods :
       /\ at[p].pos <= Front /\ at[p].mark <= Front
       /\ at[p].step \in {"handle", "retry", "park", "pause"} => at[p].pos < sent
       /\ at[p].step = "retry" => at[p].tries < MaxAttempts

\* Before the first trouble one pod at most is in session, it reads the first
\* message that is not settled, and what it leaves behind is committed there.
Calm ==
  trouble = 0 =>
    /\ \A p \in Pods : InSession(p) <=> owner = p
    /\ \A p \in Pods : InSession(p) =>
          at[p].pos = Front /\ at[p].mark \in {NoOffset, Front} /\ committed <= at[p].mark
    /\ owner = "nobody" => committed \in {NoOffset, Front}

PlaceInv == TypeOK /\ Prefix /\ Behind /\ Calm

-----------------------------------------------------------------------------
(***************************************************************************)
(* The frontier.                                                           *)
(***************************************************************************)

\* An interval from 0 has as many members as its end says.
LEMMA IntervalSize ==
  ASSUME NEW n \in Nat
  PROVE  Cardinality(0..(n - 1)) = n
<1>1. 0 \in Int /\ n - 1 \in Int
  OBVIOUS
<1>2. Cardinality(0..(n - 1)) = IF 0 > n - 1 THEN 0 ELSE (n - 1) - 0 + 1
  BY <1>1, FS_Interval
<1>. QED  BY <1>2

\* Settling the message at the frontier moves it on by one; settling one behind
\* it, again, does not move it.
LEMMA FrontierMoves ==
  ASSUME Prefix, TypeOK, NEW m \in Messages, m <= Front, m < sent, Passed' = Passed \cup {m}, sent' = sent
  PROVE  Prefix' /\ m + 1 <= Front' /\ Front <= Front' /\ Front' \in {Front, Front + 1}
         /\ (m = Front => Front' = Front + 1) /\ (m # Front => Front' = Front)
<1>1. Front \in Nat /\ sent \in Nat /\ m \in Nat /\ Passed = 0..(Front - 1)
  BY DeliveryAssumption DEF Prefix, TypeOK, Messages
<1>2. CASE m = Front
  <2>1. Passed' = 0..((Front + 1) - 1)
    <3>1. ASSUME NEW f \in Nat PROVE (0..(f - 1)) \cup {f} = 0..((f + 1) - 1)
      BY <3>1
    <3>2. (0..(Front - 1)) \cup {Front} = 0..((Front + 1) - 1)
      BY <1>1, <3>1
    <3>3. Passed' = Passed \cup {Front}
      BY <1>2
    <3>. QED  BY <1>1, <3>2, <3>3
  <2>2. Front' = Front + 1
    <3>1. Front + 1 \in Nat
      BY <1>1
    <3>2. Cardinality(0..((Front + 1) - 1)) = Front + 1
      BY <3>1, IntervalSize
    <3>3. Front' = Cardinality(Passed')
      BY DEF Front
    <3>. QED  BY <2>1, <3>2, <3>3
  <2>. QED  BY <1>1, <1>2, <2>1, <2>2 DEF Prefix
<1>3. CASE m # Front
  <2>1. Passed' = Passed
    BY <1>1, <1>3
  <2>2. Front' = Front
    BY <2>1 DEF Front
  <2>. QED  BY <1>1, <1>3, <2>1, <2>2 DEF Prefix
<1>. QED  BY <1>1, <1>2, <1>3

-----------------------------------------------------------------------------
(***************************************************************************)
(* Steps.                                                                  *)
(***************************************************************************)

LEMMA InitPlace == Init => PlaceInv
<1> SUFFICES ASSUME Init PROVE PlaceInv
  OBVIOUS
<1>1. Passed = {} /\ Front = 0
  BY FS_EmptySet DEF Init, Passed, Settled, Front
<1>2. at = [p \in Pods |-> Out] /\ Out \in Claim
  BY DeliveryAssumption DEF Init, Out, Claim, NoOffset
<1>3. \A p \in Pods : at[p] = Out
  BY <1>2
<1>4. TypeOK
  BY <1>2, DeliveryAssumption DEF Init, TypeOK, Claim, NoOffset
<1>5. Prefix
  BY <1>1 DEF Prefix, Init
<1>6. Behind
  BY <1>1, <1>3 DEF Behind, Init, Out, NoOffset
<1>7. Calm
  BY <1>3, DeliveryAssumption DEF Calm, Init, Out, NoOffset, InSession, At
<1>. QED  BY <1>4, <1>5, <1>6, <1>7 DEF PlaceInv

\* A claim that goes on, fails or ends: nothing is settled, read or marked.
LEMMA ClaimMoves ==
  ASSUME PlaceInv, NEW p \in Pods, NEW r \in Claim, at' = [at EXCEPT ![p] = r],
         InSession(p), r.step # "out", r.pos = at[p].pos, r.mark = at[p].mark,
         r.step \in {"handle", "retry", "park", "pause"} => r.pos < sent,
         r.step = "retry" => r.tries < MaxAttempts,
         trouble' \in {trouble, trouble + 1}, trouble' <= MaxTrouble,
         UNCHANGED <<svc, poison, sent, committed, owner, handled, parked, missed>>
  PROVE  PlaceInv'
<1>1. TypeOK'
  BY DEF PlaceInv, TypeOK, Claim
<1>2. Passed' = Passed /\ Front' = Front /\ sent' = sent /\ committed' = committed /\ owner' = owner
  BY DEF Passed, Settled, Front
<1>3. \A q \in Pods : at'[q] = IF q = p THEN r ELSE at[q]
  BY DEF PlaceInv, TypeOK
<1>4. Prefix'
  BY <1>2 DEF PlaceInv, Prefix
<1>5. Behind'
  BY <1>2, <1>3 DEF PlaceInv, Behind
<1>6. Calm'
  BY <1>2, <1>3 DEF PlaceInv, TypeOK, Calm, InSession, At
<1>. QED  BY <1>1, <1>4, <1>5, <1>6 DEF PlaceInv

\* Each such step of a claim.
LEMMA WorkKeepsPlace ==
  ASSUME PlaceInv, NEW p \in Pods,
         \/ Take(p) \/ ClaimEnds(p) \/ HandleFails(p) \/ Retry(p) \/ RetryAbandoned(p) \/ ParkFails(p)
         \/ AnswerFails(p) \/ PauseEnds(p) \/ Cancel(p) \/ Notice(p)
  PROVE  PlaceInv'
<1> DEFINE Moves(r) ==
      /\ r \in Claim /\ at' = [at EXCEPT ![p] = r]
      /\ InSession(p) /\ r.step # "out" /\ r.pos = at[p].pos /\ r.mark = at[p].mark
      /\ r.step \in {"handle", "retry", "park", "pause"} => r.pos < sent
      /\ r.step = "retry" => r.tries < MaxAttempts
<1>0. at \in [Pods -> Claim] /\ at[p] \in Claim
  BY DEF PlaceInv, TypeOK, Claim
<1>1. ASSUME Take(p) PROVE \E r : Moves(r)
  <2> DEFINE r == [at[p] EXCEPT !.step = "handle", !.tries = 1]
  <2>0. 1 \in 0..MaxAttempts
    BY DeliveryAssumption
  <2>1. r \in Claim /\ r.step = "handle" /\ r.pos = at[p].pos /\ r.mark = at[p].mark
    BY <1>0, <2>0 DEF Claim
  <2>2. at' = [at EXCEPT ![p] = r] /\ InSession(p) /\ at[p].pos < sent
    BY <1>1 DEF Take, InSession, At, Message
  <2>. QED  BY <2>1, <2>2
<1>2. ASSUME Retry(p) PROVE \E r : Moves(r)
  <2> DEFINE r == [at[p] EXCEPT !.step = "handle", !.tries = @ + 1]
  <2>1. at[p].step = "retry" /\ at[p].tries + 1 \in 0..MaxAttempts
    <3>1. at[p].step = "retry"
      BY <1>2 DEF Retry, At
    <3>2. at[p].tries < MaxAttempts
      BY <3>1 DEF PlaceInv, Behind
    <3>3. at[p].tries \in 0..MaxAttempts
      BY <1>0 DEF Claim
    <3>. QED  BY <3>1, <3>2, <3>3, DeliveryAssumption
  <2>2. r = [at[p] EXCEPT !.step = "handle", !.tries = at[p].tries + 1]
    OBVIOUS
  <2>3. r \in Claim /\ r.step = "handle" /\ r.pos = at[p].pos /\ r.mark = at[p].mark
    BY <1>0, <2>1, <2>2 DEF Claim
  <2>4. at' = [at EXCEPT ![p] = r] /\ InSession(p) /\ at[p].pos < sent
    BY <1>2, <2>1 DEF Retry, InSession, At, PlaceInv, Behind
  <2>. QED  BY <2>3, <2>4
<1>3. ASSUME NEW s \in {"leave", "park", "retry", "pause"}, Goes(p, s), InSession(p),
             s # "leave" => at[p].step = "handle", s = "retry" => at[p].tries < MaxAttempts
      PROVE  \E r : Moves(r)
  <2> DEFINE r == [at[p] EXCEPT !.step = s]
  <2>1. r \in Claim /\ r.step = s /\ r.pos = at[p].pos /\ r.mark = at[p].mark /\ r.tries = at[p].tries
    BY <1>0 DEF Claim
  <2>2. at' = [at EXCEPT ![p] = r]
    BY <1>3 DEF Goes
  <2>3. s # "leave" => at[p].pos < sent
    BY <1>3 DEF PlaceInv, Behind
  <2>. QED  BY <1>3, <2>1, <2>2, <2>3
<1>4. ASSUME ClaimEnds(p) \/ RetryAbandoned(p) \/ ParkFails(p) \/ PauseEnds(p) PROVE \E r : Moves(r)
  BY <1>3, <1>4 DEF ClaimEnds, RetryAbandoned, ParkFails, PauseEnds, InSession, At
<1>5. ASSUME HandleFails(p) PROVE \E r : Moves(r)
  <2>1. at[p].tries \in 0..MaxAttempts
    BY <1>0 DEF Claim
  <2>2. at[p].tries # MaxAttempts => at[p].tries < MaxAttempts
    BY <2>1, DeliveryAssumption
  <2>. QED  BY <1>3, <1>5, <2>2 DEF HandleFails, InSession, At
<1>6. ASSUME AnswerFails(p) PROVE \E r : Moves(r)
  BY <1>3, <1>6 DEF AnswerFails, InSession, At
<1>7. ASSUME Cancel(p) \/ Notice(p) PROVE \E r : Moves(r)
  <2> DEFINE r == [at[p] EXCEPT !.over = TRUE]
  <2>1. r \in Claim /\ r.step = at[p].step /\ r.pos = at[p].pos /\ r.mark = at[p].mark /\ r.tries = at[p].tries
    BY <1>0 DEF Claim
  <2>2. at' = [at EXCEPT ![p] = r] /\ InSession(p)
    BY <1>7 DEF Cancel, Notice
  <2>3. at[p].step # "out"
    BY <2>2 DEF InSession, At
  <2>. QED  BY <2>1, <2>2, <2>3 DEF PlaceInv, Behind
<1>8. \E r : Moves(r)
  BY <1>1, <1>2, <1>4, <1>5, <1>6, <1>7
<1>9. /\ trouble' \in {trouble, trouble + 1} /\ trouble' <= MaxTrouble
      /\ UNCHANGED <<svc, poison, sent, committed, owner, handled, parked, missed>>
  BY DeliveryAssumption
     DEF PlaceInv, TypeOK, Take, ClaimEnds, HandleFails, Retry, RetryAbandoned, ParkFails, AnswerFails,
         PauseEnds, Cancel, Notice, Troubled
<1>. QED  BY <1>8, <1>9, ClaimMoves

\* A message is settled, by a handler or on the dead-letter topic, and marked.
LEMMA SettlingKeepsPlace ==
  ASSUME PlaceInv, NEW p \in Pods, Handle(p) \/ Park(p) \/ Answer(p)
  PROVE  PlaceInv' /\ (Front' = Front \/ (Front < sent /\ Front' = Front + 1))
<1> DEFINE m == at[p].pos
<1> DEFINE r == [at[p] EXCEPT !.step = "claim", !.pos = m + 1, !.mark = m + 1, !.tries = 0]
<1>0. at \in [Pods -> Claim] /\ at[p] \in Claim
  BY DEF PlaceInv, TypeOK, Claim
<1>1. /\ at[p].step \in {"handle", "park"} /\ at' = [at EXCEPT ![p] = r]
      /\ Passed' = Passed \cup {m}
      /\ UNCHANGED <<svc, poison, sent, committed, owner, missed, trouble>>
  BY DEF Handle, Park, Answer, Marks, Message, At, Passed, Settled
<1>2. /\ m \in 0..Last /\ m <= Front /\ m < sent /\ sent \in 0..Last /\ Front \in Nat
  BY <1>0, <1>1 DEF PlaceInv, Behind, TypeOK, Claim, Prefix
<1>3. m \in Messages /\ m + 1 \in 0..Last
  BY <1>2, DeliveryAssumption DEF Messages
<1>4. /\ Prefix' /\ m + 1 <= Front' /\ Front <= Front' /\ Front' \in {Front, Front + 1}
      /\ m = Front => Front' = Front + 1
      /\ m # Front => Front' = Front
  BY <1>1, <1>2, <1>3, FrontierMoves DEF PlaceInv
<1>5. r \in Claim /\ r.step = "claim" /\ r.pos = m + 1 /\ r.mark = m + 1
  <2>1. m + 1 \in NoOffset..Last /\ 0 \in 0..MaxAttempts
    BY <1>3, DeliveryAssumption DEF NoOffset
  <2>. QED  BY <1>0, <1>3, <2>1 DEF Claim
<1>6. \A q \in Pods : at'[q] = IF q = p THEN r ELSE at[q]
  BY <1>0, <1>1
<1>7. TypeOK'
  <2>1. handled' \subseteq Messages /\ parked' \subseteq Messages
    BY <1>3 DEF PlaceInv, TypeOK, Handle, Park, Answer, Message
  <2>2. at' \in [Pods -> Claim]
    BY <1>0, <1>1, <1>5
  <2>. QED  BY <1>1, <2>1, <2>2 DEF PlaceInv, TypeOK, Claim
<1>8. Behind'
  <2>1. committed' <= Front'
    BY <1>1, <1>2, <1>4 DEF PlaceInv, Behind, TypeOK, NoOffset
  <2>2. ASSUME NEW q \in Pods
        PROVE  /\ at'[q].pos <= Front' /\ at'[q].mark <= Front'
               /\ at'[q].step \in {"handle", "retry", "park", "pause"} => at'[q].pos < sent'
               /\ at'[q].step = "retry" => at'[q].tries < MaxAttempts
    <3>1. CASE q = p
      BY <1>4, <1>5, <1>6, <3>1
    <3>2. CASE q # p
      <4>1. at[q] \in Claim /\ at'[q] = at[q]
        BY <1>0, <1>6, <3>2
      <4>2. at[q].pos \in Int /\ at[q].mark \in Int
        BY <4>1, DeliveryAssumption DEF Claim, NoOffset
      <4>. QED  BY <1>1, <1>2, <1>4, <4>1, <4>2 DEF PlaceInv, Behind
    <3>. QED  BY <3>1, <3>2
  <2>. QED  BY <2>1, <2>2 DEF Behind
<1>9. Calm'
  <2>1. SUFFICES ASSUME trouble = 0 PROVE Calm'
    BY <1>1 DEF Calm
  <2>2. InSession(p) /\ owner = p /\ m = Front
    BY <1>1, <2>1 DEF PlaceInv, Calm, InSession, At
  <2>3. committed <= at[p].mark /\ at[p].mark \in {NoOffset, Front} /\ committed \in NoOffset..Last
    BY <1>1, <2>1, <2>2 DEF PlaceInv, Calm, TypeOK
  <2>4. committed <= Front + 1
    BY <1>2, <2>3, DeliveryAssumption DEF NoOffset
  <2>5. \A q \in Pods : InSession(q)' <=> owner' = q
    BY <1>1, <1>5, <1>6, <2>1, <2>2 DEF PlaceInv, Calm, InSession, At
  <2>6. p # "nobody"
    BY DeliveryAssumption
  <2>. QED  BY <1>1, <1>4, <1>5, <1>6, <2>2, <2>4, <2>5, <2>6 DEF Calm
<1>. QED  BY <1>2, <1>4, <1>7, <1>8, <1>9 DEF PlaceInv

\* A dead letter that is there, though its answer was lost: settled, not marked.
LEMMA UnansweredKeepsPlace ==
  ASSUME PlaceInv, NEW p \in Pods, ParkUnanswered(p)
  PROVE  PlaceInv' /\ (Front' = Front \/ (Front < sent /\ Front' = Front + 1))
<1> DEFINE m == at[p].pos
<1> DEFINE r == [at[p] EXCEPT !.step = "leave"]
<1>0. at \in [Pods -> Claim] /\ at[p] \in Claim
  BY DEF PlaceInv, TypeOK, Claim
<1>1. /\ at[p].step = "park" /\ at' = [at EXCEPT ![p] = r]
      /\ Passed' = Passed \cup {m} /\ parked' = parked \cup {m}
      /\ trouble < MaxTrouble /\ trouble' = trouble + 1
      /\ UNCHANGED <<svc, poison, sent, committed, owner, handled, missed>>
  BY DEF ParkUnanswered, Goes, Message, At, Passed, Settled, Troubled
<1>2. /\ m \in 0..Last /\ m <= Front /\ m < sent /\ sent \in 0..Last /\ Front \in Nat
  BY <1>0, <1>1 DEF PlaceInv, Behind, TypeOK, Claim, Prefix
<1>3. m \in Messages
  BY <1>2, DeliveryAssumption DEF Messages
<1>4. Prefix' /\ Front <= Front' /\ Front' \in {Front, Front + 1} /\ (m # Front => Front' = Front)
  BY <1>1, <1>2, <1>3, FrontierMoves DEF PlaceInv
<1>5. r \in Claim /\ r.step = "leave" /\ r.pos = at[p].pos /\ r.mark = at[p].mark
  BY <1>0 DEF Claim
<1>6. \A q \in Pods : at'[q] = IF q = p THEN r ELSE at[q]
  BY <1>0, <1>1
<1>7. trouble \in Nat /\ trouble' \in 0..MaxTrouble /\ trouble' # 0
  BY <1>1, DeliveryAssumption DEF PlaceInv, TypeOK
<1>8. TypeOK'
  <2>1. at' \in [Pods -> Claim]
    BY <1>0, <1>1, <1>5
  <2>. QED  BY <1>1, <1>3, <1>7, <2>1 DEF PlaceInv, TypeOK, Claim
<1>9. Behind'
  <2>1. \A q \in Pods : at[q].pos \in Int /\ at[q].mark \in Int
    BY <1>0, DeliveryAssumption DEF Claim, NoOffset
  <2>2. committed \in Int
    BY DeliveryAssumption DEF PlaceInv, TypeOK, NoOffset
  <2>. QED  BY <1>1, <1>2, <1>4, <1>5, <1>6, <2>1, <2>2 DEF PlaceInv, Behind
<1>10. Calm'
  BY <1>7 DEF Calm
<1>. QED  BY <1>2, <1>4, <1>8, <1>9, <1>10 DEF PlaceInv

\* A message arrives.
LEMMA SendKeepsPlace ==
  ASSUME PlaceInv, Send
  PROVE  PlaceInv' /\ Front' = Front
<1>1. /\ sent' = sent + 1 /\ sent < Last /\ Passed' = Passed
      /\ UNCHANGED <<svc, poison, committed, owner, at, handled, parked, missed, trouble>>
  BY DEF Send, Passed, Settled
<1>2. Front' = Front
  BY <1>1 DEF Front
<1>3. TypeOK'
  BY <1>1, DeliveryAssumption DEF PlaceInv, TypeOK
<1>4. Prefix'
  BY <1>1, <1>2 DEF PlaceInv, TypeOK, Prefix
<1>5. Behind'
  <2>1. \A p \in Pods : at[p].pos \in 0..Last
    BY DEF PlaceInv, TypeOK
  <2>. QED  BY <1>1, <1>2, <2>1, DeliveryAssumption DEF PlaceInv, TypeOK, Behind
<1>6. Calm'
  BY <1>1, <1>2 DEF PlaceInv, Calm, InSession, At
<1>. QED  BY <1>2, <1>3, <1>4, <1>5, <1>6 DEF PlaceInv

\* The marks of a session reach the broker while it runs.
LEMMA AutoCommitKeepsPlace ==
  ASSUME PlaceInv, NEW p \in Pods, AutoCommit(p)
  PROVE  PlaceInv' /\ Front' = Front /\ committed' \in committed + 1..Front
<1>1. /\ owner = p /\ InSession(p) /\ at[p].mark > committed /\ committed' = at[p].mark /\ Passed' = Passed
      /\ UNCHANGED <<svc, poison, sent, owner, at, handled, parked, missed, trouble>>
  BY DEF AutoCommit, Passed, Settled
<1>2. Front' = Front
  BY <1>1 DEF Front
<1>3. at[p].mark \in NoOffset..Last /\ at[p].mark <= Front /\ committed \in NoOffset..Last /\ Front \in Nat
  BY DEF PlaceInv, TypeOK, Behind, Prefix
<1>4. committed' \in committed + 1..Front
  BY <1>1, <1>3, DeliveryAssumption DEF NoOffset
<1>5. TypeOK'
  BY <1>1, <1>3 DEF PlaceInv, TypeOK
<1>6. Prefix' /\ Behind'
  BY <1>1, <1>2, <1>3 DEF PlaceInv, Prefix, Behind
<1>7. Calm'
  <2>1. ASSUME trouble = 0, NEW q \in Pods, InSession(q) PROVE q = p
    BY <1>1, <2>1 DEF PlaceInv, Calm
  <2>2. owner # "nobody" /\ committed' <= at[p].mark
    BY <1>1, <1>3, DeliveryAssumption
  <2>. QED  BY <1>1, <1>2, <2>1, <2>2 DEF PlaceInv, Calm, InSession, At
<1>. QED  BY <1>2, <1>4, <1>5, <1>6, <1>7 DEF PlaceInv

\* A new session begins where the group's offset is, or, without one, at the
\* newest message: then everything before is passed over.
LEMMA JoinKeepsPlace ==
  ASSUME PlaceInv, NEW p \in Pods, Join(p)
  PROVE  PlaceInv' /\ (Front' = Front \/ (committed = NoOffset /\ Front' = sent))
<1> DEFINE f == FirstOffset
<1> DEFINE r == [Out EXCEPT !.step = "claim", !.pos = f, !.mark = committed]
<1>1. /\ At(p, "out") /\ owner = "nobody" /\ owner' = p /\ at' = [at EXCEPT ![p] = r]
      /\ Passed' = Passed \cup ((0..(f - 1)) \ Settled)
      /\ missed' = missed \cup ((0..(f - 1)) \ Settled)
      /\ UNCHANGED <<svc, poison, sent, committed, handled, parked, trouble>>
  BY DEF Join, Passed, Settled
<1>2. /\ sent \in 0..Last /\ committed \in NoOffset..Last /\ committed <= Front /\ Front \in 0..sent
      /\ Passed = 0..(Front - 1)
  BY DEF PlaceInv, TypeOK, Behind, Prefix
<1>3. f \in 0..sent /\ (f = sent \/ f <= Front)
  BY <1>2, DeliveryAssumption DEF FirstOffset, NoOffset
<1>4. /\ Passed' = 0..(Front' - 1) /\ Front' \in 0..sent /\ f <= Front' /\ Front <= Front'
      /\ Front' = Front \/ (committed = NoOffset /\ Front' = sent /\ f = sent)
  <2>1. CASE f <= Front
    <3>1. 0..(f - 1) \subseteq 0..(Front - 1)
      BY <1>2, <1>3, <2>1, DeliveryAssumption
    <3>2. Passed' = Passed
      BY <1>1, <1>2, <3>1
    <3>3. Front' = Front
      BY <3>2 DEF Front
    <3>. QED  BY <1>2, <2>1, <3>2, <3>3
  <2>2. CASE f > Front
    <3>1. f = sent /\ committed = NoOffset
      BY <1>2, <1>3, <2>2, DeliveryAssumption DEF FirstOffset
    <3>2. Settled \subseteq 0..(Front - 1)
      BY <1>2 DEF Passed
    <3>3. 0..(Front - 1) \subseteq 0..(f - 1)
      BY <1>2, <1>3, <2>2, DeliveryAssumption
    <3>4. Passed' = 0..(f - 1)
      BY <1>1, <1>2, <3>2, <3>3 DEF Passed
    <3>5. f \in Nat
      BY <1>2, <1>3, DeliveryAssumption
    <3>6. Front' = f
      <4>1. Front' = Cardinality(Passed')
        BY DEF Front
      <4>. QED  BY <3>4, <3>5, <4>1, IntervalSize
    <3>. QED  BY <1>2, <1>3, <2>2, <3>1, <3>4, <3>6, DeliveryAssumption
  <2>. QED  BY <1>2, <1>3, <2>1, <2>2, DeliveryAssumption
<1>5. f \in 0..Last
  BY <1>2, <1>3, DeliveryAssumption
<1>6. r \in Claim /\ r.step = "claim" /\ r.pos = f /\ r.mark = committed
  <2>1. Out \in Claim
    BY DeliveryAssumption DEF Out, Claim, NoOffset
  <2>. QED  BY <1>2, <1>5, <2>1 DEF Claim
<1>7. at \in [Pods -> Claim]
  BY DEF PlaceInv, TypeOK, Claim
<1>8. \A q \in Pods : at'[q] = IF q = p THEN r ELSE at[q]
  BY <1>1, <1>7
<1>9. TypeOK'
  <2>1. at' \in [Pods -> Claim]
    BY <1>1, <1>6, <1>7
  <2>2. 0..(f - 1) \subseteq Messages
    BY <1>5, DeliveryAssumption DEF Messages
  <2>. QED  BY <1>1, <2>1, <2>2 DEF PlaceInv, TypeOK, Claim
<1>10. Prefix'
  BY <1>1, <1>4 DEF Prefix
<1>11. Behind'
  <2>1. committed' <= Front'
    BY <1>1, <1>2, <1>4, DeliveryAssumption DEF NoOffset
  <2>2. ASSUME NEW q \in Pods
        PROVE  /\ at'[q].pos <= Front' /\ at'[q].mark <= Front'
               /\ at'[q].step \in {"handle", "retry", "park", "pause"} => at'[q].pos < sent'
               /\ at'[q].step = "retry" => at'[q].tries < MaxAttempts
    <3>1. CASE q = p
      BY <1>1, <1>4, <1>6, <1>8, <2>1, <3>1
    <3>2. CASE q # p
      <4>1. at[q] \in Claim /\ at'[q] = at[q]
        BY <1>7, <1>8, <3>2
      <4>2. at[q].pos \in Int /\ at[q].mark \in Int
        BY <4>1, DeliveryAssumption DEF Claim, NoOffset
      <4>. QED  BY <1>1, <1>2, <1>4, <4>1, <4>2 DEF PlaceInv, Behind
    <3>. QED  BY <3>1, <3>2
  <2>. QED  BY <2>1, <2>2 DEF Behind
<1>12. Calm'
  <2>1. SUFFICES ASSUME trouble = 0 PROVE Calm'
    BY <1>1 DEF Calm
  <2>2. p # "nobody" /\ \A q \in Pods : ~ InSession(q)
    BY <1>1, <2>1, DeliveryAssumption DEF PlaceInv, Calm
  <2>3. \A q \in Pods : InSession(q)' <=> owner' = q
    BY <1>1, <1>6, <1>8, <2>2 DEF InSession, At
  <2>4. committed \in {NoOffset, Front}
    BY <1>1, <2>1 DEF PlaceInv, Calm
  <2>5. f = Front' /\ committed \in {NoOffset, Front'}
    BY <1>2, <1>4, <2>4, DeliveryAssumption DEF FirstOffset, NoOffset
  <2>. QED
    BY <1>1, <1>2, <1>6, <1>8, <2>2, <2>3, <2>5, DeliveryAssumption DEF Calm, InSession, At, NoOffset
<1>. QED  BY <1>4, <1>9, <1>10, <1>11, <1>12 DEF PlaceInv

\* A pod whose claim is out: its old one no longer counts.
LEMMA GoneKeepsBehind ==
  ASSUME PlaceInv, NEW p \in Pods, at' = [at EXCEPT ![p] = Out], Front' = Front, sent' = sent,
         committed' <= Front
  PROVE  at' \in [Pods -> Claim] /\ Behind' /\ \A q \in Pods : at'[q] = IF q = p THEN Out ELSE at[q]
<1>1. Out \in Claim /\ Out.step = "out" /\ Out.pos = 0 /\ Out.mark = NoOffset
  BY DeliveryAssumption DEF Out, Claim, NoOffset
<1>2. at \in [Pods -> Claim] /\ Front \in Nat
  BY DEF PlaceInv, TypeOK, Claim, Prefix
<1>3. \A q \in Pods : at'[q] = IF q = p THEN Out ELSE at[q]
  BY <1>2
<1>. QED  BY <1>1, <1>2, <1>3 DEF PlaceInv, Behind, NoOffset

\* A session ends: its marks reach the broker if the broker still listens.
LEMMA LeaveKeepsPlace ==
  ASSUME PlaceInv, NEW p \in Pods, Leave(p)
  PROVE  PlaceInv' /\ Front' = Front /\ (committed' = committed \/ committed' \in committed + 1..Front)
<1>1. /\ At(p, "leave") /\ at' = [at EXCEPT ![p] = Out] /\ Passed' = Passed
      /\ UNCHANGED <<svc, poison, sent, handled, parked, missed, trouble>>
      /\ IF owner = p THEN owner' = "nobody" /\ committed' = Upto(at[p].mark)
                      ELSE owner' = owner /\ committed' = committed
  BY DEF Leave, Passed, Settled
<1>2. Front' = Front
  BY <1>1 DEF Front
<1>3. /\ at[p].mark \in NoOffset..Last /\ at[p].mark <= Front /\ committed \in NoOffset..Last
      /\ committed <= Front /\ Front \in Nat
  BY DEF PlaceInv, TypeOK, Behind, Prefix
<1>4. /\ committed' \in NoOffset..Last /\ committed' <= Front
      /\ committed' = committed \/ committed' \in committed + 1..Front
  BY <1>1, <1>3, DeliveryAssumption DEF Upto, NoOffset
<1>5. at' \in [Pods -> Claim] /\ Behind' /\ \A q \in Pods : at'[q] = IF q = p THEN Out ELSE at[q]
  BY <1>1, <1>2, <1>4, GoneKeepsBehind
<1>6. TypeOK' /\ Prefix'
  BY <1>1, <1>2, <1>4, <1>5 DEF PlaceInv, TypeOK, Claim, Prefix
<1>7. Calm'
  <2>1. SUFFICES ASSUME trouble = 0 PROVE Calm'
    BY <1>1 DEF Calm
  <2>2. /\ owner = p /\ InSession(p) /\ at[p].mark \in {NoOffset, Front} /\ committed <= at[p].mark
    BY <1>1, <2>1 DEF PlaceInv, Calm, InSession, At
  <2>3. committed' = at[p].mark
    BY <1>1, <1>3, <2>2, DeliveryAssumption DEF Upto, NoOffset
  <2>4. \A q \in Pods : at'[q].step = "out" /\ owner' # q
    BY <1>1, <1>5, <2>1, <2>2, DeliveryAssumption DEF PlaceInv, Calm, InSession, At, Out
  <2>. QED  BY <1>1, <1>2, <2>2, <2>3, <2>4 DEF Calm, InSession, At
<1>. QED  BY <1>2, <1>4, <1>5, <1>6, <1>7 DEF PlaceInv

\* An eviction the pod does not notice, a crash, and a session whose last commit
\* is not made.
LEMMA TroubleKeepsPlace ==
  ASSUME PlaceInv, NEW p \in Pods, Evict(p) \/ Crash(p) \/ LeaveUncommitted(p)
  PROVE  PlaceInv' /\ Front' = Front
<1>1. /\ Passed' = Passed /\ trouble' = trouble + 1 /\ trouble < MaxTrouble
      /\ owner' \in {owner, "nobody"}
      /\ at' = at \/ at' = [at EXCEPT ![p] = Out]
      /\ UNCHANGED <<svc, poison, sent, committed, handled, parked, missed>>
  BY DEF Evict, Crash, LeaveUncommitted, Troubled, Passed, Settled
<1>2. Front' = Front
  BY <1>1 DEF Front
<1>3. at' \in [Pods -> Claim] /\ Behind'
  <2>1. CASE at' = at
    BY <1>1, <1>2, <2>1 DEF PlaceInv, TypeOK, Claim, Behind
  <2>2. CASE at' = [at EXCEPT ![p] = Out]
    BY <1>1, <1>2, <2>2, GoneKeepsBehind DEF PlaceInv, Behind
  <2>. QED  BY <1>1, <2>1, <2>2
<1>4. trouble \in Nat /\ trouble' \in 0..MaxTrouble /\ trouble' # 0
  BY <1>1, DeliveryAssumption DEF PlaceInv, TypeOK
<1>5. TypeOK' /\ Prefix' /\ Calm'
  BY <1>1, <1>2, <1>3, <1>4 DEF PlaceInv, TypeOK, Claim, Prefix, Calm
<1>. QED  BY <1>2, <1>3, <1>5 DEF PlaceInv

-----------------------------------------------------------------------------
(***************************************************************************)
(* The theorems.                                                           *)
(***************************************************************************)

\* What a step is to the log.
LEMMA StepKeepsPlace ==
  ASSUME PlaceInv, [Next]_vars
  PROVE  /\ PlaceInv'
         /\ \/ Send /\ Front' = Front
            \/ UNCHANGED <<sent, committed>> /\ Front < sent /\ Front' = Front + 1
            \/ UNCHANGED sent /\ Front' = Front /\ committed' \in committed + 1..Front
            \/ UNCHANGED <<sent, committed>> /\ committed = NoOffset /\ Front' = sent
            \/ UNCHANGED <<sent, committed>> /\ Front' = Front
<1>1. CASE Send
  BY <1>1, SendKeepsPlace
<1>2. ASSUME NEW p \in Pods, Handle(p) \/ Park(p) \/ Answer(p) \/ ParkUnanswered(p)
      PROVE  PlaceInv' /\ UNCHANGED <<sent, committed>> /\ (Front' = Front \/ (Front < sent /\ Front' = Front + 1))
  BY <1>2, SettlingKeepsPlace, UnansweredKeepsPlace DEF Handle, Park, Answer, ParkUnanswered
<1>3. ASSUME NEW p \in Pods, Join(p)
      PROVE  /\ PlaceInv' /\ UNCHANGED <<sent, committed>>
             /\ Front' = Front \/ (committed = NoOffset /\ Front' = sent)
  BY <1>3, JoinKeepsPlace DEF Join
<1>4. ASSUME NEW p \in Pods, AutoCommit(p) \/ Leave(p)
      PROVE  /\ PlaceInv' /\ UNCHANGED sent /\ Front' = Front
             /\ committed' = committed \/ committed' \in committed + 1..Front
  BY <1>4, AutoCommitKeepsPlace, LeaveKeepsPlace DEF AutoCommit, Leave
<1>5. ASSUME NEW p \in Pods,
             \/ Take(p) \/ ClaimEnds(p) \/ HandleFails(p) \/ Retry(p) \/ RetryAbandoned(p) \/ ParkFails(p)
             \/ AnswerFails(p) \/ PauseEnds(p) \/ Cancel(p) \/ Notice(p)
      PROVE  PlaceInv' /\ UNCHANGED <<sent, committed>> /\ Front' = Front
  <2>1. UNCHANGED <<sent, committed, handled, parked, missed>>
    BY <1>5 DEF Take, ClaimEnds, HandleFails, Retry, RetryAbandoned, ParkFails, AnswerFails, PauseEnds,
                Cancel, Notice
  <2>. QED  BY <1>5, <2>1, WorkKeepsPlace DEF Front, Passed, Settled
<1>6. ASSUME NEW p \in Pods, Evict(p) \/ Crash(p) \/ LeaveUncommitted(p)
      PROVE  PlaceInv' /\ UNCHANGED <<sent, committed>> /\ Front' = Front
  BY <1>6, TroubleKeepsPlace DEF Evict, Crash, LeaveUncommitted
<1>7. CASE UNCHANGED vars
  <2>1. PlaceInv'
    BY <1>7 DEF vars, PlaceInv, TypeOK, Prefix, Behind, Calm, Front, Passed, Settled, InSession, At
  <2>2. UNCHANGED <<sent, committed>> /\ Front' = Front
    BY <1>7 DEF vars, Front, Passed, Settled
  <2>. QED  BY <2>1, <2>2
<1>. QED  BY <1>1, <1>2, <1>3, <1>4, <1>5, <1>6, <1>7 DEF Next, Returns

\* The inductive invariant, whatever crashes, fails or is evicted.
THEOREM PlaceInvariant == Spec => []PlaceInv
<1>1. PlaceInv /\ [Next]_vars => PlaceInv'
  BY StepKeepsPlace
<1>. QED  BY <1>1, InitPlace, PTL DEF Spec

\* "Never mark a failed offset -- sarama keeps the highest mark": the consumer
\* group implements the log, which settles messages in their order and commits
\* only behind what is settled.
THEOREM GroupKeepsItsPlace == Spec => KeepsItsPlace
<1>1. Init => Log!LogInit
  BY FS_EmptySet DEF Init, Log!LogInit, Settled, NoOffset, Log!NoOffset
<1>2. PlaceInv /\ [Next]_vars => [Log!LogNext]_Log!logVars
  BY StepKeepsPlace
     DEF Log!LogNext, Log!Send, Log!Settle, Log!Commit, Log!PassOver, Log!logVars, Log!NoOffset, NoOffset,
         Front, Passed, Send
<1>. QED  BY <1>1, <1>2, PlaceInvariant, PTL DEF Spec, KeepsItsPlace, Log!LogSpec

\* A handler's failure, however often it ends the session, repeats nothing that was
\* settled: for that it takes a crash, an eviction, a cancelled session, a dead
\* letter whose answer was lost, or a last commit that was not made.
THEOREM RepeatsNeedTrouble == Spec => []DeliveryInv
<1>1. PlaceInv => RepeatsComeFromTrouble
  <2> SUFFICES ASSUME PlaceInv, NEW p \in Pods, At(p, "handle"), Message(p) \in Settled, trouble = 0
               PROVE  FALSE
    BY DEF RepeatsComeFromTrouble, PlaceInv, TypeOK
  <2>1. at[p].pos = Front
    BY DEF PlaceInv, Calm, InSession, At
  <2>2. Front \in 0..(Front - 1) /\ Front \in Nat
    BY <2>1 DEF PlaceInv, Prefix, Passed, Message, TypeOK
  <2>. QED  BY <2>2
<1>2. PlaceInv => DeliveryInv
  BY <1>1 DEF PlaceInv, DeliveryInv
<1>. QED  BY <1>2, PlaceInvariant, PTL
=============================================================================
