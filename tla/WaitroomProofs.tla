--------------------------- MODULE WaitroomProofs ---------------------------
(***************************************************************************)
(* Proofs about Waitroom, for any number of sessions, tickets, failures    *)
(* and any batch size: nobody is lost between line and room, the room      *)
(* never outgrows the stock, an ended session stays ended, and places are  *)
(* kept as long as nothing fails.                                          *)
(***************************************************************************)
EXTENDS Waitroom, SequenceTheorems, FiniteSetTheorems, TLAPS

-----------------------------------------------------------------------------
(***************************************************************************)
(* Lists                                                                   *)
(***************************************************************************)
\* A set of numbers 1..n can be counted off in order: what ZREM leaves of the
\* line keeps its order.
LEMMA Enumeration ==
  ASSUME NEW n \in Nat, NEW K \in SUBSET (1..n)
  PROVE  /\ Cardinality(K) \in Nat
         /\ \E f \in [1..Cardinality(K) -> K] : \A a, b \in 1..Cardinality(K) : a < b => f[a] < f[b]
         /\ \A f \in [1..Cardinality(K) -> K] :
              (\A a, b \in 1..Cardinality(K) : a < b => f[a] < f[b])
              => \A x \in K : \E a \in 1..Cardinality(K) : f[a] = x
<1> DEFINE c == Cardinality(K)
           P == 1..c
           Below(x) == {y \in K : y <= x}
           rank == [x \in K |-> Cardinality(Below(x))]
<1>0. \A x \in K : x \in Nat
  OBVIOUS
<1>1. IsFiniteSet(K) /\ c \in Nat
  <2>1. IsFiniteSet(1..n)
    BY FS_Interval
  <2> QED BY <2>1, FS_Subset, FS_CardinalityType
<1>2. IsFiniteSet(P) /\ Cardinality(P) = c
  BY <1>1, FS_Interval
<1>3. \A x \in K : IsFiniteSet(Below(x)) /\ Cardinality(Below(x)) \in Nat /\ Cardinality(Below(x)) <= c
  BY <1>1, FS_Subset, FS_CardinalityType
<1>4. \A x \in K : Cardinality(Below(x)) # 0
  <2>1. \A x \in K : x <= x
    BY <1>0
  <2>2. \A x \in K : Below(x) # {}
    BY <2>1
  <2> QED BY <1>3, <2>2, FS_EmptySet
<1>5. rank \in [K -> P]
  BY <1>1, <1>3, <1>4
<1>6. \A x, y \in K : x < y => rank[x] < rank[y]
  <2> SUFFICES ASSUME NEW x \in K, NEW y \in K, x < y
               PROVE  Cardinality(Below(x)) < Cardinality(Below(y))
    OBVIOUS
  <2>0. x \in Nat /\ y \in Nat /\ \A z \in K : z \in Nat /\ (z <= x => z <= y)
    BY <1>0
  <2>1. Below(x) \in SUBSET Below(y)
    BY <2>0
  <2>2. y \in Below(y) /\ y \notin Below(x)
    BY <2>0
  <2>3. Below(x) # Below(y)
    BY <2>2
  <2> HIDE DEF Below
  <2>4. IsFiniteSet(Below(y))
    BY <1>3
  <2>5. Cardinality(Below(x)) <= Cardinality(Below(y)) /\ Cardinality(Below(x)) # Cardinality(Below(y))
    BY <2>4, <2>1, <2>3, FS_Subset
  <2> QED BY <1>3, <2>5
<1>p. \A a \in P : a \in Nat
  BY <1>1
<1> HIDE DEF rank, P, c, Below
<1>7. \A x, y \in K : rank[x] = rank[y] => x = y
  <2>1. \A x, y \in K : x \in Nat /\ y \in Nat /\ rank[x] \in Nat /\ rank[y] \in Nat
    BY <1>0, <1>5, <1>p
  <2>2. \A x, y \in K : x # y => x < y \/ y < x
    BY <2>1
  <2> QED BY <2>1, <2>2, <1>6
<1>8. rank \in Injection(K, P)
  BY <1>5, <1>7 DEF Injection, IsInjective
<1>9. rank \in Surjection(K, P)
  BY <1>8, <1>2, FS_Injection DEF c
<1>10. \A a \in P : \E x \in K : rank[x] = a
  BY <1>9 DEF Surjection
<1>11. \E f \in [P -> K] : \A a, b \in P : a < b => f[a] < f[b]
  <2> DEFINE f == [a \in P |-> CHOOSE x \in K : rank[x] = a]
  <2>1. \A a \in P : f[a] \in K /\ rank[f[a]] = a
    BY <1>10
  <2>2. f \in [P -> K]
    BY <2>1
  <2> HIDE DEF f
  <2>3. \A a, b \in P : a < b => f[a] < f[b]
    <3> SUFFICES ASSUME NEW a \in P, NEW b \in P, a < b, ~(f[a] < f[b])
                 PROVE  FALSE
      OBVIOUS
    <3>1. f[a] \in Nat /\ f[b] \in Nat /\ a \in Nat /\ b \in Nat
      BY <2>1, <1>0, <1>p
    <3>2. f[a] = f[b] \/ f[b] < f[a]
      BY <3>1
    <3>3. CASE f[a] = f[b]
      BY <2>1, <3>1, <3>3
    <3>4. CASE f[b] < f[a]
      <4>1. rank[f[b]] < rank[f[a]]
        BY <2>1, <3>4, <1>6
      <4>2. b < a
        BY <2>1, <4>1
      <4> QED BY <4>2, <3>1
    <3> QED BY <3>2, <3>3, <3>4
  <2> QED BY <2>2, <2>3
<1>12. ASSUME NEW f \in [P -> K], \A a, b \in P : a < b => f[a] < f[b]
       PROVE  \A x \in K : \E a \in P : f[a] = x
  <2>1. \A a, b \in P : f[a] = f[b] => a = b
    <3>1. \A a, b \in P : a \in Nat /\ b \in Nat /\ f[a] \in Nat /\ f[b] \in Nat
      BY <1>0, <1>p
    <3>2. \A a, b \in P : a # b => a < b \/ b < a
      BY <3>1
    <3> QED BY <3>1, <3>2, <1>12
  <2>2. f \in Injection(P, K)
    BY <2>1 DEF Injection, IsInjective
  <2>3. f \in Surjection(P, K)
    BY <2>2, <1>1, <1>2, FS_Injection DEF c
  <2> QED BY <2>3 DEF Surjection
<1> QED BY <1>1, <1>11, <1>12 DEF P, c

\* What ZREM leaves: the entries not removed, in their order.
LEMMA WithoutKeeps ==
  ASSUME NEW S, NEW seq \in Seq(S), NEW gone
  PROVE  LET rest == Without(seq, gone)
         IN  /\ rest \in Seq(S)
             /\ ToSet(rest) = ToSet(seq) \ gone
             /\ \E f \in [DOMAIN rest -> DOMAIN seq] :
                  /\ \A a \in DOMAIN rest : rest[a] = seq[f[a]]
                  /\ \A a, b \in DOMAIN rest : a < b => f[a] < f[b]
<1> DEFINE kept == {i \in DOMAIN seq : seq[i] \notin gone}
           c == Cardinality(kept)
           Good(f) == \A a, b \in 1..c : a < b => f[a] < f[b]
           from == CHOOSE f \in [1..c -> kept] : Good(f)
           rest == [a \in 1..c |-> seq[from[a]]]
<1>1. Without(seq, gone) = rest
  BY DEF Without
<1>2. Len(seq) \in Nat /\ DOMAIN seq = 1..Len(seq) /\ kept \in SUBSET (1..Len(seq))
  BY LenProperties
<1>3. c \in Nat /\ (\E f \in [1..c -> kept] : Good(f))
      /\ \A f \in [1..c -> kept] : Good(f) => \A x \in kept : \E a \in 1..c : f[a] = x
  BY <1>2, Enumeration
<1>4. from \in [1..c -> kept] /\ Good(from)
  BY <1>3
<1>5. \A x \in kept : \E a \in 1..c : from[a] = x
  BY <1>3, <1>4
<1> HIDE DEF from, c
<1>6. \A a \in 1..c : from[a] \in DOMAIN seq /\ seq[from[a]] \notin gone /\ seq[from[a]] \in S
  BY <1>2, <1>4, ElementOfSeq
<1>7. DOMAIN rest = 1..c /\ (\A a \in 1..c : rest[a] = seq[from[a]])
  OBVIOUS
<1>8. rest \in Seq(S)
  BY <1>3, <1>6, SeqDef
<1>9. ToSet(rest) = {seq[from[a]] : a \in 1..c}
  BY <1>7 DEF ToSet
<1>10. ToSet(rest) = ToSet(seq) \ gone
  <2>1. ToSet(rest) \subseteq ToSet(seq) \ gone
    BY <1>9, <1>6 DEF ToSet
  <2>2. ASSUME NEW x \in ToSet(seq), x \notin gone
        PROVE  x \in ToSet(rest)
    <3>1. PICK i \in DOMAIN seq : seq[i] = x
      BY DEF ToSet
    <3>2. PICK a \in 1..c : from[a] = i
      BY <1>5, <2>2, <3>1
    <3> QED BY <1>9, <3>1, <3>2
  <2> QED BY <2>1, <2>2
<1> HIDE DEF rest
<1>11. from \in [DOMAIN rest -> DOMAIN seq]
  BY <1>4, <1>7
<1>12. /\ \A a \in DOMAIN rest : rest[a] = seq[from[a]]
       /\ \A a, b \in DOMAIN rest : a < b => from[a] < from[b]
  BY <1>4, <1>7
<1> QED BY <1>1, <1>8, <1>10, <1>11, <1>12

\* The order given to those who arrived together holds each of them once.
LEMMA LotHoldsAll ==
  ASSUME NEW S, NEW A \in SUBSET S, IsFiniteSet(A), NEW lot \in SetToSeqs(A)
  PROVE  /\ lot \in Seq(S) /\ ToSet(lot) = A
         /\ \A i, j \in DOMAIN lot : lot[i] = lot[j] => i = j
<1> DEFINE c == Cardinality(A)
<1>1. c \in Nat
  BY FS_CardinalityType
<1>2. lot \in [1..c -> A] /\ \A i, j \in 1..c : i # j => lot[i] # lot[j]
  BY DEF SetToSeqs
<1>3. IsFiniteSet(1..c) /\ Cardinality(1..c) = c
  BY <1>1, FS_Interval
<1>4. lot \in Injection(1..c, A)
  BY <1>2 DEF Injection, IsInjective
<1>5. lot \in Surjection(1..c, A)
  BY <1>3, <1>4, FS_Injection
<1>6. \A x \in A : \E i \in 1..c : lot[i] = x
  BY <1>5 DEF Surjection
<1>7. lot \in Seq(S)
  BY <1>1, <1>2, SeqDef
<1> HIDE DEF c
<1>8. ToSet(lot) = A
  BY <1>2, <1>6 DEF ToSet
<1> QED BY <1>2, <1>7, <1>8

-----------------------------------------------------------------------------
(***************************************************************************)
(* The inductive invariant                                                 *)
(***************************************************************************)
Statuses == Ended \cup {"queued", "admitted", "gone"}
Steps == {"idle", "stock", "count", "get", "token", "holding", "claim",
          "close", "closing", "dead", "remove"}
Ticks == [step : Steps, due : Seq(Sessions), leaving : SUBSET Sessions,
          avail : 0..Tickets, counted : BOOLEAN]

Typed ==
  /\ TypeOK
  /\ tick \in Ticks
  /\ hear \in [Sessions -> [step : {"idle", "ban", "free", "write"}, status : Statuses]]

\* Nobody owes s a place any more, and that does not change.
Out(s) ==
  \/ leave[s] # "no" \/ order[s] # "none" \/ s \in old
  \/ rec[s] \notin {"queued", "admitted"} \/ window[s] = "over" \/ slots[s] # "none"

\* What a session's record says of its token, its order, its leave, and of the
\* handler that may write an older copy of the record back.
Life(s) ==
  /\ join[s] = "away" => rec[s] = "gone"
  /\ rec[s] = "queued" \/ join[s] = "away" => window[s] = "none" /\ order[s] = "none"
  /\ rec[s] = "admitted" \/ hear[s].status = "admitted" => window[s] # "none"
  /\ rec[s] = "abandoned" \/ hear[s].status = "abandoned" => leave[s] # "no"
  /\ hear[s].status # "queued"
  /\ s \in news \/ hear[s].step # "idle" => order[s] \in Outcomes
  /\ hear[s].step = "ban" /\ hear[s].status = "admitted" => rec[s] \notin Ended \ {"abandoned"}
Lives == \A s \in Sessions : Life(s)

Placed(s) == s \in arriving \cup ToSet(line)
NotLost == \A s \in Sessions : join[s] \in {"added", "in"} => Placed(s) \/ Out(s)

\* Only those who drew a score stand anywhere, the tick sees only those who
\* entered, and nobody stands in two places.
Entered(s) == join[s] \notin {"away", "created"}
Places ==
  /\ \A s \in arriving : join[s] # "away" /\ s \notin ToSet(line) /\ s \notin ToSet(tick.due)
  /\ \A s \in ToSet(line) : join[s] # "away"
  /\ \A s \in Unwritten : Placed(s)
  /\ \A s \in ToSet(tick.due) : Entered(s)
  /\ \A s \in tick.leaving : Entered(s)
  /\ \A i, j \in DOMAIN line : line[i] = line[j] => i = j

\* What the tick read about the session whose turn it is holds until it acts on
\* it, and whom it takes out of the line has no claim to it.
TurnInv ==
  /\ At("token") \/ At("closing") => rec[Turn] \in {"queued", "abandoned", "gone"} /\ order[Turn] = "none"
  /\ At("holding") \/ At("claim") => window[Turn] # "none"
  /\ \A s \in tick.leaving : Out(s) /\ ~CanAdmit(s)

\* Slots given on a count, and those the tick may still give, fit the tickets.
CountedIn == {s \in Sessions : slots[s] = "counted"}
Admitting == tick.step \in {"get", "token", "holding", "claim"}
RoomInv ==
  /\ Cardinality(CountedIn) <= Tickets
  /\ tick.counted /\ Admitting => Cardinality(CountedIn) + Len(tick.due) <= Tickets

\* Until something fails, whoever stands ahead of a session due is due before it
\* or done with, or its entry was not there when the tick looked.
Ahead(t, k) == t \in tick.leaving \/ \E m \in DOMAIN tick.due : m < k /\ t = tick.due[m]
InOrder ==
  faults = 0 /\ (Admitting \/ tick.step \in {"stock", "count"}) =>
    \A k \in DOMAIN tick.due : \A j \in DOMAIN line : line[j] = tick.due[k] =>
      \A i \in DOMAIN line : i < j => Ahead(line[i], k) \/ line[i] \in late \cup Unwritten

Inv == Typed /\ Lives /\ NotLost /\ Places /\ TurnInv /\ RoomInv /\ InOrder

LEMMA EmptySeqFacts ==
  /\ DOMAIN <<>> = {} /\ Len(<<>>) = 0 /\ ToSet(<<>>) = {}
  /\ \A S : <<>> \in Seq(S)
  BY EmptySeq DEF ToSet

LEMMA RestingFacts ==
  /\ Resting \in Ticks /\ Resting.step = "idle" /\ Resting.due = <<>>
  /\ Resting.leaving = {} /\ Resting.avail = 0 /\ Resting.counted = FALSE
  BY EmptySeqFacts, SizesAssumption DEF Resting, Ticks, Steps

LEMMA InitInv == Init => Inv
<1> SUFFICES ASSUME Init PROVE Inv
  OBVIOUS
<1>1. Typed
  <2>1. tick = Resting /\ tick \in Ticks /\ tick.due \in Seq(Sessions) /\ tick.leaving \subseteq Sessions
        /\ line \in Seq(Sessions)
    BY RestingFacts, EmptySeqFacts DEF Init
  <2>2. 0 \in 0..Tickets /\ 0 \in 0..MaxFaults
    BY SizesAssumption
  <2>3. tick.avail \in 0..Tickets /\ faults \in 0..MaxFaults
    BY <2>1, <2>2, RestingFacts DEF Init
  <2>4. hear \in [Sessions -> [step : {"idle", "ban", "free", "write"}, status : Statuses]]
    BY DEF Init, Statuses
  <2>5. TypeOK
    BY <2>1, <2>3 DEF Init, TypeOK
  <2> QED BY <2>1, <2>4, <2>5 DEF Typed
<1>2. Lives /\ NotLost
  <2>1. \A s \in Sessions : /\ rec[s] = "gone" /\ window[s] = "none" /\ order[s] = "none" /\ s \notin news
                            /\ hear[s] = [step |-> "idle", status |-> "gone"] /\ join[s] = "away"
    BY DEF Init
  <2>2. Lives
    BY <2>1 DEF Lives, Life, Ended
  <2> QED BY <2>1, <2>2 DEF NotLost
<1>3. Places /\ TurnInv /\ InOrder
  <2>1. /\ arriving = {} /\ ToSet(line) = {} /\ DOMAIN line = {} /\ DOMAIN tick.due = {}
        /\ ToSet(tick.due) = {} /\ tick.leaving = {} /\ tick.step = "idle" /\ Unwritten = {}
    BY RestingFacts, EmptySeqFacts DEF Init, Unwritten
  <2>2. Places /\ InOrder
    BY <2>1 DEF Places, InOrder
  <2>3. TurnInv
    BY <2>1 DEF TurnInv, At
  <2> QED BY <2>2, <2>3
<1>4. RoomInv
  <2>1. CountedIn = {}
    BY DEF Init, CountedIn
  <2>2. Cardinality(CountedIn) = 0
    BY <2>1, FS_EmptySet
  <2> QED BY <2>2, RestingFacts, SizesAssumption DEF Init, RoomInv
<1> QED BY <1>1, <1>2, <1>3, <1>4 DEF Inv

-----------------------------------------------------------------------------
(***************************************************************************)
(* Steps of one session                                                    *)
(***************************************************************************)
Same(t) ==
  /\ rec'[t] = rec[t] /\ slots'[t] = slots[t] /\ window'[t] = window[t]
  /\ join'[t] = join[t] /\ leave'[t] = leave[t] /\ order'[t] = order[t] /\ hear'[t] = hear[t]
  /\ t \in old' <=> t \in old
  /\ t \in news' <=> t \in news

\* One session moves on: what it has left behind stays behind.
Moves(s) ==
  /\ \A t \in Sessions \ {s} : Same(t)
  /\ Life(s)'
  /\ Entered(s) => /\ Entered(s)'
                   /\ Out(s) => Out(s)'
                   /\ ~CanAdmit(s) => ~CanAdmit(s)'
  /\ window[s] # "none" => window'[s] # "none"
  /\ join[s] # "away" => join'[s] # "away"
  /\ faults' \in Nat /\ (faults' = 0 => faults = 0)

\* It moves on by itself: the tick does not notice.
Aside(s) ==
  /\ Moves(s) /\ tick' = tick
  /\ rec[s] \in {"queued", "abandoned", "gone"} /\ order[s] = "none" /\ Entered(s)
     => rec'[s] \in {"queued", "abandoned", "gone"} /\ order'[s] = "none"
  /\ slots'[s] = "counted" => slots[s] = "counted"
  /\ slots[s] = "none" => slots'[s] = "none"
  /\ rec[s] \in Ended \ {"abandoned"} => rec'[s] \notin {"queued", "admitted"}

\* Nor does the line.
Outside(s) ==
  /\ Aside(s) /\ UNCHANGED <<arriving, line, late>>
  /\ join'[s] \in {"added", "in"} => join[s] \in {"added", "in"}
  /\ join'[s] = "created" <=> join[s] = "created"

LEMMA MovesKeepLives ==
  ASSUME Lives, NEW s \in Sessions, Moves(s)
  PROVE  Lives'
<1> SUFFICES ASSUME NEW t \in Sessions PROVE Life(t)'
  BY DEF Lives
<1>1. CASE t = s
  BY <1>1 DEF Moves
<1>2. CASE t # s
  <2>1. Same(t) /\ Life(t)
    BY <1>2 DEF Moves, Lives
  <2> QED BY <2>1 DEF Same, Life
<1> QED BY <1>1, <1>2

LEMMA MovesKeepOut ==
  ASSUME NEW s \in Sessions, Moves(s), NEW t \in Sessions, Entered(t)
  PROVE  /\ Entered(t)'
         /\ Out(t) => Out(t)'
         /\ ~CanAdmit(t) => ~CanAdmit(t)'
<1>1. CASE t = s
  BY <1>1 DEF Moves
<1>2. CASE t # s
  <2>1. Same(t)
    BY <1>2 DEF Moves
  <2> QED BY <2>1 DEF Same, Out, CanAdmit, Entered
<1> QED BY <1>1, <1>2

LEMMA CountedType == IsFiniteSet(CountedIn) /\ Cardinality(CountedIn) \in Nat
<1>1. CountedIn \in SUBSET Sessions
  BY DEF CountedIn
<1> QED BY <1>1, SessionsAssumption, FS_Subset, FS_CardinalityType

LEMMA FewerCounted ==
  ASSUME Typed, Typed', \A t \in Sessions : slots'[t] = "counted" => slots[t] = "counted"
  PROVE  /\ Cardinality(CountedIn) \in Nat /\ Cardinality(CountedIn') \in Nat
         /\ Cardinality(CountedIn') <= Cardinality(CountedIn)
<1>1. CountedIn \in SUBSET Sessions /\ CountedIn' \in SUBSET CountedIn
  BY DEF CountedIn
<1>2. IsFiniteSet(CountedIn)
  BY <1>1, SessionsAssumption, FS_Subset
<1>3. IsFiniteSet(CountedIn') /\ Cardinality(CountedIn') <= Cardinality(CountedIn)
  BY <1>1, <1>2, FS_Subset
<1> QED BY <1>2, <1>3, FS_CardinalityType

LEMMA Located ==
  ASSUME Typed
  PROVE  arriving \subseteq Sessions /\ ToSet(line) \subseteq Sessions
         /\ ToSet(tick.due) \subseteq Sessions /\ tick.leaving \subseteq Sessions
BY ElementOfSeq DEF Typed, TypeOK, ToSet

LEMMA TurnFacts ==
  ASSUME Typed, tick.due # <<>>
  PROVE  /\ Turn \in Sessions /\ Turn \in ToSet(tick.due) /\ Turn = tick.due[1]
         /\ Len(tick.due) \in Nat \ {0} /\ DOMAIN tick.due = 1..Len(tick.due)
BY LenProperties, EmptySeq, HeadTailProperties DEF Turn, ToSet, Typed, TypeOK

\* What a tick reads: the entries that are there, in the order of the line.
LEMMA QueueFacts ==
  ASSUME Inv
  PROVE  /\ Queue \in Seq(Sessions) /\ ToSet(Queue) = ToSet(line) \ Unwritten
         /\ \A s \in ToSet(Queue) : Entered(s) /\ s \notin arriving
         /\ \A k, l \in DOMAIN Queue : k < l =>
              \E a, b \in DOMAIN line : a < b /\ line[a] = Queue[k] /\ line[b] = Queue[l]
         /\ \A k \in DOMAIN Queue : \A i, j \in DOMAIN line :
              line[j] = Queue[k] /\ i < j /\ line[i] \notin Unwritten =>
                \E m \in DOMAIN Queue : m < k /\ Queue[m] = line[i]
<1>1. line \in Seq(Sessions)
  BY DEF Inv, Typed, TypeOK
<1>2. /\ Queue \in Seq(Sessions) /\ ToSet(Queue) = ToSet(line) \ Unwritten
      /\ \E f \in [DOMAIN Queue -> DOMAIN line] :
           /\ \A a \in DOMAIN Queue : Queue[a] = line[f[a]]
           /\ \A a, b \in DOMAIN Queue : a < b => f[a] < f[b]
  BY <1>1, WithoutKeeps DEF Queue
<1>3. PICK f \in [DOMAIN Queue -> DOMAIN line] :
        /\ \A a \in DOMAIN Queue : Queue[a] = line[f[a]]
        /\ \A a, b \in DOMAIN Queue : a < b => f[a] < f[b]
  BY <1>2
<1>4. DOMAIN Queue = 1..Len(Queue) /\ Len(Queue) \in Nat /\ DOMAIN line = 1..Len(line) /\ Len(line) \in Nat
  BY <1>1, <1>2, LenProperties
<1>5. \A s \in ToSet(Queue) : Entered(s) /\ s \notin arriving
  <2>1. ToSet(line) \subseteq Sessions
    BY Located DEF Inv
  <2> QED BY <1>2, <2>1 DEF Inv, Places, Entered, Unwritten
<1>6. \A k, l \in DOMAIN Queue : k < l =>
        \E a, b \in DOMAIN line : a < b /\ line[a] = Queue[k] /\ line[b] = Queue[l]
  BY <1>3
<1>7. ASSUME NEW k \in DOMAIN Queue, NEW i \in DOMAIN line, NEW j \in DOMAIN line,
             line[j] = Queue[k], i < j, line[i] \notin Unwritten
      PROVE  \E m \in DOMAIN Queue : m < k /\ Queue[m] = line[i]
  <2>1. line[i] \in ToSet(Queue)
    BY <1>2, <1>7 DEF ToSet
  <2>2. PICK m \in DOMAIN Queue : Queue[m] = line[i]
    BY <2>1 DEF ToSet
  <2>3. line[f[m]] = line[i] /\ line[f[k]] = line[j] /\ f[m] \in DOMAIN line /\ f[k] \in DOMAIN line
    BY <1>3, <1>7, <2>2
  <2>4. f[m] = i /\ f[k] = j
    BY <2>3 DEF Inv, Places
  <2>5. m \in Nat /\ k \in Nat /\ i \in Nat /\ j \in Nat
    BY <1>4
  <2>6. ~(k < m) /\ k # m
    <3>1. k < m => j < i
      BY <1>3, <2>4
    <3>2. k = m => j = i
      BY <2>4
    <3> QED BY <1>7, <2>5, <3>1, <3>2
  <2> QED BY <2>2, <2>5, <2>6
<1> QED BY <1>2, <1>5, <1>6, <1>7

LEMMA AsideKeeps ==
  ASSUME Inv, Typed', NEW s \in Sessions, Aside(s)
  PROVE  Lives' /\ TurnInv' /\ RoomInv'
<1>1. Moves(s) /\ tick' = tick /\ Typed
  BY DEF Aside, Inv
<1>2. Lives'
  BY <1>1, MovesKeepLives DEF Inv
<1>3. tick.leaving \subseteq Sessions
  BY <1>1, Located
<1>4. TurnInv'
  <2>1. ASSUME At("token") \/ At("closing")
        PROVE  rec'[Turn] \in {"queued", "abandoned", "gone"} /\ order'[Turn] = "none"
    <3>1. Turn \in Sessions /\ Turn \in ToSet(tick.due)
      BY <1>1, <2>1, TurnFacts DEF At
    <3>2. Turn \in Sessions /\ Entered(Turn)
      BY <3>1 DEF Inv, Places
    <3>3. rec[Turn] \in {"queued", "abandoned", "gone"} /\ order[Turn] = "none"
      BY <2>1 DEF Inv, TurnInv
    <3> QED BY <3>2, <3>3 DEF Aside, Moves, Same
  <2>2. ASSUME At("holding") \/ At("claim")
        PROVE  window'[Turn] # "none"
    <3>1. Turn \in Sessions
      BY <1>1, <2>2, TurnFacts DEF At
    <3>2. Turn \in Sessions /\ window[Turn] # "none"
      BY <3>1, <2>2 DEF Inv, TurnInv
    <3> QED BY <3>2 DEF Aside, Moves, Same
  <2>3. ASSUME NEW t \in tick.leaving
        PROVE  Out(t)' /\ ~CanAdmit(t)'
    <3>1. t \in Sessions /\ Entered(t) /\ Out(t) /\ ~CanAdmit(t)
      BY <1>3 DEF Inv, TurnInv, Places
    <3> QED BY <1>1, <3>1, MovesKeepOut
  <2> QED BY <1>1, <2>1, <2>2, <2>3 DEF TurnInv, At, Turn
<1>5. RoomInv'
  <2>1. \A t \in Sessions : slots'[t] = "counted" => slots[t] = "counted"
    BY DEF Aside, Moves, Same
  <2>2. /\ Cardinality(CountedIn) \in Nat /\ Cardinality(CountedIn') \in Nat
        /\ Cardinality(CountedIn') <= Cardinality(CountedIn)
    BY <2>1, FewerCounted DEF Inv
  <2>3. tick.due \in Seq(Sessions) /\ Len(tick.due) \in Nat /\ Tickets \in Nat
    BY SizesAssumption, LenProperties DEF Inv, Typed, TypeOK
  <2>4. Cardinality(CountedIn') <= Tickets
    BY <2>2, <2>3 DEF Inv, RoomInv
  <2>5. tick.counted /\ Admitting => Cardinality(CountedIn') + Len(tick.due) <= Tickets
    BY <2>2, <2>3 DEF Inv, RoomInv
  <2> QED BY <1>1, <2>4, <2>5 DEF RoomInv, Admitting
<1> QED BY <1>2, <1>4, <1>5

LEMMA OutsideKeeps ==
  ASSUME Inv, Typed', NEW s \in Sessions, Outside(s)
  PROVE  Inv'
<1>1. Aside(s) /\ Moves(s) /\ line' = line /\ tick' = tick /\ arriving' = arriving /\ late' = late /\ Typed
  BY DEF Outside, Aside, Inv
<1>u. Unwritten' = Unwritten
  BY DEF Outside, Aside, Moves, Same, Unwritten
<1>2. Lives' /\ TurnInv' /\ RoomInv'
  BY <1>1, AsideKeeps
<1>3. arriving \subseteq Sessions /\ ToSet(line) \subseteq Sessions /\ ToSet(tick.due) \subseteq Sessions
      /\ tick.leaving \subseteq Sessions
  BY <1>1, Located
<1>4. NotLost'
  <2> SUFFICES ASSUME NEW t \in Sessions, join'[t] \in {"added", "in"}
               PROVE  Placed(t)' \/ Out(t)'
    BY DEF NotLost
  <2>1. join[t] \in {"added", "in"}
    BY DEF Outside, Aside, Moves, Same
  <2>2. Entered(t) /\ (Placed(t) \/ Out(t))
    BY <2>1 DEF Entered, Inv, NotLost
  <2>3. Placed(t) => Placed(t)'
    BY <1>1 DEF Placed, ToSet
  <2>4. Out(t) => Out(t)'
    BY <1>1, <2>2, MovesKeepOut
  <2> QED BY <2>2, <2>3, <2>4
<1>5. Places'
  <2>1. ASSUME NEW t \in Sessions, Entered(t)
        PROVE  join'[t] \notin {"away", "created"}
    BY <1>1, <2>1, MovesKeepOut DEF Entered
  <2>2. \A t \in Sessions : join[t] # "away" => join'[t] # "away"
    BY <1>1 DEF Moves, Same
  <2>3. /\ \A t \in arriving : join'[t] # "away" /\ t \notin ToSet(line) /\ t \notin ToSet(tick.due)
        /\ \A t \in ToSet(line) : join'[t] # "away"
        /\ \A t \in ToSet(tick.due) : join'[t] \notin {"away", "created"}
        /\ \A t \in tick.leaving : join'[t] \notin {"away", "created"}
    BY <2>1, <2>2, <1>3 DEF Inv, Places
  <2>4. \A t \in Unwritten' : Placed(t)'
    BY <1>1, <1>u DEF Inv, Places, Placed, ToSet
  <2>5. \A i, j \in DOMAIN line : line[i] = line[j] => i = j
    BY DEF Inv, Places
  <2> QED BY <1>1, <2>3, <2>4, <2>5 DEF Places, Entered, ToSet
<1>6. InOrder'
  BY <1>1, <1>u DEF Inv, InOrder, Moves, Ahead, Admitting
<1> QED BY <1>2, <1>4, <1>5, <1>6 DEF Inv

LEMMA FaultFacts ==
  ASSUME Typed, Fine \/ Fault
  PROVE  faults' \in 0..MaxFaults /\ faults' \in Nat /\ (faults' = 0 => faults = 0)
BY SizesAssumption DEF Typed, TypeOK, Fine, Fault

\* Whatever a buyer, a clock, order-svc or the consumer does to a session, it
\* does to that session alone and leaves its life in order.
LEMMA OutsideSteps ==
  ASSUME Inv, NEW s \in Sessions,
         \/ StartCheckout(s) \/ OrderEnds(s) \/ WindowEnds(s) \/ Lapse(s) \/ RecordEnds(s)
         \/ AddActiveEvent(s) \/ JoinUnlisted(s)
         \/ ReadLength(s) \/ RemoveActiveEvent(s) \/ MarkAbandoned(s) \/ LeaveFails(s) \/ Hear(s)
  PROVE  Typed' /\ Outside(s)
<1>1. Typed /\ Life(s)
  BY DEF Inv, Lives
<1> USE DEF Typed, TypeOK, Statuses, Ended
<1>2. CASE StartCheckout(s)
  <2>1. faults' \in 0..MaxFaults /\ faults' \in Nat /\ (faults' = 0 => faults = 0)
    BY <1>1, <1>2, FaultFacts DEF StartCheckout
  <2>2. Typed'
    BY <1>1, <1>2, <2>1, OutcomesAssumption DEF StartCheckout, stored, TokenValid
  <2>3. \A t \in Sessions \ {s} : Same(t)
    BY <1>1, <1>2 DEF StartCheckout, stored, TokenValid, Same
  <2>4. Outside(s)
    BY <1>1, <1>2, <2>1, <2>3, OutcomesAssumption DEF StartCheckout, stored, TokenValid, Outside, Aside, Moves, Life, Out, CanAdmit, Entered
  <2> QED BY <2>2, <2>4
<1>3. CASE OrderEnds(s)
  <2>1. faults' \in 0..MaxFaults /\ faults' \in Nat /\ (faults' = 0 => faults = 0)
    BY <1>1, <1>3, FaultFacts DEF OrderEnds
  <2>2. Typed'
    BY <1>1, <1>3, <2>1, OutcomesAssumption DEF OrderEnds, stored
  <2>3. \A t \in Sessions \ {s} : Same(t)
    BY <1>1, <1>3 DEF OrderEnds, stored, Same
  <2>4. Outside(s)
    BY <1>1, <1>3, <2>1, <2>3, OutcomesAssumption DEF OrderEnds, stored, Outside, Aside, Moves, Life, Out, CanAdmit, Entered
  <2> QED BY <2>2, <2>4
<1>4. CASE WindowEnds(s)
  <2>1. faults' \in 0..MaxFaults /\ faults' \in Nat /\ (faults' = 0 => faults = 0)
    BY <1>1, <1>4, FaultFacts DEF WindowEnds
  <2>2. Typed'
    BY <1>1, <1>4, <2>1, OutcomesAssumption DEF WindowEnds
  <2>3. \A t \in Sessions \ {s} : Same(t)
    BY <1>1, <1>4 DEF WindowEnds, Same
  <2>4. Outside(s)
    BY <1>1, <1>4, <2>1, <2>3, OutcomesAssumption DEF WindowEnds, Outside, Aside, Moves, Life, Out, CanAdmit, Entered
  <2> QED BY <2>2, <2>4
<1>5. CASE Lapse(s)
  <2>1. faults' \in 0..MaxFaults /\ faults' \in Nat /\ (faults' = 0 => faults = 0)
    BY <1>1, <1>5, FaultFacts DEF Lapse
  <2>2. Typed'
    BY <1>1, <1>5, <2>1, OutcomesAssumption DEF Lapse
  <2>3. \A t \in Sessions \ {s} : Same(t)
    BY <1>1, <1>5 DEF Lapse, Same
  <2>4. Outside(s)
    BY <1>1, <1>5, <2>1, <2>3, OutcomesAssumption DEF Lapse, Outside, Aside, Moves, Life, Out, CanAdmit, Entered
  <2> QED BY <2>2, <2>4
<1>6. CASE RecordEnds(s)
  <2>1. faults' \in 0..MaxFaults /\ faults' \in Nat /\ (faults' = 0 => faults = 0)
    BY <1>1, <1>6, FaultFacts DEF RecordEnds
  <2>2. Typed'
    BY <1>1, <1>6, <2>1, OutcomesAssumption DEF RecordEnds, HasStatus
  <2>3. \A t \in Sessions \ {s} : Same(t)
    BY <1>1, <1>6 DEF RecordEnds, HasStatus, Same
  <2>4. Outside(s)
    BY <1>1, <1>6, <2>1, <2>3, OutcomesAssumption DEF RecordEnds, HasStatus, Outside, Aside, Moves, Life, Out, CanAdmit, Entered
  <2> QED BY <2>2, <2>4
<1>8. CASE AddActiveEvent(s)
  <2>1. faults' \in 0..MaxFaults /\ faults' \in Nat /\ (faults' = 0 => faults = 0)
    BY <1>1, <1>8, FaultFacts DEF AddActiveEvent
  <2>2. Typed'
    BY <1>1, <1>8, <2>1, OutcomesAssumption DEF AddActiveEvent
  <2>3. \A t \in Sessions \ {s} : Same(t)
    BY <1>1, <1>8 DEF AddActiveEvent, Same
  <2>4. Outside(s)
    BY <1>1, <1>8, <2>1, <2>3, OutcomesAssumption DEF AddActiveEvent, Outside, Aside, Moves, Life, Out, CanAdmit, Entered
  <2> QED BY <2>2, <2>4
<1>10. CASE JoinUnlisted(s)
  <2>1. faults' \in 0..MaxFaults /\ faults' \in Nat /\ (faults' = 0 => faults = 0)
    BY <1>1, <1>10, FaultFacts DEF JoinUnlisted
  <2>2. Typed'
    BY <1>1, <1>10, <2>1, OutcomesAssumption DEF JoinUnlisted, stored
  <2>3. \A t \in Sessions \ {s} : Same(t)
    BY <1>1, <1>10 DEF JoinUnlisted, stored, Same
  <2>4. Outside(s)
    BY <1>1, <1>10, <2>1, <2>3, OutcomesAssumption DEF JoinUnlisted, stored, Outside, Aside, Moves, Life, Out, CanAdmit, Entered
  <2> QED BY <2>2, <2>4
<1>11. CASE ReadLength(s)
  <2>1. faults' \in 0..MaxFaults /\ faults' \in Nat /\ (faults' = 0 => faults = 0)
    BY <1>1, <1>11, FaultFacts DEF ReadLength
  <2>2. Typed'
    BY <1>1, <1>11, <2>1, OutcomesAssumption DEF ReadLength, stored, LeaveGoes
  <2>3. \A t \in Sessions \ {s} : Same(t)
    BY <1>1, <1>11 DEF ReadLength, stored, LeaveGoes, Same
  <2>4. Outside(s)
    BY <1>1, <1>11, <2>1, <2>3, OutcomesAssumption DEF ReadLength, stored, LeaveGoes, Outside, Aside, Moves, Life, Out, CanAdmit, Entered
  <2> QED BY <2>2, <2>4
<1>12. CASE RemoveActiveEvent(s)
  <2>1. faults' \in 0..MaxFaults /\ faults' \in Nat /\ (faults' = 0 => faults = 0)
    BY <1>1, <1>12, FaultFacts DEF RemoveActiveEvent
  <2>2. Typed'
    BY <1>1, <1>12, <2>1, OutcomesAssumption DEF RemoveActiveEvent, LeaveGoes
  <2>3. \A t \in Sessions \ {s} : Same(t)
    BY <1>1, <1>12 DEF RemoveActiveEvent, LeaveGoes, Same
  <2>4. Outside(s)
    BY <1>1, <1>12, <2>1, <2>3, OutcomesAssumption DEF RemoveActiveEvent, LeaveGoes, Outside, Aside, Moves, Life, Out, CanAdmit, Entered
  <2> QED BY <2>2, <2>4
<1>13. CASE MarkAbandoned(s)
  <2>1. faults' \in 0..MaxFaults /\ faults' \in Nat /\ (faults' = 0 => faults = 0)
    BY <1>1, <1>13, FaultFacts DEF MarkAbandoned
  <2>2. Typed'
    BY <1>1, <1>13, <2>1, OutcomesAssumption DEF MarkAbandoned, LeaveGoes, HasStatus
  <2>3. \A t \in Sessions \ {s} : Same(t)
    BY <1>1, <1>13 DEF MarkAbandoned, LeaveGoes, HasStatus, Same
  <2>4. Outside(s)
    BY <1>1, <1>13, <2>1, <2>3, OutcomesAssumption DEF MarkAbandoned, LeaveGoes, HasStatus, Outside, Aside, Moves, Life, Out, CanAdmit, Entered
  <2> QED BY <2>2, <2>4
<1>14. CASE LeaveFails(s)
  <2>1. faults' \in 0..MaxFaults /\ faults' \in Nat /\ (faults' = 0 => faults = 0)
    BY <1>1, <1>14, FaultFacts DEF LeaveFails
  <2>2. Typed'
    BY <1>1, <1>14, <2>1, OutcomesAssumption DEF LeaveFails, stored, LeaveGoes
  <2>3. \A t \in Sessions \ {s} : Same(t)
    BY <1>1, <1>14 DEF LeaveFails, stored, LeaveGoes, Same
  <2>4. Outside(s)
    BY <1>1, <1>14, <2>1, <2>3, OutcomesAssumption DEF LeaveFails, stored, LeaveGoes, Outside, Aside, Moves, Life, Out, CanAdmit, Entered
  <2> QED BY <2>2, <2>4
<1>15. CASE HearSession(s)
  <2>1. faults' \in 0..MaxFaults /\ faults' \in Nat /\ (faults' = 0 => faults = 0)
    BY <1>1, <1>15, FaultFacts DEF HearSession
  <2>2. Typed'
    <3>1. hear' \in [Sessions -> [step : {"idle", "ban", "free", "write"}, status : Statuses]]
      <4>1. CASE rec[s] = "gone"
        BY <1>1, <1>15, <4>1 DEF HearSession
      <4>2. CASE rec[s] # "gone"
        BY <1>1, <1>15, <4>2 DEF HearSession
      <4> QED BY <4>1, <4>2
    <3>2. news' \subseteq Sessions
      BY <1>1, <1>15 DEF HearSession
    <3> QED BY <1>1, <1>15, <2>1, <3>1, <3>2, OutcomesAssumption DEF HearSession, stored
  <2>3. \A t \in Sessions \ {s} : Same(t)
    BY <1>1, <1>15 DEF HearSession, stored, Same
  <2>4. Outside(s)
    BY <1>1, <1>15, <2>1, <2>3, OutcomesAssumption DEF HearSession, stored, Outside, Aside, Moves, Life, Out, CanAdmit, Entered
  <2> QED BY <2>2, <2>4
<1>16. CASE InvalidateToken(s)
  <2>1. faults' \in 0..MaxFaults /\ faults' \in Nat /\ (faults' = 0 => faults = 0)
    BY <1>1, <1>16, FaultFacts DEF InvalidateToken
  <2>2. Typed'
    BY <1>1, <1>16, <2>1, OutcomesAssumption DEF InvalidateToken, HasStatus, Hears
  <2>3. \A t \in Sessions \ {s} : Same(t)
    BY <1>1, <1>16 DEF InvalidateToken, HasStatus, Hears, Same
  <2>4. Outside(s)
    BY <1>1, <1>16, <2>1, <2>3, OutcomesAssumption DEF InvalidateToken, HasStatus, Hears, Outside, Aside, Moves, Life, Out, CanAdmit, Entered
  <2> QED BY <2>2, <2>4
<1>17. CASE RemoveFromProcessing(s)
  <2>1. faults' \in 0..MaxFaults /\ faults' \in Nat /\ (faults' = 0 => faults = 0)
    BY <1>1, <1>17, FaultFacts DEF RemoveFromProcessing
  <2>2. Typed'
    BY <1>1, <1>17, <2>1, OutcomesAssumption DEF RemoveFromProcessing, Hears
  <2>3. \A t \in Sessions \ {s} : Same(t)
    BY <1>1, <1>17 DEF RemoveFromProcessing, Hears, Same
  <2>4. Outside(s)
    BY <1>1, <1>17, <2>1, <2>3, OutcomesAssumption DEF RemoveFromProcessing, Hears, Outside, Aside, Moves, Life, Out, CanAdmit, Entered
  <2> QED BY <2>2, <2>4
<1>18. CASE UpdateSession(s)
  <2>1. faults' \in 0..MaxFaults /\ faults' \in Nat /\ (faults' = 0 => faults = 0)
    BY <1>1, <1>18, FaultFacts DEF UpdateSession
  <2>2. Typed'
    <3>1. order[s] \in Outcomes
      BY <1>1, <1>18 DEF UpdateSession, Life
    <3> QED BY <1>1, <1>18, <2>1, <3>1, OutcomesAssumption DEF UpdateSession, HasStatus, Hears
  <2>3. \A t \in Sessions \ {s} : Same(t)
    BY <1>1, <1>18 DEF UpdateSession, HasStatus, Hears, Same
  <2>4. Outside(s)
    BY <1>1, <1>18, <2>1, <2>3, OutcomesAssumption DEF UpdateSession, HasStatus, Hears, Outside, Aside, Moves, Life, Out, CanAdmit, Entered
  <2> QED BY <2>2, <2>4
<1>19. CASE HearingFails(s)
  <2>1. faults' \in 0..MaxFaults /\ faults' \in Nat /\ (faults' = 0 => faults = 0)
    BY <1>1, <1>19, FaultFacts DEF HearingFails
  <2>2. Typed'
    BY <1>1, <1>19, <2>1, OutcomesAssumption DEF HearingFails, stored, Hears
  <2>3. \A t \in Sessions \ {s} : Same(t)
    BY <1>1, <1>19 DEF HearingFails, stored, Hears, Same
  <2>4. Outside(s)
    BY <1>1, <1>19, <2>1, <2>3, OutcomesAssumption DEF HearingFails, stored, Hears, Outside, Aside, Moves, Life, Out, CanAdmit, Entered
  <2> QED BY <2>2, <2>4
<1> QED BY <1>2, <1>3, <1>4, <1>5, <1>6, <1>8, <1>10, <1>11, <1>12, <1>13, <1>14, <1>15, <1>16, <1>17, <1>18, <1>19 DEF Hear

-----------------------------------------------------------------------------
(***************************************************************************)
(* Steps of the line                                                       *)
(***************************************************************************)
\* Taking sessions out of the line leaves the others where they stood.
LEMMA LineShrinks ==
  ASSUME Typed, Places, NEW gone, line' = Without(line, gone)
  PROVE  /\ line' \in Seq(Sessions) /\ ToSet(line') = ToSet(line) \ gone
         /\ \A i, j \in DOMAIN line' : line'[i] = line'[j] => i = j
         /\ \A i, j \in DOMAIN line' : i < j =>
              \E a, b \in DOMAIN line : a < b /\ line[a] = line'[i] /\ line[b] = line'[j]
<1>1. /\ line' \in Seq(Sessions) /\ ToSet(line') = ToSet(line) \ gone
      /\ \E f \in [DOMAIN line' -> DOMAIN line] :
           /\ \A a \in DOMAIN line' : line'[a] = line[f[a]]
           /\ \A a, b \in DOMAIN line' : a < b => f[a] < f[b]
  <2> DEFINE rest == Without(line, gone)
  <2>1. line \in Seq(Sessions)
    BY DEF Typed, TypeOK
  <2>2. /\ rest \in Seq(Sessions) /\ ToSet(rest) = ToSet(line) \ gone
        /\ \E f \in [DOMAIN rest -> DOMAIN line] :
             /\ \A a \in DOMAIN rest : rest[a] = line[f[a]]
             /\ \A a, b \in DOMAIN rest : a < b => f[a] < f[b]
    BY <2>1, WithoutKeeps
  <2>3. line' = rest
    OBVIOUS
  <2> HIDE DEF rest
  <2> QED BY <2>2, <2>3
<1>2. PICK f \in [DOMAIN line' -> DOMAIN line] :
        /\ \A a \in DOMAIN line' : line'[a] = line[f[a]]
        /\ \A a, b \in DOMAIN line' : a < b => f[a] < f[b]
  BY <1>1
<1>3. \A i, j \in DOMAIN line' : i < j =>
        \E a, b \in DOMAIN line : a < b /\ line[a] = line'[i] /\ line[b] = line'[j]
  BY <1>2
<1>4. DOMAIN line' = 1..Len(line') /\ DOMAIN line = 1..Len(line) /\ Len(line') \in Nat /\ Len(line) \in Nat
  BY <1>1, LenProperties DEF Typed, TypeOK
<1>5. \A i \in DOMAIN line' : i \in Nat
  BY <1>4
<1>6. \A a \in DOMAIN line : a \in Nat
  BY <1>4
<1>7. ASSUME NEW i \in DOMAIN line', NEW j \in DOMAIN line', i < j
      PROVE  line'[i] # line'[j]
  <2>1. PICK a \in DOMAIN line, b \in DOMAIN line : a < b /\ line[a] = line'[i] /\ line[b] = line'[j]
    BY <1>3, <1>7
  <2>2. a # b
    BY <2>1, <1>6
  <2> QED BY <2>1, <2>2 DEF Places
<1>8. \A i, j \in DOMAIN line' : i # j => i < j \/ j < i
  BY <1>5
<1> QED BY <1>1, <1>3, <1>7, <1>8

LEMMA OrderShrinks ==
  ASSUME Inv, tick' = tick, faults' = faults, late' = late, Unwritten' = Unwritten,
         \A i, j \in DOMAIN line' : i < j =>
           \E a, b \in DOMAIN line : a < b /\ line[a] = line'[i] /\ line[b] = line'[j]
  PROVE  InOrder'
<1> SUFFICES ASSUME faults = 0, Admitting \/ tick.step \in {"stock", "count"},
                    NEW k \in DOMAIN tick.due, NEW j \in DOMAIN line', line'[j] = tick.due[k],
                    NEW i \in DOMAIN line', i < j
             PROVE  Ahead(line'[i], k) \/ line'[i] \in late \cup Unwritten
  BY DEF InOrder, Admitting, Ahead
<1>1. PICK a \in DOMAIN line, b \in DOMAIN line : a < b /\ line[a] = line'[i] /\ line[b] = line'[j]
  OBVIOUS
<1>2. Ahead(line[a], k) \/ line[a] \in late \cup Unwritten
  BY <1>1 DEF Inv, InOrder
<1> QED BY <1>1, <1>2

\* A session comes into being, with its score: nobody stands where it will.
LEMMA CreateSessionKeeps ==
  ASSUME Inv, NEW s \in Sessions, CreateSession(s)
  PROVE  Typed' /\ Aside(s) /\ Inv'
<1>1. Typed /\ Life(s)
  BY DEF Inv, Lives
<1>2. faults' \in 0..MaxFaults /\ faults' \in Nat /\ (faults' = 0 => faults = 0)
  BY <1>1, FaultFacts DEF CreateSession
<1>3. Typed'
  BY <1>1, <1>2 DEF CreateSession, HasStatus, Typed, TypeOK, Statuses, Ended
<1>4. \A t \in Sessions \ {s} : Same(t)
  BY <1>1 DEF CreateSession, HasStatus, Typed, TypeOK, Same
<1>5. Aside(s)
  BY <1>1, <1>2, <1>4
     DEF CreateSession, HasStatus, Aside, Moves, Life, Entered, Typed, TypeOK, Statuses, Ended
<1>6. Lives' /\ TurnInv' /\ RoomInv'
  BY <1>3, <1>5, AsideKeeps
<1>7. /\ Moves(s) /\ line' = line /\ tick' = tick /\ arriving' = arriving \cup {s} /\ late' = late
      /\ join[s] = "away" /\ ~Entered(s)
  BY <1>5 DEF CreateSession, Aside, Entered
<1>8. join' = [join EXCEPT ![s] = "created"] /\ join \in [Sessions -> {"away", "created", "added", "in", "failed"}]
  BY <1>1 DEF CreateSession, Typed, TypeOK
<1>9. Unwritten' = Unwritten \cup {s}
  BY <1>8 DEF Unwritten
<1>10. NotLost'
  <2> SUFFICES ASSUME NEW t \in Sessions, join'[t] \in {"added", "in"}
               PROVE  Placed(t)' \/ Out(t)'
    BY DEF NotLost
  <2>1. t # s /\ join[t] \in {"added", "in"}
    BY <1>8
  <2>2. Entered(t) /\ (Placed(t) \/ Out(t))
    BY <2>1 DEF Entered, Inv, NotLost
  <2>3. Placed(t) => Placed(t)'
    BY <1>7 DEF Placed, ToSet
  <2>4. Out(t) => Out(t)'
    BY <1>7, <2>2, MovesKeepOut
  <2> QED BY <2>2, <2>3, <2>4
<1>11. Places'
  <2>1. \A t \in Sessions : /\ t = s \/ join[t] # "away" => join'[t] # "away"
                            /\ Entered(t) => join'[t] \notin {"away", "created"}
    BY <1>7, <1>8 DEF Entered
  <2>2. s \notin ToSet(line) /\ s \notin ToSet(tick.due)
    BY <1>7 DEF Inv, Places
  <2>3. /\ arriving \subseteq Sessions /\ ToSet(line) \subseteq Sessions
        /\ ToSet(tick.due) \subseteq Sessions /\ tick.leaving \subseteq Sessions
    BY <1>1, Located
  <2>4. /\ \A t \in arriving' : join'[t] # "away" /\ t \notin ToSet(line) /\ t \notin ToSet(tick.due)
        /\ \A t \in ToSet(line) : join'[t] # "away"
        /\ \A t \in ToSet(tick.due) : join'[t] \notin {"away", "created"}
        /\ \A t \in tick.leaving : join'[t] \notin {"away", "created"}
    BY <1>7, <2>1, <2>2, <2>3 DEF Inv, Places
  <2>5. \A t \in Unwritten' : Placed(t)'
    BY <1>7, <1>9 DEF Inv, Places, Placed, ToSet
  <2>6. \A i, j \in DOMAIN line : line[i] = line[j] => i = j
    BY DEF Inv, Places
  <2> QED BY <1>7, <2>4, <2>5, <2>6 DEF Places, Entered, ToSet
<1>12. InOrder'
  BY <1>2, <1>7, <1>9 DEF Inv, InOrder, Ahead, Admitting
<1> QED BY <1>3, <1>5, <1>6, <1>10, <1>11, <1>12 DEF Inv

\* Its entry comes in, where its score says: if that is ahead of somebody the tick
\* has read, it is late.
LEMMA AddToQueueKeeps ==
  ASSUME Inv, NEW s \in Sessions, AddToQueue(s)
  PROVE  Typed' /\ Aside(s) /\ Inv'
<1>1. Typed /\ Life(s)
  BY DEF Inv, Lives
<1>2. faults' \in Nat /\ (faults' = 0 => faults = 0)
  BY <1>1, FaultFacts DEF AddToQueue
<1>3. Typed'
  BY <1>1 DEF AddToQueue, Fine, Typed, TypeOK
<1>4. \A t \in Sessions \ {s} : Same(t)
  BY <1>1 DEF AddToQueue, Typed, TypeOK, Same
<1>5. Aside(s)
  BY <1>1, <1>2, <1>4 DEF AddToQueue, Aside, Moves, Life, Entered, Typed, TypeOK, Statuses, Ended
<1>6. Lives' /\ TurnInv' /\ RoomInv'
  BY <1>3, <1>5, AsideKeeps
<1>7. /\ Moves(s) /\ line' = line /\ tick' = tick /\ arriving' = arriving
      /\ late' = late \cup ({s} \cap ToSet(line)) /\ join[s] = "created"
  BY <1>5 DEF AddToQueue, Aside
<1>8. join' = [join EXCEPT ![s] = "added"] /\ join \in [Sessions -> {"away", "created", "added", "in", "failed"}]
  BY <1>1 DEF AddToQueue, Typed, TypeOK
<1>9. Unwritten' = Unwritten \ {s} /\ s \in Unwritten
  BY <1>7, <1>8 DEF Unwritten
<1>10. \A t \in Sessions : Placed(t) => Placed(t)'
  BY <1>7 DEF Placed, ToSet
<1>11. NotLost'
  <2> SUFFICES ASSUME NEW t \in Sessions, join'[t] \in {"added", "in"}
               PROVE  Placed(t)' \/ Out(t)'
    BY DEF NotLost
  <2>1. CASE t = s
    BY <1>9, <1>10, <2>1 DEF Inv, Places
  <2>2. CASE t # s
    <3>1. Entered(t) /\ (Placed(t) \/ Out(t))
      BY <1>8, <2>2 DEF Entered, Inv, NotLost
    <3>2. Out(t) => Out(t)'
      BY <1>7, <3>1, MovesKeepOut
    <3> QED BY <1>10, <3>1, <3>2
  <2> QED BY <2>1, <2>2
<1>12. Places'
  <2>1. \A t \in Sessions : /\ join[t] # "away" => join'[t] # "away"
                            /\ Entered(t) => join'[t] \notin {"away", "created"}
    BY <1>8 DEF Entered
  <2>2. /\ arriving \subseteq Sessions /\ ToSet(line) \subseteq Sessions
        /\ ToSet(tick.due) \subseteq Sessions /\ tick.leaving \subseteq Sessions
    BY <1>1, Located
  <2>3. /\ \A t \in arriving : join'[t] # "away" /\ t \notin ToSet(line) /\ t \notin ToSet(tick.due)
        /\ \A t \in ToSet(line) : join'[t] # "away"
        /\ \A t \in ToSet(tick.due) : join'[t] \notin {"away", "created"}
        /\ \A t \in tick.leaving : join'[t] \notin {"away", "created"}
    BY <2>1, <2>2 DEF Inv, Places
  <2>4. \A t \in Unwritten' : Placed(t)'
    BY <1>9, <1>10 DEF Inv, Places, Unwritten
  <2>5. \A i, j \in DOMAIN line : line[i] = line[j] => i = j
    BY DEF Inv, Places
  <2> QED BY <1>7, <2>3, <2>4, <2>5 DEF Places, Entered, ToSet
<1>13. InOrder'
  <2>1. \A i \in DOMAIN line : line[i] \in late \cup Unwritten => line[i] \in late' \cup Unwritten'
    BY <1>7, <1>9 DEF ToSet
  <2> QED BY <1>2, <1>7, <2>1 DEF Inv, InOrder, Ahead, Admitting
<1> QED BY <1>3, <1>5, <1>6, <1>11, <1>12, <1>13 DEF Inv

\* A join that fails takes its place along, unless the entry is there already.
LEMMA JoinFailsKeeps ==
  ASSUME Inv, NEW s \in Sessions, JoinFails(s)
  PROVE  Typed' /\ Aside(s) /\ Inv'
<1>1. Typed /\ Life(s)
  BY DEF Inv, Lives
<1>2. faults' \in 0..MaxFaults /\ faults' \in Nat /\ faults' # 0
  BY <1>1, SizesAssumption DEF JoinFails, Fault, Typed, TypeOK
<1>3. /\ join' = [join EXCEPT ![s] = "failed"] /\ join \in [Sessions -> {"away", "created", "added", "in", "failed"}]
      /\ join[s] \in {"created", "added"} /\ tick' = tick /\ late' = late
  BY <1>1 DEF JoinFails, Typed, TypeOK
<1>4. \A t \in Sessions \ {s} : Same(t)
  BY <1>1 DEF JoinFails, Typed, TypeOK, Same
<1>5. Aside(s)
  BY <1>1, <1>2, <1>3, <1>4
     DEF JoinFails, Aside, Moves, Life, Out, CanAdmit, Entered, Typed, TypeOK, Statuses, Ended
<1>6. CASE join[s] = "added"
  <2>1. arriving' = arriving /\ line' = line
    BY <1>6 DEF JoinFails
  <2>2. Typed'
    BY <1>1, <1>2, <2>1 DEF JoinFails, Typed, TypeOK
  <2>3. Outside(s)
    BY <1>3, <1>5, <1>6, <2>1 DEF Outside
  <2> QED BY <1>5, <2>2, <2>3, OutsideKeeps
<1>7. CASE join[s] = "created"
  <2>1. arriving' = arriving \ {s} /\ line' = Without(line, {s})
    BY <1>7 DEF JoinFails
  <2>2. /\ line' \in Seq(Sessions) /\ ToSet(line') = ToSet(line) \ {s}
        /\ \A i, j \in DOMAIN line' : line'[i] = line'[j] => i = j
    BY <2>1, LineShrinks DEF Inv
  <2>3. Typed'
    BY <1>1, <1>2, <2>1, <2>2 DEF JoinFails, Typed, TypeOK
  <2>4. Lives' /\ TurnInv' /\ RoomInv'
    BY <1>5, <2>3, AsideKeeps
  <2>5. \A t \in Sessions : t # s /\ Placed(t) => Placed(t)'
    BY <2>1, <2>2 DEF Placed
  <2>6. NotLost'
    <3> SUFFICES ASSUME NEW t \in Sessions, join'[t] \in {"added", "in"}
                 PROVE  Placed(t)' \/ Out(t)'
      BY DEF NotLost
    <3>1. t # s /\ join[t] \in {"added", "in"}
      BY <1>3
    <3>2. Entered(t) /\ (Placed(t) \/ Out(t))
      BY <3>1 DEF Entered, Inv, NotLost
    <3>3. Out(t) => Out(t)'
      BY <1>5, <3>2, MovesKeepOut DEF Aside
    <3> QED BY <2>5, <3>1, <3>2, <3>3
  <2>7. Places'
    <3>1. \A t \in Sessions : /\ join[t] # "away" => join'[t] # "away"
                              /\ Entered(t) => join'[t] \notin {"away", "created"}
      BY <1>3 DEF Entered
    <3>2. /\ arriving \subseteq Sessions /\ ToSet(line) \subseteq Sessions
          /\ ToSet(tick.due) \subseteq Sessions /\ tick.leaving \subseteq Sessions
      BY <1>1, Located
    <3>3. /\ \A t \in arriving' : join'[t] # "away" /\ t \notin ToSet(line') /\ t \notin ToSet(tick.due)
          /\ \A t \in ToSet(line') : join'[t] # "away"
          /\ \A t \in ToSet(tick.due) : join'[t] \notin {"away", "created"}
          /\ \A t \in tick.leaving : join'[t] \notin {"away", "created"}
      BY <2>1, <2>2, <3>1, <3>2 DEF Inv, Places
    <3>4. Unwritten' = Unwritten \ {s}
      BY <1>3 DEF Unwritten
    <3>5. \A t \in Unwritten' : Placed(t)'
      BY <2>5, <3>4 DEF Inv, Places, Unwritten
    <3> QED BY <1>3, <2>2, <3>3, <3>5 DEF Places, Entered
  <2>8. InOrder'
    BY <1>2 DEF InOrder
  <2> QED BY <1>5, <2>3, <2>4, <2>6, <2>7, <2>8 DEF Inv
<1> QED BY <1>3, <1>6, <1>7

LEMMA LeaveLineKeeps ==
  ASSUME Inv, NEW s \in Sessions, LeaveLine(s)
  PROVE  Typed' /\ Aside(s) /\ Inv'
<1>1. Typed /\ Life(s)
  BY DEF Inv, Lives
<1>2. faults' \in Nat /\ (faults' = 0 => faults = 0) /\ faults' = faults
  BY <1>1, FaultFacts DEF LeaveLine, Fine
<1>3. /\ line' = Without(line, {s}) /\ tick' = tick /\ arriving' = arriving \ {s} /\ join' = join
      /\ late' = late /\ Unwritten' = Unwritten /\ s \notin Unwritten
  BY DEF LeaveLine, Unwritten
<1>4. /\ line' \in Seq(Sessions) /\ ToSet(line') = ToSet(line) \ {s}
      /\ \A i, j \in DOMAIN line' : line'[i] = line'[j] => i = j
      /\ \A i, j \in DOMAIN line' : i < j =>
           \E a, b \in DOMAIN line : a < b /\ line[a] = line'[i] /\ line[b] = line'[j]
  BY <1>3, LineShrinks DEF Inv
<1>5. Typed'
  BY <1>1, <1>4 DEF LeaveLine, LeaveGoes, Fine, Typed, TypeOK
<1>6. \A t \in Sessions \ {s} : Same(t)
  BY <1>1 DEF LeaveLine, LeaveGoes, Typed, TypeOK, Same
<1>7. Aside(s)
  BY <1>1, <1>2, <1>6 DEF LeaveLine, LeaveGoes, Aside, Moves, Life, Entered, Out, CanAdmit, Typed, TypeOK, Statuses, Ended
<1>8. Lives' /\ TurnInv' /\ RoomInv'
  BY <1>5, <1>7, AsideKeeps
<1>9. NotLost'
  <2> SUFFICES ASSUME NEW t \in Sessions, join'[t] \in {"added", "in"}
               PROVE  Placed(t)' \/ Out(t)'
    BY DEF NotLost
  <2>1. CASE t = s
    BY <1>1, <2>1 DEF LeaveLine, LeaveGoes, Out, Typed, TypeOK
  <2>2. CASE t # s
    <3>1. Entered(t) /\ (Placed(t) \/ Out(t))
      BY <1>3, <2>2 DEF Entered, Inv, NotLost
    <3>2. t \in arriving => t \in arriving'
      BY <1>3, <2>2
    <3>3. t \in ToSet(line) => t \in ToSet(line')
      BY <1>4, <2>2
    <3>4. Placed(t) => Placed(t)'
      BY <3>2, <3>3 DEF Placed, ToSet
    <3>5. Out(t) => Out(t)'
      BY <1>7, <3>1, MovesKeepOut DEF Aside
    <3> QED BY <3>1, <3>4, <3>5
  <2> QED BY <2>1, <2>2
<1>10. Places'
  <2>1. /\ \A t \in arriving' : join[t] # "away" /\ t \notin ToSet(line') /\ t \notin ToSet(tick.due)
        /\ \A t \in ToSet(line') : join[t] # "away"
        /\ \A t \in ToSet(tick.due) : join[t] \notin {"away", "created"}
        /\ \A t \in tick.leaving : join[t] \notin {"away", "created"}
    BY <1>3, <1>4 DEF Inv, Places, Entered
  <2>2. \A t \in Unwritten' : Placed(t)'
    BY <1>3, <1>4 DEF Inv, Places, Placed
  <2> QED BY <1>3, <1>4, <2>1, <2>2 DEF Places, Entered
<1>11. InOrder'
  BY <1>2, <1>3, <1>4, OrderShrinks
<1> QED BY <1>5, <1>7, <1>8, <1>9, <1>10, <1>11 DEF Inv

\* A step that moves entries only: no session's fields change.
Still == UNCHANGED <<rec, old, slots, window, join, leave, order, news, hear>>

LEMMA StillKeeps ==
  ASSUME Inv, Still, Typed',
         \A s \in Sessions : join[s] \in {"added", "in"} /\ Placed(s) => Placed(s)' \/ Out(s)
  PROVE  Lives' /\ NotLost'
<1>1. Lives'
  <2> SUFFICES ASSUME NEW s \in Sessions PROVE Life(s)'
    BY DEF Lives
  <2>1. Life(s)
    BY DEF Inv, Lives
  <2> QED BY <2>1 DEF Life, Still
<1>2. NotLost'
  <2> SUFFICES ASSUME NEW s \in Sessions, join'[s] \in {"added", "in"}
               PROVE  Placed(s)' \/ Out(s)'
    BY DEF NotLost
  <2>1. Placed(s)' \/ Out(s)
    BY DEF Inv, NotLost, Still
  <2>2. Out(s) => Out(s)'
    BY DEF Out, Still
  <2> QED BY <2>1, <2>2
<1> QED BY <1>1, <1>2

LEMMA NextSecondKeeps ==
  ASSUME Inv, NextSecond
  PROVE  Inv'
<1>1. Typed
  BY DEF Inv
<1>2. arriving \in SUBSET Sessions /\ IsFiniteSet(arriving) /\ line \in Seq(Sessions)
  BY <1>1, SessionsAssumption, FS_Subset DEF Typed, TypeOK
<1>3. PICK lot \in SetToSeqs(arriving) : line' = line \o lot
  BY DEF NextSecond
<1>4. lot \in Seq(Sessions) /\ ToSet(lot) = arriving /\ \A i, j \in DOMAIN lot : lot[i] = lot[j] => i = j
  BY <1>2, LotHoldsAll
<1> DEFINE n == Len(line)
           m == Len(lot)
<1>5. n \in Nat /\ m \in Nat /\ DOMAIN line = 1..n /\ DOMAIN lot = 1..m
  BY <1>2, <1>4, LenProperties
<1>6. /\ line' \in Seq(Sessions) /\ Len(line') = n + m
      /\ \A i \in 1..(n + m) : line'[i] = IF i <= n THEN line[i] ELSE lot[i - n]
  BY <1>2, <1>3, <1>4, ConcatProperties
<1>7. DOMAIN line' = 1..(n + m)
  BY <1>6, LenProperties
<1> HIDE DEF n, m
<1>8. \A i \in DOMAIN line : i \in DOMAIN line' /\ line'[i] = line[i] /\ i <= n
  BY <1>5, <1>6, <1>7
<1>9. \A i \in DOMAIN lot : i + n \in DOMAIN line' /\ line'[i + n] = lot[i]
  <2> SUFFICES ASSUME NEW i \in DOMAIN lot PROVE i + n \in DOMAIN line' /\ line'[i + n] = lot[i]
    OBVIOUS
  <2>1. i \in Nat /\ i + n \in 1..(n + m) /\ ~(i + n <= n) /\ (i + n) - n = i
    BY <1>5
  <2> QED BY <2>1, <1>6, <1>7
<1>10. \A i \in DOMAIN line' : (i \in DOMAIN line /\ i <= n) \/ (i - n \in DOMAIN lot /\ line'[i] = lot[i - n] /\ i > n)
  BY <1>5, <1>6, <1>7
<1>11. ToSet(line') = ToSet(line) \cup arriving
  <2>1. ASSUME NEW x \in ToSet(line') PROVE x \in ToSet(line) \cup ToSet(lot)
    <3>1. PICK i \in DOMAIN line' : x = line'[i]
      BY DEF ToSet
    <3> QED BY <3>1, <1>8, <1>10 DEF ToSet
  <2>2. ASSUME NEW x \in ToSet(line) PROVE x \in ToSet(line')
    <3>1. PICK i \in DOMAIN line : x = line[i]
      BY DEF ToSet
    <3> QED BY <3>1, <1>8 DEF ToSet
  <2>3. ASSUME NEW x \in ToSet(lot) PROVE x \in ToSet(line')
    <3>1. PICK i \in DOMAIN lot : x = lot[i]
      BY DEF ToSet
    <3> QED BY <3>1, <1>9 DEF ToSet
  <2> QED BY <2>1, <2>2, <2>3, <1>4
<1>12. \A i \in DOMAIN lot : lot[i] \in arriving
  BY <1>4 DEF ToSet
<1>13. \A i \in DOMAIN line : line[i] \in ToSet(line)
  BY DEF ToSet
<1>14. \A i, j \in DOMAIN line' : line'[i] = line'[j] => i = j
  <2> SUFFICES ASSUME NEW i \in DOMAIN line', NEW j \in DOMAIN line', line'[i] = line'[j] PROVE i = j
    OBVIOUS
  <2>1. CASE i \in DOMAIN line /\ j \in DOMAIN line
    BY <2>1, <1>8 DEF Inv, Places
  <2>2. CASE i \in DOMAIN line /\ j \notin DOMAIN line
    BY <2>2, <1>8, <1>10, <1>12, <1>13 DEF Inv, Places
  <2>3. CASE i \notin DOMAIN line /\ j \in DOMAIN line
    BY <2>3, <1>8, <1>10, <1>12, <1>13 DEF Inv, Places
  <2>4. CASE i \notin DOMAIN line /\ j \notin DOMAIN line
    <3>1. i - n = j - n
      BY <2>4, <1>10, <1>4
    <3>2. i \in Nat /\ j \in Nat /\ n \in Nat
      BY <1>5, <1>7
    <3> QED BY <3>1, <3>2
  <2> QED BY <2>1, <2>2, <2>3, <2>4
<1>15. arriving' = {} /\ tick' = tick /\ faults' = faults /\ late' = late /\ Still /\ Unwritten' = Unwritten
  BY DEF NextSecond, Fine, Still, Unwritten
<1>16. Typed'
  BY <1>1, <1>6 DEF NextSecond, Fine, Typed, TypeOK
<1>17. \A s \in Sessions : Placed(s) => Placed(s)'
  BY <1>11 DEF Placed
<1>18. Lives' /\ NotLost'
  BY <1>15, <1>16, <1>17, StillKeeps
<1>19. Places'
  <2>1. \A s \in ToSet(line') : join[s] # "away"
    BY <1>11 DEF Inv, Places
  <2>2. \A s \in Unwritten' : Placed(s)'
    BY <1>11, <1>15 DEF Inv, Places, Placed
  <2> QED BY <1>14, <1>15, <2>1, <2>2 DEF Inv, Places, Entered, Still
<1>20. TurnInv' /\ RoomInv'
  BY <1>15 DEF Inv, TurnInv, RoomInv, At, Turn, Out, CanAdmit, CountedIn, Admitting, Still
<1>21. InOrder'
  <2> SUFFICES ASSUME faults = 0, Admitting \/ tick.step \in {"stock", "count"},
                      NEW k \in DOMAIN tick.due, NEW j \in DOMAIN line', line'[j] = tick.due[k],
                      NEW i \in DOMAIN line', i < j
               PROVE  Ahead(line'[i], k) \/ line'[i] \in late \cup Unwritten
    BY <1>15 DEF InOrder, Admitting, Ahead
  <2>1. tick.due[k] \notin arriving
    BY DEF Inv, Places, ToSet
  <2>2. j \in DOMAIN line /\ j <= n
    BY <2>1, <1>10, <1>12
  <2>3. i \in DOMAIN line
    BY <2>2, <1>5, <1>7
  <2> QED BY <2>2, <2>3, <1>8 DEF Inv, InOrder
<1> QED BY <1>16, <1>18, <1>19, <1>20, <1>21 DEF Inv

LEMMA RemoveFromQueueKeeps ==
  ASSUME Inv, RemoveFromQueue
  PROVE  Inv'
<1>1. Typed
  BY DEF Inv
<1>2. line' = Without(line, tick.leaving) /\ arriving' = arriving \ tick.leaving /\ tick' = Resting
      /\ faults' = faults /\ Still /\ late' = late /\ Unwritten' = Unwritten
  BY DEF RemoveFromQueue, Fine, Still, Unwritten
<1>3. /\ line' \in Seq(Sessions) /\ ToSet(line') = ToSet(line) \ tick.leaving
      /\ \A i, j \in DOMAIN line' : line'[i] = line'[j] => i = j
  BY <1>2, LineShrinks DEF Inv
<1>4. /\ tick' \in Ticks /\ tick'.step = "idle" /\ tick'.due = <<>> /\ tick'.leaving = {}
      /\ tick'.avail = 0 /\ tick'.counted = FALSE
  BY <1>2, RestingFacts
<1>5. Typed'
  <2>1. 0 \in 0..Tickets /\ <<>> \in Seq(Sessions)
    BY SizesAssumption, EmptySeqFacts
  <2>2. tick'.due \in Seq(Sessions) /\ tick'.leaving \subseteq Sessions /\ tick'.avail \in 0..Tickets
    BY <1>4, <2>1
  <2> QED BY <1>1, <1>3, <1>4, <2>2 DEF RemoveFromQueue, Fine, Typed, TypeOK
<1>6. \A s \in Sessions : Placed(s) => Placed(s)' \/ Out(s)
  <2> SUFFICES ASSUME NEW s \in Sessions, Placed(s), s \notin tick.leaving PROVE Placed(s)'
    BY DEF Inv, TurnInv
  <2> QED BY <1>2, <1>3 DEF Placed
<1>7. Lives' /\ NotLost'
  BY <1>2, <1>5, <1>6, StillKeeps
<1>8. DOMAIN tick'.due = {} /\ ToSet(tick'.due) = {}
  BY <1>4, EmptySeqFacts
<1>9. Places'
  <2>1. /\ \A s \in arriving' : join[s] # "away" /\ s \notin ToSet(line') /\ s \notin ToSet(tick'.due)
        /\ \A s \in ToSet(line') : join[s] # "away"
    BY <1>2, <1>3, <1>8 DEF Inv, Places
  <2>2. \A s \in Unwritten' : Placed(s)'
    <3>1. \A s \in Unwritten : s \notin tick.leaving
      BY DEF Inv, Places, Unwritten, Entered
    <3> QED BY <1>2, <1>3, <3>1 DEF Inv, Places, Placed
  <2> QED BY <1>2, <1>3, <1>4, <1>8, <2>1, <2>2 DEF Places, Entered, Still
<1>10. TurnInv' /\ InOrder'
  BY <1>4, <1>8 DEF TurnInv, InOrder, At
<1>11. RoomInv'
  BY <1>2, <1>4 DEF Inv, RoomInv, CountedIn, Still
<1> QED BY <1>5, <1>7, <1>9, <1>10, <1>11 DEF Inv

-----------------------------------------------------------------------------
(***************************************************************************)
(* Steps of the tick                                                       *)
(***************************************************************************)
LEMMA NextTurnFacts ==
  ASSUME Typed, tick.due # <<>>, NEW step \in {"get", "close", "dead"}, NEW left \in SUBSET {Turn},
         NextTurn(step, left)
  PROVE  /\ tick' \in Ticks /\ tick'.due = Tail(tick.due) /\ tick'.leaving = tick.leaving \cup left
         /\ tick'.avail = tick.avail /\ tick'.counted = tick.counted /\ tick'.step \in {"remove", step}
         /\ tick'.due \in Seq(Sessions) /\ Len(tick'.due) = Len(tick.due) - 1
         /\ \A k \in DOMAIN tick'.due : k + 1 \in DOMAIN tick.due /\ tick'.due[k] = tick.due[k + 1]
         /\ ToSet(tick'.due) \subseteq ToSet(tick.due)
<1>1. tick \in Ticks /\ tick.due \in Seq(Sessions) /\ tick.leaving \subseteq Sessions /\ tick.avail \in 0..Tickets
  BY DEF Typed, TypeOK
<1>2. Turn \in Sessions /\ Len(tick.due) \in Nat \ {0} /\ DOMAIN tick.due = 1..Len(tick.due)
  BY TurnFacts
<1>3. /\ Tail(tick.due) \in Seq(Sessions) /\ Len(Tail(tick.due)) = Len(tick.due) - 1
      /\ \A k \in 1..Len(Tail(tick.due)) : Tail(tick.due)[k] = tick.due[k + 1]
  BY <1>1, HeadTailProperties
<1>4. /\ tick'.due = Tail(tick.due) /\ tick'.leaving = tick.leaving \cup left
      /\ tick'.avail = tick.avail /\ tick'.counted = tick.counted /\ tick'.step \in {"remove", step}
  BY <1>1 DEF NextTurn, Ticks
<1>5. tick' \in Ticks
  <2>1. tick.leaving \cup left \in SUBSET Sessions
    BY <1>1, <1>2
  <2> QED BY <1>1, <1>3, <2>1 DEF NextTurn, Ticks, Steps
<1>6. DOMAIN Tail(tick.due) = 1..(Len(tick.due) - 1)
  BY <1>3, LenProperties
<1>7. \A k \in DOMAIN Tail(tick.due) : k + 1 \in DOMAIN tick.due /\ Tail(tick.due)[k] = tick.due[k + 1]
  BY <1>2, <1>3, <1>6
<1>8. ToSet(Tail(tick.due)) \subseteq ToSet(tick.due)
  BY <1>7 DEF ToSet
<1> QED BY <1>3, <1>4, <1>5, <1>7, <1>8

LEMMA GoesFacts ==
  ASSUME Typed, NEW step \in Steps, Goes(step)
  PROVE  /\ tick' \in Ticks /\ tick'.due = tick.due /\ tick'.leaving = tick.leaving
         /\ tick'.avail = tick.avail /\ tick'.counted = tick.counted /\ tick'.step = step
BY DEF Typed, Ticks, Goes

\* The fields of the sessions and their places, after a step of the tick alone.
TickStep ==
  /\ Still /\ line' = line /\ arriving' = arriving /\ active' = active /\ banned' = banned
  /\ late' \in {late, {}}
  /\ Fine \/ Fault

LEMMA TickOnlySteps ==
  ASSUME TickOnly, Fine \/ Fault
  PROVE  TickStep /\ late' = late
BY DEF TickOnly, stored, TickStep, Still

LEMMA TickStepKeeps ==
  ASSUME Inv, TickStep, tick' \in Ticks,
         \A s \in ToSet(tick'.due) : s \in ToSet(tick.due) \/ s \in ToSet(Queue),
         \A s \in tick'.leaving : s \in tick.leaving \/ Entered(s)
  PROVE  /\ Typed' /\ Lives' /\ NotLost' /\ Places'
         /\ CountedIn' = CountedIn /\ (faults' = 0 => faults = 0)
<1>1. Typed
  BY DEF Inv
<1>2. faults' \in 0..MaxFaults /\ faults' \in Nat /\ (faults' = 0 => faults = 0)
  BY <1>1, FaultFacts DEF TickStep
<1>3. tick'.due \in Seq(Sessions) /\ tick'.leaving \subseteq Sessions /\ tick'.avail \in 0..Tickets
  BY DEF Ticks
<1>4. Typed'
  BY <1>1, <1>2, <1>3 DEF Typed, TypeOK, TickStep, Still
<1>5. Still /\ line' = line /\ arriving' = arriving
  BY DEF TickStep
<1>6. \A s \in Sessions : Placed(s) => Placed(s)'
  BY <1>5 DEF Placed, ToSet
<1>7. Lives' /\ NotLost'
  BY <1>4, <1>5, <1>6, StillKeeps
<1>8. Places'
  <2>1. \A s \in ToSet(tick'.due) : s \notin arriving /\ Entered(s)
    BY QueueFacts DEF Inv, Places
  <2>2. /\ \A s \in arriving : join[s] # "away" /\ s \notin ToSet(line) /\ s \notin ToSet(tick'.due)
        /\ \A s \in ToSet(line) : join[s] # "away"
        /\ \A s \in Unwritten : Placed(s)
        /\ \A s \in tick'.leaving : Entered(s)
        /\ \A i, j \in DOMAIN line : line[i] = line[j] => i = j
    BY <2>1 DEF Inv, Places
  <2> QED BY <1>5, <2>1, <2>2 DEF Places, Entered, Still, Unwritten, Placed, ToSet
<1>9. CountedIn' = CountedIn
  BY <1>5 DEF CountedIn, Still
<1> QED BY <1>2, <1>4, <1>7, <1>8, <1>9

\* The turn passes on: the next one stands behind nobody who is not done with.
LEMMA NextTurnOrder ==
  ASSUME Inv, tick.due # <<>>, line' = line, late' = late, join' = join,
         NEW step \in {"get", "close", "dead"}, NEW left \in SUBSET {Turn},
         NextTurn(step, left), step = "get" => Admitting,
         faults' = 0 => faults = 0 /\ (step = "get" => left = {Turn})
  PROVE  InOrder'
<1> SUFFICES ASSUME faults' = 0, Admitting' \/ tick'.step \in {"stock", "count"},
                    NEW k \in DOMAIN tick'.due, NEW j \in DOMAIN line, line[j] = tick'.due[k],
                    NEW i \in DOMAIN line, i < j
             PROVE  Ahead(line[i], k)' \/ line[i] \in late \cup Unwritten
  BY DEF InOrder, Ahead, Unwritten
<1>1. Typed
  BY DEF Inv
<1>2. /\ tick'.due = Tail(tick.due) /\ tick'.leaving = tick.leaving \cup left /\ tick'.step \in {"remove", step}
      /\ \A l \in DOMAIN tick'.due : l + 1 \in DOMAIN tick.due /\ tick'.due[l] = tick.due[l + 1]
      /\ tick'.due \in Seq(Sessions) /\ Len(tick'.due) = Len(tick.due) - 1
  BY <1>1, NextTurnFacts
<1>3. step = "get" /\ Admitting /\ faults = 0 /\ left = {Turn}
  BY <1>2 DEF Admitting
<1>4. k + 1 \in DOMAIN tick.due /\ line[j] = tick.due[k + 1]
  BY <1>2
<1>5. Ahead(line[i], k + 1) \/ line[i] \in late \cup Unwritten
  BY <1>3, <1>4 DEF Inv, InOrder
<1>6. Turn = tick.due[1] /\ Len(tick.due) \in Nat \ {0} /\ DOMAIN tick.due = 1..Len(tick.due)
  BY <1>1, TurnFacts
<1>7. DOMAIN tick'.due = 1..(Len(tick.due) - 1)
  BY <1>2, LenProperties
<1>8. CASE line[i] \in tick.leaving
  BY <1>8, <1>2 DEF Ahead
<1>9. CASE line[i] \notin tick.leaving /\ line[i] \notin late \cup Unwritten
  <2>1. PICK m \in DOMAIN tick.due : m < k + 1 /\ line[i] = tick.due[m]
    BY <1>5, <1>9 DEF Ahead
  <2>2. CASE m = 1
    BY <2>1, <2>2, <1>2, <1>3, <1>6 DEF Ahead
  <2>3. CASE m # 1
    <3>1. m - 1 \in DOMAIN tick'.due /\ m - 1 < k /\ (m - 1) + 1 = m
      BY <2>1, <2>3, <1>6, <1>7
    <3>2. line[i] = tick'.due[m - 1]
      BY <2>1, <3>1, <1>2
    <3> QED BY <3>1, <3>2 DEF Ahead
  <2> QED BY <2>2, <2>3
<1> QED BY <1>8, <1>9

LEMMA FirstOnesFacts ==
  ASSUME NEW S, NEW seq \in Seq(S), NEW n \in Nat
  PROVE  LET first == FirstOnes(n, seq)
         IN  /\ first \in Seq(S) /\ Len(first) = IF n < Len(seq) THEN n ELSE Len(seq)
             /\ \A k \in DOMAIN first : k \in DOMAIN seq /\ first[k] = seq[k]
             /\ DOMAIN first = 1..Len(first)
             /\ ToSet(first) \subseteq ToSet(seq)
<1> DEFINE c == IF n < Len(seq) THEN n ELSE Len(seq)
           first == FirstOnes(n, seq)
<1>1. Len(seq) \in Nat /\ DOMAIN seq = 1..Len(seq)
  BY LenProperties
<1>2. c \in Nat /\ c <= Len(seq) /\ (c = IF 1 <= c THEN c - 1 + 1 ELSE 0)
  BY <1>1
<1>3. first = SubSeq(seq, 1, c)
  BY DEF FirstOnes
<1> HIDE DEF c, first
<1>4. \A i \in 1..c : seq[i] \in S
  BY <1>1, <1>2, ElementOfSeq
<1>5. /\ first \in Seq(S) /\ Len(first) = IF 1 <= c THEN c - 1 + 1 ELSE 0
      /\ \A i \in 1..(c - 1 + 1) : first[i] = seq[1 + i - 1]
  BY <1>2, <1>3, <1>4, SubSeqProperties
<1>6. Len(first) = c /\ DOMAIN first = 1..c
  BY <1>2, <1>5, LenProperties
<1>7. \A k \in DOMAIN first : k \in DOMAIN seq /\ first[k] = seq[k]
  BY <1>1, <1>2, <1>5, <1>6
<1>8. ToSet(first) \subseteq ToSet(seq)
  BY <1>7 DEF ToSet
<1> QED BY <1>5, <1>6, <1>7, <1>8 DEF c, first

\* What still has to be said of a step of the tick alone.
LEMMA TickStepInv ==
  ASSUME Inv, TickStep, tick' \in Ticks,
         \A s \in ToSet(tick'.due) : s \in ToSet(tick.due) \/ s \in ToSet(Queue),
         \A s \in tick'.leaving : s \in tick.leaving \/ (Entered(s) /\ Out(s) /\ ~CanAdmit(s)),
         tick'.due # <<>> /\ tick'.step \in {"token", "closing"}
           => rec[Head(tick'.due)] \in {"queued", "abandoned", "gone"} /\ order[Head(tick'.due)] = "none",
         tick'.due # <<>> /\ tick'.step \in {"holding", "claim"} => window[Head(tick'.due)] # "none",
         tick'.counted /\ Admitting' => Cardinality(CountedIn) + Len(tick'.due) <= Tickets,
         InOrder'
  PROVE  Inv'
<1>1. /\ Typed' /\ Lives' /\ NotLost' /\ Places'
      /\ CountedIn' = CountedIn
  BY TickStepKeeps
<1>2. Still
  BY DEF TickStep
<1>3. TurnInv'
  <2>1. \A s \in tick'.leaving : Out(s) /\ ~CanAdmit(s)
    BY DEF Inv, TurnInv
  <2>2. (\A s \in tick.leaving : Out(s) /\ ~CanAdmit(s))'
    BY <1>2, <2>1 DEF Out, CanAdmit, Still
  <2>3. /\ (At("token") \/ At("closing"))' => (rec[Turn] \in {"queued", "abandoned", "gone"} /\ order[Turn] = "none")'
        /\ (At("holding") \/ At("claim"))' => (window[Turn] # "none")'
    BY <1>2 DEF At, Turn, Still
  <2> QED BY <2>2, <2>3 DEF TurnInv
<1>4. RoomInv'
  BY <1>1 DEF Inv, RoomInv
<1> QED BY <1>1, <1>3, <1>4 DEF Inv

LEMMA NextTurnKeeps ==
  ASSUME Inv, TickStep, late' = late, tick.due # <<>>,
         NEW step \in {"get", "close", "dead"}, NEW left \in SUBSET {Turn}, NextTurn(step, left),
         step = "get" => Admitting,
         step = "get" /\ faults' = 0 => left = {Turn},
         left = {} \/ (Out(Turn) /\ ~CanAdmit(Turn))
  PROVE  Inv'
<1>1. Typed
  BY DEF Inv
<1>2. /\ tick' \in Ticks /\ tick'.leaving = tick.leaving \cup left
      /\ tick'.counted = tick.counted /\ tick'.step \in {"remove", step}
      /\ Len(tick'.due) = Len(tick.due) - 1
      /\ ToSet(tick'.due) \subseteq ToSet(tick.due)
  BY <1>1, NextTurnFacts
<1>3. Turn \in ToSet(tick.due) /\ Len(tick.due) \in Nat
  BY <1>1, TurnFacts
<1>4. faults' = 0 => faults = 0
  BY <1>1, FaultFacts DEF TickStep
<1>5. InOrder'
  BY <1>4, NextTurnOrder DEF TickStep, Still
<1>6. ASSUME NEW s \in tick'.leaving, s \notin tick.leaving
      PROVE  Entered(s) /\ Out(s) /\ ~CanAdmit(s)
  <2>1. s = Turn /\ Out(Turn) /\ ~CanAdmit(Turn)
    BY <1>2, <1>6
  <2>2. Entered(Turn)
    BY <1>3 DEF Inv, Places
  <2> QED BY <2>1, <2>2
<1>7. tick'.counted /\ Admitting' => Cardinality(CountedIn) + Len(tick'.due) <= Tickets
  <2>1. ASSUME tick'.counted, Admitting'
        PROVE  Cardinality(CountedIn) + Len(tick.due) <= Tickets
    BY <1>2, <2>1 DEF Inv, RoomInv, Admitting
  <2>2. Cardinality(CountedIn) \in Nat /\ Tickets \in Nat
    BY <1>1, CountedType, SizesAssumption
  <2> QED BY <1>2, <1>3, <2>1, <2>2
<1> QED BY <1>2, <1>5, <1>6, <1>7, TickStepInv

LEMMA GoesKeeps ==
  ASSUME Inv, TickStep, late' = late, NEW step \in Steps, Goes(step),
         tick.due # <<>> /\ step \in {"token", "closing"}
           => rec[Turn] \in {"queued", "abandoned", "gone"} /\ order[Turn] = "none",
         tick.due # <<>> /\ step \in {"holding", "claim"} => window[Turn] # "none",
         step \in {"get", "token", "holding", "claim"} => Admitting,
         step # "stock" /\ (step = "count" => tick.step = "stock")
  PROVE  Inv'
<1>1. Typed
  BY DEF Inv
<1>2. /\ tick' \in Ticks /\ tick'.due = tick.due /\ tick'.leaving = tick.leaving
      /\ tick'.counted = tick.counted /\ tick'.step = step
  BY <1>1, GoesFacts
<1>3. faults' = 0 => faults = 0
  BY <1>1, FaultFacts DEF TickStep
<1>4. InOrder'
  BY <1>2, <1>3 DEF Inv, InOrder, Ahead, Admitting, TickStep, Still, Unwritten
<1>5. tick'.counted /\ Admitting' => Cardinality(CountedIn) + Len(tick'.due) <= Tickets
  BY <1>2 DEF Inv, RoomInv, Admitting
<1>6. tick'.due # <<>> /\ tick'.step \in {"token", "closing"}
        => rec[Head(tick'.due)] \in {"queued", "abandoned", "gone"} /\ order[Head(tick'.due)] = "none"
  BY <1>2 DEF Turn
<1>7. tick'.due # <<>> /\ tick'.step \in {"holding", "claim"} => window[Head(tick'.due)] # "none"
  BY <1>2 DEF Turn
<1> QED BY <1>2, <1>4, <1>5, <1>6, <1>7, TickStepInv

LEMMA RestKeeps ==
  ASSUME Inv, TickStep, tick' = Resting
  PROVE  Inv'
<1>1. tick' \in Ticks /\ tick'.step = "idle" /\ tick'.due = <<>> /\ tick'.leaving = {}
  BY RestingFacts
<1>2. DOMAIN tick'.due = {} /\ ToSet(tick'.due) = {}
  BY <1>1, EmptySeqFacts
<1>3. InOrder'
  BY <1>1, <1>2 DEF InOrder
<1> QED BY <1>1, <1>2, <1>3, TickStepInv DEF Admitting

LEMMA PeekQueueKeeps ==
  ASSUME Inv, PeekQueue
  PROVE  TickStep /\ Inv'
<1> DEFINE first == FirstOnes(BatchSize, Queue)
<1>1. Typed /\ BatchSize \in Nat /\ Queue \in Seq(Sessions)
  BY SizesAssumption, QueueFacts DEF Inv
<1>2. /\ first \in Seq(Sessions) /\ \A k \in DOMAIN first : k \in DOMAIN Queue /\ first[k] = Queue[k]
      /\ DOMAIN first = 1..Len(first) /\ ToSet(first) \subseteq ToSet(Queue) /\ Len(first) \in Nat
  BY <1>1, FirstOnesFacts, LenProperties
<1>3. tick' = [Resting EXCEPT !.step = "stock", !.due = first] /\ late' = {} /\ faults' = faults
  BY DEF PeekQueue, Fine
<1>4. TickStep
  BY <1>3 DEF PeekQueue, TickStep, Still
<1> HIDE DEF first
<1>5. /\ tick'.step = "stock" /\ tick'.due = first /\ tick'.leaving = {} /\ tick'.avail = 0 /\ tick'.counted = FALSE
      /\ tick' = [step |-> "stock", due |-> first, leaving |-> {}, avail |-> 0, counted |-> FALSE]
  BY <1>3 DEF Resting
<1>6. 0 \in 0..Tickets
  BY SizesAssumption
<1>7. tick' \in Ticks
  BY <1>2, <1>5, <1>6 DEF Ticks, Steps
<1>8. InOrder'
  <2> SUFFICES ASSUME NEW k \in DOMAIN first, NEW j \in DOMAIN line, line[j] = first[k],
                      NEW i \in DOMAIN line, i < j, line[i] \notin Unwritten
               PROVE  \E m \in DOMAIN first : m < k /\ line[i] = first[m]
    BY <1>4, <1>5 DEF InOrder, Ahead, TickStep, Still, Unwritten
  <2>1. k \in DOMAIN Queue /\ Queue[k] = line[j]
    BY <1>2
  <2>2. PICK m \in DOMAIN Queue : m < k /\ Queue[m] = line[i]
    BY <2>1, QueueFacts
  <2>3. DOMAIN Queue = 1..Len(Queue) /\ Len(Queue) \in Nat
    BY <1>1, LenProperties
  <2>4. m \in DOMAIN first
    BY <1>2, <2>2, <2>3
  <2> QED BY <1>2, <2>2, <2>4
<1> QED BY <1>2, <1>4, <1>5, <1>7, <1>8, TickStepInv DEF Admitting

LEMMA StockFacts == Sold \in Nat /\ Held \in Nat
<1>1. {s \in Sessions : order[s] = "completed"} \in SUBSET Sessions /\ {s \in Sessions : order[s] = "holding"} \in SUBSET Sessions
  OBVIOUS
<1> QED BY <1>1, SessionsAssumption, FS_Subset, FS_CardinalityType DEF Sold, Held

LEMMA AskStockKeeps ==
  ASSUME Inv, AskStock
  PROVE  TickStep /\ Inv'
<1>1. Typed /\ TickStep /\ late' = late /\ tick \in Ticks /\ Queue \in Seq(Sessions) /\ tick.step = "stock"
  BY TickOnlySteps, QueueFacts DEF Inv, AskStock, At, Typed
<1>2. (\A a, b, t \in Nat : a < t /\ ~(t - a - b <= 0) => t - a - b \in 0..t)
  OBVIOUS
<1>3. CASE Door = "count"
  <2>1. ~(Sold >= Tickets) /\ ~(Sold < Tickets /\ Available <= 0)
    BY <1>3 DEF Door
  <2>2. Tickets \in Nat
    BY SizesAssumption
  <2>3. Available \in 0..Tickets
    BY <1>2, <2>1, <2>2, StockFacts DEF Available
  <2>4. tick' = [tick EXCEPT !.step = "count", !.avail = Available, !.counted = TRUE]
    BY <1>3 DEF AskStock
  <2>5. /\ tick' \in Ticks /\ tick'.step = "count" /\ tick'.due = tick.due /\ tick'.leaving = tick.leaving
    BY <1>1, <2>3, <2>4 DEF Ticks, Steps
  <2>6. faults' = 0 => faults = 0
    BY <1>1, FaultFacts DEF TickStep
  <2>7. InOrder'
    BY <1>1, <2>5, <2>6 DEF Inv, InOrder, Ahead, Admitting, TickStep, Still, Unwritten
  <2> QED BY <1>1, <2>5, <2>7, TickStepInv DEF Admitting
<1>4. CASE Door # "count"
  <2>1. Door \in {"close", "dead"}
    <3>1. Sold >= Tickets \/ (Sold < Tickets /\ Available <= 0)
      BY <1>4 DEF Door
    <3>2. Sold \in Nat /\ Tickets \in Nat /\ ~(Sold >= Tickets /\ Sold < Tickets)
      BY StockFacts, SizesAssumption
    <3> QED BY <3>1, <3>2 DEF Door
  <2>2. tick' = [tick EXCEPT !.step = IF Queue = <<>> THEN "remove" ELSE Door, !.due = Queue]
    BY <1>4 DEF AskStock
  <2>3. /\ tick' \in Ticks /\ tick'.step \in {"remove", "close", "dead"} /\ tick'.due = Queue
        /\ tick'.leaving = tick.leaving
    BY <1>1, <2>1, <2>2 DEF Ticks, Steps
  <2>4. InOrder'
    BY <2>3 DEF InOrder, Admitting
  <2> QED BY <1>1, <2>3, <2>4, TickStepInv DEF Admitting
<1> QED BY <1>1, <1>3, <1>4

LEMMA CountRoomKeeps ==
  ASSUME Inv, CountRoom
  PROVE  TickStep /\ Inv'
<1> DEFINE n == AdmitCount(Len(tick.due), Cardinality(Inside))
           first == FirstOnes(n, tick.due)
<1>1. Typed /\ TickStep /\ late' = late /\ tick \in Ticks /\ tick.due \in Seq(Sessions) /\ tick.step = "count"
      /\ tick.avail \in 0..Tickets /\ tick.due # <<>>
  BY TickOnlySteps DEF Inv, CountRoom, At, Typed, TypeOK
<1>2. IsFiniteSet(Inside) /\ Cardinality(Inside) \in Nat
  <2>1. Inside \in SUBSET Sessions
    BY DEF Inside
  <2> QED BY <2>1, SessionsAssumption, FS_Subset, FS_CardinalityType
<1>3. Cardinality(CountedIn) \in Nat /\ Cardinality(CountedIn) <= Cardinality(Inside)
  <2>1. CountedIn \in SUBSET Inside
    BY DEF CountedIn, Inside
  <2> QED BY <1>2, <2>1, FS_Subset, CountedType
<1>4. Len(tick.due) \in Nat /\ Tickets \in Nat /\ tick.avail \in Nat /\ tick.avail <= Tickets
  BY <1>1, LenProperties, SizesAssumption
<1>5. n \in Nat /\ (tick.counted => n = 0 \/ n + Cardinality(Inside) <= tick.avail)
  <2>1. \A l, c, a \in Nat : LET room == a - c IN
          /\ (IF room < 0 THEN 0 ELSE IF room < l THEN room ELSE l) \in Nat
          /\ (IF room < 0 THEN 0 ELSE IF room < l THEN room ELSE l) # 0
               => (IF room < 0 THEN 0 ELSE IF room < l THEN room ELSE l) + c <= a
    OBVIOUS
  <2> QED BY <1>2, <1>4, <2>1 DEF AdmitCount
<1>6. tick' = IF n = 0 THEN Resting ELSE [tick EXCEPT !.step = "get", !.due = first, !.avail = 0]
  BY DEF CountRoom
<1> HIDE DEF n
<1>7. /\ first \in Seq(Sessions) /\ \A k \in DOMAIN first : k \in DOMAIN tick.due /\ first[k] = tick.due[k]
      /\ DOMAIN first = 1..Len(first) /\ ToSet(first) \subseteq ToSet(tick.due)
      /\ Len(first) \in Nat /\ Len(first) <= n
  <2>1. /\ first \in Seq(Sessions) /\ \A k \in DOMAIN first : k \in DOMAIN tick.due /\ first[k] = tick.due[k]
        /\ DOMAIN first = 1..Len(first) /\ ToSet(first) \subseteq ToSet(tick.due)
        /\ Len(first) = IF n < Len(tick.due) THEN n ELSE Len(tick.due)
    BY <1>1, <1>5, FirstOnesFacts
  <2> QED BY <1>4, <1>5, <2>1
<1> HIDE DEF first
<1>8. CASE n = 0
  BY <1>1, <1>6, <1>8, RestKeeps
<1>9. CASE n # 0
  <2>1. /\ tick'.step = "get" /\ tick'.due = first /\ tick'.leaving = tick.leaving
        /\ tick'.avail = 0 /\ tick'.counted = tick.counted
    BY <1>1, <1>6, <1>9 DEF Ticks
  <2>2. 0 \in 0..Tickets
    BY <1>4
  <2>3. tick' \in Ticks
    BY <1>1, <1>6, <1>7, <1>9, <2>2 DEF Ticks, Steps
  <2>4. tick'.counted => Cardinality(CountedIn) + Len(first) <= Tickets
    BY <1>2, <1>3, <1>4, <1>5, <1>7, <1>9, <2>1
  <2>5. faults' = 0 => faults = 0
    BY <1>1, FaultFacts DEF TickStep
  <2>6. InOrder'
    <3> SUFFICES ASSUME faults = 0, NEW k \in DOMAIN first, NEW j \in DOMAIN line, line[j] = first[k],
                        NEW i \in DOMAIN line, i < j, line[i] \notin tick.leaving,
                        line[i] \notin late \cup Unwritten
                 PROVE  \E m \in DOMAIN first : m < k /\ line[i] = first[m]
      BY <1>1, <2>1, <2>5 DEF InOrder, Ahead, TickStep, Still, Unwritten
    <3>1. Ahead(line[i], k)
      BY <1>1, <1>7 DEF Inv, InOrder
    <3>2. PICK m \in DOMAIN tick.due : m < k /\ line[i] = tick.due[m]
      BY <3>1 DEF Ahead
    <3>3. DOMAIN tick.due = 1..Len(tick.due)
      BY <1>1, LenProperties
    <3>4. m \in DOMAIN first
      BY <1>4, <1>7, <3>2, <3>3
    <3> QED BY <1>7, <3>2, <3>4
  <2> QED BY <1>1, <1>7, <2>1, <2>3, <2>4, <2>6, TickStepInv DEF Admitting
<1> QED BY <1>1, <1>8, <1>9

LEMMA ReadSessionKeeps ==
  ASSUME Inv, ReadSession
  PROVE  TickStep /\ Inv'
<1>1. Typed /\ TickStep /\ late' = late /\ tick.step = "get" /\ tick.due # <<>> /\ Admitting
  BY TickOnlySteps DEF Inv, ReadSession, At, Admitting
<1>2. Turn \in Sessions /\ Life(Turn)
  BY <1>1, TurnFacts DEF Inv, Lives
<1>3. CASE CanAdmit(Turn) /\ Goes("token")
  <2>1. rec[Turn] \in {"queued", "abandoned", "gone"} /\ order[Turn] = "none"
    BY <1>2, <1>3 DEF CanAdmit, Life
  <2> QED BY <1>1, <1>3, <2>1, GoesKeeps DEF Steps
<1>4. CASE CanResume(Turn) /\ Goes("holding")
  <2>1. window[Turn] # "none"
    BY <1>4 DEF CanResume
  <2> QED BY <1>1, <1>4, <2>1, GoesKeeps DEF Steps
<1>5. CASE ~CanAdmit(Turn) /\ ~CanResume(Turn) /\ Settled
  <2>1. window[Turn] \in {"none", "open", "over"}
    BY <1>1, <1>2 DEF Typed, TypeOK
  <2>2. Out(Turn)
    BY <1>2, <1>5, <2>1 DEF Out, CanAdmit, CanResume, Life
  <2>3. NextTurn("get", {Turn})
    BY <1>5 DEF Settled
  <2> QED BY <1>1, <1>5, <2>2, <2>3, NextTurnKeeps
<1> QED BY <1>1, <1>3, <1>4, <1>5 DEF ReadSession

LEMMA IsProcessingKeeps ==
  ASSUME Inv, IsProcessing
  PROVE  TickStep /\ Inv'
<1>1. Typed /\ TickStep /\ late' = late /\ At("holding") /\ tick.due # <<>> /\ Admitting
  BY TickOnlySteps DEF Inv, IsProcessing, At, Admitting
<1>2. Turn \in Sessions /\ Life(Turn) /\ window[Turn] # "none"
  BY <1>1, TurnFacts DEF Inv, Lives, TurnInv
<1>3. CASE slots[Turn] # "none"
  <2>1. Out(Turn) /\ ~CanAdmit(Turn)
    BY <1>2, <1>3 DEF Out, CanAdmit, Life
  <2>2. NextTurn("get", {Turn})
    BY <1>3 DEF IsProcessing, Settled
  <2> QED BY <1>1, <2>1, <2>2, NextTurnKeeps
<1>4. CASE slots[Turn] = "none"
  <2>1. Goes("claim")
    BY <1>4 DEF IsProcessing
  <2> QED BY <1>1, <1>2, <2>1, GoesKeeps DEF Steps
<1> QED BY <1>1, <1>3, <1>4

LEMMA FailingTickKeeps ==
  ASSUME Inv, StockUnanswered \/ AdmissionFails \/ TickDies
  PROVE  TickStep /\ Inv'
<1>1. Typed /\ TickStep /\ late' = late /\ Fault
  BY TickOnlySteps DEF Inv, StockUnanswered, AdmissionFails, TickDies
<1>2. faults' # 0
  BY <1>1, SizesAssumption DEF Fault, Typed, TypeOK
<1>3. CASE StockUnanswered
  <2>1. tick.step = "stock" /\ Goes("count")
    BY <1>3 DEF StockUnanswered, At
  <2> QED BY <1>1, <2>1, GoesKeeps DEF Steps
<1>4. CASE AdmissionFails
  <2>1. Admitting /\ tick.due # <<>>
    BY <1>4 DEF AdmissionFails, At, Admitting
  <2>2. CASE Goes("get")
    BY <1>1, <2>1, <2>2, GoesKeeps DEF Steps
  <2>3. CASE NextTurn("get", {})
    BY <1>1, <1>2, <2>1, <2>3, NextTurnKeeps
  <2> QED BY <1>1, <1>4, <2>2, <2>3 DEF AdmissionFails
<1>5. CASE TickDies
  BY <1>1, <1>5, RestKeeps DEF TickDies
<1> QED BY <1>3, <1>4, <1>5

LEMMA ClosingKeeps ==
  ASSUME Inv, ReadWhileClosing \/ DropDeadHead
  PROVE  TickStep /\ Inv'
<1>1. Typed /\ TickStep /\ late' = late /\ tick.due # <<>>
  BY TickOnlySteps DEF Inv, ReadWhileClosing, DropDeadHead, At
<1>2. Turn \in Sessions /\ Life(Turn)
  BY <1>1, TurnFacts DEF Inv, Lives
<1>3. ASSUME rec[Turn] \in Ended \cup {"gone"} \/ Turn \in old
      PROVE  Out(Turn) /\ ~CanAdmit(Turn)
  BY <1>3 DEF Out, CanAdmit, Ended
<1>4. CASE ReadWhileClosing
  <2>1. CASE rec[Turn] = "queued" /\ Goes("closing")
    <3>1. order[Turn] = "none"
      BY <1>2, <2>1 DEF Life
    <3> QED BY <1>1, <2>1, <3>1, GoesKeeps DEF Steps
  <2>2. CASE rec[Turn] \in Ended \cup {"gone"} /\ NextTurn("close", {Turn})
    BY <1>1, <1>3, <2>2, NextTurnKeeps
  <2>3. CASE rec[Turn] = "admitted" /\ NextTurn("close", {})
    BY <1>1, <2>3, NextTurnKeeps
  <2> QED BY <1>1, <1>4, <2>1, <2>2, <2>3 DEF ReadWhileClosing
<1>5. CASE DropDeadHead
  <2>1. CASE rec[Turn] \in Ended \cup {"gone"} \/ Turn \in old
    <3>1. NextTurn("dead", {Turn})
      BY <1>5, <2>1 DEF DropDeadHead
    <3> QED BY <1>1, <1>3, <2>1, <3>1, NextTurnKeeps
  <2>2. CASE ~(rec[Turn] \in Ended \cup {"gone"} \/ Turn \in old)
    <3>1. tick' = [tick EXCEPT !.step = "remove", !.due = <<>>] /\ tick \in Ticks
      BY <1>1, <1>5, <2>2 DEF DropDeadHead, Typed
    <3>2. <<>> \in Seq(Sessions) /\ ToSet(<<>>) = {}
      BY EmptySeqFacts
    <3>3. /\ tick' \in Ticks /\ tick'.step = "remove" /\ tick'.due = <<>> /\ tick'.leaving = tick.leaving
      BY <3>1, <3>2 DEF Ticks, Steps
    <3>4. InOrder'
      BY <3>3 DEF InOrder, Admitting
    <3> QED BY <1>1, <3>2, <3>3, <3>4, TickStepInv DEF Admitting
  <2> QED BY <2>1, <2>2
<1> QED BY <1>4, <1>5

\* The session whose turn it is moves on together with the tick.
LEMMA TurnStepKeeps ==
  ASSUME Inv, NEW s \in Sessions, Moves(s), s \in ToSet(tick.due),
         join' = join, line' = line, arriving' = arriving,
         ToSet(tick'.due) \subseteq ToSet(tick.due),
         tick'.leaving \subseteq tick.leaving \cup {s},
         s \in tick'.leaving => Out(s)' /\ ~CanAdmit(s)'
  PROVE  Lives' /\ NotLost' /\ Places' /\ (\A t \in tick.leaving : Out(t) /\ ~CanAdmit(t))'
<1>1. Typed
  BY DEF Inv
<1>2. Lives'
  BY MovesKeepLives DEF Inv
<1>3. NotLost'
  <2> SUFFICES ASSUME NEW t \in Sessions, join'[t] \in {"added", "in"}
               PROVE  Placed(t)' \/ Out(t)'
    BY DEF NotLost
  <2>1. Entered(t) /\ (Placed(t) \/ Out(t))
    BY DEF Entered, Inv, NotLost
  <2>2. Placed(t) => Placed(t)'
    BY DEF Placed, ToSet
  <2>3. Out(t) => Out(t)'
    BY <2>1, MovesKeepOut
  <2> QED BY <2>1, <2>2, <2>3
<1>4. Places'
  <2>1. /\ \A t \in arriving : join[t] # "away" /\ t \notin ToSet(line) /\ t \notin ToSet(tick'.due)
        /\ \A t \in ToSet(line) : join[t] # "away"
        /\ \A t \in Unwritten : Placed(t)
        /\ \A t \in ToSet(tick'.due) : Entered(t)
        /\ \A t \in tick'.leaving : Entered(t)
        /\ \A i, j \in DOMAIN line : line[i] = line[j] => i = j
    BY DEF Inv, Places
  <2> QED BY <2>1 DEF Places, Entered, Unwritten, Placed, ToSet
<1>5. ASSUME NEW t \in tick'.leaving
      PROVE  Out(t)' /\ ~CanAdmit(t)'
  <2>1. CASE t = s
    BY <2>1
  <2>2. CASE t # s
    <3>1. t \in tick.leaving /\ t \in Sessions
      BY <1>1, <2>2, Located
    <3>2. Entered(t) /\ Out(t) /\ ~CanAdmit(t)
      BY <3>1 DEF Inv, Places, TurnInv
    <3> QED BY <3>1, <3>2, MovesKeepOut
  <2> QED BY <2>1, <2>2
<1>6. (\A t \in tick.leaving : Out(t) /\ ~CanAdmit(t))'
  BY <1>5
<1> QED BY <1>2, <1>3, <1>4, <1>6

LEMMA UpdateCheckoutTokenKeeps ==
  ASSUME Inv, UpdateCheckoutToken
  PROVE  /\ Inv'
         /\ \A s \in Sessions : /\ rec[s] \in Ended \ {"abandoned"} => rec'[s] \notin {"queued", "admitted"}
                                /\ slots'[s] = slots[s]
<1>1. Typed /\ At("token") /\ tick.due # <<>> /\ tick.step = "token" /\ tick \in Ticks
  BY DEF Inv, UpdateCheckoutToken, At, Typed
<1>2. PICK s \in Sessions : s = Turn
  BY <1>1, TurnFacts
<1>3. Life(s) /\ s \in ToSet(tick.due) /\ rec[s] \in {"queued", "abandoned", "gone"} /\ order[s] = "none" /\ Entered(s)
  BY <1>1, <1>2, TurnFacts DEF Inv, Lives, TurnInv, Places
<1>4. CASE rec[s] = "gone"
  <2>1. Goes("get") /\ rec' = rec /\ window' = window
    BY <1>2, <1>4 DEF UpdateCheckoutToken
  <2>2. TickStep /\ late' = late
    BY <2>1 DEF UpdateCheckoutToken, TickStep, Still
  <2>3. Inv'
    BY <1>1, <2>1, <2>2, GoesKeeps DEF Steps, Admitting
  <2> QED BY <2>1, <2>3 DEF UpdateCheckoutToken, Ended
<1>5. CASE rec[s] # "gone"
  <2>1. rec' = [rec EXCEPT ![s] = "admitted"] /\ window' = [window EXCEPT ![s] = "open"] /\ Goes("claim")
    BY <1>2, <1>5 DEF UpdateCheckoutToken, HasStatus
  <2>2. /\ faults' = faults /\ old' = old /\ arriving' = arriving /\ line' = line /\ late' = late /\ active' = active
        /\ slots' = slots /\ banned' = banned /\ join' = join /\ leave' = leave /\ order' = order
        /\ news' = news /\ hear' = hear
    BY DEF UpdateCheckoutToken, Fine
  <2>3. /\ tick' \in Ticks /\ tick'.due = tick.due /\ tick'.leaving = tick.leaving
        /\ tick'.avail = tick.avail /\ tick'.counted = tick.counted /\ tick'.step = "claim"
    BY <1>1, <2>1, GoesFacts DEF Steps
  <2>4. Typed'
    BY <1>1, <2>1, <2>2, <2>3 DEF Typed, TypeOK
  <2>5. rec'[s] = "admitted" /\ window'[s] = "open" /\ \A t \in Sessions \ {s} : rec'[t] = rec[t] /\ window'[t] = window[t]
    BY <1>1, <2>1 DEF Typed, TypeOK
  <2>6. Moves(s)
    <3>1. \A t \in Sessions \ {s} : Same(t)
      BY <2>2, <2>5 DEF Same
    <3>2. Life(s)'
      BY <1>3, <2>2, <2>5 DEF Life, Entered, Ended
    <3>3. Entered(s)' /\ (Out(s) => Out(s)') /\ ~CanAdmit(s)'
      BY <1>3, <1>5, <2>2, <2>5 DEF Life, Out, CanAdmit, Entered
    <3>4. faults' \in Nat /\ (faults' = 0 => faults = 0)
      BY <1>1, <2>2, SizesAssumption DEF Typed, TypeOK
    <3>5. (window[s] # "none" => window'[s] # "none") /\ (join[s] # "away" => join'[s] # "away")
      BY <2>2, <2>5
    <3> QED BY <3>1, <3>2, <3>3, <3>4, <3>5 DEF Moves
  <2>7. s \in tick'.leaving => Out(s)' /\ ~CanAdmit(s)'
    <3>1. s \in tick.leaving => Out(s) /\ ~CanAdmit(s)
      BY DEF Inv, TurnInv
    <3> QED BY <1>3, <2>3, <2>6, <3>1 DEF Moves
  <2>8. Lives' /\ NotLost' /\ Places' /\ (\A t \in tick.leaving : Out(t) /\ ~CanAdmit(t))'
    BY <1>3, <2>2, <2>3, <2>6, <2>7, TurnStepKeeps
  <2>9. TurnInv'
    <3>1. (At("holding") \/ At("claim"))' => (window[Turn] # "none")'
      BY <1>2, <2>3, <2>5 DEF Turn
    <3>2. ~(At("token") \/ At("closing"))'
      BY <2>3 DEF At
    <3> QED BY <2>8, <3>1, <3>2 DEF TurnInv
  <2>10. RoomInv'
    BY <1>1, <2>2, <2>3 DEF Inv, RoomInv, CountedIn, Admitting
  <2>11. InOrder'
    BY <1>1, <2>2, <2>3 DEF Inv, InOrder, Ahead, Admitting, Unwritten
  <2>12. \A t \in Sessions : /\ rec[t] \in Ended \ {"abandoned"} => rec'[t] \notin {"queued", "admitted"}
                             /\ slots'[t] = slots[t]
    BY <1>3, <2>2, <2>5 DEF Ended
  <2> QED BY <2>4, <2>8, <2>9, <2>10, <2>11, <2>12 DEF Inv
<1> QED BY <1>4, <1>5

LEMMA AddToProcessingKeeps ==
  ASSUME Inv, AddToProcessing
  PROVE  /\ Inv' /\ rec' = rec
         /\ \A t \in Sessions : slots[t] = "none" /\ slots'[t] # "none" /\ faults = 0 =>
              \A j \in DOMAIN line : line[j] = t =>
                \A i \in DOMAIN line : i < j => ~CanAdmit(line[i]) \/ line[i] \in late \cup Unwritten
<1>1. Typed /\ At("claim") /\ tick.due # <<>> /\ tick.step = "claim" /\ Admitting
  BY DEF Inv, AddToProcessing, At, Admitting
<1>2. PICK s \in Sessions : s = Turn
  BY <1>1, TurnFacts
<1>3. /\ Life(s) /\ s \in ToSet(tick.due) /\ window[s] # "none" /\ Entered(s)
      /\ s = tick.due[1] /\ 1 \in DOMAIN tick.due /\ Len(tick.due) \in Nat \ {0}
  BY <1>1, <1>2, TurnFacts DEF Inv, Lives, TurnInv, Places
<1>4. window[s] \in {"open", "over"}
  BY <1>1, <1>3 DEF Typed, TypeOK
<1> DEFINE chair == IF window[s] # "open" THEN "none" ELSE IF tick.counted THEN "counted" ELSE "uncounted"
<1>5. slots' = [slots EXCEPT ![s] = chair] /\ NextTurn("get", {Turn})
  BY <1>2 DEF AddToProcessing, Settled
<1>6. /\ faults' = faults /\ rec' = rec /\ old' = old /\ arriving' = arriving /\ line' = line /\ late' = late
      /\ active' = active /\ window' = window /\ banned' = banned /\ join' = join /\ leave' = leave
      /\ order' = order /\ news' = news /\ hear' = hear
  BY DEF AddToProcessing, Fine
<1>7. /\ tick' \in Ticks /\ tick'.leaving = tick.leaving \cup {s} /\ tick'.counted = tick.counted
      /\ tick'.step \in {"remove", "get"} /\ Len(tick'.due) = Len(tick.due) - 1
      /\ tick'.due \in Seq(Sessions) /\ ToSet(tick'.due) \subseteq ToSet(tick.due) /\ tick'.avail = tick.avail
  BY <1>1, <1>2, <1>5, NextTurnFacts
<1>8. chair \in {"none", "counted", "uncounted"} /\ (chair = "counted" => tick.counted)
      /\ (chair = "none" => window[s] = "over")
  BY <1>4
<1> HIDE DEF chair
<1>9. slots'[s] = chair /\ \A t \in Sessions \ {s} : slots'[t] = slots[t]
  BY <1>1, <1>5 DEF Typed, TypeOK
<1>10. Typed'
  <2>1. tick'.due \in Seq(Sessions) /\ tick'.leaving \subseteq Sessions /\ tick'.avail \in 0..Tickets
    BY <1>7 DEF Ticks
  <2>2. slots' \in [Sessions -> {"none", "counted", "uncounted"}]
    BY <1>1, <1>5, <1>8 DEF Typed, TypeOK
  <2> QED BY <1>1, <1>6, <1>7, <2>1, <2>2 DEF Typed, TypeOK
<1>11. Out(s)' /\ ~CanAdmit(s)'
  BY <1>3, <1>6, <1>8, <1>9 DEF Out, CanAdmit, Life
<1>12. Moves(s)
  <2>1. \A t \in Sessions \ {s} : Same(t)
    BY <1>6, <1>9 DEF Same
  <2>2. Life(s)'
    BY <1>3, <1>6 DEF Life
  <2>3. Entered(s)' /\ faults' \in Nat /\ (faults' = 0 => faults = 0)
    BY <1>1, <1>3, <1>6, SizesAssumption DEF Entered, Typed, TypeOK
  <2> QED BY <1>3, <1>6, <1>11, <2>1, <2>2, <2>3 DEF Moves
<1>13. Lives' /\ NotLost' /\ Places' /\ (\A t \in tick.leaving : Out(t) /\ ~CanAdmit(t))'
  BY <1>3, <1>6, <1>7, <1>11, <1>12, TurnStepKeeps
<1>14. TurnInv'
  BY <1>7, <1>13 DEF TurnInv, At
<1>15. RoomInv'
  <2>1. IsFiniteSet(CountedIn) /\ Cardinality(CountedIn) \in Nat
    BY CountedType
  <2>2. Cardinality(CountedIn) <= Tickets /\ Tickets \in Nat
    BY SizesAssumption DEF Inv, RoomInv
  <2>3. CASE chair = "counted"
    <3>1. CountedIn' \in SUBSET (CountedIn \cup {s})
      BY <1>9 DEF CountedIn
    <3>2. /\ IsFiniteSet(CountedIn \cup {s}) /\ Cardinality(CountedIn \cup {s}) \in Nat
          /\ Cardinality(CountedIn \cup {s}) <= Cardinality(CountedIn) + 1
      <4>1. /\ IsFiniteSet(CountedIn \cup {s})
            /\ Cardinality(CountedIn \cup {s}) = IF s \in CountedIn THEN Cardinality(CountedIn) ELSE Cardinality(CountedIn) + 1
        BY <2>1, FS_AddElement
      <4> QED BY <2>1, <4>1
    <3>3. IsFiniteSet(CountedIn') /\ Cardinality(CountedIn') <= Cardinality(CountedIn \cup {s})
      BY <3>1, <3>2, FS_Subset
    <3>4. Cardinality(CountedIn') \in Nat
      BY <3>3, FS_CardinalityType
    <3>5. Cardinality(CountedIn) + Len(tick.due) <= Tickets
      BY <1>1, <1>8, <2>3 DEF Inv, RoomInv
    <3>6. Cardinality(CountedIn') <= Tickets /\ Cardinality(CountedIn') + Len(tick'.due) <= Tickets
      BY <1>3, <1>7, <2>1, <2>2, <3>2, <3>3, <3>4, <3>5
    <3> QED BY <3>6 DEF RoomInv
  <2>4. CASE chair # "counted"
    <3>1. CountedIn' \in SUBSET CountedIn
      BY <1>9, <2>4 DEF CountedIn
    <3>2. IsFiniteSet(CountedIn') /\ Cardinality(CountedIn') <= Cardinality(CountedIn)
      BY <2>1, <3>1, FS_Subset
    <3>3. Cardinality(CountedIn') \in Nat
      BY <3>2, FS_CardinalityType
    <3>4. tick.counted => Cardinality(CountedIn) + Len(tick.due) <= Tickets
      BY <1>1 DEF Inv, RoomInv
    <3>5. Cardinality(CountedIn') <= Tickets
      BY <2>1, <2>2, <3>2, <3>3
    <3>6. tick'.counted => Cardinality(CountedIn') + Len(tick'.due) <= Tickets
      BY <1>3, <1>7, <2>1, <2>2, <3>2, <3>3, <3>4
    <3> QED BY <3>5, <3>6 DEF RoomInv
  <2> QED BY <2>3, <2>4
<1>16. InOrder'
  BY <1>1, <1>5, <1>6, NextTurnOrder
<1>17. ASSUME NEW t \in Sessions, slots[t] = "none", slots'[t] # "none", faults = 0,
              NEW j \in DOMAIN line, line[j] = t, NEW i \in DOMAIN line, i < j
       PROVE  ~CanAdmit(line[i]) \/ line[i] \in late \cup Unwritten
  <2>1. t = s
    BY <1>9, <1>17
  <2>2. Ahead(line[i], 1) \/ line[i] \in late \cup Unwritten
    BY <1>1, <1>3, <1>17, <2>1 DEF Inv, InOrder
  <2>3. DOMAIN tick.due = 1..Len(tick.due)
    BY <1>1, TurnFacts
  <2>4. \A m \in DOMAIN tick.due : ~(m < 1)
    BY <1>3, <2>3
  <2>5. line[i] \in tick.leaving \/ line[i] \in late \cup Unwritten
    BY <2>2, <2>4 DEF Ahead
  <2> QED BY <2>5 DEF Inv, TurnInv
<1> QED BY <1>6, <1>10, <1>13, <1>14, <1>15, <1>16, <1>17 DEF Inv

LEMMA CloseSessionKeeps ==
  ASSUME Inv, CloseSession
  PROVE  /\ Inv' /\ slots' = slots
         /\ \A s \in Sessions : rec[s] \in Ended \ {"abandoned"} => rec'[s] \notin {"queued", "admitted"}
<1>1. Typed /\ At("closing") /\ tick.due # <<>>
  BY DEF Inv, CloseSession, At
<1>2. PICK s \in Sessions : s = Turn
  BY <1>1, TurnFacts
<1>3. Life(s) /\ s \in ToSet(tick.due) /\ rec[s] \in {"queued", "abandoned", "gone"} /\ order[s] = "none" /\ Entered(s)
  BY <1>1, <1>2, TurnFacts DEF Inv, Lives, TurnInv, Places
<1>4. CASE rec[s] = "gone"
  <2>1. NextTurn("close", {}) /\ rec' = rec
    BY <1>2, <1>4 DEF CloseSession
  <2>2. TickStep /\ late' = late
    BY <2>1 DEF CloseSession, TickStep, Still
  <2>3. Inv'
    BY <1>1, <2>1, <2>2, NextTurnKeeps
  <2> QED BY <2>1, <2>3 DEF CloseSession, Ended
<1>5. CASE rec[s] # "gone"
  <2>1. rec' = [rec EXCEPT ![s] = "sold_out"] /\ NextTurn("close", {Turn})
    BY <1>2, <1>5 DEF CloseSession, HasStatus
  <2>2. /\ faults' = faults /\ old' = old /\ arriving' = arriving /\ line' = line /\ late' = late /\ active' = active
        /\ slots' = slots /\ window' = window /\ banned' = banned /\ join' = join /\ leave' = leave
        /\ order' = order /\ news' = news /\ hear' = hear
    BY DEF CloseSession, Fine
  <2>3. /\ tick' \in Ticks /\ tick'.leaving = tick.leaving \cup {s} /\ tick'.step \in {"remove", "close"}
        /\ ToSet(tick'.due) \subseteq ToSet(tick.due)
    BY <1>1, <1>2, <2>1, NextTurnFacts
  <2>4. Typed'
    <3>1. tick'.due \in Seq(Sessions) /\ tick'.leaving \subseteq Sessions /\ tick'.avail \in 0..Tickets
      BY <2>3 DEF Ticks
    <3>2. rec' \in [Sessions -> Ended \cup {"queued", "admitted", "gone"}]
      BY <1>1, <2>1 DEF Typed, TypeOK, Ended
    <3> QED BY <1>1, <2>2, <2>3, <3>1, <3>2 DEF Typed, TypeOK
  <2>5. rec'[s] = "sold_out" /\ \A t \in Sessions \ {s} : rec'[t] = rec[t]
    BY <1>1, <2>1 DEF Typed, TypeOK
  <2>6. Out(s)' /\ ~CanAdmit(s)'
    BY <2>5 DEF Out, CanAdmit
  <2>7. hear[s].step # "ban"
    BY <1>3, OutcomesAssumption DEF Life
  <2>8. Moves(s)
    <3>1. \A t \in Sessions \ {s} : Same(t)
      BY <2>2, <2>5 DEF Same
    <3>2. Life(s)'
      BY <1>3, <2>2, <2>5, <2>7 DEF Life, Entered
    <3>3. Entered(s)' /\ faults' \in Nat /\ (faults' = 0 => faults = 0)
      BY <1>1, <1>3, <2>2, SizesAssumption DEF Entered, Typed, TypeOK
    <3> QED BY <1>3, <2>2, <2>6, <3>1, <3>2, <3>3 DEF Moves
  <2>9. Lives' /\ NotLost' /\ Places' /\ (\A t \in tick.leaving : Out(t) /\ ~CanAdmit(t))'
    BY <1>3, <2>2, <2>3, <2>6, <2>8, TurnStepKeeps
  <2>10. TurnInv'
    BY <2>3, <2>9 DEF TurnInv, At
  <2>11. RoomInv'
    BY <2>2, <2>3 DEF Inv, RoomInv, CountedIn, Admitting
  <2>12. InOrder'
    BY <2>3 DEF InOrder, Admitting
  <2>13. \A t \in Sessions : rec[t] \in Ended \ {"abandoned"} => rec'[t] \notin {"queued", "admitted"}
    BY <1>3, <2>5 DEF Ended
  <2> QED BY <2>2, <2>4, <2>9, <2>10, <2>11, <2>12, <2>13 DEF Inv
<1> QED BY <1>4, <1>5

-----------------------------------------------------------------------------
(***************************************************************************)
(* The theorems                                                            *)
(***************************************************************************)
\* A session stays ended, and a slot is given in the line's order.
StaysEnded == \A s \in Sessions : rec[s] \in Ended \ {"abandoned"} => rec'[s] \notin {"queued", "admitted"}
InTurn ==
  \A t \in Sessions : slots[t] = "none" /\ slots'[t] # "none" /\ faults = 0 =>
    \A j \in DOMAIN line : line[j] = t =>
      \A i \in DOMAIN line : i < j => ~CanAdmit(line[i]) \/ line[i] \in late \cup Unwritten

LEMMA AsideIsSafe ==
  ASSUME NEW s \in Sessions, Aside(s)
  PROVE  StaysEnded /\ InTurn
BY DEF Aside, Moves, Same, StaysEnded, InTurn, Ended

LEMMA StillIsSafe ==
  ASSUME Still
  PROVE  StaysEnded /\ InTurn
BY DEF Still, StaysEnded, InTurn, Ended

LEMMA NextKeeps ==
  ASSUME Inv, [Next]_vars
  PROVE  Inv' /\ StaysEnded /\ InTurn
<1>1. CASE UNCHANGED vars
  <2>1. Still /\ line' = line /\ arriving' = arriving /\ tick' = tick /\ active' = active
        /\ banned' = banned /\ faults' = faults /\ late' = late /\ Unwritten' = Unwritten
    BY <1>1 DEF vars, Still, Unwritten
  <2>2. Lives' /\ NotLost'
    <3>1. Typed'
      BY <2>1 DEF Inv, Typed, TypeOK, Still
    <3>2. \A s \in Sessions : Placed(s) => Placed(s)'
      BY <2>1 DEF Placed, ToSet
    <3> QED BY <2>1, <3>1, <3>2, StillKeeps
  <2>3. Typed' /\ Places'
    BY <2>1 DEF Inv, Typed, TypeOK, Places, Entered, Still, Placed
  <2>4. TurnInv' /\ RoomInv' /\ InOrder'
    BY <2>1 DEF Inv, TurnInv, RoomInv, InOrder, At, Turn, Out, CanAdmit, CountedIn, Admitting, Ahead, Still
  <2> QED BY <2>1, <2>2, <2>3, <2>4, StillIsSafe DEF Inv
<1>2. CASE NextSecond
  <2>1. Still
    BY <1>2 DEF NextSecond, Still
  <2> QED BY <1>2, <2>1, NextSecondKeeps, StillIsSafe
<1>3. CASE RemoveFromQueue
  <2>1. Still
    BY <1>3 DEF RemoveFromQueue, Still
  <2> QED BY <1>3, <2>1, RemoveFromQueueKeeps, StillIsSafe
<1>4. CASE \/ PeekQueue \/ AskStock \/ StockUnanswered \/ CountRoom \/ ReadSession \/ IsProcessing
           \/ AdmissionFails \/ ReadWhileClosing \/ DropDeadHead \/ TickDies
  <2>1. TickStep /\ Inv'
    BY <1>4, PeekQueueKeeps, AskStockKeeps, CountRoomKeeps, ReadSessionKeeps, IsProcessingKeeps,
       FailingTickKeeps, ClosingKeeps
  <2> QED BY <2>1, StillIsSafe DEF TickStep
<1>5. CASE UpdateCheckoutToken
  BY <1>5, UpdateCheckoutTokenKeeps DEF StaysEnded, InTurn
<1>6. CASE AddToProcessing
  BY <1>6, AddToProcessingKeeps DEF StaysEnded, InTurn, Ended
<1>7. CASE CloseSession
  BY <1>7, CloseSessionKeeps DEF StaysEnded, InTurn
<1>8. ASSUME NEW s \in Sessions, CreateSession(s) \/ AddToQueue(s) \/ JoinFails(s) \/ LeaveLine(s)
      PROVE  Inv' /\ StaysEnded /\ InTurn
  BY <1>8, CreateSessionKeeps, AddToQueueKeeps, JoinFailsKeeps, LeaveLineKeeps, AsideIsSafe
<1>9. ASSUME NEW s \in Sessions,
             \/ StartCheckout(s) \/ OrderEnds(s) \/ WindowEnds(s) \/ Lapse(s) \/ RecordEnds(s)
             \/ AddActiveEvent(s) \/ JoinUnlisted(s)
             \/ ReadLength(s) \/ RemoveActiveEvent(s) \/ MarkAbandoned(s) \/ LeaveFails(s) \/ Hear(s)
      PROVE  Inv' /\ StaysEnded /\ InTurn
  <2>1. Typed' /\ Outside(s)
    BY <1>9, OutsideSteps
  <2> QED BY <2>1, OutsideKeeps, AsideIsSafe DEF Outside
<1> QED BY <1>1, <1>2, <1>3, <1>4, <1>5, <1>6, <1>7, <1>8, <1>9 DEF Next, Tick, Join, Leave

\* Every reachable state is typed, keeps the sessions' lives in order, and has the
\* tick, the line and the room agree.
THEOREM WaitroomInvariant == Spec => []Inv
<1>1. Inv /\ [Next]_vars => Inv'
  BY NextKeeps
<1> QED BY InitInv, <1>1, PTL DEF Spec

\* The statuses are those of SessionStatus, and an admission's budget stays
\* within the event's tickets.
THEOREM StatusesAreKnown == Spec => []TypeOK
<1>1. Inv => TypeOK
  BY DEF Inv, Typed
<1> QED BY <1>1, WaitroomInvariant, PTL

\* Whatever fails between an admission's calls, a buyer who joined, did not leave
\* and has not ordered stands in line or holds a slot until the token's window is
\* over: ProcessEventQueue's own invariant, for any number of sessions.
THEOREM NobodyIsEverLost == Spec => []NobodyIsLost
<1>1. Inv => NobodyIsLost
  BY DEF Inv, NotLost, NobodyIsLost, Out, InLine, Placed, Unwritten
<1> QED BY <1>1, WaitroomInvariant, PTL

\* The slots given on inventory's counts never outnumber the event's tickets
\* (admitCount), for any batch size and however the calls interleave.
THEOREM RoomAlwaysFits == Spec => []RoomFitsTickets
<1>1. Inv => RoomFitsTickets
  BY DEF Inv, RoomInv, RoomFitsTickets, CountedIn
<1> QED BY <1>1, WaitroomInvariant, PTL

\* No admission, resume or stale write-back brings an ended session back.
THEOREM EndedStaysEnded == Spec => EndedIsFinal
<1>1. Inv /\ [Next]_vars
      => [\A s \in Sessions : rec[s] \in Ended \ {"abandoned"} => rec'[s] \notin {"queued", "admitted"}]_vars
  BY NextKeeps DEF StaysEnded
<1> QED BY <1>1, WaitroomInvariant, PTL DEF Spec, EndedIsFinal

\* As long as nothing fails, a slot is claimed only when nobody due ahead can
\* still be admitted, but for those whose entry came in after the tick had looked.
THEOREM PlacesAreKept == Spec => NoOvertaking
<1>1. ASSUME Inv, [Next]_vars
      PROVE  [\A t \in Sessions :
                faults = 0 /\ slots[t] = "none" /\ slots'[t] # "none" =>
                  \A j \in DOMAIN Queue : Queue[j] = t =>
                    \A i \in 1..(j - 1) : ~CanAdmit(Queue[i]) \/ Queue[i] \in late]_vars
  <2>1. InTurn
    BY <1>1, NextKeeps
  <2>2. SUFFICES ASSUME NEW t \in Sessions, faults = 0, slots[t] = "none", slots'[t] # "none",
                        NEW j \in DOMAIN Queue, Queue[j] = t, NEW i \in 1..(j - 1)
                 PROVE  ~CanAdmit(Queue[i]) \/ Queue[i] \in late
    OBVIOUS
  <2>3. DOMAIN Queue = 1..Len(Queue) /\ Len(Queue) \in Nat
    BY <1>1, QueueFacts, LenProperties
  <2>4. i \in DOMAIN Queue /\ i < j
    BY <2>3
  <2>5. PICK a \in DOMAIN line, b \in DOMAIN line : a < b /\ line[a] = Queue[i] /\ line[b] = Queue[j]
    BY <1>1, <2>4, QueueFacts
  <2>6. ~CanAdmit(line[a]) \/ line[a] \in late \cup Unwritten
    BY <2>1, <2>2, <2>5 DEF InTurn
  <2>7. Queue[i] \notin Unwritten
    BY <1>1, <2>4, QueueFacts DEF ToSet
  <2> QED BY <2>5, <2>6, <2>7
<1>2. Inv /\ [Next]_vars
      => [\A t \in Sessions :
            faults = 0 /\ slots[t] = "none" /\ slots'[t] # "none" =>
              \A j \in DOMAIN Queue : Queue[j] = t =>
                \A i \in 1..(j - 1) : ~CanAdmit(Queue[i]) \/ Queue[i] \in late]_vars
  BY <1>1
<1> QED BY <1>2, WaitroomInvariant, PTL DEF Spec, NoOvertaking
=============================================================================
