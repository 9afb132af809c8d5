--------------------------- MODULE EventGateProofs ---------------------------
(***************************************************************************)
(* Proofs about Events and EventGate, for any number of requests under way *)
(* and of joiners, any roles and rules, any lifetime of an entry and any   *)
(* time a flight may take.                                                 *)
(***************************************************************************)
EXTENDS EventGate, TLAPS

-----------------------------------------------------------------------------
(***************************************************************************)
(* event-svc.  Its handlers judge what they read and write later, so the   *)
(* invariant says what stays true of a write that is still pending.        *)
(***************************************************************************)

Pending == [write : {"nothing", "config", "advance", "reconfig", "approve", "publish"},
            saw : {"none", "DRAFT", "CONFIGURED", "APPROVED", "PUBLISHED"},
            user : Users \cup {"nobody"}]

ApprovedByAdmin == approver \in Users /\ Role[approver] = "ADMIN"

\* One createConfig wrote the configuration, and until it advances the draft
\* nothing else can: there is one such write, and it meets a draft.
OneAdvance ==
  /\ \A c \in Calls : Writing(c, "advance") => status = "DRAFT" /\ config # "none"
  /\ \A c, d \in Calls : Writing(c, "advance") /\ Writing(d, "advance") => c = d

\* A pending approval was asked for by an administrator who read CONFIGURED; a
\* pending publish read APPROVED.  Neither status goes back to DRAFT.
PendingIsJustified ==
  \A c \in Calls :
     /\ Writing(c, "approve") =>
          /\ status \notin {"none", "DRAFT"} /\ at[c].saw = "CONFIGURED"
          /\ at[c].user \in Users /\ Role[at[c].user] = "ADMIN"
     /\ Writing(c, "publish") => status \notin {"none", "DRAFT"} /\ ApprovedByAdmin

EventInv ==
  /\ EventTypeOK /\ at \in [Calls -> Pending]
  /\ AdvancedEventsHaveRules
  /\ status = "none" => \A c \in Calls : at[c] = Idle
  /\ status \in {"APPROVED", "PUBLISHED"} => ApprovedByAdmin
  /\ OneAdvance
  /\ PendingIsJustified

\* No event, no requests.
LEMMA EventInitInv == EventInit => EventInv
<1> SUFFICES ASSUME EventInit PROVE EventInv
  OBVIOUS
<1>1. stuck \in BOOLEAN
  BY DEF EventInit
<1>2. status = "none" /\ config = "none" /\ at = [c \in Calls |-> Idle]
  BY DEF EventInit
<1>. QED
  BY <1>1, <1>2 DEF EventInv, EventTypeOK, Pending, Idle, AdvancedEventsHaveRules, OneAdvance,
                    PendingIsJustified, Writing

\* Reading and judging writes nothing.
LEMMA BeginKeepsInv ==
  ASSUME EventInv, NEW c \in Calls, NEW u \in Users,
         BeginConfig(c, u) \/ BeginReconfig(c, u) \/ BeginApprove(c, u) \/ BeginPublish(c, u)
  PROVE  EventInv'
<1> USE DEF EventInv, EventTypeOK, Pending, Idle, AdvancedEventsHaveRules, ApprovedByAdmin,
            OneAdvance, PendingIsJustified, Writing, Begins, MayDo
<1>1. CASE BeginConfig(c, u)
  BY <1>1 DEF BeginConfig
<1>2. CASE BeginReconfig(c, u)
  BY <1>2 DEF BeginReconfig
<1>3. CASE BeginApprove(c, u)
  BY <1>3 DEF BeginApprove, ApproveFrom
<1>4. CASE BeginPublish(c, u)
  BY <1>4 DEF BeginPublish, PublishFrom
<1>. QED  BY <1>1, <1>2, <1>3, <1>4

\* Each write, and the death of a request before one.
LEMMA WriteKeepsInv ==
  ASSUME EventInv, NEW c \in Calls, Writes(c) \/ CallDies(c)
  PROVE  EventInv'
<1> USE DEF EventInv, EventTypeOK, Pending, Idle, AdvancedEventsHaveRules, ApprovedByAdmin,
            OneAdvance, PendingIsJustified, Writing, Ends
<1>1. ASSUME NEW r \in Rules, CreateConfig(c, r) PROVE EventInv'
  <2>1. status # "none"
    BY <1>1 DEF CreateConfig
  <2>2. CASE config = "none" /\ at[c].saw = "DRAFT"
    BY <1>1, <2>1, <2>2, RulesAssumption DEF CreateConfig
  <2>3. CASE ~ (config = "none" /\ at[c].saw = "DRAFT")
    BY <1>1, <2>1, <2>3, RulesAssumption DEF CreateConfig
  <2>. QED  BY <2>2, <2>3
<1>2. ASSUME NEW r \in Rules, UpdateConfig(c, r) PROVE EventInv'
  BY <1>2, RulesAssumption DEF UpdateConfig
<1>3. CASE AdvanceDraft(c)
  BY <1>3 DEF AdvanceDraft
<1>4. CASE ApproveEvent(c)
  BY <1>4 DEF ApproveEvent
<1>5. CASE PublishEvent(c)
  BY <1>5 DEF PublishEvent
<1>6. CASE CallDies(c)
  BY <1>6 DEF CallDies
<1>. QED  BY <1>1, <1>2, <1>3, <1>4, <1>5, <1>6 DEF Writes

LEMMA EventNextInv == EventInv /\ [EventNext]_eventVars => EventInv'
<1> SUFFICES ASSUME EventInv, [EventNext]_eventVars PROVE EventInv'
  OBVIOUS
<1>1. ASSUME NEW u \in Users, CreateEvent(u) PROVE EventInv'
  BY <1>1 DEF CreateEvent, EventInv, EventTypeOK, Pending, Idle, AdvancedEventsHaveRules, ApprovedByAdmin,
              OneAdvance, PendingIsJustified, Writing
<1>2. CASE UNCHANGED eventVars
  BY <1>2 DEF eventVars, EventInv, EventTypeOK, AdvancedEventsHaveRules, ApprovedByAdmin,
              OneAdvance, PendingIsJustified, Writing
<1>. QED  BY <1>1, <1>2, BeginKeepsInv, WriteKeepsInv DEF EventNext

\* "Configuring a live event must not un-publish it": the one write that takes a
\* published event off sale is an approval that read it before it was published.
LEMMA PublishedMoves ==
  ASSUME EventInv, [EventNext]_eventVars, status = "PUBLISHED", status' # "PUBLISHED"
  PROVE  \E c \in Calls : at[c].write = "approve" /\ at[c].saw = "CONFIGURED" /\ at'[c] = Idle
<1>1. ASSUME NEW u \in Users, CreateEvent(u) PROVE FALSE
  BY <1>1 DEF CreateEvent
<1>2. ASSUME NEW c \in Calls, NEW u \in Users,
             BeginConfig(c, u) \/ BeginReconfig(c, u) \/ BeginApprove(c, u) \/ BeginPublish(c, u)
      PROVE  FALSE
  BY <1>2 DEF BeginConfig, BeginReconfig, BeginApprove, BeginPublish
<1>3. PICK c \in Calls : Writes(c)
  BY <1>1, <1>2 DEF EventNext, eventVars, CallDies
<1>4. ~ AdvanceDraft(c)
  BY <1>3 DEF AdvanceDraft, EventInv, OneAdvance
<1>5. ApproveEvent(c)
  BY <1>3, <1>4 DEF Writes, PublishEvent, CreateConfig, UpdateConfig
<1>. QED  BY <1>5 DEF ApproveEvent, Ends, Writing, EventInv, PendingIsJustified

-----------------------------------------------------------------------------
(***************************************************************************)
(* The gate.  What is served is at most as old as its lifetime and a       *)
(* flight allow, since the two times that run, the one an answer has left  *)
(* and the one since it was read, go on together.                          *)
(***************************************************************************)

Entry == [verdict : Verdicts \cup {"nothing", "unavailable"}, left : Nat, age : Nat]
Answer == [step : {"none", "event", "config", "store", "land"},
           verdict : Verdicts \cup {"nothing", "unavailable"}, left : 0..Budget, age : 0..Budget]

\* An answer in flight is no older than the flight; one that failed has no age.
FlightIsYoung ==
  /\ flight.age + flight.left <= Budget
  /\ flight.step \in {"none", "event", "config"} => flight.verdict = "nothing"
  /\ flight.step = "store" => flight.verdict \in Verdicts
  /\ flight.verdict \notin Verdicts => flight.age = 0

\* A served entry holds a verdict, and its two times add up to a bound.
EntryIsYoung ==
  Fresh => cached.verdict \in Verdicts /\ cached.age + cached.left <= TTL + Budget

AgesInv == GateTypeOK /\ FlightIsYoung /\ EntryIsYoung

\* Which steps the joiners and the clock of the gate take.
GateStep == Flight \/ Pass \/ \E j \in Joiners : Ask(j) \/ Hit(j) \/ Miss(j) \/ Board(j)

\* "unavailable" and "nothing" are no verdicts.
LEMMA VerdictFacts == "unavailable" \notin Verdicts /\ "nothing" \notin Verdicts
BY VerdictAssumption DEF Verdicts

\* A gate without a flight.
LEMMA LandedIsYoung ==
  /\ Landed \in Answer
  /\ Landed.age + Landed.left <= Budget
  /\ Landed.verdict = "nothing" /\ Landed.step = "none" /\ Landed.age = 0
BY GateAssumption DEF Answer, Landed

LEMMA AgesInit == GateInit => AgesInv
<1> SUFFICES ASSUME GateInit PROVE AgesInv
  OBVIOUS
<1>1. EventTypeOK
  BY EventInitInv DEF GateInit, EventInv
<1>2. cached = Nothing /\ flight = Landed /\ joiner = [j \in Joiners |-> "away"]
  BY DEF GateInit
<1>3. cached \in Entry /\ ~ Fresh
  BY <1>2 DEF Entry, Nothing, Fresh
<1>4. flight \in Answer /\ FlightIsYoung
  BY <1>2, LandedIsYoung DEF FlightIsYoung
<1>. QED  BY <1>1, <1>2, <1>3, <1>4 DEF AgesInv, GateTypeOK, EntryIsYoung, Entry, Answer

\* A step of event-svc leaves the gate alone, a step of the gate event-svc.
LEMMA GateStepKeepsEvents == GateStep => UNCHANGED eventVars
BY DEF GateStep, Flight, FetchEvent, FetchConfig, FetchFails, Store, Land, Pass, Ask, Hit, Miss, Board, eventVars

\* A Get's own steps, up to its answer.
LEMMA GetKeepsAges ==
  ASSUME AgesInv, EventTypeOK', NEW j \in Joiners, Ask(j) \/ Hit(j) \/ Miss(j) \/ Board(j)
  PROVE  AgesInv'
<1>1. joiner' \in [Joiners -> {"away", "asking", "missed", "aboard"}] /\ cached' = cached
  BY DEF Ask, Hit, Miss, Board, Steps, AgesInv, GateTypeOK
<1>2. CASE flight' = flight
  BY <1>1, <1>2 DEF AgesInv, GateTypeOK, FlightIsYoung, EntryIsYoung, Fresh
<1>3. CASE flight' = [step |-> "event", verdict |-> "nothing", left |-> Budget, age |-> 0]
  BY <1>1, <1>3, GateAssumption, VerdictFacts DEF AgesInv, GateTypeOK, FlightIsYoung, EntryIsYoung, Fresh
<1>. QED  BY <1>2, <1>3 DEF Ask, Hit, Miss, Board

\* The flight: what it reads is fresh, what it stores carries its age along.
LEMMA FlightKeepsAges ==
  ASSUME AgesInv, EventTypeOK, EventTypeOK', Flight
  PROVE  AgesInv'
<1> USE GateAssumption, VerdictFacts
    DEF AgesInv, GateTypeOK, FlightIsYoung, EntryIsYoung, Fresh, InFlight
<1>1. CASE FetchEvent
  BY <1>1 DEF FetchEvent, Verdicts
<1>2. CASE FetchConfig
  BY <1>2 DEF FetchConfig, Verdicts, EventTypeOK
<1>3. CASE FetchFails
  BY <1>3 DEF FetchFails
<1>4. CASE Store
  BY <1>4 DEF Store
<1>5. CASE Land
  BY <1>5 DEF Land, Landed
<1>. QED  BY <1>1, <1>2, <1>3, <1>4, <1>5 DEF Flight

\* An entry a unit older.
LEMMA OlderEntry ==
  ASSUME NEW e \in Entry, NEW f, f = [e EXCEPT !.left = @ - 1, !.age = @ + 1], e.left > 0
  PROVE  f \in Entry /\ f.left = e.left - 1 /\ f.age = e.age + 1 /\ f.verdict = e.verdict
<1>1. e.left - 1 \in Nat /\ e.age + 1 \in Nat
  BY DEF Entry
<1>2. f = [e EXCEPT !.left = e.left - 1, !.age = e.age + 1]
  OBVIOUS
<1>. QED  BY <1>1, <1>2 DEF Entry

\* The same of the answer in flight, which ages once it is there.
LEMMA OlderAnswer ==
  ASSUME NEW e \in Answer, NEW a \in 0..Budget, NEW f, f = [e EXCEPT !.left = @ - 1, !.age = a], e.left # 0
  PROVE  /\ f \in Answer /\ f.left = e.left - 1 /\ f.age = a
         /\ f.verdict = e.verdict /\ f.step = e.step
<1>1. e.left - 1 \in 0..Budget
  BY GateAssumption DEF Answer
<1>2. f = [e EXCEPT !.left = e.left - 1, !.age = a]
  OBVIOUS
<1>. QED  BY <1>1, <1>2 DEF Answer

\* A unit of time: the two times of an entry and of an answer move together.
LEMMA PassKeepsAges ==
  ASSUME AgesInv, EventTypeOK', Pass
  PROVE  AgesInv'
<1> USE GateAssumption, VerdictFacts
    DEF AgesInv, GateTypeOK, FlightIsYoung, EntryIsYoung, Fresh, InFlight
<1>1. joiner' = joiner
  BY DEF Pass
<1>2. cached' \in Entry /\ EntryIsYoung'
  <2>1. CASE cached.left <= 1
    <3>1. cached' = Nothing
      BY <2>1 DEF Pass
    <3>2. Nothing \in Entry /\ Nothing.left = 0
      BY DEF Nothing, Entry
    <3>. QED  BY <3>1, <3>2
  <2>2. CASE cached.left > 1
    <3>1. cached.verdict \in Verdicts /\ cached.left # 0 /\ cached' = Older(cached)
      BY <2>2 DEF Pass
    <3>2. cached' = [cached EXCEPT !.left = @ - 1, !.age = @ + 1]
      BY <3>1 DEF Older
    <3>3. cached \in Entry /\ cached.left > 0
      BY <2>2 DEF Entry
    <3>4. /\ cached' \in Entry /\ cached'.left = cached.left - 1
          /\ cached'.age = cached.age + 1 /\ cached'.verdict = cached.verdict
      BY <3>2, <3>3, OlderEntry
    <3>. QED  BY <2>2, <3>1, <3>4 DEF Entry
  <2>. QED  BY <2>1, <2>2
<1>3. flight' \in Answer /\ FlightIsYoung'
  <2> flight \in Answer
    BY DEF Answer
  <2>1. CASE InFlight("none")
    BY <2>1 DEF Pass
  <2>2. CASE ~ InFlight("none") /\ flight.verdict \in Verdicts
    <3>1. flight.left # 0 /\ flight' = Older(flight)
      BY <2>2 DEF Pass, Overdue
    <3>2. flight' = [flight EXCEPT !.left = @ - 1, !.age = flight.age + 1]
      BY <2>2, <3>1 DEF Older
    <3>3. flight.age + 1 \in 0..Budget
      BY <3>1
    <3>4. /\ flight' \in Answer /\ flight'.left = flight.left - 1 /\ flight'.age = flight.age + 1
          /\ flight'.verdict = flight.verdict /\ flight'.step = flight.step
      BY <3>1, <3>2, <3>3, OlderAnswer
    <3>. QED  BY <2>2, <3>4
  <2>3. CASE ~ InFlight("none") /\ flight.verdict \notin Verdicts
    <3>1. flight.left # 0 /\ flight' = Older(flight)
      BY <2>3 DEF Pass, Overdue
    <3>2. flight' = [flight EXCEPT !.left = @ - 1, !.age = flight.age]
      BY <2>3, <3>1 DEF Older
    <3>3. /\ flight' \in Answer /\ flight'.left = flight.left - 1 /\ flight'.age = flight.age
          /\ flight'.verdict = flight.verdict /\ flight'.step = flight.step
      BY <3>1, <3>2, OlderAnswer
    <3>. QED  BY <2>3, <3>3
  <2>. QED  BY <2>1, <2>2, <2>3
<1>. QED  BY <1>1, <1>2, <1>3 DEF Entry, Answer

LEMMA AgesNext == AgesInv /\ EventInv /\ [GateNext]_gateVars => AgesInv'
<1> SUFFICES ASSUME AgesInv, EventInv, [GateNext]_gateVars PROVE AgesInv'
  OBVIOUS
<1>1. [EventNext]_eventVars
  BY GateStepKeepsEvents DEF GateNext, GateStep, gateVars, eventVars
<1>2. EventTypeOK /\ EventTypeOK'
  BY <1>1, EventNextInv DEF EventInv
<1>3. CASE UNCHANGED <<cached, flight, joiner>>
  BY <1>2, <1>3 DEF AgesInv, GateTypeOK, FlightIsYoung, EntryIsYoung, Fresh
<1>4. CASE GateStep
  BY <1>2, <1>4, GetKeepsAges, FlightKeepsAges, PassKeepsAges DEF GateStep
<1>. QED  BY <1>3, <1>4 DEF GateNext, GateStep, gateVars

\* Who is answered, and when.
LEMMA AnswersAreYoung ==
  ASSUME AgesInv, EventInv, [GateNext]_gateVars, NEW j \in Joiners, Answered(j)
  PROVE  ToldAge(j) <= TTL + Budget - 1 /\ (Told(j) = "unavailable" => joiner[j] = "aboard")
<1> USE GateAssumption, VerdictFacts DEF AgesInv, GateTypeOK, Answered
<1>1. Hit(j) \/ Land
  <2>1. ASSUME NEW k \in Joiners, k # j, Ask(k) \/ Hit(k) \/ Miss(k) \/ Board(k) PROVE FALSE
    BY <2>1 DEF Ask, Hit, Miss, Board, Steps
  <2>2. ~ (Ask(j) \/ Miss(j) \/ Board(j))
    BY DEF Ask, Miss, Board, Steps
  <2>3. joiner' # joiner
    OBVIOUS
  <2>. QED
    BY <2>1, <2>2, <2>3 DEF GateNext, gateVars, Flight, FetchEvent, FetchConfig, FetchFails, Store, Pass
<1>2. CASE Hit(j)
  BY <1>2 DEF Hit, Steps, Fresh, EntryIsYoung, Told, ToldAge
<1>3. CASE Land
  BY <1>3 DEF Land, Told, ToldAge
<1>. QED  BY <1>1, <1>2, <1>3

-----------------------------------------------------------------------------
(***************************************************************************)
(* The theorems.                                                           *)
(***************************************************************************)

\* The inductive invariant of event-svc and of the gate in front of it.
THEOREM GateInvariant == GateSpec => [](EventInv /\ AgesInv)
<1>1. GateInit => EventInv /\ AgesInv
  BY EventInitInv, AgesInit DEF GateInit
<1>2. EventInv /\ AgesInv /\ [GateNext]_gateVars => (EventInv /\ AgesInv)'
  <2>1. [GateNext]_gateVars => [EventNext]_eventVars
    BY GateStepKeepsEvents DEF GateNext, GateStep, gateVars, eventVars
  <2>. QED  BY <2>1, EventNextInv, AgesNext
<1>. QED  BY <1>1, <1>2, PTL DEF GateSpec

\* createConfig, approveEvent and publishEvent judge a status they read earlier;
\* still, whatever interleaves or dies, an event past DRAFT has a configuration,
\* and what is on sale was approved by an administrator.
THEOREM GateIsSafe == GateSpec => []GateInv
<1>1. EventInv /\ AgesInv => GateInv
  BY DEF EventInv, AgesInv, GateInv, PublishedEventsWereApproved, ApprovedByAdmin
<1>. QED  BY <1>1, GateInvariant, PTL

\* Nothing takes a published event off sale but an approval that was slow.
THEOREM PublishedStays == GateSpec => PublishedUntilStaleApproval
<1>1. /\ EventInv /\ [GateNext]_gateVars
      => [status = "PUBLISHED" /\ status' # "PUBLISHED" =>
            \E c \in Calls : at[c].write = "approve" /\ at[c].saw = "CONFIGURED" /\ at'[c] = Idle]_eventVars
  <2>1. [GateNext]_gateVars => [EventNext]_eventVars
    BY GateStepKeepsEvents DEF GateNext, GateStep, gateVars, eventVars
  <2>. QED  BY <2>1, PublishedMoves
<1>. QED  BY <1>1, GateInvariant, PTL DEF GateSpec, PublishedUntilStaleApproval

\* event_gate.go: a join is judged by rules of at most one lifetime and one
\* flight ago, and an outage reaches only those who waited for it.
THEOREM AnswersStayRecent == GateSpec => AnswersAreRecent
<1>1. /\ AgesInv /\ EventInv /\ [GateNext]_gateVars
      => [\A j \in Joiners : Answered(j) =>
            /\ ToldAge(j) <= TTL + Budget - 1
            /\ Told(j) = "unavailable" => joiner[j] = "aboard"]_gateVars
  BY AnswersAreYoung
<1>. QED  BY <1>1, GateInvariant, PTL DEF GateSpec, AnswersAreRecent
=============================================================================
