------------------------------- MODULE EventGate -------------------------------
(***************************************************************************)
(* waitroom-svc's eventGate in front of event-svc: the rules of one event, *)
(* read through a cache, concurrent misses collapsed into one flight.      *)
(* Joiners, the flight and event-svc's own callers interleave, and time    *)
(* passes between any two of their steps.                                  *)
(*                                                                         *)
(* Time is counted in units: a cached verdict lives TTL of them, and a     *)
(* flight at most Budget, its fetchTimeout.                                *)
(***************************************************************************)
EXTENDS Events, Naturals

CONSTANTS Joiners, TTL, Budget

ASSUME GateAssumption == TTL \in Nat \ {0} /\ Budget \in Nat \ {0}
ASSUME VerdictAssumption == Rules \cap {"no event", "no config", "unavailable", "nothing"} = {}

VARIABLES
  cached,   \* the entry: a verdict, the time it has left, the time since it was read
  flight,   \* the fetch under way, and its answer once it has one
  joiner    \* joiner[j]: where the Get of j stands

gateVars == <<status, config, at, approver, stuck, cached, flight, joiner>>

Verdicts == Rules \cup {"no event", "no config"}
Nothing == [verdict |-> "nothing", left |-> 0, age |-> 0]
Landed == [step |-> "none", verdict |-> "nothing", left |-> 0, age |-> 0]

Fresh == cached.left > 0
Steps(j, from, to) == joiner[j] = from /\ joiner' = [joiner EXCEPT ![j] = to]
InFlight(step) == flight.step = step

\* What a joiner is told before it may ask again: at once, or when the flight it is on lands.
Told(j) == IF joiner[j] = "asking" THEN cached.verdict ELSE flight.verdict
ToldAge(j) == IF joiner[j] = "asking" THEN cached.age ELSE flight.age

-----------------------------------------------------------------------------
Ask(j) ==
  /\ Steps(j, "away", "asking")
  /\ UNCHANGED <<eventVars, cached, flight>>

Hit(j) ==
  /\ Fresh /\ Steps(j, "asking", "away")
  /\ UNCHANGED <<eventVars, cached, flight>>

Miss(j) ==
  /\ ~ Fresh /\ Steps(j, "asking", "missed")
  /\ UNCHANGED <<eventVars, cached, flight>>

\* group.Do: on board of the flight under way, or of a new one.
Board(j) ==
  /\ Steps(j, "missed", "aboard")
  /\ flight' = IF InFlight("none") THEN [step |-> "event", verdict |-> "nothing", left |-> Budget, age |-> 0]
               ELSE flight
  /\ UNCHANGED <<eventVars, cached>>

\* FindOne
FetchEvent ==
  /\ InFlight("event")
  /\ flight' = IF status = "none" THEN [flight EXCEPT !.step = "store", !.verdict = "no event"]
               ELSE [flight EXCEPT !.step = "config"]
  /\ UNCHANGED <<eventVars, cached, joiner>>

\* Mutant: an answer without a configuration is taken for one.
FetchConfigUnchecked ==
  /\ InFlight("config")
  /\ flight' = [flight EXCEPT !.step = "store", !.verdict = config]
  /\ UNCHANGED <<eventVars, cached, joiner>>

\* GetConfig
FetchConfig ==
  /\ InFlight("config")
  /\ flight' = [flight EXCEPT !.step = "store", !.verdict = IF config = "none" THEN "no config" ELSE config]
  /\ UNCHANGED <<eventVars, cached, joiner>>

\* Mutant: a failure is remembered like a decision.
FetchFailsForAll ==
  /\ InFlight("event") \/ InFlight("config")
  /\ flight' = [flight EXCEPT !.step = "store", !.verdict = "unavailable"]
  /\ UNCHANGED <<eventVars, cached, joiner>>

\* event-svc cannot be reached, or the flight's time is over.
FetchFails ==
  /\ InFlight("event") \/ InFlight("config")
  /\ flight' = [flight EXCEPT !.step = "land", !.verdict = "unavailable", !.age = 0]
  /\ UNCHANGED <<eventVars, cached, joiner>>

\* Mutant: the entry's time starts when the flight's would be over.
StoreFromDeadline ==
  /\ InFlight("store")
  /\ cached' = [verdict |-> flight.verdict, left |-> TTL + Budget, age |-> flight.age]
  /\ flight' = [flight EXCEPT !.step = "land"]
  /\ UNCHANGED <<eventVars, joiner>>

Store ==
  /\ InFlight("store")
  /\ cached' = [verdict |-> flight.verdict, left |-> TTL, age |-> flight.age]
  /\ flight' = [flight EXCEPT !.step = "land"]
  /\ UNCHANGED <<eventVars, joiner>>

\* Mutant: only the joiner that started the flight is told.
LandForOne ==
  /\ InFlight("land")
  /\ \E j \in Joiners : Steps(j, "aboard", "away")
  /\ flight' = Landed
  /\ UNCHANGED <<eventVars, cached>>

\* Everyone on board is told, whoever of them hung up.
Land ==
  /\ InFlight("land")
  /\ joiner' = [j \in Joiners |-> IF joiner[j] = "aboard" THEN "away" ELSE joiner[j]]
  /\ flight' = Landed
  /\ UNCHANGED <<eventVars, cached>>

\* A flight whose time is over fails before time goes on.
Overdue == flight.step # "none" /\ flight.left = 0

Older(entry) ==
  [entry EXCEPT !.left = IF @ = 0 THEN 0 ELSE @ - 1,
                !.age = IF entry.verdict \in Verdicts THEN @ + 1 ELSE @]

\* An expired entry is never served again.
Pass ==
  /\ ~ Overdue /\ (Fresh \/ ~ InFlight("none"))
  /\ cached' = IF cached.left <= 1 THEN Nothing ELSE Older(cached)
  /\ flight' = IF InFlight("none") THEN flight ELSE Older(flight)
  /\ UNCHANGED <<eventVars, joiner>>

-----------------------------------------------------------------------------
GateInit ==
  /\ EventInit
  /\ cached = Nothing /\ flight = Landed
  /\ joiner = [j \in Joiners |-> "away"]

Flight == FetchEvent \/ FetchConfig \/ FetchFails \/ Store \/ Land

GateNext ==
  \/ EventNext /\ UNCHANGED <<cached, flight, joiner>>
  \/ Flight \/ Pass
  \/ \E j \in Joiners : Ask(j) \/ Hit(j) \/ Miss(j) \/ Board(j)

GateSpec == GateInit /\ [][GateNext]_gateVars

\* A flight ends, in an answer or in its timeout; a Get that was called goes on;
\* a handler of event-svc that passed its checks writes, or dies.
FairGateSpec ==
  /\ GateSpec
  /\ WF_gateVars(Flight)
  /\ \A j \in Joiners : WF_gateVars(Hit(j) \/ Miss(j) \/ Board(j))
  /\ \A c \in Calls : WF_gateVars((Writes(c) \/ CallDies(c)) /\ UNCHANGED <<cached, flight, joiner>>)

-----------------------------------------------------------------------------
GateTypeOK ==
  /\ EventTypeOK
  /\ cached \in [verdict : Verdicts \cup {"nothing", "unavailable"}, left : Nat, age : Nat]
  /\ flight \in [step : {"none", "event", "config", "store", "land"},
                 verdict : Verdicts \cup {"nothing", "unavailable"}, left : 0..Budget, age : 0..Budget]
  /\ joiner \in [Joiners -> {"away", "asking", "missed", "aboard"}]

Answered(j) == joiner[j] # "away" /\ joiner'[j] = "away"

\* What holds between any two requests of event-svc and any two steps of the
\* gate: an event past DRAFT has rules, what is on sale was approved by an
\* administrator, and no answer is taken for what it is not.
GateInv == GateTypeOK /\ AdvancedEventsHaveRules /\ PublishedEventsWereApproved

\* A join is judged by rules event-svc held at most a TTL and one flight ago,
\* however entries, slow fetches and late passengers overlap; and "dependency
\* failures are not stored": an outage is told to the joiners that were waiting
\* for the failed fetch, and to nobody who asks after it.
AnswersAreRecent ==
  [][\A j \in Joiners : Answered(j) =>
       /\ ToldAge(j) <= TTL + Budget - 1
       /\ Told(j) = "unavailable" => joiner[j] = "aboard"]_gateVars

\* Whatever flight a joiner ends up on, its question is answered.
JoinersAreAnswered == \A j \in Joiners : joiner[j] = "asking" ~> joiner[j] = "away"
=============================================================================
