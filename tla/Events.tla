-------------------------------- MODULE Events --------------------------------
(***************************************************************************)
(* event-svc: the life of one event, DRAFT -> CONFIGURED -> APPROVED ->    *)
(* PUBLISHED, and its configuration.  Every handler reads the event,       *)
(* judges what it read, and then writes without looking again; createConfig*)
(* writes twice.  Handlers of any number of callers interleave, as many at *)
(* once as there are members of Calls: a finished call leaves its place to *)
(* the next.  The descriptive fields update() writes are left out: nothing *)
(* here or in a caller branches on them.                                   *)
(***************************************************************************)
CONSTANTS
  Calls,   \* places for requests under way at one time
  Users,
  Role,    \* Role[u]: the role u holds on the event, "none" for a stranger
  Rules    \* configurations an organiser may choose

ASSUME RoleAssumption == Role \in [Users -> {"ADMIN", "EDITOR", "VIEWER", "none"}]
ASSUME RulesAssumption == Rules # {} /\ "none" \notin Rules

VARIABLES
  status,     \* the row's status, "none" before it is inserted
  config,     \* the configuration row, "none" before it is inserted
  at,         \* at[c]: the write the request at c is about to make, and what it read
  approver,   \* the user whose approval was written last
  stuck       \* a createConfig died between its two writes

eventVars == <<status, config, at, approver, stuck>>

CanEdit == {"ADMIN", "EDITOR"}
ApproveFrom == "CONFIGURED"
PublishFrom == "APPROVED"

Idle == [write |-> "nothing", saw |-> "none", user |-> "nobody"]
Begins(c, write, u) ==
  /\ at[c] = Idle
  /\ at' = [at EXCEPT ![c] = [write |-> write, saw |-> status, user |-> u]]
Writing(c, write) == at[c].write = write
Ends(c) == at' = [at EXCEPT ![c] = Idle]

\* assertRole
MayDo(u, allowed) == status # "none" /\ Role[u] \in allowed

-----------------------------------------------------------------------------
\* The event and its creator's ADMIN role are one insert.
CreateEvent(u) ==
  /\ status = "none" /\ Role[u] = "ADMIN"
  /\ status' = "DRAFT"
  /\ UNCHANGED <<config, at, approver, stuck>>

\* Mutant: the status goes first.
AdvanceBeforeConfig(c, u) ==
  /\ MayDo(u, CanEdit) /\ Begins(c, "config", "nobody")
  /\ status' = IF status = "DRAFT" THEN "CONFIGURED" ELSE status
  /\ UNCHANGED <<config, approver, stuck>>

BeginConfig(c, u) ==
  /\ MayDo(u, CanEdit) /\ Begins(c, "config", "nobody")
  /\ UNCHANGED <<status, config, approver, stuck>>

\* Mutant: the key of event_configs is not the event.
CreateConfigAgain(c, r) ==
  /\ Writing(c, "config")
  /\ config' = r
  /\ IF at[c].saw = "DRAFT" THEN at' = [at EXCEPT ![c].write = "advance"] ELSE Ends(c)
  /\ UNCHANGED <<status, approver, stuck>>

\* eventId is unique: a second configuration is refused.  Only a draft, by the
\* status that was read, goes on to advance.
CreateConfig(c, r) ==
  /\ Writing(c, "config")
  /\ config' = IF config = "none" THEN r ELSE config
  /\ IF config = "none" /\ at[c].saw = "DRAFT"
     THEN at' = [at EXCEPT ![c].write = "advance"]
     ELSE Ends(c)
  /\ UNCHANGED <<status, approver, stuck>>

\* Mutant: the test of the status is turned round.
AdvanceNever(c) ==
  /\ Writing(c, "advance") /\ Ends(c)
  /\ status' = IF at[c].saw = "DRAFT" THEN status ELSE "CONFIGURED"
  /\ UNCHANGED <<config, approver, stuck>>

AdvanceDraft(c) ==
  /\ Writing(c, "advance") /\ Ends(c)
  /\ status' = "CONFIGURED"
  /\ UNCHANGED <<config, approver, stuck>>

BeginReconfig(c, u) ==
  /\ MayDo(u, CanEdit) /\ Begins(c, "reconfig", "nobody")
  /\ UNCHANGED <<status, config, approver, stuck>>

\* No row to update is an error.
UpdateConfig(c, r) ==
  /\ Writing(c, "reconfig") /\ Ends(c)
  /\ config' = IF config = "none" THEN config ELSE r
  /\ UNCHANGED <<status, approver, stuck>>

\* Mutant: an editor may open the gate before publish.
BeginApproveAsEditor(c, u) ==
  /\ MayDo(u, CanEdit) /\ status = ApproveFrom /\ Begins(c, "approve", u)
  /\ UNCHANGED <<status, config, approver, stuck>>

BeginApprove(c, u) ==
  /\ MayDo(u, {"ADMIN"}) /\ status = ApproveFrom /\ Begins(c, "approve", u)
  /\ UNCHANGED <<status, config, approver, stuck>>

ApproveEvent(c) ==
  /\ Writing(c, "approve") /\ Ends(c)
  /\ status' = "APPROVED"
  /\ approver' = at[c].user
  /\ UNCHANGED <<config, stuck>>

BeginPublish(c, u) ==
  /\ MayDo(u, CanEdit) /\ status = PublishFrom /\ Begins(c, "publish", "nobody")
  /\ UNCHANGED <<status, config, approver, stuck>>

PublishEvent(c) ==
  /\ Writing(c, "publish") /\ Ends(c)
  /\ status' = "PUBLISHED"
  /\ UNCHANGED <<config, approver, stuck>>

\* The pod dies, or the database refuses a write.
CallDies(c) ==
  /\ at[c] # Idle /\ Ends(c)
  /\ stuck' = (stuck \/ Writing(c, "advance"))
  /\ UNCHANGED <<status, config, approver>>

-----------------------------------------------------------------------------
EventInit ==
  /\ status = "none" /\ config = "none"
  /\ at = [c \in Calls |-> Idle]
  /\ approver = "nobody" /\ stuck = FALSE

Writes(c) == \/ AdvanceDraft(c) \/ ApproveEvent(c) \/ PublishEvent(c)
             \/ \E r \in Rules : CreateConfig(c, r) \/ UpdateConfig(c, r)

EventNext ==
  \/ \E u \in Users : CreateEvent(u)
  \/ \E c \in Calls, u \in Users :
       BeginConfig(c, u) \/ BeginReconfig(c, u) \/ BeginApprove(c, u) \/ BeginPublish(c, u)
  \/ \E c \in Calls : Writes(c) \/ CallDies(c)

EventSpec == EventInit /\ [][EventNext]_eventVars

-----------------------------------------------------------------------------
EventTypeOK ==
  /\ status \in {"none", "DRAFT", "CONFIGURED", "APPROVED", "PUBLISHED"}
  /\ config \in Rules \cup {"none"}
  /\ \A c \in Calls :
       /\ at[c].write \in {"nothing", "config", "advance", "reconfig", "approve", "publish"}
       /\ at[c].saw \in {"none", "DRAFT", "CONFIGURED", "APPROVED", "PUBLISHED"}
       /\ at[c].user \in Users \cup {"nobody"}
  /\ stuck \in BOOLEAN

\* order-svc and waitroom-svc ask for the rules of any event they find: whatever
\* dies or interleaves, an event past DRAFT has a configuration.
AdvancedEventsHaveRules == status \notin {"none", "DRAFT"} => config # "none"

\* "Approving is the gate before publish": what is on sale was approved by an
\* administrator, although publish only looks at the status it read.
PublishedEventsWereApproved ==
  status = "PUBLISHED" => approver \in Users /\ Role[approver] = "ADMIN"

\* "Configuring a live event must not un-publish it", nor does anything else take
\* it off sale but one step: the write of an approval that read the event before
\* it was published.
PublishedUntilStaleApproval ==
  [][status = "PUBLISHED" /\ status' # "PUBLISHED" =>
       \E c \in Calls : at[c].write = "approve" /\ at[c].saw = "CONFIGURED" /\ at'[c] = Idle]_eventVars

\* A configured draft moves on by itself, unless the call that configured it died
\* in between; then no call can advance it.
ConfiguredDraftsAdvance ==
  status = "DRAFT" /\ config # "none" ~> status # "DRAFT" \/ stuck
=============================================================================
