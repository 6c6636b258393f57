---------------------------- MODULE EventRouter ----------------------------
(* From a stored message to the commands of the agents it wakes: the       *)
(* event_outbox table, the CDC poller that claims its rows, the in-memory  *)
(* channel, and the router loop that plans, records and publishes.         *)
(*                                                                         *)
(* Every step of the router makes at most one database call.  A call may   *)
(* fail, before or after it took effect.  A node may crash, losing its     *)
(* poller, channel and router; the tables survive.                         *)
EXTENDS RoutingPolicy, Naturals, Sequences

CONSTANTS Events,           \* outbox ids, in creation order
          Messages,         \* what may be sent
          Settings,         \* how the conversation may be configured
          Nodes,            \* pipeline node ids
          NoEvent,
          ClaimBatch,       \* batch_size of the poller
          ChannelSize,      \* capacity of the CDC channel
          DeadLetterAfter,  \* OUTBOX_DEAD_LETTER_AFTER_ATTEMPTS
          MaxEdits, MaxEarlyLapses, MaxCrashes, MaxFaults

ASSUME EventsAssumption == Events \subseteq Nat /\ NoEvent \notin Messages
ASSUME SettingsAssumption == Settings \subseteq Setting
ASSUME LimitsAssumption == {ClaimBatch, ChannelSize, DeadLetterAfter} \subseteq Nat \ {0}

VARIABLES event,     \* conversation_events: the message, or NoEvent
          outbox,    \* event_outbox rows
          visible,   \* mailbox_visibility: pairs of event and agent
          decision,  \* route_decisions
          sessions,  \* agents with a session_registry row
          command,   \* agent_commands: pairs of event and agent
          letters,   \* number of dead_letters rows of an outbox entry
          setting,   \* the conversation's configuration
          steady,    \* history: agents that have been members throughout
          gone,      \* how far its deletion has come
          poller,    \* per node: claimed rows not yet sent
          channel,   \* per node: rows waiting for the router
          router,    \* per node: the router's progress with one row
          edits, lapses, crashes, faults

tables == <<event, outbox, visible, decision, sessions, command, letters>>
memory == <<poller, channel, router>>
bounds == <<edits, lapses, crashes, faults>>
conversation == <<setting, steady, gone>>
vars == <<tables, conversation, memory, bounds>>

Pairs == Events \X Agents

(* A row's attempt_count grows with every claim, so it also stands for the *)
(* claimed_at of the latest claim.  live: claim_deadline is not yet over.  *)
OutboxRow == [state : {"absent", "unpublished", "published"},
              claimed_by : Nodes \cup {Nobody}, live : BOOLEAN, attempts : Nat]

(* A row as the poller read it: its id and the attempt_count of its claim. *)
Copy == [id : Events, attempts : Nat]

RouterAt == {"idle", "parse", "name", "members", "plan", "loop", "decide", "session",
             "command", "dead_letter"}

Idle == [at |-> "idle", id |-> 0, attempts |-> 0, msg |-> NoEvent, dm |-> FALSE,
         roster |-> {}, plan |-> {}, todo |-> {}, who |-> Nobody]

Init ==
    /\ event = [e \in Events |-> NoEvent]
    /\ outbox = [e \in Events |-> [state |-> "absent", claimed_by |-> Nobody,
                                   live |-> FALSE, attempts |-> 0]]
    /\ visible = {} /\ sessions = {} /\ command = {}
    /\ decision = [p \in Pairs |-> "none"]
    /\ letters = [e \in Events |-> 0]
    /\ setting \in Settings
    /\ steady = setting.members
    /\ gone = "no"
    /\ poller = [n \in Nodes |-> {}]
    /\ channel = [n \in Nodes |-> << >>]
    /\ router = [n \in Nodes |-> Idle]
    /\ edits = 0 /\ lapses = 0 /\ crashes = 0 /\ faults = 0

-----------------------------------------------------------------------------
(* The conversation: messages, configuration, deletion.                    *)

\* The event and its outbox row are written by one transaction.  The
\* conversation was looked up before it, without a lock, so the insert may
\* even follow the deletion.
send_message(e, m) ==
    /\ outbox[e].state = "absent"
    /\ \A d \in Events : d < e => outbox[d].state # "absent"
    /\ event' = [event EXCEPT ![e] = m]
    /\ outbox' = [outbox EXCEPT ![e].state = "unpublished"]
    /\ UNCHANGED <<visible, decision, sessions, command, letters, conversation,
                   memory, bounds>>

\* Members, modes, coordinator, task or bindings are changed through the
\* gateway.  A conversation stays direct or a group.
Reconfigure(s) ==
    /\ gone # "deleted"
    /\ s # setting /\ s.direct = setting.direct
    /\ edits < MaxEdits
    /\ edits' = edits + 1
    /\ setting' = s
    /\ steady' = steady \cap s.members
    /\ UNCHANGED <<tables, gone, memory, lapses, crashes, faults>>

\* Two statements outside a transaction: first the events, then the
\* conversation with its members and tasks.
delete_conversation ==
    \/ /\ gone = "no" /\ edits < MaxEdits
       /\ edits' = edits + 1
       /\ gone' = "emptied"
       /\ event' = [e \in Events |-> NoEvent]
       /\ UNCHANGED <<outbox, visible, decision, sessions, command, letters, setting,
                      steady, memory, lapses, crashes, faults>>
    \/ /\ gone = "emptied"
       /\ gone' = "deleted"
       /\ setting' = [setting EXCEPT !.members = {}, !.direct = FALSE,
                                       !.known = FALSE]
       /\ steady' = {}
       /\ UNCHANGED <<tables, memory, bounds>>

-----------------------------------------------------------------------------
(* The poller.                                                             *)

\* Wrong version: a claim whose deadline is over is not taken again.
ClaimableOnce(e) == outbox[e].state = "unpublished" /\ outbox[e].claimed_by = Nobody

Claimable(e) == outbox[e].state = "unpublished" /\ ~outbox[e].live

\* The oldest claimable rows, at most a batch of them.
ClaimedRows ==
    {e \in Events : /\ Claimable(e)
                    /\ Cardinality({d \in Events : Claimable(d) /\ d < e}) < ClaimBatch}

Claim(n) ==
    outbox' = [e \in Events |->
        IF e \in ClaimedRows
        THEN [outbox[e] EXCEPT !.claimed_by = n, !.live = TRUE, !.attempts = @ + 1]
        ELSE outbox[e]]

\* The poller asks again once it has sent everything.  UPDATE ... RETURNING
\* has no order, so the rows of a batch are sent in any.
claim_unpublished_entries(n) ==
    /\ poller[n] = {}
    /\ ClaimedRows # {}
    /\ Claim(n)
    /\ \/ /\ poller' = [poller EXCEPT ![n] =
                            {[id |-> e, attempts |-> outbox[e].attempts + 1] : e \in ClaimedRows}]
          /\ UNCHANGED faults
       \/ /\ faults < MaxFaults          \* claimed, but the answer is lost
          /\ faults' = faults + 1
          /\ UNCHANGED poller
    /\ UNCHANGED <<event, visible, decision, sessions, command, letters, conversation,
                   channel, router, edits, lapses, crashes>>

\* Wrong version: the channel is unbounded.
SendUnbounded(n) ==
    \E c \in poller[n] :
        /\ channel' = [channel EXCEPT ![n] = Append(@, c)]
        /\ poller' = [poller EXCEPT ![n] = @ \ {c}]
        /\ UNCHANGED <<tables, conversation, router, bounds>>

SendEntry(n) ==
    \E c \in poller[n] :
        /\ Len(channel[n]) < ChannelSize
        /\ channel' = [channel EXCEPT ![n] = Append(@, c)]
        /\ poller' = [poller EXCEPT ![n] = @ \ {c}]
        /\ UNCHANGED <<tables, conversation, router, bounds>>

\* Somebody still holds a row of the latest claim in memory.
InFlight(e) ==
    LET current(c) == c.id = e /\ c.attempts = outbox[e].attempts
    IN  \E n \in Nodes :
            \/ \E c \in poller[n] : current(c)
            \/ \E i \in 1 .. Len(channel[n]) : current(channel[n][i])
            \/ router[n].at # "idle" /\ current(router[n])

\* claim_deadline passes.  While the row is in flight this means that the
\* channel is longer than the lease, which is bounded.
Lapse(e) ==
    /\ outbox[e].state = "unpublished" /\ outbox[e].live
    /\ outbox' = [outbox EXCEPT ![e].live = FALSE]
    /\ IF InFlight(e) THEN lapses < MaxEarlyLapses /\ lapses' = lapses + 1
                      ELSE UNCHANGED lapses
    /\ UNCHANGED <<event, visible, decision, sessions, command, letters, conversation,
                   memory, edits, crashes, faults>>

-----------------------------------------------------------------------------
(* The router loop.                                                        *)

\* What a routing step never touches, besides the tables it does not name.
routing == <<conversation, poller, channel, edits, lapses, crashes>>

Goes(n, r) == router' = [router EXCEPT ![n] = r]

At(n, step) == router[n].at = step

\* Wrong version: the limit is compared as if the next claim had happened.
DeadLetterEarly(r) == r.attempts + 1 >= DeadLetterAfter

should_dead_letter_outbox(r) == r.attempts >= DeadLetterAfter

\* Routing returned an error: the row is left to its lease, or given up.
RouteFailed(n) ==
    Goes(n, IF should_dead_letter_outbox(router[n])
            THEN [router[n] EXCEPT !.at = "dead_letter"] ELSE Idle)

\* Wrong version: an error is logged and routing goes on.
CallSwallowed(n, effect, r) ==
    \/ effect /\ Goes(n, r) /\ UNCHANGED faults
    \/ /\ faults < MaxFaults
       /\ faults' = faults + 1
       /\ Goes(n, r)
       /\ effect \/ UNCHANGED tables

(* A call that leads to r, or fails: then it may or may not have been      *)
(* applied, and routing returns an error.                                  *)
Call(n, effect, r) ==
    \/ effect /\ Goes(n, r) /\ UNCHANGED faults
    \/ /\ faults < MaxFaults
       /\ faults' = faults + 1
       /\ RouteFailed(n)
       /\ effect \/ UNCHANGED tables

Receive(n) ==
    /\ At(n, "idle")
    /\ channel[n] # << >>
    /\ Goes(n, [Idle EXCEPT !.at = "parse", !.id = Head(channel[n]).id,
                            !.attempts = Head(channel[n]).attempts])
    /\ channel' = [channel EXCEPT ![n] = Tail(@)]
    /\ UNCHANGED <<tables, conversation, poller, bounds>>

\* A row whose event no longer exists is given up at once.
parse_outbox_event(n) ==
    /\ At(n, "parse")
    /\ Call(n, UNCHANGED tables,
            [router[n] EXCEPT !.msg = event[router[n].id],
                              !.at = IF event[router[n].id] = NoEvent
                                     THEN "dead_letter" ELSE "name"])
    /\ UNCHANGED routing

\* The one lookup whose failure is swallowed: the conversation then counts
\* as a group.
resolve_conversation_name(n) ==
    /\ At(n, "name")
    /\ \/ Goes(n, [router[n] EXCEPT !.at = "members", !.dm = setting.direct]) /\ UNCHANGED faults
       \/ /\ faults < MaxFaults
          /\ faults' = faults + 1
          /\ Goes(n, [router[n] EXCEPT !.at = "members"])
    /\ UNCHANGED <<tables, routing>>

list_agent_members(n) ==
    /\ At(n, "members")
    /\ Call(n, UNCHANGED tables, [router[n] EXCEPT !.at = "plan", !.roster = setting.members])
    /\ UNCHANGED routing

\* Policies, coordinator and task are read after the members.  The sender
\* gets no row of any kind.
PlanRoutes(n) ==
    LET m == router[n].msg
        roster == router[n].roster
    IN
    /\ At(n, "plan")
    /\ Call(n, UNCHANGED tables,
            [router[n] EXCEPT !.at = "loop",
                              !.plan = plan_routes(m, roster, setting, router[n].dm),
                              !.todo = active_agent_ids(m, roster)])
    /\ UNCHANGED routing

write_visibility(n) ==
    \E a \in router[n].todo :
        /\ At(n, "loop")
        /\ Call(n,
                /\ visible' = visible \cup {<<router[n].id, a>>}
                /\ UNCHANGED <<event, outbox, decision, sessions, command, letters>>,
                [router[n] EXCEPT !.at = "decide", !.who = a])
        /\ UNCHANGED routing

MemberDone(r) == [r EXCEPT !.at = "loop", !.todo = @ \ {r.who}, !.who = Nobody]

Planned(r) == IF r.who \in r.plan THEN "trigger" ELSE "skip"

\* Wrong version: a redelivery replaces the stored decision.
PersistedLatest(r) == Planned(r)

\* The first decision of a message and an agent stays.
Persisted(r) ==
    LET p == <<r.id, r.who>>
    IN  IF decision[p] = "none" THEN Planned(r) ELSE decision[p]

StoreDecision(r) ==
    /\ decision' = [decision EXCEPT ![<<r.id, r.who>>] = Persisted(r)]
    /\ UNCHANGED <<event, outbox, visible, sessions, command, letters>>

write_decision(n) ==
    LET r == router[n]
    IN
    /\ At(n, "decide")
    /\ Call(n, StoreDecision(r),
            IF Persisted(r) = "trigger" THEN [r EXCEPT !.at = "session"] ELSE MemberDone(r))
    /\ UNCHANGED routing

\* write_command, first call.
upsert_session(n) ==
    /\ At(n, "session")
    /\ Call(n,
            /\ sessions' = sessions \cup {router[n].who}
            /\ UNCHANGED <<event, outbox, visible, decision, command, letters>>,
            [router[n] EXCEPT !.at = "command"])
    /\ UNCHANGED routing

\* write_command, second call.  A command that exists is kept; an agent
\* whose binding is disabled or whose device is revoked refuses a new one,
\* which ends the routing of the whole message with an error.
insert_command(n) ==
    LET p == <<router[n].id, router[n].who>>
    IN
    /\ At(n, "command")
    /\ IF router[n].who \in setting.blocked /\ p \notin command
       THEN RouteFailed(n) /\ UNCHANGED <<tables, faults>>
       ELSE Call(n,
                 /\ command' = command \cup {p}
                 /\ UNCHANGED <<event, outbox, visible, decision, sessions, letters>>,
                 MemberDone(router[n]))
    /\ UNCHANGED routing

Publish(e) == [outbox EXCEPT ![e].state = "published"]

\* Any claim of this node will do.  A failure is only logged.
mark_published(n) ==
    LET e == router[n].id
    IN
    /\ At(n, "loop") /\ router[n].todo = {}
    /\ Goes(n, Idle)
    /\ \/ /\ outbox' = IF outbox[e].claimed_by = n THEN Publish(e) ELSE outbox
          /\ UNCHANGED faults
       \/ /\ faults < MaxFaults
          /\ faults' = faults + 1
          /\ outbox' \in {outbox, IF outbox[e].claimed_by = n THEN Publish(e) ELSE outbox}
    /\ UNCHANGED <<event, visible, decision, sessions, command, letters, routing>>

\* Unpublished and still under the claim this copy was read with.
StillOwned(n) ==
    LET row == outbox[router[n].id]
    IN  /\ row.state = "unpublished"
        /\ row.claimed_by = n
        /\ row.attempts = router[n].attempts

DeadLettered(n) ==
    LET e == router[n].id
    IN  IF StillOwned(n)
        THEN outbox' = Publish(e) /\ letters' = [letters EXCEPT ![e] = @ + 1]
        ELSE UNCHANGED <<outbox, letters>>

dead_letter_outbox_entry(n) ==
    /\ At(n, "dead_letter")
    /\ Goes(n, Idle)
    /\ \/ DeadLettered(n) /\ UNCHANGED faults
       \/ /\ faults < MaxFaults
          /\ faults' = faults + 1
          /\ DeadLettered(n) \/ UNCHANGED <<outbox, letters>>
    /\ UNCHANGED <<event, visible, decision, sessions, command, routing>>

\* The node dies and is started again with the same id.
Crash(n) ==
    /\ crashes < MaxCrashes
    /\ crashes' = crashes + 1
    /\ poller' = [poller EXCEPT ![n] = {}]
    /\ channel' = [channel EXCEPT ![n] = << >>]
    /\ Goes(n, Idle)
    /\ UNCHANGED <<tables, conversation, edits, lapses, faults>>

-----------------------------------------------------------------------------
PollerStep(n) == claim_unpublished_entries(n) \/ SendEntry(n)

RouterStep(n) ==
    \/ Receive(n)
    \/ parse_outbox_event(n)
    \/ resolve_conversation_name(n)
    \/ list_agent_members(n)
    \/ PlanRoutes(n)
    \/ write_visibility(n)
    \/ write_decision(n)
    \/ upsert_session(n)
    \/ insert_command(n)
    \/ mark_published(n)
    \/ dead_letter_outbox_entry(n)

Next ==
    \/ \E e \in Events, m \in Messages : send_message(e, m)
    \/ \E s \in Settings : Reconfigure(s)
    \/ delete_conversation
    \/ \E n \in Nodes : PollerStep(n) \/ RouterStep(n) \/ Crash(n)
    \/ \E e \in Events : Lapse(e)

Spec == Init /\ [][Next]_vars

\* Poller and router are loops of a running node; a deadline passes.
FairSpec ==
    /\ Spec
    /\ \A n \in Nodes : WF_vars(PollerStep(n)) /\ WF_vars(RouterStep(n))
    /\ \A e \in Events : WF_vars(Lapse(e))

-----------------------------------------------------------------------------
(* Types, and the capacity of the CDC channel.                             *)
TypeOK ==
    /\ event \in [Events -> Messages \cup {NoEvent}]
    /\ outbox \in [Events -> OutboxRow]
    /\ visible \subseteq Pairs /\ command \subseteq Pairs /\ sessions \subseteq Agents
    /\ decision \in [Pairs -> {"none", "trigger", "skip"}]
    /\ letters \in [Events -> Nat]
    /\ gone \in {"no", "emptied", "deleted"}
    /\ \A n \in Nodes : poller[n] \subseteq Copy /\ channel[n] \in Seq(Copy)
    /\ \A n \in Nodes : Len(channel[n]) <= ChannelSize
    /\ \A n \in Nodes : router[n].at \in RouterAt /\ router[n].who \in Agents \cup {Nobody}

\* Handled without being given up.
Routed(e) == outbox[e].state = "published" /\ letters[e] = 0

\* The agents that are certain to be among the members the router reads.
Permanent(e) == steady \ {event[e].sender}

(* Every command of route_event has its audit trail: the agent sees the    *)
(* message, the stored decision says trigger, the session exists.  This    *)
(* must hold through redeliveries under changed policies, which compute    *)
(* another plan than the one that was stored.                              *)
TrailBeforeCommand ==
    \A p \in command : p \in visible /\ decision[p] = "trigger" /\ p[2] \in sessions

(* An outbox row is marked published only after routing succeeded          *)
(* (run_router_loop): every member who stayed has a decision, and a        *)
(* command where it says trigger, whatever crashed or failed in between.   *)
PublishedIsRouted ==
    \A e \in Events : Routed(e) /\ gone = "no" =>
        \A a \in Permanent(e) :
            /\ decision[<<e, a>>] # "none"
            /\ decision[<<e, a>>] = "trigger" => <<e, a>> \in command

(* write_decision keeps the first decision of a message and an agent: a    *)
(* redelivery after a policy change cannot turn a skip into a second       *)
(* opinion, nor withdraw a trigger whose command may be running.           *)
DecisionsAreFinal ==
    [][\A p \in Pairs : decision[p] # "none" => decision'[p] = decision[p]]_vars

(* dead_letter_outbox_entry checks the claim it was called for, so a row   *)
(* that was claimed again meanwhile gets at most one dead letter.          *)
OneLetterPerEntry == \A e \in Events : letters[e] <= 1

(* An existing message is given up only after DeadLetterAfter claims, even *)
(* if some of them ended in crashes or lapsed in the channel.              *)
DeadLetterAfterBudget ==
    \A e \in Events : letters[e] > 0 /\ event[e] # NoEvent =>
        outbox[e].attempts >= DeadLetterAfter

(* A message is given up at most once, and not before its claims are used  *)
(* up.                                                                     *)
GivenUpOnce == OneLetterPerEntry /\ DeadLetterAfterBudget

(* Somebody is woken: while nothing is reconfigured, a workflow message,   *)
(* or a human's untagged message in a coordinator_only group, that names   *)
(* nobody reaches at least the coordinator (workflow_target_plan falls     *)
(* back to it), and a direct message reaches its agent even when           *)
(* resolve_conversation_name failed.                                       *)
CoordinatorIsWoken ==
    \A e \in Events : Routed(e) /\ edits = 0 =>
        LET m == event[e]
            unnamed == m.for = {} /\ explicit_targets(m, setting.members) = {}
            coordinated == /\ ~setting.direct
                           /\ active_coordinator(m, setting.members, setting) # {}
                           /\ m.flow # NoFlow \/ (m.human /\ setting.untagged = "coordinator_only")
            direct == setting.direct /\ m.flow = NoFlow /\ Permanent(e) # {}
        IN  unnamed /\ (coordinated \/ direct) => \E a \in Agents : <<e, a>> \in command

(* Every stored message is eventually routed or given up: a claim that was *)
(* lost with a crash or a failed answer lapses and is taken again.         *)
EveryEventHandled ==
    \A e \in Events : outbox[e].state = "unpublished" ~> outbox[e].state = "published"
=============================================================================
