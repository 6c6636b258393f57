-------------------------- MODULE EventRouterProofs --------------------------
(* What the outbox, the poller and the router guarantee for any number of   *)
(* messages, agents and nodes: first what one step does to each of their    *)
(* tables (types, growth, the moves of a router), then the theorems.        *)
EXTENDS EventRouter, TLAPS

\* Zenon proves a leaf that does not ask for another prover.
USE ZenonT(30)

RouterRow == [at : RouterAt, id : Events \cup {0}, attempts : Nat,
              msg : Messages \cup {NoEvent}, dm : BOOLEAN, roster : SUBSET Agents,
              plan : SUBSET Agents, todo : SUBSET Agents, who : Agents \cup {Nobody}]

(* The domains of all variables; TypeOK follows.                            *)
Types ==
    /\ event \in [Events -> Messages \cup {NoEvent}]
    /\ outbox \in [Events -> OutboxRow]
    /\ visible \subseteq Pairs /\ command \subseteq Pairs /\ sessions \subseteq Agents
    /\ decision \in [Pairs -> {"none", "trigger", "skip"}]
    /\ letters \in [Events -> Nat]
    /\ gone \in {"no", "emptied", "deleted"}
    /\ setting \in Setting
    /\ poller \in [Nodes -> SUBSET Copy]
    /\ channel \in [Nodes -> Seq(Copy)]
    /\ router \in [Nodes -> RouterRow]
    /\ edits \in Nat

(* A row in the hands of a node is in the table.                            *)
Stored(e) == outbox[e].state # "absent"

PollerHeld == \A n \in Nodes : \A c \in poller[n] : Stored(c.id)

ChannelHeld ==
    \A n \in Nodes : /\ Len(channel[n]) <= ChannelSize
                     /\ \A i \in 1 .. Len(channel[n]) : Stored(channel[n][i].id)

RouterHeld ==
    \A n \in Nodes :
        /\ router[n].at # "idle" => router[n].id \in Events /\ Stored(router[n].id)
        /\ router[n].at \in {"decide", "session", "command"} => router[n].who \in Agents

Held == PollerHeld /\ ChannelHeld /\ RouterHeld

(* The channel without its first copy.                                      *)
LEMMA TailShape ==
    ASSUME NEW S, NEW q \in Seq(S), q # << >>
    PROVE  /\ \A n \in Nat : Len(q) <= n => Len(Tail(q)) <= n
           /\ \A i \in 1 .. Len(Tail(q)) : i + 1 \in 1 .. Len(q) /\ Tail(q)[i] = q[i + 1]
<1>1. Len(q) \in Nat /\ Len(Tail(q)) = Len(q) - 1
  BY SMT
<1>2. \A i \in 1 .. Len(Tail(q)) : Tail(q)[i] = q[i + 1]
  BY SMT
<1>3. \A i \in 1 .. Len(Tail(q)) : i + 1 \in 1 .. Len(q)
  BY <1>1, SMT
<1>4. \A n \in Nat : Len(q) <= n => Len(Tail(q)) <= n
  BY <1>1, SMT
<1> QED
  BY <1>2, <1>3, <1>4

(* The plan names only members, whichever branch of plan_routes made it.    *)
LEMMA PlanWithinMembers ==
    ASSUME NEW m, NEW M, NEW s, NEW dm
    PROVE  plan_routes(m, M, s, dm) \subseteq M
<1>1. explicit_targets(m, M) \subseteq M
  BY DEF explicit_targets
<1>2. policy_fallback_plan(m, M, s) \subseteq M
  BY DEF policy_fallback_plan
<1>3. active_agent_ids(m, M) \subseteq M
  BY DEF active_agent_ids
<1>4. active_coordinator(m, M, s) \subseteq M
  BY <1>3 DEF active_coordinator
<1>5. workflow_target_plan(m, M, s) \subseteq M
  BY <1>3, <1>4 DEF workflow_target_plan
<1>6. untagged_human_plan(m, M, s) \subseteq M
  BY <1>2, <1>3, <1>4 DEF untagged_human_plan
<1> QED
  BY <1>1, <1>2, <1>5, <1>6 DEF plan_routes

LEMMA IdleRow == Idle \in RouterRow
  BY DEF Idle, RouterRow, RouterAt

(* What the updates of a row leave a row.                                   *)
LEMMA RowUpdates ==
    ASSUME NEW r \in RouterRow, NEW at \in RouterAt
    PROVE  /\ [r EXCEPT !.at = at] \in RouterRow
           /\ \A m \in Messages \cup {NoEvent} :
                  [r EXCEPT !.msg = m, !.at = at] \in RouterRow
           /\ \A d \in BOOLEAN : [r EXCEPT !.at = at, !.dm = d] \in RouterRow
           /\ \A M \in SUBSET Agents : [r EXCEPT !.at = at, !.roster = M] \in RouterRow
           /\ \A P, T \in SUBSET Agents :
                  [r EXCEPT !.at = at, !.plan = P, !.todo = T] \in RouterRow
           /\ \A a \in Agents : [r EXCEPT !.at = at, !.who = a] \in RouterRow
           /\ \A T \in SUBSET Agents :
                  [r EXCEPT !.at = at, !.todo = T, !.who = Nobody] \in RouterRow
           /\ \A e \in Events, k \in Nat :
                  [r EXCEPT !.at = at, !.id = e, !.attempts = k] \in RouterRow
  BY DEF RouterRow

LEMMA OutboxUpdates ==
    ASSUME NEW r \in OutboxRow
    PROVE  /\ \A s \in {"absent", "unpublished", "published"} :
                  [r EXCEPT !.state = s] \in OutboxRow
           /\ [r EXCEPT !.live = FALSE] \in OutboxRow
           /\ \A n \in Nodes, k \in Nat :
                  [r EXCEPT !.claimed_by = n, !.live = TRUE, !.attempts = k] \in OutboxRow
           /\ r.attempts + 1 \in Nat
<1>1. \A n \in Nodes, k \in Nat :
          [r EXCEPT !.claimed_by = n, !.live = TRUE, !.attempts = k] \in OutboxRow
  BY DEF OutboxRow
<1>2. [r EXCEPT !.live = FALSE] \in OutboxRow
  BY DEF OutboxRow
<1>3. \A s \in {"absent", "unpublished", "published"} : [r EXCEPT !.state = s] \in OutboxRow
  BY DEF OutboxRow
<1>4. r.attempts + 1 \in Nat
  BY SMT DEF OutboxRow
<1> QED
  BY <1>1, <1>2, <1>3, <1>4

LEMMA InitTypes == Init => Types /\ Held
<1> SUFFICES ASSUME Init PROVE Types /\ Held
  OBVIOUS
<1>1. outbox \in [Events -> OutboxRow] /\ letters \in [Events -> Nat]
  BY DEF Init, OutboxRow
<1>2. setting \in Setting
  BY SettingsAssumption DEF Init
<1>3. router \in [Nodes -> RouterRow] /\ poller \in [Nodes -> SUBSET Copy]
  BY IdleRow DEF Init
<1>4. channel \in [Nodes -> Seq(Copy)] /\ \A n \in Nodes : Len(channel[n]) = 0
  BY SMT DEF Init
<1>5. Types
  BY <1>1, <1>2, <1>3, <1>4 DEF Types, Init
<1>6. Held
  BY <1>4, LimitsAssumption, SMT DEF Init, Held, PollerHeld, ChannelHeld, RouterHeld, Idle
<1> QED
  BY <1>5, <1>6

(* The rows a router may be left with after a failed call.                  *)
LEMMA FailedRow ==
    ASSUME Types, NEW n \in Nodes, RouteFailed(n)
    PROVE  \E r \in RouterRow : /\ Goes(n, r)
                                /\ r = Idle \/ (/\ r = [router[n] EXCEPT !.at = "dead_letter"]
                                                /\ router[n].attempts >= DeadLetterAfter)
<1>1. [router[n] EXCEPT !.at = "dead_letter"] \in RouterRow
  BY RowUpdates DEF Types, RouterAt
<1> QED
  BY <1>1, IdleRow DEF RouteFailed, should_dead_letter_outbox

LEMMA MovedTypes ==
    ASSUME Types, NEW n \in Nodes, NEW r \in RouterRow, Goes(n, r)
    PROVE  router' \in [Nodes -> RouterRow]
  BY DEF Types, Goes

LEMMA CallTypes ==
    ASSUME Types, NEW n \in Nodes, NEW effect, NEW r \in RouterRow, Call(n, effect, r)
    PROVE  router' \in [Nodes -> RouterRow] /\ (effect \/ UNCHANGED tables)
<1>1. CASE effect /\ Goes(n, r)
  BY <1>1, MovedTypes
<1>2. CASE RouteFailed(n) /\ (effect \/ UNCHANGED tables)
  BY <1>2, FailedRow, MovedTypes
<1> QED
  BY <1>1, <1>2 DEF Call

LEMMA PublishTypes ==
    ASSUME Types, NEW e \in Events
    PROVE  Publish(e) \in [Events -> OutboxRow]
  BY OutboxUpdates DEF Types, Publish

LEMMA DoneRow ==
    ASSUME Types, NEW n \in Nodes
    PROVE  MemberDone(router[n]) \in RouterRow
<1>1. router[n].todo \ {router[n].who} \in SUBSET Agents
  BY DEF Types, RouterRow
<1> QED
  BY <1>1, RowUpdates DEF Types, RouterAt, MemberDone

LEMMA StepTypes == Types /\ Held /\ [Next]_vars => Types'
<1> SUFFICES ASSUME Types, Held, [Next]_vars PROVE Types'
  OBVIOUS
<1> USE DEF tables, conversation, memory, bounds
<1>1. CASE UNCHANGED vars
  BY <1>1 DEF vars, Types
<1>2. ASSUME NEW e \in Events, NEW m \in Messages, send_message(e, m) PROVE Types'
  <2>1. outbox' \in [Events -> OutboxRow]
    BY <1>2, OutboxUpdates DEF send_message, Types
  <2> QED
    BY <1>2, <2>1 DEF send_message, Types
<1>3. ASSUME NEW s \in Settings, Reconfigure(s) PROVE Types'
  BY <1>3, SettingsAssumption, SMT DEF Reconfigure, Types
<1>4. CASE delete_conversation
  <2>1. setting' \in Setting
    BY <1>4 DEF delete_conversation, Types, Setting
  <2> QED
    BY <1>4, <2>1, SMT DEF delete_conversation, Types
<1>5. ASSUME NEW n \in Nodes, claim_unpublished_entries(n) PROVE Types'
  <2>1. outbox' \in [Events -> OutboxRow]
    <3>1. \A e \in Events : outbox[e].attempts + 1 \in Nat /\ outbox[e] \in OutboxRow
      BY OutboxUpdates DEF Types
    <3>2. \A e \in Events : [outbox[e] EXCEPT !.claimed_by = n, !.live = TRUE,
                                             !.attempts = @ + 1] \in OutboxRow
      BY <3>1, OutboxUpdates
    <3> QED
      BY <1>5, <3>1, <3>2 DEF claim_unpublished_entries, Claim
  <2>2. {[id |-> e, attempts |-> outbox[e].attempts + 1] : e \in ClaimedRows} \subseteq Copy
    <3>1. \A e \in ClaimedRows : e \in Events /\ outbox[e].attempts + 1 \in Nat
      BY OutboxUpdates DEF Types, ClaimedRows
    <3> QED
      BY <3>1, SMT DEF Copy
  <2>3. poller' \in [Nodes -> SUBSET Copy]
    BY <1>5, <2>2 DEF claim_unpublished_entries, Types
  <2> QED
    BY <1>5, <2>1, <2>3 DEF claim_unpublished_entries, Types
<1>6. ASSUME NEW n \in Nodes, SendEntry(n) PROVE Types'
  <2> PICK c \in poller[n] : /\ channel' = [channel EXCEPT ![n] = Append(@, c)]
                             /\ poller' = [poller EXCEPT ![n] = @ \ {c}]
                             /\ UNCHANGED <<tables, conversation, router, bounds>>
    BY <1>6 DEF SendEntry
  <2>1. c \in Copy /\ Append(channel[n], c) \in Seq(Copy)
    BY SMT DEF Types
  <2> QED
    BY <2>1 DEF Types
<1>7. ASSUME NEW n \in Nodes, Receive(n) PROVE Types'
  <2>1. Head(channel[n]) \in Copy /\ Tail(channel[n]) \in Seq(Copy)
    BY <1>7, SMT DEF Receive, Types
  <2>2. [Idle EXCEPT !.at = "parse", !.id = Head(channel[n]).id,
                     !.attempts = Head(channel[n]).attempts] \in RouterRow
    BY <2>1, IdleRow, RowUpdates DEF RouterAt, Copy
  <2>3. router' \in [Nodes -> RouterRow]
    BY <1>7, <2>2, MovedTypes DEF Receive
  <2> QED
    BY <1>7, <2>1, <2>3 DEF Receive, Types
<1>8. ASSUME NEW n \in Nodes, parse_outbox_event(n) PROVE Types'
  <2> DEFINE r == [router[n] EXCEPT !.msg = event[router[n].id],
                              !.at = IF event[router[n].id] = NoEvent
                                     THEN "dead_letter" ELSE "name"]
  <2>1. event[router[n].id] \in Messages \cup {NoEvent}
    BY <1>8 DEF parse_outbox_event, At, Held, RouterHeld, Types
  <2>2. r \in RouterRow
    <3> DEFINE at == IF event[router[n].id] = NoEvent THEN "dead_letter" ELSE "name"
    <3>1. at \in RouterAt
      BY ONLY Zenon DEF RouterAt, at
    <3>2. router[n] \in RouterRow
      BY DEF Types
    <3> HIDE DEF at
    <3>3. [router[n] EXCEPT !.msg = event[router[n].id], !.at = at] \in RouterRow
      BY ONLY <2>1, <3>1, <3>2, RowUpdates, Zenon
    <3> QED
      BY <3>3 DEF at
  <2>3. Call(n, UNCHANGED tables, r)
    BY <1>8 DEF parse_outbox_event
  <2>4. router' \in [Nodes -> RouterRow] /\ UNCHANGED tables
    BY ONLY <2>2, <2>3, CallTypes, Types, n \in Nodes, Zenon
  <2> QED
    BY <1>8, <2>4 DEF parse_outbox_event, routing, Types
<1>9. ASSUME NEW n \in Nodes, resolve_conversation_name(n) PROVE Types'
  <2>1. /\ [router[n] EXCEPT !.at = "members", !.dm = setting.direct] \in RouterRow
        /\ [router[n] EXCEPT !.at = "members"] \in RouterRow
    BY RowUpdates DEF Types, RouterAt, Setting
  <2>2. router' \in [Nodes -> RouterRow]
    BY <1>9, <2>1, MovedTypes DEF resolve_conversation_name
  <2> QED
    BY <1>9, <2>2 DEF resolve_conversation_name, routing, Types
<1>10. ASSUME NEW n \in Nodes, list_agent_members(n) PROVE Types'
  <2> DEFINE r == [router[n] EXCEPT !.at = "plan", !.roster = setting.members]
  <2>1. r \in RouterRow
    <3>1. setting.members \in SUBSET Agents
      BY DEF Types, Setting
    <3> QED
      BY <3>1, RowUpdates DEF Types, RouterAt
  <2>2. Call(n, UNCHANGED tables, r)
    BY <1>10 DEF list_agent_members
  <2>3. router' \in [Nodes -> RouterRow] /\ UNCHANGED tables
    BY ONLY <2>1, <2>2, CallTypes, Types, n \in Nodes, Zenon
  <2> QED
    BY <1>10, <2>3 DEF list_agent_members, routing, Types
<1>11. ASSUME NEW n \in Nodes, PlanRoutes(n) PROVE Types'
  <2> DEFINE plan == plan_routes(router[n].msg, router[n].roster, setting, router[n].dm)
             todo == active_agent_ids(router[n].msg, router[n].roster)
             r == [router[n] EXCEPT !.at = "loop", !.plan = plan, !.todo = todo]
  <2>1. plan \subseteq Agents /\ todo \subseteq Agents
    BY PlanWithinMembers DEF Types, RouterRow, active_agent_ids
  <2>2. r \in RouterRow
    <3> HIDE DEF plan, todo
    <3> QED
      BY <2>1, RowUpdates DEF Types, RouterAt
  <2>3. Call(n, UNCHANGED tables, r)
    BY <1>11 DEF PlanRoutes
  <2>4. router' \in [Nodes -> RouterRow] /\ UNCHANGED tables
    BY ONLY <2>2, <2>3, CallTypes, Types, n \in Nodes, Zenon
  <2> QED
    BY <1>11, <2>4 DEF PlanRoutes, routing, Types
<1>12. ASSUME NEW n \in Nodes, write_visibility(n) PROVE Types'
  <2> DEFINE effect(a) == /\ visible' = visible \cup {<<router[n].id, a>>}
                          /\ UNCHANGED <<event, outbox, decision, sessions, command, letters>>
             r(a) == [router[n] EXCEPT !.at = "decide", !.who = a]
  <2>1. PICK a \in router[n].todo : Call(n, effect(a), r(a))
    BY <1>12 DEF write_visibility
  <2>2. a \in Agents /\ r(a) \in RouterRow /\ router[n].id \in Events
    <3>1. a \in Agents
      BY DEF Types, RouterRow
    <3>2. r(a) \in RouterRow
      BY <3>1, RowUpdates DEF Types, RouterAt
    <3>3. router[n].id \in Events
      BY <1>12 DEF write_visibility, At, Held, RouterHeld
    <3> QED
      BY <3>1, <3>2, <3>3
  <2>3. router' \in [Nodes -> RouterRow] /\ (effect(a) \/ UNCHANGED tables)
    <3> HIDE DEF effect, r
    <3> QED
      BY ONLY <2>1, <2>2, CallTypes, Types, n \in Nodes
  <2> QED
    BY <1>12, <2>2, <2>3 DEF write_visibility, routing, Types, Pairs
<1>13. ASSUME NEW n \in Nodes, write_decision(n) PROVE Types'
  <2> DEFINE r == IF Persisted(router[n]) = "trigger"
                  THEN [router[n] EXCEPT !.at = "session"] ELSE MemberDone(router[n])
             effect == StoreDecision(router[n])
  <2>1. r \in RouterRow
    BY RowUpdates, DoneRow DEF Types, RouterAt
  <2>2. Call(n, effect, r)
    BY <1>13 DEF write_decision
  <2>3. router' \in [Nodes -> RouterRow] /\ (effect \/ UNCHANGED tables)
    <3> HIDE DEF effect, r
    <3> QED
      BY ONLY <2>1, <2>2, CallTypes, Types, n \in Nodes
  <2>4. <<router[n].id, router[n].who>> \in Pairs
    BY <1>13 DEF write_decision, At, Held, RouterHeld, Pairs
  <2>5. Persisted(router[n]) \in {"none", "trigger", "skip"}
    BY <2>4 DEF Persisted, Planned, Types
  <2> QED
    BY <1>13, <2>3, <2>5 DEF write_decision, routing, StoreDecision, Types
<1>14. ASSUME NEW n \in Nodes, upsert_session(n) PROVE Types'
  <2> DEFINE r == [router[n] EXCEPT !.at = "command"]
             effect == /\ sessions' = sessions \cup {router[n].who}
                       /\ UNCHANGED <<event, outbox, visible, decision, command, letters>>
  <2>1. r \in RouterRow
    BY RowUpdates DEF Types, RouterAt
  <2>2. Call(n, effect, r)
    BY <1>14 DEF upsert_session
  <2>3. router' \in [Nodes -> RouterRow] /\ (effect \/ UNCHANGED tables)
    <3> HIDE DEF effect, r
    <3> QED
      BY ONLY <2>1, <2>2, CallTypes, Types, n \in Nodes
  <2>4. router[n].who \in Agents
    BY <1>14 DEF upsert_session, At, Held, RouterHeld
  <2> QED
    BY <1>14, <2>3, <2>4 DEF upsert_session, routing, Types
<1>15. ASSUME NEW n \in Nodes, insert_command(n) PROVE Types'
  <2> DEFINE p == <<router[n].id, router[n].who>>
             effect == /\ command' = command \cup {p}
                       /\ UNCHANGED <<event, outbox, visible, decision, sessions, letters>>
  <2>1. p \in Pairs
    BY <1>15 DEF insert_command, At, Held, RouterHeld, Pairs
  <2>2. \/ RouteFailed(n) /\ UNCHANGED tables
        \/ Call(n, effect, MemberDone(router[n]))
    BY <1>15 DEF insert_command
  <2>3. router' \in [Nodes -> RouterRow] /\ (effect \/ UNCHANGED tables)
    <3>1. CASE RouteFailed(n) /\ UNCHANGED tables
      BY <3>1, FailedRow, MovedTypes
    <3>2. CASE Call(n, effect, MemberDone(router[n]))
      <4> HIDE DEF effect
      <4> QED
        BY ONLY <3>2, CallTypes, DoneRow, Types, n \in Nodes
    <3> QED
      BY <2>2, <3>1, <3>2
  <2> QED
    BY <1>15, <2>1, <2>3 DEF insert_command, routing, Types
<1>16. ASSUME NEW n \in Nodes, mark_published(n) PROVE Types'
  <2>1. router[n].id \in Events
    BY <1>16 DEF mark_published, At, Held, RouterHeld
  <2>2. outbox' \in [Events -> OutboxRow]
    BY <1>16, <2>1, PublishTypes DEF mark_published, Types
  <2>3. router' \in [Nodes -> RouterRow]
    BY <1>16, IdleRow, MovedTypes DEF mark_published
  <2> QED
    BY <1>16, <2>2, <2>3 DEF mark_published, routing, Types
<1>17. ASSUME NEW n \in Nodes, dead_letter_outbox_entry(n) PROVE Types'
  <2>1. router[n].id \in Events
    BY <1>17 DEF dead_letter_outbox_entry, At, Held, RouterHeld
  <2>2. outbox' \in [Events -> OutboxRow]
    BY <1>17, <2>1, PublishTypes DEF dead_letter_outbox_entry, DeadLettered, Types
  <2>4. letters' \in [Events -> Nat]
    <3>1. letters' = letters \/ letters' = [letters EXCEPT ![router[n].id] = @ + 1]
      BY <1>17 DEF dead_letter_outbox_entry, DeadLettered
    <3>2. letters \in [Events -> Nat]
      BY DEF Types
    <3> QED
      BY ONLY <2>1, <3>1, <3>2
  <2>3. router' \in [Nodes -> RouterRow]
    BY <1>17, IdleRow, MovedTypes DEF dead_letter_outbox_entry
  <2> QED
    BY <1>17, <2>2, <2>3, <2>4 DEF dead_letter_outbox_entry, routing, Types
<1>18. ASSUME NEW n \in Nodes, Crash(n) PROVE Types'
  <2>1. router' \in [Nodes -> RouterRow]
    BY <1>18, IdleRow, MovedTypes DEF Crash
  <2>2. channel' \in [Nodes -> Seq(Copy)]
    <3>1. << >> \in Seq(Copy)
      BY SMT
    <3> QED
      BY <1>18, <3>1 DEF Crash, Types
  <2>3. poller' \in [Nodes -> SUBSET Copy]
    BY <1>18 DEF Crash, Types
  <2> QED
    BY <1>18, <2>1, <2>2, <2>3 DEF Crash, Types
<1>19. ASSUME NEW e \in Events, Lapse(e) PROVE Types'
  <2>1. outbox' \in [Events -> OutboxRow]
    BY <1>19, OutboxUpdates DEF Lapse, Types
  <2> QED
    BY <1>19, <2>1 DEF Lapse, Types
<1> QED
  BY <1>1, <1>2, <1>3, <1>4, <1>5, <1>6, <1>7, <1>8, <1>9, <1>10, <1>11, <1>12, <1>13,
     <1>14, <1>15, <1>16, <1>17, <1>18, <1>19, Zenon
     DEF Next, PollerStep, RouterStep

(* What no step takes back: rows, trails, commands; a stored message is     *)
(* only ever deleted, and no agent becomes a permanent member later.        *)
Grows ==
    /\ \A e \in Events : Stored(e) => outbox'[e].state # "absent"
    /\ \A e \in Events : Stored(e) => event'[e] = event[e] \/ (gone' # "no" /\ event'[e] = NoEvent)
    /\ gone' = "no" => gone = "no"
    /\ visible \subseteq visible' /\ sessions \subseteq sessions' /\ command \subseteq command'
    /\ \A p \in Pairs : decision[p] # "none" => decision'[p] = decision[p]
    /\ steady' \subseteq steady
    /\ \A e \in Events : outbox'[e].attempts >= outbox[e].attempts

LEMMA PublishGrows ==
    ASSUME Types, NEW e \in Events, NEW d \in Events
    PROVE  /\ Publish(e)[d].attempts = outbox[d].attempts
           /\ Stored(d) => Publish(e)[d].state # "absent"
  BY DEF Types, OutboxRow, Publish, Stored

LEMMA ClaimedRow ==
    ASSUME NEW r \in OutboxRow, NEW n
    PROVE  LET c == [r EXCEPT !.claimed_by = n, !.live = TRUE, !.attempts = @ + 1]
           IN  c.state = r.state /\ c.claimed_by = n /\ c.attempts = r.attempts + 1
  BY DEF OutboxRow

LEMMA StepGrows == Types /\ Held /\ [Next]_vars => Grows
<1> SUFFICES ASSUME Types, Held, [Next]_vars PROVE Grows
  OBVIOUS
<1> USE DEF tables, conversation, memory, bounds
<1>0. \A e \in Events : outbox[e] \in OutboxRow /\ outbox[e].attempts \in Nat
  BY DEF Types, OutboxRow
<1>1. CASE UNCHANGED <<tables, conversation>>
  BY <1>0, <1>1, SMT DEF Grows, Stored
<1>2. ASSUME NEW e \in Events, NEW m \in Messages, send_message(e, m) PROVE Grows
  BY <1>0, <1>2, SMT DEF send_message, Grows, Stored, Types, OutboxRow
<1>3. ASSUME NEW s \in Settings, Reconfigure(s) PROVE Grows
  BY <1>0, <1>3, SMT DEF Reconfigure, Grows, Stored
<1>4. CASE delete_conversation
  BY <1>0, <1>4, SMT DEF delete_conversation, Grows, Stored
<1>5. ASSUME NEW n \in Nodes, claim_unpublished_entries(n) PROVE Grows
  <2>1. \A e \in Events : /\ outbox'[e].state = outbox[e].state
                          /\ outbox'[e].attempts >= outbox[e].attempts
    <3> SUFFICES ASSUME NEW e \in Events
                 PROVE  /\ outbox'[e].state = outbox[e].state
                        /\ outbox'[e].attempts >= outbox[e].attempts
      OBVIOUS
    <3> DEFINE c == [outbox[e] EXCEPT !.claimed_by = n, !.live = TRUE, !.attempts = @ + 1]
    <3>1. outbox'[e] = outbox[e] \/ outbox'[e] = c
      BY <1>5 DEF claim_unpublished_entries, Claim
    <3>2. c.state = outbox[e].state /\ c.attempts = outbox[e].attempts + 1
      BY <1>0, ClaimedRow
    <3> HIDE DEF c
    <3> QED
      BY <1>0, <3>1, <3>2, SMT
  <2> QED
    BY <1>5, <2>1 DEF claim_unpublished_entries, Grows, Stored
<1>6. ASSUME NEW n \in Nodes, SendEntry(n) \/ Receive(n) \/ Crash(n) PROVE Grows
  BY <1>1, <1>6 DEF SendEntry, Receive, Crash
<1>7. ASSUME NEW n \in Nodes, parse_outbox_event(n) \/ resolve_conversation_name(n)
                              \/ list_agent_members(n) \/ PlanRoutes(n)
      PROVE  Grows
  BY <1>1, <1>7 DEF parse_outbox_event, resolve_conversation_name, list_agent_members,
                    PlanRoutes, Call, routing
<1>8. ASSUME NEW n \in Nodes, write_visibility(n) PROVE Grows
  BY <1>0, <1>8, SMT DEF write_visibility, Call, routing, Grows, Stored
<1>9. ASSUME NEW n \in Nodes, write_decision(n) PROVE Grows
  <2>1. CASE StoreDecision(router[n])
    <3>1. \A p \in Pairs : decision[p] # "none" => decision'[p] = decision[p]
      BY <2>1 DEF StoreDecision, Persisted, Types
    <3> QED
      BY <1>0, <1>9, <2>1, <3>1, SMT DEF write_decision, StoreDecision, routing, Grows, Stored
  <2> QED
    BY <1>1, <1>9, <2>1 DEF write_decision, Call, routing
<1>10. ASSUME NEW n \in Nodes, upsert_session(n) PROVE Grows
  BY <1>0, <1>10, SMT DEF upsert_session, Call, routing, Grows, Stored
<1>11. ASSUME NEW n \in Nodes, insert_command(n) PROVE Grows
  BY <1>0, <1>11, SMT DEF insert_command, Call, routing, Grows, Stored
<1>12. ASSUME NEW n \in Nodes, mark_published(n) PROVE Grows
  <2>1. router[n].id \in Events /\ outbox' \in {outbox, Publish(router[n].id)}
    BY <1>12 DEF mark_published, At, Held, RouterHeld
  <2>2. \A d \in Events : /\ outbox'[d].attempts = outbox[d].attempts
                          /\ Stored(d) => outbox'[d].state # "absent"
    BY <2>1, PublishGrows DEF Stored
  <2> QED
    BY <1>0, <1>12, <2>2, SMT DEF mark_published, routing, Grows
<1>13. ASSUME NEW n \in Nodes, dead_letter_outbox_entry(n) PROVE Grows
  <2>1. router[n].id \in Events /\ outbox' \in {outbox, Publish(router[n].id)}
    BY <1>13 DEF dead_letter_outbox_entry, DeadLettered, At, Held, RouterHeld
  <2>2. \A d \in Events : /\ outbox'[d].attempts = outbox[d].attempts
                          /\ Stored(d) => outbox'[d].state # "absent"
    BY <2>1, PublishGrows DEF Stored
  <2> QED
    BY <1>0, <1>13, <2>2, SMT DEF dead_letter_outbox_entry, routing, Grows
<1>14. ASSUME NEW e \in Events, Lapse(e) PROVE Grows
  BY <1>0, <1>14, SMT DEF Lapse, Grows, Stored, Types, OutboxRow
<1> QED
  BY <1>1, <1>2, <1>3, <1>4, <1>5, <1>6, <1>7, <1>8, <1>9, <1>10, <1>11, <1>12, <1>13, <1>14
     DEF Next, PollerStep, RouterStep, vars

(* The only ways a router's state changes.                                  *)
RouterMoves(n) ==
    \/ Receive(n) \/ parse_outbox_event(n) \/ resolve_conversation_name(n)
    \/ list_agent_members(n) \/ PlanRoutes(n) \/ write_visibility(n) \/ write_decision(n)
    \/ upsert_session(n) \/ insert_command(n) \/ mark_published(n)
    \/ dead_letter_outbox_entry(n) \/ Crash(n)

LEMMA RouterChanges ==
    ASSUME Types, [Next]_vars, NEW n \in Nodes
    PROVE  router'[n] = router[n] \/ RouterMoves(n)
<1> USE DEF tables, conversation, memory, bounds
<1>1. ASSUME NEW k \in Nodes, RouterMoves(k), k # n PROVE router'[n] = router[n]
  <2>1. \E r : Goes(k, r)
    BY <1>1 DEF RouterMoves, Receive, parse_outbox_event, resolve_conversation_name,
                list_agent_members, PlanRoutes, write_visibility, write_decision,
                upsert_session, insert_command, mark_published, dead_letter_outbox_entry,
                Crash, Call, RouteFailed
  <2> QED
    BY <1>1, <2>1 DEF Goes, Types
<1>2. CASE UNCHANGED router
  BY <1>2
<1>3. ASSUME NEW k \in Nodes, PollerStep(k) PROVE UNCHANGED router
  BY <1>3 DEF PollerStep, claim_unpublished_entries, SendEntry
<1>4. CASE \/ \E e \in Events, m \in Messages : send_message(e, m)
           \/ \E s \in Settings : Reconfigure(s)
           \/ delete_conversation
           \/ \E e \in Events : Lapse(e)
           \/ UNCHANGED vars
  BY <1>2, <1>4 DEF send_message, Reconfigure, delete_conversation, Lapse, vars
<1> QED
  BY <1>1, <1>2, <1>3, <1>4 DEF Next, RouterStep, RouterMoves

(* What a router's move leaves in its row.                                  *)
LEMMA CallMoves ==
    ASSUME Types, NEW n \in Nodes, NEW effect, NEW r, Call(n, effect, r)
    PROVE  \/ router'[n] = r /\ effect
           \/ router'[n] = Idle /\ (effect \/ UNCHANGED tables)
           \/ /\ router'[n] = [router[n] EXCEPT !.at = "dead_letter"]
              /\ router[n].attempts >= DeadLetterAfter
              /\ effect \/ UNCHANGED tables
  BY DEF Types, Call, Goes, RouteFailed, should_dead_letter_outbox

(* A move of a router, told by its state before (r) and after (q).          *)
Moved(r, q) ==
    \/ q = Idle
    \/ /\ r.at # "idle" /\ r.attempts >= DeadLetterAfter
       /\ q.at = "dead_letter" /\ q.id = r.id /\ q.attempts = r.attempts
    \/ /\ r.at = "idle" /\ q.at = "parse" /\ q.id \in Events /\ Stored(q.id)
       /\ q.dm = FALSE
    \/ /\ r.at = "parse" /\ event[r.id] = NoEvent
       /\ q.at = "dead_letter" /\ q.id = r.id
    \/ /\ r.at = "parse" /\ q.at = "name" /\ q.id = r.id /\ q.msg = event[r.id]
       /\ q.dm = r.dm
    \/ /\ r.at = "name" /\ q.at = "members" /\ q.id = r.id /\ q.msg = r.msg
       /\ q.dm \in {r.dm, setting.direct}
    \/ /\ r.at = "members" /\ q.at = "plan" /\ q.id = r.id /\ q.msg = r.msg
       /\ q.dm = r.dm /\ q.roster = setting.members
    \/ /\ r.at = "plan" /\ q.at = "loop" /\ q.id = r.id /\ q.msg = r.msg
       /\ q.roster = r.roster
       /\ q.plan = plan_routes(r.msg, r.roster, setting, r.dm)
       /\ q.todo = active_agent_ids(r.msg, r.roster)
    \/ /\ q.id = r.id /\ q.msg = r.msg /\ q.roster = r.roster /\ q.plan = r.plan
       /\ \/ /\ r.at = "loop" /\ q.at = "decide" /\ q.todo = r.todo
             /\ q.who \in r.todo /\ <<q.id, q.who>> \in visible'
          \/ /\ r.at = "decide" /\ q.at = "session" /\ q.todo = r.todo /\ q.who = r.who
             /\ Persisted(r) = "trigger"
             /\ decision'[<<r.id, r.who>>] = "trigger"
          \/ /\ r.at = "decide" /\ q.at = "loop" /\ q.todo = r.todo \ {r.who}
             /\ Persisted(r) = "skip"
             /\ decision'[<<r.id, r.who>>] = "skip"
          \/ /\ r.at = "session" /\ q.at = "command" /\ q.todo = r.todo /\ q.who = r.who
             /\ r.who \in sessions'
          \/ /\ r.at = "command" /\ q.at = "loop" /\ q.todo = r.todo \ {r.who}
             /\ <<r.id, r.who>> \in command'

LEMMA MovesAreMoved ==
    ASSUME Types, Held, NEW n \in Nodes, RouterMoves(n)
    PROVE  Moved(router[n], router'[n])
<1> DEFINE r == router[n]
           q == router'[n]
<1> USE DEF tables, conversation, memory, bounds
<1>0. r \in RouterRow
  BY DEF Types
<1>1. ASSUME NEW effect, NEW x, Call(n, effect, x), r.at # "idle"
      PROVE  Moved(r, q) \/ (q = x /\ effect)
  <2>1. CASE q = [r EXCEPT !.at = "dead_letter"] /\ r.attempts >= DeadLetterAfter
    BY <1>0, <1>1, <2>1 DEF RouterRow, Moved
  <2> QED
    BY <1>1, <2>1, CallMoves DEF Moved
<1>2. CASE Receive(n)
  <2>1. channel[n] \in Seq(Copy) /\ channel[n] # << >>
    BY <1>2 DEF Receive, Types
  <2>2. Head(channel[n]) = channel[n][1] /\ 1 \in 1 .. Len(channel[n]) /\ Head(channel[n]) \in Copy
    BY <2>1, SMT
  <2>3. Head(channel[n]).id \in Events /\ Stored(Head(channel[n]).id)
    BY <2>2 DEF Held, ChannelHeld, Copy
  <2>4. /\ r.at = "idle"
        /\ q = [Idle EXCEPT !.at = "parse", !.id = Head(channel[n]).id,
                            !.attempts = Head(channel[n]).attempts]
    BY <1>2 DEF Receive, At, Goes, Types
  <2> QED
    BY <2>3, <2>4 DEF Moved, Idle
<1>3. CASE parse_outbox_event(n)
  <2> DEFINE x == [r EXCEPT !.msg = event[r.id],
                            !.at = IF event[r.id] = NoEvent THEN "dead_letter" ELSE "name"]
  <2>1. r.at = "parse" /\ Call(n, UNCHANGED tables, x)
    BY <1>3 DEF parse_outbox_event, At
  <2>2. CASE q = x
    BY <1>0, <2>1, <2>2 DEF Moved, RouterRow
  <2> HIDE DEF x
  <2> QED
    BY <1>1, <2>1, <2>2
<1>4. CASE resolve_conversation_name(n)
  <2>1. /\ r.at = "name"
        /\ \/ q = [r EXCEPT !.at = "members", !.dm = setting.direct]
           \/ q = [r EXCEPT !.at = "members"]
    BY <1>4 DEF resolve_conversation_name, At, Goes, Types
  <2> QED
    BY <1>0, <2>1 DEF Moved, RouterRow
<1>5. CASE list_agent_members(n)
  <2> DEFINE x == [r EXCEPT !.at = "plan", !.roster = setting.members]
  <2>1. r.at = "members" /\ Call(n, UNCHANGED tables, x)
    BY <1>5 DEF list_agent_members, At
  <2>2. CASE q = x
    BY <1>0, <2>1, <2>2 DEF Moved, RouterRow
  <2> HIDE DEF x
  <2> QED
    BY <1>1, <2>1, <2>2
<1>6. CASE PlanRoutes(n)
  <2> DEFINE x == [r EXCEPT !.at = "loop", !.plan = plan_routes(r.msg, r.roster, setting, r.dm),
                            !.todo = active_agent_ids(r.msg, r.roster)]
  <2>1. r.at = "plan" /\ Call(n, UNCHANGED tables, x)
    BY <1>6 DEF PlanRoutes, At
  <2>2. CASE q = x
    BY <1>0, <2>1, <2>2 DEF Moved, RouterRow
  <2> HIDE DEF x
  <2> QED
    BY <1>1, <2>1, <2>2
<1>7. CASE write_visibility(n)
  <2> DEFINE effect(a) == /\ visible' = visible \cup {<<r.id, a>>}
                          /\ UNCHANGED <<event, outbox, decision, sessions, command, letters>>
             x(a) == [r EXCEPT !.at = "decide", !.who = a]
  <2>1. PICK a \in r.todo : r.at = "loop" /\ Call(n, effect(a), x(a))
    BY <1>7 DEF write_visibility, At
  <2>2. ASSUME q = x(a), effect(a) PROVE Moved(r, q)
    BY <1>0, <2>1, <2>2 DEF Moved, RouterRow
  <2> HIDE DEF x, effect
  <2> QED
    BY <1>1, <2>1, <2>2, SMT
<1>8. CASE write_decision(n)
  <2> DEFINE x == IF Persisted(r) = "trigger" THEN [r EXCEPT !.at = "session"]
                                              ELSE MemberDone(r)
             effect == StoreDecision(r)
  <2>1. r.at = "decide" /\ Call(n, effect, x)
    BY <1>8 DEF write_decision, At
  <2>2. ASSUME q = x, effect PROVE Moved(r, q)
    <3>1. <<r.id, r.who>> \in Pairs
      BY <2>1 DEF Held, RouterHeld, Pairs
    <3>2. Persisted(r) \in {"trigger", "skip"} /\ decision'[<<r.id, r.who>>] = Persisted(r)
      BY <2>2, <3>1 DEF Persisted, Planned, StoreDecision, Types
    <3> QED
      BY <1>0, <2>1, <2>2, <3>2, SMT DEF Moved, RouterRow, MemberDone
  <2> HIDE DEF x, effect
  <2> QED
    BY <1>1, <2>1, <2>2, SMT
<1>9. CASE upsert_session(n)
  <2> DEFINE x == [r EXCEPT !.at = "command"]
             effect == /\ sessions' = sessions \cup {r.who}
                       /\ UNCHANGED <<event, outbox, visible, decision, command, letters>>
  <2>1. r.at = "session" /\ Call(n, effect, x)
    BY <1>9 DEF upsert_session, At
  <2>2. ASSUME q = x, effect PROVE Moved(r, q)
    BY <1>0, <2>1, <2>2 DEF Moved, RouterRow
  <2> HIDE DEF x, effect
  <2> QED
    BY <1>1, <2>1, <2>2, SMT
<1>10. CASE insert_command(n)
  <2> DEFINE p == <<r.id, r.who>>
             effect == /\ command' = command \cup {p}
                       /\ UNCHANGED <<event, outbox, visible, decision, sessions, letters>>
  <2>1. r.at = "command" /\ (RouteFailed(n) \/ Call(n, effect, MemberDone(r)))
    BY <1>10 DEF insert_command, At
  <2>2. ASSUME q = MemberDone(r), effect PROVE Moved(r, q)
    BY <1>0, <2>1, <2>2 DEF Moved, RouterRow, MemberDone
  <2>3. ASSUME RouteFailed(n) PROVE Moved(r, q)
    BY <1>0, <2>1, <2>3 DEF RouteFailed, should_dead_letter_outbox, Goes, Types, Moved, RouterRow
  <2> HIDE DEF effect
  <2> QED
    BY <1>1, <2>1, <2>2, <2>3, SMT
<1>11. CASE mark_published(n) \/ dead_letter_outbox_entry(n) \/ Crash(n)
  BY <1>11 DEF mark_published, dead_letter_outbox_entry, Crash, Goes, Types, Moved
<1> QED
  BY <1>2, <1>3, <1>4, <1>5, <1>6, <1>7, <1>8, <1>9, <1>10, <1>11 DEF RouterMoves

LEMMA MemoryFrame ==
    ASSUME [Next]_vars
    PROVE  /\ \/ UNCHANGED poller
              \/ \E n \in Nodes : claim_unpublished_entries(n) \/ SendEntry(n) \/ Crash(n)
           /\ \/ UNCHANGED channel
              \/ \E n \in Nodes : SendEntry(n) \/ Receive(n) \/ Crash(n)
<1> USE DEF tables, conversation, memory, bounds
<1>1. CASE \/ \E e \in Events, m \in Messages : send_message(e, m)
           \/ \E s \in Settings : Reconfigure(s)
           \/ delete_conversation
           \/ \E e \in Events : Lapse(e)
           \/ UNCHANGED vars
  BY <1>1 DEF send_message, Reconfigure, delete_conversation, Lapse, vars
<1>2. ASSUME NEW n \in Nodes, RouterStep(n), ~Receive(n) PROVE UNCHANGED <<poller, channel>>
  <2>1. UNCHANGED routing
    BY <1>2 DEF RouterStep, parse_outbox_event, resolve_conversation_name, list_agent_members,
                PlanRoutes, write_visibility, write_decision, upsert_session, insert_command,
                mark_published, dead_letter_outbox_entry
  <2> QED
    BY <2>1 DEF routing
<1>3. ASSUME NEW n \in Nodes, Receive(n) PROVE UNCHANGED poller
  BY <1>3 DEF Receive
<1>4. ASSUME NEW n \in Nodes, claim_unpublished_entries(n) PROVE UNCHANGED channel
  BY <1>4 DEF claim_unpublished_entries
<1> QED
  BY <1>1, <1>2, <1>3, <1>4 DEF Next, PollerStep

LEMMA StepHeld == Types /\ Held /\ [Next]_vars => Held'
<1> SUFFICES ASSUME Types, Held, [Next]_vars PROVE Held'
  OBVIOUS
<1> USE DEF tables, conversation, memory, bounds
<1>0. Grows /\ Types'
  BY StepGrows, StepTypes
<1>1. \A e \in Events : Stored(e) => Stored(e)'
  BY <1>0 DEF Grows, Stored
<1>2. PollerHeld'
  <2>1. ASSUME NEW n \in Nodes, claim_unpublished_entries(n)
        PROVE  \A k \in Nodes : \A c \in poller'[k] : Stored(c.id)
    <3>1. \A e \in ClaimedRows : Stored(e)
      BY DEF ClaimedRows, Claimable, Stored
    <3>2. \A k \in Nodes : \/ poller'[k] = poller[k]
                           \/ poller'[k] = {[id |-> e, attempts |-> outbox[e].attempts + 1]
                                               : e \in ClaimedRows}
      BY <2>1 DEF claim_unpublished_entries, Types
    <3> QED
      BY <3>1, <3>2, SMT DEF Held, PollerHeld
  <2>2. ASSUME NEW n \in Nodes, SendEntry(n) \/ Crash(n)
        PROVE  \A k \in Nodes : \A c \in poller'[k] : Stored(c.id)
    <3>1. CASE SendEntry(n)
      <4>1. \A k \in Nodes : poller'[k] \subseteq poller[k]
        BY <3>1 DEF SendEntry, Types
      <4> QED
        BY <4>1 DEF Held, PollerHeld
    <3>2. CASE Crash(n)
      BY <3>2 DEF Crash, Types, Held, PollerHeld
    <3> QED
      BY <2>2, <3>1, <3>2
  <2>3. ASSUME UNCHANGED poller PROVE \A k \in Nodes : \A c \in poller'[k] : Stored(c.id)
    BY <2>3 DEF Held, PollerHeld
  <2>4. \A k \in Nodes : \A c \in poller'[k] : Stored(c.id)
    BY <2>1, <2>2, <2>3, MemoryFrame
  <2>5. \A k \in Nodes : \A c \in poller'[k] : c.id \in Events
    BY <1>0, SMT DEF Types, Copy
  <2> QED
    BY <1>1, <2>4, <2>5 DEF PollerHeld
<1>3. ChannelHeld'
  <2> DEFINE Good(c) == /\ Len(c) <= ChannelSize
                        /\ \A i \in 1 .. Len(c) : Stored(c[i].id)
  <2>0. \A n \in Nodes : Good(channel[n])
    BY DEF Held, ChannelHeld
  <2>1. ASSUME NEW n \in Nodes, SendEntry(n) PROVE \A k \in Nodes : Good(channel'[k])
    <3> PICK c \in poller[n] : /\ Len(channel[n]) < ChannelSize
                               /\ channel' = [channel EXCEPT ![n] = Append(@, c)]
      BY <2>1 DEF SendEntry
    <3>1. c \in Copy /\ channel[n] \in Seq(Copy) /\ Stored(c.id) /\ Good(channel[n])
      BY <2>0 DEF Types, Held, PollerHeld
    <3>2. Good(Append(channel[n], c))
      <4>1. Len(Append(channel[n], c)) = Len(channel[n]) + 1 /\ Len(channel[n]) \in Nat
        BY <3>1, SMT
      <4>2. \A i \in 1 .. Len(channel[n]) + 1 :
                Append(channel[n], c)[i] = IF i <= Len(channel[n]) THEN channel[n][i] ELSE c
        BY <3>1, SMT
      <4> QED
        BY <3>1, <4>1, <4>2, LimitsAssumption, SMT
    <3> HIDE DEF Good
    <3> QED
      BY <2>0, <3>2 DEF Types
  <2>2. ASSUME NEW n \in Nodes, Receive(n) PROVE \A k \in Nodes : Good(channel'[k])
    <3>1. channel' = [channel EXCEPT ![n] = Tail(@)] /\ channel[n] # << >>
      BY <2>2 DEF Receive
    <3>2. channel[n] \in Seq(Copy) /\ Good(channel[n])
      BY <2>0 DEF Types
    <3>3. Good(Tail(channel[n]))
      <4>1. /\ \A k \in Nat : Len(channel[n]) <= k => Len(Tail(channel[n])) <= k
            /\ \A i \in 1 .. Len(Tail(channel[n])) :
                   i + 1 \in 1 .. Len(channel[n]) /\ Tail(channel[n])[i] = channel[n][i + 1]
        BY <3>1, <3>2, TailShape
      <4> QED
        BY <3>2, <4>1, LimitsAssumption
    <3> HIDE DEF Good
    <3> QED
      BY <2>0, <3>1, <3>3 DEF Types
  <2>3. ASSUME NEW n \in Nodes, Crash(n) PROVE \A k \in Nodes : Good(channel'[k])
    <3>1. Good(<< >>) /\ channel' = [channel EXCEPT ![n] = << >>]
      BY <2>3, LimitsAssumption, SMT DEF Crash
    <3> HIDE DEF Good
    <3> QED
      BY <2>0, <3>1 DEF Types
  <2>4. ASSUME UNCHANGED channel PROVE \A k \in Nodes : Good(channel'[k])
    BY <2>0, <2>4
  <2>5. \A k \in Nodes : Good(channel'[k])
    BY <2>1, <2>2, <2>3, <2>4, MemoryFrame
  <2>6. \A k \in Nodes : \A i \in 1 .. Len(channel'[k]) : channel'[k][i].id \in Events
    <3>1. \A k \in Nodes : channel'[k] \in Seq(Copy)
      BY <1>0 DEF Types
    <3>2. \A k \in Nodes : \A i \in 1 .. Len(channel'[k]) : channel'[k][i] \in Copy
      BY <3>1, SMT
    <3> QED
      BY <3>2 DEF Copy
  <2> QED
    BY <1>1, <2>5, <2>6 DEF ChannelHeld
<1>4. RouterHeld'
  <2> SUFFICES ASSUME NEW n \in Nodes
               PROVE  /\ router'[n].at # "idle" =>
                             router'[n].id \in Events /\ Stored(router'[n].id)
                      /\ router'[n].at \in {"decide", "session", "command"} =>
                             router'[n].who \in Agents
    BY <1>1 DEF RouterHeld, Stored
  <2>1. CASE router'[n] = router[n]
    BY <2>1 DEF Held, RouterHeld
  <2>2. CASE Moved(router[n], router'[n])
    <3>1. Idle.at = "idle" /\ router[n].todo \subseteq Agents
      BY DEF Idle, Types, RouterRow
    <3> QED
      BY <2>2, <3>1 DEF Moved, Held, RouterHeld
  <2> QED
    BY <2>1, <2>2, RouterChanges, MovesAreMoved
<1> QED
  BY <1>2, <1>3, <1>4 DEF Held

(* Types, the capacity of the channel, and that every row held is stored.   *)
THEOREM Typed == Spec => [](Types /\ Held)
<1>1. Types /\ Held /\ [Next]_vars => (Types /\ Held)'
  BY StepTypes, StepHeld
<1> QED
  BY InitTypes, <1>1, PTL DEF Spec

-----------------------------------------------------------------------------
(* TypeOK: tables, copies and the bounded CDC channel.                      *)
THEOREM TypeCorrect == Spec => []TypeOK
<1>1. Types /\ Held => TypeOK
  BY DEF Types, Held, ChannelHeld, TypeOK, RouterRow
<1> QED
  BY <1>1, Typed, PTL

(* DecisionsAreFinal: no redelivery changes a stored decision.              *)
THEOREM DecisionsFinal == Spec => DecisionsAreFinal
<1>1. Types /\ Held /\ [Next]_vars =>
          [\A p \in Pairs : decision[p] # "none" => decision'[p] = decision[p]]_vars
  BY StepGrows DEF Grows
<1> QED
  BY <1>1, Typed, PTL DEF Spec, DecisionsAreFinal

-----------------------------------------------------------------------------
(* The audit trail: what route_event has written before each of its steps.  *)
Trailed(r) ==
    /\ r.at \in {"decide", "session", "command"} => <<r.id, r.who>> \in visible
    /\ r.at \in {"session", "command"} => decision[<<r.id, r.who>>] = "trigger"
    /\ r.at = "command" => r.who \in sessions

TrailInv == TrailBeforeCommand /\ \A n \in Nodes : Trailed(router[n])

\* A command appears only by insert_command.
LEMMA CommandChanges ==
    ASSUME Types, [Next]_vars
    PROVE  \A p \in command' : \/ p \in command
                               \/ \E n \in Nodes : /\ router[n].at = "command"
                                                   /\ p = <<router[n].id, router[n].who>>
<1> USE DEF tables, conversation, memory, bounds
<1>1. ASSUME NEW n \in Nodes, insert_command(n)
      PROVE  \A p \in command' : p \in command \/ (/\ router[n].at = "command"
                                                  /\ p = <<router[n].id, router[n].who>>)
  BY <1>1 DEF insert_command, Call, At
<1>2. ASSUME NEW n \in Nodes, RouterStep(n), ~insert_command(n) PROVE UNCHANGED command
  <2>1. CASE Receive(n) \/ parse_outbox_event(n) \/ resolve_conversation_name(n)
             \/ list_agent_members(n) \/ PlanRoutes(n)
    BY <2>1 DEF Receive, parse_outbox_event, resolve_conversation_name, list_agent_members,
                PlanRoutes, Call
  <2>2. CASE write_visibility(n) \/ write_decision(n) \/ upsert_session(n)
    BY <2>2 DEF write_visibility, write_decision, StoreDecision, upsert_session, Call
  <2>3. CASE mark_published(n) \/ dead_letter_outbox_entry(n)
    BY <2>3 DEF mark_published, dead_letter_outbox_entry
  <2> QED
    BY <1>2, <2>1, <2>2, <2>3 DEF RouterStep
<1>3. ASSUME NEW n \in Nodes, PollerStep(n) \/ Crash(n) PROVE UNCHANGED command
  BY <1>3 DEF PollerStep, claim_unpublished_entries, SendEntry, Crash
<1>4. CASE \/ \E e \in Events, m \in Messages : send_message(e, m)
           \/ \E s \in Settings : Reconfigure(s)
           \/ delete_conversation
           \/ \E e \in Events : Lapse(e)
           \/ UNCHANGED vars
  BY <1>4 DEF send_message, Reconfigure, delete_conversation, Lapse, vars
<1> QED
  BY <1>1, <1>2, <1>3, <1>4 DEF Next

LEMMA StepTrail == Types /\ Held /\ TrailInv /\ [Next]_vars => TrailInv'
<1> SUFFICES ASSUME Types, Held, TrailInv, [Next]_vars PROVE TrailInv'
  OBVIOUS
<1>1. Grows /\ Types' /\ Held'
  BY StepGrows, StepTypes, StepHeld
<1>2. TrailBeforeCommand'
  <2>1. \A p \in command' : p \in visible /\ decision[p] = "trigger" /\ p[2] \in sessions
    BY CommandChanges, SMT DEF TrailInv, TrailBeforeCommand, Trailed
  <2>2. command' \subseteq Pairs
    BY <1>1 DEF Types
  <2> QED
    BY <1>1, <2>1, <2>2 DEF Grows, TrailBeforeCommand
<1>3. ASSUME NEW n \in Nodes PROVE Trailed(router[n])'
  <2> DEFINE r == router[n]
             q == router'[n]
  <2>0. /\ r.at \in {"decide", "session", "command"} => <<r.id, r.who>> \in Pairs
        /\ Idle.at = "idle"
    BY DEF Held, RouterHeld, Pairs, Idle
  <2>1. CASE q = r
    BY <1>1, <2>0, <2>1 DEF TrailInv, Trailed, Grows
  <2>2. CASE Moved(r, q)
    BY <1>1, <2>0, <2>2 DEF TrailInv, Trailed, Grows, Moved
  <2> QED
    BY <2>1, <2>2, RouterChanges, MovesAreMoved
<1> QED
  BY <1>2, <1>3 DEF TrailInv

(* TrailBeforeCommand: through crashes, lost answers, redeliveries under    *)
(* other policies and deletions, a command never lacks its trail.           *)
THEOREM TrailKept == Spec => []TrailBeforeCommand
<1>1. Init => TrailInv
  BY SMT DEF Init, TrailInv, TrailBeforeCommand, Trailed, Idle
<1>2. TrailInv => TrailBeforeCommand
  BY DEF TrailInv
<1> QED
  BY <1>1, <1>2, StepTrail, Typed, PTL DEF Spec

-----------------------------------------------------------------------------
(* A row is published by its router, or by its dead letter.                 *)
Publishes(n, e) ==
    /\ mark_published(n) /\ router[n].id = e
    /\ outbox'[e].state = "published" /\ letters'[e] = letters[e]

GivesUp(n, e) ==
    /\ router[n].at = "dead_letter" /\ router[n].id = e /\ StillOwned(n)
    /\ outbox'[e].state = "published" /\ letters'[e] = letters[e] + 1

LEMMA OutboxChanges ==
    ASSUME Types, Held, [Next]_vars, NEW e \in Events
    PROVE  \/ /\ outbox'[e].state = "published" <=> outbox[e].state = "published"
              /\ letters'[e] = letters[e]
           \/ \E n \in Nodes : Publishes(n, e) \/ GivesUp(n, e)
<1> DEFINE Same == /\ outbox'[e].state = "published" <=> outbox[e].state = "published"
                   /\ letters'[e] = letters[e]
<1> USE DEF tables, conversation, memory, bounds
<1>0. outbox[e] \in OutboxRow
  BY DEF Types
<1>1. CASE UNCHANGED <<outbox, letters>>
  BY <1>1
<1>2. ASSUME NEW d \in Events, NEW m \in Messages, send_message(d, m) PROVE Same
  BY <1>0, <1>2 DEF send_message, Types, OutboxRow
<1>3. ASSUME NEW d \in Events, Lapse(d) PROVE Same
  <2>1. outbox'[e] \in {outbox[e], [outbox[e] EXCEPT !.live = FALSE]} /\ letters' = letters
    BY <1>3 DEF Lapse, Types
  <2>2. [outbox[e] EXCEPT !.live = FALSE].state = outbox[e].state
    BY <1>0 DEF OutboxRow
  <2> QED
    BY <2>1, <2>2
<1>4. ASSUME NEW n \in Nodes, claim_unpublished_entries(n) PROVE Same
  <2> DEFINE c == [outbox[e] EXCEPT !.claimed_by = n, !.live = TRUE, !.attempts = @ + 1]
  <2>1. outbox'[e] \in {outbox[e], c} /\ letters' = letters
    BY <1>4 DEF claim_unpublished_entries, Claim
  <2>2. c.state = outbox[e].state
    BY <1>0, ClaimedRow
  <2> HIDE DEF c
  <2> QED
    BY <2>1, <2>2
<1>5. \A d \in Events : /\ Publish(d)[e].state = IF e = d THEN "published" ELSE outbox[e].state
  BY <1>0 DEF Publish, Types, OutboxRow
<1>6. ASSUME NEW n \in Nodes, mark_published(n) PROVE Same \/ Publishes(n, e)
  <2>1. router[n].id \in Events /\ outbox' \in {outbox, Publish(router[n].id)} /\ letters' = letters
    BY <1>6 DEF mark_published, At, Held, RouterHeld
  <2> QED
    BY <1>5, <1>6, <2>1 DEF Publishes
<1>7. ASSUME NEW n \in Nodes, dead_letter_outbox_entry(n) PROVE Same \/ GivesUp(n, e)
  <2>1. router[n].id \in Events /\ router[n].at = "dead_letter"
    BY <1>7 DEF dead_letter_outbox_entry, At, Held, RouterHeld
  <2>2. \/ UNCHANGED <<outbox, letters>>
        \/ /\ StillOwned(n) /\ outbox' = Publish(router[n].id)
           /\ letters' = [letters EXCEPT ![router[n].id] = @ + 1]
    BY <1>7 DEF dead_letter_outbox_entry, DeadLettered
  <2> QED
    BY <1>5, <2>1, <2>2 DEF GivesUp, Types
<1>8. ASSUME NEW n \in Nodes, RouterStep(n), ~mark_published(n), ~dead_letter_outbox_entry(n)
      PROVE  UNCHANGED <<outbox, letters>>
  <2>1. CASE Receive(n) \/ parse_outbox_event(n) \/ resolve_conversation_name(n)
             \/ list_agent_members(n) \/ PlanRoutes(n)
    BY <2>1 DEF Receive, parse_outbox_event, resolve_conversation_name, list_agent_members,
                PlanRoutes, Call
  <2>2. CASE write_visibility(n) \/ write_decision(n) \/ upsert_session(n) \/ insert_command(n)
    BY <2>2 DEF write_visibility, write_decision, StoreDecision, upsert_session, insert_command,
                Call
  <2> QED
    BY <1>8, <2>1, <2>2 DEF RouterStep
<1>9. CASE \/ \E s \in Settings : Reconfigure(s)
           \/ delete_conversation
           \/ \E n \in Nodes : SendEntry(n) \/ Crash(n)
           \/ UNCHANGED vars
  BY <1>1, <1>9 DEF Reconfigure, delete_conversation, SendEntry, Crash, vars
<1> QED
  BY <1>1, <1>2, <1>3, <1>4, <1>6, <1>7, <1>8, <1>9 DEF Next, PollerStep

(* A row that is not published has no letter; a router about to give up has *)
(* used up the claims, or the message is gone.                              *)
GivenUpInv ==
    /\ \A e \in Events : letters[e] <= 1 /\ (outbox[e].state # "published" => letters[e] = 0)
    /\ \A n \in Nodes : router[n].at = "dead_letter" =>
           router[n].attempts >= DeadLetterAfter \/ event[router[n].id] = NoEvent
    /\ DeadLetterAfterBudget

LEMMA StepGivenUp == Types /\ Held /\ GivenUpInv /\ [Next]_vars => GivenUpInv'
<1> SUFFICES ASSUME Types, Held, GivenUpInv, [Next]_vars PROVE GivenUpInv'
  OBVIOUS
<1>0. /\ DeadLetterAfter \in Nat
      /\ \A e \in Events : /\ outbox[e].attempts \in Nat /\ letters[e] \in Nat
                           /\ outbox'[e].attempts \in Nat /\ letters'[e] \in Nat
      /\ \A n \in Nodes : router[n].attempts \in Nat
  BY StepTypes, LimitsAssumption DEF Types, OutboxRow, RouterRow
<1>1. Grows
  BY StepGrows
<1>2. ASSUME NEW e \in Events
      PROVE  letters'[e] <= 1 /\ (outbox'[e].state # "published" => letters'[e] = 0)
  BY <1>0, OutboxChanges, SMT DEF GivenUpInv, Publishes, GivesUp, StillOwned
<1>3. ASSUME NEW n \in Nodes, router'[n].at = "dead_letter"
      PROVE  router'[n].attempts >= DeadLetterAfter \/ event'[router'[n].id] = NoEvent
  <2> DEFINE r == router[n]
             q == router'[n]
  <2>1. \A e \in Events : Stored(e) /\ event[e] = NoEvent => event'[e] = NoEvent
    BY <1>1 DEF Grows
  <2>2. r.at # "idle" => r.id \in Events /\ Stored(r.id)
    BY DEF Held, RouterHeld
  <2>3. CASE q = r
    BY <1>3, <2>1, <2>2, <2>3 DEF GivenUpInv
  <2>4. CASE Moved(r, q)
    BY <1>3, <2>1, <2>2, <2>4, SMT DEF Moved, Idle
  <2> QED
    BY <2>3, <2>4, RouterChanges, MovesAreMoved
<1>4. DeadLetterAfterBudget'
  <2> SUFFICES ASSUME NEW e \in Events, letters'[e] > 0, event'[e] # NoEvent
               PROVE  outbox'[e].attempts >= DeadLetterAfter
    BY DEF DeadLetterAfterBudget
  <2>1. ASSUME Stored(e) PROVE event[e] # NoEvent /\ outbox'[e].attempts >= outbox[e].attempts
    BY <1>1, <2>1 DEF Grows
  <2>2. CASE letters[e] > 0
    BY <1>0, <2>1, <2>2, SMT DEF GivenUpInv, DeadLetterAfterBudget, Stored
  <2>3. CASE letters[e] = 0
    <3>1. PICK n \in Nodes : GivesUp(n, e)
      BY <2>3, OutboxChanges, SMT DEF Publishes
    <3> QED
      BY <1>0, <2>1, <3>1, SMT DEF GivesUp, StillOwned, Stored, GivenUpInv
  <2> QED
    BY <1>0, <2>2, <2>3, SMT
<1> QED
  BY <1>2, <1>3, <1>4 DEF GivenUpInv

(* GivenUpOnce: stale copies of a row, lapsed claims and lost answers do    *)
(* not lead to a second letter, nor to one before the claims are used up.   *)
THEOREM GivenUpAtMostOnce == Spec => []GivenUpOnce
<1>1. Init => GivenUpInv
  BY SMT DEF Init, GivenUpInv, DeadLetterAfterBudget, Idle
<1>2. GivenUpInv => GivenUpOnce
  BY DEF GivenUpInv, GivenUpOnce, OneLetterPerEntry
<1> QED
  BY <1>1, <1>2, StepGivenUp, Typed, PTL DEF Spec

-----------------------------------------------------------------------------
(* What the router has settled: the member has a decision, and a command    *)
(* where it says trigger.                                                   *)
Settled(e, a) ==
    /\ decision[<<e, a>>] # "none"
    /\ decision[<<e, a>>] = "trigger" => <<e, a>> \in command

(* The router works on the stored message, for a roster that includes every *)
(* permanent member, and has settled those it has ticked off.               *)
Routing(r) ==
    /\ r.at \in RouterAt \ {"idle", "parse", "dead_letter"} /\ gone = "no" => r.msg = event[r.id]
    /\ r.at \in {"plan", "loop", "decide", "session", "command"} => steady \subseteq r.roster
    /\ r.at \in {"loop", "decide", "session", "command"} =>
           \A a \in active_agent_ids(r.msg, r.roster) \ r.todo : Settled(r.id, a)

RoutedInv ==
    /\ steady \subseteq setting.members
    /\ \A n \in Nodes : Routing(router[n])
    /\ PublishedIsRouted

LEMMA StaysSettled ==
    ASSUME Types, Grows, NEW e \in Events, NEW a \in Agents, Settled(e, a)
    PROVE  Settled(e, a)'
  BY DEF Settled, Grows, Pairs

LEMMA StepSteady == Types /\ steady \subseteq setting.members /\ [Next]_vars =>
                        steady' \subseteq setting'.members
<1> SUFFICES ASSUME Types, steady \subseteq setting.members, [Next]_vars
             PROVE  steady' \subseteq setting'.members
  OBVIOUS
<1> USE DEF tables, conversation, memory, bounds
<1>1. CASE UNCHANGED <<setting, steady>>
  BY <1>1
<1>2. CASE \E s \in Settings : Reconfigure(s)
  BY <1>2 DEF Reconfigure
<1>3. CASE delete_conversation
  BY <1>1, <1>3 DEF delete_conversation
<1>4. ASSUME NEW n \in Nodes, RouterStep(n) PROVE UNCHANGED <<setting, steady>>
  <2>1. UNCHANGED routing \/ Receive(n)
    BY <1>4 DEF RouterStep, parse_outbox_event, resolve_conversation_name, list_agent_members,
                PlanRoutes, write_visibility, write_decision, upsert_session, insert_command,
                mark_published, dead_letter_outbox_entry
  <2> QED
    BY <2>1 DEF routing, Receive
<1>5. ASSUME NEW n \in Nodes, PollerStep(n) \/ Crash(n) PROVE UNCHANGED <<setting, steady>>
  BY <1>5 DEF PollerStep, claim_unpublished_entries, SendEntry, Crash
<1>6. CASE \/ \E e \in Events, m \in Messages : send_message(e, m)
           \/ \E e \in Events : Lapse(e)
           \/ UNCHANGED vars
  BY <1>1, <1>6 DEF send_message, Lapse, vars
<1> QED
  BY <1>1, <1>2, <1>3, <1>4, <1>5, <1>6 DEF Next

LEMMA StepRouting ==
    ASSUME Types, Held, TrailInv, RoutedInv, [Next]_vars, NEW n \in Nodes
    PROVE  Routing(router[n])'
<1> DEFINE r == router[n]
           q == router'[n]
           After(e, a) == /\ decision'[<<e, a>>] # "none"
                          /\ decision'[<<e, a>>] = "trigger" => <<e, a>> \in command'
<1>0. Grows /\ Types' /\ Held' /\ r \in RouterRow /\ q \in RouterRow
  BY StepGrows, StepTypes, StepHeld DEF Types
<1>1. /\ r.at # "idle" => r.id \in Events /\ Stored(r.id)
      /\ r.at \in {"decide", "session", "command"} => r.who \in Agents
  BY DEF Held, RouterHeld
<1>2. Routing(r) /\ Trailed(r)
  BY DEF RoutedInv, TrailInv
<1>3. \A a \in active_agent_ids(r.msg, r.roster) : a \in Agents
  BY <1>0 DEF active_agent_ids, RouterRow
<1>4. q = r \/ Moved(r, q)
  BY RouterChanges, MovesAreMoved
<1>5. Idle.at = "idle"
  BY DEF Idle
<1>6. ASSUME q.at \in RouterAt \ {"idle", "parse", "dead_letter"}, gone' = "no"
      PROVE  q.msg = event'[q.id]
  <2>1. gone = "no" /\ (r.at # "idle" => event'[r.id] = event[r.id])
    BY <1>0, <1>1, <1>6 DEF Grows
  <2>2. CASE q = r
    BY <1>2, <1>6, <2>1, <2>2 DEF Routing
  <2>3. CASE Moved(r, q)
    BY <1>2, <1>5, <1>6, <2>1, <2>3 DEF Routing, Moved, RouterAt
  <2> QED
    BY <1>4, <2>2, <2>3
<1>7. ASSUME q.at \in {"plan", "loop", "decide", "session", "command"}
      PROVE  steady' \subseteq q.roster
  <2>1. steady' \subseteq steady /\ steady \subseteq setting.members
    BY <1>0 DEF Grows, RoutedInv
  <2>2. CASE q = r
    BY <1>2, <1>7, <2>1, <2>2 DEF Routing
  <2>3. CASE Moved(r, q)
    BY <1>2, <1>5, <1>7, <2>1, <2>3 DEF Routing, Moved
  <2> QED
    BY <1>4, <2>2, <2>3
<1>8. ASSUME q.at \in {"loop", "decide", "session", "command"},
             NEW a \in active_agent_ids(q.msg, q.roster) \ q.todo
      PROVE  After(q.id, a)
  <2>1. ASSUME r.at \in {"loop", "decide", "session", "command"},
               a \in active_agent_ids(r.msg, r.roster) \ r.todo
        PROVE  After(r.id, a)
    BY <1>0, <1>1, <1>2, <1>3, <2>1, StaysSettled DEF Routing, Settled
  <2>2. CASE q = r
    BY <1>8, <2>1, <2>2
  <2>3. ASSUME r.at = "decide", decision'[<<r.id, r.who>>] = "skip"
        PROVE  After(r.id, r.who)
    BY <2>3
  <2>4. ASSUME r.at = "command", <<r.id, r.who>> \in command'
        PROVE  After(r.id, r.who)
    <3>1. decision[<<r.id, r.who>>] = "trigger" /\ <<r.id, r.who>> \in Pairs
      BY <1>1, <1>2, <2>4 DEF Trailed, Pairs
    <3> QED
      BY <1>0, <2>4, <3>1 DEF Grows
  <2>5. CASE Moved(r, q)
    <3>1. CASE r.at = "plan"
      BY <1>5, <1>8, <2>5, <3>1 DEF Moved
    <3>2. CASE r.at \in {"loop", "decide", "session", "command"}
      BY <1>5, <1>8, <2>1, <2>3, <2>4, <2>5, <3>2 DEF Moved
    <3> QED
      BY <1>5, <1>8, <2>5, <3>1, <3>2 DEF Moved
  <2> QED
    BY <1>4, <2>2, <2>5
<1> QED
  BY <1>6, <1>7, <1>8 DEF Routing, Settled

LEMMA RoutedAll ==
    ASSUME NEW r, Routing(r), r.at = "loop", r.todo = {}, gone = "no"
    PROVE  /\ r.msg = event[r.id] /\ steady \subseteq r.roster
           /\ \A a \in active_agent_ids(r.msg, r.roster) : Settled(r.id, a)
<1>1. r.at \in RouterAt \ {"idle", "parse", "dead_letter"}
  BY DEF RouterAt
<1> QED
  BY <1>1 DEF Routing

LEMMA StepPublished ==
    ASSUME Types, Held, RoutedInv, [Next]_vars
    PROVE  PublishedIsRouted'
<1>0. Grows /\ Types'
  BY StepGrows, StepTypes
<1> SUFFICES ASSUME NEW e \in Events, Routed(e)', gone' = "no", NEW a \in Permanent(e)'
             PROVE  Settled(e, a)'
  BY DEF PublishedIsRouted, Settled
<1>1. gone = "no" /\ steady' \subseteq steady /\ steady \subseteq Agents
  BY <1>0 DEF Grows, RoutedInv, Types, Setting
<1>2. ASSUME Stored(e) PROVE a \in Permanent(e) /\ a \in Agents
  <2>1. event'[e] = event[e]
    BY <1>0, <1>2 DEF Grows
  <2> QED
    BY <1>1, <2>1 DEF Permanent
<1>3. CASE Routed(e)
  <2>1. Settled(e, a) /\ a \in Agents
    BY <1>1, <1>2, <1>3 DEF RoutedInv, PublishedIsRouted, Settled, Routed, Stored
  <2> QED
    BY <1>0, <2>1, StaysSettled
<1>4. CASE ~Routed(e)
  <2>1. letters[e] \in Nat /\ outbox'[e].state = "published" /\ letters'[e] = 0
    BY DEF Types, Routed
  <2>2. PICK n \in Nodes : Publishes(n, e)
    BY <1>4, <2>1, OutboxChanges, SMT DEF Routed, GivesUp
  <2> DEFINE r == router[n]
  <2>3. r.at = "loop" /\ r.todo = {} /\ r.id = e
    BY <2>2 DEF Publishes, mark_published, At
  <2>4. Stored(e) /\ Routing(r)
    <3>1. r.at # "idle"
      BY <2>3
    <3> QED
      BY <2>3, <3>1 DEF Held, RouterHeld, RoutedInv
  <2> HIDE DEF r
  <2>5. /\ r.msg = event[e] /\ steady \subseteq r.roster
        /\ \A b \in active_agent_ids(r.msg, r.roster) : Settled(e, b)
    BY <1>1, <2>3, <2>4, RoutedAll
  <2>6. a \in active_agent_ids(r.msg, r.roster) /\ a \in Agents
    BY <1>2, <2>4, <2>5 DEF Permanent, active_agent_ids
  <2>7. Settled(e, a)
    BY <2>5, <2>6
  <2> QED
    BY <1>0, <2>6, <2>7, StaysSettled
<1> QED
  BY <1>3, <1>4

LEMMA StepRouted ==
    Types /\ Held /\ TrailInv /\ RoutedInv /\ [Next]_vars => RoutedInv'
  BY StepSteady, StepRouting, StepPublished DEF RoutedInv

LEMMA InitRouted == Init => TrailInv /\ RoutedInv
<1> SUFFICES ASSUME Init PROVE TrailInv /\ RoutedInv
  OBVIOUS
<1>1. TrailInv
  BY DEF Init, TrailInv, TrailBeforeCommand, Trailed, Idle
<1>2. PublishedIsRouted
  BY DEF Init, PublishedIsRouted, Routed
<1>3. \A n \in Nodes : Routing(router[n])
  BY DEF Init, Routing, Idle
<1> QED
  BY <1>1, <1>2, <1>3 DEF Init, RoutedInv

(* PublishedIsRouted: a row that is out of the outbox and was not given up  *)
(* has been routed for everybody who stayed a member.                       *)
THEOREM PublishedAfterRouting == Spec => []PublishedIsRouted
<1>1. RoutedInv => PublishedIsRouted
  BY DEF RoutedInv
<1>2. Spec => [](TrailInv /\ RoutedInv)
  BY InitRouted, StepTrail, StepRouted, Typed, PTL DEF Spec
<1> QED
  BY <1>1, <1>2, PTL

-----------------------------------------------------------------------------
(* The agents every delivery of the message plans to wake, whether or not   *)
(* the router knows that the conversation is direct.                        *)
Core(e) ==
    {a \in active_agent_ids(event[e], setting.members) :
        \A d \in {FALSE, setting.direct} :
            a \in plan_routes(event[e], setting.members, setting, d)}

(* The two plans of a message have an active agent in common.               *)
LEMMA CommonAgent ==
    ASSUME NEW m, NEW M, NEW s \in Setting,
           m.for = {}, explicit_targets(m, M) = {},
           \/ /\ ~s.direct /\ active_coordinator(m, M, s) # {}
              /\ m.flow # NoFlow \/ (m.human /\ s.untagged = "coordinator_only")
           \/ s.direct /\ m.flow = NoFlow /\ active_agent_ids(m, M) # {}
    PROVE  \E a \in active_agent_ids(m, M) :
               \A d \in {FALSE, s.direct} : a \in plan_routes(m, M, s, d)
<1>0. /\ active_coordinator(m, M, s) \subseteq active_agent_ids(m, M)
      /\ active_agent_ids(m, M) \subseteq M
  BY DEF active_coordinator, active_agent_ids
<1>d. s.direct = FALSE \/ s.direct = TRUE
  BY DEF Setting
<1>f. ASSUME s.direct = FALSE, plan_routes(m, M, s, FALSE) \cap active_agent_ids(m, M) # {}
      PROVE  \E a \in active_agent_ids(m, M) :
                 \A d \in {FALSE, s.direct} : a \in plan_routes(m, M, s, d)
  BY <1>f
<1>1. CASE ~s.direct /\ active_coordinator(m, M, s) # {} /\ m.flow # NoFlow
  <2>1. plan_routes(m, M, s, FALSE) = workflow_target_plan(m, M, s)
    BY <1>1 DEF plan_routes
  <2>2. workflow_target_plan(m, M, s) \cap active_agent_ids(m, M) # {}
    BY <1>0, <1>1 DEF workflow_target_plan
  <2> QED
    BY <1>d, <1>f, <1>1, <2>1, <2>2
<1>2. CASE /\ ~s.direct /\ active_coordinator(m, M, s) # {} /\ m.flow = NoFlow
           /\ m.human /\ s.untagged = "coordinator_only"
  <2>1. plan_routes(m, M, s, FALSE) = untagged_human_plan(m, M, s)
    BY <1>2 DEF plan_routes
  <2>2. untagged_human_plan(m, M, s) = active_coordinator(m, M, s)
    BY <1>2 DEF untagged_human_plan
  <2> QED
    BY <1>0, <1>d, <1>f, <1>2, <2>1, <2>2
<1>3. CASE s.direct /\ m.flow = NoFlow /\ active_agent_ids(m, M) # {}
  <2>1. policy_fallback_plan(m, M, s) = M
    BY <1>3 DEF policy_fallback_plan, evaluate_trigger, auto_mode
  <2>2. plan_routes(m, M, s, TRUE) = M
    BY <1>3, <2>1 DEF plan_routes
  <2>3. plan_routes(m, M, s, FALSE) = IF m.human THEN untagged_human_plan(m, M, s) ELSE M
    BY <1>3, <2>1 DEF plan_routes
  <2>4. untagged_human_plan(m, M, s) \cap active_agent_ids(m, M) # {}
    BY <1>0, <1>3, <2>1 DEF untagged_human_plan
  <2> QED
    BY <1>0, <1>3, <2>2, <2>3, <2>4
<1> QED
  BY <1>1, <1>2, <1>3

(* While nothing is reconfigured, all deliveries of a message agree on the  *)
(* members and wake the common agents; none of them is ever skipped.        *)
Deciding(r) ==
    /\ r.at \in {"parse", "name", "members", "plan"} => r.dm \in {FALSE, setting.direct}
    /\ r.at \in {"plan", "loop", "decide", "session", "command"} => r.roster = setting.members
    /\ r.at \in {"loop", "decide", "session", "command"} => Core(r.id) \subseteq r.plan

WokenInv ==
    /\ \A p \in Pairs : decision[p] # "none" => Stored(p[1])
    /\ edits = 0 =>
          /\ gone = "no" /\ steady = setting.members
          /\ \A n \in Nodes : Deciding(router[n])
          /\ \A e \in Events : Stored(e) => \A a \in Core(e) : decision[<<e, a>>] # "skip"

LEMMA DecisionChanges ==
    ASSUME Types, Held, [Next]_vars, NEW p \in Pairs
    PROVE  \/ decision'[p] = decision[p]
           \/ \E n \in Nodes : /\ router[n].at = "decide"
                               /\ p = <<router[n].id, router[n].who>>
                               /\ decision'[p] = Persisted(router[n])
<1> USE DEF tables, conversation, memory, bounds
<1>1. CASE UNCHANGED decision
  BY <1>1
<1>2. ASSUME NEW n \in Nodes, write_decision(n)
      PROVE  \/ decision'[p] = decision[p]
             \/ /\ router[n].at = "decide"
                /\ p = <<router[n].id, router[n].who>>
                /\ decision'[p] = Persisted(router[n])
  <2>1. router[n].at = "decide" /\ (StoreDecision(router[n]) \/ UNCHANGED decision)
    BY <1>2 DEF write_decision, At, Call
  <2> QED
    BY <2>1 DEF StoreDecision, Types
<1>3. ASSUME NEW n \in Nodes, RouterStep(n), ~write_decision(n) PROVE UNCHANGED decision
  <2>1. CASE Receive(n) \/ parse_outbox_event(n) \/ resolve_conversation_name(n)
             \/ list_agent_members(n) \/ PlanRoutes(n)
    BY <2>1 DEF Receive, parse_outbox_event, resolve_conversation_name, list_agent_members,
                PlanRoutes, Call
  <2>2. CASE write_visibility(n) \/ insert_command(n) \/ upsert_session(n)
    BY <2>2 DEF write_visibility, insert_command, upsert_session, Call
  <2>3. CASE mark_published(n) \/ dead_letter_outbox_entry(n)
    BY <2>3 DEF mark_published, dead_letter_outbox_entry
  <2> QED
    BY <1>3, <2>1, <2>2, <2>3 DEF RouterStep
<1>4. ASSUME NEW n \in Nodes, PollerStep(n) \/ Crash(n) PROVE UNCHANGED decision
  BY <1>4 DEF PollerStep, claim_unpublished_entries, SendEntry, Crash
<1>5. CASE \/ \E e \in Events, m \in Messages : send_message(e, m)
           \/ \E s \in Settings : Reconfigure(s)
           \/ delete_conversation
           \/ \E e \in Events : Lapse(e)
           \/ UNCHANGED vars
  BY <1>1, <1>5 DEF send_message, Reconfigure, delete_conversation, Lapse, vars
<1> QED
  BY <1>1, <1>2, <1>3, <1>4, <1>5 DEF Next

LEMMA Unedited ==
    ASSUME Types, [Next]_vars, edits' = 0, edits = 0 => gone = "no"
    PROVE  edits = 0 /\ UNCHANGED <<setting, steady, gone>>
<1> USE DEF tables, conversation, memory, bounds
<1>0. edits \in Nat
  BY DEF Types
<1>1. CASE UNCHANGED <<setting, steady, gone, edits>>
  BY <1>1
<1>2. CASE \/ \E s \in Settings : Reconfigure(s)
           \/ delete_conversation
  BY <1>0, <1>2, SMT DEF Reconfigure, delete_conversation
<1>3. ASSUME NEW n \in Nodes, RouterStep(n) PROVE UNCHANGED <<setting, steady, gone, edits>>
  <2>1. UNCHANGED routing \/ Receive(n)
    BY <1>3 DEF RouterStep, parse_outbox_event, resolve_conversation_name, list_agent_members,
                PlanRoutes, write_visibility, write_decision, upsert_session, insert_command,
                mark_published, dead_letter_outbox_entry
  <2> QED
    BY <2>1 DEF routing, Receive
<1>4. ASSUME NEW n \in Nodes, PollerStep(n) \/ Crash(n)
      PROVE  UNCHANGED <<setting, steady, gone, edits>>
  BY <1>4 DEF PollerStep, claim_unpublished_entries, SendEntry, Crash
<1>5. CASE \/ \E e \in Events, m \in Messages : send_message(e, m)
           \/ \E e \in Events : Lapse(e)
           \/ UNCHANGED vars
  BY <1>1, <1>5 DEF send_message, Lapse, vars
<1> QED
  BY <1>1, <1>2, <1>3, <1>4, <1>5 DEF Next

LEMMA StepWoken == Types /\ Held /\ RoutedInv /\ WokenInv /\ [Next]_vars => WokenInv'
<1> SUFFICES ASSUME Types, Held, RoutedInv, WokenInv, [Next]_vars PROVE WokenInv'
  OBVIOUS
<1>0. Grows /\ Types' /\ Held'
  BY StepGrows, StepTypes, StepHeld
<1>1. \A p \in Pairs : decision'[p] # "none" => Stored(p[1])
  BY DecisionChanges, SMT DEF WokenInv, Held, RouterHeld
<1>2. \A p \in Pairs : decision'[p] # "none" => outbox'[p[1]].state # "absent"
  BY <1>0, <1>1 DEF Grows, Pairs
<1> SUFFICES ASSUME edits' = 0
             PROVE  /\ (gone = "no" /\ steady = setting.members)'
                    /\ \A n \in Nodes : Deciding(router[n])'
                    /\ \A e \in Events : Stored(e)' =>
                           \A a \in Core(e)' : decision'[<<e, a>>] # "skip"
  BY <1>2 DEF WokenInv, Stored
<1>3. edits = 0 /\ gone = "no" /\ steady = setting.members /\ UNCHANGED <<setting, steady, gone>>
  BY Unedited DEF WokenInv
<1>4. ASSUME NEW e \in Events, Stored(e) PROVE event'[e] = event[e] /\ Core(e)' = Core(e)
  <2>1. event'[e] = event[e]
    BY <1>0, <1>3, <1>4 DEF Grows
  <2> QED
    BY <1>3, <2>1 DEF Core
<1>5. ASSUME NEW n \in Nodes PROVE Deciding(router[n])'
  <2> DEFINE r == router[n]
             q == router'[n]
  <2>1. (q = r \/ Moved(r, q)) /\ Deciding(r) /\ Routing(r) /\ Idle.at = "idle"
    BY <1>3, RouterChanges, MovesAreMoved DEF WokenInv, RoutedInv, Idle
  <2>2. q.at \in {"parse", "name", "members", "plan"} => q.dm \in {FALSE, setting.direct}
    BY <2>1 DEF Moved, Deciding
  <2>3. q.at \in {"plan", "loop", "decide", "session", "command"} => q.roster = setting.members
    BY <2>1 DEF Moved, Deciding
  <2>4. ASSUME q.at \in {"loop", "decide", "session", "command"}
        PROVE  Core(q.id) \subseteq q.plan
    <3>1. CASE r.at = "plan" /\ q # r
      <4>1. /\ q.id = r.id /\ r.msg = event[r.id] /\ r.roster = setting.members
            /\ q.plan = plan_routes(r.msg, r.roster, setting, r.dm)
            /\ r.dm \in {FALSE, setting.direct}
        BY <1>3, <2>1, <2>4, <3>1 DEF Moved, Deciding, Routing, RouterAt
      <4> QED
        BY <4>1 DEF Core
    <3>2. CASE r.at # "plan" \/ q = r
      BY <2>1, <2>4, <3>2 DEF Moved, Deciding
    <3> QED
      BY <3>1, <3>2
  <2>5. q.at \in {"loop", "decide", "session", "command"} => q.id \in Events /\ Stored(q.id)
    <3>1. r.at # "idle" => r.id \in Events /\ Stored(r.id)
      BY DEF Held, RouterHeld
    <3> QED
      BY <2>1, <3>1 DEF Moved
  <2> QED
    BY <1>3, <1>4, <2>2, <2>3, <2>4, <2>5 DEF Deciding, Core
<1>6. ASSUME NEW e \in Events, Stored(e)', NEW a \in Core(e)' PROVE decision'[<<e, a>>] # "skip"
  <2>1. a \in Agents /\ <<e, a>> \in Pairs
    BY <1>0 DEF Core, active_agent_ids, Types, Setting, Pairs
  <2>2. CASE ~Stored(e)
    BY <1>1, <2>1, <2>2
  <2>3. CASE Stored(e)
    <3>1. a \in Core(e) /\ decision[<<e, a>>] # "skip"
      BY <1>3, <1>4, <1>6, <2>3 DEF WokenInv
    <3>2. ASSUME NEW n \in Nodes, router[n].at = "decide",
                 <<e, a>> = <<router[n].id, router[n].who>>
          PROVE  Persisted(router[n]) # "skip"
      <4>1. a \in router[n].plan /\ router[n].id = e /\ router[n].who = a
        BY <1>3, <3>1, <3>2 DEF WokenInv, Deciding
      <4> QED
        BY <3>1, <4>1 DEF Persisted, Planned
    <3> QED
      BY <2>1, <3>1, <3>2, DecisionChanges
  <2> QED
    BY <2>2, <2>3
<1> QED
  BY <1>3, <1>5, <1>6

(* CoordinatorIsWoken: as long as nobody reconfigures the conversation, a   *)
(* workflow message, an untagged message to a coordinator and a direct      *)
(* message wake somebody, even if deliveries disagree on what is direct.    *)
THEOREM SomebodyIsWoken == Spec => []CoordinatorIsWoken
<1>1. Init => WokenInv
  <2> SUFFICES ASSUME Init PROVE WokenInv
    OBVIOUS
  <2>1. \A n \in Nodes : Deciding(router[n])
    BY DEF Init, Deciding, Idle
  <2> QED
    BY <2>1 DEF Init, WokenInv, Stored
<1>2. Spec => [](TrailInv /\ RoutedInv)
  BY InitRouted, StepTrail, StepRouted, Typed, PTL DEF Spec
<1>3. Types /\ RoutedInv /\ WokenInv => CoordinatorIsWoken
  <2> SUFFICES ASSUME Types, RoutedInv, WokenInv, NEW e \in Events, Routed(e), edits = 0,
                      event[e].for = {}, explicit_targets(event[e], setting.members) = {},
                      \/ /\ ~setting.direct
                         /\ active_coordinator(event[e], setting.members, setting) # {}
                         /\ \/ event[e].flow # NoFlow
                            \/ event[e].human /\ setting.untagged = "coordinator_only"
                      \/ setting.direct /\ event[e].flow = NoFlow /\ Permanent(e) # {}
               PROVE  \E a \in Agents : <<e, a>> \in command
    BY DEF CoordinatorIsWoken
  <2>1. steady = setting.members /\ gone = "no" /\ setting \in Setting /\ steady \subseteq Agents
    BY DEF WokenInv, Types, Setting
  <2>2. Permanent(e) = active_agent_ids(event[e], setting.members)
    BY <2>1 DEF Permanent, active_agent_ids
  <2>3. PICK a \in Permanent(e) : \A d \in {FALSE, setting.direct} :
                                      a \in plan_routes(event[e], setting.members, setting, d)
    BY <2>1, <2>2, CommonAgent
  <2>4. a \in Agents /\ a \in Core(e)
    BY <2>1, <2>2, <2>3 DEF Core, Permanent
  <2>5. decision[<<e, a>>] # "none" /\ (decision[<<e, a>>] = "trigger" => <<e, a>> \in command)
    BY <2>1 DEF RoutedInv, PublishedIsRouted
  <2>6. decision[<<e, a>>] # "skip" /\ decision[<<e, a>>] \in {"none", "trigger", "skip"}
    BY <2>4 DEF WokenInv, Routed, Stored, Types, Pairs
  <2> QED
    BY <2>4, <2>5, <2>6
<1> QED
  BY <1>1, <1>2, <1>3, StepWoken, Typed, PTL DEF Spec
=============================================================================
