------------------------------- MODULE Online --------------------------------
(***************************************************************************)
(* A group shared between two installations over the Online service: the   *)
(* invitation, the guest's admission, what the guest says, the history the *)
(* host sends, resynchronisation and revocation by either side. Each side  *)
(* keeps a link row, an outbox and an inbox; one background task per side  *)
(* works on them, one database transaction at a time, while requests of    *)
(* its owner run beside it. The service delivers a shipment again until it *)
(* is acknowledged, in any order. Shipments that are identical (the same   *)
(* page, the same cursor) are one, for handling them is idempotent; a      *)
(* message of the guest has its own id, which its sender may repeat.       *)
(* A crash is a task that takes no step for a while: all its state is in   *)
(* the database.                                                           *)
(***************************************************************************)
EXTENDS Integers, Sequences, FiniteSets

CONSTANTS
    Says,       \* messages of the guest
    MaxPosts,   \* bound on messages of others in the host's group
    HistoryPage,\* messages of a batch (20 in the code)
    MaxOnlineFaults \* bound on onlineFaults

VARIABLES
    cloudLink,   \* the link at the service: "none", "open", "joined", "gone"
    linkStatus,  \* side -> status of its online_group_link row
    guestMember, \* the guest is a member of the host's conversation
    onlineOut,   \* side -> its online_group_outbox
    onlineWire,  \* recipient -> shipments the service holds until they are acknowledged
    onlineIn,    \* side -> unprocessed rows of its online_group_inbox
    received,    \* ids of the guest's messages in the host's inbox, processed or not
    hostTask,    \* the host's task: the row it is handling and the link as it was read for it
    onlineFaults, \* acceptances and acknowledgements lost, messages repeated, restarts, resynchronisations
    groupLog,    \* the messages of the host's conversation
    lastSeq,     \* online_group_link.last_seq of the host
    guestCopy,   \* server_seq of the guest's online_group_message rows
    sentSays     \* history: messages the guest's installation took from its owner

onlineVars == <<cloudLink, linkStatus, guestMember, onlineOut, onlineWire, onlineIn, received, hostTask, onlineFaults,
                groupLog, lastSeq, guestCopy, sentSays>>

Sides == {"host", "guest"}
Other(side) == IF side = "host" THEN "guest" ELSE "host"
NoOnlineTask == [row |-> "none"]
Maximum(S) == IF S = {} THEN 0 ELSE CHOOSE x \in S : \A y \in S : y <= x
Messages == 1 .. (MaxPosts + Cardinality(Says))

JoinMsg == [kind |-> "join"]
WelcomeMsg == [kind |-> "welcome"]
SayMsg(m) == [kind |-> "say", id |-> m]
SyncMsg(after) == [kind |-> "sync", after |-> after]
BatchMsg(from, to) == [kind |-> "batch", from |-> from, to |-> to]

Shipments == {JoinMsg, WelcomeMsg} \cup {SayMsg(m) : m \in Says} \cup {SyncMsg(n) : n \in {0} \cup Messages}
                \cup {BatchMsg(a, b) : a, b \in Messages}

OnlineTypeOK ==
    /\ cloudLink \in {"none", "open", "joined", "gone"}
    /\ linkStatus \in [Sides -> {"none", "pending", "active", "revoked"}]
    /\ guestMember \in BOOLEAN
    /\ \A side \in Sides : onlineOut[side] \subseteq Shipments /\ onlineIn[side] \subseteq Shipments
    /\ \A side \in Sides : onlineWire[side] \subseteq Shipments
    /\ received \subseteq Says
    /\ \A i \in DOMAIN groupLog : groupLog[i] \in {0} \cup Says
    /\ lastSeq \in 0 .. Len(groupLog) /\ guestCopy \subseteq DOMAIN groupLog

OnlineInit ==
    /\ cloudLink = "none"
    /\ linkStatus = [side \in Sides |-> "none"]
    /\ guestMember = FALSE
    /\ onlineOut = [side \in Sides |-> {}] /\ onlineIn = [side \in Sides |-> {}]
    /\ onlineWire = [side \in Sides |-> {}]
    /\ received = {} /\ hostTask = NoOnlineTask /\ onlineFaults = 0
    /\ groupLog = <<>> /\ lastSeq = 0 /\ guestCopy = {} /\ sentSays = {}

Fault == onlineFaults < MaxOnlineFaults /\ onlineFaults' = onlineFaults + 1
Ship(side, body) == onlineOut' = [onlineOut EXCEPT ![side] = @ \cup {body}]

-----------------------------------------------------------------------------
(* Requests of the owners.                                                 *)

save_online_group(side) == linkStatus' = [linkStatus EXCEPT ![side] = "pending"]

invite ==
    /\ cloudLink = "none"
    /\ cloudLink' = "open"
    /\ save_online_group("host")
    /\ UNCHANGED <<guestMember, onlineOut, onlineWire, onlineIn, received, hostTask, onlineFaults, groupLog, lastSeq, guestCopy, sentSays>>

\* The service admits one account; the guest's row and its join are stored together.
join ==
    /\ cloudLink = "open" /\ linkStatus["guest"] = "none"
    /\ cloudLink' = "joined"
    /\ save_online_group("guest")
    /\ Ship("guest", JoinMsg)
    /\ UNCHANGED <<guestMember, onlineWire, onlineIn, received, hostTask, onlineFaults, groupLog, lastSeq, guestCopy, sentSays>>

\* external: someone else writes in the host's group.
OnlinePost ==
    /\ Cardinality({i \in DOMAIN groupLog : groupLog[i] = 0}) < MaxPosts
    /\ groupLog' = Append(groupLog, 0)
    /\ UNCHANGED <<cloudLink, linkStatus, guestMember, onlineOut, onlineWire, onlineIn, received, hostTask, onlineFaults, lastSeq, guestCopy, sentSays>>

\* The guest writes, or repeats what the service already took from it.
queue_online_text(m) ==
    /\ linkStatus["guest"] = "active" /\ SayMsg(m) \notin onlineOut["guest"]
    /\ IF SayMsg(m) \in onlineWire["host"] \/ m \in received THEN Fault ELSE UNCHANGED onlineFaults
    /\ Ship("guest", SayMsg(m))
    /\ sentSays' = sentSays \cup {m}
    /\ UNCHANGED <<cloudLink, linkStatus, guestMember, onlineWire, onlineIn, received, hostTask, groupLog, lastSeq, guestCopy>>

\* external: the owner of the conversation removes the guest from it.
RemoveGuest ==
    /\ guestMember /\ guestMember' = FALSE
    /\ UNCHANGED <<cloudLink, linkStatus, onlineOut, onlineWire, onlineIn, received, hostTask, onlineFaults, groupLog, lastSeq, guestCopy, sentSays>>

\* Nothing the service still holds for a revoked side will be taken from it.
Revokes(side) ==
    /\ linkStatus' = [linkStatus EXCEPT ![side] = "revoked"]
    /\ onlineOut' = [onlineOut EXCEPT ![side] = {}]
    /\ onlineIn' = [onlineIn EXCEPT ![side] = {}]
    /\ guestMember' = (guestMember /\ side # "host")
    /\ onlineWire' = [onlineWire EXCEPT ![side] = {}]

\* Leaving revokes the link here; the service is told by the task if not at once.
leave(side) ==
    /\ linkStatus[side] \in {"pending", "active"}
    /\ Revokes(side)
    /\ UNCHANGED <<cloudLink, received, hostTask, onlineFaults, groupLog, lastSeq, guestCopy, sentSays>>

-----------------------------------------------------------------------------
(* The background task of a side.                                          *)

\* The service is told of a revoked link.
cloud_delete(side) ==
    /\ linkStatus[side] = "revoked" /\ cloudLink # "gone"
    /\ cloudLink' = "gone"
    /\ onlineWire' = [s \in Sides |-> {}]
    /\ UNCHANGED <<linkStatus, guestMember, onlineOut, onlineIn, received, hostTask, onlineFaults, groupLog, lastSeq, guestCopy, sentSays>>

\* The service has no such link, or says that it was revoked.
peer(side) ==
    /\ linkStatus[side] \in {"pending", "active"} /\ cloudLink = "gone"
    /\ Revokes(side)
    /\ UNCHANGED <<cloudLink, received, hostTask, onlineFaults, groupLog, lastSeq, guestCopy, sentSays>>

\* A round sends every row of the outbox; a row is kept, and sent again in the next round,
\* until the service is heard to have accepted it.
ship(side) ==
    /\ cloudLink = "joined" /\ linkStatus[side] # "revoked" /\ onlineOut[side] # {}
    /\ onlineWire' = [onlineWire EXCEPT ![Other(side)] = IF linkStatus[Other(side)] = "revoked" THEN {} ELSE @ \cup onlineOut[side]]
    /\ \/ /\ onlineOut' = [onlineOut EXCEPT ![side] = {}]
          /\ UNCHANGED onlineFaults
       \/ Fault /\ UNCHANGED onlineOut
    /\ UNCHANGED <<cloudLink, linkStatus, guestMember, onlineIn, received, hostTask, groupLog, lastSeq, guestCopy, sentSays>>

\* A delivery is stored, once per id, before it is acknowledged; an acknowledgement that is
\* lost leaves the delivery with the service.
receive_online(side, body) ==
    /\ body \in onlineWire[side]
    /\ cloudLink = "joined" /\ linkStatus[side] # "revoked"
    /\ \/ /\ onlineWire' = [onlineWire EXCEPT ![side] = @ \ {body}]
          /\ UNCHANGED onlineFaults
       \/ Fault /\ UNCHANGED onlineWire
    /\ IF body.kind = "say"
       THEN /\ received' = received \cup {body.id}
            /\ onlineIn' = IF body.id \in received THEN onlineIn ELSE [onlineIn EXCEPT ![side] = @ \cup {body}]
       ELSE onlineIn' = [onlineIn EXCEPT ![side] = @ \cup {body}] /\ UNCHANGED received
    /\ UNCHANGED <<cloudLink, linkStatus, guestMember, onlineOut, hostTask, groupLog, lastSeq, guestCopy, sentSays>>

-----------------------------------------------------------------------------
(* The host.                                                               *)

\* The task reads the link again before it handles a row.
online_incoming(body) ==
    /\ hostTask = NoOnlineTask /\ body \in onlineIn["host"] /\ body.kind # "sync"
    /\ hostTask' = [row |-> body, status |-> linkStatus["host"], at |-> "read", link |-> "unread"]
    /\ UNCHANGED <<cloudLink, linkStatus, guestMember, onlineOut, onlineWire, onlineIn, received, onlineFaults, groupLog, lastSeq, guestCopy, sentSays>>

online_processed ==
    /\ onlineIn' = [onlineIn EXCEPT !["host"] = @ \ {hostTask.row}]
    /\ hostTask' = NoOnlineTask

\* Wrong version: the status of the row read before is taken for the current one.
AdmissibleAsRead(status) == status # "revoked"

\* The row is locked and its status read once more.
Admissible(status) == status # "revoked" /\ linkStatus["host"] # "revoked"

activate_online_guest ==
    /\ hostTask # NoOnlineTask /\ hostTask.row = JoinMsg
    /\ IF Admissible(hostTask.status) /\ linkStatus["host"] # "active"
       THEN /\ linkStatus' = [linkStatus EXCEPT !["host"] = "active"]
            /\ guestMember' = TRUE
            /\ Ship("host", WelcomeMsg)
       ELSE UNCHANGED <<linkStatus, guestMember, onlineOut>>
    /\ online_processed
    /\ UNCHANGED <<cloudLink, onlineWire, received, onlineFaults, groupLog, lastSeq, guestCopy, sentSays>>

\* Wrong version: the message is published under a new idempotency key each time.
PublishedAlreadyNever(m) == FALSE

\* The idempotency key is made of the link and the id of the delivery.
PublishedAlready(m) == \E i \in DOMAIN groupLog : groupLog[i] = m

Saying(stage) == hostTask # NoOnlineTask /\ hostTask.row.kind = "say" /\ hostTask.at = stage

\* Wrong version: only the status of the link, read before, is looked at.
SenderIsMemberAsRead == TRUE

SenderIsMember == guestMember

\* send_message reads the members of the conversation before its transaction. The link as
\* it is by then is kept as history.
check_sender ==
    /\ Saying("read") /\ hostTask.status = "active" /\ SenderIsMember
    /\ hostTask' = [hostTask EXCEPT !.at = "checked", !.link = linkStatus["host"]]
    /\ UNCHANGED <<cloudLink, linkStatus, guestMember, onlineOut, onlineWire, onlineIn, received, onlineFaults, groupLog, lastSeq, guestCopy, sentSays>>

\* Its transaction looks at no membership: the message enters the group's pipeline unless its
\* key is taken. The row is marked in a step of its own.
publish_online ==
    /\ Saying("checked")
    /\ groupLog' = IF PublishedAlready(hostTask.row.id) THEN groupLog ELSE Append(groupLog, hostTask.row.id)
    /\ hostTask' = [hostTask EXCEPT !.at = "published"]
    /\ UNCHANGED <<cloudLink, linkStatus, guestMember, onlineOut, onlineWire, onlineIn, received, onlineFaults, lastSeq, guestCopy, sentSays>>

\* Published, or refused: the link is not active or the guest no member.
said ==
    /\ \/ Saying("published")
       \/ Saying("read") /\ (~SenderIsMember \/ hostTask.status # "active")
    /\ online_processed
    /\ UNCHANGED <<cloudLink, linkStatus, guestMember, onlineOut, onlineWire, received, onlineFaults, groupLog, lastSeq, guestCopy, sentSays>>

\* The task ends, before or after the publication and before the mark, or fails on an error
\* of the storage: the row is handled again in a later round.
HostTaskRestarts ==
    /\ hostTask # NoOnlineTask /\ hostTask' = NoOnlineTask
    /\ Fault
    /\ UNCHANGED <<cloudLink, linkStatus, guestMember, onlineOut, onlineWire, onlineIn, received, groupLog, lastSeq, guestCopy, sentSays>>

\* One statement on the link row, which no request of the owner can come between.
rewind_online_history(body) ==
    /\ body \in onlineIn["host"] /\ body.kind = "sync"
    /\ lastSeq' = IF linkStatus["host"] = "active" /\ body.after < lastSeq THEN body.after ELSE lastSeq
    /\ onlineIn' = [onlineIn EXCEPT !["host"] = @ \ {body}]
    /\ UNCHANGED <<cloudLink, linkStatus, guestMember, onlineOut, onlineWire, received, hostTask, onlineFaults, groupLog, guestCopy, sentSays>>

\* Wrong version: the cursor moves to the last message fetched, also when the page was cut.
CursorFetched(to) == IF lastSeq + HistoryPage < Len(groupLog) THEN lastSeq + HistoryPage ELSE Len(groupLog)

\* The cursor moves to the last message put into the page.
Cursor(to) == to

\* The next page, cut at its size, with the cursor moved in the same transaction; a guest
\* who is no member any more revokes the link. A page waits until the outbox is empty.
queue_online_history ==
    /\ linkStatus["host"] = "active" /\ cloudLink = "joined" /\ onlineOut["host"] = {}
    /\ \/ /\ ~guestMember /\ Revokes("host") /\ UNCHANGED lastSeq
       \/ /\ guestMember /\ lastSeq < Len(groupLog)
          /\ \E to \in (lastSeq + 1) .. Len(groupLog) :
               /\ to <= lastSeq + HistoryPage
               /\ Ship("host", BatchMsg(lastSeq + 1, to)) /\ lastSeq' = Cursor(to)
          /\ UNCHANGED <<linkStatus, guestMember, onlineIn, onlineWire>>
    /\ UNCHANGED <<cloudLink, received, hostTask, onlineFaults, groupLog, guestCopy, sentSays>>

-----------------------------------------------------------------------------
(* The guest.                                                              *)

save_online_batch(body) ==
    /\ body \in onlineIn["guest"]
    /\ onlineIn' = [onlineIn EXCEPT !["guest"] = @ \ {body}]
    /\ IF linkStatus["guest"] = "revoked" THEN UNCHANGED <<linkStatus, guestCopy>>
       ELSE IF body.kind = "welcome"
       THEN linkStatus' = [linkStatus EXCEPT !["guest"] = "active"] /\ UNCHANGED guestCopy
       ELSE guestCopy' = guestCopy \cup (body.from .. body.to) /\ UNCHANGED linkStatus
    /\ UNCHANGED <<cloudLink, guestMember, onlineOut, onlineWire, received, hostTask, onlineFaults, groupLog, lastSeq, sentSays>>

\* Every half minute the guest asks for what follows the last message it has. Such requests
\* are counted among the faults to bound them, and one is under way at a time.
queue_online_resync ==
    /\ linkStatus["guest"] = "active" /\ cloudLink = "joined"
    /\ \A body \in onlineOut["guest"] \cup onlineWire["host"] \cup onlineIn["host"] : body.kind # "sync"
    /\ Fault
    /\ Ship("guest", SyncMsg(Maximum(guestCopy)))
    /\ UNCHANGED <<cloudLink, linkStatus, guestMember, onlineWire, onlineIn, received, hostTask, groupLog, lastSeq, guestCopy, sentSays>>

-----------------------------------------------------------------------------
LinkStep(side) == cloud_delete(side) \/ peer(side)

HostStep ==
    \/ \E body \in onlineIn["host"] : online_incoming(body)
    \/ activate_online_guest \/ check_sender \/ publish_online \/ said

\* A round takes deliveries in the order they came: requests for history, which have no end,
\* keep no other delivery waiting.
Receives(side) == \E body \in onlineWire[side] : body.kind # "sync" /\ receive_online(side, body)
ReceivesSync == \E body \in onlineWire["host"] : body.kind = "sync" /\ receive_online("host", body)
Rewinds == \E body \in onlineIn["host"] : rewind_online_history(body)
GuestStep == \E body \in onlineIn["guest"] : save_online_batch(body)

OnlineNext ==
    \/ invite \/ join \/ OnlinePost \/ RemoveGuest
    \/ \E m \in Says : queue_online_text(m)
    \/ \E side \in Sides : leave(side) \/ LinkStep(side) \/ ship(side) \/ Receives(side)
    \/ ReceivesSync \/ Rewinds \/ HostStep \/ HostTaskRestarts \/ queue_online_history \/ queue_online_resync
    \/ GuestStep

-----------------------------------------------------------------------------
(* Properties.                                                             *)

\* A message of the guest is in the group at most once, however often it is sent, delivered
\* or handled again after the host's task ended between the publication and its mark.
SaidOnce == \A i, j \in DOMAIN groupLog : groupLog[i] # 0 /\ groupLog[i] = groupLog[j] => i = j

Enters(m) == PublishedAlready(m)' /\ ~PublishedAlready(m)

\* What follows a revocation: the link stays revoked on the side that revoked it, though an
\* admission or a welcome was under way. After the host's, no message of the guest enters the
\* group but the one the task was publishing, whose sender it had checked before.
RevocationStands ==
    [][\A side \in Sides : linkStatus[side] = "revoked" =>
         /\ linkStatus'[side] = "revoked"
         /\ side = "host" => \A m \in Says : Enters(m) =>
              Saying("checked") /\ hostTask.row.id = m /\ hostTask.link # "revoked"]_onlineVars

Joined == \A side \in Sides : linkStatus[side] # "revoked"

\* No message of the group is lost on its way to the guest: it is in the guest's copy, in a
\* page under way, or behind the host's cursor, although pages are cut, repeated, reordered
\* and asked for again from cursors that are out of date.
NoPageIsLost ==
    Joined => \A i \in DOMAIN groupLog :
        \/ i \in guestCopy \/ lastSeq < i
        \/ \E body \in onlineOut["host"] \cup onlineWire["guest"] \cup onlineIn["guest"] :
              body.kind = "batch" /\ body.from <= i /\ i <= body.to

\* A message the guest's installation took is in the group or still on its way there, unless
\* the link ended or the guest was removed from the conversation.
NoSayIsLost ==
    Joined /\ guestMember => \A m \in sentSays :
        \/ PublishedAlready(m)
        \/ SayMsg(m) \in onlineOut["guest"] \cup onlineWire["host"] \cup onlineIn["host"]

-----------------------------------------------------------------------------
(***************************************************************************)
(* Agents of a guest in a group shared over the Online service. The guest  *)
(* shares an Agent and stops sharing it, each time under the next          *)
(* generation; the host admits a stand-in for it, or refuses its name. The *)
(* messages of the group enter the guest's pipeline in a conversation of   *)
(* their own, and what the Agents reply there goes back to the group.      *)
(* Shipments between the two arrive in any order and may be handled twice, *)
(* when a task ends before it marked them; the pages of the group's        *)
(* history arrive in order. The Agents here are of one workspace.          *)
(***************************************************************************)

CONSTANTS
    SharedAgents,      \* Agents of the guest
    MaxShareChanges,   \* bound on the generations of an Agent
    MaxGroupPosts,     \* bound on messages of others in the group
    MaxAgentReplies,   \* bound on replies in the guest's conversation
    MaxAgentFaults     \* bound on shipments and inputs handled twice

VARIABLES
    guestAgent,    \* Agent -> its online_group_agent row at the guest
    guestJoined,   \* Agents that are members of the guest's execution conversation
    hostAgent,     \* Agent -> its online_group_agent row at the host
    hostMembers,   \* Agents whose stand-in is a member of the group
    hostRevoked,   \* the host revoked the link
    toHost,        \* agent_join, agent_leave and agent_say under way
    toGuest,       \* agent_joined under way
    groupPosts,    \* the group's messages: 0 for a post of others, or the reply that was published
    guestSeen,     \* how many of them the guest has
    execEvents,    \* events of the execution conversation: inputs and replies
    inputSeq, outputSeq, \* online_execution_workspace
    inputTaken,    \* the message the task is publishing into the conversation, or 0
    replyTask,     \* the reply the host's task is publishing, or NoReply
    agentFaults    \* faults so far

onlineAgentVars == <<guestAgent, guestJoined, hostAgent, hostMembers, hostRevoked, toHost, toGuest, groupPosts,
               guestSeen, execEvents, inputSeq, outputSeq, inputTaken, replyTask, agentFaults>>
sharedVars == <<groupPosts, guestSeen, execEvents, inputSeq, outputSeq, inputTaken, replyTask>>

NoReply == [at |-> "none"]
Replies == {i \in DOMAIN execEvents : execEvents[i].input = 0}

OnlineAgentsTypeOK ==
    /\ \A a \in SharedAgents :
         /\ guestAgent[a].status \in {"none", "pending", "active", "error", "removed"}
         /\ hostAgent[a].status \in {"none", "active", "removed"}
         /\ guestAgent[a].generation \in 0 .. MaxShareChanges
         /\ hostAgent[a].generation \in 0 .. MaxShareChanges
    /\ guestJoined \subseteq SharedAgents /\ hostMembers \subseteq SharedAgents
    /\ guestSeen \in 0 .. Len(groupPosts) /\ inputSeq \in 0 .. guestSeen
    /\ outputSeq \in 0 .. Len(execEvents) /\ inputTaken \in 0 .. guestSeen
    /\ replyTask.at \in {"none", "checked", "member"}

OnlineAgentsInit ==
    /\ guestAgent = [a \in SharedAgents |-> [status |-> "none", generation |-> 0, start |-> 0]]
    /\ hostAgent = [a \in SharedAgents |-> [status |-> "none", generation |-> 0]]
    /\ guestJoined = {} /\ hostMembers = {} /\ hostRevoked = FALSE
    /\ toHost = {} /\ toGuest = {}
    /\ groupPosts = <<>> /\ guestSeen = 0 /\ execEvents = <<>>
    /\ inputSeq = 0 /\ outputSeq = 0 /\ inputTaken = 0 /\ replyTask = NoReply /\ agentFaults = 0

AgentFault == agentFaults < MaxAgentFaults /\ agentFaults' = agentFaults + 1

-----------------------------------------------------------------------------
(* Sharing an Agent.                                                       *)

\* An Agent that is shared already, or about to be, is left alone. It sees what follows the
\* messages the guest has now. Whether a member of the group has its name is a fact of the
\* group, drawn here: it is the same at both attempts at a registration handled twice.
add_online_agent(a) ==
    /\ guestAgent[a].status \notin {"pending", "active"}
    /\ guestAgent[a].generation < MaxShareChanges
    /\ LET g == guestAgent[a].generation + 1 IN
       /\ guestAgent' = [guestAgent EXCEPT ![a] = [status |-> "pending", generation |-> g, start |-> guestSeen]]
       /\ \E taken \in BOOLEAN :
            toHost' = toHost \cup {[kind |-> "join", agent |-> a, generation |-> g, taken |-> taken]}
    /\ UNCHANGED <<guestJoined, hostAgent, hostMembers, hostRevoked, toGuest, agentFaults, sharedVars>>

remove_online_agent(a) ==
    /\ guestAgent[a].status # "none" /\ guestAgent[a].generation < MaxShareChanges
    /\ LET g == guestAgent[a].generation + 1 IN
       /\ guestAgent' = [guestAgent EXCEPT ![a].status = "removed", ![a].generation = g]
       /\ toHost' = toHost \cup {[kind |-> "leave", agent |-> a, generation |-> g]}
    /\ guestJoined' = guestJoined \ {a}
    /\ UNCHANGED <<hostAgent, hostMembers, hostRevoked, toGuest, agentFaults, sharedVars>>

\* A row is marked once it is handled, unless the task ends in between.
HandledByHost(m) ==
    \/ toHost' = toHost \ {m} /\ UNCHANGED agentFaults
    \/ AgentFault /\ UNCHANGED toHost

\* The host heard of a later generation of the Agent.
Superseded(a, g) == hostAgent[a].generation > g

\* Wrong version: the status of the link is the one read before the row was locked.
RefusedAsRead(m) == Superseded(m.agent, m.generation)

ShareRefused(m) == hostRevoked \/ Superseded(m.agent, m.generation)

\* The stand-in becomes a member, unless the host is past this generation or another
\* member has the Agent's name; the link is locked and has to be active.
accept_online_agent(m) ==
    /\ replyTask = NoReply /\ m \in toHost /\ m.kind = "join"
    /\ IF ShareRefused(m)
       THEN UNCHANGED <<hostAgent, hostMembers, toGuest>>
       ELSE \/ /\ ~m.taken
               /\ hostAgent' = [hostAgent EXCEPT ![m.agent] = [status |-> "active", generation |-> m.generation]]
               /\ hostMembers' = hostMembers \cup {m.agent}
               /\ toGuest' = toGuest \cup {[agent |-> m.agent, generation |-> m.generation, rejected |-> FALSE]}
            \/ /\ m.taken
               /\ toGuest' = toGuest \cup {[agent |-> m.agent, generation |-> m.generation, rejected |-> TRUE]}
               /\ UNCHANGED <<hostAgent, hostMembers>>
    /\ HandledByHost(m)
    /\ UNCHANGED <<guestAgent, guestJoined, hostRevoked, sharedVars>>

\* A removal that is late leaves alone an Agent that was shared again since.
Leaves(a, g) == hostAgent[a].generation <= g

accept_online_agent_leave(m) ==
    /\ replyTask = NoReply /\ m \in toHost /\ m.kind = "leave"
    /\ IF Leaves(m.agent, m.generation)
       THEN /\ hostAgent' = [hostAgent EXCEPT ![m.agent] = [status |-> "removed", generation |-> m.generation]]
            /\ hostMembers' = hostMembers \ {m.agent}
       ELSE UNCHANGED <<hostAgent, hostMembers>>
    /\ HandledByHost(m)
    /\ UNCHANGED <<guestAgent, guestJoined, hostRevoked, toGuest, sharedVars>>

Answers(m) == guestAgent[m.agent].status = "pending" /\ guestAgent[m.agent].generation = m.generation

confirm_online_agent(m) ==
    /\ m \in toGuest
    /\ IF Answers(m)
       THEN /\ guestAgent' = [guestAgent EXCEPT ![m.agent].status = IF m.rejected THEN "error" ELSE "active"]
            /\ guestJoined' = IF m.rejected THEN guestJoined ELSE guestJoined \cup {m.agent}
       ELSE UNCHANGED <<guestAgent, guestJoined>>
    /\ toGuest' = toGuest \ {m}
    /\ UNCHANGED <<hostAgent, hostMembers, hostRevoked, toHost, agentFaults, sharedVars>>

\* The host's part of a revocation: every Agent of the guest leaves the group.
revoke_online_group ==
    /\ ~hostRevoked /\ hostRevoked' = TRUE
    /\ hostAgent' = [a \in SharedAgents |->
         IF hostAgent[a].status = "none" THEN hostAgent[a] ELSE [hostAgent[a] EXCEPT !.status = "removed"]]
    /\ hostMembers' = {}
    /\ UNCHANGED <<guestAgent, guestJoined, toHost, toGuest, agentFaults, sharedVars>>

-----------------------------------------------------------------------------
(* Messages.                                                               *)

\* external: someone else writes in the group.
GroupPost ==
    /\ ~hostRevoked
    /\ Cardinality({i \in DOMAIN groupPosts : groupPosts[i] = 0}) < MaxGroupPosts
    /\ groupPosts' = Append(groupPosts, 0)
    /\ UNCHANGED <<guestAgent, guestJoined, hostAgent, hostMembers, hostRevoked, toHost, toGuest, agentFaults, replyTask,
                   guestSeen, execEvents, inputSeq, outputSeq, inputTaken>>

\* The next page of the history arrives at the guest (module OnlineGroups).
save_online_message ==
    /\ guestSeen < Len(groupPosts) /\ guestSeen' = guestSeen + 1
    /\ UNCHANGED <<guestAgent, guestJoined, hostAgent, hostMembers, hostRevoked, toHost, toGuest, agentFaults, replyTask,
                   groupPosts, execEvents, inputSeq, outputSeq, inputTaken>>

\* A message of someone else that follows the sharing of an active Agent.
ForAgents(s) ==
    /\ \E a \in SharedAgents : guestAgent[a].status = "active" /\ guestAgent[a].start < s
    /\ groupPosts[s] = 0

next_online_agent_input ==
    /\ inputTaken = 0
    /\ \E s \in (inputSeq + 1) .. guestSeen :
         /\ ForAgents(s) /\ \A t \in (inputSeq + 1) .. (s - 1) : ~ForAgents(t)
         /\ inputTaken' = s
    /\ UNCHANGED <<guestAgent, guestJoined, hostAgent, hostMembers, hostRevoked, toHost, toGuest, agentFaults, replyTask,
                   groupPosts, guestSeen, execEvents, inputSeq, outputSeq>>

\* The idempotency key of an input is made of the conversation and the shared message.
InputIsNew(s) == \A i \in DOMAIN execEvents : execEvents[i].input # s

finish_online_agent_input == inputSeq' = IF inputTaken > inputSeq THEN inputTaken ELSE inputSeq

\* The input is published; the cursor follows in a second step, which a crash may forestall.
publish_input ==
    /\ inputTaken # 0
    /\ execEvents' = IF InputIsNew(inputTaken) THEN Append(execEvents, [input |-> inputTaken, agent |-> 0])
                     ELSE execEvents
    /\ \/ finish_online_agent_input /\ UNCHANGED agentFaults
       \/ AgentFault /\ UNCHANGED inputSeq
    /\ inputTaken' = 0
    /\ UNCHANGED <<guestAgent, guestJoined, hostAgent, hostMembers, hostRevoked, toHost, toGuest, replyTask,
                   groupPosts, guestSeen, outputSeq>>

\* external: a member of the execution conversation replies there.
AgentReplies(a) ==
    /\ a \in guestJoined /\ execEvents # <<>> /\ Cardinality(Replies) < MaxAgentReplies
    /\ execEvents' = Append(execEvents, [input |-> 0, agent |-> a])
    /\ UNCHANGED <<guestAgent, guestJoined, hostAgent, hostMembers, hostRevoked, toHost, toGuest, agentFaults, replyTask,
                   groupPosts, guestSeen, inputSeq, outputSeq, inputTaken>>

\* Replies of Agents that are still shared are queued, and the cursor passes all events, in
\* one transaction.
queue_online_agent_replies ==
    /\ outputSeq < Len(execEvents)
    /\ toHost' = toHost \cup
         {[kind |-> "say", agent |-> execEvents[i].agent, id |-> i] :
            i \in {j \in Replies : j > outputSeq /\ guestAgent[execEvents[j].agent].status = "active"}}
    /\ outputSeq' = Len(execEvents)
    /\ UNCHANGED <<guestAgent, guestJoined, hostAgent, hostMembers, hostRevoked, toGuest, agentFaults, replyTask,
                   groupPosts, guestSeen, execEvents, inputSeq, inputTaken>>

SayIsNew(m) == \A i \in DOMAIN groupPosts : groupPosts[i] # m.id

IsSender(a) == ~hostRevoked /\ hostAgent[a].status = "active" /\ a \in hostMembers

\* The reply of an Agent the host has as an active member goes on to send_message; another
\* one is refused. Whether the host had revoked by then is kept as history.
online_agent_sender(m) ==
    /\ replyTask = NoReply /\ m \in toHost /\ m.kind = "say"
    /\ IF IsSender(m.agent)
       THEN /\ replyTask' = [at |-> "checked", say |-> m, revoked |-> hostRevoked]
            /\ UNCHANGED <<toHost, agentFaults>>
       ELSE HandledByHost(m) /\ UNCHANGED replyTask
    /\ UNCHANGED <<guestAgent, guestJoined, hostAgent, hostMembers, hostRevoked, toGuest,
                   groupPosts, guestSeen, execEvents, inputSeq, outputSeq, inputTaken>>

\* send_message lets an Agent join that is no member, one that was removed since included.
send_message_joins ==
    /\ replyTask.at = "checked"
    /\ replyTask' = [replyTask EXCEPT !.at = "member"]
    /\ hostMembers' = hostMembers \cup {replyTask.say.agent}
    /\ UNCHANGED <<guestAgent, guestJoined, hostAgent, hostRevoked, toHost, toGuest, agentFaults,
                   groupPosts, guestSeen, execEvents, inputSeq, outputSeq, inputTaken>>

\* Its transaction appends the reply, once per delivery.
publish_agent_say ==
    /\ replyTask.at = "member"
    /\ groupPosts' = IF SayIsNew(replyTask.say) THEN Append(groupPosts, replyTask.say.id) ELSE groupPosts
    /\ HandledByHost(replyTask.say) /\ replyTask' = NoReply
    /\ UNCHANGED <<guestAgent, guestJoined, hostAgent, hostMembers, hostRevoked, toGuest,
                   guestSeen, execEvents, inputSeq, outputSeq, inputTaken>>

\* The task ends, or the storage fails it, before the reply is in the group.
ReplyTaskRestarts ==
    /\ replyTask # NoReply /\ replyTask' = NoReply /\ AgentFault
    /\ UNCHANGED <<guestAgent, guestJoined, hostAgent, hostMembers, hostRevoked, toHost, toGuest,
                   groupPosts, guestSeen, execEvents, inputSeq, outputSeq, inputTaken>>

OnlineAgentsNext ==
    \/ \E a \in SharedAgents : add_online_agent(a) \/ remove_online_agent(a) \/ AgentReplies(a)
    \/ \E m \in toHost : accept_online_agent(m) \/ accept_online_agent_leave(m) \/ online_agent_sender(m)
    \/ \E m \in toGuest : confirm_online_agent(m)
    \/ revoke_online_group \/ GroupPost \/ save_online_message
    \/ next_online_agent_input \/ publish_input \/ queue_online_agent_replies
    \/ send_message_joins \/ publish_agent_say \/ ReplyTaskRestarts

-----------------------------------------------------------------------------
(* Properties.                                                             *)

\* When nothing about an Agent is under way, host and guest agree on whether it is shared,
\* although registrations, removals and answers overtook each other.
SidesAgreeOnAgents ==
    \A a \in SharedAgents :
        ~hostRevoked /\ (\A m \in toHost \cup toGuest : m.agent # a) =>
            (hostAgent[a].status = "active" <=> guestAgent[a].status = "active")

\* A revoked host shares no Agent of the guest any more, though a registration was under way,
\* and no stand-in comes back into its group but that of an Agent whose reply the task had
\* let pass before the revocation, which send_message makes a member again.
RevokedGroupStaysClosed ==
    [][hostRevoked =>
         /\ \A a \in SharedAgents : hostAgent'[a].status # "active"
         /\ \A a \in hostMembers' \ hostMembers :
              replyTask.at = "checked" /\ replyTask.say.agent = a /\ ~replyTask.revoked]_onlineAgentVars

\* A message of the group enters the Agents' conversation at most once, and in its order,
\* although the task may end between the publication and the cursor.
InputsInOrder ==
    \A i, j \in DOMAIN execEvents :
        i < j /\ execEvents[i].input # 0 /\ execEvents[j].input # 0 => execEvents[i].input < execEvents[j].input

\* What an Agent of the guest said in the group is never given to it, or to another Agent of
\* the guest, as a new message: two Agents would answer themselves for ever.
NoEcho == \A i \in DOMAIN execEvents : execEvents[i].input # 0 => groupPosts[execEvents[i].input] = 0

\* A reply is published in the group at most once, although its shipment is handled twice.
RepliesOnce == \A i, j \in DOMAIN groupPosts : groupPosts[i] # 0 /\ groupPosts[i] = groupPosts[j] => i = j
=============================================================================
