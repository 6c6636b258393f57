----------------------------- MODULE MCWorkspace -----------------------------
(* Small instances, for TLC, of what a workspace keeps: messages, tasks,     *)
(* events, journals, accounts.  A behaviour is about one of the components,  *)
(* its part; the others rest.                                                *)
EXTENDS Outbox, Conversations, ChannelTasks, Online, Journals, Workspaces,
        Webhooks, Attachments

VARIABLE part   \* the component this behaviour is about

\* The first command shares a file, the second is too large to ship.
MCKindsOf(c) == IF c = 1 THEN {"share"} ELSE {"oversize"}

\* Bound: faults, file edits, moves of the outbox and the agent's departure together.
Upsets == outboxFaults + revision + moves + (IF member THEN 0 ELSE 1)
MaxUpsets == 1

\* A second one is only the failure of a request whose client is gone.
UpsetsBound ==
    \/ Upsets' <= MaxUpsets \/ Upsets' = Upsets
    \/ \E s \in DOMAIN handler : handler[s].answer = "nobody" /\ GatewayFails(s)

\* Bound: faults and changes of membership of the attachments together.
MaxAttUpsets == 1
AttUpsetsBound == attFaults' + memberChanges' <= MaxAttUpsets

\* Bound: tasks change on a board of one task, and the second change comes with
\* no other call under way.
CallsAtTasks(at) == {c \in TkCalls : tkCall[c].at \in at}
TasksBound ==
    /\ Cardinality(Tasks') = 2 => TaskChanges' = 0 /\ CallsAtTasks({"resolved", "update"})' = {}
    /\ TaskChanges' = 2 => CallsAtTasks({"checked", "resolved", "update"})' = {}

\* Bound: one call at a time marks something as viewed.
ViewsBound == Cardinality({c \in Calls : call'[c].at \in {"view", "receipt"}}) <= 1

vars == <<part, outboxVars, msgVars, convVars, taskVars, rolesVars,
          onlineVars, onlineAgentVars, toolVars, walVars, wsVars, hookVars,
          attVars>>

Parts == {"outbox", "messages", "conversations", "tasks", "roles", "online",
          "onlineAgents", "tools", "wal", "workspaces", "webhooks",
          "attachments"}

\* A component that is not the part of the behaviour rests in an initial state.
Init ==
    /\ part \in Parts
    /\ OutboxInit /\ (part # "outbox" => placed = "here")
    /\ MessagesInit
    /\ ConversationsInit
    /\ ChannelTasksInit
    /\ TaskRolesInit
    /\ OnlineInit
    /\ OnlineAgentsInit
    /\ ToolEffectsInit
    /\ TurnWalInit
    /\ WorkspacesInit /\ (part # "workspaces" => ~signedIn)
    /\ WebhooksInit
    /\ AttachmentsInit /\ (part # "attachments" => convMembers = [k \in AttConversations |-> AttHumans])

OutboxPart ==
    /\ part = "outbox" /\ OutboxNext /\ UpsetsBound
    /\ UNCHANGED <<part, msgVars, convVars, taskVars, rolesVars, onlineVars,
                   onlineAgentVars, toolVars, walVars, wsVars, hookVars,
                   attVars>>

MessagesPart ==
    /\ part = "messages" /\ MessagesNext /\ ViewsBound
    /\ UNCHANGED <<part, outboxVars, convVars, taskVars, rolesVars,
                   onlineVars, onlineAgentVars, toolVars, walVars, wsVars,
                   hookVars, attVars>>

ConversationsPart ==
    /\ part = "conversations" /\ ConversationsNext
    /\ UNCHANGED <<part, outboxVars, msgVars, taskVars, rolesVars,
                   onlineVars, onlineAgentVars, toolVars, walVars, wsVars,
                   hookVars, attVars>>

TasksPart ==
    /\ part = "tasks" /\ ChannelTasksNext /\ TasksBound
    /\ UNCHANGED <<part, outboxVars, msgVars, convVars, rolesVars,
                   onlineVars, onlineAgentVars, toolVars, walVars, wsVars,
                   hookVars, attVars>>

RolesPart ==
    /\ part = "roles" /\ TaskRolesNext
    /\ UNCHANGED <<part, outboxVars, msgVars, convVars, taskVars, onlineVars,
                   onlineAgentVars, toolVars, walVars, wsVars, hookVars,
                   attVars>>

OnlinePart ==
    /\ part = "online" /\ OnlineNext
    /\ UNCHANGED <<part, outboxVars, msgVars, convVars, taskVars, rolesVars,
                   onlineAgentVars, toolVars, walVars, wsVars, hookVars,
                   attVars>>

OnlineAgentsPart ==
    /\ part = "onlineAgents" /\ OnlineAgentsNext
    /\ UNCHANGED <<part, outboxVars, msgVars, convVars, taskVars, rolesVars,
                   onlineVars, toolVars, walVars, wsVars, hookVars, attVars>>

ToolsPart ==
    /\ part = "tools" /\ ToolEffectsNext
    /\ UNCHANGED <<part, outboxVars, msgVars, convVars, taskVars, rolesVars,
                   onlineVars, onlineAgentVars, walVars, wsVars, hookVars,
                   attVars>>

WalPart ==
    /\ part = "wal" /\ TurnWalNext
    /\ UNCHANGED <<part, outboxVars, msgVars, convVars, taskVars, rolesVars,
                   onlineVars, onlineAgentVars, toolVars, wsVars, hookVars,
                   attVars>>

WorkspacesPart ==
    /\ part = "workspaces" /\ WorkspacesNext
    /\ UNCHANGED <<part, outboxVars, msgVars, convVars, taskVars, rolesVars,
                   onlineVars, onlineAgentVars, toolVars, walVars, hookVars,
                   attVars>>

WebhooksPart ==
    /\ part = "webhooks" /\ WebhooksNext
    /\ UNCHANGED <<part, outboxVars, msgVars, convVars, taskVars, rolesVars,
                   onlineVars, onlineAgentVars, toolVars, walVars, wsVars,
                   attVars>>

AttachmentsPart ==
    /\ part = "attachments" /\ AttachmentsNext /\ AttUpsetsBound
    /\ UNCHANGED <<part, outboxVars, msgVars, convVars, taskVars, rolesVars,
                   onlineVars, onlineAgentVars, toolVars, walVars, wsVars,
                   hookVars>>

Next ==
    \/ OutboxPart
    \/ MessagesPart
    \/ ConversationsPart
    \/ TasksPart
    \/ RolesPart
    \/ OnlinePart
    \/ OnlineAgentsPart
    \/ ToolsPart
    \/ WalPart
    \/ WorkspacesPart
    \/ WebhooksPart
    \/ AttachmentsPart

Spec == Init /\ [][Next]_vars

\* Every component keeps the types of its state (the others rest in theirs).
TypeOK ==
    /\ (part = "outbox" => OutboxTypeOK)
    /\ (part = "messages" => MessagesTypeOK)
    /\ (part = "conversations" => ConversationsTypeOK)
    /\ (part = "tasks" => ChannelTasksTypeOK)
    /\ (part = "roles" => TaskRolesTypeOK)
    /\ (part = "online" => OnlineTypeOK)
    /\ (part = "onlineAgents" => OnlineAgentsTypeOK)
    /\ (part \in {"tools", "wal"} => TurnWalTypeOK)
    /\ (part \in {"tools", "wal"} => ToolEffectsTypeOK)
    /\ (part = "workspaces" => WorkspacesTypeOK)
    /\ (part \in {"webhooks", "attachments"} => WebhooksTypeOK)
    /\ (part \in {"webhooks", "attachments"} => AttachmentsTypeOK)

(* What is asked for again, or found by two workers at once, is done once:  *)
(* commands of an outbox, messages with a key, tasks with a key, what a guest *)
(* or a shared Agent says online, and tool calls.                           *)
DoneOnce ==
    /\ (part = "outbox" => RunsOnce)
    /\ (part = "messages" => OneMessagePerKey)
    /\ (part = "tasks" => CreateIsIdempotent)
    /\ (part = "online" => SaidOnce)
    /\ (part = "onlineAgents" => RepliesOnce)
    /\ (part = "tools" => ToolRunsOnce)


(* Records written by several requests agree with each other: counters with *)
(* messages, threads with roots, a task with its log and its owner, the two *)
(* sides of a shared group, the callers of one tool call, the five answers to *)
(* what a principal may see.                                                *)
RecordsAgree ==
    /\ (part = "messages" => UnreadIsExact /\ ThreadsAreFlat)
    /\ (part = "conversations" => FiledInOnePlace)
    /\ (part = "tasks" => TaskLogIsAChain)
    /\ (part = "roles" => OneOwner)
    /\ (part = "onlineAgents" => SidesAgreeOnAgents /\ InputsInOrder)
    /\ (part = "tools" => CallersAgree)
    /\ (part = "workspaces" => ViewsAgree)


(* No step goes back on what was settled: refused or drained commands, frozen *)
(* tasks and their assignees, revoked groups, delivery cursors.             *)
SettledStaysSettled ==
    /\ OnlyAcceptedRuns /\ DrainedStaysDrained /\ OrphanedTaskIsFrozen
    /\ MovedWithAuthority /\ RevocationStands /\ RevokedGroupStaysClosed
    /\ CursorNeverGoesBack
=============================================================================
