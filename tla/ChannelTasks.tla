---------------------------- MODULE ChannelTasks -----------------------------
(***************************************************************************)
(* The task board of one group conversation: tasks created by agents and   *)
(* from messages by concurrent, repeated calls, patched by members and     *)
(* moved by workflow events, with the event log and the owner row that     *)
(* every change writes in its transaction.                                 *)
(***************************************************************************)
EXTENDS Integers, Sequences, FiniteSets, FiniteSetsExt, TLC

CONSTANTS
    TkHumans, TkAgents,   \* principals of the workspace, as numbers
    TkCoordinator,        \* the conversation's default coordinator agent
    TkCalls,              \* concurrent create calls and workflow appends
    KeyAttempts,          \* ALLOCATE_TASK_KEY_MAX_ATTEMPTS
    MaxTasks, MaxTaskChanges  \* bounds: tasks, changes of tasks in all

VARIABLES
    tkMembers,   \* active visible members of the group
    task,        \* id -> row with its owner participants and event log
    taskSeq,     \* channel_task_sequence.next_value
    tkCall,      \* call -> its request and phase
    mismatched   \* history: a create was answered with another payload's task

taskVars == <<tkMembers, task, taskSeq, tkCall, mismatched>>

TkPrincipals == TkHumans \cup TkAgents
TaskIds == 1 .. MaxTasks
TaskStatus == {"todo", "done"}
NoTask == [key |-> 0]
Tasks == {i \in TaskIds : task[i].key # 0}
UsedKeys == {task[i].key : i \in Tasks}
Shown(row) == [status |-> row.status, assignee |-> row.assignee]
NoTaskCall == [at |-> "idle"]

ChannelTasksTypeOK ==
    /\ tkMembers \subseteq TkPrincipals
    /\ \A i \in Tasks : /\ task[i].status \in TaskStatus
                        /\ task[i].version \in 1 .. (MaxTaskChanges + 1)
    /\ taskSeq \in Nat
    /\ \A c \in TkCalls : tkCall[c].at \in {"idle", "checked", "resolved", "update"}
    /\ mismatched \in BOOLEAN

ChannelTasksInit ==
    /\ tkMembers = TkPrincipals
    /\ task = [i \in TaskIds |-> NoTask]
    /\ taskSeq = 1
    /\ tkCall = [c \in TkCalls |-> NoTaskCall]
    /\ mismatched = FALSE

-----------------------------------------------------------------------------
(* Helpers of a transaction.                                               *)

\* One idempotency key and one source message are enough to make calls
\* collide; a request names its author, its payload and maybe its task key
\* (0: allocate one; explicit keys are agents' numbers, so that they can
\* occupy several numbers of the sequence, and come with tasks for oneself).
CreateRequests ==
    {r \in [src : {"agent"}, by : TkAgents, payload : TkAgents, key : {0} \cup TkAgents] :
        r.key = 0 \/ (r.key = r.by /\ r.payload = r.by)}
        \cup [src : {"message"}, by : TkHumans, payload : TkHumans, key : {0}]

find_agent_idempotent_task_tx(r) == {i \in Tasks : task[i].src = r.src /\ task[i].by = r.by}

\* An active member; for agents also a visible one.
require_channel_task_member_access_tx(p) == p \in tkMembers

require_visible_group_agent_actor_tx(p) == p \in TkAgents \cap tkMembers

is_configured_channel_task_coordinator_tx(p) == p = TkCoordinator

\* Assignees are visible active members; agents assign agents only.
validate_visible_channel_task_assignee_tx(assignee, allowHuman) ==
    assignee \in tkMembers /\ (assignee \in TkHumans => allowHuman)

\* The sequence value an allocation takes: the first unused of a few
\* candidates, else one past the largest key in use.
allocate_unused_task_key_tx ==
    LET tried == taskSeq .. taskSeq + KeyAttempts - 1
        free  == tried \ UsedKeys
        past  == IF UsedKeys = {} THEN 1 ELSE Max(UsedKeys) + 1
    IN  IF free # {} THEN Min(free) ELSE Max({past, taskSeq + KeyAttempts})

\* The owner row is deleted and inserted again, which needs an assignee that
\* is an active member: otherwise the whole transaction fails.
sync_owner_participant_tx(row, old) == row.assignee \in tkMembers

\* The versioned event a change writes: what the row showed, what it shows
\* now, and the version its update returned.
EventOf(row, status, assignee) ==
    [prev |-> Shown(row), new |-> [status |-> status, assignee |-> assignee],
     version |-> row.version + 1]

\* history: whether the event continues the one before it, apart from the
\* silent changes in between.
Continues(row, e) ==
    /\ row.chained /\ e.version = row.last.version + row.silent + 1
    /\ row.silent = 0 => e.prev = row.last.new

\* Wrong version: a patch that changes nothing still bumps the version but
\* writes no event.
Logged_silent(row, status, assignee) ==
    LET e == EventOf(row, status, assignee)
    IN  [row EXCEPT !.status = status, !.assignee = assignee, !.version = @ + 1, !.silent = 0,
            !.last = IF e.new = e.prev THEN @ ELSE [new |-> e.new, version |-> e.version],
            !.chained = Continues(row, e)]

\* The row after a change of status and assignee, with its event.
Logged(row, status, assignee) ==
    LET e == EventOf(row, status, assignee)
    IN  [row EXCEPT !.status = status, !.assignee = assignee, !.version = @ + 1, !.silent = 0,
            !.last = [new |-> e.new, version |-> e.version], !.chained = Continues(row, e)]

TaskChanges ==
    Cardinality({x \in Tasks \X (2 .. (MaxTaskChanges + 1)) : x[2] <= task[x[1]].version})

-----------------------------------------------------------------------------
(* create_channel_task and create_channel_task_from_message.               *)

\* The calls are interchangeable: the first free one starts.
FirstIdle(c) == tkCall[c].at = "idle" /\ \A d \in TkCalls : d < c => tkCall[d].at # "idle"

AnswerCall(c) == tkCall' = [tkCall EXCEPT ![c] = NoTaskCall]

\* An existing task answers the call, if ok, or the call is refused.
AnswerTask(c, r, i, ok) ==
    /\ AnswerCall(c)
    /\ mismatched' = (mismatched \/ (ok /\ r.src = "agent" /\ task[i].payload # r.payload))

\* An agent that used its key for another payload gets a conflict.
AnswerExisting(c, r, i) ==
    AnswerTask(c, r, i, r.src = "message" \/ task[i].payload = r.payload)

\* The transaction's reads: membership, the idempotency lookup, the assignee.
BeginCreate(c, r) ==
    /\ FirstIdle(c) /\ require_channel_task_member_access_tx(r.by)
    /\ LET found == find_agent_idempotent_task_tx(r)
       IN  IF found # {} THEN \E i \in found : AnswerExisting(c, r, i)
           ELSE /\ validate_visible_channel_task_assignee_tx(r.payload, r.src = "message")
                /\ tkCall' = [tkCall EXCEPT ![c] = [at |-> "checked", req |-> r]]
                /\ UNCHANGED mismatched
    /\ UNCHANGED <<tkMembers, task, taskSeq>>

create_channel_task_impl(c) ==
    \E r \in CreateRequests : r.src = "agent" /\ require_visible_group_agent_actor_tx(r.by) /\ BeginCreate(c, r)

create_channel_task_from_message_impl(c) ==
    \E r \in CreateRequests : r.src = "message" /\ BeginCreate(c, r)

\* The insert and the commit: another call's row may have come first, and
\* the assignee may have left. The author's call may be repeated.
InsertTask(c) ==
    /\ tkCall[c].at = "checked"
    /\ LET r == tkCall[c].req
           found == find_agent_idempotent_task_tx(r)
           key == IF r.key = 0 THEN allocate_unused_task_key_tx ELSE r.key
           row == [key |-> key, status |-> "todo", assignee |-> r.payload,
                   version |-> 1, src |-> r.src, by |-> r.by, payload |-> r.payload,
                   last |-> [new |-> [status |-> "todo", assignee |-> r.payload], version |-> 1],
                   chained |-> TRUE, silent |-> 0]
       IN  \/ /\ found # {}
              /\ \E i \in found : AnswerExisting(c, r, i)
              /\ UNCHANGED <<task, taskSeq>>
           \/ /\ found = {} /\ (key \in UsedKeys \/ ~sync_owner_participant_tx(row, 0))
              /\ AnswerCall(c)
              /\ UNCHANGED <<task, taskSeq, mismatched>>
           \/ /\ found = {} /\ key \notin UsedKeys /\ sync_owner_participant_tx(row, 0)
              /\ \E i \in TaskIds \ Tasks :
                    /\ \A j \in 1 .. i - 1 : j \in Tasks
                    /\ task' = [task EXCEPT ![i] = row]
              /\ AnswerCall(c)
              /\ taskSeq' = IF r.key = 0 THEN key + 1 ELSE taskSeq
              /\ UNCHANGED mismatched
    /\ UNCHANGED tkMembers

-----------------------------------------------------------------------------
(* Patches and workflow events; both lock the task's row first.            *)

\* Humans may patch any task, agents what they own or coordinate.
authorize_channel_task_patch_tx(p, row) ==
    \/ p \in TkHumans
    \/ /\ require_visible_group_agent_actor_tx(p)
       /\ p = row.assignee \/ is_configured_channel_task_coordinator_tx(p)

patch_channel_task_impl(p, i, status, assignee) ==
    LET row == task[i]
    IN  /\ i \in Tasks /\ TaskChanges < MaxTaskChanges
        /\ require_channel_task_member_access_tx(p) /\ authorize_channel_task_patch_tx(p, row)
        /\ assignee # row.assignee =>
               validate_visible_channel_task_assignee_tx(assignee, p \in TkHumans)
        /\ LET next == Logged(row, status, assignee)
           IN  /\ sync_owner_participant_tx(next, row.assignee)
               /\ task' = [task EXCEPT ![i] = next]
        /\ UNCHANGED <<tkMembers, taskSeq, tkCall, mismatched>>

\* An agent's reply carries workflow metadata: the task is resolved by its
\* key before the transaction begins.
append_group_workflow_event_for_conversation(c, i) ==
    /\ FirstIdle(c) /\ i \in Tasks
    /\ tkCall' = [tkCall EXCEPT ![c] = [at |-> "resolved", id |-> i]]
    /\ UNCHANGED <<tkMembers, task, taskSeq, mismatched>>

status_for_workflow_event ==
    ("task.created" :> "todo") @@ ("task.completed" :> "done")
        @@ ("external_check.passed" :> "noop")

\* The event takes the row again, locked. An actor that is not the owner or
\* the coordinator, and a kind without effect, leave a diagnostic event that
\* carries no version; a task whose assignee left fails the transaction.
apply_workflow_status_update_tx(c, p, kind) ==
    LET i == tkCall[c].id  row == task[i]
        status == status_for_workflow_event[kind]
    IN  /\ tkCall[c].at = "resolved" /\ TaskChanges < MaxTaskChanges
        /\ tkCall' = [tkCall EXCEPT ![c] = NoTaskCall]
        /\ task' = IF /\ p \in tkMembers /\ p \in {row.assignee, TkCoordinator}
                      /\ status # "noop"
                      /\ sync_owner_participant_tx(row, row.assignee)
                   THEN [task EXCEPT ![i] = Logged(row, status, row.assignee)]
                   ELSE task
        /\ UNCHANGED <<tkMembers, taskSeq, mismatched>>

\* update_group_workflow_task, which no handler calls today: the request names
\* a status, the assignee is the one read before the transaction ...
BeginUpdate(c, i, status) ==
    /\ FirstIdle(c) /\ i \in Tasks
    /\ tkCall' = [tkCall EXCEPT ![c] =
         [at |-> "update", id |-> i, status |-> status, assignee |-> task[i].assignee]]
    /\ UNCHANGED <<tkMembers, task, taskSeq, mismatched>>

\* ... and the row takes the next version without an event.
UpdateTask(c) ==
    LET u == tkCall[c]
    IN  /\ u.at = "update" /\ TaskChanges < MaxTaskChanges
        /\ AnswerCall(c)
        /\ task' = IF u.assignee \in tkMembers
                   THEN [task EXCEPT ![u.id].status = u.status, ![u.id].assignee = u.assignee,
                                     ![u.id].version = @ + 1, ![u.id].silent = @ + 1]
                   ELSE task
        /\ UNCHANGED <<tkMembers, taskSeq, mismatched>>

-----------------------------------------------------------------------------
\* Bound: one agent is away at a time.
OneAway(p) == TkPrincipals \ tkMembers \subseteq {p}

\* Agents leave the group and come back.
TaskMembership(p) ==
    /\ OneAway(p)
    /\ tkMembers' = IF p \in tkMembers THEN tkMembers \ {p} ELSE tkMembers \cup {p}
    /\ UNCHANGED <<task, taskSeq, tkCall, mismatched>>

ChannelTasksNext ==
    \/ \E c \in TkCalls :
           \/ create_channel_task_impl(c) \/ create_channel_task_from_message_impl(c)
           \/ InsertTask(c)
           \/ \E i \in TaskIds : append_group_workflow_event_for_conversation(c, i)
           \/ \E i \in TaskIds, s \in TaskStatus : BeginUpdate(c, i, s)
           \/ UpdateTask(c)
           \/ \E p \in TkAgents, kind \in DOMAIN status_for_workflow_event :
                  apply_workflow_status_update_tx(c, p, kind)
    \/ \E p \in TkPrincipals, i \in TaskIds, s \in TaskStatus, q \in TkPrincipals :
           patch_channel_task_impl(p, i, s, q)
    \/ \E p \in TkAgents : TaskMembership(p)

-----------------------------------------------------------------------------
\* The versioned events of a task tell its history: each starts from what the
\* one before it left and carries the next version, and the last one is what
\* the row shows, although both a patch and an event that was resolved earlier
\* may come first. Only update_group_workflow_task leaves gaps, and each is as
\* wide as the updates made there.
TaskLogIsAChain ==
    \A i \in Tasks : /\ task[i].chained
                     /\ task[i].silent = 0 => task[i].last.new = Shown(task[i])
                     /\ task[i].last.version + task[i].silent = task[i].version

\* A repeated create is answered with the task of the first one only if it
\* asked for the same thing, and no author gets two tasks for one key.
CreateIsIdempotent ==
    /\ \A i, j \in Tasks : task[i].src = task[j].src /\ task[i].by = task[j].by => i = j
    /\ ~mismatched

\* A task whose assignee left the group cannot be moved by anyone until it
\* is given to an active member.
OrphanedTaskIsFrozen ==
    [][\A i \in Tasks : task'[i] # task[i] => task'[i].assignee \in tkMembers]_taskVars

-----------------------------------------------------------------------------
(***************************************************************************)
(* Who may move a task: the participants of one group workflow task with   *)
(* their roles, its assignee, and the workflow events that members, and    *)
(* the system itself, append to it. A call reads the task before its       *)
(* transaction begins; others change it in between.                        *)
(***************************************************************************)

CONSTANTS
    WfHumans, WfAgents,  \* principals of the workspace
    WfCoordinator,       \* default_coordinator_agent_id of the conversation
    WfCalls,             \* calls under way
    MaxWfVersion, MaxWfDepartures,  \* bounds
    MaxGivenRoles        \* bound on participants besides the owner

VARIABLES
    wfMembers,    \* active visible members
    departures,   \* bound on members that leave
    wfTask,       \* the row: assignee, status, version (0: there is none yet)
    roles,        \* group_workflow_task_participant: <<principal, role>>
    wfCall,       \* call -> what it is about to do
    movedBy       \* history: actor and kind of the event that made the last change, if one did

rolesVars == <<wfMembers, departures, wfTask, roles, wfCall, movedBy>>

System == 0
WfPrincipals == WfHumans \cup WfAgents
GivenRoles == {"coordinator", "reviewer"}   \* reviewer: also quality_check and approver
Kinds == {"task.completed", "task.feedback", "external_check.failed", "external_check.passed", "other"}
NotCalled == [at |-> "idle"]
Keep == 0
NoEvent == [actor |-> System, kind |-> "none"]

TaskRolesTypeOK ==
    /\ wfMembers \subseteq WfPrincipals /\ departures \in 0 .. MaxWfDepartures
    /\ wfTask.version \in 0 .. MaxWfVersion /\ wfTask.assignee \in WfPrincipals \cup {Keep}
    /\ roles \subseteq WfPrincipals \X (GivenRoles \cup {"owner"})
    /\ \A c \in WfCalls : wfCall[c].at \in {"idle", "update", "append"}
    /\ movedBy.actor \in WfPrincipals \cup {System}

TaskRolesInit ==
    /\ wfMembers = WfPrincipals /\ departures = 0
    /\ wfTask = [assignee |-> Keep, status |-> "todo", version |-> 0]
    /\ roles = {} /\ wfCall = [c \in WfCalls |-> NotCalled]
    /\ movedBy = NoEvent

-----------------------------------------------------------------------------
(* Participants. Each must be an active member when its row is inserted;   *)
(* otherwise the transaction is rolled back.                               *)

insert_task_participant_tx(p) == p \in wfMembers

\* sync_owner_participant_tx: the owner rows are deleted, the assignee's is inserted.
WithOwner(rs, p) == {r \in rs : r[2] # "owner"} \cup {<<p, "owner">>}

replace_non_owner_task_participants_tx(rs, given) == {r \in rs : r[2] = "owner"} \cup given

GivenLists == {{}} \cup {{<<p, r>>} : p \in WfPrincipals, r \in GivenRoles}

AllMembers(given) == \A r \in given : insert_task_participant_tx(r[1])

create_group_workflow_task(p, given) ==
    /\ wfTask.version = 0 /\ insert_task_participant_tx(p) /\ AllMembers(given)
    /\ wfTask' = [assignee |-> p, status |-> "todo", version |-> 1]
    /\ roles' = WithOwner(replace_non_owner_task_participants_tx({}, given), p)
    /\ UNCHANGED <<wfMembers, departures, wfCall, movedBy>>

\* The row is locked before its participants are replaced.
replace_group_workflow_task_participants(given) ==
    /\ wfTask.version > 0 /\ AllMembers(given) /\ insert_task_participant_tx(wfTask.assignee)
    /\ roles' = WithOwner(replace_non_owner_task_participants_tx(roles, given), wfTask.assignee)
    /\ UNCHANGED <<wfMembers, departures, wfTask, wfCall, movedBy>>

add_group_workflow_task_participant(p, r) ==
    /\ wfTask.version > 0 /\ r # "owner" /\ insert_task_participant_tx(p)
    /\ roles' = roles \cup {<<p, r>>} /\ Cardinality(roles') <= MaxGivenRoles + 1
    /\ UNCHANGED <<wfMembers, departures, wfTask, wfCall, movedBy>>

remove_group_workflow_task_participant(p, r) ==
    /\ wfTask.version > 0 /\ r # "owner" /\ <<p, r>> \in roles
    /\ roles' = roles \ {<<p, r>>}
    /\ UNCHANGED <<wfMembers, departures, wfTask, wfCall, movedBy>>

-----------------------------------------------------------------------------
(* update_group_workflow_task: what the request does not name is taken     *)
(* from the task as it was read before the transaction.                    *)

ReadForUpdate(c, p, status) ==
    /\ wfCall[c].at = "idle" /\ wfTask.version > 0
    /\ wfCall' = [wfCall EXCEPT ![c] =
         [at |-> "update", assignee |-> IF p = Keep THEN wfTask.assignee ELSE p, status |-> status]]
    /\ UNCHANGED <<wfMembers, departures, wfTask, roles, movedBy>>

update_group_workflow_task(c) ==
    /\ wfCall[c].at = "update" /\ wfTask.version < MaxWfVersion
    /\ LET p == wfCall[c].assignee
       IN  IF insert_task_participant_tx(p)
           THEN /\ wfTask' = [assignee |-> p, status |-> wfCall[c].status, version |-> wfTask.version + 1]
                /\ roles' = WithOwner(roles, p) /\ movedBy' = NoEvent
           ELSE UNCHANGED <<wfTask, roles, movedBy>>
    /\ wfCall' = [wfCall EXCEPT ![c] = NotCalled]
    /\ UNCHANGED <<wfMembers, departures>>

\* A patch that gives the task to another member, in one transaction that locks the row.
apply_channel_task_patch_tx(p) ==
    /\ wfTask.version \in 1 .. MaxWfVersion - 1
    /\ insert_task_participant_tx(p) /\ p # wfTask.assignee
    /\ wfTask' = [wfTask EXCEPT !.assignee = p, !.version = @ + 1]
    /\ roles' = WithOwner(roles, p) /\ movedBy' = NoEvent
    /\ UNCHANGED <<wfMembers, departures, wfCall>>

-----------------------------------------------------------------------------
(* Workflow events.                                                        *)

status_of(kind) ==
    CASE kind = "task.completed" -> "done"
      [] kind = "task.feedback" -> "in_progress"
      [] kind = "external_check.failed" -> "blocked"
      [] OTHER -> "none"

actor_has_workflow_role_tx(p, r) == <<p, r>> \in roles

workflow_kind_requires_agent_owner_or_coordinator(kind) ==
    kind \in {"external_check.failed", "external_check.passed"}

\* A coordinator by role counts only if it is a human.
OwnsOrCoordinates(p, assignee) ==
    \/ assignee = p \/ actor_has_workflow_role_tx(p, "owner")
    \/ p = WfCoordinator
    \/ p \notin WfAgents /\ actor_has_workflow_role_tx(p, "coordinator")

authorize_workflow_metadata_patch_tx(p, kind, assignee) ==
    IF workflow_kind_requires_agent_owner_or_coordinator(kind)
    THEN p \in WfAgents /\ OwnsOrCoordinates(p, assignee)
    ELSE \/ OwnsOrCoordinates(p, assignee) /\ kind # "other"
         \/ kind = "task.feedback" /\ actor_has_workflow_role_tx(p, "reviewer")

\* The task an event refers to is looked up and read.
find_task_id_by_workflow_reference(c, p, kind) ==
    /\ wfCall[c].at = "idle" /\ wfTask.version > 0
    /\ wfCall' = [wfCall EXCEPT ![c] = [at |-> "append", actor |-> p, kind |-> kind, assignee |-> wfTask.assignee]]
    /\ UNCHANGED <<wfMembers, departures, wfTask, roles, movedBy>>

\* lock_group_workflow_task_tx: the row is read again, locked.
LockedAssignee(c) == wfTask.assignee

\* The patch of an event: the status moves and the owner row is written again, which fails
\* the transaction when the assignee left.
MoveTask(c) ==
    LET call == wfCall[c]
    IN  IF insert_task_participant_tx(wfTask.assignee)
        THEN /\ wfTask' = [wfTask EXCEPT !.status = status_of(call.kind), !.version = @ + 1]
             /\ roles' = WithOwner(roles, wfTask.assignee)
             /\ movedBy' = [actor |-> call.actor, kind |-> call.kind]
        ELSE UNCHANGED <<wfTask, roles, movedBy>>

\* The actor is an active, visible member.
validate_workflow_event_actor_tx(p) == p \in wfMembers

\* An actor that is no visible member is refused; a kind without effect and an actor without
\* authority leave an event without a version.
append_group_workflow_event(c) ==
    /\ wfCall[c].at = "append" /\ wfCall[c].actor # System /\ wfTask.version < MaxWfVersion
    /\ LET call == wfCall[c]
       IN  IF /\ validate_workflow_event_actor_tx(call.actor) /\ status_of(call.kind) # "none"
              /\ authorize_workflow_metadata_patch_tx(call.actor, call.kind, LockedAssignee(c))
           THEN MoveTask(c)
           ELSE UNCHANGED <<wfTask, roles, movedBy>>
    /\ wfCall' = [wfCall EXCEPT ![c] = NotCalled]
    /\ UNCHANGED <<wfMembers, departures>>

\* The system itself reports external checks, and nothing else moves the task for it.
SystemMay(kind) == workflow_kind_requires_agent_owner_or_coordinator(kind)

apply_trusted_workflow_status_update_tx(c) ==
    /\ wfCall[c].at = "append" /\ wfCall[c].actor = System /\ wfTask.version < MaxWfVersion
    /\ IF status_of(wfCall[c].kind) # "none" /\ SystemMay(wfCall[c].kind)
       THEN MoveTask(c)
       ELSE UNCHANGED <<wfTask, roles, movedBy>>
    /\ wfCall' = [wfCall EXCEPT ![c] = NotCalled]
    /\ UNCHANGED <<wfMembers, departures>>

-----------------------------------------------------------------------------
MemberLeaves(p) ==
    /\ p \in wfMembers /\ departures < MaxWfDepartures
    /\ departures' = departures + 1 /\ wfMembers' = wfMembers \ {p}
    /\ UNCHANGED <<wfTask, roles, wfCall, movedBy>>

TaskRolesNext ==
    \/ \E p \in WfPrincipals, given \in GivenLists : create_group_workflow_task(p, given)
    \/ \E given \in GivenLists : replace_group_workflow_task_participants(given)
    \/ \E p \in WfPrincipals, r \in GivenRoles :
          add_group_workflow_task_participant(p, r) \/ remove_group_workflow_task_participant(p, r)
    \/ \E c \in WfCalls :
          \/ \E p \in WfPrincipals \cup {Keep}, s \in {"todo", "done"} : ReadForUpdate(c, p, s)
          \/ \E p \in WfPrincipals \cup {System}, kind \in Kinds : find_task_id_by_workflow_reference(c, p, kind)
          \/ update_group_workflow_task(c) \/ append_group_workflow_event(c)
          \/ apply_trusted_workflow_status_update_tx(c)
    \/ \E p \in WfPrincipals : MemberLeaves(p) \/ apply_channel_task_patch_tx(p)

-----------------------------------------------------------------------------
(* Properties.                                                             *)

\* A task has one owner, its assignee, however updates that read the task before another
\* transferred it, replaced participants and events are ordered.
OneOwner == wfTask.version > 0 => {r \in roles : r[2] = "owner"} = {<<wfTask.assignee, "owner">>}

\* An event moves a task only for a member that may move it when it moves, not when the event
\* was resolved: the assignee, the coordinator, a human given that role, for feedback a
\* reviewer. External checks are reported by agents or the system, and the system does
\* nothing else.
MovedWithAuthority ==
    [][wfTask'.version # wfTask.version /\ movedBy'.kind # "none" =>
         LET p == movedBy'.actor  kind == movedBy'.kind
         IN  IF p = System THEN kind = "external_check.failed"
             ELSE /\ p \in wfMembers
                  /\ \/ p = wfTask.assignee \/ p = WfCoordinator
                     \/ p \in WfHumans /\ <<p, "coordinator">> \in roles
                     \/ kind = "task.feedback" /\ <<p, "reviewer">> \in roles
                  /\ kind = "external_check.failed" => p \in WfAgents]_rolesVars
=============================================================================
