---------------------------- MODULE Conversations ----------------------------
(***************************************************************************)
(* Conversations of one workspace: direct and group conversations are      *)
(* created by separate statements (the row, then each member), looked up   *)
(* by membership, given and losing members, filed in a user's sidebar and  *)
(* deleted in two statements while messages may still arrive.              *)
(***************************************************************************)
EXTENDS Integers, FiniteSets, FiniteSetsExt, Sequences

CONSTANTS
    CvHuman,    \* the workspace's human
    CvAgents,   \* its agents
    Creators,   \* concurrent callers of the create endpoints
    MaxConvs    \* bound on conversations

VARIABLES
    conv,      \* id -> the row and its active members
    creator,   \* caller -> progress of its create call
    sidebar,   \* id -> markers of the human's sidebar
    filing,    \* archive and hide calls between the start and the commit of their statement
    clashed    \* history: conversations last filed by calls that overlapped

convVars == <<conv, creator, sidebar, filing, clashed>>

CvPrincipals == {CvHuman} \cup CvAgents
ConvIds == 1 .. MaxConvs
NoConv == [kind |-> "none", by |-> CvHuman, members |-> {}, built |-> FALSE]
NotCreating == [at |-> "idle"]

Exist == {k \in ConvIds : conv[k].kind \in {"direct", "group"}}

ConversationsTypeOK ==
    /\ \A k \in ConvIds : /\ conv[k].kind \in {"none", "direct", "group", "deleted"}
                          /\ conv[k].members \subseteq CvPrincipals
                          /\ sidebar[k] \subseteq {"pin", "archive", "hidden"}
    /\ \A c \in Creators : creator[c].at \in {"idle", "insert", "members"}
    /\ \A f \in filing : f.conv \in ConvIds /\ f.list \in {"archive", "hidden"}

ConversationsInit ==
    /\ conv = [k \in ConvIds |-> NoConv]
    /\ creator = [c \in Creators |-> NotCreating]
    /\ sidebar = [k \in ConvIds |-> {}] /\ filing = {} /\ clashed = {}

-----------------------------------------------------------------------------
(* create_direct_conversation and create_group.                            *)

\* The direct conversations in which both are members: the lookup's rows.
DirectsOf(p, q) == {k \in Exist : conv[k].kind = "direct" /\ {p, q} \subseteq conv[k].members}

\* Even agent-to-agent conversations include the workspace's human.
WithHuman(members) == IF CvHuman \in members THEN members ELSE members \cup {CvHuman}

\* The lookup: one row answers the call, more than one is an error, none
\* goes on to create.
create_direct_conversation(c, p, q) ==
    /\ creator[c].at = "idle" /\ p # q
    /\ DirectsOf(p, q) = {}
    /\ creator' = [creator EXCEPT ![c] = [at |-> "insert", kind |-> "direct", by |-> p,
                       todo |-> WithHuman({p, q})]]
    /\ UNCHANGED <<conv, sidebar, filing, clashed>>

create_group(c, p, members) ==
    /\ creator[c].at = "idle"
    /\ creator' = [creator EXCEPT ![c] = [at |-> "insert", kind |-> "group", by |-> p,
                       todo |-> WithHuman(members \cup {p})]]
    /\ UNCHANGED <<conv, sidebar, filing, clashed>>

InsertConversation(c) ==
    /\ creator[c].at = "insert"
    /\ \E k \in ConvIds :
        /\ conv[k].kind = "none" /\ \A j \in 1 .. k - 1 : conv[j].kind # "none"
        /\ conv' = [conv EXCEPT ![k] = [NoConv EXCEPT !.kind = creator[c].kind,
                        !.by = creator[c].by]]
        /\ creator' = [creator EXCEPT ![c] = [at |-> "members", id |-> k, todo |-> creator[c].todo]]
    /\ UNCHANGED <<sidebar, filing, clashed>>

\* Members are inserted one statement at a time, in the order of their ids.
InsertMember(c) ==
    /\ creator[c].at = "members"
    /\ LET k == creator[c].id  p == CHOOSE x \in creator[c].todo : TRUE
           rest == creator[c].todo \ {p}
       IN  /\ k \in Exist
           /\ conv' = [conv EXCEPT ![k].members = @ \cup {p}, ![k].built = rest = {}]
           /\ creator' = [creator EXCEPT ![c] =
                  IF rest = {} THEN NotCreating ELSE [@ EXCEPT !.todo = rest]]
    /\ UNCHANGED <<sidebar, filing, clashed>>

\* The process or its connection dies between two statements.
AbandonCreate(c) ==
    /\ creator[c].at = "members"
    /\ creator' = [creator EXCEPT ![c] = NotCreating]
    /\ UNCHANGED <<conv, sidebar, filing, clashed>>

-----------------------------------------------------------------------------
(* Members.                                                                *)

AddGroupMember(k, p) ==
    /\ k \in Exist /\ conv[k].kind = "group"
    /\ p \notin conv[k].members /\ conv[k].members # {}
    /\ conv' = [conv EXCEPT ![k].members = @ \cup {p}]
    /\ UNCHANGED <<creator, sidebar, filing, clashed>>

\* Neither a human nor the creator can be removed.
RemoveGroupMember(k, p) ==
    /\ k \in Exist /\ conv[k].kind = "group"
    /\ p \in conv[k].members \cap CvAgents /\ p # conv[k].by
    /\ conv' = [conv EXCEPT ![k].members = @ \ {p}]
    /\ UNCHANGED <<creator, sidebar, filing, clashed>>

-----------------------------------------------------------------------------
(* The human's sidebar: markers of a conversation the human is in, each a  *)
(* row of a table of its own.                                              *)

Visible(k) == k \in Exist /\ CvHuman \in conv[k].members

\* Bound: the human files the first conversation; the markers of one do not
\* touch those of another.
FiledConvs == {1}

pin_conversation(k) ==
    /\ Visible(k) /\ "pin" \notin sidebar[k]
    /\ sidebar' = [sidebar EXCEPT ![k] = @ \cup {"pin"}]
    /\ UNCHANGED <<conv, creator, filing, clashed>>

\* A row that is gone cannot be deleted by a statement under way.
RemovesMark(k, m) ==
    /\ m \in sidebar[k]
    /\ sidebar' = [sidebar EXCEPT ![k] = @ \ {m}]
    /\ filing' = {[f EXCEPT !.doomed = @ \ {m}] : f \in filing}
    /\ UNCHANGED <<conv, creator, clashed>>

unpin_conversation(k) == RemovesMark(k, "pin")
unarchive_conversation(k) == RemovesMark(k, "archive")
restore_hidden_agent_session(k) == RemovesMark(k, "hidden")

\* Wrong version: only the pin is removed.
OtherMarks_pin(k, list) == sidebar[k] \cap {"pin"}

OtherMarks(k, list) == sidebar[k] \ {list}

\* One statement removes the other markers it finds when it begins and inserts
\* its own.
BeginsFiling(k, list) ==
    /\ \A f \in filing : f.list # list
    /\ filing' = {[f EXCEPT !.alone = FALSE] : f \in filing}
                  \cup {[conv |-> k, list |-> list, doomed |-> OtherMarks(k, list), alone |-> filing = {}]}
    /\ UNCHANGED <<conv, creator, sidebar, clashed>>

archive_conversation(k) == Visible(k) /\ sidebar[k] # {"archive"} /\ BeginsFiling(k, "archive")

\* A direct conversation with an agent only.
hide_agent_session(k) ==
    /\ Visible(k) /\ conv[k].kind = "direct" /\ conv[k].members \cap CvAgents # {}
    /\ sidebar[k] # {"hidden"} /\ BeginsFiling(k, "hidden")

EndsFiling(f) ==
    /\ sidebar' = [sidebar EXCEPT ![f.conv] = (@ \ f.doomed) \cup {f.list}]
    /\ filing' = {[g EXCEPT !.doomed = @ \ f.doomed] : g \in filing \ {f}}
    /\ clashed' = IF f.alone THEN clashed \ {f.conv} ELSE clashed \cup {f.conv}
    /\ UNCHANGED <<conv, creator>>

-----------------------------------------------------------------------------
(* Deletion.                                                               *)

\* The events are deleted first, then the row; members and markers cascade,
\* and a marker can no longer be inserted.
delete_conversation(k) ==
    /\ Visible(k)
    /\ conv' = [conv EXCEPT ![k].kind = "deleted"]
    /\ sidebar' = [sidebar EXCEPT ![k] = {}]
    /\ filing' = {f \in filing : f.conv # k}
    /\ clashed' = clashed \ {k}
    /\ UNCHANGED creator

ConversationsNext ==
    \/ \E c \in Creators, p, q \in CvPrincipals : create_direct_conversation(c, p, q)
    \/ \E c \in Creators, p \in CvPrincipals, ms \in SUBSET CvPrincipals : create_group(c, p, ms)
    \/ \E c \in Creators : InsertConversation(c) \/ InsertMember(c) \/ AbandonCreate(c)
    \/ \E k \in ConvIds, p \in CvPrincipals : AddGroupMember(k, p) \/ RemoveGroupMember(k, p)
    \/ \E k \in ConvIds : delete_conversation(k)
    \/ \E k \in FiledConvs :
           \/ pin_conversation(k) \/ unpin_conversation(k)
           \/ archive_conversation(k) \/ unarchive_conversation(k)
           \/ hide_agent_session(k) \/ restore_hidden_agent_session(k)
    \/ \E f \in filing : EndsFiling(f)

-----------------------------------------------------------------------------
\* Only calls that overlapped leave a conversation both in the archive and
\* among the hidden sessions, and the next call that runs alone puts it right.
FiledInOnePlace ==
    \A k \in ConvIds : {"archive", "hidden"} \subseteq sidebar[k] => k \in clashed

-----------------------------------------------------------------------------
(***************************************************************************)
(* The messages of one group: send_message of the gateway (membership and  *)
(* idempotency read before the transaction that appends), the agents'      *)
(* send_to_group (membership read again inside it), flat threads, unread   *)
(* counters kept by the publication trigger, and read receipts of threads.          *)
(*                                                                         *)
(* An event is identified by its seq; the appending transaction holds the  *)
(* conversation's advisory lock from its first statement to its commit and *)
(* is one step.                                                            *)
(***************************************************************************)

CONSTANTS
    MsgHumans, MsgAgents,   \* principals of the workspace
    MsgKeys,                \* idempotency keys clients choose
    Calls,                  \* concurrent calls
    MaxEvents               \* bound on the log

VARIABLES
    activeMembers,    \* active rows of conversation_member
    events,    \* conversation_events in seq order
    total,     \* conversation.total_msg_count
    seen,      \* principal -> conversation_member.msg_count
    mark,      \* history: principal -> the events the last write of its msg_count covers
    receipt,   \* <<root, principal>> -> thread_read_receipt.last_read_seq
    call       \* call -> its progress

msgVars == <<activeMembers, events, total, seen, mark, receipt, call>>

MsgPrincipals == MsgHumans \cup MsgAgents
MsgIds == 1 .. MaxEvents
NoCall == [at |-> "free"]

\* What a client may ask: a message, a quote-reply (a target without the
\* thread flag), a threaded reply, broadcast or quiet; targets may not exist.
Requests ==
    LET targets == DOMAIN events \cup {MaxEvents}
    IN  [key : MsgKeys, thread : {FALSE}, broadcast : {FALSE}, reply : {0, 1}]
        \cup [key : MsgKeys, thread : {TRUE}, broadcast : BOOLEAN, reply : targets]

MessagesQuiet(e) == e.thread /\ ~e.broadcast
IsReply(e) == e.thread /\ e.reply # 0

MessagesTypeOK ==
    /\ activeMembers \subseteq MsgPrincipals
    /\ total \in 0 .. MaxEvents
    /\ seen \in [MsgPrincipals -> 0 .. MaxEvents]
    /\ receipt \in [MsgIds \X MsgPrincipals -> 0 .. MaxEvents]
    /\ \A i \in DOMAIN events : /\ events[i].sender \in MsgPrincipals
                                /\ events[i].reply \in 0 .. MaxEvents
                                /\ events[i].member \in BOOLEAN
    /\ \A c \in Calls : call[c].at \in {"free", "join", "dedup", "append", "post", "receipt", "view"}

MessagesInit ==
    /\ activeMembers = MsgPrincipals
    /\ events = <<>> /\ total = 0
    /\ seen = [p \in MsgPrincipals |-> 0]
    /\ mark = [p \in MsgPrincipals |-> 0]
    /\ receipt = [x \in MsgIds \X MsgPrincipals |-> 0]
    /\ call = [c \in Calls |-> NoCall]

-----------------------------------------------------------------------------
canonicalize_thread_root_in_tx(id) ==
    IF id \notin DOMAIN events THEN 0
    ELSE IF IsReply(events[id]) THEN events[id].reply ELSE id

\* Wrong version: quiet replies count for everyone else's badge.
publish_conversation_message_loud(e) ==
    /\ total' = total + 1
    /\ seen' = IF e.sender \in activeMembers THEN [seen EXCEPT ![e.sender] = total + 1] ELSE seen

\* The AFTER INSERT trigger: counters of the conversation and the sender.
publish_conversation_message(e) ==
    IF MessagesQuiet(e) THEN UNCHANGED <<total, seen>>
    ELSE /\ total' = total + 1
         /\ seen' = IF e.sender \in activeMembers THEN [seen EXCEPT ![e.sender] = total + 1] ELSE seen

\* Append one event: seq = MAX + 1, the trigger, a row for each active member.
insert_conversation_event(p, r, root, via) ==
    LET e == [sender |-> p, key |-> r.key, thread |-> r.thread, broadcast |-> r.broadcast,
              reply |-> root, via |-> via, member |-> p \in activeMembers]
    IN  /\ events' = Append(events, e)
        /\ publish_conversation_message(e)
        /\ mark' = IF MessagesQuiet(e) \/ p \notin activeMembers THEN mark ELSE [mark EXCEPT ![p] = Len(events) + 1]

\* Calls are interchangeable: a new one is the first that is free.
FirstFree(c) == call[c].at = "free" /\ \A d \in Calls : d < c => call[d].at # "free"

\* Bound: the log has room for every message under way.
RoomForEvents ==
    Len(events) + Cardinality({c \in Calls : call[c].at \notin {"free", "receipt", "view"}}) < MaxEvents

Root(r) == IF r.thread THEN canonicalize_thread_root_in_tx(r.reply) ELSE r.reply
Done(c) == call' = [call EXCEPT ![c] = NoCall]

-----------------------------------------------------------------------------
(* DbService::send_message.                                                *)

\* Membership as get_conversation saw it: an agent that is no member joins, a
\* human that is none is refused.
send_message(c, p, r) ==
    /\ FirstFree(c) /\ RoomForEvents
    /\ p \in activeMembers \cup MsgAgents
    /\ call' = [call EXCEPT ![c] = [at |-> IF p \in activeMembers THEN "dedup" ELSE "join",
                                    p |-> p, r |-> r]]
    /\ UNCHANGED <<activeMembers, events, total, seen, mark, receipt>>

AutoJoin(c) ==
    /\ call[c].at = "join"
    /\ activeMembers' = activeMembers \cup {call[c].p}
    /\ call' = [call EXCEPT ![c].at = "dedup"]
    /\ UNCHANGED <<events, total, seen, mark, receipt>>

\* A key that is already in the log answers with its message.
find_event_by_client_msg_id(c) ==
    /\ call[c].at = "dedup"
    /\ IF \E i \in DOMAIN events : events[i].key = call[c].r.key
         THEN Done(c) ELSE call' = [call EXCEPT ![c].at = "append"]
    /\ UNCHANGED <<activeMembers, events, total, seen, mark, receipt>>

\* Wrong version: without the unique index on client_msg_id.
AppendMessage_unindexed(c) ==
    LET r == call[c].r  root == Root(r)
    IN  /\ call[c].at = "append"
        /\ IF r.thread /\ root = 0
             THEN UNCHANGED <<events, total, seen, mark>>
             ELSE insert_conversation_event(call[c].p, r, root, "api")
        /\ Done(c)
        /\ UNCHANGED <<activeMembers, receipt>>

\* The transaction: an unknown thread target is NotFound, and a key another
\* call inserted meanwhile inserts nothing (the call then fails).
AppendMessage(c) ==
    LET r == call[c].r  root == Root(r)
    IN  /\ call[c].at = "append"
        /\ IF (r.thread /\ root = 0) \/ \E i \in DOMAIN events : events[i].key = r.key
             THEN UNCHANGED <<events, total, seen, mark>>
             ELSE insert_conversation_event(call[c].p, r, root, "api")
        /\ Done(c)
        /\ UNCHANGED <<activeMembers, receipt>>

-----------------------------------------------------------------------------
(* send_to_group of an agent's outbox command.                             *)

send_to_group(c, p, r) ==
    /\ FirstFree(c) /\ RoomForEvents
    /\ p \in MsgAgents \cap activeMembers
    /\ r.key = Min(MsgKeys) /\ (r.thread \/ r.reply = 0)
    /\ call' = [call EXCEPT ![c] = [at |-> "post", p |-> p, r |-> r]]
    /\ UNCHANGED <<activeMembers, events, total, seen, mark, receipt>>

\* The transaction checks membership again under the lock.
PostToGroup(c) ==
    LET r == call[c].r  root == Root(r)
    IN  /\ call[c].at = "post"
        /\ IF call[c].p \notin activeMembers \/ (r.thread /\ root = 0)
             THEN UNCHANGED <<events, total, seen, mark>>
             ELSE insert_conversation_event(call[c].p, [r EXCEPT !.key = 0], root, "outbox")
        /\ Done(c)
        /\ UNCHANGED <<activeMembers, receipt>>

-----------------------------------------------------------------------------
(* Membership and read state.                                              *)

\* remove_group_member: an agent; the row keeps its counters.
remove_group_member(p) ==
    /\ p \in activeMembers \cap MsgAgents
    /\ activeMembers' = activeMembers \ {p}
    /\ UNCHANGED <<events, total, seen, mark, receipt, call>>

add_group_members(p) ==
    /\ p \notin activeMembers
    /\ activeMembers' = activeMembers \cup {p}
    /\ UNCHANGED <<events, total, seen, mark, receipt, call>>

\* mark_conversation_viewed reads the total when its statement begins, ...
mark_conversation_viewed(c, p) ==
    /\ FirstFree(c) /\ seen[p] # total
    /\ call' = [call EXCEPT ![c] = [at |-> "view", p |-> p, total |-> total, upto |-> Len(events)]]
    /\ UNCHANGED <<activeMembers, events, total, seen, mark, receipt>>

\* ... and writes it when it has the member's row, whatever was sent since.
UpdateViewed(c) ==
    /\ call[c].at = "view"
    /\ seen' = [seen EXCEPT ![call[c].p] = call[c].total]
    /\ mark' = [mark EXCEPT ![call[c].p] = call[c].upto]
    /\ Done(c)
    /\ UNCHANGED <<activeMembers, events, total, receipt>>

RepliesOf(root) == {i \in DOMAIN events : IsReply(events[i]) /\ events[i].reply = root}

\* mark_thread_viewed: the root is resolved by one statement, ...
mark_thread_viewed(c, p, id) ==
    LET root == canonicalize_thread_root_in_tx(id)
    IN  /\ FirstFree(c) /\ root # 0
        /\ call' = [call EXCEPT ![c] = [at |-> "receipt", p |-> p, root |-> root]]
        /\ UNCHANGED <<activeMembers, events, total, seen, mark, receipt>>

\* ... and the receipt is upserted by the next.
UpsertReceipt(c) ==
    /\ call[c].at = "receipt"
    /\ receipt' = [receipt EXCEPT ![<<call[c].root, call[c].p>>] =
                       Max(RepliesOf(call[c].root) \cup {0})]
    /\ Done(c)
    /\ UNCHANGED <<activeMembers, events, total, seen, mark>>

MessagesNext ==
    \/ \E c \in Calls, r \in Requests, p \in MsgPrincipals :
           send_message(c, p, r) \/ send_to_group(c, p, r)
    \/ \E c \in Calls : \/ AutoJoin(c) \/ find_event_by_client_msg_id(c)
                        \/ AppendMessage(c) \/ PostToGroup(c) \/ UpsertReceipt(c)
                        \/ UpdateViewed(c)
    \/ \E p \in MsgPrincipals : remove_group_member(p) \/ add_group_members(p)
    \/ \E c \in Calls, p \in MsgHumans : mark_conversation_viewed(c, p)
    \/ \E c \in Calls, p \in MsgHumans, id \in MsgIds : mark_thread_viewed(c, p, id)

-----------------------------------------------------------------------------
\* One message per idempotency key, however the retries of a client overlap.
OneMessagePerKey ==
    \A i, j \in DOMAIN events :
        i # j /\ events[i].key # 0 => events[i].key # events[j].key

\* Threads stay flat: a threaded reply names an earlier message that is not
\* itself a threaded reply, so every reader finds it under one root.
ThreadsAreFlat ==
    \A i \in DOMAIN events : IsReply(events[i]) =>
        events[i].reply < i /\ ~IsReply(events[events[i].reply])

\* The badge of a member is the number of timeline messages since what the
\* last write of its counter covers: its own message, or what there was when
\* a view began, though messages were sent before the view wrote. Quiet
\* replies, removals and returns change nothing about it.
UnreadIsExact ==
    \A p \in activeMembers :
        total - seen[p] = Cardinality({i \in DOMAIN events : i > mark[p] /\ ~MessagesQuiet(events[i])})

\* An agent's group send is written only while the agent is a member: the
\* removal of the agent between lookup and write is noticed.
GroupSendsAreByMembers ==
    \A i \in DOMAIN events : events[i].via = "outbox" => events[i].member
=============================================================================
