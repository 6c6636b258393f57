---------------------------- MODULE SessionStore ----------------------------
(***************************************************************************)
(* The durable command state of Choruz: the tables session_registry,       *)
(* agent_commands and dead_letters, the turn_id index of                   *)
(* conversation_events, and every transaction that writes them             *)
(* (crates/choruz-session/src/store.rs, the gateway's runtime-host         *)
(* handlers, account retirement and the writer's reply insert).            *)
(*                                                                         *)
(* One action is one committed transaction.  Next is the most general      *)
(* client: any caller may issue any call at any time with any attempt id   *)
(* that was ever handed out, so what holds here holds for every component  *)
(* that goes through the store.                                            *)
(*                                                                         *)
(* Attempt ids are numbered by the lease transaction that created them:    *)
(* two members of one batch carry the same number, and a pair (command,    *)
(* number) stands for one attempt UUID.  0 stands for NULL, for attempts   *)
(* and for epochs (a leased command's epoch is at least 1).                *)
(***************************************************************************)
EXTENDS Integers, FiniteSets

CONSTANTS
    Commands,     \* command ids: natural numbers, in creation order
    Sessions,     \* session_registry keys
    Agents,       \* agent principals
    Hosts,        \* remote runtime hosts
    Local,        \* placement of a command no remote host runs
    Accounted,    \* agents bound to a harness account
    SessionOf,    \* command -> its session_key
    AgentOf,      \* session -> its agent
    MaxAttempts,  \* max_attempts of a new command
    MaxLease,     \* bound: lease transactions explored
    MaxEpoch,     \* bound: an agent is moved only below this epoch
    MaxLetters    \* bound: dead_letters rows a client writes by itself

ASSUME CommandsAssumption == Commands \subseteq Nat
ASSUME KeysAssumption ==
    /\ SessionOf \in [Commands -> Sessions]
    /\ AgentOf \in [Sessions -> Agents]
    /\ Local \notin Hosts
    /\ Accounted \subseteq Agents
ASSUME BoundsAssumption ==
    /\ MaxAttempts \in Nat \ {0}
    /\ {MaxLease, MaxEpoch, MaxLetters} \subseteq Nat

VARIABLES
    session,  \* session_registry: epoch, status, last_heartbeat_at
    cmd,      \* agent_commands
    letters,  \* number of dead_letters rows written for each command
    replied,  \* commands whose turn_id is carried by a reply event
    lease,    \* number of lease transactions committed so far
    binding,  \* runtime_host_id of each agent's binding, or Local
    disabled, \* agents whose binding has state 'disabled'
    revoked,  \* hosts with revoked_at set
    removal   \* removal of the harness account each agent is bound to

storeVars == <<session, cmd, letters, replied, lease, binding, disabled, revoked, removal>>

Active == {"leased", "started", "heartbeating"}
Open == Active \cup {"pending", "retry_scheduled"}
Terminal == {"committed", "dead_letter"}
CommandStatus == Open \cup Terminal \cup {"absent", "succeeded"}

AgentOfCommand(c) == AgentOf[SessionOf[c]]
CommandsOf(s) == {c \in Commands : SessionOf[c] = s}
CommandsOfAgent(g) == {c \in Commands : AgentOfCommand(c) = g}

SessionRow == [epoch : Nat, status : {"none", "idle", "active"},
               beat : {"null", "fresh", "stale"}]
CommandRow == [status : CommandStatus, attempt : Nat, epoch : Nat,
               count : Nat, max : Nat, host : Hosts \cup {Local}]

(* Only type correctness of the tables: the columns and their domains.     *)
StoreTypeOK ==
    /\ session \in [Sessions -> SessionRow]
    /\ cmd \in [Commands -> CommandRow]
    /\ letters \in [Commands -> Nat]
    /\ replied \subseteq Commands
    /\ lease \in Nat
    /\ binding \in [Agents -> Hosts \cup {Local}]
    /\ disabled \subseteq Agents
    /\ revoked \subseteq Hosts
    /\ removal \in [Agents -> {"none", "requested", "completed"}]

NoCommand == [status |-> "absent", attempt |-> 0, epoch |-> 0,
              count |-> 0, max |-> MaxAttempts, host |-> Local]

StoreInit ==
    /\ session = [s \in Sessions |-> [epoch |-> 0, status |-> "none", beat |-> "null"]]
    /\ cmd = [c \in Commands |-> NoCommand]
    /\ letters = [c \in Commands |-> 0]
    /\ replied = {}
    /\ lease = 0
    /\ binding \in [Agents -> Hosts \cup {Local}]
    /\ disabled = {}
    /\ revoked = {}
    /\ removal = [g \in Agents |-> "none"]

-----------------------------------------------------------------------------
(* Guards and row updates shared by several transactions.                  *)

\* Wrong version of the fence: the attempt is not compared.
AcceptsAnyAttempt(c, a) == a # 0 /\ cmd[c].epoch = session[SessionOf[c]].epoch

\* The fence of every attempt-guarded write: the attempt still owns the
\* command, and the command's epoch is still its session's epoch.
Accepts(c, a) ==
    /\ a # 0
    /\ cmd[c].attempt = a
    /\ cmd[c].epoch = session[SessionOf[c]].epoch

is_exhausted(count, max) == count >= max

\* Wrong version: the session is released while a batch member still runs.
ReleasedAlways(s, epoch, cs) ==
    IF epoch = 0 \/ session[s].epoch = epoch
    THEN [session EXCEPT ![s].status = "idle", ![s].beat = "null"]
    ELSE session

\* session_registry after release_session_if_no_active_commands(s, epoch),
\* in a transaction that leaves agent_commands as cs.
ReleasedSession(s, epoch, cs) ==
    IF /\ epoch = 0 \/ session[s].epoch = epoch
       /\ \A d \in CommandsOf(s) : cs[d].status \notin Active
    THEN [session EXCEPT ![s].status = "idle", ![s].beat = "null"]
    ELSE session

\* The command moves to status st and gives up its session; its attempt is
\* cleared when the transaction clears it.
Finish(c, st, clear) ==
    LET cs == [cmd EXCEPT ![c].status = st,
                          ![c].attempt = IF clear THEN 0 ELSE @]
    IN  /\ cmd' = cs
        /\ session' = ReleasedSession(SessionOf[c], cmd[c].epoch, cs)

WriteLetter(c) == letters' = [letters EXCEPT ![c] = @ + 1]

Placement == <<binding, disabled, revoked, removal>>
-----------------------------------------------------------------------------
(* Sessions and commands are created.                                      *)

upsert_session(s) ==
    /\ session[s].status = "none"
    /\ session' = [session EXCEPT ![s].status = "idle"]
    /\ UNCHANGED <<cmd, letters, replied, lease, Placement>>

\* A second insert for the same message and agent returns the existing row.
insert_command(c) ==
    /\ cmd[c].status = "absent"
    /\ \A d \in Commands : d < c => cmd[d].status # "absent"
    /\ session[SessionOf[c]].status # "none"
    /\ AgentOfCommand(c) \notin disabled
    /\ cmd' = [cmd EXCEPT ![c].status = "pending",
                          ![c].host = binding[AgentOfCommand(c)]]
    /\ UNCHANGED <<session, letters, replied, lease, Placement>>

-----------------------------------------------------------------------------
(* Leases.                                                                 *)

\* Wrong version: the batch is leased as it was found.
BatchUnchecked(B) == TRUE

BatchIsPending(B) == \A c \in B : cmd[c].status = "pending"

\* The rows of the batch B and of its sessions after one lease transaction:
\* each session's epoch is bumped once, each command gets a new attempt.
LeaseRows(B) ==
    /\ session' = [s \in Sessions |->
           IF \E c \in B : SessionOf[c] = s
           THEN [epoch |-> session[s].epoch + 1, status |-> "active", beat |-> "fresh"]
           ELSE session[s]]
    /\ cmd' = [c \in Commands |->
           IF c \in B
           THEN [cmd[c] EXCEPT !.status = "leased", !.attempt = lease + 1,
                               !.epoch = session[SessionOf[c]].epoch + 1,
                               !.count = @ + 1]
           ELSE cmd[c]]
    /\ lease' = lease + 1

assign_batch_leases(B) ==
    /\ B # {}
    /\ lease < MaxLease
    /\ BatchIsPending(B)
    /\ LeaseRows(B)
    /\ UNCHANGED <<letters, replied, Placement>>

\* A runtime host takes one command placed on it, pending or due for retry,
\* while no command of the agent is active.  The query orders by age but
\* skips locked rows, so any eligible command may be the one taken.
claim_runtime_host_command(h, c) ==
    /\ lease < MaxLease
    /\ cmd[c].host = h
    /\ binding[AgentOfCommand(c)] = h /\ AgentOfCommand(c) \notin disabled
    /\ \/ cmd[c].status = "pending"
       \/ cmd[c].status = "retry_scheduled" /\ ~is_exhausted(cmd[c].count, cmd[c].max)
    /\ \A d \in CommandsOfAgent(AgentOfCommand(c)) : cmd[d].status \notin Active
    /\ LeaseRows({c})
    /\ UNCHANGED <<letters, replied, Placement>>

update_session_heartbeat_for_epoch(s, e) ==
    /\ session[s].epoch = e
    /\ session[s].status = "active"
    /\ session' = [session EXCEPT ![s].beat = "fresh"]
    /\ UNCHANGED <<cmd, letters, replied, lease, Placement>>

\* Not a call: more than the lease timeout passes without a heartbeat.
Age(s) ==
    /\ session[s].beat = "fresh"
    /\ session' = [session EXCEPT ![s].beat = "stale"]
    /\ UNCHANGED <<cmd, letters, replied, lease, Placement>>

-----------------------------------------------------------------------------
(* Attempt-fenced writes.                                                  *)

\* update_command_status_for_attempt with one of the statuses the dispatcher
\* writes.  Only retry_scheduled gives up the session; the attempt is kept.
update_command_status_for_attempt(c, a, st) ==
    /\ Accepts(c, a)
    /\ IF st = "retry_scheduled"
       THEN Finish(c, st, FALSE)
       ELSE cmd' = [cmd EXCEPT ![c].status = st] /\ UNCHANGED session
    /\ UNCHANGED <<letters, replied, lease, Placement>>

mark_command_succeeded_for_attempt(c, a) ==
    /\ Accepts(c, a)
    /\ cmd[c].status \in Active
    /\ cmd' = [cmd EXCEPT ![c].status = "succeeded"]
    /\ UNCHANGED <<session, letters, replied, lease, Placement>>

mark_command_committed_for_attempt(c, a) ==
    /\ Accepts(c, a)
    /\ Finish(c, "committed", TRUE)
    /\ UNCHANGED <<letters, replied, lease, Placement>>

dead_letter_command_for_attempt(c, a) ==
    /\ Accepts(c, a)
    /\ Finish(c, "dead_letter", TRUE)
    /\ WriteLetter(c)
    /\ UNCHANGED <<replied, lease, Placement>>

\* The writer's reply insert: fenced like the others, and refused by the
\* unique index on turn_id when the turn already has its reply.
insert_reply_event(c, a) ==
    /\ Accepts(c, a)
    /\ c \notin replied
    /\ replied' = replied \cup {c}
    /\ UNCHANGED <<session, cmd, letters, lease, Placement>>

\* Fence of the runtime-host calls: also the placement and an active status.
HostAccepts(h, c, a) ==
    /\ Accepts(c, a)
    /\ cmd[c].host = h
    /\ cmd[c].status \in Active

heartbeat_runtime_host_command(h, c, a) ==
    /\ HostAccepts(h, c, a)
    /\ cmd' = [cmd EXCEPT ![c].status = "heartbeating"]
    /\ LET s == SessionOf[c]
       IN  session' = IF session[s].status = "active"
                      THEN [session EXCEPT ![s].beat = "fresh"] ELSE session
    /\ UNCHANGED <<letters, replied, lease, Placement>>

\* complete_runtime_host_command, failed: retried until exhausted.
FailRuntimeHostCommand(h, c, a) ==
    /\ HostAccepts(h, c, a)
    /\ IF is_exhausted(cmd[c].count, cmd[c].max)
       THEN Finish(c, "dead_letter", TRUE) /\ WriteLetter(c)
       ELSE Finish(c, "retry_scheduled", TRUE) /\ UNCHANGED letters
    /\ UNCHANGED <<replied, lease, Placement>>

\* complete_runtime_host_command, succeeded: reply and commit together; a
\* turn that has its reply keeps it (ON CONFLICT DO NOTHING).
CompleteRuntimeHostCommand(h, c, a, empty) ==
    /\ HostAccepts(h, c, a)
    /\ replied' = IF empty THEN replied ELSE replied \cup {c}
    /\ Finish(c, "committed", TRUE)
    /\ UNCHANGED <<letters, lease, Placement>>

-----------------------------------------------------------------------------
(* Lease expiry and the unfenced writes of the retry scheduler.            *)

\* Wrong version: a lease whose executor died before it started is missed.
StartedLeasesOnly ==
    {[command |-> c, epoch |-> session[SessionOf[c]].epoch] : c \in
        {d \in Commands : /\ cmd[d].status \in {"started", "heartbeating"}
                          /\ session[SessionOf[d]].status = "active"
                          /\ session[SessionOf[d]].beat # "fresh"}}

\* Epoch that check_expired_leases reports: the session's, not the command's.
check_expired_leases ==
    {[command |-> c, epoch |-> session[SessionOf[c]].epoch] : c \in
        {d \in Commands : /\ cmd[d].status \in Active
                          /\ session[SessionOf[d]].status = "active"
                          /\ session[SessionOf[d]].beat # "fresh"}}

\* Wrong version: the session of the expired lease gets an unknown status.
ExpiredUnknown(s, e) ==
    IF session[s].epoch = e
    THEN [session EXCEPT ![s] = [epoch |-> e + 1, status |-> "expired", beat |-> "null"]]
    ELSE session

\* The first expired member of a batch fences the session; the later ones
\* find the epoch already moved and finalize their own row only.
ExpiredSession(s, e) ==
    IF session[s].epoch = e
    THEN [session EXCEPT ![s] = [epoch |-> e + 1, status |-> "idle", beat |-> "null"]]
    ELSE session

\* The row is locked, and only an active command of that epoch is expired.
Expires(c, e) == cmd[c].epoch = e /\ cmd[c].status \in Active

handle_lease_expiry(c, e) ==
    /\ Expires(c, e)
    /\ session' = ExpiredSession(SessionOf[c], e)
    /\ IF is_exhausted(cmd[c].count, cmd[c].max)
       THEN /\ cmd' = [cmd EXCEPT ![c].status = "dead_letter", ![c].attempt = 0]
            /\ WriteLetter(c)
       ELSE /\ cmd' = [cmd EXCEPT ![c].status = "retry_scheduled", ![c].attempt = 0]
            /\ UNCHANGED letters
    /\ UNCHANGED <<replied, lease, Placement>>

\* update_command_status: no fence and no status guard.
ResetToPending(c) ==
    /\ cmd[c].status # "absent"
    /\ cmd' = [cmd EXCEPT ![c].status = "pending"]
    /\ UNCHANGED <<session, letters, replied, lease, Placement>>

DeadLetterUnfenced(c) ==
    /\ cmd[c].status # "absent"
    /\ Finish(c, "dead_letter", FALSE)
    /\ UNCHANGED <<letters, replied, lease, Placement>>

insert_dead_letter(c) ==
    /\ WriteLetter(c)
    /\ UNCHANGED <<session, cmd, replied, lease, Placement>>

\* TTL sweep: the pending commands of S are older than the cutoff.
dead_letter_stale_pending_commands(S) ==
    /\ BatchIsPending(S)
    /\ cmd' = [c \in Commands |->
           IF c \in S THEN [cmd[c] EXCEPT !.status = "dead_letter"] ELSE cmd[c]]
    /\ UNCHANGED <<session, letters, replied, lease, Placement>>

-----------------------------------------------------------------------------
(* Administrative transactions.                                            *)

\* Removal of the harness account the agent runs under: queued work is dead,
\* running work may finish but not be retried.
request_account_retirement(g) ==
    /\ g \in Accounted /\ removal[g] # "completed"
    /\ removal' = [removal EXCEPT ![g] = "requested"]
    /\ disabled' = disabled \cup {g}
    /\ cmd' = [c \in Commands |->
           IF AgentOfCommand(c) # g THEN cmd[c]
           ELSE IF cmd[c].status \in {"pending", "retry_scheduled"}
           THEN [cmd[c] EXCEPT !.status = "dead_letter"]
           ELSE IF cmd[c].status \in Active
           THEN [cmd[c] EXCEPT !.max = IF cmd[c].count > 1 THEN cmd[c].count ELSE 1]
           ELSE cmd[c]]
    /\ UNCHANGED <<session, letters, replied, lease, binding, revoked>>

\* The removal completes once nothing of the agent is running.
finish_account_retirement(g) ==
    /\ removal[g] = "requested"
    /\ \A c \in CommandsOfAgent(g) : cmd[c].status \notin Active
    /\ removal' = [removal EXCEPT ![g] = "completed"]
    /\ UNCHANGED <<session, cmd, letters, replied, lease, binding, disabled, revoked>>

\* The sessions of the commands in S lose their lease.
FencedSessions(S) ==
    [s \in Sessions |->
        IF \E c \in S : SessionOf[c] = s
        THEN [epoch |-> session[s].epoch + 1, status |-> "idle", beat |-> "null"]
        ELSE session[s]]

\* Removal of an execution device: its open commands are dead.
RevokeRuntimeHost(h) ==
    LET S == {c \in Commands : cmd[c].host = h /\ cmd[c].status \in Open}
    IN  /\ h \notin revoked
        /\ revoked' = revoked \cup {h}
        /\ disabled' = disabled \cup {g \in Agents : binding[g] = h}
        /\ session' = FencedSessions(S)
        /\ cmd' = [c \in Commands |->
               IF c \in S
               THEN [cmd[c] EXCEPT !.status = "dead_letter", !.attempt = 0, !.epoch = 0]
               ELSE cmd[c]]
        /\ UNCHANGED <<letters, replied, lease, binding, removal>>

\* The agent is moved to host h, or back to the gateway's own executor: its
\* open commands are requeued there, attempt counts kept.  An agent with a
\* harness account cannot leave the account's device.
assign_binding_host(g, h) ==
    LET S == {c \in CommandsOfAgent(g) : cmd[c].status \in Open}
    IN  /\ g \notin Accounted
        /\ h \notin revoked
        /\ binding[g] # h
        /\ \A c \in S : session[SessionOf[c]].epoch < MaxEpoch
        /\ binding' = [binding EXCEPT ![g] = h]
        /\ disabled' = disabled \ {g}
        /\ session' = FencedSessions(S)
        /\ cmd' = [c \in Commands |->
               IF c \in S
               THEN [cmd[c] EXCEPT !.status = "pending", !.attempt = 0, !.epoch = 0,
                                   !.host = h]
               ELSE cmd[c]]
        /\ UNCHANGED <<letters, replied, lease, revoked, removal>>

-----------------------------------------------------------------------------
(* The most general client.  Attempts and epochs are any that were issued. *)

Attempts == 1 .. lease
Epochs == UNION {0 .. session[s].epoch : s \in Sessions}

FencedWrite(c, a) ==
    \/ \E st \in {"started", "heartbeating", "retry_scheduled"} :
           update_command_status_for_attempt(c, a, st)
    \/ mark_command_succeeded_for_attempt(c, a)
    \/ mark_command_committed_for_attempt(c, a)
    \/ dead_letter_command_for_attempt(c, a)
    \/ insert_reply_event(c, a)

HostWrite(h, c, a) ==
    \/ heartbeat_runtime_host_command(h, c, a)
    \/ FailRuntimeHostCommand(h, c, a)
    \/ \E empty \in BOOLEAN : CompleteRuntimeHostCommand(h, c, a, empty)

SchedulerWrite(c) ==
    \/ ResetToPending(c)
    \/ DeadLetterUnfenced(c)
    \/ letters[c] < MaxLetters /\ insert_dead_letter(c)

AdminWrite(g) ==
    \/ request_account_retirement(g)
    \/ finish_account_retirement(g)
    \/ \E h \in Hosts \cup {Local} : assign_binding_host(g, h)

StoreNext ==
    \/ \E s \in Sessions : upsert_session(s) \/ Age(s)
    \/ \E s \in Sessions, e \in Epochs : update_session_heartbeat_for_epoch(s, e)
    \/ \E c \in Commands : insert_command(c) \/ SchedulerWrite(c)
    \/ \E c \in Commands, a \in Attempts : FencedWrite(c, a)
    \/ \E c \in Commands, e \in Epochs : handle_lease_expiry(c, e)
    \/ \E B \in SUBSET Commands :
           assign_batch_leases(B) \/ dead_letter_stale_pending_commands(B)
    \/ \E h \in Hosts, c \in Commands : claim_runtime_host_command(h, c)
    \/ \E h \in Hosts, c \in Commands, a \in Attempts : HostWrite(h, c, a)
    \/ \E g \in Agents : AdminWrite(g)
    \/ \E h \in Hosts : RevokeRuntimeHost(h)

StoreSpec == StoreInit /\ [][StoreNext]_storeVars

-----------------------------------------------------------------------------
(* In one session, attempts and epochs are issued in the same order: of    *)
(* two commands that still hold an attempt, the one with the later attempt *)
(* has the later epoch, and equal epochs mean one batch.  This is what     *)
(* makes the epoch a fencing token: code that compares epochs decides the  *)
(* same as code that compares attempts.                                    *)
LeaseOrder ==
    \A c, d \in Commands :
        /\ SessionOf[c] = SessionOf[d]
        /\ cmd[c].attempt # 0
        /\ cmd[d].attempt # 0
        => (cmd[c].attempt < cmd[d].attempt <=> cmd[c].epoch < cmd[d].epoch)

(* No command holds an epoch its session has not reached, and no attempt   *)
(* that was not issued.                                                    *)
EpochsIssued ==
    \A c \in Commands :
        /\ cmd[c].epoch <= session[SessionOf[c]].epoch
        /\ cmd[c].attempt <= lease

(* A lease that was lost never comes back: once the fence refuses an       *)
(* attempt that was issued, no sequence of calls (retry, move, expiry,     *)
(* new leases) makes it accept that attempt again.                         *)
RevokedStaysRevoked ==
    [][\A c \in Commands, a \in Attempts : ~Accepts(c, a) => ~Accepts(c, a)']_storeVars

(* The store accepts writes of at most one batch per session: two attempts *)
(* the fence would accept at the same time belong to one lease             *)
(* transaction.                                                            *)
OneOwnerPerSession ==
    \A c, d \in Commands :
        SessionOf[c] = SessionOf[d] /\ Accepts(c, cmd[c].attempt) /\ Accepts(d, cmd[d].attempt)
        => cmd[c].attempt = cmd[d].attempt
=============================================================================
