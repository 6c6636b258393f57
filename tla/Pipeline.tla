------------------------------ MODULE Pipeline ------------------------------
(***************************************************************************)
(* The pipeline process of Choruz (services/choruz-pipeline): the dispatch *)
(* loop, one execution task and one heartbeat task per leased batch, the   *)
(* writer loop, the lease monitor and the retry scheduler, all working on  *)
(* the tables of SessionStore.  Every step makes at most one database      *)
(* call; between two calls of a loop any other loop may run.  The process  *)
(* may crash at any step, losing all it holds in memory, and is restarted  *)
(* by its watchdog.  A database call may fail before or after the server   *)
(* applied it.                                                             *)
(*                                                                         *)
(* A task is named by its attempt number; the primary of a batch is its    *)
(* oldest command.  Batched commands run locally, so Hosts is empty in the *)
(* instances of this module.                                               *)
(***************************************************************************)
EXTENDS SessionStore, Sequences, FiniteSetsExt

CONSTANTS
    DispatchBatch,  \* dispatch_batch: limit of find_pending_commands
    ChannelSize,    \* capacity of the writer channel
    ErrorKinds,     \* error kinds a failed execution can report
    MaxCrashes,     \* bound: crashes explored
    MaxFaults       \* bound: failed database calls explored

ASSUME PipelineAssumption ==
    /\ {DispatchBatch, ChannelSize} \subseteq Nat \ {0}
    /\ {MaxCrashes, MaxFaults} \subseteq Nat

VARIABLES
    found,    \* commands of the last find_pending_commands still to dispatch
    task,     \* execution tasks, by attempt number
    channel,  \* results sent to the writer, oldest first
    writer,   \* the result the writer is committing
    monitor,  \* expired leases the lease monitor still has to handle
    retrier,  \* what the retry scheduler read and still has to write
    answered, \* history: commands covered by a published (or empty) answer
    crashes, faults

memory == <<found, task, channel, writer, monitor, retrier>>
vars == <<storeVars, memory, answered, crashes, faults>>

Primary(B) == Min(B)

NoTask == [phase |-> "none", members |-> {}, epoch |-> 0, beats |-> <<>>, left |-> {},
           first |-> TRUE, outcome |-> "none", todo |-> {}, closable |-> {}]
NoResult == [phase |-> "idle", attempt |-> 0, todo |-> {}, primary |-> 0]
NoRetries == [phase |-> "idle", todo |-> {}, letter |-> {}]

TaskPhases == {"none", "starting", "validate", "cli", "settle", "send"}
Outcomes == {"none", "ok", "empty", "retriable", "fatal"}

(* Type correctness of the loops' memory, with that of the tables.         *)
TypeOK ==
    /\ StoreTypeOK
    /\ found \subseteq Commands
    /\ DOMAIN task = 1 .. MaxLease
    /\ \A a \in 1 .. MaxLease :
           /\ task[a].phase \in TaskPhases
           /\ task[a].outcome \in Outcomes
           /\ task[a].members \subseteq Commands
           /\ task[a].todo \cup task[a].closable \subseteq task[a].members
           /\ task[a].left \subseteq DOMAIN task[a].beats
    /\ Len(channel) <= ChannelSize
    /\ writer.phase \in {"idle", "dedup", "insert", "commit"}
    /\ {r.command : r \in monitor} \subseteq Commands
    /\ retrier.phase \in {"idle", "exhausted", "reset"}
    /\ retrier.todo \cup retrier.letter \subseteq Commands
    /\ answered \subseteq Commands
    /\ crashes \in 0 .. MaxCrashes /\ faults \in 0 .. MaxFaults

Init ==
    /\ StoreInit
    /\ found = {}
    /\ task = [a \in 1 .. MaxLease |-> NoTask]
    /\ channel = <<>>
    /\ writer = NoResult
    /\ monitor = {}
    /\ retrier = NoRetries
    /\ answered = {}
    /\ crashes = 0 /\ faults = 0

-----------------------------------------------------------------------------
(* One database call of a loop.  The call is applied when its guard        *)
(* accepts it, refused otherwise; or it fails, applied or not.             *)
Call(accepted, effect, onOk, onRefused, onError) ==
    \/ accepted /\ effect /\ onOk /\ UNCHANGED faults
    \/ ~accepted /\ UNCHANGED storeVars /\ onRefused /\ UNCHANGED faults
    \/ /\ faults < MaxFaults /\ faults' = faults + 1
       /\ (accepted /\ effect) \/ UNCHANGED storeVars
       /\ onError

\* A read can fail too; then nothing changes but the caller's state.
Read(onOk, onError) ==
    /\ UNCHANGED storeVars
    /\ \/ onOk /\ UNCHANGED faults
       \/ faults < MaxFaults /\ faults' = faults + 1 /\ onError

TaskIs(a, changes) == task' = [task EXCEPT ![a] = changes]
TaskEnds(a) == TaskIs(a, NoTask)

-----------------------------------------------------------------------------
(* The dispatch loop.                                                      *)

\* Wrong versions of the statuses below.
BlockingUntilHeartbeat == {"leased", "started", "retry_scheduled"}
BlockingActive == Active

\* Statuses of a command that keep its agent's pending commands waiting.
BlockingStatus == Active \cup {"retry_scheduled"}

Eligible == {c \in Commands :
    /\ cmd[c].status = "pending"
    /\ cmd[c].host = Local
    /\ \A d \in CommandsOfAgent(AgentOfCommand(c)) : cmd[d].status \notin BlockingStatus}

agent_queue_position(c) == Cardinality({d \in Eligible :
    AgentOfCommand(d) = AgentOfCommand(c) /\ d <= c})

\* The order of the query: every agent's first command before any second.
Precedes(c, d) ==
    \/ agent_queue_position(c) < agent_queue_position(d)
    \/ agent_queue_position(c) = agent_queue_position(d) /\ c < d

find_pending_commands == {c \in Eligible :
    Cardinality({d \in Eligible : Precedes(d, c)}) < DispatchBatch}

\* The loop handles one find before the next, one batch at a time.
Starting == {a \in 1 .. MaxLease : task[a].phase = "starting"}

FindPending ==
    /\ found = {} /\ Starting = {}
    /\ find_pending_commands # {}
    /\ found' = find_pending_commands
    /\ UNCHANGED <<storeVars, task, channel, writer, monitor, retrier, answered, crashes, faults>>

\* group_commands: one batch per agent, in any order.  A batch with a member
\* that is no longer pending is skipped.
DispatchGroup(g) ==
    LET B == {c \in found : AgentOfCommand(c) = g}
        S == {SessionOf[c] : c \in B}
    IN  /\ B # {} /\ Starting = {}
        /\ found' = found \ B
        /\ Call(BatchIsPending(B), assign_batch_leases(B),
                TaskIs(lease + 1, [NoTask EXCEPT !.phase = "starting", !.members = B,
                           !.epoch = session[SessionOf[Primary(B)]].epoch + 1,
                           !.beats = [s \in S |-> session[s].epoch + 1],
                           !.left = S]),
                UNCHANGED task,
                UNCHANGED task)
        /\ UNCHANGED <<channel, writer, monitor, retrier, answered, crashes>>

\* Wrong version: the status is written without the attempt fence.
StartUnfenced(a) ==
    /\ task[a].phase = "starting"
    /\ cmd' = [cmd EXCEPT ![Primary(task[a].members)].status = "started"]
    /\ TaskIs(a, [task[a] EXCEPT !.phase = "validate"])
    /\ UNCHANGED <<session, letters, replied, lease, Placement, found, channel, writer,
                   monitor, retrier, answered, crashes, faults>>

\* The primary is marked started; a batch that lost it, or whose write
\* failed, is dropped and left to lease expiry.
StartTask(a) ==
    LET p == Primary(task[a].members)
    IN  /\ task[a].phase = "starting"
        /\ Call(Accepts(p, a), update_command_status_for_attempt(p, a, "started"),
                TaskIs(a, [task[a] EXCEPT !.phase = "validate"]),
                TaskEnds(a),
                TaskEnds(a))
        /\ UNCHANGED <<found, channel, writer, monitor, retrier, answered, crashes>>

-----------------------------------------------------------------------------
(* The heartbeat task of a batch.  Each round beats every session it still *)
(* holds; a session whose lease was superseded is dropped, and a heartbeat *)
(* with no session left returns without stopping the execution.            *)

Beating(a) == task[a].phase \in {"validate", "cli"}

NoBeats(a) == [task[a] EXCEPT !.beats = <<>>, !.left = {}]

HeartbeatSession(a, s) ==
    LET held == DOMAIN task[a].beats
        e == task[a].beats[s]
    IN  /\ Beating(a) /\ s \in task[a].left
        /\ Call(session[s].epoch = e /\ session[s].status = "active",
                update_session_heartbeat_for_epoch(s, e),
                TaskIs(a, [task[a] EXCEPT !.left = @ \ {s}]),
                TaskIs(a, [task[a] EXCEPT !.left = @ \ {s},
                                          !.beats = [r \in held \ {s} |-> @[r]]]),
                TaskIs(a, [task[a] EXCEPT !.left = @ \ {s}]))
        /\ UNCHANGED <<found, channel, writer, monitor, retrier, answered, crashes>>

\* After its first round the task marks the primary heartbeating; if that is
\* refused or fails it stops.
EndRound(a) ==
    LET held == DOMAIN task[a].beats
        p == Primary(task[a].members)
        next == [task[a] EXCEPT !.first = FALSE, !.left = held]
    IN  /\ Beating(a) /\ task[a].left = {} /\ held # {}
        /\ IF task[a].first
           THEN Call(Accepts(p, a), update_command_status_for_attempt(p, a, "heartbeating"),
                     TaskIs(a, next),
                     TaskIs(a, NoBeats(a)),
                     TaskIs(a, NoBeats(a)))
           ELSE TaskIs(a, next) /\ UNCHANGED <<storeVars, faults>>
        /\ UNCHANGED <<found, channel, writer, monitor, retrier, answered, crashes>>

-----------------------------------------------------------------------------
(* The execution task of a batch.                                          *)

is_auto_retriable(kind) == kind \in {"timeout", "killed", "network", "rate_limited",
                                     "resume_failure", "spawn_failure", "process_failed"}

\* The execution ended and the heartbeat is aborted.
Ended(a, outcome) == [NoTask EXCEPT !.phase = "settle", !.members = task[a].members,
                                    !.outcome = outcome, !.todo = task[a].members]

\* Epoch check before the CLI is spawned; its errors carry no kind.
ValidateEpoch(a) ==
    /\ task[a].phase = "validate"
    /\ Read(TaskIs(a, IF session[SessionOf[Primary(task[a].members)]].epoch = task[a].epoch
                      THEN [task[a] EXCEPT !.phase = "cli"]
                      ELSE Ended(a, "fatal")),
            TaskIs(a, Ended(a, "fatal")))
    /\ UNCHANGED <<found, channel, writer, monitor, retrier, answered, crashes>>

\* The CLI exits, or its timeout kills it.
CliEnds(a) ==
    /\ task[a].phase = "cli"
    /\ \/ \E outcome \in {"ok", "empty"} : TaskIs(a, Ended(a, outcome))
       \/ \E kind \in ErrorKinds :
              TaskIs(a, Ended(a, IF is_auto_retriable(kind) THEN "retriable" ELSE "fatal"))
    /\ UNCHANGED <<storeVars, found, channel, writer, monitor, retrier, answered, crashes, faults>>

\* The rows are settled oldest first, the primary before the others.
Settled(a, c, closes) ==
    TaskIs(a, [task[a] EXCEPT !.todo = @ \ {c},
                              !.closable = IF closes THEN @ \cup {c} ELSE @,
                              !.phase = IF task[a].todo = {c} THEN "send" ELSE @])

\* A primary that is stale discards the result; one whose write failed does
\* not, the writer settles the ambiguity.
SettleSucceeded(a) ==
    LET c == Min(task[a].todo)
        p == Primary(task[a].members)
    IN  /\ task[a].phase = "settle" /\ task[a].outcome \in {"ok", "empty"}
        /\ Call(Accepts(c, a) /\ cmd[c].status \in Active,
                mark_command_succeeded_for_attempt(c, a),
                Settled(a, c, c # p),
                IF c = p THEN TaskEnds(a) ELSE Settled(a, c, FALSE),
                Settled(a, c, FALSE))
        /\ UNCHANGED <<found, channel, writer, monitor, retrier, answered, crashes>>

\* The decision uses the attempt count of the lease and the limit read when
\* the command was found, which is always MaxAttempts.
should_retry_failed_command(c, outcome) ==
    outcome = "retriable" /\ ~is_exhausted(cmd[c].count, MaxAttempts)

SettleFailed(a) ==
    LET c == Min(task[a].todo)
        p == Primary(task[a].members)
        lost == IF c = p THEN TaskEnds(a) ELSE Settled(a, c, FALSE)
    IN  /\ task[a].phase = "settle" /\ task[a].outcome \in {"retriable", "fatal"}
        /\ Call(Accepts(c, a),
                IF should_retry_failed_command(c, task[a].outcome)
                THEN update_command_status_for_attempt(c, a, "retry_scheduled")
                ELSE dead_letter_command_for_attempt(c, a),
                Settled(a, c, FALSE),
                lost,
                lost)
        /\ UNCHANGED <<found, channel, writer, monitor, retrier, answered, crashes>>

\* Wrong version: a full channel does not hold the task back.
SendUnbounded(a) ==
    /\ task[a].phase = "send"
    /\ channel' = Append(channel, [attempt |-> a, primary |-> Primary(task[a].members),
                                   outcome |-> task[a].outcome, closable |-> task[a].closable])
    /\ TaskEnds(a)
    /\ UNCHANGED <<storeVars, found, writer, monitor, retrier, answered, crashes, faults>>

SendResult(a) ==
    /\ task[a].phase = "send"
    /\ Len(channel) < ChannelSize
    /\ channel' = Append(channel, [attempt |-> a, primary |-> Primary(task[a].members),
                                   outcome |-> task[a].outcome, closable |-> task[a].closable])
    /\ TaskEnds(a)
    /\ UNCHANGED <<storeVars, found, writer, monitor, retrier, answered, crashes, faults>>

-----------------------------------------------------------------------------
(* The writer loop: commit_result, one database call at a time.            *)

WriterOthers == UNCHANGED <<found, task, monitor, retrier, crashes>>

\* Failed results are skipped, and so are those of a superseded attempt.  An
\* empty answer (the agent sent its reply itself) is committed as it is.
WriterReceive ==
    LET r == Head(channel)
        covered == {r.primary} \cup r.closable
        commit(phase) == [phase |-> phase, attempt |-> r.attempt, primary |-> r.primary,
                          todo |-> covered]
        current == Accepts(r.primary, r.attempt)
    IN  /\ writer.phase = "idle" /\ channel # <<>>
        /\ channel' = Tail(channel)
        /\ IF r.outcome \notin {"ok", "empty"}
           THEN UNCHANGED <<storeVars, writer, answered, faults>>
           ELSE Read(/\ writer' = IF ~current THEN NoResult
                                 ELSE commit(IF r.outcome = "empty" THEN "commit" ELSE "dedup")
                     /\ answered' = IF current /\ r.outcome = "empty"
                                    THEN answered \cup covered ELSE answered,
                     writer' = NoResult /\ UNCHANGED answered)
        /\ WriterOthers

\* Wrong version: the reply is taken to be there already.
TurnTakenAsCommitted ==
    /\ writer.phase = "dedup"
    /\ Read(writer' = [writer EXCEPT !.phase = "commit"], writer' = NoResult)
    /\ UNCHANGED <<channel, answered>> /\ WriterOthers

turn_already_committed ==
    /\ writer.phase = "dedup"
    /\ Read(writer' = [writer EXCEPT !.phase = IF writer.primary \in replied
                                              THEN "commit" ELSE "insert"],
            writer' = NoResult)
    /\ UNCHANGED <<channel, answered>> /\ WriterOthers

\* Wrong version: the reply is inserted on the strength of the earlier check.
WriterInsertUnfenced ==
    /\ writer.phase = "insert"
    /\ replied' = replied \cup {writer.primary}
    /\ answered' = answered \cup writer.todo
    /\ writer' = [writer EXCEPT !.phase = "commit"]
    /\ UNCHANGED <<session, cmd, letters, lease, Placement, channel, faults>> /\ WriterOthers

\* A turn that got its reply since the check is a duplicate, not an error.
WriterInsert ==
    LET p == writer.primary
        fenced == Accepts(p, writer.attempt)
    IN  /\ writer.phase = "insert"
        /\ Call(fenced /\ p \notin replied, insert_reply_event(p, writer.attempt),
                writer' = [writer EXCEPT !.phase = "commit"],
                writer' = IF fenced THEN [writer EXCEPT !.phase = "commit"] ELSE NoResult,
                writer' = NoResult)
        /\ answered' = IF p \in replied' \ replied THEN answered \cup writer.todo ELSE answered
        /\ UNCHANGED channel /\ WriterOthers

\* mark_all_committed: the primary, then the secondaries.  A superseded row
\* is skipped, a failed call ends the commit.
mark_all_committed ==
    LET c == IF writer.primary \in writer.todo THEN writer.primary ELSE Min(writer.todo)
        next == IF writer.todo = {c} THEN NoResult ELSE [writer EXCEPT !.todo = @ \ {c}]
    IN  /\ writer.phase = "commit"
        /\ Call(Accepts(c, writer.attempt), mark_command_committed_for_attempt(c, writer.attempt),
                writer' = next, writer' = next, writer' = NoResult)
        /\ UNCHANGED <<channel, answered>> /\ WriterOthers

-----------------------------------------------------------------------------
(* The lease monitor.                                                      *)

MonitorCheck ==
    /\ monitor = {} /\ check_expired_leases # {}
    /\ monitor' = check_expired_leases
    /\ UNCHANGED <<storeVars, found, task, channel, writer, retrier, answered, crashes, faults>>

MonitorHandle == \E r \in monitor :
    LET c == r.command
        next == monitor' = monitor \ {r}
    IN  /\ Call(Expires(c, r.epoch),
                handle_lease_expiry(c, r.epoch),
                next, next, next)
        /\ UNCHANGED <<found, task, channel, writer, retrier, answered, crashes>>

-----------------------------------------------------------------------------
(* The retry scheduler.  A tick sweeps, closes what is exhausted and       *)
(* requeues what is due; each part may find nothing to do.  The rows a     *)
(* part read are written back one by one, without a fence.                 *)

RetrierOthers == UNCHANGED <<found, task, channel, writer, monitor, answered, crashes>>

\* S: the pending commands that have waited longer than the limit.
RetrierSweep(S) ==
    /\ retrier.phase = "idle" /\ S # {}
    /\ dead_letter_stale_pending_commands(S)
    /\ UNCHANGED <<retrier, faults>> /\ RetrierOthers

\* Wrong version: the limit a command was created with, not its row's.
RetryScheduledByDefault(exhausted) == {c \in Commands :
    /\ cmd[c].status = "retry_scheduled"
    /\ is_exhausted(cmd[c].count, MaxAttempts) = exhausted
    /\ exhausted \/ cmd[c].host = Local}

RetryScheduled(exhausted) == {c \in Commands :
    /\ cmd[c].status = "retry_scheduled"
    /\ is_exhausted(cmd[c].count, cmd[c].max) = exhausted
    /\ exhausted \/ cmd[c].host = Local}

find_exhausted_retry_commands(S) ==
    /\ retrier.phase = "idle" /\ S # {} /\ S \subseteq RetryScheduled(TRUE)
    /\ retrier' = [phase |-> "exhausted", todo |-> S, letter |-> {}]
    /\ UNCHANGED <<storeVars, faults>> /\ RetrierOthers

\* S: those whose backoff is over.
find_retriable_commands(S) ==
    /\ retrier.phase = "idle" /\ S # {} /\ S \subseteq RetryScheduled(FALSE)
    /\ retrier' = [phase |-> "reset", todo |-> S, letter |-> {}]
    /\ UNCHANGED <<storeVars, faults>> /\ RetrierOthers

RetrierNext(todo, letter) ==
    retrier' = IF todo \cup letter = {} THEN NoRetries
               ELSE [retrier EXCEPT !.todo = todo, !.letter = letter]

RetrierExhausted(c) ==
    /\ retrier.phase = "exhausted" /\ c \in retrier.todo /\ retrier.letter = {}
    /\ Call(TRUE, DeadLetterUnfenced(c),
            RetrierNext(retrier.todo \ {c}, {c}), FALSE, RetrierNext(retrier.todo \ {c}, {}))
    /\ RetrierOthers

RetrierLetter(c) ==
    /\ retrier.phase = "exhausted" /\ c \in retrier.letter
    /\ Call(TRUE, insert_dead_letter(c),
            RetrierNext(retrier.todo, {}), FALSE, RetrierNext(retrier.todo, {}))
    /\ RetrierOthers

RetrierReset(c) ==
    /\ retrier.phase = "reset" /\ c \in retrier.todo
    /\ Call(TRUE, ResetToPending(c),
            RetrierNext(retrier.todo \ {c}, {}), FALSE, RetrierNext(retrier.todo \ {c}, {}))
    /\ RetrierOthers

-----------------------------------------------------------------------------
(* Crash and restart, and the rest of the system.                          *)

Crash ==
    /\ crashes < MaxCrashes /\ crashes' = crashes + 1
    /\ found' = {} /\ task' = [a \in 1 .. MaxLease |-> NoTask]
    /\ channel' = <<>> /\ writer' = NoResult /\ monitor' = {} /\ retrier' = NoRetries
    /\ UNCHANGED <<storeVars, answered, faults>>

\* The router and the gateway work on the same tables; time passes.
Outside ==
    /\ \/ \E s \in Sessions : upsert_session(s) \/ Age(s)
       \/ \E c \in Commands : insert_command(c)
       \/ \E g \in Agents : request_account_retirement(g) \/ finish_account_retirement(g)
    /\ UNCHANGED <<memory, answered, crashes, faults>>

TaskStep(a) == StartTask(a) \/ ValidateEpoch(a) \/ CliEnds(a)
               \/ SettleSucceeded(a) \/ SettleFailed(a) \/ SendResult(a)
HeartbeatStep(a) == (\E s \in Sessions : HeartbeatSession(a, s)) \/ EndRound(a)
DispatchStep == FindPending \/ \E g \in Agents : DispatchGroup(g)
WriterStep == WriterReceive \/ turn_already_committed \/ WriterInsert \/ mark_all_committed
MonitorStep == MonitorCheck \/ MonitorHandle
RetrierStep ==
    \/ \E S \in SUBSET Commands :
           find_exhausted_retry_commands(S) \/ find_retriable_commands(S)
    \/ \E c \in Commands : RetrierExhausted(c) \/ RetrierLetter(c) \/ RetrierReset(c)

Next ==
    \/ DispatchStep
    \/ \E a \in 1 .. MaxLease : TaskStep(a) \/ HeartbeatStep(a)
    \/ WriterStep
    \/ MonitorStep
    \/ RetrierStep
    \/ \E S \in SUBSET Commands : RetrierSweep(S)
    \/ Crash
    \/ Outside

Spec == Init /\ [][Next]_vars

-----------------------------------------------------------------------------
(* Fairness.  Every loop keeps ticking and every task is polled; the CLI   *)
(* is bounded by the executor timeout.  A lease that no heartbeat task     *)
(* refreshes runs out.                                                     *)

Lapse(s) ==
    /\ ~\E a \in 1 .. MaxLease : Beating(a) /\ s \in DOMAIN task[a].beats
                                /\ task[a].beats[s] = session[s].epoch
    /\ Age(s)
    /\ UNCHANGED <<memory, answered, crashes, faults>>

Fairness ==
    /\ WF_vars(DispatchStep)
    /\ \A a \in 1 .. MaxLease : WF_vars(TaskStep(a))
    /\ WF_vars(WriterStep)
    /\ WF_vars(MonitorStep)
    /\ WF_vars(RetrierStep)
    /\ \A s \in Sessions : WF_vars(Lapse(s))

FairSpec == Spec /\ Fairness

-----------------------------------------------------------------------------
(* "At most one in-flight batch per agent": the commands of an agent that  *)
(* are leased, started or heartbeating all belong to one lease, although   *)
(* find_pending_commands only looks at the table and the lease is taken    *)
(* later, by another transaction.                                          *)
OneBatchPerAgent ==
    \A c, d \in Commands :
        /\ AgentOfCommand(c) = AgentOfCommand(d)
        /\ cmd[c].status \in Active /\ cmd[d].status \in Active
        => cmd[c].attempt = cmd[d].attempt

(* No command is started more often than its limit, although nothing in    *)
(* assign_batch_leases looks at the limit: the dispatcher, the monitor and *)
(* the retry scheduler each stop it in their own way.  Account removal     *)
(* lowers the limit of a running command, so it is not started again.      *)
AttemptBudget == \A c \in Commands : cmd[c].count <= cmd[c].max

(* A command has at most one dead_letters row, whichever of the three      *)
(* paths to dead_letter it took and however they raced.                    *)
SingleLetter == \A c \in Commands : letters[c] <= 1

(* A command is neither started nor given up more often than it may be.    *)
BudgetKept == AttemptBudget /\ SingleLetter

(* "A backed-off failure doesn't get lapped by a fresher pending command": *)
(* while a command waits for its retry, no younger command of its agent is *)
(* leased, although the retry scheduler and the dispatch loop act on lists *)
(* they read earlier.                                                      *)
NoLapping ==
    [][\A c, d \in Commands :
           /\ c < d /\ AgentOfCommand(c) = AgentOfCommand(d)
           /\ cmd[c].status = "retry_scheduled" /\ cmd[d].status = "pending"
           => cmd'[d].status # "leased"]_vars

(* While the process neither crashes nor loses a database call, the lease  *)
(* monitor can reach every running command: its session is still active    *)
(* under the command's epoch, or the monitor already holds the expiry.     *)
ActiveIsWatched ==
    \A c \in Commands : cmd[c].status \in Active =>
        \/ session[SessionOf[c]].status = "active" /\ session[SessionOf[c]].epoch = cmd[c].epoch
        \/ [command |-> c, epoch |-> cmd[c].epoch] \in monitor

(* A command is closed as committed only when an answer that covers it was *)
(* published, or the agent answered by itself: no member of a batch is     *)
(* closed by an answer that was discarded.                                 *)
CommittedIsAnswered ==
    \A c \in Commands : cmd[c].status = "committed" => c \in answered

(* A command that is dead never gets its answer published afterwards: the  *)
(* late result of a slow executor is refused.                              *)
DeadStaysUnanswered ==
    [][\A c \in Commands : cmd[c].status = "dead_letter" /\ c \in answered'
           => c \in answered]_vars

\* Every step of the pipeline is a transaction of the store, so what is
\* proved of SessionStore holds here.
ImplementsStore == StoreSpec

LifeOf(status) ==
    CASE status = "absent" -> "none"
      [] status \in {"pending", "retry_scheduled"} -> "waiting"
      [] status \in Active -> "running"
      [] status = "succeeded" -> "answered"
      [] status = "committed" -> "closed"
      [] status = "dead_letter" -> "dead"

Lifecycle == INSTANCE CommandLifecycle
    WITH life <- [c \in Commands |-> LifeOf(cmd[c].status)],
         tries <- [c \in Commands |-> cmd[c].count]

(* The pipeline implements the life of a command: terminal states are      *)
(* final, at most MaxAttempts starts, and nothing leaves "answered" but to *)
(* be closed, whatever the loops interleave.                               *)
ImplementsLifecycle == Lifecycle!Spec

(* Every routed command succeeds or is given up in the end: no crash, lost *)
(* lease or failed attempt leaves it, or its agent's queue, stuck.  A      *)
(* command whose turn succeeded counts, also when a crash lost the reply   *)
(* before it was published.                                                *)
EveryCommandSettles ==
    \A c \in Commands : cmd[c].status # "absent"
                         ~> cmd[c].status \in {"succeeded"} \cup Terminal

-----------------------------------------------------------------------------
(* What the repository says of the pipeline and the code does not keep.    *)

(* "Executor node dies mid-turn": handle_lease_expiry moves the command to *)
(* retry_scheduled or dead_letter.  The first member of a batch fences the *)
(* session; if the monitor stops before the other members, no later check  *)
(* finds them and they keep their agent's queue blocked.                   *)
LostExecutorIsRecovered ==
    \A c \in Commands : cmd[c].status \in Active ~> cmd[c].status \notin Active
=============================================================================
