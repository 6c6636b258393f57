--------------------------- MODULE PipelineMemory ---------------------------
(* Every step of the pipeline moves the memory of its loops as              *)
(* PipelineSteps says, and makes one write to the tables at most.           *)
EXTENDS PipelineSteps

USE CommandsAssumption, KeysAssumption, BoundsAssumption, PipelineAssumption

\* Zenon proves a leaf that does not ask for another prover.
USE ZenonT(30)

-----------------------------------------------------------------------------
(* Rows of the loops' memory.                                               *)

LEMMA PhaseRow ==
    ASSUME NEW t, TaskOK(t), t.phase \in Early, NEW p \in Early
    PROVE  LET u == [t EXCEPT !.phase = p]
           IN  /\ TaskOK(u) /\ u.phase = p /\ u.members = t.members
               /\ u.todo = t.todo /\ u.closable = t.closable
<1> DEFINE u == [t EXCEPT !.phase = p]
<1>1. u = [phase |-> p, members |-> t.members, epoch |-> t.epoch, beats |-> t.beats,
           left |-> t.left, first |-> t.first, outcome |-> t.outcome, todo |-> t.todo,
           closable |-> t.closable]
  BY SMT DEF TaskOK, TaskShape
<1> HIDE DEF u
<1>2. p \in TaskPhases
  BY DEF TaskPhases, Early
<1>3. TaskOK(u) /\ u.phase = p /\ u.members = t.members
               /\ u.todo = t.todo /\ u.closable = t.closable
  BY <1>1, <1>2 DEF TaskOK, TaskShape, Early
<1> QED
  BY <1>3 DEF u

\* The heartbeat changes only its own fields of a task.
BeatChange(t, u, b, l, f) ==
    /\ l \subseteq DOMAIN b
    /\ \/ u = [t EXCEPT !.left = l] /\ b = t.beats
       \/ u = [t EXCEPT !.left = l, !.beats = b]
       \/ u = [t EXCEPT !.beats = b, !.left = l]
       \/ u = [t EXCEPT !.first = f, !.left = l] /\ b = t.beats

LEMMA BeatRow ==
    ASSUME NEW t, TaskOK(t), t.phase \in Early, NEW b, NEW l, NEW f, NEW u,
           BeatChange(t, u, b, l, f)
    PROVE  TaskOK(u) /\ u.phase = t.phase /\ u.members = t.members
<1>1. PICK g : u = [phase |-> t.phase, members |-> t.members, epoch |-> t.epoch, beats |-> b,
                    left |-> l, first |-> g, outcome |-> t.outcome, todo |-> t.todo,
                    closable |-> t.closable]
  <2>1. CASE u = [t EXCEPT !.left = l] /\ b = t.beats
    <3>1. u = [phase |-> t.phase, members |-> t.members, epoch |-> t.epoch, beats |-> b,
                    left |-> l, first |-> t.first, outcome |-> t.outcome, todo |-> t.todo,
                    closable |-> t.closable]
      BY <2>1 DEF TaskOK, TaskShape
    <3> QED
      BY <3>1
  <2>2. CASE \/ u = [t EXCEPT !.left = l, !.beats = b]
             \/ u = [t EXCEPT !.beats = b, !.left = l]
    <3>1. u = [phase |-> t.phase, members |-> t.members, epoch |-> t.epoch, beats |-> b,
                    left |-> l, first |-> t.first, outcome |-> t.outcome, todo |-> t.todo,
                    closable |-> t.closable]
      BY <2>2 DEF TaskOK, TaskShape
    <3> QED
      BY <3>1
  <2>3. CASE u = [t EXCEPT !.first = f, !.left = l] /\ b = t.beats
    <3>1. u = [phase |-> t.phase, members |-> t.members, epoch |-> t.epoch, beats |-> b,
                    left |-> l, first |-> f, outcome |-> t.outcome, todo |-> t.todo,
                    closable |-> t.closable]
      BY <2>3 DEF TaskOK, TaskShape
    <3> QED
      BY <3>1
  <2> QED
    BY <2>1, <2>2, <2>3 DEF BeatChange
<1>2. l \subseteq DOMAIN b
  BY DEF BeatChange
<1> QED
  BY <1>1, <1>2 DEF TaskOK, TaskShape

LEMMA EndedRow ==
    ASSUME NEW a, TaskOK(task[a]), task[a].phase \in {"validate", "cli"},
           NEW o \in Outcomes, NEW u, u = Ended(a, o)
    PROVE  /\ TaskOK(u) /\ u.phase = "settle" /\ u.members = task[a].members
           /\ u.todo = task[a].members /\ u.closable = {} /\ u.outcome = o
<1>1. ASSUME NEW n, TaskShape(n), NEW M,
             u = [n EXCEPT !.phase = "settle", !.members = M, !.outcome = o, !.todo = M]
      PROVE  u = [phase |-> "settle", members |-> M, epoch |-> n.epoch, beats |-> n.beats,
                  left |-> n.left, first |-> n.first, outcome |-> o, todo |-> M,
                  closable |-> n.closable]
  BY <1>1 DEF TaskShape
<1>2. u = [phase |-> "settle", members |-> task[a].members, epoch |-> NoTask.epoch,
           beats |-> NoTask.beats, left |-> NoTask.left, first |-> NoTask.first, outcome |-> o,
           todo |-> task[a].members, closable |-> NoTask.closable]
  BY <1>1, NoTaskOK DEF Ended, TaskOK
<1>3. NoTask.left = {} /\ NoTask.closable = {}
  BY DEF NoTask
<1>4. /\ u.phase = "settle" /\ u.members = task[a].members /\ u.left = {}
      /\ u.outcome = o /\ u.todo = task[a].members /\ u.closable = {}
  BY <1>2, <1>3, SMT
<1>5. TaskShape(u)
  BY <1>2 DEF TaskShape
<1> QED
  BY <1>4, <1>5 DEF TaskOK, Early, TaskPhases

StartingTask(u, M, e, b, S) ==
    u = [NoTask EXCEPT !.phase = "starting", !.members = M, !.epoch = e, !.beats = b, !.left = S]

LEMMA StartingRow ==
    ASSUME NEW M \in SUBSET Commands, M # {}, NEW e, NEW S, NEW b, DOMAIN b = S, NEW u,
           StartingTask(u, M, e, b, S)
    PROVE  TaskOK(u) /\ u.phase = "starting" /\ u.members = M
<1>1. ASSUME NEW n, TaskShape(n),
             u = [n EXCEPT !.phase = "starting", !.members = M, !.epoch = e, !.beats = b,
                           !.left = S]
      PROVE  u = [phase |-> "starting", members |-> M, epoch |-> e, beats |-> b, left |-> S,
                  first |-> n.first, outcome |-> n.outcome, todo |-> n.todo,
                  closable |-> n.closable]
  BY <1>1 DEF TaskShape
<1>2. u = [phase |-> "starting", members |-> M, epoch |-> e, beats |-> b, left |-> S,
           first |-> NoTask.first, outcome |-> NoTask.outcome, todo |-> NoTask.todo,
           closable |-> NoTask.closable]
  BY <1>1, NoTaskOK DEF TaskOK, StartingTask
<1>3. NoTask.todo = {} /\ NoTask.closable = {} /\ NoTask.outcome = "none"
  BY DEF NoTask
<1>4. /\ u.phase = "starting" /\ u.members = M /\ u.left = S /\ u.beats = b
      /\ u.outcome = "none" /\ u.todo = {} /\ u.closable = {}
  BY <1>2, <1>3
<1>5. TaskShape(u)
  BY <1>2 DEF TaskShape
<1> QED
  BY <1>4, <1>5 DEF TaskOK, Early, TaskPhases, Outcomes

SettleChange(t, u, c, K, p) ==
    /\ K = t.closable \/ K = t.closable \cup {c}
    /\ p = IF t.todo = {c} THEN "send" ELSE "settle"
    /\ u = [t EXCEPT !.todo = t.todo \ {c}, !.closable = K, !.phase = p]

LEMMA SettledRow ==
    ASSUME NEW t, TaskOK(t), t.phase = "settle", NEW c \in t.todo, NEW K, NEW u, NEW p,
           SettleChange(t, u, c, K, p)
    PROVE  /\ TaskOK(u) /\ u.members = t.members /\ u.outcome = t.outcome
           /\ u.todo = t.todo \ {c} /\ u.closable = K /\ u.phase = p
<1>1. u = [phase |-> p, members |-> t.members, epoch |-> t.epoch, beats |-> t.beats,
           left |-> t.left, first |-> t.first, outcome |-> t.outcome, todo |-> t.todo \ {c},
           closable |-> K]
  BY DEF TaskOK, TaskShape, SettleChange
<1>2. p \in TaskPhases /\ p \notin Early /\ p # "none"
  BY DEF TaskPhases, Early, SettleChange
<1>3. p = "settle" => t.todo \ {c} # {}
  BY DEF SettleChange
<1>4. /\ u.phase = p /\ u.members = t.members /\ u.beats = t.beats /\ u.left = t.left
      /\ u.outcome = t.outcome /\ u.todo = t.todo \ {c} /\ u.closable = K
  BY <1>1
<1>5. TaskShape(u)
  BY <1>1 DEF TaskShape
<1>6. t.members # {} /\ K \subseteq t.members
  BY DEF TaskOK, SettleChange
<1> QED
  BY <1>2, <1>3, <1>4, <1>5, <1>6 DEF TaskOK

LEMMA OneTask ==
    ASSUME TasksOK, NEW a \in 1 .. MaxLease, NEW x, TaskIs(a, x), TaskOK(x)
    PROVE  /\ TasksOK' /\ task'[a] = x
           /\ \A b \in 1 .. MaxLease : b # a => task'[b] = task[b]
<1>1. /\ task'[a] = x /\ \A b \in 1 .. MaxLease : b # a => task'[b] = task[b]
      /\ task' = [b \in 1 .. MaxLease |-> task'[b]]
  BY DEF TasksOK, TaskIs
<1>2. ASSUME NEW b \in 1 .. MaxLease PROVE TaskOK(task'[b])
  <2>1. CASE b = a
    BY <1>1, <2>1
  <2>2. CASE b # a
    BY <1>1, <2>2 DEF TasksOK
  <2> QED
    BY <2>1, <2>2
<1> QED
  BY <1>1, <1>2 DEF TasksOK

-----------------------------------------------------------------------------
(* The steps of a task.                                                     *)

LEMMA GoneTask ==
    ASSUME TasksOK, NEW a \in 1 .. MaxLease, TaskEnds(a)
    PROVE  MovesTask(a) /\ Unsettled(task'[a]) = {}
  BY NoTaskOK, OneTask DEF TaskEnds, MovesTask, TaskMoved, TaskGone, TaskSame

LEMMA RunningTask ==
    ASSUME TasksOK, NEW a \in 1 .. MaxLease, NEW u, TaskIs(a, u), TaskOK(u),
           task[a].phase \in Early, u.phase \in Early, u.members = task[a].members
    PROVE  MovesTask(a)
  BY OneTask DEF MovesTask, TaskMoved, TaskRuns, TaskSame

LEMMA EndedTask ==
    ASSUME TasksOK, NEW a \in 1 .. MaxLease, task[a].phase \in {"validate", "cli"},
           NEW o \in Outcomes \ {"none"}, TaskIs(a, Ended(a, o))
    PROVE  MovesTask(a)
<1>1. TaskOK(task[a])
  BY DEF TasksOK
<1>2. PICK u : u = Ended(a, o)
  OBVIOUS
<1>3. TaskIs(a, u)
  BY <1>2
<1>4. /\ TaskOK(u) /\ u.phase = "settle" /\ u.members = task[a].members
      /\ u.todo = task[a].members /\ u.closable = {} /\ u.outcome = o
  BY <1>1, <1>2, EndedRow, SMT
<1>5. /\ TasksOK' /\ task'[a] = u
      /\ \A b \in 1 .. MaxLease : b # a => task'[b] = task[b]
  BY <1>3, <1>4, OneTask
<1>6. task[a].phase \in Early
  BY DEF Early
<1> QED
  BY <1>4, <1>5, <1>6 DEF MovesTask, TaskMoved, TaskEnded, TaskSame

LEMMA StartTaskStep ==
    ASSUME Oldest, MemoryOK, NEW a \in 1 .. MaxLease, StartTask(a)
    PROVE  MovesTask(a) /\ TaskWrite(a)
<1>1. TasksOK /\ TaskOK(task[a]) /\ task[a].phase = "starting"
  BY DEF MemoryOK, TasksOK, StartTask
<1> DEFINE p == Primary(task[a].members)
<1>2. p \in Commands /\ p \in Unsettled(task[a]) /\ task[a].phase \in Early
  BY <1>1, PrimaryOfTask DEF Unsettled, Early
<1>3. MovesTask(a)
  <2>1. CASE TaskEnds(a)
    BY <1>1, <2>1, GoneTask
  <2>2. CASE TaskIs(a, [task[a] EXCEPT !.phase = "validate"])
    <3>1. PICK u : u = [task[a] EXCEPT !.phase = "validate"]
      OBVIOUS
    <3>2. "validate" \in Early
      BY DEF Early
    <3>3. TaskOK(u) /\ u.phase = "validate" /\ u.members = task[a].members
      BY <1>1, <1>2, <3>1, <3>2, PhaseRow
    <3>4. TaskIs(a, u)
      BY <2>2, <3>1
    <3> QED
      BY <1>1, <1>2, <3>2, <3>3, <3>4, RunningTask
  <2> QED
    BY <2>1, <2>2 DEF StartTask, Call
<1>4. UNCHANGED storeVars \/ update_command_status_for_attempt(p, a, "started")
  BY DEF StartTask, Call
<1> HIDE DEF p
<1>5. TaskWrite(a)
  BY <1>2, <1>4 DEF TaskWrite, MarkWrite
<1> QED
  BY <1>3, <1>5

LEMMA HeartbeatStepOf ==
    ASSUME Oldest, MemoryOK, NEW a \in 1 .. MaxLease, HeartbeatStep(a)
    PROVE  MovesTask(a) /\ TaskWrite(a)
<1>1. TasksOK /\ TaskOK(task[a]) /\ task[a].phase \in {"validate", "cli"}
  BY DEF MemoryOK, TasksOK, HeartbeatStep, HeartbeatSession, EndRound, Beating
<1>2. task[a].phase \in Early /\ task[a].phase # "none"
  BY <1>1 DEF Early
<1>3. ASSUME NEW b, NEW l, NEW f, NEW u, TaskIs(a, u), BeatChange(task[a], u, b, l, f)
      PROVE  MovesTask(a)
  <2>1. TaskOK(u) /\ u.phase = task[a].phase /\ u.members = task[a].members
    BY <1>1, <1>2, <1>3, BeatRow, SMT
  <2> QED
    BY <1>1, <1>2, <1>3, <2>1, RunningTask
<1>4. ASSUME NEW s \in Sessions, HeartbeatSession(a, s)
      PROVE  MovesTask(a) /\ TaskWrite(a)
  <2> DEFINE held == DOMAIN task[a].beats
             l == task[a].left \ {s}
             b == [r \in held \ {s} |-> task[a].beats[r]]
  <2>1. l \subseteq held /\ l \subseteq DOMAIN b
    BY <1>1 DEF TaskOK
  <2>2. \/ TaskIs(a, [task[a] EXCEPT !.left = l])
        \/ TaskIs(a, [task[a] EXCEPT !.left = l, !.beats = b])
    BY <1>4 DEF HeartbeatSession, Call
  <2> HIDE DEF l, b
  <2>3. MovesTask(a)
    <3>1. CASE TaskIs(a, [task[a] EXCEPT !.left = l])
      <4>1. PICK u : u = [task[a] EXCEPT !.left = l]
        OBVIOUS
      <4>2. BeatChange(task[a], u, task[a].beats, l, TRUE)
        BY <2>1, <4>1 DEF BeatChange
      <4>3. TaskIs(a, u)
        BY <3>1, <4>1
      <4> QED
        BY <1>3, <4>2, <4>3
    <3>2. CASE TaskIs(a, [task[a] EXCEPT !.left = l, !.beats = b])
      <4>1. PICK u : u = [task[a] EXCEPT !.left = l, !.beats = b]
        OBVIOUS
      <4>2. BeatChange(task[a], u, b, l, TRUE)
        BY <2>1, <4>1 DEF BeatChange
      <4>3. TaskIs(a, u)
        BY <3>2, <4>1
      <4> QED
        BY <1>3, <4>2, <4>3
    <3> QED
      BY <2>2, <3>1, <3>2
  <2>4. UNCHANGED storeVars \/ update_session_heartbeat_for_epoch(s, session[s].epoch)
    BY <1>4 DEF HeartbeatSession, Call
  <2> QED
    BY <2>3, <2>4 DEF TaskWrite, SessionWrite
<1>5. ASSUME EndRound(a)
      PROVE  MovesTask(a) /\ TaskWrite(a)
  <2> DEFINE held == DOMAIN task[a].beats
             p == Primary(task[a].members)
  <2>1. \/ TaskIs(a, [task[a] EXCEPT !.first = FALSE, !.left = held])
        \/ TaskIs(a, [task[a] EXCEPT !.beats = <<>>, !.left = {}])
    BY <1>5 DEF EndRound, Call, NoBeats
  <2>2. MovesTask(a)
    <3>1. CASE TaskIs(a, [task[a] EXCEPT !.first = FALSE, !.left = held])
      <4>1. PICK u : u = [task[a] EXCEPT !.first = FALSE, !.left = held]
        OBVIOUS
      <4>2. BeatChange(task[a], u, task[a].beats, held, FALSE)
        BY <4>1 DEF BeatChange
      <4>3. TaskIs(a, u)
        BY <3>1, <4>1
      <4> QED
        BY <1>3, <4>2, <4>3
    <3>2. CASE TaskIs(a, [task[a] EXCEPT !.beats = <<>>, !.left = {}])
      <4>1. PICK u : u = [task[a] EXCEPT !.beats = <<>>, !.left = {}]
        OBVIOUS
      <4>2. BeatChange(task[a], u, <<>>, {}, TRUE)
        BY <4>1 DEF BeatChange
      <4>3. TaskIs(a, u)
        BY <3>2, <4>1
      <4> QED
        BY <1>3, <4>2, <4>3
    <3> QED
      BY <2>1, <3>1, <3>2
  <2>3. p \in Commands /\ p \in Unsettled(task[a])
    BY <1>1, <1>2, PrimaryOfTask DEF Unsettled
  <2>4. UNCHANGED storeVars \/ update_command_status_for_attempt(p, a, "heartbeating")
    BY <1>5 DEF EndRound, Call
  <2> HIDE DEF p
  <2> QED
    BY <1>2, <2>2, <2>3, <2>4 DEF TaskWrite, MarkWrite
<1> QED
  BY <1>4, <1>5 DEF HeartbeatStep

LEMMA ExecutionStep ==
    ASSUME MemoryOK, NEW a \in 1 .. MaxLease, ValidateEpoch(a) \/ CliEnds(a)
    PROVE  MovesTask(a) /\ TaskWrite(a)
<1>1. TasksOK /\ TaskOK(task[a]) /\ task[a].phase \in {"validate", "cli"}
  BY DEF MemoryOK, TasksOK, ValidateEpoch, CliEnds
<1>2. TaskWrite(a)
  BY DEF TaskWrite, ValidateEpoch, CliEnds, Read
<1>3. \/ TaskIs(a, [task[a] EXCEPT !.phase = "cli"])
      \/ \E o \in Outcomes \ {"none"} : TaskIs(a, Ended(a, o))
  BY DEF ValidateEpoch, CliEnds, Read, Outcomes
<1>4. CASE TaskIs(a, [task[a] EXCEPT !.phase = "cli"])
  <2>1. PICK u : u = [task[a] EXCEPT !.phase = "cli"]
    OBVIOUS
  <2>2. "cli" \in Early /\ task[a].phase \in Early
    BY <1>1 DEF Early
  <2>3. TaskOK(u) /\ u.phase = "cli" /\ u.members = task[a].members
    BY <1>1, <2>1, <2>2, PhaseRow
  <2>4. TaskIs(a, u)
    BY <1>4, <2>1
  <2> QED
    BY <1>1, <1>2, <2>2, <2>3, <2>4, RunningTask
<1> QED
  BY <1>1, <1>2, <1>3, <1>4, EndedTask

\* What settling the row of c leaves of the task.
LEMMA SettledTask ==
    ASSUME TasksOK, NEW a \in 1 .. MaxLease, task[a].phase = "settle", NEW c \in task[a].todo,
           NEW closes \in BOOLEAN, Settled(a, c, closes),
           closes => mark_command_succeeded_for_attempt(c, a),
           /\ faults' = faults /\ task[a].outcome \in {"ok", "empty"}
           /\ c = Primary(task[a].members)
           => mark_command_succeeded_for_attempt(c, a)
    PROVE  MovesTask(a) /\ c \notin Unsettled(task'[a])
<1>1. TaskOK(task[a])
  BY DEF TasksOK
<1> DEFINE K == IF closes THEN task[a].closable \cup {c} ELSE task[a].closable
           p == IF task[a].todo = {c} THEN "send" ELSE "settle"
<1>2. TaskIs(a, [task[a] EXCEPT !.todo = task[a].todo \ {c}, !.closable = K, !.phase = p])
  BY DEF Settled
<1>3. K = task[a].closable \/ (closes /\ K = task[a].closable \cup {c})
  OBVIOUS
<1>4. p = (IF task[a].todo = {c} THEN "send" ELSE "settle")
  OBVIOUS
<1> HIDE DEF K, p
<1>5. PICK u : u = [task[a] EXCEPT !.todo = task[a].todo \ {c}, !.closable = K, !.phase = p]
  OBVIOUS
<1>6. /\ TaskOK(u) /\ u.members = task[a].members /\ u.outcome = task[a].outcome
      /\ u.todo = task[a].todo \ {c} /\ u.closable = K /\ u.phase = p
  <2>1. SettleChange(task[a], u, c, K, p)
    BY <1>3, <1>4, <1>5 DEF SettleChange
  <2> QED
    BY <1>1, <2>1, SettledRow, SMT
<1>7. TaskIs(a, u)
  BY <1>2, <1>5
<1>8. /\ TasksOK' /\ task'[a] = u
      /\ \A b \in 1 .. MaxLease : b # a => task'[b] = task[b]
  BY <1>6, <1>7, OneTask
<1>9. c \notin Unsettled(task'[a])
  BY <1>4, <1>6, <1>8 DEF Unsettled, Early
<1>10. TaskSettles(a)
  BY <1>3, <1>4, <1>6, <1>8 DEF TaskSettles
<1> QED
  BY <1>8, <1>9, <1>10 DEF MovesTask, TaskMoved, TaskSame

LEMMA SettleSucceededStep ==
    ASSUME Oldest, MemoryOK, NEW a \in 1 .. MaxLease, SettleSucceeded(a)
    PROVE  MovesTask(a) /\ TaskWrite(a)
<1>1. /\ TasksOK /\ TaskOK(task[a]) /\ task[a].phase = "settle"
      /\ task[a].outcome \in {"ok", "empty"}
  BY DEF MemoryOK, TasksOK, SettleSucceeded
<1> DEFINE c == Min(task[a].todo)
           p == Primary(task[a].members)
<1>2. c \in task[a].todo /\ c \in Commands
  BY <1>1 DEF Oldest, TaskOK
<1>3. \/ mark_command_succeeded_for_attempt(c, a) /\ Settled(a, c, c # p)
      \/ UNCHANGED <<storeVars, faults>> /\ c = p /\ TaskEnds(a)
      \/ UNCHANGED <<storeVars, faults>> /\ c # p /\ Settled(a, c, FALSE)
      \/ /\ faults' = faults + 1 /\ Settled(a, c, FALSE)
         /\ mark_command_succeeded_for_attempt(c, a) \/ UNCHANGED storeVars
  BY DEF SettleSucceeded, Call
<1>4. faults' = faults + 1 => faults' # faults
  BY SMT DEF MemoryOK
<1> HIDE DEF c, p
<1>5. CASE UNCHANGED <<storeVars, faults>> /\ c = p /\ TaskEnds(a)
  BY <1>1, <1>5, GoneTask DEF TaskWrite
<1>6. CASE mark_command_succeeded_for_attempt(c, a) /\ Settled(a, c, c # p)
  <2>1. MovesTask(a) /\ c \notin Unsettled(task'[a])
    BY <1>1, <1>2, <1>6, SettledTask
  <2> QED
    BY <1>1, <1>2, <1>6, <2>1 DEF TaskWrite, SettleWrite
<1>7. CASE UNCHANGED <<storeVars, faults>> /\ c # p /\ Settled(a, c, FALSE)
  <2>1. MovesTask(a)
    BY <1>1, <1>2, <1>7, SettledTask DEF p
  <2> QED
    BY <1>7, <2>1 DEF TaskWrite
<1>8. CASE /\ faults' = faults + 1 /\ Settled(a, c, FALSE)
           /\ mark_command_succeeded_for_attempt(c, a) \/ UNCHANGED storeVars
  <2>1. MovesTask(a) /\ c \notin Unsettled(task'[a])
    BY <1>1, <1>2, <1>4, <1>8, SettledTask
  <2> QED
    BY <1>1, <1>2, <1>8, <2>1 DEF TaskWrite, SettleWrite
<1> QED
  BY <1>3, <1>5, <1>6, <1>7, <1>8

LEMMA RetriedWithinBudget ==
    ASSUME StoreTypeOK, NEW d \in Commands, NEW o, should_retry_failed_command(d, o)
    PROVE  o = "retriable" /\ cmd[d].count < MaxAttempts
<1>1. cmd[d].count \in Nat
  BY DEF StoreTypeOK, CommandRow
<1> QED
  BY <1>1, SMT DEF should_retry_failed_command, is_exhausted

LEMMA SettleFailedStep ==
    ASSUME Oldest, MemoryOK, StoreTypeOK, NEW a \in 1 .. MaxLease, SettleFailed(a)
    PROVE  MovesTask(a) /\ TaskWrite(a)
<1>1. /\ TasksOK /\ TaskOK(task[a]) /\ task[a].phase = "settle"
      /\ task[a].outcome \in {"retriable", "fatal"}
      /\ task[a].outcome \notin {"ok", "empty"}
  BY DEF MemoryOK, TasksOK, SettleFailed
<1> DEFINE c == Min(task[a].todo)
           p == Primary(task[a].members)
           Write == \/ /\ should_retry_failed_command(c, task[a].outcome)
                       /\ update_command_status_for_attempt(c, a, "retry_scheduled")
                    \/ dead_letter_command_for_attempt(c, a)
<1>2. c \in task[a].todo /\ c \in Commands
  BY <1>1 DEF Oldest, TaskOK
<1>3. /\ Write \/ UNCHANGED storeVars
      /\ Settled(a, c, FALSE) \/ TaskEnds(a)
  BY DEF SettleFailed, Call
<1>4. \A d \in Commands : should_retry_failed_command(d, task[a].outcome)
          => task[a].outcome = "retriable" /\ cmd[d].count < MaxAttempts
  BY RetriedWithinBudget
<1> HIDE DEF c, p
<1>5. MovesTask(a) /\ c \notin Unsettled(task'[a])
  <2>1. CASE TaskEnds(a)
    BY <1>1, <2>1, GoneTask
  <2>2. CASE Settled(a, c, FALSE)
    BY <1>1, <1>2, <2>2, SettledTask
  <2> QED
    BY <1>3, <2>1, <2>2
<1>6. Write => SettleWrite(a, c)
  BY <1>1, <1>2, <1>4, <1>5 DEF SettleWrite
<1> QED
  BY <1>2, <1>3, <1>5, <1>6 DEF TaskWrite

LEMMA SendResultStep ==
    ASSUME Oldest, MemoryOK, NEW a \in 1 .. MaxLease, SendResult(a)
    PROVE  /\ MovesTask(a) /\ TaskWrite(a) /\ TaskGone(a)
           /\ channel' \in Seq(Result) /\ Len(channel') <= ChannelSize
<1>1. TasksOK /\ TaskOK(task[a]) /\ task[a].phase = "send" /\ TaskEnds(a)
  BY DEF MemoryOK, TasksOK, SendResult
<1>2. MovesTask(a) /\ TaskGone(a)
  BY <1>1, NoTaskOK, GoneTask, OneTask DEF TaskEnds, TaskGone
<1>3. TaskWrite(a)
  BY DEF SendResult, TaskWrite
<1> DEFINE r == [attempt |-> a, primary |-> Primary(task[a].members),
                 outcome |-> task[a].outcome, closable |-> task[a].closable]
<1>4. r \in Result
  <2>1. Primary(task[a].members) \in Commands
    BY <1>1, PrimaryOfTask
  <2> QED
    BY <1>1, <2>1 DEF Result, TaskOK
<1>5. channel' = Append(channel, r) /\ Len(channel) < ChannelSize
  BY DEF SendResult
<1> HIDE DEF r
<1>6. channel' \in Seq(Result) /\ Len(channel') = Len(channel) + 1
  BY <1>4, <1>5, SMT DEF MemoryOK
<1>7. Len(channel) \in Nat /\ ChannelSize \in Nat
  BY SMT DEF MemoryOK
<1> QED
  BY <1>2, <1>3, <1>5, <1>6, <1>7, SMTT(30)

-----------------------------------------------------------------------------
(* The steps of the other loops.                                            *)

LEMMA TasksStay ==
    ASSUME TasksOK, UNCHANGED task
    PROVE  AllTasksMove
  BY DEF TasksOK, AllTasksMove, TaskMoved, TaskSame

LEMMA DispatchGroupStep ==
    ASSUME MemoryOK, StoreTypeOK, NEW g \in Agents, DispatchGroup(g)
    PROVE  AllTasksMove /\ (UNCHANGED storeVars \/ LeaseWrite(g)) /\ found' \subseteq found
<1> DEFINE B == {c \in found : AgentOfCommand(c) = g}
           S == {SessionOf[c] : c \in B}
           b == [s \in S |-> session[s].epoch + 1]
           e == session[SessionOf[Primary(B)]].epoch + 1
<1>1. B \in SUBSET Commands /\ B # {} /\ found' = found \ B /\ TasksOK
  BY DEF MemoryOK, DispatchGroup
<1>2. \/ /\ assign_batch_leases(B)
         /\ TaskIs(lease + 1, [NoTask EXCEPT !.phase = "starting", !.members = B,
                                             !.epoch = e, !.beats = b, !.left = S])
      \/ /\ UNCHANGED task
         /\ assign_batch_leases(B) \/ UNCHANGED storeVars
  BY DEF DispatchGroup, Call
<1>3. DOMAIN b = S
  OBVIOUS
<1> HIDE DEF b, e, S
<1>4. LeaseWrite(g) <=> assign_batch_leases(B)
  BY <1>1 DEF LeaseWrite
<1>5. CASE UNCHANGED task /\ (assign_batch_leases(B) \/ UNCHANGED storeVars)
  BY <1>1, <1>4, <1>5, TasksStay
<1>6. CASE /\ assign_batch_leases(B)
           /\ TaskIs(lease + 1, [NoTask EXCEPT !.phase = "starting", !.members = B,
                                               !.epoch = e, !.beats = b, !.left = S])
  <2>1. PICK u : u = [NoTask EXCEPT !.phase = "starting", !.members = B,
                                    !.epoch = e, !.beats = b, !.left = S]
    OBVIOUS
  <2>2. TaskOK(u) /\ u.phase = "starting" /\ u.members = B
    <3>1. StartingTask(u, B, e, b, S)
      BY <2>1 DEF StartingTask
    <3> HIDE DEF B
    <3> QED
      BY <1>1, <1>3, <3>1, StartingRow, SMTT(30)
  <2>3. TaskIs(lease + 1, u)
    BY <1>6, <2>1
  <2>4. lease < MaxLease /\ lease + 1 \in 1 .. MaxLease
    BY <1>6, SMT DEF assign_batch_leases, StoreTypeOK
  <2>5. /\ TasksOK' /\ task'[lease + 1] = u
        /\ \A a \in 1 .. MaxLease : a # lease + 1 => task'[a] = task[a]
    BY <1>1, <2>2, <2>3, <2>4, OneTask
  <2>6. TaskBegins(lease + 1)
    BY <1>1, <1>6, <2>2, <2>4, <2>5 DEF TaskBegins
  <2>7. \A a \in 1 .. MaxLease : TaskMoved(a) \/ TaskBegins(a)
    BY <2>5, <2>6 DEF TaskMoved, TaskSame
  <2> QED
    BY <1>1, <1>4, <1>6, <2>5, <2>7 DEF AllTasksMove
<1> QED
  BY <1>2, <1>5, <1>6

LEMMA FindPendingStep ==
    ASSUME MemoryOK, FindPending
    PROVE  found' \subseteq Commands
  BY DEF FindPending, find_pending_commands, Eligible

LEMMA WriterReceiveStep ==
    ASSUME MemoryOK, WriterReceive
    PROVE  /\ WriterOK' /\ WriterMoved /\ answered' \subseteq Commands /\ UNCHANGED storeVars
           /\ writer.phase = "idle"
<1> DEFINE r == Head(channel)
           covered == {r.primary} \cup r.closable
           new(phase) == [phase |-> phase, attempt |-> r.attempt, primary |-> r.primary,
                          todo |-> covered]
           current == Accepts(r.primary, r.attempt)
<1>1. r \in Result /\ channel # <<>> /\ channel' = Tail(channel)
  BY ReceivedResult
<1>2. covered \in SUBSET Commands /\ covered # {} /\ answered \subseteq Commands
  BY <1>1 DEF Result, MemoryOK
<1>3. \A phase \in {"dedup", "commit"} :
          /\ new(phase) \in WriterRow /\ new(phase).phase = phase
          /\ new(phase).attempt = r.attempt /\ new(phase).primary = r.primary
          /\ new(phase).todo = covered
  BY <1>1, <1>2, SMT DEF Result, WriterRow
<1>4. r.attempt # 0 /\ r.primary \in Commands
  BY <1>1, SMT DEF Result
<1>5. /\ writer.phase = "idle" /\ UNCHANGED storeVars
      /\ \/ UNCHANGED <<writer, answered>>
         \/ writer' = NoResult /\ answered' = answered
         \/ /\ r.outcome \in {"ok", "empty"} /\ current
            /\ writer' = new(IF r.outcome = "empty" THEN "commit" ELSE "dedup")
            /\ answered' = IF r.outcome = "empty" THEN answered \cup covered ELSE answered
  BY DEF WriterReceive, Read
<1> HIDE DEF new, covered, r
<1>6. CASE UNCHANGED <<writer, answered>>
  BY <1>2, <1>5, <1>6 DEF MemoryOK, WriterOK, WriterMoved
<1>7. CASE writer' = NoResult /\ answered' = answered
  BY <1>2, <1>5, <1>7, WriterRows DEF WriterOK, WriterMoved, WriterStops
<1>8. CASE /\ r.outcome \in {"ok", "empty"} /\ current
           /\ writer' = new(IF r.outcome = "empty" THEN "commit" ELSE "dedup")
           /\ answered' = IF r.outcome = "empty" THEN answered \cup covered ELSE answered
  <2>1. PICK phase \in {"dedup", "commit"} :
            /\ phase = (IF r.outcome = "empty" THEN "commit" ELSE "dedup")
            /\ writer' = new(phase)
    BY <1>8
  <2>2. /\ writer' \in WriterRow /\ writer'.phase = phase
        /\ writer'.attempt = r.attempt /\ writer'.primary = r.primary
        /\ writer'.todo = covered
    BY <1>3, <2>1
  <2>3. WriterOK'
    BY <1>2, <1>4, <2>2 DEF WriterOK
  <2>4. WriterTakes
    BY <1>1, <1>5, <1>8, <2>1, <2>2 DEF WriterTakes, r, covered
  <2> QED
    BY <1>2, <1>5, <1>8, <2>3, <2>4 DEF WriterMoved
<1> QED
  BY <1>5, <1>6, <1>7, <1>8

LEMMA WriterCallStep ==
    ASSUME Oldest, MemoryOK, turn_already_committed \/ WriterInsert \/ mark_all_committed
    PROVE  /\ WriterOK' /\ WriterMoved /\ answered' \subseteq Commands /\ WriterWrites
           /\ UNCHANGED channel
<1>1. /\ writer \in WriterRow /\ answered \subseteq Commands /\ writer.phase # "idle"
      /\ writer.primary \in Commands /\ writer.attempt # 0 /\ writer.todo # {}
      /\ writer.todo \in SUBSET Commands
  BY DEF MemoryOK, WriterOK, WriterRow, turn_already_committed, WriterInsert, mark_all_committed
<1>2. UNCHANGED channel
  BY DEF turn_already_committed, WriterInsert, mark_all_committed
<1>3. writer' = NoResult => WriterOK'
  BY WriterRows DEF WriterOK
<1>4. \A p \in {"insert", "commit"} : writer' = [writer EXCEPT !.phase = p] =>
          /\ WriterOK' /\ writer'.phase = p /\ writer'.attempt = writer.attempt
          /\ writer'.primary = writer.primary /\ writer'.todo = writer.todo
  <2> SUFFICES ASSUME NEW p \in {"insert", "commit"}, writer' = [writer EXCEPT !.phase = p]
               PROVE  /\ WriterOK' /\ writer'.phase = p /\ writer'.attempt = writer.attempt
                      /\ writer'.primary = writer.primary /\ writer'.todo = writer.todo
    OBVIOUS
  <2>1. /\ writer' \in WriterRow /\ writer'.phase = p /\ writer'.primary = writer.primary
        /\ writer'.attempt = writer.attempt /\ writer'.todo = writer.todo
    BY <1>1 DEF WriterRow
  <2> QED
    BY <1>1, <2>1 DEF WriterOK
<1>5. CASE turn_already_committed
  <2>1. /\ writer.phase = "dedup" /\ UNCHANGED <<storeVars, answered>>
        /\ \/ writer' = NoResult
           \/ writer' = [writer EXCEPT !.phase = "insert"]
           \/ writer' = [writer EXCEPT !.phase = "commit"] /\ writer.primary \in replied
    BY <1>5 DEF turn_already_committed, Read
  <2> QED
    BY <1>1, <1>2, <1>3, <1>4, <2>1 DEF WriterMoved, WriterStops, WriterAdvances, WriterWrites
<1>6. CASE WriterInsert
  <2> DEFINE p == writer.primary
             Inserted == insert_reply_event(p, writer.attempt)
  <2>1. /\ writer.phase = "insert"
        /\ \/ Inserted /\ writer' = [writer EXCEPT !.phase = "commit"]
           \/ /\ UNCHANGED storeVars /\ Accepts(p, writer.attempt) /\ p \in replied
              /\ writer' = [writer EXCEPT !.phase = "commit"]
           \/ UNCHANGED storeVars /\ writer' = NoResult
           \/ Inserted /\ writer' = NoResult
        /\ answered' = IF p \in replied' \ replied THEN answered \cup writer.todo ELSE answered
    BY <1>6 DEF WriterInsert, Call
  <2>2. Inserted => p \in replied' \ replied
    BY DEF insert_reply_event
  <2>3. UNCHANGED storeVars => p \notin replied' \ replied
    BY DEF storeVars
  <2>4. answered' \subseteq Commands
    BY <1>1, <2>1
  <2> HIDE DEF p
  <2>5. WriterOK'
    BY <1>3, <1>4, <2>1
  <2>6. WriterWrites
    <3>1. writer'.phase # "insert"
      BY <1>4, <2>1, SMT DEF NoResult
    <3> QED
      BY <2>1, <3>1 DEF WriterWrites, ReplyWrite, p
  <2>7. WriterMoved
    <3>1. CASE Inserted /\ writer' = [writer EXCEPT !.phase = "commit"]
      BY <1>4, <2>1, <2>2, <3>1 DEF WriterMoved, WriterAdvances, p
    <3>2. CASE /\ UNCHANGED storeVars /\ Accepts(p, writer.attempt) /\ p \in replied
               /\ writer' = [writer EXCEPT !.phase = "commit"]
      BY <1>4, <2>1, <2>3, <3>2 DEF WriterMoved, WriterAdvances, p
    <3>3. CASE writer' = NoResult /\ UNCHANGED storeVars
      BY <2>1, <2>3, <3>3 DEF WriterMoved, WriterStops
    <3>4. CASE writer' = NoResult /\ Inserted
      BY <2>1, <2>2, <3>4 DEF WriterMoved, WriterStops, p
    <3> QED
      BY <2>1, <3>1, <3>2, <3>3, <3>4
  <2> QED
    BY <1>2, <2>4, <2>5, <2>6, <2>7
<1>7. CASE mark_all_committed
  <2> DEFINE c == IF writer.primary \in writer.todo THEN writer.primary ELSE Min(writer.todo)
  <2>1. c \in writer.todo /\ c \in Commands
    BY <1>1 DEF Oldest
  <2>2. /\ writer.phase = "commit" /\ UNCHANGED answered
        /\ \/ UNCHANGED storeVars
           \/ mark_command_committed_for_attempt(c, writer.attempt)
        /\ \/ writer' = NoResult
           \/ writer' = [writer EXCEPT !.todo = writer.todo \ {c}] /\ writer.todo # {c}
    BY <1>7 DEF mark_all_committed, Call
  <2> HIDE DEF c
  <2>3. WriterWrites
    BY <2>1, <2>2 DEF WriterWrites, CommitWrite
  <2>4. CASE writer' = NoResult
    BY <1>1, <1>2, <1>3, <2>2, <2>3, <2>4 DEF WriterMoved, WriterStops
  <2>5. CASE writer' = [writer EXCEPT !.todo = writer.todo \ {c}] /\ writer.todo # {c}
    <3>1. /\ writer' \in WriterRow /\ writer'.phase = writer.phase
          /\ writer'.attempt = writer.attempt /\ writer'.primary = writer.primary
          /\ writer'.todo = writer.todo \ {c} /\ writer'.todo # {}
      BY <1>1, <2>1, <2>5, WriterRows, SMTT(30)
    <3> QED
      BY <1>1, <1>2, <2>2, <2>3, <3>1 DEF WriterMoved, WriterCommits, WriterOK
  <2> QED
    BY <2>2, <2>4, <2>5
<1> QED
  BY <1>5, <1>6, <1>7

LEMMA MonitorStepOf ==
    ASSUME MemoryOK, StoreTypeOK, MonitorStep
    PROVE  /\ monitor' \subseteq [command : Commands, epoch : Nat]
           /\ UNCHANGED storeVars \/ \E r \in monitor : ExpiryWrite(r)
<1>1. CASE MonitorCheck
  <2>1. \A c \in Commands : session[SessionOf[c]].epoch \in Nat
    BY DEF StoreTypeOK, SessionRow
  <2> QED
    BY <1>1, <2>1, SMT DEF MonitorCheck, check_expired_leases
<1>2. CASE MonitorHandle
  <2>1. PICK r \in monitor :
            /\ monitor' = monitor \ {r}
            /\ UNCHANGED storeVars \/ handle_lease_expiry(r.command, r.epoch)
    BY <1>2 DEF MonitorHandle, Call
  <2> QED
    BY <2>1 DEF MemoryOK, ExpiryWrite
<1> QED
  BY <1>1, <1>2 DEF MonitorStep

LEMMA RetrierRows ==
    ASSUME MemoryOK, NEW T \in SUBSET Commands, NEW L \in SUBSET Commands, RetrierNext(T, L)
    PROVE  /\ retrier' \in RetrierRow /\ retrier'.todo = T /\ retrier'.letter = L
           /\ retrier'.phase \in {retrier.phase, "idle"}
<1>1. retrier \in RetrierRow
  BY DEF MemoryOK
<1>2. CASE T \cup L = {}
  BY <1>2 DEF RetrierNext, NoRetries, RetrierRow
<1>3. CASE T \cup L # {}
  <2>1. retrier' = [retrier EXCEPT !.todo = T, !.letter = L]
    BY <1>3 DEF RetrierNext
  <2> QED
    BY <1>1, <2>1 DEF RetrierRow
<1> QED
  BY <1>2, <1>3

LEMMA RetrierStepOf ==
    ASSUME MemoryOK, RetrierStep
    PROVE  retrier' \in RetrierRow /\ RetrierMoved /\ RetrierWrites
<1>0. retrier \in RetrierRow /\ retrier.todo \in SUBSET Commands
  BY DEF MemoryOK, RetrierRow
<1>1. ASSUME NEW S \in SUBSET Commands,
             find_exhausted_retry_commands(S) \/ find_retriable_commands(S)
      PROVE  retrier' \in RetrierRow /\ RetrierMoved /\ RetrierWrites
  <2>1. /\ retrier.phase = "idle" /\ UNCHANGED storeVars
        /\ \/ /\ retrier' = [phase |-> "exhausted", todo |-> S, letter |-> {}]
              /\ S \subseteq RetryScheduled(TRUE)
           \/ /\ retrier' = [phase |-> "reset", todo |-> S, letter |-> {}]
              /\ S \subseteq RetryScheduled(FALSE)
    BY <1>1 DEF find_exhausted_retry_commands, find_retriable_commands
  <2>2. /\ retrier' \in RetrierRow /\ retrier'.todo = S /\ retrier'.letter = {}
        /\ \/ retrier'.phase = "exhausted" /\ S \subseteq RetryScheduled(TRUE)
           \/ retrier'.phase = "reset" /\ S \subseteq RetryScheduled(FALSE)
    <3>1. ASSUME NEW p \in {"exhausted", "reset"}, NEW r, NEW L \in SUBSET Commands,
                 r = [phase |-> p, todo |-> S, letter |-> L]
          PROVE  r \in RetrierRow /\ r.phase = p /\ r.todo = S /\ r.letter = L
      BY <3>1 DEF RetrierRow
    <3>2. CASE /\ retrier' = [phase |-> "exhausted", todo |-> S, letter |-> {}]
               /\ S \subseteq RetryScheduled(TRUE)
      <4>1. /\ retrier' \in RetrierRow /\ retrier'.todo = S /\ retrier'.letter = {}
            /\ retrier'.phase = "exhausted"
        BY <3>1, <3>2
      <4> QED
        BY <3>2, <4>1
    <3>3. CASE /\ retrier' = [phase |-> "reset", todo |-> S, letter |-> {}]
               /\ S \subseteq RetryScheduled(FALSE)
      <4>1. /\ retrier' \in RetrierRow /\ retrier'.todo = S /\ retrier'.letter = {}
            /\ retrier'.phase = "reset"
        BY <3>1, <3>3
      <4> QED
        BY <3>3, <4>1
    <3> QED
      BY <2>1, <3>2, <3>3
  <2>3. RetrierReads
    BY <2>1, <2>2 DEF RetrierReads
  <2> QED
    BY <2>1, <2>2, <2>3 DEF RetrierMoved, RetrierWrites
<1>2. ASSUME NEW c \in Commands, RetrierExhausted(c)
      PROVE  retrier' \in RetrierRow /\ RetrierMoved /\ RetrierWrites
  <2>1. /\ retrier.phase = "exhausted" /\ c \in retrier.todo /\ retrier.letter = {}
        /\ \/ DeadLetterUnfenced(c) /\ RetrierNext(retrier.todo \ {c}, {c})
           \/ /\ DeadLetterUnfenced(c) \/ UNCHANGED storeVars
              /\ RetrierNext(retrier.todo \ {c}, {})
    BY <1>2 DEF RetrierExhausted, Call
  <2>2. CASE DeadLetterUnfenced(c) /\ RetrierNext(retrier.todo \ {c}, {c})
    <3>1. /\ retrier' \in RetrierRow /\ retrier'.todo = retrier.todo \ {c}
          /\ retrier'.letter = {c} /\ retrier'.phase \in {retrier.phase, "idle"}
      BY <1>0, <2>2, RetrierRows, SMT
    <3> QED
      BY <2>1, <2>2, <3>1 DEF RetrierMoved, RetrierWorks, RetrierWrites, ExhaustedWrite
  <2>3. CASE /\ DeadLetterUnfenced(c) \/ UNCHANGED storeVars
             /\ RetrierNext(retrier.todo \ {c}, {})
    <3>1. /\ retrier' \in RetrierRow /\ retrier'.todo = retrier.todo \ {c}
          /\ retrier'.letter = {} /\ retrier'.phase \in {retrier.phase, "idle"}
      BY <1>0, <2>3, RetrierRows, SMT
    <3> QED
      BY <2>1, <2>3, <3>1 DEF RetrierMoved, RetrierWorks, RetrierWrites, ExhaustedWrite
  <2> QED
    BY <2>1, <2>2, <2>3
<1>3. ASSUME NEW c \in Commands, RetrierLetter(c)
      PROVE  retrier' \in RetrierRow /\ RetrierMoved /\ RetrierWrites
  <2>1. /\ retrier.phase = "exhausted" /\ c \in retrier.letter
        /\ RetrierNext(retrier.todo, {}) /\ (insert_dead_letter(c) \/ UNCHANGED storeVars)
    BY <1>3 DEF RetrierLetter, Call
  <2>2. /\ retrier' \in RetrierRow /\ retrier'.todo = retrier.todo
        /\ retrier'.letter = {} /\ retrier'.phase \in {retrier.phase, "idle"}
    BY <1>0, <2>1, RetrierRows, SMT
  <2> QED
    BY <2>1, <2>2 DEF RetrierMoved, RetrierWorks, RetrierWrites, LetterWrite
<1>4. ASSUME NEW c \in Commands, RetrierReset(c)
      PROVE  retrier' \in RetrierRow /\ RetrierMoved /\ RetrierWrites
  <2>1. /\ retrier.phase = "reset" /\ c \in retrier.todo
        /\ RetrierNext(retrier.todo \ {c}, {}) /\ (ResetToPending(c) \/ UNCHANGED storeVars)
    BY <1>4 DEF RetrierReset, Call
  <2>2. /\ retrier' \in RetrierRow /\ retrier'.todo = retrier.todo \ {c}
        /\ retrier'.letter = {} /\ retrier'.phase \in {retrier.phase, "idle"}
    BY <1>0, <2>1, RetrierRows, SMT
  <2> QED
    BY <2>1, <2>2 DEF RetrierMoved, RetrierWorks, RetrierWrites, ResetWrite
<1> QED
  BY <1>1, <1>2, <1>3, <1>4 DEF RetrierStep

-----------------------------------------------------------------------------
(* Every step.                                                              *)

LEMMA FaultsBounded ==
    ASSUME MemoryOK, Next
    PROVE  crashes' \in 0 .. MaxCrashes /\ faults' \in 0 .. MaxFaults
<1>1. /\ crashes \in 0 .. MaxCrashes /\ faults \in 0 .. MaxFaults
      /\ MaxCrashes \in Nat /\ MaxFaults \in Nat
  BY DEF MemoryOK
<1>2. crashes' = crashes \/ (crashes < MaxCrashes /\ crashes' = crashes + 1)
  BY DEF Next, DispatchStep, FindPending, DispatchGroup, TaskStep, StartTask, ValidateEpoch,
         CliEnds, SettleSucceeded, SettleFailed, SendResult, HeartbeatStep, HeartbeatSession,
         EndRound, WriterStep, WriterReceive, turn_already_committed, WriterInsert,
         mark_all_committed, WriterOthers, MonitorStep, MonitorCheck, MonitorHandle, RetrierStep,
         find_exhausted_retry_commands, find_retriable_commands, RetrierExhausted,
         RetrierLetter, RetrierReset, RetrierSweep, RetrierOthers, Crash, Outside
<1>3. faults' = faults \/ (faults < MaxFaults /\ faults' = faults + 1)
  <2>1. CASE DispatchStep
    BY <2>1 DEF DispatchStep, FindPending, DispatchGroup, Call
  <2>2. CASE \E a \in 1 .. MaxLease : TaskStep(a)
    BY <2>2 DEF TaskStep, StartTask, ValidateEpoch, CliEnds, SettleSucceeded, SettleFailed,
                SendResult, Call, Read
  <2>3. CASE \E a \in 1 .. MaxLease : HeartbeatStep(a)
    BY <2>3 DEF HeartbeatStep, HeartbeatSession, EndRound, Call
  <2>4. CASE WriterStep
    BY <2>4 DEF WriterStep, WriterReceive, turn_already_committed, WriterInsert,
                mark_all_committed, Call, Read
  <2>5. CASE MonitorStep
    BY <2>5 DEF MonitorStep, MonitorCheck, MonitorHandle, Call
  <2>6. CASE RetrierStep \/ \E S \in SUBSET Commands : RetrierSweep(S)
    BY <2>6 DEF RetrierStep, find_exhausted_retry_commands, find_retriable_commands,
                RetrierExhausted, RetrierLetter, RetrierReset, RetrierSweep, Call
  <2>7. CASE Crash \/ Outside
    BY <2>7 DEF Crash, Outside
  <2> QED
    BY <2>1, <2>2, <2>3, <2>4, <2>5, <2>6, <2>7 DEF Next
<1> QED
  BY <1>1, <1>2, <1>3, SMT

LEMMA SameMemory ==
    ASSUME MemoryOK, UNCHANGED <<memory, answered, crashes, faults>>
    PROVE  MemoryOK' /\ MemoryMoves
<1>1. AllTasksMove
  BY TasksStay DEF memory, MemoryOK
<1>2. MemoryOK'
  BY DEF MemoryOK, TasksOK, WriterOK, memory
<1> QED
  BY <1>1, <1>2 DEF MemoryMoves, FoundMoved, ChannelMoved, WriterMoved, MonitorMoved,
                    RetrierMoved, memory

LEMMA EveryPipelineStep ==
    ASSUME Oldest, MemoryOK, StoreTypeOK, [Next]_vars
    PROVE  MemoryOK' /\ MemoryMoves /\ Writes
<1>0. /\ found \subseteq Commands /\ TasksOK /\ WriterOK /\ retrier \in RetrierRow
      /\ channel \in Seq(Result) /\ Len(channel) <= ChannelSize /\ answered \subseteq Commands
      /\ monitor \subseteq [command : Commands, epoch : Nat]
  BY DEF MemoryOK
<1>00. ASSUME Next
       PROVE  crashes' \in 0 .. MaxCrashes /\ faults' \in 0 .. MaxFaults
  BY <1>00, FaultsBounded
<1>a. UNCHANGED task => AllTasksMove
  BY <1>0, TasksStay
<1>b. UNCHANGED writer => WriterOK'
  BY <1>0 DEF WriterOK
<1>c. ASSUME NEW a \in 1 .. MaxLease, MovesTask(a)
      PROVE  AllTasksMove
  BY <1>c DEF MovesTask, AllTasksMove, TaskMoved
<1>d. ASSUME NEW a \in 1 .. MaxLease, TaskWrite(a)
      PROVE  Writes
  BY <1>d DEF TaskWrite, Writes
<1>1. CASE UNCHANGED vars
  <2>1. UNCHANGED <<memory, answered, crashes, faults>> /\ UNCHANGED storeVars
    BY <1>1 DEF vars
  <2> QED
    BY <2>1, SameMemory DEF Writes
<1>2. CASE FindPending
  <2>1. UNCHANGED <<storeVars, task, channel, writer, monitor, retrier, answered, crashes, faults>>
    BY <1>2 DEF FindPending
  <2>2. found' \subseteq Commands
    BY <1>2, FindPendingStep
  <2> QED
    BY <1>0, <1>a, <1>b, <1>2, <2>1, <2>2
    DEF MemoryOK, AllTasksMove, MemoryMoves, FoundMoved, ChannelMoved, WriterMoved,
        MonitorMoved, RetrierMoved, Writes
<1>3. ASSUME NEW g \in Agents, DispatchGroup(g)
      PROVE  MemoryOK' /\ MemoryMoves /\ Writes
  <2>1. UNCHANGED <<channel, writer, monitor, retrier, answered, crashes>>
    BY <1>3 DEF DispatchGroup
  <2>2. AllTasksMove /\ (UNCHANGED storeVars \/ LeaseWrite(g)) /\ found' \subseteq found
    BY <1>3, DispatchGroupStep
  <2>3. faults' \in 0 .. MaxFaults /\ crashes' \in 0 .. MaxCrashes
    BY <1>00, <1>3 DEF Next, DispatchStep
  <2> QED
    BY <1>0, <1>b, <2>1, <2>2, <2>3
    DEF MemoryOK, AllTasksMove, MemoryMoves, FoundMoved, ChannelMoved, WriterMoved,
        MonitorMoved, RetrierMoved, Writes
<1>4. ASSUME NEW a \in 1 .. MaxLease, TaskStep(a) \/ HeartbeatStep(a)
      PROVE  MemoryOK' /\ MemoryMoves /\ Writes
  <2>1. UNCHANGED <<found, writer, monitor, retrier, answered, crashes>>
    BY <1>4 DEF TaskStep, StartTask, ValidateEpoch, CliEnds, SettleSucceeded, SettleFailed,
                SendResult, HeartbeatStep, HeartbeatSession, EndRound
  <2>2. MovesTask(a) /\ TaskWrite(a)
    BY <1>4, StartTaskStep, ExecutionStep, SettleSucceededStep, SettleFailedStep,
       SendResultStep, HeartbeatStepOf DEF TaskStep
  <2>3. faults' \in 0 .. MaxFaults /\ crashes' \in 0 .. MaxCrashes
    BY <1>00, <1>4 DEF Next
  <2>4. UNCHANGED channel \/ SendResult(a)
    BY <1>4 DEF TaskStep, StartTask, ValidateEpoch, CliEnds, SettleSucceeded, SettleFailed,
                HeartbeatStep, HeartbeatSession, EndRound
  <2>5. channel' \in Seq(Result) /\ Len(channel') <= ChannelSize
    BY <1>0, <2>4, SendResultStep
  <2>6. AllTasksMove /\ Writes
    BY <1>c, <1>d, <2>2
  <2> QED
    BY <1>0, <1>b, <2>1, <2>3, <2>4, <2>5, <2>6
    DEF MemoryOK, AllTasksMove, MemoryMoves, FoundMoved, ChannelMoved, WriterMoved,
        MonitorMoved, RetrierMoved
<1>5. ASSUME WriterStep
      PROVE  MemoryOK' /\ MemoryMoves /\ Writes
  <2>1. UNCHANGED <<found, task, monitor, retrier, crashes>>
    BY <1>5 DEF WriterStep, WriterReceive, turn_already_committed, WriterInsert,
                mark_all_committed, WriterOthers
  <2>2. faults' \in 0 .. MaxFaults /\ crashes' \in 0 .. MaxCrashes
    BY <1>00, <1>5 DEF Next
  <2>3. /\ WriterOK' /\ WriterMoved /\ answered' \subseteq Commands /\ WriterWrites
        /\ UNCHANGED channel \/ WriterReceive
    BY <1>5, WriterReceiveStep, WriterCallStep DEF WriterStep, WriterWrites
  <2>4. channel' \in Seq(Result) /\ Len(channel') <= ChannelSize
    BY <1>0, <2>3, ReceivedResult
  <2>5. Writes
    BY <2>3 DEF Writes, WriterWrites
  <2> QED
    BY <1>0, <1>a, <2>1, <2>2, <2>3, <2>4, <2>5
    DEF MemoryOK, AllTasksMove, MemoryMoves, FoundMoved, ChannelMoved, MonitorMoved, RetrierMoved
<1>6. ASSUME MonitorStep
      PROVE  MemoryOK' /\ MemoryMoves /\ Writes
  <2>1. UNCHANGED <<found, task, channel, writer, retrier, answered, crashes>>
    BY <1>6 DEF MonitorStep, MonitorCheck, MonitorHandle
  <2>2. faults' \in 0 .. MaxFaults /\ crashes' \in 0 .. MaxCrashes
    BY <1>00, <1>6 DEF Next
  <2>3. /\ monitor' \subseteq [command : Commands, epoch : Nat]
        /\ UNCHANGED storeVars \/ \E r \in monitor : ExpiryWrite(r)
    BY <1>6, MonitorStepOf
  <2>4. Writes
    BY <2>3 DEF Writes
  <2> QED
    BY <1>0, <1>a, <1>b, <1>6, <2>1, <2>2, <2>3, <2>4
    DEF MemoryOK, AllTasksMove, MemoryMoves, FoundMoved, ChannelMoved, WriterMoved,
        MonitorMoved, RetrierMoved
<1>7. ASSUME RetrierStep
      PROVE  MemoryOK' /\ MemoryMoves /\ Writes
  <2>1. UNCHANGED <<found, task, channel, writer, monitor, answered, crashes>>
    BY <1>7 DEF RetrierStep, find_exhausted_retry_commands, find_retriable_commands,
                RetrierExhausted, RetrierLetter, RetrierReset, RetrierOthers
  <2>2. faults' \in 0 .. MaxFaults /\ crashes' \in 0 .. MaxCrashes
    BY <1>00, <1>7 DEF Next
  <2>3. retrier' \in RetrierRow /\ RetrierMoved /\ RetrierWrites
    BY <1>7, RetrierStepOf
  <2>4. Writes
    BY <2>3 DEF Writes, RetrierWrites
  <2> QED
    BY <1>0, <1>a, <1>b, <2>1, <2>2, <2>3, <2>4
    DEF MemoryOK, AllTasksMove, MemoryMoves, FoundMoved, ChannelMoved, WriterMoved, MonitorMoved
<1>8. ASSUME NEW S \in SUBSET Commands, RetrierSweep(S)
      PROVE  MemoryOK' /\ MemoryMoves /\ Writes
  <2>1. UNCHANGED <<memory, answered, crashes, faults>>
        /\ dead_letter_stale_pending_commands(S)
    BY <1>8 DEF RetrierSweep, RetrierOthers, memory
  <2> QED
    BY <2>1, SameMemory DEF Writes
<1>9. ASSUME Crash
      PROVE  MemoryOK' /\ MemoryMoves /\ Writes
  <2>1. /\ found' = {} /\ channel' = <<>> /\ writer' = NoResult /\ monitor' = {}
        /\ retrier' = NoRetries /\ UNCHANGED <<storeVars, answered, faults>>
        /\ task' = [a \in 1 .. MaxLease |-> NoTask]
    BY <1>9 DEF Crash
  <2>2. faults' \in 0 .. MaxFaults /\ crashes' \in 0 .. MaxCrashes
    BY <1>00, <1>9 DEF Next
  <2>3. AllTasksMove
    BY <2>1, NoTaskOK DEF AllTasksMove, TasksOK, TaskMoved, TaskGone
  <2>4. WriterOK'
    BY <2>1, WriterRows DEF WriterOK
  <2>5. channel' \in Seq(Result) /\ Len(channel') <= ChannelSize
    BY <2>1, SMT
  <2>6. retrier' \in RetrierRow
    BY <2>1 DEF NoRetries, RetrierRow
  <2>7. WriterMoved
    BY <2>1 DEF WriterMoved, WriterStops
  <2> QED
    BY <1>0, <1>9, <2>1, <2>2, <2>3, <2>4, <2>5, <2>6, <2>7
    DEF MemoryOK, AllTasksMove, MemoryMoves, FoundMoved, ChannelMoved,
        MonitorMoved, RetrierMoved, Writes
<1>10. ASSUME Outside
       PROVE  MemoryOK' /\ MemoryMoves /\ Writes
  <2>1. UNCHANGED <<memory, answered, crashes, faults>>
    BY <1>10 DEF Outside
  <2>2. Writes
    BY <1>10 DEF Outside, Writes, SessionWrite
  <2> QED
    BY <2>1, <2>2, SameMemory
<1> QED
  BY <1>1, <1>2, <1>3, <1>4, <1>5, <1>6, <1>7, <1>8, <1>9, <1>10 DEF Next, DispatchStep
=============================================================================
