--------------------------- MODULE PipelineTables ---------------------------
(* What every write does to the rows of the tables, that it is a            *)
(* transaction of the store, and that what the loops hold in memory stays   *)
(* true of the tables as long as the fence accepts it.                      *)
EXTENDS PipelineSteps

USE CommandsAssumption, KeysAssumption, BoundsAssumption, PipelineAssumption

\* Zenon proves a leaf that does not ask for another prover.
USE ZenonT(30)

-----------------------------------------------------------------------------
(* The transactions as changes of rows.                                     *)

LEMMA SweepChange ==
    ASSUME StoreTypeOK, NEW S \in SUBSET Commands, dead_letter_stale_pending_commands(S)
    PROVE  /\ \A c \in S : cmd[c].status = "pending" /\ Sets(c, "dead_letter", cmd[c].attempt)
           /\ \A c \in Commands \ S : Untouched(c)
           /\ SameLetters
<1>1. /\ \A c \in S : cmd[c].status = "pending"
      /\ UNCHANGED letters
      /\ cmd' = [c \in Commands |->
             IF c \in S THEN [cmd[c] EXCEPT !.status = "dead_letter"] ELSE cmd[c]]
  BY DEF dead_letter_stale_pending_commands, BatchIsPending
<1>2. ASSUME NEW c \in S PROVE Sets(c, "dead_letter", cmd[c].attempt)
  BY <1>1, SMT DEF Sets, StoreTypeOK, CommandRow
<1> QED
  BY <1>1, <1>2 DEF Untouched, SameLetters

LEMMA RetirementChange ==
    ASSUME StoreTypeOK, NEW g \in Agents, request_account_retirement(g)
    PROVE  g \in Accounted /\ \A c \in Commands : Untouched(c) \/ Retired(c)
<1>1. /\ g \in Accounted /\ UNCHANGED letters
      /\ cmd' = [c \in Commands |->
             IF AgentOfCommand(c) # g THEN cmd[c]
             ELSE IF cmd[c].status \in {"pending", "retry_scheduled"}
             THEN [cmd[c] EXCEPT !.status = "dead_letter"]
             ELSE IF cmd[c].status \in Active
             THEN [cmd[c] EXCEPT !.max = IF cmd[c].count > 1 THEN cmd[c].count ELSE 1]
             ELSE cmd[c]]
  BY DEF request_account_retirement
<1>2. ASSUME NEW c \in Commands PROVE Untouched(c) \/ Retired(c)
  <2> DEFINE m == IF cmd[c].count > 1 THEN cmd[c].count ELSE 1
  <2>1. \/ cmd'[c] = cmd[c]
        \/ /\ AgentOfCommand(c) = g /\ cmd[c].status \in {"pending", "retry_scheduled"}
           /\ cmd'[c] = [cmd[c] EXCEPT !.status = "dead_letter"]
        \/ /\ AgentOfCommand(c) = g /\ cmd[c].status \in Active
           /\ cmd'[c] = [cmd[c] EXCEPT !.max = m]
    BY <1>1
  <2>2. m = IF cmd[c].count > 1 THEN cmd[c].count ELSE 1
    OBVIOUS
  <2> HIDE DEF m
  <2>3. CASE cmd'[c] = cmd[c]
    BY <1>1, <2>3 DEF Untouched
  <2>4. CASE /\ AgentOfCommand(c) = g /\ cmd[c].status \in {"pending", "retry_scheduled"}
             /\ cmd'[c] = [cmd[c] EXCEPT !.status = "dead_letter"]
    <3>1. Sets(c, "dead_letter", cmd[c].attempt)
      BY <2>4, SMT DEF Sets, StoreTypeOK, CommandRow
    <3> QED
      BY <1>1, <2>4, <3>1 DEF Retired
  <2>5. CASE /\ AgentOfCommand(c) = g /\ cmd[c].status \in Active
             /\ cmd'[c] = [cmd[c] EXCEPT !.max = m]
    <3>1. /\ cmd'[c].status = cmd[c].status /\ cmd'[c].attempt = cmd[c].attempt
          /\ cmd'[c].epoch = cmd[c].epoch /\ cmd'[c].count = cmd[c].count /\ cmd'[c].max = m
      BY <2>5, SMT DEF StoreTypeOK, CommandRow
    <3> QED
      BY <1>1, <2>2, <2>5, <3>1 DEF Retired
  <2> QED
    BY <2>1, <2>3, <2>4, <2>5
<1> QED
  BY <1>1, <1>2

-----------------------------------------------------------------------------
(* What a step changes in the command table, and on whose behalf.           *)

LEMMA OnlyOne ==
    ASSUME NEW c \in Commands, NEW st, NEW at, Only(c, st, at),
           SameLetters \/ NewLetter(c)
    PROVE  /\ Sets(c, st, at) /\ \A d \in Commands \ {c} : Untouched(d)
           /\ SameLetters => letters'[c] = letters[c]
           /\ NewLetter(c) => letters'[c] = letters[c] + 1
  BY DEF Only, SameLetters, NewLetter, Untouched

LEMMA TaskWriteChange ==
    ASSUME StoreTypeOK, NEW a \in 1 .. MaxLease, NEW c \in Commands,
           MarkWrite(a, c) \/ SettleWrite(a, c)
    PROVE  OneChange(c) /\ \A d \in Commands \ {c} : Untouched(d)
<1>0. {"started", "heartbeating", "retry_scheduled"} \subseteq CommandStatus
  BY DEF CommandStatus, Open, Active
<1>1. CASE MarkWrite(a, c)
  <2>1. PICK st \in {"started", "heartbeating"} :
            Accepts(c, a) /\ Only(c, st, cmd[c].attempt) /\ SameLetters
    BY <1>0, <1>1, FencedChange DEF MarkWrite
  <2>2. Kept(c, st) /\ \A d \in Commands \ {c} : Untouched(d)
    BY <2>1, OnlyOne DEF Kept
  <2>3. Marked(c, a)
    BY <1>1, <2>1, <2>2 DEF MarkWrite, Marked
  <2> QED
    BY <2>2, <2>3 DEF OneChange
<1>2. CASE SettleWrite(a, c)
  <2>1. Accepts(c, a)
    BY <1>0, <1>2, FencedChange DEF SettleWrite
  <2>2. CASE task[a].outcome \in {"ok", "empty"} /\ mark_command_succeeded_for_attempt(c, a)
    <3>1. /\ cmd[c].status \in Active /\ Only(c, "succeeded", cmd[c].attempt) /\ SameLetters
      BY <2>2, FencedChange
    <3>2. Kept(c, "succeeded") /\ \A d \in Commands \ {c} : Untouched(d)
      BY <3>1, OnlyOne DEF Kept
    <3>3. SettledNow(c, a)
      BY <1>2, <2>1, <2>2, <3>1, <3>2 DEF SettleWrite, SettledNow
    <3> QED
      BY <3>2, <3>3 DEF OneChange
  <2>3. CASE /\ task[a].outcome = "retriable" /\ cmd[c].count < MaxAttempts
             /\ update_command_status_for_attempt(c, a, "retry_scheduled")
    <3>1. Only(c, "retry_scheduled", cmd[c].attempt) /\ SameLetters
      BY <1>0, <2>3, FencedChange
    <3>2. Kept(c, "retry_scheduled") /\ \A d \in Commands \ {c} : Untouched(d)
      BY <3>1, OnlyOne DEF Kept
    <3>3. SettledNow(c, a)
      BY <1>2, <2>1, <2>3, <3>2 DEF SettleWrite, SettledNow
    <3> QED
      BY <3>2, <3>3 DEF OneChange
  <2>4. CASE task[a].outcome \in {"retriable", "fatal"} /\ dead_letter_command_for_attempt(c, a)
    <3>1. Only(c, "dead_letter", 0) /\ NewLetter(c)
      BY <2>4, FencedChange
    <3>2. Buried(c) /\ \A d \in Commands \ {c} : Untouched(d)
      BY <3>1, OnlyOne DEF Buried
    <3>3. SettledNow(c, a)
      BY <1>2, <2>1, <2>4, <3>2 DEF SettleWrite, SettledNow
    <3> QED
      BY <3>2, <3>3 DEF OneChange
  <2> QED
    BY <1>2, <2>2, <2>3, <2>4 DEF SettleWrite
<1> QED
  BY <1>1, <1>2

LEMMA EveryChange ==
    ASSUME StoreTypeOK, MemoryOK, Writes
    PROVE  TableChanges
<1>1. CASE \/ UNCHANGED storeVars
           \/ \E s \in Sessions : SessionWrite(s)
           \/ \E g \in Agents : finish_account_retirement(g)
           \/ ReplyWrite
  <2>1. UNCHANGED <<cmd, letters>>
    BY <1>1 DEF storeVars, SessionWrite, upsert_session, Age, update_session_heartbeat_for_epoch,
                finish_account_retirement, ReplyWrite, insert_reply_event
  <2> QED
    BY <2>1 DEF TableChanges, Untouched
<1>2. ASSUME NEW g \in Agents, LeaseWrite(g)
      PROVE  TableChanges
  <2>1. FoundOf(g) \in SUBSET Commands
    BY DEF FoundOf, MemoryOK
  <2>2. assign_batch_leases(FoundOf(g)) /\ found' = found \ FoundOf(g)
    BY <1>2 DEF LeaseWrite, FoundOf
  <2> QED
    BY <2>1, <2>2, LeaseChange DEF TableChanges
<1>3. CASE \E g \in Agents : request_account_retirement(g)
  BY <1>3, RetirementChange DEF TableChanges
<1>4. CASE \E a \in 1 .. MaxLease, c \in Commands : MarkWrite(a, c) \/ SettleWrite(a, c)
  BY <1>4, TaskWriteChange DEF TableChanges
<1>5. ASSUME NEW r \in monitor, ExpiryWrite(r)
      PROVE  TableChanges
  <2>1. PICK c \in Commands : c = r.command
    BY DEF MemoryOK
  <2>2. /\ cmd[c].status \in Active
        /\ \/ cmd[c].count >= cmd[c].max /\ Only(c, "dead_letter", 0) /\ NewLetter(c)
           \/ cmd[c].count < cmd[c].max /\ Only(c, "retry_scheduled", 0) /\ SameLetters
    BY <1>5, <2>1, ExpiryChange DEF ExpiryWrite
  <2>3. ExpiredNow(c) /\ \A d \in Commands \ {c} : Untouched(d)
    BY <2>2, OnlyOne DEF ExpiredNow, Buried, Released
  <2> QED
    BY <2>3 DEF TableChanges, OneChange
<1>6. ASSUME NEW c \in Commands, insert_command(c)
      PROVE  TableChanges
  <2>1. Arrives(c) /\ \A d \in Commands \ {c} : Untouched(d)
    BY <1>6, SchedulerChange, OnlyOne DEF Arrives, Kept
  <2> QED
    BY <2>1 DEF TableChanges, OneChange
<1>7. ASSUME NEW c \in Commands, CommitWrite(c)
      PROVE  TableChanges
  <2>1. Accepts(c, writer.attempt) /\ Only(c, "committed", 0) /\ SameLetters
    BY <1>7, FencedChange DEF CommitWrite
  <2>2. Released(c, "committed") /\ \A d \in Commands \ {c} : Untouched(d)
    BY <2>1, OnlyOne DEF Released
  <2>3. CommittedNow(c)
    BY <1>7, <2>1, <2>2 DEF CommitWrite, CommittedNow
  <2> QED
    BY <2>2, <2>3 DEF TableChanges, OneChange
<1>8. ASSUME NEW c \in Commands, ExhaustedWrite(c)
      PROVE  TableChanges
  <2>1. GivenUpNow(c) /\ \A d \in Commands \ {c} : Untouched(d)
    BY <1>8, SchedulerChange, OnlyOne DEF ExhaustedWrite, GivenUpNow, Kept
  <2> QED
    BY <2>1 DEF TableChanges, OneChange
<1>9. ASSUME NEW c \in Commands, LetterWrite(c)
      PROVE  TableChanges
  <2>1. LetteredNow(c) /\ \A d \in Commands \ {c} : Untouched(d)
    BY <1>9, SchedulerChange DEF LetterWrite, LetteredNow, NewLetter, Untouched
  <2> QED
    BY <2>1 DEF TableChanges, OneChange
<1>10. ASSUME NEW c \in Commands, ResetWrite(c)
       PROVE  TableChanges
  <2>1. ResetNow(c) /\ \A d \in Commands \ {c} : Untouched(d)
    BY <1>10, SchedulerChange, OnlyOne DEF ResetWrite, ResetNow, Kept
  <2> QED
    BY <2>1 DEF TableChanges, OneChange
<1>11. ASSUME NEW S \in SUBSET Commands, dead_letter_stale_pending_commands(S)
       PROVE  TableChanges
  <2>1. /\ \A c \in S : Swept(c)
        /\ \A c \in Commands \ S : Untouched(c)
    BY <1>11, SweepChange DEF Swept, Kept, SameLetters
  <2> QED
    BY <2>1 DEF TableChanges
<1> QED
  BY <1>1, <1>2, <1>3, <1>4, <1>5, <1>6, <1>7, <1>8, <1>9, <1>10, <1>11 DEF Writes

-----------------------------------------------------------------------------
(* Every write is a transaction of the store.  The one reservation is the   *)
(* letter the retry scheduler writes by itself, which SessionStore bounds.  *)

LEMMA IssuedAttempt ==
    ASSUME StoreInv, NEW c \in Commands, NEW a, a \in 0 .. MaxLease, Accepts(c, a)
    PROVE  a \in Attempts
  BY SMT DEF StoreInv, StoreTypeOK, CommandRow, EpochsIssued, Accepts, Attempts

LEMMA WritesAreTransactions ==
    ASSUME StoreInv, MemoryOK, Writes
    PROVE  [StoreNext]_storeVars \/ \E c \in Commands : LetterWrite(c)
<1>0. StoreTypeOK /\ EpochsIssued
  BY DEF StoreInv
<1>1. CASE \E s \in Sessions : SessionWrite(s)
  <2>1. \A s \in Sessions : session[s].epoch \in Epochs
    BY <1>0, SMT DEF Epochs, StoreTypeOK, SessionRow
  <2> QED
    BY <1>1, <2>1 DEF SessionWrite, StoreNext
<1>2. ASSUME NEW g \in Agents, LeaseWrite(g)
      PROVE  StoreNext
  <2>1. FoundOf(g) \in SUBSET Commands /\ assign_batch_leases(FoundOf(g))
    BY <1>2 DEF FoundOf, MemoryOK, LeaseWrite
  <2> QED
    BY <2>1 DEF StoreNext
<1>3. CASE \E g \in Agents : request_account_retirement(g) \/ finish_account_retirement(g)
  BY <1>3 DEF StoreNext, AdminWrite
<1>4. ASSUME NEW a \in 1 .. MaxLease, NEW c \in Commands, MarkWrite(a, c) \/ SettleWrite(a, c)
      PROVE  StoreNext
  <2>1. FencedWrite(c, a) /\ Accepts(c, a)
    BY <1>4 DEF MarkWrite, SettleWrite, FencedWrite, update_command_status_for_attempt,
                mark_command_succeeded_for_attempt, dead_letter_command_for_attempt
  <2>2. a \in Attempts
    BY <2>1, IssuedAttempt, SMT
  <2> QED
    BY <2>1, <2>2 DEF StoreNext
<1>5. ASSUME NEW c \in Commands, NEW a, a = writer.attempt, a \in 0 .. MaxLease,
             mark_command_committed_for_attempt(c, a) \/ insert_reply_event(c, a)
      PROVE  StoreNext
  <2>1. FencedWrite(c, a) /\ Accepts(c, a)
    BY <1>5 DEF FencedWrite, mark_command_committed_for_attempt, insert_reply_event
  <2>2. a \in Attempts
    BY <1>5, <2>1, IssuedAttempt
  <2> QED
    BY <2>1, <2>2 DEF StoreNext
<1>6. CASE ReplyWrite \/ \E c \in Commands : CommitWrite(c)
  <2>1. writer.attempt \in 0 .. MaxLease
        /\ (writer.phase # "idle" => writer.primary \in Commands)
    BY DEF MemoryOK, WriterOK, WriterRow
  <2> QED
    BY <1>5, <1>6, <2>1 DEF ReplyWrite, CommitWrite
<1>7. ASSUME NEW r \in monitor, ExpiryWrite(r)
      PROVE  StoreNext
  <2>1. PICK c \in Commands : c = r.command
    BY DEF MemoryOK
  <2>2. handle_lease_expiry(c, r.epoch) /\ cmd[c].epoch = r.epoch
    BY <1>7, <2>1 DEF ExpiryWrite, handle_lease_expiry, Expires
  <2>3. cmd[c].epoch \in 0 .. session[SessionOf[c]].epoch /\ SessionOf[c] \in Sessions
    BY <1>0, SMT DEF EpochsIssued, StoreTypeOK, CommandRow, SessionRow
  <2>4. r.epoch \in Epochs
    BY <2>2, <2>3 DEF Epochs
  <2> QED
    BY <2>2, <2>4 DEF StoreNext
<1>8. ASSUME NEW c \in Commands, insert_command(c) \/ ExhaustedWrite(c) \/ ResetWrite(c)
      PROVE  StoreNext
  BY <1>8 DEF StoreNext, SchedulerWrite, ExhaustedWrite, ResetWrite
<1>9. CASE \E S \in SUBSET Commands : dead_letter_stale_pending_commands(S)
  BY <1>9 DEF StoreNext
<1> QED
  BY <1>1, <1>2, <1>3, <1>4, <1>6, <1>7, <1>8, <1>9 DEF Writes

LEMMA LetterTransaction ==
    ASSUME NEW c \in Commands, LetterWrite(c), LettersLeft
    PROVE  StoreNext
  BY DEF LetterWrite, LettersLeft, StoreNext, SchedulerWrite

LEMMA StoreStepOf ==
    ASSUME StoreInv, MemoryOK, Writes
    PROVE  StoreInv' /\ StepShape
<1>0. StoreTypeOK
  BY DEF StoreInv
<1>1. StoreTypeOK' /\ StepShape
  <2>1. CASE [StoreNext]_storeVars
    BY <1>0, <2>1, EveryStep
  <2>2. ASSUME NEW c \in Commands, LetterWrite(c)
        PROVE  StoreTypeOK' /\ StepShape
    BY <1>0, <2>2, LetterShape DEF LetterWrite
  <2> QED
    BY <2>1, <2>2, WritesAreTransactions
<1> QED
  BY <1>1, ShapeKeepsInv

-----------------------------------------------------------------------------
(* The core is inductive.                                                   *)

\* What a command keeps over a step, as seen by the holder of attempt a.
LEMMA HoldsOn ==
    ASSUME Core, Steps, NEW c \in Commands, NEW a \in 1 .. MaxLease, a <= lease
    PROVE  /\ cmd[c].status \in Answerable => cmd'[c].status \in Answerable
           /\ Holds(c, a, Active) =>
                  \/ Holds(c, a, Active)'
                  \/ task[a].phase = "settle" /\ c \notin Unsettled(task'[a])
           /\ Holds(c, a, Live) =>
                  \/ Holds(c, a, Live)'
                  \/ task[a].phase = "settle" /\ task[a].outcome = "retriable"
<1>0. LifeStep(c)
  BY EveryLifeStep DEF Steps
<1>1. a # 0 /\ a # lease + 1 /\ a \in Nat
  BY SMT DEF Core, StoreInv, StoreTypeOK
<1>2. CASE Idles(c) \/ Arrives(c)
  BY <1>2 DEF Idles, Arrives, Kept, Sets, Holds, Active, Live, Answerable
<1>3. CASE Starts(c)
  BY <1>1, <1>3 DEF Starts, LeasedNow, Holds, Answerable
<1>4. CASE Runs(c)
  BY <1>4 DEF Runs, Kept, Sets, Holds, Active, Live, Answerable
<1>5. CASE Succeeds(c)
  BY <1>5 DEF Succeeds, Kept, Sets, Holds, Live, Answerable
<1>6. CASE FailsOnce(c)
  BY <1>6 DEF FailsOnce, Kept, Sets, Holds, Active, Answerable
<1>7. CASE IsLost(c) \/ Commits(c)
  BY <1>1, <1>7 DEF IsLost, Commits, Buried, Released, Sets, Holds, Active, Answerable
<1>8. CASE Requeues(c) \/ GivesUp(c)
  BY <1>8 DEF Requeues, GivesUp, ResetNow, GivenUpNow, Kept, Sets, Holds, Waiting, Active,
              Live, Answerable
<1>9. CASE Drops(c)
  BY <1>9 DEF Drops, Kept, Sets, Holds, Active, Live, Answerable
<1> QED
  BY <1>0, <1>2, <1>3, <1>4, <1>5, <1>6, <1>7, <1>8, <1>9 DEF LifeStep

LEMMA LeaseGrows ==
    ASSUME Core, Steps
    PROVE  lease \in Nat /\ lease' \in Nat /\ lease <= lease'
  BY DEF Core, Steps, StoreInv, StoreTypeOK, StepShape

LEMMA TaskSafeStep ==
    ASSUME Core, Steps, NEW a \in 1 .. MaxLease
    PROVE  TaskSafe(a)'
<1>0. /\ TaskSafe(a) /\ TaskOK(task[a]) /\ TaskOK(task'[a]) /\ StoreTypeOK
      /\ TaskMoved(a) \/ TaskBegins(a)
  BY DEF Core, Steps, MemoryOK, TasksOK, MemoryMoves, AllTasksMove, StoreInv
<1>1. CASE task'[a].phase = "none"
  BY <1>1 DEF TaskSafe, Unsettled, Early
<1>2. CASE TaskBegins(a)
  <2>1. /\ a = lease + 1 /\ task'[a].phase = "starting"
        /\ assign_batch_leases(task'[a].members) /\ task'[a].members \subseteq Commands
    BY <1>0, <1>2 DEF TaskBegins, TaskOK
  <2>b. PICK B \in SUBSET Commands : B = task'[a].members /\ assign_batch_leases(B)
    BY <2>1
  <2>l. \A c \in B : LeasedNow(c)
    BY <1>0, <2>b, LeaseChange
  <2>2. \A c \in task'[a].members : cmd'[c].status = "leased" /\ lease' = lease + 1
    BY <2>b, <2>l DEF LeasedNow
  <2>3. task'[a].members # {}
    BY <2>1 DEF assign_batch_leases
  <2>4. a <= lease'
    BY <2>1, <2>2, <2>3, SMT
  <2>5. Unsettled(task'[a]) = task'[a].members
    BY <2>1 DEF Unsettled, Early
  <2>6. \A c \in Unsettled(task'[a]) : Holds(c, a, Active)'
    BY <2>2, <2>5 DEF Holds, Active
  <2> QED
    BY <2>1, <2>4, <2>6 DEF TaskSafe
<1>3. CASE TaskMoved(a) /\ task[a].phase # "none" /\ task'[a].phase # "none"
  <2>0. a <= lease /\ a <= lease'
    BY <1>0, <1>3, LeaseGrows, SMTT(30) DEF TaskSafe
  <2>1. ~TaskGone(a)
    BY <1>3, SMT DEF TaskGone, NoTask
  <2>2. /\ Unsettled(task'[a]) \subseteq Unsettled(task[a])
        /\ task'[a].members = task[a].members
        /\ Unsettled(task[a]) \subseteq Commands
    BY <1>0, <1>3, <2>1 DEF TaskMoved, TaskSame, TaskRuns, TaskEnded, TaskSettles, Unsettled,
                            Early, TaskOK
  <2>3. ASSUME NEW c \in Unsettled(task'[a]) PROVE Holds(c, a, Active)'
    BY <1>0, <2>0, <2>2, <2>3, HoldsOn DEF TaskSafe
  <2>4. ASSUME task'[a].phase \in {"settle", "send"}, NEW c \in task'[a].closable
        PROVE  cmd'[c].status \in Answerable
    <3>1. c \in Commands
      BY <1>0, <2>4 DEF TaskOK
    <3>2. CASE task[a].phase \in {"settle", "send"} /\ c \in task[a].closable
      BY <1>0, <2>0, <3>1, <3>2, HoldsOn DEF TaskSafe
    <3>3. CASE mark_command_succeeded_for_attempt(c, a)
      <4>1. Only(c, "succeeded", cmd[c].attempt)
        BY <1>0, <3>1, <3>3, FencedChange
      <4> QED
        BY <4>1 DEF Only, Sets, Answerable
    <3> QED
      BY <1>0, <1>3, <2>1, <2>4, <3>2, <3>3
         DEF TaskMoved, TaskSame, TaskRuns, TaskEnded, TaskSettles, Early
  <2>5. ASSUME task'[a].phase \in {"settle", "send"}, task'[a].outcome \in {"ok", "empty"},
               NEW c \in task'[a].members
        PROVE  Holds(c, a, Live)'
    <3>1. c \in Commands
      BY <1>0, <2>5 DEF TaskOK
    <3>2. CASE TaskEnded(a)
      BY <2>3, <2>5, <3>2 DEF TaskEnded, Unsettled, Early, Holds, Live
    <3>3. CASE TaskSame(a) \/ TaskSettles(a)
      <4>1. /\ task[a].phase \in {"settle", "send"} /\ task[a].outcome \in {"ok", "empty"}
            /\ c \in task[a].members
        BY <2>2, <2>5, <3>3 DEF TaskSame, TaskSettles
      <4>2. Holds(c, a, Live)
        BY <1>0, <4>1 DEF TaskSafe
      <4> QED
        BY <2>0, <3>1, <4>1, <4>2, HoldsOn
    <3> QED
      BY <1>3, <2>1, <2>5, <3>2, <3>3 DEF TaskMoved, TaskRuns, Early
  <2> QED
    BY <2>0, <2>3, <2>4, <2>5 DEF TaskSafe
<1>4. CASE TaskMoved(a) /\ task[a].phase = "none"
  BY <1>1, <1>4, SMT DEF TaskMoved, TaskSame, TaskGone, TaskRuns, TaskEnded, TaskSettles, NoTask,
                    Early
<1> QED
  BY <1>0, <1>1, <1>2, <1>3, <1>4

LEMMA StaysGone ==
    ASSUME Core, Steps, NEW a \in 1 .. MaxLease, a <= lease, task[a].phase = "none"
    PROVE  task'[a].phase = "none" /\ a <= lease'
<1>1. a # lease + 1 /\ a <= lease'
  BY LeaseGrows, SMT
<1>2. TaskMoved(a)
  BY <1>1 DEF Steps, MemoryMoves, AllTasksMove, TaskBegins
<1> QED
  BY <1>1, <1>2, SMT DEF TaskMoved, TaskSame, TaskGone, TaskRuns, TaskEnded, TaskSettles, NoTask,
                    Early

LEMMA ResultPersists ==
    ASSUME Core, Steps, NEW r \in Result, ResultSafe(r)
    PROVE  ResultSafe(r)'
<1>1. r.attempt \in 1 .. MaxLease /\ r.primary \in Commands /\ r.closable \subseteq Commands
  BY DEF Result
<1>2. r.attempt <= lease /\ task[r.attempt].phase = "none"
  BY DEF ResultSafe
<1>3. r.attempt <= lease' /\ task'[r.attempt].phase = "none"
  BY <1>1, <1>2, StaysGone
<1>4. ASSUME r.outcome \in {"ok", "empty"} PROVE Holds(r.primary, r.attempt, Live)'
  BY <1>1, <1>2, <1>4, HoldsOn DEF ResultSafe
<1>5. ASSUME NEW c \in r.closable PROVE cmd'[c].status \in Answerable
  BY <1>1, <1>2, HoldsOn DEF ResultSafe
<1> QED
  BY <1>3, <1>4, <1>5 DEF ResultSafe

LEMMA SentIsSafe ==
    ASSUME Core, NEW a \in 1 .. MaxLease, NEW r \in Result, Sent(a, r)
    PROVE  ResultSafe(r)'
<1>1. Oldest /\ TaskSafe(a) /\ TaskOK(task[a]) /\ task[a].phase = "send" /\ UNCHANGED <<cmd, lease>>
  BY DEF Core, MemoryOK, TasksOK, Sent, storeVars
<1>2. Primary(task[a].members) \in task[a].members
  BY <1>1, PrimaryOfTask
<1> QED
  BY <1>1, <1>2 DEF Sent, ResultSafe, TaskSafe, Holds

LEMMA ChannelSafeStep ==
    ASSUME Core, Steps
    PROVE  ChannelSafe'
<1>0. MemoryOK /\ MemoryOK' /\ ChannelMoved
  BY DEF Core, Steps, MemoryMoves
<1>1. ASSUME NEW i \in 1 .. Len(channel')
      PROVE  ResultSafe(channel[i])'
  <2>1. PICK r \in Result : r = channel'[i]
    BY <1>0, <1>1, SMTT(30) DEF MemoryOK
  <2>2. ASSUME NEW j \in 1 .. Len(channel), channel'[i] = channel[j]
        PROVE  ResultSafe(r)'
    <3>1. ResultSafe(r)
      BY <2>1, <2>2 DEF Core, ChannelSafe
    <3> QED
      BY <3>1, ResultPersists
  <2>3. ASSUME NEW a \in 1 .. MaxLease, Sent(a, channel'[i])
        PROVE  ResultSafe(r)'
    BY <2>1, <2>3, SentIsSafe
  <2>4. ResultSafe(r)'
    BY <1>0, <1>1, <2>2, <2>3, ChannelOrigin
  <2> QED
    BY <2>1, <2>4 DEF ResultSafe, Holds
<1> QED
  BY <1>1 DEF ChannelSafe

LEMMA WriterSafeStep ==
    ASSUME Core, Steps
    PROVE  WriterSafe'
<1>0. MemoryOK /\ WriterOK /\ WriterMoved /\ WriterSafe /\ StoreTypeOK
  BY DEF Core, Steps, MemoryOK, MemoryMoves, StoreInv
<1>1. ASSUME writer.phase # "idle", writer'.attempt = writer.attempt,
             writer'.primary = writer.primary, writer'.todo \subseteq writer.todo
      PROVE  WriterSafe'
  <2>1. /\ writer.attempt \in 1 .. MaxLease /\ writer.primary \in Commands
        /\ writer.todo \subseteq Commands
    BY <1>0, <1>1, SMT DEF WriterOK, WriterRow
  <2>2. writer.attempt <= lease /\ task[writer.attempt].phase = "none"
    BY <1>0, <1>1 DEF WriterSafe
  <2>3. writer.attempt <= lease' /\ task'[writer.attempt].phase = "none"
    BY <2>1, <2>2, StaysGone
  <2>4. PICK p \in Commands, a \in 1 .. MaxLease : p = writer.primary /\ a = writer.attempt
    BY <2>1
  <2>5. Holds(p, a, Live)'
    BY <1>0, <1>1, <2>2, <2>4, HoldsOn DEF WriterSafe
  <2>6. ASSUME NEW c \in writer'.todo \ {writer.primary} PROVE cmd'[c].status \in Answerable
    BY <1>0, <1>1, <2>1, <2>2, HoldsOn DEF WriterSafe
  <2> QED
    BY <1>1, <2>3, <2>4, <2>5, <2>6 DEF WriterSafe, Holds
<1>2. CASE writer' = writer
  BY <1>1, <1>2 DEF WriterSafe
<1>3. CASE WriterStops
  BY <1>3 DEF WriterStops, NoResult, WriterSafe
<1>4. CASE WriterTakes
  <2>1. channel # <<>> /\ Head(channel) = channel[1] /\ 1 \in 1 .. Len(channel)
    BY <1>0, <1>4, SMT DEF WriterTakes, MemoryOK
  <2>2. PICK r \in Result : r = channel[1]
    BY <1>0, <2>1, ChannelRows
  <2>3. ResultSafe(r)'
    BY <2>1, <2>2, ResultPersists DEF Core, ChannelSafe
  <2>4. /\ writer'.attempt = r.attempt /\ writer'.primary = r.primary
        /\ writer'.todo = {r.primary} \cup r.closable /\ r.outcome \in {"ok", "empty"}
    BY <1>4, <2>1, <2>2 DEF WriterTakes
  <2> QED
    BY <2>3, <2>4 DEF ResultSafe, WriterSafe, Holds
<1>5. CASE WriterAdvances \/ WriterCommits
  BY <1>1, <1>5 DEF WriterAdvances, WriterCommits
<1> QED
  BY <1>0, <1>2, <1>3, <1>4, <1>5 DEF WriterMoved

LEMMA RetrierSafeStep ==
    ASSUME Core, Steps
    PROVE  RetrierSafe' /\ ClosedFree'
<1>0. RetrierSafe /\ StoreTypeOK
  BY DEF Core, StoreInv
<1>1. ASSUME NEW c \in retrier'.todo PROVE cmd'[c].status \in Waiting
  <2>1. CASE c \in retrier.todo
    BY <1>0, <1>1, <2>1, RetrierOrigin, WaitsOn DEF RetrierSafe, ResetNow
  <2>2. CASE cmd[c].status = "retry_scheduled" /\ UNCHANGED storeVars
    BY <2>2 DEF storeVars, Waiting
  <2> QED
    BY <1>1, <2>1, <2>2, RetrierOrigin
<1>2. ASSUME NEW c \in retrier'.letter
      PROVE  cmd'[c].status = "dead_letter" /\ c \notin retrier'.todo
  <2>1. CASE c \in retrier.letter /\ retrier' = retrier
    BY <1>0, <2>1, RetrierOrigin, WaitsOn DEF RetrierSafe, ResetNow
  <2> QED
    BY <1>2, <2>1, RetrierOrigin
<1>3. ClosedFree'
  BY WaitsOn DEF ClosedFree
<1> QED
  BY <1>1, <1>2, <1>3 DEF RetrierSafe
=============================================================================
