------------------------- MODULE PipelineInvariants -------------------------
(* The steps of the invariants beyond the core: one batch per agent, the    *)
(* attempt budget, the life of a command, the reach of the lease monitor    *)
(* and the answers of closed commands.                                      *)
EXTENDS PipelineSteps

USE CommandsAssumption, KeysAssumption, BoundsAssumption, PipelineAssumption

\* Zenon proves a leaf that does not ask for another prover.
USE ZenonT(30)

-----------------------------------------------------------------------------
(* One batch per agent, and no lapping.                                     *)

\* While a command waits in the dispatcher's last find, nothing of its agent
\* runs or waits for a retry: only the dispatcher starts commands, and it
\* drops the whole group it starts.
FoundFree ==
    \A c \in found, d \in Commands :
        AgentOfCommand(c) = AgentOfCommand(d) => cmd[d].status \notin BlockingStatus

LEMMA FoundFreeStep ==
    ASSUME Core, Steps, FoundFree
    PROVE  FoundFree'
<1>0. FoundMoved /\ found \subseteq Commands /\ found' \subseteq Commands
  BY DEF Core, Steps, MemoryMoves, MemoryOK
<1>1. SUFFICES ASSUME NEW c \in found', NEW d \in Commands,
                      AgentOfCommand(c) = AgentOfCommand(d),
                      cmd'[d].status \in BlockingStatus
               PROVE  FALSE
  BY DEF FoundFree, BlockingStatus
<1>2. CASE FindPending
  <2>1. c \in Eligible /\ cmd' = cmd
    BY <1>1, <1>2 DEF FindPending, find_pending_commands, storeVars
  <2> QED
    BY <1>1, <2>1 DEF Eligible, CommandsOfAgent
<1>3. CASE c \in found
  BY <1>0, <1>1, <1>3, BlocksOn DEF FoundFree, Starts
<1> QED
  BY <1>0, <1>1, <1>2, <1>3 DEF FoundMoved

LEMMA OneBatchStep ==
    ASSUME Core, Steps, FoundFree, OneBatchPerAgent
    PROVE  OneBatchPerAgent'
<1>1. SUFFICES ASSUME NEW c \in Commands, NEW d \in Commands,
                      AgentOfCommand(c) = AgentOfCommand(d),
                      cmd'[c].status \in Active, cmd'[d].status \in Active
               PROVE  cmd'[c].attempt = cmd'[d].attempt
  BY DEF OneBatchPerAgent, Active
<1>2. CASE Starts(c) /\ Starts(d)
  BY <1>2 DEF Starts, LeasedNow
<1>3. ~(Starts(c) /\ cmd[d].status \in Active) /\ ~(Starts(d) /\ cmd[c].status \in Active)
  BY <1>1 DEF FoundFree, Starts, BlockingStatus
<1> QED
  BY <1>1, <1>2, <1>3, BlocksOn DEF OneBatchPerAgent

Dispatch == Core /\ FoundFree /\ OneBatchPerAgent

-----------------------------------------------------------------------------
(* The attempt budget, and one letter per dead command.                     *)

\* What may be started again has attempts left.
Budget(c) ==
    /\ cmd[c].count <= cmd[c].max /\ cmd[c].max <= MaxAttempts
    /\ cmd[c].status \in {"absent", "pending"} => cmd[c].count < cmd[c].max
    /\ retrier.phase = "reset" /\ c \in retrier.todo => cmd[c].count < cmd[c].max

\* What has its letter is dead for good: the scheduler does not hold it.
Letter(c) ==
    /\ letters[c] <= 1
    /\ letters[c] = 1 =>
           cmd[c].status = "dead_letter" /\ c \notin retrier.todo \cup retrier.letter

\* Without account removals the scheduler resets only what waits.
ResetWaits ==
    Accounted = {} /\ retrier.phase = "reset" =>
        \A c \in retrier.todo : cmd[c].status = "retry_scheduled"

LEMMA Numbers ==
    ASSUME StoreTypeOK, NEW c \in Commands
    PROVE  cmd[c].count \in Nat /\ cmd[c].max \in Nat /\ letters[c] \in Nat
  BY DEF StoreTypeOK, CommandRow

LEMMA BudgetStep ==
    ASSUME Core, Steps, NEW c \in Commands, Budget(c)
    PROVE  Budget(c)'
<1>0. LifeStep(c) /\ StoreTypeOK /\ RetrierSafe
  BY EveryLifeStep DEF Steps, Core, StoreInv
<1>n. cmd[c].count \in Nat /\ cmd[c].max \in Nat
  BY <1>0, Numbers
<1>m. MaxAttempts \in Nat /\ MaxAttempts >= 1
  BY SMT
<1>1. /\ cmd[c].count \in Nat /\ cmd[c].max \in Nat /\ cmd[c].count <= cmd[c].max
      /\ cmd[c].max <= MaxAttempts /\ MaxAttempts \in Nat /\ MaxAttempts >= 1
  BY <1>n, <1>m DEF Budget
<1>2. ASSUME retrier'.phase = "reset", c \in retrier'.todo
      PROVE  /\ cmd[c].count < cmd[c].max /\ cmd[c].status \in Waiting
             /\ c \in retrier.todo \/ UNCHANGED storeVars
  <2>1. CASE c \in retrier.todo /\ retrier'.phase = retrier.phase
    BY <1>0, <1>2, <2>1 DEF Budget, RetrierSafe
  <2>2. CASE /\ cmd[c].status = "retry_scheduled" /\ UNCHANGED storeVars
             /\ ~is_exhausted(cmd[c].count, cmd[c].max)
    BY <1>1, <2>2, SMT DEF is_exhausted, Waiting
  <2> QED
    BY <1>2, <2>1, <2>2, RetrierOrigin
<1>3. ASSUME cmd'[c].count = cmd[c].count, cmd'[c].max = cmd[c].max,
             cmd'[c].status \in {"absent", "pending"} =>
                 cmd[c].status \in {"absent", "pending"} \/ ResetNow(c)
      PROVE  Budget(c)'
  <2>1. ResetNow(c) => cmd[c].count < cmd[c].max
    BY DEF ResetNow, Budget
  <2> QED
    BY <1>1, <1>2, <1>3, <2>1 DEF Budget
<1>4. CASE Idles(c)
  <2>1. CASE Untouched(c) \/ LetteredNow(c)
    BY <1>3, <2>1 DEF Untouched, LetteredNow
  <2>2. CASE Retired(c) /\ cmd[c].status \in Active
    <3>1. /\ cmd'[c].status = cmd[c].status /\ cmd'[c].count = cmd[c].count
          /\ cmd'[c].max = IF cmd[c].count > 1 THEN cmd[c].count ELSE 1
          /\ cmd[c].status \notin {"absent", "pending", "retry_scheduled", "dead_letter"}
      BY <2>2 DEF Retired, Active
    <3>2. ~(retrier'.phase = "reset" /\ c \in retrier'.todo)
      BY <1>2, <3>1 DEF Waiting
    <3>3. cmd'[c].count <= cmd'[c].max /\ cmd'[c].max <= MaxAttempts
      BY <1>1, <3>1, SMT
    <3> QED
      BY <3>1, <3>2, <3>3 DEF Budget
  <2> QED
    BY <1>4, <2>1, <2>2 DEF Idles
<1>5. CASE Starts(c)
  <2>1. /\ cmd[c].status = "pending" /\ cmd'[c].status = "leased"
        /\ cmd'[c].count = cmd[c].count + 1 /\ cmd'[c].max = cmd[c].max
    BY <1>5 DEF Starts, LeasedNow
  <2>2. ~(retrier'.phase = "reset" /\ c \in retrier'.todo)
    BY <1>2, <2>1 DEF Waiting
  <2>3. cmd[c].count < cmd[c].max
    BY <2>1 DEF Budget
  <2> QED
    BY <1>1, <2>1, <2>2, <2>3, SMT DEF Budget
<1>6. CASE Arrives(c) \/ Runs(c) \/ Succeeds(c) \/ FailsOnce(c)
  <2>1. CASE Runs(c)
    BY <1>3, <2>1 DEF Runs, Kept, Sets, Active
  <2> QED
    BY <1>3, <1>6, <2>1 DEF Arrives, Succeeds, FailsOnce, Kept, Sets
<1>7. CASE IsLost(c) \/ Commits(c)
  BY <1>3, <1>7 DEF IsLost, Commits, Buried, Released, Sets
<1>8. CASE Requeues(c) \/ GivesUp(c) \/ Drops(c)
  BY <1>3, <1>8 DEF Requeues, GivesUp, Drops, ResetNow, GivenUpNow, Kept, Sets
<1> QED
  BY <1>0, <1>4, <1>5, <1>6, <1>7, <1>8 DEF LifeStep

LEMMA LetterStep ==
    ASSUME Core, Steps, NEW c \in Commands, Letter(c)
    PROVE  Letter(c)'
<1>0. LifeStep(c) /\ StoreTypeOK /\ RetrierSafe
  BY EveryLifeStep DEF Steps, Core, StoreInv
<1>1. letters[c] \in Nat /\ letters[c] <= 1
  BY <1>0, Numbers DEF Letter
<1>2. ASSUME c \in retrier'.todo \cup retrier'.letter
      PROVE  \/ c \in retrier.todo \cup retrier.letter
             \/ cmd[c].status = "retry_scheduled" /\ UNCHANGED storeVars
  BY <1>2, RetrierOrigin
<1>3. ASSUME letters'[c] = letters[c] PROVE Letter(c)'
  <2>1. ASSUME letters[c] = 1
        PROVE  cmd'[c].status = "dead_letter" /\ c \notin retrier'.todo \cup retrier'.letter
    <3>1. cmd[c].status = "dead_letter" /\ c \notin retrier.todo \cup retrier.letter
      BY <2>1 DEF Letter
    <3> QED
      BY <1>2, <3>1, WaitsOn DEF ResetNow
  <2> QED
    BY <1>1, <1>3, <2>1 DEF Letter
<1>4. ASSUME Buried(c), cmd[c].status \in Active PROVE Letter(c)'
  <2>1. cmd[c].status # "dead_letter" /\ cmd[c].status \notin Waiting
    BY <1>4 DEF Active, Waiting
  <2>2. letters[c] = 0
    BY <1>1, <2>1, SMT DEF Letter
  <2>3. c \notin retrier'.todo \cup retrier'.letter
    BY <1>0, <1>2, <2>1 DEF RetrierSafe, Waiting
  <2> QED
    BY <1>4, <2>2, <2>3, SMT DEF Buried, Sets, Letter
<1>5. CASE LetteredNow(c)
  <2>1. /\ c \in retrier.letter /\ retrier'.todo \subseteq retrier.todo
        /\ retrier'.letter = {} /\ cmd'[c] = cmd[c] /\ letters'[c] = letters[c] + 1
    BY <1>5 DEF LetteredNow
  <2>2. cmd[c].status = "dead_letter" /\ c \notin retrier.todo /\ letters[c] = 0
    BY <1>0, <1>1, <2>1, SMT DEF RetrierSafe, Letter
  <2> QED
    BY <2>1, <2>2, SMT DEF Letter
<1>6. CASE Idles(c) /\ ~LetteredNow(c)
  BY <1>3, <1>6 DEF Idles, Untouched, Retired
<1>7. CASE Starts(c) \/ Arrives(c) \/ Runs(c) \/ Succeeds(c) \/ FailsOnce(c) \/ Commits(c)
  BY <1>3, <1>7 DEF Starts, LeasedNow, Arrives, Runs, Succeeds, FailsOnce, Commits, Kept,
                    Released
<1>8. CASE IsLost(c)
  BY <1>3, <1>4, <1>8 DEF IsLost, Released
<1>9. CASE Requeues(c) \/ GivesUp(c) \/ Drops(c)
  BY <1>3, <1>9 DEF Requeues, GivesUp, Drops, ResetNow, GivenUpNow, Kept
<1> QED
  BY <1>0, <1>5, <1>6, <1>7, <1>8, <1>9 DEF LifeStep

LEMMA ResetWaitsStep ==
    ASSUME Core, Steps, ResetWaits
    PROVE  ResetWaits'
<1>1. SUFFICES ASSUME Accounted = {}, retrier'.phase = "reset", NEW c \in retrier'.todo
               PROVE  cmd'[c].status = "retry_scheduled"
  BY DEF ResetWaits
<1>2. CASE cmd[c].status = "retry_scheduled" /\ UNCHANGED storeVars
  BY <1>2 DEF storeVars
<1>3. CASE c \in retrier.todo /\ retrier.phase = "reset"
  <2>1. c \in Commands /\ cmd[c].status = "retry_scheduled"
    BY <1>1, <1>3, RetrierOrigin DEF ResetWaits
  <2>2. LifeStep(c)
    BY <2>1, EveryLifeStep DEF Steps
  <2>3. CASE Idles(c)
    BY <2>1, <2>3 DEF Idles
  <2>4. ~Requeues(c) /\ ~GivesUp(c)
    BY <1>1, <1>3 DEF Requeues, ResetNow, GivesUp, GivenUpNow
  <2>5. ~Drops(c)
    BY <1>1, <2>1 DEF Drops, Swept, Retired
  <2>6. /\ ~Arrives(c) /\ ~Starts(c) /\ ~Runs(c) /\ ~Succeeds(c) /\ ~FailsOnce(c)
        /\ ~IsLost(c) /\ ~Commits(c)
    BY <2>1 DEF Arrives, Starts, LeasedNow, Runs, Succeeds, FailsOnce, IsLost, Commits,
                Active, Live
  <2> QED
    BY <2>2, <2>3, <2>4, <2>5, <2>6 DEF LifeStep
<1> QED
  BY <1>1, <1>2, <1>3, RetrierOrigin

Counts == Core /\ ResetWaits /\ \A c \in Commands : Budget(c) /\ Letter(c)

-----------------------------------------------------------------------------
(* The life of a command.                                                   *)

LEMMA LifeOfStatus ==
    /\ LifeOf("absent") = "none" /\ LifeOf("pending") = "waiting"
    /\ LifeOf("retry_scheduled") = "waiting"
    /\ \A st \in Active : LifeOf(st) = "running"
    /\ LifeOf("succeeded") = "answered" /\ LifeOf("committed") = "closed"
    /\ LifeOf("dead_letter") = "dead"
  BY DEF LifeOf, Active

LEMMA LifeMoves ==
    ASSUME NEW S \in SUBSET Commands, NEW from, NEW to,
           \A c \in S : LifeOf(cmd[c].status) \in from /\ LifeOf(cmd'[c].status) = to,
           \A c \in Commands \ S : cmd'[c].status = cmd[c].status
    PROVE  Lifecycle!Moves(S, from, to)
  BY DEF Lifecycle!Moves

LEMMA OneMoves ==
    ASSUME NEW c \in Commands, NEW f, NEW t, LifeOf(cmd[c].status) = f, LifeOf(cmd'[c].status) = t,
           \A d \in Commands \ {c} : cmd'[d].status = cmd[d].status
    PROVE  Lifecycle!Moves({c}, {f}, t)
<1>1. \A d \in {c} : LifeOf(cmd[d].status) \in {f} /\ LifeOf(cmd'[d].status) = t
  OBVIOUS
<1>2. {c} \in SUBSET Commands
  OBVIOUS
<1> QED
  BY <1>1, <1>2, LifeMoves

SameCounts == \A c \in Commands : cmd'[c].count = cmd[c].count

LEMMA SameTries ==
    ASSUME SameCounts
    PROVE  [c \in Commands |-> cmd'[c].count] = [c \in Commands |-> cmd[c].count]
  BY DEF SameCounts

LEMMA LifeStutters ==
    ASSUME SameCounts, \A c \in Commands : LifeOf(cmd'[c].status) = LifeOf(cmd[c].status)
    PROVE  UNCHANGED Lifecycle!lifeVars
  BY SameTries DEF Lifecycle!lifeVars

\* A step that moves one command takes one step of its life.
LEMMA OneLife ==
    ASSUME Counts, Steps, Accounted = {}, NEW c \in Commands, OneChange(c),
           \A d \in Commands \ {c} : Untouched(d)
    PROVE  [Lifecycle!Next]_(Lifecycle!lifeVars)
<1>0. LifeStep(c) /\ Core /\ StoreTypeOK /\ Budget(c)
  BY EveryLifeStep DEF Counts, Steps, Core, StoreInv
<1>1. cmd[c].count \in Nat /\ cmd[c].max \in Nat /\ cmd[c].max <= MaxAttempts /\ MaxAttempts \in Nat
  BY <1>0, Numbers DEF Budget
<1>2. cmd'[c].count = cmd[c].count => SameCounts
  BY DEF SameCounts, Untouched
<1>3. \A d \in Commands \ {c} : cmd'[d].status = cmd[d].status
  BY DEF Untouched
<1>4. ASSUME cmd'[c].count = cmd[c].count, LifeOf(cmd'[c].status) = LifeOf(cmd[c].status)
      PROVE  UNCHANGED Lifecycle!lifeVars
  BY <1>2, <1>3, <1>4, LifeStutters
<1>5. ASSUME NEW from, NEW to, LifeOf(cmd[c].status) \in from, LifeOf(cmd'[c].status) = to
      PROVE  Lifecycle!Moves({c}, from, to)
  BY <1>3, <1>5, LifeMoves
<1>6. cmd'[c].count = cmd[c].count =>
          [d \in Commands |-> cmd'[d].count] = [d \in Commands |-> cmd[d].count]
  BY <1>2, SameTries
<1>7. CASE Idles(c)
  BY <1>4, <1>7 DEF Idles
<1>8. CASE Arrives(c)
  <2>1. Lifecycle!Moves({c}, {"none"}, "waiting") /\ cmd'[c].count = cmd[c].count
    BY <1>5, <1>8, LifeOfStatus, SMT DEF Arrives, Kept, Sets
  <2> QED
    BY <1>6, <2>1 DEF Lifecycle!Next, Lifecycle!Accept
<1>9. ~Starts(c)
  BY <1>0 DEF Starts, LeasedNow, OneChange, Arrives, Marked, SettledNow, CommittedNow, ExpiredNow,
              ResetNow, GivenUpNow, LetteredNow, Kept, Released, Buried, Sets
<1>10. CASE Runs(c)
  <2>1. cmd'[c].count = cmd[c].count /\ cmd[c].status \in Active /\ cmd'[c].status \in Active
    BY <1>10 DEF Runs, Kept, Sets
  <2> QED
    BY <1>4, <2>1, LifeOfStatus
<1>11. CASE Succeeds(c)
  <2>1. Lifecycle!Moves({c}, {"running"}, "answered") /\ cmd'[c].count = cmd[c].count
    <3>1. /\ LifeOf(cmd[c].status) = "running" /\ LifeOf(cmd'[c].status) = "answered"
          /\ cmd'[c].count = cmd[c].count
      BY <1>11, LifeOfStatus DEF Succeeds, Kept, Sets
    <3> QED
      BY <1>3, <3>1, OneMoves
  <2> QED
    BY <1>6, <2>1 DEF Lifecycle!Next, Lifecycle!Answer
<1>12. ASSUME cmd[c].status \in Active, cmd'[c].status = "retry_scheduled",
              cmd'[c].count = cmd[c].count, cmd[c].count < MaxAttempts
       PROVE  Lifecycle!Next
  <2>0. LifeOf(cmd[c].status) = "running" /\ LifeOf(cmd'[c].status) = "waiting"
    BY <1>12, LifeOfStatus
  <2>1. Lifecycle!Moves({c}, {"running"}, "waiting")
    BY <1>3, <2>0, OneMoves
  <2> QED
    BY <1>6, <1>12, <2>1 DEF Lifecycle!Next, Lifecycle!Requeue
<1>13. ASSUME LifeOf(cmd[c].status) \in {"waiting", "running"},
              cmd'[c].status = "dead_letter", cmd'[c].count = cmd[c].count
       PROVE  Lifecycle!Next
  <2>1. Lifecycle!Moves({c}, {"waiting", "running"}, "dead")
    BY <1>5, <1>13, LifeOfStatus, SMT
  <2> QED
    BY <1>6, <1>13, <2>1 DEF Lifecycle!Next, Lifecycle!GiveUp
<1>14. CASE FailsOnce(c)
  BY <1>12, <1>14 DEF FailsOnce, Kept, Sets
<1>15. CASE IsLost(c)
  BY <1>1, <1>12, <1>13, <1>15, LifeOfStatus, SMT DEF IsLost, Released, Buried, Sets
<1>16. CASE Commits(c)
  <2>0. /\ LifeOf(cmd[c].status) \in {"running", "answered"}
        /\ LifeOf(cmd'[c].status) = "closed" /\ cmd'[c].count = cmd[c].count
    BY <1>16, LifeOfStatus DEF Commits, Released, Sets, Live
  <2>1. Lifecycle!Moves({c}, {"running", "answered"}, "closed")
    BY <1>5, <2>0, SMT
  <2> QED
    BY <1>6, <2>0, <2>1 DEF Lifecycle!Next, Lifecycle!Close
<1>17. CASE Requeues(c)
  <2>1. cmd[c].status = "retry_scheduled"
    BY <1>17 DEF Counts, ResetWaits, Requeues, ResetNow
  <2> QED
    BY <1>4, <1>17, <2>1, LifeOfStatus DEF Requeues, ResetNow, Kept, Sets
<1>18. CASE GivesUp(c)
  BY <1>4, <1>13, <1>18, LifeOfStatus DEF GivesUp, GivenUpNow, Kept, Sets, Waiting
<1>19. CASE Drops(c)
  BY <1>13, <1>19, LifeOfStatus DEF Drops, Kept, Sets
<1> QED
  BY <1>0, <1>7, <1>8, <1>9, <1>10, <1>11, <1>14, <1>15, <1>16, <1>17, <1>18, <1>19 DEF LifeStep

-----------------------------------------------------------------------------
(* What a step does to a session.                                           *)

SameLease(s) ==
    session'[s].status = session[s].status /\ session'[s].epoch = session[s].epoch

Registered(s) == session[s].status = "none" /\ session'[s].epoch = session[s].epoch
Idle(s) == \A d \in CommandsOf(s) : cmd'[d].status \notin Active

LeasedAgain(s) ==
    /\ session'[s].status = "active" /\ session'[s].epoch = session[s].epoch + 1
    /\ \E c \in found : SessionOf[c] = s

Fenced(s) == \E r \in monitor :
    ExpiryWrite(r) /\ SessionOf[r.command] = s /\ session[s].epoch = r.epoch

SessionMoved(s) ==
    SameLease(s) \/ Registered(s) \/ Idle(s) \/ LeasedAgain(s) \/ Fenced(s)

LEMMA SessionRowSteps ==
    ASSUME NEW r \in SessionRow, NEW b \in {"null", "fresh", "stale"}
    PROVE  /\ [r EXCEPT !.beat = b].status = r.status /\ [r EXCEPT !.beat = b].epoch = r.epoch
           /\ [r EXCEPT !.status = "idle"].epoch = r.epoch
  BY DEF SessionRow

LEMMA FinishMoves ==
    ASSUME StoreTypeOK, NEW c \in Commands, NEW st, NEW clear, Finish(c, st, clear),
           NEW s \in Sessions
    PROVE  SameLease(s) \/ Idle(s)
<1>1. session' = ReleasedSession(SessionOf[c], cmd[c].epoch, cmd')
  BY DEF Finish
<1>2. CASE session' = session
  BY <1>2 DEF SameLease
<1>3. CASE /\ \A d \in CommandsOf(SessionOf[c]) : cmd'[d].status \notin Active
           /\ session' = [session EXCEPT ![SessionOf[c]].status = "idle",
                                         ![SessionOf[c]].beat = "null"]
  <2>1. CASE s = SessionOf[c]
    BY <1>3, <2>1 DEF Idle
  <2>2. CASE s # SessionOf[c]
    BY <1>3, <2>2 DEF SameLease, StoreTypeOK
  <2> QED
    BY <2>1, <2>2
<1> QED
  BY <1>1, <1>2, <1>3 DEF ReleasedSession

LEMMA EverySession ==
    ASSUME StoreTypeOK, MemoryOK, Writes, NEW s \in Sessions
    PROVE  SessionMoved(s)
<1>0. /\ session[s] \in SessionRow
      /\ \A r \in monitor : r.command \in Commands
      /\ \A a \in 1 .. MaxLease : task[a].todo \subseteq Commands
  BY DEF StoreTypeOK, MemoryOK, TasksOK, TaskOK
<1>1. CASE session' = session
  BY <1>1 DEF SessionMoved, SameLease
<1>2. ASSUME NEW t \in Sessions, SessionWrite(t) PROVE SessionMoved(s)
  <2>1. CASE upsert_session(t)
    <3>1. /\ session[t].status = "none"
          /\ session'[s] = IF s = t THEN [session[s] EXCEPT !.status = "idle"] ELSE session[s]
      BY <2>1 DEF upsert_session, StoreTypeOK
    <3> QED
      BY <1>0, <3>1, SessionRowSteps DEF SessionMoved, SameLease, Registered
  <2>2. CASE Age(t) \/ update_session_heartbeat_for_epoch(t, session[t].epoch)
    <3>1. PICK b \in {"null", "fresh", "stale"} : session' = [session EXCEPT ![t].beat = b]
      BY <2>2 DEF Age, update_session_heartbeat_for_epoch
    <3>2. session'[s] = IF s = t THEN [session[s] EXCEPT !.beat = b] ELSE session[s]
      BY <3>1 DEF StoreTypeOK
    <3> QED
      BY <1>0, <3>2, SessionRowSteps, SMT DEF SessionMoved, SameLease
  <2> QED
    BY <1>2, <2>1, <2>2 DEF SessionWrite
<1>3. ASSUME NEW c \in Commands, NEW st, NEW clear, Finish(c, st, clear) PROVE SessionMoved(s)
  BY <1>3, FinishMoves DEF SessionMoved
<1>4. ASSUME NEW g \in Agents, LeaseWrite(g) PROVE SessionMoved(s)
  <2>1. PICK B \in SUBSET Commands : B \subseteq found /\ assign_batch_leases(B)
    BY <1>4 DEF LeaseWrite, MemoryOK
  <2>2. session'[s] = IF \E c \in B : SessionOf[c] = s
                      THEN [epoch |-> session[s].epoch + 1, status |-> "active", beat |-> "fresh"]
                      ELSE session[s]
    BY <2>1, LeaseChange
  <2> QED
    BY <2>1, <2>2, SMT DEF SessionMoved, LeasedAgain, SameLease
<1>5. ASSUME NEW g \in Agents, request_account_retirement(g) \/ finish_account_retirement(g)
      PROVE  SessionMoved(s)
  BY <1>1, <1>5 DEF request_account_retirement, finish_account_retirement
<1>6. ASSUME NEW a \in 1 .. MaxLease, NEW c \in Commands, MarkWrite(a, c) \/ SettleWrite(a, c)
      PROVE  SessionMoved(s)
  <2>1. session' = session \/ \E st, clear : Finish(c, st, clear)
    BY <1>6 DEF MarkWrite, SettleWrite, update_command_status_for_attempt,
                mark_command_succeeded_for_attempt, dead_letter_command_for_attempt
  <2> QED
    BY <1>1, <1>3, <2>1
<1>7. ASSUME NEW r \in monitor, ExpiryWrite(r) PROVE SessionMoved(s)
  <2>1. session' = ExpiredSession(SessionOf[r.command], r.epoch)
    BY <1>7 DEF ExpiryWrite, handle_lease_expiry
  <2>2. CASE SessionOf[r.command] = s /\ session[s].epoch = r.epoch
    BY <1>7, <2>2 DEF SessionMoved, Fenced
  <2>3. CASE ~(SessionOf[r.command] = s /\ session[s].epoch = r.epoch)
    <3>1. session'[s] = session[s]
      <4> DEFINE t == SessionOf[r.command]
                 new == [epoch |-> r.epoch + 1, status |-> "idle", beat |-> "null"]
      <4>1. session' = IF session[t].epoch = r.epoch THEN [session EXCEPT ![t] = new]
                       ELSE session
        BY <2>1 DEF ExpiredSession
      <4>2. ~(t = s /\ session[s].epoch = r.epoch)
        BY <2>3
      <4> HIDE DEF t, new
      <4> QED
        BY <4>1, <4>2 DEF StoreTypeOK
    <3> QED
      BY <3>1 DEF SessionMoved, SameLease
  <2> QED
    BY <2>2, <2>3
<1>8. ASSUME NEW c \in Commands, \/ insert_command(c) \/ CommitWrite(c) \/ ExhaustedWrite(c)
                                 \/ LetterWrite(c) \/ ResetWrite(c)
      PROVE  SessionMoved(s)
  <2>1. session' = session \/ \E st, clear : Finish(c, st, clear)
    BY <1>8 DEF insert_command, CommitWrite, mark_command_committed_for_attempt, ExhaustedWrite,
                DeadLetterUnfenced, LetterWrite, insert_dead_letter, ResetWrite, ResetToPending
  <2> QED
    BY <1>1, <1>3, <2>1
<1>9. CASE UNCHANGED storeVars \/ ReplyWrite
  BY <1>1, <1>9 DEF storeVars, ReplyWrite, insert_reply_event
<1>10. ASSUME NEW S \in SUBSET Commands, dead_letter_stale_pending_commands(S)
       PROVE  SessionMoved(s)
  BY <1>1, <1>10 DEF dead_letter_stale_pending_commands
<1> QED
  BY <1>2, <1>4, <1>5, <1>6, <1>7, <1>8, <1>9, <1>10 DEF Writes

-----------------------------------------------------------------------------
(* The lease monitor, while no call fails and the process does not crash.   *)

Reliable == MaxFaults = 0 /\ MaxCrashes = 0

\* A list of expired leases is complete: when one member of a batch can still
\* be expired, so can be every other that still runs.
MonitorComplete ==
    \A r \in monitor :
        /\ r.epoch <= session[SessionOf[r.command]].epoch
        /\ Expires(r.command, r.epoch) =>
               \A d \in CommandsOf(SessionOf[r.command]) :
                   Expires(d, r.epoch) => [command |-> d, epoch |-> r.epoch] \in monitor

\* One entry of the list is done with.
Handled(r) == monitor' = monitor \ {r} /\ ~Expires(r.command, r.epoch)'

LEMMA MonitorStepped ==
    ASSUME Reliable, MemoryOK, StoreTypeOK, MonitorMoved
    PROVE  \/ monitor' = monitor
           \/ monitor = {} /\ monitor' = check_expired_leases /\ UNCHANGED storeVars
           \/ \E r \in monitor : Handled(r)
<1>0. MaxFaults = 0 /\ MaxCrashes = 0 /\ crashes \in 0 .. MaxCrashes /\ faults \in 0 .. MaxFaults
  BY DEF Reliable, MemoryOK
<1>1. ~Crash
  BY <1>0, SMT DEF Crash
<1>2. CASE MonitorCheck
  BY <1>2 DEF MonitorCheck
<1>3. CASE MonitorHandle
  <2>1. PICK r \in monitor :
            /\ monitor' = monitor \ {r}
            /\ \/ handle_lease_expiry(r.command, r.epoch)
               \/ ~Expires(r.command, r.epoch) /\ UNCHANGED storeVars
    BY <1>0, <1>3, SMT DEF MonitorHandle, Call
  <2>2. r.command \in Commands
    BY DEF MemoryOK
  <2>3. CASE handle_lease_expiry(r.command, r.epoch)
    <3>1. cmd'[r.command].status \in {"dead_letter", "retry_scheduled"}
      BY <2>2, <2>3, ExpiryChange DEF Only, Sets
    <3> QED
      BY <2>1, <3>1 DEF Handled, Expires, Active
  <2>4. CASE ~Expires(r.command, r.epoch) /\ UNCHANGED storeVars
    BY <2>1, <2>4 DEF Handled, Expires, storeVars
  <2> QED
    BY <2>1, <2>3, <2>4
<1> QED
  BY <1>1, <1>2, <1>3 DEF MonitorMoved, MonitorStep

\* A command that can be expired under an issued epoch was so before.
LEMMA ExpiresBefore ==
    ASSUME Core, Steps, NEW c \in Commands, NEW e \in Nat,
           e <= session[SessionOf[c]].epoch, Expires(c, e)'
    PROVE  Expires(c, e)
<1>0. session[SessionOf[c]].epoch \in Nat
  BY DEF Core, StoreInv, StoreTypeOK, SessionRow
<1>1. cmd'[c].status \in Active /\ cmd'[c].epoch = e
  BY DEF Expires
<1>2. ~Starts(c)
  BY <1>0, <1>1, SMT DEF Starts, LeasedNow
<1> QED
  BY <1>1, <1>2, BlocksOn DEF Expires

LEMMA MonitorCompleteStep ==
    ASSUME Reliable, Core, Steps, MonitorComplete
    PROVE  MonitorComplete'
<1>0. /\ MonitorMoved /\ MemoryOK /\ StoreTypeOK
      /\ \A s \in Sessions : session'[s].epoch >= session[s].epoch
      /\ \A s \in Sessions : session[s].epoch \in Nat /\ session'[s].epoch \in Nat
  BY DEF Core, Steps, MemoryMoves, StoreInv, StepShape, StoreTypeOK, SessionRow
<1>1. ASSUME monitor' = monitor \/ \E r \in monitor : Handled(r)
      PROVE  MonitorComplete'
  <2>1. SUFFICES ASSUME NEW r \in monitor'
                 PROVE  /\ r.epoch <= session'[SessionOf[r.command]].epoch
                        /\ Expires(r.command, r.epoch)' =>
                               \A d \in CommandsOf(SessionOf[r.command]) :
                                   Expires(d, r.epoch)' =>
                                       [command |-> d, epoch |-> r.epoch] \in monitor'
    BY DEF MonitorComplete, Expires, CommandsOf
  <2>2. /\ r \in monitor /\ r.command \in Commands /\ r.epoch \in Nat
        /\ SessionOf[r.command] \in Sessions
    <3>1. r \in monitor /\ monitor \subseteq [command : Commands, epoch : Nat]
      BY <1>0, <1>1, <2>1 DEF Handled, MemoryOK
    <3> QED
      BY <3>1
  <2>3. r.epoch <= session[SessionOf[r.command]].epoch
    BY <2>2 DEF MonitorComplete
  <2>4. ASSUME Expires(r.command, r.epoch)', NEW d \in CommandsOf(SessionOf[r.command]),
               Expires(d, r.epoch)'
        PROVE  [command |-> d, epoch |-> r.epoch] \in monitor'
    <3>1. d \in Commands /\ SessionOf[d] = SessionOf[r.command]
      BY <2>4 DEF CommandsOf
    <3>2. Expires(r.command, r.epoch) /\ Expires(d, r.epoch)
      BY <2>2, <2>3, <2>4, <3>1, ExpiresBefore
    <3>3. [command |-> d, epoch |-> r.epoch] \in monitor
      BY <2>2, <2>4, <3>2 DEF MonitorComplete
    <3>4. ASSUME NEW q \in monitor, Handled(q) PROVE q # [command |-> d, epoch |-> r.epoch]
      BY <2>4, <3>4, SMT DEF Handled, Expires
    <3> QED
      BY <1>1, <3>3, <3>4 DEF Handled
  <2> QED
    BY <1>0, <2>2, <2>3, <2>4, SMTT(30)
<1>2. CASE monitor' = check_expired_leases /\ UNCHANGED storeVars
  <2>1. session' = session /\ cmd' = cmd
    BY <1>2 DEF storeVars
  <2>2. ASSUME NEW r \in check_expired_leases
        PROVE  /\ r.epoch <= session[SessionOf[r.command]].epoch
               /\ Expires(r.command, r.epoch) =>
                      \A d \in CommandsOf(SessionOf[r.command]) :
                          Expires(d, r.epoch) =>
                              [command |-> d, epoch |-> r.epoch] \in check_expired_leases
    <3>1. PICK c \in Commands :
              /\ r = [command |-> c, epoch |-> session[SessionOf[c]].epoch]
              /\ session[SessionOf[c]].status = "active" /\ session[SessionOf[c]].beat # "fresh"
      BY <2>2 DEF check_expired_leases
    <3>2. r.command = c /\ r.epoch = session[SessionOf[c]].epoch
      BY <3>1
    <3>3. ASSUME NEW d \in CommandsOf(SessionOf[c]), Expires(d, r.epoch)
          PROVE  [command |-> d, epoch |-> r.epoch] \in check_expired_leases
      BY <3>1, <3>2, <3>3 DEF check_expired_leases, CommandsOf, Expires
    <3> QED
      BY <1>0, <3>2, <3>3, SMT
  <2> QED
    BY <1>2, <2>1, <2>2 DEF MonitorComplete, Expires
<1> QED
  BY <1>0, <1>1, <1>2, MonitorStepped

\* A newly leased command is watched by its own session.
LEMMA StartedIsWatched ==
    ASSUME Core, Steps, NEW c \in Commands, Starts(c)
    PROVE  LeasedAgain(SessionOf[c])
<1> DEFINE s == SessionOf[c]
<1>0. /\ SessionMoved(s) /\ StoreTypeOK /\ MemoryOK
      /\ cmd[c].status = "pending" /\ cmd'[c].status = "leased"
      /\ cmd'[c].epoch = session[s].epoch + 1
  BY EverySession DEF Core, Steps, StoreInv, Starts, LeasedNow
<1>1. session[s].epoch \in Nat /\ cmd'[c].epoch <= session'[s].epoch
  BY DEF Core, Steps, StoreInv, StoreTypeOK, SessionRow, EpochsIssued
<1>2. ~SameLease(s) /\ ~Registered(s)
  BY <1>0, <1>1, SMT DEF SameLease, Registered
<1>3. ~Idle(s)
  BY <1>0 DEF Idle, CommandsOf, Active
<1>4. ~Fenced(s)
  <2>1. ASSUME NEW r \in monitor, ExpiryWrite(r) PROVE FALSE
    <3>1. r.command \in Commands /\ handle_lease_expiry(r.command, r.epoch)
      BY <1>0, <2>1 DEF MemoryOK, ExpiryWrite
    <3>2. \/ Only(r.command, "dead_letter", 0)
          \/ Only(r.command, "retry_scheduled", 0)
      BY <1>0, <3>1, ExpiryChange
    <3> QED
      BY <1>0, <3>2 DEF Only, Sets
  <2> QED
    BY <2>1 DEF Fenced
<1> QED
  BY <1>0, <1>2, <1>3, <1>4 DEF SessionMoved

LEMMA WatchedStep ==
    ASSUME Reliable, Dispatch, Steps, MonitorComplete, ActiveIsWatched
    PROVE  ActiveIsWatched'
<1>0. Core /\ MonitorMoved /\ MemoryOK /\ StoreTypeOK /\ FoundFree
  BY DEF Dispatch, Core, Steps, MemoryMoves, StoreInv
<1>1. SUFFICES ASSUME NEW c \in Commands, cmd'[c].status \in Active
               PROVE  \/ /\ session'[SessionOf[c]].status = "active"
                         /\ session'[SessionOf[c]].epoch = cmd'[c].epoch
                      \/ [command |-> c, epoch |-> cmd'[c].epoch] \in monitor'
  BY DEF ActiveIsWatched, Active
<1> DEFINE s == SessionOf[c]
           mine == [command |-> c, epoch |-> cmd[c].epoch]
<1>2. CASE Starts(c)
  BY <1>0, <1>2, StartedIsWatched DEF LeasedAgain, Starts, LeasedNow
<1>3. CASE cmd[c].status \in Active /\ cmd'[c].epoch = cmd[c].epoch
  <2>0. Expires(c, cmd[c].epoch)' /\ Expires(c, cmd[c].epoch)
    BY <1>1, <1>3 DEF Expires
  <2>1. ASSUME NEW r \in monitor, Handled(r) PROVE mine # r
    <3>1. ~(cmd'[r.command].status \in Active /\ cmd'[r.command].epoch = r.epoch)
      BY <2>1 DEF Handled, Expires, Active
    <3> QED
      BY <1>1, <1>3, <3>1, SMTT(30)
  <2>2. mine \in monitor => mine \in monitor'
    BY <1>0, <2>1, MonitorStepped DEF Handled
  <2>3. CASE session[s].status = "active" /\ session[s].epoch = cmd[c].epoch
    <3>0. SessionMoved(s)
      BY <1>0, EverySession DEF Steps
    <3>1. CASE SameLease(s)
      BY <1>3, <2>3, <3>1 DEF SameLease
    <3>2. ~Registered(s) /\ ~Idle(s)
      BY <1>1, <2>3 DEF Registered, Idle, CommandsOf, Active
    <3>3. ~LeasedAgain(s)
      <4>1. ASSUME NEW d \in found, SessionOf[d] = s PROVE FALSE
        <5>1. d \in Commands /\ AgentOfCommand(d) = AgentOfCommand(c)
          BY <1>0, <4>1 DEF MemoryOK, AgentOfCommand
        <5> QED
          BY <1>0, <1>3, <5>1 DEF FoundFree, BlockingStatus
      <4> QED
        BY <4>1 DEF LeasedAgain
    <3>4. ASSUME NEW r \in monitor, ExpiryWrite(r), SessionOf[r.command] = s,
                 session[s].epoch = r.epoch
          PROVE  mine \in monitor
      <4>1. Expires(r.command, r.epoch) /\ c \in CommandsOf(SessionOf[r.command])
        BY <3>4 DEF ExpiryWrite, handle_lease_expiry, CommandsOf
      <4> QED
        BY <2>0, <2>3, <3>4, <4>1 DEF MonitorComplete
    <3> QED
      BY <1>3, <2>2, <3>0, <3>1, <3>2, <3>3, <3>4 DEF SessionMoved, Fenced
  <2> QED
    BY <1>3, <2>2, <2>3 DEF ActiveIsWatched
<1> QED
  BY <1>0, <1>1, <1>2, <1>3, BlocksOn

Watch == Dispatch /\ MonitorComplete /\ ActiveIsWatched

-----------------------------------------------------------------------------
(* Answers, while no call fails.  The process may crash.                    *)

\* A task that still has its result has not had its reply, and the primary of
\* an answer is marked succeeded before the answer is sent.
TaskAnswers(a) ==
    /\ task[a].phase = "send" => task[a].todo = {}
    /\ task[a].phase # "none" => \A c \in task[a].members \cap replied : cmd[c].attempt # a
    /\ /\ task[a].phase \in {"settle", "send"} /\ task[a].outcome \in {"ok", "empty"}
       /\ Primary(task[a].members) \notin task[a].todo
       => cmd[Primary(task[a].members)].status \in Answerable

ResultAnswers(r) ==
    /\ r.primary \in replied => cmd[r.primary].attempt # r.attempt
    /\ r.outcome \in {"ok", "empty"} => cmd[r.primary].status \in Answerable

ChannelAnswers == \A i \in 1 .. Len(channel) : ResultAnswers(channel[i])

\* An attempt has one result.
Distinct ==
    /\ \A i, j \in 1 .. Len(channel) : i # j => channel[i].attempt # channel[j].attempt
    /\ writer.phase # "idle" =>
           \A i \in 1 .. Len(channel) : channel[i].attempt # writer.attempt

\* The writer writes a reply once, and closes what the reply covers.
WriterAnswers ==
    /\ writer.phase = "commit" => writer.todo \subseteq answered
    /\ writer.phase \in {"dedup", "insert"} =>
           /\ writer.primary \notin replied
           /\ cmd[writer.primary].status = "succeeded"
           /\ cmd[writer.primary].attempt = writer.attempt

RepliesClosed == \A c \in replied : cmd[c].status \in Answerable

Answers ==
    /\ Core /\ (\A a \in 1 .. MaxLease : TaskAnswers(a))
    /\ ChannelAnswers /\ Distinct /\ WriterAnswers /\ RepliesClosed /\ CommittedIsAnswered

LEMMA RepliedMoves ==
    ASSUME Writes
    PROVE  replied' = replied \/ ReplyWrite
<1>1. \A s \in Sessions : SessionWrite(s) => replied' = replied
  BY DEF SessionWrite, upsert_session, Age, update_session_heartbeat_for_epoch
<1>2. \A g \in Agents : LeaseWrite(g) => replied' = replied
  BY DEF LeaseWrite, assign_batch_leases
<1>3. \A g \in Agents : request_account_retirement(g) \/ finish_account_retirement(g)
          => replied' = replied
  BY DEF request_account_retirement, finish_account_retirement
<1>4. \A a \in 1 .. MaxLease, c \in Commands : MarkWrite(a, c) \/ SettleWrite(a, c)
          => replied' = replied
  BY DEF MarkWrite, SettleWrite, update_command_status_for_attempt,
         mark_command_succeeded_for_attempt, dead_letter_command_for_attempt
<1>5. \A r \in monitor : ExpiryWrite(r) => replied' = replied
  BY DEF ExpiryWrite, handle_lease_expiry
<1>6. \A c \in Commands : (\/ insert_command(c) \/ CommitWrite(c) \/ ExhaustedWrite(c)
                           \/ LetterWrite(c) \/ ResetWrite(c)) => replied' = replied
  BY DEF insert_command, CommitWrite, mark_command_committed_for_attempt, ExhaustedWrite,
         DeadLetterUnfenced, LetterWrite, insert_dead_letter, ResetWrite, ResetToPending
<1>7. \A S \in SUBSET Commands : dead_letter_stale_pending_commands(S) => replied' = replied
  BY DEF dead_letter_stale_pending_commands
<1>8. UNCHANGED storeVars => replied' = replied
  BY DEF storeVars
<1> QED
  BY <1>1, <1>2, <1>3, <1>4, <1>5, <1>6, <1>7, <1>8 DEF Writes

\* A command that has succeeded keeps its attempt until it is closed.
LEMMA SucceededStays ==
    ASSUME Core, Steps, NEW c \in Commands, cmd[c].status \in Answerable
    PROVE  /\ cmd'[c].status \in Answerable /\ cmd'[c].attempt \in {0, cmd[c].attempt}
           /\ cmd[c].status = "succeeded" /\ writer.phase # "commit" =>
                  cmd'[c].status = "succeeded" /\ cmd'[c].attempt = cmd[c].attempt
<1>0. LifeStep(c)
  BY EveryLifeStep DEF Steps
<1>1. CASE Idles(c)
  BY <1>1 DEF Idles
<1>2. CASE Commits(c)
  BY <1>2 DEF Commits, Released, Sets, Answerable
<1>3. /\ ~Arrives(c) /\ ~Starts(c) /\ ~Runs(c) /\ ~Succeeds(c) /\ ~FailsOnce(c) /\ ~IsLost(c)
      /\ ~Requeues(c) /\ ~GivesUp(c) /\ ~Drops(c)
  BY DEF Arrives, Starts, LeasedNow, Runs, Succeeds, FailsOnce, IsLost, Requeues, GivesUp, Drops,
         Answerable, Active, Waiting
<1> QED
  BY <1>0, <1>1, <1>2, <1>3 DEF LifeStep

\* A command that has its reply after the step had it before, or the writer
\* publishes it under its attempt.
LEMMA RepliedBefore ==
    ASSUME Answers, Steps, NEW c \in replied'
    PROVE  /\ c \in Commands /\ cmd[c].status \in Answerable
           /\ \/ c \in replied /\ cmd'[c].attempt \in {0, cmd[c].attempt}
              \/ /\ c = writer.primary /\ writer.phase = "insert" /\ cmd' = cmd
                 /\ cmd[c].attempt = writer.attempt
<1>0. Core /\ Writes /\ StoreTypeOK /\ RepliesClosed /\ WriterAnswers /\ WriterOK
  BY DEF Answers, Core, Steps, StoreInv, MemoryOK
<1>1. CASE c \in replied
  <2>1. c \in Commands /\ cmd[c].status \in Answerable
    BY <1>0, <1>1 DEF StoreTypeOK, RepliesClosed
  <2> QED
    BY <1>0, <1>1, <2>1, SucceededStays
<1>2. CASE c \notin replied
  <2>1. ReplyWrite /\ c = writer.primary /\ cmd' = cmd /\ writer.phase = "insert"
    BY <1>0, <1>2, RepliedMoves DEF ReplyWrite, insert_reply_event
  <2> QED
    BY <1>0, <2>1 DEF WriterAnswers, Answerable, WriterOK
<1> QED
  BY <1>1, <1>2

LEMMA TaskAnswersStep ==
    ASSUME MaxFaults = 0, Answers, Steps, NEW a \in 1 .. MaxLease
    PROVE  TaskAnswers(a)'
<1>0. /\ Core /\ TaskAnswers(a) /\ TaskOK(task[a]) /\ TaskOK(task'[a]) /\ StoreTypeOK
      /\ TaskMoved(a) \/ TaskBegins(a)
      /\ Oldest /\ WriterSafe /\ faults' = faults
  BY SMTT(30) DEF Answers, Core, Steps, MemoryOK, TasksOK, MemoryMoves, AllTasksMove, StoreInv
<1>1. CASE task'[a].phase = "none"
  BY <1>1 DEF TaskAnswers
<1>2. CASE TaskBegins(a)
  <2>1. /\ a = lease + 1 /\ task'[a].phase = "starting"
        /\ assign_batch_leases(task'[a].members) /\ task'[a].members \subseteq Commands
    BY <1>0, <1>2 DEF TaskBegins, TaskOK
  <2>2. PICK B \in SUBSET Commands : B = task'[a].members /\ assign_batch_leases(B)
    BY <2>1
  <2>3. \A c \in B : LeasedNow(c)
    BY <1>0, <2>2, LeaseChange
  <2>4. ASSUME NEW c \in task'[a].members \cap replied' PROVE FALSE
    <3>1. cmd[c].status = "pending"
      BY <2>2, <2>3 DEF LeasedNow
    <3>2. cmd[c].status \in Answerable
      BY RepliedBefore
    <3> QED
      BY <3>1, <3>2 DEF Answerable
  <2> QED
    BY <2>1, <2>4 DEF TaskAnswers
<1>3. CASE TaskMoved(a) /\ task[a].phase # "none" /\ task'[a].phase # "none"
  <2>1. ~TaskGone(a)
    BY <1>3, SMT DEF TaskGone, NoTask
  <2>2. task'[a].members = task[a].members
    BY <1>3, <2>1 DEF TaskMoved, TaskSame, TaskRuns, TaskEnded, TaskSettles
  <2> DEFINE p == Primary(task[a].members)
  <2>3. p \in task[a].members /\ p \in Commands /\ p = Primary(task'[a].members)
    BY <1>0, <1>3, <2>2, PrimaryOfTask
  <2> HIDE DEF p
  <2>4. ASSUME NEW c \in task'[a].members \cap replied' PROVE cmd'[c].attempt # a
    <3>1. c \in replied => cmd[c].attempt # a
      BY <1>0, <1>3, <2>2 DEF TaskAnswers
    <3>2. writer.phase = "insert" => a # writer.attempt
      BY <1>0, <1>3 DEF WriterSafe
    <3> QED
      BY <3>1, <3>2, RepliedBefore, SMTT(30)
  <2>5. ASSUME task'[a].phase = "send" PROVE task'[a].todo = {}
    <3>1. CASE TaskSame(a)
      BY <1>0, <2>5, <3>1 DEF TaskSame, TaskAnswers
    <3>2. CASE TaskSettles(a)
      BY <2>5, <3>2 DEF TaskSettles
    <3> QED
      BY <1>3, <2>1, <2>5, <3>1, <3>2 DEF TaskMoved, TaskRuns, TaskEnded, Early
  <2>6. ASSUME task'[a].phase \in {"settle", "send"}, task'[a].outcome \in {"ok", "empty"},
               p \notin task'[a].todo
        PROVE  cmd'[p].status \in Answerable
    <3>1. CASE cmd[p].status \in Answerable
      BY <1>0, <2>3, <3>1, SucceededStays
    <3>2. CASE mark_command_succeeded_for_attempt(p, a)
      <4>1. Only(p, "succeeded", cmd[p].attempt)
        BY <1>0, <2>3, <3>2, FencedChange
      <4> QED
        BY <4>1 DEF Only, Sets, Answerable
    <3>3. CASE TaskSame(a)
      BY <1>0, <2>6, <3>1, <3>3 DEF TaskSame, TaskAnswers, p
    <3>4. CASE TaskSettles(a)
      <4>1. task[a].phase = "settle" /\ task[a].outcome \in {"ok", "empty"}
        BY <2>6, <3>4 DEF TaskSettles
      <4>2. PICK c \in task[a].todo :
                /\ task'[a].todo = task[a].todo \ {c}
                /\ c = p => mark_command_succeeded_for_attempt(c, a)
        BY <1>0, <3>4, <4>1 DEF TaskSettles, p
      <4>3. CASE p \notin task[a].todo
        BY <1>0, <3>1, <4>1, <4>3 DEF TaskAnswers, p
      <4> QED
        BY <2>6, <3>2, <4>2, <4>3
    <3>5. ~TaskEnded(a)
      BY <2>3, <2>6 DEF TaskEnded
    <3> QED
      BY <1>3, <2>1, <2>6, <3>3, <3>4, <3>5 DEF TaskMoved, TaskRuns, Early
  <2> QED
    BY <2>3, <2>4, <2>5, <2>6 DEF TaskAnswers
<1>4. CASE TaskMoved(a) /\ task[a].phase = "none"
  <2>1. ~TaskRuns(a) /\ ~TaskEnded(a) /\ ~TaskSettles(a)
    BY <1>4 DEF TaskRuns, TaskEnded, TaskSettles, Early
  <2>2. NoTask.phase = "none"
    BY DEF NoTask
  <2>3. task'[a].phase = "none"
    BY <1>4, <2>1, <2>2 DEF TaskMoved, TaskSame, TaskGone
  <2> QED
    BY <1>1, <2>3
<1> QED
  BY <1>0, <1>1, <1>2, <1>3, <1>4

LEMMA ChannelAnswersStep ==
    ASSUME Answers, Steps
    PROVE  ChannelAnswers'
<1>0. /\ MemoryOK /\ MemoryOK' /\ ChannelMoved /\ Core /\ Distinct
      /\ ChannelAnswers /\ Oldest
  BY DEF Answers, Core, Steps, MemoryMoves
<1>1. ASSUME NEW i \in 1 .. Len(channel')
      PROVE  ResultAnswers(channel[i])'
  <2>1. PICK r \in Result : r = channel'[i]
    BY <1>0, <1>1, SMTT(30) DEF MemoryOK
  <2>2. r.attempt \in 1 .. MaxLease /\ r.primary \in Commands
    BY DEF Result
  <2>3. ASSUME NEW j \in 1 .. Len(channel), channel'[i] = channel[j]
        PROVE  ResultAnswers(r)'
    <3>1. ResultAnswers(r) /\ (writer.phase # "idle" => r.attempt # writer.attempt)
      BY <1>0, <2>1, <2>3 DEF ChannelAnswers, Distinct
    <3>2. r.primary \in replied' => cmd'[r.primary].attempt # r.attempt
      BY <2>2, <3>1, RepliedBefore, SMTT(30) DEF ResultAnswers
    <3>3. r.outcome \in {"ok", "empty"} => cmd'[r.primary].status \in Answerable
      BY <1>0, <2>2, <3>1, SucceededStays DEF ResultAnswers
    <3> QED
      BY <3>2, <3>3 DEF ResultAnswers
  <2>4. ASSUME NEW a \in 1 .. MaxLease, Sent(a, channel'[i])
        PROVE  ResultAnswers(r)'
    <3>1. TaskAnswers(a) /\ TaskOK(task[a]) /\ task[a].phase = "send" /\ UNCHANGED <<cmd, replied>>
      BY <1>0, <2>4 DEF Answers, MemoryOK, TasksOK, Sent, storeVars
    <3>2. Primary(task[a].members) \in task[a].members
      <4>1. task[a].phase # "none"
        BY <3>1
      <4> QED
        BY <1>0, <3>1, <4>1, PrimaryOfTask
    <3>3. /\ r.attempt = a /\ r.primary = Primary(task[a].members)
          /\ r.outcome = task[a].outcome
      BY <2>1, <2>4 DEF Sent
    <3> QED
      BY <3>1, <3>2, <3>3 DEF TaskAnswers, ResultAnswers
  <2>5. ResultAnswers(r)'
    BY <1>0, <1>1, <2>3, <2>4, ChannelOrigin
  <2> QED
    BY <2>1, <2>5 DEF ResultAnswers
<1> QED
  BY <1>1 DEF ChannelAnswers

\* A result stays in flight under its own attempt.
LEMMA DistinctStep ==
    ASSUME Answers, Steps
    PROVE  Distinct'
<1>0. /\ MemoryOK /\ ChannelMoved /\ WriterMoved /\ Distinct /\ ChannelSafe /\ WriterSafe
      /\ Len(channel) \in Nat
  BY SMTT(30) DEF Answers, Core, Steps, MemoryMoves, MemoryOK
<1>1. CASE channel' = <<>>
  <2>1. Len(channel') = 0
    BY <1>1
  <2> QED
    BY <2>1, SMT DEF Distinct
<1>2. ASSUME channel' # <<>>, writer'.phase # "idle"
      PROVE  \/ writer.phase # "idle" /\ writer'.attempt = writer.attempt
             \/ /\ channel' = Tail(channel) /\ channel # <<>>
                /\ writer'.attempt = Head(channel).attempt
  <2>1. NoResult.phase = "idle"
    BY DEF NoResult
  <2>2. ~WriterStops
    BY <1>2, <2>1 DEF WriterStops
  <2>3. CASE WriterTakes
    BY <2>3 DEF WriterTakes
  <2>4. CASE WriterAdvances \/ WriterCommits
    BY <2>4 DEF WriterAdvances, WriterCommits
  <2>5. CASE writer' = writer
    BY <1>2, <2>5
  <2> QED
    BY <1>0, <2>2, <2>3, <2>4, <2>5 DEF WriterMoved
<1>3. CASE channel' = channel /\ channel' # <<>>
  <2>1. channel' # Tail(channel)
    <3>0. channel \in Seq(Result) /\ channel # <<>>
      BY <1>0, <1>3 DEF MemoryOK
    <3>1. Len(Tail(channel)) = Len(channel) - 1
      BY <3>0, SMT
    <3>2. Len(channel') = Len(channel)
      BY <1>3
    <3>3. ASSUME channel' = Tail(channel) PROVE FALSE
      <4>1. Len(channel') = Len(channel) - 1
        BY <3>1, <3>3
      <4> QED
        BY <1>0, <3>2, <4>1, SMT
    <3> QED
      BY <3>3
  <2> QED
    BY <1>0, <1>2, <1>3, <2>1 DEF Distinct
<1>4. CASE WriterReceive
  <2>1. /\ writer.phase = "idle" /\ Len(channel') = Len(channel) - 1
        /\ Head(channel) = channel[1]
        /\ \A i \in 1 .. Len(channel') : channel'[i] = channel[i + 1]
    BY <1>0, <1>4, ReceivedResult DEF WriterReceive
  <2>2. ASSUME NEW i \in 1 .. Len(channel')
        PROVE  i + 1 \in 1 .. Len(channel) /\ 1 \in 1 .. Len(channel) /\ i + 1 # 1
    BY <1>0, <2>1, SMT
  <2>3. ASSUME NEW i \in 1 .. Len(channel'), NEW j \in 1 .. Len(channel'), i # j
        PROVE  channel'[i].attempt # channel'[j].attempt
    <3>1. i + 1 # j + 1
      BY <2>3, SMT
    <3> QED
      BY <1>0, <2>1, <2>2, <3>1 DEF Distinct
  <2>4. ASSUME writer'.phase # "idle", NEW i \in 1 .. Len(channel')
        PROVE  channel'[i].attempt # writer'.attempt
    <3>1. writer'.attempt = channel[1].attempt
      BY <1>1, <1>2, <2>1, <2>4, SMTT(30)
    <3> QED
      BY <1>0, <2>1, <2>2, <3>1 DEF Distinct
  <2> QED
    BY <2>3, <2>4 DEF Distinct
<1>5. ASSUME NEW a \in 1 .. MaxLease, SendResult(a) PROVE Distinct'
  <2>1. /\ Len(channel') = Len(channel) + 1
        /\ \A i \in 1 .. Len(channel) : channel'[i] = channel[i]
        /\ channel'[Len(channel) + 1].attempt = a /\ writer' = writer /\ task[a].phase = "send"
    BY <1>0, <1>5, SentResult DEF Sent
  <2>2. \A i \in 1 .. Len(channel) : channel[i].attempt # a
    BY <1>0, <2>1 DEF ChannelSafe, ResultSafe
  <2>3. writer.phase # "idle" => writer.attempt # a
    BY <1>0, <2>1 DEF WriterSafe
  <2>4. \A i \in 1 .. Len(channel') : i \in 1 .. Len(channel) \/ i = Len(channel) + 1
    BY <1>0, <2>1, SMTT(30)
  <2> QED
    BY <1>0, <2>1, <2>2, <2>3, <2>4 DEF Distinct
<1> QED
  BY <1>0, <1>1, <1>3, <1>4, <1>5 DEF ChannelMoved

LEMMA WriterAnswersStep ==
    ASSUME Answers, Steps
    PROVE  WriterAnswers'
<1>0. /\ Core /\ MemoryOK /\ WriterMoved /\ WriterAnswers /\ WriterOK /\ Writes /\ ClosedFree
  BY DEF Answers, Core, Steps, MemoryMoves, MemoryOK
<1>1. ASSUME writer'.phase = "commit", writer'.todo \subseteq answered'
      PROVE  WriterAnswers'
  BY <1>1 DEF WriterAnswers
<1>2. ASSUME writer.phase \in {"dedup", "insert"}, writer'.phase \in {"dedup", "insert"},
             writer'.primary = writer.primary, writer'.attempt = writer.attempt,
             writer'.phase = writer.phase \/ writer.phase = "dedup"
      PROVE  WriterAnswers'
  <2>1. ~ReplyWrite
    BY <1>2 DEF ReplyWrite
  <2>2. replied' = replied
    BY <1>0, <2>1, RepliedMoves
  <2>3. /\ writer.primary \in Commands /\ writer.primary \notin replied
        /\ cmd[writer.primary].status = "succeeded"
        /\ cmd[writer.primary].attempt = writer.attempt
    BY <1>0, <1>2 DEF WriterOK, WriterAnswers
  <2>4. /\ cmd'[writer.primary].status = "succeeded"
        /\ cmd'[writer.primary].attempt = writer.attempt
    BY <1>0, <1>2, <2>3, SucceededStays DEF Answerable
  <2> QED
    BY <1>2, <2>2, <2>3, <2>4 DEF WriterAnswers
<1>3. CASE writer' = writer /\ answered' = answered
  <2>1. CASE writer.phase \in {"dedup", "insert"}
    BY <1>2, <1>3, <2>1
  <2> QED
    BY <1>0, <1>3, <2>1 DEF WriterAnswers
<1>4. CASE WriterStops
  BY <1>4 DEF WriterStops, NoResult, WriterAnswers
<1>5. CASE WriterTakes
  <2>1. channel # <<>> /\ Head(channel) = channel[1] /\ 1 \in 1 .. Len(channel)
    BY <1>0, <1>5, SMT DEF WriterTakes, MemoryOK
  <2>2. PICK r \in Result : r = channel[1]
    BY <1>0, <2>1, ChannelRows
  <2>3. ResultAnswers(r)
    BY <2>1, <2>2 DEF Answers, ChannelAnswers
  <2>4. /\ Accepts(r.primary, r.attempt) /\ r.outcome \in {"ok", "empty"}
        /\ writer'.phase = IF r.outcome = "empty" THEN "commit" ELSE "dedup"
        /\ writer'.attempt = r.attempt /\ writer'.primary = r.primary
        /\ answered' = IF r.outcome = "empty" THEN answered \cup writer'.todo ELSE answered
        /\ UNCHANGED <<cmd, replied>>
    BY <1>5, <2>1, <2>2 DEF WriterTakes, storeVars
  <2>5. cmd[r.primary].status = "succeeded"
    <3>1. r.primary \in Commands /\ cmd[r.primary].attempt # 0
      BY <2>4 DEF Result, Accepts
    <3>2. cmd[r.primary].status # "committed"
      BY <1>0, <3>1 DEF ClosedFree
    <3> QED
      BY <2>3, <2>4, <3>2 DEF ResultAnswers, Answerable
  <2> QED
    BY <2>3, <2>4, <2>5 DEF ResultAnswers, Accepts, WriterAnswers
<1>6. CASE WriterAdvances
  <2>1. CASE writer.phase = "dedup" /\ writer'.phase = "insert"
    BY <1>2, <1>6, <2>1 DEF WriterAdvances
  <2>2. writer.phase \in {"dedup", "insert"} => writer.primary \notin replied
    BY <1>0 DEF WriterAnswers
  <2> QED
    BY <1>1, <1>6, <2>1, <2>2 DEF WriterAdvances
<1>7. CASE WriterCommits
  BY <1>0, <1>1, <1>7 DEF WriterCommits, WriterAnswers
<1> QED
  BY <1>0, <1>3, <1>4, <1>5, <1>6, <1>7 DEF WriterMoved
=============================================================================
