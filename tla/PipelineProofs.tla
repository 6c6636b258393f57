--------------------------- MODULE PipelineProofs ---------------------------
(* The theorems about the pipeline, for any number of commands, agents,     *)
(* leases, faults and crashes.                                              *)
EXTENDS PipelineMemory, PipelineTables, PipelineInvariants, WellFoundedInduction

USE CommandsAssumption, KeysAssumption, BoundsAssumption, PipelineAssumption

\* Zenon proves a leaf that does not ask for another prover.
USE ZenonT(30)

-----------------------------------------------------------------------------
LEMMA LeastNatural ==
    ASSUME NEW S \in SUBSET Nat, S # {}
    PROVE  \E x \in S : \A y \in S : x <= y
<1> DEFINE R == OpToRel(<, Nat)
<1>1. IsWellFoundedOn(R, Nat)
  BY NatLessThanWellFounded
<1>2. PICK x \in S : \A y \in S : ~ (<<y, x>> \in R)
  <2> HIDE DEF R
  <2> QED
    BY <1>1, WFMin
<1>3. \A y \in S : ~(y < x)
  BY <1>2 DEF OpToRel
<1> QED
  BY <1>3, SMT

LEMMA MinIsLeast ==
    ASSUME NEW S \in SUBSET Commands, S # {}
    PROVE  Min(S) \in S /\ \A y \in S : Min(S) <= y
<1>1. S \in SUBSET Nat
  OBVIOUS
<1>2. PICK x \in S : \A y \in S : x <= y
  BY <1>1, LeastNatural
<1> QED
  BY <1>2 DEF Min

-----------------------------------------------------------------------------
(* The core is inductive.                                                   *)

LEMMA CoreStep ==
    ASSUME Core, [Next]_vars
    PROVE  Core' /\ Steps
<1>0. Oldest /\ MemoryOK /\ StoreTypeOK /\ StoreInv
  BY DEF Core, StoreInv
<1>1. MemoryOK' /\ MemoryMoves /\ Writes
  BY <1>0, EveryPipelineStep
<1>2. TableChanges
  BY <1>0, <1>1, EveryChange
<1>3. StoreInv' /\ StepShape
  BY <1>0, <1>1, StoreStepOf
<1>4. Steps
  BY <1>1, <1>2, <1>3 DEF Steps
<1>5. \A a \in 1 .. MaxLease : TaskSafe(a)'
  BY <1>4, TaskSafeStep
<1> QED
  BY <1>0, <1>1, <1>3, <1>4, <1>5, ChannelSafeStep, WriterSafeStep, RetrierSafeStep DEF Core

LEMMA CoreInit ==
    ASSUME Init
    PROVE  Core
<1>0. Oldest
  BY MinIsLeast DEF Oldest
<1>1. StoreInv
  BY InitInv DEF Init
<1>2. \A a \in 1 .. MaxLease : task[a] = NoTask
  BY DEF Init
<1>3. TasksOK
  BY <1>2, NoTaskOK DEF Init, TasksOK
<1>4. MemoryOK
  BY <1>3, WriterRows, SMTT(30) DEF Init, MemoryOK, WriterOK, NoRetries, RetrierRow
<1>5. ASSUME NEW a \in 1 .. MaxLease PROVE TaskSafe(a)
  BY <1>2, NoTaskOK, SMTT(30) DEF TaskSafe, NoTask
<1>6. ChannelSafe /\ WriterSafe /\ RetrierSafe
  BY SMT DEF Init, ChannelSafe, WriterSafe, RetrierSafe, NoResult, NoRetries
<1>7. ClosedFree
  BY DEF Init, StoreInit, NoCommand, ClosedFree
<1> QED
  BY <1>0, <1>1, <1>4, <1>5, <1>6, <1>7 DEF Core

(* The core invariant holds in every reachable state, for any number of     *)
(* commands, leases, crashes and failed database calls: what dispatcher,    *)
(* tasks, writer and retry scheduler remember never contradicts a row that  *)
(* the attempt fence would still let them write.                            *)
THEOREM CoreHolds == Spec => []Core
<1>1. Init => Core
  BY CoreInit
<1>2. Core /\ [Next]_vars => Core'
  BY CoreStep
<1> QED
  BY <1>1, <1>2, PTL DEF Spec

(* Type correctness: every loop's memory and every table stay well typed.   *)
THEOREM TypesHold == Spec => []TypeOK
<1>1. Core => TypeOK
  BY SMTT(30) DEF Core, StoreInv, MemoryOK, TasksOK, TaskOK, TypeOK, WriterOK, WriterRow, RetrierRow
<1> QED
  BY <1>1, CoreHolds, PTL

(* Once a command is dead no answer that covers it is published: the result *)
(* of a slow executor meets the fence, and batch members are closed only    *)
(* after they were marked succeeded.                                        *)
THEOREM DeadAreNotAnswered == Spec => DeadStaysUnanswered
<1>1. ASSUME Core, [Next]_vars, NEW c \in Commands, cmd[c].status = "dead_letter",
             c \in answered', c \notin answered
      PROVE  FALSE
  <2>1. WriterMoved /\ MemoryOK
    BY <1>1, CoreStep DEF Steps, MemoryMoves, Core
  <2>2. ASSUME writer.phase = "insert", insert_reply_event(writer.primary, writer.attempt),
               c \in writer.todo
        PROVE  FALSE
    <3>1. cmd[writer.primary].status \in Live
      BY <1>1, <2>2 DEF Core, WriterSafe, Holds, insert_reply_event, Accepts
    <3> QED
      BY <1>1, <2>2, <3>1 DEF Core, WriterSafe, Live, Active, Answerable
  <2>3. ASSUME WriterTakes, c \in writer'.todo
        PROVE  FALSE
    <3>1. channel # <<>> /\ Head(channel) = channel[1] /\ 1 \in 1 .. Len(channel)
      BY <2>1, <2>3, SMTT(30) DEF WriterTakes, MemoryOK
    <3>2. PICK r \in Result : r = channel[1]
      BY <2>1, <3>1, ChannelRows
    <3>3. ResultSafe(r)
      BY <1>1, <3>1, <3>2 DEF Core, ChannelSafe
    <3>4. /\ c \in {r.primary} \cup r.closable /\ r.outcome \in {"ok", "empty"}
          /\ cmd[r.primary].attempt = r.attempt
      BY <2>3, <3>1, <3>2 DEF WriterTakes, Accepts
    <3> QED
      BY <1>1, <3>3, <3>4 DEF ResultSafe, Holds, Live, Active, Answerable
  <2> QED
    BY <1>1, <2>1, <2>2, <2>3 DEF WriterMoved, WriterStops, WriterTakes, WriterAdvances,
                                  WriterCommits
<1>2. Core /\ [Next]_vars =>
          [\A c \in Commands : cmd[c].status = "dead_letter" /\ c \in answered'
               => c \in answered]_vars
  BY <1>1
<1> QED
  BY <1>2, CoreHolds, PTL DEF Spec, DeadStaysUnanswered

-----------------------------------------------------------------------------
(* One batch per agent, and no lapping.                                     *)

LEMMA DispatchStays ==
    /\ Init => Dispatch
    /\ Dispatch /\ [Next]_vars => Dispatch' /\ Steps
<1>1. Init => FoundFree /\ OneBatchPerAgent
  BY SMT DEF Init, StoreInit, NoCommand, FoundFree, OneBatchPerAgent, Active
<1>2. ASSUME Dispatch, [Next]_vars PROVE Dispatch' /\ Steps
  BY <1>2, CoreStep, FoundFreeStep, OneBatchStep DEF Dispatch
<1> QED
  BY <1>1, <1>2, CoreInit DEF Dispatch

(* What the dispatcher found is still free to be leased, whatever the other *)
(* loops did since the find, and each agent has one batch at most.          *)
THEOREM DispatchHolds == Spec => []Dispatch
  BY DispatchStays, PTL DEF Spec

(* At most one batch of an agent is in flight, for any number of commands   *)
(* and sessions, crashes and failed calls, although the find and the lease  *)
(* are two transactions.                                                    *)
THEOREM OneBatchHolds == Spec => []OneBatchPerAgent
<1>1. Dispatch => OneBatchPerAgent
  BY DEF Dispatch
<1> QED
  BY <1>1, DispatchHolds, PTL

(* No command is leased while a command of its agent waits for its retry.   *)
THEOREM NothingLaps == Spec => NoLapping
<1>1. ASSUME Dispatch, [Next]_vars, NEW c \in Commands, NEW d \in Commands,
             AgentOfCommand(c) = AgentOfCommand(d), cmd[c].status = "retry_scheduled",
             cmd[d].status = "pending"
      PROVE  cmd'[d].status # "leased"
  <2>1. cmd'[d].status = "leased" => Starts(d)
    BY <1>1, DispatchStays, BlocksOn DEF Dispatch
  <2> QED
    BY <1>1, <2>1 DEF Dispatch, FoundFree, Starts, BlockingStatus
<1>2. Dispatch /\ [Next]_vars =>
          [\A c, d \in Commands :
               /\ c < d /\ AgentOfCommand(c) = AgentOfCommand(d)
               /\ cmd[c].status = "retry_scheduled" /\ cmd[d].status = "pending"
               => cmd'[d].status # "leased"]_vars
  BY <1>1
<1> QED
  BY <1>2, DispatchHolds, PTL DEF Spec, NoLapping

-----------------------------------------------------------------------------
(* The attempt budget, and one letter per dead command.                     *)

LEMMA CountsStay ==
    /\ Init => Counts
    /\ Counts /\ [Next]_vars => Counts' /\ Steps
<1>1. ASSUME Init PROVE Counts
  <2>1. \A c \in Commands : Budget(c) /\ Letter(c)
    BY <1>1, SMT DEF Init, StoreInit, NoCommand, NoRetries, Budget, Letter
  <2>2. ResetWaits
    BY <1>1 DEF Init, NoRetries, ResetWaits
  <2> QED
    BY <1>1, <2>1, <2>2, CoreInit DEF Counts
<1>2. ASSUME Counts, [Next]_vars PROVE Counts' /\ Steps
  BY <1>2, CoreStep, ResetWaitsStep, BudgetStep, LetterStep DEF Counts
<1> QED
  BY <1>1, <1>2

(* What may start again has attempts left, and what has its letter is never *)
(* touched again by the retry scheduler.                                    *)
THEOREM CountsHold == Spec => []Counts
  BY CountsStay, PTL DEF Spec

(* No command is started more often than its limit, and none gets a second  *)
(* dead_letters row, on whichever of the three ways it dies.                *)
THEOREM BudgetHolds == Spec => []BudgetKept
<1>1. Counts => BudgetKept
  BY DEF Counts, Budget, Letter, BudgetKept, AttemptBudget, SingleLetter
<1> QED
  BY <1>1, CountsHold, PTL

(* Every step of the pipeline is a transaction of the store or leaves it    *)
(* alone, so what is proved of SessionStore holds of the pipeline.  The     *)
(* store's own clients must be allowed one unfenced letter per command.     *)
THEOREM StoreImplemented == ASSUME MaxLetters # 0 PROVE Spec => ImplementsStore
<1>1. ASSUME Counts, [Next]_vars PROVE [StoreNext]_storeVars
  <2>1. StoreInv /\ MemoryOK /\ Writes /\ RetrierSafe
    BY <1>1, CountsStay DEF Counts, Core, Steps
  <2>2. LettersLeft
    <3>1. SUFFICES ASSUME NEW c \in retrier.letter PROVE letters[c] < MaxLetters
      BY DEF LettersLeft
    <3>2. c \in Commands
      BY <2>1 DEF MemoryOK, RetrierRow
    <3>3. letters[c] \in Nat
      BY <2>1, <3>2, Numbers DEF StoreInv
    <3>4. letters[c] <= 1 /\ letters[c] # 1
      BY <1>1, <3>2 DEF Counts, Letter
    <3>5. MaxLetters \in Nat
      OBVIOUS
    <3> QED
      BY <3>3, <3>4, <3>5, SMTT(30)
  <2> QED
    BY <2>1, <2>2, WritesAreTransactions, LetterTransaction
<1>2. Counts /\ [Next]_vars => [StoreNext]_storeVars
  BY <1>1
<1>3. Init => StoreInit
  BY DEF Init
<1> QED
  BY <1>2, <1>3, CountsHold, PTL DEF Spec, ImplementsStore, StoreSpec

(* So the fence of the store holds in the running pipeline: while tasks,    *)
(* writer, monitor and scheduler race, no two lease transactions of a       *)
(* session are accepted at once and a refused attempt stays refused.        *)
THEOREM PipelineIsFenced ==
    ASSUME MaxLetters # 0 PROVE Spec => []OneOwnerPerSession /\ RevokedStaysRevoked
  BY StoreImplemented, SingleOwner, FencedForever, PTL DEF ImplementsStore

-----------------------------------------------------------------------------
(* The life of a command.                                                   *)

(* The pipeline implements the life of a command: a command waits, runs at  *)
(* most MaxAttempts times, and ends closed or dead for good, whatever the   *)
(* loops interleave, crash or fail to write.  Account removal is the one    *)
(* operation that may kill a waiting command which the retry scheduler has  *)
(* already read, so it is excluded.                                         *)
THEOREM LifecycleImplemented ==
    ASSUME Accounted = {} PROVE Spec => ImplementsLifecycle
<1>1. ASSUME Counts, [Next]_vars PROVE [Lifecycle!Next]_(Lifecycle!lifeVars)
  <2>0. Steps /\ TableChanges /\ Core
    BY <1>1, CountsStay DEF Steps, Counts
  <2>1. CASE \A c \in Commands : Untouched(c)
    BY <2>1, LifeStutters DEF Untouched, SameCounts
  <2>2. CASE \E c \in Commands : OneChange(c) /\ \A d \in Commands \ {c} : Untouched(d)
    BY <1>1, <2>0, <2>2, OneLife
  <2>3. ASSUME NEW B \in SUBSET Commands, \A c \in B : LeasedNow(c),
               \A c \in Commands \ B : Untouched(c)
        PROVE  Lifecycle!Next
    <3>1. Lifecycle!Moves(B, {"waiting"}, "running")
      BY <2>3, LifeMoves, LifeOfStatus DEF LeasedNow, Untouched, Active
    <3>2. ASSUME NEW c \in B PROVE cmd[c].count < MaxAttempts
      <4>1. /\ Budget(c) /\ cmd[c].count \in Nat /\ cmd[c].max \in Nat
            /\ cmd[c].status = "pending" /\ MaxAttempts \in Nat
        BY <1>1, <2>3, <3>2, Numbers DEF Counts, Core, StoreInv, LeasedNow
      <4> QED
        BY <4>1, SMT DEF Budget
    <3>3. [c \in Commands |-> cmd'[c].count] =
              [c \in Commands |-> IF c \in B THEN [d \in Commands |-> cmd[d].count][c] + 1
                                  ELSE [d \in Commands |-> cmd[d].count][c]]
      BY <2>3 DEF LeasedNow, Untouched
    <3> QED
      BY <3>1, <3>2, <3>3 DEF Lifecycle!Next, Lifecycle!Start
  <2>4. ASSUME NEW S \in SUBSET Commands, \A c \in S : Swept(c),
               \A c \in Commands \ S : Untouched(c)
        PROVE  Lifecycle!Next
    <3>1. Lifecycle!Moves(S, {"waiting", "running"}, "dead")
      BY <2>4, LifeMoves, LifeOfStatus DEF Swept, Kept, Sets, Untouched
    <3>2. [c \in Commands |-> cmd'[c].count] = [c \in Commands |-> cmd[c].count]
      BY <2>4 DEF Swept, Kept, Sets, Untouched
    <3> QED
      BY <3>1, <3>2 DEF Lifecycle!Next, Lifecycle!GiveUp
  <2>5. CASE \A c \in Commands : Untouched(c) \/ Retired(c)
    BY <2>1, <2>5 DEF Retired
  <2>6. \A g \in Agents : FoundOf(g) \in SUBSET Commands
    BY <2>0 DEF FoundOf, Core, MemoryOK
  <2> QED
    BY <2>0, <2>1, <2>2, <2>3, <2>4, <2>5, <2>6 DEF TableChanges
<1>2. ASSUME Init PROVE Lifecycle!Init
  <2>1. \A c \in Commands : cmd[c].status = "absent" /\ cmd[c].count = 0
    BY <1>2 DEF Init, StoreInit, NoCommand
  <2> QED
    BY <2>1, LifeOfStatus DEF Lifecycle!Init
<1>3. Counts /\ [Next]_vars => [Lifecycle!Next]_(Lifecycle!lifeVars)
  BY <1>1
<1>4. Init => Lifecycle!Init
  BY <1>2
<1> QED
  BY <1>3, <1>4, CountsHold, PTL DEF Spec, ImplementsLifecycle, Lifecycle!Spec

-----------------------------------------------------------------------------
(* The lease monitor, while no call fails and the process does not crash.   *)

(* As long as the process neither crashes nor loses a database call, every  *)
(* running command stays within reach of the lease monitor: its session is  *)
(* active under its epoch, or the monitor holds the expiry already.  The    *)
(* argument is that a list of expired leases holds all running members of a *)
(* batch, so the member that fences the session leaves none behind.         *)
THEOREM ActiveStaysWatched ==
    ASSUME Reliable PROVE Spec => []ActiveIsWatched
<1>1. ASSUME Init PROVE Watch
  <2>1. Dispatch
    BY <1>1, DispatchStays
  <2>2. MonitorComplete /\ ActiveIsWatched
    BY <1>1 DEF Init, StoreInit, NoCommand, MonitorComplete, ActiveIsWatched, Active
  <2> QED
    BY <2>1, <2>2 DEF Watch
<1>2. ASSUME Watch, [Next]_vars PROVE Watch'
  <2>1. Dispatch' /\ Steps /\ Core
    BY <1>2, DispatchStays DEF Watch, Dispatch
  <2> QED
    BY <1>2, <2>1, MonitorCompleteStep, WatchedStep DEF Watch
<1>3. (Init => Watch) /\ (Watch /\ [Next]_vars => Watch') /\ (Watch => ActiveIsWatched)
  BY <1>1, <1>2 DEF Watch
<1> QED
  BY <1>3, PTL DEF Spec

-----------------------------------------------------------------------------
(* Answers, while no call fails.  The process may crash.                    *)

LEMMA AnswersStep ==
    ASSUME MaxFaults = 0, Answers, [Next]_vars
    PROVE  Answers'
<1>0. Core /\ Core' /\ Steps /\ WriterMoved /\ StoreTypeOK'
  BY CoreStep DEF Answers, Steps, MemoryMoves, Core, StoreInv
<1>1. \A a \in 1 .. MaxLease : TaskAnswers(a)'
  BY <1>0, TaskAnswersStep
<1>2. ChannelAnswers' /\ Distinct' /\ WriterAnswers'
  BY <1>0, ChannelAnswersStep, DistinctStep, WriterAnswersStep
<1>3. ASSUME NEW c \in replied' PROVE cmd'[c].status \in Answerable
  BY <1>0, RepliedBefore, SucceededStays
<1>4. answered \subseteq answered'
  BY <1>0 DEF WriterMoved, WriterStops, WriterTakes, WriterAdvances, WriterCommits
<1>5. ASSUME NEW c \in Commands, cmd'[c].status = "committed" PROVE c \in answered'
  <2>1. LifeStep(c)
    BY <1>0, EveryLifeStep DEF Steps
  <2>2. cmd[c].status = "committed" \/ Commits(c)
    BY <1>5, <2>1 DEF LifeStep, Idles, Arrives, Starts, LeasedNow, Runs, Succeeds, FailsOnce,
                      IsLost, Requeues, ResetNow, GivesUp, GivenUpNow, Drops, Kept, Released,
                      Buried, Sets, Active
  <2> QED
    BY <1>4, <2>2 DEF Answers, CommittedIsAnswered, Commits, WriterAnswers
<1> QED
  BY <1>0, <1>1, <1>2, <1>3, <1>5 DEF Answers, RepliesClosed, CommittedIsAnswered

(* As long as no database call fails, a command is closed only when an      *)
(* answer that covers it was published or the agent answered by itself, for *)
(* any number of crashes.  An attempt has one result and a succeeded        *)
(* command is not run again, so the writer never finds the reply of another *)
(* attempt and closes its batch on the strength of it.                      *)
THEOREM ClosedIsAnswered ==
    ASSUME MaxFaults = 0 PROVE Spec => []CommittedIsAnswered
<1>1. ASSUME Init PROVE Answers
  <2>1. \A a \in 1 .. MaxLease : task[a] = NoTask
    BY <1>1 DEF Init
  <2>2. \A a \in 1 .. MaxLease : TaskAnswers(a)
    BY <2>1, SMTT(30) DEF TaskAnswers, NoTask
  <2>3. ChannelAnswers /\ Distinct /\ WriterAnswers
    BY <1>1, SMT DEF Init, ChannelAnswers, Distinct, WriterAnswers, NoResult
  <2>4. RepliesClosed /\ CommittedIsAnswered
    BY <1>1 DEF Init, StoreInit, NoCommand, RepliesClosed, CommittedIsAnswered
  <2> QED
    BY <1>1, <2>2, <2>3, <2>4, CoreInit DEF Answers
<1>2. Answers /\ [Next]_vars => Answers'
  BY AnswersStep
<1>3. (Init => Answers) /\ (Answers => CommittedIsAnswered)
  BY <1>1 DEF Answers
<1> QED
  BY <1>2, <1>3, PTL DEF Spec
=============================================================================
