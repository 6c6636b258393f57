-------------------------------- MODULE Cron --------------------------------
(***************************************************************************)
(* Cron jobs and the scheduler instances that claim them in batches, oldest *)
(* first, dispatch their occurrences and advance them, while owners edit or *)
(* delete jobs and schedulers crash.  Occurrences are numbered in the order *)
(* of their times; time itself is the actions that make one due and a claim *)
(* stale.                                                                  *)
(***************************************************************************)
EXTENDS Integers, FiniteSets, FiniteSetsExt

CONSTANTS
    Jobs,            \* the agent_cron_job rows
    Schedulers,      \* scheduler instances
    ClaimLimit,      \* LIMIT of a claim
    MaxOccurrence,   \* bound on occurrences
    MaxCronFaults,   \* bound on crashes and failed statements
    MaxJobEdits      \* bound on edits and deletions

VARIABLES
    job,         \* the rows
    passed,      \* the last occurrence whose time has come
    scheduler,   \* instance -> [batch: rows it claimed, done: the one dispatched]
    commands,    \* job -> occurrence -> number of agent_commands rows
    jobEdit,     \* an update_cron_job call between its two statements
    displaced,   \* history: due occurrences an owner, or another's advance, took away
    cronFaults, jobEdits

cronVars == <<job, passed, scheduler, commands, jobEdit, displaced, cronFaults, jobEdits>>

Occurrences == 1 .. MaxOccurrence
NoOccurrence == 0
NoRow == [id |-> 0, kind |-> "none", next |-> NoOccurrence]
IdleScheduler == [batch |-> {}, done |-> NoRow]
NoEdit == [id |-> 0]

CronTypeOK ==
    /\ \A j \in Jobs :
           /\ job[j].kind \in {"at", "every", "deleted"} /\ job[j].enabled \in BOOLEAN
           /\ job[j].next \in 0 .. MaxOccurrence /\ job[j].running \in {"no", "fresh", "stale"}
    /\ passed \in 0 .. MaxOccurrence
    /\ \A s \in Schedulers : /\ Cardinality(scheduler[s].batch) <= ClaimLimit
                             /\ scheduler[s].done \in scheduler[s].batch \cup {NoRow}
    /\ commands \in [Jobs -> [Occurrences -> Nat]]

CronInit ==
    /\ job \in [Jobs -> {[kind |-> kind, enabled |-> TRUE, next |-> 1, running |-> "no"] :
                              kind \in {"at", "every"}}]
    /\ passed = 0
    /\ scheduler = [s \in Schedulers |-> IdleScheduler]
    /\ commands = [j \in Jobs |-> [o \in Occurrences |-> 0]]
    /\ jobEdit = NoEdit
    /\ displaced = {}
    /\ cronFaults = 0 /\ jobEdits = 0

CronFault == cronFaults < MaxCronFaults /\ cronFaults' = cronFaults + 1

-----------------------------------------------------------------------------
(* Time.                                                                   *)

OccurrenceComes ==
    /\ passed < MaxOccurrence
    /\ passed' = passed + 1
    /\ UNCHANGED <<job, scheduler, commands, jobEdit, displaced, cronFaults, jobEdits>>

ClaimAges(j) ==
    /\ job[j].running = "fresh"
    /\ job' = [job EXCEPT ![j].running = "stale"]
    /\ UNCHANGED <<passed, scheduler, commands, jobEdit, displaced, cronFaults, jobEdits>>

\* The instants a schedule may yield, all strictly in the future; past the
\* bound a schedule has no next occurrence.
next_run_at == IF passed < MaxOccurrence THEN passed + 1 .. MaxOccurrence ELSE {NoOccurrence}

-----------------------------------------------------------------------------
(* check_and_dispatch_due_jobs, one statement or transaction per step.     *)

IsDue(j) == /\ job[j].kind # "deleted" /\ job[j].enabled
            /\ job[j].next # NoOccurrence /\ job[j].next <= passed

\* The due occurrences that the step takes out of the table.
DueNow == {<<j, job[j].next>> : j \in {k \in Jobs : IsDue(k)}}

\* Wrong version: only unclaimed jobs are taken.
Claimable_unclaimed == {j \in Jobs : IsDue(j) /\ job[j].running = "no"}

\* A due job that nobody runs, or whose claim is stale.
Claimable == {j \in Jobs : IsDue(j) /\ job[j].running \in {"no", "stale"}}

\* ORDER BY next_run_at LIMIT: the oldest claimable jobs.
OldestFirst(batch) ==
    /\ batch \subseteq Claimable
    /\ Cardinality(batch) = Min({ClaimLimit, Cardinality(Claimable)})
    /\ \A j \in batch, k \in Claimable \ batch : job[j].next <= job[k].next

\* A stale claim keeps its old time, so that every instance may take the job
\* again.  Rows are returned, and worked on, in any order.
claim_due_jobs(s) ==
    /\ scheduler[s].batch = {} /\ Claimable # {}
    /\ \E batch \in SUBSET Jobs :
           /\ OldestFirst(batch)
           /\ job' = [j \in Jobs |-> IF j \in batch /\ job[j].running = "no"
                                     THEN [job[j] EXCEPT !.running = "fresh"] ELSE job[j]]
           /\ scheduler' = [scheduler EXCEPT ![s].batch =
                  {[id |-> j, kind |-> job[j].kind, next |-> job[j].next] : j \in batch}]
    /\ UNCHANGED <<passed, commands, jobEdit, displaced, cronFaults, jobEdits>>

\* Wrong version: the occurrence's command is inserted unconditionally.
dispatch_cron_occurrence_always(s, row) ==
    /\ scheduler[s].done = NoRow
    /\ commands' = [commands EXCEPT ![row.id][row.next] = @ + 1]
    /\ scheduler' = [scheduler EXCEPT ![s].done = row]
    /\ UNCHANGED <<job, passed, jobEdit, displaced, cronFaults, jobEdits>>

\* One transaction under the lock of the occurrence's key: the session, the
\* announcement and the command, unless the occurrence already has one.
dispatch_cron_occurrence(s, row) ==
    /\ scheduler[s].done = NoRow
    /\ commands' = [commands EXCEPT ![row.id][row.next] = IF @ = 0 THEN 1 ELSE @]
    /\ scheduler' = [scheduler EXCEPT ![s].done = row]
    /\ UNCHANGED <<job, passed, jobEdit, displaced, cronFaults, jobEdits>>

\* The claim is cleared and the next row follows.
DispatchFails(s, row) ==
    /\ scheduler[s].done = NoRow /\ CronFault
    /\ job' = IF job[row.id].kind = "deleted" THEN job
              ELSE [job EXCEPT ![row.id].running = "no"]
    /\ scheduler' = [scheduler EXCEPT ![s].batch = @ \ {row}]
    /\ UNCHANGED <<passed, commands, jobEdit, displaced, jobEdits>>

NextRow(s) == scheduler' = [scheduler EXCEPT ![s] = [batch |-> @.batch \ {@.done}, done |-> NoRow]]

\* The row is advanced from the schedule that was claimed, whatever it holds
\* by now: a one-shot job is disabled, a recurring one gets its next time.
AdvanceJob(s) ==
    LET row == scheduler[s].done
        old == job[row.id]
    IN  /\ row # NoRow
        /\ IF old.kind = "deleted" THEN job' = job
           ELSE IF row.kind = "at"
                THEN job' = [job EXCEPT ![row.id] =
                                [@ EXCEPT !.running = "no", !.enabled = FALSE, !.next = NoOccurrence]]
                ELSE \E o \in next_run_at :
                         job' = [job EXCEPT ![row.id] = [@ EXCEPT !.running = "no", !.next = o]]
        /\ displaced' = displaced \cup {d \in DueNow : d[1] = row.id /\ d[2] # row.next}
        /\ NextRow(s)
        /\ UNCHANGED <<passed, commands, jobEdit, cronFaults, jobEdits>>

\* The statement fails and nobody looks: the claim stays until it is stale.
AdvanceFails(s) ==
    /\ scheduler[s].done # NoRow /\ CronFault
    /\ NextRow(s)
    /\ UNCHANGED <<job, passed, commands, jobEdit, displaced, jobEdits>>

SchedulerCrashes(s) ==
    /\ scheduler[s].batch # {} /\ CronFault
    /\ scheduler' = [scheduler EXCEPT ![s] = IdleScheduler]
    /\ UNCHANGED <<job, passed, commands, jobEdit, displaced, jobEdits>>

-----------------------------------------------------------------------------
(* The owners of the jobs: the handlers of the gateway.                    *)

\* update_cron_job computes the next time first, when the schedule changes.
update_cron_job(j) ==
    /\ job[j].kind # "deleted" /\ jobEdit = NoEdit /\ jobEdits < MaxJobEdits
    /\ \E kind \in {"same", "at", "every"}, enabled \in {"same", "on", "off"} :
           \E o \in IF kind = "same" THEN {NoOccurrence} ELSE next_run_at \ {NoOccurrence} :
               jobEdit' = [id |-> j, kind |-> kind, enabled |-> enabled, next |-> o]
    /\ jobEdits' = jobEdits + 1
    /\ UNCHANGED <<job, passed, scheduler, commands, displaced, cronFaults>>

\* The row is written in a second statement, without looking at its claim; a
\* field that the request leaves out keeps its value.
Edited(row) ==
    [row EXCEPT !.kind = IF jobEdit.kind = "same" THEN @ ELSE jobEdit.kind,
                !.enabled = CASE jobEdit.enabled = "same" -> @
                              [] jobEdit.enabled = "on" -> TRUE
                              [] jobEdit.enabled = "off" -> FALSE,
                !.next = IF jobEdit.next = NoOccurrence THEN @ ELSE jobEdit.next]

WriteJobEdit ==
    /\ jobEdit # NoEdit
    /\ LET j   == jobEdit.id
           row == IF job[j].kind = "deleted" THEN job[j] ELSE Edited(job[j])
       IN  /\ job' = [job EXCEPT ![j] = row]
           /\ displaced' = displaced \cup {d \in DueNow : d[1] = j /\ (d[2] # row.next \/ ~row.enabled)}
    /\ jobEdit' = NoEdit
    /\ UNCHANGED <<passed, scheduler, commands, cronFaults, jobEdits>>

delete_cron_job(j) ==
    /\ job[j].kind # "deleted" /\ jobEdits < MaxJobEdits
    /\ job' = [job EXCEPT ![j].kind = "deleted"]
    /\ displaced' = displaced \cup {d \in DueNow : d[1] = j}
    /\ jobEdits' = jobEdits + 1
    /\ UNCHANGED <<passed, scheduler, commands, jobEdit, cronFaults>>

CronNext ==
    \/ OccurrenceComes
    \/ \E j \in Jobs : ClaimAges(j) \/ update_cron_job(j) \/ delete_cron_job(j)
    \/ WriteJobEdit
    \/ \E s \in Schedulers :
           \/ claim_due_jobs(s) \/ AdvanceJob(s) \/ AdvanceFails(s) \/ SchedulerCrashes(s)
           \/ \E row \in scheduler[s].batch : dispatch_cron_occurrence(s, row) \/ DispatchFails(s, row)

SchedulerStep(s) ==
    \/ claim_due_jobs(s) \/ AdvanceJob(s)
    \/ \E row \in scheduler[s].batch : dispatch_cron_occurrence(s, row)

-----------------------------------------------------------------------------
\* An occurrence becomes at most one command, although several schedulers may
\* hold the same stale claim, crash after the dispatch, fail to advance the
\* job, or find the occurrence due again after an edit.
OneCommandPerOccurrence == \A j \in Jobs, o \in Occurrences : commands[j][o] <= 1

\* A due occurrence gets its command although the scheduler that claimed it
\* died and older jobs fill its batches.  Two things may take it away before:
\* its owner moves, disables or deletes the job, or a scheduler that still
\* holds the claim of another occurrence of the job advances the row.
DueJobIsDispatched ==
    \A j \in Jobs, o \in Occurrences :
        (<<j, o>> \in DueNow) ~> (commands[j][o] > 0 \/ <<j, o>> \in displaced)
=============================================================================
