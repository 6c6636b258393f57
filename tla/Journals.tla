------------------------------ MODULE Journals -------------------------------
(***************************************************************************)
(* The local log of turns (SQLite files) and its recovery. A pipeline that *)
(* starts goes through the files and marks as failed what the log shows    *)
(* begun and not ended. The process can crash between any two statements,  *)
(* a write can fail, a file may not open, the directory may not be read.   *)
(*                                                                         *)
(* The program of today writes nothing but the marks of the recovery: the  *)
(* other operations of AdapterWal are called by tests only. They appear    *)
(* here as what a client of the library may do to a log, in any order,     *)
(* once the recovery of its process is over.                               *)
(***************************************************************************)
EXTENDS Integers, FiniteSets

CONSTANTS
    WalTurns, WalAttempts,
    WalFiles,                \* databases; a turn is logged in the file of its number
    MaxWalFaults             \* bound on crashes and failures

VARIABLES
    wal,        \* rows: turn, attempt, event
    oldRows,    \* rows older than the age cleanup is given
    started,    \* history: attempts whose start was logged since the process began
    scanQueue,  \* files the recovery scan has still to open
    found,      \* incomplete attempts the scan read in the file it is at
    scanErrors, \* RecoveryReport.errors > 0
    walFaults   \* bound

walVars == <<wal, oldRows, started, scanQueue, found, scanErrors, walFaults>>

EventTypes == {"start", "finished", "failed"}   \* chunk rows take part in no query
Rows_ == WalTurns \X WalAttempts \X EventTypes
FileOf(t) == IF t \in WalFiles THEN t ELSE CHOOSE f \in WalFiles : TRUE
Scanning == scanQueue # {} \/ found # {}

TurnWalTypeOK ==
    /\ wal \subseteq Rows_ /\ oldRows \subseteq wal
    /\ started \subseteq WalTurns \X WalAttempts
    /\ scanQueue \subseteq WalFiles /\ found \subseteq WalTurns \X WalAttempts

TurnWalInit ==
    /\ wal = {} /\ oldRows = {} /\ started = {} /\ scanQueue = WalFiles
    /\ found = {} /\ scanErrors = FALSE /\ walFaults = 0

\* INSERT OR REPLACE: the row is there, and new.
Insert(t, a, e) == wal' = wal \cup {<<t, a, e>>} /\ oldRows' = oldRows \ {<<t, a, e>>}

log_turn_start(t, a) ==
    /\ ~Scanning /\ Insert(t, a, "start") /\ started' = started \cup {<<t, a>>}
    /\ UNCHANGED <<scanQueue, found, scanErrors, walFaults>>

\* log_turn_finished and log_turn_failed.
log_turn_end(t, a, e) ==
    /\ ~Scanning /\ Insert(t, a, e)
    /\ UNCHANGED <<started, scanQueue, found, scanErrors, walFaults>>

Ages == /\ oldRows # wal /\ oldRows' = wal
        /\ UNCHANGED <<wal, started, scanQueue, found, scanErrors, walFaults>>


\* All rows of a turn with an attempt that ended long ago, those of its other attempts too.
CleanedRows ==
    {r \in wal : \E a \in WalAttempts, e \in {"finished", "failed"} : <<r[1], a, e>> \in oldRows}

cleanup ==
    /\ ~Scanning /\ CleanedRows # {}
    /\ wal' = wal \ CleanedRows /\ oldRows' = oldRows \ CleanedRows
    /\ UNCHANGED <<started, scanQueue, found, scanErrors, walFaults>>

-----------------------------------------------------------------------------
(* Recovery at startup.                                                    *)

find_incomplete_turns(f) ==
    {x \in WalTurns \X WalAttempts :
        /\ FileOf(x[1]) = f /\ <<x[1], x[2], "start">> \in wal
        /\ \A e \in {"finished", "failed"} : <<x[1], x[2], e>> \notin wal}

Faulted == walFaults < MaxWalFaults /\ walFaults' = walFaults + 1

\* A file is opened and read; one that cannot be is an error, and the scan goes on.
ScanFile(f) ==
    /\ f \in scanQueue /\ found = {} /\ scanQueue' = scanQueue \ {f}
    /\ \/ found' = find_incomplete_turns(f) /\ UNCHANGED <<scanErrors, walFaults>>
       \/ Faulted /\ scanErrors' = TRUE /\ UNCHANGED found
    /\ UNCHANGED <<wal, oldRows, started>>

\* The directory cannot be read, or not to its end.
ScanBreaks ==
    /\ scanQueue # {} /\ found = {} /\ Faulted
    /\ scanQueue' = {} /\ scanErrors' = TRUE
    /\ UNCHANGED <<wal, oldRows, started, found>>

MarkFailed(x) ==
    /\ x \in found /\ found' = found \ {x}
    /\ \/ Insert(x[1], x[2], "failed") /\ UNCHANGED <<scanErrors, walFaults>>
       \/ Faulted /\ scanErrors' = TRUE /\ UNCHANGED <<wal, oldRows>>
    /\ UNCHANGED <<started, scanQueue>>

\* The process crashes, and the next one starts with a scan.
WalCrash ==
    /\ Faulted
    /\ started' = {} /\ found' = {} /\ scanQueue' = WalFiles /\ scanErrors' = FALSE
    /\ UNCHANGED <<wal, oldRows>>

TurnWalNext ==
    \/ Ages \/ cleanup \/ WalCrash \/ ScanBreaks
    \/ \E t \in WalTurns, a \in WalAttempts :
          \/ log_turn_start(t, a) \/ MarkFailed(<<t, a>>)
          \/ \E e \in {"finished", "failed"} : log_turn_end(t, a, e)
    \/ \E f \in WalFiles : ScanFile(f)

-----------------------------------------------------------------------------
(* Properties.                                                             *)

\* After a recovery that reports no error no attempt of an earlier process is left open in
\* any file, whatever the log held, also when earlier recoveries were cut short by a crash or
\* failed half-way, and also after a cleanup: it cannot take the end of an attempt and leave
\* its start.
RecoveryIsComplete ==
    ~Scanning /\ ~scanErrors => \A f \in WalFiles : find_incomplete_turns(f) \subseteq started

-----------------------------------------------------------------------------
(***************************************************************************)
(* The tool gateway: callers that may repeat one mutating tool call, and   *)
(* the effect journal that keeps it from being run twice. A caller reads   *)
(* the journal, inserts the effect, claims it, runs the tool and records   *)
(* what came out; others do the same in between, and a caller can be gone  *)
(* between any two steps.                                                  *)
(***************************************************************************)

CONSTANTS
    ToolCallers,    \* workers that execute the same tool_call_id
    MaxToolFaults   \* bound on callers that disappear and on results that are not recorded

VARIABLES
    effect,       \* the journal's row: status and output
    oldEffect,    \* its created_at is more than STALE_EXECUTING_TIMEOUT ago
    caller,       \* worker -> where it is in execute, and the output it has
    toolAnswers,  \* history: outputs that callers were answered with
    toolRuns,     \* history: executions of the tool that began
    toolFaults    \* bound

toolVars == <<effect, oldEffect, caller, toolAnswers, toolRuns, toolFaults>>

NoOutput == 0
NoEffect == [status |-> "absent", output |-> NoOutput]
Away == [at |-> "away", output |-> NoOutput]
EffectStatus == {"absent", "pending", "executing", "succeeded", "failed"}

ToolEffectsTypeOK ==
    /\ effect.status \in EffectStatus /\ oldEffect \in BOOLEAN
    /\ \A w \in ToolCallers : caller[w].at \in {"away", "inserting", "claiming", "raced", "running", "succeeded", "failed"}
    /\ toolRuns \in Nat /\ toolFaults \in 0 .. MaxToolFaults

ToolEffectsInit ==
    /\ effect = NoEffect /\ oldEffect = FALSE /\ caller = [w \in ToolCallers |-> Away]
    /\ toolAnswers = {} /\ toolRuns = 0 /\ toolFaults = 0

At_(w, at) == caller' = [caller EXCEPT ![w] = [@ EXCEPT !.at = at]]

\* The caller is answered with an output, or with an error.
Answered(w, output) ==
    /\ caller' = [caller EXCEPT ![w] = Away]
    /\ toolAnswers' = toolAnswers \cup {output}

Refuse(w) == caller' = [caller EXCEPT ![w] = Away] /\ UNCHANGED toolAnswers

-----------------------------------------------------------------------------
\* execute reads the journal: a result answers at once, an execution that is not old is left
\* alone; what failed, what is pending and what is old goes on to the claim.
get_effect(w) ==
    /\ caller[w].at = "away"
    /\ CASE effect.status = "absent" -> At_(w, "inserting") /\ UNCHANGED toolAnswers
         [] effect.status = "succeeded" -> Answered(w, effect.output)
         [] effect.status = "executing" /\ ~oldEffect -> Refuse(w)
         [] OTHER -> At_(w, "claiming") /\ UNCHANGED toolAnswers
    /\ UNCHANGED <<effect, oldEffect, toolRuns, toolFaults>>

insert_effect(w) ==
    /\ caller[w].at = "inserting"
    /\ IF effect.status = "absent"
       THEN effect' = [status |-> "pending", output |-> NoOutput] /\ At_(w, "claiming")
       ELSE At_(w, "raced") /\ UNCHANGED effect
    /\ UNCHANGED <<oldEffect, toolAnswers, toolRuns, toolFaults>>

\* Wrong version: whatever has not succeeded can be claimed.
Claimable_any == effect.status # "succeeded"

\* One update, of a pending row.
Claimable == effect.status = "pending"

claim_effect(w) ==
    /\ caller[w].at = "claiming"
    /\ IF Claimable
       THEN /\ effect' = [effect EXCEPT !.status = "executing"]
            /\ At_(w, "running") /\ toolRuns' = toolRuns + 1
       ELSE At_(w, "raced") /\ UNCHANGED <<effect, toolRuns>>
    /\ UNCHANGED <<oldEffect, toolAnswers, toolFaults>>

\* Another has the effect: its result answers, and everything else is "still executing".
handle_race_on_insert(w) ==
    /\ caller[w].at = "raced"
    /\ IF effect.status = "succeeded" THEN Answered(w, effect.output) ELSE Refuse(w)
    /\ UNCHANGED <<effect, oldEffect, toolRuns, toolFaults>>

\* external: the tool runs, and its output names the execution it comes from.
ToolExecutes(w) ==
    /\ caller[w].at = "running"
    /\ \/ caller' = [caller EXCEPT ![w] = [at |-> "succeeded", output |-> toolRuns]]
       \/ At_(w, "failed")
    /\ UNCHANGED <<effect, oldEffect, toolAnswers, toolRuns, toolFaults>>

\* update_effect_result.
Recorded(w, status) == [status |-> status, output |-> caller[w].output]

RecordSuccess(w) ==
    /\ caller[w].at = "succeeded"
    /\ effect' = Recorded(w, "succeeded") /\ Answered(w, caller[w].output)
    /\ UNCHANGED <<oldEffect, toolRuns, toolFaults>>

RecordFailure(w) ==
    /\ caller[w].at = "failed"
    /\ effect' = Recorded(w, "failed") /\ Refuse(w)
    /\ UNCHANGED <<oldEffect, toolRuns, toolFaults>>

\* The caller is gone, or its result cannot be recorded and it is answered with an error.
CallerFails(w) ==
    /\ caller[w].at # "away" /\ toolFaults < MaxToolFaults /\ toolFaults' = toolFaults + 1
    /\ Refuse(w)
    /\ UNCHANGED <<effect, oldEffect, toolRuns>>

EffectAges == effect.status # "absent" /\ ~oldEffect /\ oldEffect' = TRUE /\ UNCHANGED <<effect, caller, toolAnswers, toolRuns, toolFaults>>

CallerStep(w) ==
    \/ get_effect(w) \/ insert_effect(w) \/ claim_effect(w) \/ handle_race_on_insert(w)
    \/ ToolExecutes(w) \/ RecordSuccess(w) \/ RecordFailure(w)

ToolEffectsNext == EffectAges \/ \E w \in ToolCallers : CallerStep(w) \/ CallerFails(w)

-----------------------------------------------------------------------------
(* Properties.                                                             *)

\* The tool is run by one caller at a time, and not again once it succeeded.
ToolRunsOnce ==
    /\ Cardinality({w \in ToolCallers : caller[w].at = "running"}) <= 1
    /\ effect.status = "succeeded" => \A w \in ToolCallers : caller[w].at # "running"

\* Every caller that gets an answer gets the same one, also the ones that lost a race or came
\* later and were answered from the journal.
CallersAgree == Cardinality(toolAnswers) <= 1 /\ NoOutput \notin toolAnswers

=============================================================================
