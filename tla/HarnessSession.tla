--------------------------- MODULE HarnessSession ---------------------------
(***************************************************************************)
(* One binding on its execution device: the structured harness process and *)
(* its journal, the interactive terminal that must never run beside it,    *)
(* the reservation of a turn while it is prepared, approvals, crashes, and *)
(* the removal of the account both run under.                              *)
(***************************************************************************)
EXTENDS Integers, FiniteSets

CONSTANTS
    Subs,         \* submission ids
    Preps,        \* concurrent calls that send a turn after a preparation
    MaxInst,      \* bound on process instances
    MaxRes,       \* bound on reservations
    MaxHsFaults   \* bound on crashes and failed writes

VARIABLES
    status, inst,      \* SessionSnapshot.status ("none": no entry) and instance
    live,              \* the structured process runs
    turns,             \* native turns in flight in it
    request,           \* it waits for an approval
    subs, journal,     \* submissions in memory and in the saved session
    pre, lastRes,      \* preflight reservation and the ids given out
    leases,            \* reservations whose owner will still drop them
    prep,              \* call -> its preparation in progress
    seen,              \* the instance whose approval a client looks at
    pty,               \* the terminal's child runs
    admitted,          \* a launch between its admission and its spawn
    retired, removed,  \* the account's scope is fenced; its removal returned
    delivered,         \* history: submission -> times written to a process
    misdirected,       \* history: an approval reached another instance
    hsFaults

procVars == <<live, turns, request, pty, admitted, retired, removed>>
sessVars == <<status, inst, subs, journal, pre, lastRes, leases, prep, seen>>
hsVars == <<procVars, sessVars, delivered, misdirected, hsFaults>>

NoRes == 0
IdlePrep == [at |-> "idle"]

HarnessTypeOK ==
    /\ status \in {"none", "connecting", "ready", "running", "waiting", "failed", "closed"}
    /\ inst \in 0 .. MaxInst /\ seen \in 0 .. MaxInst
    /\ {live, request, pty, retired, removed, misdirected} \subseteq BOOLEAN
    /\ admitted \in {"none", "session", "terminal"}
    /\ turns \in Nat /\ pre \in 0 .. MaxRes /\ leases \subseteq 1 .. MaxRes
    /\ subs \in [Subs -> 0 .. MaxInst] /\ journal \in [Subs -> 0 .. MaxInst]

HarnessInit ==
    /\ status = "none" /\ inst = 0 /\ live = FALSE /\ turns = 0 /\ request = FALSE
    /\ subs = [x \in Subs |-> 0] /\ journal = subs
    /\ pre = NoRes /\ lastRes = 0 /\ leases = {} /\ prep = [c \in Preps |-> IdlePrep]
    /\ seen = 0 /\ pty = FALSE /\ admitted = "none" /\ retired = FALSE /\ removed = FALSE
    /\ delivered = [x \in Subs |-> 0] /\ misdirected = FALSE /\ hsFaults = 0

-----------------------------------------------------------------------------
(* Launching either process holds the terminal pool's lock from admission  *)
(* to spawn, so no launch, close or send comes between.                    *)

\* process_scope::Job::begin.
Begin == admitted = "none" /\ ~retired

\* ensure: a live terminal is never replaced; a live session is reattached
\* (no change); a failed or closed one is stopped first.
ensure_inner ==
    /\ Begin /\ ~pty /\ inst < MaxInst
    /\ ~(live /\ status \notin {"failed", "closed"})
    /\ admitted' = "session"
    /\ live' = FALSE /\ turns' = 0 /\ request' = FALSE
    /\ UNCHANGED <<sessVars, pty, retired, removed, delivered, misdirected, hsFaults>>

\* The saved submissions come back with a new instance; a scope retired in
\* the meantime stops the child again.
SpawnSession ==
    /\ admitted = "session" /\ admitted' = "none"
    /\ IF retired
       THEN UNCHANGED <<status, inst, subs, live>>
       ELSE /\ status' = "connecting" /\ inst' = inst + 1 /\ live' = TRUE /\ subs' = journal
    /\ pre' = IF retired THEN pre ELSE NoRes
    /\ UNCHANGED <<journal, lastRes, leases, prep, seen, turns, request, pty, retired, removed,
                   delivered, misdirected, hsFaults>>

ensure_terminal ==
    /\ Begin /\ ~pty /\ ~live
    /\ admitted' = "terminal"
    /\ UNCHANGED <<sessVars, live, turns, request, pty, retired, removed, delivered, misdirected, hsFaults>>

SpawnTerminal ==
    /\ admitted = "terminal" /\ admitted' = "none"
    /\ pty' = ~retired
    /\ UNCHANGED <<sessVars, live, turns, request, retired, removed, delivered, misdirected, hsFaults>>

\* close_terminal stops both; the session is saved as closed and forgotten.
close_terminal ==
    /\ admitted = "none" /\ (pty \/ status # "none")
    /\ pty' = FALSE /\ live' = FALSE /\ turns' = 0 /\ request' = FALSE
    /\ status' = "none" /\ pre' = NoRes
    /\ journal' = IF status = "none" THEN journal ELSE subs
    /\ UNCHANGED <<admitted, retired, removed, inst, subs, lastRes, leases, prep, seen,
                   delivered, misdirected, hsFaults>>

\* close_account: the fence first, then everything found is closed, then
\* every admitted job must have been released.
retire ==
    /\ ~retired /\ retired' = TRUE
    /\ UNCHANGED <<sessVars, live, turns, request, pty, admitted, removed, delivered, misdirected, hsFaults>>

close_account ==
    /\ retired /\ ~removed /\ admitted = "none" /\ ~pty /\ status = "none"
    /\ removed' = TRUE
    /\ UNCHANGED <<sessVars, live, turns, request, pty, admitted, retired, delivered, misdirected, hsFaults>>

-----------------------------------------------------------------------------
Fails == hsFaults < MaxHsFaults /\ hsFaults' = hsFaults + 1

(* The harness: Session::receive and the reader thread.                    *)

receive(next) ==
    /\ live /\ admitted = "none"
    /\ status' = next
    /\ UNCHANGED <<inst, subs, journal, pre, lastRes, leases, prep, seen, live, pty, admitted,
                   retired, removed, delivered, misdirected, hsFaults>>

Initialized == status = "connecting" /\ receive("ready") /\ UNCHANGED <<turns, request>>

\* The process asks for an approval, or ends its turn.
Asks == turns > 0 /\ ~request /\ receive("waiting") /\ request' = TRUE /\ UNCHANGED turns
TurnEnds ==
    \E ok \in BOOLEAN : /\ turns > 0 /\ receive(IF ok THEN "ready" ELSE "failed")
                        /\ turns' = turns - 1 /\ request' = FALSE

\* The process exits, or does not initialize within 90 seconds.
ProcessDies ==
    /\ live /\ admitted = "none" /\ Fails
    /\ live' = FALSE /\ turns' = 0 /\ request' = FALSE
    /\ status' = IF status = "closed" THEN status ELSE "failed"
    /\ UNCHANGED <<inst, subs, journal, pre, lastRes, leases, prep, seen, pty, admitted, retired,
                   removed, delivered, misdirected>>

TerminalExits ==
    /\ pty /\ pty' = FALSE
    /\ UNCHANGED <<sessVars, live, turns, request, admitted, retired, removed, delivered, misdirected, hsFaults>>

\* The device restarts: what is not in the journal is gone, the fence of an
\* unfinished removal too.
HostCrashes ==
    /\ Fails
    /\ status' = "none" /\ live' = FALSE /\ turns' = 0 /\ request' = FALSE
    /\ pre' = NoRes /\ leases' = {} /\ prep' = [c \in Preps |-> IdlePrep]
    /\ pty' = FALSE /\ admitted' = "none"
    /\ retired' = removed
    /\ UNCHANGED <<inst, subs, journal, lastRes, seen, removed, delivered, misdirected>>

-----------------------------------------------------------------------------
(* Sending a turn, directly or after a preparation.                        *)

Delivered(x) == delivered' = [delivered EXCEPT ![x] = @ + 1]

\* The claim is persisted, then the turn is written. A failed save leaves
\* the turn running in memory and unwritten; a failed write is unconfirmed,
\* the harness may have read it.
Submit(x) ==
    /\ subs[x] = 0
    /\ subs' = [subs EXCEPT ![x] = inst]
    /\ \/ /\ live /\ status' = "running" /\ journal' = subs'
          /\ Delivered(x) /\ turns' = turns + 1 /\ UNCHANGED hsFaults
       \/ /\ Fails /\ status' = "running" /\ UNCHANGED <<journal, turns, delivered>>
       \/ /\ status' = "failed" /\ journal' = subs' /\ UNCHANGED turns
          /\ \/ Fails /\ (Delivered(x) \/ UNCHANGED delivered)
             \/ ~live /\ UNCHANGED <<delivered, hsFaults>>

\* A submission that is known already is answered, or refused because its
\* delivery by an earlier instance cannot be confirmed: neither sends it.
SendPlain(x) ==
    /\ admitted = "none" /\ pre = NoRes /\ status = "ready"
    /\ Submit(x)
    /\ UNCHANGED <<inst, pre, lastRes, leases, prep, seen, live, request, pty, admitted, retired,
                   removed, misdirected>>

\* reserve: the turn is taken before its preparation; a timer drops it.
reserve ==
    /\ admitted = "none" /\ status = "ready" /\ pre = NoRes /\ lastRes < MaxRes
    /\ lastRes' = lastRes + 1 /\ pre' = lastRes' /\ leases' = leases \cup {lastRes'}
    /\ status' = "running"
    /\ UNCHANGED <<procVars, inst, subs, journal, prep, seen, delivered, misdirected, hsFaults>>

\* execute with a preparation, on a reservation of its own or an earlier one.
BeginPreparation(c, x) ==
    /\ admitted = "none" /\ prep[c].at = "idle" /\ subs[x] = 0
    /\ \/ /\ status = "ready" /\ lastRes < MaxRes
          /\ lastRes' = lastRes + 1 /\ pre' = lastRes' /\ status' = "running"
       \/ /\ status = "running" /\ pre # NoRes /\ UNCHANGED <<lastRes, pre, status>>
    /\ prep' = [prep EXCEPT ![c] = [at |-> "preparing", res |-> pre', sub |-> x, inst |-> inst]]
    /\ UNCHANGED <<procVars, inst, subs, journal, leases, seen, delivered, misdirected, hsFaults>>

\* command_prepared: only the owner of the current reservation, in the same
\* instance, sends; the reservation ends with it.
FinishPreparation(c) ==
    LET p == prep[c]
    IN  /\ admitted = "none" /\ p.at = "preparing"
        /\ prep' = [prep EXCEPT ![c] = IdlePrep]
        /\ IF pre = p.res /\ status = "running" /\ inst = p.inst /\ subs[p.sub] = 0
           THEN pre' = NoRes /\ Submit(p.sub)
           ELSE UNCHANGED <<pre, status, subs, journal, delivered, turns, hsFaults>>
        /\ UNCHANGED <<inst, lastRes, leases, seen, live, request, pty, admitted, retired, removed, misdirected>>

\* Wrong version: any late drop frees the turn.
DropReservation_any(r) ==
    /\ pre' = NoRes
    /\ status' = IF status = "running" THEN "ready" ELSE status

\* PreflightReservation::drop frees the turn only if it is still the owner.
DropReservation(r) ==
    IF pre = r
    THEN pre' = NoRes /\ status' = IF status = "running" THEN "ready" ELSE status
    ELSE UNCHANGED <<pre, status>>

PreparationFails(c) ==
    /\ admitted = "none" /\ prep[c].at = "preparing"
    /\ DropReservation(prep[c].res)
    /\ prep' = [prep EXCEPT ![c] = IdlePrep]
    /\ UNCHANGED <<procVars, inst, subs, journal, lastRes, leases, seen, delivered, misdirected, hsFaults>>

LeaseExpires(r) ==
    /\ admitted = "none" /\ r \in leases
    /\ DropReservation(r) /\ leases' = leases \ {r}
    /\ UNCHANGED <<procVars, inst, subs, journal, lastRes, prep, seen, delivered, misdirected, hsFaults>>

\* Interrupt cancels a preparation; of a running turn it asks the harness.
Interrupt ==
    /\ admitted = "none" /\ pre # NoRes
    /\ pre' = NoRes /\ status' = "ready"
    /\ UNCHANGED <<procVars, inst, subs, journal, lastRes, leases, prep, seen, delivered, misdirected, hsFaults>>

\* Close refuses while a turn runs.
CloseSession ==
    /\ admitted = "none" /\ status \in {"ready", "failed", "connecting"} /\ live
    /\ status' = "closed" /\ live' = FALSE /\ turns' = 0 /\ request' = FALSE /\ journal' = subs
    /\ UNCHANGED <<inst, subs, pre, lastRes, leases, prep, seen, pty, admitted, retired, removed,
                   delivered, misdirected, hsFaults>>

-----------------------------------------------------------------------------
(* Approvals: a client looks at a request, and answers it later.           *)

Look ==
    /\ request /\ seen' = inst
    /\ UNCHANGED <<procVars, status, inst, subs, journal, pre, lastRes, leases, prep, delivered, misdirected, hsFaults>>

\* Request ids repeat from one instance to the next.
Answered ==
    /\ admitted = "none" /\ seen # 0 /\ request /\ live
    /\ misdirected' = (misdirected \/ seen # inst)
    /\ request' = FALSE /\ seen' = 0
    /\ status' = "running"
    /\ UNCHANGED <<inst, subs, journal, pre, lastRes, leases, prep, live, turns, pty, admitted,
                   retired, removed, delivered, hsFaults>>

\* The command names the instance its sender saw.
Respond == seen = inst /\ Answered

HarnessNext ==
    \/ ensure_inner \/ SpawnSession \/ ensure_terminal \/ SpawnTerminal
    \/ close_terminal \/ retire \/ close_account
    \/ Initialized \/ Asks \/ TurnEnds \/ ProcessDies \/ TerminalExits \/ HostCrashes
    \/ \E x \in Subs : SendPlain(x) \/ \E c \in Preps : BeginPreparation(c, x)
    \/ \E c \in Preps : FinishPreparation(c) \/ PreparationFails(c)
    \/ reserve \/ (\E r \in leases : LeaseExpires(r)) \/ Interrupt \/ CloseSession
    \/ Look \/ Respond

-----------------------------------------------------------------------------
\* A submission reaches a harness at most once, whatever is retried and
\* wherever the device dies: an unconfirmed delivery is never replayed.
TurnIsPaidOnce == \A x \in Subs : delivered[x] <= 1

\* A process never has two turns in flight, and none while one is prepared:
\* the status that admits a turn is not freed by a reservation of the past.
OneTurnAtATime == turns <= 1 /\ (turns = 1 /\ live => pre = NoRes \/ status # "running")

\* The terminal and the structured process of a binding never run together.
OneProcessPerBinding == ~(pty /\ live)

\* Once the removal of an account returned, none of its processes runs and
\* none can be launched, also by a launch admitted before the removal began.
RemovedAccountIsIdle == removed => ~pty /\ ~live /\ admitted = "none"

\* An approval only ever reaches the process instance that asked for it.
ApprovalReachesAsker == ~misdirected
=============================================================================
