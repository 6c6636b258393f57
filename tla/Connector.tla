------------------------------ MODULE Connector ------------------------------
(***************************************************************************)
(* The connector of a device: it claims turns under a semaphore, runs each *)
(* with a heartbeat task beside it, reports the result, and takes itself   *)
(* down when the controller refuses its token. Nothing bounds how long a   *)
(* harness runs but the cancellation modelled here and a deadline of half  *)
(* an hour, which is left out.                                             *)
(***************************************************************************)
EXTENDS FiniteSets, Integers

CONSTANTS Turns, MaxConcurrency

VARIABLES
    turn,        \* turn -> stage of execute
    lease,       \* turn -> whether the controller still has the attempt
    signal,      \* turns whose lease monitor has signalled
    shipped,     \* turns whose outbox commands are at the controller or spooled
    success,     \* turns the connector will report, or reported, as succeeded
    accepted,    \* turns whose success the controller took
    hostRevoked, \* the controller refuses the device's token
    hostRetired, \* the process scope of the device admits no job
    mainLoop,    \* stage of run
    terminalOpen, \* the device has a terminal
    listed       \* the terminal is among the ids the closing run has read

reportVars == <<shipped, success, accepted>>
terminalVars == <<terminalOpen, listed>>
connectorVars == <<turn, lease, signal, reportVars, hostRevoked, hostRetired, mainLoop, terminalVars>>

AtDevice(t) == turn[t] \notin {"queued", "ended"}

ConnectorTypeOK ==
    /\ Cardinality({t \in Turns : AtDevice(t)}) <= MaxConcurrency
    /\ turn \in [Turns -> {"queued", "claimed", "begun", "running", "finished", "stopped", "reporting", "ended"}]
    /\ lease \in [Turns -> {"none", "held", "lost"}]
    /\ {signal, shipped, success, accepted} \subseteq SUBSET Turns
    /\ {hostRevoked, hostRetired, terminalOpen, listed} \subseteq BOOLEAN
    /\ mainLoop \in {"waiting", "claiming", "draining", "joining", "closing", "closed", "stopped"}

ConnectorInit ==
    /\ turn = [t \in Turns |-> "queued"] /\ lease = [t \in Turns |-> "none"]
    /\ signal = {} /\ shipped = {} /\ success = {} /\ accepted = {} /\ hostRevoked = FALSE /\ hostRetired = FALSE
    /\ mainLoop = "waiting" /\ terminalOpen = FALSE /\ listed = FALSE

\* Wrong version: one turn more than the semaphore has permits.
HasPermit_more == Cardinality({t \in Turns : AtDevice(t)}) <= MaxConcurrency

HasPermit == Cardinality({t \in Turns : AtDevice(t)}) < MaxConcurrency

-----------------------------------------------------------------------------
(* The controller.                                                         *)

RevokeHost ==
    /\ ~hostRevoked /\ hostRevoked' = TRUE
    /\ lease' = [t \in Turns |-> IF lease[t] = "held" THEN "lost" ELSE lease[t]]
    /\ UNCHANGED <<turn, signal, reportVars, hostRetired, mainLoop, terminalVars>>

\* Heartbeats fail for a while, or the binding moves: the attempt is fenced.
LeaseEnds(t) ==
    /\ lease[t] = "held" /\ lease' = [lease EXCEPT ![t] = "lost"]
    /\ UNCHANGED <<turn, signal, reportVars, hostRevoked, hostRetired, mainLoop, terminalVars>>

-----------------------------------------------------------------------------
(* run.                                                                    *)

\* wait_for_controller: the first heartbeat, or a refusal that ends the start.
wait_for_controller ==
    /\ mainLoop = "waiting" /\ mainLoop' = IF hostRevoked THEN "stopped" ELSE "claiming"
    /\ UNCHANGED <<turn, lease, signal, reportVars, hostRevoked, hostRetired, terminalVars>>

\* A permit first, then the claim. Turns are numbered in the order of their claims.
ClaimTurn(t) ==
    /\ mainLoop = "claiming" /\ HasPermit /\ ~hostRevoked
    /\ turn[t] = "queued" /\ \A u \in Turns : u < t => turn[u] # "queued"
    /\ turn' = [turn EXCEPT ![t] = "claimed"] /\ lease' = [lease EXCEPT ![t] = "held"]
    /\ UNCHANGED <<signal, reportVars, hostRevoked, hostRetired, mainLoop, terminalVars>>

\* A refused claim retires the scope of the device.
ClaimRefused ==
    /\ mainLoop = "claiming" /\ HasPermit /\ hostRevoked
    /\ hostRetired' = TRUE /\ mainLoop' = "draining"
    /\ UNCHANGED <<turn, lease, signal, reportVars, hostRevoked, terminalVars>>

Drained ==
    /\ mainLoop = "draining" /\ \A t \in Turns : turn[t] \notin {"begun", "running"}
    /\ mainLoop' = "joining"
    /\ UNCHANGED <<turn, lease, signal, reportVars, hostRevoked, hostRetired, terminalVars>>

\* Wrong version: the jobs are not joined.
Joined_early ==
    /\ mainLoop = "joining" /\ mainLoop' = "closing"
    /\ UNCHANGED <<turn, lease, signal, reportVars, hostRevoked, hostRetired, terminalVars>>

Joined ==
    /\ mainLoop = "joining" /\ \A t \in Turns : ~AtDevice(t)
    /\ mainLoop' = "closing"
    /\ UNCHANGED <<turn, lease, signal, reportVars, hostRevoked, hostRetired, terminalVars>>

\* The ids of the terminals are read once ...
ListsTerminals ==
    /\ mainLoop = "closing" /\ mainLoop' = "closed" /\ listed' = terminalOpen
    /\ UNCHANGED <<turn, lease, signal, reportVars, hostRevoked, hostRetired, terminalOpen>>

\* ... and each is closed; a close that fails is logged, and the run ends.
ClosesTerminals ==
    /\ mainLoop = "closed" /\ mainLoop' = "stopped"
    /\ terminalOpen' \in IF listed THEN {terminalOpen, FALSE} ELSE {terminalOpen}
    /\ UNCHANGED <<turn, lease, signal, reportVars, hostRevoked, hostRetired, listed>>

\* The controller asks for a terminal over the host link, which outlives the
\* revocation until the gateway closes it. The task that opens the terminal is
\* detached: it looks neither at the link nor at the stage of run.
LinkOpensTerminal ==
    /\ mainLoop \notin {"waiting", "stopped"} /\ ~terminalOpen /\ terminalOpen' = TRUE
    /\ UNCHANGED <<turn, lease, signal, reportVars, hostRevoked, hostRetired, mainLoop, listed>>

LinkClosesTerminal ==
    /\ mainLoop # "stopped" /\ terminalOpen /\ terminalOpen' = FALSE
    /\ UNCHANGED <<turn, lease, signal, reportVars, hostRevoked, hostRetired, mainLoop, listed>>

-----------------------------------------------------------------------------
(* execute.                                                                *)

\* An unknown harness, a missing workspace, a bad model, or a decision that
\* answers the turn: completed without a process.
CompletesAtOnce(t) ==
    /\ turn[t] = "claimed" /\ turn' = [turn EXCEPT ![t] = "reporting"]
    /\ shipped' = shipped \cup {t}   \* it has no outbox
    /\ success' \in {success, success \cup {t}}
    /\ UNCHANGED <<lease, signal, accepted, hostRevoked, hostRetired, mainLoop, terminalVars>>

\* The job of the device's scope; a retired scope admits none.
BeginsJob(t) ==
    /\ turn[t] = "claimed" /\ turn' = [turn EXCEPT ![t] = IF hostRetired THEN "stopped" ELSE "begun"]
    /\ UNCHANGED <<lease, signal, reportVars, hostRevoked, hostRetired, mainLoop, terminalVars>>

\* After the preparation the cancellations are looked at once more.
StartsProcess(t) ==
    /\ turn[t] = "begun"
    /\ turn' = [turn EXCEPT ![t] = IF hostRetired \/ t \in signal THEN "stopped" ELSE "running"]
    /\ UNCHANGED <<lease, signal, reportVars, hostRevoked, hostRetired, mainLoop, terminalVars>>

\* Wrong version: only a refused token ends the turn.
HeartbeatRejected_unauthorized(t) ==
    /\ turn[t] \in {"begun", "running"} /\ t \notin signal /\ hostRevoked
    /\ signal' = signal \cup {t}
    /\ UNCHANGED <<turn, lease, reportVars, hostRevoked, hostRetired, mainLoop, terminalVars>>

\* command_heartbeat: 401, 403, 404 and 409 end the turn.
HeartbeatRejected(t) ==
    /\ turn[t] \in {"begun", "running"} /\ t \notin signal /\ (lease[t] = "lost" \/ hostRevoked)
    /\ signal' = signal \cup {t}
    /\ UNCHANGED <<turn, lease, reportVars, hostRevoked, hostRetired, mainLoop, terminalVars>>

ProcessCancelled(t) ==
    /\ turn[t] = "running" /\ (hostRetired \/ t \in signal) /\ turn' = [turn EXCEPT ![t] = "stopped"]
    /\ UNCHANGED <<lease, signal, reportVars, hostRevoked, hostRetired, mainLoop, terminalVars>>

\* The harness exits, with success or without.
ProcessExits(t) ==
    /\ turn[t] = "running" /\ \E stage \in {"finished", "stopped"} : turn' = [turn EXCEPT ![t] = stage]
    /\ UNCHANGED <<lease, signal, reportVars, hostRevoked, hostRetired, mainLoop, terminalVars>>

\* Wrong version: a shipment that failed does not fail the turn.
Response_regardless(t, kept) == {success, IF turn[t] = "finished" THEN success \cup {t} ELSE success}

\* A turn succeeds when its harness did, its commands were kept and its answer
\* can be used.
Response(t, kept) == {success, IF turn[t] = "finished" /\ kept THEN success \cup {t} ELSE success}

\* The turn's outbox is shipped, or spooled for the shipping loop; a refused
\* shipment is dropped, and so is one that cannot be spooled.
ShipsOutbox(t) ==
    /\ turn[t] \in {"finished", "stopped"} /\ turn' = [turn EXCEPT ![t] = "reporting"]
    /\ \E kept \in BOOLEAN :
         /\ shipped' = IF kept THEN shipped \cup {t} ELSE shipped
         /\ success' \in Response(t, kept)
    /\ UNCHANGED <<lease, signal, accepted, hostRevoked, hostRetired, mainLoop, terminalVars>>

\* complete is sent once: what does not get through, or is fenced, is lost.
Completes(t) ==
    /\ turn[t] = "reporting" /\ turn' = [turn EXCEPT ![t] = "ended"]
    /\ \/ UNCHANGED accepted
       \/ lease[t] = "held" /\ ~hostRevoked /\ accepted' = accepted \cup ({t} \cap success)
    /\ UNCHANGED <<lease, signal, shipped, success, hostRevoked, hostRetired, mainLoop, terminalVars>>

ConnectorStep ==
    \/ wait_for_controller \/ ClaimRefused \/ Drained \/ Joined \/ ListsTerminals \/ ClosesTerminals
LinkStep == LinkOpensTerminal \/ LinkClosesTerminal
TurnStep(t) ==
    \/ BeginsJob(t) \/ StartsProcess(t) \/ HeartbeatRejected(t) \/ ProcessCancelled(t)
    \/ ShipsOutbox(t) \/ Completes(t)

ConnectorNext ==
    \/ RevokeHost \/ LinkStep \/ ConnectorStep
    \/ \E t \in Turns : LeaseEnds(t) \/ ClaimTurn(t) \/ CompletesAtOnce(t) \/ TurnStep(t) \/ ProcessExits(t)

-----------------------------------------------------------------------------
\* A connector that has taken itself down leaves no turn: not one that was
\* claimed before the scope was retired, and not one whose job had ended but
\* whose shipment and completion had not.
StoppedConnectorRunsNothing ==
    mainLoop = "stopped" => \A t \in Turns : ~AtDevice(t)

\* A turn the controller was told succeeded has handed over its outbox: the
\* pipeline never sees a successful turn whose commands were refused, or
\* could be neither stored nor spooled.
CompletionFollowsOutbox == accepted \subseteq shipped

\* A turn whose attempt the controller has given to another ends, even if
\* the harness would run on.
LostLeaseEndsTurn ==
    \A t \in Turns : (turn[t] = "running" /\ lease[t] = "lost") ~> (turn[t] # "running")

\* A revoked device takes itself down, even with every permit in use by a
\* harness that never ends.
RevokedConnectorStops == hostRevoked ~> (mainLoop = "stopped")

-----------------------------------------------------------------------------
(***************************************************************************)
(* The gateway's supervisor of connectors: twice a second it reads which   *)
(* configurations there are, stops the connectors of the ones that went    *)
(* away, looks at its children, and starts a connector where none runs,    *)
(* the delay after its last failures has passed and nobody holds its lock. *)
(* A connector takes the lock when it starts and ends when it cannot. A    *)
(* connector may also be run by hand.                                      *)
(***************************************************************************)

CONSTANTS
    Configs,           \* configuration files
    MaxConfigChanges,  \* bound on files added and removed
    MaxConnectorEnds,  \* bound on connectors that end, failed starts and reads, runs by hand
    RestartDelays      \* number of delays (6 in the code)

VARIABLES
    configs,      \* files in the directory
    scanned,      \* the files as the round under way read them, or NoRound
    unseen,       \* of those, the ones the round has still to look at
    managed,      \* configuration -> ManagedConnector, or NoConnector
    process,      \* configuration -> the supervisor's child: "none", "starting", "working", "ended"
    lockHolder,   \* configuration -> "none", "child", "hand"
    configChanges, connectorEnds,  \* bounds
    guardDropped, \* the ConnectorSupervisor was dropped
    supervising   \* the thread runs

supervisorVars == <<configs, scanned, unseen, managed, process, lockHolder, configChanges, connectorEnds, guardDropped, supervising>>

NoRound == {0}
NoConnector == [known |-> FALSE, child |-> FALSE, failures |-> 0, due |-> FALSE]
PendingConnector == [known |-> TRUE, child |-> FALSE, failures |-> 0, due |-> TRUE]
Running(c) == process[c] \in {"starting", "working"}

SupervisorTypeOK ==
    /\ configs \subseteq Configs /\ (scanned = NoRound \/ scanned \subseteq Configs)
    /\ \A c \in Configs : managed[c].failures \in 0 .. RestartDelays /\ process[c] \in {"none", "starting", "working", "ended"}
    /\ lockHolder \in [Configs -> {"none", "child", "hand"}]

SupervisorInit ==
    /\ configs = {} /\ scanned = {} /\ unseen = Configs   \* the first round is under way
    /\ managed = [c \in Configs |-> NoConnector] /\ process = [c \in Configs |-> "none"]
    /\ lockHolder = [c \in Configs |-> "none"]
    /\ configChanges = 0 /\ connectorEnds = 0 /\ guardDropped = FALSE /\ supervising = TRUE

-----------------------------------------------------------------------------
(* Others: onboarding, the connectors, the operator.                       *)

ChangeConfig(c) ==
    /\ configChanges < MaxConfigChanges /\ configChanges' = configChanges + 1
    /\ configs' = IF c \in configs THEN configs \ {c} ELSE configs \cup {c}
    /\ UNCHANGED <<scanned, unseen, managed, process, lockHolder, connectorEnds, guardDropped, supervising>>

\* A connector takes its lock, or ends for another has it.
ConnectorStarts(c) ==
    /\ process[c] = "starting"
    /\ IF lockHolder[c] = "none"
       THEN process' = [process EXCEPT ![c] = "working"] /\ lockHolder' = [lockHolder EXCEPT ![c] = "child"]
       ELSE process' = [process EXCEPT ![c] = "ended"] /\ UNCHANGED lockHolder
    /\ UNCHANGED <<configs, scanned, unseen, managed, configChanges, connectorEnds, guardDropped, supervising>>

Unlocked(c) == [lockHolder EXCEPT ![c] = IF @ = "child" THEN "none" ELSE @]

\* It ends by itself, or it cannot be inspected and is killed.
ConnectorEnds(c) ==
    /\ Running(c) /\ connectorEnds < MaxConnectorEnds /\ connectorEnds' = connectorEnds + 1
    /\ process' = [process EXCEPT ![c] = "ended"] /\ lockHolder' = Unlocked(c)
    /\ UNCHANGED <<configs, scanned, unseen, managed, configChanges, guardDropped, supervising>>

RunByHand(c) ==
    /\ lockHolder[c] = "none" /\ connectorEnds < MaxConnectorEnds /\ connectorEnds' = connectorEnds + 1
    /\ lockHolder' = [lockHolder EXCEPT ![c] = "hand"]
    /\ UNCHANGED <<configs, scanned, unseen, managed, process, configChanges, guardDropped, supervising>>

HandStops(c) ==
    /\ lockHolder[c] = "hand" /\ lockHolder' = [lockHolder EXCEPT ![c] = "none"]
    /\ UNCHANGED <<configs, scanned, unseen, managed, process, configChanges, connectorEnds, guardDropped, supervising>>

DropGuard ==
    /\ ~guardDropped /\ guardDropped' = TRUE
    /\ UNCHANGED <<configs, scanned, unseen, managed, process, lockHolder, configChanges, connectorEnds, supervising>>

-----------------------------------------------------------------------------
(* The supervisor's thread.                                                *)

\* A round begins with the files that are there; a directory that cannot be read has none.
connector_configs ==
    /\ supervising /\ ~guardDropped /\ scanned = NoRound
    /\ \/ scanned' = configs /\ UNCHANGED connectorEnds
       \/ scanned' = {} /\ connectorEnds < MaxConnectorEnds /\ connectorEnds' = connectorEnds + 1
    /\ unseen' = Configs
    /\ UNCHANGED <<configs, managed, process, lockHolder, configChanges, guardDropped, supervising>>

\* Wrong version: an entry is forgotten and its child with it.
ForgetsOnly(c) == UNCHANGED <<process, lockHolder>>

\* The child is stopped and reaped.
Forgets(c) == process' = [process EXCEPT ![c] = "none"] /\ lockHolder' = Unlocked(c)

\* A configuration that went away: its connector is stopped before it is forgotten.
retain(c) ==
    /\ supervising /\ scanned # NoRound /\ c \in unseen /\ c \notin scanned
    /\ unseen' = unseen \ {c}
    /\ managed' = [managed EXCEPT ![c] = NoConnector]
    /\ IF managed[c].child THEN Forgets(c) ELSE UNCHANGED <<process, lockHolder>>
    /\ UNCHANGED <<configs, scanned, configChanges, connectorEnds, guardDropped, supervising>>

schedule_restart(m) ==
    [m EXCEPT !.child = FALSE, !.due = FALSE, !.failures = IF @ < RestartDelays THEN @ + 1 ELSE @]

\* What is found of the child: it ended; or it runs, and ran long enough for its failures to
\* be forgotten.
inspect_child(c) ==
    IF managed[c].known /\ managed[c].child
    THEN IF process[c] = "ended" THEN {schedule_restart(managed[c])}
         ELSE {managed[c], [managed[c] EXCEPT !.failures = 0]}
    ELSE IF managed[c].known THEN {managed[c]} ELSE {PendingConnector}

another_connector_holds_lock(c) == lockHolder[c] # "none"

\* A configuration that is there: its child is inspected, and started where it is due.
reconcile(c) ==
    /\ supervising /\ scanned # NoRound /\ c \in unseen /\ c \in scanned
    /\ unseen' = unseen \ {c}
    /\ \E m \in inspect_child(c) :
         IF ~m.child /\ m.due /\ ~another_connector_holds_lock(c)
         THEN \/ /\ managed' = [managed EXCEPT ![c] = [m EXCEPT !.child = TRUE]]
                 /\ process' = [process EXCEPT ![c] = "starting"]
                 /\ UNCHANGED connectorEnds
              \/ /\ connectorEnds < MaxConnectorEnds /\ connectorEnds' = connectorEnds + 1
                 /\ managed' = [managed EXCEPT ![c] = schedule_restart(m)]
                 /\ UNCHANGED process
         ELSE managed' = [managed EXCEPT ![c] = m] /\ UNCHANGED <<process, connectorEnds>>
    /\ UNCHANGED <<configs, scanned, lockHolder, configChanges, guardDropped, supervising>>

EndRound ==
    /\ supervising /\ scanned # NoRound /\ unseen = {}
    /\ scanned' = NoRound
    /\ UNCHANGED <<configs, unseen, managed, process, lockHolder, configChanges, connectorEnds, guardDropped, supervising>>

\* The delay after a failure passes.
DelayPasses(c) ==
    /\ managed[c].known /\ ~managed[c].child /\ ~managed[c].due
    /\ managed' = [managed EXCEPT ![c].due = TRUE]
    /\ UNCHANGED <<configs, scanned, unseen, process, lockHolder, configChanges, connectorEnds, guardDropped, supervising>>

\* The guard is gone: every child is stopped, and the thread ends.
supervise_ends ==
    /\ supervising /\ guardDropped /\ scanned = NoRound
    /\ supervising' = FALSE
    /\ process' = [c \in Configs |-> IF managed[c].child THEN "none" ELSE process[c]]
    /\ lockHolder' = [c \in Configs |-> IF managed[c].child /\ lockHolder[c] = "child" THEN "none" ELSE lockHolder[c]]
    /\ managed' = [c \in Configs |-> NoConnector]
    /\ UNCHANGED <<configs, scanned, unseen, configChanges, connectorEnds, guardDropped>>

SupervisorStep ==
    \/ connector_configs \/ EndRound \/ supervise_ends
    \/ \E c \in Configs : retain(c) \/ reconcile(c)

SupervisorNext ==
    \/ SupervisorStep \/ DropGuard
    \/ \E c \in Configs : \/ ChangeConfig(c) \/ ConnectorStarts(c) \/ ConnectorEnds(c)
                          \/ RunByHand(c) \/ HandStops(c) \/ DelayPasses(c)

-----------------------------------------------------------------------------
(* Properties.                                                             *)

\* No connector outlives its supervisor's knowledge of it: a child that runs is the child of
\* an entry, also when its file goes away and comes back between two rounds, and none runs
\* after the supervisor was dropped.
NoStrayConnector == \A c \in Configs : Running(c) => supervising /\ managed[c].child

\* A configuration that stays is served by a connector in the end, by the supervisor's child
\* or by one that is run by hand, however often it failed before.
ConfigIsServed ==
    \A c \in Configs : (c \in configs) ~> (lockHolder[c] # "none" \/ c \notin configs \/ guardDropped)

\* The connector of a configuration that was removed does not keep running.
RemovedConfigStops == \A c \in Configs : (c \notin configs) ~> (~Running(c) \/ c \in configs)
=============================================================================
