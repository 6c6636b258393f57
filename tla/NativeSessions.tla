--------------------------- MODULE NativeSessions ----------------------------
(***************************************************************************)
(* Which native CLI session a runtime binding resumes. The binding row is  *)
(* changed by launches, captures, scans of the device, finished headless   *)
(* turns, a new workspace, another device, a reset and the removal of its  *)
(* agent; each of them reads the row, works, and writes it later.          *)
(*                                                                         *)
(* A native session is represented by where it was created: its workspace, *)
(* its device and the generation of the binding that started its process.  *)
(***************************************************************************)
EXTENDS Integers, FiniteSets

CONSTANTS
    Workspaces, Devices,
    MaxGen,        \* bound on terminal generations
    MaxHeadless,   \* bound on headless turns
    MaxUnderWay    \* bound on calls under way at once

VARIABLES
    row,           \* the binding: [state, ws, host, gen, ext, anchor, capture]
    agentOff,      \* the agent's principal is disabled
    home,          \* device -> session files in the binding's managed home
    terminal,      \* the live terminal's origin, or None
    launch,        \* the launch under way, it holds the launch lock
    capture,       \* a capture under way
    scan,          \* a scan for the newest session under way
    headless,      \* a claimed headless turn: it remembers the row it saw
    epoch,         \* fencing epoch of the agent's session
    turnsRun,
    assign,        \* an assignment to another device under way
    creating,      \* a create request has passed its first checks
    late,          \* history: an assignment read the agent before it was disabled
    strayed        \* history: a turn was completed for a device it had left

rowVars == <<row, agentOff>>
callVars == <<launch, capture, scan, headless, assign, creating>>
devVars == <<home, terminal>>
nsVars == <<rowVars, callVars, devVars, epoch, turnsRun, late, strayed>>

None == [at |-> "none"]
Origin(r) == [at |-> "session", ws |-> r.ws, host |-> r.host, gen |-> r.gen]
Bound == row.state # "absent"
UnderWay == {c \in {"launch", "capture", "scan", "headless", "assign"} :
                [launch |-> launch, capture |-> capture, scan |-> scan,
                 headless |-> headless, assign |-> assign][c].at # "none"}
Room == Cardinality(UnderWay) < MaxUnderWay

NativeSessionsTypeOK ==
    /\ row.state \in {"absent", "idle", "disabled"}
    /\ row.ws \in Workspaces /\ row.host \in Devices /\ row.gen \in 0 .. MaxGen
    /\ {agentOff, creating, late, strayed} \subseteq BOOLEAN
    /\ epoch \in 0 .. MaxGen /\ turnsRun \in 0 .. MaxHeadless

NativeSessionsInit ==
    /\ row \in {[state |-> "absent", ws |-> w, host |-> d, gen |-> 0, ext |-> None,
                 anchor |-> None, capture |-> None] : w \in Workspaces, d \in Devices}
    /\ agentOff = FALSE /\ home = [d \in Devices |-> {}] /\ terminal = None
    /\ launch = None /\ capture = None /\ scan = None /\ headless = None /\ assign = None
    /\ creating = FALSE /\ epoch = 0 /\ turnsRun = 0 /\ late = FALSE /\ strayed = FALSE

\* Every write of the row changes updated_at: a reader that compares it later
\* finds its snapshot stale.
Stale(c) == IF c.at = "none" THEN c ELSE [c EXCEPT !.fresh = FALSE]
Write(r) == row' = r /\ capture' = Stale(capture) /\ scan' = Stale(scan) /\ launch' = Stale(launch)

-----------------------------------------------------------------------------
(* Creation, and removal of the agent.                                     *)

create_runtime_binding ==
    /\ ~creating /\ row.state = "absent" /\ ~agentOff
    /\ creating' = TRUE
    /\ UNCHANGED <<rowVars, launch, capture, scan, headless, assign, devVars, epoch, turnsRun, late, strayed>>

\* create_binding checks the principal in its own transaction.
create_binding ==
    /\ creating /\ creating' = FALSE
    /\ IF agentOff THEN UNCHANGED <<row, launch, capture, scan>> ELSE Write([row EXCEPT !.state = "idle"])
    /\ UNCHANGED <<agentOff, headless, assign, devVars, epoch, turnsRun, late, strayed>>

\* deactivate_principal disables the agent and its bindings in one transaction.
deactivate_principal ==
    /\ ~agentOff /\ agentOff' = TRUE
    /\ IF row.state = "idle" THEN Write([row EXCEPT !.state = "disabled"])
                             ELSE UNCHANGED <<row, launch, capture, scan>>
    /\ late' = (assign.at # "none")
    /\ UNCHANGED <<headless, assign, creating, devVars, epoch, turnsRun, strayed>>

-----------------------------------------------------------------------------
(* Changes of the binding's identity.                                      *)

\* rebind_workspace keeps external_session_id, and a live terminal.
rebind_workspace(w) ==
    /\ Bound /\ w # row.ws /\ row.gen < MaxGen
    /\ Write([row EXCEPT !.ws = w, !.gen = @ + 1, !.anchor = None, !.capture = None])
    /\ UNCHANGED <<agentOff, headless, assign, creating, devVars, epoch, turnsRun, late, strayed>>

reset_company_sessions ==
    /\ Bound /\ row.gen < MaxGen
    /\ Write([row EXCEPT !.gen = @ + 1, !.ext = None, !.anchor = None, !.capture = None])
    /\ UNCHANGED <<agentOff, headless, assign, creating, devVars, epoch, turnsRun, late, strayed>>

\* assign_binding_host checks the agent, then waits for the launch lock.
BeginAssign(d) ==
    /\ Room /\ Bound /\ assign.at = "none" /\ ~agentOff /\ d # row.host
    /\ assign' = [at |-> "checked", host |-> d]
    /\ UNCHANGED <<rowVars, launch, capture, scan, headless, creating, devVars, epoch, turnsRun, late, strayed>>

\* The direct session is closed, commands in flight are fenced and queued
\* again, and the binding becomes idle on the other device.
assign_binding_host ==
    /\ assign.at = "checked" /\ launch.at = "none" /\ row.gen < MaxGen
    /\ assign' = None
    /\ IF row.host = assign.host
       THEN UNCHANGED <<row, launch, capture, scan, terminal, epoch>>
       ELSE /\ terminal' = None /\ epoch' = epoch + 1
            /\ Write([row EXCEPT !.host = assign.host, !.gen = @ + 1, !.ext = None, !.anchor = None,
                                 !.capture = None, !.state = "idle"])
    /\ UNCHANGED <<agentOff, headless, creating, home, turnsRun, late, strayed>>

-----------------------------------------------------------------------------
(* Terminals: launch under the launch lock, capture of the session file.   *)

\* valid_terminal_session_anchor_for_context, for the binding's generation.
ValidAnchor(r) ==
    /\ r.anchor.at = "session" /\ r.anchor.gen = r.gen
    /\ r.anchor.ws = r.ws /\ r.anchor.host = r.host

\* ensure_authorized_terminal: the lock, the row, the home's baseline.
LaunchReads ==
    /\ Room /\ launch.at = "none" /\ row.state = "idle" /\ ~agentOff /\ terminal.at = "none"
    /\ launch' = [at |-> "preparing", fresh |-> TRUE, row |-> row, base |-> home[row.host]]
    /\ UNCHANGED <<rowVars, capture, scan, headless, assign, creating, devVars, epoch, turnsRun, late, strayed>>

\* begin_codex_terminal_capture refuses a row that changed since.
LaunchCaptures ==
    /\ launch.at = "preparing"
    /\ IF launch.fresh
       THEN /\ row' = [row EXCEPT !.capture = [at |-> "window", gen |-> row.gen, base |-> launch.base]]
            /\ capture' = Stale(capture) /\ scan' = Stale(scan)
            /\ launch' = [launch EXCEPT !.at = "spawning"]
       ELSE launch' = None /\ UNCHANGED <<row, capture, scan>>
    /\ UNCHANGED <<agentOff, headless, assign, creating, devVars, epoch, turnsRun, late, strayed>>

\* The device starts the CLI the launch describes; it resumes the anchored
\* session or creates one.
LaunchSpawns ==
    LET r == launch.row
    IN  /\ launch.at = "spawning" /\ launch' = None
        /\ terminal' = IF ValidAnchor(r) THEN r.anchor ELSE Origin(r)
        /\ UNCHANGED <<rowVars, capture, scan, headless, assign, creating, home, epoch, turnsRun, late, strayed>>

\* The CLI writes its session file some time after its start.
WritesSessionFile ==
    /\ terminal.at = "session" /\ terminal \notin home[terminal.host]
    /\ home' = [home EXCEPT ![terminal.host] = @ \cup {terminal}]
    /\ UNCHANGED <<rowVars, callVars, terminal, epoch, turnsRun, late, strayed>>

TerminalCloses ==
    /\ terminal.at = "session" /\ terminal' = None
    /\ UNCHANGED <<rowVars, callVars, home, epoch, turnsRun, late, strayed>>

\* reconcile_codex_terminal_session_from_capture: the only session file of
\* the workspace that the launch did not find in the home.
Candidates(r) == {f \in home[r.host] \ r.capture.base : f.ws = r.ws}

CaptureReads ==
    /\ Room /\ capture.at = "none" /\ row.capture.at = "window" /\ row.capture.gen = row.gen
    /\ Cardinality(Candidates(row)) = 1
    /\ \E f \in Candidates(row) :
           capture' = [at |-> "found", fresh |-> TRUE, file |-> f, ws |-> row.ws, gen |-> row.capture.gen]
    /\ UNCHANGED <<rowVars, launch, scan, headless, assign, creating, devVars, epoch, turnsRun, late, strayed>>

\* The stored anchor carries the binding's generation and its current device.
Anchored(c) ==
    /\ row' = [row EXCEPT !.anchor = [c.file EXCEPT !.gen = c.gen, !.host = row.host], !.capture = None]
    /\ scan' = Stale(scan) /\ launch' = Stale(launch)

\* Wrong version: the anchor is written without comparing what was read.
write_session_anchor_blind ==
    /\ capture.at = "found" /\ capture' = None
    /\ Anchored(capture)
    /\ UNCHANGED <<agentOff, headless, assign, creating, devVars, epoch, turnsRun, late, strayed>>

\* write_session_anchor: same workspace, same generation, same updated_at.
write_session_anchor ==
    /\ capture.at = "found" /\ capture' = None
    /\ IF capture.fresh /\ capture.ws = row.ws /\ capture.gen = row.gen
       THEN Anchored(capture)
       ELSE UNCHANGED <<row, scan, launch>>
    /\ UNCHANGED <<agentOff, headless, assign, creating, devVars, epoch, turnsRun, late, strayed>>

-----------------------------------------------------------------------------
(* external_session_id: discovered on the device, or left by a turn.       *)

\* session_sync_target, then the newest session of the workspace there.
ScanReads ==
    /\ Room /\ scan.at = "none" /\ Bound
    /\ \E f \in {g \in home[row.host] : g.ws = row.ws} :
           scan' = [at |-> "found", fresh |-> TRUE, file |-> f, ws |-> row.ws]
    /\ UNCHANGED <<rowVars, launch, capture, headless, assign, creating, devVars, epoch, turnsRun, late, strayed>>

Discovered(f) ==
    /\ row' = [row EXCEPT !.ext = f]
    /\ capture' = Stale(capture) /\ launch' = Stale(launch)

record_discovered_session_id ==
    /\ scan.at = "found" /\ scan' = None
    /\ IF scan.fresh /\ scan.ws = row.ws THEN Discovered(scan.file) ELSE UNCHANGED <<row, capture, launch>>
    /\ UNCHANGED <<agentOff, headless, assign, creating, devVars, epoch, turnsRun, late, strayed>>

\* claim_command captures the binding it hands out with the turn.
HeadlessClaims ==
    /\ Room /\ headless.at = "none" /\ row.state = "idle" /\ turnsRun < MaxHeadless
    /\ headless' = [at |-> "running", row |-> row, epoch |-> epoch]
    /\ turnsRun' = turnsRun + 1
    /\ UNCHANGED <<rowVars, launch, capture, scan, assign, creating, devVars, epoch, late, strayed>>

\* complete_runtime_host_command: a fenced attempt changes nothing; the new
\* session is recorded if the captured binding, but for its anchor, is the
\* current one.
HeadlessCompletes ==
    LET r == headless.row
    IN  /\ headless.at = "running" /\ headless' = None
        /\ IF headless.epoch # epoch
           THEN UNCHANGED <<row, launch, capture, scan, strayed>>
           ELSE /\ strayed' = (strayed \/ r.host # row.host)
                /\ IF row.state # "disabled" /\ [r EXCEPT !.anchor = None, !.state = row.state]
                                                = [row EXCEPT !.anchor = None]
                   THEN Write([row EXCEPT !.ext = Origin(r)])
                   ELSE UNCHANGED <<row, launch, capture, scan>>
        /\ UNCHANGED <<agentOff, assign, creating, devVars, epoch, turnsRun, late>>

NativeSessionsNext ==
    \/ create_runtime_binding \/ create_binding \/ deactivate_principal
    \/ (\E w \in Workspaces : rebind_workspace(w)) \/ reset_company_sessions
    \/ (\E d \in Devices : BeginAssign(d)) \/ assign_binding_host
    \/ LaunchReads \/ LaunchCaptures \/ LaunchSpawns \/ WritesSessionFile \/ TerminalCloses
    \/ CaptureReads \/ write_session_anchor
    \/ ScanReads \/ record_discovered_session_id
    \/ HeadlessClaims \/ HeadlessCompletes

-----------------------------------------------------------------------------
\* The stored anchor is always one of the binding as it is: a capture that
\* comes back after a reset, a rebind or a move is refused, and the session
\* it names is one a terminal of this binding wrote on this device.
AnchorIsCurrent ==
    row.anchor.at = "session" =>
        /\ ValidAnchor(row)
        /\ \E f \in home[row.host] : f.ws = row.ws

\* A session id found by a scan or left by a turn is recorded only while the
\* binding has the workspace and the device it was found on.
RecordedSessionIsLocal ==
    [][row'.ext # row.ext /\ row'.ext.at = "session"
       => row'.ext.ws = row'.ws /\ row'.ext.host = row'.host]_nsVars

\* A disabled agent has no binding in use, but for one that an assignment
\* which had read the agent before the removal brings back.
NoBindingOutlivesDisable == agentOff /\ row.state = "idle" => late

\* A headless turn is completed on the device the binding is on: a turn in
\* flight during a move is fenced and runs again.
MovedTurnIsRerun == ~strayed

-----------------------------------------------------------------------------
(***************************************************************************)
(* A native CLI session found on a device becomes an agent of a company.   *)
(* One operator owns several companies. The session may be taken over from *)
(* a company that was deleted, whose terminal may still be live.           *)
(***************************************************************************)

CONSTANTS Companies    \* a finite set of positive numbers

VARIABLES
    claim,        \* native_session_import: the company that has the session, 0 if none
    gone,         \* deleted companies
    imported,     \* company -> state of the agent's binding
    work,         \* companies whose agent has a command that is not finished
    open,         \* companies whose agent's terminal runs the session
    importer,     \* company -> stage of its import request
    launcher,     \* company -> stage of a terminal launch
    identityLock, \* the advisory lock of the session's identity, 0 if free
    launchLock    \* the company whose agent's launch lock is held -> holder

importVars == <<claim, gone, imported, work, open, importer, launcher, identityLock, launchLock>>

ImportTypeOK ==
    /\ claim \in Companies \cup {0} /\ identityLock \in Companies \cup {0}
    /\ gone \subseteq Companies /\ work \subseteq Companies /\ open \subseteq Companies
    /\ imported \in [Companies -> {"none", "idle", "disabled"}]
    /\ importer \in [Companies -> {"none", "checked", "looking", "taking", "inserting"}]
    /\ launcher \in [Companies -> {"none", "locked", "authorized"}]
    /\ launchLock \in [Companies -> {"free", "launch", "import"}]

ImportInit ==
    /\ claim = 0 /\ gone = {} /\ imported = [c \in Companies |-> "none"] /\ work = {} /\ open = {}
    /\ importer = [c \in Companies |-> "none"] /\ launcher = [c \in Companies |-> "none"]
    /\ identityLock = 0 /\ launchLock = [c \in Companies |-> "free"]

-----------------------------------------------------------------------------
\* import_workspace_sessions: the company is active, the session was found.
import_workspace_sessions(c) ==
    /\ importer[c] = "none" /\ c \notin gone
    /\ importer' = [importer EXCEPT ![c] = "checked"]
    /\ UNCHANGED <<claim, gone, imported, work, open, launcher, identityLock, launchLock>>

\* The identity (device, workspace, driver, session, account) is locked.
LockIdentity(c) ==
    /\ importer[c] = "checked" /\ identityLock = 0
    /\ identityLock' = c /\ importer' = [importer EXCEPT ![c] = "looking"]
    /\ UNCHANGED <<claim, gone, imported, work, open, launcher, launchLock>>

Leave(c) == importer' = [importer EXCEPT ![c] = "none"] /\ identityLock' = 0

\* The existing claim: the company's own is answered as already imported,
\* one of another company is taken over under the launch lock of its agent.
LookUpClaim(c) ==
    /\ importer[c] = "looking"
    /\ \/ claim = 0 /\ importer' = [importer EXCEPT ![c] = "inserting"]
          /\ UNCHANGED <<identityLock, launchLock>>
       \/ claim = c /\ Leave(c) /\ UNCHANGED launchLock
       \/ claim \notin {0, c} /\ launchLock[claim] = "free"
          /\ launchLock' = [launchLock EXCEPT ![claim] = "import"]
          /\ importer' = [importer EXCEPT ![c] = "taking"] /\ UNCHANGED identityLock
    /\ UNCHANGED <<claim, gone, imported, work, open, launcher>>

\* Refused unless the other company is deleted and its agent has no work;
\* then its terminal is closed. The row changes commit with the insert.
TakeOver(c) ==
    /\ importer[c] = "taking"
    /\ IF claim \in gone /\ claim \notin work
       THEN /\ open' = open \ {claim} /\ importer' = [importer EXCEPT ![c] = "inserting"]
            /\ UNCHANGED <<launchLock, identityLock>>
       ELSE Leave(c) /\ launchLock' = [launchLock EXCEPT ![claim] = "free"] /\ UNCHANGED open
    /\ UNCHANGED <<claim, gone, imported, work, launcher>>

\* The device fails, or the connection drops: the transaction rolls back.
ImportFails(c) ==
    /\ importer[c] = "inserting" /\ Leave(c)
    /\ launchLock' = [d \in Companies |-> IF launchLock[d] = "import" /\ d = claim THEN "free" ELSE launchLock[d]]
    /\ UNCHANGED <<claim, gone, imported, work, open, launcher>>

\* Wrong version: the claim moves, the previous binding stays in use.
import_one_session_keeps(c) ==
    /\ importer[c] = "inserting" /\ Leave(c)
    /\ imported' = [imported EXCEPT ![c] = "idle"] /\ claim' = c
    /\ launchLock' = [d \in Companies |-> IF launchLock[d] = "import" /\ d = claim THEN "free" ELSE launchLock[d]]
    /\ UNCHANGED <<gone, work, open, launcher>>

\* The previous agent is retired and the new agent, conversation, binding
\* and claim are inserted in one transaction.
import_one_session(c) ==
    /\ importer[c] = "inserting" /\ Leave(c)
    /\ imported' = [d \in Companies |-> IF d = c THEN "idle" ELSE IF d = claim THEN "disabled" ELSE imported[d]]
    /\ claim' = c
    /\ launchLock' = [d \in Companies |-> IF launchLock[d] = "import" /\ d = claim THEN "free" ELSE launchLock[d]]
    /\ UNCHANGED <<gone, work, open, launcher>>

-----------------------------------------------------------------------------
(* What the agent's owner does meanwhile.                                  *)

delete_company(c) ==
    /\ c \notin gone /\ gone' = gone \cup {c}
    /\ UNCHANGED <<claim, imported, work, open, importer, launcher, identityLock, launchLock>>

CommandArrives(c) ==
    /\ imported[c] = "idle" /\ c \notin work /\ c \notin gone /\ work' = work \cup {c}
    /\ UNCHANGED <<claim, gone, imported, open, importer, launcher, identityLock, launchLock>>

CommandEnds(c) ==
    /\ c \in work /\ work' = work \ {c}
    /\ UNCHANGED <<claim, gone, imported, open, importer, launcher, identityLock, launchLock>>

lock_terminal_launch(c) ==
    /\ launcher[c] = "none" /\ imported[c] # "none" /\ launchLock[c] = "free"
    /\ launcher' = [launcher EXCEPT ![c] = "locked"]
    /\ launchLock' = [launchLock EXCEPT ![c] = "launch"]
    /\ UNCHANGED <<claim, gone, imported, work, open, importer, identityLock>>

EndLaunch(c) ==
    /\ launcher' = [launcher EXCEPT ![c] = "none"]
    /\ launchLock' = [launchLock EXCEPT ![c] = "free"]

\* authorize_terminal_binding: a disabled binding and the agent of a deleted
\* company are refused.
authorize_terminal_binding(c) ==
    /\ launcher[c] = "locked"
    /\ IF imported[c] # "disabled" /\ c \notin gone
       THEN launcher' = [launcher EXCEPT ![c] = "authorized"] /\ UNCHANGED launchLock
       ELSE EndLaunch(c)
    /\ UNCHANGED <<claim, gone, imported, work, open, importer, identityLock>>

\* The device starts the terminal, then the lock is released.
ensure_authorized_terminal(c) ==
    /\ launcher[c] = "authorized" /\ open' = open \cup {c} /\ EndLaunch(c)
    /\ UNCHANGED <<claim, gone, imported, work, importer, identityLock>>

CloseTerminal(c) ==
    /\ c \in open /\ open' = open \ {c}
    /\ UNCHANGED <<claim, gone, imported, work, importer, launcher, identityLock, launchLock>>

ImportNext ==
    \E c \in Companies :
        \/ import_workspace_sessions(c) \/ LockIdentity(c) \/ LookUpClaim(c) \/ TakeOver(c)
        \/ ImportFails(c) \/ import_one_session(c) \/ delete_company(c)
        \/ CommandArrives(c) \/ CommandEnds(c)
        \/ lock_terminal_launch(c) \/ authorize_terminal_binding(c) \/ ensure_authorized_terminal(c)
        \/ CloseTerminal(c)

-----------------------------------------------------------------------------
\* A native session is one agent: however imports and deletions interleave,
\* at most one binding in use names it, and the claim is that binding's.
SessionHasOneAgent ==
    \A c \in Companies : imported[c] = "idle" <=> claim = c

\* Two processes never run the same native session: a take-over closes the
\* terminal of the previous agent and no launch for it can follow.
SessionRunsOnce == Cardinality(open) <= 1
=============================================================================
