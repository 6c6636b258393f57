------------------------------ MODULE HostLinks ------------------------------
(***************************************************************************)
(* The links of one device. A device that reconnects may hold a new link   *)
(* before the old one is known to be dead; the hub keeps one of them. A    *)
(* revocation races with a link that is being registered, and a sign-in    *)
(* terminal that is being started races with the end of its link.          *)
(***************************************************************************)
EXTENDS Naturals, FiniteSets, Sequences

CONSTANTS Links    \* 1 .. n, opened in this order

VARIABLES
    revoked,       \* runtime_host.revoked_at is set
    revoke,        \* where revoke_host is after its commit
    link,          \* link -> stage of serve_link
    current,       \* HostLinkHub: the link a handler gets, 0 if none
    notified,      \* links whose closed notification is set
    latest,        \* history: the link registered last
    ended,         \* links the device has seen end
    login,         \* link -> stage of the call that starts a sign-in terminal
    swept,         \* links whose sign-in terminals the device has closed
    signIn         \* links whose sign-in terminal is in the pool

linkVars == <<revoked, revoke, link, current, notified, latest, ended, login, swept, signIn>>
deviceVars == <<ended, login, swept, signIn>>

HostLinksTypeOK ==
    /\ revoked \in BOOLEAN /\ revoke \in {"none", "committed", "cleaning", "done"}
    /\ link \in [Links -> {"none", "authenticated", "registered", "serving", "done"}]
    /\ current \in Links \cup {0} /\ latest \in Links \cup {0}
    /\ {notified, ended, swept, signIn} \subseteq SUBSET Links
    /\ login \in [Links -> {"none", "starting", "started", "answered"}]

HostLinksInit ==
    /\ revoked = FALSE /\ revoke = "none" /\ link = [l \in Links |-> "none"] /\ current = 0
    /\ notified = {} /\ latest = 0 /\ ended = {} /\ login = [l \in Links |-> "none"]
    /\ swept = {} /\ signIn = {}

-----------------------------------------------------------------------------
(* The controller: serve_link.                                             *)

\* The first frame is a hello with a valid token.
ServeHello(l) ==
    /\ link[l] = "none" /\ \A k \in Links : k < l => link[k] # "none"
    /\ link' = [link EXCEPT ![l] = IF revoked THEN "done" ELSE "authenticated"]
    /\ UNCHANGED <<revoked, revoke, current, notified, latest, deviceVars>>

\* The link is published; the one it replaces is closed.
register(l) ==
    /\ link[l] = "authenticated" /\ link' = [link EXCEPT ![l] = "registered"]
    /\ current' = l /\ latest' = l
    /\ notified' = notified \cup ({current} \ {0})
    /\ UNCHANGED <<revoked, revoke, deviceVars>>

\* Wrong version: whatever link the hub has is removed.
unregister_any(l) == current' = 0

\* Only the link itself is removed, never the one that replaced it.
unregister(l) == current' = IF current = l THEN 0 ELSE current

\* Wrong version: the token is not checked again after the registration.
Welcome_unchecked(l) ==
    /\ link[l] = "registered"
    /\ link' = [link EXCEPT ![l] = "serving"] /\ UNCHANGED <<current, notified>>
    /\ UNCHANGED <<revoked, revoke, latest, deviceVars>>

\* The token is checked again; a link that fails leaves the hub.
Welcome(l) ==
    /\ link[l] = "registered"
    /\ IF revoked
       THEN unregister(l) /\ link' = [link EXCEPT ![l] = "done"] /\ notified' = notified \cup {l}
       ELSE link' = [link EXCEPT ![l] = "serving"] /\ UNCHANGED <<current, notified>>
    /\ UNCHANGED <<revoked, revoke, latest, deviceVars>>

\* The socket fails, or the closed notification wakes the loop.
ServeEnds(l) ==
    /\ link[l] \in {"registered", "serving"}
    /\ unregister(l) /\ link' = [link EXCEPT ![l] = "done"] /\ notified' = notified \cup {l}
    /\ UNCHANGED <<revoked, revoke, latest, deviceVars>>

-----------------------------------------------------------------------------
(* revoke_host: the row, then the link the hub had, then the hub.          *)

RevokeCommits ==
    /\ revoke = "none" /\ revoked' = TRUE /\ revoke' = "committed"
    /\ UNCHANGED <<link, current, notified, latest, deviceVars>>

\* Without a link nothing more is done; with one its terminals are closed first.
RevokeLooks ==
    /\ revoke = "committed" /\ revoke' = IF current = 0 THEN "done" ELSE "cleaning"
    /\ UNCHANGED <<revoked, link, current, notified, latest, deviceVars>>

RevokeRemoves ==
    /\ revoke = "cleaning" /\ revoke' = "done"
    /\ current' = 0 /\ notified' = notified \cup ({current} \ {0})
    /\ UNCHANGED <<revoked, link, latest, deviceVars>>

-----------------------------------------------------------------------------
(* The device: run_device_link and the calls it has spawned.               *)

\* A handler asks for a sign-in terminal over the link of the hub.
CallSignIn(l) ==
    /\ current = l /\ link[l] = "serving" /\ login[l] = "none" /\ l \notin ended
    /\ login' = [login EXCEPT ![l] = "starting"]
    /\ UNCHANGED <<revoked, revoke, link, current, notified, latest, ended, swept, signIn>>

SignInStarts(l) ==
    /\ login[l] = "starting" /\ login' = [login EXCEPT ![l] = "started"]
    /\ signIn' = signIn \cup {l}
    /\ UNCHANGED <<revoked, revoke, link, current, notified, latest, ended, swept>>

SignInAnswers(l) ==
    /\ login[l] = "started" /\ login' = [login EXCEPT ![l] = "answered"]
    /\ signIn' = IF l \in ended THEN signIn \ {l} ELSE signIn
    /\ UNCHANGED <<revoked, revoke, link, current, notified, latest, ended, swept>>

\* The inbound channel closes: disconnected is set, then the ids are closed.
DeviceEnds(l) ==
    /\ link[l] = "done" /\ l \notin ended /\ ended' = ended \cup {l}
    /\ UNCHANGED <<revoked, revoke, link, current, notified, latest, login, swept, signIn>>

DeviceSweeps(l) ==
    /\ l \in ended \ swept /\ swept' = swept \cup {l} /\ signIn' = signIn \ {l}
    /\ UNCHANGED <<revoked, revoke, link, current, notified, latest, ended, login>>

HostLinksNext ==
    \/ RevokeCommits \/ RevokeLooks \/ RevokeRemoves
    \/ \E l \in Links :
           \/ ServeHello(l) \/ register(l) \/ Welcome(l) \/ ServeEnds(l)
           \/ CallSignIn(l) \/ SignInStarts(l) \/ SignInAnswers(l) \/ DeviceEnds(l) \/ DeviceSweeps(l)

-----------------------------------------------------------------------------
\* After a revocation no link of the device serves calls, unless it has been
\* told to close: publishing a link before its token is checked again leaves
\* no window between the two.
RevokedDeviceIsUnlinked ==
    revoke = "done" =>
        /\ \A l \in Links : link[l] = "serving" => l \in notified
        /\ current # 0 => link[current] = "registered"

\* While the link registered last serves, the hub has it, whatever the end of
\* an older link does.
NewestLinkIsReachable ==
    latest # 0 /\ link[latest] = "serving" /\ latest \notin notified => current = latest

\* A sign-in terminal does not outlive its link, even if it was still being
\* started when the link ended.
SignInEndsWithLink ==
    \A l \in swept : login[l] \in {"none", "answered"} => l \notin signIn

-----------------------------------------------------------------------------
(***************************************************************************)
(* The output of a terminal on a linked device, as one browser shows it.   *)
(* Output goes from the PTY through a forwarder of the device, the link,   *)
(* the subscriber of the controller and the bridge to the browser. Each of *)
(* them may fall behind; then the attachment ends and the browser attaches *)
(* again, for a snapshot and what follows it.                              *)
(*                                                                         *)
(* The output is the sequence 1, 2, ... of frames; a snapshot after frame  *)
(* n stands for the frames 1 .. n.                                         *)
(***************************************************************************)

CONSTANTS
    MaxOutput,     \* bound on frames the terminal writes
    MaxAttach,     \* bound on attachments of the browser
    BroadcastSize, \* frames a forwarder may be behind
    ChannelSize    \* frames a subscriber may be behind

VARIABLES
    running,       \* the process lives
    produced,      \* frames written so far
    forwarder,     \* the attachment's forwarder on the device: [att, sent], att = 0 if none
    wire,          \* frames on the link, from the device
    subscriber,    \* the attachment the controller routes output to, 0 if none
    channel,       \* attachment -> frames queued for its bridge
    lost,          \* attachments marked for resynchronization
    att,           \* the browser's attachment: the number of its last attach
    stage,         \* stage of that attachment's bridge
    shown,         \* the last frame the browser shows
    skipped,       \* history: the browser showed a frame without the one before it
    repeated,      \* history: the browser showed a frame twice
    left           \* history: the browser has disconnected by itself

streamVars == <<running, produced, forwarder, wire, subscriber, channel, lost, att, stage,
                shown, skipped, repeated, left>>
Attachments == 1 .. MaxAttach
NoForwarder == [att |-> 0, sent |-> 0]

StreamTypeOK ==
    /\ {running, skipped, repeated, left} \subseteq BOOLEAN
    /\ produced \in 0 .. MaxOutput /\ shown \in 0 .. MaxOutput
    /\ forwarder.att \in 0 .. MaxAttach /\ forwarder.sent \in 0 .. MaxOutput
    /\ subscriber \in 0 .. MaxAttach /\ att \in 0 .. MaxAttach /\ lost \subseteq Attachments
    /\ \A a \in Attachments : Len(channel[a]) <= ChannelSize
    /\ stage \in {"away", "subscribed", "attaching", "live", "closing"}

StreamInit ==
    /\ running = TRUE /\ produced = 0 /\ forwarder = NoForwarder /\ wire = <<>> /\ subscriber = 0
    /\ channel = [a \in Attachments |-> <<>>] /\ lost = {} /\ att = 0 /\ stage = "away"
    /\ shown = 0 /\ skipped = FALSE /\ repeated = FALSE /\ left = FALSE

-----------------------------------------------------------------------------
(* The device.                                                             *)

\* The reader thread: the frame enters the screen and the broadcast together.
Produces ==
    /\ running /\ produced < MaxOutput /\ produced' = produced + 1
    /\ UNCHANGED <<running, forwarder, wire, subscriber, channel, lost, att, stage, shown, skipped, repeated, left>>

\* The forwarder sends the next frame, or reports that it fell behind.
Forwards ==
    LET f == forwarder
    IN  /\ f.att # 0 /\ f.sent < produced
        /\ IF produced - f.sent > BroadcastSize
           THEN wire' = Append(wire, [kind |-> "resync"]) /\ forwarder' = NoForwarder
           ELSE /\ wire' = Append(wire, [kind |-> "output", n |-> f.sent + 1])
                /\ forwarder' = [f EXCEPT !.sent = @ + 1]
        /\ UNCHANGED <<running, produced, subscriber, channel, lost, att, stage, shown, skipped, repeated, left>>

\* The forwarder finds the child dead.
ReportsExit ==
    /\ forwarder.att # 0 /\ ~running
    /\ wire' = Append(wire, [kind |-> "exit"]) /\ forwarder' = NoForwarder
    /\ UNCHANGED <<running, produced, subscriber, channel, lost, att, stage, shown, skipped, repeated, left>>

\* TerminalAttach: the old forwarder stops; snapshot and subscription are one.
TerminalAttach ==
    /\ stage = "subscribed" /\ running /\ stage' = "attaching"
    /\ forwarder' = [att |-> att, sent |-> produced]
    /\ wire' = Append(wire, [kind |-> "reply", n |-> produced])
    /\ UNCHANGED <<running, produced, subscriber, channel, lost, att, shown, skipped, repeated, left>>

-----------------------------------------------------------------------------
(* The controller.                                                         *)

\* subscribe_terminal: before the device is asked.
attach_terminal ==
    /\ stage = "away" /\ running /\ att < MaxAttach
    /\ att' = att + 1 /\ subscriber' = att + 1 /\ stage' = "subscribed"
    /\ UNCHANGED <<running, produced, forwarder, wire, channel, lost, shown, skipped, repeated, left>>

Arrives(kind) == wire # <<>> /\ Head(wire).kind = kind /\ wire' = Tail(wire)

\* Wrong version: the channel takes one frame more than it has room for.
Fits_more == Len(channel[subscriber]) <= ChannelSize

Fits == Len(channel[subscriber]) < ChannelSize

\* Wrong version: a frame that does not fit is dropped and the next one goes on.
OutputArrives_dropping ==
    /\ Arrives("output")
    /\ IF subscriber # 0 /\ Fits
       THEN channel' = [channel EXCEPT ![subscriber] = Append(@, Head(wire).n)]
       ELSE UNCHANGED channel
    /\ UNCHANGED <<running, produced, forwarder, subscriber, lost, att, stage, shown, skipped, repeated, left>>

\* A frame that does not fit ends the subscription and asks for a snapshot.
OutputArrives ==
    /\ Arrives("output")
    /\ \/ subscriber = 0 /\ UNCHANGED <<channel, lost, subscriber>>
       \/ subscriber # 0 /\ Fits /\ channel' = [channel EXCEPT ![subscriber] = Append(@, Head(wire).n)]
          /\ UNCHANGED <<lost, subscriber>>
       \/ subscriber # 0 /\ ~Fits /\ lost' = lost \cup {subscriber} /\ subscriber' = 0 /\ UNCHANGED channel
    /\ UNCHANGED <<running, produced, forwarder, att, stage, shown, skipped, repeated, left>>

ResyncArrives ==
    /\ Arrives("resync") /\ subscriber' = 0 /\ lost' = lost \cup ({subscriber} \ {0})
    /\ UNCHANGED <<running, produced, forwarder, channel, att, stage, shown, skipped, repeated, left>>

ExitArrives ==
    /\ Arrives("exit") /\ subscriber' = 0
    /\ UNCHANGED <<running, produced, forwarder, channel, lost, att, stage, shown, skipped, repeated, left>>

\* The reply to the attach: the bridge starts with the snapshot, on a browser
\* that has reset its screen.
ReplyArrives ==
    /\ Arrives("reply")
    /\ IF stage = "attaching" THEN stage' = "live" /\ shown' = Head(wire).n ELSE UNCHANGED <<stage, shown>>
    /\ UNCHANGED <<running, produced, forwarder, subscriber, channel, lost, att, skipped, repeated, left>>

-----------------------------------------------------------------------------
(* The bridge and the browser.                                             *)

Shows(n) ==
    /\ shown' = IF n > shown THEN n ELSE shown
    /\ skipped' = (skipped \/ n > shown + 1)
    /\ repeated' = (repeated \/ n <= shown)

SendsOutput ==
    /\ stage = "live" /\ channel[att] # <<>> /\ Shows(Head(channel[att]))
    /\ channel' = [channel EXCEPT ![att] = Tail(@)]
    /\ UNCHANGED <<running, produced, forwarder, wire, subscriber, lost, att, stage, left>>

\* The channel is closed and empty. After a resynchronization the process
\* goes on and the browser attaches again; otherwise the terminal is closed.
OutputEnds ==
    /\ stage = "live" /\ channel[att] = <<>> /\ subscriber # att
    /\ stage' = IF att \in lost THEN "away" ELSE "closing"
    /\ UNCHANGED <<running, produced, forwarder, wire, subscriber, channel, lost, att, shown, skipped, repeated, left>>

BrowserLeaves ==
    /\ stage = "live" /\ ~left /\ left' = TRUE
    /\ stage' = IF att \in lost THEN "away" ELSE "closing"
    /\ UNCHANGED <<running, produced, forwarder, wire, subscriber, channel, lost, att, shown, skipped, repeated>>

\* close_terminal: the subscription and the forwarder end, the process dies.
terminal_close ==
    /\ stage = "closing" /\ stage' = "away" /\ running' = FALSE
    /\ forwarder' = NoForwarder /\ subscriber' = 0
    /\ UNCHANGED <<produced, wire, channel, lost, att, shown, skipped, repeated, left>>

\* The CLI exits by itself.
Exits ==
    /\ running /\ produced = MaxOutput /\ running' = FALSE /\ left' = TRUE
    /\ UNCHANGED <<produced, forwarder, wire, subscriber, channel, lost, att, stage, shown, skipped, repeated>>

StreamNext ==
    \/ Produces \/ Forwards \/ ReportsExit \/ TerminalAttach \/ attach_terminal
    \/ OutputArrives \/ ResyncArrives \/ ExitArrives \/ ReplyArrives
    \/ SendsOutput \/ OutputEnds \/ BrowserLeaves \/ terminal_close \/ Exits

-----------------------------------------------------------------------------
\* The browser never shows a frame without the ones before it: whoever falls
\* behind, the attachment ends and starts from a snapshot.
OutputIsNeverSkipped == ~skipped

\* Falling behind does not end the process: it is closed only when the
\* browser has left or the CLI has exited.
LagKeepsProcess == running \/ left

=============================================================================
