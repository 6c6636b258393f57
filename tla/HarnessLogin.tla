----------------------------- MODULE HarnessLogin -----------------------------
(***************************************************************************)
(* Signing in a harness account. A Codex sign-in is a row of               *)
(* harness_account_login and a driver process, on the gateway or on a      *)
(* linked host that claims the row; a Claude sign-in is a row and a        *)
(* terminal that a browser socket opens and watches. The account may be    *)
(* removed meanwhile, and the device may restart once.                     *)
(***************************************************************************)
EXTENDS Naturals, FiniteSets

CONSTANT MaxLogins

Logins == 1..MaxLogins
OpenLogin == {"queued", "awaiting_browser", "authorizing"}
ClosedLogin == {"verified", "failed", "cancelled", "expired"}
\* Stages of a driver whose job is in the account's process scope.
InScope == {"starting", "waiting", "forwarded", "signedIn", "snapshot"}

VARIABLES
    place,      \* the device that holds the profile, and the harness
    login,      \* login -> row of harness_account_login; due: expires_at has passed
    account,    \* status; disabled_at; removal_completed_at
    driver,     \* login -> stage of codex_login
    socket,     \* login -> stage of websocket_claude_login
    loginPty,   \* logins whose terminal runs
    done,       \* logins for which complete_claude_login waits for the probe
    probing,    \* probe_harness_account waits for the device
    scopeShut,  \* the account's process scope is retired on the device
    remover,    \* stage of account_retirement::retire
    restarted   \* the device has restarted

loginVars == <<place, login, account, driver, socket, loginPty, done, probing, scopeShut, remover, restarted>>

HarnessLoginTypeOK ==
    /\ place \in [device : {"gateway", "host"}, harness : {"codex", "claude"}]
    /\ login \in [Logins -> [state : {"none"} \cup OpenLogin \cup ClosedLogin,
                             url : BOOLEAN, code : BOOLEAN, due : BOOLEAN]]
    /\ account \in [status : {"pending", "active", "error", "reauth_required", "disabled"},
                    disabled : BOOLEAN, removed : BOOLEAN]
    /\ driver \in [Logins -> {"none", "claimed", "failing", "gone"} \cup InScope]
    /\ socket \in [Logins -> {"none", "checked", "attached"}]
    /\ {loginPty, done} \subseteq SUBSET Logins
    /\ {probing, scopeShut, restarted} \subseteq BOOLEAN
    /\ remover \in {"idle", "closing", "drained"}

HarnessLoginInit ==
    /\ place \in [device : {"gateway", "host"}, harness : {"codex", "claude"}]
    /\ login = [l \in Logins |-> [state |-> "none", url |-> FALSE, code |-> FALSE, due |-> FALSE]]
    /\ account = [status |-> "pending", disabled |-> FALSE, removed |-> FALSE]
    /\ driver = [l \in Logins |-> "none"] /\ socket = [l \in Logins |-> "none"]
    /\ loginPty = {} /\ done = {} /\ probing = FALSE
    /\ scopeShut = FALSE /\ remover = "idle" /\ restarted = FALSE

IsOpen(l) == login[l].state \in OpenLogin
\* The driver reports over the connector's requests; otherwise DbLoginSink
\* writes the row itself.
HttpLoginSink == place.device = "host"
Cleared(r, s) == [r EXCEPT !.state = s, !.url = FALSE, !.code = FALSE]
WithStatus(s) == IF account.disabled THEN account ELSE [account EXCEPT !.status = s]

-----------------------------------------------------------------------------
(* The routes of the browser.                                              *)

\* The open rows whose time is up, closed.
Expired == [l \in Logins |-> IF IsOpen(l) /\ login[l].due THEN Cleared(login[l], "expired") ELSE login[l]]

\* An open row is resumed; otherwise the new row waits for its host, or is
\* claimed at once and, for Codex on the gateway, driven.
start_harness_account_login(l) ==
    /\ login[l].state = "none" /\ (\A k \in 1..(l - 1) : login[k].state # "none") /\ ~account.disabled
    /\ IF \E k \in Logins : Expired[k].state \in OpenLogin
       THEN login' = Expired /\ UNCHANGED driver
       ELSE /\ login' = [Expired EXCEPT ![l].state =
                             IF place = [device |-> "host", harness |-> "codex"] THEN "queued" ELSE "authorizing"]
            /\ driver' = [driver EXCEPT ![l] =
                             IF place = [device |-> "gateway", harness |-> "codex"] THEN "claimed" ELSE "none"]
    /\ UNCHANGED <<place, account, socket, loginPty, done, probing, scopeShut, remover, restarted>>

\* external: the 15 minutes of a login pass.
LoginComesDue(l) ==
    /\ IsOpen(l) /\ ~login[l].due /\ login' = [login EXCEPT ![l].due = TRUE]
    /\ UNCHANGED <<place, account, driver, socket, loginPty, done, probing, scopeShut, remover, restarted>>

submit_harness_account_login_callback(l) ==
    /\ place.harness = "codex" /\ login[l].state = "awaiting_browser" /\ ~login[l].due
    /\ login' = [login EXCEPT ![l].state = "authorizing", ![l].code = TRUE]
    /\ UNCHANGED <<place, account, driver, socket, loginPty, done, probing, scopeShut, remover, restarted>>

cancel_harness_account_login(l) ==
    /\ IsOpen(l) /\ login' = [login EXCEPT ![l] = Cleared(login[l], "cancelled")]
    /\ UNCHANGED <<place, account, driver, socket, loginPty, done, probing, scopeShut, remover, restarted>>

\* probe_harness_account: the device is asked, and its answer stored later.
BeginProbe ==
    /\ ~account.disabled /\ ~probing /\ probing' = TRUE
    /\ UNCHANGED <<place, login, account, driver, socket, loginPty, done, scopeShut, remover, restarted>>
EndProbe ==
    /\ probing /\ probing' = FALSE
    /\ \E s \in {"active", "error", "reauth_required"} : account' = WithStatus(s)
    /\ UNCHANGED <<place, login, driver, socket, loginPty, done, scopeShut, remover, restarted>>

-----------------------------------------------------------------------------
(* The Codex driver.                                                       *)

\* The connector claims; an answer that is lost leaves the row claimed.
claim_harness_account_login(l) ==
    /\ HttpLoginSink /\ Expired[l].state = "queued"
    /\ login' = [Expired EXCEPT ![l].state = "authorizing"]
    /\ \E d \in {"claimed", "gone"} : driver' = [driver EXCEPT ![l] = d]
    /\ UNCHANGED <<place, account, socket, loginPty, done, probing, scopeShut, remover, restarted>>

\* Wrong version: the sign-in takes no job of the account's scope.
BeginLogin_unfenced(l) ==
    /\ driver[l] = "claimed" /\ driver' = [driver EXCEPT ![l] = "starting"]
    /\ UNCHANGED <<place, login, account, socket, loginPty, done, probing, scopeShut, remover, restarted>>

BeginLogin(l) ==
    /\ driver[l] = "claimed"
    /\ driver' = [driver EXCEPT ![l] = IF scopeShut THEN "failing" ELSE "starting"]
    /\ UNCHANGED <<place, login, account, socket, loginPty, done, probing, scopeShut, remover, restarted>>

\* Wrong version: the link is published whatever became of the row.
publish_login_any(l) ==
    /\ driver[l] = "starting"
    /\ login' = [login EXCEPT ![l].state = "awaiting_browser", ![l].url = TRUE]
    /\ driver' = [driver EXCEPT ![l] = "waiting"]
    /\ UNCHANGED <<place, account, socket, loginPty, done, probing, scopeShut, remover, restarted>>

publish_login(l) ==
    /\ driver[l] = "starting"
    /\ IF login[l].state = "authorizing" /\ ~login[l].due
       THEN /\ login' = [login EXCEPT ![l].state = "awaiting_browser", ![l].url = TRUE]
            /\ driver' = [driver EXCEPT ![l] = "waiting"]
       ELSE driver' = [driver EXCEPT ![l] = "failing"] /\ UNCHANGED login
    /\ UNCHANGED <<place, account, socket, loginPty, done, probing, scopeShut, remover, restarted>>

HasCode(l) == login[l].state = "authorizing" /\ login[l].code /\ ~login[l].due

\* Polled each second until a code was forwarded. The gateway's sink also
\* sees that the row is no longer open; the connector's does not.
take_callback(l) ==
    /\ driver[l] = "waiting"
    /\ \/ /\ HasCode(l) /\ login' = [login EXCEPT ![l].code = FALSE]
          /\ driver' = [driver EXCEPT ![l] = "forwarded"]
       \/ /\ ~HttpLoginSink /\ (~IsOpen(l) \/ login[l].due)
          /\ driver' = [driver EXCEPT ![l] = "failing"] /\ UNCHANGED login
    /\ UNCHANGED <<place, account, socket, loginPty, done, probing, scopeShut, remover, restarted>>

\* external: Codex reports the sign-in, with or without a forwarded code.
CodexSignsIn(l) ==
    /\ driver[l] \in {"waiting", "forwarded"} /\ driver' = [driver EXCEPT ![l] = "signedIn"]
    /\ UNCHANGED <<place, login, account, socket, loginPty, done, probing, scopeShut, remover, restarted>>

\* A rejection, a broken pipe, a deadline, or the retired scope.
DriverFails(l) ==
    /\ driver[l] \in InScope /\ driver' = [driver EXCEPT ![l] = "failing"]
    /\ UNCHANGED <<place, login, account, socket, loginPty, done, probing, scopeShut, remover, restarted>>
DriverCancelled(l) == scopeShut /\ DriverFails(l)

Verifies(l) == login[l].state \in {"awaiting_browser", "authorizing"} /\ ~login[l].due

complete_login(l) ==
    /\ driver[l] = "signedIn"
    /\ IF Verifies(l)
       THEN /\ login' = [login EXCEPT ![l] = Cleared(login[l], "verified")]
            /\ account' = WithStatus("active") /\ driver' = [driver EXCEPT ![l] = "snapshot"]
       ELSE driver' = [driver EXCEPT ![l] = "failing"] /\ UNCHANGED <<login, account>>
    /\ UNCHANGED <<place, socket, loginPty, done, probing, scopeShut, remover, restarted>>

publish_snapshot(l) ==
    /\ driver[l] = "snapshot" /\ driver' = [driver EXCEPT ![l] = "gone"]
    /\ account' \in {account, WithStatus("active")}
    /\ UNCHANGED <<place, login, socket, loginPty, done, probing, scopeShut, remover, restarted>>

\* The report of a host may be lost.
fail_login(l) ==
    /\ driver[l] = "failing" /\ driver' = [driver EXCEPT ![l] = "gone"]
    /\ \/ /\ login[l].state \in {"authorizing", "awaiting_browser"}
          /\ login' = [login EXCEPT ![l].state = "failed", ![l].code = FALSE]
          /\ account' = IF account.status = "active" THEN account ELSE WithStatus("error")
       \/ /\ HttpLoginSink \/ login[l].state \notin {"authorizing", "awaiting_browser"}
          /\ UNCHANGED <<login, account>>
    /\ UNCHANGED <<place, socket, loginPty, done, probing, scopeShut, remover, restarted>>

-----------------------------------------------------------------------------
(* The Claude terminal.                                                    *)

owned_claude_login(l) ==
    /\ place.harness = "claude" /\ login[l].state = "authorizing" /\ ~login[l].due /\ ~account.disabled

OpenSocket(l) ==
    /\ socket[l] = "none" /\ owned_claude_login(l) /\ socket' = [socket EXCEPT ![l] = "checked"]
    /\ UNCHANGED <<place, login, account, driver, loginPty, done, probing, scopeShut, remover, restarted>>

EnsureLoginTerminal(l) ==
    /\ socket[l] = "checked"
    /\ IF scopeShut THEN socket' = [socket EXCEPT ![l] = "none"] /\ UNCHANGED loginPty
       ELSE socket' = [socket EXCEPT ![l] = "attached"] /\ loginPty' = loginPty \cup {l}
    /\ UNCHANGED <<place, login, account, driver, done, probing, scopeShut, remover, restarted>>

\* The socket ends: the browser leaves, or the terminal's output ends.
CloseSocket(l) ==
    /\ socket[l] = "attached" /\ socket' = [socket EXCEPT ![l] = "none"] /\ loginPty' = loginPty \ {l}
    /\ UNCHANGED <<place, login, account, driver, done, probing, scopeShut, remover, restarted>>

\* Each second the socket asks whether the login is still its own.
CheckSocket(l) == socket[l] = "attached" /\ ~owned_claude_login(l) /\ CloseSocket(l)

\* complete_claude_login: the identity is probed, then the row is completed.
ProbeIdentity(l) ==
    /\ owned_claude_login(l) /\ l \notin done /\ done' = done \cup {l}
    /\ UNCHANGED <<place, login, account, driver, socket, loginPty, probing, scopeShut, remover, restarted>>
complete_claude_login(l) ==
    /\ l \in done /\ done' = done \ {l}
    /\ \/ /\ Verifies(l) /\ login' = [login EXCEPT ![l] = Cleared(login[l], "verified")]
          /\ account' = WithStatus("active") /\ loginPty' = loginPty \ {l}
       \/ UNCHANGED <<login, account, loginPty>>
    /\ UNCHANGED <<place, driver, socket, probing, scopeShut, remover, restarted>>

-----------------------------------------------------------------------------
(* Removing the account, and restarting its device.                        *)

RequestRemoval ==
    /\ ~account.disabled /\ account' = [account EXCEPT !.status = "disabled", !.disabled = TRUE]
    /\ login' = [l \in Logins |-> IF IsOpen(l) THEN [login[l] EXCEPT !.state = "cancelled", !.code = FALSE]
                                  ELSE login[l]]
    /\ UNCHANGED <<place, driver, socket, loginPty, done, probing, scopeShut, remover, restarted>>

\* The scope is shut before the terminals are listed.
close_account ==
    /\ account.disabled /\ ~account.removed /\ remover = "idle"
    /\ remover' = "closing" /\ scopeShut' = TRUE /\ loginPty' = {}
    /\ UNCHANGED <<place, login, account, driver, socket, done, probing, restarted>>

\* The drain, or its ten seconds.
DrainAccount ==
    /\ remover = "closing"
    /\ \/ remover' = "drained" /\ \A l \in Logins : driver[l] \notin InScope
       \/ remover' = "idle"    /\ \E l \in Logins : driver[l] \in InScope
    /\ UNCHANGED <<place, login, account, driver, socket, loginPty, done, probing, scopeShut, restarted>>

FinishRemoval ==
    /\ remover = "drained" /\ remover' = "idle" /\ account' = [account EXCEPT !.removed = TRUE]
    /\ UNCHANGED <<place, login, driver, socket, loginPty, done, probing, scopeShut, restarted>>

\* The processes of the device end with it, and so does what its scopes know.
\* Calls of the gateway to a host survive the host.
RestartDevice ==
    /\ ~restarted /\ restarted' = TRUE /\ scopeShut' = FALSE /\ loginPty' = {}
    /\ driver' = [l \in Logins |-> IF driver[l] = "none" THEN "none" ELSE "gone"]
    /\ socket' = [l \in Logins |-> IF place.device = "host" /\ socket[l] = "checked" THEN "checked" ELSE "none"]
    /\ done' = IF place.device = "host" THEN done ELSE {}
    /\ probing' = (probing /\ place.device = "host")
    /\ remover' = IF place.device = "host" /\ remover = "drained" THEN "drained" ELSE "idle"
    /\ UNCHANGED <<place, login, account>>

DriverStep(l) ==
    \/ BeginLogin(l) \/ publish_login(l) \/ take_callback(l) \/ complete_login(l)
    \/ publish_snapshot(l) \/ fail_login(l) \/ DriverCancelled(l)
SocketStep(l) == EnsureLoginTerminal(l) \/ CheckSocket(l)

HarnessLoginNext ==
    \/ BeginProbe \/ EndProbe \/ RequestRemoval \/ close_account \/ DrainAccount \/ FinishRemoval \/ RestartDevice
    \/ \E l \in Logins :
          \/ start_harness_account_login(l) \/ LoginComesDue(l) \/ submit_harness_account_login_callback(l)
          \/ cancel_harness_account_login(l) \/ claim_harness_account_login(l) \/ DriverStep(l)
          \/ CodexSignsIn(l) \/ DriverFails(l) \/ OpenSocket(l) \/ SocketStep(l) \/ CloseSocket(l)
          \/ ProbeIdentity(l) \/ complete_claude_login(l)

-----------------------------------------------------------------------------
\* A login that was closed stays as it was closed, however late its driver,
\* its connector or the browser report.
ClosedLoginIsFinal ==
    [][\A l \in Logins : login[l].state \in ClosedLogin => login'[l].state = login[l].state]_loginVars

\* No closed login holds an authorization code, and at most one login of an
\* account is open.
ClosedLoginKeepsNoCode ==
    /\ \A l \in Logins : ~IsOpen(l) => ~login[l].code
    /\ Cardinality({l \in Logins : IsOpen(l)}) <= 1

\* A removed account is not brought back by a sign-in, a snapshot or a probe
\* that was under way.
RemovedAccountIsNotRevived == account.disabled => account.status = "disabled"

\* When the removal is reported complete no Codex sign-in of the account
\* runs, and no Claude terminal but one that a restarted device opened for a
\* socket admitted before the removal.
RemovedAccountHasNoProcess ==
    account.removed =>
        /\ \A l \in Logins : driver[l] \notin InScope
        /\ loginPty # {} => restarted /\ place = [device |-> "host", harness |-> "claude"]

\* A sign-in the user gave up on stops its driver on the gateway.
CancelledDriverStops ==
    \A l \in Logins :
        (place.device = "gateway" /\ driver[l] = "waiting" /\ ~IsOpen(l)) ~> (driver[l] = "gone")

\* A terminal of a login that is closed or whose account is removed ends.
ClosedLoginEndsTerminal ==
    \A l \in Logins : (l \in loginPty /\ ~IsOpen(l)) ~> (l \notin loginPty)
=============================================================================
