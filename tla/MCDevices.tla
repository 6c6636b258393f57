------------------------------ MODULE MCDevices ------------------------------
(* Small instances, for TLC, of what runs on a device: harness sessions,     *)
(* links, terminals, tunnels, the host server.  A behaviour is about one of  *)
(* the components, its part; the others rest.                                *)
EXTENDS HarnessSession, NativeSessions, HostLinks, Ssh, DecisionPrograms,
        HostServer, ConnectionPool, HostPairing, SqlScan

VARIABLE part   \* the component this behaviour is about

\* The texts of up to n characters of A; the alphabets put each kind of token
\* beside the statement terminator.
Over(A, n) == UNION {[1 .. k -> A] : k \in 0 .. n}
MCSqlTexts ==
    Over({"q", ";", "a", "-", "n"}, 4) \cup Over({"/", "*", ";"}, 7)
        \cup Over({"d", ";", "q"}, 5) \cup Over({"$", "a", ";"}, 6)

vars == <<part, hsVars, nsVars, importVars, linkVars, streamVars, tunnelVars,
          decisionVars, serverVars, poolVars, hpVars, configVars, sqlVars>>

Parts == {"harness", "native", "import", "links", "stream", "tunnels",
          "decision", "server", "pool", "pairing", "sshconfig", "sql"}

\* A component that is not the part of the behaviour rests in an initial state.
Init ==
    /\ part \in Parts
    /\ HarnessInit
    /\ NativeSessionsInit /\ row.ws = 1 /\ row.host = 1   \* the others are permutations of this state
    /\ ImportInit
    /\ HostLinksInit
    /\ StreamInit
    /\ TunnelInit
    /\ DecisionInit
    /\ ServerInit /\ (part # "server" => \A s \in Services : listener[s] = "free")
    /\ PoolInit
    /\ HostPairingInit
    /\ IF part = "sshconfig" THEN ConfigInit
       ELSE /\ includes = [f \in SshFiles |-> <<>>] /\ readable = {}
            /\ toRead = <<1>> /\ visited = {} /\ aliases = <<>>
    /\ IF part = "sql" THEN SqlInit
       ELSE sqlText = <<>> /\ sqlScan = NoScan

HarnessPart ==
    /\ part = "harness" /\ HarnessNext
    /\ UNCHANGED <<part, nsVars, importVars, linkVars, streamVars,
                   tunnelVars, decisionVars, serverVars, poolVars, hpVars,
                   configVars, sqlVars>>

NativePart ==
    /\ part = "native" /\ NativeSessionsNext
    /\ UNCHANGED <<part, hsVars, importVars, linkVars, streamVars,
                   tunnelVars, decisionVars, serverVars, poolVars, hpVars,
                   configVars, sqlVars>>

ImportPart ==
    /\ part = "import" /\ ImportNext
    /\ UNCHANGED <<part, hsVars, nsVars, linkVars, streamVars, tunnelVars,
                   decisionVars, serverVars, poolVars, hpVars, configVars,
                   sqlVars>>

LinksPart ==
    /\ part = "links" /\ HostLinksNext
    /\ UNCHANGED <<part, hsVars, nsVars, importVars, streamVars, tunnelVars,
                   decisionVars, serverVars, poolVars, hpVars, configVars,
                   sqlVars>>

StreamPart ==
    /\ part = "stream" /\ StreamNext
    /\ UNCHANGED <<part, hsVars, nsVars, importVars, linkVars, tunnelVars,
                   decisionVars, serverVars, poolVars, hpVars, configVars,
                   sqlVars>>

TunnelsPart ==
    /\ part = "tunnels" /\ TunnelNext
    /\ UNCHANGED <<part, hsVars, nsVars, importVars, linkVars, streamVars,
                   decisionVars, serverVars, poolVars, hpVars, configVars,
                   sqlVars>>

DecisionPart ==
    /\ part = "decision" /\ DecisionNext
    /\ UNCHANGED <<part, hsVars, nsVars, importVars, linkVars, streamVars,
                   tunnelVars, serverVars, poolVars, hpVars, configVars,
                   sqlVars>>

ServerPart ==
    /\ part = "server" /\ ServerNext
    /\ UNCHANGED <<part, hsVars, nsVars, importVars, linkVars, streamVars,
                   tunnelVars, decisionVars, poolVars, hpVars, configVars,
                   sqlVars>>

PoolPart ==
    /\ part = "pool" /\ PoolNext
    /\ UNCHANGED <<part, hsVars, nsVars, importVars, linkVars, streamVars,
                   tunnelVars, decisionVars, serverVars, hpVars, configVars,
                   sqlVars>>

PairingPart ==
    /\ part = "pairing" /\ HostPairingNext
    /\ UNCHANGED <<part, hsVars, nsVars, importVars, linkVars, streamVars,
                   tunnelVars, decisionVars, serverVars, poolVars,
                   configVars, sqlVars>>

SshConfigPart ==
    /\ part = "sshconfig" /\ collect_ssh_aliases
    /\ UNCHANGED <<part, hsVars, nsVars, importVars, linkVars, streamVars,
                   tunnelVars, decisionVars, serverVars, poolVars, hpVars,
                   sqlVars>>

SqlPart ==
    /\ part = "sql" /\ SqlNext
    /\ UNCHANGED <<part, hsVars, nsVars, importVars, linkVars, streamVars,
                   tunnelVars, decisionVars, serverVars, poolVars, hpVars,
                   configVars>>

Next ==
    \/ HarnessPart
    \/ NativePart
    \/ ImportPart
    \/ LinksPart
    \/ StreamPart
    \/ TunnelsPart
    \/ DecisionPart
    \/ ServerPart
    \/ PoolPart
    \/ PairingPart
    \/ SshConfigPart
    \/ SqlPart

Spec == Init /\ [][Next]_vars

\* Every component keeps the types of its state (the others rest in theirs).
TypeOK ==
    /\ (part = "harness" => HarnessTypeOK)
    /\ (part = "native" => NativeSessionsTypeOK)
    /\ (part = "import" => ImportTypeOK)
    /\ (part = "links" => HostLinksTypeOK)
    /\ (part = "stream" => StreamTypeOK)
    /\ (part \in {"tunnels", "sshconfig"} => TunnelTypeOK)
    /\ (part \in {"tunnels", "sshconfig"} => ConfigTypeOK)
    /\ (part = "decision" => DecisionTypeOK)
    /\ (part \in {"server", "sql"} => ServerTypeOK)
    /\ (part = "pool" => PoolTypeOK)
    /\ (part = "pairing" => HostPairingTypeOK)

(* One turn, process, agent, host or trial for each that was asked for,     *)
(* though requests repeat and race.                                         *)
DoneOnce ==
    /\ (part = "harness" => TurnIsPaidOnce /\ OneTurnAtATime /\ OneProcessPerBinding)
    /\ (part = "import" => SessionHasOneAgent /\ SessionRunsOnce)
    /\ (part = "decision" => TriedOnce)
    /\ (part = "pairing" => CodeMakesOneHost)

(* What was removed, revoked, disabled or stopped leaves nothing behind that *)
(* still runs or is still reachable.                                        *)
EndedIsGone ==
    /\ (part = "harness" => RemovedAccountIsIdle)
    /\ (part = "native" => NoBindingOutlivesDisable)
    /\ (part = "links" => RevokedDeviceIsUnlinked /\ SignInEndsWithLink)
    /\ (part = "tunnels" => NoOrphanProcess)
    /\ (part = "server" => NothingLeftBehind /\ DatabaseStopsLast)
    /\ (part = "pairing" => RevokedHostStaysRevoked)

(* A late answer of an earlier process, link, attempt, placement or trial   *)
(* never replaces the newer one.                                            *)
NewestCounts ==
    /\ (part = "harness" => ApprovalReachesAsker)
    /\ (part = "native" => AnchorIsCurrent /\ MovedTurnIsRerun)
    /\ (part = "links" => NewestLinkIsReachable)
    /\ (part = "tunnels" => NewestAttemptWins)
    /\ (part = "decision" => AnswersAreTested)
    /\ (part = "pairing" => ConnectedHostKeepsItsConfig /\ ActiveAccountWasProbedHere)

(* Sequences arrive whole and in order: terminal output, migrations and their *)
(* statements, included files, answers shown to an agent; and no request    *)
(* waits for a connection for ever.                                         *)
NothingIsSkipped ==
    /\ (part = "stream" => OutputIsNeverSkipped /\ LagKeepsProcess)
    /\ (part = "decision" => AnswersReachTheAgent)
    /\ (part = "server" => MigrationsInOrder /\ ReplaysOnlyAcrossAGap)
    /\ (part = "pool" => PoolNeverStarves)
    /\ (part = "sshconfig" => AliasesAreComplete)
    /\ (part = "sql" => SplitsAtTerminators)

(* No step takes what belongs to another: the session of another device, a  *)
(* manual tunnel, the selection of the owner, the account of another host.  *)
OthersKeepTheirs ==
    /\ RecordedSessionIsLocal /\ ManualTunnelsStay /\ PublishedAsSelected
    /\ AccountStaysWithItsHost
=============================================================================
