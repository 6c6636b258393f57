--------------------------------- MODULE Ssh ---------------------------------
(***************************************************************************)
(* Connections over SSH to one host. A managed connection is two ssh       *)
(* processes, the runner of the remote server and the port forward; a      *)
(* newer attempt fences an older one by its generation. A manual tunnel is *)
(* one process.                                                            *)
(***************************************************************************)
EXTENDS Naturals, FiniteSets, Sequences

CONSTANTS Attempts, Manuals

VARIABLES
    attempt,    \* attempt -> stage of connect_choruz_tunnel and its generation
    latestGen,  \* latest_generation of the host
    runnerUp,   \* attempts whose runner process lives
    forwardUp,  \* attempts and manual tunnels whose forward process lives
    entries,    \* ids in the registry
    down,       \* entries with status Disconnected
    stopping    \* removed entries whose processes are being stopped

tunnelVars == <<attempt, latestGen, runnerUp, forwardUp, entries, down, stopping>>

Ids == Attempts \cup Manuals
TunnelTypeOK ==
    /\ attempt \in [Attempts -> [stage : {"idle", "handshake", "opening", "ready", "checked", "over"},
                                 gen : 0..Cardinality(Attempts)]]
    /\ latestGen \in 0..Cardinality(Attempts)
    /\ runnerUp \subseteq Attempts /\ {forwardUp, entries, down, stopping} \subseteq SUBSET Ids

TunnelInit ==
    /\ attempt = [a \in Attempts |-> [stage |-> "idle", gen |-> 0]] /\ latestGen = 0
    /\ runnerUp = {} /\ forwardUp = {} /\ entries = {} /\ down = {} /\ stopping = {}

-----------------------------------------------------------------------------
is_current(a) == attempt[a].gen = latestGen
managed_session_matches == entries \cap Attempts

\* The generation is taken before any remote work, then the runner started.
Reserve(a) ==
    /\ attempt[a].stage = "idle" /\ latestGen' = latestGen + 1
    /\ attempt' = [attempt EXCEPT ![a] = [stage |-> "handshake", gen |-> latestGen + 1]]
    /\ runnerUp' = runnerUp \cup {a}
    /\ UNCHANGED <<forwardUp, entries, down, stopping>>

\* An error path, or the browser goes away and the call is dropped: the
\* processes it holds are killed.
Ends(a) ==
    /\ attempt' = [attempt EXCEPT ![a].stage = "over"]
    /\ runnerUp' = runnerUp \ {a} /\ forwardUp' = forwardUp \ {a}
    /\ UNCHANGED <<latestGen, entries, down, stopping>>
AttemptFails(a) == attempt[a].stage \in {"handshake", "opening", "ready", "checked"} /\ Ends(a)

\* The remote server has announced its port: the first look at the
\* generation, then the forward.
HandshakeDone(a) ==
    /\ attempt[a].stage = "handshake"
    /\ \/ ~is_current(a) /\ Ends(a)
       \/ /\ is_current(a) /\ attempt' = [attempt EXCEPT ![a].stage = "opening"]
          /\ forwardUp' = forwardUp \cup {a}
          /\ UNCHANGED <<latestGen, runnerUp, entries, down, stopping>>

ForwardReady(a) ==
    /\ attempt[a].stage = "opening" /\ a \in forwardUp
    /\ attempt' = [attempt EXCEPT ![a].stage = "ready"]
    /\ UNCHANGED <<latestGen, runnerUp, forwardUp, entries, down, stopping>>

\* The second look.
CheckCurrent(a) ==
    /\ attempt[a].stage = "ready"
    /\ \/ ~is_current(a) /\ Ends(a)
       \/ /\ is_current(a) /\ attempt' = [attempt EXCEPT ![a].stage = "checked"]
          /\ UNCHANGED <<latestGen, runnerUp, forwardUp, entries, down, stopping>>

\* The third, under the lock that registers: the host's managed entries are
\* taken out and stopped once the lock is released.
Publish(a, replaced) ==
    /\ attempt' = [attempt EXCEPT ![a].stage = "over"]
    /\ entries' = (entries \ replaced) \cup {a} /\ down' = down \ replaced
    /\ stopping' = stopping \cup replaced
    /\ UNCHANGED <<latestGen, runnerUp, forwardUp>>

\* Wrong version: every entry of the host is replaced.
Register_all(a) == attempt[a].stage = "checked" /\ is_current(a) /\ Publish(a, entries)

Register(a) ==
    /\ attempt[a].stage = "checked"
    /\ \/ ~is_current(a) /\ Ends(a)
       \/ is_current(a) /\ Publish(a, managed_session_matches)

create_tunnel(m) ==
    /\ m \notin entries \cup stopping \cup forwardUp
    /\ forwardUp' = forwardUp \cup {m} /\ entries' = entries \cup {m}
    /\ UNCHANGED <<attempt, latestGen, runnerUp, down, stopping>>

\* external: an ssh process ends by itself.
ForwardDies(i) ==
    /\ i \in forwardUp /\ forwardUp' = forwardUp \ {i}
    /\ UNCHANGED <<attempt, latestGen, runnerUp, entries, down, stopping>>
RunnerDies(a) ==
    /\ a \in runnerUp /\ runnerUp' = runnerUp \ {a}
    /\ UNCHANGED <<attempt, latestGen, forwardUp, entries, down, stopping>>

Broken(i) == i \notin forwardUp \/ (i \in Attempts /\ i \notin runnerUp)

\* refresh_status of every entry: one dead process takes the other with it.
list_tunnels ==
    LET broken == {i \in entries \ down : Broken(i)} IN
    /\ broken # {} /\ down' = down \cup broken
    /\ runnerUp' = runnerUp \ broken /\ forwardUp' = forwardUp \ broken
    /\ UNCHANGED <<attempt, latestGen, entries, stopping>>

delete_tunnel(i) ==
    /\ i \in entries /\ entries' = entries \ {i} /\ down' = down \ {i} /\ stopping' = stopping \cup {i}
    /\ UNCHANGED <<attempt, latestGen, runnerUp, forwardUp>>

stop_tunnel_entry(i) ==
    /\ i \in stopping /\ stopping' = stopping \ {i}
    /\ runnerUp' = runnerUp \ {i} /\ forwardUp' = forwardUp \ {i}
    /\ UNCHANGED <<attempt, latestGen, entries, down>>

TunnelNext ==
    \/ list_tunnels
    \/ \E a \in Attempts : \/ Reserve(a) \/ AttemptFails(a) \/ HandshakeDone(a) \/ ForwardReady(a)
                           \/ CheckCurrent(a) \/ Register(a) \/ RunnerDies(a)
    \/ \E m \in Manuals : create_tunnel(m)
    \/ \E i \in Ids : ForwardDies(i) \/ delete_tunnel(i) \/ stop_tunnel_entry(i)

-----------------------------------------------------------------------------
\* One managed session per host, never replaced by an attempt that began
\* earlier, and no managed connect ends a manual tunnel.
NewestAttemptWins ==
    /\ Cardinality(managed_session_matches) <= 1
    /\ \A a \in managed_session_matches, b \in stopping \cap Attempts : attempt[b].gen < attempt[a].gen
ManualTunnelsStay ==
    [][\A m \in Manuals : m \in entries /\ (\E a \in Attempts : a \in entries' \ entries) => m \in entries']_tunnelVars

\* An ssh process belongs to a call under way, to an entry that is not
\* disconnected, or to an entry being stopped.
NoOrphanProcess ==
    \A i \in runnerUp \cup forwardUp :
        \/ i \in (entries \ down) \cup stopping
        \/ i \in Attempts /\ attempt[i].stage \in {"handshake", "opening", "ready", "checked"}

-----------------------------------------------------------------------------
(***************************************************************************)
(* Collecting the host aliases of the ssh configuration: the files are     *)
(* read depth first along their Include directives. What a file declares   *)
(* is abstracted to the file itself; a file may be missing, or unreadable. *)
(***************************************************************************)

CONSTANT SshFiles

VARIABLES
    includes,   \* file -> files its Include directives match, in order
    readable,   \* files that can be read
    toRead,     \* stack of the recursion: files still to look at
    visited,
    aliases     \* files whose aliases were collected, in order

configVars == <<includes, readable, toRead, visited, aliases>>

ConfigTypeOK ==
    /\ visited \subseteq SshFiles /\ aliases \in Seq(SshFiles) /\ toRead \in Seq(SshFiles)

Rows == {s \in UNION {[1..n -> SshFiles] : n \in 0..2} : Len(s) = 2 => s[1] # s[2]}
ConfigInit ==
    /\ includes \in [SshFiles -> Rows] /\ readable \in SUBSET SshFiles
    /\ toRead = <<1>> /\ visited = {} /\ aliases = <<>>

\* One file of collect_ssh_aliases_from_file: skipped when it was seen or
\* cannot be read, otherwise its aliases are taken and its includes are next.
collect_ssh_aliases ==
    /\ toRead # <<>> /\ UNCHANGED <<includes, readable>>
    /\ LET f == Head(toRead)
           fresh == f \notin visited /\ f \in readable
       IN /\ visited' = visited \cup {f}
          /\ toRead' = IF fresh THEN includes[f] \o Tail(toRead) ELSE Tail(toRead)
          /\ aliases' = IF fresh THEN Append(aliases, f) ELSE aliases

-----------------------------------------------------------------------------
\* Reference: the files reachable from the first through readable files.
Reach[n \in Nat] ==
    IF n = 0 THEN {1} \cap readable
    ELSE Reach[n - 1] \cup {f \in readable : \E g \in Reach[n - 1] : \E i \in DOMAIN includes[g] : includes[g][i] = f}

\* However the Include files point at each other, every file that can be
\* reached gives its aliases once.
AliasesAreComplete ==
    toRead = <<>> =>
        /\ {aliases[i] : i \in DOMAIN aliases} = Reach[Cardinality(SshFiles)]
        /\ Len(aliases) = Cardinality(Reach[Cardinality(SshFiles)])
=============================================================================
