------------------------------ MODULE HostServer ------------------------------
(***************************************************************************)
(* choruz-server: it starts the embedded database, brings the schema up to *)
(* date, starts the gateway and the pipeline as children or reuses ones    *)
(* that are running, announces that it is ready, watches its children, and *)
(* stops them and then the database. A signal only sets a flag; the thread *)
(* that watches the children and the main thread may both shut down. The   *)
(* server may be killed at any point, which leaves its children and the    *)
(* database running for the next launch to find.                           *)
(***************************************************************************)
EXTENDS Integers, FiniteSets

CONSTANTS
    Files,           \* migration files, 1..n
    ConcurrentFiles, \* the ones with CREATE INDEX CONCURRENTLY: run statement by statement
    Statements,      \* statements of a file, 1..n
    MaxLaunches      \* bound on launches of the server

VARIABLES
    phase,      \* main thread: "off", "migrating", "starting", "running", "stopping", "stopped", "exited"
    launches,   \* launches so far
    dbUp,       \* the embedded database runs
    ran,        \* <<file, statement>> -> times it was executed
    progress,   \* _migration_statement_progress
    tracked,    \* _migrations
    unmarked,   \* executed and not yet marked: <<file, statement>>, <<file, 0>> for a whole file, or None
    gaps,       \* history: kills between an execution and its mark
    child,      \* service -> owned child: "none", "starting", "ready", "dead"
    listener,   \* service -> what else listens on its port: "free", "compatible", "foreign"
    stop,       \* the signal handler's flag
    monitor,    \* the watching thread: "none", "watching", "stopping", "done"
    failed,     \* backend_failed
    childLock   \* holder of the mutex of the children: "none", "main", "monitor"

serverVars == <<phase, launches, dbUp, ran, progress, tracked, unmarked, gaps, child, listener, stop,
                monitor, failed, childLock>>
migrationVars == <<ran, progress, tracked, unmarked, gaps>>
processVars == <<child, listener, stop, monitor, failed, childLock>>

Services == {1, 2}   \* the gateway and the pipeline, in the order they are started
NoMark == <<0, 0>>
Lives(s) == child[s] \in {"starting", "ready"}

ServerTypeOK ==
    /\ phase \in {"off", "migrating", "starting", "running", "stopping", "stopped", "exited"}
    /\ launches \in 0 .. MaxLaunches /\ gaps \in 0 .. MaxLaunches
    /\ progress \subseteq ConcurrentFiles \X Statements /\ tracked \subseteq Files
    /\ unmarked \in (Files \X ({0} \cup Statements)) \cup {NoMark}
    /\ \A s \in Services : child[s] \in {"none", "starting", "ready", "dead"} /\ listener[s] \in {"free", "compatible", "foreign"}
    /\ monitor \in {"none", "watching", "stopping", "done"} /\ childLock \in {"none", "main", "monitor"}

ServerInit ==
    /\ phase = "off" /\ launches = 0 /\ dbUp = FALSE
    /\ ran = [x \in Files \X Statements |-> 0] /\ progress = {} /\ tracked = {} /\ unmarked = NoMark /\ gaps = 0
    /\ child = [s \in Services |-> "none"] /\ listener \in [Services -> {"free", "foreign"}]
    /\ stop = FALSE /\ monitor = "none" /\ failed = FALSE /\ childLock = "none"

-----------------------------------------------------------------------------
(* Launch and migrations.                                                  *)

Launch ==
    /\ phase \in {"off", "exited"} /\ launches < MaxLaunches
    /\ phase' = "migrating" /\ launches' = launches + 1 /\ dbUp' = TRUE
    /\ child' = [s \in Services |-> "none"]
    /\ stop' = FALSE /\ monitor' = "none" /\ failed' = FALSE /\ childLock' = "none"
    /\ UNCHANGED <<migrationVars, listener>>

\* Wrong version: the files in the order the directory lists them.
NextFileAsListed(f) == f \notin tracked

\* The files in their order: the first that is not tracked.
NextFile(f) == f \notin tracked /\ \A g \in Files : g < f => g \in tracked

\* The first statement of the file that is not recorded.
Due(f, i) == <<f, i>> \notin progress /\ \A j \in Statements : j < i => <<f, j>> \in progress

\* A statement on its own, or all of a file in one transaction.
execute_migration(f) ==
    /\ phase = "migrating" /\ unmarked = NoMark /\ NextFile(f)
    /\ IF f \in ConcurrentFiles
       THEN \E i \in Statements :
              /\ Due(f, i)
              /\ ran' = [ran EXCEPT ![<<f, i>>] = @ + 1] /\ unmarked' = <<f, i>>
       ELSE ran' = [x \in DOMAIN ran |-> IF x[1] = f THEN ran[x] + 1 ELSE ran[x]] /\ unmarked' = <<f, 0>>
    /\ UNCHANGED <<phase, launches, dbUp, progress, tracked, gaps, processVars>>

RecordStatement ==
    /\ phase = "migrating" /\ unmarked # NoMark /\ unmarked[2] # 0
    /\ progress' = progress \cup {unmarked} /\ unmarked' = NoMark
    /\ UNCHANGED <<phase, launches, dbUp, ran, tracked, gaps, processVars>>

TrackFile(f) ==
    /\ phase = "migrating" /\ NextFile(f)
    /\ \/ unmarked = <<f, 0>>
       \/ unmarked = NoMark /\ f \in ConcurrentFiles /\ \A i \in Statements : <<f, i>> \in progress
    /\ tracked' = tracked \cup {f} /\ unmarked' = NoMark
    /\ UNCHANGED <<phase, launches, dbUp, ran, progress, gaps, processVars>>

\* A statement is refused by the database: the launch ends, and the database with it.
MigrationFails ==
    /\ phase = "migrating" /\ unmarked = NoMark /\ tracked # Files
    /\ phase' = "exited" /\ dbUp' = FALSE
    /\ UNCHANGED <<launches, migrationVars, processVars>>

\* A signal that came meanwhile ends the launch before any child is started.
Migrated ==
    /\ phase = "migrating" /\ tracked = Files
    /\ IF stop THEN phase' = "stopped" ELSE phase' = "starting"
    /\ UNCHANGED <<launches, dbUp, migrationVars, processVars>>

-----------------------------------------------------------------------------
(* Children.                                                               *)

\* The next service: the one before it is up, as a child or as a listener that is reused.
Serves(s) == child[s] = "ready" \/ listener[s] = "compatible"
NextService(s) == child[s] = "none" /\ listener[s] # "compatible" /\ \A t \in Services : t < s => child[t] # "none" \/ listener[t] = "compatible"

\* A listener is left alone when it is the expected service, and refused otherwise.
spawn_backend(s) ==
    /\ phase = "starting" /\ NextService(s) /\ \A t \in Services : child[t] # "starting"
    /\ IF listener[s] = "foreign"
       THEN phase' = "stopping" /\ UNCHANGED child
       ELSE child' = [child EXCEPT ![s] = "starting"] /\ UNCHANGED phase
    /\ UNCHANGED <<launches, dbUp, migrationVars, listener, stop, monitor, failed, childLock>>

\* external: a child is up, or ends.
ChildMoves(s) ==
    /\ \/ child[s] = "starting" /\ child' = [child EXCEPT ![s] = "ready"]
       \/ Lives(s) /\ child' = [child EXCEPT ![s] = "dead"]
    /\ phase \in {"starting", "running", "stopping"}
    /\ UNCHANGED <<phase, launches, dbUp, migrationVars, listener, stop, monitor, failed, childLock>>

\* The child being waited for ended, or is not ready in time.
wait_until_ready(s) ==
    /\ phase = "starting" /\ child[s] \in {"starting", "dead"} /\ \A t \in Services : t > s => child[t] = "none"
    /\ phase' = "stopping"
    /\ UNCHANGED <<launches, dbUp, migrationVars, processVars>>

\* All services answered when they were waited for: the monitor starts, readiness is announced.
Announce ==
    /\ phase = "starting" /\ \A s \in Services : child[s] # "none" \/ listener[s] = "compatible"
    /\ Serves(2)
    /\ phase' = "running" /\ monitor' = "watching"
    /\ UNCHANGED <<launches, dbUp, migrationVars, child, listener, stop, failed, childLock>>

Signal ==
    /\ phase \notin {"off", "exited"} /\ ~stop /\ stop' = TRUE
    /\ UNCHANGED <<phase, launches, dbUp, migrationVars, child, listener, monitor, failed, childLock>>

\* A child that ended is noticed; the flag is set before the rest is stopped.
check_children ==
    /\ monitor = "watching" /\ childLock = "none" /\ phase \in {"running", "stopping"}
    /\ \E s \in Services : child[s] = "dead"
    /\ failed' = TRUE /\ monitor' = "stopping"
    /\ UNCHANGED <<phase, launches, dbUp, migrationVars, child, listener, stop, childLock>>

LeaveLoop ==
    /\ phase = "running" /\ (stop \/ failed)
    /\ phase' = "stopping"
    /\ UNCHANGED <<launches, dbUp, migrationVars, processVars>>

\* shutdown, by either thread: the children are stopped one after the other under the mutex
\* and forgotten; a thread that comes second waits for the first.
ShutsDown(thread) == IF thread = "main" THEN phase = "stopping" ELSE monitor = "stopping"

Leaves(thread) ==
    IF thread = "main" THEN phase' = "stopped" /\ UNCHANGED monitor ELSE monitor' = "done" /\ UNCHANGED phase

\* Wrong version: a shutdown that is under way already is taken for one that is done.
LockChildrenOnce(thread) ==
    /\ ShutsDown(thread) /\ childLock # thread
    /\ IF childLock = "none" THEN childLock' = thread /\ UNCHANGED <<phase, monitor>>
       ELSE UNCHANGED childLock /\ Leaves(thread)
    /\ UNCHANGED <<launches, dbUp, migrationVars, child, listener, stop, failed>>

LockChildren(thread) ==
    /\ ShutsDown(thread) /\ childLock = "none"
    /\ childLock' = thread
    /\ UNCHANGED <<launches, phase, monitor, dbUp, migrationVars, child, listener, stop, failed>>

stop_child(thread, s) ==
    /\ childLock = thread /\ Lives(s)
    /\ child' = [child EXCEPT ![s] = "dead"]
    /\ UNCHANGED <<phase, launches, dbUp, migrationVars, listener, stop, monitor, failed, childLock>>

ForgetChildren(thread) ==
    /\ childLock = thread /\ \A s \in Services : ~Lives(s)
    /\ child' = [s \in Services |-> "none"] /\ childLock' = "none"
    /\ Leaves(thread)
    /\ UNCHANGED <<launches, dbUp, migrationVars, listener, stop, failed>>

\* The database is stopped last.
pg_stop ==
    /\ phase = "stopped"
    /\ phase' = "exited" /\ dbUp' = FALSE
    /\ UNCHANGED <<launches, migrationVars, processVars>>

\* The server is killed: what it started goes on without it, ready or not.
Kill ==
    /\ phase \notin {"off", "exited"}
    /\ phase' = "off"
    /\ gaps' = IF unmarked # NoMark THEN gaps + 1 ELSE gaps
    /\ unmarked' = NoMark
    /\ listener' \in {l \in [Services -> {"free", "compatible", "foreign"}] : \A s \in Services :
                        l[s] \in CASE child[s] = "ready" -> {"compatible"} [] child[s] = "starting" -> {"compatible", "foreign"}
                                   [] OTHER -> {listener[s]}}
    /\ child' = [s \in Services |-> "none"]
    /\ stop' = FALSE /\ monitor' = "none" /\ failed' = FALSE /\ childLock' = "none"
    /\ UNCHANGED <<launches, dbUp, ran, progress, tracked>>

\* external: a service that is not a child of this server ends.
ListenerEnds(s) ==
    /\ phase \in {"off", "exited", "running"} /\ listener[s] # "free"
    /\ listener' = [listener EXCEPT ![s] = "free"]
    /\ UNCHANGED <<phase, launches, dbUp, migrationVars, child, stop, monitor, failed, childLock>>

ServerNext ==
    \/ Launch \/ RecordStatement \/ MigrationFails \/ Migrated \/ Announce \/ Signal \/ check_children \/ LeaveLoop
    \/ \E f \in Files : execute_migration(f) \/ TrackFile(f)
    \/ \E s \in Services : spawn_backend(s) \/ ChildMoves(s) \/ wait_until_ready(s) \/ ListenerEnds(s)
    \/ \E thread \in {"main", "monitor"} :
         LockChildren(thread) \/ ForgetChildren(thread) \/ \E s \in Services : stop_child(thread, s)
    \/ pg_stop \/ Kill

-----------------------------------------------------------------------------
(* Properties.                                                             *)

\* The schema is the files in their order: a statement runs only when all before it have run,
\* and a file is tracked only when all of it has, whatever failed or was killed on the way.
MigrationsInOrder ==
    /\ \A f \in Files, g \in Files : g < f => \A i, j \in Statements : ran[<<f, i>>] > 0 => ran[<<g, j>>] > 0
    /\ \A f \in Files : \A i, j \in Statements : j < i /\ ran[<<f, i>>] > 0 => ran[<<f, j>>] > 0
    /\ \A f \in tracked : \A i \in Statements : ran[<<f, i>>] > 0

\* A later launch resumes after what was done: a statement is executed again only when the
\* server was killed between the statement and its mark, once for each time that happened.
ReplaysOnlyAcrossAGap == \A x \in DOMAIN ran : ran[x] <= 1 + gaps

\* The database is stopped only when no child of the server runs, though both threads may be
\* shutting down at once.
DatabaseStopsLast == ~dbUp => \A s \in Services : ~Lives(s)

\* An orderly end leaves no child behind, also when the signal or a failure comes while the
\* services are being started.
NothingLeftBehind == phase = "exited" => \A s \in Services : ~Lives(s)
=============================================================================
