------------------------------- MODULE Outbox --------------------------------
(* The Maildir outbox an agent speaks through, and how the pipeline drains *)
(* it.  A command is a file NAME.json in .choruz-outbox/new.  A drainer    *)
(* claims it by renaming it to NAME.json.ID.processing, runs it and        *)
(* removes it.  A .processing file whose mtime is a minute old may be      *)
(* renamed again, so a crash does not strand it.                           *)
(*                                                                         *)
(* Two drainers share a workspace: the outbox watcher, a loop over all     *)
(* bindings, and the executor at the end of a headless turn.  A binding on *)
(* a device has a mirror of its workspace, which only the watcher drains.  *)
EXTENDS Naturals, Sequences, FiniteSets

CONSTANTS Commands,        \* outbox file names: numbers, in name order
          MaxOutboxFaults  \* crashes, lost answers and errors in all

VARIABLES file,       \* per directory and name: the file, if there is one
          pending,    \* mirror/receipts/pending: name -> digest or NoDigest
          drain,      \* per drainer: what it is doing
          placed,     \* the binding's runtime_host_id
          turn,       \* the agent's headless turn, if one is in flight
          active,     \* the turn's command is leased, started or heartbeating
          kind,       \* what a command is; "unborn" before it is written
          member,     \* the agent is an active member of the conversation
          published,  \* commands whose reply is in the conversation
          denied,     \* history: commands whose reply the watcher was denied
          ran,        \* history: how often a command was run
          reclaimed,  \* history: commands whose claim was taken over
          outboxFaults

agentVars == <<placed, turn, active, kind, member>>
replyVars == <<published, denied>>
drainVars == <<file, pending, drain, agentVars, replyVars, ran, reclaimed, outboxFaults>>

Dirs == {"workspace", "mirror"}
Drainers == {"watcher", "executor"}
NoDigest == 99

(* claim tells the paths of a name apart: 0 is NAME.json, n > 0 the n-th   *)
(* .processing name.  old: the mtime is PROCESSING_STALE_AFTER ago.        *)
FileRow == [claim : 0..9, there : BOOLEAN, old : BOOLEAN]
NoFile == [claim |-> 0, there |-> FALSE, old |-> FALSE]
NewFile == [NoFile EXCEPT !.there = TRUE]

Resting == [at |-> "idle", dir |-> "workspace", todo |-> << >>, replies |-> {}]

DrainInit ==
    /\ file = [d \in Dirs |-> [c \in Commands |-> NoFile]]
    /\ pending = [c \in Commands |-> NoDigest]
    /\ drain = [w \in Drainers |-> Resting]
    /\ placed \in {"here", "device"}
    /\ turn = "none" /\ active = FALSE
    /\ kind = [c \in Commands |-> "unborn"]
    /\ member = TRUE
    /\ published = {} /\ denied = {}
    /\ ran = [c \in Commands |-> 0]
    /\ reclaimed = {}
    /\ outboxFaults = 0

Exists(d, p) == file[d][p.name].there /\ file[d][p.name].claim = p.claim

InNameOrder(S) == CHOOSE s \in [1..Cardinality(S) -> S] :
                     \A i, j \in 1..Cardinality(S) : i < j => s[i] < s[j]

\* A command that is still being stored is not ready.
outbox_command_is_ready(d, c) ==
    d = "mirror" /\ file[d][c].claim = 0 => pending[c] = NoDigest

-----------------------------------------------------------------------------
\* The watcher reads the bindings and the agents with a headless turn, then
\* drains the workspace, or the mirrors of a binding that is on a device.
WatcherPass ==
    /\ drain["watcher"].at = "idle"
    /\ ~active
    /\ LET d == IF placed = "here" THEN "workspace" ELSE "mirror"
       IN /\ \E c \in Commands : file[d][c].there
          /\ drain' = [drain EXCEPT !["watcher"] = [Resting EXCEPT !.at = "scan", !.dir = d]]
    /\ UNCHANGED <<file, pending, agentVars, replyVars, ran, reclaimed, outboxFaults>>

\* The executor drains the workspace when the CLI of a local turn has ended.
ExecutorDrain ==
    /\ turn = "local" /\ drain["executor"].at = "idle"
    /\ drain' = [drain EXCEPT !["executor"].at = "scan"]
    /\ UNCHANGED <<file, pending, agentVars, replyVars, ran, reclaimed, outboxFaults>>

Scan(w) ==
    LET d == drain[w].dir
        found == {c \in Commands : file[d][c].there /\ outbox_command_is_ready(d, c)}
        names == InNameOrder(found)
    IN /\ drain[w].at = "scan"
       /\ drain' = [drain EXCEPT
             ![w].at = IF found = {} THEN "publish" ELSE "claim",
             ![w].todo = [i \in DOMAIN names |-> [name |-> names[i],
                                                  claim |-> file[d][names[i]].claim]]]
       /\ UNCHANGED <<file, pending, agentVars, replyVars, ran, reclaimed, outboxFaults>>

\* On to the next path of the listing.
Skip(w) ==
    drain' = [drain EXCEPT ![w].at = IF Len(drain[w].todo) = 1 THEN "publish" ELSE "claim",
                           ![w].todo = Tail(@)]

\* The path in hand becomes a new .processing path; its mtime is set next.
Rename(w) ==
    LET d == drain[w].dir
        p == Head(drain[w].todo)
        n == file[d][p.name].claim + 1
    IN /\ file' = [file EXCEPT ![d][p.name].claim = n]
       /\ drain' = [drain EXCEPT ![w].at = "touch", ![w].todo[1].claim = n]

\* A .json is claimed by one rename; the age of a .processing file is looked
\* at first and the rename follows.
claim_outbox_file(w) ==
    LET d == drain[w].dir
        p == Head(drain[w].todo)
        stale == Exists(d, p) /\ file[d][p.name].old
    IN /\ drain[w].at = "claim"
       /\ \/ p.claim = 0 /\ Exists(d, p) /\ Rename(w)
          \/ /\ p.claim > 0 /\ stale
             /\ drain' = [drain EXCEPT ![w].at = "reclaim"]
             /\ UNCHANGED file
          \/ /\ IF p.claim = 0 THEN ~Exists(d, p) ELSE ~stale
             /\ Skip(w) /\ UNCHANGED file
       /\ UNCHANGED <<pending, agentVars, replyVars, ran, reclaimed, outboxFaults>>

Reclaim(w) ==
    LET d == drain[w].dir
        p == Head(drain[w].todo)
    IN /\ drain[w].at = "reclaim"
       /\ IF Exists(d, p)
          THEN Rename(w) /\ reclaimed' = reclaimed \cup {p.name}
          ELSE Skip(w) /\ UNCHANGED <<file, reclaimed>>
       /\ UNCHANGED <<pending, agentVars, replyVars, ran, outboxFaults>>

refresh_file_mtime(w) ==
    LET d == drain[w].dir
        p == Head(drain[w].todo)
    IN /\ drain[w].at = "touch"
       /\ file' = IF Exists(d, p) THEN [file EXCEPT ![d][p.name].old = FALSE] ELSE file
       /\ drain' = [drain EXCEPT ![w].at = "run"]
       /\ UNCHANGED <<pending, agentVars, replyVars, ran, reclaimed, outboxFaults>>

\* The claimed file is read, and the command run, if the path still exists.
\* A share_file command has an effect; the others reply in the conversation.
Run(w) ==
    LET d == drain[w].dir
        p == Head(drain[w].todo)
    IN /\ drain[w].at = "run"
       /\ IF Exists(d, p)
          THEN /\ ran' = [ran EXCEPT ![p.name] = @ + 1]
               /\ drain' = [drain EXCEPT ![w].at = "remove", ![w].replies =
                              @ \cup (IF kind[p.name] = "share" THEN {} ELSE {p.name})]
          ELSE Skip(w) /\ UNCHANGED ran
       /\ UNCHANGED <<file, pending, agentVars, replyVars, reclaimed, outboxFaults>>

RemoveFile(w) ==
    LET d == drain[w].dir
        p == Head(drain[w].todo)
    IN /\ drain[w].at = "remove"
       /\ file' = IF Exists(d, p) THEN [file EXCEPT ![d][p.name].there = FALSE] ELSE file
       /\ Skip(w)
       /\ UNCHANGED <<pending, agentVars, replyVars, ran, reclaimed, outboxFaults>>

\* The receipt of a browser command could not be queued: the file stays, and
\* is taken over when it is old.
KeepForRetry(w) ==
    /\ drain[w].at = "remove" /\ Head(drain[w].todo).name \notin drain[w].replies
    /\ outboxFaults < MaxOutboxFaults
    /\ outboxFaults' = outboxFaults + 1
    /\ Skip(w)
    /\ UNCHANGED <<file, pending, agentVars, replyVars, ran, reclaimed>>

\* The replies of a listing are published together, in one transaction; the
\* watcher's only while the agent is a member.
MayReply(w) == w = "executor" \/ member

Outcome(w, ok) == IF ok /\ MayReply(w) THEN drain[w].replies ELSE {}

\* The watcher writes them, and warns when it cannot; the executor returns
\* them as the answer of the turn, which ends with its drain.
publish_watcher_reply(w, ok) ==
    /\ drain[w].at = "publish"
    /\ ok \/ (drain[w].replies # {} /\ outboxFaults < MaxOutboxFaults)
    /\ outboxFaults' = IF ok THEN outboxFaults ELSE outboxFaults + 1
    /\ published' = published \cup Outcome(w, ok)
    /\ denied' = IF ok /\ ~MayReply(w) THEN denied \cup drain[w].replies ELSE denied
    /\ drain' = [drain EXCEPT ![w] = Resting]
    /\ turn' = IF w = "executor" THEN "none" ELSE turn
    /\ active' = IF w = "executor" THEN FALSE ELSE active
    /\ UNCHANGED <<file, pending, placed, kind, member, ran, reclaimed>>

\* PROCESSING_STALE_AFTER passes without a change to the file.
BecomeStale(d, c) ==
    /\ file[d][c].there /\ ~file[d][c].old
    /\ file' = [file EXCEPT ![d][c].old = TRUE]
    /\ UNCHANGED <<pending, drain, agentVars, replyVars, ran, reclaimed, outboxFaults>>

PipelineCrash ==
    /\ outboxFaults < MaxOutboxFaults
    /\ \E w \in Drainers : drain[w].at # "idle"
    /\ outboxFaults' = outboxFaults + 1
    /\ drain' = [w \in Drainers |-> Resting]
    /\ turn' = IF turn = "local" THEN "none" ELSE turn
    /\ active' = IF turn = "local" THEN FALSE ELSE active
    /\ UNCHANGED <<file, pending, placed, kind, member, replyVars, ran, reclaimed>>

DrainNext ==
    \/ WatcherPass \/ ExecutorDrain \/ PipelineCrash
    \/ \E w \in Drainers : \/ Scan(w) \/ claim_outbox_file(w) \/ Reclaim(w)
                           \/ refresh_file_mtime(w) \/ Run(w) \/ RemoveFile(w) \/ KeepForRetry(w)
                           \/ \E ok \in BOOLEAN : publish_watcher_reply(w, ok)
    \/ \E d \in Dirs, c \in Commands : BecomeStale(d, c)

-----------------------------------------------------------------------------
(* How the outbox commands of an agent on a device reach the controller.   *)
(* The connector's shipping loop posts the workspace outbox of a live      *)
(* terminal and the spool; a headless turn posts its own commands when the *)
(* CLI has ended.  The gateway stores a shipment in the binding's mirror:  *)
(* a pending receipt, the shared files, the command file, and then the     *)
(* receipt moves to accepted.  An answer may be lost, and the request may  *)
(* go on after the connector has given up on it.                           *)

CONSTANTS KindsOf(_),    \* what a command may be: plain, share (share_file), oversize
          ShipmentSize,  \* MAX_COMMANDS_PER_SHIPMENT
          MaxFileEdits,  \* changes of the file share_file commands name
          MaxMoves

VARIABLES box,       \* the device's workspace outbox: commands in new/
          frames,    \* commands in the temporary outbox of a headless turn
          spool,     \* the spool: command -> digest of the frozen shipment, or NoDigest
          revision,  \* of the file in the device's workspace
          accepted,  \* mirror/receipts/accepted: name -> digest or NoDigest
          client,    \* per shipper: its collection and the request it waits for
          handler,   \* per slot: a request in the gateway
          lock,      \* the shipment lock of the mirror: the slot that holds it
          left,      \* history: commands that have left the device
          unspooled, \* history: commands of a turn that could be neither stored nor spooled
          moves

leftVars == <<left, unspooled>>
shipVars == <<box, frames, spool, revision, accepted, client, handler, lock, leftVars,
              moves>>
outboxVars == <<drainVars, shipVars>>

Shippers == {"loop", "turn"}
Slots == {1, 2}
Digests == 0..MaxFileEdits

Quiet == [at |-> "idle", src |-> "box", items |-> << >>, rest |-> << >>, slot |-> 0]
Free == [at |-> "free", batch |-> << >>, i |-> 0, answer |-> ""]

OutboxInit ==
    /\ DrainInit
    /\ box = {} /\ frames = {} /\ left = {} /\ unspooled = {}
    /\ spool = [c \in Commands |-> NoDigest]
    /\ revision = 0
    /\ accepted = [c \in Commands |-> NoDigest]
    /\ client = [k \in Shippers |-> Quiet]
    /\ handler = [s \in Slots |-> Free]
    /\ lock = 0
    /\ moves = 0

\* The content a shipment of the command has now: the digest covers the
\* bytes of the shared file.
share_file_payload(c) == IF kind[c] = "share" THEN revision ELSE 0

-----------------------------------------------------------------------------
(* The agent and its operator.                                             *)

\* The helper renames a complete file into new/ of the agent's workspace, or
\* appends a frame during a headless turn on the device.
Write(c, k) ==
    /\ kind[c] = "unborn"
    /\ \A d \in Commands : d < c => kind[d] # "unborn"
    /\ kind' = [kind EXCEPT ![c] = k]
    /\ \/ /\ placed = "here"
          /\ file' = [file EXCEPT !["workspace"][c] = NewFile]
          /\ UNCHANGED <<box, frames>>
       \/ /\ placed = "device"
          /\ box' = box \cup {c}
          /\ UNCHANGED <<file, frames>>
       \/ /\ turn = "remote"
          /\ frames' = frames \cup {c}
          /\ UNCHANGED <<file, box>>
    /\ UNCHANGED <<pending, drain, placed, turn, active, member, replyVars, ran, reclaimed, outboxFaults,
                   spool, revision, accepted, client, handler, lock, leftVars, moves>>

\* The file a command in the outbox names is written again.
EditFile ==
    /\ revision < MaxFileEdits
    /\ \E c \in box \cup frames : kind[c] = "share"
    /\ revision' = revision + 1
    /\ UNCHANGED <<drainVars, box, frames, spool, accepted, client, handler, lock,
                   leftVars, moves>>

StartTurn ==
    /\ turn = "none"
    /\ \E c \in Commands : kind[c] = "unborn"
    /\ turn' = CASE placed = "here" -> "local"
                 [] placed = "device" -> "remote"
                 [] OTHER -> "none"
    /\ turn' # turn /\ active' = TRUE
    /\ UNCHANGED <<file, pending, drain, placed, kind, member, replyVars, ran, reclaimed,
                   outboxFaults, shipVars>>

\* The binding is assigned to another device, or to the gateway's own.  The
\* command of a turn in flight is fenced and queued again.
Move(p) ==
    /\ moves < MaxMoves /\ p # placed
    /\ placed' = p
    /\ active' = FALSE
    /\ moves' = moves + 1
    /\ UNCHANGED <<file, pending, drain, turn, kind, member, replyVars, ran, reclaimed, outboxFaults,
                   box, frames, spool, revision, accepted, client, handler, lock, leftVars>>

\* The agent is taken out of the conversation; its binding stays.
LeaveConversation ==
    /\ member /\ member' = FALSE
    /\ UNCHANGED <<file, pending, drain, placed, turn, active, kind, replyVars, ran, reclaimed,
                   outboxFaults, shipVars>>

-----------------------------------------------------------------------------
(* The connector.                                                          *)

Items(S, digest(_)) ==
    LET s == InNameOrder(S) IN [i \in DOMAIN s |-> [name |-> s[i], digest |-> digest(s[i])]]

\* A command over the byte cap of a shipment is dropped.
shipments(items) == SelectSeq(items, LAMBDA x : kind[x.name] # "oversize")

Collected(k, src, items) ==
    client' = [client EXCEPT ![k] = [at |-> "send", src |-> src, items |-> items,
                                     rest |-> shipments(items), slot |-> 0]]

\* The workspaces of the live terminals; a move closes the terminal first.
collect_outbox_commands ==
    /\ client["loop"].at = "idle" /\ placed = "device" /\ box # {}
    /\ Collected("loop", "box", Items(box, share_file_payload))
    /\ UNCHANGED <<drainVars, box, frames, spool, revision, accepted, handler, lock,
                   leftVars, moves>>

take_spooled_commands ==
    LET S == {c \in Commands : spool[c] # NoDigest}
        Frozen(c) == spool[c]
    IN /\ client["loop"].at = "idle" /\ S # {}
       /\ Collected("loop", "spool", Items(S, Frozen))
       /\ UNCHANGED <<drainVars, box, frames, spool, revision, accepted, handler, lock,
                      leftVars, moves>>

\* The CLI of a remote turn has ended.
EndTurn ==
    /\ turn = "remote" /\ client["turn"].at = "idle"
    /\ Collected("turn", "frames", Items(frames, share_file_payload))
    /\ UNCHANGED <<drainVars, box, frames, spool, revision, accepted, handler, lock,
                   leftVars, moves>>

\* The next shipment of the collection is posted.
Post(k) ==
    LET n == IF Len(client[k].rest) < ShipmentSize THEN Len(client[k].rest) ELSE ShipmentSize
    IN /\ client[k].at = "send" /\ client[k].rest # << >>
       /\ \E s \in Slots :
             /\ handler[s].at = "free"
             /\ \A r \in Slots : r < s => handler[r].at # "free"
             /\ handler' = [handler EXCEPT ![s] =
                              [at |-> "check", batch |-> SubSeq(client[k].rest, 1, n),
                               i |-> 1, answer |-> ""]]
             /\ client' = [client EXCEPT ![k].at = "wait", ![k].slot = s,
                              ![k].rest = SubSeq(@, n + 1, Len(@))]
       /\ UNCHANGED <<drainVars, box, frames, spool, revision, accepted, lock, leftVars,
                      moves>>

Names(items) == {items[i].name : i \in DOMAIN items}

\* The collection has left the device: CollectedOutbox::delivered, or the
\* temporary outbox of the turn is dropped.
Depart(k) ==
    LET N == Names(client[k].items)
    IN /\ box' = IF client[k].src = "box" THEN box \ N ELSE box
       /\ frames' = IF client[k].src = "frames" THEN frames \ N ELSE frames
       /\ spool' = IF client[k].src = "spool"
                   THEN [c \in Commands |-> IF c \in N THEN NoDigest ELSE spool[c]]
                   ELSE spool
       /\ left' = left \cup N /\ UNCHANGED unspooled

\* A turn is reported complete after its shipment.
EndShipping(k) ==
    /\ client' = [client EXCEPT ![k] = Quiet]
    /\ turn' = IF k = "turn" THEN "none" ELSE turn
    /\ active' = IF k = "turn" THEN FALSE ELSE active

\* All shipments are stored.
Delivered(k) ==
    /\ client[k].at = "send" /\ client[k].rest = << >>
    /\ Depart(k) /\ EndShipping(k)
    /\ UNCHANGED <<file, pending, drain, placed, kind, member, replyVars, ran, reclaimed, outboxFaults,
                   revision, accepted, handler, lock, moves>>

\* The controller refuses a shipment: the whole collection is dropped.
Refused(k) ==
    /\ client[k].at = "wait" /\ handler[client[k].slot].answer = "refused"
    /\ handler' = [handler EXCEPT ![client[k].slot] = Free]
    /\ Depart(k) /\ EndShipping(k)
    /\ UNCHANGED <<file, pending, drain, placed, kind, member, replyVars, ran, reclaimed, outboxFaults,
                   revision, accepted, lock, moves>>

Accepted(k) ==
    /\ client[k].at = "wait" /\ handler[client[k].slot].answer = "ok"
    /\ handler' = [handler EXCEPT ![client[k].slot] = Free]
    /\ client' = [client EXCEPT ![k].at = "send", ![k].slot = 0]
    /\ UNCHANGED <<drainVars, box, frames, spool, revision, accepted, lock, leftVars, moves>>

\* Wrong version: after a transient failure the collection is dropped too.
Undelivered_dropped(k) == Depart(k)

\* The loop leaves the files for its next pass.  The turn spools its commands
\* as they were collected, or drops them when the spool cannot be written.
Undelivered(k) ==
    LET items == client[k].items
        Digest(c) == items[CHOOSE i \in DOMAIN items : items[i].name = c].digest
    IN \/ k = "loop" /\ UNCHANGED <<box, frames, spool, leftVars>>
       \/ /\ k = "turn" /\ frames' = {}
          /\ spool' = [c \in Commands |-> IF c \in Names(items) THEN Digest(c) ELSE spool[c]]
          /\ UNCHANGED <<box, leftVars>>
       \/ /\ k = "turn" /\ frames' = {}
          /\ left' = left \cup Names(items) /\ unspooled' = unspooled \cup Names(items)
          /\ UNCHANGED <<box, spool>>

\* The request fails, or its answer is lost: it may never have arrived, it
\* may go on in the gateway, or it may have stored everything.
Transient(k) ==
    LET s == client[k].slot
    IN /\ client[k].at = "wait" /\ outboxFaults < MaxOutboxFaults
       /\ outboxFaults' = outboxFaults + 1
       /\ handler' = [handler EXCEPT ![s] =
                        IF @.at = "done" THEN Free ELSE [@ EXCEPT !.answer = "nobody"]]
       /\ Undelivered(k) /\ EndShipping(k)
       /\ UNCHANGED <<file, pending, drain, placed, kind, member, replyVars, ran, reclaimed, revision,
                      accepted, lock, moves>>

\* The connector stops and starts; a turn's temporary outbox is gone.
ConnectorCrash ==
    /\ outboxFaults < MaxOutboxFaults
    /\ \E k \in Shippers : client[k].at # "idle"
    /\ outboxFaults' = outboxFaults + 1
    /\ client' = [k \in Shippers |-> Quiet]
    /\ handler' = [s \in Slots |-> IF handler[s].at = "done" THEN Free
                                   ELSE IF handler[s].at = "free" THEN Free
                                   ELSE [handler[s] EXCEPT !.answer = "nobody"]]
    /\ frames' = {}
    /\ turn' = IF turn = "remote" THEN "none" ELSE turn
    /\ active' = IF turn = "remote" THEN FALSE ELSE active
    /\ UNCHANGED <<file, pending, drain, placed, kind, member, replyVars, ran, reclaimed, box, spool,
                   revision, accepted, lock, leftVars, moves>>

-----------------------------------------------------------------------------
(* The gateway: ship_binding_outbox and store_shipped_commands.            *)

Answer(s, a) ==
    handler' = [handler EXCEPT ![s] =
                  IF @.answer = "nobody" THEN Free
                  ELSE [Free EXCEPT !.at = "done", !.answer = a]]

\* The binding must be on the shipping device.
ship_binding_outbox(s) ==
    /\ handler[s].at = "check"
    /\ IF placed = "device"
       THEN handler' = [handler EXCEPT ![s].at = "receipts"]
       ELSE Answer(s, "refused")
    /\ UNCHANGED <<drainVars, box, frames, spool, revision, accepted, client, lock,
                   leftVars, moves>>

Disagrees(receipt, digest) == receipt \notin {NoDigest, digest}

\* Under the lock of the mirror: a name with another content is a conflict.
read_receipts(s) ==
    LET B == {handler[s].batch[i] : i \in DOMAIN handler[s].batch}
    IN /\ handler[s].at = "receipts" /\ lock = 0
       /\ IF \E x \in B : Disagrees(accepted[x.name], x.digest) \/ Disagrees(pending[x.name], x.digest)
          THEN Answer(s, "refused") /\ UNCHANGED lock
          ELSE handler' = [handler EXCEPT ![s].at = "pending"] /\ lock' = s
       /\ UNCHANGED <<drainVars, box, frames, spool, revision, accepted, client, leftVars,
                      moves>>

\* The next command of the batch, or the end of the request.
Advance(s) ==
    IF handler[s].i = Len(handler[s].batch)
    THEN Answer(s, "ok") /\ lock' = 0
    ELSE handler' = [handler EXCEPT ![s].at = "pending", ![s].i = @ + 1] /\ UNCHANGED lock

\* A command that was accepted before is skipped; the others get a pending
\* receipt, and then their shared files.
StorePending(s) ==
    LET x == handler[s].batch[handler[s].i]
    IN /\ handler[s].at = "pending"
       /\ IF accepted[x.name] # NoDigest
          THEN pending' = [pending EXCEPT ![x.name] = NoDigest] /\ Advance(s)
          ELSE /\ pending' = [pending EXCEPT ![x.name] = x.digest]
               /\ handler' = [handler EXCEPT ![s].at = "publish"]
               /\ UNCHANGED lock
       /\ UNCHANGED <<file, drain, agentVars, replyVars, ran, reclaimed, outboxFaults, box,
                      frames, spool, revision, accepted, client, leftVars, moves>>

StorePublish(s) ==
    LET x == handler[s].batch[handler[s].i]
    IN /\ handler[s].at = "publish"
       /\ file' = [file EXCEPT !["mirror"][x.name] = NewFile]
       /\ handler' = [handler EXCEPT ![s].at = "accept"]
       /\ UNCHANGED <<pending, drain, agentVars, replyVars, ran, reclaimed, outboxFaults,
                      box, frames, spool, revision, accepted, client, lock, leftVars, moves>>

StoreAccept(s) ==
    LET x == handler[s].batch[handler[s].i]
    IN /\ handler[s].at = "accept"
       /\ pending' = [pending EXCEPT ![x.name] = NoDigest]
       /\ accepted' = [accepted EXCEPT ![x.name] = x.digest]
       /\ Advance(s)
       /\ UNCHANGED <<file, drain, agentVars, replyVars, ran, reclaimed, outboxFaults, box,
                      frames, spool, revision, client, leftVars, moves>>

\* A write fails or the gateway stops: the request ends where it is, and the
\* connector sees a server error or none.
GatewayFails(s) ==
    /\ handler[s].at \notin {"free", "done"} /\ outboxFaults < MaxOutboxFaults
    /\ outboxFaults' = outboxFaults + 1
    /\ lock' = IF lock = s THEN 0 ELSE lock
    /\ handler' = [handler EXCEPT ![s] = Free]
    /\ \/ /\ handler[s].answer = "nobody"
          /\ UNCHANGED <<client, turn, active, box, frames, spool, leftVars>>
       \/ \E k \in Shippers : client[k].at = "wait" /\ client[k].slot = s
             /\ Undelivered(k) /\ EndShipping(k)
    /\ UNCHANGED <<file, pending, drain, placed, kind, member, replyVars, ran, reclaimed, revision, accepted,
                   moves>>

ShipNext ==
    \/ \E c \in Commands : \E k \in KindsOf(c) : Write(c, k)
    \/ EditFile \/ StartTurn \/ LeaveConversation
    \/ \E p \in {"here", "other"} : Move(p)
    \/ collect_outbox_commands \/ take_spooled_commands \/ EndTurn \/ ConnectorCrash
    \/ \E k \in Shippers : Post(k) \/ Delivered(k) \/ Refused(k) \/ Accepted(k) \/ Transient(k)
    \/ \E s \in Slots : ship_binding_outbox(s) \/ read_receipts(s) \/ StorePending(s)
                        \/ StorePublish(s) \/ StoreAccept(s) \/ GatewayFails(s)

OutboxNext == (DrainNext /\ UNCHANGED shipVars) \/ ShipNext

-----------------------------------------------------------------------------
OutboxTypeOK ==
    /\ file \in [Dirs -> [Commands -> FileRow]]
    /\ pending \in [Commands -> Digests \cup {NoDigest}]
    /\ accepted \in [Commands -> Digests \cup {NoDigest}]
    /\ spool \in [Commands -> Digests \cup {NoDigest}]
    /\ placed \in {"here", "device", "other"} /\ turn \in {"none", "local", "remote"}
    /\ kind \in [Commands -> {"plain", "share", "oversize", "unborn"}]
    /\ box \subseteq Commands /\ frames \subseteq Commands 
    /\ {left, unspooled, published, denied} \subseteq SUBSET Commands /\ member \in BOOLEAN
    /\ lock \in Slots \cup {0}

\* A command runs once, unless a claim of it was taken over because it was a
\* minute old: claim_outbox_file renames, so of two drainers with the same
\* listing one finds the path gone.
RunsOnce == \A c \in Commands : ran[c] > 1 => c \in reclaimed

\* The pipeline runs a command of the mirror only after its shipment was
\* accepted, although the command file appears before the receipt moves.
OnlyAcceptedRuns ==
    [][\A c \in Commands : ran'[c] # ran[c] /\ file["mirror"][c].there
          => accepted[c] # NoDigest]_outboxVars

\* A shipment that is repeated because its answer was lost does not put a
\* command back that was drained: once run, only a claimed file of the
\* mirror can run it again.
DrainedStaysDrained ==
    [][\A c \in Commands : ran[c] > 0 /\ ~file["mirror"][c].there /\ accepted[c] # NoDigest
          => ~file'["mirror"][c].there]_outboxVars

\* A command leaves the device when it is stored, and otherwise only because
\* it exceeds a shipment, the binding is no longer on the device, the file
\* it shares changed between two shipments of one collection, or its turn
\* could neither reach the controller nor write the spool.
LeavesWhenStored ==
    \A c \in left : \/ accepted[c] # NoDigest \/ kind[c] = "oversize"
                    \/ moves > 0 \/ revision > 0 \/ c \in unspooled

\* The reply of a command that ran and whose file is gone is published, in
\* the hands of the drainer that will publish it, or was denied because the
\* agent had left the conversation: otherwise it is lost only to a crash or a
\* failed transaction between the removal and publish_watcher_reply.
ReplyIsCarried ==
    outboxFaults = 0 =>
        \A c \in Commands :
            ran[c] > 0 /\ kind[c] # "share" /\ (\A d \in Dirs : ~file[d][c].there)
            => c \in published \cup denied \/ \E w \in Drainers : c \in drain[w].replies
=============================================================================
