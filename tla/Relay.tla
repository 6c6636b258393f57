------------------------------- MODULE Relay -------------------------------
(***************************************************************************)
(* Requests and streams through the relay: the client a paired device runs *)
(* (crates/choruz-relay-client) and the executor that serves it on the     *)
(* host (remote_control_executor.rs), joined by the transport room of the  *)
(* Cloud Gateway, which merges what the devices send and repeats what the  *)
(* host sends to EVERY device in it.  One executor serves all devices of a *)
(* person; a device that says hello makes it drop what it holds.           *)
(*                                                                         *)
(* A request has no body or one chunk of it, a response one chunk, and a   *)
(* message of a stream two chunks; chunks carry their number only.         *)
(***************************************************************************)
EXTENDS Naturals, Sequences, FiniteSets

CONSTANTS RelayDevices,    \* paired devices
          Requests,        \* requests ever made
          Streams,         \* streams ever opened
          MaxPending,      \* MAX_PENDING_REQUESTS
          MaxStreams,      \* MAX_STREAMS
          MaxMessages,     \* bound: messages the host sends on a stream
          RoomSize,        \* bound: frames waiting for a device before a stream sends more
          MaxRelayFaults   \* bound: connections lost by the network

VARIABLES online,    \* the device's run loop holds a transport
          reqOwner,  \* the device that made a request or opened a stream
          req,       \* Pending in the client, and how it was answered
          strm,      \* Streams in the client
          got,       \* chunks of a stream the client assembled into messages
          partial,   \* OpenStreamState.partial
          toHost,    \* the room: frames on their way to the host
          toDev,     \* the room: frames on their way to each device
          pend,      \* RelayExecutor.pending
          tasks,     \* HTTP tasks dispatched: "running", or "headed" (head sent)
          handles,   \* RelayExecutor.streams
          sent,      \* messages the host sent on each stream
          cut,       \* history: what another device's hello dropped
          relayFaults

relayVars == <<online, reqOwner, req, strm, got, partial, toHost, toDev, pend, tasks,
               handles, sent, cut, relayFaults>>

NoOne == 0
ids   == (Requests \X {"r"}) \cup (Streams \X {"s"})
Frame(k, id) == [kind |-> k, id |-> id, from |-> NoOne, body |-> FALSE]

RelayTypeOK ==
    /\ online \in [RelayDevices -> BOOLEAN]
    /\ reqOwner \in [ids -> RelayDevices \cup {NoOne}]
    /\ req \in [Requests -> {"none", "sending", "waiting", "headed", "ok", "failed"}]
    /\ strm \in [Streams -> {"none", "pending", "open", "done"}]
    /\ got \in [Streams -> Seq(1..MaxMessages)]
    /\ partial \in [Streams -> Seq(1..MaxMessages)]
    /\ DOMAIN toDev = RelayDevices
    /\ pend \subseteq Requests
    /\ tasks \in [Requests -> {"none", "running", "headed"}]
    /\ handles \in [Streams -> {"none", "connecting", "open", "dead"}]
    /\ sent \in [Streams -> 0..MaxMessages]
    /\ cut \subseteq ids
    /\ relayFaults \in 0..MaxRelayFaults

RelayInit ==
    /\ online = [d \in RelayDevices |-> FALSE]
    /\ reqOwner = [i \in ids |-> NoOne]
    /\ req = [r \in Requests |-> "none"]
    /\ strm = [s \in Streams |-> "none"]
    /\ got = [s \in Streams |-> <<>>]
    /\ partial = [s \in Streams |-> <<>>]
    /\ toHost = <<>>
    /\ toDev = [d \in RelayDevices |-> <<>>]
    /\ pend = {}
    /\ tasks = [r \in Requests |-> "none"]
    /\ handles = [s \in Streams |-> "none"]
    /\ sent = [s \in Streams |-> 0]
    /\ cut = {}
    /\ relayFaults = 0

clientVars == <<online, reqOwner, req, strm, got, partial>>
hostVars   == <<pend, tasks, handles, sent, cut>>

\* external: the room hands a host frame to every device in it.
Broadcast(frames) ==
    toDev' = [d \in RelayDevices |-> IF online[d] THEN toDev[d] \o frames ELSE toDev[d]]

OwnR(d, r) == reqOwner[<<r, "r">>] = d
OwnS(d, s) == reqOwner[<<s, "s">>] = d
Sending(d) == \E r \in Requests : OwnR(d, r) /\ req[r] = "sending"

----------------------------------------------------------------------------
\* The device

\* connect_transport: the device joins the offered room and greets the host.
connect_transport(d) ==
    /\ ~online[d]
    /\ online' = [online EXCEPT ![d] = TRUE]
    /\ toDev' = [toDev EXCEPT ![d] = <<>>]
    /\ toHost' = Append(toHost, [Frame("hello", NoOne) EXCEPT !.from = d])
    /\ UNCHANGED <<reqOwner, req, strm, got, partial, hostVars, relayFaults>>

\* run, the end of a connection: fail_pending answers every request in
\* flight, and the streams are dropped.
Leave(d) ==
    /\ online' = [online EXCEPT ![d] = FALSE]
    /\ toDev' = [toDev EXCEPT ![d] = <<>>]
    /\ req' = [r \in Requests |-> IF OwnR(d, r) /\ req[r] # "ok" THEN "failed" ELSE req[r]]
    /\ strm' = [s \in Streams |-> IF OwnS(d, s) THEN "done" ELSE strm[s]]

\* external: the network drops the connection of a device between two frames of a request or
\* response (bound: losses at other times are not enumerated).
ConnectionLost(d) ==
    /\ online[d]
    /\ \E r \in Requests : OwnR(d, r) /\ req[r] \in {"sending", "headed"}
    /\ relayFaults < MaxRelayFaults
    /\ relayFaults' = relayFaults + 1
    /\ Leave(d)
    /\ UNCHANGED <<reqOwner, got, partial, toHost, hostVars>>

\* send_request, the head of a request with a body chunk or without.
send_request(d, r, body) ==
    /\ online[d] /\ ~Sending(d)
    /\ req[r] = "none"
    /\ reqOwner' = [reqOwner EXCEPT ![<<r, "r">>] = d]
    /\ req' = [req EXCEPT ![r] = IF body THEN "sending" ELSE "waiting"]
    /\ toHost' = Append(toHost, [Frame("request", r) EXCEPT !.body = body])
    /\ UNCHANGED <<online, strm, got, partial, toDev, hostVars, relayFaults>>

\* send_request, the body; the run loop reads nothing meanwhile.
SendBody(d, r) ==
    /\ online[d] /\ OwnR(d, r) /\ req[r] = "sending"
    /\ req' = [req EXCEPT ![r] = "waiting"]
    /\ toHost' = Append(toHost, Frame("body", r))
    /\ UNCHANGED <<online, reqOwner, strm, got, partial, toDev, hostVars, relayFaults>>

\* open_stream: the stream is pending until the host has opened it.
open_stream(d, s) ==
    /\ online[d] /\ ~Sending(d)
    /\ strm[s] = "none"
    /\ reqOwner' = [reqOwner EXCEPT ![<<s, "s">>] = d]
    /\ strm' = [strm EXCEPT ![s] = "pending"]
    /\ toHost' = Append(toHost, Frame("open", s))
    /\ UNCHANGED <<online, req, got, partial, toDev, hostVars, relayFaults>>

\* send_stream_message(None): the device dropped its end of an open stream.
send_stream_message(d, s) ==
    /\ online[d] /\ ~Sending(d) /\ OwnS(d, s)
    /\ strm[s] = "open"
    /\ strm' = [strm EXCEPT ![s] = "done"]
    /\ toHost' = Append(toHost, Frame("close", s))
    /\ UNCHANGED <<online, reqOwner, req, got, partial, toDev, hostVars, relayFaults>>

Consume(d) == toDev' = [toDev EXCEPT ![d] = Tail(@)]

\* receive_response: the head of a response, its body, or an error.  A head
\* or a body for a request the client does not know ends the connection.
receive_response(d) ==
    \E f \in {Head(toDev[d])} :
       /\ f.kind \in {"response", "chunk", "error"}
       /\ LET known == OwnR(d, f.id) /\ req[f.id] \in {"waiting", "headed"}
          IN  IF known \/ f.kind = "error"
                THEN /\ req' = IF known
                                 THEN [req EXCEPT ![f.id] = CASE f.kind = "error" -> "failed"
                                                              [] f.kind = "chunk" -> "ok"
                                                              [] OTHER -> "headed"]
                                 ELSE req
                     /\ Consume(d)
                     /\ UNCHANGED <<online, strm>>
                ELSE Leave(d)
       /\ UNCHANGED <<reqOwner, got, partial, toHost, hostVars, relayFaults>>

\* receive_stream_frame, stream.data: a chunk joins the message; the last
\* one hands the message to the application.
TakeChunk(s, f) ==
    IF f.from = 2 THEN /\ got' = [got EXCEPT ![s] = @ \o partial[s]]
                       /\ partial' = [partial EXCEPT ![s] = <<>>]
                  ELSE /\ partial' = [partial EXCEPT ![s] = Append(@, f.body)]
                       /\ UNCHANGED got

\* receive_stream_frame: frames of a stream the client does not hold are ignored.
receive_stream_frame(d) ==
    \E f \in {Head(toDev[d])} :
       /\ f.kind \in {"opened", "data", "closed"}
       /\ LET mine == OwnS(d, f.id)
          IN  /\ strm' = CASE f.kind = "opened" /\ mine /\ strm[f.id] = "pending" ->
                                  [strm EXCEPT ![f.id] = "open"]
                           [] f.kind = "closed" /\ mine -> [strm EXCEPT ![f.id] = "done"]
                           [] OTHER -> strm
              /\ IF f.kind = "data" /\ mine /\ strm[f.id] = "open"
                   THEN TakeChunk(f.id, f)
                   ELSE UNCHANGED <<got, partial>>
       /\ Consume(d)
       /\ UNCHANGED <<online, reqOwner, req, toHost, hostVars, relayFaults>>

receive_frame(d) ==
    /\ online[d] /\ ~Sending(d)
    /\ toDev[d] # <<>>
    /\ receive_response(d) \/ receive_stream_frame(d)

----------------------------------------------------------------------------
\* The host

Reads(k) == toHost # <<>> /\ Head(toHost).kind = k /\ toHost' = Tail(toHost)
hostRest == <<clientVars, relayFaults>>

\* RelayExecutor::reset, on device.hello: pending bodies and streams are
\* dropped, whoever they belong to; HTTP tasks already dispatched run on.
reset ==
    /\ Reads("hello")
    /\ LET d == Head(toHost).from
       IN  cut' = cut \cup {<<r, "r">> : r \in {x \in pend : ~OwnR(d, x)}}
                      \cup {<<s, "s">> : s \in {x \in Streams : handles[x] # "none" /\ ~OwnS(d, x)}}
    /\ pend' = {}
    /\ handles' = [s \in Streams |-> "none"]
    /\ UNCHANGED <<hostRest, toDev, tasks, sent>>

\* dispatch: a target or token that fails is answered at once, anything else
\* becomes a task.
dispatch(r) ==
    \/ /\ tasks' = [tasks EXCEPT ![r] = "running"]
       /\ UNCHANGED toDev
    \/ /\ Broadcast(<<Frame("error", r)>>)
       /\ UNCHANGED tasks
    \/ /\ Broadcast(<<Frame("response", r), Frame("chunk", r)>>)
       /\ UNCHANGED tasks

\* handle_http_request: dispatched when it has no body, else kept until the
\* body is complete, unless too many wait already.
handle_http_request ==
    /\ Reads("request")
    /\ LET f == Head(toHost)
       IN  IF ~f.body THEN dispatch(f.id) /\ UNCHANGED pend
           ELSE IF Cardinality(pend) >= MaxPending
             THEN /\ Broadcast(<<Frame("response", f.id), Frame("chunk", f.id)>>)
                  /\ UNCHANGED <<pend, tasks>>
             ELSE pend' = pend \cup {f.id} /\ UNCHANGED <<tasks, toDev>>
    /\ UNCHANGED <<hostRest, handles, sent, cut>>

\* handle_http_body: a body for a request the executor does not hold is an
\* error that is only logged.
handle_http_body ==
    /\ Reads("body")
    /\ LET r == Head(toHost).id
       IN  IF r \in pend THEN dispatch(r) /\ pend' = pend \ {r}
           ELSE UNCHANGED <<pend, tasks, toDev>>
    /\ UNCHANGED <<hostRest, handles, sent, cut>>

\* execute_http: the response's head and body, or an error; two tasks'
\* frames may interleave.
execute_http(r) ==
    /\ \/ /\ tasks[r] = "running"
          /\ \/ tasks' = [tasks EXCEPT ![r] = "headed"] /\ Broadcast(<<Frame("response", r)>>)
             \/ tasks' = [tasks EXCEPT ![r] = "none"] /\ Broadcast(<<Frame("error", r)>>)
       \/ /\ tasks[r] = "headed"
          /\ tasks' = [tasks EXCEPT ![r] = "none"]
          /\ Broadcast(<<Frame("chunk", r)>>)
    /\ UNCHANGED <<hostRest, toHost, pend, handles, sent, cut>>

Retained == {s \in Streams : handles[s] \in {"connecting", "open"}}

\* handle_stream_open: ended streams are forgotten, then the stream starts or
\* is refused because too many run.
handle_stream_open ==
    /\ Reads("open")
    /\ LET s == Head(toHost).id
           kept == [t \in Streams |-> IF t \in Retained THEN handles[t] ELSE "none"]
       IN  \/ /\ Cardinality(Retained) < MaxStreams
              /\ handles' = [kept EXCEPT ![s] = "connecting"]
              /\ UNCHANGED toDev
           \/ handles' = kept /\ Broadcast(<<Frame("closed", s)>>)
    /\ UNCHANGED <<hostRest, pend, tasks, sent, cut>>

\* handle_stream_close: the handle is removed and its task told to end.
handle_stream_close ==
    /\ Reads("close")
    /\ handles' = [handles EXCEPT ![Head(toHost).id] = "none"]
    /\ UNCHANGED <<hostRest, toDev, pend, tasks, sent, cut>>

\* run_stream: the local socket opens or does not, delivers a message, or ends.
run_stream(s) ==
    /\ \A d \in RelayDevices : Len(toDev[d]) < RoomSize
    /\ \/ /\ handles[s] = "connecting"
          /\ handles' = [handles EXCEPT ![s] = "open"]
          /\ Broadcast(<<Frame("opened", s)>>)
          /\ UNCHANGED sent
       \/ /\ handles[s] \in {"connecting", "open"}
          /\ handles' = [handles EXCEPT ![s] = "dead"]
          /\ Broadcast(<<Frame("closed", s)>>)
          /\ UNCHANGED sent
       \/ /\ handles[s] = "open" /\ sent[s] < MaxMessages
          /\ sent' = [sent EXCEPT ![s] = @ + 1]
          /\ Broadcast([i \in 1..2 |-> [kind |-> "data", id |-> s, from |-> i, body |-> sent[s] + 1]])
          /\ UNCHANGED handles
    /\ UNCHANGED <<hostRest, toHost, pend, tasks, cut>>

HostReads == reset \/ handle_http_request \/ handle_http_body \/ handle_stream_open
             \/ handle_stream_close

DeviceStep(d) == connect_transport(d) \/ receive_frame(d) \/ \E r \in Requests : SendBody(d, r)

RelayNext ==
    \/ \E d \in RelayDevices :
          \/ DeviceStep(d) \/ ConnectionLost(d)
          \/ \E r \in Requests, b \in BOOLEAN : send_request(d, r, b)
          \/ \E s \in Streams : open_stream(d, s) \/ send_stream_message(d, s)
    \/ HostReads
    \/ \E r \in Requests : execute_http(r)
    \/ \E s \in Streams : run_stream(s)

----------------------------------------------------------------------------
\* What a stream's application receives is what the host sent on it, in
\* order, nothing twice and nothing skipped, across chunking, other devices'
\* frames and reconnections.
StreamInOrder ==
    \A s \in Streams : got[s] = [i \in 1..Len(got[s]) |-> i] /\ Len(got[s]) <= sent[s]

Settled == toHost = <<>> /\ \A d \in RelayDevices : online[d] /\ toDev[d] = <<>>

\* When nothing is on its way, both ends agree on the streams: a stream the
\* host runs is one its device holds, and a stream a device holds is one the
\* host runs, unless another device's hello took it (RelayExecutor::reset).
StreamsAgree ==
    Settled => \A s \in Streams :
        /\ handles[s] \in {"connecting", "open"} => strm[s] \in {"pending", "open"}
        /\ strm[s] = "open" => handles[s] = "open" \/ <<s, "s">> \in cut

\* Every request is answered, if only with an error when its connection ends,
\* unless another device's hello dropped it while its body was incomplete.
EveryRequestEnds ==
    \A r \in Requests :
        req[r] \in {"sending", "waiting", "headed"}
            ~> req[r] \in {"ok", "failed"} \/ <<r, "r">> \in cut
=============================================================================
