--------------------------- MODULE RemoteControl ---------------------------
(***************************************************************************)
(* Pairing and revoking the devices a person controls their Choruz with    *)
(* from afar (handlers_remote_control.rs, remote_control_pairing_host.rs,  *)
(* remote_control_bridge.rs, relay-client `pair`).  A pairing is a row, a  *)
(* host task that answers one client in a room of the Cloud Gateway, and   *)
(* the transaction that turns the credential into a device.  Every device  *)
(* of a person holds the SAME session key: the bridge, one task per        *)
(* person, loads the active devices, opens a transport room and offers it  *)
(* to each of them, and is restarted by every pairing and revocation.      *)
(*                                                                         *)
(* Keys are abstract: a handshake of pairing p derives key p.  A frame of  *)
(* the handshake is its kind; the two ends take turns, so one slot holds   *)
(* the frame under way.                                                    *)
(***************************************************************************)
EXTENDS Naturals, Sequences, FiniteSets

CONSTANTS Pairings,        \* pairing credentials a person may create
          MaxRcFaults      \* bound: lost sockets and crashes

VARIABLES pairing,    \* remote_control_pairing: "none", "issued", "consumed", "expired", "deleted"
          hostTask,   \* serve_pairing: its progress, per pairing
          client,     \* relay-client `pair`: its progress, per pairing
          wire,       \* the handshake frame under way, per pairing
          keySeen,    \* redeem_pairing: the session key the host is about to store
          keysRead,   \* redeem_pairing: the active keys its transaction read
          device,     \* remote_control_device: device p is the one pairing p made
          refreshes,  \* the hub's queue of refreshes
          bridge,     \* the bridge task: its step and the material it loaded
          roomRevoked,\* external: the rendezvous room's revoked device ids
          joined,     \* devices in the bridge's transport room
          made,       \* history: how many devices a pairing made
          rcFaults

rcVars == <<pairing, hostTask, client, wire, keySeen, keysRead, device, refreshes,
            bridge, roomRevoked, joined, made, rcFaults>>

NoKey    == 0
Keys     == Pairings \cup {NoKey}
NoDevice == [state |-> "none", key |-> NoKey]

Active(d) == device[d].state = "active"
ActiveIds == {p \in Pairings : Active(p)}
Revoked   == {p \in Pairings : device[p].state = "revoked"}
ActiveKeys == {device[p].key : p \in ActiveIds}

Nothing == [active |-> {}, revoked |-> {}]
Idle    == [step |-> "none", material |-> Nothing]

RemoteControlTypeOK ==
    /\ pairing \in [Pairings -> {"none", "issued", "consumed", "expired", "deleted"}]
    /\ hostTask \in [Pairings -> {"none", "waiting", "committed", "revealed", "proved",
                                  "redeeming", "redeemed", "down", "ended"}]
    /\ client \in [Pairings -> {"none", "committed", "revealed", "proved", "paired", "failed"}]
    /\ wire \in [Pairings -> {"none", "commit", "host_commit", "reveal", "host_reveal",
                              "proof", "complete"}]
    /\ keySeen \in [Pairings -> Keys]
    /\ keysRead \in [Pairings -> SUBSET Keys]
    /\ device \in [Pairings -> [state : {"none", "active", "revoked"}, key : Keys]]
    /\ refreshes \in 0..(2 * Cardinality(Pairings))
    /\ bridge \in [step : {"none", "loading", "loaded", "serving", "waiting"},
                   material : [active : SUBSET Pairings, revoked : SUBSET Pairings]]
    /\ roomRevoked \subseteq Pairings
    /\ joined \subseteq Pairings
    /\ made \in [Pairings -> 0..2]
    /\ rcFaults \in 0..MaxRcFaults

RemoteControlInit ==
    /\ pairing = [p \in Pairings |-> "none"]
    /\ hostTask = [p \in Pairings |-> "none"]
    /\ client = [p \in Pairings |-> "none"]
    /\ wire = [p \in Pairings |-> "none"]
    /\ keySeen = [p \in Pairings |-> NoKey]
    /\ keysRead = [p \in Pairings |-> {}]
    /\ device = [p \in Pairings |-> NoDevice]
    /\ refreshes = 0
    /\ bridge = Idle
    /\ roomRevoked = {}
    /\ joined = {}
    /\ made = [p \in Pairings |-> 0]
    /\ rcFaults = 0

handshake == <<hostTask, client, wire, keySeen, keysRead>>
bridging  == <<refreshes, bridge, roomRevoked, joined>>

----------------------------------------------------------------------------
\* The pairing

\* create_pairing: the row, then the host's socket; a host that cannot
\* connect takes the unused row back.
create_pairing(p) ==
    /\ pairing[p] = "none"
    /\ \/ /\ pairing' = [pairing EXCEPT ![p] = "issued"]
          /\ hostTask' = [hostTask EXCEPT ![p] = "waiting"]
          /\ UNCHANGED rcFaults
       \/ /\ rcFaults < MaxRcFaults
          /\ rcFaults' = rcFaults + 1
          /\ pairing' = [pairing EXCEPT ![p] = "deleted"]
          /\ UNCHANGED hostTask
    /\ UNCHANGED <<client, wire, keySeen, keysRead, device, bridging, made>>

\* external: the credential's five minutes are over; the host task's
\* timeout drops it wherever it stands, an open transaction rolled back.
expire(p) ==
    /\ pairing[p] = "issued"
    /\ pairing' = [pairing EXCEPT ![p] = "expired"]
    /\ hostTask' = [hostTask EXCEPT ![p] = "ended"]
    /\ UNCHANGED <<client, wire, keySeen, keysRead, device, bridging, made, rcFaults>>

HostListens(p) == hostTask[p] \in {"waiting", "committed", "revealed"}

\* pair: the client connects and commits to its key.  external: the room
\* takes one client per pairing, and only while the host is connected.
pair(p) ==
    /\ client[p] = "none"
    /\ HostListens(p)
    /\ client' = [client EXCEPT ![p] = "committed"]
    /\ wire' = [wire EXCEPT ![p] = "commit"]
    /\ UNCHANGED <<pairing, hostTask, keySeen, keysRead, device, bridging, made, rcFaults>>

\* pair, the host's commitment: the client reveals its key.
ClientReveals(p) ==
    /\ wire[p] = "host_commit" /\ client[p] = "committed"
    /\ client' = [client EXCEPT ![p] = "revealed"]
    /\ wire' = [wire EXCEPT ![p] = "reveal"]
    /\ UNCHANGED <<pairing, hostTask, keySeen, keysRead, device, bridging, made, rcFaults>>

\* pair, the host's key: the client checks the host's proof and sends its own.
ClientProves(p) ==
    /\ wire[p] = "host_reveal" /\ client[p] = "revealed"
    /\ client' = [client EXCEPT ![p] = "proved"]
    /\ wire' = [wire EXCEPT ![p] = "proof"]
    /\ UNCHANGED <<pairing, hostTask, keySeen, keysRead, device, bridging, made, rcFaults>>

\* pair, pair.complete: the client has its device id and the session key.
ClientCompletes(p) ==
    /\ wire[p] = "complete" /\ client[p] = "proved"
    /\ client' = [client EXCEPT ![p] = "paired"]
    /\ wire' = [wire EXCEPT ![p] = "none"]
    /\ UNCHANGED <<pairing, hostTask, keySeen, keysRead, device, bridging, made, rcFaults>>

\* pair: the client's socket is lost; `pair` returns an error and never retries.
ClientDrops(p) ==
    /\ rcFaults < MaxRcFaults
    /\ client[p] \in {"committed", "revealed", "proved"}
    /\ client' = [client EXCEPT ![p] = "failed"]
    /\ wire' = [wire EXCEPT ![p] = "none"]
    /\ rcFaults' = rcFaults + 1
    /\ UNCHANGED <<pairing, hostTask, keySeen, keysRead, device, bridging, made>>

\* serve_pairing: one frame of the client.  A frame that does not fit where
\* the host stands (the host reconnected and began anew) is ignored.
Serve(p, frame, at, answer, next) ==
    /\ HostListens(p)
    /\ wire[p] = frame
    /\ IF hostTask[p] \in at
         THEN /\ hostTask' = [hostTask EXCEPT ![p] = next]
              /\ wire' = [wire EXCEPT ![p] = answer]
         ELSE /\ wire' = [wire EXCEPT ![p] = "none"]
              /\ UNCHANGED hostTask
    /\ UNCHANGED <<pairing, client, keySeen, keysRead, device, bridging, made, rcFaults>>

serve_pairing(p) ==
    \/ Serve(p, "commit", {"waiting"}, "host_commit", "committed")
    \/ Serve(p, "reveal", {"committed", "revealed"}, "host_reveal", "revealed")
    \/ Serve(p, "proof", {"revealed"}, "none", "proved")

\* existing_session_key: the key of the active devices, else the one this
\* handshake derived; devices whose keys differ are an error, which ends
\* this round of serve_pairing.
existing_session_key(p) ==
    /\ hostTask[p] = "proved"
    /\ IF Cardinality(ActiveKeys) <= 1
         THEN /\ keySeen' = [keySeen EXCEPT ![p] =
                                IF ActiveKeys = {} THEN p ELSE CHOOSE k \in ActiveKeys : TRUE]
              /\ hostTask' = [hostTask EXCEPT ![p] = "redeeming"]
         ELSE /\ hostTask' = [hostTask EXCEPT ![p] = "down"]
              /\ UNCHANGED keySeen
    /\ keysRead' = [keysRead EXCEPT ![p] = {}]
    /\ UNCHANGED <<pairing, client, wire, device, bridging, made, rcFaults>>

\* redeem_pairing_for_principal, up to the check: the credential is locked,
\* the active keys are read and compared with the one to store.
RedeemReads(p) ==
    /\ hostTask[p] = "redeeming"
    /\ IF pairing[p] = "issued" /\ ActiveKeys \subseteq {keySeen[p]}
         THEN /\ keysRead' = [keysRead EXCEPT ![p] = {keySeen[p]}]
              /\ hostTask' = [hostTask EXCEPT ![p] = "redeemed"]
         ELSE /\ hostTask' = [hostTask EXCEPT ![p] = "down"]
              /\ UNCHANGED keysRead
    /\ UNCHANGED <<pairing, client, wire, keySeen, device, bridging, made, rcFaults>>

\* redeem_pairing_for_principal, the commit: the device is stored, the
\* credential consumed and the bridge refreshed; serve_pairing then tells the
\* client, or fails to and reconnects for a credential that is used up.
RedeemCommits(p) ==
    /\ hostTask[p] = "redeemed"
    /\ device' = [device EXCEPT ![p] = [state |-> "active", key |-> keySeen[p]]]
    /\ pairing' = [pairing EXCEPT ![p] = "consumed"]
    /\ made' = [made EXCEPT ![p] = @ + 1]
    /\ refreshes' = refreshes + 1
    /\ \/ /\ wire' = [wire EXCEPT ![p] = IF client[p] = "proved" THEN "complete" ELSE "none"]
          /\ hostTask' = [hostTask EXCEPT ![p] = "ended"]
          /\ UNCHANGED rcFaults
       \/ /\ rcFaults < MaxRcFaults
          /\ rcFaults' = rcFaults + 1
          /\ hostTask' = [hostTask EXCEPT ![p] = "down"]
          /\ UNCHANGED wire
    /\ UNCHANGED <<client, keySeen, keysRead, bridge, roomRevoked, joined>>

\* redeem_pairing: the same transaction, called by the operator's own
\* browser with the key it holds.
redeem_pairing(p) ==
    /\ pairing[p] = "issued" /\ hostTask[p] # "redeemed"
    /\ client[p] = "none"
    /\ ActiveKeys \subseteq {p}
    /\ device' = [device EXCEPT ![p] = [state |-> "active", key |-> p]]
    /\ pairing' = [pairing EXCEPT ![p] = "consumed"]
    /\ made' = [made EXCEPT ![p] = @ + 1]
    /\ refreshes' = refreshes + 1
    /\ client' = [client EXCEPT ![p] = "paired"]
    /\ UNCHANGED <<hostTask, wire, keySeen, keysRead, bridge, roomRevoked, joined, rcFaults>>

\* maintain_pairing: the host's socket is lost, or a round of serve_pairing
\* fails; the host reconnects and begins the handshake anew.
HostDrops(p) ==
    /\ HostListens(p)
    /\ rcFaults < MaxRcFaults
    /\ rcFaults' = rcFaults + 1
    /\ hostTask' = [hostTask EXCEPT ![p] = "down"]
    /\ wire' = [wire EXCEPT ![p] = "none"]
    /\ UNCHANGED <<pairing, client, keySeen, keysRead, device, bridging, made>>

maintain_pairing(p) ==
    /\ hostTask[p] = "down"
    /\ hostTask' = [hostTask EXCEPT ![p] = "waiting"]
    /\ UNCHANGED <<pairing, client, wire, keySeen, keysRead, device, bridging, made, rcFaults>>

----------------------------------------------------------------------------
\* Revocation and the bridge

\* revoke_device: the row, then a refresh.
revoke_device(d) ==
    /\ Active(d)
    /\ device' = [device EXCEPT ![d].state = "revoked"]
    /\ refreshes' = refreshes + 1
    /\ UNCHANGED <<pairing, handshake, bridge, roomRevoked, joined, made, rcFaults>>

\* restart_bridge: the running task is aborted, its transport room closes on
\* every device in it, and a new task starts.
restart_bridge ==
    /\ refreshes > 0
    /\ refreshes' = refreshes - 1
    /\ bridge' = [step |-> "loading", material |-> Nothing]
    /\ joined' = {}
    /\ UNCHANGED <<pairing, handshake, device, roomRevoked, made, rcFaults>>

\* load_bridge_material: no active device ends the task; devices whose keys
\* differ, or a database that fails, make it wait and try again.
load_bridge_material ==
    /\ bridge.step = "loading"
    /\ bridge' = CASE Cardinality(ActiveKeys) > 1 -> [bridge EXCEPT !.step = "waiting"]
                   [] ActiveIds = {} -> Idle
                   [] OTHER -> [step |-> "loaded",
                                material |-> [active |-> ActiveIds, revoked |-> Revoked]]
    /\ UNCHANGED <<pairing, handshake, device, refreshes, roomRevoked, joined, made, rcFaults>>

\* serve_bridge_session, the start: both sockets open, the revoked ids are
\* told to the rendezvous room and every active device is offered the
\* transport; it fails when a socket does.
serve_bridge_session ==
    /\ bridge.step = "loaded"
    /\ \/ /\ bridge' = [bridge EXCEPT !.step = "serving"]
          /\ roomRevoked' = bridge.material.revoked
          /\ UNCHANGED rcFaults
       \/ /\ rcFaults < MaxRcFaults
          /\ rcFaults' = rcFaults + 1
          /\ bridge' = [bridge EXCEPT !.step = "waiting"]
          /\ UNCHANGED roomRevoked
    /\ UNCHANGED <<pairing, handshake, device, refreshes, joined, made>>

\* serve_bridge_session: a socket closes or its peer falls silent.
BridgeDrops ==
    /\ bridge.step = "serving"
    /\ rcFaults < MaxRcFaults
    /\ rcFaults' = rcFaults + 1
    /\ bridge' = [bridge EXCEPT !.step = "waiting"]
    /\ joined' = {}
    /\ UNCHANGED <<pairing, handshake, device, refreshes, roomRevoked, made>>

\* maintain_bridge: after its pause the task loads its material again.
maintain_bridge ==
    /\ bridge.step = "waiting"
    /\ bridge' = [step |-> "loading", material |-> Nothing]
    /\ UNCHANGED <<pairing, handshake, device, refreshes, roomRevoked, joined, made, rcFaults>>

\* offer_transport: a device that reaches the rendezvous room is offered the
\* transport when the material has a ticket for it.  external: the room
\* turns away the ids it was told are revoked.
offer_transport(d) ==
    /\ bridge.step = "serving"
    /\ client[d] = "paired" /\ d \notin joined
    /\ d \notin roomRevoked
    /\ d \in bridge.material.active
    /\ joined' = joined \cup {d}
    /\ UNCHANGED <<pairing, handshake, device, refreshes, bridge, roomRevoked, made, rcFaults>>

\* external: a device leaves the transport room.
DeviceLeaves(d) ==
    /\ d \in joined
    /\ rcFaults < MaxRcFaults
    /\ rcFaults' = rcFaults + 1
    /\ joined' = joined \ {d}
    /\ UNCHANGED <<pairing, handshake, device, refreshes, bridge, roomRevoked, made>>

\* spawn: the gateway restarts.  Its pairing hosts, its queue and its bridges
\* are gone; the startup scan starts a bridge for a person with devices.
GatewayRestarts ==
    /\ rcFaults < MaxRcFaults
    /\ rcFaults' = rcFaults + 1
    /\ hostTask' = [p \in Pairings |-> IF hostTask[p] = "none" THEN "none" ELSE "ended"]
    /\ wire' = [p \in Pairings |-> IF wire[p] = "complete" THEN "complete" ELSE "none"]
    /\ refreshes' = 0
    /\ bridge' = IF ActiveIds # {} THEN [step |-> "loading", material |-> Nothing] ELSE Idle
    /\ joined' = {}
    /\ UNCHANGED <<pairing, client, keySeen, keysRead, device, roomRevoked, made>>

BridgeStep == restart_bridge \/ load_bridge_material \/ serve_bridge_session \/ maintain_bridge

PairingStep(p) ==
    \/ ClientReveals(p) \/ ClientProves(p) \/ ClientCompletes(p)
    \/ serve_pairing(p) \/ existing_session_key(p) \/ RedeemReads(p) \/ RedeemCommits(p)
    \/ maintain_pairing(p)

RemoteControlNext ==
    \/ \E p \in Pairings :
          \/ create_pairing(p) \/ expire(p) \/ pair(p) \/ PairingStep(p) \/ redeem_pairing(p)
          \/ ClientDrops(p) \/ HostDrops(p)
          \/ revoke_device(p) \/ offer_transport(p) \/ DeviceLeaves(p)
    \/ BridgeStep \/ BridgeDrops \/ GatewayRestarts

----------------------------------------------------------------------------
\* A pairing makes at most one device, however often the host reconnects,
\* the answer is lost or the gateway restarts (the row lock and
\* `consumed_at` of redeem_pairing_for_principal).
PairingIsUsedOnce == \A p \in Pairings : made[p] <= 1

\* A client that was told its pairing is complete is a device of the store,
\* active or revoked since, whose credential is spent.
PairedClientIsStored ==
    \A p \in Pairings :
        client[p] = "paired" => device[p].state # "none" /\ pairing[p] = "consumed"

\* Once the hub has worked off its refreshes, a serving bridge's material is
\* the store's: no revoked device sits in the transport room, whatever the
\* bridge had loaded when the revocation came (restart_bridge aborts the
\* task, so material read before is never served after).
BridgeFollowsDevices ==
    refreshes = 0 /\ bridge.step \in {"loaded", "serving"} =>
        /\ bridge.material.active = ActiveIds
        /\ joined \subseteq ActiveIds

\* The active devices of a person share one session key: "remote-control
\* session key does not match active devices" (handlers_remote_control.rs).
SessionKeysAgree == Cardinality(ActiveKeys) <= 1

\* A device whose keys agree with the others' is served: an active device
\* always has a bridge serving it again, unless the keys came to differ.
ActiveDeviceIsServed ==
    \A d \in Pairings :
        Active(d) ~> (bridge.step = "serving" /\ d \in bridge.material.active)
                     \/ ~Active(d) \/ ~SessionKeysAgree
=============================================================================
