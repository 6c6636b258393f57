---------------------------- MODULE HostPairing -----------------------------
(***************************************************************************)
(* How a device becomes a runtime host of a company and what it may then   *)
(* do.  The company's gateway hands out pairing codes, redeems them,       *)
(* renames and revokes hosts and serves their requests                     *)
(* (handlers_runtime_hosts.rs).  The device's gateway runs one             *)
(* "choruz-connector pair-relay" per onboarding request                    *)
(* (handlers_runtime_host_onboarding.rs); an operator may also run         *)
(* "choruz-connector pair" directly.  Either installs a connector config.  *)
(***************************************************************************)
EXTENDS Naturals, Sequences, FiniteSets

CONSTANTS
    HpCompanies,   \* companies with hosts
    PairingCodes,  \* 8-digit codes
    Credentials,   \* one-time Remote Control credentials
    HostNames,     \* names of devices
    Joins,         \* connector processes that pair at a time
    HarnessAccounts,
    MaxHosts,      \* bound: hosts registered
    MaxPairingRows,\* bound: pairing codes handed out
    MaxJoins,      \* bound: pairings begun
    MaxHpFaults    \* bound: timeouts and lost responses

VARIABLES
    pairing,       \* code -> its runtime_host_pairing row: [id, company, state]
    pairingRows,   \* pairing codes handed out
    rowLock,       \* code -> join whose transaction holds the row, NoJoin
    hosts,         \* runtime_host rows, in the order of their insertion
    usedCredentials,
    join,          \* join -> request and progress of one connector process
    joins,         \* pairings begun
    connectorConfig,\* path -> host whose id and token the file holds, NoHost
    hostCall,      \* a request that found its host unrevoked: of the host itself, or a rename
    accounts,      \* harness account -> [host, active, probedBy]
    hpFaults,
    told,          \* history: hosts whose pairing was reported as done
    displaced      \* history: hosts whose own request was repeated

hpVars == <<pairing, pairingRows, rowLock, hosts, usedCredentials, join, joins,
            connectorConfig, hostCall, accounts, hpFaults, told, displaced>>

NoJoin == 0
NoHost == 0
NoCompany == 0
Direct == 0       \* in place of a credential: the operator ran "pair"
HostIds == DOMAIN hosts
NoRow == [id |-> 0, company |-> NoCompany, state |-> "none"]
Away == [at |-> "idle", credential |-> Direct, name |-> 0, code |-> 0, host |-> NoHost]
Resting == [op |-> "none", host |-> NoHost, about |-> 0]
At(j, stage) == join[j].at = stage
Moves(j, stage) == join' = [join EXCEPT ![j].at = stage]
HpFault == hpFaults < MaxHpFaults /\ hpFaults' = hpFaults + 1

\* The unique index runtime_host_active_name_idx.
NameFree(company, name, except) ==
    \A h \in HostIds \ {except} :
        ~hosts[h].revoked => hosts[h].company # company \/ hosts[h].name # name

---------------------------------------------------------------------------
(* Pairing codes *)

\* Expired and consumed rows are pruned, a free code gets a row.
create_pairing(company, code) ==
    LET pruned == [c \in PairingCodes |->
                     IF pairing[c].state \in {"expired", "consumed"} THEN NoRow ELSE pairing[c]]
    IN
    /\ pairingRows < MaxPairingRows
    /\ \A c \in PairingCodes : rowLock[c] = NoJoin
    /\ pruned[code].state = "none"
    /\ pairing' = [pruned EXCEPT ![code] =
                     [id |-> pairingRows + 1, company |-> company, state |-> "open"]]
    /\ pairingRows' = pairingRows + 1
    /\ UNCHANGED <<rowLock, hosts, usedCredentials, join, joins, connectorConfig, hostCall,
                   accounts, hpFaults, told, displaced>>

CodeExpires(code) ==
    /\ pairing[code].state = "open" /\ rowLock[code] = NoJoin
    /\ pairing' = [pairing EXCEPT ![code].state = "expired"]
    /\ UNCHANGED <<pairingRows, rowLock, hosts, usedCredentials, join, joins, connectorConfig,
                   hostCall, accounts, hpFaults, told, displaced>>

---------------------------------------------------------------------------
(* The device *)

\* A hash of the gateway, the credential and the name; "pair" writes the
\* default config.
connector_config_path(credential, name) ==
    IF credential = Direct THEN <<"default">> ELSE <<"config", credential, name>>

PathOf(j) == connector_config_path(join[j].credential, join[j].name)

\* Whether the join repeats the request that registered the host.
Repeats(j, h) ==
    /\ h # NoHost
    /\ hosts[h].credential = join[j].credential
    /\ join[j].credential = Direct \/ hosts[h].pairedAs = join[j].name

Displaces(j) ==
    displaced' = displaced \cup {h \in HostIds : Repeats(j, h) /\ h # join[j].host}

\* The request is validated and the connector started.
onboard(j, credential, name, code) ==
    /\ At(j, "idle") /\ \A i \in Joins : i < j => ~At(i, "idle")
    /\ joins < MaxJoins /\ joins' = joins + 1
    /\ join' = [join EXCEPT ![j] =
         [at |-> IF credential = Direct THEN "redeem" ELSE "pair",
          credential |-> credential, name |-> name, code |-> code, host |-> NoHost]]
    /\ UNCHANGED <<pairing, pairingRows, rowLock, hosts, usedCredentials, connectorConfig,
                   hostCall, accounts, hpFaults, told, displaced>>

\* The connector pairs with the relay first: a credential works once.
pair_relay(j) ==
    /\ At(j, "pair")
    /\ IF join[j].credential \in usedCredentials
       THEN Moves(j, "failed") /\ UNCHANGED usedCredentials
       ELSE /\ Moves(j, "redeem")
            /\ usedCredentials' = usedCredentials \cup {join[j].credential}
    /\ UNCHANGED <<pairing, pairingRows, rowLock, hosts, joins, connectorConfig, hostCall,
                   accounts, hpFaults, told, displaced>>

save_config(j) ==
    /\ At(j, "answered")
    /\ connectorConfig' = [connectorConfig EXCEPT ![PathOf(j)] = join[j].host]
    /\ Displaces(j)
    /\ Moves(j, "saved")
    /\ UNCHANGED <<pairing, pairingRows, rowLock, hosts, usedCredentials, joins, hostCall,
                   accounts, hpFaults, told>>

\* The connector ended well: the caller learns the host.
onboarded(j) ==
    /\ At(j, "saved")
    /\ told' = told \cup {join[j].host}
    /\ join' = [join EXCEPT ![j] = Away]
    /\ UNCHANGED <<pairing, pairingRows, rowLock, hosts, usedCredentials, joins,
                   connectorConfig, hostCall, accounts, hpFaults, displaced>>

\* The connector ended with an error: onboarding removes its config.
onboard_fails(j) ==
    /\ At(j, "failed")
    /\ connectorConfig' = IF join[j].credential = Direct THEN connectorConfig
                          ELSE [connectorConfig EXCEPT ![PathOf(j)] = NoHost]
    /\ Displaces(j)
    /\ join' = [join EXCEPT ![j] = Away]
    /\ UNCHANGED <<pairing, pairingRows, rowLock, hosts, usedCredentials, joins, hostCall,
                   accounts, hpFaults, told>>

\* The connector is killed after PAIR_TIMEOUT; what it already installed stays,
\* and the company's gateway finishes a redemption it has begun.
pair_times_out(j) ==
    /\ join[j].at \in {"pair", "redeem", "inserting", "answered", "saved"}
    /\ HpFault
    /\ IF At(j, "inserting") THEN Moves(j, "unheard") ELSE join' = [join EXCEPT ![j] = Away]
    /\ UNCHANGED <<pairing, pairingRows, rowLock, hosts, usedCredentials, joins,
                   connectorConfig, hostCall, accounts, told, displaced>>

---------------------------------------------------------------------------
(* Redemption: one transaction of the company's gateway *)

row_for_update(j, code) ==
    rowLock[code] = NoJoin /\ rowLock' = [rowLock EXCEPT ![code] = j]

\* A later reader waits for the lock and then sees the row consumed.
redeem_pairing(j) ==
    LET code == join[j].code IN
    /\ At(j, "redeem")
    /\ \/ /\ pairing[code].state = "open"
          /\ row_for_update(j, code)
          /\ Moves(j, "inserting")
       \/ /\ pairing[code].state # "open"
          /\ Moves(j, "failed")
          /\ UNCHANGED rowLock
    /\ UNCHANGED <<pairing, pairingRows, hosts, usedCredentials, joins, connectorConfig,
                   hostCall, accounts, hpFaults, told, displaced>>

\* The host is inserted, the code consumed, the transaction committed; a taken
\* name rolls it back.
redeem_commits(j) ==
    LET code == join[j].code
        row == pairing[code]
        fits == NameFree(row.company, join[j].name, NoHost)
    IN
    /\ join[j].at \in {"inserting", "unheard"}
    /\ Len(hosts) < MaxHosts \/ ~fits
    /\ rowLock' = [c \in PairingCodes |-> IF rowLock[c] = j THEN NoJoin ELSE rowLock[c]]
    /\ IF fits
       THEN /\ hosts' = Append(hosts,
                 [company |-> row.company, name |-> join[j].name,
                  pairedAs |-> join[j].name, credential |-> join[j].credential,
                  revoked |-> FALSE, status |-> "online", pairing |-> row.id])
            /\ pairing' = [pairing EXCEPT ![code].state = "consumed"]
       ELSE UNCHANGED <<hosts, pairing>>
    /\ join' = [join EXCEPT ![j] =
         IF At(j, "unheard") THEN Away
         ELSE IF fits THEN [@ EXCEPT !.at = "answered", !.host = Len(hosts) + 1]
              ELSE [@ EXCEPT !.at = "failed"]]
    /\ UNCHANGED <<pairingRows, usedCredentials, joins, connectorConfig, hostCall, accounts, hpFaults, told, displaced>>

---------------------------------------------------------------------------
(* Hosts of the company *)

\* The rename looks for an unrevoked host, then checks the actor's access.
rename_host(h, name) ==
    /\ hostCall = Resting /\ ~hosts[h].revoked /\ hosts[h].name # name
    /\ hostCall' = [op |-> "rename", host |-> h, about |-> name]
    /\ UNCHANGED <<pairing, pairingRows, rowLock, hosts, usedCredentials, join, joins,
                   connectorConfig, accounts, hpFaults, told, displaced>>

\* The update does not look at revoked_at again.
rename_updates ==
    LET h == hostCall.host IN
    /\ hostCall.op = "rename"
    /\ hosts' = IF hosts[h].revoked \/ NameFree(hosts[h].company, hostCall.about, h)
                THEN [hosts EXCEPT ![h].name = hostCall.about] ELSE hosts
    /\ hostCall' = Resting
    /\ UNCHANGED <<pairing, pairingRows, rowLock, usedCredentials, join, joins,
                   connectorConfig, accounts, hpFaults, told, displaced>>

revoke_host(h) ==
    /\ ~hosts[h].revoked
    /\ hosts' = [hosts EXCEPT ![h].revoked = TRUE, ![h].status = "revoked"]
    /\ UNCHANGED <<pairing, pairingRows, rowLock, usedCredentials, join, joins,
                   connectorConfig, hostCall, accounts, hpFaults, told, displaced>>

\* The id and token of the config belong to an unrevoked host.
authenticate_host_token(h) == h # NoHost /\ ~hosts[h].revoked

\* A request of a host: require_host, then the handler.
HostRequest(path, op, account) ==
    LET h == connectorConfig[path] IN
    /\ hostCall = Resting
    /\ authenticate_host_token(h)
    /\ op = "heartbeat" => account = CHOOSE a \in HarnessAccounts : TRUE
    /\ hostCall' = [op |-> op, host |-> h, about |-> account]
    /\ UNCHANGED <<pairing, pairingRows, rowLock, hosts, usedCredentials, join, joins,
                   connectorConfig, accounts, hpFaults, told, displaced>>

mark_host_seen(h) ==
    IF hosts[h].revoked THEN hosts ELSE [hosts EXCEPT ![h].status = "online"]

heartbeat ==
    /\ hostCall.op = "heartbeat"
    /\ hosts' = mark_host_seen(hostCall.host)
    /\ hostCall' = Resting
    /\ UNCHANGED <<pairing, pairingRows, rowLock, usedCredentials, join, joins,
                   connectorConfig, accounts, hpFaults, told, displaced>>

\* ON CONFLICT (id) DO NOTHING: another host's account stays as it is.
register_harness_account(a, h) ==
    IF accounts[a].host = NoHost THEN [accounts EXCEPT ![a].host = h] ELSE accounts

\* Only an account of the same company and host.
store_account_probe(a, h) ==
    IF accounts[a].host = h
    THEN [accounts EXCEPT ![a].active = TRUE, ![a].probedBy = h] ELSE accounts

RegisterAccount ==
    /\ hostCall.op = "register"
    /\ accounts' = register_harness_account(hostCall.about, hostCall.host)
    /\ hostCall' = Resting
    /\ UNCHANGED <<pairing, pairingRows, rowLock, hosts, usedCredentials, join, joins,
                   connectorConfig, hpFaults, told, displaced>>

verify_harness_account ==
    /\ hostCall.op = "verify"
    /\ accounts' = store_account_probe(hostCall.about, hostCall.host)
    /\ hostCall' = Resting
    /\ UNCHANGED <<pairing, pairingRows, rowLock, hosts, usedCredentials, join, joins,
                   connectorConfig, hpFaults, told, displaced>>

---------------------------------------------------------------------------
Paths == {connector_config_path(c, n) : c \in Credentials \cup {Direct}, n \in HostNames}

HostPairingInit ==
    /\ pairing = [c \in PairingCodes |-> NoRow]
    /\ pairingRows = 0
    /\ rowLock = [c \in PairingCodes |-> NoJoin]
    /\ hosts = <<>>
    /\ usedCredentials = {}
    /\ join = [j \in Joins |-> Away]
    /\ joins = 0
    /\ connectorConfig = [p \in Paths |-> NoHost]
    /\ hostCall = Resting
    /\ accounts = [a \in HarnessAccounts |-> [host |-> NoHost, active |-> FALSE, probedBy |-> NoHost]]
    /\ hpFaults = 0
    /\ told = {} /\ displaced = {}

JoinStep(j) ==
    \/ \E credential \in Credentials \cup {Direct}, name \in HostNames, code \in PairingCodes :
           onboard(j, credential, name, code)
    \/ pair_relay(j) \/ redeem_pairing(j) \/ redeem_commits(j)
    \/ save_config(j) \/ onboarded(j) \/ onboard_fails(j) \/ pair_times_out(j)

HostPairingNext ==
    \/ \E company \in HpCompanies, code \in PairingCodes : create_pairing(company, code)
    \/ \E code \in PairingCodes : CodeExpires(code)
    \/ \E j \in Joins : JoinStep(j)
    \/ \E h \in HostIds : revoke_host(h) \/ \E name \in HostNames : rename_host(h, name)
    \/ rename_updates
    \/ \E p \in Paths, op \in {"heartbeat", "register", "verify"}, a \in HarnessAccounts :
           HostRequest(p, op, a)
    \/ heartbeat \/ RegisterAccount \/ verify_harness_account

---------------------------------------------------------------------------
HostPairingTypeOK ==
    /\ \A h \in HostIds : hosts[h].company \in HpCompanies /\ hosts[h].name \in HostNames
                          /\ hosts[h].status \in {"online", "revoked"}
    /\ connectorConfig \in [Paths -> HostIds \cup {NoHost}]
    /\ rowLock \in [PairingCodes -> Joins \cup {NoJoin}]
    /\ told \subseteq HostIds /\ displaced \subseteq HostIds

\* A pairing code registers at most one host, however many devices redeem it
\* at once and whether or not they hear the answer.
CodeMakesOneHost ==
    \A g, h \in HostIds : hosts[g].pairing = hosts[h].pairing => g = h

\* A device that was reported as connected can run: its config still holds its
\* id and token, unless the very same onboarding was submitted again.  No other
\* device's failed or finished pairing takes the config away.
ConnectedHostKeepsItsConfig ==
    \A h \in told \ displaced :
        connectorConfig[connector_config_path(hosts[h].credential, hosts[h].pairedAs)] = h

\* A revoked host never looks connected again, whatever heartbeat or rename had
\* already passed its check when the host was revoked.
RevokedHostStaysRevoked == \A h \in HostIds : hosts[h].revoked => hosts[h].status = "revoked"

\* A harness account stays with the host that registered it.
AccountStaysWithItsHost ==
    [][\A a \in HarnessAccounts :
         accounts[a].host # NoHost => accounts'[a].host = accounts[a].host]_hpVars

\* An account is only active because its own host verified it: a snapshot of
\* another host that names the same id changes nothing.
ActiveAccountWasProbedHere ==
    \A a \in HarnessAccounts : accounts[a].active => accounts[a].probedBy = accounts[a].host
=============================================================================
