--------------------------- MODULE ConnectionPool ---------------------------
(***************************************************************************)
(* The database connection pool that the gateway's requests share          *)
(* (choruz-store pool.rs) and the order in which the functions of the      *)
(* database service take connections from it and give them back.  The pool *)
(* is built without a wait timeout: a request that finds no free           *)
(* connection waits, first come first served.                              *)
(***************************************************************************)
EXTENDS Naturals, Sequences, FiniteSets, SequencesExt

CONSTANTS
    Clients,     \* concurrent requests
    PoolSize,    \* CHORUZ_DB_POOL_SIZE, 32 by default
    PoolRoutes,  \* the functions the requests run
    MaxPoolRuns  \* bound: requests in all

VARIABLES
    route,       \* client -> the rest of its function, a sequence of takes and puts
    held,        \* client -> connections it holds
    poolQueue,   \* clients waiting in EventStore::connect, in order
    poolRuns     \* requests begun

poolVars == <<route, held, poolQueue, poolRuns>>

\* One connection for one query, dropped with the function's scope.
Query == <<"take", "put">>

\* A function that holds its connection while it calls another owner's query.
Nested == <<"take", "take", "put", "put">>

\* get_principal; the native check in a scope of its own; list_companies.
accessible_workspace_ids == Query \o Query \o Query \o Query

\* get_principal; the slug check and both inserts; record_audit inside.
create_company == Query \o Nested

\* get_principal; the transaction, with principal_can_access_workspace inside.
deactivation == Query \o Nested

\* Two get_principal; the existence check, dropped; the access check; the
\* insert, with record_audit inside.
add_company_member == Query \o Query \o Query \o Query \o Nested

Function(name) ==
    CASE name = "accessible_workspace_ids" -> accessible_workspace_ids
      [] name = "create_company" -> create_company
      [] name = "deactivate_principal" -> deactivation
      [] name = "add_company_member" -> add_company_member

Free == PoolSize - FoldFunctionOnSet(+, 0, held, Clients)

PoolInit ==
    /\ route = [c \in Clients |-> <<>>]
    /\ held = [c \in Clients |-> 0]
    /\ poolQueue = <<>>
    /\ poolRuns = 0

BeginPoolRun(c) ==
    /\ route[c] = <<>>
    /\ poolRuns < MaxPoolRuns
    /\ poolRuns' = poolRuns + 1
    /\ \E name \in PoolRoutes : route' = [route EXCEPT ![c] = Function(name)]
    /\ UNCHANGED <<held, poolQueue>>

\* EventStore::connect: the client joins the queue of the pool.
connect(c) ==
    /\ route[c] # <<>> /\ Head(route[c]) = "take"
    /\ ~Contains(poolQueue, c)
    /\ poolQueue' = Append(poolQueue, c)
    /\ UNCHANGED <<route, held, poolRuns>>

\* external: deadpool hands a free connection to the longest waiting client.
PoolGrants ==
    /\ poolQueue # <<>> /\ Free > 0
    /\ held' = [held EXCEPT ![Head(poolQueue)] = @ + 1]
    /\ route' = [route EXCEPT ![Head(poolQueue)] = Tail(@)]
    /\ poolQueue' = Tail(poolQueue)
    /\ UNCHANGED poolRuns

\* The client goes out of scope and its connection returns to the pool.
DropConnection(c) ==
    /\ route[c] # <<>> /\ Head(route[c]) = "put"
    /\ held' = [held EXCEPT ![c] = @ - 1]
    /\ route' = [route EXCEPT ![c] = Tail(@)]
    /\ UNCHANGED <<poolQueue, poolRuns>>

PoolNext ==
    \/ PoolGrants
    \/ \E c \in Clients : BeginPoolRun(c) \/ connect(c) \/ DropConnection(c)

PoolSpec == PoolInit /\ [][PoolNext]_poolVars

---------------------------------------------------------------------------
PoolTypeOK ==
    /\ \A c \in Clients : IsSuffix(route[c], Function(CHOOSE n \in PoolRoutes :
                                       IsSuffix(route[c], Function(n))))
    /\ held \in [Clients -> 0..PoolSize]
    /\ Range(poolQueue) \subseteq Clients
    /\ poolRuns \in 0..MaxPoolRuns

\* Never does every connection belong to a request that itself waits for
\* another connection: such a pool serves nobody again.
PoolNeverStarves ==
    ~(Free = 0 /\ \A c \in Clients : held[c] > 0 => Contains(poolQueue, c))
=============================================================================
