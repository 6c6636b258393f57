----------------------------- MODULE Workspaces -----------------------------
(***************************************************************************)
(* Companies (workspaces), the principals that live in them and the        *)
(* requests that change either, after the SQL owners in                    *)
(* db_service/companies.rs, principals.rs, workspace_migrations.rs and     *)
(* audit.rs and the gateway handlers that call them.                       *)
(*                                                                         *)
(* A request reads and checks first (begin_), and each later statement is  *)
(* a step of its own, so two requests interleave and a request may die     *)
(* between any two of its statements.  A request that its checks refuse    *)
(* changes nothing and is not represented.  The functions that run in one  *)
(* database transaction are one step.                                      *)
(***************************************************************************)
EXTENDS Naturals, FiniteSets, FiniteSetsExt

CONSTANTS
    Operator,       \* the configured local operator
    WsUsers,        \* people who sign up
    WsAgents,       \* agent ids, handed out in order
    WsCompanies,    \* company ids; DefaultCompany is the operator's workspace
    DefaultCompany,
    Slugs,          \* "default" is the slug of the default company
    WsRequests,     \* request slots
    MaxWsRequests,  \* bound: requests admitted by their checks
    MaxWsFaults     \* bound: requests that die half way

VARIABLES
    companies,      \* the company table
    companyMembers, \* the company_member table
    people,         \* the principal table
    requests,       \* the requests under way
    signedIn,       \* the operator was given a session token
    admitted,       \* how many requests were admitted
    wsFaults,       \* how many requests died
    unaudited,      \* history: <<operation, row>> changed, not yet in audit_log
    abandoned,      \* history: companies whose creation died half way
    signInFailed    \* history: a sign-in met a constraint of the database

wsVars == <<companies, companyMembers, people, requests, signedIn, admitted,
            wsFaults, unaudited, abandoned, signInFailed>>

WsHumans == {Operator} \cup WsUsers
Principals == WsHumans \cup WsAgents

\* create_human_user gives every signup a workspace of its own, ws-{id},
\* which has no company row.
Native(u) == 100 + u
WorkspaceIds == WsCompanies \cup {Native(u) : u \in WsUsers}

\* Agents all want the same name; every person has a name of their own.
NameOf(p) == IF p \in WsAgents THEN 0 ELSE p

NoCompany == [there |-> FALSE, owner |-> 0, slug |-> "", deleted |-> FALSE]
NoPerson == [there |-> FALSE, ws |-> 0, disabled |-> FALSE, deleted |-> FALSE]
NoRequest == [op |-> "none"]

---------------------------------------------------------------------------
(* Reads *)

get_principal(p) ==
    people[p].there /\ ~people[p].disabled /\ ~people[p].deleted

\* A session token or agent secret resolves to an active principal; people and
\* agents get theirs with their row, the operator from its first sign-in.
authenticate(p) == get_principal(p) /\ (p = Operator => signedIn)

IsCompany(w) == companies[w].there

\* home: the workspace of the principal p as the caller read it.
workspace_access(p, home, w) ==
    IF home = w
    THEN IsCompany(w) => ~companies[w].deleted
    ELSE IsCompany(w) /\ ~companies[w].deleted /\ <<w, p>> \in companyMembers

principal_can_access_workspace(p, w) == workspace_access(p, people[p].ws, w)

list_companies(p) ==
    {c \in WorkspaceIds :
        /\ companies[c].there /\ ~companies[c].deleted
        /\ <<c, p>> \in companyMembers \/ c = people[p].ws}

accessible_workspace_ids(p) ==
    {w \in {people[p].ws} : principal_can_access_workspace(p, w)} \cup list_companies(p)

list_agents_for_company(c) ==
    {a \in WsAgents : get_principal(a) /\ people[a].ws = c}

list_accessible_agents(p) ==
    {a \in WsAgents :
        LET w == people[a].ws IN
        /\ get_principal(a)
        /\ \/ ~IsCompany(w) /\ w = people[p].ws
           \/ /\ IsCompany(w) => ~companies[w].deleted
              /\ w = people[p].ws \/ (IsCompany(w) /\ <<w, p>> \in companyMembers)}

require_company_access(p, c) ==
    ~companies[c].deleted /\ c \in list_companies(p)

\* Besides its membership of the conversation in workspace w.
require_conversation_export_access(p, w) ==
    \/ ~IsCompany(w) /\ w = people[p].ws
    \/ /\ IsCompany(w) => ~companies[w].deleted
       /\ w = people[p].ws \/ (IsCompany(w) /\ <<w, p>> \in companyMembers)

\* A member of a company that is not deleted: the check of every company write.
MemberOf(p, c) ==
    authenticate(p) /\ IsCompany(c) /\ ~companies[c].deleted
        /\ <<c, p>> \in companyMembers

\* The unique indexes of migrations V048 (principals) and V023 (companies).
NameTaken(p, w) ==
    \E q \in Principals \ {p} :
        people[q].there /\ ~people[q].deleted /\ people[q].ws = w
            /\ NameOf(q) = NameOf(p)
SlugTaken(c, owner, slug) ==
    \E d \in WorkspaceIds \ {c} :
        companies[d].there /\ ~companies[d].deleted
            /\ companies[d].owner = owner /\ companies[d].slug = slug

---------------------------------------------------------------------------
(* The life of a request *)

\* Slots are alike: a request takes the first free one.
Admit(r, request) ==
    /\ requests[r] = NoRequest
    /\ \A q \in WsRequests : q < r => requests[q] # NoRequest
    /\ admitted < MaxWsRequests
    /\ admitted' = admitted + 1
    /\ requests' = [requests EXCEPT ![r] = request]
    /\ UNCHANGED <<companies, companyMembers, people, signedIn, wsFaults, unaudited,
                   abandoned, signInFailed>>

At(r, op, step) ==
    requests[r] # NoRequest /\ requests[r].op = op /\ requests[r].at = step
Goto(r, step) == requests' = [requests EXCEPT ![r].at = step]
Ends(r) == requests' = [requests EXCEPT ![r] = NoRequest]

Request(op, actor, target, step) ==
    [op |-> op, actor |-> actor, target |-> target, to |-> 0, slug |-> "",
     home |-> 0, left |-> {}, at |-> step]

\* The statement that changes a row, after which record_audit is still to come.
Changed(r) ==
    /\ unaudited' = unaudited \cup {<<requests[r].op, requests[r].target>>}
    /\ Goto(r, "audit")

\* record_audit: an insert of its own, on a connection of its own.
record_audit(r) ==
    /\ requests[r] # NoRequest /\ requests[r].at = "audit"
    /\ unaudited' = unaudited \ {<<requests[r].op, requests[r].target>>}
    /\ Ends(r)
    /\ UNCHANGED <<companies, companyMembers, people, signedIn, admitted, wsFaults,
                   abandoned, signInFailed>>

\* The gateway stops or the connection breaks between two statements.
RequestDies(r) ==
    /\ requests[r] # NoRequest
    /\ wsFaults < MaxWsFaults
    /\ wsFaults' = wsFaults + 1
    /\ abandoned' = abandoned \cup
         {c \in {requests[r].target} : At(r, "create_company", "member")}
    /\ Ends(r)
    /\ UNCHANGED <<companies, companyMembers, people, signedIn, admitted, unaudited,
                   signInFailed>>

---------------------------------------------------------------------------
(* The operator signs in; people sign up *)

begin_sign_in(r) == Admit(r, Request("sign_in", Operator, Operator, "principal"))

\* Lookup by id; otherwise insert and fetch in one transaction.
ensure_local_operator(r) ==
    /\ At(r, "sign_in", "principal")
    /\ IF ~people[Operator].there /\ NameTaken(Operator, DefaultCompany)
       THEN Ends(r) /\ signInFailed' = TRUE /\ UNCHANGED people
       ELSE /\ people' = IF people[Operator].there THEN people
                         ELSE [people EXCEPT ![Operator] =
                                 [NoPerson EXCEPT !.there = TRUE, !.ws = DefaultCompany]]
            /\ requests' = [requests EXCEPT ![r].at = "company", ![r].to = people'[Operator].ws]
            /\ UNCHANGED signInFailed
    /\ UNCHANGED <<companies, companyMembers, signedIn, admitted, wsFaults, unaudited, abandoned>>

\* The first statement: INSERT ... ON CONFLICT DO NOTHING.
default_company_insert(r) ==
    LET w == requests[r].to IN
    /\ At(r, "sign_in", "company")
    /\ companies' =
         IF IsCompany(w) \/ SlugTaken(w, Operator, "default")
         THEN companies
         ELSE [companies EXCEPT ![w] =
                 [NoCompany EXCEPT !.there = TRUE, !.owner = Operator, !.slug = "default"]]
    /\ Goto(r, "owner")
    /\ UNCHANGED <<companyMembers, people, signedIn, admitted, wsFaults, unaudited, abandoned,
                   signInFailed>>

\* The second: the operator owns the company of its workspace.
default_company_owner(r) ==
    LET w == requests[r].to IN
    /\ At(r, "sign_in", "owner")
    /\ IF IsCompany(w) /\ ~companies[w].deleted
            /\ SlugTaken(w, Operator, companies[w].slug)
       THEN Ends(r) /\ signInFailed' = TRUE /\ UNCHANGED companies
       ELSE /\ companies' = IF IsCompany(w)
                            THEN [companies EXCEPT ![w].owner = Operator]
                            ELSE companies
            /\ Goto(r, "member")
            /\ UNCHANGED signInFailed
    /\ UNCHANGED <<companyMembers, people, signedIn, admitted, wsFaults, unaudited, abandoned>>

\* The third: a member row, which needs the company row it refers to.
default_company_member(r) ==
    LET w == requests[r].to IN
    /\ At(r, "sign_in", "member")
    /\ IF IsCompany(w)
       THEN /\ companyMembers' = companyMembers \cup {<<w, Operator>>}
            /\ signedIn' = TRUE
            /\ UNCHANGED signInFailed
       ELSE signInFailed' = TRUE /\ UNCHANGED <<companyMembers, signedIn>>
    /\ Ends(r)
    /\ UNCHANGED <<companies, people, admitted, wsFaults, unaudited, abandoned>>

ensure_default_company_for_operator(r) ==
    \/ default_company_insert(r)
    \/ default_company_owner(r)
    \/ default_company_member(r)

\* local_signup refuses the operator's name; create_human_user is one insert.
create_human_user(u) ==
    /\ ~people[u].there
    /\ people' = [people EXCEPT ![u] = [NoPerson EXCEPT !.there = TRUE, !.ws = Native(u)]]
    /\ UNCHANGED <<companies, companyMembers, requests, signedIn, admitted, wsFaults, unaudited,
                   abandoned, signInFailed>>

---------------------------------------------------------------------------
(* Company writes *)

FreeCompanies == {c \in WsCompanies \ {DefaultCompany} : ~companies[c].there}

\* Any active person; the slug is free among the account's companies.
begin_create_company(r) ==
    \E p \in WsHumans, slug \in Slugs :
        /\ FreeCompanies # {}
        /\ authenticate(p)
        /\ ~SlugTaken(0, p, slug)
        /\ Admit(r, [Request("create_company", p, 0, "insert") EXCEPT !.slug = slug])

\* The slug index refuses the second of two creations that both passed the check.
create_company_insert(r) ==
    LET actor == requests[r].actor
        slug == requests[r].slug
        c == Min(FreeCompanies)
    IN
    /\ At(r, "create_company", "insert")
    /\ FreeCompanies # {}
    /\ IF SlugTaken(c, actor, slug)
       THEN Ends(r) /\ UNCHANGED <<companies, unaudited>>
       ELSE /\ companies' = [companies EXCEPT ![c] =
                               [NoCompany EXCEPT !.there = TRUE, !.owner = actor, !.slug = slug]]
            /\ requests' = [requests EXCEPT ![r].at = "member", ![r].target = c]
            /\ unaudited' = unaudited \cup {<<"create_company", c>>}
    /\ UNCHANGED <<companyMembers, people, signedIn, admitted, wsFaults, abandoned, signInFailed>>

create_company_member(r) ==
    /\ At(r, "create_company", "member")
    /\ companyMembers' = companyMembers \cup {<<requests[r].target, requests[r].actor>>}
    /\ Goto(r, "audit")
    /\ UNCHANGED <<companies, people, signedIn, admitted, wsFaults, unaudited, abandoned, signInFailed>>

create_company(r) ==
    \/ begin_create_company(r)
    \/ create_company_insert(r)
    \/ create_company_member(r)

\* A member edits fields that decide neither access nor identity: name,
\* description, folder and switches, or the archive marker.
EditCompany(r) ==
    \/ \E p \in Principals, c \in WorkspaceIds :
          MemberOf(p, c) /\ Admit(r, Request("edit_company", p, c, "write"))
    \/ /\ At(r, "edit_company", "write")
       /\ Changed(r)
       /\ UNCHANGED <<companies, companyMembers, people, signedIn, admitted, wsFaults, abandoned,
                      signInFailed>>

update_company(r) == EditCompany(r)
archive_company(r) == EditCompany(r)
unarchive_company(r) == EditCompany(r)

\* Only the owner; a company already deleted is answered at once.
delete_company(r) ==
    \/ \E p \in Principals, c \in WorkspaceIds :
          /\ authenticate(p) /\ IsCompany(c)
          /\ companies[c].owner = p /\ ~companies[c].deleted
          /\ Admit(r, Request("delete_company", p, c, "write"))
    \/ /\ At(r, "delete_company", "write")
       /\ companies' = [companies EXCEPT ![requests[r].target].deleted = TRUE]
       /\ Changed(r)
       /\ UNCHANGED <<companyMembers, people, signedIn, admitted, wsFaults, abandoned, signInFailed>>


\* A member adds a principal that can already access the company's workspace.
add_company_member(r) ==
    \/ \E p, t \in Principals, c \in WorkspaceIds :
          /\ MemberOf(p, c)
          /\ get_principal(t) /\ principal_can_access_workspace(t, c)
          /\ Admit(r, [Request("add_company_member", p, t, "write") EXCEPT !.to = c])
    \/ /\ At(r, "add_company_member", "write")
       /\ companyMembers' = companyMembers \cup {<<requests[r].to, requests[r].target>>}
       /\ Changed(r)
       /\ UNCHANGED <<companies, people, signedIn, admitted, wsFaults, abandoned, signInFailed>>

\* A member removes anyone but the owner, whose id was read with the checks.
remove_company_member(r) ==
    \/ \E p, t \in Principals, c \in WorkspaceIds :
          /\ MemberOf(p, c) /\ people[t].there /\ companies[c].owner # t
          /\ Admit(r, [Request("remove_company_member", p, t, "write") EXCEPT !.to = c])
    \/ /\ At(r, "remove_company_member", "write")
       /\ companyMembers' = companyMembers \ {<<requests[r].to, requests[r].target>>}
       /\ Changed(r)
       /\ UNCHANGED <<companies, people, signedIn, admitted, wsFaults, abandoned, signInFailed>>

---------------------------------------------------------------------------
(* Principal writes *)

FreeAgents == {a \in WsAgents : ~people[a].there}

\* A person with access to the workspace; the name index decides the insert.
create_agent(r) ==
    \/ \E p \in WsHumans, w \in WorkspaceIds :
          /\ FreeAgents # {}
          /\ authenticate(p) /\ principal_can_access_workspace(p, w)
          /\ Admit(r, [Request("create_agent", p, 0, "write") EXCEPT !.to = w])
    \/ LET a == Min(FreeAgents) IN
       /\ At(r, "create_agent", "write")
       /\ FreeAgents # {}
       /\ IF NameTaken(a, requests[r].to)
          THEN Ends(r) /\ UNCHANGED <<people, unaudited>>
          ELSE /\ people' = [people EXCEPT ![a] =
                               [NoPerson EXCEPT !.there = TRUE, !.ws = requests[r].to]]
               /\ requests' = [requests EXCEPT ![r].at = "audit", ![r].target = a]
               /\ unaudited' = unaudited \cup {<<"create_agent", a>>}
       /\ UNCHANGED <<companies, companyMembers, signedIn, admitted, wsFaults, abandoned, signInFailed>>

\* A fresh secret replaces the hash, whatever happened to the agent meanwhile;
\* which secret it is decides nothing here.
rotate_agent_secret(r) ==
    \/ \E p \in WsHumans, a \in WsAgents :
          /\ authenticate(p) /\ get_principal(a)
          /\ principal_can_access_workspace(p, people[a].ws)
          /\ Admit(r, Request("rotate_agent_secret", p, a, "write"))
    \/ /\ At(r, "rotate_agent_secret", "write")
       /\ Changed(r)
       /\ UNCHANGED <<companies, companyMembers, people, signedIn, admitted, wsFaults, abandoned, signInFailed>>

\* disable_principal takes one principal, batch_disable_agents several agents
\* one after the other and always soft-deletes.
begin_deactivation(r) ==
    \E p \in WsHumans :
        /\ authenticate(p)
        /\ \/ \E t \in {q \in Principals : people[q].there} :
                Admit(r, [Request("disable_principal", p, 0, "tx")
                            EXCEPT !.home = people[p].ws, !.left = {t}])
           \/ \E ts \in SUBSET {a \in WsAgents : people[a].there} :
                /\ ts # {}
                /\ Admit(r, [Request("soft_delete_principal", p, 0, "tx")
                               EXCEPT !.home = people[p].ws, !.left = ts])

\* deleted_at = COALESCE($1, deleted_at): disabling never brings a row back.
Deactivated(row, soft) == [row EXCEPT !.disabled = TRUE, !.deleted = soft \/ @]

\* One transaction, the row locked; a refusal moves on to the next agent.
deactivate_principal(r) ==
    \E t \in requests[r].left :
        LET soft == requests[r].op = "soft_delete_principal"
            allowed == workspace_access(requests[r].actor, requests[r].home, people[t].ws)
            left == requests[r].left \ {t}
        IN
        /\ requests[r].at = "tx"
        /\ people' = IF allowed THEN [people EXCEPT ![t] = Deactivated(@, soft)] ELSE people
        /\ requests' = IF left = {} THEN [requests EXCEPT ![r] = NoRequest]
                       ELSE [requests EXCEPT ![r].left = left]
        /\ UNCHANGED <<companies, companyMembers, signedIn, admitted, wsFaults, unaudited, abandoned,
                       signInFailed>>

begin_migration(r) ==
    \E p \in WsHumans, t \in Principals, w \in WorkspaceIds :
        /\ authenticate(p) /\ people[t].there
        /\ Admit(r, [Request("migrate_principal_workspace", p, t, "move")
                       EXCEPT !.home = people[p].ws, !.to = w])

authorize(actor, home, current, target) ==
    workspace_access(actor, home, current) /\ workspace_access(actor, home, target)

\* One transaction with its audit record; the name index may refuse the move.
migrate_principal_workspace(r) ==
    LET t == requests[r].target
        w == requests[r].to
    IN
    /\ At(r, "migrate_principal_workspace", "move")
    /\ people' =
         IF /\ authorize(requests[r].actor, requests[r].home, people[t].ws, w)
            /\ people[t].deleted \/ ~NameTaken(t, w)
         THEN [people EXCEPT ![t].ws = w]
         ELSE people
    /\ Ends(r)
    /\ UNCHANGED <<companies, companyMembers, signedIn, admitted, wsFaults, unaudited, abandoned,
                   signInFailed>>

---------------------------------------------------------------------------
(* The operator has signed in, the people have signed up and an agent may  *)
(* have been soft-deleted, or nothing is there yet.                        *)
WorkspacesInit ==
    /\ \/ /\ people = [p \in Principals |-> NoPerson]
          /\ companies = [c \in WorkspaceIds |-> NoCompany]
          /\ companyMembers = {}
          /\ signedIn = FALSE
       \/ /\ \E former \in {{}, {Min(WsAgents)}} :
                people = [p \in Principals |->
                  CASE p = Operator -> [NoPerson EXCEPT !.there = TRUE, !.ws = DefaultCompany]
                    [] p \in WsUsers -> [NoPerson EXCEPT !.there = TRUE, !.ws = Native(p)]
                    [] p \in former -> [there |-> TRUE, ws |-> DefaultCompany, disabled |-> TRUE,
                                        deleted |-> TRUE]
                    [] OTHER -> NoPerson]
          /\ companies = [c \in WorkspaceIds |->
                IF c = DefaultCompany
                THEN [NoCompany EXCEPT !.there = TRUE, !.owner = Operator, !.slug = "default"]
                ELSE NoCompany]
          /\ companyMembers = {<<DefaultCompany, Operator>>}
          /\ signedIn = TRUE
    /\ requests = [r \in WsRequests |-> NoRequest]
    /\ admitted = 0
    /\ wsFaults = 0
    /\ unaudited = {}
    /\ abandoned = {}
    /\ signInFailed = FALSE

WorkspacesNext ==
    \/ \E u \in WsUsers : create_human_user(u)
    \/ \E r \in WsRequests :
        \/ begin_sign_in(r)
        \/ ensure_local_operator(r)
        \/ ensure_default_company_for_operator(r)
        \/ create_company(r)
        \/ update_company(r)
        \/ archive_company(r)
        \/ unarchive_company(r)
        \/ delete_company(r)
        \/ add_company_member(r)
        \/ remove_company_member(r)
        \/ create_agent(r)
        \/ rotate_agent_secret(r)
        \/ begin_deactivation(r)
        \/ requests[r] # NoRequest /\ deactivate_principal(r)
        \/ begin_migration(r)
        \/ migrate_principal_workspace(r)
        \/ record_audit(r)
        \/ RequestDies(r)

---------------------------------------------------------------------------
WorkspacesTypeOK ==
    /\ companies \in [WorkspaceIds ->
         [there : BOOLEAN, owner : WsHumans \cup {0}, slug : Slugs \cup {""},
          deleted : BOOLEAN]]
    /\ companyMembers \subseteq WorkspaceIds \X Principals
    /\ people \in [Principals ->
         [there : BOOLEAN, ws : WorkspaceIds \cup {0}, disabled : BOOLEAN,
          deleted : BOOLEAN]]
    /\ admitted \in 0..MaxWsRequests /\ wsFaults \in 0..MaxWsFaults
    /\ abandoned \subseteq WorkspaceIds
    /\ signInFailed \in BOOLEAN /\ signedIn \in BOOLEAN

\* The queries that decide what a principal sees give the same answer: the
\* list of accessible workspaces, the check of a single one, the agents of the
\* bootstrap, the company routes and the conversation export.
ViewsAgree ==
    \A p \in Principals : get_principal(p) =>
        /\ accessible_workspace_ids(p)
             = {w \in WorkspaceIds : principal_can_access_workspace(p, w)}
        /\ list_accessible_agents(p)
             = UNION {list_agents_for_company(w) : w \in accessible_workspace_ids(p)}
        /\ \A w \in WorkspaceIds :
             require_conversation_export_access(p, w) = principal_can_access_workspace(p, w)
        /\ \A c \in WorkspaceIds : companies[c].there =>
             require_company_access(p, c) = principal_can_access_workspace(p, c)

\* Two accounts never reach each other's workspaces: whatever one person
\* creates, adds, moves or deletes, no workspace is open to two people.
AccountsAreIsolated ==
    \A p, q \in WsHumans : p # q /\ people[p].there /\ people[q].there =>
        accessible_workspace_ids(p) \cap accessible_workspace_ids(q) = {}

\* A committed change is missing from the audit log only while its request
\* still runs or when the request died before record_audit.
ChangesAreAudited ==
    Cardinality(unaudited) <=
        wsFaults + Cardinality({r \in WsRequests :
                                  requests[r] # NoRequest /\ requests[r].at \in {"audit", "member"}})

=============================================================================
