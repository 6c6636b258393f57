--------------------------- MODULE RoutingPolicy ---------------------------
(* Which agents of a conversation a message wakes: the planning half of    *)
(* the router.  A plan is the set of members to trigger; the reasons and   *)
(* policy snapshots the code records with it are left out.                 *)
(*                                                                         *)
(* A message m has a sender, says whether that is a human member (human),  *)
(* which agents its text mentions (at; "@all" is every agent), whom        *)
(* turn_for or request_review_by name (for), and its workflow metadata     *)
(* (flow, or NoFlow).  A setting s is what an administrator configures:    *)
(* the agent members, each one's auto_mode, whether the conversation is    *)
(* direct, its coordinator and untagged_human_mode, and the workflow task  *)
(* (roles of participants, the canonical owner; known tells if it exists). *)
EXTENDS FiniteSets

CONSTANTS Agents, Nobody, NoFlow

ASSUME NobodyAssumption == Nobody \notin Agents

AutoMode == {"all_messages", "mentioned_only", "manual"}
UntaggedHumanMode == {"mentioned_only", "coordinator_only", "all_agents"}

Setting == [members : SUBSET Agents, direct : BOOLEAN, untagged : UntaggedHumanMode,
            mode : [Agents -> AutoMode], coordinator : Agents \cup {Nobody},
            role : [Agents -> SUBSET STRING], owner : Agents \cup {Nobody},
            known : BOOLEAN, blocked : SUBSET Agents]

\* An agent listens to everything in a direct conversation.
auto_mode(s, a) == IF s.direct THEN "all_messages" ELSE s.mode[a]

evaluate_mention(m, a) == a \in m.at \cup m.for

evaluate_trigger(mode, m, a) ==
    \/ mode = "all_messages"
    \/ mode = "mentioned_only" /\ evaluate_mention(m, a)

active_agent_ids(m, M) == M \ {m.sender}

active_coordinator(m, M, s) == {s.coordinator} \cap active_agent_ids(m, M)

policy_fallback_plan(m, M, s) == {a \in M : evaluate_trigger(auto_mode(s, a), m, a)}

\* Agents addressed by name: the agent's own mode does not matter.
explicit_targets(m, M) == {a \in M : evaluate_mention(m, a)}

workflow_target_roles(flow) ==
    IF flow.target_role # "" THEN {flow.target_role}
    ELSE CASE flow.kind = "task.ready_for_next_step" -> {flow.next_role} \ {""}
           [] flow.kind \in {"task.feedback", "task.cleared", "external_check.failed"} ->
                {"owner", "coordinator"}
           [] flow.kind = "approval_required" -> {"approver", "coordinator"}
           [] flow.kind \in {"task.started", "task.blocked", "task.idle",
                             "external_check.passed", "human_input_needed"} -> {"coordinator"}
           [] OTHER -> {}

\* The assignee replaces whatever owner participants the task has.
task_roles(s, a) ==
    (s.role[a] \ {"owner"}) \cup (IF s.owner = a THEN {"owner"} ELSE {})

\* Wrong version: no coordinator fallback when no participant is active.
WorkflowWithoutFallback(m, M, s) ==
    LET named == m.flow.targets \cap active_agent_ids(m, M)
        roles == workflow_target_roles(m.flow)
    IN  IF named # {} THEN named
        ELSE {a \in active_agent_ids(m, M) : s.known /\ task_roles(s, a) \cap roles # {}}

workflow_target_plan(m, M, s) ==
    LET named == m.flow.targets \cap active_agent_ids(m, M)
        roles == workflow_target_roles(m.flow)
        holders == {a \in active_agent_ids(m, M) : task_roles(s, a) \cap roles # {}}
        coordinator == active_coordinator(m, M, s)
        targets == IF s.known
                   THEN holders \cup (IF "coordinator" \in roles THEN coordinator ELSE {})
                   ELSE {}
    IN  IF named # {} THEN named
        ELSE IF targets # {} THEN targets
        ELSE coordinator

untagged_human_plan(m, M, s) ==
    CASE s.untagged = "all_agents" -> active_agent_ids(m, M)
      [] s.untagged = "coordinator_only" /\ active_coordinator(m, M, s) # {} ->
           active_coordinator(m, M, s)
      [] OTHER -> policy_fallback_plan(m, M, s)

\* dm: the router believes the conversation to be direct.
plan_routes(m, M, s, dm) ==
    IF explicit_targets(m, M) # {} THEN explicit_targets(m, M)
    ELSE IF m.for # {} THEN {}
    ELSE IF ~dm /\ m.flow # NoFlow THEN workflow_target_plan(m, M, s)
    ELSE IF ~dm /\ m.human THEN untagged_human_plan(m, M, s)
    ELSE policy_fallback_plan(m, M, s)
=============================================================================
