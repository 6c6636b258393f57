--------------------------- MODULE MCEventRouter ---------------------------
(* Instances of EventRouter: a group of two agents and a human, and a      *)
(* direct conversation of the human with one agent.                        *)
EXTENDS EventRouter

CONSTANTS a1, a2, human, n1

Plain == [sender |-> human, human |-> TRUE, at |-> {}, for |-> {}, flow |-> NoFlow]

\* A step that no participant of the task is there to take.
Orphaned == [Plain EXCEPT !.flow = [kind |-> "task.ready_for_next_step", targets |-> {},
                                    target_role |-> "", next_role |-> "reviewer"]]

\* The first agent reports to the owner of the task.
Feedback == [sender |-> a1, human |-> FALSE, at |-> {}, for |-> {},
             flow |-> [kind |-> "task.feedback", targets |-> {}, target_role |-> "",
                       next_role |-> ""]]

MCMessages == {Plain, Orphaned, Feedback, [Plain EXCEPT !.at = {a1, a2}],
               [Plain EXCEPT !.for = {human}]}

\* The second agent owns the task, the first coordinates.
Group == [members |-> {a1, a2}, direct |-> FALSE, untagged |-> "coordinator_only",
          mode |-> [a \in {a1, a2} |-> "mentioned_only"], coordinator |-> a1,
          role |-> [a \in {a1, a2} |-> {}], owner |-> a2, known |-> TRUE,
          blocked |-> {}]

\* Another policy without the coordinator; a device revoked; a direct chat.
MCSettings == {Group,
               [Group EXCEPT !.members = {a2}, !.untagged = "mentioned_only",
                             !.mode[a2] = "all_messages"],
               [Group EXCEPT !.blocked = {a1}],
               [Group EXCEPT !.members = {a1}, !.direct = TRUE, !.coordinator = Nobody,
                             !.untagged = "mentioned_only", !.owner = Nobody, !.known = FALSE]}
=============================================================================
