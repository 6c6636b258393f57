-------------------------- MODULE CommandLifecycle --------------------------
(***************************************************************************)
(* What the message pipeline promises of a routed command, without leases, *)
(* epochs, heartbeats or loops: it waits, runs at most MaxAttempts times,  *)
(* and ends closed or dead for good.                                       *)
(***************************************************************************)
EXTENDS Naturals

CONSTANTS Commands, MaxAttempts

VARIABLES
    life,   \* where each command is in its life
    tries   \* how often each command was started

lifeVars == <<life, tries>>

Init ==
    /\ life = [c \in Commands |-> "none"]
    /\ tries = [c \in Commands |-> 0]

Moves(S, from, to) ==
    /\ \A c \in S : life[c] \in from
    /\ life' = [c \in Commands |-> IF c \in S THEN to ELSE life[c]]

Accept(c) == Moves({c}, {"none"}, "waiting") /\ UNCHANGED tries

\* A batch starts as one.
Start(B) ==
    /\ \A c \in B : tries[c] < MaxAttempts
    /\ Moves(B, {"waiting"}, "running")
    /\ tries' = [c \in Commands |-> IF c \in B THEN tries[c] + 1 ELSE tries[c]]

\* The attempt failed or its lease was lost, and another is allowed.
Requeue(c) ==
    /\ tries[c] < MaxAttempts
    /\ Moves({c}, {"running"}, "waiting") /\ UNCHANGED tries

Answer(c) == Moves({c}, {"running"}, "answered") /\ UNCHANGED tries

\* An attempt whose success could not be recorded may still be closed.
Close(c) == Moves({c}, {"running", "answered"}, "closed") /\ UNCHANGED tries

GiveUp(S) == Moves(S, {"waiting", "running"}, "dead") /\ UNCHANGED tries

Next ==
    \/ \E c \in Commands : Accept(c) \/ Requeue(c) \/ Answer(c) \/ Close(c)
    \/ \E S \in SUBSET Commands : Start(S) \/ GiveUp(S)

Spec == Init /\ [][Next]_lifeVars
=============================================================================
