--------------------------- MODULE MCSessionStore ---------------------------
(* Small instance of SessionStore for TLC: an agent that moves between the *)
(* gateway and a device, and one that is bound to a harness account.       *)
EXTENDS SessionStore

CONSTANTS s1, g1, g2

MCSessionOf == [c \in Commands |-> s1]
MCAgentOf == [s \in Sessions |-> g1]
=============================================================================
