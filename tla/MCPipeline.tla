----------------------------- MODULE MCPipeline -----------------------------
(* Small instances of Pipeline for TLC.                                    *)
EXTENDS Pipeline

CONSTANTS s1, s2, g1, g2

\* Commands 1 and 2 belong to one conversation and agent, 3 to another.
MCSessionOf == [c \in Commands |-> IF c = 3 THEN s2 ELSE s1]
MCAgentOf == [s \in Sessions |-> IF s = s2 THEN g2 ELSE g1]
=============================================================================
