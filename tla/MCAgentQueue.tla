---------------------------- MODULE MCAgentQueue ----------------------------
(* Two requests of any type for AgentQueue, on a limit that one agent and  *)
(* one mail fill.                                                          *)
EXTENDS AgentQueue, TLC

TwoRequests == 1..2
TwoAgents   == 1..2

TwoNodes    == {"n1", "n2"}
TwoNodeList == [type \in Types |-> IF type \in {"launch", "ping"} THEN {"n1"} ELSE TwoNodes]

\* For liveness: one node, and a shutdown request that has nothing to do.
OneNode     == {"n1"}
OneNodeList == [type \in Types |-> IF type = "shutdown" THEN {} ELSE OneNode]
=============================================================================
