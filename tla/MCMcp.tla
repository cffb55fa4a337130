------------------------------- MODULE MCMcp -------------------------------
(* The MCP gateway with its front ends, for TLC.                            *)
EXTENDS McpSessions

\* Profile p has both servers and loses the second one; q has only the second.
MCConfigs ==
    <<[p \in {"p", "q"} |-> IF p = "p" THEN {1, 2} ELSE {2}],
      [p \in {"p", "q"} |-> IF p = "p" THEN {1} ELSE {2}]>>
\* The order of the names is not the order of the servers.
MCPrefix == <<2, 1>>
MCTools == <<{1}, {1, 2}>>
MCEnabled == <<{1}, {1}>>
============================================================================
