---------------------------- MODULE MCMcpManager ----------------------------
(* Instances of McpManager for TLC. *)
EXTENDS McpManager, TLC

CONSTANTS a, b, t1, t2, k1, k2, c1, g1

\* a's first tool has a name of its own; the other three are one name to Pi, so
\* b collides with itself when it offers both tools, and with a's second tool.
MCToolKey == [p \in Server \X Tool |-> IF p = <<a, t1>> THEN k1 ELSE k2]

\* Both servers enabled.
BothOn == {[s \in Server |-> "on"]}

\* Configurations a reload may go between: a server enabled, disabled or removed.
AnyConfig == [Server -> {"on", "off", "absent"}]

\* Attempts for each server: two, or a single one for a.
Twice == [s \in Server |-> 2]
OnceForA == [s \in Server |-> IF s = a THEN 1 ELSE 2]
=============================================================================
