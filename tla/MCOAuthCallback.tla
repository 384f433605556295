---------------------------- MODULE MCOAuthCallback ----------------------------
(* Instances of OAuthCallback for TLC. *)
EXTENDS OAuthCallback, TLC

CONSTANTS f1, f2, f3, f4, s1, s2, p1, p2, c1

\* All flows but the third authorize one server.
MCServerOf == [f \in Flow |-> IF f = f3 THEN s2 ELSE s1]

\* Every flow waits for a state of its own, as startAuthEffect's randomHex gives it,
\* but for the fourth: it waits for the first one's, which the provider's state()
\* found in the store.
MCStateOf == [f \in Flow |-> IF f = f4 THEN f1 ELSE f]

\* The third flow asks for a port of its own; addresses are their ports.
MCAddressOf == [f \in Flow |-> IF f = f3 THEN p2 ELSE p1]
MCPortOf == [a \in Address |-> a]
MCPathOf == [a \in Address |-> "/mcp/oauth/callback"]
MCPath == {"/mcp/oauth/callback"}
=============================================================================
