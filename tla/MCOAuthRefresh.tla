----------------------------- MODULE MCOAuthRefresh -----------------------------
(* Two processes: in a, a provider with two flows and a newer one that takes its *)
(* fence; in b, a provider with one flow.                                        *)
EXTENDS OAuthRefresh

CONSTANTS a, b, p1, p2, q, f1, f2, g

MCHomeOf == [p \in Provider |-> IF p = q THEN b ELSE a]
MCProviderOf == [f \in Flow |-> IF f = g THEN q ELSE p1]
=============================================================================
