---------------------------- MODULE MCSubscriptions ----------------------------
(* Instances of Subscriptions for TLC. *)
EXTENDS Subscriptions, TLC

CONSTANTS s1, s2, s3, u1, u2

Symmetry == Permutations({s1, s2, s3}) \cup Permutations({u1, u2})
=============================================================================
