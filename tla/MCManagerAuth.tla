---------------------------- MODULE MCManagerAuth ----------------------------
(* Instances of ManagerAuth for TLC. *)
EXTENDS ManagerAuth, TLC

CONSTANTS l1, l2, c1

\* Two logins and an attempt, or one of them and a removal or a shutdown.
Scenarios == {{l1, l2, c1}, {l1, l2, User}, {l1, c1, User}, {l2, c1, User}}

Symmetry == Permutations({l1, l2})
=============================================================================
