------------------------------- MODULE MCAccess -------------------------------
(* A chief and two others whom it may make moderators.                     *)
EXTENDS Access, TLC
CONSTANTS chief, a, b, l1, l2
MCLevels == {1, 30, 99}
Symmetric == Permutations({a, b}) \cup Permutations({l1, l2})
=============================================================================
