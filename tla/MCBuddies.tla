------------------------------ MODULE MCBuddies ------------------------------
(* Four players, whose lists are too short for all the others.             *)
EXTENDS Buddies, TLC

Alike == Permutations(Chars)
=============================================================================
