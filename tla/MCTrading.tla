----------------------------- MODULE MCTrading -----------------------------
(* Two players who trade items and taros.                                  *)
EXTENDS Trading, TLC

Symmetric == Permutations(Players)

Items2 == [k \in Items |-> 2]
=============================================================================
