----------------------------- MODULE MCChunking -----------------------------
(* Small worlds for TLC.  `open' is a strip of three cells in the overworld  *)
(* where two players, a mob and an egg meet, pass and lose sight of each     *)
(* other; `lair' adds a map whose NPCs are copied into a private instance.   *)
EXTENDS Chunking, TLC

CONSTANTS p1, p2, m1, g1

\* A strip: a cell sees its neighbours and itself.
MCAdjacent == [x \in Cells |-> {y \in Cells : y - x \in -1..1}]

MCOpenSpawn == m1 :> <<2, "overworld">> @@ g1 :> <<1, "overworld">>

MCBaseMap == [i \in Private |-> "lair"]
MCOwner == [i \in Private |-> p1]
MCLairSpawn == m1 :> <<1, "lair">> @@ g1 :> <<1, "lair">>
=============================================================================
