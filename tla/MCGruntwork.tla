---------------------------- MODULE MCGruntwork ----------------------------
(* A talker and a mob with one follower in the tables; four more ids.       *)
EXTENDS Gruntwork, TLC

Stands(kind, leader, members) ==
  [Made(kind, 0, Open, "home") EXCEPT !.leader = leader, !.members = members]
Tables1 == (1 :> Stands("npc", 0, <<>>)) @@ (2 :> Stands("mob", 2, <<20>>))
           @@ (20 :> Stands("mob", 2, <<>>))
Statics1 == {1, 2}
Poses1 == {<<"away", 90>>}
=============================================================================
