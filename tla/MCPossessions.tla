--------------------------- MODULE MCPossessions ---------------------------
(* Two characters with two inventory slots.  What they trade in is one kind *)
(* at a time; what can be sold sells for what it costs, a taro, and a DX    *)
(* costs two and is worth nothing before it is used.                        *)
EXTENDS Possessions, TLC

\* Nothing at all leaves taros to post, more than a purse holds.
Kinds1 == {{}, {"gumball"}, {"weapon"}, {"vehicle"}, {"hunter"}, {"racer"}, {"dx"}, {"crate"}}
Earned2 == [s \in Kinds1 |-> CASE s = {} -> 5
                            [] s = {"dx"} -> 3
                            [] s \in {{"hunter"}, {"crate"}} -> 1
                            [] OTHER -> 2]
Stacks2 == [k \in Kinds |-> IF k = "crate" THEN 0
                           ELSE IF k = "gumball" \/ k \in DOMAIN Started \cup Range(Started)
                           THEN 2 ELSE 1]
AllCost1 == [k \in Kinds |-> IF k = "dx" THEN 2 ELSE 1]
SomeSell1 == [k \in Kinds |-> IF k \in {"gumball", "vehicle", "crate", "hunter", "hunter on"}
                            THEN 1 ELSE 0]
\* A common gumball, and a rare vehicle for the others.
Loot2 == {[kind |-> "gumball", rarity |-> 1, gender |-> 0],
          [kind |-> "vehicle", rarity |-> 2, gender |-> 2]}
Same == [p \in Players |-> 1]
ACrate == <<"crate">>
Alike == Permutations(Players)
=============================================================================
