------------------------------- MODULE MCMobs -------------------------------
(* Two players and two mobs: a group of two, or a boss and what its death    *)
(* summons.                                                                  *)
EXTENDS Mobs

CONSTANTS m1, m2

Group == [placed |-> {m1, m2}, leader |-> [m \in MobIds |-> m1],
          heirs |-> [m \in MobIds |-> {}]]
Boss == [placed |-> {m1}, leader |-> [m \in MobIds |-> NoMob],
         heirs |-> [m \in MobIds |-> {m2} \ {m}]]
MCTroops == {Group, Boss}
MCCasts == [m \in MobIds |-> IF m = m1 THEN {"corruption", "eruption"} ELSE {}]
=============================================================================
