----------------------------- MODULE MCProgress -----------------------------
(* Errands for two quest items and two kills, two nano missions, and both   *)
(* at once.                                                                 *)
EXTENDS Progress

Plain == [mission |-> "none", next |-> "none", nano |-> 0, enemy |-> "none", kills |-> 0,
          item |-> "none", need |-> 0, atStart |-> 0, atEnd |-> 0, atFail |-> 0,
          timed |-> FALSE, fails |-> FALSE, instanced |-> FALSE, prize |-> 0, fm |-> 0]
With(rec, mission) == [rec EXCEPT !.mission = mission]
\* One errand brings a quest item along, two collect the same one, and one of
\* those is ended by its timer whatever it has.
Hunt == [Plain EXCEPT !.mission = "hunt", !.enemy = "mob", !.kills = 2, !.timed = TRUE,
                      !.fails = TRUE, !.prize = 1]
Fetch == [Plain EXCEPT !.mission = "fetch", !.enemy = "mob", !.item = "key", !.need = 2,
                       !.atEnd = -2, !.atFail = -1, !.instanced = TRUE, !.fails = TRUE,
                       !.prize = 1, !.fm = 1]
Carry == [Fetch EXCEPT !.mission = "carry", !.atStart = 1, !.atFail = -2]
Borrow == [Plain EXCEPT !.mission = "borrow", !.enemy = "mob", !.item = "key", !.need = 2,
                        !.atEnd = -1, !.timed = TRUE, !.prize = 1]
Tasks1 == {"hunt", "fetch", "carry", "borrow", "first", "second", "third"}
Missions1 == {"hunt", "fetch", "carry", "borrow", "two", "three"}
All == [t \in Tasks1 |->
  CASE t = "hunt" -> Hunt
    [] t = "fetch" -> Fetch
    [] t = "carry" -> Carry
    [] t = "borrow" -> Borrow
    [] t = "first" -> [Plain EXCEPT !.mission = "two", !.nano = 2, !.next = "second"]
    [] t = "second" -> [Plain EXCEPT !.mission = "two", !.nano = 2]
    [] t = "third" -> [Plain EXCEPT !.mission = "three", !.nano = 3, !.kills = 1, !.enemy = "mob"]]
Among(T) == [t \in T |-> All[t]]
Errands == Among({"hunt", "carry"})
Shared == Among({"fetch", "borrow"})
BothG == Among({"hunt", "fetch", "first", "second"})
Rise == Among({"first", "second", "third"})
Games1 == {Errands, Shared, BothG, Rise}
LastOf == [g \in Games |-> IF g = Rise THEN 3 ELSE IF g = BothG THEN 2 ELSE 1]
RaceIn == {Errands}
GiftsOf == [g \in Games |-> IF g = Rise THEN {2} ELSE {}]
NamedIn == [g \in Games |-> IF g = Rise THEN {2, 3} ELSE {}]
Costs == <<1, 1, 1>>
Limits == <<1, 2, 2>>
Quests == <<"first", "third", "none">>
=============================================================================
