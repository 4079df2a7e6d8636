------------------------------ MODULE Progress ------------------------------
(***************************************************************************)
(* How a player gets on: its missions (Missions.cpp) and its nanos         *)
(* (Nanos.cpp, Player::step).  Killing, earning Fusion Matter, ending a    *)
(* task, starting the nano mission and receiving the nano call each other  *)
(* in the middle of their work, and clients, timers, mobs and warps all    *)
(* set them off.                                                           *)
(*                                                                         *)
(* One player is modelled.  All of its progress is written in one          *)
(* transaction, so a crash takes it back to an earlier state as a whole,   *)
(* and only the login that follows is modelled (Relog).                    *)
(***************************************************************************)
EXTENDS Integers, FiniteSets

CONSTANTS
  Games,        \* some of the mission data at a time: functions from tasks to
                \*   [mission, next, nano, enemy, kills, item, need, atStart,
                \*    atEnd, atFail, timed, fails, instanced, prize, fm]
  LastLevel,    \* 36, where there are no more nano missions, or earlier
                \* where the game has none
  Tasks, Items, Enemies, Missions, Nanos,
  NLog,         \* ACTIVE_MISSION_COUNT
  NInven,       \* AINVEN_COUNT
  NEquip,       \* 3
  FMLimit,      \* AvatarGrowth[level].m_iFMLimit
  NanoCost,     \* AvatarGrowth[level].m_iReqBlob_NanoCreate
  NanoQuest,    \* AvatarGrowth[level].m_iNanoQuestTaskID
  FirstLevel, TopLevel,   \* the level of the Academy's last nano, and 36
  MaxStamina,   \* 150
  DrainActive, DrainPassive,  \* batteryUse of the two kinds of skills
  Gifts,        \* bound: what administrators give, in each of Games
  Named,        \* bound: nanos that clients equip and tune, in each of Games
  Zones,        \* bound: those of Games where EPData has a race
  MaxRings,     \* EPInfo::maxPods
  MaxJunk       \* bound: other things in the inventory

Levels == FirstLevel..TopLevel
Log == 1..NLog
Skills == {"none", "active", "passive"}
Idle == [task |-> "none", left |-> 0]
NoRace == -1   \* no entry in EPRaces
NoNano == [skill |-> "none", stamina |-> 0]

ASSUME DataIsSound ==
  /\ {NInven, NEquip, MaxStamina, DrainActive, DrainPassive, MaxRings, MaxJunk} \subseteq Nat
  /\ {FirstLevel, TopLevel} \subseteq Nat /\ NLog \in Nat \ {0}
  /\ {FMLimit, NanoCost} \subseteq [Levels -> Nat] /\ NanoQuest \in [Levels -> Tasks \cup {"none"}]
  /\ Nanos \subseteq Levels \ {FirstLevel} /\ MaxJunk <= NInven
  /\ Zones \subseteq Games /\ IsFiniteSet(Tasks)
  /\ "none" \notin Tasks \cup Items \cup Enemies
  /\ LastLevel \in [Games -> Levels] /\ {Gifts, Named} \subseteq [Games -> SUBSET Nanos]
  /\ \A g \in Games : DOMAIN g \subseteq Tasks /\ g \in [DOMAIN g -> [mission : Missions, next : Tasks \cup {"none"},
       nano : Nanos \cup {0}, enemy : Enemies \cup {"none"}, kills : Nat,
       item : Items \cup {"none"}, need : Nat, atStart : Int, atEnd : Int, atFail : Int,
       timed : BOOLEAN, fails : BOOLEAN, instanced : BOOLEAN, prize : {0, 1}, fm : Nat]]

\* The limit of Fusion Matter grows with the level.
ASSUME LimitsGrow == \A l, m \in Levels : l <= m => FMLimit[l] <= FMLimit[m]

\* The tasks of a mission follow each other, those of a nano mission all name
\* its nano, and one task ends the mission; each level below the last has a
\* nano mission.
ASSUME MissionsAreChains == \A g \in Games :
  /\ \A t \in DOMAIN g : g[t].next # "none" =>
        g[t].next \in DOMAIN g /\ g[g[t].next].nano = g[t].nano
  /\ \A s, t \in DOMAIN g :
        g[s].next = "none" /\ g[t].next = "none" /\ g[s].mission = g[t].mission => s = t
  /\ \A l \in Levels : l < LastLevel[g] => NanoQuest[l] \in DOMAIN g /\ g[NanoQuest[l]].nano # 0

\* A task that collects an item gives no more of it at the start than it needs
\* and takes away at the end; other tasks collect as many of that item, or
\* only take it away.
ASSUME QuestItemsAreTaken == \A g \in Games : \A t \in DOMAIN g : g[t].need # 0 =>
  /\ g[t].item # "none" /\ g[t].atStart <= g[t].need
  /\ \A n \in {g[t].atEnd, g[t].atFail} : n <= 0 /\ g[t].atStart + n <= 0
  /\ \A s \in DOMAIN g \ {t} : g[s].item = g[t].item =>
       /\ g[s].need \in {0, g[t].need}
       /\ \A n \in {g[t].atStart, g[s].atStart, g[s].atEnd, g[s].atFail} : n <= 0

VARIABLES
  game,  \* Missions::Tasks and Rewards; never changes
  plr    \* the Player

vars == <<game, plr>>

-----------------------------------------------------------------------------
(* Missions.cpp                                                            *)

Runs(w, t) == \E i \in Log : w.log[i].task = t
Free(w) == {i \in Log : w.log[i] = Idle}
Least(S) == CHOOSE i \in S : \A k \in S : i <= k
Prizes(w) == UNION {{t} \X (1..w.prizes[t]) : t \in DOMAIN game}
Room(w) == NInven - w.junk - Cardinality(Prizes(w))

\* dropQuestItem(), which also takes items away, and destroys what is used up.
DropQuestItem(w, item, n) ==
  IF item = "none" THEN w
  ELSE [w EXCEPT !.items[item] = IF @ + n < 0 THEN 0 ELSE @ + n]

\* startTask(): the nano mission comes first, and what was there moves.
\* Clients stop at fewer missions than the log holds, or there would be no
\* place to move to.
StartTask(w, t) ==
  LET to == Least(Free(w))
      moved == IF game[t].nano # 0 /\ w.log[1] # Idle
               THEN [w EXCEPT !.log[to] = w.log[1], !.log[1] = Idle] ELSE w
  IN IF game[t].mission \in w.done THEN w
     ELSE [moved EXCEPT !.log[Least(Free(moved))] = [task |-> t, left |-> game[t].kills]]

\* Mutant: no lower cap.
FMUncapped(w) == w
FMCapped(w) == [w EXCEPT !.fm = IF @ > FMLimit[w.level] THEN FMLimit[w.level] ELSE @]

\* updateFusionMatter(): enough Fusion Matter starts the nano mission of the
\* level, unless a task of one runs; the first one not before the player
\* has left the Academy for the Past.
UpdateFusionMatter(w) ==
  LET v == FMCapped(w)
  IN IF \/ w.level >= LastLevel[game]
        \/ w.level = FirstLevel /\ ~ w.past
        \/ v.fm < NanoCost[w.level]
        \/ \E i \in Log : w.log[i] # Idle /\ game[w.log[i].task].nano # 0
     THEN v ELSE StartTask(v, NanoQuest[w.level])

GainFM(w, n) == UpdateFusionMatter([w EXCEPT !.fm = @ + n])

Unsummoned(w) == [w EXCEPT !.active = 0]

\* The level that comes with a nano, and the price, which is that of the
\* level before.
Raised(w, n, spend) ==
  LET v == [w EXCEPT !.level = IF n < @ THEN @ ELSE n]
      cost == NanoCost[v.level - 1]
  IN IF spend THEN UpdateFusionMatter([v EXCEPT !.fm = IF @ < cost THEN 0 ELSE @ - cost]) ELSE v

Received(w, n) == [w EXCEPT !.nanos[n] = [skill |-> "none", stamina |-> MaxStamina],
                            !.owned = @ \cup {n}]

\* Mutant: the old nano stays out.
AddNanoAnyway(w, n, spend) == Received(Raised(w, n, spend), n)

\* addNano(), also of a nano that the player has already.
AddNano(w, n, spend) ==
  LET v == Raised(w, n, spend)
  IN Received(IF v.active = n THEN Unsummoned(v) ELSE v, n)

\* giveMissionReward(), where there is room for it.
GiveMissionReward(w, t) ==
  LET v == IF game[t].fm + game[t].prize = 0 THEN w ELSE GainFM(w, game[t].fm)
  IN [v EXCEPT !.prizes[t] = @ + game[t].prize]

Stopped(w, t) == [w EXCEPT !.log = [i \in Log |-> IF @[i].task = t THEN Idle ELSE @[i]]]

\* Mutant: the mission may be had again.
EndTaskForgotten(w, t) ==
  LET v == DropQuestItem(Stopped(GiveMissionReward(w, t), t), game[t].item, game[t].atEnd)
  IN IF game[t].next # "none" THEN [v EXCEPT !.due = game[t].next]
     ELSE IF game[t].nano = 0 THEN v ELSE AddNano(v, game[t].nano, TRUE)

\* endTask(), after its early returns: the reward first, while the task
\* still runs.
EndTask(w, t) ==
  LET v == DropQuestItem(Stopped(GiveMissionReward(w, t), t), game[t].item, game[t].atEnd)
      won == [v EXCEPT !.done = @ \cup {game[t].mission}]
  IN IF game[t].next # "none" THEN [v EXCEPT !.due = game[t].next]
     ELSE IF game[t].nano = 0 THEN won ELSE AddNano(won, game[t].nano, TRUE)

\* An inventory without room fails it and leaves nothing behind.
MayEnd(w, t) == Runs(w, t) /\ game[t].prize <= Room(w)

\* quitTask(): a player that gives up loses the quest items.
QuitTask(w, t, manual) ==
  LET v == Stopped(w, t)
  IN IF ~ manual THEN DropQuestItem(v, game[t].item, game[t].atFail)
     ELSE IF game[t].item = "none" THEN v ELSE [v EXCEPT !.items[game[t].item] = 0]

QuitPlace(w, i, tasks, manual) ==
  IF w.log[i].task \in tasks THEN QuitTask(w, w.log[i].task, manual) ELSE w

QuitAll(w, tasks, manual) ==
  LET quit[i \in 0..NLog] == IF i = 0 THEN w ELSE QuitPlace(quit[i - 1], i, tasks, manual)
  IN quit[NLog]

\* failInstancedMissions()
FailInstanced(w) ==
  QuitAll(w, {t \in DOMAIN game : game[t].instanced /\ game[t].fails}, FALSE)

\* isQuestItemFull()
Full(w, t) == w.items[game[t].item] = game[t].need

\* Mutant: quest items drop whether they are needed or not.
NeedsAny(w, t) == game[t].need # 0
NeedsMore(w, t) == game[t].need # 0 /\ ~ Full(w, t)

\* mobKilled() at place i of the log, with luck for the items of some tasks;
\* a task that now has its items is ended at once.
MobKilledFor(w, i, mob, lucky) ==
  LET t == w.log[i].task
  IN IF t = "none" THEN w ELSE IF game[t].enemy # mob THEN w
     ELSE LET hit == [w EXCEPT !.log[i].left = IF @ > 0 THEN @ - 1 ELSE 0]
              got == IF NeedsMore(hit, t) /\ t \in lucky
                     THEN DropQuestItem(hit, game[t].item, 1) ELSE hit
          IN IF game[t].need # 0 /\ Full(got, t) /\ MayEnd(got, t) THEN EndTask(got, t)
             ELSE got

\* The log is read as it changes.
MobKilled(w, mob, lucky) ==
  LET counted[i \in 0..NLog] == IF i = 0 THEN w ELSE MobKilledFor(counted[i - 1], i, mob, lucky)
  IN counted[NLog]

-----------------------------------------------------------------------------
(* What sets it off.                                                       *)

Becomes(w) == plr' = w /\ UNCHANGED game

\* onDeath(): what the mob drops comes before what the missions count.
KillMob(mob, fm, junk, lucky) ==
  /\ plr.junk + junk <= MaxJunk /\ junk <= Room(plr)
  /\ Becomes(MobKilled([(IF fm = 0 THEN plr ELSE GainFM(plr, fm)) EXCEPT !.junk = @ + junk],
                       mob, lucky))

(* Racing.cpp                                                              *)

\* racingStart(), in a zone with races; another one starts over.
RaceStart == game \in Zones /\ Becomes([plr EXCEPT !.rings = 0])

\* racingGetPod(), of a ring that is not collected yet.
RaceGetPod == plr.rings \in 0..(MaxRings - 1) /\ Becomes([plr EXCEPT !.rings = @ + 1])

\* racingCancel() warps to a respawn point, not to another instance.
RaceCancel == plr.rings # NoRace /\ Becomes(FailInstanced([plr EXCEPT !.rings = NoRace]))

\* racingEnd(): Fusion Matter for the rings, then an item for the rank if
\* there is one and what the Fusion Matter brought leaves room for it.
RaceEnd(reward) ==
  LET v == [GainFM(plr, plr.rings) EXCEPT !.rings = NoRace]
      has == IF Room(v) > 0 THEN reward ELSE 0
  IN plr.rings # NoRace /\ v.junk + has <= MaxJunk /\ Becomes([v EXCEPT !.junk = @ + has])

ThrowAway == plr.junk > 0 /\ Becomes([plr EXCEPT !.junk = @ - 1])

\* taskStart() of what a mission begins with, or of the task that follows
\* the one that has ended.
First(t) == game[t].nano = 0 /\ \A s \in DOMAIN game : game[s].next # t
TaskStart(t) ==
  /\ ~ Runs(plr, t) /\ game[t].mission \notin plr.done
  /\ \/ First(t) /\ Cardinality(Free(plr)) > 2
     \/ plr.due = t /\ Free(plr) # {}
  /\ Becomes(DropQuestItem([StartTask(plr, t) EXCEPT !.due = IF @ = t THEN "none" ELSE @],
                           game[t].item, game[t].atStart))

\* taskEnd(), which clients ask for when there is nothing left to do.
TaskEnd(t) ==
  /\ \A i \in Log : plr.log[i].task = t => plr.log[i].left = 0
  /\ game[t].need # 0 => Full(plr, t)
  /\ MayEnd(plr, t)
  /\ Becomes(EndTask(plr, t))

\* taskEnd() when the time has run out: a task that cannot fail is ended all
\* the same, and one whose mobs have all been killed.
TaskTimeout(t) ==
  /\ Runs(plr, t) /\ game[t].timed
  /\ LET killed == /\ game[t].kills # 0
                   /\ \A i \in Log : plr.log[i].task = t => plr.log[i].left = 0
     IN IF game[t].fails /\ ~ killed THEN Becomes(QuitTask(plr, t, FALSE))
        ELSE MayEnd(plr, t) /\ Becomes(EndTask(plr, t))

TaskStop(t) == Runs(plr, t) /\ Becomes(QuitTask(plr, t, TRUE))

\* sendPlayerTo(), handleWarp(): a race ends when its zone is left.
Warp(leaves) ==
  Becomes(FailInstanced(IF leaves THEN [plr EXCEPT !.rings = NoRace] ELSE plr))

\* changePlayerGuide() away from the guide of the Academy.
ChangePlayerGuide ==
  /\ ~ plr.past
  /\ Becomes(UpdateFusionMatter(QuitAll([plr EXCEPT !.past = TRUE], DOMAIN game, TRUE)))

\* _updatePlayer() saves the tasks that run in the rows 1, 2, ..., and
\* getPlayer() loads no task twice.
Row(w, i) == Cardinality({k \in 1..i : w.log[k] # Idle})
SavedAs(w, r) ==
  {i \in Log : /\ w.log[i] # Idle /\ Row(w, i) = r
               /\ \A k \in 1..(i - 1) : w.log[k].task # w.log[i].task}
LoadedLog(w) ==
  [r \in Log |-> IF SavedAs(w, r) = {} THEN Idle ELSE w.log[CHOOSE i \in SavedAs(w, r) : TRUE]]

\* loadPlayer(), the first time: no instanced mission goes on.
LoadPlayer(w) == FailInstanced(w)

\* Nanos that the player does not have are not saved.
LoadedNanos(w) == [n \in Nanos |-> IF n \in w.owned THEN w.nanos[n] ELSE NoNano]

\* A new Player object: no nano is out, no race is run.
Relog ==
  Becomes(LoadPlayer([plr EXCEPT !.log = LoadedLog(plr), !.nanos = LoadedNanos(plr),
                                 !.active = 0, !.rings = NoRace]))

-----------------------------------------------------------------------------
(* Nanos.cpp                                                               *)

\* nanoEquipHandler(), of any nano: the comparison comes after the
\* replacement.
NanoEquip(s, n) ==
  /\ n \in Named[game]
  /\ LET v == [plr EXCEPT !.equipped[s] = n]
     IN Becomes(IF v.active = v.equipped[s] THEN Unsummoned(v) ELSE v)

\* An administrator gives a nano.
GiveNano(n) == n \in Gifts[game] /\ Becomes(AddNano(plr, n, FALSE))

NanoUnequip(s) ==
  LET v == IF plr.equipped[s] = plr.active THEN Unsummoned(plr) ELSE plr
  IN Becomes([v EXCEPT !.equipped[s] = 0])

\* summonNano() of an equipped nano with a skill; clients let a tired one
\* rest.
NanoSummon(s) ==
  /\ plr.equipped[s] # 0 /\ plr.nanos[plr.equipped[s]].skill # "none"
  /\ plr.nanos[plr.equipped[s]].stamina > 0
  /\ Becomes([plr EXCEPT !.active = plr.equipped[s]])

\* The player, a vehicle or the skyway sends it away.
NanoUnsummon == plr.active # 0 /\ Becomes(Unsummoned(plr))

\* setNanoSkill(), of any nano: the skill is set whether it can be paid for
\* or not.
NanoTune(n, skill, price) ==
  /\ n \in Named[game]
  /\ LET v == IF plr.active = n THEN Unsummoned(plr) ELSE plr
     IN Becomes([v EXCEPT !.nanos[n].skill = skill,
                          !.fm = IF @ < price THEN @ ELSE @ - price])

\* nanoSkillUseHandler()
NanoSkillUse ==
  /\ plr.active # 0 /\ plr.nanos[plr.active].skill = "active"
  /\ LET left == plr.nanos[plr.active].stamina - DrainActive
         v == [plr EXCEPT !.nanos[plr.active].stamina = IF left <= 0 THEN 0 ELSE left]
     IN Becomes(IF left <= 0 THEN Unsummoned(v) ELSE v)

\* nanoPotionHandler(), with a battery for so much: it is the nano named by
\* the entry of the active one that is charged, and one that the player does
\* not have names none.
NanoPotion(n) ==
  /\ plr.active \in plr.owned /\ n <= MaxStamina - plr.nanos[plr.active].stamina
  /\ Becomes([plr EXCEPT !.nanos[plr.active].stamina = @ + n])

\* dealGooDamage() to a nano that protects its player.
GooDamage ==
  /\ plr.active # 0
  /\ LET left == plr.nanos[plr.active].stamina - 1
         v == [plr EXCEPT !.nanos[plr.active].stamina = IF left <= 0 THEN 0 ELSE left]
     IN Becomes(IF left <= 0 THEN Unsummoned(v) ELSE v)

\* revivePlayer(): a phoenix nano is used up and stays out, an ordinary
\* respawn leaves all equipped nanos at half.
RevivePhoenix == plr.active # 0 /\ Becomes([plr EXCEPT !.nanos[plr.active].stamina = 0])
Respawn ==
  Becomes([plr EXCEPT !.nanos = [n \in Nanos |->
    IF \E s \in 1..NEquip : plr.equipped[s] = n
    THEN [@[n] EXCEPT !.stamina = MaxStamina \div 2] ELSE @[n]]])

Rested(nano) == IF nano.stamina < MaxStamina THEN [nano EXCEPT !.stamina = @ + 1] ELSE nano

\* Player::step(): the nano that is out tires, the others rest, place by
\* place.
StepPlace(w, s) ==
  LET n == w.equipped[s]
  IN IF n = 0 THEN w
     ELSE IF n # w.active THEN [w EXCEPT !.nanos[n] = Rested(@)]
     ELSE LET drain == 1 + IF w.nanos[n].skill = "passive" THEN DrainPassive ELSE 0
              v == [w EXCEPT !.nanos[n].stamina = @ - drain]
          IN IF v.nanos[n].stamina <= 0 THEN Unsummoned(v) ELSE v

Step ==
  LET stepped[s \in 0..NEquip] == IF s = 0 THEN plr ELSE StepPlace(stepped[s - 1], s)
  IN Becomes(stepped[NEquip])

-----------------------------------------------------------------------------

Init ==
  /\ game \in Games
  /\ \E past \in BOOLEAN :
       plr = [log |-> [i \in Log |-> Idle], items |-> [k \in Items |-> 0],
              done |-> {}, due |-> "none", prizes |-> [t \in DOMAIN game |-> 0], junk |-> 0,
              fm |-> 0, level |-> FirstLevel, past |-> past,
              owned |-> {}, nanos |-> [n \in Nanos |-> NoNano],
              equipped |-> [s \in 1..NEquip |-> 0], active |-> 0, rings |-> NoRace]

MissionsNext ==
  \/ \E mob \in Enemies, fm, junk \in 0..1, lucky \in SUBSET {t \in DOMAIN game : game[t].need # 0} :
       KillMob(mob, fm, junk, lucky)
  \/ ThrowAway \/ ChangePlayerGuide \/ Relog
  \/ \E leaves \in BOOLEAN : Warp(leaves)
  \/ RaceStart \/ RaceGetPod \/ RaceCancel \/ \E reward \in 0..1 : RaceEnd(reward)
  \/ \E t \in DOMAIN game : TaskStart(t) \/ TaskEnd(t) \/ TaskTimeout(t) \/ TaskStop(t)

NanosNext ==
  \/ \E s \in 1..NEquip : \/ \E n \in Nanos : NanoEquip(s, n) \/ GiveNano(n)
                          \/ NanoUnequip(s) \/ NanoSummon(s)
  \/ \E n \in Nanos, skill \in Skills \ {"none"}, price \in 0..1 : NanoTune(n, skill, price)
  \/ NanoUnsummon \/ NanoSkillUse \/ GooDamage \/ RevivePhoenix \/ Respawn \/ Step
  \/ \E n \in 1..MaxStamina : NanoPotion(n)

Next == MissionsNext \/ NanosNext

Spec == Init /\ [][Next]_vars

-----------------------------------------------------------------------------

Player ==
  [log : [Log -> [task : DOMAIN game \cup {"none"}, left : Nat]], items : [Items -> Nat],
   done : SUBSET Missions, due : DOMAIN game \cup {"none"}, prizes : [DOMAIN game -> Nat],
   junk : 0..MaxJunk, fm : Nat, level : Levels, past : BOOLEAN, owned : SUBSET Nanos,
   nanos : [Nanos -> [skill : Skills, stamina : (-1 - DrainPassive)..MaxStamina]],
   equipped : [1..NEquip -> Nanos \cup {0}], active : Nanos \cup {0}, rings : NoRace..MaxRings]

\* The type of the state; Fusion Matter keeps below the cap of the level, and
\* stamina below its maximum, however the ticks, potions and revivals mix, and
\* nothing is put in the inventory that has no room.
TypeOK ==
  /\ game \in Games /\ plr \in Player
  /\ plr.fm <= FMLimit[plr.level] /\ \A n \in plr.owned : n <= plr.level
  /\ Room(plr) >= 0

\* "prevent powerless nanos from summoning": the nano that is out has a
\* skill, though it may be equipped and tuned before the player has it, and
\* given, once more too, while it is out.
SummonedNanoIsPowered == plr.active # 0 => plr.nanos[plr.active].skill # "none"

\* The prize of a mission has been given once if the mission is completed,
\* never else, and a nano has come out of its mission: a full inventory, a
\* timeout, a warp, a second copy of the nano mission and a task that ends
\* in the middle of counting a kill neither lose a reward nor repeat it.
MissionsArePaid ==
  \A t \in DOMAIN game : game[t].next = "none" =>
    /\ game[t].prize = 1 => plr.prizes[t] = IF game[t].mission \in plr.done THEN 1 ELSE 0
    /\ game[t].nano # 0 => (game[t].mission \in plr.done => game[t].nano \in plr.owned)

\* No task gets more of its quest item than it needs: isQuestItemFull()
\* tests for equality, and the task could never be finished.
ItemsNeverOvershoot ==
  \A t \in DOMAIN game : Runs(plr, t) /\ game[t].need # 0
                     => plr.items[game[t].item] <= game[t].need
=============================================================================
