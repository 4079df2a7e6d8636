-------------------------------- MODULE Mobs --------------------------------
(***************************************************************************)
(* The state machine of the mobs, and what fighting does to it: MobAI.cpp, *)
(* the mobs' half of Combat.cpp, Abilities.cpp and Buffs.cpp, the NPC      *)
(* timer and the NPC events of NPCManager.cpp.                             *)
(*                                                                         *)
(* A mob roams, fights the player it targets, retreats to where the fight  *)
(* began, or is dead.  Transitions nest: a blow makes a roaming mob fight, *)
(* which makes its group fight; a mob that strikes its target down looks   *)
(* for another one or retreats, which makes its group retreat; a buff that *)
(* drains, or a nano that answers a corruption attack, may kill the mob in *)
(* the middle of its own step.  Each of these writes the same few fields,  *)
(* and the server stops on an assertion when they disagree.                *)
(*                                                                         *)
(* Operators take a world to the set of worlds that may result: damage,    *)
(* distances and random numbers are choices.                               *)
(***************************************************************************)
EXTENDS Naturals, FiniteSets

CONSTANTS
  Socks,     \* sockets of players
  MobIds,    \* keys of NPCManager::NPCs that are given to mobs
  Troops,    \* what TableData may load, see below
  Casts,     \* the attacks a mob winds up: corruption, eruption
  Boosted,   \* mobs with an m_iPassiveBuff
  Debuffs,   \* the debuffs nanos carry: "mez", "stun", "snare"
  MaxAway,   \* bound: how many retreat steps from home a chase may lead
  NoSock, NoMob

Troop == [placed : SUBSET MobIds,    \* mobs that are loaded, and respawn
          leader : [MobIds -> MobIds \cup {NoMob}],  \* Mob::groupLeader
          heirs : [MobIds -> SUBSET MobIds]]  \* whom its death summons: NPCEvents

ASSUME TroopsAreLoadable ==
  /\ NoMob \notin MobIds /\ NoSock \notin Socks
  /\ Troops \subseteq Troop
  /\ \A t \in Troops, m \in MobIds :
       /\ t.leader[m] # NoMob => {m, t.leader[m]} \subseteq t.placed
       /\ t.heirs[m] \cap t.placed = {}
  /\ Casts \in [MobIds -> SUBSET {"corruption", "eruption"}]
  /\ Boosted \subseteq MobIds /\ Debuffs \subseteq {"mez", "stun", "snare"}
  /\ MaxAway \in Nat

VARIABLES
  troop,  \* never changes
  world

vars == <<troop, world>>

States == {"roaming", "combat", "retreat", "dead"}
Buffs == Debuffs \cup {"drain", "passive"}
Mob == [state : States,
        hp : BOOLEAN,             \* hp > 0
        target : Socks \cup {NoSock},
        style : {"none", "corruption", "eruption", "cooldown"}, \* skillStyle
        buffs : SUBSET Buffs,
        away : 0 .. MaxAway,      \* distance to roamX, roamY in retreat steps
        despawned : BOOLEAN]
World == [mob : [MobIds -> Mob],
          present : SUBSET MobIds,   \* the keys of NPCs
          online : SUBSET Socks,     \* the keys of PlayerManager::players
          fit : SUBSET Socks,        \* HP > 0 and not INVULNERABLE
          near : SUBSET Socks]       \* players the mobs are in view of

NewMob == [state |-> "roaming", hp |-> TRUE, target |-> NoSock, style |-> "none",
           buffs |-> {}, away |-> 0, despawned |-> FALSE]

\* The mobs of m's group that are in the game: its leader and the followers
\* listed there.  Without the leader nobody is found.
GroupOf(w, m) ==
  IF troop.leader[m] \in w.present
  THEN {g \in w.present : troop.leader[g] = troop.leader[m]} ELSE {}

InState(w, M, s) == {m \in M : w.mob[m].state = s}
Held(mob) == mob.buffs \cap {"mez", "stun"} # {}

-----------------------------------------------------------------------------
(* Transitions and their handlers.                                           *)

\* transition(COMBAT, s): onCombatStart().
Engaged(m, mob, s) ==
  [mob EXCEPT !.state = "combat", !.target = s, !.away = 0,
              !.buffs = @ \cup (IF m \in Boosted THEN {"passive"} ELSE {})]

\* What aggroCheck() and takeDamage() do with a mob and its followToCombat().
EnterCombat(w, m, s) ==
  LET joining == {m} \cup InState(w, GroupOf(w, m), "roaming")
  IN [w EXCEPT !.mob = [g \in MobIds |->
        IF g \in joining THEN Engaged(g, w.mob[g], s) ELSE w.mob[g]]]

Calmed(mob) ==
  [mob EXCEPT !.state = "retreat", !.target = NoSock, !.style = "none", !.buffs = {}]

\* transition(RETREAT): onRetreat(), with groupRetreat().
Retreat(w, m) ==
  LET leaving == {m} \cup InState(w, GroupOf(w, m), "combat")
  IN [w EXCEPT !.mob = [g \in MobIds |->
        IF g \in leaving THEN Calmed(w.mob[g]) ELSE w.mob[g]]]

\* transition(ROAMING): onRoamStart().
RoamStart(w, m) ==
  [w EXCEPT !.mob[m] = [@ EXCEPT !.state = "roaming", !.hp = TRUE,
                                 !.style = "none", !.buffs = {}]]

\* transition(DEAD): onDeath(), then the events, which summon.
Die(w, m) ==
  LET born == troop.heirs[m] \ w.present
  IN [w EXCEPT !.mob = [g \in MobIds |->
                 IF g = m THEN [w.mob[m] EXCEPT
                        !.state = "dead", !.hp = FALSE, !.target = NoSock,
                        !.style = "none", !.buffs = {}, !.despawned = FALSE]
                 ELSE IF g \in born THEN NewMob ELSE w.mob[g]],
               !.present = @ \cup born]

-----------------------------------------------------------------------------
(* Damage.                                                                   *)

\* Mob::takeDamage() and, below it, CombatNPC::takeDamage().
TakeDamage(w, m, s, amounts) ==
  IF w.mob[m].state \notin {"roaming", "combat"} \/ w.mob[m].style = "corruption"
  THEN {w}
  ELSE LET fighting == IF w.mob[m].state = "roaming" THEN EnterCombat(w, m, s) ELSE w
           awake == [fighting EXCEPT !.mob[m].buffs = @ \ {"mez"}]
       IN {IF lethal THEN Die(awake, m) ELSE awake : lethal \in amounts}

Harmless == {FALSE}
MayKill == {TRUE, FALSE}

\* CombatNPC::addBuff() refuses who cannot have it; a drain and a debuff take
\* aggro first (handleSkillBuff(), handleSkillDamageNDebuff()).
Afflict(w, m, s, b) ==
  {IF v.mob[m].hp /\ v.mob[m].state \in {"roaming", "combat"}
   THEN [v EXCEPT !.mob[m].buffs = @ \cup {b}] ELSE v
     : v \in TakeDamage(w, m, s, Harmless)}

\* aggroCheck(): the closest player in range, if there is one.
Prey(w) == w.near \cap w.fit
AggroCheck(w, m) == {EnterCombat(w, m, s) : s \in Prey(w)}
AggroOrRetreat(w, m) == AggroCheck(w, m) \cup {Retreat(w, m)}

\* A player loses health to m: npcAttackPc() and dealCorruption() look whether
\* it died and make m look for another target.
Hurt(w, m, s) ==
  UNION {IF s \in v.fit THEN {v} ELSE AggroOrRetreat(v, m)
           : v \in {w, [w EXCEPT !.fit = @ \ {s}]}}

-----------------------------------------------------------------------------
(* combatStep(), in its parts.                                               *)

\* Buffs tick: a drain hurts, and whatever is stale is dropped.
TickBuffs(w, m) ==
  LET drained == IF "drain" \in w.mob[m].buffs
                 THEN {w} \cup TakeDamage(w, m, w.mob[m].target, MayKill) ELSE {w}
  IN UNION {IF v.mob[m].state # "combat" THEN {v}
            ELSE {[v EXCEPT !.mob[m].buffs = left] : left \in SUBSET v.mob[m].buffs}
              : v \in drained}

\* A corruption attack: the nano of the player loses, ties, or answers.
Corrupt(w, m, s) ==
  LET v == [w EXCEPT !.mob[m].style = "cooldown"]
  IN Hurt(v, m, s) \cup TakeDamage(v, m, s, MayKill)

\* An eruption hits whoever is near; nobody looks whether it killed.
Erupt(w, m) ==
  {[w EXCEPT !.mob[m].style = "cooldown", !.fit = @ \ fallen]
     : fallen \in SUBSET (w.near \cap w.fit)}

\* useAbilities(): what was wound up, or something new.
UseAbilities(w, m) ==
  CASE w.mob[m].style = "corruption" -> Corrupt(w, m, w.mob[m].target)
    [] w.mob[m].style = "eruption" -> Erupt(w, m)
    [] w.mob[m].style = "cooldown" -> {[w EXCEPT !.mob[m].style = "none"]}
    [] OTHER -> {w, [w EXCEPT !.fit = @ \ {w.mob[m].target}]} \cup
                {[w EXCEPT !.mob[m].style = c] : c \in Casts[m]}

\* Chase, strike, and give up a target that is too far from home.  A mob that
\* casts stands still; one that has found another target strikes that one.
Chase(w, m) ==
  {w} \cup {[w EXCEPT !.mob[m].away = d] : d \in
              IF w.mob[m].style = "none" THEN 0 .. MaxAway ELSE {}}
Strike(w, m) == {w} \cup Hurt(w, m, w.mob[m].target)
GiveUp(w, m) == {w, Retreat(w, m)}

Act(w, m) ==
  UNION {IF v.mob[m].target = NoSock THEN {v}
         ELSE UNION {UNION {GiveUp(y, m) : y \in Strike(x, m)} : x \in Chase(v, m)}
           : v \in {w} \cup UseAbilities(w, m)}

\* Mutant: combatStep() goes on when the buffs killed the mob.
AfterBuffsRegardless(w, m) ==
  IF Held(w.mob[m]) THEN {[w EXCEPT !.mob[m].style = "none"]} ELSE Strike(w, m)

AfterBuffs(w, m) ==
  IF w.mob[m].state # "combat" THEN {w}
  ELSE IF Held(w.mob[m]) THEN {[w EXCEPT !.mob[m].style = "none"]}
  ELSE Act(w, m)

Lost(w, t) == t \notin w.online \/ t \notin w.fit

-----------------------------------------------------------------------------
(* The NPC timer: NPCManager's step(), one mob at a time.                    *)

\* playersInView: an unseen mob sleeps unless it is dead or on its way back.
Seen == world.near # {}
Awake(m) == m \in world.present /\ Seen

\* The two halves of combatStep(): lose aggro, or fight.
StepLost(m) ==
  /\ Awake(m) /\ world.mob[m].state = "combat" /\ Lost(world, world.mob[m].target)
  /\ world' \in AggroOrRetreat(world, m)

StepFight(m) ==
  /\ Awake(m) /\ world.mob[m].state = "combat" /\ ~Lost(world, world.mob[m].target)
  /\ world' \in UNION {AfterBuffs(v, m) : v \in TickBuffs(world, m)}

StepRoaming(m) ==
  /\ Awake(m) /\ world.mob[m].state = "roaming"
  /\ world' \in AggroCheck(world, m)

\* Mutant: step() exempts only the dead from being seen.
StepRetreatAwake(m) ==
  /\ Awake(m) /\ world.mob[m].state = "retreat"
  /\ world' = IF world.mob[m].away > 0 THEN [world EXCEPT !.mob[m].away = @ - 1]
              ELSE RoamStart(world, m)

StepRetreat(m) ==
  /\ m \in world.present /\ world.mob[m].state = "retreat"
  /\ world' = IF world.mob[m].away > 0 THEN [world EXCEPT !.mob[m].away = @ - 1]
              ELSE RoamStart(world, m)

\* The first half of deadStep(); a summoned mob goes through the removal queue,
\* which is emptied at the end of the same step.
StepDead(m) ==
  /\ m \in world.present /\ world.mob[m].state = "dead" /\ ~world.mob[m].despawned
  /\ world' = IF m \in troop.placed THEN [world EXCEPT !.mob[m].despawned = TRUE]
              ELSE [world EXCEPT !.present = @ \ {m}, !.mob[m] = NewMob]

\* The second half: the mob comes back where its group is.
StepRespawn(m) ==
  /\ m \in world.present /\ world.mob[m].state = "dead" /\ world.mob[m].despawned
  /\ world' = RoamStart(world, m)

-----------------------------------------------------------------------------
(* Players.                                                                  *)

Join(s) ==
  /\ s \notin world.online
  /\ world' = [world EXCEPT !.online = @ \cup {s}, !.fit = @ \cup {s}]

\* Mutant: removePlayer() leaves the player in the chunks.
LeaveUntracked(s) ==
  /\ s \in world.online
  /\ world' = [world EXCEPT !.online = @ \ {s}, !.fit = @ \ {s}]

\* removePlayer(): the mobs that target the socket keep the pointer.
Leave(s) ==
  /\ s \in world.online
  /\ world' = [world EXCEPT !.online = @ \ {s}, !.fit = @ \ {s},
                            !.near = @ \ {s}]

Walk(s) ==
  /\ s \in world.online
  /\ world' = [world EXCEPT !.near = IF s \in @ THEN @ \ {s} ELSE @ \cup {s}]

\* pcAttackNpcs(), projectileHit(), nanos that damage: of anybody online at
\* anybody present.
Attack(s, m) ==
  /\ s \in world.online /\ m \in world.present
  /\ world' \in TakeDamage(world, m, s, MayKill)

UseNano(s, m) ==
  /\ s \in world.online /\ m \in world.present
  /\ \E b \in Debuffs \cup {"drain"} : world' \in Afflict(world, m, s, b)

\* A player becomes unfit to fight or fit again: dealGooDamage(), the fall out of
\* the world, setSpecialSwitchPlayer(); revivePlayer().
Perish(s) ==
  /\ s \in world.fit
  /\ world' = [world EXCEPT !.fit = @ \ {s}]
Revive(s) ==
  /\ s \in world.online \ world.fit
  /\ world' = [world EXCEPT !.fit = @ \cup {s}]

Init ==
  /\ troop \in Troops
  /\ world = [mob |-> [m \in MobIds |-> NewMob], present |-> troop.placed,
              online |-> {}, fit |-> {}, near |-> {}]

Step(m) == \/ StepLost(m) \/ StepFight(m) \/ StepRoaming(m)
           \/ StepRetreat(m) \/ StepDead(m) \/ StepRespawn(m)

Next ==
  /\ \/ \E m \in MobIds : Step(m)
     \/ \E s \in Socks : Join(s) \/ Leave(s) \/ Walk(s) \/ Perish(s) \/ Revive(s)
     \/ \E s \in Socks, m \in MobIds : Attack(s, m) \/ UseNano(s, m)
  /\ UNCHANGED troop

Spec == Init /\ [][Next]_vars

\* The timer visits every mob each 200 ms, whether or not it does anything
\* then; only what it does for the unseen is certain to come.
FairSpec ==
  /\ Spec
  /\ \A m \in MobIds : /\ WF_vars(StepRetreat(m) /\ UNCHANGED troop)
                       /\ WF_vars(StepLost(m) /\ UNCHANGED troop)
-----------------------------------------------------------------------------
\* Fields have their types and nobody is fit or near without being in the game.
TypeOK ==
  /\ troop \in Troops
  /\ world \in World
  /\ world.fit \cup world.near \subseteq world.online

\* The state of a mob and what the state stands for agree.  A mob has a target
\* exactly while it fights: combatStep() dereferences the target and
\* takeDamage() asserts that a roaming mob has none.  Dead is who has no health.
\* And nobody carries a debuff, a drain or a wound-up attack out of a fight,
\* where buffs do not tick: the next roaming step would halve its speed for
\* good, and a mob that casts corruption is immune.
StatesAreCoherent ==
  \A m \in MobIds :
    /\ (world.mob[m].state = "combat") <=> (world.mob[m].target # NoSock)
    /\ (world.mob[m].state = "dead") <=> ~world.mob[m].hp
    /\ world.mob[m].buffs # {} \/ world.mob[m].style # "none"
         => world.mob[m].state = "combat"

FightsTheLost(m) ==
  /\ world.mob[m].state = "combat"
  /\ world.mob[m].target \notin world.online \cap world.fit

\* A mob on its way back cannot be hurt, so it had better arrive.  And a fight
\* with somebody who logged out, died or became invulnerable is over once
\* anybody is there to wake the mob: it changes its target or retreats.
FightsEnd ==
  \A m \in MobIds :
    /\ world.mob[m].state = "retreat" ~> world.mob[m].state = "roaming"
    /\ FightsTheLost(m) ~> ~FightsTheLost(m) \/ ~Seen
=============================================================================
