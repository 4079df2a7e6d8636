----------------------------- MODULE MobsProofs -----------------------------
(***************************************************************************)
(* In Mobs.tla the fields of a mob agree with its state, with any number   *)
(* of players, mobs and groups.  The transitions nest, so the argument     *)
(* follows their nesting: each operator is shown to take good worlds to    *)
(* good worlds, from the conditions under which the others use it.         *)
(***************************************************************************)
EXTENDS Mobs, TLAPS

\* What StatesAreCoherent says of a mob.
Coherent(mob) ==
  /\ (mob.state = "combat") <=> (mob.target # NoSock)
  /\ (mob.state = "dead") <=> ~mob.hp
  /\ mob.buffs # {} \/ mob.style # "none" => mob.state = "combat"

Good(w) ==
  /\ w \in World
  /\ w.fit \cup w.near \subseteq w.online
  /\ \A m \in MobIds : Coherent(w.mob[m])

IInv == troop \in Troops /\ Good(world)

Fights(w, m) == w.mob[m].state = "combat"
Alive(w, m) == w.mob[m].state # "dead"

-----------------------------------------------------------------------------
(* Worlds with other fields.                                               *)

LEMMA NewMobIsCoherent == NewMob \in Mob /\ Coherent(NewMob)
BY TroopsAreLoadable DEF NewMob, Mob, Coherent, States

LEMMA WithMobs ==
  ASSUME NEW w, Good(w), NEW f \in [MobIds -> Mob], \A m \in MobIds : Coherent(f[m])
  PROVE  Good([w EXCEPT !.mob = f]) /\ [w EXCEPT !.mob = f].mob = f
BY DEF Good, World

LEMMA WithMob ==
  ASSUME NEW w, Good(w), NEW m \in MobIds, NEW b \in Mob, Coherent(b)
  PROVE  Good([w EXCEPT !.mob[m] = b]) /\ [w EXCEPT !.mob[m] = b].mob[m] = b
BY DEF Good, World

LEMMA WithStyle ==
  ASSUME NEW w, Good(w), NEW m \in MobIds, Fights(w, m),
         NEW c \in {"none", "corruption", "eruption", "cooldown"}
  PROVE  /\ Good([w EXCEPT !.mob[m].style = c])
         /\ [w EXCEPT !.mob[m].style = c].mob[m].state = w.mob[m].state
         /\ [w EXCEPT !.mob[m].style = c].mob[m].target = w.mob[m].target
<1> DEFINE b == [w.mob[m] EXCEPT !.style = c]
<1>1. w.mob[m] \in Mob /\ Coherent(w.mob[m])
  BY DEF Good, World
<1>2. b \in Mob /\ b.state = w.mob[m].state /\ b.target = w.mob[m].target
  BY <1>1 DEF Mob
<1>3. Coherent(b)
  BY <1>1 DEF Mob, Coherent, Fights
<1>4. [w EXCEPT !.mob[m].style = c] = [w EXCEPT !.mob[m] = b]
  OBVIOUS
<1> HIDE DEF b
<1>5. QED BY <1>2, <1>3, <1>4, WithMob

LEMMA WithBuffs ==
  ASSUME NEW w, Good(w), NEW m \in MobIds, Fights(w, m), NEW B \in SUBSET Buffs
  PROVE  /\ Good([w EXCEPT !.mob[m].buffs = B])
         /\ [w EXCEPT !.mob[m].buffs = B].mob[m].state = w.mob[m].state
         /\ [w EXCEPT !.mob[m].buffs = B].mob[m].target = w.mob[m].target
<1> DEFINE b == [w.mob[m] EXCEPT !.buffs = B]
<1>1. w.mob[m] \in Mob /\ Coherent(w.mob[m])
  BY DEF Good, World
<1>2. b \in Mob /\ b.state = w.mob[m].state /\ b.target = w.mob[m].target
  BY <1>1 DEF Mob
<1>3. Coherent(b)
  BY <1>1 DEF Mob, Coherent, Fights
<1>4. [w EXCEPT !.mob[m].buffs = B] = [w EXCEPT !.mob[m] = b]
  OBVIOUS
<1> HIDE DEF b
<1>5. QED BY <1>2, <1>3, <1>4, WithMob

LEMMA WithAway ==
  ASSUME NEW w, Good(w), NEW m \in MobIds, NEW d \in 0 .. MaxAway
  PROVE  /\ Good([w EXCEPT !.mob[m].away = d])
         /\ [w EXCEPT !.mob[m].away = d].mob[m].state = w.mob[m].state
         /\ [w EXCEPT !.mob[m].away = d].mob[m].target = w.mob[m].target
<1> DEFINE b == [w.mob[m] EXCEPT !.away = d]
<1>1. w.mob[m] \in Mob /\ Coherent(w.mob[m])
  BY DEF Good, World
<1>2. b \in Mob /\ b.state = w.mob[m].state /\ b.target = w.mob[m].target
  BY <1>1 DEF Mob
<1>3. Coherent(b)
  BY <1>1 DEF Mob, Coherent, Fights
<1>4. [w EXCEPT !.mob[m].away = d] = [w EXCEPT !.mob[m] = b]
  OBVIOUS
<1> HIDE DEF b
<1>5. QED BY <1>2, <1>3, <1>4, WithMob

LEMMA WithFit ==
  ASSUME NEW w, Good(w), NEW F \in SUBSET w.fit
  PROVE  Good([w EXCEPT !.fit = F]) /\ [w EXCEPT !.fit = F].mob = w.mob
BY DEF Good, World

-----------------------------------------------------------------------------
(* The transitions.                                                        *)

LEMMA EngagedIsCoherent ==
  ASSUME NEW m \in MobIds, NEW mob \in Mob, Coherent(mob), mob.state # "dead", NEW s \in Socks
  PROVE  /\ Engaged(m, mob, s) \in Mob /\ Coherent(Engaged(m, mob, s))
         /\ Engaged(m, mob, s).state = "combat" /\ Engaged(m, mob, s).target = s
<1> DEFINE B == mob.buffs \cup (IF m \in Boosted THEN {"passive"} ELSE {})
<1>1. B \in SUBSET Buffs
  BY DEF Mob, Buffs
<1>2. Engaged(m, mob, s) = [mob EXCEPT !.state = "combat", !.target = s, !.away = 0, !.buffs = B]
  BY DEF Engaged
<1> HIDE DEF B
<1>3. 0 \in 0 .. MaxAway /\ s # NoSock
  BY TroopsAreLoadable
<1>4. QED BY <1>1, <1>2, <1>3 DEF Mob, Coherent, States

LEMMA CalmedIsCoherent ==
  ASSUME NEW mob \in Mob, Coherent(mob), mob.state # "dead"
  PROVE  /\ Calmed(mob) \in Mob /\ Coherent(Calmed(mob)) /\ Calmed(mob).state = "retreat"
BY DEF Calmed, Mob, Coherent, States

\* transition(COMBAT), of a mob that is not dead: it fights, and who followed
\* it was roaming.
LEMMA EnterCombatIsGood ==
  ASSUME NEW w, Good(w), NEW m \in MobIds, Alive(w, m), NEW s \in Socks
  PROVE  Good(EnterCombat(w, m, s)) /\ Fights(EnterCombat(w, m, s), m)
<1> DEFINE J == {m} \cup InState(w, GroupOf(w, m), "roaming")
           f == [g \in MobIds |-> IF g \in J THEN Engaged(g, w.mob[g], s) ELSE w.mob[g]]
<1>1. \A g \in MobIds : w.mob[g] \in Mob /\ Coherent(w.mob[g])
  BY DEF Good, World
<1>2. \A g \in J : w.mob[g].state # "dead"
  BY DEF Alive, InState
<1>3. EnterCombat(w, m, s) = [w EXCEPT !.mob = f]
  BY DEF EnterCombat
<1>4. m \in J
  OBVIOUS
<1> HIDE DEF J
<1>5. \A g \in MobIds : f[g] \in Mob /\ Coherent(f[g])
  BY <1>1, <1>2, EngagedIsCoherent
<1>6. f \in [MobIds -> Mob] /\ f[m].state = "combat"
  BY <1>1, <1>2, <1>4, <1>5, EngagedIsCoherent
<1> HIDE DEF f
<1>7. QED BY <1>3, <1>5, <1>6, WithMobs DEF Fights

\* transition(RETREAT), of a mob that is not dead: who retreats with it fought.
LEMMA RetreatIsGood ==
  ASSUME NEW w, Good(w), NEW m \in MobIds, Alive(w, m)
  PROVE  Good(Retreat(w, m)) /\ Alive(Retreat(w, m), m)
<1> DEFINE L == {m} \cup InState(w, GroupOf(w, m), "combat")
           f == [g \in MobIds |-> IF g \in L THEN Calmed(w.mob[g]) ELSE w.mob[g]]
<1>1. \A g \in MobIds : w.mob[g] \in Mob /\ Coherent(w.mob[g])
  BY DEF Good, World
<1>2. \A g \in L : w.mob[g].state # "dead"
  BY DEF Alive, InState
<1>3. Retreat(w, m) = [w EXCEPT !.mob = f]
  BY DEF Retreat
<1>4. m \in L
  OBVIOUS
<1> HIDE DEF L
<1>5. \A g \in MobIds : f[g] \in Mob /\ Coherent(f[g])
  BY <1>1, <1>2, CalmedIsCoherent
<1>6. f \in [MobIds -> Mob] /\ f[m].state = "retreat"
  BY <1>1, <1>2, <1>4, <1>5, CalmedIsCoherent
<1> HIDE DEF f
<1>7. QED BY <1>3, <1>5, <1>6, WithMobs DEF Alive

\* transition(ROAMING), of a mob that has arrived or is dead: it has no target.
LEMMA RoamStartIsGood ==
  ASSUME NEW w, Good(w), NEW m \in MobIds, ~ Fights(w, m)
  PROVE  Good(RoamStart(w, m))
<1> DEFINE b == [w.mob[m] EXCEPT !.state = "roaming", !.hp = TRUE, !.style = "none", !.buffs = {}]
<1>1. w.mob[m] \in Mob /\ Coherent(w.mob[m])
  BY DEF Good, World
<1>2. b \in Mob
  BY <1>1 DEF Mob, States
<1>3. Coherent(b)
  BY <1>1 DEF Mob, Coherent, Fights
<1>4. RoamStart(w, m) = [w EXCEPT !.mob[m] = b]
  BY DEF RoamStart
<1> HIDE DEF b
<1>5. QED BY <1>2, <1>3, <1>4, WithMob

\* transition(DEAD): whom the events summon is new.
LEMMA DieIsGood ==
  ASSUME troop \in Troops, NEW w, Good(w), NEW m \in MobIds
  PROVE  Good(Die(w, m)) /\ ~ Alive(Die(w, m), m)
<1> DEFINE born == troop.heirs[m] \ w.present
           b == [w.mob[m] EXCEPT !.state = "dead", !.hp = FALSE, !.target = NoSock,
                                 !.style = "none", !.buffs = {}, !.despawned = FALSE]
           f == [g \in MobIds |-> IF g = m THEN b ELSE IF g \in born THEN NewMob ELSE w.mob[g]]
           v == [w EXCEPT !.mob = f]
<1>1. \A g \in MobIds : w.mob[g] \in Mob /\ Coherent(w.mob[g])
  BY DEF Good, World
<1>2. b \in Mob /\ Coherent(b) /\ b.state = "dead"
  BY <1>1 DEF Mob, Coherent, States
<1>3. born \subseteq MobIds
  BY TroopsAreLoadable DEF Troop
<1>4. Die(w, m) = [w EXCEPT !.mob = f, !.present = @ \cup born]
  BY DEF Die
<1> HIDE DEF born, b
<1>5. f \in [MobIds -> Mob] /\ (\A g \in MobIds : Coherent(f[g])) /\ f[m].state = "dead"
  BY <1>1, <1>2, NewMobIsCoherent
<1> HIDE DEF f
<1>6. QED BY <1>3, <1>4, <1>5 DEF Good, World, Alive

-----------------------------------------------------------------------------
(* Damage.                                                                 *)

\* takeDamage(): whoever it hurts fights or is dead.
LEMMA TakeDamageIsGood ==
  ASSUME troop \in Troops, NEW w, Good(w), NEW m \in MobIds, NEW s \in Socks,
         NEW amounts \in SUBSET BOOLEAN, NEW v \in TakeDamage(w, m, s, amounts)
  PROVE  Good(v) /\ v.mob[m].state # "roaming"
<1>1. CASE w.mob[m].state \notin {"roaming", "combat"} \/ w.mob[m].style = "corruption"
  <2>1. v = w
    BY <1>1 DEF TakeDamage
  <2>2. Coherent(w.mob[m])
    BY DEF Good
  <2>3. QED BY <1>1, <2>1, <2>2 DEF Coherent
<1>2. CASE ~ (w.mob[m].state \notin {"roaming", "combat"} \/ w.mob[m].style = "corruption")
  <2> DEFINE fighting == IF w.mob[m].state = "roaming" THEN EnterCombat(w, m, s) ELSE w
             left == fighting.mob[m].buffs \ {"mez"}
             awake == [fighting EXCEPT !.mob[m].buffs = left]
  <2>1. Good(fighting) /\ Fights(fighting, m)
    BY <1>2, EnterCombatIsGood DEF Alive, Fights
  <2>2. v = Die(awake, m) \/ v = awake
    BY <1>2 DEF TakeDamage
  <2> HIDE DEF fighting
  <2>3. left \in SUBSET Buffs
    BY <2>1 DEF Good, World, Mob
  <2> HIDE DEF left
  <2>4. Good(awake) /\ awake.mob[m].state = "combat"
    BY <2>1, <2>3, WithBuffs DEF Fights
  <2> HIDE DEF awake
  <2>5. QED BY <2>2, <2>4, DieIsGood DEF Alive
<1>3. QED BY <1>1, <1>2

\* addBuff(): who has a buff fights.
LEMMA AfflictIsGood ==
  ASSUME troop \in Troops, NEW w, Good(w), NEW m \in MobIds, NEW s \in Socks,
         NEW b \in Buffs, NEW u \in Afflict(w, m, s, b)
  PROVE  Good(u)
<1>1. PICK v \in TakeDamage(w, m, s, Harmless) :
        u = IF v.mob[m].hp /\ v.mob[m].state \in {"roaming", "combat"}
            THEN [v EXCEPT !.mob[m].buffs = @ \cup {b}] ELSE v
  BY DEF Afflict
<1>2. Good(v) /\ v.mob[m].state # "roaming"
  BY TakeDamageIsGood DEF Harmless
<1> DEFINE B == v.mob[m].buffs \cup {b}
<1>3. B \in SUBSET Buffs
  BY <1>2 DEF Good, World, Mob
<1>4. CASE v.mob[m].hp /\ v.mob[m].state \in {"roaming", "combat"}
  <2>1. u = [v EXCEPT !.mob[m].buffs = B]
    BY <1>1, <1>4
  <2> HIDE DEF B
  <2>2. QED BY <1>2, <1>3, <1>4, <2>1, WithBuffs DEF Fights
<1>5. QED BY <1>1, <1>2, <1>4

LEMMA AggroCheckIsGood ==
  ASSUME NEW w, Good(w), NEW m \in MobIds, Alive(w, m), NEW v \in AggroCheck(w, m)
  PROVE  Good(v) /\ Alive(v, m)
<1>1. PICK s \in Prey(w) : v = EnterCombat(w, m, s)
  BY DEF AggroCheck
<1>2. s \in Socks
  BY DEF Prey, Good, World
<1>3. QED BY <1>1, <1>2, EnterCombatIsGood DEF Alive, Fights

LEMMA AggroOrRetreatIsGood ==
  ASSUME NEW w, Good(w), NEW m \in MobIds, Alive(w, m), NEW v \in AggroOrRetreat(w, m)
  PROVE  Good(v) /\ Alive(v, m)
BY AggroCheckIsGood, RetreatIsGood DEF AggroOrRetreat

LEMMA HurtIsGood ==
  ASSUME NEW w, Good(w), NEW m \in MobIds, Alive(w, m), NEW s, NEW u \in Hurt(w, m, s)
  PROVE  Good(u) /\ Alive(u, m)
<1>1. PICK v \in {w, [w EXCEPT !.fit = @ \ {s}]} :
        u \in (IF s \in v.fit THEN {v} ELSE AggroOrRetreat(v, m))
  BY DEF Hurt
<1> DEFINE F == w.fit \ {s}
<1>2. v = w \/ v = [w EXCEPT !.fit = F]
  BY <1>1
<1>3. F \in SUBSET w.fit
  OBVIOUS
<1> HIDE DEF F
<1>4. Good([w EXCEPT !.fit = F]) /\ [w EXCEPT !.fit = F].mob = w.mob
  BY <1>3, WithFit
<1>5. Good(v) /\ Alive(v, m)
  BY <1>2, <1>4 DEF Alive
<1>6. QED BY <1>1, <1>5, AggroOrRetreatIsGood

-----------------------------------------------------------------------------
(* combatStep(), in its parts.                                             *)

LEMMA TickBuffsIsGood ==
  ASSUME troop \in Troops, NEW w, Good(w), NEW m \in MobIds, Fights(w, m),
         NEW u \in TickBuffs(w, m)
  PROVE  Good(u)
<1> DEFINE drained == IF "drain" \in w.mob[m].buffs
                      THEN {w} \cup TakeDamage(w, m, w.mob[m].target, MayKill) ELSE {w}
<1>1. PICK v \in drained :
        u \in IF v.mob[m].state # "combat" THEN {v}
              ELSE {[v EXCEPT !.mob[m].buffs = left] : left \in SUBSET v.mob[m].buffs}
  BY DEF TickBuffs
<1>2. w.mob[m].target \in Socks
  BY DEF Good, World, Mob, Coherent, Fights
<1>3. Good(v)
  BY <1>1, <1>2, TakeDamageIsGood DEF MayKill
<1> HIDE DEF drained
<1>4. CASE Fights(v, m)
  <2>1. PICK left \in SUBSET v.mob[m].buffs : u = [v EXCEPT !.mob[m].buffs = left]
    BY <1>1, <1>4 DEF Fights
  <2>2. left \in SUBSET Buffs
    BY <1>3 DEF Good, World, Mob
  <2>3. QED BY <1>3, <1>4, <2>1, <2>2, WithBuffs
<1>5. QED BY <1>1, <1>3, <1>4 DEF Fights

LEMMA CorruptIsGood ==
  ASSUME troop \in Troops, NEW w, Good(w), NEW m \in MobIds, Fights(w, m),
         NEW s \in Socks, NEW u \in Corrupt(w, m, s)
  PROVE  Good(u)
<1> DEFINE v == [w EXCEPT !.mob[m].style = "cooldown"]
<1>1. Good(v) /\ Alive(v, m)
  BY WithStyle DEF Alive, Fights
<1>2. u \in Hurt(v, m, s) \/ u \in TakeDamage(v, m, s, MayKill)
  BY DEF Corrupt
<1> HIDE DEF v
<1>3. QED BY <1>1, <1>2, HurtIsGood, TakeDamageIsGood DEF MayKill

LEMMA EruptIsGood ==
  ASSUME NEW w, Good(w), NEW m \in MobIds, Fights(w, m), NEW u \in Erupt(w, m)
  PROVE  Good(u)
<1> DEFINE v == [w EXCEPT !.mob[m].style = "cooldown"]
<1>1. Good(v)
  BY WithStyle
<1>2. PICK fallen \in SUBSET (w.near \cap w.fit) :
        u = [w EXCEPT !.mob[m].style = "cooldown", !.fit = @ \ fallen]
  BY DEF Erupt
<1> DEFINE F == v.fit \ fallen
<1>3. u = [v EXCEPT !.fit = F]
  BY <1>2 DEF Good, World
<1>4. F \in SUBSET v.fit
  OBVIOUS
<1> HIDE DEF v, F
<1>5. QED BY <1>1, <1>3, <1>4, WithFit

LEMMA UseAbilitiesIsGood ==
  ASSUME troop \in Troops, NEW w, Good(w), NEW m \in MobIds, Fights(w, m),
         NEW u \in UseAbilities(w, m)
  PROVE  Good(u)
<1>1. w.mob[m] \in Mob /\ w.mob[m].target \in Socks
  BY DEF Good, World, Mob, Coherent, Fights
<1>2. CASE w.mob[m].style = "corruption"
  BY <1>1, <1>2, CorruptIsGood DEF UseAbilities
<1>3. CASE w.mob[m].style = "eruption"
  BY <1>3, EruptIsGood DEF UseAbilities
<1>4. CASE w.mob[m].style = "cooldown"
  <2>1. u = [w EXCEPT !.mob[m].style = "none"]
    BY <1>4 DEF UseAbilities
  <2>2. QED BY <2>1, WithStyle
<1>5. CASE w.mob[m].style \notin {"corruption", "eruption", "cooldown"}
  <2> DEFINE F == w.fit \ {w.mob[m].target}
  <2>1. \/ u = w \/ u = [w EXCEPT !.fit = F]
        \/ \E c \in Casts[m] : u = [w EXCEPT !.mob[m].style = c]
    BY <1>5 DEF UseAbilities
  <2>2. \A c \in Casts[m] : c \in {"none", "corruption", "eruption", "cooldown"}
    BY TroopsAreLoadable
  <2>3. F \in SUBSET w.fit
    OBVIOUS
  <2> HIDE DEF F
  <2>4. ASSUME NEW c \in Casts[m], u = [w EXCEPT !.mob[m].style = c]
        PROVE  Good(u)
    <3>1. Good([w EXCEPT !.mob[m].style = c])
      BY <2>2, WithStyle
    <3>2. QED BY <2>4, <3>1
  <2>5. Good([w EXCEPT !.fit = F])
    BY <2>3, WithFit
  <2>6. QED BY <2>1, <2>4, <2>5
<1>6. QED BY <1>2, <1>3, <1>4, <1>5

LEMMA ActIsGood ==
  ASSUME troop \in Troops, NEW w, Good(w), NEW m \in MobIds, Fights(w, m),
         NEW u \in Act(w, m)
  PROVE  Good(u)
<1>1. PICK v \in {w} \cup UseAbilities(w, m) :
        u \in IF v.mob[m].target = NoSock THEN {v}
              ELSE UNION {UNION {GiveUp(y, m) : y \in Strike(x, m)} : x \in Chase(v, m)}
  BY DEF Act
<1>2. Good(v)
  BY <1>1, UseAbilitiesIsGood
<1>3. CASE v.mob[m].target # NoSock
  <2>1. PICK x \in Chase(v, m) : u \in UNION {GiveUp(y, m) : y \in Strike(x, m)}
    BY <1>1, <1>3
  <2>2. PICK y \in Strike(x, m) : u \in GiveUp(y, m)
    BY <2>1
  <2>3. Alive(v, m)
    BY <1>2, <1>3 DEF Good, Coherent, Alive
  <2>4. Good(x) /\ Alive(x, m)
    <3>1. x = v \/ \E d \in 0 .. MaxAway : x = [v EXCEPT !.mob[m].away = d]
      BY DEF Chase
    <3>2. CASE x = v
      BY <1>2, <2>3, <3>2
    <3>3. ASSUME NEW d \in 0 .. MaxAway, x = [v EXCEPT !.mob[m].away = d]
          PROVE  Good(x) /\ x.mob[m].state = v.mob[m].state
      BY <1>2, <3>3, WithAway
    <3>4. QED BY <2>3, <3>1, <3>2, <3>3 DEF Alive
  <2>5. Good(y) /\ Alive(y, m)
    BY <2>4, HurtIsGood DEF Strike
  <2>6. QED BY <2>2, <2>5, RetreatIsGood DEF GiveUp
<1>4. QED BY <1>1, <1>2, <1>3

LEMMA AfterBuffsIsGood ==
  ASSUME troop \in Troops, NEW w, Good(w), NEW m \in MobIds, NEW u \in AfterBuffs(w, m)
  PROVE  Good(u)
BY ActIsGood, WithStyle DEF AfterBuffs, Fights

-----------------------------------------------------------------------------
(* The steps.                                                              *)

LEMMA InitIInv == Init => IInv
<1> SUFFICES ASSUME Init PROVE IInv
  OBVIOUS
<1>1. world \in World
  BY NewMobIsCoherent, TroopsAreLoadable DEF Init, World, Troop
<1>2. QED BY <1>1, NewMobIsCoherent DEF Init, IInv, Good

\* The NPC timer.
LEMMA StepIsGood ==
  ASSUME IInv, NEW m \in MobIds, Step(m)
  PROVE  Good(world')
<1> USE DEF IInv, Awake
<1>1. CASE StepLost(m)
  BY <1>1, AggroOrRetreatIsGood DEF StepLost, Alive
<1>2. CASE StepFight(m)
  <2>1. PICK v \in TickBuffs(world, m) : world' \in AfterBuffs(v, m)
    BY <1>2 DEF StepFight
  <2>2. QED BY <1>2, <2>1, TickBuffsIsGood, AfterBuffsIsGood DEF StepFight, Fights
<1>3. CASE StepRoaming(m)
  BY <1>3, AggroCheckIsGood DEF StepRoaming, Alive
<1>4. CASE StepRetreat(m)
  <2>1. world.mob[m].away \in 0 .. MaxAway
    BY DEF Good, World, Mob
  <2>2. CASE world.mob[m].away > 0
    <3>1. world.mob[m].away - 1 \in 0 .. MaxAway
      BY <2>1, <2>2, TroopsAreLoadable
    <3>2. world' = [world EXCEPT !.mob[m].away = world.mob[m].away - 1]
      BY <1>4, <2>2 DEF StepRetreat
    <3>3. QED BY <3>1, <3>2, WithAway
  <2>3. QED BY <1>4, <2>1, <2>2, RoamStartIsGood DEF StepRetreat, Fights
<1>5. CASE StepDead(m)
  <2> DEFINE b == [world.mob[m] EXCEPT !.despawned = TRUE]
             v == [world EXCEPT !.mob[m] = NewMob]
  <2>1. b \in Mob /\ Coherent(b)
    BY DEF Good, World, Mob, Coherent
  <2>2. world' = [world EXCEPT !.mob[m] = b] \/ world' = [v EXCEPT !.present = @ \ {m}]
    BY <1>5 DEF StepDead
  <2>3. Good(v)
    BY NewMobIsCoherent, WithMob
  <2> HIDE DEF b, v
  <2>4. Good([v EXCEPT !.present = @ \ {m}])
    BY <2>3 DEF Good, World
  <2>5. QED BY <2>1, <2>2, <2>4, WithMob
<1>6. CASE StepRespawn(m)
  BY <1>6, RoamStartIsGood DEF StepRespawn, Fights
<1>7. QED BY <1>1, <1>2, <1>3, <1>4, <1>5, <1>6 DEF Step

\* What players do.
LEMMA PlayerIsGood ==
  ASSUME IInv, NEW s \in Socks,
         \/ Join(s) \/ Leave(s) \/ Walk(s) \/ Perish(s) \/ Revive(s)
         \/ \E m \in MobIds : Attack(s, m) \/ UseNano(s, m)
  PROVE  Good(world')
<1> USE DEF IInv, Good, World
<1>1. CASE Join(s)
  BY <1>1 DEF Join
<1>2. CASE Leave(s)
  BY <1>2 DEF Leave
<1>3. CASE Walk(s)
  BY <1>3 DEF Walk
<1>4. CASE Perish(s)
  BY <1>4 DEF Perish
<1>5. CASE Revive(s)
  BY <1>5 DEF Revive
<1>6. ASSUME NEW m \in MobIds, Attack(s, m) PROVE Good(world')
  BY <1>6, TakeDamageIsGood DEF Attack, MayKill
<1>7. ASSUME NEW m \in MobIds, UseNano(s, m) PROVE Good(world')
  BY <1>7, AfflictIsGood DEF UseNano, Buffs
<1>8. QED BY <1>1, <1>2, <1>3, <1>4, <1>5, <1>6, <1>7

LEMMA NextIInv == IInv /\ [Next]_vars => IInv'
<1> SUFFICES ASSUME IInv, [Next]_vars PROVE IInv'
  OBVIOUS
<1>1. CASE Next
  BY <1>1, StepIsGood, PlayerIsGood DEF Next, IInv, Good
<1>2. CASE UNCHANGED vars
  BY <1>2 DEF vars, IInv, Good, Coherent
<1>3. QED BY <1>1, <1>2

-----------------------------------------------------------------------------

\* The inductive invariant: the world is good.
THEOREM WorldIsGood == Spec => []IInv
BY InitIInv, NextIInv, PTL DEF Spec

\* Fields have their types; who is fit or near is in the game.
THEOREM TypeIsInvariant == Spec => []TypeOK
<1>1. IInv => TypeOK
  BY DEF IInv, Good, TypeOK
<1>2. QED BY <1>1, WorldIsGood, PTL

\* Mob::step() and takeDamage(): a mob has a target exactly while it fights,
\* is dead exactly when it has no health, and takes nothing out of a fight.
THEOREM StatesAlwaysAgree == Spec => []StatesAreCoherent
<1>1. IInv => StatesAreCoherent
  BY DEF IInv, Good, Coherent, StatesAreCoherent
<1>2. QED BY <1>1, WorldIsGood, PTL
=============================================================================
