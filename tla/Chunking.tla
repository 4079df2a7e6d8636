------------------------------ MODULE Chunking ------------------------------
(***************************************************************************)
(* The spatial index of the shard (Chunking.cpp) and the handlers of       *)
(* PlayerManager.cpp, NPCManager.cpp, MobAI.cpp and Eggs.cpp that move     *)
(* entities through it.                                                    *)
(*                                                                         *)
(* The world is cut into chunks.  A chunk exists while it holds an entity; *)
(* an entity sees the chunks around its own.  The index is redundant: the  *)
(* entity caches its chunk and the chunks it sees, a chunk counts its      *)
(* players, a mob counts the players that see it (its AI sleeps at zero)   *)
(* and every client has been told which entities to draw.  All of it is    *)
(* maintained incrementally, one handler at a time: the shard thread runs  *)
(* every packet handler and every timer to completion, so each handler is  *)
(* one action here, written as the composition of the calls it makes.      *)
(***************************************************************************)
EXTENDS Integers, FiniteSets, Functions

CONSTANTS
  Players,    \* CNSocket* keys of PlayerManager::players
  Mobs,       \* ids of NPCs of kind MOB
  Eggs,       \* ids of NPCs of kind EGG
  Props,      \* ids of NPCs of kind SIMPLE_NPC or BUS
  Cells,      \* the (x, y) part of a chunk position
  Adjacent,   \* Adjacent[x]: the cells of the 3x3 block around x
  Maps,       \* instance ids whose upper half, the player id, is zero
  Overworld,  \* INSTANCE_OVERWORLD, one of Maps
  Private,    \* instance ids made for one player, (iID << 32) + map number
  BaseMap,    \* MAPNUM: the map a private instance is a copy of
  Owner,      \* the player whose id is in the upper half
  Spawn,      \* the NPCs TableData loads at start, and where
  Summonable, \* bound: the ids summonNPC() may hand out
  NoChunk,    \* Chunking::INVALID_CHUNK
  NoInst      \* its instance number, (uint64_t) -1

NPCs == Mobs \cup Eggs \cup Props
Entities == Players \cup NPCs
Insts == Maps \cup Private
Places == Cells \X Insts
Pos == Places \cup {NoChunk}

ASSUME KindsAreDisjoint ==
  /\ Players \cap NPCs = {}
  /\ Mobs \cap (Eggs \cup Props) = {}
  /\ Eggs \cap Props = {}
  /\ IsFiniteSet(Players)
ASSUME AdjacencyIsSymmetric ==
  /\ Adjacent \in [Cells -> SUBSET Cells]
  /\ \A x \in Cells : x \in Adjacent[x] /\ IsFiniteSet(Adjacent[x])
  /\ \A x, y \in Cells : y \in Adjacent[x] => x \in Adjacent[y]
ASSUME InstancesAreKeyed ==
  /\ Maps \cap Private = {}
  /\ Overworld \in Maps
  /\ NoInst \notin Insts
  /\ NoChunk \notin Places
  /\ BaseMap \in [Private -> Maps]
  /\ Owner \in [Private -> Players]
ASSUME SpawnsAreNPCs ==
  /\ DOMAIN Spawn \subseteq NPCs
  /\ Summonable \subseteq Mobs \cup Props
  /\ \A e \in DOMAIN Spawn : Spawn[e] \in Cells \X Maps

InstOf(c) == IF c = NoChunk THEN NoInst ELSE c[2]

\* Positions of the 3x3 block around c.  Nothing is ever adjacent to
\* INVALID_CHUNK but itself, as no chunk has its instance number.
Near(c) == IF c = NoChunk THEN {NoChunk}
           ELSE {<<x, c[2]>> : x \in Adjacent[c[1]]}

-----------------------------------------------------------------------------
(***************************************************************************)
(* One record holds what the handlers change.                              *)
(*   live      keys of Chunking::chunks                                    *)
(*   ents      Chunk::entities of each chunk, {} where there is none       *)
(*   nplayers  Chunk::nplayers                                             *)
(*   here      keys of PlayerManager::players and NPCManager::NPCs         *)
(*   pos       Entity::chunkPos                                            *)
(*   views     Entity::viewableChunks                                      *)
(*   at        the place x, y, z and instanceID stand for                  *)
(*   home      Mob::spawnX, spawnY, spawnZ                                *)
(*   up        entities that are isExtant(): hp > 0, not a dead egg        *)
(*   seen      Mob::playersInView                                          *)
(*   summoned  Mob::summoned                                               *)
(*   gone      Mob::despawned of a dead mob                                *)
(*   told      the entities the client of a player was told to draw        *)
(***************************************************************************)
VARIABLE world

World == [live : SUBSET Pos, ents : [Pos -> SUBSET Entities],
          nplayers : [Pos -> Nat], here : SUBSET Entities,
          pos : [Entities -> Pos], views : [Entities -> SUBSET Pos],
          at : [Entities -> Pos], home : [Entities -> Pos], up : SUBSET Entities,
          seen : [Mobs -> Int], summoned : SUBSET NPCs, gone : SUBSET Mobs,
          told : [Players -> SUBSET Entities]]

Viewable(w, c) == Near(c) \cap w.live

EntitiesIn(w, C) == UNION {w.ents[c] : c \in C}

\* Both caches are pointers into `chunks', so a chunk that comes or goes is
\* added to or erased from the caches of the entities around it.
NewChunk(w, c) ==
  IF c \in w.live THEN w
  ELSE [w EXCEPT !.live = @ \cup {c},
                 !.ents[c] = {},
                 !.nplayers[c] = 0,
                 !.views = [e \in Entities |->
                   IF e \in EntitiesIn(w, Viewable(w, c))
                   THEN @[e] \cup {c} ELSE @[e]]]

\* Mutant: the caches around the chunk keep their pointers to it.
DeleteChunkOnly(w, c) ==
  IF c \notin w.live THEN w
  ELSE [w EXCEPT !.live = @ \ {c}, !.ents[c] = {}, !.nplayers[c] = 0]

DeleteChunk(w, c) ==
  IF c \notin w.live THEN w
  ELSE [w EXCEPT !.live = @ \ {c},
                 !.ents[c] = {},
                 !.nplayers[c] = 0,
                 !.views = [e \in Entities |->
                   IF e \in EntitiesIn(w, Viewable(w, c))
                   THEN @[e] \ {c} ELSE @[e]]]

TrackEntity(w, c, e) ==
  IF c \notin w.live THEN w
  ELSE [w EXCEPT !.ents[c] = @ \cup {e},
                 !.nplayers[c] = IF e \in Players THEN @ + 1 ELSE @]

\* Mutants: the empty chunk is kept; the player is still counted; any entity
\* counts as a player.
UntrackAndKeep(w, c, e) ==
  IF c \notin w.live THEN w
  ELSE [w EXCEPT !.ents[c] = @ \ {e},
                 !.nplayers[c] = IF e \in Players THEN @ - 1 ELSE @]

UntrackUncounted(w, c, e) ==
  IF c \notin w.live THEN w
  ELSE LET v == [w EXCEPT !.ents[c] = @ \ {e}]
       IN IF v.ents[c] = {} THEN DeleteChunk(v, c) ELSE v

UntrackAnyKind(w, c, e) ==
  IF c \notin w.live THEN w
  ELSE LET v == [w EXCEPT !.ents[c] = @ \ {e}, !.nplayers[c] = @ - 1]
       IN IF v.ents[c] = {} THEN DeleteChunk(v, c) ELSE v

UntrackEntity(w, c, e) ==
  IF c \notin w.live THEN w
  ELSE LET v == [w EXCEPT !.ents[c] = @ \ {e},
                          !.nplayers[c] = IF e \in Players THEN @ - 1 ELSE @]
       IN IF v.ents[c] = {} THEN DeleteChunk(v, c) ELSE v

\* How many players a mob gains or loses sight of when e is shown to, or
\* hidden from, the chunks C: one for each chunk that lists the other one.
Sightings(w, C, e, m) ==
  IF m = e
  THEN Cardinality({cp \in C \X Players : cp[2] \in w.ents[cp[1]]})
  ELSE IF e \in Players THEN Cardinality({c \in C : m \in w.ents[c]}) ELSE 0

AddEntityToChunks(w, C, e) ==
  LET others == EntitiesIn(w, C) \ {e}
  IN [w EXCEPT !.told = [p \in Players |->
                  IF p = e THEN @[p] \cup (others \cap w.up)
                  ELSE IF p \in others /\ e \in w.up THEN @[p] \cup {e}
                  ELSE @[p]],
               !.seen = [m \in Mobs |-> @[m] + Sightings(w, C, e, m)]]

RemoveEntityFromChunks(w, C, e) ==
  LET others == EntitiesIn(w, C) \ {e}
  IN [w EXCEPT !.told = [p \in Players |->
                  IF p = e THEN @[p] \ (others \cap w.up)
                  ELSE IF p \in others /\ e \in w.up THEN @[p] \ {e}
                  ELSE @[p]],
               !.seen = [m \in Mobs |-> @[m] - Sightings(w, C, e, m)]]

\* The difference of the two views is taken after the chunks were created
\* and deleted, so that an entity that crosses a border is neither hidden
\* from nor shown again to those who see both sides.
UpdateEntityChunk(w, e, from, to) ==
  LET moved == TrackEntity(NewChunk(UntrackEntity(w, from, e), to), to, e)
      old == Viewable(moved, from)
      new == Viewable(moved, to)
      shown == AddEntityToChunks(RemoveEntityFromChunks(moved, old \ new, e),
                                 new \ old, e)
  IN [shown EXCEPT !.pos[e] = to, !.views[e] = new]

-----------------------------------------------------------------------------
(* Instances.                                                              *)

ChunksInMap(w, i) == {c \in w.live : InstOf(c) = i}

\* Entity objects that were freed.  Their fields take a fixed value.
Freed(w, S) ==
  [w EXCEPT !.here = @ \ S, !.up = @ \ S, !.summoned = @ \ S, !.gone = @ \ S,
            !.pos = [e \in Entities |-> IF e \in S THEN NoChunk ELSE @[e]],
            !.at = [e \in Entities |-> IF e \in S THEN NoChunk ELSE @[e]],
            !.home = [e \in Entities |-> IF e \in S THEN NoChunk ELSE @[e]],
            !.views = [e \in Entities |-> IF e \in S THEN {} ELSE @[e]],
            !.seen = [m \in Mobs |-> IF m \in S THEN 0 ELSE @[m]],
            !.told = [p \in Players |-> IF p \in S THEN {} ELSE @[p]]]

\* Mutant: the players still in the instance are not looked for.
DestroyInstance(w, i) ==
  LET C == ChunksInMap(w, i)
  IN IF i \notin Private THEN w
     ELSE Freed([w EXCEPT !.live = @ \ C,
                          !.ents = [c \in Pos |-> IF c \in C THEN {} ELSE @[c]],
                          !.nplayers = [c \in Pos |-> IF c \in C THEN 0 ELSE @[c]]],
                EntitiesIn(w, C) \ Players)

\* Every entity of a map without players is destroyed, one destroyNPC()
\* after the other.  Nobody sees it happen: no entity of another instance
\* sees these chunks.
DestroyInstanceIfEmpty(w, i) ==
  LET C == ChunksInMap(w, i)
  IN IF i \notin Private \/ \E c \in C : w.nplayers[c] > 0 THEN w
     ELSE Freed([w EXCEPT !.live = @ \ C,
                          !.ents = [c \in Pos |-> IF c \in C THEN {} ELSE @[c]],
                          !.nplayers = [c \in Pos |-> IF c \in C THEN 0 ELSE @[c]]],
                EntitiesIn(w, C))

\* The NPCs of the base map, each of which createInstance() copies.
Originals(w, i) ==
  EntitiesIn(w, ChunksInMap(w, BaseMap[i])) \ Players

\* An id is not used again while some client still draws its last bearer
\* (the server counts nextId down and never reuses an id).
Unused(w) == {e \in NPCs : e \notin w.here /\ \A p \in Players : e \notin w.told[p]}

\* The ways to name the copies.  A copy of a mob is a mob, a copy of anything
\* else is a SIMPLE_NPC; an instance that exists is not made again.
Copyings(w, i) ==
  IF ChunksInMap(w, i) # {} THEN {<<>>}
  ELSE {copy \in Injection(Originals(w, i), Unused(w)) :
          \A e \in Originals(w, i) :
            copy[e] \in (IF e \in Mobs THEN Mobs ELSE Props)}

\* Mutant: the copies do not know their view.
CreateUnviewed(w, i, copy) ==
  IF ChunksInMap(w, i) # {} THEN w
  ELSE LET there(e) == <<w.at[e][1], i>>
           new == {copy[e] : e \in Originals(w, i)}
           orig(f) == CHOOSE e \in Originals(w, i) : copy[e] = f
           made == {there(e) : e \in Originals(w, i)}
           places(g) == [f \in Entities |-> IF f \in new THEN there(orig(f)) ELSE g[f]]
       IN [w EXCEPT
             !.live = @ \cup made,
             !.ents = [c \in Pos |-> IF c \in made
                         THEN {f \in new : there(orig(f)) = c} ELSE @[c]],
             !.here = @ \cup new,
             !.up = @ \cup new,
             !.pos = places(@), !.at = places(@), !.home = places(@)]

\* createInstance().
\* The copies stand where their originals stand, which for a mob that died
\* away from its spawn point is not the chunk the original is tracked in.
CreateInstance(w, i, copy) ==
  IF ChunksInMap(w, i) # {} THEN w
  ELSE LET there(e) == <<w.at[e][1], i>>
           new == {copy[e] : e \in Originals(w, i)}
           orig(f) == CHOOSE e \in Originals(w, i) : copy[e] = f
           made == {there(e) : e \in Originals(w, i)}
           live == w.live \cup made
           places(g) == [f \in Entities |-> IF f \in new THEN there(orig(f)) ELSE g[f]]
       IN [w EXCEPT
             !.live = live,
             !.ents = [c \in Pos |-> IF c \in made
                         THEN {f \in new : there(orig(f)) = c} ELSE @[c]],
             !.here = @ \cup new,
             !.up = @ \cup new,
             !.pos = places(@), !.at = places(@), !.home = places(@),
             !.views = [f \in Entities |-> IF f \in new
                         THEN Near(there(orig(f))) \cap live ELSE @[f]]]

-----------------------------------------------------------------------------
(* Players.                                                                *)

\* addPlayer(), at the end of enterPlayer(): the player stands at its saved
\* coordinates, in the overworld, and in no chunk until it has loaded.
EnterPlayer(p, x) ==
  /\ p \notin world.here
  /\ world' = [world EXCEPT !.here = @ \cup {p}, !.up = @ \cup {p},
                            !.at[p] = <<x, Overworld>>, !.pos[p] = NoChunk]

UpdatePlayerPosition(w, p, c) ==
  LET v == [w EXCEPT !.at[p] = c]
  IN IF w.pos[p] = c THEN v ELSE UpdateEntityChunk(v, p, w.pos[p], c)

\* loadPlayer(), and every packet that reports a movement: the client sends
\* coordinates, the instance is the one the server knows.
MovePlayer(p, x) ==
  /\ p \in world.here
  /\ world' = UpdatePlayerPosition(world, p, <<x, InstOf(world.at[p])>>)

\* updatePlayerPositionForWarp(): the detour over INVALID_CHUNK, a chunk
\* that exists for the time of the call, makes the client reload its view.
WarpPosition(w, p, c) ==
  UpdatePlayerPosition(UpdateEntityChunk(w, p, w.pos[p], NoChunk), p, c)

\* Mutant: nobody cleans up behind the player.
SendAndLeave(w, p, c) == WarpPosition(w, p, c)

SendPlayerTo(w, p, c) ==
  DestroyInstanceIfEmpty(WarpPosition(w, p, c), InstOf(w.at[p]))

\* A warp, recall, revival or teleport command: to a public map, to where
\* another player is, or within the player's own instance.
WarpPlayer(p, c) ==
  /\ p \in world.here
  /\ InstOf(c) \in Maps \cup {InstOf(world.at[q]) : q \in Players \cap world.here}
  /\ world' = SendPlayerTo(world, p, c)

\* transportWarpHandler(), by S.C.A.M.P.E.R.: the low-level helper only, from
\* wherever the player is, and nobody cleans up behind it.
TransportWarp(p, x) ==
  /\ p \in world.here
  /\ world' = WarpPosition(world, p, <<x, Overworld>>)

\* The members of a group are sent one after the other; a group has at most
\* four (Groups.cpp).
SendMember(w, party, n, c) ==
  IF n \in DOMAIN party THEN SendPlayerTo(w, party[n], c) ELSE w

\* handleWarp() through a warp that makes a private instance: the instance
\* bears the id of the group's leader and the whole group goes there.
WarpIntoInstance(party, i, x, copy) ==
  /\ party[1] = Owner[i]
  /\ world' = LET c == <<x, i>>
                  w == CreateInstance(world, i, copy)
              IN SendMember(SendMember(SendMember(SendMember(w,
                   party, 1, c), party, 2, c), party, 3, c), party, 4, c)

Parties(w) ==
  {q \in UNION {[1..n -> Players \cap w.here] : n \in 1..4} : IsInjective(q)}

\* Mutant: the player stays in the list of its chunk.
RemoveListed(p) ==
  /\ p \in world.here
  /\ world' = LET hidden == RemoveEntityFromChunks(world, Viewable(world, world.pos[p]), p)
              IN DestroyInstanceIfEmpty(Freed(hidden, {p}), InstOf(world.at[p]))

\* removePlayer(): the chunks are cleaned before the player is freed, and
\* the instance it leaves behind after.
RemovePlayer(p) ==
  /\ p \in world.here
  /\ world' = LET c == world.pos[p]
                  hidden == RemoveEntityFromChunks(world, Viewable(world, c), p)
              IN DestroyInstanceIfEmpty(Freed(UntrackEntity(hidden, c, p), {p}),
                                        InstOf(world.at[p]))

-----------------------------------------------------------------------------
(* Mobs, eggs and other NPCs.                                              *)

UpdateNPCPosition(w, e, c) ==
  LET v == [w EXCEPT !.at[e] = c]
  IN IF w.pos[e] = c THEN v ELSE UpdateEntityChunk(v, e, w.pos[e], c)

\* A mob roams or pursues, any other NPC follows its path.  The dead do not
\* move: stepNPCPathing() walks the routes of roaming mobs only.
MoveNPC(e, x) ==
  /\ e \in (Mobs \cup Props) \cap world.here
  /\ e \in Mobs => e \in world.up
  /\ world' = UpdateNPCPosition(world, e, <<x, InstOf(world.at[e])>>)

\* retreatStep() walks home in coordinates; the chunks are not updated.
RetreatMob(m, x) ==
  /\ m \in Mobs \cap world.here \cap world.up
  /\ world' = [world EXCEPT !.at[m] = <<x, InstOf(@)>>]

\* summonNPC() and the updateNPCPosition() every caller adds, next to a
\* player; a mob summoned with `respawn' comes back after its death.
SummonNPC(e, p, respawn) ==
  /\ e \in Summonable \cap Unused(world)
  /\ p \in world.here
  /\ LET v == [world EXCEPT !.here = @ \cup {e}, !.up = @ \cup {e},
                            !.home[e] = world.at[p],
                            !.summoned = IF respawn THEN @ ELSE @ \cup {e}]
     IN world' = UpdateNPCPosition(v, e, world.at[p])

\* destroyNPC(): the NPC leaves its chunk first, and the players around it
\* are told after.
DestroyNPC(w, e) ==
  LET v == UntrackEntity(w, w.pos[e], e)
  IN IF w.pos[e] \notin w.live THEN w
     ELSE Freed(RemoveEntityFromChunks(v, Viewable(v, w.pos[e]), e), {e})

UnsummonNPC(e) ==
  /\ e \in NPCs \cap world.here
  /\ world' = DestroyNPC(world, e)

\* A mob's hp reaches zero.  No client is told: it draws the corpse.
KillMob(m) ==
  /\ m \in Mobs \cap world.up
  /\ world' = [world EXCEPT !.up = @ \ {m}, !.gone = @ \ {m}]

\* The players the cached view of e leads to, who get a sendToViewable().
Audience(w, e) == EntitiesIn(w, w.views[e]) \cap Players

\* deadStep(), two seconds after the death.  The corpse is removed from the
\* clients around it; a summoned mob is queued and destroyed at the end of
\* the same timer, another one stands at its spawn point again, in
\* coordinates though not in chunks.
DespawnMob(m) ==
  /\ m \in (Mobs \cap world.here) \ (world.up \cup world.gone)
  /\ LET v == [world EXCEPT
                 !.gone = @ \cup {m},
                 !.told = [p \in Players |->
                   IF p \in Audience(world, m) THEN @[p] \ {m} ELSE @[p]]]
     IN world' = IF m \in world.summoned THEN DestroyNPC(v, m)
                 ELSE [v EXCEPT !.at[m] = world.home[m]]

\* Mutant: a dead mob that nobody sees sleeps like a living one.
RespawnInView(m, l) ==
  /\ m \in (world.gone \ world.up) \cap world.here
  /\ world.seen[m] > 0
  /\ l \in Mobs \cap world.here
  /\ InstOf(world.at[l]) = InstOf(world.at[m])
  /\ world' = [world EXCEPT
       !.up = @ \cup {m}, !.gone = @ \ {m}, !.at[m] = world.at[l],
       !.told = [p \in Players |->
         IF p \in Audience(world, m) THEN @[p] \cup {m} ELSE @[p]]]

\* deadStep(), once regenTime has passed.  A member of a mob group stands
\* where its leader l is.
RespawnMob(m, l) ==
  /\ m \in (world.gone \ world.up) \cap world.here
  /\ l \in Mobs \cap world.here
  /\ InstOf(world.at[l]) = InstOf(world.at[m])
  /\ world' = [world EXCEPT
       !.up = @ \cup {m}, !.gone = @ \ {m}, !.at[m] = world.at[l],
       !.told = [p \in Players |->
         IF p \in Audience(world, m) THEN @[p] \cup {m} ELSE @[p]]]

\* eggPickup() of an egg that grows back.  The clients are told while the
\* egg is still extant; afterwards they could not be.
PickUpEgg(g) ==
  /\ g \in Eggs \cap world.up
  /\ LET v == RemoveEntityFromChunks(world, Viewable(world, world.pos[g]), g)
     IN world' = [v EXCEPT !.up = @ \ {g}]

\* Mutant: the egg comes back after it is shown.
RegrowLast(g) ==
  /\ g \in (Eggs \cap world.here) \ world.up
  /\ \E c \in world.views[g] : world.nplayers[c] > 0
  /\ LET v == AddEntityToChunks(world, Viewable(world, world.pos[g]), g)
     IN world' = [v EXCEPT !.up = @ \cup {g}]

\* eggStep(): a dead egg whose surroundings hold a player comes back.
RegrowEgg(g) ==
  /\ g \in (Eggs \cap world.here) \ world.up
  /\ \E c \in world.views[g] : world.nplayers[c] > 0
  /\ LET v == [world EXCEPT !.up = @ \cup {g}]
     IN world' = AddEntityToChunks(v, Viewable(v, v.pos[g]), g)

-----------------------------------------------------------------------------
\* The NPCs of the tables, placed by TableData::init(), and no player.
Init ==
  LET live == {Spawn[e] : e \in DOMAIN Spawn}
      pos == [e \in Entities |-> IF e \in DOMAIN Spawn THEN Spawn[e] ELSE NoChunk]
  IN world = [live |-> live,
              ents |-> [c \in Pos |-> {e \in DOMAIN Spawn : Spawn[e] = c}],
              nplayers |-> [c \in Pos |-> 0],
              here |-> DOMAIN Spawn,
              pos |-> pos,
              views |-> [e \in Entities |-> IF e \in DOMAIN Spawn
                           THEN Near(Spawn[e]) \cap live ELSE {}],
              at |-> pos,
              home |-> pos,
              up |-> DOMAIN Spawn,
              seen |-> [m \in Mobs |-> 0],
              summoned |-> {},
              gone |-> {},
              told |-> [p \in Players |-> {}]]

PlayerNext ==
  \/ \E p \in Players, x \in Cells : EnterPlayer(p, x)
  \/ \E p \in Players, x \in Cells : MovePlayer(p, x)
  \/ \E p \in Players, c \in Places : WarpPlayer(p, c)
  \/ \E party \in Parties(world), i \in Private, x \in Cells :
       \E copy \in Copyings(world, i) : WarpIntoInstance(party, i, x, copy)
  \/ \E p \in Players : RemovePlayer(p)

NPCNext ==
  \/ \E e \in Mobs \cup Props, x \in Cells : MoveNPC(e, x)
  \/ \E m \in Mobs, x \in Cells : RetreatMob(m, x)
  \/ \E e \in Summonable, p \in Players, r \in BOOLEAN : SummonNPC(e, p, r)
  \/ \E e \in NPCs : UnsummonNPC(e)
  \/ \E m \in Mobs : KillMob(m)
  \/ \E m \in Mobs : DespawnMob(m)
  \/ \E m, l \in Mobs : RespawnMob(m, l)
  \/ \E g \in Eggs : PickUpEgg(g)
  \/ \E g \in Eggs : RegrowEgg(g)

TransportNext == \E p \in Players, x \in Cells : TransportWarp(p, x)

Next == PlayerNext \/ NPCNext \/ TransportNext

Spec == Init /\ [][Next]_world

\* Mob::step() runs deadStep() for a dead mob whether or not it is in view,
\* and eggStep() visits every egg each second.
FairSpec ==
  /\ Spec
  /\ \A m \in Mobs : WF_world(DespawnMob(m)) /\ WF_world(\E l \in Mobs : RespawnMob(m, l))
  /\ \A g \in Eggs : WF_world(RegrowEgg(g))

-----------------------------------------------------------------------------
(* What the index promises between two handlers.                           *)

\* The type of the state.
TypeOK == world \in World

Placed(e) == e \in world.here /\ world.pos[e] # NoChunk

\* An entity is listed by the chunk it believes to be in and by no other, and
\* nothing that was freed is listed: EntityRef::getEntity() asserts as much
\* whenever a chunk is walked.
IndexAgrees ==
  \A c \in Pos : world.ents[c] = {e \in Entities : Placed(e) /\ world.pos[e] = c}

\* Exactly the chunks that hold an entity exist; in particular the detour of
\* a warp over INVALID_CHUNK leaves no chunk behind.
LiveIffPopulated ==
  world.live = {c \in Pos : world.ents[c] # {}}

\* nplayers is the number of players in the chunk, so the assertion in
\* untrackEntity() holds and inPopulatedChunks() and the clean-up of
\* instances are right to rely on it.
PlayersCounted ==
  \A c \in Pos : world.nplayers[c] = Cardinality(world.ents[c] \cap Players)

\* The two caches that outlive a handler are right.  The view of an entity is
\* the set of existing chunks around it: every sendToViewable() walks it, and
\* a pointer to a deleted chunk in it would be a use after free.  And a mob's
\* AI runs when somebody sees it: playersInView, counted up and down by every
\* arrival and departure of either side, is the number of players around.
CachesFresh ==
  /\ \A e \in Entities :
       world.views[e] = IF Placed(e) THEN Viewable(world, world.pos[e]) ELSE {}
  /\ \A m \in Mobs \cap world.here :
       world.seen[m] = Cardinality({p \in Players :
                         Placed(p) /\ world.pos[p] \in Near(world.pos[m])})

\* A client has been told of every entity its player can see, and draws
\* nothing else, mobs excepted: the corpse of a mob stays with the clients
\* that left before it despawned.
ClientsAgree ==
  /\ \A p \in Players, e \in Entities :
       Placed(p) /\ Placed(e) /\ e # p /\ e \in world.up /\ world.pos[e] \in Near(world.pos[p])
         => e \in world.told[p]
  /\ \A p \in Players, e \in Entities \ Mobs :
       e \in world.told[p] =>
         /\ Placed(p) /\ Placed(e) /\ e # p /\ e \in world.up
         /\ world.pos[e] \in Near(world.pos[p])

\* All of the above: instances are made and destroyed with the same care.
IndexIntact ==
  /\ IndexAgrees /\ LiveIffPopulated /\ PlayersCounted /\ CachesFresh /\ ClientsAgree

Orphaned(i) ==
  /\ ChunksInMap(world, i) # {}
  /\ \A p \in Players : ~(Placed(p) /\ InstOf(world.pos[p]) = i)

\* No NPC of a lair is left behind by the last one who leaves: recalled,
\* teleported, revived, warped with a group, thrown out or logged out, it is
\* followed by destroyInstanceIfEmpty().  S.C.A.M.P.E.R. alone abandons lairs,
\* and only the one its rider was in.
NoLairIsAbandoned ==
  [][\A i \in Private : Orphaned(i)' /\ ~Orphaned(i) =>
       /\ ~(PlayerNext \/ NPCNext)
       /\ \E p \in Players : InstOf(world.pos[p]) = i /\ InstOf(world'.pos[p]) = Overworld]_world

\* The clean-up that follows the departure of one player never takes away the
\* lair of those who are still there: while somebody stays in it, a lair
\* loses its NPCs one at a time, by death or by unsummoning.
LairsArePreserved ==
  [][\A i \in Private :
       (\E p \in Players : InstOf(world.pos[p]) = i /\ InstOf(world'.pos[p]) = i)
         => Cardinality({e \in NPCs \cap (world.here \ world'.here) :
                           InstOf(world.pos[e]) = i}) <= 1]_world

\* What died comes back, if it is not removed for good: a dead mob, and a
\* dead egg as long as somebody is around to see it.
DeadReturn ==
  /\ \A m \in Mobs : (m \in world.here \ world.up) ~> (m \in world.up \/ m \notin world.here)
  /\ \A g \in Eggs : (g \in world.here \ world.up) ~>
       \/ g \in world.up \/ g \notin world.here
       \/ \A c \in world.views[g] : world.nplayers[c] = 0
=============================================================================
