----------------------------- MODULE Gruntwork -----------------------------
(***************************************************************************)
(* How administrators edit the world and how their edits come back: the   *)
(* commands of CustomCommands.cpp that put down, turn, move, lead and     *)
(* take away NPCs, mobs, groups, eggs and Monkey Skyway routes, the Running*)
(* and Finished tables of TableData that remember them, flush(), which    *)
(* writes the tables to the gruntwork file, and init(), which builds the  *)
(* world from the static tables and that file.  A server that stops, in   *)
(* whatever way, writes nothing.                                          *)
(*                                                                         *)
(* NPCs of the static tables keep their ids from one start to the next;   *)
(* all others get the next id that is free, counting down.  An instance   *)
(* is a map, or one player's private copy of the lair.                    *)
(*                                                                         *)
(* Types, heights, speeds and offsets are left out, paths are absolute.   *)
(* Administrators lead no mob of the static tables (init() gives up on a  *)
(* mob whose path starts away from its spawn), lead or move nothing in a  *)
(* private lair, and do not take away what somebody is leading (the        *)
(* table would keep pointing at it).                                       *)
(***************************************************************************)
EXTENDS Integers, Sequences, FiniteSets, SequencesExt, Functions

CONSTANTS
  GMs,        \* the administrators, by player id
  Tables,     \* the NPCs, mobs and groups of the static tables, by id
  StaticIds,  \* those of them whose id comes from the tables
  FirstId,    \* the first id left for the others
  Places, Angles, Routes,
  Poses,      \* bound: where administrators stand, and which way they face
  NoOne,      \* leads nobody
  MaxSize,    \* bound: mobs in a group
  MaxCommands,\* bound: commands, and steps of those who lead somebody
  MaxDynamic, \* bound: ids handed out between two starts
  MaxPoints,  \* bound: keyframes of a path or a route
  MaxPaths    \* bound: paths in the file

Open == 0          \* INSTANCE_OVERWORLD
Template == 1      \* the map of the lair
Private == 2       \* a player's copy of it
MapNum(inst) == IF inst = Private THEN Template ELSE inst
Ids == (FirstId - MaxDynamic + 1 .. FirstId) \cup DOMAIN Tables
Sequences(S, n) == UNION {[1..k -> S] : k \in 0..n}
Npc == [kind : {"npc", "mob", "egg"}, angle : Angles, inst : {Open, Template, Private},
        spawn : Places, at : Places, leader : Ids \cup {0}, members : Sequences(Ids, 4),
        path : Sequences(Places, MaxPoints), loops : BOOLEAN]

ASSUME TablesAreSound ==
  /\ StaticIds \subseteq DOMAIN Tables /\ 0 \in Angles /\ Poses \subseteq Places \X Angles
  /\ \A id \in DOMAIN Tables : id > FirstId \/ id \in 1..(FirstId - MaxDynamic)
  /\ {MaxSize, MaxCommands, MaxDynamic, MaxPoints, MaxPaths, FirstId} \subseteq Nat /\ MaxSize \in 1..5

VARIABLES
  world,  \* NPCManager::NPCs and nextId, Transport::NPCQueues, and
          \*   TableData's Running* and FinishedNPCPaths
  lead,   \* RunningNPCPaths: whom an administrator leads, and the keyframes
  where,  \* Player::instanceID of the administrators
  file,   \* the gruntwork file
  commands \* bound: those given so far

vars == <<world, lead, where, file, commands>>

-----------------------------------------------------------------------------
(* NPCs                                                                    *)

Alive(w) == DOMAIN w.npcs
Made(kind, angle, inst, place) ==
  [kind |-> kind, angle |-> angle, inst |-> inst, spawn |-> place, at |-> place,
   leader |-> 0, members |-> <<>>, path |-> <<>>, loops |-> FALSE]

\* NPCs[nextId--] = n.
Born(w, n) == [w EXCEPT !.npcs = [id \in {w.nextId} \cup DOMAIN @ |-> IF id = w.nextId THEN n ELSE @[id]],
                        !.nextId = @ - 1]
Destroy(w, ids) == [w EXCEPT !.npcs = [id \in DOMAIN @ \ ids |-> @[id]]]

\* A member that joins the group of the leader.
Join(w, leader, n) ==
  LET born == Born(w, [n EXCEPT !.leader = leader])
  IN [born EXCEPT !.npcs[leader].members = Append(@, w.nextId)]

Room(w, n) == w.nextId - n >= FirstId - MaxDynamic

-----------------------------------------------------------------------------
(* TableData.cpp                                                           *)

Nothing == [routes |-> <<>>, rotations |-> <<>>, instances |-> <<>>, mobs |-> <<>>,
            groups |-> <<>>, eggs |-> <<>>, paths |-> <<>>]
Ordered(ids) == SetToSortSeq(ids, <)
Written(w, ids) ==
  LET live == Ordered(ids \cap Alive(w)) IN [i \in DOMAIN live |-> w.npcs[live[i]]]

Spot(n) == IF n.kind = "mob" THEN n.spawn ELSE n.at

MobEntry(n) == [kind |-> n.kind, place |-> Spot(n), map |-> MapNum(n.inst), angle |-> n.angle]
GroupEntry(w, n) == [place |-> Spot(n), map |-> MapNum(n.inst), angle |-> n.angle,
                     followers |-> Len(SelectSeq(n.members, LAMBDA id : id \in Alive(w)))]
EggEntry(n) == [place |-> n.at, map |-> MapNum(n.inst)]

\* flush().
Flush(w) ==
  LET mobs == Written(w, w.mobs)
      groups == Written(w, w.groups)
      eggs == Written(w, w.eggs)
  IN [routes |-> w.routes, rotations |-> w.rotations, instances |-> w.mapNumbers,
      mobs |-> [i \in DOMAIN mobs |-> MobEntry(mobs[i])],
      groups |-> [i \in DOMAIN groups |-> GroupEntry(w, groups[i])],
      eggs |-> [i \in DOMAIN eggs |-> EggEntry(eggs[i])], paths |-> w.finished]

\* findApplicablePath(): the first one for the NPC.
Paths(f, id) == SelectSeq(f.paths, LAMBDA p : p.npc = id)

\* constructPathNPC().
OnPath(n, p) == [n EXCEPT !.path = p.points, !.loops = TRUE]

\* loadGruntworkPre(), loadNPCs() and loadMobs(), which look for paths of the
\* NPCs whose id comes from the tables.
Start(f) ==
  [npcs |-> [id \in DOMAIN Tables |->
               IF id \in StaticIds /\ Paths(f, id) # <<>>
               THEN OnPath(Tables[id], Head(Paths(f, id))) ELSE Tables[id]],
   nextId |-> FirstId, routes |-> <<>>, rotations |-> <<>>, mapNumbers |-> <<>>,
   mobs |-> {}, groups |-> {}, eggs |-> {}, finished |-> f.paths]

\* The rotations and instances of NPCs that are there.
LoadChanges(w, f) ==
  LET turned == Restrict(f.rotations, DOMAIN f.rotations \cap Alive(w))
      moved == Restrict(f.instances, DOMAIN f.instances \cap Alive(w))
  IN [w EXCEPT !.rotations = turned, !.mapNumbers = moved,
               !.npcs = [id \in DOMAIN @ |->
                  [@[id] EXCEPT !.angle = IF id \in DOMAIN turned THEN turned[id] ELSE @,
                                !.inst = IF id \in DOMAIN moved THEN moved[id] ELSE @]]]

LoadMob(w, m) == [Born(w, Made(m.kind, m.angle, m.map, m.place)) EXCEPT !.mobs = @ \cup {w.nextId}]
LoadGroup(w, g) ==
  LET mob == Made("mob", g.angle, g.map, g.place)
      Follow(v, i) == Join(v, w.nextId, mob)
      led == [Born(w, [mob EXCEPT !.leader = w.nextId]) EXCEPT !.groups = @ \cup {w.nextId}]
  IN FoldLeft(Follow, led, [i \in 1..g.followers |-> i])
LoadEgg(w, e) == [Born(w, Made("egg", 0, e.map, e.place)) EXCEPT !.eggs = @ \cup {w.nextId}]
LoadSummoned(w, f) ==
  FoldLeft(LoadEgg, FoldLeft(LoadGroup, FoldLeft(LoadMob, w, f.mobs), f.groups), f.eggs)

\* Mutant: the changes come after the summoned NPCs, and find other NPCs
\* under the ids they were written with.
LoadLate(f) == [LoadChanges(LoadSummoned(Start(f), f), f) EXCEPT !.routes = f.routes]

\* init().
Load(f) == [LoadSummoned(LoadChanges(Start(f), f), f) EXCEPT !.routes = f.routes]

Init == /\ file = Nothing
        /\ world = Load(Nothing)
        /\ lead = [g \in GMs |-> [npc |-> NoOne, points |-> <<>>]]
        /\ where = [g \in GMs |-> Open]
        /\ commands = 0

-----------------------------------------------------------------------------
(* CustomCommands.cpp                                                      *)

Still == UNCHANGED <<lead, where, file>>
Near(g) == {id \in Alive(world) : world.npcs[id].inst = where[g]}
Leading(g) == lead[g].npc # NoOne
Led(id) == \E g \in GMs : lead[g].npc = id

\* mss: any use of a route makes it.
Route(r) == IF r \in DOMAIN world.routes THEN world.routes[r] ELSE <<>>
SetRoute(r, points) ==
  /\ world' = [world EXCEPT !.routes = [s \in {r} \cup DOMAIN @ |-> IF s = r THEN points ELSE @[s]]]
  /\ Still
MssAdd(r, p) == Len(Route(r)) < MaxPoints /\ SetRoute(r, Append(Route(r), p))
MssRemove(r) == SetRoute(r, IF Route(r) = <<>> THEN <<>> ELSE Front(Route(r)))
MssClear(r) == SetRoute(r, <<>>)

\* summonW: in a lair, there and in its map, and only the latter is kept.
RecordMob(w, id) == [w EXCEPT !.mobs = @ \cup {id}]

\* Mutant: the one in the lair is kept.
SummonHere(g, kind, angle, p) ==
  LET here == Born(world, Made(kind, angle, where[g], p))
      there == Born(here, Made(kind, angle, MapNum(where[g]), p))
  IN /\ Room(world, 2) /\ Still
     /\ world' = RecordMob(IF where[g] = Private THEN there ELSE here, world.nextId)

SummonW(g, kind, angle, p) ==
  LET here == Born(world, Made(kind, angle, where[g], p))
      there == Born(here, Made(kind, angle, MapNum(where[g]), p))
  IN /\ Room(world, 2) /\ Still
     /\ world' = IF where[g] = Private THEN RecordMob(there, here.nextId)
                                        ELSE RecordMob(here, world.nextId)

\* egg; nothing reads the angle of an egg.
PlaceEgg(g, p) ==
  /\ Room(world, 1) /\ Still
  /\ world' = [Born(world, Made("egg", 0, where[g], p)) EXCEPT !.eggs = @ \cup {world.nextId}]

\* summonGroupW: in a lair every mob is made twice; both end up in the
\* administrator's copy, and the second takes the place of the first.
SummonMob(w, leader, mob, twice) ==
  LET once == IF leader = 0 THEN Born(w, mob) ELSE Born(w, [mob EXCEPT !.leader = leader])
      made == IF twice /\ leader = 0 THEN Born(once, mob) ELSE once
      id == made.nextId + 1
  IN IF leader = 0 THEN [made EXCEPT !.npcs[id].leader = id]
     ELSE IF twice THEN Join(made, leader, mob)
     ELSE [made EXCEPT !.npcs[leader].members = Append(@, id)]
SummonGroupW(g, n, angle, p) ==
  LET mob == Made("mob", angle, where[g], p)
      twice == where[g] = Private
      led == SummonMob(world, 0, mob, twice)
      leader == led.nextId + 1
      Follow(w, i) == SummonMob(w, leader, mob, twice)
      all == FoldLeft(Follow, led, [i \in 1..(n - 1) |-> i])
  IN /\ Room(world, IF twice THEN 2 * n ELSE n) /\ Still
     /\ world' = [all EXCEPT !.groups = @ \cup {leader}]

\* unsummonW.
Members(id) == {world.npcs[id].members[i] : i \in DOMAIN world.npcs[id].members}
Unsummoned(id) ==
  IF world.npcs[id].leader # 0
  THEN [Destroy(world, Members(world.npcs[id].leader) \cup {world.npcs[id].leader})
          EXCEPT !.groups = @ \ {world.npcs[id].leader}]
  ELSE [Destroy(world, {id}) EXCEPT !.mobs = @ \ {id}]
UnsummonW(g) == \E id \in Near(g) : ~Led(id) /\ Still /\
  \/ /\ id \in world.eggs
     /\ world' = [Destroy(world, {id}) EXCEPT !.eggs = @ \ {id}]
  \/ /\ id \in (world.mobs \cup world.groups) \ world.eggs
     /\ \A m \in Members(id) : ~Led(m)
     /\ world' = Unsummoned(id)

\* npcr.
Turned(id, angle) == [world EXCEPT !.npcs[id].angle = angle]
NpcRotate(g, angle) == \E id \in Near(g) :
  /\ world' = IF id \in world.mobs THEN Turned(id, angle)
              ELSE [Turned(id, angle) EXCEPT !.rotations = [j \in {id} \cup DOMAIN @ |->
                                                            IF j = id THEN angle ELSE @[j]]]
  /\ Still

\* npci.
NpcInstance(g, map) == \E id \in Near(g) :
  /\ where[g] # Private /\ Still
  /\ world' = [world EXCEPT !.npcs[id].inst = map,
                            !.mapNumbers = [j \in {id} \cup DOMAIN @ |-> IF j = id THEN map ELSE @[j]]]

\* flush, mss export.
FlushCommand == file' = Flush(world) /\ UNCHANGED <<world, lead, where>>

-----------------------------------------------------------------------------
(* path                                                                    *)

Home(g) == Head(lead[g].points)
Sent(id, place, points, loops) ==
  [world EXCEPT !.npcs[id].at = place, !.npcs[id].angle = 0, !.npcs[id].path = points,
                !.npcs[id].loops = @ \/ loops]

PathStart(g) == \E id \in Near(g) :
  /\ ~Leading(g) /\ where[g] # Private
  /\ ~(id \in StaticIds /\ world.npcs[id].kind = "mob")
  /\ Room(world, 1)
  /\ lead' = [lead EXCEPT ![g] = [npc |-> id, points |-> <<world.npcs[id].at>>]]
  /\ world' = [world EXCEPT !.nextId = @ - 1]
  /\ UNCHANGED <<where, file>>

PathKf(g) ==
  /\ Leading(g) /\ Len(lead[g].points) < MaxPoints /\ Room(world, 1)
  /\ lead' = [lead EXCEPT ![g].points = Append(@, world.npcs[lead[g].npc].at)]
  /\ world' = [world EXCEPT !.nextId = @ - 1]
  /\ UNCHANGED <<where, file>>

PathUndo(g) ==
  /\ Leading(g) /\ Len(lead[g].points) > 1
  /\ lead' = [lead EXCEPT ![g].points = Front(@)]
  /\ UNCHANGED <<world, where, file>>

PathHere(g, p) == Leading(g) /\ world' = Sent(lead[g].npc, p, <<>>, FALSE) /\ Still

PathTest(g) == Leading(g) /\ world' = Sent(lead[g].npc, Home(g), lead[g].points, FALSE) /\ Still

PathCancel(g) ==
  /\ Leading(g)
  /\ world' = Sent(lead[g].npc, Home(g), <<>>, FALSE)
  /\ lead' = [lead EXCEPT ![g] = [npc |-> NoOne, points |-> <<>>]]
  /\ UNCHANGED <<where, file>>

\* end, which flushes.
PathEnd(g) ==
  /\ Leading(g) /\ Len(world.finished) < MaxPaths
  /\ world' = [Sent(lead[g].npc, Home(g), lead[g].points, TRUE)
                 EXCEPT !.finished = Append(@, lead[g])]
  /\ lead' = [lead EXCEPT ![g] = [npc |-> NoOne, points |-> <<>>]]
  /\ file' = Flush(world')
  /\ UNCHANGED where

\* movePlayer(): whom the player leads comes after it.
Lead(g, p) ==
  /\ Leading(g)
  /\ world' = [world EXCEPT !.npcs[lead[g].npc].path = <<p>>]
  /\ Still

\* stepNPCPathing().
Walk(id) ==
  /\ world.npcs[id].path # <<>>
  /\ world' = [world EXCEPT !.npcs[id].at = Head(world.npcs[id].path),
                            !.npcs[id].path = IF world.npcs[id].loops
                                              THEN Append(Tail(@), Head(@)) ELSE Tail(@)]
  /\ Still

-----------------------------------------------------------------------------
(* The lair, and starts                                                    *)

\* createInstance(): groups are copied with their leader, eggs as NPCs.
CopyOf(n) == [Made(IF n.kind = "egg" THEN "npc" ELSE n.kind, n.angle, Private, n.at)
                EXCEPT !.leader = 0]
Copy(w, id) ==
  LET n == w.npcs[id]
      leader == w.nextId
      copy == Born(w, CopyOf(n))
      Follow(v, m) == Join(v, leader, CopyOf(v.npcs[m]))
  IN IF n.leader = 0 THEN copy
     ELSE FoldLeft(Follow, [copy EXCEPT !.npcs[leader].leader = leader], n.members)
Copies == Ordered({id \in Alive(world) : /\ world.npcs[id].inst = Template
                                         /\ world.npcs[id].leader \in {0, id}})

EnterLair(g) ==
  /\ where[g] # Private
  /\ where' = [where EXCEPT ![g] = Private]
  /\ world' = IF \E id \in Alive(world) : world.npcs[id].inst = Private THEN world
              ELSE FoldLeft(Copy, world, Copies)
  /\ Room(world', 0)
  /\ UNCHANGED <<lead, file>>

\* Leaving it, or going to another map; the last one out destroys the copy.
Leave(g, map) ==
  /\ where[g] # map
  /\ where' = [where EXCEPT ![g] = map]
  /\ world' = IF \E h \in GMs : where'[h] = Private THEN world
              ELSE Destroy(world, {id \in Alive(world) : world.npcs[id].inst = Private})
  /\ UNCHANGED <<lead, file>>

\* The server stops, and starts again.
Restart ==
  /\ world' = Load(file)
  /\ lead' = [g \in GMs |-> [npc |-> NoOne, points |-> <<>>]]
  /\ where' = [g \in GMs |-> Open]
  /\ UNCHANGED file

\* It stops in flush(), which has emptied the file and writes it at the end.
StopInFlush ==
  /\ file' = Nothing
  /\ world' = Load(Nothing)
  /\ lead' = [g \in GMs |-> [npc |-> NoOne, points |-> <<>>]]
  /\ where' = [g \in GMs |-> Open]

Command ==
  \/ \E r \in Routes : MssRemove(r) \/ MssClear(r) \/ \E pose \in Poses : MssAdd(r, pose[1])
  \/ \E g \in GMs, pose \in Poses :
       \/ \E kind \in {"npc", "mob"} : SummonW(g, kind, pose[2], pose[1])
       \/ \E n \in 1..MaxSize : SummonGroupW(g, n, pose[2], pose[1])
       \/ PlaceEgg(g, pose[1]) \/ NpcRotate(g, pose[2]) \/ PathHere(g, pose[1]) \/ Lead(g, pose[1])
  \/ \E g \in GMs : \/ UnsummonW(g) \/ PathStart(g) \/ PathKf(g) \/ PathUndo(g) \/ PathTest(g)
                    \/ PathCancel(g) \/ PathEnd(g)
                    \/ \E map \in {Open, Template} : NpcInstance(g, map)
  \/ FlushCommand \/ StopInFlush

Otherwise ==
  \/ \E g \in GMs : \/ EnterLair(g)
                    \/ \E map \in {Open, Template} : Leave(g, map)
  \/ \E id \in Alive(world) : Walk(id)
  \/ Restart

Next == \/ commands < MaxCommands /\ Command /\ commands' = commands + 1
        \/ Otherwise /\ UNCHANGED commands

Spec == Init /\ [][Next]_vars

-----------------------------------------------------------------------------
(* Properties                                                              *)

\* Types; a table that remembers NPCs names only such NPCs as were made
\* since the start, and everybody who is led is there.
TypeOK ==
  /\ world.npcs \in [Alive(world) -> Npc] /\ DOMAIN Tables \subseteq Alive(world)
  /\ world.mobs \subseteq Alive(world) \ DOMAIN Tables
  /\ world.groups \cup world.eggs \subseteq Ids \ DOMAIN Tables
  /\ \A g \in GMs : Leading(g) => lead[g].npc \in Alive(world) /\ lead[g].points # <<>>

Bag(w, ids, Image(_)) ==
  LET live == ids \cap Alive(w)
  IN [x \in {Image(w.npcs[id]) : id \in live} |-> Cardinality({id \in live : Image(w.npcs[id]) = x})]
OneMob(n) == <<n.kind, n.angle, MapNum(n.inst), IF n.kind = "mob" THEN n.spawn ELSE n.at>>
OneGroup(w, n) == <<OneMob(n), Cardinality({id \in Alive(w) \cap ToSet(n.members) : TRUE})>>
OneEgg(n) == <<MapNum(n.inst), n.at>>
Summoned(w) == <<Bag(w, w.mobs, OneMob), Bag(w, w.groups, LAMBDA n : OneGroup(w, n)),
                 Bag(w, w.eggs, OneEgg), w.routes>>
Known(f) == Restrict(f, DOMAIN f \cap DOMAIN Tables)

\* What is flushed now is what the next start brings back, and will be
\* flushed again: each NPC of the tables in the map it is in now, turned as
\* it was turned last and on the path that was ended for it first, nothing
\* else in the tables changed, and the summoned mobs, groups, eggs and routes
\* as they are now - whatever ids they had, and whatever ids they get.
EditsSurvive ==
  LET again == Load(Flush(world))
      Ended(id) == {p \in ToSet(world.finished) : p.npc = id}
  IN /\ Summoned(again) = Summoned(world)
     /\ again.rotations = Known(world.rotations) /\ again.mapNumbers = Known(world.mapNumbers)
     /\ again.finished = world.finished
     /\ \A id \in DOMAIN Tables :
          /\ again.npcs[id].inst = world.npcs[id].inst
          /\ again.npcs[id].angle = IF id \in DOMAIN world.rotations
                                    THEN world.rotations[id] ELSE Tables[id].angle
          /\ id \in StaticIds /\ Ended(id) # {} =>
               \E p \in Ended(id) : again.npcs[id].path = p.points /\ again.npcs[id].loops
          /\ Ended(id) = {} => again.npcs[id].path = Tables[id].path
=============================================================================
