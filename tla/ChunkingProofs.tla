--------------------------- MODULE ChunkingProofs ---------------------------
(***************************************************************************)
(* The index of Chunking.tla is consistent with its caches, its counters   *)
(* and the screens of the clients, and no instance is orphaned or lost,    *)
(* whatever the sets of players, NPCs, cells and maps are.                 *)
(***************************************************************************)
EXTENDS Chunking, FiniteSetTheorems, TLAPS

\* The handlers do not invent places: an entity stands in a cell of a map.
\* What was freed is in no chunk, so that an id is reused from scratch.
Rooted(w) ==
  /\ \A e \in w.here : w.at[e] \in Places
  /\ \A e \in w.here \cap Mobs : w.home[e] \in Places
  /\ \A e \in Entities \ w.here : w.pos[e] = NoChunk

\* The lists of the chunks are the inverse of the cached positions.  A warp
\* breaks this for INVALID_CHUNK, and for that one only.
Listed(w) == \A c \in Places : w.ents[c] = {e \in w.here : w.pos[e] = c}

\* A chunk exists if its list is not empty, and has counted its players.
Populated(w) == w.live = {c \in Pos : w.ents[c] # {}}
Counted(w) == \A c \in Pos : w.nplayers[c] = Cardinality(w.ents[c] \cap Players)

\* What holds in the middle of a handler, and what holds between two.
Sound(w) == w \in World /\ Rooted(w) /\ Listed(w) /\ Populated(w) /\ Counted(w)
Whole(w) == Sound(w) /\ w.ents[NoChunk] = {}

\* What the chunk operations leave alone.
Frame(v, w) ==
  /\ v.here = w.here /\ v.at = w.at /\ v.home = w.home
  /\ v.pos = w.pos

\* Where everybody is after one was moved, and after some were freed.
Relocated(v, w, e, c) ==
  /\ v.here = w.here /\ v.home = w.home
  /\ v.at = [w.at EXCEPT ![e] = c] /\ v.pos = [w.pos EXCEPT ![e] = c]

Without(v, w, S) ==
  /\ v.here = w.here \ S
  /\ \A e \in v.here : v.pos[e] = w.pos[e] /\ v.at[e] = w.at[e] /\ v.home[e] = w.home[e]

\* An entity has other coordinates, though its chunk does not change.
Shifted(v, w, e, c) ==
  /\ v.here = w.here /\ v.home = w.home /\ v.pos = w.pos
  /\ v.at = [w.at EXCEPT ![e] = c]

\* Where everybody is after copies were made in the instance i.
Joined(v, w, i) ==
  /\ w.here \subseteq v.here /\ Without(w, v, v.here \ w.here)
  /\ \A e \in v.here \ w.here :
       /\ e \notin Players /\ v.pos[e] # NoChunk /\ InstOf(v.pos[e]) = i
       /\ v.at[e] = v.pos[e] /\ v.home[e] = v.pos[e]

\* The entities of an instance.
Inside(w, i) == {e \in w.here : InstOf(w.pos[e]) = i}

-----------------------------------------------------------------------------
(* Types.                                                                  *)

LEMMA PosFacts ==
  /\ NoChunk \in Pos /\ NoChunk \notin Places /\ Places \subseteq Pos
  /\ \A c \in Pos : Near(c) \in SUBSET Pos /\ IsFiniteSet(Near(c))
  /\ \A x \in Cells, i \in Insts : <<x, i>> \in Places
  /\ \A c \in Places : InstOf(c) \in Insts /\ c[1] \in Cells /\ c = <<c[1], InstOf(c)>>
<1>1. NoChunk \in Pos /\ NoChunk \notin Places /\ Places \subseteq Pos
  BY InstancesAreKeyed DEF Pos
<1>2. ASSUME NEW c \in Places
      PROVE  InstOf(c) \in Insts /\ c[1] \in Cells /\ c = <<c[1], InstOf(c)>>
  BY <1>1 DEF InstOf, Places
<1>3. ASSUME NEW c \in Pos PROVE Near(c) \in SUBSET Pos /\ IsFiniteSet(Near(c))
  <2>1. CASE c = NoChunk
    BY <2>1, FS_Singleton, <1>1 DEF Near
  <2>2. CASE c \in Places
    <3>1. c[1] \in Cells /\ c[2] \in Insts /\ c # NoChunk
      BY <2>2, <1>1 DEF Places
    <3>2. Adjacent[c[1]] \in SUBSET Cells /\ IsFiniteSet(Adjacent[c[1]])
      BY <3>1, AdjacencyIsSymmetric
    <3>3. Near(c) = {<<x, c[2]>> : x \in Adjacent[c[1]]}
      BY <3>1 DEF Near
    <3>4. IsFiniteSet(Near(c))
      <4> DEFINE f == [x \in Adjacent[c[1]] |-> <<x, c[2]>>]
      <4>1. f \in Surjection(Adjacent[c[1]], Near(c))
        BY <3>3 DEF Surjection
      <4>2. QED
        BY <4>1, <3>2, FS_Surjection
    <3>5. QED
      BY <3>1, <3>2, <3>3, <3>4 DEF Pos, Places
  <2>3. QED
    BY <2>1, <2>2 DEF Pos
<1>4. QED
  BY <1>1, <1>2, <1>3 DEF Places

LEMMA NewChunkEffect ==
  ASSUME NEW w \in World, NEW c \in Pos, c \notin w.live
  PROVE  LET v == NewChunk(w, c)
         IN /\ v \in World /\ Frame(v, w)
            /\ v.live = w.live \cup {c}
            /\ v.ents = [w.ents EXCEPT ![c] = {}]
            /\ v.nplayers = [w.nplayers EXCEPT ![c] = 0]
<1> DEFINE V == [e \in Entities |-> IF e \in EntitiesIn(w, Viewable(w, c))
                                   THEN w.views[e] \cup {c} ELSE w.views[e]]
           L == w.live \cup {c}
           E == [w.ents EXCEPT ![c] = {}]
           N == [w.nplayers EXCEPT ![c] = 0]
<1>1. L \in SUBSET Pos /\ E \in [Pos -> SUBSET Entities] /\ N \in [Pos -> Nat]
  BY DEF World
<1>2. V \in [Entities -> SUBSET Pos]
  BY DEF World
<1>3. NewChunk(w, c) = [w EXCEPT !.live = L, !.ents = E, !.nplayers = N, !.views = V]
  BY DEF NewChunk
<1> HIDE DEF V, L, E, N
<1>4. LET v == [w EXCEPT !.live = L, !.ents = E, !.nplayers = N, !.views = V]
      IN v \in World /\ Frame(v, w) /\ v.live = L /\ v.ents = E /\ v.nplayers = N
  BY <1>1, <1>2 DEF World, Frame
<1> QED
  BY <1>3, <1>4 DEF L, E, N

LEMMA DeleteChunkEffect ==
  ASSUME NEW w \in World, NEW c \in Pos, c \in w.live
  PROVE  LET v == DeleteChunk(w, c)
         IN /\ v \in World /\ Frame(v, w)
            /\ v.live = w.live \ {c}
            /\ v.ents = [w.ents EXCEPT ![c] = {}]
            /\ v.nplayers = [w.nplayers EXCEPT ![c] = 0]
<1> DEFINE V == [e \in Entities |-> IF e \in EntitiesIn(w, Viewable(w, c))
                                   THEN w.views[e] \ {c} ELSE w.views[e]]
           L == w.live \ {c}
           E == [w.ents EXCEPT ![c] = {}]
           N == [w.nplayers EXCEPT ![c] = 0]
<1>1. L \in SUBSET Pos /\ E \in [Pos -> SUBSET Entities] /\ N \in [Pos -> Nat]
  BY DEF World
<1>2. V \in [Entities -> SUBSET Pos]
  BY DEF World
<1>3. DeleteChunk(w, c) = [w EXCEPT !.live = L, !.ents = E, !.nplayers = N, !.views = V]
  BY DEF DeleteChunk
<1> HIDE DEF V, L, E, N
<1>4. LET v == [w EXCEPT !.live = L, !.ents = E, !.nplayers = N, !.views = V]
      IN v \in World /\ Frame(v, w) /\ v.live = L /\ v.ents = E /\ v.nplayers = N
  BY <1>1, <1>2 DEF World, Frame
<1> QED
  BY <1>3, <1>4 DEF L, E, N

LEMMA Fields ==
  ASSUME NEW w \in World
  PROVE  /\ w.live \in SUBSET Pos
         /\ w.ents \in [Pos -> SUBSET Entities]
         /\ w.nplayers \in [Pos -> Nat]
         /\ w.here \in SUBSET Entities
         /\ w.pos \in [Entities -> Pos]
         /\ w.at \in [Entities -> Pos]
         /\ w.home \in [Entities -> Pos]
  BY DEF World

LEMMA PlayersFinite ==
  ASSUME NEW S
  PROVE  IsFiniteSet(S \cap Players) /\ Cardinality(S \cap Players) \in Nat
  BY FS_Intersection, FS_CardinalityType, KindsAreDisjoint

-----------------------------------------------------------------------------
(* Tracking.                                                               *)

\* One chunk gets another list and the count that goes with it.
Relisted(u, w, c, S, n) ==
  /\ u.ents = [w.ents EXCEPT ![c] = S]
  /\ u.nplayers = [w.nplayers EXCEPT ![c] = n]

LEMMA Recounted ==
  ASSUME NEW w \in World, Counted(w), NEW u, NEW c \in Pos, NEW S, NEW n,
         Relisted(u, w, c, S, n), n = Cardinality(S \cap Players)
  PROVE  u.ents[c] = S /\ Counted(u)
<1>1. w.ents \in [Pos -> SUBSET Entities] /\ w.nplayers \in [Pos -> Nat]
  BY DEF World
<1>2. u.ents[c] = S /\ u.nplayers[c] = n
  BY <1>1 DEF Relisted
<1>3. ASSUME NEW d \in Pos, d # c
      PROVE  u.ents[d] = w.ents[d] /\ u.nplayers[d] = w.nplayers[d]
  BY <1>1, <1>3 DEF Relisted
<1> QED
  BY <1>2, <1>3 DEF Counted

\* An entity that is in its chunk leaves it; one in no chunk has none to
\* leave.
LEMMA UntrackEffect ==
  ASSUME NEW w \in World, NEW c \in Pos, NEW e \in Entities,
         Populated(w), Counted(w), e \in w.ents[c] \/ w.ents[c] = {}
  PROVE  LET v == UntrackEntity(w, c, e)
         IN /\ v \in World /\ Frame(v, w) /\ Populated(v) /\ Counted(v)
            /\ v.ents = [w.ents EXCEPT ![c] = @ \ {e}]
<1>1. CASE c \notin w.live
  <2>1. w.ents[c] = {}
    BY <1>1 DEF Populated
  <2>2. w.ents = [w.ents EXCEPT ![c] = @ \ {e}]
    BY <2>1 DEF World
  <2> QED
    BY <1>1, <2>2 DEF UntrackEntity, Frame
<1>2. CASE c \in w.live
  <2> DEFINE S == w.ents[c] \ {e}
             n == IF e \in Players THEN w.nplayers[c] - 1 ELSE w.nplayers[c]
             u == [w EXCEPT !.ents[c] = S, !.nplayers[c] = n]
  <2>1. e \in w.ents[c]
    BY <1>2 DEF Populated
  <2>2. S \in SUBSET Entities
    BY DEF World
  <2>3. n = Cardinality(S \cap Players) /\ n \in Nat
    <3>1. IsFiniteSet(w.ents[c] \cap Players)
      BY PlayersFinite
    <3>2. w.nplayers[c] = Cardinality(w.ents[c] \cap Players)
      BY DEF Counted
    <3>3. Cardinality((w.ents[c] \cap Players) \ {e})
            = IF e \in w.ents[c] \cap Players THEN Cardinality(w.ents[c] \cap Players) - 1
              ELSE Cardinality(w.ents[c] \cap Players)
      BY <3>1, FS_RemoveElement
    <3>4. S \cap Players = (w.ents[c] \cap Players) \ {e}
      OBVIOUS
    <3> QED
      BY <2>1, <3>2, <3>3, <3>4, PlayersFinite
  <2>4. /\ u \in World /\ Frame(u, w) /\ u.live = w.live
        /\ u.ents = [w.ents EXCEPT ![c] = S]
        /\ u.nplayers = [w.nplayers EXCEPT ![c] = n]
    <3> DEFINE E == [w.ents EXCEPT ![c] = S]
               N == [w.nplayers EXCEPT ![c] = n]
    <3>1. u = [w EXCEPT !.ents = E, !.nplayers = N]
      OBVIOUS
    <3>2. E \in [Pos -> SUBSET Entities] /\ N \in [Pos -> Nat]
      BY <2>2, <2>3, Fields
    <3> HIDE DEF E, N, u
    <3>3. u \in World /\ Frame(u, w) /\ u.live = w.live /\ u.ents = E /\ u.nplayers = N
      BY <3>1, <3>2 DEF World, Frame
    <3> QED
      BY <3>3 DEF E, N
  <2>5. UntrackEntity(w, c, e) = IF u.ents[c] = {} THEN DeleteChunk(u, c) ELSE u
    BY <1>2 DEF UntrackEntity
  <2> HIDE DEF u, n
  <2>6. u.ents[c] = S /\ Counted(u)
    <3>1. Relisted(u, w, c, S, n)
      BY <2>4 DEF Relisted
    <3> HIDE DEF S
    <3> QED
      BY <2>3, <3>1, Recounted
  <2>7. CASE S # {}
    <3>1. Populated(u)
      BY <1>2, <2>4, <2>7 DEF Populated, World
    <3> QED
      BY <2>4, <2>5, <2>6, <2>7, <3>1
  <2>8. CASE S = {}
    <3> DEFINE v == DeleteChunk(u, c)
    <3>1. /\ v \in World /\ Frame(v, u)
          /\ v.live = u.live \ {c}
          /\ v.ents = [u.ents EXCEPT ![c] = {}]
          /\ v.nplayers = [u.nplayers EXCEPT ![c] = 0]
      BY <1>2, <2>4, DeleteChunkEffect
    <3> HIDE DEF v
    <3>2. v.ents = [w.ents EXCEPT ![c] = S] /\ v.ents[c] = {}
      <4>1. w.ents \in [Pos -> SUBSET Entities]
        BY Fields
      <4> HIDE DEF S
      <4> QED
        BY <2>4, <2>8, <3>1, <4>1
    <3>3. Populated(v)
      BY <1>2, <2>4, <2>8, <3>1, <3>2 DEF Populated, World
    <3>4. Cardinality(v.ents[c] \cap Players) = 0
      BY <3>2, FS_EmptySet
    <3>5. Counted(v)
      <4> SUFFICES ASSUME NEW d \in Pos
                   PROVE  v.nplayers[d] = Cardinality(v.ents[d] \cap Players)
        BY DEF Counted
      <4>1. /\ u.ents \in [Pos -> SUBSET Entities] /\ u.nplayers \in [Pos -> Nat]
            /\ u.nplayers[d] = Cardinality(u.ents[d] \cap Players)
        BY <2>4, <2>6, Fields DEF Counted
      <4>2. CASE d = c
        BY <3>1, <3>4, <4>1, <4>2
      <4>3. CASE d # c
        <5>1. v.ents[d] = u.ents[d] /\ v.nplayers[d] = u.nplayers[d]
          BY <3>1, <4>1, <4>3
        <5> QED
          BY <4>1, <5>1
      <4> QED
        BY <4>2, <4>3
    <3> QED
      BY <2>4, <2>5, <2>6, <2>8, <3>1, <3>2, <3>3, <3>5 DEF Frame, v
  <2> QED
    BY <2>7, <2>8
<1> QED
  BY <1>1, <1>2

\* An entity enters a chunk, which is made for it if need be.
LEMMA TrackEffect ==
  ASSUME NEW w \in World, NEW c \in Pos, NEW e \in Entities,
         Populated(w), Counted(w), e \notin w.ents[c]
  PROVE  LET v == TrackEntity(NewChunk(w, c), c, e)
         IN /\ v \in World /\ Frame(v, w) /\ Populated(v) /\ Counted(v)
            /\ v.ents = [w.ents EXCEPT ![c] = @ \cup {e}]
<1> DEFINE u == NewChunk(w, c)
<1>1. /\ u \in World /\ Frame(u, w) /\ u.live = w.live \cup {c}
      /\ u.ents = w.ents /\ Counted(u)
  <2>1. CASE c \in w.live
    <3>1. u = w
      BY <2>1 DEF NewChunk
    <3> QED
      BY <2>1, <3>1 DEF Frame, World
  <2>2. CASE c \notin w.live
    <3>1. /\ u \in World /\ Frame(u, w) /\ u.live = w.live \cup {c}
          /\ u.ents = [w.ents EXCEPT ![c] = {}]
          /\ u.nplayers = [w.nplayers EXCEPT ![c] = 0]
      BY <2>2, NewChunkEffect
    <3> HIDE DEF u
    <3>2. w.ents[c] = {}
      BY <2>2 DEF Populated
    <3>3. u.ents = w.ents
      BY <3>1, <3>2 DEF World
    <3>4. Cardinality({} \cap Players) = 0
      BY FS_EmptySet
    <3>5. Relisted(u, w, c, {}, 0)
      BY <3>1 DEF Relisted
    <3>6. Counted(u)
      BY <3>4, <3>5, Recounted
    <3> QED
      BY <3>1, <3>3, <3>6
  <2> QED
    BY <2>1, <2>2
<1> HIDE DEF u
<1> DEFINE S == u.ents[c] \cup {e}
           n == IF e \in Players THEN u.nplayers[c] + 1 ELSE u.nplayers[c]
           v == [u EXCEPT !.ents[c] = S, !.nplayers[c] = n]
<1>2. S \in SUBSET Entities /\ n \in Nat
  BY <1>1 DEF World
<1>3. n = Cardinality(S \cap Players)
  <2>1. IsFiniteSet(w.ents[c] \cap Players)
    BY PlayersFinite
  <2>2. u.nplayers[c] = Cardinality(w.ents[c] \cap Players)
    BY <1>1 DEF Counted
  <2>3. Cardinality((w.ents[c] \cap Players) \cup {e}) = Cardinality(w.ents[c] \cap Players) + 1
    BY <2>1, FS_AddElement
  <2>4. S \cap Players = IF e \in Players THEN (w.ents[c] \cap Players) \cup {e}
                         ELSE w.ents[c] \cap Players
    BY <1>1
  <2> QED
    BY <2>2, <2>3, <2>4
<1>4. /\ v \in World /\ Frame(v, u) /\ v.live = u.live
      /\ v.ents = [u.ents EXCEPT ![c] = S]
      /\ v.nplayers = [u.nplayers EXCEPT ![c] = n]
  <2> DEFINE E == [u.ents EXCEPT ![c] = S]
             N == [u.nplayers EXCEPT ![c] = n]
  <2>1. v = [u EXCEPT !.ents = E, !.nplayers = N]
    OBVIOUS
  <2>2. E \in [Pos -> SUBSET Entities] /\ N \in [Pos -> Nat]
    BY <1>1, <1>2, Fields
  <2> HIDE DEF E, N, v
  <2>3. v \in World /\ Frame(v, u) /\ v.live = u.live /\ v.ents = E /\ v.nplayers = N
    BY <1>1, <2>1, <2>2 DEF World, Frame
  <2> QED
    BY <2>3 DEF E, N
<1>5. TrackEntity(u, c, e) = v
  BY <1>1 DEF TrackEntity
<1> HIDE DEF n, v
<1>6. v.ents = [w.ents EXCEPT ![c] = @ \cup {e}]
  BY <1>1, <1>4
<1>7. Populated(v)
  BY <1>1, <1>4 DEF Populated, World
<1>8. Counted(v)
  <2>1. Relisted(v, u, c, S, n)
    BY <1>4 DEF Relisted
  <2> HIDE DEF S
  <2> QED
    BY <1>1, <1>3, <2>1, Recounted
<1> QED
  BY <1>1, <1>4, <1>5, <1>6, <1>7, <1>8 DEF Frame, u

-----------------------------------------------------------------------------
(* Showing and hiding entities.                                            *)

LEMMA ViewableFinite ==
  ASSUME NEW w \in World, NEW c \in Pos
  PROVE  Viewable(w, c) \in SUBSET Pos /\ IsFiniteSet(Viewable(w, c))
<1>1. Near(c) \in SUBSET Pos /\ IsFiniteSet(Near(c))
  BY PosFacts
<1>2. Viewable(w, c) \subseteq Near(c)
  BY DEF Viewable
<1> QED
  BY <1>1, <1>2, FS_Subset

LEMMA SightingsType ==
  ASSUME NEW w \in World, NEW C \in SUBSET Pos, IsFiniteSet(C),
         NEW e \in Entities, NEW m \in Mobs
  PROVE  Sightings(w, C, e, m) \in Int
<1> DEFINE A == {cp \in C \X Players : cp[2] \in w.ents[cp[1]]}
           B == {c \in C : m \in w.ents[c]}
<1>1. IsFiniteSet(C \X Players)
  BY FS_Product, KindsAreDisjoint
<1>2. A \subseteq C \X Players /\ B \subseteq C
  OBVIOUS
<1> HIDE DEF A, B
<1>3. IsFiniteSet(A) /\ IsFiniteSet(B)
  BY <1>1, <1>2, FS_Subset
<1>4. Cardinality(A) \in Nat /\ Cardinality(B) \in Nat
  BY <1>3, FS_CardinalityType
<1>5. Sightings(w, C, e, m)
        = IF m = e THEN Cardinality(A) ELSE IF e \in Players THEN Cardinality(B) ELSE 0
  BY DEF Sightings, A, B
<1> QED
  BY <1>4, <1>5

LEMMA ShowEffect ==
  ASSUME NEW w \in World, NEW C \in SUBSET Pos, IsFiniteSet(C), NEW e \in Entities
  PROVE  LET v == AddEntityToChunks(w, C, e)
         IN /\ v \in World /\ Frame(v, w)
            /\ v.ents = w.ents /\ v.live = w.live /\ v.nplayers = w.nplayers
<1> DEFINE others == EntitiesIn(w, C) \ {e}
           T == [p \in Players |->
                  IF p = e THEN w.told[p] \cup (others \cap w.up)
                  ELSE IF p \in others /\ e \in w.up THEN w.told[p] \cup {e}
                  ELSE w.told[p]]
           S == [m \in Mobs |-> w.seen[m] + Sightings(w, C, e, m)]
<1>1. T \in [Players -> SUBSET Entities]
  BY DEF World
<1>2. S \in [Mobs -> Int]
  BY SightingsType DEF World
<1>3. AddEntityToChunks(w, C, e) = [w EXCEPT !.told = T, !.seen = S]
  BY DEF AddEntityToChunks
<1> HIDE DEF T, S
<1>4. LET v == [w EXCEPT !.told = T, !.seen = S]
      IN /\ v \in World /\ Frame(v, w)
         /\ v.ents = w.ents /\ v.live = w.live /\ v.nplayers = w.nplayers
  BY <1>1, <1>2 DEF World, Frame
<1> QED
  BY <1>3, <1>4

LEMMA HideEffect ==
  ASSUME NEW w \in World, NEW C \in SUBSET Pos, IsFiniteSet(C), NEW e \in Entities
  PROVE  LET v == RemoveEntityFromChunks(w, C, e)
         IN /\ v \in World /\ Frame(v, w)
            /\ v.ents = w.ents /\ v.live = w.live /\ v.nplayers = w.nplayers
<1> DEFINE others == EntitiesIn(w, C) \ {e}
           T == [p \in Players |->
                  IF p = e THEN w.told[p] \ (others \cap w.up)
                  ELSE IF p \in others /\ e \in w.up THEN w.told[p] \ {e}
                  ELSE w.told[p]]
           S == [m \in Mobs |-> w.seen[m] - Sightings(w, C, e, m)]
<1>1. T \in [Players -> SUBSET Entities]
  BY DEF World
<1>2. S \in [Mobs -> Int]
  BY SightingsType DEF World
<1>3. RemoveEntityFromChunks(w, C, e) = [w EXCEPT !.told = T, !.seen = S]
  BY DEF RemoveEntityFromChunks
<1> HIDE DEF T, S
<1>4. LET v == [w EXCEPT !.told = T, !.seen = S]
      IN /\ v \in World /\ Frame(v, w)
         /\ v.ents = w.ents /\ v.live = w.live /\ v.nplayers = w.nplayers
  BY <1>1, <1>2 DEF World, Frame
<1> QED
  BY <1>3, <1>4

-----------------------------------------------------------------------------
(* Moving from chunk to chunk.                                             *)

\* INVALID_CHUNK is empty, or e is on its detour there.
Passing(w, e) ==
  w.ents[NoChunk] = {} \/ (w.ents[NoChunk] = {e} /\ w.pos[e] = NoChunk)

LEMMA UpdateEntityChunkEffect ==
  ASSUME NEW w, Sound(w), NEW e \in w.here, Passing(w, e), NEW to \in Pos
  PROVE  LET v == UpdateEntityChunk(w, e, w.pos[e], to)
         IN /\ Sound(v) /\ v.here = w.here /\ v.at = w.at /\ v.home = w.home
            /\ v.pos = [w.pos EXCEPT ![e] = to]
            /\ v.ents[NoChunk] = IF to = NoChunk THEN {e} ELSE {}
<1> DEFINE from == w.pos[e]
           w1 == UntrackEntity(w, from, e)
           w2 == TrackEntity(NewChunk(w1, to), to, e)
           old == Viewable(w2, from)
           new == Viewable(w2, to)
           w3 == RemoveEntityFromChunks(w2, old \ new, e)
           w4 == AddEntityToChunks(w3, new \ old, e)
           v == [w4 EXCEPT !.pos[e] = to, !.views[e] = new]
<1>0. /\ w \in World /\ e \in Entities /\ from \in Pos
      /\ NoChunk \in Pos /\ Pos = Places \cup {NoChunk} /\ NoChunk \notin Places
      /\ w.ents \in [Pos -> SUBSET Entities]
  BY Fields, PosFacts DEF Sound, Pos
<1>1. UpdateEntityChunk(w, e, from, to) = v
  BY DEF UpdateEntityChunk
<1>2. e \in w.ents[from] \/ w.ents[from] = {}
  BY <1>0 DEF Sound, Listed, Passing
<1>3. /\ w1 \in World /\ Frame(w1, w) /\ Populated(w1) /\ Counted(w1)
      /\ w1.ents = [w.ents EXCEPT ![from] = @ \ {e}]
  BY <1>0, <1>2, UntrackEffect DEF Sound
<1> HIDE DEF w1
<1>4. e \notin w1.ents[to]
  BY <1>0, <1>3 DEF Sound, Listed, Passing
<1>5. /\ w2 \in World /\ Frame(w2, w1) /\ Populated(w2) /\ Counted(w2)
      /\ w2.ents = [w1.ents EXCEPT ![to] = @ \cup {e}]
  <2>1. w1 \in World /\ Populated(w1) /\ Counted(w1) /\ e \in Entities
    BY <1>0, <1>3
  <2> HIDE <1>0, <1>3
  <2> QED
    BY <1>4, <2>1, TrackEffect
<1> HIDE DEF w2
<1>6. /\ old \in SUBSET Pos /\ IsFiniteSet(old)
      /\ new \in SUBSET Pos /\ IsFiniteSet(new)
  BY <1>0, <1>5, ViewableFinite
<1>7. IsFiniteSet(old \ new) /\ IsFiniteSet(new \ old)
  <2>1. old \ new \subseteq old /\ new \ old \subseteq new
    OBVIOUS
  <2> QED
    BY <1>6, <2>1, FS_Subset
<1> HIDE DEF old, new
<1>8. /\ w3 \in World /\ Frame(w3, w2)
      /\ w3.ents = w2.ents /\ w3.live = w2.live /\ w3.nplayers = w2.nplayers
  BY <1>0, <1>5, <1>6, <1>7, HideEffect
<1> HIDE DEF w3
<1>9. /\ w4 \in World /\ Frame(w4, w3)
      /\ w4.ents = w3.ents /\ w4.live = w3.live /\ w4.nplayers = w3.nplayers
  BY <1>0, <1>6, <1>7, <1>8, ShowEffect
<1> HIDE DEF w4
<1>10. /\ v \in World /\ v.here = w.here /\ v.at = w.at /\ v.home = w.home
       /\ v.pos = [w.pos EXCEPT ![e] = to]
       /\ v.ents = w2.ents /\ v.live = w2.live /\ v.nplayers = w2.nplayers
  <2> DEFINE P == [w4.pos EXCEPT ![e] = to]
             V == [w4.views EXCEPT ![e] = new]
  <2>1. v = [w4 EXCEPT !.pos = P, !.views = V]
    OBVIOUS
  <2>2. P \in [Entities -> Pos] /\ V \in [Entities -> SUBSET Pos]
    BY <1>6, <1>9 DEF World
  <2>3. P = [w.pos EXCEPT ![e] = to]
    BY <1>3, <1>5, <1>8, <1>9 DEF Frame
  <2>4. /\ w4.here = w.here /\ w4.at = w.at /\ w4.home = w.home
        /\ w4.ents = w2.ents /\ w4.live = w2.live /\ w4.nplayers = w2.nplayers
    BY <1>3, <1>5, <1>8, <1>9 DEF Frame
  <2> HIDE DEF P, V, v
  <2>5. /\ v \in World /\ v.here = w4.here /\ v.at = w4.at /\ v.home = w4.home
        /\ v.pos = P /\ v.ents = w4.ents /\ v.live = w4.live /\ v.nplayers = w4.nplayers
    BY <1>9, <2>1, <2>2 DEF World
  <2> QED
    BY <2>3, <2>4, <2>5
<1> HIDE DEF v
<1>11. Populated(v) /\ Counted(v)
  BY <1>5, <1>10 DEF Populated, Counted
<1>12. v.ents = [[w.ents EXCEPT ![from] = @ \ {e}] EXCEPT ![to] = @ \cup {e}]
  BY <1>3, <1>5, <1>10
<1>13. w.pos \in [Entities -> Pos] /\ w.here \in SUBSET Entities
  BY <1>0, Fields
<1>14. Listed(v)
  <2> SUFFICES ASSUME NEW c \in Places
               PROVE  v.ents[c] = {f \in w.here : v.pos[f] = c}
    BY <1>10 DEF Listed
  <2>1. w.ents[c] = {f \in w.here : w.pos[f] = c} /\ c \in Pos
    BY <1>0 DEF Sound, Listed
  <2>2. {f \in w.here : v.pos[f] = c}
          = IF c = to THEN {f \in w.here : w.pos[f] = c} \cup {e}
            ELSE {f \in w.here : w.pos[f] = c} \ {e}
    BY <1>10, <1>13
  <2>3. v.ents[c] = IF c = to THEN w.ents[c] \cup {e} ELSE w.ents[c] \ {e}
    <3>1. c # from => e \notin w.ents[c]
      BY <2>1
    <3>2. CASE c = to
      BY <1>0, <1>12, <2>1, <3>2
    <3>3. CASE c # to /\ c = from
      BY <1>0, <1>12, <2>1, <3>3
    <3>4. CASE c # to /\ c # from
      BY <1>0, <1>12, <2>1, <3>1, <3>4
    <3> QED
      BY <3>2, <3>3, <3>4
  <2> QED
    BY <2>1, <2>2, <2>3
<1>15. Rooted(v)
  BY <1>10, <1>13 DEF Sound, Rooted
<1>16. v.ents[NoChunk] = IF to = NoChunk THEN {e} ELSE {}
  BY <1>0, <1>12 DEF Passing
<1> QED
  BY <1>1, <1>10, <1>11, <1>14, <1>15, <1>16 DEF Sound

\* Where e was, and whether it has a place at all, does not matter to where
\* it goes.
LEMMA MoveEffect ==
  ASSUME NEW w \in World, NEW e \in w.here, NEW c \in Places,
         \A f \in w.here \ {e} : w.at[f] \in Places,
         \A f \in w.here \cap Mobs : w.home[f] \in Places,
         \A f \in Entities \ w.here : w.pos[f] = NoChunk,
         Listed(w), Populated(w), Counted(w), Passing(w, e)
  PROVE  /\ Whole(UpdatePlayerPosition(w, e, c))
         /\ Relocated(UpdatePlayerPosition(w, e, c), w, e, c)
<1> DEFINE A == [w.at EXCEPT ![e] = c]
           v == [w EXCEPT !.at[e] = c]
           u == UpdateEntityChunk(v, e, v.pos[e], c)
<1>1. /\ e \in Entities /\ c \in Pos /\ NoChunk \notin Places
      /\ w.at \in [Entities -> Pos]
  BY Fields, PosFacts
<1>2. v = [w EXCEPT !.at = A]
  OBVIOUS
<1>3. A \in [Entities -> Pos] /\ \A f \in w.here : A[f] \in Places
  BY <1>1, Fields
<1>4. v.pos = w.pos
  BY <1>2 DEF World
<1>5. UpdatePlayerPosition(w, e, c) = IF w.pos[e] = c THEN v ELSE u
  BY <1>4 DEF UpdatePlayerPosition
<1> HIDE DEF A, v
<1>6. /\ v \in World /\ v.at = A /\ v.here = w.here /\ v.home = w.home
      /\ v.ents = w.ents /\ v.live = w.live /\ v.nplayers = w.nplayers
  BY <1>2, <1>3 DEF World
<1>7. Sound(v) /\ Passing(v, e)
  BY <1>3, <1>4, <1>6 DEF Sound, Rooted, Listed, Populated, Counted, Passing
<1>8. /\ Sound(u) /\ u.here = v.here /\ u.ents[NoChunk] = {}
      /\ u.at = v.at /\ u.home = v.home /\ u.pos = [v.pos EXCEPT ![e] = c]
  <2>1. e \in v.here /\ c # NoChunk /\ Sound(v) /\ Passing(v, e) /\ c \in Pos
    BY <1>1, <1>6, <1>7
  <2> HIDE <1>7
  <2>2. /\ Sound(u) /\ u.here = v.here /\ u.at = v.at /\ u.home = v.home
        /\ u.pos = [v.pos EXCEPT ![e] = c]
        /\ u.ents[NoChunk] = IF c = NoChunk THEN {e} ELSE {}
    BY <2>1, UpdateEntityChunkEffect
  <2> HIDE DEF u
  <2> QED
    BY <2>1, <2>2
<1> HIDE DEF u
<1>9. w.pos[e] = c => v.ents[NoChunk] = {}
  BY <1>1, <1>6, <1>7 DEF Passing
<1>10. w.pos[e] = c => w.pos = [w.pos EXCEPT ![e] = c]
  BY <1>1, Fields
<1>11. Relocated(UpdatePlayerPosition(w, e, c), w, e, c)
  BY <1>4, <1>5, <1>6, <1>8, <1>10 DEF Relocated, A
<1> QED
  BY <1>5, <1>6, <1>7, <1>8, <1>9, <1>11 DEF Whole

LEMMA PositionsAgree ==
  \A w, e, c : UpdateNPCPosition(w, e, c) = UpdatePlayerPosition(w, e, c)
  BY DEF UpdateNPCPosition, UpdatePlayerPosition

LEMMA WarpEffect ==
  ASSUME NEW w, Whole(w), NEW p \in w.here, NEW c \in Places
  PROVE  Whole(WarpPosition(w, p, c)) /\ Relocated(WarpPosition(w, p, c), w, p, c)
<1> DEFINE u == UpdateEntityChunk(w, p, w.pos[p], NoChunk)
<1>1. Sound(w) /\ Passing(w, p) /\ p \in Entities /\ w.pos \in [Entities -> Pos]
  BY Fields DEF Whole, Passing, Sound
<1>2. /\ Sound(u) /\ u.here = w.here /\ u.at = w.at /\ u.home = w.home
      /\ u.pos = [w.pos EXCEPT ![p] = NoChunk]
      /\ u.ents[NoChunk] = {p}
  BY <1>1, UpdateEntityChunkEffect, PosFacts
<1>3. WarpPosition(w, p, c) = UpdatePlayerPosition(u, p, c)
  BY DEF WarpPosition
<1> HIDE DEF u
<1>4. Passing(u, p)
  BY <1>1, <1>2 DEF Passing
<1>5. /\ u \in World /\ Listed(u) /\ Populated(u) /\ Counted(u)
      /\ \A f \in u.here \ {p} : u.at[f] \in Places
      /\ \A f \in u.here \cap Mobs : u.home[f] \in Places
      /\ \A f \in Entities \ u.here : u.pos[f] = NoChunk
  BY <1>2 DEF Sound, Rooted
<1>6. /\ Whole(UpdatePlayerPosition(u, p, c))
      /\ Relocated(UpdatePlayerPosition(u, p, c), u, p, c)
  <2>1. p \in u.here
    BY <1>2
  <2> HIDE <1>2
  <2> QED
    BY <2>1, <1>4, <1>5, MoveEffect
<1> QED
  BY <1>1, <1>2, <1>3, <1>6 DEF Relocated

-----------------------------------------------------------------------------
(* Freeing entities, and whole instances.                                  *)

\* What is freed has left its chunk before.
LEMMA FreedEffect ==
  ASSUME NEW w \in World, NEW S \in SUBSET Entities,
         Rooted(w), Populated(w), Counted(w), w.ents[NoChunk] = {},
         \A c \in Places : w.ents[c] = {e \in w.here \ S : w.pos[e] = c}
  PROVE  Whole(Freed(w, S)) /\ Without(Freed(w, S), w, S)
<1> DEFINE H == w.here \ S
           U == w.up \ S
           M == w.summoned \ S
           G == w.gone \ S
           P == [e \in Entities |-> IF e \in S THEN NoChunk ELSE w.pos[e]]
           A == [e \in Entities |-> IF e \in S THEN NoChunk ELSE w.at[e]]
           O == [e \in Entities |-> IF e \in S THEN NoChunk ELSE w.home[e]]
           V == [e \in Entities |-> IF e \in S THEN {} ELSE w.views[e]]
           N == [m \in Mobs |-> IF m \in S THEN 0 ELSE w.seen[m]]
           T == [p \in Players |-> IF p \in S THEN {} ELSE w.told[p]]
           v == Freed(w, S)
<1>1. NoChunk \in Pos
  BY PosFacts
<1>2. /\ H \in SUBSET Entities /\ U \in SUBSET Entities
      /\ M \in SUBSET NPCs /\ G \in SUBSET Mobs
  BY DEF World
<1>3. /\ P \in [Entities -> Pos] /\ A \in [Entities -> Pos] /\ O \in [Entities -> Pos]
      /\ V \in [Entities -> SUBSET Pos]
  BY <1>1 DEF World
<1>4. N \in [Mobs -> Int] /\ T \in [Players -> SUBSET Entities]
  BY DEF World
<1>5. v = [w EXCEPT !.here = H, !.up = U, !.summoned = M, !.gone = G, !.pos = P,
                    !.at = A, !.home = O, !.views = V, !.seen = N, !.told = T]
  BY DEF Freed
<1>6. /\ \A e \in H : P[e] = w.pos[e] /\ A[e] = w.at[e] /\ O[e] = w.home[e]
      /\ \A e \in Entities \ H : P[e] = NoChunk
  BY <1>2 DEF Rooted
<1> HIDE DEF H, U, M, G, P, A, O, V, N, T, v
<1>7. /\ v \in World /\ v.here = H /\ v.pos = P /\ v.at = A /\ v.home = O
      /\ v.ents = w.ents /\ v.live = w.live /\ v.nplayers = w.nplayers
  <2>1. v \in World
    BY <1>2, <1>3, <1>4, <1>5 DEF World
  <2>2. v.here = H /\ v.pos = P /\ v.at = A /\ v.home = O
    BY <1>5 DEF World
  <2>3. v.ents = w.ents /\ v.live = w.live /\ v.nplayers = w.nplayers
    BY <1>5 DEF World
  <2> QED
    BY <2>1, <2>2, <2>3
<1>8. Rooted(v)
  BY <1>6, <1>7 DEF Rooted, H
<1>9. Listed(v)
  BY <1>6, <1>7 DEF Listed, H
<1>10. Populated(v) /\ Counted(v)
  BY <1>7 DEF Populated, Counted
<1>11. Without(v, w, S)
  BY <1>6, <1>7 DEF Without, H
<1> QED
  BY <1>7, <1>8, <1>9, <1>10, <1>11 DEF Whole, Sound, v

\* An instance is left alone if it is none, or has a player in it; if not,
\* all of it goes and nothing else.
LEMMA DestroyInstanceEffect ==
  ASSUME NEW w, Whole(w), NEW i
  PROVE  LET v == DestroyInstanceIfEmpty(w, i)
         IN /\ Whole(v) /\ v.here \cap Players = w.here \cap Players
            /\ \/ v = w /\ (i \notin Private \/ Inside(w, i) \cap Players # {})
               \/ /\ i \in Private /\ Inside(w, i) \cap Players = {}
                  /\ Without(v, w, Inside(w, i))
<1> DEFINE C == ChunksInMap(w, i)
           S == EntitiesIn(w, C)
           E == [c \in Pos |-> IF c \in C THEN {} ELSE w.ents[c]]
           N == [c \in Pos |-> IF c \in C THEN 0 ELSE w.nplayers[c]]
           L == w.live \ C
           u == [w EXCEPT !.live = L, !.ents = E, !.nplayers = N]
<1>1. CASE i \notin Private \/ \E c \in C : w.nplayers[c] > 0
  <2>1. DestroyInstanceIfEmpty(w, i) = w
    BY <1>1 DEF DestroyInstanceIfEmpty
  <2>2. ASSUME i \in Private PROVE Inside(w, i) \cap Players # {}
    <3>1. PICK c \in C : w.nplayers[c] > 0
      BY <1>1, <2>2
    <3>2. /\ c \in Pos /\ InstOf(c) = i
          /\ w.nplayers[c] = Cardinality(w.ents[c] \cap Players)
      BY Fields DEF ChunksInMap, Whole, Sound, Counted
    <3>3. w.ents[c] \cap Players # {}
      BY <3>1, <3>2, FS_EmptySet
    <3>4. c \in Places
      BY <3>2, <2>2, InstancesAreKeyed DEF Pos, InstOf, Insts
    <3>5. w.ents[c] = {e \in w.here : w.pos[e] = c}
      BY <3>4 DEF Whole, Sound, Listed
    <3> QED
      BY <3>2, <3>3, <3>5 DEF Inside
  <2> QED
    BY <2>1, <2>2
<1>2. CASE i \in Private /\ \A c \in C : ~(w.nplayers[c] > 0)
  <2>1. DestroyInstanceIfEmpty(w, i) = Freed(u, S)
    BY <1>2 DEF DestroyInstanceIfEmpty
  <2>2. /\ w \in World /\ Rooted(w) /\ Listed(w) /\ Populated(w) /\ Counted(w)
        /\ w.ents[NoChunk] = {}
        /\ NoChunk \in Pos /\ Pos = Places \cup {NoChunk} /\ NoChunk \notin Places
    BY PosFacts DEF Whole, Sound, Pos
  <2>3. /\ w.ents \in [Pos -> SUBSET Entities] /\ w.live \in SUBSET Pos
        /\ w.nplayers \in [Pos -> Nat] /\ w.here \in SUBSET Entities
    BY <2>2, Fields
  <2>4. C \subseteq Places
    BY <2>2, <2>3 DEF ChunksInMap, Populated
  <2>5. S = {e \in w.here : w.pos[e] \in C}
    BY <2>2, <2>4 DEF EntitiesIn, Listed
  <2>6. \A c \in C : w.ents[c] \cap Players = {}
    <3> TAKE c \in C
    <3>1. c \in Pos
      BY <2>2, <2>4
    <3>2. w.nplayers[c] = Cardinality(w.ents[c] \cap Players)
      BY <2>2, <3>1 DEF Counted
    <3>3. IsFiniteSet(w.ents[c] \cap Players) /\ Cardinality(w.ents[c] \cap Players) \in Nat
      BY PlayersFinite
    <3>4. Cardinality(w.ents[c] \cap Players) = 0
      <4> HIDE DEF C
      <4> QED BY <1>2, <3>2, <3>3
    <3> QED
      BY <3>3, <3>4, FS_EmptySet
  <2>7. S \cap Players = {} /\ S \in SUBSET Entities
    <3>1. S \cap Players = {}
      BY <2>6 DEF EntitiesIn
    <3> QED
      BY <2>3, <2>5, <3>1
  <2>8. E \in [Pos -> SUBSET Entities] /\ N \in [Pos -> Nat] /\ L \in SUBSET Pos
    BY <2>3
  <2>9. /\ \A c \in Places : E[c] = {e \in w.here \ S : w.pos[e] = c}
        /\ E[NoChunk] = {}
    <3>1. ASSUME NEW c \in Places, c \in C
          PROVE  E[c] = {e \in w.here \ S : w.pos[e] = c}
      BY <2>2, <2>5, <3>1
    <3>2. ASSUME NEW c \in Places, c \notin C
          PROVE  E[c] = {e \in w.here \ S : w.pos[e] = c}
      BY <2>2, <2>5, <3>2 DEF Listed
    <3>3. E[NoChunk] = {}
      BY <2>2
    <3> QED
      BY <3>1, <3>2, <3>3
  <2>10. L = {c \in Pos : E[c] # {}}
    BY <2>2 DEF Populated
  <2>11. \A c \in Pos : N[c] = Cardinality(E[c] \cap Players)
    <3> TAKE c \in Pos
    <3>1. CASE c \in C
      <4>1. E[c] \cap Players = {} /\ N[c] = 0
        BY <3>1
      <4> QED
        BY <4>1, FS_EmptySet
    <3>2. CASE c \notin C
      <4>1. E[c] = w.ents[c] /\ N[c] = w.nplayers[c]
        BY <3>2
      <4> QED
        BY <2>2, <4>1 DEF Counted
    <3> QED
      BY <3>1, <3>2
  <2> HIDE DEF E, N, L, S
  <2>12. /\ u \in World /\ u.live = L /\ u.ents = E /\ u.nplayers = N
         /\ u.here = w.here /\ u.pos = w.pos /\ u.at = w.at /\ u.home = w.home
    BY <2>2, <2>8 DEF World
  <2> HIDE DEF u
  <2>13. Rooted(u) /\ Populated(u) /\ Counted(u)
    BY <2>2, <2>10, <2>11, <2>12 DEF Rooted, Populated, Counted
  <2>14. Whole(Freed(u, S)) /\ Without(Freed(u, S), u, S)
    <3>1. /\ u.ents[NoChunk] = {}
          /\ \A c \in Places : u.ents[c] = {e \in u.here \ S : u.pos[e] = c}
      BY <2>9, <2>12
    <3> QED
      BY <2>7, <2>12, <2>13, <3>1, FreedEffect
  <2>15. Without(Freed(u, S), w, S)
    BY <2>12, <2>14 DEF Without
  <2>16. S = Inside(w, i)
    <3>1. \A e \in w.here : w.pos[e] \in C <=> InstOf(w.pos[e]) = i
      <4> TAKE e \in w.here
      <4>1. e \in Entities /\ w.pos[e] \in Pos
        BY <2>2, <2>3, Fields
      <4>2. ASSUME InstOf(w.pos[e]) = i PROVE w.pos[e] \in w.live
        <5>1. w.pos[e] \in Places
          BY <4>1, <4>2, <1>2, InstancesAreKeyed DEF Pos, InstOf, Insts
        <5> QED
          BY <2>2, <4>1, <5>1 DEF Listed, Populated
      <4> QED
        BY <4>2 DEF ChunksInMap
    <3> QED
      BY <2>5, <3>1 DEF Inside
  <2>17. Freed(u, S).here \cap Players = w.here \cap Players
    BY <2>7, <2>15 DEF Without
  <2> QED
    BY <1>2, <2>1, <2>7, <2>14, <2>15, <2>16, <2>17
<1> QED
  BY <1>1, <1>2

\* The copies are new, stand in chunks of their own, and none is a player.
LEMMA CreateInstanceEffect ==
  ASSUME NEW w, Whole(w), NEW i \in Private, NEW copy \in Copyings(w, i)
  PROVE  LET v == CreateInstance(w, i, copy)
         IN /\ Whole(v) /\ v.here \cap Players = w.here \cap Players
            /\ Joined(v, w, i)
<1>1. CASE ChunksInMap(w, i) # {}
  BY <1>1 DEF CreateInstance, Joined, Without
<1>2. CASE ChunksInMap(w, i) = {}
  <2> DEFINE Or == Originals(w, i)
             there(e) == <<w.at[e][1], i>>
             new == {copy[e] : e \in Or}
             orig(f) == CHOOSE e \in Or : copy[e] = f
             site(f) == there(orig(f))
             made == {there(e) : e \in Or}
             L == w.live \cup made
             E == [c \in Pos |-> IF c \in made THEN {f \in new : site(f) = c} ELSE w.ents[c]]
             H == w.here \cup new
             U == w.up \cup new
             P == [f \in Entities |-> IF f \in new THEN site(f) ELSE w.pos[f]]
             A == [f \in Entities |-> IF f \in new THEN site(f) ELSE w.at[f]]
             O == [f \in Entities |-> IF f \in new THEN site(f) ELSE w.home[f]]
             V == [f \in Entities |-> IF f \in new THEN Near(site(f)) \cap L ELSE w.views[f]]
             v == CreateInstance(w, i, copy)
  <2>1. v = [w EXCEPT !.live = L, !.ents = E, !.here = H, !.up = U, !.pos = P,
                      !.at = A, !.home = O, !.views = V]
    BY <1>2 DEF CreateInstance
  <2>2. /\ w \in World /\ Rooted(w) /\ Listed(w) /\ Populated(w) /\ Counted(w)
        /\ w.ents[NoChunk] = {}
        /\ NoChunk \in Pos /\ Pos = Places \cup {NoChunk} /\ NoChunk \notin Places
        /\ i \in Insts
    BY PosFacts DEF Whole, Sound, Pos, Insts
  <2>3. /\ w.ents \in [Pos -> SUBSET Entities] /\ w.live \in SUBSET Pos
        /\ w.here \in SUBSET Entities
    BY <2>2, Fields
  <2>4. copy \in Injection(Or, Unused(w))
    BY <1>2 DEF Copyings
  <2>5. /\ copy \in [Or -> Unused(w)]
        /\ \A a, b \in Or : copy[a] = copy[b] => a = b
    BY <2>4 DEF Injection, IsInjective
  <2>6. /\ \A e \in Or : copy[e] \in new /\ orig(copy[e]) = e
        /\ \A f \in new : orig(f) \in Or /\ copy[orig(f)] = f
    BY <2>5
  <2>7. new \subseteq NPCs /\ new \cap w.here = {} /\ new \cap Players = {}
        /\ new \subseteq Entities
    BY <2>5, KindsAreDisjoint DEF Unused, Entities
  <2>8. Or \subseteq w.here
    <3> SUFFICES ASSUME NEW c \in w.live, InstOf(c) = BaseMap[i]
                 PROVE  w.ents[c] \subseteq w.here
      BY DEF Originals, EntitiesIn, ChunksInMap
    <3>1. c \in Places
      BY <2>2, <2>3 DEF Populated
    <3> QED
      BY <2>2, <3>1 DEF Listed
  <2>9. \A e \in Or : there(e) \in Places /\ InstOf(there(e)) = i
    <3> TAKE e \in Or
    <3>1. w.at[e] \in Places
      BY <2>2, <2>8 DEF Rooted
    <3>2. w.at[e][1] \in Cells
      BY <3>1, PosFacts
    <3>3. there(e) \in Places
      BY <2>2, <3>2, PosFacts
    <3>4. there(e) # NoChunk
      BY <2>2, <3>3
    <3> QED
      BY <3>3, <3>4 DEF InstOf
  <2>10. \A f \in new : site(f) \in made /\ site(f) \in Places
    BY <2>6, <2>9
  <2>11. made \subseteq Places /\ made \cap w.live = {}
    BY <1>2, <2>9 DEF ChunksInMap
  <2>12. \A c \in made : w.ents[c] = {} /\ w.nplayers[c] = 0
    <3> TAKE c \in made
    <3>1. c \in Pos /\ w.ents[c] = {}
      BY <2>2, <2>11 DEF Populated
    <3>2. w.nplayers[c] = Cardinality(w.ents[c] \cap Players)
      BY <2>2, <3>1 DEF Counted
    <3>3. w.ents[c] \cap Players = {}
      BY <3>1
    <3> QED
      BY <3>1, <3>2, <3>3, FS_EmptySet
  <2>13. \A c \in made : \E f \in new : site(f) = c
    BY <2>6
  <2> HIDE DEF made, new, site, Or
  <2>14. L \in SUBSET Pos /\ H \in SUBSET Entities /\ U \in SUBSET Entities
    BY <2>2, <2>3, <2>7, <2>11 DEF World
  <2>15. E \in [Pos -> SUBSET Entities]
    BY <2>2, <2>3, <2>7
  <2>16. P \in [Entities -> Pos] /\ A \in [Entities -> Pos] /\ O \in [Entities -> Pos]
    BY <2>2, <2>10 DEF World
  <2>17. V \in [Entities -> SUBSET Pos]
    BY <2>2, <2>14 DEF World
  <2>18. L = {c \in Pos : E[c] # {}}
    BY <2>2, <2>11, <2>13 DEF Populated
  <2>19. \A c \in Pos : w.nplayers[c] = Cardinality(E[c] \cap Players)
    <3> TAKE c \in Pos
    <3>1. CASE c \in made
      <4>1. E[c] \cap Players = {}
        BY <2>7, <3>1
      <4> QED
        BY <2>12, <3>1, <4>1, FS_EmptySet
    <3>2. CASE c \notin made
      <4>1. E[c] = w.ents[c]
        BY <3>2
      <4> QED
        BY <2>2, <4>1 DEF Counted
    <3> QED
      BY <3>1, <3>2
  <2>20. \A c \in Places : E[c] = {e \in H : P[e] = c}
    <3> TAKE c \in Places
    <3>1. \A f \in new : P[f] = site(f)
      BY <2>7
    <3>2. \A f \in w.here : P[f] = w.pos[f]
      BY <2>3, <2>7
    <3>3. w.ents[c] = {e \in w.here : w.pos[e] = c} /\ c \in Pos
      BY <2>2 DEF Listed
    <3>4. CASE c \in made
      <4>1. E[c] = {f \in new : site(f) = c}
        BY <3>3, <3>4
      <4>2. \A f \in w.here : w.pos[f] # c
        BY <2>12, <3>3, <3>4
      <4> HIDE DEF E, P
      <4> QED
        BY <3>1, <3>2, <4>1, <4>2
    <3>5. CASE c \notin made
      <4>1. E[c] = w.ents[c]
        BY <3>3, <3>5
      <4>2. \A f \in new : site(f) # c
        BY <2>10, <3>5
      <4> HIDE DEF E, P
      <4> QED
        BY <3>1, <3>2, <3>3, <4>1, <4>2
    <3> QED
      BY <3>4, <3>5
  <2>21. E[NoChunk] = {}
    BY <2>2, <2>11
  <2>22. /\ \A e \in H : A[e] \in Places
         /\ \A e \in H \cap Mobs : O[e] \in Places
         /\ \A e \in Entities \ H : P[e] = NoChunk
    BY <2>2, <2>3, <2>7, <2>10 DEF Rooted
  <2>23. H \cap Players = w.here \cap Players
    BY <2>7
  <2>26. \A e \in w.here : P[e] = w.pos[e] /\ A[e] = w.at[e] /\ O[e] = w.home[e]
    BY <2>3, <2>7
  <2>27. \A e \in H \ w.here : /\ e \in new /\ P[e] = site(e) /\ A[e] = P[e] /\ O[e] = P[e]
    BY <2>7
  <2>28. \A e \in new : e \notin Players /\ site(e) # NoChunk /\ InstOf(site(e)) = i
    BY <2>2, <2>6, <2>7, <2>9, <2>10 DEF site
  <2>29. w.here \subseteq H
    OBVIOUS
  <2> HIDE DEF L, E, H, U, P, A, O, V, v
  <2>24. /\ v \in World /\ v.live = L /\ v.ents = E /\ v.nplayers = w.nplayers
         /\ v.here = H /\ v.pos = P /\ v.at = A /\ v.home = O
    BY <2>1, <2>2, <2>14, <2>15, <2>16, <2>17 DEF World
  <2>25. Whole(v)
    BY <2>18, <2>19, <2>20, <2>21, <2>22, <2>24
       DEF Whole, Sound, Rooted, Listed, Populated, Counted
  <2>30. Joined(v, w, i)
    BY <2>24, <2>26, <2>27, <2>28, <2>29 DEF Joined, Without
  <2> QED
    BY <2>23, <2>24, <2>25, <2>30 DEF v
<1> QED
  BY <1>1, <1>2

-----------------------------------------------------------------------------
(* The handlers, one by one.                                               *)

LEMMA InitWhole == Init => Whole(world)
<1> DEFINE live == {Spawn[e] : e \in DOMAIN Spawn}
           E == [c \in Pos |-> {e \in DOMAIN Spawn : Spawn[e] = c}]
           N == [c \in Pos |-> 0]
           pos == [e \in Entities |-> IF e \in DOMAIN Spawn THEN Spawn[e] ELSE NoChunk]
           V == [e \in Entities |-> IF e \in DOMAIN Spawn THEN Near(Spawn[e]) \cap live ELSE {}]
           S == [m \in Mobs |-> 0]
           T == [p \in Players |-> {}]
<1>0. /\ DOMAIN Spawn \subseteq NPCs /\ DOMAIN Spawn \subseteq Entities
      /\ NoChunk \in Pos /\ NoChunk \notin Places /\ Places \subseteq Pos
      /\ \A e \in DOMAIN Spawn : Spawn[e] \in Places
  BY SpawnsAreNPCs, PosFacts DEF Entities, Places, Insts
<1>1. /\ live \in SUBSET Pos /\ E \in [Pos -> SUBSET Entities] /\ N \in [Pos -> Nat]
      /\ pos \in [Entities -> Pos] /\ V \in [Entities -> SUBSET Pos]
      /\ S \in [Mobs -> Int] /\ T \in [Players -> SUBSET Entities]
  BY <1>0
<1>2. /\ \A c \in Places : E[c] = {e \in DOMAIN Spawn : pos[e] = c}
      /\ E[NoChunk] = {}
      /\ live = {c \in Pos : E[c] # {}}
  BY <1>0
<1>3. \A c \in Pos : N[c] = Cardinality(E[c] \cap Players)
  <2> TAKE c \in Pos
  <2>1. E[c] \cap Players = {}
    BY <1>0, KindsAreDisjoint
  <2> QED
    BY <2>1, FS_EmptySet
<1>4. /\ \A e \in DOMAIN Spawn : pos[e] \in Places
      /\ \A e \in Entities \ DOMAIN Spawn : pos[e] = NoChunk
  BY <1>0
<1>5. Init => world = [live |-> live, ents |-> E, nplayers |-> N, here |-> DOMAIN Spawn,
                       pos |-> pos, views |-> V, at |-> pos, home |-> pos,
                       up |-> DOMAIN Spawn, seen |-> S, summoned |-> {}, gone |-> {}, told |-> T]
  BY DEF Init
<1> HIDE DEF live, E, N, pos, V, S, T
<1> QED
  BY <1>0, <1>1, <1>2, <1>3, <1>4, <1>5
     DEF Whole, Sound, World, Rooted, Listed, Populated, Counted

\* What MoveEffect asks for holds between two handlers.
LEMMA MoveWhole ==
  ASSUME NEW w, Whole(w), NEW e \in w.here, NEW c \in Places
  PROVE  /\ Whole(UpdatePlayerPosition(w, e, c))
         /\ Relocated(UpdatePlayerPosition(w, e, c), w, e, c)
<1>1. /\ w \in World /\ Listed(w) /\ Populated(w) /\ Counted(w) /\ Passing(w, e)
      /\ \A f \in w.here \ {e} : w.at[f] \in Places
      /\ \A f \in w.here \cap Mobs : w.home[f] \in Places
      /\ \A f \in Entities \ w.here : w.pos[f] = NoChunk
  BY DEF Whole, Sound, Rooted, Passing
<1> QED
  BY <1>1, MoveEffect

\* A new cell of the same instance, for whoever stands in one.
LEMMA StepWhole ==
  ASSUME NEW w, Whole(w), NEW e \in w.here, NEW x \in Cells
  PROVE  Whole(UpdatePlayerPosition(w, e, <<x, InstOf(w.at[e])>>))
<1>1. w.at[e] \in Places
  BY DEF Whole, Sound, Rooted
<1>2. <<x, InstOf(w.at[e])>> \in Places
  BY <1>1, PosFacts
<1> QED
  BY <1>2, MoveWhole

LEMMA SendEffect ==
  ASSUME NEW w, Whole(w), NEW p \in w.here, NEW c \in Places
  PROVE  LET v == SendPlayerTo(w, p, c)
         IN Whole(v) /\ v.here \cap Players = w.here \cap Players
<1>1. Whole(WarpPosition(w, p, c)) /\ WarpPosition(w, p, c).here = w.here
  BY WarpEffect DEF Relocated
<1> QED
  BY <1>1, DestroyInstanceEffect DEF SendPlayerTo

LEMMA MemberEffect ==
  ASSUME NEW w, Whole(w), NEW party, NEW n, NEW c \in Places,
         \A k \in DOMAIN party : party[k] \in w.here \cap Players
  PROVE  LET v == SendMember(w, party, n, c)
         IN /\ Whole(v)
            /\ \A k \in DOMAIN party : party[k] \in v.here \cap Players
<1>1. CASE n \in DOMAIN party
  <2>1. party[n] \in w.here
    BY <1>1
  <2>2. /\ Whole(SendPlayerTo(w, party[n], c))
        /\ SendPlayerTo(w, party[n], c).here \cap Players = w.here \cap Players
    BY <2>1, SendEffect
  <2> QED
    BY <1>1, <2>2 DEF SendMember
<1>2. CASE n \notin DOMAIN party
  BY <1>2 DEF SendMember
<1> QED
  BY <1>1, <1>2

LEMMA DestroyNPCWhole ==
  ASSUME NEW w, Whole(w), NEW e \in w.here
  PROVE  LET v == DestroyNPC(w, e)
         IN Whole(v) /\ (v = w \/ Without(v, w, {e}))
<1> DEFINE c == w.pos[e]
           v == UntrackEntity(w, c, e)
           h == RemoveEntityFromChunks(v, Viewable(v, c), e)
<1>1. CASE c \notin w.live
  BY <1>1 DEF DestroyNPC
<1>2. CASE c \in w.live
  <2>1. /\ w \in World /\ Rooted(w) /\ Listed(w) /\ Populated(w) /\ Counted(w)
        /\ w.ents[NoChunk] = {} /\ NoChunk \in Pos /\ Pos = Places \cup {NoChunk}
    BY PosFacts DEF Whole, Sound, Pos
  <2>2. /\ e \in Entities /\ c \in Pos
        /\ w.ents \in [Pos -> SUBSET Entities] /\ w.here \in SUBSET Entities
    BY <2>1, Fields
  <2>3. e \in w.ents[c] \/ w.ents[c] = {}
    BY <2>1, <2>2 DEF Listed
  <2>4. /\ v \in World /\ Frame(v, w) /\ Populated(v) /\ Counted(v)
        /\ v.ents = [w.ents EXCEPT ![c] = @ \ {e}]
    BY <2>1, <2>2, <2>3, UntrackEffect
  <2> HIDE DEF v
  <2>5. Viewable(v, c) \in SUBSET Pos /\ IsFiniteSet(Viewable(v, c))
    BY <2>2, <2>4, ViewableFinite
  <2>6. /\ h \in World /\ Frame(h, v)
        /\ h.ents = v.ents /\ h.live = v.live /\ h.nplayers = v.nplayers
    BY <2>2, <2>4, <2>5, HideEffect
  <2> HIDE DEF h
  <2>7. Rooted(h) /\ Populated(h) /\ Counted(h)
    <3>1. Rooted(h)
      BY <2>1, <2>4, <2>6 DEF Rooted, Frame
    <3>2. Populated(h) /\ Counted(h)
      BY <2>4, <2>6 DEF Populated, Counted
    <3> QED
      BY <3>1, <3>2
  <2>8. /\ h.ents[NoChunk] = {}
        /\ \A d \in Places : h.ents[d] = {f \in h.here \ {e} : h.pos[f] = d}
    BY <2>1, <2>2, <2>4, <2>6 DEF Listed, Frame
  <2>9. {e} \in SUBSET Entities
    BY <2>2
  <2>10. Whole(Freed(h, {e})) /\ Without(Freed(h, {e}), h, {e})
    BY <2>6, <2>7, <2>8, <2>9, FreedEffect
  <2>11. Without(Freed(h, {e}), w, {e})
    BY <2>4, <2>6, <2>10 DEF Without, Frame
  <2> QED
    BY <1>2, <2>10, <2>11 DEF DestroyNPC, h, v
<1> QED
  BY <1>1, <1>2

LEMMA EnterPlayerWhole ==
  ASSUME Whole(world), NEW p \in Players, NEW x \in Cells, EnterPlayer(p, x)
  PROVE  /\ Whole(world')
         /\ world'.here = world.here \cup {p} /\ world'.home = world.home
         /\ world'.at = [world.at EXCEPT ![p] = <<x, Overworld>>]
         /\ world'.pos = [world.pos EXCEPT ![p] = NoChunk]
<1> DEFINE H == world.here \cup {p}
           U == world.up \cup {p}
           A == [world.at EXCEPT ![p] = <<x, Overworld>>]
           P == [world.pos EXCEPT ![p] = NoChunk]
<1>1. /\ world \in World /\ Rooted(world) /\ Listed(world) /\ Populated(world)
      /\ Counted(world) /\ world.ents[NoChunk] = {}
      /\ p \in Entities /\ p \notin Mobs /\ p \notin world.here
      /\ NoChunk \in Pos /\ NoChunk \notin Places /\ Places \subseteq Pos
  BY PosFacts, KindsAreDisjoint DEF Whole, Sound, EnterPlayer, Entities, NPCs
<1>2. <<x, Overworld>> \in Places
  BY PosFacts, InstancesAreKeyed DEF Insts
<1>3. /\ world.at \in [Entities -> Pos] /\ world.pos \in [Entities -> Pos]
      /\ world.here \in SUBSET Entities /\ world.up \in SUBSET Entities
  BY <1>1 DEF World
<1>4. /\ H \in SUBSET Entities /\ U \in SUBSET Entities
      /\ A \in [Entities -> Pos] /\ P \in [Entities -> Pos]
  BY <1>1, <1>2, <1>3
<1>5. /\ \A e \in H : A[e] \in Places
      /\ \A e \in Entities \ H : P[e] = NoChunk
      /\ H \cap Mobs = world.here \cap Mobs
  BY <1>1, <1>2, <1>3 DEF Rooted
<1>6. \A c \in Places : {e \in H : P[e] = c} = {e \in world.here : world.pos[e] = c}
  BY <1>1, <1>3
<1>7. world' = [world EXCEPT !.here = H, !.up = U, !.at = A, !.pos = P]
  BY DEF EnterPlayer
<1> HIDE DEF H, U, A, P
<1>8. /\ world' \in World /\ world'.here = H /\ world'.at = A /\ world'.pos = P
      /\ world'.home = world.home /\ world'.ents = world.ents
      /\ world'.live = world.live /\ world'.nplayers = world.nplayers
  BY <1>1, <1>4, <1>7 DEF World
<1>9. Rooted(world')
  BY <1>1, <1>5, <1>8 DEF Rooted
<1>10. Listed(world')
  BY <1>1, <1>6, <1>8 DEF Listed
<1>11. Populated(world') /\ Counted(world')
  BY <1>1, <1>8 DEF Populated, Counted
<1> QED
  BY <1>1, <1>8, <1>9, <1>10, <1>11 DEF Whole, Sound, H, A, P

LEMMA WarpIntoInstanceWhole ==
  ASSUME Whole(world), NEW party \in Parties(world), NEW i \in Private,
         NEW x \in Cells, NEW copy \in Copyings(world, i),
         WarpIntoInstance(party, i, x, copy)
  PROVE  Whole(world')
<1> DEFINE c == <<x, i>>
           w0 == CreateInstance(world, i, copy)
           w1 == SendMember(w0, party, 1, c)
           w2 == SendMember(w1, party, 2, c)
           w3 == SendMember(w2, party, 3, c)
           w4 == SendMember(w3, party, 4, c)
           In(w) == \A k \in DOMAIN party : party[k] \in w.here \cap Players
<1>1. c \in Places
  BY PosFacts DEF Insts
<1>2. In(world)
  BY DEF Parties
<1>3. Whole(w0) /\ w0.here \cap Players = world.here \cap Players
  BY CreateInstanceEffect
<1>4. world' = w4
  BY DEF WarpIntoInstance
<1> HIDE DEF c, w0
<1>5. Whole(w0) /\ In(w0)
  BY <1>2, <1>3
<1>6. Whole(w1) /\ In(w1)
  BY <1>1, <1>5, MemberEffect
<1> HIDE DEF w1
<1>7. Whole(w2) /\ In(w2)
  BY <1>1, <1>6, MemberEffect
<1> HIDE DEF w2
<1>8. Whole(w3) /\ In(w3)
  BY <1>1, <1>7, MemberEffect
<1> HIDE DEF w3
<1>9. Whole(w4)
  BY <1>1, <1>8, MemberEffect
<1> QED
  BY <1>4, <1>9

LEMMA RemovePlayerWhole ==
  ASSUME Whole(world), NEW p \in Players, RemovePlayer(p)
  PROVE  /\ Whole(world')
         /\ \E v : /\ Whole(v) /\ Without(v, world, {p})
                  /\ world' = DestroyInstanceIfEmpty(v, InstOf(world.at[p]))
<1> DEFINE w == world
           c == w.pos[p]
           h == RemoveEntityFromChunks(w, Viewable(w, c), p)
           u == UntrackEntity(h, c, p)
<1>1. /\ w \in World /\ Rooted(w) /\ Listed(w) /\ Populated(w) /\ Counted(w)
      /\ w.ents[NoChunk] = {} /\ NoChunk \in Pos /\ Pos = Places \cup {NoChunk}
  BY PosFacts DEF Whole, Sound, Pos
<1>2. /\ p \in Entities /\ p \in w.here /\ c \in Pos
      /\ w.ents \in [Pos -> SUBSET Entities] /\ w.here \in SUBSET Entities
  BY <1>1, Fields DEF RemovePlayer, Entities
<1>3. world' = DestroyInstanceIfEmpty(Freed(u, {p}), InstOf(w.at[p]))
  BY DEF RemovePlayer
<1> HIDE DEF w, c
<1>4. Viewable(w, c) \in SUBSET Pos /\ IsFiniteSet(Viewable(w, c))
  BY <1>1, <1>2, ViewableFinite
<1>5. /\ h \in World /\ Frame(h, w)
      /\ h.ents = w.ents /\ h.live = w.live /\ h.nplayers = w.nplayers
  BY <1>1, <1>2, <1>4, HideEffect
<1> HIDE DEF h
<1>6. Populated(h) /\ Counted(h)
  BY <1>1, <1>5 DEF Populated, Counted
<1>7. p \in h.ents[c] \/ h.ents[c] = {}
  BY <1>1, <1>2, <1>5 DEF Listed, c
<1>8. /\ u \in World /\ Frame(u, h) /\ Populated(u) /\ Counted(u)
      /\ u.ents = [h.ents EXCEPT ![c] = @ \ {p}]
  BY <1>2, <1>5, <1>6, <1>7, UntrackEffect
<1> HIDE DEF u
<1>9. Rooted(u)
  BY <1>1, <1>5, <1>8 DEF Rooted, Frame
<1>10. /\ u.ents[NoChunk] = {}
       /\ \A d \in Places : u.ents[d] = {f \in u.here \ {p} : u.pos[f] = d}
  BY <1>1, <1>2, <1>5, <1>8 DEF Listed, Frame, c
<1>11. Whole(Freed(u, {p})) /\ Without(Freed(u, {p}), u, {p})
  <2>1. {p} \in SUBSET Entities
    BY <1>2
  <2> QED
    BY <1>8, <1>9, <1>10, <2>1, FreedEffect
<1>12. Without(Freed(u, {p}), w, {p})
  <2>1. Frame(u, w)
    BY <1>5, <1>8 DEF Frame
  <2>2. Without(Freed(u, {p}), u, {p})
    BY <1>11
  <2> QED
    BY ONLY <2>1, <2>2 DEF Without, Frame
<1> QED
  BY <1>3, <1>11, <1>12, DestroyInstanceEffect DEF w

LEMMA SummonNPCWhole ==
  ASSUME Whole(world), NEW e \in Summonable, NEW p \in Players, NEW r \in BOOLEAN,
         SummonNPC(e, p, r)
  PROVE  LET c == world.at[p]
         IN /\ Whole(world') /\ world'.here = world.here \cup {e}
            /\ world'.home = [world.home EXCEPT ![e] = c]
            /\ world'.at = [world.at EXCEPT ![e] = c]
            /\ world'.pos = [world.pos EXCEPT ![e] = c]
<1> DEFINE H == world.here \cup {e}
           U == world.up \cup {e}
           O == [world.home EXCEPT ![e] = world.at[p]]
           M == IF r THEN world.summoned ELSE world.summoned \cup {e}
           v == [world EXCEPT !.here = @ \cup {e}, !.up = @ \cup {e},
                              !.home[e] = world.at[p],
                              !.summoned = IF r THEN @ ELSE @ \cup {e}]
           c == world.at[p]
<1>1. /\ world \in World /\ Rooted(world) /\ Listed(world) /\ Populated(world)
      /\ Counted(world) /\ world.ents[NoChunk] = {}
      /\ e \in NPCs /\ e \in Entities /\ e \notin world.here /\ p \in world.here
      /\ NoChunk \in Pos /\ NoChunk \notin Places /\ Places \subseteq Pos
  BY PosFacts, SpawnsAreNPCs DEF Whole, Sound, SummonNPC, Unused, Entities, NPCs
<1>2. c \in Places
  BY <1>1 DEF Rooted
<1>3. /\ H \in SUBSET Entities /\ U \in SUBSET Entities /\ M \in SUBSET NPCs
      /\ O \in [Entities -> Pos]
  BY <1>1, <1>2 DEF World
<1>4. v = [world EXCEPT !.here = H, !.up = U, !.home = O, !.summoned = M]
  OBVIOUS
<1>5. /\ \A f \in H \cap Mobs : O[f] \in Places
      /\ \A f \in H \ {e} : world.at[f] \in Places
      /\ \A f \in Entities \ H : world.pos[f] = NoChunk
  BY <1>1, <1>2, Fields DEF Rooted
<1>6. \A d \in Places : {f \in H : world.pos[f] = d} = {f \in world.here : world.pos[f] = d}
  BY <1>1 DEF Rooted
<1>7. world' = UpdatePlayerPosition(v, e, c)
  BY PositionsAgree DEF SummonNPC
<1>8. e \in H
  OBVIOUS
<1> HIDE DEF H, U, O, M, v, c
<1>9. /\ v \in World /\ v.here = H /\ v.home = O /\ v.at = world.at /\ v.pos = world.pos
      /\ v.ents = world.ents /\ v.live = world.live /\ v.nplayers = world.nplayers
  BY <1>1, <1>3, <1>4 DEF World
<1>10. Listed(v)
  BY <1>1, <1>6, <1>9 DEF Listed
<1>11. Populated(v) /\ Counted(v) /\ Passing(v, e)
  BY <1>1, <1>9 DEF Populated, Counted, Passing
<1>12. /\ e \in v.here
       /\ \A f \in v.here \ {e} : v.at[f] \in Places
       /\ \A f \in v.here \cap Mobs : v.home[f] \in Places
       /\ \A f \in Entities \ v.here : v.pos[f] = NoChunk
  BY <1>5, <1>8, <1>9
<1>13. /\ Whole(UpdatePlayerPosition(v, e, c))
       /\ Relocated(UpdatePlayerPosition(v, e, c), v, e, c)
  BY <1>2, <1>9, <1>10, <1>11, <1>12, MoveEffect
<1> QED
  BY <1>7, <1>9, <1>13 DEF Relocated, H, O, c

\* What the index consists of, when the handler only touches what is told,
\* counted or drawn.
LEMMA SameIndex ==
  ASSUME NEW w, Whole(w), NEW v \in World, Frame(v, w),
         v.ents = w.ents, v.live = w.live, v.nplayers = w.nplayers
  PROVE  Whole(v)
<1>1. Rooted(v)
  BY DEF Whole, Sound, Rooted, Frame
<1>2. Listed(v)
  BY DEF Whole, Sound, Listed, Frame
<1>3. Populated(v) /\ Counted(v) /\ v.ents[NoChunk] = {}
  BY DEF Whole, Sound, Populated, Counted
<1> QED
  BY <1>1, <1>2, <1>3 DEF Whole, Sound

LEMMA KillMobWhole ==
  ASSUME Whole(world), NEW m \in Mobs, KillMob(m)
  PROVE  Whole(world') /\ Frame(world', world)
<1> DEFINE U == world.up \ {m}
           G == world.gone \ {m}
<1>1. world \in World
  BY DEF Whole, Sound
<1>2. U \in SUBSET Entities /\ G \in SUBSET Mobs
  BY <1>1 DEF World
<1>3. world' = [world EXCEPT !.up = U, !.gone = G]
  BY DEF KillMob
<1> HIDE DEF U, G
<1>4. /\ world' \in World /\ Frame(world', world) /\ world'.ents = world.ents
      /\ world'.live = world.live /\ world'.nplayers = world.nplayers
  BY <1>1, <1>2, <1>3 DEF World, Frame
<1> QED
  BY <1>4, SameIndex

LEMMA RetreatMobWhole ==
  ASSUME Whole(world), NEW m \in Mobs, NEW x \in Cells, RetreatMob(m, x)
  PROVE  Whole(world') /\ Shifted(world', world, m, <<x, InstOf(world.at[m])>>)
<1> DEFINE A == [world.at EXCEPT ![m] = <<x, InstOf(@)>>]
<1>1. /\ world \in World /\ Rooted(world) /\ Listed(world) /\ Populated(world)
      /\ Counted(world) /\ world.ents[NoChunk] = {}
  BY DEF Whole, Sound
<1>2. m \in world.here /\ m \in Entities
  BY DEF RetreatMob, Entities, NPCs
<1>3. <<x, InstOf(world.at[m])>> \in Places
  BY <1>1, <1>2, PosFacts DEF Rooted
<1>4. /\ A \in [Entities -> Pos]
      /\ \A e \in world.here : A[e] \in Places
  BY <1>1, <1>2, <1>3, PosFacts DEF World, Rooted
<1>5. world' = [world EXCEPT !.at = A]
  BY DEF RetreatMob
<1> HIDE DEF A
<1>6. /\ world' \in World /\ world'.at = A
      /\ world'.here = world.here /\ world'.home = world.home /\ world'.pos = world.pos
      /\ world'.ents = world.ents /\ world'.live = world.live
      /\ world'.nplayers = world.nplayers
  BY <1>1, <1>4, <1>5 DEF World
<1>7. Rooted(world')
  BY <1>1, <1>4, <1>6 DEF Rooted
<1>8. Listed(world') /\ Populated(world') /\ Counted(world')
  BY <1>1, <1>6 DEF Listed, Populated, Counted
<1> QED
  BY <1>1, <1>6, <1>7, <1>8 DEF Whole, Sound, Shifted, A

LEMMA DespawnMobWhole ==
  ASSUME Whole(world), NEW m \in Mobs, DespawnMob(m)
  PROVE  /\ Whole(world')
         /\ \/ Frame(world', world)
            \/ Without(world', world, {m})
            \/ Shifted(world', world, m, world.home[m])
<1> DEFINE G == world.gone \cup {m}
           T == [p \in Players |->
                   IF p \in Audience(world, m) THEN world.told[p] \ {m} ELSE world.told[p]]
           v == [world EXCEPT
                   !.gone = @ \cup {m},
                   !.told = [p \in Players |->
                     IF p \in Audience(world, m) THEN @[p] \ {m} ELSE @[p]]]
           A == [v.at EXCEPT ![m] = v.home[m]]
           u == [v EXCEPT !.at[m] = world.home[m]]
<1>1. world \in World /\ m \in world.here
  BY DEF Whole, Sound, DespawnMob
<1>2. G \in SUBSET Mobs /\ T \in [Players -> SUBSET Entities]
  BY <1>1 DEF World
<1>3. v = [world EXCEPT !.gone = G, !.told = T]
  OBVIOUS
<1>4. world' = IF m \in world.summoned THEN DestroyNPC(v, m) ELSE u
  BY DEF DespawnMob
<1>5. v.home = world.home
  BY <1>3 DEF World
<1>6. u = [v EXCEPT !.at = A]
  BY <1>5
<1> HIDE DEF G, T, v
<1>7. /\ v \in World /\ Frame(v, world) /\ v.ents = world.ents
      /\ v.live = world.live /\ v.nplayers = world.nplayers
  BY <1>1, <1>2, <1>3 DEF World, Frame
<1>8. Whole(v)
  BY <1>7, SameIndex
<1>9. m \in v.here
  BY <1>1, <1>7 DEF Frame
<1>10. Whole(DestroyNPC(v, m)) /\ (DestroyNPC(v, m) = v \/ Without(DestroyNPC(v, m), v, {m}))
  BY <1>8, <1>9, DestroyNPCWhole
<1>11. Whole(u) /\ Shifted(u, v, m, v.home[m])
  <2>1. v.home[m] \in Places /\ v.at \in [Entities -> Pos] /\ Places \subseteq Pos
    BY <1>7, <1>8, <1>9, Fields, PosFacts DEF Whole, Sound, Rooted
  <2>2. A \in [Entities -> Pos] /\ \A e \in v.here : A[e] \in Places
    <3>1. \A e \in v.here : v.at[e] \in Places /\ e \in Entities
      BY <1>7, <1>8, Fields DEF Whole, Sound, Rooted
    <3> QED
      BY <2>1, <3>1
  <2> HIDE DEF A, u
  <2>3. /\ u \in World /\ u.at = A /\ u.here = v.here /\ u.home = v.home /\ u.pos = v.pos
        /\ u.ents = v.ents /\ u.live = v.live /\ u.nplayers = v.nplayers
    BY <1>6, <1>7, <2>2 DEF World
  <2>4. Rooted(u) /\ Listed(u)
    BY <1>8, <2>2, <2>3 DEF Whole, Sound, Rooted, Listed
  <2>5. Populated(u) /\ Counted(u) /\ u.ents[NoChunk] = {}
    BY <1>8, <2>3 DEF Whole, Sound, Populated, Counted
  <2> QED
    BY <2>3, <2>4, <2>5 DEF Whole, Sound, Shifted, A
<1>12. CASE m \in world.summoned
  BY <1>4, <1>7, <1>10, <1>12 DEF Without, Frame
<1>13. CASE m \notin world.summoned
  BY <1>4, <1>7, <1>11, <1>13 DEF Shifted, Frame
<1> QED
  BY <1>12, <1>13

LEMMA RespawnMobWhole ==
  ASSUME Whole(world), NEW m \in Mobs, NEW l \in Mobs, RespawnMob(m, l)
  PROVE  Whole(world') /\ Shifted(world', world, m, world.at[l])
<1> DEFINE U == world.up \cup {m}
           G == world.gone \ {m}
           A == [world.at EXCEPT ![m] = world.at[l]]
           T == [p \in Players |->
                   IF p \in Audience(world, m) THEN world.told[p] \cup {m} ELSE world.told[p]]
<1>1. /\ world \in World /\ m \in world.here /\ l \in world.here /\ m \in Entities
      /\ world.at[l] \in Places /\ Places \subseteq Pos
  BY PosFacts DEF Whole, Sound, Rooted, RespawnMob, Entities, NPCs
<1>2. U \in SUBSET Entities /\ G \in SUBSET Mobs /\ T \in [Players -> SUBSET Entities]
  BY <1>1 DEF World
<1>3. A \in [Entities -> Pos] /\ \A e \in world.here : A[e] \in Places
  BY <1>1, Fields DEF Whole, Sound, Rooted
<1>4. world' = [world EXCEPT !.up = U, !.gone = G, !.at = A, !.told = T]
  BY DEF RespawnMob
<1> HIDE DEF U, G, A, T
<1>5. /\ world' \in World /\ world'.at = A /\ world'.here = world.here
      /\ world'.home = world.home /\ world'.pos = world.pos /\ world'.ents = world.ents
      /\ world'.live = world.live /\ world'.nplayers = world.nplayers
  BY <1>1, <1>2, <1>3, <1>4 DEF World
<1>6. Rooted(world') /\ Listed(world')
  BY <1>3, <1>5 DEF Whole, Sound, Rooted, Listed
<1>7. Populated(world') /\ Counted(world') /\ world'.ents[NoChunk] = {}
  BY <1>5 DEF Whole, Sound, Populated, Counted
<1> QED
  BY <1>5, <1>6, <1>7 DEF Whole, Sound, Shifted, A

LEMMA PickUpEggWhole ==
  ASSUME Whole(world), NEW g \in Eggs, PickUpEgg(g)
  PROVE  Whole(world') /\ Frame(world', world)
<1> DEFINE v == RemoveEntityFromChunks(world, Viewable(world, world.pos[g]), g)
           U == v.up \ {g}
<1>1. world \in World /\ g \in Entities /\ world.pos[g] \in Pos
  BY Fields DEF Whole, Sound, Entities, NPCs
<1>2. world' = [v EXCEPT !.up = U]
  BY DEF PickUpEgg
<1>3. /\ v \in World /\ Frame(v, world) /\ v.ents = world.ents
      /\ v.live = world.live /\ v.nplayers = world.nplayers
  BY <1>1, ViewableFinite, HideEffect
<1>4. U \in SUBSET Entities
  <2> HIDE DEF v
  <2> QED BY <1>3 DEF World
<1> HIDE DEF v, U
<1>5. /\ world' \in World /\ Frame(world', world) /\ world'.ents = world.ents
      /\ world'.live = world.live /\ world'.nplayers = world.nplayers
  BY <1>2, <1>3, <1>4 DEF World, Frame
<1> QED
  BY <1>5, SameIndex

LEMMA RegrowEggWhole ==
  ASSUME Whole(world), NEW g \in Eggs, RegrowEgg(g)
  PROVE  Whole(world') /\ Frame(world', world)
<1> DEFINE U == world.up \cup {g}
           v == [world EXCEPT !.up = @ \cup {g}]
<1>1. world \in World /\ g \in Entities
  BY DEF Whole, Sound, Entities, NPCs
<1>2. world' = AddEntityToChunks(v, Viewable(v, v.pos[g]), g)
  BY DEF RegrowEgg
<1>3. U \in SUBSET Entities /\ v = [world EXCEPT !.up = U]
  BY <1>1 DEF World
<1> HIDE DEF U, v
<1>4. /\ v \in World /\ Frame(v, world) /\ v.ents = world.ents
      /\ v.live = world.live /\ v.nplayers = world.nplayers
  BY <1>1, <1>3 DEF World, Frame
<1>5. v.pos[g] \in Pos
  BY <1>1, <1>4, Fields
<1>6. /\ world' \in World /\ Frame(world', v) /\ world'.ents = v.ents
      /\ world'.live = v.live /\ world'.nplayers = v.nplayers
  BY <1>1, <1>2, <1>4, <1>5, ViewableFinite, ShowEffect
<1>7. Whole(v)
  BY <1>4, SameIndex
<1>8. Frame(world', world)
  BY <1>4, <1>6 DEF Frame
<1> QED
  BY <1>6, <1>7, <1>8, SameIndex

-----------------------------------------------------------------------------
(* The index, at every step of every behaviour.                            *)

LEMMA OverworldPlaces == \A x \in Cells : <<x, Overworld>> \in Places
BY InstancesAreKeyed DEF Places, Insts

LEMMA NextWhole == Whole(world) /\ [Next]_world => Whole(world)'
<1> SUFFICES ASSUME Whole(world), [Next]_world PROVE Whole(world')
  OBVIOUS
<1>1. ASSUME NEW p \in Players, NEW x \in Cells, EnterPlayer(p, x) PROVE Whole(world')
  BY <1>1, EnterPlayerWhole
<1>2. ASSUME NEW p \in Players, NEW x \in Cells, MovePlayer(p, x) PROVE Whole(world')
  <2>1. /\ p \in world.here
        /\ world' = UpdatePlayerPosition(world, p, <<x, InstOf(world.at[p])>>)
    BY <1>2 DEF MovePlayer
  <2> QED
    BY <2>1, StepWhole
<1>3. ASSUME NEW p \in Players, NEW c \in Places, WarpPlayer(p, c) PROVE Whole(world')
  <2>1. p \in world.here /\ world' = SendPlayerTo(world, p, c)
    BY <1>3 DEF WarpPlayer
  <2> QED
    BY <2>1, SendEffect
<1>4. ASSUME NEW party \in Parties(world), NEW i \in Private, NEW x \in Cells,
             NEW copy \in Copyings(world, i), WarpIntoInstance(party, i, x, copy)
      PROVE  Whole(world')
  BY <1>4, WarpIntoInstanceWhole
<1>5. ASSUME NEW p \in Players, RemovePlayer(p) PROVE Whole(world')
  BY <1>5, RemovePlayerWhole
<1>6. ASSUME NEW e \in Mobs \cup Props, NEW x \in Cells, MoveNPC(e, x) PROVE Whole(world')
  <2>1. /\ e \in world.here
        /\ world' = UpdatePlayerPosition(world, e, <<x, InstOf(world.at[e])>>)
    BY <1>6, PositionsAgree DEF MoveNPC
  <2> QED
    BY <2>1, StepWhole
<1>7. ASSUME NEW e \in Summonable, NEW p \in Players, NEW r \in BOOLEAN, SummonNPC(e, p, r)
      PROVE  Whole(world')
  BY <1>7, SummonNPCWhole
<1>8. ASSUME NEW e \in NPCs, UnsummonNPC(e) PROVE Whole(world')
  BY <1>8, DestroyNPCWhole DEF UnsummonNPC
<1>9. ASSUME NEW m \in Mobs, KillMob(m) PROVE Whole(world')
  BY <1>9, KillMobWhole
<1>10. ASSUME NEW m \in Mobs, DespawnMob(m) PROVE Whole(world')
  BY <1>10, DespawnMobWhole
<1>11. ASSUME NEW m \in Mobs, NEW l \in Mobs, RespawnMob(m, l) PROVE Whole(world')
  BY <1>11, RespawnMobWhole
<1>12. ASSUME NEW g \in Eggs, PickUpEgg(g) PROVE Whole(world')
  BY <1>12, PickUpEggWhole
<1>13. ASSUME NEW g \in Eggs, RegrowEgg(g) PROVE Whole(world')
  BY <1>13, RegrowEggWhole
<1>14. ASSUME NEW m \in Mobs, NEW x \in Cells, RetreatMob(m, x) PROVE Whole(world')
  BY <1>14, RetreatMobWhole
<1>15. CASE UNCHANGED world
  BY <1>15
<1>16. ASSUME NEW p \in Players, NEW x \in Cells, TransportWarp(p, x) PROVE Whole(world')
  BY <1>16, OverworldPlaces, WarpEffect DEF TransportWarp
<1> QED
  BY <1>1, <1>2, <1>3, <1>4, <1>5, <1>6, <1>7, <1>8, <1>9, <1>10, <1>11, <1>12, <1>13, <1>14,
     <1>15, <1>16 DEF Next, PlayerNext, NPCNext, TransportNext

\* The inductive invariant holds in every state the handlers reach, so each
\* of them is entered with the index it expects.
THEOREM WholeIsInvariant == Spec => []Whole(world)
  BY InitWhole, NextWhole, PTL DEF Spec

\* Every handler keeps every part of the index within its type: no cache ever
\* holds anything but chunk positions and entities.
THEOREM TypeIsInvariant == Spec => []TypeOK
<1>1. Whole(world) => TypeOK
  BY DEF Whole, Sound, TypeOK
<1> QED
  BY <1>1, WholeIsInvariant, PTL

\* The list of each chunk and the position cached by each entity stay each
\* other's inverse through every handler, with any number of players, NPCs and
\* maps (trackEntity(), untrackEntity(), updateEntityChunk()).
THEOREM IndexAgreesAlways == Spec => []IndexAgrees
<1>1. Whole(world) => IndexAgrees
  <2> SUFFICES ASSUME Whole(world), NEW c \in Pos
               PROVE  world.ents[c] = {e \in Entities : Placed(e) /\ world.pos[e] = c}
    BY DEF IndexAgrees
  <2>1. world.here \in SUBSET Entities
    BY Fields DEF Whole, Sound
  <2>2. CASE c = NoChunk
    BY <2>2 DEF Whole, Placed
  <2>3. CASE c # NoChunk
    BY <2>1, <2>3 DEF Whole, Sound, Listed, Pos, Placed
  <2> QED
    BY <2>2, <2>3
<1> QED
  BY <1>1, WholeIsInvariant, PTL

\* Chunks are created for the first entity and deleted with the last one: none
\* leaks, and none that is in use is deleted (newChunk(), deleteChunk(),
\* destroyInstance()).
THEOREM LiveIffPopulatedAlways == Spec => []LiveIffPopulated
<1>1. Whole(world) => LiveIffPopulated
  BY DEF Whole, Sound, Populated, LiveIffPopulated
<1> QED
  BY <1>1, WholeIsInvariant, PTL

\* nplayers never drifts from the players in the chunk, so its assertion in
\* untrackEntity() cannot fail.
THEOREM PlayersCountedAlways == Spec => []PlayersCounted
<1>1. Whole(world) => PlayersCounted
  BY DEF Whole, Sound, Counted, PlayersCounted
<1> QED
  BY <1>1, WholeIsInvariant, PTL

-----------------------------------------------------------------------------
(* Instances, and who is in them.                                          *)

\* Coordinates and chunk of an entity are in one instance; who is in no chunk
\* yet stands on a public map.  A mob's home is in the instance it is in.
Anchored(w) ==
  /\ \A e \in w.here : IF w.pos[e] = NoChunk THEN InstOf(w.at[e]) \in Maps
                       ELSE InstOf(w.at[e]) = InstOf(w.pos[e])
  /\ \A m \in w.here \cap Mobs : InstOf(w.home[m]) = InstOf(w.at[m])

\* Whatever is in one of the instances I is there with a player.  The clean-up
\* keeps this for any set J of instances, of which TransportWarp takes one away.
Peopled(w, I) == \A i \in I : Inside(w, i) # {} => Inside(w, i) \cap Players # {}

Inhabited(w, J) == Whole(w) /\ Anchored(w) /\ Peopled(w, J)

LEMMA InstFacts ==
  /\ InstOf(NoChunk) = NoInst /\ NoInst \notin Insts
  /\ \A i \in Private : i # NoInst /\ i \notin Maps /\ i \in Insts
  /\ \A i \in Maps : i \in Insts
  /\ \A x \in Cells, i \in Insts : InstOf(<<x, i>>) = i
<1>1. /\ NoInst \notin Insts /\ Maps \cap Private = {} /\ Insts = Maps \cup Private
      /\ NoChunk \notin Places
  BY InstancesAreKeyed DEF Insts
<1>2. \A x \in Cells, i \in Insts : <<x, i>> # NoChunk
  BY <1>1 DEF Places
<1> QED
  BY <1>1, <1>2 DEF InstOf

LEMMA Typed ==
  ASSUME NEW w, Whole(w)
  PROVE  /\ w.here \in SUBSET Entities
         /\ w.pos \in [Entities -> Pos] /\ w.at \in [Entities -> Pos]
         /\ w.home \in [Entities -> Pos]
         /\ \A e \in w.here : w.at[e] \in Places
BY Fields DEF Whole, Sound, Rooted

LEMMA RelocatedAnchored ==
  ASSUME NEW w, Whole(w), Anchored(w), NEW e \in w.here, NEW c \in Places, NEW v,
         Relocated(v, w, e, c), e \in Mobs => InstOf(c) = InstOf(w.at[e])
  PROVE  Anchored(v)
<1>1. /\ v.here = w.here /\ v.home = w.home /\ c # NoChunk /\ e \in Entities
      /\ v.at[e] = c /\ v.pos[e] = c
      /\ \A f \in w.here : f # e => v.at[f] = w.at[f] /\ v.pos[f] = w.pos[f]
  BY Typed, PosFacts DEF Relocated
<1>2. ASSUME NEW f \in w.here
      PROVE  IF v.pos[f] = NoChunk THEN InstOf(v.at[f]) \in Maps
             ELSE InstOf(v.at[f]) = InstOf(v.pos[f])
  BY <1>1 DEF Anchored
<1>3. ASSUME NEW m \in w.here \cap Mobs PROVE InstOf(v.home[m]) = InstOf(v.at[m])
  BY <1>1 DEF Anchored
<1> QED
  BY <1>1, <1>2, <1>3 DEF Anchored

\* A player that goes to c may leave NPCs behind alone.
LEMMA PlayerMovesPeopled ==
  ASSUME NEW w, Whole(w), NEW I, Peopled(w, I), NEW p \in w.here \cap Players,
         NEW c \in Places, NEW v, Relocated(v, w, p, c)
  PROVE  Peopled(v, (I \ {InstOf(w.pos[p])}) \cup {InstOf(c)})
<1>1. /\ v.here = w.here /\ v.pos[p] = c
      /\ \A f \in w.here : f # p => v.pos[f] = w.pos[f]
  BY Typed DEF Relocated
<1>2. p \in Inside(v, InstOf(c)) \cap Players
  BY <1>1 DEF Inside
<1>3. ASSUME NEW i, i # InstOf(w.pos[p]), i # InstOf(c)
      PROVE  Inside(v, i) = Inside(w, i)
  BY <1>1, <1>3 DEF Inside
<1> QED
  BY <1>2, <1>3 DEF Peopled

\* An NPC never enters an instance on its own.
LEMMA NPCMovesPeopled ==
  ASSUME NEW w, Whole(w), NEW I, Peopled(w, I), NEW e \in w.here \ Players,
         NEW c \in Places, NEW v, Relocated(v, w, e, c),
         InstOf(c) = InstOf(w.pos[e]) \/ InstOf(c) \notin I
  PROVE  Peopled(v, I)
<1>1. /\ v.here = w.here /\ v.pos[e] = c
      /\ \A f \in w.here : f # e => v.pos[f] = w.pos[f]
  BY Typed DEF Relocated
<1>2. ASSUME NEW i \in I, Inside(v, i) # {} PROVE Inside(v, i) \cap Players # {}
  <2>1. Inside(w, i) # {}
    BY <1>1, <1>2 DEF Inside
  <2>2. Inside(w, i) \cap Players # {}
    BY <2>1 DEF Peopled
  <2> QED
    BY <1>1, <2>2 DEF Inside
<1> QED
  BY <1>2 DEF Peopled

\* Where the freed players were, NPCs may be left alone.
LEMMA WithoutKeeps ==
  ASSUME NEW w, NEW v, NEW S, Without(v, w, S), NEW I, NEW j,
         \A p \in S \cap w.here \cap Players : InstOf(w.pos[p]) = j
  PROVE  /\ Anchored(w) => Anchored(v)
         /\ Peopled(w, I) => Peopled(v, I \ {j})
<1>1. /\ v.here = w.here \ S
      /\ \A e \in v.here : v.pos[e] = w.pos[e] /\ v.at[e] = w.at[e] /\ v.home[e] = w.home[e]
  BY DEF Without
<1>2. ASSUME Anchored(w) PROVE Anchored(v)
  BY <1>1, <1>2 DEF Anchored
<1>3. ASSUME Peopled(w, I), NEW i \in I, i # j, Inside(v, i) # {}
      PROVE  Inside(v, i) \cap Players # {}
  <2>1. Inside(w, i) # {}
    BY <1>1, <1>3 DEF Inside
  <2>2. PICK p \in Players : p \in Inside(w, i)
    BY <1>3, <2>1 DEF Peopled
  <2>3. p \in Inside(v, i)
    BY <1>1, <1>3, <2>2 DEF Inside
  <2> QED
    BY <2>3
<1> QED
  BY <1>2, <1>3 DEF Peopled

\* The clean-up of an instance settles whether it is peopled.
LEMMA CleanInhabited ==
  ASSUME NEW J \in SUBSET Private,
         NEW w, Whole(w), Anchored(w), NEW i, Peopled(w, J \ {i})
  PROVE  Inhabited(DestroyInstanceIfEmpty(w, i), J)
<1> DEFINE v == DestroyInstanceIfEmpty(w, i)
<1>1. /\ Whole(v)
      /\ \/ v = w /\ (i \notin Private \/ Inside(w, i) \cap Players # {})
         \/ /\ i \in Private /\ Inside(w, i) \cap Players = {}
            /\ Without(v, w, Inside(w, i))
  BY DestroyInstanceEffect
<1> SUFFICES Inhabited(v, J)
  OBVIOUS
<1> HIDE DEF v
<1>2. CASE v = w /\ (i \notin Private \/ Inside(w, i) \cap Players # {})
  BY <1>2 DEF Inhabited, Peopled
<1>3. CASE /\ i \in Private /\ Inside(w, i) \cap Players = {}
           /\ Without(v, w, Inside(w, i))
  <2>1. /\ Anchored(w) => Anchored(v)
        /\ Peopled(w, J \ {i}) => Peopled(v, (J \ {i}) \ {NoInst})
    BY <1>3, WithoutKeeps
  <2>2. Inside(v, i) = {}
    BY <1>3 DEF Without, Inside
  <2>3. Peopled(v, J)
    BY <2>1, <2>2, InstFacts DEF Peopled
  <2> QED
    BY <1>1, <2>1, <2>3 DEF Inhabited
<1> QED
  BY <1>1, <1>2, <1>3

LEMMA SendInhabited ==
  ASSUME NEW J \in SUBSET Private,
         NEW w, Whole(w), Anchored(w), NEW p \in w.here \cap Players, NEW c \in Places,
         Peopled(w, J \ {InstOf(c)})
  PROVE  Inhabited(SendPlayerTo(w, p, c), J)
<1> DEFINE u == WarpPosition(w, p, c)
<1>1. Whole(u) /\ Relocated(u, w, p, c)
  BY WarpEffect
<1>2. SendPlayerTo(w, p, c) = DestroyInstanceIfEmpty(u, InstOf(w.at[p]))
  BY DEF SendPlayerTo
<1> HIDE DEF u
<1>3. Anchored(u)
  BY <1>1, RelocatedAnchored, KindsAreDisjoint DEF NPCs
<1>4. Peopled(u, ((J \ {InstOf(c)}) \ {InstOf(w.pos[p])}) \cup {InstOf(c)})
  BY <1>1, PlayerMovesPeopled
<1>5. InstOf(w.pos[p]) = InstOf(w.at[p]) \/ InstOf(w.pos[p]) \notin Private
  BY InstFacts DEF Anchored
<1>6. Peopled(u, J \ {InstOf(w.at[p])})
  BY <1>4, <1>5 DEF Peopled
<1> QED
  BY <1>1, <1>2, <1>3, <1>6, CleanInhabited

LEMMA MemberInhabited ==
  ASSUME NEW J \in SUBSET Private,
         NEW w, Whole(w), Anchored(w), NEW party, NEW n, NEW c \in Places,
         \A k \in DOMAIN party : party[k] \in w.here \cap Players,
         Peopled(w, J \ {InstOf(c)})
  PROVE  LET v == SendMember(w, party, n, c)
         IN /\ Whole(v) /\ Anchored(v) /\ Peopled(v, J \ {InstOf(c)})
            /\ n \in DOMAIN party \/ Inhabited(w, J) => Inhabited(v, J)
<1>1. CASE n \in DOMAIN party
  <2>1. Inhabited(SendPlayerTo(w, party[n], c), J)
    BY <1>1, SendInhabited
  <2> QED
    BY <1>1, <2>1 DEF SendMember, Inhabited, Peopled
<1>2. CASE n \notin DOMAIN party
  BY <1>2 DEF SendMember
<1> QED
  BY <1>1, <1>2

LEMMA WarpIntoInstanceInhabited ==
  ASSUME NEW J \in SUBSET Private,
         Inhabited(world, J), NEW party \in Parties(world), NEW i \in Private,
         NEW x \in Cells, NEW copy \in Copyings(world, i),
         WarpIntoInstance(party, i, x, copy)
  PROVE  Inhabited(world', J)
<1> DEFINE c == <<x, i>>
           w0 == CreateInstance(world, i, copy)
           w1 == SendMember(w0, party, 1, c)
           w2 == SendMember(w1, party, 2, c)
           w3 == SendMember(w2, party, 3, c)
           w4 == SendMember(w3, party, 4, c)
           In(w) == \A k \in DOMAIN party : party[k] \in w.here \cap Players
           Good(w) == Whole(w) /\ In(w) /\ Anchored(w) /\ Peopled(w, J \ {i})
<1>1. c \in Places /\ InstOf(c) = i
  BY PosFacts, InstFacts DEF Insts
<1>2. In(world) /\ 1 \in DOMAIN party
  BY DEF Parties
<1>3. Whole(w0) /\ w0.here \cap Players = world.here \cap Players /\ Joined(w0, world, i)
  BY CreateInstanceEffect DEF Inhabited
<1>4. world' = w4
  BY DEF WarpIntoInstance
<1> HIDE DEF c, w0
<1>5. Anchored(w0)
  BY <1>3 DEF Inhabited, Anchored, Joined, Without
<1>6. Peopled(w0, J \ {i})
  <2> SUFFICES ASSUME NEW j \in J, j # i, Inside(w0, j) # {}
               PROVE  Inside(w0, j) \cap Players # {}
    BY DEF Peopled
  <2>1. Inside(world, j) = Inside(w0, j)
    BY <1>3 DEF Joined, Without, Inside
  <2> QED
    BY <2>1 DEF Inhabited, Peopled
<1>7. Good(w0)
  BY <1>2, <1>3, <1>5, <1>6
<1>8. Good(w1) /\ Inhabited(w1, J)
  BY <1>1, <1>2, <1>7, MemberEffect, MemberInhabited
<1> HIDE DEF w1
<1>9. Good(w2) /\ Inhabited(w2, J)
  BY <1>1, <1>8, MemberEffect, MemberInhabited
<1> HIDE DEF w2
<1>10. Good(w3) /\ Inhabited(w3, J)
  BY <1>1, <1>9, MemberEffect, MemberInhabited
<1> HIDE DEF w3
<1>11. Inhabited(w4, J)
  BY <1>1, <1>10, MemberInhabited
<1> QED
  BY <1>4, <1>11

LEMMA InitAnchored == Init => Whole(world) /\ Anchored(world)
<1> SUFFICES ASSUME Init PROVE Whole(world) /\ Anchored(world)
  OBVIOUS
<1>1. Whole(world)
  BY InitWhole
<1>2. /\ world.here = DOMAIN Spawn /\ DOMAIN Spawn \subseteq Entities
      /\ world.pos = [e \in Entities |-> IF e \in DOMAIN Spawn THEN Spawn[e] ELSE NoChunk]
      /\ world.at = world.pos /\ world.home = world.pos
  BY SpawnsAreNPCs DEF Init, Entities
<1>3. \A e \in world.here : /\ world.pos[e] \in Cells \X Maps
                            /\ world.pos[e] # NoChunk /\ InstOf(world.pos[e]) \in Maps
  <2> TAKE e \in world.here
  <2>1. world.pos[e] \in Cells \X Maps /\ Cells \X Maps \subseteq Places
    BY <1>2, SpawnsAreNPCs DEF Places, Insts
  <2> QED
    BY <2>1, PosFacts DEF InstOf
<1>4. Anchored(world)
  BY <1>2, <1>3 DEF Anchored
<1> QED
  BY <1>1, <1>4

\* A step within the instance one is in.
LEMMA StepInhabited ==
  ASSUME NEW J \in SUBSET Private,
         NEW w, Inhabited(w, J), NEW e \in w.here, NEW x \in Cells
  PROVE  Inhabited(UpdatePlayerPosition(w, e, <<x, InstOf(w.at[e])>>), J)
<1> DEFINE c == <<x, InstOf(w.at[e])>>
           v == UpdatePlayerPosition(w, e, c)
<1>1. Whole(w) /\ Anchored(w) /\ Peopled(w, J)
  BY DEF Inhabited
<1>2. c \in Places /\ InstOf(c) = InstOf(w.at[e])
  BY <1>1, Typed, PosFacts, InstFacts
<1> HIDE DEF c
<1>3. Whole(v) /\ Relocated(v, w, e, c)
  BY <1>1, <1>2, MoveWhole
<1> SUFFICES Inhabited(v, J)
  BY DEF c
<1> HIDE DEF v
<1>4. Anchored(v)
  BY <1>1, <1>2, <1>3, RelocatedAnchored
<1>5. \/ InstOf(c) = InstOf(w.pos[e])
      \/ InstOf(w.pos[e]) = NoInst /\ InstOf(c) \in Maps
  BY <1>1, <1>2, InstFacts DEF Anchored
<1>6. CASE e \in Players
  <2>1. Peopled(v, (J \ {InstOf(w.pos[e])}) \cup {InstOf(c)})
    BY <1>1, <1>2, <1>3, <1>6, PlayerMovesPeopled
  <2>2. Peopled(v, J)
    BY <2>1, <1>5, InstFacts DEF Peopled
  <2> QED
    BY <1>3, <1>4, <2>2 DEF Inhabited
<1>7. CASE e \notin Players
  <2>1. InstOf(c) = InstOf(w.pos[e]) \/ InstOf(c) \notin Private
    BY <1>5, InstFacts
  <2>2. Peopled(v, J)
    BY <1>1, <1>2, <1>3, <1>7, <2>1, NPCMovesPeopled
  <2> QED
    BY <1>3, <1>4, <2>2 DEF Inhabited
<1> QED
  BY <1>6, <1>7

LEMMA FrameInhabited ==
  ASSUME NEW J \in SUBSET Private,
         NEW w, Inhabited(w, J), NEW v, Whole(v), Frame(v, w)
  PROVE  Inhabited(v, J)
<1>1. Anchored(v)
  BY DEF Inhabited, Frame, Anchored
<1>2. Peopled(v, J)
  BY DEF Inhabited, Frame, Peopled, Inside
<1> QED
  BY <1>1, <1>2 DEF Inhabited

\* Coordinates that change within an instance.
LEMMA ShiftedInhabited ==
  ASSUME NEW J \in SUBSET Private,
         NEW w, Inhabited(w, J), NEW e \in w.here, NEW c, InstOf(c) = InstOf(w.at[e]),
         NEW v, Whole(v), Shifted(v, w, e, c)
  PROVE  Inhabited(v, J)
<1>1. /\ v.here = w.here /\ v.home = w.home /\ v.pos = w.pos
      /\ \A f \in w.here : InstOf(v.at[f]) = InstOf(w.at[f])
  BY Typed DEF Shifted, Inhabited
<1>2. Anchored(v)
  BY <1>1 DEF Inhabited, Anchored
<1>3. Peopled(v, J)
  BY <1>1 DEF Inhabited, Peopled, Inside
<1> QED
  BY <1>2, <1>3 DEF Inhabited

\* An NPC is freed.
LEMMA WithoutInhabited ==
  ASSUME NEW J \in SUBSET Private,
         NEW w, Inhabited(w, J), NEW e \in NPCs, NEW v, Whole(v), Without(v, w, {e})
  PROVE  Inhabited(v, J)
<1>1. e \notin Players
  BY KindsAreDisjoint
<1>2. /\ Anchored(w) => Anchored(v)
      /\ Peopled(w, J) => Peopled(v, J \ {NoInst})
  <2>1. \A p \in {e} \cap w.here \cap Players : InstOf(w.pos[p]) = NoInst
    BY <1>1
  <2> QED
    BY <2>1, WithoutKeeps
<1>3. J \ {NoInst} = J
  BY InstFacts
<1>4. Whole(w) /\ Anchored(w) /\ Peopled(w, J)
  BY DEF Inhabited
<1> QED
  BY <1>2, <1>3, <1>4 DEF Inhabited

LEMMA EnterPlayerInhabited ==
  ASSUME NEW J \in SUBSET Private,
         Inhabited(world, J), NEW p \in Players, NEW x \in Cells, EnterPlayer(p, x)
  PROVE  Inhabited(world', J)
<1>1. Whole(world) /\ Anchored(world) /\ Peopled(world, J)
  BY DEF Inhabited
<1>2. /\ Whole(world')
      /\ world'.here = world.here \cup {p} /\ world'.home = world.home
      /\ world'.at = [world.at EXCEPT ![p] = <<x, Overworld>>]
      /\ world'.pos = [world.pos EXCEPT ![p] = NoChunk]
  BY <1>1, EnterPlayerWhole
<1>3. p \in Entities /\ p \notin Mobs /\ p \notin world.here /\ Overworld \in Maps
  BY KindsAreDisjoint, InstancesAreKeyed DEF EnterPlayer, Entities, NPCs
<1>4. /\ world'.pos[p] = NoChunk /\ world'.at[p] = <<x, Overworld>>
      /\ \A e \in world.here : world'.at[e] = world.at[e] /\ world'.pos[e] = world.pos[e]
  BY <1>1, <1>2, <1>3, Typed
<1>5. InstOf(<<x, Overworld>>) = Overworld
  BY <1>3, InstFacts
<1>6. Anchored(world')
  BY <1>1, <1>2, <1>3, <1>4, <1>5 DEF Anchored
<1>7. \A i \in Private : Inside(world', i) = Inside(world, i)
  BY <1>2, <1>4, InstFacts DEF Inside
<1> QED
  BY <1>1, <1>2, <1>6, <1>7 DEF Inhabited, Peopled

LEMMA RemovePlayerInhabited ==
  ASSUME NEW J \in SUBSET Private,
         Inhabited(world, J), NEW p \in Players, RemovePlayer(p)
  PROVE  Inhabited(world', J)
<1>1. Whole(world) /\ Anchored(world) /\ Peopled(world, J) /\ p \in world.here
  BY DEF Inhabited, RemovePlayer
<1>2. PICK v : /\ Whole(v) /\ Without(v, world, {p})
               /\ world' = DestroyInstanceIfEmpty(v, InstOf(world.at[p]))
  BY <1>1, RemovePlayerWhole
<1>3. Anchored(v) /\ Peopled(v, J \ {InstOf(world.pos[p])})
  BY <1>1, <1>2, WithoutKeeps
<1>4. InstOf(world.pos[p]) = InstOf(world.at[p]) \/ InstOf(world.pos[p]) = NoInst
  BY <1>1, InstFacts DEF Anchored
<1>5. Peopled(v, J \ {InstOf(world.at[p])})
  BY <1>3, <1>4, InstFacts DEF Peopled
<1> QED
  BY <1>2, <1>3, <1>5, CleanInhabited

LEMMA SummonNPCInhabited ==
  ASSUME NEW J \in SUBSET Private,
         Inhabited(world, J), NEW e \in Summonable, NEW p \in Players, NEW r \in BOOLEAN,
         SummonNPC(e, p, r)
  PROVE  Inhabited(world', J)
<1> DEFINE c == world.at[p]
<1>1. Whole(world) /\ Anchored(world) /\ Peopled(world, J)
  BY DEF Inhabited
<1>2. /\ Whole(world') /\ world'.here = world.here \cup {e}
      /\ world'.home = [world.home EXCEPT ![e] = c]
      /\ world'.at = [world.at EXCEPT ![e] = c]
      /\ world'.pos = [world.pos EXCEPT ![e] = c]
  BY <1>1, SummonNPCWhole
<1>3. /\ p \in world.here /\ e \in Entities /\ e \notin world.here /\ e \notin Players
      /\ p # e
  BY KindsAreDisjoint DEF SummonNPC, Unused, Entities
<1>4. c \in Places /\ c # NoChunk
  BY <1>1, <1>3, Typed, PosFacts
<1>5. InstOf(c) \in Private => p \in Inside(world, InstOf(c))
  BY <1>1, <1>3, InstFacts DEF Anchored, Inside
<1> HIDE DEF c
<1>6. /\ world'.pos[e] = c /\ world'.at[e] = c /\ world'.home[e] = c
      /\ \A f \in world.here : /\ world'.at[f] = world.at[f] /\ world'.pos[f] = world.pos[f]
                               /\ world'.home[f] = world.home[f]
  BY <1>1, <1>2, <1>3, Typed
<1>7. Anchored(world')
  BY <1>1, <1>2, <1>4, <1>6 DEF Anchored
<1>8. ASSUME NEW i \in J, Inside(world', i) # {}
      PROVE  Inside(world', i) \cap Players # {}
  <2>1. Inside(world, i) \cap Players \subseteq Inside(world', i) \cap Players
    BY <1>2, <1>6 DEF Inside
  <2>2. CASE i = InstOf(c)
    BY <1>5, <2>1, <2>2
  <2>3. CASE i # InstOf(c)
    <3>1. Inside(world, i) # {}
      BY <1>2, <1>6, <1>8, <2>3 DEF Inside
    <3> QED
      BY <1>1, <2>1, <3>1 DEF Peopled
  <2> QED
    BY <2>2, <2>3
<1> QED
  BY <1>2, <1>7, <1>8 DEF Inhabited, Peopled

\* All handlers but one keep it for any instances.
LEMMA NextInhabited ==
  ASSUME NEW J \in SUBSET Private, Inhabited(world, J), PlayerNext \/ NPCNext
  PROVE  Inhabited(world', J)
<1>0. /\ Whole(world) /\ Anchored(world) /\ Peopled(world, J)
      /\ \A m \in Mobs : m \in NPCs
  BY DEF Inhabited, NPCs
<1>1. ASSUME NEW p \in Players, NEW x \in Cells, EnterPlayer(p, x) PROVE Inhabited(world', J)
  BY <1>1, EnterPlayerInhabited
<1>2. ASSUME NEW p \in Players, NEW x \in Cells, MovePlayer(p, x) PROVE Inhabited(world', J)
  BY <1>2, StepInhabited DEF MovePlayer
<1>3. ASSUME NEW p \in Players, NEW c \in Places, WarpPlayer(p, c) PROVE Inhabited(world', J)
  <2>1. p \in world.here \cap Players /\ world' = SendPlayerTo(world, p, c)
    BY <1>3 DEF WarpPlayer
  <2>2. Peopled(world, J \ {InstOf(c)})
    BY <1>0 DEF Peopled
  <2> QED
    BY <1>0, <2>1, <2>2, SendInhabited
<1>4. ASSUME NEW party \in Parties(world), NEW i \in Private, NEW x \in Cells,
             NEW copy \in Copyings(world, i), WarpIntoInstance(party, i, x, copy)
      PROVE  Inhabited(world', J)
  BY <1>4, WarpIntoInstanceInhabited
<1>5. ASSUME NEW p \in Players, RemovePlayer(p) PROVE Inhabited(world', J)
  BY <1>5, RemovePlayerInhabited
<1>6. ASSUME NEW e \in Mobs \cup Props, NEW x \in Cells, MoveNPC(e, x) PROVE Inhabited(world', J)
  BY <1>6, PositionsAgree, StepInhabited DEF MoveNPC
<1>7. ASSUME NEW e \in Summonable, NEW p \in Players, NEW r \in BOOLEAN, SummonNPC(e, p, r)
      PROVE  Inhabited(world', J)
  BY <1>7, SummonNPCInhabited
<1>8. ASSUME NEW e \in NPCs, UnsummonNPC(e) PROVE Inhabited(world', J)
  <2>1. Whole(world') /\ (world' = world \/ Without(world', world, {e}))
    BY <1>0, <1>8, DestroyNPCWhole DEF UnsummonNPC
  <2> QED
    BY <2>1, WithoutInhabited
<1>9. ASSUME NEW m \in Mobs, KillMob(m) PROVE Inhabited(world', J)
  BY <1>0, <1>9, KillMobWhole, FrameInhabited
<1>10. ASSUME NEW m \in Mobs, DespawnMob(m) PROVE Inhabited(world', J)
  <2>1. /\ Whole(world')
        /\ \/ Frame(world', world)
           \/ Without(world', world, {m})
           \/ Shifted(world', world, m, world.home[m])
    BY <1>0, <1>10, DespawnMobWhole
  <2>2. m \in world.here /\ InstOf(world.home[m]) = InstOf(world.at[m])
    BY <1>0, <1>10 DEF DespawnMob, Anchored
  <2> QED
    BY <1>0, <2>1, <2>2, FrameInhabited, WithoutInhabited, ShiftedInhabited
<1>11. ASSUME NEW m \in Mobs, NEW l \in Mobs, RespawnMob(m, l) PROVE Inhabited(world', J)
  <2>1. m \in world.here /\ InstOf(world.at[l]) = InstOf(world.at[m])
    BY <1>11 DEF RespawnMob
  <2> QED
    BY <1>0, <1>11, <2>1, RespawnMobWhole, ShiftedInhabited
<1>12. ASSUME NEW g \in Eggs, PickUpEgg(g) PROVE Inhabited(world', J)
  BY <1>0, <1>12, PickUpEggWhole, FrameInhabited
<1>13. ASSUME NEW g \in Eggs, RegrowEgg(g) PROVE Inhabited(world', J)
  BY <1>0, <1>13, RegrowEggWhole, FrameInhabited
<1>14. ASSUME NEW m \in Mobs, NEW x \in Cells, RetreatMob(m, x) PROVE Inhabited(world', J)
  <2>1. m \in world.here /\ InstOf(<<x, InstOf(world.at[m])>>) = InstOf(world.at[m])
    BY <1>0, <1>14, Typed, PosFacts, InstFacts DEF RetreatMob
  <2> QED
    BY <1>0, <1>14, <2>1, RetreatMobWhole, ShiftedInhabited
<1> QED
  BY <1>1, <1>2, <1>3, <1>4, <1>5, <1>6, <1>7, <1>8, <1>9, <1>10, <1>11, <1>12, <1>13, <1>14
     DEF PlayerNext, NPCNext

\* The other one keeps it for the instances it does not leave.
LEMMA TransportWarpInhabited ==
  ASSUME NEW J \in SUBSET Private, Inhabited(world, J),
         NEW p \in Players, NEW x \in Cells, TransportWarp(p, x)
  PROVE  /\ Inhabited(world', J \ {InstOf(world.pos[p])})
         /\ InstOf(world'.pos[p]) = Overworld
<1> DEFINE c == <<x, Overworld>>
<1>1. /\ Whole(world) /\ Anchored(world) /\ Peopled(world, J)
      /\ p \in world.here \cap Players /\ world' = WarpPosition(world, p, c)
  BY DEF Inhabited, TransportWarp
<1>2. c \in Places /\ InstOf(c) = Overworld /\ Overworld \notin Private /\ p \notin Mobs
  BY PosFacts, InstFacts, InstancesAreKeyed, KindsAreDisjoint DEF NPCs
<1> HIDE DEF c
<1>3. Whole(world') /\ Relocated(world', world, p, c)
  BY <1>1, <1>2, WarpEffect
<1>4. Anchored(world')
  BY <1>1, <1>2, <1>3, RelocatedAnchored
<1>5. Peopled(world', (J \ {InstOf(world.pos[p])}) \cup {InstOf(c)})
  BY <1>1, <1>2, <1>3, PlayerMovesPeopled
<1>6. world'.pos[p] = c
  BY <1>1, <1>3, Typed DEF Relocated
<1> QED
  BY <1>2, <1>3, <1>4, <1>5, <1>6 DEF Inhabited, Peopled

LEMMA NextAnchored ==
  ASSUME Whole(world), Anchored(world), [Next]_world
  PROVE  Whole(world') /\ Anchored(world')
<1>1. Inhabited(world, {})
  BY DEF Inhabited, Peopled
<1>2. CASE PlayerNext \/ NPCNext
  BY <1>1, <1>2, NextInhabited DEF Inhabited
<1>3. CASE TransportNext
  BY <1>1, <1>3, TransportWarpInhabited DEF TransportNext, Inhabited
<1>4. CASE UNCHANGED world
  BY <1>4
<1> QED
  BY <1>2, <1>3, <1>4 DEF Next

\* An invariant of instances: coordinates stay in the instance of the chunk,
\* whichever way an entity goes, and mobs in the instance of their home.
THEOREM AnchoredIsInvariant == Spec => [](Whole(world) /\ Anchored(world))
<1>1. Whole(world) /\ Anchored(world) /\ [Next]_world => (Whole(world) /\ Anchored(world))'
  BY NextAnchored
<1> QED
  BY <1>1, InitAnchored, PTL DEF Spec

\* A lair is orphaned when it is not inhabited.
Deserted(w, i) ==
  /\ ChunksInMap(w, i) # {}
  /\ \A p \in Players : ~(p \in w.here /\ w.pos[p] # NoChunk /\ InstOf(w.pos[p]) = i)

LEMMA DesertedAre ==
  ASSUME NEW w, Whole(w), Anchored(w), NEW i \in Private
  PROVE  Inhabited(w, {i}) <=> ~Deserted(w, i)
<1>1. /\ \A e \in w.here : w.pos[e] \in Pos
      /\ \A c \in Places : w.ents[c] = {e \in w.here : w.pos[e] = c}
      /\ w.live = {c \in Pos : w.ents[c] # {}}
  BY Typed DEF Whole, Sound, Listed, Populated
<1>2. \A c \in Pos : InstOf(c) = i => c \in Places
  BY InstFacts DEF Pos
<1>3. ChunksInMap(w, i) # {} <=> Inside(w, i) # {}
  <2>1. ASSUME NEW c \in w.live, InstOf(c) = i PROVE Inside(w, i) # {}
    BY <1>1, <1>2, <2>1 DEF Inside
  <2>2. ASSUME NEW e \in Inside(w, i) PROVE w.pos[e] \in ChunksInMap(w, i)
    BY <1>1, <1>2, <2>2 DEF Inside, ChunksInMap
  <2> QED
    BY <2>1, <2>2 DEF ChunksInMap
<1>4. ASSUME NEW p \in Players
      PROVE  p \in Inside(w, i) <=> (p \in w.here /\ w.pos[p] # NoChunk /\ InstOf(w.pos[p]) = i)
  BY InstFacts DEF Inside
<1> QED
  BY <1>3, <1>4 DEF Inhabited, Peopled, Deserted

LEMMA OrphanedAre == \A i \in Private : Orphaned(i) <=> Deserted(world, i)
BY DEF Orphaned, Deserted, Placed

LEMMA OrphanedWillBe == \A i \in Private : Orphaned(i)' <=> Deserted(world', i)
BY DEF Orphaned, Deserted, Placed, ChunksInMap

\* However players are warped, leave, are thrown out or follow their group,
\* the last one of a lair takes it along (destroyInstanceIfEmpty() and its
\* callers); transportWarpHandler() alone leaves lairs behind, and no other
\* lair than the one its rider was in.
THEOREM NoLairIsEverAbandoned == Spec => NoLairIsAbandoned
<1>1. Whole(world) /\ Anchored(world) /\ [Next]_world =>
        [\A i \in Private : Orphaned(i)' /\ ~Orphaned(i) =>
           /\ ~(PlayerNext \/ NPCNext)
           /\ \E p \in Players : InstOf(world.pos[p]) = i /\ InstOf(world'.pos[p]) = Overworld]_world
  <2> SUFFICES ASSUME Whole(world), Anchored(world), [Next]_world,
                      NEW i \in Private, Orphaned(i)', ~Orphaned(i)
               PROVE  /\ ~(PlayerNext \/ NPCNext)
                      /\ \E p \in Players : /\ InstOf(world.pos[p]) = i
                                          /\ InstOf(world'.pos[p]) = Overworld
    OBVIOUS
  <2>1. Inhabited(world, {i})
    BY OrphanedAre, DesertedAre
  <2>2. ~Inhabited(world', {i})
    BY NextAnchored, OrphanedWillBe, DesertedAre
  <2>3. ~(PlayerNext \/ NPCNext)
    BY <2>1, <2>2, NextInhabited
  <2>4. CASE TransportNext
    <3>1. PICK p \in Players, x \in Cells : TransportWarp(p, x)
      BY <2>4 DEF TransportNext
    <3>2. /\ Inhabited(world', {i} \ {InstOf(world.pos[p])})
          /\ InstOf(world'.pos[p]) = Overworld
      BY <2>1, <3>1, TransportWarpInhabited
    <3>3. InstOf(world.pos[p]) = i
      BY <2>2, <3>2, SMT
    <3> QED
      BY <2>3, <3>2, <3>3
  <2>5. CASE UNCHANGED world
    BY <2>1, <2>2, <2>5
  <2> QED
    BY <2>3, <2>4, <2>5 DEF Next
<1> QED
  BY <1>1, AnchoredIsInvariant, PTL DEF Spec, NoLairIsAbandoned

-----------------------------------------------------------------------------
(* What the clean-ups take away.                                           *)

Lost(v, w) == NPCs \cap (w.here \ v.here)

\* From w to v instances lost NPCs only if it is not i and no player is there.
Spared(v, w, i) ==
  /\ \A e \in NPCs \cap w.here \cap v.here : v.pos[e] = w.pos[e]
  /\ \A e \in Lost(v, w) :
       /\ InstOf(w.pos[e]) # i
       /\ \A p \in Players : InstOf(v.pos[p]) # InstOf(w.pos[e])

LEMMA CleanSpared ==
  ASSUME NEW w, NEW u, Whole(u), NEW i, Spared(u, w, i), NEW j,
         i \in Private => Inside(u, i) \cap Players # {}
  PROVE  LET v == DestroyInstanceIfEmpty(u, j)
         IN Spared(v, w, i) /\ \A p \in Players : v.pos[p] = u.pos[p]
<1> DEFINE v == DestroyInstanceIfEmpty(u, j)
<1>1. /\ Whole(v)
      /\ \/ v = u
         \/ /\ j \in Private /\ Inside(u, j) \cap Players = {}
            /\ Without(v, u, Inside(u, j))
  BY DestroyInstanceEffect
<1> SUFFICES Spared(v, w, i) /\ \A p \in Players : v.pos[p] = u.pos[p]
  OBVIOUS
<1> HIDE DEF v
<1>2. CASE v = u
  BY <1>2
<1>3. CASE /\ j \in Private /\ Inside(u, j) \cap Players = {}
           /\ Without(v, u, Inside(u, j))
  <2>1. /\ v.here = u.here \ Inside(u, j)
        /\ \A e \in v.here : v.pos[e] = u.pos[e]
    BY <1>3 DEF Without
  <2>2. /\ \A e \in Entities \ v.here : v.pos[e] = NoChunk
        /\ \A e \in Entities \ u.here : u.pos[e] = NoChunk
    BY <1>1 DEF Whole, Sound, Rooted
  <2>3. \A p \in Players : v.pos[p] = u.pos[p] /\ InstOf(u.pos[p]) # j
    <3> TAKE p \in Players
    <3>1. p \in Entities
      BY DEF Entities
    <3>2. CASE p \in u.here
      BY <1>3, <2>1, <3>2 DEF Inside
    <3>3. CASE p \notin u.here
      BY <1>3, <2>1, <2>2, <3>1, <3>3, InstFacts
    <3> QED
      BY <3>2, <3>3
  <2>4. i # j
    BY <1>3
  <2>5. ASSUME NEW e \in NPCs \cap w.here \cap v.here PROVE v.pos[e] = w.pos[e]
    BY <2>1, <2>5 DEF Spared
  <2>6. ASSUME NEW e \in Lost(v, w)
        PROVE  /\ InstOf(w.pos[e]) # i
               /\ \A p \in Players : InstOf(v.pos[p]) # InstOf(w.pos[e])
    <3>1. CASE e \notin u.here
      BY <2>3, <2>6, <3>1 DEF Spared, Lost
    <3>2. CASE e \in u.here
      <4>1. InstOf(u.pos[e]) = j /\ u.pos[e] = w.pos[e]
        BY <2>1, <2>6, <3>2 DEF Inside, Lost, Spared
      <4> QED
        BY <2>3, <2>4, <4>1
    <3> QED
      BY <3>1, <3>2
  <2> QED
    BY <2>3, <2>5, <2>6 DEF Spared
<1> QED
  BY <1>1, <1>2, <1>3

LEMMA SendSpared ==
  ASSUME NEW w, NEW u, Whole(u), NEW c \in Places, Spared(u, w, InstOf(c)),
         NEW p \in u.here \cap Players
  PROVE  Spared(SendPlayerTo(u, p, c), w, InstOf(c))
<1> DEFINE v == WarpPosition(u, p, c)
<1>1. Whole(v) /\ Relocated(v, u, p, c)
  BY WarpEffect
<1>2. SendPlayerTo(u, p, c) = DestroyInstanceIfEmpty(v, InstOf(u.at[p]))
  BY DEF SendPlayerTo
<1> HIDE DEF v
<1>3. /\ v.here = u.here /\ p \in Entities /\ p \notin NPCs /\ v.pos[p] = c
      /\ \A e \in Entities : e # p => v.pos[e] = u.pos[e]
  BY <1>1, Typed, KindsAreDisjoint DEF Relocated
<1>4. \A e \in NPCs : v.pos[e] = u.pos[e]
  BY <1>3 DEF Entities
<1>5. \A q \in Players : v.pos[q] = u.pos[q] \/ v.pos[q] = c
  BY <1>3 DEF Entities
<1>6. Spared(v, w, InstOf(c))
  BY <1>3, <1>4, <1>5 DEF Spared, Lost
<1>7. Inside(v, InstOf(c)) \cap Players # {}
  BY <1>3 DEF Inside
<1> QED
  BY <1>1, <1>2, <1>6, <1>7, CleanSpared

LEMMA MemberSpared ==
  ASSUME NEW w, NEW u, Whole(u), NEW c \in Places, Spared(u, w, InstOf(c)),
         NEW party, NEW n, \A k \in DOMAIN party : party[k] \in u.here \cap Players
  PROVE  Spared(SendMember(u, party, n, c), w, InstOf(c))
<1>1. CASE n \in DOMAIN party
  BY <1>1, SendSpared DEF SendMember
<1>2. CASE n \notin DOMAIN party
  BY <1>2 DEF SendMember
<1> QED
  BY <1>1, <1>2

LEMMA WarpIntoInstanceSpared ==
  ASSUME Whole(world), NEW party \in Parties(world), NEW i \in Private,
         NEW x \in Cells, NEW copy \in Copyings(world, i),
         WarpIntoInstance(party, i, x, copy)
  PROVE  Spared(world', world, i)
<1> DEFINE c == <<x, i>>
           w0 == CreateInstance(world, i, copy)
           w1 == SendMember(w0, party, 1, c)
           w2 == SendMember(w1, party, 2, c)
           w3 == SendMember(w2, party, 3, c)
           w4 == SendMember(w3, party, 4, c)
           In(w) == \A k \in DOMAIN party : party[k] \in w.here \cap Players
<1>1. c \in Places /\ InstOf(c) = i
  BY PosFacts, InstFacts DEF Insts
<1>2. In(world)
  BY DEF Parties
<1>3. Whole(w0) /\ w0.here \cap Players = world.here \cap Players /\ Joined(w0, world, i)
  BY CreateInstanceEffect
<1>4. world' = w4
  BY DEF WarpIntoInstance
<1> HIDE DEF c, w0
<1>5. Whole(w0) /\ In(w0) /\ Spared(w0, world, i)
  BY <1>2, <1>3 DEF Spared, Lost, Joined, Without
<1>6. Whole(w1) /\ In(w1) /\ Spared(w1, world, i)
  BY <1>1, <1>5, MemberEffect, MemberSpared
<1> HIDE DEF w1
<1>7. Whole(w2) /\ In(w2) /\ Spared(w2, world, i)
  BY <1>1, <1>6, MemberEffect, MemberSpared
<1> HIDE DEF w2
<1>8. Whole(w3) /\ In(w3) /\ Spared(w3, world, i)
  BY <1>1, <1>7, MemberEffect, MemberSpared
<1> HIDE DEF w3
<1>9. Spared(w4, world, i)
  BY <1>1, <1>8, MemberSpared
<1> QED
  BY <1>4, <1>9

\* No step takes two NPCs away from a lair in which somebody stays: either it
\* spares every such lair, or it frees one NPC.
LEMMA NextSpares ==
  ASSUME Whole(world), [Next]_world
  PROVE  (\E i : Spared(world', world, i)) \/ (\E e : Lost(world', world) \subseteq {e})
<1>0. \A v : Frame(v, world) => Lost(v, world) = {}
  BY DEF Frame, Lost
<1>1. \A v, e, c : Relocated(v, world, e, c) \/ Shifted(v, world, e, c) => Lost(v, world) = {}
  BY DEF Relocated, Shifted, Lost
<1>2. \A v, e : Without(v, world, {e}) => Lost(v, world) \subseteq {e}
  BY DEF Without, Lost
<1>3. ASSUME NEW p \in Players, NEW c \in Places, WarpPlayer(p, c)
      PROVE  Spared(world', world, InstOf(c))
  <2>1. Spared(world, world, InstOf(c))
    BY DEF Spared, Lost
  <2>2. p \in world.here \cap Players /\ world' = SendPlayerTo(world, p, c)
    BY <1>3 DEF WarpPlayer
  <2> QED
    BY <2>1, <2>2, SendSpared
<1>4. ASSUME NEW party \in Parties(world), NEW i \in Private, NEW x \in Cells,
             NEW copy \in Copyings(world, i), WarpIntoInstance(party, i, x, copy)
      PROVE  Spared(world', world, i)
  BY <1>4, WarpIntoInstanceSpared
<1>5. ASSUME NEW p \in Players, RemovePlayer(p) PROVE Spared(world', world, NoInst)
  <2>1. PICK v : /\ Whole(v) /\ Without(v, world, {p})
                 /\ world' = DestroyInstanceIfEmpty(v, InstOf(world.at[p]))
    BY <1>5, RemovePlayerWhole
  <2>2. Spared(v, world, NoInst)
    BY <2>1, KindsAreDisjoint DEF Spared, Lost, Without
  <2> QED
    BY <2>1, <2>2, CleanSpared, InstFacts
<1>6. ASSUME NEW p \in Players, NEW x \in Cells, EnterPlayer(p, x)
      PROVE  Lost(world', world) = {}
  BY <1>6, EnterPlayerWhole DEF Lost
<1>7. ASSUME NEW e \in world.here, NEW x \in Cells,
             world' = UpdatePlayerPosition(world, e, <<x, InstOf(world.at[e])>>)
      PROVE  Lost(world', world) = {}
  <2>1. <<x, InstOf(world.at[e])>> \in Places
    BY Typed, PosFacts
  <2> QED
    BY <1>1, <1>7, <2>1, MoveWhole
<1>8. ASSUME NEW e \in Summonable, NEW p \in Players, NEW r \in BOOLEAN, SummonNPC(e, p, r)
      PROVE  Lost(world', world) = {}
  BY <1>8, SummonNPCWhole DEF Lost
<1>9. ASSUME NEW e \in NPCs, UnsummonNPC(e) PROVE Lost(world', world) \subseteq {e}
  <2>1. world' = world \/ Without(world', world, {e})
    BY <1>9, DestroyNPCWhole DEF UnsummonNPC
  <2> QED
    BY <1>2, <2>1 DEF Lost
<1>10. ASSUME NEW m \in Mobs, DespawnMob(m) PROVE Lost(world', world) \subseteq {m}
  <2>1. \/ Frame(world', world)
        \/ Without(world', world, {m})
        \/ Shifted(world', world, m, world.home[m])
    BY <1>10, DespawnMobWhole
  <2> QED
    BY <2>1 DEF Frame, Shifted, Without, Lost
<1>11. ASSUME NEW m \in Mobs, KillMob(m) PROVE Lost(world', world) = {}
  BY <1>0, <1>11, KillMobWhole
<1>12. ASSUME NEW m \in Mobs, NEW l \in Mobs, RespawnMob(m, l) PROVE Lost(world', world) = {}
  BY <1>1, <1>12, RespawnMobWhole
<1>13. ASSUME NEW m \in Mobs, NEW x \in Cells, RetreatMob(m, x)
       PROVE  Lost(world', world) = {}
  BY <1>1, <1>13, RetreatMobWhole
<1>14. ASSUME NEW g \in Eggs, PickUpEgg(g) \/ RegrowEgg(g) PROVE Lost(world', world) = {}
  BY <1>0, <1>14, PickUpEggWhole, RegrowEggWhole
<1>15. ASSUME NEW p \in Players, NEW x \in Cells, MovePlayer(p, x)
       PROVE  Lost(world', world) = {}
  BY <1>7, <1>15 DEF MovePlayer
<1>16. ASSUME NEW e \in Mobs \cup Props, NEW x \in Cells, MoveNPC(e, x)
       PROVE  Lost(world', world) = {}
  BY <1>7, <1>16, PositionsAgree DEF MoveNPC
<1>17. ASSUME NEW p \in Players, NEW x \in Cells, TransportWarp(p, x)
       PROVE  Lost(world', world) = {}
  BY <1>1, <1>17, OverworldPlaces, WarpEffect DEF TransportWarp
<1>18. CASE UNCHANGED world
  BY <1>18 DEF Lost
<1> QED
  BY <1>3, <1>4, <1>5, <1>6, <1>8, <1>9, <1>10, <1>11, <1>12, <1>13, <1>14, <1>15, <1>16,
     <1>17, <1>18 DEF Next, PlayerNext, NPCNext, TransportNext

\* The clean-up that follows one player's departure never takes a lair from
\* those who stay in it (destroyInstanceIfEmpty(), after sendPlayerTo() and
\* removePlayer()).
THEOREM LairsAreAlwaysPreserved == Spec => LairsArePreserved
<1>1. Whole(world) /\ [Next]_world =>
        [\A i \in Private :
           (\E p \in Players : InstOf(world.pos[p]) = i /\ InstOf(world'.pos[p]) = i)
             => Cardinality({e \in NPCs \cap (world.here \ world'.here) :
                               InstOf(world.pos[e]) = i}) <= 1]_world
  <2> SUFFICES ASSUME Whole(world), [Next]_world, NEW i \in Private, NEW p \in Players,
                      InstOf(world'.pos[p]) = i
               PROVE  Cardinality({e \in Lost(world', world) : InstOf(world.pos[e]) = i}) <= 1
    BY DEF Lost
  <2> DEFINE S == {e \in Lost(world', world) : InstOf(world.pos[e]) = i}
  <2>1. \E e : S \subseteq {e}
    <3>1. CASE \E j : Spared(world', world, j)
      BY <3>1 DEF Spared
    <3>2. CASE \E e : Lost(world', world) \subseteq {e}
      BY <3>2
    <3> QED
      BY <3>1, <3>2, NextSpares
  <2> HIDE DEF S
  <2>2. PICK e : S \subseteq {e}
    BY <2>1
  <2>3. IsFiniteSet({e}) /\ Cardinality({e}) = 1
    BY FS_Singleton
  <2>4. Cardinality(S) <= 1
    BY <2>2, <2>3, FS_Subset
  <2> QED
    BY <2>4 DEF S
<1> QED
  BY <1>1, WholeIsInvariant, PTL DEF Spec, LairsArePreserved

-----------------------------------------------------------------------------
(* What is cached, counted and drawn.                                      *)

\* The caches of views are right, but for the entities S on their way.
ViewsFresh(w, S) ==
  \A e \in Entities \ S :
    w.views[e] = IF w.pos[e] = NoChunk THEN {} ELSE Viewable(w, w.pos[e])

\* The counters of mobs are right, freed ones included.
Watchers(w, m) == {p \in Players : w.pos[p] # NoChunk /\ w.pos[p] \in Near(w.pos[m])}
SeenFresh(w) == \A m \in Mobs : w.seen[m] = Cardinality(Watchers(w, m))

\* The clients are right, but for corpses of mobs.
Sees(w, p, e) ==
  /\ w.pos[p] # NoChunk /\ w.pos[e] # NoChunk /\ e # p /\ e \in w.up
  /\ w.pos[e] \in Near(w.pos[p])
ToldFresh(w) ==
  /\ \A p \in Players, e \in Entities : Sees(w, p, e) => e \in w.told[p]
  /\ \A p \in Players, e \in Entities \ Mobs : e \in w.told[p] => Sees(w, p, e)

Caches(w, S) == ViewsFresh(w, S) /\ SeenFresh(w) /\ ToldFresh(w)
Fresh(w) == Whole(w) /\ Caches(w, {})

\* All but e are listed where they are.
Others(w, e) ==
  \A f \in Entities \ {e}, c \in Pos :
    (f \in w.ents[c] <=> w.pos[f] = c /\ c # NoChunk) /\ (f \in w.ents[c] => c \in w.live)

LEMMA NearFacts ==
  /\ \A c, d \in Pos : c \in Near(d) <=> d \in Near(c)
  /\ \A c \in Pos : c \in Near(c)
  /\ \A c, d \in Pos : c \in Near(d) => InstOf(c) = InstOf(d)
  /\ \A c \in Pos : c \in Near(NoChunk) <=> c = NoChunk
<1>1. \A c \in Places : c # NoChunk /\ c[1] \in Cells /\ c = <<c[1], c[2]>> /\ c[2] \in Insts
  BY PosFacts DEF Places
<1>2. \A c \in Places : Near(c) = {<<x, c[2]>> : x \in Adjacent[c[1]]}
  BY <1>1 DEF Near
<1>3. \A x \in Cells : x \in Adjacent[x] /\ Adjacent[x] \subseteq Cells
  BY AdjacencyIsSymmetric
<1>4. \A c, d \in Places : c \in Near(d) <=> c[2] = d[2] /\ c[1] \in Adjacent[d[1]]
  <2> TAKE c, d \in Places
  <2>1. c = <<c[1], c[2]>>
    BY <1>1
  <2>2. c \in Near(d) <=> \E x \in Adjacent[d[1]] : c = <<x, d[2]>>
    BY <1>2
  <2> QED
    BY <2>1, <2>2
<1>5. \A c, d \in Places : c \in Near(d) <=> d \in Near(c)
  BY <1>1, <1>4, AdjacencyIsSymmetric
<1>6. \A c \in Places : c \in Near(c)
  BY <1>1, <1>3, <1>4
<1>7. \A c \in Places : NoChunk \notin Near(c)
  <2> TAKE c \in Places
  <2>1. \A x \in Adjacent[c[1]] : <<x, c[2]>> \in Places
    BY <1>1, <1>3 DEF Places
  <2> QED
    BY <1>2, <2>1, PosFacts
<1>8. Near(NoChunk) = {NoChunk}
  BY DEF Near
<1>9. \A c, d \in Places : c \in Near(d) => InstOf(c) = InstOf(d)
  BY <1>1, <1>4 DEF InstOf
<1> QED
  BY <1>1, <1>5, <1>6, <1>7, <1>8, <1>9 DEF Pos

LEMMA OthersAreListed ==
  ASSUME NEW w, w \in World, Rooted(w), Listed(w), Populated(w), NEW e, Passing(w, e)
  PROVE  Others(w, e)
<1> SUFFICES ASSUME NEW f \in Entities \ {e}, NEW c \in Pos
             PROVE  /\ f \in w.ents[c] <=> w.pos[f] = c /\ c # NoChunk
                    /\ f \in w.ents[c] => c \in w.live
  BY DEF Others
<1>1. f \in w.ents[c] => c \in w.live
  BY DEF Populated
<1>2. CASE c = NoChunk
  BY <1>1, <1>2 DEF Passing
<1>3. CASE c # NoChunk
  <2>1. w.ents[c] = {g \in w.here : w.pos[g] = c}
    BY <1>3 DEF Listed, Pos
  <2>2. f \notin w.here => w.pos[f] = NoChunk
    BY DEF Rooted
  <2> QED
    BY <1>1, <1>3, <2>1, <2>2
<1> QED
  BY <1>2, <1>3

LEMMA WholeOthers ==
  ASSUME NEW w, Whole(w), NEW e
  PROVE  Others(w, e)
BY OthersAreListed DEF Whole, Sound, Passing

\* Whom the chunks D list, besides e.
LEMMA EntitiesAre ==
  ASSUME NEW w, w \in World, NEW e, Others(w, e), NEW D \in SUBSET Pos,
         NEW f \in Entities \ {e}
  PROVE  f \in EntitiesIn(w, D) <=> w.pos[f] # NoChunk /\ w.pos[f] \in D
<1>1. w.pos[f] \in Pos
  BY Fields
<1> QED
  BY <1>1 DEF EntitiesIn, Others

LEMMA ViewableAre ==
  ASSUME NEW w, w \in World, NEW e, Others(w, e), NEW c \in Pos, NEW f \in Entities \ {e}
  PROVE  /\ f \in EntitiesIn(w, Viewable(w, c)) <=> w.pos[f] # NoChunk /\ w.pos[f] \in Near(c)
         /\ w.pos[f] # NoChunk => w.pos[f] \in w.live
<1>1. Viewable(w, c) \in SUBSET Pos /\ w.pos[f] \in Pos
  BY ViewableFinite, Fields
<1>2. w.pos[f] # NoChunk => w.pos[f] \in w.live
  BY <1>1 DEF Others
<1>3. f \in EntitiesIn(w, Viewable(w, c)) <=> w.pos[f] # NoChunk /\ w.pos[f] \in Viewable(w, c)
  BY <1>1, EntitiesAre
<1> QED
  BY <1>2, <1>3 DEF Viewable

-----------------------------------------------------------------------------
(* The caches of views, through the chunks that come and go.               *)

\* What the chunk operations leave alone besides.
Untold(v, w) == v.up = w.up /\ v.seen = w.seen /\ v.told = w.told

LEMMA NewChunkViews ==
  ASSUME NEW w \in World, NEW c \in Pos, c \notin w.live, NEW e,
         Others(w, e), ViewsFresh(w, {e})
  PROVE  LET v == NewChunk(w, c) IN ViewsFresh(v, {e}) /\ Untold(v, w)
<1> DEFINE v == NewChunk(w, c)
           V == [f \in Entities |-> IF f \in EntitiesIn(w, Viewable(w, c))
                                   THEN w.views[f] \cup {c} ELSE w.views[f]]
<1>1. v = [w EXCEPT !.live = @ \cup {c}, !.ents[c] = {}, !.nplayers[c] = 0, !.views = V]
  BY DEF NewChunk
<1>2. v.views = V /\ Untold(v, w) /\ v.live = w.live \cup {c} /\ v.pos = w.pos
  <2> HIDE DEF V, v
  <2> QED BY <1>1 DEF World, Untold
<1>3. ASSUME NEW f \in Entities \ {e}
      PROVE  v.views[f] = IF v.pos[f] = NoChunk THEN {} ELSE Viewable(v, v.pos[f])
  <2> DEFINE d == w.pos[f]
  <2>1. d \in Pos /\ (d \in Near(c) <=> c \in Near(d))
    BY Fields, NearFacts
  <2>2. f \in EntitiesIn(w, Viewable(w, c)) <=> d # NoChunk /\ d \in Near(c)
    BY ViewableAre
  <2>3. w.views[f] = IF d = NoChunk THEN {} ELSE Near(d) \cap w.live
    BY DEF ViewsFresh, Viewable
  <2>4. v.views[f] = IF d # NoChunk /\ d \in Near(c) THEN w.views[f] \cup {c} ELSE w.views[f]
    BY <1>2, <2>2
  <2>5. Viewable(v, d) = Near(d) \cap (w.live \cup {c}) /\ v.pos[f] = d
    BY <1>2 DEF Viewable
  <2> HIDE DEF d, v
  <2> QED
    BY <2>1, <2>3, <2>4, <2>5
<1> QED
  BY <1>2, <1>3 DEF ViewsFresh

LEMMA DeleteChunkViews ==
  ASSUME NEW w \in World, NEW c \in Pos, c \in w.live, w.ents[c] = {}, NEW e,
         Others(w, e), ViewsFresh(w, {e})
  PROVE  LET v == DeleteChunk(w, c) IN ViewsFresh(v, {e}) /\ Untold(v, w)
<1> DEFINE v == DeleteChunk(w, c)
           V == [f \in Entities |-> IF f \in EntitiesIn(w, Viewable(w, c))
                                   THEN w.views[f] \ {c} ELSE w.views[f]]
<1>1. v = [w EXCEPT !.live = @ \ {c}, !.ents[c] = {}, !.nplayers[c] = 0, !.views = V]
  BY DEF DeleteChunk
<1>2. v.views = V /\ Untold(v, w) /\ v.live = w.live \ {c} /\ v.pos = w.pos
  <2> HIDE DEF V, v
  <2> QED BY <1>1 DEF World, Untold
<1>3. ASSUME NEW f \in Entities \ {e}
      PROVE  v.views[f] = IF v.pos[f] = NoChunk THEN {} ELSE Viewable(v, v.pos[f])
  <2> DEFINE d == w.pos[f]
  <2>1. d \in Pos /\ (d \in Near(c) <=> c \in Near(d))
    BY Fields, NearFacts
  <2>2. f \in EntitiesIn(w, Viewable(w, c)) <=> d # NoChunk /\ d \in Near(c)
    BY ViewableAre
  <2>3. w.views[f] = IF d = NoChunk THEN {} ELSE Near(d) \cap w.live
    BY DEF ViewsFresh, Viewable
  <2>4. v.views[f] = IF d # NoChunk /\ d \in Near(c) THEN w.views[f] \ {c} ELSE w.views[f]
    BY <1>2, <2>2
  <2>5. Viewable(v, d) = Near(d) \cap (w.live \ {c}) /\ v.pos[f] = d
    BY <1>2 DEF Viewable
  <2> HIDE DEF d, v
  <2> QED
    BY <2>1, <2>3, <2>4, <2>5
<1> QED
  BY <1>2, <1>3 DEF ViewsFresh

LEMMA UntrackViews ==
  ASSUME NEW w \in World, NEW c \in Pos, NEW e \in Entities,
         Populated(w), Counted(w), e \in w.ents[c] \/ w.ents[c] = {},
         Others(w, e), ViewsFresh(w, {e})
  PROVE  LET v == UntrackEntity(w, c, e) IN ViewsFresh(v, {e}) /\ Untold(v, w)
<1>1. CASE c \notin w.live
  BY <1>1 DEF UntrackEntity, Untold
<1>2. CASE c \in w.live
  <2> DEFINE n == IF e \in Players THEN w.nplayers[c] - 1 ELSE w.nplayers[c]
             E == [w.ents EXCEPT ![c] = @ \ {e}]
             N == [w.nplayers EXCEPT ![c] = n]
             u == [w EXCEPT !.ents[c] = @ \ {e},
                            !.nplayers[c] = IF e \in Players THEN @ - 1 ELSE @]
  <2>1. UntrackEntity(w, c, e) = IF u.ents[c] = {} THEN DeleteChunk(u, c) ELSE u
    BY <1>2 DEF UntrackEntity
  <2>2. u = [w EXCEPT !.ents = E, !.nplayers = N]
    OBVIOUS
  <2>3. n \in Nat
    <3>1. e \in w.ents[c]
      BY <1>2 DEF Populated
    <3>2. IsFiniteSet(w.ents[c] \cap Players)
      BY PlayersFinite
    <3>3. w.nplayers[c] \in Nat
      BY DEF World
    <3>4. w.nplayers[c] = Cardinality(w.ents[c] \cap Players)
      BY DEF Counted
    <3>5. Cardinality(w.ents[c] \cap Players) = 0 <=> w.ents[c] \cap Players = {}
      BY <3>2, FS_EmptySet
    <3> QED
      BY <3>1, <3>3, <3>4, <3>5
  <2>4. /\ E \in [Pos -> SUBSET Entities] /\ N \in [Pos -> Nat]
        /\ \A d \in Pos, f \in Entities \ {e} : f \in E[d] <=> f \in w.ents[d]
    BY <2>3, Fields
  <2> HIDE DEF E, N, u
  <2>5. /\ u \in World /\ u.ents = E /\ u.live = w.live /\ u.pos = w.pos /\ u.views = w.views
        /\ Untold(u, w)
    BY <2>2, <2>4 DEF World, Untold
  <2>6. Others(u, e) /\ ViewsFresh(u, {e})
    BY <2>4, <2>5 DEF Others, ViewsFresh, Viewable
  <2>7. CASE u.ents[c] = {}
    <3>1. ViewsFresh(DeleteChunk(u, c), {e}) /\ Untold(DeleteChunk(u, c), u)
      BY <1>2, <2>5, <2>6, <2>7, DeleteChunkViews
    <3> QED
      BY <2>1, <2>5, <2>7, <3>1 DEF Untold
  <2>8. CASE u.ents[c] # {}
    BY <2>1, <2>5, <2>6, <2>8
  <2> QED
    BY <2>7, <2>8
<1> QED
  BY <1>1, <1>2

LEMMA TrackViews ==
  ASSUME NEW w \in World, NEW c \in Pos, NEW e \in Entities,
         Others(w, e), ViewsFresh(w, {e})
  PROVE  LET v == TrackEntity(NewChunk(w, c), c, e) IN ViewsFresh(v, {e}) /\ Untold(v, w)
<1> DEFINE u == NewChunk(w, c)
           E == [u.ents EXCEPT ![c] = @ \cup {e}]
           N == [u.nplayers EXCEPT ![c] = IF e \in Players THEN @ + 1 ELSE @]
           v == TrackEntity(u, c, e)
<1>1. u \in World /\ ViewsFresh(u, {e}) /\ Untold(u, w) /\ c \in u.live
  <2>1. CASE c \in w.live
    BY <2>1 DEF NewChunk, Untold
  <2>2. CASE c \notin w.live
    <3>1. ViewsFresh(u, {e}) /\ Untold(u, w)
      BY <2>2, NewChunkViews
    <3>2. u \in World /\ u.live = w.live \cup {c}
      BY <2>2, NewChunkEffect
    <3> QED
      BY <3>1, <3>2
  <2> QED
    BY <2>1, <2>2
<1> HIDE DEF u
<1>2. v = [u EXCEPT !.ents = E, !.nplayers = N]
  BY <1>1 DEF TrackEntity
<1> HIDE DEF E, N, v
<1>3. v.live = u.live /\ v.pos = u.pos /\ v.views = u.views /\ Untold(v, u)
  BY <1>1, <1>2 DEF World, Untold
<1>4. ViewsFresh(v, {e})
  BY <1>1, <1>3 DEF ViewsFresh, Viewable
<1> QED
  BY <1>1, <1>3, <1>4 DEF Untold, v, u

-----------------------------------------------------------------------------
(* Moving, counted and shown.                                              *)

\* What changes in counters and clients when e is hidden from the chunks C,
\* and when it is shown to them.
Hides(v, w, C, e) ==
  /\ v.up = w.up /\ v.views = w.views
  /\ \A m \in Mobs : v.seen[m] = w.seen[m] - Sightings(w, C, e, m)
  /\ \A p \in Players : v.told[p] =
       IF p = e THEN w.told[p] \ {f \in EntitiesIn(w, C) \ {e} : f \in w.up}
       ELSE IF p \in EntitiesIn(w, C) /\ e \in w.up THEN w.told[p] \ {e}
       ELSE w.told[p]

Shows(v, w, C, e) ==
  /\ v.up = w.up /\ v.views = w.views
  /\ \A m \in Mobs : v.seen[m] = w.seen[m] + Sightings(w, C, e, m)
  /\ \A p \in Players : v.told[p] =
       IF p = e THEN w.told[p] \cup {f \in EntitiesIn(w, C) \ {e} : f \in w.up}
       ELSE IF p \in EntitiesIn(w, C) /\ e \in w.up THEN w.told[p] \cup {e}
       ELSE w.told[p]

LEMMA HideShows ==
  ASSUME NEW w \in World, NEW C \in SUBSET Pos, NEW e \in Entities
  PROVE  Hides(RemoveEntityFromChunks(w, C, e), w, C, e)
<1> DEFINE others == EntitiesIn(w, C) \ {e}
           T == [p \in Players |->
                  IF p = e THEN w.told[p] \ (others \cap w.up)
                  ELSE IF p \in others /\ e \in w.up THEN w.told[p] \ {e}
                  ELSE w.told[p]]
           S == [m \in Mobs |-> w.seen[m] - Sightings(w, C, e, m)]
           v == RemoveEntityFromChunks(w, C, e)
<1>1. v = [w EXCEPT !.told = T, !.seen = S]
  BY DEF RemoveEntityFromChunks
<1>2. /\ \A p \in Players : T[p] =
           IF p = e THEN w.told[p] \ {f \in EntitiesIn(w, C) \ {e} : f \in w.up}
           ELSE IF p \in EntitiesIn(w, C) /\ e \in w.up THEN w.told[p] \ {e}
           ELSE w.told[p]
      /\ \A m \in Mobs : S[m] = w.seen[m] - Sightings(w, C, e, m)
  OBVIOUS
<1> HIDE DEF T, S, v
<1>3. v.up = w.up /\ v.views = w.views /\ v.told = T /\ v.seen = S
  BY <1>1 DEF World
<1> QED
  BY <1>2, <1>3 DEF v, Hides

LEMMA ShowShows ==
  ASSUME NEW w \in World, NEW C \in SUBSET Pos, NEW e \in Entities
  PROVE  Shows(AddEntityToChunks(w, C, e), w, C, e)
<1> DEFINE others == EntitiesIn(w, C) \ {e}
           T == [p \in Players |->
                  IF p = e THEN w.told[p] \cup (others \cap w.up)
                  ELSE IF p \in others /\ e \in w.up THEN w.told[p] \cup {e}
                  ELSE w.told[p]]
           S == [m \in Mobs |-> w.seen[m] + Sightings(w, C, e, m)]
           v == AddEntityToChunks(w, C, e)
<1>1. v = [w EXCEPT !.told = T, !.seen = S]
  BY DEF AddEntityToChunks
<1>2. /\ \A p \in Players : T[p] =
           IF p = e THEN w.told[p] \cup {f \in EntitiesIn(w, C) \ {e} : f \in w.up}
           ELSE IF p \in EntitiesIn(w, C) /\ e \in w.up THEN w.told[p] \cup {e}
           ELSE w.told[p]
      /\ \A m \in Mobs : S[m] = w.seen[m] + Sightings(w, C, e, m)
  OBVIOUS
<1> HIDE DEF T, S, v
<1>3. v.up = w.up /\ v.views = w.views /\ v.told = T /\ v.seen = S
  BY <1>1 DEF World
<1> QED
  BY <1>2, <1>3 DEF v, Shows

LEMMA SameLists ==
  ASSUME NEW v, NEW w, v.ents = w.ents
  PROVE  /\ \A C : EntitiesIn(v, C) = EntitiesIn(w, C)
         /\ \A C, e, m : Sightings(v, C, e, m) = Sightings(w, C, e, m)
BY DEF EntitiesIn, Sightings

\* What updateEntityChunk() does to counters and clients, in terms of the
\* lists that it leaves: `gone' are the chunks e sees no more, `come' those it
\* sees now.
Crossed(v, w, e, gone, come) ==
  /\ v.up = w.up
  /\ \A m \in Mobs :
       v.seen[m] = w.seen[m] - Sightings(v, gone, e, m) + Sightings(v, come, e, m)
  /\ \A p \in Players :
       v.told[p] =
         IF p = e THEN (w.told[p] \ {f \in EntitiesIn(v, gone) \ {e} : f \in w.up})
                         \cup {f \in EntitiesIn(v, come) \ {e} : f \in w.up}
         ELSE IF p \in EntitiesIn(v, come) /\ e \in w.up THEN
           (IF p \in EntitiesIn(v, gone) THEN w.told[p] \ {e} ELSE w.told[p]) \cup {e}
         ELSE IF p \in EntitiesIn(v, gone) /\ e \in w.up THEN w.told[p] \ {e}
         ELSE w.told[p]

LEMMA UpdateShows ==
  ASSUME NEW w, Sound(w), NEW e \in w.here, Passing(w, e), NEW to \in Pos,
         ViewsFresh(w, {e})
  PROVE  LET v == UpdateEntityChunk(w, e, w.pos[e], to)
             old == Viewable(v, w.pos[e])
             new == Viewable(v, to)
         IN ViewsFresh(v, {e}) /\ v.views[e] = new /\ Crossed(v, w, e, old \ new, new \ old)
<1> DEFINE from == w.pos[e]
           w1 == UntrackEntity(w, from, e)
           w2 == TrackEntity(NewChunk(w1, to), to, e)
           old == Viewable(w2, from)
           new == Viewable(w2, to)
           gone == old \ new
           come == new \ old
           w3 == RemoveEntityFromChunks(w2, gone, e)
           w4 == AddEntityToChunks(w3, come, e)
           v == [w4 EXCEPT !.pos[e] = to, !.views[e] = new]
<1>0. /\ w \in World /\ e \in Entities /\ from \in Pos
      /\ NoChunk \in Pos /\ Pos = Places \cup {NoChunk} /\ NoChunk \notin Places
      /\ w.ents \in [Pos -> SUBSET Entities]
  BY Fields, PosFacts DEF Sound, Pos
<1>1. UpdateEntityChunk(w, e, from, to) = v
  BY DEF UpdateEntityChunk
<1>2. e \in w.ents[from] \/ w.ents[from] = {}
  BY <1>0 DEF Sound, Listed, Passing
<1>3. Others(w, e)
  BY OthersAreListed DEF Sound
<1>4. /\ w1 \in World /\ Frame(w1, w) /\ Populated(w1) /\ Counted(w1)
      /\ w1.ents = [w.ents EXCEPT ![from] = @ \ {e}]
  BY <1>0, <1>2, UntrackEffect DEF Sound
<1>5. ViewsFresh(w1, {e}) /\ Untold(w1, w)
  BY <1>0, <1>2, <1>3, UntrackViews DEF Sound
<1> HIDE DEF w1
<1>6. e \notin w1.ents[to]
  BY <1>0, <1>4 DEF Sound, Listed, Passing
<1>7. Others(w1, e)
  <2>1. \A c \in Pos, f \in Entities \ {e} : f \in w1.ents[c] <=> f \in w.ents[c]
    BY <1>0, <1>4
  <2>2. w1.pos = w.pos /\ \A c \in Pos : \A f \in w1.ents[c] : c \in w1.live
    BY <1>4 DEF Frame, Populated
  <2> QED
    BY <1>3, <2>1, <2>2 DEF Others
<1>8. /\ w2 \in World /\ Frame(w2, w1)
      /\ ViewsFresh(w2, {e}) /\ Untold(w2, w1)
  <2>1. w1 \in World /\ Populated(w1) /\ Counted(w1) /\ e \in Entities
    BY <1>0, <1>4
  <2> HIDE <1>0, <1>4
  <2>2. w2 \in World /\ Frame(w2, w1)
    BY <1>6, <2>1, TrackEffect
  <2>3. ViewsFresh(w2, {e}) /\ Untold(w2, w1)
    BY <1>5, <1>7, <2>1, TrackViews
  <2> QED
    BY <2>2, <2>3
<1> HIDE DEF w2
<1>9. old \in SUBSET Pos /\ new \in SUBSET Pos /\ IsFiniteSet(old) /\ IsFiniteSet(new)
  BY <1>0, <1>8, ViewableFinite
<1> HIDE DEF old, new
<1>10. /\ gone \in SUBSET Pos /\ IsFiniteSet(gone)
       /\ come \in SUBSET Pos /\ IsFiniteSet(come)
  <2>1. gone \subseteq old /\ come \subseteq new
    OBVIOUS
  <2> HIDE DEF gone, come
  <2> QED
    BY <1>9, <2>1, FS_Subset
<1> HIDE DEF gone, come
<1>11. /\ w3 \in World /\ Frame(w3, w2) /\ w3.ents = w2.ents /\ w3.live = w2.live
       /\ w3.up = w2.up /\ w3.views = w2.views
       /\ \A m \in Mobs : w3.seen[m] = w2.seen[m] - Sightings(w2, gone, e, m)
       /\ \A p \in Players : w3.told[p] =
            IF p = e THEN w2.told[p] \ {f \in EntitiesIn(w2, gone) \ {e} : f \in w2.up}
            ELSE IF p \in EntitiesIn(w2, gone) /\ e \in w2.up THEN w2.told[p] \ {e}
            ELSE w2.told[p]
  <2>1. w2 \in World /\ e \in Entities /\ gone \in SUBSET Pos /\ IsFiniteSet(gone)
    BY <1>0, <1>8, <1>10
  <2>2. /\ w3 \in World /\ Frame(w3, w2) /\ w3.ents = w2.ents /\ w3.live = w2.live
    BY ONLY <2>1, HideEffect DEF w3
  <2>3. Hides(w3, w2, gone, e)
    BY ONLY <2>1, HideShows DEF w3
  <2> QED
    BY <2>2, <2>3 DEF Hides
<1> HIDE DEF w3
<1>12. /\ w4 \in World /\ Frame(w4, w3) /\ w4.ents = w3.ents /\ w4.live = w3.live
       /\ w4.up = w3.up /\ w4.views = w3.views
       /\ \A m \in Mobs : w4.seen[m] = w3.seen[m] + Sightings(w3, come, e, m)
       /\ \A p \in Players : w4.told[p] =
            IF p = e THEN w3.told[p] \cup {f \in EntitiesIn(w3, come) \ {e} : f \in w3.up}
            ELSE IF p \in EntitiesIn(w3, come) /\ e \in w3.up THEN w3.told[p] \cup {e}
            ELSE w3.told[p]
  <2>1. w3 \in World /\ e \in Entities /\ come \in SUBSET Pos /\ IsFiniteSet(come)
    BY <1>0, <1>10, <1>11
  <2>2. /\ w4 \in World /\ Frame(w4, w3) /\ w4.ents = w3.ents /\ w4.live = w3.live
    BY ONLY <2>1, ShowEffect DEF w4
  <2>3. Shows(w4, w3, come, e)
    BY ONLY <2>1, ShowShows DEF w4
  <2> QED
    BY <2>2, <2>3 DEF Shows
<1> HIDE DEF w4
<1>13. /\ v.ents = w2.ents /\ v.live = w2.live /\ v.up = w4.up /\ v.seen = w4.seen
       /\ v.told = w4.told /\ v.pos = [w4.pos EXCEPT ![e] = to]
       /\ v.views = [w4.views EXCEPT ![e] = new]
  <2> DEFINE P == [w4.pos EXCEPT ![e] = to]
             V == [w4.views EXCEPT ![e] = new]
  <2>1. v = [w4 EXCEPT !.pos = P, !.views = V]
    OBVIOUS
  <2> HIDE DEF P, V, v
  <2>2. /\ v.ents = w4.ents /\ v.live = w4.live /\ v.up = w4.up /\ v.seen = w4.seen
        /\ v.told = w4.told /\ v.pos = P /\ v.views = V
    BY <1>12, <2>1 DEF World
  <2> QED
    BY <1>11, <1>12, <2>2 DEF P, V
<1> HIDE DEF v
<1>14. /\ Viewable(v, from) = old /\ Viewable(v, to) = new
       /\ \A C : EntitiesIn(v, C) = EntitiesIn(w2, C) /\ EntitiesIn(w3, C) = EntitiesIn(w2, C)
       /\ \A C, m : /\ Sightings(v, C, e, m) = Sightings(w2, C, e, m)
                    /\ Sightings(w3, C, e, m) = Sightings(w2, C, e, m)
  BY <1>11, <1>13, SameLists DEF old, new, Viewable
<1>15. ViewsFresh(v, {e}) /\ v.views[e] = new
  <2>1. w4.views = w2.views /\ w4.pos = w2.pos
    BY <1>11, <1>12 DEF Frame
  <2>2. w2.views \in [Entities -> SUBSET Pos] /\ w2.pos \in [Entities -> Pos]
    BY <1>8 DEF World
  <2>3. \A f \in Entities \ {e} : v.views[f] = w2.views[f] /\ v.pos[f] = w2.pos[f]
    BY <1>13, <2>1, <2>2
  <2>4. v.views[e] = new
    BY <1>0, <1>13, <2>1, <2>2
  <2> QED
    BY <1>8, <1>13, <2>3, <2>4 DEF ViewsFresh, Viewable
<1>16. /\ w2.up = w.up /\ w2.seen = w.seen /\ w2.told = w.told /\ w3.up = w.up
       /\ v.up = w.up
  BY <1>5, <1>8, <1>11, <1>12, <1>13 DEF Untold
<1>17. \A m \in Mobs : v.seen[m] = w.seen[m] - Sightings(v, gone, e, m) + Sightings(v, come, e, m)
  <2> TAKE m \in Mobs
  <2>1. w3.seen[m] = w.seen[m] - Sightings(v, gone, e, m)
    BY <1>11, <1>14, <1>16
  <2>2. v.seen[m] = w3.seen[m] + Sightings(v, come, e, m)
    BY <1>12, <1>13, <1>14
  <2> QED
    BY <2>1, <2>2
<1>18. ASSUME NEW p \in Players
       PROVE v.told[p] =
               IF p = e THEN (w.told[p] \ {f \in EntitiesIn(v, gone) \ {e} : f \in w.up})
                               \cup {f \in EntitiesIn(v, come) \ {e} : f \in w.up}
               ELSE IF p \in EntitiesIn(v, come) /\ e \in w.up THEN
                 (IF p \in EntitiesIn(v, gone) THEN w.told[p] \ {e} ELSE w.told[p]) \cup {e}
               ELSE IF p \in EntitiesIn(v, gone) /\ e \in w.up THEN w.told[p] \ {e}
               ELSE w.told[p]
  <2>1. w3.told[p] =
            IF p = e THEN w.told[p] \ {f \in EntitiesIn(v, gone) \ {e} : f \in w.up}
            ELSE IF p \in EntitiesIn(v, gone) /\ e \in w.up THEN w.told[p] \ {e}
            ELSE w.told[p]
    BY <1>11, <1>14, <1>16
  <2>2. v.told[p] =
            IF p = e THEN w3.told[p] \cup {f \in EntitiesIn(v, come) \ {e} : f \in w.up}
            ELSE IF p \in EntitiesIn(v, come) /\ e \in w.up THEN w3.told[p] \cup {e}
            ELSE w3.told[p]
    <3>1. EntitiesIn(w3, come) = EntitiesIn(v, come) /\ w3.up = w.up /\ v.told[p] = w4.told[p]
      BY <1>13, <1>14, <1>16
    <3> QED
      BY <1>12, <3>1
  <2> QED
    BY <2>1, <2>2
<1>19. Crossed(v, w, e, gone, come)
  BY <1>16, <1>17, <1>18 DEF Crossed
<1> QED
  BY <1>1, <1>14, <1>15, <1>19 DEF gone, come

\* The players that stand in the chunks C.
Standing(w, C) == {p \in Players : w.pos[p] # NoChunk /\ w.pos[p] \in C}

\* Whom the sightings of e count, when the others are listed where they are.
LEMMA SightingsAre ==
  ASSUME NEW w, w \in World, NEW e \in Entities, Others(w, e),
         NEW C \in SUBSET Pos, NEW m \in Mobs
  PROVE  /\ m = e => Sightings(w, C, e, m) = Cardinality(Standing(w, C))
         /\ m # e => Sightings(w, C, e, m) =
              IF e \in Players /\ w.pos[m] # NoChunk /\ w.pos[m] \in C THEN 1 ELSE 0
<1>0. m \in Entities /\ w.pos \in [Entities -> Pos] /\ Players \subseteq Entities
  BY Fields DEF Entities, NPCs
<1>1. CASE m = e
  <2> DEFINE A == {p \in Players : w.pos[p] # NoChunk /\ w.pos[p] \in C}
             B == {cp \in C \X Players : cp[2] \in w.ents[cp[1]]}
             f == [p \in A |-> <<w.pos[p], p>>]
  <2>1. Sightings(w, C, e, m) = Cardinality(B)
    BY <1>1 DEF Sightings
  <2>2. e \notin Players
    BY <1>1, KindsAreDisjoint DEF NPCs
  <2>3. \A c \in C, p \in Players : p \in w.ents[c] <=> w.pos[p] = c /\ c # NoChunk
    BY <1>0, <2>2 DEF Others
  <2>4. \A p \in A : f[p] \in B
    BY <2>3
  <2>5. ASSUME NEW b \in B PROVE \E p \in A : f[p] = b
    <3>1. b \in C \X Players /\ b[2] \in w.ents[b[1]]
      OBVIOUS
    <3>2. b[1] \in C /\ b[2] \in Players /\ b = <<b[1], b[2]>>
      BY <3>1
    <3>3. w.pos[b[2]] = b[1] /\ b[1] # NoChunk
      BY <2>3, <3>1, <3>2
    <3>4. b[2] \in A
      BY <3>2, <3>3
    <3> QED
      BY <3>2, <3>3, <3>4
  <2>6. \A p, q \in A : f[p] = f[q] => p = q
    OBVIOUS
  <2>7. f \in Bijection(A, B)
    <3> HIDE DEF B
    <3>1. f \in [A -> B]
      BY <2>4
    <3> HIDE DEF A, f
    <3> QED
      BY <2>5, <2>6, <3>1 DEF Bijection, Injection, Surjection, IsInjective
  <2>8. IsFiniteSet(A)
    BY FS_Subset, KindsAreDisjoint
  <2> HIDE DEF A, B, f
  <2>9. Cardinality(B) = Cardinality(A)
    BY <2>7, <2>8, FS_Bijection DEF ExistsBijection
  <2> QED
    BY <1>1, <2>1, <2>9 DEF A, Standing
<1>2. CASE m # e /\ e \in Players
  <2> DEFINE D == {c \in C : m \in w.ents[c]}
  <2>1. Sightings(w, C, e, m) = Cardinality(D)
    BY <1>2 DEF Sightings
  <2>2. \A c \in C : m \in w.ents[c] <=> w.pos[m] = c /\ c # NoChunk
    BY <1>0, <1>2 DEF Others
  <2>3. CASE w.pos[m] # NoChunk /\ w.pos[m] \in C
    <3>1. D = {w.pos[m]}
      BY <2>2, <2>3
    <3> QED
      BY <1>2, <2>1, <2>3, <3>1, FS_Singleton
  <2>4. CASE ~(w.pos[m] # NoChunk /\ w.pos[m] \in C)
    <3>1. D = {}
      BY <2>2, <2>4
    <3> QED
      BY <1>2, <2>1, <2>4, <3>1, FS_EmptySet
  <2> QED
    BY <2>3, <2>4
<1>3. CASE m # e /\ e \notin Players
  BY <1>3 DEF Sightings
<1> QED
  BY <1>1, <1>2, <1>3

\* The symmetric difference of two sets of players, counted.
LEMMA Exchanged ==
  ASSUME NEW A \in SUBSET Players, NEW B \in SUBSET Players
  PROVE  Cardinality(B) = Cardinality(A) - Cardinality(A \ B) + Cardinality(B \ A)
<1>1. IsFiniteSet(A) /\ IsFiniteSet(B)
  BY FS_Subset, KindsAreDisjoint
<1>2. /\ Cardinality(A \ B) = Cardinality(A) - Cardinality(A \cap B)
      /\ Cardinality(B \ A) = Cardinality(B) - Cardinality(B \cap A)
  BY <1>1, FS_Difference
<1>3. A \cap B = B \cap A
  OBVIOUS
<1>4. IsFiniteSet(A \cap B)
  BY <1>1, FS_Intersection
<1>5. Cardinality(A) \in Nat /\ Cardinality(B) \in Nat /\ Cardinality(A \cap B) \in Nat
  BY <1>1, <1>4, FS_CardinalityType
<1> QED
  BY <1>2, <1>3, <1>5

\* Who sees less of e, and who more: those around one of its two places only.
LEMMA CrossedLists ==
  ASSUME NEW v, v \in World, NEW e \in Entities, Others(v, e), NEW from \in Pos, NEW to \in Pos,
         NEW f \in Entities \ {e}
  PROVE  /\ f \in EntitiesIn(v, Viewable(v, from) \ Viewable(v, to)) <=>
              v.pos[f] # NoChunk /\ v.pos[f] \in Near(from) /\ v.pos[f] \notin Near(to)
         /\ v.pos[f] # NoChunk =>
              (v.pos[f] \in Viewable(v, from) \ Viewable(v, to) <=>
                 v.pos[f] \in Near(from) /\ v.pos[f] \notin Near(to))
<1> DEFINE D == Viewable(v, from) \ Viewable(v, to)
<1>1. Viewable(v, from) \in SUBSET Pos
  BY ViewableFinite
<1>2. D \in SUBSET Pos
  BY <1>1
<1>3. v.pos[f] # NoChunk => v.pos[f] \in v.live
  BY ViewableAre
<1>4. v.pos[f] # NoChunk => (v.pos[f] \in D <=> v.pos[f] \in Near(from) /\ v.pos[f] \notin Near(to))
  BY <1>3 DEF Viewable
<1> HIDE DEF D
<1>5. f \in EntitiesIn(v, D) <=> v.pos[f] # NoChunk /\ v.pos[f] \in D
  BY <1>2, EntitiesAre
<1> QED
  BY <1>4, <1>5 DEF D

LEMMA CrossedSeen ==
  ASSUME NEW w, w \in World, NEW v, v \in World, NEW e \in Entities, Others(v, e),
         NEW to \in Pos, v.pos = [w.pos EXCEPT ![e] = to], SeenFresh(w),
         Crossed(v, w, e, Viewable(v, w.pos[e]) \ Viewable(v, to),
                          Viewable(v, to) \ Viewable(v, w.pos[e]))
  PROVE  SeenFresh(v)
<1> DEFINE from == w.pos[e]
           gone == Viewable(v, from) \ Viewable(v, to)
           come == Viewable(v, to) \ Viewable(v, from)
<1>0. /\ from \in Pos /\ w.pos \in [Entities -> Pos]
      /\ Players \subseteq Entities /\ Mobs \subseteq Entities
      /\ gone \in SUBSET Pos /\ come \in SUBSET Pos
  <2>1. from \in Pos /\ w.pos \in [Entities -> Pos]
    BY Fields
  <2>2. Viewable(v, from) \in SUBSET Pos /\ Viewable(v, to) \in SUBSET Pos
    BY <2>1, ViewableFinite
  <2> QED
    BY <2>1, <2>2 DEF Entities, NPCs
<1>1. \A f \in Entities \ {e} : v.pos[f] = w.pos[f]
  BY <1>0
<1>2. v.pos[e] = to
  BY <1>0
<1>3. ASSUME NEW f \in Entities \ {e}, v.pos[f] # NoChunk
      PROVE  /\ v.pos[f] \in gone <=> v.pos[f] \in Near(from) /\ v.pos[f] \notin Near(to)
             /\ v.pos[f] \in come <=> v.pos[f] \in Near(to) /\ v.pos[f] \notin Near(from)
  <2>1. v \in World /\ Others(v, e) /\ from \in Pos /\ to \in Pos
    BY <1>0
  <2> HIDE DEF from
  <2>2. v.pos[f] \in gone <=> v.pos[f] \in Near(from) /\ v.pos[f] \notin Near(to)
    BY ONLY <1>3, <2>1, e \in Entities, CrossedLists
  <2>3. v.pos[f] \in come <=> v.pos[f] \in Near(to) /\ v.pos[f] \notin Near(from)
    BY ONLY <1>3, <2>1, e \in Entities, CrossedLists
  <2> QED
    BY <2>2, <2>3
<1> SUFFICES ASSUME NEW m \in Mobs PROVE v.seen[m] = Cardinality(Watchers(v, m))
  BY DEF SeenFresh
<1>4. v.seen[m] = Cardinality(Watchers(w, m)) - Sightings(v, gone, e, m) + Sightings(v, come, e, m)
  BY DEF Crossed, SeenFresh
<1>5. CASE m = e
  <2>1. e \notin Players
    BY <1>5, KindsAreDisjoint DEF NPCs
  <2>2. /\ Sightings(v, gone, e, m) = Cardinality(Standing(v, gone))
        /\ Sightings(v, come, e, m) = Cardinality(Standing(v, come))
    <3> HIDE DEF gone, come
    <3> QED
      BY <1>0, <1>5, SightingsAre
  <2>3. \A p \in Players : p \in Entities \ {e}
    BY <1>0, <2>1
  <2> HIDE DEF gone, come
  <2>4. Standing(v, gone) = Watchers(w, m) \ Watchers(v, m)
    BY <1>0, <1>1, <1>2, <1>5, <1>3, <2>1, <2>3 DEF Watchers, Standing
  <2>5. Standing(v, come) = Watchers(v, m) \ Watchers(w, m)
    BY <1>0, <1>1, <1>2, <1>5, <1>3, <2>1, <2>3 DEF Watchers, Standing
  <2>6. Watchers(w, m) \in SUBSET Players /\ Watchers(v, m) \in SUBSET Players
    BY DEF Watchers
  <2>7. Cardinality(Watchers(v, m)) = Cardinality(Watchers(w, m))
          - Cardinality(Watchers(w, m) \ Watchers(v, m))
          + Cardinality(Watchers(v, m) \ Watchers(w, m))
    BY <2>6, Exchanged
  <2> QED
    BY <1>4, <2>2, <2>4, <2>5, <2>7
<1>6. CASE m # e
  <2> DEFINE a == e \in Players /\ w.pos[m] # NoChunk /\ w.pos[m] \in Near(from)
             b == e \in Players /\ w.pos[m] # NoChunk /\ w.pos[m] \in Near(to)
             X == Watchers(w, m) \ {e}
  <2>1. v.pos[m] = w.pos[m] /\ w.pos[m] \in Pos /\ m \in Entities \ {e}
    BY <1>0, <1>1, <1>6
  <2>2. /\ Sightings(v, gone, e, m) = IF a /\ ~b THEN 1 ELSE 0
        /\ Sightings(v, come, e, m) = IF b /\ ~a THEN 1 ELSE 0
    <3> HIDE DEF gone, come
    <3>1. gone \in SUBSET Pos /\ come \in SUBSET Pos
      BY <1>0
    <3>2. Sightings(v, gone, e, m)
            = IF e \in Players /\ v.pos[m] # NoChunk /\ v.pos[m] \in gone THEN 1 ELSE 0
      BY ONLY <1>6, <3>1, v \in World, e \in Entities, Others(v, e), m \in Mobs, SightingsAre
    <3>3. Sightings(v, come, e, m)
            = IF e \in Players /\ v.pos[m] # NoChunk /\ v.pos[m] \in come THEN 1 ELSE 0
      BY ONLY <1>6, <3>1, v \in World, e \in Entities, Others(v, e), m \in Mobs, SightingsAre
    <3> QED
      BY <1>3, <2>1, <3>2, <3>3
  <2>3. /\ from # NoChunk /\ from \in Near(w.pos[m]) <=> w.pos[m] # NoChunk /\ w.pos[m] \in Near(from)
        /\ to # NoChunk /\ to \in Near(w.pos[m]) <=> w.pos[m] # NoChunk /\ w.pos[m] \in Near(to)
    BY <1>0, <2>1, NearFacts, PosFacts
  <2> HIDE DEF gone, come
  <2>4. Watchers(w, m) = IF a THEN X \cup {e} ELSE X
    BY <2>3 DEF Watchers
  <2>5. Watchers(v, m) = IF b THEN X \cup {e} ELSE X
    BY <1>0, <1>1, <1>2, <2>1, <2>3 DEF Watchers
  <2>6. IsFiniteSet(X) /\ e \notin X
    BY FS_Subset, KindsAreDisjoint DEF Watchers
  <2>7. Cardinality(X \cup {e}) = Cardinality(X) + 1 /\ Cardinality(X) \in Nat
    BY <2>6, FS_AddElement, FS_CardinalityType
  <2> HIDE DEF a, b, X
  <2> QED
    BY <1>4, <2>2, <2>4, <2>5, <2>7
<1> QED
  BY <1>5, <1>6

LEMMA CrossedTold ==
  ASSUME NEW w, w \in World, NEW v, v \in World, NEW e \in Entities, Others(v, e),
         NEW to \in Pos, v.pos = [w.pos EXCEPT ![e] = to], ToldFresh(w),
         Crossed(v, w, e, Viewable(v, w.pos[e]) \ Viewable(v, to),
                          Viewable(v, to) \ Viewable(v, w.pos[e]))
  PROVE  ToldFresh(v)
<1> DEFINE from == w.pos[e]
           gone == EntitiesIn(v, Viewable(v, from) \ Viewable(v, to))
           come == EntitiesIn(v, Viewable(v, to) \ Viewable(v, from))
<1>0. from \in Pos /\ w.pos \in [Entities -> Pos] /\ Players \subseteq Entities
  <2>1. from \in Pos /\ w.pos \in [Entities -> Pos]
    BY Fields
  <2> QED
    BY <2>1 DEF Entities
<1>1. \A f \in Entities \ {e} : v.pos[f] = w.pos[f]
  BY <1>0
<1>2. v.pos[e] = to
  BY <1>0
<1>3. \A f \in Entities \ {e} :
        /\ f \in gone <=> w.pos[f] # NoChunk /\ w.pos[f] \in Near(from) /\ w.pos[f] \notin Near(to)
        /\ f \in come <=> w.pos[f] # NoChunk /\ w.pos[f] \in Near(to) /\ w.pos[f] \notin Near(from)
  BY <1>0, <1>1, CrossedLists
<1>4. /\ v.up = w.up
      /\ \A p \in Players : v.told[p] =
           IF p = e THEN (w.told[p] \ {f \in gone \ {e} : f \in w.up})
                           \cup {f \in come \ {e} : f \in w.up}
           ELSE IF p \in come /\ e \in w.up THEN
             (IF p \in gone THEN w.told[p] \ {e} ELSE w.told[p]) \cup {e}
           ELSE IF p \in gone /\ e \in w.up THEN w.told[p] \ {e}
           ELSE w.told[p]
  BY DEF Crossed
<1> HIDE DEF gone, come
<1>5. /\ \A f \in Entities \ {e} :
           /\ from # NoChunk /\ w.pos[f] \in Near(from) <=> w.pos[f] # NoChunk /\ w.pos[f] \in Near(from)
           /\ to # NoChunk /\ w.pos[f] \in Near(to) <=> w.pos[f] # NoChunk /\ w.pos[f] \in Near(to)
           /\ w.pos[f] \in Near(from) <=> from \in Near(w.pos[f])
           /\ w.pos[f] \in Near(to) <=> to \in Near(w.pos[f])
  BY <1>0, NearFacts, PosFacts
<1> SUFFICES ASSUME NEW p \in Players, NEW f \in Entities
             PROVE  /\ Sees(v, p, f) => f \in v.told[p]
                    /\ f \notin Mobs /\ f \in v.told[p] => Sees(v, p, f)
  BY DEF ToldFresh
<1>6. /\ Sees(w, p, f) => f \in w.told[p]
      /\ f \notin Mobs /\ f \in w.told[p] => Sees(w, p, f)
  BY DEF ToldFresh
<1>7. CASE p = e /\ f = e
  BY <1>4, <1>6, <1>7 DEF Sees
<1>8. CASE p = e /\ f # e
  <2>1. v.told[e] = (w.told[e] \ {g \in gone \ {e} : g \in w.up}) \cup {g \in come \ {e} : g \in w.up}
    BY <1>4, <1>8
  <2>2. f \in v.told[e] <=> (f \in w.told[e] /\ ~(f \in gone /\ f \in w.up)) \/ (f \in come /\ f \in w.up)
    BY <1>8, <2>1
  <2>3. Sees(v, e, f) <=> w.pos[f] # NoChunk /\ f \in w.up /\ w.pos[f] \in Near(to)
    BY <1>1, <1>2, <1>4, <1>5, <1>8 DEF Sees
  <2>4. Sees(w, e, f) <=> w.pos[f] # NoChunk /\ f \in w.up /\ w.pos[f] \in Near(from)
    BY <1>5, <1>8 DEF Sees
  <2> QED
    BY <1>3, <1>6, <1>8, <2>2, <2>3, <2>4
<1>9. CASE p # e /\ f # e
  <2>1. f \in v.told[p] <=> f \in w.told[p]
    BY <1>4, <1>9
  <2>2. Sees(v, p, f) <=> Sees(w, p, f)
    BY <1>0, <1>1, <1>4, <1>9 DEF Sees
  <2> QED
    BY <1>6, <2>1, <2>2
<1>10. CASE p # e /\ f = e
  <2>1. Sees(v, p, e) <=> w.pos[p] # NoChunk /\ e \in w.up /\ w.pos[p] \in Near(to)
    BY <1>0, <1>1, <1>2, <1>4, <1>5, <1>10 DEF Sees
  <2>2. Sees(w, p, e) <=> w.pos[p] # NoChunk /\ e \in w.up /\ w.pos[p] \in Near(from)
    BY <1>0, <1>5, <1>10 DEF Sees
  <2>3. e \in v.told[p] <=>
          IF p \in come /\ e \in w.up THEN TRUE
          ELSE IF p \in gone /\ e \in w.up THEN FALSE
          ELSE e \in w.told[p]
    BY <1>4, <1>10
  <2>4. p \in Entities \ {e}
    BY <1>0, <1>10
  <2> QED
    BY <1>3, <1>6, <1>10, <2>1, <2>2, <2>3, <2>4
<1> QED
  BY <1>7, <1>8, <1>9, <1>10

\* updateEntityChunk() keeps all of it right, and the view of the entity it
\* moves too, which the detour of a warp leaves with a chunk soon to be gone.
LEMMA UpdateCaches ==
  ASSUME NEW w, Sound(w), NEW e \in w.here, Passing(w, e), NEW to \in Pos, Caches(w, {e})
  PROVE  LET v == UpdateEntityChunk(w, e, w.pos[e], to)
         IN Caches(v, {e}) /\ (to # NoChunk => Caches(v, {}))
<1> DEFINE v == UpdateEntityChunk(w, e, w.pos[e], to)
           gone == Viewable(v, w.pos[e]) \ Viewable(v, to)
           come == Viewable(v, to) \ Viewable(v, w.pos[e])
<1>1. ViewsFresh(w, {e}) /\ SeenFresh(w) /\ ToldFresh(w) /\ w \in World /\ e \in Entities
  BY Fields DEF Caches, Sound
<1>2. /\ Sound(v) /\ v.pos = [w.pos EXCEPT ![e] = to]
      /\ v.ents[NoChunk] = IF to = NoChunk THEN {e} ELSE {}
  BY UpdateEntityChunkEffect
<1>3. ViewsFresh(v, {e}) /\ v.views[e] = Viewable(v, to) /\ Crossed(v, w, e, gone, come)
  BY <1>1, UpdateShows
<1> HIDE DEF v
<1>4. v.pos[e] = to
  BY <1>1, <1>2, Fields
<1>5. v \in World /\ Others(v, e)
  <2>1. Passing(v, e)
    BY <1>2, <1>4 DEF Passing
  <2> QED
    BY <1>2, <2>1, OthersAreListed DEF Sound
<1>6. SeenFresh(v)
  BY <1>1, <1>2, <1>3, <1>5, CrossedSeen
<1>7. ToldFresh(v)
  BY <1>1, <1>2, <1>3, <1>5, CrossedTold
<1>8. to # NoChunk => ViewsFresh(v, {})
  BY <1>3, <1>4 DEF ViewsFresh
<1> QED
  BY <1>3, <1>6, <1>7, <1>8 DEF Caches, v

\* What the caches are about.
SameView(v, w) ==
  /\ v.pos = w.pos /\ v.live = w.live /\ v.views = w.views /\ v.seen = w.seen
  /\ v.up = w.up /\ v.told = w.told

LEMMA SameCaches ==
  ASSUME NEW v, NEW w, SameView(v, w), NEW S
  PROVE  Caches(w, S) => Caches(v, S)
BY DEF SameView, Caches, ViewsFresh, SeenFresh, ToldFresh, Watchers, Sees, Viewable

\* The same hypotheses as for MoveEffect.
LEMMA MoveCaches ==
  ASSUME NEW w \in World, NEW e \in w.here, NEW c \in Places,
         \A f \in w.here \ {e} : w.at[f] \in Places,
         \A f \in w.here \cap Mobs : w.home[f] \in Places,
         \A f \in Entities \ w.here : w.pos[f] = NoChunk,
         Listed(w), Populated(w), Counted(w), Passing(w, e),
         Caches(w, {e}), w.pos[e] = c => Caches(w, {})
  PROVE  Caches(UpdatePlayerPosition(w, e, c), {})
<1> DEFINE A == [w.at EXCEPT ![e] = c]
           v == [w EXCEPT !.at[e] = c]
           u == UpdateEntityChunk(v, e, v.pos[e], c)
<1>1. /\ e \in Entities /\ c \in Pos /\ c # NoChunk /\ w.at \in [Entities -> Pos]
  BY Fields, PosFacts
<1>2. v = [w EXCEPT !.at = A]
  OBVIOUS
<1>3. A \in [Entities -> Pos] /\ \A f \in w.here : A[f] \in Places
  BY <1>1
<1>4. v.pos = w.pos
  BY <1>2 DEF World
<1>5. UpdatePlayerPosition(w, e, c) = IF w.pos[e] = c THEN v ELSE u
  BY <1>4 DEF UpdatePlayerPosition
<1> HIDE DEF A, v
<1>6. /\ v \in World /\ v.at = A /\ v.here = w.here /\ v.home = w.home
      /\ v.ents = w.ents /\ v.live = w.live /\ v.nplayers = w.nplayers
  BY <1>2, <1>3 DEF World
<1>7. SameView(v, w)
  BY <1>2 DEF World, SameView
<1>8. Sound(v) /\ Passing(v, e)
  BY <1>3, <1>4, <1>6 DEF Sound, Rooted, Listed, Populated, Counted, Passing
<1>9. Caches(v, {e}) /\ (w.pos[e] = c => Caches(v, {}))
  BY <1>7, SameCaches
<1>10. Caches(u, {})
  BY <1>1, <1>6, <1>8, <1>9, UpdateCaches
<1> HIDE DEF u
<1> QED
  BY <1>5, <1>9, <1>10

LEMMA CachesButOne ==
  ASSUME NEW w, NEW S, Caches(w, {})
  PROVE  Caches(w, S)
BY DEF Caches, ViewsFresh

LEMMA MoveFresh ==
  ASSUME NEW w, Fresh(w), NEW e \in w.here, NEW c \in Places
  PROVE  Fresh(UpdatePlayerPosition(w, e, c))
<1>1. /\ w \in World /\ Listed(w) /\ Populated(w) /\ Counted(w) /\ Passing(w, e)
      /\ \A f \in w.here \ {e} : w.at[f] \in Places
      /\ \A f \in w.here \cap Mobs : w.home[f] \in Places
      /\ \A f \in Entities \ w.here : w.pos[f] = NoChunk
  BY DEF Fresh, Whole, Sound, Rooted, Passing
<1>2. Caches(w, {}) /\ Caches(w, {e})
  BY CachesButOne DEF Fresh
<1>3. Whole(UpdatePlayerPosition(w, e, c))
  BY <1>1, MoveEffect
<1>4. Caches(UpdatePlayerPosition(w, e, c), {})
  BY <1>1, <1>2, MoveCaches
<1> QED
  BY <1>3, <1>4 DEF Fresh

LEMMA WarpFresh ==
  ASSUME NEW w, Fresh(w), NEW p \in w.here, NEW c \in Places
  PROVE  Fresh(WarpPosition(w, p, c))
<1> DEFINE u == UpdateEntityChunk(w, p, w.pos[p], NoChunk)
<1>1. /\ Whole(w) /\ Sound(w) /\ Passing(w, p) /\ p \in Entities /\ w.pos \in [Entities -> Pos]
      /\ Caches(w, {p}) /\ NoChunk \in Pos /\ c # NoChunk
  BY Fields, CachesButOne, PosFacts DEF Fresh, Whole, Passing, Sound
<1>2. /\ Sound(u) /\ u.here = w.here /\ u.pos = [w.pos EXCEPT ![p] = NoChunk]
      /\ u.ents[NoChunk] = {p}
  BY <1>1, UpdateEntityChunkEffect
<1>3. Caches(u, {p})
  BY <1>1, UpdateCaches
<1>4. WarpPosition(w, p, c) = UpdatePlayerPosition(u, p, c)
  BY DEF WarpPosition
<1> HIDE DEF u
<1>5. u.pos[p] = NoChunk /\ Passing(u, p)
  BY <1>1, <1>2 DEF Passing
<1>6. /\ u \in World /\ p \in u.here /\ Listed(u) /\ Populated(u) /\ Counted(u)
      /\ \A f \in u.here \ {p} : u.at[f] \in Places
      /\ \A f \in u.here \cap Mobs : u.home[f] \in Places
      /\ \A f \in Entities \ u.here : u.pos[f] = NoChunk
  BY <1>2 DEF Sound, Rooted
<1>7. Caches(UpdatePlayerPosition(u, p, c), {})
  BY <1>1, <1>3, <1>5, <1>6, MoveCaches
<1>8. Whole(WarpPosition(w, p, c))
  BY <1>1, WarpEffect
<1> QED
  BY <1>4, <1>7, <1>8 DEF Fresh

-----------------------------------------------------------------------------
(* Leaving, one or a whole instance.                                       *)

LEMMA WholeEntities ==
  ASSUME NEW w, Whole(w), NEW f \in Entities
  PROVE  /\ \A D \in SUBSET Pos :
              f \in EntitiesIn(w, D) <=> w.pos[f] # NoChunk /\ w.pos[f] \in D
         /\ w.pos[f] # NoChunk => w.pos[f] \in w.live
<1>1. PICK e : e # f
  <2>1. 0 # f \/ 1 # f
    OBVIOUS
  <2> QED
    BY <2>1
<1>2. w \in World /\ Others(w, e) /\ f \in Entities \ {e}
  BY <1>1, WholeOthers DEF Whole, Sound
<1>3. ASSUME NEW D \in SUBSET Pos
      PROVE  f \in EntitiesIn(w, D) <=> w.pos[f] # NoChunk /\ w.pos[f] \in D
  BY <1>2, EntitiesAre
<1>4. w.pos[f] \in Pos
  BY <1>2, Fields
<1> QED
  BY <1>2, <1>3, <1>4 DEF Others

\* What becomes of caches, counters and clients when S is freed.
Gone(v, w, S) ==
  /\ v.live = w.live /\ v.up = w.up \ S
  /\ \A e \in Entities : /\ v.pos[e] = IF e \in S THEN NoChunk ELSE w.pos[e]
                         /\ v.views[e] = IF e \in S THEN {} ELSE w.views[e]
  /\ \A m \in Mobs : v.seen[m] = IF m \in S THEN 0 ELSE w.seen[m]
  /\ \A p \in Players : v.told[p] = IF p \in S THEN {} ELSE w.told[p]

LEMMA FreedShows ==
  ASSUME NEW w \in World, NEW S
  PROVE  Gone(Freed(w, S), w, S)
<1> DEFINE H == w.here \ S
           U == w.up \ S
           M == w.summoned \ S
           G == w.gone \ S
           P == [e \in Entities |-> IF e \in S THEN NoChunk ELSE w.pos[e]]
           A == [e \in Entities |-> IF e \in S THEN NoChunk ELSE w.at[e]]
           O == [e \in Entities |-> IF e \in S THEN NoChunk ELSE w.home[e]]
           V == [e \in Entities |-> IF e \in S THEN {} ELSE w.views[e]]
           N == [m \in Mobs |-> IF m \in S THEN 0 ELSE w.seen[m]]
           T == [p \in Players |-> IF p \in S THEN {} ELSE w.told[p]]
           v == Freed(w, S)
<1>1. v = [w EXCEPT !.here = H, !.up = U, !.summoned = M, !.gone = G, !.pos = P,
                    !.at = A, !.home = O, !.views = V, !.seen = N, !.told = T]
  BY DEF Freed
<1> HIDE DEF H, U, M, G, P, A, O, V, N, T, v
<1>2. /\ v.live = w.live /\ v.up = U /\ v.pos = P /\ v.views = V /\ v.seen = N
      /\ v.told = T
  BY <1>1 DEF World
<1> QED
  BY <1>2 DEF Gone, U, P, V, N, T, v

\* It is enough that those who stay do not count those who leave any more.
LEMMA GoneCaches ==
  ASSUME NEW w, w \in World, NEW v, NEW S, Gone(v, w, S), ViewsFresh(w, S),
         \A m \in Mobs \ S : w.seen[m] = Cardinality(Watchers(w, m) \ S),
         \A p \in Players \ S, f \in Entities \ S :
           /\ Sees(w, p, f) => f \in w.told[p]
           /\ f \notin Mobs /\ f \in w.told[p] => Sees(w, p, f),
         \A p \in Players \ S, f \in S : f \notin Mobs => f \notin w.told[p]
  PROVE  Caches(v, {})
<1>0. Players \subseteq Entities /\ Mobs \subseteq Entities
  BY DEF Entities, NPCs
<1>1. \A e \in Entities : /\ e \in S => v.pos[e] = NoChunk /\ v.views[e] = {}
                          /\ e \notin S => v.pos[e] = w.pos[e] /\ v.views[e] = w.views[e]
  BY DEF Gone
<1>2. v.live = w.live
  BY DEF Gone
<1>3. ViewsFresh(v, {})
  BY <1>1, <1>2 DEF ViewsFresh, Viewable
<1>4. ASSUME NEW m \in Mobs PROVE v.seen[m] = Cardinality(Watchers(v, m))
  <2>1. CASE m \in S
    <3>1. v.pos[m] = NoChunk /\ v.seen[m] = 0
      BY <1>0, <1>1, <2>1 DEF Gone
    <3>2. Near(NoChunk) = {NoChunk}
      BY DEF Near
    <3>3. Watchers(v, m) = {}
      BY <3>1, <3>2 DEF Watchers
    <3> QED
      BY <3>1, <3>3, FS_EmptySet
  <2>2. CASE m \notin S
    <3>1. v.pos[m] = w.pos[m] /\ v.seen[m] = w.seen[m]
      BY <1>0, <1>1, <2>2 DEF Gone
    <3>2. Watchers(v, m) = Watchers(w, m) \ S
      BY <1>0, <1>1, <3>1 DEF Watchers
    <3> QED
      BY <2>2, <3>1, <3>2
  <2> QED
    BY <2>1, <2>2
<1>5. ASSUME NEW p \in Players, NEW f \in Entities
      PROVE  /\ Sees(v, p, f) => f \in v.told[p]
             /\ f \notin Mobs /\ f \in v.told[p] => Sees(v, p, f)
  <2>1. CASE p \in S
    BY <1>0, <1>1, <2>1 DEF Gone, Sees
  <2>2. CASE p \notin S /\ f \in S
    BY <1>0, <1>1, <2>2 DEF Gone, Sees
  <2>3. CASE p \notin S /\ f \notin S
    <3>1. v.told[p] = w.told[p]
      BY <2>3 DEF Gone
    <3>2. Sees(v, p, f) <=> Sees(w, p, f)
      BY <1>0, <1>1, <2>3 DEF Gone, Sees
    <3> QED
      BY <2>3, <3>1, <3>2
  <2> QED
    BY <2>1, <2>2, <2>3
<1> QED
  BY <1>3, <1>4, <1>5 DEF Caches, SeenFresh, ToldFresh

\* Nobody sees the chunks of an instance but those who are in it.
LEMMA CleanFresh ==
  ASSUME NEW w, Fresh(w), NEW i
  PROVE  Fresh(DestroyInstanceIfEmpty(w, i))
<1> DEFINE C == ChunksInMap(w, i)
           S == EntitiesIn(w, C)
           E == [c \in Pos |-> IF c \in C THEN {} ELSE w.ents[c]]
           N == [c \in Pos |-> IF c \in C THEN 0 ELSE w.nplayers[c]]
           L == w.live \ C
           u == [w EXCEPT !.live = L, !.ents = E, !.nplayers = N]
           v == DestroyInstanceIfEmpty(w, i)
<1>1. /\ Whole(v)
      /\ v = w \/ (i \in Private /\ Inside(w, i) \cap Players = {})
  BY DestroyInstanceEffect DEF Fresh
<1>2. CASE v = w
  BY <1>2
<1>3. CASE v # w
  <2>1. v = Freed(u, S)
    BY <1>3 DEF DestroyInstanceIfEmpty
  <2>2. /\ w \in World /\ Rooted(w) /\ Whole(w) /\ ViewsFresh(w, {}) /\ SeenFresh(w) /\ ToldFresh(w)
        /\ i # NoInst /\ InstOf(NoChunk) = NoInst
    BY <1>1, <1>3, InstancesAreKeyed DEF Fresh, Whole, Sound, Caches, InstOf, Insts
  <2>3. w.live \in SUBSET Pos /\ w.pos \in [Entities -> Pos]
    BY <2>2, Fields
  <2>4. ASSUME NEW f \in Entities
        PROVE  /\ f \in S <=> InstOf(w.pos[f]) = i
               /\ f \in S => f \notin Players
    <3>1. C \in SUBSET Pos
      BY <2>3 DEF ChunksInMap
    <3> HIDE DEF C
    <3>2. f \in S <=> w.pos[f] # NoChunk /\ w.pos[f] \in C
      BY <2>2, <3>1, WholeEntities
    <3>3. w.pos[f] # NoChunk => w.pos[f] \in w.live
      BY <2>2, WholeEntities
    <3>4. f \in S <=> InstOf(w.pos[f]) = i
      BY <2>2, <3>2, <3>3 DEF C, ChunksInMap
    <3>5. f \notin w.here => w.pos[f] = NoChunk
      BY <2>2 DEF Rooted
    <3> QED
      BY <1>1, <1>3, <2>2, <3>4, <3>5 DEF Inside
  <2>5. u \in World
    <3>1. E \in [Pos -> SUBSET Entities] /\ N \in [Pos -> Nat] /\ L \in SUBSET Pos
      BY <2>2, <2>3, Fields
    <3> HIDE DEF E, N, L
    <3> QED
      BY <2>2, <3>1 DEF World
  <2>6. /\ u.live = w.live \ C /\ u.pos = w.pos /\ u.views = w.views /\ u.up = w.up
        /\ u.seen = w.seen /\ u.told = w.told
    BY <2>2 DEF World
  <2> HIDE DEF S, u, v
  <2>7. ViewsFresh(u, S)
    <3> SUFFICES ASSUME NEW f \in Entities \ S
                 PROVE  u.views[f] = IF u.pos[f] = NoChunk THEN {} ELSE Viewable(u, u.pos[f])
      BY DEF ViewsFresh
    <3>1. w.views[f] = IF w.pos[f] = NoChunk THEN {} ELSE Near(w.pos[f]) \cap w.live
      BY <2>2 DEF ViewsFresh, Viewable
    <3>2. \A c \in C : c \notin Near(w.pos[f])
      <4> SUFFICES ASSUME NEW c \in C, c \in Near(w.pos[f]) PROVE FALSE
        OBVIOUS
      <4>1. c \in Pos /\ InstOf(c) = i /\ w.pos[f] \in Pos
        BY <2>3 DEF ChunksInMap
      <4>2. InstOf(c) = InstOf(w.pos[f])
        BY <4>1, NearFacts
      <4> QED
        BY <2>4, <4>1, <4>2
    <3>3. Viewable(u, w.pos[f]) = Near(w.pos[f]) \cap (w.live \ C)
      BY <2>6 DEF Viewable
    <3> HIDE DEF C
    <3> QED
      BY <2>6, <3>1, <3>2, <3>3
  <2>8. \A m \in Mobs : u.seen[m] = Cardinality(Watchers(u, m) \ S)
    <3> TAKE m \in Mobs
    <3>1. Watchers(u, m) \ S = Watchers(w, m)
      BY <2>4, <2>6 DEF Watchers, Entities
    <3> QED
      BY <2>2, <2>6, <3>1 DEF SeenFresh
  <2>9. \A p \in Players, f \in Entities :
          /\ Sees(u, p, f) => f \in u.told[p]
          /\ f \notin Mobs /\ f \in u.told[p] => Sees(u, p, f)
    BY <2>2, <2>6 DEF ToldFresh, Sees
  <2>10. ASSUME NEW p \in Players, NEW f \in S, f \notin Mobs PROVE f \notin u.told[p]
    <3> SUFFICES ASSUME f \in u.told[p] PROVE FALSE
      OBVIOUS
    <3>1. f \in Entities /\ p \in Entities
      BY <2>2, Fields DEF S, EntitiesIn, C, ChunksInMap, Entities
    <3>2. Sees(u, p, f)
      BY <2>9, <2>10, <3>1
    <3>3. w.pos[f] \in Near(w.pos[p]) /\ w.pos[f] \in Pos /\ w.pos[p] \in Pos
      BY <2>3, <2>6, <3>1, <3>2 DEF Sees
    <3>4. InstOf(w.pos[f]) = InstOf(w.pos[p])
      BY <3>3, NearFacts
    <3> QED
      BY <2>4, <3>1, <3>4
  <2>11. Gone(v, u, S)
    BY <2>1, <2>5, FreedShows
  <2>12. Caches(v, {})
    BY <2>5, <2>7, <2>8, <2>9, <2>10, <2>11, GoneCaches
  <2> QED
    BY <1>1, <2>12 DEF Fresh, v
<1> QED
  BY <1>2, <1>3

LEMMA SendFresh ==
  ASSUME NEW w, Fresh(w), NEW p \in w.here, NEW c \in Places
  PROVE  Fresh(SendPlayerTo(w, p, c))
BY WarpFresh, CleanFresh DEF SendPlayerTo

LEMMA MemberFresh ==
  ASSUME NEW w, Fresh(w), NEW party, NEW n, NEW c \in Places,
         \A k \in DOMAIN party : party[k] \in w.here \cap Players
  PROVE  LET v == SendMember(w, party, n, c)
         IN /\ Fresh(v)
            /\ \A k \in DOMAIN party : party[k] \in v.here \cap Players
<1>1. \A k \in DOMAIN party : party[k] \in SendMember(w, party, n, c).here \cap Players
  BY MemberEffect DEF Fresh
<1>2. CASE n \in DOMAIN party
  <2>1. party[n] \in w.here
    BY <1>2
  <2>2. Fresh(SendPlayerTo(w, party[n], c))
    BY <2>1, SendFresh
  <2> QED
    BY <1>1, <1>2, <2>2 DEF SendMember
<1>3. CASE n \notin DOMAIN party
  BY <1>1, <1>3 DEF SendMember
<1> QED
  BY <1>2, <1>3

\* The new instance is seen by nobody yet, its own NPCs excepted.
LEMMA CreateFresh ==
  ASSUME NEW w, Fresh(w), NEW i \in Private, NEW copy \in Copyings(w, i)
  PROVE  Fresh(CreateInstance(w, i, copy))
<1>1. CASE ChunksInMap(w, i) # {}
  BY <1>1 DEF CreateInstance
<1>2. CASE ChunksInMap(w, i) = {}
  <2> DEFINE Or == Originals(w, i)
             there(e) == <<w.at[e][1], i>>
             new == {copy[e] : e \in Or}
             orig(f) == CHOOSE e \in Or : copy[e] = f
             site(f) == there(orig(f))
             made == {there(e) : e \in Or}
             L == w.live \cup made
             E == [c \in Pos |-> IF c \in made THEN {f \in new : site(f) = c} ELSE w.ents[c]]
             H == w.here \cup new
             U == w.up \cup new
             P == [f \in Entities |-> IF f \in new THEN site(f) ELSE w.pos[f]]
             A == [f \in Entities |-> IF f \in new THEN site(f) ELSE w.at[f]]
             O == [f \in Entities |-> IF f \in new THEN site(f) ELSE w.home[f]]
             V == [f \in Entities |-> IF f \in new THEN Near(site(f)) \cap L ELSE w.views[f]]
             v == CreateInstance(w, i, copy)
  <2>1. v = [w EXCEPT !.live = L, !.ents = E, !.here = H, !.up = U, !.pos = P,
                      !.at = A, !.home = O, !.views = V]
    BY <1>2 DEF CreateInstance
  <2>2. /\ w \in World /\ Rooted(w) /\ Whole(w) /\ Whole(v)
        /\ ViewsFresh(w, {}) /\ SeenFresh(w) /\ ToldFresh(w) /\ Joined(v, w, i)
        /\ i \in Insts /\ i # NoInst /\ InstOf(NoChunk) = NoInst /\ NoChunk \notin Places
    BY CreateInstanceEffect, InstancesAreKeyed
       DEF Fresh, Whole, Sound, Caches, InstOf, Insts
  <2>3. w.live \in SUBSET Pos /\ w.here \in SUBSET Entities /\ w.pos \in [Entities -> Pos]
    BY <2>2, Fields
  <2>4. copy \in [Or -> Unused(w)]
    BY <1>2 DEF Copyings, Injection
  <2>5. \A f \in new : /\ f \in NPCs /\ f \in Entities /\ f \notin w.here /\ f \notin Players
                       /\ \A p \in Players : f \notin w.told[p]
    BY <2>4, KindsAreDisjoint DEF Unused, Entities
  <2>6. \A c \in made : InstOf(c) = i
    <3>1. \A e \in Or : there(e) # NoChunk
      <4> SUFFICES ASSUME NEW e \in Or PROVE there(e) \in Places
        BY <2>2
      <4>1. \E c \in Pos : c \in w.live /\ e \in w.ents[c]
        BY <2>3 DEF Originals, EntitiesIn, ChunksInMap
      <4>2. \E c \in Places : e \in w.ents[c]
        BY <4>1, <2>2 DEF Whole, Pos
      <4>3. e \in w.here
        BY <4>2, <2>2 DEF Whole, Sound, Listed
      <4>4. w.at[e] \in Places
        BY <4>3, <2>2 DEF Rooted
      <4> QED
        BY <4>4, <2>2, PosFacts
    <3> QED
      BY <3>1 DEF InstOf
  <2> HIDE DEF L, E, H, U, P, A, O, V, v
  <2>7. /\ v.live = L /\ v.up = U /\ v.pos = P /\ v.views = V
        /\ v.seen = w.seen /\ v.told = w.told
    BY <2>1, <2>2 DEF World
  <2>8. \A f \in Entities : /\ f \in new => v.pos[f] = site(f) /\ v.views[f] = Near(site(f)) \cap L
                            /\ f \notin new => v.pos[f] = w.pos[f] /\ v.views[f] = w.views[f]
    BY <2>7 DEF P, V
  <2> HIDE DEF site
  <2>9. \A f \in Entities : InstOf(w.pos[f]) # i
    <3> SUFFICES ASSUME NEW f \in Entities, InstOf(w.pos[f]) = i PROVE FALSE
      OBVIOUS
    <3>1. w.pos[f] # NoChunk
      BY <2>2
    <3>2. w.pos[f] \in w.live
      BY <2>2, <3>1, WholeEntities
    <3> QED
      BY <1>2, <3>2 DEF ChunksInMap
  <2>10. \A f \in new : v.pos[f] # NoChunk /\ InstOf(v.pos[f]) = i /\ w.pos[f] = NoChunk /\ f \in v.here
    <3> SUFFICES ASSUME NEW f \in new
                 PROVE  v.pos[f] # NoChunk /\ InstOf(v.pos[f]) = i /\ w.pos[f] = NoChunk /\ f \in v.here
      OBVIOUS
    <3>1. f \in v.here
      BY <2>1, <2>2 DEF World, H
    <3>2. f \in v.here \ w.here
      BY <2>5, <3>1
    <3>3. v.pos[f] # NoChunk /\ InstOf(v.pos[f]) = i
      BY <2>2, <3>2 DEF Joined
    <3>4. w.pos[f] = NoChunk
      BY <2>2, <2>5 DEF Rooted
    <3> QED
      BY <3>1, <3>3, <3>4
  <2> HIDE DEF new, made
  <2>11. ViewsFresh(v, {})
    <3> SUFFICES ASSUME NEW f \in Entities
                 PROVE  v.views[f] = IF v.pos[f] = NoChunk THEN {} ELSE Near(v.pos[f]) \cap L
      BY <2>7 DEF ViewsFresh, Viewable
    <3>1. CASE f \in new
      BY <2>8, <2>10, <3>1
    <3>2. CASE f \notin new
      <4>1. w.views[f] = IF w.pos[f] = NoChunk THEN {} ELSE Near(w.pos[f]) \cap w.live
        BY <2>2 DEF ViewsFresh, Viewable
      <4>2. \A c \in made : c \in Pos => c \notin Near(w.pos[f])
        <5>1. w.pos[f] \in Pos
          BY <2>3
        <5> QED
          BY <2>6, <2>9, <5>1, NearFacts
      <4>3. Near(w.pos[f]) \subseteq Pos
        BY <2>3, PosFacts
      <4>4. Near(w.pos[f]) \cap L = Near(w.pos[f]) \cap w.live
        BY <4>2, <4>3 DEF L
      <4> QED
        BY <2>8, <3>2, <4>1, <4>4
    <3> QED
      BY <3>1, <3>2
  <2>12. \A p \in Players : p \in Entities /\ p \notin new /\ v.pos[p] = w.pos[p]
    BY <2>5, <2>8 DEF Entities
  <2>13. ASSUME NEW f \in new, NEW p \in Players
         PROVE  v.pos[p] \notin Near(v.pos[f]) /\ v.pos[f] \notin Near(v.pos[p])
    <3>1. v.pos[f] \in Pos /\ v.pos[p] \in Pos
      <4>1. v.pos \in [Entities -> Pos]
        BY <2>2, Fields DEF Whole, Sound
      <4> QED
        BY <2>5, <2>12, <4>1
    <3>2. InstOf(v.pos[f]) = i /\ InstOf(v.pos[p]) # i
      BY <2>9, <2>10, <2>12
    <3> QED
      BY <3>1, <3>2, NearFacts
  <2>14. ASSUME NEW m \in Mobs PROVE v.seen[m] = Cardinality(Watchers(v, m))
    <3>0. m \in Entities /\ v.seen[m] = Cardinality(Watchers(w, m))
      BY <2>2, <2>7 DEF SeenFresh, Entities, NPCs
    <3>1. CASE m \in new
      <4>1. w.pos[m] = NoChunk
        BY <2>10, <3>1
      <4>2. Near(NoChunk) = {NoChunk}
        BY DEF Near
      <4>3. Watchers(w, m) = {}
        BY <4>1, <4>2 DEF Watchers
      <4>4. Watchers(v, m) = {}
        BY <2>13, <3>1 DEF Watchers
      <4> QED
        BY <3>0, <4>3, <4>4
    <3>2. CASE m \notin new
      <4>1. v.pos[m] = w.pos[m]
        BY <2>8, <3>0, <3>2
      <4>2. Watchers(v, m) = Watchers(w, m)
        BY <2>12, <4>1 DEF Watchers
      <4> QED
        BY <3>0, <4>2
    <3> QED
      BY <3>1, <3>2
  <2>15. ASSUME NEW p \in Players, NEW f \in Entities
         PROVE  /\ Sees(v, p, f) => f \in v.told[p]
                /\ f \notin Mobs /\ f \in v.told[p] => Sees(v, p, f)
    <3>1. CASE f \in new
      <4>1. f \notin v.told[p]
        BY <2>5, <2>7, <3>1
      <4>2. ~Sees(v, p, f)
        BY <2>13, <3>1 DEF Sees
      <4> QED
        BY <4>1, <4>2
    <3>2. CASE f \notin new
      <4>1. v.pos[f] = w.pos[f] /\ (f \in v.up <=> f \in w.up)
        BY <2>7, <2>8, <3>2 DEF U
      <4>2. Sees(v, p, f) <=> Sees(w, p, f)
        BY <2>12, <4>1 DEF Sees
      <4> QED
        BY <2>2, <2>7, <4>2 DEF ToldFresh
    <3> QED
      BY <3>1, <3>2
  <2>16. Caches(v, {})
    BY <2>11, <2>14, <2>15 DEF Caches, SeenFresh, ToldFresh
  <2> QED
    BY <2>2, <2>16 DEF Fresh, v
<1> QED
  BY <1>1, <1>2

LEMMA WarpIntoInstanceFresh ==
  ASSUME Fresh(world), NEW party \in Parties(world), NEW i \in Private,
         NEW x \in Cells, NEW copy \in Copyings(world, i),
         WarpIntoInstance(party, i, x, copy)
  PROVE  Fresh(world')
<1> DEFINE c == <<x, i>>
           w0 == CreateInstance(world, i, copy)
           w1 == SendMember(w0, party, 1, c)
           w2 == SendMember(w1, party, 2, c)
           w3 == SendMember(w2, party, 3, c)
           w4 == SendMember(w3, party, 4, c)
           In(w) == \A k \in DOMAIN party : party[k] \in w.here \cap Players
<1>1. c \in Places
  BY PosFacts DEF Insts
<1>2. In(world)
  BY DEF Parties
<1>3. Fresh(w0) /\ w0.here \cap Players = world.here \cap Players
  BY CreateFresh, CreateInstanceEffect DEF Fresh
<1>4. world' = w4
  BY DEF WarpIntoInstance
<1> HIDE DEF c, w0
<1>5. Fresh(w0) /\ In(w0)
  BY <1>2, <1>3
<1>6. Fresh(w1) /\ In(w1)
  BY <1>1, <1>5, MemberFresh
<1> HIDE DEF w1
<1>7. Fresh(w2) /\ In(w2)
  BY <1>1, <1>6, MemberFresh
<1> HIDE DEF w2
<1>8. Fresh(w3) /\ In(w3)
  BY <1>1, <1>7, MemberFresh
<1> HIDE DEF w3
<1>9. Fresh(w4)
  BY <1>1, <1>8, MemberFresh
<1> QED
  BY <1>4, <1>9

\* destroyNPC() tells the players around the chunk that the NPC has left.
LEMMA DestroyNPCFresh ==
  ASSUME NEW w, Fresh(w), NEW e \in w.here, e \in NPCs
  PROVE  Fresh(DestroyNPC(w, e))
<1> DEFINE c == w.pos[e]
           v == UntrackEntity(w, c, e)
           h == RemoveEntityFromChunks(v, Viewable(v, c), e)
<1>1. CASE c \notin w.live
  BY <1>1 DEF DestroyNPC
<1>2. CASE c \in w.live
  <2>1. /\ Whole(w) /\ w \in World /\ Rooted(w) /\ Listed(w) /\ Populated(w) /\ Counted(w)
        /\ w.ents[NoChunk] = {} /\ ViewsFresh(w, {e}) /\ SeenFresh(w) /\ ToldFresh(w)
        /\ Others(w, e)
    BY WholeOthers DEF Fresh, Whole, Sound, Caches, ViewsFresh
  <2>2. e \in Entities /\ c \in Pos /\ e \notin Players /\ w.pos \in [Entities -> Pos]
    <3>1. e \in Entities /\ w.pos \in [Entities -> Pos]
      BY <2>1, Fields
    <3> QED
      BY <3>1, KindsAreDisjoint
  <2>3. e \in w.ents[c] \/ w.ents[c] = {}
    BY <2>1, <2>2 DEF Listed, Pos
  <2>4. /\ v \in World /\ Frame(v, w) /\ v.ents = [w.ents EXCEPT ![c] = @ \ {e}]
        /\ Populated(v)
    BY <2>1, <2>2, <2>3, UntrackEffect
  <2>5. ViewsFresh(v, {e}) /\ Untold(v, w)
    BY <2>1, <2>2, <2>3, UntrackViews
  <2> HIDE DEF v
  <2>6. Others(v, e)
    <3>1. w.ents \in [Pos -> SUBSET Entities]
      BY <2>1, Fields
    <3>2. \A d \in Pos, f \in Entities \ {e} : f \in v.ents[d] <=> f \in w.ents[d]
      BY <2>2, <2>4, <3>1
    <3>3. v.pos = w.pos /\ \A d \in Pos : \A f \in v.ents[d] : d \in v.live
      BY <2>4 DEF Frame, Populated
    <3> QED
      BY <2>1, <3>2, <3>3 DEF Others
  <2>7. Viewable(v, c) \in SUBSET Pos /\ IsFiniteSet(Viewable(v, c))
    BY <2>2, <2>4, ViewableFinite
  <2>8. h \in World /\ Frame(h, v) /\ h.live = v.live
    BY <2>2, <2>4, <2>7, HideEffect
  <2>9. Hides(h, v, Viewable(v, c), e)
    BY <2>2, <2>4, <2>7, HideShows
  <2> HIDE DEF h
  <2>10. /\ h.pos = w.pos /\ h.up = w.up /\ h.views = v.views /\ v.told = w.told
         /\ v.seen = w.seen /\ v.pos = w.pos
    BY <2>4, <2>5, <2>8, <2>9 DEF Frame, Hides, Untold
  <2>11. ViewsFresh(h, {e})
    BY <2>5, <2>8, <2>10 DEF ViewsFresh, Viewable
  <2>12. \A m \in Mobs \ {e} : h.seen[m] = Cardinality(Watchers(h, m) \ {e})
    <3> TAKE m \in Mobs \ {e}
    <3>1. Sightings(v, Viewable(v, c), e, m) = 0
      BY <2>2 DEF Sightings
    <3>2. h.seen[m] = w.seen[m] - 0
      BY <2>9, <2>10, <3>1 DEF Hides
    <3>3. w.seen[m] \in Int
      BY <2>1 DEF World
    <3>4. h.seen[m] = w.seen[m]
      BY ONLY <3>2, <3>3
    <3>5. Watchers(h, m) \ {e} = Watchers(w, m)
      BY <2>2, <2>10 DEF Watchers
    <3>6. w.seen[m] = Cardinality(Watchers(w, m))
      BY <2>1 DEF SeenFresh
    <3> QED
      BY <3>4, <3>5, <3>6
  <2>13. \A p \in Players : h.told[p] =
           IF p \in EntitiesIn(v, Viewable(v, c)) /\ e \in w.up THEN w.told[p] \ {e} ELSE w.told[p]
    BY <2>2, <2>5, <2>9, <2>10 DEF Hides, Untold
  <2>14. \A p \in Players \ {e}, f \in Entities \ {e} :
           /\ Sees(h, p, f) => f \in h.told[p]
           /\ f \notin Mobs /\ f \in h.told[p] => Sees(h, p, f)
    BY <2>1, <2>10, <2>13 DEF ToldFresh, Sees
  <2>15. ASSUME NEW p \in Players \ {e}, e \notin Mobs PROVE e \notin h.told[p]
    <3>1. p \in Entities \ {e}
      BY DEF Entities
    <3>2. p \in EntitiesIn(v, Viewable(v, c)) <=> w.pos[p] # NoChunk /\ w.pos[p] \in Near(c)
      <4>1. p \in EntitiesIn(v, Viewable(v, c)) <=> v.pos[p] # NoChunk /\ v.pos[p] \in Near(c)
        BY <2>2, <2>4, <2>6, <3>1, ViewableAre
      <4> QED
        BY <2>10, <4>1
    <3>3. e \in w.told[p] => Sees(w, p, e)
      BY <2>1, <2>2, <2>15 DEF ToldFresh
    <3>4. w.pos[p] \in Pos
      BY <2>2, <3>1
    <3>5. c \in Near(w.pos[p]) <=> w.pos[p] \in Near(c)
      BY <2>2, <3>4, NearFacts
    <3> QED
      BY <2>13, <3>2, <3>3, <3>5 DEF Sees
  <2>16. Gone(Freed(h, {e}), h, {e})
    BY <2>8, FreedShows
  <2>17. Caches(Freed(h, {e}), {})
    BY <2>8, <2>11, <2>12, <2>14, <2>15, <2>16, GoneCaches
  <2>18. DestroyNPC(w, e) = Freed(h, {e})
    BY <1>2 DEF DestroyNPC, h, v
  <2>19. Whole(DestroyNPC(w, e))
    BY <2>1, DestroyNPCWhole
  <2> QED
    BY <2>17, <2>18, <2>19 DEF Fresh
<1> QED
  BY <1>1, <1>2

\* removePlayer() tells everybody before the player leaves its chunk.
LEMMA RemovePlayerFresh ==
  ASSUME Fresh(world), NEW p \in Players, RemovePlayer(p)
  PROVE  Fresh(world')
<1> DEFINE w == world
           c == w.pos[p]
           C == Viewable(w, c)
           h == RemoveEntityFromChunks(w, C, p)
           u == UntrackEntity(h, c, p)
<1>1. /\ Whole(w) /\ w \in World /\ Rooted(w) /\ Listed(w) /\ Populated(w) /\ Counted(w)
      /\ w.ents[NoChunk] = {} /\ ViewsFresh(w, {p}) /\ SeenFresh(w) /\ ToldFresh(w)
      /\ Others(w, p) /\ p \in w.here
  BY WholeOthers DEF Fresh, Whole, Sound, Caches, ViewsFresh, RemovePlayer
<1>2. p \in Entities /\ c \in Pos /\ w.pos \in [Entities -> Pos] /\ p \notin Mobs
  BY <1>1, Fields, KindsAreDisjoint DEF NPCs
<1>3. world' = DestroyInstanceIfEmpty(Freed(u, {p}), InstOf(w.at[p]))
  BY DEF RemovePlayer
<1>4. C \in SUBSET Pos /\ IsFiniteSet(C)
  BY <1>1, <1>2, ViewableFinite
<1> HIDE DEF w, c
<1>5. /\ h \in World /\ Frame(h, w)
      /\ h.ents = w.ents /\ h.live = w.live /\ h.nplayers = w.nplayers
  BY <1>1, <1>2, <1>4, HideEffect
<1>6. Hides(h, w, C, p)
  BY <1>1, <1>2, <1>4, HideShows
<1> HIDE DEF h
<1>7. h.pos = w.pos /\ h.up = w.up /\ h.views = w.views
  BY <1>5, <1>6 DEF Frame, Hides
<1>8. /\ Populated(h) /\ Counted(h) /\ Others(h, p) /\ ViewsFresh(h, {p})
      /\ p \in h.ents[c] \/ h.ents[c] = {}
  <2>1. Populated(h) /\ Counted(h)
    BY <1>1, <1>5 DEF Populated, Counted
  <2>2. Others(h, p)
    BY <1>1, <1>5, <1>7 DEF Others
  <2>3. ViewsFresh(h, {p})
    BY <1>1, <1>5, <1>7 DEF ViewsFresh, Viewable
  <2>4. p \in h.ents[c] \/ h.ents[c] = {}
    BY <1>1, <1>2, <1>5 DEF Listed, Pos, c
  <2> QED
    BY <2>1, <2>2, <2>3, <2>4
<1>9. u \in World /\ Frame(u, h)
  BY <1>2, <1>5, <1>8, UntrackEffect
<1>10. ViewsFresh(u, {p}) /\ Untold(u, h)
  BY <1>2, <1>5, <1>8, UntrackViews
<1> HIDE DEF u
<1>11. u.pos = w.pos /\ u.up = w.up /\ u.seen = h.seen /\ u.told = h.told
  BY <1>7, <1>9, <1>10 DEF Frame, Untold
<1>12. ASSUME NEW f \in Entities \ {p}
       PROVE  /\ f \in EntitiesIn(w, C) <=> w.pos[f] # NoChunk /\ w.pos[f] \in Near(c)
              /\ w.pos[f] # NoChunk => (w.pos[f] \in C <=> w.pos[f] \in Near(c))
              /\ w.pos[f] # NoChunk /\ w.pos[f] \in Near(c) <=> c # NoChunk /\ c \in Near(w.pos[f])
  <2>1. /\ f \in EntitiesIn(w, C) <=> w.pos[f] # NoChunk /\ w.pos[f] \in Near(c)
        /\ w.pos[f] # NoChunk => w.pos[f] \in w.live
    BY <1>1, <1>2, ViewableAre
  <2>2. w.pos[f] \in Pos
    BY <1>2
  <2>3. w.pos[f] # NoChunk /\ w.pos[f] \in Near(c) <=> c # NoChunk /\ c \in Near(w.pos[f])
    BY <1>2, <2>2, NearFacts, PosFacts
  <2> QED
    BY <2>1, <2>3 DEF Viewable
<1>13. \A m \in Mobs \ {p} : u.seen[m] = Cardinality(Watchers(u, m) \ {p})
  <2> SUFFICES ASSUME NEW m \in Mobs PROVE u.seen[m] = Cardinality(Watchers(u, m) \ {p})
    OBVIOUS
  <2>1. m # p /\ m \in Entities \ {p}
    BY <1>2 DEF Entities, NPCs
  <2>2. Sightings(w, C, p, m) = IF w.pos[m] # NoChunk /\ w.pos[m] \in C THEN 1 ELSE 0
    <3> HIDE DEF C
    <3>1. w \in World /\ p \in Entities /\ Others(w, p) /\ C \in SUBSET Pos
      BY <1>1, <1>2, <1>4
    <3>2. m # p => Sightings(w, C, p, m) =
            IF p \in Players /\ w.pos[m] # NoChunk /\ w.pos[m] \in C THEN 1 ELSE 0
      BY ONLY <3>1, m \in Mobs, SightingsAre
    <3> QED
      BY <2>1, <3>2
  <2>3. p \in Watchers(w, m) <=> w.pos[m] # NoChunk /\ w.pos[m] \in C
    BY <1>12, <2>1 DEF Watchers, c
  <2>4. Watchers(u, m) = Watchers(w, m)
    BY <1>11 DEF Watchers
  <2>5. IsFiniteSet(Watchers(w, m))
    BY FS_Subset, KindsAreDisjoint DEF Watchers
  <2>6. Cardinality(Watchers(w, m) \ {p})
          = IF p \in Watchers(w, m) THEN Cardinality(Watchers(w, m)) - 1
            ELSE Cardinality(Watchers(w, m))
    BY <2>5, FS_RemoveElement
  <2>7. u.seen[m] = Cardinality(Watchers(w, m)) - Sightings(w, C, p, m)
    BY <1>1, <1>6, <1>11 DEF Hides, SeenFresh
  <2>8. Cardinality(Watchers(w, m)) \in Nat
    BY <2>5, FS_CardinalityType
  <2> HIDE DEF C
  <2> QED
    BY <2>2, <2>3, <2>4, <2>6, <2>7, <2>8
<1>14. \A q \in Players \ {p} : u.told[q] =
         IF q \in EntitiesIn(w, C) /\ p \in w.up THEN w.told[q] \ {p} ELSE w.told[q]
  BY <1>6, <1>11 DEF Hides
<1>15. \A q \in Players \ {p}, f \in Entities \ {p} :
         /\ Sees(u, q, f) => f \in u.told[q]
         /\ f \notin Mobs /\ f \in u.told[q] => Sees(u, q, f)
  <2> HIDE DEF C
  <2> QED
    BY <1>1, <1>11, <1>14 DEF ToldFresh, Sees
<1>16. \A q \in Players \ {p} : p \notin u.told[q]
  <2> TAKE q \in Players \ {p}
  <2>1. q \in Entities \ {p}
    BY DEF Entities
  <2>2. p \in w.told[q] => Sees(w, q, p)
    BY <1>1, <1>2 DEF ToldFresh
  <2>3. Sees(w, q, p) => q \in EntitiesIn(w, C) /\ p \in w.up
    BY <1>12, <2>1 DEF Sees, c
  <2> QED
    BY <1>14, <2>2, <2>3
<1>17. Gone(Freed(u, {p}), u, {p})
  BY <1>9, FreedShows
<1>18. Caches(Freed(u, {p}), {})
  BY <1>9, <1>10, <1>13, <1>15, <1>16, <1>17, GoneCaches
<1>19. Whole(Freed(u, {p}))
  <2>1. /\ u.ents = [h.ents EXCEPT ![c] = @ \ {p}] /\ Populated(u) /\ Counted(u)
    BY <1>2, <1>5, <1>8, UntrackEffect DEF u
  <2>2. Rooted(u)
    BY <1>1, <1>5, <1>9 DEF Rooted, Frame
  <2>3. /\ u.ents[NoChunk] = {}
        /\ \A d \in Places : u.ents[d] = {f \in u.here \ {p} : u.pos[f] = d}
    <3>1. w.ents \in [Pos -> SUBSET Entities] /\ Pos = Places \cup {NoChunk} /\ NoChunk \in Pos
      BY <1>1, Fields, PosFacts DEF Pos
    <3> QED
      BY <1>1, <1>2, <1>5, <1>9, <2>1, <3>1 DEF Listed, Frame, c
  <2>4. {p} \in SUBSET Entities
    BY <1>2
  <2> QED
    BY <1>9, <2>1, <2>2, <2>3, <2>4, FreedEffect
<1> QED
  BY <1>3, <1>18, <1>19, CleanFresh DEF Fresh

-----------------------------------------------------------------------------
(* The other handlers.                                                     *)

\* Handlers that move nobody, though they tell clients.
SamePlaces(v, w) ==
  v.pos = w.pos /\ v.live = w.live /\ v.views = w.views /\ v.seen = w.seen

LEMMA ToldCaches ==
  ASSUME NEW w, Caches(w, {}), NEW v, SamePlaces(v, w), ToldFresh(v)
  PROVE  Caches(v, {})
BY DEF Caches, SamePlaces, ViewsFresh, SeenFresh, Watchers, Viewable

\* Who is in no chunk may come to life there.
LEMMA AliveCaches ==
  ASSUME NEW w, Caches(w, {}), NEW e, w.pos[e] = NoChunk,
         NEW v, SamePlaces(v, w), v.told = w.told, v.up = w.up \cup {e}
  PROVE  Caches(v, {})
<1>1. \A p, f : Sees(v, p, f) <=> Sees(w, p, f)
  BY DEF Sees, SamePlaces
<1>2. ToldFresh(v)
  BY <1>1 DEF Caches, ToldFresh
<1> QED
  BY <1>2, ToldCaches

\* What happens to a dead mob is of no concern to the clients.
LEMMA CorpseCaches ==
  ASSUME NEW w, Caches(w, {}), NEW m \in Mobs, NEW v, SamePlaces(v, w),
         m \notin v.up, v.up \cup {m} = w.up \cup {m},
         \A p \in Players : v.told[p] \cup {m} = w.told[p] \cup {m}
  PROVE  Caches(v, {})
<1>1. \A p, f : f # m => (Sees(v, p, f) <=> Sees(w, p, f))
  BY DEF Sees, SamePlaces
<1>2. \A p : ~Sees(v, p, m)
  BY DEF Sees
<1>3. ToldFresh(v)
  BY <1>1, <1>2 DEF Caches, ToldFresh
<1> QED
  BY <1>3, ToldCaches

LEMMA InitFresh == Init => Fresh(world)
<1> SUFFICES ASSUME Init PROVE Caches(world, {})
  BY InitWhole DEF Fresh
<1> DEFINE live == {Spawn[e] : e \in DOMAIN Spawn}
           E == [c \in Pos |-> {e \in DOMAIN Spawn : Spawn[e] = c}]
           N == [c \in Pos |-> 0]
           pos == [e \in Entities |-> IF e \in DOMAIN Spawn THEN Spawn[e] ELSE NoChunk]
           V == [e \in Entities |-> IF e \in DOMAIN Spawn THEN Near(Spawn[e]) \cap live ELSE {}]
           S == [m \in Mobs |-> 0]
           T == [p \in Players |-> {}]
<1>1. world = [live |-> live, ents |-> E, nplayers |-> N, here |-> DOMAIN Spawn,
               pos |-> pos, views |-> V, at |-> pos, home |-> pos,
               up |-> DOMAIN Spawn, seen |-> S, summoned |-> {}, gone |-> {}, told |-> T]
  BY DEF Init
<1>2. /\ DOMAIN Spawn \cap Players = {} /\ NoChunk \notin Places
      /\ \A e \in DOMAIN Spawn : Spawn[e] \in Places
  BY SpawnsAreNPCs, KindsAreDisjoint, PosFacts DEF Places, Insts
<1> HIDE DEF live, E, N, pos, V, S, T
<1>3. world.live = live /\ world.pos = pos /\ world.views = V /\ world.seen = S /\ world.told = T
  BY <1>1
<1>4. ViewsFresh(world, {})
  BY <1>2, <1>3 DEF ViewsFresh, Viewable, pos, V
<1>5. \A p \in Players : world.pos[p] = NoChunk
  BY <1>2, <1>3 DEF pos, Entities
<1>6. SeenFresh(world)
  <2> SUFFICES ASSUME NEW m \in Mobs PROVE world.seen[m] = Cardinality(Watchers(world, m))
    BY DEF SeenFresh
  <2>1. Watchers(world, m) = {}
    BY <1>5 DEF Watchers
  <2> QED
    BY <1>3, <2>1, FS_EmptySet DEF S
<1>7. ToldFresh(world)
  BY <1>3, <1>5 DEF ToldFresh, Sees, T
<1> QED
  BY <1>4, <1>6, <1>7 DEF Caches

LEMMA EnterPlayerFresh ==
  ASSUME Fresh(world), NEW p \in Players, NEW x \in Cells, EnterPlayer(p, x)
  PROVE  Fresh(world')
<1>1. /\ Whole(world) /\ world \in World /\ Caches(world, {}) /\ p \in Entities
      /\ p \notin world.here /\ world.pos[p] = NoChunk /\ world.pos \in [Entities -> Pos]
  <2>1. world \in World /\ p \in Entities /\ p \notin world.here
    BY DEF Fresh, Whole, Sound, EnterPlayer, Entities
  <2>2. world.pos \in [Entities -> Pos]
    BY <2>1, Fields
  <2> QED
    BY <2>1, <2>2 DEF Fresh, Whole, Sound, Rooted
<1>2. Whole(world') /\ world'.pos = world.pos
  <2>1. Whole(world') /\ world'.pos = [world.pos EXCEPT ![p] = NoChunk]
    BY <1>1, EnterPlayerWhole
  <2> QED
    BY <1>1, <2>1
<1> DEFINE A == [world.at EXCEPT ![p] = <<x, Overworld>>]
           P == [world.pos EXCEPT ![p] = NoChunk]
<1>3. world' = [world EXCEPT !.here = @ \cup {p}, !.up = @ \cup {p}, !.at = A, !.pos = P]
  BY DEF EnterPlayer
<1> HIDE DEF A, P
<1>4. /\ world'.live = world.live /\ world'.views = world.views /\ world'.seen = world.seen
      /\ world'.told = world.told /\ world'.up = world.up \cup {p}
  BY <1>1, <1>3 DEF World
<1>5. Caches(world', {})
  BY <1>1, <1>2, <1>4, AliveCaches DEF SamePlaces
<1> QED
  BY <1>2, <1>5 DEF Fresh

LEMMA SummonNPCFresh ==
  ASSUME Fresh(world), NEW e \in Summonable, NEW p \in Players, NEW r \in BOOLEAN,
         SummonNPC(e, p, r)
  PROVE  Fresh(world')
<1> DEFINE H == world.here \cup {e}
           U == world.up \cup {e}
           O == [world.home EXCEPT ![e] = world.at[p]]
           M == IF r THEN world.summoned ELSE world.summoned \cup {e}
           v == [world EXCEPT !.here = @ \cup {e}, !.up = @ \cup {e},
                              !.home[e] = world.at[p],
                              !.summoned = IF r THEN @ ELSE @ \cup {e}]
           c == world.at[p]
<1>1. /\ world \in World /\ Rooted(world) /\ Listed(world) /\ Populated(world)
      /\ Counted(world) /\ world.ents[NoChunk] = {} /\ Caches(world, {})
      /\ e \in NPCs /\ e \in Entities /\ e \notin world.here /\ p \in world.here
      /\ NoChunk \in Pos /\ NoChunk \notin Places /\ Places \subseteq Pos
  BY PosFacts, SpawnsAreNPCs DEF Fresh, Whole, Sound, SummonNPC, Unused, Entities, NPCs
<1>2. c \in Places /\ world.pos[e] = NoChunk
  BY <1>1 DEF Rooted
<1>3. /\ H \in SUBSET Entities /\ U \in SUBSET Entities /\ M \in SUBSET NPCs
      /\ O \in [Entities -> Pos]
  BY <1>1, <1>2 DEF World
<1>4. v = [world EXCEPT !.here = H, !.up = U, !.home = O, !.summoned = M]
  OBVIOUS
<1>5. /\ \A f \in H \cap Mobs : O[f] \in Places
      /\ \A f \in H \ {e} : world.at[f] \in Places
      /\ \A f \in Entities \ H : world.pos[f] = NoChunk
  BY <1>1, <1>2, Fields DEF Rooted
<1>6. \A d \in Places : {f \in H : world.pos[f] = d} = {f \in world.here : world.pos[f] = d}
  BY <1>1 DEF Rooted
<1>7. world' = UpdatePlayerPosition(v, e, c)
  BY PositionsAgree DEF SummonNPC
<1>8. e \in H
  OBVIOUS
<1> HIDE DEF H, U, O, M, v, c
<1>9. /\ v \in World /\ v.here = H /\ v.home = O /\ v.at = world.at /\ v.pos = world.pos
      /\ v.ents = world.ents /\ v.live = world.live /\ v.nplayers = world.nplayers
  BY <1>1, <1>3, <1>4 DEF World
<1>10. /\ v.views = world.views /\ v.seen = world.seen /\ v.told = world.told /\ v.up = U
  BY <1>1, <1>4 DEF World
<1>11. Listed(v)
  BY <1>1, <1>6, <1>9 DEF Listed
<1>12. Populated(v) /\ Counted(v) /\ Passing(v, e)
  BY <1>1, <1>9 DEF Populated, Counted, Passing
<1>13. /\ e \in v.here
       /\ \A f \in v.here \ {e} : v.at[f] \in Places
       /\ \A f \in v.here \cap Mobs : v.home[f] \in Places
       /\ \A f \in Entities \ v.here : v.pos[f] = NoChunk
  BY <1>5, <1>8, <1>9
<1>14. Caches(v, {}) /\ Caches(v, {e})
  <2>1. SamePlaces(v, world)
    BY <1>9, <1>10 DEF SamePlaces
  <2>2. Caches(v, {})
    BY <1>1, <1>2, <1>10, <2>1, AliveCaches DEF U
  <2> QED
    BY <2>2, CachesButOne
<1>15. Caches(UpdatePlayerPosition(v, e, c), {})
  BY <1>2, <1>9, <1>11, <1>12, <1>13, <1>14, MoveCaches
<1>16. Whole(world')
  BY SummonNPCWhole DEF Fresh
<1> QED
  BY <1>7, <1>15, <1>16 DEF Fresh

LEMMA KillMobFresh ==
  ASSUME Fresh(world), NEW m \in Mobs, KillMob(m)
  PROVE  Fresh(world')
<1> DEFINE U == world.up \ {m}
           G == world.gone \ {m}
<1>1. world \in World /\ Whole(world) /\ Caches(world, {})
  BY DEF Fresh, Whole, Sound
<1>2. world' = [world EXCEPT !.up = U, !.gone = G]
  BY DEF KillMob
<1> HIDE DEF U, G
<1>3. SamePlaces(world', world) /\ world'.up = U /\ world'.told = world.told
  BY <1>1, <1>2 DEF World, SamePlaces
<1>4. m \notin U /\ U \cup {m} = world.up \cup {m}
  BY DEF U
<1>5. Caches(world', {})
  BY <1>1, <1>3, <1>4, CorpseCaches
<1>6. Whole(world')
  BY <1>1, KillMobWhole
<1> QED
  BY <1>5, <1>6 DEF Fresh

LEMMA RetreatMobFresh ==
  ASSUME Fresh(world), NEW m \in Mobs, NEW x \in Cells, RetreatMob(m, x)
  PROVE  Fresh(world')
<1> DEFINE A == [world.at EXCEPT ![m] = <<x, InstOf(@)>>]
<1>1. world \in World /\ Whole(world) /\ Caches(world, {})
  BY DEF Fresh, Whole, Sound
<1>2. world' = [world EXCEPT !.at = A]
  BY DEF RetreatMob
<1> HIDE DEF A
<1>3. SameView(world', world)
  BY <1>1, <1>2 DEF World, SameView
<1>4. Whole(world')
  BY <1>1, RetreatMobWhole
<1> QED
  BY <1>1, <1>3, <1>4, SameCaches DEF Fresh

LEMMA DespawnMobFresh ==
  ASSUME Fresh(world), NEW m \in Mobs, DespawnMob(m)
  PROVE  Fresh(world')
<1> DEFINE G == world.gone \cup {m}
           T == [p \in Players |->
                   IF p \in Audience(world, m) THEN world.told[p] \ {m} ELSE world.told[p]]
           v == [world EXCEPT
                   !.gone = @ \cup {m},
                   !.told = [p \in Players |->
                     IF p \in Audience(world, m) THEN @[p] \ {m} ELSE @[p]]]
           A == [v.at EXCEPT ![m] = world.home[m]]
           u == [v EXCEPT !.at[m] = world.home[m]]
<1>1. /\ world \in World /\ Whole(world) /\ Caches(world, {})
      /\ m \in world.here /\ m \notin world.up /\ m \in NPCs
  BY DEF Fresh, Whole, Sound, DespawnMob, NPCs
<1>2. G \in SUBSET Mobs /\ T \in [Players -> SUBSET Entities]
  BY <1>1 DEF World
<1>3. v = [world EXCEPT !.gone = G, !.told = T]
  OBVIOUS
<1>4. world' = IF m \in world.summoned THEN DestroyNPC(v, m) ELSE u
  BY DEF DespawnMob
<1>5. u = [v EXCEPT !.at = A]
  OBVIOUS
<1>6. \A p \in Players : T[p] \cup {m} = world.told[p] \cup {m}
  OBVIOUS
<1> HIDE DEF G, T, v
<1>7. /\ v \in World /\ Frame(v, world) /\ v.ents = world.ents
      /\ v.live = world.live /\ v.nplayers = world.nplayers
  BY <1>1, <1>2, <1>3 DEF World, Frame
<1>8. SamePlaces(v, world) /\ v.up = world.up /\ v.told = T
  BY <1>1, <1>3 DEF World, SamePlaces
<1>9. Caches(v, {})
  BY <1>1, <1>6, <1>8, CorpseCaches
<1>10. Whole(v)
  BY <1>1, <1>7, SameIndex
<1>11. m \in v.here /\ Fresh(v)
  BY <1>1, <1>7, <1>9, <1>10 DEF Frame, Fresh
<1>12. Fresh(DestroyNPC(v, m))
  BY <1>1, <1>11, DestroyNPCFresh
<1> HIDE DEF A, u
<1>13. Caches(u, {})
  <2>1. SameView(u, v)
    BY <1>5, <1>7 DEF World, SameView
  <2> QED
    BY <1>9, <2>1, SameCaches
<1>14. Whole(world')
  BY <1>1, DespawnMobWhole
<1> QED
  BY <1>4, <1>12, <1>13, <1>14 DEF Fresh

\* The cached view leads to all who see the mob come back.
LEMMA RespawnMobFresh ==
  ASSUME Fresh(world), NEW m \in Mobs, NEW l \in Mobs, RespawnMob(m, l)
  PROVE  Fresh(world')
<1> DEFINE U == world.up \cup {m}
           G == world.gone \ {m}
           A == [world.at EXCEPT ![m] = world.at[l]]
           T == [p \in Players |->
                   IF p \in Audience(world, m) THEN world.told[p] \cup {m} ELSE world.told[p]]
<1>1. /\ world \in World /\ Whole(world) /\ Caches(world, {})
      /\ ViewsFresh(world, {}) /\ ToldFresh(world) /\ m \in Entities
  BY DEF Fresh, Whole, Sound, Caches, Entities, NPCs
<1>2. world' = [world EXCEPT !.up = U, !.gone = G, !.at = A, !.told = T]
  BY DEF RespawnMob
<1> HIDE DEF U, G, A, T
<1>3. SamePlaces(world', world) /\ world'.up = U /\ world'.told = T
  BY <1>1, <1>2 DEF World, SamePlaces
<1>4. ASSUME NEW p \in Players, world.pos[p] # NoChunk, world.pos[m] # NoChunk,
             world.pos[m] \in Near(world.pos[p])
      PROVE  p \in Audience(world, m)
  <2>1. p \in Entities /\ world.pos[p] \in Pos /\ world.pos[m] \in Pos
    <3>1. p \in Entities
      BY DEF Entities
    <3> QED
      BY <1>1, <3>1, Fields
  <2>2. world.views[m] = Viewable(world, world.pos[m])
    BY <1>1, <1>4 DEF ViewsFresh
  <2>3. world.pos[p] \in Near(world.pos[m])
    BY <1>4, <2>1, NearFacts
  <2>4. world.pos[p] \in Viewable(world, world.pos[m])
    BY <1>1, <1>4, <2>1, <2>3, WholeEntities DEF Viewable
  <2>5. Viewable(world, world.pos[m]) \in SUBSET Pos
    BY <1>1, <2>1, ViewableFinite
  <2>6. p \in EntitiesIn(world, Viewable(world, world.pos[m]))
    BY <1>1, <1>4, <2>1, <2>4, <2>5, WholeEntities
  <2> QED
    BY <2>2, <2>6 DEF Audience
<1>5. ASSUME NEW p \in Players, NEW f \in Entities
      PROVE  /\ Sees(world', p, f) => f \in world'.told[p]
             /\ f \notin Mobs /\ f \in world'.told[p] => Sees(world', p, f)
  <2>1. CASE f = m
    BY <1>3, <1>4, <2>1 DEF Sees, SamePlaces, T
  <2>2. CASE f # m
    <3>1. f \in world'.told[p] <=> f \in world.told[p]
      BY <1>3, <2>2 DEF T
    <3>2. Sees(world', p, f) <=> Sees(world, p, f)
      BY <1>3, <2>2 DEF Sees, SamePlaces, U
    <3> QED
      BY <1>1, <3>1, <3>2 DEF ToldFresh
  <2> QED
    BY <2>1, <2>2
<1>6. Caches(world', {})
  BY <1>1, <1>3, <1>5, ToldCaches DEF ToldFresh
<1>7. Whole(world')
  BY <1>1, RespawnMobWhole
<1> QED
  BY <1>6, <1>7 DEF Fresh

\* Whom the chunks around an entity list are those who could see it.
LEMMA Onlookers ==
  ASSUME NEW w, Whole(w), NEW g \in NPCs, NEW p \in Players
  PROVE  /\ p \in EntitiesIn(w, Viewable(w, w.pos[g])) <=>
              w.pos[p] # NoChunk /\ w.pos[g] # NoChunk /\ w.pos[g] \in Near(w.pos[p])
         /\ g # p /\ g \notin Players /\ p \in Entities
<1>1. /\ w \in World /\ g \in Entities /\ p \in Entities /\ g # p /\ g \notin Players
  BY KindsAreDisjoint DEF Whole, Sound, Entities
<1>2. w.pos[p] \in Pos /\ w.pos[g] \in Pos
  BY <1>1, Fields
<1>3. Viewable(w, w.pos[g]) \in SUBSET Pos
  BY <1>1, <1>2, ViewableFinite
<1>4. /\ p \in EntitiesIn(w, Viewable(w, w.pos[g])) <=>
           w.pos[p] # NoChunk /\ w.pos[p] \in Viewable(w, w.pos[g])
      /\ w.pos[p] # NoChunk => w.pos[p] \in w.live
  BY <1>1, <1>3, WholeEntities
<1>5. /\ w.pos[p] \in Near(w.pos[g]) <=> w.pos[g] \in Near(w.pos[p])
      /\ w.pos[g] = NoChunk => (w.pos[p] \in Near(w.pos[g]) <=> w.pos[p] = NoChunk)
  BY <1>2, NearFacts
<1> QED
  BY <1>1, <1>4, <1>5 DEF Viewable

\* The clients are told while the egg still is extant.
LEMMA PickUpEggFresh ==
  ASSUME Fresh(world), NEW g \in Eggs, PickUpEgg(g)
  PROVE  Fresh(world')
<1> DEFINE C == Viewable(world, world.pos[g])
           v == RemoveEntityFromChunks(world, C, g)
           U == v.up \ {g}
<1>1. /\ world \in World /\ Whole(world) /\ Caches(world, {}) /\ ToldFresh(world)
      /\ g \in NPCs /\ g \in Entities /\ g \notin Players /\ g \notin Mobs /\ g \in world.up
  BY KindsAreDisjoint DEF Fresh, Whole, Sound, Caches, Entities, NPCs, PickUpEgg
<1>2. C \in SUBSET Pos /\ IsFiniteSet(C)
  BY <1>1, Fields, ViewableFinite
<1>3. v \in World /\ Frame(v, world) /\ v.live = world.live
  BY <1>1, <1>2, HideEffect
<1>4. Hides(v, world, C, g)
  BY <1>1, <1>2, HideShows
<1>5. world' = [v EXCEPT !.up = U]
  BY DEF PickUpEgg
<1> HIDE DEF v, U
<1>6. /\ world'.pos = v.pos /\ world'.live = v.live /\ world'.views = v.views
      /\ world'.seen = v.seen /\ world'.told = v.told /\ world'.up = U
  BY <1>3, <1>5 DEF World
<1>7. v.seen = world.seen
  <2>1. v.seen \in [Mobs -> Int] /\ world.seen \in [Mobs -> Int]
    BY <1>1, <1>3 DEF World
  <2>2. ASSUME NEW m \in Mobs PROVE v.seen[m] = world.seen[m]
    <3>1. Sightings(world, C, g, m) = 0
      BY <1>1 DEF Sightings
    <3>2. v.seen[m] = world.seen[m] - 0
      BY <1>4, <3>1 DEF Hides
    <3>3. world.seen[m] \in Int
      BY <2>1
    <3> QED
      BY ONLY <3>2, <3>3
  <2> QED
    BY <2>1, <2>2
<1>8. SamePlaces(world', world) /\ world'.up = world.up \ {g}
  BY <1>3, <1>4, <1>6, <1>7 DEF SamePlaces, Frame, Hides, U
<1>9. ASSUME NEW p \in Players, NEW f \in Entities
      PROVE  /\ Sees(world', p, f) => f \in world'.told[p]
             /\ f \notin Mobs /\ f \in world'.told[p] => Sees(world', p, f)
  <2>1. world'.told[p] = IF p \in EntitiesIn(world, C) THEN world.told[p] \ {g} ELSE world.told[p]
    BY <1>1, <1>4, <1>6 DEF Hides
  <2> HIDE DEF C
  <2>2. CASE f = g
    <3>1. ~Sees(world', p, g)
      BY <1>8 DEF Sees
    <3>2. g \in world.told[p] => Sees(world, p, g)
      BY <1>1 DEF ToldFresh
    <3>3. Sees(world, p, g) => p \in EntitiesIn(world, C)
      BY <1>1, Onlookers DEF Sees, C
    <3> QED
      BY <2>1, <2>2, <3>1, <3>2, <3>3
  <2>3. CASE f # g
    <3>1. f \in world'.told[p] <=> f \in world.told[p]
      BY <2>1, <2>3
    <3>2. Sees(world', p, f) <=> Sees(world, p, f)
      BY <1>8, <2>3 DEF Sees, SamePlaces
    <3> QED
      BY <1>1, <3>1, <3>2 DEF ToldFresh
  <2> QED
    BY <2>2, <2>3
<1>10. Caches(world', {})
  BY <1>1, <1>8, <1>9, ToldCaches DEF ToldFresh
<1>11. Whole(world')
  BY <1>1, PickUpEggWhole
<1> QED
  BY <1>10, <1>11 DEF Fresh

\* The egg is extant again before the clients are told.
LEMMA RegrowEggFresh ==
  ASSUME Fresh(world), NEW g \in Eggs, RegrowEgg(g)
  PROVE  Fresh(world')
<1> DEFINE U == world.up \cup {g}
           v == [world EXCEPT !.up = @ \cup {g}]
           C == Viewable(v, v.pos[g])
<1>1. /\ world \in World /\ Whole(world) /\ Caches(world, {}) /\ ToldFresh(world)
      /\ g \in NPCs /\ g \in Entities /\ g \notin Players /\ g \notin Mobs /\ g \notin world.up
  BY KindsAreDisjoint DEF Fresh, Whole, Sound, Caches, Entities, NPCs, RegrowEgg
<1>2. world' = AddEntityToChunks(v, C, g)
  BY DEF RegrowEgg
<1>3. U \in SUBSET Entities /\ v = [world EXCEPT !.up = U]
  BY <1>1 DEF World
<1> HIDE DEF U, v
<1>4. /\ v \in World /\ v.ents = world.ents /\ v.live = world.live
      /\ v.nplayers = world.nplayers /\ Frame(v, world)
  BY <1>1, <1>3 DEF World, Frame
<1>5. SamePlaces(v, world) /\ v.up = U /\ v.told = world.told
  BY <1>1, <1>3 DEF World, SamePlaces
<1>6. Whole(v)
  BY <1>1, <1>4, SameIndex
<1>7. C \in SUBSET Pos /\ IsFiniteSet(C)
  BY <1>1, <1>4, Fields, ViewableFinite
<1>8. Frame(world', v) /\ world'.live = v.live /\ world' \in World
  BY <1>1, <1>2, <1>4, <1>7, ShowEffect
<1>9. Shows(world', v, C, g)
  BY <1>1, <1>2, <1>4, <1>7, ShowShows
<1>10. world'.seen = world.seen
  <2>1. world'.seen \in [Mobs -> Int] /\ world.seen \in [Mobs -> Int] /\ v.seen = world.seen
    BY <1>1, <1>5, <1>8 DEF World, SamePlaces
  <2>2. ASSUME NEW m \in Mobs PROVE world'.seen[m] = world.seen[m]
    <3>1. Sightings(v, C, g, m) = 0
      BY <1>1 DEF Sightings
    <3>2. world'.seen[m] = world.seen[m] + 0
      BY <1>9, <2>1, <3>1 DEF Shows
    <3>3. world.seen[m] \in Int
      BY <2>1
    <3> QED
      BY ONLY <3>2, <3>3
  <2> QED
    BY <2>1, <2>2
<1>11. SamePlaces(world', world) /\ world'.up = world.up \cup {g}
  BY <1>5, <1>8, <1>9, <1>10 DEF SamePlaces, Frame, Shows, U
<1>12. ASSUME NEW p \in Players, NEW f \in Entities
       PROVE  /\ Sees(world', p, f) => f \in world'.told[p]
              /\ f \notin Mobs /\ f \in world'.told[p] => Sees(world', p, f)
  <2>1. world'.told[p] = IF p \in EntitiesIn(v, C) THEN world.told[p] \cup {g} ELSE world.told[p]
    BY <1>1, <1>5, <1>9 DEF Shows, U
  <2> HIDE DEF C
  <2>2. CASE f = g
    <3>1. Sees(world', p, g) <=> p \in EntitiesIn(v, C)
      <4>1. /\ p \in EntitiesIn(v, C) <=>
                 v.pos[p] # NoChunk /\ v.pos[g] # NoChunk /\ v.pos[g] \in Near(v.pos[p])
            /\ g # p
        BY <1>1, <1>6, Onlookers DEF C
      <4> QED
        BY <1>5, <1>11, <4>1 DEF Sees, SamePlaces
    <3>2. g \notin world.told[p]
      BY <1>1 DEF ToldFresh, Sees
    <3> QED
      BY <2>1, <2>2, <3>1, <3>2
  <2>3. CASE f # g
    <3>1. f \in world'.told[p] <=> f \in world.told[p]
      BY <2>1, <2>3
    <3>2. Sees(world', p, f) <=> Sees(world, p, f)
      BY <1>11, <2>3 DEF Sees, SamePlaces
    <3> QED
      BY <1>1, <3>1, <3>2 DEF ToldFresh
  <2> QED
    BY <2>2, <2>3
<1>13. Caches(world', {})
  BY <1>1, <1>11, <1>12, ToldCaches DEF ToldFresh
<1>14. Whole(world')
  BY <1>1, RegrowEggWhole
<1> QED
  BY <1>13, <1>14 DEF Fresh

LEMMA StepFresh ==
  ASSUME NEW w, Fresh(w), NEW e \in w.here, NEW x \in Cells
  PROVE  Fresh(UpdatePlayerPosition(w, e, <<x, InstOf(w.at[e])>>))
<1>1. w.at[e] \in Places
  BY DEF Fresh, Whole, Sound, Rooted
<1>2. <<x, InstOf(w.at[e])>> \in Places
  BY <1>1, PosFacts
<1> QED
  BY <1>2, MoveFresh

LEMMA NextFresh == Fresh(world) /\ [Next]_world => Fresh(world)'
<1> SUFFICES ASSUME Fresh(world), [Next]_world PROVE Fresh(world')
  OBVIOUS
<1>1. ASSUME NEW p \in Players, NEW x \in Cells, EnterPlayer(p, x) PROVE Fresh(world')
  BY <1>1, EnterPlayerFresh
<1>2. ASSUME NEW p \in Players, NEW x \in Cells, MovePlayer(p, x) PROVE Fresh(world')
  <2>1. /\ p \in world.here
        /\ world' = UpdatePlayerPosition(world, p, <<x, InstOf(world.at[p])>>)
    BY <1>2 DEF MovePlayer
  <2> QED
    BY <2>1, StepFresh
<1>3. ASSUME NEW p \in Players, NEW c \in Places, WarpPlayer(p, c) PROVE Fresh(world')
  <2>1. p \in world.here /\ world' = SendPlayerTo(world, p, c)
    BY <1>3 DEF WarpPlayer
  <2> QED
    BY <2>1, SendFresh
<1>4. ASSUME NEW party \in Parties(world), NEW i \in Private, NEW x \in Cells,
             NEW copy \in Copyings(world, i), WarpIntoInstance(party, i, x, copy)
      PROVE  Fresh(world')
  BY <1>4, WarpIntoInstanceFresh
<1>5. ASSUME NEW p \in Players, RemovePlayer(p) PROVE Fresh(world')
  BY <1>5, RemovePlayerFresh
<1>6. ASSUME NEW e \in Mobs \cup Props, NEW x \in Cells, MoveNPC(e, x) PROVE Fresh(world')
  <2>1. /\ e \in world.here
        /\ world' = UpdatePlayerPosition(world, e, <<x, InstOf(world.at[e])>>)
    BY <1>6, PositionsAgree DEF MoveNPC
  <2> QED
    BY <2>1, StepFresh
<1>7. ASSUME NEW e \in Summonable, NEW p \in Players, NEW r \in BOOLEAN, SummonNPC(e, p, r)
      PROVE  Fresh(world')
  BY <1>7, SummonNPCFresh
<1>8. ASSUME NEW e \in NPCs, UnsummonNPC(e) PROVE Fresh(world')
  BY <1>8, DestroyNPCFresh DEF UnsummonNPC
<1>9. ASSUME NEW m \in Mobs, KillMob(m) PROVE Fresh(world')
  BY <1>9, KillMobFresh
<1>10. ASSUME NEW m \in Mobs, DespawnMob(m) PROVE Fresh(world')
  BY <1>10, DespawnMobFresh
<1>11. ASSUME NEW m \in Mobs, NEW l \in Mobs, RespawnMob(m, l) PROVE Fresh(world')
  BY <1>11, RespawnMobFresh
<1>12. ASSUME NEW g \in Eggs, PickUpEgg(g) PROVE Fresh(world')
  BY <1>12, PickUpEggFresh
<1>13. ASSUME NEW g \in Eggs, RegrowEgg(g) PROVE Fresh(world')
  BY <1>13, RegrowEggFresh
<1>14. ASSUME NEW m \in Mobs, NEW x \in Cells, RetreatMob(m, x) PROVE Fresh(world')
  BY <1>14, RetreatMobFresh
<1>15. CASE UNCHANGED world
  BY <1>15
<1>16. ASSUME NEW p \in Players, NEW x \in Cells, TransportWarp(p, x) PROVE Fresh(world')
  BY <1>16, OverworldPlaces, WarpFresh DEF TransportWarp
<1> QED
  BY <1>1, <1>2, <1>3, <1>4, <1>5, <1>6, <1>7, <1>8, <1>9, <1>10, <1>11, <1>12, <1>13, <1>14,
     <1>15, <1>16 DEF Next, PlayerNext, NPCNext, TransportNext

\* Caches, counters and clients are right whenever a handler is entered.
THEOREM FreshIsInvariant == Spec => []Fresh(world)
  BY InitFresh, NextFresh, PTL DEF Spec

\* What was freed is in no chunk, so that to be placed is to have a chunk.
LEMMA PlacedAre ==
  ASSUME NEW e \in Entities, Whole(world)
  PROVE  Placed(e) <=> world.pos[e] # NoChunk
BY DEF Whole, Sound, Rooted, Placed

\* The cached view of every entity is the set of chunks around it, and every
\* mob's playersInView the number of players around it, however many handlers
\* of either side have added to and taken from them (newChunk(), deleteChunk(),
\* addEntityToChunks(), removeEntityFromChunks()): no entity keeps a pointer to
\* a deleted chunk, and no mob sleeps in front of a player.
THEOREM CachesFreshAlways == Spec => []CachesFresh
<1>1. Fresh(world) => CachesFresh
  <2> SUFFICES ASSUME Fresh(world) PROVE CachesFresh
    OBVIOUS
  <2>1. Whole(world) /\ ViewsFresh(world, {}) /\ SeenFresh(world)
    BY DEF Fresh, Caches
  <2>2. \A e \in Entities :
          world.views[e] = IF Placed(e) THEN Viewable(world, world.pos[e]) ELSE {}
    BY <2>1, PlacedAre DEF ViewsFresh
  <2>3. ASSUME NEW m \in Mobs
        PROVE  world.seen[m] = Cardinality({p \in Players :
                                 Placed(p) /\ world.pos[p] \in Near(world.pos[m])})
    <3>1. {p \in Players : Placed(p) /\ world.pos[p] \in Near(world.pos[m])} = Watchers(world, m)
      BY <2>1, PlacedAre DEF Watchers, Entities
    <3> QED
      BY <2>1, <3>1 DEF SeenFresh
  <2> QED
    BY <2>2, <2>3 DEF CachesFresh
<1> QED
  BY <1>1, FreshIsInvariant, PTL

\* A client draws everything its player can see and, corpses of mobs aside,
\* nothing else: what it is told of a move is the difference of two views, and
\* the differences never add up to something stale (updateEntityChunk(),
\* removePlayer(), destroyNPC(), deadStep(), eggStep()).
THEOREM ClientsAgreeAlways == Spec => []ClientsAgree
<1>1. Fresh(world) => ClientsAgree
  <2> SUFFICES ASSUME Fresh(world) PROVE ClientsAgree
    OBVIOUS
  <2>1. Whole(world) /\ ToldFresh(world)
    BY DEF Fresh, Caches
  <2>2. ASSUME NEW p \in Players, NEW e \in Entities
        PROVE  Sees(world, p, e) <=>
                 /\ Placed(p) /\ Placed(e) /\ e # p /\ e \in world.up
                 /\ world.pos[e] \in Near(world.pos[p])
    BY <2>1, PlacedAre DEF Sees, Entities
  <2> QED
    BY <2>1, <2>2 DEF ToldFresh, ClientsAgree
<1> QED
  BY <1>1, FreshIsInvariant, PTL

\* The whole of the redundant index is consistent between any two handlers,
\* with instances that are made and destroyed as well.
THEOREM IndexIntactAlways == Spec => []IndexIntact
<1>1. IndexAgrees /\ LiveIffPopulated /\ PlayersCounted /\ CachesFresh /\ ClientsAgree => IndexIntact
  BY DEF IndexIntact
<1> QED
  BY <1>1, IndexAgreesAlways, LiveIffPopulatedAlways, PlayersCountedAlways,
     CachesFreshAlways, ClientsAgreeAlways, PTL
=============================================================================
