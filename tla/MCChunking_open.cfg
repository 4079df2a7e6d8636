\* Two players, a mob and an egg on a strip of three cells, with fair timers.
CONSTANTS
  p1 = p1
  p2 = p2
  m1 = m1
  g1 = g1
  Players = {p1, p2}
  Mobs = {m1}
  Eggs = {g1}
  Props = {}
  Cells = {1, 2, 3}
  Adjacent <- MCAdjacent
  Maps = {"overworld"}
  Overworld = "overworld"
  Private = {}
  BaseMap <- MCBaseMap
  Owner <- MCOwner
  Spawn <- MCOpenSpawn
  Summonable = {m1}
  NoChunk = NoChunk
  NoInst = "none"
SPECIFICATION FairSpec
INVARIANTS
  TypeOK
  IndexAgrees
  LiveIffPopulated
  PlayersCounted
  CachesFresh
  ClientsAgree
PROPERTIES
  DeadReturn
