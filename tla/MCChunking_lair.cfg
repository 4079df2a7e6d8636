\* A lair (one mob, one egg) that is copied into a private instance.
CONSTANTS
  p1 = p1
  p2 = p2
  m1 = m1
  g1 = g1
  Players = {p1, p2}
  Mobs = {m1, m2}
  Eggs = {g1}
  Props = {s1}
  Cells = {1}
  Adjacent <- MCAdjacent
  Maps = {"overworld", "lair"}
  Overworld = "overworld"
  Private = {"lair1"}
  BaseMap <- MCBaseMap
  Owner <- MCOwner
  Spawn <- MCLairSpawn
  Summonable = {s1}
  NoChunk = NoChunk
  NoInst = "none"
SPECIFICATION Spec
INVARIANTS
  IndexIntact
PROPERTIES
  NoLairIsAbandoned
  LairsArePreserved
