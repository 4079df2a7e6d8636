\* A mob group of two or a boss with its second stage, fair steps of the timer.
CONSTANTS
  Socks = {s1, s2}
  m1 = m1
  m2 = m2
  MobIds = {m1, m2}
  Troops <- MCTroops
  Casts <- MCCasts
  Boosted = {}
  Debuffs = {"mez"}
  MaxAway = 1
  NoSock = NoSock
  NoMob = NoMob
SPECIFICATION FairSpec
INVARIANTS
  TypeOK
  StatesAreCoherent
PROPERTIES
  FightsEnd
