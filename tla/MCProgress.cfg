\* A player of three levels with two errands and two nano missions.
CONSTANTS
  Games <- Games1
  Tasks <- Tasks1
  Items = {"key"}
  Enemies = {"mob"}
  Missions <- Missions1
  Nanos = {2, 3}
  NLog = 5
  NInven = 2
  NEquip = 2
  FMLimit <- Limits
  NanoCost <- Costs
  NanoQuest <- Quests
  FirstLevel = 1
  LastLevel <- LastOf
  TopLevel = 3
  MaxStamina = 2
  DrainActive = 1
  DrainPassive = 1
  Gifts <- GiftsOf
  Named <- NamedIn
  Zones <- RaceIn
  MaxRings = 1
  MaxJunk = 1
SPECIFICATION Spec
INVARIANTS
  TypeOK
  SummonedNanoIsPowered
  MissionsArePaid
  ItemsNeverOvershoot
