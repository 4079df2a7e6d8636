\* Two characters who trade with vendors and write to each other.
CONSTANTS
  Players = {p, q}
  NInven = 2
  NBank = 0
  NAttach = 1
  NBuyback = 1
  Boosters = {"hunter", "racer"}
  StackSize <- Stacks2
  BuyPrice <- AllCost1
  SellPrice <- SomeSell1
  Stocks <- Kinds1
  Loot <- Loot2
  Rarities = {1, 2}
  Gender <- Same
  Code <- ACrate
  Postage = 1
  PerItem = 0
  MaxTaros = 2
  ExpireInBank = TRUE
  MaxEarned <- Earned2
  MaxMail = 1
SYMMETRY Alike
SPECIFICATION Spec
INVARIANTS
  TypeOK
  RidersHaveVehicles
PROPERTIES
  ImplementsLedger
CHECK_DEADLOCK FALSE
