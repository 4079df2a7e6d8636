\* Taros are spent while they are on the table.
CONSTANTS
  Players = {p, q}
  Items = {}
  NInven = 1
  NTrade = 1
  MaxMoney = 2
  MadeItems <- Items2
  MadeMoney = 2
  MaxForged = 1
  NoItem = NoItem
  NoPlayer = NoPlayer
SPECIFICATION Spec
INVARIANTS
  OffersAreCovered
SYMMETRY Symmetric
