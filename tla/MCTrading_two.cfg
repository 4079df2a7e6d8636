\* Items or taros change hands, crashes in between.
CONSTANTS
  Players = {p, q}
  Items = {gumball}
  NInven = 2
  NTrade = 2
  MaxMoney = 2
  MadeItems <- Items2
  MadeMoney = 3
  MaxForged = 1
  NoItem = NoItem
  NoPlayer = NoPlayer
SPECIFICATION Spec
INVARIANTS
  TypeOK
  NothingIsDuplicated
  ConfirmedTermsStand
SYMMETRY Symmetric
