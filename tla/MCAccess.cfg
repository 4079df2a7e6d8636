SPECIFICATION Spec
CONSTANTS
  chief = chief
  a = a
  b = b
  l1 = l1
  l2 = l2
  Accounts = {chief, a, b}
  Chief = chief
  Levels <- MCLevels
  Top = 1
  NewLevel = 99
  Moderator = 30
  Methods = {"password", "cookie"}
  AutoCreate = TRUE
  LoginSocks = {l1, l2}
  NoAccount = NoAccount
SYMMETRY Symmetric
INVARIANTS
  AccessTypeOK
  LevelsAgree
  ChiefStands
