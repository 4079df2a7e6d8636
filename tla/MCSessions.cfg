\* Two clients that contend for one account with two characters, fair threads.
CONSTANTS
  Accounts = {a1}
  Chars = {c1, c2}
  AccountOf <- MCAccountOf
  LoginSocks = {l1, l2}
  ShardSocks = {s1, s2}
  Serials = {k1, k2}
  Progress = {kit, x1}
  Starter = kit
  NoAccount = NoAccount
  NoChar = NoChar
  NoPlayer = NoPlayer
SPECIFICATION FairSpec
INVARIANTS
  TypeOK
  OnePlayerPerAccount
  MemoryIsNewest
  NothingIsForgotten
PROPERTIES
  BannedStayOut
  DeadAreReleased
