-------------------------------- MODULE Rights --------------------------------
(***************************************************************************)
(* What Access.tla keeps of accounts and players, and what it promises of  *)
(* them.                                                                   *)
(***************************************************************************)
EXTENDS LoginServer, Naturals

CONSTANTS
  Chief,      \* the one account the operator gave the strongest level
  Levels,     \* AccountLevel
  Top,        \* the strongest of them
  NewLevel,   \* settings::ACCLEVEL
  Moderator,  \* 30, the level commands about others ask for
  Methods,    \* settings::AUTHMETHODS
  AutoCreate  \* settings::AUTOCREATEACCOUNTS

\* An operator with players that are not to be trusted has set ACCLEVEL.
ASSUME LevelsAreRanked ==
  /\ Levels \subseteq Nat \ {0} /\ {Top, NewLevel} \subseteq Levels /\ Moderator \in Nat
  /\ Chief \in Accounts /\ NoAccount \notin Accounts
  /\ Top < NewLevel /\ Top <= Moderator /\ \A n \in Levels : Top <= n
  /\ Methods \subseteq {"password", "cookie"} /\ AutoCreate \in BOOLEAN

VARIABLES
  level,    \* Accounts.AccountLevel, 0 without a row
  cookie,   \* the row of Auth: "none", "good" or "spent" (it has expired)
  opened,   \* sessions that the cookie opened since it was last made good
  player,   \* Player::accountLevel, 0 while nobody plays
  gone,     \* accounts whose character was deleted while it plays
  cut       \* accounts whose connection to the shard was killed

\* findAccount()
Found(a) == level[a] # 0

-----------------------------------------------------------------------------

\* The type of the state.  Only players are cut off or outlive their row, and
\* a cookie lets one session in each time it is made good.
AccessTypeOK ==
  /\ level \in [Accounts -> Levels \cup {0}]
  /\ banned \subseteq {a \in Accounts : Found(a)}
  /\ cookie \in [Accounts -> {"none", "good", "spent"}]
  /\ opened \in [Accounts -> 0..1]
  /\ session \in [LoginSocks -> Accounts \cup {NoAccount}]
  /\ player \in [Accounts -> Levels \cup {0}]
  /\ gone \cup cut \subseteq {a \in Accounts : player[a] # 0}

\* The two copies of a level agree, so that a command given today asks for
\* the same level as after the next login; but the level given to a player
\* whose character was deleted meanwhile is lost.
LevelsAgree ==
  \A a \in Accounts : player[a] # 0 /\ a \notin gone => player[a] = level[a]

\* Whatever the others agree to do for each other, nobody becomes as strong
\* as the account the operator trusted, or gets at it: it keeps its level and
\* is not banned.
ChiefStands ==
  /\ level[Chief] = Top /\ Chief \notin banned
  /\ \A a \in Accounts \ {Chief} :
       (Found(a) => level[a] > Top) /\ (player[a] # 0 => player[a] > Top)
=============================================================================
