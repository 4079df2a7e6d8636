-------------------------------- MODULE Access --------------------------------
(***************************************************************************)
(* Who may come in, and what they may do to others: passwords, auth        *)
(* cookies and bans at the login server (CNLoginServer.cpp, db/login.cpp), *)
(* and the account levels that commands look at (CustomCommands.cpp,       *)
(* BuiltinCommands.cpp, db/shard.cpp).  A lower level is stronger.         *)
(*                                                                         *)
(* A level is kept twice, in the table Accounts and in the Player object   *)
(* of a character that plays; so is a player, whose row the login server   *)
(* may delete while it plays.  A cookie is put in the table Auth by a      *)
(* program outside of this one.  Sessions.tla says how an account comes to *)
(* have one player at most; here that is taken for granted.                *)
(***************************************************************************)
EXTENDS Rights

shardVars == <<player, gone, cut>>
vars == <<level, banned, cookie, opened, session, shardVars>>

-----------------------------------------------------------------------------
(* The login server.                                                       *)

\* isAccountInUse()
InUse(a) == \E l \in LoginSocks : session[l] = a

\* Mutant: the cookie stays good.
CookieLeft(a, matches) == UNCHANGED cookie

\* checkCookie(): a cookie that matches is spent, whatever comes of it.
CheckCookie(a, matches) ==
  cookie' = IF matches THEN [cookie EXCEPT ![a] = "spent"] ELSE cookie

\* checkToken(): a cookie, or else, in the same field, a password.
Matches(a, fields, token) ==
  /\ fields = "cookie" /\ "cookie" \in Methods
  /\ token = "cookie" /\ cookie[a] = "good"

TokenIsGood(a, fields, token) ==
  \/ Matches(a, fields, token)
  \/ "password" \in Methods /\ token = "password"

\* login() with a well-formed name and token, on a socket without a session:
\* the token, the ban, then whether the account is in use.
Login(l, a, fields, token) ==
  /\ session[l] = NoAccount
  /\ fields = "password" => "password" \in Methods
  /\ Found(a)
  /\ LET matches == Matches(a, fields, token)
         enters == TokenIsGood(a, fields, token) /\ a \notin banned /\ ~InUse(a)
     IN /\ CheckCookie(a, matches)
        /\ opened' = IF matches /\ enters THEN [opened EXCEPT ![a] = @ + 1] ELSE opened
        /\ session' = IF enters THEN [session EXCEPT ![l] = a] ELSE session
  /\ UNCHANGED <<level, banned, shardVars>>

\* newAccount(), addAccount(): for a name nobody has, and not for a cookie.
NewAccount(l, a) ==
  /\ session[l] = NoAccount
  /\ ~Found(a) /\ AutoCreate /\ "password" \in Methods
  /\ level' = [level EXCEPT ![a] = NewLevel]
  /\ session' = [session EXCEPT ![l] = a]
  /\ UNCHANGED <<banned, cookie, opened, shardVars>>

HangUp(l) ==
  /\ session[l] # NoAccount
  /\ session' = [session EXCEPT ![l] = NoAccount]
  /\ UNCHANGED <<level, banned, cookie, opened, shardVars>>

\* characterDelete() of the character that the account is playing.
CharacterDelete(l, a) ==
  /\ session[l] = a /\ player[a] # 0
  /\ gone' = gone \cup {a}
  /\ UNCHANGED <<level, banned, cookie, opened, session, player, cut>>

\* The program that knows the player writes a new cookie; time passes.
GrantCookie(a) ==
  /\ Found(a)
  /\ cookie' = [cookie EXCEPT ![a] = "good"]
  /\ opened' = [opened EXCEPT ![a] = 0]
  /\ UNCHANGED <<level, banned, session, shardVars>>

CookieExpires(a) ==
  /\ cookie[a] = "good"
  /\ cookie' = [cookie EXCEPT ![a] = "spent"]
  /\ UNCHANGED <<level, banned, opened, session, shardVars>>

-----------------------------------------------------------------------------
(* The shard.                                                              *)

\* getPlayer() takes the level from the table.
EnterGame(a) ==
  /\ InUse(a) /\ player[a] = 0
  /\ player' = [player EXCEPT ![a] = level[a]]
  /\ UNCHANGED <<level, banned, cookie, opened, session, gone, cut>>

\* removePlayer()
RemovePlayer(a) ==
  /\ player' = [player EXCEPT ![a] = 0]
  /\ gone' = gone \ {a} /\ cut' = cut \ {a}

Disconnect(a) ==
  /\ player[a] # 0
  /\ RemovePlayer(a)
  /\ UNCHANGED <<level, banned, cookie, opened, session>>

\* refreshCookie(), "in case change character was used".
RefreshCookie(a) ==
  IF cookie[a] = "none" THEN UNCHANGED <<cookie, opened>>
  ELSE /\ cookie' = [cookie EXCEPT ![a] = "good"]
       /\ opened' = [opened EXCEPT ![a] = 0]

\* Someone whose packets are handled.
Acts(a) == player[a] # 0 /\ a \notin cut

ExitGame(a) ==
  /\ Acts(a)
  /\ RefreshCookie(a)
  /\ RemovePlayer(a)
  /\ UNCHANGED <<level, banned, session>>

\* runCmd(): the command and the level it asks for.
MayRun(a, required) == Acts(a) /\ player[a] <= required

\* Mutant: the row is not written.
LevelInMemory(b, n) ==
  /\ player' = [player EXCEPT ![b] = n]
  /\ UNCHANGED level

\* updateAccountLevel() of the account that the row of the character names;
\* without it, account 0, which there is not.
SetLevel(b, n) ==
  /\ player' = [player EXCEPT ![b] = n]
  /\ level' = IF b \in gone THEN level ELSE [level EXCEPT ![b] = n]

\* Mutant: one may raise another to one's own rank.
MayRaise(a, b, n) ==
  /\ a # b => player[a] <= Moderator
  /\ player[a] < player[b] /\ player[a] <= n

\* What accessCommand() asks before it changes the level of b.
MaySet(a, b, n) ==
  /\ a # b => player[a] <= Moderator
  /\ player[a] < player[b] /\ player[a] < n

AccessCommand(a, b, n) ==
  /\ MayRun(a, 100)
  /\ player[b] # 0
  /\ MaySet(a, b, n)
  /\ SetLevel(b, n)
  /\ UNCHANGED <<banned, cookie, opened, session, gone, cut>>

\* banPlayer() by a character of the account, which is kicked if it is the
\* one that plays.  "Cannot ban a GM."
BanCommand(a, b) ==
  /\ MayRun(a, Moderator)
  /\ level[b] > Moderator
  /\ banned' = banned \cup {b}
  /\ \/ player[b] # 0 /\ b \notin gone /\ cut' = cut \cup {b}
     \/ UNCHANGED cut
  /\ UNCHANGED <<level, cookie, opened, session, player, gone>>

UnbanCommand(a, b) ==
  /\ MayRun(a, Moderator) /\ b \in banned
  /\ banned' = banned \ {b}
  /\ UNCHANGED <<level, cookie, opened, session, shardVars>>

\* kickPlayer(), of players that are not stronger.
KickPlayer(a, b) ==
  /\ MayRun(a, Moderator)
  /\ player[b] # 0 /\ player[a] <= player[b]
  /\ cut' = cut \cup {b}
  /\ UNCHANGED <<level, banned, cookie, opened, session, player, gone>>

-----------------------------------------------------------------------------

Init ==
  /\ level = [a \in Accounts |-> IF a = Chief THEN Top ELSE 0]
  /\ banned = {}
  /\ cookie = [a \in Accounts |-> "none"]
  /\ opened = [a \in Accounts |-> 0]
  /\ session = [l \in LoginSocks |-> NoAccount]
  /\ player = [a \in Accounts |-> 0]
  /\ gone = {} /\ cut = {}

LoginNext ==
  \/ \E l \in LoginSocks, a \in Accounts :
       \/ \E fields \in {"password", "cookie"}, token \in {"password", "cookie", "wrong"} :
            Login(l, a, fields, token)
       \/ NewAccount(l, a) \/ CharacterDelete(l, a)
  \/ \E l \in LoginSocks : HangUp(l)
  \/ \E a \in Accounts : GrantCookie(a) \/ CookieExpires(a)

ShardNext ==
  \/ \E a \in Accounts : EnterGame(a) \/ Disconnect(a) \/ ExitGame(a)
  \/ \E a, b \in Accounts : BanCommand(a, b) \/ UnbanCommand(a, b) \/ KickPlayer(a, b)
  \/ \E a, b \in Accounts, n \in Levels : AccessCommand(a, b, n)

Next == LoginNext \/ ShardNext

Spec == Init /\ [][Next]_vars
=============================================================================
