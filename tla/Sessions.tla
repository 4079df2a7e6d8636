------------------------------ MODULE Sessions ------------------------------
(***************************************************************************)
(* Who is logged in, and what becomes of what they achieve.                *)
(*                                                                         *)
(* Two threads serve the clients.  The login server keeps a session for    *)
(* each socket that gave a password and hands out serial keys              *)
(* (CNLoginServer.cpp); a key waits in CNShared until the client presents  *)
(* it to the shard, or is pruned.  The shard (CNShardServer.cpp,           *)
(* PlayerManager.cpp) loads the character of the key from the database,    *)
(* lets it play in memory and saves it when it leaves and every few        *)
(* minutes.  The threads meet in CNShared and in the database, each behind *)
(* a mutex, so the handler that enters a player is one step per time it    *)
(* takes one of them: the login server may act in between, other handlers  *)
(* of the shard may not.                                                   *)
(*                                                                         *)
(* Accounts and characters are made by the login server, a character in    *)
(* three packets with the client's editor and its tutorial in between.     *)
(* Names and slots, which two characters may not share, are taken to be    *)
(* free, and passwords and cookies to be good.                             *)
(*                                                                         *)
(* Sockets die first and are cleaned up later, at the end of an iteration  *)
(* of the poll loop of their server.  The process may crash, which leaves  *)
(* the database as it is.                                                  *)
(***************************************************************************)
EXTENDS LoginServer, Naturals, FiniteSets

CONSTANTS
  Chars,      \* Players.PlayerID
  AccountOf,  \* the account of each character
  ShardSocks, \* sockets of the shard server
  Serials,    \* bound: the serial keys cryptoRand() may draw
  Progress,   \* bound: what the players may achieve, each once
  Starter,    \* what the tutorial leaves a character with, of Progress
  NoChar,     \* character 0
  NoPlayer    \* the socket is no key of PlayerManager::players

ASSUME CharsHaveAccounts ==
  /\ AccountOf \in [Chars -> Accounts]
  /\ NoAccount \notin Accounts
  /\ NoChar \notin Chars
  /\ Starter \in Progress

Player == [char : Chars \cup {NoChar}, account : Accounts \cup {NoAccount},
           done : SUBSET Progress]

ASSUME NoPlayerIsNoPlayer == NoPlayer \notin Player

VARIABLES
  hungUp,   \* login sockets that were killed and not yet cleaned up
  pending,  \* `logins' of CNShared.cpp, NoChar where there is no entry
  issued,   \* serial keys that were sent to a client
  uses,     \* how often a serial key let somebody in
  conn,     \* shard sockets: "closed", "open", or "dead" and not cleaned up
  players,  \* PlayerManager::players
  known,    \* accounts that have a row in the database
  stage,    \* how far the creation of a character is, see Stages
  saved,    \* what that row says the character has done
  achieved, \* what a character has done, except what a crash took back
  busy      \* the shard handler that is between two of its steps

loginVars == <<session, hungUp>>
keyVars == <<pending, issued, uses>>
shardVars == <<conn, players>>
accountVars == <<known, banned>>
dbVars == <<accountVars, stage, saved>>
vars == <<loginVars, keyVars, shardVars, dbVars, achieved, busy>>

\* "named": AppearanceFlag is 0; "dressed": TutorialFlag is.
Stages == {"none", "named", "dressed", "ready", "deleted"}

\* The characters that have a row in the database.
rows == {c \in Chars : stage[c] \in {"named", "dressed", "ready"}}

Nobody == [char |-> NoChar, account |-> NoAccount, done |-> {}]
Idle == [step |-> "idle"]

\* getPlayer() of a character that was deleted leaves the object as it was.
Load(c) ==
  IF c \in rows THEN [char |-> c, account |-> AccountOf[c], done |-> saved[c]]
  ELSE Nobody

\* updatePlayer(): without the row it changes nothing, and the inserts that
\* follow violate their foreign key and roll the transaction back.
Save(plr) ==
  saved' = IF plr.char \in rows THEN [saved EXCEPT ![plr.char] = plr.done] ELSE saved

Present == {s \in ShardSocks : players[s] # NoPlayer}

InUse(a) == \E s \in Present : players[s].account = a

-----------------------------------------------------------------------------
(* The login server.                                                       *)

\* Mutant: nobody looks whether the account is banned.
LoginBanned(l, a) ==
  /\ session[l] = NoAccount /\ l \notin hungUp
  /\ a \in known
  /\ \A k \in LoginSocks : session[k] # a
  /\ session' = [session EXCEPT ![l] = a]
  /\ UNCHANGED <<hungUp, keyVars, shardVars, dbVars, achieved, busy>>

\* login(), with a good password: refused while the account has a session,
\* be it one whose socket was killed.
Login(l, a) ==
  /\ session[l] = NoAccount /\ l \notin hungUp
  /\ a \in known \ banned
  /\ \A k \in LoginSocks : session[k] # a
  /\ session' = [session EXCEPT ![l] = a]
  /\ UNCHANGED <<hungUp, keyVars, shardVars, dbVars, achieved, busy>>

\* newAccount(): the login name is not known yet.
NewAccount(l, a) ==
  /\ session[l] = NoAccount /\ l \notin hungUp
  /\ a \notin known
  /\ known' = known \cup {a}
  /\ session' = [session EXCEPT ![l] = a]
  /\ UNCHANGED <<hungUp, keyVars, shardVars, banned, stage, saved, achieved, busy>>

\* The client of l is at the character screen with c, or with the slot of c.
Manages(l, c) == l \notin hungUp /\ AccountOf[c] = session[l]

\* createCharacter(): rows in Players and Appearances, or none.
CreateRow(c) == stage' = [stage EXCEPT ![c] = "named"]

\* finishCharacter(): the flag, the looks and the clothes in one transaction.
\* The second time the slots of the clothes are taken, and it rolls back.
FinishRow(c) == stage' = IF stage[c] = "named" THEN [stage EXCEPT ![c] = "dressed"] ELSE stage

\* Database::finishTutorial(): the flag, the gun and the nano in one
\* transaction.  The second time the nano is there, and it rolls back.
GrantStarter(c) ==
  IF stage[c] = "dressed"
  THEN /\ stage' = [stage EXCEPT ![c] = "ready"]
       /\ saved' = [saved EXCEPT ![c] = @ \cup {Starter}]
       /\ achieved' = [achieved EXCEPT ![c] = @ \cup {Starter}]
  ELSE UNCHANGED <<stage, saved, achieved>>

\* nameSave(), with a name and a slot that are free.
NameSave(l, c) ==
  /\ Manages(l, c) /\ stage[c] = "none"
  /\ CreateRow(c)
  /\ UNCHANGED <<loginVars, keyVars, shardVars, accountVars, saved, achieved, busy>>

\* characterCreate(), with looks and clothes that there are.
CharacterCreate(l, c) ==
  /\ Manages(l, c) /\ c \in rows
  /\ FinishRow(c)
  /\ UNCHANGED <<loginVars, keyVars, shardVars, accountVars, saved, achieved, busy>>

\* finishTutorial(), of a character that is dressed.
FinishTutorial(l, c) ==
  /\ Manages(l, c) /\ stage[c] \in {"dressed", "ready"}
  /\ GrantStarter(c)
  /\ UNCHANGED <<loginVars, keyVars, shardVars, accountVars, busy>>

\* characterSelect(): the client may do so again, for another serial key.
\* The server asks for a row only, the client for a finished character.
CharacterSelect(l, c, k) ==
  /\ Manages(l, c) /\ stage[c] = "ready"
  /\ k \notin issued
  /\ pending' = [pending EXCEPT ![k] = c]
  /\ issued' = issued \cup {k}
  /\ UNCHANGED <<loginVars, uses, shardVars, dbVars, achieved, busy>>

CharacterDelete(l, c) ==
  /\ Manages(l, c) /\ c \in rows
  /\ stage' = [stage EXCEPT ![c] = "deleted"]
  /\ UNCHANGED <<loginVars, keyVars, shardVars, accountVars, saved, achieved, busy>>

\* The client hangs up, or falls silent for 32 seconds, or another one, told
\* that the account is in use, sends PC_EXIT_DUPLICATE.
KillSession(l) ==
  /\ session[l] # NoAccount /\ l \notin hungUp
  /\ hungUp' = hungUp \cup {l}
  /\ UNCHANGED <<session, keyVars, shardVars, dbVars, achieved, busy>>

\* Mutant: the session survives its socket.
CleanUpSocket(l) ==
  /\ l \in hungUp
  /\ hungUp' = hungUp \ {l}
  /\ UNCHANGED <<session, keyVars, shardVars, dbVars, achieved, busy>>

CleanUpSession(l) ==
  /\ l \in hungUp
  /\ hungUp' = hungUp \ {l}
  /\ session' = [session EXCEPT ![l] = NoAccount]
  /\ UNCHANGED <<keyVars, shardVars, dbVars, achieved, busy>>

-----------------------------------------------------------------------------
(* The shard.                                                              *)

\* pruneLoginMetadata(): the entry is older than five minutes.
Prune(k) ==
  /\ busy = Idle
  /\ pending[k] # NoChar
  /\ pending' = [pending EXCEPT ![k] = NoChar]
  /\ UNCHANGED <<loginVars, issued, uses, shardVars, dbVars, achieved, busy>>

\* Mutant: the entry stays in CNShared.
EnterPeek(s, k) ==
  /\ busy = Idle
  /\ conn[s] = "closed" /\ players[s] = NoPlayer
  /\ k \in issued
  /\ IF pending[k] = NoChar
     THEN /\ conn' = [conn EXCEPT ![s] = "dead"]
          /\ UNCHANGED <<uses, busy>>
     ELSE /\ conn' = [conn EXCEPT ![s] = "open"]
          /\ uses' = [uses EXCEPT ![k] = @ + 1]
          /\ busy' = [step |-> "read", sock |-> s, char |-> pending[k]]
  /\ UNCHANGED <<loginVars, pending, issued, players, dbVars, achieved>>

\* A client connects and sends PC_ENTER, as its only one, with a serial key
\* it was given: getLoginMetadata() takes the entry, if it is there.
EnterTake(s, k) ==
  /\ busy = Idle
  /\ conn[s] = "closed" /\ players[s] = NoPlayer
  /\ k \in issued
  /\ IF pending[k] = NoChar
     THEN /\ conn' = [conn EXCEPT ![s] = "dead"]
          /\ UNCHANGED <<pending, uses, busy>>
     ELSE /\ conn' = [conn EXCEPT ![s] = "open"]
          /\ pending' = [pending EXCEPT ![k] = NoChar]
          /\ uses' = [uses EXCEPT ![k] = @ + 1]
          /\ busy' = [step |-> "read", sock |-> s, char |-> pending[k]]
  /\ UNCHANGED <<loginVars, issued, players, dbVars, achieved>>

\* Mutant: nobody looks for another player of the account.
EnterUnchecked ==
  /\ busy.step = "read"
  /\ players' = [players EXCEPT ![busy.sock] = Load(busy.char)]
  /\ busy' = Idle
  /\ UNCHANGED <<loginVars, keyVars, conn, dbVars, achieved>>

\* The first getPlayer(), and the check for another player of the account.
EnterRead ==
  /\ busy.step = "read"
  /\ LET plr == Load(busy.char)
     IN IF InUse(plr.account)
        THEN /\ busy' = [step |-> "kick", sock |-> busy.sock, plr |-> plr, char |-> busy.char]
             /\ UNCHANGED players
        ELSE /\ players' = [players EXCEPT ![busy.sock] = plr]
             /\ busy' = Idle
  /\ UNCHANGED <<loginVars, keyVars, conn, dbVars, achieved>>

\* Mutant: the other player is freed unsaved.
KickUnsaved ==
  /\ busy.step = "kick"
  /\ \E s \in Present :
       /\ players[s].account = busy.plr.account
       /\ players' = [players EXCEPT ![s] = NoPlayer]
       /\ conn' = [conn EXCEPT ![s] = "dead"]
  /\ busy' = [busy EXCEPT !.step = "reread"]
  /\ UNCHANGED <<loginVars, keyVars, dbVars, achieved>>

\* exitDuplicate(): the other player is saved, and gone at once.
EnterKick ==
  /\ busy.step = "kick"
  /\ \E s \in Present :
       /\ players[s].account = busy.plr.account
       /\ Save(players[s])
       /\ players' = [players EXCEPT ![s] = NoPlayer]
       /\ conn' = [conn EXCEPT ![s] = "dead"]
  /\ busy' = [busy EXCEPT !.step = "reread"]
  /\ UNCHANGED <<loginVars, keyVars, accountVars, stage, achieved>>

\* Mutant: the player that was read before the flush enters.
EnterStale ==
  /\ busy.step = "reread"
  /\ players' = [players EXCEPT ![busy.sock] = busy.plr]
  /\ busy' = Idle
  /\ UNCHANGED <<loginVars, keyVars, conn, dbVars, achieved>>

\* The second getPlayer(), "in case it was just flushed".
EnterReread ==
  /\ busy.step = "reread"
  /\ players' = [players EXCEPT ![busy.sock] = Load(busy.char)]
  /\ busy' = Idle
  /\ UNCHANGED <<loginVars, keyVars, conn, dbVars, achieved>>

\* Any handler that changes what updatePlayer() saves.
Play(s, x) ==
  /\ busy = Idle
  /\ s \in Present /\ conn[s] = "open" /\ players[s].char # NoChar
  /\ x # Starter /\ \A c \in Chars : x \notin achieved[c]
  /\ players' = [players EXCEPT ![s].done = @ \cup {x}]
  /\ achieved' = [achieved EXCEPT ![players[s].char] = @ \cup {x}]
  /\ UNCHANGED <<loginVars, keyVars, conn, dbVars, busy>>

\* The client is gone, or silent for a minute (keepAliveTimer()).
KillConnection(s) ==
  /\ busy = Idle
  /\ conn[s] = "open"
  /\ conn' = [conn EXCEPT ![s] = "dead"]
  /\ UNCHANGED <<loginVars, keyVars, players, dbVars, achieved, busy>>

\* removePlayer() of the player of s, if PC_ENTER made one.
Leave(s) ==
  /\ IF players[s] = NoPlayer THEN UNCHANGED saved ELSE Save(players[s])
  /\ players' = [players EXCEPT ![s] = NoPlayer]

ExitGame(s) ==
  /\ busy = Idle
  /\ s \in Present /\ conn[s] = "open"
  /\ conn' = [conn EXCEPT ![s] = "dead"]
  /\ Leave(s)
  /\ UNCHANGED <<loginVars, keyVars, accountVars, stage, achieved, busy>>

CleanUpConnection(s) ==
  /\ busy = Idle
  /\ conn[s] = "dead"
  /\ conn' = [conn EXCEPT ![s] = "closed"]
  /\ Leave(s)
  /\ UNCHANGED <<loginVars, keyVars, accountVars, stage, achieved, busy>>

\* A moderator's command bans the account of a character.  Only a character
\* of it that is playing is kicked.
Ban(c) ==
  /\ busy = Idle
  /\ c \in rows /\ AccountOf[c] \notin banned
  /\ banned' = banned \cup {AccountOf[c]}
  /\ conn' = [s \in ShardSocks |->
                IF s \in Present /\ players[s].char = c THEN "dead" ELSE conn[s]]
  /\ UNCHANGED <<loginVars, keyVars, players, known, stage, saved, achieved, busy>>

Unban(c) ==
  /\ busy = Idle
  /\ c \in rows /\ AccountOf[c] \in banned
  /\ banned' = banned \ {AccountOf[c]}
  /\ UNCHANGED <<loginVars, keyVars, shardVars, known, stage, saved, achieved, busy>>

\* periodicSaveTimer(), one transaction for each player.
BeginSave ==
  /\ busy = Idle /\ Present # {}
  /\ busy' = [step |-> "save", left |-> Present]
  /\ UNCHANGED <<loginVars, keyVars, shardVars, dbVars, achieved>>

SaveNext ==
  /\ busy.step = "save"
  /\ \E s \in busy.left :
       /\ Save(players[s])
       /\ busy' = IF busy.left = {s} THEN Idle ELSE [busy EXCEPT !.left = @ \ {s}]
  /\ UNCHANGED <<loginVars, keyVars, shardVars, accountVars, stage, achieved>>

-----------------------------------------------------------------------------

NoSessions == [l \in LoginSocks |-> NoAccount]
NoLogins == [k \in Serials |-> NoChar]
NoConnections == [s \in ShardSocks |-> "closed"]
NoPlayers == [s \in ShardSocks |-> NoPlayer]

Init ==
  /\ session = NoSessions /\ hungUp = {}
  /\ pending = NoLogins /\ issued = {} /\ uses = [k \in Serials |-> 0]
  /\ conn = NoConnections /\ players = NoPlayers
  /\ known = {} /\ banned = {}
  /\ stage = [c \in Chars |-> "none"]
  /\ saved = [c \in Chars |-> {}]
  /\ achieved = saved
  /\ busy = Idle

\* The process dies and is started again; clients keep their serial keys.
Crash ==
  /\ session' = NoSessions /\ hungUp' = {}
  /\ pending' = NoLogins
  /\ conn' = NoConnections /\ players' = NoPlayers
  /\ achieved' = saved
  /\ busy' = Idle
  /\ UNCHANGED <<issued, uses, dbVars>>

LoginNext ==
  \/ \E l \in LoginSocks, a \in Accounts : Login(l, a)
  \/ \E l \in LoginSocks, a \in Accounts : NewAccount(l, a)
  \/ \E l \in LoginSocks, c \in Chars : NameSave(l, c)
  \/ \E l \in LoginSocks, c \in Chars : CharacterCreate(l, c)
  \/ \E l \in LoginSocks, c \in Chars : FinishTutorial(l, c)
  \/ \E l \in LoginSocks, c \in Chars, k \in Serials : CharacterSelect(l, c, k)
  \/ \E l \in LoginSocks, c \in Chars : CharacterDelete(l, c)
  \/ \E l \in LoginSocks : KillSession(l)
  \/ \E l \in LoginSocks : CleanUpSession(l)

ShardNext ==
  \/ \E k \in Serials : Prune(k)
  \/ \E s \in ShardSocks, k \in Serials : EnterTake(s, k)
  \/ EnterRead \/ EnterKick \/ EnterReread
  \/ \E s \in ShardSocks, x \in Progress : Play(s, x)
  \/ \E s \in ShardSocks : KillConnection(s)
  \/ \E s \in ShardSocks : ExitGame(s)
  \/ \E s \in ShardSocks : CleanUpConnection(s)
  \/ BeginSave \/ SaveNext
  \/ \E c \in Chars : Ban(c)
  \/ \E c \in Chars : Unban(c)

Next == LoginNext \/ ShardNext \/ Crash

Spec == Init /\ [][Next]_vars

\* A handler runs to its end, and both poll loops clean up at the end of
\* every iteration, whatever packets and timers the iteration had.
FairSpec ==
  /\ Spec
  /\ WF_vars(EnterRead) /\ WF_vars(EnterKick) /\ WF_vars(EnterReread) /\ WF_vars(SaveNext)
  /\ \A s \in ShardSocks : SF_vars(CleanUpConnection(s))
  /\ \A l \in LoginSocks : WF_vars(CleanUpSession(l))

-----------------------------------------------------------------------------

\* The type of the state; a serial key lets one client in, once, however often
\* it is presented.
TypeOK ==
  /\ session \in [LoginSocks -> Accounts \cup {NoAccount}]
  /\ hungUp \subseteq LoginSocks
  /\ pending \in [Serials -> Chars \cup {NoChar}]
  /\ issued \subseteq Serials
  /\ uses \in [Serials -> 0..1]
  /\ conn \in [ShardSocks -> {"closed", "open", "dead"}]
  /\ players \in [ShardSocks -> Player \cup {NoPlayer}]
  /\ known \subseteq Accounts /\ banned \subseteq known
  /\ stage \in [Chars -> Stages]
  /\ saved \in [Chars -> SUBSET Progress]
  /\ achieved \in [Chars -> SUBSET Progress]
  /\ \/ busy = Idle
     \/ busy \in [step : {"read"}, sock : ShardSocks, char : Chars]
     \/ busy \in [step : {"kick", "reread"}, sock : ShardSocks, plr : Player, char : Chars]
     \/ busy \in [step : {"save"}, left : (SUBSET ShardSocks) \ {{}}]

\* An account has one player in the shard at most, and one session in the
\* login server: exitDuplicate() looks for one and stops.  Of account 0, which
\* a character has that was deleted on its way in, there may be several.
OnePlayerPerAccount ==
  /\ \A s, t \in Present :
       players[s].account = players[t].account /\ players[s].account # NoAccount => s = t
  /\ \A k, l \in LoginSocks : session[k] = session[l] /\ session[k] # NoAccount => k = l

\* What is in memory is never behind the database, whose row the next save
\* of the player replaces: the reason why enterPlayer() reads twice.
MemoryIsNewest ==
  \A s \in Present :
    players[s].char \in rows => saved[players[s].char] \subseteq players[s].done

\* Whatever way a player leaves (exit, hang-up, timeout, kick by a second
\* login), what it achieved is in the database or still in memory.
NothingIsForgotten ==
  \A c \in rows :
    achieved[c] \subseteq saved[c] \cup UNION {players[s].done : s \in {t \in Present : players[t].char = c}}

\* Where the account may still come from without a password.
Inside(a) ==
  \/ \E l \in LoginSocks : session[l] = a
  \/ \E k \in Serials : pending[k] # NoChar /\ AccountOf[pending[k]] = a
  \/ InUse(a)
  \/ busy.step \in {"read", "kick", "reread"} /\ busy.char # NoChar /\ AccountOf[busy.char] = a

\* The ban is checked at the login only: banning the account does not reach a
\* client at the character screen, or between the servers.  But once out, by
\* whatever way, a banned account is not let in again.
BannedStayOut ==
  [][\A a \in banned : a \in banned' /\ ~Inside(a) => ~Inside(a)']_vars

\* A socket of the shard that died is released, and its player with it.
DeadAreReleased ==
  /\ \A s \in ShardSocks : conn[s] = "dead" ~> conn[s] = "closed"
  /\ \A l \in LoginSocks : l \in hungUp ~> session[l] = NoAccount
=============================================================================
