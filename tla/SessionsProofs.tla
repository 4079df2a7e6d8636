--------------------------- MODULE SessionsProofs ---------------------------
(***************************************************************************)
(* Sessions.tla: one player per account, no achievement lost, a ban that   *)
(* holds, for any number of accounts, characters, sockets and serial keys. *)
(* Access.tla, for the same login server: levels that agree and stand.     *)
(***************************************************************************)
EXTENDS Sessions, Rights, TLAPS

\* A serial key that waits was sent to one client, and let nobody in yet.
KeysAreFresh ==
  \A k \in Serials :
    /\ pending[k] # NoChar => k \in issued
    /\ pending[k] # NoChar \/ k \notin issued => uses[k] = 0

\* Only a known account has sessions and characters.
OwnersAreKnown ==
  /\ \A l \in LoginSocks : session[l] \in known \cup {NoAccount}
  /\ \A c \in rows : AccountOf[c] \in known

Finished(c) == stage[c] \in {"ready", "deleted"}

Entering == busy.step \in {"read", "kick", "reread"}

\* The login server cannot change what the shard loads, except by deleting it.
FinishedEnter ==
  /\ \A k \in Serials : pending[k] # NoChar => Finished(pending[k])
  /\ Entering => Finished(busy.char) /\ players[busy.sock] = NoPlayer
  /\ \A s \in Present : players[s].char # NoChar => Finished(players[s].char)

\* Who plays is a character of its account, or nobody.
PlayersAreGenuine ==
  \A s \in Present :
    IF players[s].char = NoChar THEN players[s] = Nobody
    ELSE players[s].account = AccountOf[players[s].char]

\* The place of the character that enters is free at the second reading, be it
\* deleted since the first.
EntryIsClear ==
  /\ busy.step = "kick" =>
       busy.plr.account = AccountOf[busy.char] \/ busy.char \notin rows
  /\ busy.step = "reread" =>
       busy.char \notin rows \/ ~InUse(AccountOf[busy.char])

\* The periodic save has yet to do players that are there.
SavesArePresent == busy.step = "save" => busy.left \subseteq Present

\* A character that was not made has done nothing.
UnbornHaveNothing ==
  \A c \in Chars : stage[c] = "none" => saved[c] = {} /\ achieved[c] = {}

IInv ==
  /\ TypeOK /\ KeysAreFresh /\ OwnersAreKnown /\ FinishedEnter /\ PlayersAreGenuine
  /\ EntryIsClear /\ SavesArePresent /\ UnbornHaveNothing
  /\ OnePlayerPerAccount /\ MemoryIsNewest /\ NothingIsForgotten

-----------------------------------------------------------------------------
(* What the proofs of the steps use.                                       *)

LEMMA Identifiers ==
  /\ \A c \in Chars : AccountOf[c] \in Accounts
  /\ NoAccount \notin Accounts /\ NoChar \notin Chars /\ Starter \in Progress
  /\ NoPlayer \notin Player
BY CharsHaveAccounts, NoPlayerIsNoPlayer

\* The fields of the handler that is between two steps.
LEMMA BusyFields ==
  ASSUME TypeOK
  PROVE  /\ Entering => busy.sock \in ShardSocks /\ busy.char \in Chars
         /\ busy.step \in {"kick", "reread"} => busy.plr \in Player
         /\ busy.step = "save" =>
              /\ busy \in [step : {"save"}, left : (SUBSET ShardSocks) \ {{}}]
              /\ busy.left \subseteq ShardSocks
         /\ busy = Idle \/ busy.step \in {"read", "kick", "reread", "save"}
         /\ Idle.step = "idle"
BY DEF TypeOK, Entering, Idle

LEMMA PlayerFields ==
  ASSUME TypeOK, NEW s \in Present
  PROVE  /\ s \in ShardSocks /\ players[s] \in Player /\ players[s] # NoPlayer
         /\ players[s].char \in Chars \cup {NoChar}
         /\ players[s].account \in Accounts \cup {NoAccount}
         /\ players[s].done \subseteq Progress
BY DEF TypeOK, Present, Player

\* Two players of one character are one.
LEMMA OnePlayerPerChar ==
  ASSUME IInv, NEW s \in Present, NEW t \in Present,
         players[s].char = players[t].char, players[s].char # NoChar
  PROVE  s = t
<1>1. players[s].char \in Chars /\ AccountOf[players[s].char] # NoAccount
  BY PlayerFields, Identifiers DEF IInv
<1>2. QED BY <1>1 DEF IInv, PlayersAreGenuine, OnePlayerPerAccount

\* getPlayer() gives what the row has, or nobody.
LEMMA LoadFields ==
  ASSUME TypeOK, NEW c \in Chars
  PROVE  /\ Load(c) \in Player /\ Load(c) # NoPlayer
         /\ c \in rows => /\ Load(c).char = c /\ Load(c).account = AccountOf[c]
                          /\ Load(c).done = saved[c]
         /\ c \notin rows => Load(c) = Nobody
<1>1. Nobody \in Player
  BY DEF Nobody, Player
<1>2. CASE c \in rows
  <2>1. Load(c) = [char |-> c, account |-> AccountOf[c], done |-> saved[c]]
    BY <1>2 DEF Load
  <2>2. saved[c] \in SUBSET Progress /\ AccountOf[c] \in Accounts
    BY Identifiers DEF TypeOK
  <2>3. Load(c) \in Player
    BY <2>1, <2>2 DEF Player
  <2>4. QED BY <1>2, <2>1, <2>3, Identifiers
<1>3. CASE c \notin rows
  BY <1>1, <1>3, Identifiers DEF Load
<1>4. QED BY <1>2, <1>3

LEMMA NobodyFields ==
  Nobody.char = NoChar /\ Nobody.account = NoAccount /\ Nobody.done = {} /\ Nobody # NoPlayer
<1>1. Nobody \in Player
  BY DEF Nobody, Player
<1>2. QED BY <1>1, Identifiers DEF Nobody

\* updatePlayer() of a player: its row becomes as new as it, no other changes.
LEMMA SaveKeepsAll ==
  ASSUME IInv, NEW s \in Present, Save(players[s])
  PROVE  /\ saved' \in [Chars -> SUBSET Progress]
         /\ \A t \in Present :
              players[t].char \in rows => saved'[players[t].char] \subseteq players[t].done
         /\ \A c \in rows : saved[c] \subseteq saved'[c]
         /\ \A c \in Chars \ rows : saved'[c] = saved[c]
         /\ players[s].char \in rows => saved'[players[s].char] = players[s].done
<1>1. players[s].done \subseteq Progress /\ rows \subseteq Chars /\ NoChar \notin rows
  BY PlayerFields, Identifiers DEF IInv, rows
<1>2. saved \in [Chars -> SUBSET Progress]
  BY DEF IInv, TypeOK
<1>3. CASE players[s].char \in rows
  <2>1. saved' = [saved EXCEPT ![players[s].char] = players[s].done]
    BY <1>3 DEF Save
  <2>2. \A t \in Present : players[t].char = players[s].char => t = s
    BY <1>1, <1>3, OnePlayerPerChar
  <2>3. saved[players[s].char] \subseteq players[s].done
    BY <1>3 DEF IInv, MemoryIsNewest
  <2>4. QED BY <1>1, <1>2, <1>3, <2>1, <2>2, <2>3 DEF IInv, MemoryIsNewest
<1>4. CASE players[s].char \notin rows
  BY <1>2, <1>4 DEF Save, IInv, MemoryIsNewest
<1>5. QED BY <1>3, <1>4

-----------------------------------------------------------------------------
(* The login server.                                                       *)

\* A step of which the shard, its keys and the characters see nothing.
LEMMA SessionStepIInv ==
  ASSUME IInv, NEW l \in LoginSocks,
         \/ \E a \in Accounts : Login(l, a) \/ NewAccount(l, a)
         \/ KillSession(l) \/ CleanUpSession(l)
  PROVE  IInv'
<1> USE DEF loginVars, keyVars, shardVars, dbVars, accountVars
<1>1. /\ UNCHANGED <<pending, issued, uses, conn, players, banned, stage, saved, achieved, busy>>
      /\ known \subseteq known' /\ known' \subseteq Accounts
  BY DEF Login, NewAccount, KillSession, CleanUpSession, IInv, TypeOK
<1>2. /\ session' \in [LoginSocks -> Accounts \cup {NoAccount}]
      /\ hungUp' \subseteq LoginSocks
  BY DEF Login, NewAccount, KillSession, CleanUpSession, IInv, TypeOK
<1>3. TypeOK'
  BY <1>1, <1>2 DEF IInv, TypeOK
<1>4. KeysAreFresh' /\ FinishedEnter' /\ PlayersAreGenuine'
  BY <1>1
  DEF IInv, KeysAreFresh, FinishedEnter, PlayersAreGenuine, Present, Finished, Entering
<1>5. EntryIsClear' /\ SavesArePresent' /\ UnbornHaveNothing'
  BY <1>1
  DEF IInv, EntryIsClear, SavesArePresent, UnbornHaveNothing, rows, Present, InUse
<1>6. MemoryIsNewest' /\ NothingIsForgotten'
  BY <1>1 DEF IInv, MemoryIsNewest, NothingIsForgotten, rows, Present
<1>7. OwnersAreKnown'
  BY <1>1 DEF Login, NewAccount, KillSession, CleanUpSession, IInv, TypeOK, OwnersAreKnown, rows
<1>8. \A j, k \in LoginSocks : session'[j] = session'[k] /\ session'[j] # NoAccount => j = k
  <2>1. ASSUME NEW a \in Accounts, Login(l, a) \/ NewAccount(l, a)
        PROVE  /\ session' = [session EXCEPT ![l] = a]
               /\ \A k \in LoginSocks : session[k] # a
    BY <2>1, Identifiers DEF Login, NewAccount, IInv, OwnersAreKnown
  <2>2. CASE \E a \in Accounts : Login(l, a) \/ NewAccount(l, a)
    BY <2>1, <2>2 DEF IInv, TypeOK, OnePlayerPerAccount
  <2>3. CASE KillSession(l) \/ CleanUpSession(l)
    BY <2>3 DEF KillSession, CleanUpSession, IInv, TypeOK, OnePlayerPerAccount
  <2>4. QED BY <2>2, <2>3
<1>9. OnePlayerPerAccount'
  BY <1>1, <1>8 DEF IInv, OnePlayerPerAccount, Present
<1>10. QED
  BY <1>3, <1>4, <1>5, <1>6, <1>7, <1>9 DEF IInv

\* Whose character screen it is has a session, so it is known.
LEMMA ManagersAreKnown ==
  ASSUME IInv, NEW l \in LoginSocks, NEW c \in Chars, Manages(l, c)
  PROVE  AccountOf[c] \in known
BY Identifiers DEF Manages, IInv, OwnersAreKnown

\* The characters that the shard has, or is about to have, are finished: a
\* step before that is about another one.
LEMMA OnlyTheFinishedPlay ==
  ASSUME IInv, NEW c \in Chars, ~Finished(c)
  PROVE  /\ \A k \in Serials : pending[k] # c
         /\ Entering => busy.char # c
         /\ \A s \in Present : players[s].char # c
BY Identifiers DEF IInv, FinishedEnter

\* A step that finishes a character, or brings it nearer to it.
LEMMA CreationIInv ==
  ASSUME IInv, NEW l \in LoginSocks, NEW c \in Chars,
         NameSave(l, c) \/ CharacterCreate(l, c) \/ FinishTutorial(l, c)
  PROVE  IInv'
<1> USE DEF loginVars, keyVars, shardVars, accountVars
<1>1. UNCHANGED <<session, hungUp, pending, issued, uses, conn, players, known, banned, busy>>
  BY DEF NameSave, CharacterCreate, FinishTutorial
<1>2. CASE UNCHANGED <<stage, saved, achieved>>
  BY <1>1, <1>2
  DEF IInv, TypeOK, KeysAreFresh, OwnersAreKnown, FinishedEnter, PlayersAreGenuine,
      EntryIsClear, SavesArePresent, UnbornHaveNothing, OnePlayerPerAccount,
      MemoryIsNewest, NothingIsForgotten, rows, Present, InUse, Finished, Entering
<1>3. CASE ~UNCHANGED <<stage, saved, achieved>>
  <2>1. PICK new \in {"named", "dressed", "ready"}, got \in SUBSET Progress :
          /\ stage[c] \in {"none", "named", "dressed"}
          /\ stage' = [stage EXCEPT ![c] = new]
          /\ saved' = [saved EXCEPT ![c] = saved[c] \cup got]
          /\ achieved' = [achieved EXCEPT ![c] = achieved[c] \cup got]
    <3>1. CASE UNCHANGED <<saved, achieved>>
      <4>1. saved' = [saved EXCEPT ![c] = saved[c] \cup {}]
        BY <3>1 DEF IInv, TypeOK
      <4>2. achieved' = [achieved EXCEPT ![c] = achieved[c] \cup {}]
        BY <3>1 DEF IInv, TypeOK
      <4>3. \E new \in {"named", "dressed", "ready"} :
              stage[c] \in {"none", "named", "dressed"} /\ stage' = [stage EXCEPT ![c] = new]
        BY <1>3, <3>1
        DEF NameSave, CharacterCreate, FinishTutorial, CreateRow, FinishRow, GrantStarter
      <4>4. QED BY <4>1, <4>2, <4>3
    <3>2. CASE ~UNCHANGED <<saved, achieved>>
      <4>1. GrantStarter(c) /\ stage[c] = "dressed"
        BY <3>2 DEF NameSave, CharacterCreate, FinishTutorial, GrantStarter
      <4>2. {Starter} \in SUBSET Progress
        BY Identifiers
      <4>3. QED BY <4>1, <4>2 DEF GrantStarter
    <3>3. QED BY <3>1, <3>2
  <2>2. ~Finished(c)
    BY <2>1 DEF Finished
  <2>3. /\ \A k \in Serials : pending[k] # c
        /\ Entering => busy.char # c
        /\ \A s \in Present : players[s].char # c
    BY <2>2, OnlyTheFinishedPlay
  <2>4. AccountOf[c] \in known
    BY ManagersAreKnown DEF NameSave, CharacterCreate, FinishTutorial
  <2>5. /\ stage' \in [Chars -> Stages] /\ stage'[c] = new
        /\ saved' \in [Chars -> SUBSET Progress] /\ saved'[c] = saved[c] \cup got
        /\ achieved' \in [Chars -> SUBSET Progress] /\ achieved'[c] = achieved[c] \cup got
        /\ \A d \in Chars \ {c} : /\ stage'[d] = stage[d] /\ saved'[d] = saved[d]
                                /\ achieved'[d] = achieved[d]
    BY <2>1 DEF IInv, TypeOK, Stages
  <2>6. /\ rows \subseteq Chars /\ rows' \subseteq Chars
        /\ \A d \in Chars \ {c} : d \in rows <=> d \in rows'
    BY <2>5 DEF rows
  <2>7. TypeOK' /\ KeysAreFresh'
    BY <1>1, <2>5 DEF IInv, TypeOK, KeysAreFresh
  <2>8. OwnersAreKnown'
    BY <1>1, <2>4, <2>6 DEF IInv, OwnersAreKnown
  <2>9. FinishedEnter'
    <3>1. \A d \in Chars : Finished(d) => Finished(d)'
      BY <2>2, <2>5 DEF Finished
    <3>2. /\ \A k \in Serials : pending[k] \in Chars \cup {NoChar}
          /\ Entering => busy.char \in Chars
          /\ \A s \in Present : players[s].char \in Chars \cup {NoChar}
      BY BusyFields, PlayerFields DEF IInv, TypeOK
    <3>3. /\ \A k \in Serials : pending'[k] # NoChar => Finished(pending[k])'
      BY <1>1, <3>1, <3>2 DEF IInv, FinishedEnter, Finished
    <3>4. Entering' => Finished(busy.char)' /\ players'[busy'.sock] = NoPlayer
      BY <1>1, <3>1, <3>2 DEF IInv, FinishedEnter, Finished, Entering
    <3>5. \A s \in Present' : players'[s].char # NoChar => Finished(players[s].char)'
      BY <1>1, <3>1, <3>2 DEF IInv, FinishedEnter, Finished, Present
    <3>6. QED BY <3>3, <3>4, <3>5 DEF FinishedEnter
  <2>10. PlayersAreGenuine' /\ SavesArePresent' /\ OnePlayerPerAccount'
    BY <1>1 DEF IInv, PlayersAreGenuine, SavesArePresent, OnePlayerPerAccount, Present
  <2>11. EntryIsClear'
    <3>1. Entering => (busy.char \in rows <=> busy.char \in rows')
      BY <2>3, <2>6, BusyFields DEF IInv
    <3>2. QED BY <1>1, <3>1 DEF IInv, EntryIsClear, Entering, InUse, Present
  <2>12. UnbornHaveNothing'
    BY <2>5 DEF IInv, UnbornHaveNothing
  <2>13. MemoryIsNewest'
    <3>1. \A s \in Present : players[s].char \in rows' =>
            players[s].char \in rows /\ saved'[players[s].char] = saved[players[s].char]
      BY <2>3, <2>5, <2>6
    <3>2. QED BY <1>1, <3>1 DEF IInv, MemoryIsNewest, Present
  <2>14. NothingIsForgotten'
    <3>1. Present' = Present
      BY <1>1 DEF Present
    <3>2. achieved[c] \subseteq saved[c]
      <4>1. CASE stage[c] = "none"
        BY <4>1 DEF IInv, UnbornHaveNothing
      <4>2. CASE stage[c] \in {"named", "dressed"}
        <5>1. c \in rows
          BY <4>2 DEF rows
        <5>2. {t \in Present : players[t].char = c} = {}
          BY <2>3
        <5>3. achieved[c] \subseteq saved[c] \cup UNION {players[s].done : s \in {}}
          BY <5>1, <5>2 DEF IInv, NothingIsForgotten
        <5>4. QED BY <5>3
      <4>3. QED BY <2>1, <4>1, <4>2
    <3>3. ASSUME NEW d \in rows'
          PROVE  achieved'[d] \subseteq
                   saved'[d] \cup UNION {players[s].done : s \in {t \in Present : players[t].char = d}}
      <4>1. CASE d = c
        BY <2>5, <3>2, <4>1
      <4>2. CASE d # c
        <5>1. d \in rows /\ saved'[d] = saved[d] /\ achieved'[d] = achieved[d]
          BY <2>5, <2>6, <4>2
        <5>2. QED BY <5>1 DEF IInv, NothingIsForgotten
      <4>3. QED BY <4>1, <4>2
    <3>4. QED BY <1>1, <3>1, <3>3 DEF NothingIsForgotten
  <2>15. QED
    BY <2>7, <2>8, <2>9, <2>10, <2>11, <2>12, <2>13, <2>14 DEF IInv
<1>4. QED BY <1>2, <1>3

\* A character that is deleted leaves the objects it is loaded in behind.
LEMMA CharacterDeleteIInv ==
  ASSUME IInv, NEW l \in LoginSocks, NEW c \in Chars, CharacterDelete(l, c)
  PROVE  IInv'
<1>1. /\ UNCHANGED <<session, hungUp, pending, issued, uses, conn, players, known, banned,
                     saved, achieved, busy>>
      /\ stage' = [stage EXCEPT ![c] = "deleted"]
  BY DEF CharacterDelete, loginVars, keyVars, shardVars, accountVars
<1>2. stage' \in [Chars -> Stages] /\ rows' \subseteq rows
  BY <1>1 DEF IInv, TypeOK, Stages, rows
<1>3. TypeOK' /\ KeysAreFresh'
  BY <1>1, <1>2 DEF IInv, TypeOK, KeysAreFresh
<1>4. OwnersAreKnown' /\ PlayersAreGenuine' /\ SavesArePresent' /\ OnePlayerPerAccount'
  BY <1>1, <1>2
  DEF IInv, OwnersAreKnown, PlayersAreGenuine, SavesArePresent, OnePlayerPerAccount, Present
<1>5. FinishedEnter'
  <2>1. \A d : Finished(d) /\ d \in Chars => Finished(d)'
    BY <1>1 DEF Finished, IInv, TypeOK
  <2>2. /\ \A k \in Serials : pending[k] \in Chars \cup {NoChar}
        /\ Entering => busy.char \in Chars
        /\ \A s \in Present : players[s].char \in Chars \cup {NoChar}
    BY BusyFields, PlayerFields DEF IInv, TypeOK
  <2>3. QED
    BY <1>1, <2>1, <2>2 DEF IInv, FinishedEnter, Finished, Entering, Present
<1>6. EntryIsClear' /\ MemoryIsNewest' /\ NothingIsForgotten'
  BY <1>1, <1>2 DEF IInv, EntryIsClear, MemoryIsNewest, NothingIsForgotten, InUse, Present
<1>7. UnbornHaveNothing'
  BY <1>1 DEF IInv, TypeOK, UnbornHaveNothing
<1>8. QED BY <1>3, <1>4, <1>5, <1>6, <1>7 DEF IInv

\* A serial key is given out, or its entry dropped.
LEMMA EntryIInv ==
  ASSUME IInv, NEW k \in Serials,
         \/ \E l \in LoginSocks, c \in Chars : CharacterSelect(l, c, k)
         \/ Prune(k)
  PROVE  IInv'
<1>1. UNCHANGED <<session, hungUp, uses, conn, players, known, banned, stage, saved,
                  achieved, busy>>
  BY DEF CharacterSelect, Prune, loginVars, shardVars, dbVars, accountVars
<1>2. PICK c \in Chars \cup {NoChar} :
        /\ pending' = [pending EXCEPT ![k] = c]
        /\ IF c = NoChar THEN issued' = issued
           ELSE k \notin issued /\ issued' = issued \cup {k} /\ Finished(c)
  BY Identifiers DEF CharacterSelect, Prune, Finished
<1>3. TypeOK'
  BY <1>1, <1>2 DEF IInv, TypeOK
<1>4. KeysAreFresh'
  BY <1>1, <1>2 DEF IInv, TypeOK, KeysAreFresh
<1>5. FinishedEnter'
  BY <1>1, <1>2 DEF IInv, TypeOK, FinishedEnter, Finished, Entering, Present
<1>6. OwnersAreKnown' /\ PlayersAreGenuine' /\ SavesArePresent' /\ OnePlayerPerAccount'
  BY <1>1
  DEF IInv, OwnersAreKnown, PlayersAreGenuine, SavesArePresent, OnePlayerPerAccount,
      Present, rows
<1>7. EntryIsClear' /\ UnbornHaveNothing' /\ MemoryIsNewest' /\ NothingIsForgotten'
  BY <1>1
  DEF IInv, EntryIsClear, UnbornHaveNothing, MemoryIsNewest, NothingIsForgotten, InUse,
      Present, rows
<1>8. QED BY <1>3, <1>4, <1>5, <1>6, <1>7 DEF IInv

-----------------------------------------------------------------------------
(* The shard.                                                              *)

\* PC_ENTER takes the entry, so that the key lets nobody in again.
LEMMA EnterTakeIInv ==
  ASSUME IInv, NEW s \in ShardSocks, NEW k \in Serials, EnterTake(s, k)
  PROVE  IInv'
<1>1. UNCHANGED <<session, hungUp, issued, players, known, banned, stage, saved, achieved>>
  BY DEF EnterTake, loginVars, dbVars, accountVars
<1>2. OwnersAreKnown' /\ PlayersAreGenuine' /\ OnePlayerPerAccount'
  BY <1>1 DEF IInv, OwnersAreKnown, PlayersAreGenuine, OnePlayerPerAccount, Present, rows
<1>3. UnbornHaveNothing' /\ MemoryIsNewest' /\ NothingIsForgotten'
  BY <1>1 DEF IInv, UnbornHaveNothing, MemoryIsNewest, NothingIsForgotten, Present, rows
<1>4. conn' \in [ShardSocks -> {"closed", "open", "dead"}]
  BY DEF EnterTake, IInv, TypeOK
<1>5. CASE pending[k] = NoChar
  <2>1. UNCHANGED <<pending, uses, busy>>
    BY <1>5 DEF EnterTake
  <2>2. TypeOK' /\ KeysAreFresh'
    BY <1>1, <1>4, <2>1 DEF IInv, TypeOK, KeysAreFresh
  <2>3. FinishedEnter' /\ EntryIsClear' /\ SavesArePresent'
    BY <1>1, <2>1
    DEF IInv, FinishedEnter, EntryIsClear, SavesArePresent, Finished, Entering, Present,
        InUse, rows
  <2>4. QED BY <1>2, <1>3, <2>2, <2>3 DEF IInv
<1>6. CASE pending[k] # NoChar
  <2>1. /\ pending' = [pending EXCEPT ![k] = NoChar]
        /\ uses' = [uses EXCEPT ![k] = uses[k] + 1]
        /\ busy' = [step |-> "read", sock |-> s, char |-> pending[k]]
        /\ players[s] = NoPlayer
    BY <1>6 DEF EnterTake
  <2>2. uses[k] = 0 /\ k \in issued /\ pending[k] \in Chars /\ Finished(pending[k])
    BY <1>6 DEF IInv, TypeOK, KeysAreFresh, FinishedEnter
  <2>3. busy' \in [step : {"read"}, sock : ShardSocks, char : Chars]
    BY <2>1, <2>2
  <2>4. TypeOK'
    BY <1>1, <1>4, <2>1, <2>2, <2>3 DEF IInv, TypeOK
  <2>5. KeysAreFresh'
    BY <1>1, <2>1, <2>2 DEF IInv, TypeOK, KeysAreFresh
  <2>6. FinishedEnter' /\ EntryIsClear' /\ SavesArePresent'
    BY <1>1, <2>1, <2>2
    DEF IInv, TypeOK, FinishedEnter, EntryIsClear, SavesArePresent, Finished, Entering, Present
  <2>7. QED BY <1>2, <1>3, <2>4, <2>5, <2>6 DEF IInv
<1>7. QED BY <1>5, <1>6

\* A player enters, whose account has no other: what the row says is all the
\* character has done.
LEMMA PlayerEnters ==
  ASSUME IInv, Entering,
         busy.char \in rows => ~InUse(AccountOf[busy.char]),
         players' = [players EXCEPT ![busy.sock] = Load(busy.char)], busy' = Idle,
         UNCHANGED <<loginVars, keyVars, conn, dbVars, achieved>>
  PROVE  IInv'
<1> DEFINE s == busy.sock
           c == busy.char
<1> USE DEF loginVars, keyVars, dbVars, accountVars
<1>1. /\ s \in ShardSocks /\ c \in Chars /\ players[s] = NoPlayer /\ Finished(c)
      /\ busy'.step = "idle"
  BY BusyFields DEF IInv, FinishedEnter, Idle
<1>2. /\ Load(c) \in Player /\ Load(c) # NoPlayer
      /\ c \in rows => /\ Load(c).char = c /\ Load(c).account = AccountOf[c]
                       /\ Load(c).done = saved[c]
      /\ c \notin rows => Load(c) = Nobody
  BY <1>1, LoadFields DEF IInv
<1>3. /\ players' \in [ShardSocks -> Player \cup {NoPlayer}]
      /\ players'[s] = Load(c)
      /\ \A t \in ShardSocks \ {s} : players'[t] = players[t]
  BY <1>1, <1>2 DEF IInv, TypeOK
<1>4. Present' = Present \cup {s} /\ s \notin Present /\ Present \subseteq ShardSocks
  BY <1>1, <1>2, <1>3 DEF Present
<1>5. \A t \in Present : players'[t] = players[t]
  BY <1>3, <1>4
<1>6. rows' = rows /\ NoChar \notin rows
  BY Identifiers DEF rows
<1>7. TypeOK' /\ KeysAreFresh' /\ OwnersAreKnown' /\ UnbornHaveNothing'
  BY <1>3, <1>6 DEF IInv, TypeOK, KeysAreFresh, OwnersAreKnown, UnbornHaveNothing
<1>8. FinishedEnter'
  BY <1>1, <1>2, <1>4, <1>5, <1>3, NobodyFields
  DEF IInv, FinishedEnter, Finished, Entering
<1>9. PlayersAreGenuine'
  <2>1. IF Load(c).char = NoChar THEN Load(c) = Nobody
        ELSE Load(c).account = AccountOf[Load(c).char]
    BY <1>1, <1>2, <1>6, NobodyFields
  <2>2. QED BY <1>3, <1>4, <1>5, <2>1 DEF IInv, PlayersAreGenuine
<1>10. EntryIsClear' /\ SavesArePresent'
  BY <1>1 DEF EntryIsClear, SavesArePresent
<1>11. OnePlayerPerAccount'
  <2>1. ASSUME NEW t \in Present, players[t].account = Load(c).account
        PROVE  Load(c).account = NoAccount
    BY <1>2, <2>1, NobodyFields DEF InUse
  <2>2. QED BY <1>3, <1>4, <1>5, <2>1 DEF IInv, OnePlayerPerAccount
<1>12. MemoryIsNewest'
  BY <1>2, <1>3, <1>4, <1>5, <1>6, NobodyFields DEF IInv, MemoryIsNewest
<1>13. NothingIsForgotten'
  <2>1. ASSUME NEW d \in rows'
        PROVE  achieved'[d] \subseteq saved'[d] \cup
                 UNION {players'[t].done : t \in {u \in Present' : players'[u].char = d}}
    <3>1. achieved[d] \subseteq
            saved[d] \cup UNION {players[t].done : t \in {u \in Present : players[u].char = d}}
      BY <1>6 DEF IInv, NothingIsForgotten
    <3>2. \A t \in Present : /\ t \in Present'
                            /\ players'[t].char = players[t].char
                            /\ players'[t].done = players[t].done
      BY <1>4, <1>5
    <3>3. QED BY <3>1, <3>2
  <2>2. QED BY <2>1 DEF NothingIsForgotten
<1>14. QED
  BY <1>7, <1>8, <1>9, <1>10, <1>11, <1>12, <1>13 DEF IInv

LEMMA EnterReadIInv ==
  ASSUME IInv, EnterRead
  PROVE  IInv'
<1> DEFINE c == busy.char
           plr == Load(c)
<1>1. busy.step = "read" /\ Entering /\ busy.sock \in ShardSocks /\ c \in Chars
  BY BusyFields DEF EnterRead, Entering, IInv
<1>2. /\ plr \in Player
      /\ c \in rows => plr.account = AccountOf[c]
  BY <1>1, LoadFields DEF IInv
<1>3. CASE ~InUse(plr.account)
  BY <1>1, <1>2, <1>3, PlayerEnters DEF EnterRead
<1>4. CASE InUse(plr.account)
  <2>1. /\ busy' = [step |-> "kick", sock |-> busy.sock, plr |-> plr, char |-> c]
        /\ UNCHANGED <<session, hungUp, pending, issued, uses, conn, players, known, banned,
                       stage, saved, achieved>>
    BY <1>4 DEF EnterRead, loginVars, keyVars, dbVars, accountVars
  <2>2. busy' \in [step : {"kick", "reread"}, sock : ShardSocks, plr : Player, char : Chars]
    BY <1>1, <1>2, <2>1
  <2>3. TypeOK' /\ KeysAreFresh'
    BY <2>1, <2>2 DEF IInv, TypeOK, KeysAreFresh
  <2>4. FinishedEnter' /\ EntryIsClear' /\ SavesArePresent'
    BY <1>1, <1>2, <2>1
    DEF IInv, FinishedEnter, EntryIsClear, SavesArePresent, Finished, Entering, Present, rows
  <2>5. OwnersAreKnown' /\ PlayersAreGenuine' /\ UnbornHaveNothing'
    BY <2>1 DEF IInv, OwnersAreKnown, PlayersAreGenuine, UnbornHaveNothing, Present, rows
  <2>6. OnePlayerPerAccount' /\ MemoryIsNewest' /\ NothingIsForgotten'
    BY <2>1 DEF IInv, OnePlayerPerAccount, MemoryIsNewest, NothingIsForgotten, Present, rows
  <2>7. QED BY <2>3, <2>4, <2>5, <2>6 DEF IInv
<1>5. QED BY <1>3, <1>4

LEMMA EnterRereadIInv ==
  ASSUME IInv, EnterReread
  PROVE  IInv'
<1>1. /\ Entering /\ players' = [players EXCEPT ![busy.sock] = Load(busy.char)]
      /\ busy' = Idle /\ UNCHANGED <<loginVars, keyVars, conn, dbVars, achieved>>
  BY DEF EnterReread, Entering
<1>2. busy.char \in rows => ~InUse(AccountOf[busy.char])
  BY DEF EnterReread, IInv, EntryIsClear
<1>3. QED BY <1>1, <1>2, PlayerEnters

\* What a player that leaves did is in its row when its object is gone.
LEMMA PlayerLeaves ==
  ASSUME IInv, NEW s \in Present, Save(players[s]),
         players' = [players EXCEPT ![s] = NoPlayer],
         UNCHANGED <<session, stage, achieved>>
  PROVE  /\ saved' \in [Chars -> SUBSET Progress]
         /\ \A c \in Chars \ rows : saved'[c] = saved[c]
         /\ players' \in [ShardSocks -> Player \cup {NoPlayer}]
         /\ Present' = Present \ {s} /\ \A t \in Present' : players'[t] = players[t]
         /\ PlayersAreGenuine' /\ OnePlayerPerAccount'
         /\ MemoryIsNewest' /\ NothingIsForgotten'
<1>1. /\ players' \in [ShardSocks -> Player \cup {NoPlayer}]
      /\ \A t \in ShardSocks \ {s} : players'[t] = players[t]
      /\ s \in ShardSocks /\ players'[s] = NoPlayer
  BY PlayerFields DEF IInv, TypeOK
<1>2. Present' = Present \ {s} /\ Present \subseteq ShardSocks
  BY <1>1 DEF Present
<1>3. \A t \in Present' : players'[t] = players[t]
  BY <1>1, <1>2
<1>4. rows' = rows /\ rows \subseteq Chars /\ NoChar \notin rows
  BY Identifiers DEF rows
<1>5. /\ saved' \in [Chars -> SUBSET Progress]
      /\ \A t \in Present :
           players[t].char \in rows => saved'[players[t].char] \subseteq players[t].done
      /\ \A c \in rows : saved[c] \subseteq saved'[c]
      /\ \A c \in Chars \ rows : saved'[c] = saved[c]
      /\ players[s].char \in rows => saved'[players[s].char] = players[s].done
  BY SaveKeepsAll
<1>6. PlayersAreGenuine' /\ OnePlayerPerAccount'
  BY <1>2, <1>3 DEF IInv, PlayersAreGenuine, OnePlayerPerAccount
<1>7. MemoryIsNewest'
  BY <1>2, <1>3, <1>4, <1>5 DEF MemoryIsNewest
<1>8. NothingIsForgotten'
  <2>1. ASSUME NEW c \in rows, NEW x \in achieved[c]
        PROVE  \/ x \in saved'[c]
               \/ \E t \in Present' : players'[t].char = c /\ x \in players'[t].done
    <3>1. \/ x \in saved[c]
          \/ \E t \in Present : players[t].char = c /\ x \in players[t].done
      BY DEF IInv, NothingIsForgotten
    <3>2. CASE x \in saved[c]
      BY <1>5, <3>2
    <3>3. CASE players[s].char = c /\ x \in players[s].done
      BY <1>5, <3>3
    <3>4. CASE \E t \in Present \ {s} : players[t].char = c /\ x \in players[t].done
      BY <1>2, <1>3, <3>4
    <3>5. QED BY <3>1, <3>2, <3>3, <3>4
  <2>2. QED BY <1>4, <2>1 DEF NothingIsForgotten
<1>9. QED BY <1>1, <1>2, <1>3, <1>5, <1>6, <1>7, <1>8

\* exitDuplicate(): when the second reading comes, the account is free.
LEMMA EnterKickIInv ==
  ASSUME IInv, EnterKick
  PROVE  IInv'
<1>1. PICK s \in Present : /\ players[s].account = busy.plr.account
                           /\ Save(players[s])
                           /\ players' = [players EXCEPT ![s] = NoPlayer]
                           /\ conn' = [conn EXCEPT ![s] = "dead"]
  BY DEF EnterKick
<1>2. /\ UNCHANGED <<session, hungUp, pending, issued, uses, known, banned, stage, achieved>>
      /\ busy.step = "kick" /\ Entering
  BY DEF EnterKick, loginVars, keyVars, accountVars, Entering
<1>3. /\ saved' \in [Chars -> SUBSET Progress]
      /\ \A c \in Chars \ rows : saved'[c] = saved[c]
      /\ players' \in [ShardSocks -> Player \cup {NoPlayer}]
      /\ Present' = Present \ {s} /\ \A t \in Present' : players'[t] = players[t]
      /\ PlayersAreGenuine' /\ OnePlayerPerAccount' /\ MemoryIsNewest' /\ NothingIsForgotten'
  BY <1>1, <1>2, PlayerLeaves
<1>4. /\ busy \in [step : {"kick", "reread"}, sock : ShardSocks, plr : Player, char : Chars]
      /\ busy' = [busy EXCEPT !.step = "reread"]
  BY <1>2 DEF EnterKick, IInv, TypeOK, Idle
<1>5. /\ busy' \in [step : {"kick", "reread"}, sock : ShardSocks, plr : Player, char : Chars]
      /\ busy'.step = "reread" /\ busy'.sock = busy.sock /\ busy'.char = busy.char
      /\ busy.sock \in ShardSocks /\ busy.char \in Chars
  BY <1>4
<1>6. conn' \in [ShardSocks -> {"closed", "open", "dead"}]
  BY <1>1 DEF IInv, TypeOK
<1>7. TypeOK' /\ KeysAreFresh'
  BY <1>2, <1>3, <1>5, <1>6 DEF IInv, TypeOK, KeysAreFresh
<1>8. OwnersAreKnown' /\ UnbornHaveNothing' /\ SavesArePresent'
  BY <1>2, <1>3, <1>5 DEF IInv, OwnersAreKnown, UnbornHaveNothing, SavesArePresent, rows
<1>9. FinishedEnter'
  <2>1. players'[busy.sock] = NoPlayer
    BY <1>1, <1>2, <1>5 DEF IInv, TypeOK, FinishedEnter
  <2>2. QED BY <1>2, <1>3, <1>5, <2>1 DEF IInv, FinishedEnter, Finished, Entering
<1>10. EntryIsClear'
  <2>1. CASE busy.char \notin rows
    BY <1>2, <1>5, <2>1 DEF EntryIsClear, rows
  <2>2. CASE busy.plr.account = AccountOf[busy.char]
    <3>1. AccountOf[busy.char] # NoAccount
      BY <1>5, Identifiers
    <3>2. \A t \in Present' : players'[t].account # AccountOf[busy.char]
      BY <1>1, <1>3, <2>2, <3>1 DEF IInv, OnePlayerPerAccount
    <3>3. QED BY <1>5, <3>2 DEF EntryIsClear, InUse
  <2>3. QED BY <1>2, <2>1, <2>2 DEF IInv, EntryIsClear
<1>11. QED
  BY <1>3, <1>7, <1>8, <1>9, <1>10 DEF IInv

\* exitGame(), or the end of a socket that died.
LEMMA LeavingIInv ==
  ASSUME IInv, NEW s \in ShardSocks, ExitGame(s) \/ CleanUpConnection(s)
  PROVE  IInv'
<1>1. /\ UNCHANGED <<session, hungUp, pending, issued, uses, known, banned, stage, achieved, busy>>
      /\ busy = Idle /\ Leave(s)
  BY DEF ExitGame, CleanUpConnection, loginVars, keyVars, accountVars
<1>2. conn' \in [ShardSocks -> {"closed", "open", "dead"}]
  BY DEF ExitGame, CleanUpConnection, IInv, TypeOK
<1>3. /\ saved' \in [Chars -> SUBSET Progress]
      /\ \A c \in Chars \ rows : saved'[c] = saved[c]
      /\ players' \in [ShardSocks -> Player \cup {NoPlayer}]
      /\ Present' \subseteq Present /\ \A t \in Present' : players'[t] = players[t]
      /\ PlayersAreGenuine' /\ OnePlayerPerAccount' /\ MemoryIsNewest' /\ NothingIsForgotten'
  <2>1. CASE players[s] = NoPlayer
    <3>1. players' = players /\ saved' = saved
      BY <1>1, <2>1 DEF Leave, IInv, TypeOK
    <3>2. QED
      BY <1>1, <3>1
      DEF IInv, TypeOK, PlayersAreGenuine, OnePlayerPerAccount, MemoryIsNewest,
          NothingIsForgotten, Present, rows
  <2>2. CASE players[s] # NoPlayer
    <3>1. s \in Present /\ Save(players[s]) /\ players' = [players EXCEPT ![s] = NoPlayer]
      BY <1>1, <2>2 DEF Leave, Present
    <3>2. QED BY <1>1, <3>1, PlayerLeaves
  <2>3. QED BY <2>1, <2>2
<1>4. TypeOK' /\ KeysAreFresh' /\ OwnersAreKnown' /\ UnbornHaveNothing'
  BY <1>1, <1>2, <1>3
  DEF IInv, TypeOK, KeysAreFresh, OwnersAreKnown, UnbornHaveNothing, rows
<1>5. FinishedEnter' /\ EntryIsClear' /\ SavesArePresent'
  BY <1>1, <1>3
  DEF IInv, FinishedEnter, EntryIsClear, SavesArePresent, Finished, Entering, Idle
<1>6. QED BY <1>3, <1>4, <1>5 DEF IInv

\* What a player does is in its object, until it is saved.
LEMMA PlayIInv ==
  ASSUME IInv, NEW s \in ShardSocks, NEW x \in Progress, Play(s, x)
  PROVE  IInv'
<1> DEFINE c == players[s].char
<1>1. /\ UNCHANGED <<session, hungUp, pending, issued, uses, conn, known, banned, stage, saved, busy>>
      /\ s \in Present /\ c # NoChar /\ busy = Idle
      /\ players' = [players EXCEPT ![s].done = @ \cup {x}]
      /\ achieved' = [achieved EXCEPT ![c] = @ \cup {x}]
  BY DEF Play, loginVars, keyVars, dbVars, accountVars
<1>2. /\ players[s] \in Player /\ players[s] # NoPlayer /\ c \in Chars
      /\ Finished(c)
  BY <1>1, PlayerFields DEF IInv, FinishedEnter
<1>3. /\ players'[s] \in Player /\ players'[s] # NoPlayer /\ players'[s].char = c
      /\ players'[s].account = players[s].account
      /\ players'[s].done = players[s].done \cup {x}
      /\ \A t \in ShardSocks \ {s} : players'[t] = players[t]
      /\ players' \in [ShardSocks -> Player \cup {NoPlayer}]
  <2>1. players'[s] = [players[s] EXCEPT !.done = @ \cup {x}]
    BY <1>1 DEF IInv, TypeOK
  <2>2. /\ players'[s] \in Player /\ players'[s].char = c
        /\ players'[s].account = players[s].account
        /\ players'[s].done = players[s].done \cup {x}
    BY <1>2, <2>1 DEF Player
  <2>3. QED BY <1>1, <2>2, Identifiers DEF IInv, TypeOK
<1>4. Present' = Present /\ rows' = rows /\ rows \subseteq Chars /\ Present \subseteq ShardSocks
  BY <1>1, <1>2, <1>3 DEF Present, rows
<1>5. \A t \in Present :
        /\ players'[t].char = players[t].char
        /\ players'[t].account = players[t].account
        /\ players[t].done \subseteq players'[t].done
        /\ players[t] = Nobody => players'[t] = Nobody
  BY <1>1, <1>3, <1>4, NobodyFields
<1>6. /\ achieved' \in [Chars -> SUBSET Progress]
      /\ achieved'[c] = achieved[c] \cup {x}
      /\ \A d \in Chars \ {c} : achieved'[d] = achieved[d]
  BY <1>1, <1>2 DEF IInv, TypeOK
<1>7. TypeOK' /\ KeysAreFresh' /\ OwnersAreKnown'
  BY <1>1, <1>3, <1>4, <1>6 DEF IInv, TypeOK, KeysAreFresh, OwnersAreKnown
<1>8. FinishedEnter' /\ EntryIsClear' /\ SavesArePresent'
  BY <1>1, <1>4, <1>5
  DEF IInv, FinishedEnter, EntryIsClear, SavesArePresent, Finished, Entering, Idle
<1>9. UnbornHaveNothing'
  BY <1>1, <1>2, <1>6 DEF IInv, UnbornHaveNothing, Finished
<1>10. PlayersAreGenuine' /\ OnePlayerPerAccount'
  BY <1>1, <1>4, <1>5 DEF IInv, PlayersAreGenuine, OnePlayerPerAccount
<1>11. MemoryIsNewest'
  <2>1. \A t \in Present : players[t].char \in rows =>
          saved[players[t].char] \subseteq players'[t].done
    BY <1>5 DEF IInv, MemoryIsNewest
  <2>2. QED BY <1>1, <1>4, <1>5, <2>1 DEF MemoryIsNewest
<1>12. NothingIsForgotten'
  <2>1. ASSUME NEW d \in rows, NEW y \in achieved'[d]
        PROVE  \/ y \in saved[d]
               \/ \E t \in Present : players'[t].char = d /\ y \in players'[t].done
    <3>1. CASE y \in achieved[d]
      <4>1. \/ y \in saved[d]
            \/ \E t \in Present : players[t].char = d /\ y \in players[t].done
        BY <3>1 DEF IInv, NothingIsForgotten
      <4>2. QED BY <1>5, <4>1
    <3>2. CASE y \notin achieved[d]
      <4>1. d = c /\ y = x
        BY <1>4, <1>6, <3>2
      <4>2. players'[s].char = d /\ y \in players'[s].done
        BY <1>3, <4>1
      <4>3. QED BY <1>1, <4>2
    <3>3. QED BY <3>1, <3>2
  <2>2. QED BY <1>1, <1>4, <2>1 DEF NothingIsForgotten
<1>13. QED
  BY <1>7, <1>8, <1>9, <1>10, <1>11, <1>12 DEF IInv

\* A step that ends connections or bans accounts leaves players and rows alone.
LEMMA ConnectionIInv ==
  ASSUME IInv,
         \/ \E s \in ShardSocks : KillConnection(s)
         \/ \E c \in Chars : Ban(c) \/ Unban(c)
  PROVE  IInv'
<1>1. UNCHANGED <<session, hungUp, pending, issued, uses, players, known, stage, saved,
                  achieved, busy>>
  BY DEF KillConnection, Ban, Unban, loginVars, keyVars, shardVars, dbVars, accountVars
<1>2. conn' \in [ShardSocks -> {"closed", "open", "dead"}]
  BY DEF KillConnection, Ban, Unban, shardVars, IInv, TypeOK
<1>3. banned' \subseteq known
  BY DEF KillConnection, Ban, Unban, dbVars, accountVars, IInv, TypeOK, OwnersAreKnown, rows
<1>4. TypeOK' /\ KeysAreFresh'
  BY <1>1, <1>2, <1>3 DEF IInv, TypeOK, KeysAreFresh
<1>5. OwnersAreKnown' /\ FinishedEnter' /\ PlayersAreGenuine' /\ EntryIsClear'
  BY <1>1
  DEF IInv, OwnersAreKnown, FinishedEnter, PlayersAreGenuine, EntryIsClear, Present,
      Finished, Entering, InUse, rows
<1>6. SavesArePresent' /\ UnbornHaveNothing' /\ OnePlayerPerAccount' /\ MemoryIsNewest'
      /\ NothingIsForgotten'
  BY <1>1
  DEF IInv, SavesArePresent, UnbornHaveNothing, OnePlayerPerAccount, MemoryIsNewest,
      NothingIsForgotten, Present, rows
<1>7. QED BY <1>4, <1>5, <1>6 DEF IInv

\* periodicSaveTimer()
LEMMA SaveIInv ==
  ASSUME IInv, BeginSave \/ SaveNext
  PROVE  IInv'
<1>1. UNCHANGED <<session, hungUp, pending, issued, uses, conn, players, known, banned,
                  stage, achieved>>
  BY DEF BeginSave, SaveNext, loginVars, keyVars, shardVars, dbVars, accountVars
<1>2. /\ saved' \in [Chars -> SUBSET Progress]
      /\ \A t \in Present :
           players[t].char \in rows => saved'[players[t].char] \subseteq players[t].done
      /\ \A c \in rows : saved[c] \subseteq saved'[c]
      /\ \A c \in Chars \ rows : saved'[c] = saved[c]
  <2>1. CASE BeginSave
    BY <2>1 DEF BeginSave, dbVars, IInv, TypeOK, MemoryIsNewest
  <2>2. CASE SaveNext
    <3>1. PICK s \in busy.left : Save(players[s])
      BY <2>2 DEF SaveNext
    <3>2. s \in Present
      BY <2>2, <3>1 DEF SaveNext, IInv, SavesArePresent
    <3>3. QED BY <3>1, <3>2, SaveKeepsAll
  <2>3. QED BY <2>1, <2>2
<1>3. busy' = Idle \/ busy' \in [step : {"save"}, left : (SUBSET Present) \ {{}}]
  <2>1. CASE BeginSave
    BY <2>1 DEF BeginSave
  <2>2. CASE SaveNext
    <3>1. PICK s \in busy.left :
            busy' = IF busy.left = {s} THEN Idle ELSE [busy EXCEPT !.left = @ \ {s}]
      BY <2>2 DEF SaveNext
    <3>2. /\ busy \in [step : {"save"}, left : (SUBSET ShardSocks) \ {{}}]
          /\ busy.left \subseteq Present
      BY <2>2, BusyFields DEF SaveNext, IInv, SavesArePresent
    <3>3. QED BY <3>1, <3>2
  <2>3. QED BY <2>1, <2>2
<1>4. Present' = Present /\ Present \subseteq ShardSocks /\ rows' = rows
  BY <1>1 DEF Present, rows
<1>5. TypeOK' /\ KeysAreFresh'
  <2>1. busy' = Idle \/ busy' \in [step : {"save"}, left : (SUBSET ShardSocks) \ {{}}]
    BY <1>3, <1>4
  <2>2. QED BY <1>1, <1>2, <2>1 DEF IInv, TypeOK, KeysAreFresh
<1>6. busy'.step \notin {"read", "kick", "reread"}
  BY <1>3 DEF Idle
<1>7. OwnersAreKnown' /\ FinishedEnter' /\ EntryIsClear' /\ SavesArePresent'
  <2>1. SavesArePresent'
    BY <1>3, <1>4 DEF SavesArePresent, Idle
  <2>2. QED
    BY <1>1, <1>4, <1>6, <2>1
    DEF IInv, OwnersAreKnown, FinishedEnter, EntryIsClear, Finished, Entering
<1>8. PlayersAreGenuine' /\ UnbornHaveNothing' /\ OnePlayerPerAccount'
  BY <1>1, <1>2
  DEF IInv, PlayersAreGenuine, UnbornHaveNothing, OnePlayerPerAccount, Present, rows
<1>9. MemoryIsNewest'
  BY <1>1, <1>2, <1>4 DEF MemoryIsNewest
<1>10. NothingIsForgotten'
  <2>1. \A c \in rows : saved[c] \subseteq saved'[c]
    BY <1>2
  <2>2. QED BY <1>1, <1>4, <2>1 DEF IInv, NothingIsForgotten
<1>11. QED BY <1>5, <1>7, <1>8, <1>9, <1>10 DEF IInv

\* A crash takes back what was not saved, and nobody plays after it.
LEMMA CrashIInv ==
  ASSUME IInv, Crash
  PROVE  IInv'
<1> USE DEF Crash, NoSessions, NoLogins, NoConnections, NoPlayers, dbVars, accountVars
<1>1. Present' = {} /\ rows' = rows /\ rows \subseteq Chars /\ busy'.step = "idle"
  BY DEF Present, rows, Idle
<1>2. TypeOK' /\ KeysAreFresh' /\ OwnersAreKnown'
  BY <1>1 DEF IInv, TypeOK, KeysAreFresh, OwnersAreKnown
<1>3. FinishedEnter' /\ PlayersAreGenuine' /\ EntryIsClear' /\ SavesArePresent'
  BY <1>1 DEF FinishedEnter, PlayersAreGenuine, EntryIsClear, SavesArePresent, Entering
<1>4. UnbornHaveNothing'
  <2>1. ASSUME NEW c \in Chars, stage[c] = "none" PROVE saved[c] = {}
    BY <2>1 DEF IInv, UnbornHaveNothing
  <2>2. QED BY <2>1 DEF UnbornHaveNothing
<1>5. OnePlayerPerAccount' /\ MemoryIsNewest' /\ NothingIsForgotten'
  BY <1>1, Identifiers DEF OnePlayerPerAccount, MemoryIsNewest, NothingIsForgotten
<1>6. QED BY <1>2, <1>3, <1>4, <1>5 DEF IInv

LEMMA InitIInv == Init => IInv
<1> SUFFICES ASSUME Init PROVE IInv
  OBVIOUS
<1> USE DEF Init, NoSessions, NoLogins, NoConnections, NoPlayers
<1>1. Present = {} /\ rows = {} /\ busy.step = "idle"
  BY DEF Present, rows, Idle
<1>2. TypeOK /\ KeysAreFresh /\ OwnersAreKnown /\ UnbornHaveNothing
  BY <1>1 DEF TypeOK, KeysAreFresh, OwnersAreKnown, UnbornHaveNothing, Stages
<1>3. FinishedEnter /\ PlayersAreGenuine /\ EntryIsClear /\ SavesArePresent
  BY <1>1 DEF FinishedEnter, PlayersAreGenuine, EntryIsClear, SavesArePresent, Entering
<1>4. OnePlayerPerAccount /\ MemoryIsNewest /\ NothingIsForgotten
  BY <1>1 DEF OnePlayerPerAccount, MemoryIsNewest, NothingIsForgotten
<1>5. QED BY <1>2, <1>3, <1>4 DEF IInv

LEMMA NextIInv == IInv /\ [Next]_vars => IInv'
<1> SUFFICES ASSUME IInv, [Next]_vars PROVE IInv'
  OBVIOUS
<1>1. CASE LoginNext
  BY <1>1, SessionStepIInv, CreationIInv, EntryIInv, CharacterDeleteIInv DEF LoginNext
<1>2. CASE ShardNext
  BY <1>2, EntryIInv, EnterTakeIInv, EnterReadIInv, EnterKickIInv, EnterRereadIInv,
     PlayIInv, ConnectionIInv, LeavingIInv, SaveIInv DEF ShardNext
<1>3. CASE Crash
  BY <1>3, CrashIInv
<1>4. CASE UNCHANGED vars
  <2>1. UNCHANGED <<session, hungUp, pending, issued, uses, conn, players, known, banned,
                    stage, saved, achieved, busy>>
    BY <1>4 DEF vars, loginVars, keyVars, shardVars, dbVars, accountVars
  <2>2. TypeOK' /\ KeysAreFresh' /\ OwnersAreKnown' /\ FinishedEnter' /\ PlayersAreGenuine'
    BY <2>1
    DEF IInv, TypeOK, KeysAreFresh, OwnersAreKnown, FinishedEnter, PlayersAreGenuine,
        Finished, Entering, Present, rows
  <2>3. EntryIsClear' /\ SavesArePresent' /\ UnbornHaveNothing'
    BY <2>1 DEF IInv, EntryIsClear, SavesArePresent, UnbornHaveNothing, InUse, Present, rows
  <2>4. OnePlayerPerAccount' /\ MemoryIsNewest' /\ NothingIsForgotten'
    BY <2>1 DEF IInv, OnePlayerPerAccount, MemoryIsNewest, NothingIsForgotten, Present, rows
  <2>5. QED BY <2>2, <2>3, <2>4 DEF IInv
<1>5. QED BY <1>1, <1>2, <1>3, <1>4 DEF Next

-----------------------------------------------------------------------------
(* The ban.                                                                *)

\* A banned account that is out stays out of a step.
LEMMA NobodyGetsIn ==
  ASSUME IInv, [Next]_vars, NEW a \in banned, a \in banned', Inside(a)'
  PROVE  Inside(a)
<1> DEFINE InSession == \E l \in LoginSocks : session[l] = a
           HasKey == \E k \in Serials : pending[k] # NoChar /\ AccountOf[pending[k]] = a
           IsEntering == Entering /\ busy.char # NoChar /\ AccountOf[busy.char] = a
<1>1. Inside(a) <=> InSession \/ HasKey \/ InUse(a) \/ IsEntering
  BY DEF Inside, Entering
<1>2. Inside(a)' <=> InSession' \/ HasKey' \/ InUse(a)' \/ IsEntering'
  BY DEF Inside, Entering
<1>3. a \in Accounts /\ a \in known /\ a # NoAccount
  BY Identifiers DEF IInv, TypeOK
<1> USE DEF vars, loginVars, keyVars, shardVars, dbVars, accountVars
<1>4. InSession' => InSession
  <2>1. CASE UNCHANGED session
    BY <2>1
  <2>2. ASSUME NEW l \in LoginSocks, NEW b \in Accounts, Login(l, b) \/ NewAccount(l, b)
        PROVE  InSession' => InSession
    BY <1>3, <2>2 DEF Login, NewAccount, IInv, TypeOK
  <2>3. ASSUME NEW l \in LoginSocks, CleanUpSession(l)
        PROVE  InSession' => InSession
    BY <1>3, <2>3 DEF CleanUpSession, IInv, TypeOK
  <2>4. CASE Crash
    BY <1>3, <2>4 DEF Crash, NoSessions
  <2>5. UNCHANGED session \/ Crash
        \/ \E l \in LoginSocks : \/ \E b \in Accounts : Login(l, b) \/ NewAccount(l, b)
                               \/ CleanUpSession(l)
    BY DEF Next, LoginNext, ShardNext, NameSave, CharacterCreate, FinishTutorial,
           CharacterSelect, CharacterDelete, KillSession, Prune, EnterTake, EnterRead,
           EnterKick, EnterReread, Play, KillConnection, ExitGame, CleanUpConnection,
           BeginSave, SaveNext, Ban, Unban
  <2>6. QED BY <2>1, <2>2, <2>3, <2>4, <2>5
<1>5. HasKey' => HasKey \/ InSession
  <2>1. CASE UNCHANGED pending
    BY <2>1
  <2>2. ASSUME NEW l \in LoginSocks, NEW c \in Chars, NEW k \in Serials, CharacterSelect(l, c, k)
        PROVE  HasKey' => HasKey \/ InSession
    BY <2>2 DEF CharacterSelect, Manages, IInv, TypeOK
  <2>3. ASSUME NEW k \in Serials, Prune(k) \/ \E s \in ShardSocks : EnterTake(s, k)
        PROVE  HasKey' => HasKey
    BY <2>3 DEF Prune, EnterTake, IInv, TypeOK
  <2>4. CASE Crash
    BY <2>4 DEF Crash, NoLogins
  <2>5. UNCHANGED pending \/ Crash
        \/ \E k \in Serials :
             \/ \E l \in LoginSocks, c \in Chars : CharacterSelect(l, c, k)
             \/ Prune(k) \/ \E s \in ShardSocks : EnterTake(s, k)
    BY DEF Next, LoginNext, ShardNext, Login, NewAccount, NameSave, CharacterCreate,
           FinishTutorial, CharacterDelete, KillSession, CleanUpSession, EnterRead,
           EnterKick, EnterReread, Play, KillConnection, ExitGame, CleanUpConnection,
           BeginSave, SaveNext, Ban, Unban
  <2>6. QED BY <2>1, <2>2, <2>3, <2>4, <2>5
<1>6. IsEntering' => IsEntering \/ HasKey
  <2>1. CASE UNCHANGED busy
    BY <2>1 DEF Entering
  <2>2. ASSUME NEW s \in ShardSocks, NEW k \in Serials, EnterTake(s, k)
        PROVE  IsEntering' => IsEntering \/ HasKey
    BY <2>2 DEF EnterTake, Entering
  <2>3. CASE EnterRead \/ EnterKick
    <3>1. busy' = Idle \/ busy'.char = busy.char
      BY <2>3 DEF EnterRead, EnterKick, IInv, TypeOK, Idle
    <3>2. QED BY <2>3, <3>1 DEF EnterRead, EnterKick, Entering, Idle
  <2>4. CASE busy' = Idle \/ busy'.step = "save"
    BY <2>4 DEF Entering, Idle
  <2>5. ASSUME BeginSave \/ SaveNext
        PROVE  busy' = Idle \/ busy'.step = "save"
    BY <2>5, BusyFields DEF BeginSave, SaveNext, IInv
  <2>6. \/ UNCHANGED busy \/ busy' = Idle \/ EnterRead \/ EnterKick
        \/ \E s \in ShardSocks, k \in Serials : EnterTake(s, k)
        \/ BeginSave \/ SaveNext
    BY DEF Next, LoginNext, ShardNext, Login, NewAccount, NameSave, CharacterCreate,
           FinishTutorial, CharacterSelect, CharacterDelete, KillSession, CleanUpSession,
           Prune, EnterReread, Play, KillConnection, ExitGame, CleanUpConnection, Ban,
           Unban, Crash
  <2>7. QED BY <2>1, <2>2, <2>3, <2>4, <2>5, <2>6
<1>7. InUse(a)' => InUse(a) \/ IsEntering
  <2>1. ASSUME Entering, players' = [players EXCEPT ![busy.sock] = Load(busy.char)]
        PROVE  InUse(a)' => InUse(a) \/ IsEntering
    <3>1. busy.sock \in ShardSocks /\ busy.char \in Chars /\ busy.char # NoChar
      BY <2>1, BusyFields, Identifiers DEF IInv
    <3>2. Load(busy.char).account = a => AccountOf[busy.char] = a
      BY <1>3, <3>1, LoadFields, NobodyFields DEF IInv
    <3>3. QED BY <2>1, <3>1, <3>2 DEF InUse, Present, IInv, TypeOK
  <2>2. ASSUME NEW s \in ShardSocks, NEW x \in Progress, Play(s, x)
        PROVE  InUse(a)' => InUse(a)
    <3>1. /\ s \in Present /\ players' = [players EXCEPT ![s].done = @ \cup {x}]
      BY <2>2 DEF Play
    <3>2. players'[s].account = players[s].account
      BY <3>1, PlayerFields DEF IInv, TypeOK, Player
    <3>3. \A t \in ShardSocks \ {s} : players'[t] = players[t]
      BY <3>1 DEF IInv, TypeOK
    <3>4. QED BY <3>1, <3>2, <3>3 DEF InUse, Present
  <2>3. ASSUME NEW s \in ShardSocks, players' = [players EXCEPT ![s] = NoPlayer]
        PROVE  InUse(a)' => InUse(a)
    BY <2>3 DEF InUse, Present, IInv, TypeOK
  <2>4. CASE UNCHANGED players
    BY <2>4 DEF InUse, Present
  <2>5. CASE Crash
    BY <2>5 DEF Crash, NoPlayers, InUse, Present
  <2>6. CASE EnterRead \/ EnterReread
    BY <2>1, <2>4, <2>6 DEF EnterRead, EnterReread, Entering
  <2>7. CASE EnterKick
    BY <2>3, <2>7 DEF EnterKick, Present
  <2>8. ASSUME NEW s \in ShardSocks, ExitGame(s) \/ CleanUpConnection(s)
        PROVE  InUse(a)' => InUse(a)
    BY <2>3, <2>8 DEF ExitGame, CleanUpConnection, Leave
  <2>9. \/ UNCHANGED players \/ EnterRead \/ EnterReread \/ EnterKick \/ Crash
        \/ \E s \in ShardSocks : \/ \E x \in Progress : Play(s, x)
                              \/ ExitGame(s) \/ CleanUpConnection(s)
    BY DEF Next, LoginNext, ShardNext, Login, NewAccount, NameSave, CharacterCreate,
           FinishTutorial, CharacterSelect, CharacterDelete, KillSession, CleanUpSession,
           Prune, EnterTake, KillConnection, BeginSave, SaveNext, Ban, Unban
  <2>10. QED BY <2>2, <2>4, <2>5, <2>6, <2>7, <2>8, <2>9
<1>8. QED BY <1>1, <1>2, <1>4, <1>5, <1>6, <1>7

-----------------------------------------------------------------------------

\* The inductive invariant.
THEOREM SessionsIsInvariant == Spec => []IInv
BY InitIInv, NextIInv, PTL DEF Spec

\* A serial key of characterSelect() lets one client in, once.
THEOREM TypeIsInvariant == Spec => []TypeOK
<1>1. IInv => TypeOK
  BY DEF IInv
<1>2. QED BY <1>1, SessionsIsInvariant, PTL

\* enterPlayer() and login(): an account never plays twice.
THEOREM AccountsPlayOnce == Spec => []OnePlayerPerAccount
<1>1. IInv => OnePlayerPerAccount
  BY DEF IInv
<1>2. QED BY <1>1, SessionsIsInvariant, PTL

\* enterPlayer() reads twice, so that no save takes anything back.
THEOREM MemoryIsAlwaysNewest == Spec => []MemoryIsNewest
<1>1. IInv => MemoryIsNewest
  BY DEF IInv
<1>2. QED BY <1>1, SessionsIsInvariant, PTL

\* removePlayer() is on every way out, and saves.
THEOREM NothingIsEverForgotten == Spec => []NothingIsForgotten
<1>1. IInv => NothingIsForgotten
  BY DEF IInv
<1>2. QED BY <1>1, SessionsIsInvariant, PTL

\* login() is the only way in from outside, and asks for the ban.
THEOREM TheBannedStayOut == Spec => BannedStayOut
<1>1. IInv /\ [Next]_vars
        => [\A a \in banned : a \in banned' /\ ~Inside(a) => ~Inside(a)']_vars
  BY NobodyGetsIn
<1>2. QED BY <1>1, SessionsIsInvariant, PTL DEF Spec, BannedStayOut

-----------------------------------------------------------------------------
(***************************************************************************)
(* Access.tla is about the same accounts, login sockets, sessions and      *)
(* bans.  It keeps the copies of the levels in step and its chief safe,    *)
(* whatever the accounts, the levels and the settings are.                 *)
(***************************************************************************)
A == INSTANCE Access

\* A cookie that is good has let nobody in yet.
CookiesAreFresh == \A a \in Accounts : cookie[a] = "good" => opened[a] = 0

\* Who plays has an account: what the table does not know, nobody plays.
PlayersAreFound == \A a \in Accounts : player[a] # 0 => Found(a)

\* The chief plays with the level it was given, though its row may be deleted
\* meanwhile, when LevelsAgree says nothing of it.
ChiefPlaysOnTop == player[Chief] # 0 => player[Chief] = Top

AccessIInv ==
  /\ AccessTypeOK /\ CookiesAreFresh /\ PlayersAreFound
  /\ LevelsAgree /\ ChiefStands /\ ChiefPlaysOnTop

LEMMA LevelsAreNumbers ==
  /\ Levels \subseteq Nat /\ 0 \notin Levels /\ Top \in Levels /\ NewLevel \in Levels
  /\ Moderator \in Nat /\ Top < NewLevel /\ Top <= Moderator
  /\ \A n \in Levels : Top <= n
  /\ Chief \in Accounts /\ NoAccount \notin Accounts
BY LevelsAreRanked

LEMMA AccessInit == A!Init => AccessIInv
<1> SUFFICES ASSUME A!Init PROVE AccessIInv
  OBVIOUS
<1> USE LevelsAreNumbers DEF A!Init
<1>1. AccessTypeOK
  BY DEF AccessTypeOK, A!Found, Found
<1>2. CookiesAreFresh /\ PlayersAreFound /\ LevelsAgree /\ ChiefPlaysOnTop
  BY DEF CookiesAreFresh, PlayersAreFound, LevelsAgree, ChiefPlaysOnTop
<1>3. ChiefStands
  BY DEF ChiefStands, A!Found, Found
<1>4. QED BY <1>1, <1>2, <1>3 DEF AccessIInv

-----------------------------------------------------------------------------
(* The login server.                                                       *)

LEMMA LoginIInv ==
  ASSUME AccessIInv, NEW l \in LoginSocks, NEW a \in Accounts, NEW fields, NEW token,
         A!Login(l, a, fields, token)
  PROVE  AccessIInv'
<1>1. UNCHANGED <<level, banned, player, gone, cut>>
  BY DEF A!Login, A!shardVars
<1>2. cookie' \in [Accounts -> {"none", "good", "spent"}]
  BY DEF A!Login, A!CheckCookie, AccessIInv, AccessTypeOK
<1>3. session' \in [LoginSocks -> Accounts \cup {NoAccount}]
  BY DEF A!Login, AccessIInv, AccessTypeOK
<1>4. CASE A!Matches(a, fields, token)
  <2>1. cookie[a] = "good" /\ cookie' = [cookie EXCEPT ![a] = "spent"]
    BY <1>4 DEF A!Login, A!CheckCookie, A!Matches
  <2>2. opened[a] = 0
    BY <2>1 DEF AccessIInv, CookiesAreFresh
  <2>3. opened' = opened \/ opened' = [opened EXCEPT ![a] = opened[a] + 1]
    BY DEF A!Login
  <2>4. opened' \in [Accounts -> 0..1] /\ CookiesAreFresh'
    BY <2>1, <2>2, <2>3 DEF AccessIInv, AccessTypeOK, CookiesAreFresh
  <2>5. QED
    BY <1>1, <1>2, <1>3, <2>4
    DEF AccessIInv, AccessTypeOK, PlayersAreFound, LevelsAgree, ChiefStands, ChiefPlaysOnTop, A!Found, Found
<1>5. CASE ~A!Matches(a, fields, token)
  <2>1. UNCHANGED <<cookie, opened>>
    BY <1>5 DEF A!Login, A!CheckCookie
  <2>2. QED
    BY <1>1, <1>3, <2>1
    DEF AccessIInv, AccessTypeOK, CookiesAreFresh, PlayersAreFound, LevelsAgree, ChiefStands,
        ChiefPlaysOnTop, A!Found, Found
<1>6. QED BY <1>4, <1>5

\* A new account has the level of the settings; nobody can have played it.
LEMMA NewAccountIInv ==
  ASSUME AccessIInv, NEW l \in LoginSocks, NEW a \in Accounts, A!NewAccount(l, a)
  PROVE  AccessIInv'
<1> USE LevelsAreNumbers DEF A!NewAccount, A!shardVars, A!Found, Found
<1>1. level[a] = 0 /\ a # Chief /\ player[a] = 0
  BY DEF AccessIInv, ChiefStands, PlayersAreFound
<1>2. AccessTypeOK' /\ CookiesAreFresh' /\ PlayersAreFound'
  BY <1>1 DEF AccessIInv, AccessTypeOK, CookiesAreFresh, PlayersAreFound
<1>3. LevelsAgree' /\ ChiefPlaysOnTop'
  BY <1>1 DEF AccessIInv, AccessTypeOK, LevelsAgree, ChiefPlaysOnTop
<1>4. ChiefStands'
  BY <1>1 DEF AccessIInv, AccessTypeOK, ChiefStands
<1>5. QED BY <1>2, <1>3, <1>4 DEF AccessIInv

LEMMA SocketsIInv ==
  ASSUME AccessIInv, NEW l \in LoginSocks, NEW a \in Accounts,
         A!HangUp(l) \/ A!CharacterDelete(l, a)
  PROVE  AccessIInv'
<1>1. UNCHANGED <<level, banned, cookie, opened, player, cut>> /\ gone \subseteq gone'
  BY DEF A!HangUp, A!CharacterDelete, A!shardVars
<1>2. session' \in [LoginSocks -> Accounts \cup {NoAccount}]
  BY DEF A!HangUp, A!CharacterDelete, AccessIInv, AccessTypeOK
<1>3. gone' \subseteq {b \in Accounts : player[b] # 0}
  BY DEF A!HangUp, A!CharacterDelete, A!shardVars, AccessIInv, AccessTypeOK
<1>4. QED
  BY <1>1, <1>2, <1>3
  DEF AccessIInv, AccessTypeOK, CookiesAreFresh, PlayersAreFound, LevelsAgree, ChiefStands,
      ChiefPlaysOnTop, A!Found, Found

\* What writes a cookie only: time, the other program, the way to the exit.
LEMMA CookiesIInv ==
  ASSUME AccessIInv, NEW a \in Accounts,
         A!GrantCookie(a) \/ A!CookieExpires(a) \/ A!RefreshCookie(a)
  PROVE  /\ cookie' \in [Accounts -> {"none", "good", "spent"}]
         /\ opened' \in [Accounts -> 0..1]
         /\ CookiesAreFresh'
BY DEF A!GrantCookie, A!CookieExpires, A!RefreshCookie, AccessIInv, AccessTypeOK, CookiesAreFresh

-----------------------------------------------------------------------------
(* The shard.                                                              *)

LEMMA EnterGameIInv ==
  ASSUME AccessIInv, NEW a \in Accounts, A!EnterGame(a)
  PROVE  AccessIInv'
<1> USE LevelsAreNumbers DEF A!EnterGame
<1>1. a \notin gone /\ level[a] \in Levels \cup {0}
  BY DEF AccessIInv, AccessTypeOK
<1>2. AccessTypeOK' /\ CookiesAreFresh' /\ PlayersAreFound'
  BY <1>1 DEF AccessIInv, AccessTypeOK, CookiesAreFresh, PlayersAreFound, A!Found, Found
<1>3. LevelsAgree' /\ ChiefStands' /\ ChiefPlaysOnTop'
  BY <1>1 DEF AccessIInv, AccessTypeOK, LevelsAgree, ChiefStands, ChiefPlaysOnTop, A!Found, Found
<1>4. QED BY <1>2, <1>3 DEF AccessIInv

LEMMA LogoutIInv ==
  ASSUME AccessIInv, NEW a \in Accounts, A!Disconnect(a) \/ A!ExitGame(a)
  PROVE  AccessIInv'
<1> USE LevelsAreNumbers
<1>1. /\ UNCHANGED <<level, banned, session>>
      /\ player' = [player EXCEPT ![a] = 0]
      /\ gone' = gone \ {a} /\ cut' = cut \ {a}
  BY DEF A!Disconnect, A!ExitGame, A!RemovePlayer
<1>2. /\ cookie' \in [Accounts -> {"none", "good", "spent"}]
      /\ opened' \in [Accounts -> 0..1]
      /\ CookiesAreFresh'
  BY CookiesIInv DEF A!Disconnect, A!ExitGame, AccessIInv, AccessTypeOK, CookiesAreFresh
<1>3. AccessTypeOK' /\ PlayersAreFound'
  BY <1>1, <1>2 DEF AccessIInv, AccessTypeOK, PlayersAreFound, A!Found, Found
<1>4. LevelsAgree' /\ ChiefStands' /\ ChiefPlaysOnTop'
  BY <1>1 DEF AccessIInv, AccessTypeOK, LevelsAgree, ChiefStands, ChiefPlaysOnTop, A!Found, Found
<1>5. QED BY <1>2, <1>3, <1>4 DEF AccessIInv

\* Who sets a level is stronger than whom it sets, so that this one is not the
\* chief, and than the level it sets, so that this one is not the strongest.
LEMMA AccessCommandIInv ==
  ASSUME AccessIInv, NEW a \in Accounts, NEW b \in Accounts, NEW n \in Levels,
         A!AccessCommand(a, b, n)
  PROVE  AccessIInv'
<1> USE LevelsAreNumbers
<1>1. /\ player[a] # 0 /\ player[b] # 0
      /\ player[a] < player[b] /\ player[a] < n
      /\ UNCHANGED <<banned, cookie, opened, session, gone, cut>>
      /\ player' = [player EXCEPT ![b] = n]
      /\ level' = IF b \in gone THEN level ELSE [level EXCEPT ![b] = n]
  BY DEF A!AccessCommand, A!MayRun, A!Acts, A!MaySet, A!SetLevel
<1>2. player[a] \in Levels /\ player[b] \in Levels /\ n \in Nat
  BY <1>1 DEF AccessIInv, AccessTypeOK
<1>3. Top <= player[a] /\ player[a] \in Nat /\ Top \in Nat /\ player[b] \in Nat
  BY <1>2
<1>4. Top < n /\ Top < player[b]
  BY <1>1, <1>2, <1>3
<1>5. b # Chief
  BY <1>1, <1>3, <1>4 DEF AccessIInv, ChiefPlaysOnTop
<1>6. level' \in [Accounts -> Levels \cup {0}] /\ \A c \in Accounts : Found(c) => Found(c)'
  BY <1>1 DEF AccessIInv, AccessTypeOK, A!Found, Found
<1>7. AccessTypeOK'
  BY <1>1, <1>6 DEF AccessIInv, AccessTypeOK, A!Found, Found
<1>8. CookiesAreFresh' /\ PlayersAreFound' /\ ChiefPlaysOnTop'
  BY <1>1, <1>5, <1>6 DEF AccessIInv, AccessTypeOK, CookiesAreFresh, PlayersAreFound, ChiefPlaysOnTop
<1>9. LevelsAgree'
  BY <1>1 DEF AccessIInv, AccessTypeOK, LevelsAgree
<1>10. ChiefStands'
  BY <1>1, <1>4, <1>5 DEF AccessIInv, AccessTypeOK, ChiefStands, A!Found, Found
<1>11. QED BY <1>7, <1>8, <1>9, <1>10 DEF AccessIInv

\* "Cannot ban a GM", and the chief is one.
LEMMA ModerationIInv ==
  ASSUME AccessIInv, NEW a \in Accounts, NEW b \in Accounts,
         A!BanCommand(a, b) \/ A!UnbanCommand(a, b) \/ A!KickPlayer(a, b)
  PROVE  AccessIInv'
<1> USE LevelsAreNumbers DEF A!BanCommand, A!UnbanCommand, A!KickPlayer, A!shardVars
<1>1. UNCHANGED <<level, cookie, opened, session, player, gone>>
  OBVIOUS
<1>2. banned' \subseteq {c \in Accounts : Found(c)} /\ Chief \notin banned'
  <2>1. Top <= Moderator /\ Top \in Nat /\ Moderator \in Nat
    OBVIOUS
  <2>2. A!BanCommand(a, b) => b # Chief /\ Found(b)
    BY <2>1 DEF AccessIInv, ChiefStands, AccessTypeOK, A!Found, Found
  <2>3. QED BY <2>2 DEF AccessIInv, AccessTypeOK, ChiefStands, A!Found, Found
<1>3. cut' \subseteq {c \in Accounts : player[c] # 0}
  BY DEF AccessIInv, AccessTypeOK
<1>4. QED
  BY <1>1, <1>2, <1>3
  DEF AccessIInv, AccessTypeOK, CookiesAreFresh, PlayersAreFound, LevelsAgree, ChiefStands,
      ChiefPlaysOnTop, A!Found, Found

LEMMA AccessNext == AccessIInv /\ [A!Next]_(A!vars) => AccessIInv'
<1> SUFFICES ASSUME AccessIInv, [A!Next]_(A!vars) PROVE AccessIInv'
  OBVIOUS
<1>1. CASE A!LoginNext
  <2>1. ASSUME NEW l \in LoginSocks, NEW a \in Accounts,
               \/ \E fields \in {"password", "cookie"},
                     token \in {"password", "cookie", "wrong"} : A!Login(l, a, fields, token)
               \/ A!NewAccount(l, a)
               \/ A!CharacterDelete(l, a)
        PROVE  AccessIInv'
    BY <2>1, LoginIInv, NewAccountIInv, SocketsIInv
  <2>2. ASSUME NEW l \in LoginSocks, A!HangUp(l) PROVE AccessIInv'
    BY <2>2, SocketsIInv, LevelsAreNumbers
  <2>3. ASSUME NEW a \in Accounts, A!GrantCookie(a) \/ A!CookieExpires(a) PROVE AccessIInv'
    <3>1. UNCHANGED <<level, banned, session, player, gone, cut>>
      BY <2>3 DEF A!GrantCookie, A!CookieExpires, A!shardVars
    <3>2. QED
      BY <2>3, <3>1, CookiesIInv
      DEF AccessIInv, AccessTypeOK, PlayersAreFound, LevelsAgree, ChiefStands, ChiefPlaysOnTop, A!Found, Found
  <2>4. QED BY <1>1, <2>1, <2>2, <2>3 DEF A!LoginNext
<1>2. CASE A!ShardNext
  BY <1>2, EnterGameIInv, LogoutIInv, ModerationIInv, AccessCommandIInv DEF A!ShardNext
<1>3. CASE UNCHANGED A!vars
  BY <1>3
  DEF A!vars, A!shardVars, AccessIInv, AccessTypeOK, CookiesAreFresh, PlayersAreFound, LevelsAgree,
      ChiefStands, ChiefPlaysOnTop, A!Found, Found
<1>4. QED BY <1>1, <1>2, <1>3 DEF A!Next

-----------------------------------------------------------------------------

\* The inductive invariant.
THEOREM AccessIsInvariant == A!Spec => []AccessIInv
<1>1. A!Init => AccessIInv
  BY AccessInit
<1>2. AccessIInv /\ [A!Next]_(A!vars) => AccessIInv'
  BY AccessNext
<1>3. QED BY <1>1, <1>2, PTL DEF A!Spec

\* Cookies let one session in each time they are made good (checkCookie()), and
\* only accounts with a row are banned.
THEOREM AccessTypeIsInvariant == A!Spec => []AccessTypeOK
<1>1. AccessIInv => AccessTypeOK
  BY DEF AccessIInv
<1>2. QED BY <1>1, AccessIsInvariant, PTL

\* accessCommand() and updateAccountLevel() change both copies of a level.
THEOREM LevelsAlwaysAgree == A!Spec => []LevelsAgree
<1>1. AccessIInv => LevelsAgree
  BY DEF AccessIInv
<1>2. QED BY <1>1, AccessIsInvariant, PTL

\* Nobody rises to the level of the chief, and nobody demotes or bans it, with
\* any number of accomplices and of levels.
THEOREM ChiefAlwaysStands == A!Spec => []ChiefStands
<1>1. AccessIInv => ChiefStands
  BY DEF AccessIInv
<1>2. QED BY <1>1, AccessIsInvariant, PTL
=============================================================================
