------------------------------- MODULE Buddies -------------------------------
(***************************************************************************)
(* Buddies and blocked players (Buddies.cpp).                              *)
(*                                                                         *)
(* A friendship is kept in three places: one row of Buddyships for both    *)
(* players, and a slot in the list that each of them has in memory while   *)
(* it is online.  A block is a row of Blocks and a slot of the blocker     *)
(* only.  Every handler of one player changes its own list, the list of    *)
(* the other one if that one is online, and the database.                  *)
(*                                                                         *)
(* A request leaves no trace in the server: it is a dialog on the screen   *)
(* of the player asked, who may answer at any later time.  Clients do not  *)
(* ask or block whom they list, nor do they block whom they have asked     *)
(* before the answer: the server would list that player twice.             *)
(***************************************************************************)
EXTENDS Naturals, FiniteSets

CONSTANTS
  Chars,    \* Players.PlayerID
  NSlots,   \* 50
  NoBuddy,  \* an entry 0 of buddyIDs
  MaxAsked  \* bound: pairs of players with open dialogs

ASSUME SlotsExist == NSlots \in Nat \ {0} /\ NoBuddy \notin Chars

Slots == 1..NSlots
Entry == [who : Chars \cup {NoBuddy}, blocked : BOOLEAN]

VARIABLES
  online,   \* PlayerManager::players
  list,     \* buddyIDs and isBuddyBlocked of those online
  rows,     \* characters that have a row in the database
  friends,  \* Buddyships: the one who accepted, the one who asked
  blocks,   \* Blocks: the blocker and the blocked
  asked     \* dialogs: the one who asks, the one who may answer

dbVars == <<rows, friends, blocks>>
vars == <<online, list, dbVars, asked>>

Free == [who |-> NoBuddy, blocked |-> FALSE]
NoList == [i \in Slots |-> Free]

FreeSlots(p) == {i \in Slots : list[p][i].who = NoBuddy}

\* getAvailableBuddySlot()
FreeSlot(p) == CHOOSE i \in FreeSlots(p) : \A j \in FreeSlots(p) : i <= j

\* The slots of L with q, of which the loops take the first.
SlotsOf(L, q) == {i \in Slots : L[i].who = q}

\* playerHasBuddyWithID()
Has(p, q) == SlotsOf(list[p], q) # {}

Friends(p) == {q \in Chars : <<p, q>> \in friends \/ <<q, p>> \in friends}
Blocked(p) == {q \in Chars : <<p, q>> \in blocks}

\* What getPlayer() may load: the friends, then the blocked, in any order.
Loads(p) ==
  {L \in [Slots -> Entry] :
     /\ \A q \in Chars :
          /\ q \in Friends(p) <=> \E i \in Slots : L[i] = [who |-> q, blocked |-> FALSE]
          /\ q \in Blocked(p) <=> \E i \in Slots : L[i] = [who |-> q, blocked |-> TRUE]
     /\ \A i \in Slots :
          IF i <= Cardinality(Friends(p)) + Cardinality(Blocked(p))
          THEN L[i].who # NoBuddy /\ (L[i].blocked <=> i > Cardinality(Friends(p)))
          ELSE L[i] = Free}

\* INSERT: the foreign keys of a table refuse a player who is deleted.
Insert(table, p, q) == IF {p, q} \subseteq rows THEN table \cup {<<p, q>>} ELSE table

-----------------------------------------------------------------------------

Login(p) ==
  /\ p \in rows \ online
  /\ online' = online \cup {p}
  /\ \E L \in Loads(p) : list' = [list EXCEPT ![p] = L]
  /\ UNCHANGED <<dbVars, asked>>

\* The requests of a player who leaves stay on the screens of the others.
Logout(p) ==
  /\ p \in online
  /\ online' = online \ {p}
  /\ list' = [list EXCEPT ![p] = NoList]
  /\ asked' = {r \in asked : r[2] # p}
  /\ UNCHANGED dbVars

\* deleteCharacter() of the login server, by a client that is not also in
\* the game with that character.
DeleteCharacter(p) ==
  /\ p \in rows \ online
  /\ rows' = rows \ {p}
  /\ friends' = {r \in friends : p \notin {r[1], r[2]}}
  /\ blocks' = {r \in blocks : p \notin {r[1], r[2]}}
  /\ UNCHANGED <<online, list, asked>>

\* requestBuddy(), or reqBuddyByName(), which does not look at the slots.
RequestBuddy(p, q) ==
  /\ p # q /\ p \in online /\ q \in online /\ ~Has(p, q)
  /\ Cardinality({{r[1], r[2]} : r \in asked \cup {<<p, q>>}}) <= MaxAsked
  /\ asked' = asked \cup {<<p, q>>}
  /\ UNCHANGED <<online, list, dbVars>>

\* What the two accepting handlers do, p accepting q.
Befriend(p, q) ==
  /\ list' = [list EXCEPT ![p][FreeSlot(p)].who = q, ![q][FreeSlot(q)].who = p]
  /\ friends' = Insert(friends, p, q)

\* Mutant: the acceptor may have the other one in its list.
AcceptAgain(p, q) ==
  /\ <<q, p>> \in asked /\ p \in online
  /\ asked' = asked \ {<<q, p>>}
  /\ IF q \in online /\ FreeSlots(p) # {} /\ FreeSlots(q) # {}
     THEN Befriend(p, q)
     ELSE UNCHANGED <<list, friends>>
  /\ UNCHANGED <<online, rows, blocks>>

\* reqAcceptBuddy(), reqFindNameBuddyAccept(): p answers q with a yes.
AcceptBuddy(p, q) ==
  /\ <<q, p>> \in asked /\ p \in online
  /\ asked' = asked \ {<<q, p>>}
  /\ IF q \in online /\ FreeSlots(p) # {} /\ FreeSlots(q) # {} /\ ~Has(p, q)
     THEN Befriend(p, q)
     ELSE UNCHANGED <<list, friends>>
  /\ UNCHANGED <<online, rows, blocks>>

\* The same handlers, the answer being a no.
DeclineBuddy(p, q) ==
  /\ <<q, p>> \in asked /\ p \in online
  /\ asked' = asked \ {<<q, p>>}
  /\ UNCHANGED <<online, list, dbVars>>

\* removeBuddyship() deletes the row of the two whoever accepted.
Part(p, q) == friends' = friends \ {<<p, q>>, <<q, p>>}

\* q, if online, no longer lists p, as a friend or otherwise; whether the slot
\* is blocked is not looked at.
Forget(L, q, p) ==
  IF q \in online /\ SlotsOf(L[q], p) # {}
  THEN LET first == CHOOSE i \in SlotsOf(L[q], p) : \A j \in SlotsOf(L[q], p) : i <= j
       IN [L EXCEPT ![q][first].who = NoBuddy]
  ELSE L

\* Mutant: the other player goes on listing the blocker.
BlockQuietly(p, i) ==
  LET q == list[p][i].who
  IN /\ p \in online /\ q # NoBuddy /\ ~list[p][i].blocked
     /\ <<p, q>> \notin asked
     /\ Part(p, q)
     /\ blocks' = Insert(blocks, p, q)
     /\ list' = [list EXCEPT ![p][i].blocked = TRUE]
     /\ UNCHANGED <<online, rows, asked>>

\* reqBuddyBlock(), on the slot of a friend.
BuddyBlock(p, i) ==
  LET q == list[p][i].who
  IN /\ p \in online /\ q # NoBuddy /\ ~list[p][i].blocked
     /\ <<p, q>> \notin asked
     /\ Part(p, q)
     /\ blocks' = Insert(blocks, p, q)
     /\ list' = Forget([list EXCEPT ![p][i].blocked = TRUE], q, p)
     /\ UNCHANGED <<online, rows, asked>>

\* reqPlayerBlock(), on somebody the client sees.
PlayerBlock(p, q) ==
  /\ p # q /\ p \in online /\ q \in online /\ ~Has(p, q) /\ <<p, q>> \notin asked
  /\ FreeSlots(p) # {}
  /\ blocks' = Insert(blocks, p, q)
  /\ list' = [list EXCEPT ![p][FreeSlot(p)] = [who |-> q, blocked |-> TRUE]]
  /\ UNCHANGED <<online, rows, friends, asked>>

\* reqBuddyDelete(), for friends and for blocks.
BuddyDelete(p, i) ==
  LET q == list[p][i].who
  IN /\ p \in online /\ q # NoBuddy
     /\ Part(p, q)
     /\ blocks' = blocks \ {<<p, q>>}
     /\ LET L == [list EXCEPT ![p][i] = Free]
        IN list' = IF list[p][i].blocked THEN L ELSE Forget(L, q, p)
     /\ UNCHANGED <<online, rows, asked>>

-----------------------------------------------------------------------------

Init ==
  /\ online = {} /\ list = [p \in Chars |-> NoList]
  /\ rows = Chars /\ friends = {} /\ blocks = {}
  /\ asked = {}

Next ==
  \/ \E p \in Chars : Login(p) \/ Logout(p) \/ DeleteCharacter(p)
  \/ \E p, q \in Chars :
       \/ RequestBuddy(p, q)
       \/ AcceptBuddy(p, q)
       \/ DeclineBuddy(p, q)
       \/ PlayerBlock(p, q)
  \/ \E p \in Chars, i \in Slots : BuddyBlock(p, i) \/ BuddyDelete(p, i)

Spec == Init /\ [][Next]_vars

-----------------------------------------------------------------------------

\* The type of the state.  Nobody is in a list twice, and a slot that is
\* vacated, by its owner or by another player, is as good as new: its next
\* occupant must not inherit a block.
TypeOK ==
  /\ online \subseteq Chars /\ rows \subseteq Chars
  /\ list \in [Chars -> [Slots -> Entry]]
  /\ friends \subseteq rows \X rows
  /\ blocks \subseteq rows \X rows
  /\ asked \subseteq Chars \X Chars
  /\ \A p \in Chars, q \in Chars : Cardinality(SlotsOf(list[p], q)) <= 1
  /\ \A p \in Chars, i \in Slots : list[p][i].who = NoBuddy => list[p][i] = Free

Lists(p, q, blocked) == \E i \in Slots : list[p][i] = [who |-> q, blocked |-> blocked]

\* What the list of a player says of any character is what the database says,
\* so that the next login shows the same and two players online are on each
\* other's lists or neither is.  A character that was deleted may linger in
\* a list.
ListsAgree ==
  \A p \in online, q \in rows :
    /\ Lists(p, q, FALSE) <=> q \in Friends(p)
    /\ Lists(p, q, TRUE) <=> q \in Blocked(p)
=============================================================================
