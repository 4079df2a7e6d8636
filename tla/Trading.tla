------------------------------ MODULE Trading ------------------------------
(***************************************************************************)
(* Trades between two players (Trading.cpp).  Each side lists items by     *)
(* inventory slot and count, and an amount of taros; when both have        *)
(* confirmed the goods change hands and both players are written to the    *)
(* database in one transaction.  A player can go on acquiring and using    *)
(* things while the trade window is open, leave in the middle of it, and   *)
(* the process may crash.                                                  *)
(*                                                                         *)
(* The server keeps no record of who trades with whom: every packet of a   *)
(* trade names the other side, as the client knows it.  The clients are    *)
(* external: `with' and `asked' stand for what they know, and one that     *)
(* trades shows no other offer.  The answer to an offer travels, so that   *)
(* it may be overtaken by somebody else's; the other packets are handled   *)
(* when they are sent.                                                     *)
(***************************************************************************)
EXTENDS Naturals, Sequences, FiniteSets, SequencesExt

CONSTANTS
  Players,       \* players that come and go
  Items,         \* kinds of items (iType, iID)
  NInven,        \* AINVEN_COUNT
  NTrade,        \* 5, the length of Player::Trade
  MaxMoney,      \* PC_CANDY_MAX
  MadeItems,     \* bound: how many items of each kind the game hands out
  MadeMoney,     \* bound: how many taros it hands out, where it hands out
                 \* no items
  MaxForged,     \* bound: how many taros trades make before players stop
                 \* spending while they trade
  NoItem,        \* iID = 0
  NoPlayer       \* no trade window, no answer on its way

ASSUME PlayersAreFinite == IsFiniteSet(Players)

ASSUME SizesAreNatural ==
  /\ NInven \in Nat /\ NTrade \in Nat /\ MaxMoney \in Nat
  /\ MadeItems \in [Items -> Nat] /\ MadeMoney \in Nat
  /\ MaxForged \in Nat
  /\ NoItem \notin Items /\ NoPlayer \notin Players

Slots == 1..NInven
TradeSlots == 1..NTrade
Nothing == [kind |-> NoItem, count |-> 0]
NoOffer == [slot |-> 1, kind |-> NoItem, count |-> 0]
Stack == {Nothing} \cup UNION {[kind : {k}, count : 1..MadeItems[k]] : k \in Items}
Offer ==
  {NoOffer} \cup UNION {[slot : Slots, kind : {k}, count : 1..MadeItems[k]] : k \in Items}

VARIABLES
  online,    \* PlayerManager::players
  inv,       \* Player::Inven
  money,     \* Player::money
  trading,   \* Player::isTrading
  confirmed, \* Player::isTradeConfirm
  offer,     \* Player::Trade
  cash,      \* Player::moneyInTrade
  saved,     \* what the database holds of each player
  with,      \* whom the trade window of a client is about
  asked,     \* the offers that a client shows
  accepting, \* the offer whose acceptance is on its way
  terms,     \* what a player's last confirmation was about
  made       \* the items and taros the game ever handed out, and the
             \* taros that trades made on the way

flags == <<trading, confirmed>>
goods == <<inv, money>>
table == <<offer, cash>>
clients == <<with, asked, accepting>>
vars == <<online, goods, flags, table, saved, clients, terms, made>>

Pocket(p) == [inv |-> inv[p], money |-> money[p]]

\* What both sides offer, as p sees it.
Terms(p, q) == <<offer[p], cash[p], offer[q], cash[q]>>
NoTerms == <<>>

NoBag == [n \in Slots |-> Nothing]
NoOffers == [i \in TradeSlots |-> NoOffer]

-----------------------------------------------------------------------------
(* The exchange.                                                           *)

\* A function without slots stands for an exchange that failed.
Failed == <<>>

\* Mutant: the emptied slot keeps its item.
TakeCount(bag, o) ==
  IF o = NoOffer \/ bag = Failed THEN bag
  ELSE IF bag[o.slot].kind # o.kind \/ bag[o.slot].count < o.count THEN Failed
  ELSE [bag EXCEPT ![o.slot].count = @ - o.count]

\* What is left of a stack.
Less(s, n) == IF s.count = n THEN Nothing ELSE [s EXCEPT !.count = @ - n]

\* The item must still be there, and as many of it as are offered.
TakeOut(bag, o) ==
  IF o = NoOffer \/ bag = Failed THEN bag
  ELSE IF bag[o.slot].kind # o.kind \/ bag[o.slot].count < o.count THEN Failed
  ELSE [bag EXCEPT ![o.slot] = Less(@, o.count)]

\* Stacks are not merged: what is received takes the first free slot.
PutIn(bag, o) ==
  IF o = NoOffer \/ bag = Failed THEN bag
  ELSE LET free == {n \in Slots : bag[n] = Nothing}
       IN IF free = {} THEN Failed
          ELSE [bag EXCEPT ![CHOOSE n \in free : \A k \in free : n <= k] =
                  [kind |-> o.kind, count |-> o.count]]

Exchange(d, o, u) == [p |-> PutIn(TakeOut(d.p, o), u), q |-> PutIn(TakeOut(d.q, u), o)]

\* doTrade(): one trade slot of both sides after the other, the first
\* failure calling everything off.  (It also renumbers the inventory slots
\* in Trade[] for the reply; Trade[] is cleared before it is used again.)
DoTrade(p, q) ==
  LET deal[i \in 0..NTrade] ==
        IF i = 0 THEN [p |-> inv[p], q |-> inv[q]]
        ELSE Exchange(deal[i - 1], offer[p][i], offer[q][i])
  IN deal[NTrade]

\* What p has put on the table and does not have any more.
Owing(p) == IF cash[p] <= money[p] THEN 0 ELSE cash[p] - money[p]

\* subtractCapped() and then addCapped().
Pay(have, out, in) ==
  LET rest == IF have < out THEN 0 ELSE have - out
  IN IF rest + in > MaxMoney THEN MaxMoney ELSE rest + in

-----------------------------------------------------------------------------
(* The handlers.                                                           *)

\* The windows that a packet about the trade of p and q closes.
Close(p, q) ==
  with' = [with EXCEPT ![p] = NoPlayer, ![q] = IF @ = p THEN NoPlayer ELSE @]

Unconfirm(p, q) ==
  /\ confirmed' = [confirmed EXCEPT ![p] = FALSE, ![q] = FALSE]
  /\ terms' = [terms EXCEPT ![p] = NoTerms, ![q] = NoTerms]

\* tradeOffer(): forwarded to a player who is not trading.
TradeOffer(p, q) ==
  /\ {p, q} \subseteq online /\ p # q
  /\ with[p] = NoPlayer
  /\ ~ trading[q]
  /\ asked' = [asked EXCEPT ![q] = @ \cup {p}]
  /\ UNCHANGED <<online, goods, flags, table, saved, with, accepting, terms, made>>

\* The client of q answers an offer; tradeOfferRefusal(), -Cancel() and
\* -Abort() change nothing in the server.
AnswerOffer(q, p, yes) ==
  /\ q \in online /\ p \in asked[q]
  /\ with[q] = NoPlayer /\ accepting[q] = NoPlayer
  /\ asked' = [asked EXCEPT ![q] = @ \ {p}]
  /\ accepting' = IF yes THEN [accepting EXCEPT ![q] = p] ELSE accepting
  /\ UNCHANGED <<online, goods, flags, table, saved, with, terms, made>>

\* tradeOfferAccept() of q.
TradeOfferAccept(q) ==
  /\ q \in online /\ accepting[q] # NoPlayer
  /\ accepting' = [accepting EXCEPT ![q] = NoPlayer]
  /\ LET p == accepting[q]
         two == {p, q}
         both(f, x) == [r \in Players |-> IF r \in two THEN x ELSE f[r]]
     IN IF p \notin online \/ trading[p]
        THEN UNCHANGED <<flags, table, with, terms>>
        ELSE /\ trading' = both(trading, TRUE)
             /\ Unconfirm(p, q)
             /\ cash' = both(cash, 0)
             /\ offer' = both(offer, NoOffers)
             /\ with' = [with EXCEPT ![p] = q, ![q] = p]
  /\ UNCHANGED <<online, goods, saved, asked, made>>

\* Mutant: only the player who confirmed last is written.
CommitOne(p, q) == saved' = [saved EXCEPT ![p] = Pocket(p)']

\* commitTrade(): both rows in one transaction.
CommitTrade(p, q) ==
  saved' = [saved EXCEPT ![p] = Pocket(p)', ![q] = Pocket(q)']

\* tradeConfirm() of p, in whose window q is.  An abort leaves the goods.
TradeConfirm(p) ==
  /\ p \in online
  /\ \E q \in online :
        /\ with[p] = q
        /\ IF trading[p] /\ trading[q] /\ ~ confirmed[q]
           THEN /\ confirmed' = [confirmed EXCEPT ![p] = TRUE]
                /\ terms' = [terms EXCEPT ![p] = Terms(p, q)]
                /\ UNCHANGED <<trading, goods, saved, with, made>>
           ELSE /\ trading' = [trading EXCEPT ![p] = FALSE, ![q] = FALSE]
                /\ Unconfirm(p, q)
                /\ Close(p, q)
                /\ LET deal == DoTrade(p, q)
                   IN IF trading[p] /\ trading[q] /\ deal.p # Failed /\ deal.q # Failed
                      THEN /\ inv' = [inv EXCEPT ![p] = deal.p, ![q] = deal.q]
                           /\ money' = [money EXCEPT ![p] = Pay(@, cash[p], cash[q]),
                                                     ![q] = Pay(@, cash[q], cash[p])]
                           /\ made' = [made EXCEPT !.forged = @ + Owing(p) + Owing(q)]
                           /\ CommitTrade(p, q)
                      ELSE UNCHANGED <<goods, saved, made>>
  /\ UNCHANGED <<online, table, asked, accepting>>

\* tradeConfirmCancel() of p, whose window closes even if the server finds
\* nobody to tell.
TradeConfirmCancel(p) ==
  /\ p \in online /\ with[p] # NoPlayer
  /\ LET q == with[p]
     IN /\ Close(p, q)
        /\ IF q \in online
           THEN /\ trading' = [trading EXCEPT ![p] = FALSE, ![q] = FALSE]
                /\ Unconfirm(p, q)
           ELSE UNCHANGED <<flags, terms>>
  /\ UNCHANGED <<online, goods, table, saved, asked, accepting, made>>

\* What the client lets a player offer: at most what the packets have shown
\* it to hold in the slot, less what its other trade slots take from there.
Offerable(p, i, slot) ==
  LET others == {k \in TradeSlots \ {i} : offer[p][k].slot = slot}
  IN {n \in 1..inv[p][slot].count :
        n + FoldLeft(LAMBDA sum, k : sum + IF k \in others THEN offer[p][k].count ELSE 0,
                     0, [k \in TradeSlots |-> k]) <= inv[p][slot].count}

\* Mutant: the other side's confirmation stands.
RegisterAfterwards(p, i, slot) ==
  /\ p \in online /\ with[p] \in online
  /\ trading[p] /\ trading[with[p]]
  /\ \E n \in Offerable(p, i, slot) :
       offer' = [offer EXCEPT ![p][i] =
                   [slot |-> slot, kind |-> inv[p][slot].kind, count |-> n]]
  /\ UNCHANGED <<online, goods, flags, cash, saved, clients, terms, made>>

TradeRegisterItem(p, i, slot) ==
  /\ p \in online /\ with[p] \in online
  /\ trading[p] /\ trading[with[p]]
  /\ \E n \in Offerable(p, i, slot) :
       offer' = [offer EXCEPT ![p][i] =
                   [slot |-> slot, kind |-> inv[p][slot].kind, count |-> n]]
  /\ Unconfirm(p, with[p])
  /\ UNCHANGED <<online, goods, trading, cash, saved, clients, made>>

TradeUnregisterItem(p, i) ==
  /\ p \in online /\ with[p] \in online
  /\ trading[p] /\ trading[with[p]]
  /\ offer[p][i] # NoOffer
  /\ offer' = [offer EXCEPT ![p][i] = NoOffer]
  /\ Unconfirm(p, with[p])
  /\ UNCHANGED <<online, goods, trading, cash, saved, clients, made>>

TradeRegisterCash(p, n) ==
  /\ p \in online /\ with[p] \in online
  /\ n <= money[p]
  /\ cash' = [cash EXCEPT ![p] = n]
  /\ Unconfirm(p, with[p])
  /\ UNCHANGED <<online, goods, trading, offer, saved, clients, made>>

-----------------------------------------------------------------------------
(* What else happens to a player.                                          *)

\* A reward: an item in the first free slot.
GainItem(p, kind) ==
  /\ p \in online /\ made.items[kind] < MadeItems[kind] /\ made.money = 0
  /\ PutIn(inv[p], [slot |-> 1, kind |-> kind, count |-> 1]) # Failed
  /\ inv' = [inv EXCEPT ![p] = PutIn(@, [slot |-> 1, kind |-> kind, count |-> 1])]
  /\ made' = [made EXCEPT !.items[kind] = @ + 1]
  /\ UNCHANGED <<online, money, flags, table, saved, clients, terms>>

\* Items are used, sold, deleted and expire, in a trade or not.
LoseItem(p, slot) ==
  /\ p \in online /\ inv[p][slot] # Nothing
  /\ inv' = [inv EXCEPT ![p] = TakeOut(@, [slot |-> slot, kind |-> @[slot].kind, count |-> 1])]
  /\ UNCHANGED <<online, money, flags, table, saved, clients, terms, made>>

\* itemMoveHandler(), which does nothing while the player trades: two
\* stacks of a kind are merged, others change places.
MoveItem(p, from, to) ==
  /\ p \in online /\ ~ trading[p]
  /\ from # to /\ inv[p][from] # Nothing
  /\ inv' = IF inv[p][from].kind = inv[p][to].kind
            THEN [inv EXCEPT ![p][to].count = @ + inv[p][from].count, ![p][from] = Nothing]
            ELSE [inv EXCEPT ![p][to] = inv[p][from], ![p][from] = inv[p][to]]
  /\ UNCHANGED <<online, money, flags, table, saved, clients, terms, made>>

GainMoney(p) ==
  /\ p \in online /\ made.money < MadeMoney /\ \A k \in Items : made.items[k] = 0
  /\ money' = [money EXCEPT ![p] = Pay(@, 0, 1)]
  /\ made' = [made EXCEPT !.money = @ + 1]
  /\ UNCHANGED <<online, inv, flags, table, saved, clients, terms>>

\* A vendor, a warp or a mission, none of which asks for isTrading.
SpendMoney(p) ==
  /\ p \in online /\ money[p] > 0
  /\ trading[p] => made.forged < MaxForged
  /\ money' = [money EXCEPT ![p] = @ - 1]
  /\ UNCHANGED <<online, inv, flags, table, saved, clients, terms, made>>

\* updatePlayer(), of one player at a time.
SavePlayer(p) ==
  /\ p \in online
  /\ saved' = [saved EXCEPT ![p] = Pocket(p)]
  /\ UNCHANGED <<online, goods, flags, table, clients, terms, made>>

\* A new Player object, filled from the database.
Login(p) ==
  /\ p \notin online
  /\ online' = online \cup {p}
  /\ inv' = [inv EXCEPT ![p] = saved[p].inv]
  /\ money' = [money EXCEPT ![p] = saved[p].money]
  /\ UNCHANGED <<flags, table, saved, clients, terms, made>>

\* The Player objects of S are freed, which here resets their fields, and
\* their clients are gone; the other side of a trade is not told.
Freed(S) ==
  LET reset(f, x) == [p \in Players |-> IF p \in S THEN x ELSE f[p]]
  IN /\ online' = online \ S
     /\ inv' = reset(inv, NoBag)
     /\ money' = reset(money, 0)
     /\ trading' = reset(trading, FALSE)
     /\ confirmed' = reset(confirmed, FALSE)
     /\ offer' = reset(offer, NoOffers)
     /\ cash' = reset(cash, 0)
     /\ terms' = reset(terms, NoTerms)
     /\ with' = reset(with, NoPlayer)
     /\ asked' = reset(asked, {})
     /\ accepting' = reset(accepting, NoPlayer)

\* removePlayer().
Logout(p) ==
  /\ p \in online
  /\ Freed({p})
  /\ saved' = [saved EXCEPT ![p] = Pocket(p)]
  /\ UNCHANGED made

Crash ==
  /\ online # {}
  /\ Freed(Players)
  /\ UNCHANGED <<saved, made>>

-----------------------------------------------------------------------------

Init ==
  /\ online = {}
  /\ inv = [p \in Players |-> NoBag]
  /\ money = [p \in Players |-> 0]
  /\ trading = [p \in Players |-> FALSE]
  /\ confirmed = trading
  /\ offer = [p \in Players |-> NoOffers]
  /\ cash = money
  /\ saved = [p \in Players |-> [inv |-> NoBag, money |-> 0]]
  /\ with = [p \in Players |-> NoPlayer]
  /\ asked = [p \in Players |-> {}]
  /\ accepting = with
  /\ terms = [p \in Players |-> NoTerms]
  /\ made = [items |-> [k \in Items |-> 0], money |-> 0, forged |-> 0]

TradeNext ==
  \/ \E p, q \in Players : TradeOffer(p, q)
  \/ \E p, q \in Players, yes \in BOOLEAN : AnswerOffer(q, p, yes)
  \/ \E p \in Players : TradeOfferAccept(p)
  \/ \E p \in Players : TradeConfirm(p)
  \/ \E p \in Players : TradeConfirmCancel(p)
  \/ \E p \in Players, i \in TradeSlots, n \in Slots : TradeRegisterItem(p, i, n)
  \/ \E p \in Players, i \in TradeSlots : TradeUnregisterItem(p, i)
  \/ \E p \in Players, n \in 0..MaxMoney : TradeRegisterCash(p, n)

LifeNext ==
  \/ \E p \in Players, k \in Items : GainItem(p, k)
  \/ \E p \in Players, n \in Slots : LoseItem(p, n)
  \/ \E p \in Players, m, n \in Slots : MoveItem(p, m, n)
  \/ \E p \in Players : GainMoney(p)
  \/ \E p \in Players : SpendMoney(p)
  \/ \E p \in Players : SavePlayer(p)
  \/ \E p \in Players : Login(p)
  \/ \E p \in Players : Logout(p)
  \/ Crash

Next == TradeNext \/ LifeNext

Spec == Init /\ [][Next]_vars

-----------------------------------------------------------------------------

\* The type of the state.
TypeOK ==
  /\ online \subseteq Players
  /\ inv \in [Players -> [Slots -> Stack]]
  /\ money \in [Players -> 0..MaxMoney]
  /\ trading \in [Players -> BOOLEAN]
  /\ confirmed \in [Players -> BOOLEAN]
  /\ offer \in [Players -> [TradeSlots -> Offer]]
  /\ cash \in [Players -> 0..MaxMoney]
  /\ saved \in [Players -> [inv : [Slots -> Stack], money : 0..MaxMoney]]
  /\ with \in [Players -> Players \cup {NoPlayer}]
  /\ asked \in [Players -> SUBSET Players]
  /\ accepting \in [Players -> Players \cup {NoPlayer}]
  /\ made \in [items : [Items -> Nat], money : 0..MadeMoney, forged : Nat]
  /\ \A k \in Items : made.items[k] <= MadeItems[k]

\* Things told apart by where they are, to count them one by one.
Together(f) == UNION {{x} \X f[x] : x \in DOMAIN f}
ItemsIn(bag, k) ==
  Together([n \in Slots |-> IF bag[n].kind = k THEN 1..bag[n].count ELSE {}])
AllItems(have, k) == Together([p \in Players |-> ItemsIn(have[p].inv, k)])
AllTaros(have) == Together([p \in Players |-> 1..have[p].money])

\* What a player owns: in memory while online, else in the database.
Owned(p) == IF p \in online THEN Pocket(p) ELSE saved[p]

NoMoreItems(have) == \A k \in Items : Cardinality(AllItems(have, k)) <= made.items[k]
NoMoreTaros(have) == Cardinality(AllTaros(have)) <= made.money + made.forged

\* No item is ever in two places and no taro comes from nowhere, but those
\* that a trade pays out and cannot collect: there are never more than were
\* handed out, neither in the shard nor, should it crash now, in the database.
NothingIsDuplicated ==
  \A have \in {[p \in Players |-> Owned(p)], saved} : NoMoreItems(have) /\ NoMoreTaros(have)

\* While the two sides of a trade agree on whom they trade with, the terms a
\* player confirmed are the terms on the table: whoever changes them undoes
\* both confirmations.
ConfirmedTermsStand ==
  \A p, q \in online :
    with[p] = q /\ with[q] = p /\ trading[p] /\ trading[q] /\ confirmed[p]
      => terms[p] = Terms(p, q)

\* A player has in its pocket the taros it put on the table, so that what
\* the other side receives is paid for ("famous glitch, begone").
OffersAreCovered ==
  \A p \in online : trading[p] => cash[p] <= money[p]
=============================================================================
