---------------------------- MODULE Possessions ----------------------------
(***************************************************************************)
(* What a player has, and the ways it comes and goes: Items.cpp,           *)
(* Vendors.cpp, Email.cpp with its tables, the vehicle handlers of         *)
(* PlayerManager.cpp and the capped amounts of Entities.cpp.               *)
(*                                                                         *)
(* Items are kinds and counts in numbered places; prices, drops and times  *)
(* are small.  Mail lives in the database and is written as it is sent and *)
(* collected, players are written when they are saved: a crash takes the   *)
(* one back to its last save and leaves the other.                         *)
(***************************************************************************)
EXTENDS Integers, Sequences, FiniteSets, SequencesExt

CONSTANTS
  Players,    \* characters
  NInven,     \* AINVEN_COUNT
  NBank,      \* ABANK_COUNT
  NAttach,    \* 4, the attachments of an email
  NBuyback,   \* 5, the length of Player::buyback
  Boosters,   \* all of "hunter", "racer" and "quester"; fewer in small instances
  StackSize,  \* Item::stackSize of a kind
  BuyPrice,   \* Item::buyPrice
  SellPrice,  \* Item::sellPrice, 0 of what is not sellable
  Stocks,     \* what VendorTables and the drops may hold, one set at a time
  Loot,       \* the ItemSet of the crates: kinds, each of a rarity and for a
              \* gender, 0 for any
  Rarities,   \* those that RarityWeights gives a weight
  Gender,     \* of the characters
  Code,       \* the kinds a code is worth: CodeItems
  Postage, PerItem,     \* 50 and 20 taros
  MaxTaros,   \* PC_CANDY_MAX
  ExpireInBank,         \* settings::REMOVEEXPIREDITEMSFROMBANK
  MaxEarned,  \* bound: the value the game pays out, for each of Stocks
  MaxMail     \* bound: MsgIndex

\* The nanocom boosters are the items 153 to 155, and the same items once they
\* were used and have an iTimeLimit; "dx" is item 156, all of them in one.
Started == [hunter |-> "hunter on", racer |-> "racer on", quester |-> "quester on"]
Kinds == {"weapon", "combined", "gumball", "vehicle", "crate", "dx"}
           \cup DOMAIN Started \cup Range(Started)
Timed == {"vehicle"} \cup Range(Started)

ASSUME PricesAreSound ==
  /\ {NInven, NBank, NAttach, NBuyback, Postage, PerItem, MaxTaros} \subseteq Nat
  /\ MaxEarned \in [Stocks -> Nat] /\ MaxMail \in Nat /\ ExpireInBank \in BOOLEAN
  /\ {StackSize, BuyPrice, SellPrice} \subseteq [Kinds -> Nat]
  /\ Stocks \subseteq SUBSET Kinds /\ Code \in Seq(Kinds)
  /\ Loot \subseteq [kind : Kinds, rarity : Nat, gender : 0..2]
  /\ Rarities \subseteq Nat \ {0} /\ Gender \in [Players -> 1..2]
  /\ \A k \in Kinds : SellPrice[k] <= BuyPrice[k]
  /\ Boosters \subseteq DOMAIN Started

ASSUME PlayersAreFinite == IsFiniteSet(Players)

\* A time limit does not make another item.  What was in the Croc Pot sells
\* for nothing: vendorSell() refuses it.
ASSUME OnlyItemsArePriced ==
  /\ \A b \in DOMAIN Started :
       /\ SellPrice[Started[b]] = SellPrice[b]
       /\ StackSize[Started[b]] = StackSize[b]
  /\ SellPrice["combined"] = 0

\* The places of a player, numbered as in the table Inventory: the
\* equipment slots that matter here, the inventory, the bank.
Slot == [hand |-> 0, vehicle |-> 1, quester |-> 2, hunter |-> 3, racer |-> 4]
Equip == {Slot.hand, Slot.vehicle} \cup {Slot[b] : b \in Boosters}
Inven == 5..(4 + NInven)
Bank == (5 + NInven)..(4 + NInven + NBank)
Places == Equip \cup Inven \cup Bank

Item == [kind : Kinds, n : Nat \ {0}]
Nothing == [kind |-> "none", n |-> 0]
One(k) == [kind |-> k, n |-> 1]

VARIABLES
  stock,   \* never changes
  online,  \* players in memory
  deleted, \* characters that are no more
  bag,     \* Equip, Inven and Bank
  taros,   \* Player::money
  buyback, \* Player::buyback
  riding,  \* iPCState & 8
  saved,   \* the tables Players and Inventory
  mail,    \* the tables EmailData and EmailItems
  redeemed, \* the table RedeemedCodes
  earned   \* the value the game has paid out

mine == <<bag, taros, buyback, riding>>
vars == <<stock, online, deleted, mine, saved, mail, redeemed, earned>>

NoMail == [cash |-> -1, items |-> <<>>]
Empty == [s \in Places |-> Nothing]
Indices == 1..MaxMail

-----------------------------------------------------------------------------
(* Amounts and places.                                                     *)

AddCapped(have, n) == IF have + n > MaxTaros THEN MaxTaros ELSE have + n
SubtractCapped(have, n) == IF have < n THEN 0 ELSE have - n

\* findFreeSlot(); -1 if there is none.
FreeSlot(b) ==
  LET free == {s \in Inven : b[s] = Nothing}
  IN IF free = {} THEN -1 ELSE CHOOSE s \in free : \A t \in free : s <= t

\* Mutant: a place that is used up is not cleared.
TakeDown(item, n) == [item EXCEPT !.n = @ - n]

Take(item, n) == IF item.n <= n THEN Nothing ELSE [item EXCEPT !.n = @ - n]
Stacks(k) == k # "none" /\ StackSize[k] > 1
Units(k, n) == IF Stacks(k) THEN n ELSE 1

\* Items put one after another into the free slots of the inventory, as far as
\* there are any.  No item takes no slot.
Filled(b, items) ==
  LET free == {s \in Inven : b[s] = Nothing}
      real == {k \in DOMAIN items : items[k] # Nothing}
      nth(S, x) == Cardinality({y \in S : y <= x})
      goes(s) == {k \in real : nth(real, k) = nth(free, s)}
  IN [s \in Places |-> IF s \in free /\ goes(s) # {}
                       THEN items[CHOOSE k \in goes(s) : TRUE] ELSE b[s]]

\* What may be worn where; boosters are not put on by hand.
Fits(k, s) == \/ s \notin Equip
              \/ s = Slot.hand /\ k \in {"none", "weapon", "combined"}
              \/ s = Slot.vehicle /\ k = "vehicle"

-----------------------------------------------------------------------------
(* Items.cpp                                                               *)

SameItem(k, l) == k = l \/ \E b \in DOMAIN Started : {k, l} = {b, Started[b]}

\* Two stacks of an item, the overflow staying behind.  A stack that is
\* dropped on itself is emptied.
Merge(b, from, to) ==
  LET sum == b[from].n + b[to].n
      most == StackSize[b[to].kind]
  IN IF from = to THEN [b EXCEPT ![from] = Nothing]
     ELSE IF sum > most
     THEN [b EXCEPT ![to].n = most, ![from].n = sum - most]
     ELSE [b EXCEPT ![to].n = sum, ![from] = Nothing]

\* itemMoveHandler() of a player that does not trade.
ItemMove(p, from, to) ==
  /\ p \in online
  /\ Fits(bag[p][from].kind, to)
  /\ LET b == bag[p]
         merges == /\ Stacks(b[to].kind) /\ SameItem(b[from].kind, b[to].kind)
                   /\ b[from].n < StackSize[b[to].kind] /\ b[to].n < StackSize[b[to].kind]
         moved == IF merges THEN Merge(b, from, to)
                  ELSE [b EXCEPT ![from] = b[to], ![to] = b[from]]
     IN /\ bag' = [bag EXCEPT ![p] = moved]
        /\ riding' = [riding EXCEPT ![p] =
             @ /\ ~ ({from, to} \cap Equip # {} /\ moved[Slot.vehicle] = Nothing)]
  /\ UNCHANGED <<stock, redeemed, online, deleted, taros, buyback, saved, mail, earned>>

ItemDelete(p, s) ==
  /\ p \in online
  /\ bag' = [bag EXCEPT ![p][s] = Nothing]
  /\ UNCHANGED <<stock, redeemed, online, deleted, taros, buyback, riding, saved, mail, earned>>

\* What the game pays: taros, and what an item sells for.
Gain(from, to) == IF from < to THEN to - from ELSE 0
Paid(n) == earned' = earned + n /\ earned' <= MaxEarned[stock]

\* The boosters an item starts, and what they sell for.
Starts(k) == IF k = "dx" THEN Boosters ELSE {b \in Boosters : k \in {b, Started[b]}}
Price(B) == LET price(b) == IF b \in B THEN SellPrice[b] ELSE 0
            IN price("hunter") + price("racer") + price("quester")

\* itemUseHandler(): gumballs feed a nano, boosters are worn at once in the
\* place of older ones, and the game adds what a DX is worth in boosters.
ItemUse(p, s) ==
  LET kind == bag[p][s].kind
      used == [bag[p] EXCEPT ![s] = Take(@, 1)]
      on(b, x) == IF x \in Starts(kind) THEN [b EXCEPT ![Slot[x]] = One(Started[x])] ELSE b
  IN /\ p \in online
     /\ kind = "gumball" \/ Starts(kind) # {}
     /\ Paid(Gain(SellPrice[kind], Price(Starts(kind))))
     /\ bag' = [bag EXCEPT ![p] = on(on(on(used, "hunter"), "racer"), "quester")]
     /\ UNCHANGED <<stock, redeemed, online, deleted, taros, buyback, riding, saved, mail>>

Worth(item) == IF item = Nothing THEN 0 ELSE SellPrice[item.kind] * item.n
\* The sum of what is in some places: one element for each taro of it.
WorthOf(items) == Cardinality(UNION {{s} \X (1..Worth(items[s])) : s \in DOMAIN items})

\* getRarity(): one that is both in the set and of some weight, or a common one.
RarityDraws ==
  LET drawn == Rarities \cap {x.rarity : x \in Loot} IN IF drawn = {} THEN {1} ELSE drawn

\* getCrateItem()
CrateItems(rarity, gender) ==
  {x.kind : x \in {x \in Loot : x.rarity \in {0, rarity} /\ x.gender \in {0, gender}}}

\* chestOpenHandler(): what is in the crate takes its place; a gumball if the
\* rarity that was drawn has nothing for the player.
ChestOpen(p, s) ==
  /\ p \in online /\ bag[p][s].kind = "crate"
  /\ \E r \in RarityDraws :
     LET found == CrateItems(r, Gender[p])
     IN \E k \in IF found = {} THEN {"gumball"} ELSE found :
       /\ Paid(Gain(SellPrice["crate"], SellPrice[k]))
       /\ bag' = [bag EXCEPT ![p][s] = One(k)]
  /\ UNCHANGED <<stock, redeemed, online, deleted, taros, buyback, riding, saved, mail>>

\* giveSingleDrop(): taros, and a crate if there is room and luck.
GiveDrop(p, n) ==
  /\ p \in online
  /\ taros' = [taros EXCEPT ![p] = AddCapped(@, n)]
  /\ LET s == FreeSlot(bag[p])
     IN \/ Paid(n) /\ UNCHANGED bag
        \/ /\ s # -1 /\ "crate" \in stock
           /\ Paid(n + SellPrice["crate"])
           /\ bag' = [bag EXCEPT ![p][s] = One("crate")]
  /\ UNCHANGED <<stock, redeemed, online, deleted, buyback, riding, saved, mail>>

\* isCodeRedeemed() and recordCodeRedemption(), at once in the database.
IsCodeRedeemed(p) == p \in redeemed
RecordCodeRedemption(p) == redeemed' = redeemed \cup {p}

\* redeemCommand(): all of what the code is worth, or nothing.
Redeem(p) ==
  LET prize == [i \in DOMAIN Code |-> One(Code[i])]
      room == {s \in Inven : bag[p][s] = Nothing}
  IN /\ p \in online /\ Range(Code) \subseteq stock
     /\ ~ IsCodeRedeemed(p) /\ Cardinality(room) >= Len(Code)
     /\ RecordCodeRedemption(p)
     /\ bag' = [bag EXCEPT ![p] = Filled(@, prize)]
     /\ Paid(WorthOf(prize))
     /\ UNCHANGED <<stock, online, deleted, taros, buyback, riding, saved, mail>>

\* Mutant: nobody is thrown off.
ExpireUnderRider(gone) ==
  /\ bag' = [p \in Players |-> [s \in Places |->
               IF <<p, s>> \in gone THEN Nothing ELSE bag[p][s]]]
  /\ UNCHANGED riding

\* checkAndRemoveExpiredItems(), which returns before it looks for a rider
\* if nothing of a player but what is in the bank has expired.
Expire(gone) ==
  /\ bag' = [p \in Players |-> [s \in Places |->
               IF <<p, s>> \in gone THEN Nothing ELSE bag[p][s]]]
  /\ riding' = [p \in Players |->
       riding[p] /\ ~ /\ \E s \in Equip \cup Inven : <<p, s>> \in gone
                      /\ bag'[p][Slot.vehicle] = Nothing]

\* periodicItemExpireTimer(), and a player that has loaded.
ExpireItems(P) ==
  /\ P # {} /\ P \subseteq online
  /\ \E gone \in SUBSET {u \in P \X Places :
                           /\ bag[u[1]][u[2]].kind \in Timed
                           /\ u[2] \in Bank => ExpireInBank} :
       gone # {} /\ Expire(gone)
  /\ UNCHANGED <<stock, redeemed, online, deleted, taros, buyback, saved, mail, earned>>

EnterVehicle(p) ==
  /\ p \in online /\ bag[p][Slot.vehicle] # Nothing
  /\ riding' = [riding EXCEPT ![p] = TRUE]
  /\ UNCHANGED <<stock, redeemed, online, deleted, bag, taros, buyback, saved, mail, earned>>

ExitVehicle(p) ==
  /\ p \in online /\ riding[p]
  /\ riding' = [riding EXCEPT ![p] = FALSE]
  /\ UNCHANGED <<stock, redeemed, online, deleted, bag, taros, buyback, saved, mail, earned>>

-----------------------------------------------------------------------------
(* Vendors.cpp                                                             *)

VendorBuy(p, k, n) ==
  /\ p \in online /\ k \in stock
  /\ StackSize[k] # 0 => n <= StackSize[k]
  /\ LET cost == BuyPrice[k] * Units(k, n)
         s == FreeSlot(bag[p])
     IN /\ cost <= taros[p] /\ s # -1
        /\ taros' = [taros EXCEPT ![p] = @ - cost]
        /\ bag' = [bag EXCEPT ![p][s] = [kind |-> k, n |-> n]]
  /\ UNCHANGED <<stock, redeemed, online, deleted, buyback, riding, saved, mail, earned>>

\* The last ones sold are remembered.
Remember(list, item) ==
  LET all == Append(list, item)
  IN IF Len(all) > NBuyback THEN Tail(all) ELSE all

VendorSell(p, s, n) ==
  /\ p \in online /\ n \in 1..bag[p][s].n
  /\ LET k == bag[p][s].kind
     IN /\ SellPrice[k] > 0     \* sellable
        /\ taros' = [taros EXCEPT ![p] = AddCapped(@, SellPrice[k] * n)]
        /\ bag' = [bag EXCEPT ![p][s] = Take(@, n)]
        /\ buyback' = [buyback EXCEPT ![p] = Remember(@, [kind |-> k, n |-> n])]
  /\ UNCHANGED <<stock, redeemed, online, deleted, riding, saved, mail, earned>>

\* The first identical item leaves the list.
Forgotten(list, i) == RemoveFirst(list, list[i])

\* vendorBuyback(): the item leaves the list before the price is looked at.
VendorBuyback(p, i) ==
  /\ p \in online /\ i \in DOMAIN buyback[p]
  /\ buyback' = [buyback EXCEPT ![p] = Forgotten(@, i)]
  /\ LET item == buyback[p][i]
         cost == SellPrice[item.kind] * Units(item.kind, item.n)
         s == FreeSlot(bag[p])
     IN IF cost > taros[p] \/ s = -1 THEN UNCHANGED <<taros, bag>>
        ELSE /\ taros' = [taros EXCEPT ![p] = @ - cost]
             /\ bag' = [bag EXCEPT ![p][s] = item]
  /\ UNCHANGED <<stock, redeemed, online, deleted, riding, saved, mail, earned>>

\* vendorBuyBattery(): the price is what the battery took.
BuyBattery(p, n) ==
  /\ p \in online /\ n <= taros[p]
  /\ taros' = [taros EXCEPT ![p] = @ - n]
  /\ UNCHANGED <<stock, redeemed, online, deleted, bag, buyback, riding, saved, mail, earned>>

\* transportWarpHandler(): the fare is given back if the route is not pathed.
TransportWarp(p, fare) ==
  /\ p \in online /\ fare <= taros[p]
  /\ LET rest == SubtractCapped(taros[p], fare)
     IN \E t \in {rest, AddCapped(rest, fare)} : taros' = [taros EXCEPT ![p] = t]
  /\ UNCHANGED <<stock, redeemed, online, deleted, bag, buyback, riding, saved, mail, earned>>

\* vendorCombineItems(): the taros are taken, as far as there are any,
\* whether the pot works or not.
CombineItems(p, stats, looks, cost) ==
  /\ p \in online
  /\ bag[p][stats].kind \in {"weapon", "combined"}
  /\ bag[p][looks].kind \in {"weapon", "combined"}
  /\ taros' = [taros EXCEPT ![p] = SubtractCapped(@, cost)]
  /\ \/ UNCHANGED bag
     \/ bag' = [bag EXCEPT ![p][looks] = One("combined"), ![p][stats] = Nothing]
  /\ UNCHANGED <<stock, redeemed, online, deleted, buyback, riding, saved, mail, earned>>

-----------------------------------------------------------------------------
(* Email.cpp and db/email.cpp                                              *)

\* getEmail() finds a row, and getEmailAttachments() its items.  Clients ask
\* for mail they have: without a row getEmail() returns uninitialised data.
GetEmail(p, i) == mail[p][i]
Readable(p, i) == p \in online /\ GetEmail(p, i) # NoMail
GetEmailAttachments(p, i) == GetEmail(p, i).items

\* updateEmailContent() of the taros, deleteEmailAttachments() of the ones
\* in K, and deleteEmails().
UpdateEmailContent(p, i, cash) == mail' = [mail EXCEPT ![p][i].cash = cash]
DeleteEmailAttachments(p, i, K) ==
  mail' = [mail EXCEPT ![p][i].items =
             [k \in 1..NAttach |-> IF k \in K THEN Nothing ELSE @[k]]]
DeleteEmails(p, I) ==
  mail' = [mail EXCEPT ![p] = [i \in Indices |-> IF i \in I THEN NoMail ELSE @[i]]]

\* getNextEmailIndex(): the index of a deleted mail may be used again.
NextIndex(q) ==
  LET used == {i \in Indices : mail[q][i] # NoMail}
  IN 1 + (IF used = {} THEN 0 ELSE CHOOSE i \in used : \A k \in used : i >= k)

\* The attachments of a mail: distinct slots and counts, in order.
Parcels(p) ==
  {a \in SeqOf([slot : Inven, n : 1..2], NAttach) :
     /\ \A i, k \in DOMAIN a : i < k => a[i].slot # a[k].slot
     /\ \A i \in DOMAIN a : a[i].n <= bag[p][a[i].slot].n}

Items(p, a) == [i \in DOMAIN a |-> [kind |-> bag[p][a[i].slot].kind, n |-> a[i].n]]
SlotsOf(a) == {a[i].slot : i \in DOMAIN a}
CountAt(a, s) == LET i == CHOOSE i \in DOMAIN a : a[i].slot = s IN a[i].n

\* The inventory without the attachments, and with them put back.
Packed(p, a) == [s \in Places |-> IF s \in SlotsOf(a) THEN Take(bag[p][s], CountAt(a, s))
                                  ELSE bag[p][s]]
Unpacked(p, a) == [s \in Places |-> IF s \in SlotsOf(a)
                                    THEN [bag[p][s] EXCEPT !.n = CountAt(a, s)]
                                    ELSE bag[p][s]]

\* Mutant: only the recipient is written.
SendUnsaved(p, q, letter) ==
  /\ mail' = [mail EXCEPT ![q][NextIndex(q)] = letter]
  /\ UNCHANGED saved

\* sendEmail(): the mail and its sender in one transaction.
SendEmail(p, q, letter) ==
  /\ mail' = [mail EXCEPT ![q][NextIndex(q)] = letter]
  /\ saved' = [saved EXCEPT ![p] = [bag |-> bag'[p], taros |-> taros'[p]]]

\* emailSend() to a character that exists, or does not any more: then the
\* insertion fails, and everything is given back.  The clients send taros
\* they can pay the postage of; the handler would take more.
EmailSend(p, q, cash, a) ==
  /\ p \in online /\ a \in Parcels(p)
  /\ LET cost == cash + Postage + PerItem * Len(a)
     IN /\ cost <= taros[p]
        /\ IF q \in deleted
           THEN /\ taros' = [taros EXCEPT ![p] = AddCapped(SubtractCapped(@, cost), cost)]
                /\ bag' = [bag EXCEPT ![p] = Unpacked(p, a)]
                /\ UNCHANGED <<saved, mail>>
           ELSE /\ NextIndex(q) \in Indices
                /\ taros' = [taros EXCEPT ![p] = SubtractCapped(@, cost)]
                /\ bag' = [bag EXCEPT ![p] = Packed(p, a)]
                /\ SendEmail(p, q, [cash |-> cash,
                                    items |-> [i \in 1..NAttach |->
                                      IF i <= Len(a) THEN Items(p, a)[i] ELSE Nothing]])
  /\ UNCHANGED <<stock, redeemed, online, deleted, buyback, riding, earned>>

EmailReceiveTaros(p, i) ==
  /\ Readable(p, i)
  /\ taros' = [taros EXCEPT ![p] = AddCapped(@, GetEmail(p, i).cash)]
  /\ UpdateEmailContent(p, i, 0)
  /\ UNCHANGED <<stock, redeemed, online, deleted, bag, buyback, riding, saved, earned>>

\* emailReceiveItemSingle(): into the slot that the client took for free,
\* which something else may have filled since.
EmailReceiveItemSingle(p, i, k, s) ==
  /\ Readable(p, i)
  /\ bag' = [bag EXCEPT ![p][s] = GetEmailAttachments(p, i)[k]]
  /\ DeleteEmailAttachments(p, i, {k})
  /\ UNCHANGED <<stock, redeemed, online, deleted, taros, buyback, riding, saved, earned>>

\* emailReceiveItemAll(): into the free slots, as far as there are any; all
\* of the attachments are deleted.
EmailReceiveItemAll(p, i) ==
  /\ Readable(p, i)
  /\ bag' = [bag EXCEPT ![p] = Filled(@, GetEmailAttachments(p, i))]
  /\ DeleteEmailAttachments(p, i, 1..NAttach)
  /\ UNCHANGED <<stock, redeemed, online, deleted, taros, buyback, riding, saved, earned>>

EmailDelete(p, I) ==
  /\ p \in online
  /\ DeleteEmails(p, I)
  /\ UNCHANGED <<stock, redeemed, online, deleted, mine, saved, earned>>

-----------------------------------------------------------------------------
(* Coming and going.                                                       *)

SavePlayer(p) ==
  /\ p \in online
  /\ saved' = [saved EXCEPT ![p] = [bag |-> bag[p], taros |-> taros[p]]]
  /\ UNCHANGED <<stock, redeemed, online, deleted, mine, mail, earned>>

\* A new Player object, filled from the database.
Login(p) ==
  /\ p \notin online \cup deleted
  /\ online' = online \cup {p}
  /\ bag' = [bag EXCEPT ![p] = saved[p].bag]
  /\ taros' = [taros EXCEPT ![p] = saved[p].taros]
  /\ UNCHANGED <<stock, redeemed, deleted, buyback, riding, saved, mail, earned>>

\* The Player objects of P are freed, which here resets their fields.
Freed(P) ==
  LET reset(f, x) == [p \in Players |-> IF p \in P THEN x ELSE f[p]]
  IN /\ online' = online \ P
     /\ bag' = reset(bag, Empty)
     /\ taros' = reset(taros, 0)
     /\ buyback' = reset(buyback, <<>>)
     /\ riding' = reset(riding, FALSE)

\* removePlayer(), which saves.
Logout(p) ==
  /\ p \in online
  /\ Freed({p})
  /\ saved' = [saved EXCEPT ![p] = [bag |-> bag[p], taros |-> taros[p]]]
  /\ UNCHANGED <<stock, redeemed, deleted, mail, earned>>

Crash ==
  /\ online # {}
  /\ Freed(Players)
  /\ UNCHANGED <<stock, redeemed, deleted, saved, mail, earned>>

\* deleteCharacter(), of a character that is offline; its mail goes with it.
DeleteCharacter(p) ==
  /\ p \notin online \cup deleted
  /\ deleted' = deleted \cup {p}
  /\ saved' = [saved EXCEPT ![p] = [bag |-> Empty, taros |-> 0]]
  /\ mail' = [mail EXCEPT ![p] = [i \in Indices |-> NoMail]]
  /\ UNCHANGED <<stock, redeemed, online, mine, earned>>

-----------------------------------------------------------------------------

Init ==
  /\ stock \in Stocks
  /\ online = {} /\ deleted = {}
  /\ bag = [p \in Players |-> Empty]
  /\ taros = [p \in Players |-> 0]
  /\ buyback = [p \in Players |-> <<>>]
  /\ riding = [p \in Players |-> FALSE]
  /\ saved = [p \in Players |-> [bag |-> Empty, taros |-> 0]]
  /\ mail = [p \in Players |-> [i \in Indices |-> NoMail]]
  /\ redeemed = {} /\ earned = 0

\* Clients ask for one item where there are no stacks, and for something
\* where there is something.
Held(p) == {s \in Places : bag[p][s] # Nothing}

ItemsNext(p) ==
  \/ \E s \in Places, t \in Held(p) : ItemMove(p, s, t) \/ ItemMove(p, t, s)
  \/ \E s \in Inven \cap Held(p) : ItemDelete(p, s) \/ ItemUse(p, s) \/ ChestOpen(p, s)
  \/ \E n \in 0..MaxEarned[stock] : GiveDrop(p, n)
  \/ Redeem(p) \/ EnterVehicle(p) \/ ExitVehicle(p)

VendorsNext(p) ==
  \/ \E k \in Kinds, n \in 1..2 : (Stacks(k) \/ n = 1) /\ VendorBuy(p, k, n)
  \/ \E s \in Inven \cap Held(p), n \in 1..2 : VendorSell(p, s, n)
  \/ \E i \in 1..NBuyback : VendorBuyback(p, i)
  \/ \E n \in 1..MaxTaros : BuyBattery(p, n) \/ TransportWarp(p, n)
  \/ \E s, t \in Inven \cap Held(p) : CombineItems(p, s, t, 1)

EmailNext(p) ==
  \/ \E q \in Players, n \in 0..MaxTaros, a \in Parcels(p) : EmailSend(p, q, n, a)
  \/ \E i \in Indices : EmailReceiveTaros(p, i) \/ EmailReceiveItemAll(p, i)
  \/ \E I \in (SUBSET Indices) \ {{}} : EmailDelete(p, I)
  \/ \E i \in Indices, k \in 1..NAttach, s \in Inven : EmailReceiveItemSingle(p, i, k, s)

Next ==
  \/ \E p \in Players : ItemsNext(p)
  \/ \E p \in Players : VendorsNext(p)
  \/ \E p \in Players : EmailNext(p)
  \/ \E P \in SUBSET Players : ExpireItems(P)
  \/ \E p \in Players : SavePlayer(p) \/ Login(p) \/ Logout(p) \/ DeleteCharacter(p)
  \/ Crash

Spec == Init /\ [][Next]_vars

-----------------------------------------------------------------------------

\* A place is empty or holds an item, as many of it as may be stacked.
Holding(item) ==
  \/ item = Nothing
  \/ item \in Item /\ (StackSize[item.kind] # 0 => item.n <= StackSize[item.kind])

\* The type of the state; no stack outgrows its kind's stack size and none
\* of zero items is left behind.
TypeOK ==
  /\ stock \in Stocks
  /\ deleted \subseteq Players /\ online \subseteq Players \ deleted
  /\ \A p \in Players :
       /\ DOMAIN bag[p] = Places /\ DOMAIN saved[p].bag = Places
       /\ \A s \in Places : Holding(bag[p][s]) /\ Holding(saved[p].bag[s])
       /\ {taros[p], saved[p].taros} \subseteq 0..MaxTaros
       /\ Len(buyback[p]) <= NBuyback
       /\ riding[p] \in BOOLEAN
       /\ \A i \in Indices : mail[p][i] = NoMail \/
            /\ mail[p][i].cash \in 0..MaxTaros
            /\ \A k \in 1..NAttach : Holding(mail[p][i].items[k])
  /\ redeemed \subseteq Players /\ earned \in 0..MaxEarned[stock]

\* Nobody drives without anything in the vehicle slot, however the vehicle
\* got lost: moved, swapped, expired, or taken along by a crash.
RidersHaveVehicles ==
  \A p \in Players : riding[p] => bag[p][Slot.vehicle] # Nothing

Wealth(b, n) == n + WorthOf(b)
LetterValue(x) == IF x = NoMail THEN 0 ELSE x.cash + WorthOf(x.items)
MailValue(box) == Cardinality(UNION {{i} \X (1..LetterValue(box[i])) : i \in Indices})

L == INSTANCE Ledger WITH
       live <- [p \in Players |-> Wealth(bag[p], taros[p])],
       safe <- [p \in Players |-> Wealth(saved[p].bag, saved[p].taros)],
       post <- [p \in Players |-> MailValue(mail[p])]

\* Selling, buying back, posting, collecting and every failure on the way
\* keep the books: value comes only from the game, and at every moment a
\* crash would leave no more of it than there is.
ImplementsLedger == L!Spec
=============================================================================
