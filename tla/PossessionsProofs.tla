-------------------------- MODULE PossessionsProofs --------------------------
(***************************************************************************)
(* In Possessions.tla every place, letter and list holds what it may,      *)
(* nobody drives nothing, and all steps keep the books of Ledger.tla, with *)
(* any number of players, places and kinds and any prices.                 *)
(***************************************************************************)
EXTENDS Possessions, FiniteSetTheorems, SequenceTheorems, WellFoundedInduction, TLAPS

\* Items that are there, what a place holds, and what a player carries.
Goods == {x \in Item : /\ StackSize[x.kind] # 0 => x.n <= StackSize[x.kind]
                       /\ Stacks(x.kind) \/ x.n = 1}
Things == Goods \cup {Nothing}
Bags == [Places -> Things]
Purse == 0..MaxTaros
Letters == [cash : Purse, items : [1..NAttach -> Things]]
Lists == {l \in Seq(Goods) : Len(l) <= NBuyback}

Shaped ==
  /\ stock \in Stocks /\ redeemed \subseteq Players /\ earned \in 0..MaxEarned[stock]
  /\ deleted \subseteq Players /\ online \subseteq Players \ deleted
  /\ bag \in [Players -> Bags]
  /\ taros \in [Players -> Purse]
  /\ buyback \in [Players -> Lists]
  /\ riding \in [Players -> BOOLEAN]
  /\ saved \in [Players -> [bag : Bags, taros : Purse]]
  /\ mail \in [Players -> [Indices -> Letters \cup {NoMail}]]

\* A player that is not in memory has nothing there and does not drive:
\* Login() gives it a bag.
GoneHaveNothing ==
  \A p \in Players \ online : ~ riding[p] /\ bag[p] = Empty /\ taros[p] = 0

IInv == Shaped /\ GoneHaveNothing /\ RidersHaveVehicles

-----------------------------------------------------------------------------
(* Constants and places.                                                   *)

LEMMA Numbers ==
  /\ NInven \in Nat /\ NBank \in Nat /\ NAttach \in Nat /\ NBuyback \in Nat
  /\ Postage \in Nat /\ PerItem \in Nat /\ MaxTaros \in Nat
  /\ MaxEarned \in [Stocks -> Nat]
  /\ StackSize \in [Kinds -> Nat] /\ BuyPrice \in [Kinds -> Nat] /\ SellPrice \in [Kinds -> Nat]
BY PricesAreSound

LEMMA Slots ==
  /\ Slot.hand = 0 /\ Slot.vehicle = 1
  /\ \A b \in Boosters : Slot[b] \in 2..4
BY PricesAreSound DEF Slot, Started

LEMMA Spots ==
  /\ 1 \in Equip /\ 1 \in Places
  /\ Inven \subseteq Places /\ Inven \in SUBSET Nat
  /\ \A s \in Inven : s # 1 /\ s # -1
BY Numbers, Slots DEF Equip, Places, Inven

LEMMA BoosterSpots ==
  Equip \subseteq 0..4 /\ \A b \in Boosters : Slot[b] \in Places /\ Slot[b] # 1
BY Slots DEF Equip, Places

LEMMA NoneIsNoKind == "none" \notin Kinds
<1>1. /\ DOMAIN Started = {"hunter", "racer", "quester"}
      /\ Started["hunter"] = "hunter on" /\ Started["racer"] = "racer on"
      /\ Started["quester"] = "quester on"
  BY DEF Started
<1>2. QED BY <1>1 DEF Kinds, Range

LEMMA BoosterKinds ==
  \A b \in DOMAIN Started : b \in Kinds /\ Started[b] \in Kinds
BY DEF Kinds, Started, Range

\* An item with a time limit is the same item, at the same price.
LEMMA SameItemFacts ==
  ASSUME NEW k, NEW l \in Kinds, SameItem(k, l)
  PROVE  k \in Kinds /\ SellPrice[k] = SellPrice[l] /\ StackSize[k] = StackSize[l]
<1>1. CASE k = l
  BY <1>1
<1>2. CASE \E b \in DOMAIN Started : {k, l} = {b, Started[b]}
  <2>1. PICK b \in DOMAIN Started : {k, l} = {b, Started[b]}
    BY <1>2
  <2>2. \/ k = b /\ l = Started[b]
        \/ k = Started[b] /\ l = b
        \/ k = l
    BY <2>1
  <2>3. QED BY <2>2, BoosterKinds, OnlyItemsArePriced
<1>3. QED BY <1>1, <1>2 DEF SameItem

LEMMA NothingIsNoGood ==
  /\ Nothing \in Things /\ Nothing \notin Goods
  /\ Nothing.kind = "none" /\ Nothing.n = 0
BY NoneIsNoKind DEF Nothing, Things, Goods, Item

LEMMA GoodsAre ==
  ASSUME NEW x \in Goods
  PROVE  /\ x.kind \in Kinds /\ x.n \in Nat /\ x.n >= 1 /\ x \in Things
         /\ StackSize[x.kind] # 0 => x.n <= StackSize[x.kind]
         /\ x.kind # "none" /\ x # Nothing
         /\ Stacks(x.kind) \/ x.n = 1
BY NoneIsNoKind DEF Goods, Item, Things, Nothing

LEMMA GoodsMade ==
  ASSUME NEW k \in Kinds, NEW n \in Nat, n >= 1, StackSize[k] # 0 => n <= StackSize[k],
         Stacks(k) \/ n = 1
  PROVE  [kind |-> k, n |-> n] \in Goods
BY DEF Goods, Item

LEMMA GoodsByKind ==
  ASSUME NEW x \in Things, x.kind # "none" \/ x # Nothing
  PROVE  x \in Goods
BY NothingIsNoGood DEF Things

LEMMA OneIsGood ==
  ASSUME NEW k \in Kinds
  PROVE  One(k) \in Goods /\ One(k) \in Things /\ One(k) # Nothing
<1>1. StackSize[k] \in Nat
  BY Numbers
<1>2. One(k) \in Goods
  BY <1>1, GoodsMade DEF One
<1>3. QED BY <1>2, GoodsAre

LEMMA HoldingThings ==
  ASSUME NEW x \in Things
  PROVE  Holding(x)
BY DEF Things, Goods, Holding

\* Fewer of an item are that item still; a place of which all is taken is empty.
LEMMA FewerAreGood ==
  ASSUME NEW x \in Goods, NEW n \in Nat, n >= 1, n <= x.n
  PROVE  [x EXCEPT !.n = n] \in Goods /\ [kind |-> x.kind, n |-> n] \in Goods
<1>1. /\ x \in Item /\ x.kind \in Kinds /\ x.n \in Nat
      /\ StackSize[x.kind] # 0 => x.n <= StackSize[x.kind]
      /\ Stacks(x.kind) \/ x.n = 1
  BY DEF Goods, Item
<1>2. StackSize[x.kind] \in Nat
  BY <1>1, Numbers
<1>3. [kind |-> x.kind, n |-> n] \in Goods
  BY <1>1, <1>2, GoodsMade
<1>4. [x EXCEPT !.n = n] = [kind |-> x.kind, n |-> n]
  BY <1>1 DEF Item
<1>5. QED BY <1>3, <1>4

LEMMA TakeLeavesThings ==
  ASSUME NEW x \in Things, NEW n \in Nat
  PROVE  Take(x, n) \in Things
<1>1. CASE x = Nothing
  BY <1>1, NothingIsNoGood DEF Take
<1>2. CASE x \in Goods /\ x.n > n
  <2>1. x.n - n \in Nat /\ x.n - n >= 1 /\ x.n - n <= x.n
    BY <1>2, GoodsAre
  <2>2. [x EXCEPT !.n = x.n - n] \in Goods
    BY <1>2, <2>1, FewerAreGood
  <2>3. QED BY <1>2, <2>2, GoodsAre DEF Take, Things
<1>3. CASE x \in Goods /\ ~ (x.n > n)
  BY <1>3, NothingIsNoGood, GoodsAre DEF Take
<1>4. QED BY <1>1, <1>2, <1>3 DEF Things

LEMMA LeastNatural ==
  ASSUME NEW S \in SUBSET Nat, S # {}
  PROVE  \E i \in S : \A j \in S : i <= j
<1>1. PICK i \in S : \A j \in S : ~ (<<j, i>> \in OpToRel(<, Nat))
  BY NatLessThanWellFounded, WFMin
<1>2. \A j \in S : ~ (j < i)
  BY <1>1 DEF OpToRel
<1>3. QED BY <1>2

\* findFreeSlot() returns a free slot of the inventory, or -1.
LEMMA FreeSlotIsFree ==
  ASSUME NEW b, FreeSlot(b) # -1
  PROVE  FreeSlot(b) \in Inven /\ b[FreeSlot(b)] = Nothing
<1> DEFINE free == {s \in Inven : b[s] = Nothing}
<1>1. free \in SUBSET Nat
  BY Spots
<1>2. free # {}
  BY DEF FreeSlot
<1>3. \E s \in free : \A t \in free : s <= t
  BY <1>1, <1>2, LeastNatural
<1>4. FreeSlot(b) \in free
  BY <1>2, <1>3 DEF FreeSlot
<1>5. QED BY <1>4

\* Putting a thing somewhere in a place.
LEMMA BagWith ==
  ASSUME NEW b \in Bags, NEW s \in Places, NEW x \in Things
  PROVE  /\ [b EXCEPT ![s] = x] \in Bags
         /\ [b EXCEPT ![s] = x][s] = x
         /\ \A t \in Places : t # s => [b EXCEPT ![s] = x][t] = b[t]
BY DEF Bags

With(b, s, x, t, y) == [b EXCEPT ![s] = x, ![t] = y]

LEMMA BagWithTwo ==
  ASSUME NEW b \in Bags, NEW s \in Places, NEW x \in Things, NEW t \in Places, NEW y \in Things
  PROVE  With(b, s, x, t, y) \in Bags /\ \A u \in Places \ {s, t} : With(b, s, x, t, y)[u] = b[u]
BY DEF Bags, With

LEMMA FilledIsBag ==
  ASSUME NEW b \in Bags, NEW items, \A k \in DOMAIN items : items[k] \in Things
  PROVE  Filled(b, items) \in Bags /\ Filled(b, items)[1] = b[1]
<1> DEFINE free == {s \in Inven : b[s] = Nothing}
           real == {k \in DOMAIN items : items[k] # Nothing}
           nth(S, x) == Cardinality({y \in S : y <= x})
           goes(s) == {k \in real : nth(real, k) = nth(free, s)}
           put(s) == IF s \in free /\ goes(s) # {}
                     THEN items[CHOOSE k \in goes(s) : TRUE] ELSE b[s]
<1>1. Filled(b, items) = [s \in Places |-> put(s)]
  BY DEF Filled
<1>2. \A s \in Places : put(s) \in Things
  <2>1. SUFFICES ASSUME NEW s \in Places PROVE put(s) \in Things
    OBVIOUS
  <2>2. CASE s \in free /\ goes(s) # {}
    <3>1. (CHOOSE k \in goes(s) : TRUE) \in goes(s)
      BY <2>2
    <3>2. goes(s) \subseteq DOMAIN items
      OBVIOUS
    <3>3. (CHOOSE k \in goes(s) : TRUE) \in DOMAIN items
      BY <3>1, <3>2
    <3> HIDE DEF goes
    <3>4. QED BY <2>2, <3>3
  <2>3. CASE ~ (s \in free /\ goes(s) # {})
    BY <2>3 DEF Bags
  <2>4. QED BY <2>2, <2>3
<1>3. 1 \in Places /\ 1 \notin free
  BY Spots
<1> HIDE DEF free, goes
<1>4. put(1) = b[1]
  BY <1>3
<1> HIDE DEF put
<1>5. QED BY <1>1, <1>2, <1>3, <1>4 DEF Bags

-----------------------------------------------------------------------------
(* Amounts.                                                                *)

LEMMA Capped ==
  ASSUME NEW have \in Purse, NEW n \in Nat
  PROVE  AddCapped(have, n) \in Purse /\ SubtractCapped(have, n) \in Purse
BY Numbers DEF Purse, AddCapped, SubtractCapped

LEMMA ProductsAreNatural ==
  ASSUME NEW a \in Nat, NEW b \in Nat
  PROVE  a * b \in Nat
OBVIOUS

LEMMA UnitsAreNatural ==
  ASSUME NEW k \in Kinds, NEW n \in Nat, NEW f \in [Kinds -> Nat]
  PROVE  f[k] * Units(k, n) \in Nat
<1>1. Units(k, n) \in Nat
  BY DEF Units
<1>2. QED BY <1>1, ProductsAreNatural

LEMMA WorthIsNatural ==
  ASSUME NEW x \in Things
  PROVE  Worth(x) \in Nat
<1>1. CASE x = Nothing
  BY <1>1 DEF Worth
<1>2. CASE x # Nothing
  <2>1. x \in Goods
    BY <1>2, GoodsByKind
  <2>2. SellPrice[x.kind] \in Nat /\ x.n \in Nat
    BY <2>1, GoodsAre, Numbers
  <2>3. QED BY <1>2, <2>2, ProductsAreNatural DEF Worth
<1>3. QED BY <1>1, <1>2

-----------------------------------------------------------------------------
(* Sums.                                                                   *)

\* What there is to count: one element for each unit.
Each(f) == UNION {{s} \X (1..f[s]) : s \in DOMAIN f}
Total(f) == Cardinality(Each(f))

\* A finite family of numbers.
Counts(D) == [D -> Nat]

LEMMA UpToCounts ==
  ASSUME NEW n \in Nat
  PROVE  IsFiniteSet(1..n) /\ Cardinality(1..n) = n
<1>1. 1 \in Int /\ n \in Int /\ (IF 1 > n THEN 0 ELSE n - 1 + 1) = n
  OBVIOUS
<1>2. IsFiniteSet(1..n) /\ Cardinality(1..n) = IF 1 > n THEN 0 ELSE n - 1 + 1
  BY <1>1, FS_Interval, Zenon
<1>3. QED BY <1>1, <1>2

LEMMA UnitsAre ==
  ASSUME NEW D, NEW f \in Counts(D)
  PROVE  Each(f) = {y \in D \X Nat : 1 <= y[2] /\ y[2] <= f[y[1]]}
<1>1. DOMAIN f = D /\ \A s \in D : f[s] \in Nat
  BY DEF Counts
<1>2. ASSUME NEW y PROVE y \in Each(f) <=> \E s \in D : y \in {s} \X (1..f[s])
  BY <1>1 DEF Each
<1>3. ASSUME NEW y, NEW s \in D
      PROVE  y \in {s} \X (1..f[s]) <=>
               y \in D \X Nat /\ y[1] = s /\ 1 <= y[2] /\ y[2] <= f[s]
  BY <1>1
<1>4. ASSUME NEW y
      PROVE  y \in Each(f) <=> y \in D \X Nat /\ 1 <= y[2] /\ y[2] <= f[y[1]]
  BY <1>2, <1>3
<1>5. QED BY <1>4

LEMMA TotalIsNatural ==
  ASSUME NEW D, IsFiniteSet(D), NEW f \in Counts(D)
  PROVE  /\ IsFiniteSet(Each(f)) /\ Total(f) = Cardinality(Each(f))
         /\ Total(f) \in Nat
<1> DEFINE coins(s) == {s} \X (1..f[s])
           all == {coins(s) : s \in D}
<1>0. DOMAIN f = D /\ \A s \in D : f[s] \in Nat
  BY DEF Counts
<1>1. \A s \in D : IsFiniteSet(coins(s))
  <2>1. SUFFICES ASSUME NEW s \in D PROVE IsFiniteSet(coins(s))
    OBVIOUS
  <2>2. IsFiniteSet(1..f[s])
    BY <1>0, UpToCounts
  <2>3. IsFiniteSet({s})
    BY FS_Singleton
  <2>4. QED BY <2>2, <2>3, FS_Product
<1>2. IsFiniteSet(all)
  <2> HIDE DEF coins
  <2> DEFINE g == [s \in D |-> coins(s)]
  <2>1. g \in Surjection(D, all)
    BY DEF Surjection
  <2>2. QED BY <2>1, FS_Surjection
<1>3. IsFiniteSet(UNION all)
  BY <1>1, <1>2, FS_UNION
<1>4. Cardinality(UNION all) \in Nat
  BY <1>3, FS_CardinalityType
<1>5. QED BY <1>0, <1>3, <1>4 DEF Total, Each

\* What is worth something here comes from different places there.
LEMMA TotalCarries ==
  ASSUME NEW D, IsFiniteSet(D), NEW f \in Counts(D),
         NEW E, IsFiniteSet(E), NEW g \in Counts(E),
         NEW K \in SUBSET D, NEW j \in Injection(K, E),
         \A s \in K : f[s] <= g[j[s]],
         \A s \in D \ K : f[s] = 0
  PROVE  Total(f) <= Total(g)
<1> DEFINE h == [y \in Each(f) |-> <<j[y[1]], y[2]>>]
<1>1. j \in [K -> E] /\ \A s, t \in K : j[s] = j[t] => s = t
  BY DEF Injection, IsInjective
<1>2. ASSUME NEW y \in Each(f)
      PROVE  /\ y[1] \in K /\ y[2] \in Nat /\ y = <<y[1], y[2]>>
             /\ 1 <= y[2] /\ y[2] <= f[y[1]] /\ f[y[1]] \in Nat
  <2>1. y \in D \X Nat /\ 1 <= y[2] /\ y[2] <= f[y[1]]
    BY UnitsAre
  <2>2. y[1] \in D /\ y[2] \in Nat /\ y = <<y[1], y[2]>> /\ f[y[1]] \in Nat
    BY <2>1 DEF Counts
  <2>3. f[y[1]] # 0
    BY <2>1, <2>2
  <2>4. QED BY <2>1, <2>2, <2>3
<1>3. ASSUME NEW y \in Each(f) PROVE h[y] \in Each(g)
  <2>1. j[y[1]] \in E /\ g[j[y[1]]] \in Nat /\ f[y[1]] <= g[j[y[1]]]
    BY <1>1, <1>2 DEF Counts
  <2>2. y[2] <= g[j[y[1]]]
    BY <1>2, <2>1
  <2>3. h[y] = <<j[y[1]], y[2]>>
    OBVIOUS
  <2>4. QED BY <1>2, <2>1, <2>2, <2>3, UnitsAre
<1>4. ASSUME NEW y \in Each(f), NEW z \in Each(f), h[y] = h[z] PROVE y = z
  <2>1. j[y[1]] = j[z[1]] /\ y[2] = z[2]
    BY <1>4
  <2>2. QED BY <1>1, <1>2, <2>1
<1>5. h \in Injection(Each(f), Each(g))
  <2>1. h \in [Each(f) -> Each(g)]
    BY <1>3
  <2>2. QED BY <1>4, <2>1 DEF Injection, IsInjective
<1>6. IsFiniteSet(Each(g))
  BY TotalIsNatural
<1> HIDE DEF h
<1>7. Cardinality(Each(f)) <= Cardinality(Each(g))
  BY <1>5, <1>6, FS_Injection
<1>8. QED BY <1>7, TotalIsNatural

LEMMA TotalMonotone ==
  ASSUME NEW D, IsFiniteSet(D), NEW f \in Counts(D), NEW g \in Counts(D),
         \A s \in D : f[s] <= g[s]
  PROVE  Total(f) <= Total(g)
<1> DEFINE j == [s \in D |-> s]
<1>1. j \in Injection(D, D)
  BY DEF Injection, IsInjective
<1>2. \A s \in D : f[s] <= g[j[s]]
  OBVIOUS
<1> HIDE DEF j
<1>3. QED BY <1>1, <1>2, TotalCarries

\* Two sums of the same places.
LEMMA TotalAdds ==
  ASSUME NEW D, IsFiniteSet(D), NEW f \in Counts(D), NEW g \in Counts(D), NEW h \in Counts(D),
         \A s \in D : f[s] = g[s] + h[s]
  PROVE  Total(f) = Total(g) + Total(h)
<1> DEFINE A == Each(f)
           B == Each(g)
           C == A \ B
           m == [y \in Each(h) |-> <<y[1], g[y[1]] + y[2]>>]
<1>1. \A s \in D : f[s] \in Nat /\ g[s] \in Nat /\ h[s] \in Nat
  BY DEF Counts
<1>2. /\ A = {y \in D \X Nat : 1 <= y[2] /\ y[2] <= f[y[1]]}
      /\ B = {y \in D \X Nat : 1 <= y[2] /\ y[2] <= g[y[1]]}
      /\ Each(h) = {y \in D \X Nat : 1 <= y[2] /\ y[2] <= h[y[1]]}
  BY UnitsAre
<1>3. B \subseteq A
  <2>1. SUFFICES ASSUME NEW y \in B PROVE y \in A
    OBVIOUS
  <2>2. y \in D \X Nat /\ 1 <= y[2] /\ y[2] <= g[y[1]]
    BY <1>2
  <2>3. y[1] \in D /\ y[2] \in Nat /\ f[y[1]] = g[y[1]] + h[y[1]]
    BY <2>2
  <2>4. y[2] <= f[y[1]]
    BY <1>1, <2>2, <2>3
  <2>5. QED BY <1>2, <2>2, <2>4
<1>4. ASSUME NEW y \in Each(h)
      PROVE  /\ m[y] = <<y[1], g[y[1]] + y[2]>> /\ m[y] \in C
             /\ y = <<y[1], y[2]>> /\ y[1] \in D /\ y[2] \in Nat
  <2>1. y \in D \X Nat /\ 1 <= y[2] /\ y[2] <= h[y[1]]
    BY <1>2
  <2>2. y[1] \in D /\ y[2] \in Nat /\ f[y[1]] = g[y[1]] + h[y[1]] /\ y = <<y[1], y[2]>>
    BY <2>1
  <2>3. /\ g[y[1]] + y[2] \in Nat /\ 1 <= g[y[1]] + y[2]
        /\ g[y[1]] + y[2] <= f[y[1]] /\ ~ (g[y[1]] + y[2] <= g[y[1]])
    BY <1>1, <2>1, <2>2
  <2>4. <<y[1], g[y[1]] + y[2]>> \in A /\ <<y[1], g[y[1]] + y[2]>> \notin B
    BY <1>2, <2>2, <2>3
  <2>5. QED BY <2>2, <2>4
<1>5. ASSUME NEW y \in Each(h), NEW z \in Each(h), m[y] = m[z] PROVE y = z
  <2>1. y[1] = z[1] /\ g[y[1]] + y[2] = g[z[1]] + z[2]
    BY <1>4, <1>5
  <2>2. g[y[1]] \in Nat /\ g[z[1]] = g[y[1]] /\ y[2] \in Nat /\ z[2] \in Nat
    BY <1>1, <1>4, <2>1
  <2>3. y[2] = z[2]
    BY <2>1, <2>2
  <2>4. QED BY <1>4, <2>1, <2>3
<1>6. ASSUME NEW c \in C PROVE \E y \in Each(h) : m[y] = c
  <2>1. /\ c \in D \X Nat /\ 1 <= c[2] /\ c[2] <= f[c[1]] /\ ~ (c[2] <= g[c[1]])
    BY <1>2
  <2>2. c[1] \in D /\ c[2] \in Nat /\ c = <<c[1], c[2]>> /\ f[c[1]] = g[c[1]] + h[c[1]]
    BY <2>1
  <2> DEFINE y == <<c[1], c[2] - g[c[1]]>>
  <2>3. /\ c[2] - g[c[1]] \in Nat /\ 1 <= c[2] - g[c[1]] /\ c[2] - g[c[1]] <= h[c[1]]
        /\ g[c[1]] + (c[2] - g[c[1]]) = c[2]
    BY <1>1, <2>1, <2>2
  <2>4. y \in Each(h)
    BY <1>2, <2>2, <2>3
  <2>5. m[y] = c
    BY <2>2, <2>3, <2>4
  <2>6. QED BY <2>4, <2>5
<1>7. m \in Bijection(Each(h), C)
  <2>1. m \in [Each(h) -> C]
    BY <1>4
  <2>2. m \in Surjection(Each(h), C)
    <3> HIDE DEF m, C
    <3>1. QED BY <1>6, <2>1 DEF Surjection
  <2>3. m \in Injection(Each(h), C)
    <3> HIDE DEF m, C
    <3>1. QED BY <1>5, <2>1 DEF Injection, IsInjective
  <2>4. QED BY <2>2, <2>3 DEF Bijection
<1>8. /\ IsFiniteSet(A) /\ IsFiniteSet(B) /\ IsFiniteSet(Each(h))
      /\ Total(f) = Cardinality(A) /\ Total(g) = Cardinality(B)
      /\ Total(h) = Cardinality(Each(h))
      /\ Total(f) \in Nat /\ Total(g) \in Nat /\ Total(h) \in Nat
  BY TotalIsNatural
<1>9. Cardinality(C) = Cardinality(Each(h))
  <2> HIDE DEF m, C
  <2>1. ExistsBijection(Each(h), C)
    BY <1>7 DEF ExistsBijection
  <2>2. QED BY <1>8, <2>1, FS_Bijection
<1>10. Cardinality(C) = Cardinality(A) - Cardinality(B)
  <2>1. A \cap B = B
    BY <1>3
  <2>2. IsFiniteSet(A)
    BY <1>8
  <2>3. C = A \ B
    OBVIOUS
  <2> HIDE DEF A, B, C
  <2>4. QED BY <2>1, <2>2, <2>3, FS_Difference
<1>11. QED BY <1>8, <1>9, <1>10

LEMMA TotalOfNone ==
  ASSUME NEW D, IsFiniteSet(D), NEW f \in Counts(D), \A s \in D : f[s] = 0
  PROVE  Total(f) = 0
<1>1. \A s \in D : f[s] = f[s] + f[s]
  OBVIOUS
<1>2. Total(f) = Total(f) + Total(f)
  BY <1>1, TotalAdds
<1>3. Total(f) \in Nat
  BY TotalIsNatural
<1> DEFINE n == Total(f)
<1>4. n \in Nat /\ n = n + n
  BY <1>2, <1>3
<1> HIDE DEF n
<1>5. n = 0
  BY <1>4
<1>6. QED BY <1>5 DEF n

\* One place changes.
LEMMA TotalChanges ==
  ASSUME NEW D, IsFiniteSet(D), NEW f \in Counts(D), NEW x \in D, NEW g \in Counts(D),
         \A s \in D \ {x} : g[s] = f[s]
  PROVE  /\ Total(f) \in Nat /\ Total(g) \in Nat /\ f[x] \in Nat /\ g[x] \in Nat
         /\ Total(g) + f[x] = Total(f) + g[x]
         /\ f[x] <= Total(f)
<1> DEFINE rest == [s \in D |-> IF s = x THEN 0 ELSE f[s]]
           at(n) == [s \in D |-> IF s = x THEN n ELSE 0]
<1>1. \A s \in D : f[s] \in Nat /\ g[s] \in Nat
  BY DEF Counts
<1>2. rest \in Counts(D) /\ \A n \in Nat : at(n) \in Counts(D)
  BY <1>1 DEF Counts
<1>3. ASSUME NEW n \in Nat PROVE Total(at(n)) = n
  <2> DEFINE m == [i \in 1..n |-> <<x, i>>]
  <2>1. Each(at(n)) = {y \in D \X Nat : 1 <= y[2] /\ y[2] <= at(n)[y[1]]}
    BY <1>2, UnitsAre
  <2>2. ASSUME NEW y PROVE y \in Each(at(n)) <=> \E i \in 1..n : y = <<x, i>>
    <3>1. ASSUME y \in Each(at(n)) PROVE \E i \in 1..n : y = <<x, i>>
      <4>1. y \in D \X Nat /\ 1 <= y[2] /\ y[2] <= at(n)[y[1]]
        BY <2>1, <3>1
      <4>2. y[1] \in D /\ y[2] \in Nat /\ y = <<y[1], y[2]>>
        BY <4>1
      <4>3. y[1] = x
        BY <4>1, <4>2
      <4>4. QED BY <4>1, <4>2, <4>3
    <3>2. ASSUME NEW i \in 1..n PROVE <<x, i>> \in Each(at(n))
      BY <2>1
    <3>3. QED BY <3>1, <3>2
  <2>3. m \in Bijection(1..n, Each(at(n)))
    <3>1. m \in [1..n -> Each(at(n))]
      BY <2>2
    <3>2. \A i, k \in 1..n : m[i] = m[k] => i = k
      OBVIOUS
    <3>3. \A y \in Each(at(n)) : \E i \in 1..n : m[i] = y
      BY <2>2
    <3> HIDE DEF m, at
    <3>4. QED BY <3>1, <3>2, <3>3 DEF Bijection, Surjection, Injection, IsInjective
  <2>4. Cardinality(Each(at(n))) = Cardinality(1..n)
    <3> HIDE DEF m, at
    <3>1. ExistsBijection(1..n, Each(at(n)))
      BY <2>3 DEF ExistsBijection
    <3>2. QED BY <3>1, UpToCounts, FS_Bijection
  <2> HIDE DEF at
  <2>5. QED BY <1>2, <2>4, UpToCounts, TotalIsNatural
<1>4. Total(f) = Total(rest) + Total(at(f[x]))
  <2>1. \A s \in D : f[s] = rest[s] + at(f[x])[s]
    BY <1>1
  <2>2. at(f[x]) \in Counts(D)
    BY <1>1, <1>2
  <2> HIDE DEF rest, at
  <2>3. QED BY <1>2, <2>1, <2>2, TotalAdds
<1>5. Total(g) = Total(rest) + Total(at(g[x]))
  <2>1. \A s \in D : g[s] = rest[s] + at(g[x])[s]
    BY <1>1
  <2>2. at(g[x]) \in Counts(D)
    BY <1>1, <1>2
  <2> HIDE DEF rest, at
  <2>3. QED BY <1>2, <2>1, <2>2, TotalAdds
<1>6. Total(rest) \in Nat
  <2> HIDE DEF rest
  <2>1. QED BY <1>2, TotalIsNatural
<1> HIDE DEF rest, at
<1>7. QED BY <1>1, <1>3, <1>4, <1>5, <1>6, TotalIsNatural

\* Worths of things.
Worths(items) == [s \in DOMAIN items |-> Worth(items[s])]

LEMMA WorthOfTotals ==
  ASSUME NEW items, IsFiniteSet(DOMAIN items), \A s \in DOMAIN items : items[s] \in Things
  PROVE  /\ Worths(items) \in Counts(DOMAIN items)
         /\ WorthOf(items) = Total(Worths(items))
         /\ WorthOf(items) \in Nat
<1>1. Worths(items) \in Counts(DOMAIN items)
  BY WorthIsNatural DEF Worths, Counts
<1>2. WorthOf(items) = Total(Worths(items))
  <2>1. \A s \in DOMAIN items : {s} \X (1..Worths(items)[s]) = {s} \X (1..Worth(items[s]))
    BY DEF Worths
  <2>2. Each(Worths(items)) = UNION {{s} \X (1..Worth(items[s])) : s \in DOMAIN items}
    BY <2>1 DEF Each, Worths
  <2>3. QED BY <2>2 DEF WorthOf, Total
<1>3. QED BY <1>1, <1>2, TotalIsNatural

LEMMA WorthOfIsNatural ==
  ASSUME NEW items, IsFiniteSet(DOMAIN items), \A s \in DOMAIN items : items[s] \in Things
  PROVE  WorthOf(items) \in Nat
BY WorthOfTotals

-----------------------------------------------------------------------------
(* The list of what was sold.                                              *)

LEMMA RememberedIsList ==
  ASSUME NEW l \in Lists, NEW x \in Goods
  PROVE  Remember(l, x) \in Lists
<1>1. l \in Seq(Goods) /\ Len(l) \in Nat /\ Len(l) <= NBuyback
  BY DEF Lists
<1>2. /\ Append(l, x) \in Seq(Goods) /\ Len(Append(l, x)) = Len(l) + 1
      /\ Append(l, x) # <<>>
  BY <1>1, AppendProperties
<1>3. /\ Tail(Append(l, x)) \in Seq(Goods)
      /\ Len(Tail(Append(l, x))) = Len(Append(l, x)) - 1
  BY <1>2, HeadTailProperties
<1>4. QED BY <1>1, <1>2, <1>3, Numbers DEF Remember, Lists

LEMMA ShorterIsList ==
  ASSUME NEW l \in Lists, NEW i \in 1..Len(l)
  PROVE  RemoveAt(l, i) \in Lists
<1>1. l \in Seq(Goods) /\ Len(l) \in Nat /\ Len(l) <= NBuyback
  BY DEF Lists
<1>2. \A k \in 1..Len(l) : l[k] \in Goods
  BY <1>1
<1>3. /\ SubSeq(l, 1, i - 1) \in Seq(Goods)
      /\ Len(SubSeq(l, 1, i - 1)) = i - 1
  <2>1. \A k \in 1..(i - 1) : l[k] \in Goods
    BY <1>1, <1>2
  <2>2. 1 \in Int /\ i - 1 \in Int
    BY <1>1
  <2>3. /\ SubSeq(l, 1, i - 1) \in Seq(Goods)
        /\ Len(SubSeq(l, 1, i - 1)) = IF 1 <= i - 1 THEN i - 1 - 1 + 1 ELSE 0
    BY <2>1, <2>2, SubSeqProperties
  <2>4. QED BY <1>1, <2>3
<1>4. /\ SubSeq(l, i + 1, Len(l)) \in Seq(Goods)
      /\ Len(SubSeq(l, i + 1, Len(l))) = Len(l) - i
  <2>1. \A k \in (i + 1)..Len(l) : l[k] \in Goods
    BY <1>1, <1>2
  <2>2. i + 1 \in Int /\ Len(l) \in Int
    BY <1>1
  <2>3. /\ SubSeq(l, i + 1, Len(l)) \in Seq(Goods)
        /\ Len(SubSeq(l, i + 1, Len(l))) =
             IF i + 1 <= Len(l) THEN Len(l) - (i + 1) + 1 ELSE 0
    BY <2>1, <2>2, SubSeqProperties
  <2>4. QED BY <1>1, <2>3
<1>5. /\ RemoveAt(l, i) \in Seq(Goods)
      /\ Len(RemoveAt(l, i)) = (i - 1) + (Len(l) - i)
  <2> DEFINE head == SubSeq(l, 1, i - 1)
             tail == SubSeq(l, i + 1, Len(l))
  <2>1. head \in Seq(Goods) /\ tail \in Seq(Goods)
    BY <1>3, <1>4
  <2>2. RemoveAt(l, i) = head \o tail
    BY DEF RemoveAt
  <2>3. Len(head) = i - 1 /\ Len(tail) = Len(l) - i
    BY <1>3, <1>4
  <2> HIDE DEF head, tail
  <2>4. head \o tail \in Seq(Goods) /\ Len(head \o tail) = Len(head) + Len(tail)
    BY <2>1, ConcatProperties
  <2>5. QED BY <2>2, <2>3, <2>4
<1>6. Len(RemoveAt(l, i)) <= NBuyback
  BY <1>1, <1>5, Numbers
<1>7. QED BY <1>5, <1>6 DEF Lists

\* vendorBuyback() takes one item off the list.
LEMMA ForgottenIsList ==
  ASSUME NEW l \in Lists, NEW i \in DOMAIN l
  PROVE  Forgotten(l, i) \in Lists
<1>1. l \in Seq(Goods) /\ Len(l) \in Nat /\ DOMAIN l = 1..Len(l)
  BY DEF Lists
<1> DEFINE same == {k \in 1..Len(l) : l[k] = l[i]}
<1>2. same \in SUBSET Nat /\ same # {}
  BY <1>1
<1>3. \E k \in same : \A j \in same : k <= j
  BY <1>2, LeastNatural
<1>4. Min(same) \in same
  BY <1>3 DEF Min
<1>5. SelectInSeq(l, LAMBDA v : v = l[i]) = Min(same)
  BY <1>2 DEF SelectInSeq
<1>6. Forgotten(l, i) = RemoveAt(l, Min(same))
  BY <1>1, <1>5 DEF Forgotten, RemoveFirst
<1>7. Min(same) \in 1..Len(l)
  BY <1>4
<1>8. QED BY <1>6, <1>7, ShorterIsList

-----------------------------------------------------------------------------
(* One player's step.                                                      *)

LEMMA Of ==
  ASSUME IInv, NEW p \in Players
  PROVE  /\ bag[p] \in Bags /\ taros[p] \in Purse /\ buyback[p] \in Lists
         /\ \A s \in Places : bag[p][s] \in Things
         /\ saved[p] \in [bag : Bags, taros : Purse]
         /\ saved[p].bag \in Bags /\ saved[p].taros \in Purse
         /\ bag = [bag EXCEPT ![p] = bag[p]]
         /\ taros = [taros EXCEPT ![p] = taros[p]]
         /\ buyback = [buyback EXCEPT ![p] = buyback[p]]
BY DEF IInv, Shaped, Bags

\* What a handler may change of a player that keeps its vehicle slot.
LEMMA PlayerStep ==
  ASSUME IInv, NEW p \in Players, p \in online,
         NEW b \in Bags, NEW t \in Purse, NEW l \in Lists, b[1] = bag[p][1],
         bag' = [bag EXCEPT ![p] = b],
         taros' = [taros EXCEPT ![p] = t],
         buyback' = [buyback EXCEPT ![p] = l],
         UNCHANGED <<stock, online, deleted, riding>>,
         redeemed' \subseteq Players, earned' \in 0..MaxEarned[stock],
         saved' \in [Players -> [bag : Bags, taros : Purse]],
         mail' \in [Players -> [Indices -> Letters \cup {NoMail}]]
  PROVE  IInv'
<1>1. /\ bag \in [Players -> Bags] /\ taros \in [Players -> Purse]
      /\ buyback \in [Players -> Lists]
  BY DEF IInv, Shaped
<1>2. bag' \in [Players -> Bags]
  BY <1>1
<1>3. taros' \in [Players -> Purse]
  BY <1>1
<1>4. buyback' \in [Players -> Lists]
  BY <1>1
<1>5. \A q \in Players : bag'[q][1] = bag[q][1]
  BY <1>1
<1>6. RidersHaveVehicles'
  BY <1>5, Slots DEF IInv, RidersHaveVehicles
<1>7. GoneHaveNothing'
  BY <1>1 DEF IInv, GoneHaveNothing
<1>8. Shaped'
  BY <1>2, <1>3, <1>4 DEF IInv, Shaped
<1>9. QED BY <1>6, <1>7, <1>8 DEF IInv

\* The same if nothing is paid, saved or posted.
LEMMA QuietStep ==
  ASSUME IInv, NEW p \in Players, p \in online,
         NEW b \in Bags, NEW t \in Purse, NEW l \in Lists, b[1] = bag[p][1],
         bag' = [bag EXCEPT ![p] = b],
         taros' = [taros EXCEPT ![p] = t],
         buyback' = [buyback EXCEPT ![p] = l],
         UNCHANGED <<stock, redeemed, online, deleted, riding, saved, mail, earned>>
  PROVE  IInv'
<1>1. /\ redeemed' \subseteq Players /\ earned' \in 0..MaxEarned[stock]
      /\ saved' \in [Players -> [bag : Bags, taros : Purse]]
      /\ mail' \in [Players -> [Indices -> Letters \cup {NoMail}]]
  BY DEF IInv, Shaped
<1>2. QED BY <1>1, PlayerStep

\* Only the bag is another.
LEMMA BagStep ==
  ASSUME IInv, NEW p \in Players, p \in online, NEW b \in Bags, b[1] = bag[p][1],
         bag' = [bag EXCEPT ![p] = b],
         UNCHANGED <<stock, redeemed, online, deleted, taros, buyback, riding, saved, mail, earned>>
  PROVE  IInv'
<1>1. taros' = [taros EXCEPT ![p] = taros[p]] /\ buyback' = [buyback EXCEPT ![p] = buyback[p]]
  BY Of
<1>2. taros[p] \in Purse /\ buyback[p] \in Lists
  BY Of
<1>3. QED BY <1>1, <1>2, QuietStep

LEMMA PaidIsBounded ==
  ASSUME IInv, NEW n \in Nat, Paid(n), UNCHANGED stock
  PROVE  earned' \in 0..MaxEarned[stock]
<1>1. MaxEarned[stock] \in Nat /\ earned \in 0..MaxEarned[stock]
  BY Numbers DEF IInv, Shaped
<1>2. QED BY <1>1 DEF Paid

-----------------------------------------------------------------------------
(* Items.cpp                                                               *)

\* Both places hold some of an item that stacks, and neither is full.
MayMerge(b, from, to) ==
  /\ Stacks(b[to].kind) /\ SameItem(b[from].kind, b[to].kind)
  /\ b[from].n < StackSize[b[to].kind] /\ b[to].n < StackSize[b[to].kind]

LEMMA BothAreGoods ==
  ASSUME NEW b, NEW from, NEW to, b[from] \in Things, b[to] \in Things, MayMerge(b, from, to)
  PROVE  /\ b[from] \in Goods /\ b[to] \in Goods
         /\ SellPrice[b[from].kind] = SellPrice[b[to].kind]
<1>1. b[to] \in Goods
  BY GoodsByKind DEF MayMerge, Stacks
<1>2. /\ b[from].kind \in Kinds
      /\ SellPrice[b[from].kind] = SellPrice[b[to].kind]
  BY <1>1, GoodsAre, SameItemFacts DEF MayMerge
<1>3. QED BY <1>1, <1>2, NoneIsNoKind, GoodsByKind

LEMMA MergedIsBag ==
  ASSUME NEW b \in Bags, NEW from \in Places, NEW to \in Places, MayMerge(b, from, to)
  PROVE  /\ Merge(b, from, to) \in Bags
         /\ \A s \in Places \ {from, to} : Merge(b, from, to)[s] = b[s]
<1>1. b[from] \in Things /\ b[to] \in Things
  BY DEF Bags
<1>2. b[from] \in Goods /\ b[to] \in Goods
  BY <1>1, BothAreGoods
<1> DEFINE sum == b[from].n + b[to].n
           most == StackSize[b[to].kind]
<1>3. /\ sum \in Nat /\ most \in Nat /\ b[from].n \in Nat /\ b[to].n \in Nat
      /\ b[from].n >= 1 /\ b[to].n >= 1 /\ b[from].n < most /\ b[to].n < most
  BY <1>2, GoodsAre, Numbers DEF MayMerge
<1>4. Nothing \in Things
  BY NothingIsNoGood
<1>5. CASE from = to
  BY <1>4, <1>5, BagWith DEF Merge
<1>6. CASE from # to /\ sum > most
  <2> DEFINE x == [b[to] EXCEPT !.n = most]
             y == [b[from] EXCEPT !.n = sum - most]
  <2>1. sum - most \in Nat /\ sum - most >= 1 /\ sum - most <= b[from].n /\ most >= 1
    BY <1>3, <1>6
  <2>2. y \in Things
    BY <1>2, <2>1, FewerAreGood DEF Things
  <2>3. x \in Things
    <3>1. b[to].kind \in Kinds /\ b[to] \in Item
      BY <1>2 DEF Goods, Item
    <3>2. [kind |-> b[to].kind, n |-> most] \in Goods
      BY <3>1, <1>3, <2>1, GoodsMade DEF MayMerge
    <3>3. x = [kind |-> b[to].kind, n |-> most]
      BY <3>1 DEF Item
    <3>4. QED BY <3>2, <3>3 DEF Things
  <2>4. Merge(b, from, to) = With(b, to, x, from, y)
    BY <1>6 DEF Merge, Bags, With
  <2> HIDE DEF x, y, sum, most
  <2>5. QED BY <2>2, <2>3, <2>4, BagWithTwo
<1>7. CASE from # to /\ ~ (sum > most)
  <2> DEFINE x == [b[to] EXCEPT !.n = sum]
  <2>1. x \in Things
    <3>1. b[to].kind \in Kinds /\ b[to] \in Item
      BY <1>2 DEF Goods, Item
    <3>2. [kind |-> b[to].kind, n |-> sum] \in Goods
      BY <3>1, <1>3, <1>7, GoodsMade DEF MayMerge
    <3>3. x = [kind |-> b[to].kind, n |-> sum]
      BY <3>1 DEF Item
    <3>4. QED BY <3>2, <3>3 DEF Things
  <2>2. Merge(b, from, to) = With(b, to, x, from, Nothing)
    BY <1>7 DEF Merge, Bags, With
  <2> HIDE DEF x, sum, most
  <2>3. QED BY <1>4, <2>1, <2>2, BagWithTwo
<1>8. QED BY <1>5, <1>6, <1>7

LEMMA ItemMoveKeeps ==
  ASSUME IInv, NEW p \in Players, NEW from \in Places, NEW to \in Places,
         ItemMove(p, from, to)
  PROVE  IInv'
<1> DEFINE b == bag[p]
           moved == IF MayMerge(b, from, to) THEN Merge(b, from, to)
                    ELSE With(b, from, b[to], to, b[from])
<1>1. /\ p \in online
      /\ bag' = [bag EXCEPT ![p] = moved]
      /\ riding' = [riding EXCEPT ![p] =
           riding[p] /\ ~ ({from, to} \cap Equip # {} /\ moved[1] = Nothing)]
      /\ UNCHANGED <<stock, redeemed, online, deleted, taros, buyback, saved, mail, earned>>
  BY Slots DEF ItemMove, MayMerge, With
<1>2. b \in Bags /\ bag \in [Players -> Bags] /\ riding \in [Players -> BOOLEAN]
  BY Of DEF IInv, Shaped
<1>3. moved \in Bags /\ \A s \in Places \ {from, to} : moved[s] = b[s]
  <2>1. CASE MayMerge(b, from, to)
    <3>1. moved = Merge(b, from, to)
      BY <2>1
    <3> HIDE DEF moved, b
    <3>2. QED BY <1>2, <2>1, <3>1, MergedIsBag
  <2>2. CASE ~ MayMerge(b, from, to)
    <3>1. moved = With(b, from, b[to], to, b[from])
      BY <2>2
    <3>2. b[from] \in Things /\ b[to] \in Things
      BY <1>2 DEF Bags
    <3> HIDE DEF moved, b
    <3>3. QED BY <1>2, <3>1, <3>2, BagWithTwo
  <2>3. QED BY <2>1, <2>2
<1>4. {from, to} \cap Equip = {} => moved[1] = b[1]
  BY <1>3, Spots
<1> HIDE DEF moved
<1>5. Shaped'
  BY <1>1, <1>2, <1>3 DEF IInv, Shaped
<1>6. GoneHaveNothing'
  BY <1>1, <1>2 DEF IInv, GoneHaveNothing
<1>7. RidersHaveVehicles'
  <2>1. SUFFICES ASSUME NEW q \in Players, riding'[q] PROVE bag'[q][1] # Nothing
    BY Slots DEF RidersHaveVehicles
  <2>2. riding[q] /\ bag[q][1] # Nothing
    BY <1>1, <1>2, <2>1, Slots DEF IInv, RidersHaveVehicles
  <2>3. CASE q # p
    BY <1>1, <1>2, <2>2, <2>3
  <2>4. CASE q = p
    <3>1. bag'[p] = moved
      BY <1>1, <1>2
    <3>2. ~ ({from, to} \cap Equip # {} /\ moved[1] = Nothing)
      BY <1>1, <1>2, <2>1, <2>4
    <3>3. QED BY <1>4, <2>2, <2>4, <3>1, <3>2
  <2>5. QED BY <2>3, <2>4
<1>8. QED BY <1>5, <1>6, <1>7 DEF IInv

LEMMA ItemDeleteKeeps ==
  ASSUME IInv, NEW p \in Players, NEW s \in Inven, ItemDelete(p, s)
  PROVE  IInv'
<1> DEFINE b == [bag[p] EXCEPT ![s] = Nothing]
<1>1. b \in Bags /\ b[1] = bag[p][1]
  BY Of, Spots, NothingIsNoGood, BagWith
<1>2. /\ p \in online /\ bag' = [bag EXCEPT ![p] = b]
      /\ UNCHANGED <<stock, redeemed, online, deleted, taros, buyback, riding, saved, mail, earned>>
  BY DEF ItemDelete
<1> HIDE DEF b
<1>3. QED BY <1>1, <1>2, BagStep

\* What an inventory handler may give: b in the bag of p, n from the game.
LEMMA GivenStep ==
  ASSUME IInv, NEW p \in Players, p \in online, NEW b \in Bags, b[1] = bag[p][1],
         NEW t \in Purse, NEW n \in Nat, Paid(n), redeemed' \subseteq Players,
         bag' = [bag EXCEPT ![p] = b], taros' = [taros EXCEPT ![p] = t],
         UNCHANGED <<stock, online, deleted, buyback, riding, saved, mail>>
  PROVE  IInv'
<1>1. earned' \in 0..MaxEarned[stock]
  BY PaidIsBounded
<1>2. /\ saved' \in [Players -> [bag : Bags, taros : Purse]]
      /\ mail' \in [Players -> [Indices -> Letters \cup {NoMail}]]
  BY DEF IInv, Shaped
<1>3. buyback[p] \in Lists /\ buyback' = [buyback EXCEPT ![p] = buyback[p]]
  BY Of
<1>4. QED BY <1>1, <1>2, <1>3, PlayerStep

\* A booster x is put on, if it is one of K; and all of K, one after another.
On(b, x, K) == IF x \in K THEN [b EXCEPT ![Slot[x]] = One(Started[x])] ELSE b
AllOn(b, K) == On(On(On(b, "hunter", K), "racer", K), "quester", K)

LEMMA OnIsBag ==
  ASSUME NEW K \in SUBSET Boosters, NEW b \in Bags, NEW x
  PROVE  /\ On(b, x, K) \in Bags /\ On(b, x, K)[1] = b[1]
         /\ x \in K => /\ Slot[x] \in Places /\ One(Started[x]) \in Things
                      /\ On(b, x, K)[Slot[x]] = One(Started[x])
                      /\ \A u \in Places \ {Slot[x]} : On(b, x, K)[u] = b[u]
<1>1. CASE x \notin K
  BY <1>1 DEF On
<1>2. CASE x \in K
  <2>1. /\ Slot[x] \in Places /\ Slot[x] # 1 /\ 1 \in Places
        /\ Started[x] \in Kinds
    BY <1>2, Spots, BoosterSpots, BoosterKinds, PricesAreSound
  <2>2. One(Started[x]) \in Things
    BY <2>1, OneIsGood
  <2>3. QED BY <1>2, <2>1, <2>2, BagWith DEF On
<1>3. QED BY <1>1, <1>2

LEMMA AllOnIsBag ==
  ASSUME NEW K \in SUBSET Boosters, NEW b \in Bags
  PROVE  AllOn(b, K) \in Bags /\ AllOn(b, K)[1] = b[1]
<1> DEFINE h == On(b, "hunter", K)
           r == On(h, "racer", K)
<1>1. h \in Bags /\ h[1] = b[1]
  BY OnIsBag
<1> HIDE DEF h
<1>2. r \in Bags /\ r[1] = b[1]
  BY <1>1, OnIsBag
<1> HIDE DEF r
<1>3. On(r, "quester", K) \in Bags /\ On(r, "quester", K)[1] = b[1]
  BY <1>2, OnIsBag
<1>4. QED BY <1>3 DEF AllOn, r, h

\* The boosters that an item starts, and what they sell for.
LEMMA StartsFacts ==
  ASSUME NEW k
  PROVE  /\ Starts(k) \in SUBSET Boosters /\ Starts("none") = {}
         /\ \A b \in Boosters : b \in DOMAIN Started /\ SellPrice[b] \in Nat
<1>1. Starts(k) \in SUBSET Boosters
  BY DEF Starts
<1>2. Boosters \subseteq DOMAIN Started
  BY PricesAreSound
<1>3. Starts("none") = {}
  BY <1>2, BoosterKinds, NoneIsNoKind DEF Starts
<1>4. QED BY <1>1, <1>2, <1>3, BoosterKinds, Numbers

PriceIn(B, b) == IF b \in B THEN SellPrice[b] ELSE 0

LEMMA PriceIsSum ==
  ASSUME NEW B \in SUBSET Boosters
  PROVE  /\ Price(B) = PriceIn(B, "hunter") + PriceIn(B, "racer") + PriceIn(B, "quester")
         /\ Price(B) \in Nat
         /\ \A b : PriceIn(B, b) \in Nat
<1>1. \A b : PriceIn(B, b) \in Nat
  BY StartsFacts DEF PriceIn
<1>2. Price(B) = PriceIn(B, "hunter") + PriceIn(B, "racer") + PriceIn(B, "quester")
  BY DEF Price, PriceIn
<1>3. QED BY <1>1, <1>2

LEMMA ItemUseKeeps ==
  ASSUME IInv, NEW p \in Players, NEW s \in Inven, ItemUse(p, s)
  PROVE  IInv'
<1> DEFINE kind == bag[p][s].kind
           used == [bag[p] EXCEPT ![s] = Take(bag[p][s], 1)]
           b == AllOn(used, Starts(kind))
           n == Gain(SellPrice[kind], Price(Starts(kind)))
<1>1. used \in Bags /\ used[1] = bag[p][1]
  <2>1. Take(bag[p][s], 1) \in Things
    BY Of, Spots, TakeLeavesThings
  <2>2. QED BY <2>1, Of, Spots, BagWith
<1>2. /\ p \in online /\ bag' = [bag EXCEPT ![p] = b] /\ Paid(n)
      /\ kind = "gumball" \/ Starts(kind) # {}
      /\ UNCHANGED <<stock, redeemed, online, deleted, taros, buyback, riding, saved, mail>>
  BY DEF ItemUse, AllOn, On
<1> HIDE DEF used
<1>3. b \in Bags /\ b[1] = bag[p][1]
  BY <1>1, StartsFacts, AllOnIsBag
<1>4. n \in Nat
  <2>1. kind \in Kinds
    <3>1. bag[p][s] \in Things /\ kind # "none"
      BY <1>2, Of, Spots, StartsFacts
    <3>2. QED BY <3>1, GoodsByKind, GoodsAre
  <2>2. SellPrice[kind] \in Nat /\ Price(Starts(kind)) \in Nat
    BY <2>1, Numbers, StartsFacts, PriceIsSum
  <2>3. QED BY <2>2 DEF Gain
<1>5. taros[p] \in Purse /\ taros' = [taros EXCEPT ![p] = taros[p]]
  BY <1>2, Of
<1>6. redeemed' \subseteq Players
  BY <1>2 DEF IInv, Shaped
<1> HIDE DEF b, n
<1>7. QED BY <1>2, <1>3, <1>4, <1>5, <1>6, GivenStep

LEMMA ChestOpenKeeps ==
  ASSUME IInv, NEW p \in Players, NEW s \in Inven, ChestOpen(p, s)
  PROVE  IInv'
<1>1. PICK r \in RarityDraws : \E k \in
        IF CrateItems(r, Gender[p]) = {} THEN {"gumball"} ELSE CrateItems(r, Gender[p]) :
          /\ Paid(Gain(SellPrice["crate"], SellPrice[k]))
          /\ bag' = [bag EXCEPT ![p][s] = One(k)]
  BY DEF ChestOpen
<1>2. CrateItems(r, Gender[p]) \subseteq Kinds /\ "gumball" \in Kinds /\ "crate" \in Kinds
  <2>1. \A x \in Loot : x.kind \in Kinds
    BY PricesAreSound
  <2>2. "gumball" \in Kinds /\ "crate" \in Kinds
    BY DEF Kinds
  <2>3. QED BY <2>1, <2>2 DEF CrateItems
<1>3. PICK k \in Kinds :
        /\ Paid(Gain(SellPrice["crate"], SellPrice[k]))
        /\ bag' = [bag EXCEPT ![p][s] = One(k)]
  BY <1>1, <1>2
<1> DEFINE b == [bag[p] EXCEPT ![s] = One(k)]
           n == Gain(SellPrice["crate"], SellPrice[k])
<1>4. n \in Nat
  BY <1>2, Numbers DEF Gain
<1>5. b \in Bags /\ b[1] = bag[p][1]
  BY Of, Spots, OneIsGood, BagWith
<1>6. /\ p \in online /\ Paid(n) /\ bag' = [bag EXCEPT ![p] = b]
      /\ UNCHANGED <<stock, redeemed, online, deleted, taros, buyback, riding, saved, mail>>
  BY <1>3 DEF ChestOpen
<1>7. redeemed' \subseteq Players
  BY <1>6 DEF IInv, Shaped
<1> HIDE DEF b, n
<1>8. QED BY <1>4, <1>5, <1>6, <1>7, Of, GivenStep

LEMMA GiveDropKeeps ==
  ASSUME IInv, NEW p \in Players, NEW n \in 0..MaxEarned[stock], GiveDrop(p, n)
  PROVE  IInv'
<1>1. n \in Nat /\ redeemed' \subseteq Players
  BY Numbers DEF GiveDrop, IInv, Shaped
<1> DEFINE t == AddCapped(taros[p], n)
           s == FreeSlot(bag[p])
<1>2. t \in Purse
  BY <1>1, Of, Capped
<1>3. /\ p \in online /\ taros' = [taros EXCEPT ![p] = t]
      /\ UNCHANGED <<stock, redeemed, online, deleted, buyback, riding, saved, mail>>
  BY DEF GiveDrop
<1>4. CASE Paid(n) /\ UNCHANGED bag
  <2>1. bag[p] \in Bags /\ bag' = [bag EXCEPT ![p] = bag[p]]
    BY <1>4, Of
  <2> HIDE DEF t, s
  <2>2. QED BY <1>1, <1>2, <1>3, <1>4, <2>1, GivenStep
<1>5. CASE /\ s # -1 /\ "crate" \in stock
           /\ Paid(n + SellPrice["crate"])
           /\ bag' = [bag EXCEPT ![p][s] = One("crate")]
  <2> DEFINE b == [bag[p] EXCEPT ![s] = One("crate")]
             m == n + SellPrice["crate"]
  <2>1. "crate" \in Kinds
    BY DEF Kinds
  <2>2. m \in Nat
    BY <1>1, <2>1, Numbers
  <2>3. s \in Inven
    BY <1>5, FreeSlotIsFree
  <2>4. One("crate") \in Things
    BY <2>1, OneIsGood
  <2> HIDE DEF s
  <2>5. b \in Bags /\ b[1] = bag[p][1]
    BY <2>3, <2>4, Of, Spots, BagWith
  <2>6. Paid(m) /\ bag' = [bag EXCEPT ![p] = b]
    BY <1>5
  <2> HIDE DEF b, t, m
  <2>7. QED BY <1>1, <1>2, <1>3, <2>2, <2>5, <2>6, GivenStep
<1>6. QED BY <1>4, <1>5 DEF GiveDrop

LEMMA RedeemKeeps ==
  ASSUME IInv, NEW p \in Players, Redeem(p)
  PROVE  IInv'
<1> DEFINE prize == [i \in DOMAIN Code |-> One(Code[i])]
           b == Filled(bag[p], prize)
           n == WorthOf(prize)
<1>1. /\ DOMAIN Code = 1..Len(Code) /\ Len(Code) \in Nat
      /\ \A i \in DOMAIN Code : Code[i] \in Kinds
  BY PricesAreSound
<1>2. DOMAIN prize = DOMAIN Code /\ \A i \in DOMAIN prize : prize[i] \in Things
  BY <1>1, OneIsGood
<1>3. IsFiniteSet(DOMAIN prize)
  BY <1>1, <1>2, FS_Interval
<1>4. /\ p \in online /\ Paid(n) /\ bag' = [bag EXCEPT ![p] = b]
      /\ redeemed' = redeemed \cup {p}
      /\ UNCHANGED <<stock, online, deleted, taros, buyback, riding, saved, mail>>
  BY DEF Redeem, RecordCodeRedemption
<1> HIDE DEF prize
<1>5. n \in Nat
  BY <1>2, <1>3, WorthOfIsNatural
<1>6. b \in Bags /\ b[1] = bag[p][1]
  BY <1>2, Of, FilledIsBag
<1>7. redeemed' \subseteq Players
  BY <1>4 DEF IInv, Shaped
<1>8. taros' = [taros EXCEPT ![p] = taros[p]]
  BY <1>4, Of
<1> HIDE DEF b, n
<1>9. QED BY <1>4, <1>5, <1>6, <1>7, <1>8, Of, GivenStep

\* checkAndRemoveExpiredItems() throws off whose vehicle it takes.
LEMMA ExpireItemsKeeps ==
  ASSUME IInv, NEW P \in SUBSET Players, ExpireItems(P)
  PROVE  IInv'
<1>1. PICK gone \in SUBSET (online \X Places) : Expire(gone)
  BY DEF ExpireItems
<1>2. UNCHANGED <<stock, redeemed, online, deleted, taros, buyback, saved, mail, earned>>
  BY DEF ExpireItems
<1>3. bag \in [Players -> Bags] /\ Nothing \in Things
  BY NothingIsNoGood DEF IInv, Shaped
<1>4. \A q \in Players, s \in Places :
        bag'[q][s] = IF <<q, s>> \in gone THEN Nothing ELSE bag[q][s]
  BY <1>1 DEF Expire
<1>5. bag' \in [Players -> Bags]
  BY <1>1, <1>3 DEF Expire, Bags
<1>6. \A q \in Players : riding'[q] =
        (riding[q] /\ ~ /\ \E s \in Equip \cup Inven : <<q, s>> \in gone
                        /\ bag'[q][Slot.vehicle] = Nothing)
  BY <1>1 DEF Expire
<1>7. riding' \in [Players -> BOOLEAN]
  BY <1>1 DEF Expire
<1>8. Shaped'
  BY <1>2, <1>5, <1>7 DEF IInv, Shaped
<1>9. GoneHaveNothing'
  <2>1. SUFFICES ASSUME NEW q \in Players \ online
                 PROVE  ~ riding'[q] /\ bag'[q] = Empty /\ taros'[q] = 0
    BY <1>2 DEF GoneHaveNothing
  <2>2. \A s \in Places : bag'[q][s] = bag[q][s]
    BY <1>4
  <2>3. bag'[q] = bag[q]
    BY <1>3, <1>5, <2>2 DEF Bags
  <2>4. QED BY <1>2, <1>6, <2>3 DEF IInv, GoneHaveNothing
<1>10. RidersHaveVehicles'
  <2>1. SUFFICES ASSUME NEW q \in Players, riding'[q], bag'[q][1] = Nothing PROVE FALSE
    BY Slots DEF RidersHaveVehicles
  <2>2. riding[q] /\ bag[q][1] # Nothing
    BY <1>6, <2>1, Slots DEF IInv, RidersHaveVehicles
  <2>3. <<q, 1>> \in gone
    BY <1>4, <2>1, <2>2, Spots
  <2>4. QED BY <1>6, <2>1, <2>3, Spots, Slots
<1>11. QED BY <1>8, <1>9, <1>10 DEF IInv

LEMMA VehicleKeeps ==
  ASSUME IInv, NEW p \in Players, EnterVehicle(p) \/ ExitVehicle(p)
  PROVE  IInv'
<1>1. UNCHANGED <<stock, redeemed, online, deleted, bag, taros, buyback, saved, mail, earned>>
  BY DEF EnterVehicle, ExitVehicle
<1>2. /\ p \in online /\ riding \in [Players -> BOOLEAN]
      /\ \/ bag[p][1] # Nothing /\ riding' = [riding EXCEPT ![p] = TRUE]
         \/ riding' = [riding EXCEPT ![p] = FALSE]
  BY Slots DEF EnterVehicle, ExitVehicle, IInv, Shaped
<1>3. riding' \in [Players -> BOOLEAN]
  BY <1>2
<1>4. \A q \in Players : riding'[q] => q \in online /\ bag[q][1] # Nothing
  BY <1>2, Slots DEF IInv, GoneHaveNothing, RidersHaveVehicles
<1>5. Shaped'
  BY <1>1, <1>3 DEF IInv, Shaped
<1>6. GoneHaveNothing' /\ RidersHaveVehicles'
  BY <1>1, <1>4, Slots DEF IInv, GoneHaveNothing, RidersHaveVehicles
<1>7. QED BY <1>5, <1>6 DEF IInv

-----------------------------------------------------------------------------
(* Vendors.cpp, and what else costs taros.                                 *)

LEMMA VendorBuyKeeps ==
  ASSUME IInv, NEW p \in Players, NEW k \in Kinds, NEW n \in 1..2, Stacks(k) \/ n = 1,
         VendorBuy(p, k, n)
  PROVE  IInv'
<1> DEFINE cost == BuyPrice[k] * Units(k, n)
           s == FreeSlot(bag[p])
           x == [kind |-> k, n |-> n]
           b == [bag[p] EXCEPT ![s] = x]
           t == taros[p] - cost
<1>1. /\ p \in online /\ cost <= taros[p] /\ s # -1
      /\ StackSize[k] # 0 => n <= StackSize[k]
      /\ taros' = [taros EXCEPT ![p] = t] /\ bag' = [bag EXCEPT ![p] = b]
      /\ UNCHANGED <<stock, redeemed, online, deleted, buyback, riding, saved, mail, earned>>
  BY DEF VendorBuy
<1>2. cost \in Nat
  BY Numbers, UnitsAreNatural
<1>3. taros[p] \in Purse
  BY Of
<1>4. x \in Goods
  BY <1>1, GoodsMade
<1>5. s \in Inven
  BY <1>1, FreeSlotIsFree
<1> HIDE DEF cost, s, x
<1>6. t \in Purse
  BY <1>1, <1>2, <1>3, Numbers DEF Purse
<1>7. b \in Bags /\ b[1] = bag[p][1]
  BY <1>4, <1>5, Of, GoodsAre, Spots, BagWith
<1>8. buyback[p] \in Lists /\ buyback' = [buyback EXCEPT ![p] = buyback[p]]
  BY <1>1, Of
<1> HIDE DEF b, t
<1>9. QED BY <1>1, <1>6, <1>7, <1>8, QuietStep

LEMMA VendorSellKeeps ==
  ASSUME IInv, NEW p \in Players, NEW s \in Inven, NEW n \in 1..2, VendorSell(p, s, n)
  PROVE  IInv'
<1> DEFINE k == bag[p][s].kind
           x == [kind |-> k, n |-> n]
           b == [bag[p] EXCEPT ![s] = Take(bag[p][s], n)]
           t == AddCapped(taros[p], SellPrice[k] * n)
           l == Remember(buyback[p], x)
<1>1. /\ p \in online /\ n \in 1..bag[p][s].n
      /\ taros' = [taros EXCEPT ![p] = t] /\ bag' = [bag EXCEPT ![p] = b]
      /\ buyback' = [buyback EXCEPT ![p] = l]
      /\ UNCHANGED <<stock, redeemed, online, deleted, riding, saved, mail, earned>>
  BY DEF VendorSell
<1>2. bag[p] \in Bags /\ bag[p][s] \in Things /\ taros[p] \in Purse /\ buyback[p] \in Lists
  BY Of, Spots
<1>3. bag[p][s] \in Goods /\ n \in Nat /\ n >= 1 /\ n <= bag[p][s].n
  <2>1. bag[p][s] # Nothing
    BY <1>1, NothingIsNoGood
  <2>2. bag[p][s] \in Goods
    BY <1>2, <2>1, GoodsByKind
  <2>3. QED BY <1>1, <2>2, GoodsAre
<1>4. x \in Goods
  BY <1>3, FewerAreGood
<1>5. SellPrice[k] * n \in Nat
  BY <1>3, GoodsAre, Numbers, ProductsAreNatural
<1>6. t \in Purse
  BY <1>2, <1>5, Capped
<1>7. l \in Lists
  BY <1>2, <1>4, RememberedIsList
<1>8. Take(bag[p][s], n) \in Things
  BY <1>2, <1>3, TakeLeavesThings
<1>9. b \in Bags /\ b[1] = bag[p][1]
  BY <1>2, <1>8, Spots, BagWith
<1> HIDE DEF b, t, l
<1>10. QED BY <1>1, <1>6, <1>7, <1>9, QuietStep

LEMMA VendorBuybackKeeps ==
  ASSUME IInv, NEW p \in Players, NEW i, VendorBuyback(p, i)
  PROVE  IInv'
<1> DEFINE item == buyback[p][i]
           cost == SellPrice[item.kind] * Units(item.kind, item.n)
           s == FreeSlot(bag[p])
           b == [bag[p] EXCEPT ![s] = item]
           t == taros[p] - cost
           l == Forgotten(buyback[p], i)
<1>1. /\ p \in online /\ i \in DOMAIN buyback[p]
      /\ buyback' = [buyback EXCEPT ![p] = l]
      /\ UNCHANGED <<stock, redeemed, online, deleted, riding, saved, mail, earned>>
      /\ IF cost > taros[p] \/ s = -1 THEN UNCHANGED <<taros, bag>>
         ELSE /\ taros' = [taros EXCEPT ![p] = t]
              /\ bag' = [bag EXCEPT ![p] = b]
  BY DEF VendorBuyback
<1>2. bag[p] \in Bags /\ taros[p] \in Purse /\ buyback[p] \in Lists
  BY Of
<1>3. l \in Lists
  BY <1>1, <1>2, ForgottenIsList
<1>4. item \in Goods
  BY <1>1, <1>2 DEF Lists
<1>5. cost \in Nat
  BY <1>4, GoodsAre, Numbers, UnitsAreNatural
<1>6. CASE cost > taros[p] \/ s = -1
  <2>1. taros' = [taros EXCEPT ![p] = taros[p]] /\ bag' = [bag EXCEPT ![p] = bag[p]]
    BY <1>1, <1>6, Of
  <2> HIDE DEF l
  <2>2. QED BY <1>1, <1>2, <1>3, <2>1, QuietStep
<1>7. CASE ~ (cost > taros[p] \/ s = -1)
  <2>1. s \in Inven
    BY <1>7, FreeSlotIsFree
  <2>2. t \in Purse
    <3> HIDE DEF cost
    <3>1. QED BY <1>2, <1>5, <1>7, Numbers DEF Purse
  <2>3. b \in Bags /\ b[1] = bag[p][1]
    <3>1. s \in Places /\ s # 1 /\ 1 \in Places /\ item \in Things
      BY <1>4, <2>1, GoodsAre, Spots
    <3> HIDE DEF s, item
    <3>2. QED BY <1>2, <3>1, BagWith
  <2>4. taros' = [taros EXCEPT ![p] = t] /\ bag' = [bag EXCEPT ![p] = b]
    BY <1>1, <1>7
  <2> HIDE DEF l, t, b
  <2>5. QED BY <1>1, <1>3, <2>2, <2>3, <2>4, QuietStep
<1>8. QED BY <1>6, <1>7

\* Only the purse is another.
LEMMA PurseStep ==
  ASSUME IInv, NEW p \in Players, p \in online, NEW t \in Purse,
         taros' = [taros EXCEPT ![p] = t],
         UNCHANGED <<stock, redeemed, online, deleted, bag, buyback, riding, saved, mail, earned>>
  PROVE  IInv'
<1>1. bag' = [bag EXCEPT ![p] = bag[p]] /\ buyback' = [buyback EXCEPT ![p] = buyback[p]]
  BY Of
<1>2. bag[p] \in Bags /\ buyback[p] \in Lists
  BY Of
<1>3. QED BY <1>1, <1>2, QuietStep

LEMMA BuyBatteryKeeps ==
  ASSUME IInv, NEW p \in Players, NEW n \in 1..MaxTaros, BuyBattery(p, n)
  PROVE  IInv'
<1> DEFINE t == taros[p] - n
<1>1. t \in Purse
  BY Of, Numbers DEF BuyBattery, Purse
<1>2. /\ p \in online /\ taros' = [taros EXCEPT ![p] = t]
      /\ UNCHANGED <<stock, redeemed, online, deleted, bag, buyback, riding, saved, mail, earned>>
  BY DEF BuyBattery
<1> HIDE DEF t
<1>3. QED BY <1>1, <1>2, PurseStep

LEMMA TransportWarpKeeps ==
  ASSUME IInv, NEW p \in Players, NEW n \in 1..MaxTaros, TransportWarp(p, n)
  PROVE  IInv'
<1> DEFINE rest == SubtractCapped(taros[p], n)
<1>1. n \in Nat
  BY Numbers
<1>2. rest \in Purse
  BY <1>1, Of, Capped
<1>3. AddCapped(rest, n) \in Purse
  BY <1>1, <1>2, Capped
<1>4. PICK t \in {rest, AddCapped(rest, n)} : taros' = [taros EXCEPT ![p] = t]
  BY DEF TransportWarp
<1>5. t \in Purse
  BY <1>2, <1>3, <1>4
<1>6. /\ p \in online
      /\ UNCHANGED <<stock, redeemed, online, deleted, bag, buyback, riding, saved, mail, earned>>
  BY DEF TransportWarp
<1>7. QED BY <1>4, <1>5, <1>6, PurseStep

LEMMA CombineItemsKeeps ==
  ASSUME IInv, NEW p \in Players, NEW stats \in Inven, NEW looks \in Inven,
         CombineItems(p, stats, looks, 1)
  PROVE  IInv'
<1> DEFINE t == SubtractCapped(taros[p], 1)
           b == With(bag[p], looks, One("combined"), stats, Nothing)
<1>1. /\ p \in online /\ taros' = [taros EXCEPT ![p] = t]
      /\ UNCHANGED bag \/ bag' = [bag EXCEPT ![p] = b]
      /\ UNCHANGED <<stock, redeemed, online, deleted, buyback, riding, saved, mail, earned>>
  BY DEF CombineItems, With
<1>2. t \in Purse
  BY Of, Capped
<1>3. b \in Bags /\ b[1] = bag[p][1]
  <2>1. One("combined") \in Things /\ Nothing \in Things
    BY OneIsGood, NothingIsNoGood DEF Kinds
  <2>2. bag[p] \in Bags /\ looks \in Places /\ stats \in Places
    BY Of, Spots
  <2>3. b \in Bags /\ \A u \in Places \ {looks, stats} : b[u] = bag[p][u]
    BY <2>1, <2>2, BagWithTwo
  <2> HIDE DEF b
  <2>4. QED BY <2>3, Spots
<1>4. buyback[p] \in Lists /\ buyback' = [buyback EXCEPT ![p] = buyback[p]]
  BY <1>1, Of
<1> HIDE DEF b, t
<1>5. CASE UNCHANGED bag
  <2>1. bag[p] \in Bags /\ bag' = [bag EXCEPT ![p] = bag[p]]
    BY <1>5, Of
  <2>2. QED BY <1>1, <1>2, <1>4, <2>1, QuietStep
<1>6. CASE bag' = [bag EXCEPT ![p] = b]
  BY <1>1, <1>2, <1>3, <1>4, <1>6, QuietStep
<1>7. QED BY <1>1, <1>5, <1>6

-----------------------------------------------------------------------------
(* Email.cpp and db/email.cpp                                              *)

LEMMA ParcelsAre ==
  ASSUME NEW p, NEW a \in Parcels(p)
  PROVE  /\ DOMAIN a = 1..Len(a) /\ Len(a) \in Nat
         /\ \A i \in DOMAIN a : /\ a[i].slot \in Inven /\ a[i].n \in 1..2
                                /\ a[i].n <= bag[p][a[i].slot].n
<1>1. PICK m \in 0..NAttach : a \in [1..m -> [slot : Inven, n : 1..2]]
  BY DEF Parcels, SeqOf
<1> DEFINE S == [slot : Inven, n : 1..2]
<1>2. m \in Nat
  BY <1>1, Numbers
<1>3. Len(a) = m
  <2>1. DOMAIN a = 1..m
    BY <1>1
  <2> DEFINE c == SubSeq(a, 1, m)
  <2>2. a \in [1..m -> S] /\ \A i \in 1..m : a[i] \in S
    BY <1>1
  <2> HIDE DEF S
  <2>3. /\ c \in Seq(S) /\ Len(c) = IF 1 <= m THEN m - 1 + 1 ELSE 0
        /\ \A i \in 1..m - 1 + 1 : c[i] = a[1 + i - 1]
    BY <1>2, <2>2, SubSeqProperties
  <2>4. m - 1 + 1 = m /\ \A i \in 1..m : 1 + i - 1 = i
    BY <1>2
  <2>5. Len(c) = m /\ \A i \in 1..m : c[i] = a[i]
    BY <1>2, <2>3, <2>4
  <2>6. c \in [1..m -> S]
    BY <2>3, <2>5, LenProperties
  <2>7. c = a
    <3> HIDE DEF c
    <3>1. QED BY <2>2, <2>5, <2>6
  <2>8. QED BY <2>5, <2>7
<1>4. QED BY <1>1, <1>2, <1>3 DEF Parcels

LEMMA CountsAre ==
  ASSUME IInv, NEW p \in Players, NEW a \in Parcels(p), NEW s \in SlotsOf(a)
  PROVE  /\ s \in Inven /\ bag[p][s] \in Goods
         /\ CountAt(a, s) \in Nat /\ CountAt(a, s) >= 1 /\ CountAt(a, s) <= bag[p][s].n
<1> DEFINE i == CHOOSE i \in DOMAIN a : a[i].slot = s
<1>1. i \in DOMAIN a /\ a[i].slot = s
  BY DEF SlotsOf
<1>2. CountAt(a, s) = a[i].n
  BY DEF CountAt
<1> HIDE DEF i
<1>3. s \in Inven /\ a[i].n \in 1..2 /\ a[i].n <= bag[p][s].n
  BY <1>1, ParcelsAre
<1>4. bag[p][s] \in Things
  BY <1>3, Of, Spots
<1>5. bag[p][s] # Nothing
  BY <1>3, NothingIsNoGood
<1>6. bag[p][s] \in Goods
  BY <1>4, <1>5, GoodsByKind
<1>7. QED BY <1>2, <1>3, <1>6

LEMMA PackedIsBag ==
  ASSUME IInv, NEW p \in Players, NEW a \in Parcels(p)
  PROVE  Packed(p, a) \in Bags /\ Packed(p, a)[1] = bag[p][1]
<1>1. \A s \in SlotsOf(a) : s \in Inven /\ Take(bag[p][s], CountAt(a, s)) \in Things
  <2>1. SUFFICES ASSUME NEW s \in SlotsOf(a)
                 PROVE  s \in Inven /\ Take(bag[p][s], CountAt(a, s)) \in Things
    OBVIOUS
  <2>2. s \in Inven /\ bag[p][s] \in Things /\ CountAt(a, s) \in Nat
    BY CountsAre, GoodsAre
  <2>3. QED BY <2>2, TakeLeavesThings
<1>2. \A s \in Places : bag[p][s] \in Things
  BY Of
<1>3. 1 \in Places /\ 1 \notin SlotsOf(a)
  BY <1>1, Spots
<1>4. QED BY <1>1, <1>2, <1>3 DEF Packed, Bags

LEMMA UnpackedIsBag ==
  ASSUME IInv, NEW p \in Players, NEW a \in Parcels(p)
  PROVE  Unpacked(p, a) \in Bags /\ Unpacked(p, a)[1] = bag[p][1]
<1> DEFINE back(s) == [bag[p][s] EXCEPT !.n = CountAt(a, s)]
<1>1. \A s \in SlotsOf(a) : s \in Inven /\ back(s) \in Things
  <2>1. SUFFICES ASSUME NEW s \in SlotsOf(a) PROVE s \in Inven /\ back(s) \in Things
    OBVIOUS
  <2>2. /\ s \in Inven /\ bag[p][s] \in Goods
        /\ CountAt(a, s) \in Nat /\ CountAt(a, s) >= 1 /\ CountAt(a, s) <= bag[p][s].n
    BY CountsAre
  <2>3. back(s) \in Goods
    BY <2>2, FewerAreGood
  <2>4. QED BY <2>2, <2>3, GoodsAre
<1>2. \A s \in Places : bag[p][s] \in Things
  BY Of
<1>3. 1 \in Places /\ 1 \notin SlotsOf(a)
  BY <1>1, Spots
<1>4. Unpacked(p, a) = [s \in Places |-> IF s \in SlotsOf(a) THEN back(s) ELSE bag[p][s]]
  BY DEF Unpacked
<1> HIDE DEF back
<1>5. QED BY <1>1, <1>2, <1>3, <1>4 DEF Bags

\* What is in the mail is what was taken out of the bag.
LEMMA LetterIsLetter ==
  ASSUME IInv, NEW p \in Players, NEW a \in Parcels(p), NEW cash \in Purse
  PROVE  [cash |-> cash,
          items |-> [i \in 1..NAttach |-> IF i <= Len(a) THEN Items(p, a)[i] ELSE Nothing]]
           \in Letters
<1>1. \A i \in 1..Len(a) : Items(p, a)[i] \in Things
  <2>1. SUFFICES ASSUME NEW i \in 1..Len(a) PROVE Items(p, a)[i] \in Things
    OBVIOUS
  <2>2. /\ i \in DOMAIN a /\ a[i].slot \in Inven /\ a[i].n \in 1..2
        /\ a[i].n <= bag[p][a[i].slot].n
    BY ParcelsAre
  <2>3. bag[p][a[i].slot] \in Things
    BY <2>2, Of, Spots
  <2>4. bag[p][a[i].slot] # Nothing
    BY <2>2, NothingIsNoGood
  <2>5. bag[p][a[i].slot] \in Goods
    BY <2>3, <2>4, GoodsByKind
  <2>6. [kind |-> bag[p][a[i].slot].kind, n |-> a[i].n] \in Goods
    <3> DEFINE x == bag[p][a[i].slot]
               n == a[i].n
    <3>1. x \in Goods /\ n \in Nat /\ n >= 1 /\ n <= x.n
      BY <2>2, <2>5
    <3> HIDE DEF x, n
    <3>2. [kind |-> x.kind, n |-> n] \in Goods
      BY <3>1, FewerAreGood
    <3>3. QED BY <3>2 DEF x, n
  <2>7. Items(p, a)[i] = [kind |-> bag[p][a[i].slot].kind, n |-> a[i].n]
    BY <2>2 DEF Items
  <2>8. QED BY <2>6, <2>7, GoodsAre
<1>2. Len(a) \in Nat /\ Nothing \in Things
  BY ParcelsAre, NothingIsNoGood
<1>3. \A i \in 1..NAttach : (IF i <= Len(a) THEN Items(p, a)[i] ELSE Nothing) \in Things
  BY <1>1, <1>2
<1>4. QED BY <1>3 DEF Letters

Posts == [Players -> [Indices -> Letters \cup {NoMail}]]
Records == [Players -> [bag : Bags, taros : Purse]]

LEMMA EmailSendKeeps ==
  ASSUME IInv, NEW p \in Players, NEW q \in Players, NEW cash \in 0..MaxTaros,
         NEW a \in Parcels(p), EmailSend(p, q, cash, a)
  PROVE  IInv'
<1> DEFINE cost == cash + Postage + PerItem * Len(a)
           rest == SubtractCapped(taros[p], cost)
           back == AddCapped(rest, cost)
           letter == [cash |-> cash, items |-> [i \in 1..NAttach |->
                        IF i <= Len(a) THEN Items(p, a)[i] ELSE Nothing]]
<1>1. p \in online /\ UNCHANGED <<stock, redeemed, online, deleted, buyback, riding, earned>>
  BY DEF EmailSend
<1>2. cost \in Nat
  <2>1. Len(a) \in Nat /\ cash \in Nat
    BY ParcelsAre, Numbers
  <2>2. PerItem * Len(a) \in Nat
    BY <2>1, Numbers, ProductsAreNatural
  <2> DEFINE m == PerItem * Len(a)
  <2>3. m \in Nat
    BY <2>2
  <2> HIDE DEF m
  <2>4. cash + Postage + m \in Nat
    BY <2>1, <2>3, Numbers
  <2>5. QED BY <2>4 DEF m
<1>3. CASE /\ taros' = [taros EXCEPT ![p] = back]
           /\ bag' = [bag EXCEPT ![p] = Unpacked(p, a)]
           /\ UNCHANGED <<saved, mail>>
  <2>1. back \in Purse
    <3> HIDE DEF cost
    <3>1. rest \in Purse
      BY <1>2, Of, Capped
    <3>2. QED BY <1>2, <3>1, Capped
  <2>2. buyback[p] \in Lists /\ buyback' = [buyback EXCEPT ![p] = buyback[p]]
    BY <1>1, Of
  <2>3. Unpacked(p, a) \in Bags /\ Unpacked(p, a)[1] = bag[p][1]
    BY UnpackedIsBag
  <2> HIDE DEF back
  <2>4. QED BY <1>1, <1>3, <2>1, <2>2, <2>3, QuietStep
<1>4. CASE /\ NextIndex(q) \in Indices
           /\ taros' = [taros EXCEPT ![p] = rest]
           /\ bag' = [bag EXCEPT ![p] = Packed(p, a)]
           /\ SendEmail(p, q, letter)
  <2>1. rest \in Purse
    <3> HIDE DEF cost
    <3>1. QED BY <1>2, Of, Capped
  <2>2. buyback[p] \in Lists /\ buyback' = [buyback EXCEPT ![p] = buyback[p]]
    BY <1>1, Of
  <2>3. Packed(p, a) \in Bags /\ Packed(p, a)[1] = bag[p][1]
    BY PackedIsBag
  <2>4. letter \in Letters
    BY LetterIsLetter DEF Purse
  <2> HIDE DEF letter, rest
  <2>5. mail' \in Posts
    BY <1>4, <2>4 DEF SendEmail, IInv, Shaped, Posts
  <2>6. bag'[p] = Packed(p, a) /\ taros'[p] = rest
    BY <1>4 DEF IInv, Shaped
  <2>7. saved' \in Records
    BY <1>4, <2>1, <2>3, <2>6 DEF SendEmail, IInv, Shaped, Records
  <2>8. redeemed' \subseteq Players /\ earned' \in 0..MaxEarned[stock]
    BY <1>1 DEF IInv, Shaped
  <2>9. QED BY <1>1, <1>4, <2>1, <2>2, <2>3, <2>5, <2>7, <2>8, PlayerStep DEF Posts, Records
<1>5. QED BY <1>3, <1>4 DEF EmailSend

\* A letter is written to; who collects it keeps its vehicle slot.
LEMMA CollectStep ==
  ASSUME IInv, NEW p \in Players, p \in online, NEW b \in Bags, NEW t \in Purse,
         b[1] = bag[p][1], bag' = [bag EXCEPT ![p] = b], taros' = [taros EXCEPT ![p] = t],
         NEW i \in Indices, NEW x \in Letters, mail' = [mail EXCEPT ![p][i] = x],
         UNCHANGED <<stock, redeemed, online, deleted, buyback, riding, saved, earned>>
  PROVE  IInv'
<1>1. mail' \in Posts
  BY DEF IInv, Shaped, Posts
<1>2. redeemed' \subseteq Players /\ earned' \in 0..MaxEarned[stock] /\ saved' \in Records
  BY DEF IInv, Shaped, Records
<1>3. buyback[p] \in Lists /\ buyback' = [buyback EXCEPT ![p] = buyback[p]]
  BY Of
<1>4. QED BY <1>1, <1>2, <1>3, PlayerStep DEF Posts, Records

LEMMA ReadableLetter ==
  ASSUME IInv, NEW p \in Players, NEW i \in Indices, Readable(p, i)
  PROVE  p \in online /\ mail[p][i] \in Letters
BY DEF IInv, Shaped, Readable, GetEmail

LEMMA EmailReceiveTarosKeeps ==
  ASSUME IInv, NEW p \in Players, NEW i \in Indices, EmailReceiveTaros(p, i)
  PROVE  IInv'
<1> DEFINE x == [mail[p][i] EXCEPT !.cash = 0]
           t == AddCapped(taros[p], mail[p][i].cash)
<1>1. p \in online /\ mail[p][i] \in Letters
  BY ReadableLetter DEF EmailReceiveTaros
<1>2. x \in Letters
  <2>1. 0 \in Purse
    BY Numbers DEF Purse
  <2>2. QED BY <1>1, <2>1 DEF Letters
<1>3. t \in Purse
  <2>1. mail[p][i].cash \in Nat /\ taros[p] \in Purse
    BY <1>1, Of, Numbers DEF Letters, Purse
  <2>2. QED BY <2>1, Capped
<1>4. /\ taros' = [taros EXCEPT ![p] = t] /\ mail' = [mail EXCEPT ![p][i] = x]
      /\ UNCHANGED <<stock, redeemed, online, deleted, bag, buyback, riding, saved, earned>>
  BY DEF EmailReceiveTaros, UpdateEmailContent, GetEmail
<1>5. bag[p] \in Bags /\ bag' = [bag EXCEPT ![p] = bag[p]]
  BY <1>4, Of
<1> HIDE DEF x, t
<1>6. QED BY <1>1, <1>2, <1>3, <1>4, <1>5, CollectStep

LEMMA AttachmentsDeleted ==
  ASSUME NEW x \in Letters, NEW K
  PROVE  [x EXCEPT !.items = [k \in 1..NAttach |-> IF k \in K THEN Nothing ELSE x.items[k]]]
           \in Letters
<1>1. \A k \in 1..NAttach : (IF k \in K THEN Nothing ELSE x.items[k]) \in Things
  BY NothingIsNoGood DEF Letters
<1>2. [k \in 1..NAttach |-> IF k \in K THEN Nothing ELSE x.items[k]] \in [1..NAttach -> Things]
  BY <1>1
<1>3. QED BY <1>2 DEF Letters

LEMMA EmailReceiveItemSingleKeeps ==
  ASSUME IInv, NEW p \in Players, NEW i \in Indices, NEW k \in 1..NAttach, NEW s \in Inven,
         EmailReceiveItemSingle(p, i, k, s)
  PROVE  IInv'
<1> DEFINE x == [mail[p][i] EXCEPT !.items =
                   [j \in 1..NAttach |-> IF j \in {k} THEN Nothing ELSE mail[p][i].items[j]]]
           b == [bag[p] EXCEPT ![s] = mail[p][i].items[k]]
<1>1. p \in online /\ mail[p][i] \in Letters
  BY ReadableLetter DEF EmailReceiveItemSingle
<1>2. x \in Letters
  BY <1>1, AttachmentsDeleted
<1>3. mail[p][i].items[k] \in Things
  BY <1>1 DEF Letters
<1>4. b \in Bags /\ b[1] = bag[p][1]
  BY <1>3, Of, Spots, BagWith
<1>5. /\ bag' = [bag EXCEPT ![p] = b] /\ mail' = [mail EXCEPT ![p][i] = x]
      /\ UNCHANGED <<stock, redeemed, online, deleted, taros, buyback, riding, saved, earned>>
  BY DEF EmailReceiveItemSingle, DeleteEmailAttachments, GetEmailAttachments, GetEmail
<1>6. taros[p] \in Purse /\ taros' = [taros EXCEPT ![p] = taros[p]]
  BY <1>5, Of
<1> HIDE DEF x, b
<1>7. QED BY <1>1, <1>2, <1>4, <1>5, <1>6, CollectStep

LEMMA EmailReceiveItemAllKeeps ==
  ASSUME IInv, NEW p \in Players, NEW i \in Indices, EmailReceiveItemAll(p, i)
  PROVE  IInv'
<1> DEFINE x == [mail[p][i] EXCEPT !.items =
                   [j \in 1..NAttach |->
                      IF j \in 1..NAttach THEN Nothing ELSE mail[p][i].items[j]]]
           b == Filled(bag[p], mail[p][i].items)
<1>1. p \in online /\ mail[p][i] \in Letters
  BY ReadableLetter DEF EmailReceiveItemAll
<1>2. x \in Letters
  BY <1>1, AttachmentsDeleted
<1>3. \A k \in DOMAIN mail[p][i].items : mail[p][i].items[k] \in Things
  BY <1>1 DEF Letters
<1>4. b \in Bags /\ b[1] = bag[p][1]
  BY <1>3, Of, FilledIsBag
<1>5. /\ bag' = [bag EXCEPT ![p] = b] /\ mail' = [mail EXCEPT ![p][i] = x]
      /\ UNCHANGED <<stock, redeemed, online, deleted, taros, buyback, riding, saved, earned>>
  BY DEF EmailReceiveItemAll, DeleteEmailAttachments, GetEmailAttachments, GetEmail
<1>6. taros[p] \in Purse /\ taros' = [taros EXCEPT ![p] = taros[p]]
  BY <1>5, Of
<1> HIDE DEF x, b
<1>7. QED BY <1>1, <1>2, <1>4, <1>5, <1>6, CollectStep

LEMMA EmailDeleteKeeps ==
  ASSUME IInv, NEW p \in Players, NEW I, EmailDelete(p, I)
  PROVE  IInv'
<1>1. /\ mail' = [mail EXCEPT ![p] =
                    [i \in Indices |-> IF i \in I THEN NoMail ELSE mail[p][i]]]
      /\ UNCHANGED <<stock, redeemed, online, deleted, bag, taros, buyback, riding, saved, earned>>
  BY DEF EmailDelete, DeleteEmails, mine
<1>2. mail' \in Posts
  BY <1>1 DEF IInv, Shaped, Posts
<1>3. Shaped'
  BY <1>1, <1>2 DEF IInv, Shaped, Posts
<1>4. QED BY <1>1, <1>3 DEF IInv, GoneHaveNothing, RidersHaveVehicles

-----------------------------------------------------------------------------
(* Coming and going.                                                       *)

LEMMA EmptyIsBag == Empty \in Bags
BY NothingIsNoGood DEF Empty, Bags

LEMMA SavePlayerKeeps ==
  ASSUME IInv, NEW p \in Players, SavePlayer(p)
  PROVE  IInv'
<1>1. /\ saved' = [saved EXCEPT ![p] = [bag |-> bag[p], taros |-> taros[p]]]
      /\ UNCHANGED <<stock, redeemed, online, deleted, bag, taros, buyback, riding, mail, earned>>
  BY DEF SavePlayer, mine
<1>2. bag[p] \in Bags /\ taros[p] \in Purse
  BY Of
<1>3. saved' \in Records
  BY <1>1, <1>2 DEF IInv, Shaped, Records
<1>4. Shaped'
  BY <1>1, <1>3 DEF IInv, Shaped, Records
<1>5. QED BY <1>1, <1>4 DEF IInv, GoneHaveNothing, RidersHaveVehicles

LEMMA LoginKeeps ==
  ASSUME IInv, NEW p \in Players, Login(p)
  PROVE  IInv'
<1>1. saved[p].bag \in Bags /\ saved[p].taros \in Purse
  BY Of
<1>2. /\ p \notin online \cup deleted /\ online' = online \cup {p}
      /\ bag' = [bag EXCEPT ![p] = saved[p].bag]
      /\ taros' = [taros EXCEPT ![p] = saved[p].taros]
      /\ UNCHANGED <<stock, redeemed, deleted, buyback, riding, saved, mail, earned>>
  BY DEF Login
<1>3. bag' \in [Players -> Bags] /\ taros' \in [Players -> Purse]
  BY <1>1, <1>2 DEF IInv, Shaped
<1>4. Shaped'
  BY <1>2, <1>3 DEF IInv, Shaped
<1>5. ~ riding[p]
  BY <1>2 DEF IInv, GoneHaveNothing
<1>6. GoneHaveNothing'
  BY <1>2 DEF IInv, GoneHaveNothing
<1>7. RidersHaveVehicles'
  BY <1>2, <1>5 DEF IInv, Shaped, RidersHaveVehicles
<1>8. QED BY <1>4, <1>6, <1>7 DEF IInv

\* Freed players go on foot.
LEMMA FreedStep ==
  ASSUME IInv, NEW P \in SUBSET Players, Freed(P), saved' \in Records,
         UNCHANGED <<stock, redeemed, deleted, mail, earned>>
  PROVE  IInv'
<1>1. /\ online' = online \ P
      /\ bag' = [p \in Players |-> IF p \in P THEN Empty ELSE bag[p]]
      /\ taros' = [p \in Players |-> IF p \in P THEN 0 ELSE taros[p]]
      /\ buyback' = [p \in Players |-> IF p \in P THEN <<>> ELSE buyback[p]]
      /\ riding' = [p \in Players |-> IF p \in P THEN FALSE ELSE riding[p]]
  BY DEF Freed
<1>2. 0 \in Purse /\ <<>> \in Lists
  BY Numbers DEF Purse, Lists
<1>3. bag' \in [Players -> Bags]
  BY <1>1, EmptyIsBag DEF IInv, Shaped
<1>4. taros' \in [Players -> Purse]
  BY <1>1, <1>2 DEF IInv, Shaped
<1>5. buyback' \in [Players -> Lists]
  BY <1>1, <1>2 DEF IInv, Shaped
<1>6. riding' \in [Players -> BOOLEAN]
  BY <1>1 DEF IInv, Shaped
<1>7. Shaped'
  BY <1>1, <1>3, <1>4, <1>5, <1>6 DEF IInv, Shaped, Records
<1>8. GoneHaveNothing'
  BY <1>1 DEF IInv, GoneHaveNothing
<1>9. RidersHaveVehicles'
  BY <1>1 DEF IInv, RidersHaveVehicles
<1>10. QED BY <1>7, <1>8, <1>9 DEF IInv

LEMMA LogoutKeeps ==
  ASSUME IInv, NEW p \in Players, Logout(p)
  PROVE  IInv'
<1>1. bag[p] \in Bags /\ taros[p] \in Purse
  BY Of
<1>2. saved' \in Records
  BY <1>1 DEF Logout, IInv, Shaped, Records
<1>3. Freed({p}) /\ UNCHANGED <<stock, redeemed, deleted, mail, earned>>
  BY DEF Logout
<1>4. {p} \in SUBSET Players
  OBVIOUS
<1>5. QED BY <1>2, <1>3, <1>4, FreedStep

LEMMA CrashKeeps ==
  ASSUME IInv, Crash
  PROVE  IInv'
<1>1. /\ saved' \in Records /\ Freed(Players)
      /\ UNCHANGED <<stock, redeemed, deleted, mail, earned>>
  BY DEF Crash, IInv, Shaped, Records
<1>2. Players \in SUBSET Players
  OBVIOUS
<1>3. QED BY <1>1, <1>2, FreedStep

LEMMA DeleteCharacterKeeps ==
  ASSUME IInv, NEW p \in Players, DeleteCharacter(p)
  PROVE  IInv'
<1>1. /\ p \notin online \cup deleted /\ deleted' = deleted \cup {p}
      /\ saved' = [saved EXCEPT ![p] = [bag |-> Empty, taros |-> 0]]
      /\ mail' = [mail EXCEPT ![p] = [i \in Indices |-> NoMail]]
      /\ UNCHANGED <<stock, redeemed, online, bag, taros, buyback, riding, earned>>
  BY DEF DeleteCharacter, mine
<1>2. 0 \in Purse
  BY Numbers DEF Purse
<1>3. saved' \in Records
  BY <1>1, <1>2, EmptyIsBag DEF IInv, Shaped, Records
<1>4. mail' \in Posts
  BY <1>1 DEF IInv, Shaped, Posts
<1>5. Shaped'
  BY <1>1, <1>3, <1>4 DEF IInv, Shaped, Records, Posts
<1>6. QED BY <1>1, <1>5 DEF IInv, GoneHaveNothing, RidersHaveVehicles

-----------------------------------------------------------------------------

LEMMA InitIsInvariant ==
  ASSUME Init
  PROVE  IInv
<1>1. MaxEarned[stock] \in Nat
  BY Numbers DEF Init
<1>2. 0 \in Purse /\ <<>> \in Lists
  BY Numbers DEF Purse, Lists
<1>3. Shaped
  BY <1>1, <1>2, EmptyIsBag DEF Init, Shaped
<1>4. QED BY <1>3 DEF Init, IInv, GoneHaveNothing, RidersHaveVehicles

LEMMA HeldArePlaces == \A p : Held(p) \subseteq Places
BY DEF Held

LEMMA ItemsNextKeeps ==
  ASSUME IInv, NEW p \in Players, ItemsNext(p)
  PROVE  IInv'
<1>1. CASE \E s \in Places, t \in Held(p) : ItemMove(p, s, t) \/ ItemMove(p, t, s)
  BY <1>1, HeldArePlaces, ItemMoveKeeps
<1>2. CASE \E s \in Inven \cap Held(p) : ItemDelete(p, s) \/ ItemUse(p, s) \/ ChestOpen(p, s)
  BY <1>2, ItemDeleteKeeps, ItemUseKeeps, ChestOpenKeeps
<1>3. CASE \E n \in 0..MaxEarned[stock] : GiveDrop(p, n)
  BY <1>3, GiveDropKeeps
<1>4. CASE Redeem(p) \/ EnterVehicle(p) \/ ExitVehicle(p)
  BY <1>4, RedeemKeeps, VehicleKeeps
<1>5. QED BY <1>1, <1>2, <1>3, <1>4 DEF ItemsNext

LEMMA VendorsNextKeeps ==
  ASSUME IInv, NEW p \in Players, VendorsNext(p)
  PROVE  IInv'
<1>1. CASE \E k \in Kinds, n \in 1..2 : (Stacks(k) \/ n = 1) /\ VendorBuy(p, k, n)
  BY <1>1, VendorBuyKeeps
<1>2. CASE \E s \in Inven \cap Held(p), n \in 1..2 : VendorSell(p, s, n)
  BY <1>2, VendorSellKeeps
<1>3. CASE \E i \in 1..NBuyback : VendorBuyback(p, i)
  BY <1>3, VendorBuybackKeeps
<1>4. CASE \E n \in 1..MaxTaros : BuyBattery(p, n) \/ TransportWarp(p, n)
  BY <1>4, BuyBatteryKeeps, TransportWarpKeeps
<1>5. CASE \E s, t \in Inven \cap Held(p) : CombineItems(p, s, t, 1)
  BY <1>5, CombineItemsKeeps
<1>6. QED BY <1>1, <1>2, <1>3, <1>4, <1>5 DEF VendorsNext

LEMMA EmailNextKeeps ==
  ASSUME IInv, NEW p \in Players, EmailNext(p)
  PROVE  IInv'
<1>1. CASE \E q \in Players, n \in 0..MaxTaros, a \in Parcels(p) : EmailSend(p, q, n, a)
  BY <1>1, EmailSendKeeps
<1>2. CASE \E i \in Indices : EmailReceiveTaros(p, i) \/ EmailReceiveItemAll(p, i)
  BY <1>2, EmailReceiveTarosKeeps, EmailReceiveItemAllKeeps
<1>3. CASE \E I \in (SUBSET Indices) \ {{}} : EmailDelete(p, I)
  BY <1>3, EmailDeleteKeeps
<1>4. CASE \E i \in Indices, k \in 1..NAttach, s \in Inven : EmailReceiveItemSingle(p, i, k, s)
  BY <1>4, EmailReceiveItemSingleKeeps
<1>5. QED BY <1>1, <1>2, <1>3, <1>4 DEF EmailNext

LEMMA NextKeeps ==
  ASSUME IInv, [Next]_vars
  PROVE  IInv'
<1>1. CASE \E p \in Players : ItemsNext(p) \/ VendorsNext(p) \/ EmailNext(p)
  BY <1>1, ItemsNextKeeps, VendorsNextKeeps, EmailNextKeeps
<1>2. CASE \E P \in SUBSET Players : ExpireItems(P)
  BY <1>2, ExpireItemsKeeps
<1>3. CASE \E p \in Players : SavePlayer(p) \/ Login(p) \/ Logout(p) \/ DeleteCharacter(p)
  BY <1>3, SavePlayerKeeps, LoginKeeps, LogoutKeeps, DeleteCharacterKeeps
<1>4. CASE Crash
  BY <1>4, CrashKeeps
<1>5. CASE UNCHANGED vars
  BY <1>5 DEF vars, mine, IInv, Shaped, GoneHaveNothing, RidersHaveVehicles
<1>6. QED BY <1>1, <1>2, <1>3, <1>4, <1>5 DEF Next

\* The inductive invariant: every place, letter and list holds what it may,
\* players that are not in memory have nothing there, and riders have vehicles.
THEOREM PossessionsAreInvariant == Spec => []IInv
<1>1. Init => IInv
  BY InitIsInvariant
<1>2. IInv /\ [Next]_vars => IInv'
  BY NextKeeps
<1>3. QED BY <1>1, <1>2, PTL DEF Spec

LEMMA ShapedIsTyped ==
  ASSUME IInv
  PROVE  TypeOK
<1>1. \A p \in Players :
        /\ DOMAIN bag[p] = Places /\ DOMAIN saved[p].bag = Places
        /\ \A s \in Places : bag[p][s] \in Things /\ saved[p].bag[s] \in Things
        /\ taros[p] \in 0..MaxTaros /\ saved[p].taros \in 0..MaxTaros
        /\ Len(buyback[p]) <= NBuyback /\ riding[p] \in BOOLEAN
  BY Of DEF IInv, Shaped, Bags, Purse, Lists
<1>2. \A p \in Players, i \in Indices : mail[p][i] # NoMail =>
        /\ mail[p][i].cash \in 0..MaxTaros
        /\ \A k \in 1..NAttach : mail[p][i].items[k] \in Things
  <2>1. SUFFICES ASSUME NEW p \in Players, NEW i \in Indices, mail[p][i] # NoMail
                 PROVE  /\ mail[p][i].cash \in 0..MaxTaros
                        /\ \A k \in 1..NAttach : mail[p][i].items[k] \in Things
    OBVIOUS
  <2>2. mail[p][i] \in Letters
    BY <2>1 DEF IInv, Shaped
  <2>3. QED BY <2>2 DEF Letters, Purse
<1>3. /\ stock \in Stocks /\ deleted \subseteq Players /\ online \subseteq Players \ deleted
      /\ redeemed \subseteq Players /\ earned \in 0..MaxEarned[stock]
  BY DEF IInv, Shaped
<1>4. QED BY <1>1, <1>2, <1>3, HoldingThings DEF TypeOK

\* However items are moved, merged, sold, posted and collected, no stack
\* outgrows its kind and no purse the limit, in memory, tables and mail.
THEOREM TypeIsInvariant == Spec => []TypeOK
BY PossessionsAreInvariant, ShapedIsTyped, PTL

\* Nobody drives without anything in the vehicle slot, however the vehicle
\* got lost.
THEOREM RidersAlwaysHaveVehicles == Spec => []RidersHaveVehicles
<1>1. IInv => RidersHaveVehicles
  BY DEF IInv
<1>2. QED BY <1>1, PossessionsAreInvariant, PTL
-----------------------------------------------------------------------------
(* The ledger: what everything is worth.                                   *)

LEMMA FiniteDomains ==
  IsFiniteSet(Places) /\ IsFiniteSet(Indices) /\ IsFiniteSet(1..NAttach)
<1>1. /\ IsFiniteSet(0..4) /\ IsFiniteSet(5..(4 + NInven)) /\ IsFiniteSet(1..NAttach)
      /\ IsFiniteSet((5 + NInven)..(4 + NInven + NBank)) /\ IsFiniteSet(1..MaxMail)
  <2>1. /\ 0 \in Int /\ 1 \in Int /\ 4 \in Int /\ 5 \in Int
        /\ 4 + NInven \in Int /\ 5 + NInven \in Int /\ 4 + NInven + NBank \in Int
        /\ NAttach \in Int /\ MaxMail \in Int
    BY Numbers, PricesAreSound
  <2>2. QED BY <2>1, FS_Interval, Zenon
<1>2. IsFiniteSet(Equip \cup Inven)
  <2>1. IsFiniteSet(Equip)
    BY <1>1, BoosterSpots, FS_Subset
  <2>2. QED BY <1>1, <2>1, FS_Union DEF Inven
<1>3. IsFiniteSet(Places)
  BY <1>1, <1>2, FS_Union DEF Places, Bank
<1>4. QED BY <1>1, <1>3 DEF Indices

LEMMA BagWorth ==
  ASSUME NEW b \in Bags
  PROVE  /\ Worths(b) \in Counts(Places) /\ DOMAIN b = Places
         /\ \A s \in Places : Worths(b)[s] = Worth(b[s]) /\ b[s] \in Things
         /\ WorthOf(b) = Total(Worths(b)) /\ WorthOf(b) \in Nat
<1>1. DOMAIN b = Places /\ \A s \in Places : b[s] \in Things
  BY DEF Bags
<1>2. /\ Worths(b) \in Counts(DOMAIN b) /\ WorthOf(b) = Total(Worths(b))
      /\ WorthOf(b) \in Nat
  BY <1>1, FiniteDomains, WorthOfTotals
<1>3. QED BY <1>1, <1>2 DEF Worths

\* One place of a bag changes.
LEMMA BagChanges ==
  ASSUME NEW b \in Bags, NEW c \in Bags, NEW s \in Places,
         \A u \in Places \ {s} : c[u] = b[u]
  PROVE  /\ WorthOf(b) \in Nat /\ WorthOf(c) \in Nat
         /\ Worth(b[s]) \in Nat /\ Worth(c[s]) \in Nat
         /\ WorthOf(c) + Worth(b[s]) = WorthOf(b) + Worth(c[s])
<1>1. /\ Worths(b) \in Counts(Places) /\ Worths(c) \in Counts(Places)
      /\ \A u \in Places \ {s} : Worths(c)[u] = Worths(b)[u]
  BY BagWorth
<1>2. /\ Total(Worths(b)) \in Nat /\ Total(Worths(c)) \in Nat
      /\ Worths(b)[s] \in Nat /\ Worths(c)[s] \in Nat
      /\ Total(Worths(c)) + Worths(b)[s] = Total(Worths(b)) + Worths(c)[s]
  BY <1>1, FiniteDomains, TotalChanges
<1>3. QED BY <1>2, BagWorth

\* Two places change.
LEMMA BagChangesTwice ==
  ASSUME NEW b \in Bags, NEW s \in Places, NEW x \in Things, NEW t \in Places,
         NEW y \in Things, s # t
  PROVE  /\ With(b, s, x, t, y) \in Bags /\ WorthOf(With(b, s, x, t, y)) \in Nat
         /\ WorthOf(b) \in Nat /\ Worth(b[s]) \in Nat /\ Worth(b[t]) \in Nat
         /\ Worth(x) \in Nat /\ Worth(y) \in Nat
         /\ WorthOf(With(b, s, x, t, y)) + Worth(b[s]) + Worth(b[t])
              = WorthOf(b) + Worth(x) + Worth(y)
<1> DEFINE c == [b EXCEPT ![s] = x]
           d == With(b, s, x, t, y)
<1>1. c \in Bags /\ c[s] = x /\ \A u \in Places : u # s => c[u] = b[u]
  BY BagWith
<1>2. d = [c EXCEPT ![t] = y]
  BY DEF With
<1> HIDE DEF c, d
<1>3. d \in Bags /\ d[t] = y /\ \A u \in Places : u # t => d[u] = c[u]
  <2>1. DOMAIN c = Places
    BY <1>1 DEF Bags
  <2>2. \A u \in Places : d[u] = IF u = t THEN y ELSE c[u]
    BY <1>2, <2>1
  <2>3. DOMAIN d = Places /\ d = [u \in Places |-> IF u = t THEN y ELSE c[u]]
    BY <1>2, <2>1
  <2>4. d \in Bags
    BY <1>1, <2>3 DEF Bags
  <2>5. QED BY <2>2, <2>4
<1>4. /\ WorthOf(b) \in Nat /\ WorthOf(c) \in Nat /\ Worth(b[s]) \in Nat /\ Worth(x) \in Nat
      /\ WorthOf(c) + Worth(b[s]) = WorthOf(b) + Worth(x)
  BY <1>1, BagChanges
<1>5. /\ WorthOf(d) \in Nat /\ Worth(b[t]) \in Nat /\ Worth(y) \in Nat
      /\ WorthOf(d) + Worth(b[t]) = WorthOf(c) + Worth(y)
  BY <1>1, <1>3, BagChanges
<1>6. QED BY <1>3, <1>4, <1>5 DEF d

LEMMA Distributes ==
  ASSUME NEW a \in Nat, NEW m \in Nat, NEW n \in Nat, n <= m
  PROVE  /\ a * m \in Nat /\ a * n \in Nat /\ a * n <= a * m
         /\ m - n \in Nat /\ a * (m - n) \in Nat /\ a * (m - n) + a * n = a * m
OBVIOUS

LEMMA SplitsOtherwise ==
  ASSUME NEW a \in Nat, NEW m \in Nat, NEW i \in Nat, NEW j \in Nat, NEW s,
         s = i + j, m <= s
  PROVE  a * m + a * (s - m) = a * i + a * j
<1>1. a * (s - m) + a * m = a * s /\ a * (s - m) \in Nat /\ a * m \in Nat
  BY Distributes
<1>2. a * (i + j) = a * i + a * j
  OBVIOUS
<1>3. QED BY <1>1, <1>2

LEMMA WorthFacts ==
  /\ Worth(Nothing) = 0
  /\ \A x \in Goods : Worth(x) = SellPrice[x.kind] * x.n /\ SellPrice[x.kind] <= Worth(x)
  /\ \A k \in Kinds : Worth(One(k)) = SellPrice[k]
<1>1. Worth(Nothing) = 0
  BY DEF Worth
<1>2. ASSUME NEW x \in Goods
      PROVE  Worth(x) = SellPrice[x.kind] * x.n /\ SellPrice[x.kind] <= Worth(x)
  <2>1. x # Nothing /\ x.n \in Nat /\ x.n >= 1 /\ SellPrice[x.kind] \in Nat
    BY GoodsAre, Numbers
  <2>2. Worth(x) = SellPrice[x.kind] * x.n
    BY <2>1 DEF Worth
  <2> DEFINE a == SellPrice[x.kind]
             n == x.n
  <2>3. a \in Nat /\ n \in Nat /\ 1 <= n
    BY <2>1
  <2> HIDE DEF a, n
  <2>4. a * 1 <= a * n /\ a * 1 = a
    BY <2>3, Distributes
  <2>5. QED BY <2>2, <2>4 DEF a, n
<1>3. ASSUME NEW k \in Kinds PROVE Worth(One(k)) = SellPrice[k]
  <2>1. One(k) # Nothing /\ SellPrice[k] \in Nat
    BY OneIsGood, Numbers
  <2>2. QED BY <2>1 DEF Worth, One
<1>4. QED BY <1>1, <1>2, <1>3

\* What is taken of a stack is worth what is missing.
LEMMA TakeWorth ==
  ASSUME NEW x \in Goods, NEW n \in Nat, n <= x.n
  PROVE  /\ Worth(Take(x, n)) \in Nat /\ SellPrice[x.kind] * n \in Nat
         /\ Worth(Take(x, n)) + SellPrice[x.kind] * n = Worth(x)
<1> DEFINE a == SellPrice[x.kind]
           m == x.n
<1>1. /\ a \in Nat /\ m \in Nat /\ m >= 1 /\ x.kind \in Kinds /\ x \in Item
      /\ Worth(x) = a * m /\ x \in Things
  BY GoodsAre, Numbers, WorthFacts DEF Goods
<1>2. Worth(Take(x, n)) = a * (m - n)
  <2>1. CASE m <= n
    <3>1. Take(x, n) = Nothing /\ m - n = 0
      BY <1>1, <2>1 DEF Take
    <3>2. QED BY <1>1, <3>1, WorthFacts
  <2>2. CASE ~ (m <= n)
    <3>1. /\ Take(x, n) = [x EXCEPT !.n = m - n] /\ m - n \in Nat /\ m - n >= 1
      BY <1>1, <2>2 DEF Take
    <3>2. /\ Take(x, n).kind = x.kind /\ Take(x, n).n = m - n /\ Take(x, n) # Nothing
      BY <1>1, <3>1 DEF Item, Nothing
    <3>3. QED BY <3>2 DEF Worth
  <2>3. QED BY <2>1, <2>2
<1> HIDE DEF a, m
<1>3. a * (m - n) \in Nat /\ a * n \in Nat /\ a * (m - n) + a * n = a * m
  BY <1>1, Distributes DEF m
<1>4. QED BY <1>1, <1>2, <1>3 DEF a

-----------------------------------------------------------------------------
(* The ledger: its steps.                                                  *)

Live == [p \in Players |-> Wealth(bag[p], taros[p])]
Safe == [p \in Players |-> Wealth(saved[p].bag, saved[p].taros)]
Post == [p \in Players |-> MailValue(mail[p])]
Books == <<Live, Safe, Post, earned>>

LEMMA WealthIsNatural ==
  ASSUME NEW b \in Bags, NEW n \in Purse
  PROVE  /\ Wealth(b, n) \in Nat /\ Wealth(b, n) = n + WorthOf(b)
         /\ n \in Nat /\ WorthOf(b) \in Nat
BY BagWorth, Numbers DEF Wealth, Purse

LEMMA LedgerSteps ==
  /\ UNCHANGED <<Safe, Post, earned>> /\ (\A p \in Players : Live'[p] <= Live[p]) => L!Next
  /\ \A p \in Players :
       UNCHANGED <<Safe, Post>> /\ Live' = [Live EXCEPT ![p] = Live'[p]]
         /\ earned' - earned >= 0 /\ earned' = earned + (earned' - earned)
         /\ Live'[p] <= Live[p] + (earned' - earned)
         => L!Next
  /\ \A p \in Players :
       UNCHANGED <<Safe, earned>> /\ Live' = [Live EXCEPT ![p] = Live'[p]]
         /\ Post' = [Post EXCEPT ![p] = Post'[p]]
         /\ Post'[p] <= Post[p] /\ Post'[p] + Live'[p] <= Post[p] + Live[p]
         => L!Next
<1>1. UNCHANGED <<Safe, Post, earned>> /\ (\A p \in Players : Live'[p] <= Live[p]) => L!Next
  BY DEF L!Next, L!Lose, Live, Safe, Post
<1>2. ASSUME NEW p \in Players,
             UNCHANGED <<Safe, Post>>, Live' = [Live EXCEPT ![p] = Live'[p]],
             earned' - earned >= 0, earned' = earned + (earned' - earned),
             Live'[p] <= Live[p] + (earned' - earned)
      PROVE  L!Next
  <2>1. L!Earn(p, earned' - earned, Live'[p])
    BY <1>2 DEF L!Earn, Live, Safe, Post
  <2>2. QED BY <2>1 DEF L!Next, Live
<1>3. ASSUME NEW p \in Players,
             UNCHANGED <<Safe, earned>>, Live' = [Live EXCEPT ![p] = Live'[p]],
             Post' = [Post EXCEPT ![p] = Post'[p]],
             Post'[p] <= Post[p], Post'[p] + Live'[p] <= Post[p] + Live[p]
      PROVE  L!Next
  <2>1. L!Collect(p, Live'[p], Post'[p])
    BY <1>3 DEF L!Collect, Live, Safe, Post
  <2>2. QED BY <2>1 DEF L!Next, Live, Post
<1>4. QED BY <1>1, <1>2, <1>3

\* Of the players only p has something else.
OthersRest(p) == \A q \in Players \ {p} : bag'[q] = bag[q] /\ taros'[q] = taros[q]

LEMMA OnesStep ==
  ASSUME IInv, NEW p \in Players, NEW b, NEW t,
         bag' = [bag EXCEPT ![p] = b], taros' = [taros EXCEPT ![p] = t]
  PROVE  OthersRest(p) /\ bag'[p] = b /\ taros'[p] = t
BY DEF IInv, Shaped, OthersRest

LEMMA LiveIs ==
  ASSUME IInv, NEW p \in Players
  PROVE  /\ Live[p] = taros[p] + WorthOf(bag[p]) /\ Live[p] \in Nat
         /\ taros[p] \in Nat /\ WorthOf(bag[p]) \in Nat /\ bag[p] \in Bags
BY Of, WealthIsNatural DEF Live

LEMMA LiveWillBe ==
  ASSUME IInv', NEW p \in Players
  PROVE  /\ Live'[p] = taros'[p] + WorthOf(bag'[p]) /\ Live'[p] \in Nat
         /\ taros'[p] \in Nat /\ WorthOf(bag'[p]) \in Nat /\ bag'[p] \in Bags
<1>1. bag'[p] \in Bags /\ taros'[p] \in Purse
  BY DEF IInv, Shaped
<1>2. QED BY <1>1, WealthIsNatural DEF Live

LEMMA LiveChanges ==
  ASSUME NEW p \in Players, OthersRest(p)
  PROVE  Live' = [Live EXCEPT ![p] = Live'[p]]
BY DEF Live, OthersRest

LEMMA PlayerLoses ==
  ASSUME IInv, IInv', NEW p \in Players, OthersRest(p), UNCHANGED <<saved, mail, earned>>,
         taros'[p] + WorthOf(bag'[p]) <= taros[p] + WorthOf(bag[p])
  PROVE  L!Next
<1>1. Live'[p] <= Live[p]
  BY LiveIs, LiveWillBe
<1>2. \A q \in Players \ {p} : Live'[q] = Live[q] /\ Live[q] \in Nat
  BY LiveIs DEF OthersRest, Live
<1>3. UNCHANGED <<Safe, Post, earned>>
  BY DEF Safe, Post
<1>4. \A q \in Players : Live'[q] <= Live[q]
  BY <1>1, <1>2
<1>5. QED BY <1>3, <1>4, LedgerSteps

LEMMA PlayerEarns ==
  ASSUME IInv, IInv', NEW p \in Players, OthersRest(p), UNCHANGED <<saved, mail>>,
         NEW n \in Nat, Paid(n),
         taros'[p] + WorthOf(bag'[p]) <= taros[p] + WorthOf(bag[p]) + n
  PROVE  L!Next
<1>1. earned \in Nat /\ earned' = earned + n
  BY Numbers DEF Paid, IInv, Shaped
<1>2. earned' - earned = n
  BY <1>1
<1>3. Live'[p] <= Live[p] + n
  BY LiveIs, LiveWillBe
<1>4. UNCHANGED <<Safe, Post>>
  BY DEF Safe, Post
<1>5. QED BY <1>1, <1>2, <1>3, <1>4, LiveChanges, LedgerSteps

\* What a letter is worth.
LEMMA LetterIsWorth ==
  /\ LetterValue(NoMail) = 0
  /\ \A x \in Letters : /\ LetterValue(x) = x.cash + WorthOf(x.items)
                        /\ x.cash \in Nat /\ WorthOf(x.items) \in Nat
                        /\ DOMAIN x.items = 1..NAttach
                        /\ \A k \in 1..NAttach : x.items[k] \in Things
  /\ \A x \in Letters \cup {NoMail} : LetterValue(x) \in Nat
<1>1. LetterValue(NoMail) = 0
  BY DEF LetterValue
<1>2. ASSUME NEW x \in Letters
      PROVE  /\ LetterValue(x) = x.cash + WorthOf(x.items)
             /\ x.cash \in Nat /\ WorthOf(x.items) \in Nat
             /\ DOMAIN x.items = 1..NAttach
             /\ \A k \in 1..NAttach : x.items[k] \in Things
  <2>1. /\ x.cash \in Nat /\ DOMAIN x.items = 1..NAttach
        /\ \A k \in 1..NAttach : x.items[k] \in Things
    BY Numbers DEF Letters, Purse
  <2>2. WorthOf(x.items) \in Nat
    BY <2>1, FiniteDomains, WorthOfTotals
  <2>3. x.cash # -1
    BY <2>1
  <2>4. x # NoMail
    BY <2>3 DEF NoMail
  <2>5. QED BY <2>1, <2>2, <2>4 DEF LetterValue
<1>3. \A x \in Letters \cup {NoMail} : LetterValue(x) \in Nat
  BY <1>1, <1>2
<1>4. QED BY <1>1, <1>2, <1>3

Boxes == [Indices -> Letters \cup {NoMail}]
Values(box) == [i \in Indices |-> LetterValue(box[i])]

LEMMA BoxesAre ==
  ASSUME NEW box \in Boxes
  PROVE  /\ Values(box) \in Counts(Indices) /\ MailValue(box) = Total(Values(box))
         /\ MailValue(box) \in Nat
<1>1. \A i \in Indices : LetterValue(box[i]) \in Nat
  BY LetterIsWorth DEF Boxes
<1>2. Values(box) \in Counts(Indices)
  BY <1>1 DEF Values, Counts
<1>3. MailValue(box) = Total(Values(box))
  <2>1. \A i \in Indices : {i} \X (1..Values(box)[i]) = {i} \X (1..LetterValue(box[i]))
    BY DEF Values
  <2>2. Each(Values(box)) = UNION {{i} \X (1..LetterValue(box[i])) : i \in Indices}
    BY <2>1 DEF Each, Values
  <2>3. QED BY <2>2 DEF MailValue, Total
<1>4. QED BY <1>2, <1>3, FiniteDomains, TotalIsNatural

\* One letter changes.
LEMMA BoxChanges ==
  ASSUME NEW box \in Boxes, NEW i \in Indices, NEW x \in Letters \cup {NoMail}
  PROVE  /\ [box EXCEPT ![i] = x] \in Boxes
         /\ LetterValue(x) \in Nat /\ LetterValue(box[i]) \in Nat
         /\ MailValue(box) \in Nat /\ MailValue([box EXCEPT ![i] = x]) \in Nat
         /\ MailValue([box EXCEPT ![i] = x]) + LetterValue(box[i])
              = MailValue(box) + LetterValue(x)
         /\ LetterValue(box[i]) <= MailValue(box)
<1> DEFINE new == [box EXCEPT ![i] = x]
<1>1. /\ new \in Boxes /\ new[i] = x /\ \A k \in Indices \ {i} : new[k] = box[k]
  BY DEF Boxes
<1> HIDE DEF new
<1>2. /\ Values(box) \in Counts(Indices) /\ Values(new) \in Counts(Indices)
      /\ \A k \in Indices \ {i} : Values(new)[k] = Values(box)[k]
      /\ Values(box)[i] = LetterValue(box[i]) /\ Values(new)[i] = LetterValue(x)
  BY <1>1, BoxesAre DEF Values
<1>3. /\ Total(Values(box)) \in Nat /\ Total(Values(new)) \in Nat
      /\ Values(box)[i] \in Nat /\ Values(new)[i] \in Nat
      /\ Total(Values(new)) + Values(box)[i] = Total(Values(box)) + Values(new)[i]
      /\ Values(box)[i] <= Total(Values(box))
  BY <1>2, FiniteDomains, TotalChanges
<1>4. QED BY <1>1, <1>2, <1>3, BoxesAre DEF new

LEMMA BoxOf ==
  ASSUME IInv, NEW p \in Players
  PROVE  /\ mail[p] \in Boxes /\ Post[p] = MailValue(mail[p]) /\ Post[p] \in Nat
         /\ \A i \in Indices : mail[p][i] \in Letters \cup {NoMail}
<1>1. mail[p] \in Boxes
  BY DEF IInv, Shaped, Boxes
<1>2. QED BY <1>1, BoxesAre DEF Post, Boxes

\* Who takes no more out of a letter than there is.
LEMMA PlayerCollects ==
  ASSUME IInv, IInv', NEW p \in Players, OthersRest(p), UNCHANGED <<saved, earned>>,
         NEW i \in Indices, NEW x \in Letters, mail' = [mail EXCEPT ![p][i] = x],
         LetterValue(x) <= LetterValue(mail[p][i]),
         LetterValue(x) + taros'[p] + WorthOf(bag'[p])
           <= LetterValue(mail[p][i]) + taros[p] + WorthOf(bag[p])
  PROVE  L!Next
<1> DEFINE new == [mail[p] EXCEPT ![i] = x]
<1>1. mail[p] \in Boxes /\ Post[p] = MailValue(mail[p])
  BY BoxOf
<1>2. /\ mail' = [mail EXCEPT ![p] = new] /\ mail'[p] = new
      /\ \A q \in Players \ {p} : mail'[q] = mail[q]
  BY DEF IInv, Shaped
<1>3. /\ LetterValue(x) \in Nat /\ LetterValue(mail[p][i]) \in Nat
      /\ MailValue(mail[p]) \in Nat /\ MailValue(new) \in Nat
      /\ MailValue(new) + LetterValue(mail[p][i]) = MailValue(mail[p]) + LetterValue(x)
  BY <1>1, BoxChanges
<1> HIDE DEF new
<1>4. Post'[p] = MailValue(new) /\ Post' = [Post EXCEPT ![p] = Post'[p]]
  BY <1>2 DEF Post
<1>5. Post'[p] <= Post[p]
  BY <1>1, <1>3, <1>4
<1>6. Post'[p] + Live'[p] <= Post[p] + Live[p]
  <2>1. Live[p] = taros[p] + WorthOf(bag[p]) /\ taros[p] \in Nat /\ WorthOf(bag[p]) \in Nat
    BY LiveIs
  <2>2. /\ Live'[p] = taros'[p] + WorthOf(bag'[p])
        /\ taros'[p] \in Nat /\ WorthOf(bag'[p]) \in Nat
    BY LiveWillBe
  <2>3. QED BY <1>1, <1>3, <1>4, <2>1, <2>2
<1>7. UNCHANGED <<Safe, earned>>
  BY DEF Safe
<1>8. QED BY <1>4, <1>5, <1>6, <1>7, LiveChanges, LedgerSteps

-----------------------------------------------------------------------------
(* The ledger: Items.cpp.                                                  *)

LEMMA BagUnchanged ==
  ASSUME IInv, NEW p \in Players, NEW t, UNCHANGED bag, taros' = [taros EXCEPT ![p] = t]
  PROVE  OthersRest(p) /\ bag'[p] = bag[p] /\ taros'[p] = t
<1>1. bag' = [bag EXCEPT ![p] = bag[p]]
  BY Of
<1>2. QED BY <1>1, OnesStep

LEMMA TarosUnchanged ==
  ASSUME IInv, NEW p \in Players, NEW b, UNCHANGED taros, bag' = [bag EXCEPT ![p] = b]
  PROVE  OthersRest(p) /\ bag'[p] = b /\ taros'[p] = taros[p]
<1>1. taros' = [taros EXCEPT ![p] = taros[p]]
  BY Of
<1>2. QED BY <1>1, OnesStep

\* Two stacks that become one, and what does not fit, are worth no more.
LEMMA MergedWorth ==
  ASSUME NEW b \in Bags, NEW from \in Places, NEW to \in Places, MayMerge(b, from, to)
  PROVE  WorthOf(Merge(b, from, to)) <= WorthOf(b)
<1>1. b[from] \in Things /\ b[to] \in Things /\ WorthOf(b) \in Nat
  BY BagWorth
<1>2. /\ b[from] \in Goods /\ b[to] \in Goods
      /\ SellPrice[b[from].kind] = SellPrice[b[to].kind]
  BY <1>1, BothAreGoods
<1> DEFINE sum == b[from].n + b[to].n
           most == StackSize[b[to].kind]
           a == SellPrice[b[to].kind]
<1>3. /\ most \in Nat /\ b[from].n \in Nat /\ b[to].n \in Nat /\ a \in Nat
      /\ b[from].n >= 1 /\ b[to].n >= 1 /\ b[from].n < most /\ b[to].n < most
      /\ Stacks(b[to].kind) /\ b[to].kind \in Kinds
  BY <1>2, GoodsAre, Numbers DEF MayMerge
<1>4. Nothing \in Things /\ Worth(Nothing) = 0
  BY NothingIsNoGood, WorthFacts
<1>5. /\ Worth(b[from]) = a * b[from].n /\ Worth(b[to]) = a * b[to].n
      /\ Worth(b[from]) \in Nat /\ Worth(b[to]) \in Nat
  BY <1>1, <1>2, WorthFacts, WorthIsNatural
<1>6. ASSUME NEW x \in Goods, x.kind \in {b[from].kind, b[to].kind} PROVE x \in Things /\ Worth(x) = a * x.n
  BY <1>2, <1>6, WorthFacts, GoodsAre
<1>7. CASE from = to
  <2> DEFINE c == [b EXCEPT ![from] = Nothing]
  <2>1. Merge(b, from, to) = c
    BY <1>7 DEF Merge
  <2>2. c \in Bags /\ c[from] = Nothing /\ \A u \in Places \ {from} : c[u] = b[u]
    BY <1>4, BagWith
  <2> HIDE DEF c, a
  <2>3. WorthOf(c) \in Nat /\ WorthOf(c) + Worth(b[from]) = WorthOf(b) + Worth(c[from])
    BY <2>2, BagChanges
  <2>4. QED BY <1>1, <1>4, <1>5, <2>1, <2>2, <2>3
<1>8. CASE from # to /\ sum > most
  <2> DEFINE x == [kind |-> b[to].kind, n |-> most]
             y == [kind |-> b[from].kind, n |-> sum - most]
  <2>1. sum - most \in Nat /\ sum - most >= 1 /\ sum - most <= b[from].n /\ most >= 1
    BY <1>3, <1>8
  <2>2. x \in Goods
    BY <1>3, <2>1, GoodsMade
  <2>3. y \in Goods
    BY <1>2, <2>1, FewerAreGood
  <2>4. Merge(b, from, to) = With(b, to, x, from, y)
    <3>1. b[from] \in Item /\ b[to] \in Item
      BY <1>2 DEF Goods
    <3>2. [b[to] EXCEPT !.n = most] = x /\ [b[from] EXCEPT !.n = sum - most] = y
      BY <1>2, <3>1 DEF Item
    <3>3. Merge(b, from, to) = With(b, to, [b[to] EXCEPT !.n = most],
                                    from, [b[from] EXCEPT !.n = sum - most])
      BY <1>8 DEF Merge, Bags, With
    <3>4. QED BY <3>2, <3>3
  <2>5. x \in Things /\ y \in Things /\ Worth(x) = a * most /\ Worth(y) = a * (sum - most)
    BY <1>6, <2>2, <2>3
  <2>6. /\ WorthOf(With(b, to, x, from, y)) \in Nat
        /\ WorthOf(With(b, to, x, from, y)) + Worth(b[to]) + Worth(b[from])
             = WorthOf(b) + Worth(x) + Worth(y)
        /\ Worth(x) \in Nat /\ Worth(y) \in Nat
    BY <1>8, <2>5, BagChangesTwice
  <2>7. Worth(x) + Worth(y) = Worth(b[from]) + Worth(b[to])
    <3> DEFINE i == b[from].n
               j == b[to].n
    <3>1. i \in Nat /\ j \in Nat /\ a \in Nat /\ most \in Nat
      BY <1>3
    <3>2. /\ sum = i + j /\ most <= sum
          /\ Worth(b[from]) = a * i /\ Worth(b[to]) = a * j
      BY <1>3, <1>5, <1>8
    <3>3. Worth(x) = a * most /\ Worth(y) = a * (sum - most)
      BY <2>5
    <3> HIDE DEF i, j, a, most, sum, x, y
    <3>4. a * most + a * (sum - most) = a * i + a * j
      BY <3>1, <3>2, SplitsOtherwise
    <3>5. QED BY <3>2, <3>3, <3>4
  <2> HIDE DEF x, y, a, most, sum
  <2>8. QED BY <1>1, <1>5, <2>4, <2>6, <2>7
<1>9. CASE from # to /\ ~ (sum > most)
  <2> DEFINE x == [kind |-> b[to].kind, n |-> sum]
  <2>1. sum \in Nat /\ sum >= 1 /\ sum <= most
    BY <1>3, <1>9
  <2>2. x \in Goods
    BY <1>3, <2>1, GoodsMade
  <2>3. Merge(b, from, to) = With(b, to, x, from, Nothing)
    <3>1. b[to] \in Item
      BY <1>2 DEF Goods
    <3>2. [b[to] EXCEPT !.n = sum] = x
      BY <3>1 DEF Item
    <3>3. Merge(b, from, to) = With(b, to, [b[to] EXCEPT !.n = sum], from, Nothing)
      BY <1>9 DEF Merge, Bags, With
    <3>4. QED BY <3>2, <3>3
  <2>4. x \in Things /\ Worth(x) = a * sum
    BY <1>6, <2>2
  <2>5. /\ WorthOf(With(b, to, x, from, Nothing)) \in Nat
        /\ WorthOf(With(b, to, x, from, Nothing)) + Worth(b[to]) + Worth(b[from])
             = WorthOf(b) + Worth(x) + Worth(Nothing)
        /\ Worth(x) \in Nat
    BY <1>4, <1>9, <2>4, BagChangesTwice
  <2>6. Worth(x) = Worth(b[from]) + Worth(b[to])
    <3> DEFINE i == b[from].n
               j == b[to].n
    <3>1. i \in Nat /\ j \in Nat /\ a \in Nat
      BY <1>3
    <3> HIDE DEF i, j, a
    <3>2. a * (i + j) = a * i + a * j
      BY <3>1
    <3>3. QED BY <1>5, <2>4, <3>2 DEF i, j
  <2> HIDE DEF x, a, most, sum
  <2>7. QED BY <1>1, <1>4, <1>5, <2>3, <2>5, <2>6
<1>10. QED BY <1>7, <1>8, <1>9

LEMMA ItemMoveBooks ==
  ASSUME IInv, IInv', NEW p \in Players, NEW from \in Places, NEW to \in Places,
         ItemMove(p, from, to)
  PROVE  L!Next
<1> DEFINE b == bag[p]
           moved == IF MayMerge(b, from, to) THEN Merge(b, from, to)
                    ELSE With(b, from, b[to], to, b[from])
<1>1. /\ bag' = [bag EXCEPT ![p] = moved] /\ UNCHANGED <<taros, saved, mail, earned>>
  BY DEF ItemMove, MayMerge, With
<1>2. OthersRest(p) /\ bag'[p] = moved /\ taros'[p] = taros[p]
  <2> HIDE DEF moved
  <2>1. QED BY <1>1, TarosUnchanged
<1>3. b \in Bags /\ taros[p] \in Nat /\ WorthOf(b) \in Nat
  BY LiveIs
<1>4. WorthOf(moved) <= WorthOf(b)
  <2>1. CASE MayMerge(b, from, to)
    <3>1. moved = Merge(b, from, to)
      BY <2>1
    <3> HIDE DEF moved, b
    <3>2. QED BY <1>3, <2>1, <3>1, MergedWorth
  <2>2. CASE ~ MayMerge(b, from, to) /\ from # to
    <3>1. moved = With(b, from, b[to], to, b[from])
      BY <2>2
    <3>2. b[from] \in Things /\ b[to] \in Things
      BY <1>3, BagWorth
    <3> HIDE DEF moved, b
    <3>3. /\ WorthOf(moved) \in Nat /\ Worth(b[from]) \in Nat /\ Worth(b[to]) \in Nat
          /\ WorthOf(moved) + Worth(b[from]) + Worth(b[to])
               = WorthOf(b) + Worth(b[to]) + Worth(b[from])
      BY <1>3, <2>2, <3>1, <3>2, BagChangesTwice
    <3>4. QED BY <1>3, <3>3
  <2>3. CASE ~ MayMerge(b, from, to) /\ from = to
    <3>1. moved = With(b, from, b[from], from, b[from])
      BY <2>3
    <3>2. moved = b
      BY <1>3, <3>1 DEF With, Bags
    <3>3. QED BY <1>3, <3>2
  <2>4. QED BY <2>1, <2>2, <2>3
<1>5. WorthOf(bag'[p]) \in Nat
  BY LiveWillBe
<1> HIDE DEF moved, b
<1>6. taros'[p] + WorthOf(bag'[p]) <= taros[p] + WorthOf(bag[p])
  BY <1>2, <1>3, <1>4, <1>5 DEF b
<1>7. QED BY <1>1, <1>2, <1>6, PlayerLoses

LEMMA ItemDeleteBooks ==
  ASSUME IInv, IInv', NEW p \in Players, NEW s \in Inven, ItemDelete(p, s)
  PROVE  L!Next
<1> DEFINE b == [bag[p] EXCEPT ![s] = Nothing]
<1>1. bag' = [bag EXCEPT ![p] = b] /\ UNCHANGED <<taros, saved, mail, earned>>
  BY DEF ItemDelete
<1>2. /\ b \in Bags /\ b[s] = Nothing /\ s \in Places
      /\ \A u \in Places \ {s} : b[u] = bag[p][u]
  BY Of, Spots, NothingIsNoGood, BagWith
<1> HIDE DEF b
<1>3. OthersRest(p) /\ bag'[p] = b /\ taros'[p] = taros[p]
  BY <1>1, TarosUnchanged
<1>4. /\ WorthOf(bag[p]) \in Nat /\ WorthOf(b) \in Nat /\ Worth(bag[p][s]) \in Nat
      /\ WorthOf(b) + Worth(bag[p][s]) = WorthOf(bag[p]) + 0
  BY <1>2, LiveIs, BagChanges, WorthFacts
<1>5. taros'[p] + WorthOf(bag'[p]) <= taros[p] + WorthOf(bag[p])
  BY <1>3, <1>4, LiveIs
<1>6. QED BY <1>1, <1>3, <1>5, PlayerLoses

\* A booster that is put on adds at most its price.
LEMMA OnWorth ==
  ASSUME NEW K \in SUBSET Boosters, NEW b \in Bags, NEW x
  PROVE  /\ WorthOf(b) \in Nat /\ WorthOf(On(b, x, K)) \in Nat
         /\ WorthOf(On(b, x, K)) <= WorthOf(b) + PriceIn(K, x)
<1>1. CASE x \notin K
  <2>1. On(b, x, K) = b /\ PriceIn(K, x) = 0
    BY <1>1 DEF On, PriceIn
  <2>2. QED BY <2>1, BagWorth
<1>2. CASE x \in K
  <2> DEFINE c == On(b, x, K)
  <2>1. /\ c \in Bags /\ Slot[x] \in Places /\ c[Slot[x]] = One(Started[x])
        /\ \A u \in Places \ {Slot[x]} : c[u] = b[u]
    BY <1>2, OnIsBag
  <2> HIDE DEF c
  <2>2. /\ WorthOf(b) \in Nat /\ WorthOf(c) \in Nat /\ Worth(b[Slot[x]]) \in Nat
        /\ WorthOf(c) + Worth(b[Slot[x]]) = WorthOf(b) + Worth(One(Started[x]))
    BY <2>1, BagChanges
  <2>3. Worth(One(Started[x])) = PriceIn(K, x) /\ PriceIn(K, x) \in Nat
    <3>1. x \in DOMAIN Started /\ SellPrice[x] \in Nat
      BY <1>2, StartsFacts
    <3>2. Worth(One(Started[x])) = SellPrice[Started[x]]
      BY <3>1, BoosterKinds, WorthFacts
    <3>3. QED BY <1>2, <3>1, <3>2, OnlyItemsArePriced DEF PriceIn
  <2>4. WorthOf(c) <= WorthOf(b) + PriceIn(K, x)
    BY <2>2, <2>3
  <2>5. QED BY <2>2, <2>4 DEF c
<1>3. QED BY <1>1, <1>2

LEMMA AllOnWorth ==
  ASSUME NEW K \in SUBSET Boosters, NEW b \in Bags
  PROVE  WorthOf(AllOn(b, K)) \in Nat /\ WorthOf(AllOn(b, K)) <= WorthOf(b) + Price(K)
<1> DEFINE h == On(b, "hunter", K)
           r == On(h, "racer", K)
           q == On(r, "quester", K)
<1>1. /\ h \in Bags /\ WorthOf(b) \in Nat /\ WorthOf(h) \in Nat
      /\ WorthOf(h) <= WorthOf(b) + PriceIn(K, "hunter")
  BY OnIsBag, OnWorth
<1> HIDE DEF h
<1>2. r \in Bags /\ WorthOf(r) \in Nat /\ WorthOf(r) <= WorthOf(h) + PriceIn(K, "racer")
  BY <1>1, OnIsBag, OnWorth
<1> HIDE DEF r
<1>3. WorthOf(q) \in Nat /\ WorthOf(q) <= WorthOf(r) + PriceIn(K, "quester")
  BY <1>2, OnWorth
<1>4. AllOn(b, K) = q
  BY DEF AllOn, r, h
<1> HIDE DEF q
<1>5. QED BY <1>1, <1>2, <1>3, <1>4, PriceIsSum

LEMMA ItemUseBooks ==
  ASSUME IInv, IInv', NEW p \in Players, NEW s \in Inven, ItemUse(p, s)
  PROVE  L!Next
<1> DEFINE x == bag[p][s]
           K == Starts(x.kind)
           used == [bag[p] EXCEPT ![s] = Take(x, 1)]
           b == AllOn(used, K)
           n == Gain(SellPrice[x.kind], Price(K))
<1>1. /\ bag' = [bag EXCEPT ![p] = b] /\ Paid(n) /\ UNCHANGED <<taros, saved, mail>>
      /\ x.kind = "gumball" \/ K # {}
  BY DEF ItemUse, AllOn, On
<1>2. x \in Goods /\ x.n >= 1 /\ 1 <= x.n /\ x.kind \in Kinds
  <2>1. x \in Things /\ x.kind # "none"
    BY <1>1, Of, Spots, StartsFacts
  <2>2. x \in Goods
    BY <2>1, GoodsByKind
  <2>3. QED BY <2>2, GoodsAre
<1>3. Take(x, 1) \in Things
  BY <1>2, TakeLeavesThings, GoodsAre
<1>4. /\ used \in Bags /\ used[s] = Take(x, 1)
      /\ \A u \in Places \ {s} : used[u] = bag[p][u]
  BY <1>3, Of, Spots, BagWith
<1>5. /\ WorthOf(bag[p]) \in Nat /\ WorthOf(used) \in Nat /\ Worth(x) \in Nat
      /\ Worth(Take(x, 1)) \in Nat
      /\ WorthOf(used) + Worth(x) = WorthOf(bag[p]) + Worth(Take(x, 1))
  <2> HIDE DEF used
  <2>1. QED BY <1>4, LiveIs, Spots, BagChanges
<1>6. SellPrice[x.kind] \in Nat /\ Worth(Take(x, 1)) + SellPrice[x.kind] = Worth(x)
  <2>1. SellPrice[x.kind] \in Nat /\ SellPrice[x.kind] * 1 = SellPrice[x.kind]
    BY <1>2, Numbers
  <2> HIDE DEF x
  <2>2. QED BY <1>2, <2>1, TakeWorth
<1> HIDE DEF used, x
<1>7. K \in SUBSET Boosters /\ Price(K) \in Nat
  BY StartsFacts, PriceIsSum
<1> HIDE DEF K
<1>8. WorthOf(b) \in Nat /\ WorthOf(b) <= WorthOf(used) + Price(K)
  BY <1>4, <1>7, AllOnWorth
<1>9. n \in Nat /\ Price(K) <= SellPrice[x.kind] + n
  BY <1>6, <1>7 DEF Gain
<1> HIDE DEF b, n
<1>10. WorthOf(b) <= WorthOf(bag[p]) + n
  BY <1>5, <1>6, <1>7, <1>8, <1>9
<1>11. OthersRest(p) /\ bag'[p] = b /\ taros'[p] = taros[p]
  BY <1>1, TarosUnchanged
<1>12. taros'[p] + WorthOf(bag'[p]) <= taros[p] + WorthOf(bag[p]) + n
  BY <1>5, <1>8, <1>9, <1>10, <1>11, LiveIs
<1>13. QED BY <1>1, <1>9, <1>11, <1>12, PlayerEarns

LEMMA BagAt ==
  ASSUME IInv, NEW p \in Players, NEW s \in Places, NEW x \in Things, NEW b,
         b = [bag[p] EXCEPT ![s] = x]
  PROVE  /\ b \in Bags /\ WorthOf(b) \in Nat
         /\ WorthOf(bag[p]) \in Nat /\ Worth(bag[p][s]) \in Nat /\ Worth(x) \in Nat
         /\ WorthOf(b) + Worth(bag[p][s]) = WorthOf(bag[p]) + Worth(x)
<1>1. DOMAIN bag[p] = Places /\ bag[p] \in Bags
  BY Of DEF Bags
<1>2. b = [u \in Places |-> IF u = s THEN x ELSE bag[p][u]]
  BY <1>1
<1>3. b \in Bags /\ b[s] = x /\ \A u \in Places \ {s} : b[u] = bag[p][u]
  BY <1>1, <1>2 DEF Bags
<1>4. QED BY <1>1, <1>3, BagChanges

LEMMA ChestOpenBooks ==
  ASSUME IInv, IInv', NEW p \in Players, NEW s \in Inven, ChestOpen(p, s)
  PROVE  L!Next
<1>1. PICK r \in RarityDraws : \E k \in
        IF CrateItems(r, Gender[p]) = {} THEN {"gumball"} ELSE CrateItems(r, Gender[p]) :
          /\ Paid(Gain(SellPrice["crate"], SellPrice[k]))
          /\ bag' = [bag EXCEPT ![p][s] = One(k)]
  BY DEF ChestOpen
<1>2. CrateItems(r, Gender[p]) \subseteq Kinds /\ "gumball" \in Kinds /\ "crate" \in Kinds
  <2>1. \A x \in Loot : x.kind \in Kinds
    BY PricesAreSound
  <2>2. "gumball" \in Kinds /\ "crate" \in Kinds
    BY DEF Kinds
  <2>3. QED BY <2>1, <2>2 DEF CrateItems
<1>3. PICK k \in Kinds :
        /\ Paid(Gain(SellPrice["crate"], SellPrice[k]))
        /\ bag' = [bag EXCEPT ![p][s] = One(k)]
  BY <1>1, <1>2
<1> DEFINE b == [bag[p] EXCEPT ![s] = One(k)]
           n == Gain(SellPrice["crate"], SellPrice[k])
           x == bag[p][s]
<1>4. n \in Nat /\ SellPrice[k] <= SellPrice["crate"] + n /\ SellPrice["crate"] \in Nat
  BY <1>2, Numbers DEF Gain
<1>5. /\ bag' = [bag EXCEPT ![p] = b] /\ Paid(n)
      /\ UNCHANGED <<taros, saved, mail>> /\ x.kind = "crate"
  BY <1>3 DEF ChestOpen
<1>6. x \in Goods
  <2>1. x \in Things /\ x.kind # "none"
    BY <1>5, Of, Spots
  <2>2. QED BY <2>1, GoodsByKind
<1>7. SellPrice["crate"] <= Worth(x)
  BY <1>5, <1>6, WorthFacts
<1> HIDE DEF b, n
<1>8. OthersRest(p) /\ bag'[p] = b /\ taros'[p] = taros[p]
  BY <1>5, TarosUnchanged
<1>9. /\ WorthOf(b) \in Nat /\ WorthOf(bag[p]) \in Nat /\ Worth(x) \in Nat
      /\ WorthOf(b) + Worth(x) = WorthOf(bag[p]) + Worth(One(k))
  BY OneIsGood, Spots, BagAt DEF b
<1>10. Worth(One(k)) = SellPrice[k] /\ SellPrice[k] \in Nat
  BY WorthFacts, Numbers
<1> HIDE DEF x
<1>11. WorthOf(b) <= WorthOf(bag[p]) + n
  BY <1>4, <1>7, <1>9, <1>10
<1>12. taros'[p] + WorthOf(bag'[p]) <= taros[p] + WorthOf(bag[p]) + n
  BY <1>4, <1>8, <1>9, <1>11, LiveIs
<1>13. QED BY <1>4, <1>5, <1>8, <1>12, PlayerEarns

LEMMA CappedLoses ==
  ASSUME NEW have \in Nat, NEW n \in Nat
  PROVE  /\ AddCapped(have, n) \in Nat /\ AddCapped(have, n) <= have + n
         /\ SubtractCapped(have, n) \in Nat /\ SubtractCapped(have, n) <= have
         /\ n <= have => SubtractCapped(have, n) = have - n
BY Numbers DEF AddCapped, SubtractCapped

LEMMA GiveDropBooks ==
  ASSUME IInv, IInv', NEW p \in Players, NEW n \in 0..MaxEarned[stock], GiveDrop(p, n)
  PROVE  L!Next
<1>1. n \in Nat
  BY Numbers DEF IInv, Shaped
<1> DEFINE t == AddCapped(taros[p], n)
           s == FreeSlot(bag[p])
<1>2. t \in Nat /\ t <= taros[p] + n
  BY <1>1, LiveIs, CappedLoses
<1>3. taros' = [taros EXCEPT ![p] = t] /\ UNCHANGED <<saved, mail>>
  BY DEF GiveDrop
<1>4. CASE Paid(n) /\ UNCHANGED bag
  <2> HIDE DEF t, s
  <2>1. OthersRest(p) /\ bag'[p] = bag[p] /\ taros'[p] = t
    BY <1>3, <1>4, BagUnchanged
  <2>2. taros'[p] + WorthOf(bag'[p]) <= taros[p] + WorthOf(bag[p]) + n
    BY <1>1, <1>2, <2>1, LiveIs
  <2>3. QED BY <1>1, <1>3, <1>4, <2>1, <2>2, PlayerEarns
<1>5. CASE /\ s # -1 /\ Paid(n + SellPrice["crate"])
           /\ bag' = [bag EXCEPT ![p][s] = One("crate")]
  <2> DEFINE b == [bag[p] EXCEPT ![s] = One("crate")]
             m == n + SellPrice["crate"]
  <2>1. bag' = [bag EXCEPT ![p] = b] /\ Paid(m)
    BY <1>5
  <2>2. "crate" \in Kinds /\ SellPrice["crate"] \in Nat
    BY Numbers DEF Kinds
  <2>3. s \in Inven /\ bag[p][s] = Nothing
    BY <1>5, FreeSlotIsFree
  <2> HIDE DEF s, t
  <2>4. /\ WorthOf(b) \in Nat /\ WorthOf(bag[p]) \in Nat
        /\ WorthOf(b) + Worth(bag[p][s]) = WorthOf(bag[p]) + Worth(One("crate"))
    BY <2>2, <2>3, OneIsGood, Spots, BagAt
  <2>5. WorthOf(b) = WorthOf(bag[p]) + SellPrice["crate"]
    <3> HIDE DEF b
    <3>1. QED BY <2>2, <2>3, <2>4, WorthFacts
  <2> HIDE DEF b
  <2>6. OthersRest(p) /\ bag'[p] = b /\ taros'[p] = t
    BY <1>3, <2>1, OnesStep
  <2>7. taros'[p] + WorthOf(bag'[p]) <= taros[p] + WorthOf(bag[p]) + m /\ m \in Nat
    BY <1>1, <1>2, <2>2, <2>4, <2>5, <2>6, LiveIs
  <2> HIDE DEF m
  <2>8. QED BY <1>3, <2>1, <2>6, <2>7, PlayerEarns
<1>6. QED BY <1>4, <1>5 DEF GiveDrop

\* What expires is lost; the taros are not touched.
LEMMA ExpireItemsBooks ==
  ASSUME IInv, IInv', NEW P \in SUBSET Players, ExpireItems(P)
  PROVE  L!Next
<1>1. UNCHANGED <<taros, saved, mail, earned>>
  BY DEF ExpireItems
<1>2. PICK gone : Expire(gone)
  BY DEF ExpireItems
<1>3. ASSUME NEW q \in Players PROVE Live'[q] <= Live[q]
  <2>1. bag[q] \in Bags /\ bag'[q] \in Bags
    BY LiveIs, LiveWillBe
  <2>2. \A s \in Places : bag'[q][s] = Nothing \/ bag'[q][s] = bag[q][s]
    BY <1>2 DEF Expire
  <2>3. \A s \in Places : Worths(bag'[q])[s] <= Worths(bag[q])[s]
    <3>1. SUFFICES ASSUME NEW s \in Places PROVE Worths(bag'[q])[s] <= Worths(bag[q])[s]
      OBVIOUS
    <3>2. /\ Worths(bag'[q])[s] = Worth(bag'[q][s]) /\ Worths(bag[q])[s] = Worth(bag[q][s])
          /\ bag[q][s] \in Things
      BY <2>1, BagWorth
    <3>3. Worth(bag[q][s]) \in Nat
      BY <3>2, WorthIsNatural
    <3>4. QED BY <2>2, <3>2, <3>3, WorthFacts
  <2>4. WorthOf(bag'[q]) <= WorthOf(bag[q])
    BY <2>1, <2>3, BagWorth, FiniteDomains, TotalMonotone
  <2>5. taros'[q] = taros[q]
    BY <1>1
  <2>6. QED BY <2>4, <2>5, LiveIs, LiveWillBe
<1>4. UNCHANGED <<Safe, Post, earned>>
  BY <1>1 DEF Safe, Post
<1>5. QED BY <1>3, <1>4, LedgerSteps

LEMMA NothingMoves ==
  ASSUME IInv, UNCHANGED <<bag, taros, saved, mail, earned>>
  PROVE  UNCHANGED Books
BY DEF Books, Live, Safe, Post

-----------------------------------------------------------------------------
(* The ledger: Vendors.cpp, and what else costs taros.                     *)

\* The taros that are paid are worth what is got for them.
LEMMA VendorBuyBooks ==
  ASSUME IInv, IInv', NEW p \in Players, NEW k \in Kinds, NEW n \in 1..2, Stacks(k) \/ n = 1,
         VendorBuy(p, k, n)
  PROVE  L!Next
<1> DEFINE cost == BuyPrice[k] * Units(k, n)
           s == FreeSlot(bag[p])
           x == [kind |-> k, n |-> n]
           b == [bag[p] EXCEPT ![s] = x]
           t == taros[p] - cost
<1>1. /\ cost <= taros[p] /\ s # -1
      /\ StackSize[k] # 0 => n <= StackSize[k]
      /\ taros' = [taros EXCEPT ![p] = t] /\ bag' = [bag EXCEPT ![p] = b]
      /\ UNCHANGED <<saved, mail, earned>>
  BY DEF VendorBuy
<1>2. x \in Goods /\ x \in Things /\ Worth(x) = SellPrice[k] * n
  <2>1. x \in Goods
    BY <1>1, GoodsMade
  <2>2. QED BY <2>1, GoodsAre, WorthFacts
<1>3. s \in Inven /\ bag[p][s] = Nothing
  BY <1>1, FreeSlotIsFree
<1>4. cost \in Nat /\ SellPrice[k] * n <= cost /\ SellPrice[k] * n \in Nat
  <2>1. Units(k, n) = n /\ n \in Nat
    BY DEF Units
  <2> DEFINE i == BuyPrice[k]
             j == SellPrice[k]
  <2>2. i \in Nat /\ j \in Nat /\ j <= i
    BY Numbers, PricesAreSound
  <2>3. cost = i * n
    BY <2>1
  <2> HIDE DEF i, j, cost
  <2>4. n * j <= n * i /\ n * j = j * n /\ n * i = i * n /\ i * n \in Nat /\ j * n \in Nat
    BY <2>1, <2>2, Distributes
  <2>5. QED BY <2>3, <2>4 DEF j
<1> HIDE DEF cost, s, x
<1>5. /\ WorthOf(b) \in Nat /\ WorthOf(bag[p]) \in Nat
      /\ WorthOf(b) + Worth(bag[p][s]) = WorthOf(bag[p]) + Worth(x)
  BY <1>2, <1>3, Spots, BagAt
<1> HIDE DEF b
<1>6. WorthOf(b) = WorthOf(bag[p]) + SellPrice[k] * n
  BY <1>2, <1>3, <1>4, <1>5, WorthFacts
<1>7. OthersRest(p) /\ bag'[p] = b /\ taros'[p] = t
  <2> HIDE DEF t
  <2>1. QED BY <1>1, OnesStep
<1> DEFINE v == SellPrice[k] * n
<1>8. v \in Nat /\ v <= cost /\ WorthOf(b) = WorthOf(bag[p]) + v
  BY <1>4, <1>6
<1> HIDE DEF v
<1>9. taros'[p] + WorthOf(bag'[p]) <= taros[p] + WorthOf(bag[p])
  BY <1>1, <1>4, <1>5, <1>7, <1>8, LiveIs
<1>10. QED BY <1>1, <1>7, <1>9, PlayerLoses

LEMMA VendorSellBooks ==
  ASSUME IInv, IInv', NEW p \in Players, NEW s \in Inven, NEW n \in 1..2, VendorSell(p, s, n)
  PROVE  L!Next
<1> DEFINE x == bag[p][s]
           v == SellPrice[x.kind] * n
           b == [bag[p] EXCEPT ![s] = Take(x, n)]
           t == AddCapped(taros[p], v)
<1>1. /\ n \in 1..x.n
      /\ taros' = [taros EXCEPT ![p] = t] /\ bag' = [bag EXCEPT ![p] = b]
      /\ UNCHANGED <<saved, mail, earned>>
  BY DEF VendorSell
<1>2. x \in Goods /\ n \in Nat /\ n <= x.n /\ x \in Things
  <2>1. x \in Things /\ x # Nothing
    BY <1>1, Of, Spots, NothingIsNoGood
  <2>2. x \in Goods
    BY <2>1, GoodsByKind
  <2>3. QED BY <1>1, <2>2, GoodsAre
<1>3. Take(x, n) \in Things /\ Worth(Take(x, n)) \in Nat /\ v \in Nat
      /\ Worth(Take(x, n)) + v = Worth(x)
  BY <1>2, TakeLeavesThings, TakeWorth
<1>4. /\ WorthOf(b) \in Nat /\ WorthOf(bag[p]) \in Nat
      /\ WorthOf(b) + Worth(x) = WorthOf(bag[p]) + Worth(Take(x, n))
  BY <1>3, Spots, BagAt
<1> HIDE DEF b, v
<1>5. t \in Nat /\ t <= taros[p] + v
  BY <1>3, LiveIs, CappedLoses
<1> HIDE DEF t, x
<1>6. OthersRest(p) /\ bag'[p] = b /\ taros'[p] = t
  BY <1>1, OnesStep
<1>7. taros'[p] + WorthOf(bag'[p]) <= taros[p] + WorthOf(bag[p])
  BY <1>3, <1>4, <1>5, <1>6, LiveIs
<1>8. QED BY <1>1, <1>6, <1>7, PlayerLoses

LEMMA VendorBuybackBooks ==
  ASSUME IInv, IInv', NEW p \in Players, NEW i, VendorBuyback(p, i)
  PROVE  L!Next
<1> DEFINE item == buyback[p][i]
           cost == SellPrice[item.kind] * Units(item.kind, item.n)
           s == FreeSlot(bag[p])
           b == [bag[p] EXCEPT ![s] = item]
           t == taros[p] - cost
<1>1. /\ i \in DOMAIN buyback[p] /\ UNCHANGED <<saved, mail, earned>>
      /\ IF cost > taros[p] \/ s = -1 THEN UNCHANGED <<taros, bag>>
         ELSE /\ taros' = [taros EXCEPT ![p] = t]
              /\ bag' = [bag EXCEPT ![p] = b]
  BY DEF VendorBuyback
<1>2. item \in Goods
  BY <1>1, Of DEF Lists
<1>3. cost = Worth(item) /\ cost \in Nat /\ item \in Things
  <2>1. Units(item.kind, item.n) = item.n /\ item \in Things
    BY <1>2, GoodsAre DEF Units
  <2>2. Worth(item) = SellPrice[item.kind] * item.n /\ Worth(item) \in Nat
    BY <1>2, <2>1, WorthFacts, WorthIsNatural
  <2>3. QED BY <2>1, <2>2
<1> HIDE DEF item, cost
<1>4. CASE cost > taros[p] \/ s = -1
  <2>1. bag' = [bag EXCEPT ![p] = bag[p]] /\ taros' = [taros EXCEPT ![p] = taros[p]]
    BY <1>1, <1>4, Of
  <2>2. OthersRest(p) /\ bag'[p] = bag[p] /\ taros'[p] = taros[p]
    BY <2>1, OnesStep
  <2>3. QED BY <1>1, <2>2, LiveIs, PlayerLoses
<1>5. CASE ~ (cost > taros[p] \/ s = -1)
  <2>1. s \in Inven /\ bag[p][s] = Nothing /\ s \in Places
    BY <1>5, FreeSlotIsFree, Spots
  <2>2. taros' = [taros EXCEPT ![p] = t] /\ bag' = [bag EXCEPT ![p] = b]
    BY <1>1, <1>5
  <2> HIDE DEF s
  <2>3. /\ WorthOf(b) \in Nat /\ WorthOf(bag[p]) \in Nat
        /\ WorthOf(b) + Worth(bag[p][s]) = WorthOf(bag[p]) + Worth(item)
    BY <1>3, <2>1, BagAt
  <2> HIDE DEF b
  <2>4. WorthOf(b) = WorthOf(bag[p]) + cost
    BY <1>3, <2>1, <2>3, WorthFacts
  <2>5. OthersRest(p) /\ bag'[p] = b /\ taros'[p] = t
    <3> HIDE DEF t
    <3>1. QED BY <2>2, OnesStep
  <2>6. taros'[p] + WorthOf(bag'[p]) <= taros[p] + WorthOf(bag[p])
    BY <1>3, <1>5, <2>3, <2>4, <2>5, LiveIs
  <2>7. QED BY <1>1, <2>5, <2>6, PlayerLoses
<1>6. QED BY <1>4, <1>5

\* Only taros are spent.
LEMMA Spends ==
  ASSUME IInv, IInv', NEW p \in Players, NEW t, t <= taros[p],
         taros' = [taros EXCEPT ![p] = t], UNCHANGED <<bag, saved, mail, earned>>
  PROVE  L!Next
<1>1. OthersRest(p) /\ bag'[p] = bag[p] /\ taros'[p] = t
  BY BagUnchanged
<1>2. taros'[p] + WorthOf(bag'[p]) <= taros[p] + WorthOf(bag[p])
  BY <1>1, LiveIs, LiveWillBe
<1>3. QED BY <1>1, <1>2, PlayerLoses

LEMMA BuyBatteryBooks ==
  ASSUME IInv, IInv', NEW p \in Players, NEW n \in 1..MaxTaros, BuyBattery(p, n)
  PROVE  L!Next
<1> DEFINE t == taros[p] - n
<1>1. t <= taros[p]
  BY LiveIs, Numbers
<1>2. taros' = [taros EXCEPT ![p] = t] /\ UNCHANGED <<bag, saved, mail, earned>>
  BY DEF BuyBattery
<1> HIDE DEF t
<1>3. QED BY <1>1, <1>2, Spends

LEMMA TransportWarpBooks ==
  ASSUME IInv, IInv', NEW p \in Players, NEW n \in 1..MaxTaros, TransportWarp(p, n)
  PROVE  L!Next
<1> DEFINE rest == SubtractCapped(taros[p], n)
<1>1. n \in Nat /\ taros[p] \in Nat /\ n <= taros[p]
  BY LiveIs, Numbers DEF TransportWarp
<1>2. rest \in Nat /\ rest = taros[p] - n
  BY <1>1, CappedLoses
<1>3. PICK t \in {rest, AddCapped(rest, n)} : taros' = [taros EXCEPT ![p] = t]
  BY DEF TransportWarp
<1> HIDE DEF rest
<1>4. AddCapped(rest, n) <= rest + n
  BY <1>1, <1>2, CappedLoses
<1>5. t <= taros[p]
  BY <1>1, <1>2, <1>3, <1>4
<1>6. UNCHANGED <<bag, saved, mail, earned>>
  BY DEF TransportWarp
<1>7. QED BY <1>3, <1>5, <1>6, Spends

LEMMA CombineItemsBooks ==
  ASSUME IInv, IInv', NEW p \in Players, NEW stats \in Inven, NEW looks \in Inven,
         CombineItems(p, stats, looks, 1)
  PROVE  L!Next
<1> DEFINE t == SubtractCapped(taros[p], 1)
           b == With(bag[p], looks, One("combined"), stats, Nothing)
<1>1. /\ taros' = [taros EXCEPT ![p] = t] /\ UNCHANGED <<saved, mail, earned>>
      /\ UNCHANGED bag \/ bag' = [bag EXCEPT ![p] = b]
      /\ bag[p][stats].kind \in {"weapon", "combined"}
      /\ bag[p][looks].kind \in {"weapon", "combined"}
  BY DEF CombineItems, With
<1>2. t \in Nat /\ t <= taros[p]
  BY LiveIs, CappedLoses
<1> HIDE DEF t
<1>3. CASE UNCHANGED bag
  BY <1>1, <1>2, <1>3, Spends
<1>4. CASE bag' = [bag EXCEPT ![p] = b]
  <2>1. /\ "weapon" \in Kinds /\ "combined" \in Kinds
        /\ One("combined") \in Things /\ Nothing \in Things
        /\ Worth(One("combined")) = 0 /\ Worth(Nothing) = 0
    BY OneIsGood, NothingIsNoGood, WorthFacts, OnlyItemsArePriced DEF Kinds
  <2>2. /\ bag[p] \in Bags /\ looks \in Places /\ stats \in Places
        /\ WorthOf(bag[p]) \in Nat
    BY LiveIs, Spots
  <2>3. Worth(bag[p][stats]) \in Nat /\ Worth(bag[p][looks]) \in Nat
    BY <2>2, Of, WorthIsNatural
  <2>4. WorthOf(b) <= WorthOf(bag[p])
    <3>1. CASE looks # stats
      <4>1. /\ WorthOf(b) \in Nat
            /\ WorthOf(b) + Worth(bag[p][looks]) + Worth(bag[p][stats])
                 = WorthOf(bag[p]) + Worth(One("combined")) + Worth(Nothing)
        BY <2>1, <2>2, <3>1, BagChangesTwice
      <4> HIDE DEF b
      <4>2. QED BY <2>1, <2>2, <2>3, <4>1
    <3>2. CASE looks = stats
      <4>1. b = [bag[p] EXCEPT ![stats] = Nothing]
        BY <2>2, <3>2 DEF With, Bags
      <4> HIDE DEF b
      <4>2. /\ WorthOf(b) \in Nat
            /\ WorthOf(b) + Worth(bag[p][stats]) = WorthOf(bag[p]) + Worth(Nothing)
        BY <2>1, <2>2, <4>1, BagAt
      <4>3. QED BY <2>1, <2>2, <2>3, <4>2
    <3>3. QED BY <3>1, <3>2
  <2> HIDE DEF b
  <2>5. OthersRest(p) /\ bag'[p] = b /\ taros'[p] = t
    BY <1>1, <1>4, OnesStep
  <2>6. taros'[p] + WorthOf(bag'[p]) <= taros[p] + WorthOf(bag[p])
    BY <1>2, <2>4, <2>5, LiveIs, LiveWillBe
  <2>7. QED BY <1>1, <2>5, <2>6, PlayerLoses
<1>5. QED BY <1>1, <1>3, <1>4

-----------------------------------------------------------------------------
(* The ledger: items that are put into free slots.                         *)

\* No two members of a set are its n-th.
LEMMA OnesOwnNumber ==
  ASSUME NEW S \in SUBSET Int, IsFiniteSet(S), NEW s \in S, NEW t \in S,
         Cardinality({y \in S : y <= s}) = Cardinality({y \in S : y <= t})
  PROVE  s = t
<1>1. ASSUME NEW u \in S, NEW v \in S, u < v
      PROVE  Cardinality({y \in S : y <= u}) # Cardinality({y \in S : y <= v})
  <2> DEFINE A == {y \in S : y <= u}
             B == {y \in S : y <= v}
  <2>1. u \in Int /\ v \in Int /\ \A y \in S : y \in Int /\ (y <= u => y <= v)
    BY <1>1
  <2>2. A \in SUBSET B /\ v \in B /\ v \notin A /\ B \in SUBSET S
    <3>1. v <= v /\ ~ (v <= u)
      BY <1>1, <2>1
    <3>2. QED BY <2>1, <3>1
  <2> HIDE DEF A, B
  <2>3. IsFiniteSet(B)
    BY <2>2, FS_Subset
  <2>4. Cardinality(B) = Cardinality(A) => B = A
    BY <2>2, <2>3, FS_Subset
  <2>5. Cardinality(A) # Cardinality(B)
    BY <2>2, <2>4
  <2>6. QED BY <2>5 DEF A, B
<1>2. s \in Int /\ t \in Int
  OBVIOUS
<1>3. CASE s < t
  BY <1>1, <1>3
<1>4. CASE t < s
  BY <1>1, <1>4
<1>5. QED BY <1>2, <1>3, <1>4

\* What is put somewhere is put there once.
LEMMA FilledWorth ==
  ASSUME NEW b \in Bags, NEW items, IsFiniteSet(DOMAIN items), DOMAIN items \in SUBSET Int,
         \A k \in DOMAIN items : items[k] \in Things
  PROVE  /\ WorthOf(Filled(b, items)) \in Nat /\ WorthOf(b) \in Nat /\ WorthOf(items) \in Nat
         /\ WorthOf(Filled(b, items)) <= WorthOf(b) + WorthOf(items)
<1> DEFINE c == Filled(b, items)
           free == {s \in Inven : b[s] = Nothing}
           real == {k \in DOMAIN items : items[k] # Nothing}
           nth(S, x) == Cardinality({y \in S : y <= x})
           goes(s) == {k \in real : nth(real, k) = nth(free, s)}
           from(s) == CHOOSE k \in goes(s) : TRUE
           K == {s \in free : goes(s) # {}}
           new == [s \in Places |-> IF s \in K THEN Worth(items[from(s)]) ELSE 0]
           j == [s \in K |-> from(s)]
<1>1. c = [s \in Places |-> IF s \in K THEN items[from(s)] ELSE b[s]]
  BY DEF Filled
<1>2. \A s \in K : from(s) \in goes(s)
  OBVIOUS
<1>3. \A s \in K : /\ from(s) \in DOMAIN items /\ s \in free
                   /\ nth(real, from(s)) = nth(free, s)
  BY <1>2
<1>4. K \in SUBSET Places /\ \A s \in K : b[s] = Nothing
  BY Spots
<1>5. free \in SUBSET Int /\ IsFiniteSet(free)
  <2>1. free \in SUBSET Places /\ free \in SUBSET Nat
    BY Spots
  <2> HIDE DEF free
  <2>2. free \in SUBSET Int
    BY <2>1
  <2>3. QED BY <2>1, <2>2, FiniteDomains, FS_Subset
<1>6. \A s, t \in K : from(s) = from(t) => s = t
  <2>1. SUFFICES ASSUME NEW s \in K, NEW t \in K, from(s) = from(t) PROVE s = t
    OBVIOUS
  <2>2. nth(free, s) = nth(free, t) /\ s \in free /\ t \in free
    BY <1>3, <2>1
  <2> HIDE DEF free, goes, K
  <2>3. QED BY <1>5, <2>2, OnesOwnNumber
<1>7. c \in Bags
  BY FilledIsBag
<1> HIDE DEF c, free, real, nth, goes, from, K
<1>8. j \in Injection(K, DOMAIN items)
  BY <1>3, <1>6 DEF Injection, IsInjective
<1>9. /\ Worths(items) \in Counts(DOMAIN items) /\ WorthOf(items) = Total(Worths(items))
      /\ WorthOf(items) \in Nat
  BY WorthOfTotals
<1>10. new \in Counts(Places)
  <2>1. \A s \in K : Worth(items[from(s)]) \in Nat
    BY <1>3, WorthIsNatural
  <2>2. QED BY <2>1 DEF Counts
<1>11. Total(new) <= WorthOf(items)
  <2>1. \A s \in K : new[s] <= Worths(items)[j[s]]
    <3>1. SUFFICES ASSUME NEW s \in K PROVE new[s] <= Worths(items)[j[s]]
      OBVIOUS
    <3>2. new[s] = Worth(items[from(s)]) /\ j[s] = from(s) /\ from(s) \in DOMAIN items
      BY <1>3, <1>4
    <3>3. Worths(items)[j[s]] = Worth(items[from(s)]) /\ Worth(items[from(s)]) \in Nat
      BY <3>2, WorthIsNatural DEF Worths
    <3> HIDE DEF new, j
    <3>4. QED BY <3>2, <3>3
  <2>2. \A s \in Places \ K : new[s] = 0
    OBVIOUS
  <2> HIDE DEF new, j
  <2>3. QED BY <1>4, <1>8, <1>9, <1>10, <2>1, <2>2, FiniteDomains, TotalCarries
<1>12. \A s \in Places : Worths(c)[s] = Worths(b)[s] + new[s]
  <2>1. SUFFICES ASSUME NEW s \in Places PROVE Worths(c)[s] = Worths(b)[s] + new[s]
    OBVIOUS
  <2>2. /\ Worths(c)[s] = Worth(c[s]) /\ Worths(b)[s] = Worth(b[s])
        /\ b[s] \in Things /\ c[s] \in Things
    BY <1>7, BagWorth
  <2>3. Worth(b[s]) \in Nat /\ Worth(c[s]) \in Nat
    BY <2>2, WorthIsNatural
  <2>4. CASE s \in K
    BY <1>1, <1>4, <2>2, <2>3, <2>4, WorthFacts
  <2>5. CASE s \notin K
    BY <1>1, <2>2, <2>3, <2>5
  <2>6. QED BY <2>4, <2>5
<1> HIDE DEF new
<1>13. Total(Worths(c)) = Total(Worths(b)) + Total(new) /\ Total(new) \in Nat
  BY <1>7, <1>10, <1>12, BagWorth, FiniteDomains, TotalAdds, TotalIsNatural
<1>14. WorthOf(c) = Total(Worths(c)) /\ WorthOf(b) = Total(Worths(b)) /\ WorthOf(b) \in Nat
       /\ WorthOf(c) \in Nat
  BY <1>7, BagWorth
<1>15. QED BY <1>9, <1>11, <1>13, <1>14 DEF c

LEMMA RedeemBooks ==
  ASSUME IInv, IInv', NEW p \in Players, Redeem(p)
  PROVE  L!Next
<1> DEFINE prize == [i \in DOMAIN Code |-> One(Code[i])]
           b == Filled(bag[p], prize)
           n == WorthOf(prize)
<1>1. /\ bag' = [bag EXCEPT ![p] = b] /\ Paid(n) /\ UNCHANGED <<taros, saved, mail>>
  BY DEF Redeem
<1>2. DOMAIN Code = 1..Len(Code) /\ Len(Code) \in Nat /\ \A i \in DOMAIN Code : Code[i] \in Kinds
  BY PricesAreSound
<1>3. /\ DOMAIN prize = 1..Len(Code) /\ IsFiniteSet(1..Len(Code))
      /\ \A i \in DOMAIN prize : prize[i] \in Things
  BY <1>2, OneIsGood, UpToCounts
<1> HIDE DEF prize
<1>4. bag[p] \in Bags /\ DOMAIN prize \in SUBSET Int
  BY <1>3, Of
<1>5. /\ WorthOf(b) \in Nat /\ WorthOf(bag[p]) \in Nat /\ n \in Nat
      /\ WorthOf(b) <= WorthOf(bag[p]) + n
  BY <1>3, <1>4, FilledWorth
<1> HIDE DEF b, n
<1>6. OthersRest(p) /\ bag'[p] = b /\ taros'[p] = taros[p]
  BY <1>1, TarosUnchanged
<1>7. taros'[p] + WorthOf(bag'[p]) <= taros[p] + WorthOf(bag[p]) + n
  BY <1>5, <1>6, LiveIs
<1>8. QED BY <1>1, <1>5, <1>6, <1>7, PlayerEarns

-----------------------------------------------------------------------------
(* The ledger: Email.cpp.                                                  *)

LEMMA ParcelsDiffer ==
  ASSUME NEW p, NEW a \in Parcels(p)
  PROVE  /\ \A i, k \in DOMAIN a : a[i].slot = a[k].slot => i = k
         /\ \A i \in DOMAIN a : a[i].slot \in SlotsOf(a) /\ CountAt(a, a[i].slot) = a[i].n
<1>1. DOMAIN a = 1..Len(a) /\ Len(a) \in Nat
  BY ParcelsAre
<1>2. \A i, k \in DOMAIN a : i < k => a[i].slot # a[k].slot
  BY DEF Parcels
<1>3. \A i, k \in DOMAIN a : a[i].slot = a[k].slot => i = k
  <2>1. SUFFICES ASSUME NEW i \in DOMAIN a, NEW k \in DOMAIN a, a[i].slot = a[k].slot
                 PROVE  i = k
    OBVIOUS
  <2>2. i \in Int /\ k \in Int /\ ~ (i < k) /\ ~ (k < i)
    BY <1>1, <1>2, <2>1
  <2>3. QED BY <2>2
<1>4. ASSUME NEW i \in DOMAIN a
      PROVE  a[i].slot \in SlotsOf(a) /\ CountAt(a, a[i].slot) = a[i].n
  <2> DEFINE k == CHOOSE k \in DOMAIN a : a[k].slot = a[i].slot
  <2>1. k \in DOMAIN a /\ a[k].slot = a[i].slot
    OBVIOUS
  <2>2. CountAt(a, a[i].slot) = a[k].n
    BY DEF CountAt
  <2> HIDE DEF k
  <2>3. k = i
    BY <1>3, <2>1
  <2>4. QED BY <2>2, <2>3 DEF SlotsOf
<1>5. QED BY <1>3, <1>4

\* What is sent and what stays are worth no more than what there was.
LEMMA PackedWorth ==
  ASSUME IInv, NEW p \in Players, NEW a \in Parcels(p), NEW items,
         items = [i \in 1..NAttach |-> IF i <= Len(a) THEN Items(p, a)[i] ELSE Nothing],
         \A i \in 1..NAttach : items[i] \in Things
  PROVE  /\ WorthOf(Packed(p, a)) \in Nat /\ WorthOf(items) \in Nat
         /\ WorthOf(items) + WorthOf(Packed(p, a)) <= WorthOf(bag[p])
<1> DEFINE b == bag[p]
           c == Packed(p, a)
           v(s) == SellPrice[b[s].kind] * CountAt(a, s)
           taken == [s \in Places |-> IF s \in SlotsOf(a) THEN v(s) ELSE 0]
           K == {i \in 1..NAttach : i <= Len(a)}
           j == [i \in K |-> a[i].slot]
<1>1. c \in Bags /\ b \in Bags
  BY PackedIsBag, Of
<1>2. ASSUME NEW s \in SlotsOf(a)
      PROVE  /\ s \in Places /\ c[s] = Take(b[s], CountAt(a, s)) /\ v(s) \in Nat
             /\ Worth(c[s]) \in Nat /\ Worth(c[s]) + v(s) = Worth(b[s])
  <2>1. /\ s \in Inven /\ b[s] \in Goods
        /\ CountAt(a, s) \in Nat /\ CountAt(a, s) <= b[s].n
    BY CountsAre
  <2>2. s \in Places /\ c[s] = Take(b[s], CountAt(a, s))
    BY <2>1, Spots DEF Packed
  <2> HIDE DEF b, c
  <2>3. QED BY <2>1, <2>2, TakeWorth
<1>3. \A s \in Places \ SlotsOf(a) : c[s] = b[s]
  BY DEF Packed
<1>4. taken \in Counts(Places)
  BY <1>2 DEF Counts
<1>5. \A s \in Places : Worths(b)[s] = Worths(c)[s] + taken[s]
  <2>1. SUFFICES ASSUME NEW s \in Places PROVE Worths(b)[s] = Worths(c)[s] + taken[s]
    OBVIOUS
  <2>2. /\ Worths(c)[s] = Worth(c[s]) /\ Worths(b)[s] = Worth(b[s]) /\ b[s] \in Things
    BY <1>1, BagWorth
  <2>3. Worth(b[s]) \in Nat
    BY <2>2, WorthIsNatural
  <2>4. CASE s \in SlotsOf(a)
    <3>1. taken[s] = v(s)
      BY <2>4
    <3> HIDE DEF taken, v, b, c
    <3>2. QED BY <1>2, <2>2, <2>4, <3>1
  <2>5. CASE s \notin SlotsOf(a)
    <3>1. taken[s] = 0
      BY <2>5
    <3> HIDE DEF taken, v, b, c
    <3>2. QED BY <1>3, <2>2, <2>3, <2>5, <3>1
  <2>6. QED BY <2>4, <2>5
<1>6. /\ DOMAIN a = 1..Len(a) /\ Len(a) \in Nat /\ K \in SUBSET (1..NAttach)
      /\ \A i \in K : i \in DOMAIN a
  BY ParcelsAre
<1>7. j \in Injection(K, Places)
  <2>1. \A i \in K : a[i].slot \in Places
    BY <1>2, <1>6, ParcelsDiffer
  <2>2. \A i, k \in K : a[i].slot = a[k].slot => i = k
    BY <1>6, ParcelsDiffer
  <2> HIDE DEF K
  <2>3. QED BY <2>1, <2>2 DEF Injection, IsInjective
<1>8. /\ DOMAIN items = 1..NAttach /\ Worths(items) \in Counts(1..NAttach)
      /\ WorthOf(items) = Total(Worths(items)) /\ WorthOf(items) \in Nat
  <2>1. DOMAIN items = 1..NAttach
    OBVIOUS
  <2>2. QED BY <2>1, FiniteDomains, WorthOfTotals
<1>9. \A i \in K : Worths(items)[i] <= taken[j[i]]
  <2>1. SUFFICES ASSUME NEW i \in K PROVE Worths(items)[i] <= taken[j[i]]
    OBVIOUS
  <2>2. /\ i \in DOMAIN a /\ i \in 1..NAttach /\ i <= Len(a) /\ j[i] = a[i].slot
        /\ a[i].slot \in SlotsOf(a) /\ CountAt(a, a[i].slot) = a[i].n
    BY <1>6, ParcelsDiffer
  <2>3. items[i] = [kind |-> b[a[i].slot].kind, n |-> a[i].n]
    BY <2>2 DEF Items
  <2>4. /\ taken[j[i]] = SellPrice[b[a[i].slot].kind] * a[i].n
    BY <1>2, <2>2
  <2>5. taken[j[i]] \in Nat
    BY <1>2, <1>4, <2>2 DEF Counts
  <2>6. Worths(items)[i] = Worth(items[i])
    BY <1>8, <2>2 DEF Worths
  <2> HIDE DEF taken, b, j
  <2>7. CASE items[i] = Nothing
    BY <2>5, <2>6, <2>7, WorthFacts
  <2>8. CASE items[i] # Nothing
    BY <2>3, <2>4, <2>5, <2>6, <2>8 DEF Worth
  <2>9. QED BY <2>7, <2>8
<1>10. \A i \in (1..NAttach) \ K : Worths(items)[i] = 0
  <2>1. \A i \in (1..NAttach) \ K : items[i] = Nothing
    OBVIOUS
  <2>2. QED BY <1>8, <2>1, WorthFacts DEF Worths
<1> HIDE DEF b, c, taken, K, j
<1>11. Total(Worths(items)) <= Total(taken)
  BY <1>4, <1>6, <1>7, <1>8, <1>9, <1>10, FiniteDomains, TotalCarries
<1>12. /\ WorthOf(b) = Total(Worths(b)) /\ WorthOf(c) = Total(Worths(c)) /\ WorthOf(c) \in Nat
       /\ Worths(b) \in Counts(Places) /\ Worths(c) \in Counts(Places)
  BY <1>1, BagWorth
<1>13. Total(Worths(b)) = Total(Worths(c)) + Total(taken) /\ Total(taken) \in Nat
  BY <1>4, <1>5, <1>12, FiniteDomains, TotalAdds, TotalIsNatural
<1>14. WorthOf(items) + WorthOf(c) <= WorthOf(b) /\ WorthOf(c) \in Nat
  BY <1>8, <1>11, <1>12, <1>13
<1>15. QED BY <1>8, <1>14 DEF b, c

\* Of a stack that is put back there is no more than there was.
LEMMA UnpackedWorth ==
  ASSUME IInv, NEW p \in Players, NEW a \in Parcels(p)
  PROVE  WorthOf(Unpacked(p, a)) \in Nat /\ WorthOf(Unpacked(p, a)) <= WorthOf(bag[p])
<1> DEFINE b == bag[p]
           c == Unpacked(p, a)
<1>1. c \in Bags /\ b \in Bags
  BY UnpackedIsBag, Of
<1>2. ASSUME NEW s \in SlotsOf(a)
      PROVE  s \in Places => Worth(c[s]) <= Worth(b[s])
  <2>1. /\ b[s] \in Goods /\ b[s].n \in Nat /\ CountAt(a, s) \in Nat /\ CountAt(a, s) >= 1
        /\ CountAt(a, s) <= b[s].n /\ SellPrice[b[s].kind] \in Nat
    BY CountsAre, GoodsAre, Numbers
  <2> DEFINE x == b[s]
             n == CountAt(a, s)
             y == [x EXCEPT !.n = n]
  <2>2. s \in Places => c[s] = y
    BY DEF Unpacked
  <2> HIDE DEF b, c, x, n
  <2>3. y \in Goods /\ y.kind = x.kind /\ y.n = n
    <3>1. y \in Goods
      BY <2>1, FewerAreGood DEF x, n
    <3>2. QED BY <2>1, <3>1 DEF x, Goods, Item
  <2> HIDE DEF y
  <2>4. /\ Worth(y) = SellPrice[x.kind] * n /\ Worth(x) = SellPrice[x.kind] * x.n
    BY <2>1, <2>3, WorthFacts DEF x
  <2> DEFINE price == SellPrice[x.kind]
             m == x.n
  <2>5. price \in Nat /\ m \in Nat /\ n \in Nat /\ n <= m
    BY <2>1 DEF x, n
  <2>6. Worth(y) = price * n /\ Worth(x) = price * m
    BY <2>4
  <2> HIDE DEF price, m
  <2>7. Worth(y) <= Worth(x)
    BY <2>5, <2>6, Distributes
  <2>8. QED BY <2>2, <2>7 DEF x
<1>3. \A s \in Places \ SlotsOf(a) : c[s] = b[s]
  BY DEF Unpacked
<1> HIDE DEF b, c
<1>4. \A s \in Places : Worths(c)[s] <= Worths(b)[s]
  <2>1. SUFFICES ASSUME NEW s \in Places PROVE Worths(c)[s] <= Worths(b)[s]
    OBVIOUS
  <2>2. /\ Worths(c)[s] = Worth(c[s]) /\ Worths(b)[s] = Worth(b[s]) /\ b[s] \in Things
    BY <1>1, BagWorth
  <2>3. Worth(b[s]) \in Nat
    BY <2>2, WorthIsNatural
  <2>4. QED BY <1>2, <1>3, <2>2, <2>3
<1>5. WorthOf(c) <= WorthOf(b) /\ WorthOf(c) \in Nat
  BY <1>1, <1>4, BagWorth, FiniteDomains, TotalMonotone
<1>6. QED BY <1>5 DEF b, c

\* A new mail overwrites none.
LEMMA NextIndexIsFree ==
  ASSUME NEW q, NextIndex(q) \in Indices
  PROVE  mail[q][NextIndex(q)] = NoMail
<1> DEFINE used == {i \in Indices : mail[q][i] # NoMail}
           last == CHOOSE i \in used : \A k \in used : i >= k
           over == {MaxMail - i : i \in used}
<1>1. MaxMail \in Nat /\ \A i \in used : i \in Nat /\ i >= 1 /\ i <= MaxMail
  BY PricesAreSound DEF Indices
<1>2. CASE used = {}
  BY <1>2 DEF NextIndex
<1>3. CASE used # {}
  <2>1. over \in SUBSET Nat /\ over # {}
    BY <1>1, <1>3
  <2> HIDE DEF over
  <2>2. PICK n \in over : \A m \in over : n <= m
    BY <2>1, LeastNatural
  <2>3. \E i \in used : \A k \in used : i >= k
    <3>1. PICK i \in used : n = MaxMail - i
      BY <2>2 DEF over
    <3>2. \A k \in used : MaxMail - i <= MaxMail - k
      BY <2>2, <3>1 DEF over
    <3> HIDE DEF used
    <3>3. \A k \in used : i >= k
      BY <1>1, <3>2
    <3>4. QED BY <3>3
  <2>4. last \in used /\ \A k \in used : last >= k
    BY <2>3
  <2>5. NextIndex(q) = 1 + last
    BY <1>3 DEF NextIndex
  <2> HIDE DEF last
  <2>6. NextIndex(q) \notin used
    <3> HIDE DEF used
    <3>1. QED BY <1>1, <2>4, <2>5
  <2>7. QED BY <2>6
<1>4. QED BY <1>2, <1>3

LEMMA PlayerSends ==
  ASSUME IInv, IInv', NEW p \in Players, NEW q \in Players, OthersRest(p), UNCHANGED earned,
         NEW i \in Indices, mail[q][i] = NoMail, NEW x \in Letters,
         mail' = [mail EXCEPT ![q][i] = x],
         saved' = [saved EXCEPT ![p] = [bag |-> bag'[p], taros |-> taros'[p]]],
         LetterValue(x) + taros'[p] + WorthOf(bag'[p]) <= taros[p] + WorthOf(bag[p])
  PROVE  L!Next
<1> DEFINE new == [mail[q] EXCEPT ![i] = x]
<1>1. mail[q] \in Boxes /\ Post[q] = MailValue(mail[q])
  BY BoxOf
<1>2. /\ mail' = [mail EXCEPT ![q] = new] /\ mail'[q] = new
      /\ \A r \in Players \ {q} : mail'[r] = mail[r]
  BY DEF IInv, Shaped
<1>3. /\ LetterValue(x) \in Nat /\ MailValue(mail[q]) \in Nat /\ MailValue(new) \in Nat
      /\ MailValue(new) + 0 = MailValue(mail[q]) + LetterValue(x)
  BY <1>1, BoxChanges, LetterIsWorth
<1> HIDE DEF new
<1>4. Post'[q] = MailValue(new) /\ Post' = [Post EXCEPT ![q] = Post'[q]]
  BY <1>2 DEF Post
<1>5. Post'[q] - Post[q] = LetterValue(x) /\ Post'[q] = Post[q] + (Post'[q] - Post[q])
  BY <1>1, <1>3, <1>4
<1>6. Live'[p] + (Post'[q] - Post[q]) <= Live[p]
  BY <1>3, <1>5, LiveIs, LiveWillBe
<1>7. Safe' = [Safe EXCEPT ![p] = Live'[p]]
  <2>1. /\ saved'[p].bag = bag'[p] /\ saved'[p].taros = taros'[p]
        /\ \A r \in Players \ {p} : saved'[r] = saved[r]
    BY DEF IInv, Shaped
  <2>2. Safe'[p] = Live'[p] /\ \A r \in Players \ {p} : Safe'[r] = Safe[r]
    BY <2>1 DEF Safe, Live
  <2>3. DOMAIN Safe = Players /\ DOMAIN Safe' = Players
    BY DEF Safe
  <2>4. Safe' = [r \in Players |-> Safe'[r]]
    BY DEF Safe
  <2>5. QED BY <2>2, <2>3, <2>4
<1>8. L!Send(p, q, Live'[p], Post'[q] - Post[q])
  <2>1. Post' = [Post EXCEPT ![q] = Post[q] + (Post'[q] - Post[q])]
    BY <1>4, <1>5
  <2>2. Live' = [Live EXCEPT ![p] = Live'[p]]
    BY LiveChanges
  <2>3. QED BY <1>6, <1>7, <2>1, <2>2 DEF L!Send, Live, Safe, Post
<1>9. QED BY <1>8 DEF L!Next, Live, Post

LEMMA EmailSendBooks ==
  ASSUME IInv, IInv', NEW p \in Players, NEW q \in Players, NEW cash \in 0..MaxTaros,
         NEW a \in Parcels(p), EmailSend(p, q, cash, a)
  PROVE  L!Next
<1> DEFINE cost == cash + Postage + PerItem * Len(a)
           rest == SubtractCapped(taros[p], cost)
           back == AddCapped(rest, cost)
           items == [i \in 1..NAttach |-> IF i <= Len(a) THEN Items(p, a)[i] ELSE Nothing]
           letter == [cash |-> cash, items |-> items]
<1>1. UNCHANGED earned /\ cost <= taros[p]
  BY DEF EmailSend
<1>2. cost \in Nat /\ cash \in Nat /\ cash <= cost
  <2>1. Len(a) \in Nat /\ cash \in Nat
    BY ParcelsAre, Numbers
  <2>2. PerItem * Len(a) \in Nat
    BY <2>1, Numbers, ProductsAreNatural
  <2> DEFINE m == PerItem * Len(a)
  <2>3. m \in Nat
    BY <2>2
  <2> HIDE DEF m
  <2>4. cash + Postage + m \in Nat /\ cash <= cash + Postage + m
    BY <2>1, <2>3, Numbers
  <2>5. QED BY <2>1, <2>4 DEF m
<1> HIDE DEF cost
<1>3. rest \in Nat /\ rest = taros[p] - cost /\ back \in Nat /\ back <= rest + cost
  <2>1. rest \in Nat /\ rest = taros[p] - cost
    BY <1>1, <1>2, LiveIs, CappedLoses
  <2> HIDE DEF rest
  <2>2. QED BY <1>2, <2>1, CappedLoses
<1>4. CASE /\ taros' = [taros EXCEPT ![p] = back]
           /\ bag' = [bag EXCEPT ![p] = Unpacked(p, a)]
           /\ UNCHANGED <<saved, mail>>
  <2> HIDE DEF back, rest
  <2>1. OthersRest(p) /\ bag'[p] = Unpacked(p, a) /\ taros'[p] = back
    BY <1>4, OnesStep
  <2>2. taros'[p] + WorthOf(bag'[p]) <= taros[p] + WorthOf(bag[p])
    BY <1>1, <1>2, <1>3, <2>1, LiveIs, UnpackedWorth
  <2>3. QED BY <1>1, <1>4, <2>1, <2>2, PlayerLoses
<1>5. CASE /\ NextIndex(q) \in Indices
           /\ taros' = [taros EXCEPT ![p] = rest]
           /\ bag' = [bag EXCEPT ![p] = Packed(p, a)]
           /\ SendEmail(p, q, letter)
  <2>1. letter \in Letters
    BY LetterIsLetter DEF Purse
  <2>2. /\ LetterValue(letter) = cash + WorthOf(items)
        /\ \A i \in 1..NAttach : items[i] \in Things
    <3>1. letter.cash = cash /\ letter.items = items
      OBVIOUS
    <3> HIDE DEF letter, items
    <3>2. QED BY <2>1, <3>1, LetterIsWorth
  <2>3. /\ WorthOf(Packed(p, a)) \in Nat /\ WorthOf(items) \in Nat
        /\ WorthOf(items) + WorthOf(Packed(p, a)) <= WorthOf(bag[p])
    BY <2>2, PackedWorth
  <2> HIDE DEF letter, items, rest
  <2>4. OthersRest(p) /\ bag'[p] = Packed(p, a) /\ taros'[p] = rest
    BY <1>5, OnesStep
  <2>5. /\ mail' = [mail EXCEPT ![q][NextIndex(q)] = letter]
        /\ saved' = [saved EXCEPT ![p] = [bag |-> bag'[p], taros |-> taros'[p]]]
    BY <1>5 DEF SendEmail
  <2>6. mail[q][NextIndex(q)] = NoMail
    BY <1>5, NextIndexIsFree
  <2>7. LetterValue(letter) + taros'[p] + WorthOf(bag'[p]) <= taros[p] + WorthOf(bag[p])
    BY <1>1, <1>2, <1>3, <2>2, <2>3, <2>4, LiveIs
  <2>8. QED BY <1>1, <1>5, <2>1, <2>4, <2>5, <2>6, <2>7, PlayerSends
<1>6. QED BY <1>4, <1>5 DEF EmailSend, cost

LEMMA EmailReceiveTarosBooks ==
  ASSUME IInv, IInv', NEW p \in Players, NEW i \in Indices, EmailReceiveTaros(p, i)
  PROVE  L!Next
<1> DEFINE old == mail[p][i]
           x == [old EXCEPT !.cash = 0]
           t == AddCapped(taros[p], old.cash)
<1>1. old \in Letters
  BY ReadableLetter DEF EmailReceiveTaros
<1>2. /\ taros' = [taros EXCEPT ![p] = t] /\ mail' = [mail EXCEPT ![p][i] = x]
      /\ UNCHANGED <<bag, saved, earned>>
  BY DEF EmailReceiveTaros, UpdateEmailContent, GetEmail
<1>3. x \in Letters /\ x.cash = 0 /\ x.items = old.items
  <2>1. 0 \in Purse
    BY Numbers DEF Purse
  <2> HIDE DEF old
  <2>2. QED BY <1>1, <2>1 DEF Letters
<1> HIDE DEF x
<1>4. /\ LetterValue(old) = old.cash + WorthOf(old.items)
      /\ old.cash \in Nat /\ WorthOf(old.items) \in Nat
      /\ LetterValue(x) = 0 + WorthOf(old.items)
  <2> HIDE DEF old
  <2>1. QED BY <1>1, <1>3, LetterIsWorth
<1>5. t \in Nat /\ t <= taros[p] + old.cash
  BY <1>4, LiveIs, CappedLoses
<1> HIDE DEF t
<1>6. OthersRest(p) /\ bag'[p] = bag[p] /\ taros'[p] = t
  BY <1>2, BagUnchanged
<1>7. /\ LetterValue(x) <= LetterValue(old)
      /\ LetterValue(x) + taros'[p] + WorthOf(bag'[p])
           <= LetterValue(old) + taros[p] + WorthOf(bag[p])
  <2> HIDE DEF old
  <2>1. QED BY <1>4, <1>5, <1>6, LiveIs
<1>8. QED BY <1>2, <1>3, <1>6, <1>7, PlayerCollects

\* What is taken out of a letter.
Without(old, K) ==
  [old EXCEPT !.items = [k \in 1..NAttach |-> IF k \in K THEN Nothing ELSE old.items[k]]]

LEMMA LetterWithout ==
  ASSUME NEW old \in Letters, NEW K, NEW x, x = Without(old, K)
  PROVE  /\ x \in Letters /\ LetterValue(old) = old.cash + WorthOf(old.items)
         /\ LetterValue(x) = old.cash + WorthOf(x.items)
         /\ old.cash \in Nat /\ WorthOf(old.items) \in Nat /\ WorthOf(x.items) \in Nat
         /\ DOMAIN x.items = 1..NAttach /\ DOMAIN old.items = 1..NAttach
         /\ \A k \in 1..NAttach : old.items[k] \in Things /\ x.items[k] \in Things
         /\ \A k \in 1..NAttach : x.items[k] = IF k \in K THEN Nothing ELSE old.items[k]
<1>1. x \in Letters
  BY AttachmentsDeleted DEF Without
<1>2. /\ x.items = [k \in 1..NAttach |-> IF k \in K THEN Nothing ELSE old.items[k]]
      /\ x.cash = old.cash
  BY DEF Letters, Without
<1>3. QED BY <1>1, <1>2, LetterIsWorth

LEMMA EmailReceiveItemSingleBooks ==
  ASSUME IInv, IInv', NEW p \in Players, NEW i \in Indices, NEW k \in 1..NAttach, NEW s \in Inven,
         EmailReceiveItemSingle(p, i, k, s)
  PROVE  L!Next
<1> DEFINE old == mail[p][i]
           x == Without(old, {k})
           item == old.items[k]
           b == [bag[p] EXCEPT ![s] = item]
<1>1. old \in Letters
  BY ReadableLetter DEF EmailReceiveItemSingle
<1>2. /\ bag' = [bag EXCEPT ![p] = b] /\ mail' = [mail EXCEPT ![p][i] = x]
      /\ UNCHANGED <<taros, saved, earned>>
  BY DEF EmailReceiveItemSingle, DeleteEmailAttachments, GetEmailAttachments, GetEmail, Without
<1>3. /\ x \in Letters /\ LetterValue(old) = old.cash + WorthOf(old.items)
      /\ LetterValue(x) = old.cash + WorthOf(x.items)
      /\ old.cash \in Nat /\ WorthOf(old.items) \in Nat /\ WorthOf(x.items) \in Nat
      /\ DOMAIN x.items = 1..NAttach /\ DOMAIN old.items = 1..NAttach
      /\ \A j \in 1..NAttach : old.items[j] \in Things /\ x.items[j] \in Things
      /\ \A j \in 1..NAttach : x.items[j] = IF j \in {k} THEN Nothing ELSE old.items[j]
  <2> HIDE DEF old
  <2>1. QED BY <1>1, LetterWithout
<1> HIDE DEF x
<1>4. WorthOf(x.items) + Worth(item) = WorthOf(old.items) /\ Worth(item) \in Nat
  <2> HIDE DEF old
  <2> DEFINE f == Worths(old.items)
             g == Worths(x.items)
  <2>1. /\ f \in Counts(1..NAttach) /\ g \in Counts(1..NAttach)
        /\ WorthOf(old.items) = Total(f) /\ WorthOf(x.items) = Total(g)
    BY <1>3, FiniteDomains, WorthOfTotals
  <2>2. \A j \in (1..NAttach) \ {k} : g[j] = f[j]
    BY <1>3 DEF Worths
  <2>3. g[k] = 0 /\ f[k] = Worth(item)
    BY <1>3, WorthFacts DEF Worths
  <2> HIDE DEF f, g
  <2>4. Total(g) + f[k] = Total(f) + g[k] /\ f[k] \in Nat /\ Total(f) \in Nat
    BY <2>1, <2>2, FiniteDomains, TotalChanges
  <2> HIDE DEF item
  <2>5. QED BY <2>1, <2>3, <2>4
<1>5. /\ WorthOf(b) \in Nat /\ WorthOf(bag[p]) \in Nat /\ Worth(bag[p][s]) \in Nat
      /\ WorthOf(b) + Worth(bag[p][s]) = WorthOf(bag[p]) + Worth(item)
  <2>1. item \in Things /\ s \in Places
    BY <1>3, Spots
  <2> HIDE DEF item
  <2>2. QED BY <2>1, BagAt
<1> HIDE DEF b
<1>6. OthersRest(p) /\ bag'[p] = b /\ taros'[p] = taros[p]
  BY <1>2, TarosUnchanged
<1>7. /\ LetterValue(x) <= LetterValue(old)
      /\ LetterValue(x) + taros'[p] + WorthOf(bag'[p])
           <= LetterValue(old) + taros[p] + WorthOf(bag[p])
  <2> DEFINE u == Worth(item)
             w == WorthOf(x.items)
  <2>1. /\ u \in Nat /\ w \in Nat /\ WorthOf(old.items) = w + u
        /\ WorthOf(b) + Worth(bag[p][s]) = WorthOf(bag[p]) + u
    BY <1>3, <1>4, <1>5
  <2>2. /\ LetterValue(old) = old.cash + WorthOf(old.items) /\ old.cash \in Nat
        /\ LetterValue(x) = old.cash + w
    BY <1>3
  <2> HIDE DEF old, item, u, w
  <2>3. QED BY <1>5, <1>6, <2>1, <2>2, LiveIs
<1>8. QED BY <1>2, <1>3, <1>6, <1>7, PlayerCollects

LEMMA EmailReceiveItemAllBooks ==
  ASSUME IInv, IInv', NEW p \in Players, NEW i \in Indices, EmailReceiveItemAll(p, i)
  PROVE  L!Next
<1> DEFINE old == mail[p][i]
           x == Without(old, 1..NAttach)
           b == Filled(bag[p], old.items)
<1>1. old \in Letters
  BY ReadableLetter DEF EmailReceiveItemAll
<1>2. /\ bag' = [bag EXCEPT ![p] = b] /\ mail' = [mail EXCEPT ![p][i] = x]
      /\ UNCHANGED <<taros, saved, earned>>
  BY DEF EmailReceiveItemAll, DeleteEmailAttachments, GetEmailAttachments, GetEmail, Without
<1>3. /\ x \in Letters /\ LetterValue(old) = old.cash + WorthOf(old.items)
      /\ LetterValue(x) = old.cash + WorthOf(x.items)
      /\ old.cash \in Nat /\ WorthOf(old.items) \in Nat /\ WorthOf(x.items) \in Nat
      /\ DOMAIN x.items = 1..NAttach /\ DOMAIN old.items = 1..NAttach
      /\ \A j \in 1..NAttach : old.items[j] \in Things /\ x.items[j] \in Things
      /\ \A j \in 1..NAttach : x.items[j] = Nothing
  <2> DEFINE all == 1..NAttach
  <2>1. x = Without(old, all) /\ \A j \in 1..NAttach : j \in all
    OBVIOUS
  <2> HIDE DEF old, x, all
  <2>2. /\ x \in Letters /\ LetterValue(old) = old.cash + WorthOf(old.items)
        /\ LetterValue(x) = old.cash + WorthOf(x.items)
        /\ old.cash \in Nat /\ WorthOf(old.items) \in Nat /\ WorthOf(x.items) \in Nat
        /\ DOMAIN x.items = 1..NAttach /\ DOMAIN old.items = 1..NAttach
        /\ \A j \in 1..NAttach : old.items[j] \in Things /\ x.items[j] \in Things
        /\ \A j \in 1..NAttach : x.items[j] = IF j \in all THEN Nothing ELSE old.items[j]
    BY <1>1, <2>1, LetterWithout
  <2>3. QED BY <2>1, <2>2
<1> HIDE DEF x
<1>4. WorthOf(x.items) = 0
  <2> HIDE DEF old
  <2> DEFINE g == Worths(x.items)
  <2>1. g \in Counts(1..NAttach) /\ WorthOf(x.items) = Total(g)
    BY <1>3, FiniteDomains, WorthOfTotals
  <2>2. \A j \in 1..NAttach : g[j] = 0
    BY <1>3, WorthFacts DEF Worths
  <2> HIDE DEF g
  <2>3. QED BY <2>1, <2>2, FiniteDomains, TotalOfNone
<1>5. /\ WorthOf(b) \in Nat /\ WorthOf(bag[p]) \in Nat
      /\ WorthOf(b) <= WorthOf(bag[p]) + WorthOf(old.items)
  <2>1. 1..NAttach \in SUBSET Int /\ bag[p] \in Bags
    BY Of
  <2> HIDE DEF old
  <2>2. QED BY <1>3, <2>1, FiniteDomains, FilledWorth
<1> HIDE DEF b
<1>6. OthersRest(p) /\ bag'[p] = b /\ taros'[p] = taros[p]
  BY <1>2, TarosUnchanged
<1>7. /\ LetterValue(x) <= LetterValue(old)
      /\ LetterValue(x) + taros'[p] + WorthOf(bag'[p])
           <= LetterValue(old) + taros[p] + WorthOf(bag[p])
  <2> HIDE DEF old
  <2>1. QED BY <1>3, <1>4, <1>5, <1>6, LiveIs
<1>8. QED BY <1>2, <1>3, <1>6, <1>7, PlayerCollects

LEMMA EmailDeleteBooks ==
  ASSUME IInv, IInv', NEW p \in Players, NEW I, EmailDelete(p, I)
  PROVE  L!Next
<1> DEFINE box == [i \in Indices |-> IF i \in I THEN NoMail ELSE mail[p][i]]
<1>1. mail' = [mail EXCEPT ![p] = box] /\ UNCHANGED <<bag, taros, saved, earned>>
  BY DEF EmailDelete, DeleteEmails, mine
<1>2. /\ box \in Boxes /\ mail[p] \in Boxes
      /\ \A i \in Indices : LetterValue(box[i]) <= LetterValue(mail[p][i])
  <2>1. mail[p] \in Boxes /\ \A i \in Indices : mail[p][i] \in Letters \cup {NoMail}
    BY BoxOf
  <2>2. box \in Boxes
    BY <2>1 DEF Boxes
  <2>3. \A i \in Indices : LetterValue(mail[p][i]) \in Nat
    BY <2>1, LetterIsWorth
  <2>4. \A i \in Indices : LetterValue(box[i]) <= LetterValue(mail[p][i])
    <3>1. SUFFICES ASSUME NEW i \in Indices
                   PROVE  LetterValue(box[i]) <= LetterValue(mail[p][i])
      OBVIOUS
    <3>2. CASE i \in I
      <4>1. box[i] = NoMail
        BY <3>2
      <4> HIDE DEF box
      <4>2. QED BY <2>3, <4>1, LetterIsWorth
    <3>3. CASE i \notin I
      <4>1. box[i] = mail[p][i]
        BY <3>3
      <4> HIDE DEF box
      <4>2. QED BY <2>3, <4>1
    <3>4. QED BY <3>2, <3>3
  <2>5. QED BY <2>1, <2>2, <2>4
<1> HIDE DEF box
<1>3. MailValue(box) <= MailValue(mail[p]) /\ MailValue(box) \in Nat
  <2>1. /\ Values(box) \in Counts(Indices) /\ Values(mail[p]) \in Counts(Indices)
        /\ MailValue(box) = Total(Values(box)) /\ MailValue(mail[p]) = Total(Values(mail[p]))
        /\ MailValue(box) \in Nat
    BY <1>2, BoxesAre
  <2>2. \A i \in Indices : Values(box)[i] <= Values(mail[p])[i]
    BY <1>2 DEF Values
  <2>3. QED BY <2>1, <2>2, FiniteDomains, TotalMonotone
<1>4. mail'[p] = box /\ \A r \in Players \ {p} : mail'[r] = mail[r]
  BY <1>1 DEF IInv, Shaped
<1>5. Post[p] = MailValue(mail[p]) /\ Post'[p] = MailValue(box) /\ Post[p] \in Nat
  BY <1>4, BoxOf DEF Post
<1>6. Post' = [Post EXCEPT ![p] = Post'[p]]
  BY <1>4 DEF Post
<1>7. UNCHANGED Live /\ UNCHANGED <<Safe, earned>> /\ Live[p] \in Nat
  BY <1>1, LiveIs DEF Live, Safe
<1>8. Live' = [Live EXCEPT ![p] = Live'[p]]
  BY <1>7 DEF Live
<1>9. Post'[p] <= Post[p] /\ Post'[p] + Live'[p] <= Post[p] + Live[p]
  BY <1>3, <1>5, <1>7
<1>10. QED BY <1>6, <1>7, <1>8, <1>9, LedgerSteps

-----------------------------------------------------------------------------
(* The ledger: coming and going, and the refinement.                       *)

\* What the tables hold of a player.
LEMMA SafeIs ==
  ASSUME IInv, NEW p \in Players
  PROVE  Safe[p] = Wealth(saved[p].bag, saved[p].taros) /\ Safe[p] \in Nat
BY Of, WealthIsNatural DEF Safe

LEMMA EmptyIsWorthless == Wealth(Empty, 0) = 0
<1>1. Empty \in Bags
  BY EmptyIsBag
<1>2. \A s \in Places : Worths(Empty)[s] = 0
  <2>1. \A s \in Places : Worths(Empty)[s] = Worth(Empty[s])
    BY <1>1, BagWorth
  <2>2. QED BY <2>1, WorthFacts DEF Empty
<1>3. WorthOf(Empty) = 0
  BY <1>1, <1>2, BagWorth, FiniteDomains, TotalOfNone
<1>4. QED BY <1>3 DEF Wealth

LEMMA NoMailIsWorthless == MailValue([i \in Indices |-> NoMail]) = 0
<1> DEFINE box == [i \in Indices |-> NoMail]
<1>1. box \in Boxes
  BY DEF Boxes
<1>2. \A i \in Indices : Values(box)[i] = 0
  BY LetterIsWorth DEF Values
<1> HIDE DEF box
<1>3. MailValue(box) = 0
  BY <1>1, <1>2, BoxesAre, FiniteDomains, TotalOfNone
<1>4. QED BY <1>3 DEF box

LEMMA GoneAreWorthless ==
  ASSUME IInv, NEW p \in Players \ online
  PROVE  Live[p] = 0
BY EmptyIsWorthless DEF IInv, GoneHaveNothing, Live

\* What p has is written while it stays, or as it leaves.
LEMMA PlayerIsSaved ==
  ASSUME IInv, NEW p \in Players, UNCHANGED <<mail, earned>>,
         saved' = [saved EXCEPT ![p] = [bag |-> bag[p], taros |-> taros[p]]],
         NEW rest \in {0, Live[p]}, Live' = [Live EXCEPT ![p] = rest]
  PROVE  L!Next
<1>1. /\ saved'[p].bag = bag[p] /\ saved'[p].taros = taros[p]
      /\ \A r \in Players \ {p} : saved'[r] = saved[r]
  BY DEF IInv, Shaped
<1>2. Safe'[p] = Live[p] /\ \A r \in Players \ {p} : Safe'[r] = Safe[r]
  BY <1>1 DEF Safe, Live
<1>3. Safe' = [r \in Players |-> Safe'[r]] /\ DOMAIN Safe = Players
  BY DEF Safe
<1>4. Safe' = [Safe EXCEPT ![p] = Live[p]]
  BY <1>2, <1>3
<1>5. UNCHANGED <<Post, earned>>
  BY DEF Post
<1>6. DOMAIN Live = Players
  BY DEF Live
<1>7. Live'[p] = rest
  BY <1>6
<1>8. L!Save(p, Live'[p])
  BY <1>4, <1>5, <1>7 DEF L!Save, Live, Safe, Post
<1>9. QED BY <1>8 DEF L!Next, Live

LEMMA SavePlayerBooks ==
  ASSUME IInv, NEW p \in Players, SavePlayer(p)
  PROVE  L!Next
<1>1. /\ saved' = [saved EXCEPT ![p] = [bag |-> bag[p], taros |-> taros[p]]]
      /\ UNCHANGED <<bag, taros, mail, earned>>
  BY DEF SavePlayer, mine
<1>2. Live' = Live /\ Live = [Live EXCEPT ![p] = Live[p]]
  BY <1>1 DEF Live
<1>3. QED BY <1>1, <1>2, PlayerIsSaved

\* Players that are freed have nothing any more.
LEMMA FreedBooks ==
  ASSUME NEW P \in SUBSET Players, Freed(P)
  PROVE  \A q \in Players : Live'[q] = IF q \in P THEN 0 ELSE Live[q]
<1>1. \A q \in Players : /\ bag'[q] = IF q \in P THEN Empty ELSE bag[q]
                         /\ taros'[q] = IF q \in P THEN 0 ELSE taros[q]
  BY DEF Freed
<1>2. \A q \in Players : Live'[q] = Wealth(bag'[q], taros'[q]) /\ Live[q] = Wealth(bag[q], taros[q])
  BY DEF Live
<1>3. QED BY <1>1, <1>2, EmptyIsWorthless

LEMMA LogoutBooks ==
  ASSUME IInv, NEW p \in Players, Logout(p)
  PROVE  L!Next
<1>1. /\ saved' = [saved EXCEPT ![p] = [bag |-> bag[p], taros |-> taros[p]]]
      /\ Freed({p}) /\ UNCHANGED <<mail, earned>>
  BY DEF Logout
<1>2. \A q \in Players : Live'[q] = IF q \in {p} THEN 0 ELSE Live[q]
  BY <1>1, FreedBooks
<1>3. Live' = [q \in Players |-> Live'[q]] /\ DOMAIN Live = Players
  BY DEF Live
<1>4. Live' = [Live EXCEPT ![p] = 0]
  BY <1>2, <1>3
<1>5. QED BY <1>1, <1>4, PlayerIsSaved

LEMMA LoginBooks ==
  ASSUME IInv, NEW p \in Players, Login(p)
  PROVE  L!Next
<1>1. /\ bag' = [bag EXCEPT ![p] = saved[p].bag] /\ taros' = [taros EXCEPT ![p] = saved[p].taros]
      /\ UNCHANGED <<saved, mail, earned>> /\ p \notin online
  BY DEF Login
<1>2. OthersRest(p) /\ bag'[p] = saved[p].bag /\ taros'[p] = saved[p].taros
  BY <1>1, OnesStep
<1>3. Live[p] = 0
  BY <1>1, GoneAreWorthless
<1>4. Live'[p] = Safe[p] /\ Safe[p] \in Nat
  BY <1>2, SafeIs DEF Live
<1>5. Live' = [Live EXCEPT ![p] = Live'[p]]
  BY <1>2, LiveChanges
<1>6. UNCHANGED <<Safe, Post, earned>>
  BY <1>1 DEF Safe, Post
<1>7. Live'[p] <= Safe[p]
  BY <1>4
<1>8. L!Login(p, Live'[p])
  BY <1>3, <1>5, <1>6, <1>7 DEF L!Login, Live, Safe, Post
<1>9. QED BY <1>8 DEF L!Next, Live

LEMMA CrashBooks ==
  ASSUME IInv, Crash
  PROVE  L!Next
<1>1. Freed(Players) /\ UNCHANGED <<saved, mail, earned>> /\ Players \in SUBSET Players
  BY DEF Crash
<1>2. \A q \in Players : Live'[q] = 0
  BY <1>1, FreedBooks
<1>3. Live' = [q \in Players |-> Live'[q]]
  BY DEF Live
<1>4. Live' = [q \in Players |-> 0]
  BY <1>2, <1>3
<1>5. UNCHANGED <<Safe, Post, earned>>
  BY <1>1 DEF Safe, Post
<1>6. L!Crash
  BY <1>4, <1>5 DEF L!Crash, Live, Safe, Post
<1>7. QED BY <1>6 DEF L!Next

LEMMA DeleteCharacterBooks ==
  ASSUME IInv, NEW p \in Players, DeleteCharacter(p)
  PROVE  L!Next
<1>1. /\ saved' = [saved EXCEPT ![p] = [bag |-> Empty, taros |-> 0]]
      /\ mail' = [mail EXCEPT ![p] = [i \in Indices |-> NoMail]]
      /\ UNCHANGED <<bag, taros, earned>> /\ p \notin online
  BY DEF DeleteCharacter, mine
<1>2. /\ saved'[p].bag = Empty /\ saved'[p].taros = 0
      /\ mail'[p] = [i \in Indices |-> NoMail]
      /\ \A r \in Players \ {p} : saved'[r] = saved[r] /\ mail'[r] = mail[r]
  BY <1>1 DEF IInv, Shaped
<1>3. Safe'[p] = 0 /\ \A r \in Players \ {p} : Safe'[r] = Safe[r]
  BY <1>2, EmptyIsWorthless DEF Safe
<1>4. Post'[p] = 0 /\ \A r \in Players \ {p} : Post'[r] = Post[r]
  BY <1>2, NoMailIsWorthless DEF Post
<1>5. /\ Safe' = [r \in Players |-> Safe'[r]] /\ DOMAIN Safe = Players
      /\ Post' = [r \in Players |-> Post'[r]] /\ DOMAIN Post = Players
  BY DEF Safe, Post
<1>6. Safe' = [Safe EXCEPT ![p] = 0] /\ Post' = [Post EXCEPT ![p] = 0]
  BY <1>3, <1>4, <1>5
<1>7. UNCHANGED <<Live, earned>>
  BY <1>1 DEF Live
<1>8. Live[p] = 0
  BY <1>1, GoneAreWorthless
<1>9. L!Delete(p)
  BY <1>6, <1>7, <1>8 DEF L!Delete, Live, Safe, Post
<1>10. QED BY <1>9 DEF L!Next

LEMMA ItemsNextBooks ==
  ASSUME IInv, IInv', NEW p \in Players, ItemsNext(p)
  PROVE  L!Next \/ UNCHANGED Books
<1>1. CASE \E s \in Places, t \in Held(p) : ItemMove(p, s, t) \/ ItemMove(p, t, s)
  BY <1>1, HeldArePlaces, ItemMoveBooks
<1>2. CASE \E s \in Inven \cap Held(p) : ItemDelete(p, s) \/ ItemUse(p, s) \/ ChestOpen(p, s)
  BY <1>2, ItemDeleteBooks, ItemUseBooks, ChestOpenBooks
<1>3. CASE \E n \in 0..MaxEarned[stock] : GiveDrop(p, n)
  BY <1>3, GiveDropBooks
<1>4. CASE Redeem(p)
  BY <1>4, RedeemBooks
<1>5. CASE EnterVehicle(p) \/ ExitVehicle(p)
  <2>1. UNCHANGED <<bag, taros, saved, mail, earned>>
    BY <1>5 DEF EnterVehicle, ExitVehicle
  <2>2. QED BY <2>1, NothingMoves
<1>6. QED BY <1>1, <1>2, <1>3, <1>4, <1>5 DEF ItemsNext

LEMMA VendorsNextBooks ==
  ASSUME IInv, IInv', NEW p \in Players, VendorsNext(p)
  PROVE  L!Next
<1>1. CASE \E k \in Kinds, n \in 1..2 : (Stacks(k) \/ n = 1) /\ VendorBuy(p, k, n)
  BY <1>1, VendorBuyBooks
<1>2. CASE \E s \in Inven \cap Held(p), n \in 1..2 : VendorSell(p, s, n)
  BY <1>2, VendorSellBooks
<1>3. CASE \E i \in 1..NBuyback : VendorBuyback(p, i)
  BY <1>3, VendorBuybackBooks
<1>4. CASE \E n \in 1..MaxTaros : BuyBattery(p, n) \/ TransportWarp(p, n)
  BY <1>4, BuyBatteryBooks, TransportWarpBooks
<1>5. CASE \E s, t \in Inven \cap Held(p) : CombineItems(p, s, t, 1)
  BY <1>5, CombineItemsBooks
<1>6. QED BY <1>1, <1>2, <1>3, <1>4, <1>5 DEF VendorsNext

LEMMA EmailNextBooks ==
  ASSUME IInv, IInv', NEW p \in Players, EmailNext(p)
  PROVE  L!Next
<1>1. CASE \E q \in Players, n \in 0..MaxTaros, a \in Parcels(p) : EmailSend(p, q, n, a)
  BY <1>1, EmailSendBooks
<1>2. CASE \E i \in Indices : EmailReceiveTaros(p, i) \/ EmailReceiveItemAll(p, i)
  BY <1>2, EmailReceiveTarosBooks, EmailReceiveItemAllBooks
<1>3. CASE \E I \in (SUBSET Indices) \ {{}} : EmailDelete(p, I)
  BY <1>3, EmailDeleteBooks
<1>4. CASE \E i \in Indices, k \in 1..NAttach, s \in Inven : EmailReceiveItemSingle(p, i, k, s)
  BY <1>4, EmailReceiveItemSingleBooks
<1>5. QED BY <1>1, <1>2, <1>3, <1>4 DEF EmailNext

\* Every step of the server is one of the ledger, or moves nothing.
LEMMA StepRefines ==
  ASSUME IInv, [Next]_vars
  PROVE  L!Next \/ UNCHANGED Books
<1>0. IInv'
  BY NextKeeps
<1>1. CASE \E p \in Players : ItemsNext(p) \/ VendorsNext(p) \/ EmailNext(p)
  BY <1>0, <1>1, ItemsNextBooks, VendorsNextBooks, EmailNextBooks
<1>2. CASE \E P \in SUBSET Players : ExpireItems(P)
  BY <1>0, <1>2, ExpireItemsBooks
<1>3. CASE \E p \in Players : SavePlayer(p) \/ Login(p) \/ Logout(p) \/ DeleteCharacter(p)
  BY <1>3, SavePlayerBooks, LoginBooks, LogoutBooks, DeleteCharacterBooks
<1>4. CASE Crash
  BY <1>4, CrashBooks
<1>5. CASE UNCHANGED vars
  BY <1>5, NothingMoves DEF vars, mine
<1>6. QED BY <1>1, <1>2, <1>3, <1>4, <1>5 DEF Next

LEMMA InitRefines ==
  ASSUME Init
  PROVE  L!Init
<1>1. /\ bag = [p \in Players |-> Empty] /\ taros = [p \in Players |-> 0]
      /\ saved = [p \in Players |-> [bag |-> Empty, taros |-> 0]]
      /\ mail = [p \in Players |-> [i \in Indices |-> NoMail]] /\ earned = 0
  BY DEF Init
<1>2. Live = [p \in Players |-> 0] /\ Safe = [p \in Players |-> 0] /\ Post = [p \in Players |-> 0]
  BY <1>1, EmptyIsWorthless, NoMailIsWorthless DEF Live, Safe, Post
<1>3. QED BY <1>1, <1>2 DEF L!Init, Live, Safe, Post

\* Selling, buying back, posting, collecting, saving and every crash keep the
\* books, whatever the prices, the stacks, the places and the mail.
THEOREM PossessionsImplementLedger == Spec => ImplementsLedger
<1>1. Init => L!Init
  BY InitRefines
<1>2. IInv /\ [Next]_vars => [L!Next]_(L!vars)
  <2>1. IInv /\ [Next]_vars => L!Next \/ UNCHANGED Books
    BY StepRefines
  <2>2. UNCHANGED Books => UNCHANGED L!vars
    BY DEF Books, Live, Safe, Post, L!vars
  <2>3. QED BY <2>1, <2>2
<1>3. QED BY <1>1, <1>2, PossessionsAreInvariant, PTL DEF Spec, L!Spec, ImplementsLedger

-----------------------------------------------------------------------------
(* The ledger: what its books promise.                                     *)

\* What the players in S have in memory and the others in the tables.
Remains(S) == [p \in Players |-> IF p \in S THEN Live[p] ELSE Safe[p]]

\* Whoever loses what was not saved, and whoever keeps it: what is left and
\* the mail are worth no more than the game has paid out.
Solvent == \A S \in SUBSET Players : Total(Remains(S)) + Total(Post) <= earned

Accounts ==
  /\ Live \in Counts(Players) /\ Safe \in Counts(Players) /\ Post \in Counts(Players)
  /\ \A S \in SUBSET Players : Remains(S) \in Counts(Players)
  /\ Total(Post) \in Nat /\ earned \in Nat
  /\ \A S \in SUBSET Players : Total(Remains(S)) \in Nat

LEMMA AccountsAre == IInv => Accounts
<1> SUFFICES ASSUME IInv PROVE Accounts
  OBVIOUS
<1>1. \A p \in Players : Live[p] \in Nat /\ Safe[p] \in Nat /\ Post[p] \in Nat
  BY LiveIs, SafeIs, BoxOf
<1>2. Live \in Counts(Players) /\ Safe \in Counts(Players) /\ Post \in Counts(Players)
  BY <1>1 DEF Live, Safe, Post, Counts
<1>3. \A S \in SUBSET Players : Remains(S) \in Counts(Players)
  BY <1>1 DEF Remains, Counts
<1>4. earned \in Nat
  BY Numbers DEF IInv, Shaped
<1>5. QED BY <1>2, <1>3, <1>4, PlayersAreFinite, TotalIsNatural DEF Accounts

LEMMA AccountsWillBe == IInv' => Accounts'
BY AccountsAre, PTL

\* The steps of the ledger, of the books it is kept in here.
LEMMA LedgerMoves ==
  ASSUME L!Next
  PROVE  \/ UNCHANGED <<earned, Post, Safe>> /\ \A p \in Players : Live'[p] <= Live[p]
         \/ \E p \in Players : /\ earned' - earned >= 0
                               /\ Live'[p] <= Live[p] + (earned' - earned)
                               /\ \A r \in Players \ {p} : Live'[r] = Live[r]
                               /\ UNCHANGED <<Safe, Post>>
         \/ \E p \in Players : /\ Live[p] = 0 /\ Live'[p] <= Safe[p]
                               /\ \A r \in Players \ {p} : Live'[r] = Live[r]
                               /\ UNCHANGED <<Safe, Post, earned>>
         \/ \E p \in Players : /\ Live'[p] \in {0, Live[p]} /\ Safe'[p] = Live[p]
                               /\ \A r \in Players \ {p} : Live'[r] = Live[r] /\ Safe'[r] = Safe[r]
                               /\ UNCHANGED <<Post, earned>>
         \/ \E p, q \in Players : /\ Live'[p] + (Post'[q] - Post[q]) <= Live[p]
                                  /\ Safe'[p] = Live'[p]
                                  /\ \A r \in Players \ {p} : Live'[r] = Live[r] /\ Safe'[r] = Safe[r]
                                  /\ \A r \in Players \ {q} : Post'[r] = Post[r]
                                  /\ UNCHANGED earned
         \/ \E p \in Players : /\ Post'[p] + Live'[p] <= Post[p] + Live[p] /\ Post'[p] <= Post[p]
                               /\ \A r \in Players \ {p} : Live'[r] = Live[r] /\ Post'[r] = Post[r]
                               /\ UNCHANGED <<Safe, earned>>
         \/ \E p \in Players : /\ Safe'[p] = 0 /\ Post'[p] = 0
                               /\ \A r \in Players \ {p} : Safe'[r] = Safe[r] /\ Post'[r] = Post[r]
                               /\ UNCHANGED <<Live, earned>>
         \/ UNCHANGED <<Safe, Post, earned>> /\ \A p \in Players : Live'[p] = 0
<1>0. DOMAIN Live = Players /\ DOMAIN Safe = Players /\ DOMAIN Post = Players
  BY DEF Live, Safe, Post
<1>1. L!Lose => UNCHANGED <<earned, Post, Safe>> /\ \A p \in Players : Live'[p] <= Live[p]
  BY DEF L!Lose, Live, Safe, Post
<1>2. ASSUME NEW p \in Players, L!Earn(p, earned' - earned, Live'[p])
      PROVE  /\ earned' - earned >= 0 /\ Live'[p] <= Live[p] + (earned' - earned)
             /\ \A r \in Players \ {p} : Live'[r] = Live[r]
             /\ UNCHANGED <<Safe, Post>>
  <2>1. /\ earned' - earned >= 0 /\ Live'[p] <= Live[p] + (earned' - earned)
        /\ Live' = [Live EXCEPT ![p] = Live'[p]] /\ UNCHANGED <<Safe, Post>>
    BY <1>2 DEF L!Earn, Live, Safe, Post
  <2>2. QED BY <1>0, <2>1
<1>3. ASSUME NEW p \in Players, L!Login(p, Live'[p])
      PROVE  /\ Live[p] = 0 /\ Live'[p] <= Safe[p]
             /\ \A r \in Players \ {p} : Live'[r] = Live[r]
             /\ UNCHANGED <<Safe, Post, earned>>
  <2>1. /\ Live[p] = 0 /\ Live'[p] <= Safe[p] /\ Live' = [Live EXCEPT ![p] = Live'[p]]
        /\ UNCHANGED <<Safe, Post, earned>>
    BY <1>3 DEF L!Login, Live, Safe, Post
  <2>2. QED BY <1>0, <2>1
<1>4. ASSUME NEW p \in Players, L!Save(p, Live'[p])
      PROVE  /\ Live'[p] \in {0, Live[p]} /\ Safe'[p] = Live[p]
             /\ \A r \in Players \ {p} : Live'[r] = Live[r] /\ Safe'[r] = Safe[r]
             /\ UNCHANGED <<Post, earned>>
  <2>1. /\ Live'[p] \in {0, Live[p]} /\ Live' = [Live EXCEPT ![p] = Live'[p]]
        /\ Safe' = [Safe EXCEPT ![p] = Live[p]] /\ UNCHANGED <<Post, earned>>
    BY <1>4 DEF L!Save, Live, Safe, Post
  <2>2. QED BY <1>0, <2>1
<1>5. ASSUME NEW p \in Players, NEW q \in Players, L!Send(p, q, Live'[p], Post'[q] - Post[q])
      PROVE  /\ Live'[p] + (Post'[q] - Post[q]) <= Live[p] /\ Safe'[p] = Live'[p]
             /\ \A r \in Players \ {p} : Live'[r] = Live[r] /\ Safe'[r] = Safe[r]
             /\ \A r \in Players \ {q} : Post'[r] = Post[r]
             /\ UNCHANGED earned
  <2>1. /\ Live'[p] + (Post'[q] - Post[q]) <= Live[p] /\ UNCHANGED earned
        /\ Live' = [Live EXCEPT ![p] = Live'[p]] /\ Safe' = [Safe EXCEPT ![p] = Live'[p]]
        /\ Post' = [Post EXCEPT ![q] = Post[q] + (Post'[q] - Post[q])]
    BY <1>5 DEF L!Send, Live, Safe, Post
  <2>2. QED BY <1>0, <2>1
<1>6. ASSUME NEW p \in Players, L!Collect(p, Live'[p], Post'[p])
      PROVE  /\ Post'[p] + Live'[p] <= Post[p] + Live[p] /\ Post'[p] <= Post[p]
             /\ \A r \in Players \ {p} : Live'[r] = Live[r] /\ Post'[r] = Post[r]
             /\ UNCHANGED <<Safe, earned>>
  <2>1. /\ Post'[p] + Live'[p] <= Post[p] + Live[p] /\ Post'[p] <= Post[p]
        /\ Live' = [Live EXCEPT ![p] = Live'[p]] /\ Post' = [Post EXCEPT ![p] = Post'[p]]
        /\ UNCHANGED <<Safe, earned>>
    BY <1>6 DEF L!Collect, Live, Safe, Post
  <2>2. QED BY <1>0, <2>1
<1>7. ASSUME NEW p \in Players, L!Delete(p)
      PROVE  /\ Safe'[p] = 0 /\ Post'[p] = 0
             /\ \A r \in Players \ {p} : Safe'[r] = Safe[r] /\ Post'[r] = Post[r]
             /\ UNCHANGED <<Live, earned>>
  <2>1. /\ Safe' = [Safe EXCEPT ![p] = 0] /\ Post' = [Post EXCEPT ![p] = 0]
        /\ UNCHANGED <<Live, earned>>
    BY <1>7 DEF L!Delete, Live, Safe, Post
  <2>2. QED BY <1>0, <2>1
<1>8. L!Crash => UNCHANGED <<Safe, Post, earned>> /\ \A p \in Players : Live'[p] = 0
  <2>1. L!Crash => UNCHANGED <<Safe, Post, earned>> /\ Live' = [p \in Players |-> 0]
    BY DEF L!Crash, Live, Safe, Post
  <2>2. QED BY <2>1
<1>9. \/ L!Lose \/ L!Crash
      \/ \E p \in Players : L!Earn(p, earned' - earned, Live'[p])
      \/ \E p \in Players : L!Login(p, Live'[p])
      \/ \E p \in Players : L!Save(p, Live'[p])
      \/ \E p, q \in Players : L!Send(p, q, Live'[p], Post'[q] - Post[q])
      \/ \E p \in Players : L!Collect(p, Live'[p], Post'[p])
      \/ \E p \in Players : L!Delete(p)
  BY DEF L!Next, Live, Post
<1> HIDE DEF Live, Safe, Post
<1>10. QED BY <1>1, <1>2, <1>3, <1>4, <1>5, <1>6, <1>7, <1>8, <1>9

LEMMA PaysAtLeastNothing ==
  ASSUME NEW a \in Nat, NEW b \in Nat, NEW c \in Nat, c - b >= 0
  PROVE  a <= a + (c - b)
OBVIOUS

\* What is left after a step of the ledger was left before it.
LEMMA SolventStep ==
  ASSUME IInv, IInv', Solvent, L!Next
  PROVE  Solvent'
<1>1. /\ \A S \in SUBSET Players :
           /\ Remains(S) \in Counts(Players) /\ Remains(S)' \in Counts(Players)
           /\ Total(Remains(S)) \in Nat /\ Total(Remains(S)') \in Nat
           /\ Total(Remains(S)) + Total(Post) <= earned
      /\ Post \in Counts(Players) /\ Post' \in Counts(Players)
      /\ Total(Post) \in Nat /\ Total(Post') \in Nat
      /\ earned \in Nat /\ earned' \in Nat
  BY AccountsAre, AccountsWillBe DEF Solvent, Accounts
<1>2. \A S \in SUBSET Players : \A p \in Players :
        /\ Remains(S)[p] = (IF p \in S THEN Live[p] ELSE Safe[p])
        /\ Remains(S)'[p] = (IF p \in S THEN Live'[p] ELSE Safe'[p])
  BY DEF Remains
<1>3. \A p \in Players : /\ Live[p] \in Nat /\ Safe[p] \in Nat /\ Post[p] \in Nat
                         /\ Live'[p] \in Nat /\ Safe'[p] \in Nat /\ Post'[p] \in Nat
  BY AccountsAre, AccountsWillBe DEF Counts, Accounts
<1> HIDE DEF Remains, Live, Safe, Post
<1>4. SUFFICES ASSUME NEW S \in SUBSET Players
               PROVE  Total(Remains(S)') + Total(Post') <= earned'
  BY DEF Solvent
\* A set of which each has had at least as much as it has now.
<1>5. ASSUME NEW T \in SUBSET Players, UNCHANGED earned,
             \A p \in Players : Remains(S)'[p] <= Remains(T)[p] /\ Post'[p] <= Post[p]
      PROVE  Total(Remains(S)') + Total(Post') <= earned'
  <2>1. Total(Remains(S)') <= Total(Remains(T)) /\ Total(Post') <= Total(Post)
    BY <1>1, <1>5, PlayersAreFinite, TotalMonotone
  <2>2. QED BY <1>1, <1>5, <2>1
<1>6. CASE UNCHANGED <<earned, Post, Safe>> /\ \A p \in Players : Live'[p] <= Live[p]
  <2>1. \A p \in Players : Remains(S)'[p] <= Remains(S)[p] /\ Post'[p] <= Post[p]
    BY <1>2, <1>3, <1>6
  <2>2. QED BY <1>5, <1>6, <2>1
<1>7. ASSUME NEW p \in Players, earned' - earned >= 0, Live'[p] <= Live[p] + (earned' - earned),
             \A r \in Players \ {p} : Live'[r] = Live[r], UNCHANGED <<Safe, Post>>
      PROVE  Total(Remains(S)') + Total(Post') <= earned'
  <2>1. \A r \in Players \ {p} : Remains(S)'[r] = Remains(S)[r]
    BY <1>2, <1>7
  <2>2. /\ Total(Remains(S)') + Remains(S)[p] = Total(Remains(S)) + Remains(S)'[p]
        /\ Remains(S)[p] \in Nat /\ Remains(S)'[p] \in Nat
    BY <1>1, <2>1, PlayersAreFinite, TotalChanges
  <2>3. Remains(S)'[p] <= Remains(S)[p] + (earned' - earned)
    <3>1. earned \in Nat /\ earned' \in Nat /\ earned' - earned >= 0
      BY <1>1, <1>7
    <3>2. CASE p \in S
      <4>1. Remains(S)'[p] = Live'[p] /\ Remains(S)[p] = Live[p]
        BY <1>2, <3>2
      <4>2. Live'[p] <= Live[p] + (earned' - earned)
        BY <1>7
      <4>3. QED BY <4>1, <4>2
    <3>3. CASE p \notin S
      <4>1. Remains(S)'[p] = Safe[p] /\ Remains(S)[p] = Safe[p] /\ Safe[p] \in Nat
        BY <1>2, <1>3, <1>7, <3>3
      <4>2. Safe[p] <= Safe[p] + (earned' - earned)
        BY <3>1, <4>1, PaysAtLeastNothing
      <4>3. QED BY <4>1, <4>2
    <3>4. QED BY <3>2, <3>3
  <2>4. QED BY <1>1, <1>7, <2>2, <2>3
<1>8. ASSUME NEW p \in Players, Live[p] = 0, Live'[p] <= Safe[p],
             \A r \in Players \ {p} : Live'[r] = Live[r], UNCHANGED <<Safe, Post, earned>>
      PROVE  Total(Remains(S)') + Total(Post') <= earned'
  <2> DEFINE T == S \ {p}
  <2>1. T \in SUBSET Players
    OBVIOUS
  <2>2. \A r \in Players : Remains(S)'[r] <= Remains(T)[r] /\ Post'[r] <= Post[r]
    BY <1>2, <1>3, <1>8, <2>1
  <2>3. QED BY <1>5, <1>8, <2>1, <2>2
<1>9. ASSUME NEW p \in Players, Live'[p] \in {0, Live[p]}, Safe'[p] = Live[p],
             \A r \in Players \ {p} : Live'[r] = Live[r] /\ Safe'[r] = Safe[r],
             UNCHANGED <<Post, earned>>
      PROVE  Total(Remains(S)') + Total(Post') <= earned'
  <2> DEFINE T == S \cup {p}
  <2>1. T \in SUBSET Players
    OBVIOUS
  <2>2. \A r \in Players : Remains(S)'[r] <= Remains(T)[r] /\ Post'[r] <= Post[r]
    BY <1>2, <1>3, <1>9, <2>1
  <2>3. QED BY <1>5, <1>9, <2>1, <2>2
<1>10. ASSUME NEW p \in Players, NEW q \in Players,
              Live'[p] + (Post'[q] - Post[q]) <= Live[p], Safe'[p] = Live'[p],
              \A r \in Players \ {p} : Live'[r] = Live[r] /\ Safe'[r] = Safe[r],
              \A r \in Players \ {q} : Post'[r] = Post[r], UNCHANGED earned
      PROVE  Total(Remains(S)') + Total(Post') <= earned'
  <2> DEFINE T == S \cup {p}
  <2>1. T \in SUBSET Players
    OBVIOUS
  <2>2. \A r \in Players \ {p} : Remains(S)'[r] = Remains(T)[r]
    BY <1>2, <1>10, <2>1
  <2>3. Remains(S)'[p] = Live'[p] /\ Remains(T)[p] = Live[p]
    BY <1>2, <1>10, <2>1
  <2> HIDE DEF T
  <2>4. /\ Total(Remains(S)') + Remains(T)[p] = Total(Remains(T)) + Remains(S)'[p]
        /\ Total(Post') + Post[q] = Total(Post) + Post'[q]
    BY <1>1, <1>10, <2>1, <2>2, PlayersAreFinite, TotalChanges
  <2>5. Total(Remains(T)) + Total(Post) <= earned /\ Total(Remains(T)) \in Nat
    BY <1>1, <2>1
  <2>6. QED BY <1>1, <1>3, <1>10, <2>3, <2>4, <2>5
<1>11. ASSUME NEW p \in Players, Post'[p] + Live'[p] <= Post[p] + Live[p], Post'[p] <= Post[p],
              \A r \in Players \ {p} : Live'[r] = Live[r] /\ Post'[r] = Post[r],
              UNCHANGED <<Safe, earned>>
      PROVE  Total(Remains(S)') + Total(Post') <= earned'
  <2>1. \A r \in Players \ {p} : Remains(S)'[r] = Remains(S)[r]
    BY <1>2, <1>11
  <2>2. /\ Total(Remains(S)') + Remains(S)[p] = Total(Remains(S)) + Remains(S)'[p]
        /\ Total(Post') + Post[p] = Total(Post) + Post'[p]
    BY <1>1, <1>11, <2>1, PlayersAreFinite, TotalChanges
  <2>3. /\ Remains(S)'[p] + Post'[p] <= Remains(S)[p] + Post[p]
        /\ Remains(S)[p] \in Nat /\ Remains(S)'[p] \in Nat
    BY <1>2, <1>3, <1>11
  <2>4. QED BY <1>1, <1>3, <1>11, <2>2, <2>3
<1>12. ASSUME NEW p \in Players, Safe'[p] = 0, Post'[p] = 0,
              \A r \in Players \ {p} : Safe'[r] = Safe[r] /\ Post'[r] = Post[r],
              UNCHANGED <<Live, earned>>
      PROVE  Total(Remains(S)') + Total(Post') <= earned'
  <2>1. \A r \in Players : Remains(S)'[r] <= Remains(S)[r] /\ Post'[r] <= Post[r]
    BY <1>2, <1>3, <1>12
  <2>2. QED BY <1>5, <1>12, <2>1
<1>13. CASE UNCHANGED <<Safe, Post, earned>> /\ \A p \in Players : Live'[p] = 0
  <2>1. \A p \in Players : Remains(S)'[p] <= Remains(S)[p] /\ Post'[p] <= Post[p]
    BY <1>2, <1>3, <1>13
  <2>2. QED BY <1>5, <1>13, <2>1
<1>14. QED BY <1>6, <1>7, <1>8, <1>9, <1>10, <1>11, <1>12, <1>13, LedgerMoves

\* Of what the game has paid out nothing is ever there twice, neither in the
\* running server nor in what a crash leaves of it: value comes from nowhere
\* else, however players buy, sell, post, collect and are saved.
THEOREM ServerStaysSolvent == Spec => []Solvent
<1>1. Init => Solvent
  <2>1. SUFFICES ASSUME Init, NEW S \in SUBSET Players
                 PROVE  Total(Remains(S)) + Total(Post) <= earned
    BY DEF Solvent
  <2>2. /\ Live = [p \in Players |-> 0] /\ Safe = [p \in Players |-> 0]
        /\ Post = [p \in Players |-> 0] /\ earned = 0
    <3>1. L!Init
      BY <2>1, InitRefines
    <3>2. QED BY <3>1 DEF L!Init, Live, Safe, Post
  <2>3. Remains(S) = [p \in Players |-> 0]
    BY <2>2 DEF Remains
  <2> DEFINE none == [p \in Players |-> 0]
  <2>4. none \in Counts(Players) /\ \A p \in Players : none[p] = 0
    BY DEF Counts
  <2> HIDE DEF none
  <2>5. Total(none) = 0
    BY <2>4, PlayersAreFinite, TotalOfNone
  <2>6. QED BY <2>2, <2>3, <2>5 DEF none
<1>2. IInv /\ Solvent /\ [Next]_vars => Solvent'
  <2>1. SUFFICES ASSUME IInv, Solvent, [Next]_vars PROVE Solvent'
    OBVIOUS
  <2>2. IInv'
    BY <2>1, NextKeeps
  <2>3. CASE L!Next
    BY <2>1, <2>2, <2>3, SolventStep
  <2>4. CASE UNCHANGED Books
    BY <2>1, <2>4 DEF Books, Solvent, Remains
  <2>5. QED BY <2>1, <2>3, <2>4, StepRefines
<1>3. QED BY <1>1, <1>2, PossessionsAreInvariant, PTL DEF Spec
=============================================================================
