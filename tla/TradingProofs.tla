---------------------------- MODULE TradingProofs ----------------------------
(***************************************************************************)
(* In Trading.tla nobody is bound by terms it did not confirm, with any    *)
(* number of players whose offers, answers and trades overtake each other; *)
(* and whatever they trade, gain, lose and save before the process         *)
(* crashes, nothing is duplicated, with bags of any size.                  *)
(***************************************************************************)
EXTENDS Trading, FiniteSetTheorems, WellFoundedInduction, TLAPS

\* The parts of the type that the windows and the confirmations need.
Shaped ==
  /\ online \subseteq Players
  /\ trading \in [Players -> BOOLEAN] /\ confirmed \in [Players -> BOOLEAN]
  /\ with \in [Players -> Players \cup {NoPlayer}]
  /\ accepting \in [Players -> Players \cup {NoPlayer}]
  /\ DOMAIN offer = Players /\ DOMAIN cash = Players /\ DOMAIN terms = Players

\* Who enters the shard has no window open.
GoneAreClosed == \A p \in Players \ online : with[p] = NoPlayer

IInv == Shaped /\ GoneAreClosed /\ ConfirmedTermsStand

\* The windows of the two are about each other.
Mutual(p, q) == with[p] = q /\ with[q] = p

LEMMA NoPlayerIsNone == NoPlayer \notin Players
BY SizesAreNatural

LEMMA InitIInv == Init => IInv
BY DEF Init, IInv, Shaped, GoneAreClosed, ConfirmedTermsStand

\* A step that leaves windows, confirmations and the table alone.
LEMMA QuietIInv ==
  ASSUME IInv, UNCHANGED <<trading, confirmed, offer, cash, with, terms>>,
         online \subseteq online', online' \subseteq Players,
         accepting' \in [Players -> Players \cup {NoPlayer}]
  PROVE  IInv'
<1>1. Shaped' /\ GoneAreClosed'
  BY DEF IInv, Shaped, GoneAreClosed
<1>2. ASSUME NEW p \in online', NEW q \in online', Mutual(p, q)
      PROVE  p \in online /\ q \in online
  BY <1>2, NoPlayerIsNone DEF Mutual, IInv, GoneAreClosed
<1>3. ConfirmedTermsStand'
  BY <1>2 DEF IInv, ConfirmedTermsStand, Mutual, Terms
<1>4. QED BY <1>1, <1>3 DEF IInv

\* What p changes on the table concerns the one in its window only.
LEMMA TableIInv ==
  ASSUME IInv, NEW p \in Players, p \in online, with[p] \in online,
         Unconfirm(p, with[p]), UNCHANGED <<online, trading, clients>>,
         DOMAIN offer' = Players, DOMAIN cash' = Players,
         \A r \in Players \ {p} : offer'[r] = offer[r] /\ cash'[r] = cash[r]
  PROVE  IInv'
<1>1. /\ with' = with /\ accepting' = accepting /\ with[p] \in Players
      /\ confirmed' = [confirmed EXCEPT ![p] = FALSE, ![with[p]] = FALSE]
      /\ terms' = [terms EXCEPT ![p] = NoTerms, ![with[p]] = NoTerms]
  BY DEF Unconfirm, clients, IInv, Shaped
<1>2. Shaped' /\ GoneAreClosed'
  BY <1>1 DEF IInv, Shaped, GoneAreClosed
<1>3. ASSUME NEW r \in online, NEW s \in online, Mutual(r, s),
             trading[r], trading[s], confirmed'[r]
      PROVE  terms'[r] = Terms(r, s)'
  <2>1. r # p /\ r # with[p] /\ confirmed[r] /\ r \in Players /\ s \in Players
    BY <1>1, <1>3 DEF IInv, Shaped
  <2>2. s # p
    BY <1>3, <2>1 DEF Mutual
  <2>3. terms[r] = Terms(r, s)
    BY <1>3, <2>1 DEF IInv, ConfirmedTermsStand, Mutual
  <2>4. terms'[r] = terms[r]
    BY <1>1, <2>1 DEF IInv, Shaped
  <2>5. QED BY <2>1, <2>2, <2>3, <2>4 DEF Terms
<1>4. ConfirmedTermsStand'
  BY <1>1, <1>3 DEF ConfirmedTermsStand, Mutual
<1>5. QED BY <1>2, <1>4 DEF IInv

\* Windows close, of players that are gone or no longer bound: who had its own
\* about one of them is in no trade.
LEMMA ClosingIInv ==
  ASSUME IInv, online' \subseteq online,
         with' \in [Players -> Players \cup {NoPlayer}],
         \A p \in Players : with'[p] = with[p] \/ with'[p] = NoPlayer,
         \A p \in Players \ online' : with'[p] = NoPlayer,
         trading' \in [Players -> BOOLEAN], confirmed' \in [Players -> BOOLEAN],
         accepting' \in [Players -> Players \cup {NoPlayer}],
         DOMAIN offer' = Players, DOMAIN cash' = Players, DOMAIN terms' = Players,
         \A p \in Players : with'[p] # NoPlayer =>
            /\ trading'[p] => trading[p]
            /\ confirmed'[p] => confirmed[p] /\ terms'[p] = terms[p]
            /\ offer'[p] = offer[p] /\ cash'[p] = cash[p]
  PROVE  IInv'
<1>1. Shaped' /\ GoneAreClosed'
  BY DEF IInv, Shaped, GoneAreClosed
<1>2. ASSUME NEW p \in online', NEW q \in online', with'[p] = q, with'[q] = p,
             trading'[p], trading'[q], confirmed'[p]
      PROVE  terms'[p] = Terms(p, q)'
  <2>1. /\ p \in Players /\ q \in Players /\ p \in online /\ q \in online
        /\ with'[p] # NoPlayer /\ with'[q] # NoPlayer
    BY <1>2, NoPlayerIsNone DEF IInv, Shaped
  <2>2. with[p] = q /\ with[q] = p /\ trading[p] /\ trading[q] /\ confirmed[p]
    BY <1>2, <2>1
  <2>3. terms[p] = Terms(p, q)
    BY <2>1, <2>2 DEF IInv, ConfirmedTermsStand
  <2>4. terms'[p] = terms[p]
    BY <1>2, <2>1
  <2>5. QED BY <2>1, <2>3, <2>4 DEF Terms
<1>3. ConfirmedTermsStand'
  BY <1>2 DEF ConfirmedTermsStand
<1>4. QED BY <1>1, <1>3 DEF IInv

-----------------------------------------------------------------------------
(* The steps.                                                              *)

\* tradeOfferAccept(): the windows of the two leave whatever they were about.
LEMMA AcceptIInv ==
  ASSUME IInv, NEW q \in Players, TradeOfferAccept(q)
  PROVE  IInv'
<1> DEFINE p == accepting[q]
<1>1. /\ q \in online /\ p # NoPlayer /\ p \in Players /\ UNCHANGED online
      /\ accepting' = [accepting EXCEPT ![q] = NoPlayer]
      /\ accepting' \in [Players -> Players \cup {NoPlayer}]
  BY DEF TradeOfferAccept, IInv, Shaped
<1>2. CASE p \notin online \/ trading[p]
  <2>1. UNCHANGED <<trading, confirmed, offer, cash, with, terms>>
    BY <1>2 DEF TradeOfferAccept, flags, table
  <2>2. QED BY <1>1, <2>1, QuietIInv DEF IInv, Shaped
<1>3. CASE p \in online /\ ~ trading[p]
  <2>1. /\ trading' = [r \in Players |-> IF r \in {p, q} THEN TRUE ELSE trading[r]]
        /\ cash' = [r \in Players |-> IF r \in {p, q} THEN 0 ELSE cash[r]]
        /\ offer' = [r \in Players |-> IF r \in {p, q} THEN NoOffers ELSE offer[r]]
        /\ confirmed' = [confirmed EXCEPT ![p] = FALSE, ![q] = FALSE]
        /\ terms' = [terms EXCEPT ![p] = NoTerms, ![q] = NoTerms]
        /\ with' = [with EXCEPT ![p] = q, ![q] = p]
    BY <1>3 DEF TradeOfferAccept, Unconfirm
  <2> HIDE DEF p
  <2>2. Shaped'
    BY <1>1, <2>1 DEF IInv, Shaped
  <2>3. GoneAreClosed'
    BY <1>1, <1>3, <2>1 DEF IInv, Shaped, GoneAreClosed
  <2>4. ASSUME NEW r \in online, NEW s \in online, with'[r] = s, with'[s] = r,
               trading'[r], trading'[s], confirmed'[r]
        PROVE  terms'[r] = Terms(r, s)'
    <3>1. r \in Players /\ s \in Players /\ r \notin {p, q} /\ confirmed[r]
      BY <2>1, <2>4, <1>1 DEF IInv, Shaped
    <3>2. s \notin {p, q} /\ with[r] = s
      BY <2>1, <2>4, <3>1, <1>1 DEF IInv, Shaped
    <3>3. with[s] = r /\ trading[r] /\ trading[s]
      BY <2>1, <2>4, <3>1, <3>2 DEF IInv, Shaped
    <3>4. terms[r] = Terms(r, s)
      BY <3>1, <3>2, <3>3 DEF IInv, ConfirmedTermsStand
    <3>5. terms'[r] = terms[r]
      BY <2>1, <3>1 DEF IInv, Shaped
    <3>6. QED BY <2>1, <3>1, <3>2, <3>4, <3>5 DEF Terms
  <2>5. ConfirmedTermsStand'
    BY <1>1, <2>4 DEF ConfirmedTermsStand
  <2>6. QED BY <2>2, <2>3, <2>5 DEF IInv
<1>4. QED BY <1>2, <1>3

LEMMA CloseEffect ==
  ASSUME Shaped, NEW p \in Players, NEW q \in Players, Close(p, q)
  PROVE  /\ with' \in [Players -> Players \cup {NoPlayer}] /\ with'[p] = NoPlayer
         /\ \A r \in Players : with'[r] = with[r] \/ with'[r] = NoPlayer
BY DEF Shaped, Close

\* tradeConfirm(): the first confirmation, or the end of the trade.
LEMMA ConfirmIInv ==
  ASSUME IInv, NEW p \in Players, TradeConfirm(p)
  PROVE  IInv'
<1>1. PICK q \in online :
        /\ with[p] = q
        /\ IF trading[p] /\ trading[q] /\ ~ confirmed[q]
           THEN /\ confirmed' = [confirmed EXCEPT ![p] = TRUE]
                /\ terms' = [terms EXCEPT ![p] = Terms(p, q)]
                /\ UNCHANGED <<trading, with>>
           ELSE /\ trading' = [trading EXCEPT ![p] = FALSE, ![q] = FALSE]
                /\ Unconfirm(p, q) /\ Close(p, q)
  BY DEF TradeConfirm
<1>2. p \in online /\ q \in Players /\ UNCHANGED <<online, offer, cash, accepting>>
  BY DEF TradeConfirm, table, IInv, Shaped
<1>3. CASE trading[p] /\ trading[q] /\ ~ confirmed[q]
  <2>1. Shaped' /\ GoneAreClosed'
    BY <1>1, <1>2, <1>3 DEF IInv, Shaped, GoneAreClosed
  <2>2. ASSUME NEW r \in online, NEW s \in online, with[r] = s, with[s] = r,
               trading[r], trading[s], confirmed'[r]
        PROVE  terms'[r] = Terms(r, s)
    <3>1. CASE r = p
      BY <1>1, <1>2, <1>3, <2>2, <3>1 DEF IInv, Shaped
    <3>2. CASE r # p
      BY <1>1, <1>2, <1>3, <2>2, <3>2 DEF IInv, Shaped, ConfirmedTermsStand
    <3>3. QED BY <3>1, <3>2
  <2>3. ConfirmedTermsStand'
    BY <1>1, <1>2, <1>3, <2>2 DEF ConfirmedTermsStand, Terms
  <2>4. QED BY <2>1, <2>3 DEF IInv
<1>4. CASE ~ (trading[p] /\ trading[q] /\ ~ confirmed[q])
  <2>1. /\ trading' = [trading EXCEPT ![p] = FALSE, ![q] = FALSE]
        /\ confirmed' = [confirmed EXCEPT ![p] = FALSE, ![q] = FALSE]
        /\ terms' = [terms EXCEPT ![p] = NoTerms, ![q] = NoTerms]
        /\ Close(p, q)
    BY <1>1, <1>4 DEF Unconfirm
  <2>2. /\ with' \in [Players -> Players \cup {NoPlayer}]
        /\ \A r \in Players : with'[r] = with[r] \/ with'[r] = NoPlayer
    BY <1>2, <2>1, CloseEffect DEF IInv
  <2>3. /\ trading' \in [Players -> BOOLEAN] /\ confirmed' \in [Players -> BOOLEAN]
        /\ DOMAIN terms' = Players
        /\ \A r \in Players :
             /\ trading'[r] => trading[r]
             /\ confirmed'[r] => confirmed[r] /\ terms'[r] = terms[r]
    BY <1>2, <2>1 DEF IInv, Shaped
  <2>4. \A r \in Players \ online : with'[r] = NoPlayer
    BY <2>2 DEF IInv, GoneAreClosed
  <2>5. QED BY <1>2, <2>2, <2>3, <2>4, ClosingIInv DEF IInv, Shaped
<1>5. QED BY <1>3, <1>4

LEMMA CancelIInv ==
  ASSUME IInv, NEW p \in Players, TradeConfirmCancel(p)
  PROVE  IInv'
<1> DEFINE q == with[p]
<1>1. /\ q \in Players /\ Close(p, q) /\ UNCHANGED <<online, offer, cash, accepting>>
      /\ \/ /\ trading' = [trading EXCEPT ![p] = FALSE, ![q] = FALSE]
            /\ confirmed' = [confirmed EXCEPT ![p] = FALSE, ![q] = FALSE]
            /\ terms' = [terms EXCEPT ![p] = NoTerms, ![q] = NoTerms]
         \/ UNCHANGED <<trading, confirmed, terms>>
  BY DEF TradeConfirmCancel, Unconfirm, flags, table, IInv, Shaped
<1>2. /\ with' \in [Players -> Players \cup {NoPlayer}]
      /\ \A r \in Players : with'[r] = with[r] \/ with'[r] = NoPlayer
  BY <1>1, CloseEffect DEF IInv
<1> HIDE DEF q
<1>3. /\ trading' \in [Players -> BOOLEAN] /\ confirmed' \in [Players -> BOOLEAN]
      /\ DOMAIN terms' = Players
      /\ \A r \in Players :
           /\ trading'[r] => trading[r]
           /\ confirmed'[r] => confirmed[r] /\ terms'[r] = terms[r]
  BY <1>1 DEF IInv, Shaped
<1>4. \A r \in Players \ online : with'[r] = NoPlayer
  BY <1>2 DEF IInv, GoneAreClosed
<1>5. QED BY <1>1, <1>2, <1>3, <1>4, ClosingIInv DEF IInv, Shaped

LEMMA RegisterIInv ==
  ASSUME IInv, NEW p \in Players,
         \/ \E i \in TradeSlots, n \in Slots : TradeRegisterItem(p, i, n)
         \/ \E i \in TradeSlots : TradeUnregisterItem(p, i)
         \/ \E n \in 0..MaxMoney : TradeRegisterCash(p, n)
  PROVE  IInv'
<1>1. /\ p \in online /\ with[p] \in online /\ Unconfirm(p, with[p])
      /\ UNCHANGED <<online, trading, clients>>
  BY DEF TradeRegisterItem, TradeUnregisterItem, TradeRegisterCash
<1>2. /\ DOMAIN offer' = Players /\ DOMAIN cash' = Players
      /\ \A r \in Players \ {p} : offer'[r] = offer[r] /\ cash'[r] = cash[r]
  BY DEF TradeRegisterItem, TradeUnregisterItem, TradeRegisterCash, IInv, Shaped
<1>3. QED BY <1>1, <1>2, TableIInv

\* removePlayer() and a crash: the windows about those who go stay open, but
\* theirs are closed.
LEMMA FreedIInv ==
  ASSUME IInv, NEW S \in SUBSET Players, Freed(S)
  PROVE  IInv'
<1>1. /\ online' = online \ S
      /\ trading' = [p \in Players |-> IF p \in S THEN FALSE ELSE trading[p]]
      /\ confirmed' = [p \in Players |-> IF p \in S THEN FALSE ELSE confirmed[p]]
      /\ offer' = [p \in Players |-> IF p \in S THEN NoOffers ELSE offer[p]]
      /\ cash' = [p \in Players |-> IF p \in S THEN 0 ELSE cash[p]]
      /\ terms' = [p \in Players |-> IF p \in S THEN NoTerms ELSE terms[p]]
      /\ with' = [p \in Players |-> IF p \in S THEN NoPlayer ELSE with[p]]
      /\ accepting' = [p \in Players |-> IF p \in S THEN NoPlayer ELSE accepting[p]]
  BY DEF Freed
<1>2. \A p \in Players : with'[p] # NoPlayer =>
        /\ trading'[p] = trading[p] /\ confirmed'[p] = confirmed[p] /\ terms'[p] = terms[p]
        /\ offer'[p] = offer[p] /\ cash'[p] = cash[p]
  BY <1>1
<1>3. /\ with' \in [Players -> Players \cup {NoPlayer}]
      /\ accepting' \in [Players -> Players \cup {NoPlayer}]
      /\ trading' \in [Players -> BOOLEAN] /\ confirmed' \in [Players -> BOOLEAN]
      /\ \A p \in Players : with'[p] = with[p] \/ with'[p] = NoPlayer
      /\ \A p \in Players \ online' : with'[p] = NoPlayer
      /\ DOMAIN offer' = Players /\ DOMAIN cash' = Players /\ DOMAIN terms' = Players
      /\ online' \subseteq online
  BY <1>1 DEF IInv, Shaped, GoneAreClosed
<1>4. QED BY <1>2, <1>3, ClosingIInv

LEMMA NextIInv == IInv /\ [Next]_vars => IInv'
<1> SUFFICES ASSUME IInv, [Next]_vars PROVE IInv'
  OBVIOUS
<1> USE DEF goods, flags, table, clients
<1>1. ASSUME NEW p \in Players, NEW q \in Players,
             TradeOffer(p, q) \/ \E yes \in BOOLEAN : AnswerOffer(q, p, yes)
      PROVE  IInv'
  <2>1. UNCHANGED <<online, trading, confirmed, offer, cash, with, terms>>
    BY <1>1 DEF TradeOffer, AnswerOffer
  <2>2. accepting' \in [Players -> Players \cup {NoPlayer}]
    BY <1>1 DEF TradeOffer, AnswerOffer, IInv, Shaped
  <2>3. QED BY <2>1, <2>2, QuietIInv DEF IInv, Shaped
<1>2. CASE \E p \in Players : GainMoney(p) \/ SpendMoney(p) \/ SavePlayer(p) \/ Login(p)
  <2>1. /\ UNCHANGED <<trading, confirmed, offer, cash, with, terms, accepting>>
        /\ online \subseteq online' /\ online' \subseteq Players
    BY <1>2 DEF GainMoney, SpendMoney, SavePlayer, Login, IInv, Shaped
  <2>2. accepting' \in [Players -> Players \cup {NoPlayer}]
    BY <2>1 DEF IInv, Shaped
  <2>3. QED BY <2>1, <2>2, QuietIInv
<1>3. CASE \E p \in Players : \/ \E k \in Items : GainItem(p, k)
                              \/ \E n \in Slots : LoseItem(p, n)
                              \/ \E m, n \in Slots : MoveItem(p, m, n)
  <2>1. UNCHANGED <<online, trading, confirmed, offer, cash, with, terms, accepting>>
    BY <1>3 DEF GainItem, LoseItem, MoveItem
  <2>2. /\ online' \subseteq Players
        /\ accepting' \in [Players -> Players \cup {NoPlayer}]
    BY <2>1 DEF IInv, Shaped
  <2>3. QED BY <2>1, <2>2, QuietIInv
<1>4. CASE UNCHANGED vars
  BY <1>4, QuietIInv DEF vars, IInv, Shaped
<1>5. CASE (\E p \in Players : Logout(p)) \/ Crash
  BY <1>5, FreedIInv DEF Logout, Crash
<1>6. CASE TradeNext
  <2> SUFFICES ASSUME ~ \E p, q \in Players : TradeOffer(p, q) \/ \E yes \in BOOLEAN : AnswerOffer(q, p, yes)
               PROVE  IInv'
    BY <1>1
  <2>1. PICK p \in Players :
          \/ TradeOfferAccept(p) \/ TradeConfirm(p) \/ TradeConfirmCancel(p)
          \/ \E i \in TradeSlots, n \in Slots : TradeRegisterItem(p, i, n)
          \/ \E i \in TradeSlots : TradeUnregisterItem(p, i)
          \/ \E n \in 0..MaxMoney : TradeRegisterCash(p, n)
    BY <1>6, Zenon DEF TradeNext
  <2>2. QED BY <2>1, AcceptIInv, ConfirmIInv, CancelIInv, RegisterIInv
<1>7. QED BY <1>2, <1>3, <1>4, <1>5, <1>6 DEF Next, LifeNext

-----------------------------------------------------------------------------

\* The inductive invariant.
THEOREM WindowsAreInvariant == Spec => []IInv
BY InitIInv, NextIInv, PTL DEF Spec

\* tradeConfirm() exchanges what both sides saw when they confirmed: whoever
\* changes the table undoes both confirmations, whatever overtakes what.
THEOREM ConfirmedTermsAlwaysStand == Spec => []ConfirmedTermsStand
<1>1. IInv => ConfirmedTermsStand
  BY DEF IInv
<1>2. QED BY <1>1, WindowsAreInvariant, PTL

-----------------------------------------------------------------------------
(* Counting.  What is told apart by where it is is counted place by place. *)

\* Every non-empty set of naturals has a least element, which is all the
\* induction that the exchange needs.
LEMMA LeastExists ==
  ASSUME NEW T \in SUBSET Nat, T # {}
  PROVE  \E n \in T : \A m \in T : ~ (m < n)
<1>1. PICK n \in T : \A m \in T : ~ (<<m, n>> \in OpToRel(<, Nat))
  BY NatLessThanWellFounded, WFMin
<1>2. \A m \in T : m < n => <<m, n>> \in OpToRel(<, Nat)
  BY DEF OpToRel
<1>3. QED BY <1>1, <1>2

LEMMA NaturalsInduct ==
  ASSUME NEW S \in SUBSET Nat, 0 \in S, \A n \in S : n + 1 \in S
  PROVE  S = Nat
<1>1. SUFFICES ASSUME Nat \ S # {} PROVE FALSE
  OBVIOUS
<1>2. PICK n \in Nat \ S : \A m \in Nat \ S : ~ (m < n)
  BY <1>1, LeastExists
<1>3. n # 0 /\ n - 1 \in Nat /\ n - 1 < n
  BY <1>2
<1>4. n - 1 \in S
  BY <1>2, <1>3
<1>5. QED BY <1>2, <1>4

\* A finite family of finite sets.
Family(f, D) == DOMAIN f = D /\ IsFiniteSet(D) /\ \A x \in D : IsFiniteSet(f[x])

LEMMA TogetherFinite ==
  ASSUME NEW f, NEW D, Family(f, D)
  PROVE  IsFiniteSet(Together(f)) /\ Cardinality(Together(f)) \in Nat
<1> DEFINE g == [x \in D |-> {x} \X f[x]]
           S == {{x} \X f[x] : x \in D}
<1>1. g \in Surjection(D, S)
  BY DEF Surjection
<1>2. IsFiniteSet(S)
  BY <1>1, FS_Surjection DEF Family
<1>3. \A T \in S : IsFiniteSet(T)
  <2>1. ASSUME NEW x \in D PROVE IsFiniteSet({x} \X f[x])
    <3>1. IsFiniteSet({x}) /\ IsFiniteSet(f[x])
      BY FS_Singleton DEF Family
    <3>2. QED BY <3>1, FS_Product
  <2>2. QED BY <2>1
<1>4. Together(f) = UNION S
  BY DEF Together, Family
<1>5. QED BY <1>2, <1>3, <1>4, FS_UNION, FS_CardinalityType

\* All but what is at x.
Elsewhere(f, x) == {y \in Together(f) : y[1] # x}

LEMMA TogetherSplits ==
  ASSUME NEW f, NEW D, Family(f, D), NEW x \in D
  PROVE  /\ IsFiniteSet(Elsewhere(f, x)) /\ Cardinality(Elsewhere(f, x)) \in Nat
         /\ Cardinality(f[x]) \in Nat
         /\ Cardinality(Together(f)) = Cardinality(Elsewhere(f, x)) + Cardinality(f[x])
<1> DEFINE X == {x} \X f[x]
           E == Elsewhere(f, x)
<1>1. IsFiniteSet(f[x]) /\ Cardinality(f[x]) \in Nat
  BY FS_CardinalityType DEF Family
<1>2. IsFiniteSet(X) /\ Cardinality(X) = Cardinality(f[x])
  <2>1. IsFiniteSet({x}) /\ Cardinality({x}) = 1
    BY FS_Singleton
  <2>2. IsFiniteSet(X) /\ Cardinality(X) = Cardinality({x}) * Cardinality(f[x])
    BY <1>1, <2>1, FS_Product
  <2>3. QED BY <1>1, <2>1, <2>2
<1>3. IsFiniteSet(E) /\ Cardinality(E) \in Nat
  <2>1. E \in SUBSET Together(f)
    BY DEF Elsewhere
  <2>2. QED BY <2>1, TogetherFinite, FS_Subset, FS_CardinalityType
<1>4. Together(f) = E \cup X /\ E \cap X = {}
  <2>1. X \subseteq Together(f)
    BY DEF Together, Family
  <2>2. ASSUME NEW y \in Together(f), y \notin E PROVE y \in X
    <3>1. PICK z \in D : y \in {z} \X f[z]
      BY DEF Together, Family
    <3>2. y[1] = z
      BY <3>1
    <3>3. z = x
      BY <2>2, <3>2 DEF Elsewhere
    <3>4. QED BY <3>1, <3>3
  <2>3. \A y \in X : y[1] = x
    OBVIOUS
  <2>4. E \subseteq Together(f) /\ \A y \in E : y[1] # x
    BY DEF Elsewhere
  <2> HIDE DEF E, X
  <2>5. QED BY <2>1, <2>2, <2>3, <2>4
<1>5. Cardinality(E \cap X) = 0
  BY <1>4, FS_EmptySet
<1> HIDE DEF E, X
<1>6. Cardinality(E \cup X) = Cardinality(E) + Cardinality(X) - 0
  BY <1>2, <1>3, <1>5, FS_Union
<1>7. QED BY <1>1, <1>2, <1>3, <1>4, <1>6 DEF E

\* Only what is at x changes.
LEMMA OneChanges ==
  ASSUME NEW f, NEW g, NEW D, Family(f, D), Family(g, D), NEW x \in D,
         \A y \in D \ {x} : g[y] = f[y]
  PROVE  /\ Cardinality(f[x]) \in Nat /\ Cardinality(g[x]) \in Nat
         /\ Cardinality(Together(f)) \in Nat /\ Cardinality(Together(g)) \in Nat
         /\ Cardinality(f[x]) <= Cardinality(Together(f))
         /\ Cardinality(Together(g)) + Cardinality(f[x])
              = Cardinality(Together(f)) + Cardinality(g[x])
<1>1. Elsewhere(f, x) = Elsewhere(g, x)
  <2>1. ASSUME NEW y PROVE y \in Elsewhere(f, x) <=> y \in Elsewhere(g, x)
    <3>1. y \in Elsewhere(f, x) <=> \E z \in D \ {x} : y \in {z} \X f[z]
      BY DEF Elsewhere, Together, Family
    <3>2. y \in Elsewhere(g, x) <=> \E z \in D \ {x} : y \in {z} \X g[z]
      BY DEF Elsewhere, Together, Family
    <3>3. QED BY <3>1, <3>2
  <2>2. QED BY <2>1
<1>2. QED BY <1>1, TogetherSplits

-----------------------------------------------------------------------------
(* Bags.                                                                   *)

\* Stacks of any height, and offers of them.
Heap == {Nothing} \cup [kind : Items, count : Nat \ {0}]
Bag == [Slots -> Heap]
Listing == {NoOffer} \cup [slot : Slots, kind : Items, count : Nat \ {0}]

Of(s, k) == IF s.kind = k THEN s.count ELSE 0
CountIn(bag, k) == Cardinality(ItemsIn(bag, k))
Piles(bag, k) == [n \in Slots |-> IF bag[n].kind = k THEN 1..bag[n].count ELSE {}]

LEMMA HeapFacts ==
  ASSUME NEW s \in Heap \cup Listing
  PROVE  s.count \in Nat /\ \A k \in Items : Of(s, k) \in Nat
BY DEF Heap, Listing, Nothing, NoOffer, Of

LEMMA UpToCounts ==
  ASSUME NEW n \in Nat
  PROVE  IsFiniteSet(1..n) /\ Cardinality(1..n) = n
<1>1. 1 \in Int /\ n \in Int /\ (IF 1 > n THEN 0 ELSE n - 1 + 1) = n
  OBVIOUS
<1>2. IsFiniteSet(1..n) /\ Cardinality(1..n) = IF 1 > n THEN 0 ELSE n - 1 + 1
  BY <1>1, FS_Interval, Zenon
<1>3. QED BY <1>1, <1>2

LEMMA PilesFamily ==
  ASSUME NEW bag \in Bag, NEW k \in Items
  PROVE  /\ Family(Piles(bag, k), Slots)
         /\ \A n \in Slots : Cardinality(Piles(bag, k)[n]) = Of(bag[n], k)
<1>1. IsFiniteSet(Slots)
  BY SizesAreNatural, FS_Interval DEF Slots
<1>2. ASSUME NEW n \in Slots
      PROVE  /\ IsFiniteSet(Piles(bag, k)[n])
             /\ Cardinality(Piles(bag, k)[n]) = Of(bag[n], k)
  <2>1. bag[n].count \in Nat
    BY HeapFacts DEF Bag
  <2>2. /\ IsFiniteSet(1..bag[n].count)
        /\ Cardinality(1..bag[n].count) = bag[n].count
    BY <2>1, UpToCounts
  <2>3. QED BY <2>2, FS_EmptySet DEF Piles, Of
<1>3. QED BY <1>1, <1>2 DEF Family, Piles

LEMMA ItemsInPiles ==
  ASSUME NEW bag \in Bag, NEW k \in Items
  PROVE  ItemsIn(bag, k) = Together(Piles(bag, k))
BY DEF ItemsIn, Piles

\* One slot changes.
LEMMA SlotChanges ==
  ASSUME NEW bag \in Bag, NEW new \in Bag, NEW n \in Slots, NEW k \in Items,
         \A m \in Slots \ {n} : new[m] = bag[m]
  PROVE  /\ CountIn(bag, k) \in Nat /\ CountIn(new, k) \in Nat
         /\ Of(bag[n], k) \in Nat /\ Of(new[n], k) \in Nat
         /\ CountIn(new, k) + Of(bag[n], k) = CountIn(bag, k) + Of(new[n], k)
<1>1. \A m \in Slots \ {n} : Piles(new, k)[m] = Piles(bag, k)[m]
  BY DEF Piles
<1>2. /\ Cardinality(Piles(bag, k)[n]) \in Nat /\ Cardinality(Piles(new, k)[n]) \in Nat
      /\ Cardinality(Together(Piles(bag, k))) \in Nat
      /\ Cardinality(Together(Piles(new, k))) \in Nat
      /\ Cardinality(Together(Piles(new, k))) + Cardinality(Piles(bag, k)[n])
           = Cardinality(Together(Piles(bag, k))) + Cardinality(Piles(new, k)[n])
  BY <1>1, PilesFamily, OneChanges
<1>3. QED BY <1>2, PilesFamily, ItemsInPiles DEF CountIn

LEMMA BagCounts ==
  ASSUME NEW bag \in Bag, NEW k \in Items
  PROVE  /\ IsFiniteSet(ItemsIn(bag, k)) /\ CountIn(bag, k) \in Nat
         /\ \A n \in Slots : Of(bag[n], k) <= CountIn(bag, k)
<1>1. IsFiniteSet(Together(Piles(bag, k))) /\ Cardinality(Together(Piles(bag, k))) \in Nat
  BY PilesFamily, TogetherFinite
<1>2. \A n \in Slots : Cardinality(Piles(bag, k)[n]) <= Cardinality(Together(Piles(bag, k)))
  BY PilesFamily, OneChanges
<1>3. QED BY <1>1, <1>2, PilesFamily, ItemsInPiles DEF CountIn

\* What is taken out was there, what is put in is added.
LEMMA TakeOutCounts ==
  ASSUME NEW bag \in Bag, NEW o \in Listing, TakeOut(bag, o) # Failed, NEW k \in Items
  PROVE  /\ bag # Failed /\ TakeOut(bag, o) \in Bag
         /\ CountIn(TakeOut(bag, o), k) + Of(o, k) = CountIn(bag, k)
<1> DEFINE new == TakeOut(bag, o)
<1>1. bag # Failed
  BY DEF TakeOut
<1>2. CASE o = NoOffer
  <2>1. new = bag /\ Of(o, k) = 0
    BY <1>2 DEF TakeOut, Of, NoOffer
  <2>2. QED BY <1>1, <2>1, BagCounts
<1>3. CASE o # NoOffer
  <2> DEFINE s == bag[o.slot]
             t == Less(s, o.count)
  <2>1. o.slot \in Slots /\ o.kind \in Items /\ o.count \in Nat \ {0}
    BY <1>3 DEF Listing
  <2>2. s.kind = o.kind /\ o.count <= s.count /\ new = [bag EXCEPT ![o.slot] = t]
    <3>1. ~ (s.kind # o.kind \/ s.count < o.count)
      BY <1>1, <1>3 DEF TakeOut
    <3>2. s \in Heap /\ s.count \in Nat
      BY <2>1, HeapFacts DEF Bag
    <3>4. new = [bag EXCEPT ![o.slot] = t]
      BY <1>1, <1>3, <3>1 DEF TakeOut
    <3>5. o.count <= s.count
      BY <2>1, <3>1, <3>2
    <3>6. QED BY <3>1, <3>4, <3>5
  <2>3. s \in [kind : Items, count : Nat \ {0}]
    BY <2>1, <2>2, SizesAreNatural DEF Bag, Heap, Nothing
  <2>4. t \in Heap /\ Of(s, k) = Of(t, k) + Of(o, k) /\ Of(o, k) \in Nat
    <3> HIDE DEF s
    <3>1. CASE s.count = o.count
      BY <2>1, <2>2, <2>3, <3>1, SizesAreNatural DEF Less, Heap, Of, Nothing
    <3>2. CASE s.count # o.count
      <4>1. /\ t = [s EXCEPT !.count = @ - o.count]
            /\ s.count - o.count \in Nat \ {0}
        BY <2>1, <2>2, <2>3, <3>2 DEF Less
      <4>2. /\ t \in [kind : Items, count : Nat \ {0}]
            /\ t.kind = s.kind /\ t.count = s.count - o.count
        BY <2>3, <4>1
      <4>3. QED BY <2>1, <2>2, <2>3, <4>2 DEF Heap, Of
    <3>3. QED BY <3>1, <3>2
  <2> HIDE DEF t, new
  <2>5. new \in Bag /\ new[o.slot] = t /\ \A m \in Slots \ {o.slot} : new[m] = bag[m]
    BY <2>1, <2>2, <2>4 DEF Bag
  <2>6. /\ CountIn(bag, k) \in Nat /\ CountIn(new, k) \in Nat
        /\ Of(s, k) \in Nat /\ Of(t, k) \in Nat
        /\ CountIn(new, k) + Of(s, k) = CountIn(bag, k) + Of(t, k)
    BY <2>1, <2>5, SlotChanges
  <2>7. CountIn(new, k) + Of(o, k) = CountIn(bag, k)
    BY <2>4, <2>6
  <2>8. QED BY <1>1, <2>5, <2>7 DEF new
<1>4. QED BY <1>2, <1>3

LEMMA PutInCounts ==
  ASSUME NEW bag \in Bag, NEW o \in Listing, PutIn(bag, o) # Failed, NEW k \in Items
  PROVE  /\ bag # Failed /\ PutIn(bag, o) \in Bag
         /\ CountIn(PutIn(bag, o), k) = CountIn(bag, k) + Of(o, k)
<1> DEFINE new == PutIn(bag, o)
<1>1. bag # Failed
  BY DEF PutIn
<1>2. CASE o = NoOffer
  <2>1. new = bag /\ Of(o, k) = 0
    BY <1>2 DEF PutIn, Of, NoOffer
  <2>2. QED BY <1>1, <2>1, BagCounts
<1>3. CASE o # NoOffer
  <2> DEFINE free == {n \in Slots : bag[n] = Nothing}
             n == CHOOSE n \in free : \A m \in free : n <= m
             t == [kind |-> o.kind, count |-> o.count]
  <2>1. free # {} /\ new = [bag EXCEPT ![n] = t]
    BY <1>1, <1>3 DEF PutIn
  <2>2. free \in SUBSET Nat
    BY SizesAreNatural DEF Slots
  <2>3. \E i \in free : \A m \in free : i <= m
    <3>1. PICK i \in free : \A m \in free : ~ (m < i)
      BY <2>1, <2>2, LeastExists
    <3>2. QED BY <2>2, <3>1
  <2>4. n \in free
    BY <2>3
  <2>5. t \in Heap /\ Of(t, k) = Of(o, k) /\ Of(o, k) \in Nat
    BY <1>3 DEF Listing, Heap, Of
  <2>6. Of(bag[n], k) = 0
    BY <2>4 DEF Of, Nothing
  <2> HIDE DEF n, t, new
  <2>7. n \in Slots
    BY <2>4
  <2>8. new \in Bag /\ new[n] = t /\ \A m \in Slots \ {n} : new[m] = bag[m]
    BY <2>1, <2>5, <2>7 DEF Bag
  <2>9. /\ CountIn(bag, k) \in Nat /\ CountIn(new, k) \in Nat
        /\ CountIn(new, k) + Of(bag[n], k) = CountIn(bag, k) + Of(t, k)
    BY <2>7, <2>8, SlotChanges
  <2>10. CountIn(new, k) = CountIn(bag, k) + Of(o, k)
    BY <2>5, <2>6, <2>9
  <2>11. QED BY <1>1, <2>8, <2>10 DEF new
<1>4. QED BY <1>2, <1>3

-----------------------------------------------------------------------------
(* The exchange.                                                           *)

\* The bags after each of the first n trade slots, as doTrade() goes.
Deals(f, p, q, n) ==
  f = [i \in 0..n |-> IF i = 0 THEN [p |-> inv[p], q |-> inv[q]]
                      ELSE Exchange(f[i - 1], offer[p][i], offer[q][i])]

LEMMA DealsExist ==
  ASSUME NEW p, NEW q
  PROVE  \A n \in Nat : \E f : Deals(f, p, q, n)
<1> DEFINE S == {n \in Nat : \E f : Deals(f, p, q, n)}
           D(f, i) == IF i = 0 THEN [p |-> inv[p], q |-> inv[q]]
                      ELSE Exchange(f[i - 1], offer[p][i], offer[q][i])
<1>1. 0 \in S
  <2> DEFINE f == [i \in 0..0 |-> [p |-> inv[p], q |-> inv[q]]]
  <2>1. Deals(f, p, q, 0)
    BY DEF Deals
  <2>2. QED BY <2>1
<1>2. ASSUME NEW n \in S PROVE n + 1 \in S
  <2>1. PICK f : Deals(f, p, q, n)
    OBVIOUS
  <2> DEFINE g == [i \in 0..(n + 1) |-> IF i = n + 1 THEN D(f, i) ELSE f[i]]
  <2>2. n \in Nat /\ \A i \in 0..n : f[i] = D(f, i)
    BY <2>1 DEF Deals
  <2>3. ASSUME NEW i \in 0..(n + 1) PROVE g[i] = D(g, i)
    <3>1. CASE i = n + 1
      BY <2>2, <3>1
    <3>2. CASE i # n + 1
      <4>1. i \in 0..n
        BY <2>2, <3>2
      <4>2. QED BY <2>2, <3>2, <4>1
    <3>3. QED BY <3>1, <3>2
  <2>4. Deals(g, p, q, n + 1)
    BY <2>3, Zenon DEF Deals
  <2>5. QED BY <2>2, <2>4
<1> HIDE DEF S
<1>3. S \in SUBSET Nat
  BY DEF S
<1>4. S = Nat
  BY <1>1, <1>2, <1>3, NaturalsInduct
<1>5. QED BY <1>4 DEF S

LEMMA DoTradeDeals ==
  ASSUME NEW p, NEW q
  PROVE  \E f : Deals(f, p, q, NTrade) /\ DoTrade(p, q) = f[NTrade]
<1>1. PICK f : Deals(f, p, q, NTrade)
  BY DealsExist, SizesAreNatural
<1>2. QED BY <1>1 DEF Deals, DoTrade

\* Two bags hold together what two others do.
SameTotal(a, b, c, d) ==
  \A k \in Items : CountIn(a, k) + CountIn(b, k) = CountIn(c, k) + CountIn(d, k)

LEMMA ExchangeIsFair ==
  ASSUME NEW a \in Bag, NEW b \in Bag, NEW o \in Listing, NEW u \in Listing,
         LET d == Exchange([p |-> a, q |-> b], o, u) IN d.p # Failed /\ d.q # Failed
  PROVE  LET d == Exchange([p |-> a, q |-> b], o, u)
         IN d.p \in Bag /\ d.q \in Bag /\ SameTotal(d.p, d.q, a, b)
<1> DEFINE a1 == TakeOut(a, o)
           b1 == TakeOut(b, u)
           a2 == PutIn(a1, u)
           b2 == PutIn(b1, o)
<1>1. Exchange([p |-> a, q |-> b], o, u) = [p |-> a2, q |-> b2]
  BY DEF Exchange
<1>2. a2 # Failed /\ b2 # Failed
  BY <1>1
<1>3. a1 # Failed /\ b1 # Failed
  BY <1>2 DEF PutIn
<1> HIDE DEF a2, b2
<1>4. ASSUME NEW k \in Items
      PROVE  /\ a2 \in Bag /\ b2 \in Bag
             /\ CountIn(a2, k) + CountIn(b2, k) = CountIn(a, k) + CountIn(b, k)
  <2>1. a1 \in Bag /\ CountIn(a1, k) + Of(o, k) = CountIn(a, k)
    BY <1>3, TakeOutCounts
  <2>2. b1 \in Bag /\ CountIn(b1, k) + Of(u, k) = CountIn(b, k)
    BY <1>3, TakeOutCounts
  <2> HIDE DEF a1, b1
  <2>3. a2 \in Bag /\ CountIn(a2, k) = CountIn(a1, k) + Of(u, k)
    BY <1>2, <2>1, PutInCounts DEF a2
  <2>4. b2 \in Bag /\ CountIn(b2, k) = CountIn(b1, k) + Of(o, k)
    BY <1>2, <2>2, PutInCounts DEF b2
  <2>5. /\ CountIn(a, k) \in Nat /\ CountIn(b, k) \in Nat /\ CountIn(a1, k) \in Nat
        /\ CountIn(b1, k) \in Nat /\ Of(o, k) \in Nat /\ Of(u, k) \in Nat
    BY <2>1, <2>2, BagCounts, HeapFacts
  <2>6. QED BY <2>1, <2>2, <2>3, <2>4, <2>5
<1>5. a2 \in Bag /\ b2 \in Bag
  <2>1. CASE Items # {}
    BY <1>4, <2>1
  <2>2. CASE Items = {}
    <3>1. o = NoOffer /\ u = NoOffer
      BY <2>2 DEF Listing
    <3>2. QED BY <1>2, <3>1 DEF a2, b2, TakeOut, PutIn
  <2>3. QED BY <2>1, <2>2
<1>6. QED BY <1>1, <1>4, <1>5 DEF SameTotal

\* An exchange that does not fail gives both what the other had, and takes
\* it away from the other.
LEMMA DoTradeIsFair ==
  ASSUME NEW p, NEW q, inv[p] \in Bag, inv[q] \in Bag,
         offer[p] \in [TradeSlots -> Listing], offer[q] \in [TradeSlots -> Listing],
         DoTrade(p, q).p # Failed, DoTrade(p, q).q # Failed
  PROVE  /\ DoTrade(p, q).p \in Bag /\ DoTrade(p, q).q \in Bag
         /\ SameTotal(DoTrade(p, q).p, DoTrade(p, q).q, inv[p], inv[q])
<1>1. PICK f : Deals(f, p, q, NTrade) /\ DoTrade(p, q) = f[NTrade]
  BY DoTradeDeals
<1> DEFINE Good(n) == f[n].p # Failed /\ f[n].q # Failed
           Fair(n) == /\ f[n] = [p |-> f[n].p, q |-> f[n].q]
                      /\ f[n].p \in Bag /\ f[n].q \in Bag
                      /\ SameTotal(f[n].p, f[n].q, inv[p], inv[q])
           S == {n \in Nat : n <= NTrade /\ Good(n) => Fair(n)}
<1>2. NTrade \in Nat
  BY SizesAreNatural
<1>3. 0 \in S
  <2>1. f[0] = [p |-> inv[p], q |-> inv[q]]
    BY <1>1, <1>2 DEF Deals
  <2>2. SameTotal(inv[p], inv[q], inv[p], inv[q])
    BY DEF SameTotal
  <2>3. QED BY <2>1, <2>2
<1>4. ASSUME NEW n \in S PROVE n + 1 \in S
  <2>1. SUFFICES ASSUME n + 1 <= NTrade, Good(n + 1) PROVE Fair(n + 1)
    OBVIOUS
  <2>2. n \in Nat /\ n + 1 \in 0..NTrade /\ n + 1 \in TradeSlots /\ n + 1 # 0
    BY <1>2, <2>1 DEF TradeSlots
  <2> DEFINE o == offer[p][n + 1]
             u == offer[q][n + 1]
  <2>3. f[n + 1] = Exchange(f[n], o, u)
    <3>1. f[n + 1] = Exchange(f[(n + 1) - 1], o, u)
      BY <1>1, <2>2 DEF Deals
    <3>2. (n + 1) - 1 = n
      BY <2>2
    <3>3. QED BY <3>1, <3>2
  <2>4. o \in Listing /\ u \in Listing
    BY <2>2
  <2>5. Good(n)
    <3>1. PutIn(TakeOut(f[n].p, o), u) # Failed /\ PutIn(TakeOut(f[n].q, u), o) # Failed
      BY <2>1, <2>3 DEF Exchange
    <3>2. QED BY <3>1 DEF PutIn, TakeOut
  <2>6. Fair(n)
    BY <1>2, <2>1, <2>2, <2>5
  <2> HIDE DEF o, u
  <2>7. f[n + 1] = Exchange([p |-> f[n].p, q |-> f[n].q], o, u)
    BY <2>3, <2>6
  <2>8. /\ f[n + 1].p \in Bag /\ f[n + 1].q \in Bag
        /\ SameTotal(f[n + 1].p, f[n + 1].q, f[n].p, f[n].q)
    BY <2>1, <2>4, <2>6, <2>7, ExchangeIsFair
  <2>9. SameTotal(f[n + 1].p, f[n + 1].q, inv[p], inv[q])
    BY <2>6, <2>8 DEF SameTotal
  <2>10. f[n + 1] = [p |-> f[n + 1].p, q |-> f[n + 1].q]
    BY <2>3 DEF Exchange
  <2>11. QED BY <2>8, <2>9, <2>10
<1> HIDE DEF S
<1>5. S \in SUBSET Nat
  BY DEF S
<1>6. S = Nat
  BY <1>3, <1>4, <1>5, NaturalsInduct
<1>7. NTrade \in S
  BY <1>2, <1>6
<1>8. QED BY <1>1, <1>2, <1>7 DEF S

-----------------------------------------------------------------------------
(* What all players have together.                                         *)

Pockets == [Players -> [inv : Bag, money : Nat]]

LEMMA SomeGrows ==
  ASSUME NEW f, NEW g, NEW D, Family(f, D), Family(g, D), NEW x \in D, NEW n \in Nat,
         \A z \in D \ {x} : g[z] = f[z],
         Cardinality(g[x]) <= Cardinality(f[x]) + n
  PROVE  Cardinality(Together(g)) <= Cardinality(Together(f)) + n
<1>1. /\ Cardinality(f[x]) \in Nat /\ Cardinality(g[x]) \in Nat
      /\ Cardinality(Together(f)) \in Nat /\ Cardinality(Together(g)) \in Nat
      /\ Cardinality(Together(g)) + Cardinality(f[x])
           = Cardinality(Together(f)) + Cardinality(g[x])
  BY OneChanges
<1>2. QED BY <1>1

LEMMA TwoShare ==
  ASSUME NEW f, NEW g, NEW D, Family(f, D), Family(g, D), NEW x \in D, NEW y \in D, x # y,
         NEW n \in Nat, \A z \in D \ {x, y} : g[z] = f[z],
         Cardinality(g[x]) + Cardinality(g[y]) <= Cardinality(f[x]) + Cardinality(f[y]) + n
  PROVE  Cardinality(Together(g)) <= Cardinality(Together(f)) + n
<1> DEFINE h == [z \in D |-> IF z = x THEN g[x] ELSE f[z]]
<1>1. /\ Family(h, D) /\ h[x] = g[x] /\ h[y] = f[y]
      /\ \A z \in D \ {x} : h[z] = f[z]
      /\ \A z \in D \ {y} : g[z] = h[z]
  BY DEF Family
<1> HIDE DEF h
<1>2. /\ Cardinality(f[x]) \in Nat /\ Cardinality(h[x]) \in Nat
      /\ Cardinality(Together(f)) \in Nat /\ Cardinality(Together(h)) \in Nat
      /\ Cardinality(Together(h)) + Cardinality(f[x])
           = Cardinality(Together(f)) + Cardinality(h[x])
  BY <1>1, OneChanges
<1>3. /\ Cardinality(h[y]) \in Nat /\ Cardinality(g[y]) \in Nat
      /\ Cardinality(Together(g)) \in Nat
      /\ Cardinality(Together(g)) + Cardinality(h[y])
           = Cardinality(Together(h)) + Cardinality(g[y])
  BY <1>1, OneChanges
<1>4. QED BY <1>1, <1>2, <1>3

ItemShares(have, k) == [p \in Players |-> ItemsIn(have[p].inv, k)]
TaroShares(have) == [p \in Players |-> 1..have[p].money]

LEMMA SharesFamilies ==
  ASSUME NEW have \in Pockets
  PROVE  /\ \A k \in Items :
              /\ Family(ItemShares(have, k), Players)
              /\ AllItems(have, k) = Together(ItemShares(have, k))
              /\ \A p \in Players : Cardinality(ItemShares(have, k)[p]) = CountIn(have[p].inv, k)
         /\ Family(TaroShares(have), Players)
         /\ AllTaros(have) = Together(TaroShares(have))
         /\ \A p \in Players : Cardinality(TaroShares(have)[p]) = have[p].money
<1>1. \A p \in Players : have[p].inv \in Bag /\ have[p].money \in Nat
  BY DEF Pockets
<1>2. ASSUME NEW k \in Items
      PROVE  /\ Family(ItemShares(have, k), Players)
             /\ AllItems(have, k) = Together(ItemShares(have, k))
             /\ \A p \in Players : Cardinality(ItemShares(have, k)[p]) = CountIn(have[p].inv, k)
  BY <1>1, BagCounts, PlayersAreFinite DEF Family, ItemShares, AllItems, CountIn
<1>3. /\ Family(TaroShares(have), Players)
      /\ AllTaros(have) = Together(TaroShares(have))
      /\ \A p \in Players : Cardinality(TaroShares(have)[p]) = have[p].money
  BY <1>1, UpToCounts, PlayersAreFinite DEF Family, TaroShares, AllTaros
<1>4. QED BY <1>2, <1>3

\* One player gets something.
LEMMA OnePocket ==
  ASSUME NEW have \in Pockets, NEW new \in Pockets, NEW p \in Players, NEW n \in Nat,
         \A r \in Players \ {p} : new[r] = have[r]
  PROVE  /\ \A k \in Items : CountIn(new[p].inv, k) <= CountIn(have[p].inv, k) + n =>
              Cardinality(AllItems(new, k)) <= Cardinality(AllItems(have, k)) + n
         /\ new[p].money <= have[p].money + n =>
              Cardinality(AllTaros(new)) <= Cardinality(AllTaros(have)) + n
<1>1. ASSUME NEW k \in Items, CountIn(new[p].inv, k) <= CountIn(have[p].inv, k) + n
      PROVE  Cardinality(AllItems(new, k)) <= Cardinality(AllItems(have, k)) + n
  <2>1. \A r \in Players \ {p} : ItemShares(new, k)[r] = ItemShares(have, k)[r]
    BY DEF ItemShares
  <2>2. QED BY <1>1, <2>1, SharesFamilies, SomeGrows
<1>2. ASSUME new[p].money <= have[p].money + n
      PROVE  Cardinality(AllTaros(new)) <= Cardinality(AllTaros(have)) + n
  <2>1. \A r \in Players \ {p} : TaroShares(new)[r] = TaroShares(have)[r]
    BY DEF TaroShares
  <2>2. QED BY <1>2, <2>1, SharesFamilies, SomeGrows
<1>3. QED BY <1>1, <1>2

\* Two players share differently.
LEMMA TwoPockets ==
  ASSUME NEW have \in Pockets, NEW new \in Pockets, NEW p \in Players, NEW q \in Players, p # q,
         NEW n \in Nat, \A r \in Players \ {p, q} : new[r] = have[r]
  PROVE  /\ \A k \in Items :
              CountIn(new[p].inv, k) + CountIn(new[q].inv, k)
                <= CountIn(have[p].inv, k) + CountIn(have[q].inv, k) + n =>
              Cardinality(AllItems(new, k)) <= Cardinality(AllItems(have, k)) + n
         /\ new[p].money + new[q].money <= have[p].money + have[q].money + n =>
              Cardinality(AllTaros(new)) <= Cardinality(AllTaros(have)) + n
<1>1. ASSUME NEW k \in Items,
             CountIn(new[p].inv, k) + CountIn(new[q].inv, k)
               <= CountIn(have[p].inv, k) + CountIn(have[q].inv, k) + n
      PROVE  Cardinality(AllItems(new, k)) <= Cardinality(AllItems(have, k)) + n
  <2>1. \A r \in Players \ {p, q} : ItemShares(new, k)[r] = ItemShares(have, k)[r]
    BY DEF ItemShares
  <2>2. QED BY <1>1, <2>1, SharesFamilies, TwoShare
<1>2. ASSUME new[p].money + new[q].money <= have[p].money + have[q].money + n
      PROVE  Cardinality(AllTaros(new)) <= Cardinality(AllTaros(have)) + n
  <2>1. \A r \in Players \ {p, q} : TaroShares(new)[r] = TaroShares(have)[r]
    BY DEF TaroShares
  <2>2. QED BY <1>2, <2>1, SharesFamilies, TwoShare
<1>3. QED BY <1>1, <1>2

-----------------------------------------------------------------------------
(* The invariant of the goods.                                             *)

\* The type, with stacks of any height.
Makings == [items : [Items -> Nat], money : 0..MadeMoney, forged : Nat]
Stocked ==
  /\ inv \in [Players -> Bag] /\ money \in [Players -> 0..MaxMoney]
  /\ offer \in [Players -> [TradeSlots -> Offer]] /\ cash \in [Players -> 0..MaxMoney]
  /\ saved \in [Players -> [inv : Bag, money : 0..MaxMoney]]
  /\ asked \in [Players -> SUBSET Players]
  /\ made \in Makings
  /\ \A k \in Items : made.items[k] <= MadeItems[k]

\* Who is offline neither trades nor has anything in memory.
GoneAreIdle == \A p \in Players \ online : ~ trading[p] /\ inv[p] = NoBag

\* Nobody trades with itself.
NotAlone == \A p \in Players : with[p] # p /\ accepting[p] # p /\ p \notin asked[p]

\* What a crash can leave when the players of S are saved before, the others
\* not.  However it comes, there is no more than was handed out or forged.
Have(S) == [p \in Players |-> IF p \in S THEN Owned(p) ELSE saved[p]]
Within(have) == NoMoreItems(have) /\ NoMoreTaros(have)
Bounded == \A S \in SUBSET Players : Within(Have(S))

Honest == Stocked /\ GoneAreIdle /\ NotAlone /\ Bounded

LEMMA HaveIsPockets ==
  ASSUME Stocked, NEW S \in SUBSET Players
  PROVE  Have(S) \in Pockets
<1>1. ASSUME NEW p \in Players PROVE Have(S)[p] \in [inv : Bag, money : Nat]
  <2>1. inv[p] \in Bag /\ money[p] \in Nat
    BY SizesAreNatural DEF Stocked
  <2>2. saved[p] \in [inv : Bag, money : Nat]
    BY SizesAreNatural DEF Stocked
  <2>3. QED BY <2>1, <2>2 DEF Have, Owned, Pocket
<1>2. QED BY <1>1 DEF Have, Pockets

LEMMA HaveIsPocketsThen ==
  ASSUME Stocked', NEW S \in SUBSET Players
  PROVE  Have(S)' \in Pockets
<1>1. ASSUME NEW p \in Players PROVE Have(S)'[p] \in [inv : Bag, money : Nat]
  <2>1. inv'[p] \in Bag /\ money'[p] \in Nat
    BY SizesAreNatural DEF Stocked
  <2>2. saved'[p] \in [inv : Bag, money : Nat]
    BY SizesAreNatural DEF Stocked
  <2>3. QED BY <2>1, <2>2 DEF Have, Owned, Pocket
<1>2. QED BY <1>1 DEF Have, Pockets

LEMMA InitHonest == Init => Honest
<1> SUFFICES ASSUME Init PROVE Honest
  OBVIOUS
<1>1. NoBag \in Bag
  BY DEF NoBag, Bag, Heap
<1>2. NoOffers \in [TradeSlots -> Offer]
  BY DEF NoOffers, Offer
<1>3. Stocked
  BY <1>1, <1>2, SizesAreNatural DEF Init, Stocked, Makings
<1>4. GoneAreIdle /\ NotAlone
  BY SizesAreNatural DEF Init, GoneAreIdle, NotAlone
<1>5. ASSUME NEW S \in SUBSET Players PROVE Within(Have(S))
  <2>1. \A p \in Players : Have(S)[p].inv = NoBag /\ Have(S)[p].money = 0
    BY DEF Init, Have, Owned, Pocket
  <2>2. ASSUME NEW k \in Items PROVE ItemsIn(NoBag, k) = {}
    <3>1. k # NoItem
      BY SizesAreNatural
    <3>2. QED BY <3>1 DEF ItemsIn, NoBag, Nothing, Together
  <2>3. \A k \in Items : AllItems(Have(S), k) = {}
    BY <2>1, <2>2 DEF AllItems, Together
  <2>4. AllTaros(Have(S)) = {}
    BY <2>1 DEF AllTaros, Together
  <2>5. made.money = 0 /\ made.forged = 0 /\ \A k \in Items : made.items[k] = 0
    BY DEF Init
  <2>6. Cardinality({}) = 0
    BY FS_EmptySet
  <2>7. QED BY <2>3, <2>4, <2>5, <2>6 DEF Within, NoMoreItems, NoMoreTaros
<1>6. QED BY <1>3, <1>4, <1>5 DEF Honest, Bounded

\* Saving, entering, leaving and crashing lead from one such mixture of
\* memory and database to another.
LEMMA MixturesStay ==
  ASSUME Bounded, made' = made,
         \A S \in SUBSET Players : \E T \in SUBSET Players : Have(S)' = Have(T)
  PROVE  Bounded'
<1>1. ASSUME NEW S \in SUBSET Players PROVE Within(Have(S))'
  <2>1. PICK T \in SUBSET Players : Have(S)' = Have(T)
    OBVIOUS
  <2>2. Within(Have(T))
    BY DEF Bounded
  <2>3. QED BY <2>1, <2>2 DEF Within, NoMoreItems, NoMoreTaros
<1>2. QED BY <1>1 DEF Bounded

\* One player gains what the game hands out, or loses something.
LEMMA OneGains ==
  ASSUME Stocked, Stocked', Bounded, NEW p \in Players, p \in online,
         UNCHANGED <<online, saved>>,
         \A r \in Players \ {p} : inv'[r] = inv[r] /\ money'[r] = money[r],
         \A k \in Items : /\ made.items[k] <= made'.items[k]
                          /\ CountIn(inv'[p], k)
                               <= CountIn(inv[p], k) + (made'.items[k] - made.items[k]),
         made'.forged = made.forged, made.money <= made'.money,
         money'[p] <= money[p] + (made'.money - made.money)
  PROVE  Bounded'
<1>1. ASSUME NEW S \in SUBSET Players PROVE Within(Have(S))'
  <2> DEFINE have == Have(S)
             new == Have(S)'
  <2>1. have \in Pockets /\ new \in Pockets
    BY HaveIsPockets, HaveIsPocketsThen
  <2>2. \A r \in Players \ {p} : new[r] = have[r]
    BY DEF Have, Owned, Pocket
  <2>3. \/ new[p] = have[p]
        \/ /\ new[p].inv = inv'[p] /\ new[p].money = money'[p]
           /\ have[p].inv = inv[p] /\ have[p].money = money[p]
    BY DEF Have, Owned, Pocket
  <2>4. Within(have)
    BY DEF Bounded
  <2>5. have[p].inv \in Bag /\ new[p].inv \in Bag /\ have[p].money \in Nat /\ new[p].money \in Nat
    BY <2>1 DEF Pockets
  <2> HIDE DEF have, new
  <2>6. ASSUME NEW k \in Items PROVE Cardinality(AllItems(new, k)) <= made'.items[k]
    <3> DEFINE n == made'.items[k] - made.items[k]
    <3>1. n \in Nat /\ made'.items[k] = made.items[k] + n /\ made.items[k] \in Nat
      BY DEF Stocked, Makings
    <3>2. CountIn(have[p].inv, k) \in Nat /\ CountIn(new[p].inv, k) \in Nat
      BY <2>5, BagCounts
    <3>3. CountIn(new[p].inv, k) <= CountIn(have[p].inv, k) + n
      BY <2>3, <3>1, <3>2
    <3> HIDE DEF n
    <3>4. Cardinality(AllItems(new, k)) <= Cardinality(AllItems(have, k)) + n
      BY <2>1, <2>2, <3>1, <3>3, OnePocket
    <3>5. Cardinality(AllItems(new, k)) \in Nat /\ Cardinality(AllItems(have, k)) \in Nat
      BY <2>1, SharesFamilies, TogetherFinite
    <3>6. QED BY <2>4, <3>1, <3>4, <3>5 DEF Within, NoMoreItems, NoMoreTaros
  <2>7. Cardinality(AllTaros(new)) <= made'.money + made'.forged
    <3> DEFINE n == made'.money - made.money
    <3>1. /\ n \in Nat /\ made'.money = made.money + n /\ made.money \in Nat
          /\ made.forged \in Nat
      BY DEF Stocked, Makings
    <3>2. new[p].money <= have[p].money + n
      BY <2>3, <2>5, <3>1
    <3> HIDE DEF n
    <3>3. Cardinality(AllTaros(new)) <= Cardinality(AllTaros(have)) + n
      BY <2>1, <2>2, <3>1, <3>2, OnePocket
    <3>4. Cardinality(AllTaros(new)) \in Nat /\ Cardinality(AllTaros(have)) \in Nat
      BY <2>1, SharesFamilies, TogetherFinite
    <3>5. QED BY <2>4, <3>1, <3>3, <3>4 DEF Within, NoMoreItems, NoMoreTaros
  <2>8. QED BY <2>6, <2>7 DEF Within, NoMoreItems, NoMoreTaros, new
<1>2. QED BY <1>1 DEF Bounded

\* Two players exchange what they have, and both are saved; n taros that one
\* of them gets come from nowhere.
LEMMA TwoExchange ==
  ASSUME Stocked, Stocked', Bounded, NEW p \in Players, NEW q \in Players, p # q,
         p \in online, q \in online, UNCHANGED online,
         made'.items = made.items, made'.money = made.money,
         NEW n \in Nat, made'.forged = made.forged + n,
         \A r \in Players \ {p, q} :
           inv'[r] = inv[r] /\ money'[r] = money[r] /\ saved'[r] = saved[r],
         saved'[p] = Pocket(p)', saved'[q] = Pocket(q)',
         SameTotal(inv'[p], inv'[q], inv[p], inv[q]),
         money'[p] + money'[q] <= money[p] + money[q] + n
  PROVE  Bounded'
<1>1. ASSUME NEW S \in SUBSET Players PROVE Within(Have(S))'
  <2> DEFINE have == Have(S \cup {p, q})
             new == Have(S)'
  <2>1. have \in Pockets /\ new \in Pockets
    BY HaveIsPockets, HaveIsPocketsThen
  <2>2. \A r \in Players \ {p, q} : new[r] = have[r]
    BY DEF Have, Owned, Pocket
  <2>3. /\ new[p].inv = inv'[p] /\ new[p].money = money'[p]
        /\ new[q].inv = inv'[q] /\ new[q].money = money'[q]
        /\ have[p].inv = inv[p] /\ have[p].money = money[p]
        /\ have[q].inv = inv[q] /\ have[q].money = money[q]
    BY DEF Have, Owned, Pocket
  <2>4. Within(have)
    BY DEF Bounded
  <2>5. /\ have[p].inv \in Bag /\ have[q].inv \in Bag
        /\ have[p].money \in Nat /\ have[q].money \in Nat
        /\ new[p].money \in Nat /\ new[q].money \in Nat
    BY <2>1 DEF Pockets
  <2> HIDE DEF have, new
  <2>6. ASSUME NEW k \in Items PROVE Cardinality(AllItems(new, k)) <= made'.items[k]
    <3>1. CountIn(have[p].inv, k) \in Nat /\ CountIn(have[q].inv, k) \in Nat
      BY <2>5, BagCounts
    <3>2. CountIn(new[p].inv, k) + CountIn(new[q].inv, k)
            <= CountIn(have[p].inv, k) + CountIn(have[q].inv, k) + 0
      BY <2>3, <3>1 DEF SameTotal
    <3>3. Cardinality(AllItems(new, k)) <= Cardinality(AllItems(have, k)) + 0
      BY <2>1, <2>2, <3>2, TwoPockets
    <3>4. Cardinality(AllItems(new, k)) \in Nat /\ Cardinality(AllItems(have, k)) \in Nat
      BY <2>1, SharesFamilies, TogetherFinite
    <3>5. made.items[k] \in Nat
      BY DEF Stocked, Makings
    <3>6. QED BY <2>4, <3>3, <3>4, <3>5 DEF Within, NoMoreItems, NoMoreTaros
  <2>7. Cardinality(AllTaros(new)) <= made'.money + made'.forged
    <3>1. new[p].money + new[q].money <= have[p].money + have[q].money + n
      BY <2>3
    <3>2. Cardinality(AllTaros(new)) <= Cardinality(AllTaros(have)) + n
      BY <2>1, <2>2, <3>1, TwoPockets
    <3>3. Cardinality(AllTaros(new)) \in Nat /\ Cardinality(AllTaros(have)) \in Nat
      BY <2>1, SharesFamilies, TogetherFinite
    <3>4. made.money \in Nat /\ made.forged \in Nat
      BY SizesAreNatural DEF Stocked, Makings
    <3>5. QED BY <2>4, <3>2, <3>3, <3>4 DEF Within, NoMoreItems, NoMoreTaros
  <2>8. QED BY <2>6, <2>7 DEF Within, NoMoreItems, NoMoreTaros, new
<1>2. QED BY <1>1 DEF Bounded

-----------------------------------------------------------------------------
(* The steps keep it.                                                      *)

\* Goods stay where they are.
LEMMA TalkHonest ==
  ASSUME Honest, UNCHANGED <<online, inv, money, saved, made>>,
         offer' \in [Players -> [TradeSlots -> Offer]], cash' \in [Players -> 0..MaxMoney],
         asked' \in [Players -> SUBSET Players],
         \A p \in Players \ online : ~ trading'[p],
         NotAlone'
  PROVE  Honest'
<1>1. Stocked' /\ GoneAreIdle'
  BY DEF Honest, Stocked, GoneAreIdle
<1>2. \A S \in SUBSET Players : Have(S)' = Have(S)
  BY DEF Have, Owned, Pocket
<1>3. Bounded'
  BY <1>2, MixturesStay DEF Honest
<1>4. QED BY <1>1, <1>3 DEF Honest

LEMMA OfferHonest ==
  ASSUME IInv, Honest, NEW p \in Players, NEW q \in Players,
         TradeOffer(p, q) \/ \E yes \in BOOLEAN : AnswerOffer(q, p, yes)
  PROVE  Honest'
<1>1. UNCHANGED <<online, inv, money, saved, made, offer, cash, trading, with>>
  BY DEF TradeOffer, AnswerOffer, goods, table, flags
<1>2. /\ asked' \in [Players -> SUBSET Players]
      /\ \A r \in Players : r \notin asked'[r] /\ accepting'[r] # r
  <2>1. CASE TradeOffer(p, q)
    <3>1. asked' = [asked EXCEPT ![q] = @ \cup {p}] /\ accepting' = accepting /\ p # q
      BY <2>1 DEF TradeOffer
    <3>2. QED BY <3>1 DEF Honest, Stocked, NotAlone
  <2>2. ASSUME NEW yes \in BOOLEAN, AnswerOffer(q, p, yes)
        PROVE  /\ asked' \in [Players -> SUBSET Players]
               /\ \A r \in Players : r \notin asked'[r] /\ accepting'[r] # r
    <3>1. /\ asked' = [asked EXCEPT ![q] = @ \ {p}] /\ p \in asked[q]
          /\ accepting' = IF yes THEN [accepting EXCEPT ![q] = p] ELSE accepting
      BY <2>2 DEF AnswerOffer
    <3>2. p # q
      BY <3>1 DEF Honest, NotAlone
    <3>3. \A r \in Players : accepting'[r] # r
      BY <3>1, <3>2 DEF Honest, NotAlone, IInv, Shaped
    <3>4. QED BY <3>1, <3>3 DEF Honest, Stocked, NotAlone
  <2>3. QED BY <2>1, <2>2
<1>3. NotAlone'
  BY <1>1, <1>2 DEF Honest, NotAlone
<1>4. QED BY <1>1, <1>2, <1>3, TalkHonest DEF Honest, Stocked, GoneAreIdle

LEMMA AcceptHonest ==
  ASSUME IInv, Honest, NEW q \in Players, TradeOfferAccept(q)
  PROVE  Honest'
<1> DEFINE p == accepting[q]
<1>1. /\ q \in online /\ p # NoPlayer /\ p \in Players /\ p # q
      /\ UNCHANGED <<online, inv, money, saved, made, asked>>
      /\ accepting' = [accepting EXCEPT ![q] = NoPlayer]
  BY DEF TradeOfferAccept, goods, IInv, Shaped, Honest, NotAlone
<1>2. asked' \in [Players -> SUBSET Players] /\ \A r \in Players : r \notin asked'[r]
  BY <1>1 DEF Honest, Stocked, NotAlone
<1>3. \A r \in Players : accepting'[r] # r
  BY <1>1, NoPlayerIsNone DEF Honest, NotAlone, IInv, Shaped
<1>4. CASE p \notin online \/ trading[p]
  <2>1. UNCHANGED <<trading, offer, cash, with>>
    BY <1>4 DEF TradeOfferAccept, flags, table
  <2>2. NotAlone'
    BY <1>1, <1>2, <1>3, <2>1 DEF Honest, NotAlone
  <2>3. QED BY <1>1, <1>2, <2>1, <2>2, TalkHonest DEF Honest, Stocked, GoneAreIdle
<1>5. CASE p \in online /\ ~ trading[p]
  <2>1. /\ trading' = [r \in Players |-> IF r \in {p, q} THEN TRUE ELSE trading[r]]
        /\ cash' = [r \in Players |-> IF r \in {p, q} THEN 0 ELSE cash[r]]
        /\ offer' = [r \in Players |-> IF r \in {p, q} THEN NoOffers ELSE offer[r]]
        /\ with' = [with EXCEPT ![p] = q, ![q] = p]
    BY <1>5 DEF TradeOfferAccept
  <2> HIDE DEF p
  <2>2. NoOffers \in [TradeSlots -> Offer]
    BY DEF NoOffers, Offer
  <2>3. /\ offer' \in [Players -> [TradeSlots -> Offer]]
        /\ cash' \in [Players -> 0..MaxMoney]
    BY <2>1, <2>2, SizesAreNatural DEF Honest, Stocked
  <2>4. \A r \in Players : with'[r] # r
    BY <1>1, <2>1 DEF Honest, NotAlone, IInv, Shaped
  <2>5. NotAlone'
    BY <1>2, <1>3, <2>4 DEF NotAlone
  <2>6. \A r \in Players \ online : ~ trading'[r]
    BY <1>1, <1>5, <2>1 DEF Honest, GoneAreIdle
  <2>7. QED BY <1>1, <1>2, <2>3, <2>5, <2>6, TalkHonest
<1>6. QED BY <1>4, <1>5

\* Windows close and trades end, nothing changes hands.
LEMMA EndHonest ==
  ASSUME Honest, UNCHANGED <<online, inv, money, saved, made, offer, cash, asked, accepting>>,
         \A r \in Players : with'[r] = with[r] \/ with'[r] = NoPlayer,
         \A r \in Players : trading'[r] => trading[r]
  PROVE  Honest'
<1>1. NotAlone'
  BY NoPlayerIsNone DEF Honest, NotAlone
<1>2. QED BY <1>1, TalkHonest DEF Honest, Stocked, GoneAreIdle

LEMMA CancelHonest ==
  ASSUME IInv, Honest, NEW p \in Players, TradeConfirmCancel(p)
  PROVE  Honest'
<1>1. /\ UNCHANGED <<online, inv, money, saved, made, offer, cash, asked, accepting>>
      /\ with[p] \in Players /\ Close(p, with[p])
      /\ \/ trading' = [trading EXCEPT ![p] = FALSE, ![with[p]] = FALSE]
         \/ trading' = trading
  BY DEF TradeConfirmCancel, goods, table, flags, IInv, Shaped
<1>2. \A r \in Players : with'[r] = with[r] \/ with'[r] = NoPlayer
  BY <1>1, CloseEffect DEF IInv
<1>3. \A r \in Players : trading'[r] => trading[r]
  BY <1>1 DEF IInv, Shaped
<1>4. QED BY <1>1, <1>2, <1>3, EndHonest

\* What is put on the table is of some kind and no more than there is.
LEMMA RegisterHonest ==
  ASSUME IInv, Honest, NEW p \in Players,
         \/ \E i \in TradeSlots, n \in Slots : TradeRegisterItem(p, i, n)
         \/ \E i \in TradeSlots : TradeUnregisterItem(p, i)
         \/ \E n \in 0..MaxMoney : TradeRegisterCash(p, n),
         inv \in [Players -> [Slots -> Stack]]
  PROVE  Honest'
<1>1. UNCHANGED <<online, inv, money, saved, made, asked, accepting, trading, with>>
  BY DEF TradeRegisterItem, TradeUnregisterItem, TradeRegisterCash, goods, clients
<1>2. NotAlone'
  BY <1>1 DEF Honest, NotAlone
<1>3. ASSUME NEW i \in TradeSlots, NEW n \in Slots, TradeRegisterItem(p, i, n)
      PROVE  /\ offer' \in [Players -> [TradeSlots -> Offer]] /\ cash' = cash
  <2>1. PICK m \in Offerable(p, i, n) :
          offer' = [offer EXCEPT ![p][i] = [slot |-> n, kind |-> inv[p][n].kind, count |-> m]]
    BY <1>3 DEF TradeRegisterItem
  <2>2. m \in 1..inv[p][n].count /\ inv[p][n] \in Stack
    BY <2>1 DEF Offerable
  <2>3. inv[p][n] # Nothing
    BY <2>2 DEF Nothing
  <2>4. PICK k \in Items : inv[p][n] \in [kind : {k}, count : 1..MadeItems[k]]
    BY <2>2, <2>3 DEF Stack
  <2>5. m \in 1..MadeItems[k] /\ inv[p][n].kind = k
    BY <2>2, <2>4, SizesAreNatural
  <2>6. [slot |-> n, kind |-> inv[p][n].kind, count |-> m] \in Offer
    BY <2>5 DEF Offer
  <2>7. QED BY <1>3, <2>1, <2>6 DEF TradeRegisterItem, Honest, Stocked
<1>4. ASSUME NEW i \in TradeSlots, TradeUnregisterItem(p, i)
      PROVE  offer' \in [Players -> [TradeSlots -> Offer]] /\ cash' = cash
  <2>1. NoOffer \in Offer
    BY DEF Offer
  <2>2. QED BY <1>4, <2>1 DEF TradeUnregisterItem, Honest, Stocked
<1>5. ASSUME NEW n \in 0..MaxMoney, TradeRegisterCash(p, n)
      PROVE  /\ offer' = offer /\ cash' \in [Players -> 0..MaxMoney]
  BY <1>5 DEF TradeRegisterCash, Honest, Stocked
<1>6. /\ offer' \in [Players -> [TradeSlots -> Offer]] /\ cash' \in [Players -> 0..MaxMoney]
  BY <1>3, <1>4, <1>5 DEF Honest, Stocked
<1>7. QED BY <1>1, <1>2, <1>6, TalkHonest DEF Honest, Stocked, GoneAreIdle

\* No stack is higher than what its bag holds of the kind.
LEMMA LowStacks ==
  ASSUME NEW bag \in Bag, \A k \in Items : CountIn(bag, k) <= MadeItems[k]
  PROVE  bag \in [Slots -> Stack]
<1>1. ASSUME NEW n \in Slots, bag[n] # Nothing PROVE bag[n] \in Stack
  <2>1. bag[n] \in [kind : Items, count : Nat \ {0}]
    BY <1>1 DEF Bag, Heap
  <2> DEFINE k == bag[n].kind
  <2>2. k \in Items /\ Of(bag[n], k) = bag[n].count /\ bag[n].count \in Nat \ {0}
    BY <2>1 DEF Of
  <2>3. bag[n].count <= CountIn(bag, k) /\ CountIn(bag, k) \in Nat
    BY <2>2, BagCounts
  <2>4. CountIn(bag, k) <= MadeItems[k] /\ MadeItems[k] \in Nat
    BY <2>2, SizesAreNatural
  <2>5. bag[n].count \in 1..MadeItems[k]
    BY <2>2, <2>3, <2>4
  <2>6. bag[n] \in [kind : {k}, count : 1..MadeItems[k]]
    BY <2>1, <2>5
  <2>7. QED BY <2>2, <2>6 DEF Stack
<1>2. Nothing \in Stack
  BY DEF Stack
<1>3. QED BY <1>1, <1>2 DEF Bag

LEMMA PocketsAreLow ==
  ASSUME Honest, NEW S \in SUBSET Players, NEW p \in Players
  PROVE  Have(S)[p].inv \in [Slots -> Stack]
<1> DEFINE have == Have(S)
<1>1. have \in Pockets /\ Within(have) /\ have[p].inv \in Bag
  BY HaveIsPockets DEF Honest, Bounded, Pockets
<1> HIDE DEF have
<1>2. ASSUME NEW k \in Items PROVE CountIn(have[p].inv, k) <= MadeItems[k]
  <2>1. Cardinality(ItemShares(have, k)[p]) <= Cardinality(Together(ItemShares(have, k)))
    BY <1>1, SharesFamilies, OneChanges
  <2>2. CountIn(have[p].inv, k) <= Cardinality(AllItems(have, k))
    BY <1>1, <2>1, SharesFamilies
  <2>3. Cardinality(AllItems(have, k)) <= made.items[k] /\ made.items[k] <= MadeItems[k]
    BY <1>1 DEF Within, NoMoreItems, NoMoreTaros, Honest, Stocked
  <2>4. /\ CountIn(have[p].inv, k) \in Nat /\ Cardinality(AllItems(have, k)) \in Nat
        /\ made.items[k] \in Nat /\ MadeItems[k] \in Nat
    BY <1>1, BagCounts, SharesFamilies, TogetherFinite, SizesAreNatural
       DEF Honest, Stocked, Makings
  <2>5. QED BY <2>2, <2>3, <2>4
<1>3. QED BY <1>1, <1>2, LowStacks DEF have

LEMMA BagsAreLow ==
  ASSUME Honest, NEW p \in Players
  PROVE  inv[p] \in [Slots -> Stack] /\ saved[p].inv \in [Slots -> Stack]
<1>1. Have(Players)[p].inv \in [Slots -> Stack] /\ Have({})[p].inv \in [Slots -> Stack]
  BY PocketsAreLow
<1>2. Have({})[p] = saved[p]
  BY DEF Have
<1>3. CASE p \in online
  BY <1>1, <1>2, <1>3 DEF Have, Owned, Pocket
<1>4. CASE p \notin online
  <2>1. NoBag \in [Slots -> Stack]
    BY DEF NoBag, Stack
  <2>2. QED BY <1>1, <1>2, <1>4, <2>1 DEF Honest, GoneAreIdle
<1>5. QED BY <1>3, <1>4

\* subtractCapped() and addCapped(): what is there is paid, no more is got.
LEMMA PayFacts ==
  ASSUME NEW have \in 0..MaxMoney, NEW out \in 0..MaxMoney, NEW in \in Nat
  PROVE  /\ Pay(have, out, in) \in 0..MaxMoney
         /\ Pay(have, out, in) <= in + IF out <= have THEN have - out ELSE 0
BY SizesAreNatural DEF Pay

\* tradeConfirm(): both get what the other one gives, or nothing happens.
LEMMA ConfirmHonest ==
  ASSUME IInv, Honest, NEW p \in Players, TradeConfirm(p)
  PROVE  Honest'
<1> DEFINE deal(q) == DoTrade(p, q)
<1>1. /\ p \in online /\ UNCHANGED <<online, offer, cash, asked, accepting>>
      /\ asked' \in [Players -> SUBSET Players]
  BY DEF TradeConfirm, table, Honest, Stocked
<1>2. PICK q \in online :
        /\ with[p] = q
        /\ IF trading[p] /\ trading[q] /\ ~ confirmed[q]
           THEN UNCHANGED <<trading, inv, money, saved, with, made>>
           ELSE /\ trading' = [trading EXCEPT ![p] = FALSE, ![q] = FALSE]
                /\ Close(p, q)
                /\ IF trading[p] /\ trading[q] /\ deal(q).p # Failed /\ deal(q).q # Failed
                   THEN /\ inv' = [inv EXCEPT ![p] = deal(q).p, ![q] = deal(q).q]
                        /\ money' = [money EXCEPT ![p] = Pay(@, cash[p], cash[q]),
                                                  ![q] = Pay(@, cash[q], cash[p])]
                        /\ made' = [made EXCEPT !.forged = @ + Owing(p) + Owing(q)]
                        /\ CommitTrade(p, q)
                   ELSE UNCHANGED <<inv, money, saved, made>>
  BY DEF TradeConfirm, goods
<1>3. q \in Players /\ p # q
  BY <1>2 DEF IInv, Shaped, Honest, NotAlone
<1>4. CASE trading[p] /\ trading[q] /\ ~ confirmed[q]
  BY <1>1, <1>2, <1>4, EndHonest
<1>5. CASE ~ (trading[p] /\ trading[q] /\ ~ confirmed[q])
  <2>1. /\ trading' = [trading EXCEPT ![p] = FALSE, ![q] = FALSE]
        /\ Close(p, q)
    BY <1>2, <1>5
  <2>2. /\ \A r \in Players : with'[r] = with[r] \/ with'[r] = NoPlayer
        /\ \A r \in Players : trading'[r] => trading[r]
        /\ ~ trading'[p] /\ ~ trading'[q]
    BY <1>3, <2>1, CloseEffect DEF IInv, Shaped
  <2>3. CASE UNCHANGED <<inv, money, saved, made>>
    BY <1>1, <2>2, <2>3, EndHonest
  <2>4. CASE /\ trading[p] /\ trading[q] /\ deal(q).p # Failed /\ deal(q).q # Failed
             /\ inv' = [inv EXCEPT ![p] = deal(q).p, ![q] = deal(q).q]
             /\ money' = [money EXCEPT ![p] = Pay(@, cash[p], cash[q]),
                                       ![q] = Pay(@, cash[q], cash[p])]
             /\ made' = [made EXCEPT !.forged = @ + Owing(p) + Owing(q)]
             /\ CommitTrade(p, q)
    <3>1. /\ inv[p] \in Bag /\ inv[q] \in Bag
          /\ offer[p] \in [TradeSlots -> Listing] /\ offer[q] \in [TradeSlots -> Listing]
      <4>1. Offer \subseteq Listing
        BY SizesAreNatural DEF Offer, Listing
      <4>2. QED BY <1>3, <4>1 DEF Honest, Stocked
    <3>2. /\ deal(q).p \in Bag /\ deal(q).q \in Bag
          /\ SameTotal(deal(q).p, deal(q).q, inv[p], inv[q])
      BY <2>4, <3>1, DoTradeIsFair
    <3> HIDE DEF deal
    <3>3. /\ inv' \in [Players -> Bag] /\ inv'[p] = deal(q).p /\ inv'[q] = deal(q).q
          /\ \A r \in Players \ {p, q} : inv'[r] = inv[r]
      BY <1>3, <2>4, <3>2 DEF Honest, Stocked
    <3>4. /\ money[p] \in 0..MaxMoney /\ money[q] \in 0..MaxMoney
          /\ cash[p] \in 0..MaxMoney /\ cash[q] \in 0..MaxMoney
          /\ cash[p] \in Nat /\ cash[q] \in Nat
      BY <1>3, SizesAreNatural DEF Honest, Stocked
    <3>5. /\ Pay(money[p], cash[p], cash[q]) \in 0..MaxMoney
          /\ Pay(money[q], cash[q], cash[p]) \in 0..MaxMoney
      BY <3>4, PayFacts
    <3>6. /\ money' \in [Players -> 0..MaxMoney]
          /\ money'[p] = Pay(money[p], cash[p], cash[q])
          /\ money'[q] = Pay(money[q], cash[q], cash[p])
          /\ \A r \in Players \ {p, q} : money'[r] = money[r]
      BY <1>3, <2>4, <3>5 DEF Honest, Stocked
    <3>7. /\ saved' = [saved EXCEPT ![p] = Pocket(p)', ![q] = Pocket(q)']
          /\ Pocket(p)' \in [inv : Bag, money : 0..MaxMoney]
          /\ Pocket(q)' \in [inv : Bag, money : 0..MaxMoney]
      BY <1>3, <2>4, <3>3, <3>6 DEF CommitTrade, Pocket
    <3>8. /\ saved' \in [Players -> [inv : Bag, money : 0..MaxMoney]]
          /\ saved'[p] = Pocket(p)' /\ saved'[q] = Pocket(q)'
          /\ \A r \in Players \ {p, q} : saved'[r] = saved[r]
      BY <1>3, <3>7 DEF Honest, Stocked
    <3> DEFINE n == Owing(p) + Owing(q)
    <3>9. /\ n \in Nat
          /\ Owing(p) = IF cash[p] <= money[p] THEN 0 ELSE cash[p] - money[p]
          /\ Owing(q) = IF cash[q] <= money[q] THEN 0 ELSE cash[q] - money[q]
      BY <3>4, SizesAreNatural DEF Owing
    <3>10. /\ made' \in Makings /\ made'.items = made.items /\ made'.money = made.money
           /\ made'.forged = made.forged + n
      <4>1. made \in Makings
        BY DEF Honest, Stocked
      <4>2. /\ Owing(p) \in Nat /\ Owing(q) \in Nat /\ made.forged \in Nat
        BY <3>4, <3>9, <4>1, SizesAreNatural DEF Makings
      <4>3. made' = [made EXCEPT !.forged = (made.forged + Owing(p)) + Owing(q)]
        BY <2>4, <4>1 DEF Makings
      <4>4. (made.forged + Owing(p)) + Owing(q) = made.forged + n
        BY <4>2
      <4>5. QED BY <3>9, <4>1, <4>2, <4>3, <4>4 DEF Makings
    <3>11. Stocked'
      BY <1>1, <3>3, <3>6, <3>8, <3>10 DEF Honest, Stocked
    <3>12. money'[p] + money'[q] <= money[p] + money[q] + n
      <4>1. /\ money'[p] <= cash[q] + IF cash[p] <= money[p] THEN money[p] - cash[p] ELSE 0
            /\ money'[q] <= cash[p] + IF cash[q] <= money[q] THEN money[q] - cash[q] ELSE 0
        <5>1. Pay(money[p], cash[p], cash[q])
                <= cash[q] + IF cash[p] <= money[p] THEN money[p] - cash[p] ELSE 0
          BY <3>4, PayFacts
        <5>2. Pay(money[q], cash[q], cash[p])
                <= cash[p] + IF cash[q] <= money[q] THEN money[q] - cash[q] ELSE 0
          BY <3>4, PayFacts
        <5>3. QED BY <3>6, <5>1, <5>2
      <4>2. /\ money'[p] \in Nat /\ money'[q] \in Nat
            /\ money[p] \in Nat /\ money[q] \in Nat
        BY <3>4, <3>5, <3>6, SizesAreNatural
      <4>3. QED BY <3>4, <3>9, <4>1, <4>2
    <3> HIDE DEF n
    <3>13. Bounded'
      BY <1>1, <1>2, <1>3, <3>2, <3>3, <3>6, <3>8, <3>9, <3>10, <3>11, <3>12, TwoExchange DEF Honest
    <3>14. GoneAreIdle' /\ NotAlone'
      BY <1>1, <1>2, <2>2, <3>3, NoPlayerIsNone DEF Honest, GoneAreIdle, NotAlone
    <3>15. QED BY <3>11, <3>13, <3>14 DEF Honest
  <2>5. QED BY <1>2, <1>5, <2>3, <2>4
<1>6. QED BY <1>4, <1>5

\* Two slots of a bag change, and hold together what they held.
LEMMA TwoSlots ==
  ASSUME NEW bag \in Bag, NEW new \in Bag, NEW m \in Slots, NEW n \in Slots, m # n,
         \A i \in Slots \ {m, n} : new[i] = bag[i], NEW k \in Items,
         Of(new[m], k) + Of(new[n], k) = Of(bag[m], k) + Of(bag[n], k)
  PROVE  CountIn(new, k) = CountIn(bag, k)
<1> DEFINE mid == [bag EXCEPT ![m] = new[m]]
<1>1. /\ mid \in Bag /\ mid[m] = new[m] /\ mid[n] = bag[n]
      /\ \A i \in Slots \ {m} : mid[i] = bag[i]
      /\ \A i \in Slots \ {n} : new[i] = mid[i]
  BY DEF Bag
<1> HIDE DEF mid
<1>2. /\ CountIn(bag, k) \in Nat /\ CountIn(mid, k) \in Nat
      /\ Of(bag[m], k) \in Nat /\ Of(mid[m], k) \in Nat
      /\ CountIn(mid, k) + Of(bag[m], k) = CountIn(bag, k) + Of(mid[m], k)
  BY <1>1, SlotChanges
<1>3. /\ CountIn(new, k) \in Nat /\ Of(mid[n], k) \in Nat /\ Of(new[n], k) \in Nat
      /\ CountIn(new, k) + Of(mid[n], k) = CountIn(mid, k) + Of(new[n], k)
  BY <1>1, SlotChanges
<1>4. Of(mid[m], k) = Of(new[m], k) /\ Of(mid[n], k) = Of(bag[n], k)
  BY <1>1
<1>5. QED BY <1>2, <1>3, <1>4

\* One player's pocket changes, online and while the game may hand out.
LEMMA LifeHonest ==
  ASSUME Honest, NEW p \in Players, p \in online,
         UNCHANGED <<online, saved, offer, cash, asked, accepting, with, trading>>,
         NEW bag \in Bag, inv' = [inv EXCEPT ![p] = bag],
         NEW n \in 0..MaxMoney, money' = [money EXCEPT ![p] = n],
         made' \in Makings,
         \A k \in Items : /\ made'.items[k] <= MadeItems[k] /\ made.items[k] <= made'.items[k]
                          /\ CountIn(bag, k)
                               <= CountIn(inv[p], k) + (made'.items[k] - made.items[k]),
         made'.forged = made.forged,
         made.money <= made'.money, n <= money[p] + (made'.money - made.money)
  PROVE  Honest'
<1>1. /\ inv' \in [Players -> Bag] /\ inv'[p] = bag
      /\ money' \in [Players -> 0..MaxMoney] /\ money'[p] = n
      /\ \A r \in Players \ {p} : inv'[r] = inv[r] /\ money'[r] = money[r]
  BY DEF Honest, Stocked
<1>2. Stocked'
  BY <1>1 DEF Honest, Stocked
<1>3. Bounded'
  BY <1>1, <1>2, OneGains DEF Honest
<1>4. GoneAreIdle' /\ NotAlone'
  BY <1>1 DEF Honest, GoneAreIdle, NotAlone
<1>5. QED BY <1>2, <1>3, <1>4 DEF Honest

LEMMA SomeSlot ==
  ASSUME NEW bag \in Bag, NEW n \in Slots
  PROVE  bag # Failed
<1>1. DOMAIN bag = Slots
  BY DEF Bag
<1>2. DOMAIN Failed = {}
  BY DEF Failed
<1>3. QED BY <1>1, <1>2

LEMMA GainItemHonest ==
  ASSUME Honest, NEW p \in Players, NEW kind \in Items, GainItem(p, kind)
  PROVE  Honest'
<1> DEFINE o == [slot |-> 1, kind |-> kind, count |-> 1]
           bag == PutIn(inv[p], o)
<1>1. /\ p \in online /\ made.items[kind] < MadeItems[kind] /\ bag # Failed
      /\ inv' = [inv EXCEPT ![p] = bag] /\ made' = [made EXCEPT !.items[kind] = @ + 1]
      /\ UNCHANGED <<online, saved, offer, cash, asked, accepting, with, trading, money>>
  BY DEF GainItem, flags, table, clients
<1>2. inv[p] \in Bag /\ money[p] \in 0..MaxMoney /\ money' = [money EXCEPT ![p] = money[p]]
  BY <1>1 DEF Honest, Stocked
<1>3. o \in Listing
  <2>1. o # NoOffer
    BY SizesAreNatural DEF NoOffer
  <2>2. Slots # {}
    BY <1>1, <2>1 DEF PutIn
  <2>3. 1 \in Slots
    BY <2>2, SizesAreNatural DEF Slots
  <2>4. QED BY <2>3 DEF Listing
<1>4. /\ made' \in Makings /\ made'.money = made.money
      /\ made.money \in Nat /\ made'.forged = made.forged
      /\ \A k \in Items : made'.items[k] = made.items[k] + Of(o, k) /\ made.items[k] \in Nat
  <2>1. /\ made \in Makings /\ made.items \in [Items -> Nat] /\ made.money \in Nat
        /\ made.items[kind] \in Nat
    BY SizesAreNatural DEF Honest, Stocked, Makings
  <2>2. [made.items EXCEPT ![kind] = @ + 1] \in [Items -> Nat]
    BY <2>1
  <2>3. made' = [made EXCEPT !.items = [made.items EXCEPT ![kind] = @ + 1]]
    BY <1>1, <2>1 DEF Makings
  <2>4. /\ made' \in Makings /\ made'.money = made.money /\ made'.forged = made.forged
        /\ made'.items = [made.items EXCEPT ![kind] = @ + 1]
    BY <2>1, <2>2, <2>3 DEF Makings
  <2>5. \A k \in Items : Of(o, k) = IF k = kind THEN 1 ELSE 0
    BY DEF Of
  <2>6. QED BY <2>1, <2>4, <2>5
<1>5. \A k \in Items : Of(o, k) \in Nat
  BY <1>3, HeapFacts
<1>6. bag \in Bag
  BY <1>1, <1>2, <1>3, PutInCounts
<1>7. \A k \in Items : CountIn(bag, k) = CountIn(inv[p], k) + Of(o, k) /\ CountIn(inv[p], k) \in Nat
  BY <1>1, <1>2, <1>3, PutInCounts, BagCounts
<1>8. \A k \in Items : made'.items[k] <= MadeItems[k]
  BY <1>1, <1>4, SizesAreNatural DEF Of, Honest, Stocked
<1> HIDE DEF bag, o
<1>9. \A k \in Items : /\ made'.items[k] <= MadeItems[k] /\ made.items[k] <= made'.items[k]
                       /\ CountIn(bag, k)
                            <= CountIn(inv[p], k) + (made'.items[k] - made.items[k])
  BY <1>4, <1>5, <1>7, <1>8
<1>10. made.money <= made'.money /\ money[p] <= money[p] + (made'.money - made.money)
  BY <1>2, <1>4
<1>11. QED BY <1>1, <1>2, <1>4, <1>6, <1>9, <1>10, LifeHonest

\* The game hands out nothing.
LEMMA NothingMade ==
  ASSUME Honest, UNCHANGED made, NEW p \in Players, NEW bag \in Bag,
         \A k \in Items : CountIn(bag, k) <= CountIn(inv[p], k)
  PROVE  /\ made' \in Makings
         /\ \A k \in Items : /\ made'.items[k] <= MadeItems[k] /\ made.items[k] <= made'.items[k]
                             /\ CountIn(bag, k)
                                  <= CountIn(inv[p], k) + (made'.items[k] - made.items[k])
         /\ made'.forged = made.forged /\ made.money <= made'.money
         /\ \A n \in 0..MaxMoney : n <= money[p] => n <= money[p] + (made'.money - made.money)
<1>1. inv[p] \in Bag /\ money[p] \in Nat /\ made.money \in Nat
  BY SizesAreNatural DEF Honest, Stocked, Makings
<1>2. \A k \in Items : /\ CountIn(inv[p], k) \in Nat /\ CountIn(bag, k) \in Nat
                       /\ made.items[k] \in Nat /\ made.items[k] <= MadeItems[k]
  BY <1>1, BagCounts DEF Honest, Stocked, Makings
<1>3. \A k \in Items :
        CountIn(bag, k) <= CountIn(inv[p], k) + (made'.items[k] - made.items[k])
  BY <1>2
<1>4. \A n \in 0..MaxMoney : n <= money[p] => n <= money[p] + (made'.money - made.money)
  BY <1>1, SizesAreNatural
<1>5. QED BY <1>1, <1>2, <1>3, <1>4 DEF Honest, Stocked

LEMMA BagHonest ==
  ASSUME Honest, NEW p \in Players, p \in online, UNCHANGED <<made, money>>,
         UNCHANGED <<online, saved, offer, cash, asked, accepting, with, trading>>,
         NEW bag \in Bag, inv' = [inv EXCEPT ![p] = bag],
         \A k \in Items : CountIn(bag, k) <= CountIn(inv[p], k)
  PROVE  Honest'
<1>1. /\ money[p] \in 0..MaxMoney /\ money' = [money EXCEPT ![p] = money[p]]
      /\ money[p] <= money[p]
  BY DEF Honest, Stocked
<1>2. QED BY <1>1, NothingMade, LifeHonest

LEMMA LoseItemHonest ==
  ASSUME Honest, NEW p \in Players, NEW n \in Slots, LoseItem(p, n)
  PROVE  Honest'
<1> DEFINE o == [slot |-> n, kind |-> inv[p][n].kind, count |-> 1]
           bag == TakeOut(inv[p], o)
<1>1. /\ p \in online /\ inv[p][n] # Nothing /\ inv' = [inv EXCEPT ![p] = bag]
      /\ UNCHANGED <<online, saved, offer, cash, asked, accepting, with, trading>>
      /\ UNCHANGED <<made, money>>
  BY DEF LoseItem, flags, table, clients
<1>2. inv[p] \in Bag /\ inv[p][n] \in [kind : Items, count : Nat \ {0}]
  BY <1>1 DEF Honest, Stocked, Bag, Heap
<1>3. o \in Listing /\ o # NoOffer
  BY <1>2, SizesAreNatural DEF Listing, NoOffer
<1>4. bag # Failed
  <2>1. inv[p] # Failed
    BY <1>2, SomeSlot
  <2>2. bag = [inv[p] EXCEPT ![n] = Less(@, 1)]
    BY <1>2, <1>3, <2>1 DEF TakeOut
  <2>3. Less(inv[p][n], 1) \in Heap
    BY <1>2 DEF Less, Heap
  <2>4. bag \in Bag
    BY <1>2, <2>2, <2>3 DEF Bag
  <2>5. QED BY <2>4, SomeSlot
<1>5. \A k \in Items : CountIn(bag, k) + Of(o, k) = CountIn(inv[p], k) /\ Of(o, k) \in Nat
  BY <1>2, <1>3, <1>4, TakeOutCounts, HeapFacts
<1>6. bag \in Bag
  <2>1. inv[p][n].kind \in Items
    BY <1>2
  <2>2. QED BY <1>2, <1>3, <1>4, <2>1, TakeOutCounts
<1> HIDE DEF bag, o
<1>7. \A k \in Items : CountIn(bag, k) <= CountIn(inv[p], k)
  <2>1. \A k \in Items : CountIn(bag, k) \in Nat
    BY <1>6, BagCounts
  <2>2. QED BY <1>5, <2>1
<1>8. QED BY <1>1, <1>6, <1>7, BagHonest

LEMMA MoveItemHonest ==
  ASSUME Honest, NEW p \in Players, NEW from \in Slots, NEW to \in Slots, MoveItem(p, from, to)
  PROVE  Honest'
<1>1. /\ p \in online /\ from # to /\ inv[p][from] # Nothing /\ inv[p] \in Bag
      /\ UNCHANGED <<online, saved, offer, cash, asked, accepting, with, trading>>
      /\ UNCHANGED <<made, money>>
  BY DEF MoveItem, flags, table, clients, Honest, Stocked
<1>2. inv[p][from] \in [kind : Items, count : Nat \ {0}] /\ inv[p][to] \in Heap
  BY <1>1 DEF Bag, Heap
<1>3. CASE inv[p][from].kind = inv[p][to].kind
  <2> DEFINE s == [kind |-> inv[p][to].kind, count |-> inv[p][to].count + inv[p][from].count]
             bag == [inv[p] EXCEPT ![to] = s, ![from] = Nothing]
  <2>1. inv[p][to] \in [kind : Items, count : Nat \ {0}]
    BY <1>2, <1>3, SizesAreNatural DEF Heap, Nothing
  <2>2. s \in Heap
    BY <1>2, <2>1 DEF Heap
  <2>3. s = [inv[p][to] EXCEPT !.count = @ + inv[p][from].count]
    BY <2>1
  <2>4. inv' = [inv EXCEPT ![p][to].count = @ + inv[p][from].count, ![p][from] = Nothing]
    BY <1>3 DEF MoveItem
  <2>5. inv' = [inv EXCEPT ![p] = bag]
    BY <1>1, <2>1, <2>3, <2>4 DEF Honest, Stocked, Bag
  <2>6. bag \in Bag /\ bag[to] = s /\ bag[from] = Nothing
        /\ \A i \in Slots \ {from, to} : bag[i] = inv[p][i]
    BY <1>1, <2>2 DEF Bag, Heap
  <2>7. \A k \in Items : Of(s, k) + Of(Nothing, k) = Of(inv[p][to], k) + Of(inv[p][from], k)
    BY <1>2, <1>3, <2>1, SizesAreNatural DEF Of, Nothing
  <2> HIDE DEF bag, s
  <2>8. \A k \in Items : CountIn(bag, k) = CountIn(inv[p], k)
    BY <1>1, <2>6, <2>7, TwoSlots
  <2>9. \A k \in Items : CountIn(bag, k) <= CountIn(inv[p], k)
    BY <1>1, <2>8, BagCounts
  <2>10. QED BY <1>1, <2>5, <2>6, <2>9, BagHonest
<1>4. CASE inv[p][from].kind # inv[p][to].kind
  <2> DEFINE bag == [inv[p] EXCEPT ![to] = inv[p][from], ![from] = inv[p][to]]
  <2>1. inv' = [inv EXCEPT ![p] = bag]
    BY <1>4 DEF MoveItem, Honest, Stocked, Bag
  <2>2. bag \in Bag /\ bag[to] = inv[p][from] /\ bag[from] = inv[p][to]
        /\ \A i \in Slots \ {from, to} : bag[i] = inv[p][i]
    BY <1>1, <1>2 DEF Bag, Heap
  <2>3. \A k \in Items : Of(inv[p][to], k) \in Nat /\ Of(inv[p][from], k) \in Nat
    BY <1>1, <1>2, HeapFacts DEF Bag
  <2> HIDE DEF bag
  <2>4. \A k \in Items : CountIn(bag, k) = CountIn(inv[p], k)
    BY <1>1, <2>2, <2>3, TwoSlots
  <2>5. \A k \in Items : CountIn(bag, k) <= CountIn(inv[p], k)
    BY <1>1, <2>4, BagCounts
  <2>6. QED BY <1>1, <2>1, <2>2, <2>5, BagHonest
<1>5. QED BY <1>3, <1>4

LEMMA GainMoneyHonest ==
  ASSUME Honest, NEW p \in Players, GainMoney(p)
  PROVE  Honest'
<1> DEFINE n == Pay(money[p], 0, 1)
<1>1. /\ p \in online /\ made.money < MadeMoney /\ money' = [money EXCEPT ![p] = n]
      /\ made' = [made EXCEPT !.money = @ + 1]
      /\ UNCHANGED <<online, saved, offer, cash, asked, accepting, with, trading, inv>>
  BY DEF GainMoney, flags, table, clients
<1>2. /\ inv[p] \in Bag /\ money[p] \in 0..MaxMoney /\ money[p] \in Nat
      /\ inv' = [inv EXCEPT ![p] = inv[p]]
  BY <1>1, SizesAreNatural DEF Honest, Stocked
<1>3. n \in 0..MaxMoney /\ n <= money[p] + 1
  BY <1>2, SizesAreNatural DEF Pay
<1>4. /\ made' \in Makings
      /\ made'.items = made.items /\ made'.money = made.money + 1 /\ made.money \in Nat
      /\ made'.forged = made.forged
  <2>1. made \in Makings
    BY DEF Honest, Stocked
  <2>2. made.money \in Nat /\ made.money + 1 \in 0..MadeMoney
    BY <1>1, <2>1, SizesAreNatural DEF Makings
  <2>3. QED BY <1>1, <2>1, <2>2 DEF Makings
<1> HIDE DEF n
<1>5. \A k \in Items : /\ made'.items[k] <= MadeItems[k] /\ made.items[k] <= made'.items[k]
                       /\ CountIn(inv[p], k)
                            <= CountIn(inv[p], k) + (made'.items[k] - made.items[k])
  <2>1. \A k \in Items : CountIn(inv[p], k) \in Nat /\ made.items[k] \in Nat
    BY <1>2, BagCounts DEF Honest, Stocked, Makings
  <2>2. QED BY <1>4, <2>1 DEF Honest, Stocked
<1>6. made.money <= made'.money /\ n <= money[p] + (made'.money - made.money)
  BY <1>2, <1>3, <1>4
<1>7. QED BY <1>1, <1>2, <1>3, <1>4, <1>5, <1>6, LifeHonest

LEMMA SpendMoneyHonest ==
  ASSUME Honest, NEW p \in Players, SpendMoney(p)
  PROVE  Honest'
<1> DEFINE n == money[p] - 1
<1>1. /\ p \in online /\ money[p] > 0
      /\ money' = [money EXCEPT ![p] = n]
      /\ UNCHANGED <<online, saved, offer, cash, asked, accepting, with, trading, inv, made>>
  BY DEF SpendMoney, flags, table, clients
<1>2. /\ inv[p] \in Bag /\ inv' = [inv EXCEPT ![p] = inv[p]]
      /\ n \in 0..MaxMoney /\ n <= money[p]
  <2>1. inv[p] \in Bag /\ inv' = [inv EXCEPT ![p] = inv[p]]
    BY <1>1 DEF Honest, Stocked
  <2>2. money[p] \in 0..MaxMoney
    BY DEF Honest, Stocked
  <2>3. n \in 0..MaxMoney /\ n <= money[p]
    BY <1>1, <2>2, SizesAreNatural
  <2>4. QED BY <2>1, <2>3
<1>3. \A k \in Items : CountIn(inv[p], k) <= CountIn(inv[p], k)
  BY <1>2, BagCounts
<1>4. /\ made' \in Makings
      /\ \A k \in Items : /\ made'.items[k] <= MadeItems[k] /\ made.items[k] <= made'.items[k]
                          /\ CountIn(inv[p], k)
                               <= CountIn(inv[p], k) + (made'.items[k] - made.items[k])
      /\ made'.forged = made.forged
      /\ made.money <= made'.money /\ n <= money[p] + (made'.money - made.money)
  BY <1>1, <1>2, <1>3, NothingMade
<1> HIDE DEF n
<1>5. QED BY <1>1, <1>2, <1>4, LifeHonest

\* Memory and database trade places, or are made equal.
LEMMA SaveHonest ==
  ASSUME Honest, Shaped, NEW p \in Players, SavePlayer(p)
  PROVE  Honest'
<1>1. /\ p \in online /\ saved' = [saved EXCEPT ![p] = Pocket(p)]
      /\ UNCHANGED <<online, inv, money, offer, cash, asked, accepting, with, trading, made>>
  BY DEF SavePlayer, goods, flags, table, clients
<1>2. Pocket(p) \in [inv : Bag, money : 0..MaxMoney]
  BY DEF Pocket, Honest, Stocked
<1>3. Stocked' /\ GoneAreIdle' /\ NotAlone'
  BY <1>1, <1>2 DEF Honest, Stocked, GoneAreIdle, NotAlone
<1>4. \A S \in SUBSET Players : Have(S)' = Have(S \cup {p})
  BY <1>1 DEF Have, Owned, Pocket, Honest, Stocked
<1>5. Bounded'
  BY <1>1, <1>4, MixturesStay DEF Honest
<1>6. QED BY <1>3, <1>5 DEF Honest

LEMMA LoginHonest ==
  ASSUME Honest, Shaped, NEW p \in Players, Login(p)
  PROVE  Honest'
<1>1. /\ p \notin online /\ online' = online \cup {p}
      /\ inv' = [inv EXCEPT ![p] = saved[p].inv] /\ money' = [money EXCEPT ![p] = saved[p].money]
      /\ UNCHANGED <<saved, offer, cash, asked, accepting, with, trading, made>>
  BY DEF Login, flags, table, clients
<1>2. saved[p] \in [inv : Bag, money : 0..MaxMoney]
  BY DEF Honest, Stocked
<1>3. Stocked' /\ NotAlone'
  BY <1>1, <1>2 DEF Honest, Stocked, NotAlone
<1>4. GoneAreIdle'
  BY <1>1 DEF Honest, Stocked, GoneAreIdle
<1>5. ASSUME NEW S \in SUBSET Players PROVE Have(S)' = Have(S)
  <2>1. /\ inv'[p] = saved[p].inv /\ money'[p] = saved[p].money
        /\ \A r \in Players \ {p} : inv'[r] = inv[r] /\ money'[r] = money[r]
    BY <1>1 DEF Honest, Stocked
  <2>2. saved[p] = [inv |-> saved[p].inv, money |-> saved[p].money]
    BY <1>2
  <2>3. QED BY <1>1, <2>1, <2>2 DEF Have, Owned, Pocket
<1>6. Bounded'
  BY <1>1, <1>5, MixturesStay DEF Honest
<1>7. QED BY <1>3, <1>4, <1>6 DEF Honest

LEMMA FreedHonest ==
  ASSUME Honest, Shaped, NEW S \in SUBSET Players, Freed(S), made' = made,
         \/ \E p \in online : S = {p} /\ saved' = [saved EXCEPT ![p] = Pocket(p)]
         \/ S = Players /\ saved' = saved
  PROVE  Honest'
<1>1. /\ online' = online \ S
      /\ inv' = [p \in Players |-> IF p \in S THEN NoBag ELSE inv[p]]
      /\ money' = [p \in Players |-> IF p \in S THEN 0 ELSE money[p]]
      /\ trading' = [p \in Players |-> IF p \in S THEN FALSE ELSE trading[p]]
      /\ offer' = [p \in Players |-> IF p \in S THEN NoOffers ELSE offer[p]]
      /\ cash' = [p \in Players |-> IF p \in S THEN 0 ELSE cash[p]]
      /\ with' = [p \in Players |-> IF p \in S THEN NoPlayer ELSE with[p]]
      /\ asked' = [p \in Players |-> IF p \in S THEN {} ELSE asked[p]]
      /\ accepting' = [p \in Players |-> IF p \in S THEN NoPlayer ELSE accepting[p]]
  BY DEF Freed
<1>2. NoBag \in Bag /\ NoOffers \in [TradeSlots -> Offer] /\ 0 \in 0..MaxMoney
  BY SizesAreNatural DEF NoBag, Bag, Heap, NoOffers, Offer
<1>3. saved' \in [Players -> [inv : Bag, money : 0..MaxMoney]]
  <2>1. \A p \in Players : Pocket(p) \in [inv : Bag, money : 0..MaxMoney]
    BY DEF Pocket, Honest, Stocked
  <2>2. saved \in [Players -> [inv : Bag, money : 0..MaxMoney]]
    BY DEF Honest, Stocked
  <2>3. QED BY <2>1, <2>2 DEF Shaped
<1>4. inv' \in [Players -> Bag] /\ offer' \in [Players -> [TradeSlots -> Offer]]
  BY <1>1, <1>2 DEF Honest, Stocked
<1>5. /\ money' \in [Players -> 0..MaxMoney] /\ cash' \in [Players -> 0..MaxMoney]
      /\ asked' \in [Players -> SUBSET Players]
  BY <1>1, <1>2 DEF Honest, Stocked
<1>6. Stocked'
  BY <1>3, <1>4, <1>5 DEF Honest, Stocked
<1>7. GoneAreIdle' /\ NotAlone'
  BY <1>1, NoPlayerIsNone DEF Honest, GoneAreIdle, NotAlone, Shaped
<1>8. ASSUME NEW T \in SUBSET Players PROVE \E U \in SUBSET Players : Have(T)' = Have(U)
  <2>1. CASE S = Players /\ saved' = saved
    <3>1. Have(T)' = Have({})
      BY <1>1, <2>1 DEF Have, Owned, Shaped
    <3>2. QED BY <3>1
  <2>2. ASSUME NEW p \in online, S = {p}, saved' = [saved EXCEPT ![p] = Pocket(p)]
        PROVE  Have(T)' = Have(T \cup {p})
    <3>1. p \in Players /\ p \notin online' /\ saved'[p] = Pocket(p)
      BY <1>1, <2>2 DEF Shaped, Honest, Stocked
    <3>2. \A r \in Players \ {p} : /\ saved'[r] = saved[r] /\ inv'[r] = inv[r]
                                   /\ money'[r] = money[r] /\ (r \in online' <=> r \in online)
      BY <1>1, <2>2 DEF Shaped, Honest, Stocked
    <3>3. ASSUME NEW r \in Players PROVE Have(T)'[r] = Have(T \cup {p})[r]
      <4>1. CASE r = p
        BY <2>2, <3>1, <4>1 DEF Have, Owned
      <4>2. CASE r # p
        BY <3>2, <4>2 DEF Have, Owned, Pocket
      <4>3. QED BY <4>1, <4>2
    <3>4. QED BY <3>3 DEF Have
  <2>3. \A p \in online : T \cup {p} \in SUBSET Players
    BY DEF Shaped
  <2>4. QED BY <2>1, <2>2, <2>3
<1>9. Bounded'
  BY <1>8, MixturesStay DEF Honest
<1>10. QED BY <1>6, <1>7, <1>9 DEF Honest

LEMMA NextHonest == IInv /\ Honest /\ [Next]_vars => Honest'
<1> SUFFICES ASSUME IInv, Honest, [Next]_vars PROVE Honest'
  OBVIOUS
<1>0. Shaped
  BY DEF IInv
<1>1. ASSUME NEW p \in Players, NEW q \in Players,
             TradeOffer(p, q) \/ \E yes \in BOOLEAN : AnswerOffer(q, p, yes)
      PROVE  Honest'
  BY <1>1, OfferHonest
<1>2. ASSUME NEW p \in Players,
             \/ TradeOfferAccept(p) \/ TradeConfirm(p) \/ TradeConfirmCancel(p)
             \/ \E i \in TradeSlots, n \in Slots : TradeRegisterItem(p, i, n)
             \/ \E i \in TradeSlots : TradeUnregisterItem(p, i)
             \/ \E n \in 0..MaxMoney : TradeRegisterCash(p, n)
      PROVE  Honest'
  <2>1. inv \in [Players -> [Slots -> Stack]]
    <3>1. DOMAIN inv = Players /\ inv = [r \in Players |-> inv[r]]
      BY DEF Honest, Stocked
    <3>2. QED BY <3>1, BagsAreLow
  <2>2. QED BY <1>2, <2>1, AcceptHonest, ConfirmHonest, CancelHonest, RegisterHonest
<1>3. ASSUME NEW p \in Players,
             \/ \E k \in Items : GainItem(p, k)
             \/ \E n \in Slots : LoseItem(p, n)
             \/ \E m, n \in Slots : MoveItem(p, m, n)
             \/ GainMoney(p) \/ SpendMoney(p) \/ SavePlayer(p) \/ Login(p)
      PROVE  Honest'
  BY <1>0, <1>3, GainItemHonest, LoseItemHonest, MoveItemHonest, GainMoneyHonest,
     SpendMoneyHonest, SaveHonest, LoginHonest
<1>4. CASE \E p \in Players : Logout(p)
  <2>1. PICK p \in Players : Logout(p)
    BY <1>4
  <2>2. /\ p \in online /\ Freed({p}) /\ made' = made
        /\ saved' = [saved EXCEPT ![p] = Pocket(p)]
    BY <2>1 DEF Logout
  <2>3. {p} \in SUBSET Players
    OBVIOUS
  <2>4. QED BY <1>0, <2>2, <2>3, FreedHonest
<1>5. CASE Crash
  BY <1>0, <1>5, FreedHonest DEF Crash
<1>6. CASE UNCHANGED vars
  <2>1. UNCHANGED <<online, inv, money, saved, made, offer, cash, asked, accepting, with, trading>>
    BY <1>6 DEF vars, goods, table, clients, flags
  <2>2. QED BY <2>1, EndHonest
<1>7. CASE TradeNext
  BY <1>1, <1>2, <1>7, Zenon DEF TradeNext
<1>8. CASE LifeNext
  BY <1>3, <1>4, <1>5, <1>8, Zenon DEF LifeNext
<1>9. QED BY <1>6, <1>7, <1>8 DEF Next

LEMMA MixturesInclude ==
  ASSUME Honest
  PROVE  \A have \in {[p \in Players |-> Owned(p)], saved} : Within(have)
<1>1. Have(Players) = [p \in Players |-> Owned(p)]
  BY DEF Have
<1>2. Have({}) = saved
  BY DEF Have, Honest, Stocked
<1>3. Within(Have(Players)) /\ Within(Have({}))
  BY DEF Honest, Bounded
<1>4. QED BY <1>1, <1>2, <1>3

\* The inductive invariant of goods and table.
THEOREM HonestyIsInvariant == Spec => [](IInv /\ Honest)
<1>1. Init => IInv /\ Honest
  BY InitIInv, InitHonest
<1>2. (IInv /\ Honest) /\ [Next]_vars => (IInv /\ Honest)'
  BY NextIInv, NextHonest
<1>3. QED BY <1>1, <1>2, PTL DEF Spec

\* No stack grows beyond what there is of its kind, and no purse beyond its
\* cap, on whichever side of a trade, in memory and in the database.
THEOREM TypeIsInvariant == Spec => []TypeOK
<1>1. IInv /\ Honest => TypeOK
  <2> SUFFICES ASSUME IInv, Honest PROVE TypeOK
    OBVIOUS
  <2>1. inv \in [Players -> [Slots -> Stack]]
    <3>1. inv = [r \in Players |-> inv[r]]
      BY DEF Honest, Stocked
    <3>2. QED BY <3>1, BagsAreLow
  <2>2. saved \in [Players -> [inv : [Slots -> Stack], money : 0..MaxMoney]]
    <3>1. saved = [r \in Players |-> saved[r]]
      BY DEF Honest, Stocked
    <3>2. \A r \in Players : saved[r] \in [inv : [Slots -> Stack], money : 0..MaxMoney]
      BY BagsAreLow DEF Honest, Stocked
    <3>3. QED BY <3>1, <3>2
  <2>3. QED BY <2>1, <2>2 DEF IInv, Shaped, Honest, Stocked, Makings, TypeOK
<1>2. QED BY <1>1, HonestyIsInvariant, PTL

\* However trades, saves, logouts and crashes are interleaved, and whatever
\* is spent meanwhile, no item is in two places (doTrade(), commitTrade()).
THEOREM ItemsAreNeverDuplicated ==
  Spec => [](\A have \in {[p \in Players |-> Owned(p)], saved} : NoMoreItems(have))
<1>1. IInv /\ Honest => \A have \in {[p \in Players |-> Owned(p)], saved} : NoMoreItems(have)
  BY MixturesInclude DEF Within
<1>2. QED BY <1>1, HonestyIsInvariant, PTL

\* Nor is a taro, but for those that trades forge: what players have, in
\* memory and in the database, is what the game handed out and tradeConfirm()
\* paid out without being able to collect it.
THEOREM NothingIsEverDuplicated == Spec => []NothingIsDuplicated
<1>1. IInv /\ Honest => NothingIsDuplicated
  BY MixturesInclude DEF Within, NothingIsDuplicated
<1>2. QED BY <1>1, HonestyIsInvariant, PTL

-----------------------------------------------------------------------------
(* What is on the table is in the pocket.                                  *)

LEMMA CoversAll ==
  ASSUME Honest, Shaped
  PROVE  OffersAreCovered <=> \A p \in Players : trading[p] => cash[p] <= money[p]
BY DEF OffersAreCovered, Honest, GoneAreIdle, Shaped

\* A step after which nobody trades who did not, and who trades has as much.
LEMMA CoveredStill ==
  ASSUME OffersAreCovered, Honest, Shaped, online' \subseteq Players,
         \A p \in Players : trading'[p] =>
            cash'[p] <= money'[p] \/ (trading[p] /\ cash'[p] = cash[p] /\ money'[p] = money[p])
  PROVE  OffersAreCovered'
BY CoversAll DEF OffersAreCovered

LEMMA TradeCovers ==
  ASSUME OffersAreCovered, IInv, Honest, NEW p \in Players,
         \/ TradeOfferAccept(p) \/ TradeConfirm(p) \/ TradeConfirmCancel(p)
         \/ \E i \in TradeSlots, n \in Slots : TradeRegisterItem(p, i, n)
         \/ \E i \in TradeSlots : TradeUnregisterItem(p, i)
         \/ \E n \in 0..MaxMoney : TradeRegisterCash(p, n)
  PROVE  OffersAreCovered' /\ made'.forged = made.forged
<1> USE DEF goods, flags, table, clients
<1>1. Shaped /\ Stocked /\ online' \subseteq Players
  BY DEF IInv, Shaped, Honest, TradeOfferAccept, TradeConfirm, TradeConfirmCancel,
         TradeRegisterItem, TradeUnregisterItem, TradeRegisterCash
<1>2. CASE TradeOfferAccept(p)
  <2> DEFINE q == accepting[p]
  <2>1. /\ UNCHANGED <<money, made>>
        /\ \/ UNCHANGED <<trading, cash>>
           \/ /\ trading' = [r \in Players |-> IF r \in {p, q} THEN TRUE ELSE trading[r]]
              /\ cash' = [r \in Players |-> IF r \in {p, q} THEN 0 ELSE cash[r]]
    BY <1>2 DEF TradeOfferAccept
  <2> HIDE DEF q
  <2>2. \A r \in Players : money[r] \in Nat
    BY <1>1, SizesAreNatural DEF Stocked
  <2>3. \A r \in Players : trading'[r] =>
          cash'[r] <= money'[r] \/ (trading[r] /\ cash'[r] = cash[r] /\ money'[r] = money[r])
    <3>1. SUFFICES ASSUME NEW r \in Players, trading'[r]
                   PROVE  \/ cash'[r] <= money'[r]
                          \/ trading[r] /\ cash'[r] = cash[r] /\ money'[r] = money[r]
      OBVIOUS
    <3>2. CASE UNCHANGED <<trading, cash>>
      BY <2>1, <3>1, <3>2
    <3>3. CASE /\ trading' = [t \in Players |-> IF t \in {p, q} THEN TRUE ELSE trading[t]]
               /\ cash' = [t \in Players |-> IF t \in {p, q} THEN 0 ELSE cash[t]]
      <4>1. CASE r \in {p, q}
        <5>1. cash'[r] = 0 /\ money'[r] \in Nat
          BY <2>1, <2>2, <3>3, <4>1
        <5>2. QED BY <5>1
      <4>2. CASE r \notin {p, q}
        BY <2>1, <3>1, <3>3, <4>2
      <4>3. QED BY <4>1, <4>2
    <3>4. QED BY <2>1, <3>2, <3>3
  <2>4. QED BY <1>1, <2>1, <2>3, CoveredStill
<1>3. CASE TradeConfirm(p)
  <2>1. PICK q \in online :
          \/ UNCHANGED <<trading, money, made>>
          \/ /\ trading' = [trading EXCEPT ![p] = FALSE, ![q] = FALSE]
             /\ \/ UNCHANGED <<money, made>>
                \/ /\ trading[p] /\ trading[q]
                   /\ money' = [money EXCEPT ![p] = Pay(@, cash[p], cash[q]),
                                             ![q] = Pay(@, cash[q], cash[p])]
                   /\ made' = [made EXCEPT !.forged = @ + Owing(p) + Owing(q)]
    BY <1>3 DEF TradeConfirm
  <2>2. cash' = cash /\ q \in Players
    BY <1>1, <1>3 DEF TradeConfirm, Shaped
  <2>3. \A r \in Players : trading'[r] =>
          trading[r] /\ cash'[r] = cash[r] /\ money'[r] = money[r]
    BY <1>1, <2>1, <2>2 DEF Shaped, Stocked
  <2>4. trading[p] /\ trading[q] => Owing(p) = 0 /\ Owing(q) = 0
    BY <1>1, <2>2, CoversAll DEF Owing
  <2>5. made'.forged = made.forged
    BY <1>1, <2>1, <2>4 DEF Stocked, Makings
  <2>6. QED BY <1>1, <2>3, <2>5, CoveredStill
<1>4. CASE TradeConfirmCancel(p)
  <2>1. /\ UNCHANGED <<money, made, cash>> /\ with[p] \in Players
        /\ \/ trading' = [trading EXCEPT ![p] = FALSE, ![with[p]] = FALSE]
           \/ trading' = trading
    BY <1>1, <1>4 DEF TradeConfirmCancel, Shaped
  <2>2. \A r \in Players : trading'[r] =>
          trading[r] /\ cash'[r] = cash[r] /\ money'[r] = money[r]
    BY <1>1, <2>1 DEF Shaped
  <2>3. QED BY <1>1, <2>1, <2>2, CoveredStill
<1>5. CASE \/ \E i \in TradeSlots, n \in Slots : TradeRegisterItem(p, i, n)
           \/ \E i \in TradeSlots : TradeUnregisterItem(p, i)
  <2>1. UNCHANGED <<trading, money, made, cash>>
    BY <1>5 DEF TradeRegisterItem, TradeUnregisterItem
  <2>2. QED BY <1>1, <2>1, CoveredStill
<1>6. ASSUME NEW n \in 0..MaxMoney, TradeRegisterCash(p, n)
      PROVE  OffersAreCovered' /\ made'.forged = made.forged
  <2>1. UNCHANGED <<trading, money, made>> /\ cash' = [cash EXCEPT ![p] = n] /\ n <= money[p]
    BY <1>6 DEF TradeRegisterCash
  <2>2. \A r \in Players : trading'[r] =>
          cash'[r] <= money'[r] \/ (trading[r] /\ cash'[r] = cash[r] /\ money'[r] = money[r])
    BY <1>1, <2>1 DEF Shaped
  <2>3. QED BY <1>1, <2>1, <2>2, CoveredStill
<1>7. QED BY <1>2, <1>3, <1>4, <1>5, <1>6

LEMMA LifeCovers ==
  ASSUME OffersAreCovered, IInv, Honest, LifeNext \/ UNCHANGED vars,
         ~ \E p \in Players : trading[p] /\ SpendMoney(p)
  PROVE  OffersAreCovered' /\ made'.forged = made.forged
<1> USE DEF goods, flags, table, clients
<1>1. Shaped /\ Stocked
  BY DEF IInv, Honest
<1>2. ASSUME NEW p \in Players, \/ \E k \in Items : GainItem(p, k)
                                \/ \E n \in Slots : LoseItem(p, n)
                                \/ \E m, n \in Slots : MoveItem(p, m, n)
                                \/ SavePlayer(p)
      PROVE  OffersAreCovered' /\ made'.forged = made.forged
  <2>1. UNCHANGED <<online, trading, money, cash>> /\ made'.forged = made.forged
    BY <1>1, <1>2 DEF GainItem, LoseItem, MoveItem, SavePlayer, Stocked, Makings
  <2>2. QED BY <1>1, <2>1, CoveredStill DEF Shaped
<1>3. ASSUME NEW p \in Players, GainMoney(p)
      PROVE  OffersAreCovered' /\ made'.forged = made.forged
  <2>1. /\ UNCHANGED <<online, trading, cash>> /\ made'.forged = made.forged
        /\ money' = [money EXCEPT ![p] = Pay(@, 0, 1)]
    BY <1>1, <1>3 DEF GainMoney, Stocked, Makings
  <2>2. /\ Pay(money[p], 0, 1) \in Nat /\ Pay(money[p], 0, 1) >= money[p]
        /\ \A r \in Players : money[r] \in Nat /\ cash[r] \in Nat
    BY <1>1, SizesAreNatural DEF Pay, Stocked
  <2>3. ASSUME NEW r \in Players, trading[r] PROVE cash[r] <= money'[r]
    <3>1. cash[r] <= money[r]
      BY <1>1, <2>3, CoversAll
    <3>2. money'[r] >= money[r] /\ money'[r] \in Nat
      BY <1>1, <2>1, <2>2 DEF Stocked
    <3>3. QED BY <2>2, <3>1, <3>2
  <2>4. QED BY <1>1, <2>1, <2>3, CoveredStill DEF Shaped
<1>4. ASSUME NEW p \in Players, SpendMoney(p)
      PROVE  OffersAreCovered' /\ made'.forged = made.forged
  <2>1. /\ UNCHANGED <<online, trading, cash, made>> /\ ~ trading[p]
        /\ \A r \in Players \ {p} : money'[r] = money[r]
    BY <1>1, <1>4 DEF SpendMoney, Stocked
  <2>2. QED BY <1>1, <2>1, CoveredStill DEF Shaped
<1>5. ASSUME NEW p \in Players, Login(p)
      PROVE  OffersAreCovered' /\ made'.forged = made.forged
  <2>1. /\ UNCHANGED <<trading, cash, made>> /\ ~ trading[p] /\ online' = online \cup {p}
        /\ \A r \in Players \ {p} : money'[r] = money[r]
    BY <1>1, <1>5 DEF Login, Stocked, Honest, GoneAreIdle
  <2>2. QED BY <1>1, <2>1, CoveredStill DEF Shaped
<1>6. ASSUME NEW S \in SUBSET Players, Freed(S), UNCHANGED made
      PROVE  OffersAreCovered' /\ made'.forged = made.forged
  <2>1. /\ online' = online \ S
        /\ money' = [r \in Players |-> IF r \in S THEN 0 ELSE money[r]]
        /\ trading' = [r \in Players |-> IF r \in S THEN FALSE ELSE trading[r]]
        /\ cash' = [r \in Players |-> IF r \in S THEN 0 ELSE cash[r]]
    BY <1>6 DEF Freed
  <2>2. QED BY <1>1, <1>6, <2>1, CoveredStill DEF Shaped
<1>7. CASE UNCHANGED vars
  <2>1. UNCHANGED <<online, trading, money, cash, made>>
    BY <1>7 DEF vars
  <2>2. QED BY <1>1, <2>1, CoveredStill DEF Shaped
<1>8. ASSUME NEW p \in Players, Logout(p) PROVE Freed({p}) /\ UNCHANGED made
  BY <1>8 DEF Logout
<1>9. CASE Crash
  BY <1>6, <1>9 DEF Crash
<1>10. QED BY <1>2, <1>3, <1>4, <1>5, <1>6, <1>7, <1>8, <1>9 DEF LifeNext

\* As long as what is on the table is in the pockets, no trade forges taros,
\* and only a player that spends some while it trades can end that: neither
\* trades that overtake each other nor new logins can (tradeRegisterCash(),
\* tradeConfirm()).
THEOREM OnlySpendingUncovers ==
  Spec => [][OffersAreCovered =>
               \/ OffersAreCovered' /\ made'.forged = made.forged
               \/ \E p \in Players : trading[p] /\ SpendMoney(p)]_vars
<1>1. IInv /\ Honest /\ [Next]_vars =>
        [OffersAreCovered =>
           \/ OffersAreCovered' /\ made'.forged = made.forged
           \/ \E p \in Players : trading[p] /\ SpendMoney(p)]_vars
  <2> SUFFICES ASSUME IInv, Honest, [Next]_vars, OffersAreCovered,
                      ~ \E p \in Players : trading[p] /\ SpendMoney(p)
               PROVE  OffersAreCovered' /\ made'.forged = made.forged
    OBVIOUS
  <2>1. CASE LifeNext \/ UNCHANGED vars
    BY <2>1, LifeCovers
  <2>2. CASE \E p, q \in Players : TradeOffer(p, q) \/ \E yes \in BOOLEAN : AnswerOffer(q, p, yes)
    <3>1. UNCHANGED <<online, trading, money, cash, made>>
      BY <2>2 DEF TradeOffer, AnswerOffer, goods, flags, table
    <3>2. QED BY <3>1, CoveredStill DEF IInv, Shaped
  <2>3. CASE TradeNext
    BY <2>2, <2>3, TradeCovers DEF TradeNext
  <2>4. QED BY <2>1, <2>3 DEF Next
<1>2. QED BY <1>1, HonestyIsInvariant, PTL DEF Spec
=============================================================================
