---------------------------- MODULE BuddiesProofs ----------------------------
(***************************************************************************)
(* In Buddies.tla the lists in memory and the tables agree, with any       *)
(* number of players and slots.                                            *)
(***************************************************************************)
EXTENDS Buddies, FiniteSetTheorems, WellFoundedInduction, TLAPS

\* A list without doubles, in which free slots are as good as new and p itself
\* is not.
Tidy(L, p) ==
  /\ L \in [Slots -> Entry]
  /\ \A i \in Slots : L[i].who # p /\ (L[i].who = NoBuddy => L[i] = Free)
  /\ \A i, j \in Slots : L[i].who = L[j].who /\ L[i].who # NoBuddy => i = j

Shaped ==
  /\ online \subseteq rows /\ rows \subseteq Chars
  /\ list \in [Chars -> [Slots -> Entry]]
  /\ friends \subseteq rows \X rows
  /\ blocks \subseteq rows \X rows
  /\ asked \subseteq Chars \X online

\* In the tables nobody is a friend of whom it blocks, or its own.
TablesAgree ==
  \A p, q \in Chars :
    /\ <<p, q>> \in blocks => p # q /\ <<p, q>> \notin friends /\ <<q, p>> \notin friends
    /\ <<p, q>> \in friends => p # q

\* Whoever waits for an answer does not block whom it asked.
AskedAreWelcome ==
  \A p, q \in Chars : <<p, q>> \in asked => p # q /\ <<p, q>> \notin blocks

IInv ==
  /\ Shaped /\ TablesAgree /\ AskedAreWelcome
  /\ \A p \in Chars : Tidy(list[p], p)
  /\ ListsAgree

-----------------------------------------------------------------------------
(* Slots.                                                                  *)

LEMMA LeastNatural ==
  ASSUME NEW S \in SUBSET Nat, S # {}
  PROVE  \E i \in S : \A j \in S : i <= j
<1>1. PICK i \in S : \A j \in S : ~ (<<j, i>> \in OpToRel(<, Nat))
  BY NatLessThanWellFounded, WFMin
<1>2. \A j \in S : ~ (j < i)
  BY <1>1 DEF OpToRel
<1>3. QED BY <1>2

\* getAvailableBuddySlot() returns a free slot if there is one.
LEMMA FreeSlotIsFree ==
  ASSUME NEW p, FreeSlots(p) # {}
  PROVE  FreeSlot(p) \in Slots /\ list[p][FreeSlot(p)].who = NoBuddy
<1>1. FreeSlots(p) \in SUBSET Nat
  BY DEF FreeSlots, Slots
<1>2. FreeSlot(p) \in FreeSlots(p)
  BY <1>1, LeastNatural DEF FreeSlot
<1>3. QED BY <1>2 DEF FreeSlots

In(L, q, b) == \E i \in Slots : L[i] = [who |-> q, blocked |-> b]

LEMMA ListsIn == \A p, q, b : Lists(p, q, b) <=> In(list[p], q, b)
BY DEF Lists, In

Put(L, i, q, b) == [L EXCEPT ![i] = [who |-> q, blocked |-> b]]

\* A free slot is filled.
LEMMA Filled ==
  ASSUME NEW p \in Chars, NEW L, Tidy(L, p), NEW i \in Slots, L[i].who = NoBuddy,
         NEW q \in Chars, q # p, SlotsOf(L, q) = {}, NEW b \in BOOLEAN,
         NEW M, M = Put(L, i, q, b)
  PROVE  /\ Tidy(M, p)
         /\ \A r \in Chars, c \in BOOLEAN : In(M, r, c) <=> In(L, r, c) \/ (r = q /\ c = b)
<1>1. NoBuddy \notin Chars
  BY SlotsExist
<1>2. \A j \in Slots : L[j].who # q /\ L[j] \in Entry
  BY DEF SlotsOf, Tidy
<1>3. L \in [Slots -> Entry]
  BY DEF Tidy
<1>4. M \in [Slots -> Entry]
  BY <1>3 DEF Entry, Put
<1>5. M[i] = [who |-> q, blocked |-> b] /\ \A j \in Slots \ {i} : M[j] = L[j]
  BY <1>3 DEF Put
<1>6. Tidy(M, p)
  BY <1>1, <1>2, <1>4, <1>5 DEF Tidy
<1>7. ASSUME NEW r \in Chars, NEW c \in BOOLEAN
      PROVE  In(M, r, c) <=> In(L, r, c) \/ (r = q /\ c = b)
  BY <1>1, <1>5 DEF In
<1>8. QED BY <1>6, <1>7

\* A slot is vacated.
LEMMA Vacated ==
  ASSUME NEW p \in Chars, NEW L, Tidy(L, p), NEW i \in Slots, L[i].who # NoBuddy,
         NEW M, M = [L EXCEPT ![i] = Free]
  PROVE  /\ Tidy(M, p)
         /\ \A r \in Chars, c \in BOOLEAN : In(M, r, c) <=> In(L, r, c) /\ r # L[i].who
<1>1. NoBuddy \notin Chars
  BY SlotsExist
<1>2. L \in [Slots -> Entry]
  BY DEF Tidy
<1>3. M \in [Slots -> Entry]
  BY <1>2 DEF Entry, Free
<1>4. M[i] = Free /\ \A j \in Slots \ {i} : M[j] = L[j]
  BY <1>2
<1>5. Tidy(M, p)
  BY <1>1, <1>2, <1>3, <1>4 DEF Tidy, Free
<1>6. ASSUME NEW r \in Chars, NEW c \in BOOLEAN
      PROVE  In(M, r, c) <=> In(L, r, c) /\ r # L[i].who
  BY <1>1, <1>4 DEF In, Tidy, Free
<1>7. QED BY <1>5, <1>6

Mark(L, i) == [L EXCEPT ![i].blocked = TRUE]

\* The friend in a slot is blocked.
LEMMA Marked ==
  ASSUME NEW p \in Chars, NEW L, Tidy(L, p), NEW i \in Slots,
         NEW q, q = L[i].who, q # NoBuddy, NEW M, M = Mark(L, i)
  PROVE  /\ Tidy(M, p)
         /\ \A r \in Chars : /\ In(M, r, TRUE) <=> r = q \/ In(L, r, TRUE)
                             /\ In(M, r, FALSE) <=> r # q /\ In(L, r, FALSE)
<1>1. NoBuddy \notin Chars
  BY SlotsExist
<1>2. L \in [Slots -> Entry]
  BY DEF Tidy
<1>3. M[i] = [who |-> q, blocked |-> TRUE] /\ \A j \in Slots \ {i} : M[j] = L[j]
  BY <1>2 DEF Entry, Mark
<1>4. M \in [Slots -> Entry]
  BY <1>2 DEF Entry, Mark
<1>5. Tidy(M, p)
  BY <1>2, <1>3, <1>4 DEF Tidy
<1>6. \A j \in Slots \ {i} : L[j].who # q
  BY DEF Tidy
<1>7. ASSUME NEW r \in Chars
      PROVE  In(M, r, TRUE) <=> r = q \/ In(L, r, TRUE)
  <2>1. CASE r = q
    BY <1>3, <2>1 DEF In
  <2>2. CASE r # q
    <3>1. L[i].who # r /\ M[i].who # r
      BY <1>3, <2>2
    <3> DEFINE e == [who |-> r, blocked |-> TRUE]
    <3>2. e.who = r
      OBVIOUS
    <3> HIDE DEF e
    <3>3. \A j \in Slots : M[j] = e <=> L[j] = e
      BY <1>3, <3>1, <3>2
    <3>4. QED BY <2>2, <3>3 DEF In, e
  <2>3. QED BY <2>1, <2>2
<1>8. ASSUME NEW r \in Chars
      PROVE  In(M, r, FALSE) <=> r # q /\ In(L, r, FALSE)
  <2>1. ASSUME NEW j \in Slots, M[j] = [who |-> q, blocked |-> FALSE] PROVE FALSE
    <3>1. M[j].who = q /\ M[j].blocked = FALSE /\ M[i].blocked = TRUE
      BY <1>3, <2>1
    <3>2. QED BY <1>3, <1>6, <3>1
  <2>2. CASE r = q
    BY <2>1, <2>2 DEF In
  <2>3. CASE r # q
    <3>1. L[i].who # r /\ M[i].who # r
      BY <1>3, <2>3
    <3> DEFINE e == [who |-> r, blocked |-> FALSE]
    <3>2. e.who = r
      OBVIOUS
    <3> HIDE DEF e
    <3>3. \A j \in Slots : M[j] = e <=> L[j] = e
      BY <1>3, <3>1, <3>2
    <3>4. QED BY <2>3, <3>3 DEF In, e
  <2>4. QED BY <2>2, <2>3
<1>9. QED BY <1>5, <1>7, <1>8

\* Who is loaded in as many slots as there are friends and blocked is loaded
\* in one slot each.
LEMMA Loaded ==
  ASSUME NEW p \in Chars, p \notin Friends(p) \cup Blocked(p),
         Friends(p) \cap Blocked(p) = {}, NEW L \in Loads(p)
  PROVE  /\ Tidy(L, p)
         /\ \A q \in Chars : /\ In(L, q, FALSE) <=> q \in Friends(p)
                             /\ In(L, q, TRUE) <=> q \in Blocked(p)
<1> DEFINE F == Friends(p)
           B == Blocked(p)
           filled == {i \in Slots : L[i].who # NoBuddy}
           f == [i \in filled |-> L[i].who]
<1>1. /\ L \in [Slots -> Entry]
      /\ \A q \in Chars : /\ In(L, q, FALSE) <=> q \in F
                          /\ In(L, q, TRUE) <=> q \in B
      /\ \A i \in Slots : L[i].who = NoBuddy => L[i] = Free
      /\ \A i \in Slots : L[i].who # NoBuddy => i <= Cardinality(F) + Cardinality(B)
  <2>1. /\ L \in [Slots -> Entry]
        /\ \A q \in Chars :
             /\ q \in F <=> \E i \in Slots : L[i] = [who |-> q, blocked |-> FALSE]
             /\ q \in B <=> \E i \in Slots : L[i] = [who |-> q, blocked |-> TRUE]
        /\ \A i \in Slots :
             IF i <= Cardinality(F) + Cardinality(B)
             THEN L[i].who # NoBuddy /\ (L[i].blocked <=> i > Cardinality(F))
             ELSE L[i] = Free
    BY DEF Loads
  <2> HIDE DEF F, B
  <2>2. \A q \in Chars : /\ In(L, q, FALSE) <=> q \in F
                         /\ In(L, q, TRUE) <=> q \in B
    BY <2>1 DEF In
  <2>3. Free.who = NoBuddy
    BY DEF Free
  <2>4. QED BY <2>1, <2>2, <2>3
<1>2. F \subseteq Chars /\ B \subseteq Chars /\ F \cap B = {} /\ p \notin F \cup B
  BY DEF Friends, Blocked
<1> HIDE DEF F, B
<1>3. NoBuddy \notin Chars
  BY SlotsExist
<1>4. \A i \in filled : L[i].who \in F \cup B
  <2> SUFFICES ASSUME NEW i \in filled PROVE L[i].who \in F \cup B
    OBVIOUS
  <2>1. L[i].who \in Chars /\ L[i] = [who |-> L[i].who, blocked |-> L[i].blocked] /\ L[i].blocked \in BOOLEAN
    BY <1>1 DEF Entry
  <2>2. CASE L[i].blocked = TRUE
    <3>1. In(L, L[i].who, TRUE)
      BY <2>1, <2>2 DEF In
    <3>2. QED BY <1>1, <2>1, <3>1
  <2>3. CASE L[i].blocked = FALSE
    <3>1. In(L, L[i].who, FALSE)
      BY <2>1, <2>3 DEF In
    <3>2. QED BY <1>1, <2>1, <3>1
  <2>4. QED BY <2>1, <2>2, <2>3
<1>5. \A q \in F \cup B : \E i \in filled : L[i].who = q
  <2> SUFFICES ASSUME NEW q \in F \cup B PROVE \E i \in filled : L[i].who = q
    OBVIOUS
  <2>1. q \in Chars /\ q # NoBuddy
    BY <1>2, <1>3
  <2>2. In(L, q, FALSE) \/ In(L, q, TRUE)
    BY <1>1, <2>1
  <2>3. QED BY <2>1, <2>2 DEF In
<1>6. f \in Surjection(filled, F \cup B)
  BY <1>4, <1>5 DEF Surjection
<1>7. IsFiniteSet(filled)
  <2>1. IsFiniteSet(Slots)
    BY SlotsExist, FS_Interval DEF Slots
  <2>2. QED BY <2>1, FS_Subset
<1>8. /\ IsFiniteSet(F \cup B) /\ Cardinality(F \cup B) <= Cardinality(filled)
      /\ Cardinality(F \cup B) = Cardinality(filled) <=> f \in Injection(filled, F \cup B)
  BY <1>6, <1>7, FS_Surjection
<1>9. Cardinality(F \cup B) = Cardinality(F) + Cardinality(B) /\ Cardinality(F \cup B) \in Nat
  <2>1. IsFiniteSet(F) /\ IsFiniteSet(B)
    BY <1>8, FS_Subset
  <2>2. Cardinality(F \cup B) = Cardinality(F) + Cardinality(B) - Cardinality({})
    BY <1>2, <2>1, FS_Union
  <2>3. Cardinality({}) = 0 /\ Cardinality(F) \in Nat /\ Cardinality(B) \in Nat
    BY <2>1, FS_EmptySet, FS_CardinalityType
  <2>4. QED BY <2>2, <2>3
<1>10. Cardinality(filled) <= Cardinality(F \cup B) /\ Cardinality(filled) \in Nat
  <2> DEFINE n == Cardinality(F \cup B)
  <2>1. filled \subseteq 1..n
    BY <1>1, <1>9 DEF Slots
  <2>2. IsFiniteSet(1..n) /\ Cardinality(1..n) = n
    BY <1>9, FS_Interval
  <2>3. QED BY <1>7, <2>1, <2>2, FS_Subset, FS_CardinalityType
<1>11. f \in Injection(filled, F \cup B)
  BY <1>8, <1>9, <1>10
<1>12. \A i, j \in Slots : L[i].who = L[j].who /\ L[i].who # NoBuddy => i = j
  BY <1>11 DEF Injection, IsInjective
<1>13. \A i \in Slots : L[i].who # p
  BY <1>2, <1>3, <1>4
<1>14. QED BY <1>1, <1>12, <1>13 DEF Tidy, F, B

\* What L says of the characters that exist, and what the tables say.
Matches(L, R, F, B) ==
  \A q \in R : (In(L, q, FALSE) <=> q \in F) /\ (In(L, q, TRUE) <=> q \in B)

LEMMA Agreement ==
  ListsAgree <=> \A p \in online : Matches(list[p], rows, Friends(p), Blocked(p))
BY ListsIn DEF ListsAgree, Matches

\* The slot of q in which p is, if q is online, is vacated.
LEMMA Forgets ==
  ASSUME NEW p \in Chars, NEW q \in Chars, NEW L \in [Chars -> [Slots -> Entry]],
         Tidy(L[q], q), q \in online => ~ In(L[q], p, TRUE)
  PROVE  \E N : /\ Forget(L, q, p) = [L EXCEPT ![q] = N]
               /\ Tidy(N, q)
               /\ \A r \in Chars, c \in BOOLEAN :
                    In(N, r, c) <=> In(L[q], r, c) /\ ~ (q \in online /\ r = p)
<1>1. NoBuddy \notin Chars
  BY SlotsExist
<1>2. CASE q \in online /\ SlotsOf(L[q], p) # {}
  <2> DEFINE first == CHOOSE i \in SlotsOf(L[q], p) : \A j \in SlotsOf(L[q], p) : i <= j
             N == [L[q] EXCEPT ![first] = Free]
  <2>1. first \in SlotsOf(L[q], p)
    <3>1. SlotsOf(L[q], p) \in SUBSET Nat
      BY DEF SlotsOf, Slots
    <3>2. QED BY <1>2, <3>1, LeastNatural
  <2>2. Forget(L, q, p) = [L EXCEPT ![q][first].who = NoBuddy]
    BY <1>2 DEF Forget
  <2> HIDE DEF first
  <2>3. first \in Slots /\ L[q][first].who = p /\ L[q] \in [Slots -> Entry]
    BY <2>1 DEF SlotsOf
  <2>4. L[q][first] = [who |-> p, blocked |-> FALSE]
    <3>1. L[q][first] \in Entry
      BY <2>3
    <3>2. L[q][first] = [who |-> p, blocked |-> L[q][first].blocked]
      BY <2>3, <3>1 DEF Entry
    <3>3. L[q][first].blocked # TRUE
      BY <1>2, <2>3, <3>2 DEF In
    <3>4. L[q][first].blocked = FALSE
      BY <3>1, <3>3 DEF Entry
    <3>5. QED BY <3>2, <3>4
  <2>5. [L[q][first] EXCEPT !.who = NoBuddy] = Free
    <3> DEFINE e == [L[q][first] EXCEPT !.who = NoBuddy]
    <3>1. L[q][first] \in Entry
      BY <2>3
    <3>2. L[q][first].blocked = FALSE
      BY <2>4
    <3>3. e \in Entry /\ e.who = NoBuddy /\ e.blocked = FALSE
      BY <3>1, <3>2 DEF Entry
    <3> HIDE DEF e
    <3>4. e = Free
      BY <3>3 DEF Entry, Free
    <3>5. QED BY <3>4 DEF e
  <2>6. Forget(L, q, p) = [L EXCEPT ![q] = N]
    <3>1. Forget(L, q, p) = [L EXCEPT ![q] = [L[q] EXCEPT ![first] = [L[q][first] EXCEPT !.who = NoBuddy]]]
      BY <2>2
    <3>2. QED BY <2>5, <3>1
  <2>7. /\ Tidy(N, q)
        /\ \A r \in Chars, c \in BOOLEAN : In(N, r, c) <=> In(L[q], r, c) /\ r # p
    <3>1. L[q][first].who # NoBuddy
      BY <1>1, <2>3
    <3>2. /\ Tidy(N, q)
          /\ \A r \in Chars, c \in BOOLEAN : In(N, r, c) <=> In(L[q], r, c) /\ r # L[q][first].who
      BY <2>3, <3>1, Vacated
    <3>3. QED BY <2>3, <3>2
  <2> HIDE DEF N
  <2>8. QED BY <1>2, <2>6, <2>7
<1>3. CASE ~ (q \in online /\ SlotsOf(L[q], p) # {})
  <2>1. Forget(L, q, p) = [L EXCEPT ![q] = L[q]]
    BY <1>3 DEF Forget
  <2>2. q \in online => \A c \in BOOLEAN : ~ In(L[q], p, c)
    BY <1>3 DEF SlotsOf, In
  <2>3. QED BY <2>1, <2>2
<1>4. QED BY <1>2, <1>3

-----------------------------------------------------------------------------
(* The steps.                                                              *)

LEMMA NoListIsTidy == \A p \in Chars : Tidy(NoList, p)
BY SlotsExist DEF Tidy, NoList, Free, Entry

LEMMA InitIInv == Init => IInv
<1> SUFFICES ASSUME Init PROVE IInv
  OBVIOUS
<1>1. Shaped /\ TablesAgree /\ AskedAreWelcome /\ ListsAgree
  BY DEF Init, Shaped, TablesAgree, AskedAreWelcome, ListsAgree, NoList, Free, Entry
<1>2. QED BY <1>1, NoListIsTidy DEF Init, IInv

LEMMA LoginIInv ==
  ASSUME IInv, NEW p \in Chars, Login(p)
  PROVE  IInv'
<1>1. PICK L \in Loads(p) : list' = [list EXCEPT ![p] = L]
  BY DEF Login
<1>2. p \in rows \ online /\ online' = online \cup {p} /\ UNCHANGED <<rows, friends, blocks, asked>>
  BY DEF Login, dbVars
<1>3. p \notin Friends(p) \cup Blocked(p) /\ Friends(p) \cap Blocked(p) = {}
  BY DEF Friends, Blocked, IInv, TablesAgree
<1>4. /\ Tidy(L, p)
      /\ \A q \in Chars : (In(L, q, FALSE) <=> q \in Friends(p)) /\ (In(L, q, TRUE) <=> q \in Blocked(p))
  BY <1>3, Loaded
<1>5. Shaped' /\ \A q \in Chars : Tidy(list'[q], q)
  BY <1>1, <1>2, <1>4 DEF IInv, Shaped, Tidy
<1>6. Matches(L, rows, Friends(p), Blocked(p))
  BY <1>4 DEF Matches, IInv, Shaped
<1>7. \A q \in online' : Matches(list'[q], rows, Friends(q), Blocked(q))
  BY <1>1, <1>2, <1>6, Agreement DEF IInv, Shaped
<1>8. ListsAgree'
  BY <1>2, <1>7, Agreement DEF ListsAgree, Matches, Lists, In, Friends, Blocked
<1>9. QED BY <1>2, <1>5, <1>8 DEF IInv, TablesAgree, AskedAreWelcome

LEMMA StillAgree ==
  ASSUME IInv, online' \subseteq online, rows' \subseteq rows,
         \A p \in online' : list'[p] = list[p],
         \A p \in online', q \in rows' : /\ q \in Friends(p)' <=> q \in Friends(p)
                                         /\ q \in Blocked(p)' <=> q \in Blocked(p)
  PROVE  ListsAgree'
<1>1. ASSUME NEW p \in online', NEW q \in rows'
      PROVE  /\ Lists(p, q, FALSE)' <=> q \in Friends(p)'
             /\ Lists(p, q, TRUE)' <=> q \in Blocked(p)'
  <2>1. /\ Lists(p, q, FALSE) <=> q \in Friends(p)
        /\ Lists(p, q, TRUE) <=> q \in Blocked(p)
    BY <1>1 DEF IInv, ListsAgree
  <2>2. \A c : Lists(p, q, c)' <=> Lists(p, q, c)
    BY DEF Lists
  <2>3. QED BY <2>1, <2>2
<1>2. QED BY <1>1 DEF ListsAgree

LEMMA LogoutIInv ==
  ASSUME IInv, NEW p \in Chars, Logout(p)
  PROVE  IInv'
<1>1. /\ p \in online /\ online' = online \ {p} /\ list' = [list EXCEPT ![p] = NoList]
      /\ asked' = {r \in asked : r[2] # p} /\ UNCHANGED <<rows, friends, blocks>>
  BY DEF Logout, dbVars
<1>2. Shaped'
  BY <1>1, NoListIsTidy DEF IInv, Shaped, Tidy
<1>3. \A q \in Chars : Tidy(list'[q], q)
  BY <1>1, NoListIsTidy DEF IInv, Shaped
<1>4. ListsAgree'
  <2>1. \A q : Friends(q)' = Friends(q) /\ Blocked(q)' = Blocked(q)
    BY <1>1 DEF Friends, Blocked
  <2>2. \A q \in online' : list'[q] = list[q]
    BY <1>1 DEF IInv, Shaped
  <2>3. QED BY <1>1, <2>1, <2>2, StillAgree
<1>5. QED BY <1>1, <1>2, <1>3, <1>4 DEF IInv, TablesAgree, AskedAreWelcome

LEMMA DeleteIInv ==
  ASSUME IInv, NEW p \in Chars, DeleteCharacter(p)
  PROVE  IInv'
<1>1. /\ p \in rows \ online /\ rows' = rows \ {p}
      /\ friends' = {r \in friends : p \notin {r[1], r[2]}}
      /\ blocks' = {r \in blocks : p \notin {r[1], r[2]}}
      /\ UNCHANGED <<online, list, asked>>
  BY DEF DeleteCharacter
<1>2. Shaped' /\ TablesAgree' /\ AskedAreWelcome'
  BY <1>1 DEF IInv, Shaped, TablesAgree, AskedAreWelcome
<1>3. \A q, r \in Chars \ {p} : /\ r \in Friends(q)' <=> r \in Friends(q)
                                /\ r \in Blocked(q)' <=> r \in Blocked(q)
  BY <1>1 DEF Friends, Blocked
<1>4. ListsAgree'
  <2>1. online' \subseteq Chars \ {p} /\ rows' \subseteq Chars \ {p}
    BY <1>1 DEF IInv, Shaped
  <2>2. QED BY <1>1, <1>3, <2>1, StillAgree
<1>5. QED BY <1>1, <1>2, <1>4 DEF IInv

\* Whom a player online does not list it neither befriended nor blocked.
LEMMA Unlisted ==
  ASSUME IInv, NEW p \in online, NEW q \in rows
  PROVE  Has(p, q) <=> q \in Friends(p) \cup Blocked(p)
<1>1. Has(p, q) <=> Lists(p, q, TRUE) \/ Lists(p, q, FALSE)
  <2>1. \A i \in Slots : list[p][i] \in Entry
    BY DEF IInv, Shaped
  <2>2. ASSUME NEW i \in Slots, list[p][i].who = q
        PROVE  Lists(p, q, TRUE) \/ Lists(p, q, FALSE)
    <3>1. list[p][i] = [who |-> q, blocked |-> list[p][i].blocked] /\ list[p][i].blocked \in BOOLEAN
      BY <2>1, <2>2 DEF Entry
    <3>2. QED BY <3>1 DEF Lists
  <2>3. ASSUME NEW c \in BOOLEAN, Lists(p, q, c) PROVE Has(p, q)
    BY <2>3 DEF Lists, Has, SlotsOf
  <2>4. Has(p, q) => \E i \in Slots : list[p][i].who = q
    BY DEF Has, SlotsOf
  <2>5. QED BY <2>2, <2>3, <2>4
<1>2. QED BY <1>1 DEF IInv, ListsAgree

\* A request and a no.
LEMMA DialogIInv ==
  ASSUME IInv, NEW p \in Chars, NEW q \in Chars, RequestBuddy(p, q) \/ DeclineBuddy(p, q)
  PROVE  IInv'
<1>1. UNCHANGED <<online, list, rows, friends, blocks>>
  BY DEF RequestBuddy, DeclineBuddy, dbVars
<1>2. \/ asked' \subseteq asked
      \/ asked' = asked \cup {<<p, q>>} /\ p # q /\ p \in online /\ q \in online /\ ~ Has(p, q)
  BY DEF RequestBuddy, DeclineBuddy
<1>3. p \in online /\ q \in online /\ ~ Has(p, q) => <<p, q>> \notin blocks
  BY Unlisted DEF IInv, Shaped, Blocked
<1>4. AskedAreWelcome'
  BY <1>1, <1>2, <1>3 DEF IInv, AskedAreWelcome
<1>5. Shaped'
  BY <1>1, <1>2 DEF IInv, Shaped
<1>6. QED BY <1>1, <1>4, <1>5 DEF IInv, TablesAgree, ListsAgree, Lists, Friends, Blocked

\* The lists of two players change, and what the tables say of them.
LEMMA TwoChange ==
  ASSUME IInv, NEW p \in online, NEW q \in Chars, p # q, NEW M, NEW N,
         list' = [list EXCEPT ![p] = M, ![q] = N], Tidy(M, p), Tidy(N, q),
         UNCHANGED <<online, rows>>,
         Matches(M, rows, Friends(p)', Blocked(p)'),
         q \in online => Matches(N, rows, Friends(q)', Blocked(q)'),
         \A r \in Chars \ {p, q} : Friends(r)' = Friends(r) /\ Blocked(r)' = Blocked(r)
  PROVE  /\ ListsAgree' /\ \A r \in Chars : Tidy(list'[r], r)
         /\ list' \in [Chars -> [Slots -> Entry]]
<1>1. /\ list'[p] = M /\ list'[q] = N /\ \A r \in Chars \ {p, q} : list'[r] = list[r]
      /\ DOMAIN list' = Chars /\ list' = [r \in Chars |-> list'[r]]
  BY DEF IInv, Shaped
<1>2. \A r \in Chars : Tidy(list'[r], r)
  BY <1>1 DEF IInv
<1>3. \A r \in Chars : list'[r] \in [Slots -> Entry]
  BY <1>2 DEF Tidy
<1>4. list' \in [Chars -> [Slots -> Entry]]
  BY <1>1, <1>3
<1>5. \A r \in online : Matches(list'[r], rows, Friends(r)', Blocked(r)')
  <2>1. \A r \in online : Matches(list[r], rows, Friends(r), Blocked(r))
    BY Agreement DEF IInv
  <2>2. QED BY <1>1, <2>1 DEF IInv, Shaped
<1>6. ASSUME NEW r \in online', NEW t \in rows'
      PROVE  /\ Lists(r, t, FALSE)' <=> t \in Friends(r)'
             /\ Lists(r, t, TRUE)' <=> t \in Blocked(r)'
  <2>1. \A c : Lists(r, t, c)' <=> In(list'[r], t, c)
    BY DEF Lists, In
  <2>2. QED BY <1>5, <1>6, <2>1 DEF Matches
<1>7. ListsAgree'
  BY <1>6 DEF ListsAgree
<1>8. QED BY <1>2, <1>4, <1>7

\* removeBuddyship() and the other rows.
LEMMA Parted ==
  ASSUME NEW p \in Chars, NEW q \in Chars, p # q, Part(p, q)
  PROVE  /\ Friends(p)' = Friends(p) \ {q} /\ Friends(q)' = Friends(q) \ {p}
         /\ \A r \in Chars \ {p, q} : Friends(r)' = Friends(r)
BY DEF Part, Friends

\* A yes: the two list each other, and the table has them both.
LEMMA AcceptIInv ==
  ASSUME IInv, NEW p \in Chars, NEW q \in Chars, AcceptBuddy(p, q)
  PROVE  IInv'
<1>1. /\ <<q, p>> \in asked /\ p \in online /\ asked' = asked \ {<<q, p>>}
      /\ UNCHANGED <<online, rows, blocks>>
  BY DEF AcceptBuddy
<1>2. CASE UNCHANGED <<list, friends>>
  <2>1. Shaped' /\ TablesAgree' /\ AskedAreWelcome'
    BY <1>1, <1>2 DEF IInv, Shaped, TablesAgree, AskedAreWelcome
  <2>2. QED BY <1>1, <1>2, <2>1 DEF IInv, ListsAgree, Lists, Friends, Blocked
<1>3. CASE /\ q \in online /\ FreeSlots(p) # {} /\ FreeSlots(q) # {} /\ ~ Has(p, q)
           /\ Befriend(p, q)
  <2>1. p \in rows /\ q \in rows /\ p # q
    BY <1>1, <1>3 DEF IInv, Shaped, AskedAreWelcome
  <2>2. /\ <<p, q>> \notin blocks /\ <<q, p>> \notin blocks
        /\ <<p, q>> \notin friends /\ <<q, p>> \notin friends
    <3>1. q \notin Friends(p) \cup Blocked(p)
      BY <1>1, <1>3, <2>1, Unlisted
    <3>2. QED BY <1>1, <3>1 DEF Friends, Blocked, IInv, AskedAreWelcome
  <2>3. ~ Has(q, p)
    BY <1>3, <2>1, <2>2, Unlisted DEF Friends, Blocked
  <2> DEFINE i == FreeSlot(p)
             j == FreeSlot(q)
             M == Put(list[p], i, q, FALSE)
             N == Put(list[q], j, p, FALSE)
  <2>4. /\ i \in Slots /\ list[p][i].who = NoBuddy
        /\ j \in Slots /\ list[q][j].who = NoBuddy
    BY <1>3, FreeSlotIsFree
  <2>5. list' = [list EXCEPT ![p] = M, ![q] = N]
    <3>1. \A r \in Chars : [Free EXCEPT !.who = r] = [who |-> r, blocked |-> FALSE]
      <4> SUFFICES ASSUME NEW r \in Chars
                   PROVE  [Free EXCEPT !.who = r] = [who |-> r, blocked |-> FALSE]
        OBVIOUS
      <4> DEFINE e == [Free EXCEPT !.who = r]
      <4>1. e \in Entry /\ e.who = r /\ e.blocked = FALSE
        BY DEF Entry, Free
      <4> HIDE DEF e
      <4>2. e = [who |-> r, blocked |-> FALSE]
        BY <4>1 DEF Entry
      <4>3. QED BY <4>2 DEF e
    <3>2. list' = [list EXCEPT ![p] = [list[p] EXCEPT ![i] = [list[p][i] EXCEPT !.who = q]],
                               ![q] = [list[q] EXCEPT ![j] = [list[q][j] EXCEPT !.who = p]]]
      BY <1>3, <2>1 DEF Befriend, IInv, Shaped
    <3>3. list[p][i] = Free /\ list[q][j] = Free
      BY <2>4 DEF IInv, Tidy
    <3>4. QED BY <3>1, <3>2, <3>3 DEF Put
  <2> HIDE DEF i, j
  <2>6. /\ Tidy(M, p)
        /\ \A r \in Chars, c \in BOOLEAN : In(M, r, c) <=> In(list[p], r, c) \/ (r = q /\ c = FALSE)
    <3>1. Tidy(list[p], p) /\ SlotsOf(list[p], q) = {}
      BY <1>3 DEF IInv, Has
    <3>2. \A b \in BOOLEAN :
            /\ Tidy(Put(list[p], i, q, b), p)
            /\ \A r \in Chars, c \in BOOLEAN :
                 In(Put(list[p], i, q, b), r, c) <=> In(list[p], r, c) \/ (r = q /\ c = b)
      BY <2>1, <2>4, <3>1, Filled
    <3>3. QED BY <3>2
  <2>7. /\ Tidy(N, q)
        /\ \A r \in Chars, c \in BOOLEAN : In(N, r, c) <=> In(list[q], r, c) \/ (r = p /\ c = FALSE)
    <3>1. Tidy(list[q], q) /\ SlotsOf(list[q], p) = {}
      BY <2>3 DEF IInv, Has
    <3>2. \A b \in BOOLEAN :
            /\ Tidy(Put(list[q], j, p, b), q)
            /\ \A r \in Chars, c \in BOOLEAN :
                 In(Put(list[q], j, p, b), r, c) <=> In(list[q], r, c) \/ (r = p /\ c = b)
      BY <2>1, <2>4, <3>1, Filled
    <3>3. QED BY <3>2
  <2> HIDE DEF M, N
  <2>8. friends' = friends \cup {<<p, q>>}
    BY <1>3, <2>1 DEF Befriend, Insert
  <2>9. /\ Friends(p)' = Friends(p) \cup {q} /\ Friends(q)' = Friends(q) \cup {p}
        /\ \A r \in Chars \ {p, q} : Friends(r)' = Friends(r)
        /\ \A r : Blocked(r)' = Blocked(r)
    BY <1>1, <2>8 DEF Friends, Blocked
  <2>10. /\ Matches(list[p], rows, Friends(p), Blocked(p))
         /\ Matches(list[q], rows, Friends(q), Blocked(q))
    BY <1>1, <1>3, Agreement DEF IInv
  <2>11. Matches(M, rows, Friends(p)', Blocked(p)') /\ Matches(N, rows, Friends(q)', Blocked(q)')
    BY <2>6, <2>7, <2>9, <2>10 DEF Matches, IInv, Shaped
  <2>12. /\ ListsAgree' /\ \A r \in Chars : Tidy(list'[r], r)
         /\ list' \in [Chars -> [Slots -> Entry]]
    BY <1>1, <1>3, <2>1, <2>5, <2>6, <2>7, <2>9, <2>11, TwoChange
  <2>13. Shaped' /\ TablesAgree' /\ AskedAreWelcome'
    <3>1. Shaped'
      BY <1>1, <2>1, <2>8, <2>12 DEF IInv, Shaped
    <3>2. TablesAgree'
      BY <1>1, <2>1, <2>2, <2>8 DEF IInv, TablesAgree
    <3>3. AskedAreWelcome'
      BY <1>1 DEF IInv, AskedAreWelcome
    <3>4. QED BY <3>1, <3>2, <3>3
  <2>14. QED BY <2>12, <2>13 DEF IInv
<1>4. QED BY <1>2, <1>3 DEF AcceptBuddy

\* The friend in a slot, if it exists, is one in the tables, and does not block
\* whose friend it is.
LEMMA InSlot ==
  ASSUME IInv, NEW p \in online, NEW i \in Slots, list[p][i].who # NoBuddy
  PROVE  LET q == list[p][i].who
         IN /\ q \in Chars /\ q # p
            /\ q \in rows => IF list[p][i].blocked THEN q \in Blocked(p) /\ q \notin Friends(p)
                             ELSE q \in Friends(p) /\ q \notin Blocked(p) /\ p \notin Blocked(q)
<1> DEFINE q == list[p][i].who
<1>1. p \in Chars /\ list[p][i] \in Entry /\ Tidy(list[p], p)
  BY DEF IInv, Shaped
<1>2. q \in Chars /\ q # p
  BY <1>1 DEF Entry, Tidy
<1>3. list[p][i] = [who |-> q, blocked |-> list[p][i].blocked] /\ list[p][i].blocked \in BOOLEAN
  BY <1>1 DEF Entry
<1>4. CASE q \in rows /\ list[p][i].blocked = TRUE
  <2>1. Lists(p, q, TRUE)
    BY <1>3, <1>4 DEF Lists
  <2>2. q \in Blocked(p)
    BY <1>4, <2>1 DEF IInv, ListsAgree
  <2>3. q \notin Friends(p)
    BY <1>1, <1>2, <2>2 DEF IInv, TablesAgree, Friends, Blocked
  <2>4. QED BY <1>2, <1>4, <2>2, <2>3
<1>5. CASE q \in rows /\ list[p][i].blocked = FALSE
  <2>1. Lists(p, q, FALSE)
    BY <1>3, <1>5 DEF Lists
  <2>2. q \in Friends(p)
    BY <1>5, <2>1 DEF IInv, ListsAgree
  <2>3. q \notin Blocked(p) /\ p \notin Blocked(q)
    BY <1>1, <1>2, <2>2 DEF IInv, TablesAgree, Friends, Blocked
  <2>4. QED BY <1>2, <1>5, <2>2, <2>3
<1>6. QED BY <1>2, <1>3, <1>4, <1>5

\* reqPlayerBlock(): the blocked one keeps its list.
LEMMA PlayerBlockIInv ==
  ASSUME IInv, NEW p \in Chars, NEW q \in Chars, PlayerBlock(p, q)
  PROVE  IInv'
<1>1. /\ p # q /\ p \in online /\ q \in online /\ ~ Has(p, q) /\ <<p, q>> \notin asked
      /\ FreeSlots(p) # {} /\ UNCHANGED <<online, rows, friends, asked>>
      /\ p \in rows /\ q \in rows
  BY DEF PlayerBlock, IInv, Shaped
<1>2. blocks' = blocks \cup {<<p, q>>}
  BY <1>1 DEF PlayerBlock, Insert
<1> DEFINE i == FreeSlot(p)
           M == Put(list[p], i, q, TRUE)
           N == list[q]
<1>3. list' = [list EXCEPT ![p] = M, ![q] = N]
  BY <1>1 DEF PlayerBlock, Put, IInv, Shaped
<1>4. i \in Slots /\ list[p][i].who = NoBuddy
  BY <1>1, FreeSlotIsFree
<1> HIDE DEF i
<1>5. /\ Tidy(M, p)
      /\ \A r \in Chars, c \in BOOLEAN : In(M, r, c) <=> In(list[p], r, c) \/ (r = q /\ c = TRUE)
  <2>1. Tidy(list[p], p) /\ SlotsOf(list[p], q) = {}
    BY <1>1 DEF IInv, Has
  <2>2. \A b \in BOOLEAN :
          /\ Tidy(Put(list[p], i, q, b), p)
          /\ \A r \in Chars, c \in BOOLEAN :
               In(Put(list[p], i, q, b), r, c) <=> In(list[p], r, c) \/ (r = q /\ c = b)
    BY <1>1, <1>4, <2>1, Filled
  <2>3. QED BY <2>2
<1> HIDE DEF M
<1>6. q \notin Friends(p)
  BY <1>1, Unlisted
<1>7. /\ Blocked(p)' = Blocked(p) \cup {q}
      /\ \A r \in Chars \ {p} : Blocked(r)' = Blocked(r)
      /\ \A r : Friends(r)' = Friends(r)
  BY <1>1, <1>2 DEF Friends, Blocked
<1>8. Matches(list[p], rows, Friends(p), Blocked(p)) /\ Matches(N, rows, Friends(q), Blocked(q))
  BY <1>1, Agreement DEF IInv
<1>9. Matches(M, rows, Friends(p)', Blocked(p)') /\ Matches(N, rows, Friends(q)', Blocked(q)')
  BY <1>1, <1>5, <1>7, <1>8 DEF Matches, IInv, Shaped
<1>10. Tidy(N, q)
  BY DEF IInv
<1> HIDE DEF N
<1>11. /\ ListsAgree' /\ \A r \in Chars : Tidy(list'[r], r)
       /\ list' \in [Chars -> [Slots -> Entry]]
  BY <1>1, <1>3, <1>5, <1>7, <1>9, <1>10, TwoChange
<1>12. Shaped'
  BY <1>1, <1>2, <1>11 DEF IInv, Shaped
<1>13. TablesAgree'
  BY <1>1, <1>2, <1>6 DEF IInv, TablesAgree, Friends
<1>14. AskedAreWelcome'
  BY <1>1, <1>2 DEF IInv, AskedAreWelcome
<1>15. QED BY <1>11, <1>12, <1>13, <1>14 DEF IInv

\* reqBuddyBlock(): the friendship ends on both sides, the block is p's.
LEMMA BuddyBlockIInv ==
  ASSUME IInv, NEW p \in Chars, NEW i \in Slots, BuddyBlock(p, i)
  PROVE  IInv'
<1> PICK q : q = list[p][i].who
  OBVIOUS
<1> DEFINE M == Mark(list[p], i)
           L == [list EXCEPT ![p] = M]
<1>1. /\ p \in online /\ q # NoBuddy /\ ~ list[p][i].blocked /\ <<p, q>> \notin asked
      /\ Part(p, q) /\ blocks' = Insert(blocks, p, q) /\ list' = Forget(L, q, p)
      /\ UNCHANGED <<online, rows, asked>>
  BY DEF BuddyBlock, Mark
<1>2. /\ q \in Chars /\ q # p
      /\ q \in rows => q \in Friends(p) /\ q \notin Blocked(p) /\ p \notin Blocked(q)
  BY <1>1, InSlot
<1>3. p \in rows /\ (q \in online => q \in rows)
  BY <1>1 DEF IInv, Shaped
<1>4. /\ Tidy(M, p)
      /\ \A r \in Chars : In(M, r, TRUE) <=> r = q \/ In(list[p], r, TRUE)
      /\ \A r \in Chars : In(M, r, FALSE) <=> r # q /\ In(list[p], r, FALSE)
  <2>1. Tidy(list[p], p) /\ q # NoBuddy
    BY <1>1 DEF IInv
  <2> HIDE DEF M, L
  <2>2. p \in Chars /\ i \in Slots /\ q = list[p][i].who
    OBVIOUS
  <2>3. Tidy(Mark(list[p], i), p)
    BY <2>1, <2>2, Marked
  <2>4. \A r \in Chars : In(Mark(list[p], i), r, TRUE) <=> r = q \/ In(list[p], r, TRUE)
    BY <2>1, <2>2, Marked
  <2>5. \A r \in Chars : In(Mark(list[p], i), r, FALSE) <=> r # q /\ In(list[p], r, FALSE)
    BY <2>1, <2>2, Marked
  <2>6. QED BY <2>3, <2>4, <2>5 DEF M
<1> HIDE DEF M
<1>5. L \in [Chars -> [Slots -> Entry]] /\ L[q] = list[q] /\ Tidy(L[q], q)
  BY <1>2, <1>4 DEF IInv, Shaped, Tidy
<1>6. q \in online => ~ In(L[q], p, TRUE)
  BY <1>2, <1>3, <1>5, ListsIn DEF IInv, ListsAgree
<1> HIDE DEF L
<1>7. PICK N : /\ Forget(L, q, p) = [L EXCEPT ![q] = N]
              /\ Tidy(N, q)
              /\ \A r \in Chars, c \in BOOLEAN :
                   In(N, r, c) <=> In(L[q], r, c) /\ ~ (q \in online /\ r = p)
  BY <1>2, <1>5, <1>6, Forgets
<1>8. list' = [list EXCEPT ![p] = M, ![q] = N]
  BY <1>1, <1>2, <1>7 DEF L
<1>9. /\ Friends(p)' = Friends(p) \ {q} /\ Friends(q)' = Friends(q) \ {p}
      /\ \A r \in Chars \ {p, q} : Friends(r)' = Friends(r)
  <2>1. Part(p, q) /\ p # q /\ q \in Chars
    BY <1>1, <1>2
  <2>2. QED BY <2>1, Parted
<1>10. /\ Blocked(p)' = Blocked(p) \cup (IF q \in rows THEN {q} ELSE {})
       /\ \A r \in Chars \ {p} : Blocked(r)' = Blocked(r)
  BY <1>1, <1>2, <1>3 DEF Insert, Blocked
<1>11. /\ Matches(list[p], rows, Friends(p), Blocked(p))
       /\ q \in online => Matches(list[q], rows, Friends(q), Blocked(q))
  BY <1>1, Agreement DEF IInv
<1>12. Matches(M, rows, Friends(p)', Blocked(p)')
  BY <1>2, <1>4, <1>9, <1>10, <1>11 DEF Matches, IInv, Shaped
<1>13. q \in online => Matches(N, rows, Friends(q)', Blocked(q)')
  <2> SUFFICES ASSUME q \in online PROVE Matches(N, rows, Friends(q)', Blocked(q)')
    OBVIOUS
  <2>1. Matches(list[q], rows, Friends(q), Blocked(q)) /\ p \notin Blocked(q)
    BY <1>2, <1>3, <1>11
  <2>2. \A r \in rows, c \in BOOLEAN : In(N, r, c) <=> In(list[q], r, c) /\ r # p
    BY <1>5, <1>7 DEF IInv, Shaped
  <2>3. Friends(q)' = Friends(q) \ {p} /\ Blocked(q)' = Blocked(q)
    BY <1>2, <1>9, <1>10
  <2>4. QED BY <2>1, <2>2, <2>3 DEF Matches
<1>14. /\ ListsAgree' /\ \A r \in Chars : Tidy(list'[r], r)
       /\ list' \in [Chars -> [Slots -> Entry]]
  <2>1. \A r \in Chars \ {p, q} : Friends(r)' = Friends(r) /\ Blocked(r)' = Blocked(r)
    BY <1>9, <1>10
  <2>2. p \in online /\ q \in Chars /\ p # q /\ Tidy(M, p) /\ Tidy(N, q) /\ UNCHANGED <<online, rows>>
    BY <1>1, <1>2, <1>4, <1>7
  <2>3. QED BY <1>8, <1>12, <1>13, <2>1, <2>2, TwoChange
<1>15. Shaped'
  BY <1>1, <1>3, <1>14 DEF IInv, Shaped, Part, Insert
<1>16. TablesAgree'
  <2>1. <<q, p>> \notin blocks
    BY <1>2, <1>3 DEF IInv, Shaped, Blocked
  <2>2. QED BY <1>1, <1>2, <2>1 DEF IInv, TablesAgree, Part, Insert
<1>17. AskedAreWelcome'
  BY <1>1, <1>2 DEF IInv, AskedAreWelcome, Insert
<1>18. QED BY <1>14, <1>15, <1>16, <1>17 DEF IInv

\* The lists of p and q become M and N, which is that of q without p if cut.
Deleted(p, q, M, N, cut) ==
  /\ list' = [list EXCEPT ![p] = M, ![q] = N]
  /\ Tidy(N, q)
  /\ \A r \in Chars, c \in BOOLEAN : In(N, r, c) <=> In(list[q], r, c) /\ ~ (cut /\ r = p)

\* reqBuddyDelete(): a friendship ends on both sides, a block on p's.
LEMMA BuddyDeleteIInv ==
  ASSUME IInv, NEW p \in Chars, NEW i \in Slots, BuddyDelete(p, i)
  PROVE  IInv'
<1> PICK q : q = list[p][i].who
  OBVIOUS
<1> DEFINE M == [list[p] EXCEPT ![i] = Free]
           L == [list EXCEPT ![p] = M]
<1>1. /\ p \in online /\ q # NoBuddy /\ Part(p, q) /\ blocks' = blocks \ {<<p, q>>}
      /\ list' = IF list[p][i].blocked THEN L ELSE Forget(L, q, p)
      /\ UNCHANGED <<online, rows, asked>>
  BY DEF BuddyDelete
<1>2. /\ q \in Chars /\ q # p
      /\ q \in rows => IF list[p][i].blocked THEN q \in Blocked(p) /\ q \notin Friends(p)
                       ELSE q \in Friends(p) /\ q \notin Blocked(p) /\ p \notin Blocked(q)
  BY <1>1, InSlot
<1>3. p \in rows /\ (q \in online => q \in rows)
  BY <1>1 DEF IInv, Shaped
<1> HIDE DEF M, L
<1>4. /\ Tidy(M, p)
      /\ \A r \in Chars, c \in BOOLEAN : In(M, r, c) <=> In(list[p], r, c) /\ r # q
  <2>1. Tidy(list[p], p) /\ list[p][i].who # NoBuddy
    BY <1>1 DEF IInv
  <2>2. /\ Tidy(M, p)
        /\ \A r \in Chars, c \in BOOLEAN : In(M, r, c) <=> In(list[p], r, c) /\ r # list[p][i].who
    BY <2>1, Vacated DEF M
  <2>3. QED BY <2>2
<1>5. L \in [Chars -> [Slots -> Entry]] /\ L[q] = list[q] /\ Tidy(L[q], q)
  BY <1>2, <1>4 DEF IInv, Shaped, Tidy, L
<1>6. \E N : Deleted(p, q, M, N, q \in online /\ ~ list[p][i].blocked)
  <2>1. CASE list[p][i].blocked
    <3>1. list' = [list EXCEPT ![p] = M, ![q] = list[q]]
      BY <1>1, <1>2, <2>1 DEF L, IInv, Shaped
    <3>2. Deleted(p, q, M, list[q], q \in online /\ ~ list[p][i].blocked)
      BY <1>5, <2>1, <3>1 DEF Deleted
    <3>3. QED BY <3>2
  <2>2. CASE ~ list[p][i].blocked
    <3>1. q \in online => ~ In(L[q], p, TRUE)
      BY <1>2, <1>3, <1>5, <2>2, ListsIn DEF IInv, ListsAgree
    <3>2. PICK N : /\ Forget(L, q, p) = [L EXCEPT ![q] = N]
                  /\ Tidy(N, q)
                  /\ \A r \in Chars, c \in BOOLEAN :
                       In(N, r, c) <=> In(L[q], r, c) /\ ~ (q \in online /\ r = p)
      BY <1>2, <1>5, <3>1, Forgets
    <3>3. list' = [list EXCEPT ![p] = M, ![q] = N]
      BY <1>1, <1>2, <2>2, <3>2 DEF L
    <3>4. Deleted(p, q, M, N, q \in online /\ ~ list[p][i].blocked)
      BY <1>5, <2>2, <3>2, <3>3 DEF Deleted
    <3>5. QED BY <3>4
  <2>3. QED BY <2>1, <2>2
<1>7. PICK N : /\ list' = [list EXCEPT ![p] = M, ![q] = N]
              /\ Tidy(N, q)
              /\ \A r \in Chars, c \in BOOLEAN : In(N, r, c) <=>
                   In(list[q], r, c) /\ ~ (q \in online /\ ~ list[p][i].blocked /\ r = p)
  BY <1>6 DEF Deleted
<1>8. /\ Friends(p)' = Friends(p) \ {q} /\ Friends(q)' = Friends(q) \ {p}
      /\ \A r \in Chars \ {p, q} : Friends(r)' = Friends(r)
  <2>1. Part(p, q) /\ p # q /\ q \in Chars
    BY <1>1, <1>2
  <2>2. QED BY <2>1, Parted
<1>9. /\ Blocked(p)' = Blocked(p) \ {q}
      /\ \A r \in Chars \ {p} : Blocked(r)' = Blocked(r)
  BY <1>1, <1>2 DEF Blocked
<1>10. /\ Matches(list[p], rows, Friends(p), Blocked(p))
       /\ q \in online => Matches(list[q], rows, Friends(q), Blocked(q))
  BY <1>1, Agreement DEF IInv
<1>11. Matches(M, rows, Friends(p)', Blocked(p)')
  BY <1>4, <1>8, <1>9, <1>10 DEF Matches, IInv, Shaped
<1>12. q \in online => Matches(N, rows, Friends(q)', Blocked(q)')
  <2> SUFFICES ASSUME q \in online PROVE Matches(N, rows, Friends(q)', Blocked(q)')
    OBVIOUS
  <2>1. Matches(list[q], rows, Friends(q), Blocked(q))
    BY <1>10
  <2>2. list[p][i].blocked => p \notin Friends(q)
    BY <1>2, <1>3 DEF Friends
  <2>3. ~ list[p][i].blocked => p \notin Blocked(q)
    BY <1>2, <1>3
  <2>4. Friends(q)' = Friends(q) \ {p} /\ Blocked(q)' = Blocked(q)
    BY <1>2, <1>8, <1>9
  <2>5. \A r \in rows, c \in BOOLEAN :
          In(N, r, c) <=> In(list[q], r, c) /\ ~ (~ list[p][i].blocked /\ r = p)
    BY <1>7 DEF IInv, Shaped
  <2>6. QED BY <2>1, <2>2, <2>3, <2>4, <2>5 DEF Matches
<1>13. /\ ListsAgree' /\ \A r \in Chars : Tidy(list'[r], r)
       /\ list' \in [Chars -> [Slots -> Entry]]
  <2>1. \A r \in Chars \ {p, q} : Friends(r)' = Friends(r) /\ Blocked(r)' = Blocked(r)
    BY <1>8, <1>9
  <2>2. p \in online /\ q \in Chars /\ p # q /\ Tidy(M, p) /\ Tidy(N, q) /\ UNCHANGED <<online, rows>>
    BY <1>1, <1>2, <1>4, <1>7
  <2>3. QED BY <1>7, <1>11, <1>12, <2>1, <2>2, TwoChange
<1>14. Shaped' /\ TablesAgree' /\ AskedAreWelcome'
  BY <1>1, <1>13 DEF IInv, Shaped, TablesAgree, AskedAreWelcome, Part
<1>15. QED BY <1>13, <1>14 DEF IInv

LEMMA NextIInv == IInv /\ [Next]_vars => IInv'
<1> SUFFICES ASSUME IInv, [Next]_vars PROVE IInv'
  OBVIOUS
<1>1. CASE UNCHANGED vars
  BY <1>1 DEF vars, dbVars, IInv, Shaped, TablesAgree, AskedAreWelcome, ListsAgree,
              Lists, Friends, Blocked
<1>2. CASE Next
  BY <1>2, LoginIInv, LogoutIInv, DeleteIInv, DialogIInv, AcceptIInv, PlayerBlockIInv,
     BuddyBlockIInv, BuddyDeleteIInv DEF Next
<1>3. QED BY <1>1, <1>2

-----------------------------------------------------------------------------

\* The inductive invariant: lists without doubles, tables that do not
\* contradict each other, dialogs nobody of those blocked has open, and the
\* agreement of lists and tables.
THEOREM BuddiesAreInvariant == Spec => []IInv
BY InitIInv, NextIInv, PTL DEF Spec

\* getAvailableBuddySlot() and the handlers that vacate a slot: nobody is in a
\* list twice, and a free slot bears no block.
THEOREM TypeIsInvariant == Spec => []TypeOK
<1>1. IInv => TypeOK
  <2> SUFFICES ASSUME IInv PROVE TypeOK
    OBVIOUS
  <2>1. ASSUME NEW p \in Chars, NEW q \in Chars
        PROVE  Cardinality(SlotsOf(list[p], q)) <= 1
    <3>1. \A i, j \in SlotsOf(list[p], q) : i = j
      BY <2>1, SlotsExist DEF SlotsOf, IInv, Tidy
    <3>2. SlotsOf(list[p], q) = {} \/ \E i : SlotsOf(list[p], q) = {i}
      BY <3>1
    <3>3. CASE SlotsOf(list[p], q) = {}
      BY <3>3, FS_EmptySet
    <3>4. ASSUME NEW i, SlotsOf(list[p], q) = {i} PROVE Cardinality(SlotsOf(list[p], q)) = 1
      BY <3>4, FS_Singleton
    <3>5. QED BY <3>2, <3>3, <3>4
  <2>2. QED BY <2>1 DEF IInv, Shaped, Tidy, TypeOK
<1>2. QED BY <1>1, BuddiesAreInvariant, PTL

\* Buddies.cpp and db/player.cpp: whatever a player does, and whoever is online
\* then, the lists in memory say what the tables say.
THEOREM ListsAlwaysAgree == Spec => []ListsAgree
<1>1. IInv => ListsAgree
  BY DEF IInv
<1>2. QED BY <1>1, BuddiesAreInvariant, PTL
=============================================================================
