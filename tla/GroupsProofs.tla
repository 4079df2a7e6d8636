---------------------------- MODULE GroupsProofs ----------------------------
(***************************************************************************)
(* The pointers, lists and rosters of Groups.tla agree, and its groups are *)
(* the parties of Parties.tla, for any number of players and groups.       *)
(***************************************************************************)
EXTENDS Groups, SequenceTheorems, TLAPS

\* What a handler of Groups.cpp works on.
States == [group : [Players -> GroupIds \cup {NoGroup}],
           members : [GroupIds -> Seq(Players)],
           roster : [Players -> SUBSET Players]]

\* Pointers, lists and rosters agree.
Agreed(s) ==
  /\ s \in States
  /\ \A g \in GroupIds :
       /\ Len(s.members[g]) <= MaxSize /\ IsInjective(s.members[g])
       /\ \A p \in Players : s.group[p] = g <=> p \in ToSet(s.members[g])
  /\ \A p \in Players :
       s.roster[p] = IF s.group[p] = NoGroup THEN {} ELSE ToSet(s.members[s.group[p]])

\* Between two handlers, no group is a group of one.
Companioned(s) == \A g \in GroupIds : Len(s.members[g]) # 1

\* Who is gone is in no group.
Grouped == \A p \in Players : group[p] # NoGroup => p \in online

IInv == online \subseteq Players /\ Agreed(State) /\ Companioned(State) /\ Grouped

-----------------------------------------------------------------------------
(* Sequences without repetitions.                                          *)

LEMMA AppendFresh ==
  ASSUME NEW S, NEW seq \in Seq(S), NEW e \in S, IsInjective(seq), e \notin ToSet(seq)
  PROVE  /\ Append(seq, e) \in Seq(S) /\ Len(Append(seq, e)) = Len(seq) + 1
         /\ IsInjective(Append(seq, e)) /\ ToSet(Append(seq, e)) = ToSet(seq) \cup {e}
<1> DEFINE new == Append(seq, e)
           n == Len(seq)
<1>1. /\ n \in Nat /\ DOMAIN seq = 1..n
      /\ new \in Seq(S) /\ Len(new) = n + 1
      /\ \A i \in 1..n : new[i] = seq[i]
      /\ new[n + 1] = e
  BY AppendProperties, LenProperties
<1>2. DOMAIN new = 1..(n + 1)
  BY <1>1, LenProperties
<1> HIDE DEF new, n
<1>3. 1..(n + 1) = (1..n) \cup {n + 1}
  BY <1>1
<1>4. \A i \in 1..n : new[i] # e
  BY <1>1 DEF ToSet
<1>5. IsInjective(new)
  BY <1>1, <1>2, <1>3, <1>4 DEF IsInjective
<1>6. ToSet(new) = ToSet(seq) \cup {e}
  BY <1>1, <1>2, <1>3 DEF ToSet
<1>7. QED BY <1>1, <1>5, <1>6 DEF new, n

LEMMA RemoveOne ==
  ASSUME NEW S, NEW seq \in Seq(S), NEW k \in 1..Len(seq), IsInjective(seq)
  PROVE  /\ RemoveAt(seq, k) \in Seq(S) /\ Len(RemoveAt(seq, k)) = Len(seq) - 1
         /\ IsInjective(RemoveAt(seq, k)) /\ ToSet(RemoveAt(seq, k)) = ToSet(seq) \ {seq[k]}
<1> DEFINE n == Len(seq)
           a == SubSeq(seq, 1, k - 1)
           b == SubSeq(seq, k + 1, n)
           rest == RemoveAt(seq, k)
<1>1. n \in Nat /\ DOMAIN seq = 1..n /\ k \in 1..n /\ \A i \in 1..n : seq[i] \in S
  BY LenProperties, ElementOfSeq
<1>2. /\ a \in Seq(S) /\ Len(a) = k - 1
      /\ \A i \in 1..(k - 1) : a[i] = seq[i]
  <2>1. \A i \in 1..(k - 1) : seq[i] \in S
    BY <1>1
  <2>2. QED BY <1>1, <2>1, SubSeqProperties
<1>3. /\ b \in Seq(S) /\ Len(b) = n - k
      /\ \A i \in 1..(n - k) : b[i] = seq[k + i]
  <2>1. \A i \in (k + 1)..n : seq[i] \in S
    BY <1>1
  <2> HIDE DEF n
  <2>2. QED BY <1>1, <2>1, SubSeqProperties
<1>4. rest = a \o b
  BY DEF RemoveAt
<1> HIDE DEF n, a, b, rest
<1>5. /\ rest \in Seq(S) /\ Len(rest) = n - 1
      /\ \A i \in 1..(n - 1) : rest[i] = IF i < k THEN seq[i] ELSE seq[i + 1]
  <2>1. /\ rest \in Seq(S) /\ Len(rest) = (k - 1) + (n - k)
        /\ \A i \in 1..((k - 1) + (n - k)) :
             rest[i] = IF i <= k - 1 THEN a[i] ELSE b[i - (k - 1)]
    BY <1>2, <1>3, <1>4, ConcatProperties
  <2>2. (k - 1) + (n - k) = n - 1
    BY <1>1
  <2>3. ASSUME NEW i \in 1..(n - 1)
        PROVE  rest[i] = IF i < k THEN seq[i] ELSE seq[i + 1]
    <3>1. CASE i < k
      <4>1. i \in 1..(k - 1) /\ i <= k - 1
        BY <1>1, <3>1
      <4>2. rest[i] = a[i]
        BY <2>1, <2>2, <4>1
      <4>3. a[i] = seq[i]
        BY <1>2, <4>1
      <4>4. QED BY <3>1, <4>2, <4>3
    <3>2. CASE ~(i < k)
      <4>1. i - (k - 1) \in 1..(n - k) /\ k + (i - (k - 1)) = i + 1
        BY <1>1, <3>2
      <4>2. rest[i] = b[i - (k - 1)]
        BY <1>1, <2>1, <2>2, <3>2
      <4>3. b[i - (k - 1)] = seq[k + (i - (k - 1))]
        BY <1>3, <4>1
      <4>4. QED BY <3>2, <4>1, <4>2, <4>3
    <3>3. QED BY <3>1, <3>2
  <2>4. QED BY <2>1, <2>2, <2>3
<1>6. DOMAIN rest = 1..(n - 1)
  BY <1>5, LenProperties
<1>7. IsInjective(rest)
  <2>1. ASSUME NEW i \in 1..(n - 1), NEW j \in 1..(n - 1), rest[i] = rest[j]
        PROVE  i = j
    <3> DEFINE up(x) == IF x < k THEN x ELSE x + 1
    <3>1. up(i) \in 1..n /\ up(j) \in 1..n /\ seq[up(i)] = seq[up(j)]
      BY <1>1, <1>5, <2>1
    <3>2. up(i) = up(j)
      BY <1>1, <3>1 DEF IsInjective
    <3>3. QED BY <1>1, <3>2
  <2>2. QED BY <1>6, <2>1 DEF IsInjective
<1>8. ToSet(rest) = ToSet(seq) \ {seq[k]}
  <2>1. ASSUME NEW i \in 1..(n - 1)
        PROVE  rest[i] \in ToSet(seq) \ {seq[k]}
    <3>1. CASE i < k
      <4>1. i \in 1..n /\ i # k
        BY <1>1, <3>1
      <4>2. QED BY <1>1, <1>5, <3>1, <4>1 DEF IsInjective, ToSet
    <3>2. CASE ~(i < k)
      <4>1. i + 1 \in 1..n /\ i + 1 # k
        BY <1>1, <3>2
      <4>2. QED BY <1>1, <1>5, <3>2, <4>1 DEF IsInjective, ToSet
    <3>3. QED BY <3>1, <3>2
  <2>2. ASSUME NEW j \in 1..n, j # k
        PROVE  seq[j] \in ToSet(rest)
    <3>1. CASE j < k
      <4>1. j \in 1..(n - 1)
        BY <1>1, <3>1
      <4>2. QED BY <1>5, <1>6, <3>1, <4>1 DEF ToSet
    <3>2. CASE j > k
      <4>1. j - 1 \in 1..(n - 1) /\ ~(j - 1 < k) /\ (j - 1) + 1 = j
        BY <1>1, <3>2
      <4>2. QED BY <1>5, <1>6, <4>1 DEF ToSet
    <3>3. QED BY <1>1, <2>2, <3>1, <3>2
  <2>3. QED BY <1>1, <1>6, <2>1, <2>2 DEF ToSet
<1>9. QED BY <1>5, <1>7, <1>8 DEF rest, n

-----------------------------------------------------------------------------
(* What the handlers do to an object.                                      *)

Added(s, t, g, p) ==
  /\ Agreed(t)
  /\ t.group = [s.group EXCEPT ![p] = g]
  /\ t.members = [s.members EXCEPT ![g] = Append(s.members[g], p)]

Detached(s, t, g, p) ==
  \E k \in 1..Len(s.members[g]) :
    /\ s.members[g][k] = p
    /\ Agreed(t)
    /\ t.group = [s.group EXCEPT ![p] = NoGroup]
    /\ t.members = [s.members EXCEPT ![g] = RemoveAt(s.members[g], k)]

\* A player becomes the last member of a group that is not full.
LEMMA AddEffect ==
  ASSUME NEW s, Agreed(s), NEW g \in GroupIds, NEW p \in Players,
         s.group[p] = NoGroup, Len(s.members[g]) < MaxSize
  PROVE  Added(s, AddToGroup(s, g, p), g, p)
<1> DEFINE t == AddToGroup(s, g, p)
           new == Append(s.members[g], p)
           listed == ToSet(new)
<1>1. /\ s \in States /\ s.group \in [Players -> GroupIds \cup {NoGroup}]
      /\ s.members \in [GroupIds -> Seq(Players)]
      /\ s.roster \in [Players -> SUBSET Players]
      /\ IsInjective(s.members[g]) /\ p \notin ToSet(s.members[g])
  BY NoGroupIsNoAddress DEF Agreed, States
<1>2. /\ new \in Seq(Players) /\ Len(new) = Len(s.members[g]) + 1 /\ IsInjective(new)
      /\ listed = ToSet(s.members[g]) \cup {p}
  BY <1>1, AppendFresh
<1>3. Len(s.members[g]) \in Nat /\ Len(new) <= MaxSize
  BY <1>1, <1>2, LenProperties DEF MaxSize
<1>4. listed \subseteq Players
  BY <1>2, LenProperties, ElementOfSeq DEF ToSet
<1>5. /\ t.group = [s.group EXCEPT ![p] = g]
      /\ t.members = [s.members EXCEPT ![g] = new]
      /\ t.roster = [q \in Players |-> IF q \in listed THEN listed ELSE s.roster[q]]
      /\ t \in States
  <2> DEFINE u == [s EXCEPT !.group[p] = g, !.members[g] = Append(@, p)]
  <2>1. /\ u \in States /\ u.group = [s.group EXCEPT ![p] = g]
        /\ u.members = [s.members EXCEPT ![g] = new] /\ u.roster = s.roster
    BY <1>1, <1>2 DEF States
  <2>2. t = Announce(u, g)
    BY DEF AddToGroup
  <2> HIDE DEF u, new
  <2>3. u.members[g] = new
    BY <1>1, <2>1
  <2>4. t = [u EXCEPT !.roster = [q \in Players |-> IF q \in listed THEN listed ELSE @[q]]]
    BY <2>2, <2>3 DEF Announce
  <2> HIDE DEF listed, t
  <2>5. QED BY <1>4, <2>1, <2>4 DEF States
<1> HIDE DEF t, new
<1>6. ASSUME NEW h \in GroupIds
      PROVE  /\ Len(t.members[h]) <= MaxSize /\ IsInjective(t.members[h])
             /\ \A q \in Players : t.group[q] = h <=> q \in ToSet(t.members[h])
  <2>1. CASE h = g
    BY <1>1, <1>2, <1>3, <1>5, <2>1, NoGroupIsNoAddress DEF Agreed
  <2>2. CASE h # g
    <3>1. p \notin ToSet(s.members[h])
      BY <1>1, NoGroupIsNoAddress DEF Agreed
    <3>2. QED BY <1>1, <1>5, <2>2, <3>1 DEF Agreed
  <2>3. QED BY <2>1, <2>2
<1>7. ASSUME NEW q \in Players
      PROVE  t.roster[q] = IF t.group[q] = NoGroup THEN {} ELSE ToSet(t.members[t.group[q]])
  <2>1. CASE q \in listed
    <3>1. t.group[q] = g /\ t.members[g] = new
      BY <1>1, <1>2, <1>5, <2>1 DEF Agreed
    <3>2. QED BY <1>5, <2>1, <3>1, NoGroupIsNoAddress
  <2>2. CASE q \notin listed
    <3>1. q # p /\ s.group[q] # g /\ t.group[q] = s.group[q]
      BY <1>1, <1>2, <1>5, <2>2 DEF Agreed
    <3>2. t.group[q] \in GroupIds => t.members[t.group[q]] = s.members[s.group[q]]
      BY <1>1, <1>5, <3>1
    <3>3. QED BY <1>1, <1>5, <2>2, <3>1, <3>2 DEF Agreed
  <2>3. QED BY <2>1, <2>2
<1>8. QED BY <1>5, <1>6, <1>7 DEF Added, Agreed, t, new

\* A member is out of its group, and out of every list.
LEMMA DetachEffect ==
  ASSUME NEW s, Agreed(s), NEW g \in GroupIds, NEW p \in Players, s.group[p] = g
  PROVE  Detached(s, Detach(s, g, p), g, p)
<1> DEFINE t == Detach(s, g, p)
           k == IndexIn(s.members[g], p)
           new == RemoveAt(s.members[g], k)
           listed == ToSet(new)
<1>1. /\ s \in States /\ s.group \in [Players -> GroupIds \cup {NoGroup}]
      /\ s.members \in [GroupIds -> Seq(Players)]
      /\ s.roster \in [Players -> SUBSET Players]
      /\ IsInjective(s.members[g]) /\ p \in ToSet(s.members[g])
      /\ s.members[g] \in Seq(Players)
  BY DEF Agreed, States
<1>2. DOMAIN s.members[g] = 1..Len(s.members[g]) /\ Len(s.members[g]) \in Nat
  BY <1>1, LenProperties
<1>3. k \in 1..Len(s.members[g]) /\ s.members[g][k] = p
  BY <1>1, <1>2 DEF IndexIn, ToSet
<1> HIDE DEF k
<1>4. /\ new \in Seq(Players) /\ Len(new) = Len(s.members[g]) - 1 /\ IsInjective(new)
      /\ listed = ToSet(s.members[g]) \ {p}
  BY <1>1, <1>3, RemoveOne
<1>5. listed \subseteq Players
  BY <1>4, LenProperties, ElementOfSeq DEF ToSet
<1>6. Len(new) <= MaxSize
  BY <1>2, <1>4 DEF Agreed, MaxSize
<1>7. /\ t.group = [s.group EXCEPT ![p] = NoGroup]
      /\ t.members = [s.members EXCEPT ![g] = new]
      /\ t.roster = [q \in Players |-> IF q \in listed THEN listed
                                       ELSE IF q = p THEN {} ELSE s.roster[q]]
      /\ t \in States
  <2> DEFINE u == [s EXCEPT !.group[p] = NoGroup, !.roster[p] = {},
                            !.members[g] = IF p \in ToSet(@) THEN RemoveAt(@, IndexIn(@, p)) ELSE @]
             v == [s EXCEPT !.group[p] = NoGroup, !.roster[p] = {}, !.members[g] = new]
  <2>1. u = v
    BY <1>1 DEF k
  <2> HIDE DEF new
  <2>2. /\ v \in States /\ v.group = [s.group EXCEPT ![p] = NoGroup]
        /\ v.members = [s.members EXCEPT ![g] = new] /\ v.roster = [s.roster EXCEPT ![p] = {}]
    BY <1>1, <1>4 DEF States
  <2>3. t = Announce(v, g)
    BY <2>1 DEF Detach
  <2> HIDE DEF u, v
  <2>4. v.members[g] = new
    BY <1>1, <2>2
  <2>5. t = [v EXCEPT !.roster = [q \in Players |-> IF q \in listed THEN listed ELSE @[q]]]
    BY <2>3, <2>4 DEF Announce
  <2> HIDE DEF listed, t
  <2>6. [q \in Players |-> IF q \in listed THEN listed ELSE v.roster[q]] =
          [q \in Players |-> IF q \in listed THEN listed
                            ELSE IF q = p THEN {} ELSE s.roster[q]]
    BY <1>1, <2>2
  <2>7. QED BY <1>1, <1>5, <2>2, <2>5, <2>6 DEF States
<1> HIDE DEF t, new
<1>8. ASSUME NEW h \in GroupIds
      PROVE  /\ Len(t.members[h]) <= MaxSize /\ IsInjective(t.members[h])
             /\ \A q \in Players : t.group[q] = h <=> q \in ToSet(t.members[h])
  <2>1. CASE h = g
    BY <1>1, <1>4, <1>6, <1>7, <2>1, NoGroupIsNoAddress DEF Agreed
  <2>2. CASE h # g
    <3>1. p \notin ToSet(s.members[h])
      BY <1>1, <2>2 DEF Agreed
    <3>2. QED BY <1>1, <1>7, <2>2, <3>1, NoGroupIsNoAddress DEF Agreed
  <2>3. QED BY <2>1, <2>2
<1>9. ASSUME NEW q \in Players
      PROVE  t.roster[q] = IF t.group[q] = NoGroup THEN {} ELSE ToSet(t.members[t.group[q]])
  <2>1. CASE q \in listed
    <3>1. t.group[q] = g /\ t.members[g] = new
      BY <1>1, <1>4, <1>7, <2>1 DEF Agreed
    <3>2. QED BY <1>7, <2>1, <3>1, NoGroupIsNoAddress
  <2>2. CASE q = p
    <3>1. q \notin listed /\ t.group[q] = NoGroup
      BY <1>1, <1>4, <1>7, <2>2
    <3>2. QED BY <1>7, <2>2, <3>1
  <2>3. CASE q \notin listed /\ q # p
    <3>1. s.group[q] # g /\ t.group[q] = s.group[q]
      BY <1>1, <1>4, <1>7, <2>3 DEF Agreed
    <3>2. t.group[q] \in GroupIds => t.members[t.group[q]] = s.members[s.group[q]]
      BY <1>1, <1>7, <3>1
    <3>3. QED BY <1>1, <1>7, <2>3, <3>1, <3>2 DEF Agreed
  <2>4. QED BY <2>1, <2>2, <2>3
<1>10. Agreed(t)
  BY <1>7, <1>8, <1>9 DEF Agreed
<1>11. QED BY <1>3, <1>7, <1>10 DEF Detached, t, new

\* How a group may come out of a packet that takes somebody from it.
Dissolved(s, t, g) == t.members = [s.members EXCEPT ![g] = <<>>]
Shrunk(s, t, g) ==
  \E k \in DOMAIN s.members[g] :
    /\ k > 1 /\ Len(s.members[g]) > 2
    /\ t.members = [s.members EXCEPT ![g] = RemoveAt(s.members[g], k)]

\* Nobody else is put in a group.
OnlyOut(s, t, p) ==
  /\ t.group[p] = NoGroup
  /\ \A q \in Players : t.group[q] = s.group[q] \/ t.group[q] = NoGroup

LEMMA EmptyGroup ==
  ASSUME NEW seq \in Seq(Players)
  PROVE  Len(seq) = 0 <=> seq = <<>>
BY EmptySeq

\* The last member takes the group with it.
LEMMA LastEffect ==
  ASSUME NEW s, Agreed(s), NEW g \in GroupIds, Len(s.members[g]) = 1
  PROVE  LET t == Detach(s, g, s.members[g][1])
         IN /\ Agreed(t) /\ t.members = [s.members EXCEPT ![g] = <<>>]
            /\ \A q \in Players : t.group[q] = s.group[q] \/ t.group[q] = NoGroup
<1> DEFINE r == s.members[g][1]
           t == Detach(s, g, r)
<1>1. s.members[g] \in Seq(Players) /\ s.group \in [Players -> GroupIds \cup {NoGroup}]
  BY DEF Agreed, States
<1>2. DOMAIN s.members[g] = 1..1 /\ 1 \in 1..1
  BY <1>1, LenProperties
<1>3. r \in Players /\ r \in ToSet(s.members[g])
  BY <1>1, <1>2, ElementOfSeq DEF ToSet
<1>4. s.group[r] = g
  BY <1>3 DEF Agreed
<1> HIDE DEF r
<1>5. PICK k \in 1..Len(s.members[g]) :
        /\ Agreed(t)
        /\ t.group = [s.group EXCEPT ![r] = NoGroup]
        /\ t.members = [s.members EXCEPT ![g] = RemoveAt(s.members[g], k)]
  <2>1. Detached(s, t, g, r)
    BY <1>3, <1>4, DetachEffect
  <2>2. QED BY <2>1 DEF Detached
<1>6. RemoveAt(s.members[g], k) \in Seq(Players) /\ Len(RemoveAt(s.members[g], k)) = 0
  <2>1. IsInjective(s.members[g])
    BY DEF Agreed
  <2>2. Len(RemoveAt(s.members[g], k)) = Len(s.members[g]) - 1
    BY <1>1, <2>1, RemoveOne
  <2>3. QED BY <1>1, <2>1, <2>2, RemoveOne
<1>7. RemoveAt(s.members[g], k) = <<>>
  BY <1>6, EmptyGroup
<1>8. QED BY <1>1, <1>5, <1>7 DEF r

\* A follower leaves: the group shrinks, or goes with the one who is left.
LEMMA RemoveEffect ==
  ASSUME NEW s, Agreed(s), Companioned(s), NEW g \in GroupIds, NEW p \in Players,
         s.group[p] = g, s.members[g][1] # p
  PROVE  LET t == RemoveFromGroup(s, g, p)
         IN /\ Agreed(t) /\ Companioned(t) /\ OnlyOut(s, t, p)
            /\ Dissolved(s, t, g) \/ Shrunk(s, t, g)
<1> DEFINE d == Detach(s, g, p)
           t == RemoveFromGroup(s, g, p)
           n == Len(s.members[g])
<1>1. /\ s \in States /\ s.group \in [Players -> GroupIds \cup {NoGroup}]
      /\ s.members \in [GroupIds -> Seq(Players)] /\ s.members[g] \in Seq(Players)
  BY DEF Agreed, States
<1>2. PICK k \in 1..n :
        /\ s.members[g][k] = p /\ Agreed(d)
        /\ d.group = [s.group EXCEPT ![p] = NoGroup]
        /\ d.members = [s.members EXCEPT ![g] = RemoveAt(s.members[g], k)]
  <2>1. Detached(s, d, g, p)
    BY DetachEffect
  <2>2. QED BY <2>1 DEF Detached
<1>3. n \in Nat /\ n # 1 /\ k > 1 /\ k \in DOMAIN s.members[g]
  BY <1>1, <1>2, LenProperties DEF Companioned
<1>4. /\ d.members[g] \in Seq(Players) /\ Len(d.members[g]) = n - 1
      /\ d.members \in [GroupIds -> Seq(Players)]
  <2>1. IsInjective(s.members[g])
    BY DEF Agreed
  <2>2. RemoveAt(s.members[g], k) \in Seq(Players) /\ Len(RemoveAt(s.members[g], k)) = n - 1
    BY <1>1, <2>1, RemoveOne
  <2>3. QED BY <1>1, <1>2, <2>2
<1>5. OnlyOut(s, d, p)
  BY <1>1, <1>2 DEF OnlyOut
<1> HIDE DEF d, n
<1>6. CASE n - 1 # 1
  <2>1. t = d
    BY <1>4, <1>6 DEF RemoveFromGroup, d
  <2>2. Companioned(d)
    BY <1>1, <1>2, <1>4, <1>6 DEF Companioned
  <2>3. n > 2
    BY <1>3, <1>6, <1>2
  <2>4. Shrunk(s, d, g)
    BY <1>2, <1>3, <2>3 DEF Shrunk, n
  <2>5. QED BY <1>2, <1>5, <2>1, <2>2, <2>4
<1>7. CASE n - 1 = 1
  <2>1. t = Detach(d, g, d.members[g][1])
    BY <1>4, <1>7 DEF RemoveFromGroup, d
  <2>2. Agreed(d) /\ Len(d.members[g]) = 1
    BY <1>2, <1>4, <1>7
  <2> HIDE DEF t
  <2>3. /\ Agreed(t) /\ t.members = [d.members EXCEPT ![g] = <<>>]
        /\ \A q \in Players : t.group[q] = d.group[q] \/ t.group[q] = NoGroup
    BY <2>1, <2>2, LastEffect
  <2>6. Dissolved(s, t, g)
    BY <1>1, <1>2, <2>3 DEF Dissolved
  <2>7. Companioned(t)
    BY <1>1, <2>6, EmptySeq DEF Companioned, Dissolved
  <2>8. OnlyOut(s, t, p)
    BY <1>5, <2>3 DEF OnlyOut
  <2>9. QED BY <2>3, <2>6, <2>7, <2>8 DEF t
<1>8. QED BY <1>6, <1>7

LEMMA DisbandEffect ==
  ASSUME NEW s, Agreed(s), Companioned(s), NEW g \in GroupIds, NEW p \in Players,
         s.group[p] = g
  PROVE  LET t == DisbandGroup(s, g)
         IN Agreed(t) /\ Companioned(t) /\ OnlyOut(s, t, p) /\ Dissolved(s, t, g)
<1> DEFINE t == DisbandGroup(s, g)
<1>1. /\ s.group \in [Players -> GroupIds \cup {NoGroup}]
      /\ s.members \in [GroupIds -> Seq(Players)]
      /\ s.roster \in [Players -> SUBSET Players]
      /\ \A q \in Players : s.group[q] = g <=> q \in ToSet(s.members[g])
  BY DEF Agreed, States
<1>2. /\ t.group = [q \in Players |-> IF s.group[q] = g THEN NoGroup ELSE s.group[q]]
      /\ t.members = [s.members EXCEPT ![g] = <<>>]
      /\ t.roster = [q \in Players |-> IF s.group[q] = g THEN {} ELSE s.roster[q]]
  BY <1>1 DEF DisbandGroup
<1>3. t \in States
  <2>1. /\ t.group \in [Players -> GroupIds \cup {NoGroup}]
        /\ t.members \in [GroupIds -> Seq(Players)]
        /\ t.roster \in [Players -> SUBSET Players]
    BY <1>1, <1>2, EmptySeq
  <2>2. QED BY <2>1 DEF States, DisbandGroup
<1>4. Len(<<>>) = 0 /\ IsInjective(<<>>) /\ ToSet(<<>>) = {}
  BY EmptySeq DEF IsInjective, ToSet
<1> HIDE DEF t
<1>5. ASSUME NEW h \in GroupIds
      PROVE  /\ Len(t.members[h]) <= MaxSize /\ Len(t.members[h]) # 1
             /\ IsInjective(t.members[h])
             /\ \A q \in Players : t.group[q] = h <=> q \in ToSet(t.members[h])
  <2>1. CASE h = g
    BY <1>1, <1>2, <1>4, <2>1, NoGroupIsNoAddress DEF MaxSize
  <2>2. CASE h # g
    BY <1>1, <1>2, <2>2, NoGroupIsNoAddress DEF Agreed, Companioned
  <2>3. QED BY <2>1, <2>2
<1>6. ASSUME NEW q \in Players
      PROVE  t.roster[q] = IF t.group[q] = NoGroup THEN {} ELSE ToSet(t.members[t.group[q]])
  <2>1. CASE s.group[q] = g
    BY <1>2, <2>1
  <2>2. CASE s.group[q] # g
    <3>1. t.group[q] = s.group[q] /\ t.roster[q] = s.roster[q]
      BY <1>2, <2>2
    <3>2. s.group[q] \in GroupIds => t.members[s.group[q]] = s.members[s.group[q]]
      BY <1>1, <1>2, <2>2
    <3>3. QED BY <1>1, <3>1, <3>2 DEF Agreed
  <2>3. QED BY <2>1, <2>2
<1>7. OnlyOut(s, t, p)
  BY <1>2 DEF OnlyOut
<1>8. QED BY <1>2, <1>3, <1>5, <1>6, <1>7 DEF Agreed, Companioned, Dissolved, t

\* groupKick(), of somebody who is in a group.
LEMMA KickEffect ==
  ASSUME NEW s, Agreed(s), Companioned(s), NEW p \in Players, s.group[p] # NoGroup
  PROVE  LET g == s.group[p]
             t == GroupKick(s, g, p)
         IN /\ g \in GroupIds /\ s.members[g] # <<>>
            /\ Agreed(t) /\ Companioned(t) /\ OnlyOut(s, t, p)
            /\ Dissolved(s, t, g) \/ Shrunk(s, t, g)
<1> DEFINE g == s.group[p]
<1>1. g \in GroupIds
  BY DEF Agreed, States
<1>2. s.members[g] # <<>>
  <2>1. p \in ToSet(s.members[g])
    BY <1>1 DEF Agreed
  <2>2. QED BY <2>1, EmptySeq DEF ToSet
<1>3. CASE s.members[g][1] = p
  BY <1>1, <1>2, <1>3, DisbandEffect DEF GroupKick
<1>4. CASE s.members[g][1] # p
  BY <1>1, <1>2, <1>4, RemoveEffect DEF GroupKick
<1>5. QED BY <1>3, <1>4

LEMMA AppendPair ==
  ASSUME NEW p \in Players, NEW q \in Players
  PROVE  Append(<<p>>, q) = <<p, q>>
<1>1. <<p>> \in Seq(Players) /\ Len(<<p>>) = 1 /\ <<p>>[1] = p
  OBVIOUS
<1>2. /\ Append(<<p>>, q) \in Seq(Players) /\ Len(Append(<<p>>, q)) = 2
      /\ Append(<<p>>, q)[1] = p /\ Append(<<p>>, q)[2] = q
  BY <1>1, AppendProperties
<1>3. /\ <<p, q>> \in Seq(Players) /\ Len(<<p, q>>) = 2
      /\ <<p, q>>[1] = p /\ <<p, q>>[2] = q
  OBVIOUS
<1>4. \A i \in 1..2 : Append(<<p>>, q)[i] = <<p, q>>[i]
  BY <1>2, <1>3
<1> DEFINE a == Append(<<p>>, q)
           b == <<p, q>>
<1> HIDE DEF a, b
<1>5. a \in Seq(Players) /\ b \in Seq(Players) /\ Len(a) = Len(b) /\ \A i \in 1..Len(a) : a[i] = b[i]
  BY <1>2, <1>3, <1>4 DEF a, b
<1>6. a = b
  BY <1>5, SeqEqual
<1>7. QED BY <1>6 DEF a, b

Formed(s, t, g, p, q) ==
  /\ Agreed(t) /\ Companioned(t)
  /\ t.group = [s.group EXCEPT ![p] = g, ![q] = g]
  /\ t.members = [s.members EXCEPT ![g] = <<p, q>>]

\* Two who had no group form one.
LEMMA FormEffect ==
  ASSUME NEW s, Agreed(s), Companioned(s), NEW g \in GroupIds, Len(s.members[g]) = 0,
         NEW p \in Players, NEW q \in Players, p # q,
         s.group[p] = NoGroup, s.group[q] = NoGroup
  PROVE  Formed(s, AddToGroup(AddToGroup(s, g, p), g, q), g, p, q)
<1> DEFINE u == AddToGroup(s, g, p)
           t == AddToGroup(u, g, q)
<1>1. /\ s.group \in [Players -> GroupIds \cup {NoGroup}]
      /\ s.members \in [GroupIds -> Seq(Players)]
  BY DEF Agreed, States
<1>2. Len(s.members[g]) < MaxSize
  BY DEF MaxSize
<1>3. Added(s, u, g, p)
  BY <1>2, AddEffect
<1> HIDE DEF u
<1>4. /\ Agreed(u) /\ u.group = [s.group EXCEPT ![p] = g]
      /\ u.members = [s.members EXCEPT ![g] = <<p>>]
  <2>1. s.members[g] = <<>>
    BY <1>1, EmptyGroup
  <2>2. Append(<<>>, p) = <<p>>
    OBVIOUS
  <2>3. QED BY <1>3, <2>1, <2>2 DEF Added
<1>5. /\ u.group[q] = NoGroup /\ u.members[g] = <<p>>
      /\ Len(u.members[g]) < MaxSize
  BY <1>1, <1>4 DEF MaxSize
<1>6. Added(u, t, g, q)
  BY <1>4, <1>5, AddEffect
<1> HIDE DEF t
<1>7. t.members = [s.members EXCEPT ![g] = <<p, q>>]
  BY <1>1, <1>4, <1>5, <1>6, AppendPair DEF Added
<1>8. t.group = [s.group EXCEPT ![p] = g, ![q] = g]
  BY <1>4, <1>6 DEF Added
<1>9. Companioned(t)
  <2>1. Len(<<p, q>>) # 1
    OBVIOUS
  <2>2. QED BY <1>1, <1>7, <2>1 DEF Companioned
<1>10. Agreed(t)
  BY <1>6 DEF Added
<1>11. QED BY <1>7, <1>8, <1>9, <1>10 DEF Formed, t, u

\* One who had no group joins one that is not full.
LEMMA ExtendEffect ==
  ASSUME NEW s, Agreed(s), Companioned(s), NEW g \in GroupIds, s.members[g] # <<>>,
         NEW q \in Players, s.group[q] = NoGroup, Len(s.members[g]) < MaxSize
  PROVE  /\ Added(s, AddToGroup(s, g, q), g, q)
         /\ Companioned(AddToGroup(s, g, q))
<1> DEFINE t == AddToGroup(s, g, q)
<1>1. s.members \in [GroupIds -> Seq(Players)] /\ s.members[g] \in Seq(Players)
  BY DEF Agreed, States
<1>2. /\ Agreed(t) /\ t.group = [s.group EXCEPT ![q] = g]
      /\ t.members = [s.members EXCEPT ![g] = Append(s.members[g], q)]
  BY AddEffect DEF Added
<1>3. Len(Append(s.members[g], q)) = Len(s.members[g]) + 1 /\ Len(s.members[g]) \in Nat \ {0}
  BY <1>1, EmptySeq, AppendProperties
<1> HIDE DEF t
<1>4. Companioned(t)
  BY <1>1, <1>2, <1>3 DEF Companioned
<1>5. QED BY <1>2, <1>4 DEF Added, t

-----------------------------------------------------------------------------
(* The steps.                                                              *)

\* joinGroup(), which makes a group or lets one grow at its end.
LEMMA JoinEffect ==
  ASSUME IInv, NEW p \in Players, NEW q \in Players, JoinGroup(q, p)
  PROVE  /\ Agreed(State)' /\ Companioned(State)' /\ Grouped'
         /\ UNCHANGED online /\ group[q] = NoGroup /\ p # q
         /\ IF group[p] = NoGroup
            THEN \E g \in GroupIds : /\ members[g] = <<>>
                                    /\ members' = [members EXCEPT ![g] = <<p, q>>]
            ELSE /\ Len(members[group[p]]) < MaxSize
                 /\ members' = [members EXCEPT ![group[p]] = Append(members[group[p]], q)]
<1>1. /\ State.group = group /\ State.members = members /\ State.roster = roster
      /\ Agreed(State) /\ Companioned(State)
      /\ group \in [Players -> GroupIds \cup {NoGroup}]
      /\ members \in [GroupIds -> Seq(Players)]
  BY DEF State, IInv, Agreed, States
<1>2. /\ q \in online /\ p \in online /\ p # q /\ group[q] = NoGroup /\ UNCHANGED online
  BY DEF JoinGroup
<1>3. CASE group[p] = NoGroup
  <2>1. PICK g \in GroupIds : /\ members[g] = <<>>
                             /\ Becomes(AddToGroup(AddToGroup(State, g, p), g, q))
    BY <1>3 DEF JoinGroup, Allocated
  <2> DEFINE t == AddToGroup(AddToGroup(State, g, p), g, q)
  <2>2. Len(State.members[g]) = 0
    BY <1>1, <2>1, EmptyGroup
  <2>3. /\ Agreed(t) /\ Companioned(t)
        /\ t.group = [group EXCEPT ![p] = g, ![q] = g]
        /\ t.members = [members EXCEPT ![g] = <<p, q>>]
    <3>1. Formed(State, t, g, p, q)
      BY <1>1, <1>2, <1>3, <2>2, FormEffect
    <3>2. QED BY <1>1, <3>1 DEF Formed
  <2> HIDE DEF t
  <2>4. State' = [group |-> t.group, members |-> t.members, roster |-> t.roster]
    BY <2>1 DEF Becomes, State, t
  <2>5. Agreed(State)' /\ Companioned(State)'
    BY <2>3, <2>4 DEF Agreed, Companioned, States
  <2>6. group' = [group EXCEPT ![p] = g, ![q] = g] /\ members' = [members EXCEPT ![g] = <<p, q>>]
    BY <2>1, <2>3 DEF Becomes, t
  <2>7. Grouped'
    BY <1>1, <1>2, <2>6 DEF IInv, Grouped
  <2>8. QED BY <1>2, <1>3, <2>1, <2>5, <2>6, <2>7
<1>4. CASE group[p] # NoGroup
  <2> DEFINE g == group[p]
             t == AddToGroup(State, g, q)
  <2>1. g \in GroupIds /\ Len(members[g]) + 1 <= MaxSize /\ Becomes(t)
    BY <1>1, <1>4 DEF JoinGroup
  <2>2. Len(State.members[g]) < MaxSize /\ State.members[g] # <<>>
    <3>1. Len(members[g]) \in Nat
      BY <1>1, <2>1, LenProperties
    <3>2. p \in ToSet(State.members[g])
      BY <1>1, <2>1 DEF Agreed
    <3>3. QED BY <1>1, <2>1, <3>1, <3>2, EmptySeq DEF MaxSize, ToSet
  <2> HIDE DEF g
  <2>3. /\ Agreed(t) /\ Companioned(t)
        /\ t.group = [group EXCEPT ![q] = g]
        /\ t.members = [members EXCEPT ![g] = Append(members[g], q)]
    <3>1. Added(State, t, g, q) /\ Companioned(t)
      BY <1>1, <1>2, <2>1, <2>2, ExtendEffect
    <3>2. QED BY <1>1, <3>1 DEF Added
  <2> HIDE DEF t
  <2>4. State' = [group |-> t.group, members |-> t.members, roster |-> t.roster]
    BY <2>1 DEF Becomes, State
  <2>5. Agreed(State)' /\ Companioned(State)'
    BY <2>3, <2>4 DEF Agreed, Companioned, States
  <2>6. group' = [group EXCEPT ![q] = g] /\ members' = [members EXCEPT ![g] = Append(members[g], q)]
    BY <2>1, <2>3 DEF Becomes
  <2>7. Grouped'
    BY <1>1, <1>2, <2>6 DEF IInv, Grouped
  <2>8. QED BY <1>1, <1>2, <1>4, <2>2, <2>5, <2>6, <2>7 DEF g
<1>5. QED BY <1>3, <1>4

\* groupKick() of a player that leaves its group or the shard.
LEMMA OutEffect ==
  ASSUME IInv, NEW p \in Players, group[p] # NoGroup,
         Becomes(GroupKick(State, group[p], p))
  PROVE  /\ Agreed(State)' /\ Companioned(State)'
         /\ group'[p] = NoGroup
         /\ \A q \in Players : group'[q] = group[q] \/ group'[q] = NoGroup
         /\ group[p] \in GroupIds /\ members[group[p]] # <<>>
         /\ \/ members' = [members EXCEPT ![group[p]] = <<>>]
            \/ \E k \in DOMAIN members[group[p]] :
                 /\ k > 1 /\ Len(members[group[p]]) > 2
                 /\ members' = [members EXCEPT ![group[p]] = RemoveAt(members[group[p]], k)]
<1> DEFINE g == group[p]
           t == GroupKick(State, g, p)
<1>1. /\ State.group = group /\ State.members = members /\ State.roster = roster
      /\ Agreed(State) /\ Companioned(State)
  BY DEF State, IInv
<1>2. /\ g \in GroupIds /\ members[g] # <<>>
      /\ Agreed(t) /\ Companioned(t) /\ OnlyOut(State, t, p)
      /\ Dissolved(State, t, g) \/ Shrunk(State, t, g)
  BY <1>1, KickEffect
<1>3. group' = t.group /\ members' = t.members /\ roster' = t.roster
  BY DEF Becomes
<1> HIDE DEF t, g
<1>4. State' = [group |-> t.group, members |-> t.members, roster |-> t.roster]
  BY <1>3 DEF State
<1>5. Agreed(State)' /\ Companioned(State)'
  BY <1>2, <1>4 DEF Agreed, Companioned, States
<1>6. /\ group'[p] = NoGroup
      /\ \A q \in Players : group'[q] = group[q] \/ group'[q] = NoGroup
  BY <1>1, <1>2, <1>3 DEF OnlyOut
<1>7. \/ members' = [members EXCEPT ![g] = <<>>]
      \/ \E k \in DOMAIN members[g] :
           /\ k > 1 /\ Len(members[g]) > 2
           /\ members' = [members EXCEPT ![g] = RemoveAt(members[g], k)]
  BY <1>1, <1>2, <1>3 DEF Dissolved, Shrunk
<1>8. QED BY <1>2, <1>5, <1>6, <1>7 DEF g

LEMMA InitIInv == Init => IInv
<1> SUFFICES ASSUME Init PROVE IInv
  OBVIOUS
<1>1. /\ State.group = [p \in Players |-> NoGroup]
      /\ State.members = [g \in GroupIds |-> <<>>]
      /\ State.roster = [p \in Players |-> {}]
      /\ State \in States
  <2>1. [g \in GroupIds |-> <<>>] \in [GroupIds -> Seq(Players)]
    BY EmptySeq
  <2>2. QED BY <2>1 DEF Init, State, States
<1>2. Len(<<>>) = 0 /\ IsInjective(<<>>) /\ ToSet(<<>>) = {}
  BY EmptySeq DEF IsInjective, ToSet
<1>3. Agreed(State) /\ Companioned(State)
  BY <1>1, <1>2, NoGroupIsNoAddress DEF Agreed, Companioned, MaxSize
<1>4. QED BY <1>3 DEF IInv, Grouped, Init

\* A player that enters has left its last group when it left.
LEMMA LoginEffect ==
  ASSUME IInv, NEW p \in Players, Login(p)
  PROVE  UNCHANGED <<group, members, roster>>
<1>1. /\ group \in [Players -> GroupIds \cup {NoGroup}] /\ roster \in [Players -> SUBSET Players]
      /\ \A q \in Players :
           roster[q] = IF group[q] = NoGroup THEN {} ELSE ToSet(members[group[q]])
  BY DEF IInv, Agreed, States, State
<1>2. group[p] = NoGroup /\ roster[p] = {}
  BY <1>1 DEF Login, IInv, Grouped
<1>3. QED BY <1>1, <1>2 DEF Login

LEMMA NextIInv == IInv /\ [Next]_vars => IInv'
<1> SUFFICES ASSUME IInv, [Next]_vars PROVE IInv'
  OBVIOUS
<1>1. ASSUME NEW p \in Players, Login(p) PROVE IInv'
  <2>1. UNCHANGED <<group, members, roster>> /\ online' = online \cup {p}
    BY <1>1, LoginEffect DEF Login
  <2>2. QED BY <2>1 DEF IInv, State, Grouped
<1>2. ASSUME NEW p \in Players, NEW q \in Players, JoinGroup(q, p) PROVE IInv'
  BY <1>2, JoinEffect DEF IInv
<1>3. ASSUME NEW p \in Players, LeaveGroup(p) PROVE IInv'
  <2>1. /\ Agreed(State)' /\ Companioned(State)' /\ UNCHANGED online
        /\ \A q \in Players : group'[q] = group[q] \/ group'[q] = NoGroup
    BY <1>3, OutEffect DEF LeaveGroup
  <2>2. QED BY <2>1 DEF IInv, Grouped
<1>4. ASSUME NEW p \in Players, Logout(p) PROVE IInv'
  <2>1. CASE group[p] = NoGroup
    <3>1. UNCHANGED <<group, members, roster>> /\ online' = online \ {p}
      BY <1>4, <2>1 DEF Logout, GroupKick, Becomes, State
    <3>2. QED BY <2>1, <3>1 DEF IInv, State, Grouped
  <2>2. CASE group[p] # NoGroup
    <3>1. /\ Agreed(State)' /\ Companioned(State)' /\ online' = online \ {p}
          /\ group'[p] = NoGroup
          /\ \A q \in Players : group'[q] = group[q] \/ group'[q] = NoGroup
      BY <1>4, <2>2, OutEffect DEF Logout
    <3>2. QED BY <3>1 DEF IInv, Grouped
  <2>3. QED BY <2>1, <2>2
<1>5. CASE UNCHANGED vars
  BY <1>5 DEF vars, IInv, State, Grouped
<1>6. QED BY <1>1, <1>2, <1>3, <1>4, <1>5 DEF Next

-----------------------------------------------------------------------------
(* The parties.                                                            *)

Lists == {members[g] : g \in Allocated}

\* No two groups have the same list, or a member in common.
LEMMA ListsAreDisjoint ==
  ASSUME IInv, NEW g \in Allocated, NEW h \in Allocated, members[g] = members[h]
  PROVE  g = h
<1>1. /\ members \in [GroupIds -> Seq(Players)] /\ Allocated \subseteq GroupIds
      /\ members[g] # <<>>
      /\ \A i \in GroupIds : \A p \in Players : group[p] = i <=> p \in ToSet(members[i])
  BY DEF IInv, Agreed, States, State, Allocated
<1>2. members[g][1] \in Players /\ members[g][1] \in ToSet(members[g])
  <2>1. Len(members[g]) \in Nat \ {0} /\ DOMAIN members[g] = 1..Len(members[g])
    BY <1>1, EmptySeq, LenProperties
  <2>2. 1 \in 1..Len(members[g])
    BY <2>1
  <2>3. QED BY <1>1, <2>1, <2>2, ElementOfSeq DEF ToSet
<1>3. QED BY <1>1, <1>2

LEMMA ListsChange ==
  ASSUME IInv, NEW g \in GroupIds, NEW new, members' = [members EXCEPT ![g] = new]
  PROVE  Lists' = (IF members[g] = <<>> THEN Lists ELSE Lists \ {members[g]})
                    \cup (IF new = <<>> THEN {} ELSE {new})
<1>1. members \in [GroupIds -> Seq(Players)]
  BY DEF IInv, Agreed, States, State
<1>2. /\ members'[g] = new
      /\ \A h \in GroupIds \ {g} : members'[h] = members[h]
  BY <1>1
<1>3. \A P : P \in Lists' <=> \/ P = new /\ new # <<>>
                             \/ \E h \in GroupIds \ {g} : members[h] = P /\ P # <<>>
  BY <1>2 DEF Lists, Allocated
<1>4. \A P : P \in Lists <=> \/ P = members[g] /\ P # <<>>
                            \/ \E h \in GroupIds \ {g} : members[h] = P /\ P # <<>>
  BY DEF Lists, Allocated
<1>5. \A h \in GroupIds \ {g} : members[g] # <<>> => members[h] # members[g]
  BY ListsAreDisjoint DEF Allocated
<1>6. QED BY <1>3, <1>4, <1>5

\* Who has no group is in no party.
LEMMA FreeOutside ==
  ASSUME IInv, NEW p \in Players, group[p] = NoGroup
  PROVE  Abstract!Free(p)
<1>1. \A g \in GroupIds : p \notin ToSet(members[g])
  BY NoGroupIsNoAddress DEF IInv, Agreed, State
<1>2. QED BY <1>1 DEF Abstract!Free, Abstract!ToSet, ToSet, Allocated

LEMMA JoinRefines ==
  ASSUME IInv, NEW p \in Players, NEW q \in Players, JoinGroup(q, p)
  PROVE  Abstract!Next
<1>1. Abstract!Free(q) /\ p # q
  BY JoinEffect, FreeOutside
<1>2. CASE group[p] = NoGroup
  <2>1. Abstract!Free(p)
    BY <1>2, FreeOutside
  <2>2. PICK g \in GroupIds : /\ members[g] = <<>>
                             /\ members' = [members EXCEPT ![g] = <<p, q>>]
    BY <1>2, JoinEffect
  <2>3. <<p, q>> # <<>>
    OBVIOUS
  <2>4. Lists' = Lists \cup {<<p, q>>}
    BY <2>2, <2>3, ListsChange
  <2>5. Abstract!Form(p, q)
    BY <1>1, <2>1, <2>4 DEF Abstract!Form, Lists
  <2>6. QED BY <2>5 DEF Abstract!Next
<1>3. CASE group[p] # NoGroup
  <2> DEFINE g == group[p]
             P == members[g]
  <2>1. /\ g \in GroupIds /\ P \in Seq(Players)
        /\ p \in ToSet(P) /\ P # <<>>
    <3>1. g \in GroupIds /\ P \in Seq(Players) /\ p \in ToSet(P)
      BY <1>3 DEF IInv, Agreed, States, State
    <3>2. QED BY <3>1, EmptySeq DEF ToSet
  <2>2. Len(P) < MaxSize /\ members' = [members EXCEPT ![g] = Append(P, q)]
    BY <1>3, JoinEffect
  <2>3. Append(P, q) # <<>>
    BY <2>1, AppendProperties
  <2>4. Lists' = (Lists \ {P}) \cup {Append(P, q)}
    BY <2>1, <2>2, <2>3, ListsChange
  <2>5. P \in Lists
    BY <2>1 DEF Lists, Allocated
  <2>6. Abstract!Extend(P, q)
    BY <1>1, <2>2, <2>4 DEF Abstract!Extend, Lists, MaxSize, Abstract!MaxSize
  <2>7. QED BY <2>5, <2>6 DEF Abstract!Next, Lists
<1>4. QED BY <1>2, <1>3

LEMMA OutRefines ==
  ASSUME IInv, NEW p \in Players, group[p] # NoGroup,
         Becomes(GroupKick(State, group[p], p))
  PROVE  Abstract!Next
<1> DEFINE g == group[p]
           P == members[g]
<1>1. /\ g \in GroupIds /\ P # <<>>
      /\ \/ members' = [members EXCEPT ![g] = <<>>]
         \/ \E k \in DOMAIN P : /\ k > 1 /\ Len(P) > 2
                               /\ members' = [members EXCEPT ![g] = RemoveAt(P, k)]
  BY OutEffect
<1>2. P \in Lists
  BY <1>1 DEF Lists, Allocated
<1>3. CASE members' = [members EXCEPT ![g] = <<>>]
  <2>1. Lists' = Lists \ {P}
    BY <1>1, <1>3, ListsChange
  <2>2. QED BY <1>2, <2>1 DEF Abstract!Next, Abstract!Dissolve, Lists
<1>4. ASSUME NEW k \in DOMAIN P, k > 1, Len(P) > 2,
             members' = [members EXCEPT ![g] = RemoveAt(P, k)]
      PROVE  Abstract!Next
  <2>1. P \in Seq(Players) /\ IsInjective(P) /\ k \in 1..Len(P) /\ Len(P) \in Nat
    <3>1. P \in Seq(Players) /\ IsInjective(P)
      BY <1>1 DEF IInv, Agreed, States, State
    <3>2. QED BY <3>1, LenProperties
  <2>2. RemoveAt(P, k) \in Seq(Players) /\ Len(RemoveAt(P, k)) = Len(P) - 1
    BY <2>1, RemoveOne
  <2>3. RemoveAt(P, k) # <<>>
    BY <1>4, <2>1, <2>2, EmptySeq
  <2>4. Lists' = (Lists \ {P}) \cup {RemoveAt(P, k)}
    BY <1>1, <1>4, <2>3, ListsChange
  <2>5. Abstract!Shrink(P, k)
    BY <1>4, <2>4 DEF Abstract!Shrink, Abstract!RemoveAt, RemoveAt, Lists
  <2>6. QED BY <1>2, <2>5 DEF Abstract!Next, Lists
<1>5. QED BY <1>1, <1>3, <1>4

LEMMA StepRefines == IInv /\ [Next]_vars => [Abstract!Next]_Lists
<1> SUFFICES ASSUME IInv, [Next]_vars PROVE Abstract!Next \/ UNCHANGED Lists
  OBVIOUS
<1>1. ASSUME UNCHANGED members PROVE UNCHANGED Lists
  BY <1>1 DEF Lists, Allocated
<1>2. ASSUME NEW p \in Players, Login(p) PROVE UNCHANGED members
  BY <1>2 DEF Login
<1>3. ASSUME NEW p \in Players, LeaveGroup(p) PROVE Abstract!Next
  BY <1>3, OutRefines DEF LeaveGroup
<1>4. ASSUME NEW p \in Players, Logout(p) PROVE Abstract!Next \/ UNCHANGED members
  <2>1. CASE group[p] = NoGroup
    BY <1>4, <2>1 DEF Logout, GroupKick, Becomes, State
  <2>2. CASE group[p] # NoGroup
    BY <1>4, <2>2, OutRefines DEF Logout
  <2>3. QED BY <2>1, <2>2
<1>5. QED
  BY <1>1, <1>2, <1>3, <1>4, JoinRefines DEF Next, vars

-----------------------------------------------------------------------------

\* The inductive invariant.
THEOREM GroupsAreInvariant == Spec => []IInv
BY InitIInv, NextIInv, PTL DEF Spec

\* No member list outgrows the packets that carry it.
THEOREM TypeIsInvariant == Spec => []TypeOK
<1>1. IInv => TypeOK
  <2> SUFFICES ASSUME IInv PROVE TypeOK
    OBVIOUS
  <2>1. /\ group \in [Players -> GroupIds \cup {NoGroup}]
        /\ members \in [GroupIds -> Seq(Players)]
        /\ roster \in [Players -> SUBSET Players]
        /\ \A g \in GroupIds : Len(members[g]) <= MaxSize
    BY DEF IInv, Agreed, States, State
  <2>2. ASSUME NEW g \in GroupIds PROVE members[g] \in BoundedSeq(Players, MaxSize)
    <3>1. members[g] \in Seq(Players) /\ Len(members[g]) <= MaxSize
      BY <2>1
    <3>2. members[g] \in [1..Len(members[g]) -> Players] /\ Len(members[g]) \in Nat
      BY <3>1, LenProperties
    <3>3. Len(members[g]) \in 0..MaxSize
      <4>1. \A n \in Nat : n <= MaxSize => n \in 0..MaxSize
        BY DEF MaxSize
      <4>2. QED BY <3>1, <3>2, <4>1
    <3>4. QED BY <3>2, <3>3 DEF BoundedSeq, SeqOf
  <2>3. QED BY <2>1, <2>2 DEF TypeOK, IInv
<1>2. QED BY <1>1, GroupsAreInvariant, PTL

\* joinGroup(), leaveGroup(), groupKick() and removePlayer() leave no pointer
\* to a deleted group, and no group a pointer to a player that is gone.
THEOREM PointersAlwaysAgree == Spec => []PointersAgree
<1>1. IInv => PointersAgree
  <2> SUFFICES ASSUME IInv, NEW g \in GroupIds
               PROVE  /\ IsInjective(members[g]) /\ ToSet(members[g]) \subseteq online
                      /\ \A p \in Players : group[p] = g <=> p \in ToSet(members[g])
    BY DEF PointersAgree
  <2>1. /\ IsInjective(members[g]) /\ members[g] \in Seq(Players)
        /\ \A p \in Players : group[p] = g <=> p \in ToSet(members[g])
    BY DEF IInv, Agreed, States, State
  <2>2. ToSet(members[g]) \subseteq Players
    BY <2>1, LenProperties, ElementOfSeq DEF ToSet
  <2>3. QED BY <2>1, <2>2, NoGroupIsNoAddress DEF IInv, Grouped
<1>2. QED BY <1>1, GroupsAreInvariant, PTL

\* Every change of a group is announced to all whom it concerns.
THEOREM RostersAlwaysAgree == Spec => []RostersAgree
<1>1. IInv => RostersAgree
  BY DEF IInv, Agreed, State, RostersAgree
<1>2. QED BY <1>1, GroupsAreInvariant, PTL

\* The lists, pointers and packets of Groups.cpp implement Parties.tla: groups
\* form, grow, shrink and dissolve as parties do.
THEOREM GroupsImplementParties == Spec => ImplementsParties
<1>1. Init => Abstract!Init
  BY DEF Init, Abstract!Init, Allocated
<1>2. IInv /\ [Next]_vars => [Abstract!Next]_Lists
  BY StepRefines
<1>3. QED
  BY <1>1, <1>2, GroupsAreInvariant, PTL
  DEF Spec, ImplementsParties, Abstract!Spec, Lists
=============================================================================
