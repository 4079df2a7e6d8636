--------------------------- MODULE ProgressProofs ---------------------------
(***************************************************************************)
(* In Progress.tla rewards are paid once, quest items never overshoot and  *)
(* only powered nanos are out, whatever the missions, the nanos and the    *)
(* places of the log are; and the nano mission finds a place in it.        *)
(***************************************************************************)
EXTENDS Progress, FiniteSetTheorems, WellFoundedInduction, TLAPS

Data == DOMAIN game
Ends(t) == game[t].next = "none"

\* Places without a task are as new, and no task runs twice.
Tidy(w) ==
  /\ \A i \in Log : w.log[i].task = "none" => w.log[i] = Idle
  /\ \A i, j \in Log : w.log[i].task = w.log[j].task /\ w.log[i].task # "none" => i = j

\* A place is left for a nano mission: the ordinary tasks that run, and the
\* one that follows an ordinary task that has ended.
Ordinary(w) == {t \in Data : Runs(w, t) /\ game[t].nano = 0}
Due(w) == IF w.due # "none" /\ game[w.due].nano = 0 THEN 1 ELSE 0
Fits(w) == Cardinality(Ordinary(w)) + Due(w) < NLog

\* The last task of a mission does not run once the mission is completed.
Fresh(w) == \A t \in Data : Runs(w, t) /\ Ends(t) => game[t].mission \notin w.done

\* What happens to other nanos does not matter to the one that is out.
Powered(w) ==
  w.active # 0 => w.nanos[w.active].skill # "none" /\ w.nanos[w.active].stamina >= 0

Levelled(w) == \A n \in w.owned : n <= w.level
Capped(w) == w.fm <= FMLimit[w.level]

\* What every function keeps, at whatever point it is called.
Sound(w) == w \in Player /\ Tidy(w) /\ Fits(w) /\ Fresh(w) /\ Powered(w) /\ Levelled(w)

Paid(w) ==
  \A t \in Data : Ends(t) =>
    /\ game[t].prize = 1 => w.prizes[t] = IF game[t].mission \in w.done THEN 1 ELSE 0
    /\ game[t].nano # 0 /\ game[t].mission \in w.done => game[t].nano \in w.owned

\* No more items than the task needs, even with those that it starts with.
Counted(w) ==
  \A t \in Data : game[t].need # 0 =>
    /\ w.items[game[t].item] <= game[t].need
    /\ ~ Runs(w, t) => w.items[game[t].item] + game[t].atStart <= game[t].need

Stored(w) == Room(w) >= 0

Good(w) == Sound(w) /\ Capped(w) /\ Paid(w) /\ Counted(w) /\ Stored(w)

IInv == game \in Games /\ Good(plr)

-----------------------------------------------------------------------------
(* The data, and the induction that loops need.                            *)

LEMMA TheData ==
  ASSUME game \in Games
  PROVE  /\ Data \subseteq Tasks /\ "none" \notin Data /\ IsFiniteSet(Data)
         /\ "none" \notin Items /\ "none" \notin Enemies
         /\ \A t \in Data :
              /\ game[t].mission \in Missions /\ game[t].nano \in Nanos \cup {0}
              /\ game[t].next \in Data \cup {"none"} /\ game[t].item \in Items \cup {"none"}
              /\ game[t].enemy \in Enemies \cup {"none"}
              /\ game[t].kills \in Nat /\ game[t].need \in Nat /\ game[t].fm \in Nat
              /\ game[t].atStart \in Int /\ game[t].atEnd \in Int /\ game[t].atFail \in Int
              /\ game[t].prize \in {0, 1}
<1>1. /\ Data \subseteq Tasks /\ "none" \notin Tasks /\ IsFiniteSet(Tasks)
      /\ "none" \notin Items /\ "none" \notin Enemies
      /\ game \in [Data -> [mission : Missions, next : Tasks \cup {"none"},
           nano : Nanos \cup {0}, enemy : Enemies \cup {"none"}, kills : Nat,
           item : Items \cup {"none"}, need : Nat, atStart : Int, atEnd : Int, atFail : Int,
           timed : BOOLEAN, fails : BOOLEAN, instanced : BOOLEAN, prize : {0, 1}, fm : Nat]]
  BY DataIsSound DEF Data
<1>2. IsFiniteSet(Data)
  BY <1>1, FS_Subset
<1>3. \A t \in Data : game[t].next \in Data \cup {"none"}
  BY MissionsAreChains DEF Data
<1> HIDE DEF Data
<1>4. QED BY <1>1, <1>2, <1>3

LEMMA TheNanos ==
  /\ Levels \subseteq Nat /\ Nanos \subseteq Levels /\ 0 \notin Nanos /\ NLog \in Nat \ {0}
  /\ \A n \in Nanos : n - 1 \in Levels
  /\ \A l \in Levels : \A n \in Nanos : n > l => n - 1 \in Levels
  /\ \A l \in Levels : FMLimit[l] \in Nat /\ NanoCost[l] \in Nat
<1>1. FirstLevel \in Nat /\ TopLevel \in Nat /\ NLog \in Nat \ {0} /\ Nanos \subseteq Levels \ {FirstLevel}
      /\ FMLimit \in [Levels -> Nat] /\ NanoCost \in [Levels -> Nat]
  BY DataIsSound
<1>2. QED BY <1>1 DEF Levels

LEMMA LeastExists ==
  ASSUME NEW T \in SUBSET Nat, T # {}
  PROVE  \E n \in T : \A m \in T : n <= m
<1>1. PICK n \in T : \A m \in T : ~ (<<m, n>> \in OpToRel(<, Nat))
  BY NatLessThanWellFounded, WFMin
<1>2. \A m \in T : m < n => <<m, n>> \in OpToRel(<, Nat)
  BY DEF OpToRel
<1>3. \A m \in T : ~ (m < n) /\ m \in Nat /\ n \in Nat
  BY <1>1, <1>2
<1>4. QED BY <1>3

LEMMA LeastIsIn ==
  ASSUME NEW T \in SUBSET Nat, T # {}
  PROVE  Least(T) \in T
BY LeastExists DEF Least

\* What a loop does, whose bodies keep S.
Bodies(S, n) == [1..n -> [S -> S]]
LoopsTo(S, n, w, body, f) ==
  f \in [0..n -> S] /\ f[0] = w /\ \A i \in 1..n : f[i] = body[i][f[i - 1]]

\* Such a loop can be run.
LEMMA LoopRuns ==
  ASSUME NEW S, NEW n \in Nat, NEW w \in S, NEW body \in Bodies(S, n)
  PROVE  \E f : LoopsTo(S, n, w, body, f)
<1> DEFINE Run(k, f) == f \in [0..k -> S] /\ f[0] = w /\ \A i \in 1..k : f[i] = body[i][f[i - 1]]
           Bad == {k \in 0..n : ~ \E f : Run(k, f)}
<1>1. SUFFICES Bad = {}
  <2>1. n \in 0..n
    OBVIOUS
  <2>2. PICK f : Run(n, f)
    BY <1>1, <2>1
  <2>3. LoopsTo(S, n, w, body, f)
    BY <2>2 DEF LoopsTo
  <2>4. QED BY <2>3
<1>2. SUFFICES ASSUME Bad # {} PROVE FALSE
  OBVIOUS
<1>3. PICK k \in Bad : \A m \in Bad : k <= m
  <2>1. Bad \in SUBSET Nat
    OBVIOUS
  <2> HIDE DEF Bad
  <2>2. QED BY <1>2, <2>1, LeastExists
<1>4. k # 0
  <2>1. Run(0, [i \in 0..0 |-> w])
    OBVIOUS
  <2>2. QED BY <1>3, <2>1
<1>5. k - 1 \in 0..n /\ k - 1 \notin Bad /\ k \in 1..n
  <2>1. k \in 0..n
    BY <1>3
  <2>2. k - 1 \in 0..n /\ k \in 1..n /\ ~ (k <= k - 1)
    BY <1>4, <2>1
  <2> HIDE DEF Bad
  <2>3. QED BY <1>3, <2>2
<1>6. PICK f : Run(k - 1, f)
  BY <1>5
<1> DEFINE g == [i \in 0..k |-> IF i = k THEN body[k][f[k - 1]] ELSE f[i]]
<1>7. g \in [0..k -> S]
  <2>1. f[k - 1] \in S
    BY <1>5, <1>6
  <2>2. body[k][f[k - 1]] \in S
    BY <1>5, <2>1 DEF Bodies
  <2>3. \A i \in 0..k : i # k => f[i] \in S
    BY <1>5, <1>6
  <2>4. QED BY <2>2, <2>3
<1>8. \A i \in 1..k : g[i] = body[i][g[i - 1]]
  <2>1. SUFFICES ASSUME NEW i \in 1..k PROVE g[i] = body[i][g[i - 1]]
    OBVIOUS
  <2>2. CASE i = k
    BY <1>5, <2>2
  <2>3. CASE i # k
    <3>1. i \in 1..(k - 1) /\ i - 1 # k /\ i - 1 \in 0..k
      BY <1>5, <2>3
    <3>2. g[i] = f[i] /\ g[i - 1] = f[i - 1]
      BY <1>5, <2>3, <3>1
    <3>3. QED BY <1>6, <3>1, <3>2
  <2>4. QED BY <2>2, <2>3
<1>9. g[0] = w
  BY <1>5, <1>6
<1>10. Run(k, g)
  BY <1>7, <1>8, <1>9
<1>11. QED BY <1>3, <1>10

\* One that is defined by its steps stays in S too.
LEMMA LoopStays ==
  ASSUME NEW S, NEW n \in Nat, NEW f, f[0] \in S,
         \A i \in 1..n : f[i - 1] \in S => f[i] \in S
  PROVE  f[n] \in S
<1> DEFINE Bad == {k \in 0..n : f[k] \notin S}
<1>1. SUFFICES ASSUME Bad # {} PROVE FALSE
  OBVIOUS
<1>2. PICK k \in Bad : \A m \in Bad : k <= m
  <2>1. Bad \in SUBSET Nat
    OBVIOUS
  <2> HIDE DEF Bad
  <2>2. QED BY <1>1, <2>1, LeastExists
<1>3. k \in 1..n /\ k - 1 \in 0..n /\ ~ (k <= k - 1)
  BY <1>2
<1>4. k - 1 \notin Bad
  BY <1>2, <1>3
<1>5. QED BY <1>2, <1>3, <1>4

-----------------------------------------------------------------------------
(* The log.                                                                *)

\* w with another task log.
Logged(w, L) == [w EXCEPT !.log = L]
Logs == [Log -> [task : Data \cup {"none"}, left : Nat]]

LEMMA LoggedIs ==
  ASSUME NEW w \in Player, NEW L \in Logs
  PROVE  /\ Logged(w, L) \in Player /\ Logged(w, L).log = L
         /\ Logged(w, L).items = w.items /\ Logged(w, L).done = w.done
         /\ Logged(w, L).due = w.due /\ Logged(w, L).prizes = w.prizes
         /\ Logged(w, L).junk = w.junk /\ Logged(w, L).fm = w.fm
         /\ Logged(w, L).level = w.level /\ Logged(w, L).owned = w.owned
         /\ Logged(w, L).past = w.past
         /\ Logged(w, L).nanos = w.nanos /\ Logged(w, L).active = w.active
BY DEF Logged, Logs, Player, Data

LEMMA IdleIs == ASSUME game \in Games PROVE Idle \in [task : Data \cup {"none"}, left : Nat]
BY DEF Idle

\* A place that is taken from its task, and one that gets a task.
LEMMA PlaceFreed ==
  ASSUME game \in Games, NEW w \in Player, Tidy(w), NEW t \in Data
  PROVE  LET v == Stopped(w, t) IN
         /\ v = Logged(w, v.log) /\ v.log \in Logs /\ v \in Player /\ Tidy(v)
         /\ \A s \in Data : Runs(v, s) <=> Runs(w, s) /\ s # t
<1> DEFINE L == [i \in Log |-> IF w.log[i].task = t THEN Idle ELSE w.log[i]]
<1>1. w.log \in Logs /\ Log = 1..NLog /\ "none" \notin Data
  BY TheData DEF Player, Logs, Data, Log
<1>2. L \in Logs
  BY <1>1, IdleIs DEF Logs
<1>3. Stopped(w, t) = Logged(w, L)
  BY DEF Stopped, Logged, Player
<1>4. Logged(w, L) \in Player /\ Logged(w, L).log = L
  BY <1>2, LoggedIs
<1>5. /\ \A i \in Log : L[i].task = "none" => L[i] = Idle
      /\ \A i, j \in Log : L[i].task = L[j].task /\ L[i].task # "none" => i = j
  BY <1>1 DEF Tidy, Idle
<1>6. \A s \in Data : (\E i \in Log : L[i].task = s) <=> Runs(w, s) /\ s # t
  BY <1>1 DEF Runs, Idle
<1> HIDE DEF L
<1>7. QED BY <1>2, <1>3, <1>4, <1>5, <1>6 DEF Tidy, Runs

LEMMA PlaceTaken ==
  ASSUME game \in Games, NEW w \in Player, Tidy(w), NEW t \in Data, ~ Runs(w, t),
         NEW i \in Free(w), NEW n \in Nat
  PROVE  LET L == [w.log EXCEPT ![i] = [task |-> t, left |-> n]]
             v == Logged(w, L) IN
         /\ L \in Logs /\ v \in Player /\ Tidy(v)
         /\ \A s \in Data : Runs(v, s) <=> Runs(w, s) \/ s = t
<1> DEFINE L == [w.log EXCEPT ![i] = [task |-> t, left |-> n]]
<1>1. w.log \in Logs /\ "none" \notin Data /\ i \in Log /\ w.log[i] = Idle
  BY TheData DEF Player, Logs, Data, Free
<1>2. L \in Logs
  BY <1>1 DEF Logs
<1>3. Logged(w, L) \in Player /\ Logged(w, L).log = L
  BY <1>2, LoggedIs
<1>4. \A k \in Log : L[k] = IF k = i THEN [task |-> t, left |-> n] ELSE w.log[k]
  BY <1>1 DEF Logs
<1>5. \A k \in Log : L[k].task = IF k = i THEN t ELSE w.log[k].task
  BY <1>4
<1>6. w.log[i].task = "none" /\ t # "none"
  BY <1>1 DEF Idle
<1>7. \A k \in Log : w.log[k].task # t
  BY DEF Runs
<1> HIDE DEF L
<1>8. Tidy(Logged(w, L))
  BY <1>3, <1>4, <1>5, <1>6, <1>7 DEF Tidy
<1>9. \A s \in Data : (\E k \in Log : L[k].task = s) <=> Runs(w, s) \/ s = t
  <2>1. SUFFICES ASSUME NEW s \in Data
                 PROVE  (\E k \in Log : L[k].task = s) <=> Runs(w, s) \/ s = t
    OBVIOUS
  <2>2. s # "none"
    BY <1>1
  <2>3. QED BY <1>1, <1>5, <1>6, <2>2 DEF Runs
<1>10. QED BY <1>2, <1>3, <1>8, <1>9 DEF L, Runs

\* What was in the first place moves to a free one.
LEMMA PlaceMoved ==
  ASSUME game \in Games, NEW w \in Player, Tidy(w), w.log[1] # Idle, NEW to \in Free(w)
  PROVE  LET L == [w.log EXCEPT ![to] = w.log[1], ![1] = Idle]
             v == Logged(w, L) IN
         /\ L \in Logs /\ v \in Player /\ Tidy(v) /\ Free(v) # {}
         /\ \A s \in Data : Runs(v, s) <=> Runs(w, s)
<1> DEFINE L == [w.log EXCEPT ![to] = w.log[1], ![1] = Idle]
<1>1. /\ w.log \in Logs /\ "none" \notin Data /\ to \in Log /\ w.log[to] = Idle
      /\ 1 \in Log /\ to # 1
  BY TheData, TheNanos DEF Player, Logs, Data, Free, Log
<1>2. L \in Logs
  BY <1>1, IdleIs DEF Logs
<1>3. Logged(w, L) \in Player /\ Logged(w, L).log = L
  BY <1>2, LoggedIs
<1>4. \A k \in Log : L[k] = IF k = 1 THEN Idle ELSE IF k = to THEN w.log[1] ELSE w.log[k]
  BY <1>1 DEF Logs
<1>5. \A k \in Log : L[k].task = IF k = 1 THEN "none" ELSE IF k = to THEN w.log[1].task ELSE w.log[k].task
  BY <1>4 DEF Idle
<1>6. w.log[to].task = "none"
  BY <1>1 DEF Idle
<1> HIDE DEF L
<1>7. Tidy(Logged(w, L))
  BY <1>1, <1>3, <1>4, <1>5, <1>6 DEF Tidy
<1>8. \A s \in Data : (\E k \in Log : L[k].task = s) <=> Runs(w, s)
  <2>1. SUFFICES ASSUME NEW s \in Data PROVE (\E k \in Log : L[k].task = s) <=> Runs(w, s)
    OBVIOUS
  <2>2. s # "none"
    BY <1>1
  <2>3. ASSUME NEW k \in Log, L[k].task = s PROVE Runs(w, s)
    BY <1>1, <1>5, <2>2, <2>3 DEF Runs
  <2>4. ASSUME NEW k \in Log, w.log[k].task = s PROVE \E j \in Log : L[j].task = s
    <3>1. CASE k = 1
      BY <1>1, <1>5, <2>4, <3>1
    <3>2. CASE k # 1
      <4>1. k # to
        BY <1>6, <2>2, <2>4
      <4>2. L[k].task = s
        BY <1>5, <2>4, <3>2, <4>1
      <4>3. QED BY <4>2
    <3>3. QED BY <3>1, <3>2
  <2>5. QED BY <2>3, <2>4 DEF Runs
<1>9. 1 \in Free(Logged(w, L))
  BY <1>1, <1>3, <1>4 DEF Free
<1>10. QED BY <1>2, <1>3, <1>7, <1>8, <1>9 DEF L, Runs

\* startTask() of a task that does not run, with a free place.
LEMMA StartTaskStarts ==
  ASSUME game \in Games, NEW w \in Player, Tidy(w), NEW t \in Data, ~ Runs(w, t),
         Free(w) # {}, game[t].mission \notin w.done
  PROVE  LET v == StartTask(w, t) IN
         /\ v = Logged(w, v.log) /\ v.log \in Logs /\ v \in Player /\ Tidy(v)
         /\ \A s \in Data : Runs(v, s) <=> Runs(w, s) \/ s = t
<1> DEFINE to == Least(Free(w))
           moves == game[t].nano # 0 /\ w.log[1] # Idle
           M == IF moves THEN [w.log EXCEPT ![to] = w.log[1], ![1] = Idle] ELSE w.log
           moved == Logged(w, M)
           q == Least(Free(moved))
           L == [M EXCEPT ![q] = [task |-> t, left |-> game[t].kills]]
<1>1. \A v : Free(v) \in SUBSET Nat
  BY DEF Free, Log
<1>2. to \in Free(w) /\ w.log \in Logs /\ game[t].kills \in Nat
  BY <1>1, LeastIsIn, TheData DEF Player, Logs, Data
<1>3. /\ M \in Logs /\ moved \in Player /\ Tidy(moved) /\ Free(moved) # {}
      /\ \A s \in Data : Runs(moved, s) <=> Runs(w, s)
  <2>1. CASE moves
    BY <1>2, <2>1, PlaceMoved
  <2>2. CASE ~ moves
    <3>1. moved = w
      BY <2>2 DEF Logged, Player
    <3>2. QED BY <1>2, <2>2, <3>1
  <2>3. QED BY <2>1, <2>2
<1>4. q \in Free(moved)
  BY <1>1, <1>3, LeastIsIn
<1>5. moved.log = M
  BY <1>3, LoggedIs
<1>6. /\ L \in Logs /\ Logged(moved, L) \in Player /\ Tidy(Logged(moved, L))
      /\ \A s \in Data : Runs(Logged(moved, L), s) <=> Runs(moved, s) \/ s = t
  <2>1. ~ Runs(moved, t)
    BY <1>3
  <2> HIDE DEF M, moved, q
  <2> DEFINE K == [moved.log EXCEPT ![q] = [task |-> t, left |-> game[t].kills]]
  <2>2. /\ K \in Logs /\ Logged(moved, K) \in Player /\ Tidy(Logged(moved, K))
        /\ \A s \in Data : Runs(Logged(moved, K), s) <=> Runs(moved, s) \/ s = t
    BY <1>2, <1>3, <1>4, <2>1, PlaceTaken
  <2>3. K = L
    BY <1>5
  <2>4. QED BY <2>2, <2>3
<1>7. Logged(moved, L) = Logged(w, L)
  BY <1>2 DEF Logged, Player
<1>8. StartTask(w, t) = Logged(w, L)
  <2>1. StartTask(w, t) =
          LET to1 == Least(Free(w))
              moved1 == IF moves
                        THEN [w EXCEPT !.log[to1] = w.log[1], !.log[1] = Idle] ELSE w
          IN [moved1 EXCEPT !.log[Least(Free(moved1))] = [task |-> t, left |-> game[t].kills]]
    BY DEF StartTask
  <2>2. moved = IF moves THEN [w EXCEPT !.log[to] = w.log[1], !.log[1] = Idle] ELSE w
    BY <1>2 DEF Logged, Player
  <2>3. StartTask(w, t) = [moved EXCEPT !.log[q] = [task |-> t, left |-> game[t].kills]]
    BY <2>1, <2>2
  <2>4. [moved EXCEPT !.log[q] = [task |-> t, left |-> game[t].kills]] = Logged(moved, L)
    BY <1>3, <1>5 DEF Logged, Player
  <2>5. QED BY <1>7, <2>3, <2>4
<1>9. Logged(w, L).log = L
  BY <1>6, LoggedIs
<1> HIDE DEF L, M, moved, q, to, moves
<1>10. QED BY <1>3, <1>6, <1>7, <1>8, <1>9

-----------------------------------------------------------------------------
(* Places and tasks.                                                       *)

LEMMA OrdinaryIsFinite ==
  ASSUME game \in Games, NEW w
  PROVE  IsFiniteSet(Ordinary(w)) /\ Cardinality(Ordinary(w)) \in Nat
<1>1. Ordinary(w) \in SUBSET Data
  BY DEF Ordinary
<1>2. QED BY <1>1, TheData, FS_Subset, FS_CardinalityType

LEMMA OrdinaryGrows ==
  ASSUME game \in Games, NEW w, NEW v, NEW t \in Data, ~ Runs(w, t),
         \A s \in Data : Runs(v, s) <=> Runs(w, s) \/ s = t
  PROVE  /\ Cardinality(Ordinary(w)) \in Nat /\ Cardinality(Ordinary(v)) \in Nat
         /\ Cardinality(Ordinary(v)) = Cardinality(Ordinary(w)) + IF game[t].nano = 0 THEN 1 ELSE 0
<1>1. CASE game[t].nano = 0
  <2>1. Ordinary(v) = Ordinary(w) \cup {t} /\ t \notin Ordinary(w)
    BY <1>1 DEF Ordinary
  <2>2. QED BY <1>1, <2>1, OrdinaryIsFinite, FS_AddElement
<1>2. CASE game[t].nano # 0
  <2>1. Ordinary(v) = Ordinary(w)
    BY <1>2 DEF Ordinary
  <2>2. QED BY <1>2, <2>1, OrdinaryIsFinite
<1>3. QED BY <1>1, <1>2

LEMMA OrdinaryShrinks ==
  ASSUME game \in Games, NEW w, NEW v, \A s \in Data : Runs(v, s) => Runs(w, s)
  PROVE  /\ Cardinality(Ordinary(w)) \in Nat /\ Cardinality(Ordinary(v)) \in Nat
         /\ Cardinality(Ordinary(v)) <= Cardinality(Ordinary(w))
         /\ \A t \in Data : game[t].nano = 0 /\ Runs(w, t) /\ ~ Runs(v, t)
              => Cardinality(Ordinary(v)) + 1 <= Cardinality(Ordinary(w))
<1>1. /\ IsFiniteSet(Ordinary(w)) /\ Cardinality(Ordinary(w)) \in Nat
      /\ IsFiniteSet(Ordinary(v)) /\ Cardinality(Ordinary(v)) \in Nat
  BY OrdinaryIsFinite
<1>2. Ordinary(v) \in SUBSET Ordinary(w)
  BY DEF Ordinary
<1>3. Cardinality(Ordinary(v)) <= Cardinality(Ordinary(w))
  BY <1>1, <1>2, FS_Subset
<1>4. ASSUME NEW t \in Data, game[t].nano = 0, Runs(w, t), ~ Runs(v, t)
      PROVE  Cardinality(Ordinary(v)) + 1 <= Cardinality(Ordinary(w))
  <2>1. t \in Ordinary(w) /\ t \notin Ordinary(v)
    BY <1>4 DEF Ordinary
  <2>2. Ordinary(v) \cup {t} \in SUBSET Ordinary(w)
    BY <1>2, <2>1
  <2>3. Cardinality(Ordinary(v) \cup {t}) = Cardinality(Ordinary(v)) + 1
    BY <1>1, <2>1, FS_AddElement
  <2>4. QED BY <1>1, <2>2, <2>3, FS_Subset
<1>5. QED BY <1>1, <1>3, <1>4

LEMMA LogIsFinite == IsFiniteSet(Log) /\ Cardinality(Log) = NLog
BY TheNanos, FS_Interval DEF Log

\* As long as no nano mission runs there is a place for one.
LEMMA PlaceIsLeft ==
  ASSUME game \in Games, NEW w \in Player, Tidy(w), Fits(w),
         \A i \in Log : w.log[i] # Idle => game[w.log[i].task].nano = 0
  PROVE  Free(w) # {}
<1>1. SUFFICES ASSUME Free(w) = {} PROVE FALSE
  OBVIOUS
<1> DEFINE f == [i \in Log |-> w.log[i].task]
<1>2. \A i \in Log : w.log[i] # Idle /\ w.log[i].task \in Data \cup {"none"}
  BY <1>1 DEF Free, Player, Data
<1>3. \A i \in Log : w.log[i].task # "none" /\ w.log[i].task \in Data
  BY <1>2 DEF Tidy
<1>4. f \in [Log -> Ordinary(w)]
  BY <1>2, <1>3 DEF Ordinary, Runs
<1>5. Cardinality(Ordinary(w)) < Cardinality(Log)
  BY OrdinaryIsFinite, LogIsFinite, TheNanos DEF Fits, Due
<1>6. \E i, j \in Log : i # j /\ f[i] = f[j]
  <2> HIDE DEF f
  <2>1. QED BY <1>4, <1>5, OrdinaryIsFinite, LogIsFinite, FS_PigeonHole
<1>7. QED BY <1>3, <1>6 DEF Tidy

\* The ordinary tasks are in places that are not free.
LEMMA PlacesAreCounted ==
  ASSUME game \in Games, NEW w \in Player, Tidy(w)
  PROVE  /\ Cardinality(Free(w)) \in Nat
         /\ Cardinality(Ordinary(w)) + Cardinality(Free(w)) <= NLog
<1> DEFINE f == [t \in Ordinary(w) |-> CHOOSE i \in Log : w.log[i].task = t]
           Taken == Log \ Free(w)
<1>1. \A t \in Ordinary(w) : f[t] \in Log /\ w.log[f[t]].task = t
  BY DEF Ordinary, Runs
<1>2. \A t \in Ordinary(w) : f[t] \in Taken
  <2>1. SUFFICES ASSUME NEW t \in Ordinary(w) PROVE f[t] \in Taken
    OBVIOUS
  <2>2. t # "none"
    BY TheData DEF Ordinary
  <2>3. w.log[f[t]] # Idle
    BY <1>1, <2>2 DEF Idle
  <2>4. QED BY <1>1, <2>3 DEF Free
<1>3. f \in Injection(Ordinary(w), Taken)
  <2>1. f \in [Ordinary(w) -> Taken]
    BY <1>2
  <2>2. \A s, t \in Ordinary(w) : f[s] = f[t] => s = t
    BY <1>1
  <2> HIDE DEF f
  <2>3. QED BY <2>1, <2>2 DEF Injection, IsInjective
<1>4. Free(w) \in SUBSET Log /\ Taken \in SUBSET Log
  BY DEF Free
<1>5. IsFiniteSet(Free(w)) /\ IsFiniteSet(Taken) /\ Cardinality(Free(w)) \in Nat /\ Cardinality(Taken) \in Nat
  BY <1>4, LogIsFinite, FS_Subset, FS_CardinalityType
<1>6. Free(w) \cup Taken = Log /\ Free(w) \cap Taken = {}
  BY <1>4
<1> HIDE DEF f, Taken
<1>7. Cardinality(Ordinary(w)) <= Cardinality(Taken)
  BY <1>3, <1>5, FS_Injection
<1>8. Cardinality(Free(w) \cap Taken) = 0
  BY <1>6, FS_EmptySet
<1>9. Cardinality(Free(w) \cup Taken)
        = Cardinality(Free(w)) + Cardinality(Taken) - Cardinality(Free(w) \cap Taken)
  BY <1>5, FS_Union
<1>10. Cardinality(Free(w) \cup Taken) = NLog
  BY <1>6, LogIsFinite
<1>11. NLog = Cardinality(Free(w)) + Cardinality(Taken)
  BY <1>5, <1>8, <1>9, <1>10
<1>12. QED BY <1>5, <1>7, <1>11, OrdinaryIsFinite

-----------------------------------------------------------------------------
(* Fusion Matter.                                                          *)

\* v differs from w in the log, Fusion Matter, quest items, prizes and rubbish
\* at most.
Same(v, w) ==
  /\ v.done = w.done /\ v.due = w.due /\ v.level = w.level /\ v.past = w.past
  /\ v.owned = w.owned /\ v.nanos = w.nanos /\ v.active = w.active
Stuff(v, w) == v.items = w.items /\ v.prizes = w.prizes /\ v.junk = w.junk

LEMMA SoundToo ==
  ASSUME NEW w, Sound(w), NEW v \in Player, Same(v, w), Tidy(v), Fits(v), Fresh(v)
  PROVE  Sound(v)
<1>1. Powered(v)
  BY DEF Sound, Same, Powered
<1>2. Levelled(v)
  BY DEF Sound, Same, Levelled
<1>3. QED BY <1>1, <1>2 DEF Sound

LEMMA FMCappedIs ==
  ASSUME NEW w, Sound(w)
  PROVE  LET v == FMCapped(w) IN
         /\ Sound(v) /\ Capped(v) /\ Same(v, w) /\ Stuff(v, w) /\ v.log = w.log
         /\ v.fm <= w.fm
<1> DEFINE v == FMCapped(w)
<1>1. w \in Player /\ w.level \in Levels /\ w.fm \in Nat /\ FMLimit[w.level] \in Nat
  BY TheNanos DEF Sound, Player
<1>2. v \in Player /\ Same(v, w) /\ Stuff(v, w) /\ v.log = w.log
  BY <1>1 DEF FMCapped, Player, Same, Stuff
<1>3. v.fm = IF w.fm > FMLimit[w.level] THEN FMLimit[w.level] ELSE w.fm
  BY <1>1 DEF FMCapped, Player
<1>4. Tidy(v) /\ Fits(v) /\ Fresh(v)
  BY <1>2 DEF Sound, Same, Tidy, Fits, Ordinary, Due, Fresh, Runs
<1>5. Sound(v)
  BY <1>2, <1>4, SoundToo
<1>6. Capped(v) /\ v.fm <= w.fm
  BY <1>1, <1>2, <1>3 DEF Capped, Same
<1>7. QED BY <1>2, <1>5, <1>6

\* updateFusionMatter(), with as much as there may be.
LEMMA UpdateFusionMatterIs ==
  ASSUME game \in Games, NEW w, Sound(w)
  PROVE  LET v == UpdateFusionMatter(w) IN
         /\ Sound(v) /\ Capped(v) /\ Same(v, w) /\ Stuff(v, w)
         /\ \A s \in Data : Runs(w, s) => Runs(v, s)
<1> DEFINE u == FMCapped(w)
           q == NanoQuest[w.level]
<1>1. Sound(u) /\ Capped(u) /\ Same(u, w) /\ Stuff(u, w) /\ u.log = w.log
  BY FMCappedIs
<1>2. \A s \in Data : Runs(w, s) <=> Runs(u, s)
  BY <1>1 DEF Runs
<1> HIDE DEF u
<1>3. CASE UpdateFusionMatter(w) = u
  BY <1>1, <1>2, <1>3
<1>4. CASE /\ UpdateFusionMatter(w) = StartTask(u, q) /\ StartTask(u, q) # u
           /\ w.level < LastLevel[game]
           /\ \A i \in Log : w.log[i] = Idle \/ game[w.log[i].task].nano = 0
  <2> DEFINE v == StartTask(u, q)
  <2>1. q \in Data /\ game[q].nano # 0
    BY <1>4, MissionsAreChains DEF Sound, Player, Data
  <2>2. ~ Runs(u, q)
    <3>1. SUFFICES ASSUME NEW i \in Log, w.log[i].task = q PROVE FALSE
      BY <1>1 DEF Runs
    <3>2. w.log[i] # Idle
      BY <2>1, <3>1, TheData DEF Idle
    <3>3. QED BY <1>4, <2>1, <3>1, <3>2
  <2>3. Free(u) # {}
    BY <1>1, <1>4, PlaceIsLeft DEF Sound
  <2>4. game[q].mission \notin u.done
    BY <1>4 DEF StartTask
  <2>5. /\ v = Logged(u, v.log) /\ v.log \in Logs /\ v \in Player /\ Tidy(v)
        /\ \A s \in Data : Runs(v, s) <=> Runs(u, s) \/ s = q
    BY <1>1, <2>1, <2>2, <2>3, <2>4, StartTaskStarts DEF Sound
  <2> HIDE DEF v
  <2>6. Same(v, u) /\ Stuff(v, u) /\ v.fm = u.fm
    BY <1>1, <2>5, LoggedIs DEF Same, Stuff, Sound
  <2>7. Fits(v)
    <3>1. Due(v) = Due(u)
      BY <2>6 DEF Due, Same
    <3>2. Cardinality(Ordinary(v)) = Cardinality(Ordinary(u))
      BY <2>1, <2>2, <2>5, OrdinaryGrows
    <3>3. QED BY <1>1, <3>1, <3>2 DEF Sound, Fits
  <2>8. Fresh(v)
    BY <1>1, <2>4, <2>5, <2>6 DEF Fresh, Sound, Same
  <2>9. Sound(v)
    BY <1>1, <2>5, <2>6, <2>7, <2>8, SoundToo
  <2>10. Capped(v)
    BY <1>1, <2>6 DEF Capped, Same
  <2>11. Same(v, w) /\ Stuff(v, w)
    BY <1>1, <2>6 DEF Same, Stuff
  <2>12. UpdateFusionMatter(w) = v
    BY <1>4 DEF v
  <2>13. QED BY <1>2, <2>5, <2>9, <2>10, <2>11, <2>12
<1>5. QED
  <2>1. UpdateFusionMatter(w) = u \/ UpdateFusionMatter(w) = StartTask(u, q)
    BY DEF UpdateFusionMatter, u
  <2>2. ASSUME UpdateFusionMatter(w) # u
        PROVE  /\ w.level < LastLevel[game]
               /\ \A i \in Log : w.log[i] = Idle \/ game[w.log[i].task].nano = 0
    <3>1. ~ (w.level >= LastLevel[game])
      BY <2>2 DEF UpdateFusionMatter, u
    <3>2. \A i \in Log : w.log[i] = Idle \/ game[w.log[i].task].nano = 0
      BY <2>2 DEF UpdateFusionMatter, u
    <3>3. w.level \in Nat /\ LastLevel[game] \in Nat
      BY TheNanos, DataIsSound DEF Sound, Player
    <3>4. QED BY <3>1, <3>2, <3>3
  <2>3. QED BY <1>3, <1>4, <2>1, <2>2

LEMMA SoundSame ==
  ASSUME NEW w, Sound(w), NEW v \in Player, Same(v, w), v.log = w.log
  PROVE  Sound(v)
<1>1. Tidy(v) /\ Fits(v) /\ Fresh(v)
  BY DEF Sound, Same, Tidy, Fits, Ordinary, Due, Fresh, Runs
<1>2. QED BY <1>1, SoundToo

LEMMA GainFMIs ==
  ASSUME game \in Games, NEW w, Sound(w), NEW n \in Nat
  PROVE  LET v == GainFM(w, n) IN
         /\ Sound(v) /\ Capped(v) /\ Same(v, w) /\ Stuff(v, w)
         /\ \A s \in Data : Runs(w, s) => Runs(v, s)
<1> DEFINE u == [w EXCEPT !.fm = @ + n]
<1>1. u \in Player /\ Same(u, w) /\ Stuff(u, w) /\ u.log = w.log
  <2>1. w \in Player
    BY DEF Sound
  <2>2. w.fm + n \in Nat
    BY <2>1 DEF Player
  <2>3. QED BY <2>1, <2>2 DEF Player, Same, Stuff
<1>2. Sound(u)
  BY <1>1, SoundSame
<1>3. \A s \in Data : Runs(w, s) => Runs(u, s)
  BY <1>1 DEF Runs
<1>4. GainFM(w, n) = UpdateFusionMatter(u)
  BY DEF GainFM
<1> HIDE DEF u
<1>5. QED BY <1>1, <1>2, <1>3, <1>4, UpdateFusionMatterIs DEF Same, Stuff

-----------------------------------------------------------------------------
(* Quest items and prizes.                                                 *)

LEMMA DropQuestItemIs ==
  ASSUME game \in Games, NEW w \in Player, NEW item \in Items \cup {"none"}, NEW n \in Int
  PROVE  LET v == DropQuestItem(w, item, n) IN
         /\ v \in Player /\ Same(v, w) /\ v.log = w.log /\ v.fm = w.fm
         /\ v.prizes = w.prizes /\ v.junk = w.junk
         /\ \A k \in Items : v.items[k] = IF k # item THEN w.items[k]
                                          ELSE IF w.items[k] + n < 0 THEN 0 ELSE w.items[k] + n
<1>1. CASE item = "none"
  <2>1. DropQuestItem(w, item, n) = w /\ "none" \notin Items
    BY <1>1, TheData DEF DropQuestItem
  <2>2. QED BY <1>1, <2>1 DEF Same
<1>2. CASE item # "none"
  <2> DEFINE I == [w.items EXCEPT ![item] = IF @ + n < 0 THEN 0 ELSE @ + n]
             v == [w EXCEPT !.items = I]
  <2>1. w.items \in [Items -> Nat] /\ item \in Items
    BY <1>2 DEF Player
  <2>2. I \in [Items -> Nat]
    BY <2>1
  <2>3. \A k \in Items : I[k] = IF k # item THEN w.items[k]
                                ELSE IF w.items[k] + n < 0 THEN 0 ELSE w.items[k] + n
    BY <2>1
  <2>4. DropQuestItem(w, item, n) = v
    BY <1>2 DEF DropQuestItem, Player
  <2> HIDE DEF I
  <2>5. v \in Player /\ v.items = I
    BY <2>2 DEF Player
  <2>6. Same(v, w) /\ v.log = w.log /\ v.fm = w.fm /\ v.prizes = w.prizes /\ v.junk = w.junk
    BY DEF Same, Player
  <2> HIDE DEF v
  <2>7. QED BY <2>3, <2>4, <2>5, <2>6
<1>3. QED BY <1>1, <1>2

\* The items that t counts are taken from it when it is over.
LEMMA CountedWhenOver ==
  ASSUME game \in Games, NEW w \in Player, Counted(w), NEW v, NEW t \in Data,
         NEW n \in {game[t].atEnd, game[t].atFail},
         \A k \in Items : v.items[k] = IF k # game[t].item THEN w.items[k]
                                       ELSE IF w.items[k] + n < 0 THEN 0 ELSE w.items[k] + n,
         \A s \in Data : Runs(w, s) /\ s # t => Runs(v, s)
  PROVE  Counted(v)
<1>1. SUFFICES ASSUME NEW s \in Data, game[s].need # 0
               PROVE  /\ v.items[game[s].item] <= game[s].need
                      /\ ~ Runs(v, s) => v.items[game[s].item] + game[s].atStart <= game[s].need
  BY DEF Counted
<1>2. /\ game[s].item \in Items /\ w.items[game[s].item] \in Nat
      /\ game[s].need \in Nat /\ game[s].atStart \in Int /\ n \in Int
  BY <1>1, TheData, QuestItemsAreTaken DEF Player, Data
<1>3. /\ w.items[game[s].item] <= game[s].need
      /\ ~ Runs(w, s) => w.items[game[s].item] + game[s].atStart <= game[s].need
  BY <1>1 DEF Counted
<1>4. CASE s = t
  <2>1. n <= 0 /\ game[s].atStart + n <= 0 /\ game[s].atStart <= game[s].need
    BY <1>1, <1>4, QuestItemsAreTaken DEF Data
  <2>2. v.items[game[s].item] = IF w.items[game[s].item] + n < 0 THEN 0 ELSE w.items[game[s].item] + n
    BY <1>2, <1>4
  <2>3. QED BY <1>2, <1>3, <2>1, <2>2
<1>5. CASE s # t /\ game[s].item = game[t].item
  <2>1. n <= 0 /\ game[s].atStart <= 0
    BY <1>1, <1>5, QuestItemsAreTaken DEF Data
  <2>2. v.items[game[s].item] = IF w.items[game[s].item] + n < 0 THEN 0 ELSE w.items[game[s].item] + n
    BY <1>2, <1>5
  <2>3. QED BY <1>2, <1>3, <2>1, <2>2
<1>6. CASE game[s].item # game[t].item
  <2>1. v.items[game[s].item] = w.items[game[s].item]
    BY <1>2, <1>6
  <2>2. s # t
    BY <1>6
  <2>3. ~ Runs(v, s) => ~ Runs(w, s)
    BY <2>2
  <2>4. QED BY <1>3, <2>1, <2>3
<1>7. QED BY <1>4, <1>5, <1>6

LEMMA PrizesAreFinite ==
  ASSUME game \in Games, NEW w \in Player
  PROVE  IsFiniteSet(Prizes(w)) /\ Cardinality(Prizes(w)) \in Nat
<1> DEFINE f == [t \in Data |-> {t} \X (1..w.prizes[t])]
           S == {{t} \X (1..w.prizes[t]) : t \in Data}
<1>1. f \in Surjection(Data, S)
  BY DEF Surjection
<1>2. IsFiniteSet(S)
  BY <1>1, TheData, FS_Surjection
<1>3. \A T \in S : IsFiniteSet(T)
  <2>1. ASSUME NEW t \in Data PROVE IsFiniteSet({t} \X (1..w.prizes[t]))
    <3>1. w.prizes[t] \in Int
      BY DEF Player, Data
    <3>2. IsFiniteSet(1..w.prizes[t])
      BY <3>1, FS_Interval
    <3>3. IsFiniteSet({t})
      BY FS_Singleton
    <3>4. QED BY <3>2, <3>3, FS_Product
  <2>2. QED BY <2>1
<1>4. Prizes(w) = UNION S
  BY DEF Prizes, Data
<1> HIDE DEF S
<1>5. QED BY <1>2, <1>3, <1>4, FS_UNION, FS_CardinalityType

LEMMA RoomIs ==
  ASSUME game \in Games, NEW w \in Player
  PROVE  Room(w) \in Int /\ Room(w) = NInven - w.junk - Cardinality(Prizes(w))
<1>1. NInven \in Int /\ w.junk \in Int
  BY DataIsSound DEF Player
<1>2. QED BY <1>1, PrizesAreFinite DEF Room

LEMMA RoomStays ==
  ASSUME NEW w, NEW v, v.prizes = w.prizes, v.junk = w.junk
  PROVE  Room(v) = Room(w)
BY DEF Room, Prizes

LEMMA RoomShrinks ==
  ASSUME game \in Games, NEW w \in Player, NEW v \in Player, NEW t \in Data,
         v.prizes = [w.prizes EXCEPT ![t] = @ + game[t].prize], v.junk = w.junk
  PROVE  Room(v) = Room(w) - game[t].prize
<1>1. w.prizes \in [Data -> Nat]
  BY DEF Player, Data
<1>2. CASE game[t].prize = 0
  <2>1. v.prizes = w.prizes
    BY <1>1, <1>2
  <2>2. QED BY <1>2, <2>1, RoomStays, RoomIs
<1>3. CASE game[t].prize = 1
  <2> DEFINE x == <<t, w.prizes[t] + 1>>
  <2>1. x \notin Prizes(w)
    <3>1. SUFFICES ASSUME NEW s \in Data, x \in {s} \X (1..w.prizes[s]) PROVE FALSE
      BY DEF Prizes, Data
    <3>2. s = t /\ w.prizes[t] + 1 \in 1..w.prizes[t]
      BY <3>1
    <3>3. w.prizes[t] \in Nat
      BY <1>1
    <3>4. QED BY <3>2, <3>3
  <2>2. Prizes(v) = Prizes(w) \cup {x}
    <3>1. \A s \in Data : v.prizes[s] = IF s = t THEN w.prizes[t] + 1 ELSE w.prizes[s]
      BY <1>1, <1>3
    <3>2. w.prizes[t] \in Nat
      BY <1>1
    <3>3. (1..(w.prizes[t] + 1)) = (1..w.prizes[t]) \cup {w.prizes[t] + 1}
      BY <3>2
    <3>4. ASSUME NEW y PROVE y \in Prizes(v) <=> y \in Prizes(w) \cup {x}
      <4>1. y \in Prizes(v) <=> \E s \in Data : y \in {s} \X (1..v.prizes[s])
        BY DEF Prizes, Data
      <4>2. y \in Prizes(w) <=> \E s \in Data : y \in {s} \X (1..w.prizes[s])
        BY DEF Prizes, Data
      <4>3. ASSUME NEW s \in Data
            PROVE  (y \in {s} \X (1..v.prizes[s])) <=> ((y \in {s} \X (1..w.prizes[s])) \/ (s = t /\ y = x))
        <5>1. CASE s = t
          BY <3>1, <3>3, <5>1
        <5>2. CASE s # t
          BY <3>1, <5>2
        <5>3. QED BY <5>1, <5>2
      <4>4. QED BY <4>1, <4>2, <4>3
    <3>5. QED BY <3>4
  <2>3. Cardinality(Prizes(v)) = Cardinality(Prizes(w)) + 1
    BY <2>1, <2>2, PrizesAreFinite, FS_AddElement
  <2>4. v.junk \in Int /\ NInven \in Int
    BY DataIsSound DEF Player
  <2>5. QED BY <1>3, <2>3, <2>4, PrizesAreFinite, RoomIs
<1>4. QED BY <1>2, <1>3, TheData

-----------------------------------------------------------------------------
(* Nanos that are given.                                                   *)

\* The level of a nano is a level, and there is one before it.
LEMMA RaisedIs ==
  ASSUME game \in Games, NEW w, Sound(w), Capped(w), NEW n \in Nanos, NEW spend \in BOOLEAN
  PROVE  LET v == Raised(w, n, spend) IN
         /\ Sound(v) /\ Capped(v) /\ Stuff(v, w) /\ n <= v.level
         /\ v.done = w.done /\ v.due = w.due /\ v.owned = w.owned
         /\ v.nanos = w.nanos /\ v.active = w.active
         /\ \A s \in Data : Runs(w, s) => Runs(v, s)
<1> DEFINE l == IF n < w.level THEN w.level ELSE n
           u == [w EXCEPT !.level = l]
           cost == NanoCost[l - 1]
           x == [u EXCEPT !.fm = IF @ < cost THEN 0 ELSE @ - cost]
<1>1. w \in Player /\ w.level \in Levels /\ n \in Levels /\ w.level \in Nat /\ n \in Nat /\ w.fm \in Nat
  BY TheNanos DEF Sound, Player
<1>2. l \in Levels /\ w.level <= l /\ n <= l /\ l \in Nat
  BY <1>1
<1>3. l - 1 \in Levels
  <2>1. CASE l = n
    BY <2>1, TheNanos
  <2>2. CASE l # n
    <3>1. l = w.level /\ n < l /\ n - 1 \in Levels
      BY <1>1, <2>2, TheNanos
    <3>2. l - 1 >= n - 1 /\ l - 1 <= l
      BY <1>1, <3>1
    <3>3. FirstLevel \in Nat /\ TopLevel \in Nat
      BY DataIsSound
    <3>4. QED BY <1>1, <1>2, <3>1, <3>2, <3>3 DEF Levels
  <2>3. QED BY <2>1, <2>2
<1>4. cost \in Nat
  BY <1>3, TheNanos
<1> HIDE DEF l, cost
<1>5. /\ u \in Player /\ u.level = l /\ u.fm = w.fm /\ u.log = w.log /\ Stuff(u, w)
      /\ u.done = w.done /\ u.due = w.due /\ u.owned = w.owned
      /\ u.nanos = w.nanos /\ u.active = w.active
  BY <1>1, <1>2 DEF Player, Stuff
<1> HIDE DEF u
<1>6. Sound(u)
  <2>1. Tidy(u) /\ Fits(u) /\ Fresh(u) /\ Powered(u)
    BY <1>5 DEF Sound, Tidy, Fits, Ordinary, Due, Fresh, Runs, Powered
  <2>2. \A m \in w.owned : m \in Nat /\ m <= w.level
    BY <1>1, TheNanos DEF Sound, Levelled, Player
  <2>3. Levelled(u)
    BY <1>1, <1>2, <1>5, <2>2 DEF Levelled
  <2>4. QED BY <1>5, <2>1, <2>3 DEF Sound
<1>7. Capped(u)
  <2>1. FMLimit[w.level] <= FMLimit[l] /\ w.fm <= FMLimit[w.level]
    BY <1>1, <1>2, LimitsGrow DEF Capped
  <2>2. FMLimit[w.level] \in Nat /\ FMLimit[l] \in Nat
    BY <1>1, <1>2, TheNanos
  <2>3. QED BY <1>1, <1>5, <2>1, <2>2 DEF Capped
<1>8. x \in Player /\ Same(x, u) /\ x.log = u.log /\ Stuff(x, u)
  <2>1. (IF u.fm < cost THEN 0 ELSE u.fm - cost) \in Nat
    BY <1>1, <1>4, <1>5
  <2>2. QED BY <1>5, <2>1 DEF Player, Same, Stuff
<1> HIDE DEF x
<1>9. Sound(x)
  BY <1>6, <1>8, SoundSame
<1> DEFINE y == UpdateFusionMatter(x)
<1>10. /\ Sound(y) /\ Capped(y) /\ Same(y, x) /\ Stuff(y, x)
       /\ \A s \in Data : Runs(x, s) => Runs(y, s)
  BY <1>9, UpdateFusionMatterIs
<1>11. Raised(w, n, spend) = IF spend THEN y ELSE u
  BY <1>5 DEF Raised, u, x, y, l, cost
<1> HIDE DEF y
<1>12. CASE spend
  <2>1. Raised(w, n, spend) = y
    BY <1>11, <1>12
  <2>2. \A s \in Data : Runs(w, s) => Runs(y, s)
    BY <1>5, <1>8, <1>10 DEF Runs
  <2>3. Stuff(y, w) /\ y.level = l
    BY <1>5, <1>8, <1>10 DEF Stuff, Same
  <2>4. /\ y.done = w.done /\ y.due = w.due /\ y.owned = w.owned
        /\ y.nanos = w.nanos /\ y.active = w.active
    BY <1>5, <1>8, <1>10 DEF Same
  <2>5. QED BY <1>2, <1>10, <2>1, <2>2, <2>3, <2>4
<1>13. CASE ~ spend
  <2>1. Raised(w, n, spend) = u
    BY <1>11, <1>13
  <2>2. \A s \in Data : Runs(w, s) => Runs(u, s)
    BY <1>5 DEF Runs
  <2>3. QED BY <1>2, <1>5, <1>6, <1>7, <2>1, <2>2
<1>14. QED BY <1>12, <1>13

LEMMA UnsummonedIs ==
  ASSUME game \in Games, NEW w, Sound(w)
  PROVE  LET v == Unsummoned(w) IN
         /\ Sound(v) /\ Stuff(v, w) /\ v.log = w.log /\ v.active = 0 /\ v.fm = w.fm
         /\ v.done = w.done /\ v.due = w.due /\ v.owned = w.owned /\ v.level = w.level
         /\ v.nanos = w.nanos
<1> DEFINE v == Unsummoned(w)
<1>1. /\ v \in Player /\ Stuff(v, w) /\ v.log = w.log /\ v.active = 0 /\ v.fm = w.fm
      /\ v.done = w.done /\ v.due = w.due /\ v.owned = w.owned /\ v.level = w.level
      /\ v.nanos = w.nanos
  BY DEF Unsummoned, Sound, Player, Stuff
<1> HIDE DEF v
<1>2. Tidy(v) /\ Fits(v) /\ Fresh(v) /\ Powered(v) /\ Levelled(v)
  BY <1>1 DEF Sound, Tidy, Fits, Ordinary, Due, Fresh, Runs, Powered, Levelled
<1>3. Sound(v)
  BY <1>1, <1>2 DEF Sound
<1>4. QED BY <1>1, <1>3 DEF v

\* addNano()
LEMMA AddNanoIs ==
  ASSUME game \in Games, NEW w, Sound(w), Capped(w), NEW n \in Nanos, NEW spend \in BOOLEAN
  PROVE  LET v == AddNano(w, n, spend) IN
         /\ Sound(v) /\ Capped(v) /\ Stuff(v, w)
         /\ v.done = w.done /\ v.due = w.due /\ v.owned = w.owned \cup {n}
         /\ \A s \in Data : Runs(w, s) => Runs(v, s)
<1> DEFINE y == Raised(w, n, spend)
           z == IF y.active = n THEN Unsummoned(y) ELSE y
           v == Received(z, n)
<1>1. /\ Sound(y) /\ Capped(y) /\ Stuff(y, w) /\ n <= y.level
      /\ y.done = w.done /\ y.due = w.due /\ y.owned = w.owned
      /\ \A s \in Data : Runs(w, s) => Runs(y, s)
  BY RaisedIs
<1> HIDE DEF y
<1>2. /\ Sound(z) /\ Stuff(z, y) /\ z.log = y.log /\ z.active # n /\ z.fm = y.fm
      /\ z.done = y.done /\ z.due = y.due /\ z.owned = y.owned /\ z.level = y.level
  <2>1. CASE y.active = n
    <3>1. n # 0
      BY TheNanos
    <3>2. QED BY <1>1, <2>1, <3>1, UnsummonedIs
  <2>2. CASE y.active # n
    BY <1>1, <2>2 DEF Stuff
  <2>3. QED BY <2>1, <2>2
<1> HIDE DEF z
<1>3. [skill |-> "none", stamina |-> MaxStamina] \in [skill : Skills, stamina : (-1 - DrainPassive)..MaxStamina]
  BY DataIsSound DEF Skills
<1>4. z \in Player
  BY <1>2 DEF Sound
<1>5. /\ v \in Player /\ Stuff(v, z) /\ v.log = z.log /\ v.active = z.active /\ v.fm = z.fm
      /\ v.done = z.done /\ v.due = z.due /\ v.level = z.level
      /\ v.owned = z.owned \cup {n}
      /\ v.nanos = [z.nanos EXCEPT ![n] = [skill |-> "none", stamina |-> MaxStamina]]
  BY <1>3, <1>4 DEF Received, Player, Stuff
<1> HIDE DEF v
<1>6. \A m \in Nanos : v.nanos[m] = IF m = n THEN [skill |-> "none", stamina |-> MaxStamina] ELSE z.nanos[m]
  BY <1>4, <1>5 DEF Player
<1>7. Powered(v)
  <2>1. SUFFICES ASSUME v.active # 0
                 PROVE  v.nanos[v.active].skill # "none" /\ v.nanos[v.active].stamina >= 0
    BY DEF Powered
  <2>2. v.active \in Nanos /\ v.active # n
    BY <1>2, <1>5, <2>1 DEF Player
  <2>3. v.nanos[v.active] = z.nanos[z.active]
    BY <1>5, <1>6, <2>2
  <2>4. QED BY <1>2, <1>5, <2>1, <2>3 DEF Sound, Powered
<1>8. Levelled(v)
  BY <1>1, <1>2, <1>5 DEF Levelled, Sound
<1>9. Tidy(v) /\ Fits(v) /\ Fresh(v)
  BY <1>2, <1>5 DEF Sound, Tidy, Fits, Ordinary, Due, Fresh, Runs
<1>10. Sound(v)
  BY <1>5, <1>7, <1>8, <1>9 DEF Sound
<1>11. Capped(v)
  BY <1>1, <1>2, <1>5 DEF Capped
<1>12. \A s \in Data : Runs(w, s) => Runs(v, s)
  BY <1>1, <1>2, <1>5 DEF Runs
<1>13. Stuff(v, w)
  BY <1>1, <1>2, <1>5 DEF Stuff
<1>14. v.done = w.done /\ v.due = w.due /\ v.owned = w.owned \cup {n}
  BY <1>1, <1>2, <1>5
<1>15. AddNano(w, n, spend) = v
  BY DEF AddNano, v, z, y
<1>16. QED BY <1>10, <1>11, <1>12, <1>13, <1>14, <1>15
-----------------------------------------------------------------------------
(* The end of a task.                                                      *)

LEMMA CountedStill ==
  ASSUME NEW w, NEW v, Counted(w), v.items = w.items, \A s \in Data : Runs(w, s) => Runs(v, s)
  PROVE  Counted(v)
BY DEF Counted

LEMMA PaidStill ==
  ASSUME NEW w, NEW v, Paid(w), v.prizes = w.prizes, v.done = w.done, w.owned \subseteq v.owned
  PROVE  Paid(v)
BY DEF Paid

LEMMA StoredStill ==
  ASSUME NEW w, NEW v, Stored(w), v.prizes = w.prizes, v.junk = w.junk
  PROVE  Stored(v)
BY RoomStays DEF Stored

LEMMA GiveMissionRewardIs ==
  ASSUME game \in Games, NEW w, Sound(w), Capped(w), NEW t \in Data
  PROVE  LET v == GiveMissionReward(w, t) IN
         /\ Sound(v) /\ Capped(v) /\ Same(v, w) /\ v.items = w.items /\ v.junk = w.junk
         /\ v.prizes = [w.prizes EXCEPT ![t] = @ + game[t].prize]
         /\ \A s \in Data : Runs(w, s) => Runs(v, s)
<1> DEFINE u == IF game[t].fm + game[t].prize = 0 THEN w ELSE GainFM(w, game[t].fm)
           P == [u.prizes EXCEPT ![t] = @ + game[t].prize]
           v == [u EXCEPT !.prizes = P]
<1>1. /\ Sound(u) /\ Capped(u) /\ Same(u, w) /\ Stuff(u, w)
      /\ \A s \in Data : Runs(w, s) => Runs(u, s)
  <2>1. CASE game[t].fm + game[t].prize = 0
    BY <2>1 DEF Same, Stuff
  <2>2. CASE game[t].fm + game[t].prize # 0
    BY <2>2, TheData, GainFMIs
  <2>3. QED BY <2>1, <2>2
<1>2. GiveMissionReward(w, t) = v
  <2>1. u \in Player
    BY <1>1 DEF Sound
  <2> HIDE DEF u
  <2>2. [u EXCEPT !.prizes[t] = @ + game[t].prize] = v
    BY <2>1 DEF Player
  <2>3. GiveMissionReward(w, t) = [u EXCEPT !.prizes[t] = @ + game[t].prize]
    BY DEF GiveMissionReward, u
  <2>4. QED BY <2>2, <2>3
<1> HIDE DEF u
<1>3. P \in [Data -> Nat]
  <2>1. u.prizes \in [Data -> Nat] /\ u.prizes[t] \in Nat
    BY <1>1 DEF Sound, Player, Data
  <2>2. u.prizes[t] + game[t].prize \in Nat
    BY <2>1, TheData
  <2>3. QED BY <2>1, <2>2
<1>4. P = [w.prizes EXCEPT ![t] = @ + game[t].prize]
  BY <1>1 DEF Stuff
<1> HIDE DEF P
<1>5. /\ v \in Player /\ Same(v, u) /\ v.log = u.log /\ v.items = u.items /\ v.junk = u.junk
      /\ v.prizes = P /\ v.fm = u.fm
  BY <1>1, <1>3 DEF Sound, Player, Data, Same
<1> HIDE DEF v
<1>6. Sound(v) /\ Capped(v)
  <2>1. Sound(v)
    BY <1>1, <1>5, SoundSame
  <2>2. Capped(v)
    BY <1>1, <1>5 DEF Capped, Same
  <2>3. QED BY <2>1, <2>2
<1>7. Same(v, w) /\ v.items = w.items /\ v.junk = w.junk
  BY <1>1, <1>5 DEF Same, Stuff
<1>8. \A s \in Data : Runs(w, s) => Runs(v, s)
  BY <1>1, <1>5 DEF Runs
<1>9. QED BY <1>2, <1>4, <1>5, <1>6, <1>7, <1>8

\* A task that is stopped, and the quest items that go with it: only the log
\* and the items change, and the task has left its place.
LEMMA StoppedIs ==
  ASSUME game \in Games, NEW w, Sound(w), NEW t \in Data
  PROVE  LET v == Stopped(w, t) IN
         /\ Sound(v) /\ Same(v, w) /\ Stuff(v, w) /\ v.fm = w.fm
         /\ \A s \in Data : Runs(v, s) <=> Runs(w, s) /\ s # t
         /\ Cardinality(Ordinary(v)) \in Nat /\ Cardinality(Ordinary(w)) \in Nat
         /\ Cardinality(Ordinary(v)) <= Cardinality(Ordinary(w))
         /\ Runs(w, t) /\ game[t].nano = 0
              => Cardinality(Ordinary(v)) + 1 <= Cardinality(Ordinary(w))
<1> DEFINE v == Stopped(w, t)
<1>1. /\ v = Logged(w, v.log) /\ v.log \in Logs /\ v \in Player /\ Tidy(v)
      /\ \A s \in Data : Runs(v, s) <=> Runs(w, s) /\ s # t
  BY PlaceFreed DEF Sound
<1> HIDE DEF v
<1>2. Same(v, w) /\ Stuff(v, w) /\ v.fm = w.fm
  BY <1>1, LoggedIs DEF Sound, Same, Stuff
<1>3. /\ Cardinality(Ordinary(v)) \in Nat /\ Cardinality(Ordinary(w)) \in Nat
      /\ Cardinality(Ordinary(v)) <= Cardinality(Ordinary(w))
      /\ Runs(w, t) /\ game[t].nano = 0
           => Cardinality(Ordinary(v)) + 1 <= Cardinality(Ordinary(w))
  BY <1>1, OrdinaryShrinks
<1>4. Fits(v)
  <2>1. Due(v) = Due(w) /\ Due(w) \in Nat
    BY <1>2 DEF Due, Same
  <2>2. Cardinality(Ordinary(w)) + Due(w) < NLog
    BY DEF Sound, Fits
  <2>3. NLog \in Nat
    BY TheNanos
  <2>4. QED BY <1>3, <2>1, <2>2, <2>3 DEF Fits
<1>5. Fresh(v)
  BY <1>1, <1>2 DEF Sound, Fresh, Same
<1>6. Sound(v)
  BY <1>1, <1>2, <1>4, <1>5, SoundToo
<1>7. QED BY <1>1, <1>2, <1>3, <1>6 DEF v

\* What endTask() does to the log and the inventory before it looks at what
\* comes next.
LEMMA TaskIsOver ==
  ASSUME game \in Games, NEW w, Good(w), NEW t \in Data, Runs(w, t), game[t].prize <= Room(w)
  PROVE  LET v == DropQuestItem(Stopped(GiveMissionReward(w, t), t), game[t].item, game[t].atEnd) IN
         /\ Sound(v) /\ Capped(v) /\ Same(v, w) /\ Counted(v) /\ Stored(v) /\ ~ Runs(v, t)
         /\ v.prizes = [w.prizes EXCEPT ![t] = @ + game[t].prize]
         /\ Cardinality(Ordinary(v)) \in Nat
         /\ Cardinality(Ordinary(v)) + (IF game[t].nano = 0 THEN 1 ELSE 0) < NLog
<1> DEFINE a == GiveMissionReward(w, t)
           b == Stopped(a, t)
           v == DropQuestItem(b, game[t].item, game[t].atEnd)
<1>1. Sound(w) /\ Capped(w) /\ Counted(w) /\ Stored(w) /\ w \in Player
  BY DEF Good, Sound
<1>2. /\ Sound(a) /\ Capped(a) /\ Same(a, w) /\ a.items = w.items /\ a.junk = w.junk
      /\ a.prizes = [w.prizes EXCEPT ![t] = @ + game[t].prize]
      /\ \A s \in Data : Runs(w, s) => Runs(a, s)
  BY <1>1, GiveMissionRewardIs
<1> HIDE DEF a
<1>3. /\ Sound(b) /\ Same(b, a) /\ Stuff(b, a) /\ b.fm = a.fm
      /\ \A s \in Data : Runs(b, s) <=> Runs(a, s) /\ s # t
      /\ Cardinality(Ordinary(b)) \in Nat /\ Cardinality(Ordinary(a)) \in Nat
      /\ Cardinality(Ordinary(b)) <= Cardinality(Ordinary(a))
      /\ Runs(a, t) /\ game[t].nano = 0
           => Cardinality(Ordinary(b)) + 1 <= Cardinality(Ordinary(a))
  BY <1>2, StoppedIs
<1> HIDE DEF b
<1>4. game[t].item \in Items \cup {"none"} /\ game[t].atEnd \in Int /\ game[t].prize \in {0, 1}
  BY TheData
<1>5. b \in Player
  BY <1>3 DEF Sound
<1>6. /\ v \in Player /\ Same(v, b) /\ v.log = b.log /\ v.fm = b.fm
      /\ v.prizes = b.prizes /\ v.junk = b.junk
      /\ \A k \in Items : v.items[k] = IF k # game[t].item THEN b.items[k]
                                       ELSE IF b.items[k] + game[t].atEnd < 0 THEN 0
                                            ELSE b.items[k] + game[t].atEnd
  BY <1>4, <1>5, DropQuestItemIs
<1> HIDE DEF v
<1>7. Sound(v)
  BY <1>3, <1>6, SoundSame
<1>8. Same(v, w)
  BY <1>2, <1>3, <1>6 DEF Same
<1>9. Capped(v)
  BY <1>2, <1>3, <1>6 DEF Capped, Same
<1>10. \A s \in Data : (Runs(v, s) <=> Runs(b, s)) /\ (Runs(v, s) <=> Runs(a, s) /\ s # t)
  BY <1>3, <1>6 DEF Runs
<1>11. Counted(v)
  <2>1. b.items = w.items
    BY <1>2, <1>3 DEF Stuff
  <2>2. \A s \in Data : Runs(w, s) /\ s # t => Runs(v, s)
    BY <1>2, <1>10
  <2>3. QED BY <1>1, <1>6, <2>1, <2>2, CountedWhenOver
<1>12. v.prizes = [w.prizes EXCEPT ![t] = @ + game[t].prize] /\ v.junk = w.junk
  BY <1>2, <1>3, <1>6 DEF Stuff
<1>13. Stored(v)
  <2>1. Room(v) = Room(w) - game[t].prize
    BY <1>1, <1>6, <1>12, RoomShrinks
  <2>2. Room(w) \in Int
    BY <1>1, RoomIs
  <2>3. QED BY <1>4, <2>1, <2>2 DEF Stored
<1>14. ~ Runs(v, t)
  BY <1>10
<1>15. Cardinality(Ordinary(v)) = Cardinality(Ordinary(b))
  <2>1. Ordinary(v) = Ordinary(b)
    BY <1>10 DEF Ordinary
  <2>2. QED BY <2>1
<1>16. Cardinality(Ordinary(v)) + (IF game[t].nano = 0 THEN 1 ELSE 0) < NLog
  <2>1. Runs(a, t)
    BY <1>2
  <2>2. Cardinality(Ordinary(a)) + Due(a) < NLog
    BY <1>2 DEF Sound, Fits
  <2>3. Due(a) \in Nat /\ NLog \in Nat
    BY TheNanos DEF Due
  <2>4. CASE game[t].nano = 0
    BY <1>3, <1>15, <2>1, <2>2, <2>3, <2>4
  <2>5. CASE game[t].nano # 0
    BY <1>3, <1>15, <2>2, <2>3, <2>5
  <2>6. QED BY <2>4, <2>5
<1>17. QED BY <1>3, <1>7, <1>8, <1>9, <1>11, <1>12, <1>13, <1>14, <1>15, <1>16 DEF v, b, a
\* endTask(), of a task that runs and whose prize has room.
LEMMA EndTaskIs ==
  ASSUME game \in Games, NEW w, Good(w), NEW t \in Data, Runs(w, t), game[t].prize <= Room(w)
  PROVE  Good(EndTask(w, t))
<1> DEFINE v == DropQuestItem(Stopped(GiveMissionReward(w, t), t), game[t].item, game[t].atEnd)
           won == [v EXCEPT !.done = @ \cup {game[t].mission}]
           next == [v EXCEPT !.due = game[t].next]
<1>1. /\ Sound(v) /\ Capped(v) /\ Same(v, w) /\ Counted(v) /\ Stored(v) /\ ~ Runs(v, t)
      /\ v.prizes = [w.prizes EXCEPT ![t] = @ + game[t].prize]
      /\ Cardinality(Ordinary(v)) \in Nat
      /\ Cardinality(Ordinary(v)) + (IF game[t].nano = 0 THEN 1 ELSE 0) < NLog
  BY TaskIsOver
<1>2. EndTask(w, t) = IF game[t].next # "none" THEN next
                      ELSE IF game[t].nano = 0 THEN won ELSE AddNano(won, game[t].nano, TRUE)
  BY DEF EndTask
<1>3. /\ w \in Player /\ w.prizes \in [Data -> Nat] /\ Sound(w) /\ Paid(w)
      /\ game[t].prize \in {0, 1} /\ game[t].mission \in Missions
      /\ game[t].nano \in Nanos \cup {0} /\ game[t].next \in Data \cup {"none"}
  BY TheData DEF Good, Sound, Player, Data
<1> HIDE DEF v
<1>4. v \in Player /\ v.done = w.done /\ v.owned = w.owned
  BY <1>1 DEF Sound, Same
<1>5. \A s \in Data : v.prizes[s] = IF s = t THEN w.prizes[t] + game[t].prize ELSE w.prizes[s]
  BY <1>1, <1>3
<1>6. CASE game[t].next # "none"
  <2>1. /\ next \in Player /\ next.due = game[t].next /\ next.log = v.log /\ Stuff(next, v)
        /\ next.done = v.done /\ next.fm = v.fm /\ next.level = v.level
        /\ next.owned = v.owned /\ next.nanos = v.nanos /\ next.active = v.active
    BY <1>3, <1>4 DEF Player, Data, Stuff
  <2> HIDE DEF next
  <2>2. Fits(next)
    <3>1. game[t].next \in DOMAIN game /\ game[game[t].next].nano = game[t].nano
      BY <1>6, MissionsAreChains DEF Data
    <3>2. Due(next) = IF game[t].nano = 0 THEN 1 ELSE 0
      BY <1>6, <2>1, <3>1 DEF Due
    <3>3. Ordinary(next) = Ordinary(v)
      BY <2>1 DEF Ordinary, Runs
    <3>4. QED BY <1>1, <3>2, <3>3 DEF Fits
  <2>3. Tidy(next) /\ Fresh(next) /\ Powered(next) /\ Levelled(next)
    BY <1>1, <2>1 DEF Sound, Tidy, Fresh, Powered, Levelled, Runs
  <2>4. Sound(next)
    BY <2>1, <2>2, <2>3 DEF Sound
  <2>5. Capped(next)
    BY <1>1, <2>1 DEF Capped
  <2>6. Paid(next)
    <3>1. \A s \in Data : Ends(s) => next.prizes[s] = w.prizes[s]
      BY <1>5, <1>6, <2>1 DEF Ends, Stuff
    <3>2. QED BY <1>3, <1>4, <2>1, <3>1 DEF Paid
  <2>7. Counted(next)
    <3>1. next.items = v.items /\ \A s \in Data : Runs(v, s) => Runs(next, s)
      BY <2>1 DEF Stuff, Runs
    <3>2. QED BY <1>1, <3>1, CountedStill
  <2>8. Stored(next)
    BY <1>1, <2>1, StoredStill DEF Stuff
  <2>9. Good(next)
    BY <2>4, <2>5, <2>6, <2>7, <2>8 DEF Good
  <2>10. QED BY <1>2, <1>6, <2>9
<1>7. ASSUME game[t].next = "none"
      PROVE  /\ Sound(won) /\ Capped(won) /\ Counted(won) /\ Stored(won)
             /\ \A s \in Data : Ends(s) =>
                  /\ game[s].prize = 1 => won.prizes[s] = IF game[s].mission \in won.done THEN 1 ELSE 0
                  /\ s # t /\ game[s].nano # 0 /\ game[s].mission \in won.done => game[s].nano \in won.owned
  <2>1. /\ won \in Player /\ won.done = w.done \cup {game[t].mission}
        /\ won.log = v.log /\ Stuff(won, v) /\ won.due = v.due
        /\ won.fm = v.fm /\ won.level = v.level
        /\ won.owned = v.owned /\ won.nanos = v.nanos /\ won.active = v.active
    BY <1>3, <1>4 DEF Player, Stuff
  <2> HIDE DEF won
  <2>2. \A s \in Data : Ends(s) /\ game[s].mission = game[t].mission => s = t
    BY <1>7, MissionsAreChains DEF Ends, Data
  <2>3. Fresh(won)
    <3>1. SUFFICES ASSUME NEW s \in Data, Runs(won, s), Ends(s) PROVE game[s].mission \notin won.done
      BY DEF Fresh
    <3>2. Runs(v, s)
      BY <2>1, <3>1 DEF Runs
    <3>3. game[s].mission \notin v.done
      BY <1>1, <3>1, <3>2 DEF Sound, Fresh
    <3>4. s # t
      BY <1>1, <3>2
    <3>5. QED BY <1>4, <2>1, <2>2, <3>1, <3>3, <3>4
  <2>4. Tidy(won) /\ Fits(won) /\ Powered(won) /\ Levelled(won)
    BY <1>1, <2>1 DEF Sound, Tidy, Fits, Ordinary, Due, Powered, Levelled, Runs
  <2>5. Sound(won)
    BY <2>1, <2>3, <2>4 DEF Sound
  <2>6. Capped(won)
    BY <1>1, <2>1 DEF Capped
  <2>7. Counted(won)
    <3>1. won.items = v.items /\ \A s \in Data : Runs(v, s) => Runs(won, s)
      BY <2>1 DEF Stuff, Runs
    <3>2. QED BY <1>1, <3>1, CountedStill
  <2>8. Stored(won)
    BY <1>1, <2>1, StoredStill DEF Stuff
  <2>9. ASSUME NEW s \in Data, Ends(s)
        PROVE  /\ game[s].prize = 1 => won.prizes[s] = IF game[s].mission \in won.done THEN 1 ELSE 0
               /\ s # t /\ game[s].nano # 0 /\ game[s].mission \in won.done => game[s].nano \in won.owned
    <3>1. CASE s = t
      <4>1. game[t].mission \notin w.done
        BY <1>3, <2>9, <3>1 DEF Sound, Fresh
      <4>2. game[t].prize = 1 => w.prizes[t] = 0
        BY <1>3, <2>9, <3>1, <4>1 DEF Paid
      <4>3. won.prizes[t] = w.prizes[t] + game[t].prize
        BY <1>5, <2>1 DEF Stuff
      <4>4. QED BY <2>1, <3>1, <4>2, <4>3
    <3>2. CASE s # t
      <4>1. game[s].mission # game[t].mission
        BY <2>2, <2>9, <3>2
      <4>2. game[s].mission \in won.done <=> game[s].mission \in w.done
        BY <2>1, <4>1
      <4>3. won.prizes[s] = w.prizes[s]
        BY <1>5, <2>1, <3>2 DEF Stuff
      <4>4. QED BY <1>3, <1>4, <2>1, <2>9, <4>2, <4>3 DEF Paid
    <3>3. QED BY <3>1, <3>2
  <2>10. QED BY <2>5, <2>6, <2>7, <2>8, <2>9
<1>8. CASE game[t].next = "none" /\ game[t].nano = 0
  <2>1. Paid(won)
    BY <1>7, <1>8 DEF Paid
  <2>2. Good(won)
    BY <1>7, <1>8, <2>1 DEF Good
  <2>3. QED BY <1>2, <1>8, <2>2
<1>9. CASE game[t].next = "none" /\ game[t].nano # 0
  <2> DEFINE n == game[t].nano
             u == AddNano(won, n, TRUE)
  <2>1. n \in Nanos
    BY <1>3, <1>9
  <2> HIDE DEF won
  <2>2. /\ Sound(u) /\ Capped(u) /\ Stuff(u, won)
        /\ u.done = won.done /\ u.due = won.due /\ u.owned = won.owned \cup {n}
        /\ \A s \in Data : Runs(won, s) => Runs(u, s)
    BY <1>7, <1>9, <2>1, AddNanoIs
  <2> HIDE DEF u
  <2>3. Paid(u)
    BY <1>7, <1>9, <2>2 DEF Paid, Stuff
  <2>4. Counted(u)
    BY <1>7, <1>9, <2>2, CountedStill DEF Stuff
  <2>5. Stored(u)
    BY <1>7, <1>9, <2>2, StoredStill DEF Stuff
  <2>6. Good(u)
    BY <2>2, <2>3, <2>4, <2>5 DEF Good
  <2>7. QED BY <1>2, <1>9, <2>6 DEF u
<1>10. QED BY <1>6, <1>8, <1>9

\* quitTask()
LEMMA QuitTaskIs ==
  ASSUME game \in Games, NEW w, Good(w), NEW t \in Data, NEW manual \in BOOLEAN
  PROVE  Good(QuitTask(w, t, manual))
<1> DEFINE v == Stopped(w, t)
           u == QuitTask(w, t, manual)
           item == game[t].item
<1>1. Sound(w) /\ Capped(w) /\ Paid(w) /\ Counted(w) /\ Stored(w) /\ w \in Player
  BY DEF Good, Sound
<1>2. /\ Sound(v) /\ Same(v, w) /\ Stuff(v, w) /\ v.fm = w.fm
      /\ \A s \in Data : Runs(v, s) <=> Runs(w, s) /\ s # t
  BY <1>1, StoppedIs
<1>3. item \in Items \cup {"none"} /\ game[t].atFail \in Int /\ game[t].atEnd \in Int /\ "none" \notin Items
  BY TheData
<1> HIDE DEF v
<1>4. v \in Player /\ v.items \in [Items -> Nat]
  BY <1>2 DEF Sound, Player
<1>5. u = IF ~ manual THEN DropQuestItem(v, item, game[t].atFail)
          ELSE IF item = "none" THEN v ELSE [v EXCEPT !.items[item] = 0]
  BY DEF QuitTask, v
<1>6. /\ u \in Player /\ Same(u, v) /\ u.log = v.log /\ u.fm = v.fm
      /\ u.prizes = v.prizes /\ u.junk = v.junk
      /\ \/ \A k \in Items : u.items[k] = IF k # item THEN v.items[k]
                                          ELSE IF v.items[k] + game[t].atFail < 0 THEN 0
                                               ELSE v.items[k] + game[t].atFail
         \/ \A k \in Items : u.items[k] = IF k # item THEN v.items[k] ELSE 0
  <2>1. CASE ~ manual
    <3> DEFINE n == game[t].atFail
               d == DropQuestItem(v, item, n)
    <3>1. u = d
      BY <1>5, <2>1
    <3> HIDE DEF u, item, n
    <3>2. /\ d \in Player /\ Same(d, v) /\ d.log = v.log /\ d.fm = v.fm
          /\ d.prizes = v.prizes /\ d.junk = v.junk
          /\ \A k \in Items : d.items[k] = IF k # item THEN v.items[k]
                                           ELSE IF v.items[k] + n < 0 THEN 0 ELSE v.items[k] + n
      <4>1. n \in Int
        BY <1>3 DEF n
      <4>2. item \in Items \cup {"none"} /\ v \in Player
        BY <1>3, <1>4
      <4>3. QED BY <4>1, <4>2, DropQuestItemIs
    <3> HIDE DEF d
    <3>3. QED BY <3>1, <3>2 DEF n
  <2>2. CASE manual /\ item = "none"
    <3>1. u = v
      BY <1>5, <2>2
    <3>2. \A k \in Items : k # item
      BY <1>3, <2>2
    <3> HIDE DEF u
    <3>3. \A k \in Items : u.items[k] = IF k # item THEN v.items[k] ELSE 0
      BY <3>1, <3>2
    <3>4. QED BY <1>4, <3>1, <3>3 DEF Same
  <2>3. CASE manual /\ item # "none"
    <3> DEFINE I == [v.items EXCEPT ![item] = 0]
    <3>1. u = [v EXCEPT !.items = I]
      BY <1>4, <1>5, <2>3 DEF Player
    <3>2. I \in [Items -> Nat] /\ \A k \in Items : I[k] = IF k # item THEN v.items[k] ELSE 0
      BY <1>4
    <3> HIDE DEF I, u
    <3>3. u \in Player /\ u.items = I
      BY <1>4, <3>1, <3>2 DEF Player
    <3>4. Same(u, v) /\ u.log = v.log /\ u.fm = v.fm /\ u.prizes = v.prizes /\ u.junk = v.junk
      BY <1>4, <3>1 DEF Same, Player
    <3>5. QED BY <3>2, <3>3, <3>4
  <2>4. QED BY <2>1, <2>2, <2>3
<1> HIDE DEF u
<1>7. Sound(u)
  BY <1>2, <1>6, SoundSame
<1>8. Capped(u)
  BY <1>1, <1>2, <1>6 DEF Capped, Same
<1>9. Paid(u)
  BY <1>1, <1>2, <1>6, PaidStill DEF Same, Stuff
<1>10. Stored(u)
  BY <1>1, <1>2, <1>6, StoredStill DEF Stuff
<1>11. \A s \in Data : Runs(w, s) /\ s # t => Runs(u, s)
  BY <1>2, <1>6 DEF Runs
<1>12. v.items = w.items
  BY <1>2 DEF Stuff
<1>13. Counted(u)
  <2>1. CASE \A k \in Items : u.items[k] = IF k # item THEN v.items[k]
                                           ELSE IF v.items[k] + game[t].atFail < 0 THEN 0
                                                ELSE v.items[k] + game[t].atFail
    BY <1>1, <1>11, <1>12, <2>1, CountedWhenOver
  <2>2. CASE \A k \in Items : u.items[k] = IF k # item THEN v.items[k] ELSE 0
    <3>1. SUFFICES ASSUME NEW s \in Data, game[s].need # 0
                   PROVE  /\ u.items[game[s].item] <= game[s].need
                          /\ ~ Runs(u, s) => u.items[game[s].item] + game[s].atStart <= game[s].need
      BY DEF Counted
    <3>2. /\ game[s].item \in Items /\ w.items[game[s].item] \in Nat
          /\ game[s].need \in Nat /\ game[s].atStart \in Int
      BY <3>1, <1>1, TheData, QuestItemsAreTaken DEF Player, Data
    <3>3. /\ w.items[game[s].item] <= game[s].need
          /\ ~ Runs(w, s) => w.items[game[s].item] + game[s].atStart <= game[s].need
      BY <1>1, <3>1 DEF Counted
    <3>4. game[s].atStart <= game[s].need
      BY <3>1, QuestItemsAreTaken DEF Data
    <3>5. CASE game[s].item = item
      <4>1. u.items[game[s].item] = 0
        BY <2>2, <3>2, <3>5
      <4>2. QED BY <3>2, <3>4, <4>1
    <3>6. CASE game[s].item # item
      <4>1. u.items[game[s].item] = w.items[game[s].item] /\ s # t
        BY <1>12, <2>2, <3>2, <3>6
      <4>2. ~ Runs(u, s) => ~ Runs(w, s)
        BY <1>11, <4>1
      <4>3. QED BY <3>3, <4>1, <4>2
    <3>7. QED BY <3>5, <3>6
  <2>3. QED BY <1>6, <2>1, <2>2
<1>14. Good(u)
  BY <1>7, <1>8, <1>9, <1>10, <1>13 DEF Good
<1>15. QED BY <1>14 DEF u
-----------------------------------------------------------------------------
(* Loops over the log and over the equipped nanos.                         *)

LEMMA GoodToo ==
  ASSUME NEW w, Good(w), NEW v \in Player, v.log = w.log, v.done = w.done, v.due = w.due,
         v.level = w.level, v.owned = w.owned, Stuff(v, w), Capped(v), Powered(v)
  PROVE  Good(v)
<1>1. Tidy(v) /\ Fits(v) /\ Fresh(v) /\ Levelled(v)
  BY DEF Good, Sound, Tidy, Fits, Ordinary, Due, Fresh, Runs, Levelled
<1>2. Paid(v)
  BY PaidStill DEF Good, Stuff
<1>3. Counted(v)
  BY CountedStill DEF Good, Stuff, Runs
<1>4. Stored(v)
  BY StoredStill DEF Good, Stuff
<1>5. QED BY <1>1, <1>2, <1>3, <1>4 DEF Good, Sound

LEMMA GoodIsPlayer == ASSUME NEW w, Good(w) PROVE w \in Player /\ w.log \in Logs
BY DEF Good, Sound, Player, Logs, Data

LEMMA QuitPlaceIs ==
  ASSUME game \in Games, NEW w, Good(w), NEW i \in Log, NEW tasks \in SUBSET Data,
         NEW manual \in BOOLEAN
  PROVE  Good(QuitPlace(w, i, tasks, manual))
<1>1. CASE w.log[i].task \in tasks
  <2>1. w.log[i].task \in Data
    BY <1>1
  <2>2. Good(QuitTask(w, w.log[i].task, manual))
    BY <2>1, QuitTaskIs
  <2>3. QED BY <1>1, <2>2 DEF QuitPlace
<1>2. CASE w.log[i].task \notin tasks
  BY <1>2 DEF QuitPlace
<1>3. QED BY <1>1, <1>2

LEMMA QuitAllIs ==
  ASSUME game \in Games, NEW w, Good(w), NEW tasks \in SUBSET Data, NEW manual \in BOOLEAN
  PROVE  Good(QuitAll(w, tasks, manual))
<1> DEFINE F(f) == [i \in 0..NLog |-> IF i = 0 THEN w ELSE QuitPlace(f[i - 1], i, tasks, manual)]
           q == CHOOSE f : f = F(f)
           S == {v \in Player : Good(v)}
           body == [i \in 1..NLog |-> [v \in S |-> QuitPlace(v, i, tasks, manual)]]
<1>1. QuitAll(w, tasks, manual) = q[NLog]
  BY DEF QuitAll
<1>2. \A i \in 1..NLog, v \in S : QuitPlace(v, i, tasks, manual) \in S
  BY QuitPlaceIs, GoodIsPlayer DEF Log
<1>3. w \in S /\ NLog \in Nat
  BY GoodIsPlayer, TheNanos
<1>4. \E f : f = F(f)
  <2> HIDE DEF S
  <2>1. body \in Bodies(S, NLog)
    BY <1>2 DEF Bodies
  <2>2. \A i \in 1..NLog, v \in S : body[i][v] = QuitPlace(v, i, tasks, manual)
    OBVIOUS
  <2> HIDE DEF body, F, q
  <2>3. PICK f : LoopsTo(S, NLog, w, body, f)
    BY <1>3, <2>1, LoopRuns
  <2>4. \A i \in 1..NLog : f[i] = QuitPlace(f[i - 1], i, tasks, manual)
    <3>1. \A i \in 1..NLog : i - 1 \in 0..NLog
      BY <1>3
    <3>2. QED BY <2>2, <2>3, <3>1 DEF LoopsTo
  <2>5. \A i \in 0..NLog : f[i] = IF i = 0 THEN w ELSE QuitPlace(f[i - 1], i, tasks, manual)
    BY <1>3, <2>3, <2>4 DEF LoopsTo
  <2>6. f = F(f)
    BY <2>3, <2>5 DEF F, LoopsTo
  <2>7. QED BY <2>6
<1>5. q = F(q)
  BY <1>4
<1> HIDE DEF q
<1>6. q[0] = w /\ \A i \in 1..NLog : q[i] = QuitPlace(q[i - 1], i, tasks, manual)
  BY <1>3, <1>5
<1> HIDE DEF S
<1>7. q[0] \in S /\ \A i \in 1..NLog : q[i - 1] \in S => q[i] \in S
  BY <1>2, <1>3, <1>6
<1>8. q[NLog] \in S
  BY <1>3, <1>7, LoopStays
<1>9. QED BY <1>1, <1>8 DEF S
\* One more quest item, for a task that has not got them all.
LEMMA ItemDropped ==
  ASSUME game \in Games, NEW w, Good(w), NEW t \in Data, Runs(w, t), NeedsMore(w, t)
  PROVE  LET v == DropQuestItem(w, game[t].item, 1) IN Good(v) /\ v.log = w.log
<1> DEFINE v == DropQuestItem(w, game[t].item, 1)
<1>1. Sound(w) /\ Capped(w) /\ Counted(w) /\ w \in Player
  BY DEF Good, Sound
<1>2. game[t].need # 0 /\ w.items[game[t].item] # game[t].need /\ game[t].item \in Items
  BY TheData, QuestItemsAreTaken DEF NeedsMore, Full, Data
<1>3. /\ v \in Player /\ Same(v, w) /\ v.log = w.log /\ v.fm = w.fm
      /\ v.prizes = w.prizes /\ v.junk = w.junk
      /\ \A k \in Items : v.items[k] = IF k # game[t].item THEN w.items[k]
                                       ELSE IF w.items[k] + 1 < 0 THEN 0 ELSE w.items[k] + 1
  BY <1>1, <1>2, DropQuestItemIs
<1> HIDE DEF v
<1>4. Sound(v) /\ Capped(v)
  BY <1>1, <1>3, SoundSame DEF Capped, Same
<1>5. Paid(v) /\ Stored(v)
  BY <1>3, PaidStill, StoredStill DEF Good, Same
<1>6. Counted(v)
  <2>1. SUFFICES ASSUME NEW s \in Data, game[s].need # 0
                 PROVE  /\ v.items[game[s].item] <= game[s].need
                        /\ ~ Runs(v, s) => v.items[game[s].item] + game[s].atStart <= game[s].need
    BY DEF Counted
  <2>2. /\ game[s].item \in Items /\ w.items[game[s].item] \in Nat /\ w.items[game[t].item] \in Nat
        /\ game[s].need \in Nat /\ game[t].need \in Nat /\ game[s].atStart \in Int
    BY <1>1, <1>2, <2>1, TheData, QuestItemsAreTaken DEF Player, Data
  <2>3. /\ w.items[game[s].item] <= game[s].need /\ w.items[game[t].item] <= game[t].need
        /\ ~ Runs(w, s) => w.items[game[s].item] + game[s].atStart <= game[s].need
    BY <1>1, <1>2, <2>1 DEF Counted
  <2>4. Runs(v, s) <=> Runs(w, s)
    BY <1>3 DEF Runs
  <2>5. CASE game[s].item # game[t].item
    BY <1>3, <2>2, <2>3, <2>4, <2>5
  <2>6. CASE game[s].item = game[t].item
    <3>1. v.items[game[s].item] = w.items[game[t].item] + 1
      BY <1>3, <2>2, <2>6
    <3>2. w.items[game[t].item] + 1 <= game[t].need
      BY <1>2, <2>2, <2>3
    <3>3. game[s].need = game[t].need /\ (s # t => game[s].atStart <= 0)
      BY <1>2, <2>1, <2>6, QuestItemsAreTaken DEF Data
    <3>4. ~ Runs(v, s) => s # t
      BY <2>4
    <3>5. QED BY <2>2, <3>1, <3>2, <3>3, <3>4
  <2>7. QED BY <2>5, <2>6
<1>7. Good(v)
  BY <1>4, <1>5, <1>6 DEF Good
<1>8. QED BY <1>3, <1>7 DEF v

\* mobKilled() at one place.
LEMMA MobKilledForIs ==
  ASSUME game \in Games, NEW w, Good(w), NEW i \in Log, NEW mob, NEW lucky
  PROVE  Good(MobKilledFor(w, i, mob, lucky))
<1> DEFINE t == w.log[i].task
           left == IF w.log[i].left > 0 THEN w.log[i].left - 1 ELSE 0
           L == [w.log EXCEPT ![i].left = left]
           hit == Logged(w, L)
           got == IF NeedsMore(hit, t) /\ t \in lucky
                  THEN DropQuestItem(hit, game[t].item, 1) ELSE hit
<1>1. w \in Player /\ w.log \in Logs /\ Tidy(w)
  BY GoodIsPlayer DEF Good, Sound
<1>2. CASE t = "none" \/ game[t].enemy # mob
  <2>1. MobKilledFor(w, i, mob, lucky) = w
    BY <1>2 DEF MobKilledFor
  <2>2. QED BY <2>1
<1>3. CASE t # "none" /\ game[t].enemy = mob
  <2>1. t \in Data /\ left \in Nat
    BY <1>1, <1>3 DEF Logs
  <2>2. L \in Logs
    BY <1>1, <2>1 DEF Logs
  <2>3. \A k \in Log : L[k].task = w.log[k].task /\ (k # i => L[k] = w.log[k])
    BY <1>1 DEF Logs
  <2>4. /\ hit \in Player /\ hit.log = L /\ Stuff(hit, w) /\ Same(hit, w) /\ hit.fm = w.fm
    BY <1>1, <2>2, LoggedIs DEF Stuff, Same
  <2>5. [w EXCEPT !.log[i].left = IF @ > 0 THEN @ - 1 ELSE 0] = hit
    BY <1>1 DEF Logged, Player
  <2>6. MobKilledFor(w, i, mob, lucky)
          = IF game[t].need # 0 /\ Full(got, t) /\ MayEnd(got, t) THEN EndTask(got, t) ELSE got
    <3> HIDE DEF hit
    <3>1. QED BY <1>3, <2>5 DEF MobKilledFor
  <2> HIDE DEF hit, L, left
  <2>7. \A s : Runs(hit, s) <=> Runs(w, s)
    BY <2>3, <2>4 DEF Runs
  <2>8. Tidy(hit)
    BY <1>1, <1>3, <2>3, <2>4 DEF Tidy
  <2>9. Sound(hit)
    <3>1. Fits(hit) /\ Fresh(hit)
      BY <2>4, <2>7 DEF Good, Sound, Fits, Ordinary, Due, Fresh, Same
    <3>2. QED BY <2>4, <2>8, <3>1, SoundToo DEF Good
  <2>10. Capped(hit)
    BY <2>4 DEF Good, Capped, Same
  <2>11. Paid(hit) /\ Counted(hit) /\ Stored(hit)
    BY <2>4, <2>7, PaidStill, CountedStill, StoredStill DEF Good, Same, Stuff
  <2>12. Good(hit)
    BY <2>9, <2>10, <2>11 DEF Good
  <2>13. Runs(hit, t)
    BY <2>7 DEF Runs
  <2> HIDE DEF t
  <2>14. Good(got)
    <3>1. CASE NeedsMore(hit, t) /\ t \in lucky
      <4>1. Good(DropQuestItem(hit, game[t].item, 1))
        BY <2>1, <2>12, <2>13, <3>1, ItemDropped
      <4>2. QED BY <3>1, <4>1
    <3>2. CASE ~ (NeedsMore(hit, t) /\ t \in lucky)
      <4>1. got = hit
        BY <3>2
      <4>2. QED BY <2>12, <4>1
    <3>3. QED BY <3>1, <3>2
  <2> HIDE DEF got
  <2>15. MayEnd(got, t) => Good(EndTask(got, t))
    BY <2>1, <2>14, EndTaskIs DEF MayEnd
  <2>16. QED BY <2>6, <2>14, <2>15
<1>4. QED BY <1>2, <1>3

LEMMA MobKilledIs ==
  ASSUME game \in Games, NEW w, Good(w), NEW mob, NEW lucky
  PROVE  Good(MobKilled(w, mob, lucky))
<1> DEFINE F(f) == [i \in 0..NLog |-> IF i = 0 THEN w ELSE MobKilledFor(f[i - 1], i, mob, lucky)]
           q == CHOOSE f : f = F(f)
           S == {v \in Player : Good(v)}
           body == [i \in 1..NLog |-> [v \in S |-> MobKilledFor(v, i, mob, lucky)]]
<1>1. MobKilled(w, mob, lucky) = q[NLog]
  BY DEF MobKilled
<1>2. \A i \in 1..NLog, v \in S : MobKilledFor(v, i, mob, lucky) \in S
  BY MobKilledForIs, GoodIsPlayer DEF Log
<1>3. w \in S /\ NLog \in Nat
  BY GoodIsPlayer, TheNanos
<1>4. \E f : f = F(f)
  <2> HIDE DEF S
  <2>1. body \in Bodies(S, NLog)
    BY <1>2 DEF Bodies
  <2>2. \A i \in 1..NLog, v \in S : body[i][v] = MobKilledFor(v, i, mob, lucky)
    OBVIOUS
  <2> HIDE DEF body, F, q
  <2>3. PICK f : LoopsTo(S, NLog, w, body, f)
    BY <1>3, <2>1, LoopRuns
  <2>4. \A i \in 1..NLog : f[i] = MobKilledFor(f[i - 1], i, mob, lucky)
    <3>1. \A i \in 1..NLog : i - 1 \in 0..NLog
      BY <1>3
    <3>2. QED BY <2>2, <2>3, <3>1 DEF LoopsTo
  <2>5. \A i \in 0..NLog : f[i] = IF i = 0 THEN w ELSE MobKilledFor(f[i - 1], i, mob, lucky)
    BY <1>3, <2>3, <2>4 DEF LoopsTo
  <2>6. f = F(f)
    BY <2>3, <2>5 DEF F, LoopsTo
  <2>7. QED BY <2>6
<1>5. q = F(q)
  BY <1>4
<1> HIDE DEF q
<1>6. q[0] = w /\ \A i \in 1..NLog : q[i] = MobKilledFor(q[i - 1], i, mob, lucky)
  BY <1>3, <1>5
<1> HIDE DEF S
<1>7. q[0] \in S /\ \A i \in 1..NLog : q[i - 1] \in S => q[i] \in S
  BY <1>2, <1>3, <1>6
<1>8. q[NLog] \in S
  BY <1>3, <1>7, LoopStays
<1>9. QED BY <1>1, <1>8 DEF S
\* Player::step(), for one of the equipped nanos.
LEMMA StepPlaceIs ==
  ASSUME game \in Games, NEW w, Good(w), NEW s \in 1..NEquip
  PROVE  Good(StepPlace(w, s))
<1> DEFINE n == w.equipped[s]
           drain == 1 + IF w.nanos[n].skill = "passive" THEN DrainPassive ELSE 0
           N == [w.nanos EXCEPT ![n].stamina = @ - drain]
           v == [w EXCEPT !.nanos = N]
           R == [w.nanos EXCEPT ![n] = Rested(@)]
<1>1. /\ w \in Player /\ Capped(w) /\ Powered(w) /\ n \in Nanos \cup {0} /\ 0 \notin Nanos
      /\ w.nanos \in [Nanos -> [skill : Skills, stamina : (-1 - DrainPassive)..MaxStamina]]
      /\ DrainPassive \in Nat /\ MaxStamina \in Nat
  BY GoodIsPlayer, TheNanos, DataIsSound DEF Good, Sound, Player
<1> HIDE DEF n
<1>2. CASE n = 0
  <2>1. StepPlace(w, s) = w
    BY <1>2 DEF StepPlace, n
  <2>2. QED BY <2>1
<1>3. CASE n # 0 /\ n # w.active
  <2> DEFINE u == [w EXCEPT !.nanos = R]
  <2>1. n \in Nanos
    BY <1>1, <1>3
  <2>2. R \in [Nanos -> [skill : Skills, stamina : (-1 - DrainPassive)..MaxStamina]]
    <3>1. Rested(w.nanos[n]) \in [skill : Skills, stamina : (-1 - DrainPassive)..MaxStamina]
      BY <1>1, <2>1 DEF Rested
    <3>2. QED BY <1>1, <2>1, <3>1
  <2>3. /\ \A m \in Nanos : R[m].skill = w.nanos[m].skill
        /\ \A m \in Nanos : m # n => R[m] = w.nanos[m]
    BY <1>1, <2>1 DEF Rested
  <2>4. StepPlace(w, s) = u
    BY <1>1, <1>3 DEF StepPlace, n, Player
  <2> HIDE DEF R
  <2>5. /\ u \in Player /\ u.nanos = R /\ u.active = w.active /\ u.log = w.log /\ u.done = w.done
        /\ u.due = w.due /\ u.level = w.level /\ u.owned = w.owned /\ Stuff(u, w) /\ u.fm = w.fm
    BY <1>1, <2>2 DEF Player, Stuff
  <2> HIDE DEF u
  <2>6. u.active # 0 => u.active \in Nanos /\ u.active # n
    BY <1>3, <2>5 DEF Player
  <2>7. Powered(u)
    BY <1>1, <2>3, <2>5, <2>6 DEF Powered
  <2>8. Capped(u)
    BY <1>1, <2>5 DEF Capped
  <2>9. QED BY <2>4, <2>5, <2>7, <2>8, GoodToo
<1>4. CASE n # 0 /\ n = w.active
  <2> DEFINE u == IF N[n].stamina <= 0 THEN Unsummoned(v) ELSE v
  <2>1. n \in Nanos /\ w.nanos[n].stamina \in 0..MaxStamina
    <3>1. w.active # 0
      BY <1>4
    <3>2. w.nanos[w.active].stamina >= 0
      BY <1>1, <3>1 DEF Powered
    <3>3. n \in Nanos
      BY <1>1, <1>4
    <3>4. w.nanos[n].stamina \in (-1 - DrainPassive)..MaxStamina
      BY <1>1, <3>3
    <3>5. QED BY <1>1, <1>4, <3>2, <3>3, <3>4
  <2>2. drain \in 1..(1 + DrainPassive)
    BY <1>1
  <2>3. StepPlace(w, s) = u
    <3>1. v.nanos = N /\ v = [w EXCEPT !.nanos[n].stamina = @ - drain]
      BY <1>1 DEF Player
    <3>2. w.equipped[s] = n
      BY DEF n
    <3> HIDE DEF v, N
    <3>3. QED BY <1>4, <3>1, <3>2 DEF StepPlace
  <2> HIDE DEF drain
  <2>4. /\ N \in [Nanos -> [skill : Skills, stamina : (-1 - DrainPassive)..MaxStamina]]
        /\ \A m \in Nanos : N[m].skill = w.nanos[m].skill
    <3>1. w.nanos[n].stamina - drain \in (-1 - DrainPassive)..MaxStamina
      BY <1>1, <2>1, <2>2
    <3>2. QED BY <1>1, <2>1, <3>1
  <2> HIDE DEF N
  <2>5. /\ v \in Player /\ v.nanos = N /\ v.active = w.active /\ v.log = w.log /\ v.done = w.done
        /\ v.due = w.due /\ v.level = w.level /\ v.owned = w.owned /\ Stuff(v, w) /\ v.fm = w.fm
    BY <1>1, <2>4 DEF Player, Stuff
  <2> HIDE DEF v
  <2>6. /\ u \in Player /\ u.nanos = N /\ u.log = w.log /\ u.done = w.done
        /\ u.due = w.due /\ u.level = w.level /\ u.owned = w.owned /\ Stuff(u, w) /\ u.fm = w.fm
        /\ u.active = IF N[n].stamina <= 0 THEN 0 ELSE w.active
    BY <2>5 DEF Unsummoned, Player, Stuff
  <2> HIDE DEF u
  <2>7. Powered(u)
    <3>1. u.active # 0 => /\ u.active = w.active /\ u.active = n
                          /\ u.nanos[u.active].stamina >= 0
      <4>1. N[n].stamina \in Int
        BY <2>1, <2>4
      <4>2. QED BY <1>4, <2>6, <4>1
    <3>2. u.active # 0 => u.nanos[u.active].skill # "none"
      BY <1>1, <1>4, <2>1, <2>4, <2>6, <3>1 DEF Powered
    <3>3. QED BY <3>1, <3>2 DEF Powered
  <2>8. Capped(u)
    BY <1>1, <2>6 DEF Capped
  <2>9. QED BY <2>3, <2>6, <2>7, <2>8, GoodToo
<1>5. QED BY <1>2, <1>3, <1>4

-----------------------------------------------------------------------------
(* The inductive invariant.                                                *)

LEMMA Becoming ==
  ASSUME game \in Games, NEW w, Good(w), Becomes(w)
  PROVE  IInv'
<1>1. plr' = w /\ game' = game
  BY DEF Becomes
<1>2. game' \in Games
  BY <1>1
<1>3. (plr \in Player)'
  BY <1>1, GoodIsPlayer DEF Player
<1>4. Tidy(plr)' /\ Capped(plr)' /\ Powered(plr)' /\ Levelled(plr)'
  BY <1>1 DEF Good, Sound, Tidy, Capped, Powered, Levelled
<1>5. Fits(plr)'
  BY <1>1 DEF Good, Sound, Fits, Ordinary, Due, Runs, Data
<1>6. Fresh(plr)'
  BY <1>1 DEF Good, Sound, Fresh, Runs, Data, Ends
<1>7. Paid(plr)'
  BY <1>1 DEF Good, Paid, Data, Ends
<1>8. Counted(plr)'
  BY <1>1 DEF Good, Counted, Runs, Data
<1>9. Stored(plr)'
  BY <1>1 DEF Good, Stored, Room, Prizes
<1>10. Good(plr)'
  BY <1>3, <1>4, <1>5, <1>6, <1>7, <1>8, <1>9 DEF Good, Sound
<1>11. QED BY <1>2, <1>10 DEF IInv

LEMMA StepIs ==
  ASSUME IInv, Step
  PROVE  IInv'
<1> DEFINE F(f) == [s \in 0..NEquip |-> IF s = 0 THEN plr ELSE StepPlace(f[s - 1], s)]
           q == CHOOSE f : f = F(f)
           S == {v \in Player : Good(v)}
           body == [s \in 1..NEquip |-> [v \in S |-> StepPlace(v, s)]]
<1>1. Becomes(q[NEquip])
  BY DEF Step
<1>2. \A s \in 1..NEquip, v \in S : StepPlace(v, s) \in S
  BY StepPlaceIs, GoodIsPlayer DEF IInv
<1>3. plr \in S /\ NEquip \in Nat
  BY GoodIsPlayer, DataIsSound DEF IInv
<1>4. \E f : f = F(f)
  <2> HIDE DEF S
  <2>1. body \in Bodies(S, NEquip)
    BY <1>2 DEF Bodies
  <2>2. \A s \in 1..NEquip, v \in S : body[s][v] = StepPlace(v, s)
    OBVIOUS
  <2> HIDE DEF body, F, q
  <2>3. PICK f : LoopsTo(S, NEquip, plr, body, f)
    BY <1>3, <2>1, LoopRuns
  <2>4. \A s \in 1..NEquip : f[s] = StepPlace(f[s - 1], s)
    <3>1. \A s \in 1..NEquip : s - 1 \in 0..NEquip
      BY <1>3
    <3>2. QED BY <2>2, <2>3, <3>1 DEF LoopsTo
  <2>5. \A s \in 0..NEquip : f[s] = IF s = 0 THEN plr ELSE StepPlace(f[s - 1], s)
    BY <1>3, <2>3, <2>4 DEF LoopsTo
  <2>6. f = F(f)
    BY <2>3, <2>5 DEF F, LoopsTo
  <2>7. QED BY <2>6
<1>5. q = F(q)
  BY <1>4
<1> HIDE DEF q
<1>6. q[0] = plr /\ \A s \in 1..NEquip : q[s] = StepPlace(q[s - 1], s)
  BY <1>3, <1>5
<1> HIDE DEF S
<1>7. q[0] \in S /\ \A s \in 1..NEquip : q[s - 1] \in S => q[s] \in S
  BY <1>2, <1>3, <1>6
<1>8. q[NEquip] \in S
  BY <1>3, <1>7, LoopStays
<1>9. QED BY <1>1, <1>8, Becoming DEF S, IInv
-----------------------------------------------------------------------------
(* What the handlers make of a player.                                     *)

LEMMA GoodRuns ==
  ASSUME NEW w, Good(w), NEW v \in Player, Tidy(v), \A s \in Data : Runs(v, s) <=> Runs(w, s),
         v.done = w.done, v.due = w.due,
         v.level = w.level, v.owned = w.owned, Stuff(v, w), Capped(v), Powered(v)
  PROVE  Good(v)
<1>1. Fits(v) /\ Fresh(v) /\ Levelled(v)
  BY DEF Good, Sound, Fits, Ordinary, Due, Fresh, Levelled
<1>2. Paid(v)
  BY PaidStill DEF Good, Stuff
<1>3. Counted(v)
  BY CountedStill DEF Good, Stuff
<1>4. Stored(v)
  BY StoredStill DEF Good, Stuff
<1>5. QED BY <1>1, <1>2, <1>3, <1>4 DEF Good, Sound

LEMMA UpdateGood ==
  ASSUME game \in Games, NEW w, Good(w)
  PROVE  Good(UpdateFusionMatter(w))
<1> DEFINE v == UpdateFusionMatter(w)
<1>1. /\ Sound(v) /\ Capped(v) /\ Same(v, w) /\ Stuff(v, w)
      /\ \A s \in Data : Runs(w, s) => Runs(v, s)
  BY UpdateFusionMatterIs DEF Good
<1> HIDE DEF v
<1>2. Paid(v) /\ Counted(v) /\ Stored(v)
  BY <1>1, PaidStill, CountedStill, StoredStill DEF Good, Same, Stuff
<1>3. QED BY <1>1, <1>2 DEF Good, v

LEMMA GainGood ==
  ASSUME game \in Games, NEW w, Good(w), NEW n \in Nat
  PROVE  LET v == GainFM(w, n) IN Good(v) /\ v.junk = w.junk /\ Room(v) = Room(w)
<1> DEFINE v == GainFM(w, n)
<1>1. /\ Sound(v) /\ Capped(v) /\ Same(v, w) /\ Stuff(v, w)
      /\ \A s \in Data : Runs(w, s) => Runs(v, s)
  BY GainFMIs DEF Good
<1> HIDE DEF v
<1>2. Paid(v) /\ Counted(v) /\ Stored(v)
  BY <1>1, PaidStill, CountedStill, StoredStill DEF Good, Same, Stuff
<1>3. v.junk = w.junk /\ Room(v) = Room(w)
  BY <1>1, RoomStays DEF Stuff
<1>4. QED BY <1>1, <1>2, <1>3 DEF Good, v

LEMMA AddNanoGood ==
  ASSUME game \in Games, NEW w, Good(w), NEW n \in Nanos, NEW spend \in BOOLEAN
  PROVE  Good(AddNano(w, n, spend))
<1> DEFINE v == AddNano(w, n, spend)
<1>1. /\ Sound(v) /\ Capped(v) /\ Stuff(v, w)
      /\ v.done = w.done /\ v.due = w.due /\ v.owned = w.owned \cup {n}
      /\ \A s \in Data : Runs(w, s) => Runs(v, s)
  BY AddNanoIs DEF Good
<1> HIDE DEF v
<1>2. Paid(v) /\ Counted(v) /\ Stored(v)
  BY <1>1, PaidStill, CountedStill, StoredStill DEF Good, Stuff
<1>3. QED BY <1>1, <1>2 DEF Good, v

\* The nanos and the one that is out.
Crew == [Nanos -> [skill : Skills, stamina : (-1 - DrainPassive)..MaxStamina]]
Crewed(w, N, a) == [w EXCEPT !.nanos = N, !.active = a]

LEMMA CrewGood ==
  ASSUME NEW w, Good(w), NEW N \in Crew, NEW a \in {0, w.active},
         a # 0 => N[a].skill = w.nanos[a].skill /\ N[a].stamina >= 0
  PROVE  Good(Crewed(w, N, a))
<1> DEFINE v == Crewed(w, N, a)
<1>1. w \in Player /\ Powered(w) /\ Capped(w)
  BY DEF Good, Sound
<1>2. a \in Nanos \cup {0}
  BY <1>1 DEF Player
<1>3. /\ v \in Player /\ v.log = w.log /\ v.done = w.done /\ v.due = w.due
      /\ v.level = w.level /\ v.owned = w.owned /\ v.fm = w.fm
      /\ Stuff(v, w) /\ v.nanos = N /\ v.active = a
  BY <1>1, <1>2 DEF Crewed, Crew, Player, Stuff
<1> HIDE DEF v
<1>4. Powered(v)
  <2>1. a # 0 => N[a].skill # "none"
    BY <1>1, <1>2, <1>3 DEF Powered
  <2>2. QED BY <1>3, <2>1 DEF Powered
<1>5. Capped(v)
  BY <1>1, <1>3 DEF Capped
<1>6. QED BY <1>3, <1>4, <1>5, GoodToo DEF v

LEMMA UnsummonedGood ==
  ASSUME NEW w, Good(w)
  PROVE  Good(Unsummoned(w))
<1>1. w \in Player /\ w.nanos \in Crew
  BY DEF Good, Sound, Player, Crew
<1>2. Unsummoned(w) = Crewed(w, w.nanos, 0)
  BY <1>1 DEF Unsummoned, Crewed, Player
<1>3. Good(Crewed(w, w.nanos, 0))
  BY <1>1, CrewGood
<1>4. QED BY <1>2, <1>3

LEMMA RingsGood ==
  ASSUME NEW w, Good(w), NEW r \in NoRace..MaxRings
  PROVE  LET v == [w EXCEPT !.rings = r] IN
         Good(v) /\ v.junk = w.junk /\ Room(v) = Room(w)
<1> DEFINE v == [w EXCEPT !.rings = r]
<1>1. w \in Player /\ Powered(w) /\ Capped(w)
  BY DEF Good, Sound
<1>2. /\ v \in Player /\ v.log = w.log /\ v.done = w.done /\ v.due = w.due
      /\ v.level = w.level /\ v.owned = w.owned /\ v.fm = w.fm
      /\ Stuff(v, w) /\ v.nanos = w.nanos /\ v.active = w.active
  BY <1>1 DEF Player, Stuff
<1> HIDE DEF v
<1>3. Powered(v) /\ Capped(v)
  BY <1>1, <1>2 DEF Powered, Capped
<1>4. Good(v)
  BY <1>2, <1>3, GoodToo
<1>5. v.junk = w.junk /\ Room(v) = Room(w)
  BY <1>2, RoomStays DEF Stuff
<1>6. QED BY <1>4, <1>5 DEF v

LEMMA JunkGood ==
  ASSUME game \in Games, NEW w, Good(w), NEW d \in Int, w.junk + d \in 0..MaxJunk, d <= Room(w)
  PROVE  Good([w EXCEPT !.junk = @ + d])
<1> DEFINE v == [w EXCEPT !.junk = @ + d]
<1>1. w \in Player /\ Sound(w) /\ Paid(w) /\ Capped(w) /\ Counted(w)
  BY DEF Good, Sound
<1>2. /\ v \in Player /\ v.log = w.log /\ Same(v, w) /\ v.fm = w.fm
      /\ v.items = w.items /\ v.prizes = w.prizes /\ v.junk = w.junk + d
  BY <1>1 DEF Player, Same
<1> HIDE DEF v
<1>3. Sound(v)
  BY <1>1, <1>2, SoundSame
<1>4. Capped(v)
  BY <1>1, <1>2 DEF Capped, Same
<1>5. Paid(v) /\ Counted(v)
  BY <1>1, <1>2, PaidStill, CountedStill DEF Same, Runs
<1>6. Stored(v)
  <2>1. Prizes(v) = Prizes(w)
    BY <1>2 DEF Prizes
  <2>2. /\ Room(w) \in Int /\ Room(w) = NInven - w.junk - Cardinality(Prizes(w))
        /\ Room(v) = NInven - v.junk - Cardinality(Prizes(v))
    BY <1>1, <1>2, RoomIs
  <2>3. w.junk \in Int /\ NInven \in Int /\ Cardinality(Prizes(w)) \in Int
    <3>1. w.junk \in Int
      BY <1>1, DataIsSound DEF Player
    <3>2. NInven \in Int
      BY DataIsSound
    <3>3. QED BY <1>1, <3>1, <3>2, PrizesAreFinite
  <2>4. Room(v) = Room(w) - d
    BY <1>2, <2>1, <2>2, <2>3
  <2>5. QED BY <2>2, <2>4 DEF Stored
<1>7. QED BY <1>3, <1>4, <1>5, <1>6 DEF Good, v

LEMMA FailInstancedGood ==
  ASSUME game \in Games, NEW w, Good(w)
  PROVE  Good(FailInstanced(w))
BY QuitAllIs DEF FailInstanced, Data
-----------------------------------------------------------------------------
(* The handlers of missions and races keep the invariant.                  *)

LEMMA KillMobIs ==
  ASSUME IInv, NEW mob, NEW fm \in 0..1, NEW junk \in 0..1, NEW lucky, KillMob(mob, fm, junk, lucky)
  PROVE  IInv'
<1> DEFINE a == IF fm = 0 THEN plr ELSE GainFM(plr, fm)
           b == [a EXCEPT !.junk = @ + junk]
<1>1. game \in Games /\ Good(plr) /\ plr \in Player /\ plr.junk \in Nat
  BY GoodIsPlayer DEF IInv, Player
<1>2. Good(a) /\ a.junk = plr.junk /\ Room(a) = Room(plr)
  BY <1>1, GainGood
<1>3. plr.junk + junk <= MaxJunk /\ junk <= Room(plr) /\ Becomes(MobKilled(b, mob, lucky))
  BY DEF KillMob
<1> HIDE DEF a
<1>4. a.junk + junk \in 0..MaxJunk /\ junk <= Room(a) /\ junk \in Int
  <2>1. MaxJunk \in Nat
    BY DataIsSound
  <2>2. QED BY <1>1, <1>2, <1>3, <2>1
<1>5. Good(b)
  BY <1>1, <1>2, <1>4, JunkGood
<1> HIDE DEF b
<1>6. Good(MobKilled(b, mob, lucky))
  BY <1>1, <1>5, MobKilledIs
<1>7. QED BY <1>1, <1>3, <1>6, Becoming

LEMMA ThrowAwayIs == ASSUME IInv, ThrowAway PROVE IInv'
<1>1. game \in Games /\ Good(plr) /\ plr \in Player /\ plr.junk \in 0..MaxJunk
  BY GoodIsPlayer DEF IInv, Player
<1> DEFINE d == -1
<1>2. plr.junk > 0 /\ [plr EXCEPT !.junk = @ - 1] = [plr EXCEPT !.junk = @ + d]
  BY <1>1 DEF ThrowAway, Player
<1>3. plr.junk + d \in 0..MaxJunk /\ d \in Int
  BY <1>1, <1>2, DataIsSound
<1>4. d <= Room(plr)
  BY <1>1, RoomIs DEF Good, Stored
<1> HIDE DEF d
<1>5. Good([plr EXCEPT !.junk = @ + d])
  BY <1>1, <1>3, <1>4, JunkGood
<1>6. QED BY <1>1, <1>2, <1>5, Becoming DEF ThrowAway

LEMMA RingsAre ==
  /\ NoRace \in NoRace..MaxRings /\ 0 \in NoRace..MaxRings
  /\ \A r \in 0..(MaxRings - 1) : r + 1 \in NoRace..MaxRings
  /\ \A r \in NoRace..MaxRings : r # NoRace => r \in Nat
BY DataIsSound DEF NoRace

LEMMA RacesAre ==
  ASSUME IInv, RaceStart \/ RaceGetPod \/ RaceCancel
  PROVE  IInv'
<1>1. game \in Games /\ Good(plr)
  BY DEF IInv
<1>2. \A r \in NoRace..MaxRings : Good([plr EXCEPT !.rings = r])
  BY <1>1, RingsGood
<1>3. CASE RaceStart
  BY <1>1, <1>2, <1>3, RingsAre, Becoming DEF RaceStart
<1>4. CASE RaceGetPod
  <2>1. plr.rings + 1 \in NoRace..MaxRings
    BY <1>4, RingsAre DEF RaceGetPod
  <2>2. Good([plr EXCEPT !.rings = plr.rings + 1])
    BY <1>2, <2>1
  <2>3. QED BY <1>1, <1>4, <2>2, Becoming DEF RaceGetPod
<1>5. CASE RaceCancel
  <2>1. Good(FailInstanced([plr EXCEPT !.rings = NoRace]))
    BY <1>1, <1>2, RingsAre, FailInstancedGood
  <2>2. QED BY <1>1, <1>5, <2>1, Becoming DEF RaceCancel
<1>6. QED BY <1>3, <1>4, <1>5

LEMMA RaceEndIs ==
  ASSUME IInv, NEW reward \in 0..1, RaceEnd(reward)
  PROVE  IInv'
<1> DEFINE a == GainFM(plr, plr.rings)
           v == [a EXCEPT !.rings = NoRace]
           has == IF Room(v) > 0 THEN reward ELSE 0
<1>1. game \in Games /\ Good(plr) /\ plr.rings # NoRace /\ plr.rings \in NoRace..MaxRings
  BY GoodIsPlayer DEF IInv, RaceEnd, Player
<1>2. plr.rings \in Nat
  BY <1>1, RingsAre
<1>3. Good(a)
  BY <1>1, <1>2, GainGood
<1>4. v.junk + has <= MaxJunk /\ Becomes([v EXCEPT !.junk = @ + has])
  BY DEF RaceEnd
<1> HIDE DEF a
<1>5. Good(v)
  BY <1>3, RingsAre, RingsGood
<1> HIDE DEF v
<1>6. v \in Player /\ v.junk \in Nat /\ MaxJunk \in Nat /\ Room(v) \in Int /\ Room(v) >= 0
  <2>1. v \in Player
    BY <1>5, GoodIsPlayer
  <2>2. MaxJunk \in Nat
    BY DataIsSound
  <2>3. v.junk \in Nat
    BY <2>1 DEF Player
  <2>4. Room(v) \in Int
    BY <1>1, <2>1, RoomIs
  <2>5. Room(v) >= 0
    BY <1>5 DEF Good, Stored
  <2>6. QED BY <2>1, <2>2, <2>3, <2>4, <2>5
<1>7. has \in {0, 1} /\ has <= Room(v)
  BY <1>6
<1> HIDE DEF has
<1>8. v.junk + has \in 0..MaxJunk /\ has \in Int
  BY <1>4, <1>6, <1>7
<1>9. Good([v EXCEPT !.junk = @ + has])
  BY <1>1, <1>5, <1>7, <1>8, JunkGood
<1>10. QED BY <1>1, <1>4, <1>9, Becoming

LEMMA WarpIs == ASSUME IInv, NEW leaves \in BOOLEAN, Warp(leaves) PROVE IInv'
<1> DEFINE v == IF leaves THEN [plr EXCEPT !.rings = NoRace] ELSE plr
<1>1. game \in Games /\ Good(plr)
  BY DEF IInv
<1>2. Good(v)
  BY <1>1, RingsAre, RingsGood
<1>3. Becomes(FailInstanced(v))
  BY DEF Warp
<1> HIDE DEF v
<1>4. QED BY <1>1, <1>2, <1>3, FailInstancedGood, Becoming

LEMMA ChangePlayerGuideIs == ASSUME IInv, ChangePlayerGuide PROVE IInv'
<1> DEFINE v == [plr EXCEPT !.past = TRUE]
           u == QuitAll(v, DOMAIN game, TRUE)
<1>1. game \in Games /\ Good(plr) /\ plr \in Player /\ Powered(plr) /\ Capped(plr)
  BY DEF IInv, Good, Sound
<1>2. /\ v \in Player /\ v.log = plr.log /\ v.done = plr.done /\ v.due = plr.due
      /\ v.level = plr.level /\ v.owned = plr.owned /\ v.fm = plr.fm
      /\ Stuff(v, plr) /\ v.nanos = plr.nanos /\ v.active = plr.active
  BY <1>1 DEF Player, Stuff
<1>3. Becomes(UpdateFusionMatter(u))
  BY DEF ChangePlayerGuide
<1> HIDE DEF v
<1>4. Powered(v) /\ Capped(v)
  BY <1>1, <1>2 DEF Powered, Capped
<1>5. Good(v)
  BY <1>1, <1>2, <1>4, GoodToo
<1>6. Good(u)
  BY <1>1, <1>5, QuitAllIs DEF Data
<1> HIDE DEF u
<1>7. QED BY <1>1, <1>3, <1>6, UpdateGood, Becoming
-----------------------------------------------------------------------------
(* Tasks that start and end.                                               *)

LEMMA TaskStartIs ==
  ASSUME IInv, NEW t \in Data, TaskStart(t)
  PROVE  IInv'
<1> DEFINE a == StartTask(plr, t)
           b == [a EXCEPT !.due = IF @ = t THEN "none" ELSE @]
           v == DropQuestItem(b, game[t].item, game[t].atStart)
<1>1. /\ game \in Games /\ Sound(plr) /\ Capped(plr) /\ Paid(plr) /\ Counted(plr) /\ Stored(plr)
      /\ plr \in Player /\ Tidy(plr) /\ Fits(plr) /\ Fresh(plr) /\ Powered(plr) /\ Levelled(plr)
  BY DEF IInv, Good, Sound
<1>2. /\ ~ Runs(plr, t) /\ game[t].mission \notin plr.done
      /\ (First(t) /\ Cardinality(Free(plr)) > 2) \/ (plr.due = t /\ Free(plr) # {})
      /\ Becomes(v)
  BY DEF TaskStart
<1>3. Free(plr) # {}
  BY <1>2, FS_EmptySet
<1>4. /\ a = Logged(plr, a.log) /\ a.log \in Logs /\ a \in Player /\ Tidy(a)
      /\ \A s \in Data : Runs(a, s) <=> Runs(plr, s) \/ s = t
  BY <1>1, <1>2, <1>3, StartTaskStarts
<1> HIDE DEF a
<1>5. Same(a, plr) /\ Stuff(a, plr) /\ a.fm = plr.fm
  BY <1>1, <1>4, LoggedIs DEF Same, Stuff
<1>6. /\ b \in Player /\ b.due = (IF plr.due = t THEN "none" ELSE plr.due) /\ b.log = a.log
      /\ b.done = plr.done /\ b.level = plr.level /\ b.past = plr.past /\ b.owned = plr.owned
      /\ b.nanos = plr.nanos /\ b.active = plr.active /\ b.fm = plr.fm /\ Stuff(b, plr)
  <2>1. (IF a.due = t THEN "none" ELSE a.due) \in Data \cup {"none"}
    BY <1>4 DEF Player, Data
  <2>2. b \in Player
    BY <1>4, <2>1 DEF Player, Data
  <2>3. /\ b.due = (IF a.due = t THEN "none" ELSE a.due) /\ b.log = a.log
        /\ b.done = a.done /\ b.level = a.level /\ b.past = a.past /\ b.owned = a.owned
        /\ b.nanos = a.nanos /\ b.active = a.active /\ b.fm = a.fm /\ Stuff(b, a)
    BY <1>4 DEF Player, Stuff
  <2> HIDE DEF b
  <2>4. QED BY <1>5, <2>2, <2>3 DEF Same, Stuff
<1> HIDE DEF b
<1>7. game[t].item \in Items \cup {"none"} /\ game[t].atStart \in Int
  BY <1>1, TheData
<1>8. /\ v \in Player /\ Same(v, b) /\ v.log = b.log /\ v.fm = b.fm
      /\ v.prizes = b.prizes /\ v.junk = b.junk
      /\ \A k \in Items : v.items[k] = IF k # game[t].item THEN b.items[k]
                                       ELSE IF b.items[k] + game[t].atStart < 0 THEN 0
                                            ELSE b.items[k] + game[t].atStart
  BY <1>1, <1>6, <1>7, DropQuestItemIs
<1> HIDE DEF v
<1>9. \A s \in Data : Runs(v, s) <=> Runs(plr, s) \/ s = t
  BY <1>4, <1>6, <1>8 DEF Runs
<1>10. Tidy(v)
  BY <1>4, <1>6, <1>8 DEF Tidy
<1>11. Fits(v)
  <2>1. /\ Cardinality(Ordinary(plr)) \in Nat /\ Cardinality(Ordinary(v)) \in Nat
        /\ Cardinality(Ordinary(v)) = Cardinality(Ordinary(plr)) + IF game[t].nano = 0 THEN 1 ELSE 0
    BY <1>1, <1>2, <1>9, OrdinaryGrows
  <2>2. v.due = IF plr.due = t THEN "none" ELSE plr.due
    BY <1>6, <1>8 DEF Same
  <2>3. Cardinality(Ordinary(plr)) + Due(plr) < NLog /\ NLog \in Nat
    BY <1>1, TheNanos DEF Fits
  <2>4. CASE plr.due = t
    <3>1. Due(v) = 0
      BY <2>2, <2>4 DEF Due
    <3>2. Due(plr) = IF game[t].nano = 0 THEN 1 ELSE 0
      <4>1. t # "none"
        BY <1>1, TheData
      <4>2. QED BY <2>4, <4>1 DEF Due
    <3>3. CASE game[t].nano = 0
      BY <2>1, <2>3, <3>1, <3>2, <3>3 DEF Fits
    <3>4. CASE game[t].nano # 0
      BY <2>1, <2>3, <3>1, <3>2, <3>4 DEF Fits
    <3>5. QED BY <3>3, <3>4
  <2>5. CASE plr.due # t
    <3>1. game[t].nano = 0 /\ Cardinality(Free(plr)) > 2
      BY <1>2, <2>5 DEF First
    <3>2. /\ Cardinality(Free(plr)) \in Nat
          /\ Cardinality(Ordinary(plr)) + Cardinality(Free(plr)) <= NLog
      BY <1>1, PlacesAreCounted
    <3>3. Due(v) \in {0, 1}
      BY DEF Due
    <3>4. QED BY <2>1, <2>3, <3>1, <3>2, <3>3 DEF Fits
  <2>6. QED BY <2>4, <2>5
<1>12. Fresh(v)
  BY <1>1, <1>2, <1>6, <1>8, <1>9 DEF Fresh, Same
<1>13. Powered(v) /\ Levelled(v) /\ Capped(v)
  BY <1>1, <1>6, <1>8 DEF Powered, Levelled, Capped, Same
<1>14. Sound(v)
  BY <1>8, <1>10, <1>11, <1>12, <1>13 DEF Sound
<1>15. Paid(v) /\ Stored(v)
  BY <1>1, <1>6, <1>8, PaidStill, StoredStill DEF Same, Stuff
<1>16. Counted(v)
  <2>1. SUFFICES ASSUME NEW s \in Data, game[s].need # 0
                 PROVE  /\ v.items[game[s].item] <= game[s].need
                        /\ ~ Runs(v, s) => v.items[game[s].item] + game[s].atStart <= game[s].need
    BY DEF Counted
  <2>2. /\ game[s].item \in Items /\ plr.items[game[s].item] \in Nat
        /\ game[s].need \in Nat /\ game[s].atStart \in Int
    BY <1>1, <2>1, TheData, QuestItemsAreTaken DEF Player, Data
  <2>3. /\ plr.items[game[s].item] <= game[s].need
        /\ ~ Runs(plr, s) => plr.items[game[s].item] + game[s].atStart <= game[s].need
    BY <1>1, <2>1 DEF Counted
  <2>4. b.items = plr.items
    BY <1>6 DEF Stuff
  <2>5. CASE game[s].item # game[t].item
    <3>1. v.items[game[s].item] = plr.items[game[s].item]
      BY <1>8, <2>2, <2>4, <2>5
    <3>2. Runs(plr, s) => Runs(v, s)
      BY <1>9
    <3>3. QED BY <2>3, <3>1, <3>2
  <2>6. CASE game[s].item = game[t].item
    <3>1. v.items[game[s].item] = IF plr.items[game[s].item] + game[t].atStart < 0 THEN 0
                                  ELSE plr.items[game[s].item] + game[t].atStart
      BY <1>8, <2>2, <2>4, <2>6
    <3>2. CASE s = t
      <4>1. Runs(v, s) /\ ~ Runs(plr, s)
        BY <1>2, <1>9, <3>2
      <4>2. QED BY <2>2, <2>3, <3>1, <3>2, <4>1
    <3>3. CASE s # t
      <4>1. game[t].atStart <= 0 /\ game[s].atStart <= 0
        BY <1>1, <2>1, <2>6, <3>3, QuestItemsAreTaken DEF Data
      <4>2. QED BY <1>7, <2>2, <2>3, <3>1, <4>1
    <3>4. QED BY <3>2, <3>3
  <2>7. QED BY <2>5, <2>6
<1>17. Good(v)
  BY <1>14, <1>15, <1>13, <1>16 DEF Good
<1>18. QED BY <1>1, <1>2, <1>17, Becoming

LEMMA TaskEndIs ==
  ASSUME IInv, NEW t \in Data, TaskEnd(t) \/ TaskTimeout(t) \/ TaskStop(t)
  PROVE  IInv'
<1>1. game \in Games /\ Good(plr)
  BY DEF IInv
<1>2. MayEnd(plr, t) => Good(EndTask(plr, t))
  BY <1>1, EndTaskIs DEF MayEnd
<1>3. Good(QuitTask(plr, t, FALSE)) /\ Good(QuitTask(plr, t, TRUE))
  BY <1>1, QuitTaskIs
<1>4. \/ MayEnd(plr, t) /\ Becomes(EndTask(plr, t))
      \/ Becomes(QuitTask(plr, t, FALSE))
      \/ Becomes(QuitTask(plr, t, TRUE))
  BY DEF TaskEnd, TaskTimeout, TaskStop
<1>5. QED BY <1>1, <1>2, <1>3, <1>4, Becoming
-----------------------------------------------------------------------------
(* The log that comes back from the database.                              *)

LEMMA RowIs ==
  ASSUME NEW w, NEW i \in Log, w.log[i] # Idle
  PROVE  Row(w, i) \in 1..i
<1> DEFINE T == {k \in 1..i : w.log[k] # Idle}
<1>1. i \in Nat /\ 1 <= i /\ i \in 1..i
  BY TheNanos DEF Log
<1>2. IsFiniteSet(1..i) /\ Cardinality(1..i) = i
  BY <1>1, FS_Interval
<1>3. T \in SUBSET (1..i) /\ i \in T
  BY <1>1
<1> HIDE DEF T
<1>4. IsFiniteSet(T) /\ Cardinality(T) <= i /\ Cardinality(T) \in Nat
  BY <1>2, <1>3, FS_Subset, FS_CardinalityType
<1>5. Cardinality(T) # 0
  BY <1>3, <1>4, FS_EmptySet
<1>6. QED BY <1>1, <1>4, <1>5 DEF Row, T

\* Two tasks that run have two rows.
LEMMA RowsDiffer ==
  ASSUME NEW w, NEW i \in Log, NEW j \in Log, w.log[i] # Idle, w.log[j] # Idle, Row(w, i) = Row(w, j)
  PROVE  i = j
<1>1. ASSUME NEW k \in Log, NEW l \in Log, w.log[l] # Idle, k < l
      PROVE  Row(w, k) # Row(w, l)
  <2> DEFINE T == {m \in 1..k : w.log[m] # Idle}
             U == {m \in 1..l : w.log[m] # Idle}
  <2>1. k \in Nat /\ l \in Nat
    BY TheNanos DEF Log
  <2>2. T \cup {l} \in SUBSET U /\ U \in SUBSET (1..l) /\ T \in SUBSET U /\ l \notin T
    BY <1>1, <2>1 DEF Log
  <2>3. IsFiniteSet(1..l)
    BY <2>1, FS_Interval
  <2> HIDE DEF T, U
  <2>4. IsFiniteSet(U)
    BY <2>2, <2>3, FS_Subset
  <2>5. IsFiniteSet(T) /\ Cardinality(T \cup {l}) <= Cardinality(U)
    BY <2>2, <2>4, FS_Subset
  <2>6. Cardinality(T \cup {l}) = Cardinality(T) + 1 /\ Cardinality(T) \in Nat
    BY <2>2, <2>5, FS_AddElement, FS_CardinalityType
  <2>7. Cardinality(T) # Cardinality(U)
    BY <2>5, <2>6
  <2>8. QED BY <2>7 DEF Row, T, U
<1>2. i \in Int /\ j \in Int
  BY TheNanos DEF Log
<1>3. i < j \/ j < i \/ i = j
  BY <1>2
<1>4. QED BY <1>1, <1>3

\* The same tasks run, each once, with what is left of them.
LEMMA LoadedLogIs ==
  ASSUME game \in Games, NEW w \in Player, Tidy(w)
  PROVE  LET v == Logged(w, LoadedLog(w)) IN
         /\ LoadedLog(w) \in Logs /\ v \in Player /\ Tidy(v)
         /\ \A s \in Data : Runs(v, s) <=> Runs(w, s)
<1> DEFINE L == LoadedLog(w)
           At(r) == CHOOSE i \in SavedAs(w, r) : TRUE
<1>1. w.log \in Logs /\ "none" \notin Data
  BY TheData DEF Player, Logs, Data
<1>2. \A i \in Log : w.log[i] # Idle <=> w.log[i].task # "none"
  BY DEF Tidy, Idle
<1>3. ASSUME NEW r
      PROVE  SavedAs(w, r) = {i \in Log : w.log[i] # Idle /\ Row(w, i) = r}
  <2>1. ASSUME NEW i \in Log, w.log[i] # Idle
        PROVE  \A k \in 1..(i - 1) : w.log[k].task # w.log[i].task
    <3>1. SUFFICES ASSUME NEW k \in 1..(i - 1), w.log[k].task = w.log[i].task PROVE FALSE
      OBVIOUS
    <3>2. k \in Log /\ k # i
      BY TheNanos DEF Log
    <3>3. QED BY <1>2, <2>1, <3>1, <3>2 DEF Tidy
  <2>2. QED BY <2>1 DEF SavedAs
<1>4. \A r \in Log : SavedAs(w, r) # {} => /\ At(r) \in Log /\ w.log[At(r)] # Idle
                                           /\ Row(w, At(r)) = r
  BY <1>3
<1>5. \A r \in Log : L[r] = IF SavedAs(w, r) = {} THEN Idle ELSE w.log[At(r)]
  BY DEF LoadedLog
<1>6. L \in Logs
  <2>1. \A r \in Log : L[r] \in [task : Data \cup {"none"}, left : Nat]
    <3> HIDE DEF At, L
    <3>1. QED BY <1>1, <1>4, <1>5, IdleIs DEF Logs
  <2>2. L = [r \in Log |-> L[r]]
    BY DEF LoadedLog
  <2> HIDE DEF L
  <2>3. QED BY <2>1, <2>2 DEF Logs
<1> HIDE DEF L, At
<1>7. Logged(w, L) \in Player /\ Logged(w, L).log = L
  BY <1>6, LoggedIs
<1>8. \A r \in Log : L[r].task # "none" => SavedAs(w, r) # {}
  BY <1>5 DEF Idle
<1>9. Tidy(Logged(w, L))
  <2>1. ASSUME NEW r \in Log, L[r].task = "none" PROVE L[r] = Idle
    BY <1>2, <1>4, <1>5, <2>1
  <2>2. ASSUME NEW q \in Log, NEW r \in Log, L[q].task = L[r].task, L[q].task # "none" PROVE q = r
    <3>1. SavedAs(w, q) # {} /\ SavedAs(w, r) # {}
      BY <1>8, <2>2
    <3>2. w.log[At(q)].task = w.log[At(r)].task /\ w.log[At(q)].task # "none"
      BY <1>5, <2>2, <3>1
    <3>3. At(q) = At(r)
      BY <1>4, <3>1, <3>2 DEF Tidy
    <3>4. QED BY <1>4, <3>1, <3>3
  <2>3. QED BY <1>7, <2>1, <2>2 DEF Tidy
<1>10. ASSUME NEW s \in Data PROVE Runs(Logged(w, L), s) <=> Runs(w, s)
  <2>1. ASSUME NEW r \in Log, L[r].task = s PROVE Runs(w, s)
    <3>1. SavedAs(w, r) # {}
      BY <1>1, <1>8, <2>1
    <3>2. QED BY <1>4, <1>5, <2>1, <3>1 DEF Runs
  <2>2. ASSUME NEW i \in Log, w.log[i].task = s PROVE \E r \in Log : L[r].task = s
    <3>1. w.log[i] # Idle
      BY <1>1, <1>2, <2>2
    <3>2. Row(w, i) \in Log
      <4>1. Row(w, i) \in 1..i
        BY <3>1, RowIs
      <4>2. QED BY <4>1, TheNanos DEF Log
    <3>3. i \in SavedAs(w, Row(w, i))
      BY <1>3, <3>1
    <3>4. /\ At(Row(w, i)) \in Log /\ w.log[At(Row(w, i))] # Idle
          /\ Row(w, At(Row(w, i))) = Row(w, i)
      BY <1>4, <3>2, <3>3
    <3>5. At(Row(w, i)) = i
      BY <3>1, <3>4, RowsDiffer
    <3>6. L[Row(w, i)].task = s
      BY <1>5, <2>2, <3>2, <3>3, <3>5
    <3>7. QED BY <3>2, <3>6
  <2>3. QED BY <1>7, <2>1, <2>2 DEF Runs
<1>11. QED BY <1>6, <1>7, <1>9, <1>10 DEF L

LEMMA RelogIs == ASSUME IInv, Relog PROVE IInv'
<1> DEFINE L == LoadedLog(plr)
           a == Logged(plr, L)
           N == LoadedNanos(plr)
           b == Crewed(a, N, 0)
           v == [plr EXCEPT !.log = L, !.nanos = N, !.active = 0, !.rings = NoRace]
<1>1. /\ game \in Games /\ Good(plr) /\ plr \in Player /\ Tidy(plr)
      /\ Capped(plr) /\ Powered(plr)
  BY DEF IInv, Good, Sound
<1>2. /\ L \in Logs /\ a \in Player /\ Tidy(a)
      /\ \A s \in Data : Runs(a, s) <=> Runs(plr, s)
  BY <1>1, LoadedLogIs
<1>3. Becomes(LoadPlayer(v))
  BY DEF Relog
<1> HIDE DEF L
<1>4. v = [b EXCEPT !.rings = NoRace]
  BY <1>1, <1>2 DEF Logged, Crewed, Player
<1>5. /\ a.done = plr.done /\ a.due = plr.due /\ a.level = plr.level /\ a.owned = plr.owned
      /\ Stuff(a, plr) /\ a.fm = plr.fm /\ a.nanos = plr.nanos /\ a.active = plr.active
  BY <1>1, <1>2, LoggedIs DEF Stuff
<1> HIDE DEF a, v
<1>6. Capped(a) /\ Powered(a)
  BY <1>1, <1>5 DEF Capped, Powered
<1>7. Good(a)
  BY <1>1, <1>2, <1>5, <1>6, GoodRuns
<1>8. Good(b)
  <2>1. NoNano \in [skill : Skills, stamina : (-1 - DrainPassive)..MaxStamina]
    BY DataIsSound DEF NoNano, Skills
  <2>2. N \in Crew
    BY <1>1, <2>1 DEF LoadedNanos, Player, Crew
  <2> HIDE DEF N
  <2>3. QED BY <1>7, <2>2, CrewGood
<1> HIDE DEF b
<1>9. Good(v)
  BY <1>4, <1>8, RingsAre, RingsGood
<1>10. Good(LoadPlayer(v))
  BY <1>1, <1>9, FailInstancedGood DEF LoadPlayer
<1>11. QED BY <1>1, <1>3, <1>10, Becoming
-----------------------------------------------------------------------------
(* The handlers of the nanos.                                              *)

\* The player, its nanos and the one that is out, at the start of a handler.
LEMMA TheCrew ==
  ASSUME IInv
  PROVE  /\ game \in Games /\ Good(plr) /\ plr \in Player /\ plr.nanos \in Crew
         /\ plr.active \in Nanos \cup {0} /\ 0 \notin Nanos
         /\ plr.active # 0 => /\ plr.active \in Nanos
                              /\ plr.nanos[plr.active].stamina \in 0..MaxStamina
         /\ plr.fm \in Nat /\ MaxStamina \in Nat /\ DrainActive \in Nat /\ DrainPassive \in Nat
<1>1. game \in Games /\ Good(plr) /\ plr \in Player /\ Powered(plr)
  BY DEF IInv, Good, Sound
<1>2. plr.nanos \in Crew /\ plr.active \in Nanos \cup {0} /\ plr.fm \in Nat
  BY <1>1 DEF Player, Crew
<1>3. MaxStamina \in Nat /\ DrainActive \in Nat /\ DrainPassive \in Nat
  BY DataIsSound
<1>4. ASSUME plr.active # 0
      PROVE  plr.active \in Nanos /\ plr.nanos[plr.active].stamina \in 0..MaxStamina
  <2>1. plr.active \in Nanos /\ plr.nanos[plr.active].stamina >= 0
    BY <1>1, <1>2, <1>4 DEF Powered
  <2>2. plr.nanos[plr.active].stamina \in (-1 - DrainPassive)..MaxStamina
    BY <1>2, <2>1 DEF Crew
  <2>3. QED BY <1>3, <2>1, <2>2
<1>5. QED BY <1>1, <1>2, <1>3, <1>4, TheNanos

\* Other nanos may be equipped.
LEMMA EquippedGood ==
  ASSUME NEW w, Good(w), NEW e \in [1..NEquip -> Nanos \cup {0}]
  PROVE  Good([w EXCEPT !.equipped = e])
<1> DEFINE v == [w EXCEPT !.equipped = e]
<1>1. w \in Player /\ Powered(w) /\ Capped(w)
  BY DEF Good, Sound
<1>2. /\ v \in Player /\ v.log = w.log /\ v.done = w.done /\ v.due = w.due
      /\ v.level = w.level /\ v.owned = w.owned /\ v.fm = w.fm
      /\ Stuff(v, w) /\ v.nanos = w.nanos /\ v.active = w.active
  BY <1>1 DEF Player, Stuff
<1> HIDE DEF v
<1>3. Powered(v) /\ Capped(v)
  BY <1>1, <1>2 DEF Powered, Capped
<1>4. QED BY <1>2, <1>3, GoodToo DEF v

LEMMA NanoEquipIs ==
  ASSUME IInv, NEW s \in 1..NEquip, NEW n \in Nanos, NanoEquip(s, n)
  PROVE  IInv'
<1> DEFINE e == [plr.equipped EXCEPT ![s] = n]
           v == [plr EXCEPT !.equipped = e]
<1>1. game \in Games /\ Good(plr) /\ plr \in Player
  BY TheCrew
<1>2. e \in [1..NEquip -> Nanos \cup {0}]
  BY <1>1 DEF Player
<1>3. [plr EXCEPT !.equipped[s] = n] = v
  BY <1>1 DEF Player
<1> HIDE DEF e
<1>4. Good(v)
  BY <1>1, <1>2, EquippedGood
<1> HIDE DEF v
<1>5. Becomes(v) \/ Becomes(Unsummoned(v))
  BY <1>3 DEF NanoEquip
<1>6. QED BY <1>1, <1>4, <1>5, UnsummonedGood, Becoming

LEMMA NanoUnequipIs ==
  ASSUME IInv, NEW s \in 1..NEquip, NanoUnequip(s)
  PROVE  IInv'
<1> DEFINE w == IF plr.equipped[s] = plr.active THEN Unsummoned(plr) ELSE plr
           e == [w.equipped EXCEPT ![s] = 0]
           v == [w EXCEPT !.equipped = e]
<1>1. game \in Games /\ Good(plr) /\ plr \in Player
  BY TheCrew
<1>2. Good(w)
  BY <1>1, UnsummonedGood
<1>3. Becomes([w EXCEPT !.equipped[s] = 0])
  BY DEF NanoUnequip
<1> HIDE DEF w
<1>4. w \in Player
  BY <1>2, GoodIsPlayer
<1>5. [w EXCEPT !.equipped[s] = 0] = v
  BY <1>4 DEF Player
<1>6. e \in [1..NEquip -> Nanos \cup {0}]
  BY <1>4 DEF Player
<1> HIDE DEF e
<1>7. Good(v)
  BY <1>2, <1>6, EquippedGood
<1> HIDE DEF v
<1>8. Becomes(v)
  BY <1>3, <1>5
<1>9. QED BY <1>1, <1>7, <1>8, Becoming

LEMMA GiveNanoIs ==
  ASSUME IInv, NEW n \in Nanos, GiveNano(n)
  PROVE  IInv'
<1>1. game \in Games /\ Good(plr)
  BY DEF IInv
<1>2. Good(AddNano(plr, n, FALSE))
  BY <1>1, AddNanoGood
<1>3. QED BY <1>1, <1>2, Becoming DEF GiveNano

LEMMA NanoSummonIs ==
  ASSUME IInv, NEW s \in 1..NEquip, NanoSummon(s)
  PROVE  IInv'
<1> DEFINE n == plr.equipped[s]
           v == [plr EXCEPT !.active = n]
<1>1. game \in Games /\ Good(plr) /\ plr \in Player
  BY TheCrew
<1>2. /\ n \in Nanos /\ plr.nanos[n].skill # "none" /\ plr.nanos[n].stamina > 0
      /\ Becomes(v)
  BY <1>1 DEF NanoSummon, Player
<1> HIDE DEF n
<1>3. /\ v \in Player /\ v.log = plr.log /\ v.done = plr.done /\ v.due = plr.due
      /\ v.level = plr.level /\ v.owned = plr.owned /\ v.fm = plr.fm
      /\ Stuff(v, plr) /\ v.nanos = plr.nanos /\ v.active = n
  BY <1>1, <1>2 DEF Player, Stuff
<1> HIDE DEF v
<1>4. plr.nanos[n].stamina >= 0
  <2>1. plr.nanos[n].stamina \in Int
    BY <1>1, <1>2, DataIsSound, TheCrew DEF Crew
  <2>2. QED BY <1>2, <2>1
<1>5. Powered(v)
  BY <1>2, <1>3, <1>4 DEF Powered
<1>6. Capped(v)
  BY <1>1, <1>3 DEF Good, Capped
<1>7. Good(v)
  BY <1>1, <1>3, <1>5, <1>6, GoodToo
<1>8. QED BY <1>1, <1>2, <1>7, Becoming

LEMMA NanoTuneIs ==
  ASSUME IInv, NEW n \in Nanos, NEW skill \in Skills \ {"none"}, NEW price \in 0..1,
         NanoTune(n, skill, price)
  PROVE  IInv'
<1> DEFINE w == IF plr.active = n THEN Unsummoned(plr) ELSE plr
           N == [w.nanos EXCEPT ![n].skill = skill]
           fm == IF w.fm < price THEN w.fm ELSE w.fm - price
           v == [w EXCEPT !.nanos = N, !.fm = fm]
<1>1. /\ game \in Games /\ Good(plr)
      /\ Becomes([w EXCEPT !.nanos[n].skill = skill,
                           !.fm = IF @ < price THEN @ ELSE @ - price])
  BY TheCrew DEF NanoTune
<1>2. Good(w) /\ w.owned = plr.owned /\ w.active # n
  <2>1. CASE plr.active = n
    <3>1. Good(Unsummoned(plr)) /\ n # 0
      BY <1>1, UnsummonedGood, TheNanos
    <3>2. Unsummoned(plr).owned = plr.owned /\ Unsummoned(plr).active = 0
      BY <1>1, UnsummonedIs DEF Good
    <3>3. QED BY <2>1, <3>1, <3>2
  <2>2. CASE plr.active # n
    BY <1>1, <2>2
  <2>3. QED BY <2>1, <2>2
<1> HIDE DEF w
<1>3. /\ w \in Player /\ w.nanos \in Crew /\ w.fm \in Nat /\ Powered(w) /\ Capped(w)
      /\ w.level \in Levels
  BY <1>2 DEF Good, Sound, Player, Crew
<1>4. [w EXCEPT !.nanos[n].skill = skill, !.fm = IF @ < price THEN @ ELSE @ - price] = v
  BY <1>3 DEF Player
<1>5. N \in Crew
  BY <1>3 DEF Crew
<1>6. /\ \A m \in Nanos : m # n => N[m] = w.nanos[m]
      /\ fm \in Nat /\ fm <= w.fm
  BY <1>3 DEF Crew
<1> HIDE DEF N, fm
<1>7. /\ v \in Player /\ v.log = w.log /\ v.done = w.done /\ v.due = w.due
      /\ v.level = w.level /\ v.owned = w.owned /\ v.fm = fm
      /\ Stuff(v, w) /\ v.nanos = N /\ v.active = w.active
  BY <1>3, <1>5, <1>6 DEF Player, Crew, Stuff
<1> HIDE DEF v
<1>8. Powered(v)
  <2>1. w.active # 0 => N[w.active] = w.nanos[w.active]
    BY <1>2, <1>3, <1>6 DEF Player
  <2>2. w.active # 0 => N[w.active].skill # "none" /\ N[w.active].stamina >= 0
    BY <1>3, <2>1 DEF Powered
  <2>3. QED BY <1>7, <2>2 DEF Powered
<1>9. Capped(v)
  <2>1. FMLimit[w.level] \in Nat /\ w.fm <= FMLimit[w.level]
    BY <1>3, TheNanos DEF Capped
  <2>2. QED BY <1>3, <1>6, <1>7, <2>1 DEF Capped
<1>10. Good(v)
  BY <1>2, <1>7, <1>8, <1>9, GoodToo
<1>11. QED BY <1>1, <1>4, <1>10, Becoming

\* Stamina that goes down and sends the nano away, or up.
LEMMA StaminaIs ==
  ASSUME IInv, plr.active # 0, NEW left \in 0..MaxStamina
  PROVE  LET v == [plr EXCEPT !.nanos[plr.active].stamina = left] IN
         Good(v) /\ Good(Unsummoned(v))
<1> DEFINE n == plr.active
           N == [plr.nanos EXCEPT ![n].stamina = left]
           v == [plr EXCEPT !.nanos[n].stamina = left]
<1>1. /\ Good(plr) /\ plr \in Player /\ plr.nanos \in Crew /\ n \in Nanos
      /\ MaxStamina \in Nat /\ DrainPassive \in Nat
  BY TheCrew
<1> HIDE DEF n
<1>2. left \in (-1 - DrainPassive)..MaxStamina /\ left >= 0
  BY <1>1
<1>3. N \in Crew /\ \A m \in Nanos : N[m].skill = plr.nanos[m].skill
  BY <1>1, <1>2 DEF Crew
<1>4. N[n].stamina = left
  BY <1>1 DEF Crew
<1>5. v = Crewed(plr, N, n)
  BY <1>1 DEF Crewed, Player, n
<1> HIDE DEF N, v
<1>6. n \in {0, plr.active}
  BY DEF n
<1>7. Good(Crewed(plr, N, n))
  BY <1>1, <1>2, <1>3, <1>4, <1>6, CrewGood
<1>8. Good(v)
  BY <1>5, <1>7
<1>9. Good(Unsummoned(v))
  BY <1>8, UnsummonedGood
<1>10. QED BY <1>8, <1>9 DEF v, n

LEMMA StaminaChanges ==
  ASSUME IInv, NanoSkillUse \/ GooDamage \/ RevivePhoenix \/ \E n \in 1..MaxStamina : NanoPotion(n)
  PROVE  IInv'
<1> DEFINE stamina == plr.nanos[plr.active].stamina
           V(left) == [plr EXCEPT !.nanos[plr.active].stamina = left]
<1>1. plr.active # 0
  BY TheNanos, TheCrew DEF NanoSkillUse, GooDamage, RevivePhoenix, NanoPotion, Player
<1>2. /\ game \in Games /\ stamina \in 0..MaxStamina /\ MaxStamina \in Nat /\ DrainActive \in Nat
      /\ plr \in Player /\ plr.nanos \in Crew
  BY <1>1, TheCrew
<1>3. \A left \in 0..MaxStamina : Good(V(left)) /\ Good(Unsummoned(V(left)))
  BY <1>1, StaminaIs
<1> HIDE DEF stamina, V
<1>4. \A d \in Nat : (IF stamina - d <= 0 THEN 0 ELSE stamina - d) \in 0..MaxStamina
  BY <1>2
<1>5. CASE NanoSkillUse
  <2> DEFINE left == IF stamina - DrainActive <= 0 THEN 0 ELSE stamina - DrainActive
  <2>1. left \in 0..MaxStamina
    BY <1>2, <1>4
  <2>2. Becomes(V(left)) \/ Becomes(Unsummoned(V(left)))
    BY <1>5 DEF NanoSkillUse, V, stamina
  <2> HIDE DEF left
  <2>3. QED BY <1>2, <1>3, <2>1, <2>2, Becoming
<1>6. CASE GooDamage
  <2> DEFINE left == IF stamina - 1 <= 0 THEN 0 ELSE stamina - 1
  <2>1. left \in 0..MaxStamina
    BY <1>2, <1>4
  <2>2. Becomes(V(left)) \/ Becomes(Unsummoned(V(left)))
    BY <1>6 DEF GooDamage, V, stamina
  <2> HIDE DEF left
  <2>3. QED BY <1>2, <1>3, <2>1, <2>2, Becoming
<1>7. CASE RevivePhoenix
  <2>1. 0 \in 0..MaxStamina /\ Becomes(V(0))
    BY <1>2, <1>7 DEF RevivePhoenix, V
  <2>2. QED BY <1>2, <1>3, <2>1, Becoming
<1>8. ASSUME NEW n \in 1..MaxStamina, NanoPotion(n) PROVE IInv'
  <2>1. n <= MaxStamina - stamina /\ [plr EXCEPT !.nanos[plr.active].stamina = @ + n] = V(stamina + n)
    BY <1>2, <1>8 DEF NanoPotion, V, stamina, Player
  <2>2. stamina + n \in 0..MaxStamina
    BY <1>2, <2>1
  <2>3. Becomes(V(stamina + n))
    BY <1>8, <2>1 DEF NanoPotion
  <2>4. QED BY <1>2, <1>3, <2>2, <2>3, Becoming
<1>9. QED BY <1>5, <1>6, <1>7, <1>8

LEMMA RespawnIs == ASSUME IInv, Respawn PROVE IInv'
<1> DEFINE half == MaxStamina \div 2
           N == [n \in Nanos |-> IF \E s \in 1..NEquip : plr.equipped[s] = n
                                 THEN [plr.nanos[n] EXCEPT !.stamina = half] ELSE plr.nanos[n]]
<1>1. /\ game \in Games /\ Good(plr) /\ plr \in Player /\ plr.nanos \in Crew
      /\ MaxStamina \in Nat /\ DrainPassive \in Nat
      /\ plr.active # 0 => /\ plr.active \in Nanos
                           /\ plr.nanos[plr.active].stamina \in 0..MaxStamina
  BY TheCrew
<1>2. half \in 0..MaxStamina
  BY <1>1
<1> HIDE DEF half
<1>3. half \in (-1 - DrainPassive)..MaxStamina /\ half >= 0
  BY <1>1, <1>2
<1>4. N \in Crew /\ \A m \in Nanos : N[m].skill = plr.nanos[m].skill
  BY <1>1, <1>3 DEF Crew
<1>5. plr.active # 0 => N[plr.active].stamina >= 0
  <2>1. plr.active # 0 => N[plr.active].stamina \in {half, plr.nanos[plr.active].stamina}
    BY <1>1 DEF Crew
  <2>2. QED BY <1>1, <1>3, <2>1
<1>6. Becomes(Crewed(plr, N, plr.active))
  <2>1. [plr EXCEPT !.nanos = N] = Crewed(plr, N, plr.active)
    BY <1>1 DEF Crewed, Player
  <2>2. Becomes([plr EXCEPT !.nanos = N])
    BY DEF Respawn, half
  <2>3. QED BY <2>1, <2>2
<1> HIDE DEF N
<1>7. Good(Crewed(plr, N, plr.active))
  BY <1>1, <1>4, <1>5, CrewGood
<1>8. QED BY <1>1, <1>6, <1>7, Becoming
-----------------------------------------------------------------------------
(* The theorems.                                                           *)

LEMMA InitIInv == Init => IInv
<1> SUFFICES ASSUME Init PROVE IInv
  OBVIOUS
<1>1. game \in Games
  BY DEF Init
<1>2. PICK past \in BOOLEAN :
        plr = [log |-> [i \in Log |-> Idle], items |-> [k \in Items |-> 0],
               done |-> {}, due |-> "none", prizes |-> [t \in DOMAIN game |-> 0], junk |-> 0,
               fm |-> 0, level |-> FirstLevel, past |-> past,
               owned |-> {}, nanos |-> [n \in Nanos |-> NoNano],
               equipped |-> [s \in 1..NEquip |-> 0], active |-> 0, rings |-> NoRace]
  BY DEF Init
<1>3. MaxJunk \in Nat /\ MaxStamina \in Nat /\ DrainPassive \in Nat /\ MaxRings \in Nat /\ NInven \in Nat
  BY DataIsSound
<1>4. FirstLevel \in Levels
  BY <1>1, DataIsSound DEF Levels
<1>5. plr \in Player
  <2>1. [i \in Log |-> Idle] \in [Log -> [task : DOMAIN game \cup {"none"}, left : Nat]]
    BY <1>1, IdleIs DEF Data
  <2>2. NoNano \in [skill : Skills, stamina : (-1 - DrainPassive)..MaxStamina]
    BY <1>3 DEF NoNano, Skills
  <2>3. 0 \in 0..MaxJunk /\ NoRace \in NoRace..MaxRings
    BY <1>3 DEF NoRace
  <2>4. QED BY <1>2, <1>4, <2>1, <2>2, <2>3 DEF Player
<1>6. \A t \in Data : ~ Runs(plr, t)
  BY <1>1, <1>2, TheData DEF Runs, Idle
<1>7. Tidy(plr)
  BY <1>2 DEF Tidy, Idle
<1>8. Fits(plr)
  <2>1. Ordinary(plr) = {}
    BY <1>6 DEF Ordinary
  <2>2. Cardinality(Ordinary(plr)) = 0
    BY <2>1, FS_EmptySet
  <2>3. Due(plr) = 0
    BY <1>2 DEF Due
  <2>4. QED BY <2>2, <2>3, TheNanos DEF Fits
<1>9. Fresh(plr)
  BY <1>6 DEF Fresh
<1>10. Powered(plr) /\ Levelled(plr)
  BY <1>2 DEF Powered, Levelled, NoNano
<1>11. Capped(plr)
  BY <1>2, <1>4, TheNanos DEF Capped
<1>12. Paid(plr)
  BY <1>2 DEF Paid, Data
<1>13. Counted(plr)
  <2>1. \A t \in Data : game[t].need # 0 =>
          /\ plr.items[game[t].item] = 0
          /\ game[t].need \in Nat /\ game[t].atStart \in Int /\ game[t].atStart <= game[t].need
    BY <1>1, <1>2, TheData, QuestItemsAreTaken DEF Data
  <2>2. QED BY <2>1 DEF Counted
<1>14. Stored(plr)
  <2>1. Prizes(plr) = {}
    <3>1. ASSUME NEW t \in Data PROVE {t} \X (1..plr.prizes[t]) = {}
      BY <1>2 DEF Data
    <3>2. QED BY <3>1 DEF Prizes, Data
  <2>2. Cardinality(Prizes(plr)) = 0
    BY <2>1, FS_EmptySet
  <2>3. plr.junk = 0
    BY <1>2
  <2>4. QED BY <1>3, <2>2, <2>3 DEF Stored, Room
<1>15. QED BY <1>1, <1>5, <1>7, <1>8, <1>9, <1>10, <1>11, <1>12, <1>13, <1>14 DEF IInv, Good, Sound

LEMMA NextIInv == IInv /\ [Next]_vars => IInv'
<1> SUFFICES ASSUME IInv, [Next]_vars PROVE IInv'
  OBVIOUS
<1>1. game \in Games /\ Good(plr)
  BY DEF IInv
<1>2. CASE UNCHANGED vars
  <2>1. Becomes(plr)
    BY <1>2 DEF Becomes, vars
  <2>2. QED BY <1>1, <2>1, Becoming
<1>3. CASE MissionsNext
  <2>1. ASSUME NEW mob \in Enemies, NEW fm \in 0..1, NEW junk \in 0..1,
               NEW lucky \in SUBSET {t \in DOMAIN game : game[t].need # 0},
               KillMob(mob, fm, junk, lucky)
        PROVE  IInv'
    BY <2>1, KillMobIs
  <2>2. ASSUME NEW leaves \in BOOLEAN, Warp(leaves) PROVE IInv'
    BY <2>2, WarpIs
  <2>3. ASSUME NEW reward \in 0..1, RaceEnd(reward) PROVE IInv'
    BY <2>3, RaceEndIs
  <2>4. ASSUME NEW t \in DOMAIN game, TaskStart(t) \/ TaskEnd(t) \/ TaskTimeout(t) \/ TaskStop(t)
        PROVE  IInv'
    BY <2>4, TaskStartIs, TaskEndIs DEF Data
  <2>5. CASE ThrowAway \/ ChangePlayerGuide \/ Relog
    BY <2>5, ThrowAwayIs, ChangePlayerGuideIs, RelogIs
  <2>6. CASE RaceStart \/ RaceGetPod \/ RaceCancel
    BY <2>6, RacesAre
  <2>7. QED BY <1>3, <2>1, <2>2, <2>3, <2>4, <2>5, <2>6 DEF MissionsNext
<1>4. CASE NanosNext
  <2>1. ASSUME NEW n \in Nanos, NEW skill \in Skills \ {"none"}, NEW price \in 0..1,
               NanoTune(n, skill, price)
        PROVE  IInv'
    BY <2>1, NanoTuneIs
  <2>2. ASSUME NEW s \in 1..NEquip, NEW n \in Nanos, NanoEquip(s, n) PROVE IInv'
    BY <2>2, NanoEquipIs
  <2>3. ASSUME NEW n \in Nanos, GiveNano(n) PROVE IInv'
    BY <2>3, GiveNanoIs
  <2>4. ASSUME NEW s \in 1..NEquip, NanoUnequip(s) PROVE IInv'
    BY <2>4, NanoUnequipIs
  <2>5. ASSUME NEW s \in 1..NEquip, NanoSummon(s) PROVE IInv'
    BY <2>5, NanoSummonIs
  <2>6. CASE NanoUnsummon
    BY <1>1, <2>6, UnsummonedGood, Becoming DEF NanoUnsummon
  <2>7. CASE NanoSkillUse \/ GooDamage \/ RevivePhoenix \/ \E n \in 1..MaxStamina : NanoPotion(n)
    BY <2>7, StaminaChanges
  <2>8. CASE Respawn \/ Step
    BY <2>8, RespawnIs, StepIs
  <2>9. QED BY <1>4, <2>1, <2>2, <2>3, <2>4, <2>5, <2>6, <2>7, <2>8 DEF NanosNext
<1>5. QED BY <1>2, <1>3, <1>4 DEF Next

LEMMA IInvHolds == Spec => []IInv
BY InitIInv, NextIInv, PTL DEF Spec

\* The state has its type; Fusion Matter keeps below its cap, stamina below
\* its maximum and the inventory within its room, whatever calls what in the
\* middle of its work.
THEOREM TypeIsInvariant == Spec => []TypeOK
<1>1. IInv => TypeOK
  BY DEF IInv, Good, Sound, Capped, Levelled, Stored, TypeOK
<1>2. QED BY IInvHolds, <1>1, PTL

\* The nano that is out has a skill, whoever it belongs to: addNano() sends
\* the one away that it gives, setNanoSkill() the one that it tunes.
THEOREM SummonedNanosArePowered == Spec => []SummonedNanoIsPowered
<1>1. IInv => SummonedNanoIsPowered
  BY DEF IInv, Good, Sound, Powered, SummonedNanoIsPowered
<1>2. QED BY IInvHolds, <1>1, PTL

\* A mission is paid for once, and when it is completed: endTask() gives the
\* reward while the task still runs, which starts no copy of it, and marks the
\* mission only at its last task.
THEOREM MissionsArePaidOnce == Spec => []MissionsArePaid
<1>1. IInv => MissionsArePaid
  BY DEF IInv, Good, Paid, Ends, Data, MissionsArePaid
<1>2. QED BY IInvHolds, <1>1, PTL

\* No task gets more of its quest item than it needs, so that isQuestItemFull()
\* never misses the number that ends it.
THEOREM QuestItemsNeverOvershoot == Spec => []ItemsNeverOvershoot
<1>1. IInv => ItemsNeverOvershoot
  <2>1. SUFFICES ASSUME IInv, NEW t \in DOMAIN game, Runs(plr, t) /\ game[t].need # 0
                 PROVE  plr.items[game[t].item] <= game[t].need
    BY DEF ItemsNeverOvershoot
  <2>2. QED BY <2>1 DEF IInv, Good, Counted, Data
<1>2. QED BY IInvHolds, <1>1, PTL

\* While no nano mission runs there is a place for one in the log: startTask()
\* moves what is in the first place to one of the six, never behind them.
NanoMissionHasPlace ==
  (\A i \in Log : plr.log[i] = Idle \/ game[plr.log[i].task].nano = 0) => Free(plr) # {}

THEOREM NanoMissionsHaveAPlace == Spec => []NanoMissionHasPlace
<1>1. IInv => NanoMissionHasPlace
  BY PlaceIsLeft DEF IInv, Good, Sound, NanoMissionHasPlace
<1>2. QED BY IInvHolds, <1>1, PTL
=============================================================================
