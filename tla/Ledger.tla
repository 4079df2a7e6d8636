------------------------------- MODULE Ledger -------------------------------
(***************************************************************************)
(* What the server promises about the wealth of its players: whatever they *)
(* buy, sell, post and collect, no value comes into being but what the     *)
(* game pays out, neither in the running server nor in what a crash leaves *)
(* of it.  Possessions implements this.                                    *)
(***************************************************************************)
EXTENDS Naturals

CONSTANTS Players

VARIABLES
  live,   \* the wealth of a player in memory, 0 while offline
  safe,   \* its wealth in the database
  post,   \* the value of the mail that waits for it, in the database
  earned  \* what the game has paid out

vars == <<live, safe, post, earned>>

\* A player gains what the game pays, as far as its purse holds it.
Earn(p, n, all) ==
  /\ n >= 0 /\ all <= live[p] + n
  /\ live' = [live EXCEPT ![p] = all]
  /\ earned' = earned + n
  /\ UNCHANGED <<safe, post>>

\* Wealth is spent, thrown away and expires.
Lose ==
  /\ UNCHANGED <<earned, post, safe>>
  /\ \A p \in Players : live'[p] <= live[p]

\* A login finds at most what was saved.
Login(p, n) ==
  /\ live[p] = 0 /\ n <= safe[p]
  /\ live' = [live EXCEPT ![p] = n]
  /\ UNCHANGED <<safe, post, earned>>

\* While p stays or when it leaves.
Save(p, rest) ==
  /\ rest \in {0, live[p]}
  /\ safe' = [safe EXCEPT ![p] = live[p]]
  /\ live' = [live EXCEPT ![p] = rest]
  /\ UNCHANGED <<post, earned>>

\* What p parts with reaches the mail of q in the step that saves p.
Send(p, q, rest, n) ==
  /\ rest + n <= live[p]
  /\ live' = [live EXCEPT ![p] = rest]
  /\ safe' = [safe EXCEPT ![p] = rest]
  /\ post' = [post EXCEPT ![q] = @ + n]
  /\ UNCHANGED earned

\* Mail is collected or thrown away; some of it may be lost.
Collect(p, n, left) ==
  /\ left + n <= post[p] + live[p]
  /\ left <= post[p]
  /\ post' = [post EXCEPT ![p] = left]
  /\ live' = [live EXCEPT ![p] = n]
  /\ UNCHANGED <<safe, earned>>

\* A character is deleted.
Delete(p) ==
  /\ live[p] = 0
  /\ safe' = [safe EXCEPT ![p] = 0]
  /\ post' = [post EXCEPT ![p] = 0]
  /\ UNCHANGED <<live, earned>>

Crash ==
  /\ live' = [p \in Players |-> 0]
  /\ UNCHANGED <<safe, post, earned>>

Init ==
  /\ live = [p \in Players |-> 0]
  /\ safe = live /\ post = live
  /\ earned = 0

\* The numbers a step may turn up: those of the next state, which has the
\* quantifiers range over finite sets.
Next ==
  \/ Lose
  \/ \E p \in Players : Earn(p, earned' - earned, live'[p])
  \/ \E p \in Players : Login(p, live'[p])
  \/ \E p \in Players : Save(p, live'[p])
  \/ \E p, q \in Players : Send(p, q, live'[p], post'[q] - post[q])
  \/ \E p \in Players : Collect(p, live'[p], post'[p])
  \/ \E p \in Players : Delete(p)
  \/ Crash

Spec == Init /\ [][Next]_vars
=============================================================================
