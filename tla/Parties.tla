------------------------------- MODULE Parties -------------------------------
(***************************************************************************)
(* What the group system promises, without the objects that implement it:  *)
(* players gather in disjoint parties of two to four, the first of whom is *)
(* the leader.  A party grows at its end, shrinks by one, and is dissolved *)
(* when its leader goes or when one member alone would be left.            *)
(***************************************************************************)
EXTENDS Naturals, Sequences, SequencesExt

CONSTANTS Players

MaxSize == 4 \* joinGroup: size + 1 > 4 fails

VARIABLE parties \* the set of the parties, each the sequence of its members

Free(p) == \A P \in parties : p \notin ToSet(P)

Init == parties = {}

Form(p, q) ==
  /\ p # q /\ Free(p) /\ Free(q)
  /\ parties' = parties \cup {<<p, q>>}

Extend(P, q) ==
  /\ Len(P) < MaxSize /\ Free(q)
  /\ parties' = (parties \ {P}) \cup {Append(P, q)}

Shrink(P, k) ==
  /\ Len(P) > 2 /\ k > 1
  /\ parties' = (parties \ {P}) \cup {RemoveAt(P, k)}

Dissolve(P) == parties' = parties \ {P}

Next ==
  \/ \E p, q \in Players : Form(p, q)
  \/ \E P \in parties : \/ \E q \in Players : Extend(P, q)
                        \/ \E k \in DOMAIN P : Shrink(P, k)
                        \/ Dissolve(P)

Spec == Init /\ [][Next]_parties
=============================================================================
