----------------------------- MODULE MCSessions -----------------------------
(* One account with two characters, which two clients want to play.        *)
EXTENDS Sessions

MCAccountOf == [c \in Chars |-> CHOOSE a \in Accounts : TRUE]
=============================================================================
