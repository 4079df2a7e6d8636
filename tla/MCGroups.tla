------------------------------ MODULE MCGroups ------------------------------
(* Five players, one more than a group holds, and as many Group objects as   *)
(* they can fill.                                                            *)
EXTENDS Groups
=============================================================================
