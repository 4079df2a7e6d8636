----------------------------- MODULE LoginServer -----------------------------
(***************************************************************************)
(* The state of the login server (CNLoginServer.cpp) that Sessions.tla,    *)
(* which says who is logged in, and Access.tla, which says with which      *)
(* rights, both speak of.                                                  *)
(***************************************************************************)
CONSTANTS
  Accounts,   \* Accounts.AccountID
  LoginSocks, \* sockets of the login server
  NoAccount   \* account 0

VARIABLES
  session, \* CNLoginServer::loginSessions, NoAccount where there is none
  banned   \* accounts whose BannedUntil is to come
=============================================================================
