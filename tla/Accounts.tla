------------------------------ MODULE Accounts ------------------------------
(***************************************************************************)
(* Accounts and tokens (AuthService, UserRepository, middleware.Auth).  A  *)
(* user stands for an email address as it is stored; passwords, hashes and *)
(* signatures are right or wrong and nothing else.  What is refused leaves *)
(* no trace, so only what is accepted is stated.                           *)
(***************************************************************************)
CONSTANTS
  Users,
  NoUser

ASSUME NoUserAssumption == NoUser \notin Users

VARIABLE
  accounts   \* the users table

\* A token says who its owner is, and is live for 24 hours.
NoToken == [sub |-> NoUser, live |-> FALSE]

Tokens == [sub : Users, live : BOOLEAN] \cup {NoToken}

\* The table after the migration.
AccountsInit == accounts = {}

\* UserRepository.Create; email is unique.
Create(u) ==
  /\ u \notin accounts
  /\ accounts' = accounts \cup {u}

\* UserRepository.FindByEmail, for the address as it is stored.
FindByEmail(u) == u \in accounts

\* AuthService.Token.
Token(u) == [sub |-> u, live |-> TRUE]

\* AuthService.Register accepts u and answers with token t.
Register(u, t) == Create(u) /\ t = Token(u)

\* AuthService.Login accepts u and answers with token t.
Login(u, t) == FindByEmail(u) /\ t = Token(u) /\ UNCHANGED accounts

\* AuthHandler.Register or AuthHandler.Login answers u with token t.
AuthRequest(u, t) == Register(u, t) \/ Login(u, t)

\* AuthService.Parse succeeds.
Parse(t) == t.live /\ t.sub # NoUser

\* middleware.Auth lets a request pass that has token t; api sends no header
\* for an empty token.
Authorised(t) == t # NoToken /\ Parse(t)

\* The same token after its 24 hours.
Expired(t) == [t EXCEPT !.live = FALSE]
=============================================================================
