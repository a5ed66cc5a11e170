------------------------------ MODULE MCAccounts ------------------------------
(* Accounts for TLC: two requests and at most one account at the start, so the *)
(* requests meet no account, a user, an admin, an inactive one, or the demo    *)
(* user's email or username taken by someone else.                            *)
EXTENDS Accounts

CONSTANTS ada, r1, r2, mail, demo_mail, nick, demo_user

MCUsers == {ada, r1, r2}
MCEmails == {mail, demo_mail}
MCNames == {nick, demo_user}

Base == [op |-> "use", email |-> mail, name |-> nick, user |-> ada, target |-> ada,
         role |-> "user", active |-> Keep]

MCOffered ==
  {[Base EXCEPT !.op = "register", !.email = e, !.name = n] : e \in MCEmails, n \in MCNames}
  \cup {[Base EXCEPT !.op = o] : o \in {"demo", "login", "seed"}}
  \cup {[Base EXCEPT !.role = need] : need \in {"user", "admin"}}
  \cup {[Base EXCEPT !.op = "patch", !.role = ro, !.active = a] :
          ro \in {Keep, "user", "admin"}, a \in {Keep, "off"}}
  \cup {[Base EXCEPT !.op = "patch", !.target = r1, !.role = ro] : ro \in {"admin", "other"}}
=============================================================================
