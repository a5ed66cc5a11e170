----------------------------- MODULE AccountBook -----------------------------
(***************************************************************************)
(* What the users table promises: accounts appear one at a time, each with   *)
(* an email and a username no other has, and keep both for good; an admin's   *)
(* patch or the seed script changes role and active, nothing else.           *)
(***************************************************************************)
CONSTANTS Users,   \* account identities (uuid4)
          Emails, Names,
          NoUser   \* users[u] while there is no committed account u

VARIABLE users     \* users[u]: the committed row of u

Account == [email: Emails, name: Names, role: {"user", "admin"}, active: {"on", "off"}]

ASSUME NoUserAssumption == NoUser \notin Account

Clash(a, b) == a.email = b.email \/ a.name = b.name
Unique(book) == \A u, v \in Users : (u # v /\ book[u] # NoUser /\ book[v] # NoUser)
                                      => ~Clash(book[u], book[v])

BookInit == users \in [Users -> Account \cup {NoUser}] /\ Unique(users)

Enter(u) == /\ users[u] = NoUser
            /\ \E row \in Account : /\ Unique([users EXCEPT ![u] = row])
                                    /\ users' = [users EXCEPT ![u] = row]

Change(u) == /\ users[u] # NoUser
             /\ \E role \in {"user", "admin"}, active \in {"on", "off"} :
                   users' = [users EXCEPT ![u].role = role, ![u].active = active]

BookNext == \E u \in Users : Enter(u) \/ Change(u)

BookSpec == BookInit /\ [][BookNext]_users
=============================================================================
