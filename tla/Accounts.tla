------------------------------- MODULE Accounts -------------------------------
(***************************************************************************)
(* Concurrent requests on the accounts: registration, login, requests with a  *)
(* token or, where the demo mode allows it, without one, the admin's patch,  *)
(* and the seed script. Each is one transaction under READ COMMITTED; the     *)
(* unique indexes on email and username make an INSERT wait for whoever has   *)
(* written the same key, and fail when it is committed.                       *)
(***************************************************************************)
EXTENDS AccountBook

CONSTANTS Requests,             \* a request is also the fresh uuid of the account it creates
          Offered,              \* the calls made: a subset of Calls
          DemoEmail, DemoName,
          NoCall,
          NoRow                 \* while a request has no row

Keep == "keep"                  \* a field the patch does not have
TokenOps == {"use", "patch"}
Calls == [op: {"register", "login", "demo", "seed"} \cup TokenOps,
          email: Emails, name: Names,
          user: Users, target: Users,            \* of the token, of the patch
          role: {Keep, "user", "admin", "other"},  \* asked for, or needed by "use"
          active: {Keep, "on", "off"}]

ASSUME CallsAssumption == /\ Offered \subseteq Calls
                          /\ NoCall \notin Calls
                          /\ NoRow \notin Account /\ NoRow # NoUser
                          /\ Requests \subseteq Users
                          /\ DemoEmail \in Emails /\ DemoName \in Names

VARIABLES
  call,    \* call[r]: the request
  pc,      \* pc[r]: where its handler is
  self,    \* self[r]: the row of the user it runs as, as read
  loaded,  \* loaded[r]: the row of the account it is to change, as read
  whom,    \* whom[r]: that account, or the one it creates
  pend,    \* pend[r]: the row it has written and not committed
  outcome, \* outcome[r]: the status of its response, once decided
  had      \* had[r]: the rows its token's user has had since it arrived (history)

vars == <<users, call, pc, self, loaded, whom, pend, outcome, had>>

Over == {"closed", "lost"}
PC == {"idle", "opened", "email_free", "new", "known", "found", "stored",
       "finish", "unwind"} \cup Over
Status == {"none", "ok", "conflict", "unauthorized", "forbidden", "not_found",
           "bad_request", "duplicate", "error", "gone"}

TypeOK == /\ users \in [Users -> Account \cup {NoUser}]
          /\ call \in [Requests -> Calls \cup {NoCall}]
          /\ pc \in [Requests -> PC]
          /\ self \in [Requests -> Account \cup {NoRow}]
          /\ loaded \in [Requests -> Account \cup {NoRow}]
          /\ whom \in [Requests -> Users]
          /\ pend \in [Requests -> Account \cup {NoRow}]
          /\ outcome \in [Requests -> Status]
          /\ had \in [Requests -> SUBSET (Account \cup {NoUser})]

Init == /\ BookInit
        /\ \A r \in Requests : users[r] = NoUser
        /\ call = [r \in Requests |-> NoCall]
        /\ pc = [r \in Requests |-> "idle"]
        /\ self = [r \in Requests |-> NoRow]
        /\ loaded = [r \in Requests |-> NoRow]
        /\ whom = [r \in Requests |-> r]
        /\ pend = [r \in Requests |-> NoRow]
        /\ outcome = [r \in Requests |-> "none"]
        /\ had = [r \in Requests |-> {}]

-----------------------------------------------------------------------------
(* Helpers.                                                                  *)

Goto(r, l) == pc' = [pc EXCEPT ![r] = l]
Decide(r, s) == outcome' = [outcome EXCEPT ![r] = s]
Fail(r, s) == Decide(r, s) /\ Goto(r, "unwind")
Is(r, op) == call[r] # NoCall /\ call[r].op = op
Token(r) == call[r] # NoCall /\ call[r].op \in TokenOps
Unread == UNCHANGED <<users, call, whom, had>>

\* get_by_email, get_by_username: what is committed.
Accts == {u \in Users : users[u] # NoUser}
WithEmail(e) == {u \in Accts : users[u].email = e}
WithName(n) == {u \in Accts : users[u].name = n}

Send(r) == /\ pc[r] = "idle"
           /\ \E c \in Offered :
                /\ call' = [call EXCEPT ![r] = c]
                /\ had' = [had EXCEPT ![r] = IF c.op \in TokenOps THEN {users[c.user]} ELSE {}]
           /\ Goto(r, "opened")
           /\ UNCHANGED <<users, self, loaded, whom, pend, outcome>>

-----------------------------------------------------------------------------
(* Who makes the request.                                                    *)

\* A slip of Admitted: inactive accounts pass.
AdmittedInactive(r, row) == IF Is(r, "patch") \/ call[r].role = "admin" THEN row.role = "admin"
                                                                        ELSE TRUE

\* get_current_active_user, and require_admin where the route needs it.
Admitted(r, row) == /\ row.active = "on"
                    /\ Is(r, "patch") \/ call[r].role = "admin" => row.role = "admin"

\* The token names an account (else 401); its row is read in this request.
Authenticate(r) ==
  /\ pc[r] = "opened" /\ Token(r)
  /\ LET row == users[call[r].user] IN
     IF row = NoUser THEN Fail(r, "unauthorized") /\ UNCHANGED self
     ELSE IF ~Admitted(r, row) THEN Fail(r, "forbidden") /\ UNCHANGED self
     ELSE /\ self' = [self EXCEPT ![r] = row]
          /\ Goto(r, "known")
          /\ UNCHANGED outcome
  /\ Unread /\ UNCHANGED <<loaded, pend>>

\* No account of that email, or a wrong password: 401.
Login(r) ==
  /\ pc[r] = "opened" /\ Is(r, "login")
  /\ \/ Fail(r, "unauthorized") /\ UNCHANGED self
     \/ \E u \in WithEmail(call[r].email) :
           IF users[u].active = "on" THEN /\ self' = [self EXCEPT ![r] = users[u]]
                                   /\ Goto(r, "known")
                                   /\ UNCHANGED outcome
                              ELSE Fail(r, "forbidden") /\ UNCHANGED self
  /\ Unread /\ UNCHANGED <<loaded, pend>>

\* get_request_user without a token, where the demo mode allows it: whoever has the
\* demo email, active or not, else a new account.
FindDemo(r) ==
  /\ pc[r] = "opened" /\ Is(r, "demo")
  /\ \/ \E u \in WithEmail(DemoEmail) : self' = [self EXCEPT ![r] = users[u]] /\ Goto(r, "known")
     \/ WithEmail(DemoEmail) = {} /\ Goto(r, "new") /\ UNCHANGED self
  /\ Unread /\ UNCHANGED <<loaded, pend, outcome>>

\* The route's own work, or the audit row and the token of a login.
Serve(r) == /\ pc[r] = "known" /\ ~Is(r, "patch")
            /\ Decide(r, "ok")
            /\ Goto(r, "finish")
            /\ Unread /\ UNCHANGED <<self, loaded, pend>>

-----------------------------------------------------------------------------
(* New accounts.                                                             *)

FindEmail(r) == /\ pc[r] = "opened" /\ Is(r, "register")
                /\ IF WithEmail(call[r].email) # {} THEN Fail(r, "conflict")
                   ELSE Goto(r, "email_free") /\ UNCHANGED outcome
                /\ Unread /\ UNCHANGED <<self, loaded, pend>>

FindName(r) == /\ pc[r] = "email_free"
               /\ IF WithName(call[r].name) # {} THEN Fail(r, "conflict")
                  ELSE Goto(r, "new") /\ UNCHANGED outcome
               /\ Unread /\ UNCHANGED <<self, loaded, pend>>

NewRow(r) == IF Is(r, "demo")
             THEN [email |-> DemoEmail, name |-> DemoName, role |-> "admin", active |-> "on"]
             ELSE [email |-> call[r].email, name |-> call[r].name,
                   role |-> IF Is(r, "seed") THEN "admin" ELSE "user", active |-> "on"]

\* A slip of Taken: the username is not unique.
TakenEmail(r) == WithEmail(NewRow(r).email) # {}

\* The unique indexes refuse the row.
Taken(r) == \E u \in Accts : Clash(users[u], NewRow(r))

\* Nobody has written, and not committed, the email or the username of the row.
KeysFree(r) == \A s \in Requests \ {r} : pend[s] # NoRow => ~Clash(pend[s], NewRow(r))

\* The flush of a new account. A refused row is an IntegrityError: no handler knows it.
Insert(r) == /\ pc[r] = "new"
             /\ KeysFree(r)
             /\ IF Taken(r) THEN Fail(r, "duplicate") /\ UNCHANGED <<self, pend>>
                ELSE /\ pend' = [pend EXCEPT ![r] = NewRow(r)]
                     /\ IF Is(r, "demo") THEN Goto(r, "known") /\ self' = [self EXCEPT ![r] = NewRow(r)]
                                         ELSE Goto(r, "stored") /\ UNCHANGED self
                     /\ UNCHANGED outcome
             /\ Unread /\ UNCHANGED loaded

-----------------------------------------------------------------------------
(* Changed accounts.                                                         *)

\* The account to patch; the session gives an object it already has as it was read.
FindTarget(r) ==
  /\ pc[r] = "known" /\ Is(r, "patch")
  /\ LET row == users[call[r].target] IN
     IF row = NoUser THEN Fail(r, "not_found") /\ UNCHANGED <<loaded, whom>>
     ELSE IF call[r].role = "other" THEN Fail(r, "bad_request") /\ UNCHANGED <<loaded, whom>>
     ELSE /\ loaded' = [loaded EXCEPT ![r] = IF call[r].target = call[r].user THEN self[r] ELSE row]
          /\ whom' = [whom EXCEPT ![r] = call[r].target]
          /\ Goto(r, "found")
          /\ UNCHANGED outcome
  /\ UNCHANGED <<users, call, self, pend, had>>

\* The seed script: the account of that email, else a new one.
FindSeed(r) ==
  /\ pc[r] = "opened" /\ Is(r, "seed")
  /\ \/ \E u \in WithEmail(call[r].email) : /\ loaded' = [loaded EXCEPT ![r] = users[u]]
                                            /\ whom' = [whom EXCEPT ![r] = u]
                                            /\ Goto(r, "found")
     \/ WithEmail(call[r].email) = {} /\ Goto(r, "new") /\ UNCHANGED <<loaded, whom>>
  /\ UNCHANGED <<users, call, self, pend, outcome, had>>

AskedRole(r) == IF Is(r, "seed") THEN "admin" ELSE call[r].role
AskedActive(r) == IF Is(r, "seed") THEN "on" ELSE call[r].active

\* A slip of Merged: the whole object is written back as it was read.
WrittenBack(r) ==
  [loaded[r] EXCEPT !.role = IF AskedRole(r) = Keep THEN @ ELSE AskedRole(r),
                    !.active = IF AskedActive(r) = Keep THEN @ ELSE AskedActive(r)]

\* The UPDATE has the columns whose value is not the one read.
Merged(r) ==
  [users[whom[r]] EXCEPT
     !.role = IF AskedRole(r) \in {Keep, loaded[r].role} THEN @ ELSE AskedRole(r),
     !.active = IF AskedActive(r) \in {Keep, loaded[r].active} THEN @ ELSE AskedActive(r)]

\* The flush of a changed account waits for whoever has written it.
Update(r) == /\ pc[r] = "found"
             /\ \A s \in Requests \ {r} : pend[s] # NoRow => whom[s] # whom[r]
             /\ pend' = [pend EXCEPT ![r] = Merged(r)]
             /\ Goto(r, "stored")
             /\ Unread /\ UNCHANGED <<self, loaded, outcome>>

-----------------------------------------------------------------------------
(* The end of the transaction.                                               *)

\* The audit row of a registration, the refreshed object of a patch; the response.
Respond(r) == /\ pc[r] = "stored"
              /\ Decide(r, "ok")
              /\ Goto(r, "finish")
              /\ Unread /\ UNCHANGED <<self, loaded, pend>>

Close(r) == /\ Goto(r, "closed")
            /\ pend' = [pend EXCEPT ![r] = NoRow]
            /\ UNCHANGED <<call, self, loaded, whom, outcome>>

Commit(r) == /\ pc[r] = "finish"
             /\ users' = IF pend[r] = NoRow THEN users ELSE [users EXCEPT ![whom[r]] = pend[r]]
             /\ had' = [s \in Requests |-> IF Token(s) /\ pc[s] \notin Over
                                           THEN had[s] \cup {users'[call[s].user]} ELSE had[s]]
             /\ Close(r)

\* A slip of Rollback: the transaction stays open.
LeaveOpen(r) == /\ pc[r] = "unwind"
                /\ Goto(r, "closed")
                /\ UNCHANGED <<users, call, self, loaded, whom, pend, outcome, had>>

\* The database refuses the commit, or an exception has unwound the handler.
Rollback(r) == /\ pc[r] \in {"finish", "unwind"}
               /\ Close(r)
               /\ UNCHANGED <<users, had>>

StatementFails(r) == /\ pc[r] \in {"opened", "email_free", "new", "known", "found", "stored"}
                     /\ Fail(r, "error")
                     /\ Unread /\ UNCHANGED <<self, loaded, pend>>

\* The process of some requests dies (the seed script has its own); the database
\* rolls their transactions back.
Crash == \E dead \in SUBSET {r \in Requests : pc[r] \notin {"idle"} \cup Over} :
           /\ dead # {}
           /\ pc' = [r \in Requests |-> IF r \in dead THEN "lost" ELSE pc[r]]
           /\ pend' = [r \in Requests |-> IF r \in dead THEN NoRow ELSE pend[r]]
           /\ outcome' = [r \in Requests |-> IF r \in dead /\ outcome[r] = "none"
                                             THEN "gone" ELSE outcome[r]]
           /\ Unread /\ UNCHANGED <<self, loaded>>

Handle(r) == \/ Authenticate(r) \/ Login(r) \/ FindDemo(r) \/ Serve(r)
             \/ FindEmail(r) \/ FindName(r) \/ Insert(r)
             \/ FindTarget(r) \/ FindSeed(r) \/ Update(r)
             \/ Respond(r) \/ Commit(r) \/ Rollback(r)

Next == \/ \E r \in Requests : Send(r) \/ Handle(r) \/ StatementFails(r)
        \/ Crash

Spec == Init /\ [][Next]_vars

\* The event loop resumes every handler whose awaited statement has returned.
Fairness == \A r \in Requests : WF_vars(Handle(r))
FairSpec == Spec /\ Fairness

-----------------------------------------------------------------------------
(* Properties.                                                               *)

\* A served request of a token ran as the account was at some moment since the
\* request arrived: active, and an admin where the route needs one.
ActsAsItIs == \A r \in Requests : (Token(r) /\ outcome[r] = "ok") =>
                 /\ self[r] \in had[r] /\ self[r].active = "on"
                 /\ Is(r, "patch") \/ call[r].role = "admin" => self[r].role = "admin"

\* A commit changes the role or the active flag of an account only to what the
\* committing request asked for: racing patches never write back what they read.
ChangesOnlyAsked ==
  [][\A u \in Users : (users[u] # NoUser /\ users'[u] # users[u]) =>
        \E r \in Requests : /\ pc[r] = "finish" /\ pc'[r] = "closed" /\ whom[r] = u
                            /\ users'[u].role \in {users[u].role, AskedRole(r)}
                            /\ users'[u].active \in {users[u].active, AskedActive(r)}]_vars

\* Insertions wait for keys and updates for rows, and yet every request ends.
EveryCallEnds == \A r \in Requests : pc[r] = "opened" ~> pc[r] \in Over
=============================================================================
