---------------------------- MODULE AccountsProofs ----------------------------
(***************************************************************************)
(* Theorems of Accounts. The inductive invariant IInv says that the rows      *)
(* written and not committed are of different accounts, clash neither with    *)
(* each other nor with a committed row, and are the committed row with only   *)
(* what was asked for changed.                                               *)
(***************************************************************************)
EXTENDS Accounts, TLAPS

\* A request has a call once it has arrived; the account it would create is not there yet.
Started(r) == /\ IF pc[r] = "idle" THEN call[r] = NoCall ELSE call[r] \in Calls
              /\ pc[r] = "idle" => self[r] = NoRow /\ outcome[r] = "none"
              /\ pc[r] \in {"email_free", "new"} => Is(r, "register") \/ Is(r, "demo") \/ Is(r, "seed")
              /\ pc[r] \in {"idle", "opened", "email_free", "new"} => whom[r] = r /\ pend[r] = NoRow
              /\ pc[r] = "known" /\ ~Is(r, "demo") => pend[r] = NoRow
              /\ pc[r] # "closed" => users[r] = NoUser
              /\ pc[r] \in Over => pend[r] = NoRow
              /\ whom[r] = r \/ users[whom[r]] # NoUser

\* The account a request is about to change was read and is still there.
Reached(r) == pc[r] = "found" => /\ users[whom[r]] # NoUser /\ loaded[r] \in Account
                                 /\ Is(r, "patch") \/ Is(r, "seed")
                                 /\ pend[r] = NoRow /\ AskedRole(r) # "other"

\* What a request asks for, of the row it has written.
Entering(r) == /\ whom[r] = r /\ users[r] = NoUser
               /\ \A u \in Users : users[u] # NoUser => ~Clash(users[u], pend[r])
Changing(r) == /\ users[whom[r]] # NoUser
               /\ pend[r].email = users[whom[r]].email /\ pend[r].name = users[whom[r]].name
               /\ pend[r].role \in {users[whom[r]].role, AskedRole(r)}
               /\ pend[r].active \in {users[whom[r]].active, AskedActive(r)}
Pending(r) == pend[r] # NoRow => Entering(r) \/ Changing(r)

\* A request of a token runs as its account was read.
Acting(r) == Token(r) =>
  /\ pc[r] \notin Over => users[call[r].user] \in had[r]
  /\ pc[r] \in {"known", "found", "stored", "finish"} \/ outcome[r] = "ok" => self[r] # NoRow
  /\ self[r] # NoRow => /\ self[r] \in had[r] /\ self[r].active = "on"
                        /\ Is(r, "patch") \/ call[r].role = "admin" => self[r].role = "admin"

RInv(r) == Started(r) /\ Reached(r) /\ Pending(r) /\ Acting(r)

\* No two requests have written one account, or rows with a key in common.
Apart == \A r, s \in Requests : r # s /\ pend[r] # NoRow /\ pend[s] # NoRow
                                  => whom[r] # whom[s] /\ ~Clash(pend[r], pend[s])

IInv == TypeOK /\ Unique(users) /\ Apart /\ \A r \in Requests : RInv(r)

-----------------------------------------------------------------------------
(* Helpers.                                                                  *)

LEMMA CallFields ==
  ASSUME NEW c \in Calls
  PROVE  /\ c.op \in {"register", "login", "demo", "seed", "use", "patch"}
         /\ c.email \in Emails /\ c.name \in Names /\ c.user \in Users /\ c.target \in Users
         /\ c.role \in {"keep", "user", "admin", "other"} /\ c.active \in {"keep", "on", "off"}
BY DEF Calls, TokenOps, Keep

\* The row of a new account is an account.
LEMMA NewRowType == ASSUME NEW r \in Requests, call[r] \in Calls PROVE NewRow(r) \in Account
BY CallFields, CallsAssumption DEF NewRow, Account

\* A merged row differs from the committed one at most in what was asked for.
LEMMA MergedRow ==
  ASSUME NEW r \in Requests, call[r] \in Calls, users[whom[r]] \in Account, AskedRole(r) # "other"
  PROVE  /\ Merged(r) \in Account
         /\ Merged(r).email = users[whom[r]].email /\ Merged(r).name = users[whom[r]].name
         /\ Merged(r).role \in {users[whom[r]].role, AskedRole(r)}
         /\ Merged(r).active \in {users[whom[r]].active, AskedActive(r)}
<1> DEFINE row == users[whom[r]]
           ro == IF AskedRole(r) \in {Keep, loaded[r].role} THEN row.role ELSE AskedRole(r)
           ac == IF AskedActive(r) \in {Keep, loaded[r].active} THEN row.active ELSE AskedActive(r)
<1>1. ro \in {"user", "admin"} /\ ac \in {"on", "off"}
  BY CallFields DEF AskedRole, AskedActive, Account, Keep
<1>2. Merged(r) = [row EXCEPT !.role = ro, !.active = ac]
  BY DEF Merged
<1> HIDE DEF ro, ac
<1>3. /\ Merged(r) \in Account /\ Merged(r).email = row.email /\ Merged(r).name = row.name
      /\ Merged(r).role = ro /\ Merged(r).active = ac
  BY <1>1, <1>2 DEF Account
<1> QED
  BY <1>3 DEF ro, ac

-----------------------------------------------------------------------------
(* Steps that only read.                                                     *)

Reads(r) == \/ Authenticate(r) \/ Login(r) \/ FindDemo(r) \/ Serve(r)
            \/ FindEmail(r) \/ FindName(r) \/ FindTarget(r) \/ FindSeed(r)
            \/ Respond(r) \/ StatementFails(r)

\* Nothing of another request changes, but for what a commit adds to its history.
Same(s) == /\ call'[s] = call[s] /\ pc'[s] = pc[s] /\ self'[s] = self[s]
           /\ loaded'[s] = loaded[s] /\ whom'[s] = whom[s]
           /\ pend'[s] = pend[s] /\ outcome'[s] = outcome[s]

LEMMA ReadsType == ASSUME IInv, NEW r \in Requests, Reads(r) PROVE TypeOK'
<1>1. pc[r] # "idle" => call[r] \in Calls
  BY DEF IInv, RInv, Started
<1>2. CASE Authenticate(r)
  <2>1. call[r].user \in Users
    BY <1>1, <1>2, CallFields DEF Authenticate
  <2> QED
    BY <1>2, <2>1 DEF Authenticate, Fail, Decide, Goto, Unread, IInv, TypeOK, PC, Status
<1>3. CASE Login(r) \/ FindDemo(r)
  BY <1>3 DEF Login, FindDemo, WithEmail, Accts, Fail, Decide, Goto, Unread, IInv, TypeOK, PC, Status
<1>4. CASE Serve(r) \/ FindEmail(r) \/ FindName(r) \/ Respond(r) \/ StatementFails(r)
  BY <1>4 DEF Serve, FindEmail, FindName, Respond, StatementFails, Fail, Decide, Goto, Unread,
     IInv, TypeOK, PC, Status
<1>5. CASE FindTarget(r)
  <2>1. call[r].target \in Users /\ Token(r) /\ self[r] # NoRow
    BY <1>1, <1>5, CallFields DEF FindTarget, Is, Token, TokenOps, IInv, RInv, Acting
  <2> QED
    BY <1>5, <2>1 DEF FindTarget, Fail, Decide, Goto, IInv, TypeOK, PC, Status
<1>6. CASE FindSeed(r)
  BY <1>6 DEF FindSeed, WithEmail, Accts, Goto, IInv, TypeOK, PC
<1> QED
  BY <1>2, <1>3, <1>4, <1>5, <1>6 DEF Reads

LEMMA ReadsFrame ==
  ASSUME IInv, NEW r \in Requests, Reads(r)
  PROVE  /\ users' = users /\ call' = call /\ pend' = pend /\ had' = had
         /\ \A s \in Requests \ {r} : Same(s)
<1>1. CASE Authenticate(r) \/ Login(r) \/ FindDemo(r) \/ Serve(r) \/ FindEmail(r)
  BY <1>1 DEF Authenticate, Login, FindDemo, Serve, FindEmail, Fail, Decide, Goto, Unread, Same,
     IInv, TypeOK
<1>2. CASE FindName(r) \/ FindTarget(r) \/ FindSeed(r) \/ Respond(r) \/ StatementFails(r)
  BY <1>2 DEF FindName, FindTarget, FindSeed, Respond, StatementFails, Fail, Decide, Goto, Unread,
     Same, IInv, TypeOK
<1> QED
  BY <1>1, <1>2 DEF Reads

LEMMA ReadsOwn == ASSUME IInv, NEW r \in Requests, Reads(r) PROVE RInv(r)'
<1> USE DEF RInv, Started, Reached, Pending, Entering, Changing, Acting, AskedRole, AskedActive,
            Is, Token, TokenOps, Over
<1>0. RInv(r) /\ TypeOK
  BY DEF IInv
<1>1. CASE Authenticate(r)
  <2> DEFINE row == users[call[r].user]
  <2>1. /\ pc[r] = "opened" /\ call' = call /\ users' = users /\ had' = had /\ whom' = whom
        /\ pend' = pend /\ loaded' = loaded
    BY <1>1 DEF Authenticate, Unread
  <2>2. \/ pc'[r] = "unwind" /\ outcome'[r] # "ok" /\ self' = self
        \/ pc'[r] = "known" /\ outcome' = outcome /\ self'[r] = row /\ row # NoUser
           /\ Admitted(r, row)
    BY <1>0, <1>1 DEF Authenticate, Fail, Decide, Goto, TypeOK
  <2>3. row \in had[r] /\ (row # NoUser => row # NoRow)
    BY <1>0, <1>1, <2>1, CallFields, CallsAssumption DEF Authenticate, TypeOK
  <2> QED
    BY <1>0, <2>1, <2>2, <2>3 DEF Admitted
<1>2. CASE Login(r)
  BY <1>0, <1>2 DEF Login, Fail, Decide, Goto, Unread, TypeOK
<1>3. CASE FindDemo(r)
  BY <1>0, <1>3 DEF FindDemo, Decide, Goto, Unread, TypeOK
<1>4. CASE Serve(r) \/ Respond(r) \/ FindEmail(r) \/ FindName(r) \/ StatementFails(r)
  BY <1>0, <1>4 DEF Serve, Respond, FindEmail, FindName, StatementFails, Fail, Decide, Goto,
     Unread, TypeOK
<1>5. CASE FindTarget(r)
  <2>1. /\ pc[r] = "known" /\ Is(r, "patch") /\ call[r] \in Calls /\ self[r] # NoRow
        /\ call' = call /\ users' = users /\ had' = had /\ self' = self /\ pend' = pend
    BY <1>0, <1>5 DEF FindTarget
  <2>2. call[r].target \in Users /\ self[r] \in Account
    BY <1>0, <2>1, CallFields DEF TypeOK
  <2>3. \/ pc'[r] = "unwind" /\ outcome'[r] # "ok" /\ whom' = whom
        \/ /\ pc'[r] = "found" /\ outcome' = outcome /\ call[r].role # "other"
           /\ whom'[r] = call[r].target /\ users[call[r].target] # NoUser
           /\ loaded'[r] \in {self[r], users[call[r].target]}
    BY <1>0, <1>5, <2>2 DEF FindTarget, Fail, Decide, Goto, TypeOK
  <2>4. pend[r] = NoRow
    BY <1>0, <2>1
  <2> QED
    BY <1>0, <2>1, <2>2, <2>3, <2>4 DEF TypeOK
<1>6. CASE FindSeed(r)
  BY <1>0, <1>6, CallFields DEF FindSeed, WithEmail, Accts, Goto, TypeOK
<1> QED
  BY <1>1, <1>2, <1>3, <1>4, <1>5, <1>6 DEF Reads

\* What was written stays apart.
LEMMA ReadsApart == ASSUME IInv, NEW r \in Requests, Reads(r) PROVE Apart'
<1>1. pend' = pend /\ \A s \in Requests \ {r} : whom'[s] = whom[s]
  BY ReadsFrame DEF Same
<1>2. whom'[r] = whom[r] \/ pend[r] = NoRow
  BY DEF Reads, Authenticate, Login, FindDemo, Serve, FindEmail, FindName, FindTarget, FindSeed,
     Respond, StatementFails, Unread, IInv, RInv, Started, Is
<1> QED
  BY <1>1, <1>2 DEF IInv, Apart, Clash

-----------------------------------------------------------------------------
(* Steps that write, or end the transaction.                                 *)

\* A request to which nothing happens keeps its invariant while the table rests.
LEMMA Still ==
  ASSUME NEW s \in Requests, RInv(s), Same(s), users' = users, had'[s] = had[s]
  PROVE  RInv(s)'
BY DEF RInv, Started, Reached, Pending, Entering, Changing, Acting, AskedRole, AskedActive, Is,
   Token, Same

LEMMA SendStep ==
  ASSUME IInv, NEW r \in Requests, Send(r)
  PROVE  /\ TypeOK' /\ users' = users /\ pend' = pend /\ RInv(r)'
         /\ \A s \in Requests \ {r} : Same(s) /\ had'[s] = had[s]
<1>1. PICK c \in Offered : /\ call' = [call EXCEPT ![r] = c]
                           /\ had' = [had EXCEPT ![r] = IF c.op \in TokenOps THEN {users[c.user]} ELSE {}]
  BY DEF Send
<1>2. /\ pc[r] = "idle" /\ pc' = [pc EXCEPT ![r] = "opened"]
      /\ users' = users /\ self' = self /\ loaded' = loaded /\ whom' = whom /\ pend' = pend
      /\ outcome' = outcome
  BY DEF Send, Goto
<1>3. c \in Calls /\ c # NoCall /\ c.user \in Users
  BY CallFields, CallsAssumption
<1>4. TypeOK'
  BY <1>1, <1>2, <1>3 DEF IInv, TypeOK, PC
<1>5. RInv(r) /\ call[r] = NoCall
  BY <1>2 DEF IInv, RInv, Started
<1>6. self[r] = NoRow /\ outcome[r] # "ok"
  BY <1>2 DEF IInv, RInv, Started
<1>7. RInv(r)'
  BY <1>1, <1>2, <1>3, <1>5, <1>6
     DEF IInv, TypeOK, RInv, Started, Reached, Pending, Acting, Token, Is, Over
<1>8. \A s \in Requests \ {r} : Same(s) /\ had'[s] = had[s]
  BY <1>1, <1>2 DEF Same, IInv, TypeOK
<1> QED
  BY <1>2, <1>4, <1>7, <1>8

\* What an insertion and an update have in common.
Flush(r) == Insert(r) \/ Update(r)

LEMMA FlushFrame ==
  ASSUME IInv, NEW r \in Requests, Flush(r)
  PROVE  /\ users' = users /\ had' = had /\ call' = call /\ whom' = whom /\ loaded' = loaded
         /\ \A s \in Requests \ {r} : Same(s)
         /\ pc[r] \in {"new", "found"} /\ pend[r] = NoRow /\ call[r] \in Calls
BY DEF Flush, Insert, Update, Fail, Decide, Goto, Unread, Same, IInv, TypeOK, RInv, Started, Reached

LEMMA InsertStep ==
  ASSUME IInv, NEW r \in Requests, Insert(r)
  PROVE  TypeOK' /\ RInv(r)' /\ Apart'
<1>1. NewRow(r) \in Account /\ NewRow(r) # NoRow /\ pc[r] = "new" /\ RInv(r)
  BY FlushFrame, NewRowType, CallsAssumption DEF Flush, Insert, IInv
<1>2. whom[r] = r /\ users[r] = NoUser /\ pend[r] = NoRow
  BY <1>1 DEF RInv, Started
<1>3. \/ pc'[r] = "unwind" /\ outcome'[r] = "duplicate" /\ self' = self /\ pend' = pend
      \/ /\ ~Taken(r) /\ KeysFree(r) /\ pend' = [pend EXCEPT ![r] = NewRow(r)] /\ outcome' = outcome
         /\ \/ Is(r, "demo") /\ pc'[r] = "known" /\ self'[r] = NewRow(r)
            \/ ~Is(r, "demo") /\ pc'[r] = "stored" /\ self' = self
  BY DEF Insert, Fail, Decide, Goto, IInv, TypeOK
<1>4. TypeOK'
  BY <1>1, FlushFrame DEF Flush, Insert, Fail, Decide, Goto, IInv, TypeOK, PC, Status
<1>5. ~Token(r)
  BY <1>1 DEF RInv, Started, Token, TokenOps, Is
<1>6. RInv(r)'
  <2>1. CASE pend' = pend
    BY <1>1, <1>2, <1>3, <1>5, <2>1, FlushFrame
       DEF Flush, RInv, Started, Reached, Pending, Acting, Token, Is, Over
  <2>2. CASE ~Taken(r) /\ pend' = [pend EXCEPT ![r] = NewRow(r)]
    <3>1. pend'[r] = NewRow(r)
      BY <2>2 DEF IInv, TypeOK
    <3>2. \A u \in Users : users[u] # NoUser => ~Clash(users[u], pend'[r])
      BY <2>2, <3>1 DEF Taken, Accts
    <3>3. Entering(r)'
      BY <1>2, <3>2, FlushFrame DEF Flush, Entering, Clash
    <3> QED
      BY <1>1, <1>2, <1>3, <1>5, <3>1, <3>3, FlushFrame
         DEF Flush, RInv, Started, Reached, Pending, Acting, Token, Is, Over
  <2> QED
    BY <1>3, <2>1, <2>2
<1>7. Apart'
  <2>1. CASE pend' = pend
    BY <2>1, FlushFrame DEF Flush, Apart, IInv, Clash
  <2>2. CASE KeysFree(r) /\ pend' = [pend EXCEPT ![r] = NewRow(r)]
    <3>1. pend'[r] = NewRow(r) /\ \A s \in Requests \ {r} : pend'[s] = pend[s]
      BY <2>2 DEF IInv, TypeOK
    <3>2. whom' = whom
      BY FlushFrame DEF Flush
    <3>3. \A s \in Requests \ {r} : pend[s] # NoRow => ~Clash(pend[s], NewRow(r)) /\ ~Clash(NewRow(r), pend[s])
      BY <2>2 DEF KeysFree, Clash
    <3>4. \A s \in Requests \ {r} : whom[s] # whom[r]
      BY <1>2 DEF IInv, RInv, Started
    <3> QED
      BY <3>1, <3>2, <3>3, <3>4 DEF Apart, IInv, Clash
  <2> QED
    BY <1>3, <2>1, <2>2
<1> QED
  BY <1>4, <1>6, <1>7

LEMMA UpdateStep ==
  ASSUME IInv, NEW r \in Requests, Update(r)
  PROVE  TypeOK' /\ RInv(r)' /\ Apart'
<1>1. /\ pc[r] = "found" /\ RInv(r) /\ call[r] \in Calls /\ whom[r] \in Users
      /\ users[whom[r]] \in Account /\ users[whom[r]] # NoUser /\ AskedRole(r) # "other"
  BY NoUserAssumption DEF Update, IInv, RInv, Started, Reached, TypeOK
<1>2. /\ Merged(r) \in Account /\ Merged(r) # NoRow
      /\ Merged(r).email = users[whom[r]].email /\ Merged(r).name = users[whom[r]].name
      /\ Merged(r).role \in {users[whom[r]].role, AskedRole(r)}
      /\ Merged(r).active \in {users[whom[r]].active, AskedActive(r)}
  BY <1>1, MergedRow, CallsAssumption
<1>3. /\ pend' = [pend EXCEPT ![r] = Merged(r)] /\ pend'[r] = Merged(r) /\ pc'[r] = "stored"
      /\ self' = self /\ outcome' = outcome
  BY DEF Update, Goto, IInv, TypeOK
<1>4. TypeOK'
  BY <1>2, FlushFrame DEF Flush, Update, Goto, IInv, TypeOK, PC
<1>5. users' = users /\ call' = call /\ whom' = whom /\ had' = had /\ loaded' = loaded
  BY FlushFrame DEF Flush
<1>6. Changing(r)'
  BY <1>1, <1>2, <1>3, <1>5 DEF Changing, AskedRole, AskedActive, Is
<1>7. RInv(r)'
  BY <1>1, <1>3, <1>5, <1>6 DEF RInv, Started, Reached, Pending, Acting, Token, Is, Over
<1>8. Apart'
  <2>1. ASSUME NEW s \in Requests \ {r}, pend[s] # NoRow
        PROVE  whom[s] # whom[r] /\ ~Clash(pend[s], Merged(r)) /\ ~Clash(Merged(r), pend[s])
    <3>1. whom[s] # whom[r] /\ RInv(s) /\ whom[s] \in Users
      BY <2>1 DEF Update, IInv, TypeOK
    <3>2. CASE Entering(s)
      BY <1>1, <1>2, <3>1, <3>2 DEF Entering, Clash
    <3>3. CASE Changing(s)
      BY <1>1, <1>2, <3>1, <3>3 DEF Changing, Clash, IInv, Unique
    <3> QED
      BY <2>1, <3>1, <3>2, <3>3 DEF RInv, Pending
  <2>2. \A s \in Requests \ {r} : pend'[s] = pend[s]
    BY <1>3 DEF IInv, TypeOK
  <2> QED
    BY <1>3, <1>5, <2>1, <2>2 DEF Apart, IInv, Clash
<1> QED
  BY <1>4, <1>7, <1>8

LEMMA RollbackStep ==
  ASSUME IInv, NEW r \in Requests, Rollback(r)
  PROVE  /\ TypeOK' /\ users' = users /\ had' = had /\ RInv(r)' /\ Apart'
         /\ \A s \in Requests \ {r} : Same(s)
<1>1. /\ users' = users /\ had' = had /\ call' = call /\ self' = self /\ loaded' = loaded
      /\ whom' = whom /\ outcome' = outcome /\ pc[r] # "idle" /\ pc[r] \notin Over
      /\ pc' = [pc EXCEPT ![r] = "closed"] /\ pend' = [pend EXCEPT ![r] = NoRow]
  BY DEF Rollback, Close, Goto, Over
<1>2. TypeOK'
  BY <1>1 DEF IInv, TypeOK, PC, Over
<1>3. RInv(r)'
  BY <1>1 DEF IInv, TypeOK, RInv, Started, Reached, Pending, Acting, Token, Is, Over
<1>4. Apart'
  BY <1>1 DEF IInv, TypeOK, Apart, Clash
<1>5. \A s \in Requests \ {r} : Same(s)
  BY <1>1 DEF Same, IInv, TypeOK
<1> QED
  BY <1>1, <1>2, <1>3, <1>4, <1>5

\* What a commit leaves in the table.
LEMMA CommitRow ==
  ASSUME IInv, NEW r \in Requests, Commit(r), pend[r] # NoRow
  PROVE  /\ pend[r] \in Account /\ pend[r] # NoUser /\ whom[r] \in Users
         /\ users'[whom[r]] = pend[r] /\ users' = [users EXCEPT ![whom[r]] = pend[r]]
         /\ \A u \in Users \ {whom[r]} : users'[u] = users[u]
         /\ \A u \in Users \ {whom[r]} : users[u] # NoUser =>
               ~Clash(users[u], pend[r]) /\ ~Clash(pend[r], users[u])
<1>1. /\ pend[r] \in Account /\ pend[r] # NoUser /\ whom[r] \in Users
      /\ users' = [users EXCEPT ![whom[r]] = pend[r]]
  BY NoUserAssumption DEF Commit, IInv, TypeOK
<1>2. users'[whom[r]] = pend[r] /\ \A u \in Users \ {whom[r]} : users'[u] = users[u]
  BY <1>1 DEF IInv, TypeOK
<1>3. CASE Entering(r)
  BY <1>1, <1>2, <1>3 DEF Entering, Clash
<1>4. CASE Changing(r)
  BY <1>1, <1>2, <1>4 DEF Changing, Clash, IInv, Unique
<1> QED
  BY <1>1, <1>2, <1>3, <1>4 DEF IInv, RInv, Pending

LEMMA CommitStep ==
  ASSUME IInv, NEW r \in Requests, Commit(r)
  PROVE  IInv'
<1>1. /\ call' = call /\ self' = self /\ loaded' = loaded
      /\ whom' = whom /\ outcome' = outcome /\ pc[r] = "finish"
      /\ pc' = [pc EXCEPT ![r] = "closed"] /\ pend' = [pend EXCEPT ![r] = NoRow]
      /\ had' = [s \in Requests |-> IF Token(s) /\ pc[s] \notin Over
                                    THEN had[s] \cup {users'[call[s].user]} ELSE had[s]]
  BY DEF Commit, Close, Goto
<1>2. users' \in [Users -> Account \cup {NoUser}]
  BY CommitRow DEF Commit, IInv, TypeOK
<1>3. \A s \in Requests : Token(s) => call[s].user \in Users
  BY CallFields DEF IInv, RInv, Started, Token, TypeOK
<1>4. TypeOK'
  BY <1>1, <1>2, <1>3 DEF IInv, TypeOK, PC, Over
<1>5. Unique(users')
  <2>1. CASE pend[r] = NoRow
    BY <2>1 DEF Commit, IInv
  <2>2. CASE pend[r] # NoRow
    BY <2>2, CommitRow DEF IInv, Unique, Clash
  <2> QED
    BY <2>1, <2>2
<1>6. Apart'
  BY <1>1 DEF IInv, TypeOK, Apart, Clash
<1>7. \A u \in Users : users[u] # NoUser => users'[u] # NoUser
  BY CommitRow DEF Commit
<1>8. ASSUME NEW s \in Requests PROVE Acting(s)'
  <2>1. Acting(s) /\ s \in Users
    BY CallsAssumption DEF IInv, RInv
  <2>2. /\ pc'[s] \in {pc[s], "closed"} /\ (s # r => pc'[s] = pc[s]) /\ had[s] \subseteq had'[s]
        /\ Token(s) /\ pc[s] \notin Over => users'[call[s].user] \in had'[s]
    BY <1>1 DEF IInv, TypeOK
  <2> QED
    BY <1>1, <2>1, <2>2 DEF Acting, Token, Is, Over
<1>9. RInv(r)'
  <2>1. whom[r] \in Users /\ (whom[r] = r \/ users[whom[r]] # NoUser) /\ call[r] \in Calls
    BY <1>1 DEF IInv, RInv, Started, TypeOK
  <2>2. pc'[r] = "closed" /\ pend'[r] = NoRow
    BY <1>1 DEF IInv, TypeOK
  <2> QED
    BY <1>1, <1>7, <1>8, <2>1, <2>2 DEF RInv, Started, Reached, Pending, Over
<1>10. ASSUME NEW s \in Requests \ {r} PROVE RInv(s)'
  <2>1. Same(s) /\ RInv(s) /\ s \in Users /\ whom[s] \in Users
    BY <1>1, CallsAssumption DEF Same, IInv, TypeOK
  <2>2. pc[s] # "closed" => users'[s] = NoUser
    <3>1. CASE pend[r] = NoRow
      BY <2>1, <3>1 DEF Commit, RInv, Started
    <3>2. CASE pend[r] # NoRow
      BY <2>1, <3>2, CommitRow DEF IInv, RInv, Started
    <3> QED
      BY <3>1, <3>2
  <2>3. Started(s)' /\ Reached(s)'
    BY <1>7, <2>1, <2>2 DEF RInv, Started, Reached, AskedRole, Is, Same
  <2>4. Pending(s)'
    <3>1. SUFFICES ASSUME pend[s] # NoRow, pend[r] # NoRow PROVE Pending(s)'
      BY <2>1 DEF Commit, RInv, Pending, Entering, Changing, AskedRole, AskedActive, Is, Same
    <3>2. whom[r] # whom[s] /\ ~Clash(pend[r], pend[s])
      BY <3>1 DEF IInv, Apart
    <3>3. CASE Entering(s)
      BY <2>1, <3>1, <3>2, <3>3, CommitRow DEF Entering, Pending, Same, Clash
    <3>4. CASE Changing(s)
      BY <2>1, <3>1, <3>2, <3>4, CommitRow DEF Changing, Pending, AskedRole, AskedActive, Is, Same
    <3> QED
      BY <2>1, <3>1, <3>3, <3>4 DEF RInv, Pending
  <2> QED
    BY <1>8, <2>3, <2>4 DEF RInv
<1> QED
  BY <1>4, <1>5, <1>6, <1>9, <1>10 DEF IInv

LEMMA CrashStep == IInv /\ Crash => IInv'
<1> SUFFICES ASSUME IInv, Crash PROVE IInv'
  OBVIOUS
<1>1. /\ users' = users /\ call' = call /\ whom' = whom /\ had' = had
      /\ self' = self /\ loaded' = loaded
  BY DEF Crash, Unread
<1>2. PICK dead \in SUBSET {r \in Requests : pc[r] \notin {"idle"} \cup Over} :
           /\ pc' = [r \in Requests |-> IF r \in dead THEN "lost" ELSE pc[r]]
           /\ pend' = [r \in Requests |-> IF r \in dead THEN NoRow ELSE pend[r]]
           /\ outcome' = [r \in Requests |-> IF r \in dead /\ outcome[r] = "none"
                                             THEN "gone" ELSE outcome[r]]
  BY DEF Crash
<1>3. TypeOK'
  BY <1>1, <1>2 DEF IInv, TypeOK, PC, Over, Status
<1>4. Unique(users') /\ Apart'
  BY <1>1, <1>2 DEF IInv, Unique, Apart, Clash
<1>5. ASSUME NEW r \in Requests PROVE RInv(r)'
  BY <1>1, <1>2 DEF IInv, RInv, Started, Reached, Pending, Entering, Changing, Acting, AskedRole,
     AskedActive, Is, Token, Over
<1> QED
  BY <1>3, <1>4, <1>5 DEF IInv

-----------------------------------------------------------------------------
(* The inductive invariant.                                                  *)

LEMMA InitInv == Init => IInv
<1> SUFFICES ASSUME Init PROVE IInv
  OBVIOUS
<1>1. TypeOK
  BY CallsAssumption DEF Init, BookInit, TypeOK, PC, Status
<1>2. Unique(users) /\ Apart
  BY DEF Init, BookInit, Apart
<1>3. ASSUME NEW r \in Requests PROVE RInv(r)
  BY DEF Init, RInv, Started, Reached, Pending, Acting, Token, Over
<1> QED
  BY <1>1, <1>2, <1>3 DEF IInv

LEMMA StepInv == IInv /\ [Next]_vars => IInv'
<1> SUFFICES ASSUME IInv, [Next]_vars PROVE IInv'
  OBVIOUS
<1>1. CASE UNCHANGED vars
  BY <1>1 DEF vars, IInv, TypeOK, Unique, Apart, RInv, Started, Reached, Pending, Entering, Changing,
     Acting, AskedRole, AskedActive, Is, Token, Clash
<1>2. ASSUME NEW r \in Requests, Send(r) PROVE IInv'
  <2>1. Unique(users') /\ Apart'
    BY <1>2, SendStep DEF Send, IInv, Apart, Unique, Clash
  <2>2. ASSUME NEW s \in Requests \ {r} PROVE RInv(s)'
    BY <1>2, SendStep, Still DEF IInv
  <2> QED
    BY <1>2, <2>1, <2>2, SendStep DEF IInv
<1>3. ASSUME NEW r \in Requests, Reads(r) PROVE IInv'
  <2>1. Unique(users')
    BY <1>3, ReadsFrame DEF IInv
  <2>2. ASSUME NEW s \in Requests \ {r} PROVE RInv(s)'
    BY <1>3, ReadsFrame, Still DEF IInv
  <2>3. Apart'
    BY <1>3, ReadsApart
  <2> QED
    BY <1>3, <2>1, <2>2, <2>3, ReadsType, ReadsOwn DEF IInv
<1>4. ASSUME NEW r \in Requests, Flush(r) PROVE IInv'
  <2>1. ASSUME NEW s \in Requests \ {r} PROVE RInv(s)'
    BY <1>4, FlushFrame, Still DEF IInv
  <2>2. Unique(users')
    BY <1>4, FlushFrame DEF IInv
  <2> QED
    BY <1>4, <2>1, <2>2, InsertStep, UpdateStep DEF Flush, IInv
<1>5. ASSUME NEW r \in Requests, Rollback(r) PROVE IInv'
  <2>1. ASSUME NEW s \in Requests \ {r} PROVE RInv(s)'
    BY <1>5, RollbackStep, Still DEF IInv
  <2> QED
    BY <1>5, <2>1, RollbackStep DEF IInv
<1> QED
  BY <1>1, <1>2, <1>3, <1>4, <1>5, CommitStep, CrashStep DEF Next, Handle, Reads, Flush

LEMMA Inductive == Spec => []IInv
BY InitInv, StepInv, PTL DEF Spec

-----------------------------------------------------------------------------
(* Theorems.                                                                 *)

\* The variables keep their types.
THEOREM TypeCorrect == Spec => []TypeOK
<1>1. IInv => TypeOK
  BY DEF IInv
<1> QED
  BY <1>1, Inductive, PTL

\* A request of a token runs as its account was while it was being handled, and
\* only where that account was admitted.
THEOREM TokensActAsTheyAre == Spec => []ActsAsItIs
<1>1. IInv => ActsAsItIs
  BY DEF IInv, RInv, Acting, ActsAsItIs
<1> QED
  BY <1>1, Inductive, PTL

\* Only a commit writes to the table.
LEMMA OnlyCommitWrites ==
  ASSUME IInv, [Next]_vars, users' # users
  PROVE  \E r \in Requests : Commit(r) /\ pend[r] # NoRow
<1>1. ~(UNCHANGED vars) /\ ~Crash
  BY DEF vars, Crash, Unread
<1>2. PICK r \in Requests : Send(r) \/ Handle(r) \/ StatementFails(r)
  BY <1>1 DEF Next
<1>3. Commit(r)
  BY <1>2, SendStep, ReadsFrame, FlushFrame, RollbackStep DEF Handle, Reads, Flush
<1> QED
  BY <1>3 DEF Commit

\* Racing patches merge: each commit changes only the fields its request asked for.
THEOREM OnlyAskedChanges == Spec => ChangesOnlyAsked
<1>1. IInv /\ [Next]_vars =>
        [\A u \in Users : (users[u] # NoUser /\ users'[u] # users[u]) =>
            \E r \in Requests : /\ pc[r] = "finish" /\ pc'[r] = "closed" /\ whom[r] = u
                                /\ users'[u].role \in {users[u].role, AskedRole(r)}
                                /\ users'[u].active \in {users[u].active, AskedActive(r)}]_vars
  <2> SUFFICES ASSUME IInv, [Next]_vars, NEW u \in Users, users[u] # NoUser, users'[u] # users[u]
      PROVE  \E r \in Requests : /\ pc[r] = "finish" /\ pc'[r] = "closed" /\ whom[r] = u
                                 /\ users'[u].role \in {users[u].role, AskedRole(r)}
                                 /\ users'[u].active \in {users[u].active, AskedActive(r)}
    OBVIOUS
  <2>1. PICK r \in Requests : Commit(r) /\ pend[r] # NoRow
    BY OnlyCommitWrites
  <2>2. whom[r] = u /\ users'[u] = pend[r]
    BY <2>1, CommitRow
  <2>3. Changing(r)
    BY <2>1, <2>2 DEF IInv, RInv, Pending, Entering
  <2>4. pc[r] = "finish" /\ pc'[r] = "closed"
    BY <2>1 DEF Commit, Close, Goto, IInv, TypeOK
  <2> QED
    BY <2>2, <2>3, <2>4 DEF Changing
<1> QED
  BY <1>1, Inductive, PTL DEF Spec, ChangesOnlyAsked

\* Every commit enters one account or changes the role and the flag of one.
LEMMA StepRefines == IInv /\ [Next]_vars => [BookNext]_users
<1> SUFFICES ASSUME IInv, [Next]_vars, users' # users PROVE BookNext
  OBVIOUS
<1>1. PICK r \in Requests : Commit(r) /\ pend[r] # NoRow
  BY OnlyCommitWrites
<1> DEFINE u == whom[r]
<1>2. /\ pend[r] \in Account /\ u \in Users /\ users' = [users EXCEPT ![u] = pend[r]]
  BY <1>1, CommitRow
<1>3. CASE Entering(r)
  <2>1. Unique(users')
    BY <1>1, CommitStep DEF IInv
  <2> QED
    BY <1>2, <1>3, <2>1 DEF BookNext, Enter, Entering
<1>4. CASE Changing(r)
  <2>1. users[u] # NoUser /\ users[u] \in Account
    BY <1>2, <1>4 DEF Changing, IInv, TypeOK
  <2>2. pend[r] = [users[u] EXCEPT !.role = pend[r].role, !.active = pend[r].active]
    BY <1>2, <1>4, <2>1 DEF Changing, Account
  <2>3. pend[r].role \in {"user", "admin"} /\ pend[r].active \in {"on", "off"}
    BY <1>2 DEF Account
  <2>4. users' = [users EXCEPT ![u].role = pend[r].role, ![u].active = pend[r].active]
    BY <1>2, <2>1, <2>2 DEF IInv, TypeOK
  <2> QED
    BY <1>2, <2>1, <2>3, <2>4 DEF BookNext, Change
<1> QED
  BY <1>1, <1>3, <1>4 DEF IInv, RInv, Pending

\* Whatever races, fails or crashes, accounts appear one at a time with an email and
\* a username of their own, and keep them.
THEOREM BookRefined == Spec => BookSpec
<1>1. Init => BookInit
  BY DEF Init
<1> QED
  BY <1>1, StepRefines, Inductive, PTL DEF Spec, BookSpec
=============================================================================
