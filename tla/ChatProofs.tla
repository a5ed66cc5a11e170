----------------------------- MODULE ChatProofs ------------------------------
(***************************************************************************)
(* Proofs about both sides of a chat. About ChatTurn, for every set of       *)
(* requests and every step bound: the type invariant, the safety invariants  *)
(* of the runs, and that it implements the abstract history of TurnStore.    *)
(* About ChatClient, whose server ChatTurn details, for every set of         *)
(* sessions and every bound: its type invariant and what its screen shows.   *)
(* The two are apart: neither reads the other's state.                       *)
(***************************************************************************)
EXTENDS ChatTurn, ChatClient, FiniteSetTheorems, TLAPS

-----------------------------------------------------------------------------
(* The inductive invariant: what stands in the transaction of a request at   *)
(* each point of its handler, and what may be committed.                     *)

Returned(r) == {n \in 1..Len(trail[r]) : trail[r][n] = "tool"}

\* The rows of a turn at its three stages.
Asked(r) == {Question} \cup {ToolAudit(n) : n \in Returned(r)}
Ran(r)   == Asked(r) \cup RunAudit(call[r].mode)
Done(r)  == Ran(r) \cup {Answer}

\* The run of an accepted request took the steps its mode allows.
TrailOK(r) ==
  /\ Accepted(r)
  /\ Len(trail[r]) <= MaxSteps
  /\ call[r].mode # "plan_execute" => Len(trail[r]) <= 1
  /\ \A n \in 1..Len(trail[r]) :
        /\ call[r].mode = "rag" => trail[r][n] \in {"rag", "ragRaised"}
        /\ call[r].mode = "tool" => trail[r][n] \in {"tool", "toolRaised"}

\* No step of the run raised an exception that its mode does not swallow.
Clean(r) == \A n \in 1..Len(trail[r]) :
               trail[r][n] \in {"toolRaised", "ragRaised"}
                  => Swallows(call[r].mode, trail[r][n])

\* The run was carried to its end.
Complete(r) == Clean(r) /\ (call[r].mode # "plan_execute" => Len(trail[r]) = 1)

\* Rows that r has left or may still commit.
Leaving(r, S) ==
  /\ TrailOK(r)
  /\ \/ S = Done(r) /\ Complete(r) /\ client[r] \in {"ok", "gone"}
     \/ S \in {Asked(r), Ran(r)} /\ call[r].stream /\ client[r] \in {"error", "gone"}

\* The caller of a handler at work: a stream is cancelled when its caller goes.
Attached(r) == client[r] \in {"waiting", IF call[r].stream THEN "partial" ELSE "gone"}

Stage(r) ==
  /\ pc[r] = "idle" => /\ call[r] = NoCall /\ pend[r] = {} /\ trail[r] = <<>>
                       /\ client[r] = "none"
  /\ pc[r] # "idle" => call[r] \in Calls
  /\ pc[r] # "closed" => db[r] = {}
  /\ pc[r] = "opened" => pend[r] = {} /\ trail[r] = <<>> /\ Attached(r)
  /\ pc[r] = "running" => pend[r] = Asked(r) /\ TrailOK(r) /\ Clean(r) /\ Attached(r)
  /\ pc[r] = "answered" => pend[r] = Ran(r) /\ TrailOK(r) /\ Complete(r) /\ Attached(r)
  /\ pc[r] = "saved" => pend[r] = Done(r) /\ TrailOK(r) /\ Complete(r) /\ Attached(r)
  /\ pc[r] = "finish" => /\ pend[r] = {} \/ Leaving(r, pend[r])
                         /\ client[r] \in {"ok", "error", "gone"}
                         /\ client[r] = "error" => call[r].stream
  /\ pc[r] = "unwind" => IF call[r].stream THEN client[r] = "broken"
                                           ELSE client[r] \in {"waiting", "gone"}
  /\ pc[r] = "closed" => /\ pend[r] = {}
                         /\ db[r] = {} \/ Leaving(r, db[r])
                         /\ client[r] \in {"ok", "error", "broken", "gone"}

IInv == TypeOK /\ \A r \in Requests : Stage(r)

-----------------------------------------------------------------------------
(* Rows.                                                                     *)

\* The rows of a turn are rows, and no two of its kinds coincide: what the
\* history shows of a request can be read back row by row.
LEMMA RowFacts ==
  /\ Question \in Row /\ Answer \in Row /\ Question # Answer
  /\ \A m \in Modes : /\ RunAudit(m) \subseteq Row
                      /\ Question \notin RunAudit(m) /\ Answer \notin RunAudit(m)
  /\ \A n \in 1..MaxSteps : ToolAudit(n) \in Row
  /\ \A n \in Nat : /\ ToolAudit(n) # Question /\ ToolAudit(n) # Answer
                    /\ \A m \in Modes : ToolAudit(n) \notin RunAudit(m)
  /\ \A n, k \in Nat : ToolAudit(n) = ToolAudit(k) => n = k
<1>1. /\ Question \in Row /\ Answer \in Row /\ Question # Answer
  BY DEF Row, Question, Answer, Plain
<1>2. ASSUME NEW m \in Modes
      PROVE  /\ RunAudit(m) \subseteq Row
             /\ Question \notin RunAudit(m) /\ Answer \notin RunAudit(m)
             /\ \A n \in Nat : ToolAudit(n) \notin RunAudit(m)
  <2>1. RunAudit(m) \subseteq Row
    BY DEF Row
  <2>2. RunAudit(m) \in {{}, {Plain("rag.query")}, {Plain("react.run")},
                         {Plain("plan_execute.run")}}
    BY DEF RunAudit, RunKind, Modes
  <2>3. QED
    BY <2>1, <2>2 DEF Question, Answer, Plain, ToolAudit
<1>3. \A n \in 1..MaxSteps : ToolAudit(n) \in Row
  BY DEF Row, ToolAudits
<1>4. \A n \in Nat : ToolAudit(n) # Question /\ ToolAudit(n) # Answer
  BY DEF ToolAudit, Question, Answer, Plain
<1>5. \A n, k \in Nat : ToolAudit(n) = ToolAudit(k) => n = k
  BY DEF ToolAudit
<1>6. QED
  BY <1>1, <1>2, <1>3, <1>4, <1>5

-----------------------------------------------------------------------------
(* Types.                                                                    *)

LEMMA InitTypeOK == Init => TypeOK
BY DEF Init, StoreInit, TypeOK, PC, StepOutcome, ClientView

\* A run that may take one more step has fewer than MaxSteps behind it.
LEMMA NextStepInBounds ==
  ASSUME TypeOK, NEW r \in Requests, StepAllowed(r)
  PROVE  Len(trail[r]) \in Nat /\ Len(trail[r]) + 1 \in 1..MaxSteps
<1>1. trail[r] \in Seq(StepOutcome)
  BY DEF TypeOK
<1>2. Len(trail[r]) \in Nat
  BY <1>1
<1>3. CASE trail[r] = <<>>
  BY <1>2, <1>3, StoreAssumption
<1>4. CASE Len(trail[r]) < MaxSteps
  BY <1>2, <1>4, StoreAssumption
<1>5. QED
  BY <1>3, <1>4 DEF StepAllowed

\* Every step keeps the variables in their types.
LEMMA NextTypeOK == TypeOK /\ [Next]_vars => TypeOK'
<1> SUFFICES ASSUME TypeOK, [Next]_vars
             PROVE  TypeOK'
  OBVIOUS
<1> USE DEF TypeOK, PC, ClientView
<1>1. CASE UNCHANGED vars
  BY <1>1 DEF vars
<1>2. ASSUME NEW r \in Requests, Send(r)
      PROVE  TypeOK'
  BY <1>2, OfferedAssumption DEF Send, Goto, Tell
<1>3. ASSUME NEW r \in Requests, Reject(r)
      PROVE  TypeOK'
  BY <1>3 DEF Reject, Raise, Goto, Tell
<1>4. ASSUME NEW r \in Requests, SaveQuestion(r)
      PROVE  TypeOK'
  BY <1>4, RowFacts DEF SaveQuestion, Flush, Goto
<1>5. ASSUME NEW r \in Requests, ToolReturns(r)
      PROVE  TypeOK'
  <2>1. ToolAudit(Len(trail[r]) + 1) \in Row
    BY <1>5, NextStepInBounds, RowFacts DEF ToolReturns
  <2>2. Append(trail[r], "tool") \in Seq(StepOutcome)
    BY DEF StepOutcome
  <2>3. QED
    BY <1>5, <2>1, <2>2 DEF ToolReturns, Flush, Goto
<1>6. ASSUME NEW r \in Requests, RagReturns(r)
      PROVE  TypeOK'
  <2>1. Append(trail[r], "rag") \in Seq(StepOutcome)
    BY DEF StepOutcome
  <2>2. QED
    BY <1>6, <2>1 DEF RagReturns
<1>7. ASSUME NEW r \in Requests, StepRaises(r)
      PROVE  TypeOK'
  <2>1. PICK step \in {"toolRaised", "ragRaised"}, p \in BOOLEAN :
          /\ trail' = [trail EXCEPT ![r] = Append(@, step)]
          /\ Poison(r, p)
          /\ IF Swallows(call[r].mode, step) THEN UNCHANGED <<pc, client>> ELSE Raise(r)
    BY <1>7 DEF StepRaises
  <2>2. Append(trail[r], step) \in Seq(StepOutcome)
    BY DEF StepOutcome
  <2>3. pc' \in [Requests -> PC] /\ client' \in [Requests -> ClientView]
    BY <2>1 DEF Raise, Goto, Tell
  <2>4. poisoned' \in [Requests -> BOOLEAN]
    BY <2>1 DEF Poison
  <2>5. QED
    BY <1>7, <2>1, <2>2, <2>3, <2>4 DEF StepRaises
<1>8. ASSUME NEW r \in Requests, FinishRun(r)
      PROVE  TypeOK'
  <2>1. RunAudit(call[r].mode) \subseteq Row
    BY RowFacts DEF RunAudit, RunKind, Modes
  <2>2. QED
    BY <1>8, <2>1 DEF FinishRun, Flush, Goto
<1>9. ASSUME NEW r \in Requests, EmitResult(r)
      PROVE  TypeOK'
  BY <1>9 DEF EmitResult, Tell
<1>10. ASSUME NEW r \in Requests, SaveAnswer(r)
       PROVE  TypeOK'
  BY <1>10, RowFacts DEF SaveAnswer, Flush, Goto
<1>11. ASSUME NEW r \in Requests, FlushFails(r)
       PROVE  TypeOK'
  BY <1>11 DEF FlushFails, Raise, Goto, Tell, Poison
<1>12. ASSUME NEW r \in Requests, Respond(r)
       PROVE  TypeOK'
  BY <1>12 DEF Respond, Goto, Tell
<1>13. ASSUME NEW r \in Requests, Commit(r) \/ CommitFails(r)
       PROVE  TypeOK'
  BY <1>13 DEF Commit, CommitFails, Close, Goto
<1>14. ASSUME NEW r \in Requests, Rollback(r)
       PROVE  TypeOK'
  BY <1>14 DEF Rollback, Close, Goto, Tell
<1>15. ASSUME NEW r \in Requests, ClientLeaves(r)
       PROVE  TypeOK'
  BY <1>15 DEF ClientLeaves, Goto, Tell, Poison
<1>16. CASE Crash
  BY <1>16 DEF Crash
<1>17. QED
  BY <1>1, <1>2, <1>3, <1>4, <1>5, <1>6, <1>7, <1>8, <1>9, <1>10, <1>11, <1>12, <1>13,
     <1>14, <1>15, <1>16 DEF Next, Handle

\* The state of every request keeps its type.
THEOREM TypeCorrect == Spec => []TypeOK
<1>1. Init => TypeOK
  BY InitTypeOK
<1>2. TypeOK /\ [Next]_vars => TypeOK'
  BY NextTypeOK
<1>3. QED
  BY <1>1, <1>2, PTL DEF Spec

-----------------------------------------------------------------------------
(* The inductive step.                                                       *)

\* The stage of a request depends on nothing but the request itself.
LEMMA Frame ==
  ASSUME NEW q \in Requests, Stage(q),
         call'[q] = call[q], db'[q] = db[q], pc'[q] = pc[q], trail'[q] = trail[q],
         pend'[q] = pend[q], client'[q] = client[q]
  PROVE  Stage(q)'
<1>1. Returned(q)' = Returned(q)
  BY DEF Returned
<1>2. Asked(q)' = Asked(q) /\ Ran(q)' = Ran(q) /\ Done(q)' = Done(q)
  BY <1>1 DEF Asked, Ran, Done
<1>3. TrailOK(q)' = TrailOK(q) /\ Clean(q)' = Clean(q)
  BY DEF TrailOK, Clean, Accepted
<1>4. Complete(q)' = Complete(q) /\ Attached(q)' = Attached(q)
  BY <1>3 DEF Complete, Attached
<1>5. ASSUME NEW S PROVE Leaving(q, S)' = Leaving(q, S)
  BY <1>2, <1>3, <1>4 DEF Leaving
<1>6. QED
  BY <1>2, <1>3, <1>4, <1>5 DEF Stage

\* A step that touches no variable but those of r leaves the other requests' stages.
LEMMA Others ==
  ASSUME TypeOK, NEW r \in Requests, NEW q \in Requests, q # r, Stage(q),
         Send(r) \/ Handle(r) \/ ClientLeaves(r)
  PROVE  Stage(q)'
<1>1. CASE Send(r)
  BY <1>1, Frame DEF Send, Goto, Tell, TypeOK
<1>2. CASE Reject(r) \/ SaveQuestion(r)
  BY <1>2, Frame DEF Reject, SaveQuestion, Raise, Flush, Goto, Tell, TypeOK
<1>3. CASE ToolReturns(r) \/ RagReturns(r)
  BY <1>3, Frame DEF ToolReturns, RagReturns, Flush, Goto, Tell, TypeOK
<1>4. CASE StepRaises(r)
  BY <1>4, Frame DEF StepRaises, Raise, Goto, Tell, TypeOK
<1>5. CASE FinishRun(r) \/ EmitResult(r) \/ SaveAnswer(r)
  BY <1>5, Frame DEF FinishRun, EmitResult, SaveAnswer, Flush, Goto, Tell, TypeOK
<1>6. CASE FlushFails(r)
  BY <1>6, Frame DEF FlushFails, Raise, Goto, Tell, TypeOK
<1>7. CASE Respond(r) \/ Commit(r) \/ CommitFails(r) \/ Rollback(r)
  BY <1>7, Frame DEF Respond, Commit, CommitFails, Rollback, Close, Goto, Tell, TypeOK
<1>8. CASE ClientLeaves(r)
  BY <1>8, Frame DEF ClientLeaves, Goto, Tell, TypeOK
<1>9. QED
  BY <1>1, <1>2, <1>3, <1>4, <1>5, <1>6, <1>7, <1>8 DEF Handle

\* What a step of the run adds to the rows of the turn: a returned tool call its
\* audit row, every other outcome nothing.
LEMMA AskedAfterStep ==
  ASSUME TypeOK, NEW r \in Requests, NEW o \in StepOutcome,
         trail' = [trail EXCEPT ![r] = Append(@, o)]
  PROVE  Asked(r)' = IF o = "tool" THEN Asked(r) \cup {ToolAudit(Len(trail[r]) + 1)}
                                   ELSE Asked(r)
<1> DEFINE k == Len(trail[r])
<1>1. trail[r] \in Seq(StepOutcome) /\ k \in Nat
  BY DEF TypeOK
<1>2. trail'[r] = Append(trail[r], o)
  BY DEF TypeOK
<1>3. /\ Len(trail'[r]) = k + 1
      /\ trail'[r][k + 1] = o
      /\ \A n \in 1..k : trail'[r][n] = trail[r][n]
  BY <1>1, <1>2
<1>4. Returned(r)' = IF o = "tool" THEN Returned(r) \cup {k + 1} ELSE Returned(r)
  <2>1. Returned(r)' = {n \in 1..(k + 1) : trail'[r][n] = "tool"}
    BY <1>3 DEF Returned
  <2>2. 1..(k + 1) = (1..k) \cup {k + 1}
    BY <1>1
  <2>3. QED
    BY <2>1, <2>2, <1>3 DEF Returned
<1>5. QED
  BY <1>4 DEF Asked

\* A step the mode allows leaves a trail the mode allows.
LEMMA TrailAfterStep ==
  ASSUME TypeOK, NEW r \in Requests, TrailOK(r), StepAllowed(r), NEW o \in StepOutcome,
         trail' = [trail EXCEPT ![r] = Append(@, o)], call' = call,
         call[r].mode = "rag" => o \in {"rag", "ragRaised"},
         call[r].mode = "tool" => o \in {"tool", "toolRaised"}
  PROVE  /\ TrailOK(r)'
         /\ Clean(r) /\ (o \in {"toolRaised", "ragRaised"} => Swallows(call[r].mode, o))
              => Clean(r)'
<1> DEFINE k == Len(trail[r])
<1>1. trail[r] \in Seq(StepOutcome) /\ k \in Nat
  BY DEF TypeOK
<1>2. trail'[r] = Append(trail[r], o)
  BY DEF TypeOK
<1>3. /\ Len(trail'[r]) = k + 1
      /\ trail'[r][k + 1] = o
      /\ \A n \in 1..k : trail'[r][n] = trail[r][n]
      /\ \A n \in 1..(k + 1) : n \in 1..k \/ n = k + 1
  BY <1>1, <1>2
<1>4. k + 1 <= MaxSteps
  BY NextStepInBounds, StoreAssumption
<1>5. call[r].mode # "plan_execute" => k + 1 <= 1
  BY <1>1 DEF StepAllowed
<1>6. TrailOK(r)'
  BY <1>3, <1>4, <1>5 DEF TrailOK, Accepted
<1>7. QED
  BY <1>3, <1>6 DEF Clean

\* A failing step either raises out of the run or stays inside an agent's result.
LEMMA StageAfterRaise ==
  ASSUME TypeOK, NEW r \in Requests, TrailOK(r)', pend'[r] = Asked(r)', call' = call,
         db'[r] = {}, pc[r] \in {"opened", "running"}, call[r] \in Calls, Attached(r), Raise(r)
  PROVE  Stage(r)'
<1>1. CASE call[r].stream
  <2>1. pc'[r] = "finish" /\ client'[r] = "error"
    BY <1>1 DEF Raise, Goto, Tell, TypeOK
  <2>2. Leaving(r, pend[r])'
    BY <1>1, <2>1 DEF Leaving
  <2>3. QED
    BY <1>1, <2>1, <2>2 DEF Stage
<1>2. CASE ~call[r].stream
  <2>1. pc'[r] = "unwind" /\ client'[r] = client[r]
    BY <1>2 DEF Raise, Goto, Tell, TypeOK
  <2>2. client[r] \in {"waiting", "gone"}
    BY <1>2 DEF Attached
  <2>3. QED
    BY <1>2, <2>1, <2>2 DEF Stage
<1>3. QED
  BY <1>1, <1>2

\* The step of a handler keeps the stage of its own request.
LEMMA Own ==
  ASSUME IInv, TypeOK', NEW r \in Requests, Send(r) \/ Handle(r) \/ ClientLeaves(r)
  PROVE  Stage(r)'
<1> USE DEF IInv
<1>0. TypeOK /\ Stage(r)
  OBVIOUS
<1>1. CASE Send(r)
  BY <1>0, <1>1, OfferedAssumption DEF Send, Goto, Tell, TypeOK, Stage, Attached
<1>2. CASE Reject(r)
  <2>1. CASE call[r].stream
    BY <1>0, <1>2, <2>1 DEF Reject, Raise, Goto, Tell, TypeOK, Stage
  <2>2. CASE ~call[r].stream
    BY <1>0, <1>2, <2>2 DEF Reject, Raise, Goto, Tell, TypeOK, Stage, Attached
  <2>3. QED
    BY <2>1, <2>2
<1>3. CASE SaveQuestion(r)
  <2>1. /\ pc'[r] = "running" /\ pend'[r] = {Question} /\ trail'[r] = <<>>
        /\ call' = call /\ client' = client /\ db' = db
    BY <1>0, <1>3 DEF SaveQuestion, Flush, Goto, TypeOK, Stage
  <2>2. Returned(r)' = {} /\ Clean(r)' /\ TrailOK(r)'
    BY <1>3, <2>1, StoreAssumption DEF Returned, Clean, TrailOK, SaveQuestion, Accepted
  <2>3. QED
    BY <1>0, <1>3, <2>1, <2>2 DEF SaveQuestion, Stage, Asked, Attached
<1>4. CASE ToolReturns(r)
  <2>1. /\ pc[r] = "running" /\ pc'[r] = "running" /\ call' = call /\ client' = client
        /\ db' = db /\ pend'[r] = pend[r] \cup {ToolAudit(Len(trail[r]) + 1)}
    BY <1>0, <1>4 DEF ToolReturns, StepAllowed, Flush, Goto, TypeOK
  <2>2. TrailOK(r)' /\ Clean(r)'
    BY <1>0, <1>4, <2>1, TrailAfterStep DEF ToolReturns, Stage, StepOutcome
  <2>3. Asked(r)' = Asked(r) \cup {ToolAudit(Len(trail[r]) + 1)}
    BY <1>0, <1>4, AskedAfterStep DEF ToolReturns, StepOutcome
  <2>4. QED
    BY <1>0, <2>1, <2>2, <2>3 DEF Stage, Attached
<1>5. CASE RagReturns(r)
  <2>1. TrailOK(r)' /\ Clean(r)'
    BY <1>0, <1>5, TrailAfterStep DEF RagReturns, StepAllowed, Stage, StepOutcome
  <2>2. Asked(r)' = Asked(r)
    BY <1>0, <1>5, AskedAfterStep DEF RagReturns, StepOutcome
  <2>3. QED
    BY <1>0, <1>5, <2>1, <2>2 DEF RagReturns, StepAllowed, Stage, Attached
<1>6. CASE StepRaises(r)
  <2>1. PICK step \in {"toolRaised", "ragRaised"}, p \in BOOLEAN :
          /\ call[r].mode = "tool" => step = "toolRaised"
          /\ call[r].mode = "rag" => step = "ragRaised"
          /\ trail' = [trail EXCEPT ![r] = Append(@, step)]
          /\ IF Swallows(call[r].mode, step) THEN UNCHANGED <<pc, client>> ELSE Raise(r)
    BY <1>6 DEF StepRaises
  <2>2. /\ StepAllowed(r) /\ pc[r] = "running" /\ call' = call /\ db' = db /\ pend' = pend
        /\ TrailOK(r) /\ Clean(r) /\ Attached(r) /\ call[r] \in Calls
        /\ pend[r] = Asked(r) /\ db[r] = {}
    BY <1>0, <1>6 DEF StepRaises, StepAllowed, Stage
  <2>3. TrailOK(r)' /\ (Swallows(call[r].mode, step) => Clean(r)')
    BY <1>0, <2>1, <2>2, TrailAfterStep DEF StepOutcome
  <2>4. Asked(r)' = Asked(r)
    BY <1>0, <2>1, AskedAfterStep DEF StepOutcome
  <2>5. CASE Swallows(call[r].mode, step)
    BY <2>1, <2>2, <2>3, <2>4, <2>5 DEF Stage, Attached
  <2>6. CASE ~Swallows(call[r].mode, step)
    BY <1>0, <2>1, <2>2, <2>3, <2>4, <2>6, StageAfterRaise
  <2>7. QED
    BY <2>5, <2>6
<1>7. CASE FinishRun(r)
  <2>1. /\ pc[r] = "running" /\ pc'[r] = "answered" /\ call' = call /\ client' = client
        /\ db' = db /\ trail' = trail /\ pend'[r] = pend[r] \cup RunAudit(call[r].mode)
        /\ call[r].mode = "plan_execute" \/ trail[r] # <<>>
    BY <1>0, <1>7 DEF FinishRun, Flush, Goto, TypeOK
  <2>2. TrailOK(r)' /\ Clean(r)' /\ Asked(r)' = Asked(r)
    BY <1>0, <2>1 DEF Stage, TrailOK, Accepted, Clean, Asked, Returned
  <2>3. call[r].mode # "plan_execute" => Len(trail[r]) = 1
    <3>1. Len(trail[r]) \in Nat /\ (trail[r] # <<>> => Len(trail[r]) # 0)
      BY <1>0 DEF TypeOK
    <3>2. call[r].mode # "plan_execute" => Len(trail[r]) <= 1
      BY <1>0, <2>1 DEF Stage, TrailOK
    <3>3. call[r].mode # "plan_execute" => trail[r] # <<>>
      BY <2>1
    <3>4. \A k \in Nat : k # 0 /\ k <= 1 => k = 1
      OBVIOUS
    <3>5. QED
      BY <3>1, <3>2, <3>3, <3>4
  <2>4. QED
    BY <1>0, <2>1, <2>2, <2>3 DEF Stage, Attached, Complete, Ran
<1>8. CASE EmitResult(r)
  <2>1. /\ pc[r] = "answered" /\ pc' = pc /\ call' = call /\ call[r].stream
        /\ client'[r] = "partial" /\ db' = db /\ trail' = trail /\ pend' = pend
    BY <1>0, <1>8 DEF EmitResult, Tell, TypeOK
  <2>2. /\ TrailOK(r)' = TrailOK(r) /\ Complete(r)' = Complete(r) /\ Ran(r)' = Ran(r)
    BY <2>1 DEF TrailOK, Accepted, Complete, Clean, Ran, Asked, Returned
  <2>3. QED
    BY <1>0, <2>1, <2>2 DEF Stage, Attached
<1>9. CASE SaveAnswer(r)
  <2>1. /\ pc[r] = "answered" /\ pc'[r] = "saved" /\ call' = call /\ client' = client
        /\ db' = db /\ trail' = trail /\ pend'[r] = pend[r] \cup {Answer}
    BY <1>0, <1>9 DEF SaveAnswer, Flush, Goto, TypeOK
  <2>2. /\ TrailOK(r)' = TrailOK(r) /\ Complete(r)' = Complete(r) /\ Ran(r)' = Ran(r)
    BY <2>1 DEF TrailOK, Accepted, Complete, Clean, Ran, Asked, Returned
  <2>3. QED
    BY <1>0, <2>1, <2>2 DEF Stage, Attached, Done
<1>10. CASE FlushFails(r)
  <2>1. /\ call' = call /\ db' = db /\ trail' = trail /\ pend' = pend
    BY <1>10 DEF FlushFails
  <2>2. /\ TrailOK(r)' = TrailOK(r) /\ Asked(r)' = Asked(r)
    BY <2>1 DEF TrailOK, Accepted, Asked, Returned
  <2>3. CASE pc[r] = "running"
    BY <1>0, <1>10, <2>1, <2>2, <2>3, StageAfterRaise DEF FlushFails, Stage
  <2>4. CASE pc[r] = "opened" /\ call[r].stream
    BY <1>0, <1>10, <2>1, <2>4 DEF FlushFails, Raise, Goto, Tell, TypeOK, Stage
  <2>5. CASE pc[r] = "opened" /\ ~call[r].stream
    BY <1>0, <1>10, <2>1, <2>5 DEF FlushFails, Raise, Goto, Tell, TypeOK, Stage, Attached
  <2>6. CASE pc[r] = "answered"
    BY <1>0, <1>10, <2>1, <2>6 DEF FlushFails, Goto, Tell, TypeOK, Stage, Attached
  <2>7. QED
    BY <1>10, <2>3, <2>4, <2>5, <2>6 DEF FlushFails
<1>11. CASE Respond(r)
  <2>1. /\ pc[r] = "saved" /\ pc'[r] = "finish" /\ call' = call /\ db' = db
        /\ trail' = trail /\ pend' = pend /\ client'[r] \in {"ok", "gone"}
    BY <1>0, <1>11 DEF Respond, Goto, Tell, TypeOK
  <2>2. /\ TrailOK(r)' = TrailOK(r) /\ Complete(r)' = Complete(r) /\ Done(r)' = Done(r)
    BY <2>1 DEF TrailOK, Accepted, Complete, Clean, Done, Ran, Asked, Returned
  <2>3. Leaving(r, pend[r])'
    BY <1>0, <2>1, <2>2 DEF Stage, Leaving
  <2>4. QED
    BY <1>0, <2>1, <2>3 DEF Stage
<1>12. CASE Commit(r)
  <2>1. /\ pc[r] = "finish" /\ pc'[r] = "closed" /\ call' = call /\ db'[r] = pend[r]
        /\ trail' = trail /\ pend'[r] = {} /\ client' = client
    BY <1>0, <1>12 DEF Commit, Close, Goto, TypeOK
  <2>2. ASSUME NEW S PROVE Leaving(r, S)' = Leaving(r, S)
    BY <2>1 DEF Leaving, TrailOK, Accepted, Complete, Clean, Done, Ran, Asked, Returned
  <2>3. QED
    BY <1>0, <2>1, <2>2 DEF Stage
<1>13. CASE CommitFails(r)
  BY <1>0, <1>13 DEF CommitFails, Close, Goto, TypeOK, Stage
<1>14. CASE Rollback(r)
  BY <1>0, <1>14 DEF Rollback, Close, Goto, Tell, TypeOK, Stage
<1>15. CASE ClientLeaves(r)
  <2>1. /\ call' = call /\ db' = db /\ trail' = trail /\ pend' = pend /\ client'[r] = "gone"
    BY <1>0, <1>15 DEF ClientLeaves, Tell, TypeOK
  <2>2. /\ TrailOK(r)' = TrailOK(r) /\ Complete(r)' = Complete(r) /\ Clean(r)' = Clean(r)
        /\ Asked(r)' = Asked(r) /\ Ran(r)' = Ran(r) /\ Done(r)' = Done(r)
    BY <2>1 DEF TrailOK, Accepted, Complete, Clean, Done, Ran, Asked, Returned
  <2>3. pc[r] \in {"opened", "running", "answered", "saved", "unwind"}
    BY <1>0, <1>15 DEF ClientLeaves, Stage, TypeOK, PC, Leaving
  <2>4. CASE call[r].stream /\ pc[r] # "unwind"
    <3>1. pc'[r] = "finish"
      BY <1>0, <1>15, <2>4 DEF ClientLeaves, Goto, TypeOK
    <3>2. pend'[r] = {} \/ Leaving(r, pend[r])'
      BY <1>0, <2>1, <2>2, <2>3, <2>4 DEF Stage, Leaving
    <3>3. QED
      BY <1>0, <2>1, <2>3, <3>1, <3>2 DEF Stage
  <2>5. CASE ~call[r].stream \/ pc[r] = "unwind"
    <3>1. pc' = pc
      BY <1>15, <2>5 DEF ClientLeaves
    <3>2. ~call[r].stream
      BY <1>0, <1>15, <2>5 DEF ClientLeaves, Stage
    <3>3. QED
      BY <1>0, <2>1, <2>2, <2>3, <3>1, <3>2 DEF Stage, Attached
  <2>6. QED
    BY <2>4, <2>5
<1>16. QED
  BY <1>1, <1>2, <1>3, <1>4, <1>5, <1>6, <1>7, <1>8, <1>9, <1>10, <1>11, <1>12, <1>13,
     <1>14, <1>15 DEF Handle

\* A crash closes every open request with nothing committed.
LEMMA AfterCrash ==
  ASSUME IInv, Crash, NEW r \in Requests
  PROVE  Stage(r)'
<1>1. TypeOK /\ Stage(r)
  BY DEF IInv
<1>2. CASE pc[r] \in {"idle", "closed"}
  BY <1>1, <1>2, Frame DEF Crash, TypeOK, Stage
<1>3. CASE pc[r] \notin {"idle", "closed"}
  <2>1. /\ pc'[r] = "closed" /\ pend'[r] = {} /\ call' = call /\ db' = db
        /\ client'[r] = IF client[r] \in {"waiting", "partial"} THEN "gone" ELSE client[r]
    BY <1>3 DEF Crash
  <2>2. client[r] \in ClientView \ {"none"}
    BY <1>1, <1>3 DEF TypeOK, PC, Stage, Attached, ClientView
  <2>3. QED
    BY <1>1, <1>3, <2>1, <2>2 DEF Stage, ClientView
<1>4. QED
  BY <1>2, <1>3

LEMMA InitIInv == Init => IInv
BY InitTypeOK DEF Init, StoreInit, IInv, Stage

LEMMA NextIInv == IInv /\ [Next]_vars => IInv'
<1> SUFFICES ASSUME IInv, [Next]_vars
             PROVE  IInv'
  OBVIOUS
<1>1. TypeOK'
  BY NextTypeOK DEF IInv
<1>2. ASSUME NEW r \in Requests
      PROVE  Stage(r)'
  <2>1. CASE UNCHANGED vars
    BY <2>1, Frame DEF vars, IInv
  <2>2. CASE Crash
    BY <2>2, AfterCrash
  <2>3. ASSUME NEW q \in Requests, Send(q) \/ Handle(q) \/ ClientLeaves(q)
        PROVE  Stage(r)'
    BY <1>1, <2>3, Own, Others DEF IInv
  <2>4. QED
    BY <2>1, <2>2, <2>3 DEF Next
<1>3. QED
  BY <1>1, <1>2 DEF IInv

\* The inductive invariant holds in every reachable state.
THEOREM Inductive == Spec => []IInv
<1>1. Init => IInv
  BY InitIInv
<1>2. IInv /\ [Next]_vars => IInv'
  BY NextIInv
<1>3. QED
  BY <1>1, <1>2, PTL DEF Spec

-----------------------------------------------------------------------------
(* Consequences.                                                             *)

\* What may be committed has the question, and the answer just when it is done.
LEMMA LeavingRows ==
  ASSUME TypeOK, NEW r \in Requests, NEW S, Leaving(r, S)
  PROVE  /\ Question \in S
         /\ IF Answer \in S THEN Complete(r) /\ client[r] \in {"ok", "gone"}
                          ELSE call[r].stream /\ client[r] \in {"error", "gone"}
         /\ \A n \in 1..MaxSteps : ToolAudit(n) \in S <=> n \in Returned(r)
<1> DEFINE m == call[r].mode
<1>1. m \in Modes /\ Returned(r) \subseteq Nat /\ 1..MaxSteps \subseteq Nat
  BY StoreAssumption DEF Leaving, TrailOK, Accepted, Returned
<1>2. Question \in Asked(r) /\ Answer \notin Asked(r) /\ Answer \notin Ran(r)
  BY <1>1, RowFacts DEF Asked, Ran
<1>3. ASSUME NEW n \in 1..MaxSteps
      PROVE  /\ ToolAudit(n) \in Asked(r) <=> n \in Returned(r)
             /\ ToolAudit(n) \in Ran(r) <=> n \in Returned(r)
             /\ ToolAudit(n) \in Done(r) <=> n \in Returned(r)
  <2>1. n \in Nat
    BY <1>1
  <2>2. ToolAudit(n) \notin {Question, Answer} \cup RunAudit(m)
    BY <1>1, <2>1, RowFacts
  <2>3. ToolAudit(n) \in {ToolAudit(k) : k \in Returned(r)} <=> n \in Returned(r)
    BY <1>1, <2>1, RowFacts
  <2>4. QED
    BY <2>2, <2>3 DEF Asked, Ran, Done
<1>4. Asked(r) \subseteq Done(r) /\ Ran(r) \subseteq Done(r) /\ Asked(r) \subseteq Ran(r)
      /\ Answer \in Done(r)
  BY DEF Ran, Done
<1>5. CASE S = Done(r)
  BY <1>2, <1>3, <1>4, <1>5 DEF Leaving
<1>6. CASE S = Asked(r)
  BY <1>2, <1>3, <1>4, <1>6 DEF Leaving
<1>7. CASE S = Ran(r)
  BY <1>2, <1>3, <1>4, <1>7 DEF Leaving
<1>8. QED
  BY <1>5, <1>6, <1>7 DEF Leaving

\* The safety properties of the runs follow from the inductive invariant.
LEMMA Consequences ==
  IInv => /\ ErrorMeansUnanswered /\ HalfTurnsAreStreams
          /\ AuditMatchesRun /\ AnswerHidesOnlyAgentErrors
<1> SUFFICES ASSUME IInv, NEW r \in Requests
             PROVE  /\ client[r] = "error"
                          => Answer \notin db[r] /\ (call[r].stream \/ db[r] = {})
                    /\ (Question \in db[r] /\ Answer \notin db[r])
                          => call[r].stream /\ client[r] \in {"error", "gone"}
                    /\ db[r] # {} =>
                          /\ \A n \in Returned(r) : ToolAudit(n) \in db[r]
                          /\ \A n \in 1..MaxSteps : ToolAudit(n) \in db[r] => n \in Returned(r)
                    /\ Answer \in db[r] => Clean(r)
  BY DEF ErrorMeansUnanswered, HalfTurnsAreStreams, AuditMatchesRun,
         AnswerHidesOnlyAgentErrors, Returned, Clean
<1>1. CASE db[r] = {}
  BY <1>1
<1>2. CASE db[r] # {}
  <2>1. TypeOK /\ Leaving(r, db[r])
    BY <1>2 DEF IInv, Stage
  <2>2. /\ IF Answer \in db[r] THEN Complete(r) /\ client[r] \in {"ok", "gone"}
                             ELSE call[r].stream /\ client[r] \in {"error", "gone"}
        /\ \A n \in 1..MaxSteps : ToolAudit(n) \in db[r] <=> n \in Returned(r)
    BY <2>1, LeavingRows
  <2>3. Len(trail[r]) \in Nat /\ Len(trail[r]) <= MaxSteps
    BY <2>1 DEF TypeOK, Leaving, TrailOK
  <2>4. Returned(r) \subseteq 1..MaxSteps
    BY <2>3, StoreAssumption DEF Returned
  <2>5. /\ \A n \in Returned(r) : ToolAudit(n) \in db[r]
        /\ \A n \in 1..MaxSteps : ToolAudit(n) \in db[r] => n \in Returned(r)
    BY <2>2, <2>4
  <2>6. Complete(r) => Clean(r)
    BY DEF Complete
  <2>7. QED
    BY <2>2, <2>5, <2>6
<1>3. QED
  BY <1>1, <1>2

\* An error response never leaves an answer behind, and after a plain request
\* nothing at all.
THEOREM ErrorsLeaveNoAnswer == Spec => []ErrorMeansUnanswered
BY Inductive, Consequences, PTL

\* Only a stream that failed or lost its caller leaves a question unanswered.
THEOREM HalfTurns == Spec => []HalfTurnsAreStreams
BY Inductive, Consequences, PTL

\* No tool.invoke row is lost of a call that returned, and none is made up.
THEOREM AuditTrail == Spec => []AuditMatchesRun
BY Inductive, Consequences, PTL

\* Answers hide the exceptions of agent steps only.
THEOREM HiddenErrors == Spec => []AnswerHidesOnlyAgentErrors
BY Inductive, Consequences, PTL

-----------------------------------------------------------------------------
(* Refinement: ChatTurn implements the history of TurnStore.                 *)

\* What a request may commit is a legal shape of its turn.
LEMMA LegalRows ==
  ASSUME TypeOK, NEW r \in Requests, NEW S, Leaving(r, S)
  PROVE  S \in SUBSET Row /\ Legal(call[r], S)
<1> DEFINE m == call[r].mode
<1>1. m \in Modes /\ call[r].found /\ TrailOK(r)
  BY DEF Leaving, TrailOK, Accepted
<1>2. trail[r] \in Seq(StepOutcome) /\ Len(trail[r]) \in Nat /\ Len(trail[r]) <= MaxSteps
  BY <1>1 DEF TypeOK, TrailOK
<1>3. Returned(r) \subseteq ToolSlots(m) /\ Returned(r) \subseteq 1..MaxSteps
  <2>1. Returned(r) \subseteq 1..MaxSteps
    BY <1>2, StoreAssumption DEF Returned
  <2>2. m = "rag" => Returned(r) = {}
    BY <1>1 DEF Returned, TrailOK
  <2>3. m # "plan_execute" => Returned(r) \subseteq {1}
    BY <1>1, <1>2 DEF Returned, TrailOK
  <2>4. QED
    BY <2>1, <2>2, <2>3 DEF ToolSlots
<1>4. S \in {Asked(r), Ran(r), Done(r)}
  BY DEF Leaving
<1>5. /\ Asked(r) \subseteq Ran(r) /\ Ran(r) \subseteq Done(r)
      /\ Done(r) \subseteq {Question, Answer} \cup RunAudit(m)
                          \cup {ToolAudit(n) : n \in ToolSlots(m)}
  BY <1>3 DEF Asked, Ran, Done
<1>6. Done(r) \subseteq Row
  BY <1>1, <1>3, RowFacts DEF Asked, Ran, Done
<1>7. /\ Question \in S
      /\ IF Answer \in S THEN Complete(r) ELSE call[r].stream
  BY LeavingRows
<1>8. Answer \in S => RunAudit(m) \subseteq S
  <2>1. Answer \notin Asked(r) /\ Answer \notin Ran(r)
    BY <1>1, <1>3, RowFacts, StoreAssumption DEF Asked, Ran
  <2>2. QED
    BY <1>4, <2>1 DEF Done, Ran
<1>9. Answer \in S /\ m = "tool" => ToolAudit(1) \in S
  <2>1. SUFFICES ASSUME Answer \in S, m = "tool"
                 PROVE  ToolAudit(1) \in S
    OBVIOUS
  <2>2. Len(trail[r]) = 1 /\ Clean(r)
    BY <1>7, <2>1 DEF Complete
  <2>3. 1 \in 1..Len(trail[r])
    BY <2>2
  <2>4. trail[r][1] \in {"tool", "toolRaised"}
    BY <1>1, <2>1, <2>3 DEF TrailOK
  <2>5. trail[r][1] # "toolRaised"
    BY <2>1, <2>2, <2>3 DEF Clean, Swallows
  <2>6. 1 \in Returned(r)
    BY <2>3, <2>4, <2>5 DEF Returned
  <2>7. QED
    BY <1>4, <1>5, <2>6 DEF Asked
<1>10. QED
  BY <1>1, <1>4, <1>5, <1>6, <1>7, <1>8, <1>9 DEF Legal

\* Every step maps to a step of the history or leaves it as it is.
LEMMA StepRefines == IInv /\ [Next]_vars => [StoreNext]_storeVars
<1> SUFFICES ASSUME IInv, [Next]_vars
             PROVE  StoreNext \/ UNCHANGED storeVars
  BY DEF storeVars
<1> USE DEF storeVars
<1>1. TypeOK /\ \A r \in Requests : Stage(r)
  BY DEF IInv
<1>2. ASSUME NEW r \in Requests, Send(r)
      PROVE  StoreNext
  BY <1>1, <1>2, OfferedAssumption DEF Send, Stage, StoreNext, Arrive
<1>3. ASSUME NEW r \in Requests, Commit(r)
      PROVE  StoreNext \/ UNCHANGED storeVars
  <2>1. /\ call' = call /\ db' = [db EXCEPT ![r] = pend[r]]
        /\ db[r] = {} /\ (pend[r] = {} \/ Leaving(r, pend[r]))
    BY <1>1, <1>3 DEF Commit, Stage
  <2>2. CASE pend[r] = {}
    BY <1>1, <2>1, <2>2 DEF TypeOK
  <2>3. CASE Leaving(r, pend[r])
    <3>1. pend[r] \in SUBSET Row /\ Legal(call[r], pend[r])
      BY <1>1, <2>3, LegalRows
    <3>2. call[r] # NoCall
      BY <1>1, <1>3, NoCallAssumption DEF Commit, Stage
    <3>3. Leave(r)
      BY <2>1, <3>1, <3>2 DEF Leave
    <3>4. QED
      BY <3>3 DEF StoreNext
  <2>4. QED
    BY <2>1, <2>2, <2>3
<1>4. ASSUME NEW r \in Requests, Handle(r), ~Commit(r)
      PROVE  UNCHANGED storeVars
  BY <1>4 DEF Handle, Reject, SaveQuestion, ToolReturns, RagReturns, StepRaises, FinishRun,
              EmitResult, SaveAnswer, FlushFails, Respond, CommitFails, Rollback
<1>5. ASSUME NEW r \in Requests, ClientLeaves(r)
      PROVE  UNCHANGED storeVars
  BY <1>5 DEF ClientLeaves
<1>6. CASE Crash
  BY <1>6 DEF Crash
<1>7. CASE UNCHANGED vars
  BY <1>7 DEF vars
<1>8. QED
  BY <1>2, <1>3, <1>4, <1>5, <1>6, <1>7 DEF Next

\* Whatever interleaves, fails, disconnects or crashes, the history shows only
\* legal turns, each written in one step and never changed.
THEOREM Refinement == Spec => StoreSpec
<1>1. Init => StoreInit
  BY DEF Init
<1>2. IInv /\ [Next]_vars => [StoreNext]_storeVars
  BY StepRefines
<1>3. QED
  BY <1>1, <1>2, Inductive, PTL DEF Spec, StoreSpec

-----------------------------------------------------------------------------
(* Orders of messages.                                                       *)

\* The messages of a number of turns are finitely many.
LEMMA MessagesFinite ==
  ASSUME NEW k \in Nat
  PROVE  IsFiniteSet([turn : 1..k, role : Roles])
<1> DEFINE M == [turn : 1..k, role : Roles]
           P == (1..k) \X Roles
           f == [p \in P |-> [turn |-> p[1], role |-> p[2]]]
<1>1. IsFiniteSet(1..k)
  BY FS_Interval
<1>2. IsFiniteSet(Roles)
  <2>1. IsFiniteSet({"question"}) /\ IsFiniteSet({"answer"})
    BY FS_Singleton
  <2>2. IsFiniteSet({"question"} \cup {"answer"})
    BY <2>1, FS_Union
  <2>3. Roles = {"question"} \cup {"answer"}
    BY DEF Roles
  <2> QED
    BY <2>2, <2>3
<1>3. IsFiniteSet(P)
  BY <1>1, <1>2, FS_Product
<1>4. f \in Surjection(P, M)
  <2>1. f \in [P -> M]
    OBVIOUS
  <2>2. ASSUME NEW m \in M
        PROVE  \E p \in P : f[p] = m
    <3>1. <<m.turn, m.role>> \in P
      OBVIOUS
    <3>2. f[<<m.turn, m.role>>] = m
      BY <3>1
    <3> QED
      BY <3>1, <3>2
  <2> QED
    BY <2>1, <2>2 DEF Surjection
<1> QED
  BY <1>3, <1>4, FS_Surjection

\* An order of a finite set names each of its elements once.
LEMMA OrderFacts ==
  ASSUME NEW R, IsFiniteSet(R), NEW o \in Orders(R)
  PROVE  /\ Cardinality(R) \in Nat
         /\ o \in Seq(R) /\ Len(o) = Cardinality(R) /\ DOMAIN o = 1..Cardinality(R)
         /\ \A i, j \in DOMAIN o : i < j => o[i] # o[j] /\ o[i].turn <= o[j].turn
         /\ \A m \in R : \E i \in DOMAIN o : o[i] = m
<1> DEFINE C == Cardinality(R)
<1>1. C \in Nat
  BY FS_CardinalityType
<1>2. /\ o \in [1..C -> R]
      /\ \A i, j \in DOMAIN o : i < j => o[i] # o[j] /\ o[i].turn <= o[j].turn
  BY DEF Orders
<1>3. o \in Injection(1..C, R)
  <2>1. ASSUME NEW i \in 1..C, NEW j \in 1..C, o[i] = o[j]
        PROVE  i = j
    BY <1>1, <1>2, <2>1
  <2> QED
    BY <1>2, <2>1 DEF Injection, IsInjective
<1>4. IsFiniteSet(1..C) /\ Cardinality(1..C) = C
  BY <1>1, FS_Interval
<1>5. o \in Surjection(1..C, R)
  BY <1>3, <1>4, FS_Injection
<1>6. \A m \in R : \E i \in DOMAIN o : o[i] = m
  BY <1>2, <1>5 DEF Surjection
<1>7. o \in Seq(R) /\ Len(o) = C
  BY <1>1, <1>2
<1> QED
  BY <1>1, <1>2, <1>6, <1>7

\* What is said after all else comes last, the question before its answer.
LEMMA OrderExtends ==
  ASSUME NEW n \in Nat, NEW R \in SUBSET Message, IsFiniteSet(R),
         \A m \in R : m.turn < n, NEW o \in Orders(R)
  PROVE  LET S == R \cup {QuestionOf(n), AnswerOf(n)}
         IN  /\ IsFiniteSet(S) /\ Cardinality(S) = Cardinality(R) + 2
             /\ o \o <<QuestionOf(n), AnswerOf(n)>> \in Orders(S)
<1> DEFINE Q == QuestionOf(n)
           A == AnswerOf(n)
           S == R \cup {Q, A}
           C == Cardinality(R)
           p == o \o <<Q, A>>
<1>1. /\ C \in Nat /\ o \in Seq(R) /\ Len(o) = C /\ DOMAIN o = 1..C
      /\ \A i, j \in DOMAIN o : i < j => o[i] # o[j] /\ o[i].turn <= o[j].turn
  BY OrderFacts
<1>2. Q # A /\ Q.turn = n /\ A.turn = n
  BY DEF QuestionOf, AnswerOf
<1>3. Q \notin R /\ A \notin R
  BY <1>2
<1>4. IsFiniteSet(S) /\ Cardinality(S) = C + 2
  <2>1. IsFiniteSet(R \cup {Q}) /\ Cardinality(R \cup {Q}) = C + 1
    BY <1>3, FS_AddElement
  <2>2. A \notin R \cup {Q}
    BY <1>2, <1>3
  <2>3. IsFiniteSet((R \cup {Q}) \cup {A}) /\ Cardinality((R \cup {Q}) \cup {A}) = C + 1 + 1
    BY <2>1, <2>2, FS_AddElement
  <2>4. S = (R \cup {Q}) \cup {A}
    OBVIOUS
  <2>5. C + 1 + 1 = C + 2
    BY <1>1
  <2> HIDE DEF S, C
  <2> QED
    BY <2>3, <2>4, <2>5 DEF C
<1> HIDE DEF Q, A
<1>5. /\ p \in Seq(S) /\ Len(p) = C + 2
      /\ \A i \in 1..C : p[i] = o[i]
      /\ p[C + 1] = Q /\ p[C + 2] = A
  <2>1. o \in Seq(S) /\ <<Q, A>> \in Seq(S) /\ Len(<<Q, A>>) = 2
    BY <1>1
  <2> QED
    BY <1>1, <2>1
<1> HIDE DEF p, S, C
<1>6. p \in [1..C + 2 -> S] /\ DOMAIN p = 1..C + 2
  BY <1>1, <1>5
<1>7. ASSUME NEW i \in 1..C + 2, NEW j \in 1..C + 2, i < j
      PROVE  p[i] # p[j] /\ p[i].turn <= p[j].turn
  <2>0. \A k \in 1..C : o[k] \in R /\ o[k].turn \in Nat /\ o[k].turn < n
    BY <1>1 DEF Message
  <2>1. CASE j <= C
    <3>1. i \in 1..C /\ j \in 1..C
      BY <1>1, <1>7, <2>1
    <3>2. p[i] = o[i] /\ p[j] = o[j]
      BY <1>5, <3>1
    <3> QED
      BY <1>1, <1>7, <3>1, <3>2
  <2>2. CASE j > C /\ i <= C
    <3>1. p[i] = o[i] /\ (p[j] = Q \/ p[j] = A)
      BY <1>1, <1>5, <2>2
    <3> QED
      BY <1>1, <1>2, <1>3, <2>0, <2>2, <3>1
  <2>3. CASE i > C
    <3>1. i = C + 1 /\ j = C + 2
      BY <1>1, <1>7, <2>3
    <3>2. p[i] = Q /\ p[j] = A
      BY <1>5, <3>1
    <3> QED
      BY <1>2, <3>2
  <2> QED
    BY <1>1, <2>1, <2>2, <2>3
<1>8. p \in Orders(S)
  <2>1. \A i, j \in DOMAIN p : i < j => p[i] # p[j] /\ p[i].turn <= p[j].turn
    BY <1>6, <1>7
  <2>2. p \in [1..Cardinality(S) -> S]
    BY <1>4, <1>6
  <2> QED
    BY <2>1, <2>2 DEF Orders
<1> QED
  BY <1>4, <1>8 DEF p, Q, A, S, C

\* A cut is a prefix, all of it within the limit.
LEMMA CutFacts ==
  ASSUME NEW M, NEW o \in Seq(M)
  PROVE  /\ Cut(o) \in Seq(M)
         /\ Len(Cut(o)) = IF Len(o) < Limit THEN Len(o) ELSE Limit
         /\ \A i \in 1..Len(Cut(o)) : Cut(o)[i] = o[i]
         /\ Len(o) <= Limit => Cut(o) = o
<1> DEFINE k == IF Len(o) < Limit THEN Len(o) ELSE Limit
<1>1. Limit \in Nat /\ Len(o) \in Nat /\ k \in 0..Len(o) /\ (Len(o) <= Limit => k = Len(o))
  BY ChatClientAssumption
<1>2. Cut(o) = SubSeq(o, 1, k)
  BY DEF Cut
<1> HIDE DEF k
<1>3. /\ SubSeq(o, 1, k) \in Seq(M) /\ Len(SubSeq(o, 1, k)) = k
      /\ \A i \in 1..k : SubSeq(o, 1, k)[i] = o[i]
  BY <1>1
<1>4. Len(o) <= Limit => SubSeq(o, 1, k) = o
  BY <1>1, <1>3
<1> QED
  BY <1>2, <1>3, <1>4 DEF k

-----------------------------------------------------------------------------
(* The page: what holds of the turns, of what is shown or about to be, and,  *)
(* while things were asked for one at a time, of the screen.                 *)

\* The reply of a turn, its rows and its transaction agree.
PageSane(T) ==
  \A n \in DOMAIN T :
    /\ T[n].reply = "none" => T[n].phase = "running"
    /\ T[n].phase = "running" => T[n].rows = "none"
    /\ T[n].rows = "none" => T[n].phase \in {"running", "lost"}
    /\ T[n].reply = "answer" => T[n].rows = "both"

\* The turns agree with the sessions the page knows.
TurnsInv == /\ PageSane(turns)
            /\ \A n \in DOMAIN turns : turns[n].session \in known
            /\ selected \in known \cup {NoSession}

\* The messages of s are of turns that may be shown, an answer after its question.
MayShow(t, role) == Has(t, role) /\ (t.rows = "question" => t.phase = "stored")
WholeIn(T, s) ==
  \A i \in DOMAIN s :
    /\ s[i].turn \in DOMAIN T /\ MayShow(T[s[i].turn], s[i].role)
    /\ s[i].role = "answer" =>
         i = Limit \/ \E j \in DOMAIN s : s[j] = QuestionOf(s[i].turn)

PageWhole == /\ WholeIn(turns, list)
             /\ \A l \in 1..MaxLoads : loads[l].is = "answered" => WholeIn(turns, loads[l].messages)

\* A turn that is over for the server and the client; one whose messages the screen has;
\* and one whose reply, told or yet to be, is what the server keeps of it.
Ended(t) == t.phase \in {"stored", "lost"} /\ t.reply = "heard"
Visible(t) == t.reply = "heard" /\ (t.phase = "stored" \/ (t.phase = "committing" /\ t.rows = "both"))
Hopeful(t) == /\ t.phase = "running" => t.reply = "none"
              /\ t.reply = "answer" => t.phase # "lost"
              /\ t.reply = "error" => t.phase # "stored" /\ t.rows # "both"

Seen(s) == {m \in [turn : DOMAIN turns, role : Roles] :
              LET t == turns[m.turn] IN t.session = s /\ Visible(t) /\ Has(t, m.role)}

NoLoads == \A l \in 1..MaxLoads : loads[l] = NoLoad
AllEnded == \A n \in DOMAIN turns : Ended(turns[n])

\* A listing is of the session selected, and nothing else is under way.
LoadAlone ==
  \A l \in 1..MaxLoads : loads[l] # NoLoad =>
    /\ \A k \in 1..MaxLoads : k # l => loads[k] = NoLoad
    /\ ~creating /\ AllEnded /\ selected # NoSession
    /\ loads[l].is = "asked" => loads[l].session = selected
    /\ loads[l].is = "answered" => loads[l].messages \in Transcripts(selected)

CreateAlone == creating => AllEnded

TurnAlone == \A n \in DOMAIN turns :
               ~Ended(turns[n]) => n = Len(turns) /\ turns[n].session = selected /\ Hopeful(turns[n])

ScreenRight == selected # NoSession /\ NoLoads /\ Cardinality(Seen(selected)) <= Limit
                 => list \in Orders(Seen(selected))

OneAtATime == LoadAlone /\ CreateAlone /\ TurnAlone /\ ScreenRight

PageInv == /\ PageTypeOK
           /\ TurnsInv
           /\ PageWhole
           /\ clean => OneAtATime

-----------------------------------------------------------------------------
(* What a listing answers.                                                   *)

\* The committed rows of a session, and those the screen is to have, are finitely many.
LEMMA MessagesOf ==
  ASSUME PageTypeOK, NEW s
  PROVE  /\ Rows(s) \subseteq Message /\ IsFiniteSet(Rows(s))
         /\ Seen(s) \subseteq Message /\ IsFiniteSet(Seen(s))
<1> DEFINE M == [turn : 1..Len(turns), role : Roles]
<1>1. Len(turns) \in Nat /\ DOMAIN turns = 1..Len(turns)
  BY DEF PageTypeOK
<1>2. IsFiniteSet(M)
  BY <1>1, MessagesFinite
<1>3. Rows(s) \subseteq M /\ Seen(s) \subseteq M
  BY <1>1 DEF Rows, Seen
<1>4. M \subseteq Message
  BY <1>1 DEF Message
<1> QED
  BY <1>2, <1>3, <1>4, FS_Subset

\* A transcript shows whole turns, but at the cut of the limit.
LEMMA TranscriptWhole ==
  ASSUME PageTypeOK, NEW s, NEW t \in Transcripts(s)
  PROVE  t \in Seq(Message) /\ WholeIn(turns, t)
<1>1. PICK o \in Orders(Rows(s)) : t = Cut(o)
  BY DEF Transcripts
<1> DEFINE R == Rows(s)
<1>2. R \subseteq Message /\ IsFiniteSet(R)
  BY MessagesOf
<1>3. /\ o \in Seq(R) /\ DOMAIN o = 1..Len(o) /\ Len(o) \in Nat
      /\ \A i, j \in DOMAIN o : i < j => o[i] # o[j] /\ o[i].turn <= o[j].turn
      /\ \A m \in R : \E i \in DOMAIN o : o[i] = m
  BY <1>2, OrderFacts
<1>4. /\ t \in Seq(R) /\ Len(t) = (IF Len(o) < Limit THEN Len(o) ELSE Limit)
      /\ \A i \in 1..Len(t) : t[i] = o[i]
  BY <1>1, <1>3, CutFacts
<1>5. t \in Seq(Message) /\ DOMAIN t = 1..Len(t) /\ Limit \in Nat
  BY <1>2, <1>4, ChatClientAssumption
<1>6. ASSUME NEW i \in DOMAIN t
      PROVE  /\ t[i] \in R /\ t[i].turn \in DOMAIN turns /\ MayShow(turns[t[i].turn], t[i].role)
             /\ t[i].role = "answer" => turns[t[i].turn].rows = "both"
  <2>1. t[i] \in R
    BY <1>4, <1>5
  <2> QED
    BY <2>1 DEF Rows, MayShow, Has
<1>7. ASSUME NEW i \in DOMAIN t, t[i].role = "answer", i # Limit
      PROVE  \E j \in DOMAIN t : t[j] = QuestionOf(t[i].turn)
  <2> DEFINE q == QuestionOf(t[i].turn)
  <2>1. q \in R
    BY <1>6, <1>7 DEF Rows, QuestionOf, Roles, Has
  <2>2. PICK j \in DOMAIN o : o[j] = q
    BY <1>3, <2>1
  <2>3. CASE j \in DOMAIN t
    BY <1>4, <1>5, <2>2, <2>3
  <2>4. CASE j \notin DOMAIN t
    <3>1. /\ i \in DOMAIN o /\ i + 1 \in DOMAIN o /\ i < i + 1 /\ i + 1 < j
          /\ t[i] = o[i]
      BY <1>3, <1>4, <1>5, <1>7, <2>2, <2>4
    <3>2. /\ o[i] \in Message /\ o[i + 1] \in Message
          /\ o[i].turn <= o[i + 1].turn /\ o[i + 1].turn <= q.turn
          /\ o[i] # o[i + 1] /\ o[i + 1] # q
      BY <1>2, <1>3, <2>2, <3>1
    <3>3. q.turn = o[i].turn /\ q = [turn |-> o[i].turn, role |-> "question"]
      BY <3>1 DEF QuestionOf
    <3>4. o[i + 1].turn = o[i].turn
      BY <3>2, <3>3 DEF Message
    <3> QED
      BY <1>7, <3>1, <3>2, <3>3, <3>4 DEF Message, Roles
  <2> QED
    BY <2>3, <2>4
<1> QED
  BY <1>5, <1>6, <1>7 DEF WholeIn

-----------------------------------------------------------------------------
(* Types and turns.                                                          *)

\* Every step of the page or the server keeps the types.
LEMMA PageTypesStep ==
  ASSUME PageTypeOK, [PageNext]_pageVars
  PROVE  PageTypeOK'
<1> USE DEF PageTypeOK
<1>1. Len(turns) \in Nat /\ DOMAIN turns = 1..Len(turns) /\ \A n \in DOMAIN turns : turns[n] \in Turn
  OBVIOUS
<1>2. ASSUME NEW n \in DOMAIN turns, NEW t \in Turn, turns' = [turns EXCEPT ![n] = t]
      PROVE  turns' \in Seq(Turn) /\ Len(turns') <= MaxTurns
  BY <1>1, <1>2
<1>3. ASSUME NEW n \in DOMAIN turns, RespondTo(n) PROVE PageTypeOK'
  <2> DEFINE t == [turns[n] EXCEPT !.phase = "committing", !.rows = "both",
                                   !.reply = Heard(n, "answer")]
  <2>1. t \in Turn /\ turns' = [turns EXCEPT ![n] = t]
    BY <1>1, <1>3 DEF RespondTo, Turn, Heard
  <2> HIDE DEF t
  <2> QED
    BY <1>2, <1>3, <2>1 DEF RespondTo, screen
<1>4. ASSUME NEW n \in DOMAIN turns, Fail(n) PROVE PageTypeOK'
  <2>1. PICK t \in Turn : turns' = [turns EXCEPT ![n] = t]
    <3> DEFINE a == [turns[n] EXCEPT !.phase = "lost", !.reply = Heard(n, "error")]
               b == [turns[n] EXCEPT !.phase = "committing", !.rows = "question",
                                     !.reply = Heard(n, "error")]
    <3>1. a \in Turn /\ b \in Turn
      BY <1>1 DEF Turn, Heard
    <3>2. turns' = [turns EXCEPT ![n] = a] \/ turns' = [turns EXCEPT ![n] = b]
      BY <1>4 DEF Fail
    <3> QED
      BY <3>1, <3>2
  <2> QED
    BY <1>2, <1>4, <2>1 DEF Fail, screen
<1>5. ASSUME NEW n \in DOMAIN turns, Drop(n) PROVE PageTypeOK'
  <2> DEFINE t == [turns[n] EXCEPT !.reply = "error"]
  <2>1. t \in Turn /\ turns' = [turns EXCEPT ![n] = t]
    BY <1>1, <1>5 DEF Drop, Turn
  <2> HIDE DEF t
  <2> QED
    BY <1>2, <1>5, <2>1 DEF Drop, screen
<1>6. ASSUME NEW n \in DOMAIN turns, CommitTurn(n) \/ CommitTurnFails(n) PROVE PageTypeOK'
  <2>1. PICK p \in {"stored", "lost"} : turns' = [turns EXCEPT ![n].phase = p]
    BY <1>6 DEF CommitTurn, CommitTurnFails
  <2> DEFINE t == [turns[n] EXCEPT !.phase = p]
  <2>2. t \in Turn /\ turns' = [turns EXCEPT ![n] = t]
    BY <1>1, <2>1 DEF Turn
  <2> HIDE DEF t
  <2>3. clean' \in BOOLEAN
    BY <1>6 DEF CommitTurn, CommitTurnFails
  <2> QED
    BY <1>2, <1>6, <2>2, <2>3 DEF CommitTurn, CommitTurnFails, screen
<1>7. ASSUME NEW l \in 1..MaxLoads, ListMessages(l) PROVE PageTypeOK'
  <2>1. PICK t \in Transcripts(loads[l].session) :
               loads' = [loads EXCEPT ![l] = [is |-> "answered", messages |-> t]]
    BY <1>7 DEF ListMessages
  <2>2. t \in Seq(Message)
    BY TranscriptWhole
  <2>3. [is |-> "answered", messages |-> t] \in Load
    BY <2>2 DEF Load
  <2> QED
    BY <1>7, <2>1, <2>3 DEF ListMessages, screen
<1>8. ASSUME NEW l \in 1..MaxLoads, Loaded(l) PROVE PageTypeOK'
  <2>1. loads[l].is = "answered" => loads[l].messages \in Seq(Message)
    BY DEF Load, NoLoad
  <2> QED
    BY <1>8, <2>1 DEF Loaded
<1>9. ASSUME NEW n \in DOMAIN turns, Hear(n) PROVE PageTypeOK'
  <2> DEFINE t == [turns[n] EXCEPT !.reply = "heard", !.awaited = FALSE]
  <2>1. t \in Turn /\ turns' = [turns EXCEPT ![n] = t]
    BY <1>1, <1>9 DEF Hear, Told, Turn
  <2> HIDE DEF t
  <2>2. turns' \in Seq(Turn) /\ Len(turns') <= MaxTurns
    BY <1>2, <2>1
  <2>3. QuestionOf(n) \in Message /\ AnswerOf(n) \in Message
    BY <1>1 DEF QuestionOf, AnswerOf, Message, Roles
  <2>4. list' \in Seq(Message)
    <3>1. <<QuestionOf(n), AnswerOf(n)>> \in Seq(Message)
      BY <2>3
    <3>2. list \o <<QuestionOf(n), AnswerOf(n)>> \in Seq(Message)
      BY <3>1
    <3> QED
      BY <1>9, <3>2 DEF Hear, Shown
  <2>5. sending' \in BOOLEAN
    BY <1>9 DEF Hear
  <2> QED
    BY <1>9, <2>2, <2>4, <2>5 DEF Hear
<1>10. CASE Created
  <2>1. <<>> \in Seq(Message)
    OBVIOUS
  <2> QED
    BY <1>10, <2>1 DEF Created, screen
<1>11. ASSUME NEW s \in Sessions, Select(s) PROVE PageTypeOK'
  <2>1. PICK l \in 1..MaxLoads : loads' = [loads EXCEPT ![l] = [is |-> "asked", session |-> s]]
    BY <1>11 DEF Select
  <2>2. [is |-> "asked", session |-> s] \in Load
    BY DEF Load
  <2>3. clean' \in BOOLEAN
    BY <1>11 DEF Select, Quiet
  <2> QED
    BY <1>11, <2>1, <2>2, <2>3 DEF Select
<1>12. CASE SendMessage
  <2> DEFINE t == [session |-> selected, phase |-> "running", rows |-> "none",
                   reply |-> "none", awaited |-> TRUE]
  <2>1. t \in Turn /\ turns' = Append(turns, t)
    BY <1>12 DEF SendMessage, Turn
  <2> HIDE DEF t
  <2>2. turns' \in Seq(Turn) /\ Len(turns') <= MaxTurns
    BY <1>1, <1>12, <2>1, ChatClientAssumption DEF SendMessage
  <2>3. clean' \in BOOLEAN /\ sending' \in BOOLEAN
    BY <1>12 DEF SendMessage, Quiet
  <2> QED
    BY <1>12, <2>2, <2>3 DEF SendMessage, screen
<1>13. CASE Create
  <2>1. clean' \in BOOLEAN
    BY <1>13 DEF Create, Quiet
  <2> QED
    BY <1>13, <2>1 DEF Create, screen
<1>14. CASE LeavePage
  <2>1. \A n \in DOMAIN turns : [turns[n] EXCEPT !.awaited = FALSE] \in Turn
    BY <1>1 DEF Turn
  <2>2. turns' \in Seq(Turn) /\ Len(turns') <= MaxTurns
    BY <1>1, <1>14, <2>1 DEF LeavePage
  <2>3. clean' \in BOOLEAN /\ list' \in Seq(Message)
    BY <1>14 DEF LeavePage, Quiet
  <2> QED
    BY <1>14, <2>2, <2>3 DEF LeavePage
<1>15. CASE UNCHANGED pageVars
  BY <1>15 DEF pageVars, screen
<1>16. CASE LoadSessions
  BY <1>16 DEF LoadSessions, screen
<1> QED
  BY <1>3, <1>4, <1>5, <1>6, <1>7, <1>8, <1>9, <1>10, <1>11, <1>12, <1>13, <1>14, <1>15, <1>16
     DEF PageNext, Serve, Arrives, Use

\* The turns stay sane, of sessions the page knows.
LEMMA TurnsStep ==
  ASSUME PageTypeOK, TurnsInv, [PageNext]_pageVars
  PROVE  TurnsInv'
<1> USE DEF TurnsInv, PageSane
<1>1. /\ Len(turns) \in Nat /\ DOMAIN turns = 1..Len(turns)
      /\ \A n \in DOMAIN turns : turns[n] \in Turn
  BY DEF PageTypeOK
<1>2. ASSUME NEW n \in DOMAIN turns,
             \/ RespondTo(n) \/ Fail(n) \/ Drop(n)
             \/ CommitTurn(n) \/ CommitTurnFails(n) \/ Hear(n)
      PROVE  TurnsInv'
  <2>1. /\ DOMAIN turns' = DOMAIN turns /\ UNCHANGED <<known, selected>>
        /\ \A k \in DOMAIN turns : k # n => turns'[k] = turns[k]
    BY <1>2 DEF RespondTo, Fail, Drop, CommitTurn, CommitTurnFails, Hear, Told,
                screen
  <2>2. turns'[n].session = turns[n].session
    BY <1>1, <1>2
       DEF RespondTo, Fail, Drop, CommitTurn, CommitTurnFails, Hear, Told, Turn
  <2>3. /\ turns'[n].reply = "none" => turns'[n].phase = "running"
        /\ turns'[n].phase = "running" => turns'[n].rows = "none"
        /\ turns'[n].rows = "none" => turns'[n].phase \in {"running", "lost"}
        /\ turns'[n].reply = "answer" => turns'[n].rows = "both"
    BY <1>1, <1>2
       DEF Heard, RespondTo, Fail, Drop, CommitTurn, CommitTurnFails, Hear, Told, Turn
  <2> QED
    BY <2>1, <2>2, <2>3
<1>3. CASE SendMessage
  BY <1>1, <1>3 DEF SendMessage, PageTypeOK, screen
<1>4. CASE LeavePage
  BY <1>1, <1>4 DEF LeavePage, Turn
<1>5. ASSUME \/ \E l \in 1..MaxLoads : ListMessages(l) \/ Loaded(l)
             \/ Created \/ Create \/ LoadSessions \/ UNCHANGED pageVars
             \/ \E s \in Sessions : Select(s)
      PROVE  TurnsInv'
  <2>1. UNCHANGED turns /\ known \subseteq known'
    BY <1>5 DEF ListMessages, Loaded, Created, Create, LoadSessions, Select, pageVars
  <2>2. selected' \in known' \cup {NoSession}
    BY <1>5 DEF ListMessages, Loaded, Created, Create, LoadSessions, Select, pageVars, screen
  <2> QED
    BY <2>1, <2>2
<1> QED
  BY <1>2, <1>3, <1>4, <1>5 DEF PageNext, Serve, Arrives, Use

-----------------------------------------------------------------------------
(* Whole turns are shown.                                                    *)

\* What may be shown of T may be shown of U.
Keeps(T, U) == \A n \in DOMAIN T : /\ n \in DOMAIN U
                                   /\ T[n].rows = "none" \/ U[n].rows = T[n].rows
                                   /\ T[n].phase = "stored" => U[n].phase = "stored"

\* What may be shown stays so while turns move on.
LEMMA WholeKept ==
  ASSUME NEW T, NEW U, NEW s, Keeps(T, U), WholeIn(T, s)
  PROVE  WholeIn(U, s)
BY DEF WholeIn, Keeps, MayShow, Has

\* No step takes back rows of a turn, or a commit.
LEMMA TurnsKept ==
  ASSUME PageTypeOK, TurnsInv, [PageNext]_pageVars
  PROVE  Keeps(turns, turns')
<1> USE DEF Keeps
<1>1. /\ Len(turns) \in Nat /\ DOMAIN turns = 1..Len(turns)
      /\ \A n \in DOMAIN turns : turns[n] \in Turn
  BY DEF PageTypeOK
<1>2. ASSUME NEW n \in DOMAIN turns,
             \/ RespondTo(n) \/ Fail(n) \/ Drop(n)
             \/ CommitTurn(n) \/ CommitTurnFails(n) \/ Hear(n)
      PROVE  Keeps(turns, turns')
  <2>1. /\ DOMAIN turns' = DOMAIN turns
        /\ \A k \in DOMAIN turns : k # n => turns'[k] = turns[k]
    BY <1>2 DEF RespondTo, Fail, Drop, CommitTurn, CommitTurnFails, Hear, Told
  <2>2. /\ turns[n].rows = "none" \/ turns'[n].rows = turns[n].rows
        /\ turns[n].phase = "stored" => turns'[n].phase = "stored"
    BY <1>1, <1>2 DEF TurnsInv, PageSane,
       RespondTo, Fail, Drop, CommitTurn, CommitTurnFails, Hear, Told, Turn
  <2> QED
    BY <2>1, <2>2
<1>3. CASE SendMessage
  BY <1>1, <1>3 DEF SendMessage, PageTypeOK
<1>4. CASE LeavePage
  BY <1>1, <1>4 DEF LeavePage, Turn
<1>5. ASSUME \/ \E l \in 1..MaxLoads : ListMessages(l) \/ Loaded(l)
             \/ Created \/ Create \/ LoadSessions \/ UNCHANGED pageVars
             \/ \E s \in Sessions : Select(s)
      PROVE  UNCHANGED turns
  BY <1>5 DEF ListMessages, Loaded, Created, Create, LoadSessions, Select, pageVars
<1> QED
  BY <1>2, <1>3, <1>4, <1>5 DEF PageNext, Serve, Arrives, Use

\* What is shown, or about to be, stays whole.
LEMMA WholeStep ==
  ASSUME PageTypeOK, TurnsInv, PageWhole, [PageNext]_pageVars
  PROVE  PageWhole'
<1>1. \A s : WholeIn(turns, s) => WholeIn(turns', s)
  BY TurnsKept, WholeKept
<1>2. /\ WholeIn(turns', list)
      /\ \A l \in 1..MaxLoads : loads[l].is = "answered" => WholeIn(turns', loads[l].messages)
  BY <1>1 DEF PageWhole
<1>3. WholeIn(turns', <<>>)
  BY DEF WholeIn
<1>4. \A l \in 1..MaxLoads : NoLoad.is # "answered"
  BY DEF NoLoad
<1>5. ASSUME NEW l \in 1..MaxLoads, ListMessages(l) PROVE PageWhole'
  <2>1. PICK t \in Transcripts(loads[l].session) :
               loads' = [loads EXCEPT ![l] = [is |-> "answered", messages |-> t]]
    BY <1>5 DEF ListMessages
  <2>2. WholeIn(turns', t)
    BY <1>1, TranscriptWhole
  <2> QED
    BY <1>2, <1>5, <2>1, <2>2 DEF PageWhole, ListMessages, screen, PageTypeOK
<1>6. ASSUME NEW l \in 1..MaxLoads, Loaded(l) PROVE PageWhole'
  BY <1>2, <1>4, <1>6 DEF PageWhole, Loaded, PageTypeOK
<1>7. ASSUME NEW n \in DOMAIN turns, Hear(n) PROVE PageWhole'
  <2>1. CASE turns[n].reply # "answer"
    BY <1>2, <1>7, <2>1 DEF PageWhole, Hear
  <2>2. CASE turns[n].reply = "answer"
    <3> DEFINE q == QuestionOf(n)
               a == AnswerOf(n)
               s == list \o <<q, a>>
               k == Len(list)
    <3>1. q.turn = n /\ q.role = "question" /\ a.turn = n /\ a.role = "answer"
      BY DEF QuestionOf, AnswerOf
    <3>2. n \in DOMAIN turns' /\ turns'[n].rows = "both"
      <4>1. turns[n] \in Turn /\ turns[n].rows = "both"
        BY <2>2 DEF TurnsInv, PageSane, PageTypeOK
      <4> QED
        BY <1>7, <4>1 DEF Hear, Told, Turn
    <3>3. MayShow(turns'[n], q.role) /\ MayShow(turns'[n], a.role)
      BY <3>2 DEF MayShow, Has
    <3>4. a.turn = n /\ q = QuestionOf(a.turn)
      BY <3>1
    <3> HIDE DEF q, a
    <3>5. /\ k \in Nat /\ DOMAIN list = 1..k /\ DOMAIN s = 1..k + 2
          /\ \A i \in 1..k : s[i] = list[i]
          /\ s[k + 1] = q /\ s[k + 2] = a
      BY DEF PageTypeOK
    <3> HIDE DEF s, k
    <3>6. WholeIn(turns', s)
      <4> SUFFICES ASSUME NEW i \in 1..k + 2
                   PROVE  /\ s[i].turn \in DOMAIN turns' /\ MayShow(turns'[s[i].turn], s[i].role)
                          /\ s[i].role = "answer" =>
                               i = Limit \/ \E j \in 1..k + 2 : s[j] = QuestionOf(s[i].turn)
        BY <3>5 DEF WholeIn
      <4>1. CASE i \in 1..k
        BY <1>2, <3>5, <4>1 DEF WholeIn
      <4>2. CASE i = k + 1
        BY <3>1, <3>2, <3>3, <3>5, <4>2
      <4>3. CASE i = k + 2
        BY <3>1, <3>2, <3>3, <3>4, <3>5, <4>3
      <4> QED
        BY <3>5, <4>1, <4>2, <4>3
    <3> QED
      BY <1>2, <1>7, <2>2, <3>6 DEF PageWhole, Hear, Shown, s, q, a
  <2> QED
    BY <2>1, <2>2
<1>8. CASE Created
  BY <1>2, <1>3, <1>8 DEF PageWhole, Created, screen
<1>9. ASSUME NEW s \in Sessions, Select(s) PROVE PageWhole'
  <2>1. PICK l \in 1..MaxLoads : loads' = [loads EXCEPT ![l] = [is |-> "asked", session |-> s]]
    BY <1>9 DEF Select
  <2> QED
    BY <1>2, <1>9, <2>1 DEF PageWhole, Select, PageTypeOK
<1>10. CASE LeavePage
  BY <1>2, <1>3, <1>10 DEF PageWhole, LeavePage
<1>11. ASSUME UNCHANGED <<list, loads>> PROVE PageWhole'
  BY <1>2, <1>11 DEF PageWhole
<1>12. ASSUME \/ \E n \in DOMAIN turns : \/ RespondTo(n) \/ Fail(n) \/ Drop(n)
                                       \/ CommitTurn(n) \/ CommitTurnFails(n)
              \/ SendMessage \/ Create \/ LoadSessions \/ UNCHANGED pageVars
       PROVE  UNCHANGED <<list, loads>>
  BY <1>12 DEF RespondTo, Fail, Drop, CommitTurn, CommitTurnFails, SendMessage,
               Create, LoadSessions, pageVars, screen
<1> QED
  BY <1>5, <1>6, <1>7, <1>8, <1>9, <1>10, <1>11, <1>12
     DEF PageNext, Serve, Arrives, Use

-----------------------------------------------------------------------------
(* One thing at a time.                                                      *)

\* Once every turn is over, the screen is to have what is committed.
LEMMA SeenWhenEnded ==
  ASSUME AllEnded, NEW s
  PROVE  Seen(s) = Rows(s)
BY DEF AllEnded, Ended, Visible, Seen, Rows

\* A turn under way is alone.
LEMMA AloneFacts ==
  ASSUME OneAtATime, NEW n \in DOMAIN turns, ~Ended(turns[n])
  PROVE  /\ NoLoads /\ ~creating
         /\ n = Len(turns) /\ turns[n].session = selected /\ Hopeful(turns[n])
BY DEF OneAtATime, LoadAlone, CreateAlone, TurnAlone, NoLoads, AllEnded

\* The turn under way moves on, and what the screen is to have of it stays.
LEMMA TurnMoves ==
  ASSUME PageTypeOK, OneAtATime, NEW n \in DOMAIN turns, ~Ended(turns[n]),
         NEW t, turns' = [turns EXCEPT ![n] = t], t.session = turns[n].session,
         Visible(t) <=> Visible(turns[n]), Visible(t) => t.rows = turns[n].rows,
         Ended(t) \/ Hopeful(t), UNCHANGED <<selected, list, loads, creating>>
  PROVE  OneAtATime'
<1>1. Len(turns) \in Nat /\ DOMAIN turns = 1..Len(turns)
  BY DEF PageTypeOK
<1>2. /\ DOMAIN turns' = DOMAIN turns /\ Len(turns') = Len(turns) /\ turns'[n] = t
      /\ \A k \in DOMAIN turns : k # n => turns'[k] = turns[k]
  BY <1>1 DEF PageTypeOK
<1>3. /\ NoLoads /\ ~creating /\ n = Len(turns) /\ turns[n].session = selected
  BY AloneFacts
<1>4. LoadAlone' /\ CreateAlone'
  BY <1>3 DEF LoadAlone, CreateAlone, NoLoads
<1>5. TurnAlone'
  BY <1>2, <1>3 DEF OneAtATime, TurnAlone
<1>6. \A s : Seen(s)' = Seen(s)
  BY <1>2 DEF Seen, Has
<1>7. ScreenRight'
  BY <1>3, <1>6 DEF OneAtATime, ScreenRight, NoLoads
<1> QED
  BY <1>4, <1>5, <1>7 DEF OneAtATime

\* The answer is heard: the list grows by what the screen is to have more.
LEMMA AnswerHeard ==
  ASSUME PageTypeOK, TurnsInv, OneAtATime,
         NEW n \in DOMAIN turns, turns[n].reply = "answer", Hear(n)
  PROVE  OneAtATime'
<1> DEFINE q == QuestionOf(n)
           a == AnswerOf(n)
           s == selected
<1>1. Len(turns) \in Nat /\ DOMAIN turns = 1..Len(turns) /\ turns[n] \in Turn
  BY DEF PageTypeOK
<1>2. /\ DOMAIN turns' = DOMAIN turns /\ Len(turns') = Len(turns)
      /\ turns'[n] = [turns[n] EXCEPT !.reply = "heard", !.awaited = FALSE]
      /\ \A k \in DOMAIN turns : k # n => turns'[k] = turns[k]
      /\ list' = list \o <<q, a>> /\ UNCHANGED <<selected, loads, creating>>
  BY <1>1 DEF Hear, Told, Shown
<1>3. /\ NoLoads /\ ~creating /\ n = Len(turns) /\ turns[n].session = s /\ turns[n].rows = "both"
      /\ turns[n].phase \in {"committing", "stored"}
  <2>1. ~Ended(turns[n])
    BY DEF Ended
  <2>2. turns[n].phase # "lost" /\ turns[n].phase # "running" /\ turns[n].rows = "both"
    BY <2>1, AloneFacts DEF Hopeful, TurnsInv, PageSane
  <2> QED
    BY <1>1, <2>1, <2>2, AloneFacts DEF Turn
<1>4. LoadAlone' /\ CreateAlone'
  BY <1>2, <1>3 DEF LoadAlone, CreateAlone, NoLoads
<1>5. TurnAlone'
  <2>1. Hopeful(turns'[n]) /\ turns'[n].session = s
    BY <1>1, <1>2, <1>3 DEF Hopeful, Turn
  <2> QED
    BY <1>2, <1>3, <2>1 DEF OneAtATime, TurnAlone
<1>6. \A m \in Seen(s) : m.turn < n
  <2>1. \A m \in Seen(s) : m.turn \in 1..n /\ m.turn # n
    BY <1>1, <1>3 DEF Seen, Visible
  <2> QED
    BY <1>1, <2>1
<1>7. Seen(s)' = Seen(s) \cup {q, a}
  <2>1. Visible(turns'[n]) /\ turns'[n].session = s /\ \A role : Has(turns'[n], role)
    BY <1>1, <1>2, <1>3 DEF Visible, Has, Turn
  <2>2. ASSUME NEW m \in Seen(s)' PROVE m \in Seen(s) \cup {q, a}
    <3>1. CASE m.turn = n
      BY <3>1 DEF Seen, QuestionOf, AnswerOf, Roles
    <3>2. CASE m.turn # n
      BY <1>2, <3>2 DEF Seen
    <3> QED
      BY <3>1, <3>2
  <2>3. ASSUME NEW m \in Seen(s) PROVE m \in Seen(s)'
    <3>1. m.turn # n
      BY <1>3, <1>6
    <3> QED
      BY <1>2, <3>1 DEF Seen
  <2>4. q \in Seen(s)' /\ a \in Seen(s)'
    BY <1>2, <2>1 DEF Seen, QuestionOf, AnswerOf, Roles
  <2> QED
    BY <2>2, <2>3, <2>4
<1>8. ScreenRight'
  <2> SUFFICES ASSUME s # NoSession, Cardinality(Seen(s)') <= Limit
               PROVE  list' \in Orders(Seen(s)')
    BY <1>2 DEF ScreenRight
  <2>1. Seen(s) \subseteq Message /\ IsFiniteSet(Seen(s))
    BY MessagesOf
  <2>2. IsFiniteSet(Seen(s)')
    <3>1. IsFiniteSet({q}) /\ IsFiniteSet({a})
      BY FS_Singleton
    <3>2. IsFiniteSet(Seen(s) \cup {q})
      BY <2>1, <3>1, FS_Union
    <3>3. IsFiniteSet((Seen(s) \cup {q}) \cup {a})
      BY <3>1, <3>2, FS_Union
    <3>4. Seen(s)' = (Seen(s) \cup {q}) \cup {a}
      BY <1>7
    <3> QED
      BY <3>3, <3>4
  <2>3. Cardinality(Seen(s)) <= Cardinality(Seen(s)')
    BY <1>7, <2>2, FS_Subset
  <2>4. Cardinality(Seen(s)) \in Nat /\ Cardinality(Seen(s)') \in Nat /\ Limit \in Nat
    BY <2>1, <2>2, FS_CardinalityType, ChatClientAssumption
  <2>5. list \in Orders(Seen(s))
    BY <1>3, <2>3, <2>4 DEF OneAtATime, ScreenRight
  <2>6. list \o <<q, a>> \in Orders(Seen(s) \cup {q, a})
    <3> DEFINE R == Seen(s)
    <3>1. /\ n \in Nat /\ R \in SUBSET Message /\ IsFiniteSet(R)
          /\ \A m \in R : m.turn < n
          /\ list \in Orders(R)
      BY <1>1, <1>6, <2>1, <2>5
    <3> HIDE DEF R
    <3>2. list \o <<q, a>> \in Orders(R \cup {q, a})
      BY <3>1, OrderExtends
    <3> QED
      BY <3>2 DEF R
  <2> QED
    BY <1>2, <1>7, <2>6
<1> QED
  BY <1>4, <1>5, <1>8 DEF OneAtATime

\* While one thing is asked for at a time, the screen keeps pace with it.
LEMMA AloneStep ==
  ASSUME PageInv, [PageNext]_pageVars, clean'
  PROVE  OneAtATime'
<1> USE DEF PageInv
<1>1. /\ Len(turns) \in Nat /\ DOMAIN turns = 1..Len(turns)
      /\ \A n \in DOMAIN turns : turns[n] \in Turn
      /\ DOMAIN loads = 1..MaxLoads /\ clean \in BOOLEAN
  BY DEF PageTypeOK
<1>2. Quiet => NoLoads /\ ~creating /\ AllEnded
  BY DEF Quiet, NoLoads, AllEnded, Ended
<1>3. ASSUME NEW n \in DOMAIN turns,
             RespondTo(n) \/ Fail(n) \/ CommitTurn(n) \/ CommitTurnFails(n)
      PROVE  OneAtATime'
  <2>1. clean /\ UNCHANGED <<selected, list, loads, creating>>
    BY <1>3 DEF RespondTo, Fail, CommitTurn, CommitTurnFails, screen
  <2>2. ~Ended(turns[n])
    BY <1>3 DEF RespondTo, Fail, CommitTurn, CommitTurnFails, Ended
  <2>3. Hopeful(turns[n]) /\ turns[n] \in Turn
    BY <1>1, <2>1, <2>2, AloneFacts
  <2>4. /\ turns[n].reply = "none" <=> turns[n].phase = "running"
        /\ turns[n].rows = "none" => turns[n].phase \in {"running", "lost"}
        /\ turns[n].reply = "answer" => turns[n].rows = "both"
    BY <2>3 DEF TurnsInv, PageSane, Hopeful
  <2>5. PICK t \in Turn :
          /\ turns' = [turns EXCEPT ![n] = t] /\ t.session = turns[n].session
          /\ Visible(t) <=> Visible(turns[n])
          /\ Visible(t) => t.rows = turns[n].rows
          /\ Ended(t) \/ Hopeful(t)
    <3>1. CASE RespondTo(n)
      <4> DEFINE t == [turns[n] EXCEPT !.phase = "committing", !.rows = "both", !.reply = "answer"]
      <4>1. t \in Turn /\ turns' = [turns EXCEPT ![n] = t] /\ t.session = turns[n].session
        BY <2>3, <2>4, <3>1 DEF RespondTo, Heard, Turn
      <4>2. ~Visible(t) /\ ~Visible(turns[n]) /\ Hopeful(t)
        BY <2>3, <2>4, <3>1 DEF RespondTo, Turn, Visible, Hopeful
      <4> QED
        BY <4>1, <4>2
    <3>2. CASE Fail(n)
      <4> DEFINE a == [turns[n] EXCEPT !.phase = "lost", !.reply = "error"]
                 b == [turns[n] EXCEPT !.phase = "committing", !.rows = "question", !.reply = "error"]
      <4>1. PICK t \in {a, b} : turns' = [turns EXCEPT ![n] = t]
        BY <2>4, <3>2 DEF Fail, Heard
      <4>2. t \in Turn /\ t.session = turns[n].session
        BY <2>3, <4>1 DEF Turn
      <4>3. turns[n].rows = "none"
        BY <3>2 DEF Fail, TurnsInv, PageSane
      <4>4. ~Visible(t) /\ ~Visible(turns[n]) /\ Hopeful(t)
        BY <2>3, <2>4, <3>2, <4>1, <4>3 DEF Fail, Turn, Visible, Hopeful
      <4> QED
        BY <4>1, <4>2, <4>4
    <3>3. CASE CommitTurn(n)
      <4> DEFINE t == [turns[n] EXCEPT !.phase = "stored"]
      <4>1. /\ t \in Turn /\ turns' = [turns EXCEPT ![n] = t] /\ t.session = turns[n].session
            /\ t.rows = turns[n].rows /\ t.reply = turns[n].reply /\ t.phase = "stored"
        BY <2>3, <3>3 DEF CommitTurn, Turn
      <4>2. turns[n].rows = "both" /\ turns[n].phase = "committing"
        BY <3>3 DEF CommitTurn
      <4>3. turns[n].reply \in {"answer", "heard"}
        BY <2>3, <2>4, <4>2 DEF Hopeful, Turn
      <4> HIDE DEF t
      <4>4. (Visible(t) <=> Visible(turns[n])) /\ (Ended(t) \/ Hopeful(t))
        BY <4>1, <4>2, <4>3 DEF Visible, Ended, Hopeful
      <4> QED
        BY <4>1, <4>4
    <3>4. CASE CommitTurnFails(n)
      <4> DEFINE t == [turns[n] EXCEPT !.phase = "lost"]
      <4>1. /\ t \in Turn /\ turns' = [turns EXCEPT ![n] = t] /\ t.session = turns[n].session
            /\ t.rows = turns[n].rows /\ t.reply = turns[n].reply /\ t.phase = "lost"
        BY <2>3, <3>4 DEF CommitTurnFails, Turn
      <4>2. turns[n].rows = "question" /\ turns[n].phase = "committing"
        BY <3>4 DEF CommitTurnFails
      <4>3. turns[n].reply \in {"error", "heard"}
        BY <2>3, <2>4, <4>2 DEF Turn
      <4> HIDE DEF t
      <4>4. ~Visible(t) /\ ~Visible(turns[n]) /\ (Ended(t) \/ Hopeful(t))
        BY <4>1, <4>2, <4>3 DEF Visible, Ended, Hopeful
      <4> QED
        BY <4>1, <4>4
    <3> QED
      BY <1>3, <3>1, <3>2, <3>3, <3>4
  <2> QED
    BY <2>1, <2>2, <2>5, TurnMoves
<1>4. ASSUME NEW n \in DOMAIN turns, Hear(n) PROVE OneAtATime'
  <2>1. clean /\ UNCHANGED <<selected, loads, creating>>
    BY <1>4 DEF Hear
  <2>2. ~Ended(turns[n])
    BY <1>4 DEF Hear, Ended
  <2>3. CASE turns[n].reply = "answer"
    BY <1>4, <2>1, <2>3, AnswerHeard
  <2>4. CASE turns[n].reply = "error"
    <3> DEFINE t == [turns[n] EXCEPT !.reply = "heard", !.awaited = FALSE]
    <3>1. /\ t \in Turn /\ turns' = [turns EXCEPT ![n] = t] /\ t.session = turns[n].session
          /\ t.rows = turns[n].rows /\ t.phase = turns[n].phase /\ t.reply = "heard"
      BY <1>1, <1>4 DEF Hear, Told, Turn
    <3>2. Hopeful(turns[n])
      BY <2>1, <2>2, AloneFacts
    <3>3. UNCHANGED list
      BY <1>4, <2>4 DEF Hear
    <3> HIDE DEF t
    <3>4. ~Visible(t) /\ ~Visible(turns[n]) /\ Hopeful(t)
      BY <2>4, <3>1, <3>2 DEF Visible, Hopeful
    <3> QED
      BY <2>1, <2>2, <3>1, <3>3, <3>4, TurnMoves
  <2> QED
    BY <1>4, <2>3, <2>4 DEF Hear
<1>5. ASSUME NEW n \in DOMAIN turns, Drop(n) PROVE FALSE
  BY <1>5 DEF Drop
<1>6. ASSUME NEW l \in 1..MaxLoads, ListMessages(l) PROVE OneAtATime'
  <2>1. /\ clean /\ UNCHANGED <<turns, selected, list, creating>>
        /\ loads[l].is = "asked" /\ loads[l] # NoLoad
    BY <1>6 DEF ListMessages, screen, NoLoad
  <2>2. /\ \A k \in 1..MaxLoads : k # l => loads[k] = NoLoad
        /\ ~creating /\ AllEnded /\ selected # NoSession /\ loads[l].session = selected
    BY <2>1 DEF OneAtATime, LoadAlone
  <2>3. PICK t \in Transcripts(selected) :
               loads' = [loads EXCEPT ![l] = [is |-> "answered", messages |-> t]]
    BY <1>6, <2>2 DEF ListMessages
  <2>4. /\ loads'[l].is = "answered" /\ loads'[l].messages = t /\ loads'[l] # NoLoad
        /\ \A k \in 1..MaxLoads : k # l => loads'[k] = NoLoad
    BY <1>1, <2>2, <2>3 DEF NoLoad
  <2>5. t \in Transcripts(selected)'
    BY <2>1, <2>3 DEF Transcripts, Rows, Has
  <2>6. AllEnded'
    BY <2>1, <2>2 DEF AllEnded
  <2> QED
    BY <2>1, <2>2, <2>4, <2>5, <2>6
       DEF OneAtATime, LoadAlone, CreateAlone, TurnAlone, AllEnded, ScreenRight, NoLoads
<1>7. ASSUME NEW l \in 1..MaxLoads, Loaded(l) PROVE OneAtATime'
  <2>1. /\ clean /\ UNCHANGED <<turns, selected, creating>> /\ loads[l] # NoLoad
        /\ loads[l].is = "answered" /\ list' = loads[l].messages
        /\ loads' = [loads EXCEPT ![l] = NoLoad]
    <3>1. loads[l].is = "answered" /\ list' = loads[l].messages /\ clean
      BY <1>7 DEF Loaded
    <3>2. loads[l] # NoLoad
      BY <3>1 DEF NoLoad
    <3> QED
      BY <1>7, <3>1, <3>2 DEF Loaded
  <2>2. /\ \A k \in 1..MaxLoads : k # l => loads[k] = NoLoad
        /\ ~creating /\ AllEnded /\ list' \in Transcripts(selected)
    BY <2>1 DEF OneAtATime, LoadAlone
  <2>3. NoLoads' /\ AllEnded' /\ \A s : Seen(s)' = Seen(s)
    BY <1>1, <2>1, <2>2 DEF NoLoads, AllEnded, Seen, Has
  <2>4. ASSUME Cardinality(Seen(selected)) <= Limit PROVE list' \in Orders(Seen(selected))
    <3> DEFINE R == Rows(selected)
    <3>1. Seen(selected) = R /\ R \subseteq Message /\ IsFiniteSet(R)
      BY <2>2, SeenWhenEnded, MessagesOf
    <3>2. PICK o \in Orders(R) : list' = Cut(o)
      BY <2>2 DEF Transcripts
    <3> HIDE DEF R
    <3>3. o \in Seq(R) /\ Len(o) = Cardinality(R)
      BY <3>1, OrderFacts
    <3>4. Len(o) <= Limit
      BY <2>4, <3>1, <3>3
    <3>5. Cut(o) = o
      BY <3>3, <3>4, CutFacts
    <3> QED
      BY <3>1, <3>2, <3>5
  <2>5. ScreenRight'
    BY <2>1, <2>3, <2>4 DEF ScreenRight
  <2> QED
    BY <2>1, <2>2, <2>3, <2>5 DEF OneAtATime, LoadAlone, CreateAlone, TurnAlone, NoLoads, AllEnded
<1>8. ASSUME NEW s \in Sessions, Select(s) PROVE OneAtATime'
  <2>1. /\ NoLoads /\ ~creating /\ AllEnded /\ UNCHANGED <<turns, creating>> /\ selected' = s
    BY <1>2, <1>8 DEF Select
  <2>2. PICK l \in 1..MaxLoads : loads' = [loads EXCEPT ![l] = [is |-> "asked", session |-> s]]
    BY <1>8 DEF Select
  <2>3. /\ loads'[l].is = "asked" /\ loads'[l].session = s /\ loads'[l] # NoLoad
        /\ \A k \in 1..MaxLoads : k # l => loads'[k] = NoLoad
    BY <1>1, <2>1, <2>2 DEF NoLoad, NoLoads
  <2>4. s # NoSession
    BY ChatClientAssumption
  <2> QED
    BY <2>1, <2>3, <2>4 DEF OneAtATime, LoadAlone, CreateAlone, TurnAlone, AllEnded, ScreenRight, NoLoads
<1>9. CASE Create
  <2>1. clean /\ NoLoads /\ AllEnded /\ UNCHANGED <<turns, selected, list, loads>>
    BY <1>2, <1>9 DEF Create, screen
  <2>2. \A s : Seen(s)' = Seen(s)
    BY <2>1 DEF Seen, Has
  <2> QED
    BY <2>1, <2>2 DEF OneAtATime, LoadAlone, CreateAlone, TurnAlone, AllEnded, ScreenRight, NoLoads
<1>10. CASE Created
  <2>1. clean /\ ~creating' /\ UNCHANGED <<turns, loads>>
    BY <1>10 DEF Created
  <2>2. NoLoads /\ AllEnded
    BY <1>10, <2>1 DEF Created, OneAtATime, LoadAlone, CreateAlone, NoLoads
  <2>3. \A s : Seen(s)' = Seen(s)
    BY <2>1 DEF Seen, Has
  <2>4. ScreenRight'
    <3>1. CASE UNCHANGED <<selected, list>>
      BY <2>1, <2>2, <2>3, <3>1 DEF ScreenRight, NoLoads, OneAtATime
    <3>2. CASE selected' \notin known /\ list' = <<>>
      <4>1. Seen(selected') = {}
        BY <3>2 DEF Seen, TurnsInv
      <4>2. Cardinality({}) = 0 /\ <<>> \in [1..0 -> {}]
        BY FS_EmptySet
      <4>3. <<>> \in Orders({})
        BY <4>2 DEF Orders
      <4> QED
        BY <2>3, <3>2, <4>1, <4>3 DEF ScreenRight
    <3> QED
      BY <1>10, <3>1, <3>2 DEF Created, screen
  <2> QED
    BY <2>1, <2>2, <2>4 DEF OneAtATime, LoadAlone, CreateAlone, TurnAlone, AllEnded, NoLoads
<1>11. CASE SendMessage
  <2> DEFINE t == [session |-> selected, phase |-> "running", rows |-> "none",
                   reply |-> "none", awaited |-> TRUE]
             k == Len(turns)
  <2>1. /\ clean /\ NoLoads /\ ~creating /\ AllEnded /\ UNCHANGED <<selected, list, loads, creating>>
        /\ turns' = Append(turns, t)
    BY <1>2, <1>11 DEF SendMessage, screen
  <2>2. t.session = selected /\ ~Visible(t) /\ Hopeful(t)
    BY DEF Visible, Hopeful
  <2> HIDE DEF t
  <2>3. /\ DOMAIN turns' = 1..k + 1 /\ Len(turns') = k + 1 /\ turns'[k + 1] = t
        /\ \A n \in 1..k : turns'[n] = turns[n]
    BY <1>1, <2>1 DEF PageTypeOK
  <2>4. TurnAlone'
    BY <1>1, <2>1, <2>2, <2>3 DEF TurnAlone, AllEnded
  <2>5. Seen(selected)' = Seen(selected)
    <3>1. ASSUME NEW m \in Seen(selected)' PROVE m \in Seen(selected)
      <4>1. m.turn \in 1..k + 1 /\ m.turn # k + 1
        BY <2>2, <2>3 DEF Seen
      <4> QED
        BY <1>1, <2>1, <2>3, <4>1 DEF Seen
    <3>2. ASSUME NEW m \in Seen(selected) PROVE m \in Seen(selected)'
      BY <1>1, <2>1, <2>3 DEF Seen
    <3> QED
      BY <3>1, <3>2
  <2> QED
    BY <2>1, <2>4, <2>5 DEF OneAtATime, LoadAlone, CreateAlone, ScreenRight, NoLoads
<1>12. CASE LeavePage
  <2>1. /\ NoLoads /\ ~creating /\ AllEnded /\ selected' = NoSession /\ UNCHANGED <<loads, creating>>
        /\ turns' = [n \in DOMAIN turns |-> [turns[n] EXCEPT !.awaited = FALSE]]
    BY <1>2, <1>12 DEF LeavePage
  <2>2. AllEnded'
    BY <1>1, <2>1 DEF AllEnded, Ended, Turn
  <2> QED
    BY <2>1, <2>2 DEF OneAtATime, LoadAlone, CreateAlone, TurnAlone, AllEnded, ScreenRight, NoLoads
<1>13. CASE UNCHANGED pageVars \/ LoadSessions
  <2>1. clean /\ UNCHANGED <<turns, selected, list, loads, creating>>
    BY <1>13 DEF pageVars, screen, LoadSessions
  <2>2. \A s : Seen(s)' = Seen(s) /\ Transcripts(s)' = Transcripts(s)
    BY <2>1 DEF Seen, Has, Transcripts, Rows
  <2> QED
    BY <2>1, <2>2 DEF OneAtATime, LoadAlone, CreateAlone, TurnAlone, AllEnded, ScreenRight, NoLoads
<1> QED
  BY <1>3, <1>4, <1>5, <1>6, <1>7, <1>8, <1>9, <1>10, <1>11, <1>12, <1>13
     DEF PageNext, Serve, Arrives, Use

-----------------------------------------------------------------------------
(* The theorems of the page.                                                 *)

\* The invariant when the page opens.
LEMMA PageInitially ==
  ASSUME PageInit
  PROVE  PageInv
<1> USE ChatClientAssumption DEF PageInit
<1>1. DOMAIN turns = {} /\ Len(turns) = 0 /\ DOMAIN list = {}
  OBVIOUS
<1>2. PageTypeOK
  <2>1. <<>> \in Seq(Turn) /\ <<>> \in Seq(Message) /\ Len(turns) <= MaxTurns
    OBVIOUS
  <2>2. loads \in [1..MaxLoads -> {NoLoad} \cup Load]
    OBVIOUS
  <2> QED
    BY <2>1, <2>2 DEF PageTypeOK
<1>3. TurnsInv /\ PageWhole
  BY <1>1 DEF TurnsInv, PageSane, PageWhole, WholeIn, NoLoad
<1>4. OneAtATime
  BY <1>1 DEF OneAtATime, LoadAlone, CreateAlone, TurnAlone, ScreenRight
<1> QED
  BY <1>2, <1>3, <1>4 DEF PageInv

\* The inductive invariant of the page.
LEMMA PageInvariant == PageSpec => []PageInv
<1>1. PageInit => PageInv
  BY PageInitially
<1>2. PageInv /\ [PageNext]_pageVars => PageInv'
  BY PageTypesStep, TurnsStep, WholeStep, AloneStep DEF PageInv
<1> QED
  BY <1>1, <1>2, PTL DEF PageSpec

\* The type invariant of the page, for any sessions, limit and bounds.
THEOREM PageTypes == PageSpec => []PageTypeOK
BY PageInvariant, PTL DEF PageInv

\* Whatever races, what handleMessageSent appends and loadMessages puts up are messages of
\* turns the server kept or had answered, an answer after its question but at the limit.
THEOREM PageShowsWhole == PageSpec => []ShownIsWhole
<1>1. PageInv => ShownIsWhole
  <2>1. \A f : Range(f) = {f[x] : x \in DOMAIN f}
    BY DEF Range
  <2> QED
    BY <2>1 DEF PageInv, PageWhole, WholeIn, MayShow, ShownIsWhole
<1> QED
  BY <1>1, PageInvariant, PTL

\* With one thing asked for at a time and none failing, the screen at rest is what another
\* listing would answer: the list handleMessageSent appends to and get_messages agree.
THEOREM QuietPageIsRight == PageSpec => []QuietScreenIsRight
<1>1. PageInv => QuietScreenIsRight
  <2> SUFFICES ASSUME PageInv, Quiet, clean, selected # NoSession, Fits(selected)
               PROVE  list \in Transcripts(selected)
    BY DEF QuietScreenIsRight
  <2> DEFINE R == Rows(selected)
  <2>1. NoLoads /\ AllEnded /\ ScreenRight
    BY DEF PageInv, OneAtATime, Quiet, NoLoads, AllEnded, Ended
  <2>2. Seen(selected) = R /\ IsFiniteSet(R)
    BY <2>1, SeenWhenEnded, MessagesOf DEF PageInv
  <2>3. Cardinality(R) <= Limit
    BY DEF Fits
  <2>4. list \in Orders(R)
    BY <2>1, <2>2, <2>3 DEF ScreenRight
  <2> HIDE DEF R
  <2>5. list \in Seq(R) /\ Len(list) = Cardinality(R)
    BY <2>2, <2>4, OrderFacts
  <2>6. Cut(list) = list
    BY <2>3, <2>5, CutFacts
  <2> QED
    BY <2>4, <2>6 DEF Transcripts, R
<1> QED
  BY <1>1, PageInvariant, PTL
=============================================================================
