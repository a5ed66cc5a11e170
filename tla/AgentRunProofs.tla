--------------------------- MODULE AgentRunProofs ----------------------------
(***************************************************************************)
(* Theorems about AgentRun for any limits, chunks and settings. A call of a   *)
(* model keeps its promise because what it met before were errors of the      *)
(* server, one for each round of its loop; what a run may tell follows from   *)
(* which calls it can have made where it stands. Fusion and reranking put a set *)
(* of chunks in an order: what they return follows from what the order says.  *)
(***************************************************************************)
EXTENDS AgentRun, FiniteSetTheorems, WellFoundedInduction, TLAPS

-----------------------------------------------------------------------------
(* Calls of models.                                                          *)

\* The requests before the next one all met errors of the server.
Counted == /\ Under => \A i \in DOMAIN tried : tried[i] = "server_error"
           /\ phase = "sending" => Len(tried) = attempt
           /\ phase = "sleeping" => Len(tried) = attempt + 1 /\ attempt < MaxRetries

CallInv == CallType /\ Counted

\* A step of the run starts a call, goes on with one, or leaves it alone.
LEMMA CallMoves ==
  ASSUME [Next]_vars
  PROVE  (\E t \in Tasks : Begin(t)) \/ CallStep \/ UNCHANGED callVars
<1> USE DEF Tasks
<1>1. CASE Plan
  BY <1>1 DEF Plan
<1>2. CASE Decided
  BY <1>2 DEF Decided
<1>3. CASE CallTool
  BY <1>3 DEF CallTool
<1>4. CASE Retrieve
  BY <1>4 DEF Retrieve, RagNext, Construct, Embedded, Search, Match, Fuse, Rerank, Reranked,
              Generate, Generated, Calling, Interrupted
<1>5. CASE Audit
  BY <1>5 DEF Audit
<1>6. CASE Fails
  BY <1>6 DEF Fails
<1>7. CASE UNCHANGED vars
  BY <1>7 DEF vars
<1> QED
  BY <1>1, <1>2, <1>3, <1>4, <1>5, <1>6, <1>7 DEF Next, Stopped

LEMMA RaisedIsEnding ==
  ASSUME NEW reply \in Promise!Replies
  PROVE  /\ Raised(reply) \in Endings \ {"none", "cancelled"}
         /\ Raised(reply) \in Promise!Ending(reply)
         /\ Raised(reply) = "value" <=> reply = "value"
BY DEF Raised, Endings, Promise!Ending, Promise!Errors, Promise!Replies

\* The call that is over is the last of the log.
LEMMA OverIsLast ==
  ASSUME log \in Seq([task : Tasks, ended : Endings]), task \in Tasks,
         NEW how \in Endings, Over(how)
  PROVE  /\ log' \in Seq([task : Tasks, ended : Endings])
         /\ Len(log') = Len(log) + 1 /\ log' # <<>>
         /\ log'[Len(log')] = [task |-> task, ended |-> how]
         /\ \A n \in DOMAIN log : log'[n] = log[n]
         /\ ~Under' /\ Outcome' = how
BY DEF Over, Under, Outcome

LEMMA CallsStayCounted ==
  ASSUME CallInv, [Next]_vars
  PROVE  CallInv'
<1> USE MaxRetriesAssumption DEF CallInv, CallType, Counted, Under
<1>1. ASSUME NEW t \in Tasks, Begin(t) PROVE CallInv'
  BY <1>1 DEF Begin
<1>2. CASE Wake
  BY <1>2 DEF Wake
<1>3. CASE Cancel
  <2>1. "cancelled" \in Endings /\ Over("cancelled") /\ UNCHANGED tried
    BY <1>3 DEF Endings, Cancel
  <2> QED
    BY <2>1, OverIsLast DEF Over
<1>4. ASSUME NEW reply \in Promise!Replies, Receive(reply) PROVE CallInv'
  <2>1. /\ tried' \in Seq(Promise!Replies) /\ Len(tried') = Len(tried) + 1
        /\ tried'[Len(tried')] = reply /\ \A i \in DOMAIN tried : tried'[i] = tried[i]
    BY <1>4 DEF Receive
  <2>2. CASE reply = "server_error" /\ attempt < MaxRetries
    BY <1>4, <2>1, <2>2 DEF Receive
  <2>3. CASE Over(Raised(reply))
    BY <2>1, <2>3, RaisedIsEnding, OverIsLast DEF Over
  <2> QED
    BY <1>4, <2>2, <2>3 DEF Receive
<1>5. CASE UNCHANGED callVars
  BY <1>5 DEF callVars
<1> QED
  BY <1>1, <1>2, <1>3, <1>4, <1>5, CallMoves DEF CallStep

\* A step keeps the promise of ModelCall or changes nothing a caller sees.
LEMMA CallPromised ==
  ASSUME CallInv, [Next]_vars
  PROVE  \/ Promise!Open \/ Promise!Return \/ Promise!Abandon
         \/ UNCHANGED <<Under, IF Under THEN <<>> ELSE tried, Outcome>>
<1> USE MaxRetriesAssumption DEF CallInv, CallType, Counted, Under
<1>1. ASSUME NEW t \in Tasks, Begin(t) PROVE Promise!Open
  BY <1>1 DEF Begin, Promise!Open, Outcome
<1>2. CASE Wake
  BY <1>2 DEF Wake, Outcome
<1>3. CASE Cancel
  <2>1. "cancelled" \in Endings /\ Over("cancelled") /\ tried' = tried /\ Under
    BY <1>3 DEF Endings, Cancel
  <2>2. tried \in Promise!Histories
    BY <2>1 DEF Promise!Histories
  <2> QED
    BY <2>1, <2>2, OverIsLast DEF Promise!Abandon, Promise!OnlyServerErrors
<1>4. ASSUME NEW reply \in Promise!Replies, Receive(reply)
      PROVE  Promise!Return \/ UNCHANGED <<Under, IF Under THEN <<>> ELSE tried, Outcome>>
  <2>1. /\ tried' \in Seq(Promise!Replies) /\ Len(tried') = Len(tried) + 1
        /\ tried'[Len(tried')] = reply /\ \A i \in DOMAIN tried : tried'[i] = tried[i]
    BY <1>4 DEF Receive
  <2>2. CASE phase' = "sleeping"
    BY <1>4, <2>2 DEF Receive, Outcome
  <2>3. CASE Over(Raised(reply)) /\ (reply # "server_error" \/ attempt >= MaxRetries)
    <3>1. ~Under' /\ Outcome' \in Promise!Ending(reply)
      BY <2>3, OverIsLast, RaisedIsEnding
    <3>2. phase = "sending" /\ Len(tried) = attempt
      BY <1>4 DEF Receive
    <3>3. tried' \in Promise!Histories
      BY <2>1, <3>2 DEF Promise!Histories
    <3>4. Promise!OnlyServerErrors(Promise!Front(tried'))
      BY <2>1, <3>2 DEF Promise!OnlyServerErrors, Promise!Front
    <3>5. Promise!Complete(tried')
      BY <2>1, <2>3, <3>2, <3>4 DEF Promise!Complete
    <3> QED
      BY <2>1, <3>1, <3>2, <3>3, <3>5 DEF Promise!Return
  <2> QED
    BY <1>4, <2>2, <2>3 DEF Receive
<1>5. CASE UNCHANGED callVars
  BY <1>5 DEF callVars, Outcome
<1> QED
  BY <1>1, <1>2, <1>3, <1>4, <1>5, CallMoves DEF CallStep

LEMMA CallInitial ==
  ASSUME Init
  PROVE  CallInv /\ Promise!CallInit
BY MaxRetriesAssumption DEF Init, Quiet, CallInv, CallType, Counted, Under, Outcome, Tasks, Promise!CallInit

THEOREM CallsCounted == Spec => []CallInv
BY CallInitial, CallsStayCounted, PTL DEF Spec

\* Every call of a model, the planner's, the embedding's, the reranker's or the answer's,
\* is the one ModelCall promises (generate, _async_embed): a refinement.
THEOREM CallsKeepPromise == Spec => CallPromise
<1>1. Spec => Promise!CallInit
  BY CallInitial DEF Spec
<1> QED
  BY <1>1, CallsCounted, CallPromised, PTL DEF Spec, CallPromise, Promise!CallSpec

-----------------------------------------------------------------------------
(* The run. Where it stands says which calls it can have made.                *)

Callers == {"deciding", "embedding", "reranking", "generating"}
For(p) == CASE p = "deciding" -> "plan" [] p = "embedding" -> "embed"
            [] p = "reranking" -> "rerank" [] p = "generating" -> "generate"

Ended == {"answered", "done", "raised"}
\* Where a call for t may lie behind.
After(t) == CASE t = "plan" -> PC \ {"planning"}
              [] t = "embed" -> PC \ {"planning", "deciding", "tool", "start"}
              [] t = "rerank" -> {"reranking", "reranked", "generating"} \cup Ended
              [] t = "generate" -> {"generating"} \cup Ended

\* Each task is asked once, where its caller waits, and its failure is what the caller sees.
Asking == /\ \A t \in Tasks : Asked(t) => pc \in After(t)
          /\ Under => pc \in Callers /\ task = For(pc) /\ ~Asked(task)
          /\ ~Under /\ pc \in Callers => /\ log # <<>> /\ log[Len(log)].task = For(pc)
                                         /\ Asked(For(pc))
                                         /\ Failed(For(pc)) => Outcome # "value"

\* A failed embedding or generation ends the run, a failed reranking has its reason.
Failures == /\ Failed("embed") => pc \in {"embedding", "raised"}
            /\ Failed("generate") => pc \in {"generating", "raised"}
            /\ Failed("rerank") => pc = "reranking" \/ reason = "failed"
            /\ reason = "failed" => Asked("rerank")

\* An answer is there only at the end, and no failure before it; an exception is the
\* last call's when a provider can raise it.
Answers == /\ answer # "none" => pc \in Ended /\ ~Failed("embed") /\ ~Failed("generate")
           /\ pc = "done" => end = "answered"
           /\ pc \notin Ended => end = "none"
           /\ pc = "answered" => end = "none"
           /\ end \in {"timeout_error", "response_error", "value_error"} =>
                LET last == log[Len(log)] IN last.task \in {"embed", "generate"} /\ last.ended = end

\* The planner followed.
Plans == /\ pc \in {"planning", "deciding"} => planned = "none"
         /\ pc = "deciding" => conf.planner = "llm"
         /\ planned = "none" => ~fallback
         /\ planned = "rules" => (fallback <=> conf.planner = "llm")
         /\ planned = "llm" => ~fallback /\ conf.planner = "llm" /\ Asked("plan") /\ ~Failed("plan")
         /\ fallback => Asked("plan") \/ "llm" \notin conf.providers

\* The step taken: a tool's or RAGAgent's.
Steps == /\ pc \in {"planning", "deciding", "tool"} => ran = "none" /\ status = "none"
         /\ tool_calls = IF ran \in {"success", "error"} THEN 1 ELSE 0
         /\ status = "success" <=> ran = "success"
         /\ status = "skipped" => ran = "none"
         /\ ran # "none" => ~Asked("generate") /\ pc \in Ended
         /\ pc \notin {"planning", "deciding", "tool", "raised"} /\ ran = "none" /\ conf.agent = "react" =>
              status = "skipped"
         /\ pc \in {"answered", "done"} /\ ran = "none" => Asked("generate")

\* The row is written last, from the run's own variables.
Row == /\ row # NoRow => pc = "done"
       /\ row.action = "react.run" =>
            /\ conf.agent = "react"
            /\ row.tool_calls = tool_calls /\ row.final_status = status
            /\ row.used_fallback <=> status = "skipped"
            /\ row.planner = planned /\ row.reason = fallback
       /\ row.action = "rag.query" => row.reranker_reason = reason
       /\ pc # "done" => row.action = "none"
       /\ conf.agent = "react" /\ pc \notin {"planning", "deciding"} => planned # "none"

RunInv == CallInv /\ RunType /\ Asking /\ Failures /\ Answers /\ Plans /\ Steps /\ Row

LEMMA ForIs ==
  /\ For("deciding") = "plan" /\ For("embedding") = "embed"
  /\ For("reranking") = "rerank" /\ For("generating") = "generate"
BY DEF For

LEMMA AfterIs ==
  /\ After("plan") = PC \ {"planning"}
  /\ After("embed") = PC \ {"planning", "deciding", "tool", "start"}
  /\ After("rerank") = {"reranking", "reranked", "generating"} \cup Ended
  /\ After("generate") = {"generating"} \cup Ended
BY DEF After

\* What has been asked stays so while the log is left alone.
LEMMA LogKept ==
  ASSUME UNCHANGED log, NEW t
  PROVE  (Asked(t)' <=> Asked(t)) /\ (Failed(t)' <=> Failed(t))
BY DEF Asked, Failed

\* The end of a call adds what it was for, and whether it failed.
LEMMA LogGrows ==
  ASSUME CallInv, NEW how \in Endings, Over(how), NEW t
  PROVE  /\ Asked(t)' <=> Asked(t) \/ t = task
         /\ Failed(t)' <=> Failed(t) \/ (t = task /\ how # "value")
<1>1. /\ log \in Seq([task : Tasks, ended : Endings]) /\ task \in Tasks
      /\ Len(log') = Len(log) + 1 /\ log' \in Seq([task : Tasks, ended : Endings])
      /\ log'[Len(log')] = [task |-> task, ended |-> how]
      /\ \A n \in DOMAIN log : log'[n] = log[n]
  BY OverIsLast DEF CallInv, CallType
<1>2. DOMAIN log' = DOMAIN log \cup {Len(log')} /\ Len(log') \in DOMAIN log'
  BY <1>1
<1> QED
  BY <1>1, <1>2 DEF Asked, Failed

\* The steps of a call under way leave the rest of the run alone.
LEMMA CallingKeeps ==
  ASSUME RunInv, CallStep, UNCHANGED <<ragVars, runVars>>
  PROVE  Asking' /\ Failures' /\ Answers' /\ Plans'
<1> USE ForIs, AfterIs DEF RunInv, Callers
<1>1. /\ Under /\ pc \in Callers /\ task = For(pc) /\ ~Asked(task) /\ task \in Tasks
      /\ pc \notin Ended /\ UNCHANGED <<pc, conf, reason, end, planned, fallback, answer>> /\ UNCHANGED task
  BY DEF CallStep, Cancel, Wake, Receive, Over, Under, Asking, Ended, ragVars, runVars, CallInv, CallType
<1>2. CASE Under' /\ UNCHANGED log
  BY <1>1, <1>2, LogKept DEF Asking, Failures, Answers, Plans
<1>3. ASSUME NEW how \in Endings, Over(how) PROVE Asking' /\ Failures' /\ Answers' /\ Plans'
  <2>1. /\ ~Under' /\ log' # <<>> /\ log'[Len(log')] = [task |-> task, ended |-> how] /\ Outcome' = how
    BY <1>3, OverIsLast DEF CallInv, CallType
  <2>2. \A t \in Tasks : Asked(t)' <=> Asked(t) \/ t = task
    BY <1>3, LogGrows
  <2>3. \A t \in Tasks : Failed(t)' <=> Failed(t) \/ (t = task /\ how # "value")
    BY <1>3, LogGrows
  <2>4. ~Failed(task)
    BY <1>1 DEF Asked, Failed
  <2>5. Asking'
    <3>1. pc \in After(task)
      BY <1>1 DEF PC, Ended
    <3>2. \A t \in Tasks : Asked(t)' => pc' \in After(t)
      BY <1>1, <2>2, <3>1 DEF Asking
    <3>3. Asked(For(pc))' /\ (Failed(For(pc))' => how # "value")
      BY <1>1, <2>2, <2>3, <2>4
    <3> QED
      BY <1>1, <2>1, <3>2, <3>3 DEF Asking
  <2>6. Failures'
    BY <1>1, <2>1, <2>2, <2>3, <2>4 DEF Failures, Tasks
  <2>7. Answers' /\ Plans'
    BY <1>1, <2>1, <2>2, <2>3, <2>4 DEF Answers, Plans, Tasks, Asking
  <2> QED
    BY <2>5, <2>6, <2>7
<1>4. (Under' /\ UNCHANGED log) \/ \E how \in Endings : Over(how)
  BY RaisedIsEnding DEF CallStep, Cancel, Wake, Receive, Endings, Under
<1> QED
  BY <1>2, <1>3, <1>4

LEMMA TypesKept ==
  ASSUME RunType, [Next]_vars
  PROVE  RunType'
<1> USE DEF RunType, PC, Goto, Raise
<1>1. CASE Retrieve
  <2>1. /\ pc' \in PC /\ UNCHANGED conf /\ reason' \in {"none", "unsupported", "failed"}
    BY <1>1 DEF Retrieve, RagNext, Construct, Embedded, Search, Match, Hold, Fuse, Rerank, Reranked,
                Generate, Generated, Calling, Interrupted, ragVars
  <2> QED
    BY <1>1, <2>1 DEF Retrieve
<1>2. CASE Plan
  BY <1>2 DEF Plan, Decide, runVars
<1>3. CASE Decided
  BY <1>3 DEF Decided, Decide
<1>4. CASE CallTool
  BY <1>4 DEF CallTool
<1>5. CASE Audit \/ Fails \/ UNCHANGED vars
  BY <1>5 DEF Audit, Fails, vars, ragVars, runVars
<1> QED
  BY <1>1, <1>2, <1>3, <1>4, <1>5 DEF Next, Stopped

Flow == Asking /\ Failures /\ Answers /\ Plans /\ Steps /\ Row

\* A task not asked for has not failed.
LEMMA FailedIsAsked ==
  ASSUME NEW t, Failed(t)
  PROVE  Asked(t)
BY DEF Asked, Failed

LEMMA FlowKept ==
  ASSUME RunInv, [Next]_vars
  PROVE  Flow'
<1> USE ForIs, AfterIs, FailedIsAsked DEF RunInv, RunType, PC, Callers, Ended, Tasks
<1>1. CASE Plan
  BY <1>1, LogKept DEF Plan, Decide, Goto, Begin, callVars, listVars, runVars, Flow,
         Asking, Failures, Answers, Plans, Steps, Row, Under
<1>2. CASE Decided
  <2>1. Asking'
    BY <1>2, LogKept DEF Decided, Decide, Goto, callVars, listVars, Asking, Under
  <2>2. Failures'
    BY <1>2, LogKept DEF Decided, Decide, Goto, callVars, listVars, Failures, Asking
  <2>3. Answers'
    BY <1>2, LogKept DEF Decided, Decide, Goto, callVars, listVars, Answers, Asking, Outcome, Failures
  <2>4. Plans'
    BY <1>2, LogKept DEF Decided, Decide, Goto, callVars, listVars, Plans, Asking
  <2>5. Steps'
    BY <1>2, LogKept DEF Decided, Decide, Goto, callVars, listVars, Steps, Asking
  <2>6. Row'
    BY <1>2, LogKept DEF Decided, Decide, Goto, callVars, listVars, Row, Plans
  <2> QED
    BY <2>1, <2>2, <2>3, <2>4, <2>5, <2>6 DEF Flow
<1>3. CASE CallTool
  BY <1>3, LogKept DEF CallTool, Goto, callVars, listVars, Flow,
         Asking, Failures, Answers, Plans, Steps, Row, Under
<1>4. CASE Audit
  BY <1>4, LogKept DEF Audit, Goto, callVars, listVars, Flow, NoRow,
         Asking, Failures, Answers, Plans, Steps, Row, Under
<1>5. CASE Fails
  BY <1>5, LogKept DEF Fails, Raise, Goto, callVars, listVars, runVars, Flow,
         Asking, Failures, Answers, Plans, Steps, Row, Under
<1>6. CASE UNCHANGED vars
  BY <1>6, LogKept DEF vars, ragVars, callVars, listVars, runVars, Flow,
         Asking, Failures, Answers, Plans, Steps, Row, Under, Outcome
<1>7. CASE Retrieve
  <2> USE <1>7 DEF Retrieve
  <2>1. CASE Construct
    BY <2>1, LogKept DEF Construct, Raise, Goto, Begin, callVars, listVars, Flow,
           Asking, Failures, Answers, Plans, Steps, Row, Under
  <2>2. CASE Embedded
    <3>1. Asking'
      BY <2>2, LogKept DEF Embedded, Raise, Goto, callVars, listVars, Asking, Under
    <3>2. Failures'
      BY <2>2, LogKept DEF Embedded, Raise, Goto, callVars, listVars, Failures, Asking
    <3>3. Answers'
      BY <2>2, LogKept DEF Embedded, Raise, Goto, callVars, listVars, Answers, Asking, Outcome, Failures
    <3>4. Plans'
      BY <2>2, LogKept DEF Embedded, Raise, Goto, callVars, listVars, Plans, Asking
    <3>5. Steps'
      BY <2>2, LogKept DEF Embedded, Raise, Goto, callVars, listVars, Steps, Asking
    <3>6. Row'
      BY <2>2, LogKept DEF Embedded, Raise, Goto, callVars, listVars, Row, Plans
    <3> QED
      BY <3>1, <3>2, <3>3, <3>4, <3>5, <3>6 DEF Flow
  <2>3. CASE Search \/ Match \/ Fuse
    <3>1. /\ UNCHANGED <<callVars, conf, reason, end>>
          /\ pc \in {"searching", "matching", "fusing"} /\ pc' \in {"matching", "fusing", "retrieved"}
      BY <2>3 DEF Search, Match, Hold, Fuse, Goto
    <3> QED
      BY <3>1, LogKept DEF callVars, Flow, Asking, Failures, Answers, Plans, Steps, Row, Under
  <2>4. CASE Rerank
    BY <2>4, LogKept DEF Rerank, Goto, Begin, callVars, Flow,
           Asking, Failures, Answers, Plans, Steps, Row, Under
  <2>5. CASE Reranked
    <3>1. /\ UNCHANGED <<callVars, conf, end>> /\ pc = "reranking" /\ ~Under /\ pc' = "reranked"
          /\ reason' = "failed" \/ (Outcome = "value" /\ reason' = reason)
      BY <2>5 DEF Reranked, Goto
    <3> QED
      BY <3>1, LogKept DEF callVars, Flow, Asking, Failures, Answers, Plans, Steps, Row, Under
  <2>6. CASE Generate
    BY <2>6, LogKept DEF Generate, Goto, Begin, callVars, listVars, Flow,
           Asking, Failures, Answers, Plans, Steps, Row, Under
  <2>7. CASE Generated
    <3>1. Asking'
      BY <2>7, LogKept DEF Generated, Raise, Goto, callVars, listVars, Asking, Under
    <3>2. Failures'
      BY <2>7, LogKept DEF Generated, Raise, Goto, callVars, listVars, Failures, Asking
    <3>3. Answers'
      BY <2>7, LogKept DEF Generated, Raise, Goto, callVars, listVars, Answers, Asking, Outcome, Failures
    <3>4. Plans'
      BY <2>7, LogKept DEF Generated, Raise, Goto, callVars, listVars, Plans, Asking
    <3>5. Steps'
      BY <2>7, LogKept DEF Generated, Raise, Goto, callVars, listVars, Steps, Asking
    <3>6. Row'
      BY <2>7, LogKept DEF Generated, Raise, Goto, callVars, listVars, Row, Plans
    <3> QED
      BY <3>1, <3>2, <3>3, <3>4, <3>5, <3>6 DEF Flow
  <2>8. CASE Calling
    <3>1. CallStep /\ UNCHANGED <<ragVars, runVars>> /\ pc \in Callers
      BY <2>8 DEF Calling, ragVars, runVars, Asking, CallStep, Cancel, Wake, Receive, Under
    <3>2. Asking' /\ Failures' /\ Answers' /\ Plans'
      BY <3>1, CallingKeeps
    <3>3. Steps' /\ Row'
      BY <3>1 DEF ragVars, runVars, Steps, Row
    <3> QED
      BY <3>2, <3>3 DEF Flow
  <2>9. CASE Interrupted
    BY <2>9, LogKept DEF Interrupted, Raise, Goto, callVars, listVars, Flow,
           Asking, Failures, Answers, Plans, Steps, Row, Under
  <2> QED
    BY <2>1, <2>2, <2>3, <2>4, <2>5, <2>6, <2>7, <2>8, <2>9 DEF RagNext
<1> QED
  BY <1>1, <1>2, <1>3, <1>4, <1>5, <1>6, <1>7 DEF Next, Stopped

LEMMA RunInitial ==
  ASSUME Init
  PROVE  RunInv
<1>1. RunType
  BY ConfigurationsAssumption DEF Init, RunType, PC
<1>2. log = <<>> /\ ~Under /\ \A t \in Tasks : ~Asked(t) /\ ~Failed(t)
  BY DEF Init, Quiet, Under, Asked, Failed
<1>3. Flow
  BY <1>2 DEF Init, Flow, Asking, Failures, Answers, Plans, Steps, Row, NoRow, Callers, Ended, Tasks
<1> QED
  BY <1>1, <1>3, CallInitial DEF RunInv, Flow

LEMMA RunStep ==
  ASSUME RunInv, [Next]_vars
  PROVE  RunInv'
BY CallsStayCounted, TypesKept, FlowKept DEF RunInv, Flow

THEOREM Inductive == Spec => []RunInv
BY RunInitial, RunStep, PTL DEF Spec

-----------------------------------------------------------------------------
(* The results.                                                              *)

\* The state of a run and of its calls has its types, whatever the limits.
THEOREM TypeCorrect == Spec => []TypeOK
<1>1. RunInv => TypeOK
  BY DEF RunInv, CallInv, TypeOK
<1> QED
  BY <1>1, Inductive, PTL

\* No failure of the planner's or the reranker's model reaches the caller of a run, whatever
\* the settings: an exception of a provider is that of the last call, an embedding or a
\* generation, and what is answered rests on none that failed (_plan, _rerank, query).
THEOREM FailuresContained == Spec => []OnlyTheseFail
<1>1. RunInv => OnlyTheseFail
  BY DEF RunInv, Answers, OnlyTheseFail
<1> QED
  BY <1>1, Inductive, PTL

\* The audit row of a run agrees with what ran, who planned and what was reranked, also
\* when a tool raised or the answer was replaced for want of steps (_write_audit_log,
\* _process_rag_query).
THEOREM RowsTellRuns == Spec => []RowTellsRun
<1>1. ASSUME RunInv PROVE RowTellsRun
  <2>1. CASE row.action = "react.run"
    <3>1. row # NoRow
      BY <2>1 DEF NoRow
    <3> QED
      BY <1>1, <2>1, <3>1 DEF RunInv, RunType, Plans, Steps, Row, RowTellsRun, Ended
  <2>2. CASE row.action = "rag.query"
    <3>1. row # NoRow
      BY <2>2 DEF NoRow
    <3> QED
      BY <1>1, <2>2, <3>1 DEF RunInv, Failures, Row, RowTellsRun
  <2> QED
    BY <2>1, <2>2 DEF RowTellsRun
<1> QED
  BY <1>1, Inductive, PTL

-----------------------------------------------------------------------------
(* The lists: what the searches, the fusion and the reranker return.          *)

\* A ranking is a sequence of chunks, none twice.
LEMMA RankingFacts ==
  ASSUME NEW s \in Rankings
  PROVE  /\ s \in Seq(Chunks) /\ Len(s) \in Nat /\ Len(s) <= TopK /\ DOMAIN s = 1..Len(s)
         /\ s \in [1..Len(s) -> Chunks] /\ IsInjective(s)
<1>1. PICK n \in 0..TopK : s \in [1..n -> Chunks] /\ IsInjective(s)
  BY DEF Rankings
<1> QED
  BY <1>1, RagAssumption

\* Where something stands in a ranking.
LEMMA RankFacts ==
  ASSUME NEW s \in Rankings, NEW c
  PROVE  /\ Rank(c, s) \in 0..Len(s)
         /\ Rank(c, s) # 0 <=> c \in Range(s)
         /\ Rank(c, s) # 0 => s[Rank(c, s)] = c
         /\ \A i \in 1..Len(s) : s[i] = c => Rank(c, s) = i
<1>0. Len(s) \in Nat /\ DOMAIN s = 1..Len(s) /\ IsInjective(s)
  BY RankingFacts
<1>1. CASE c \in Range(s)
  <2>1. \E i \in DOMAIN s : s[i] = c
    BY <1>1 DEF Range
  <2> DEFINE k == CHOOSE i \in DOMAIN s : s[i] = c
  <2>2. k \in 1..Len(s) /\ s[k] = c
    BY <1>0, <2>1
  <2>3. Rank(c, s) = k
    BY <1>1 DEF Rank
  <2> HIDE DEF k
  <2> QED
    BY <1>0, <1>1, <2>2, <2>3 DEF IsInjective
<1>2. CASE c \notin Range(s)
  BY <1>0, <1>2 DEF Rank, Range
<1> QED
  BY <1>1, <1>2

\* An order of a finite set by a relation that puts nothing before itself names all of it once.
LEMMA OrderFacts ==
  ASSUME NEW S, IsFiniteSet(S), NEW before, \A x : <<x, x>> \notin before,
         NEW s \in InOrder(S, before)
  PROVE  /\ Cardinality(S) \in Nat /\ s \in [1..Cardinality(S) -> S]
         /\ IsInjective(s) /\ Range(s) = S
         /\ \A i, j \in 1..Cardinality(S) : i < j => <<s[i], s[j]>> \in before
<1> DEFINE n == Cardinality(S)
<1>1. n \in Nat
  BY FS_CardinalityType
<1>2. s \in [1..n -> S] /\ \A i, j \in 1..n : i < j => <<s[i], s[j]>> \in before
  BY DEF InOrder
<1> HIDE DEF n
<1>3. IsInjective(s)
  <2>1. ASSUME NEW i \in 1..n, NEW j \in 1..n, s[i] = s[j]
        PROVE  i = j
    <3>1. <<s[i], s[j]>> \notin before /\ <<s[j], s[i]>> \notin before
      BY <2>1
    <3> QED
      BY <1>1, <1>2, <3>1
  <2> QED
    BY <1>2, <2>1 DEF IsInjective
<1>4. IsFiniteSet(1..n) /\ Cardinality(1..n) = n
  BY <1>1, FS_Interval
<1>5. s \in Injection(1..n, S)
  BY <1>2, <1>3 DEF Injection
<1>6. s \in Surjection(1..n, S)
  BY <1>4, <1>5, FS_Injection DEF n
<1>7. Range(s) = S
  BY <1>2, <1>6 DEF Surjection, Range
<1> QED
  BY <1>1, <1>2, <1>3, <1>7 DEF n

\* The least number of a set of naturals.
LEMMA LeastIn ==
  ASSUME NEW T \in SUBSET Nat, T # {}
  PROVE  \E n \in T : \A m \in T : n <= m
<1>1. IsWellFoundedOn(OpToRel(<, Nat), Nat)
  BY NatLessThanWellFounded
<1>2. PICK n \in T : \A m \in T : ~(<<m, n>> \in OpToRel(<, Nat))
  BY <1>1, WFMin
<1>3. \A m \in T : ~(m < n)
  BY <1>2 DEF OpToRel
<1> QED
  BY <1>3

\* A relation that tells of any two things of S which comes first.
Linear(S, before) ==
  /\ \A a, b \in S : a = b \/ <<a, b>> \in before \/ <<b, a>> \in before
  /\ \A a, b, c \in S : <<a, b>> \in before /\ <<b, c>> \in before => <<a, c>> \in before

\* In an order there is a place for one more.
LEMMA Inserted ==
  ASSUME NEW S, IsFiniteSet(S), NEW before, Linear(S, before), NEW x \in S,
         NEW s \in InOrder(S \ {x}, before)
  PROVE  InOrder(S, before) # {}
<1> DEFINE n == Cardinality(S \ {x})
<1>a. Cardinality(S) = n + 1 /\ n \in Nat
  <2>1. IsFiniteSet(S \ {x}) /\ Cardinality(S \ {x}) = Cardinality(S) - 1
    BY FS_RemoveElement
  <2> QED
    BY <2>1, FS_CardinalityType
<1>b. s \in [1..n -> S \ {x}] /\ \A i, j \in 1..n : i < j => <<s[i], s[j]>> \in before
  BY DEF InOrder
<1> HIDE DEF n
<1> USE <1>a, <1>b DEF Linear
<1> DEFINE T == {i \in 1..(n + 1) : i = n + 1 \/ <<x, s[i]>> \in before}
<1>1. PICK p \in T : \A i \in T : p <= i
  <2>1. n + 1 \in T /\ T \in SUBSET Nat
    OBVIOUS
  <2> HIDE DEF T
  <2> QED
    BY <2>1, LeastIn
<1>2. p \in 1..(n + 1) /\ (p = n + 1 \/ <<x, s[p]>> \in before)
  OBVIOUS
<1>3. \A i \in 1..n : i < p => <<s[i], x>> \in before
  <2> SUFFICES ASSUME NEW i \in 1..n, i < p PROVE <<s[i], x>> \in before
    OBVIOUS
  <2>1. i \notin T
    BY <1>1, <1>2
  <2>2. ~(<<x, s[i]>> \in before) /\ s[i] \in S /\ s[i] # x
    BY <2>1
  <2> QED
    BY <2>2
<1>4. \A i \in 1..n : i >= p => <<x, s[i]>> \in before
  <2> SUFFICES ASSUME NEW i \in 1..n, i >= p PROVE <<x, s[i]>> \in before
    OBVIOUS
  <2>1. p \in 1..n /\ <<x, s[p]>> \in before /\ (p = i \/ <<s[p], s[i]>> \in before)
    BY <1>2
  <2>2. s[p] \in S /\ s[i] \in S
    BY <2>1
  <2> QED
    BY <2>1, <2>2
<1> DEFINE t == [i \in 1..(n + 1) |-> IF i < p THEN s[i] ELSE IF i = p THEN x ELSE s[i - 1]]
<1>5. \A i \in 1..(n + 1) : /\ i < p => i \in 1..n /\ t[i] = s[i]
                            /\ i = p => t[i] = x
                            /\ i > p => i - 1 \in 1..n /\ t[i] = s[i - 1]
  BY <1>2
<1>6. t \in [1..(n + 1) -> S]
  BY <1>2
<1> HIDE DEF t, T
<1>7. ASSUME NEW i \in 1..(n + 1), NEW j \in 1..(n + 1), i < j
      PROVE  <<t[i], t[j]>> \in before
  <2>1. CASE j < p
    BY <1>2, <1>5, <1>7, <2>1
  <2>2. CASE j = p
    BY <1>2, <1>3, <1>5, <1>7, <2>2
  <2>3. CASE i < p /\ p < j
    <3>1. t[i] = s[i] /\ t[j] = s[j - 1] /\ i \in 1..n /\ j - 1 \in 1..n /\ i < j - 1
      BY <1>2, <1>5, <2>3
    <3> QED
      BY <3>1
  <2>4. CASE i = p
    <3>1. t[i] = x /\ t[j] = s[j - 1] /\ j - 1 \in 1..n /\ j - 1 >= p
      BY <1>2, <1>5, <1>7, <2>4
    <3> QED
      BY <1>4, <3>1
  <2>5. CASE i > p
    <3>1. t[i] = s[i - 1] /\ t[j] = s[j - 1] /\ i - 1 \in 1..n /\ j - 1 \in 1..n /\ i - 1 < j - 1
      BY <1>2, <1>5, <1>7, <2>5
    <3> QED
      BY <3>1
  <2> QED
    BY <1>2, <1>7, <2>1, <2>2, <2>3, <2>4, <2>5
<1>8. t \in InOrder(S, before)
  BY <1>6, <1>7 DEF InOrder
<1> QED
  BY <1>8

\* A finite set can be put in order by a relation that is total and transitive on it.
LEMMA OrderExists ==
  ASSUME NEW S, IsFiniteSet(S), NEW before, Linear(S, before)
  PROVE  InOrder(S, before) # {}
<1> SUFFICES ASSUME InOrder(S, before) = {} PROVE FALSE
  OBVIOUS
<1> DEFINE Bad == {A \in SUBSET S : InOrder(A, before) = {}}
           T == {Cardinality(A) : A \in Bad}
<1>1. \A A \in SUBSET S : IsFiniteSet(A) /\ Cardinality(A) \in Nat
  BY FS_Subset, FS_CardinalityType
<1>2. PICK n \in T : \A m \in T : n <= m
  <2>1. T \in SUBSET Nat /\ T # {}
    BY <1>1
  <2> HIDE DEF T
  <2> QED
    BY <2>1, LeastIn
<1>3. PICK A \in Bad : Cardinality(A) = n
  OBVIOUS
<1>4. IsFiniteSet(A) /\ Cardinality(A) \in Nat /\ Linear(A, before)
  BY <1>1 DEF Linear
<1>5. PICK x \in A : TRUE
  <2>1. <<>> \in InOrder({}, before)
    BY FS_EmptySet DEF InOrder
  <2> QED
    BY <1>3, <2>1
<1>6. A \ {x} \notin Bad
  <2>1. Cardinality(A \ {x}) = Cardinality(A) - 1
    BY <1>4, <1>5, FS_RemoveElement
  <2>2. A \ {x} \in Bad => Cardinality(A \ {x}) \in T
    OBVIOUS
  <2> QED
    BY <1>2, <1>3, <1>4, <2>1, <2>2
<1>7. InOrder(A, before) # {}
  <2>1. PICK s \in InOrder(A \ {x}, before) : TRUE
    BY <1>6
  <2> QED
    BY <1>4, <1>5, <2>1, Inserted
<1> QED
  BY <1>3, <1>7

\* A ranking has as many chunks as places.
LEMMA RankedChunks ==
  ASSUME NEW s \in Rankings
  PROVE  /\ IsFiniteSet(Range(s)) /\ Cardinality(Range(s)) = Len(s)
         /\ Range(s) \subseteq Chunks
<1>1. /\ s \in [1..Len(s) -> Chunks] /\ Len(s) \in Nat /\ IsInjective(s)
  BY RankingFacts
<1> DEFINE n == Len(s)
<1>2. IsFiniteSet(1..n) /\ Cardinality(1..n) = n
  <2> n \in Nat
    BY <1>1
  <2> HIDE DEF n
  <2> QED
    BY FS_Interval
<1>3. s \in Surjection(1..Len(s), Range(s)) /\ s \in Injection(1..Len(s), Range(s))
  <2>1. s \in [1..Len(s) -> Range(s)] /\ \A x \in Range(s) : \E i \in 1..Len(s) : s[i] = x
    BY <1>1 DEF Range
  <2> QED
    BY <1>1, <2>1 DEF Surjection, Injection
<1>4. Cardinality(Range(s)) = Cardinality(1..Len(s)) /\ IsFiniteSet(Range(s))
  BY <1>2, <1>3, FS_Surjection
<1> QED
  BY <1>1, <1>2, <1>4 DEF Range

\* Shares and scores are fractions, their denominators positive.
Fraction(x) == x[1] \in Nat /\ x[2] \in Nat \ {0}
AtLeast(x, y) == x[1] * y[2] >= y[1] * x[2]

\* A better rank has the greater share, none has the least.
LEMMA ShareFacts ==
  ASSUME NEW r \in Nat, NEW q \in Nat
  PROVE  /\ Fraction(Share(r))
         /\ r # 0 /\ (q = 0 \/ r < q) => Above(Share(r), Share(q))
         /\ r = 0 /\ q = 0 => AtLeast(Share(r), Share(q))
<1>1. Share(r) = IF r = 0 THEN <<0, 1>> ELSE <<1, 60 + r>>
  BY DEF Share, RrfK
<1>2. Share(q) = IF q = 0 THEN <<0, 1>> ELSE <<1, 60 + q>>
  BY DEF Share, RrfK
<1> QED
  BY <1>1, <1>2 DEF Fraction, Above, AtLeast

\* A greater factor makes a greater product.
LEMMA Products ==
  ASSUME NEW a \in Nat, NEW b \in Nat, NEW p \in Nat \ {0}
  PROVE  /\ a >= b => a * p >= b * p
         /\ a > b => a * p > b * p
<1>1. PICK d \in Int : a = b + d
  BY a - b \in Int
<1>2. a * p = b * p + d * p
  BY <1>1
<1>3. d >= 0 => d * p >= 0
  OBVIOUS
<1>4. d > 0 => d * p > 0
  OBVIOUS
<1>5. b * p \in Int /\ d * p \in Int
  OBVIOUS
<1> QED
  BY <1>1, <1>2, <1>3, <1>4, <1>5

\* A sum of two fractions is above another when one part is, and the other is no less.
LEMMA SumAbove ==
  ASSUME NEW x, NEW y, NEW v, NEW w, Fraction(x), Fraction(y), Fraction(v), Fraction(w),
         \/ Above(x, v) /\ (Above(y, w) \/ AtLeast(y, w))
         \/ AtLeast(x, v) /\ Above(y, w)
  PROVE  Above(Plus(x, y), Plus(v, w))
<1> DEFINE a == x[1] * v[2]
           b == v[1] * x[2]
           c == y[1] * w[2]
           d == w[1] * y[2]
           p == y[2] * w[2]
           q == x[2] * v[2]
<1>1. /\ x[1] \in Nat /\ x[2] \in Nat \ {0} /\ y[1] \in Nat /\ y[2] \in Nat \ {0}
      /\ v[1] \in Nat /\ v[2] \in Nat \ {0} /\ w[1] \in Nat /\ w[2] \in Nat \ {0}
  BY DEF Fraction
<1>2. /\ a \in Nat /\ b \in Nat /\ c \in Nat /\ d \in Nat
      /\ p \in Nat \ {0} /\ q \in Nat \ {0}
  BY <1>1
<1>3. /\ a >= b /\ c >= d /\ (a > b \/ c > d)
  BY <1>2 DEF Above, AtLeast
<1>4. /\ (x[1] * y[2] + y[1] * x[2]) * (v[2] * w[2]) = a * p + c * q
      /\ (v[1] * w[2] + w[1] * v[2]) * (x[2] * y[2]) = b * p + d * q
  BY <1>1
<1> HIDE DEF a, b, c, d, p, q
<1>5. /\ a * p >= b * p /\ (a > b => a * p > b * p)
      /\ c * q >= d * q /\ (c > d => c * q > d * q)
  BY <1>2, <1>3, Products
<1>6. a * p \in Int /\ b * p \in Int /\ c * q \in Int /\ d * q \in Int
  BY <1>2
<1>7. a * p + c * q > b * p + d * q
  BY <1>3, <1>5, <1>6
<1> QED
  BY <1>4, <1>7 DEF Above, Plus

\* What is no less than what is no less is no less; and above, when one of them is above.
LEMMA AboveChains ==
  ASSUME NEW x, NEW y, NEW z, Fraction(x), Fraction(y), Fraction(z),
         AtLeast(x, y), AtLeast(y, z)
  PROVE  AtLeast(x, z) /\ (Above(x, y) \/ Above(y, z) => Above(x, z))
<1>1. /\ x[1] \in Nat /\ x[2] \in Nat \ {0} /\ y[1] \in Nat /\ y[2] \in Nat \ {0}
      /\ z[1] \in Nat /\ z[2] \in Nat \ {0}
  BY DEF Fraction
<1> DEFINE a == x[1] * y[2]
           b == y[1] * x[2]
           c == y[1] * z[2]
           d == z[1] * y[2]
           e == x[1] * z[2]
           f == z[1] * x[2]
<1>2. /\ a \in Nat /\ b \in Nat /\ c \in Nat /\ d \in Nat /\ e \in Nat /\ f \in Nat
      /\ a >= b /\ c >= d
  BY <1>1 DEF AtLeast
<1>3. e * y[2] = a * z[2] /\ b * z[2] = c * x[2] /\ d * x[2] = f * y[2]
  BY <1>1
<1>4. (Above(x, y) <=> a > b) /\ (Above(y, z) <=> c > d) /\ (Above(x, z) <=> e > f)
      /\ (AtLeast(x, z) <=> e >= f)
  BY DEF Above, AtLeast
<1> HIDE DEF a, b, c, d, e, f
<1>5. /\ a * z[2] >= b * z[2] /\ (a > b => a * z[2] > b * z[2])
      /\ c * x[2] >= d * x[2] /\ (c > d => c * x[2] > d * x[2])
      /\ (f > e => f * y[2] > e * y[2]) /\ (f >= e => f * y[2] >= e * y[2])
  BY <1>1, <1>2, Products
<1>6. /\ a * z[2] \in Int /\ b * z[2] \in Int /\ c * x[2] \in Int /\ d * x[2] \in Int
      /\ f * y[2] \in Int /\ e * y[2] \in Int
  BY <1>1, <1>2
<1> QED
  BY <1>2, <1>3, <1>4, <1>5, <1>6

\* Every list is a ranking.
Lists == found \in Rankings /\ matched \in Rankings /\ results \in Rankings

\* A score is a fraction, and no chunk's is above its own.
LEMMA ScoreFacts ==
  ASSUME Lists, NEW c
  PROVE  /\ Rank(c, found) \in Nat /\ Rank(c, matched) \in Nat
         /\ Rank(c, found) # 0 <=> c \in Range(found)
         /\ Rank(c, matched) # 0 <=> c \in Range(matched)
         /\ Score(c)[1] \in Nat /\ Score(c)[2] \in Nat
<1>1. /\ Rank(c, found) \in Nat /\ Rank(c, matched) \in Nat
      /\ Rank(c, found) # 0 <=> c \in Range(found)
      /\ Rank(c, matched) # 0 <=> c \in Range(matched)
  BY RankingFacts, RankFacts DEF Lists
<1>2. Fraction(Share(Rank(c, found))) /\ Fraction(Share(Rank(c, matched)))
  BY <1>1, ShareFacts
<1> QED
  BY <1>1, <1>2 DEF Fraction, Score, Plus

\* The better chunk has the better score.
LEMMA DominatesScores ==
  ASSUME Lists, NEW c, NEW d, Dominates(c, d)
  PROVE  Above(Score(c), Score(d))
<1> DEFINE x == Share(Rank(c, found))
           y == Share(Rank(c, matched))
           v == Share(Rank(d, found))
           w == Share(Rank(d, matched))
<1>1. /\ Rank(c, found) \in Nat /\ Rank(c, matched) \in Nat
      /\ Rank(d, found) \in Nat /\ Rank(d, matched) \in Nat
  BY ScoreFacts
<1>2. Fraction(x) /\ Fraction(y) /\ Fraction(v) /\ Fraction(w)
  BY <1>1, ShareFacts
<1>3. \/ Above(x, v) /\ (Above(y, w) \/ AtLeast(y, w))
      \/ AtLeast(x, v) /\ Above(y, w)
  BY <1>1, ShareFacts DEF Dominates, Ahead, Missing
<1> HIDE DEF x, y, v, w
<1>4. Above(Plus(x, y), Plus(v, w))
  BY <1>2, <1>3, SumAbove
<1> QED
  BY <1>4 DEF x, y, v, w, Score

\* A cut ranking ranks what it keeps as before.
LEMMA CutFacts ==
  ASSUME NEW n \in Nat, NEW S, NEW s \in [1..n -> S], IsInjective(s)
  PROVE  /\ Cut(s) \in Seq(S) /\ Len(Cut(s)) \in 0..n /\ Len(Cut(s)) <= TopK
         /\ IsInjective(Cut(s)) /\ \A i \in 1..Len(Cut(s)) : Cut(s)[i] = s[i]
<1>1. s \in Seq(S) /\ Len(s) = n
  OBVIOUS
<1> DEFINE k == IF n < TopK THEN n ELSE TopK
<1>2. k \in 0..n /\ k <= TopK
  BY RagAssumption
<1>3. Cut(s) = SubSeq(s, 1, k)
  BY <1>1 DEF Cut
<1> HIDE DEF k
<1>4. /\ SubSeq(s, 1, k) \in Seq(S) /\ Len(SubSeq(s, 1, k)) = k
      /\ \A i \in 1..k : SubSeq(s, 1, k)[i] = s[i]
  BY <1>1, <1>2
<1>5. DOMAIN SubSeq(s, 1, k) = 1..k
  BY <1>4
<1>6. IsInjective(SubSeq(s, 1, k))
  BY <1>2, <1>4, <1>5 DEF IsInjective
<1> QED
  BY <1>2, <1>3, <1>4, <1>6

\* Each chunk has a place of its own in the dictionary of scores.
LEMMA PlaceFacts ==
  ASSUME Lists, NEW c \in Range(found) \cup Range(matched),
                NEW d \in Range(found) \cup Range(matched)
  PROVE  Place(c) \in Nat /\ Place(d) \in Nat /\ (Place(c) = Place(d) => c = d)
<1>1. Len(found) \in Nat /\ Len(matched) \in Nat
  BY RankingFacts DEF Lists
<1>2. \A x : /\ Rank(x, found) \in 0..Len(found) /\ Rank(x, matched) \in 0..Len(matched)
             /\ Rank(x, found) # 0 <=> x \in Range(found)
             /\ Rank(x, matched) # 0 <=> x \in Range(matched)
             /\ Rank(x, found) # 0 => found[Rank(x, found)] = x
             /\ Rank(x, matched) # 0 => matched[Rank(x, matched)] = x
  BY RankFacts DEF Lists
<1>3. Place(c) \in Nat /\ Place(d) \in Nat
  BY <1>1, <1>2 DEF Place
<1>4. CASE c \in Range(found) /\ d \in Range(found)
  BY <1>2, <1>3, <1>4 DEF Place
<1>5. CASE c \notin Range(found) /\ d \notin Range(found)
  <2>1. /\ Place(c) = Len(found) + Rank(c, matched) /\ Place(d) = Len(found) + Rank(d, matched)
        /\ Rank(c, matched) # 0 /\ Rank(d, matched) # 0
    BY <1>2, <1>5 DEF Place
  <2>2. Rank(c, matched) \in Int /\ Rank(d, matched) \in Int
    BY <1>1, <1>2
  <2>3. Place(c) = Place(d) => Rank(c, matched) = Rank(d, matched)
    BY <1>1, <2>1, <2>2
  <2> QED
    BY <1>2, <1>3, <2>1, <2>3
<1>6. CASE c \in Range(found) /\ d \notin Range(found)
  <2>1. Place(c) <= Len(found) /\ Place(d) > Len(found)
    BY <1>1, <1>2, <1>6 DEF Place
  <2> QED
    BY <1>1, <1>3, <2>1
<1>7. CASE c \notin Range(found) /\ d \in Range(found)
  <2>1. Place(d) <= Len(found) /\ Place(c) > Len(found)
    BY <1>1, <1>2, <1>7 DEF Place
  <2> QED
    BY <1>1, <1>3, <2>1
<1> QED
  BY <1>4, <1>5, <1>6, <1>7

\* Whatever the two searches return, there is an order by score and place: sorted() ends.
LEMMA FusionPossible ==
  ASSUME Lists
  PROVE  Fused # {}
<1> DEFINE U == Range(found) \cup Range(matched)
           B == {p \in U \X U : Before(p[1], p[2])}
<1>1. IsFiniteSet(U)
  BY RankedChunks, FS_Union DEF Lists
<1>2. \A c, d \in U : <<c, d>> \in B <=> Before(c, d)
  OBVIOUS
<1>3. \A c : Fraction(Score(c))
  <2>1. SUFFICES ASSUME NEW c PROVE Fraction(Score(c))
    OBVIOUS
  <2>2. Fraction(Share(Rank(c, found))) /\ Fraction(Share(Rank(c, matched)))
    BY ScoreFacts, ShareFacts
  <2> QED
    BY <2>2 DEF Fraction, Score, Plus
<1>4. \A c, d : /\ Above(Score(c), Score(d)) => AtLeast(Score(c), Score(d))
                /\ ~Above(Score(d), Score(c)) <=> AtLeast(Score(c), Score(d))
  <2>1. \A c, d : Score(c)[1] * Score(d)[2] \in Nat
    BY <1>3 DEF Fraction
  <2> QED
    BY <2>1 DEF Above, AtLeast
<1>5. \A c, d \in U : c = d \/ Before(c, d) \/ Before(d, c)
  BY <1>4, PlaceFacts DEF Before
<1>6. ASSUME NEW c \in U, NEW d \in U, NEW e \in U, Before(c, d), Before(d, e)
      PROVE  Before(c, e)
  <2>1. AtLeast(Score(c), Score(d)) /\ AtLeast(Score(d), Score(e))
    BY <1>4, <1>6 DEF Before
  <2>2. /\ AtLeast(Score(c), Score(e))
        /\ Above(Score(c), Score(d)) \/ Above(Score(d), Score(e)) => Above(Score(c), Score(e))
    BY <1>3, <2>1, AboveChains
  <2>3. Place(c) \in Nat /\ Place(d) \in Nat /\ Place(e) \in Nat
    BY PlaceFacts
  <2> QED
    BY <1>4, <1>6, <2>2, <2>3 DEF Before
<1>7. Linear(U, B)
  <2> HIDE DEF U, B
  <2> QED
    BY <1>2, <1>5, <1>6 DEF Linear
<1>8. PICK s \in InOrder(U, B) : TRUE
  <2> HIDE DEF U, B
  <2> QED
    BY <1>1, <1>7, OrderExists
<1>9. Cut(s) \in Fused
  BY <1>8 DEF Fused
<1> QED
  BY <1>9

\* What the fusion returns: the chunks of both lists in order, cut.
LEMMA FusedFacts ==
  ASSUME Lists, NEW t \in Fused
  PROVE  \E n \in Nat : \E s \in [1..n -> Range(found) \cup Range(matched)] :
           /\ IsInjective(s) /\ Range(s) = Range(found) \cup Range(matched)
           /\ \A i, j \in 1..n : i < j => Before(s[i], s[j])
           /\ t = Cut(s)
<1> DEFINE U == Range(found) \cup Range(matched)
           B == {p \in U \X U : Before(p[1], p[2])}
<1>1. PICK s \in InOrder(U, B) : t = Cut(s)
  BY DEF Fused
<1>2. IsFiniteSet(U)
  BY RankedChunks, FS_Union DEF Lists
<1>3. ASSUME NEW x, <<x, x>> \in B PROVE FALSE
  <2>1. Before(x, x)
    BY <1>3
  <2>2. Place(x) \in Nat
    BY ScoreFacts, RankingFacts DEF Lists, Place
  <2>3. Score(x)[1] * Score(x)[2] \in Nat
    BY ScoreFacts
  <2>4. ~Above(Score(x), Score(x)) /\ ~(Place(x) < Place(x))
    BY <2>2, <2>3 DEF Above
  <2> QED
    BY <2>1, <2>4 DEF Before
<1>4. \A p \in B : Before(p[1], p[2])
  OBVIOUS
<1> HIDE DEF U, B
<1>5. /\ Cardinality(U) \in Nat /\ s \in [1..Cardinality(U) -> U]
      /\ IsInjective(s) /\ Range(s) = U
      /\ \A i, j \in 1..Cardinality(U) : i < j => <<s[i], s[j]>> \in B
  BY <1>2, <1>3, OrderFacts
<1>6. \A i, j \in 1..Cardinality(U) : i < j => Before(s[i], s[j])
  BY <1>4, <1>5
<1> QED
  BY <1>1, <1>5, <1>6 DEF U

\* The fusion returns a ranking of what it was given.
LEMMA FusedIsRanking ==
  ASSUME Lists, NEW t \in Fused
  PROVE  t \in Rankings
<1> DEFINE U == Range(found) \cup Range(matched)
<1>1. PICK n \in Nat : \E s \in [1..n -> U] : IsInjective(s) /\ t = Cut(s)
  BY FusedFacts
<1>2. U \subseteq Chunks
  BY RankedChunks DEF Lists
<1>3. t \in Seq(U) /\ Len(t) \in 0..n /\ Len(t) <= TopK /\ IsInjective(t)
  <2> HIDE DEF U
  <2> QED
    BY <1>1, CutFacts
<1>4. t \in [1..Len(t) -> Chunks] /\ Len(t) \in 0..TopK
  BY <1>2, <1>3, RagAssumption
<1> QED
  BY <1>3, <1>4 DEF Rankings

\* A chunk that dominates one the fusion returns is returned before it.
LEMMA FusedKeepsBest ==
  ASSUME Lists, NEW t \in Fused, NEW c, NEW d, Dominates(c, d), Rank(d, t) # 0
  PROVE  Rank(c, t) # 0 /\ Rank(c, t) < Rank(d, t)
<1> DEFINE U == Range(found) \cup Range(matched)
<1>0. PICK n \in Nat : \E s \in [1..n -> U] :
             /\ IsInjective(s) /\ Range(s) = U
             /\ \A i, j \in 1..n : i < j => Before(s[i], s[j])
             /\ t = Cut(s)
  BY FusedFacts
<1>1. PICK s \in [1..n -> U] :
             /\ IsInjective(s) /\ Range(s) = U
             /\ \A i, j \in 1..n : i < j => Before(s[i], s[j])
             /\ t = Cut(s)
  BY <1>0
<1>2. c \in U
  BY ScoreFacts DEF Dominates, Ahead
<1> HIDE DEF U
<1>3. /\ t \in Seq(U) /\ Len(t) \in 0..n /\ IsInjective(t)
      /\ \A i \in 1..Len(t) : t[i] = s[i]
  BY <1>1, CutFacts
<1>4. t \in Rankings /\ Len(t) \in Nat
  BY <1>3, FusedIsRanking
<1>5. PICK j \in 1..Len(t) : t[j] = d /\ Rank(d, t) = j
  BY <1>4, RankFacts
<1>6. PICK i \in 1..n : s[i] = c
  BY <1>1, <1>2 DEF Range
<1>7. Above(Score(c), Score(d)) /\ ~Above(Score(d), Score(c))
  <2>1. /\ Score(c)[1] \in Nat /\ Score(c)[2] \in Nat
        /\ Score(d)[1] \in Nat /\ Score(d)[2] \in Nat
    BY ScoreFacts
  <2>2. Score(c)[1] * Score(d)[2] \in Nat /\ Score(d)[1] * Score(c)[2] \in Nat
    BY <2>1
  <2> QED
    BY <2>2, DominatesScores DEF Above
<1>8. ~Before(d, c) /\ c # d
  BY <1>7 DEF Before
<1>9. s[j] = d /\ j \in 1..n
  BY <1>3, <1>5
<1>10. i < j
  BY <1>1, <1>6, <1>8, <1>9
<1>11. i \in 1..Len(t) /\ t[i] = c
  BY <1>3, <1>5, <1>6, <1>10
<1>12. Rank(c, t) = i
  BY <1>4, <1>11, RankFacts
<1> QED
  BY <1>5, <1>10, <1>11, <1>12

\* Whatever the model names, a reranking is of the same chunks.
LEMMA RankedFacts ==
  ASSUME Lists, NEW named \in Naming, NEW t \in Ranked(named)
  PROVE  t \in Rankings /\ Range(t) = Range(results) /\ Len(t) = Len(results)
<1> DEFINE R == Range(results)
<1>1. ASSUME NEW x, <<x, x>> \in By(named) PROVE FALSE
  <2>1. Sooner(x, x, named)
    BY <1>1 DEF By
  <2>2. CASE \E i \in DOMAIN named : named[i] = x /\ \A j \in 1..i : named[j] # x
    <3>1. \A i \in DOMAIN named : i \in 1..i
      BY DEF Naming
    <3> QED
      BY <2>2, <3>1
  <2>3. CASE Rank(x, results) < Rank(x, results)
    <3>1. Rank(x, results) \in Nat
      BY RankingFacts, RankFacts DEF Lists
    <3> QED
      BY <2>3, <3>1
  <2> QED
    BY <2>1, <2>2, <2>3 DEF Sooner
<1>2. /\ IsFiniteSet(R) /\ Cardinality(R) = Len(results) /\ R \subseteq Chunks
      /\ Len(results) \in 0..TopK
  BY RankedChunks, RankingFacts, RagAssumption DEF Lists
<1>3. t \in InOrder(R, By(named))
  BY DEF Ranked
<1> HIDE DEF R
<1>4. t \in [1..Cardinality(R) -> R] /\ IsInjective(t) /\ Range(t) = R
  BY <1>1, <1>2, <1>3, OrderFacts
<1>5. t \in [1..Len(results) -> Chunks]
  BY <1>2, <1>4
<1> QED
  BY <1>2, <1>4, <1>5 DEF Rankings, R

\* Whatever the model names, there is an order that begins with it.
LEMMA RerankingPossible ==
  ASSUME Lists, NEW named \in Naming
  PROVE  Ranked(named) # {}
<1> DEFINE R == Range(results)
           First(c, d) == \E i \in DOMAIN named : named[i] = c /\ \A j \in 1..i : named[j] # d
<1>1. IsFiniteSet(R)
  BY RankedChunks DEF Lists
<1>2. PICK n \in Nat : DOMAIN named = 1..n
  BY RagAssumption DEF Naming
<1>3. \A c \in R : /\ Rank(c, results) \in Nat /\ Rank(c, results) # 0
                   /\ results[Rank(c, results)] = c
  BY RankFacts, RankingFacts DEF Lists
<1>4. \A c, d : Sooner(c, d, named) <=>
        \/ First(c, d)
        \/ c \notin Range(named) /\ d \notin Range(named) /\ Rank(c, results) < Rank(d, results)
  BY DEF Sooner
<1>5. \A c, d : First(c, d) => c \in Range(named)
  BY DEF Range
<1>6. ASSUME NEW c, NEW d, c # d, c \in Range(named) \/ d \in Range(named)
      PROVE  First(c, d) \/ First(d, c)
  <2> DEFINE T == {i \in 1..n : named[i] \in {c, d}}
  <2>1. PICK i \in T : \A j \in T : i <= j
    <3>1. T \in SUBSET Nat /\ T # {}
      BY <1>2, <1>6 DEF Range
    <3> HIDE DEF T
    <3> QED
      BY <3>1, LeastIn
  <2>2. i \in 1..n /\ named[i] \in {c, d}
    OBVIOUS
  <2>3. \A j \in 1..i : j # i => named[j] \notin {c, d}
    <3> SUFFICES ASSUME NEW j \in 1..i, j # i PROVE named[j] \notin {c, d}
      OBVIOUS
    <3>1. j \in 1..n /\ ~(i <= j)
      BY <2>2
    <3>2. j \notin T
      BY <2>1, <3>1
    <3> QED
      BY <3>1, <3>2
  <2>4. CASE named[i] = c
    BY <1>2, <1>6, <2>2, <2>3, <2>4
  <2>5. CASE named[i] = d
    BY <1>2, <1>6, <2>2, <2>3, <2>5
  <2> QED
    BY <2>2, <2>4, <2>5
<1>7. ASSUME NEW c, NEW d, NEW e, First(c, d), First(d, e)
      PROVE  First(c, e)
  <2>1. PICK i \in 1..n : named[i] = c /\ \A j \in 1..i : named[j] # d
    BY <1>2, <1>7
  <2>2. PICK k \in 1..n : named[k] = d /\ \A j \in 1..k : named[j] # e
    BY <1>2, <1>7
  <2>3. \A j \in 1..i : j \in 1..k
    BY <2>1, <2>2
  <2> QED
    BY <1>2, <2>1, <2>2, <2>3
<1>8. ASSUME NEW c, NEW d, NEW e, First(c, d), e \notin Range(named)
      PROVE  First(c, e)
  BY <1>2, <1>8 DEF Range
<1>9. \A c, d \in R : <<c, d>> \in By(named) <=> Sooner(c, d, named)
  BY DEF By
<1> HIDE DEF R, First
<1>10. \A c, d \in R : c = d \/ Sooner(c, d, named) \/ Sooner(d, c, named)
  <2> SUFFICES ASSUME NEW c \in R, NEW d \in R, c # d
               PROVE  Sooner(c, d, named) \/ Sooner(d, c, named)
    OBVIOUS
  <2>1. Rank(c, results) # Rank(d, results)
    BY <1>3
  <2> QED
    BY <1>3, <1>4, <1>6, <2>1
<1>11. ASSUME NEW c \in R, NEW d \in R, NEW e \in R, Sooner(c, d, named), Sooner(d, e, named)
       PROVE  Sooner(c, e, named)
  BY <1>3, <1>4, <1>5, <1>7, <1>8, <1>11
<1>12. Linear(R, By(named))
  BY <1>9, <1>10, <1>11 DEF Linear
<1>13. InOrder(R, By(named)) # {}
  BY <1>1, <1>12, OrderExists
<1> QED
  BY <1>13 DEF Ranked, R

\* The lists stay rankings.
LEMMA ListsKept ==
  ASSUME Lists, [Next]_vars
  PROVE  Lists'
<1>1. <<>> \in Rankings
  <2>1. <<>> \in [1..0 -> Chunks] /\ IsInjective(<<>>) /\ 0 \in 0..TopK
    BY RagAssumption DEF IsInjective
  <2> QED
    BY <2>1 DEF Rankings
<1>2. CASE Search \/ Match
  BY <1>2 DEF Search, Match, Hold, Lists, Goto
<1>3. CASE Fuse
  BY <1>3, FusedIsRanking DEF Fuse, Lists
<1>4. CASE Rerank
  BY <1>1, <1>4 DEF Rerank, Lists
<1>5. CASE Reranked
  BY <1>5, RankedFacts DEF Reranked, Lists
<1>6. ASSUME UNCHANGED listVars PROVE Lists'
  BY <1>6 DEF listVars, Lists
<1>7. ASSUME \/ Plan \/ Decided \/ CallTool \/ Audit \/ Fails \/ UNCHANGED vars
             \/ Construct \/ Embedded \/ Generate \/ Generated \/ Calling \/ Interrupted
      PROVE  UNCHANGED listVars
  BY <1>7 DEF Plan, Decide, Decided, CallTool, Audit, Fails, vars, ragVars, Construct, Embedded,
              Generate, Generated, Calling, Interrupted
<1> QED
  BY <1>2, <1>3, <1>4, <1>5, <1>6, <1>7 DEF Next, Retrieve, RagNext, Stopped

\* The fusion alone brings a run of mode hybrid to its results.
LEMMA FusionKept ==
  ASSUME Lists, FusionKeepsBest, [Next]_vars
  PROVE  FusionKeepsBest'
<1>1. CASE Fuse
  <2>1. UNCHANGED <<found, matched>> /\ results' \in Fused
    BY <1>1 DEF Fuse
  <2>2. \A c, d : Dominates(c, d)' <=> Dominates(c, d)
    BY <2>1 DEF Dominates
  <2>3. ASSUME NEW c, NEW d, Dominates(c, d), Rank(d, results') # 0
        PROVE  Rank(c, results') # 0 /\ Rank(c, results') < Rank(d, results')
    BY <2>1, <2>3, FusedKeepsBest
  <2> QED
    BY <2>2, <2>3 DEF FusionKeepsBest
<1>2. ASSUME UNCHANGED listVars, UNCHANGED <<pc, conf>> \/ pc' # "retrieved"
      PROVE  FusionKeepsBest'
  <2>1. \A c, d : Dominates(c, d)' <=> Dominates(c, d)
    BY <1>2 DEF listVars, Dominates
  <2> QED
    BY <1>2, <2>1 DEF FusionKeepsBest, listVars
<1>3. ASSUME pc' # "retrieved" \/ conf'.mode # "hybrid" PROVE FusionKeepsBest'
  BY <1>3 DEF FusionKeepsBest
<1>4. CASE Search \/ Match
  BY <1>3, <1>4 DEF Search, Match, Hold, Goto
<1>5. CASE Rerank \/ Reranked
  BY <1>3, <1>5 DEF Rerank, Reranked, Goto
<1>6. CASE \/ Plan \/ Decided \/ CallTool \/ Audit \/ Fails
           \/ Construct \/ Embedded \/ Generate \/ Generated \/ Interrupted
  BY <1>3, <1>6 DEF Plan, Decide, Decided, CallTool, Audit, Fails, Goto, Raise, Construct, Embedded,
                    Generate, Generated, Interrupted
<1>7. CASE Calling \/ UNCHANGED vars
  BY <1>2, <1>7 DEF Calling, ragVars, vars
<1> QED
  BY <1>1, <1>4, <1>5, <1>6, <1>7 DEF Next, Retrieve, RagNext, Stopped

\* A run starts with empty lists.
LEMMA ListsInitial ==
  ASSUME Init
  PROVE  Lists /\ FusionKeepsBest
<1>1. <<>> \in [1..0 -> Chunks] /\ IsInjective(<<>>) /\ 0 \in 0..TopK
  BY RagAssumption DEF IsInjective
<1>2. Lists
  BY <1>1 DEF Init, Lists, Rankings
<1>3. pc # "retrieved"
  BY DEF Init
<1> QED
  BY <1>2, <1>3 DEF FusionKeepsBest

\* For any chunks, rankings and limit, _hybrid_retrieve keeps the order of what both
\* searches agree on, and its cut drops no chunk for a worse one.
THEOREM FusionIsSound == Spec => []FusionKeepsBest
BY ListsInitial, ListsKept, FusionKept, PTL DEF Spec

\* Neither theorem is about nothing: sorted() and the reranker always have a list to return,
\* whatever was found and whatever is named.
THEOREM ListsComeOut == Spec => [](Fused # {} /\ \A named \in Naming : Ranked(named) # {})
<1>1. Lists => Fused # {} /\ \A named \in Naming : Ranked(named) # {}
  BY FusionPossible, RerankingPossible
<1> QED
  BY <1>1, ListsInitial, ListsKept, PTL DEF Spec

\* Whatever ids its model names, _rerank returns the results it was given, each once.
THEOREM RerankingIsSound == Spec => RerankKeepsAll
<1>1. ASSUME Lists, [Next]_vars, pc = "reranking"
      PROVE  Range(results') = Range(results) /\ Len(results') = Len(results)
  <2>1. CASE Reranked
    BY <1>1, <2>1, RankedFacts DEF Reranked
  <2>2. ASSUME UNCHANGED results PROVE Range(results') = Range(results) /\ Len(results') = Len(results)
    BY <2>2
  <2>3. CASE ~Reranked
    <3>1. UNCHANGED results
      BY <1>1, <2>3 DEF Next, Retrieve, RagNext, Stopped, Plan, Decided, CallTool, Audit, Fails, vars, ragVars,
         listVars, Construct, Embedded, Search, Match, Fuse, Rerank, Generate, Generated, Calling, Interrupted
    <3> QED
      BY <2>2, <3>1
  <2> QED
    BY <2>1, <2>3
<1>2. Lists /\ [Next]_vars => [pc = "reranking" => Range(results') = Range(results) /\ Len(results') = Len(results)]_vars
  BY <1>1
<1> QED
  BY <1>2, ListsInitial, ListsKept, PTL DEF Spec, RerankKeepsAll
=============================================================================
