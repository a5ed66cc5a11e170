------------------------------ MODULE AgentRun -------------------------------
(***************************************************************************)
(* The run behind a message of mode rag or react: ReActAgent plans by a model *)
(* or by its rules, then calls a tool or hands over to RAGAgent, and the run  *)
(* leaves its audit row. ChatTurn sees it as one step of its turn.            *)
(***************************************************************************)
EXTENDS RagAnswer

CONSTANT Configurations      \* the settings the runs start with: a subset of Settings

Settings == [agent : {"rag", "react"}, planner : {"rules", "llm"}, max_steps : Nat,
             mode : Modes, reranker : Rerankers, providers : SUBSET Providers]

ASSUME ConfigurationsAssumption == Configurations \subseteq Settings

VARIABLES
  planned,     \* planner_provider of the decision: "none" before it, "rules" or "llm"
  fallback,    \* a fallback_reason was noted: the model's plan was not to be had
  ran,         \* what the call of the tool did: "none", "success", "error", "raised"
  status,      \* status of the run's one step
  tool_calls,  \* how many entries the list of tool calls has
  answer,      \* the kind of text that answers
  row          \* metadata of the audit row flushed last, or NoRow

runVars == <<planned, fallback, ran, status, tool_calls, answer, row>>
vars == <<callVars, ragVars, runVars>>

NoRow == [action |-> "none"]

PC == {"planning", "deciding", "tool", "start", "embedding", "searching", "matching", "fusing",
       "retrieved", "reranking", "reranked", "generating", "answered", "done", "raised"}

\* What the lists hold is the matter of FusionKeepsBest and RerankKeepsAll.
RunType == /\ pc \in PC /\ conf \in Settings
           /\ reason \in {"none", "unsupported", "failed"}
           /\ planned \in {"none", "rules", "llm"} /\ fallback \in BOOLEAN
           /\ ran \in {"none", "success", "error", "raised"}
           /\ status \in {"none", "success", "error", "skipped"} /\ tool_calls \in Nat
           /\ answer \in {"none", "output", "failure", "stopped", "generated"}

TypeOK == CallType /\ RunType

Init == /\ Quiet
        /\ conf \in Configurations
        /\ pc = IF conf.agent = "react" THEN "planning" ELSE "start"
        /\ found = <<>> /\ matched = <<>> /\ results = <<>>
        /\ reason = "none" /\ end = "none"
        /\ planned = "none" /\ fallback = FALSE /\ ran = "none"
        /\ status = "none" /\ tool_calls = 0 /\ answer = "none" /\ row = NoRow

-----------------------------------------------------------------------------
(* The plan and its one step.                                                *)

\* A decision, for a tool or for none. Without one the step is "skipped" and RAGAgent answers.
Decide(who, why) ==
  /\ planned' = who /\ fallback' = why
  /\ \/ Goto("tool") /\ UNCHANGED status
     \/ Goto("start") /\ status' = "skipped"
  /\ UNCHANGED <<conf, listVars, reason, end, ran, tool_calls, answer, row>>

\* The provider of the planner cannot be made: the rules decide.
Plan == /\ pc = "planning"
        /\ \/ conf.planner = "rules" /\ Decide("rules", FALSE) /\ UNCHANGED callVars
           \/ /\ conf.planner = "llm" /\ "llm" \notin conf.providers
              /\ Decide("rules", TRUE) /\ UNCHANGED callVars
           \/ /\ conf.planner = "llm" /\ "llm" \in conf.providers
              /\ Goto("deciding") /\ Begin("plan")
              /\ UNCHANGED <<conf, listVars, reason, end, runVars>>

\* A call that failed, or a text that is no decision for a tool of the catalog or
\* for none: the exception is swallowed and the rules decide.
Decided == /\ pc = "deciding" /\ ~Under
           /\ \/ Outcome = "value" /\ Decide("llm", FALSE)
              \/ Decide("rules", TRUE)
           /\ UNCHANGED callVars

\* A slip of CallTool: the entry of the call is made before the call.
CountFirst ==
  /\ pc = "tool"
  /\ ran' \in {"success", "error", "raised"}
  /\ status' = IF ran' = "success" THEN "success" ELSE "error"
  /\ tool_calls' = tool_calls + 1
  /\ answer' = IF conf.max_steps <= 0 THEN "stopped"
               ELSE IF ran' = "success" THEN "output" ELSE "failure"
  /\ Goto("answered")
  /\ UNCHANGED <<callVars, conf, listVars, reason, end, planned, fallback, row>>

\* invoke_tool returns a result or raises. Without steps to take the answer is replaced after it.
CallTool ==
  /\ pc = "tool"
  /\ ran' \in {"success", "error", "raised"}
  /\ status' = IF ran' = "success" THEN "success" ELSE "error"
  /\ tool_calls' = IF ran' = "raised" THEN tool_calls ELSE tool_calls + 1
  /\ answer' = IF conf.max_steps <= 0 THEN "stopped"
               ELSE IF ran' = "success" THEN "output" ELSE "failure"
  /\ Goto("answered")
  /\ UNCHANGED <<callVars, conf, listVars, reason, end, planned, fallback, row>>

\* RAGAgent's steps, until its answer is the run's.
Retrieve == /\ RagNext
            /\ answer' = IF pc' = "answered" THEN "generated" ELSE answer
            /\ UNCHANGED <<planned, fallback, ran, status, tool_calls, row>>

-----------------------------------------------------------------------------
(* The audit row and the end.                                                *)

Audit == /\ pc = "answered" /\ Goto("done") /\ end' = "answered"
         /\ row' = IF conf.agent = "react"
                   THEN [action |-> "react.run", tool_calls |-> tool_calls,
                         used_fallback |-> status = "skipped", final_status |-> status,
                         planner |-> planned, reason |-> fallback]
                   ELSE [action |-> "rag.query", citations |-> Len(results),
                         used_fallback |-> results = <<>>, reranker_reason |-> reason]
         /\ UNCHANGED <<callVars, conf, listVars, reason>>
         /\ UNCHANGED <<planned, fallback, ran, status, tool_calls, answer>>

\* The row cannot be flushed, or the handler is cancelled in the tool or at the flush.
Fails == /\ \/ pc = "answered" /\ Raise("exception")
            \/ pc \in {"answered", "tool"} /\ Raise("cancelled")
         /\ UNCHANGED <<callVars, conf, listVars, reason, runVars>>

Stopped == pc \in {"done", "raised"} /\ UNCHANGED vars

Next == Plan \/ Decided \/ CallTool \/ Retrieve \/ Audit \/ Fails \/ Stopped

Spec == Init /\ [][Next]_vars

-----------------------------------------------------------------------------
(* Properties.                                                               *)

\* A call of a model, whichever it is for, looks to its caller like the promise of
\* ModelCall: at most MaxRetries + 1 requests, gone on with only after errors of the
\* server, one result, named after the last answer (generate, _async_embed). What a
\* body that cannot be parsed raises is the matter of ErrorsAreTyped.
CallPromise == Promise!CallSpec

\* provider_errors.py:36-43, "Raised when a provider returns an unexpected or invalid
\* response", "Invalid JSON in response": a call that fails raises one of the errors
\* of the providers, whatever the answer was.
ErrorsAreTyped ==
  \A n \in DOMAIN log : log[n].ended \in {"value", "timeout_error", "response_error", "cancelled"}

\* What the fusion of two rankings keeps, cut or not: a chunk that neither list ranks
\* below another, and one list ranks above it, comes first and is not cut for it.
Ahead(c, d, s) == Rank(c, s) # 0 /\ (Rank(d, s) = 0 \/ Rank(c, s) < Rank(d, s))
Missing(c, d, s) == Rank(c, s) = 0 /\ Rank(d, s) = 0
Dominates(c, d) == \/ Ahead(c, d, found) /\ (Ahead(c, d, matched) \/ Missing(c, d, matched))
                   \/ Missing(c, d, found) /\ Ahead(c, d, matched)
FusionKeepsBest ==
  pc = "retrieved" /\ conf.mode = "hybrid" =>
    \A c, d \in Chunks : Dominates(c, d) /\ Rank(d, results) # 0
                           => Rank(c, results) # 0 /\ Rank(c, results) < Rank(d, results)

\* The reranker's model changes the order and nothing else: no chunk is lost, made up
\* or doubled, so what was found is what is cited, whatever ids the model names.
RerankKeepsAll ==
  [][pc = "reranking" => Range(results') = Range(results) /\ Len(results') = Len(results)]_vars

\* The calls of the log for a task that failed.
Failed(t) == \E n \in DOMAIN log : log[n].task = t /\ log[n].ended # "value"

\* The planner's and the reranker's model never fail the run: an exception of a provider
\* that reaches the caller is the one the embedding or the generation ended with, the
\* last call made; and no answer, of a tool or a model, is given after one of these failed.
OnlyTheseFail ==
  /\ end \in {"timeout_error", "response_error", "value_error"} =>
       LET last == log[Len(log)] IN last.task \in {"embed", "generate"} /\ last.ended = end
  /\ answer # "none" => ~Failed("embed") /\ ~Failed("generate")

Asked(t) == \E n \in DOMAIN log : log[n].task = t

\* The audit row tells the run that was: a tool call counts when invoke_tool returned and
\* so left its own row, also when the answer was replaced for want of steps; the status
\* is the tool's; a fallback is one to a generated answer; the planner named is the one
\* followed, with a reason just when the model should have been and was asked in vain or
\* could not be; a reranker that was asked and not followed has its reason.
RowTellsRun ==
  /\ row.action = "react.run" =>
       /\ row.tool_calls = IF ran \in {"success", "error"} THEN 1 ELSE 0
       /\ row.final_status = "success" <=> ran = "success"
       /\ row.used_fallback <=> Asked("generate")
       /\ row.planner = "llm" => Asked("plan") /\ ~Failed("plan")
       /\ row.reason <=> conf.planner = "llm" /\ row.planner = "rules"
       /\ row.reason => Asked("plan") \/ "llm" \notin conf.providers
  /\ row.action = "rag.query" =>
       /\ row.reranker_reason = "failed" => Asked("rerank")
       /\ Failed("rerank") => row.reranker_reason = "failed"
=============================================================================
