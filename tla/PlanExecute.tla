----------------------------- MODULE PlanExecute -----------------------------
(***************************************************************************)
(* One run of PlanExecuteAgent.query: a plan is made by the LLM planner or   *)
(* by the deterministic rules, bounded by max_steps, executed step by step,  *)
(* then judged by the Verifier and summed up by the Finalizer. A step is     *)
(* known by its action_type; step_index is its position minus one in every   *)
(* plan. Texts are known by where they come from.                            *)
(***************************************************************************)
EXTENDS Integers, Sequences

CONSTANTS Limits,     \* the max_steps an agent may be built with
          Questions,  \* what the rules make of a question: [wanted, compound]
          PlanReplies     \* the step types of what the LLM planner may return

Actions == {"tool", "rag", "final"}

\* The services take the default; the tests also build agents with less.
ASSUME LimitsAssumption == Limits \subseteq Nat \ {0}

\* wanted: the tool and RAG steps the matching rule asks for, in order, before the
\* bound; compound: it is the rule of first ... then ... questions.
ASSUME QuestionsAssumption ==
  Questions \subseteq [wanted: Seq({"tool", "rag"}) \ {<<>>}, compound: BOOLEAN]

\* A reply is its array of steps; "invalid" is a step _parse_step refuses, and the
\* empty reply any failure before it: no provider, an HTTP error, no JSON, no array.
ASSUME RepliesAssumption == PlanReplies \subseteq Seq(Actions \cup {"invalid"})

VARIABLES max_steps, question, reply,  \* the agent and the inputs of its run
          stage, plan, step_results, verdict, final_answer

inputs == <<max_steps, question, reply>>
planVars == <<inputs, stage, plan, step_results, verdict, final_answer>>

-----------------------------------------------------------------------------
(* Planning.                                                                 *)

Prefix(s, n) == SubSeq(s, 1, IF Len(s) <= n THEN Len(s) ELSE n)
FinalAt(s, n) == [s EXCEPT ![n] = "final"]

\* _build_multi_step_plan stops before max_steps - 1; every rule appends a final step.
Rules(q) == IF q.compound THEN Append(Prefix(q.wanted, max_steps - 1), "final")
                          ELSE Append(q.wanted, "final")

\* A slip of _trim_plan: the tail is kept.
TrimFront(steps) == IF Len(steps) <= max_steps THEN steps
                    ELSE SubSeq(steps, Len(steps) - max_steps + 1, Len(steps))

\* _trim_plan: cut to max_steps and make the last step final.
Trim(steps) == IF Len(steps) <= max_steps THEN steps
                                         ELSE FinalAt(Prefix(steps, max_steps), max_steps)

Usable(raw) == raw # <<>> /\ \A i \in DOMAIN Prefix(raw, max_steps) :
                                Prefix(raw, max_steps)[i] # "invalid"

\* A slip of plan_execute: raw_steps is not cut.
Uncut(raw) == IF raw[Len(raw)] = "final" THEN raw ELSE Append(raw, "final")

\* LLMPlanner.plan_execute: cut, then a final step is put last if there is none.
ByLLM(raw) == LET steps == Prefix(raw, max_steps) IN
              IF steps[Len(steps)] = "final" THEN steps
              ELSE IF Len(steps) >= max_steps THEN FinalAt(steps, Len(steps))
              ELSE Append(steps, "final")

\* _plan: whatever the LLM planner raises, the rules take over.
PlanFor(q, raw) == IF Usable(raw) THEN ByLLM(raw) ELSE Trim(Rules(q))

-----------------------------------------------------------------------------
(* Results, verdict and answer.                                              *)

\* output: whose text the result carries ("" is an empty one).
Result == [status: {"success", "error", "skipped"},
           output: {"", "tool", "rag", "final"}, cited: BOOLEAN]
Success(output, cited) == [status |-> "success", output |-> output, cited |-> cited]
Failure(status, output) == [status |-> status, output |-> output, cited |-> FALSE]

\* What execute_step may return. A tool reports its own errors, with or without a
\* partial output; the model may answer with an empty text; exceptions of both
\* kinds of steps become errors. (No planner emits another action_type.)
Outcomes(action) ==
  {res \in Result :
     \/ action = "final" /\ res = Success("final", FALSE)
     \/ /\ action = "tool" /\ ~res.cited
        /\ \/ res.status = "success" /\ res.output = "tool"
           \/ res.status = "error" /\ res.output \in {"", "tool"}
     \/ /\ action = "rag"
        /\ \/ res.status = "success" /\ res.output \in {"", "rag"}
           \/ res = Failure("error", "")}

UsedRag == \E i \in 1..Len(step_results) : plan[i] = "rag"
With(status) == {i \in 1..Len(step_results) : step_results[i].status = status}

\* A slip of verify: errors are not counted.
VerifyNoErrors == IF With("skipped") # {} \/ Len(step_results) < Len(plan)
                  THEN "max_steps_reached" ELSE "success"

\* Verifier.verify, called with one result per step of the plan.
Verify == IF With("skipped") # {} \/ Len(step_results) < Len(plan) THEN "max_steps_reached"
          ELSE IF With("error") # {} THEN "partial_error"
          ELSE "success"

\* An answer is a fixed message or the output of the n-th result.
Verdicts == {"success", "partial_error", "max_steps_reached"}
Message(m) == [kind |-> m, n |-> 0]
OutputOf(n) == [kind |-> "output", n |-> n]
First(S) == CHOOSE i \in S : \A j \in S : i <= j

Telling == {i \in 1..Len(step_results) : step_results[i].cited \/ step_results[i].output # ""}

\* Finalizer.finalize.
Finalize(v) ==
  IF v = "max_steps_reached" \/ ~UsedRag THEN Message(v)
  ELSE IF Telling = {} THEN Message("no results")
  ELSE OutputOf(First(Telling))

\* The loop after it in query: with a RAG step in the plan, the first successful
\* output is the answer (citations is a list in every result, so never None).
Speaking == {i \in With("success") : step_results[i].output # ""}

\* A slip of query: the finalized answer stands.
NoOverride(a) == a

Override(a) == IF UsedRag /\ Speaking # {} THEN OutputOf(First(Speaking)) ELSE a

-----------------------------------------------------------------------------
(* The run.                                                                  *)

PlanTypeOK == /\ max_steps \in Limits
              /\ question \in Questions
              /\ reply \in PlanReplies
              /\ stage \in {"planning", "executing", "done"}
              /\ plan \in Seq(Actions)
              /\ step_results \in Seq(Result)
              /\ verdict \in Verdicts \cup {"none"}
              /\ final_answer \in [kind: Verdicts \cup {"none", "no results", "output"}, n: Nat]

PlanInit == /\ max_steps \in Limits
            /\ question \in Questions
            /\ reply \in PlanReplies
            /\ stage = "planning"
            /\ plan = <<>>
            /\ step_results = <<>>
            /\ verdict = "none"
            /\ final_answer = Message("none")

MakePlan == /\ stage = "planning"
            /\ plan' = PlanFor(question, reply)
            /\ stage' = "executing"
            /\ UNCHANGED <<inputs, step_results, verdict, final_answer>>

Executing == stage = "executing" /\ Len(step_results) < Len(plan)
Current == plan[Len(step_results) + 1]

\* A final step that is not the first is only marked.
MarkFinal == /\ Executing
             /\ Current = "final" /\ step_results # <<>>
             /\ step_results' = Append(step_results, Success("final", FALSE))
             /\ UNCHANGED <<inputs, stage, plan, verdict, final_answer>>

\* Any other step is executed, unless its index has reached max_steps.
TakeStep == /\ Executing
            /\ Current # "final" \/ step_results = <<>>
            /\ \E res \in IF Len(step_results) >= max_steps THEN {Failure("skipped", "")}
                                                           ELSE Outcomes(Current) :
                 step_results' = Append(step_results, res)
            /\ UNCHANGED <<inputs, stage, plan, verdict, final_answer>>

\* Verify, finalize, override and write the plan_execute.run row.
Conclude == /\ stage = "executing" /\ Len(step_results) >= Len(plan)
            /\ verdict' = Verify
            /\ final_answer' = Override(Finalize(Verify))
            /\ stage' = "done"
            /\ UNCHANGED <<inputs, plan, step_results>>

PlanNext == MakePlan \/ MarkFinal \/ TakeStep \/ Conclude

PlanSpec == PlanInit /\ [][PlanNext]_planVars

-----------------------------------------------------------------------------
(* Properties.                                                               *)

\* Whatever the LLM returns and whichever rule matches, a plan has at most
\* max_steps steps and ends with its final step. Both planners cut it before it
\* runs, so no step is ever skipped and max_steps_reached, the third status of the
\* Verifier, is never reported: a cut plan is judged by the steps that are left.
PlanBounded == /\ stage # "planning" => /\ Len(plan) \in 1..max_steps
                                        /\ plan[Len(plan)] = "final"
               /\ With("skipped") = {}
               /\ verdict # "max_steps_reached"

\* A plan of the rules keeps the order of what was asked: before the final step
\* stand the first wanted steps, and all of them when they fit.
CutKeepsOrder ==
  (stage # "planning" /\ ~Usable(reply)) =>
     /\ \A i \in 1..(Len(plan) - 1) : plan[i] = question.wanted[i]
     /\ Len(plan) = IF Len(question.wanted) < max_steps THEN Len(question.wanted) + 1
                                                       ELSE max_steps

\* A run is called a success exactly when each of its steps succeeded.
VerdictSound ==
  stage = "done" => (verdict = "success" <=> \A i \in 1..Len(plan) : step_results[i].status = "success")

\* The user is never given an empty text, nor the output of a failed step, though
\* models and tools return both.
AnswerSpeaks ==
  stage = "done" /\ final_answer.kind = "output" => /\ step_results[final_answer.n].output # ""
                                          /\ step_results[final_answer.n].status = "success"
=============================================================================
