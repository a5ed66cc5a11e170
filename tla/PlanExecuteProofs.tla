-------------------------- MODULE PlanExecuteProofs --------------------------
(***************************************************************************)
(* Proofs about PlanExecute for every bound, question and planner reply: the *)
(* shape of the plans, that no step is skipped, that the verdict is sound    *)
(* and that an answer is never an empty or a failed text.                    *)
(***************************************************************************)
EXTENDS PlanExecute, SequenceTheorems, WellFoundedInduction, TLAPS

-----------------------------------------------------------------------------
(* Lemmas about the helpers.                                                 *)

\* A set of naturals that is not empty has a first element.
LEMMA FirstIn ==
  ASSUME NEW S \in SUBSET Nat, S # {}
  PROVE  First(S) \in S /\ \A j \in S : First(S) <= j
<1> DEFINE R == OpToRel(<, Nat)
<1>1. IsWellFoundedOn(R, Nat)
  BY NatLessThanWellFounded
<1>2. PICK x \in S : \A y \in S : ~ (<<y, x>> \in R)
  BY <1>1, WFMin
<1>3. ASSUME NEW y \in S
      PROVE  x <= y
  <2>1. ~ (<<y, x>> \in {ss \in Nat \X Nat : ss[1] < ss[2]})
    BY <1>2 DEF OpToRel
  <2>2. <<y, x>> \in Nat \X Nat => ~ (y < x)
    BY <2>1
  <2>3. QED
    BY <2>2
<1>4. QED
  BY <1>3 DEF First

\* A prefix has the elements of the sequence up to its length.
LEMMA PrefixFacts ==
  ASSUME NEW S, NEW s \in Seq(S), NEW n \in Nat
  PROVE  /\ Prefix(s, n) \in Seq(S)
         /\ Len(Prefix(s, n)) = IF Len(s) <= n THEN Len(s) ELSE n
         /\ \A i \in 1..Len(Prefix(s, n)) : Prefix(s, n)[i] = s[i]
<1> DEFINE k == IF Len(s) <= n THEN Len(s) ELSE n
<1>1. Len(s) \in Nat /\ k \in Nat /\ k <= Len(s)
  OBVIOUS
<1>2. \A i \in 1..k : s[i] \in S
  BY <1>1
<1>3. /\ SubSeq(s, 1, k) \in Seq(S)
      /\ Len(SubSeq(s, 1, k)) = k
      /\ \A i \in 1..k : SubSeq(s, 1, k)[i] = s[i]
  BY <1>1, <1>2, SubSeqProperties
<1>4. QED
  BY <1>3 DEF Prefix

\* Replacing the last step keeps the length and the other steps.
LEMMA FinalAtFacts ==
  ASSUME NEW S, "final" \in S, NEW s \in Seq(S), NEW n \in 1..Len(s)
  PROVE  /\ FinalAt(s, n) \in Seq(S)
         /\ Len(FinalAt(s, n)) = Len(s)
         /\ FinalAt(s, n)[n] = "final"
         /\ \A i \in 1..Len(s) : i # n => FinalAt(s, n)[i] = s[i]
BY DEF FinalAt

\* A non-empty sequence has a last element.
LEMMA HasLast ==
  ASSUME NEW S, NEW s \in Seq(S), s # <<>>
  PROVE  Len(s) \in Nat \ {0} /\ Len(s) \in 1..Len(s) /\ s[Len(s)] \in S
<1>1. Len(s) \in Nat \ {0}
  BY EmptySeq
<1>2. QED
  BY <1>1

-----------------------------------------------------------------------------
(* Plans.                                                                    *)

WellFormed(p) == /\ p \in Seq(Actions)
                 /\ Len(p) \in 1..max_steps
                 /\ p[Len(p)] = "final"

\* A usable reply of the LLM becomes a plan that is bounded and ends in a final step.
LEMMA LLMPlans ==
  ASSUME max_steps \in Nat \ {0}, NEW raw \in PlanReplies, Usable(raw)
  PROVE  WellFormed(ByLLM(raw))
<1> DEFINE steps == Prefix(raw, max_steps)
           k == Len(steps)
<1>1. raw \in Seq(Actions \cup {"invalid"}) /\ raw # <<>>
  BY RepliesAssumption DEF Usable
<1>2. /\ steps \in Seq(Actions \cup {"invalid"})
      /\ k = IF Len(raw) <= max_steps THEN Len(raw) ELSE max_steps
  BY <1>1, PrefixFacts
<1>3. k \in 1..max_steps
  BY <1>1, <1>2, HasLast
<1>4. \A i \in 1..k : steps[i] \in Actions
  <2>1. \A i \in 1..k : steps[i] \in Actions \cup {"invalid"}
    BY <1>2
  <2>2. DOMAIN steps = 1..k
    BY <1>2
  <2>3. \A i \in 1..k : steps[i] # "invalid"
    BY <2>2 DEF Usable
  <2>4. QED
    BY <2>1, <2>3
<1>5. steps \in Seq(Actions)
  BY <1>2, <1>4, IsASeq, LenProperties
<1>. HIDE DEF steps
<1>6. CASE steps[k] = "final"
  BY <1>3, <1>5, <1>6 DEF WellFormed, ByLLM, steps
<1>7. CASE steps[k] # "final" /\ k >= max_steps
  <2>1. ByLLM(raw) = FinalAt(steps, k)
    BY <1>7 DEF ByLLM, steps
  <2>2. QED
    BY <1>3, <1>5, <2>1, FinalAtFacts DEF WellFormed, Actions
<1>8. CASE steps[k] # "final" /\ ~(k >= max_steps)
  <2>1. ByLLM(raw) = Append(steps, "final")
    BY <1>8 DEF ByLLM, steps
  <2>2. QED
    BY <1>3, <1>5, <1>8, <2>1 DEF WellFormed, Actions
<1>9. QED
  BY <1>6, <1>7, <1>8

\* The rules make a plan that is bounded, ends in a final step and starts with what
\* was wanted, in order.
LEMMA RulePlans ==
  ASSUME max_steps \in Nat \ {0}, NEW q \in Questions
  PROVE  LET p == Trim(Rules(q)) IN
         /\ WellFormed(p)
         /\ \A i \in 1..(Len(p) - 1) : p[i] = q.wanted[i]
         /\ Len(p) = IF Len(q.wanted) < max_steps THEN Len(q.wanted) + 1 ELSE max_steps
<1> DEFINE w == q.wanted
           h == IF q.compound THEN Prefix(w, max_steps - 1) ELSE w
           r == Append(h, "final")
<1>1. w \in Seq({"tool", "rag"}) /\ w # <<>> /\ w \in Seq(Actions)
  <2>1. w \in Seq({"tool", "rag"}) /\ w # <<>>
    BY QuestionsAssumption
  <2>2. \A i \in 1..Len(w) : w[i] \in Actions
    BY <2>1 DEF Actions
  <2>3. QED
    BY <2>1, <2>2, IsASeq, LenProperties
<1>2. /\ h \in Seq(Actions)
      /\ \A i \in 1..Len(h) : h[i] = w[i]
      /\ Len(h) = IF q.compound /\ Len(w) > max_steps - 1 THEN max_steps - 1 ELSE Len(w)
  <2>1. CASE q.compound
    <3>1. max_steps - 1 \in Nat
      OBVIOUS
    <3>2. /\ Prefix(w, max_steps - 1) \in Seq(Actions)
          /\ Len(Prefix(w, max_steps - 1))
               = IF Len(w) <= max_steps - 1 THEN Len(w) ELSE max_steps - 1
          /\ \A i \in 1..Len(Prefix(w, max_steps - 1)) : Prefix(w, max_steps - 1)[i] = w[i]
      BY <1>1, <3>1, PrefixFacts
    <3>3. QED
      BY <1>1, <2>1, <3>2
  <2>2. CASE ~q.compound
    BY <1>1, <2>2
  <2>3. QED
    BY <2>1, <2>2
<1>3. Len(w) \in Nat \ {0} /\ Len(h) \in Nat
  BY <1>1, <1>2, HasLast
<1>4. Rules(q) = r
  BY DEF Rules
<1>. HIDE DEF h
<1>5. /\ r \in Seq(Actions) /\ Len(r) = Len(h) + 1 /\ r[Len(h) + 1] = "final"
      /\ \A i \in 1..Len(h) : r[i] = w[i]
  BY <1>2, <1>3 DEF Actions
<1>. HIDE DEF r
<1>6. CASE Len(r) <= max_steps
  <2>1. Trim(r) = r
    BY <1>6 DEF Trim
  <2>2. Len(r) \in 1..max_steps
    BY <1>3, <1>5, <1>6
  <2>3. WellFormed(Trim(r))
    BY <1>5, <2>1, <2>2 DEF WellFormed
  <2>4. Len(r) = IF Len(w) < max_steps THEN Len(w) + 1 ELSE max_steps
    BY <1>2, <1>3, <1>5, <1>6
  <2>5. Len(Trim(r)) - 1 = Len(h)
    BY <1>3, <1>5, <2>1
  <2>6. QED
    BY <1>4, <1>5, <2>1, <2>3, <2>4, <2>5
<1>7. CASE Len(r) > max_steps
  <2> DEFINE t == Prefix(r, max_steps)
  <2>1. Trim(r) = FinalAt(t, max_steps)
    BY <1>3, <1>5, <1>7 DEF Trim
  <2>2. /\ t \in Seq(Actions) /\ Len(t) = max_steps
        /\ \A i \in 1..max_steps : t[i] = r[i]
    BY <1>3, <1>5, <1>7, PrefixFacts
  <2>3. max_steps \in 1..Len(t)
    BY <2>2
  <2>. HIDE DEF t
  <2>4. /\ FinalAt(t, max_steps) \in Seq(Actions)
        /\ Len(FinalAt(t, max_steps)) = max_steps
        /\ FinalAt(t, max_steps)[max_steps] = "final"
        /\ \A i \in 1..max_steps : i # max_steps => FinalAt(t, max_steps)[i] = r[i]
    BY <2>2, <2>3, FinalAtFacts DEF Actions
  <2>5. WellFormed(Trim(r))
    BY <2>1, <2>4 DEF WellFormed
  <2>6. Len(w) >= max_steps /\ Len(h) >= max_steps
    BY <1>2, <1>3, <1>5, <1>7
  <2>7. \A i \in 1..(max_steps - 1) : FinalAt(t, max_steps)[i] = w[i]
    BY <1>5, <1>3, <2>4, <2>6
  <2>8. QED
    BY <1>3, <1>4, <2>1, <2>4, <2>5, <2>6, <2>7
<1>8. QED
  BY <1>3, <1>5, <1>6, <1>7

\* Every plan of _plan is well formed.
LEMMA Plans ==
  ASSUME max_steps \in Nat \ {0}, NEW q \in Questions, NEW raw \in PlanReplies
  PROVE  WellFormed(PlanFor(q, raw))
BY LLMPlans, RulePlans DEF PlanFor

-----------------------------------------------------------------------------
(* The inductive invariant.                                                  *)

\* A finished step of the plan was not skipped, and a final one succeeded.
Settled(i) == /\ step_results[i].status # "skipped"
              /\ plan[i] = "final" => step_results[i] = Success("final", FALSE)

Planned == /\ WellFormed(plan)
           /\ Len(step_results) <= Len(plan)
           /\ \A i \in 1..Len(step_results) : Settled(i)
           /\ ~Usable(reply) => plan = Trim(Rules(question))

Stage == /\ stage = "planning" => step_results = <<>>
         /\ stage # "planning" => Planned
         /\ stage # "done" => verdict = "none" /\ final_answer = Message("none")
         /\ stage = "done" => /\ Len(step_results) = Len(plan)
                              /\ verdict = Verify
                              /\ final_answer = Override(Finalize(Verify))

IInv == PlanTypeOK /\ Stage

\* A result of a step is a result, and none skips it.
LEMMA OutcomeFacts ==
  ASSUME NEW a \in Actions, NEW res \in Outcomes(a)
  PROVE  /\ res \in Result /\ res.status # "skipped"
         /\ a = "final" => res = Success("final", FALSE)
<1>1. res \in Result
  BY DEF Outcomes
<1>2. CASE a = "final"
  BY <1>1, <1>2 DEF Outcomes, Success
<1>3. CASE a = "tool"
  <2>1. res.status = "success" \/ res.status = "error"
    BY <1>3 DEF Outcomes
  <2>2. QED
    BY <1>1, <1>3, <2>1
<1>4. CASE a = "rag"
  <2>1. res.status = "success" \/ res = Failure("error", "")
    BY <1>4 DEF Outcomes
  <2>2. Failure("error", "").status = "error"
    BY DEF Failure
  <2>3. QED
    BY <1>1, <1>4, <2>1, <2>2
<1>5. QED
  BY <1>2, <1>3, <1>4 DEF Actions

\* An answer names a result or none.
LEMMA AnswerType ==
  ASSUME PlanTypeOK
  PROVE  Override(Finalize(Verify)) \in
           [kind: Verdicts \cup {"none", "no results", "output"}, n: Nat]
<1>0. step_results \in Seq(Result)
  BY DEF PlanTypeOK
<1>1. Len(step_results) \in Nat /\ \A i \in 1..Len(step_results) : i \in Nat
  BY <1>0
<1>2. Speaking \in SUBSET Nat /\ Telling \in SUBSET Nat
  BY <1>1 DEF Speaking, Telling, With
<1>3. /\ Speaking # {} => First(Speaking) \in Nat
      /\ Telling # {} => First(Telling) \in Nat
  BY <1>2, FirstIn
<1>4. Verify \in Verdicts
  BY DEF Verify, Verdicts
<1>5. Finalize(Verify) \in [kind: Verdicts \cup {"none", "no results", "output"}, n: Nat]
  BY <1>3, <1>4 DEF Finalize, Message, OutputOf
<1>6. QED
  BY <1>3, <1>5 DEF Override, OutputOf

\* Lengths are naturals and the bound is positive.
LEMMA Lengths ==
  ASSUME PlanTypeOK
  PROVE  /\ step_results \in Seq(Result) /\ Len(step_results) \in Nat
         /\ plan \in Seq(Actions) /\ Len(plan) \in Nat
         /\ max_steps \in Nat \ {0}
<1>1. step_results \in Seq(Result) /\ plan \in Seq(Actions) /\ max_steps \in Limits
  BY DEF PlanTypeOK
<1>2. QED
  BY <1>1, LimitsAssumption

LEMMA InitIInv == PlanInit => IInv
BY DEF PlanInit, IInv, PlanTypeOK, Stage, Message, Verdicts

LEMMA NextIInv == IInv /\ [PlanNext]_planVars => IInv'
<1> SUFFICES ASSUME IInv, [PlanNext]_planVars
             PROVE  IInv'
  OBVIOUS
<1>0. /\ PlanTypeOK /\ Stage
      /\ step_results \in Seq(Result) /\ Len(step_results) \in Nat
      /\ plan \in Seq(Actions) /\ Len(plan) \in Nat
      /\ max_steps \in Nat \ {0}
  BY Lengths DEF IInv
<1>1. CASE UNCHANGED planVars
  <2>1. /\ UNCHANGED <<max_steps, question, reply, stage, plan, step_results, verdict, final_answer>>
    BY <1>1 DEF planVars, inputs
  <2>2. PlanTypeOK'
    BY <1>0, <2>1 DEF PlanTypeOK
  <2>3. Planned' = Planned
    BY <2>1 DEF Planned, WellFormed, Settled, Usable, Trim, Rules, Prefix
  <2>4. Verify' = Verify
    BY <2>1 DEF Verify, With
  <2>5. Override(Finalize(Verify))' = Override(Finalize(Verify))
    BY <2>1, <2>4 DEF Override, Finalize, UsedRag, Speaking, Telling, With
  <2>6. QED
    BY <1>0, <2>1, <2>2, <2>3, <2>4, <2>5 DEF IInv, Stage
<1>2. CASE MakePlan
  <2>1. WellFormed(plan') /\ max_steps' = max_steps
    BY <1>0, <1>2, Plans DEF MakePlan, PlanTypeOK, inputs
  <2>2. step_results' = <<>> /\ stage' = "executing" /\ UNCHANGED <<max_steps, question, reply>>
    BY <1>0, <1>2 DEF MakePlan, Stage, inputs
  <2>3. Usable(reply)' = Usable(reply) /\ Trim(Rules(question))' = Trim(Rules(question))
    BY <2>2 DEF Usable, Trim, Rules, Prefix
  <2>4. ~Usable(reply)' => plan' = Trim(Rules(question))'
    BY <1>2, <2>3 DEF MakePlan, PlanFor
  <2>5. WellFormed(plan)'
    BY <2>1 DEF WellFormed
  <2>6. Planned'
    BY <2>2, <2>4, <2>5 DEF Planned, WellFormed
  <2>7. QED
    BY <1>0, <1>2, <2>1, <2>2, <2>6 DEF IInv, PlanTypeOK, Stage, MakePlan, WellFormed
<1>3. ASSUME NEW res \in Result, Executing, step_results' = Append(step_results, res),
             UNCHANGED <<inputs, stage, plan, verdict, final_answer>>,
             res.status # "skipped", Current = "final" => res = Success("final", FALSE)
      PROVE  IInv'
  <2>1. step_results \in Seq(Result) /\ Len(step_results) \in Nat
    BY <1>0
  <2>2. /\ step_results' \in Seq(Result) /\ Len(step_results') = Len(step_results) + 1
        /\ \A i \in 1..Len(step_results) : step_results'[i] = step_results[i]
        /\ step_results'[Len(step_results) + 1] = res
    BY <1>3, <2>1
  <2>3. Planned /\ stage = "executing" /\ Len(step_results) < Len(plan) /\ Len(plan) \in Nat
    BY <1>0, <1>3 DEF Executing, Stage, Planned, WellFormed
  <2>4. \A i \in 1..Len(step_results') : Settled(i)'
    <3>1. SUFFICES ASSUME NEW i \in 1..Len(step_results')
                   PROVE  Settled(i)'
      OBVIOUS
    <3>2. CASE i \in 1..Len(step_results)
      BY <1>3, <2>2, <2>3, <3>2 DEF Settled, Planned
    <3>3. CASE i = Len(step_results) + 1
      BY <1>3, <2>2, <3>3 DEF Settled, Current
    <3>4. QED
      BY <2>1, <2>2, <3>2, <3>3
  <2>5. /\ UNCHANGED <<max_steps, question, reply, plan>>
        /\ Len(step_results') <= Len(plan')
    BY <1>3, <2>1, <2>2, <2>3 DEF inputs
  <2>6. Planned'
    <3>1. WellFormed(plan)'
      BY <2>3, <2>5 DEF Planned, WellFormed
    <3>2. ~Usable(reply)' => plan' = Trim(Rules(question))'
      BY <2>3, <2>5 DEF Planned, Usable, Trim, Rules, Prefix
    <3>3. QED
      BY <2>4, <2>5, <3>1, <3>2 DEF Planned
  <2>7. PlanTypeOK'
    BY <1>0, <1>3, <2>2 DEF PlanTypeOK, inputs
  <2>8. QED
    BY <1>0, <1>3, <2>3, <2>6, <2>7 DEF IInv, Stage
<1>4. CASE MarkFinal
  <2>1. Success("final", FALSE) \in Result /\ Success("final", FALSE).status # "skipped"
    BY DEF Success, Result
  <2>2. QED
    BY <1>3, <1>4, <2>1 DEF MarkFinal
<1>5. CASE TakeStep
  <2>1. Len(step_results) < max_steps
    <3>1. Len(step_results) < Len(plan) /\ Len(plan) <= max_steps
      <4>1. Executing
        BY <1>5 DEF TakeStep
      <4>2. QED
        BY <1>0, <4>1 DEF Executing, Stage, Planned, WellFormed
    <3>2. QED
      BY <1>0, <3>1
  <2>2. Current \in Actions
    <3>1. Len(step_results) + 1 \in 1..Len(plan)
      <4>1. Executing
        BY <1>5 DEF TakeStep
      <4>2. QED
        BY <1>0, <4>1 DEF Executing
    <3>2. QED
      BY <1>0, <3>1 DEF Current
  <2>3. PICK res \in Outcomes(Current) : step_results' = Append(step_results, res)
    <3>1. ~(Len(step_results) >= max_steps)
      BY <1>0, <2>1
    <3>2. QED
      BY <1>5, <3>1 DEF TakeStep
  <2>4. QED
    BY <1>3, <1>5, <2>2, <2>3, OutcomeFacts DEF TakeStep
<1>6. CASE Conclude
  <2>1. /\ stage' = "done" /\ UNCHANGED <<inputs, plan, step_results>>
        /\ verdict' = Verify /\ final_answer' = Override(Finalize(Verify))
    BY <1>6 DEF Conclude
  <2>2. Len(step_results) = Len(plan) /\ Planned
    <3>1. Planned /\ Len(step_results) <= Len(plan) /\ Len(step_results) >= Len(plan)
      BY <1>0, <1>6 DEF Conclude, Stage, Planned
    <3>2. QED
      BY <1>0, <3>1
  <2>3. Planned'
    BY <2>1, <2>2 DEF Planned, WellFormed, Settled, inputs, Usable, Trim, Rules, Prefix
  <2>4. Verify' = Verify
    BY <2>1 DEF Verify, With
  <2>5. Override(Finalize(Verify))' = Override(Finalize(Verify))
    BY <2>1, <2>4 DEF Override, Finalize, UsedRag, Speaking, Telling, With
  <2>6. Verify \in Verdicts
    BY DEF Verify, Verdicts
  <2>7. PlanTypeOK'
    BY <1>0, <2>1, <2>6, AnswerType DEF PlanTypeOK, inputs
  <2>8. QED
    BY <2>1, <2>2, <2>3, <2>4, <2>5, <2>7 DEF IInv, Stage
<1>7. QED
  BY <1>1, <1>2, <1>4, <1>5, <1>6 DEF PlanNext

\* The inductive invariant holds in every reachable state.
LEMMA Inductive == PlanSpec => []IInv
<1>1. PlanInit => IInv
  BY InitIInv
<1>2. IInv /\ [PlanNext]_planVars => IInv'
  BY NextIInv
<1>3. QED
  BY <1>1, <1>2, PTL DEF PlanSpec

-----------------------------------------------------------------------------
(* Theorems.                                                                 *)

\* The state of a run keeps its type.
THEOREM TypeCorrect == PlanSpec => []PlanTypeOK
<1>1. IInv => PlanTypeOK
  BY DEF IInv
<1>2. QED
  BY <1>1, Inductive, PTL

\* Every plan is bounded by max_steps and ends with its final step; no step is
\* skipped, and max_steps_reached is never the verdict.
THEOREM PlansAreBounded == PlanSpec => []PlanBounded
<1>1. IInv => PlanBounded
  <2> SUFFICES ASSUME IInv
               PROVE  PlanBounded
    OBVIOUS
  <2>1. With("skipped") = {}
    <3>1. CASE stage = "planning"
      BY <3>1 DEF IInv, Stage, With
    <3>2. CASE stage # "planning"
      BY <3>2 DEF IInv, Stage, Planned, Settled, With
    <3>3. QED
      BY <3>1, <3>2
  <2>2. verdict # "max_steps_reached"
    BY <2>1 DEF IInv, Stage, Planned, WellFormed, Verify
  <2>3. stage # "planning" => Len(plan) \in 1..max_steps /\ plan[Len(plan)] = "final"
    BY DEF IInv, Stage, Planned, WellFormed
  <2>4. QED
    BY <2>1, <2>2, <2>3 DEF PlanBounded
<1>2. QED
  BY <1>1, Inductive, PTL

\* A plan of the rules starts with what was wanted, in order.
THEOREM RulesKeepOrder == PlanSpec => []CutKeepsOrder
<1>1. IInv => CutKeepsOrder
  BY RulePlans, LimitsAssumption DEF IInv, PlanTypeOK, Stage, Planned, CutKeepsOrder
<1>2. QED
  BY <1>1, Inductive, PTL

\* The verdict is success exactly when every step succeeded.
THEOREM VerdictsAreSound == PlanSpec => []VerdictSound
<1>1. IInv => VerdictSound
  <2> SUFFICES ASSUME IInv, stage = "done"
               PROVE  verdict = "success"
                        <=> \A i \in 1..Len(plan) : step_results[i].status = "success"
    BY DEF VerdictSound
  <2>0. step_results \in Seq(Result) /\ Len(plan) \in Nat
    BY Lengths DEF IInv
  <2>1. /\ Len(step_results) = Len(plan) /\ verdict = Verify
        /\ \A i \in 1..Len(plan) : step_results[i].status # "skipped"
    BY DEF IInv, Stage, Planned, Settled
  <2>2. \A i \in 1..Len(plan) : step_results[i].status \in {"success", "error", "skipped"}
    <3>1. \A i \in 1..Len(plan) : step_results[i] \in Result
      BY <2>0, <2>1
    <3>2. QED
      BY <3>1 DEF Result
  <2>3. verdict = "success" <=> With("error") = {}
    BY <2>1 DEF Verify, With
  <2>4. QED
    BY <2>0, <2>1, <2>2, <2>3 DEF With
<1>2. QED
  BY <1>1, Inductive, PTL

\* An answer is never an empty text and never the output of a failed step: its last
\* step has succeeded, so the answer of a plan with a RAG step is a successful one.
THEOREM AnswersSpeak == PlanSpec => []AnswerSpeaks
<1>1. IInv => AnswerSpeaks
  <2> SUFFICES ASSUME IInv, stage = "done", final_answer.kind = "output"
               PROVE  /\ step_results[final_answer.n].output # ""
                      /\ step_results[final_answer.n].status = "success"
    BY DEF AnswerSpeaks
  <2>0. Len(plan) \in Nat
    BY Lengths DEF IInv
  <2>1. /\ Planned /\ Len(step_results) = Len(plan) /\ final_answer = Override(Finalize(Verify))
        /\ Len(plan) \in 1..Len(plan) /\ plan[Len(plan)] = "final"
    BY <2>0 DEF IInv, Stage, Planned, WellFormed
  <2>2. With("success") = {i \in 1..Len(plan) : step_results[i].status = "success"}
    BY <2>1 DEF With
  <2>3. step_results[Len(plan)] = Success("final", FALSE)
    BY <2>1 DEF Planned, Settled
  <2>4. Len(plan) \in Speaking
    <3>1. step_results[Len(plan)].status = "success" /\ step_results[Len(plan)].output # ""
      BY <2>3 DEF Success
    <3>2. Len(plan) \in With("success")
      BY <2>1, <2>2, <3>1
    <3>3. QED
      BY <3>1, <3>2 DEF Speaking
  <2>5. Speaking \in SUBSET Nat
    <3>1. With("success") \subseteq Nat
      BY <2>0, <2>2
    <3>2. QED
      BY <3>1 DEF Speaking
  <2>6. First(Speaking) \in Speaking
    BY <2>4, <2>5, FirstIn
  <2>7. CASE UsedRag
    <3>1. final_answer = OutputOf(First(Speaking))
      BY <2>1, <2>4, <2>7 DEF Override
    <3>2. QED
      BY <2>6, <3>1 DEF OutputOf, Speaking, With
  <2>8. CASE ~UsedRag
    <3>1. final_answer = Message(Verify)
      BY <2>1, <2>8 DEF Override, Finalize
    <3>2. QED
      BY <3>1 DEF Message, Verify
  <2>9. QED
    BY <2>7, <2>8
<1>2. QED
  BY <1>1, Inductive, PTL
=============================================================================
