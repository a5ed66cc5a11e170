---------------------------- MODULE MCPlanExecute ----------------------------
(* Values of the constants of PlanExecute for the model checker.             *)
EXTENDS PlanExecute

SeqsUpTo(S, n) == UNION {[1..k -> S] : k \in 0..n}

\* One or two steps by the other rules, up to three by first ... then ... .
MCQuestions == {q \in [wanted: SeqsUpTo({"tool", "rag"}, 3), compound: BOOLEAN] :
                  q.wanted # <<>> /\ (Len(q.wanted) <= 2 \/ q.compound)}

MCReplies == SeqsUpTo({"tool", "rag", "final", "invalid"}, 4)
=============================================================================
