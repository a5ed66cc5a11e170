----------------------------- MODULE MCAgentRun ------------------------------
(* AgentRun for TLC: both agents, all modes, rerankers and providers.          *)
EXTENDS AgentRun, TLC

MCConfigurations ==
  {c \in [agent : {"rag", "react"}, planner : {"rules", "llm"}, max_steps : {0, 5},
          mode : Modes, reranker : Rerankers, providers : SUBSET Providers] :
     c.agent = "rag" => c.planner = "rules" /\ c.max_steps = 5}

AnyOrder == Permutations(Chunks)
=============================================================================
