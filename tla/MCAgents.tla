------------------------------ MODULE MCAgents -------------------------------
(* The agents for TLC, in one run. They share nothing and one of them answers a *)
(* message: a behaviour runs the one named by which, and the other stands at    *)
(* one of its initial states.                                                *)
EXTENDS MCPlanExecute, MCAgentRun

VARIABLE which

SomeLimit == CHOOSE m \in Limits : TRUE
SomeQuestion == CHOOSE q \in Questions : TRUE
SomeSettings == CHOOSE c \in Configurations : TRUE

PlanRests == max_steps = SomeLimit /\ question = SomeQuestion /\ reply = <<>> /\ PlanInit

AgentRests == conf = SomeSettings /\ Init

AgentsInit == \/ which = "plan_execute" /\ PlanInit /\ AgentRests
              \/ which = "rag_or_react" /\ Init /\ PlanRests

PlanStopped == stage = "done" /\ UNCHANGED planVars

AgentsNext ==
  \/ which = "plan_execute" /\ (PlanNext \/ PlanStopped) /\ UNCHANGED <<vars, which>>
  \/ which = "rag_or_react" /\ Next /\ UNCHANGED <<planVars, which>>

AgentsSpec == AgentsInit /\ [][AgentsNext]_<<vars, planVars, which>>
=============================================================================
