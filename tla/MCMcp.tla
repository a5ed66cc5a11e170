-------------------------------- MODULE MCMcp ---------------------------------
(* The tools and the transport of an MCP server for TLC, in one run. ToolCalls  *)
(* knows of a call only that it answers, fails or is cut off, which is what the *)
(* transport does with it: a behaviour runs the one named by which, and the     *)
(* other stands at one of its initial states.                                *)
EXTENDS MCToolCalls, StdioTransport

VARIABLE which

SomeConfigs == CHOOSE l \in ConfigLists : \A m \in ConfigLists : Len(l) <= Len(m)
SomeCall == CHOOSE c \in Offered : TRUE

\* One server, which runs in the process and so always answers with the bundled tools.
ToolsRest == configs = SomeConfigs /\ call = SomeCall /\ up = Places /\ Init

McpInit == \/ which = "tools" /\ Init /\ TransportInit
           \/ which = "transport" /\ TransportInit /\ ToolsRest

McpNext == \/ which = "tools" /\ Next /\ UNCHANGED <<transportVars, which>>
           \/ which = "transport" /\ TransportNext /\ UNCHANGED <<vars, which>>

McpSpec == McpInit /\ [][McpNext]_<<vars, transportVars, which>> /\ TransportFairness
=============================================================================
