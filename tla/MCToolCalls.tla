----------------------------- MODULE MCToolCalls -----------------------------
(* ToolCalls for TLC: the demo server in the process, alone or with a server   *)
(* outside it, which may be disabled, for admins, or a placeholder; or a       *)
(* process of its own under the demo server's name.                            *)
EXTENDS ToolCalls

MCServers == {"demo", "other"}
MCRaws == {"mcp_echo", "mcp_create_ticket", "stdio_echo", "stdio_create_ticket", "echo_tool"}
MCShorts == {"echo", "create_ticket", "echo_tool"}
MCShort == [r \in MCRaws |-> CASE r \in {"mcp_echo", "stdio_echo"} -> "echo"
                               [] r = "echo_tool" -> "echo_tool"
                               [] OTHER -> "create_ticket"]

\* The builtin tools are open to all; the closed one and the admins' are those of tests.
MCBuiltins == {"echo_tool", "disabled_demo_tool", "admin_tool"}
MCPolicy == [b \in MCBuiltins |-> [role |-> IF b = "admin_tool" THEN "admin" ELSE "user",
                                   open |-> b # "disabled_demo_tool"]]

Tools(raw, role) == [raw |-> raw, role |-> role]
MCBundled == <<Tools("mcp_echo", "user"), Tools("mcp_create_ticket", "user")>>

\* Two tools of one short name, in either order, one of them for admins; one called
\* like a builtin tool.
MCOfferings == {<<>>, <<Tools("stdio_echo", "user")>>,
                <<Tools("mcp_create_ticket", "user"), Tools("stdio_create_ticket", "user")>>,
                <<Tools("stdio_create_ticket", "admin"), Tools("mcp_create_ticket", "user")>>,
                <<Tools("echo_tool", "admin"), Tools("stdio_echo", "user")>>}

DemoServer(on) == [name |-> "demo", transport |-> "in_process", enabled |-> on, required_role |-> "user"]
Second(t, on, role) == [name |-> "other", transport |-> t, enabled |-> on, required_role |-> role]
MCConfigLists ==
  {<<DemoServer(TRUE)>>}
  \cup {<<DemoServer(on), Second(t, TRUE, role)>> : on \in BOOLEAN, t \in {"stdio", "http"}, role \in Roles}
  \cup {<<Second("stdio", TRUE, "user"), DemoServer(TRUE)>>,
        <<DemoServer(TRUE), Second("stdio", FALSE, "user")>>,
        <<[DemoServer(TRUE) EXCEPT !.transport = "stdio"]>>}

MCCalls == Calls

ASSUME SaneAssumption == OwnNames
=============================================================================
