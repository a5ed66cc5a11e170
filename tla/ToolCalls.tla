------------------------------ MODULE ToolCalls ------------------------------
(***************************************************************************)
(* POST /tools/{name}/invoke: a ToolService is made for the request, which   *)
(* discovers the tools of every MCP server; the tool is found, checked        *)
(* against policy and schema, called, and the call audited; then the route    *)
(* answers. Servers outside the process come, go and change what they offer.  *)
(***************************************************************************)
EXTENDS Integers, Sequences

CONSTANTS
  ConfigLists,      \* what load_mcp_server_configs may return
  Servers, NoServer,
  Raws, Shorts,     \* the servers' own names of tools, and those without prefix
  Short,            \* Short[raw]: _short_tool_name
  Builtins,
  Policy,           \* Policy[b]: of a builtin tool
  Offerings,        \* what an MCP server outside the process may list
  Bundled,          \* what the demo server in the process lists
  Demo,             \* the name "demo"
  CreateTicket,     \* the name "mcp_create_ticket"
  Offered,          \* the calls made: a subset of Calls
  Absent            \* tools[n] while there is no tool n

Roles == {"user", "admin"}
Transports == {"in_process", "stdio", "http"}
Config == [name: Servers, transport: Transports, enabled: BOOLEAN, required_role: Roles]
Definition == [raw: Raws, role: Roles]

\* A tool's name: of a builtin, an alias, or below the name of its server.
Plain(t) == [server |-> NoServer, tool |-> t]
Names == [server: Servers, tool: Shorts] \cup {Plain(t) : t \in Raws \cup Builtins}
Calls == [name: Names, role: Roles, valid: BOOLEAN]   \* valid: the input meets the schema

\* An entry of _tools; of: its namespaced name.
Managed == [server: Servers, raw: Raws, role: Roles, transport: Transports, of: Names]

\* open: enabled, allowed in mode "direct", in need of no confirmation.
ASSUME ToolsAssumption ==
  /\ ConfigLists \subseteq Seq(Config)
  /\ NoServer \notin Servers
  /\ Short \in [Raws -> Shorts]
  /\ Policy \in [Builtins -> [role: Roles, open: BOOLEAN]]
  /\ Offerings \subseteq Seq(Definition) /\ Bundled \in Seq(Definition)
  /\ Offered \subseteq Calls
  /\ Absent \notin Managed

VARIABLES
  configs,     \* the servers configured, in order
  offers, up,  \* what server i lists now; the servers that answer (environment)
  call,        \* the request
  pc,          \* where its handler is
  at, todo,    \* the server being discovered, its definitions not yet registered
  transports,  \* _transports: the server of a name by its place in configs, 0 for none
  tools,       \* _tools
  result,      \* the ToolResult
  ran,         \* the tool an MCP server has executed, and its place
  pend, db,    \* the audit rows: flushed, committed
  told         \* what the caller has been told

outside == <<offers, up>>
manager == <<at, todo, transports, tools>>
vars == <<configs, call, outside, pc, manager, result, ran, pend, db, told>>

Places == 1..Len(configs)
Result == [status: {"none", "success", "error"}, missing: BOOLEAN]  \* its error says "not found"
Row == [status: {"success", "error"}, server: Servers \cup {NoServer},
        transport: Transports \cup {"none"}]
Run == [place: Nat, raw: Raws]

TypeOK == /\ configs \in ConfigLists /\ call \in Offered
          /\ offers \in [Places -> Seq(Definition)] /\ up \subseteq Places
          /\ pc \in {"discovering", "registering", "ready", "invoked", "audited",
                     "finish", "unwind", "closed"}
          /\ at \in 1..(Len(configs) + 1)
          /\ pc = "registering" => at \in Places
          /\ todo \in Seq(Definition)
          /\ transports \in [Servers -> Places \cup {0}]
          /\ tools \in [Names -> Managed \cup {Absent}]
          /\ result \in Result
          /\ ran \subseteq Run
          /\ pend \subseteq Row /\ db \subseteq Row
          /\ told \in {"none", "ok", "not_found", "error", "gone"}

\* What server i may list: the http transport is a placeholder that lists nothing.
MayOffer(i) == IF configs[i].transport = "in_process" THEN {Bundled}
               ELSE IF configs[i].transport = "http" THEN {<<>>}
               ELSE Offerings
Own == {i \in Places : configs[i].transport # "stdio"}     \* not a process of their own

Init == /\ configs \in ConfigLists /\ call \in Offered
        /\ offers \in {o \in [Places -> Offerings \cup {Bundled, <<>>}] :
                          \A i \in Places : o[i] \in MayOffer(i)}
        /\ up \in {u \in SUBSET Places : Own \subseteq u}
        /\ pc = "discovering"
        /\ at = 1 /\ todo = <<>>
        /\ transports = [s \in Servers |-> 0]
        /\ tools = [n \in Names |-> Absent]
        /\ result = [status |-> "none", missing |-> FALSE]
        /\ ran = {} /\ pend = {} /\ db = {}
        /\ told = "none"

-----------------------------------------------------------------------------
(* Discovery: MCPManager.initialize, in the constructor of ToolService.      *)

Goto(l) == pc' = l
Discovery == UNCHANGED <<configs, call, outside, result, ran, pend, db, told>>

\* The next server is asked; one that is disabled or does not answer has no tools.
Connect == /\ pc = "discovering" /\ at \in Places
           /\ transports' = IF configs[at].enabled
                            THEN [transports EXCEPT ![configs[at].name] = at] ELSE transports
           /\ todo' = IF configs[at].enabled /\ at \in up THEN offers[at] ELSE <<>>
           /\ Goto("registering")
           /\ Discovery /\ UNCHANGED <<at, tools>>

\* A slip of EffectiveRole: the role of the server is forgotten.
ToolRole(c, d) == IF d.role = "admin" \/ d.raw = CreateTicket THEN "admin" ELSE "user"

EffectiveRole(c, d) == IF c.required_role = "admin" \/ d.role = "admin" \/ d.raw = CreateTicket
                       THEN "admin" ELSE "user"

PublicName(c, d) == [server |-> c.name, tool |-> Short[d.raw]]

Entry(c, d) == [server |-> c.name, raw |-> d.raw, role |-> EffectiveRole(c, d),
                transport |-> c.transport, of |-> PublicName(c, d)]

Alias(c, d) == Entry(c, d)

\* _register_tool: a later tool of the same short name replaces an earlier one, an
\* alias of the demo server does not.
Register == /\ pc = "registering" /\ todo # <<>>
            /\ LET c == configs[at]
                   d == Head(todo)
                   table == [tools EXCEPT ![PublicName(c, d)] = Entry(c, d)]
               IN tools' = IF c.name = Demo /\ table[Plain(d.raw)] = Absent
                           THEN [table EXCEPT ![Plain(d.raw)] = Alias(c, d)] ELSE table
            /\ todo' = Tail(todo)
            /\ Discovery /\ UNCHANGED <<pc, at, transports>>

Registered == /\ pc = "registering" /\ todo = <<>>
              /\ at' = at + 1
              /\ Goto("discovering")
              /\ Discovery /\ UNCHANGED <<todo, transports, tools>>

\* The registry takes the builtin tools, then the discovered ones; a name already
\* taken is an error that nobody catches.
NameClash == \E b \in Builtins : tools[Plain(b)] # Absent
Build == /\ pc = "discovering" /\ at \notin Places
         /\ Goto(IF NameClash THEN "unwind" ELSE "ready")
         /\ Discovery /\ UNCHANGED manager

-----------------------------------------------------------------------------
(* invoke_tool.                                                              *)

Invocation == UNCHANGED <<configs, call, outside, manager, pend, db, told>>
Return(r) == result' = r /\ Goto("invoked")
Success == [status |-> "success", missing |-> FALSE]
Error(missing) == [status |-> "error", missing |-> missing]

IsBuiltin == \E b \in Builtins : call.name = Plain(b)
IsManaged == tools[call.name] # Absent /\ ~IsBuiltin
Found == IsBuiltin \/ IsManaged
Tool == tools[call.name]

\* _check_policy; a discovered tool is always open.
RoleOf == IF IsBuiltin THEN Policy[call.name.tool].role ELSE Tool.role
Permitted == /\ RoleOf = "admin" => call.role = "admin"
             /\ IsBuiltin => Policy[call.name.tool].open

\* Unknown, not permitted, or with input against the schema: that error may name a
\* field nobody knows, whatever it is called.
Refuse == /\ pc = "ready"
          /\ \/ ~Found /\ Return(Error(TRUE))
             \/ Found /\ ~Permitted /\ Return(Error(FALSE))
             \/ /\ Found /\ Permitted /\ ~call.valid
                /\ \E missing \in BOOLEAN : Return(Error(missing))
          /\ Invocation /\ UNCHANGED ran

Go == pc = "ready" /\ Found /\ Permitted /\ call.valid

\* A builtin tool turns the exceptions it foresees into error results; any other goes
\* through invoke_tool, past its audit.
InvokeBuiltin == /\ Go /\ IsBuiltin
                 /\ \/ \E r \in {Success, Error(TRUE), Error(FALSE)} : Return(r)
                    \/ Goto("unwind") /\ UNCHANGED result
                 /\ Invocation /\ UNCHANGED ran

\* call_tool: the first configuration of the name, the last transport of the name.
Configured == CHOOSE i \in Places : /\ configs[i].name = Tool.server
                                    /\ \A j \in Places : configs[j].name = Tool.server => i <= j
Place == transports[Tool.server]
Serves(i, raw) == i \in up /\ \E k \in DOMAIN offers[i] : offers[i][k].raw = raw

\* The tool runs, and its result or error comes back, or does not.
Execute == /\ Go /\ IsManaged /\ configs[Configured].enabled
           /\ Serves(Place, Tool.raw)
           /\ ran' = ran \cup {[place |-> Place, raw |-> Tool.raw]}
           /\ \E r \in {Success, Error(TRUE), Error(FALSE)} : Return(r)
           /\ Invocation

\* The server is disabled, silent or a placeholder, or no longer has the tool.
Miss == /\ Go /\ IsManaged
        /\ \/ /\ ~configs[Configured].enabled \/ configs[Place].transport # "in_process"
              /\ Return(Error(FALSE))
           \/ /\ configs[Configured].enabled /\ configs[Place].transport # "http"
              /\ Place \in up /\ ~Serves(Place, Tool.raw)
              /\ Return(Error(TRUE))
        /\ Invocation /\ UNCHANGED ran

\* A slip of Metadata: the server is read off the name that was called.
NamedMetadata == [status |-> result.status, server |-> call.name.server,
                  transport |-> IF IsManaged THEN Tool.transport ELSE "none"]

\* _write_audit_log: the metadata of the tool as it was discovered.
Metadata == [status |-> result.status,
             server |-> IF IsManaged THEN Tool.server ELSE NoServer,
             transport |-> IF IsManaged THEN Tool.transport ELSE "none"]

Audit == /\ pc = "invoked"
         /\ pend' = pend \cup {Metadata}
         /\ Goto("audited")
         /\ UNCHANGED <<configs, call, outside, manager, result, ran, db, told>>

AuditFails == /\ pc = "invoked"
              /\ Goto("unwind")
              /\ Invocation /\ UNCHANGED <<result, ran>>

-----------------------------------------------------------------------------
(* The route and the end of the transaction.                                 *)

Over == UNCHANGED <<configs, call, outside, manager, result, ran>>

\* 404 is an exception, for whatever error says "not found"; all else is a response.
NotFound == result.status = "error" /\ result.missing
Respond == /\ pc = "audited"
           /\ IF NotFound THEN Goto("unwind") /\ UNCHANGED told
                          ELSE Goto("finish") /\ told' = "ok"
           /\ Over /\ UNCHANGED <<pend, db>>

Commit == /\ pc = "finish"
          /\ db' = pend
          /\ Goto("closed") /\ pend' = {}
          /\ Over /\ UNCHANGED told

CommitFails == /\ pc = "finish"
               /\ Goto("closed") /\ pend' = {}
               /\ Over /\ UNCHANGED <<db, told>>

\* get_db_session rolls back, then the caller is told; the exception is the 404's only
\* after the audit.
Rollback == /\ pc = "unwind"
            /\ Goto("closed") /\ pend' = {}
            /\ told' = IF NotFound /\ pend # {} THEN "not_found" ELSE "error"
            /\ Over /\ UNCHANGED db

Crash == /\ pc # "closed"
         /\ Goto("closed") /\ pend' = {}
         /\ told' = IF told = "none" THEN "gone" ELSE told
         /\ Over /\ UNCHANGED db

\* A server outside the process changes, goes or comes back.
ServerMoves == /\ pc # "closed"
               /\ \E i \in Places \ Own :
                    \/ \E o \in Offerings : offers' = [offers EXCEPT ![i] = o] /\ UNCHANGED up
                    \/ up' = (IF i \in up THEN up \ {i} ELSE up \cup {i}) /\ UNCHANGED offers
               /\ UNCHANGED <<configs, call, pc, manager, result, ran, pend, db, told>>

Handle == \/ Connect \/ Register \/ Registered \/ Build
          \/ Refuse \/ InvokeBuiltin \/ Execute \/ Miss \/ Audit \/ AuditFails
          \/ Respond \/ Commit \/ CommitFails \/ Rollback

Next == Handle \/ Crash \/ ServerMoves

Spec == Init /\ [][Next]_vars

-----------------------------------------------------------------------------
(* Properties.                                                               *)

\* The rules of a sane configuration: servers have names of their own; a server's
\* tools have short names of their own.
OwnNames == \A list \in ConfigLists : \A i, j \in 1..Len(list) :
               list[i].name = list[j].name => i = j
OwnShorts == \A o \in Offerings \cup {Bundled} : \A i, j \in DOMAIN o :
                Short[o[i].raw] = Short[o[j].raw] => i = j

\* A committed audit row has the status of the call's result and, when a server executed
\* the call, names that server and its transport, under whichever name it was called
\* and whatever servers have become since discovery.
RowTellsTruth ==
  \A row \in db : /\ row.status = result.status
                  /\ \A x \in ran : /\ row.server = configs[x.place].name
                                    /\ row.transport = configs[x.place].transport

\* tools/service.py:23, "Write AuditLog for each invocation": a caller who is told that
\* the tool is not there, or that it raised, has left a row.
EachCallAudited ==
  (told = "not_found" \/ (told = "error" /\ result.status = "none" /\ ~NameClash)) => db # {}

\* Under no name does a user's call execute a tool on a server for admins, or the
\* one that creates tickets, however the servers change and whichever of their tools
\* took the name of another.
RoleKept == call.role = "user" =>
              \A x \in ran : /\ configs[x.place].required_role = "user"
                             /\ x.raw # CreateTicket

\* An alias and the namespaced name it stands for are one tool.
AliasesAgree == \A n \in Names : tools[n] # Absent => tools[tools[n].of] = tools[n]
=============================================================================
