--------------------------- MODULE ToolCallsProofs ---------------------------
(***************************************************************************)
(* Theorems about ToolCalls for every configuration, whatever servers offer.  *)
(* What a call does follows from the table of tools, so the invariant is      *)
(* about the table, and about what the call has left so far.                  *)
(***************************************************************************)
EXTENDS ToolCalls, TLAPS

-----------------------------------------------------------------------------
(* The inductive invariant.                                                  *)

Here == IF pc = "discovering" THEN at - 1 ELSE at   \* the last server asked

\* The entry is of a server asked already, whose transport is the one of its name.
Placed(m) == \E p \in Places :
  /\ p <= Here
  /\ transports[m.server] = p
  /\ configs[p].name = m.server /\ configs[p].enabled /\ configs[p].transport = m.transport
  /\ configs[p].required_role = "admin" \/ m.raw = CreateTicket => m.role = "admin"

\* It stands below its proper name, or below that of its alias.
Named(n) == LET m == tools[n] IN
            /\ m.of = [server |-> m.server, tool |-> Short[m.raw]]
            /\ n = m.of \/ n = Plain(m.raw)

Table == /\ \A n \in Names : tools[n] # Absent => Placed(tools[n]) /\ Named(n)
         /\ OwnShorts => AliasesAgree

\* What is still to register has names of its own, when servers keep them apart.
Pending == /\ pc \notin {"registering", "closed"} => todo = <<>>
           /\ todo # <<>> => configs[at].enabled /\ transports[configs[at].name] = at
           /\ OwnShorts =>
                /\ \A i, j \in DOMAIN todo : Short[todo[i].raw] = Short[todo[j].raw] => i = j
                /\ \A i \in DOMAIN todo :
                     tools[[server |-> configs[at].name, tool |-> Short[todo[i].raw]]] = Absent

Asked == pc \in {"discovering", "registering", "ready"}
Lists == \A i \in Places : offers[i] \in MayOffer(i)

\* What the call has done, and what stands of it.
Done == /\ Asked => ran = {} /\ result.status = "none"
        /\ ran # {} => /\ IsManaged /\ Permitted
                       /\ ran = {[place |-> Place, raw |-> Tool.raw]}
        /\ pc \in {"audited", "finish"} => pend = {Metadata} /\ result.status # "none"
        /\ pc = "invoked" => result.status # "none"
        /\ pc \notin {"audited", "finish", "unwind"} => pend = {}
        /\ db # {} => db = {Metadata} /\ pc = "closed" /\ told = "ok" /\ result.status # "none"
        /\ pc = "finish" => told = "ok"
        /\ pc \notin {"finish", "closed"} => told = "none"

IInv == TypeOK /\ Lists /\ Table /\ Pending /\ Done

-----------------------------------------------------------------------------
(* Lemmas.                                                                   *)

LEMMA ConfigTypes ==
  ASSUME TypeOK
  PROVE  /\ configs \in Seq(Config) /\ Len(configs) \in Nat
         /\ \A i \in Places : configs[i] \in Config
BY ToolsAssumption DEF TypeOK, Places

LEMMA NameTypes ==
  /\ \A c \in Config, d \in Definition :
        /\ PublicName(c, d) \in Names /\ Entry(c, d) \in Managed
        /\ PublicName(c, d) # Plain(d.raw)
  /\ \A r \in Raws : Plain(r) \in Names /\ Plain(r).server = NoServer
<1>1. ASSUME NEW c \in Config, NEW d \in Definition
      PROVE  PublicName(c, d) \in Names /\ PublicName(c, d) # Plain(d.raw)
  BY ToolsAssumption DEF Config, Definition, PublicName, Names, Plain
<1>2. ASSUME NEW c \in Config, NEW d \in Definition PROVE Entry(c, d) \in Managed
  BY <1>1, ToolsAssumption DEF Config, Definition, Entry, EffectiveRole, Managed, Roles
<1> QED
  BY <1>1, <1>2 DEF Names, Plain

\* The table stands when nothing of the manager changes.
LEMMA TableKept ==
  ASSUME TypeOK, Table, UNCHANGED <<configs, manager>>, pc' # "discovering" \/ pc' = pc
  PROVE  Table'
<1>1. Places' = Places /\ at \in Nat /\ Here \in Int /\ Here <= Here'
  BY ConfigTypes DEF TypeOK, manager, Places, Here
<1>2. ASSUME NEW n \in Names, tools[n] # Absent PROVE Placed(tools[n])' /\ Named(n)'
  <2>1. Placed(tools[n]) /\ Named(n) /\ tools' = tools
    BY <1>2 DEF Table, manager
  <2>2. Placed(tools[n])'
    <3>1. PICK p \in Places :
            /\ p <= Here /\ transports[tools[n].server] = p
            /\ configs[p].name = tools[n].server /\ configs[p].enabled
            /\ configs[p].transport = tools[n].transport
            /\ configs[p].required_role = "admin" \/ tools[n].raw = CreateTicket
                 => tools[n].role = "admin"
      BY <2>1 DEF Placed
    <3>2. p <= Here'
      <4>1. p \in Int /\ Here' \in Int
        BY <1>1 DEF Places, Here, manager
      <4> QED
        BY <1>1, <3>1, <4>1
    <3> QED
      BY <1>1, <2>1, <3>1, <3>2 DEF Placed, manager
  <2>3. Named(n)'
    BY <2>1 DEF Named
  <2> QED
    BY <2>2, <2>3
<1>3. OwnShorts => AliasesAgree'
  BY DEF Table, AliasesAgree, manager
<1> QED
  BY <1>2, <1>3 DEF Table, manager

LEMMA SameTool ==
  ASSUME UNCHANGED <<configs, call, manager>>
  PROVE  /\ IsBuiltin' = IsBuiltin /\ IsManaged' = IsManaged /\ Permitted' = Permitted
         /\ Tool' = Tool /\ Place' = Place
         /\ result' = result => Metadata' = Metadata
BY DEF manager, IsBuiltin, IsManaged, Permitted, RoleOf, Tool, Place, Metadata

LEMMA MetadataType ==
  ASSUME TypeOK, result.status # "none"
  PROVE  Metadata \in Row /\ Metadata.status = result.status
<1>1. call.name \in Names
  BY ToolsAssumption DEF TypeOK, Calls
<1>2. IsManaged => Tool \in Managed
  BY <1>1 DEF TypeOK, IsManaged, Tool
<1> QED
  BY <1>2 DEF TypeOK, Metadata, Row, Result, Managed

-----------------------------------------------------------------------------
(* Discovery.                                                                *)

LEMMA DiscoveryKeeps ==
  ASSUME IInv, Discovery, Asked, Asked' \/ pc' = "unwind"
  PROVE  Lists' /\ Done'
BY DEF IInv, Discovery, outside, Lists, MayOffer, Places, Done, Asked

LEMMA ConnectStep == ASSUME OwnNames, IInv, Connect PROVE IInv'
<1> DEFINE c == configs[at]
<1>1. /\ pc = "discovering" /\ pc' = "registering" /\ at \in Places /\ at' = at /\ tools' = tools
      /\ c \in Config /\ configs' = configs /\ Places' = Places /\ offers' = offers
      /\ todo = <<>>
  BY ConfigTypes DEF Connect, Goto, Discovery, outside, IInv, TypeOK, Pending, Places
<1>2. /\ transports' = IF c.enabled THEN [transports EXCEPT ![c.name] = at] ELSE transports
      /\ todo' = (IF c.enabled /\ at \in up THEN offers[at] ELSE <<>>)
      /\ todo' = <<>> \/ (c.enabled /\ todo' = offers[at])
  BY DEF Connect
<1>3. offers[at] \in Offerings \cup {Bundled, <<>>} /\ offers[at] \in Seq(Definition)
  BY <1>1 DEF IInv, TypeOK, Lists, MayOffer
<1>4. TypeOK'
  <2>1. todo' \in Seq(Definition)
    BY <1>2, <1>3
  <2>2. transports' \in [Servers -> Places \cup {0}]
    BY <1>1, <1>2 DEF IInv, TypeOK, Config
  <2> QED
    BY <1>1, <2>1, <2>2 DEF IInv, TypeOK, Connect, Goto, Discovery, outside
<1>5. Table'
  <2>1. ASSUME NEW n \in Names, tools[n] # Absent PROVE Placed(tools[n])'
    <3>1. PICK p \in Places :
            /\ p <= at - 1 /\ transports[tools[n].server] = p
            /\ configs[p].name = tools[n].server /\ configs[p].enabled
            /\ configs[p].transport = tools[n].transport
            /\ configs[p].required_role = "admin" \/ tools[n].raw = CreateTicket
                 => tools[n].role = "admin"
      BY <1>1, <2>1 DEF IInv, Table, Placed, Here
    <3>2. c.name # tools[n].server
      <4>1. configs \in ConfigLists /\ at \in Nat /\ p # at
        BY <1>1, <3>1, ConfigTypes DEF IInv, TypeOK, Places
      <4> QED
        BY <1>1, <3>1, <4>1 DEF OwnNames, Places
    <3>3. tools[n].server \in Servers
      BY <2>1 DEF IInv, TypeOK, Managed
    <3>4. transports'[tools[n].server] = p
      BY <1>2, <3>1, <3>2, <3>3 DEF IInv, TypeOK
    <3>5. p <= at
      BY <1>1, <3>1, ConfigTypes DEF Places, IInv
    <3> QED
      BY <1>1, <3>1, <3>4, <3>5 DEF Placed, Here
  <2> QED
    BY <1>1, <2>1 DEF IInv, Table, Named, AliasesAgree
<1>6. Pending'
  <2>1. todo' # <<>> => c.enabled /\ transports'[c.name] = at
    BY <1>1, <1>2 DEF IInv, TypeOK, Config
  <2>2. OwnShorts => \A i, j \in DOMAIN todo' : Short[todo'[i].raw] = Short[todo'[j].raw] => i = j
    <3>1. \A i, j \in DOMAIN <<>> : i = j
      OBVIOUS
    <3> QED
      BY <1>2, <1>3, <3>1 DEF OwnShorts
  <2>3. ASSUME NEW i \in DOMAIN todo'
        PROVE  tools[[server |-> c.name, tool |-> Short[todo'[i].raw]]] = Absent
    <3> DEFINE n == [server |-> c.name, tool |-> Short[todo'[i].raw]]
    <3>1. todo'[i] \in Definition
      BY <1>2, <1>3
    <3>2. n \in Names
      BY <1>1, <3>1, NameTypes DEF PublicName
    <3>3. SUFFICES ASSUME tools[n] # Absent PROVE FALSE
      OBVIOUS
    <3> HIDE DEF n
    <3>4. /\ n = tools[n].of \/ n = Plain(tools[n].raw)
          /\ tools[n].of.server = tools[n].server
      <4>1. Named(n)
        BY <3>2, <3>3 DEF IInv, Table
      <4> QED
        BY <4>1 DEF Named
    <3> USE DEF n
    <3>5. n.server # NoServer
      BY <1>1, ToolsAssumption DEF Config
    <3>6. tools[n].server = c.name
      BY <3>4, <3>5 DEF Plain
    <3>7. PICK p \in Places : p <= at - 1 /\ configs[p].name = c.name
      BY <1>1, <3>2, <3>3, <3>6 DEF IInv, Table, Placed, Here
    <3>8. configs \in ConfigLists /\ at \in Nat /\ p \in Nat
      BY <1>1, ConfigTypes DEF IInv, TypeOK, Places
    <3> QED
      BY <1>1, <3>7, <3>8 DEF OwnNames, Places
  <2> QED
    BY <1>1, <2>1, <2>2, <2>3 DEF Pending
<1>7. Lists' /\ Done'
  BY <1>1, DiscoveryKeeps DEF Connect, Asked
<1> QED
  BY <1>4, <1>5, <1>6, <1>7 DEF IInv

LEMMA RegisterStep == ASSUME IInv, Register PROVE IInv'
<1> DEFINE c == configs[at]
           d == Head(todo)
           pub == PublicName(c, d)
           plain == Plain(d.raw)
           new == Entry(c, d)
<1>1. /\ pc = "registering" /\ pc' = pc /\ at' = at /\ todo' = Tail(todo) /\ todo # <<>>
      /\ transports' = transports /\ configs' = configs /\ Places' = Places
      /\ at \in Places /\ todo \in Seq(Definition)
  BY DEF Register, Discovery, IInv, TypeOK, Places
<1>2. c \in Config /\ d \in Definition /\ d = todo[1] /\ 1 \in DOMAIN todo
  BY <1>1, ConfigTypes DEF IInv
<1>3. pub \in Names /\ plain \in Names /\ new \in Managed /\ pub # plain
  BY <1>2, NameTypes DEF Definition
<1>4. new.of = pub /\ new.server = c.name /\ new.raw = d.raw
  BY DEF Entry
<1>5. /\ c.enabled /\ transports[c.name] = at
      /\ OwnShorts => tools[pub] = Absent
  BY <1>1, <1>2 DEF IInv, Pending, PublicName
<1>6. /\ tools' \in [Names -> Managed \cup {Absent}]
      /\ tools'[pub] = new
      /\ \A n \in Names : \/ tools'[n] = tools[n] /\ n # pub
                          \/ /\ tools'[n] = new /\ n \in {pub, plain}
                             /\ n = pub \/ tools[n] = Absent
  <2> DEFINE table == [tools EXCEPT ![pub] = new]
  <2>1. tools' = IF c.name = Demo /\ table[plain] = Absent
                 THEN [table EXCEPT ![plain] = new] ELSE table
    BY DEF Register, Alias
  <2>2. tools \in [Names -> Managed \cup {Absent}]
    BY DEF IInv, TypeOK
  <2> HIDE DEF pub, plain, new
  <2>3. table \in [Names -> Managed \cup {Absent}] /\ table[plain] = tools[plain]
    BY <1>3, <2>2
  <2>4. CASE tools' = table
    <3>1. \A n \in Names : tools'[n] = IF n = pub THEN new ELSE tools[n]
      BY <1>3, <2>2, <2>4
    <3>2. tools' \in [Names -> Managed \cup {Absent}]
      BY <2>3, <2>4
    <3> HIDE DEF table
    <3> QED
      BY <1>3, <1>5, <3>1, <3>2
  <2>5. CASE tools' = [table EXCEPT ![plain] = new] /\ tools[plain] = Absent
    <3>1. \A n \in Names : tools'[n] = IF n \in {pub, plain} THEN new ELSE tools[n]
      BY <1>3, <2>2, <2>3, <2>5
    <3>2. tools' \in [Names -> Managed \cup {Absent}]
      BY <1>3, <2>3, <2>5
    <3>3. tools[plain] = Absent
      BY <2>5
    <3> HIDE DEF table
    <3> QED
      BY <1>3, <1>5, <3>1, <3>2, <3>3
  <2> QED
    BY <2>1, <2>3, <2>4, <2>5
<1>7. TypeOK'
  <2>1. todo' \in Seq(Definition)
    BY <1>1
  <2> QED
    BY <1>1, <1>6, <2>1 DEF IInv, TypeOK, Register, Discovery, outside
<1>8. ASSUME NEW n \in Names, tools'[n] # Absent PROVE Placed(tools[n])' /\ Named(n)'
  <2>1. CASE tools'[n] = new /\ n \in {pub, plain}
    <3>1. Placed(tools[n])'
      <4>1. c.required_role = "admin" \/ new.raw = CreateTicket => new.role = "admin"
        BY DEF Entry, EffectiveRole
      <4>2. new.transport = c.transport
        BY DEF Entry
      <4>3. at <= Here'
        BY <1>1 DEF Here, Places
      <4> QED
        BY <1>1, <1>4, <1>5, <2>1, <4>1, <4>2, <4>3 DEF Placed
    <3>2. Named(n)'
      BY <1>4, <2>1 DEF Named, PublicName
    <3> QED
      BY <3>1, <3>2
  <2>2. CASE tools'[n] = tools[n]
    <3>1. Placed(tools[n]) /\ Named(n) /\ tools[n] \in Managed
      BY <1>8, <2>2 DEF IInv, TypeOK, Table
    <3>2. Placed(tools[n])'
      BY <1>1, <2>2, <3>1 DEF Placed, Here
    <3> QED
      BY <2>2, <3>1, <3>2 DEF Named
  <2> QED
    BY <1>6, <1>8, <2>1, <2>2
<1>9. OwnShorts => AliasesAgree'
  <2> SUFFICES ASSUME OwnShorts, NEW n \in Names, tools'[n] # Absent
               PROVE  tools'[tools'[n].of] = tools'[n]
    BY DEF AliasesAgree
  <2>1. CASE tools'[n] = new
    BY <1>4, <1>6, <2>1
  <2>2. CASE tools'[n] = tools[n]
    <3>1. tools[n] \in Managed /\ tools[tools[n].of] = tools[n]
      BY <2>2 DEF IInv, TypeOK, Table, AliasesAgree
    <3>2. tools[n].of \in Names /\ tools[tools[n].of] # Absent
      BY <3>1, ToolsAssumption DEF Managed
    <3> HIDE DEF pub, plain, new
    <3>3. CASE tools[n].of = pub
      BY <1>5, <3>2, <3>3
    <3>4. CASE tools[n].of # pub
      BY <1>6, <2>2, <3>1, <3>2, <3>4
    <3> QED
      BY <3>3, <3>4
  <2> QED
    BY <1>6, <2>1, <2>2
<1>10. Pending'
  <2>1. ASSUME NEW i \in DOMAIN todo'
        PROVE i + 1 \in DOMAIN todo /\ todo'[i] = todo[i + 1] /\ i + 1 # 1
    BY <1>1
  <2>2. OwnShorts => \A i, j \in DOMAIN todo' : Short[todo'[i].raw] = Short[todo'[j].raw] => i = j
    <3> SUFFICES ASSUME OwnShorts, NEW i \in DOMAIN todo', NEW j \in DOMAIN todo',
                        Short[todo'[i].raw] = Short[todo'[j].raw]
                 PROVE  i = j
      OBVIOUS
    <3>1. i + 1 = j + 1
      BY <2>1 DEF IInv, Pending
    <3>2. i \in Nat /\ j \in Nat
      BY <1>1
    <3> QED
      BY <3>1, <3>2
  <2>3. ASSUME OwnShorts, NEW i \in DOMAIN todo'
        PROVE  tools'[[server |-> c.name, tool |-> Short[todo'[i].raw]]] = Absent
    <3> DEFINE n == [server |-> c.name, tool |-> Short[todo'[i].raw]]
    <3>1. tools[n] = Absent /\ Short[todo'[i].raw] # Short[d.raw]
      BY <1>2, <2>1, <2>3 DEF IInv, Pending
    <3>2. n # pub
      BY <3>1 DEF PublicName
    <3>3. n # plain
      BY <1>2, ToolsAssumption DEF Plain, Config
    <3>4. n \in Names
      <4>1. todo'[i] \in Definition
        BY <1>1, <2>1
      <4> QED
        BY <1>2, <4>1, NameTypes DEF PublicName
    <3> HIDE DEF n, pub, plain
    <3>5. tools'[n] = Absent
      BY <1>6, <3>1, <3>2, <3>3, <3>4
    <3> QED
      BY <3>5 DEF n
  <2> QED
    BY <1>1, <1>5, <2>2, <2>3 DEF Pending
<1>11. Lists' /\ Done'
  BY <1>1, DiscoveryKeeps DEF Register, Asked
<1> QED
  BY <1>7, <1>8, <1>9, <1>10, <1>11 DEF IInv, Table

LEMMA RegisteredStep == ASSUME IInv, Registered PROVE IInv'
<1>1. /\ pc = "registering" /\ pc' = "discovering" /\ at' = at + 1 /\ todo' = todo /\ todo = <<>>
      /\ transports' = transports /\ tools' = tools /\ configs' = configs /\ Places' = Places
      /\ at \in Places /\ Len(configs) \in Nat
  BY ConfigTypes DEF Registered, Goto, Discovery, IInv, TypeOK, Places
<1>2. TypeOK'
  BY <1>1 DEF IInv, TypeOK, Registered, Discovery, outside, Places
<1>3. Here' = Here
  BY <1>1 DEF Here, Places
<1>4. Table'
  BY <1>1, <1>3 DEF IInv, Table, Placed, Named, AliasesAgree
<1>5. Pending'
  BY <1>1 DEF Pending
<1>6. Lists' /\ Done'
  BY <1>1, DiscoveryKeeps DEF Registered, Asked
<1> QED
  BY <1>2, <1>4, <1>5, <1>6 DEF IInv

LEMMA BuildStep == ASSUME IInv, Build PROVE IInv'
<1>1. /\ pc = "discovering" /\ pc' \in {"unwind", "ready"} /\ UNCHANGED <<configs, manager>>
      /\ todo = <<>>
  BY DEF Build, Goto, Discovery, IInv, Pending
<1>2. TypeOK'
  BY <1>1 DEF IInv, TypeOK, Build, Discovery, outside, manager, Places
<1>3. Table'
  BY <1>1, TableKept DEF IInv
<1>4. Pending'
  BY <1>1 DEF Pending, manager
<1>5. Lists' /\ Done'
  BY <1>1, DiscoveryKeeps DEF Build, Asked
<1> QED
  BY <1>2, <1>3, <1>4, <1>5 DEF IInv

-----------------------------------------------------------------------------
(* The call.                                                                 *)

\* What the table and the name say of the tool a call finds.
LEMMA FoundTool ==
  ASSUME IInv, IsManaged
  PROVE  Placed(Tool) /\ Named(call.name) /\ Tool \in Managed
<1>1. call.name \in Names
  BY ToolsAssumption DEF IInv, TypeOK, Calls
<1> QED
  BY <1>1 DEF IInv, TypeOK, Table, IsManaged, Tool

\* A step of the call leaves the table alone, and the servers as they are.
LEMMA CallKeeps ==
  ASSUME IInv, UNCHANGED <<configs, manager, offers>>, pc' # "discovering",
         pc \notin {"registering", "closed"}
  PROVE  Table' /\ Pending' /\ Lists'
<1>1. Table'
  BY TableKept DEF IInv
<1>2. Pending'
  BY DEF IInv, Pending, manager
<1>3. Lists'
  BY DEF IInv, Lists, MayOffer, Places
<1> QED
  BY <1>1, <1>2, <1>3

\* The steps from "ready" to "invoked", which differ in what they have run.
LEMMA ReturnStep ==
  ASSUME IInv, pc = "ready", Invocation, NEW r \in Result, r.status # "none", Return(r),
         ran' \subseteq Run,
         ran' # {} => /\ IsManaged /\ Permitted
                      /\ ran' = {[place |-> Place, raw |-> Tool.raw]}
  PROVE  IInv'
<1>1. /\ pc' = "invoked" /\ result' = r
      /\ UNCHANGED <<configs, call, offers, up, manager, pend, db, told>>
  BY DEF Return, Goto, Invocation, outside
<1>2. TypeOK'
  BY <1>1 DEF IInv, TypeOK, manager, Places
<1>3. Table' /\ Pending' /\ Lists'
  BY <1>1, CallKeeps
<1>4. Done'
  <2>1. pend = {} /\ db = {} /\ told = "none"
    BY DEF IInv, Done
  <2> QED
    BY <1>1, <2>1, SameTool DEF Done, Asked
<1> QED
  BY <1>2, <1>3, <1>4 DEF IInv

LEMMA InvokeStep ==
  ASSUME IInv, Refuse \/ InvokeBuiltin \/ Execute \/ Miss
  PROVE  IInv'
<1>1. /\ Success \in Result /\ \A missing \in BOOLEAN : Error(missing) \in Result
      /\ Success.status # "none" /\ \A missing \in BOOLEAN : Error(missing).status # "none"
  BY DEF Success, Error, Result
<1>2. pc = "ready" /\ Invocation /\ ran \subseteq Run
  BY DEF Refuse, InvokeBuiltin, Execute, Miss, Go, IInv, TypeOK
<1>3. ran = {}
  BY <1>2 DEF IInv, Done, Asked
<1>4. \/ ran' = {}
      \/ ran' = {[place |-> Place, raw |-> Tool.raw]} /\ IsManaged /\ Permitted
  BY <1>3 DEF Refuse, InvokeBuiltin, Execute, Miss, Go
<1>5. IsManaged => [place |-> Place, raw |-> Tool.raw] \in Run
  <2> SUFFICES ASSUME IsManaged PROVE Place \in Nat /\ Tool.raw \in Raws
    BY DEF Run
  <2>1. Placed(Tool) /\ Tool \in Managed
    BY FoundTool
  <2> QED
    BY <2>1 DEF Placed, Place, Places, Managed
<1>6. CASE \E r \in Result : r.status # "none" /\ Return(r)
  BY <1>2, <1>4, <1>5, <1>6, ReturnStep
<1>7. CASE InvokeBuiltin /\ pc' = "unwind" /\ result' = result
  <2>1. UNCHANGED <<configs, call, offers, up, manager, result, ran, pend, db, told>>
    BY <1>7 DEF InvokeBuiltin, Invocation, outside
  <2>2. TypeOK'
    BY <1>7, <2>1 DEF IInv, TypeOK, manager, Places
  <2>3. Table' /\ Pending' /\ Lists'
    BY <1>2, <1>7, <2>1, CallKeeps
  <2>4. Done'
    BY <1>2, <1>3, <1>7, <2>1 DEF IInv, Done, Asked
  <2> QED
    BY <2>2, <2>3, <2>4 DEF IInv
<1> QED
  BY <1>1, <1>6, <1>7 DEF Refuse, InvokeBuiltin, Execute, Miss, Goto

LEMMA AuditStep == ASSUME IInv, Audit \/ AuditFails PROVE IInv'
<1>1. /\ pc = "invoked" /\ pc' \in {"audited", "unwind"}
      /\ UNCHANGED <<configs, call, offers, up, manager, result, ran, db, told>>
      /\ pc' = "audited" => pend' = pend \cup {Metadata}
      /\ pc' = "unwind" => pend' = pend
  BY DEF Audit, AuditFails, Invocation, Goto, outside
<1>2. pend = {} /\ db = {} /\ told = "none" /\ result.status # "none"
  BY <1>1 DEF IInv, Done
<1>3. Metadata \in Row
  BY <1>2, MetadataType DEF IInv
<1>4. TypeOK'
  BY <1>1, <1>2, <1>3 DEF IInv, TypeOK, manager, Places
<1>5. Table' /\ Pending' /\ Lists'
  BY <1>1, CallKeeps
<1>6. Done'
  BY <1>1, <1>2, SameTool DEF IInv, Done, Asked
<1> QED
  BY <1>4, <1>5, <1>6 DEF IInv

LEMMA EndStep ==
  ASSUME IInv, Respond \/ Commit \/ CommitFails \/ Rollback
  PROVE  IInv'
<1>1. /\ pc \in {"audited", "finish", "unwind"} /\ pc' \in {"finish", "unwind", "closed"}
      /\ UNCHANGED <<configs, call, offers, up, manager, result, ran>>
  BY DEF Respond, Commit, CommitFails, Rollback, Goto, Over, outside
<1>2. Table' /\ Pending' /\ Lists'
  BY <1>1, CallKeeps
<1>3. db = {}
  BY <1>1 DEF IInv, Done
<1>4. pend' \subseteq Row /\ db' \subseteq Row /\ told' \in {"none", "ok", "not_found", "error", "gone"}
  BY <1>3 DEF IInv, TypeOK, Respond, Commit, CommitFails, Rollback, Over
<1>5. TypeOK'
  BY <1>1, <1>4 DEF IInv, TypeOK, manager, Places
<1>6. Done'
  <2>1. Metadata' = Metadata /\ IsManaged' = IsManaged /\ Permitted' = Permitted /\ Place' = Place /\ Tool' = Tool
    BY <1>1, SameTool
  <2>2. CASE Respond
    BY <1>1, <1>3, <2>1, <2>2 DEF IInv, Done, Asked, Respond, Goto
  <2>3. CASE Commit
    BY <1>1, <1>3, <2>1, <2>3 DEF IInv, Done, Asked, Commit, Goto, Over
  <2>4. CASE CommitFails \/ Rollback
    BY <1>1, <1>3, <2>1, <2>4 DEF IInv, Done, Asked, CommitFails, Rollback, Goto, Over
  <2> QED
    BY <2>2, <2>3, <2>4
<1> QED
  BY <1>2, <1>5, <1>6 DEF IInv

LEMMA CrashStep == ASSUME IInv, Crash PROVE IInv'
<1>1. /\ pc # "closed" /\ pc' = "closed" /\ pend' = {} /\ db' = db
      /\ UNCHANGED <<configs, call, offers, up, manager, result, ran>>
  BY DEF Crash, Goto, Over, outside
<1>2. db = {} /\ told' \in {"none", "ok", "not_found", "error", "gone"}
  BY <1>1 DEF IInv, TypeOK, Done, Crash
<1>3. TypeOK'
  BY <1>1, <1>2 DEF IInv, TypeOK, manager, Places
<1>4. Table'
  BY <1>1, TableKept DEF IInv
<1>5. Pending'
  BY <1>1 DEF IInv, Pending, manager
<1>6. Lists'
  BY <1>1 DEF IInv, Lists, MayOffer, Places
<1>7. Done'
  BY <1>1, <1>2, SameTool DEF IInv, Done, Asked
<1> QED
  BY <1>3, <1>4, <1>5, <1>6, <1>7 DEF IInv

LEMMA ServerStep == ASSUME IInv, ServerMoves PROVE IInv'
<1>1. /\ UNCHANGED <<configs, call, pc, manager, result, ran, pend, db, told>>
      /\ Places' = Places /\ offers \in [Places -> Seq(Definition)] /\ up \subseteq Places
  BY DEF ServerMoves, IInv, TypeOK, Places
<1>2. /\ offers' \in [Places -> Seq(Definition)] /\ up' \subseteq Places /\ Lists'
  <2>1. PICK i \in Places \ Own :
          \/ \E o \in Offerings : offers' = [offers EXCEPT ![i] = o] /\ UNCHANGED up
          \/ up' = (IF i \in up THEN up \ {i} ELSE up \cup {i}) /\ UNCHANGED offers
    BY DEF ServerMoves
  <2>2. i \in Places /\ configs[i].transport = "stdio"
    BY <2>1 DEF Own
  <2>3. \A j \in Places : MayOffer(j)' = MayOffer(j) /\ offers[j] \in MayOffer(j)
    BY <1>1 DEF MayOffer, IInv, Lists
  <2>4. MayOffer(i) = Offerings
    BY <2>2 DEF MayOffer
  <2>5. CASE \E o \in Offerings : offers' = [offers EXCEPT ![i] = o] /\ UNCHANGED up
    <3>1. PICK o \in Offerings : offers' = [offers EXCEPT ![i] = o] /\ UNCHANGED up
      BY <2>5
    <3>2. o \in Seq(Definition)
      BY ToolsAssumption
    <3> QED
      BY <1>1, <2>2, <2>3, <2>4, <3>1, <3>2 DEF Lists
  <2>6. CASE up' \subseteq up \cup {i} /\ UNCHANGED offers
    BY <1>1, <2>2, <2>3, <2>6 DEF Lists
  <2> QED
    BY <2>1, <2>5, <2>6
<1>3. TypeOK'
  BY <1>1, <1>2 DEF IInv, TypeOK, manager
<1>4. Table'
  BY <1>1, TableKept DEF IInv
<1>5. Pending'
  BY <1>1 DEF IInv, Pending, manager
<1>6. Done'
  BY <1>1, SameTool DEF IInv, Done, Asked
<1> QED
  BY <1>2, <1>3, <1>4, <1>5, <1>6 DEF IInv

-----------------------------------------------------------------------------
(* The invariant, and what follows from it.                                  *)

LEMMA InitInv == Init => IInv
<1> SUFFICES ASSUME Init PROVE IInv
  OBVIOUS
<1>1. configs \in Seq(Config) /\ Places = 1..Len(configs) /\ Len(configs) \in Nat
  BY ToolsAssumption DEF Init, Places
<1>2. offers \in [Places -> Seq(Definition)] /\ Lists
  <2>1. /\ offers \in [Places -> Offerings \cup {Bundled, <<>>}]
        /\ \A i \in Places : offers[i] \in MayOffer(i)
    BY DEF Init
  <2>2. Offerings \cup {Bundled, <<>>} \subseteq Seq(Definition)
    <3>1. <<>> \in Seq(Definition)
      OBVIOUS
    <3> QED
      BY <3>1, ToolsAssumption
  <2> QED
    BY <2>1, <2>2 DEF Lists
<1>3. TypeOK
  BY <1>1, <1>2 DEF Init, TypeOK, Result
<1>4. Table
  BY DEF Init, Table, AliasesAgree
<1>5. Pending
  BY DEF Init, Pending
<1>6. Done
  BY DEF Init, Done
<1> QED
  BY <1>2, <1>3, <1>4, <1>5, <1>6 DEF IInv

LEMMA StepInv == OwnNames /\ IInv /\ [Next]_vars => IInv'
<1> SUFFICES ASSUME OwnNames, IInv, [Next]_vars PROVE IInv'
  OBVIOUS
<1>1. CASE Handle
  BY <1>1, ConnectStep, RegisterStep, RegisteredStep, BuildStep, InvokeStep, AuditStep, EndStep
     DEF Handle
<1>2. CASE Crash
  BY <1>2, CrashStep
<1>3. CASE ServerMoves
  BY <1>3, ServerStep
<1>4. CASE UNCHANGED vars
  <2>1. UNCHANGED <<configs, call, outside, pc, manager, result, ran, pend, db, told>>
    BY <1>4 DEF vars
  <2>2. TypeOK' /\ Lists'
    BY <2>1 DEF IInv, TypeOK, Lists, MayOffer, Places, outside, manager
  <2>3. Table'
    BY <2>1, TableKept DEF IInv
  <2>4. Pending'
    BY <2>1 DEF IInv, Pending, manager
  <2>5. Done'
    BY <2>1, SameTool DEF IInv, Done, Asked
  <2> QED
    BY <2>2, <2>3, <2>4, <2>5 DEF IInv
<1> QED
  BY <1>1, <1>2, <1>3, <1>4 DEF Next

\* The invariant holds of every sane configuration.
THEOREM Inductive == ASSUME OwnNames PROVE Spec => []IInv
<1>1. Init => IInv
  BY InitInv
<1>2. IInv /\ [Next]_vars => IInv'
  BY StepInv
<1> QED
  BY <1>1, <1>2, PTL DEF Spec

\* Types hold whatever servers offer.
THEOREM TypesHold == ASSUME OwnNames PROVE Spec => []TypeOK
<1>1. IInv => TypeOK
  BY DEF IInv
<1> QED
  BY <1>1, Inductive, PTL

\* _register_tool: an alias and the namespaced name stay one tool, whatever servers
\* list and in whatever order they are asked.
THEOREM AliasesHold == ASSUME OwnNames, OwnShorts PROVE Spec => []AliasesAgree
<1>1. IInv => AliasesAgree
  BY DEF IInv, Table
<1> QED
  BY <1>1, Inductive, PTL

\* _check_policy and _effective_required_role: no user's call executes a tool of a
\* server for admins or the one that creates tickets, under any name, whatever the
\* servers list, alike or not, and do between discovery and call.
THEOREM RolesHold == ASSUME OwnNames PROVE Spec => []RoleKept
<1>1. IInv => RoleKept
  <2> SUFFICES ASSUME IInv, call.role = "user", NEW x \in ran
               PROVE  configs[x.place].required_role = "user" /\ x.raw # CreateTicket
    BY DEF RoleKept
  <2>1. /\ IsManaged /\ Permitted
        /\ ran = {[place |-> Place, raw |-> Tool.raw]}
    BY DEF IInv, Done
  <2>2. x.place = Place /\ x.raw = Tool.raw
    BY <2>1
  <2>3. Tool.role # "admin"
    BY <2>1 DEF Permitted, RoleOf, IsManaged
  <2>4. PICK p \in Places :
          /\ Place = p
          /\ configs[p].required_role = "admin" \/ Tool.raw = CreateTicket => Tool.role = "admin"
    BY <2>1, FoundTool DEF Placed, Place
  <2>5. configs[p].required_role \in Roles
    BY <2>4, ConfigTypes DEF IInv, Config
  <2> QED
    BY <2>2, <2>3, <2>4, <2>5 DEF Roles
<1> QED
  BY <1>1, Inductive, PTL

\* _write_audit_log and call_tool: a committed row has the status of the result and
\* names the server that executed the call.
THEOREM RowsTellTruth == ASSUME OwnNames PROVE Spec => []RowTellsTruth
<1>1. IInv => RowTellsTruth
  <2> SUFFICES ASSUME IInv, NEW row \in db
               PROVE  /\ row.status = result.status
                      /\ \A x \in ran : /\ row.server = configs[x.place].name
                                        /\ row.transport = configs[x.place].transport
    BY DEF RowTellsTruth
  <2>1. row = Metadata /\ result.status # "none"
    BY DEF IInv, Done
  <2>2. row.status = result.status
    BY <2>1, MetadataType DEF IInv
  <2>3. ASSUME NEW x \in ran
        PROVE  row.server = configs[x.place].name /\ row.transport = configs[x.place].transport
    <3>1. IsManaged /\ x.place = Place
      BY DEF IInv, Done
    <3>2. row.server = Tool.server /\ row.transport = Tool.transport
      BY <2>1, <3>1 DEF Metadata
    <3>3. configs[Place].name = Tool.server /\ configs[Place].transport = Tool.transport
      BY <3>1, FoundTool DEF Placed, Place
    <3> QED
      BY <3>1, <3>2, <3>3
  <2> QED
    BY <2>1, <2>2, <2>3
<1> QED
  BY <1>1, Inductive, PTL
=============================================================================
