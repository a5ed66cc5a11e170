------------------------------ MODULE TurnStore ------------------------------
(***************************************************************************)
(* What the chat history promises to whoever reads the database, whatever   *)
(* happens inside a request: its rows appear in one step, in one of the     *)
(* legal shapes, and are never changed afterwards.                          *)
(***************************************************************************)
EXTENDS Naturals

CONSTANTS Requests,   \* identities of the chat requests
          NoCall,     \* call[r] before request r arrives
          MaxSteps    \* agents run at most this many steps (DEFAULT_MAX_STEPS)

ASSUME StoreAssumption == MaxSteps \in Nat \ {0}

VARIABLES call,       \* call[r]: what request r asks for
          db          \* db[r]: the committed rows of request r

storeVars == <<call, db>>

\* How process_message dispatches: "/tool" commands, then the requested mode.
Modes == {"tool", "rag", "react", "plan_execute"}

Calls == [mode: Modes \cup {"unsupported"}, stream: BOOLEAN, found: BOOLEAN]

\* A row is named by its kind; the n-th step of a run may write a tool.invoke row.
Plain(kind) == [kind |-> kind, n |-> 0]
Question    == Plain("user")
Answer      == Plain("assistant")
ToolAudit(n) == [kind |-> "tool.invoke", n |-> n]
RunKind == [rag |-> "rag.query", react |-> "react.run", plan_execute |-> "plan_execute.run"]
RunAudit(mode) == IF mode \in DOMAIN RunKind THEN {Plain(RunKind[mode])} ELSE {}
ToolAudits == {ToolAudit(n) : n \in 1..MaxSteps}
Row == {Question, Answer} \cup ToolAudits \cup UNION {RunAudit(m) : m \in Modes}

\* The steps of a run that may invoke a tool.
ToolSlots(mode) == IF mode = "plan_execute" THEN 1..MaxSteps
                   ELSE IF mode = "rag" THEN {} ELSE {1}

\* The rows a request may leave behind. A plain request leaves the whole turn; a
\* stream that failed or lost its client may leave the question without an answer.
Legal(c, S) ==
  /\ c.mode \in Modes /\ c.found
  /\ S \subseteq {Question, Answer} \cup RunAudit(c.mode)
                   \cup {ToolAudit(n) : n \in ToolSlots(c.mode)}
  /\ Question \in S
  /\ Answer \in S \/ c.stream
  /\ Answer \in S => /\ RunAudit(c.mode) \subseteq S
                     /\ c.mode = "tool" => ToolAudit(1) \in S

ASSUME NoCallAssumption == NoCall \notin Calls

StoreInit == /\ call = [r \in Requests |-> NoCall]
             /\ db = [r \in Requests |-> {}]

Arrive(r) == /\ call[r] = NoCall
             /\ \E c \in Calls : call' = [call EXCEPT ![r] = c]
             /\ UNCHANGED db

Leave(r) == /\ call[r] # NoCall
            /\ db[r] = {}
            /\ \E S \in SUBSET Row : /\ Legal(call[r], S)
                                     /\ db' = [db EXCEPT ![r] = S]
            /\ UNCHANGED call

StoreNext == \E r \in Requests : Arrive(r) \/ Leave(r)

StoreSpec == StoreInit /\ [][StoreNext]_storeVars
=============================================================================
