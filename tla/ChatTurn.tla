------------------------------ MODULE ChatTurn -------------------------------
(***************************************************************************)
(* One chat message from HTTP request to committed rows: the routes          *)
(* POST .../messages and .../messages/stream, ChatService.process_message,   *)
(* the runs of its four modes, and the per-request transaction of            *)
(* get_db_session. Rows are flushed into the transaction one by one; every   *)
(* flush, tool and model call is an await, so requests interleave there.     *)
(***************************************************************************)
EXTENDS TurnStore, Sequences, FiniteSets

CONSTANT Offered      \* the calls the clients make: a subset of Calls

ASSUME OfferedAssumption == Offered \subseteq Calls

VARIABLES
  pc,        \* pc[r]: where the handler of r is
  trail,     \* trail[r]: outcomes of the tool and RAG steps of the run, in order
  pend,      \* pend[r]: rows flushed in r's open transaction
  poisoned,  \* poisoned[r]: a statement failed, so the transaction cannot commit
  client     \* client[r]: what the caller of r has been told

vars == <<call, db, pc, trail, pend, poisoned, client>>

PC == {"idle", "opened", "running", "answered", "saved", "finish", "unwind", "closed"}
StepOutcome == {"tool", "toolRaised", "rag", "ragRaised"}
ClientView == {"none", "waiting", "partial", "ok", "error", "broken", "gone"}

TypeOK == /\ call \in [Requests -> Calls \cup {NoCall}]
          /\ db \in [Requests -> SUBSET Row]
          /\ pc \in [Requests -> PC]
          /\ trail \in [Requests -> Seq(StepOutcome)]
          /\ pend \in [Requests -> SUBSET Row]
          /\ poisoned \in [Requests -> BOOLEAN]
          /\ client \in [Requests -> ClientView]

Init == /\ StoreInit
        /\ pc = [r \in Requests |-> "idle"]
        /\ trail = [r \in Requests |-> <<>>]
        /\ pend = [r \in Requests |-> {}]
        /\ poisoned = [r \in Requests |-> FALSE]
        /\ client = [r \in Requests |-> "none"]

-----------------------------------------------------------------------------
(* Helpers shared by the actions.                                            *)

Goto(r, l) == pc' = [pc EXCEPT ![r] = l]
Tell(r, v) == client' = [client EXCEPT ![r] = v]
Poison(r, p) == poisoned' = [poisoned EXCEPT ![r] = @ \/ p]
Accepted(r) == call[r].mode \in Modes /\ call[r].found

\* The steps the run of r has still to take: one in every mode but plan_execute.
StepAllowed(r) == /\ pc[r] = "running"
                  /\ IF call[r].mode = "plan_execute" THEN Len(trail[r]) < MaxSteps
                                                      ELSE trail[r] = <<>>

\* The agents turn an exception of a step into an error result.
Swallows(mode, step) == mode = "plan_execute" \/ (mode = "react" /\ step = "toolRaised")

\* An exception reaches the route: a plain request fails through get_db_session;
\* the event generator reports it and returns as if nothing had happened.
Raise(r) == IF call[r].stream THEN Goto(r, "finish") /\ Tell(r, "error")
                              ELSE Goto(r, "unwind") /\ UNCHANGED client

\* A row is flushed in the transaction of r, which only a sound one can do.
Flush(r, rows, next) == /\ ~poisoned[r]
                        /\ pend' = [pend EXCEPT ![r] = @ \cup rows]
                        /\ Goto(r, next)

-----------------------------------------------------------------------------
(* The request and its run.                                                  *)

Send(r) == /\ pc[r] = "idle"
           /\ \E c \in Offered : call' = [call EXCEPT ![r] = c]
           /\ Goto(r, "opened")
           /\ Tell(r, "waiting")
           /\ UNCHANGED <<db, trail, pend, poisoned>>

\* Unsupported mode (ValueError) or a session the user does not own (None).
Reject(r) == /\ pc[r] = "opened"
             /\ ~Accepted(r)
             /\ Raise(r)
             /\ UNCHANGED <<call, db, trail, pend, poisoned>>

SaveQuestion(r) == /\ pc[r] = "opened"
                   /\ Accepted(r)
                   /\ Flush(r, {Question}, "running")
                   /\ UNCHANGED <<call, db, trail, poisoned, client>>

\* A slip of ToolReturns: the row of the call is forgotten.
UnauditedTool(r) == /\ StepAllowed(r)
                    /\ call[r].mode # "rag"
                    /\ trail' = [trail EXCEPT ![r] = Append(@, "tool")]
                    /\ Flush(r, {}, "running")
                    /\ UNCHANGED <<call, db, poisoned, client>>

\* ToolService.invoke_tool returns a result, success or error, audited first.
ToolReturns(r) == /\ StepAllowed(r)
                  /\ call[r].mode # "rag"
                  /\ trail' = [trail EXCEPT ![r] = Append(@, "tool")]
                  /\ Flush(r, {ToolAudit(Len(trail[r]) + 1)}, "running")
                  /\ UNCHANGED <<call, db, poisoned, client>>

\* RAGAgent.query returns an answer: retrieval, then generation. It writes no row.
RagReturns(r) == /\ StepAllowed(r)
                 /\ call[r].mode # "tool"
                 /\ ~poisoned[r]
                 /\ trail' = [trail EXCEPT ![r] = Append(@, "rag")]
                 /\ UNCHANGED <<call, db, pc, pend, poisoned, client>>

\* A slip of StepRaises: every mode swallows.
SwallowAll(r) == /\ StepAllowed(r)
                 /\ trail' = [trail EXCEPT ![r] = Append(@, IF call[r].mode = "rag"
                                                           THEN "ragRaised" ELSE "toolRaised")]
                 /\ UNCHANGED <<call, db, pc, pend, poisoned, client>>

\* The tool or the RAG call raises, by itself or (p) because a statement failed.
StepRaises(r) ==
  /\ StepAllowed(r)
  /\ \E step \in {"toolRaised", "ragRaised"}, p \in BOOLEAN :
       /\ call[r].mode = "tool" => step = "toolRaised"
       /\ call[r].mode = "rag" => step = "ragRaised"
       /\ trail' = [trail EXCEPT ![r] = Append(@, step)]
       /\ Poison(r, p)
       /\ IF Swallows(call[r].mode, step) THEN UNCHANGED <<pc, client>> ELSE Raise(r)
  /\ UNCHANGED <<call, db, pend>>

\* A slip of FinishRun: the run leaves no row of its own.
UnauditedRun(r) == /\ pc[r] = "running"
                   /\ call[r].mode = "plan_execute" \/ trail[r] # <<>>
                   /\ Flush(r, {}, "answered")
                   /\ UNCHANGED <<call, db, trail, poisoned, client>>

\* The run ends with its own audit row, except a tool command, which has its
\* tool.invoke row already. A plan may have no step but the final one.
FinishRun(r) == /\ pc[r] = "running"
                /\ call[r].mode = "plan_execute" \/ trail[r] # <<>>
                /\ Flush(r, RunAudit(call[r].mode), "answered")
                /\ UNCHANGED <<call, db, trail, poisoned, client>>

\* The trace, user_message, token ... tool_calls events of a stream.
EmitResult(r) == /\ pc[r] = "answered"
                 /\ call[r].stream
                 /\ client[r] = "waiting"
                 /\ Tell(r, "partial")
                 /\ UNCHANGED <<call, db, pc, trail, pend, poisoned>>

\* A slip of SaveAnswer: the reply is sent without being saved.
UnsavedAnswer(r) == /\ pc[r] = "answered"
                    /\ call[r].stream => client[r] = "partial"
                    /\ Flush(r, {}, "saved")
                    /\ UNCHANGED <<call, db, trail, poisoned, client>>

SaveAnswer(r) == /\ pc[r] = "answered"
                 /\ call[r].stream => client[r] = "partial"
                 /\ Flush(r, {Answer}, "saved")
                 /\ UNCHANGED <<call, db, trail, poisoned, client>>

\* A flush raises: of the question, of the run's audit row or of the answer. Only
\* the last is outside the try of the event generator: it breaks the stream.
FlushFails(r) ==
  /\ \/ pc[r] = "opened" /\ Accepted(r) /\ Raise(r)
     \/ /\ pc[r] = "running"
        /\ call[r].mode = "plan_execute" \/ (call[r].mode # "tool" /\ trail[r] # <<>>)
        /\ Raise(r)
     \/ /\ pc[r] = "answered"
        /\ call[r].stream => client[r] = "partial"
        /\ Goto(r, "unwind")
        /\ IF call[r].stream THEN Tell(r, "broken") ELSE UNCHANGED client
  /\ Poison(r, TRUE)
  /\ UNCHANGED <<call, db, trail, pend>>

\* The response of a plain request, or the assistant_message and done events.
Respond(r) == /\ pc[r] = "saved"
              /\ IF client[r] = "gone" THEN UNCHANGED client ELSE Tell(r, "ok")
              /\ Goto(r, "finish")
              /\ UNCHANGED <<call, db, trail, pend, poisoned>>

-----------------------------------------------------------------------------
(* The end of the transaction: get_db_session after its yield.               *)

Close(r) == /\ Goto(r, "closed")
            /\ pend' = [pend EXCEPT ![r] = {}]

Commit(r) == /\ pc[r] = "finish"
             /\ ~poisoned[r]
             /\ db' = [db EXCEPT ![r] = pend[r]]
             /\ Close(r)
             /\ UNCHANGED <<call, trail, poisoned, client>>

\* The commit itself fails: nobody is told, the response is already out.
CommitFails(r) == /\ pc[r] = "finish"
                  /\ Close(r)
                  /\ UNCHANGED <<call, db, trail, poisoned, client>>

\* Slips of Rollback: the session commits whatever happened, or nobody answers.
CommitAnyway(r) == /\ pc[r] = "unwind"
                   /\ db' = [db EXCEPT ![r] = IF poisoned[r] THEN {} ELSE pend[r]]
                   /\ Close(r)
                   /\ IF client[r] = "waiting" THEN Tell(r, "error") ELSE UNCHANGED client
                   /\ UNCHANGED <<call, trail, poisoned>>

SilentRollback(r) == /\ pc[r] = "unwind"
                     /\ Close(r)
                     /\ UNCHANGED <<call, db, trail, poisoned, client>>

\* Roll back, re-raise; the exception handlers answer who still waits.
Rollback(r) == /\ pc[r] = "unwind"
               /\ Close(r)
               /\ IF client[r] = "waiting" THEN Tell(r, "error") ELSE UNCHANGED client
               /\ UNCHANGED <<call, db, trail, poisoned>>

-----------------------------------------------------------------------------
(* The environment.                                                          *)

\* The client goes away. A plain request runs on; a stream is cancelled where it
\* is (p: inside a statement, which loses the connection) and the response ends
\* normally, so get_db_session goes on to its commit.
ClientLeaves(r) ==
  /\ client[r] \in {"waiting", "partial"}
  /\ Tell(r, "gone")
  /\ IF call[r].stream /\ pc[r] # "unwind"
     THEN Goto(r, "finish") /\ \E p \in BOOLEAN : Poison(r, p)
     ELSE UNCHANGED <<pc, poisoned>>
  /\ UNCHANGED <<call, db, trail, pend>>

\* The server process dies: every open transaction is lost, the database is not.
Crash == LET open == {r \in Requests : pc[r] \notin {"idle", "closed"}} IN
         /\ open # {}
         /\ pc' = [r \in Requests |-> IF r \in open THEN "closed" ELSE pc[r]]
         /\ pend' = [r \in Requests |-> {}]
         /\ client' = [r \in Requests |->
                         IF r \in open /\ client[r] \in {"waiting", "partial"}
                         THEN "gone" ELSE client[r]]
         /\ UNCHANGED <<call, db, trail, poisoned>>

\* The steps of the handler of r, which the event loop keeps taking.
Handle(r) == \/ Reject(r) \/ SaveQuestion(r)
             \/ ToolReturns(r) \/ RagReturns(r) \/ StepRaises(r) \/ FinishRun(r)
             \/ EmitResult(r) \/ SaveAnswer(r) \/ FlushFails(r) \/ Respond(r)
             \/ Commit(r) \/ CommitFails(r) \/ Rollback(r)

Next == \/ \E r \in Requests : Send(r) \/ Handle(r) \/ ClientLeaves(r)
        \/ Crash

Spec == Init /\ [][Next]_vars

\* Every await of a handler ends: providers and MCP calls have timeouts, and the
\* event loop resumes each ready task.
Fairness == \A r \in Requests : WF_vars(Handle(r))
FairSpec == Spec /\ Fairness

-----------------------------------------------------------------------------
(* Properties.                                                               *)

\* A caller told "error" has no answer in the history, now or later, and after a
\* plain request nothing at all: the error response follows the rollback. A
\* stream reports its error first and commits what it had flushed.
ErrorMeansUnanswered ==
  \A r \in Requests : client[r] = "error" => /\ Answer \notin db[r]
                                              /\ (call[r].stream \/ db[r] = {})

\* A question stands in the history without its answer only after a stream whose
\* caller was told of the error or had left: never behind an accepted reply.
HalfTurnsAreStreams ==
  \A r \in Requests : (Question \in db[r] /\ Answer \notin db[r])
                        => call[r].stream /\ client[r] \in {"error", "gone"}

\* The committed tool.invoke rows of a request are of its tool calls, each of its own:
\* none is lost of a call that returned a result, though an agent swallowed the
\* exception of a later step, and none is made up. Of a call that raised a row is
\* neither asked nor ruled out: tools/service.py:23 promises one for each invocation,
\* which the code does not keep (EachCallAudited of ToolCalls).
AuditMatchesRun ==
  \A r \in Requests : db[r] # {} =>
     /\ \A n \in 1..Len(trail[r]) : trail[r][n] = "tool" => ToolAudit(n) \in db[r]
     /\ \A n \in 1..MaxSteps : ToolAudit(n) \in db[r] =>
          n <= Len(trail[r]) /\ trail[r][n] \in {"tool", "toolRaised"}

\* An answered turn never rests on a step that raised, unless the mode hides the
\* exceptions of its steps: tool and RAG commands fail as a whole.
AnswerHidesOnlyAgentErrors ==
  \A r \in Requests : Answer \in db[r] =>
     \A n \in 1..Len(trail[r]) :
        trail[r][n] \in {"toolRaised", "ragRaised"} => Swallows(call[r].mode, trail[r][n])

\* Every request ends: its transaction is closed and its caller is told the
\* outcome or is gone, whatever raises, fails to commit or is cancelled.
EveryCallerAnswered ==
  \A r \in Requests : pc[r] = "opened" ~>
     pc[r] = "closed" /\ client[r] \in {"ok", "error", "broken", "gone"}
=============================================================================
