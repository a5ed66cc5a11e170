---------------------------- MODULE ProviderRetry ----------------------------
(***************************************************************************)
(* A call of a language or an embedding model over HTTP, request by request:  *)
(* what is tried again, after which wait, and what is raised. A query makes   *)
(* up to four, one after the other.                                           *)
(***************************************************************************)
EXTENDS Naturals, Sequences

CONSTANT MaxRetries          \* max_retries of the providers

ASSUME MaxRetriesAssumption == MaxRetries \in Nat

VARIABLES
  phase,     \* where the call is: "sending", "sleeping", or "idle"
  attempt,   \* the loop's counter
  tried,     \* what the requests of the call met
  task,      \* what the call is for
  log        \* the calls that are over: what each was for and how it ended

callVars == <<phase, attempt, tried, task, log>>

Tasks == {"plan", "embed", "rerank", "generate"}
Endings == {"value", "timeout_error", "response_error", "value_error", "exception", "cancelled"}

Under == phase # "idle"
\* How the last call ended, while none is under way.
Outcome == IF Under \/ log = <<>> THEN "none" ELSE log[Len(log)].ended

\* The call as its caller sees it: only when it is over.
Promise == INSTANCE ModelCall WITH open <- Under, ending <- Outcome,
                                   replies <- IF Under THEN <<>> ELSE tried

CallType == /\ phase \in {"idle", "sending", "sleeping"}
            /\ attempt \in 0..MaxRetries
            /\ tried \in Seq(Promise!Replies)
            /\ task \in Tasks
            /\ log \in Seq([task : Tasks, ended : Endings])

Quiet == /\ phase = "idle" /\ attempt = 0 /\ tried = <<>>
         /\ task = "plan" /\ log = <<>>

Begin(t) == /\ phase = "idle" /\ phase' = "sending"
            /\ attempt' = 0 /\ tried' = <<>>
            /\ task' = t /\ UNCHANGED log

\* The call is over.
Over(how) == /\ phase' = "idle"
             /\ log' = Append(log, [task |-> task, ended |-> how])
             /\ UNCHANGED <<attempt, task>>

\* response.json() raises ValueError, and what no clause foresees some other exception.
Raised(reply) == CASE reply = "value" -> "value"
                   [] reply = "timeout" -> "timeout_error"
                   [] reply \in {"refused", "server_error"} -> "response_error"
                   [] reply = "not_json" -> "value_error"
                   [] reply = "misshapen" -> "exception"

\* A slip of Receive: a request that timed out is sent again as well.
RetryTimeouts(reply) ==
  /\ phase = "sending"
  /\ tried' = Append(tried, reply)
  /\ \/ /\ reply \in {"server_error", "timeout"} /\ attempt < MaxRetries
        /\ phase' = "sleeping" /\ UNCHANGED <<attempt, task, log>>
     \/ /\ reply \notin {"server_error", "timeout"} \/ attempt >= MaxRetries
        /\ Over(Raised(reply))

\* A status of 500 or more is tried again until the last attempt.
Receive(reply) ==
  /\ phase = "sending"
  /\ tried' = Append(tried, reply)
  /\ \/ /\ reply = "server_error" /\ attempt < MaxRetries
        /\ phase' = "sleeping" /\ UNCHANGED <<attempt, task, log>>
     \/ /\ reply # "server_error" \/ attempt >= MaxRetries
        /\ Over(Raised(reply))

Wake == /\ phase = "sleeping" /\ phase' = "sending"
        /\ attempt' = attempt + 1
        /\ UNCHANGED <<tried, task, log>>

\* async_embed waits and sleeps at an await; generate holds the event loop.
Cancel == /\ Under /\ task = "embed"
          /\ Over("cancelled") /\ UNCHANGED tried

CallStep == Cancel \/ Wake \/ \E reply \in Promise!Replies : Receive(reply)
=============================================================================
