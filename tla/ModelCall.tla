------------------------------ MODULE ModelCall ------------------------------
(***************************************************************************)
(* What a caller of a model relies on: a call sends a bounded number of       *)
(* requests, goes on only after an error of the server, and ends with a value *)
(* or with one exception. Its last answer says which, unless that cannot be   *)
(* parsed: then no caller relies on the kind of the exception.                *)
(***************************************************************************)
EXTENDS Naturals, Sequences

CONSTANT MaxRetries          \* max_retries of the providers

\* What one request may meet: a value; a status of 400 to 499, an object without the
\* fields asked for, a failure of the transport; a body that is not JSON; a status of
\* 500 or more; a time-out; JSON of another shape.
Replies == {"value", "refused", "not_json", "server_error", "timeout", "misshapen"}

Errors == {"timeout_error", "response_error", "value_error", "exception"}

\* What a call may end with: a value, or the exception raised.
Ending(reply) == CASE reply = "value" -> {"value"}
                   [] reply = "timeout" -> {"timeout_error"}
                   [] reply \in {"refused", "server_error"} -> {"response_error"}
                   [] reply \in {"not_json", "misshapen"} -> Errors

VARIABLES open,      \* a call is under way
          replies,   \* what the requests of the last call over met, in order
          ending     \* what it ended with, "none" before the first and while one is open

OnlyServerErrors(s) == \A i \in DOMAIN s : s[i] = "server_error"
Front(s) == SubSeq(s, 1, Len(s) - 1)

\* A call goes on after an error of the server, as long as it may, and after nothing else.
Complete(s) == /\ s # <<>> /\ OnlyServerErrors(Front(s))
               /\ s[Len(s)] = "server_error" => Len(s) = MaxRetries + 1

CallInit == open = FALSE /\ replies = <<>> /\ ending = "none"

Open == /\ ~open /\ open'
        /\ replies' = <<>> /\ ending' = "none"

Histories == UNION {[1..n -> Replies] : n \in 0..(MaxRetries + 1)}

Return == \E s \in Histories : /\ open /\ ~open'
                               /\ Complete(s) /\ replies' = s
                               /\ ending' \in Ending(s[Len(s)])

\* The task that waits for the call is cancelled.
Abandon == \E s \in Histories : /\ open /\ ~open'
                                /\ OnlyServerErrors(s) /\ replies' = s
                                /\ ending' = "cancelled"

CallSpec == CallInit /\ [][Open \/ Return \/ Abandon]_<<open, replies, ending>>
=============================================================================
