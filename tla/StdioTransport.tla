--------------------------- MODULE StdioTransport ---------------------------
(***************************************************************************)
(* An MCP server as a child process: requests and answers are lines on its    *)
(* pipes, without numbers, so an answer belongs to a request only by its      *)
(* place. The child may be slow, or die at any point; the caller waits with a *)
(* time-out, and then stops the child. One call at a time: the transport      *)
(* blocks the thread of the event loop.                                       *)
(***************************************************************************)
EXTENDS CallOnce, Sequences

CONSTANT MaxProcs            \* bound: children that can be started

ASSUME MaxProcsAssumption == MaxProcs \in Nat

Procs == 1..MaxProcs

VARIABLES
  caller,       \* where the caller is
  asked,    \* the number of calls so far, and the call under way
  proc,     \* _process: the child the transport knows, 0 for None
  started,  \* how many children there have been
  child     \* child[k]: the k-th child and its pipes

transportVars == <<state, got, executed, caller, asked, proc, started, child>>

\* A line of an answer, which may not be a JSON object (cut short when the child dies).
Line == [of: Requests, valid: BOOLEAN]

\* up: running. closing: its pipes are closed, and poll() is still None.
Child == [is: {"up", "closing", "ended"},
          todo: Seq(Requests),            \* request lines it has not read
          doing: Requests \cup {0},       \* the request it is at
          said: Seq(Line)]                \* answer lines nobody has read

NewChild == [is |-> "up", todo |-> <<>>, doing |-> 0, said |-> <<>>]

Calling == {"connecting", "ready", "waiting", "stopping"}
Stopping == {"stopping", "leaving"}

\* After connect a request under way has a process.
TransportTypeOK == /\ state \in [Requests -> {"new", "open", "answered", "failed"}]
                   /\ got \in [Requests -> Requests \cup {0}]
                   /\ executed \in [Requests -> Nat]
                   /\ caller \in {"idle", "checking", "leaving"} \cup Calling
                   /\ asked \in 0..MaxCalls
                   /\ proc \in 0..MaxProcs
                   /\ started \in 0..MaxProcs
                   /\ child \in [Procs -> Child]
                   /\ caller \in {"ready", "waiting"} \cup Stopping => proc # 0

TransportInit == /\ CallInit
                 /\ caller = "idle" /\ asked = 0
                 /\ proc = 0 /\ started = 0
                 /\ child = [k \in Procs |-> [NewChild EXCEPT !.is = "ended"]]

-----------------------------------------------------------------------------
(* The caller.                                                               *)

Ours == UNCHANGED <<executed, asked, proc, started, child>>
MoveTo(l) == caller' = l

\* A request is over with an error: an exception, or the result of one.
Failed == MoveTo("idle") /\ Fail(asked)
GiveUp == IF caller \in Calling THEN Failed ELSE MoveTo("idle") /\ UNCHANGED <<state, got, executed>>

Call == /\ caller = "idle" /\ asked < MaxCalls
        /\ asked' = asked + 1
        /\ Open(asked + 1)
        /\ MoveTo("connecting")
        /\ UNCHANGED <<proc, started, child>>

\* health_check only connects.
Check == caller = "idle" /\ MoveTo("checking") /\ UNCHANGED <<state, got>> /\ Ours

\* connect. There is a process and its poll() is None.
Connected == proc # 0 /\ child[proc].is # "ended"
Connecting == caller \in {"connecting", "checking"}
GoOn == MoveTo(IF caller = "connecting" THEN "ready" ELSE "idle") /\ UNCHANGED <<state, got>>

Reuse == Connecting /\ Connected /\ GoOn /\ Ours

Start == /\ Connecting /\ ~Connected /\ started < MaxProcs
         /\ started' = started + 1
         /\ proc' = started + 1
         /\ child' = [child EXCEPT ![started + 1] = NewChild]
         /\ GoOn /\ UNCHANGED <<executed, asked>>

StartFails == Connecting /\ ~Connected /\ GiveUp /\ UNCHANGED <<asked, proc, started, child>>

\* The write fails when nobody holds the other end of the pipe.
Write == /\ caller = "ready"
         /\ IF child[proc].is = "up"
            THEN /\ child' = [child EXCEPT ![proc].todo = Append(@, asked)]
                 /\ MoveTo("waiting")
                 /\ UNCHANGED <<state, got, executed>>
            ELSE Failed /\ UNCHANGED child
         /\ UNCHANGED <<asked, proc, started>>

\* A valid line is taken for the answer.
ReadLine == /\ caller = "waiting" /\ child[proc].said # <<>>
            /\ LET line == Head(child[proc].said) IN
               IF line.valid THEN /\ state' = [state EXCEPT ![asked] = "answered"]
                                  /\ got' = [got EXCEPT ![asked] = line.of]
                                  /\ MoveTo("idle") /\ UNCHANGED executed
                             ELSE Failed
            /\ child' = [child EXCEPT ![proc].said = Tail(@)]
            /\ UNCHANGED <<asked, proc, started>>

ReadEnd == /\ caller = "waiting" /\ child[proc].said = <<>> /\ child[proc].is # "up"
           /\ Failed
           /\ UNCHANGED <<asked, proc, started, child>>

\* Slips of TimeOut: the child is left alone; there is no time-out
\* while the child runs.
KeepChild == caller = "waiting" /\ Failed /\ UNCHANGED <<asked, proc, started, child>>
Patient == /\ caller = "waiting" /\ child[proc].is # "up" /\ MoveTo("stopping")
           /\ UNCHANGED <<state, got>> /\ Ours

\* The time is up: the child is told to stop. A line that comes now is dropped.
TimeOut == caller = "waiting" /\ MoveTo("stopping") /\ UNCHANGED <<state, got>> /\ Ours

Disconnect == /\ caller = "idle" /\ proc # 0
              /\ MoveTo("leaving")
              /\ UNCHANGED <<state, got>> /\ Ours

\* A slip of Stopped: it does not wait for the child.
StoppedAtOnce == /\ caller \in Stopping
                 /\ proc' = 0
                 /\ GiveUp /\ UNCHANGED <<asked, started, child>>

\* wait() has returned, after terminate() or else after kill().
Stopped == /\ caller \in Stopping /\ child[proc].is = "ended"
           /\ proc' = 0
           /\ GiveUp /\ UNCHANGED <<asked, started, child>>

-----------------------------------------------------------------------------
(* The child: one line is read, handled and answered at a time.              *)

Theirs == UNCHANGED <<state, got, caller, asked, proc, started>>

HandleLine(k) == /\ child[k].is = "up" /\ child[k].doing = 0 /\ child[k].todo # <<>>
                 /\ LET n == Head(child[k].todo) IN
                    /\ executed' = [executed EXCEPT ![n] = @ + 1]
                    /\ child' = [child EXCEPT ![k].doing = n, ![k].todo = Tail(@)]
                 /\ Theirs

Reply(k) == /\ child[k].is = "up" /\ child[k].doing # 0
            /\ \E valid \in BOOLEAN :
                 child' = [child EXCEPT ![k].doing = 0,
                             ![k].said = Append(@, [of |-> child[k].doing, valid |-> valid])]
            /\ Theirs /\ UNCHANGED executed

\* It dies, or is stopped; the line it was writing may be cut.
Die(k) == /\ child[k].is = "up"
          /\ child' \in {[child EXCEPT ![k].is = "closing"],
                         [child EXCEPT ![k].is = "closing",
                            ![k].said = IF child[k].doing = 0 THEN @
                                        ELSE Append(@, [of |-> child[k].doing, valid |-> FALSE])]}
          /\ Theirs /\ UNCHANGED executed

Ended(k) == /\ child[k].is = "closing"
            /\ child' = [child EXCEPT ![k].is = "ended"]
            /\ Theirs /\ UNCHANGED executed

OwnStep == Reuse \/ Start \/ StartFails \/ Write \/ ReadLine \/ ReadEnd \/ TimeOut \/ Stopped
Kill == caller \in Stopping /\ Die(proc)

TransportNext == \/ Call \/ Check \/ Disconnect
                 \/ OwnStep
                 \/ \E k \in Procs : HandleLine(k) \/ Reply(k) \/ Die(k) \/ Ended(k)

TransportSpec == TransportInit /\ [][TransportNext]_transportVars

\* The time-out fires, a killed process ends; nothing is assumed of the child's work.
TransportFairness == /\ WF_transportVars(OwnStep)
                     /\ WF_transportVars(Kill)
                     /\ \A k \in Procs : WF_transportVars(Ended(k))
TransportFairSpec == TransportSpec /\ TransportFairness

-----------------------------------------------------------------------------
(* Properties. CallSpec, of CallOnce, is the main one.                       *)

\* No child is left behind: when one is up, it is the one the transport knows.
OneChild == \A k \in Procs : child[k].is # "ended" => k = proc

\* Between calls nothing is left in the pipes or in the hands of the child: the next
\* line the child writes is the answer to the next request.
QuietBetweenCalls == (caller \in {"idle", "checking", "connecting", "ready"} /\ proc # 0) =>
                        /\ child[proc].said = <<>>
                        /\ child[proc].is = "up" => /\ child[proc].todo = <<>>
                                                    /\ child[proc].doing = 0

\* Every call returns, whatever the child does.
EveryCallReturns == \A n \in Requests : state[n] = "open" ~> state[n] \in {"answered", "failed"}
=============================================================================
