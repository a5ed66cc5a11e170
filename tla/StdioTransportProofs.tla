------------------------ MODULE StdioTransportProofs ------------------------
(***************************************************************************)
(* Theorems about StdioTransport for any number of calls and children. Lines  *)
(* have no numbers, so all rests on what the pipes hold: nothing between      *)
(* calls, and at most one line, of the call under way, during one.            *)
(***************************************************************************)
EXTENDS StdioTransport, TLAPS

-----------------------------------------------------------------------------
(* The inductive invariant.                                                  *)

\* Calls are made one after the other; the next has not run.
InOrder == /\ \A n \in Requests : n > asked => state[n] = "new" /\ executed[n] = 0
           /\ \A n \in Requests : n < asked => state[n] \in {"answered", "failed"}
           /\ caller \in Calling => asked # 0
           /\ asked # 0 => (state[asked] = "open" <=> caller \in Calling) /\ state[asked] # "new"
           /\ caller \in {"connecting", "ready"} => executed[asked] = 0

Known == proc <= started /\ OneChild

Quiet == {"idle", "checking", "connecting", "ready", "leaving"}

\* The child has nothing of an earlier call.
Silent(c) == /\ c.is = "up" => c.todo = <<>> /\ c.doing = 0
             /\ c.said = <<>>

\* The request is unread, in its hands, or answered.
Unread(c) == c.todo = <<asked>> /\ c.doing = 0 /\ c.said = <<>> /\ executed[asked] = 0
AtWork(c) == c.todo = <<>> /\ c.doing = asked /\ c.said = <<>> /\ executed[asked] = 1
Told(c) == executed[asked] = 1 /\ \E line \in Line : c.said = <<line>> /\ line.of = asked
Serving(c) == /\ c.is = "up" => \/ Unread(c) \/ AtWork(c)
                                \/ Told(c) /\ c.todo = <<>> /\ c.doing = 0
              /\ c.said = <<>> \/ Told(c)

Pipes == /\ caller \in Quiet /\ proc # 0 => Silent(child[proc])
         /\ caller \in {"waiting", "stopping"} => Serving(child[proc])

IInv == TransportTypeOK /\ InOrder /\ Known /\ Pipes

-----------------------------------------------------------------------------
(* Lemmas.                                                                   *)

LEMMA One ==
  ASSUME NEW S, NEW e \in S
  PROVE  /\ Append(<<>>, e) = <<e>> /\ Head(<<e>>) = e /\ Tail(<<e>>) = <<>>
         /\ <<e>> # <<>> /\ <<e>> \in Seq(S) /\ <<>> \in Seq(S)
OBVIOUS

\* Children with one line more or less.
LEMMA ChildFields ==
  ASSUME NEW c \in Child
  PROVE  /\ \A n \in Requests : [c EXCEPT !.todo = <<n>>] \in Child
         /\ \A n \in Requests : [c EXCEPT !.doing = n, !.todo = <<>>] \in Child
         /\ \A line \in Line : [c EXCEPT !.doing = 0, !.said = <<line>>] \in Child
         /\ \A line \in Line : [c EXCEPT !.is = "closing", !.said = <<line>>] \in Child
         /\ [c EXCEPT !.said = <<>>] \in Child
         /\ [c EXCEPT !.is = "closing"] \in Child
         /\ [c EXCEPT !.is = "ended"] \in Child
<1>1. /\ <<>> \in Seq(Requests) /\ <<>> \in Seq(Line)
      /\ \A n \in Requests : <<n>> \in Seq(Requests)
      /\ \A line \in Line : <<line>> \in Seq(Line)
  BY One
<1> QED
  BY <1>1 DEF Child

LEMMA AskedIsRequest == ASSUME TransportTypeOK, asked # 0 PROVE asked \in Requests
BY MaxCallsAssumption DEF TransportTypeOK, Requests

LEMMA ProcIsProc == ASSUME TransportTypeOK, proc # 0 PROVE proc \in Procs /\ child[proc] \in Child
BY MaxProcsAssumption DEF TransportTypeOK, Procs

\* A request that fails keeps the order of the calls.
LEMMA FailedInOrder ==
  ASSUME TransportTypeOK, InOrder, caller \in Calling, Failed, asked' = asked
  PROVE  /\ InOrder' /\ caller' = "idle" /\ executed' = executed /\ got' = got
         /\ state' \in [Requests -> {"new", "open", "answered", "failed"}]
         /\ Fail(asked) /\ asked \in Requests
<1>1. asked \in Requests
  BY AskedIsRequest DEF InOrder
<1>2. caller' = "idle" /\ executed' = executed /\ got' = got /\ state' = [state EXCEPT ![asked] = "failed"]
  BY DEF Failed, Fail, MoveTo
<1> QED
  BY <1>1, <1>2 DEF TransportTypeOK, InOrder, Calling, Failed

LEMMA GivenUp ==
  ASSUME TransportTypeOK, InOrder, GiveUp, caller # "idle", asked' = asked
  PROVE  /\ InOrder' /\ caller' = "idle" /\ executed' = executed /\ got' = got
         /\ state' \in [Requests -> {"new", "open", "answered", "failed"}]
         /\ UNCHANGED <<state, got, executed>> \/ (asked \in Requests /\ Fail(asked))
<1>1. CASE caller \in Calling
  BY <1>1, FailedInOrder DEF GiveUp
<1>2. CASE caller \notin Calling
  BY <1>2 DEF GiveUp, MoveTo, TransportTypeOK, InOrder, Calling
<1> QED
  BY <1>1, <1>2

-----------------------------------------------------------------------------
(* The steps of the caller.                                                  *)

LEMMA CallStep == ASSUME IInv, Call PROVE IInv'
<1>1. /\ asked + 1 \in Requests /\ asked' = asked + 1 /\ caller = "idle" /\ caller' = "connecting"
      /\ state' = [state EXCEPT ![asked + 1] = "open"] /\ got' = got /\ executed' = executed
      /\ proc' = proc /\ started' = started /\ child' = child
  BY MaxCallsAssumption DEF Call, Open, MoveTo, IInv, TransportTypeOK, Requests
<1>2. TransportTypeOK'
  BY <1>1, MaxCallsAssumption DEF IInv, TransportTypeOK, Calling, Stopping, Requests
<1>3. InOrder'
  BY <1>1, MaxCallsAssumption DEF IInv, TransportTypeOK, InOrder, Calling, Requests
<1>4. Known' /\ Pipes'
  BY <1>1 DEF IInv, Known, OneChild, Pipes, Quiet, Silent
<1> QED
  BY <1>2, <1>3, <1>4 DEF IInv

\* The caller goes on, and touches neither calls nor children.
LEMMA IdleStep ==
  ASSUME IInv, Check \/ Reuse \/ TimeOut \/ Disconnect
  PROVE  IInv' /\ UNCHANGED <<state, got, executed>>
<1>1. UNCHANGED <<state, got, executed, asked, proc, started, child>>
  BY DEF Check, Reuse, GoOn, TimeOut, Disconnect, Ours
<1>2. \/ caller = "idle" /\ caller' = "checking"
      \/ caller = "checking" /\ caller' = "idle"
      \/ caller = "connecting" /\ caller' = "ready" /\ proc # 0
      \/ caller = "waiting" /\ caller' = "stopping"
      \/ caller = "idle" /\ caller' = "leaving" /\ proc # 0
  BY DEF Check, Reuse, Connecting, Connected, GoOn, TimeOut, Disconnect, MoveTo
<1>3. TransportTypeOK'
  BY <1>1, <1>2 DEF IInv, TransportTypeOK, Calling, Stopping
<1>4. InOrder'
  BY <1>1, <1>2 DEF IInv, InOrder, Calling
<1>5. Known' /\ Pipes'
  BY <1>1, <1>2 DEF IInv, Known, OneChild, Pipes, Quiet, Silent, Serving, Unread, AtWork, Told
<1> QED
  BY <1>1, <1>3, <1>4, <1>5 DEF IInv

LEMMA StartStep ==
  ASSUME IInv, Start
  PROVE  IInv' /\ UNCHANGED <<state, got, executed>>
<1>1. /\ UNCHANGED <<state, got, executed, asked>>
      /\ started + 1 \in Procs /\ started' = started + 1 /\ proc' = started + 1
      /\ child' = [child EXCEPT ![started + 1] = NewChild]
      /\ \/ caller = "checking" /\ caller' = "idle"
         \/ caller = "connecting" /\ caller' = "ready"
  BY MaxProcsAssumption DEF Start, GoOn, MoveTo, Connecting, IInv, TransportTypeOK, Procs
<1>2. NewChild \in Child
  BY One DEF NewChild, Child
<1>3. TransportTypeOK'
  BY <1>1, <1>2, MaxProcsAssumption DEF IInv, TransportTypeOK, Calling, Stopping, Procs
<1>4. InOrder'
  BY <1>1 DEF IInv, InOrder, Calling
<1>5. child'[proc'] = NewChild /\ \A k \in Procs \ {proc'} : child'[k] = child[k]
  BY <1>1 DEF IInv, TransportTypeOK
<1>6. \A k \in Procs : child[k].is = "ended"
  BY DEF Start, Connected, IInv, Known, OneChild, TransportTypeOK, Procs
<1>7. Known' /\ Pipes'
  BY <1>1, <1>5, <1>6 DEF IInv, Known, OneChild, Pipes, Quiet, Silent, NewChild, TransportTypeOK
<1> QED
  BY <1>1, <1>3, <1>4, <1>7 DEF IInv

LEMMA StartFailsStep ==
  ASSUME IInv, StartFails
  PROVE  /\ IInv'
         /\ UNCHANGED <<state, got, executed>> \/ (asked \in Requests /\ Fail(asked))
<1>1. asked' = asked /\ proc' = proc /\ started' = started /\ child' = child /\ GiveUp
      /\ caller \in {"connecting", "checking"}
  BY DEF StartFails, Connecting
<1>2. /\ InOrder' /\ caller' = "idle" /\ executed' = executed /\ got' = got
      /\ state' \in [Requests -> {"new", "open", "answered", "failed"}]
      /\ UNCHANGED <<state, got, executed>> \/ (asked \in Requests /\ Fail(asked))
  BY <1>1, GivenUp DEF IInv
<1>3. TransportTypeOK'
  BY <1>1, <1>2 DEF IInv, TransportTypeOK, Stopping
<1>4. Known' /\ Pipes'
  BY <1>1, <1>2 DEF IInv, Known, OneChild, Pipes, Quiet, Silent
<1> QED
  BY <1>2, <1>3, <1>4 DEF IInv

LEMMA WriteStep ==
  ASSUME IInv, Write
  PROVE  /\ IInv'
         /\ UNCHANGED <<state, got, executed>> \/ (asked \in Requests /\ Fail(asked))
<1> DEFINE c == child[proc]
<1>1. /\ caller = "ready" /\ proc # 0 /\ asked \in Requests /\ proc \in Procs /\ c \in Child
      /\ asked' = asked /\ proc' = proc /\ started' = started
  BY AskedIsRequest, ProcIsProc DEF Write, IInv, InOrder, TransportTypeOK, Calling
<1>2. CASE c.is = "up"
  <2>1. /\ child' = [child EXCEPT ![proc].todo = Append(@, asked)] /\ caller' = "waiting"
        /\ state' = state /\ got' = got /\ executed' = executed
    BY <1>2 DEF Write, MoveTo
  <2>2. c.todo = <<>> /\ c.doing = 0 /\ c.said = <<>> /\ executed[asked] = 0
    BY <1>1, <1>2 DEF IInv, Pipes, Quiet, Silent, InOrder
  <2>3. /\ child'[proc] = [c EXCEPT !.todo = <<asked>>]
        /\ \A k \in Procs \ {proc} : child'[k] = child[k]
    BY <1>1, <2>1, <2>2, One DEF IInv, TransportTypeOK
  <2>4. child'[proc] \in Child
    BY <1>1, <2>3, ChildFields
  <2>5. TransportTypeOK'
    BY <1>1, <2>1, <2>3, <2>4 DEF IInv, TransportTypeOK, Calling, Stopping
  <2>6. InOrder'
    BY <1>1, <2>1 DEF IInv, InOrder, Calling
  <2>7. Unread(child[proc])' /\ child'[proc].is = "up" /\ child'[proc].said = <<>>
    BY <1>1, <1>2, <2>1, <2>2, <2>3 DEF Unread, Child
  <2>8. Known' /\ Pipes'
    BY <1>1, <1>2, <2>1, <2>3, <2>7 DEF IInv, Known, OneChild, Pipes, Quiet, Serving
  <2> QED
    BY <2>1, <2>5, <2>6, <2>8 DEF IInv
<1>3. CASE c.is # "up"
  <2>1. child' = child /\ Failed
    BY <1>3 DEF Write
  <2>2. /\ InOrder' /\ caller' = "idle" /\ executed' = executed /\ got' = got
        /\ state' \in [Requests -> {"new", "open", "answered", "failed"}] /\ Fail(asked)
    BY <1>1, <2>1, FailedInOrder DEF IInv, Calling
  <2>3. TransportTypeOK'
    BY <1>1, <2>1, <2>2 DEF IInv, TransportTypeOK, Stopping
  <2>4. Known' /\ Pipes'
    BY <1>1, <2>1, <2>2 DEF IInv, Known, OneChild, Pipes, Quiet, Silent
  <2> QED
    BY <1>1, <2>2, <2>3, <2>4 DEF IInv
<1> QED
  BY <1>2, <1>3

LEMMA ReadLineStep ==
  ASSUME IInv, ReadLine
  PROVE  IInv' /\ asked \in Requests /\ (Answer(asked) \/ Fail(asked))
<1> DEFINE c == child[proc]
           line == Head(c.said)
<1>1. /\ caller = "waiting" /\ proc # 0 /\ asked \in Requests /\ proc \in Procs /\ c \in Child
      /\ asked' = asked /\ proc' = proc /\ started' = started
      /\ child' = [child EXCEPT ![proc].said = Tail(@)]
  BY AskedIsRequest, ProcIsProc DEF ReadLine, IInv, InOrder, TransportTypeOK, Calling
<1>2. /\ Told(c) /\ c.said = <<line>> /\ line \in Line /\ line.of = asked
      /\ c.is = "up" => c.todo = <<>> /\ c.doing = 0
  <2>1. c.said # <<>> /\ Serving(c)
    BY <1>1 DEF ReadLine, IInv, Pipes
  <2>2. PICK l \in Line : c.said = <<l>> /\ l.of = asked
    BY <2>1 DEF Serving, Told
  <2> QED
    BY <2>1, <2>2, One DEF Serving, Unread, AtWork
<1>3. /\ child'[proc] = [c EXCEPT !.said = <<>>]
      /\ \A k \in Procs \ {proc} : child'[k] = child[k]
  BY <1>1, <1>2, One DEF IInv, TransportTypeOK
<1>4. child'[proc] \in Child
  BY <1>1, <1>3, ChildFields
<1>5. child'[proc].is = c.is /\ Silent(child'[proc])
  BY <1>1, <1>2, <1>3 DEF Child, Silent
<1>6. /\ InOrder' /\ caller' = "idle" /\ executed' = executed /\ got' \in [Requests -> Requests \cup {0}]
      /\ state' \in [Requests -> {"new", "open", "answered", "failed"}]
      /\ Answer(asked) \/ Fail(asked)
  <2>1. CASE line.valid
    <3>1. /\ state' = [state EXCEPT ![asked] = "answered"] /\ got' = [got EXCEPT ![asked] = asked]
          /\ caller' = "idle" /\ executed' = executed
      BY <1>2, <2>1 DEF ReadLine, MoveTo
    <3>2. state[asked] = "open" /\ executed[asked] = 1
      BY <1>1, <1>2 DEF IInv, InOrder, Told, Calling, Requests
    <3> QED
      BY <1>1, <3>1, <3>2 DEF Answer, IInv, TransportTypeOK, InOrder, Calling
  <2>2. CASE ~line.valid
    BY <1>1, <2>2, FailedInOrder DEF ReadLine, IInv, TransportTypeOK, Calling
  <2> QED
    BY <2>1, <2>2
<1>7. TransportTypeOK'
  BY <1>1, <1>3, <1>4, <1>6 DEF IInv, TransportTypeOK, Stopping
<1>8. Known' /\ Pipes'
  BY <1>1, <1>3, <1>5, <1>6 DEF IInv, Known, OneChild, Pipes, Quiet
<1> QED
  BY <1>1, <1>6, <1>7, <1>8 DEF IInv

LEMMA ReadEndStep ==
  ASSUME IInv, ReadEnd
  PROVE  IInv' /\ asked \in Requests /\ Fail(asked)
<1>1. /\ caller = "waiting" /\ proc # 0 /\ child[proc].said = <<>> /\ child[proc].is # "up"
      /\ asked' = asked /\ proc' = proc /\ started' = started /\ child' = child /\ Failed
      /\ proc \in Procs /\ child[proc] \in Child
  BY ProcIsProc DEF ReadEnd, IInv, TransportTypeOK
<1>2. /\ InOrder' /\ caller' = "idle" /\ executed' = executed /\ got' = got
      /\ state' \in [Requests -> {"new", "open", "answered", "failed"}]
      /\ Fail(asked) /\ asked \in Requests
  BY <1>1, FailedInOrder DEF IInv, Calling
<1>3. TransportTypeOK'
  BY <1>1, <1>2 DEF IInv, TransportTypeOK, Stopping
<1>4. Known' /\ Pipes'
  BY <1>1, <1>2 DEF IInv, Known, OneChild, Pipes, Quiet, Silent, Child
<1> QED
  BY <1>2, <1>3, <1>4 DEF IInv

LEMMA StoppedStep ==
  ASSUME IInv, Stopped
  PROVE  /\ IInv'
         /\ UNCHANGED <<state, got, executed>> \/ (asked \in Requests /\ Fail(asked))
<1>1. /\ caller \in {"stopping", "leaving"} /\ proc # 0 /\ child[proc].is = "ended"
      /\ asked' = asked /\ proc' = 0 /\ started' = started /\ child' = child /\ GiveUp
  BY DEF Stopped, Stopping, IInv, TransportTypeOK
<1>2. /\ InOrder' /\ caller' = "idle" /\ executed' = executed /\ got' = got
      /\ state' \in [Requests -> {"new", "open", "answered", "failed"}]
      /\ UNCHANGED <<state, got, executed>> \/ (asked \in Requests /\ Fail(asked))
  BY <1>1, GivenUp DEF IInv
<1>3. TransportTypeOK'
  BY <1>1, <1>2, MaxProcsAssumption DEF IInv, TransportTypeOK, Stopping
<1>4. Known' /\ Pipes'
  BY <1>1, <1>2 DEF IInv, Known, OneChild, Pipes, Quiet, TransportTypeOK
<1> QED
  BY <1>2, <1>3, <1>4 DEF IInv

-----------------------------------------------------------------------------
(* The steps of a child: only the one the transport knows takes any.         *)

LEMMA HandleStep ==
  ASSUME IInv, NEW k \in Procs, HandleLine(k)
  PROVE  IInv' /\ asked \in Requests /\ Perform(asked)
<1> DEFINE c == child[k]
<1>1. /\ k = proc /\ proc # 0 /\ c \in Child /\ c.is = "up" /\ c.todo # <<>>
      /\ UNCHANGED <<state, got, caller, asked, proc, started>>
  BY DEF HandleLine, Theirs, IInv, Known, OneChild, TransportTypeOK, Procs
<1>2. caller \in {"waiting", "stopping"} /\ Unread(c)
  <2>1. caller \notin Quiet
    BY <1>1 DEF IInv, Pipes, Silent
  <2>2. caller \in {"waiting", "stopping"} /\ Serving(c)
    BY <1>1, <2>1 DEF IInv, TransportTypeOK, Quiet, Calling, Pipes
  <2> QED
    BY <1>1, <2>2 DEF Serving, AtWork
<1>3. asked \in Requests /\ state[asked] = "open"
  BY <1>2, AskedIsRequest DEF IInv, InOrder, Calling
<1>4. /\ executed' = [executed EXCEPT ![asked] = 1]
      /\ child'[k] = [c EXCEPT !.doing = asked, !.todo = <<>>]
      /\ \A j \in Procs \ {k} : child'[j] = child[j]
      /\ child' = [child EXCEPT ![k] = child'[k]]
  <2>1. Head(c.todo) = asked /\ Tail(c.todo) = <<>> /\ executed[asked] + 1 = 1
    BY <1>2, <1>3, One DEF Unread
  <2> QED
    BY <1>3, <2>1 DEF HandleLine, IInv, TransportTypeOK
<1>5. child'[k] \in Child
  <2>1. [c EXCEPT !.doing = asked, !.todo = <<>>] \in Child
    BY <1>1, <1>3, ChildFields
  <2> QED
    BY <1>4, <2>1
<1>6. TransportTypeOK'
  BY <1>1, <1>3, <1>4, <1>5 DEF IInv, TransportTypeOK
<1>7. InOrder'
  BY <1>1, <1>2, <1>3, <1>4 DEF IInv, TransportTypeOK, InOrder, Calling
<1>8. AtWork(child[k])' /\ child'[k].is = "up"
  BY <1>1, <1>2, <1>3, <1>4 DEF AtWork, Unread, IInv, TransportTypeOK, Child
<1>9. Known' /\ Pipes'
  BY <1>1, <1>2, <1>4, <1>8 DEF IInv, Known, OneChild, Pipes, Quiet, Serving, AtWork
<1> QED
  BY <1>1, <1>2, <1>3, <1>4, <1>6, <1>7, <1>9 DEF IInv, Perform, Unread

LEMMA ReplyStep ==
  ASSUME IInv, NEW k \in Procs, Reply(k)
  PROVE  IInv' /\ UNCHANGED <<state, got, executed>>
<1> DEFINE c == child[k]
<1>1. /\ k = proc /\ proc # 0 /\ c \in Child /\ c.is = "up" /\ c.doing # 0
      /\ UNCHANGED <<state, got, caller, asked, proc, started, executed>>
  BY DEF Reply, Theirs, IInv, Known, OneChild, TransportTypeOK, Procs
<1>2. caller \in {"waiting", "stopping"} /\ AtWork(c)
  <2>1. caller \notin Quiet
    BY <1>1 DEF IInv, Pipes, Silent
  <2>2. caller \in {"waiting", "stopping"} /\ Serving(c)
    BY <1>1, <2>1 DEF IInv, TransportTypeOK, Quiet, Calling, Pipes
  <2> QED
    BY <1>1, <2>2 DEF Serving, Unread
<1>3. asked \in Requests
  BY <1>2, AskedIsRequest DEF IInv, InOrder, Calling
<1>4. PICK valid \in BOOLEAN :
         child' = [child EXCEPT ![k].doing = 0, ![k].said = Append(@, [of |-> child[k].doing, valid |-> valid])]
  BY DEF Reply
<1> DEFINE line == [of |-> asked, valid |-> valid]
<1>5. line \in Line /\ line.of = asked
  BY <1>3 DEF Line
<1>6. /\ child'[k] = [c EXCEPT !.doing = 0, !.said = <<line>>]
      /\ \A j \in Procs \ {k} : child'[j] = child[j]
  BY <1>2, <1>4, <1>5, One DEF AtWork, IInv, TransportTypeOK
<1>7. child'[k] \in Child
  <2>1. [c EXCEPT !.doing = 0, !.said = <<line>>] \in Child
    BY <1>1, <1>5, ChildFields
  <2> QED
    BY <1>6, <2>1
<1>8. child' \in [Procs -> Child]
  BY <1>4, <1>6, <1>7 DEF IInv, TransportTypeOK
<1>9. TransportTypeOK' /\ InOrder'
  BY <1>1, <1>8 DEF IInv, TransportTypeOK, InOrder
<1>10. child'[k].todo = <<>> /\ child'[k].doing = 0 /\ child'[k].said = <<line>> /\ child'[k].is = "up"
  BY <1>1, <1>2, <1>6 DEF AtWork, Child
<1>11. Told(child[k])'
  BY <1>1, <1>2, <1>5, <1>10 DEF Told, AtWork
<1>12. Known' /\ Pipes'
  BY <1>1, <1>2, <1>6, <1>10, <1>11 DEF IInv, Known, OneChild, Pipes, Quiet, Serving
<1> QED
  BY <1>1, <1>9, <1>12 DEF IInv

LEMMA DieStep ==
  ASSUME IInv, NEW k \in Procs, Die(k)
  PROVE  IInv' /\ UNCHANGED <<state, got, executed>>
<1> DEFINE c == child[k]
           line == [of |-> c.doing, valid |-> FALSE]
<1>1. /\ k = proc /\ proc # 0 /\ c \in Child /\ c.is = "up"
      /\ UNCHANGED <<state, got, caller, asked, proc, started, executed>>
  BY DEF Die, Theirs, IInv, Known, OneChild, TransportTypeOK, Procs
<1>2. /\ \/ child'[k] = [c EXCEPT !.is = "closing"]
         \/ c.doing # 0 /\ child'[k] = [c EXCEPT !.is = "closing", !.said = Append(@, line)]
      /\ \A j \in Procs \ {k} : child'[j] = child[j]
      /\ child' = [child EXCEPT ![k] = child'[k]]
  <2>1. child \in [Procs -> Child]
    BY DEF IInv, TransportTypeOK
  <2>2. CASE child' = [child EXCEPT ![k].is = "closing"]
    BY <2>1, <2>2
  <2>3. CASE c.doing # 0 /\ child' = [child EXCEPT ![k].is = "closing", ![k].said = Append(@, line)]
    BY <2>1, <2>3
  <2>4. CASE c.doing = 0 /\ child' = [child EXCEPT ![k].is = "closing", ![k].said = @]
    BY <1>1, <2>1, <2>4 DEF Child
  <2> QED
    BY <2>2, <2>3, <2>4 DEF Die
<1>3. c.doing # 0 => /\ line \in Line /\ line.of = asked /\ c.said = <<>> /\ AtWork(c)
                     /\ caller \in {"waiting", "stopping"} /\ Append(c.said, line) = <<line>>
  <2>1. SUFFICES ASSUME c.doing # 0 PROVE
            /\ line \in Line /\ line.of = asked /\ c.said = <<>> /\ AtWork(c)
            /\ caller \in {"waiting", "stopping"} /\ Append(c.said, line) = <<line>>
    OBVIOUS
  <2>2. caller \notin Quiet
    BY <1>1, <2>1 DEF IInv, Pipes, Silent
  <2>3. caller \in {"waiting", "stopping"} /\ Serving(c)
    BY <1>1, <2>2 DEF IInv, TransportTypeOK, Quiet, Calling, Pipes
  <2>4. AtWork(c)
    BY <1>1, <2>1, <2>3 DEF Serving, Unread
  <2>5. line \in Line
    BY <1>1, <2>1 DEF Child, Line
  <2> QED
    BY <2>3, <2>4, <2>5, One DEF AtWork
<1>4. child'[k] \in Child
  <2>1. CASE child'[k] = [c EXCEPT !.is = "closing"]
    BY <1>1, <2>1, ChildFields
  <2>2. CASE c.doing # 0 /\ child'[k] = [c EXCEPT !.is = "closing", !.said = Append(@, line)]
    <3>1. [c EXCEPT !.is = "closing", !.said = <<line>>] \in Child
      BY <1>1, <1>3, <2>2, ChildFields
    <3>2. Append(c.said, line) = <<line>>
      BY <1>3, <2>2
    <3> QED
      BY <2>2, <3>1, <3>2
  <2> QED
    BY <1>2, <2>1, <2>2
<1>5. TransportTypeOK' /\ InOrder'
  BY <1>1, <1>2, <1>4 DEF IInv, TransportTypeOK, InOrder
<1>6. /\ child'[k].is = "closing"
      /\ child'[k].said = c.said \/ (c.doing # 0 /\ child'[k].said = <<line>>)
  BY <1>1, <1>2, <1>3 DEF Child
<1>7. caller \in {"waiting", "stopping"} => child'[k].said = <<>> \/ Told(child[k])'
  <2>1. CASE child'[k].said = c.said
    BY <1>1, <2>1 DEF IInv, Pipes, Serving, Told
  <2>2. CASE c.doing # 0 /\ child'[k].said = <<line>>
    BY <1>1, <1>3, <2>2 DEF Told, AtWork
  <2> QED
    BY <1>6, <2>1, <2>2
<1>8. caller \in Quiet => child'[k].said = <<>>
  BY <1>1, <1>3, <1>6 DEF IInv, Pipes, Silent, Quiet
<1>9. Known' /\ Pipes'
  BY <1>1, <1>2, <1>6, <1>7, <1>8 DEF IInv, Known, OneChild, Pipes, Silent, Serving
<1> QED
  BY <1>1, <1>5, <1>9 DEF IInv

LEMMA EndedStep ==
  ASSUME IInv, NEW k \in Procs, Ended(k)
  PROVE  IInv' /\ UNCHANGED <<state, got, executed>>
<1>1. /\ k = proc /\ proc # 0 /\ child[k] \in Child
      /\ UNCHANGED <<state, got, caller, asked, proc, started, executed>>
  BY DEF Ended, Theirs, IInv, Known, OneChild, TransportTypeOK, Procs
<1>2. /\ child'[k] = [child[k] EXCEPT !.is = "ended"]
      /\ \A j \in Procs \ {k} : child'[j] = child[j]
      /\ child' = [child EXCEPT ![k] = child'[k]]
  BY DEF Ended, IInv, TransportTypeOK
<1>3. child'[k] \in Child /\ child'[k].is = "ended" /\ child'[k].said = child[k].said
  <2>1. [child[k] EXCEPT !.is = "ended"] \in Child
    BY <1>1, ChildFields
  <2> QED
    BY <1>1, <1>2, <2>1 DEF Child
<1>4. TransportTypeOK' /\ InOrder'
  BY <1>1, <1>2, <1>3 DEF IInv, TransportTypeOK, InOrder
<1>5. Known' /\ Pipes'
  BY <1>1, <1>2, <1>3 DEF IInv, Known, OneChild, Pipes, Silent, Serving, Told
<1> QED
  BY <1>1, <1>4, <1>5 DEF IInv

-----------------------------------------------------------------------------
(* The invariant and the step of the abstract specification, of every step.  *)

LEMMA InitInv == TransportInit => IInv
<1> SUFFICES ASSUME TransportInit PROVE IInv
  OBVIOUS
<1>1. [NewChild EXCEPT !.is = "ended"] \in Child
  <2>1. <<>> \in Seq(Requests) /\ <<>> \in Seq(Line)
    BY One
  <2> QED
    BY <2>1 DEF NewChild, Child
<1>2. TransportTypeOK
  <2>1. /\ state \in [Requests -> {"new", "open", "answered", "failed"}]
        /\ got \in [Requests -> Requests \cup {0}]
        /\ executed \in [Requests -> Nat]
    BY DEF TransportInit, CallInit
  <2>2. child \in [Procs -> Child]
    BY <1>1 DEF TransportInit
  <2>3. asked \in 0..MaxCalls /\ proc \in 0..MaxProcs /\ started \in 0..MaxProcs
    BY MaxCallsAssumption, MaxProcsAssumption DEF TransportInit
  <2> QED
    BY <2>1, <2>2, <2>3 DEF TransportInit, TransportTypeOK, Calling, Stopping
<1>3. InOrder
  BY MaxCallsAssumption DEF TransportInit, CallInit, InOrder, Calling, Requests
<1>4. Known /\ Pipes
  BY DEF TransportInit, NewChild, Known, OneChild, Pipes
<1> QED
  BY <1>2, <1>3, <1>4 DEF IInv

LEMMA Step ==
  ASSUME IInv, [TransportNext]_transportVars
  PROVE  IInv' /\ [CallNext]_<<state, got, executed>>
<1>1. CASE UNCHANGED transportVars
  BY <1>1 DEF transportVars, IInv, TransportTypeOK, InOrder, Known, OneChild, Pipes, Silent, Serving, Unread, AtWork, Told
<1>2. CASE Call
  <2>1. asked + 1 \in Requests /\ Open(asked + 1)
    BY <1>2, MaxCallsAssumption DEF Call, Requests, IInv, TransportTypeOK
  <2> QED
    BY <1>2, <2>1, CallStep DEF CallNext
<1>3. CASE Check \/ Reuse \/ TimeOut \/ Disconnect
  BY <1>3, IdleStep
<1>4. CASE Start
  BY <1>4, StartStep
<1>5. CASE StartFails
  BY <1>5, StartFailsStep DEF CallNext
<1>6. CASE Write
  BY <1>6, WriteStep DEF CallNext
<1>7. CASE ReadLine
  BY <1>7, ReadLineStep DEF CallNext
<1>8. CASE ReadEnd
  BY <1>8, ReadEndStep DEF CallNext
<1>9. CASE Stopped
  BY <1>9, StoppedStep DEF CallNext
<1>10. ASSUME NEW k \in Procs, HandleLine(k) \/ Reply(k) \/ Die(k) \/ Ended(k)
       PROVE  IInv' /\ [CallNext]_<<state, got, executed>>
  BY <1>10, HandleStep, ReplyStep, DieStep, EndedStep DEF CallNext
<1> QED
  BY <1>1, <1>2, <1>3, <1>4, <1>5, <1>6, <1>7, <1>8, <1>9, <1>10 DEF TransportNext, OwnStep

LEMMA Inductive == TransportSpec => []IInv
BY InitInv, Step, PTL DEF TransportSpec

-----------------------------------------------------------------------------
(* Theorems.                                                                 *)

\* The variables keep their types, and a request under way has a process.
THEOREM TypeCorrect == TransportSpec => []TransportTypeOK
<1>1. IInv => TransportTypeOK
  BY DEF IInv
<1> QED
  BY <1>1, Inductive, PTL

\* However calls, time-outs, deaths and disconnects follow each other, no child but
\* the one the transport knows is running.
THEOREM NoChildLeft == TransportSpec => []OneChild
<1>1. IInv => OneChild
  BY DEF IInv, Known
<1> QED
  BY <1>1, Inductive, PTL

\* A call finds nothing of an earlier one in the pipes.
THEOREM PipesAreQuiet == TransportSpec => []QuietBetweenCalls
<1>1. IInv => QuietBetweenCalls
  BY DEF IInv, Pipes, Quiet, Silent, QuietBetweenCalls
<1> QED
  BY <1>1, Inductive, PTL

\* Time-outs, dying children and all: a call takes effect at most once, never after
\* it has returned, and an answer is its own.
THEOREM CallsRefined == TransportSpec => CallSpec
<1>1. TransportInit => CallInit
  BY DEF TransportInit
<1> QED
  BY <1>1, Inductive, Step, PTL DEF TransportSpec, CallSpec
=============================================================================
