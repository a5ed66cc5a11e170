----------------------------- MODULE ChatClient ------------------------------
(***************************************************************************)
(* What the chat page shows of the sessions the server holds: App selects and *)
(* creates sessions and loads their messages, ChatWindow sends one message at *)
(* a time and appends what comes back. No request is ever cancelled and their *)
(* answers arrive in any order, the server's commits later still. Names that  *)
(* ChatTurn has too differ here, as ChatProofs extends both.         *)
(***************************************************************************)
EXTENDS Naturals, Sequences, FiniteSets, Functions

CONSTANTS
  Sessions,      \* the chat sessions of one user
  Old,           \* those that are there when the page opens
  NoSession,
  Limit,         \* the limit get_messages passes on: 100
  MaxTurns,      \* bound: messages sent
  MaxLoads       \* bound: listings of messages under way at once

ASSUME ChatClientAssumption ==
  /\ Old \subseteq Sessions /\ NoSession \notin Sessions
  /\ Limit \in Nat \ {0} /\ MaxTurns \in Nat /\ MaxLoads \in Nat

VARIABLES
  turns,     \* the messages sent, in the order their transactions started
  known,     \* the sessions the page was told of; that a reload may drop some is left out
  stored,    \* those the server has
  selected,  \* selectedSessionId
  list,      \* messageList
  loads,     \* the calls of loadMessages under way
  creating,  \* a session is being created
  sending,   \* the state of the ChatWindow mounted
  clean      \* history: what was asked for since the last selection, was asked one at a time

screen == <<selected, list>>
pageVars == <<turns, known, stored, screen, loads, creating, sending, clean>>

\* A turn: where its transaction is, and how much of it is flushed or committed; what the
\* client has yet to hear; whether the ChatWindow that sent it waits for that.
Turn == [session : Sessions, phase : {"running", "committing", "stored", "lost"},
         rows : {"none", "question", "both"}, reply : {"none", "answer", "error", "heard"},
         awaited : BOOLEAN]
Roles == {"question", "answer"}
Message == [turn : Nat, role : Roles]

\* A listing asked for, or its answer on its way.
NoLoad == [is |-> "none"]
Load == [is : {"asked"}, session : Sessions] \cup [is : {"answered"}, messages : Seq(Message)]

PageTypeOK == /\ turns \in Seq(Turn) /\ Len(turns) <= MaxTurns
              /\ known \subseteq Sessions /\ stored \subseteq Sessions
              /\ selected \in Sessions \cup {NoSession}
              /\ list \in Seq(Message)
              /\ loads \in [1..MaxLoads -> {NoLoad} \cup Load]
              /\ creating \in BOOLEAN /\ sending \in BOOLEAN /\ clean \in BOOLEAN

PageInit == /\ turns = <<>>
            /\ known = {} /\ stored = Old
            /\ selected = NoSession /\ list = <<>>
            /\ loads = [l \in 1..MaxLoads |-> NoLoad]
            /\ creating = FALSE /\ sending = FALSE /\ clean = TRUE

\* Nothing is under way, at the client or at the server.
Quiet == /\ \A l \in 1..MaxLoads : loads[l] = NoLoad
         /\ ~creating
         /\ \A n \in DOMAIN turns : turns[n].phase \in {"stored", "lost"} /\ turns[n].reply = "heard"

-----------------------------------------------------------------------------
(* The server.                                                               *)

QuestionOf(n) == [turn |-> n, role |-> "question"]
AnswerOf(n) == [turn |-> n, role |-> "answer"]

\* What of a turn is flushed or committed.
Has(t, role) == t.rows = "both" \/ (t.rows = "question" /\ role = "question")

\* The rows of s that are committed.
Rows(s) == {m \in [turn : DOMAIN turns, role : Roles] :
              LET t == turns[m.turn] IN t.session = s /\ t.phase = "stored" /\ Has(t, m.role)}

\* A slip of Orders: the newest turn first.
NewestFirst(R) == {o \in [1..Cardinality(R) -> R] :
                     \A i, j \in DOMAIN o : i < j => o[i] # o[j] /\ o[i].turn >= o[j].turn}

\* The orders of the messages of R by created_at, which the rows of a turn share.
Orders(R) == {o \in [1..Cardinality(R) -> R] :
                \A i, j \in DOMAIN o : i < j => o[i] # o[j] /\ o[i].turn <= o[j].turn}

Cut(o) == SubSeq(o, 1, IF Len(o) < Limit THEN Len(o) ELSE Limit)

\* What get_messages may answer.
Transcripts(s) == {Cut(o) : o \in Orders(Rows(s))}

\* What goes out reaches the client, unless it has given up waiting.
Heard(n, said) == IF turns[n].reply = "none" THEN said ELSE turns[n].reply

\* The answer, or the last event of a stream, goes out before the commit.
RespondTo(n) == /\ turns[n].phase = "running" /\ turns[n].session \in stored
                /\ turns' = [turns EXCEPT ![n].phase = "committing", ![n].rows = "both",
                                          ![n].reply = Heard(n, "answer")]
                /\ UNCHANGED <<known, stored, screen, loads, creating, sending, clean>>

\* A plain request is rolled back before its error goes out, so is a stream that breaks
\* at its answer. A run that raises in a stream is reported, then its question committed.
Fail(n) == /\ turns[n].phase = "running"
           /\ \/ turns' = [turns EXCEPT ![n].phase = "lost", ![n].reply = Heard(n, "error")]
              \/ /\ turns[n].session \in stored
                 /\ turns' = [turns EXCEPT ![n].phase = "committing", ![n].rows = "question",
                                           ![n].reply = Heard(n, "error")]
           /\ UNCHANGED <<known, stored, screen, loads, creating, sending, clean>>

\* A half turn committed, or an answered one lost, is not what the client shows.
CommitTurn(n) == /\ turns[n].phase = "committing"
                 /\ turns' = [turns EXCEPT ![n].phase = "stored"]
                 /\ clean' = (clean /\ turns[n].rows = "both")
                 /\ UNCHANGED <<known, stored, screen, loads, creating, sending>>

CommitTurnFails(n) == /\ turns[n].phase = "committing"
                      /\ turns' = [turns EXCEPT ![n].phase = "lost"]
                      /\ clean' = (clean /\ turns[n].rows = "question")
                      /\ UNCHANGED <<known, stored, screen, loads, creating, sending>>

\* The answer does not arrive: fetch, or the reader of the stream, raises, at times while
\* the handler still runs, which goes on.
Drop(n) == /\ turns[n].reply \in {"none", "answer"}
           /\ turns' = [turns EXCEPT ![n].reply = "error"]
           /\ clean' = FALSE
           /\ UNCHANGED <<known, stored, screen, loads, creating, sending>>

\* One statement reads the rows committed so far.
ListMessages(l) ==
  /\ loads[l].is = "asked" /\ loads[l].session \in stored
  /\ \E t \in Transcripts(loads[l].session) :
       loads' = [loads EXCEPT ![l] = [is |-> "answered", messages |-> t]]
  /\ UNCHANGED <<turns, known, stored, screen, creating, sending, clean>>

-----------------------------------------------------------------------------
(* The client.                                                               *)

\* An answer to loadSessions, asked for when the page opens and at a log-in or log-out.
LoadSessions == /\ known' = known \cup stored
                /\ UNCHANGED <<turns, stored, screen, loads, creating, sending, clean>>

\* handleSelectSession: the old list stays until the new one arrives.
Select(s) == /\ s \in known
             /\ \E l \in 1..MaxLoads :
                  /\ loads[l] = NoLoad /\ \A k \in 1..(l - 1) : loads[k] # NoLoad
                  /\ loads' = [loads EXCEPT ![l] = [is |-> "asked", session |-> s]]
             /\ selected' = s /\ clean' = Quiet
             /\ UNCHANGED <<turns, known, stored, list, creating, sending>>

\* loadMessages shows what arrives, whatever is selected by then, and ignores a failure.
Loaded(l) == /\ \/ /\ loads[l].is = "answered"
                   /\ list' = loads[l].messages /\ UNCHANGED clean
                \/ /\ loads[l].is = "asked"
                   /\ clean' = FALSE /\ UNCHANGED list
             /\ loads' = [loads EXCEPT ![l] = NoLoad]
             /\ UNCHANGED <<turns, known, stored, selected, creating, sending>>

Create == /\ ~creating /\ creating' = TRUE
          /\ clean' = (clean /\ Quiet)
          /\ UNCHANGED <<turns, known, stored, screen, loads, sending>>

\* handleCreateSession: the new session is selected, empty; its commit may fail yet.
Created == /\ creating /\ creating' = FALSE
           /\ \/ \E s \in Sessions \ (known \cup stored) :
                   /\ known' = known \cup {s}
                   /\ stored' = stored \cup {s} \/ UNCHANGED stored
                   /\ selected' = s /\ list' = <<>>
              \/ UNCHANGED <<known, stored, screen>>
           /\ UNCHANGED <<turns, loads, sending, clean>>

\* Streamed or not, which only Fail can tell.
SendMessage == /\ selected # NoSession /\ ~sending /\ Len(turns) < MaxTurns
               /\ sending' = TRUE
               /\ turns' = Append(turns, [session |-> selected, phase |-> "running", rows |-> "none",
                                          reply |-> "none", awaited |-> TRUE])
               /\ clean' = (clean /\ Quiet)
               /\ UNCHANGED <<known, stored, screen, loads, creating>>

Shown(n) == list' = list \o <<QuestionOf(n), AnswerOf(n)>>
Told(n) == turns' = [turns EXCEPT ![n].reply = "heard", ![n].awaited = FALSE]

\* Slips of Hear: what was sent is shown, error or not; an error leaves the window waiting.
HearShowing(n) ==
  /\ turns[n].reply \in {"answer", "error"} /\ Told(n)
  /\ Shown(n)
  /\ sending' = (sending /\ ~turns[n].awaited)
  /\ UNCHANGED <<known, stored, selected, loads, creating, clean>>

HearWaiting(n) ==
  /\ turns[n].reply \in {"answer", "error"} /\ Told(n)
  /\ IF turns[n].reply = "answer" THEN Shown(n) /\ sending' = (sending /\ ~turns[n].awaited)
                                  ELSE UNCHANGED <<list, sending>>
  /\ UNCHANGED <<known, stored, selected, loads, creating, clean>>

\* handleSend goes on: handleMessageSent appends both messages to the list there is; a
\* window unmounted has no state to set.
Hear(n) ==
  /\ turns[n].reply \in {"answer", "error"} /\ Told(n)
  /\ IF turns[n].reply = "answer" THEN Shown(n) ELSE UNCHANGED list
  /\ sending' = (sending /\ ~turns[n].awaited)
  /\ UNCHANGED <<known, stored, selected, loads, creating, clean>>

\* handleLogout and handleAuthenticated: no session, no list, no ChatWindow.
LeavePage == /\ selected # NoSession /\ selected' = NoSession
             /\ list' = <<>> /\ sending' = FALSE
             /\ turns' = [n \in DOMAIN turns |-> [turns[n] EXCEPT !.awaited = FALSE]]
             /\ clean' = Quiet
             /\ UNCHANGED <<known, stored, loads, creating>>

Serve == \/ \E n \in DOMAIN turns : \/ RespondTo(n) \/ Fail(n) \/ Drop(n)
                                    \/ CommitTurn(n) \/ CommitTurnFails(n)
         \/ \E l \in 1..MaxLoads : ListMessages(l)
Arrives == \/ \E n \in DOMAIN turns : Hear(n)
           \/ \E l \in 1..MaxLoads : Loaded(l)
           \/ Created \/ LoadSessions
Use == \/ \E s \in Sessions : Select(s)
       \/ SendMessage \/ Create \/ LeavePage

PageNext == Serve \/ Arrives \/ Use

PageSpec == PageInit /\ [][PageNext]_pageVars

\* The server ends every request (EveryCallerAnswered of ChatTurn), and its answer arrives
\* or is found to be lost.
PageFairness == \A n \in 1..MaxTurns :
                   /\ WF_pageVars(n \in DOMAIN turns /\ (RespondTo(n) \/ Fail(n)))
                   /\ WF_pageVars(n \in DOMAIN turns /\ Hear(n))
PageFairSpec == PageSpec /\ PageFairness

-----------------------------------------------------------------------------
(* Properties.                                                               *)

\* The limit cuts nothing of s.
Fits(s) == Cardinality(Rows(s)) <= Limit

\* Once nothing is under way, the page shows the transcript of the session selected, as
\* another listing would, if since the last quiet selection things were asked for one at a
\* time, no load or commit failed and no answer was lost, and the limit cuts nothing:
\* appending what a send returns and reading the rows back come to the same.
QuietScreenIsRight ==
  Quiet /\ clean /\ selected # NoSession /\ Fits(selected) => list \in Transcripts(selected)

\* Whatever races, no message is shown of a turn that failed, other than the question of a
\* half turn, and none that is not stored but for one whose commit is to come or failed; and
\* no answer without its question, but at the cut of the limit.
ShownIsWhole ==
  \A i \in DOMAIN list :
    LET t == turns[list[i].turn]
    IN /\ Has(t, list[i].role) /\ (t.rows = "question" => t.phase = "stored")
       /\ list[i].role = "answer" => i = Limit \/ QuestionOf(list[i].turn) \in Range(list)

\* A window that sends can send again, or is gone.
SendingEnds == sending ~> ~sending

\* README.md, "choosing a session shows its message history": a listing that arrives
\* fills the list with messages of the session selected.
ShownIsSelected ==
  [][\A l \in 1..MaxLoads :
       loads[l].is = "answered" /\ Loaded(l) /\ selected # NoSession =>
         \A i \in DOMAIN list' : turns[list'[i].turn].session = selected]_pageVars
=============================================================================
