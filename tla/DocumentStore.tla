---------------------------- MODULE DocumentStore ----------------------------
(***************************************************************************)
(* Concurrent requests on the documents: upload, delete, the three reads of  *)
(* DocumentService and the two kinds of retrieval, each in the transaction of *)
(* its get_db_session. The database is PostgreSQL at READ COMMITTED: every   *)
(* statement sees what is committed when it starts, an UPDATE waits for the  *)
(* transaction that holds its row.                                           *)
(***************************************************************************)
EXTENDS DocumentLife, FiniteSets

CONSTANTS Requests,
          Admins,     \* the users whose role is admin
          Offered,    \* the calls the clients make: a subset of Calls
          NoCall,
          NoRow       \* pend[r] while r has written nothing

Reads == {"get", "chunks", "list", "vector", "hybrid"}
Calls == [op: {"upload", "delete"} \cup Reads, user: Users, doc: Docs,
          visibility: {"private", "public"}, size: 0..MaxChunks]

ASSUME CallsAssumption == /\ Offered \subseteq Calls
                          /\ NoCall \notin Calls
                          /\ NoRow \notin Document
                          /\ Admins \subseteq Users

VARIABLES
  call,    \* call[r]: the request; doc is the fresh uuid of an upload, size its chunks
  pc,      \* pc[r]: where its handler is
  done,    \* done[r]: how many statements a read has run
  pend,    \* pend[r]: the row r has written and not committed
  outcome, \* outcome[r]: the status of its response, once decided
  seen,    \* seen[r]: the documents its answer shows
  barred   \* barred[r]: the documents deleted when r arrived (history)

vars == <<docs, call, pc, done, pend, outcome, seen, barred>>

PC == {"idle", "opened", "processing", "chunked", "marked", "stored", "found",
       "finish", "unwind", "closed", "lost"}
Status == {"none", "ok", "bad_request", "not_found", "error", "gone"}

TypeOK == /\ docs \in [Docs -> Document \cup {NoDoc}]
          /\ call \in [Requests -> Calls \cup {NoCall}]
          /\ pc \in [Requests -> PC]
          /\ done \in [Requests -> 0..3]
          /\ pend \in [Requests -> Document \cup {NoRow}]
          /\ outcome \in [Requests -> Status]
          /\ seen \in [Requests -> SUBSET Docs]
          /\ barred \in [Requests -> SUBSET Docs]

Init == /\ LifeInit
        /\ call = [r \in Requests |-> NoCall]
        /\ pc = [r \in Requests |-> "idle"]
        /\ done = [r \in Requests |-> 0]
        /\ pend = [r \in Requests |-> NoRow]
        /\ outcome = [r \in Requests |-> "none"]
        /\ seen = [r \in Requests |-> {}]
        /\ barred = [r \in Requests |-> {}]

-----------------------------------------------------------------------------
(* Helpers.                                                                  *)

Goto(r, l) == pc' = [pc EXCEPT ![r] = l]
Decide(r, s) == outcome' = [outcome EXCEPT ![r] = s]
Row(r) == docs[call[r].doc]
Write(r, row) == pend' = [pend EXCEPT ![r] = row]
Unread == UNCHANGED <<docs, call, done, seen, barred>>

Owns(r, d) == docs[d].owner = call[r].user
Readable(r, d) == Owns(r, d) \/ docs[d].visibility = "public"

\* get_by_id and get_accessible_by_user.
Live(d) == docs[d] # NoDoc /\ docs[d].status # "deleted"
Accessible(r) == {d \in Docs : Live(d) /\ Readable(r, d)}

\* Slips of the retrievers: the WHERE forgets the status, or the visibility.
AnyStatus(r) == {d \in Docs : docs[d] # NoDoc /\ Readable(r, d)}
AnyOwner(r) == {d \in Docs : docs[d] # NoDoc /\ docs[d].status = "ready"}

\* The WHERE of both retrievers; user_id is always given by the routes.
Retrievable(r) == {d \in Docs : docs[d] # NoDoc /\ docs[d].status = "ready" /\ Readable(r, d)}

\* Nobody else has written the row of r and not committed it.
Unlocked(r) == \A s \in Requests \ {r} : pend[s] # NoRow => call[s].doc # call[r].doc

\* A document id no one has: uuid4().
Fresh(d) == docs[d] = NoDoc /\ \A s \in Requests :
              call[s] # NoCall => call[s].op # "upload" \/ call[s].doc # d

Send(r) == /\ pc[r] = "idle"
           /\ \E c \in Offered : /\ c.op = "upload" => Fresh(c.doc)
                                 /\ call' = [call EXCEPT ![r] = c]
           /\ barred' = [barred EXCEPT ![r] = {d \in Docs : docs[d] # NoDoc /\ docs[d].status = "deleted"}]
           /\ Goto(r, "opened")
           /\ UNCHANGED <<docs, done, pend, outcome, seen>>

-----------------------------------------------------------------------------
(* Upload.                                                                   *)

\* An unsupported type, an empty file or a wrong visibility: 400 before any write.
Refuse(r) == /\ pc[r] = "opened" /\ call[r].op = "upload"
             /\ Decide(r, "bad_request")
             /\ Goto(r, "unwind")
             /\ Unread /\ UNCHANGED pend

Register(r) == /\ pc[r] = "opened" /\ call[r].op = "upload"
               /\ Write(r, [status |-> "processing", owner |-> call[r].user,
                            visibility |-> call[r].visibility, chunks |-> 0, chunk_count |-> 0])
               /\ Goto(r, "processing")
               /\ Unread /\ UNCHANGED outcome

\* A slip of StoreChunks: a text without chunks passes.
StoreAny(r) == /\ pc[r] = "processing"
               /\ Write(r, [pend[r] EXCEPT !.chunks = call[r].size])
               /\ Goto(r, "chunked")
               /\ Unread /\ UNCHANGED outcome

\* The text is loaded and cut, each chunk embedded (an await each), all written at once.
StoreChunks(r) == /\ pc[r] = "processing"
                  /\ call[r].size > 0
                  /\ Write(r, [pend[r] EXCEPT !.chunks = call[r].size])
                  /\ Goto(r, "chunked")
                  /\ Unread /\ UNCHANGED outcome

MarkReady(r) == /\ pc[r] = "chunked"
                /\ Write(r, [pend[r] EXCEPT !.status = "ready"])
                /\ Goto(r, "marked")
                /\ Unread /\ UNCHANGED outcome

\* chunk_count goes into the metadata.
StoreMeta(r) == /\ pc[r] = "marked"
                /\ Write(r, [pend[r] EXCEPT !.chunk_count = call[r].size])
                /\ Goto(r, "stored")
                /\ Unread /\ UNCHANGED outcome

\* Inside the try block of upload_document.
Ingesting(r) == call[r] # NoCall /\ call[r].op = "upload"
                  /\ pc[r] \in {"processing", "chunked", "marked", "stored"}

\* A slip of UploadFails: the exception is not raised again, so failure is committed.
KeepFailed(r) == /\ Ingesting(r)
                 /\ Write(r, [pend[r] EXCEPT !.status = "failed"])
                 /\ Decide(r, "error")
                 /\ Goto(r, "finish")
                 /\ Unread

\* Anything in the try block raises (ValueError: 400); the row is marked failed,
\* unless that flush raises too, and the exception goes on to get_db_session.
UploadFails(r) == /\ Ingesting(r)
                  /\ pend' = pend \/ Write(r, [pend[r] EXCEPT !.status = "failed"])
                  /\ \E s \in {"bad_request", "error"} : Decide(r, s)
                  /\ Goto(r, "unwind")
                  /\ Unread

\* The response of an upload or of a delete: sent before the commit.
Respond(r) == /\ pc[r] = "stored"
              /\ Decide(r, "ok")
              /\ Goto(r, "finish")
              /\ Unread /\ UNCHANGED pend

-----------------------------------------------------------------------------
(* Delete.                                                                   *)

\* A slip of MayDelete: whoever reads a document deletes it.
MayDeleteShared(r) == /\ Row(r) # NoDoc
                      /\ Readable(r, call[r].doc) \/ call[r].user \in Admins
                      /\ Row(r).status # "deleted"

\* The owner or an admin, and a document not yet deleted.
MayDelete(r) == /\ Row(r) # NoDoc
                /\ Owns(r, call[r].doc) \/ call[r].user \in Admins
                /\ Row(r).status # "deleted"

Find(r) == /\ pc[r] = "opened" /\ call[r].op = "delete"
           /\ IF MayDelete(r) THEN Goto(r, "found") /\ UNCHANGED outcome
                              ELSE Goto(r, "unwind") /\ Decide(r, "not_found")
           /\ Unread /\ UNCHANGED pend

\* soft_delete: the row may have been deleted by another request since Find.
SoftDelete(r) == /\ pc[r] = "found"
                 /\ Unlocked(r)
                 /\ Write(r, Withdrawn(Row(r)))
                 /\ Goto(r, "stored")
                 /\ Unread /\ UNCHANGED outcome

-----------------------------------------------------------------------------
(* Reads.                                                                    *)

\* The statements of each: the document, its chunks, their count; the page, its
\* total; the vector query; the vector query, then the keyword query.
Statements == [get |-> 1, chunks |-> 3, list |-> 2, vector |-> 1, hybrid |-> 2]

Reading(r) == /\ pc[r] = "opened" /\ call[r].op \in Reads
              /\ done[r] < Statements[call[r].op]
Single(r) == call[r].op \in {"get", "chunks"}

\* What the next statement of r adds to its answer: a page, the top_k of a
\* retrieval, the document asked for.
Shows(r) == IF Single(r) THEN {{call[r].doc}}
            ELSE IF call[r].op # "list" THEN SUBSET Retrievable(r)
            ELSE {IF done[r] = 0 THEN Accessible(r) ELSE {}}

NotFound(r) == /\ Reading(r) /\ Single(r) /\ done[r] = 0
               /\ call[r].doc \notin Accessible(r)
               /\ Decide(r, "not_found")
               /\ Goto(r, "unwind")
               /\ Unread /\ UNCHANGED pend

\* The chunks and their count are read by document id alone.
Read(r) == /\ Reading(r)
           /\ Single(r) /\ done[r] = 0 => call[r].doc \in Accessible(r)
           /\ \E S \in Shows(r) : seen' = [seen EXCEPT ![r] = @ \cup S]
           /\ done' = [done EXCEPT ![r] = @ + 1]
           /\ UNCHANGED <<docs, call, pc, pend, outcome, barred>>

Answer(r) == /\ pc[r] = "opened" /\ call[r].op \in Reads
             /\ done[r] = Statements[call[r].op]
             /\ Decide(r, "ok")
             /\ Goto(r, "finish")
             /\ Unread /\ UNCHANGED pend

-----------------------------------------------------------------------------
(* The end of the transaction.                                               *)

Close(r) == /\ Goto(r, "closed")
            /\ Write(r, NoRow)
            /\ UNCHANGED <<call, done, seen, barred>>

Commit(r) == /\ pc[r] = "finish"
             /\ docs' = IF pend[r] = NoRow THEN docs ELSE [docs EXCEPT ![call[r].doc] = pend[r]]
             /\ Close(r)
             /\ UNCHANGED outcome

\* Nobody is told: the response is out.
CommitFails(r) == /\ pc[r] = "finish"
                  /\ Close(r)
                  /\ UNCHANGED <<docs, outcome>>

\* A slip of Rollback: the transaction is left open, with its row lock.
LeaveOpen(r) == /\ pc[r] = "unwind"
                /\ Goto(r, "closed")
                /\ Unread /\ UNCHANGED <<pend, outcome>>

Rollback(r) == /\ pc[r] = "unwind"
               /\ Close(r)
               /\ UNCHANGED <<docs, outcome>>

\* A statement outside the try block of an upload raises.
StatementFails(r) == /\ pc[r] \in {"opened", "found", "stored"}
                     /\ Decide(r, "error")
                     /\ Goto(r, "unwind")
                     /\ Unread /\ UNCHANGED pend

\* The server process dies; the database rolls its transactions back.
Crash == LET open == {r \in Requests : pc[r] \notin {"idle", "closed", "lost"}} IN
         /\ open # {}
         /\ pc' = [r \in Requests |-> IF r \in open THEN "lost" ELSE pc[r]]
         /\ pend' = [r \in Requests |-> NoRow]
         /\ outcome' = [r \in Requests |-> IF r \in open /\ outcome[r] = "none"
                                           THEN "gone" ELSE outcome[r]]
         /\ Unread

Upload(r) == Refuse(r) \/ Register(r) \/ StoreChunks(r) \/ MarkReady(r) \/ StoreMeta(r)
               \/ UploadFails(r)
Delete(r) == Find(r) \/ SoftDelete(r)
Query(r) == NotFound(r) \/ Read(r) \/ Answer(r)
Handle(r) == Upload(r) \/ Delete(r) \/ Respond(r) \/ Query(r)
               \/ Commit(r) \/ CommitFails(r) \/ Rollback(r)

Next == \/ \E r \in Requests : Send(r) \/ Handle(r) \/ StatementFails(r)
        \/ Crash

Spec == Init /\ [][Next]_vars

\* The event loop resumes every handler whose awaited statement has returned; one
\* that waits for a row lock is not ready.
Fairness == \A r \in Requests : WF_vars(Handle(r))
FairSpec == Spec /\ Fairness

-----------------------------------------------------------------------------
(* Properties.                                                               *)

\* Every committed document is whole: ready or deleted, with all the chunks its
\* metadata counts. Neither a failed upload nor a crash leaves a part of one.
DocumentsAreWhole == \A d \in Docs : docs[d] \in Stored

\* An answer shows only documents its user may read, whichever of the reads and
\* retrievals made it and whatever happened between its statements.
AnswersAreReadable == \A r \in Requests : \A d \in seen[r] :
                         docs[d] # NoDoc /\ Readable(r, d)

\* A document whose deletion was committed before a request arrived is in no part
\* of its answer. (One deleted later may be: the statements of a read see it go.)
DeletedStaysHidden == \A r \in Requests : seen[r] \cap barred[r] = {}

\* A document changes after its upload only by a delete of its owner or an admin, as
\* delete_document says (document_service.py:286). Of private documents the README says
\* otherwise: see OnlyOwnersDeletePrivate.
OnlyEntitledDelete ==
  [][\A d \in Docs : (docs[d] # NoDoc /\ docs'[d] # docs[d]) =>
        \E r \in Requests : /\ call[r] # NoCall /\ call[r].op = "delete" /\ call[r].doc = d /\ outcome[r] = "ok"
                            /\ Owns(r, d) \/ call[r].user \in Admins]_vars

\* Deletes of one document wait for each other, and yet every request ends.
EveryRequestEnds == \A r \in Requests : pc[r] = "opened" ~> pc[r] \in {"closed", "lost"}

\* README.md:189, of a private document: only its owner can view, search and delete it.
OnlyOwnersDeletePrivate ==
  [][\A d \in Docs : (docs[d] # NoDoc /\ docs'[d] # docs[d] /\ docs[d].visibility = "private") =>
        \E r \in Requests : /\ call[r] # NoCall /\ call[r].op = "delete" /\ call[r].doc = d
                            /\ Owns(r, d)]_vars

\* document_service.py:145, "Update document status to failed": a request that has
\* given its document that status leaves it in the table.
FailureIsRecorded ==
  [][\A r \in Requests : (/\ pc[r] # "closed" /\ pc'[r] = "closed"
                          /\ pend[r] # NoRow /\ pend[r].status = "failed")
                            => docs'[call[r].doc] = pend[r]]_vars
=============================================================================
