------------------------- MODULE DocumentStoreProofs -------------------------
(***************************************************************************)
(* Theorems of DocumentStore. The inductive invariant IInv says, of every     *)
(* request, what it has written at each point of its handler and how that     *)
(* row relates to the committed one.                                         *)
(***************************************************************************)
EXTENDS DocumentStore, TLAPS

\* Nothing has happened to a request that has not arrived; the others have a call.
Started(r) == IF pc[r] = "idle" THEN call[r] = NoCall /\ pend[r] = NoRow /\ seen[r] = {} /\ done[r] = 0
                                ELSE call[r] \in Calls

Ended(r) == pc[r] \in {"closed", "lost"}
Is(r, op) == pc[r] # "idle" /\ call[r].op = op
Entitled(r, d) == Owns(r, d) \/ call[r].user \in Admins

\* Where a request has written a row, and whose handlers reach which points.
Placed(r) ==
  /\ pend[r] # NoRow => Is(r, "upload") \/ Is(r, "delete")
  /\ pc[r] \in {"opened", "found", "closed", "lost"} => pend[r] = NoRow
  /\ pc[r] \in {"processing", "chunked", "marked"} => pend[r] # NoRow /\ Is(r, "upload")
  /\ pc[r] = "stored" => pend[r] # NoRow
  /\ pc[r] = "found" => Is(r, "delete")
  /\ pc[r] = "finish" => outcome[r] = "ok"

\* An upload has the only use of its identity, and its row grows to a whole one.
Uploading(r) == Is(r, "upload") /\ ~Ended(r) =>
  /\ Row(r) = NoDoc
  /\ pc[r] \in {"chunked", "marked"} => pend[r].chunks = call[r].size /\ call[r].size > 0
  /\ pc[r] = "marked" => pend[r].status = "ready"
  /\ pc[r] \in {"stored", "finish"} => pend[r] \in Published

\* A delete has found its document; the row it writes is the committed one, withdrawn.
Deleting(r) == Is(r, "delete") /\ (pc[r] = "found" \/ pend[r] # NoRow) =>
  /\ Row(r) # NoDoc
  /\ Entitled(r, call[r].doc)
  /\ pend[r] # NoRow => pend[r] = Withdrawn(Row(r))

\* What a read has shown stays readable, and was not deleted before it began.
Shown(r) ==
  /\ \A d \in seen[r] : docs[d] # NoDoc /\ Readable(r, d) /\ d \notin barred[r]
  /\ \A d \in barred[r] : docs[d] # NoDoc /\ docs[d].status = "deleted"
  /\ pc[r] = "opened" /\ Single(r) /\ done[r] # 0 => call[r].doc \in seen[r]

RInv(r) == Started(r) /\ Placed(r) /\ Uploading(r) /\ Deleting(r) /\ Shown(r)

Distinct == \A r, s \in Requests :
  r # s /\ Is(r, "upload") /\ Is(s, "upload") => call[r].doc # call[s].doc

IInv == TypeOK /\ DocumentsAreWhole /\ Distinct /\ \A r \in Requests : RInv(r)

-----------------------------------------------------------------------------
(* Types.                                                                    *)

\* A published or withdrawn row is a document, and so not the absent one.
LEMMA StoredTypes == Stored \subseteq Document \cup {NoDoc} /\ Published \subseteq Document
BY DEF Stored, Published, Withdrawn, Document

\* Withdrawing changes the status alone, once.
LEMMA WithdrawnRow ==
  ASSUME NEW row \in Document
  PROVE  /\ Withdrawn(row) \in Document
         /\ Withdrawn(row).status = "deleted"
         /\ Withdrawn(row).owner = row.owner
         /\ Withdrawn(row).visibility = row.visibility
         /\ Withdrawn(Withdrawn(row)) = Withdrawn(row)
BY DEF Withdrawn, Document

\* The fields of a call.
LEMMA CallFields ==
  ASSUME NEW c \in Calls
  PROVE  /\ c.op \in {"upload", "delete"} \cup Reads /\ c.user \in Users /\ c.doc \in Docs
         /\ c.visibility \in {"private", "public"} /\ c.size \in 0..MaxChunks
BY DEF Calls

LEMMA InitType == Init => TypeOK
<1> SUFFICES ASSUME Init PROVE TypeOK
  OBVIOUS
<1>1. docs \in [Docs -> Document \cup {NoDoc}]
  BY StoredTypes DEF Init, LifeInit
<1> QED
  BY <1>1 DEF Init, TypeOK, PC, Status

\* Each action of a request keeps the types: a row it writes is a document.
LEMMA RequestType ==
  ASSUME TypeOK, NEW r \in Requests, RInv(r), Send(r) \/ Handle(r) \/ StatementFails(r)
  PROVE  TypeOK'
<1>c. pc[r] # "idle" => call[r] \in Calls
  BY DEF RInv, Started
<1>1. CASE Send(r)
  BY <1>1, CallsAssumption DEF Send, Goto, TypeOK, PC
<1>2. CASE Refuse(r) \/ Find(r) \/ NotFound(r) \/ Answer(r) \/ Respond(r) \/ StatementFails(r)
  BY <1>2 DEF Refuse, Find, NotFound, Answer, Respond, StatementFails, Decide, Goto, Unread,
     TypeOK, PC, Status
<1>3. CASE Register(r)
  <2>1. [status |-> "processing", owner |-> call[r].user, visibility |-> call[r].visibility,
         chunks |-> 0, chunk_count |-> 0] \in Document
    BY <1>3, <1>c, CallFields, ChunksAssumption DEF Register, Document
  <2> QED
    BY <1>3, <2>1 DEF Register, Write, Goto, Unread, TypeOK, PC
<1>4. CASE StoreChunks(r)
  <2>1. pend[r] \in Document /\ call[r].size \in 0..MaxChunks
    BY <1>4, <1>c, CallFields DEF StoreChunks, RInv, Placed, TypeOK
  <2>2. [pend[r] EXCEPT !.chunks = call[r].size] \in Document
    BY <2>1 DEF Document
  <2> QED
    BY <1>4, <2>2 DEF StoreChunks, Write, Goto, Unread, TypeOK, PC
<1>5. CASE MarkReady(r)
  <2>1. pend[r] \in Document
    BY <1>5 DEF MarkReady, RInv, Placed, TypeOK
  <2>2. [pend[r] EXCEPT !.status = "ready"] \in Document
    BY <2>1 DEF Document
  <2> QED
    BY <1>5, <2>2 DEF MarkReady, Write, Goto, Unread, TypeOK, PC
<1>6. CASE StoreMeta(r)
  <2>1. pend[r] \in Document /\ call[r].size \in 0..MaxChunks
    BY <1>6, <1>c, CallFields DEF StoreMeta, RInv, Placed, TypeOK
  <2>2. [pend[r] EXCEPT !.chunk_count = call[r].size] \in Document
    BY <2>1 DEF Document
  <2> QED
    BY <1>6, <2>2 DEF StoreMeta, Write, Goto, Unread, TypeOK, PC
<1>7. CASE UploadFails(r)
  <2>1. pend[r] \in Document
    BY <1>7 DEF UploadFails, Ingesting, RInv, Placed, TypeOK
  <2>2. [pend[r] EXCEPT !.status = "failed"] \in Document
    BY <2>1 DEF Document
  <2> QED
    BY <1>7, <2>2 DEF UploadFails, Write, Decide, Goto, Unread, TypeOK, PC, Status
<1>8. CASE SoftDelete(r)
  <2>1. Row(r) \in Document
    BY <1>8, <1>c, CallFields DEF SoftDelete, RInv, Placed, Deleting, Is, Row, TypeOK
  <2> QED
    BY <1>8, <2>1, WithdrawnRow DEF SoftDelete, Write, Goto, Unread, TypeOK, PC
<1>9. CASE Read(r)
  <2>1. \A S \in Shows(r) : S \subseteq Docs
    BY <1>9, <1>c, CallFields DEF Read, Reading, Shows, Accessible, Retrievable
  <2>2. done[r] + 1 \in 0..3
    BY <1>9, <1>c, CallFields DEF Read, Reading, Statements, Reads, TypeOK
  <2> QED
    BY <1>9, <2>1, <2>2 DEF Read, TypeOK
<1>10. CASE Commit(r)
  <2>1. pend[r] # NoRow => call[r].doc \in Docs /\ pend[r] \in Document
    BY <1>10, <1>c, CallFields DEF Commit, TypeOK
  <2>2. docs' \in [Docs -> Document \cup {NoDoc}]
    BY <1>10, <2>1 DEF Commit, TypeOK
  <2> QED
    BY <1>10, <2>2 DEF Commit, Close, Write, Goto, TypeOK, PC
<1>11. CASE CommitFails(r) \/ Rollback(r)
  BY <1>11 DEF CommitFails, Rollback, Close, Write, Goto, TypeOK, PC
<1> QED
  BY <1>1, <1>2, <1>3, <1>4, <1>5, <1>6, <1>7, <1>8, <1>9, <1>10, <1>11
     DEF Handle, Upload, Delete, Query

LEMMA CrashType == TypeOK /\ Crash => TypeOK'
BY DEF Crash, Unread, TypeOK, PC, Status

-----------------------------------------------------------------------------
(* What the steps of others leave alone.                                     *)

\* Nothing of request s has changed.
Same(s) == /\ call'[s] = call[s] /\ pc'[s] = pc[s] /\ done'[s] = done[s]
           /\ pend'[s] = pend[s] /\ outcome'[s] = outcome[s]
           /\ seen'[s] = seen[s] /\ barred'[s] = barred[s]

\* A row is left alone, appears whole, or is withdrawn.
Moved(d) == \/ docs'[d] = docs[d]
            \/ docs[d] = NoDoc /\ docs'[d] \in Published
            \/ docs[d] # NoDoc /\ docs'[d] = Withdrawn(docs[d])

LEMMA OthersKept ==
  ASSUME TypeOK, NEW r \in Requests, Send(r) \/ Handle(r) \/ StatementFails(r),
         NEW s \in Requests \ {r}
  PROVE  Same(s)
<1>1. CASE Send(r)
  BY <1>1 DEF Send, Goto, Same, TypeOK
<1>2. CASE Upload(r)
  BY <1>2 DEF Upload, Refuse, Register, StoreChunks, MarkReady, StoreMeta, UploadFails, Write,
     Decide, Goto, Unread, Same, TypeOK
<1>3. CASE Delete(r) \/ Respond(r) \/ Query(r) \/ StatementFails(r)
  BY <1>3 DEF Delete, Find, SoftDelete, Respond, Query, NotFound, Read, Answer, StatementFails,
     Write, Decide, Goto, Unread, Same, TypeOK
<1>4. CASE Commit(r) \/ CommitFails(r) \/ Rollback(r)
  BY <1>4 DEF Commit, CommitFails, Rollback, Close, Write, Goto, Same, TypeOK
<1> QED
  BY <1>1, <1>2, <1>3, <1>4 DEF Handle

\* Only a commit writes to the table.
LEMMA OnlyCommitWrites ==
  ASSUME NEW r \in Requests, Send(r) \/ Handle(r) \/ StatementFails(r), ~Commit(r)
  PROVE  docs' = docs
BY DEF Handle, Upload, Refuse, Register, StoreChunks, MarkReady, StoreMeta, UploadFails, Send,
   Delete, Find, SoftDelete, Respond, Query, NotFound, Read, Answer, StatementFails,
   CommitFails, Rollback, Unread

\* A withdrawn or published row keeps what reads and deletes rely on.
LEMMA MovedRow ==
  ASSUME TypeOK, NEW d \in Docs, docs[d] # NoDoc, Moved(d)
  PROVE  /\ docs'[d] # NoDoc
         /\ docs'[d].owner = docs[d].owner
         /\ docs'[d].visibility = docs[d].visibility
         /\ docs[d].status = "deleted" => docs'[d].status = "deleted"
         /\ Withdrawn(docs'[d]) = Withdrawn(docs[d])
BY WithdrawnRow, NoDocAssumption DEF Moved, TypeOK

\* A request keeps its invariant while others move rows, but not the one it uploads.
LEMMA Frame ==
  ASSUME TypeOK, NEW s \in Requests, RInv(s), Same(s), \A d \in Docs : Moved(d),
         Is(s, "upload") /\ ~Ended(s) => docs'[call[s].doc] = docs[call[s].doc]
  PROVE  RInv(s)'
<1>c. pc[s] # "idle" => call[s] \in Calls /\ call[s].doc \in Docs
  BY CallFields DEF RInv, Started
<1>1. Started(s)' /\ Placed(s)'
  BY DEF RInv, Started, Placed, Is, Same
<1>2. Uploading(s)'
  BY DEF RInv, Uploading, Is, Ended, Row, Same
<1>3. Deleting(s)'
  <2> SUFFICES ASSUME Is(s, "delete"), pc[s] = "found" \/ pend[s] # NoRow
      PROVE  Deleting(s)'
    BY DEF Deleting, Is, Same
  <2>1. /\ Row(s) # NoDoc /\ Entitled(s, call[s].doc)
        /\ pend[s] # NoRow => pend[s] = Withdrawn(Row(s))
    BY DEF RInv, Deleting
  <2>2. call[s].doc \in Docs
    BY <1>c DEF Is
  <2>3. /\ Row(s)' # NoDoc
        /\ docs'[call[s].doc].owner = docs[call[s].doc].owner
        /\ Withdrawn(docs'[call[s].doc]) = Withdrawn(docs[call[s].doc])
    BY <2>1, <2>2, MovedRow DEF Row, Same
  <2> QED
    BY <2>1, <2>3 DEF Deleting, Entitled, Owns, Row, Same
<1>4. Shown(s)'
  <2>1. seen[s] \subseteq Docs /\ barred[s] \subseteq Docs
    BY DEF TypeOK
  <2>2. \A d \in seen[s] : docs'[d] # NoDoc /\ Readable(s, d)' /\ d \notin barred[s]
    BY <2>1, MovedRow DEF RInv, Shown, Readable, Owns, Same
  <2>3. \A d \in barred[s] : docs'[d] # NoDoc /\ docs'[d].status = "deleted"
    BY <2>1, MovedRow DEF RInv, Shown
  <2> QED
    BY <2>2, <2>3 DEF RInv, Shown, Single, Same
<1> QED
  BY <1>1, <1>2, <1>3, <1>4 DEF RInv

-----------------------------------------------------------------------------
(* What a request does to itself.                                            *)

LEMMA SendOwn == ASSUME IInv, NEW r \in Requests, Send(r) PROVE RInv(r)'
<1>1. /\ pc[r] = "idle" /\ pc'[r] = "opened" /\ call'[r] \in Calls
      /\ pend'[r] = NoRow /\ seen'[r] = {} /\ done'[r] = 0 /\ docs' = docs
      /\ barred'[r] = {d \in Docs : docs[d] # NoDoc /\ docs[d].status = "deleted"}
      /\ call'[r].op = "upload" => docs[call'[r].doc] = NoDoc
  BY CallsAssumption DEF Send, Goto, Fresh, IInv, RInv, Started, TypeOK
<1> QED
  BY <1>1 DEF RInv, Started, Placed, Uploading, Deleting, Shown, Is, Ended, Row, Published

\* Steps that end the work of a handler or refuse it keep its row and its answer.
LEMMA RefuseOwn ==
  ASSUME IInv, NEW r \in Requests, Refuse(r) \/ NotFound(r) \/ Answer(r) \/ StatementFails(r)
  PROVE  RInv(r)'
<1>1. /\ pc[r] # "idle" /\ pc'[r] \in {"unwind", "finish"}
      /\ pc[r] \in {"opened", "found", "stored"}
      /\ pc'[r] = "finish" => outcome'[r] = "ok" /\ pend[r] = NoRow /\ call[r].op \in Reads
      /\ pend' = pend
      /\ docs' = docs /\ call' = call /\ done' = done /\ seen' = seen /\ barred' = barred
  BY DEF Refuse, NotFound, Reading, Answer, StatementFails, Goto, Decide, Unread, IInv, RInv,
     Placed, TypeOK
<1> QED
  BY <1>1 DEF IInv, RInv, Started, Placed, Uploading, Deleting, Shown, Is, Ended, Row, Readable,
     Owns, Entitled, Reads, Single

LEMMA RespondOwn == ASSUME IInv, NEW r \in Requests, Respond(r) PROVE RInv(r)'
<1>1. /\ pc[r] = "stored" /\ pc'[r] = "finish" /\ outcome'[r] = "ok" /\ pend' = pend
      /\ docs' = docs /\ call' = call /\ done' = done /\ seen' = seen /\ barred' = barred
  BY DEF Respond, Goto, Decide, Unread, IInv, TypeOK
<1> QED
  BY <1>1 DEF IInv, RInv, Started, Placed, Uploading, Deleting, Shown, Is, Ended, Row, Readable,
     Owns, Entitled, Single

LEMMA RegisterOwn == ASSUME IInv, NEW r \in Requests, Register(r) PROVE RInv(r)'
<1> DEFINE row == [status |-> "processing", owner |-> call[r].user,
                   visibility |-> call[r].visibility, chunks |-> 0, chunk_count |-> 0]
<1>1. /\ pc[r] = "opened" /\ call[r].op = "upload" /\ pc'[r] = "processing"
      /\ pend'[r] = row
      /\ docs' = docs /\ call' = call /\ done' = done /\ seen' = seen /\ barred' = barred
  BY DEF Register, Write, Goto, Unread, IInv, TypeOK
<1>2. row \in Document
  BY <1>1, CallFields, ChunksAssumption DEF IInv, RInv, Started, Document
<1>3. row # NoRow
  BY <1>2, CallsAssumption
<1> HIDE DEF row
<1> QED
  BY <1>1, <1>3 DEF IInv, RInv, Started, Placed, Uploading, Deleting, Shown, Is, Ended, Row,
     Readable, Owns, Single

LEMMA StoreChunksOwn == ASSUME IInv, NEW r \in Requests, StoreChunks(r) PROVE RInv(r)'
<1>1. /\ pc[r] = "processing" /\ pc'[r] = "chunked" /\ call[r].size > 0
      /\ pend'[r] = [pend[r] EXCEPT !.chunks = call[r].size]
      /\ docs' = docs /\ call' = call /\ done' = done /\ seen' = seen /\ barred' = barred
  BY DEF StoreChunks, Write, Goto, Unread, IInv, TypeOK
<1>2. pend[r] \in Document /\ Is(r, "upload") /\ call[r] \in Calls
  BY <1>1 DEF IInv, RInv, Placed, Started, TypeOK
<1>3. pend'[r] \in Document /\ pend'[r].chunks = call[r].size
  BY <1>1, <1>2, CallFields DEF Document
<1>4. pend'[r] # NoRow
  BY <1>3, CallsAssumption
<1> QED
  BY <1>1, <1>2, <1>3, <1>4 DEF IInv, RInv, Started, Placed, Uploading, Deleting, Shown, Is,
     Ended, Row, Readable, Owns, Single

LEMMA MarkReadyOwn == ASSUME IInv, NEW r \in Requests, MarkReady(r) PROVE RInv(r)'
<1>1. /\ pc[r] = "chunked" /\ pc'[r] = "marked"
      /\ pend'[r] = [pend[r] EXCEPT !.status = "ready"]
      /\ docs' = docs /\ call' = call /\ done' = done /\ seen' = seen /\ barred' = barred
  BY DEF MarkReady, Write, Goto, Unread, IInv, TypeOK
<1>2. pend[r] \in Document /\ Is(r, "upload") /\ call[r] \in Calls
  BY <1>1 DEF IInv, RInv, Placed, Started, TypeOK
<1>3. pend'[r] \in Document /\ pend'[r].status = "ready" /\ pend'[r].chunks = pend[r].chunks
  BY <1>1, <1>2 DEF Document
<1>4. pend'[r] # NoRow
  BY <1>3, CallsAssumption
<1> QED
  BY <1>1, <1>2, <1>3, <1>4 DEF IInv, RInv, Started, Placed, Uploading, Deleting, Shown, Is,
     Ended, Row, Readable, Owns, Single

LEMMA StoreMetaOwn == ASSUME IInv, NEW r \in Requests, StoreMeta(r) PROVE RInv(r)'
<1>1. /\ pc[r] = "marked" /\ pc'[r] = "stored"
      /\ pend'[r] = [pend[r] EXCEPT !.chunk_count = call[r].size]
      /\ docs' = docs /\ call' = call /\ done' = done /\ seen' = seen /\ barred' = barred
  BY DEF StoreMeta, Write, Goto, Unread, IInv, TypeOK
<1>2. pend[r] \in Document /\ Is(r, "upload") /\ call[r] \in Calls
  BY <1>1 DEF IInv, RInv, Placed, Started, TypeOK
<1>3. pend[r].status = "ready" /\ pend[r].chunks = call[r].size /\ call[r].size > 0
  BY <1>1, <1>2 DEF IInv, RInv, Uploading, Ended
<1>4. pend'[r] \in Published
  BY <1>1, <1>2, <1>3, CallFields DEF Document, Published, Whole
<1>5. pend'[r] # NoRow
  BY <1>4, StoredTypes, CallsAssumption
<1> QED
  BY <1>1, <1>2, <1>4, <1>5 DEF IInv, RInv, Started, Placed, Uploading, Deleting, Shown, Is,
     Ended, Row, Readable, Owns, Single

LEMMA UploadFailsOwn == ASSUME IInv, NEW r \in Requests, UploadFails(r) PROVE RInv(r)'
<1>1. /\ pc[r] \in {"processing", "chunked", "marked", "stored"} /\ pc'[r] = "unwind"
      /\ call[r].op = "upload"
      /\ pend'[r] = pend[r] \/ pend'[r] = [pend[r] EXCEPT !.status = "failed"]
      /\ docs' = docs /\ call' = call /\ done' = done /\ seen' = seen /\ barred' = barred
  BY DEF UploadFails, Ingesting, Write, Goto, Unread, IInv, TypeOK
<1>2. pend[r] \in Document /\ Is(r, "upload") /\ call[r] \in Calls
  BY <1>1 DEF IInv, RInv, Placed, Started, Is, TypeOK
<1> QED
  BY <1>1, <1>2 DEF IInv, RInv, Started, Placed, Uploading, Deleting, Shown, Is,
     Ended, Row, Readable, Owns, Single

LEMMA FindOwn == ASSUME IInv, NEW r \in Requests, Find(r) PROVE RInv(r)'
<1>1. /\ pc[r] = "opened" /\ call[r].op = "delete" /\ pend' = pend
      /\ \/ pc'[r] = "unwind"
         \/ pc'[r] = "found" /\ Row(r) # NoDoc /\ Entitled(r, call[r].doc)
      /\ docs' = docs /\ call' = call /\ done' = done /\ seen' = seen /\ barred' = barred
  BY DEF Find, MayDelete, Goto, Decide, Unread, Entitled, IInv, TypeOK
<1> QED
  BY <1>1 DEF IInv, RInv, Started, Placed, Uploading, Deleting, Shown, Is, Ended, Row, Readable,
     Owns, Entitled, Single

LEMMA SoftDeleteOwn == ASSUME IInv, NEW r \in Requests, SoftDelete(r) PROVE RInv(r)'
<1>1. /\ pc[r] = "found" /\ pc'[r] = "stored" /\ pend'[r] = Withdrawn(Row(r))
      /\ docs' = docs /\ call' = call /\ done' = done /\ seen' = seen /\ barred' = barred
  BY DEF SoftDelete, Write, Goto, Unread, IInv, TypeOK
<1>2. Is(r, "delete") /\ Row(r) # NoDoc /\ Entitled(r, call[r].doc) /\ call[r] \in Calls
  BY <1>1 DEF IInv, RInv, Started, Placed, Deleting
<1>3. Row(r) \in Document
  BY <1>2, CallFields DEF Row, IInv, TypeOK
<1>4. pend'[r] # NoRow
  BY <1>1, <1>3, WithdrawnRow, CallsAssumption
<1> QED
  BY <1>1, <1>2, <1>4 DEF IInv, RInv, Started, Placed, Uploading, Deleting, Shown, Is, Ended, Row,
     Readable, Owns, Entitled, Single

LEMMA ReadOwn == ASSUME IInv, NEW r \in Requests, Read(r) PROVE RInv(r)'
<1>1. PICK S \in Shows(r) : seen'[r] = seen[r] \cup S
  BY DEF Read, IInv, TypeOK
<1>2. /\ pc[r] = "opened" /\ call[r].op \in Reads
      /\ Single(r) /\ done[r] = 0 => call[r].doc \in Accessible(r)
      /\ docs' = docs /\ call' = call /\ pc' = pc /\ pend' = pend /\ outcome' = outcome
      /\ barred' = barred
  BY DEF Read, Reading
<1>3. Shown(r)
  BY DEF IInv, RInv
<1>4. \A d \in Accessible(r) \cup Retrievable(r) :
         docs[d] # NoDoc /\ Readable(r, d) /\ d \notin barred[r]
  BY <1>3 DEF Accessible, Live, Retrievable, Shown
<1>5. S \subseteq seen[r] \cup Accessible(r) \cup Retrievable(r)
  BY <1>2, <1>3 DEF Shows, Shown
<1>6. Single(r) => call[r].doc \in seen'[r]
  BY <1>1 DEF Shows
<1>7. Shown(r)'
  BY <1>1, <1>2, <1>3, <1>4, <1>5, <1>6 DEF Shown, Readable, Owns, Single
<1> QED
  BY <1>2, <1>7 DEF IInv, RInv, Started, Placed, Uploading, Deleting, Is, Ended, Row, Reads,
     Entitled, Owns

\* A commit moves the row of its request by a legal step, and no row of an open upload.
LEMMA CommitMoves ==
  ASSUME IInv, NEW r \in Requests, Commit(r)
  PROVE  /\ \A d \in Docs : Moved(d)
         /\ \A s \in Requests \ {r} : Is(s, "upload") /\ ~Ended(s)
                                       => docs'[call[s].doc] = docs[call[s].doc]
<1>1. CASE pend[r] = NoRow
  BY <1>1 DEF Commit, Moved
<1>2. CASE pend[r] # NoRow
  <2>1. /\ pc[r] = "finish" /\ call[r] \in Calls /\ call[r].doc \in Docs
        /\ docs' = [docs EXCEPT ![call[r].doc] = pend[r]]
        /\ Is(r, "upload") \/ Is(r, "delete")
    BY <1>2, CallFields DEF Commit, IInv, RInv, Started, Placed
  <2>2. CASE Is(r, "upload")
    <3>1. Row(r) = NoDoc /\ pend[r] \in Published
      BY <2>1, <2>2 DEF IInv, RInv, Uploading, Ended
    <3>2. \A d \in Docs : Moved(d)
      BY <2>1, <3>1 DEF Moved, Row, IInv, TypeOK
    <3>3. \A s \in Requests \ {r} : Is(s, "upload") => call[s].doc # call[r].doc
      BY <2>2 DEF IInv, Distinct
    <3>4. \A d \in Docs : d # call[r].doc => docs'[d] = docs[d]
      BY <2>1 DEF IInv, TypeOK
    <3>5. \A s \in Requests : Is(s, "upload") => call[s].doc \in Docs
      BY CallFields DEF IInv, RInv, Started, Is
    <3> QED
      BY <3>2, <3>3, <3>4, <3>5
  <2>3. CASE Is(r, "delete")
    <3>1. Row(r) # NoDoc /\ pend[r] = Withdrawn(Row(r))
      BY <1>2, <2>3 DEF IInv, RInv, Deleting
    <3>2. \A d \in Docs : Moved(d)
      BY <2>1, <3>1 DEF Moved, Row, IInv, TypeOK
    <3>3. \A s \in Requests : Is(s, "upload") /\ ~Ended(s) => call[s].doc # call[r].doc
      BY <3>1 DEF IInv, RInv, Uploading, Row
    <3>4. \A d \in Docs : d # call[r].doc => docs'[d] = docs[d]
      BY <2>1 DEF IInv, TypeOK
    <3>5. \A s \in Requests : Is(s, "upload") => call[s].doc \in Docs
      BY CallFields DEF IInv, RInv, Started, Is
    <3> QED
      BY <3>2, <3>3, <3>4, <3>5
  <2> QED
    BY <2>1, <2>2, <2>3
<1> QED
  BY <1>1, <1>2

\* A closed transaction leaves only what its request has shown.
LEMMA CloseOwn ==
  ASSUME IInv, NEW r \in Requests, Close(r), pc[r] # "idle", \A d \in Docs : Moved(d)
  PROVE  RInv(r)'
<1>1. /\ pc'[r] = "closed" /\ pend'[r] = NoRow
      /\ call' = call /\ done' = done /\ seen' = seen /\ barred' = barred
  BY DEF Close, Write, Goto, IInv, TypeOK
<1>2. seen[r] \subseteq Docs /\ barred[r] \subseteq Docs /\ Shown(r) /\ TypeOK
  BY DEF IInv, TypeOK, RInv
<1>3. \A d \in seen[r] : docs'[d] # NoDoc /\ Readable(r, d)' /\ d \notin barred[r]
  BY <1>1, <1>2, MovedRow DEF Shown, Readable, Owns
<1>4. \A d \in barred[r] : docs'[d] # NoDoc /\ docs'[d].status = "deleted"
  BY <1>2, MovedRow DEF Shown
<1>5. Shown(r)'
  BY <1>1, <1>3, <1>4 DEF Shown
<1> QED
  BY <1>1, <1>5 DEF IInv, RInv, Started, Placed, Uploading, Deleting, Is, Ended

\* Whatever step a request takes, its own invariant holds afterwards.
LEMMA OwnKept ==
  ASSUME IInv, NEW r \in Requests, Send(r) \/ Handle(r) \/ StatementFails(r)
  PROVE  RInv(r)'
<1>1. ASSUME Commit(r) PROVE RInv(r)'
  BY <1>1, CommitMoves, CloseOwn DEF Commit
<1>2. ASSUME CommitFails(r) \/ Rollback(r) PROVE RInv(r)'
  BY <1>2, CloseOwn DEF CommitFails, Rollback, Moved
<1> QED
  BY <1>1, <1>2, SendOwn, RefuseOwn, RespondOwn, RegisterOwn, StoreChunksOwn, MarkReadyOwn,
     StoreMetaOwn, UploadFailsOwn, FindOwn, SoftDeleteOwn, ReadOwn
     DEF Handle, Upload, Delete, Query

-----------------------------------------------------------------------------
(* The inductive invariant.                                                  *)

\* Every row a step leaves was there, appears whole, or is withdrawn.
LEMMA RowsMove ==
  ASSUME IInv, NEW r \in Requests, Send(r) \/ Handle(r) \/ StatementFails(r)
  PROVE  /\ \A d \in Docs : Moved(d)
         /\ \A s \in Requests \ {r} : Is(s, "upload") /\ ~Ended(s)
                                       => docs'[call[s].doc] = docs[call[s].doc]
<1>1. CASE Commit(r)
  BY <1>1, CommitMoves
<1>2. CASE ~Commit(r)
  BY <1>2, OnlyCommitWrites DEF Moved
<1> QED
  BY <1>1, <1>2

\* A moved row is stored whole if it was.
LEMMA MovedStored ==
  ASSUME DocumentsAreWhole, NEW d \in Docs, Moved(d)
  PROVE  docs'[d] \in Stored
<1>1. docs[d] \in Stored
  BY DEF DocumentsAreWhole
<1>2. CASE docs[d] # NoDoc /\ docs'[d] = Withdrawn(docs[d])
  <2>1. CASE docs[d] \in Published
    BY <1>2, <2>1 DEF Stored
  <2>2. ASSUME NEW row \in Published, docs[d] = Withdrawn(row)
        PROVE  docs'[d] \in Stored
    BY <1>2, <2>2, StoredTypes, WithdrawnRow DEF Stored
  <2> QED
    BY <1>1, <1>2, <2>1, <2>2 DEF Stored
<1> QED
  BY <1>1, <1>2 DEF Moved, Stored

\* Two uploads never use one identity: a new one takes an identity no upload has.
LEMMA DistinctKept ==
  ASSUME IInv, NEW r \in Requests, Send(r) \/ Handle(r) \/ StatementFails(r)
  PROVE  Distinct'
<1>1. \A s \in Requests \ {r} : Same(s)
  BY OthersKept DEF IInv
<1>2. CASE Send(r)
  <2>1. call'[r].op = "upload" =>
          \A s \in Requests \ {r} : Is(s, "upload") => call[s].doc # call'[r].doc
    BY <1>2, CallsAssumption DEF Send, Fresh, Is, IInv, TypeOK, RInv, Started
  <2> QED
    BY <1>1, <2>1 DEF Distinct, Is, Same, IInv
<1>3. CASE ~Send(r)
  <2>1. pc[r] # "idle" /\ call'[r] = call[r]
    BY <1>3 DEF Handle, Upload, Refuse, Register, StoreChunks, MarkReady, StoreMeta, UploadFails,
       Ingesting, Delete, Find, SoftDelete, Respond, Query, NotFound, Reading, Read, Answer,
       StatementFails, Commit, CommitFails, Rollback, Close, Unread
  <2> QED
    BY <1>1, <2>1 DEF Distinct, Is, Same, IInv
<1> QED
  BY <1>2, <1>3

LEMMA RequestInv ==
  ASSUME IInv, NEW r \in Requests, Send(r) \/ Handle(r) \/ StatementFails(r)
  PROVE  IInv'
<1>1. TypeOK'
  BY RequestType DEF IInv
<1>2. DocumentsAreWhole'
  BY RowsMove, MovedStored DEF IInv, DocumentsAreWhole
<1>3. ASSUME NEW s \in Requests \ {r} PROVE RInv(s)'
  <2>1. Same(s) /\ TypeOK /\ RInv(s)
    BY OthersKept DEF IInv
  <2> QED
    BY <2>1, RowsMove, Frame
<1> QED
  BY <1>1, <1>2, <1>3, DistinctKept, OwnKept DEF IInv

\* A crash ends the open requests and takes back what they have written.
LEMMA CrashInv == IInv /\ Crash => IInv'
<1> SUFFICES ASSUME IInv, Crash PROVE IInv'
  OBVIOUS
<1>1. TypeOK'
  BY CrashType DEF IInv
<1>2. /\ docs' = docs /\ call' = call /\ done' = done /\ seen' = seen /\ barred' = barred
      /\ \A r \in Requests : /\ pend'[r] = NoRow
                             /\ IF pc[r] \in {"idle", "closed", "lost"}
                                THEN pc'[r] = pc[r] ELSE pc'[r] = "lost"
  BY DEF Crash, Unread
<1>3. DocumentsAreWhole' /\ Distinct'
  BY <1>2 DEF IInv, DocumentsAreWhole, Distinct, Is
<1>4. ASSUME NEW r \in Requests PROVE RInv(r)'
  BY <1>2 DEF IInv, RInv, Started, Placed, Uploading, Deleting, Shown, Is, Ended, Row, Readable,
     Owns, Single
<1> QED
  BY <1>1, <1>3, <1>4 DEF IInv

LEMMA InitInv == Init => IInv
<1> SUFFICES ASSUME Init PROVE IInv
  OBVIOUS
<1>1. ASSUME NEW r \in Requests PROVE RInv(r)
  BY DEF Init, RInv, Started, Placed, Uploading, Deleting, Shown, Is
<1>2. DocumentsAreWhole /\ Distinct
  BY DEF Init, LifeInit, DocumentsAreWhole, Distinct, Is
<1> QED
  BY <1>1, <1>2, InitType DEF IInv

LEMMA StepInv == IInv /\ [Next]_vars => IInv'
<1> SUFFICES ASSUME IInv, [Next]_vars PROVE IInv'
  OBVIOUS
<1>1. CASE UNCHANGED vars
  BY <1>1 DEF vars, IInv, TypeOK, DocumentsAreWhole, Distinct, RInv, Started, Placed, Uploading,
     Deleting, Shown, Is, Ended, Row, Readable, Owns, Entitled, Single
<1> QED
  BY <1>1, RequestInv, CrashInv DEF Next

LEMMA Inductive == Spec => []IInv
BY InitInv, StepInv, PTL DEF Spec

-----------------------------------------------------------------------------
(* Theorems.                                                                 *)

\* The variables keep their types: what every definition of the module relies on.
THEOREM TypeCorrect == Spec => []TypeOK
<1>1. IInv => TypeOK
  BY DEF IInv
<1> QED
  BY <1>1, Inductive, PTL

\* Neither a failed upload, nor a crash, nor a delete racing another leaves a part
\* of a document in the table.
THEOREM WholeDocuments == Spec => []DocumentsAreWhole
<1>1. IInv => DocumentsAreWhole
  BY DEF IInv
<1> QED
  BY <1>1, Inductive, PTL

\* No read and no retrieval shows a user a document of another that is not public.
THEOREM ReadableAnswers == Spec => []AnswersAreReadable
<1>1. IInv => AnswersAreReadable
  BY DEF IInv, RInv, Shown, AnswersAreReadable
<1> QED
  BY <1>1, Inductive, PTL

\* A document deleted before a request arrived is in no part of its answer.
THEOREM DeletedHidden == Spec => []DeletedStaysHidden
<1>1. IInv => DeletedStaysHidden
  BY DEF IInv, RInv, Shown, DeletedStaysHidden
<1> QED
  BY <1>1, Inductive, PTL

\* A committed row changes only when the delete of its owner or of an admin commits.
LEMMA ChangeIsDelete ==
  ASSUME IInv, [Next]_vars, NEW d \in Docs, docs[d] # NoDoc, docs'[d] # docs[d]
  PROVE  \E r \in Requests : /\ call[r] # NoCall /\ call[r].op = "delete" /\ call[r].doc = d
                             /\ outcome[r] = "ok"
                             /\ Owns(r, d) \/ call[r].user \in Admins
<1>1. PICK r \in Requests : Commit(r)
  BY OnlyCommitWrites DEF Next, Crash, Unread, vars
<1>2. pend[r] # NoRow /\ call[r].doc = d /\ pc[r] = "finish"
  BY <1>1 DEF Commit, IInv, TypeOK
<1>3. call[r] \in Calls /\ outcome[r] = "ok"
  BY <1>2 DEF IInv, RInv, Started, Placed
<1>4. ~Is(r, "upload")
  BY <1>2 DEF IInv, RInv, Uploading, Ended, Row
<1>5. Is(r, "delete")
  BY <1>2, <1>4 DEF IInv, RInv, Placed
<1>6. Entitled(r, d)
  BY <1>2, <1>5 DEF IInv, RInv, Deleting
<1> QED
  BY <1>2, <1>3, <1>5, <1>6, CallsAssumption DEF Is, Entitled

\* A published document changes only by a delete its user is entitled to.
THEOREM EntitledDeletes == Spec => OnlyEntitledDelete
<1>1. IInv /\ [Next]_vars =>
        [\A d \in Docs : (docs[d] # NoDoc /\ docs'[d] # docs[d]) =>
            \E r \in Requests : /\ call[r] # NoCall /\ call[r].op = "delete" /\ call[r].doc = d /\ outcome[r] = "ok"
                                /\ Owns(r, d) \/ call[r].user \in Admins]_vars
  BY ChangeIsDelete
<1> QED
  BY <1>1, Inductive, PTL DEF Spec, OnlyEntitledDelete

\* Every step publishes one document, withdraws one, or leaves the table alone.
LEMMA StepRefines == IInv /\ [Next]_vars => [LifeNext]_docs
<1> SUFFICES ASSUME IInv, [Next]_vars, docs' # docs PROVE LifeNext
  OBVIOUS
<1>1. PICK r \in Requests : Commit(r)
  BY OnlyCommitWrites DEF Next, Crash, Unread, vars
<1> DEFINE d == call[r].doc
<1>2. pend[r] # NoRow /\ pc[r] = "finish" /\ docs' = [docs EXCEPT ![d] = pend[r]]
  BY <1>1 DEF Commit
<1>3. d \in Docs
  BY <1>2, CallFields DEF IInv, RInv, Started
<1>4. CASE Is(r, "upload")
  <2>1. docs[d] = NoDoc /\ pend[r] \in Published
    BY <1>2, <1>4 DEF IInv, RInv, Uploading, Ended, Row
  <2> QED
    BY <1>2, <1>3, <2>1 DEF LifeNext, Publish
<1>5. CASE Is(r, "delete")
  <2>1. docs[d] # NoDoc /\ pend[r] = Withdrawn(docs[d])
    BY <1>2, <1>5 DEF IInv, RInv, Deleting, Row
  <2>2. docs' = [docs EXCEPT ![d] = Withdrawn(@)]
    BY <1>2, <2>1
  <2>3. docs[d] \in Published
    <3>1. docs[d] \in Stored
      BY <1>3 DEF IInv, DocumentsAreWhole
    <3>2. ASSUME NEW row \in Published, docs[d] = Withdrawn(row) PROVE FALSE
      <4>1. pend[r] = docs[d]
        BY <2>1, <3>2, StoredTypes, WithdrawnRow
      <4> QED
        BY <1>2, <1>3, <4>1 DEF IInv, TypeOK
    <3> QED
      BY <2>1, <3>1, <3>2 DEF Stored
  <2> QED
    BY <1>3, <2>2, <2>3 DEF LifeNext, Withdraw
<1> QED
  BY <1>2, <1>4, <1>5 DEF IInv, RInv, Placed

\* Whatever interleaves, fails or crashes, readers see documents appear whole and
\* go for good.
THEOREM LifeRefined == Spec => LifeSpec
<1>1. Init => LifeInit
  BY DEF Init
<1> QED
  BY <1>1, StepRefines, Inductive, PTL DEF Spec, LifeSpec
=============================================================================
