----------------------------- MODULE DocumentLife ----------------------------
(***************************************************************************)
(* What the document table promises to every reader: a document appears      *)
(* whole and ready in one step, and the only thing that ever happens to it    *)
(* afterwards is that it is deleted, for good.                               *)
(***************************************************************************)
EXTENDS Naturals

CONSTANTS Docs,       \* document identities (uuid4)
          Users,
          MaxChunks,  \* how many chunks a text is cut into at most
          NoDoc       \* docs[d] while there is no committed row d

ASSUME ChunksAssumption == MaxChunks \in Nat

VARIABLE docs         \* docs[d]: the committed row of d, with its chunks

\* A row and the number of its chunks; chunk_count is what its metadata says (0: nothing yet).
Document == [status: {"processing", "ready", "failed", "deleted"}, owner: Users,
             visibility: {"private", "public"}, chunks: 0..MaxChunks, chunk_count: 0..MaxChunks]

ASSUME NoDocAssumption == NoDoc \notin Document

Whole(row) == row.chunks > 0 /\ row.chunk_count = row.chunks
Published == {row \in Document : row.status = "ready" /\ Whole(row)}
Withdrawn(row) == [row EXCEPT !.status = "deleted"]
Stored == {NoDoc} \cup Published \cup {Withdrawn(row) : row \in Published}

LifeInit == docs \in [Docs -> Stored]

Publish(d) == /\ docs[d] = NoDoc
              /\ \E row \in Published : docs' = [docs EXCEPT ![d] = row]

Withdraw(d) == /\ docs[d] \in Published
               /\ docs' = [docs EXCEPT ![d] = Withdrawn(@)]

LifeNext == \E d \in Docs : Publish(d) \/ Withdraw(d)

LifeSpec == LifeInit /\ [][LifeNext]_docs
=============================================================================
