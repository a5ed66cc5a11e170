----------------------------- MODULE MCDocuments ------------------------------
(* The store of the documents and the chunkers for TLC, in one run. StoreChunks *)
(* knows of the chunkers only how many chunks they make: a behaviour runs the   *)
(* one named by which, and the other stands at one of its initial states.      *)
EXTENDS MCDocumentStore, RecursiveChunker, MCTextChunker

VARIABLE which

SomeConfig == CHOOSE c \in Configs : TRUE

ChunkersRest == text = <<>> /\ config = SomeConfig /\ strategy = "fixed" /\ ChunkersInit

DocumentsInit == \/ which = "store" /\ Init /\ ChunkersRest
                 \/ which = "chunkers" /\ ChunkersInit /\ Init

DocumentsNext == \/ which = "store" /\ Next /\ UNCHANGED <<chunkersVars, which>>
                 \/ which = "chunkers" /\ ChunkersNext /\ UNCHANGED <<vars, which>>

DocumentsSpec == DocumentsInit /\ [][DocumentsNext]_<<vars, chunkersVars, which>> /\ Fairness
=============================================================================
