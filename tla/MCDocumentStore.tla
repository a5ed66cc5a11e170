--------------------------- MODULE MCDocumentStore ---------------------------
(* Values of the constants of DocumentStore for the model checker.           *)
EXTENDS DocumentStore, TLC

CONSTANTS alice, bob, admin

\* alice uploads; everybody tries to delete and to read.
MCCalls == {c \in Calls :
              /\ c.op = "upload" => c.user = alice
              /\ c.op \in {"upload", "delete"} \/ c.user = bob
              /\ c.op # "upload" => c.visibility = "private" /\ c.size = 0}
=============================================================================
