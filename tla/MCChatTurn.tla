----------------------------- MODULE MCChatTurn ------------------------------
(* Values of the constants of ChatTurn for the model checker.                *)
EXTENDS ChatTurn

\* Every mode, plain and streamed, and the two calls that are refused.
AllCalls == Calls
=============================================================================
