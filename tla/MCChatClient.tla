---------------------------- MODULE MCChatClient -----------------------------
(* ChatClient for TLC.                                                        *)
EXTENDS ChatClient
=============================================================================
