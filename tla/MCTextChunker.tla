---------------------------- MODULE MCTextChunker ----------------------------
(* Values of the constants of TextChunker for the model checker: a window of *)
(* 3 characters stands for the 100 of the code.                              *)
EXTENDS TextChunker

SeqsOf(S, n) == [1..n -> S]

\* Every text of up to 7 characters without blanks at its ends.
MCTexts == {<<>>, <<"word">>} \cup
           {<<"word">> \o t \o <<"word">> : t \in UNION {SeqsOf(Kinds, n) : n \in 0..5}}

AllConfigs == {c \in [size: 1..5, overlap: 0..4] : Valid(c)}

\* The configurations the loop makes progress with, like the default 800 and 100.
RoomyConfigs == {c \in AllConfigs : Roomy(c)}

\* The one that test_v1_phase4.py uses, chunk_size=50 and chunk_overlap=20.
TightConfig == {[size |-> 3, overlap |-> 2]}
=============================================================================
