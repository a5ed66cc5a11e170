----------------------------- MODULE TextChunker -----------------------------
(***************************************************************************)
(* TextChunker.chunk: a document's text is cut into overlapping chunks, each *)
(* ending after a newline or a space when one is near. Positions count from  *)
(* 0 as in the code. A chunk is known by the positions it is cut between;    *)
(* stripping it only drops blanks.                                           *)
(***************************************************************************)
EXTENDS Integers, Sequences

CONSTANTS Texts,      \* the texts after text.strip()
          Configs,    \* the accepted [size, overlap] pairs
          Window      \* how far _find_break_point looks back: 100 characters

Kinds == {"word", "space", "newline"}

ASSUME WindowAssumption == Window \in Nat \ {0}

\* A stripped text is empty or begins and ends with a character that is no blank.
ASSUME TextsAssumption ==
  /\ Texts \subseteq Seq(Kinds)
  /\ \A t \in Texts : t # <<>> => t[1] = "word" /\ t[Len(t)] = "word"

\* __init__ raises for every other pair.
Valid(c) == /\ c.size \in Nat /\ c.size > 0
            /\ c.overlap \in Nat /\ c.overlap < c.size

ASSUME ConfigsAssumption == \A c \in Configs : Valid(c)

VARIABLES text, config, stage, start, chunks

fixedVars == <<text, config, stage, start, chunks>>

At(i) == text[i + 1]
Length == Len(text)
Interval(from, to) == [from |-> from, to |-> to]
HasWord(from, to) == \E i \in from..(to - 1) : i < Length /\ At(i) = "word"
Last(S) == CHOOSE i \in S : \A j \in S : j <= i

\* A slip of _find_break_point: it looks back to the start of the chunk.
ScanAll(end, kind) == {i \in start + 1 .. end - 1 : At(i) = kind}

\* Both scans of _find_break_point go from end - 1 down to search_start + 1.
Scan(end, kind) == {i \in (IF start > end - Window THEN start ELSE end - Window) + 1 .. end - 1 :
                      At(i) = kind}

BreakPoint(end) == IF Scan(end, "newline") # {} THEN Last(Scan(end, "newline")) + 1
                   ELSE IF Scan(end, "space") # {} THEN Last(Scan(end, "space")) + 1
                   ELSE end

CutEnd == LET end == start + config.size IN IF end < Length THEN BreakPoint(end) ELSE end

\* A slip of the step back: forward.
StepForward(end) == end + config.overlap

\* The next start, clamped at the beginning of the text.
StepBack(end) == IF end < config.overlap THEN 0 ELSE end - config.overlap

FixedTypeOK == /\ text \in Texts
               /\ config \in Configs
               /\ stage \in {"called", "cutting", "returned"}
               /\ start \in Nat
               /\ chunks \in Seq([from: Nat, to: Nat])

FixedInit == /\ text \in Texts
             /\ config \in Configs
             /\ stage = "called"
             /\ start = 0
             /\ chunks = <<>>

\* No text, no chunk; a text that fits is its only chunk.
ReturnShort == /\ stage = "called" /\ Length <= config.size
               /\ stage' = "returned"
               /\ chunks' = IF Length = 0 THEN <<>> ELSE <<Interval(0, Length)>>
               /\ UNCHANGED <<text, config, start>>

Begin == /\ stage = "called" /\ Length > config.size
         /\ stage' = "cutting"
         /\ UNCHANGED <<text, config, start, chunks>>

\* One iteration of the loop: cut, strip, keep what is not blank, step back.
Cut == /\ stage = "cutting"
       /\ chunks' = IF HasWord(start, CutEnd) THEN Append(chunks, Interval(start, CutEnd))
                                              ELSE chunks
       /\ start' = StepBack(CutEnd)
       /\ stage' = IF start' >= Length \/ (chunks' # <<>> /\ start' = CutEnd)
                   THEN "returned" ELSE "cutting"
       /\ UNCHANGED <<text, config>>

FixedNext == ReturnShort \/ Begin \/ Cut

FixedSpec == FixedInit /\ [][FixedNext]_fixedVars

\* chunk is plain synchronous code.
FixedFairSpec == FixedSpec /\ WF_fixedVars(FixedNext)

-----------------------------------------------------------------------------
(* Properties.                                                               *)

CoveredTo(n) == \A i \in 0..(n - 1) : At(i) = "word" =>
                  \E k \in 1..Len(chunks) : chunks[k].from <= i /\ i < chunks[k].to

\* No text is lost when chunks overlap: every character but blanks is in some chunk of
\* the result. Without overlap, which __init__ accepts, the check against endless loops
\* ends the first round: of a longer text the first chunk is all that is returned.
CoversText ==
  stage = "returned" => IF config.overlap > 0 \/ Length <= config.size
                        THEN CoveredTo(Length)
                        ELSE Len(chunks) = 1 /\ chunks[1].from = 0

\* A chunk is not longer than chunk_size and is not empty.
ChunksFit == \A k \in 1..Len(chunks) : /\ chunks[k].from < chunks[k].to
                                       /\ chunks[k].to - chunks[k].from <= config.size

\* Each cut moves on: the loop never returns to a place it has cut before, however
\* far back the break point and the overlap take it.
MovesOn == [][stage = "cutting" => start' > start]_fixedVars

\* chunking.py:104, "Prevent infinite loop": chunk returns for every text.
Returns == <>(stage = "returned")

\* A configuration whose chunks outlast the look back and the overlap together.
Roomy(c) == c.overlap < 2 + (IF c.size > Window THEN c.size - Window ELSE 0)
=============================================================================
