-------------------------- MODULE RecursiveChunker ---------------------------
(***************************************************************************)
(* RecursiveTextChunker.chunk, which get_chunker gives instead of TextChunker *)
(* when the strategy is recursive: paragraphs are packed into chunks, those   *)
(* too long are split into lines that are packed, lines too long are cut.     *)
(***************************************************************************)
EXTENDS TextChunker

VARIABLES
  strategy,   \* rag_chunk_strategy
  level,      \* which loop the recursive chunker is in
  place,      \* how far in the text its loops are
  para, line, \* the paragraph and the line that are too long, while they are split
  result,     \* its chunks
  current     \* the chunk that is being packed

recursiveVars == <<level, place, para, line, result, current>>
chunkersVars == <<fixedVars, strategy, recursiveVars>>

Words(from, to) == {i \in from..(to - 1) : At(i) = "word"}
Size(piece) == piece.to - piece.from
First(S) == CHOOSE i \in S : \A j \in S : i <= j

\* A chunk: the pieces of the text it joins, and its length with what is put between.
Alone(piece) == [parts |-> <<piece>>, length |-> Size(piece)]
Nothing == [parts |-> <<>>, length |-> 0]

-----------------------------------------------------------------------------
(* Splitting. A piece is stripped; one without a word is left out.           *)

Newlines == {i \in 0..(Length - 1) : At(i) = "newline"}

\* What split("\n\n") splits at: of three in a row the odd one is stripped from its paragraph.
Breaks == {i \in Newlines : i - 1 \in Newlines \/ i + 1 \in Newlines}

\* Where the piece that begins with the word i ends, when split at the places of D.
Stop(i, to, D) == LET later == {d \in D : i < d /\ d < to}
                  IN IF later = {} THEN to ELSE First(later)

\* The next piece with a word in it, stripped.
Piece(from, to, D) == LET i == First(Words(from, to))
                      IN Interval(i, Last(Words(i, Stop(i, to, D))) + 1)

-----------------------------------------------------------------------------
(* Packing.                                                                  *)

\* What is current becomes a chunk.
Flush == IF current = Nothing THEN result ELSE Append(result, current)

\* The separator, of sep characters, goes between what is current and the piece.
Joined(piece, sep) ==
  IF current = Nothing THEN Alone(piece)
  ELSE [parts |-> Append(current.parts, piece), length |-> current.length + sep + Size(piece)]

Overflows(piece, sep) == current.length + Size(piece) + sep > config.size

\* A slip of Put: what is current is replaced before it is a chunk.
Replace(piece, sep) ==
  /\ result' = result
  /\ current' = IF Overflows(piece, sep) THEN Alone(piece) ELSE Joined(piece, sep)

\* A round of either loop for a piece that fits.
Put(piece, sep) ==
  IF Overflows(piece, sep) THEN result' = Flush /\ current' = Alone(piece)
                           ELSE result' = result /\ current' = Joined(piece, sep)

FlushAll == result' = Flush /\ current' = Nothing

-----------------------------------------------------------------------------
(* The three loops.                                                          *)

RecursiveInit == /\ level = "called" /\ place = 0
                 /\ para = Interval(0, 0) /\ line = Interval(0, 0)
                 /\ result = <<>> /\ current = Nothing

ReturnWhole == /\ level = "called" /\ Length <= config.size /\ level' = "returned"
               /\ result' = IF Length = 0 THEN <<>> ELSE <<Alone(Interval(0, Length))>>
               /\ UNCHANGED <<place, para, line, current>>

Split == /\ level = "called" /\ Length > config.size /\ level' = "paragraphs"
         /\ UNCHANGED <<place, para, line, result, current>>

TakeParagraph ==
  /\ level = "paragraphs" /\ Words(place, Length) # {}
  /\ LET next == Piece(place, Length, Breaks)
     IN \/ /\ Size(next) <= config.size /\ Put(next, 2)
           /\ place' = next.to /\ UNCHANGED <<level, para>>
        \/ /\ Size(next) > config.size /\ FlushAll
           /\ level' = "lines" /\ para' = next /\ place' = next.from
  /\ UNCHANGED line

TakeLine ==
  /\ level = "lines" /\ Words(place, para.to) # {}
  /\ LET next == Piece(place, para.to, Newlines)
     IN \/ /\ Size(next) <= config.size /\ Put(next, 1)
           /\ place' = next.to /\ UNCHANGED <<level, line>>
        \/ /\ Size(next) > config.size /\ FlushAll
           /\ level' = "fixed" /\ line' = next /\ place' = next.from
  /\ UNCHANGED para

\* A slip of NextCut: the overlap is taken from both ends.
BothEnds == place + config.size - 2 * config.overlap

NextCut == place + config.size - config.overlap

\* _fixed_chunk: a cut every size less overlap, what is blank left out.
CutLine ==
  /\ level = "fixed"
  /\ LET end == IF place + config.size < line.to THEN place + config.size ELSE line.to
     IN /\ result' = IF HasWord(place, end) THEN Append(result, Alone(Interval(place, end)))
                                            ELSE result
        /\ IF NextCut < line.to THEN place' = NextCut /\ UNCHANGED level
                                ELSE place' = line.to /\ level' = "lines"
  /\ UNCHANGED <<para, line, current>>

\* The sub-chunks of a paragraph go behind the chunks made before it.
LinesOver == /\ level = "lines" /\ Words(place, para.to) = {}
             /\ FlushAll /\ level' = "paragraphs" /\ place' = para.to
             /\ UNCHANGED <<para, line>>

ParagraphsOver == /\ level = "paragraphs" /\ Words(place, Length) = {}
                  /\ FlushAll /\ level' = "returned"
                  /\ UNCHANGED <<place, para, line>>

RecursiveNext == \/ ReturnWhole \/ Split \/ TakeParagraph \/ TakeLine \/ CutLine
                 \/ LinesOver \/ ParagraphsOver

\* get_chunker.
ChunkersInit == FixedInit /\ RecursiveInit /\ strategy \in {"fixed", "recursive"}

ChunkersNext == /\ \/ strategy # "recursive" /\ FixedNext /\ UNCHANGED recursiveVars
                   \/ strategy = "recursive" /\ RecursiveNext /\ UNCHANGED fixedVars
                /\ UNCHANGED strategy

ChunkersSpec == ChunkersInit /\ [][ChunkersNext]_chunkersVars

-----------------------------------------------------------------------------
(* Properties.                                                               *)

Pieces == [from: Nat, to: Nat]

RecursiveTypeOK ==
  /\ strategy \in {"fixed", "recursive"}
  /\ level \in {"called", "paragraphs", "lines", "fixed", "returned"}
  /\ place \in Nat /\ para \in Pieces /\ line \in Pieces
  /\ result \in Seq([parts: Seq(Pieces), length: Nat])
  /\ current \in [parts: Seq(Pieces), length: Nat]

\* The m-th part of the k-th chunk holds the character i.
Holds(k, m, i) == result[k].parts[m].from <= i /\ i < result[k].parts[m].to

\* The character i is on a line that is longer than a chunk.
TooLong(i) == \E a, b \in Words(0, Length) : /\ a <= i /\ i <= b /\ b + 1 - a > config.size
                                             /\ \A j \in a..b : At(j) # "newline"

Follows(p, q) == p.from < q.from /\ \A i \in q.from..(p.to - 1) : TooLong(i)

\* Packing loses and repeats nothing and makes no chunk too long: every word is in some
\* chunk; the parts of the chunks are in the order of the text and overlap only within a
\* line that had to be cut; and every chunk, with the separators it was joined by, fits
\* chunk_size.
RecursiveKeepsAll ==
  /\ level = "returned" =>
       \A i \in Words(0, Length) :
         \E k \in DOMAIN result : \E m \in DOMAIN result[k].parts : Holds(k, m, i)
  /\ \A k, l \in DOMAIN result : \A m \in DOMAIN result[k].parts : \A n \in DOMAIN result[l].parts :
       k < l \/ (k = l /\ m < n) => Follows(result[k].parts[m], result[l].parts[n])
  /\ \A k \in DOMAIN result : result[k].length \in 1..config.size

\* A round that stays in its loop goes on in the text: these loops end for every accepted
\* configuration, whatever the piece and however great the overlap.
RecursiveMovesOn ==
  [][strategy = "recursive" /\ UNCHANGED level => place' > place]_chunkersVars
=============================================================================
