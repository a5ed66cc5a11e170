-------------------------- MODULE ChunkerProofs ----------------------------
(***************************************************************************)
(* Proofs about both chunkers for every text, window and configuration. Of    *)
(* TextChunker: chunks fit, text is lost only when none overlap, and the loop *)
(* moves on when the chunks are roomy. Of the recursive one: no word is lost, *)
(* the order is kept, text is repeated only where a line is cut, chunks fit.  *)
(***************************************************************************)
EXTENDS RecursiveChunker, WellFoundedInduction, TLAPS

AllRoomy == \A c \in Configs : Roomy(c)

-----------------------------------------------------------------------------
(* Lemmas about the break point.                                             *)

\* A set of integers with an upper bound has a last element.
LEMMA LastIn ==
  ASSUME NEW b \in Int, NEW S \in SUBSET Int, S # {}, \A i \in S : i <= b
  PROVE  Last(S) \in S /\ \A j \in S : j <= Last(S)
<1> DEFINE R == OpToRel(<, Nat)
           T == {b - i : i \in S}
<1>1. T \subseteq Nat /\ T # {}
  <2>1. \A i \in S : i \in Int /\ i <= b /\ b - i \in Nat
    OBVIOUS
  <2>2. QED
    BY <2>1
<1>2. IsWellFoundedOn(R, Nat)
  BY NatLessThanWellFounded
<1>3. PICK x \in T : \A y \in T : ~ (<<y, x>> \in R)
  BY <1>1, <1>2, WFMin
<1>4. PICK m \in S : x = b - m
  OBVIOUS
<1>5. ASSUME NEW j \in S
      PROVE  j <= m
  <2>1. b - j \in T /\ b - j \in Nat /\ x \in Nat
    BY <1>1
  <2>2. ~ (<<b - j, x>> \in {ss \in Nat \X Nat : ss[1] < ss[2]})
    BY <1>3, <2>1 DEF OpToRel
  <2>3. ~ (b - j < x)
    BY <2>1, <2>2
  <2>4. QED
    BY <1>4, <2>3
<1>6. QED
  BY <1>5 DEF Last

\* The break point lies after the start of the scan by two at least, and not after end.
LEMMA BreakPointFacts ==
  ASSUME FixedTypeOK, NEW end \in Nat, start < end
  PROVE  LET lo == IF start > end - Window THEN start ELSE end - Window IN
         /\ BreakPoint(end) \in Int
         /\ BreakPoint(end) <= end
         /\ BreakPoint(end) = end \/ BreakPoint(end) >= lo + 2
<1> DEFINE lo == IF start > end - Window THEN start ELSE end - Window
<1>1. start \in Nat /\ lo \in Int
  BY WindowAssumption DEF FixedTypeOK
<1>2. ASSUME NEW kind \in Kinds, Scan(end, kind) # {}
      PROVE  /\ Last(Scan(end, kind)) + 1 \in Int
             /\ Last(Scan(end, kind)) + 1 <= end
             /\ Last(Scan(end, kind)) + 1 >= lo + 2
  <2> DEFINE S == Scan(end, kind)
  <2>1. S \subseteq lo + 1 .. end - 1
    BY DEF Scan
  <2>2. S \in SUBSET Int /\ \A i \in S : i <= end - 1
    BY <1>1, <2>1
  <2>3. Last(S) \in S
    <3>1. S # {} /\ end - 1 \in Int
      BY <1>2
    <3>2. QED
      BY <2>2, <3>1, LastIn
  <2>4. Last(S) \in lo + 1 .. end - 1
    BY <2>1, <2>3
  <2>5. QED
    BY <1>1, <2>4
<1>3. CASE Scan(end, "newline") # {}
  BY <1>2, <1>3 DEF BreakPoint, Kinds
<1>4. CASE Scan(end, "newline") = {} /\ Scan(end, "space") # {}
  BY <1>2, <1>4 DEF BreakPoint, Kinds
<1>5. CASE Scan(end, "newline") = {} /\ Scan(end, "space") = {}
  BY <1>5 DEF BreakPoint
<1>6. QED
  BY <1>3, <1>4, <1>5

\* A cut ends after its start and within chunk_size of it; stepping back from it goes
\* to the text before the cut, and with a roomy configuration beyond its start.
LEMMA CutFacts ==
  ASSUME FixedTypeOK
  PROVE  /\ CutEnd \in Nat /\ start < CutEnd /\ CutEnd - start <= config.size
         /\ StepBack(CutEnd) \in Nat
         /\ IF config.overlap > 0 THEN StepBack(CutEnd) < CutEnd ELSE StepBack(CutEnd) = CutEnd
         /\ Roomy(config) => StepBack(CutEnd) > start
<1> DEFINE size == config.size
           overlap == config.overlap
           end == start + size
<1>1. /\ start \in Nat /\ size \in Nat /\ size > 0 /\ overlap \in Nat /\ overlap < size
      /\ Window \in Nat \ {0}
  BY ConfigsAssumption, WindowAssumption DEF FixedTypeOK, Valid
<1>2. Length \in Nat
  <2>1. text \in Seq(Kinds)
    BY TextsAssumption DEF FixedTypeOK
  <2>2. QED
    BY <2>1 DEF Length
<1>3. end \in Nat /\ start < end
  BY <1>1
<1>4. /\ BreakPoint(end) \in Int
      /\ BreakPoint(end) <= end
      /\ \/ BreakPoint(end) = end
         \/ BreakPoint(end) >= (IF start > end - Window THEN start ELSE end - Window) + 2
  BY <1>3, BreakPointFacts
<1>5. CutEnd = end \/ CutEnd = BreakPoint(end)
  BY DEF CutEnd
<1>. HIDE DEF end
<1>6. /\ CutEnd \in Int /\ CutEnd <= end
      /\ \/ CutEnd = end
         \/ CutEnd >= (IF start > end - Window THEN start ELSE end - Window) + 2
  BY <1>3, <1>4, <1>5
<1>7. end = start + size
  BY DEF end
<1>8. CutEnd \in Nat /\ start < CutEnd /\ CutEnd - start <= size
  BY <1>1, <1>6, <1>7
<1>9. /\ StepBack(CutEnd) \in Nat
      /\ IF overlap > 0 THEN StepBack(CutEnd) < CutEnd ELSE StepBack(CutEnd) = CutEnd
  BY <1>1, <1>8 DEF StepBack
<1>10. ASSUME Roomy(config)
       PROVE  StepBack(CutEnd) > start
  <2>1. overlap < 2 + (IF size > Window THEN size - Window ELSE 0)
    BY <1>10 DEF Roomy
  <2>2. CutEnd > start + overlap
    BY <1>1, <1>6, <1>7, <2>1
  <2>3. QED
    BY <1>1, <1>8, <2>2 DEF StepBack
<1>11. QED
  BY <1>8, <1>9, <1>10

-----------------------------------------------------------------------------
(* Invariance.                                                               *)

\* The text before the next start is in the chunks made so far.
Behind == \A i \in 0..(Length - 1) : (i < start /\ At(i) = "word") =>
             \E k \in 1..Len(chunks) : chunks[k].from <= i /\ i < chunks[k].to

IInv == /\ FixedTypeOK
        /\ ChunksFit
        /\ stage = "called" => start = 0 /\ chunks = <<>>
        /\ stage = "cutting" => Length > config.size /\ Behind
        /\ stage = "cutting" /\ config.overlap = 0 => start = 0 /\ chunks = <<>>
        /\ CoversText

LEMMA InitIInv == FixedInit => IInv
BY DEF FixedInit, IInv, FixedTypeOK, ChunksFit, CoversText

LEMMA NextIInv == IInv /\ [FixedNext]_fixedVars => IInv'
<1> SUFFICES ASSUME IInv, [FixedNext]_fixedVars
             PROVE  IInv'
  OBVIOUS
<1>1. /\ FixedTypeOK /\ start \in Nat /\ chunks \in Seq([from: Nat, to: Nat])
      /\ text \in Seq(Kinds) /\ Length \in Nat
  <2>1. text \in Seq(Kinds)
    BY TextsAssumption DEF IInv, FixedTypeOK
  <2>2. QED
    BY <2>1 DEF IInv, FixedTypeOK, Length
<1>2. CASE UNCHANGED fixedVars
  BY <1>2 DEF fixedVars, IInv, FixedTypeOK, ChunksFit, CoversText, CoveredTo, Behind, At, Length
<1>3. CASE ReturnShort
  <2>1. CASE Length = 0
    BY <1>1, <1>3, <2>1 DEF ReturnShort, IInv, FixedTypeOK, ChunksFit, CoversText, CoveredTo,
                          Length, At
  <2>2. CASE Length # 0
    <3>1. /\ chunks' = <<Interval(0, Length)>> /\ stage' = "returned"
          /\ UNCHANGED <<text, config, start>> /\ Length <= config.size
      BY <1>3, <2>2 DEF ReturnShort
    <3>2. Interval(0, Length) \in [from: Nat, to: Nat]
      BY <1>1 DEF Interval
    <3>3. FixedTypeOK'
      BY <1>1, <3>1, <3>2 DEF FixedTypeOK
    <3>4. /\ Len(chunks') = 1
          /\ chunks'[1].from = 0 /\ chunks'[1].to = Length
      BY <3>1 DEF Interval
    <3>5. ChunksFit'
      BY <1>1, <2>2, <3>1, <3>4 DEF ChunksFit
    <3>6. CoversText'
      BY <1>1, <3>1, <3>4 DEF CoversText, CoveredTo, Length
    <3>7. QED
      BY <3>1, <3>3, <3>5, <3>6 DEF IInv
  <2>3. QED
    BY <2>1, <2>2
<1>4. CASE Begin
  <2>1. /\ start = 0 /\ chunks = <<>> /\ Length > config.size /\ stage' = "cutting"
        /\ UNCHANGED <<text, config, start, chunks>>
    BY <1>4 DEF Begin, IInv
  <2>2. Length' = Length /\ FixedTypeOK' /\ ChunksFit' /\ CoversText'
    BY <1>1, <2>1 DEF Length, FixedTypeOK, ChunksFit, CoversText
  <2>3. Behind'
    BY <1>1, <2>1, <2>2 DEF Behind
  <2>4. QED
    BY <2>1, <2>2, <2>3 DEF IInv
<1>5. CASE Cut
  <2> DEFINE end == CutEnd
             new == Interval(start, end)
  <2>1. /\ end \in Nat /\ start < end /\ end - start <= config.size
        /\ StepBack(end) \in Nat /\ StepBack(end) <= end
        /\ IF config.overlap > 0 THEN StepBack(end) < end ELSE StepBack(end) = end
    BY <1>1, CutFacts DEF FixedTypeOK
  <2>2. /\ stage = "cutting" /\ start' = StepBack(end) /\ UNCHANGED <<text, config>>
        /\ chunks' = IF HasWord(start, end) THEN Append(chunks, new) ELSE chunks
        /\ stage' = IF start' >= Length \/ (chunks' # <<>> /\ start' = end)
                    THEN "returned" ELSE "cutting"
    BY <1>5 DEF Cut
  <2>. HIDE DEF end
  <2>3. /\ new \in [from: Nat, to: Nat] /\ new.from = start /\ new.to = end
    BY <1>1, <2>1 DEF Interval
  <2>. HIDE DEF new
  <2>4. /\ chunks' \in Seq([from: Nat, to: Nat])
        /\ Len(chunks) \in Nat /\ Len(chunks') \in Nat /\ Len(chunks) <= Len(chunks')
        /\ \A k \in 1..Len(chunks) : chunks'[k] = chunks[k]
        /\ \A k \in 1..Len(chunks') : k \in 1..Len(chunks) \/ chunks'[k] = new
        /\ HasWord(start, end) => \E k \in 1..Len(chunks') : chunks'[k] = new
    <3>1. CASE HasWord(start, end)
      <4>1. chunks' = Append(chunks, new) /\ Len(chunks) \in Nat
        BY <1>1, <2>2, <3>1
      <4>2. /\ chunks' \in Seq([from: Nat, to: Nat])
            /\ Len(chunks') = Len(chunks) + 1
            /\ chunks'[Len(chunks) + 1] = new
            /\ \A k \in 1..Len(chunks) : chunks'[k] = chunks[k]
        BY <1>1, <2>3, <4>1
      <4>3. QED
        BY <4>1, <4>2
    <3>2. CASE ~HasWord(start, end)
      BY <1>1, <2>2, <3>2
    <3>3. QED
      BY <3>1, <3>2
  <2>5. FixedTypeOK'
    BY <1>1, <2>1, <2>2, <2>4 DEF FixedTypeOK
  <2>6. ChunksFit'
    BY <2>1, <2>2, <2>3, <2>4 DEF IInv, ChunksFit
  <2>7. ASSUME NEW i \in 0..(Length - 1), i < end, At(i) = "word"
        PROVE  \E k \in 1..Len(chunks') : chunks'[k].from <= i /\ i < chunks'[k].to
    <3>1. CASE i < start
      <4>1. PICK k \in 1..Len(chunks) : chunks[k].from <= i /\ i < chunks[k].to
        BY <2>2, <2>7, <3>1 DEF IInv, Behind
      <4>2. k \in 1..Len(chunks')
        BY <2>4
      <4>3. QED
        BY <2>4, <4>1, <4>2
    <3>2. CASE i >= start
      <4>1. HasWord(start, end)
        BY <1>1, <2>1, <2>7, <3>2 DEF HasWord
      <4>2. QED
        BY <2>3, <2>4, <2>7, <3>2, <4>1
    <3>3. QED
      BY <1>1, <3>1, <3>2
  <2>8. Length' = Length /\ \A i : At(i)' = At(i)
    BY <2>2 DEF Length, At
  <2>9. Behind'
    <3>1. SUFFICES ASSUME NEW i \in 0..(Length - 1), i < start', At(i) = "word"
                   PROVE  \E k \in 1..Len(chunks') : chunks'[k].from <= i /\ i < chunks'[k].to
      BY <2>8 DEF Behind
    <3>2. i < end
      BY <1>1, <2>1, <2>2, <3>1
    <3>3. QED
      BY <2>7, <3>1, <3>2
  <2>10. CASE config.overlap > 0
    <3>1. stage' = "returned" => start' >= Length
      BY <2>1, <2>2, <2>10
    <3>2. CoversText'
      BY <1>1, <2>1, <2>2, <2>7, <2>8, <2>10, <3>1 DEF CoversText, CoveredTo
    <3> QED
      BY <2>2, <2>5, <2>6, <2>8, <2>9, <2>10, <3>2 DEF IInv
  <2>11. CASE ~(config.overlap > 0)
    <3>1. start = 0 /\ chunks = <<>> /\ Length > config.size
      <4>1. config.overlap = 0
        BY <1>1, <2>11, ConfigsAssumption DEF FixedTypeOK, Valid
      <4> QED
        BY <2>2, <4>1 DEF IInv
    <3>2. At(0) = "word" /\ 0 < Length
      <4>1. text # <<>> /\ config.size \in Nat
        BY <1>1, <3>1, ConfigsAssumption DEF Length, FixedTypeOK, Valid
      <4> QED
        BY <1>1, <3>1, <4>1, TextsAssumption, ConfigsAssumption DEF At, FixedTypeOK, Valid
    <3>3. HasWord(start, end)
      BY <1>1, <2>1, <3>1, <3>2 DEF HasWord
    <3>4. chunks' = <<new>> /\ new.from = 0
      BY <2>2, <2>3, <3>1, <3>3
    <3>5. stage' = "returned"
      BY <2>1, <2>2, <2>11, <3>4
    <3>6. CoversText'
      <4>1. Len(chunks') = 1 /\ chunks'[1].from = 0
        BY <3>4
      <4>2. ~(config'.overlap > 0 \/ Length' <= config'.size)
        <5>1. config.size \in Nat /\ config.overlap \in Nat
          BY <1>1, ConfigsAssumption DEF FixedTypeOK, Valid
        <5>2. QED
          BY <1>1, <2>2, <2>8, <2>11, <3>1, <5>1
      <4>3. QED
        BY <4>1, <4>2 DEF CoversText
    <3> QED
      BY <2>5, <2>6, <3>5, <3>6 DEF IInv
  <2>12. QED
    BY <2>10, <2>11
<1>6. QED
  BY <1>2, <1>3, <1>4, <1>5 DEF FixedNext

\* The inductive invariant holds in every reachable state.
LEMMA Inductive == FixedSpec => []IInv
<1>1. FixedInit => IInv
  BY InitIInv
<1>2. IInv /\ [FixedNext]_fixedVars => IInv'
  BY NextIInv
<1>3. QED
  BY <1>1, <1>2, PTL DEF FixedSpec

-----------------------------------------------------------------------------
(* Theorems.                                                                 *)

\* For every accepted configuration: no text is lost when chunks overlap; when they do
\* not, a text longer than a chunk is cut down to its first.
THEOREM NoTextLost == FixedSpec => []CoversText
<1>1. FixedSpec => []IInv
  BY Inductive
<1>2. IInv => CoversText
  BY DEF IInv
<1>3. QED
  BY <1>1, <1>2, PTL

\* The type invariant: starts and chunks are positions of the text.
THEOREM TypeCorrect == FixedSpec => []FixedTypeOK
<1>1. FixedSpec => []IInv
  BY Inductive
<1>2. IInv => FixedTypeOK
  BY DEF IInv
<1>3. QED
  BY <1>1, <1>2, PTL

\* Chunks fit chunk_size.
THEOREM ChunksAreBounded == FixedSpec => []ChunksFit
<1>1. FixedSpec => []IInv
  BY Inductive
<1>2. IInv => ChunksFit
  BY DEF IInv
<1>3. QED
  BY <1>1, <1>2, PTL

\* With roomy chunks the loop never cuts twice from the same place: it moves on.
THEOREM LoopMovesOn == ASSUME AllRoomy PROVE FixedSpec => MovesOn
<1>1. FixedSpec => []IInv
  BY Inductive
<1>2. IInv /\ [FixedNext]_fixedVars => [stage = "cutting" => start' > start]_fixedVars
  <2> SUFFICES ASSUME IInv, [FixedNext]_fixedVars
               PROVE  [stage = "cutting" => start' > start]_fixedVars
    OBVIOUS
  <2>1. CASE UNCHANGED fixedVars
    BY <2>1
  <2>2. CASE ReturnShort \/ Begin
    BY <2>2 DEF ReturnShort, Begin
  <2>3. CASE Cut
    <3>1. FixedTypeOK /\ Roomy(config)
      BY DEF IInv, FixedTypeOK, AllRoomy
    <3>2. StepBack(CutEnd) > start
      BY <3>1, CutFacts
    <3>3. QED
      BY <2>3, <3>2 DEF Cut
  <2>4. QED
    BY <2>1, <2>2, <2>3 DEF FixedNext
<1>3. QED
  BY <1>1, <1>2, PTL DEF FixedSpec, MovesOn
-----------------------------------------------------------------------------
(* The recursive chunker: pieces.                                            *)

Known == text \in Texts /\ config \in Configs

\* The text and the configuration are accepted ones.
LEMMA KnownFacts ==
  ASSUME Known
  PROVE  /\ text \in Seq(Kinds) /\ Length \in Nat
         /\ config.size \in Nat \ {0} /\ config.overlap \in Nat /\ config.overlap < config.size
<1>1. text \in Seq(Kinds) /\ Valid(config)
  BY TextsAssumption, ConfigsAssumption DEF Known
<1> QED
  BY <1>1 DEF Length, Valid

\* A set of naturals has a first element.
LEMMA FirstIn ==
  ASSUME NEW S \in SUBSET Nat, S # {}
  PROVE  First(S) \in S /\ \A j \in S : First(S) <= j
<1>1. IsWellFoundedOn(OpToRel(<, Nat), Nat)
  BY NatLessThanWellFounded
<1>2. PICK n \in S : \A m \in S : ~(<<m, n>> \in OpToRel(<, Nat))
  BY <1>1, WFMin
<1>3. \A m \in S : ~(m < n)
  BY <1>2 DEF OpToRel
<1>4. \A m \in S : n <= m
  BY <1>3
<1> QED
  BY <1>4 DEF First

\* A piece is stripped, is the first behind from, and no line when split at newlines.
LEMMA PieceFacts ==
  ASSUME Known, NEW from \in Nat, NEW to \in Nat, to <= Length, Words(from, to) # {},
         NEW D \in SUBSET Newlines
  PROVE  LET p == Piece(from, to, D)
         IN /\ p \in Pieces /\ from <= p.from /\ p.from < p.to /\ p.to <= to
            /\ At(p.from) = "word" /\ At(p.to - 1) = "word"
            /\ Words(from, p.from) = {}
            /\ D = Newlines => \A j \in p.from..(p.to - 1) : At(j) # "newline"
<1> DEFINE i == First(Words(from, to))
           later == {d \in D : i < d /\ d < to}
           stop == Stop(i, to, D)
           l == Last(Words(i, stop))
<1>0. Length \in Nat
  BY KnownFacts
<1>1. /\ i \in Nat /\ from <= i /\ i < to /\ At(i) = "word"
      /\ \A j \in Words(from, to) : i <= j
  <2>1. Words(from, to) \in SUBSET Nat
    BY DEF Words
  <2>2. i \in Words(from, to) /\ \A j \in Words(from, to) : i <= j
    BY <2>1, FirstIn
  <2> HIDE DEF i
  <2> QED
    BY <2>2 DEF Words
<1> HIDE DEF i
<1>2. /\ stop \in Nat /\ i < stop /\ stop <= to
      /\ \A d \in D : ~(i < d /\ d < stop)
  <2>1. CASE later = {}
    BY <1>1, <2>1 DEF Stop
  <2>2. CASE later # {}
    <3>1. later \in SUBSET Nat
      <4>1. \A d \in Newlines : d \in Nat
        BY <1>0 DEF Newlines
      <4> QED
        BY <4>1
    <3>2. First(later) \in later /\ \A d \in later : First(later) <= d
      BY <2>2, <3>1, FirstIn
    <3>3. stop = First(later)
      BY <2>2 DEF Stop
    <3>4. stop \in Nat /\ i < stop /\ stop < to
      BY <3>1, <3>2, <3>3
    <3>5. ASSUME NEW d \in D, i < d, d < stop PROVE FALSE
      <4>1. d \in Nat
        BY <1>0 DEF Newlines
      <4>2. d \in later
        BY <1>1, <3>4, <3>5, <4>1
      <4> QED
        BY <3>2, <3>3, <3>4, <3>5, <4>1, <4>2
    <3> QED
      BY <3>4, <3>5
  <2> QED
    BY <2>1, <2>2
<1> HIDE DEF later, stop
<1>3. l \in i..(stop - 1) /\ At(l) = "word"
  <2>1. Words(i, stop) \in SUBSET Int /\ Words(i, stop) # {} /\ \A j \in Words(i, stop) : j <= stop
    BY <1>1, <1>2 DEF Words
  <2>2. l \in Words(i, stop)
    BY <1>2, <2>1, LastIn
  <2> QED
    BY <2>2 DEF Words
<1> HIDE DEF l
<1>4. Piece(from, to, D) = Interval(i, l + 1)
  BY DEF Piece, i, l, stop
<1>5. Words(from, i) = {}
  <2> SUFFICES ASSUME NEW j \in Words(from, i) PROVE FALSE
    OBVIOUS
  <2>1. j \in Words(from, to) /\ j \in Int /\ j < i
    BY <1>1 DEF Words
  <2> QED
    BY <1>1, <2>1
<1>6. ASSUME D = Newlines, NEW j \in i..l, At(j) = "newline" PROVE FALSE
  <2>1. j \in Newlines
    BY <1>0, <1>1, <1>2, <1>3, <1>6 DEF Newlines
  <2>2. j # i
    BY <1>1, <1>6
  <2> QED
    BY <1>1, <1>2, <1>3, <1>6, <2>1, <2>2
<1>7. l \in Nat /\ l + 1 - 1 = l
  BY <1>1, <1>2, <1>3
<1> QED
  BY <1>1, <1>2, <1>3, <1>4, <1>5, <1>6, <1>7 DEF Interval, Pieces

-----------------------------------------------------------------------------
(* The recursive chunker: sequences of chunks.                               *)

Chunks == [parts: Seq(Pieces), length: Nat]

PartsIn(s) == {q \in Pieces : \E k \in DOMAIN s : \E m \in DOMAIN s[k].parts : s[k].parts[m] = q}

\* Part m of chunk k comes before part n of chunk l.
Earlier(k, m, l, n) == k < l \/ (k = l /\ m < n)

OrderedIn(s) == \A k, l \in DOMAIN s : \A m \in DOMAIN s[k].parts : \A n \in DOMAIN s[l].parts :
                  Earlier(k, m, l, n) => Follows(s[k].parts[m], s[l].parts[n])

FitIn(s) == \A k \in DOMAIN s : s[k].length \in 1..config.size

Covers(s, n) == \A i \in Words(0, n) : \E q \in PartsIn(s) : q.from <= i /\ i < q.to

\* A part is a piece of the text, whichever chunk it is of.
LEMMA PartFacts ==
  ASSUME NEW s \in Seq(Chunks), NEW k \in DOMAIN s, NEW m \in DOMAIN s[k].parts
  PROVE  /\ k \in 1..Len(s) /\ s[k].parts \in Seq(Pieces) /\ m \in 1..Len(s[k].parts)
         /\ s[k].parts[m] \in Pieces /\ s[k].parts[m] \in PartsIn(s)
<1>1. k \in 1..Len(s) /\ s[k] \in Chunks
  OBVIOUS
<1>2. s[k].parts \in Seq(Pieces)
  BY <1>1 DEF Chunks
<1>3. m \in 1..Len(s[k].parts) /\ s[k].parts[m] \in Pieces
  BY <1>2
<1> QED
  BY <1>1, <1>2, <1>3 DEF PartsIn

\* One more chunk, of a piece behind all others.
LEMMA ChunkAdded ==
  ASSUME NEW s \in Seq(Chunks), NEW q \in Pieces, Size(q) \in Nat,
         OrderedIn(s), \A p \in PartsIn(s) : Follows(p, q)
  PROVE  LET t == Append(s, Alone(q))
         IN /\ t \in Seq(Chunks) /\ PartsIn(t) = PartsIn(s) \cup {q} /\ OrderedIn(t)
            /\ FitIn(s) /\ Size(q) \in 1..config.size => FitIn(t)
<1> DEFINE c == Alone(q)
           t == Append(s, c)
           e == Len(s) + 1
<1>1. c \in Chunks /\ c.parts = <<q>> /\ c.length = Size(q)
  BY DEF Alone, Chunks
<1> HIDE DEF c
<1>2. /\ t \in Seq(Chunks) /\ Len(s) \in Nat /\ DOMAIN t = 1..e /\ DOMAIN s = 1..Len(s)
      /\ t[e] = c /\ \A k \in DOMAIN s : k \in DOMAIN t /\ k < e /\ t[k] = s[k]
      /\ \A k \in DOMAIN t : k \in DOMAIN s \/ k = e
  BY <1>1
<1> HIDE DEF t, e
<1>3. DOMAIN c.parts = {1} /\ c.parts[1] = q
  BY <1>1
<1>4. PartsIn(t) = PartsIn(s) \cup {q}
  <2>1. q \in PartsIn(t)
    BY <1>2, <1>3 DEF PartsIn, e
  <2>2. PartsIn(s) \subseteq PartsIn(t)
    BY <1>2 DEF PartsIn
  <2>3. ASSUME NEW p \in PartsIn(t) PROVE p \in PartsIn(s) \cup {q}
    <3>1. PICK k \in DOMAIN t : \E m \in DOMAIN t[k].parts : t[k].parts[m] = p
      BY DEF PartsIn
    <3> QED
      BY <1>2, <1>3, <3>1 DEF PartsIn
  <2> QED
    BY <2>1, <2>2, <2>3
<1>5. OrderedIn(t)
  <2> SUFFICES ASSUME NEW k \in DOMAIN t, NEW l \in DOMAIN t,
                      NEW m \in DOMAIN t[k].parts, NEW n \in DOMAIN t[l].parts,
                      Earlier(k, m, l, n)
               PROVE  Follows(t[k].parts[m], t[l].parts[n])
    BY DEF OrderedIn
  <2>0. k \in 1..e /\ l \in 1..e /\ e \in Nat /\ m \in Int /\ n \in Int
    BY <1>2, PartFacts DEF e
  <2>1. CASE l = e /\ k # e
    <3>1. k \in DOMAIN s /\ t[k] = s[k] /\ t[l].parts[n] = q
      BY <1>2, <1>3, <2>1
    <3> QED
      BY <3>1, PartFacts
  <2>2. CASE l = e /\ k = e
    BY <1>2, <1>3, <2>0, <2>2 DEF Earlier
  <2>3. CASE l # e
    <3>1. k \in DOMAIN s /\ l \in DOMAIN s /\ t[k] = s[k] /\ t[l] = s[l]
      BY <1>2, <2>0, <2>3 DEF Earlier
    <3> QED
      BY <3>1 DEF OrderedIn
  <2> QED
    BY <2>1, <2>2, <2>3
<1>6. FitIn(s) /\ Size(q) \in 1..config.size => FitIn(t)
  BY <1>1, <1>2 DEF FitIn
<1> QED
  BY <1>2, <1>4, <1>5, <1>6 DEF c, t

\* Append, by a name the provers do not look into.
Then(s, c) == Append(s, c)

\* One more part in the last chunk, behind all others.
LEMMA PartAdded ==
  ASSUME NEW r \in Seq(Chunks), NEW b \in Chunks, NEW q \in Pieces,
         NEW c \in Chunks, c.parts = Append(b.parts, q),
         NEW s, s = Then(r, b), NEW t, t = Then(r, c),
         OrderedIn(s), \A p \in PartsIn(s) : Follows(p, q)
  PROVE  /\ t \in Seq(Chunks) /\ PartsIn(t) = PartsIn(s) \cup {q} /\ OrderedIn(t)
         /\ FitIn(s) /\ c.length \in 1..config.size => FitIn(t)
<1> DEFINE e == Len(r) + 1
           f == Len(b.parts) + 1
<1>1. b.parts \in Seq(Pieces) /\ Len(b.parts) \in Nat
  BY DEF Chunks
<1>2. /\ DOMAIN c.parts = 1..f /\ c.parts[f] = q /\ DOMAIN b.parts = 1..Len(b.parts)
      /\ \A m \in DOMAIN b.parts : m \in DOMAIN c.parts /\ m < f /\ c.parts[m] = b.parts[m]
      /\ \A m \in DOMAIN c.parts : m \in DOMAIN b.parts \/ m = f
  BY <1>1
<1>d. \A x \in Chunks : /\ Then(r, x) \in Seq(Chunks) /\ DOMAIN Then(r, x) = 1..e
                        /\ Then(r, x)[e] = x
                        /\ \A k \in 1..e : k # e => Then(r, x)[k] = r[k] /\ r[k] \in Chunks
  BY DEF Then
<1>e. Len(r) \in Nat /\ e \in Nat /\ f \in Nat /\ e \in 1..e
  BY <1>1
<1> HIDE DEF e, f
<1>3. /\ s \in Seq(Chunks) /\ t \in Seq(Chunks) /\ Len(r) \in Nat
      /\ DOMAIN s = 1..e /\ DOMAIN t = 1..e /\ s[e] = b /\ t[e] = c
      /\ \A k \in 1..e : (k # e => s[k] = t[k]) /\ t[k] \in Chunks
  BY <1>1, <1>d, <1>e
<1>4. PartsIn(t) = PartsIn(s) \cup {q}
  <2>1. q \in PartsIn(t)
    BY <1>e, <1>1, <1>2, <1>3 DEF PartsIn
  <2>2. ASSUME NEW p \in PartsIn(s) PROVE p \in PartsIn(t)
    <3>1. PICK k \in 1..e : \E m \in DOMAIN s[k].parts : s[k].parts[m] = p
      BY <1>3 DEF PartsIn
    <3>2. PICK m \in DOMAIN s[k].parts : s[k].parts[m] = p
      BY <3>1
    <3>3. m \in DOMAIN t[k].parts /\ t[k].parts[m] = p
      BY <1>2, <1>3, <3>2
    <3> QED
      BY <1>3, <3>3 DEF PartsIn
  <2>3. ASSUME NEW p \in PartsIn(t) PROVE p \in PartsIn(s) \cup {q}
    <3>1. PICK k \in 1..e : \E m \in DOMAIN t[k].parts : t[k].parts[m] = p
      BY <1>3 DEF PartsIn
    <3>2. PICK m \in DOMAIN t[k].parts : t[k].parts[m] = p
      BY <3>1
    <3>3. CASE m \in DOMAIN s[k].parts
      <4>1. s[k].parts[m] = p
        BY <1>2, <1>3, <3>2, <3>3
      <4> QED
        BY <1>3, <3>3, <4>1 DEF PartsIn
    <3>4. CASE m \notin DOMAIN s[k].parts
      BY <1>2, <1>3, <3>2, <3>4
    <3> QED
      BY <3>3, <3>4
  <2> QED
    BY <2>1, <2>2, <2>3
<1>5. OrderedIn(t)
  <2> SUFFICES ASSUME NEW k \in 1..e, NEW l \in 1..e,
                      NEW m \in DOMAIN t[k].parts, NEW n \in DOMAIN t[l].parts,
                      Earlier(k, m, l, n)
               PROVE  Follows(t[k].parts[m], t[l].parts[n])
    BY <1>3 DEF OrderedIn
  <2>0. m \in Int /\ n \in Int
    <3>1. t[k].parts \in Seq(Pieces) /\ t[l].parts \in Seq(Pieces)
      <4>1. t[k] \in Chunks /\ t[l] \in Chunks
        BY <1>3
      <4> QED
        BY <4>1 DEF Chunks
    <3> QED
      BY <3>1
  <2>1. ~(k = e /\ m = f)
    <3> SUFFICES ASSUME k = e, m = f PROVE FALSE
      OBVIOUS
    <3>1. l = e /\ n \in 1..f
      BY <1>2, <1>3, <1>e DEF Earlier
    <3> QED
      BY <1>e, <2>0, <3>1 DEF Earlier
  <2>2. m \in DOMAIN s[k].parts /\ t[k].parts[m] = s[k].parts[m]
    BY <1>2, <1>3, <2>1
  <2>3. CASE l = e /\ n = f
    <3>1. t[l].parts[n] = q /\ t[k].parts[m] \in PartsIn(s)
      BY <1>2, <1>3, <2>2, <2>3, PartFacts
    <3> QED
      BY <3>1
  <2>4. CASE ~(l = e /\ n = f)
    <3>1. n \in DOMAIN s[l].parts /\ t[l].parts[n] = s[l].parts[n]
      BY <1>2, <1>3, <2>4
    <3> QED
      BY <1>3, <2>2, <3>1 DEF OrderedIn
  <2> QED
    BY <2>3, <2>4
<1>6. FitIn(s) /\ c.length \in 1..config.size => FitIn(t)
  BY <1>1, <1>3 DEF FitIn
<1> QED
  BY <1>3, <1>4, <1>5, <1>6

-----------------------------------------------------------------------------
(* The recursive chunker: its invariant.                                     *)

\* A piece that begins and ends with a word and is on one line, too long for a chunk.
IsLong(q) == /\ q.from \in Words(0, Length) /\ q.to - 1 \in Words(0, Length)
             /\ Size(q) > config.size /\ \A j \in q.from..(q.to - 1) : At(j) # "newline"

\* Where the loops are.
Inside == /\ place <= Length
          /\ level = "called" => place = 0 /\ result = <<>> /\ current = Nothing
          /\ level \in {"fixed", "returned"} => current = Nothing
          /\ level \in {"lines", "fixed"} => para.to <= Length
          /\ level = "lines" => place <= para.to
          /\ level = "fixed" => /\ line.from <= place /\ place < line.to /\ line.to <= para.to
                                /\ IsLong(line)

Splitting == level \in {"paragraphs", "lines", "fixed"}

\* What is made so far is in order, fits, holds the text before place, and nothing behind
\* it but the rest of a line that is being cut.
Ordered == OrderedIn(Flush)
Fit == FitIn(Flush)
Covered == Covers(Flush, place)
Bounded == \A q \in PartsIn(Flush) :
             q.from < place /\ (q.to <= place \/ (level = "fixed" /\ line.from <= q.from
                                                                  /\ q.to <= line.to))

RecursiveInv == /\ Known /\ RecursiveTypeOK /\ Inside /\ Ordered /\ Fit
                /\ Splitting => Covered /\ Bounded
                /\ level = "returned" => Covers(result, Length)

\* What is said of the chunks depends on the text and the configuration, which stay.
LEMMA Same ==
  ASSUME UNCHANGED fixedVars, NEW t, t = Flush'
  PROVE  /\ Ordered' <=> OrderedIn(t)
         /\ Fit' <=> FitIn(t)
         /\ Covered' <=> Covers(t, place')
         /\ Bounded' <=> \A q \in PartsIn(t) :
              q.from < place' /\ (q.to <= place' \/ (level' = "fixed" /\ line'.from <= q.from
                                                                     /\ q.to <= line'.to))
         /\ Known' <=> Known
         /\ Length' = Length
<1>1. UNCHANGED <<text, config>>
  BY DEF fixedVars
<1>2. Length' = Length /\ (\A i : At(i)' = At(i)) /\ \A i, j : Words(i, j)' = Words(i, j)
  BY <1>1 DEF Length, At, Words
<1>3. \A p, q : Follows(p, q)' <=> Follows(p, q)
  BY <1>1, <1>2 DEF Follows, TooLong
<1>4. Ordered' <=> OrderedIn(t)
  BY <1>3 DEF Ordered, OrderedIn
<1>5. Fit' <=> FitIn(t)
  BY <1>1 DEF Fit, FitIn
<1>6. Covered' <=> Covers(t, place')
  BY <1>2 DEF Covered, Covers, PartsIn
<1>7. Bounded' <=> \A q \in PartsIn(t) :
              q.from < place' /\ (q.to <= place' \/ (level' = "fixed" /\ line'.from <= q.from
                                                                     /\ q.to <= line'.to))
  BY DEF Bounded, PartsIn
<1> QED
  BY <1>1, <1>2, <1>4, <1>5, <1>6, <1>7 DEF Known

\* The chunks made so far, and the current one when there is one.
LEMMA FlushFacts ==
  ASSUME RecursiveTypeOK
  PROVE  /\ result \in Seq(Chunks) /\ current \in Chunks /\ Flush \in Seq(Chunks)
         /\ current = Nothing => Flush = result
         /\ current # Nothing => Flush = Append(result, current)
<1>1. result \in Seq(Chunks) /\ current \in Chunks
  BY DEF RecursiveTypeOK, Chunks
<1> QED
  BY <1>1 DEF Flush

\* A chunk that is being packed fits too.
LEMMA CurrentFits ==
  ASSUME RecursiveTypeOK, Fit, current # Nothing
  PROVE  current.length \in 1..config.size
<1>1. result \in Seq(Chunks) /\ current \in Chunks /\ Flush = Append(result, current)
  BY FlushFacts
<1>2. Len(result) + 1 \in DOMAIN Flush /\ Flush[Len(result) + 1] = current
  BY <1>1
<1> QED
  BY <1>2 DEF Fit, FitIn

\* A round for a piece that fits adds it behind all others.
LEMMA PutAdds ==
  ASSUME RecursiveInv, NEW q \in Pieces, NEW sep \in Nat, Put(q, sep), Size(q) \in 1..config.size,
         \A p \in PartsIn(Flush) : Follows(p, q)
  PROVE  /\ result' \in Seq(Chunks) /\ current' \in Chunks /\ current' # Nothing
         /\ Flush' \in Seq(Chunks) /\ PartsIn(Flush') = PartsIn(Flush) \cup {q}
         /\ OrderedIn(Flush') /\ FitIn(Flush')
<1> DEFINE w == Alone(q)
<1>0. config.size \in Nat /\ Size(q) \in Nat /\ Size(q) # 0
  BY KnownFacts DEF RecursiveInv
<1>1. w \in Chunks /\ w # Nothing
  BY <1>0 DEF Alone, Nothing, Chunks
<1>2. /\ result \in Seq(Chunks) /\ current \in Chunks /\ Flush \in Seq(Chunks)
      /\ current = Nothing => Flush = result
      /\ current # Nothing => Flush = Append(result, current)
  BY FlushFacts DEF RecursiveInv
<1>3. OrderedIn(Flush) /\ FitIn(Flush)
  BY DEF RecursiveInv, Ordered, Fit
<1>4. CASE result' = Flush /\ current' = w
  <2>1. Flush' = Append(Flush, w)
    BY <1>1, <1>4 DEF Flush
  <2> QED
    BY <1>0, <1>1, <1>2, <1>3, <1>4, <2>1, ChunkAdded
<1>5. CASE /\ ~Overflows(q, sep) /\ current # Nothing /\ result' = result
           /\ current' = [parts |-> Append(current.parts, q),
                          length |-> current.length + sep + Size(q)]
  <2> DEFINE len == current.length + sep + Size(q)
  <2>1. current.length \in 1..config.size
    BY <1>5, CurrentFits DEF RecursiveInv
  <2>2. len \in 1..config.size
    BY <1>0, <1>5, <2>1 DEF Overflows
  <2>3. current.parts \in Seq(Pieces)
    BY <1>2 DEF Chunks
  <2>4. current' \in Chunks /\ current' # Nothing
    BY <1>0, <1>5, <2>2, <2>3 DEF Chunks, Nothing
    <2>5. Flush' = Then(result, current')
    BY <1>5, <2>4 DEF Flush, Then
  <2>6. len \in Nat /\ Flush = Then(result, current)
    BY <1>0, <1>2, <1>5, <2>2 DEF Then
  <2>7. /\ Flush' \in Seq(Chunks) /\ PartsIn(Flush') = PartsIn(Flush) \cup {q}
        /\ OrderedIn(Flush') /\ FitIn(Flush')
    <3>1. current'.parts = Append(current.parts, q) /\ current'.length \in 1..config.size
      BY <1>5, <2>2
    <3> QED
      BY <1>2, <1>3, <2>4, <2>5, <2>6, <3>1, PartAdded
  <2> QED
    BY <1>2, <1>5, <2>4, <2>7
<1> QED
  BY <1>2, <1>4, <1>5 DEF Put, Joined

\* Making a chunk of what is current changes nothing in what is made.
LEMMA FlushKeeps ==
  ASSUME RecursiveTypeOK, FlushAll
  PROVE  /\ result' = Flush /\ Flush' = Flush /\ current' = Nothing
         /\ result' \in Seq(Chunks) /\ current' \in Chunks
<1>1. Nothing \in Chunks
  BY DEF Nothing, Chunks
<1> QED
  BY <1>1, FlushFacts DEF FlushAll, Flush

\* A piece that begins where the loops are and is behind what is made follows all of it.
LEMMA AllFollow ==
  ASSUME RecursiveInv, Splitting, level # "fixed", NEW q \in Pieces, place <= q.from
  PROVE  \A p \in PartsIn(Flush) : Follows(p, q)
<1> SUFFICES ASSUME NEW p \in PartsIn(Flush) PROVE Follows(p, q)
  OBVIOUS
<1>1. p.from < place /\ p.to <= place
  BY DEF RecursiveInv, Bounded
<1>2. p.from \in Nat /\ p.to \in Nat /\ q.from \in Nat /\ place \in Nat
  BY DEF PartsIn, Pieces, RecursiveInv, RecursiveTypeOK
<1> QED
  BY <1>1, <1>2 DEF Follows

\* What is covered up to a piece is covered behind it with it.
LEMMA CoversMore ==
  ASSUME NEW n \in Nat, NEW q \in Pieces, NEW s, NEW t, Covers(s, n), Words(n, q.from) = {},
         PartsIn(t) = PartsIn(s) \cup {q}
  PROVE  Covers(t, q.to)
<1> SUFFICES ASSUME NEW i \in Words(0, q.to) PROVE \E p \in PartsIn(t) : p.from <= i /\ i < p.to
  BY DEF Covers
<1>1. i \in Nat /\ i < q.to /\ At(i) = "word" /\ q.from \in Nat /\ q.to \in Nat
  BY DEF Words, Pieces
<1>2. CASE i < n
  <2>1. i \in Words(0, n)
    BY <1>1, <1>2 DEF Words
  <2> QED
    BY <2>1 DEF Covers
<1>3. CASE n <= i
  <2>1. ~(i < q.from)
    BY <1>1, <1>3 DEF Words
  <2> QED
    BY <1>1, <2>1
<1> QED
  BY <1>1, <1>2, <1>3

\* Text without a word needs no chunk.
LEMMA CoversBlank ==
  ASSUME NEW n \in Nat, NEW m \in Nat, NEW s, Covers(s, n), Words(n, m) = {}
  PROVE  Covers(s, m)
<1> SUFFICES ASSUME NEW i \in Words(0, m) PROVE \E p \in PartsIn(s) : p.from <= i /\ i < p.to
  BY DEF Covers
<1>1. i \in Nat /\ i < m /\ At(i) = "word"
  BY DEF Words
<1>2. i < n
  BY <1>1 DEF Words
<1>3. i \in Words(0, n)
  BY <1>1, <1>2 DEF Words
<1> QED
  BY <1>3 DEF Covers

\* One round of the loop over paragraphs or lines, for a piece that fits.
LEMMA RoundKeeps ==
  ASSUME RecursiveInv, UNCHANGED <<fixedVars, level>>, level \in {"paragraphs", "lines"},
         NEW q \in Pieces, NEW sep \in Nat, Put(q, sep),
         place <= q.from, q.from < q.to, Size(q) <= config.size, Words(place, q.from) = {},
         place' = q.to
  PROVE  /\ result' \in Seq(Chunks) /\ current' \in Chunks
         /\ Ordered' /\ Fit' /\ Covered' /\ Bounded'
<1>1. /\ place \in Nat /\ q.from \in Nat /\ q.to \in Nat /\ Splitting /\ level # "fixed"
      /\ config.size \in Nat /\ Covers(Flush, place) /\ Bounded
  BY KnownFacts DEF RecursiveInv, RecursiveTypeOK, Pieces, Splitting, Covered
<1>2. Size(q) \in 1..config.size
  BY <1>1 DEF Size
<1>3. \A p \in PartsIn(Flush) : Follows(p, q)
  BY <1>1, AllFollow
<1>4. /\ result' \in Seq(Chunks) /\ current' \in Chunks
      /\ PartsIn(Flush') = PartsIn(Flush) \cup {q}
      /\ OrderedIn(Flush') /\ FitIn(Flush')
  BY <1>2, <1>3, PutAdds
<1> DEFINE s == Flush
           t == Flush'
<1>5. Covers(t, q.to)
  <2>1. Covers(s, place) /\ PartsIn(t) = PartsIn(s) \cup {q}
    BY <1>1, <1>4
  <2> HIDE DEF s, t
  <2> QED
    BY <1>1, <2>1, CoversMore
<1>6. ASSUME NEW p \in PartsIn(t) PROVE p.from < place' /\ p.to <= place'
  <2>1. CASE p = q
    BY <1>1, <2>1
  <2>2. CASE p \in PartsIn(Flush)
    <3>1. p.from < place /\ p.to <= place /\ p.from \in Nat /\ p.to \in Nat
      BY <1>1, <2>2 DEF Bounded, PartsIn, Pieces
    <3> QED
      BY <1>1, <3>1
  <2> QED
    BY <1>4, <1>6, <2>1, <2>2
<1>7. t = Flush'
  OBVIOUS
<1> HIDE DEF t
<1> QED
  BY <1>4, <1>5, <1>6, <1>7, Same

\* A call begins with nothing made.
LEMMA RecursiveInitial == ChunkersInit => RecursiveInv
<1> SUFFICES ASSUME ChunkersInit PROVE RecursiveInv
  OBVIOUS
<1>1. Known
  BY DEF ChunkersInit, FixedInit, Known
<1>2. Length \in Nat
  BY <1>1, KnownFacts
<1>3. Nothing \in Chunks /\ Interval(0, 0) \in Pieces
  BY DEF Nothing, Chunks, Interval, Pieces
<1>4. RecursiveTypeOK
  BY <1>3 DEF ChunkersInit, RecursiveInit, RecursiveTypeOK, Chunks
<1>5. Flush = <<>>
  BY DEF ChunkersInit, RecursiveInit, Flush
<1>6. Ordered /\ Fit
  BY <1>5 DEF Ordered, Fit, OrderedIn, FitIn
<1> QED
  BY <1>1, <1>2, <1>4, <1>6 DEF ChunkersInit, RecursiveInit, RecursiveInv, Inside, Splitting

\* A text that fits is its only chunk.
LEMMA ReturnWholeKeeps ==
  ASSUME RecursiveInv, ReturnWhole, UNCHANGED <<fixedVars, strategy>>
  PROVE  RecursiveInv'
<1> DEFINE q == Interval(0, Length)
<1>1. Length \in Nat /\ config.size \in Nat \ {0} /\ Known
  BY KnownFacts DEF RecursiveInv
<1>2. q \in Pieces /\ q.from = 0 /\ q.to = Length /\ Size(q) = Length
  BY <1>1 DEF Interval, Pieces, Size
<1>3. /\ level = "called" /\ level' = "returned" /\ Length <= config.size
      /\ UNCHANGED <<place, para, line, current>>
      /\ place = 0 /\ result = <<>> /\ current = Nothing
      /\ result' = IF Length = 0 THEN <<>> ELSE <<Alone(q)>>
  BY DEF ReturnWhole, RecursiveInv, Inside
<1> HIDE DEF q
<1>4. Flush' = result'
  BY <1>3 DEF Flush
<1> DEFINE t == result'
<1>5. t \in Seq(Chunks) /\ OrderedIn(t) /\ FitIn(t) /\ Covers(t, Length)
  <2>1. CASE Length = 0
    BY <1>3, <2>1 DEF OrderedIn, FitIn, Covers, Words
  <2>2. CASE Length # 0
    <3> DEFINE e == <<>>
    <3>1. e \in Seq(Chunks) /\ OrderedIn(e) /\ FitIn(e) /\ PartsIn(e) = {} /\ Covers(e, 0)
      BY DEF OrderedIn, FitIn, PartsIn, Covers, Words
    <3>2. t = Append(e, Alone(q))
      BY <1>3, <2>2
    <3>3. Size(q) \in 1..config.size /\ Size(q) \in Nat
      BY <1>1, <1>2, <1>3, <2>2
    <3> HIDE DEF e, t
    <3>4. /\ t \in Seq(Chunks) /\ PartsIn(t) = PartsIn(e) \cup {q}
          /\ OrderedIn(t) /\ FitIn(t)
      BY <1>2, <3>1, <3>2, <3>3, ChunkAdded
    <3>5. Words(0, q.from) = {}
      BY <1>2 DEF Words
    <3> QED
      BY <1>2, <3>1, <3>4, <3>5, CoversMore
  <2> QED
    BY <2>1, <2>2
<1>6. /\ Ordered' /\ Fit' /\ Known' /\ Length' = Length
  <2>1. t = Flush'
    BY <1>4
  <2> HIDE DEF t
  <2> QED
    BY <1>1, <1>5, <2>1, Same
<1>7. RecursiveTypeOK'
  BY <1>3, <1>5 DEF RecursiveInv, RecursiveTypeOK, Chunks
<1>8. Covers(result, Length)'
  BY <1>5, <1>6 DEF Covers, Words, At, fixedVars
<1>9. Inside'
  BY <1>3, <1>6 DEF RecursiveInv, Inside
<1> QED
  BY <1>3, <1>6, <1>7, <1>8, <1>9 DEF RecursiveInv, Splitting

\* A longer text is split.
LEMMA SplitKeeps ==
  ASSUME RecursiveInv, Split, UNCHANGED <<fixedVars, strategy>>
  PROVE  RecursiveInv'
<1>1. /\ level = "called" /\ level' = "paragraphs"
      /\ UNCHANGED <<place, para, line, result, current>>
      /\ place = 0 /\ result = <<>> /\ current = Nothing
  BY DEF Split, RecursiveInv, Inside
<1> DEFINE t == Flush
<1>2. t = Flush' /\ t = <<>>
  BY <1>1 DEF Flush
<1>3. OrderedIn(t) /\ FitIn(t) /\ Covers(t, 0) /\ PartsIn(t) = {}
  BY <1>2 DEF OrderedIn, FitIn, Covers, Words, PartsIn
<1> HIDE DEF t
<1>4. Ordered' /\ Fit' /\ Covered' /\ Bounded' /\ Known' /\ Length' = Length
  BY <1>1, <1>2, <1>3, Same DEF RecursiveInv
<1>5. RecursiveTypeOK' /\ Inside'
  BY <1>1, <1>4 DEF RecursiveInv, RecursiveTypeOK, Inside
<1> QED
  BY <1>1, <1>4, <1>5 DEF RecursiveInv

\* When a piece is too long, or no piece is left, what is current is a chunk and the loops
\* go on where the next word is.
LEMMA FlushedKeeps ==
  ASSUME RecursiveInv, FlushAll, UNCHANGED fixedVars, level \in {"paragraphs", "lines"},
         place' \in Nat, place <= place', Words(place, place') = {}
  PROVE  /\ result' \in Seq(Chunks) /\ current' \in Chunks /\ current' = Nothing
         /\ Ordered' /\ Fit' /\ Covered' /\ Bounded' /\ Known' /\ Length' = Length
         /\ result' = Flush
<1>1. /\ result' = Flush /\ Flush' = Flush /\ current' = Nothing
      /\ result' \in Seq(Chunks) /\ current' \in Chunks
  BY FlushKeeps DEF RecursiveInv
<1>2. /\ place \in Nat /\ Splitting /\ level # "fixed" /\ Covers(Flush, place) /\ Bounded
      /\ OrderedIn(Flush) /\ FitIn(Flush) /\ Known
  BY DEF RecursiveInv, RecursiveTypeOK, Splitting, Covered, Ordered, Fit
<1>3. Covers(Flush, place')
  BY <1>2, CoversBlank
<1>4. \A q \in PartsIn(Flush) : q.from < place' /\ q.to <= place'
  <2> SUFFICES ASSUME NEW q \in PartsIn(Flush) PROVE q.from < place' /\ q.to <= place'
    OBVIOUS
  <2>1. q.from < place /\ q.to <= place /\ q.from \in Nat /\ q.to \in Nat
    BY <1>2 DEF Bounded, PartsIn, Pieces
  <2> QED
    BY <1>2, <2>1
<1> DEFINE t == Flush
<1>5. t = Flush'
  BY <1>1
<1>6. /\ OrderedIn(t) /\ FitIn(t) /\ Covers(t, place')
      /\ \A q \in PartsIn(t) : q.from < place' /\ q.to <= place'
  BY <1>2, <1>3, <1>4
<1>7. Ordered' /\ Fit' /\ Covered' /\ Bounded' /\ Known' /\ Length' = Length
  <2> HIDE DEF t
  <2> QED
    BY <1>2, <1>5, <1>6, Same
<1> QED
  BY <1>1, <1>7

\* A round of the loop over paragraphs.
LEMMA TakeParagraphKeeps ==
  ASSUME RecursiveInv, TakeParagraph, UNCHANGED <<fixedVars, strategy>>
  PROVE  RecursiveInv'
<1> DEFINE q == Piece(place, Length, Breaks)
<1>1. /\ Length \in Nat /\ config.size \in Nat \ {0} /\ Known /\ place \in Nat /\ place <= Length
      /\ level = "paragraphs" /\ Words(place, Length) # {} /\ UNCHANGED line
  BY KnownFacts DEF RecursiveInv, RecursiveTypeOK, Inside, TakeParagraph
<1>2. /\ q \in Pieces /\ place <= q.from /\ q.from < q.to /\ q.to <= Length
      /\ Words(place, q.from) = {}
  <2>1. Breaks \in SUBSET Newlines
    BY DEF Breaks
  <2> QED
    BY <1>1, <2>1, PieceFacts
<1>3. \/ /\ Size(q) <= config.size /\ Put(q, 2)
         /\ place' = q.to /\ UNCHANGED <<level, para>>
      \/ /\ Size(q) > config.size /\ FlushAll
         /\ level' = "lines" /\ para' = q /\ place' = q.from
  BY DEF TakeParagraph
<1> HIDE DEF q
<1>4. q.from \in Nat /\ q.to \in Nat
  BY <1>2 DEF Pieces
<1>5. CASE Size(q) <= config.size
  <2>1. Put(q, 2) /\ place' = q.to /\ UNCHANGED <<level, para>>
    BY <1>1, <1>3, <1>4, <1>5 DEF Size
  <2>2. result' \in Seq(Chunks) /\ current' \in Chunks /\ Ordered' /\ Fit' /\ Covered' /\ Bounded'
    BY <1>1, <1>2, <1>5, <2>1, RoundKeeps
  <2>3. Known' /\ Length' = Length
    BY <1>1 DEF Known, Length, fixedVars
  <2>4. RecursiveTypeOK' /\ Inside'
    BY <1>1, <1>2, <1>4, <2>1, <2>2, <2>3 DEF RecursiveInv, RecursiveTypeOK, Inside, Chunks
  <2> QED
    BY <1>1, <2>1, <2>2, <2>3, <2>4 DEF RecursiveInv
<1>6. CASE Size(q) > config.size
  <2>1. FlushAll /\ level' = "lines" /\ para' = q /\ place' = q.from
    BY <1>1, <1>3, <1>4, <1>6 DEF Size
  <2>2. /\ result' \in Seq(Chunks) /\ current' \in Chunks /\ Ordered' /\ Fit' /\ Covered' /\ Bounded'
        /\ Known' /\ Length' = Length
    BY <1>1, <1>2, <1>4, <2>1, FlushedKeeps
  <2>3. RecursiveTypeOK' /\ Inside'
    BY <1>1, <1>2, <1>4, <2>1, <2>2 DEF RecursiveInv, RecursiveTypeOK, Inside, Chunks
  <2> QED
    BY <2>1, <2>2, <2>3 DEF RecursiveInv
<1> QED
  BY <1>3, <1>5, <1>6

\* A round of the loop over the lines of a paragraph that is too long.
LEMMA TakeLineKeeps ==
  ASSUME RecursiveInv, TakeLine, UNCHANGED <<fixedVars, strategy>>
  PROVE  RecursiveInv'
<1> DEFINE q == Piece(place, para.to, Newlines)
<1>1. /\ Length \in Nat /\ config.size \in Nat \ {0} /\ Known /\ place \in Nat
      /\ para.to \in Nat /\ para.to <= Length /\ place <= Length
      /\ level = "lines" /\ Words(place, para.to) # {} /\ UNCHANGED para
  BY KnownFacts DEF RecursiveInv, RecursiveTypeOK, Inside, TakeLine, Pieces
<1>2. /\ q \in Pieces /\ place <= q.from /\ q.from < q.to /\ q.to <= para.to
      /\ At(q.from) = "word" /\ At(q.to - 1) = "word" /\ Words(place, q.from) = {}
      /\ \A j \in q.from..(q.to - 1) : At(j) # "newline"
  <2>1. Newlines \in SUBSET Newlines
    OBVIOUS
  <2> QED
    BY <1>1, <2>1, PieceFacts
<1>3. \/ /\ Size(q) <= config.size /\ Put(q, 1)
         /\ place' = q.to /\ UNCHANGED <<level, line>>
      \/ /\ Size(q) > config.size /\ FlushAll
         /\ level' = "fixed" /\ line' = q /\ place' = q.from
  BY DEF TakeLine
<1> HIDE DEF q
<1>4. q.from \in Nat /\ q.to \in Nat
  BY <1>2 DEF Pieces
<1>5. CASE Size(q) <= config.size
  <2>1. Put(q, 1) /\ place' = q.to /\ UNCHANGED <<level, line>>
    BY <1>1, <1>3, <1>4, <1>5 DEF Size
  <2>2. result' \in Seq(Chunks) /\ current' \in Chunks /\ Ordered' /\ Fit' /\ Covered' /\ Bounded'
    BY <1>1, <1>2, <1>5, <2>1, RoundKeeps
  <2>3. Known' /\ Length' = Length
    BY <1>1 DEF Known, Length, fixedVars
  <2>4. RecursiveTypeOK' /\ Inside'
    BY <1>1, <1>2, <1>4, <2>1, <2>2, <2>3 DEF RecursiveInv, RecursiveTypeOK, Inside, Chunks
  <2> QED
    BY <1>1, <2>1, <2>2, <2>3, <2>4 DEF RecursiveInv
<1>6. CASE Size(q) > config.size
  <2>1. FlushAll /\ level' = "fixed" /\ line' = q /\ place' = q.from
    BY <1>1, <1>3, <1>4, <1>6 DEF Size
  <2>2. /\ result' \in Seq(Chunks) /\ current' \in Chunks /\ Ordered' /\ Fit' /\ Covered' /\ Bounded'
        /\ Known' /\ Length' = Length /\ current' = Nothing
    BY <1>1, <1>2, <1>4, <2>1, FlushedKeeps
  <2>3. IsLong(q)
    BY <1>1, <1>2, <1>4, <1>6 DEF IsLong, Words
  <2>4. IsLong(line)'
    BY <2>1, <2>2, <2>3 DEF IsLong, Words, At, fixedVars
  <2>5. RecursiveTypeOK' /\ Inside'
    BY <1>1, <1>2, <1>4, <2>1, <2>2, <2>4 DEF RecursiveInv, RecursiveTypeOK, Inside, Chunks
  <2> QED
    BY <2>1, <2>2, <2>5 DEF RecursiveInv
<1> QED
  BY <1>3, <1>5, <1>6

\* Back to the paragraphs.
LEMMA LinesOverKeeps ==
  ASSUME RecursiveInv, LinesOver, UNCHANGED <<fixedVars, strategy>>
  PROVE  RecursiveInv'
<1>1. /\ place \in Nat /\ para.to \in Nat /\ para.to <= Length /\ place <= para.to
      /\ level = "lines" /\ Words(place, para.to) = {} /\ FlushAll
      /\ level' = "paragraphs" /\ place' = para.to /\ UNCHANGED <<para, line>>
  BY DEF RecursiveInv, RecursiveTypeOK, Inside, LinesOver, Pieces
<1>2. /\ result' \in Seq(Chunks) /\ current' \in Chunks /\ Ordered' /\ Fit' /\ Covered' /\ Bounded'
      /\ Known' /\ Length' = Length
  BY <1>1, FlushedKeeps
<1>3. RecursiveTypeOK' /\ Inside'
  BY <1>1, <1>2 DEF RecursiveInv, RecursiveTypeOK, Inside, Chunks
<1> QED
  BY <1>1, <1>2, <1>3 DEF RecursiveInv

\* The end of the text.
LEMMA ParagraphsOverKeeps ==
  ASSUME RecursiveInv, ParagraphsOver, UNCHANGED <<fixedVars, strategy>>
  PROVE  RecursiveInv'
<1>1. /\ place \in Nat /\ place <= Length /\ Length \in Nat
      /\ level = "paragraphs" /\ Words(place, Length) = {} /\ FlushAll
      /\ level' = "returned" /\ UNCHANGED <<place, para, line>>
  BY KnownFacts DEF RecursiveInv, RecursiveTypeOK, Inside, ParagraphsOver
<1>2. Words(place, place) = {}
  BY <1>1 DEF Words
<1>3. /\ result' \in Seq(Chunks) /\ current' \in Chunks /\ Ordered' /\ Fit'
      /\ Known' /\ Length' = Length /\ current' = Nothing /\ result' = Flush
  BY <1>1, <1>2, FlushedKeeps
<1>4. RecursiveTypeOK' /\ Inside'
  BY <1>1, <1>3 DEF RecursiveInv, RecursiveTypeOK, Inside, Chunks
<1> DEFINE s == Flush
<1>5. Covers(s, place)
  BY <1>1 DEF RecursiveInv, Splitting, Covered
<1>6. Covers(s, Length)
  <2> HIDE DEF s
  <2> QED
    BY <1>1, <1>5, CoversBlank
<1>7. Covers(result, Length)'
  <2>1. s = result'
    BY <1>3
  <2> HIDE DEF s
  <2> QED
    BY <1>6, <1>3, <2>1 DEF Covers, Words, At, fixedVars
<1> QED
  BY <1>1, <1>3, <1>4, <1>7 DEF RecursiveInv, Splitting

\* A cut of a line that is too long overlaps what is made on that line alone.
LEMMA CutLineKeeps ==
  ASSUME RecursiveInv, CutLine, UNCHANGED <<fixedVars, strategy>>
  PROVE  RecursiveInv'
<1> DEFINE end == IF place + config.size < line.to THEN place + config.size ELSE line.to
           next == place + config.size - config.overlap
           q == Interval(place, end)
           s == Flush
           t == Flush'
<1>1. /\ Length \in Nat /\ config.size \in Nat \ {0} /\ config.overlap \in Nat
      /\ config.overlap < config.size /\ Known
      /\ place \in Nat /\ line.from \in Nat /\ line.to \in Nat /\ level = "fixed"
      /\ line.from <= place /\ place < line.to /\ line.to <= para.to /\ para.to <= Length
      /\ para.to \in Nat /\ IsLong(line) /\ current = Nothing
      /\ UNCHANGED <<para, line, current>>
  BY KnownFacts DEF RecursiveInv, RecursiveTypeOK, Inside, CutLine, Pieces
<1>2. /\ result' = IF HasWord(place, end) THEN Append(result, Alone(q)) ELSE result
      /\ \/ next < line.to /\ place' = next /\ level' = "fixed"
         \/ ~(next < line.to) /\ place' = line.to /\ level' = "lines"
  BY <1>1 DEF CutLine, NextCut
<1>3. /\ end \in Nat /\ place < end /\ end <= line.to /\ end - place <= config.size
      /\ next \in Nat /\ place < next /\ (next < line.to => next <= end)
      /\ ~(next < line.to) => end = line.to
  BY <1>1
<1>4. q \in Pieces /\ q.from = place /\ q.to = end /\ Size(q) \in 1..config.size /\ Size(q) \in Nat
  BY <1>1, <1>3 DEF Interval, Pieces, Size
<1>5. /\ result \in Seq(Chunks) /\ current \in Chunks /\ s \in Seq(Chunks) /\ s = result
      /\ t = result'
  BY <1>1, FlushFacts DEF RecursiveInv, Flush
<1>6. OrderedIn(s) /\ FitIn(s) /\ Covers(s, place)
  BY <1>1 DEF RecursiveInv, Ordered, Fit, Covered, Splitting
<1>7. \A p \in PartsIn(s) : /\ p.from \in Nat /\ p.to \in Nat /\ p.from < place
                            /\ p.to <= place \/ (line.from <= p.from /\ p.to <= line.to)
  BY <1>1 DEF RecursiveInv, Bounded, Splitting, PartsIn, Pieces
<1> HIDE DEF end, next, q, s, t
<1>8. \A i \in line.from..(line.to - 1) : TooLong(i)
  <2> SUFFICES ASSUME NEW i \in line.from..(line.to - 1) PROVE TooLong(i)
    OBVIOUS
  <2> DEFINE a == line.from
             b == line.to - 1
  <2>1. a \in Words(0, Length) /\ b \in Words(0, Length) /\ a <= i /\ i <= b
    BY <1>1 DEF IsLong
  <2>2. b + 1 - a > config.size /\ \A j \in a..b : At(j) # "newline"
    BY <1>1 DEF IsLong, Size
  <2> HIDE DEF a, b
  <2> QED
    BY <2>1, <2>2 DEF TooLong
<1>9. \A p \in PartsIn(s) : Follows(p, q)
  <2> SUFFICES ASSUME NEW p \in PartsIn(s), NEW i \in q.from..(p.to - 1)
               PROVE  p.from < q.from /\ TooLong(i)
    BY <1>4, <1>7 DEF Follows
  <2>1. i \in line.from..(line.to - 1)
    BY <1>1, <1>4, <1>7
  <2> QED
    BY <1>4, <1>7, <1>8, <2>1
<1>10. /\ t \in Seq(Chunks) /\ PartsIn(t) \subseteq PartsIn(s) \cup {q}
       /\ OrderedIn(t) /\ FitIn(t) /\ Covers(t, end)
  <2>1. CASE HasWord(place, end)
    <3>1. t = Append(s, Alone(q))
      BY <1>2, <1>5, <2>1
    <3>2. t \in Seq(Chunks) /\ PartsIn(t) = PartsIn(s) \cup {q} /\ OrderedIn(t) /\ FitIn(t)
      BY <1>4, <1>5, <1>6, <1>9, <3>1, ChunkAdded
    <3>3. Words(place, q.from) = {}
      BY <1>1, <1>4 DEF Words
    <3>4. Covers(t, end)
      BY <1>1, <1>4, <1>6, <3>2, <3>3, CoversMore
    <3> QED
      BY <3>2, <3>4
  <2>2. CASE ~HasWord(place, end)
    <3>1. t = s
      BY <1>2, <1>5, <2>2
    <3>2. Words(place, end) = {}
      BY <1>1, <1>3, <2>2 DEF Words, HasWord
    <3>3. Covers(s, end)
      BY <1>1, <1>3, <1>6, <3>2, CoversBlank
    <3> QED
      BY <1>5, <1>6, <3>1, <3>3
  <2> QED
    BY <2>1, <2>2
<1>11. place' \in Nat /\ place < place' /\ place' <= end /\ place' <= line.to
  BY <1>1, <1>2, <1>3
<1>12. Covers(t, place')
  <2>1. Words(0, place') \subseteq Words(0, end)
    BY <1>3, <1>11 DEF Words
  <2> QED
    BY <1>10, <2>1 DEF Covers
<1>13. \A p \in PartsIn(t) :
         p.from < place' /\ (p.to <= place' \/ (level' = "fixed" /\ line'.from <= p.from
                                                                /\ p.to <= line'.to))
  <2> SUFFICES ASSUME NEW p \in PartsIn(t)
               PROVE  p.from < place' /\ (p.to <= place' \/ (level' = "fixed" /\ line.from <= p.from
                                                                             /\ p.to <= line.to))
    BY <1>1
  <2>1. /\ p.from \in Nat /\ p.to \in Nat /\ p.from <= place
        /\ p.to <= place \/ (line.from <= p.from /\ p.to <= line.to)
    BY <1>1, <1>3, <1>4, <1>7, <1>10
  <2> QED
    BY <1>1, <1>2, <1>11, <2>1
<1>14. Ordered' /\ Fit' /\ Covered' /\ Bounded' /\ Known' /\ Length' = Length
  <2>1. t = Flush'
    BY DEF t
  <2> QED
    BY <1>1, <1>10, <1>12, <1>13, <2>1, Same
<1>15. IsLong(line)'
  BY <1>1, <1>14 DEF IsLong, Words, At, fixedVars
<1>16. RecursiveTypeOK'
  BY <1>1, <1>2, <1>5, <1>10, <1>11 DEF RecursiveInv, RecursiveTypeOK, Chunks
<1>17. Inside'
  BY <1>1, <1>2, <1>11, <1>14, <1>15 DEF Inside
<1> QED
  BY <1>2, <1>14, <1>16, <1>17 DEF RecursiveInv, Splitting

\* The invariant survives the other chunker and steps that do nothing.
LEMMA OtherKeeps ==
  ASSUME RecursiveInv, UNCHANGED <<strategy, recursiveVars>>, UNCHANGED <<text, config>>
  PROVE  RecursiveInv'
<1>1. UNCHANGED <<strategy, level, place, para, line, result, current>>
  BY DEF recursiveVars
<1>2. Length' = Length /\ (\A i : At(i)' = At(i)) /\ (\A i, j : Words(i, j)' = Words(i, j))
      /\ Flush' = Flush
  BY <1>1 DEF Length, At, Words, Flush
<1>3. \A p, q : Follows(p, q)' <=> Follows(p, q)
  BY <1>1, <1>2 DEF Follows, TooLong
<1>4. Ordered' /\ Fit'
  BY <1>2, <1>3 DEF RecursiveInv, Ordered, Fit, OrderedIn, FitIn
<1>5. Splitting' => Covered' /\ Bounded'
  BY <1>1, <1>2 DEF RecursiveInv, Splitting, Covered, Covers, Bounded, PartsIn
<1>6. level' = "returned" => Covers(result, Length)'
  BY <1>1, <1>2 DEF RecursiveInv, Covers, PartsIn
<1>7. Known' /\ RecursiveTypeOK' /\ Inside'
  BY <1>1, <1>2 DEF RecursiveInv, Known, RecursiveTypeOK, Inside, IsLong, Words, At
<1> QED
  BY <1>4, <1>5, <1>6, <1>7 DEF RecursiveInv

\* Every step keeps the invariant.
LEMMA RecursiveInductive == RecursiveInv /\ [ChunkersNext]_chunkersVars => RecursiveInv'
<1> SUFFICES ASSUME RecursiveInv, [ChunkersNext]_chunkersVars PROVE RecursiveInv'
  OBVIOUS
<1>1. CASE RecursiveNext /\ UNCHANGED <<fixedVars, strategy>>
  BY <1>1, ReturnWholeKeeps, SplitKeeps, TakeParagraphKeeps, TakeLineKeeps, CutLineKeeps,
     LinesOverKeeps, ParagraphsOverKeeps DEF RecursiveNext
<1>2. CASE FixedNext /\ UNCHANGED <<strategy, recursiveVars>>
  <2>1. UNCHANGED <<text, config>>
    BY <1>2 DEF FixedNext, ReturnShort, Begin, Cut
  <2> QED
    BY <1>2, <2>1, OtherKeeps
<1>3. CASE UNCHANGED chunkersVars
  BY <1>3, OtherKeeps DEF chunkersVars, fixedVars
<1> QED
  BY <1>1, <1>2, <1>3 DEF ChunkersNext

\* So it always holds.
LEMMA RecursiveInvariant == ChunkersSpec => []RecursiveInv
BY RecursiveInitial, RecursiveInductive, PTL DEF ChunkersSpec

-----------------------------------------------------------------------------
(* The recursive chunker: theorems.                                          *)

\* The type invariant of the recursive chunker, for any texts and accepted configurations.
THEOREM RecursiveTypes == ChunkersSpec => []RecursiveTypeOK
<1>1. RecursiveInv => RecursiveTypeOK
  BY DEF RecursiveInv
<1> QED
  BY <1>1, RecursiveInvariant, PTL

\* Whatever the text and the accepted configuration, overlapping or not, the recursive
\* chunker loses no word, keeps the order, repeats text only within lines that are longer
\* than a chunk, and makes no chunk longer than chunk_size.
THEOREM NothingDropped == ChunkersSpec => []RecursiveKeepsAll
<1>1. ASSUME RecursiveInv PROVE RecursiveKeepsAll
  <2>1. result \in Seq(Chunks) /\ current \in Chunks /\ RecursiveTypeOK
    BY <1>1, FlushFacts DEF RecursiveInv
  <2>2. OrderedIn(result) /\ FitIn(result)
    <3>1. CASE current = Nothing
      BY <1>1, <3>1 DEF RecursiveInv, Ordered, Fit, Flush
    <3>2. CASE current # Nothing
      <4> DEFINE s == Flush
      <4>1. s = Append(result, current)
        BY <2>1, <3>2, FlushFacts
      <4>2. OrderedIn(s) /\ FitIn(s)
        BY <1>1 DEF RecursiveInv, Ordered, Fit
      <4> HIDE DEF s
      <4>3. \A k \in DOMAIN result : k \in DOMAIN s /\ s[k] = result[k]
        BY <2>1, <4>1
      <4> QED
        BY <4>2, <4>3 DEF OrderedIn, FitIn
    <3> QED
      BY <3>1, <3>2
  <2>3. ASSUME level = "returned", NEW i \in Words(0, Length)
        PROVE  \E k \in DOMAIN result : \E m \in DOMAIN result[k].parts : Holds(k, m, i)
    <3>1. PICK p \in PartsIn(result) : p.from <= i /\ i < p.to
      BY <1>1, <2>3 DEF RecursiveInv, Covers
    <3> QED
      BY <3>1 DEF PartsIn, Holds
  <2> QED
    BY <2>2, <2>3 DEF RecursiveKeepsAll, OrderedIn, Earlier, FitIn
<1> QED
  BY <1>1, RecursiveInvariant, PTL

\* A round that stays in its loop goes on in the text: unlike TextChunker's, these loops end
\* for every accepted configuration.
THEOREM RecursiveLoopsEnd == ChunkersSpec => RecursiveMovesOn
<1>1. ASSUME RecursiveInv, RecursiveNext, UNCHANGED level PROVE place' > place
  <2>1. /\ Known /\ Length \in Nat /\ place \in Nat /\ place <= Length /\ line.to \in Nat
        /\ level = "lines" => para.to \in Nat /\ para.to <= Length
        /\ level = "fixed" => place < line.to
        /\ config.size \in Nat /\ config.overlap \in Nat /\ config.overlap < config.size
    BY <1>1, KnownFacts DEF RecursiveInv, RecursiveTypeOK, Inside, Pieces
  <2>2. ASSUME NEW q \in Pieces, place <= q.from, q.from < q.to, place' = q.to
        PROVE  place' > place
    BY <2>1, <2>2 DEF Pieces
  <2>3. CASE TakeParagraph
    <3> DEFINE q == Piece(place, Length, Breaks)
    <3>1. Breaks \in SUBSET Newlines /\ Words(place, Length) # {}
      BY <2>3 DEF Breaks, TakeParagraph
    <3>2. q \in Pieces /\ place <= q.from /\ q.from < q.to
      BY <2>1, <3>1, PieceFacts
    <3>3. place' = q.to
      BY <1>1, <2>3 DEF TakeParagraph
    <3> HIDE DEF q
    <3> QED
      BY <2>2, <3>2, <3>3
  <2>4. CASE TakeLine
    <3> DEFINE q == Piece(place, para.to, Newlines)
    <3>1. Newlines \in SUBSET Newlines /\ Words(place, para.to) # {} /\ level = "lines"
      BY <2>4 DEF TakeLine
    <3>2. q \in Pieces /\ place <= q.from /\ q.from < q.to
      BY <2>1, <3>1, PieceFacts
    <3>3. place' = q.to
      BY <1>1, <2>4 DEF TakeLine
    <3> HIDE DEF q
    <3> QED
      BY <2>2, <3>2, <3>3
  <2>5. CASE CutLine
    <3>1. level = "fixed" /\ (place' = place + config.size - config.overlap \/ place' = line.to)
      BY <2>5 DEF CutLine, NextCut
    <3> QED
      BY <2>1, <3>1
  <2>6. ~(ReturnWhole \/ Split \/ LinesOver \/ ParagraphsOver)
    BY <1>1 DEF ReturnWhole, Split, LinesOver, ParagraphsOver
  <2> QED
    BY <1>1, <2>3, <2>4, <2>5, <2>6 DEF RecursiveNext
<1>2. RecursiveInv /\ [ChunkersNext]_chunkersVars
        => [strategy = "recursive" /\ UNCHANGED level => place' > place]_chunkersVars
  BY <1>1 DEF ChunkersNext
<1> QED
  BY <1>2, RecursiveInvariant, PTL DEF ChunkersSpec, RecursiveMovesOn

\* get_chunker hands the text to one chunker or the other: beside the recursive one,
\* TextChunker does what its own specification says, and its theorems hold.
THEOREM OneChunkerWorks == ChunkersSpec => FixedSpec
<1>1. ChunkersInit => FixedInit
  BY DEF ChunkersInit
<1>2. [ChunkersNext]_chunkersVars => [FixedNext]_fixedVars
  BY DEF ChunkersNext, chunkersVars
<1> QED
  BY <1>1, <1>2, PTL DEF ChunkersSpec, FixedSpec
=============================================================================
