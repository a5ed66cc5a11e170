------------------------------ MODULE RagAnswer ------------------------------
(***************************************************************************)
(* One question answered by RAGAgent: embedding, retrieval from one or two    *)
(* rankings, fusion, reranking, generation. Up to three calls of models, of   *)
(* which only the reranker's may fail without failing the question.           *)
(***************************************************************************)
EXTENDS ProviderRetry, FiniteSets, Functions

CONSTANTS
  Chunks,        \* the chunks of ready documents the user may read
  TopK,          \* rag_top_k
  Unknown,       \* stands for any id the reranker's model makes up
  MaxNamed       \* bound: the ids the reranker's model names

ASSUME RagAssumption == TopK \in Nat \ {0} /\ MaxNamed \in Nat /\ Unknown \notin Chunks

VARIABLES
  pc,        \* where the query is
  conf,      \* the settings, and which providers can be made from them
  found,     \* what the vector search returned, best first
  matched,   \* what the keyword search returned, best first
  results,   \* the list retrieve works on and returns
  reason,    \* reranker_fallback_reason: "none", "unsupported" or "failed"
  end        \* "none", "answered", or the exception of the query

listVars == <<found, matched, results>>
ragVars == <<pc, conf, listVars, reason, end>>

Modes == {"vector", "keyword", "hybrid"}
Rerankers == {"none", "llm", "unsupported"}
Providers == {"llm", "embedding"}

\* What a search may return: chunks, none twice, at most TopK.
Rankings == {s \in UNION {[1..n -> Chunks] : n \in 0..TopK} : IsInjective(s)}

Goto(l) == pc' = l
Raise(e) == Goto("raised") /\ end' = e

-----------------------------------------------------------------------------
(* Retrieval.                                                                *)

\* RAGAgent.__init__ makes both providers, or raises.
Construct ==
  /\ pc = "start"
  /\ \/ ~ Providers \subseteq conf.providers /\ Raise("config_error") /\ UNCHANGED callVars
     \/ /\ Providers \subseteq conf.providers /\ UNCHANGED end
        /\ IF conf.mode = "keyword" THEN Goto("matching") /\ UNCHANGED callVars
                                    ELSE Goto("embedding") /\ Begin("embed")
  /\ UNCHANGED <<conf, listVars, reason>>

Embedded == /\ pc = "embedding" /\ ~Under
            /\ IF Outcome = "value" THEN Goto("searching") /\ UNCHANGED end
                                    ELSE Raise(Outcome)
            /\ UNCHANGED <<callVars, conf, listVars, reason>>

\* In mode hybrid the lists meet in Fuse; else the search's is the result.
Hold(s, next) == IF conf.mode = "hybrid" THEN Goto(next) /\ UNCHANGED results
                                         ELSE Goto("retrieved") /\ results' = s

Search == /\ pc = "searching"
          /\ \E s \in Rankings : found' = s /\ Hold(s, "matching")
          /\ UNCHANGED <<callVars, conf, matched, reason, end>>

Match == /\ pc = "matching"
         /\ \E s \in Rankings : matched' = s /\ Hold(s, "fusing")
         /\ UNCHANGED <<callVars, conf, found, reason, end>>

\* The rank of c in s, from 1, or 0 when it is not there.
Rank(c, s) == IF c \in Range(s) THEN CHOOSE i \in DOMAIN s : s[i] = c ELSE 0

\* Reciprocal rank fusion: the sum of 1 / (60 + rank), as a fraction.
RrfK == 60
Share(rank) == IF rank = 0 THEN <<0, 1>> ELSE <<1, RrfK + rank>>
Plus(x, y) == <<x[1] * y[2] + y[1] * x[2], x[2] * y[2]>>

\* A slip of Score: the second list's share replaces the first's.
LastShare(c) == Share(IF Rank(c, matched) # 0 THEN Rank(c, matched) ELSE Rank(c, found))

Score(c) == Plus(Share(Rank(c, found)), Share(Rank(c, matched)))
Above(x, y) == x[1] * y[2] > y[1] * x[2]

\* The sequences of all of S that go by the relation before: one, when it is a total order.
InOrder(S, before) == {s \in [1..Cardinality(S) -> S] :
                         \A i, j \in DOMAIN s : i < j => <<s[i], s[j]>> \in before}

\* By score; then as the chunks came into the dictionary of scores, which sorted() keeps.
Place(c) == IF Rank(c, found) # 0 THEN Rank(c, found) ELSE Len(found) + Rank(c, matched)
Before(c, d) == \/ Above(Score(c), Score(d))
                \/ ~Above(Score(d), Score(c)) /\ Place(c) < Place(d)

Cut(s) == SubSeq(s, 1, IF Len(s) < TopK THEN Len(s) ELSE TopK)

Fused == LET U == Range(found) \cup Range(matched)
         IN {Cut(s) : s \in InOrder(U, {p \in U \X U : Before(p[1], p[2])})}

Fuse == /\ pc = "fusing" /\ Goto("retrieved")
        /\ results' \in Fused
        /\ UNCHANGED <<callVars, conf, found, matched, reason, end>>

-----------------------------------------------------------------------------
(* Reranking and generation. The lists of the searches are out of scope.     *)

\* LLMReranker asks nothing about fewer than two results.
Rerank == /\ pc = "retrieved"
          /\ found' = <<>> /\ matched' = <<>>
          /\ \/ /\ conf.reranker = "llm" /\ Len(results) > 1
                /\ Goto("reranking") /\ Begin("rerank") /\ UNCHANGED reason
             \/ /\ conf.reranker # "llm" \/ Len(results) <= 1
                /\ Goto("reranked") /\ UNCHANGED callVars
                /\ reason' = IF conf.reranker = "unsupported" THEN "unsupported" ELSE "none"
          /\ UNCHANGED <<conf, results, end>>

Naming == UNION {[1..n -> Range(results) \cup {Unknown}] : n \in 0..MaxNamed}

\* The candidates named, by where they are first, and before the others as they were.
Sooner(c, d, named) == \/ \E i \in DOMAIN named : named[i] = c /\ \A j \in 1..i : named[j] # d
                       \/ {c, d} \cap Range(named) = {} /\ Rank(c, results) < Rank(d, results)
By(named) == {p \in Range(results) \X Range(results) : Sooner(p[1], p[2], named)}

\* A slip of Ranked: what the model does not name is left out.
NamedOnly(named) == InOrder(Range(results) \cap Range(named), By(named))

\* Each candidate once.
Ranked(named) == InOrder(Range(results), By(named))

\* A slip of Reranked: an exception of the call goes through.
RerankRaises ==
  /\ pc = "reranking" /\ ~Under
  /\ IF Outcome = "value" THEN Goto("reranked") /\ UNCHANGED end ELSE Raise(Outcome)
  /\ UNCHANGED <<callVars, conf, found, matched, results, reason>>

\* A call that failed, a text that is not the object asked for, one without a
\* known id: whatever it is, the exception is swallowed and the order kept.
Reranked ==
  /\ pc = "reranking" /\ ~Under /\ Goto("reranked")
  /\ \/ reason' = "failed" /\ UNCHANGED results
     \/ /\ Outcome = "value" /\ UNCHANGED reason
        /\ \E named \in Naming : /\ Range(named) \cap Range(results) # {}
                                 /\ results' \in Ranked(named)
  /\ UNCHANGED <<callVars, conf, found, matched, end>>

Generate == /\ pc = "reranked" /\ Goto("generating")
            /\ Begin("generate")
            /\ UNCHANGED <<conf, listVars, reason, end>>

Generated == /\ pc = "generating" /\ ~Under
             /\ IF Outcome = "value" THEN Goto("answered") /\ UNCHANGED end
                                     ELSE Raise(Outcome)
             /\ UNCHANGED <<callVars, conf, listVars, reason>>

\* The model called answers, or its caller is cancelled.
Calling == CallStep /\ UNCHANGED ragVars

\* A statement fails or the handler is cancelled while it waits for one.
Interrupted == /\ pc \in {"searching", "matching"}
               /\ \E e \in {"exception", "cancelled"} : Raise(e)
               /\ UNCHANGED <<callVars, conf, listVars, reason>>

RagNext == \/ Construct \/ Embedded \/ Search \/ Match \/ Fuse \/ Rerank \/ Reranked
           \/ Generate \/ Generated \/ Calling \/ Interrupted
=============================================================================
