------------------------------- MODULE Retrieval -------------------------------
(***************************************************************************)
(* A search of the question bank (app/retrieval/): two rankings, one by    *)
(* vector and one by words, are fused by reciprocal rank, the best         *)
(* candidates are rescored by a reranker that may be off, fail or return   *)
(* the wrong number of scores, and the evaluation harness                  *)
(* (app/evaluation/) scores what comes back against graded relevances.     *)
(* Question ids are numbers in their order; which rankings and scores come *)
(* is open.  1/(k + rank) is in units of 1/Scale, and the discount of nDCG *)
(* is a table, so that scores are exact integers.                          *)
(***************************************************************************)
EXTENDS Integers, FiniteSets, Sequences, SequencesExt, FiniteSetsExt, Orders

CONSTANTS
  Ids,          \* the embedded questions
  RrfK,         \* retrieval_rrf_k
  Scale,        \* a common multiple of all k + rank
  RetrieverK,   \* vector_k = lexical_k
  CandidateK, FinalK,
  RerankScores, \* what a cross-encoder may say of a pair
  Grades,       \* the query's relevance judgments, 0 to 2
  Discount      \* position -> the discount of nDCG

ASSUME RetrievalSizes ==
  /\ IsFiniteSet(Ids) /\ Ids \subseteq Nat /\ RerankScores \subseteq Int
  /\ {RrfK, RetrieverK, CandidateK, FinalK} \subseteq Nat \ {0} /\ FinalK <= CandidateK
  /\ Scale \in Nat \ {0} /\ \A r \in 1..RetrieverK : Scale % (RrfK + r) = 0

ASSUME JudgedQuery ==
  /\ Grades \in [Ids -> 0..2] /\ \E q \in Ids : Grades[q] > 0
  /\ \A p \in 1..FinalK : /\ Discount[p] \in Nat \ {0}
                          /\ \A o \in 1..p : Discount[o] >= Discount[p]

VARIABLES
  ranked,      \* source -> what it returned, best first
  candidates,  \* hybrid_search's results
  scored,      \* score_pairs: a score for each candidate, or too few, or none
  results,     \* what the caller gets
  stage2       \* "none", "hybrid", "pending", "disabled", "failed" or "reranked"

searchVars == <<ranked, candidates, scored, results, stage2>>

Sources == {"vector", "lexical"}
Rankings(n) == {s \in SeqOf(Ids, n) : IsInjective(s)}
Take(s, n) == SubSeq(s, 1, IF n < Len(s) THEN n ELSE Len(s))
Rank(s, q) == CHOOSE i \in DOMAIN s : s[i] = q

-----------------------------------------------------------------------------
\* reciprocal_rank_fusion
RankPoints(rank) == Scale \div (RrfK + rank)
FoundBy(q) == {s \in Sources : q \in Range(ranked[s])}
Points(q)  == [s \in FoundBy(q) |-> RankPoints(Rank(ranked[s], q))]
FusedScore(q) == MapThenSumSet(LAMBDA s : Points(q)[s], FoundBy(q))
BestRank(q) == Min({Rank(ranked[s], q) : s \in FoundBy(q)})
FusedBefore(q, r) ==
  \/ FusedScore(q) > FusedScore(r)
  \/ FusedScore(q) = FusedScore(r) /\ BestRank(q) < BestRank(r)
  \/ FusedScore(q) = FusedScore(r) /\ BestRank(q) = BestRank(r) /\ q < r
Retrieved == {q \in Ids : FoundBy(q) # {}}
Fused == InOrder(Retrieved, FusedBefore)

SearchInit ==
  /\ ranked = [s \in Sources |-> <<>>]
  /\ candidates = <<>> /\ scored = <<>> /\ results = <<>>
  /\ stage2 = "none"

\* The two searches answer, each with its best RetrieverK.
RunRetrievers ==
  /\ stage2 = "none"
  /\ ranked' \in [Sources -> Rankings(RetrieverK)]
  /\ stage2' = "hybrid"
  /\ UNCHANGED <<candidates, scored, results>>

HybridSearch ==
  /\ stage2 = "hybrid"
  /\ candidates' = Take(Fused, CandidateK)
  /\ stage2' = "pending"
  /\ UNCHANGED <<ranked, scored, results>>

\* search_and_rerank without a reranker.
NoReranker ==
  /\ stage2 = "pending"
  /\ results' = Take(candidates, FinalK)
  /\ stage2' = "disabled"
  /\ UNCHANGED <<ranked, candidates, scored>>

\* The model raised, or did not give each candidate a score.
RerankFails ==
  /\ stage2 = "pending" /\ candidates # <<>>
  /\ results' = Take(candidates, FinalK)
  /\ stage2' = "failed"
  /\ UNCHANGED <<ranked, candidates, scored>>

RerankedBefore(scores, i, j) == scores[i] > scores[j] \/ (scores[i] = scores[j] /\ i < j)
Reranked(scores) ==
  LET order == InOrder(DOMAIN scores, LAMBDA i, j : RerankedBefore(scores, i, j))
  IN  [p \in DOMAIN order |-> candidates[order[p]]]

(* Seeded bug: candidates and scores are zipped without counting them.      *)
RerankZipped ==
  /\ stage2 = "pending"
  /\ \E n \in 0..Len(candidates) : scored' \in [1..n -> RerankScores]
  /\ results' = Take(Reranked(scored'), FinalK)
  /\ stage2' = "reranked"
  /\ UNCHANGED <<ranked, candidates>>

\* rerank_candidates: by score, then by rank before.
Rerank ==
  /\ stage2 = "pending"
  /\ scored' \in [DOMAIN candidates -> RerankScores]
  /\ results' = Take(Reranked(scored'), FinalK)
  /\ stage2' = "reranked"
  /\ UNCHANGED <<ranked, candidates>>

SearchNext == RunRetrievers \/ HybridSearch \/ NoReranker \/ RerankFails \/ Rerank

SearchSpec == SearchInit /\ [][SearchNext]_searchVars

-----------------------------------------------------------------------------
\* app/evaluation/metrics.py
Relevant == {q \in Ids : Grades[q] > 0}
Hits(s, k) == Range(Take(s, k)) \cap Relevant                 \* recall_at_k
FirstRank(s) == IF Hits(s, Len(s)) = {} THEN 0                \* first_relevant_rank
                ELSE Min({Rank(s, q) : q \in Hits(s, Len(s))})
Gain == <<0, 1, 3>>                                           \* 2**grade - 1
Gains(s) == [p \in DOMAIN s |-> Gain[Grades[s[p]] + 1] * Discount[p]]
Dcg(s, k) == MapThenSumSet(LAMBDA p : Gains(Take(s, k))[p], DOMAIN Take(s, k))
HigherGraded(q, r) == Grades[q] > Grades[r] \/ (Grades[q] = Grades[r] /\ q < r)
IdealDcg(k) == Dcg(InOrder(Ids, HigherGraded), k)

-----------------------------------------------------------------------------
SearchDone == stage2 \in {"disabled", "failed", "reranked"}

\* Type correctness of a search.
SearchTypeOK ==
  /\ ranked \in [Sources -> Seq(Ids)]
  /\ candidates \in Seq(Ids) /\ results \in Seq(Ids)
  /\ stage2 \in {"none", "hybrid", "pending", "disabled", "failed", "reranked"}

\* What each stage has done, in terms of what the one before it handed on.
SearchInv ==
  /\ SearchTypeOK
  /\ ranked \in [Sources -> Rankings(RetrieverK)]
  /\ stage2 \in {"none", "hybrid"} => candidates = <<>>
  /\ stage2 \notin {"none", "hybrid"} => candidates = Take(Fused, CandidateK)
  /\ stage2 \in {"disabled", "failed"} => results = Take(candidates, FinalK)
  /\ stage2 = "reranked" => /\ scored \in [DOMAIN candidates -> RerankScores]
                            /\ results = Take(Reranked(scored), FinalK)

\* Fusion keeps what the retrievers agree on: a question that every retriever
\* which found another one ranks before it comes before it.
FusionRespectsAgreement ==
  stage2 # "hybrid" => \A i, j \in DOMAIN candidates : i < j =>
    LET q == candidates[i]  r == candidates[j] IN
    ~ (/\ FoundBy(q) \subseteq FoundBy(r)
       /\ \A s \in FoundBy(q) : Rank(ranked[s], r) < Rank(ranked[s], q))

\* What is served is stage 1's order when stage 2 did not run; when it ran,
\* the best of every candidate, equal scores in stage 1's order.
StagesAreHonest ==
  SearchDone =>
    /\ IsInjective(results) /\ Range(results) \subseteq Range(candidates)
    /\ Len(results) = Min({FinalK, Len(candidates)})
    /\ stage2 # "reranked" => IsPrefix(results, candidates)
    /\ stage2 = "reranked" =>
         \A q \in Range(results) : \A r \in Range(candidates) \ {q} :
           LET i == Rank(candidates, q)  j == Rank(candidates, r) IN
           (r \in Range(results) /\ Rank(results, r) < Rank(results, q))
             <=> RerankedBefore(scored, j, i)

\* The metrics agree with each other: no order scores above the ideal one, and
\* a query is a miss for the rank exactly when it is for recall and for nDCG.
MetricsAgree ==
  SearchDone =>
    /\ Dcg(results, FinalK) <= IdealDcg(FinalK)
    /\ (FirstRank(results) = 0) = (Hits(results, FinalK) = {})
    /\ (FirstRank(results) = 0) = (Dcg(results, FinalK) = 0)

\* One search end to end: what is fused, what is served and how it is scored.
SearchIsHonest == FusionRespectsAgreement /\ StagesAreHonest /\ MetricsAgree
=============================================================================
