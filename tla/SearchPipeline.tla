------------------------------ MODULE SearchPipeline ------------------------------
(***************************************************************************)
(* One POST /search (routes_search.search and SearchService.search), stage *)
(* by stage: resolve the active index, the two optional query stages,      *)
(* retrieval, rank or weighted fusion, the strict filter, the optional     *)
(* reranker, the cut to top_k, the query log.  Chunks are numbered in the  *)
(* order of their ids, a ranking is the order a retriever gives the chunks *)
(* of the index for the effective query.  The collection has a chunk id    *)
(* once; the lexical index lists it as often as documents of the index     *)
(* share the id (see Chunking), each time at a rank of its own.  The stages*)
(* other modules own are what they promise here: ActiveIndex pairs the     *)
(* collection with its lexical index, so both rank the same chunks;        *)
(* WeightedFusion orders what it fuses by scores, here in any order.  What *)
(* matches the terms of the filter and which fusion is configured is left  *)
(* open until a stage asks.                                                *)
(***************************************************************************)
EXTENDS Integers, FiniteSets, SequencesExt

CONSTANTS
    Chunks,         \* the chunks of the active index, numbered in id order
    MaxEntries,     \* bound: the entries of the lexical index
    Filters,        \* bound: the chunks the terms of a request match, as pairs
                    \* <<those with every must_contain term, those with a must_exclude term>>
    TopKs,          \* bound: the top_k of a request, any integer in the code
    CandidateK,     \* retrieval.candidate_k
    RrfK,           \* hybridization.rrf_k
    TopN,           \* reranking.top_n
    Scale           \* a common multiple of the RrfK + rank, so scores are integers

ASSUME ParametersAssumption ==
    /\ Chunks \subseteq Nat /\ IsFiniteSet(Chunks)
    /\ MaxEntries \in Nat /\ Cardinality(Chunks) <= MaxEntries
    /\ Filters \subseteq (SUBSET Chunks) \X (SUBSET Chunks)
    /\ TopKs \subseteq Int
    /\ CandidateK \in Nat \ {0} /\ TopN \in Nat \ {0} /\ RrfK \in Nat /\ Scale \in Nat \ {0}
    /\ \A r \in 1 .. MaxEntries : Scale % (RrfK + r) = 0

VARIABLES
    pc,             \* the stage about to run
    mode, topK,     \* of the request
    contains,       \* chunks with every must_contain term; all, without such terms
    excluded,       \* chunks with a must_exclude term; none, without such terms
    method,         \* hybridization.method, once it matters
    dense, lexical, \* the whole ranking of each retriever
    candidates,     \* the list the stages hand on
    reranked,       \* the cross-encoder has answered
    warnings,       \* the optional stages that failed
    hits, status    \* the answer; status 0 until there is one

request == <<mode, topK, contains, excluded, method>>
rankings == <<dense, lexical>>
answer == <<hits, status>>
vars == <<pc, request, rankings, candidates, reranked, warnings, answer>>

Modes == {"dense", "bm25", "hybrid", "dense_rerank", "hybrid_rerank"}
UsesDense == mode # "bm25"
UsesLexical == mode \in {"bm25", "hybrid", "hybrid_rerank"}
Fuses == mode \in {"hybrid", "hybrid_rerank"}
Reranks == mode \in {"dense_rerank", "hybrid_rerank"}

Stages == {"resolve", "typo", "expand", "dense", "lexical", "fuse", "filter",
           "rerank", "truncate", "log", "done"}
OptionalStages == {"typo", "expand", "rerank"}
Statuses == {0, 200, 404, 500}

\* VectorStore.search: one point per chunk.
DenseRankings == SetToSeqs(Chunks)

\* BM25LexicalIndex.search: every entry, so a chunk as often as it is listed.
LexicalRankings == {r \in UNION {[1 .. n -> Chunks] : n \in 0 .. MaxEntries} : ToSet(r) = Chunks}

\* Only BM25 on its own hands on what it lists twice: the other lists have a chunk once.
TypeOK ==
    /\ pc \in Stages
    /\ mode \in Modes /\ topK \in TopKs
    /\ contains \subseteq Chunks /\ excluded \subseteq Chunks
    /\ method \in {"unused", "rrf", "weighted"}
    /\ dense \in DenseRankings \cup {<<>>} /\ lexical \in LexicalRankings \cup {<<>>}
    /\ candidates \in Seq(Chunks) /\ hits \in Seq(Chunks)
    /\ mode # "bm25" => IsInjective(candidates) /\ IsInjective(hits)
    /\ reranked \in BOOLEAN
    /\ warnings \subseteq OptionalStages
    /\ status \in Statuses

Init ==
    /\ pc = "resolve"
    /\ mode \in Modes /\ topK \in TopKs
    /\ contains = Chunks /\ excluded = {}
    /\ method = "unused"
    /\ dense = <<>> /\ lexical = <<>>
    /\ candidates = <<>>
    /\ reranked = FALSE
    /\ warnings = {}
    /\ hits = <<>> /\ status = 0

\* Python's s[:k]: a negative k counts from the end.
Slice(s, k) ==
    LET n == IF k < 0 THEN Len(s) + k ELSE k
    IN  SubSeq(s, 1, IF n < Len(s) THEN n ELSE Len(s))

\* The places of c in s.
Places(s, c) == {i \in DOMAIN s : s[i] = c}

\* pool_size = max(candidate_k, top_k)
MutantPoolSize == topK
PoolSize == IF topK > CandidateK THEN topK ELSE CandidateK
Pool(ranking) == Slice(ranking, PoolSize)

\* An exception no stage catches: a 500.  NoActiveIndexError is a 404.
Abort(code) ==
    /\ pc' = "done" /\ status' = code
    /\ UNCHANGED <<request, rankings, candidates, reranked, warnings, hits>>

Resolve ==
    /\ pc = "resolve"
    /\ \/ Abort(404)
       \/ Abort(500)
       \/ /\ pc' = "typo"
          /\ UNCHANGED <<request, rankings, candidates, reranked, warnings, answer>>

\* An optional query stage, skipped when it is not configured: its failure is a
\* warning, and the original query goes on.
QueryStage(stage, next) ==
    /\ pc = stage
    /\ pc' = next
    /\ \/ UNCHANGED warnings
       \/ warnings' = warnings \cup {stage}
    /\ UNCHANGED <<request, rankings, candidates, reranked, answer>>

SuggestTypo == QueryStage("typo", "expand")
Expand == QueryStage("expand", IF UsesDense THEN "dense" ELSE "lexical")

\* The embedder and the vector store may fail; the lexical index is in memory.
RetrieveDense ==
    /\ pc = "dense"
    /\ \/ Abort(500)
       \/ \E r \in DenseRankings :
             /\ dense' = r
             /\ candidates' = Pool(r)
             /\ pc' = IF UsesLexical THEN "lexical" ELSE "filter"
             /\ UNCHANGED <<request, lexical, reranked, warnings, answer>>

RetrieveLexical ==
    /\ pc = "lexical"
    /\ \E r \in LexicalRankings :
          /\ lexical' = r
          /\ candidates' = IF Fuses THEN candidates ELSE Pool(r)
    /\ pc' = IF Fuses THEN "fuse" ELSE "filter"
    /\ UNCHANGED <<request, dense, reranked, warnings, answer>>

\* RRFHybridizer.fuse: a chunk scores Scale / (rrf_k + rank) for every place it has
\* in a pool; the fused list is by score, then by id.
RankScore == [r \in 1 .. MaxEntries |-> Scale \div (RrfK + r)]
Part(pool, c) == SumFunctionOnSet(RankScore, Places(pool, c))
MutantFusedScore(c) == IF Contains(candidates, c) THEN Part(candidates, c)
                                                  ELSE Part(Pool(lexical), c)
FusedScore(c) == Part(candidates, c) + Part(Pool(lexical), c)

Pooled == ToSet(candidates) \cup ToSet(Pool(lexical))
MutantAhead(b, c) == FusedScore(b) >= FusedScore(c)
Ahead(b, c) == FusedScore(b) > FusedScore(c) \/ (FusedScore(b) = FusedScore(c) /\ b < c)
FusedOrders == {s \in SetToSeqs(Pooled) : \A i, j \in DOMAIN s : i < j => Ahead(s[i], s[j])}

MutantFuse ==
    /\ pc = "fuse"
    /\ candidates' = candidates \o Pool(lexical)
    /\ method' = "rrf"
    /\ pc' = "filter"
    /\ UNCHANGED <<mode, topK, contains, excluded, rankings, reranked, warnings, answer>>
Fuse ==
    /\ pc = "fuse"
    /\ \/ /\ method' = "rrf"
          /\ candidates' \in FusedOrders
       \/ /\ method' = "weighted"
          /\ candidates' \in SetToSeqs(Pooled)
    /\ pc' = "filter"
    /\ UNCHANGED <<mode, topK, contains, excluded, rankings, reranked, warnings, answer>>

\* apply_must_contain_exclude, after fusion and before the cut
MutantAllowed(with, without) == with
Allowed(with, without) == with \ without

\* list at the places p, in the order of p.
At(list, p) == [i \in DOMAIN p |-> list[p[i]]]

\* list without the chunks that are not in allowed
Keep(list, allowed) ==
    {At(list, p) : p \in {p \in SetToSeqs({i \in DOMAIN list : list[i] \in allowed}) :
                             \A i, j \in DOMAIN p : i < j => p[i] < p[j]}}

Filter ==
    /\ pc = "filter"
    /\ \E f \in Filters : contains' = f[1] /\ excluded' = f[2]
    /\ candidates' \in Keep(candidates, Allowed(contains', excluded'))
    /\ pc' = IF Reranks THEN "rerank" ELSE "truncate"
    /\ UNCHANGED <<mode, topK, method, rankings, reranked, warnings, answer>>

\* _apply_rerank.  The cross-encoder orders the first top_n candidates as it
\* likes and drops the others; without a reranker, or when it fails, the list
\* stays as it is.
Reorder(list) ==
    LET bounded == Slice(list, TopN)
    IN  {At(bounded, p) : p \in SetToSeqs(DOMAIN bounded)}

Rerank ==
    /\ pc = "rerank"
    /\ \/ candidates' \in Reorder(candidates) /\ reranked' = TRUE /\ UNCHANGED warnings
       \/ warnings' = warnings \cup {"rerank"} /\ UNCHANGED <<candidates, reranked>>
       \/ UNCHANGED <<candidates, reranked, warnings>>
    /\ pc' = "truncate"
    /\ UNCHANGED <<request, rankings, answer>>

Truncate ==
    /\ pc = "truncate"
    /\ hits' = Slice(candidates, topK)
    /\ pc' = "log"
    /\ UNCHANGED <<request, rankings, candidates, reranked, warnings, status>>

\* The query log: its failure is logged elsewhere and changes nothing.
Log ==
    /\ pc = "log"
    /\ pc' = "done" /\ status' = 200
    /\ UNCHANGED <<request, rankings, candidates, reranked, warnings, hits>>

Done == pc = "done" /\ UNCHANGED vars

Next == \/ Resolve \/ SuggestTypo \/ Expand \/ RetrieveDense \/ RetrieveLexical
        \/ Fuse \/ Filter \/ Rerank \/ Truncate \/ Log \/ Done

Spec == Init /\ [][Next]_vars

-----------------------------------------------------------------------------
\* The strict filter (filters.py): in every mode, whatever was fused, reranked
\* or skipped on the way, an answer holds only chunks with all must_contain
\* terms and no must_exclude term.
HitsAllowed == status = 200 => ToSet(hits) \subseteq contains \ excluded

\* The chunks the mode's retrievers put among their first candidate_k.
Retrieved == {c \in Chunks : \/ \E i \in DOMAIN dense : i <= CandidateK /\ dense[i] = c
                             \/ \E i \in DOMAIN lexical : i <= CandidateK /\ lexical[i] = c}

Full == topK >= 0 => \/ Len(hits) = topK
                     \/ Retrieved \cap (contains \ excluded) \subseteq ToSet(hits)

\* The comment on pool_size in SearchService.search: the filter runs after
\* retrieval, and still an answer is shorter than top_k only if it holds every
\* allowed chunk among the first candidate_k of the retrievers.  The cross-encoder
\* keeps top_n candidates, and no more can be asked of it; when it fails, the page
\* is as full as without it.
PageFull == status = 200 /\ (reranked => topK <= TopN) => Full

\* "so ordering is deterministic": of two pools reciprocal rank fusion makes one list,
\* ties included, whatever order its dict of scores is iterated in.
FusedOnce == pc = "fuse" => Cardinality(FusedOrders) = 1

\* b comes before c, copy by copy: each c in s has a b of its own before it.
Precedes(s, b, c) ==
    \E f \in Injection(Places(s, c), Places(s, b)) : \A i \in Places(s, c) : f[i] < i

\* Retrieval, fusion, filter and cut together never prefer a chunk to one that
\* every ranking of the mode puts before it: of two allowed chunks, the second
\* is a hit only if the first is, and comes after it.  A chunk that the lexical
\* index lists more often than another may overtake it, as fusion adds up its
\* ranks; one listed as often, or less, and each time behind the other may not.
\* Of answers the cross-encoder did not reorder, the ones where it failed
\* included, and without weighted fusion, where z-scores do prefer (see
\* WeightedFusion).
Before(b, c) == /\ UsesDense => Precedes(dense, b, c)
                /\ UsesLexical => Precedes(lexical, b, c)
HigherRankedFirst ==
    status = 200 /\ ~reranked /\ method # "weighted" =>
        \A b \in contains \ excluded, c \in Chunks : Before(b, c) => Precedes(hits, b, c)
===================================================================================
