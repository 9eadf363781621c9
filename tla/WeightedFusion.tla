----------------------------- MODULE WeightedFusion -----------------------------
(***************************************************************************)
(* WeightedSumHybridizer (hybrid/weighted.py): the scores of two lists are *)
(* normalized, weighted and added.  A list is a function from the chunks in*)
(* it to their scores; chunks are numbered in id order.  The arithmetic is *)
(* exact: a normalized score is an integer over the root of another, both  *)
(* common to the list, and sums of two such are compared by their squares. *)
(***************************************************************************)
EXTENDS Integers, FiniteSetsExt, SequencesExt

CONSTANTS
    Chunks,             \* chunks of the index, numbered in id order
    Scores,             \* bound: raw scores, integers here
    Weights,            \* bound: dense_weight and lexical_weight
    Factors, Offsets    \* bound: the changes of scale that ScaleFree looks at

\* Nothing validates the weights: they may be zero or negative.
ASSUME FusionAssumption ==
    /\ Chunks \subseteq Nat \ {0} /\ IsFiniteSet(Chunks)
    /\ Scores \subseteq Int
    /\ Weights \subseteq [dense : Int, lexical : Int]
    /\ Factors \subseteq Nat \ {0} /\ Offsets \subseteq Int

VARIABLES
    normalization, weights,     \* hybridization.weighted
    dense, lexical,             \* the lists, as score by chunk
    fused                       \* the result; the lists stand for it until then

vars == <<normalization, weights, dense, lexical, fused>>

Pooled == DOMAIN dense \cup DOMAIN lexical

\* A retriever's list: some chunks, each with a score.
Lists == UNION {[S -> Scores] : S \in SUBSET Chunks}

NotFused == <<0>>

\* The result has every chunk of the lists once.
TypeOK ==
    /\ normalization \in {"minmax", "zscore"} /\ weights \in Weights
    /\ dense \in Lists /\ lexical \in Lists
    /\ fused # NotFused => fused \in SetToSeqs(Pooled)

Init ==
    /\ normalization \in {"minmax", "zscore"} /\ weights \in Weights
    /\ dense \in Lists /\ lexical \in Lists
    /\ fused = NotFused

-----------------------------------------------------------------------------
(* Normalization.  A list's normalized score of c is Numerator(list, c) over   *)
(* the root of Radicand(list); a chunk that is not in the list counts as 0.    *)

Square(n) == n * n
Values(list) == Range(list)
Size(list) == Cardinality(DOMAIN list)
Total(list) == SumFunction(list)
SumOfSquares(list) == SumFunction([c \in DOMAIN list |-> Square(list[c])])
AllEqual(list) == \A b, c \in DOMAIN list : list[b] = list[c]

\* (value - lo) / (hi - lo), and 1 for all where that divides by zero
MutantMinMax(list, c) == IF AllEqual(list) THEN 1 ELSE list[c] - Max(Values(list))
MinMax(list, c) == IF AllEqual(list) THEN 1 ELSE list[c] - Min(Values(list))
MinMaxRadicand(list) == IF AllEqual(list) THEN 1 ELSE Square(Max(Values(list)) - Min(Values(list)))

\* (value - mean) / stdev, and 0 for all where that divides by zero
ZScore(list, c) == IF AllEqual(list) THEN 0 ELSE Size(list) * list[c] - Total(list)
ZScoreRadicand(list) == IF AllEqual(list) THEN 1
                        ELSE Size(list) * SumOfSquares(list) - Square(Total(list))

MutantNumerator(list, c) == IF c \notin DOMAIN list THEN 0 ELSE list[c]
Numerator(list, c) ==
    IF c \notin DOMAIN list THEN 0
    ELSE IF normalization = "minmax" THEN MinMax(list, c) ELSE ZScore(list, c)
Radicand(list) ==
    IF normalization = "minmax" THEN MinMaxRadicand(list) ELSE ZScoreRadicand(list)

-----------------------------------------------------------------------------
(* Fusion. *)

\* The sign of p / root(r) + q / root(s)
Sign(p, r, q, s) ==
    LET square == Square(p) * s - Square(q) * r
    IN  IF p >= 0 /\ q >= 0 THEN p + q
        ELSE IF p <= 0 /\ q <= 0 THEN p + q
        ELSE IF p > 0 THEN square ELSE - square

\* Positive, zero or negative as the fused score of b is above, at or below c's.
Compare(ds, ls, b, c) ==
    Sign(weights.dense * (Numerator(ds, b) - Numerator(ds, c)), Radicand(ds),
         weights.lexical * (Numerator(ls, b) - Numerator(ls, c)), Radicand(ls))

\* sorted(ids, key = (-score, id)): the ids are a set, so the keys alone decide.
MutantAhead(ds, ls, b, c) == Compare(ds, ls, b, c) >= 0
Ahead(ds, ls, b, c) == Compare(ds, ls, b, c) > 0 \/ (Compare(ds, ls, b, c) = 0 /\ b < c)

Sorted(ds, ls, s) == \A i, j \in DOMAIN s : i < j => Ahead(ds, ls, s[i], s[j])
MutantFusedOrders(ds, ls) == {s \in SetToSeqs(DOMAIN ds) : Sorted(ds, ls, s)}
FusedOrders(ds, ls) == {s \in SetToSeqs(DOMAIN ds \cup DOMAIN ls) : Sorted(ds, ls, s)}

Fuse ==
    /\ fused = NotFused
    /\ fused' \in FusedOrders(dense, lexical)
    /\ UNCHANGED <<normalization, weights, dense, lexical>>

Fused == fused # NotFused /\ UNCHANGED vars

Next == Fuse \/ Fused

Spec == Init /\ [][Next]_vars

-----------------------------------------------------------------------------
(* Properties. *)

Before(b, c) == \E i, j \in DOMAIN fused : i < j /\ fused[i] = b /\ fused[j] = c

NoWorse(list, b, c) == c \in DOMAIN list => b \in DOMAIN list /\ list[b] >= list[c]
Better(list, b, c) == {b, c} \subseteq DOMAIN list /\ list[b] > list[c]
SameLists(b, c) == \A list \in {dense, lexical} : b \in DOMAIN list <=> c \in DOMAIN list

\* Sorting what comes out of a set of ids gives one result, whatever order the set is
\* iterated in: no two chunks have the same key, and comparing fused scores is
\* transitive, ties and missing scores included.
OneOrder == Cardinality(FusedOrders(dense, lexical)) = 1

\* The point of fusing scores: a chunk that neither list puts below another one,
\* and that one list with any weight puts above it, comes first; and so does, if no
\* list does, the one with the smaller id.  Weights must not be negative.  With
\* z-scores only for chunks of the same lists: there a missing score is an average
\* one, and being found can be worse than not being found.
BetterFirst ==
    fused # NotFused =>
        \A b, c \in Pooled :
            /\ b # c
            /\ weights.dense >= 0 /\ weights.lexical >= 0
            /\ NoWorse(dense, b, c) /\ NoWorse(lexical, b, c)
            /\ normalization = "zscore" => SameLists(b, c)
            /\ \/ weights.dense > 0 /\ Better(dense, b, c)
               \/ weights.lexical > 0 /\ Better(lexical, b, c)
               \/ b < c
            => Before(b, c)

\* "raw scores [...] on unrelated scales": stretching or shifting the scores of one
\* list changes nothing, however the other list is scaled.
Rescaled(list, factor, offset) == [c \in DOMAIN list |-> factor * list[c] + offset]
ScaleFree ==
    fused # NotFused =>
        \A factor \in Factors, offset \in Offsets :
            /\ fused \in FusedOrders(Rescaled(dense, factor, offset), lexical)
            /\ fused \in FusedOrders(dense, Rescaled(lexical, factor, offset))
=================================================================================
