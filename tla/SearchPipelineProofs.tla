-------------------------- MODULE SearchPipelineProofs --------------------------
(***************************************************************************)
(* What a search guarantees for any index, ranking and configuration: the  *)
(* strict filter holds in every mode, a page is no shorter than what was   *)
(* retrieved allows, and fusion, filter and cut never turn an order around *)
(* that all rankings agree on, however often the lexical index lists a     *)
(* chunk.                                                                  *)
(***************************************************************************)
EXTENDS SearchPipeline, ListLemmas

\* p is the beginning of s.
Prefix(p, s) == Len(p) <= Len(s) /\ \A i \in 1 .. Len(p) : p[i] = s[i]

-----------------------------------------------------------------------------
(* Lists of chunks. *)

LEMMA ListFacts ==
    ASSUME NEW s \in Seq(Chunks)
    PROVE  /\ Len(s) \in Nat /\ DOMAIN s = 1 .. Len(s)
           /\ ToSet(s) \subseteq Chunks
           /\ \A i \in 1 .. Len(s) : s[i] \in Chunks /\ s[i] \in ToSet(s)
           /\ IsFiniteSet(DOMAIN s) /\ Cardinality(DOMAIN s) = Len(s)
<1>1. Len(s) \in Nat /\ DOMAIN s = 1 .. Len(s) /\ s \in [1 .. Len(s) -> Chunks]
  BY LenProperties
<1>2. IsFiniteSet(1 .. Len(s)) /\ Cardinality(1 .. Len(s)) = Len(s)
  BY <1>1, FS_Interval
<1> QED
  BY <1>1, <1>2 DEF ToSet

\* The members of SetToSeqs(S) are the lists that have every member of S once.
LEMMA PermutationFacts ==
    ASSUME NEW S \in SUBSET Chunks, NEW s \in SetToSeqs(S)
    PROVE  /\ s \in Seq(Chunks) /\ IsInjective(s)
           /\ ToSet(s) = S /\ Len(s) = Cardinality(S)
<1>1. IsFiniteSet(S) /\ Cardinality(S) \in Nat
  BY FS_Subset, FS_CardinalityType, ParametersAssumption
<1>2. s \in Bijection(1 .. Cardinality(S), S)
  BY <1>1, ListingFacts
<1>3. /\ s \in [1 .. Cardinality(S) -> S] /\ IsInjective(s)
      /\ \A c \in S : \E i \in 1 .. Cardinality(S) : s[i] = c
  BY <1>2 DEF Bijection, Injection, Surjection
<1>4. s \in Seq(S) /\ Len(s) = Cardinality(S)
  <2>1. s \in Seq(S)
    BY <1>1, <1>3
  <2> QED
    BY <1>1, <1>3, <2>1, LenProperties
<1>5. s \in Seq(Chunks)
  BY <1>4, SeqMonotonic
<1>6. ToSet(s) = S
  BY <1>3 DEF ToSet
<1> QED
  BY <1>3, <1>4, <1>5, <1>6

\* A list at some of its places, each taken once.
LEMMA AtFacts ==
    ASSUME NEW list \in Seq(Chunks), NEW I \in SUBSET DOMAIN list, NEW p \in SetToSeqs(I)
    PROVE  /\ p \in Bijection(1 .. Cardinality(I), I)
           /\ At(list, p) \in Seq(Chunks) /\ Len(At(list, p)) = Cardinality(I)
           /\ DOMAIN At(list, p) = 1 .. Cardinality(I) /\ DOMAIN p = 1 .. Cardinality(I)
           /\ \A k \in 1 .. Cardinality(I) : p[k] \in I /\ At(list, p)[k] = list[p[k]]
           /\ ToSet(At(list, p)) = {list[i] : i \in I}
           /\ IsInjective(list) => IsInjective(At(list, p))
<1> DEFINE n == Cardinality(I)
           s == At(list, p)
<1>1. IsFiniteSet(I) /\ n \in Nat
  BY ListFacts, FS_Subset, FS_CardinalityType
<1>2. p \in Bijection(1 .. n, I)
  BY <1>1, ListingFacts
<1> HIDE DEF n
<1>3. /\ DOMAIN p = 1 .. n /\ (\A k \in 1 .. n : p[k] \in I)
      /\ (\A k, l \in 1 .. n : p[k] = p[l] => k = l)
      /\ \A i \in I : \E k \in 1 .. n : p[k] = i
  BY <1>2 DEF Bijection, Injection, Surjection, IsInjective
<1>4. \A i \in I : list[i] \in Chunks
  BY ListFacts
<1>5. DOMAIN s = 1 .. n /\ \A k \in 1 .. n : s[k] = list[p[k]] /\ s[k] \in Chunks
  BY <1>3, <1>4 DEF At
<1>6. s \in Seq(Chunks) /\ Len(s) = n
  <2>1. s = [k \in 1 .. n |-> s[k]]
    BY <1>3 DEF At
  <2>2. s \in [1 .. n -> Chunks]
    BY <1>5, <2>1
  <2>3. s \in Seq(Chunks)
    BY <1>1, <2>2 DEF n
  <2>4. Len(s) \in Nat /\ DOMAIN s = 1 .. Len(s)
    BY <2>3, LenProperties
  <2> QED
    BY <1>1, <1>5, <2>3, <2>4 DEF n
<1>7. ToSet(s) = {list[i] : i \in I}
  BY <1>3, <1>5 DEF ToSet
<1>8. ASSUME IsInjective(list) PROVE IsInjective(s)
  BY <1>3, <1>5, <1>8 DEF IsInjective
<1> QED
  BY <1>2, <1>3, <1>5, <1>6, <1>7, <1>8 DEF n

LEMMA EmptyList == <<>> \in Seq(Chunks) /\ ToSet(<<>>) = {} /\ IsInjective(<<>>)
BY EmptySeq DEF ToSet, IsInjective

\* Whatever c a list has not got is preceded by anything.
LEMMA AbsentPreceded ==
    ASSUME NEW s \in Seq(Chunks), NEW b, NEW c, c \notin ToSet(s)
    PROVE  Precedes(s, b, c)
<1>1. Places(s, c) = {}
  BY DEF Places, ToSet
<1> DEFINE f == [i \in {} |-> i]
<1>2. f \in Injection(Places(s, c), Places(s, b))
  BY <1>1 DEF Injection, IsInjective
<1> QED
  BY <1>1, <1>2 DEF Precedes

\* A list that has c has whatever precedes it.
LEMMA PrecedingPresent ==
    ASSUME NEW s \in Seq(Chunks), NEW b, NEW c, Precedes(s, b, c), c \in ToSet(s)
    PROVE  b \in ToSet(s)
<1>1. PICK f \in Injection(Places(s, c), Places(s, b)) : \A i \in Places(s, c) : f[i] < i
  BY DEF Precedes
<1>2. PICK i \in Places(s, c) : TRUE
  BY DEF ToSet, Places
<1>3. f[i] \in Places(s, b)
  BY <1>1 DEF Injection
<1> QED
  BY <1>3 DEF Places, ToSet

\* A slice from the beginning is a prefix, and as long as it is asked to be.
LEMMA SliceFacts ==
    ASSUME NEW s \in Seq(Chunks), NEW k \in Int
    PROVE  /\ Slice(s, k) \in Seq(Chunks) /\ Prefix(Slice(s, k), s)
           /\ k >= 0 => Len(Slice(s, k)) = IF k < Len(s) THEN k ELSE Len(s)
<1> DEFINE n == IF k < 0 THEN Len(s) + k ELSE k
           m == IF n < Len(s) THEN n ELSE Len(s)
           p == SubSeq(s, 1, m)
<1>1. Len(s) \in Nat /\ \A i \in 1 .. Len(s) : s[i] \in Chunks
  BY ListFacts
<1>2. n \in Int /\ m \in Int /\ m <= Len(s)
  BY <1>1
<1>3. Slice(s, k) = p
  BY DEF Slice
<1> HIDE DEF n
<1>4. \A i \in 1 .. m : s[i] \in Chunks
  BY <1>1, <1>2
<1>5. /\ p \in Seq(Chunks)
      /\ Len(p) = IF 1 <= m THEN m ELSE 0
      /\ \A i \in 1 .. m : p[i] = s[i]
  <2> HIDE DEF m
  <2>1. /\ SubSeq(s, 1, m) \in Seq(Chunks)
        /\ Len(SubSeq(s, 1, m)) = IF 1 <= m THEN m - 1 + 1 ELSE 0
        /\ \A i \in 1 .. m - 1 + 1 : SubSeq(s, 1, m)[i] = s[1 + i - 1]
    BY <1>2, <1>4, SubSeqProperties
  <2>2. \A i \in 1 .. m : i \in 1 .. m - 1 + 1 /\ 1 + i - 1 = i
    BY <1>2
  <2>3. m - 1 + 1 = m
    BY <1>2
  <2> QED
    BY <2>1, <2>2, <2>3
<1>6. Len(p) <= Len(s) /\ \A i \in 1 .. Len(p) : p[i] = s[i] /\ i \in 1 .. Len(s)
  <2> HIDE DEF p, m
  <2>1. Len(p) = m \/ (Len(p) = 0 /\ m < 1)
    BY <1>2, <1>5
  <2>2. Len(p) <= Len(s)
    BY <1>1, <1>2, <2>1
  <2>3. 1 .. Len(p) \subseteq 1 .. m /\ 1 .. Len(p) \subseteq 1 .. Len(s)
    BY <1>1, <1>2, <2>1
  <2> QED
    BY <1>5, <2>2, <2>3
<1>7. Prefix(p, s)
  BY <1>6 DEF Prefix
<1>8. k >= 0 => Len(p) = IF k < Len(s) THEN k ELSE Len(s)
  BY <1>1, <1>5 DEF n
<1> HIDE DEF p
<1> QED
  BY <1>3, <1>5, <1>7, <1>8

\* A prefix has whatever comes before what it has, copy by copy.
LEMMA PrefixFacts ==
    ASSUME NEW s \in Seq(Chunks), NEW p \in Seq(Chunks), Prefix(p, s)
    PROVE  /\ ToSet(p) \subseteq ToSet(s)
           /\ Len(p) = Len(s) => ToSet(p) = ToSet(s)
           /\ \A i \in 1 .. Len(s) : i <= Len(p) => s[i] \in ToSet(p)
           /\ IsInjective(s) => IsInjective(p)
           /\ \A b, c : Precedes(s, b, c) => Precedes(p, b, c)
<1>1. /\ Len(s) \in Nat /\ DOMAIN s = 1 .. Len(s)
      /\ Len(p) \in Nat /\ DOMAIN p = 1 .. Len(p)
  BY ListFacts
<1>2. \A i \in 1 .. Len(p) : i \in 1 .. Len(s) /\ p[i] = s[i]
  BY <1>1 DEF Prefix
<1>3. ToSet(p) \subseteq ToSet(s) /\ (Len(p) = Len(s) => ToSet(p) = ToSet(s))
  BY <1>1, <1>2 DEF ToSet
<1>4. \A i \in 1 .. Len(s) : i <= Len(p) => s[i] \in ToSet(p)
  <2>1. ASSUME NEW i \in 1 .. Len(s), i <= Len(p) PROVE s[i] \in ToSet(p)
    <3>1. i \in 1 .. Len(p)
      BY <1>1, <2>1
    <3> QED
      BY <1>1, <1>2, <3>1 DEF ToSet
  <2> QED
    BY <2>1
<1>5. IsInjective(s) => IsInjective(p)
  BY <1>1, <1>2 DEF IsInjective
<1>6. ASSUME NEW b, NEW c, Precedes(s, b, c) PROVE Precedes(p, b, c)
  <2>1. PICK f \in Injection(Places(s, c), Places(s, b)) : \A i \in Places(s, c) : f[i] < i
    BY <1>6 DEF Precedes
  <2>2. /\ \A i \in Places(s, c) : f[i] \in Places(s, b) /\ f[i] < i
        /\ \A i, j \in Places(s, c) : f[i] = f[j] => i = j
    BY <2>1 DEF Injection, IsInjective
  <2>3. \A i \in Places(p, c) : i \in Places(s, c) /\ i \in 1 .. Len(p)
    BY <1>1, <1>2 DEF Places
  <2>4. ASSUME NEW i \in Places(p, c) PROVE f[i] \in Places(p, b) /\ f[i] < i
    <3>1. f[i] \in 1 .. Len(s) /\ s[f[i]] = b /\ f[i] < i /\ i \in 1 .. Len(p)
      BY <1>1, <2>2, <2>3 DEF Places
    <3>2. f[i] \in 1 .. Len(p)
      BY <1>1, <3>1
    <3> QED
      BY <1>1, <1>2, <3>1, <3>2 DEF Places
  <2> DEFINE g == [i \in Places(p, c) |-> f[i]]
  <2>5. g \in Injection(Places(p, c), Places(p, b))
    BY <2>2, <2>3, <2>4 DEF Injection, IsInjective
  <2> QED
    BY <2>4, <2>5 DEF Precedes
<1> QED
  BY <1>3, <1>4, <1>5, <1>6

\* What the filter keeps, every copy of it in the order it had.
LEMMA KeepFacts ==
    ASSUME NEW list \in Seq(Chunks), NEW allowed, NEW s \in Keep(list, allowed)
    PROVE  /\ s \in Seq(Chunks) /\ ToSet(s) = ToSet(list) \cap allowed
           /\ IsInjective(list) => IsInjective(s)
           /\ \A b \in allowed : \A c : Precedes(list, b, c) => Precedes(s, b, c)
<1> DEFINE I == {i \in DOMAIN list : list[i] \in allowed}
           n == Cardinality(I)
<1>1. PICK p \in SetToSeqs(I) :
         s = At(list, p) /\ \A i, j \in DOMAIN p : i < j => p[i] < p[j]
  BY DEF Keep
<1>2. /\ p \in Bijection(1 .. n, I)
      /\ s \in Seq(Chunks) /\ DOMAIN s = 1 .. n /\ DOMAIN p = 1 .. n
      /\ \A k \in 1 .. n : p[k] \in I /\ s[k] = list[p[k]]
      /\ ToSet(s) = {list[i] : i \in I}
      /\ IsInjective(list) => IsInjective(s)
  <2>1. I \in SUBSET DOMAIN list
    OBVIOUS
  <2> HIDE DEF I
  <2> QED
    BY <1>1, <2>1, AtFacts
<1>3. ToSet(s) = ToSet(list) \cap allowed
  <2>1. ToSet(list) = {list[i] : i \in DOMAIN list}
    BY DEF ToSet
  <2>2. \A c : c \in ToSet(s) <=> \E i \in DOMAIN list : list[i] \in allowed /\ c = list[i]
    BY <1>2
  <2> QED
    BY <2>1, <2>2
<1>4. ASSUME NEW b \in allowed, NEW c, Precedes(list, b, c) PROVE Precedes(s, b, c)
  <2>1. PICK f \in Injection(Places(list, c), Places(list, b)) :
           \A i \in Places(list, c) : f[i] < i
    BY <1>4 DEF Precedes
  <2>2. /\ \A i \in Places(list, c) : f[i] \in Places(list, b) /\ f[i] < i
        /\ \A i, j \in Places(list, c) : f[i] = f[j] => i = j
    BY <2>1 DEF Injection, IsInjective
  <2>3. n \in Nat /\ \A i \in DOMAIN list : i \in Nat
    <3>1. IsFiniteSet(I)
      BY ListFacts, FS_Subset
    <3> QED
      BY <3>1, ListFacts, FS_CardinalityType
  <2> DEFINE q == [i \in I |-> CHOOSE k \in 1 .. n : p[k] = i]
             g == [k \in Places(s, c) |-> q[f[p[k]]]]
  <2>4. \A i \in I : q[i] \in 1 .. n /\ p[q[i]] = i
    BY <1>2 DEF Bijection, Surjection
  <2>5. \A k \in Places(s, c) : k \in 1 .. n /\ p[k] \in Places(list, c) /\ p[k] \in I
    BY <1>2 DEF Places
  <2>6. \A i \in Places(list, b) : i \in I
    BY DEF Places
  <2> HIDE DEF I, n, q
  <2>7. ASSUME NEW k \in Places(s, c)
        PROVE  q[f[p[k]]] \in Places(s, b) /\ q[f[p[k]]] < k
    <3> DEFINE l == q[f[p[k]]]
    <3>1. /\ f[p[k]] \in Places(list, b) /\ f[p[k]] < p[k]
          /\ l \in 1 .. n /\ p[l] = f[p[k]]
      BY <2>2, <2>4, <2>5, <2>6
    <3>2. l \in Places(s, b)
      <4>1. s[l] = list[p[l]] /\ list[p[l]] = b
        BY <1>2, <3>1 DEF Places
      <4> QED
        BY <1>2, <3>1, <4>1 DEF Places
    <3>3. k \in 1 .. n /\ p[k] \in Nat /\ p[l] \in Nat /\ p[l] < p[k]
      <4>1. p[k] \in I /\ p[l] \in I /\ k \in 1 .. n
        BY <1>2, <2>5, <3>1
      <4> QED
        BY <2>3, <3>1, <4>1 DEF I
    <3> HIDE DEF l
    <3>4. ~ (k < l) /\ k # l
      BY <1>1, <1>2, <3>1, <3>3
    <3>5. l < k
      BY <2>3, <3>1, <3>3, <3>4
    <3> QED
      BY <3>2, <3>5 DEF l
  <2>8. ASSUME NEW k \in Places(s, c), NEW l \in Places(s, c), q[f[p[k]]] = q[f[p[l]]]
        PROVE  k = l
    <3>1. f[p[k]] = f[p[l]]
      BY <2>2, <2>4, <2>5, <2>6, <2>8
    <3>2. p[k] = p[l]
      BY <2>2, <2>5, <3>1
    <3> QED
      BY <1>2, <2>5, <3>2 DEF Bijection, Injection, IsInjective
  <2>9. g \in Injection(Places(s, c), Places(s, b))
    BY <2>7, <2>8 DEF Injection, IsInjective
  <2> QED
    BY <2>7, <2>9 DEF Precedes
<1> QED
  BY <1>2, <1>3, <1>4

-----------------------------------------------------------------------------
(* Rankings, pools and fused scores. *)

LEMMA SameInterval ==
    ASSUME NEW m \in Nat, NEW n \in Nat, 1 .. m = 1 .. n
    PROVE  m = n
<1>1. \A i \in 1 .. m : i \in 1 .. n
  OBVIOUS
<1>2. \A i \in 1 .. n : i \in 1 .. m
  OBVIOUS
<1>3. m <= n
  BY <1>1
<1>4. n <= m
  BY <1>2
<1> QED
  BY <1>3, <1>4

LEMMA RankingFacts ==
    ASSUME NEW r \in DenseRankings \cup LexicalRankings
    PROVE  /\ r \in Seq(Chunks) /\ ToSet(r) = Chunks /\ Len(r) <= MaxEntries
           /\ r \in DenseRankings => IsInjective(r)
<1>1. ASSUME r \in DenseRankings
      PROVE  r \in Seq(Chunks) /\ ToSet(r) = Chunks /\ Len(r) <= MaxEntries /\ IsInjective(r)
  BY <1>1, PermutationFacts, ParametersAssumption DEF DenseRankings
<1>2. ASSUME r \in LexicalRankings
      PROVE  r \in Seq(Chunks) /\ ToSet(r) = Chunks /\ Len(r) <= MaxEntries
  <2>1. PICK n \in 0 .. MaxEntries : r \in [1 .. n -> Chunks]
    BY <1>2 DEF LexicalRankings
  <2>2. n \in Nat /\ n <= MaxEntries
    BY ParametersAssumption
  <2>3. r \in Seq(Chunks)
    BY <2>1, <2>2
  <2>4. Len(r) \in Nat /\ DOMAIN r = 1 .. Len(r) /\ DOMAIN r = 1 .. n
    BY <2>1, <2>3, LenProperties
  <2>5. Len(r) = n
    BY <2>2, <2>4, SameInterval
  <2> QED
    BY <1>2, <2>2, <2>3, <2>5 DEF LexicalRankings
<1> QED
  BY <1>1, <1>2

LEMMA PoolSizeFacts == TypeOK => PoolSize \in Nat \ {0} /\ CandidateK <= PoolSize
BY ParametersAssumption DEF TypeOK, PoolSize

\* The pool of a ranking has its first candidate_k entries, at the places they have.
LEMMA PoolFacts ==
    ASSUME TypeOK, NEW r \in Seq(Chunks)
    PROVE  /\ Pool(r) \in Seq(Chunks) /\ Prefix(Pool(r), r) /\ Len(Pool(r)) <= Len(r)
           /\ {c \in Chunks : \E i \in DOMAIN r : i <= CandidateK /\ r[i] = c}
                 \subseteq ToSet(Pool(r))
           /\ IsInjective(r) => IsInjective(Pool(r))
           /\ \A b, c : Precedes(r, b, c) => Precedes(Pool(r), b, c)
<1>1. PoolSize \in Nat \ {0} /\ CandidateK <= PoolSize
  BY PoolSizeFacts
<1>2. /\ Pool(r) \in Seq(Chunks) /\ Prefix(Pool(r), r)
      /\ Len(Pool(r)) = IF PoolSize < Len(r) THEN PoolSize ELSE Len(r)
  BY <1>1, SliceFacts DEF Pool
<1>3. Len(r) \in Nat /\ DOMAIN r = 1 .. Len(r) /\ Len(Pool(r)) \in Nat /\ CandidateK \in Nat
  BY <1>2, ListFacts, ParametersAssumption
<1>4. ASSUME NEW i \in DOMAIN r, i <= CandidateK PROVE r[i] \in ToSet(Pool(r))
  <2>1. i \in 1 .. Len(r) /\ i <= Len(Pool(r))
    BY <1>1, <1>2, <1>3, <1>4
  <2> QED
    BY <1>2, <2>1, PrefixFacts
<1>5. /\ IsInjective(r) => IsInjective(Pool(r))
      /\ \A b, c : Precedes(r, b, c) => Precedes(Pool(r), b, c)
  BY <1>2, PrefixFacts
<1> QED
  BY <1>2, <1>3, <1>4, <1>5 DEF Prefix

\* A rank's part of a fused score is a natural number, and grows towards the top.
LEMMA RankScoreFacts ==
    ASSUME NEW r \in 1 .. MaxEntries, NEW q \in 1 .. MaxEntries
    PROVE  /\ RankScore[r] \in Nat \ {0} /\ RankScore[q] \in Nat \ {0}
           /\ r < q => RankScore[q] < RankScore[r]
<1> DEFINE x == RrfK + r
           y == RrfK + q
           a == Scale \div x
           b == Scale \div y
<1>1. RankScore[r] = a /\ RankScore[q] = b
  BY DEF RankScore
<1>2. x \in Nat \ {0} /\ y \in Nat \ {0} /\ Scale \in Nat \ {0}
  BY ParametersAssumption
<1>3. Scale % x = 0 /\ Scale % y = 0
  BY ParametersAssumption
<1>4. r < q => x < y
  BY ParametersAssumption
<1> HIDE DEF x, y
<1>5. a \in Int /\ b \in Int /\ Scale = x * a /\ Scale = y * b
  BY <1>2, <1>3
<1> HIDE DEF a, b
<1>6. a > 0 /\ b > 0
  BY <1>2, <1>5
<1>7. ASSUME x < y PROVE b < a
  <2>1. SUFFICES ASSUME a <= b PROVE FALSE
    BY <1>5
  <2>2. x * a <= x * b
    BY <1>2, <1>5, <2>1
  <2>3. x * b < y * b
    BY <1>2, <1>5, <1>6, <1>7
  <2>4. x * a \in Int /\ x * b \in Int /\ y * b \in Int
    BY <1>2, <1>5
  <2> QED
    BY <1>5, <2>2, <2>3, <2>4
<1> QED
  BY <1>1, <1>4, <1>5, <1>6, <1>7

\* What a pool contributes to the score of a chunk adds up over the copies, and is more
\* for a chunk that comes before another one, copy by copy.
LEMMA PartFacts ==
    ASSUME NEW pool \in Seq(Chunks), Len(pool) <= MaxEntries
    PROVE  /\ \A c : Part(pool, c) \in Nat
           /\ \A b, c : Precedes(pool, b, c) =>
                 /\ Part(pool, c) <= Part(pool, b)
                 /\ c \in ToSet(pool) => Part(pool, c) < Part(pool, b)
<1>1. /\ Len(pool) \in Nat /\ DOMAIN pool = 1 .. Len(pool)
      /\ \A i \in DOMAIN pool : i \in 1 .. MaxEntries
  BY ListFacts, ParametersAssumption
<1>2. ASSUME NEW c
      PROVE  /\ IsFiniteSet(Places(pool, c)) /\ Places(pool, c) \subseteq DOMAIN pool
             /\ \A i \in Places(pool, c) : i \in 1 .. MaxEntries /\ RankScore[i] \in Nat
             /\ Part(pool, c) \in Nat
  <2>1. Places(pool, c) \subseteq DOMAIN pool
    BY DEF Places
  <2>2. IsFiniteSet(Places(pool, c))
    BY <2>1, ListFacts, FS_Subset
  <2>3. \A i \in Places(pool, c) : i \in 1 .. MaxEntries /\ RankScore[i] \in Nat
    BY <1>1, <2>1, RankScoreFacts
  <2>4. \A i \in Places(pool, c) : RankScore[i] \in Int
    BY <2>3
  <2>5. Part(pool, c) \in Nat
    BY <2>2, <2>3, <2>4, SumType DEF Part
  <2> QED
    BY <2>1, <2>2, <2>3, <2>5
<1>3. ASSUME NEW b, NEW c, Precedes(pool, b, c)
      PROVE  /\ Part(pool, c) <= Part(pool, b)
             /\ c \in ToSet(pool) => Part(pool, c) < Part(pool, b)
  <2>1. PICK f \in Injection(Places(pool, c), Places(pool, b)) :
           \A i \in Places(pool, c) : f[i] < i
    BY <1>3 DEF Precedes
  <2>2. \A i \in Places(pool, c) : f[i] \in Places(pool, b)
    BY <2>1 DEF Injection
  <2>3. \A i \in Places(pool, c) : RankScore[i] < RankScore[f[i]]
    BY <1>2, <2>1, <2>2, RankScoreFacts
  <2>4. Outweighed(Places(pool, c), Places(pool, b), RankScore, f)
    BY <1>2, <2>1, <2>3 DEF Outweighed
  <2>5. c \in ToSet(pool) => Places(pool, c) # {}
    BY DEF ToSet, Places
  <2> QED
    BY <2>4, <2>5, SumOutweighed DEF Part
<1> QED
  BY <1>2, <1>3

\* The pools that are fused, and the scores they give.
LEMMA FusionFacts ==
    ASSUME TypeOK, dense \in DenseRankings, lexical \in LexicalRankings,
           candidates = Pool(dense)
    PROVE  /\ Pool(dense) \in Seq(Chunks) /\ Len(Pool(dense)) <= MaxEntries
           /\ Pool(lexical) \in Seq(Chunks) /\ Len(Pool(lexical)) <= MaxEntries
           /\ Pooled \in SUBSET Chunks /\ IsFiniteSet(Pooled)
           /\ \A c : /\ FusedScore(c) = Part(Pool(dense), c) + Part(Pool(lexical), c)
                     /\ FusedScore(c) \in Nat
<1>1. /\ dense \in Seq(Chunks) /\ Len(dense) <= MaxEntries /\ Len(dense) \in Nat
      /\ lexical \in Seq(Chunks) /\ Len(lexical) <= MaxEntries /\ Len(lexical) \in Nat
  BY RankingFacts, ListFacts
<1>2. /\ Pool(dense) \in Seq(Chunks) /\ Len(Pool(dense)) <= Len(dense)
      /\ Pool(lexical) \in Seq(Chunks) /\ Len(Pool(lexical)) <= Len(lexical)
      /\ Len(Pool(dense)) \in Nat /\ Len(Pool(lexical)) \in Nat
  BY <1>1, PoolFacts, ListFacts
<1>3. Len(Pool(dense)) <= MaxEntries /\ Len(Pool(lexical)) <= MaxEntries
  BY <1>1, <1>2, ParametersAssumption
<1>4. Pooled \in SUBSET Chunks
  BY <1>2, ListFacts DEF Pooled
<1>5. IsFiniteSet(Pooled)
  BY <1>4, FS_Subset, ParametersAssumption
<1>6. \A c : Part(Pool(dense), c) \in Nat /\ Part(Pool(lexical), c) \in Nat
  BY <1>2, <1>3, PartFacts
<1> QED
  BY <1>2, <1>3, <1>4, <1>5, <1>6 DEF FusedScore

\* Reciprocal rank fusion keeps every order both rankings agree on, copy by copy.
LEMMA FusionKeepsOrder ==
    ASSUME TypeOK, dense \in DenseRankings, lexical \in LexicalRankings,
           candidates = Pool(dense),
           NEW s \in FusedOrders, NEW b, NEW c,
           Precedes(dense, b, c), Precedes(lexical, b, c)
    PROVE  Precedes(s, b, c)
<1>1. /\ Pool(dense) \in Seq(Chunks) /\ Len(Pool(dense)) <= MaxEntries
      /\ Pool(lexical) \in Seq(Chunks) /\ Len(Pool(lexical)) <= MaxEntries
      /\ Pooled \in SUBSET Chunks
  BY FusionFacts
<1>2. /\ s \in SetToSeqs(Pooled) /\ s \in Seq(Chunks) /\ IsInjective(s) /\ ToSet(s) = Pooled
      /\ \A i, j \in DOMAIN s : i < j => Ahead(s[i], s[j])
  BY <1>1, PermutationFacts DEF FusedOrders
<1>3. SUFFICES ASSUME c \in Pooled PROVE Precedes(s, b, c)
  BY <1>2, AbsentPreceded
<1>4. Precedes(Pool(dense), b, c) /\ Precedes(Pool(lexical), b, c)
  BY PoolFacts, RankingFacts
<1>5. /\ Part(Pool(dense), c) <= Part(Pool(dense), b)
      /\ c \in ToSet(Pool(dense)) => Part(Pool(dense), c) < Part(Pool(dense), b)
      /\ Part(Pool(dense), b) \in Nat /\ Part(Pool(dense), c) \in Nat
  BY <1>1, <1>4, PartFacts
<1>6. /\ Part(Pool(lexical), c) <= Part(Pool(lexical), b)
      /\ c \in ToSet(Pool(lexical)) => Part(Pool(lexical), c) < Part(Pool(lexical), b)
      /\ Part(Pool(lexical), b) \in Nat /\ Part(Pool(lexical), c) \in Nat
  BY <1>1, <1>4, PartFacts
<1>7. c \in ToSet(Pool(dense)) \/ c \in ToSet(Pool(lexical))
  BY <1>3 DEF Pooled
<1>8. FusedScore(c) < FusedScore(b) /\ FusedScore(b) \in Nat /\ FusedScore(c) \in Nat
  BY <1>5, <1>6, <1>7, FusionFacts
<1>9. b \in Pooled
  <2>1. CASE c \in ToSet(Pool(dense))
    <3>1. b \in ToSet(Pool(dense))
      BY <1>1, <1>4, <2>1, PrecedingPresent
    <3> QED
      BY <3>1 DEF Pooled
  <2>2. CASE c \in ToSet(Pool(lexical))
    <3>1. b \in ToSet(Pool(lexical))
      BY <1>1, <1>4, <2>2, PrecedingPresent
    <3> QED
      BY <3>1 DEF Pooled
  <2> QED
    BY <1>7, <2>1, <2>2
<1>10. PICK i \in DOMAIN s, j \in DOMAIN s : s[i] = b /\ s[j] = c
  BY <1>2, <1>3, <1>9 DEF ToSet
<1>11. DOMAIN s = 1 .. Len(s) /\ Len(s) \in Nat
  BY <1>2, ListFacts
<1>12. ~ (j < i) /\ i # j
  BY <1>2, <1>8, <1>10, <1>11 DEF Ahead
<1>13. i < j
  BY <1>11, <1>12
<1>14. Places(s, c) = {j} /\ Places(s, b) = {i}
  BY <1>2, <1>10 DEF Places, IsInjective
<1> DEFINE f == [x \in {j} |-> i]
<1>15. f \in Injection(Places(s, c), Places(s, b))
  BY <1>14 DEF Injection, IsInjective
<1> QED
  BY <1>13, <1>14, <1>15 DEF Precedes

\* It makes one list: of the chunks of both pools, by score and then by id.
LEMMA FusionIsOneList ==
    ASSUME TypeOK, dense \in DenseRankings, lexical \in LexicalRankings,
           candidates = Pool(dense)
    PROVE  \E s : FusedOrders = {s}
<1> DEFINE R == {pair \in Pooled \X Pooled : Ahead(pair[1], pair[2])}
<1>1. Pooled \in SUBSET Chunks /\ IsFiniteSet(Pooled)
  BY FusionFacts
<1>2. \A c \in Pooled : FusedScore(c) \in Nat /\ c \in Nat
  BY <1>1, FusionFacts, ParametersAssumption
<1>3. \A b, c \in Pooled : <<b, c>> \in R <=> Ahead(b, c)
  OBVIOUS
<1> HIDE DEF R
<1>4. StrictTotalOrder(R, Pooled)
  BY <1>2, <1>3 DEF StrictTotalOrder, Ahead
<1>5. ASSUME NEW s \in SetToSeqs(Pooled)
      PROVE  (\A i, j \in DOMAIN s : i < j => Ahead(s[i], s[j]))
                <=> \A i, j \in DOMAIN s : i < j => <<s[i], s[j]>> \in R
  <2>1. \A i \in DOMAIN s : s[i] \in Pooled
    BY DEF SetToSeqs
  <2> QED
    BY <1>3, <2>1
<1>6. FusedOrders = SortedLists(R, Pooled)
  BY <1>5 DEF FusedOrders, SortedLists
<1> QED
  BY <1>1, <1>4, <1>6, SortedOnce

\* And so does the filter, whatever the list repeats.
LEMMA KeepIsOneList ==
    ASSUME NEW list \in Seq(Chunks), NEW allowed
    PROVE  \E s : Keep(list, allowed) = {s}
<1> DEFINE I == {i \in DOMAIN list : list[i] \in allowed}
           R == {pair \in I \X I : pair[1] < pair[2]}
           P == {p \in SetToSeqs(I) : \A i, j \in DOMAIN p : i < j => p[i] < p[j]}
<1>1. IsFiniteSet(I) /\ \A i \in I : i \in Nat
  BY ListFacts, FS_Subset
<1>2. \A i, j \in I : <<i, j>> \in R <=> i < j
  OBVIOUS
<1>3. Keep(list, allowed) = {At(list, p) : p \in P}
  BY DEF Keep
<1> HIDE DEF I, R
<1>4. StrictTotalOrder(R, I)
  BY <1>1, <1>2 DEF StrictTotalOrder
<1>5. ASSUME NEW p \in SetToSeqs(I)
      PROVE  (\A i, j \in DOMAIN p : i < j => p[i] < p[j])
                <=> \A i, j \in DOMAIN p : i < j => <<p[i], p[j]>> \in R
  <2>1. \A i \in DOMAIN p : p[i] \in I
    BY DEF SetToSeqs
  <2> QED
    BY <1>2, <2>1
<1>6. P = SortedLists(R, I)
  BY <1>5 DEF SortedLists
<1>7. \E p : P = {p}
  BY <1>1, <1>4, <1>6, SortedOnce
<1> HIDE DEF P
<1>8. PICK p : P = {p}
  BY <1>7
<1>9. Keep(list, allowed) = {At(list, p)}
  BY <1>3, <1>8
<1> QED
  BY <1>9

-----------------------------------------------------------------------------
(* The invariant, by the stage about to run. *)

Allowable == contains \ excluded
Answering == pc = "log" \/ status = 200

\* Which rankings there are, and what of them is in the candidates.
RetrievedInv ==
    /\ status = 200 => pc = "done"
    /\ pc \in {"resolve", "typo", "expand", "dense"} => dense = <<>> /\ lexical = <<>>
    /\ pc = "dense" => UsesDense
    /\ pc = "lexical" =>
          /\ UsesLexical /\ lexical = <<>>
          /\ UsesDense => dense \in DenseRankings /\ candidates = Pool(dense)
          /\ ~ UsesDense => dense = <<>>
    /\ pc = "fuse" =>
          /\ Fuses
          /\ dense \in DenseRankings /\ lexical \in LexicalRankings
          /\ candidates = Pool(dense)
    /\ pc \in {"filter", "rerank", "truncate"} \/ Answering =>
          /\ IF UsesDense THEN dense \in DenseRankings ELSE dense = <<>>
          /\ IF UsesLexical THEN lexical \in LexicalRankings ELSE lexical = <<>>

\* Everything from the filter on is allowed.
AllowedInv ==
    /\ pc \in {"rerank", "truncate"} => ToSet(candidates) \subseteq Allowable
    /\ Answering => ToSet(hits) \subseteq Allowable

\* Nothing retrieved and allowed is missing, or there are top_k others.
PageInv ==
    /\ pc = "filter" => Retrieved \subseteq ToSet(candidates)
    /\ pc = "rerank" => Retrieved \cap Allowable \subseteq ToSet(candidates)
    /\ pc = "truncate" /\ (reranked => topK <= TopN) =>
          topK <= Len(candidates) \/ Retrieved \cap Allowable \subseteq ToSet(candidates)
    /\ Answering /\ (reranked => topK <= TopN) => Full

\* list has, of the chunks of S, whatever comes before what it has, copy by copy.
Ordered(list, S) == \A b \in S, c \in Chunks : Before(b, c) => Precedes(list, b, c)

OrderInv ==
    method # "weighted" =>
        /\ pc = "filter" => Ordered(candidates, Chunks)
        /\ pc \in {"rerank", "truncate"} /\ ~ reranked => Ordered(candidates, Allowable)
        /\ Answering /\ ~ reranked => Ordered(hits, Allowable)

IInv == TypeOK /\ RetrievedInv /\ AllowedInv /\ PageInv /\ OrderInv

LEMMA InitIInv == Init => IInv
<1> SUFFICES ASSUME Init PROVE IInv
  OBVIOUS
<1>1. <<>> \in Seq(Chunks) /\ IsInjective(<<>>)
  BY EmptyList
<1>2. TypeOK
  BY <1>1 DEF Init, TypeOK, Stages, Statuses
<1> QED
  BY <1>2 DEF Init, IInv, RetrievedInv, AllowedInv, PageInv, OrderInv, Answering

-----------------------------------------------------------------------------
(* Types. *)

\* What the cross-encoder makes of the first top_n of a list.
LEMMA ReorderFacts ==
    ASSUME NEW list \in Seq(Chunks), NEW s \in Reorder(list)
    PROVE  /\ s \in Seq(Chunks) /\ ToSet(s) \subseteq ToSet(list)
           /\ Len(s) = IF TopN < Len(list) THEN TopN ELSE Len(list)
           /\ ~ (TopN < Len(list)) => ToSet(s) = ToSet(list)
           /\ IsInjective(list) => IsInjective(s)
<1> DEFINE bounded == Slice(list, TopN)
           I == DOMAIN bounded
<1>1. /\ bounded \in Seq(Chunks) /\ Prefix(bounded, list)
      /\ Len(bounded) = IF TopN < Len(list) THEN TopN ELSE Len(list)
  BY SliceFacts, ParametersAssumption
<1>2. PICK p \in SetToSeqs(I) : s = At(bounded, p)
  BY DEF Reorder
<1> HIDE DEF bounded
<1>3. /\ At(bounded, p) \in Seq(Chunks) /\ Len(At(bounded, p)) = Cardinality(I)
      /\ ToSet(At(bounded, p)) = {bounded[i] : i \in I}
      /\ IsInjective(bounded) => IsInjective(At(bounded, p))
  BY <1>1, <1>2, AtFacts
<1>4. Cardinality(I) = Len(bounded) /\ ToSet(bounded) = {bounded[i] : i \in I}
  BY <1>1, ListFacts DEF ToSet
<1>5. /\ ToSet(bounded) \subseteq ToSet(list)
      /\ Len(bounded) = Len(list) => ToSet(bounded) = ToSet(list)
      /\ IsInjective(list) => IsInjective(bounded)
  BY <1>1, PrefixFacts
<1> QED
  BY <1>1, <1>2, <1>3, <1>4, <1>5

LEMMA TypeStep == TypeOK /\ RetrievedInv /\ [Next]_vars => TypeOK'
<1> SUFFICES ASSUME TypeOK, RetrievedInv, [Next]_vars PROVE TypeOK'
  OBVIOUS
<1> USE DEF request, rankings, answer
<1>a. /\ candidates \in Seq(Chunks) /\ topK \in Int
      /\ mode # "bm25" => IsInjective(candidates)
  BY ParametersAssumption DEF TypeOK
<1>b. /\ {"resolve", "typo", "expand", "dense", "lexical", "fuse", "filter",
          "rerank", "truncate", "log", "done"} = Stages
      /\ {"typo", "expand", "rerank"} = OptionalStages
      /\ {200, 404, 500} \subseteq Statuses
  BY DEF Stages, OptionalStages, Statuses
<1>1. ASSUME Resolve PROVE TypeOK'
  BY <1>1, <1>b DEF TypeOK, Resolve, Abort
<1>2. ASSUME SuggestTypo \/ Expand PROVE TypeOK'
  BY <1>2, <1>b DEF TypeOK, SuggestTypo, Expand, QueryStage
<1>3. ASSUME RetrieveDense PROVE TypeOK'
  <2>1. CASE Abort(500)
    BY <1>3, <2>1, <1>b DEF TypeOK, Abort
  <2>2. ASSUME NEW r \in DenseRankings, dense' = r, candidates' = Pool(r),
               pc' = (IF UsesLexical THEN "lexical" ELSE "filter"),
               UNCHANGED <<request, lexical, reranked, warnings, answer>>
        PROVE  TypeOK'
    <3>1. Pool(r) \in Seq(Chunks) /\ IsInjective(Pool(r))
      BY RankingFacts, PoolFacts
    <3>2. pc' \in Stages
      BY <2>2, <1>b
    <3> QED
      BY <2>2, <3>1, <3>2 DEF TypeOK
  <2> QED
    BY <1>3, <2>1, <2>2 DEF RetrieveDense
<1>4. ASSUME RetrieveLexical PROVE TypeOK'
  <2>1. PICK r \in LexicalRankings :
           lexical' = r /\ candidates' = IF Fuses THEN candidates ELSE Pool(r)
    BY <1>4 DEF RetrieveLexical
  <2>2. Fuses \/ mode = "bm25"
    BY <1>4 DEF RetrieveLexical, RetrievedInv, Fuses, UsesLexical
  <2>3. candidates' \in Seq(Chunks) /\ (mode # "bm25" => IsInjective(candidates'))
    <3>1. Pool(r) \in Seq(Chunks)
      BY RankingFacts, PoolFacts
    <3> QED
      BY <1>a, <2>1, <2>2, <3>1
  <2>4. pc' \in Stages
    BY <1>4, <1>b DEF RetrieveLexical
  <2> QED
    BY <1>4, <2>1, <2>3, <2>4 DEF RetrieveLexical, TypeOK
<1>5. ASSUME Fuse PROVE TypeOK'
  <2>1. Pooled \in SUBSET Chunks
    BY <1>5, FusionFacts DEF Fuse, RetrievedInv
  <2>2. candidates' \in SetToSeqs(Pooled)
    BY <1>5 DEF Fuse, FusedOrders
  <2>3. candidates' \in Seq(Chunks) /\ IsInjective(candidates')
    BY <2>1, <2>2, PermutationFacts
  <2> QED
    BY <1>5, <2>3, <1>b DEF Fuse, TypeOK
<1>6. ASSUME Filter PROVE TypeOK'
  <2>1. candidates' \in Seq(Chunks) /\ (mode # "bm25" => IsInjective(candidates'))
    BY <1>6, <1>a, KeepFacts DEF Filter
  <2>2. contains' \in SUBSET Chunks /\ excluded' \in SUBSET Chunks
    BY <1>6, ParametersAssumption DEF Filter
  <2>3. pc' \in Stages
    BY <1>6, <1>b DEF Filter
  <2> QED
    BY <1>6, <2>1, <2>2, <2>3 DEF Filter, TypeOK
<1>7. ASSUME Rerank PROVE TypeOK'
  <2>1. candidates' \in Seq(Chunks) /\ (mode # "bm25" => IsInjective(candidates'))
    BY <1>7, <1>a, ReorderFacts DEF Rerank
  <2>2. /\ pc' = "truncate" /\ pc' \in Stages
        /\ UNCHANGED <<request, rankings, answer>>
    BY <1>7, <1>b DEF Rerank
  <2>3. reranked' \in BOOLEAN /\ warnings' \subseteq OptionalStages
    <3>1. "rerank" \in OptionalStages /\ reranked \in BOOLEAN /\ warnings \subseteq OptionalStages
      BY <1>b DEF TypeOK
    <3>2. reranked' \in {reranked, TRUE} /\ warnings' \in {warnings, warnings \cup {"rerank"}}
      BY <1>7 DEF Rerank
    <3> QED
      BY <3>1, <3>2
  <2> QED
    BY <2>1, <2>2, <2>3 DEF TypeOK
<1>8. ASSUME Truncate PROVE TypeOK'
  <2>1. hits' \in Seq(Chunks) /\ Prefix(hits', candidates)
    BY <1>8, <1>a, SliceFacts DEF Truncate
  <2>2. mode # "bm25" => IsInjective(hits')
    BY <1>a, <2>1, PrefixFacts
  <2> QED
    BY <1>8, <2>1, <2>2, <1>b DEF Truncate, TypeOK
<1>9. ASSUME Log PROVE TypeOK'
  BY <1>9, <1>b DEF TypeOK, Log
<1>10. ASSUME Done \/ UNCHANGED vars PROVE TypeOK'
  BY <1>10 DEF TypeOK, Done, vars
<1> QED
  BY <1>1, <1>2, <1>3, <1>4, <1>5, <1>6, <1>7, <1>8, <1>9, <1>10 DEF Next

LEMMA RetrievedStep == TypeOK /\ RetrievedInv /\ [Next]_vars => RetrievedInv'
<1> SUFFICES ASSUME TypeOK, RetrievedInv, [Next]_vars PROVE RetrievedInv'
  OBVIOUS
<1> USE DEF request, rankings, answer, RetrievedInv, Answering, UsesDense, UsesLexical,
            Fuses, Pool, PoolSize
<1>1. ASSUME Resolve PROVE RetrievedInv'
  BY <1>1 DEF Resolve, Abort
<1>2. ASSUME SuggestTypo \/ Expand PROVE RetrievedInv'
  BY <1>2 DEF SuggestTypo, Expand, QueryStage
<1>3. ASSUME RetrieveDense PROVE RetrievedInv'
  BY <1>3 DEF RetrieveDense, Abort
<1>4. ASSUME RetrieveLexical PROVE RetrievedInv'
  BY <1>4 DEF RetrieveLexical
<1>5. ASSUME Fuse PROVE RetrievedInv'
  BY <1>5 DEF Fuse
<1>6. ASSUME Filter PROVE RetrievedInv'
  BY <1>6 DEF Filter
<1>7. ASSUME Rerank PROVE RetrievedInv'
  BY <1>7 DEF Rerank
<1>8. ASSUME Truncate PROVE RetrievedInv'
  BY <1>8 DEF Truncate
<1>9. ASSUME Log PROVE RetrievedInv'
  BY <1>9 DEF Log
<1>10. ASSUME Done \/ UNCHANGED vars PROVE RetrievedInv'
  BY <1>10 DEF Done, vars
<1> QED
  BY <1>1, <1>2, <1>3, <1>4, <1>5, <1>6, <1>7, <1>8, <1>9, <1>10 DEF Next

-----------------------------------------------------------------------------
(* The steps. *)

\* Before the filter has run, only the filter's own obligations count.
LEMMA EarlySteps ==
    ASSUME IInv, Resolve \/ SuggestTypo \/ Expand
    PROVE  AllowedInv' /\ PageInv' /\ OrderInv'
<1>1. pc \in {"resolve", "typo", "expand"} /\ status # 200
  BY DEF IInv, RetrievedInv, Resolve, SuggestTypo, Expand, QueryStage
<1>2. pc' \in {"typo", "expand", "dense", "lexical", "done"} /\ status' # 200
  BY <1>1 DEF Resolve, SuggestTypo, Expand, QueryStage, Abort, answer
<1> QED
  BY <1>2 DEF AllowedInv, PageInv, OrderInv, Answering

\* A step that changes nothing the invariant speaks of.
LEMMA StutterStep ==
    ASSUME IInv, Done \/ UNCHANGED vars
    PROVE  AllowedInv' /\ PageInv' /\ OrderInv'
<1>1. UNCHANGED vars
  BY DEF Done
<1>2. /\ Answering' = Answering /\ Allowable' = Allowable /\ Retrieved' = Retrieved
      /\ Full' = Full
  BY <1>1 DEF vars, request, rankings, answer, Answering, Allowable, Retrieved, Full
<1>3. AllowedInv' /\ PageInv'
  BY <1>1, <1>2 DEF vars, request, rankings, answer, IInv, AllowedInv, PageInv
<1>4. \A b, c : Before(b, c)' = Before(b, c)
  BY <1>1 DEF vars, request, rankings, answer, Before, UsesDense, UsesLexical
<1>5. OrderInv'
  BY <1>1, <1>2, <1>4 DEF vars, request, rankings, answer, IInv, OrderInv, Ordered
<1> QED
  BY <1>3, <1>5

LEMMA RetrieveStep ==
    ASSUME IInv, RetrieveDense \/ RetrieveLexical
    PROVE  AllowedInv' /\ PageInv' /\ OrderInv'
<1> USE DEF request, rankings, answer
<1>t. TypeOK
  BY DEF IInv
<1>1. pc' \in {"lexical", "fuse", "filter", "done"} /\ status' # 200
  BY DEF RetrieveDense, RetrieveLexical, Abort, IInv, RetrievedInv
<1>2. AllowedInv'
  BY <1>1 DEF AllowedInv, Answering
<1>3. ASSUME pc' = "filter"
      PROVE  Retrieved' \subseteq ToSet(candidates') /\ Ordered(candidates, Chunks)'
  <2>1. CASE RetrieveDense
    <3>1. PICK r \in DenseRankings : dense' = r /\ candidates' = Pool(r)
      BY <1>3, <2>1 DEF RetrieveDense, Abort
    <3>2. lexical' = <<>> /\ UsesDense' /\ ~ UsesLexical'
      BY <1>3, <2>1 DEF RetrieveDense, Abort, IInv, RetrievedInv, UsesDense, UsesLexical
    <3>3. \A b, c : Before(b, c)' <=> Precedes(r, b, c)
      BY <3>1, <3>2 DEF Before
    <3>4. Retrieved' = {c \in Chunks : \E i \in DOMAIN r : i <= CandidateK /\ r[i] = c}
      BY <3>1, <3>2 DEF Retrieved
    <3>5. r \in Seq(Chunks)
      BY RankingFacts
    <3> QED
      BY <1>t, <3>1, <3>3, <3>4, <3>5, PoolFacts DEF Ordered
  <2>2. CASE RetrieveLexical
    <3>0. ~ Fuses /\ UsesLexical /\ dense = <<>> /\ ~ UsesDense
      BY <1>3, <2>2 DEF RetrieveLexical, IInv, RetrievedInv, Fuses, UsesLexical, UsesDense
    <3>1. PICK r \in LexicalRankings : lexical' = r /\ candidates' = Pool(r)
      BY <2>2, <3>0 DEF RetrieveLexical
    <3>2. dense' = <<>> /\ ~ UsesDense' /\ UsesLexical'
      BY <2>2, <3>0 DEF RetrieveLexical, UsesDense, UsesLexical
    <3>3. \A b, c : Before(b, c)' <=> Precedes(r, b, c)
      BY <3>1, <3>2 DEF Before
    <3>4. Retrieved' = {c \in Chunks : \E i \in DOMAIN r : i <= CandidateK /\ r[i] = c}
      BY <3>1, <3>2 DEF Retrieved
    <3>5. r \in Seq(Chunks)
      BY RankingFacts
    <3> QED
      BY <1>t, <3>1, <3>3, <3>4, <3>5, PoolFacts DEF Ordered
  <2> QED
    BY <2>1, <2>2
<1>4. PageInv' /\ OrderInv'
  BY <1>1, <1>3 DEF PageInv, OrderInv, Answering
<1> QED
  BY <1>2, <1>4

LEMMA FuseStep ==
    ASSUME IInv, Fuse
    PROVE  AllowedInv' /\ PageInv' /\ OrderInv'
<1> USE DEF request, rankings, answer
<1>1. /\ TypeOK /\ Fuses /\ dense \in DenseRankings /\ lexical \in LexicalRankings
      /\ candidates = Pool(dense) /\ status # 200
  BY DEF IInv, RetrievedInv, Fuse
<1>2. pc' = "filter" /\ status' # 200 /\ UNCHANGED <<mode, dense, lexical>>
  BY <1>1 DEF Fuse
<1>3. candidates' \in SetToSeqs(Pooled)
  BY DEF Fuse, FusedOrders
<1>4. Pooled \in SUBSET Chunks /\ Pooled = ToSet(Pool(dense)) \cup ToSet(Pool(lexical))
  BY <1>1, FusionFacts DEF Pooled
<1>5. ToSet(candidates') = Pooled
  BY <1>3, <1>4, PermutationFacts
<1>6. Retrieved' \subseteq ToSet(candidates')
  <2>1. Retrieved' = Retrieved
    BY <1>2 DEF Retrieved
  <2>2. dense \in Seq(Chunks) /\ lexical \in Seq(Chunks)
    BY <1>1, RankingFacts
  <2>3. /\ {c \in Chunks : \E i \in DOMAIN dense : i <= CandidateK /\ dense[i] = c}
              \subseteq ToSet(Pool(dense))
        /\ {c \in Chunks : \E i \in DOMAIN lexical : i <= CandidateK /\ lexical[i] = c}
              \subseteq ToSet(Pool(lexical))
    BY <1>1, <2>2, PoolFacts
  <2> QED
    BY <1>4, <1>5, <2>1, <2>3 DEF Retrieved
<1>7. ASSUME method' # "weighted" PROVE Ordered(candidates, Chunks)'
  <2>1. candidates' \in FusedOrders
    BY <1>7 DEF Fuse
  <2>2. \A b, c : Before(b, c)' => Precedes(dense, b, c) /\ Precedes(lexical, b, c)
    BY <1>1, <1>2 DEF Before, Fuses, UsesDense, UsesLexical
  <2> QED
    BY <1>1, <2>1, <2>2, FusionKeepsOrder DEF Ordered
<1> QED
  BY <1>2, <1>6, <1>7 DEF AllowedInv, PageInv, OrderInv, Answering

LEMMA FilterStep ==
    ASSUME IInv, Filter
    PROVE  AllowedInv' /\ PageInv' /\ OrderInv'
<1> USE DEF request, rankings, answer
<1>1. /\ candidates \in Seq(Chunks) /\ Retrieved \subseteq ToSet(candidates) /\ status # 200
      /\ method # "weighted" => Ordered(candidates, Chunks)
  BY DEF IInv, TypeOK, RetrievedInv, PageInv, OrderInv, Filter
<1>2. /\ pc' \in {"rerank", "truncate"} /\ status' # 200
      /\ UNCHANGED <<mode, method, dense, lexical, reranked>>
      /\ contains' \in SUBSET Chunks
  BY <1>1, ParametersAssumption DEF Filter
<1>3. candidates' \in Keep(candidates, Allowable')
  BY DEF Filter, Allowed, Allowable
<1>4. /\ ToSet(candidates') = ToSet(candidates) \cap Allowable'
      /\ \A b \in Allowable' : \A c :
            Precedes(candidates, b, c) => Precedes(candidates', b, c)
  BY <1>1, <1>3, KeepFacts
<1>5. AllowedInv'
  BY <1>2, <1>4 DEF AllowedInv, Answering
<1>6. Retrieved' = Retrieved
  BY <1>2 DEF Retrieved
<1>7. PageInv'
  BY <1>1, <1>2, <1>4, <1>6 DEF PageInv, Answering
<1>8. \A b, c : Before(b, c)' = Before(b, c)
  BY <1>2 DEF Before, UsesDense, UsesLexical
<1>9. ASSUME method # "weighted" PROVE Ordered(candidates, Allowable)'
  <2>1. Allowable' \subseteq Chunks
    BY <1>2 DEF Allowable
  <2> QED
    BY <1>1, <1>4, <1>8, <1>9, <2>1 DEF Ordered
<1>10. OrderInv'
  BY <1>2, <1>9 DEF OrderInv, Answering
<1> QED
  BY <1>5, <1>7, <1>10

LEMMA RerankStep ==
    ASSUME IInv, Rerank
    PROVE  AllowedInv' /\ PageInv' /\ OrderInv'
<1> USE DEF request, rankings, answer
<1>1. /\ candidates \in Seq(Chunks) /\ status # 200 /\ topK \in Int /\ TopN \in Nat \ {0}
      /\ ToSet(candidates) \subseteq Allowable
      /\ Retrieved \cap Allowable \subseteq ToSet(candidates)
      /\ method # "weighted" /\ ~ reranked => Ordered(candidates, Allowable)
  BY ParametersAssumption
     DEF IInv, TypeOK, RetrievedInv, AllowedInv, PageInv, OrderInv, Rerank
<1>2. /\ pc' = "truncate" /\ status' # 200
      /\ UNCHANGED <<mode, topK, contains, excluded, method, dense, lexical>>
  BY <1>1 DEF Rerank
<1>3. /\ Retrieved' = Retrieved /\ Allowable' = Allowable
      /\ \A b, c : Before(b, c)' = Before(b, c)
  BY <1>2 DEF Retrieved, Allowable, Before, UsesDense, UsesLexical
<1>4. CASE candidates' \in Reorder(candidates) /\ reranked' = TRUE
  <2>1. /\ ToSet(candidates') \subseteq ToSet(candidates)
        /\ Len(candidates') = IF TopN < Len(candidates) THEN TopN ELSE Len(candidates)
        /\ ~ (TopN < Len(candidates)) => ToSet(candidates') = ToSet(candidates)
    BY <1>1, <1>4, ReorderFacts
  <2>2. ASSUME topK <= TopN
        PROVE  topK <= Len(candidates') \/ ToSet(candidates') = ToSet(candidates)
    BY <2>1, <2>2
  <2> QED
    BY <1>1, <1>2, <1>3, <1>4, <2>1, <2>2
       DEF AllowedInv, PageInv, OrderInv, Answering
<1>5. CASE UNCHANGED <<candidates, reranked>>
  <2>1. method # "weighted" /\ ~ reranked => Ordered(candidates, Allowable)'
    BY <1>1, <1>3, <1>5 DEF Ordered
  <2> QED
    BY <1>1, <1>2, <1>3, <1>5, <2>1 DEF AllowedInv, PageInv, OrderInv, Answering
<1> QED
  BY <1>4, <1>5 DEF Rerank

LEMMA TruncateStep ==
    ASSUME IInv, Truncate
    PROVE  AllowedInv' /\ PageInv' /\ OrderInv'
<1> USE DEF request, rankings, answer
<1>1. /\ candidates \in Seq(Chunks) /\ status # 200 /\ topK \in Int
      /\ ToSet(candidates) \subseteq Allowable
      /\ (reranked => topK <= TopN) =>
            \/ topK <= Len(candidates)
            \/ Retrieved \cap Allowable \subseteq ToSet(candidates)
      /\ method # "weighted" /\ ~ reranked => Ordered(candidates, Allowable)
  BY ParametersAssumption
     DEF IInv, TypeOK, RetrievedInv, AllowedInv, PageInv, OrderInv, Truncate
<1>2. /\ pc' = "log" /\ status' # 200 /\ hits' = Slice(candidates, topK)
      /\ UNCHANGED <<mode, topK, contains, excluded, method, dense, lexical, reranked>>
  BY <1>1 DEF Truncate
<1>3. /\ Retrieved' = Retrieved /\ Allowable' = Allowable
      /\ \A b, c : Before(b, c)' = Before(b, c)
  BY <1>2 DEF Retrieved, Allowable, Before, UsesDense, UsesLexical
<1>4. /\ hits' \in Seq(Chunks) /\ Prefix(hits', candidates)
      /\ topK >= 0 =>
            Len(hits') = IF topK < Len(candidates) THEN topK ELSE Len(candidates)
  BY <1>1, <1>2, SliceFacts
<1>5. /\ ToSet(hits') \subseteq ToSet(candidates)
      /\ Len(hits') = Len(candidates) => ToSet(hits') = ToSet(candidates)
      /\ \A b, c : Precedes(candidates, b, c) => Precedes(hits', b, c)
  BY <1>1, <1>4, PrefixFacts
<1>6. AllowedInv'
  BY <1>1, <1>2, <1>3, <1>5 DEF AllowedInv
<1>7. PageInv'
  <2>1. ASSUME reranked => topK <= TopN PROVE Full'
    <3>1. SUFFICES ASSUME topK >= 0, Len(hits') # topK
                   PROVE  Retrieved \cap Allowable \subseteq ToSet(hits')
      BY <1>2, <1>3 DEF Full, Allowable
    <3>2. Len(candidates) \in Nat
      BY <1>1, ListFacts
    <3>3. Len(hits') = Len(candidates) /\ ~ (topK <= Len(candidates))
      BY <1>1, <1>4, <3>1, <3>2
    <3> QED
      BY <1>1, <1>5, <2>1, <3>3
  <2> QED
    BY <1>2, <2>1 DEF PageInv, Answering
<1>8. ASSUME method # "weighted", ~ reranked PROVE Ordered(hits, Allowable)'
  BY <1>1, <1>3, <1>5, <1>8 DEF Ordered
<1>9. OrderInv'
  BY <1>2, <1>8 DEF OrderInv
<1> QED
  BY <1>6, <1>7, <1>9

LEMMA LogStep ==
    ASSUME IInv, Log
    PROVE  AllowedInv' /\ PageInv' /\ OrderInv'
<1> USE DEF request, rankings, answer
<1>1. Answering /\ pc' = "done"
  BY DEF Log, Answering
<1>2. UNCHANGED <<mode, topK, contains, excluded, method, dense, lexical, reranked, hits>>
  BY DEF Log
<1>3. /\ Retrieved' = Retrieved /\ Allowable' = Allowable
      /\ \A b, c : Before(b, c)' = Before(b, c)
  BY <1>2 DEF Retrieved, Allowable, Before, UsesDense, UsesLexical
<1>4. Full => Full'
  BY <1>2, <1>3 DEF Full, Allowable
<1>5. Ordered(hits, Allowable) => Ordered(hits, Allowable)'
  BY <1>2, <1>3 DEF Ordered
<1> QED
  BY <1>1, <1>2, <1>3, <1>4, <1>5 DEF IInv, AllowedInv, PageInv, OrderInv

-----------------------------------------------------------------------------
(* Theorems. *)

LEMMA SpecIInv == Spec => []IInv
<1>1. IInv /\ [Next]_vars => IInv'
  <2> SUFFICES ASSUME IInv, [Next]_vars PROVE IInv'
    OBVIOUS
  <2>1. TypeOK' /\ RetrievedInv'
    BY TypeStep, RetrievedStep DEF IInv
  <2>2. AllowedInv' /\ PageInv' /\ OrderInv'
    BY EarlySteps, StutterStep, RetrieveStep, FuseStep, FilterStep, RerankStep,
       TruncateStep, LogStep DEF Next
  <2> QED
    BY <2>1, <2>2 DEF IInv
<1> QED
  BY InitIInv, <1>1, PTL DEF Spec

\* Every stage hands on a list of chunks, and only BM25 on its own one that repeats
\* any: what is fused, or comes from the collection alone, has a chunk once, however
\* often the lexical index lists it.
THEOREM TypeCorrect == Spec => []TypeOK
<1>1. IInv => TypeOK
  BY DEF IInv
<1> QED
  BY SpecIInv, <1>1, PTL

\* An answer holds only chunks that pass the strict filter, in every mode and
\* whichever stages failed.
THEOREM AnswersAllowed == Spec => []HitsAllowed
<1>1. IInv => HitsAllowed
  BY DEF IInv, AllowedInv, Answering, Allowable, HitsAllowed
<1> QED
  BY SpecIInv, <1>1, PTL

\* A page is shorter than top_k only if it holds everything retrieved and allowed,
\* for every pool size, top_k and top_n, unless the reranker was asked for more than
\* top_n.
THEOREM PagesFull == Spec => []PageFull
<1>1. IInv => PageFull
  BY DEF IInv, PageInv, Answering, PageFull
<1> QED
  BY SpecIInv, <1>1, PTL

\* The order of a fused list depends on nothing but the two pools.
THEOREM FusionDetermined == Spec => []FusedOnce
<1>1. IInv => FusedOnce
  <2>1. ASSUME IInv, pc = "fuse" PROVE Cardinality(FusedOrders) = 1
    <3>1. PICK s : FusedOrders = {s}
      BY <2>1, FusionIsOneList DEF IInv, RetrievedInv
    <3> QED
      BY <3>1, FS_Singleton
  <2> QED
    BY <2>1 DEF FusedOnce
<1> QED
  BY SpecIInv, <1>1, PTL

\* Whatever a search asks the filter to allow, there is one list it can hand on.
THEOREM FilterDetermined ==
    Spec => [](pc = "filter" => \A allowed \in SUBSET Chunks : \E s : Keep(candidates, allowed) = {s})
<1>1. IInv => \A allowed \in SUBSET Chunks : \E s : Keep(candidates, allowed) = {s}
  BY KeepIsOneList DEF IInv, TypeOK
<1> QED
  BY SpecIInv, <1>1, PTL

\* Whatever all rankings of the mode put first, copy by copy, comes first: pools,
\* reciprocal rank fusion with the ranks of repeated chunks added up, its tie-break,
\* the filter and the cut turn no such order around.
THEOREM OrderKept == Spec => []HigherRankedFirst
<1>1. IInv => HigherRankedFirst
  BY DEF IInv, OrderInv, Answering, Ordered, Allowable, HigherRankedFirst
<1> QED
  BY SpecIInv, <1>1, PTL
=================================================================================
