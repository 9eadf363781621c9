------------------------------- MODULE ListLemmas -------------------------------
(***************************************************************************)
(* Facts about finite sets, sums and sorted lists that the models are built*)
(* on, for any data: what a sum over a function is, that a finite set of   *)
(* integers has a least and a greatest member, and that a finite set with a*)
(* strict total order can be listed in that order in exactly one way.      *)
(* Inductions over data are over sets of sets: the least counterexample.   *)
(***************************************************************************)
EXTENDS Integers, FiniteSetsExt, SequencesExt, FiniteSetTheorems, SequenceTheorems, TLAPS

\* A set of subsets of a finite set has a least member.
LEMMA LeastSubset ==
    ASSUME NEW S, IsFiniteSet(S), NEW Bad \in SUBSET SUBSET S, Bad # {}
    PROVE  \E T \in Bad : \A U \in SUBSET T : U # T => U \notin Bad
<1>1. IsWellFoundedOn(StrictSubsetOrdering(S), SUBSET S)
  BY FS_StrictSubsetOrderingWellFounded, FS_FiniteSubsetsOfFinite
<1>2. PICK T \in Bad : \A U \in Bad : ~ (<<U, T>> \in StrictSubsetOrdering(S))
  BY <1>1, WFMin
<1>3. ASSUME NEW U \in SUBSET T, U # T PROVE U \notin Bad
  BY <1>2, <1>3 DEF StrictSubsetOrdering
<1> QED
  BY <1>3

\* Induction on finite sets, for a property given by the set of the sets that have it.
LEMMA FiniteInduction ==
    ASSUME NEW S, IsFiniteSet(S),
           NEW P, {} \in P,
           \A T \in SUBSET S, x \in S : T \in P /\ x \notin T => T \cup {x} \in P
    PROVE  S \in P
<1> DEFINE Bad == {T \in SUBSET S : T \notin P}
<1>1. SUFFICES ASSUME S \notin P PROVE FALSE
  OBVIOUS
<1>2. PICK T \in Bad : \A U \in SUBSET T : U # T => U \notin Bad
  <2> Bad \in SUBSET SUBSET S /\ Bad # {}
    BY <1>1
  <2> HIDE DEF Bad
  <2> QED
    BY LeastSubset
<1>3. PICK x : x \in T
  OBVIOUS
<1>4. T \ {x} \in SUBSET T /\ T \ {x} # T /\ T \ {x} \in SUBSET S
  BY <1>3
<1>5. T \ {x} \in P /\ x \in S /\ (T \ {x}) \cup {x} = T
  BY <1>2, <1>3, <1>4
<1> QED
  BY <1>4, <1>5

-----------------------------------------------------------------------------
(* Sums.  SumFunctionOnSet is a recursive function on the subsets of a set; that   *)
(* there is one, and only one, is what has to be shown.                            *)

FirstOf(s) == CHOOSE x \in s : TRUE
Unfolded(f, g, s) == IF s = {} THEN 0 ELSE f[FirstOf(s)] + g[s \ {FirstOf(s)}]
Sums(f, S, g) == g = [s \in SUBSET S |-> Unfolded(f, g, s)]
TheSums(f, S) == CHOOSE g : Sums(f, S, g)

LEMMA SumIsFold ==
    ASSUME NEW f, NEW S
    PROVE  SumFunctionOnSet(f, S) = TheSums(f, S)[S]
BY DEF SumFunctionOnSet, FoldFunctionOnSet, MapThenFoldSet, TheSums, Sums, Unfolded, FirstOf

LEMMA SumsUnique ==
    ASSUME NEW f, NEW S, IsFiniteSet(S), NEW g, Sums(f, S, g),
           NEW T \in SUBSET S, NEW h, Sums(f, T, h)
    PROVE  \A s \in SUBSET T : g[s] = h[s]
<1> DEFINE Bad == {s \in SUBSET T : g[s] # h[s]}
<1>1. SUFFICES ASSUME Bad # {} PROVE FALSE
  OBVIOUS
<1>2. IsFiniteSet(T)
  BY FS_Subset
<1>3. PICK s \in Bad : \A u \in SUBSET s : u # s => u \notin Bad
  <2> Bad \in SUBSET SUBSET T /\ Bad # {}
    BY <1>1
  <2> HIDE DEF Bad
  <2> QED
    BY <1>2, LeastSubset
<1>4. g[s] = Unfolded(f, g, s) /\ h[s] = Unfolded(f, h, s)
  BY <1>3 DEF Sums
<1>5. CASE s = {}
  BY <1>3, <1>4, <1>5 DEF Unfolded
<1>6. CASE s # {}
  <2>1. FirstOf(s) \in s
    BY <1>6 DEF FirstOf
  <2>2. s \ {FirstOf(s)} \in SUBSET s /\ s \ {FirstOf(s)} # s /\ s \ {FirstOf(s)} \in SUBSET T
    BY <1>3, <2>1
  <2>3. g[s \ {FirstOf(s)}] = h[s \ {FirstOf(s)}]
    BY <1>3, <2>2
  <2> QED
    BY <1>3, <1>4, <1>6, <2>3 DEF Unfolded
<1> QED
  BY <1>5, <1>6

LEMMA SumsExist ==
    ASSUME NEW f, NEW S, IsFiniteSet(S)
    PROVE  Sums(f, S, TheSums(f, S))
<1> DEFINE Bad == {T \in SUBSET S : ~ \E g : Sums(f, T, g)}
<1>1. SUFFICES ASSUME Bad # {} PROVE FALSE
  BY DEF TheSums
<1>2. PICK T \in Bad : \A U \in SUBSET T : U # T => U \notin Bad
  <2> Bad \in SUBSET SUBSET S /\ Bad # {}
    BY <1>1
  <2> HIDE DEF Bad
  <2> QED
    BY LeastSubset
<1>3. \A U \in SUBSET T : U # T => Sums(f, U, TheSums(f, U)) /\ IsFiniteSet(U)
  BY <1>2, FS_Subset DEF TheSums
<1> DEFINE k == [u \in SUBSET T |-> TheSums(f, u)[u]]
           g == [s \in SUBSET T |-> Unfolded(f, k, s)]
<1>4. ASSUME NEW u \in SUBSET T, u # T PROVE g[u] = k[u]
  <2>1. k[u] = Unfolded(f, TheSums(f, u), u)
    BY <1>3, <1>4 DEF Sums
  <2>2. CASE u = {}
    BY <2>1, <2>2 DEF Unfolded
  <2>3. CASE u # {}
    <3>1. FirstOf(u) \in u
      BY <2>3 DEF FirstOf
    <3> DEFINE v == u \ {FirstOf(u)}
    <3>2. v \in SUBSET u /\ v \in SUBSET T /\ v # T
      BY <1>4, <3>1
    <3>3. \A s \in SUBSET v : TheSums(f, u)[s] = TheSums(f, v)[s]
      <4>1. IsFiniteSet(u) /\ Sums(f, u, TheSums(f, u)) /\ Sums(f, v, TheSums(f, v))
        BY <1>3, <1>4, <3>2
      <4> HIDE DEF v
      <4> QED
        BY <3>2, <4>1, SumsUnique
    <3>4. k[v] = TheSums(f, u)[v]
      BY <3>2, <3>3
    <3> QED
      BY <2>1, <2>3, <3>4 DEF Unfolded
  <2> QED
    BY <2>2, <2>3
<1>5. ASSUME NEW s \in SUBSET T PROVE Unfolded(f, g, s) = Unfolded(f, k, s)
  <2>1. CASE s = {}
    BY <2>1 DEF Unfolded
  <2>2. CASE s # {}
    <3>1. FirstOf(s) \in s
      BY <2>2 DEF FirstOf
    <3>2. s \ {FirstOf(s)} \in SUBSET T /\ s \ {FirstOf(s)} # T
      BY <3>1
    <3>3. g[s \ {FirstOf(s)}] = k[s \ {FirstOf(s)}]
      BY <1>4, <3>2
    <3> QED
      BY <2>2, <3>3 DEF Unfolded
  <2> QED
    BY <2>1, <2>2
<1>6. Sums(f, T, g)
  BY <1>5 DEF Sums
<1> QED
  BY <1>2, <1>6

\* The sum over no elements is 0; that of others is any one plus the sum of the rest,
\* for the element the fold takes first.
LEMMA SumStep ==
    ASSUME NEW f, NEW S, IsFiniteSet(S)
    PROVE  /\ S = {} => SumFunctionOnSet(f, S) = 0
           /\ S # {} => /\ FirstOf(S) \in S
                        /\ SumFunctionOnSet(f, S)
                              = f[FirstOf(S)] + SumFunctionOnSet(f, S \ {FirstOf(S)})
<1>1. Sums(f, S, TheSums(f, S))
  BY SumsExist
<1>2. SumFunctionOnSet(f, S) = Unfolded(f, TheSums(f, S), S)
  BY <1>1, SumIsFold DEF Sums
<1>3. ASSUME S # {} PROVE TheSums(f, S)[S \ {FirstOf(S)}] = SumFunctionOnSet(f, S \ {FirstOf(S)})
  <2> DEFINE T == S \ {FirstOf(S)}
  <2>1. T \in SUBSET S /\ IsFiniteSet(T)
    BY FS_Subset
  <2>2. Sums(f, T, TheSums(f, T))
    BY <2>1, SumsExist
  <2>3. \A s \in SUBSET T : TheSums(f, S)[s] = TheSums(f, T)[s]
    BY <1>1, <2>1, <2>2, SumsUnique
  <2> QED
    BY <2>3, SumIsFold
<1> QED
  BY <1>2, <1>3 DEF Unfolded, FirstOf

\* Sums of integers are integers, of natural numbers natural numbers, and these are
\* positive if any term is.
LEMMA SumType ==
    ASSUME NEW S, IsFiniteSet(S), NEW f, \A x \in S : f[x] \in Int
    PROVE  /\ SumFunctionOnSet(f, S) \in Int
           /\ (\A x \in S : f[x] \in Nat) =>
                 /\ SumFunctionOnSet(f, S) \in Nat
                 /\ (\E x \in S : f[x] > 0) => SumFunctionOnSet(f, S) > 0
<1> DEFINE Sum(T) == SumFunctionOnSet(f, T)
           Right(T) == /\ Sum(T) \in Int
                       /\ (\A x \in T : f[x] \in Nat) =>
                             Sum(T) \in Nat /\ ((\E x \in T : f[x] > 0) => Sum(T) > 0)
           Bad == {T \in SUBSET S : ~ Right(T)}
<1>1. SUFFICES ASSUME Bad # {} PROVE FALSE
  OBVIOUS
<1>2. PICK T \in Bad : \A U \in SUBSET T : U # T => U \notin Bad
  <2> Bad \in SUBSET SUBSET S /\ Bad # {}
    BY <1>1
  <2> HIDE DEF Bad
  <2> QED
    BY LeastSubset
<1>3. T \in SUBSET S /\ IsFiniteSet(T)
  BY FS_Subset
<1>4. T # {}
  <2>1. SUFFICES ASSUME T = {} PROVE FALSE
    OBVIOUS
  <2>2. Sum(T) = 0
    BY <1>3, <2>1, SumStep
  <2>3. Right(T)
    <3> HIDE DEF Sum
    <3> QED
      BY <2>1, <2>2
  <2> HIDE DEF Right
  <2> QED
    BY <1>2, <2>3
<1> DEFINE c == FirstOf(T)
           U == T \ {c}
<1>5. c \in T /\ Sum(T) = f[c] + Sum(U)
  BY <1>3, <1>4, SumStep
<1>6. U \in SUBSET S /\ U \in SUBSET T /\ U # T
  BY <1>3, <1>5
<1>7. Right(U)
  BY <1>2, <1>6
<1>8. f[c] \in Int /\ \A x \in T : x = c \/ x \in U
  BY <1>3, <1>5
<1> HIDE DEF Sum, c, U
<1>9. Right(T)
  BY <1>5, <1>6, <1>7, <1>8
<1> QED
  BY <1>2, <1>9

\* The sum is any element's value plus the sum of the others.
LEMMA SumRemove ==
    ASSUME NEW S, IsFiniteSet(S), NEW f, \A x \in S : f[x] \in Int, NEW y \in S
    PROVE  SumFunctionOnSet(f, S) = f[y] + SumFunctionOnSet(f, S \ {y})
<1> DEFINE Sum(T) == SumFunctionOnSet(f, T)
           Right(T) == \A x \in T : Sum(T) = f[x] + Sum(T \ {x})
           Bad == {T \in SUBSET S : ~ Right(T)}
<1>1. SUFFICES ASSUME Bad # {} PROVE FALSE
  OBVIOUS
<1>2. PICK T \in Bad : \A U \in SUBSET T : U # T => U \notin Bad
  <2> Bad \in SUBSET SUBSET S /\ Bad # {}
    BY <1>1
  <2> HIDE DEF Bad
  <2> QED
    BY LeastSubset
<1>3. PICK x \in T : Sum(T) # f[x] + Sum(T \ {x})
  BY <1>2
<1> DEFINE z == FirstOf(T)
           U == T \ {x, z}
<1>4. /\ T \in SUBSET S /\ IsFiniteSet(T)
      /\ z \in T /\ Sum(T) = f[z] + Sum(T \ {z})
  BY <1>3, SumStep, FS_Subset
<1>5. x # z
  BY <1>3, <1>4
<1>6. /\ Sum(T \ {z}) = f[x] + Sum(U) /\ Sum(T \ {x}) = f[z] + Sum(U)
      /\ U \in SUBSET S
  <2>1. /\ T \ {z} \in SUBSET T /\ T \ {z} # T /\ x \in T \ {z}
        /\ T \ {x} \in SUBSET T /\ T \ {x} # T /\ z \in T \ {x}
        /\ T \ {z} \in SUBSET S /\ T \ {x} \in SUBSET S
    BY <1>4, <1>5
  <2>2. Right(T \ {z}) /\ Right(T \ {x})
    BY <1>2, <2>1
  <2>3. (T \ {z}) \ {x} = U /\ (T \ {x}) \ {z} = U
    BY <1>4
  <2> HIDE DEF Sum, U
  <2>4. Sum(T \ {z}) = f[x] + Sum((T \ {z}) \ {x}) /\ Sum(T \ {x}) = f[z] + Sum((T \ {x}) \ {z})
    BY <2>1, <2>2
  <2>5. U \in SUBSET S
    BY <1>4 DEF U
  <2> QED
    BY <2>3, <2>4, <2>5
<1>7. Sum(U) \in Int /\ f[x] \in Int /\ f[z] \in Int
  <2>1. IsFiniteSet(U) /\ \A c \in U : f[c] \in Int
    BY <1>4, FS_Subset
  <2> HIDE DEF U
  <2> QED
    BY <1>4, <2>1, SumType
<1> HIDE DEF Sum, U, z
<1> QED
  BY <1>3, <1>4, <1>6, <1>7

\* More terms that are natural numbers make a sum no smaller.
LEMMA SumGrows ==
    ASSUME NEW T, IsFiniteSet(T), NEW f, \A x \in T : f[x] \in Nat, NEW A \in SUBSET T
    PROVE  SumFunctionOnSet(f, A) <= SumFunctionOnSet(f, T)
<1> DEFINE Sum(S) == SumFunctionOnSet(f, S)
           P == {D \in SUBSET (T \ A) : Sum(A) <= Sum(A \cup D)}
<1>1. {} \in P
  <2>1. IsFiniteSet(A) /\ \A x \in A : f[x] \in Int
    BY FS_Subset
  <2>2. Sum(A) \in Int /\ A \cup {} = A
    BY <2>1, SumType
  <2> QED
    BY <2>2
<1>2. ASSUME NEW D \in SUBSET (T \ A), NEW x \in T \ A, D \in P, x \notin D
      PROVE  D \cup {x} \in P
  <2> DEFINE B == A \cup D
             C == A \cup (D \cup {x})
  <2>1. /\ IsFiniteSet(A) /\ IsFiniteSet(B) /\ IsFiniteSet(C)
        /\ x \in C /\ C \ {x} = B /\ C \in SUBSET T
    BY <1>2, FS_Subset
  <2>2. Sum(C) = f[x] + Sum(C \ {x})
    <3>1. \A y \in C : f[y] \in Int
      BY <2>1
    <3> HIDE DEF C
    <3> QED
      BY <2>1, <3>1, SumRemove
  <2>3. Sum(A) \in Int /\ Sum(B) \in Int /\ f[x] \in Nat
    <3>1. (\A y \in A : f[y] \in Int) /\ (\A y \in B : f[y] \in Int)
      OBVIOUS
    <3> HIDE DEF B
    <3> QED
      BY <2>1, <3>1, SumType
  <2>4. Sum(A) <= Sum(B)
    BY <1>2
  <2>5. Sum(A) <= Sum(C)
    <3> HIDE DEF Sum, B, C
    <3> QED
      BY <2>1, <2>2, <2>3, <2>4
  <2> QED
    BY <1>2, <2>5
<1>3. T \ A \in P
  <2>1. IsFiniteSet(T \ A)
    BY FS_Subset
  <2> HIDE DEF P
  <2> QED
    BY <1>1, <1>2, <2>1, FiniteInduction
<1>4. A \cup (T \ A) = T
  OBVIOUS
<1> QED
  BY <1>3, <1>4

\* m gives every member of S a member of T of its own, with more weight.
Outweighed(S, T, w, m) ==
    /\ IsFiniteSet(S) /\ IsFiniteSet(T)
    /\ m \in Injection(S, T)
    /\ \A x \in S \cup T : w[x] \in Nat
    /\ \A x \in S : w[x] < w[m[x]]

\* Then T weighs more than S, unless there is nothing to outweigh.
LEMMA SumOutweighed ==
    ASSUME NEW S, NEW T, NEW w, NEW m, Outweighed(S, T, w, m)
    PROVE  /\ SumFunctionOnSet(w, S) <= SumFunctionOnSet(w, T)
           /\ S # {} => SumFunctionOnSet(w, S) < SumFunctionOnSet(w, T)
<1>0. /\ IsFiniteSet(S) /\ IsFiniteSet(T)
      /\ m \in [S -> T] /\ (\A x, y \in S : m[x] = m[y] => x = y)
      /\ (\A x \in S \cup T : w[x] \in Nat) /\ (\A x \in S : w[x] < w[m[x]])
  BY DEF Outweighed, Injection, IsInjective
<1> DEFINE Sum(U) == SumFunctionOnSet(w, U)
           Image(U) == {m[x] : x \in U}
           Less(U) == Sum(U) <= Sum(Image(U)) /\ (U # {} => Sum(U) < Sum(Image(U)))
           P == {U \in SUBSET S : Less(U)}
<1>1. ASSUME NEW U \in SUBSET S
      PROVE  /\ IsFiniteSet(U) /\ IsFiniteSet(Image(U)) /\ Image(U) \in SUBSET T
             /\ Sum(U) \in Int /\ Sum(Image(U)) \in Int
  <2>1. Image(U) \in SUBSET T
    BY <1>0
  <2>2. IsFiniteSet(U) /\ IsFiniteSet(Image(U))
    BY <1>0, <2>1, FS_Subset
  <2>3. (\A x \in U : w[x] \in Int) /\ (\A x \in Image(U) : w[x] \in Int)
    BY <1>0, <2>1
  <2> HIDE DEF Image
  <2> QED
    BY <2>1, <2>2, <2>3, SumType
<1>2. {} \in P
  <2>1. Image({}) = {} /\ Sum({}) = 0
    BY FS_EmptySet, SumStep
  <2> QED
    BY <2>1
<1>3. ASSUME NEW U \in SUBSET S, NEW x \in S, U \in P, x \notin U PROVE U \cup {x} \in P
  <2> DEFINE V == U \cup {x}
  <2>1. V \in SUBSET S /\ x \in V /\ V \ {x} = U
    BY <1>3
  <2>2. m[x] \in Image(V) /\ Image(V) \ {m[x]} = Image(U)
    BY <1>0, <1>3
  <2>f. /\ IsFiniteSet(V) /\ (\A y \in V : w[y] \in Int)
        /\ IsFiniteSet(Image(V)) /\ (\A y \in Image(V) : w[y] \in Int)
    <3> HIDE DEF V, Image
    <3>1. IsFiniteSet(V) /\ IsFiniteSet(Image(V)) /\ Image(V) \in SUBSET T
      BY <1>1, <2>1
    <3> QED
      BY <1>0, <2>1, <3>1
  <2>3. Sum(V) = w[x] + Sum(U)
    <3> HIDE DEF V
    <3> QED
      BY <2>1, <2>f, SumRemove
  <2>4. Sum(Image(V)) = w[m[x]] + Sum(Image(U))
    <3> HIDE DEF V, Image
    <3> QED
      BY <2>2, <2>f, SumRemove
  <2>5. w[x] \in Nat /\ w[m[x]] \in Nat /\ w[x] < w[m[x]]
    BY <1>0
  <2>6. Sum(U) \in Int /\ Sum(Image(U)) \in Int /\ Sum(U) <= Sum(Image(U))
    BY <1>1, <1>3
  <2>7. Sum(V) < Sum(Image(V)) /\ Sum(V) <= Sum(Image(V))
    <3> HIDE DEF Sum, V, Image
    <3> QED
      BY <2>3, <2>4, <2>5, <2>6
  <2> QED
    BY <2>1, <2>7
<1>4. S \in P
  <2> HIDE DEF P
  <2> QED
    BY <1>0, <1>2, <1>3, FiniteInduction
<1>5. Sum(Image(S)) <= Sum(T)
  <2>1. Image(S) \in SUBSET T
    BY <1>1
  <2> HIDE DEF Image
  <2> QED
    BY <1>0, <2>1, SumGrows
<1>6. Sum(S) \in Int /\ Sum(Image(S)) \in Int /\ Sum(T) \in Int
  BY <1>0, <1>1, SumType
<1> HIDE DEF Sum, Image
<1> QED
  BY <1>4, <1>5, <1>6 DEF Sum

\* On S the function h is a * f + b * g + k.
LinearOn(S, h, a, f, b, g, k) ==
    /\ IsFiniteSet(S) /\ a \in Int /\ b \in Int /\ k \in Int
    /\ \A x \in S : f[x] \in Int /\ g[x] \in Int /\ h[x] = a * f[x] + b * g[x] + k

\* Sums are linear.
LEMMA SumLinear ==
    ASSUME NEW S, NEW h, NEW a, NEW f, NEW b, NEW g, NEW k, LinearOn(S, h, a, f, b, g, k)
    PROVE  SumFunctionOnSet(h, S)
              = a * SumFunctionOnSet(f, S) + b * SumFunctionOnSet(g, S) + k * Cardinality(S)
<1>0. /\ IsFiniteSet(S) /\ a \in Int /\ b \in Int /\ k \in Int
      /\ \A x \in S : f[x] \in Int /\ g[x] \in Int /\ h[x] = a * f[x] + b * g[x] + k
  BY DEF LinearOn
<1> DEFINE F(T) == SumFunctionOnSet(f, T)
           G(T) == SumFunctionOnSet(g, T)
           H(T) == SumFunctionOnSet(h, T)
           Right(T) == H(T) = a * F(T) + b * G(T) + k * Cardinality(T)
           Bad == {T \in SUBSET S : ~ Right(T)}
<1>1. SUFFICES ASSUME Bad # {} PROVE FALSE
  OBVIOUS
<1>2. PICK T \in Bad : \A U \in SUBSET T : U # T => U \notin Bad
  <2> Bad \in SUBSET SUBSET S /\ Bad # {}
    BY <1>1
  <2> HIDE DEF Bad
  <2> QED
    BY <1>0, LeastSubset
<1>3. T \in SUBSET S /\ IsFiniteSet(T) /\ Cardinality(T) \in Nat
  BY <1>0, FS_Subset, FS_CardinalityType
<1>4. CASE T = {}
  <2>1. F(T) = 0 /\ G(T) = 0 /\ H(T) = 0 /\ Cardinality(T) = 0
    BY <1>4, SumStep, FS_EmptySet
  <2>2. Right(T)
    BY <1>0, <2>1
  <2> QED
    BY <1>2, <2>2
<1>5. CASE T # {}
  <2> DEFINE c == FirstOf(T)
             U == T \ {c}
  <2>1. /\ c \in T
        /\ F(T) = f[c] + F(U) /\ G(T) = g[c] + G(U) /\ H(T) = h[c] + H(U)
    BY <1>3, <1>5, SumStep
  <2>2. U \in SUBSET S /\ U \in SUBSET T /\ U # T /\ IsFiniteSet(U)
    BY <1>3, <2>1, FS_Subset
  <2>3. Cardinality(U) \in Nat /\ Cardinality(T) = Cardinality(U) + 1
    <3>1. Cardinality(U) = Cardinality(T) - 1
      BY <1>3, <2>1, FS_RemoveElement
    <3> QED
      BY <1>3, <2>2, <3>1, FS_CardinalityType
  <2>4. Right(U)
    BY <1>2, <2>2
  <2>5. f[c] \in Int /\ g[c] \in Int /\ h[c] = a * f[c] + b * g[c] + k
    BY <1>0, <1>3, <2>1
  <2>6. F(U) \in Int /\ G(U) \in Int
    BY <1>0, <2>2, SumType
  <2> DEFINE fc == f[c]
             gc == g[c]
             hc == h[c]
             FU == F(U)
             GU == G(U)
             n == Cardinality(U)
  <2>7. H(T) = (a * fc + b * gc + k) + (a * FU + b * GU + k * n)
    BY <2>1, <2>4, <2>5
  <2>8. ASSUME NEW w \in Int, NEW x \in Int, NEW y \in Int, NEW z \in Int, NEW m \in Int
        PROVE  (a * w + b * x + k) + (a * y + b * z + k * m)
                  = a * (w + y) + b * (x + z) + k * (m + 1)
    BY <1>0
  <2>9. H(T) = a * (fc + FU) + b * (gc + GU) + k * (n + 1)
    BY <1>0, <2>3, <2>5, <2>6, <2>7, <2>8
  <2>10. Right(T)
    BY <2>1, <2>3, <2>9
  <2> QED
    BY <1>2, <2>10
<1> QED
  BY <1>4, <1>5

-----------------------------------------------------------------------------
\* A finite set of integers that is not empty has a least and a greatest member.
LEMMA Extremes ==
    ASSUME NEW S \in SUBSET Int, IsFiniteSet(S), S # {}
    PROVE  /\ Min(S) \in S /\ \A x \in S : Min(S) <= x
           /\ Max(S) \in S /\ \A x \in S : x <= Max(S)
<1> DEFINE Bounded(T) == T # {} => /\ \E x \in T : \A y \in T : x <= y
                                   /\ \E x \in T : \A y \in T : y <= x
           P == {T \in SUBSET S : Bounded(T)}
<1>1. {} \in P
  OBVIOUS
<1>2. ASSUME NEW T \in SUBSET S, NEW z \in S, T \in P PROVE T \cup {z} \in P
  <2>1. CASE T = {}
    <3>1. Bounded({z})
      OBVIOUS
    <3> QED
      BY <2>1, <3>1
  <2>2. CASE T # {}
    <3>1. PICK lo \in T, hi \in T : \A y \in T : lo <= y /\ y <= hi
      BY <1>2, <2>2
    <3>2. \E x \in T \cup {z} : \A y \in T \cup {z} : x <= y
      <4>1. CASE z <= lo
        BY <3>1, <4>1
      <4>2. CASE lo <= z
        BY <3>1, <4>2
      <4> QED
        BY <4>1, <4>2
    <3>3. \E x \in T \cup {z} : \A y \in T \cup {z} : y <= x
      <4>1. CASE z <= hi
        BY <3>1, <4>1
      <4>2. CASE hi <= z
        BY <3>1, <4>2
      <4> QED
        BY <4>1, <4>2
    <3> QED
      BY <3>2, <3>3
  <2> QED
    BY <2>1, <2>2
<1>3. S \in P
  <2> HIDE DEF P
  <2> QED
    BY <1>1, <1>2, FiniteInduction
<1>4. PICK lo \in S, hi \in S : \A y \in S : lo <= y /\ y <= hi
  BY <1>3
<1> QED
  BY <1>4 DEF Min, Max

-----------------------------------------------------------------------------
(* Sorting.  A relation is a set of pairs. *)

StrictTotalOrder(R, S) ==
    /\ \A b, c \in S : ~ (<<b, c>> \in R /\ <<c, b>> \in R)
    /\ \A b, c, d \in S : <<b, c>> \in R /\ <<c, d>> \in R => <<b, d>> \in R
    /\ \A b, c \in S : b # c => <<b, c>> \in R \/ <<c, b>> \in R

SortedLists(R, S) ==
    {s \in SetToSeqs(S) : \A i, j \in DOMAIN s : i < j => <<s[i], s[j]>> \in R}

\* A list of every member of a finite set once.
LEMMA ListingFacts ==
    ASSUME NEW S, IsFiniteSet(S), NEW s
    PROVE  s \in SetToSeqs(S) <=> s \in Bijection(1 .. Cardinality(S), S)
<1>1. Cardinality(S) \in Nat
  BY FS_CardinalityType
<1>2. IsFiniteSet(1 .. Cardinality(S)) /\ Cardinality(1 .. Cardinality(S)) = Cardinality(S)
  BY <1>1, FS_Interval
<1>3. s \in SetToSeqs(S) <=> s \in Injection(1 .. Cardinality(S), S)
  BY DEF SetToSeqs, Injection, IsInjective
<1>4. s \in Injection(1 .. Cardinality(S), S) => s \in Surjection(1 .. Cardinality(S), S)
  BY <1>2, FS_Injection
<1> QED
  BY <1>3, <1>4 DEF Bijection

Below(R, S, c) == {b \in S : <<b, c>> \in R}
Rank(R, S) == [c \in S |-> Cardinality(Below(R, S, c)) + 1]

LEMMA RankFacts ==
    ASSUME NEW S, IsFiniteSet(S), NEW R, StrictTotalOrder(R, S)
    PROVE  /\ Rank(R, S) \in Bijection(S, 1 .. Cardinality(S))
           /\ \A b, c \in S : <<b, c>> \in R <=> Rank(R, S)[b] < Rank(R, S)[c]
<1> DEFINE n == Cardinality(S)
           r == Rank(R, S)
           U(c) == Below(R, S, c)
<1>1. n \in Nat /\ IsFiniteSet(1 .. n) /\ Cardinality(1 .. n) = n
  BY FS_CardinalityType, FS_Interval
<1>2. \A c \in S : IsFiniteSet(U(c)) /\ Cardinality(U(c)) \in Nat /\ r[c] = Cardinality(U(c)) + 1
  BY FS_Subset, FS_CardinalityType DEF Below, Rank
<1>3. ASSUME NEW c \in S PROVE r[c] \in 1 .. n
  <2>1. U(c) \in SUBSET (S \ {c})
    BY DEF Below, StrictTotalOrder
  <2>2. IsFiniteSet(S \ {c}) /\ Cardinality(S \ {c}) = n - 1
    BY FS_Subset, FS_RemoveElement
  <2>3. Cardinality(U(c)) <= n - 1
    BY <2>1, <2>2, FS_Subset
  <2> QED
    BY <1>1, <1>2, <2>3
<1>4. ASSUME NEW b \in S, NEW c \in S, <<b, c>> \in R PROVE r[b] < r[c]
  <2>1. U(b) \cup {b} \in SUBSET U(c) /\ b \notin U(b)
    BY <1>4 DEF Below, StrictTotalOrder
  <2>2. Cardinality(U(b) \cup {b}) = Cardinality(U(b)) + 1
    BY <1>2, <2>1, FS_AddElement
  <2>3. Cardinality(U(b) \cup {b}) <= Cardinality(U(c))
    BY <1>2, <2>1, FS_Subset
  <2> QED
    BY <1>2, <2>2, <2>3
<1>5. ASSUME NEW b \in S, NEW c \in S PROVE <<b, c>> \in R <=> r[b] < r[c]
  <2>1. r[b] \in Int /\ r[c] \in Int
    BY <1>3
  <2>2. CASE b = c
    BY <2>1, <2>2 DEF StrictTotalOrder
  <2>3. CASE <<b, c>> \in R
    BY <1>4, <2>3
  <2>4. CASE <<c, b>> \in R
    <3>1. r[c] < r[b]
      BY <1>4, <2>4
    <3>2. ~ (r[b] < r[c])
      BY <2>1, <3>1
    <3> QED
      BY <2>4, <3>2 DEF StrictTotalOrder
  <2> QED
    BY <2>2, <2>3, <2>4 DEF StrictTotalOrder
<1>6. r \in Injection(S, 1 .. n)
  <2>1. r \in [S -> 1 .. n]
    BY <1>3 DEF Rank
  <2>2. ASSUME NEW b \in S, NEW c \in S, r[b] = r[c] PROVE b = c
    BY <1>3, <1>5, <2>2 DEF StrictTotalOrder
  <2> QED
    BY <2>1, <2>2 DEF Injection, IsInjective
<1>7. r \in Surjection(S, 1 .. n)
  BY <1>1, <1>6, FS_Injection
<1> QED
  BY <1>5, <1>6, <1>7 DEF Bijection

\* A finite set with a strict total order has one sorted list.
LEMMA SortedOnce ==
    ASSUME NEW S, IsFiniteSet(S), NEW R, StrictTotalOrder(R, S)
    PROVE  \E s : SortedLists(R, S) = {s}
<1> DEFINE n == Cardinality(S)
           r == Rank(R, S)
           s == [i \in 1 .. n |-> CHOOSE c \in S : r[c] = i]
<1>1. /\ r \in Bijection(S, 1 .. n)
      /\ \A b, c \in S : <<b, c>> \in R <=> r[b] < r[c]
  BY RankFacts
<1>2. n \in Nat
  BY FS_CardinalityType
<1> HIDE DEF n, r
<1>3. \A i \in 1 .. n : s[i] \in S /\ r[s[i]] = i
  BY <1>1 DEF Bijection, Surjection
<1>4. s \in SetToSeqs(S)
  BY <1>3 DEF SetToSeqs, n
<1>5. \A i, j \in 1 .. n : i < j => <<s[i], s[j]>> \in R
  BY <1>1, <1>3
<1>6. s \in SortedLists(R, S)
  BY <1>4, <1>5 DEF SortedLists
<1>7. ASSUME NEW t \in SortedLists(R, S) PROVE t = s
  <2>1. t \in Bijection(1 .. n, S)
    BY ListingFacts DEF SortedLists, n
  <2>2. DOMAIN t = 1 .. n /\ \A i \in 1 .. n : t[i] \in S
    BY <2>1 DEF Bijection, Injection
  <2>3. \A i, j \in 1 .. n : i < j => <<t[i], t[j]>> \in R
    BY <1>7, <2>2 DEF SortedLists
  <2>4. ASSUME NEW i \in 1 .. n PROVE r[t[i]] = i
    <3> DEFINE U == Below(R, S, t[i])
               f == [j \in 1 .. i - 1 |-> t[j]]
    <3>1. \A j \in 1 .. n : t[j] \in U <=> j < i
      <4>1. ASSUME NEW j \in 1 .. n PROVE ~ (<<t[j], t[i]>> \in R /\ i <= j)
        <5>1. CASE i = j
          BY <2>2, <5>1 DEF StrictTotalOrder
        <5>2. CASE i < j
          BY <2>2, <2>3, <5>2 DEF StrictTotalOrder
        <5> QED
          BY <1>2, <5>1, <5>2
      <4> QED
        BY <1>2, <2>2, <2>3, <4>1 DEF Below
    <3>2. f \in Bijection(1 .. i - 1, U)
      <4>1. \A j \in 1 .. i - 1 : j \in 1 .. n
        BY <1>2
      <4>2. f \in Injection(1 .. i - 1, U)
        BY <1>2, <2>1, <3>1, <4>1 DEF Bijection, Injection, IsInjective
      <4>3. ASSUME NEW u \in U PROVE \E j \in 1 .. i - 1 : f[j] = u
        <5>1. PICK j \in 1 .. n : t[j] = u
          BY <2>1 DEF Bijection, Surjection, Below
        <5>2. j \in 1 .. i - 1
          BY <1>2, <3>1, <5>1
        <5> QED
          BY <5>1, <5>2
      <4> QED
        BY <4>2, <4>3 DEF Bijection, Surjection, Injection
    <3>3. IsFiniteSet(1 .. i - 1) /\ Cardinality(1 .. i - 1) = i - 1
      BY <1>2, FS_Interval
    <3>4. Cardinality(U) = i - 1
      BY <3>2, <3>3, FS_Bijection DEF ExistsBijection
    <3> QED
      BY <1>2, <2>2, <3>4 DEF r, Rank
  <2>5. ASSUME NEW i \in 1 .. n PROVE t[i] = s[i]
    BY <1>1, <1>3, <2>2, <2>4 DEF Bijection, Injection, IsInjective
  <2>6. t = [i \in 1 .. n |-> t[i]]
    BY <2>1 DEF Bijection, Injection
  <2> QED
    BY <2>5, <2>6
<1> QED
  BY <1>6, <1>7
=================================================================================
