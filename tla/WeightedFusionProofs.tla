-------------------------- MODULE WeightedFusionProofs --------------------------
(***************************************************************************)
(* Weighted fusion, for lists of any length and any scores: the fused      *)
(* scores order the chunks strictly and totally, so there is one result;   *)
(* chunks that are nowhere worse come first; and scaling a list's scores   *)
(* changes nothing.                                                        *)
(***************************************************************************)
EXTENDS WeightedFusion, ListLemmas

-----------------------------------------------------------------------------
(* Arithmetic of sums of two roots. *)

LEMMA SquareFacts ==
    ASSUME NEW a \in Int
    PROVE  /\ Square(a) \in Nat
           /\ a # 0 => Square(a) > 0
           /\ Square(- a) = Square(a)
BY DEF Square

LEMMA ProductFacts ==
    ASSUME NEW a \in Nat, NEW b \in Nat
    PROVE  a * b \in Nat /\ (a > 0 /\ b > 0 => a * b > 0)
OBVIOUS

LEMMA SquareOfProduct ==
    ASSUME NEW a \in Int, NEW b \in Int
    PROVE  Square(a * b) = Square(a) * Square(b)
BY DEF Square

LEMMA ProductMonotone ==
    ASSUME NEW a \in Nat, NEW b \in Nat, NEW c \in Nat, NEW d \in Nat
    PROVE  /\ a <= b /\ c <= d => a * c <= b * d
           /\ a < b /\ 0 < d /\ c <= d => a * c < b * d
<1>1. a * c \in Nat /\ b * d \in Nat /\ a * d \in Nat
  OBVIOUS
<1>2. c <= d => a * c <= a * d
  OBVIOUS
<1>3. a <= b => a * d <= b * d
  OBVIOUS
<1>4. a < b /\ 0 < d => a * d < b * d
  OBVIOUS
<1> QED
  BY <1>1, <1>2, <1>3, <1>4

LEMMA SquareMonotone ==
    ASSUME NEW a \in Nat, NEW b \in Nat
    PROVE  (a <= b <=> Square(a) <= Square(b)) /\ (a < b <=> Square(a) < Square(b))
<1>1. a <= b => Square(a) <= Square(b)
  BY ProductMonotone DEF Square
<1>2. a < b => Square(a) < Square(b)
  BY ProductMonotone DEF Square
<1>3. b < a => Square(b) < Square(a)
  BY ProductMonotone DEF Square
<1>4. b <= a => Square(b) <= Square(a)
  BY ProductMonotone DEF Square
<1>5. Square(a) \in Int /\ Square(b) \in Int
  BY SquareFacts
<1> QED
  BY <1>1, <1>2, <1>3, <1>4, <1>5

\* The sign is an integer, it does not depend on the order of the two terms, and that
\* of the opposite is opposite.
LEMMA SignFacts ==
    ASSUME NEW p \in Int, NEW r \in Nat \ {0}, NEW q \in Int, NEW s \in Nat \ {0}
    PROVE  /\ Sign(p, r, q, s) \in Int
           /\ Sign(p, r, q, s) = Sign(q, s, p, r)
           /\ p >= 0 /\ q >= 0 => Sign(p, r, q, s) = p + q
<1> DEFINE x == Square(p) * s
           y == Square(q) * r
<1>1. x \in Int /\ y \in Int
  <2>1. Square(p) \in Nat /\ Square(q) \in Nat
    BY SquareFacts
  <2> QED
    BY <2>1, ProductFacts
<1> HIDE DEF x, y
<1>2. Sign(p, r, q, s) = IF p >= 0 /\ q >= 0 THEN p + q
                         ELSE IF p <= 0 /\ q <= 0 THEN p + q
                         ELSE IF p > 0 THEN x - y ELSE - (x - y)
  BY DEF Sign, x, y
<1>3. Sign(q, s, p, r) = IF q >= 0 /\ p >= 0 THEN q + p
                         ELSE IF q <= 0 /\ p <= 0 THEN q + p
                         ELSE IF q > 0 THEN y - x ELSE - (y - x)
  BY DEF Sign, x, y
<1> QED
  BY <1>1, <1>2, <1>3

\* p and q are opposites of u and v.
Opposites(u, p, v, q) == p \in Int /\ q \in Int /\ u = - p /\ v = - q

LEMMA SignOpposite ==
    ASSUME NEW r \in Nat \ {0}, NEW s \in Nat \ {0},
           NEW p, NEW q, NEW u, NEW v, Opposites(u, p, v, q)
    PROVE  Sign(u, r, v, s) = - Sign(p, r, q, s)
<1>0. p \in Int /\ q \in Int /\ u = - p /\ v = - q
  BY DEF Opposites
<1> DEFINE x == Square(p) * s
           y == Square(q) * r
<1>1. x \in Int /\ y \in Int /\ Square(- p) * s = x /\ Square(- q) * r = y
  <2>1. Square(p) \in Nat /\ Square(q) \in Nat /\ Square(- p) = Square(p) /\ Square(- q) = Square(q)
    BY <1>0, SquareFacts
  <2> QED
    BY <2>1, ProductFacts
<1> HIDE DEF x, y
<1>2. Sign(p, r, q, s) = IF p >= 0 /\ q >= 0 THEN p + q
                         ELSE IF p <= 0 /\ q <= 0 THEN p + q
                         ELSE IF p > 0 THEN x - y ELSE - (x - y)
  BY DEF Sign, x, y
<1>3. Sign(u, r, v, s) = IF - p >= 0 /\ - q >= 0 THEN - p + - q
                         ELSE IF - p <= 0 /\ - q <= 0 THEN - p + - q
                         ELSE IF - p > 0 THEN x - y ELSE - (x - y)
  BY <1>0, <1>1 DEF Sign, x, y
<1> QED
  BY <1>0, <1>1, <1>2, <1>3

LEMMA SignSwap ==
    ASSUME NEW p \in Int, NEW r \in Nat \ {0}, NEW q \in Int, NEW s \in Nat \ {0}
    PROVE  Sign(p, r, q, s) = Sign(q, s, p, r)
BY SignFacts

\* What a sign of at least, or above, zero means.
LEMMA SignCases ==
    ASSUME NEW p \in Int, NEW r \in Nat \ {0}, NEW q \in Int, NEW s \in Nat \ {0}
    PROVE  /\ Sign(p, r, q, s) >= 0 <=>
                 \/ p >= 0 /\ q >= 0
                 \/ p > 0 /\ q < 0 /\ Square(q) * r <= Square(p) * s
                 \/ p < 0 /\ q > 0 /\ Square(p) * s <= Square(q) * r
           /\ Sign(p, r, q, s) > 0 <=>
                 \/ p >= 0 /\ q >= 0 /\ (p > 0 \/ q > 0)
                 \/ p > 0 /\ q < 0 /\ Square(q) * r < Square(p) * s
                 \/ p < 0 /\ q > 0 /\ Square(p) * s < Square(q) * r
<1> DEFINE x == Square(p) * s
           y == Square(q) * r
<1>1. x \in Int /\ y \in Int
  <2>1. Square(p) \in Nat /\ Square(q) \in Nat
    BY SquareFacts
  <2> QED
    BY <2>1, ProductFacts
<1> HIDE DEF x, y
<1>2. Sign(p, r, q, s) = IF p >= 0 /\ q >= 0 THEN p + q
                         ELSE IF p <= 0 /\ q <= 0 THEN p + q
                         ELSE IF p > 0 THEN x - y ELSE - (x - y)
  BY DEF Sign, x, y
<1>3. /\ Sign(p, r, q, s) >= 0 <=> \/ p >= 0 /\ q >= 0
                                   \/ p > 0 /\ q < 0 /\ y <= x
                                   \/ p < 0 /\ q > 0 /\ x <= y
      /\ Sign(p, r, q, s) > 0 <=> \/ p >= 0 /\ q >= 0 /\ (p > 0 \/ q > 0)
                                  \/ p > 0 /\ q < 0 /\ y < x
                                  \/ p < 0 /\ q > 0 /\ x < y
  BY <1>1, <1>2
<1> QED
  BY <1>3 DEF x, y

\* When a sign is above zero.
LEMMA SignAbove ==
    ASSUME NEW r \in Nat \ {0}, NEW s \in Nat \ {0}
    PROVE  /\ \A p, q \in Int : p >= 0 /\ q >= 0 /\ (p > 0 \/ q > 0) => Sign(p, r, q, s) > 0
           /\ \A u, v \in Nat \ {0} : Square(v) * r < Square(u) * s => Sign(u, r, - v, s) > 0
           /\ \A u, v \in Nat \ {0} : Square(u) * s < Square(v) * r => Sign(- u, r, v, s) > 0
<1>1. ASSUME NEW p \in Int, NEW q \in Int, p >= 0, q >= 0, p > 0 \/ q > 0
      PROVE  Sign(p, r, q, s) > 0
  BY <1>1 DEF Sign
<1>2. ASSUME NEW u \in Nat \ {0}, NEW v \in Nat \ {0}
      PROVE  /\ Square(v) * r < Square(u) * s => Sign(u, r, - v, s) > 0
             /\ Square(u) * s < Square(v) * r => Sign(- u, r, v, s) > 0
  <2>1. Square(- u) = Square(u) /\ Square(- v) = Square(v) /\ - u \in Int /\ - v \in Int
    BY SquareFacts
  <2>2. - u < 0 /\ - v < 0 /\ u > 0 /\ v > 0 /\ u \in Int /\ v \in Int
    OBVIOUS
  <2>3. Square(- v) * r < Square(u) * s => Sign(u, r, - v, s) > 0
    BY ONLY <2>1, <2>2, SignCases
  <2>4. Square(- u) * s < Square(v) * r => Sign(- u, r, v, s) > 0
    BY ONLY <2>1, <2>2, SignCases
  <2> QED
    BY <2>1, <2>3, <2>4
<1> QED
  BY <1>1, <1>2

\* Cross-multiplication: a root(s) >= b root(r) and d root(r) >= c root(s) give
\* a d >= b c, and more than that if one of the two is more.
LEMMA CrossProduct ==
    ASSUME NEW a \in Nat, NEW b \in Nat, NEW c \in Nat, NEW d \in Nat,
           NEW r \in Nat \ {0}, NEW s \in Nat \ {0},
           Square(b) * r <= Square(a) * s, Square(c) * s <= Square(d) * r
    PROVE  /\ b * c <= a * d
           /\ (Square(b) * r < Square(a) * s /\ d > 0)
              \/ (Square(c) * s < Square(d) * r /\ a > 0) => b * c < a * d
<1> DEFINE A == Square(a) * s
           B == Square(b) * r
           C == Square(c) * s
           D == Square(d) * r
           k == r * s
<1> DEFINE sa == Square(a)
           sb == Square(b)
           sc == Square(c)
           sd == Square(d)
<1>0. /\ sa \in Nat /\ sb \in Nat /\ sc \in Nat /\ sd \in Nat
      /\ (a > 0 => sa > 0) /\ (d > 0 => sd > 0)
  BY SquareFacts
<1> HIDE DEF sa, sb, sc, sd
<1>1. A \in Nat /\ B \in Nat /\ C \in Nat /\ D \in Nat /\ k \in Nat /\ k > 0
  BY <1>0, ProductFacts DEF sa, sb, sc, sd
<1>2. (d > 0 => D > 0) /\ (a > 0 => A > 0)
  BY <1>0, ProductFacts DEF sa, sb, sc, sd
<1>3. B * C = Square(b * c) * k /\ A * D = Square(a * d) * k
  <2>1. ASSUME NEW w \in Int, NEW x \in Int, NEW y \in Int, NEW z \in Int
        PROVE  (w * y) * (x * z) = (w * x) * (y * z)
    OBVIOUS
  <2>2. ASSUME NEW w \in Int, NEW x \in Int, NEW y \in Int, NEW z \in Int
        PROVE  (w * z) * (x * y) = (w * x) * (y * z)
    OBVIOUS
  <2>3. Square(b) \in Int /\ Square(c) \in Int /\ Square(a) \in Int /\ Square(d) \in Int
    BY SquareFacts
  <2>4. Square(b * c) = Square(b) * Square(c) /\ Square(a * d) = Square(a) * Square(d)
    BY SquareOfProduct
  <2> QED
    BY <2>1, <2>2, <2>3, <2>4
<1>4. B <= A /\ C <= D
  OBVIOUS
<1>5. B * C <= A * D
  <2> HIDE DEF A, B, C, D
  <2> QED
    BY <1>1, <1>4, ProductMonotone
<1>6. (B < A /\ d > 0) \/ (C < D /\ a > 0) => B * C < A * D
  <2> HIDE DEF A, B, C, D
  <2>1. B < A /\ d > 0 => B * C < A * D
    BY <1>1, <1>2, <1>4, ProductMonotone
  <2>2. C < D /\ a > 0 => C * B < D * A
    BY <1>1, <1>2, <1>4, ProductMonotone
  <2> QED
    BY <1>1, <2>1, <2>2
<1> DEFINE m == b * c
           n == a * d
<1>7. m \in Nat /\ n \in Nat /\ Square(m) \in Nat /\ Square(n) \in Nat
  BY ProductFacts, SquareFacts
<1>8. Square(m) * k <= Square(n) * k => Square(m) <= Square(n)
  <2> HIDE DEF m, n, k
  <2> QED
    BY <1>1, <1>7
<1>9. Square(m) * k < Square(n) * k => Square(m) < Square(n)
  <2> HIDE DEF m, n, k
  <2> QED
    BY <1>1, <1>7
<1>10. m <= n
  BY <1>3, <1>5, <1>7, <1>8, SquareMonotone
<1>11. B * C < A * D => m < n
  BY <1>3, <1>7, <1>9, SquareMonotone
<1> QED
  BY <1>6, <1>10, <1>11

LEMMA CancelProduct ==
    ASSUME NEW c \in Nat, NEW d \in Nat \ {0}, NEW u \in Nat, NEW v \in Nat,
           NEW r \in Nat \ {0}, NEW s \in Nat \ {0},
           Square(c) * s <= Square(d) * r, d * u < c * v
    PROVE  Square(u) * s < Square(v) * r
<1> DEFINE sc == Square(c)
           sd == Square(d)
           su == Square(u)
           sv == Square(v)
<1>0. sc \in Nat /\ sd \in Nat /\ su \in Nat /\ sv \in Nat /\ sd > 0
  BY SquareFacts
<1>1. /\ sc \in Nat /\ sd \in Nat /\ su \in Nat /\ sv \in Nat /\ sd > 0
      /\ Square(d * u) = sd * su /\ Square(c * v) = sc * sv
  BY <1>0, SquareOfProduct
<1>2. sd * su < sc * sv
  <2>1. d * u \in Nat /\ c * v \in Nat
    BY ProductFacts
  <2> QED
    BY <1>1, <2>1, SquareMonotone
<1> HIDE DEF sc, sd, su, sv
<1>3. sc * s <= sd * r
  BY DEF sc, sd
<1>4. (sd * su) * s < (sc * sv) * s
  BY <1>1, <1>2, ProductFacts
<1>5. (sc * s) * sv <= (sd * r) * sv
  BY <1>1, <1>3, ProductFacts, ProductMonotone
<1> DEFINE x == su * s
           y == sv * r
<1>6. (sd * su) * s = sd * x /\ (sc * sv) * s = (sc * s) * sv /\ (sd * r) * sv = sd * y
  BY <1>1
<1>7. x \in Nat /\ y \in Nat /\ sd * x \in Nat /\ sd * y \in Nat
  BY <1>1, ProductFacts
<1>8. sd * x < sd * y
  BY <1>1, <1>4, <1>5, <1>6, <1>7, ProductFacts
<1>9. x < y
  <2> HIDE DEF x, y
  <2>1. y <= x => sd * y <= sd * x
    BY <1>1, <1>7, ProductMonotone
  <2> QED
    BY <1>7, <1>8, <2>1
<1> QED
  BY <1>9 DEF su, sv

\* Two signs above zero of the same kind.
LEMMA AddAlike ==
    ASSUME NEW a \in Nat, NEW b \in Nat, NEW c \in Nat, NEW d \in Nat,
           NEW r \in Nat \ {0}, NEW s \in Nat \ {0},
           Square(b) * r < Square(a) * s, Square(d) * r <= Square(c) * s
    PROVE  Square(b + d) * r < Square(a + c) * s
<1> DEFINE sa == Square(a)
           sb == Square(b)
           sc == Square(c)
           sd == Square(d)
           m == (b * d) * r
           n == (a * c) * s
<1>1. sa \in Nat /\ sb \in Nat /\ sc \in Nat /\ sd \in Nat
  BY SquareFacts
<1>2. m \in Nat /\ n \in Nat
  BY ProductFacts
<1>3. /\ Square(m) = (sb * r) * (sd * r)
      /\ Square(n) = (sa * s) * (sc * s)
  <2>1. ASSUME NEW w \in Int, NEW x \in Int, NEW y \in Int
        PROVE  Square((w * x) * y) = (Square(w) * y) * (Square(x) * y)
    BY DEF Square
  <2> QED
    BY <2>1
<1>4. /\ Square(b + d) = sb + sd + 2 * (b * d)
      /\ Square(a + c) = sa + sc + 2 * (a * c)
  BY DEF Square
<1>5. sb * r < sa * s /\ sd * r <= sc * s
  OBVIOUS
<1> HIDE DEF sa, sb, sc, sd
<1> DEFINE A == sa * s
           B == sb * r
           C == sc * s
           D == sd * r
<1>6. A \in Nat /\ B \in Nat /\ C \in Nat /\ D \in Nat
  BY <1>1, ProductFacts
<1>7. B * D <= A * C
  <2> HIDE DEF A, B, C, D
  <2> QED
    BY <1>5, <1>6, ProductMonotone DEF A, B, C, D
<1>8. m <= n
  <2> HIDE DEF m, n
  <2> QED
    BY <1>2, <1>3, <1>7, SquareMonotone
<1>9. /\ (sb + sd + 2 * (b * d)) * r = B + D + 2 * m
      /\ (sa + sc + 2 * (a * c)) * s = A + C + 2 * n
  <2>1. ASSUME NEW w \in Int, NEW x \in Int, NEW y \in Int, NEW z \in Int
        PROVE  (w + x + 2 * y) * z = w * z + x * z + 2 * (y * z)
    OBVIOUS
  <2>2. b * d \in Int /\ a * c \in Int
    OBVIOUS
  <2> QED
    BY <1>1, <2>1, <2>2
<1>10. B + D + 2 * m < A + C + 2 * n
  <2> HIDE DEF m, n
  <2>1. B < A /\ D <= C
    BY <1>5
  <2> HIDE DEF A, B, C, D
  <2> QED
    BY <1>2, <1>6, <1>8, <2>1
<1> QED
  BY <1>4, <1>9, <1>10

\* Two signs above zero of opposite kinds.
LEMMA AddOpposed ==
    ASSUME NEW a \in Nat \ {0}, NEW b \in Nat \ {0}, NEW c \in Nat \ {0}, NEW d \in Nat \ {0},
           NEW r \in Nat \ {0}, NEW s \in Nat \ {0},
           Square(b) * r <= Square(a) * s, Square(c) * s <= Square(d) * r,
           Square(b) * r < Square(a) * s \/ Square(c) * s < Square(d) * r
    PROVE  Sign(a - c, r, d - b, s) > 0
<1>1. b * c < a * d
  BY CrossProduct
<1>2. CASE c <= a /\ b <= d
  <2>1. c < a \/ b < d
    BY <1>1, <1>2
  <2> QED
    <3>1. /\ a - c \in Int /\ d - b \in Int /\ a - c >= 0 /\ d - b >= 0
          /\ a - c > 0 \/ d - b > 0
      BY <1>2, <2>1
    <3> QED
      BY ONLY <3>1, SignAbove
<1>3. CASE a < c
  <2> DEFINE u == c - a
             v == d - b
  <2>1. b < d
    <3>1. d <= b => a * d <= c * b
      BY <1>3, ProductMonotone
    <3> QED
      BY <1>1, <3>1
  <2>2. u \in Nat /\ v \in Nat /\ u > 0 /\ v > 0 /\ a - c = - u /\ d - b = v
    BY <1>3, <2>1
  <2>3. d * u < c * v
    BY <1>1
  <2> HIDE DEF u, v
  <2>4. Square(u) * s < Square(v) * r
    BY <2>2, <2>3, CancelProduct
  <2>5. Sign(- u, r, v, s) > 0
    BY <2>2, <2>4, SignAbove
  <2> QED
    BY <2>2, <2>5
<1>4. CASE d < b
  <2> DEFINE u == a - c
             v == b - d
  <2>1. c < a
    <3>1. a <= c => a * d <= c * b
      BY <1>4, ProductMonotone
    <3> QED
      BY <1>1, <3>1
  <2>2. u \in Nat /\ v \in Nat /\ u > 0 /\ v > 0 /\ a - c = u /\ d - b = - v
    BY <1>4, <2>1
  <2>3. a * v < b * u
    BY <1>1
  <2> HIDE DEF u, v
  <2>4. Square(v) * r < Square(u) * s
    BY <2>2, <2>3, CancelProduct
  <2>5. Sign(u, r, - v, s) > 0
    BY <2>2, <2>4, SignAbove
  <2> QED
    BY <2>2, <2>5
<1> QED
  BY <1>2, <1>3, <1>4

\* A sign above zero and two terms that are not negative.
LEMMA AddMore ==
    ASSUME NEW p \in Nat \ {0}, NEW q \in Nat \ {0}, NEW a \in Nat, NEW b \in Nat,
           NEW r \in Nat \ {0}, NEW s \in Nat \ {0},
           Square(q) * r <= Square(p) * s,
           Square(q) * r < Square(p) * s \/ a > 0 \/ b > 0
    PROVE  Sign(p + a, r, b - q, s) > 0
<1>1. CASE q <= b
  <2>1. p + a \in Int /\ b - q \in Int /\ p + a > 0 /\ b - q >= 0
    BY <1>1
  <2> QED
    BY ONLY <2>1, SignAbove
<1>2. CASE b < q
  <2> DEFINE v == q - b
             w == p + a
  <2>1. v \in Nat /\ v > 0 /\ v <= q /\ b - q = - v /\ w \in Nat /\ w > 0 /\ p <= w
    BY <1>2
  <2>2. (b > 0 => v < q) /\ (a > 0 => p < w)
    BY <1>2
  <2> HIDE DEF v, w
  <2> DEFINE V == Square(v)
             W == Square(w)
             P == Square(p)
             Q == Square(q)
  <2>3. /\ V \in Nat /\ W \in Nat /\ P \in Nat /\ Q \in Nat
        /\ V <= Q /\ P <= W /\ (b > 0 => V < Q) /\ (a > 0 => P < W)
    BY <2>1, <2>2, SquareFacts, SquareMonotone
  <2>4. Q * r <= P * s /\ (Q * r < P * s \/ a > 0 \/ b > 0)
    OBVIOUS
  <2> HIDE DEF V, W, P, Q
  <2>5. V * r <= Q * r /\ (b > 0 => V * r < Q * r)
    BY <2>3, ProductMonotone
  <2>6. P * s <= W * s /\ (a > 0 => P * s < W * s)
    BY <2>3, ProductMonotone
  <2>7. V * r \in Nat /\ Q * r \in Nat /\ P * s \in Nat /\ W * s \in Nat
    BY <2>3, ProductFacts
  <2>8. V * r < W * s
    BY <2>4, <2>5, <2>6, <2>7
  <2>9. Sign(w, r, - v, s) > 0
    BY <2>1, <2>8, SignAbove DEF V, W
  <2> QED
    BY <2>1, <2>9 DEF w
<1> QED
  BY <1>1, <1>2

\* A sign above zero stays so when one is added that is not below zero.
LEMMA SignAdd ==
    ASSUME NEW r \in Nat \ {0}, NEW s \in Nat \ {0},
           NEW p \in Int, NEW q \in Int, Sign(p, r, q, s) > 0,
           NEW a \in Int, NEW b \in Int, Sign(a, r, b, s) >= 0
    PROVE  Sign(p + a, r, q + b, s) > 0
<1>1. \/ p >= 0 /\ q >= 0 /\ (p > 0 \/ q > 0)
      \/ p > 0 /\ q < 0 /\ Square(q) * r < Square(p) * s
      \/ p < 0 /\ q > 0 /\ Square(p) * s < Square(q) * r
  BY SignCases
<1>2. \/ a >= 0 /\ b >= 0
      \/ a > 0 /\ b < 0 /\ Square(b) * r <= Square(a) * s
      \/ a < 0 /\ b > 0 /\ Square(a) * s <= Square(b) * r
  BY SignCases
<1>3. /\ Square(- p) = Square(p) /\ Square(- q) = Square(q)
      /\ Square(- a) = Square(a) /\ Square(- b) = Square(b)
  BY SquareFacts
<1>4. Sign(p + a, r, q + b, s) = Sign(q + b, s, p + a, r)
  <2>1. \A x, y \in Int : Sign(x, r, y, s) = Sign(y, s, x, r)
    BY SignSwap
  <2> QED
    BY <2>1
<1>5. CASE p >= 0 /\ q >= 0
  <2>1. p > 0 \/ q > 0
    BY <1>1, <1>5
  <2>2. CASE a >= 0 /\ b >= 0
    <3>1. /\ p + a \in Int /\ q + b \in Int /\ p + a >= 0 /\ q + b >= 0
          /\ p + a > 0 \/ q + b > 0
      BY <1>5, <2>1, <2>2
    <3> QED
      BY ONLY <3>1, SignAbove
  <2>3. CASE a > 0 /\ b < 0
    <3> DEFINE v == - b
    <3>1. v \in Nat \ {0} /\ a \in Nat \ {0} /\ p \in Nat /\ q \in Nat
      BY <1>5, <2>3
    <3>2. Square(v) * r <= Square(a) * s
      BY <1>2, <1>3, <2>3
    <3>3. p + a = a + p /\ q + b = q - v
      OBVIOUS
    <3> HIDE DEF v
    <3>4. Sign(a + p, r, q - v, s) > 0
      BY <2>1, <3>1, <3>2, AddMore
    <3> QED
      BY <3>3, <3>4
  <2>4. CASE a < 0 /\ b > 0
    <3> DEFINE u == - a
    <3>1. u \in Nat \ {0} /\ b \in Nat \ {0} /\ p \in Nat /\ q \in Nat
      BY <1>5, <2>4
    <3>2. Square(u) * s <= Square(b) * r
      BY <1>2, <1>3, <2>4
    <3>3. p + a = p - u /\ q + b = b + q
      OBVIOUS
    <3> HIDE DEF u
    <3>4. Sign(b + q, s, p - u, r) > 0
      BY <2>1, <3>1, <3>2, AddMore
    <3> QED
      BY <1>4, <3>3, <3>4
  <2> QED
    BY <1>2, <2>2, <2>3, <2>4
<1>6. CASE p > 0 /\ q < 0
  <2> DEFINE w == - q
  <2>1. w \in Nat \ {0} /\ p \in Nat \ {0} /\ q = - w
    BY <1>6
  <2>2. Square(w) * r < Square(p) * s
    BY <1>1, <1>3, <1>6
  <2>3. Square(w) * r \in Int /\ Square(p) * s \in Int
    <3>1. Square(w) \in Nat /\ Square(p) \in Nat
      BY <2>1, SquareFacts
    <3> QED
      BY <3>1
  <2> HIDE DEF w
  <2>4. Square(w) * r <= Square(p) * s
    BY <2>2, <2>3
  <2>5. CASE a >= 0 /\ b >= 0
    <3>1. a \in Nat /\ b \in Nat /\ q + b = b - w
      BY <2>1, <2>5
    <3> QED
      BY <2>1, <2>2, <2>4, <3>1, AddMore
  <2>6. CASE a > 0 /\ b < 0
    <3> DEFINE v == - b
    <3>1. v \in Nat \ {0} /\ a \in Nat \ {0} /\ q + b = - (w + v)
      BY <2>1, <2>6
    <3>2. Square(v) * r <= Square(a) * s
      BY <1>2, <1>3, <2>6
    <3> HIDE DEF v
    <3>3. Square(w + v) * r < Square(p + a) * s
      BY <2>1, <2>2, <3>1, <3>2, AddAlike
    <3>4. w + v \in Nat \ {0} /\ p + a \in Nat \ {0}
      BY <2>1, <3>1
    <3>5. Sign(p + a, r, - (w + v), s) > 0
      BY <3>3, <3>4, SignAbove
    <3> QED
      BY <3>1, <3>5
  <2>7. CASE a < 0 /\ b > 0
    <3> DEFINE u == - a
    <3>1. u \in Nat \ {0} /\ b \in Nat \ {0} /\ p + a = p - u /\ q + b = b - w
      BY <2>1, <2>7
    <3>2. Square(u) * s <= Square(b) * r
      BY <1>2, <1>3, <2>7
    <3> HIDE DEF u
    <3>3. Sign(p - u, r, b - w, s) > 0
      BY <2>1, <2>2, <2>4, <3>1, <3>2, AddOpposed
    <3> QED
      BY <3>1, <3>3
  <2> QED
    BY <1>2, <2>5, <2>6, <2>7
<1>7. CASE p < 0 /\ q > 0
  <2> DEFINE w == - p
  <2>1. w \in Nat \ {0} /\ q \in Nat \ {0} /\ p = - w
    BY <1>7
  <2>2. Square(w) * s < Square(q) * r
    BY <1>1, <1>3, <1>7
  <2>3. Square(w) * s \in Int /\ Square(q) * r \in Int
    <3>1. Square(w) \in Nat /\ Square(q) \in Nat
      BY <2>1, SquareFacts
    <3> QED
      BY <3>1
  <2> HIDE DEF w
  <2>4. Square(w) * s <= Square(q) * r
    BY <2>2, <2>3
  <2>5. CASE a >= 0 /\ b >= 0
    <3>1. a \in Nat /\ b \in Nat /\ p + a = a - w
      BY <2>1, <2>5
    <3>2. Sign(q + b, s, a - w, r) > 0
      BY <2>1, <2>2, <2>4, <3>1, AddMore
    <3> QED
      BY <1>4, <3>1, <3>2
  <2>6. CASE a < 0 /\ b > 0
    <3> DEFINE u == - a
    <3>1. u \in Nat \ {0} /\ b \in Nat \ {0} /\ p + a = - (w + u)
      BY <2>1, <2>6
    <3>2. Square(u) * s <= Square(b) * r
      BY <1>2, <1>3, <2>6
    <3> HIDE DEF u
    <3>3. Square(w + u) * s < Square(q + b) * r
      BY <2>1, <2>2, <3>1, <3>2, AddAlike
    <3>4. w + u \in Nat \ {0} /\ q + b \in Nat \ {0}
      BY <2>1, <3>1
    <3>5. Sign(- (w + u), r, q + b, s) > 0
      BY <3>3, <3>4, SignAbove
    <3> QED
      BY <3>1, <3>5
  <2>7. CASE a > 0 /\ b < 0
    <3> DEFINE v == - b
    <3>1. v \in Nat \ {0} /\ a \in Nat \ {0} /\ p + a = a - w /\ q + b = q - v
      BY <2>1, <2>7
    <3>2. Square(v) * r <= Square(a) * s
      BY <1>2, <1>3, <2>7
    <3> HIDE DEF v
    <3>3. Sign(a - w, r, q - v, s) > 0
      BY <2>1, <2>2, <2>4, <3>1, <3>2, AddOpposed
    <3> QED
      BY <3>1, <3>3
  <2> QED
    BY <1>2, <2>5, <2>6, <2>7
<1> QED
  BY <1>1, <1>5, <1>6, <1>7

\* A factor on one term and its square under that term's root change no sign.
LEMMA SignScale ==
    ASSUME NEW r \in Nat \ {0}, NEW s \in Nat \ {0}, NEW p \in Int, NEW q \in Int,
           NEW k \in Nat \ {0}
    PROVE  /\ Sign(k * p, Square(k) * r, q, s) > 0 <=> Sign(p, r, q, s) > 0
           /\ Sign(k * p, Square(k) * r, q, s) = 0 <=> Sign(p, r, q, s) = 0
<1> DEFINE P == k * p
           x == Square(p) * s
           y == Square(q) * r
           K == Square(k)
<1>1. K \in Nat /\ K > 0 /\ Square(p) \in Nat /\ Square(q) \in Nat
  BY SquareFacts
<1>2. /\ P \in Int
      /\ (P >= 0 <=> p >= 0) /\ (P <= 0 <=> p <= 0)
      /\ (P > 0 <=> p > 0) /\ (P = 0 <=> p = 0)
  <2>1. p > 0 => P > 0
    OBVIOUS
  <2>2. p < 0 => P < 0
    OBVIOUS
  <2>3. p = 0 => P = 0
    OBVIOUS
  <2> QED
    BY <2>1, <2>2, <2>3
<1>3. Square(P) * s = K * x /\ Square(q) * (K * r) = K * y
  <2> DEFINE sp == Square(p)
             sq == Square(q)
  <2>1. Square(P) = K * sp
    BY SquareOfProduct
  <2>2. sp \in Int /\ sq \in Int /\ K \in Int
    BY <1>1
  <2> HIDE DEF K, sp, sq, P
  <2>3. (K * sp) * s = K * (sp * s) /\ sq * (K * r) = K * (sq * r)
    BY <2>2
  <2> QED
    BY <2>1, <2>3 DEF sp, sq
<1>4. x \in Int /\ y \in Int
  BY <1>1
<1> HIDE DEF x, y, K, P
<1>5. /\ K * x - K * y > 0 <=> x - y > 0
      /\ K * x - K * y = 0 <=> x - y = 0
      /\ K * x - K * y < 0 <=> x - y < 0
      /\ K * x \in Int /\ K * y \in Int
  <2>1. K * x - K * y = K * (x - y) /\ K * x \in Int /\ K * y \in Int
    BY <1>1, <1>4
  <2>2. ASSUME NEW z \in Int
        PROVE  (z > 0 => K * z > 0) /\ (z = 0 => K * z = 0) /\ (z < 0 => K * z < 0)
    BY <1>1
  <2>3. x - y \in Int /\ K * (x - y) \in Int
    BY <1>1, <1>4
  <2> QED
    BY <2>1, <2>2, <2>3
<1>6. Sign(p, r, q, s) = IF p >= 0 /\ q >= 0 THEN p + q
                         ELSE IF p <= 0 /\ q <= 0 THEN p + q
                         ELSE IF p > 0 THEN x - y ELSE - (x - y)
  BY DEF Sign, x, y
<1>7. Sign(P, K * r, q, s) = IF P >= 0 /\ q >= 0 THEN P + q
                             ELSE IF P <= 0 /\ q <= 0 THEN P + q
                             ELSE IF P > 0 THEN K * x - K * y ELSE - (K * x - K * y)
  BY <1>3 DEF Sign
<1>8. /\ Sign(P, K * r, q, s) > 0 <=> Sign(p, r, q, s) > 0
      /\ Sign(P, K * r, q, s) = 0 <=> Sign(p, r, q, s) = 0
  <2> DEFINE X == K * x
             Y == K * y
  <2>1. /\ X - Y > 0 <=> x - y > 0
        /\ X - Y = 0 <=> x - y = 0
        /\ X - Y < 0 <=> x - y < 0
        /\ X \in Int /\ Y \in Int
    BY <1>5
  <2> HIDE DEF X, Y
  <2>2. Sign(P, K * r, q, s) = IF P >= 0 /\ q >= 0 THEN P + q
                               ELSE IF P <= 0 /\ q <= 0 THEN P + q
                               ELSE IF P > 0 THEN X - Y ELSE - (X - Y)
    BY <1>7 DEF X, Y
  <2> QED
    BY <1>2, <1>4, <1>6, <2>1, <2>2
<1> QED
  BY <1>8 DEF P, K

-----------------------------------------------------------------------------
(* Normalization. *)

ScoreList(list) == IsFiniteSet(DOMAIN list) /\ list \in [DOMAIN list -> Int]
Normalizes == normalization \in {"minmax", "zscore"}

LEMMA TotalFacts ==
    ASSUME NEW list, ScoreList(list)
    PROVE  /\ Size(list) \in Nat /\ (DOMAIN list # {} => Size(list) > 0)
           /\ Total(list) \in Int /\ SumOfSquares(list) \in Int
<1>1. Size(list) \in Nat /\ (DOMAIN list # {} => Size(list) > 0)
  BY FS_CardinalityType, FS_EmptySet DEF ScoreList, Size
<1>2. Total(list) \in Int
  <2>1. \A c \in DOMAIN list : list[c] \in Int
    BY DEF ScoreList
  <2> QED
    BY <2>1, SumType DEF ScoreList, Total, SumFunction
<1>3. SumOfSquares(list) \in Int
  <2> DEFINE squares == [c \in DOMAIN list |-> Square(list[c])]
  <2>1. \A c \in DOMAIN list : squares[c] \in Int
    BY SquareFacts DEF ScoreList
  <2>2. DOMAIN squares = DOMAIN list
    OBVIOUS
  <2> HIDE DEF squares
  <2>3. SumFunctionOnSet(squares, DOMAIN list) \in Int
    BY <2>1, SumType DEF ScoreList
  <2> QED
    BY <2>2, <2>3 DEF SumOfSquares, SumFunction, squares
<1> QED
  BY <1>1, <1>2, <1>3

\* The sum of the squares of what n list[c] is away from the total.
LEMMA SpreadOfList ==
    ASSUME NEW list, ScoreList(list), ~ AllEqual(list)
    PROVE  Size(list) * SumOfSquares(list) - Square(Total(list)) \in Nat \ {0}
<1> DEFINE D == DOMAIN list
           n == Size(list)
           T == Total(list)
           squares == [c \in D |-> Square(list[c])]
           Q == SumOfSquares(list)
           far == [c \in D |-> Square(n * list[c] - T)]
<1>1. n \in Nat /\ n > 0 /\ T \in Int /\ Q \in Int /\ IsFiniteSet(D)
  BY TotalFacts DEF ScoreList, AllEqual
<1>2. \A c \in D : list[c] \in Int
  BY DEF ScoreList
<1>3. /\ SumFunctionOnSet(squares, D) = Q
      /\ SumFunctionOnSet(list, D) = T
      /\ Cardinality(D) = n
  BY DEF SumOfSquares, SumFunction, Total, Size
<1> DEFINE a == n * n
           b == - (2 * (n * T))
           k == T * T
<1>4. a \in Int /\ b \in Int /\ k \in Int
  BY <1>1
<1> HIDE DEF n, T
<1>5. ASSUME NEW c \in D
      PROVE  /\ squares[c] \in Int
             /\ far[c] = a * squares[c] + b * list[c] + k
             /\ far[c] \in Nat
             /\ n * list[c] # T => far[c] > 0
  <2> DEFINE x == list[c]
             y == n * x - T
  <2>1. x \in Int /\ y \in Int /\ (n * x # T => y # 0)
    BY <1>1, <1>2
  <2> HIDE DEF x, y
  <2>2. Square(x) \in Int /\ Square(y) \in Nat /\ (y # 0 => Square(y) > 0)
    BY <2>1, SquareFacts
  <2>3. Square(n * x - T) = (n * n) * (x * x) + (- (2 * (n * T))) * x + T * T
    BY <1>1, <2>1 DEF Square
  <2>4. far[c] = Square(y) /\ squares[c] = Square(x)
    BY DEF x, y
  <2>5. Square(n * list[c] - T) = a * squares[c] + b * list[c] + k
    BY <2>3 DEF x, Square
  <2> QED
    BY <2>1, <2>2, <2>4, <2>5 DEF x
<1>6. SumFunctionOnSet(far, D) = a * Q + b * T + k * n
  <2>1. \A c \in D : squares[c] \in Int /\ far[c] = a * squares[c] + b * list[c] + k
    BY <1>5
  <2> HIDE DEF squares, far, a, b, k, D, Q
  <2>2. LinearOn(D, far, a, squares, b, list, k)
    BY <1>1, <1>2, <1>4, <2>1 DEF LinearOn
  <2>3. SumFunctionOnSet(far, D)
           = a * SumFunctionOnSet(squares, D) + b * SumFunctionOnSet(list, D) + k * Cardinality(D)
    BY ONLY <2>2, SumLinear
  <2> QED
    BY <1>3, <2>3
<1>7. PICK c \in D : n * list[c] # T
  <2>1. PICK c \in D, d \in D : list[c] # list[d]
    BY DEF AllEqual
  <2>2. n * list[c] # n * list[d]
    BY <1>1, <1>2, <2>1
  <2> QED
    BY <2>2
<1>8. SumFunctionOnSet(far, D) > 0
  <2>1. (\A x \in D : far[x] \in Nat) /\ \E x \in D : far[x] > 0
    BY <1>5, <1>7
  <2>2. \A x \in D : far[x] \in Int
    BY <2>1
  <2> HIDE DEF far, D
  <2> QED
    BY <1>1, <2>1, <2>2, SumType
<1> DEFINE R == n * Q - T * T
<1>9. a * Q + b * T + k * n = n * R
  BY <1>1
<1>10. R \in Int /\ n * R > 0
  BY <1>1, <1>6, <1>8, <1>9
<1>11. R > 0
  <2> HIDE DEF R
  <2> QED
    BY <1>1, <1>10
<1> QED
  BY <1>10, <1>11 DEF Square, n, T

LEMMA ValuesFacts ==
    ASSUME NEW list, ScoreList(list), DOMAIN list # {}
    PROVE  /\ Values(list) \in SUBSET Int /\ Values(list) # {} /\ IsFiniteSet(Values(list))
           /\ Min(Values(list)) \in Int /\ Max(Values(list)) \in Int
           /\ \A c \in DOMAIN list : Min(Values(list)) <= list[c] /\ list[c] <= Max(Values(list))
           /\ \E c \in DOMAIN list : list[c] = Min(Values(list))
           /\ \E c \in DOMAIN list : list[c] = Max(Values(list))
           /\ ~ AllEqual(list) => Min(Values(list)) < Max(Values(list))
<1>1. Values(list) \in SUBSET Int /\ Values(list) # {}
  BY DEF ScoreList, Values, Range
<1>2. IsFiniteSet(Values(list))
  <2>1. list \in Surjection(DOMAIN list, Values(list))
    BY DEF ScoreList, Surjection, Values, Range
  <2> QED
    BY <2>1, FS_Surjection DEF ScoreList
<1>3. /\ Min(Values(list)) \in Values(list) /\ \A x \in Values(list) : Min(Values(list)) <= x
      /\ Max(Values(list)) \in Values(list) /\ \A x \in Values(list) : x <= Max(Values(list))
  BY <1>1, <1>2, Extremes
<1>4. \A x : x \in Values(list) <=> \E c \in DOMAIN list : list[c] = x
  BY DEF Values, Range
<1>5. ~ AllEqual(list) => Min(Values(list)) < Max(Values(list))
  <2>1. SUFFICES ASSUME ~ AllEqual(list) PROVE Min(Values(list)) < Max(Values(list))
    OBVIOUS
  <2>2. PICK b \in DOMAIN list, c \in DOMAIN list : list[b] # list[c]
    BY <2>1 DEF AllEqual
  <2>3. list[b] \in Int /\ list[c] \in Int
    BY DEF ScoreList
  <2> QED
    BY <1>1, <1>3, <1>4, <2>2, <2>3
<1> QED
  BY <1>1, <1>2, <1>3, <1>4, <1>5

\* A normalized score is an integer over the root of a positive one.
LEMMA NormalizedType ==
    ASSUME NEW list, ScoreList(list), Normalizes
    PROVE  /\ Radicand(list) \in Nat \ {0}
           /\ \A c : Numerator(list, c) \in Int
<1>1. Radicand(list) \in Nat \ {0}
  <2>1. CASE AllEqual(list)
    BY <2>1 DEF Radicand, MinMaxRadicand, ZScoreRadicand
  <2>2. CASE ~ AllEqual(list)
    <3>1. ZScoreRadicand(list) \in Nat \ {0}
      BY <2>2, SpreadOfList DEF ZScoreRadicand
    <3>2. MinMaxRadicand(list) \in Nat \ {0}
      <4> DEFINE lo == Min(Values(list))
                 hi == Max(Values(list))
      <4>1. lo \in Int /\ hi \in Int /\ lo < hi
        BY <2>2, ValuesFacts DEF AllEqual
      <4>2. hi - lo \in Int /\ hi - lo # 0
        BY <4>1
      <4> HIDE DEF lo, hi
      <4>3. Square(hi - lo) \in Nat /\ Square(hi - lo) > 0
        BY <4>2, SquareFacts
      <4> QED
        BY <2>2, <4>3 DEF MinMaxRadicand, lo, hi
    <3> QED
      BY <3>1, <3>2 DEF Radicand
  <2> QED
    BY <2>1, <2>2
<1>2. ASSUME NEW c PROVE Numerator(list, c) \in Int
  <2>1. CASE c \in DOMAIN list
    <3>1. list[c] \in Int /\ Min(Values(list)) \in Int
      BY <2>1, ValuesFacts DEF ScoreList
    <3>2. MinMax(list, c) \in Int
      BY <3>1 DEF MinMax
    <3>3. ZScore(list, c) \in Int
      BY <3>1, TotalFacts DEF ZScore
    <3> QED
      BY <2>1, <3>2, <3>3 DEF Numerator
  <2>2. CASE c \notin DOMAIN list
    BY <2>2 DEF Numerator
  <2> QED
    BY <2>1, <2>2
<1> QED
  BY <1>1, <1>2

\* Normalization keeps the order within a list; with min-max a chunk that is missing
\* counts as much as the last one.
LEMMA NormalizedOrder ==
    ASSUME NEW list, ScoreList(list), Normalizes, NEW b, NEW c,
           NoWorse(list, b, c),
           normalization = "zscore" => (b \in DOMAIN list <=> c \in DOMAIN list)
    PROVE  /\ Numerator(list, b) >= Numerator(list, c)
           /\ Better(list, b, c) => Numerator(list, b) > Numerator(list, c)
<1>1. CASE c \in DOMAIN list
  <2> DEFINE x == list[b]
             y == list[c]
             lo == Min(Values(list))
             n == Size(list)
             T == Total(list)
  <2>1. /\ b \in DOMAIN list /\ x \in Int /\ y \in Int /\ x >= y
        /\ lo \in Int /\ n \in Nat /\ n > 0 /\ T \in Int
    BY <1>1, ValuesFacts, TotalFacts DEF NoWorse, ScoreList
  <2>2. Better(list, b, c) <=> x > y
    BY <1>1, <2>1 DEF Better
  <2>3. CASE AllEqual(list)
    <3>1. x = y
      BY <1>1, <2>1, <2>3 DEF AllEqual
    <3>2. Numerator(list, b) = Numerator(list, c) /\ Numerator(list, c) \in {0, 1}
      BY <1>1, <2>1, <2>3 DEF Numerator, MinMax, ZScore
    <3> QED
      BY <2>1, <2>2, <3>1, <3>2
  <2>4. CASE ~ AllEqual(list) /\ normalization = "minmax"
    <3>1. Numerator(list, b) = x - lo /\ Numerator(list, c) = y - lo
      BY <1>1, <2>1, <2>4 DEF Numerator, MinMax
    <3> HIDE DEF x, y, lo
    <3> QED
      BY <2>1, <2>2, <3>1
  <2>5. CASE ~ AllEqual(list) /\ normalization = "zscore"
    <3>1. Numerator(list, b) = n * x - T /\ Numerator(list, c) = n * y - T
      BY <1>1, <2>1, <2>5 DEF Numerator, ZScore
    <3> HIDE DEF x, y, n, T
    <3>2. n * x >= n * y /\ (x > y => n * x > n * y) /\ n * x \in Int /\ n * y \in Int
      BY <2>1
    <3> QED
      BY <2>1, <2>2, <3>1, <3>2
  <2> QED
    BY <2>3, <2>4, <2>5 DEF Normalizes
<1>2. CASE c \notin DOMAIN list
  <2>1. Numerator(list, c) = 0 /\ ~ Better(list, b, c)
    BY <1>2 DEF Numerator, Better
  <2>2. CASE b \in DOMAIN list
    <3>1. normalization = "minmax"
      BY <1>2, <2>2 DEF Normalizes
    <3>2. list[b] \in Int /\ Min(Values(list)) \in Int /\ Min(Values(list)) <= list[b]
      BY <2>2, ValuesFacts DEF ScoreList
    <3>3. MinMax(list, b) >= 0
      BY <3>2 DEF MinMax
    <3> QED
      BY <2>1, <2>2, <3>1, <3>3 DEF Numerator
  <2>3. CASE b \notin DOMAIN list
    BY <2>1, <2>3 DEF Numerator
  <2> QED
    BY <2>1, <2>2, <2>3
<1> QED
  BY <1>1, <1>2

\* Rescaling multiplies numerators and root alike, or changes neither.
LEMMA RescaledFacts ==
    ASSUME NEW list, ScoreList(list), Normalizes, NEW k \in Nat \ {0}, NEW o \in Int
    PROVE  /\ ScoreList(Rescaled(list, k, o)) /\ DOMAIN Rescaled(list, k, o) = DOMAIN list
           /\ \/ /\ Radicand(Rescaled(list, k, o)) = Radicand(list)
                 /\ \A c : Numerator(Rescaled(list, k, o), c) = Numerator(list, c)
              \/ /\ Radicand(Rescaled(list, k, o)) = Square(k) * Radicand(list)
                 /\ \A c : Numerator(Rescaled(list, k, o), c) = k * Numerator(list, c)
<1> DEFINE D == DOMAIN list
           L == Rescaled(list, k, o)
<1>1. /\ DOMAIN L = D /\ IsFiniteSet(D)
      /\ \A c \in D : list[c] \in Int /\ L[c] = k * list[c] + o /\ L[c] \in Int
  BY DEF ScoreList, Rescaled
<1>2. ScoreList(L)
  BY <1>1 DEF ScoreList, Rescaled
<1> HIDE DEF L
<1>3. AllEqual(L) <=> AllEqual(list)
  <2>1. ASSUME NEW b \in D, NEW c \in D PROVE L[b] = L[c] <=> list[b] = list[c]
    <3> DEFINE x == list[b]
               y == list[c]
    <3>1. x \in Int /\ y \in Int /\ L[b] = k * x + o /\ L[c] = k * y + o
      BY <1>1
    <3> HIDE DEF x, y
    <3>2. x < y => k * x < k * y
      BY <3>1
    <3>3. y < x => k * y < k * x
      BY <3>1
    <3>4. L[b] = L[c] <=> x = y
      BY <3>1, <3>2, <3>3
    <3> QED
      BY <3>4 DEF x, y
  <2> QED
    BY <1>1, <2>1 DEF AllEqual
<1>4. CASE AllEqual(list)
  <2>1. Radicand(L) = Radicand(list)
    BY <1>3, <1>4 DEF Radicand, MinMaxRadicand, ZScoreRadicand
  <2>2. \A c : Numerator(L, c) = Numerator(list, c)
    BY <1>1, <1>3, <1>4 DEF Numerator, MinMax, ZScore
  <2> QED
    BY <1>1, <1>2, <2>1, <2>2 DEF L
<1>5. CASE ~ AllEqual(list)
  <2>0. D # {}
    BY <1>5 DEF AllEqual
  <2>1. CASE normalization = "minmax"
    <3> DEFINE lo == Min(Values(list))
               hi == Max(Values(list))
               Lo == Min(Values(L))
               Hi == Max(Values(L))
    <3>1. /\ lo \in Int /\ hi \in Int /\ Lo \in Int /\ Hi \in Int
          /\ \A c \in D : lo <= list[c] /\ list[c] <= hi /\ Lo <= L[c] /\ L[c] <= Hi
      BY <1>1, <1>2, <2>0, ValuesFacts
    <3>2. PICK a \in D, b \in D, c \in D, d \in D :
             list[a] = lo /\ list[b] = hi /\ L[c] = Lo /\ L[d] = Hi
      <4>1. (\E a \in D : list[a] = lo) /\ (\E b \in D : list[b] = hi)
        BY <2>0, ValuesFacts
      <4>2. (\E c \in D : L[c] = Lo) /\ (\E d \in D : L[d] = Hi)
        BY <1>1, <1>2, <2>0, ValuesFacts
      <4> QED
        BY <4>1, <4>2
    <3> HIDE DEF lo, hi, Lo, Hi
    <3>3. Lo = k * lo + o
      <4>1. Lo = k * list[c] + o /\ lo <= list[c] /\ list[c] \in Int
        BY <1>1, <3>1, <3>2
      <4>2. k * lo <= k * list[c] /\ k * lo \in Int
        BY <3>1, <4>1
      <4>3. Lo <= k * lo + o
        BY <1>1, <3>1, <3>2
      <4> QED
        BY <3>1, <4>1, <4>2, <4>3
    <3>4. Hi = k * hi + o
      <4>1. Hi = k * list[d] + o /\ list[d] <= hi /\ list[d] \in Int
        BY <1>1, <3>1, <3>2
      <4>2. k * list[d] <= k * hi /\ k * hi \in Int
        BY <3>1, <4>1
      <4>3. k * hi + o <= Hi
        BY <1>1, <3>1, <3>2
      <4> QED
        BY <3>1, <4>1, <4>2, <4>3
    <3>5. Radicand(L) = Square(k) * Radicand(list)
      <4>1. Radicand(L) = Square(Hi - Lo) /\ Radicand(list) = Square(hi - lo)
        BY <1>3, <1>5, <2>1 DEF Radicand, MinMaxRadicand, lo, hi, Lo, Hi
      <4>2. Hi - Lo = k * (hi - lo) /\ hi - lo \in Int
        BY <3>1, <3>3, <3>4
      <4> QED
        BY <4>1, <4>2, SquareOfProduct
    <3>6. ASSUME NEW x PROVE Numerator(L, x) = k * Numerator(list, x)
      <4>1. CASE x \in D
        <5>1. Numerator(L, x) = L[x] - Lo /\ Numerator(list, x) = list[x] - lo
          BY <1>1, <1>3, <1>5, <2>1, <4>1 DEF Numerator, MinMax, lo, Lo
        <5>2. L[x] = k * list[x] + o /\ list[x] \in Int
          BY <1>1, <4>1
        <5> QED
          BY <3>1, <3>3, <5>1, <5>2
      <4>2. CASE x \notin D
        BY <1>1, <4>2 DEF Numerator
      <4> QED
        BY <4>1, <4>2
    <3> QED
      BY <1>1, <1>2, <3>5, <3>6 DEF L
  <2>2. CASE normalization = "zscore"
    <3> DEFINE n == Size(list)
               T == Total(list)
               Q == SumOfSquares(list)
               sq == [c \in D |-> Square(list[c])]
               Sq == [c \in D |-> Square(L[c])]
    <3>1. n \in Nat /\ T \in Int /\ Q \in Int /\ Size(L) = n
      BY <1>1, TotalFacts DEF Size
    <3>2. /\ SumFunctionOnSet(list, D) = T /\ SumFunctionOnSet(L, D) = Total(L)
          /\ SumFunctionOnSet(sq, D) = Q /\ SumFunctionOnSet(Sq, D) = SumOfSquares(L)
          /\ Cardinality(D) = n
      BY <1>1 DEF Total, SumOfSquares, SumFunction, Size
    <3> DEFINE a == k * k
               b == 2 * (k * o)
               e == o * o
    <3>3. a \in Int /\ b \in Int /\ e \in Int /\ k \in Int /\ 0 \in Int
      OBVIOUS
    <3>4. Total(L) = k * T + o * n
      <4>1. \A c \in D : L[c] = k * list[c] + 0 * list[c] + o
        BY <1>1
      <4> HIDE DEF D, n, T
      <4>2. LinearOn(D, L, k, list, 0, list, o)
        BY <1>1, <3>3, <4>1 DEF LinearOn
      <4>3. SumFunctionOnSet(L, D)
               = k * SumFunctionOnSet(list, D) + 0 * SumFunctionOnSet(list, D) + o * Cardinality(D)
        BY ONLY <4>2, SumLinear
      <4> QED
        BY <3>1, <3>2, <4>3
    <3>5. ASSUME NEW c \in D
          PROVE sq[c] \in Int /\ Sq[c] = a * sq[c] + b * list[c] + e
      <4> DEFINE x == list[c]
      <4>1. x \in Int /\ L[c] = k * x + o
        BY <1>1
      <4> HIDE DEF x
      <4>2. Square(k * x + o) = (k * k) * (x * x) + (2 * (k * o)) * x + o * o
        BY <4>1 DEF Square
      <4>3. sq[c] = x * x /\ Sq[c] = Square(k * x + o)
        BY <4>1 DEF x, Square
      <4> QED
        BY <4>1, <4>2, <4>3 DEF x
    <3>6. SumOfSquares(L) = a * Q + b * T + e * n
      <4> HIDE DEF D, n, T, Q, sq, Sq, a, b, e
      <4>1. LinearOn(D, Sq, a, sq, b, list, e)
        BY <1>1, <3>3, <3>5 DEF LinearOn
      <4>2. SumFunctionOnSet(Sq, D)
               = a * SumFunctionOnSet(sq, D) + b * SumFunctionOnSet(list, D) + e * Cardinality(D)
        BY ONLY <4>1, SumLinear
      <4> QED
        BY <3>2, <4>2
    <3> HIDE DEF n, T, Q
    <3>7. Radicand(L) = Square(k) * Radicand(list)
      <4>1. /\ Radicand(L) = n * SumOfSquares(L) - Square(Total(L))
            /\ Radicand(list) = n * Q - Square(T)
        BY <1>3, <1>5, <2>2, <3>1 DEF Radicand, ZScoreRadicand, n, T, Q
      <4>2. n * ((k * k) * Q + (2 * (k * o)) * T + (o * o) * n) - (k * T + o * n) * (k * T + o * n)
               = (k * k) * (n * Q - T * T)
        BY <3>1
      <4> QED
        BY <3>4, <3>6, <4>1, <4>2 DEF Square
    <3>8. ASSUME NEW x PROVE Numerator(L, x) = k * Numerator(list, x)
      <4>1. CASE x \in D
        <5>1. Numerator(L, x) = n * L[x] - Total(L) /\ Numerator(list, x) = n * list[x] - T
          BY <1>1, <1>3, <1>5, <2>2, <3>1, <4>1 DEF Numerator, ZScore, n, T
        <5>2. L[x] = k * list[x] + o /\ list[x] \in Int
          BY <1>1, <4>1
        <5>3. ASSUME NEW y \in Int PROVE n * (k * y + o) - (k * T + o * n) = k * (n * y - T)
          BY <3>1
        <5> QED
          BY <3>4, <5>1, <5>2, <5>3
      <4>2. CASE x \notin D
        BY <1>1, <4>2 DEF Numerator
      <4> QED
        BY <4>1, <4>2
    <3> QED
      BY <1>1, <1>2, <3>7, <3>8 DEF L
  <2> QED
    BY <2>1, <2>2 DEF Normalizes
<1> QED
  BY <1>4, <1>5

-----------------------------------------------------------------------------
(* The order of the result. *)

Fusable(ds, ls) ==
    /\ Normalizes /\ weights \in [dense : Int, lexical : Int]
    /\ ScoreList(ds) /\ ScoreList(ls)

\* How far b is ahead of c in one list, with its weight.
Lead(weight, list, b, c) == weight * (Numerator(list, b) - Numerator(list, c))

LEMMA LeadFacts ==
    ASSUME NEW list, ScoreList(list), Normalizes, NEW weight \in Int, NEW b, NEW c, NEW d
    PROVE  /\ Lead(weight, list, b, c) \in Int
           /\ Lead(weight, list, c, b) = - Lead(weight, list, b, c)
           /\ Lead(weight, list, b, d) = Lead(weight, list, b, c) + Lead(weight, list, c, d)
<1> DEFINE x == Numerator(list, b)
           y == Numerator(list, c)
           z == Numerator(list, d)
<1>1. x \in Int /\ y \in Int /\ z \in Int
  BY NormalizedType
<1> HIDE DEF x, y, z
<1>2. /\ weight * (x - y) \in Int
      /\ weight * (y - x) = - (weight * (x - y))
      /\ weight * (x - z) = weight * (x - y) + weight * (y - z)
  BY <1>1
<1> QED
  BY <1>2 DEF Lead, x, y, z

LEMMA CompareIsSign ==
    ASSUME NEW ds, NEW ls, NEW b, NEW c
    PROVE  Compare(ds, ls, b, c) = Sign(Lead(weights.dense, ds, b, c), Radicand(ds),
                                        Lead(weights.lexical, ls, b, c), Radicand(ls))
BY DEF Compare, Lead

\* Comparing two chunks is antisymmetric and transitive.
LEMMA CompareFacts ==
    ASSUME NEW ds, NEW ls, Fusable(ds, ls), NEW b, NEW c, NEW d
    PROVE  /\ Compare(ds, ls, b, c) \in Int
           /\ Compare(ds, ls, c, b) = - Compare(ds, ls, b, c)
           /\ Compare(ds, ls, b, c) > 0 /\ Compare(ds, ls, c, d) >= 0 => Compare(ds, ls, b, d) > 0
           /\ Compare(ds, ls, b, c) >= 0 /\ Compare(ds, ls, c, d) > 0 => Compare(ds, ls, b, d) > 0
<1> DEFINE r == Radicand(ds)
           s == Radicand(ls)
           P(x, y) == Lead(weights.dense, ds, x, y)
           Q(x, y) == Lead(weights.lexical, ls, x, y)
           C(x, y) == Compare(ds, ls, x, y)
<1>1. r \in Nat \ {0} /\ s \in Nat \ {0} /\ weights.dense \in Int /\ weights.lexical \in Int
  BY NormalizedType DEF Fusable
<1>2. \A x, y, z : /\ P(x, y) \in Int /\ P(y, x) = - P(x, y) /\ P(x, z) = P(x, y) + P(y, z)
                   /\ Q(x, y) \in Int /\ Q(y, x) = - Q(x, y) /\ Q(x, z) = Q(x, y) + Q(y, z)
  <2>1. Normalizes /\ ScoreList(ds) /\ ScoreList(ls)
    BY DEF Fusable
  <2>2. ASSUME NEW x, NEW y, NEW z
        PROVE  P(x, y) \in Int /\ P(y, x) = - P(x, y) /\ P(x, z) = P(x, y) + P(y, z)
    BY ONLY <1>1, <2>1, LeadFacts
  <2>3. ASSUME NEW x, NEW y, NEW z
        PROVE  Q(x, y) \in Int /\ Q(y, x) = - Q(x, y) /\ Q(x, z) = Q(x, y) + Q(y, z)
    BY ONLY <1>1, <2>1, LeadFacts
  <2> QED
    BY ONLY <2>2, <2>3
<1>3. \A x, y : C(x, y) = Sign(P(x, y), r, Q(x, y), s)
  BY CompareIsSign
<1> HIDE DEF r, s, P, Q, C
<1>4. C(b, c) \in Int /\ C(c, d) \in Int
  BY <1>1, <1>2, <1>3, SignFacts
<1>5. C(c, b) = - C(b, c)
  <2>1. P(c, b) = - P(b, c) /\ Q(c, b) = - Q(b, c) /\ P(b, c) \in Int /\ Q(b, c) \in Int
    BY <1>2
  <2>2. r \in Nat \ {0} /\ s \in Nat \ {0}
    BY <1>1
  <2>3. Opposites(P(c, b), P(b, c), Q(c, b), Q(b, c))
    BY <2>1 DEF Opposites
  <2>4. Sign(P(c, b), r, Q(c, b), s) = - Sign(P(b, c), r, Q(b, c), s)
    BY ONLY <2>2, <2>3, SignOpposite
  <2> QED
    BY <1>3, <2>4
<1>6. ASSUME C(b, c) > 0, C(c, d) >= 0 PROVE C(b, d) > 0
  <2>1. /\ P(b, c) \in Int /\ Q(b, c) \in Int /\ P(c, d) \in Int /\ Q(c, d) \in Int
        /\ P(b, d) = P(b, c) + P(c, d) /\ Q(b, d) = Q(b, c) + Q(c, d)
    BY <1>2
  <2>2. Sign(P(b, c), r, Q(b, c), s) > 0 /\ Sign(P(c, d), r, Q(c, d), s) >= 0
    BY <1>3, <1>6
  <2>3. Sign(P(b, c) + P(c, d), r, Q(b, c) + Q(c, d), s) > 0
    BY <1>1, <2>1, <2>2, SignAdd
  <2> QED
    BY <1>3, <2>1, <2>3
<1>7. ASSUME C(b, c) >= 0, C(c, d) > 0 PROVE C(b, d) > 0
  <2>1. /\ P(b, c) \in Int /\ Q(b, c) \in Int /\ P(c, d) \in Int /\ Q(c, d) \in Int
        /\ P(b, d) = P(c, d) + P(b, c) /\ Q(b, d) = Q(c, d) + Q(b, c)
    BY <1>2
  <2>2. Sign(P(b, c), r, Q(b, c), s) >= 0 /\ Sign(P(c, d), r, Q(c, d), s) > 0
    BY <1>3, <1>7
  <2>3. Sign(P(c, d) + P(b, c), r, Q(c, d) + Q(b, c), s) > 0
    BY <1>1, <2>1, <2>2, SignAdd
  <2> QED
    BY <1>3, <2>1, <2>3
<1> QED
  BY <1>4, <1>5, <1>6, <1>7 DEF C

\* Ties in the score are broken by the id, so no two chunks are level.
LEMMA AheadIsOrder ==
    ASSUME NEW ds, NEW ls, Fusable(ds, ls),
           NEW S \in SUBSET Int,
           NEW R, \A b, c \in S : <<b, c>> \in R <=> Ahead(ds, ls, b, c)
    PROVE  StrictTotalOrder(R, S)
<1> DEFINE C(x, y) == Compare(ds, ls, x, y)
<1>1. \A x, y, z : /\ C(x, y) \in Int /\ C(y, x) = - C(x, y)
                   /\ C(x, y) > 0 /\ C(y, z) >= 0 => C(x, z) > 0
                   /\ C(x, y) >= 0 /\ C(y, z) > 0 => C(x, z) > 0
  BY CompareFacts
<1>2. \A b, c \in S : <<b, c>> \in R <=> C(b, c) > 0 \/ (C(b, c) = 0 /\ b < c)
  BY DEF Ahead
<1> HIDE DEF C
<1>3. ASSUME NEW b \in S, NEW c \in S PROVE ~ (<<b, c>> \in R /\ <<c, b>> \in R)
  <2>1. C(b, c) \in Int /\ C(c, b) = - C(b, c)
    BY <1>1
  <2> QED
    BY <1>2, <2>1
<1>4. ASSUME NEW b \in S, NEW c \in S, NEW d \in S, <<b, c>> \in R, <<c, d>> \in R
      PROVE  <<b, d>> \in R
  <2>1. C(b, c) \in Int /\ C(c, d) \in Int /\ C(b, d) \in Int
    BY <1>1
  <2>2. C(b, c) > 0 \/ (C(b, c) = 0 /\ b < c)
    BY <1>2, <1>4
  <2>3. C(c, d) > 0 \/ (C(c, d) = 0 /\ c < d)
    BY <1>2, <1>4
  <2>4. CASE C(b, c) > 0 \/ C(c, d) > 0
    <3>1. C(b, d) > 0
      BY <1>1, <2>1, <2>2, <2>3, <2>4
    <3> QED
      BY <1>2, <3>1
  <2>5. CASE C(b, c) = 0 /\ b < c /\ C(c, d) = 0 /\ c < d
    <3>1. C(b, d) >= 0
      <4>1. SUFFICES ASSUME C(b, d) < 0 PROVE FALSE
        BY <2>1
      <4>2. C(d, b) = - C(b, d) /\ C(d, c) = - C(c, d)
        BY <1>1
      <4>3. C(d, b) > 0
        BY <2>1, <4>1, <4>2
      <4>4. C(d, c) > 0
        <5>1. C(b, c) >= 0
          BY <2>5
        <5> QED
          BY <1>1, <4>3, <5>1
      <4>5. C(c, d) < 0
        BY <2>1, <4>2, <4>4
      <4> QED
        BY <2>5, <4>5
    <3>2. b < d
      BY <2>5
    <3> QED
      BY <1>2, <2>1, <3>1, <3>2
  <2> QED
    BY <2>2, <2>3, <2>4, <2>5
<1>5. ASSUME NEW b \in S, NEW c \in S, b # c PROVE <<b, c>> \in R \/ <<c, b>> \in R
  <2>1. C(b, c) \in Int /\ C(c, b) = - C(b, c)
    BY <1>1
  <2>2. b < c \/ c < b
    BY <1>5
  <2> QED
    BY <1>2, <2>1, <2>2
<1> QED
  BY <1>3, <1>4, <1>5 DEF StrictTotalOrder

\* Two lists have one fused order.
LEMMA OneFusedOrder ==
    ASSUME NEW ds, NEW ls, Fusable(ds, ls), DOMAIN ds \cup DOMAIN ls \subseteq Int
    PROVE  \E s : FusedOrders(ds, ls) = {s}
<1> DEFINE S == DOMAIN ds \cup DOMAIN ls
           R == {p \in S \X S : Ahead(ds, ls, p[1], p[2])}
<1>1. IsFiniteSet(S)
  BY FS_Union DEF Fusable, ScoreList
<1>2. \A b, c \in S : <<b, c>> \in R <=> Ahead(ds, ls, b, c)
  OBVIOUS
<1>3. FusedOrders(ds, ls) = SortedLists(R, S)
  <2>1. ASSUME NEW s \in SetToSeqs(S), NEW i \in DOMAIN s PROVE s[i] \in S
    BY <2>1 DEF SetToSeqs
  <2> QED
    BY <1>2, <2>1 DEF FusedOrders, Sorted, SortedLists
<1> HIDE DEF R, S
<1>4. S \in SUBSET Int
  BY DEF S
<1>5. StrictTotalOrder(R, S)
  BY <1>2, <1>4, AheadIsOrder
<1> QED
  BY <1>1, <1>3, <1>5, SortedOnce

\* Rescaling one list leaves every comparison as it is.
LEMMA AheadRescaled ==
    ASSUME NEW ds, NEW ls, Fusable(ds, ls), NEW k \in Nat \ {0}, NEW o \in Int, NEW b, NEW c
    PROVE  /\ Ahead(Rescaled(ds, k, o), ls, b, c) <=> Ahead(ds, ls, b, c)
           /\ Ahead(ds, Rescaled(ls, k, o), b, c) <=> Ahead(ds, ls, b, c)
<1> DEFINE r == Radicand(ds)
           s == Radicand(ls)
           p == Lead(weights.dense, ds, b, c)
           q == Lead(weights.lexical, ls, b, c)
           K == Square(k)
<1>1. r \in Nat \ {0} /\ s \in Nat \ {0} /\ weights.dense \in Int /\ weights.lexical \in Int
  BY NormalizedType DEF Fusable
<1>2. p \in Int /\ q \in Int
  BY <1>1, LeadFacts DEF Fusable
<1>3. Compare(ds, ls, b, c) = Sign(p, r, q, s)
  BY CompareIsSign
<1>4. ASSUME NEW list, ScoreList(list), Normalizes, NEW w \in Int
      PROVE  LET L == Rescaled(list, k, o)
             IN  \/ Radicand(L) = Radicand(list) /\ Lead(w, L, b, c) = Lead(w, list, b, c)
                 \/ Radicand(L) = K * Radicand(list) /\ Lead(w, L, b, c) = k * Lead(w, list, b, c)
  <2> DEFINE L == Rescaled(list, k, o)
             x == Numerator(list, b)
             y == Numerator(list, c)
  <2>1. CASE /\ Radicand(L) = Radicand(list)
             /\ \A z : Numerator(L, z) = Numerator(list, z)
    BY <2>1 DEF Lead
  <2>2. CASE /\ Radicand(L) = K * Radicand(list)
             /\ \A z : Numerator(L, z) = k * Numerator(list, z)
    <3>1. x \in Int /\ y \in Int
      BY <1>4, NormalizedType
    <3>2. Lead(w, L, b, c) = w * (k * x - k * y)
      BY <2>2 DEF Lead
    <3> HIDE DEF x, y, L, K
    <3>3. w * (k * x - k * y) = k * (w * (x - y))
      BY <1>4, <3>1
    <3>4. Lead(w, list, b, c) = w * (x - y)
      BY DEF Lead, x, y
    <3> QED
      BY <2>2, <3>2, <3>3, <3>4 DEF L
  <2> QED
    BY <1>4, <2>1, <2>2, RescaledFacts
<1>5. Ahead(Rescaled(ds, k, o), ls, b, c) <=> Ahead(ds, ls, b, c)
  <2> DEFINE L == Rescaled(ds, k, o)
             p1 == Lead(weights.dense, L, b, c)
             r1 == Radicand(L)
  <2>1. (r1 = r /\ p1 = p) \/ (r1 = K * r /\ p1 = k * p)
    BY <1>1, <1>4 DEF Fusable
  <2>2. Compare(L, ls, b, c) = Sign(p1, r1, q, s)
    BY CompareIsSign
  <2> HIDE DEF p1, r1, p, q, r, s, L, K
  <2>3. /\ Sign(p1, r1, q, s) > 0 <=> Sign(p, r, q, s) > 0
        /\ Sign(p1, r1, q, s) = 0 <=> Sign(p, r, q, s) = 0
    BY <1>1, <1>2, <2>1, SignScale DEF K
  <2> QED
    BY <1>3, <2>2, <2>3 DEF Ahead, L
<1>6. Ahead(ds, Rescaled(ls, k, o), b, c) <=> Ahead(ds, ls, b, c)
  <2> DEFINE L == Rescaled(ls, k, o)
             q1 == Lead(weights.lexical, L, b, c)
             s1 == Radicand(L)
  <2>1. (s1 = s /\ q1 = q) \/ (s1 = K * s /\ q1 = k * q)
    BY <1>1, <1>4 DEF Fusable
  <2>2. Compare(ds, L, b, c) = Sign(p, r, q1, s1)
    BY CompareIsSign
  <2>3. q1 \in Int /\ s1 \in Nat \ {0}
    <3>1. ScoreList(L)
      BY RescaledFacts DEF Fusable
    <3> QED
      BY <1>1, <3>1, LeadFacts, NormalizedType DEF Fusable
  <2> HIDE DEF q1, s1, p, q, r, s, L, K
  <2>4. Sign(p, r, q1, s1) = Sign(q1, s1, p, r) /\ Sign(p, r, q, s) = Sign(q, s, p, r)
    BY <1>1, <1>2, <2>3, SignSwap
  <2>5. /\ Sign(q1, s1, p, r) > 0 <=> Sign(q, s, p, r) > 0
        /\ Sign(q1, s1, p, r) = 0 <=> Sign(q, s, p, r) = 0
    BY <1>1, <1>2, <2>1, SignScale DEF K
  <2> QED
    BY <1>3, <2>2, <2>4, <2>5 DEF Ahead, L
<1> QED
  BY <1>5, <1>6

LEMMA OrdersRescaled ==
    ASSUME NEW ds, NEW ls, Fusable(ds, ls), NEW k \in Nat \ {0}, NEW o \in Int
    PROVE  /\ FusedOrders(Rescaled(ds, k, o), ls) = FusedOrders(ds, ls)
           /\ FusedOrders(ds, Rescaled(ls, k, o)) = FusedOrders(ds, ls)
<1>1. DOMAIN Rescaled(ds, k, o) = DOMAIN ds /\ DOMAIN Rescaled(ls, k, o) = DOMAIN ls
  BY DEF Rescaled
<1>2. \A s : /\ Sorted(Rescaled(ds, k, o), ls, s) <=> Sorted(ds, ls, s)
             /\ Sorted(ds, Rescaled(ls, k, o), s) <=> Sorted(ds, ls, s)
  BY AheadRescaled DEF Sorted
<1> QED
  BY <1>1, <1>2 DEF FusedOrders

-----------------------------------------------------------------------------
(* The theorems. *)

\* Before the fusion there is no result; after it, one that is in fused order.
FusionInv == TypeOK /\ (fused # NotFused => fused \in FusedOrders(dense, lexical))

LEMMA TypesFusable ==
    ASSUME TypeOK
    PROVE  /\ Fusable(dense, lexical)
           /\ DOMAIN dense \in SUBSET Chunks /\ DOMAIN lexical \in SUBSET Chunks
           /\ Chunks \subseteq Int
<1>1. ASSUME NEW list \in Lists PROVE ScoreList(list) /\ DOMAIN list \in SUBSET Chunks
  <2>1. PICK S \in SUBSET Chunks : list \in [S -> Scores]
    BY <1>1 DEF Lists
  <2>2. IsFiniteSet(S)
    BY FusionAssumption, FS_Subset
  <2> QED
    BY <2>1, <2>2, FusionAssumption DEF ScoreList
<1> QED
  BY <1>1, FusionAssumption DEF TypeOK, Fusable, Normalizes

LEMMA InitFusion == Init => FusionInv
BY DEF Init, FusionInv, TypeOK

LEMMA NextFusion == FusionInv /\ [Next]_vars => FusionInv'
<1>1. SUFFICES ASSUME FusionInv, [Next]_vars PROVE FusionInv'
  OBVIOUS
<1>2. CASE Fuse
  <2>1. /\ normalization' = normalization /\ weights' = weights
        /\ dense' = dense /\ lexical' = lexical
    BY <1>2 DEF Fuse
  <2>2. FusedOrders(dense, lexical)' = FusedOrders(dense, lexical)
    BY <2>1 DEF FusedOrders, Sorted, Ahead, Compare, Numerator, Radicand
  <2>3. fused' \in FusedOrders(dense, lexical)
    BY <1>2 DEF Fuse
  <2>4. fused' \in SetToSeqs(Pooled)
    BY <2>3 DEF FusedOrders, Pooled
  <2> QED
    BY <1>1, <2>1, <2>2, <2>3, <2>4 DEF FusionInv, TypeOK, Pooled
<1>3. CASE UNCHANGED vars
  <2>1. /\ normalization' = normalization /\ weights' = weights
        /\ dense' = dense /\ lexical' = lexical /\ fused' = fused
    BY <1>3 DEF vars
  <2>2. FusedOrders(dense, lexical)' = FusedOrders(dense, lexical)
    BY <2>1 DEF FusedOrders, Sorted, Ahead, Compare, Numerator, Radicand
  <2> QED
    BY <1>1, <2>1, <2>2 DEF FusionInv, TypeOK, Pooled
<1> QED
  BY <1>1, <1>2, <1>3 DEF Next, Fused

LEMMA AlwaysFusionInv == Spec => []FusionInv
BY InitFusion, NextFusion, PTL DEF Spec

\* Types are respected: the result has every chunk of the two lists once.
THEOREM TypeCorrect == Spec => []TypeOK
<1>1. FusionInv => TypeOK
  BY DEF FusionInv
<1> QED
  BY <1>1, AlwaysFusionInv, PTL

\* Any two lists have exactly one fused order, in whatever order the set of their
\* ids is iterated: ties and missing scores leave nothing undecided.
THEOREM OrderIsDetermined == Spec => []OneOrder
<1>1. FusionInv => OneOrder
  <2>1. SUFFICES ASSUME TypeOK PROVE OneOrder
    BY DEF FusionInv
  <2>2. PICK s : FusedOrders(dense, lexical) = {s}
    <3>1. DOMAIN dense \cup DOMAIN lexical \subseteq Int
      BY <2>1, TypesFusable
    <3> QED
      BY <2>1, <3>1, TypesFusable, OneFusedOrder
  <2> QED
    BY <2>2, FS_Singleton DEF OneOrder
<1> QED
  BY <1>1, AlwaysFusionInv, PTL

\* A chunk that is nowhere worse than another one and somewhere better, or has the
\* smaller id, comes first.
THEOREM BetterComesFirst == Spec => []BetterFirst
<1>1. FusionInv => BetterFirst
  <2> SUFFICES ASSUME FusionInv, fused # NotFused,
                      NEW b \in Pooled, NEW c \in Pooled, b # c,
                      weights.dense >= 0, weights.lexical >= 0,
                      NoWorse(dense, b, c), NoWorse(lexical, b, c),
                      normalization = "zscore" => SameLists(b, c),
                      \/ weights.dense > 0 /\ Better(dense, b, c)
                      \/ weights.lexical > 0 /\ Better(lexical, b, c)
                      \/ b < c
               PROVE  Before(b, c)
    BY DEF BetterFirst
  <2>1. /\ Fusable(dense, lexical) /\ weights.dense \in Int /\ weights.lexical \in Int
        /\ b \in Int /\ c \in Int
    BY TypesFusable DEF FusionInv, Pooled, Fusable
  <2> DEFINE p == Lead(weights.dense, dense, b, c)
             q == Lead(weights.lexical, lexical, b, c)
  <2>2. /\ p \in Int /\ p >= 0
        /\ weights.dense > 0 /\ Better(dense, b, c) => p > 0
    <3> DEFINE x == Numerator(dense, b)
               y == Numerator(dense, c)
               w == weights.dense
    <3>1. x \in Int /\ y \in Int /\ x >= y /\ (Better(dense, b, c) => x > y)
      BY <2>1, NormalizedType, NormalizedOrder DEF Fusable, SameLists
    <3>2. w \in Int /\ w >= 0
      BY <2>1
    <3> HIDE DEF x, y, w
    <3>3. w * (x - y) \in Int /\ w * (x - y) >= 0 /\ (w > 0 /\ x > y => w * (x - y) > 0)
      BY <3>1, <3>2
    <3> QED
      BY <3>1, <3>3 DEF x, y, w, Lead
  <2>3. /\ q \in Int /\ q >= 0
        /\ weights.lexical > 0 /\ Better(lexical, b, c) => q > 0
    <3> DEFINE x == Numerator(lexical, b)
               y == Numerator(lexical, c)
               w == weights.lexical
    <3>1. x \in Int /\ y \in Int /\ x >= y /\ (Better(lexical, b, c) => x > y)
      BY <2>1, NormalizedType, NormalizedOrder DEF Fusable, SameLists
    <3>2. w \in Int /\ w >= 0
      BY <2>1
    <3> HIDE DEF x, y, w
    <3>3. w * (x - y) \in Int /\ w * (x - y) >= 0 /\ (w > 0 /\ x > y => w * (x - y) > 0)
      BY <3>1, <3>2
    <3> QED
      BY <3>1, <3>3 DEF x, y, w, Lead
  <2> DEFINE m == Compare(dense, lexical, b, c)
  <2>4. m = p + q
    <3>1. Radicand(dense) \in Nat \ {0} /\ Radicand(lexical) \in Nat \ {0}
      BY <2>1, NormalizedType DEF Fusable
    <3> HIDE DEF p, q
    <3> QED
      BY <2>2, <2>3, <3>1, CompareIsSign, SignFacts DEF p, q
  <2>5. m >= 0 /\ (m > 0 \/ b < c)
    <3> HIDE DEF p, q, m
    <3> QED
      BY <2>2, <2>3, <2>4
  <2>6. Compare(dense, lexical, c, b) = - m /\ m \in Int
    BY <2>1, CompareFacts
  <2>7. ~ Ahead(dense, lexical, c, b)
    <3> HIDE DEF m
    <3> QED
      BY <2>1, <2>5, <2>6 DEF Ahead
  <2>8. fused \in Bijection(1 .. Cardinality(Pooled), Pooled)
    <3>1. IsFiniteSet(Pooled)
      BY <2>1, FS_Union DEF Fusable, ScoreList, Pooled
    <3> QED
      BY <3>1, ListingFacts DEF FusionInv, TypeOK
  <2>9. DOMAIN fused = 1 .. Cardinality(Pooled)
    BY <2>8 DEF Bijection, Injection
  <2>10. PICK i \in DOMAIN fused, j \in DOMAIN fused : fused[i] = b /\ fused[j] = c
    BY <2>8, <2>9 DEF Bijection, Surjection
  <2>11. ~ (j < i)
    BY <2>7, <2>10 DEF FusionInv, FusedOrders, Sorted
  <2>12. i \in Int /\ j \in Int /\ i # j
    BY <2>9, <2>10
  <2> QED
    BY <2>10, <2>11, <2>12 DEF Before
<1> QED
  BY <1>1, AlwaysFusionInv, PTL

\* However the scores of a list are stretched and shifted, the result is the same.
THEOREM ScalesDoNotMatter == Spec => []ScaleFree
<1>1. FusionInv => ScaleFree
  <2>1. SUFFICES ASSUME FusionInv, fused # NotFused, NEW k \in Factors, NEW o \in Offsets
                 PROVE  /\ fused \in FusedOrders(Rescaled(dense, k, o), lexical)
                        /\ fused \in FusedOrders(dense, Rescaled(lexical, k, o))
    BY DEF ScaleFree
  <2>2. k \in Nat \ {0} /\ o \in Int
    BY FusionAssumption
  <2>3. Fusable(dense, lexical)
    BY <2>1, TypesFusable DEF FusionInv
  <2> QED
    BY <2>1, <2>2, <2>3, OrdersRescaled DEF FusionInv
<1> QED
  BY <1>1, AlwaysFusionInv, PTL
=================================================================================
