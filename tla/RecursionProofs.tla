--------------------------- MODULE RecursionProofs ---------------------------
(***************************************************************************)
(* Induction and recursion over the natural numbers, for sets: the         *)
(* theorems of the library that take an operator cannot be instantiated.   *)
(***************************************************************************)
EXTENDS Integers, FiniteSetTheorems, WellFoundedInduction, TLAPS

LEMMA SetInduction ==
  ASSUME NEW S, 0 \in S, \A n \in Nat : n \in S => n + 1 \in S
  PROVE  Nat \subseteq S
<1>. SUFFICES ASSUME Nat \ S # {} PROVE FALSE
  OBVIOUS
<1>. DEFINE T    == Nat \ S
            Less == { p \in Nat \X Nat : p[1] < p[2] }
<1>1. IsWellFoundedOn(Less, Nat)
  BY NatLessThanWellFounded DEF OpToRel
<1>2. T \subseteq Nat /\ T # {}
  OBVIOUS
<1>. HIDE DEF T, Less
<1>3. PICK x \in T : \A y \in T : ~ (<<y, x>> \in Less)
  BY <1>1, <1>2, WFMin
<1>4. x \in Nat /\ x # 0 /\ x \notin S
  BY DEF T
<1>5. x - 1 \in Nat /\ <<x - 1, x>> \in Less
  BY <1>4 DEF Less
<1>6. x - 1 \in S
  BY <1>3, <1>5 DEF T
<1>7. (x - 1) + 1 \in S /\ (x - 1) + 1 = x
  BY <1>4, <1>5, <1>6
<1>. QED BY <1>4, <1>7

\* The first n values of a sequence defined by recursion.
Begins(f, n, T, a, g) ==
  f \in [0..n -> T] /\ f[0] = a /\ \A i \in 0..(n - 1) : f[i + 1] = g[i][f[i]]

LEMMA BeginningsAgree ==
  ASSUME NEW T, NEW a \in T, NEW g \in [Nat -> [T -> T]], NEW n \in Nat, NEW m \in Nat,
         NEW f, NEW h, Begins(f, n, T, a, g), Begins(h, m, T, a, g)
  PROVE  \A i \in 0..n : i <= m => f[i] = h[i]
<1>. DEFINE S == { i \in Nat : i <= n /\ i <= m => f[i] = h[i] }
<1>1. 0 \in S
  BY DEF Begins
<1>2. ASSUME NEW i \in Nat, i \in S PROVE i + 1 \in S
  <2>. SUFFICES ASSUME i + 1 <= n, i + 1 <= m PROVE f[i + 1] = h[i + 1]
    OBVIOUS
  <2>1. i \in 0..(n - 1) /\ i \in 0..(m - 1)
    OBVIOUS
  <2>2. f[i] = h[i]
    BY <1>2
  <2>. QED BY <2>1, <2>2 DEF Begins
<1>. HIDE DEF S
<1>3. Nat \subseteq S
  BY <1>1, <1>2, SetInduction
<1>. QED BY <1>3 DEF S

LEMMA Recursion ==
  ASSUME NEW T, NEW a \in T, NEW g \in [Nat -> [T -> T]]
  PROVE  \E f \in [Nat -> T] : f[0] = a /\ \A n \in Nat : f[n + 1] = g[n][f[n]]
<1>. DEFINE S == { n \in Nat : \E f : Begins(f, n, T, a, g) }
<1>1. 0 \in S
  <2>1. Begins([i \in 0..0 |-> a], 0, T, a, g)
    BY DEF Begins
  <2>. QED BY <2>1
<1>2. ASSUME NEW n \in Nat, n \in S PROVE n + 1 \in S
  <2>. PICK f : Begins(f, n, T, a, g)
    BY <1>2
  <2>. DEFINE h == [i \in 0..(n + 1) |-> IF i = n + 1 THEN g[n][f[n]] ELSE f[i]]
  <2>1. f \in [0..n -> T] /\ f[0] = a /\ \A i \in 0..(n - 1) : f[i + 1] = g[i][f[i]]
    BY DEF Begins
  <2>2. f[n] \in T /\ g[n][f[n]] \in T
    BY <2>1
  <2>3. \A i \in 0..(n + 1) : h[i] \in T
    BY <2>1, <2>2
  <2>4. \A i \in 0..n : h[i + 1] = g[i][h[i]]
    BY <2>1, <2>2
  <2>5. h \in [0..(n + 1) -> T] /\ h[0] = a
    BY <2>1, <2>3
  <2>6. (n + 1) - 1 = n
    OBVIOUS
  <2>. HIDE DEF h
  <2>7. Begins(h, n + 1, T, a, g)
    BY <2>4, <2>5, <2>6 DEF Begins
  <2>. QED BY <2>7
<1>. DEFINE f == [n \in Nat |-> (CHOOSE h : Begins(h, n, T, a, g))[n]]
<1>3. \A n \in Nat : \E h : Begins(h, n, T, a, g) /\ f[n] = h[n]
  <2>1. Nat \subseteq S
    <3>. HIDE DEF S
    <3>. QED BY <1>1, <1>2, SetInduction
  <2>. QED BY <2>1
<1>. HIDE DEF f, S
<1>4. ASSUME NEW n \in Nat PROVE f[n] \in T
  <2>1. PICK h : Begins(h, n, T, a, g) /\ f[n] = h[n]
    BY <1>3
  <2>2. h \in [0..n -> T] /\ n \in 0..n
    BY <2>1 DEF Begins
  <2>. QED BY <2>1, <2>2
<1>5. f[0] = a
  BY <1>3 DEF Begins
<1>6. ASSUME NEW n \in Nat PROVE f[n + 1] = g[n][f[n]]
  <2>1. PICK h : Begins(h, n, T, a, g) /\ f[n] = h[n]
    BY <1>3
  <2>2. PICK k : Begins(k, n + 1, T, a, g) /\ f[n + 1] = k[n + 1]
    BY <1>3
  <2>3. n \in 0..n /\ n <= n + 1 /\ n \in 0..((n + 1) - 1)
    OBVIOUS
  <2>4. h[n] = k[n]
    BY <2>1, <2>2, <2>3, BeginningsAgree
  <2>5. k[n + 1] = g[n][k[n]]
    BY <2>2, <2>3 DEF Begins
  <2>. QED BY <2>1, <2>2, <2>4, <2>5
<1>7. f = [n \in Nat |-> f[n]]
  BY DEF f
<1>. QED BY <1>4, <1>5, <1>6, <1>7

\* The same, in a form the provers can instantiate with a set of functions.
Rules(T)  == [Nat -> [T -> T]]
Values(T) == [Nat -> T]

LEMMA Solutions ==
  \A T : \A a \in T : \A g \in Rules(T) :
    \E f \in Values(T) : f[0] = a /\ \A n \in Nat : f[n + 1] = g[n][f[n]]
BY Recursion DEF Rules, Values

\* Sets that grow within a finite one have grown after as many steps as it has
\* members, if they do not grow again after a step without growth.
LEMMA GrowthEnds ==
  ASSUME NEW D, IsFiniteSet(D), NEW f \in [Nat -> SUBSET D],
         \A n \in Nat : f[n] \subseteq f[n + 1],
         \A n \in Nat : f[n + 1] = f[n] => f[(n + 1) + 1] = f[n + 1]
  PROVE  \A m \in Nat : f[m] \subseteq f[Cardinality(D)]
<1>. DEFINE N == Cardinality(D)
            S == { n \in Nat : f[n + 1] = f[n] \/ Cardinality(f[n + 1]) >= n + 1 }
<1>1. N \in Nat
  BY FS_CardinalityType
<1>2. ASSUME NEW n \in Nat
      PROVE  IsFiniteSet(f[n]) /\ Cardinality(f[n]) \in Nat /\ Cardinality(f[n]) <= N
  <2>1. f[n] \in SUBSET D
    OBVIOUS
  <2>. QED BY <2>1, FS_Subset, FS_CardinalityType
<1>3. ASSUME NEW n \in Nat, f[n + 1] # f[n]
      PROVE  Cardinality(f[n + 1]) >= Cardinality(f[n]) + 1
  <2>0. n + 1 \in Nat
    OBVIOUS
  <2>1. f[n] \in SUBSET f[n + 1]
    OBVIOUS
  <2>2. IsFiniteSet(f[n + 1]) /\ Cardinality(f[n]) \in Nat /\ Cardinality(f[n + 1]) \in Nat
    BY <1>2, <2>0
  <2>3. /\ Cardinality(f[n]) <= Cardinality(f[n + 1])
        /\ Cardinality(f[n]) # Cardinality(f[n + 1])
    BY <1>3, <2>1, <2>2, FS_Subset
  <2>. QED BY <2>2, <2>3
<1>4. 0 \in S
  <2>1. f[0 + 1] # f[0] => Cardinality(f[0 + 1]) >= Cardinality(f[0]) + 1
    BY <1>3
  <2>2. Cardinality(f[0]) \in Nat /\ Cardinality(f[0 + 1]) \in Nat
    BY <1>2
  <2>. QED BY <2>1, <2>2
<1>5. ASSUME NEW n \in Nat, n \in S PROVE n + 1 \in S
  <2>0. n + 1 \in Nat /\ (n + 1) + 1 \in Nat
    OBVIOUS
  <2>1. CASE f[n + 1] = f[n]
    BY <2>0, <2>1
  <2>2. CASE Cardinality(f[n + 1]) >= n + 1
    <3>1. f[(n + 1) + 1] # f[n + 1] => Cardinality(f[(n + 1) + 1]) >= Cardinality(f[n + 1]) + 1
      BY <1>3, <2>0
    <3>2. Cardinality(f[n + 1]) \in Nat /\ Cardinality(f[(n + 1) + 1]) \in Nat
      BY <1>2, <2>0
    <3>. QED BY <2>0, <2>2, <3>1, <3>2
  <2>. QED BY <1>5, <2>1, <2>2
<1>6. f[N + 1] = f[N]
  <2>. HIDE DEF N
  <2>1. N \in S
    <3>. HIDE DEF S
    <3>1. Nat \subseteq S
      BY <1>4, <1>5, SetInduction
    <3>. QED BY <1>1, <3>1
  <2>2. Cardinality(f[N + 1]) \in Nat /\ Cardinality(f[N + 1]) <= N
    BY <1>1, <1>2
  <2>. QED BY <1>1, <2>1, <2>2
<1>. DEFINE R == { k \in Nat : f[(N + k) + 1] = f[N + k] /\ f[N + k] = f[N] }
<1>. HIDE DEF N
<1>7. 0 \in R
  BY <1>1, <1>6
<1>8. ASSUME NEW k \in Nat, k \in R PROVE k + 1 \in R
  <2>1. N + k \in Nat /\ N + (k + 1) = (N + k) + 1
    BY <1>1
  <2>. QED BY <1>8, <2>1
<1>. DEFINE Q == { k \in Nat : \A m \in 0..k : f[m] \subseteq f[k] }
<1>9. 0 \in Q
  OBVIOUS
<1>10. ASSUME NEW k \in Nat, k \in Q PROVE k + 1 \in Q
  <2>1. f[k] \subseteq f[k + 1] /\ \A m \in 0..(k + 1) : m \in 0..k \/ m = k + 1
    OBVIOUS
  <2>. QED BY <1>10, <2>1
<1>. HIDE DEF Q, R
<1>11. Nat \subseteq R /\ Nat \subseteq Q
  BY <1>7, <1>8, <1>9, <1>10, SetInduction
<1>12. ASSUME NEW m \in Nat PROVE f[m] \subseteq f[N]
  <2>1. CASE m <= N
    BY <1>1, <1>11, <2>1 DEF Q
  <2>2. CASE ~(m <= N)
    <3>1. m - N \in Nat /\ N + (m - N) = m
      BY <1>1, <2>2
    <3>2. f[N + (m - N)] = f[N]
      BY <1>11, <3>1 DEF R
    <3>. QED BY <3>1, <3>2
  <2>. QED BY <2>1, <2>2
<1>. QED BY <1>12 DEF N

\* A set of numbers that is not empty has a least one.
LEMMA Least ==
  ASSUME NEW S \in SUBSET Nat, S # {}
  PROVE  \E n \in S : \A m \in S : n <= m
<1>. DEFINE Less == { p \in Nat \X Nat : p[1] < p[2] }
<1>1. IsWellFoundedOn(Less, Nat)
  BY NatLessThanWellFounded DEF OpToRel
<1>. HIDE DEF Less
<1>2. PICK x \in S : \A y \in S : ~ (<<y, x>> \in Less)
  BY <1>1, WFMin
<1>3. ASSUME NEW y \in S PROVE x <= y
  <2>1. x \in Nat /\ y \in Nat
    OBVIOUS
  <2>2. ~(y < x)
    BY <1>2, <2>1 DEF Less
  <2>. QED BY <2>1, <2>2
<1>. QED BY <1>3
=============================================================================
