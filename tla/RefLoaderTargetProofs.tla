------------------------ MODULE RefLoaderTargetProofs ------------------------
(***************************************************************************)
(* Theorems about RefLoader that compare what the loader does with what    *)
(* the references mean: with Follow, which is defined by recursion.        *)
(***************************************************************************)
EXTENDS RefLoaderProofs, RecursionProofs

(***************************************************************************)
(* What a reference means.                                                 *)
(***************************************************************************)
\* A location that is defined, and the location it refers to.
Known(l)   == l.name = Root \/ Defines(l.uri, l.name)
RefAt(l)   == ShapeAt(l.uri, l.name).ref
NextLoc(l) == LocOf(RefAt(l), l.uri)

FollowStep(h) == [l \in Loc |-> IF ~Known(l) THEN NoLoc
                                ELSE IF RefAt(l) = Nil THEN l ELSE h[NextLoc(l)]]

LEMMA NextLocType ==
  ASSUME WorldOK, NEW l \in Loc, Known(l), RefAt(l) # Nil
  PROVE  NextLoc(l) \in Loc /\ RefAt(l) \in Ref /\ l.name \in Names
<1>1. l.uri \in Uris /\ l.name \in Names \cup {Root}
  BY DEF Loc
<1>2. ShapeAt(l.uri, l.name) \in Shape
  BY <1>1, ShapeTypes DEF Known
<1>3. RefAt(l) \in Ref
  BY <1>2, KidsType DEF RefAt
<1>4. l.name # Root
  BY <1>1, ShapeTypes DEF RefAt
<1>. QED BY <1>1, <1>3, <1>4, RefParts DEF NextLoc, LocOf, FileOf, Loc

\* Follow is what its definition says: the equation has a solution.
LEMMA FollowIs ==
  ASSUME WorldOK
  PROVE  /\ Follow[0] = FollowStep([l \in Loc |-> NoLoc])
         /\ \A n \in Nat : Follow[n + 1] = FollowStep(Follow[n])
         /\ \A n \in Nat : Follow[n] \in [Loc -> Loc \cup {NoLoc}]
<1>. DEFINE Eq(f) == f = [n \in Nat |-> [l \in Loc |->
               IF l.name # Root /\ ~Defines(l.uri, l.name) THEN NoLoc
               ELSE LET r == ShapeAt(l.uri, l.name).ref IN
                    IF r = Nil THEN l
                    ELSE IF n = 0 THEN NoLoc ELSE f[n - 1][LocOf(r, l.uri)]]]
            T == [Loc -> Loc \cup {NoLoc}]
            a == FollowStep([l \in Loc |-> NoLoc])
            g == [n \in Nat |-> [h \in T |-> FollowStep(h)]]
<1>1. \A h \in T : FollowStep(h) \in T
  BY NextLocType DEF FollowStep
<1>2. a \in T /\ g \in [Nat -> [T -> T]]
  BY <1>1
<1>. HIDE DEF T, a
<1>3. PICK f \in [Nat -> T] : f[0] = a /\ \A n \in Nat : f[n + 1] = g[n][f[n]]
  <2>1. g \in Rules(T)
    BY <1>2 DEF Rules
  <2>. HIDE DEF g, Eq
  <2>2. \E f \in Values(T) : f[0] = a /\ \A n \in Nat : f[n + 1] = g[n][f[n]]
    BY <1>2, <2>1, Solutions
  <2>. QED BY <2>2 DEF Values
<1>4. \A n \in Nat : f[n + 1] = FollowStep(f[n])
  BY <1>3
<1>5. \A n \in Nat : f[n] = IF n = 0 THEN a ELSE FollowStep(f[n - 1])
  <2>. SUFFICES ASSUME NEW n \in Nat, n # 0 PROVE f[n] = FollowStep(f[n - 1])
    BY <1>3
  <2>1. n - 1 \in Nat /\ (n - 1) + 1 = n
    OBVIOUS
  <2>. QED BY <1>4, <2>1
<1>6. Eq(f)
  <2>. DEFINE rhs(n) == [l \in Loc |->
               IF l.name # Root /\ ~Defines(l.uri, l.name) THEN NoLoc
               ELSE LET r == ShapeAt(l.uri, l.name).ref IN
                    IF r = Nil THEN l
                    ELSE IF n = 0 THEN NoLoc ELSE f[n - 1][LocOf(r, l.uri)]]
  <2>1. ASSUME NEW n \in Nat PROVE f[n] = rhs(n)
    <3>1. CASE n = 0
      <4>1. a = rhs(n)
        <5>1. \A l \in Loc : Known(l) /\ RefAt(l) # Nil => NextLoc(l) \in Loc
          BY NextLocType
        <5>. QED BY <3>1, <5>1 DEF a, FollowStep, Known, RefAt, NextLoc
      <4>. QED BY <1>5, <3>1, <4>1
    <3>2. CASE n # 0
      <4>1. FollowStep(f[n - 1]) = rhs(n)
        BY <3>2 DEF FollowStep, Known, RefAt, NextLoc
      <4>. QED BY <1>5, <3>2, <4>1
    <3>. QED BY <3>1, <3>2
  <2>. HIDE DEF rhs
  <2>2. f = [n \in Nat |-> rhs(n)]
    BY <1>3, <2>1
  <2>. QED BY <2>2 DEF rhs
<1>7. Follow = CHOOSE F : Eq(F)
  BY DEF Follow
<1>. HIDE DEF Eq
<1>8. Eq(Follow)
  BY <1>6, <1>7
<1>9. \A n \in Nat : Follow[n] = IF n = 0 THEN a ELSE FollowStep(Follow[n - 1])
  <2>. DEFINE rhs(n) == [l \in Loc |->
               IF l.name # Root /\ ~Defines(l.uri, l.name) THEN NoLoc
               ELSE LET r == ShapeAt(l.uri, l.name).ref IN
                    IF r = Nil THEN l
                    ELSE IF n = 0 THEN NoLoc ELSE Follow[n - 1][LocOf(r, l.uri)]]
  <2>1. Follow = [n \in Nat |-> rhs(n)]
    BY <1>8 DEF Eq
  <2>2. \A n \in Nat : Follow[n] = rhs(n)
    <3>. HIDE DEF rhs
    <3>. QED BY <2>1
  <2>3. ASSUME NEW n \in Nat PROVE rhs(n) = IF n = 0 THEN a ELSE FollowStep(Follow[n - 1])
    <3>1. CASE n = 0
      <4>1. \A l \in Loc : Known(l) /\ RefAt(l) # Nil => NextLoc(l) \in Loc
        BY NextLocType
      <4>. QED BY <3>1, <4>1 DEF a, FollowStep, Known, RefAt, NextLoc
    <3>2. CASE n # 0
      BY <3>2 DEF FollowStep, Known, RefAt, NextLoc
    <3>. QED BY <3>1, <3>2
  <2>. HIDE DEF rhs
  <2>. QED BY <2>2, <2>3
<1>10. \A n \in Nat : Follow[n + 1] = FollowStep(Follow[n])
  <2>. SUFFICES ASSUME NEW n \in Nat PROVE Follow[n + 1] = FollowStep(Follow[n])
    OBVIOUS
  <2>1. n + 1 \in Nat /\ n + 1 # 0 /\ (n + 1) - 1 = n
    OBVIOUS
  <2>. QED BY <1>9, <2>1
<1>. DEFINE S == { n \in Nat : Follow[n] \in T }
<1>11. 0 \in S
  BY <1>2, <1>9
<1>12. ASSUME NEW n \in Nat, n \in S PROVE n + 1 \in S
  BY <1>1, <1>10, <1>12
<1>. HIDE DEF S
<1>13. Nat \subseteq S
  BY <1>11, <1>12, SetInduction
<1>. QED BY <1>9, <1>10, <1>13 DEF S, T, a

LEMMA NoLocApart == NoLoc \notin Loc
BY NullsAssumption DEF NoLoc, Loc

LEMMA FollowType ==
  ASSUME WorldOK, NEW n \in Nat, NEW l \in Loc
  PROVE  Follow[n][l] \in Loc \cup {NoLoc}
BY FollowIs

LEMMA FollowUnfold ==
  ASSUME WorldOK, NEW l \in Loc
  PROVE  /\ Follow[0][l] = IF Known(l) /\ RefAt(l) = Nil THEN l ELSE NoLoc
         /\ \A n \in Nat : Follow[n + 1][l] =
              IF ~Known(l) THEN NoLoc ELSE IF RefAt(l) = Nil THEN l ELSE Follow[n][NextLoc(l)]
<1>1. Follow[0][l] = IF Known(l) /\ RefAt(l) = Nil THEN l ELSE NoLoc
  <2>1. Follow[0][l] = FollowStep([k \in Loc |-> NoLoc])[l]
    BY FollowIs
  <2>2. Known(l) /\ RefAt(l) # Nil => NextLoc(l) \in Loc
    BY NextLocType
  <2>. QED BY <2>1, <2>2 DEF FollowStep
<1>2. ASSUME NEW n \in Nat
      PROVE  Follow[n + 1][l] = IF ~Known(l) THEN NoLoc
                                ELSE IF RefAt(l) = Nil THEN l ELSE Follow[n][NextLoc(l)]
  <2>1. Follow[n + 1][l] = FollowStep(Follow[n])[l]
    BY FollowIs
  <2>. QED BY <2>1 DEF FollowStep
<1>. QED BY <1>1, <1>2

\* More references may be followed than there are.
LEMMA FollowMore ==
  ASSUME WorldOK, NEW n \in Nat, NEW l \in Loc, Follow[n][l] # NoLoc
  PROVE  Follow[n + 1][l] = Follow[n][l]
<1>. DEFINE S == { k \in Nat : \A j \in Loc : Follow[k][j] # NoLoc => Follow[k + 1][j] = Follow[k][j] }
<1>1. 0 \in S
  BY FollowUnfold, 0 \in Nat, 0 + 1 = 1
<1>2. ASSUME NEW k \in Nat, k \in S PROVE k + 1 \in S
  <2>. SUFFICES ASSUME NEW j \in Loc, Follow[k + 1][j] # NoLoc
                PROVE  Follow[(k + 1) + 1][j] = Follow[k + 1][j]
    OBVIOUS
  <2>1. k + 1 \in Nat
    OBVIOUS
  <2>2. Known(j)
    BY FollowUnfold
  <2>3. CASE RefAt(j) = Nil
    BY <2>1, <2>2, <2>3, FollowUnfold
  <2>4. CASE RefAt(j) # Nil
    <3>1. NextLoc(j) \in Loc
      BY <2>2, <2>4, NextLocType
    <3>2. Follow[k + 1][j] = Follow[k][NextLoc(j)]
          /\ Follow[(k + 1) + 1][j] = Follow[k + 1][NextLoc(j)]
      BY <2>1, <2>2, <2>4, FollowUnfold
    <3>. QED BY <1>2, <3>1, <3>2
  <2>. QED BY <2>3, <2>4
<1>. HIDE DEF S
<1>3. Nat \subseteq S
  BY <1>1, <1>2, SetInduction
<1>. QED BY <1>3 DEF S

LEMMA FollowLonger ==
  ASSUME WorldOK, NEW n \in Nat, NEW m \in Nat, n <= m, NEW l \in Loc, Follow[n][l] # NoLoc
  PROVE  Follow[m][l] = Follow[n][l]
<1>. DEFINE S == { k \in Nat : n <= k => Follow[k][l] = Follow[n][l] }
<1>1. 0 \in S
  <2>1. n <= 0 => n = 0
    OBVIOUS
  <2>. QED BY <2>1
<1>2. ASSUME NEW k \in Nat, k \in S PROVE k + 1 \in S
  <2>1. n <= k + 1 => n = k + 1 \/ n <= k
    OBVIOUS
  <2>2. n <= k => Follow[k + 1][l] = Follow[n][l]
    BY <1>2, FollowMore
  <2>. QED BY <2>1, <2>2
<1>. HIDE DEF S
<1>3. Nat \subseteq S
  BY <1>1, <1>2, SetInduction
<1>. QED BY <1>3 DEF S

\* The location l leads to the object t through any number of references.
Leads(l, t) == t # NoLoc /\ \E n \in Nat : Follow[n][l] = t

LEMMA LeadsOnce ==
  ASSUME WorldOK, NEW l \in Loc, NEW t, NEW u, Leads(l, t), Leads(l, u)
  PROVE  t = u
<1>1. PICK n \in Nat : Follow[n][l] = t
  BY DEF Leads
<1>2. PICK m \in Nat : Follow[m][l] = u
  BY DEF Leads
<1>3. n <= m \/ m <= n
  OBVIOUS
<1>. QED BY <1>1, <1>2, <1>3, FollowLonger DEF Leads

LEMMA LeadsSteps ==
  ASSUME WorldOK, NEW l \in Loc, NEW t
  PROVE  /\ Leads(l, t) => Known(l)
         /\ Known(l) /\ RefAt(l) = Nil => (Leads(l, t) <=> t = l)
         /\ Known(l) /\ RefAt(l) # Nil => (Leads(l, t) <=> Leads(NextLoc(l), t))
<1>0. \A n \in Nat : n = 0 \/ \E m \in Nat : n = m + 1
  <2>. SUFFICES ASSUME NEW n \in Nat, n # 0 PROVE \E m \in Nat : n = m + 1
    OBVIOUS
  <2>1. n - 1 \in Nat /\ n = (n - 1) + 1
    OBVIOUS
  <2>. QED BY <2>1
<1>1. Leads(l, t) => Known(l)
  BY <1>0, FollowUnfold DEF Leads
<1>2. ASSUME Known(l), RefAt(l) = Nil PROVE Leads(l, t) <=> t = l
  <2>1. \A n \in Nat : Follow[n][l] = l
    BY <1>0, <1>2, FollowUnfold
  <2>. QED BY <2>1, NoLocApart, 0 \in Nat DEF Leads
<1>3. ASSUME Known(l), RefAt(l) # Nil PROVE Leads(l, t) <=> Leads(NextLoc(l), t)
  <2>1. Follow[0][l] = NoLoc
    BY <1>3, FollowUnfold
  <2>2. \A n \in Nat : Follow[n + 1][l] = Follow[n][NextLoc(l)]
    BY <1>3, FollowUnfold
  <2>3. ASSUME Leads(l, t) PROVE Leads(NextLoc(l), t)
    <3>1. PICK n \in Nat : Follow[n][l] = t
      BY <2>3 DEF Leads
    <3>2. PICK m \in Nat : n = m + 1
      BY <1>0, <2>1, <2>3, <3>1 DEF Leads
    <3>. QED BY <2>2, <2>3, <3>1, <3>2 DEF Leads
  <2>4. ASSUME Leads(NextLoc(l), t) PROVE Leads(l, t)
    <3>1. PICK n \in Nat : Follow[n][NextLoc(l)] = t
      BY <2>4 DEF Leads
    <3>2. n + 1 \in Nat
      OBVIOUS
    <3>. QED BY <2>2, <2>4, <3>1, <3>2 DEF Leads
  <2>. QED BY <2>3, <2>4
<1>. QED BY <1>1, <1>2, <1>3

\* The reference locations that lead to an object after at most n references.
Reaching(n) == { p \in Uris \X Names :
                   LET l == [uri |-> p[1], name |-> p[2]]
                   IN  Follow[0][l] = NoLoc /\ Follow[n][l] # NoLoc }

LEMMA ReachingFinite ==
  ASSUME NEW n
  PROVE  /\ IsFiniteSet(Reaching(n)) /\ Cardinality(Reaching(n)) \in Nat
         /\ Cardinality(Uris) * Cardinality(Names) \in Nat
         /\ Cardinality(Reaching(n)) <= Cardinality(Uris) * Cardinality(Names)
<1>1. IsFiniteSet(Uris) /\ IsFiniteSet(Names)
  BY FilesAssumption
<1>2. /\ IsFiniteSet(Uris \X Names)
      /\ Cardinality(Uris \X Names) = Cardinality(Uris) * Cardinality(Names)
  BY <1>1, FS_Product
<1>3. Reaching(n) \in SUBSET (Uris \X Names)
  BY DEF Reaching
<1>4. IsFiniteSet(Reaching(n)) /\ Cardinality(Reaching(n)) <= Cardinality(Uris \X Names)
  BY <1>2, <1>3, FS_Subset
<1>5. Cardinality(Reaching(n)) \in Nat /\ Cardinality(Uris \X Names) \in Nat
  BY <1>2, <1>4, FS_CardinalityType
<1>. QED BY <1>2, <1>4, <1>5

\* One more reference leads nowhere that n references do not lead.
Enough(n) == \A l \in Loc : Follow[n + 1][l] # NoLoc => Follow[n][l] # NoLoc

LEMMA EnoughOnce ==
  ASSUME WorldOK, NEW n \in Nat
  PROVE  /\ Reaching(n) \subseteq Reaching(n + 1)
         /\ Reaching(n) = Reaching(n + 1) => Enough(n)
         /\ Enough(n) => Enough(n + 1)
<1>0. n + 1 \in Nat /\ 0 <= n /\ 0 \in Nat
  OBVIOUS
<1>1. Reaching(n) \subseteq Reaching(n + 1)
  <2>1. \A p \in Uris \X Names : [uri |-> p[1], name |-> p[2]] \in Loc
    BY DEF Loc
  <2>. QED BY <2>1, FollowMore DEF Reaching
<1>2. ASSUME Reaching(n) = Reaching(n + 1), NEW l \in Loc, Follow[n + 1][l] # NoLoc
      PROVE  Follow[n][l] # NoLoc
  <2>1. CASE Follow[0][l] # NoLoc
    BY <1>0, <2>1, FollowLonger
  <2>2. CASE Follow[0][l] = NoLoc
    <3>1. l.name # Root
      <4>1. l.uri \in Uris
        BY DEF Loc
      <4>2. l.name = Root => Known(l) /\ RefAt(l) = Nil
        BY <4>1, ShapeTypes DEF Known, RefAt
      <4>. QED BY <2>2, <4>2, FollowUnfold, NoLocApart
    <3>2. <<l.uri, l.name>> \in Uris \X Names /\ l = [uri |-> l.uri, name |-> l.name]
      BY <3>1 DEF Loc
    <3>3. <<l.uri, l.name>> \in Reaching(n + 1)
      BY <1>2, <2>2, <3>2 DEF Reaching
    <3>. QED BY <1>2, <3>2, <3>3 DEF Reaching
  <2>. QED BY <2>1, <2>2
<1>3. ASSUME Enough(n), NEW l \in Loc, Follow[(n + 1) + 1][l] # NoLoc
      PROVE  Follow[n + 1][l] # NoLoc
  <2>1. Known(l)
    BY <1>0, <1>3, FollowUnfold
  <2>2. CASE RefAt(l) = Nil
    BY <2>1, <2>2, FollowUnfold, NoLocApart
  <2>3. CASE RefAt(l) # Nil
    <3>1. NextLoc(l) \in Loc
      BY <2>1, <2>3, NextLocType
    <3>2. Follow[n + 1][l] = Follow[n][NextLoc(l)]
          /\ Follow[(n + 1) + 1][l] = Follow[n + 1][NextLoc(l)]
      BY <1>0, <2>1, <2>3, FollowUnfold
    <3>. QED BY <1>3, <3>1, <3>2 DEF Enough
  <2>. QED BY <2>2, <2>3
<1>. QED BY <1>1, <1>2, <1>3 DEF Enough

\* It is so after as many references as there are components.
LEMMA EnoughAtLast ==
  ASSUME WorldOK
  PROVE  Enough(Cardinality(Uris) * Cardinality(Names))
<1>. DEFINE S == { n \in Nat : Enough(n) \/ Cardinality(Reaching(n + 1)) >= n + 1 }
<1>1. ASSUME NEW n \in Nat, ~Enough(n)
      PROVE  Cardinality(Reaching(n + 1)) >= Cardinality(Reaching(n)) + 1
  <2>1. Reaching(n) \in SUBSET Reaching(n + 1) /\ Reaching(n) # Reaching(n + 1)
    BY <1>1, EnoughOnce
  <2>2. /\ Cardinality(Reaching(n)) <= Cardinality(Reaching(n + 1))
        /\ Cardinality(Reaching(n)) # Cardinality(Reaching(n + 1))
    BY <2>1, ReachingFinite, FS_Subset
  <2>. QED BY <2>2, ReachingFinite
<1>2. 0 \in S
  <2>1. Cardinality(Reaching(0)) \in Nat /\ Cardinality(Reaching(0 + 1)) \in Nat
    BY ReachingFinite
  <2>. QED BY <1>1, <2>1
<1>3. ASSUME NEW n \in Nat, n \in S PROVE n + 1 \in S
  <2>1. CASE Enough(n)
    BY <2>1, EnoughOnce
  <2>2. CASE Cardinality(Reaching(n + 1)) >= n + 1
    <3>0. n + 1 \in Nat
      OBVIOUS
    <3>1. Enough(n + 1) \/ Cardinality(Reaching((n + 1) + 1)) >= Cardinality(Reaching(n + 1)) + 1
      BY <1>1, <3>0
    <3>2. Cardinality(Reaching(n + 1)) \in Nat /\ Cardinality(Reaching((n + 1) + 1)) \in Nat
      BY ReachingFinite
    <3>. QED BY <2>2, <3>0, <3>1, <3>2
  <2>. QED BY <1>3, <2>1, <2>2
<1>. DEFINE N == Cardinality(Uris) * Cardinality(Names)
<1>4. N \in S
  <2>1. N \in Nat
    BY ReachingFinite
  <2>. HIDE DEF S, N
  <2>2. Nat \subseteq S
    BY <1>2, <1>3, SetInduction
  <2>. QED BY <2>1, <2>2
<1>5. Cardinality(Reaching(N + 1)) \in Nat /\ N \in Nat /\ Cardinality(Reaching(N + 1)) <= N
  BY ReachingFinite
<1>. HIDE DEF N
<1>6. ~(Cardinality(Reaching(N + 1)) >= N + 1)
  BY <1>5
<1>7. Enough(N)
  BY <1>4, <1>6
<1>. QED BY <1>7 DEF N

\* So Denotes, which follows that many, finds the object a reference leads to.
LEMMA LeadsDenotes ==
  ASSUME WorldOK, NEW l \in Loc, NEW t
  PROVE  Leads(l, t) <=> t # NoLoc /\ Follow[Cardinality(Uris) * Cardinality(Names)][l] = t
<1>. DEFINE N == Cardinality(Uris) * Cardinality(Names)
<1>1. N \in Nat
  BY ReachingFinite
<1>2. Enough(N)
  BY EnoughAtLast
<1>. HIDE DEF N
<1>. DEFINE S == { k \in Nat : Enough(N + k) /\ \A j \in Loc :
                                 Follow[N + k][j] # NoLoc => Follow[N][j] # NoLoc }
<1>3. 0 \in S
  BY <1>1, <1>2
<1>4. ASSUME NEW k \in Nat, k \in S PROVE k + 1 \in S
  <2>1. N + k \in Nat /\ (N + k) + 1 = N + (k + 1) /\ k + 1 \in Nat
    BY <1>1
  <2>2. Enough((N + k) + 1)
    BY <1>4, <2>1, EnoughOnce
  <2>3. \A j \in Loc : Follow[(N + k) + 1][j] # NoLoc => Follow[N][j] # NoLoc
    BY <1>4, <2>1 DEF Enough
  <2>. QED BY <2>1, <2>2, <2>3
<1>. HIDE DEF S
<1>5. Nat \subseteq S
  BY <1>3, <1>4, SetInduction
<1>6. ASSUME Leads(l, t) PROVE t # NoLoc /\ Follow[N][l] = t
  <2>1. PICK n \in Nat : Follow[n][l] = t /\ t # NoLoc
    BY <1>6 DEF Leads
  <2>2. CASE n <= N
    BY <1>1, <2>1, <2>2, FollowLonger
  <2>3. CASE ~(n <= N)
    <3>1. n - N \in Nat /\ N + (n - N) = n /\ N <= n
      BY <1>1, <2>3
    <3>2. Follow[N][l] # NoLoc
      BY <1>5, <2>1, <3>1 DEF S
    <3>. QED BY <1>1, <2>1, <3>1, <3>2, FollowLonger
  <2>. QED BY <2>2, <2>3
<1>7. ASSUME t # NoLoc, Follow[N][l] = t PROVE Leads(l, t)
  BY <1>1, <1>7 DEF Leads
<1>. QED BY <1>6, <1>7 DEF N

\* What references mean depends on the files only.
LEMMA SameMeaning ==
  ASSUME world' = world
  PROVE  /\ \A l, t : Leads(l, t)' = Leads(l, t) /\ Known(l)' = Known(l)
         /\ \A r, u : Denotes(r, u)' = Denotes(r, u)
BY DEF Leads, Known, Denotes, Follow, Defines, ShapeAt, LocOf, FileOf

(***************************************************************************)
(* The invariant of RightTarget.                                           *)
(***************************************************************************)
\* Where the component c, or the object c, is written.
Place(c) == [uri |-> c.uri, name |-> c.name]

\* What a component stands for: itself, or what its reference says.
Aim(c) == IF RefOf(c) = Nil THEN Place(c) ELSE LocOf(RefOf(c), c.uri)

\* Components are decoded from where they are defined,
Defined == \A c \in DOMAIN value : Known(Place(c))

\* their values are what they stand for,
Right(c) == value[c] # Nil => Leads(Aim(c), Place(value[c]))
AllRight == \A c \in DOMAIN value : Right(c)

\* a frame drills in the file its reference names, and copies from there what
\* the reference says,
Aims(f) ==
  f.fn = "resolveSchemaRef" =>
    /\ f.pc = "copy" => f.tmp.k = 0 /\ Place(f.tmp) = Aim(f.cell)
    /\ f.pc = "drill" /\ RefOf(f.cell).file # Here =>
         f.tdoc = RefOf(f.cell).file /\ f.tdoc \in visitedDocuments
Aiming == \A i \in DOMAIN stack : Aims(stack[i])

\* and a cached document has all its components.
Cached == \A u \in visitedDocuments : DocCells(u) \subseteq DOMAIN value

\* When only roots refer within themselves, such a reference is always resolved
\* in the context of its file, the root of the load,
InContext(f) ==
  /\ f.fn = "ResolveRefsIn" => f.doc = f.path /\ (RefersWithin(f.doc) => f.doc = root)
  /\ f.fn = "resolveSchemaRef" =>
       /\ RefersWithin(f.cell.uri) => f.cell.uri = root
       /\ f.pc # "children" /\ RefersWithin(f.cell.uri) => f.doc = root /\ f.path = root
       /\ f.pc = "children" /\ f.held # Nil /\ RefersWithin(f.held.uri) =>
            f.held.uri = root /\ f.doc = root /\ f.path = root
       /\ f.pc = "drill" /\ RefOf(f.cell).file = Here => f.tdoc = f.cell.uri

\* and its callbacks are of components of that file.
InRoot ==
  /\ \A i \in DOMAIN stack : InContext(stack[i])
  /\ \A r \in DOMAIN backtrack : \A c \in DOMAIN backtrack[r] :
       /\ RefersWithin(c.uri) => c.uri = root
       /\ backtrack[r][c] = Aim(c)

TargetInv ==
  /\ ValueInv /\ Defined /\ AllRight /\ Aiming /\ Cached
  /\ NoneDangling
  /\ NamesApart \/ (Rooted /\ InRoot)

LEMMA CellMeaning ==
  ASSUME WorldOK, NEW c \in Cells, Known(Place(c))
  PROVE  /\ Place(c) \in Loc /\ Aim(c) \in Loc
         /\ RefOf(c) = Nil => c.k = 0 /\ Leads(Aim(c), Place(c))
         /\ RefOf(c) # Nil => RefOf(c) \in Ref /\ RefOf(c) \in RefsIn(c.uri)
         /\ c.k = 0 => \A t : Leads(Place(c), t) <=> Leads(Aim(c), t)
<1>1. /\ c.uri \in Uris /\ c.name \in Names \cup {Root} /\ c.k \in Nat
      /\ c.k \in 0..Len(ShapeAt(c.uri, c.name).kids) /\ ShapeAt(c.uri, c.name) \in Shape
  BY DEF Cells, CellId
<1>2. RefOf(c) \in Ref \cup {Nil} /\ (c.k > 0 => RefOf(c) \in Ref) /\ Nil \notin Ref
  BY RefOfType, NullsAssumption
<1>3. Place(c) \in Loc /\ Aim(c) \in Loc
  BY <1>1, <1>2, RefParts DEF Place, Aim, Loc, LocOf, FileOf
<1>4. c.k = 0 => RefAt(Place(c)) = RefOf(c) /\ NextLoc(Place(c)) = LocOf(RefOf(c), c.uri)
  BY DEF RefAt, RefOf, NextLoc, Place
<1>5. ASSUME c.k = 0 PROVE \A t : Leads(Place(c), t) <=> Leads(Aim(c), t)
  <2>1. CASE RefOf(c) = Nil
    BY <2>1 DEF Aim
  <2>2. CASE RefOf(c) # Nil
    BY <1>3, <1>4, <1>5, <2>2, LeadsSteps DEF Aim
  <2>. QED BY <2>1, <2>2
<1>6. ASSUME RefOf(c) = Nil PROVE c.k = 0 /\ Leads(Aim(c), Place(c))
  <2>1. c.k = 0
    BY <1>1, <1>2, <1>6
  <2>. QED BY <1>3, <1>4, <1>6, <2>1, LeadsSteps DEF Aim
<1>7. ASSUME RefOf(c) # Nil PROVE RefOf(c) \in RefsIn(c.uri)
  <2>. DEFINE s      == ShapeAt(c.uri, c.name)
              shapes == { ShapeAt(c.uri, n) : n \in {Root} \cup { m \in Names : Defines(c.uri, m) } }
  <2>1. s \in shapes
    BY <1>1 DEF Known, Place
  <2>2. RefOf(c) \in ({s.ref} \ {Nil}) \cup { s.kids[i] : i \in DOMAIN s.kids }
    <3>1. c.k = 0 \/ c.k \in DOMAIN s.kids
      BY <1>1, KidsType
    <3>. QED BY <1>7, <3>1 DEF RefOf
  <2>. QED BY <2>1, <2>2 DEF RefsIn
<1>. QED BY <1>2, <1>3, <1>5, <1>6, <1>7

\* What components stand for does not change.
LEMMA SameAims ==
  ASSUME world' = world
  PROVE  /\ \A c : Place(c)' = Place(c) /\ Aim(c)' = Aim(c)
         /\ \A c : Known(Place(c))' = Known(Place(c))
         /\ \A u : RefersWithin(u)' = RefersWithin(u)
         /\ NoneDangling' = NoneDangling /\ NamesApart' = NamesApart /\ Rooted' = Rooted
<1>1. \A c : RefOf(c)' = RefOf(c)
  BY SameWorld
<1>2. \A u : RefsIn(u)' = RefsIn(u)
  BY DEF RefsIn, Defines, ShapeAt
<1>3. \A u : RefersWithin(u)' = RefersWithin(u)
  BY <1>2 DEF RefersWithin
<1>4. NoneDangling' = NoneDangling /\ NamesApart' = NamesApart
  BY <1>2 DEF NoneDangling, NamesApart, Defines, FileOf
<1>5. Rooted' = Rooted
  BY <1>2, <1>3 DEF Rooted
<1>. QED BY <1>1, <1>3, <1>4, <1>5 DEF Place, Aim, LocOf, FileOf, Known, Defines, ShapeAt

\* A step that decodes components where they are defined, and otherwise gives
\* components values that they lead to.
LEMMA RightKeeps ==
  ASSUME IInv', WorldOK, world' = world, Defined, AllRight,
         \A c \in DOMAIN value' :
            \/ c \in DOMAIN value /\ value'[c] = value[c]
            \/ /\ Known(Place(c))
               /\ \/ value'[c] = Unmarshalled(c)
                  \/ value'[c] = Nil
                  \/ Leads(Aim(c), Place(value'[c]))
  PROVE  Defined' /\ AllRight'
<1>1. \A c : Place(c)' = Place(c) /\ Aim(c)' = Aim(c) /\ Known(Place(c))' = Known(Place(c))
  BY SameAims
<1>2. Defined'
  BY <1>1 DEF Defined
<1>3. DOMAIN value' \subseteq Cells
  BY DEF IInv, HeapOK, Cells, ShapeAt
<1>4. ASSUME NEW c \in DOMAIN value' PROVE Right(c)'
  <2>1. CASE c \in DOMAIN value /\ value'[c] = value[c]
    BY <1>1, <2>1, SameMeaning DEF AllRight, Right
  <2>2. CASE Known(Place(c)) /\ value'[c] = Unmarshalled(c)
    <3>1. CASE RefOf(c) = Nil
      <4>1. Leads(Aim(c), Place(c)) /\ Place(Target(c)) = Place(c)
        BY <1>3, <2>2, <3>1, CellMeaning DEF Target, Place
      <4>2. value'[c] = Target(c)
        BY <2>2, <3>1 DEF Unmarshalled
      <4>. QED BY <1>1, <4>1, <4>2, SameMeaning DEF Right, Place
    <3>2. CASE RefOf(c) # Nil
      BY <2>2, <3>2 DEF Unmarshalled, Right
    <3>. QED BY <3>1, <3>2
  <2>3. CASE value'[c] = Nil
    BY <2>3 DEF Right
  <2>4. CASE Leads(Aim(c), Place(value'[c]))
    BY <1>1, <2>4, SameMeaning DEF Right, Place
  <2>. QED BY <2>1, <2>2, <2>3, <2>4
<1>. QED BY <1>2, <1>4 DEF AllRight

\* Frames that were right stay right, so only the new ones matter.
LEMMA AimsSame ==
  ASSUME world' = world, visitedDocuments \subseteq visitedDocuments'
  PROVE  \A f : Aims(f) => Aims(f)'
<1>1. \A c : RefOf(c)' = RefOf(c) /\ Place(c)' = Place(c) /\ Aim(c)' = Aim(c)
  BY SameWorld, SameAims
<1>. QED BY <1>1 DEF Aims

LEMMA CallPuts ==
  ASSUME StackOK, stack # <<>>, NEW f, NEW g, Call(f, g)
  PROVE  /\ DOMAIN stack' = DOMAIN stack \cup {Len(stack) + 1} /\ Len(stack) \in DOMAIN stack
         /\ stack'[Len(stack)] = f /\ stack'[Len(stack) + 1] = g
         /\ \A i \in DOMAIN stack : i # Len(stack) => stack'[i] = stack[i]
<1>. DEFINE S == Frame \cup {f, g}
<1>1. stack \in Seq(S) /\ f \in S /\ g \in S
  BY DEF StackOK
<1>. HIDE DEF S
<1>2. [stack EXCEPT ![Len(stack)] = f] \in Seq(S)
  BY <1>1
<1>3. /\ stack' \in Seq(S) /\ Len(stack') = Len(stack) + 1
      /\ \A i \in 1..Len(stack') : stack'[i] = IF i = Len(stack) + 1 THEN g
                                   ELSE IF i = Len(stack) THEN f ELSE stack[i]
  BY <1>1, <1>2 DEF Call
<1>. QED BY <1>1, <1>3

LEMMA AimingMoves ==
  ASSUME IInv, Aiming, world' = world, visitedDocuments \subseteq visitedDocuments'
  PROVE  /\ stack' = stack => Aiming'
         /\ stack # <<>> /\ Pop => Aiming'
         /\ stack # <<>> => \A f : Aims(f)' /\ Goto(f) => Aiming'
         /\ stack # <<>> => \A f, g : Aims(f)' /\ Aims(g)' /\ Call(f, g) => Aiming'
<1>1. \A f : (\E i \in DOMAIN stack : f = stack[i]) => Aims(f)'
  <2>1. \A f : (\E i \in DOMAIN stack : f = stack[i]) => Aims(f)
    BY DEF Aiming
  <2>. QED BY <2>1, AimsSame
<1>2. (\A i \in DOMAIN stack' : \E f : f = stack'[i] /\ Aims(f)') => Aiming'
  BY DEF Aiming
<1>3. ASSUME stack' = stack PROVE Aiming'
  BY <1>1, <1>2, <1>3
<1>4. ASSUME stack # <<>>, Pop PROVE Aiming'
  <2>1. \A i \in DOMAIN stack' : i \in DOMAIN stack /\ stack'[i] = stack[i]
    BY <1>4, PopMoves DEF IInv
  <2>. QED BY <1>1, <1>2, <2>1
<1>5. ASSUME stack # <<>>, NEW f, Aims(f)', Goto(f) PROVE Aiming'
  <2>1. \A i \in DOMAIN stack' : stack'[i] = f \/ (i \in DOMAIN stack /\ stack'[i] = stack[i])
    BY <1>5, GotoMoves DEF IInv
  <2>. QED BY <1>1, <1>2, <1>5, <2>1
<1>6. ASSUME stack # <<>>, NEW f, NEW g, Aims(f)', Aims(g)', Call(f, g)
      PROVE  Aiming'
  <2>1. \A i \in DOMAIN stack' : \/ stack'[i] = f \/ stack'[i] = g
                                 \/ (i \in DOMAIN stack /\ stack'[i] = stack[i])
    BY <1>6, CallPuts DEF IInv
  <2>. QED BY <1>1, <1>2, <1>6, <2>1
<1>. QED BY <1>3, <1>4, <1>5, <1>6

\* A call that has done nothing aims at nothing yet.
LEMMA EnteringAims ==
  ASSUME NEW f, Entering(f) \/ f.pc \in {"components", "enter", "element", "document", "children"}
  PROVE  Aims(f) /\ Aims(f)'
BY DEF Entering, Aims

LEMMA CachedKept ==
  ASSUME Cached, world' = world, visitedDocuments' = visitedDocuments,
         DOMAIN value \subseteq DOMAIN value'
  PROVE  Cached'
<1>1. \A u : DocCells(u)' = DocCells(u)
  BY DEF DocCells, Decoded, Defines, ShapeAt
<1>. QED BY <1>1 DEF Cached

\* The components of a document, decoded when it is cached.
LEMMA DocumentTargets ==
  ASSUME TargetInv, IInv', world' = world, NEW u \in Uris,
         visitedDocuments' = visitedDocuments \cup {u},
         u \notin visitedDocuments, fresh' = fresh,
         \/ Allocate(DocCells(u))
         \/ UNCHANGED value /\ world[u].kind = "broken"
  PROVE  Defined' /\ AllRight' /\ Cached'
<1>1. \A c \in DocCells(u) : Known(Place(c))
  <2>. SUFFICES ASSUME NEW c \in DocCells(u) PROVE Known(Place(c))
    OBVIOUS
  <2>1. PICK n \in Names : Defines(u, n) /\ c \in Decoded(0, u, n)
    BY DEF DocCells
  <2>. QED BY <2>1 DEF Decoded, Known, Place
<1>2. \A w : DocCells(w)' = DocCells(w)
  BY DEF DocCells, Decoded, Defines, ShapeAt
<1>3. CASE Allocate(DocCells(u))
  <2>1. Grown /\ Born'
    BY <1>3, AllocateGrows DEF TargetInv, ValueInv, IInv
  <2>2. DOMAIN value' = DOMAIN value \cup DocCells(u)
    BY <1>3 DEF Allocate
  <2>3. \A c \in DOMAIN value' : \/ c \in DOMAIN value /\ value'[c] = value[c]
                                 \/ Known(Place(c)) /\ value'[c] = Unmarshalled(c)
    BY <1>1, <1>3, <2>2 DEF Allocate
  <2>4. Defined' /\ AllRight'
    BY <2>3, RightKeeps DEF TargetInv, ValueInv, IInv
  <2>5. Cached'
    BY <1>2, <2>2 DEF Cached, TargetInv
  <2>. QED BY <2>4, <2>5
<1>4. CASE UNCHANGED value /\ world[u].kind = "broken"
  <2>1. Defined' /\ AllRight'
    BY <1>4, RightKeeps DEF TargetInv, ValueInv, IInv
  <2>2. DocCells(u) = {}
    BY <1>4 DEF DocCells
  <2>. QED BY <1>2, <1>4, <2>1, <2>2 DEF Cached, TargetInv
<1>. QED BY <1>3, <1>4

LEMMA LoadTargets ==
  ASSUME TargetInv, IInv', LoadFromURI
  PROVE  Defined' /\ AllRight' /\ Aiming' /\ Cached'
<1>. PICK u \in Uris : \/ LoadReadFails(u) \/ LoadCached(u)
                       \/ LoadUndecodable(u) \/ LoadDecoded(u)
  BY DEF LoadFromURI
<1>1. /\ stack = <<>> /\ world' = world /\ fresh' = fresh
      /\ visitedDocuments \subseteq visitedDocuments'
      /\ stack' = <<>> \/ stack' = <<DocFrame(u)>>
  BY DEF LoadReadFails, LoadCached, LoadUndecodable, LoadDecoded, Begin, static, TargetInv,
         ValueInv, Resting
<1>2. Aiming'
  BY <1>1 DEF Aiming, Aims, DocFrame
<1>3. CASE LoadReadFails(u) \/ LoadCached(u)
  <2>1. UNCHANGED <<value, visitedDocuments>>
    BY <1>3 DEF LoadReadFails, LoadCached
  <2>2. Defined' /\ AllRight'
    BY <1>1, <2>1, RightKeeps DEF TargetInv, ValueInv, IInv
  <2>. QED BY <1>1, <1>2, <2>1, <2>2, CachedKept DEF TargetInv
<1>4. CASE LoadUndecodable(u) \/ LoadDecoded(u)
  <2>1. /\ visitedDocuments' = visitedDocuments \cup {u} /\ u \notin visitedDocuments
        /\ Allocate(DocCells(u)) \/ (UNCHANGED value /\ world[u].kind = "broken")
    BY <1>4 DEF LoadUndecodable, LoadDecoded
  <2>. QED BY <1>1, <1>2, <2>1, DocumentTargets
<1>. QED BY <1>3, <1>4

LEMMA QuietTargets ==
  ASSUME TargetInv, IInv', world' = world, UNCHANGED <<value, visitedDocuments>>
  PROVE  Defined' /\ AllRight' /\ Cached'
<1>1. Defined' /\ AllRight'
  BY RightKeeps DEF TargetInv, ValueInv, IInv
<1>. QED BY <1>1, CachedKept DEF TargetInv

\* The steps that leave the heap and the cache as they are.
LEMMA WalkTargets ==
  ASSUME TargetInv, IInv',
         \/ NextComponent \/ DocumentDone \/ EnterInline \/ EnterResolved \/ EnterInProgress
         \/ EnterUnvisited \/ NextChild \/ ElementFails \/ DocumentFails \/ DrillFails
  PROVE  Defined' /\ AllRight' /\ Aiming' /\ Cached'
<1>1. world' = world /\ UNCHANGED <<value, visitedDocuments>>
  BY DEF NextComponent, DocumentDone, EnterInline, EnterResolved, EnterInProgress,
     EnterUnvisited, NextChild, ElementFails, DocumentFails, DrillFails, Fail, static, heap
<1>2. IInv /\ Aiming /\ visitedDocuments \subseteq visitedDocuments'
  BY <1>1 DEF TargetInv, ValueInv
<1>3. Defined' /\ AllRight' /\ Cached'
  BY <1>1, QuietTargets
<1>4. CASE ElementFails \/ DocumentFails \/ DrillFails
  <2>1. stack' = stack
    BY <1>4 DEF ElementFails, DocumentFails, DrillFails, Fail
  <2>. QED BY <1>1, <1>2, <1>3, <2>1, AimingMoves
<1>5. CASE DocumentDone \/ EnterResolved \/ EnterInProgress
  <2>1. stack # <<>> /\ Pop
    BY <1>5 DEF DocumentDone, EnterResolved, EnterInProgress, At
  <2>. QED BY <1>1, <1>2, <1>3, <2>1, AimingMoves
<1>6. CASE EnterInline \/ EnterUnvisited
  <2>1. stack # <<>> /\ Top \in Frame
    BY <1>2, <1>6, TopType DEF EnterInline, EnterUnvisited, At, IInv
  <2>2. \E f : Goto(f) /\ f.pc \in {"children", "element", "document"}
    <3>1. CASE EnterInline
      <4>. DEFINE f == [Top EXCEPT !.pc = "children", !.held = value[Top.cell]]
      <4>1. Goto(f) /\ f.pc = "children"
        BY <2>1, <3>1 DEF EnterInline, Frame
      <4>. QED BY <4>1
    <3>2. CASE EnterUnvisited
      <4>. DEFINE f(p) == [Top EXCEPT !.pc = p]
      <4>1. \A p : f(p).pc = p
        BY <2>1 DEF Frame
      <4>2. \E p \in {"element", "document"} : Goto(f(p))
        BY <3>2 DEF EnterUnvisited
      <4>. QED BY <4>1, <4>2
    <3>. QED BY <1>6, <3>1, <3>2
  <2>3. PICK f : Goto(f) /\ Aims(f)'
    BY <2>2, EnteringAims
  <2>. QED BY <1>1, <1>2, <1>3, <2>1, <2>3, AimingMoves
<1>7. CASE NextComponent \/ NextChild
  <2>1. stack # <<>> /\ Top \in Frame /\ Top.pc \in {"components", "children"}
    BY <1>2, <1>7, TopType DEF NextComponent, NextChild, At, IInv
  <2>2. PICK f : f = [Top EXCEPT !.pos = @ + 1]
    OBVIOUS
  <2>3. Aims(f)'
    <3>1. f.pc = Top.pc
      BY <2>1, <2>2 DEF Frame
    <3>. QED BY <2>1, <3>1, EnteringAims
  <2>4. Goto(f) \/ \E g : g.pc = "enter" /\ Call(f, g)
    <3>1. \A c, d, p : RefFrame(c, d, p).pc = "enter"
      BY DEF RefFrame
    <3>. QED BY <1>7, <2>2, <3>1 DEF NextComponent, NextChild
  <2>5. \A g : g.pc = "enter" => Aims(g)'
    BY EnteringAims
  <2>. QED BY <1>1, <1>2, <1>3, <2>1, <2>3, <2>4, <2>5, AimingMoves
<1>. QED BY <1>4, <1>5, <1>6, <1>7

\* The steps that find the document of a reference.
LEMMA DocumentStepTargets ==
  ASSUME TargetInv, IInv',
         DocumentHere \/ DocumentCached \/ DocumentUndecodable \/ DocumentLoaded
  PROVE  Defined' /\ AllRight' /\ Aiming' /\ Cached'
<1>. DEFINE r == RefOf(Top.cell)
<1>1. /\ stack # <<>> /\ Top.fn = "resolveSchemaRef" /\ Top.pc = "document"
      /\ world' = world /\ fresh' = fresh
  BY DEF DocumentHere, DocumentCached, DocumentUndecodable, DocumentLoaded, At, static, heap
<1>2. IInv /\ Aiming /\ visitedDocuments \subseteq visitedDocuments' /\ Top \in Frame
      /\ r \in Ref
  BY <1>1, TopType DEF TargetInv, ValueInv, IInv, FrameOK, DocumentHere, DocumentCached,
                       DocumentUndecodable, DocumentLoaded
<1>3. Defined' /\ AllRight' /\ Cached'
  <2>1. CASE DocumentHere \/ DocumentCached
    BY <1>1, <2>1, QuietTargets DEF DocumentHere, DocumentCached, heap
  <2>2. CASE DocumentUndecodable \/ DocumentLoaded
    <3>1. /\ r.file \notin visitedDocuments /\ r.file \in Uris
          /\ visitedDocuments' = visitedDocuments \cup {r.file}
          /\ Allocate(DocCells(r.file)) \/ (UNCHANGED value /\ world[r.file].kind = "broken")
      BY <1>2, <2>2, RefParts DEF DocumentUndecodable, DocumentLoaded, heap
    <3>. QED BY <1>1, <3>1, DocumentTargets
  <2>. QED BY <2>1, <2>2
<1>4. CASE DocumentUndecodable
  <2>1. stack' = stack
    BY <1>4 DEF DocumentUndecodable
  <2>. QED BY <1>1, <1>2, <1>3, <2>1, AimingMoves
<1>5. CASE DocumentHere \/ DocumentCached \/ DocumentLoaded
  <2>1. PICK d \in Uris :
          /\ r.file = Here \/ (d = r.file /\ d \in visitedDocuments')
          /\ LET f == [Top EXCEPT !.pc = "drill", !.tdoc = d]
             IN  Goto(f) \/ Call(f, DocFrame(d))
    <3>1. CASE DocumentHere
      BY <1>2, <3>1 DEF DocumentHere, Frame
    <3>2. CASE DocumentCached
      BY <1>2, <3>2 DEF DocumentCached, IInv, CallOK
    <3>3. CASE DocumentLoaded
      BY <1>2, <3>3, RefParts DEF DocumentLoaded
    <3>. QED BY <1>5, <3>1, <3>2, <3>3
  <2>2. PICK f : f = [Top EXCEPT !.pc = "drill", !.tdoc = d]
    OBVIOUS
  <2>3. f.fn = Top.fn /\ f.cell = Top.cell /\ f.pc = "drill" /\ f.tdoc = d
    BY <1>2, <2>2 DEF Frame
  <2>4. PICK c : c = Top.cell
    OBVIOUS
  <2>5. RefOf(c)' = r /\ f.cell = c
    BY <1>1, <2>3, <2>4, SameWorld
  <2>6. Aims(f)'
    BY <2>1, <2>3, <2>5 DEF Aims
  <2>7. PICK g : g = DocFrame(d) /\ Aims(g)'
    <3>1. \A g : g.pc = "components" => Aims(g)'
      BY EnteringAims
    <3>2. DocFrame(d).pc = "components"
      BY DEF DocFrame
    <3>. QED BY <3>1, <3>2
  <2>. QED BY <1>1, <1>2, <1>3, <2>1, <2>2, <2>6, <2>7, AimingMoves
<1>. QED BY <1>4, <1>5

\* A whole file is what a reference without fragment stands for.
LEMMA ElementTargets ==
  ASSUME TargetInv, IInv', ElementDecoded
  PROVE  Defined' /\ AllRight' /\ Aiming' /\ Cached'
<1>. DEFINE c   == Top.cell
            r   == RefOf(c)
            u   == r.file
            v   == [inst |-> fresh, uri |-> u, name |-> Root]
            new == Decoded(fresh, u, Root)
            f   == [Top EXCEPT !.pc = "children", !.path = ElementPath(u), !.held = v]
<1>1. /\ stack # <<>> /\ Top.fn = "resolveSchemaRef" /\ Top.pc = "element"
      /\ value' = [d \in DOMAIN value \cup new |->
              IF d = c THEN v ELSE IF d \in new THEN Unmarshalled(d) ELSE value[d]]
      /\ Goto(f) /\ world' = world /\ visitedDocuments' = visitedDocuments
  BY DEF ElementDecoded, At, static
<1>2. IInv /\ Aiming /\ Top \in Frame /\ c \in DOMAIN value /\ r \in Ref /\ r.name = Root
  BY <1>1, TopType DEF TargetInv, ValueInv, IInv, FrameOK
<1>3. u \in Uris /\ u # Here /\ r # Nil
  BY <1>2, RefParts, NullsAssumption
<1>4. Leads(Aim(c), Place(v))
  <2>1. Place(v) = [uri |-> u, name |-> Root] /\ Aim(c) = Place(v) /\ Place(v) \in Loc
    BY <1>2, <1>3 DEF Place, Aim, LocOf, FileOf, Loc
  <2>2. Known(Place(v)) /\ RefAt(Place(v)) = Nil
    BY <1>2, <1>3, <2>1, ShapeTypes DEF Known, RefAt, IInv
  <2>. QED BY <1>2, <2>1, <2>2, LeadsSteps DEF IInv
<1>5. \A d \in new : Known(Place(d))
  BY DEF Decoded, Known, Place
<1>6. Known(Place(c))
  BY <1>2 DEF TargetInv, Defined
<1>7. \E g : Goto(g) /\ g.pc = "children"
  <2>1. f.pc = "children"
    BY <1>2 DEF Frame
  <2>. QED BY <1>1, <2>1
<1>. HIDE DEF v, new, f
<1>8. \A d \in DOMAIN value' :
            \/ d \in DOMAIN value /\ value'[d] = value[d]
            \/ Known(Place(d)) /\ (value'[d] = Unmarshalled(d) \/ Leads(Aim(d), Place(value'[d])))
  BY <1>1, <1>4, <1>5, <1>6
<1>9. Defined' /\ AllRight'
  BY <1>1, <1>2, <1>8, RightKeeps DEF TargetInv, IInv
<1>10. Cached'
  BY <1>1, CachedKept DEF TargetInv
<1>11. Aiming'
  <2>1. \A g : g.pc = "children" => Aims(g)'
    BY EnteringAims
  <2>. QED BY <1>1, <1>2, <1>7, <2>1, AimingMoves
<1>. QED BY <1>9, <1>10, <1>11

\* The component takes the value of its copy, which is what it stands for.
LEMMA CopyTargets ==
  ASSUME TargetInv, IInv', CopyResolved
  PROVE  Defined' /\ AllRight' /\ Aiming' /\ Cached'
<1>. DEFINE c == Top.cell
            t == Top.tmp
<1>1. /\ stack # <<>> /\ Top.fn = "resolveSchemaRef" /\ Top.pc = "copy"
      /\ value' = [value EXCEPT ![c] = value[t]]
      /\ world' = world /\ visitedDocuments' = visitedDocuments
  BY DEF CopyResolved, At, static
<1>2. IInv /\ Aiming /\ Top \in Frame /\ c \in DOMAIN value /\ t \in DOMAIN value /\ Aims(Top)
  <2>1. Len(stack) \in DOMAIN stack
    BY <1>1 DEF TargetInv, ValueInv, IInv, StackOK
  <2>. QED BY <1>1, <2>1, TopType DEF TargetInv, ValueInv, IInv, FrameOK, Aiming, Top
<1>3. Known(Place(c)) /\ Known(Place(t)) /\ Right(t) /\ t \in Cells
  BY <1>2 DEF TargetInv, Defined, AllRight, IInv, HeapOK
<1>4. t.k = 0 /\ Place(t) = Aim(c)
  BY <1>1, <1>2 DEF Aims
<1>5. value[t] # Nil => Leads(Aim(c), Place(value[t]))
  BY <1>2, <1>3, <1>4, CellMeaning DEF Right, IInv
<1>6. \E g : Goto(g) /\ g.pc = "children"
  <2>. DEFINE f == [Top EXCEPT !.pc = "children", !.held = value[t]]
  <2>1. f.pc = "children" /\ Goto(f)
    BY <1>2 DEF CopyResolved, Frame
  <2>. QED BY <2>1
<1>7. DOMAIN value' = DOMAIN value /\ value'[c] = value[t]
      /\ \A d \in DOMAIN value : d # c => value'[d] = value[d]
  BY <1>1, <1>2
<1>8. \A d \in DOMAIN value' :
            \/ d \in DOMAIN value /\ value'[d] = value[d]
            \/ Known(Place(d)) /\ (value'[d] = Nil \/ Leads(Aim(d), Place(value'[d])))
  BY <1>3, <1>5, <1>7
<1>9. Defined' /\ AllRight'
  BY <1>1, <1>2, <1>8, RightKeeps DEF TargetInv, IInv
<1>10. Cached'
  BY <1>1, <1>7, CachedKept DEF TargetInv
<1>11. Aiming'
  <2>1. \A g : g.pc = "children" => Aims(g)'
    BY EnteringAims
  <2>. QED BY <1>1, <1>2, <1>6, <2>1, AimingMoves
<1>. QED BY <1>9, <1>10, <1>11

\* A component of the right name that a drill may find is the one meant.
LEMMA DrillPlace ==
  ASSUME TargetInv, stack # <<>>, Top.fn = "resolveSchemaRef", Top.pc = "drill", NEW u \in Uris,
         Defines(u, RefOf(Top.cell).name), u \in {Top.tdoc, Top.path},
         RefOf(Top.cell).file # Here => u = RefOf(Top.cell).file
  PROVE  /\ RefOf(Top.cell).name \in Names
         /\ [uri |-> u, name |-> RefOf(Top.cell).name] = Aim(Top.cell)
<1>. DEFINE c == Top.cell
            r == RefOf(Top.cell)
<1>1. c \in DOMAIN value /\ c \in Cells /\ r \in Ref /\ r.name # Root /\ WorldOK
  BY TopType DEF TargetInv, ValueInv, IInv, FrameOK, HeapOK
<1>2. r # Nil /\ r.name \in Names
  BY <1>1, RefParts
<1>3. r \in RefsIn(c.uri) /\ c.uri \in Uris
  BY <1>1, <1>2, CellMeaning DEF TargetInv, Defined, Cells, CellId
<1>4. ASSUME r.file = Here PROVE u = c.uri
  <2>1. CASE NamesApart
    BY <1>3, <1>4, <2>1 DEF NamesApart
  <2>2. CASE Rooted /\ InRoot
    <3>1. InContext(Top)
      BY <2>2 DEF InRoot, TargetInv, ValueInv, IInv, StackOK, Top
    <3>. QED BY <1>3, <1>4, <3>1 DEF InContext, RefersWithin
  <2>. QED BY <2>1, <2>2 DEF TargetInv
<1>. QED BY <1>2, <1>4 DEF Aim, LocOf, FileOf

\* Where a drill looks.
LEMMA DrillFacts ==
  ASSUME TargetInv, stack # <<>>, Top.fn = "resolveSchemaRef", Top.pc = "drill"
  PROVE  /\ IInv /\ Aiming /\ Top \in Frame /\ Top.tdoc \in Uris /\ Top.path \in Uris
         /\ RefOf(Top.cell).file # Here =>
              Top.tdoc = RefOf(Top.cell).file /\ Top.tdoc \in visitedDocuments
<1>1. IInv /\ Aiming /\ Top \in Frame
  BY TopType DEF TargetInv, ValueInv, IInv
<1>2. Aims(Top)
  BY <1>1 DEF IInv, StackOK, Aiming, Top
<1>. QED BY <1>1, <1>2 DEF Frame, Aims

LEMMA TypedDefined ==
  ASSUME TargetInv, NEW u \in Uris, NEW n \in Names
  PROVE  n \in Typed(u) => Defines(u, n)
BY NullsAssumption DEF TargetInv, Defined, Known, Place, Typed

\* A drill finds what a cached document defines.
LEMMA CachedFound ==
  ASSUME TargetInv, NEW u \in visitedDocuments, NEW n \in Names, Defines(u, n)
  PROVE  n \in Typed(u) \cup Raw(u)
<1>1. u \in Uris /\ WorldOK
  BY DEF TargetInv, ValueInv, IInv, CallOK
<1>2. CASE world[u].kind = "doc"
  <2>1. [inst |-> 0, uri |-> u, name |-> n, k |-> 0] \in Decoded(0, u, n)
    BY <1>1, ShapeTypes, DecodedOK
  <2>2. Decoded(0, u, n) \subseteq DocCells(u)
    BY <1>2 DEF DocCells
  <2>. QED BY <2>1, <2>2 DEF Typed, TargetInv, Cached
<1>3. CASE world[u].kind = "fragment"
  BY <1>3 DEF Raw
<1>4. world[u].kind \in {"doc", "fragment", "broken"}
  BY <1>1, ShapeTypes DEF File
<1>. QED BY <1>2, <1>3, <1>4 DEF Defines

\* The file of the referrer is read again only for a reference within it.
LEMMA RereadsHere ==
  ASSUME TargetInv, stack # <<>>, Top.fn = "resolveSchemaRef", Top.pc = "drill", NotInDocument
  PROVE  RefOf(Top.cell).file = Here
<1>. DEFINE c == Top.cell
            r == RefOf(Top.cell)
            u == r.file
<1>. SUFFICES ASSUME r.file # Here PROVE FALSE
  OBVIOUS
<1>1. c \in DOMAIN value /\ c \in Cells /\ r \in Ref /\ r.name # Root /\ WorldOK
  BY TopType DEF TargetInv, ValueInv, IInv, FrameOK, HeapOK
<1>2. r # Nil /\ r.name \in Names /\ u \in Uris
  BY <1>1, RefParts
<1>3. r \in RefsIn(c.uri) /\ c.uri \in Uris
  BY <1>1, <1>2, CellMeaning DEF TargetInv, Defined, Cells, CellId
<1>4. Defines(u, r.name)
  BY <1>1, <1>3 DEF TargetInv, NoneDangling, FileOf
<1>5. Top.tdoc = u /\ u \in visitedDocuments
  BY DrillFacts
<1>. QED BY <1>2, <1>4, <1>5, CachedFound DEF NotInDocument

LEMMA DrillTargets ==
  ASSUME TargetInv, IInv', DrillTyped \/ DrillGeneric \/ DrillReread
  PROVE  Defined' /\ AllRight' /\ Aiming' /\ Cached'
<1>. DEFINE n == RefOf(Top.cell).name
            T(u) == [inst |-> fresh, uri |-> u, name |-> n, k |-> 0]
<1>1. /\ stack # <<>> /\ Top.fn = "resolveSchemaRef" /\ Top.pc = "drill"
      /\ world' = world /\ visitedDocuments' = visitedDocuments
  BY DEF DrillTyped, DrillGeneric, DrillReread, DecodeGeneric, At, static
<1>2. /\ IInv /\ Aiming /\ Top \in Frame /\ Top.tdoc \in Uris /\ Top.path \in Uris
      /\ RefOf(Top.cell).file # Here => Top.tdoc = RefOf(Top.cell).file
  BY <1>1, DrillFacts
<1>3. n \in Names
  <2>1. RefOf(Top.cell) \in Ref /\ RefOf(Top.cell).name # Root
    BY <1>1, <1>2, TopType DEF IInv, FrameOK
  <2>. QED BY <2>1, RefParts
<1>4. \E u \in {Top.tdoc, Top.path} :
        /\ Defines(u, n) /\ (RefOf(Top.cell).file # Here => u = RefOf(Top.cell).file)
        /\ ResolveCopy(T(u)) /\ DOMAIN value \subseteq DOMAIN value'
        /\ \A d \in DOMAIN value' :
             \/ d \in DOMAIN value /\ value'[d] = value[d]
             \/ /\ Known(Place(d))
                /\ \/ value'[d] = Unmarshalled(d) \/ value'[d] = Nil
                   \/ Leads(Aim(d), Place(value'[d]))
  <2>1. CASE DrillTyped
    <3>. DEFINE u   == Top.tdoc
                src == [inst |-> 0, uri |-> u, name |-> n, k |-> 0]
    <3>1. n \in Typed(u) /\ Defines(u, n) /\ src \in DOMAIN value
      BY <1>2, <1>3, <2>1, TypedDefined DEF DrillTyped, Typed
    <3>2. Right(src) /\ Known(Place(src))
      BY <3>1 DEF TargetInv, AllRight, Defined
    <3>3. Place(T(u)) = Place(src) /\ Aim(T(u)) = Aim(src)
      BY DEF Place, Aim, RefOf
    <3>4. T(u) = [src EXCEPT !.inst = fresh]
      OBVIOUS
    <3>5. /\ value' = [d \in DOMAIN value \cup {T(u)} |->
                        IF d = T(u) THEN value[src] ELSE value[d]]
          /\ ResolveCopy(T(u))
      BY <2>1, <3>4 DEF DrillTyped
    <3>. HIDE DEF T, src
    <3>6. \A d \in DOMAIN value' :
             \/ d \in DOMAIN value /\ value'[d] = value[d]
             \/ /\ Known(Place(d))
                /\ value'[d] = Nil \/ Leads(Aim(d), Place(value'[d]))
      BY <3>2, <3>3, <3>5 DEF Right
    <3>7. DOMAIN value \subseteq DOMAIN value'
      BY <3>5
    <3>. QED BY <1>2, <3>1, <3>5, <3>6, <3>7
  <2>2. ASSUME NEW u \in Uris, DecodeGeneric(u), Defines(u, n)
        PROVE  /\ ResolveCopy(T(u)) /\ DOMAIN value \subseteq DOMAIN value'
               /\ \A d \in DOMAIN value' :
                    \/ d \in DOMAIN value /\ value'[d] = value[d]
                    \/ Known(Place(d)) /\ value'[d] = Unmarshalled(d)
    <3>. DEFINE new == Decoded(fresh, u, n)
    <3>1. \A d \in new : Known(Place(d))
      BY <2>2 DEF Decoded, Known, Place
    <3>2. /\ value' = [d \in DOMAIN value \cup new |->
                        IF d \in new THEN Unmarshalled(d) ELSE value[d]]
          /\ ResolveCopy(T(u))
      BY <2>2 DEF DecodeGeneric
    <3>. HIDE DEF new, T
    <3>. QED BY <3>1, <3>2
  <2>3. CASE DrillGeneric
    <3>1. Defines(Top.tdoc, n) /\ DecodeGeneric(Top.tdoc)
      BY <2>3 DEF DrillGeneric, Raw
    <3>. QED BY <1>2, <2>2, <3>1
  <2>4. CASE DrillReread
    <3>1. Defines(Top.path, n) /\ DecodeGeneric(Top.path) /\ RefOf(Top.cell).file = Here
      BY <1>1, <2>4, RereadsHere DEF DrillReread
    <3>. QED BY <1>2, <2>2, <3>1
  <2>. QED BY <2>1, <2>3, <2>4
<1>5. PICK u \in {Top.tdoc, Top.path} :
        /\ Defines(u, n) /\ (RefOf(Top.cell).file # Here => u = RefOf(Top.cell).file)
        /\ ResolveCopy(T(u)) /\ DOMAIN value \subseteq DOMAIN value'
        /\ \A d \in DOMAIN value' :
             \/ d \in DOMAIN value /\ value'[d] = value[d]
             \/ /\ Known(Place(d))
                /\ \/ value'[d] = Unmarshalled(d) \/ value'[d] = Nil
                   \/ Leads(Aim(d), Place(value'[d]))
  BY <1>4
<1>6. Defined' /\ AllRight'
  BY <1>1, <1>2, <1>5, RightKeeps DEF TargetInv, IInv
<1>7. Cached'
  BY <1>1, <1>5, CachedKept DEF TargetInv
<1>8. Aiming'
  <2>1. PICK f, g : /\ f = [Top EXCEPT !.pc = "copy", !.tmp = T(u)]
                    /\ g = RefFrame(T(u), Top.tdoc, ComponentPath) /\ Call(f, g)
    BY <1>5 DEF ResolveCopy
  <2>2. f.fn = Top.fn /\ f.cell = Top.cell /\ f.pc = "copy" /\ f.tmp = T(u)
    BY <1>2, <2>1 DEF Frame
  <2>3. f.tmp.k = 0 /\ Place(f.tmp) = Aim(Top.cell)
    BY <1>1, <1>2, <1>5, <2>2, DrillPlace DEF Place
  <2>4. Aims(f)
    BY <2>2, <2>3 DEF Aims
  <2>5. Aims(g)
    BY <2>1 DEF RefFrame, Aims
  <2>6. Aims(f)' /\ Aims(g)'
    BY <1>1, <2>4, <2>5, AimsSame
  <2>. QED BY <1>1, <1>2, <2>1, <2>6, AimingMoves
<1>. QED BY <1>6, <1>7, <1>8

\* The callbacks are left for the same reference in the same file.
LEMMA CallbackAims ==
  ASSUME TargetInv, stack # <<>>, Handing(Top), NEW c \in DOMAIN Callbacks(RefOf(Top.cell))
  PROVE  /\ c \in DOMAIN value /\ RefOf(c) = RefOf(Top.cell) /\ Aim(c) = Aim(Top.cell)
         /\ Top.cell \in DOMAIN value /\ value[Top.cell] = Top.held
<1>. DEFINE t == Top.cell
            r == RefOf(t)
<1>1. IInv
  BY DEF TargetInv, ValueInv
<1>2. t \in DOMAIN value /\ value[t] = Top.held /\ r # Nil
  <2>1. FrameOK(Top) /\ Len(stack) \in DOMAIN stack
    BY <1>1, TopType DEF IInv, StackOK
  <2>2. Carries(Top)
    BY <2>1 DEF TargetInv, ValueInv, Carrying, Top
  <2>. QED BY <2>1, <2>2 DEF FrameOK, Carries, Handing
<1>3. c \in DOMAIN value /\ RefOf(c) = r
  BY DEF Callbacks, TargetInv, ValueInv, Awaiting
<1>4. r \in RefsIn(c.uri) /\ r \in RefsIn(t.uri) /\ r \in Ref /\ c.uri \in Uris /\ t.uri \in Uris
  BY <1>1, <1>2, <1>3, CellMeaning DEF TargetInv, Defined, IInv, HeapOK, Cells, CellId
<1>5. CASE r.file = Here
  <2>1. r.name \in Names
    BY <1>4, <1>5, RefParts, NullsAssumption
  <2>2. CASE NamesApart
    <3>1. Defines(c.uri, r.name)
      BY <1>4, <1>5, <2>1, NullsAssumption DEF TargetInv, NoneDangling, FileOf
    <3>2. c.uri = t.uri
      BY <1>4, <1>5, <2>2, <3>1 DEF NamesApart
    <3>. QED BY <1>2, <1>3, <3>2 DEF Aim
  <2>3. CASE InRoot
    <3>1. c.uri = root
      BY <1>4, <1>5, <2>3 DEF InRoot, RefersWithin, Callbacks
    <3>2. InContext(Top)
      BY <1>1, <2>3 DEF InRoot, IInv, StackOK, Top
    <3>3. t.uri = root
      BY <1>4, <1>5, <3>2 DEF InContext, Handing, RefersWithin
    <3>. QED BY <1>2, <1>3, <3>1, <3>3 DEF Aim
  <2>. QED BY <2>2, <2>3 DEF TargetInv
<1>6. CASE r.file # Here
  BY <1>2, <1>3, <1>6 DEF Aim, LocOf, FileOf
<1>. QED BY <1>2, <1>3, <1>5, <1>6

\* They get the value held.
LEMMA ReturnTargets ==
  ASSUME TargetInv, IInv', ReferenceDone \/ ReturnError
  PROVE  Defined' /\ AllRight' /\ Aiming' /\ Cached'
<1>1. /\ stack # <<>> /\ Pop /\ world' = world /\ visitedDocuments' = visitedDocuments
      /\ IF Top.fn = "resolveSchemaRef" /\ Top.pc = "children"
         THEN ReturnRef ELSE UNCHANGED <<heap, visits>>
  BY DEF ReferenceDone, ReturnError, At, static
<1>2. IInv /\ Aiming
  BY DEF TargetInv, ValueInv
<1>3. Aiming'
  BY <1>1, <1>2, AimingMoves
<1>4. CASE Handing(Top)
  <2>. DEFINE t == Top.cell
              r == RefOf(t)
              v == Top.held
  <2>1. UnvisitRef(r, v)
    BY <1>1, <1>4 DEF Handing, ReturnRef
  <2>2. /\ DOMAIN value' = DOMAIN value
        /\ \A c \in DOMAIN value : value'[c] = IF c \in DOMAIN Callbacks(r) THEN v ELSE value[c]
    BY <2>1 DEF UnvisitRef
  <2>3. \A c \in DOMAIN Callbacks(r) : c \in DOMAIN value /\ Aim(c) = Aim(t) /\ value[t] = v
    BY <1>1, <1>4, CallbackAims
  <2>4. t \in DOMAIN value
    BY <1>1, <1>2, <1>4, TopType DEF IInv, FrameOK, Handing
  <2>5. \A c \in DOMAIN Callbacks(r) : v # Nil => Leads(Aim(c), Place(v))
    BY <2>3, <2>4 DEF TargetInv, AllRight, Right
  <2>. HIDE DEF r, v, t
  <2>7. \A c \in DOMAIN value' :
            \/ c \in DOMAIN value /\ value'[c] = value[c]
            \/ Known(Place(c)) /\ (value'[c] = Nil \/ Leads(Aim(c), Place(value'[c])))
    BY <2>2, <2>3, <2>5 DEF TargetInv, Defined
  <2>8. Defined' /\ AllRight'
    BY <1>1, <1>2, <2>7, RightKeeps DEF TargetInv, IInv
  <2>9. Cached'
    BY <1>1, <2>2, CachedKept DEF TargetInv
  <2>. QED BY <1>3, <2>8, <2>9
<1>5. CASE ~Handing(Top)
  <2>1. UNCHANGED <<heap, visits>>
    BY <1>1, <1>5 DEF Handing, ReturnRef
  <2>. QED BY <1>1, <1>3, <2>1, QuietTargets DEF heap
<1>. QED BY <1>4, <1>5

(***************************************************************************)
(* The context of references when only roots refer within themselves.      *)
(***************************************************************************)
LEMMA ReferredTo ==
  ASSUME Rooted, NEW v \in Uris, NEW r \in RefsIn(v), r \in Ref, r.file # Here
  PROVE  r.file \in Uris /\ ~RefersWithin(r.file)
BY RefParts DEF Rooted

\* References lead to such a root from within it only.
LEMMA ChainsStay ==
  ASSUME WorldOK, Rooted, NEW l \in Loc, NEW t, Leads(l, t), RefersWithin(t.uri)
  PROVE  l.uri = t.uri
<1>. DEFINE S == { n \in Nat : \A j \in Loc :
                     Follow[n][j] # NoLoc /\ RefersWithin(Follow[n][j].uri)
                       => j.uri = Follow[n][j].uri }
<1>1. 0 \in S
  BY FollowUnfold
<1>2. ASSUME NEW n \in Nat, n \in S PROVE n + 1 \in S
  <2>. SUFFICES ASSUME NEW j \in Loc, Follow[n + 1][j] # NoLoc,
                       RefersWithin(Follow[n + 1][j].uri)
                PROVE  j.uri = Follow[n + 1][j].uri
    OBVIOUS
  <2>1. Known(j)
    BY FollowUnfold
  <2>2. CASE RefAt(j) = Nil
    BY <2>1, <2>2, FollowUnfold
  <2>3. CASE RefAt(j) # Nil
    <3>1. NextLoc(j) \in Loc /\ RefAt(j) \in Ref /\ j.name \in Names /\ j.uri \in Uris
      BY <2>1, <2>3, NextLocType DEF Loc
    <3>2. NextLoc(j).uri = Follow[n + 1][j].uri
      BY <1>2, <2>1, <2>3, <3>1, FollowUnfold
    <3>3. RefAt(j) \in RefsIn(j.uri)
      <4>1. Defines(j.uri, j.name)
        BY <2>1, <3>1, NullsAssumption DEF Known
      <4>. QED BY <2>3, <3>1, <4>1 DEF RefsIn, RefAt
    <3>4. NextLoc(j).uri = FileOf(RefAt(j), j.uri)
      BY DEF NextLoc, LocOf
    <3>. QED BY <3>1, <3>2, <3>3, <3>4, ReferredTo DEF FileOf
  <2>. QED BY <2>2, <2>3
<1>. HIDE DEF S
<1>3. Nat \subseteq S
  BY <1>1, <1>2, SetInduction
<1>. QED BY <1>3 DEF S, Leads

\* So do the components of such a root from what leads there.
LEMMA AimsStay ==
  ASSUME WorldOK, Rooted, NEW c \in Cells, Known(Place(c)), NEW v, Leads(Aim(c), Place(v)),
         RefersWithin(v.uri)
  PROVE  c.uri = v.uri
<1>1. Aim(c) \in Loc /\ (RefOf(c) # Nil => RefOf(c) \in Ref /\ RefOf(c) \in RefsIn(c.uri))
      /\ c.uri \in Uris
  BY CellMeaning DEF Cells, CellId
<1>2. Place(v).uri = v.uri
  BY DEF Place
<1>3. Aim(c).uri = v.uri
  BY <1>1, <1>2, ChainsStay
<1>. QED BY <1>1, <1>3, ReferredTo DEF Aim, Place, LocOf, FileOf

LEMMA SameContext ==
  ASSUME world' = world, root' = root
  PROVE  \A f : InContext(f)' = InContext(f)
<1>1. /\ \A c : RefOf(c)' = RefOf(c)
      /\ \A u : RefersWithin(u)' = RefersWithin(u)
  BY SameWorld, SameAims
<1>. QED BY <1>1 DEF InContext

LEMMA InRootMoves ==
  ASSUME IInv, InRoot, world' = world, root' = root,
         \A r \in DOMAIN backtrack' : r \in DOMAIN backtrack /\ backtrack'[r] = backtrack[r]
  PROVE  /\ stack' = stack => InRoot'
         /\ stack # <<>> /\ Pop => InRoot'
         /\ stack # <<>> => \A f : InContext(f) /\ Goto(f) => InRoot'
         /\ stack # <<>> => \A f, g : InContext(f) /\ InContext(g) /\ Call(f, g) => InRoot'
<1>1. \A f : InContext(f) => InContext(f)'
  BY SameContext
<1>2. \A f : (\E i \in DOMAIN stack : f = stack[i]) => InContext(f)'
  <2>1. \A f : (\E i \in DOMAIN stack : f = stack[i]) => InContext(f)
    BY DEF InRoot
  <2>. QED BY <1>1, <2>1
<1>3. (\A i \in DOMAIN stack' : \E f : f = stack'[i] /\ InContext(f)') => InRoot'
  <2>1. \A r \in DOMAIN backtrack' : \A c \in DOMAIN backtrack'[r] :
          /\ RefersWithin(c.uri)' => c.uri = root'
          /\ backtrack'[r][c] = Aim(c)'
    BY SameAims DEF InRoot
  <2>. QED BY <2>1 DEF InRoot
<1>4. ASSUME stack' = stack PROVE InRoot'
  BY <1>2, <1>3, <1>4
<1>5. ASSUME stack # <<>>, Pop PROVE InRoot'
  <2>1. \A i \in DOMAIN stack' : i \in DOMAIN stack /\ stack'[i] = stack[i]
    BY <1>5, PopMoves DEF IInv
  <2>. QED BY <1>2, <1>3, <2>1
<1>6. ASSUME stack # <<>>, NEW f, InContext(f)', Goto(f) PROVE InRoot'
  <2>1. \A i \in DOMAIN stack' : stack'[i] = f \/ (i \in DOMAIN stack /\ stack'[i] = stack[i])
    BY <1>6, GotoMoves DEF IInv
  <2>. QED BY <1>2, <1>3, <1>6, <2>1
<1>7. ASSUME stack # <<>>, NEW f, NEW g, InContext(f)', InContext(g)', Call(f, g)
      PROVE  InRoot'
  <2>1. \A i \in DOMAIN stack' : \/ stack'[i] = f \/ stack'[i] = g
                                 \/ (i \in DOMAIN stack /\ stack'[i] = stack[i])
    BY <1>7, CallPuts DEF IInv
  <2>. QED BY <1>2, <1>3, <1>7, <2>1
<1>8. \A f, g : InContext(f) /\ InContext(g) => InContext(f)' /\ InContext(g)'
  BY <1>1
<1>. QED BY <1>1, <1>4, <1>5, <1>6, <1>7, <1>8

LEMMA TopContext ==
  ASSUME TargetInv, InRoot, stack # <<>>
  PROVE  /\ IInv /\ Top \in Frame /\ InContext(Top)
         /\ Top.doc \in Uris /\ Top.path \in Uris /\ Top.tdoc \in Uris
         /\ Top.fn = "resolveSchemaRef" =>
              /\ Top.cell \in DOMAIN value /\ Top.cell \in Cells /\ Top.cell.uri \in Uris
              /\ Known(Place(Top.cell)) /\ Right(Top.cell)
              /\ RefOf(Top.cell) # Nil =>
                   RefOf(Top.cell) \in Ref /\ RefOf(Top.cell) \in RefsIn(Top.cell.uri)
<1>1. IInv /\ Top \in Frame /\ FrameOK(Top) /\ Len(stack) \in DOMAIN stack
  BY TopType DEF TargetInv, ValueInv, IInv, StackOK
<1>2. InContext(Top)
  BY <1>1 DEF InRoot, Top
<1>3. ASSUME Top.fn = "resolveSchemaRef"
      PROVE  /\ Top.cell \in DOMAIN value /\ Top.cell \in Cells /\ Top.cell.uri \in Uris
             /\ Known(Place(Top.cell)) /\ Right(Top.cell)
  BY <1>1, <1>3 DEF FrameOK, IInv, HeapOK, TargetInv, Defined, AllRight, Cells, CellId
<1>4. WorldOK
  BY <1>1 DEF IInv
<1>. QED BY <1>1, <1>2, <1>3, <1>4, CellMeaning DEF Frame

LEMMA LoadContext ==
  ASSUME TargetInv, LoadFromURI
  PROVE  InRoot'
<1>. PICK u \in Uris : \/ LoadReadFails(u) \/ LoadCached(u)
                       \/ LoadUndecodable(u) \/ LoadDecoded(u)
  BY DEF LoadFromURI
<1>1. /\ stack = <<>> /\ backtrack' = <<>> /\ root' = u
      /\ stack' = <<>> \/ stack' = <<DocFrame(u)>>
  BY DEF LoadReadFails, LoadCached, LoadUndecodable, LoadDecoded, Begin, TargetInv,
         ValueInv, Resting
<1>2. \A i \in DOMAIN stack' : stack'[i] = DocFrame(u)
  BY <1>1
<1>. QED BY <1>1, <1>2 DEF InRoot, InContext, DocFrame

LEMMA WalkContext ==
  ASSUME TargetInv, Rooted, InRoot,
         \/ NextComponent \/ DocumentDone \/ EnterInline \/ EnterResolved
         \/ EnterUnvisited \/ NextChild \/ ElementFails \/ DocumentFails \/ DrillFails
         \/ DocumentUndecodable
  PROVE  InRoot'
<1>1. world' = world /\ root' = root /\ UNCHANGED backtrack
  BY DEF NextComponent, DocumentDone, EnterInline, EnterResolved,
     EnterUnvisited, NextChild, ElementFails, DocumentFails, DrillFails, DocumentUndecodable,
     Fail, static, call, visits
<1>2. IInv
  BY DEF TargetInv, ValueInv
<1>3. CASE ElementFails \/ DocumentFails \/ DrillFails \/ DocumentUndecodable
  <2>1. stack' = stack
    BY <1>3 DEF ElementFails, DocumentFails, DrillFails, DocumentUndecodable, Fail
  <2>. QED BY <1>1, <1>2, <2>1, InRootMoves
<1>4. CASE DocumentDone \/ EnterResolved
  <2>1. stack # <<>> /\ Pop
    BY <1>4 DEF DocumentDone, EnterResolved, At
  <2>. QED BY <1>1, <1>2, <2>1, InRootMoves
<1>5. CASE EnterInline
  <2>. DEFINE c == Top.cell
              f == [Top EXCEPT !.pc = "children", !.held = value[c]]
  <2>1. /\ stack # <<>> /\ Top.fn = "resolveSchemaRef" /\ Top.pc = "enter" /\ RefOf(c) = Nil
        /\ Goto(f)
    BY <1>5 DEF EnterInline, At
  <2>2. f.fn = Top.fn /\ f.cell = c /\ f.pc = "children" /\ f.held = value[c]
        /\ f.doc = Top.doc /\ f.path = Top.path
    BY <1>2, <2>1, TopType DEF Frame, IInv
  <2>3. value[c] # Nil => value[c].uri = c.uri
    <3>1. WorldOK /\ Aim(c) \in Loc /\ Leads(Aim(c), Place(c))
      BY <2>1, TopContext, CellMeaning DEF IInv
    <3>2. value[c] # Nil => Place(value[c]) = Place(c)
      BY <2>1, <3>1, TopContext, LeadsOnce DEF Right
    <3>. QED BY <3>2 DEF Place
  <2>4. InContext(f)
    BY <2>1, <2>2, <2>3, TopContext DEF InContext
  <2>. HIDE DEF f
  <2>. QED BY <1>1, <1>2, <2>1, <2>4, InRootMoves
<1>6. CASE EnterUnvisited
  <2>. DEFINE f(p) == [Top EXCEPT !.pc = p]
  <2>1. /\ stack # <<>> /\ Top.fn = "resolveSchemaRef" /\ Top.pc = "enter"
        /\ \E p \in {"element", "document"} : Goto(f(p))
    BY <1>6 DEF EnterUnvisited, At
  <2>2. \A p : f(p).fn = Top.fn /\ f(p).cell = Top.cell /\ f(p).pc = p
               /\ f(p).doc = Top.doc /\ f(p).path = Top.path
    BY <1>2, <2>1, TopType DEF Frame, IInv
  <2>3. \A p \in {"element", "document"} : InContext(f(p))
    BY <2>1, <2>2, TopContext DEF InContext
  <2>. HIDE DEF f
  <2>. QED BY <1>1, <1>2, <2>1, <2>3, InRootMoves
<1>7. CASE NextComponent
  <2>. DEFINE n == NameOrder[Top.pos + 1]
              f == [Top EXCEPT !.pos = @ + 1]
              c == [inst |-> 0, uri |-> Top.doc, name |-> n, k |-> 0]
              g == RefFrame(c, Top.doc, Top.path)
  <2>1. stack # <<>> /\ Top.fn = "ResolveRefsIn" /\ (Goto(f) \/ Call(f, g))
    BY <1>7 DEF NextComponent, At
  <2>2. f.fn = Top.fn /\ f.doc = Top.doc /\ f.path = Top.path
    BY <1>2, <2>1, TopType DEF Frame, IInv
  <2>3. InContext(f)
    BY <2>1, <2>2, TopContext DEF InContext
  <2>4. InContext(g)
    BY <2>1, TopContext DEF InContext, RefFrame
  <2>. HIDE DEF f, g
  <2>. QED BY <1>1, <1>2, <2>1, <2>3, <2>4, InRootMoves
<1>8. CASE NextChild
  <2>. DEFINE c == Children[Top.pos + 1]
              f == [Top EXCEPT !.pos = @ + 1]
              g == RefFrame(c, Top.doc, Top.path)
  <2>1. /\ stack # <<>> /\ Top.fn = "resolveSchemaRef" /\ Top.pc = "children" /\ Call(f, g)
        /\ Top.pos < Len(Children)
    BY <1>8 DEF NextChild, At
  <2>2. f.fn = Top.fn /\ f.cell = Top.cell /\ f.doc = Top.doc /\ f.path = Top.path
        /\ f.pc = Top.pc /\ f.held = Top.held
    BY <1>2, <2>1, TopType DEF Frame, IInv
  <2>3. InContext(f)
    BY <2>1, <2>2, TopContext DEF InContext
  <2>4. Top.held # Nil /\ c.uri = Top.held.uri
    <3>1. Top \in Frame /\ FrameOK(Top)
      BY <1>2, <2>1, TopType DEF IInv
    <3>2. Top.held # Nil
      BY <2>1, <3>1 DEF Children, Frame
    <3>3. Top.held \in Objects /\ Children = KidCells(Top.held)
      BY <2>1, <3>1, <3>2 DEF FrameOK, Valid, Children
    <3>4. Len(ShapeAt(Top.held.uri, Top.held.name).kids) \in Nat
      BY <3>3, KidsType DEF Objects
    <3>5. Top.pos + 1 \in 1..Len(ShapeAt(Top.held.uri, Top.held.name).kids)
      BY <2>1, <3>1, <3>3, <3>4 DEF KidCells, Frame
    <3>. QED BY <3>2, <3>3, <3>5 DEF KidCells
  <2>5. InContext(g)
    <3>. HIDE DEF c
    <3>1. g.fn = "resolveSchemaRef" /\ g.pc = "enter" /\ g.cell = c /\ g.doc = Top.doc
          /\ g.path = Top.path
      BY DEF RefFrame
    <3>. QED BY <2>1, <2>4, <3>1, TopContext DEF InContext
  <2>. HIDE DEF f, g
  <2>. QED BY <1>1, <1>2, <2>1, <2>3, <2>5, InRootMoves
<1>. QED BY <1>3, <1>4, <1>5, <1>6, <1>7, <1>8

\* A callback remembers where the reference leads from its own file.
LEMMA InProgressContext ==
  ASSUME TargetInv, Rooted, InRoot, EnterInProgress
  PROVE  InRoot'
<1>. DEFINE c   == Top.cell
            r   == RefOf(c)
            loc == LocOf(r, Top.path)
<1>1. /\ stack # <<>> /\ Top.fn = "resolveSchemaRef" /\ Top.pc = "enter" /\ r # Nil /\ Pop
      /\ backtrack' = [q \in DOMAIN backtrack \cup {r} |->
              IF q # r THEN backtrack[q]
              ELSE [d \in DOMAIN Callbacks(r) \cup {c} |->
                      IF d \in DOMAIN Callbacks(r) THEN Callbacks(r)[d] ELSE loc]]
      /\ world' = world /\ root' = root
  BY DEF EnterInProgress, At, static, call
<1>2. /\ IInv /\ InContext(Top) /\ r \in Ref /\ r \in RefsIn(c.uri) /\ c.uri \in Uris
  BY <1>1, TopContext
<1>3. loc = Aim(c) /\ (RefersWithin(c.uri) => c.uri = root)
  <2>1. RefersWithin(c.uri) => c.uri = root /\ Top.path = root
    BY <1>1, <1>2 DEF InContext
  <2>2. r.file = Here => RefersWithin(c.uri)
    BY <1>2 DEF RefersWithin
  <2>. QED BY <1>1, <2>1, <2>2 DEF Aim, LocOf, FileOf
<1>. HIDE DEF c, r, loc
<1>4. \A q \in DOMAIN backtrack' : \A d \in DOMAIN backtrack'[q] :
        (RefersWithin(d.uri) => d.uri = root) /\ backtrack'[q][d] = Aim(d)
  <2>. SUFFICES ASSUME NEW q \in DOMAIN backtrack', NEW d \in DOMAIN backtrack'[q]
                PROVE  (RefersWithin(d.uri) => d.uri = root) /\ backtrack'[q][d] = Aim(d)
    OBVIOUS
  <2>1. CASE q # r
    <3>1. q \in DOMAIN backtrack /\ backtrack'[q] = backtrack[q]
      BY <1>1, <2>1
    <3>. QED BY <3>1 DEF InRoot
  <2>2. CASE q = r
    <3>1. /\ d \in DOMAIN Callbacks(r) \cup {c}
          /\ backtrack'[q][d] = IF d \in DOMAIN Callbacks(r) THEN Callbacks(r)[d] ELSE loc
      BY <1>1, <2>2
    <3>2. CASE d \in DOMAIN Callbacks(r)
      <4>1. r \in DOMAIN backtrack /\ d \in DOMAIN backtrack[r] /\ Callbacks(r)[d] = backtrack[r][d]
        BY <3>2 DEF Callbacks
      <4>. QED BY <3>1, <3>2, <4>1 DEF InRoot
    <3>3. CASE d \notin DOMAIN Callbacks(r)
      BY <1>3, <3>1, <3>3
    <3>. QED BY <3>2, <3>3
  <2>. QED BY <2>1, <2>2
<1>5. \A i \in DOMAIN stack' : \E f : f = stack'[i] /\ InContext(f)'
  <2>1. \A i \in DOMAIN stack' : i \in DOMAIN stack /\ stack'[i] = stack[i]
    BY <1>1, <1>2, PopMoves DEF IInv
  <2>2. \A f : InContext(f) => InContext(f)'
    BY <1>1, SameContext
  <2>3. \A f : (\E i \in DOMAIN stack : f = stack[i]) => InContext(f)
    BY DEF InRoot
  <2>. QED BY <2>1, <2>2, <2>3
<1>6. \A q \in DOMAIN backtrack' : \A d \in DOMAIN backtrack'[q] :
        (RefersWithin(d.uri)' => d.uri = root') /\ backtrack'[q][d] = Aim(d)'
  <2>1. \A d : RefersWithin(d.uri)' = RefersWithin(d.uri) /\ Aim(d)' = Aim(d)
    BY <1>1, SameAims
  <2>. QED BY <1>1, <1>4, <2>1, ZenonT(30)
<1>. QED BY <1>5, <1>6 DEF InRoot

LEMMA DocumentContext ==
  ASSUME TargetInv, Rooted, InRoot, DocumentHere \/ DocumentCached \/ DocumentLoaded
  PROVE  InRoot'
<1>. DEFINE c    == Top.cell
            r    == RefOf(c)
            f(d) == [Top EXCEPT !.pc = "drill", !.tdoc = d]
<1>1. /\ stack # <<>> /\ Top.fn = "resolveSchemaRef" /\ Top.pc = "document"
      /\ world' = world /\ root' = root /\ UNCHANGED backtrack
  BY DEF DocumentHere, DocumentCached, DocumentLoaded, At, static, call, visits
<1>2. /\ IInv /\ InContext(Top) /\ Top \in Frame /\ Top.doc \in Uris /\ Top.path \in Uris
      /\ c.uri \in Uris
  BY <1>1, TopContext
<1>3. r \in Ref /\ r \in RefsIn(c.uri)
  <2>1. r \in Ref
    BY <1>1, <1>2, TopType DEF IInv, FrameOK
  <2>. QED BY <1>1, <2>1, NullsAssumption, TopContext
<1>4. \E d \in Uris : /\ r.file = Here => d = c.uri
                      /\ r.file # Here => d = r.file
                      /\ Goto(f(d)) \/ (r.file # Here /\ Call(f(d), DocFrame(d)))
  <2>1. CASE DocumentHere
    <3>1. RefersWithin(c.uri)
      BY <1>3, <2>1 DEF RefersWithin, DocumentHere
    <3>2. Top.doc = c.uri
      BY <1>1, <1>2, <3>1 DEF InContext
    <3>. QED BY <1>2, <2>1, <3>2 DEF DocumentHere
  <2>2. CASE DocumentCached
    <3>1. r.file \in Uris /\ r.file # Here
      BY <1>2, <2>2, NullsAssumption DEF DocumentCached, IInv, CallOK
    <3>. QED BY <2>2, <3>1 DEF DocumentCached
  <2>3. CASE DocumentLoaded
    BY <1>3, <2>3, RefParts DEF DocumentLoaded
  <2>. QED BY <2>1, <2>2, <2>3
<1>5. PICK d \in Uris : /\ r.file = Here => d = c.uri
                        /\ r.file # Here => d = r.file
                        /\ Goto(f(d)) \/ (r.file # Here /\ Call(f(d), DocFrame(d)))
  BY <1>4
<1>6. InContext(f(d))
  <2>1. /\ f(d).fn = Top.fn /\ f(d).cell = c /\ f(d).pc = "drill" /\ f(d).tdoc = d
        /\ f(d).doc = Top.doc /\ f(d).path = Top.path
    BY <1>2 DEF Frame
  <2>. QED BY <1>1, <1>2, <1>5, <2>1 DEF InContext
<1>7. r.file # Here => InContext(DocFrame(d))
  <2>1. r.file # Here => ~RefersWithin(d)
    BY <1>2, <1>3, <1>5, ReferredTo
  <2>. QED BY <2>1 DEF InContext, DocFrame
<1>. HIDE DEF f
<1>. QED BY <1>1, <1>2, <1>5, <1>6, <1>7, InRootMoves

LEMMA ElementContext ==
  ASSUME TargetInv, Rooted, InRoot, ElementDecoded
  PROVE  InRoot'
<1>. DEFINE c == Top.cell
            r == RefOf(c)
            u == r.file
            v == [inst |-> fresh, uri |-> u, name |-> Root]
            f == [Top EXCEPT !.pc = "children", !.path = ElementPath(u), !.held = v]
<1>1. /\ stack # <<>> /\ Top.fn = "resolveSchemaRef" /\ Top.pc = "element" /\ Goto(f)
      /\ world' = world /\ root' = root /\ UNCHANGED backtrack
  BY DEF ElementDecoded, At, static, call, visits
<1>2. /\ IInv /\ InContext(Top) /\ Top \in Frame /\ c.uri \in Uris
      /\ r \in Ref /\ r.name = Root
  BY <1>1, TopContext, TopType DEF IInv, FrameOK
<1>3. r \in RefsIn(c.uri) /\ r.file # Here
  BY <1>1, <1>2, RefParts, NullsAssumption, TopContext
<1>4. ~RefersWithin(u)
  BY <1>2, <1>3, ReferredTo
<1>5. f.fn = Top.fn /\ f.cell = c /\ f.pc = "children" /\ f.held = v
  BY <1>2 DEF Frame
<1>6. v.uri = u
  OBVIOUS
<1>. HIDE DEF f, v, u
<1>7. InContext(f)
  BY <1>1, <1>2, <1>4, <1>5, <1>6 DEF InContext
<1>. QED BY <1>1, <1>2, <1>7, InRootMoves

\* The copy is resolved in the context of the document it comes from.
LEMMA DrillContext ==
  ASSUME TargetInv, Rooted, InRoot, DrillTyped \/ DrillGeneric \/ DrillReread
  PROVE  /\ InRoot'
         /\ \E u \in Uris : /\ u = Top.tdoc /\ u = ComponentPath
                            /\ [uri |-> u, name |-> RefOf(Top.cell).name] = Aim(Top.cell)
<1>. DEFINE c == Top.cell
            r == RefOf(c)
            n == r.name
            T(u) == [inst |-> fresh, uri |-> u, name |-> n, k |-> 0]
            f(u) == [Top EXCEPT !.pc = "copy", !.tmp = T(u)]
            g(u) == RefFrame(T(u), Top.tdoc, ComponentPath)
<1>1. /\ stack # <<>> /\ Top.fn = "resolveSchemaRef" /\ Top.pc = "drill"
      /\ world' = world /\ root' = root /\ UNCHANGED backtrack
  BY DEF DrillTyped, DrillGeneric, DrillReread, DecodeGeneric, At, static, call, visits
<1>2. /\ IInv /\ InContext(Top) /\ Top \in Frame /\ Top.doc \in Uris /\ Top.path \in Uris
      /\ c.uri \in Uris /\ Top.tdoc \in Uris
  BY <1>1, TopContext
<1>3. r \in Ref /\ r # Nil /\ r \in RefsIn(c.uri) /\ n \in Names
  <2>1. r \in Ref /\ n # Root
    BY <1>1, <1>2, TopType DEF IInv, FrameOK
  <2>. QED BY <1>1, <2>1, RefParts, TopContext
<1>4. r.file # Here => Top.tdoc = r.file
  BY <1>1, DrillFacts
<1>5. ASSUME r.file = Here
      PROVE  RefersWithin(c.uri) /\ c.uri = root /\ Top.doc = root /\ Top.path = root /\ Top.tdoc = c.uri
  <2>1. RefersWithin(c.uri)
    BY <1>3, <1>5 DEF RefersWithin
  <2>. QED BY <1>1, <1>2, <1>5, <2>1 DEF InContext
<1>6. Top.tdoc = ComponentPath /\ [uri |-> Top.tdoc, name |-> n] = Aim(c)
  BY <1>3, <1>4, <1>5 DEF ComponentPath, Aim, LocOf, FileOf
<1>7. \E u \in {Top.tdoc, Top.path} : Defines(u, n) /\ Call(f(u), g(u))
                                      /\ (r.file # Here => u = r.file)
  <2>1. CASE DrillTyped
    <3>1. Defines(Top.tdoc, n)
      BY <1>2, <1>3, <2>1, TypedDefined DEF DrillTyped
    <3>2. \A u : T(u) = [[inst |-> 0, uri |-> u, name |-> n, k |-> 0] EXCEPT !.inst = fresh]
      OBVIOUS
    <3>. QED BY <1>4, <2>1, <3>1, <3>2 DEF DrillTyped, ResolveCopy
  <2>2. CASE DrillGeneric
    BY <1>4, <2>2 DEF DrillGeneric, Raw, DecodeGeneric, ResolveCopy
  <2>3. CASE DrillReread
    BY <1>1, <2>3, RereadsHere DEF DrillReread, DecodeGeneric, ResolveCopy
  <2>. QED BY <2>1, <2>2, <2>3
<1>8. PICK u \in {Top.tdoc, Top.path} : Defines(u, n) /\ Call(f(u), g(u))
                                      /\ (r.file # Here => u = r.file)
  BY <1>7
<1>9. u = Top.tdoc
  BY <1>4, <1>5, <1>8
<1>10. InContext(f(u))
  <2>1. f(u).fn = Top.fn /\ f(u).cell = c /\ f(u).pc = "copy"
        /\ f(u).doc = Top.doc /\ f(u).path = Top.path
    BY <1>2 DEF Frame
  <2>. QED BY <1>1, <1>2, <2>1 DEF InContext
<1>11. InContext(g(u))
  <2>1. /\ g(u).fn = "resolveSchemaRef" /\ g(u).cell = T(u) /\ g(u).pc = "enter"
        /\ g(u).doc = Top.tdoc /\ g(u).path = ComponentPath /\ T(u).uri = Top.tdoc
    BY <1>9 DEF RefFrame
  <2>2. RefersWithin(Top.tdoc) => Top.tdoc = root
    <3>1. r.file # Here => ~RefersWithin(Top.tdoc)
      BY <1>2, <1>3, <1>4, ReferredTo
    <3>. QED BY <1>5, <3>1
  <2>. HIDE DEF g, T
  <2>. QED BY <1>6, <2>1, <2>2 DEF InContext
<1>. HIDE DEF f, g
<1>12. InRoot'
  BY <1>1, <1>2, <1>8, <1>10, <1>11, InRootMoves
<1>. QED BY <1>2, <1>6, <1>12

LEMMA CopyContext ==
  ASSUME TargetInv, Rooted, InRoot, CopyResolved
  PROVE  InRoot'
<1>. DEFINE c == Top.cell
            t == Top.tmp
            f == [Top EXCEPT !.pc = "children", !.held = value[t]]
<1>1. /\ stack # <<>> /\ Top.fn = "resolveSchemaRef" /\ Top.pc = "copy" /\ Goto(f)
      /\ world' = world /\ root' = root /\ UNCHANGED backtrack
  BY DEF CopyResolved, At, static, call, visits
<1>2. /\ IInv /\ InContext(Top) /\ Top \in Frame /\ c.uri \in Uris /\ t \in DOMAIN value
      /\ c \in Cells /\ Known(Place(c)) /\ Aims(Top) /\ WorldOK
  BY <1>1, TopContext, TopType DEF IInv, FrameOK, TargetInv, Aiming, StackOK, Top
<1>3. t \in Cells /\ Known(Place(t)) /\ Right(t) /\ t.k = 0 /\ Place(t) = Aim(c)
  BY <1>1, <1>2 DEF IInv, HeapOK, TargetInv, Defined, AllRight, Aims
<1>4. ASSUME value[t] # Nil, RefersWithin(value[t].uri)
      PROVE  value[t].uri = root /\ Top.doc = root /\ Top.path = root
  <2>1. Leads(Aim(c), Place(value[t]))
    BY <1>2, <1>3, <1>4, CellMeaning DEF Right
  <2>2. c.uri = value[t].uri
    BY <1>2, <1>4, <2>1, AimsStay
  <2>. QED BY <1>1, <1>2, <1>4, <2>2 DEF InContext
<1>5. f.fn = Top.fn /\ f.cell = c /\ f.pc = "children" /\ f.held = value[t]
      /\ f.doc = Top.doc /\ f.path = Top.path
  BY <1>2 DEF Frame
<1>6. InContext(f)
  <2>. HIDE DEF f
  <2>. QED BY <1>1, <1>2, <1>4, <1>5 DEF InContext
<1>. HIDE DEF f
<1>. QED BY <1>1, <1>2, <1>6, InRootMoves

LEMMA ReturnContext ==
  ASSUME TargetInv, InRoot, ReferenceDone \/ ReturnError
  PROVE  InRoot'
<1>1. /\ stack # <<>> /\ Pop /\ world' = world /\ root' = root /\ IInv
      /\ \A r \in DOMAIN backtrack' : r \in DOMAIN backtrack /\ backtrack'[r] = backtrack[r]
  BY DEF ReferenceDone, ReturnError, ReturnRef, UnvisitRef, At, static, call, visits, TargetInv,
         ValueInv
<1>. QED BY <1>1, InRootMoves

LEMMA ContextStep ==
  ASSUME TargetInv, Rooted, InRoot, [Next]_vars
  PROVE  InRoot'
<1>1. CASE LoadFromURI
  BY <1>1, LoadContext
<1>2. CASE Step
  BY <1>2, WalkContext, InProgressContext, DocumentContext, ElementContext, DrillContext,
     CopyContext, ReturnContext DEF Step, ResolveRef
<1>3. CASE Finished \/ UNCHANGED vars
  <2>1. world' = world /\ root' = root /\ stack' = stack /\ backtrack' = backtrack /\ IInv
    BY <1>3 DEF Finished, vars, TargetInv, ValueInv
  <2>. QED BY <2>1, InRootMoves
<1>. QED BY <1>1, <1>2, <1>3 DEF Next

LEMMA TargetStep ==
  ASSUME TargetInv, [Next]_vars
  PROVE  TargetInv'
<1>1. ValueInv' /\ IInv'
  BY FramesStep DEF TargetInv, ValueInv
<1>2. world' = world
  BY DEF Next, LoadFromURI, LoadReadFails, LoadCached, LoadUndecodable, LoadDecoded, Begin, Step,
     ResolveRef, NextComponent, DocumentDone, EnterInline, EnterResolved, EnterInProgress,
     EnterUnvisited, ElementFails, ElementDecoded, DocumentHere, DocumentFails, DocumentCached,
     DocumentUndecodable, DocumentLoaded, DrillTyped, DrillGeneric, DrillReread, DrillFails,
     DecodeGeneric, CopyResolved, NextChild, ReferenceDone, ReturnError, Finished, vars, static
<1>3. NoneDangling' /\ (NamesApart' \/ (Rooted' /\ InRoot'))
  BY <1>2, SameAims, ContextStep DEF TargetInv
<1>4. CASE LoadFromURI
  BY <1>1, <1>3, <1>4, LoadTargets DEF TargetInv
<1>5. CASE Step
  BY <1>1, <1>3, <1>5, WalkTargets, DocumentStepTargets, ElementTargets, DrillTargets,
     CopyTargets, ReturnTargets DEF Step, ResolveRef, TargetInv
<1>6. CASE Finished \/ UNCHANGED vars
  <2>1. UNCHANGED <<world, value, visitedDocuments, stack>>
    BY <1>6 DEF Finished, vars
  <2>2. Aiming'
    BY <2>1, AimingMoves DEF TargetInv, ValueInv
  <2>. QED BY <1>1, <1>2, <1>3, <2>1, <2>2, QuietTargets DEF TargetInv
<1>. QED BY <1>4, <1>5, <1>6 DEF Next

LEMMA TargetStarts ==
  ASSUME Init, NoneDangling, NamesApart \/ Rooted
  PROVE  TargetInv
<1>1. ValueInv
  BY ValueStarts
<1>2. Defined /\ AllRight /\ Aiming /\ Cached /\ InRoot
  BY DEF Init, Defined, AllRight, Aiming, Cached, InRoot
<1>. QED BY <1>1, <1>2 DEF TargetInv

\* In files without dangling references, whose references mean one thing, a
\* resolved reference points to the object it denotes in the file it was
\* written in, whatever was visited before, was in progress, failed, or was
\* loaded in earlier calls.
THEOREM TargetsAreRight ==
  Spec /\ NoneDangling /\ (NamesApart \/ Rooted) => []RightTarget
<1>1. Init /\ NoneDangling /\ (NamesApart \/ Rooted) => TargetInv
  BY TargetStarts
<1>2. TargetInv /\ [Next]_vars => TargetInv'
  BY TargetStep
<1>3. TargetInv => RightTarget
  <2>. SUFFICES ASSUME TargetInv, NEW c \in DOMAIN value, RefOf(c) # Nil, value[c] # Nil
                PROVE  Place(value[c]) = Denotes(RefOf(c), c.uri)
    BY DEF RightTarget, Place
  <2>1. c \in Cells /\ WorldOK /\ Known(Place(c)) /\ Right(c)
    BY DEF TargetInv, ValueInv, IInv, HeapOK, Defined, AllRight
  <2>2. Aim(c) \in Loc /\ Aim(c) = LocOf(RefOf(c), c.uri)
    BY <2>1, CellMeaning DEF Aim
  <2>. QED BY <2>1, <2>2, LeadsDenotes DEF Right, Denotes
<1>. QED BY <1>1, <1>2, <1>3, PTL DEF Spec

(***************************************************************************)
(* Errors.                                                                 *)
(***************************************************************************)
NoError == status # "failing" /\ result # "err"

ErrorInv ==
  /\ IInv /\ Rooted
  /\ Sound => /\ TargetInv /\ InRoot
              /\ stack # <<>> => root \in visitedDocuments
              /\ faults = 0 => NoError

LEMMA SoundReference ==
  ASSUME Sound, TargetInv, InRoot, stack # <<>>, Top.fn = "resolveSchemaRef",
         RefOf(Top.cell) # Nil
  PROVE  /\ Allowed(RefOf(Top.cell))
         /\ RefOf(Top.cell).name = Root \/
              Defines(FileOf(RefOf(Top.cell), Top.cell.uri), RefOf(Top.cell).name)
         /\ RefOf(Top.cell).file # Here => world[RefOf(Top.cell).file].kind # "broken"
BY TopContext, RefParts DEF Sound

\* No step finds an error of its own in sound files.
LEMMA NoErrorStep ==
  ASSUME ErrorInv, Sound, faults = 0, faults' = 0, [Next]_vars
  PROVE  NoError'
<1>1. TargetInv /\ InRoot /\ NoError /\ Rooted /\ (stack # <<>> => root \in visitedDocuments)
  BY DEF ErrorInv
<1>2. ~ReadFail
  BY DEF ReadFail
<1>3. /\ ~(\E u \in Uris : LoadReadFails(u) \/ LoadUndecodable(u))
      /\ ~ReturnError
  BY <1>1, <1>2 DEF LoadReadFails, LoadUndecodable, Sound, ReturnError, NoError
<1>4. ~ElementFails
  <2>. SUFFICES ASSUME ElementFails PROVE FALSE
    OBVIOUS
  <2>1. stack # <<>> /\ Top.fn = "resolveSchemaRef" /\ Top.pc = "element"
    BY DEF ElementFails, At
  <2>2. RefOf(Top.cell) \in Ref /\ RefOf(Top.cell).name = Root
    BY <2>1, TopType DEF FrameOK, ErrorInv, IInv
  <2>3. RefOf(Top.cell) # Nil /\ RefOf(Top.cell).file # Here
    BY <2>2, RefParts, NullsAssumption
  <2>. QED BY <1>1, <1>2, <2>1, <2>3, SoundReference DEF ElementFails
<1>5. ~(DocumentFails \/ DocumentUndecodable)
  <2>. SUFFICES ASSUME DocumentFails \/ DocumentUndecodable PROVE FALSE
    OBVIOUS
  <2>1. stack # <<>> /\ Top.fn = "resolveSchemaRef" /\ Top.pc = "document"
        /\ RefOf(Top.cell).file # Here
    BY DEF DocumentFails, DocumentUndecodable, At
  <2>2. RefOf(Top.cell) \in Ref
    BY <2>1, TopType DEF FrameOK, ErrorInv, IInv
  <2>3. RefOf(Top.cell) # Nil
    BY <2>2, RefParts
  <2>. QED BY <1>1, <1>2, <2>1, <2>3, SoundReference DEF DocumentFails, DocumentUndecodable
<1>6. ~DrillFails
  <2>. SUFFICES ASSUME DrillFails PROVE FALSE
    OBVIOUS
  <2>. DEFINE c == Top.cell
              r == RefOf(c)
  <2>1. /\ stack # <<>> /\ Top.fn = "resolveSchemaRef" /\ Top.pc = "drill" /\ NotInDocument
    BY DEF DrillFails, At
  <2>2. r \in Ref /\ r.name # Root
    BY <2>1, TopType DEF FrameOK, ErrorInv, IInv
  <2>3. r # Nil /\ r.name \in Names /\ r.file = Here
    BY <1>1, <2>1, <2>2, RefParts, RereadsHere
  <2>4. InContext(Top) /\ r \in RefsIn(c.uri)
    BY <1>1, <2>1, <2>3, TopContext
  <2>5. Top.tdoc = c.uri /\ c.uri = root
    BY <2>1, <2>3, <2>4 DEF InContext, RefersWithin
  <2>6. Defines(c.uri, r.name)
    BY <1>1, <2>1, <2>2, <2>3, SoundReference DEF FileOf
  <2>. QED BY <1>1, <2>1, <2>3, <2>5, <2>6, CachedFound DEF NotInDocument
<1>. QED BY <1>1, <1>3, <1>4, <1>5, <1>6
     DEF NoError, Next, LoadFromURI, LoadCached, LoadDecoded, Step, ResolveRef, NextComponent,
         DocumentDone, EnterInline, EnterResolved, EnterInProgress, EnterUnvisited,
         ElementDecoded, DocumentHere, DocumentCached, DocumentLoaded, DrillTyped, DrillGeneric,
         DrillReread, DecodeGeneric, CopyResolved, NextChild, ReferenceDone, Finished, vars, call

LEMMA SameSoundness ==
  ASSUME [Next]_vars
  PROVE  Sound' = Sound /\ world' = world /\ isExternalRefsAllowed' = isExternalRefsAllowed
<1>1. world' = world /\ isExternalRefsAllowed' = isExternalRefsAllowed
  BY DEF Next, LoadFromURI, LoadReadFails, LoadCached, LoadUndecodable, LoadDecoded, Begin, Step,
     ResolveRef, NextComponent, DocumentDone, EnterInline, EnterResolved, EnterInProgress,
     EnterUnvisited, ElementFails, ElementDecoded, DocumentHere, DocumentFails, DocumentCached,
     DocumentUndecodable, DocumentLoaded, DrillTyped, DrillGeneric, DrillReread, DrillFails,
     DecodeGeneric, CopyResolved, NextChild, ReferenceDone, ReturnError, Finished, vars, static
<1>. QED BY <1>1 DEF Sound, RefsIn, Defines, ShapeAt, Allowed, FileOf

LEMMA FaultsGrow ==
  ASSUME IInv, [Next]_vars
  PROVE  faults' = 0 => faults = 0
<1>1. ReadFail => faults' # 0
  BY DEF ReadFail, IInv, CallOK
<1>. QED BY <1>1
     DEF Next, LoadFromURI, LoadReadFails, LoadCached, LoadUndecodable, LoadDecoded, Begin, Step,
     ResolveRef, NextComponent, DocumentDone, EnterInline, EnterResolved, EnterInProgress,
     EnterUnvisited, ElementFails, ElementDecoded, DocumentHere, DocumentFails, DocumentCached,
     DocumentUndecodable, DocumentLoaded, DrillTyped, DrillGeneric, DrillReread, DrillFails,
     DecodeGeneric, CopyResolved, NextChild, ReferenceDone, ReturnError, Finished, vars, ReadOK

\* The document being loaded is cached.
LEMMA RootCachedStep ==
  ASSUME IInv, stack # <<>> => root \in visitedDocuments, Resting, [Next]_vars
  PROVE  stack' # <<>> => root' \in visitedDocuments'
<1>1. CASE LoadFromURI
  BY <1>1 DEF LoadFromURI, LoadReadFails, LoadCached, LoadUndecodable, LoadDecoded, Begin, Resting
<1>2. CASE Step
  <2>1. CASE NextComponent \/ DocumentDone
    BY <2>1 DEF NextComponent, DocumentDone, At, call
  <2>2. CASE EnterInline \/ EnterResolved \/ EnterInProgress \/ EnterUnvisited
    BY <2>2 DEF EnterInline, EnterResolved, EnterInProgress, EnterUnvisited, At, call
  <2>3. CASE ElementFails \/ ElementDecoded
    BY <2>3 DEF ElementFails, ElementDecoded, At, Fail, call
  <2>4. CASE DocumentHere \/ DocumentFails \/ DocumentCached
    BY <2>4 DEF DocumentHere, DocumentFails, DocumentCached, At, Fail, call
  <2>5. CASE DocumentUndecodable \/ DocumentLoaded
    BY <2>5 DEF DocumentUndecodable, DocumentLoaded, At, Fail, call
  <2>6. CASE DrillTyped \/ DrillGeneric
    BY <2>6 DEF DrillTyped, DrillGeneric, DecodeGeneric, At, call
  <2>7. CASE DrillReread \/ DrillFails \/ CopyResolved
    BY <2>7 DEF DrillReread, DrillFails, CopyResolved, DecodeGeneric, At, Fail, call
  <2>8. CASE NextChild \/ ReferenceDone \/ ReturnError
    BY <2>8 DEF NextChild, ReferenceDone, ReturnError, At, call
  <2>. QED BY <1>2, <2>1, <2>2, <2>3, <2>4, <2>5, <2>6, <2>7, <2>8 DEF Step, ResolveRef
<1>3. CASE Finished \/ UNCHANGED vars
  BY <1>3 DEF Finished, vars
<1>. QED BY <1>1, <1>2, <1>3 DEF Next

\* When only roots refer within themselves, a load of sound files returns an
\* error only if a read failed: no order of visits, no circle, no copy and no
\* earlier call makes the Loader look for a component where it is not.
THEOREM ErrorsAreJustified == Spec /\ Rooted => []ErrorsJustified
<1>1. Init /\ Rooted => ErrorInv
  <2>. SUFFICES ASSUME Init, Rooted PROVE ErrorInv
    OBVIOUS
  <2>1. Sound => NoneDangling
    BY DEF Sound, NoneDangling
  <2>2. Sound => TargetInv
    BY <2>1, TargetStarts
  <2>3. InRoot /\ NoError /\ stack = <<>>
    BY DEF Init, InRoot, NoError
  <2>. QED BY <2>2, <2>3, InitOK DEF ErrorInv
<1>2. ErrorInv /\ [Next]_vars => ErrorInv'
  <2>. SUFFICES ASSUME ErrorInv, [Next]_vars PROVE ErrorInv'
    OBVIOUS
  <2>1. Sound' = Sound /\ Rooted' /\ IInv'
    BY SameSoundness, SameAims, StepKeeps DEF ErrorInv
  <2>2. ASSUME Sound
        PROVE  TargetInv' /\ InRoot' /\ (stack' # <<>> => root' \in visitedDocuments')
    BY <2>2, TargetStep, ContextStep, RootCachedStep DEF ErrorInv, TargetInv, ValueInv
  <2>3. Sound /\ faults' = 0 => NoError'
    BY FaultsGrow, NoErrorStep DEF ErrorInv
  <2>. QED BY <2>1, <2>2, <2>3 DEF ErrorInv
<1>3. ErrorInv => ErrorsJustified
  <2>1. IInv => (faults = 0 \/ faults > 0)
    BY BoundsAssumption DEF IInv, CallOK
  <2>. QED BY <2>1 DEF ErrorInv, NoError, ErrorsJustified
<1>. QED BY <1>1, <1>2, <1>3, PTL DEF Spec

(***************************************************************************)
(* The locations remembered with resolved references.                      *)
(***************************************************************************)
\* Two ways to say where the target of a component is lead to the same objects.
Agrees(l, c) == l \in Loc /\ \A t : Leads(l, t) <=> Leads(Aim(c), t)

\* A reference has its location with its value, and the location is right.
Located(c) ==
  /\ RefOf(c) # Nil /\ value[c] # Nil => refPath[c] # Nil
  /\ refPath[c] # Nil => Agrees(refPath[c], c)
AllLocated == \A c \in DOMAIN value : Located(c)

\* A copy has its location before it has its value.
CopyLocated(f) == f.fn = "resolveSchemaRef" /\ f.pc = "copy" => refPath[f.tmp] # Nil
CopiesLocated == \A i \in DOMAIN stack : CopyLocated(stack[i])

PathInv == TargetInv /\ Rooted /\ InRoot /\ AllLocated /\ CopiesLocated

LEMMA LocatedKeeps ==
  ASSUME world' = world, AllLocated,
         \A c \in DOMAIN value' :
            \/ c \in DOMAIN value /\ value'[c] = value[c] /\ refPath'[c] = refPath[c]
            \/ refPath'[c] = Nil /\ (RefOf(c) = Nil \/ value'[c] = Nil)
            \/ refPath'[c] # Nil /\ Agrees(refPath'[c], c)
  PROVE  AllLocated'
<1>1. \A c : RefOf(c)' = RefOf(c)
  BY SameWorld
<1>3. \A l, c : Agrees(l, c) => Agrees(l, c)'
  <2>1. \A c : Aim(c)' = Aim(c)
    BY SameAims
  <2>2. Follow' = Follow
    BY DEF Follow, Defines, ShapeAt, LocOf, FileOf
  <2>. QED BY <2>1, <2>2 DEF Agrees, Leads, NoLoc
<1>4. ASSUME NEW c \in DOMAIN value' PROVE Located(c)'
  <2>1. CASE c \in DOMAIN value /\ value'[c] = value[c] /\ refPath'[c] = refPath[c]
    <3>1. /\ RefOf(c)' # Nil /\ value'[c] # Nil => refPath'[c] # Nil
          /\ refPath'[c] # Nil => Agrees(refPath'[c], c)
      BY <1>1, <2>1 DEF AllLocated, Located
    <3>2. \A l : l = refPath'[c] /\ Agrees(l, c) => Agrees(refPath[c], c)'
      BY <1>3
    <3>. QED BY <3>1, <3>2 DEF Located
  <2>2. CASE refPath'[c] = Nil /\ (RefOf(c) = Nil \/ value'[c] = Nil)
    BY <1>1, <2>2 DEF Located
  <2>3. CASE refPath'[c] # Nil /\ Agrees(refPath'[c], c)
    <3>2. \A l : l = refPath'[c] /\ Agrees(l, c) => Agrees(refPath[c], c)'
      BY <1>3
    <3>. QED BY <2>3, <3>2 DEF Located
  <2>. QED BY <2>1, <2>2, <2>3
<1>. QED BY <1>4 DEF AllLocated

\* A component keeps the location it was given.
Remembered == \A c \in DOMAIN refPath : refPath[c] # Nil => refPath'[c] # Nil

LEMMA CopiesMove ==
  ASSUME IInv, CopiesLocated, Remembered
  PROVE  /\ stack' = stack => CopiesLocated'
         /\ stack # <<>> /\ Pop => CopiesLocated'
         /\ stack # <<>> => \A f : CopyLocated(f)' /\ Goto(f) => CopiesLocated'
         /\ stack # <<>> => \A f, g : CopyLocated(f)' /\ CopyLocated(g)' /\ Call(f, g)
                                        => CopiesLocated'
<1>1. \A f : (\E i \in DOMAIN stack : f = stack[i]) => CopyLocated(f)'
  <2>1. \A f : (\E i \in DOMAIN stack : f = stack[i]) => CopyLocated(f) /\ FrameOK(f)
    BY DEF CopiesLocated, IInv, StackOK
  <2>2. \A f : FrameOK(f) /\ CopyLocated(f) => CopyLocated(f)'
    BY DEF CopyLocated, FrameOK, Remembered, IInv, HeapOK
  <2>. QED BY <2>1, <2>2
<1>2. (\A i \in DOMAIN stack' : \E f : f = stack'[i] /\ CopyLocated(f)') => CopiesLocated'
  BY DEF CopiesLocated
<1>3. ASSUME stack' = stack PROVE CopiesLocated'
  BY <1>1, <1>2, <1>3
<1>4. ASSUME stack # <<>>, Pop PROVE CopiesLocated'
  <2>1. \A i \in DOMAIN stack' : i \in DOMAIN stack /\ stack'[i] = stack[i]
    BY <1>4, PopMoves DEF IInv
  <2>. QED BY <1>1, <1>2, <2>1
<1>5. ASSUME stack # <<>>, NEW f, CopyLocated(f)', Goto(f) PROVE CopiesLocated'
  <2>1. \A i \in DOMAIN stack' : stack'[i] = f \/ (i \in DOMAIN stack /\ stack'[i] = stack[i])
    BY <1>5, GotoMoves DEF IInv
  <2>. QED BY <1>1, <1>2, <1>5, <2>1
<1>6. ASSUME stack # <<>>, NEW f, NEW g, CopyLocated(f)', CopyLocated(g)', Call(f, g)
      PROVE  CopiesLocated'
  <2>1. \A i \in DOMAIN stack' : \/ stack'[i] = f \/ stack'[i] = g
                                 \/ (i \in DOMAIN stack /\ stack'[i] = stack[i])
    BY <1>6, CallPuts DEF IInv
  <2>. QED BY <1>1, <1>2, <1>6, <2>1
<1>. QED BY <1>3, <1>4, <1>5, <1>6

\* The steps that leave the heap alone.
LEMMA QuietLocated ==
  ASSUME PathInv, world' = world, UNCHANGED heap
  PROVE  AllLocated' /\ Remembered
<1>1. \A c \in DOMAIN value' : c \in DOMAIN value /\ value'[c] = value[c] /\ refPath'[c] = refPath[c]
  BY DEF heap
<1>2. AllLocated'
  BY <1>1, LocatedKeeps DEF PathInv
<1>. QED BY <1>2 DEF Remembered, heap

LEMMA WalkLocated ==
  ASSUME PathInv,
         \/ NextComponent \/ DocumentDone \/ EnterInline \/ EnterResolved \/ EnterInProgress
         \/ EnterUnvisited \/ NextChild \/ ElementFails \/ DocumentFails \/ DrillFails
         \/ DocumentUndecodable \/ DocumentHere \/ DocumentCached
  PROVE  AllLocated' /\ CopiesLocated'
<1>1. world' = world /\ UNCHANGED heap
  BY DEF NextComponent, DocumentDone, EnterInline, EnterResolved, EnterInProgress,
     EnterUnvisited, NextChild, ElementFails, DocumentFails, DrillFails, DocumentUndecodable,
     DocumentHere, DocumentCached, Fail, static
<1>2. IInv /\ CopiesLocated /\ AllLocated' /\ Remembered
  BY <1>1, QuietLocated DEF PathInv, TargetInv, ValueInv
<1>3. CASE ElementFails \/ DocumentFails \/ DrillFails \/ DocumentUndecodable
  <2>1. stack' = stack
    BY <1>3 DEF ElementFails, DocumentFails, DrillFails, DocumentUndecodable, Fail
  <2>. QED BY <1>2, <2>1, CopiesMove
<1>4. CASE DocumentDone \/ EnterResolved \/ EnterInProgress
  <2>1. stack # <<>> /\ Pop
    BY <1>4 DEF DocumentDone, EnterResolved, EnterInProgress, At
  <2>. QED BY <1>2, <2>1, CopiesMove
<1>5. CASE EnterInline \/ EnterUnvisited \/ DocumentHere \/ DocumentCached
  <2>1. stack # <<>> /\ \E f : Goto(f) /\ f.pc # "copy"
    <3>1. stack # <<>> /\ Top \in Frame
      BY <1>2, <1>5, TopType DEF EnterInline, EnterUnvisited, DocumentHere, DocumentCached, At,
         IInv
    <3>2. CASE EnterInline
      <4>. DEFINE f == [Top EXCEPT !.pc = "children", !.held = value[Top.cell]]
      <4>1. Goto(f) /\ f.pc = "children"
        BY <3>1, <3>2 DEF EnterInline, Frame
      <4>. QED BY <3>1, <4>1
    <3>3. CASE EnterUnvisited
      <4>. DEFINE f(p) == [Top EXCEPT !.pc = p]
      <4>1. \E p \in {"element", "document"} : Goto(f(p))
        BY <3>3 DEF EnterUnvisited
      <4>2. \A p : f(p).pc = p
        BY <3>1 DEF Frame
      <4>. HIDE DEF f
      <4>3. \A p \in {"element", "document"} : f(p).pc # "copy"
        BY <4>2
      <4>. QED BY <3>1, <4>1, <4>3
    <3>4. CASE DocumentHere \/ DocumentCached
      <4>. DEFINE f(u) == [Top EXCEPT !.pc = "drill", !.tdoc = u]
      <4>1. \E u : Goto(f(u))
        BY <3>4 DEF DocumentHere, DocumentCached
      <4>2. \A u : f(u).pc = "drill"
        BY <3>1 DEF Frame
      <4>. HIDE DEF f
      <4>. QED BY <3>1, <4>1, <4>2
    <3>. QED BY <1>5, <3>2, <3>3, <3>4
  <2>2. \A f : f.pc # "copy" => CopyLocated(f)'
    BY DEF CopyLocated
  <2>. QED BY <1>2, <2>1, <2>2, CopiesMove
<1>6. CASE NextComponent \/ NextChild
  <2>1. /\ stack # <<>> /\ Top \in Frame /\ CopyLocated(Top)
        /\ Top.fn = "ResolveRefsIn" \/ Top.pc = "children"
    BY <1>2, <1>6, TopType DEF NextComponent, NextChild, At, IInv, CopiesLocated, StackOK, Top
  <2>2. PICK f : /\ f = [Top EXCEPT !.pos = @ + 1]
                 /\ Goto(f) \/ \E g : Call(f, g) /\ g.pc = "enter"
    <3>1. \A c, d, p : RefFrame(c, d, p).pc = "enter"
      BY DEF RefFrame
    <3>. QED BY <1>6, <3>1 DEF NextComponent, NextChild
  <2>3. f.fn = "ResolveRefsIn" \/ f.pc = "children"
    BY <2>1, <2>2 DEF Frame
  <2>4. CopyLocated(f)'
    BY <2>3 DEF CopyLocated
  <2>5. \A g : g.pc = "enter" => CopyLocated(g)'
    BY DEF CopyLocated
  <2>. QED BY <1>2, <2>1, <2>2, <2>4, <2>5, CopiesMove
<1>. QED BY <1>3, <1>4, <1>5, <1>6

\* Decoding a document.
LEMMA AllocateLocated ==
  ASSUME PathInv, world' = world, NEW u \in Uris, u \notin visitedDocuments, Allocate(DocCells(u))
  PROVE  AllLocated' /\ Remembered
<1>1. HeapOK /\ Born /\ DOMAIN refPath = DOMAIN value
  BY DEF PathInv, TargetInv, ValueInv, IInv, HeapOK
<1>2. \A c \in DocCells(u) : c.inst = 0 /\ c.uri = u
  BY DEF DocCells, Decoded
<1>3. DocCells(u) \cap DOMAIN value = {}
  BY <1>1, <1>2, FreshCells
<1>4. \A c : RefOf(c) # Nil => Unmarshalled(c) = Nil
  BY DEF Unmarshalled
<1>5. \A c \in DOMAIN value' :
            \/ c \in DOMAIN value /\ value'[c] = value[c] /\ refPath'[c] = refPath[c]
            \/ refPath'[c] = Nil /\ (RefOf(c) = Nil \/ value'[c] = Nil)
  BY <1>1, <1>4 DEF Allocate
<1>6. AllLocated'
  BY <1>5, LocatedKeeps DEF PathInv
<1>7. Remembered
  BY <1>1, <1>3 DEF Remembered, Allocate
<1>. QED BY <1>6, <1>7

LEMMA LoadLocated ==
  ASSUME PathInv, LoadFromURI
  PROVE  AllLocated' /\ CopiesLocated'
<1>. PICK u \in Uris : \/ LoadReadFails(u) \/ LoadCached(u)
                       \/ LoadUndecodable(u) \/ LoadDecoded(u)
  BY DEF LoadFromURI
<1>1. /\ stack = <<>> /\ world' = world /\ fresh' = fresh
      /\ stack' = <<>> \/ stack' = <<DocFrame(u)>>
  BY DEF LoadReadFails, LoadCached, LoadUndecodable, LoadDecoded, Begin, TargetInv, PathInv,
         ValueInv, Resting, static
<1>2. CopiesLocated'
  <2>1. \A i \in DOMAIN stack' : stack'[i] = DocFrame(u)
    BY <1>1
  <2>. QED BY <2>1 DEF CopiesLocated, CopyLocated, DocFrame
<1>3. UNCHANGED heap \/ (u \notin visitedDocuments /\ Allocate(DocCells(u)))
  BY <1>1 DEF LoadReadFails, LoadCached, LoadUndecodable, LoadDecoded, heap
<1>. QED BY <1>1, <1>2, <1>3, AllocateLocated, QuietLocated

LEMMA DocumentLocated ==
  ASSUME PathInv, DocumentLoaded
  PROVE  AllLocated' /\ CopiesLocated'
<1>. DEFINE u == RefOf(Top.cell).file
            f == [Top EXCEPT !.pc = "drill", !.tdoc = u]
<1>1. /\ stack # <<>> /\ Call(f, DocFrame(u)) /\ world' = world
      /\ u \notin visitedDocuments /\ Allocate(DocCells(u)) /\ u # Here
      /\ Top.fn = "resolveSchemaRef" /\ Top.pc = "document"
  BY DEF DocumentLoaded, At, static
<1>2. /\ IInv /\ Top \in Frame /\ u \in Uris /\ CopiesLocated
  BY <1>1, TopType, RefParts DEF PathInv, TargetInv, ValueInv, IInv, FrameOK
<1>3. AllLocated' /\ Remembered
  BY <1>1, <1>2, AllocateLocated
<1>4. \E g, h : Call(g, h) /\ g.pc = "drill" /\ h.fn = "ResolveRefsIn"
  <2>1. f.pc = "drill" /\ DocFrame(u).fn = "ResolveRefsIn"
    BY <1>2 DEF Frame, DocFrame
  <2>. HIDE DEF f
  <2>. QED BY <1>1, <2>1
<1>5. \A g : g.pc = "drill" \/ g.fn = "ResolveRefsIn" => CopyLocated(g)'
  BY DEF CopyLocated
<1>. HIDE DEF f
<1>. QED BY <1>1, <1>2, <1>3, <1>4, <1>5, CopiesMove

\* The component gets its value from the whole file, and its location.
LEMMA ElementLocated ==
  ASSUME PathInv, ElementDecoded
  PROVE  AllLocated' /\ CopiesLocated'
<1>. DEFINE c   == Top.cell
            r   == RefOf(c)
            u   == r.file
            v   == [inst |-> fresh, uri |-> u, name |-> Root]
            new == Decoded(fresh, u, Root)
            f   == [Top EXCEPT !.pc = "children", !.path = ElementPath(u), !.held = v]
            loc == [uri |-> u, name |-> Root]
<1>1. /\ stack # <<>> /\ Top.fn = "resolveSchemaRef" /\ Top.pc = "element"
      /\ value' = [d \in DOMAIN value \cup new |->
              IF d = c THEN v ELSE IF d \in new THEN Unmarshalled(d) ELSE value[d]]
      /\ refPath' = [d \in DOMAIN refPath \cup new |->
              IF d = c /\ refPath[c] = Nil THEN loc
              ELSE IF d \in DOMAIN refPath THEN refPath[d] ELSE Nil]
      /\ Goto(f) /\ world' = world
  BY DEF ElementDecoded, At, static
<1>2. /\ IInv /\ Top \in Frame /\ c \in DOMAIN value /\ r \in Ref /\ r.name = Root
      /\ DOMAIN refPath = DOMAIN value /\ HeapOK /\ Born /\ CopiesLocated /\ AllLocated
  BY <1>1, TopType DEF PathInv, TargetInv, ValueInv, IInv, FrameOK, HeapOK
<1>3. u \in Uris /\ u # Here /\ r # Nil
  BY <1>2, RefParts, NullsAssumption
<1>4. Agrees(loc, c) /\ loc # Nil
  <2>1. loc = Aim(c) /\ loc \in Loc
    BY <1>2, <1>3 DEF Aim, LocOf, FileOf, Loc
  <2>. QED BY <2>1, NilAssumption DEF Agrees
<1>5. new \cap DOMAIN value = {}
  <2>1. \A d \in new : d.inst = fresh
    BY DEF Decoded
  <2>. QED BY <1>2, <2>1, FreshCells
<1>6. \A d : RefOf(d) # Nil => Unmarshalled(d) = Nil
  BY DEF Unmarshalled
<1>7. Agrees(refPath'[c], c) /\ refPath'[c] # Nil
  BY <1>1, <1>2, <1>4 DEF AllLocated, Located
<1>8. \E g : Goto(g) /\ g.pc = "children"
  <2>1. f.pc = "children"
    BY <1>2 DEF Frame
  <2>. QED BY <1>1, <2>1
<1>. HIDE DEF v, new, f, loc
<1>9. \A d \in DOMAIN value' :
            \/ d \in DOMAIN value /\ value'[d] = value[d] /\ refPath'[d] = refPath[d]
            \/ refPath'[d] = Nil /\ (RefOf(d) = Nil \/ value'[d] = Nil)
            \/ refPath'[d] # Nil /\ Agrees(refPath'[d], d)
  <2>. SUFFICES ASSUME NEW d \in DOMAIN value', d # c
                PROVE  \/ d \in DOMAIN value /\ value'[d] = value[d] /\ refPath'[d] = refPath[d]
                       \/ refPath'[d] = Nil /\ (RefOf(d) = Nil \/ value'[d] = Nil)
    BY <1>7
  <2>1. CASE d \in DOMAIN value
    BY <1>1, <1>2, <1>5, <2>1
  <2>2. CASE d \in new
    BY <1>1, <1>2, <1>5, <1>6, <2>2
  <2>. QED BY <1>1, <2>1, <2>2
<1>10. AllLocated'
  BY <1>1, <1>2, <1>9, LocatedKeeps
<1>11. Remembered
  BY <1>1, <1>2, <1>4 DEF Remembered
<1>12. \A g : g.pc = "children" => CopyLocated(g)'
  BY DEF CopyLocated
<1>. QED BY <1>1, <1>2, <1>8, <1>10, <1>11, <1>12, CopiesMove

\* The component gets the location of its copy, which is what it stands for.
LEMMA CopyLocatedStep ==
  ASSUME PathInv, CopyResolved
  PROVE  AllLocated' /\ CopiesLocated'
<1>. DEFINE c == Top.cell
            t == Top.tmp
            f == [Top EXCEPT !.pc = "children", !.held = value[t]]
<1>1. /\ stack # <<>> /\ Top.fn = "resolveSchemaRef" /\ Top.pc = "copy"
      /\ value' = [value EXCEPT ![c] = value[t]]
      /\ refPath' = [refPath EXCEPT ![c] = IF @ = Nil THEN refPath[t] ELSE @]
      /\ Goto(f) /\ world' = world
  BY DEF CopyResolved, At, static
<1>2. /\ IInv /\ Top \in Frame /\ c \in DOMAIN value /\ t \in DOMAIN value
      /\ DOMAIN refPath = DOMAIN value /\ Aims(Top) /\ CopyLocated(Top)
      /\ AllLocated /\ CopiesLocated
  <2>1. Len(stack) \in DOMAIN stack
    BY <1>1 DEF PathInv, TargetInv, ValueInv, IInv, StackOK
  <2>. QED BY <1>1, <2>1, TopType
           DEF PathInv, TargetInv, ValueInv, IInv, FrameOK, HeapOK, Aiming, CopiesLocated, Top
<1>3. refPath[t] # Nil /\ Agrees(refPath[t], t)
  BY <1>1, <1>2 DEF CopyLocated, AllLocated, Located
<1>4. Agrees(refPath[t], c)
  <2>1. t.k = 0 /\ Place(t) = Aim(c)
    BY <1>1, <1>2 DEF Aims
  <2>2. t \in Cells /\ Known(Place(t)) /\ WorldOK
    BY <1>2 DEF IInv, HeapOK, PathInv, TargetInv, Defined
  <2>3. \A x : Leads(Aim(c), x) <=> Leads(Aim(t), x)
    BY <2>1, <2>2, CellMeaning
  <2>. QED BY <1>3, <2>3 DEF Agrees
<1>5. Agrees(refPath'[c], c) /\ refPath'[c] # Nil
  BY <1>1, <1>2, <1>3, <1>4 DEF AllLocated, Located
<1>6. \E g : Goto(g) /\ g.pc = "children"
  <2>1. f.pc = "children"
    BY <1>2 DEF Frame
  <2>. QED BY <1>1, <2>1
<1>. HIDE DEF f, c, t
<1>7. AllLocated'
  BY <1>1, <1>2, <1>5, LocatedKeeps
<1>8. Remembered
  BY <1>1, <1>2, <1>3 DEF Remembered
<1>9. \A g : g.pc = "children" => CopyLocated(g)'
  BY DEF CopyLocated
<1>. QED BY <1>1, <1>2, <1>6, <1>7, <1>8, <1>9, CopiesMove

\* The callbacks get the location that their reference denotes.
LEMMA ReturnLocated ==
  ASSUME PathInv, ReferenceDone \/ ReturnError
  PROVE  AllLocated' /\ CopiesLocated'
<1>1. /\ stack # <<>> /\ Pop /\ world' = world
      /\ IF Top.fn = "resolveSchemaRef" /\ Top.pc = "children"
         THEN ReturnRef ELSE UNCHANGED <<heap, visits>>
  BY DEF ReferenceDone, ReturnError, At, static
<1>2. IInv /\ DOMAIN refPath = DOMAIN value /\ AllLocated /\ CopiesLocated
  BY DEF PathInv, TargetInv, ValueInv, IInv, HeapOK
<1>3. AllLocated' /\ Remembered
  <2>1. CASE Handing(Top)
    <3>. DEFINE r == RefOf(Top.cell)
                v == Top.held
    <3>1. UnvisitRef(r, v)
      BY <1>1, <2>1 DEF Handing, ReturnRef
    <3>2. /\ value' = [c \in DOMAIN value |->
                         IF c \in DOMAIN Callbacks(r) THEN v ELSE value[c]]
          /\ refPath' = [c \in DOMAIN refPath |->
                         IF c \in DOMAIN Callbacks(r) /\ refPath[c] = Nil
                         THEN Callbacks(r)[c] ELSE refPath[c]]
      BY <3>1 DEF UnvisitRef
    <3>. HIDE DEF v
    <3>3. ASSUME NEW c \in DOMAIN Callbacks(r)
          PROVE  c \in DOMAIN value /\ Agrees(Callbacks(r)[c], c) /\ Callbacks(r)[c] # Nil
      <4>1. r \in DOMAIN backtrack /\ c \in DOMAIN backtrack[r] /\ Callbacks(r) = backtrack[r]
        BY DEF Callbacks
      <4>2. c \in DOMAIN value /\ backtrack[r][c] \in Loc /\ backtrack[r][c] = Aim(c)
        BY <1>2, <4>1
           DEF PathInv, TargetInv, ValueInv, Awaiting, InRoot, IInv, VisitsOK
      <4>. QED BY <4>1, <4>2, NilAssumption DEF Agrees
    <3>. HIDE DEF r
    <3>4. \A c \in DOMAIN value' :
            \/ c \in DOMAIN value /\ value'[c] = value[c] /\ refPath'[c] = refPath[c]
            \/ refPath'[c] # Nil /\ Agrees(refPath'[c], c)
      BY <1>2, <3>2, <3>3 DEF AllLocated, Located
    <3>5. AllLocated'
      BY <1>1, <1>2, <3>4, LocatedKeeps
    <3>. QED BY <3>2, <3>5 DEF Remembered
  <2>2. CASE ~Handing(Top)
    <3>1. UNCHANGED heap
      BY <1>1, <2>2 DEF Handing, ReturnRef
    <3>. QED BY <1>1, <3>1, QuietLocated
  <2>. QED BY <2>1, <2>2
<1>. QED BY <1>1, <1>2, <1>3, CopiesMove

\* The copy has the location the drill looked in.
LEMMA DrillLocated ==
  ASSUME PathInv, TargetInv', DrillTyped \/ DrillGeneric \/ DrillReread
  PROVE  AllLocated' /\ CopiesLocated'
<1>. DEFINE c == Top.cell
            n == RefOf(Top.cell).name
            T(u) == [inst |-> fresh, uri |-> u, name |-> n, k |-> 0]
            f(u) == [Top EXCEPT !.pc = "copy", !.tmp = T(u)]
            g(u) == RefFrame(T(u), Top.tdoc, ComponentPath)
            p    == [uri |-> ComponentPath, name |-> n]
<1>1. /\ stack # <<>> /\ Top.fn = "resolveSchemaRef" /\ Top.pc = "drill"
      /\ world' = world /\ visitedDocuments' = visitedDocuments
  BY DEF DrillTyped, DrillGeneric, DrillReread, DecodeGeneric, At, static
<1>2. /\ IInv /\ Top \in Frame /\ WorldOK /\ HeapOK /\ Born
      /\ DOMAIN refPath = DOMAIN value /\ AllLocated /\ CopiesLocated
  BY <1>1, TopType DEF PathInv, TargetInv, ValueInv, IInv, HeapOK
<1>3. Top.tdoc \in Uris /\ Top.tdoc = ComponentPath /\ p = Aim(c)
  BY DrillContext DEF PathInv
<1>4. p \in Loc /\ n \in Names
  <2>1. c \in Cells /\ Known(Place(c))
    BY <1>1, TopContext DEF PathInv
  <2>2. RefOf(c) \in Ref /\ n # Root
    BY <1>1, <1>2, TopType DEF IInv, FrameOK
  <2>. QED BY <1>2, <1>3, <2>1, <2>2, CellMeaning, RefParts
<1>5. ASSUME NEW d, d \in DOMAIN value \/ d \in DOMAIN value', d.k = 0, Place(d) = p
      PROVE  Agrees(p, d)
  <2>1. d \in Cells /\ Known(Place(d))
    <3>1. CASE d \in DOMAIN value
      BY <1>2, <3>1 DEF HeapOK, PathInv, TargetInv, Defined
    <3>2. CASE d \in DOMAIN value'
      <4>1. Known(Place(d))'
        BY <3>2 DEF TargetInv, Defined
      <4>2. Known(Place(d))
        BY <1>1, <4>1, SameAims
      <4>3. d \in Cells
        <5>1. DOMAIN value' \subseteq Cells'
          BY DEF TargetInv, ValueInv, IInv, HeapOK
        <5>2. Cells' = Cells
          BY <1>1 DEF Cells, ShapeAt
        <5>. QED BY <3>2, <5>1, <5>2
      <4>. QED BY <4>2, <4>3
    <3>. QED BY <1>5, <3>1, <3>2
  <2>2. \A t : Leads(p, t) <=> Leads(Aim(d), t)
    <3>. HIDE DEF p
    <3>. QED BY <1>2, <1>5, <2>1, CellMeaning
  <2>. QED BY <1>4, <2>2 DEF Agrees
<1>6. CASE DrillTyped
  <2>. DEFINE src == [inst |-> 0, uri |-> Top.tdoc, name |-> n, k |-> 0]
              tmp == [src EXCEPT !.inst = fresh]
              loc == IF refPath[src] = Nil THEN p ELSE refPath[src]
  <2>1. /\ value' = [d \in DOMAIN value \cup {tmp} |->
                        IF d = tmp THEN value[src] ELSE value[d]]
        /\ refPath' = [d \in DOMAIN refPath \cup {tmp} |->
                        IF d \in {src, tmp} THEN loc ELSE refPath[d]]
        /\ ResolveCopy(tmp) /\ src \in DOMAIN value
    BY <1>6 DEF DrillTyped, Typed
  <2>2. tmp = T(Top.tdoc)
    OBVIOUS
  <2>3. tmp \notin DOMAIN value
    BY <1>2, <2>2, FreshCells
  <2>4. Aim(tmp) = Aim(src)
    BY DEF Aim, RefOf, Place
  <2>5. Agrees(loc, src) /\ loc # Nil
    <3>1. Place(src) = p /\ src.k = 0
      BY <1>3 DEF Place
    <3>2. Agrees(p, src) /\ p # Nil
      <4>. HIDE DEF p, src
      <4>. QED BY <1>4, <1>5, <2>1, <3>1, NilAssumption
    <3>. HIDE DEF p, src
    <3>. QED BY <1>2, <2>1, <3>2 DEF AllLocated, Located
  <2>6. Agrees(loc, tmp)
    BY <2>4, <2>5 DEF Agrees
  <2>. HIDE DEF p, src, tmp, loc
  <2>7. \A d \in DOMAIN value' :
            \/ d \in DOMAIN value /\ value'[d] = value[d] /\ refPath'[d] = refPath[d]
            \/ refPath'[d] # Nil /\ Agrees(refPath'[d], d)
    BY <1>2, <2>1, <2>3, <2>5, <2>6
  <2>8. AllLocated'
    BY <1>1, <1>2, <2>7, LocatedKeeps
  <2>9. Remembered
    BY <1>2, <2>1, <2>5 DEF Remembered
  <2>10. refPath'[tmp] # Nil
    BY <1>2, <2>1, <2>5
  <2>11. PICK a, b : a.tmp = tmp /\ b.pc = "enter" /\ Call(a, b)
    <3>1. f(Top.tdoc).tmp = T(Top.tdoc) /\ g(Top.tdoc).pc = "enter"
      BY <1>2 DEF Frame, RefFrame
    <3>2. Call(f(Top.tdoc), g(Top.tdoc))
      BY <2>1, <2>2 DEF ResolveCopy
    <3>. HIDE DEF f, g, T
    <3>. QED BY <2>2, <3>1, <3>2
  <2>12. CopyLocated(a)' /\ CopyLocated(b)'
    BY <2>10, <2>11 DEF CopyLocated
  <2>. QED BY <1>1, <1>2, <2>8, <2>9, <2>11, <2>12, CopiesMove
<1>7. CASE DrillGeneric \/ DrillReread
  <2>. DEFINE u   == Top.tdoc
              new == Decoded(fresh, u, n)
  <2>1. /\ value' = [d \in DOMAIN value \cup new |->
                        IF d \in new THEN Unmarshalled(d) ELSE value[d]]
        /\ refPath' = [d \in DOMAIN refPath \cup new |->
                        IF d = T(u) THEN p ELSE IF d \in new THEN Nil ELSE refPath[d]]
        /\ ResolveCopy(T(u)) /\ Defines(u, n)
    <3>1. DecodeGeneric(u) /\ Defines(u, n)
      <4>1. CASE DrillGeneric
        BY <4>1 DEF DrillGeneric, Raw
      <4>2. CASE DrillReread
        <5>1. ComponentPath = Top.path
          BY <1>1, <4>2, RereadsHere DEF DrillReread, ComponentPath, PathInv
        <5>. QED BY <1>3, <4>2, <5>1 DEF DrillReread
      <4>. QED BY <1>7, <4>1, <4>2
    <3>. QED BY <3>1 DEF DecodeGeneric
  <2>2. T(u) \in new
    BY <1>2, <1>3, <1>4, <2>1, ShapeTypes, DecodedOK DEF HeapOK
  <2>3. new \cap DOMAIN value = {}
    <3>1. \A d \in new : d.inst = fresh
      BY DEF Decoded
    <3>. QED BY <1>2, <3>1, FreshCells
  <2>4. Agrees(p, T(u)) /\ p # Nil
    <3>1. Place(T(u)) = p /\ T(u).k = 0
      BY <1>3 DEF Place
    <3>2. T(u) \in DOMAIN value'
      <4>. HIDE DEF p, T, new
      <4>. QED BY <2>1, <2>2
    <3>. HIDE DEF p, T
    <3>. QED BY <1>4, <1>5, <3>1, <3>2, NilAssumption
  <2>5. \A d : RefOf(d) # Nil => Unmarshalled(d) = Nil
    BY DEF Unmarshalled
  <2>6. PICK a, b : a.tmp = T(u) /\ b.pc = "enter" /\ Call(a, b)
    <3>1. f(u).tmp = T(u) /\ g(u).pc = "enter"
      BY <1>2 DEF Frame, RefFrame
    <3>2. Call(f(u), g(u))
      BY <2>1 DEF ResolveCopy
    <3>. HIDE DEF f, g, T
    <3>. QED BY <3>1, <3>2
  <2>7. PICK t : t = T(u)
    OBVIOUS
  <2>8. /\ value' = [d \in DOMAIN value \cup new |->
                        IF d \in new THEN Unmarshalled(d) ELSE value[d]]
        /\ refPath' = [d \in DOMAIN refPath \cup new |->
                        IF d = t THEN p ELSE IF d \in new THEN Nil ELSE refPath[d]]
        /\ t \in new /\ Agrees(p, t) /\ a.tmp = t
    BY <2>1, <2>2, <2>4, <2>6, <2>7
  <2>. HIDE DEF p, T, new
  <2>9. \A d \in DOMAIN value' :
            \/ d \in DOMAIN value /\ value'[d] = value[d] /\ refPath'[d] = refPath[d]
            \/ refPath'[d] = Nil /\ (RefOf(d) = Nil \/ value'[d] = Nil)
            \/ refPath'[d] # Nil /\ Agrees(refPath'[d], d)
    BY <1>2, <2>3, <2>4, <2>5, <2>8
  <2>10. AllLocated'
    BY <1>1, <1>2, <2>9, LocatedKeeps
  <2>11. Remembered
    BY <1>2, <2>3, <2>8 DEF Remembered
  <2>12. refPath'[t] # Nil
    BY <1>2, <2>4, <2>8
  <2>13. CopyLocated(a)' /\ CopyLocated(b)'
    BY <2>6, <2>8, <2>12 DEF CopyLocated
  <2>. QED BY <1>1, <1>2, <2>6, <2>10, <2>11, <2>13, CopiesMove
<1>. QED BY <1>6, <1>7

LEMMA PathStep ==
  ASSUME PathInv, [Next]_vars
  PROVE  PathInv'
<1>1. TargetInv' /\ InRoot' /\ Rooted'
  BY TargetStep, ContextStep, SameSoundness, SameAims DEF PathInv
<1>2. CASE LoadFromURI
  BY <1>1, <1>2, LoadLocated DEF PathInv
<1>3. CASE Step
  BY <1>1, <1>3, WalkLocated, DocumentLocated, ElementLocated, DrillLocated, CopyLocatedStep,
     ReturnLocated DEF Step, ResolveRef, PathInv
<1>4. CASE Finished \/ UNCHANGED vars
  <2>1. world' = world /\ UNCHANGED heap /\ stack' = stack
    BY <1>4 DEF Finished, vars, heap
  <2>2. AllLocated' /\ Remembered
    BY <2>1, QuietLocated
  <2>3. CopiesLocated'
    BY <2>1, <2>2, CopiesMove DEF PathInv, TargetInv, ValueInv
  <2>. QED BY <1>1, <2>2, <2>3 DEF PathInv
<1>. QED BY <1>2, <1>3, <1>4 DEF Next

\* When no reference is dangling and only roots refer within themselves, every
\* resolved reference remembers a location, and the location leads to the object
\* the reference points to, whichever of its own drill, a callback, another
\* component's drill or a copy recorded it first.
THEOREM PathsAreRight == Spec /\ NoneDangling /\ Rooted => []RefPathAgrees
<1>1. Init /\ NoneDangling /\ Rooted => PathInv
  <2>1. Init => InRoot /\ AllLocated /\ CopiesLocated
    BY DEF Init, InRoot, AllLocated, CopiesLocated
  <2>. QED BY <2>1, TargetStarts DEF PathInv
<1>2. PathInv /\ [Next]_vars => PathInv'
  BY PathStep
<1>3. PathInv => RefPathAgrees
  <2>. SUFFICES ASSUME PathInv, NEW c \in DOMAIN value, RefOf(c) # Nil, value[c] # Nil
                PROVE  /\ refPath[c] # Nil
                       /\ Follow[Cardinality(Uris) * Cardinality(Names)][refPath[c]]
                            = Place(value[c])
    BY DEF RefPathAgrees, Place
  <2>1. WorldOK /\ Right(c) /\ Located(c)
    BY DEF PathInv, TargetInv, ValueInv, IInv, AllRight, AllLocated
  <2>2. refPath[c] # Nil /\ refPath[c] \in Loc /\ Leads(refPath[c], Place(value[c]))
    BY <2>1 DEF Located, Right, Agrees
  <2>. QED BY <2>1, <2>2, LeadsDenotes
<1>. QED BY <1>1, <1>2, <1>3, PTL DEF Spec
=============================================================================
