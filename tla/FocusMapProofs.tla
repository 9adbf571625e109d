--------------------------- MODULE FocusMapProofs ---------------------------
(* Scores and the focus map, for any tables of signals, any hosts and URLs   *)
(* and any evidence.                                                         *)
EXTENDS FocusMap, FunctionTheorems, FiniteSetTheorems, SequenceTheorems, WellFoundedInduction,
        TLAPS

----------------------------------------------------------------------------
(* Finite sets.                                                            *)

\* A non-empty set of subsets of a finite set has a smallest member.
LEMMA SmallestSubset ==
  ASSUME NEW S, IsFiniteSet(S), NEW T, T \subseteq SUBSET S, T # {}
  PROVE  \E m \in T : \A x \in m : m \ {x} \notin T
<1>1. IsWellFoundedOn(StrictSubsetOrdering(S), SUBSET S)
  BY FS_StrictSubsetOrderingWellFounded, FS_FiniteSubsetsOfFinite
<1>2. PICK m \in T : \A y \in T : <<y, m>> \notin StrictSubsetOrdering(S)
  BY <1>1, WFMin
<1>3. ASSUME NEW x \in m, m \ {x} \in T PROVE FALSE
  <2>1. <<m \ {x}, m>> \in StrictSubsetOrdering(S)
    BY <1>2, <1>3 DEF StrictSubsetOrdering
  <2> QED
    BY <1>2, <1>3, <2>1
<1> QED
  BY <1>2, <1>3

----------------------------------------------------------------------------
(* The sum of weights counts points: a signal of weight w has w of them.    *)

Weighted(S) == IsFiniteSet(S) /\ \A s \in S : s.weight \in Nat

points(S) == UNION {{s} \X (1..s.weight) : s \in S}

total(S) == MapThenSumSet(LAMBDA s : s.weight, S)

\* The points of a set of signals, one signal apart.
LEMMA PointsOfOne ==
  ASSUME NEW S, \A s \in S : s.weight \in Nat, NEW x \in S,
         IsFiniteSet(points(S \ {x}))
  PROVE  /\ IsFiniteSet(points(S))
         /\ Cardinality(points(S)) = x.weight + Cardinality(points(S \ {x}))
<1> DEFINE own == {x} \X (1..x.weight)
           rest == points(S \ {x})
<1>1. x.weight \in Nat /\ IsFiniteSet(1..x.weight) /\ Cardinality(1..x.weight) = x.weight
  <2> DEFINE w == x.weight
  <2>1. w \in Nat
    OBVIOUS
  <2> HIDE DEF w
  <2>2. IsFiniteSet(1..w) /\ Cardinality(1..w) = IF 1 > w THEN 0 ELSE w - 1 + 1
    BY <2>1, FS_Interval
  <2>3. Cardinality(1..w) = w
    BY <2>1, <2>2
  <2> QED
    BY <2>1, <2>2, <2>3 DEF w
<1>2. IsFiniteSet({x}) /\ Cardinality({x}) = 1
  BY FS_Singleton
<1>3. IsFiniteSet(own) /\ Cardinality(own) = 1 * x.weight
  BY <1>1, <1>2, FS_Product
<1>4. points(S) = own \cup rest
  BY DEF points
<1>5. own \cap rest = {}
  BY DEF points
<1> HIDE DEF own, rest
<1>6. /\ IsFiniteSet(own \cup rest)
      /\ Cardinality(own \cup rest) = Cardinality(own) + Cardinality(rest) - Cardinality(own \cap rest)
  BY <1>3, FS_Union DEF rest
<1>7. Cardinality(own \cap rest) = 0 /\ Cardinality(rest) \in Nat
  BY <1>5, FS_EmptySet, FS_CardinalityType DEF rest
<1> QED
  BY <1>1, <1>3, <1>4, <1>6, <1>7 DEF rest

LEMMA PointsFinite ==
  ASSUME NEW S, Weighted(S)
  PROVE  \A Q \in SUBSET S : IsFiniteSet(points(Q))
<1> DEFINE T == {Q \in SUBSET S : ~IsFiniteSet(points(Q))}
<1>1. ASSUME T # {} PROVE FALSE
  <2>1. PICK Q \in T : \A x \in Q : Q \ {x} \notin T
    BY <1>1, SmallestSubset DEF Weighted
  <2>2. Q # {}
    <3>1. points({}) = {}
      BY DEF points
    <3> QED
      BY <2>1, <3>1, FS_EmptySet
  <2>3. PICK x \in Q : TRUE
    BY <2>2
  <2>4. Q \ {x} \in SUBSET S /\ IsFiniteSet(points(Q \ {x}))
    BY <2>1
  <2>5. IsFiniteSet(points(Q))
    BY <2>1, <2>3, <2>4, PointsOfOne DEF Weighted
  <2> QED
    BY <2>1, <2>5
<1> QED
  BY <1>1

LEMMA SumIsCount ==
  ASSUME NEW S, Weighted(S)
  PROVE  /\ IsFiniteSet(points(S))
         /\ total(S) = Cardinality(points(S))
         /\ total(S) \in Nat
<1> DEFINE choose(s) == CHOOSE x \in s : TRUE
           step(f, s) == IF s = {} THEN 0 ELSE choose(s).weight + f[s \ {choose(s)}]
           count == [s \in SUBSET S |-> Cardinality(points(s))]
           iter == CHOOSE f : f = [s \in SUBSET S |-> step(f, s)]
<1>1. count = [s \in SUBSET S |-> step(count, s)]
  <2>1. ASSUME NEW s \in SUBSET S PROVE count[s] = step(count, s)
    <3>1. CASE s = {}
      <4>1. points({}) = {}
        BY DEF points
      <4> QED
        BY <3>1, <4>1, FS_EmptySet
    <3>2. CASE s # {}
      <4>1. choose(s) \in s /\ s \ {choose(s)} \in SUBSET S
        BY <3>2
      <4>2. IsFiniteSet(points(s \ {choose(s)}))
        BY <4>1, PointsFinite
      <4>3. Cardinality(points(s)) = choose(s).weight + Cardinality(points(s \ {choose(s)}))
        BY <4>1, <4>2, PointsOfOne DEF Weighted
      <4> HIDE DEF choose
      <4> QED
        BY <3>2, <4>1, <4>3
    <3> QED
      BY <3>1, <3>2
  <2> HIDE DEF step
  <2> QED
    BY <2>1
<1>2. iter = [s \in SUBSET S |-> step(iter, s)]
  <2> HIDE DEF step, count
  <2> QED
    BY <1>1
<1>3. ASSUME NEW Q \in SUBSET S PROVE iter[Q] = count[Q]
  <2> DEFINE T == {s \in SUBSET S : iter[s] # count[s]}
  <2> HIDE DEF iter, count, choose
  <2>1. ASSUME T # {} PROVE FALSE
    <3>1. PICK s \in T : \A x \in s : s \ {x} \notin T
      BY <2>1, SmallestSubset DEF Weighted
    <3>2. iter[s] = step(iter, s) /\ count[s] = step(count, s)
      BY <1>1, <1>2, <3>1
    <3>3. s # {}
      BY <3>1, <3>2
    <3>4. choose(s) \in s /\ s \ {choose(s)} \in SUBSET S
      BY <3>1, <3>3 DEF choose
    <3>5. iter[s \ {choose(s)}] = count[s \ {choose(s)}]
      BY <3>1, <3>4
    <3> QED
      BY <3>1, <3>2, <3>3, <3>5
  <2> QED
    BY <2>1
<1>4. total(S) = iter[S]
  BY DEF total, MapThenSumSet, MapThenFoldSet
<1>5. count[S] = Cardinality(points(S)) /\ iter[S] = count[S]
  BY <1>3
<1>6. IsFiniteSet(points(S))
  BY PointsFinite
<1> QED
  BY <1>4, <1>5, <1>6, FS_CardinalityType

\* A set of signals sums up to no more than one it maps into, each signal to
\* another one that weighs no less.
LEMMA SumGrows ==
  ASSUME NEW S, NEW T, Weighted(S), Weighted(T), NEW f \in Injection(S, T),
         \A s \in S : f[s].weight >= s.weight
  PROVE  total(S) <= total(T)
<1> DEFINE g == [p \in points(S) |-> <<f[p[1]], p[2]>>]
<1>1. f \in [S -> T] /\ \A a, b \in S : f[a] = f[b] => a = b
  BY Fun_InjectionProperties
<1>2. ASSUME NEW p \in points(S)
      PROVE  /\ p = <<p[1], p[2]>> /\ p[1] \in S
             /\ <<f[p[1]], p[2]>> \in points(T)
  <2>1. PICK s \in S : p \in {s} \X (1..s.weight)
    BY DEF points
  <2>2. p[1] = s /\ p[2] \in 1..s.weight /\ p = <<p[1], p[2]>>
    BY <2>1
  <2>3. f[s] \in T /\ s.weight \in Nat /\ f[s].weight \in Nat /\ f[s].weight >= s.weight
    BY <1>1 DEF Weighted
  <2>4. p[2] \in 1..f[s].weight
    BY <2>2, <2>3
  <2> QED
    BY <2>2, <2>3, <2>4 DEF points
<1>3. g \in [points(S) -> points(T)]
  BY <1>2
<1>4. \A p, q \in points(S) : g[p] = g[q] => p = q
  BY <1>1, <1>2
<1> HIDE DEF g
<1>5. g \in Injection(points(S), points(T))
  BY <1>3, <1>4, Fun_IsInj
<1>6. Cardinality(points(S)) <= Cardinality(points(T))
  BY <1>5, SumIsCount, FS_Injection
<1> QED
  BY <1>6, SumIsCount

----------------------------------------------------------------------------
(* Finite sets of numbers and images.                                      *)

LEMMA ImageFinite ==
  ASSUME NEW X, IsFiniteSet(X), NEW f, DOMAIN f = X
  PROVE  IsFiniteSet({f[x] : x \in X})
<1> DEFINE Y == {f[x] : x \in X}
           g == [x \in X |-> f[x]]
<1>1. g \in [X -> Y] /\ \A y \in Y : \E x \in X : g[x] = y
  OBVIOUS
<1> HIDE DEF g, Y
<1>2. g \in Surjection(X, Y)
  BY <1>1, Fun_IsSurj
<1>3. IsFiniteSet(Y)
  BY <1>2, FS_Surjection
<1> QED
  BY <1>3 DEF Y

\* A non-empty finite set of numbers has its maximum and its minimum.
LEMMA MaxOfFinite ==
  ASSUME NEW S, IsFiniteSet(S), S \subseteq Nat, S # {}
  PROVE  Max(S) \in S /\ \A y \in S : Max(S) >= y
<1> DEFINE Top(Q) == \E x \in Q : \A y \in Q : x >= y
           T == {Q \in SUBSET S : Q # {} /\ ~Top(Q)}
<1>1. ASSUME T # {} PROVE FALSE
  <2>1. PICK m \in T : \A x \in m : m \ {x} \notin T
    BY <1>1, SmallestSubset
  <2>2. PICK x \in m : TRUE
    BY <2>1
  <2>3. CASE m \ {x} = {}
    BY <2>1, <2>2, <2>3
  <2>4. CASE m \ {x} # {}
    <3>1. Top(m \ {x})
      BY <2>1, <2>2, <2>4
    <3>2. PICK z \in m \ {x} : \A y \in m \ {x} : z >= y
      BY <3>1
    <3>3. m \subseteq Nat /\ x \in Nat /\ z \in Nat
      BY <2>1, <2>2
    <3>4. CASE z >= x
      BY <2>1, <3>2, <3>3, <3>4
    <3>5. CASE x > z
      <4>1. \A y \in m : x >= y
        BY <3>2, <3>3, <3>5
      <4> QED
        BY <2>1, <4>1
    <3> QED
      BY <3>3, <3>4, <3>5
  <2> QED
    BY <2>3, <2>4
<1>2. Top(S)
  BY <1>1
<1> QED
  BY <1>2 DEF Max

LEMMA MinOfNats ==
  ASSUME NEW S, S \subseteq Nat, S # {}
  PROVE  Min(S) \in S /\ \A y \in S : Min(S) <= y
<1>1. PICK x \in S : \A y \in S : <<y, x>> \notin OpToRel(<, Nat)
  BY NatLessThanWellFounded, WFMin
<1>2. ASSUME NEW y \in S PROVE x <= y
  <2>1. x \in Nat /\ y \in Nat
    OBVIOUS
  <2>2. ~(y < x)
    BY <1>1, <2>1 DEF OpToRel
  <2> QED
    BY <2>1, <2>2
<1> QED
  BY <1>2 DEF Min

\* A finite set maps one to one into any that has no fewer elements.
LEMMA CountInjects ==
  ASSUME NEW A, NEW B, IsFiniteSet(A), IsFiniteSet(B), Cardinality(A) <= Cardinality(B)
  PROVE  \E j : j \in Injection(A, B)
<1> DEFINE a == Cardinality(A)
           b == Cardinality(B)
<1>1. a \in Nat /\ b \in Nat /\ ExistsBijection(1..a, A) /\ ExistsBijection(1..b, B)
  BY FS_CardinalityType
<1> HIDE DEF a, b
<1>2. PICK f : f \in Bijection(A, 1..a)
  BY <1>1, Fun_ExistsBijSymmetric, Fun_ExistsBij
<1>3. PICK g : g \in Bijection(1..b, B)
  BY <1>1, Fun_ExistsBij
<1>4. /\ f \in [A -> 1..a] /\ \A x, y \in A : f[x] = f[y] => x = y
      /\ g \in [1..b -> B] /\ \A x, y \in 1..b : g[x] = g[y] => x = y
  BY <1>2, <1>3, Fun_BijectionProperties
<1>5. a <= b /\ \A n \in 1..a : n \in 1..b
  BY <1>1 DEF a, b
<1> DEFINE j == [x \in A |-> g[f[x]]]
<1>6. j \in [A -> B] /\ \A x, y \in A : j[x] = j[y] => x = y
  BY <1>4, <1>5
<1> HIDE DEF j
<1>7. j \in Injection(A, B)
  BY <1>6, Fun_IsInj
<1> QED
  BY <1>7

----------------------------------------------------------------------------
(* A finite set in a strict total order R: the place of an element.        *)

Ordered(C, R) ==
  /\ IsFiniteSet(C)
  /\ \A c \in C : <<c, c>> \notin R
  /\ \A c, d \in C : c # d => <<c, d>> \in R \/ <<d, c>> \in R
  /\ \A c, d, e \in C : <<c, d>> \in R /\ <<d, e>> \in R => <<c, e>> \in R

earlier(C, R, c) == {e \in C : <<e, c>> \in R}

\* Who comes later has more ahead of it; at most all others.
LEMMA PlaceGrows ==
  ASSUME NEW C, NEW R, Ordered(C, R), NEW c \in C, NEW d \in C, <<c, d>> \in R
  PROVE  Cardinality(earlier(C, R, c)) < Cardinality(earlier(C, R, d))
<1> DEFINE A == earlier(C, R, c)
           B == earlier(C, R, d)
<1>1. A \in SUBSET C /\ B \in SUBSET C
  BY DEF earlier
<1>2. A \subseteq B /\ c \in B /\ c \notin A
  BY DEF earlier, Ordered
<1> HIDE DEF A, B
<1>3. IsFiniteSet(A) /\ IsFiniteSet(B)
  BY <1>1, FS_Subset DEF Ordered
<1>4. /\ A \in SUBSET B
      /\ Cardinality(A) <= Cardinality(B) /\ (Cardinality(B) = Cardinality(A) => B = A)
  BY <1>2, <1>3, FS_Subset
<1>5. Cardinality(A) \in Nat /\ Cardinality(B) \in Nat
  BY <1>3, FS_CardinalityType
<1>6. Cardinality(A) < Cardinality(B)
  BY <1>2, <1>4, <1>5
<1> QED
  BY <1>6 DEF A, B

LEMMA PlaceIsNat ==
  ASSUME NEW C, NEW R, Ordered(C, R), NEW c
  PROVE  /\ Cardinality(earlier(C, R, c)) \in Nat
         /\ c \in C => Cardinality(earlier(C, R, c)) < Cardinality(C)
<1> DEFINE A == earlier(C, R, c)
<1>1. A \in SUBSET C /\ (c \in C => A # C)
  BY DEF earlier, Ordered
<1> HIDE DEF A
<1>2. /\ IsFiniteSet(A) /\ Cardinality(A) <= Cardinality(C)
      /\ Cardinality(C) = Cardinality(A) => C = A
  BY <1>1, FS_Subset DEF Ordered
<1>3. Cardinality(A) \in Nat /\ Cardinality(C) \in Nat
  BY <1>2, FS_CardinalityType DEF Ordered
<1>4. c \in C => Cardinality(A) < Cardinality(C)
  BY <1>1, <1>2, <1>3
<1> QED
  BY <1>3, <1>4 DEF A

\* It can be listed in order.
LEMMA OrderedLists ==
  ASSUME NEW C, NEW R, Ordered(C, R)
  PROVE  \E s \in [1..Cardinality(C) -> C] :
            \A i, j \in 1..Cardinality(C) : i < j => <<s[i], s[j]>> \in R
<1> DEFINE n == Cardinality(C)
           rank(c) == Cardinality(earlier(C, R, c))
           place == [c \in C |-> rank(c) + 1]
<1>1. n \in Nat /\ IsFiniteSet(1..n) /\ Cardinality(1..n) = n
  <2>1. n \in Nat
    BY FS_CardinalityType DEF Ordered
  <2> HIDE DEF n
  <2>2. IsFiniteSet(1..n) /\ Cardinality(1..n) = IF 1 > n THEN 0 ELSE n - 1 + 1
    BY <2>1, FS_Interval
  <2> QED
    BY <2>1, <2>2
<1>2. ASSUME NEW c \in C PROVE rank(c) \in Nat /\ rank(c) < n
  BY PlaceIsNat
<1>3. ASSUME NEW c \in C, NEW d \in C, c # d, ~(<<c, d>> \in R) PROVE rank(d) < rank(c)
  BY <1>3, PlaceGrows DEF Ordered
<1> HIDE DEF n, rank
<1>4. ASSUME NEW c \in C, NEW d \in C, c # d PROVE rank(c) # rank(d)
  <2>1. ~(<<c, d>> \in R) \/ ~(<<d, c>> \in R)
    BY DEF Ordered
  <2> QED
    BY <1>2, <1>3, <1>4, <2>1
<1>5. place \in [C -> 1..n] /\ \A c, d \in C : place[c] = place[d] => c = d
  BY <1>1, <1>2, <1>4
<1>6. \A i \in 1..n : \E c \in C : place[c] = i
  <2> HIDE DEF place
  <2>1. place \in Injection(C, 1..n)
    BY <1>5, Fun_IsInj
  <2>2. place \in Surjection(C, 1..n)
    BY <1>1, <2>1, FS_Injection DEF n
  <2> QED
    BY <2>2, Fun_SurjectionProperties
<1> DEFINE s == [i \in 1..n |-> CHOOSE c \in C : place[c] = i]
<1>7. \A i \in 1..n : s[i] \in C /\ place[s[i]] = i
  BY <1>6
<1>8. s \in [1..n -> C]
  BY <1>7
<1>9. ASSUME NEW i \in 1..n, NEW j \in 1..n, i < j PROVE <<s[i], s[j]>> \in R
  <2>1. s[i] \in C /\ s[j] \in C /\ place[s[i]] = i /\ place[s[j]] = j
    BY <1>7
  <2> HIDE DEF s
  <2>2. rank(s[i]) + 1 = i /\ rank(s[j]) + 1 = j
    BY <2>1
  <2>3. ~(rank(s[j]) < rank(s[i])) /\ s[i] # s[j]
    BY <1>1, <1>2, <1>9, <2>1, <2>2
  <2> QED
    BY <1>3, <2>1, <2>3
<1> HIDE DEF s
<1> QED
  BY <1>8, <1>9 DEF n

----------------------------------------------------------------------------
(* The strongest k of a set of classes.  `before` is a strict total order    *)
(* on classes whose first parameters differ.                                 *)

Ranked(C, b, f) ==
  /\ IsFiniteSet(C)
  /\ \A c \in C : b[c] \in Nat /\ f[c] \in Nat
  /\ \A c, d \in C : f[c] = f[d] => c = d

ahead(C, b, f, c) == {e \in C : before(b, f, e, c)}

top(C, b, f, k) == {c \in C : Cardinality(ahead(C, b, f, c)) < k}

order(C, b, f) == {p \in C \X C : before(b, f, p[1], p[2])}

LEMMA ClassesOrdered ==
  ASSUME NEW C, NEW b, NEW f, Ranked(C, b, f)
  PROVE  /\ Ordered(C, order(C, b, f))
         /\ \A c \in C : earlier(C, order(C, b, f), c) = ahead(C, b, f, c)
<1>1. \A c, d \in C : <<c, d>> \in order(C, b, f) <=> before(b, f, c, d)
  BY DEF order
<1>2. \A c \in C : ~before(b, f, c, c)
  BY DEF before, Ranked
<1>3. \A c, d \in C : c # d => before(b, f, c, d) \/ before(b, f, d, c)
  BY DEF before, Ranked
<1>4. ASSUME NEW c \in C, NEW d \in C, NEW e \in C, before(b, f, c, d), before(b, f, d, e)
      PROVE  before(b, f, c, e)
  BY <1>4 DEF before, Ranked
<1>5. IsFiniteSet(C)
  BY DEF Ranked
<1> QED
  BY <1>1, <1>2, <1>3, <1>4, <1>5 DEF Ordered, earlier, ahead

LEMMA RankGrows ==
  ASSUME NEW C, NEW b, NEW f, Ranked(C, b, f), NEW c \in C, NEW d \in C, before(b, f, c, d)
  PROVE  /\ Cardinality(ahead(C, b, f, c)) \in Nat
         /\ Cardinality(ahead(C, b, f, d)) \in Nat
         /\ Cardinality(ahead(C, b, f, c)) < Cardinality(ahead(C, b, f, d))
<1>1. <<c, d>> \in order(C, b, f)
  BY DEF order
<1> QED
  BY <1>1, ClassesOrdered, PlaceIsNat, PlaceGrows

LEMMA RankIsNat ==
  ASSUME NEW C, NEW b, NEW f, Ranked(C, b, f), NEW c \in C
  PROVE  Cardinality(ahead(C, b, f, c)) \in Nat
BY ClassesOrdered, PlaceIsNat

\* There are at most k of them.
LEMMA TopIsSmall ==
  ASSUME NEW C, NEW b, NEW f, Ranked(C, b, f), NEW k \in Nat
  PROVE  IsFiniteSet(top(C, b, f, k)) /\ Cardinality(top(C, b, f, k)) <= k
<1> DEFINE T == top(C, b, f, k)
           rank == [c \in T |-> Cardinality(ahead(C, b, f, c))]
<1>1. T \subseteq C /\ \A c \in T : rank[c] \in 0..(k - 1)
  BY RankIsNat DEF top
<1>2. ASSUME NEW c \in T, NEW d \in T, c # d PROVE rank[c] # rank[d]
  <2>1. before(b, f, c, d) \/ before(b, f, d, c)
    BY <1>1, <1>2 DEF before, Ranked
  <2>2. CASE before(b, f, c, d)
    BY <1>1, <2>2, RankGrows
  <2>3. CASE before(b, f, d, c)
    BY <1>1, <2>3, RankGrows
  <2> QED
    BY <2>1, <2>2, <2>3
<1>3. rank \in [T -> 0..(k - 1)] /\ \A c, d \in T : rank[c] = rank[d] => c = d
  BY <1>1, <1>2
<1>4. IsFiniteSet(0..(k - 1)) /\ Cardinality(0..(k - 1)) = k
  <2>1. k - 1 \in Int /\ 0 \in Int /\ (IF 0 > k - 1 THEN 0 ELSE k - 1 - 0 + 1) = k
    OBVIOUS
  <2> QED
    BY <2>1, FS_Interval
<1> HIDE DEF rank, T
<1>5. rank \in Injection(T, 0..(k - 1))
  BY <1>3, Fun_IsInj
<1>6. IsFiniteSet(T) /\ Cardinality(T) <= Cardinality(0..(k - 1))
  BY <1>4, <1>5, FS_Injection
<1> QED
  BY <1>4, <1>6 DEF T

\* And k of them as soon as one class is left out.
LEMMA TopIsFull ==
  ASSUME NEW C, NEW b, NEW f, Ranked(C, b, f), NEW k \in Nat,
         NEW c \in C, c \notin top(C, b, f, k)
  PROVE  Cardinality(top(C, b, f, k)) >= k
<1> DEFINE rank(e) == Cardinality(ahead(C, b, f, e))
           out == {rank(e) : e \in C \ top(C, b, f, k)}
<1>1. \A e \in C : rank(e) \in Nat
  BY RankIsNat
<1> HIDE DEF rank
<1>2. out \subseteq Nat /\ out # {}
  BY <1>1
<1>3. Min(out) \in out /\ \A y \in out : Min(out) <= y
  BY <1>2, MinOfNats
<1>4. PICK e \in C \ top(C, b, f, k) : Min(out) = rank(e)
  BY <1>3
<1>5. ahead(C, b, f, e) \in SUBSET top(C, b, f, k)
  <2> SUFFICES ASSUME NEW d \in ahead(C, b, f, e), d \notin top(C, b, f, k) PROVE FALSE
    OBVIOUS
  <2>1. d \in C /\ before(b, f, d, e)
    BY DEF ahead
  <2>2. rank(d) < rank(e) /\ rank(d) \in Nat /\ rank(e) \in Nat
    BY <2>1, RankGrows DEF rank
  <2>3. rank(d) \in out
    BY <2>1
  <2> QED
    BY <1>3, <1>4, <2>2, <2>3
<1>6. rank(e) >= k
  BY <1>1, <1>4 DEF top, rank
<1>7. Cardinality(ahead(C, b, f, e)) <= Cardinality(top(C, b, f, k))
  BY <1>5, TopIsSmall, FS_Subset
<1>8. Cardinality(top(C, b, f, k)) \in Nat
  BY TopIsSmall, FS_CardinalityType
<1> QED
  BY <1>1, <1>6, <1>7, <1>8, RankIsNat DEF rank

\* Those left out weigh no more than those taken.
LEMMA TopBeatsRest ==
  ASSUME NEW C, NEW b, NEW f, Ranked(C, b, f), NEW k \in Nat,
         NEW c \in C, c \notin top(C, b, f, k), NEW d \in top(C, b, f, k)
  PROVE  b[d] >= b[c]
<1>1. d \in C /\ Cardinality(ahead(C, b, f, d)) < k /\ ~(Cardinality(ahead(C, b, f, c)) < k)
  BY DEF top
<1>2. ~before(b, f, c, d)
  BY <1>1, RankIsNat, RankGrows
<1> QED
  BY <1>1, <1>2 DEF before, Ranked

\* When classes are added and no class gets weaker, each of the strongest k has
\* a counterpart among the new strongest k that is no weaker: itself, or one
\* that displaced it.
LEMMA TopExchange ==
  ASSUME NEW C, NEW b, NEW f, Ranked(C, b, f), NEW D, NEW c2, NEW f2, Ranked(D, c2, f2),
         NEW k \in Nat, C \subseteq D, \A c \in C : b[c] <= c2[c]
  PROVE  \E g \in Injection(top(C, b, f, k), top(D, c2, f2, k)) :
            \A c \in top(C, b, f, k) : b[c] <= c2[g[c]]
<1> DEFINE S == top(C, b, f, k)
           T == top(D, c2, f2, k)
           lost == S \ T
           gained == T \ S
<1>1. S \subseteq C /\ T \subseteq D /\ IsFiniteSet(S) /\ IsFiniteSet(T)
  <2>1. S \subseteq C /\ T \subseteq D
    BY DEF top
  <2>2. IsFiniteSet(S)
    BY TopIsSmall
  <2>3. IsFiniteSet(T)
    BY TopIsSmall
  <2> QED
    BY <2>1, <2>2, <2>3
<1>2. /\ IsFiniteSet(lost) /\ Cardinality(lost) = Cardinality(S) - Cardinality(S \cap T)
      /\ IsFiniteSet(gained) /\ Cardinality(gained) = Cardinality(T) - Cardinality(T \cap S)
  <2> HIDE DEF S, T
  <2> QED
    BY <1>1, FS_Difference
<1>3. PICK j : j \in [lost -> gained] /\ \A x, y \in lost : j[x] = j[y] => x = y
  <2>1. CASE lost = {}
    <3>1. [x \in lost |-> x] \in [lost -> gained]
      BY <2>1
    <3> QED
      BY <2>1, <3>1
  <2>2. CASE lost # {}
    <3>1. PICK c \in lost : TRUE
      BY <2>2
    <3>2. Cardinality(T) >= k /\ Cardinality(S) <= k
      BY <1>1, <3>1, TopIsFull, TopIsSmall
    <3> DEFINE s == Cardinality(S)
               t == Cardinality(T)
               both == Cardinality(S \cap T)
    <3>3. s \in Nat /\ t \in Nat /\ both \in Nat
      <4>1. S \cap T \in SUBSET S
        OBVIOUS
      <4> HIDE DEF S, T
      <4> QED
        BY <1>1, <4>1, FS_Subset, FS_CardinalityType
    <3>4. Cardinality(lost) = s - both /\ Cardinality(gained) = t - both
      <4>1. T \cap S = S \cap T
        OBVIOUS
      <4> HIDE DEF S, T, lost, gained
      <4> QED
        BY <1>2, <4>1
    <3>5. s - both <= t - both
      <4>1. t >= k /\ s <= k
        BY <3>2
      <4> HIDE DEF s, t, both
      <4> QED
        BY <3>3, <4>1
    <3>6. Cardinality(lost) <= Cardinality(gained)
      <4> HIDE DEF s, t, both, lost, gained
      <4> QED
        BY <3>4, <3>5
    <3> HIDE DEF S, T, lost, gained
    <3> QED
      BY <1>2, <3>6, CountInjects, Fun_InjectionProperties
  <2> QED
    BY <2>1, <2>2
<1> DEFINE g == [c \in S |-> IF c \in T THEN c ELSE j[c]]
<1>4. g \in [S -> T] /\ \A x, y \in S : g[x] = g[y] => x = y
  <2> HIDE DEF S, T
  <2> QED
    BY <1>3
<1>5. ASSUME NEW c \in S PROVE b[c] <= c2[g[c]]
  <2>1. c \in C /\ c \in D /\ b[c] \in Nat /\ c2[c] \in Nat /\ b[c] <= c2[c]
    BY <1>1 DEF Ranked
  <2>2. CASE c \in T
    BY <2>1, <2>2
  <2>3. CASE c \notin T
    <3>1. g[c] = j[c] /\ j[c] \in T
      <4> HIDE DEF S, T
      <4> QED
        BY <1>3, <2>3
    <3>2. c2[j[c]] >= c2[c]
      BY <2>1, <2>3, <3>1, TopBeatsRest
    <3>3. c2[j[c]] \in Nat
      BY <1>1, <3>1 DEF Ranked
    <3> HIDE DEF g
    <3> QED
      BY <2>1, <3>1, <3>2, <3>3
  <2> QED
    BY <2>2, <2>3
<1> HIDE DEF g, S, T
<1>6. g \in Injection(S, T)
  BY <1>4, Fun_IsInj
<1>7. \E h \in Injection(S, T) : \A c \in S : b[c] <= c2[h[c]]
  BY <1>5, <1>6
<1> QED
  BY <1>7 DEF S, T

----------------------------------------------------------------------------
(* Weighted sets of signals.                                               *)

SignalEach(kind, X, w) == {Signal(kind, x, w[x]) : x \in X}

LEMMA WeightedImage ==
  ASSUME NEW X, IsFiniteSet(X), NEW w, \A x \in X : w[x] \in Nat, NEW kind
  PROVE  Weighted(SignalEach(kind, X, w))
<1> DEFINE sig == [x \in X |-> Signal(kind, x, w[x])]
<1>1. IsFiniteSet({sig[x] : x \in X})
  <2>1. DOMAIN sig = X
    OBVIOUS
  <2> HIDE DEF sig
  <2> QED
    BY <2>1, ImageFinite
<1>2. {sig[x] : x \in X} = SignalEach(kind, X, w)
  BY DEF SignalEach
<1> QED
  BY <1>1, <1>2 DEF Weighted, Signal, SignalEach

LEMMA WeightedOne ==
  ASSUME NEW kind, NEW of, NEW w \in Nat
  PROVE  Weighted({Signal(kind, of, w)})
<1>1. Signal(kind, of, w).weight = w
  BY DEF Signal
<1>2. IsFiniteSet({Signal(kind, of, w)})
  BY FS_Singleton
<1> QED
  BY <1>1, <1>2 DEF Weighted

LEMMA WeightedNone == Weighted({})
BY FS_EmptySet DEF Weighted

LEMMA WeightedUnion ==
  ASSUME NEW A, NEW B, Weighted(A), Weighted(B)
  PROVE  Weighted(A \cup B)
BY FS_Union DEF Weighted

LEMMA WeightedSubset ==
  ASSUME NEW A, NEW B, Weighted(B), A \subseteq B
  PROVE  Weighted(A)
<1>1. A \in SUBSET B
  OBVIOUS
<1> QED
  BY <1>1, FS_Subset DEF Weighted

\* More signals sum up to no less.
LEMMA SumOfMore ==
  ASSUME NEW A, NEW B, Weighted(B), A \subseteq B
  PROVE  total(A) <= total(B)
<1> DEFINE id == [s \in A |-> s]
<1>1. id \in [A -> B] /\ \A x, y \in A : id[x] = id[y] => x = y
  OBVIOUS
<1>2. \A s \in A : s.weight \in Nat /\ id[s].weight >= s.weight
  BY DEF Weighted
<1> HIDE DEF id
<1>3. id \in Injection(A, B)
  BY <1>1, Fun_IsInj
<1> QED
  BY <1>2, <1>3, WeightedSubset, SumGrows

\* So do others of the same kind that weigh no less, beside those of other kinds.
LEMMA SumOfExchange ==
  ASSUME NEW A, NEW B, Weighted(B), A \subseteq B,
         NEW P, NEW Q, Weighted(P), Weighted(Q), B \cap Q = {}, A \cap P = {},
         NEW e \in Injection(P, Q), \A s \in P : e[s].weight >= s.weight
  PROVE  total(A \cup P) <= total(B \cup Q)
<1> DEFINE f == [s \in A \cup P |-> IF s \in P THEN e[s] ELSE s]
<1>1. e \in [P -> Q] /\ \A x, y \in P : e[x] = e[y] => x = y
  BY Fun_InjectionProperties
<1>2. f \in [A \cup P -> B \cup Q] /\ \A x, y \in A \cup P : f[x] = f[y] => x = y
  BY <1>1
<1>3. \A s \in A \cup P : f[s].weight >= s.weight
  BY DEF Weighted
<1> HIDE DEF f
<1>4. f \in Injection(A \cup P, B \cup Q)
  BY <1>2, Fun_IsInj
<1>5. Weighted(A \cup P) /\ Weighted(B \cup Q)
  BY WeightedSubset, WeightedUnion
<1> QED
  BY <1>3, <1>4, <1>5, SumGrows

----------------------------------------------------------------------------
(* The parameters of a host, as a function of their names.                 *)

Parameters == DOMAIN Weight \cap DOMAIN Place

classes_of(N) == {Class[n] : n \in N}
best_of(N) == [c \in classes_of(N) |-> Max({Weight[n] : n \in {m \in N : Class[m] = c}})]
first_of(N) == [c \in classes_of(N) |-> Min({Place[n] : n \in {m \in N : Class[m] = c}})]
top_of(N) == top(classes_of(N), best_of(N), first_of(N), TopClasses)
chosen(N) == {Signal("param", c, best_of(N)[c]) : c \in top_of(N)}

\* A class has the weight of its strongest parameter and the place of its first.
LEMMA ClassOfNames ==
  ASSUME NEW N, N \subseteq Parameters, NEW c \in classes_of(N)
  PROVE  /\ \E n \in N : Class[n] = c /\ best_of(N)[c] = Weight[n]
         /\ \A n \in N : Class[n] = c => best_of(N)[c] >= Weight[n]
         /\ \E n \in N : Class[n] = c /\ first_of(N)[c] = Place[n]
<1> DEFINE named == {n \in N : Class[n] = c}
           W == {Weight[n] : n \in named}
           P == {Place[n] : n \in named}
<1>1. named # {} /\ named \in SUBSET DOMAIN Weight
  BY DEF classes_of, Parameters
<1>2. W \subseteq Nat /\ W # {} /\ P \subseteq Nat /\ P # {}
  BY <1>1, FocusAssumption DEF Parameters
<1>3. IsFiniteSet(W)
  <2> DEFINE w == [n \in named |-> Weight[n]]
  <2>1. IsFiniteSet(named) /\ DOMAIN w = named
    BY <1>1, FocusAssumption, FS_Subset
  <2> HIDE DEF w
  <2>2. IsFiniteSet({w[n] : n \in named})
    BY <2>1, ImageFinite
  <2> QED
    BY <2>2 DEF w
<1>4. Max(W) \in W /\ \A y \in W : Max(W) >= y
  <2> HIDE DEF W
  <2> QED
    BY <1>2, <1>3, MaxOfFinite
<1>5. Min(P) \in P
  <2> HIDE DEF P
  <2> QED
    BY <1>2, MinOfNats
<1>6. best_of(N)[c] = Max(W) /\ first_of(N)[c] = Min(P)
  BY DEF best_of, first_of
<1>7. PICK n \in named : Max(W) = Weight[n]
  BY <1>4
<1>8. PICK m \in named : Min(P) = Place[m]
  BY <1>5
<1>9. \A y \in named : Max(W) >= Weight[y]
  BY <1>4
<1> HIDE DEF W, P
<1> QED
  BY <1>6, <1>7, <1>8, <1>9

LEMMA ClassesRanked ==
  ASSUME NEW N, N \subseteq Parameters
  PROVE  Ranked(classes_of(N), best_of(N), first_of(N))
<1>1. IsFiniteSet(classes_of(N))
  <2> DEFINE class == [n \in N |-> Class[n]]
  <2>1. N \in SUBSET DOMAIN Weight /\ DOMAIN class = N
    BY DEF Parameters
  <2>2. IsFiniteSet(N)
    BY <2>1, FocusAssumption, FS_Subset
  <2> HIDE DEF class
  <2>3. IsFiniteSet({class[n] : n \in N})
    BY <2>1, <2>2, ImageFinite
  <2> QED
    BY <2>3 DEF class, classes_of
<1>2. ASSUME NEW c \in classes_of(N)
      PROVE  best_of(N)[c] \in Nat /\ first_of(N)[c] \in Nat
  BY <1>2, ClassOfNames, FocusAssumption DEF Parameters
<1>3. ASSUME NEW c \in classes_of(N), NEW d \in classes_of(N),
             first_of(N)[c] = first_of(N)[d]
      PROVE  c = d
  <2>1. PICK n \in N : Class[n] = c /\ first_of(N)[c] = Place[n]
    BY ClassOfNames
  <2>2. PICK m \in N : Class[m] = d /\ first_of(N)[d] = Place[m]
    BY ClassOfNames
  <2>3. n = m
    BY <1>3, <2>1, <2>2, FocusAssumption DEF Parameters
  <2> QED
    BY <2>1, <2>2, <2>3
<1> QED
  BY <1>1, <1>2, <1>3 DEF Ranked

LEMMA ChosenWeighted ==
  ASSUME NEW N, N \subseteq Parameters
  PROVE  Weighted(chosen(N)) /\ \A s \in chosen(N) : s.kind = "param"
<1>1. IsFiniteSet(top_of(N)) /\ top_of(N) \subseteq classes_of(N)
  <2>1. TopClasses \in Nat
    BY FocusAssumption
  <2>2. IsFiniteSet(top_of(N))
    BY <2>1, ClassesRanked, TopIsSmall DEF top_of
  <2> QED
    BY <2>2 DEF top_of, top
<1>2. \A c \in top_of(N) : best_of(N)[c] \in Nat
  BY <1>1, ClassesRanked DEF Ranked
<1>3. Weighted(chosen(N))
  <2> DEFINE w == best_of(N)
             T == top_of(N)
  <2>1. IsFiniteSet(T) /\ \A c \in T : w[c] \in Nat
    BY <1>1, <1>2
  <2> HIDE DEF w, T
  <2>2. Weighted(SignalEach("param", T, w))
    BY <2>1, WeightedImage
  <2> QED
    BY <2>2 DEF chosen, w, T, SignalEach
<1>4. \A s \in chosen(N) : s.kind = "param"
  BY DEF chosen, Signal
<1> QED
  BY <1>3, <1>4

\* With more parameters, each signal has one that is no weaker in its place.
LEMMA ChosenExchange ==
  ASSUME NEW M, NEW N, N \subseteq Parameters, M \subseteq N
  PROVE  \E e \in Injection(chosen(M), chosen(N)) : \A s \in chosen(M) : e[s].weight >= s.weight
<1>1. /\ Ranked(classes_of(M), best_of(M), first_of(M))
      /\ Ranked(classes_of(N), best_of(N), first_of(N))
  BY ClassesRanked
<1>2. classes_of(M) \subseteq classes_of(N)
  BY DEF classes_of
<1>3. ASSUME NEW c \in classes_of(M) PROVE best_of(M)[c] <= best_of(N)[c]
  <2>1. PICK n \in M : Class[n] = c /\ best_of(M)[c] = Weight[n]
    BY ClassOfNames
  <2>2. best_of(N)[c] >= Weight[n]
    BY <1>2, <2>1, ClassOfNames
  <2>3. best_of(N)[c] \in Nat /\ Weight[n] \in Nat
    BY <1>1, <1>2, <2>1 DEF Ranked
  <2> QED
    BY <2>1, <2>2, <2>3
<1>4. PICK g \in Injection(top_of(M), top_of(N)) :
              \A c \in top_of(M) : best_of(M)[c] <= best_of(N)[g[c]]
  <2>1. TopClasses \in Nat
    BY FocusAssumption
  <2> QED
    BY <1>1, <1>2, <1>3, <2>1, TopExchange DEF top_of
<1>5. g \in [top_of(M) -> top_of(N)] /\ \A c, d \in top_of(M) : g[c] = g[d] => c = d
  BY Fun_InjectionProperties
<1>6. top_of(M) \subseteq classes_of(M) /\ top_of(N) \subseteq classes_of(N)
  BY DEF top_of, top
<1> DEFINE e == [s \in chosen(M) |-> Signal("param", g[s.of], best_of(N)[g[s.of]])]
<1>7. ASSUME NEW s \in chosen(M)
      PROVE  /\ s.of \in top_of(M) /\ s = Signal("param", s.of, best_of(M)[s.of])
             /\ e[s] \in chosen(N) /\ e[s].of = g[s.of] /\ e[s].weight = best_of(N)[g[s.of]]
  <2>1. PICK c \in top_of(M) : s = Signal("param", c, best_of(M)[c])
    BY DEF chosen
  <2>2. s.of = c
    BY <2>1 DEF Signal
  <2>3. g[c] \in top_of(N)
    BY <1>5
  <2> QED
    BY <2>1, <2>2, <2>3 DEF chosen, Signal
<1>8. e \in [chosen(M) -> chosen(N)] /\ \A s, t \in chosen(M) : e[s] = e[t] => s = t
  BY <1>5, <1>7
<1>9. ASSUME NEW s \in chosen(M) PROVE e[s].weight >= s.weight
  <2>1. s.weight = best_of(M)[s.of]
    <3>1. \A k, o, w : Signal(k, o, w).weight = w
      BY DEF Signal
    <3> QED
      BY <1>7, <3>1
  <2>2. best_of(M)[s.of] \in Nat /\ best_of(N)[g[s.of]] \in Nat
    BY <1>1, <1>5, <1>6, <1>7 DEF Ranked
  <2> QED
    BY <1>4, <1>7, <2>1, <2>2
<1> HIDE DEF e
<1>10. e \in Injection(chosen(M), chosen(N))
  BY <1>8, Fun_IsInj
<1> QED
  BY <1>9, <1>10

----------------------------------------------------------------------------
(* What the evidence is, whatever the runs do.                             *)

FocusTypes ==
  /\ known \subseteq Hosts
  /\ urls \subseteq Urls /\ IsFiniteSet(urls)
  /\ probe \in [Hosts -> {"unprobed", "live", "dead"}]
  /\ answer \in [Hosts -> Answers \cup {NoAnswer}]
  /\ dns \in [Hosts -> Lookups]
  /\ \A h \in Hosts : probe[h] = "unprobed" => answer[h] = NoAnswer

LEMMA FocusTypesInit == Init => FocusTypes
BY FS_EmptySet DEF Init, FocusTypes, Lookups

LEMMA FocusTypesNext == FocusTypes /\ [Next]_vars => FocusTypes'
<1> SUFFICES ASSUME FocusTypes, [Next]_vars PROVE FocusTypes'
  OBVIOUS
<1> USE DEF FocusTypes
<1>1. ASSUME NEW h \in Hosts, StoreHost(h) PROVE FocusTypes'
  BY <1>1 DEF StoreHost
<1>2. ASSUME NEW h \in Hosts, DnsEnrich(h) PROVE FocusTypes'
  BY <1>2 DEF DnsEnrich
<1>3. ASSUME NEW h \in Hosts, Probe(h) PROVE FocusTypes'
  BY <1>3 DEF Probe
<1>4. ASSUME NEW u \in Urls, StoreUrl(u) PROVE FocusTypes'
  <2>1. IsFiniteSet(urls \cup {u})
    BY FS_AddElement
  <2>2. u.host \in Hosts
    BY FocusAssumption
  <2> QED
    BY <1>4, <2>1, <2>2 DEF StoreUrl
<1>5. CASE Analyze
  BY <1>5 DEF Analyze, evidence
<1>6. CASE Exit
  BY <1>6 DEF Exit, evidence
<1>7. CASE UNCHANGED vars
  BY <1>7 DEF vars
<1> QED
  BY <1>1, <1>2, <1>3, <1>4, <1>5, <1>6, <1>7 DEF Next

\* The evidence is of known kinds, about hosts in scope; only finitely many URLs
\* have a row, whatever the number of URLs there are; and an answer is recorded
\* of a probed host alone.
THEOREM FocusTypeCorrect == Spec => []FocusTypes
<1>1. FocusTypes /\ UNCHANGED vars => FocusTypes'
  BY FocusTypesNext
<1> QED
  BY FocusTypesInit, FocusTypesNext, PTL DEF Spec

----------------------------------------------------------------------------
(* The signals of a host: those of its parameters, and the others.         *)

needles_of(h) == UNION {u.needles : u \in urls_of(h)}
names_of(h) == UNION {u.params : u \in urls_of(h)}

answer_signals(h) ==
  IF answer[h] = NoAnswer THEN {}
  ELSE status_signal(answer[h]) \cup server_signals(answer[h]) \cup header_signals(answer[h])

other_signals(h) ==
  subdomain_signals(h) \cup path_signals(h) \cup takeover_signal(h)
    \cup surface_signal(h) \cup answer_signals(h)

SignalsKnown ==
  \A h \in Hosts :
    /\ signals(h) = other_signals(h) \cup chosen(names_of(h))
    /\ names_of(h) \subseteq Parameters
    /\ Weighted(other_signals(h))
    /\ \A s \in other_signals(h) : s.kind # "param"
    /\ served_content(h) <=> needles_of(h) # {} \/ chosen(names_of(h)) # {}

\* A signal of an answer: of its status, of its server or of its headers.
LEMMA AnswerSignals ==
  ASSUME NEW a \in Answers
  PROVE  LET S == status_signal(a) \cup server_signals(a) \cup header_signals(a)
         IN  Weighted(S) /\ \A s \in S : s.kind \in {"status", "server", "header"}
<1>1. a \in AnswerType /\ \A x \in DOMAIN Weight : Weight[x] \in Nat
  BY FocusAssumption
<1>2. Weighted(status_signal(a)) /\ \A s \in status_signal(a) : s.kind = "status"
  <2> DEFINE X == {x \in {a.status} : Weight[x] > 0}
  <2>1. a.status \in DOMAIN Weight
    BY <1>1 DEF AnswerType
  <2>2. IsFiniteSet(X)
    <3>1. X \in SUBSET {a.status} /\ IsFiniteSet({a.status})
      BY FS_Singleton
    <3> HIDE DEF X
    <3> QED
      BY <3>1, FS_Subset
  <2>3. \A x \in X : Weight[x] \in Nat
    BY <1>1, <2>1
  <2> HIDE DEF X
  <2>4. Weighted(SignalEach("status", X, Weight))
    BY <2>2, <2>3, WeightedImage
  <2>5. status_signal(a) = SignalEach("status", X, Weight)
    BY DEF X, status_signal, SignalEach
  <2> QED
    BY <2>4, <2>5 DEF SignalEach, Signal
<1>3. Weighted(server_signals(a)) /\ \A s \in server_signals(a) : s.kind = "server"
  <2> DEFINE X == {x \in a.server : Weight[x] > 0}
             V == CASE a.version = "vulnerable" -> {Signal("server", "version", 9)}
                    [] a.version = "listed" -> {Signal("server", "version", 2)}
                    [] OTHER -> {}
  <2>1. X \in SUBSET DOMAIN Weight
    BY <1>1 DEF AnswerType
  <2>2. IsFiniteSet(X) /\ \A x \in X : Weight[x] \in Nat
    <3> HIDE DEF X
    <3> QED
      BY <1>1, <2>1, FS_Subset, FocusAssumption
  <2>3. Weighted(SignalEach("server", X, Weight))
    <3> HIDE DEF X
    <3> QED
      BY <2>2, WeightedImage
  <2>4. V \in {{Signal("server", "version", 9)}, {Signal("server", "version", 2)}, {}}
    OBVIOUS
  <2>5. Weighted(V)
    <3> HIDE DEF V
    <3> QED
      BY <2>4, WeightedOne, WeightedNone
  <2>6. \A s \in V : s.kind = "server"
    BY <2>4 DEF Signal
  <2>7. \A s \in SignalEach("server", X, Weight) : s.kind = "server"
    BY DEF SignalEach, Signal
  <2>8. server_signals(a) = SignalEach("server", X, Weight) \cup V
    BY DEF server_signals, SignalEach
  <2> HIDE DEF X, V
  <2> QED
    BY <2>3, <2>5, <2>6, <2>7, <2>8, WeightedUnion
<1>4. Weighted(header_signals(a)) /\ \A s \in header_signals(a) : s.kind = "header"
  <2> DEFINE cors == CASE a.credentials /\ a.origin \notin {"none", "null"} -> 8
                       [] ~a.credentials /\ a.origin = "any" -> 3
                       [] a.origin = "null" \/ (a.origin = "other" /\ ~a.credentials) -> 5
                       [] OTHER -> 0
             A == {Signal("header", "cors", w) : w \in {cors} \ {0}}
             B == {Signal("header", "powered", 3) : x \in {a.powered} \ {"no"}}
             C == {Signal("header", "version", 9) : x \in {a.powered} \cap {"vulnerable"}}
             D == {Signal("header", "location", 5) : x \in {a.location} \cap {"other"}}
  <2>1. cors \in {8, 3, 5, 0}
    BY Zenon
  <2>2. /\ A \in {{Signal("header", "cors", cors)}, {}}
        /\ B \in {{Signal("header", "powered", 3)}, {}}
        /\ C \in {{Signal("header", "version", 9)}, {}}
        /\ D \in {{Signal("header", "location", 5)}, {}}
    <3> HIDE DEF cors
    <3> QED
      OBVIOUS
  <2>3. header_signals(a) = A \cup B \cup C \cup D
    BY DEF header_signals
  <2> HIDE DEF A, B, C, D, cors
  <2>4. Weighted(A) /\ Weighted(B) /\ Weighted(C) /\ Weighted(D)
    <3>1. cors \in Nat
      BY <2>1
    <3> QED
      BY <2>2, <3>1, WeightedOne, WeightedNone
  <2>5. \A s \in A \cup B \cup C \cup D : s.kind = "header"
    BY <2>2 DEF Signal
  <2> QED
    BY <2>3, <2>4, <2>5, WeightedUnion
<1> QED
  BY <1>2, <1>3, <1>4, WeightedUnion

\* Whichever the evidence, the signals of a host are finitely many, with weights
\* that are numbers.
LEMMA SignalsAreKnown == FocusTypes => SignalsKnown
<1> SUFFICES ASSUME FocusTypes, NEW h \in Hosts
             PROVE  /\ signals(h) = other_signals(h) \cup chosen(names_of(h))
                    /\ names_of(h) \subseteq Parameters
                    /\ Weighted(other_signals(h))
                    /\ \A s \in other_signals(h) : s.kind # "param"
                    /\ served_content(h) <=> needles_of(h) # {} \/ chosen(names_of(h)) # {}
  BY DEF SignalsKnown
<1>1. \A u \in urls_of(h) : u \in Urls
  BY DEF FocusTypes, urls_of
<1>2. names_of(h) \subseteq Parameters /\ needles_of(h) \subseteq DOMAIN Weight
  BY <1>1, FocusAssumption DEF names_of, needles_of, Parameters
<1>3. param_signals(h) = chosen(names_of(h))
  BY DEF param_signals, chosen, top_of, top, ahead, classes_of, best_of, first_of, names_of
<1>4. signals(h) = other_signals(h) \cup chosen(names_of(h))
  BY <1>3 DEF signals, other_signals, answer_signals
<1>5. Weighted(subdomain_signals(h)) /\ \A s \in subdomain_signals(h) : s.kind = "subdomain"
  <2> DEFINE X == {x \in Tokens[h] : Weight[x] > 0}
  <2>1. X \in SUBSET DOMAIN Weight
    BY FocusAssumption
  <2>2. IsFiniteSet(X) /\ \A x \in X : Weight[x] \in Nat
    <3> HIDE DEF X
    <3> QED
      BY <2>1, FS_Subset, FocusAssumption
  <2>3. subdomain_signals(h) = SignalEach("subdomain", X, Weight)
    BY DEF subdomain_signals, SignalEach
  <2> HIDE DEF X
  <2>4. Weighted(subdomain_signals(h))
    BY <2>2, <2>3, WeightedImage
  <2> QED
    BY <2>3, <2>4 DEF SignalEach, Signal
<1>6. /\ Weighted(path_signals(h))
      /\ \A s \in path_signals(h) : s.kind = "path"
      /\ path_signals(h) = SignalEach("path", needles_of(h), Weight)
  <2>1. path_signals(h) = SignalEach("path", needles_of(h), Weight)
    BY DEF path_signals, needles_of, SignalEach
  <2>2. needles_of(h) \in SUBSET DOMAIN Weight
    BY <1>2
  <2>3. IsFiniteSet(needles_of(h)) /\ \A x \in needles_of(h) : Weight[x] \in Nat
    BY <2>2, FS_Subset, FocusAssumption
  <2>4. Weighted(path_signals(h))
    BY <2>1, <2>3, WeightedImage
  <2> QED
    BY <2>1, <2>4 DEF SignalEach, Signal
<1>7. Weighted(takeover_signal(h)) /\ \A s \in takeover_signal(h) : s.kind = "takeover"
  <2>1. takeover_signal(h) \in {{Signal("takeover", "cname", 4)},
                                {Signal("takeover", "cname", 9)}, {}}
    BY DEF takeover_signal
  <2>2. Weighted(takeover_signal(h))
    BY <2>1, WeightedOne, WeightedNone
  <2> QED
    BY <2>1, <2>2 DEF Signal
<1>8. Weighted(surface_signal(h)) /\ \A s \in surface_signal(h) : s.kind = "surface"
  <2>1. surface_signal(h) \in {{Signal("surface", "urls", 2)}, {}}
    BY DEF surface_signal
  <2>2. Weighted(surface_signal(h))
    BY <2>1, WeightedOne, WeightedNone
  <2> QED
    BY <2>1, <2>2 DEF Signal
<1>9. Weighted(answer_signals(h)) /\ \A s \in answer_signals(h) : s.kind \in {"status", "server", "header"}
  <2>1. CASE answer[h] = NoAnswer
    BY <2>1, WeightedNone DEF answer_signals
  <2>2. CASE answer[h] # NoAnswer
    <3>1. answer[h] \in Answers
      BY <2>2 DEF FocusTypes
    <3> QED
      BY <2>2, <3>1, AnswerSignals DEF answer_signals
  <2> QED
    BY <2>1, <2>2
<1>10. Weighted(other_signals(h))
  BY <1>5, <1>6, <1>7, <1>8, <1>9, WeightedUnion DEF other_signals
<1>11. \A s \in other_signals(h) : s.kind # "param"
  BY <1>5, <1>6, <1>7, <1>8, <1>9 DEF other_signals
<1>12. served_content(h) <=> path_signals(h) # {} \/ chosen(names_of(h)) # {}
  <2>1. \A s \in chosen(names_of(h)) : s.kind = "param"
    BY <1>2, ChosenWeighted
  <2> QED
    BY <1>4, <1>5, <1>6, <1>7, <1>8, <1>9, <2>1 DEF served_content, other_signals
<1>13. path_signals(h) # {} <=> needles_of(h) # {}
  BY <1>6 DEF SignalEach
<1> QED
  BY <1>2, <1>4, <1>10, <1>11, <1>12, <1>13

----------------------------------------------------------------------------
(* Scores.                                                                 *)

\* Whether it is live, dead, dead with something of interest archived, or neither.
standing(h) ==
  IF probe[h] = "dead" /\ served_content(h) THEN "archived" ELSE probe[h]

\* The score by cases, with no maximum and no minimum.
valued(sum, state) ==
  CASE state = "live" -> sum + 2
    [] state = "archived" -> IF sum >= 5 THEN sum - 5 ELSE 0
    [] state = "dead" -> IF sum <= 4 THEN sum ELSE 4
    [] OTHER -> sum

LEMMA MaxOfTwo ==
  ASSUME NEW a \in Int, NEW b \in Int
  PROVE  Max({a, b}) = IF a >= b THEN a ELSE b
BY DEF Max

LEMMA MinOfTwo ==
  ASSUME NEW a \in Int, NEW b \in Int
  PROVE  Min({a, b}) = IF a <= b THEN a ELSE b
BY DEF Min

\* A score is a number, and does not fall with a greater sum.
LEMMA ValuedGrows ==
  ASSUME NEW a \in Nat, NEW b \in Nat, a <= b,
         NEW state \in {"unprobed", "live", "dead", "archived"}
  PROVE  valued(a, state) \in Nat /\ valued(b, state) \in Nat /\ valued(a, state) <= valued(b, state)
BY DEF valued

ScoresKnown ==
  \A h \in Hosts :
    /\ total(signals(h)) \in Nat
    /\ standing(h) \in {"unprobed", "live", "dead", "archived"}
    /\ score_host(h) = valued(total(signals(h)), standing(h))
    /\ score_host(h) \in Nat

LEMMA ScoresAreKnown == FocusTypes => ScoresKnown
<1> SUFFICES ASSUME FocusTypes, NEW h \in Hosts
             PROVE  /\ total(signals(h)) \in Nat
                    /\ standing(h) \in {"unprobed", "live", "dead", "archived"}
                    /\ score_host(h) = valued(total(signals(h)), standing(h))
                    /\ score_host(h) \in Nat
  BY DEF ScoresKnown
<1>1. Weighted(signals(h))
  <2>1. /\ signals(h) = other_signals(h) \cup chosen(names_of(h))
        /\ names_of(h) \subseteq Parameters /\ Weighted(other_signals(h))
    BY SignalsAreKnown DEF SignalsKnown
  <2> QED
    BY <2>1, ChosenWeighted, WeightedUnion
<1> DEFINE sum == total(signals(h))
<1>2. sum \in Nat
  BY <1>1, SumIsCount
<1>3. probe[h] \in {"unprobed", "live", "dead"}
  BY DEF FocusTypes
<1>4. standing(h) \in {"unprobed", "live", "dead", "archived"}
  BY <1>3 DEF standing
<1>5. /\ probe[h] = "live" => score_host(h) = sum + 2
      /\ probe[h] = "dead" /\ served_content(h) => score_host(h) = Max({0, sum - 5})
      /\ probe[h] = "dead" /\ ~served_content(h) => score_host(h) = Min({sum, 4})
      /\ probe[h] = "unprobed" => score_host(h) = sum
  BY DEF score_host, total
<1> HIDE DEF sum
<1>6. score_host(h) = valued(sum, standing(h))
  <2>1. CASE probe[h] = "live"
    BY <1>5, <2>1 DEF valued, standing
  <2>2. CASE probe[h] = "dead" /\ served_content(h)
    <3>1. Max({0, sum - 5}) = IF 0 >= sum - 5 THEN 0 ELSE sum - 5
      BY <1>2, MaxOfTwo
    <3>2. standing(h) = "archived"
      BY <2>2 DEF standing
    <3>3. score_host(h) = Max({0, sum - 5})
      BY <1>5, <2>2
    <3> QED
      BY <1>2, <3>1, <3>2, <3>3 DEF valued
  <2>3. CASE probe[h] = "dead" /\ ~served_content(h)
    <3>1. Min({sum, 4}) = IF sum <= 4 THEN sum ELSE 4
      BY <1>2, MinOfTwo
    <3>2. standing(h) = "dead"
      BY <2>3 DEF standing
    <3>3. score_host(h) = Min({sum, 4})
      BY <1>5, <2>3
    <3> QED
      BY <3>1, <3>2, <3>3 DEF valued
  <2>4. CASE probe[h] = "unprobed"
    BY <1>5, <2>4 DEF valued, standing
  <2> QED
    BY <1>3, <2>1, <2>2, <2>3, <2>4
<1>7. valued(sum, standing(h)) \in Nat
  <2> DEFINE state == standing(h)
  <2>1. state \in {"unprobed", "live", "dead", "archived"}
    BY <1>4
  <2> HIDE DEF state
  <2>2. valued(sum, state) \in Nat
    BY <1>2, <2>1 DEF valued
  <2> QED
    BY <2>2 DEF state
<1> QED
  BY <1>2, <1>4, <1>6, <1>7 DEF sum

\* What is at most 4 is low, and only that.
LEMMA LowIsFour ==
  ASSUME NEW n \in Nat
  PROVE  tier(n) = "low" <=> n <= 4
BY DEF tier

\* A dead host whose archive holds nothing of interest is capped at 4.
LEMMA DeadIsCapped == FocusTypes => DeadStaysLow
<1> SUFFICES ASSUME FocusTypes, NEW h \in known, probe[h] = "dead",
                    ~(\E u \in urls_of(h) : u.needles # {} \/ u.params # {})
             PROVE  /\ tier(score_host(h)) = "low"
                    /\ \A g \in known : tier(score_host(g)) # "low" => ranks_before(g, h)
  BY DEF DeadStaysLow
<1>1. h \in Hosts /\ \A g \in known : g \in Hosts
  BY DEF FocusTypes
<1>2. needles_of(h) = {} /\ names_of(h) = {}
  BY DEF needles_of, names_of
<1>3. chosen({}) = {}
  BY DEF chosen, top_of, top, classes_of
<1>4. ~served_content(h)
  BY <1>1, <1>2, <1>3, SignalsAreKnown DEF SignalsKnown
<1>5. score_host(h) \in Nat /\ score_host(h) <= 4
  <2> DEFINE sum == total(signals(h))
             score == score_host(h)
  <2>1. standing(h) = "dead"
    BY <1>4 DEF standing
  <2>2. sum \in Nat /\ score = valued(sum, "dead")
    BY <1>1, <2>1, ScoresAreKnown DEF ScoresKnown
  <2> HIDE DEF sum, score
  <2>3. score \in Nat /\ score <= 4
    BY <2>2 DEF valued
  <2> QED
    BY <2>3 DEF score
<1>6. tier(score_host(h)) = "low"
  BY <1>5, LowIsFour
<1>7. ASSUME NEW g \in known, tier(score_host(g)) # "low" PROVE ranks_before(g, h)
  <2>1. score_host(g) \in Nat
    BY <1>1, ScoresAreKnown DEF ScoresKnown
  <2>2. ~(score_host(g) <= 4)
    BY <1>7, <2>1, LowIsFour
  <2>3. score_host(g) > score_host(h)
    BY <1>5, <2>1, <2>2
  <2> QED
    BY <1>5, <2>1, <2>3 DEF ranks_before
<1> QED
  BY <1>6, <1>7

\* A host that did not answer stays in the lowest band, below every host of a
\* higher one, unless its archive holds something of interest (score_host's cap
\* of 4): for any tables of weights and any archive.
THEOREM DeadHostStaysLow == Spec => []DeadStaysLow
BY FocusTypeCorrect, DeadIsCapped, PTL

----------------------------------------------------------------------------
(* What a step does to the scores.                                         *)

\* A further URL: the signals of a host are exchanged for others that are no
\* weaker, and what was content remains.
LEMMA UrlRaises ==
  ASSUME FocusTypes, FocusTypes', NEW u \in Urls, StoreUrl(u), NEW h \in Hosts
  PROVE  /\ total(signals(h)) <= total(signals(h))'
         /\ served_content(h) => served_content(h)'
<1>1. /\ signals(h) = other_signals(h) \cup chosen(names_of(h))
      /\ Weighted(other_signals(h))
      /\ \A s \in other_signals(h) : s.kind # "param"
      /\ served_content(h) <=> needles_of(h) # {} \/ chosen(names_of(h)) # {}
  BY SignalsAreKnown DEF SignalsKnown
<1>2. SignalsKnown'
  BY SignalsAreKnown, PTL
<1>3. /\ signals(h)' = other_signals(h)' \cup chosen(names_of(h)')
      /\ names_of(h)' \subseteq Parameters
      /\ Weighted(other_signals(h)')
      /\ \A s \in other_signals(h)' : s.kind # "param"
      /\ served_content(h)' <=> needles_of(h)' # {} \/ chosen(names_of(h)') # {}
  BY <1>2 DEF SignalsKnown
<1>4. urls_of(h) \subseteq urls_of(h)' /\ UNCHANGED <<probe, answer, dns>>
  BY DEF StoreUrl, urls_of
<1>5. names_of(h) \subseteq names_of(h)' /\ needles_of(h) \subseteq needles_of(h)'
  BY <1>4 DEF names_of, needles_of
<1>6. other_signals(h) \subseteq other_signals(h)'
  <2>1. path_signals(h) \subseteq path_signals(h)'
    BY <1>5 DEF path_signals, needles_of
  <2>2. surface_signal(h) \subseteq surface_signal(h)'
    <3>1. urls_of(h) \in SUBSET urls_of(h)' /\ urls_of(h)' \in SUBSET urls' /\ IsFiniteSet(urls')
      BY <1>4 DEF urls_of, FocusTypes
    <3> DEFINE n == Cardinality(urls_of(h))
               m == Cardinality(urls_of(h)')
    <3>2. IsFiniteSet(urls_of(h)')
      BY <3>1, FS_Subset
    <3>3. n \in Nat /\ m \in Nat /\ n <= m
      BY <3>1, <3>2, FS_Subset, FS_CardinalityType
    <3> HIDE DEF n, m
    <3>4. n >= SurfaceAt => m >= SurfaceAt
      BY <3>3, FocusAssumption
    <3> QED
      BY <3>4 DEF surface_signal, n, m
  <2>3. /\ subdomain_signals(h)' = subdomain_signals(h)
        /\ takeover_signal(h)' = takeover_signal(h)
        /\ answer_signals(h)' = answer_signals(h)
    BY <1>4 DEF subdomain_signals, takeover_signal, answer_signals
  <2> QED
    BY <2>1, <2>2, <2>3 DEF other_signals
<1> DEFINE A == other_signals(h)
           B == other_signals(h)'
           M == names_of(h)
           N == names_of(h)'
<1>7. PICK e \in Injection(chosen(M), chosen(N)) : \A s \in chosen(M) : e[s].weight >= s.weight
  BY <1>3, <1>5, ChosenExchange
<1>8. /\ Weighted(chosen(M)) /\ Weighted(chosen(N))
      /\ \A s \in chosen(M) \cup chosen(N) : s.kind = "param"
  BY <1>3, <1>5, ChosenWeighted
<1>9. total(A \cup chosen(M)) <= total(B \cup chosen(N))
  <2>1. Weighted(B) /\ A \subseteq B /\ B \cap chosen(N) = {} /\ A \cap chosen(M) = {}
    BY <1>1, <1>3, <1>6, <1>8
  <2> HIDE DEF A, B, M, N
  <2> QED
    BY <1>7, <1>8, <2>1, SumOfExchange
<1>10. total(signals(h)) <= total(signals(h))'
  <2>1. total(signals(h))' = total(signals(h)')
    OBVIOUS
  <2> QED
    BY <1>1, <1>3, <1>9, <2>1
<1>11. chosen(M) # {} => chosen(N) # {}
  <2>1. e \in [chosen(M) -> chosen(N)]
    BY <1>7, Fun_InjectionProperties
  <2> QED
    BY <2>1
<1> QED
  BY <1>1, <1>3, <1>5, <1>10, <1>11

\* The score of a host whose standing is the same, or becomes an answer, or
\* becomes silence.
LEMMA ValuedByProbe ==
  ASSUME NEW a \in Nat, NEW b \in Nat
  PROVE  /\ a <= b => valued(b, "live") - valued(a, "unprobed") >= 2
         /\ valued(a, "dead") - valued(a, "unprobed") <= 0
         /\ valued(a, "archived") - valued(a, "unprobed") <= 0
BY DEF valued

LEMMA UrlMovesRightWay ==
  ASSUME FocusTypes, FocusTypes', NEW u \in Urls, StoreUrl(u), NEW h \in Hosts,
         probe[h] # "dead" \/ served_content(h)
  PROVE  score_host(h)' - score_host(h) >= 0
<1> DEFINE a == total(signals(h))
           b == total(signals(h))'
           s == standing(h)
<1>1. /\ a \in Nat /\ s \in {"unprobed", "live", "dead", "archived"}
      /\ score_host(h) = valued(a, s)
  BY ScoresAreKnown DEF ScoresKnown
<1>2. ScoresKnown'
  BY ScoresAreKnown, PTL
<1>3. b \in Nat /\ score_host(h)' = valued(b, standing(h)')
  BY <1>2 DEF ScoresKnown
<1>4. standing(h)' = s
  <2>1. probe' = probe
    BY DEF StoreUrl
  <2>2. served_content(h) => served_content(h)'
    BY UrlRaises
  <2> QED
    BY <2>1, <2>2 DEF standing
<1>5. a <= b
  BY UrlRaises
<1> HIDE DEF a, b, s
<1>6. valued(a, s) \in Nat /\ valued(b, s) \in Nat /\ valued(a, s) <= valued(b, s)
  BY <1>1, <1>3, <1>5, ValuedGrows
<1>7. valued(b, s) - valued(a, s) >= 0
  BY <1>6
<1> QED
  BY <1>1, <1>3, <1>4, <1>7

LEMMA ProbeMovesRightWay ==
  ASSUME FocusTypes, FocusTypes', NEW g \in Hosts, Probe(g), NEW h \in Hosts,
         probe'[h] # probe[h]
  PROVE  LET by == score_host(h)' - score_host(h)
         IN  IF probe'[h] = "live" THEN by >= 2 ELSE by <= 0
<1> DEFINE a == total(signals(h))
           b == total(signals(h))'
<1>1. /\ probe[h] = "unprobed"
      /\ UNCHANGED <<urls, dns>>
      /\ probe'[h] \in {"live", "dead"}
      /\ probe'[h] = "dead" => answer' = answer
  BY DEF Probe, FocusTypes
<1>2. a \in Nat /\ score_host(h) = valued(a, "unprobed")
  BY <1>1, ScoresAreKnown DEF ScoresKnown, standing
<1>3. ScoresKnown' /\ SignalsKnown'
  BY ScoresAreKnown, SignalsAreKnown, PTL
<1>4. b \in Nat /\ score_host(h)' = valued(b, standing(h)')
  BY <1>3 DEF ScoresKnown
<1>5. CASE probe'[h] = "live"
  <2>1. standing(h)' = "live"
    BY <1>5 DEF standing
  <2>2. a <= b
    <3>1. answer[h] = NoAnswer
      BY <1>1 DEF FocusTypes
    <3>2. /\ subdomain_signals(h)' = subdomain_signals(h)
          /\ path_signals(h)' = path_signals(h)
          /\ param_signals(h)' = param_signals(h)
          /\ takeover_signal(h)' = takeover_signal(h)
          /\ surface_signal(h)' = surface_signal(h)
      BY <1>1 DEF subdomain_signals, path_signals, param_signals, takeover_signal, surface_signal,
                  urls_of
    <3>3. signals(h) \subseteq signals(h)'
      BY <3>1, <3>2 DEF signals
    <3>4. Weighted(signals(h)')
      <4>1. /\ signals(h)' = other_signals(h)' \cup chosen(names_of(h)')
            /\ names_of(h)' \subseteq Parameters /\ Weighted(other_signals(h)')
        BY <1>3 DEF SignalsKnown
      <4> QED
        BY <4>1, ChosenWeighted, WeightedUnion
    <3> QED
      BY <3>3, <3>4, SumOfMore
  <2>3. valued(b, "live") - valued(a, "unprobed") >= 2
    <3> HIDE DEF a, b
    <3> QED
      BY <1>2, <1>4, <2>2, ValuedByProbe
  <2> HIDE DEF a, b
  <2> QED
    BY <1>2, <1>4, <1>5, <2>1, <2>3
<1>6. CASE probe'[h] = "dead"
  <2>1. standing(h)' \in {"dead", "archived"}
    BY <1>6 DEF standing
  <2>2. b = a
    <3>1. signals(h)' = signals(h)
      BY <1>1, <1>6 DEF signals, subdomain_signals, path_signals, param_signals, takeover_signal,
                        surface_signal, urls_of
    <3> QED
      BY <3>1
  <2>3. valued(a, standing(h)') - valued(a, "unprobed") <= 0
    <3> HIDE DEF a
    <3> QED
      BY <1>2, <2>1, ValuedByProbe
  <2> HIDE DEF a, b
  <2> QED
    BY <1>2, <1>4, <1>6, <2>2, <2>3
<1> QED
  BY <1>1, <1>5, <1>6

LEMMA StepMovesRightWay ==
  ASSUME FocusTypes, FocusTypes', [Next]_vars, NEW h \in known
  PROVE  LET by == score_host(h)' - score_host(h)
         IN  /\ urls' # urls /\ (probe[h] # "dead" \/ served_content(h)) => by >= 0
             /\ probe'[h] # probe[h] => IF probe'[h] = "live" THEN by >= 2 ELSE by <= 0
<1> DEFINE by == score_host(h)' - score_host(h)
           Goal == /\ urls' # urls /\ (probe[h] # "dead" \/ served_content(h)) => by >= 0
                   /\ probe'[h] # probe[h] => IF probe'[h] = "live" THEN by >= 2 ELSE by <= 0
<1>0. h \in Hosts
  BY DEF FocusTypes
<1>1. ASSUME NEW u \in Urls, StoreUrl(u) PROVE Goal
  <2>1. probe' = probe
    BY <1>1 DEF StoreUrl
  <2>2. probe[h] # "dead" \/ served_content(h) => by >= 0
    BY <1>0, <1>1, UrlMovesRightWay
  <2> HIDE DEF by
  <2> QED
    BY <2>1, <2>2
<1>2. ASSUME NEW g \in Hosts, Probe(g) PROVE Goal
  <2>1. urls' = urls
    BY <1>2 DEF Probe
  <2>2. probe'[h] # probe[h] => IF probe'[h] = "live" THEN by >= 2 ELSE by <= 0
    BY <1>0, <1>2, ProbeMovesRightWay
  <2> HIDE DEF by
  <2> QED
    BY <2>1, <2>2
<1>3. ASSUME UNCHANGED <<urls, probe>> PROVE Goal
  <2> HIDE DEF by
  <2> QED
    BY <1>3
<1>4. ASSUME NEW g \in Hosts, StoreHost(g) \/ DnsEnrich(g) PROVE UNCHANGED <<urls, probe>>
  BY <1>4 DEF StoreHost, DnsEnrich
<1>5. ASSUME Analyze \/ Exit \/ UNCHANGED vars PROVE UNCHANGED <<urls, probe>>
  BY <1>5 DEF Analyze, Exit, vars, evidence
<1> HIDE DEF Goal
<1>6. Goal
  BY <1>1, <1>2, <1>3, <1>4, <1>5 DEF Next
<1> QED
  BY <1>6 DEF Goal

\* A further archived URL never lowers a host, whichever parameters its own
\* displace from the three classes that count; an answer raises the host by at
\* least the live bonus, silence never raises it: for any weights, any classes
\* and any number of classes that count.
THEOREM EvidenceMovesScoresRightWay == Spec => EvidenceMovesRightWay
<1>1. FocusTypes /\ FocusTypes' /\ [Next]_vars =>
        [\A h \in known :
           LET by == score_host(h)' - score_host(h)
           IN  /\ urls' # urls /\ (probe[h] # "dead" \/ served_content(h)) => by >= 0
               /\ probe'[h] # probe[h] => IF probe'[h] = "live" THEN by >= 2 ELSE by <= 0]_vars
  BY StepMovesRightWay
<1> QED
  BY <1>1, FocusTypeCorrect, PTL DEF Spec, EvidenceMovesRightWay

----------------------------------------------------------------------------
(* The ranking.                                                            *)

ranking == {p \in known \X known : ranks_before(p[1], p[2])}

LEMMA RanksBeforeIs ==
  ASSUME FocusTypes, NEW g \in known, NEW h \in known
  PROVE  /\ score_host(g) \in Nat /\ score_host(h) \in Nat /\ g \in Nat /\ h \in Nat
         /\ ranks_before(g, h) <=>
              \/ score_host(g) > score_host(h)
              \/ /\ score_host(g) = score_host(h)
                 /\ \/ probe[g] = "live" /\ probe[h] # "live"
                    \/ (probe[g] = "live" <=> probe[h] = "live") /\ g < h
<1>1. g \in Hosts /\ h \in Hosts
  BY DEF FocusTypes
<1>2. g \in Nat /\ h \in Nat
  BY <1>1, FocusAssumption
<1>3. score_host(g) \in Nat /\ score_host(h) \in Nat
  BY <1>1, ScoresAreKnown DEF ScoresKnown
<1> DEFINE a == score_host(g)
           b == score_host(h)
<1>4. (a - b > 0 <=> a > b) /\ (a - b = 0 <=> a = b)
  <2> HIDE DEF a, b
  <2> SUFFICES ASSUME a \in Nat, b \in Nat PROVE (a - b > 0 <=> a > b) /\ (a - b = 0 <=> a = b)
    BY <1>3 DEF a, b
  <2> QED
    OBVIOUS
<1> QED
  BY <1>2, <1>3, <1>4, Zenon DEF ranks_before

\* Two hosts are always ranked, one before the other.
LEMMA RankingOrdered == FocusTypes => Ordered(known, ranking)
<1> SUFFICES ASSUME FocusTypes PROVE Ordered(known, ranking)
  OBVIOUS
<1>1. IsFiniteSet(known)
  <2>1. known \in SUBSET Hosts /\ IsFiniteSet(Hosts)
    BY FocusAssumption DEF FocusTypes
  <2> QED
    BY <2>1, FS_Subset
<1>2. \A g, h \in known : <<g, h>> \in ranking <=> ranks_before(g, h)
  BY DEF ranking
<1>3. ASSUME NEW h \in known PROVE ~ranks_before(h, h)
  BY RanksBeforeIs
<1>4. ASSUME NEW g \in known, NEW h \in known, g # h PROVE ranks_before(g, h) \/ ranks_before(h, g)
  BY <1>4, RanksBeforeIs
<1>5. ASSUME NEW f \in known, NEW g \in known, NEW h \in known,
             ranks_before(f, g), ranks_before(g, h)
      PROVE  ranks_before(f, h)
  BY <1>5, RanksBeforeIs
<1> QED
  BY <1>1, <1>2, <1>3, <1>4, <1>5 DEF Ordered

Hosted == Cardinality(known)

\* prioritize lists every known host once, the scores never rising.
RankingSorted ==
  /\ Hosted \in Nat
  /\ prioritize \in Bijection(1..Hosted, known)
  /\ \A i, j \in 1..Hosted : i < j => score_host(prioritize[i]) >= score_host(prioritize[j])

LEMMA PrioritizeSorts == FocusTypes => RankingSorted
<1> SUFFICES ASSUME FocusTypes PROVE RankingSorted
  OBVIOUS
<1> DEFINE sorted(s) == \A i, j \in 1..Hosted : i < j => ranks_before(s[i], s[j])
<1>1. \E s \in [1..Hosted -> known] : sorted(s)
  <2>1. PICK s \in [1..Hosted -> known] : \A i, j \in 1..Hosted : i < j => <<s[i], s[j]>> \in ranking
    BY RankingOrdered, OrderedLists DEF Hosted
  <2>2. sorted(s)
    BY <2>1 DEF ranking
  <2> QED
    BY <2>2
<1>2. prioritize \in [1..Hosted -> known] /\ sorted(prioritize)
  BY <1>1 DEF prioritize, Hosted
<1>3. /\ Hosted \in Nat /\ IsFiniteSet(known)
      /\ IsFiniteSet(1..Hosted) /\ Cardinality(1..Hosted) = Hosted
  <2>1. Hosted \in Nat /\ IsFiniteSet(known)
    BY RankingOrdered, FS_CardinalityType DEF Ordered, Hosted
  <2>2. IsFiniteSet(1..Hosted) /\ Cardinality(1..Hosted) = IF 1 > Hosted THEN 0 ELSE Hosted - 1 + 1
    BY <2>1, FS_Interval
  <2> QED
    BY <2>1, <2>2
<1>4. ASSUME NEW i \in 1..Hosted, NEW j \in 1..Hosted, i < j
      PROVE  /\ prioritize[i] # prioritize[j]
             /\ score_host(prioritize[i]) >= score_host(prioritize[j])
  <2> DEFINE g == prioritize[i]
             h == prioritize[j]
  <2>1. g \in known /\ h \in known /\ ranks_before(g, h)
    BY <1>2, <1>4
  <2> HIDE DEF g, h
  <2>2. g # h /\ score_host(g) >= score_host(h)
    BY <2>1, RanksBeforeIs
  <2> QED
    BY <2>2 DEF g, h
<1>5. \A i, j \in 1..Hosted : prioritize[i] = prioritize[j] => i = j
  <2> SUFFICES ASSUME NEW i \in 1..Hosted, NEW j \in 1..Hosted, i # j
               PROVE  prioritize[i] # prioritize[j]
    OBVIOUS
  <2>1. i < j \/ j < i
    BY <1>3
  <2> QED
    BY <1>4, <2>1
<1>6. prioritize \in Injection(1..Hosted, known)
  BY <1>2, <1>5, Fun_IsInj
<1>7. prioritize \in Surjection(1..Hosted, known)
  BY <1>3, <1>6, FS_Injection DEF Hosted
<1>8. prioritize \in Bijection(1..Hosted, known)
  BY <1>6, <1>7 DEF Bijection
<1> QED
  BY <1>3, <1>4, <1>8 DEF RankingSorted

\* The ranking is one: it lists every known host once, and no host after one
\* with a lower score (prioritize's sort key is a strict total order).
THEOREM RankingIsSorted == Spec => []RankingSorted
BY FocusTypeCorrect, PrioritizeSorts, PTL

\* Where the scores of a list no longer reach a threshold.
LEMMA ListCut ==
  ASSUME NEW n \in Nat, NEW s, \A i \in 1..n : s[i] \in Nat,
         \A i, j \in 1..n : i < j => s[i] >= s[j], NEW x \in Nat
  PROVE  \E k \in 0..n : \A i \in 1..n : s[i] >= x <=> i <= k
<1> DEFINE below == {k \in 0..n : \A i \in 1..n : i > k => s[i] < x}
           k == Min(below)
<1>1. n \in below
  OBVIOUS
<1>2. k \in below /\ \A y \in below : k <= y
  <2>1. below \subseteq Nat /\ below # {}
    BY <1>1
  <2> HIDE DEF below
  <2> QED
    BY <2>1, MinOfNats
<1> HIDE DEF k
<1>3. k \in 0..n /\ \A i \in 1..n : i > k => s[i] < x
  BY <1>2
<1>4. ASSUME NEW i \in 1..n, i <= k PROVE s[i] >= x
  <2>1. k \in 1..n /\ k - 1 \in 0..n /\ ~(k <= k - 1)
    BY <1>3, <1>4
  <2>2. k - 1 \notin below
    BY <1>2, <2>1
  <2>3. PICK j \in 1..n : j > k - 1 /\ ~(s[j] < x)
    BY <2>1, <2>2
  <2>4. j <= k
    BY <1>3, <2>3
  <2>5. j = k
    BY <2>1, <2>3, <2>4
  <2>6. s[k] >= x /\ s[k] \in Nat /\ s[i] \in Nat
    BY <2>1, <2>3, <2>5
  <2>7. i = k \/ s[i] >= s[k]
    BY <1>4, <2>1
  <2> QED
    BY <2>6, <2>7
<1>5. ASSUME NEW i \in 1..n, s[i] >= x PROVE i <= k
  BY <1>3, <1>5
<1> QED
  BY <1>3, <1>4, <1>5

----------------------------------------------------------------------------
(* The tiers are segments of the ranking.                                  *)

LEMMA TierIs ==
  ASSUME NEW n \in Nat
  PROVE  /\ tier(n) = "critical" <=> n >= 18
         /\ tier(n) = "high" <=> n >= 11 /\ ~(n >= 18)
         /\ tier(n) = "medium" <=> n >= 5 /\ ~(n >= 11)
         /\ tier(n) = "low" <=> ~(n >= 5)
BY DEF tier

tier_at(i) == tier(score_host(prioritize[i]))

LEMMA TierSegments ==
  ASSUME FocusTypes
  PROVE  \E a, b, c \in 0..Hosted :
            /\ a <= b /\ b <= c
            /\ \A i \in 1..Hosted : /\ tier_at(i) = "critical" <=> 0 < i /\ i <= a
                                    /\ tier_at(i) = "high" <=> a < i /\ i <= b
                                    /\ tier_at(i) = "medium" <=> b < i /\ i <= c
                                    /\ tier_at(i) = "low" <=> c < i /\ i <= Hosted
<1> DEFINE s == [i \in 1..Hosted |-> score_host(prioritize[i])]
<1>1. /\ Hosted \in Nat
      /\ \A i \in 1..Hosted : s[i] \in Nat
      /\ \A i, j \in 1..Hosted : i < j => s[i] >= s[j]
  <2>1. RankingSorted
    BY PrioritizeSorts
  <2>2. prioritize \in [1..Hosted -> known]
    BY <2>1, Fun_BijectionProperties DEF RankingSorted
  <2>3. ASSUME NEW i \in 1..Hosted PROVE s[i] \in Nat
    <3>1. prioritize[i] \in Hosts
      BY <2>2 DEF FocusTypes
    <3> QED
      BY <3>1, ScoresAreKnown DEF ScoresKnown
  <2> QED
    BY <2>1, <2>3 DEF RankingSorted
<1>2. \A i \in 1..Hosted : tier_at(i) = tier(s[i])
  BY DEF tier_at
<1> HIDE DEF s
<1>3. \A x \in Nat : \E k \in 0..Hosted : \A i \in 1..Hosted : s[i] >= x <=> i <= k
  BY <1>1, ListCut
<1>4. PICK a \in 0..Hosted : \A i \in 1..Hosted : s[i] >= 18 <=> i <= a
  BY <1>3
<1>5. PICK b \in 0..Hosted : \A i \in 1..Hosted : s[i] >= 11 <=> i <= b
  BY <1>3
<1>6. PICK c \in 0..Hosted : \A i \in 1..Hosted : s[i] >= 5 <=> i <= c
  BY <1>3
<1>7. a <= b
  <2>1. CASE a = 0
    BY <1>1, <2>1
  <2>2. CASE a # 0
    <3>1. a \in 1..Hosted
      BY <1>1, <2>2
    <3>2. s[a] >= 18 /\ s[a] \in Nat
      BY <1>1, <1>4, <3>1
    <3>3. s[a] >= 11
      BY <3>2
    <3> QED
      BY <1>5, <3>1, <3>3
  <2> QED
    BY <2>1, <2>2
<1>8. b <= c
  <2>1. CASE b = 0
    BY <1>1, <2>1
  <2>2. CASE b # 0
    <3>1. b \in 1..Hosted
      BY <1>1, <2>2
    <3>2. s[b] >= 11 /\ s[b] \in Nat
      BY <1>1, <1>5, <3>1
    <3>3. s[b] >= 5
      BY <3>2
    <3> QED
      BY <1>6, <3>1, <3>3
  <2> QED
    BY <2>1, <2>2
<1>9. ASSUME NEW i \in 1..Hosted
      PROVE  /\ tier_at(i) = "critical" <=> 0 < i /\ i <= a
             /\ tier_at(i) = "high" <=> a < i /\ i <= b
             /\ tier_at(i) = "medium" <=> b < i /\ i <= c
             /\ tier_at(i) = "low" <=> c < i /\ i <= Hosted
  <2>1. /\ tier_at(i) = "critical" <=> s[i] >= 18
        /\ tier_at(i) = "high" <=> s[i] >= 11 /\ ~(s[i] >= 18)
        /\ tier_at(i) = "medium" <=> s[i] >= 5 /\ ~(s[i] >= 11)
        /\ tier_at(i) = "low" <=> ~(s[i] >= 5)
    BY <1>1, <1>2, TierIs
  <2>2. /\ tier_at(i) = "critical" <=> i <= a
        /\ tier_at(i) = "high" <=> i <= b /\ ~(i <= a)
        /\ tier_at(i) = "medium" <=> i <= c /\ ~(i <= b)
        /\ tier_at(i) = "low" <=> ~(i <= c)
    BY <1>4, <1>5, <1>6, <2>1
  <2> QED
    BY <1>1, <2>2
<1> QED
  BY <1>7, <1>8, <1>9

\* by_tier takes the hosts at consecutive places out of the list.
LEMMA ByTierIs ==
  ASSUME NEW S, NEW s \in Seq(S), NEW lo \in 0..Len(s), NEW hi \in lo..Len(s), NEW t,
         \A i \in 1..Len(s) : tier(score_host(s[i])) = t <=> lo < i /\ i <= hi
  PROVE  by_tier(s, t) = SubSeq(s, lo + 1, hi)
<1> DEFINE n == Len(s)
           upto(i) == IF i <= hi THEN i ELSE hi
           body(f, i) == IF i = 0 THEN <<>>
                         ELSE IF tier(score_host(s[i])) = t THEN Append(f[i - 1], s[i])
                         ELSE f[i - 1]
           taken == [i \in 0..n |-> SubSeq(s, lo + 1, upto(i))]
           filled == CHOOSE f : f = [i \in 0..n |-> body(f, i)]
<1>1. n \in Nat /\ lo \in Nat /\ hi \in Nat /\ lo <= hi /\ hi <= n
  BY LenProperties
<1>2. ASSUME NEW i \in 0..n PROVE taken[i] = body(taken, i)
  <2>1. CASE i <= lo
    <3>1. upto(i) = i /\ (i # 0 => upto(i - 1) = i - 1)
      BY <1>1, <2>1
    <3>2. SubSeq(s, lo + 1, i) = <<>> /\ SubSeq(s, lo + 1, i - 1) = <<>>
      <4>1. lo + 1 \in Int /\ i \in Int /\ i - 1 \in Int /\ i < lo + 1 /\ i - 1 < lo + 1
        BY <1>1, <2>1
      <4> QED
        BY <4>1, SubSeqEmpty
    <3>3. i # 0 => tier(score_host(s[i])) # t
      BY <1>1, <2>1
    <3>4. i # 0 => i - 1 \in 0..n
      BY <1>1
    <3> HIDE DEF n
    <3> QED
      BY <3>1, <3>2, <3>3, <3>4
  <2>2. CASE lo < i /\ i <= hi
    <3>1. upto(i) = i /\ upto(i - 1) = i - 1 /\ i # 0 /\ i - 1 \in 0..n
      BY <1>1, <2>2
    <3>2. tier(score_host(s[i])) = t
      BY <1>1, <2>2
    <3>3. s[i] \in S /\ SubSeq(s, lo + 1, i - 1) \in Seq(S)
      <4>1. \A j \in 1..n : s[j] \in S
        BY ElementOfSeq
      <4>2. i \in 1..n /\ lo + 1 \in Int /\ i - 1 \in Int /\ \A j \in (lo + 1)..(i - 1) : j \in 1..n
        BY <1>1, <2>2
      <4>3. SubSeq(s, lo + 1, i - 1) \in Seq(S)
        BY <4>1, <4>2, SubSeqProperties
      <4> QED
        BY <4>1, <4>2, <4>3
    <3>4. SubSeq(s, lo + 1, i) = SubSeq(s, lo + 1, i - 1) \o <<s[i]>>
      <4>1. lo + 1 \in 1..Len(s) /\ i \in (lo + 1)..Len(s)
        BY <1>1, <2>2
      <4> QED
        BY <4>1, SubSeqRecursiveSecond
    <3>5. Append(SubSeq(s, lo + 1, i - 1), s[i]) = SubSeq(s, lo + 1, i)
      BY <3>3, <3>4, AppendIsConcat
    <3> HIDE DEF n
    <3> QED
      BY <3>1, <3>2, <3>5
  <2>3. CASE hi < i
    <3>1. upto(i) = hi /\ upto(i - 1) = hi /\ i # 0 /\ i - 1 \in 0..n
      BY <1>1, <2>3
    <3>2. tier(score_host(s[i])) # t
      BY <1>1, <2>3
    <3> HIDE DEF n
    <3> QED
      BY <3>1, <3>2
  <2>4. i <= lo \/ (lo < i /\ i <= hi) \/ hi < i
    BY <1>1
  <2> HIDE DEF taken, body
  <2> QED
    BY <2>1, <2>2, <2>3, <2>4
<1>3. taken = [i \in 0..n |-> body(taken, i)]
  <2> HIDE DEF body
  <2> QED
    BY <1>2
<1>4. filled = [i \in 0..n |-> body(filled, i)]
  <2> HIDE DEF taken, body
  <2> QED
    BY <1>3
<1> HIDE DEF taken, filled
<1>5. filled[n] = taken[n]
  <2> DEFINE differ == {i \in 0..n : filled[i] # taken[i]}
             i == Min(differ)
  <2>1. ASSUME differ # {} PROVE FALSE
    <3>1. differ \subseteq Nat
      BY <1>1
    <3>2. i \in differ /\ \A j \in differ : i <= j
      <4> HIDE DEF differ
      <4> QED
        BY <2>1, <3>1, MinOfNats
    <3> HIDE DEF i
    <3>3. i \in 0..n /\ filled[i] # taken[i]
      BY <3>2
    <3>4. filled[i] = body(filled, i) /\ taken[i] = body(taken, i)
      <4> HIDE DEF body
      <4> QED
        BY <1>3, <1>4, <3>3
    <3>5. i # 0
      BY <3>3, <3>4
    <3>6. i - 1 \in 0..n /\ ~(i <= i - 1)
      BY <1>1, <3>3, <3>5
    <3>7. filled[i - 1] = taken[i - 1]
      BY <3>2, <3>6
    <3> QED
      BY <3>3, <3>4, <3>5, <3>7
  <2> QED
    BY <1>1, <2>1
<1>6. taken[n] = SubSeq(s, lo + 1, hi)
  <2>1. upto(n) = hi /\ n \in 0..n
    BY <1>1
  <2> HIDE DEF n, upto
  <2> QED
    BY <2>1 DEF taken
<1>7. by_tier(s, t) = filled[n]
  BY DEF by_tier, filled
<1> QED
  BY <1>5, <1>6, <1>7

----------------------------------------------------------------------------
(* What is written out, tier after tier.                                   *)

\* How many of the first n hosts are shown when a of them are critical.
reach(a, n) == IF TopN < a /\ a <= n THEN a ELSE IF TopN < n THEN TopN ELSE n

\* The first n hosts of the ranking, written out.
outcome(a, n) == [shown |-> SubSeq(prioritize, 1, reach(a, n)), more |-> n - reach(a, n)]

LEMMA SegmentIs ==
  ASSUME NEW S, NEW s \in Seq(S), NEW lo \in 0..Len(s), NEW hi \in lo..Len(s),
         NEW k \in 0..(hi - lo)
  PROVE  /\ Len(SubSeq(s, lo + 1, hi)) = hi - lo
         /\ SubSeq(SubSeq(s, lo + 1, hi), 1, k) = SubSeq(s, lo + 1, lo + k)
<1> DEFINE n == Len(s)
           w == SubSeq(s, lo + 1, hi)
<1>1. n \in Nat /\ lo \in Nat /\ hi \in Nat /\ k \in Nat /\ lo <= hi /\ hi <= n /\ k <= hi - lo
  BY LenProperties
<1>2. \A i \in 1..n : s[i] \in S
  BY ElementOfSeq
<1>3. /\ lo + 1 \in Int /\ hi \in Int /\ \A i \in (lo + 1)..hi : i \in 1..n
      /\ (IF lo + 1 <= hi THEN hi - (lo + 1) + 1 ELSE 0) = hi - lo
      /\ hi - (lo + 1) + 1 = hi - lo
      /\ lo + k \in Int /\ \A i \in (lo + 1)..(lo + k) : i \in 1..n
      /\ (IF lo + 1 <= lo + k THEN lo + k - (lo + 1) + 1 ELSE 0) = k
      /\ lo + k - (lo + 1) + 1 = k
  BY <1>1
<1>4. /\ w \in Seq(S) /\ Len(w) = hi - lo
      /\ \A i \in 1..(hi - lo) : w[i] = s[lo + 1 + i - 1]
  <2>1. \A i \in (lo + 1)..hi : s[i] \in S
    BY <1>2, <1>3
  <2>2. /\ w \in Seq(S) /\ Len(w) = IF lo + 1 <= hi THEN hi - (lo + 1) + 1 ELSE 0
        /\ \A i \in 1..(hi - (lo + 1) + 1) : w[i] = s[lo + 1 + i - 1]
    <3> DEFINE m == lo + 1
    <3>1. m \in Int /\ hi \in Int /\ \A i \in m..hi : s[i] \in S
      BY <1>3, <2>1
    <3> HIDE DEF m
    <3> QED
      BY <3>1, SubSeqProperties DEF m
  <2> HIDE DEF w
  <2> QED
    BY <1>3, <2>2
<1> DEFINE v == SubSeq(s, lo + 1, lo + k)
           u == SubSeq(w, 1, k)
<1>5. /\ v \in Seq(S) /\ Len(v) = k
      /\ \A i \in 1..k : v[i] = s[lo + 1 + i - 1]
  <2>1. \A i \in (lo + 1)..(lo + k) : s[i] \in S
    BY <1>2, <1>3
  <2>2. /\ v \in Seq(S) /\ Len(v) = IF lo + 1 <= lo + k THEN lo + k - (lo + 1) + 1 ELSE 0
        /\ \A i \in 1..(lo + k - (lo + 1) + 1) : v[i] = s[lo + 1 + i - 1]
    BY <1>3, <2>1, SubSeqProperties
  <2> HIDE DEF v
  <2> QED
    BY <1>3, <2>2
<1> HIDE DEF w
<1>6. /\ u \in Seq(S) /\ Len(u) = k
      /\ \A i \in 1..k : u[i] = w[i]
  <2>1. \A i \in 1..k : w[i] \in S
    <3>1. \A i \in 1..k : i \in 1..Len(w)
      BY <1>1, <1>4
    <3> QED
      BY <1>4, <3>1, ElementOfSeq
  <2>2. 1 \in Int /\ k \in Int /\ (IF 1 <= k THEN k - 1 + 1 ELSE 0) = k /\ k - 1 + 1 = k
    BY <1>1
  <2>3. /\ u \in Seq(S) /\ Len(u) = IF 1 <= k THEN k - 1 + 1 ELSE 0
        /\ \A i \in 1..(k - 1 + 1) : u[i] = w[1 + i - 1]
    BY <2>1, <2>2, SubSeqProperties
  <2> HIDE DEF u
  <2>4. \A i \in 1..k : 1 + i - 1 = i
    OBVIOUS
  <2> QED
    BY <2>2, <2>3, <2>4
<1> HIDE DEF u, v
<1>7. \A i \in 1..k : u[i] = v[i]
  BY <1>1, <1>4, <1>5, <1>6
<1>8. u = v
  BY <1>5, <1>6, <1>7, SeqEqual
<1> QED
  BY <1>4, <1>8 DEF u, v, w

\* How many of a tier are written: none when the hosts before it did not fit.
LEMMA RoomIs ==
  ASSUME NEW a \in Nat, NEW lo \in Nat, NEW hi \in Nat, a <= lo, lo <= hi
  PROVE  LET k == reach(a, lo)
             r == IF TopN - k >= 0 THEN TopN - k ELSE 0
             w == IF r <= hi - lo THEN r ELSE hi - lo
         IN  /\ k \in 0..lo /\ w \in 0..(hi - lo) /\ reach(a, hi) = k + w
             /\ w = 0 \/ k = lo
<1>1. TopN \in Nat
  BY FocusAssumption
<1> QED
  BY <1>1 DEF reach

\* The tiers below critical extend the list while there is room.
LEMMA WriteExtends ==
  ASSUME NEW S, prioritize \in Seq(S), NEW a \in Nat, NEW lo \in a..Len(prioritize),
         NEW hi \in lo..Len(prioritize), NEW t, t # "critical"
  PROVE  write(outcome(a, lo), t, SubSeq(prioritize, lo + 1, hi)) = outcome(a, hi)
<1> DEFINE hosts == SubSeq(prioritize, lo + 1, hi)
           k == reach(a, lo)
           r == IF TopN - k >= 0 THEN TopN - k ELSE 0
           w == IF r <= hi - lo THEN r ELSE hi - lo
           first == SubSeq(prioritize, 1, k)
<1>1. Len(prioritize) \in Nat /\ lo \in Nat /\ hi \in Nat /\ a <= lo /\ lo <= hi
  BY LenProperties
<1>2. k \in 0..lo /\ w \in 0..(hi - lo) /\ reach(a, hi) = k + w /\ (w = 0 \/ k = lo)
  BY <1>1, RoomIs
<1>3. TopN \in Nat
  BY FocusAssumption
<1> HIDE DEF k
<1>4. Len(first) = k /\ first \in Seq(S)
  <2>1. \A i \in 1..k : prioritize[i] \in S
    <3>1. \A i \in 1..k : i \in 1..Len(prioritize)
      BY <1>1, <1>2
    <3> QED
      BY <3>1, ElementOfSeq
  <2>2. 1 \in Int /\ k \in Int /\ (IF 1 <= k THEN k - 1 + 1 ELSE 0) = k
    BY <1>1, <1>2
  <2> QED
    BY <2>1, <2>2, SubSeqProperties
<1> HIDE DEF w
<1>5. /\ Len(hosts) = hi - lo
      /\ SubSeq(hosts, 1, w) = SubSeq(prioritize, lo + 1, lo + w)
  <2>1. lo \in 0..Len(prioritize) /\ hi \in lo..Len(prioritize)
    BY <1>1
  <2> QED
    BY <1>2, <2>1, SegmentIs
<1>6. first \o SubSeq(prioritize, lo + 1, lo + w) = SubSeq(prioritize, 1, k + w)
  <2>1. CASE w = 0
    <3>1. SubSeq(prioritize, lo + 1, lo + w) = <<>>
      <4>1. lo + 1 \in Int /\ lo + w \in Int /\ lo + w < lo + 1
        BY <1>1, <2>1
      <4> QED
        BY <4>1, SubSeqEmpty
    <3>2. first \o <<>> = first
      BY <1>4, ConcatEmptySeq
    <3>3. k + w = k
      BY <1>1, <1>2, <2>1
    <3> QED
      BY <3>1, <3>2, <3>3
  <2>2. CASE k = lo
    <3>1. /\ 1 \in 1..(Len(prioritize) + 1)
          /\ lo \in (1 - 1)..Len(prioritize) /\ lo + w \in lo..Len(prioritize)
      BY <1>1, <1>2
    <3>2. SubSeq(prioritize, 1, lo) \o SubSeq(prioritize, lo + 1, lo + w)
            = SubSeq(prioritize, 1, lo + w)
      BY <3>1, ConcatAdjacentSubSeq
    <3> QED
      BY <2>2, <3>2
  <2> QED
    BY <1>2, <2>1, <2>2
<1>7. room(t, first) = r
  <2>1. Max({0, TopN - k}) = IF 0 >= TopN - k THEN 0 ELSE TopN - k
    <3>1. TopN - k \in Int /\ 0 \in Int
      BY <1>1, <1>2, <1>3
    <3> QED
      BY <3>1, MaxOfTwo
  <2>2. (IF 0 >= TopN - k THEN 0 ELSE TopN - k) = r
    BY <1>1, <1>2, <1>3
  <2>3. room(t, first) = Max({0, TopN - k})
    BY <1>4 DEF room
  <2> QED
    BY <2>1, <2>2, <2>3
<1>8. Min({r, hi - lo}) = w
  <2>1. r \in Int /\ hi - lo \in Int
    BY <1>1, <1>2, <1>3
  <2> HIDE DEF r
  <2> QED
    BY <2>1, MinOfTwo DEF w
<1>9. lo - k + (hi - lo) - w = hi - (k + w)
  BY <1>1, <1>2
<1> DEFINE m == outcome(a, lo)
<1>10. m.shown = first /\ m.more = lo - k
  BY DEF outcome, k
<1> HIDE DEF m, first, hosts, r
<1>11. write(m, t, hosts) = [shown |-> first \o SubSeq(hosts, 1, w), more |-> lo - k + (hi - lo) - w]
  BY <1>5, <1>7, <1>8, <1>10 DEF write
<1>12. write(m, t, hosts) = [shown |-> SubSeq(prioritize, 1, k + w), more |-> hi - (k + w)]
  BY <1>5, <1>6, <1>9, <1>11
<1> QED
  BY <1>2, <1>12 DEF outcome, m, hosts

\* Every critical host is written out.
LEMMA WriteCritical ==
  ASSUME NEW S, prioritize \in Seq(S), Len(prioritize) = Cardinality(known),
         NEW a \in 0..Len(prioritize)
  PROVE  write([shown |-> <<>>, more |-> 0], "critical", SubSeq(prioritize, 1, a)) = outcome(a, a)
<1> DEFINE hosts == SubSeq(prioritize, 1, a)
<1>1. Len(prioritize) \in Nat /\ a \in Nat /\ a <= Len(prioritize)
  BY LenProperties
<1>2. Len(hosts) = a /\ SubSeq(hosts, 1, a) = hosts
  <2>1. 0 \in 0..Len(prioritize) /\ a \in 0..(a - 0) /\ 0 + 1 = 1 /\ 0 + a = a /\ a - 0 = a
    BY <1>1
  <2>2. /\ Len(SubSeq(prioritize, 0 + 1, a)) = a - 0
        /\ SubSeq(SubSeq(prioritize, 0 + 1, a), 1, a) = SubSeq(prioritize, 0 + 1, 0 + a)
    BY <2>1, SegmentIs
  <2> QED
    BY <2>1, <2>2
<1>3. <<>> \o hosts = hosts
  <2>1. hosts \in Seq(S)
    <3>1. \A i \in 1..a : i \in 1..Len(prioritize)
      BY <1>1
    <3>2. \A i \in 1..a : prioritize[i] \in S
      BY <3>1, ElementOfSeq
    <3>3. 1 \in Int /\ a \in Int
      BY <1>1
    <3> QED
      BY <3>2, <3>3, SubSeqProperties
  <2> HIDE DEF hosts
  <2> QED
    BY <2>1, ConcatEmptySeq
<1>4. Min({Cardinality(known), a}) = a
  <2>1. Min({Cardinality(known), a}) = IF Cardinality(known) <= a THEN Cardinality(known) ELSE a
    BY <1>1, MinOfTwo
  <2> QED
    BY <1>1, <2>1
<1>5. reach(a, a) = a /\ 0 + a - a = 0 /\ a - a = 0
  BY <1>1, FocusAssumption DEF reach
<1> DEFINE m == [shown |-> <<>>, more |-> 0]
<1>6. m.shown = <<>> /\ m.more = 0 /\ room("critical", m.shown) = Cardinality(known)
  BY DEF room
<1> HIDE DEF m, hosts
<1>7. write(m, "critical", hosts) = [shown |-> hosts, more |-> 0]
  BY <1>2, <1>3, <1>4, <1>5, <1>6 DEF write
<1> QED
  BY <1>5, <1>7 DEF outcome, m, hosts

Critical == {h \in known : tier(score_host(h)) = "critical"}

\* The critical hosts are the first of the ranking.
LEMMA CriticalFirst ==
  ASSUME FocusTypes, NEW a \in 0..Hosted,
         \A i \in 1..Hosted : tier_at(i) = "critical" <=> 0 < i /\ i <= a
  PROVE  Cardinality(Critical) = a
<1> DEFINE first == [i \in 1..a |-> prioritize[i]]
<1>1. /\ Hosted \in Nat
      /\ prioritize \in [1..Hosted -> known]
      /\ \A i, j \in 1..Hosted : prioritize[i] = prioritize[j] => i = j
      /\ \A h \in known : \E i \in 1..Hosted : prioritize[i] = h
  BY PrioritizeSorts, Fun_BijectionProperties DEF RankingSorted
<1>2. \A i \in 1..a : i \in 1..Hosted /\ 0 < i /\ i <= a
  BY <1>1
<1>3. first \in [1..a -> Critical]
  BY <1>1, <1>2 DEF tier_at, Critical
<1>4. \A i, j \in 1..a : first[i] = first[j] => i = j
  BY <1>1, <1>2
<1>5. ASSUME NEW h \in Critical PROVE \E i \in 1..a : first[i] = h
  <2>1. PICK i \in 1..Hosted : prioritize[i] = h
    BY <1>1 DEF Critical
  <2>2. i <= a
    BY <2>1 DEF tier_at, Critical
  <2>3. i \in 1..a
    BY <1>1, <2>2
  <2> QED
    BY <2>1, <2>3
<1> HIDE DEF first
<1>6. first \in Injection(1..a, Critical) /\ first \in Surjection(1..a, Critical)
  BY <1>3, <1>4, <1>5, Fun_IsInj, Fun_IsSurj
<1>7. IsFiniteSet(1..a) /\ Cardinality(1..a) = a
  <2>1. a \in Nat
    BY <1>1
  <2>2. IsFiniteSet(1..a) /\ Cardinality(1..a) = IF 1 > a THEN 0 ELSE a - 1 + 1
    BY <2>1, FS_Interval
  <2> QED
    BY <2>1, <2>2
<1>8. Cardinality(Critical) = Cardinality(1..a)
  BY <1>6, <1>7, FS_Surjection
<1> QED
  BY <1>7, <1>8

\* The whole map.
LEMMA MapIs ==
  FocusTypes => /\ Cardinality(Critical) \in 0..Hosted
                /\ render_focus_map(prioritize) = outcome(Cardinality(Critical), Hosted)
<1> SUFFICES ASSUME FocusTypes
             PROVE  /\ Cardinality(Critical) \in 0..Hosted
                    /\ render_focus_map(prioritize) = outcome(Cardinality(Critical), Hosted)
  OBVIOUS
<1>1. PICK a, b, c \in 0..Hosted :
              /\ a <= b /\ b <= c
              /\ \A i \in 1..Hosted : /\ tier_at(i) = "critical" <=> 0 < i /\ i <= a
                                      /\ tier_at(i) = "high" <=> a < i /\ i <= b
                                      /\ tier_at(i) = "medium" <=> b < i /\ i <= c
                                      /\ tier_at(i) = "low" <=> c < i /\ i <= Hosted
  BY TierSegments
<1>2. Cardinality(Critical) = a
  BY <1>1, CriticalFirst
<1>3. Hosted \in Nat /\ prioritize \in Seq(known) /\ Len(prioritize) = Hosted
  <2>1. Hosted \in Nat /\ prioritize \in [1..Hosted -> known]
    BY PrioritizeSorts, Fun_BijectionProperties DEF RankingSorted
  <2> QED
    BY <2>1, SeqDef, LenProperties
<1>4. /\ by_tier(prioritize, "critical") = SubSeq(prioritize, 1, a)
      /\ by_tier(prioritize, "high") = SubSeq(prioritize, a + 1, b)
      /\ by_tier(prioritize, "medium") = SubSeq(prioritize, b + 1, c)
      /\ by_tier(prioritize, "low") = SubSeq(prioritize, c + 1, Hosted)
  <2>1. ASSUME NEW t, NEW lo \in 0..Hosted, NEW hi \in lo..Hosted,
               \A i \in 1..Hosted : tier_at(i) = t <=> lo < i /\ i <= hi
        PROVE  by_tier(prioritize, t) = SubSeq(prioritize, lo + 1, hi)
    <3>1. \A i \in 1..Len(prioritize) : tier(score_host(prioritize[i])) = t <=> lo < i /\ i <= hi
      BY <1>3, <2>1 DEF tier_at
    <3>2. lo \in 0..Len(prioritize) /\ hi \in lo..Len(prioritize)
      BY <1>3
    <3> QED
      BY <1>3, <3>1, <3>2, ByTierIs
  <2>2. /\ 0 \in 0..Hosted /\ a \in 0..Hosted /\ b \in a..Hosted /\ c \in b..Hosted
        /\ Hosted \in c..Hosted /\ a \in 0..Hosted /\ 0 + 1 = 1
    BY <1>1, <1>3
  <2>3. by_tier(prioritize, "critical") = SubSeq(prioritize, 0 + 1, a)
    BY <1>1, <2>1, <2>2
  <2>4. by_tier(prioritize, "high") = SubSeq(prioritize, a + 1, b)
    BY <1>1, <2>1, <2>2
  <2>5. by_tier(prioritize, "medium") = SubSeq(prioritize, b + 1, c)
    BY <1>1, <2>1, <2>2
  <2>6. by_tier(prioritize, "low") = SubSeq(prioritize, c + 1, Hosted)
    BY <1>1, <2>1, <2>2
  <2> QED
    BY <2>2, <2>3, <2>4, <2>5, <2>6
<1> DEFINE nothing == [shown |-> <<>>, more |-> 0]
           end(i) == IF i = 1 THEN a ELSE IF i = 2 THEN b ELSE IF i = 3 THEN c ELSE Hosted
           body(f, i) == IF i = 0 THEN nothing
                         ELSE write(f[i - 1], TierOrder[i], by_tier(prioritize, TierOrder[i]))
           w == [i \in 0..4 |-> IF i = 0 THEN nothing ELSE outcome(a, end(i))]
           written == CHOOSE f : f = [i \in 0..4 |-> body(f, i)]
<1>5. /\ Len(TierOrder) = 4
      /\ TierOrder[1] = "critical" /\ TierOrder[2] = "high"
      /\ TierOrder[3] = "medium" /\ TierOrder[4] = "low"
  BY DEF TierOrder
<1>6. /\ write(nothing, "critical", SubSeq(prioritize, 1, a)) = outcome(a, a)
      /\ write(outcome(a, a), "high", SubSeq(prioritize, a + 1, b)) = outcome(a, b)
      /\ write(outcome(a, b), "medium", SubSeq(prioritize, b + 1, c)) = outcome(a, c)
      /\ write(outcome(a, c), "low", SubSeq(prioritize, c + 1, Hosted)) = outcome(a, Hosted)
  <2>1. /\ a \in 0..Len(prioritize) /\ Len(prioritize) = Cardinality(known)
        /\ a \in Nat /\ a \in a..Len(prioritize) /\ b \in a..Len(prioritize)
        /\ c \in a..Len(prioritize) /\ c \in b..Len(prioritize) /\ Hosted \in c..Len(prioritize)
    BY <1>1, <1>3 DEF Hosted
  <2>2. write(nothing, "critical", SubSeq(prioritize, 1, a)) = outcome(a, a)
    BY <1>3, <2>1, WriteCritical
  <2>3. \A t, lo, hi : t # "critical" /\ lo \in a..Len(prioritize) /\ hi \in lo..Len(prioritize)
                       => write(outcome(a, lo), t, SubSeq(prioritize, lo + 1, hi)) = outcome(a, hi)
    BY <1>3, <2>1, WriteExtends
  <2> HIDE DEF nothing
  <2> QED
    BY <2>1, <2>2, <2>3
<1> HIDE DEF nothing
<1>7. /\ body(w, 0) = w[0] /\ body(w, 1) = w[1] /\ body(w, 2) = w[2]
      /\ body(w, 3) = w[3] /\ body(w, 4) = w[4]
  <2>1. w[0] = nothing /\ w[1] = outcome(a, a) /\ w[2] = outcome(a, b)
        /\ w[3] = outcome(a, c) /\ w[4] = outcome(a, Hosted)
    OBVIOUS
  <2> HIDE DEF w
  <2>2. body(w, 0) = w[0]
    BY <2>1
  <2>3. body(w, 1) = w[1]
    <3>1. body(w, 1) = write(w[0], TierOrder[1], by_tier(prioritize, TierOrder[1]))
      OBVIOUS
    <3> QED
      BY <1>4, <1>5, <1>6, <2>1, <3>1
  <2>4. body(w, 2) = w[2]
    <3>1. body(w, 2) = write(w[1], TierOrder[2], by_tier(prioritize, TierOrder[2]))
      OBVIOUS
    <3> QED
      BY <1>4, <1>5, <1>6, <2>1, <3>1
  <2>5. body(w, 3) = w[3]
    <3>1. body(w, 3) = write(w[2], TierOrder[3], by_tier(prioritize, TierOrder[3]))
      OBVIOUS
    <3> QED
      BY <1>4, <1>5, <1>6, <2>1, <3>1
  <2>6. body(w, 4) = w[4]
    <3>1. body(w, 4) = write(w[3], TierOrder[4], by_tier(prioritize, TierOrder[4]))
      OBVIOUS
    <3> QED
      BY <1>4, <1>5, <1>6, <2>1, <3>1
  <2> QED
    BY <2>2, <2>3, <2>4, <2>5, <2>6
<1>8. w = [i \in 0..4 |-> body(w, i)]
  <2>1. \A i \in 0..4 : i = 0 \/ i = 1 \/ i = 2 \/ i = 3 \/ i = 4
    OBVIOUS
  <2> HIDE DEF body
  <2>2. \A i \in 0..4 : w[i] = body(w, i)
    BY <1>7, <2>1
  <2> QED
    BY <2>2
<1>9. written = [i \in 0..4 |-> body(written, i)]
  <2> HIDE DEF w, body
  <2> QED
    BY <1>8
<1>10. written[4] = w[4]
  <2> HIDE DEF w, written
  <2>1. written[0] = w[0] /\ written[1] = body(written, 1) /\ written[2] = body(written, 2)
        /\ written[3] = body(written, 3) /\ written[4] = body(written, 4)
    <3>1. written[0] = body(written, 0) /\ body(written, 0) = body(w, 0)
      <4>1. written[0] = body(written, 0)
        <5> HIDE DEF body
        <5> QED
          BY <1>9
      <4> QED
        BY <4>1
    <3> HIDE DEF body
    <3> QED
      BY <1>7, <1>9, <3>1
  <2>2. written[1] = w[1]
    BY <1>7, <2>1
  <2>3. written[2] = w[2]
    BY <1>7, <2>1, <2>2
  <2>4. written[3] = w[3]
    BY <1>7, <2>1, <2>3
  <2> QED
    BY <1>7, <2>1, <2>4
<1>11. render_focus_map(prioritize) = written[4]
  BY <1>5 DEF render_focus_map, written, nothing
<1>12. w[4] = outcome(a, Hosted)
  OBVIOUS
<1> HIDE DEF w, written
<1> QED
  BY <1>2, <1>10, <1>11, <1>12

\* While there is a map, it is that of the evidence as it stands.
MapCurrent == map = <<>> \/ map = render_focus_map(prioritize)

MapInv == FocusTypes /\ MapCurrent

\* The score of a host with these signals and this state.
weigh(S, state) ==
  LET sum == total(S)
      content == \E s \in S : s.kind \in {"path", "param"}
  IN  CASE state = "live" -> sum + 2
        [] state = "dead" /\ content -> Max({0, sum - 5})
        [] state = "dead" /\ ~content -> Min({sum, 4})
        [] OTHER -> sum

ScoresWeighed == \A h : score_host(h) = weigh(signals(h), probe[h])

LEMMA ScoresAreWeighed == ScoresWeighed
BY DEF ScoresWeighed, score_host, served_content, weigh, total

LEMMA MapInvNext == MapInv /\ [Next]_vars => MapInv'
<1> SUFFICES ASSUME MapInv, [Next]_vars PROVE MapCurrent'
  BY FocusTypesNext DEF MapInv
<1>1. ASSUME UNCHANGED evidence PROVE UNCHANGED render_focus_map(prioritize)
  <2>1. \A h : score_host(h)' = score_host(h)
    <3> SUFFICES ASSUME NEW h PROVE score_host(h)' = score_host(h)
      OBVIOUS
    <3>1. signals(h)' = signals(h)
      BY <1>1 DEF evidence, signals, subdomain_signals, path_signals, param_signals,
                  takeover_signal, surface_signal, urls_of
    <3>2. ScoresWeighed /\ ScoresWeighed'
      BY ScoresAreWeighed, PTL
    <3>3. /\ score_host(h) = weigh(signals(h), probe[h])
          /\ score_host(h)' = weigh(signals(h)', probe'[h])
      BY <3>2 DEF ScoresWeighed
    <3> QED
      BY <1>1, <3>1, <3>3 DEF evidence
  <2>2. \A g, h : ranks_before(g, h)' <=> ranks_before(g, h)
    BY <1>1, <2>1 DEF evidence, ranks_before
  <2>3. prioritize' = prioritize
    BY <1>1, <2>2 DEF evidence, prioritize
  <2>4. \A r, t : by_tier(r, t)' = by_tier(r, t)
    BY <2>1 DEF by_tier
  <2>5. \A m, t, hosts : write(m, t, hosts)' = write(m, t, hosts)
    BY <1>1 DEF evidence, write, room
  <2> QED
    BY <2>3, <2>4, <2>5 DEF render_focus_map
<1>2. CASE Analyze
  BY <1>1, <1>2 DEF Analyze, MapCurrent
<1>3. CASE Exit
  BY <1>3 DEF Exit, MapCurrent
<1>4. ASSUME NEW h \in Hosts, StoreHost(h) \/ DnsEnrich(h) \/ Probe(h) PROVE map' = <<>>
  BY <1>4 DEF StoreHost, DnsEnrich, Probe
<1>5. ASSUME NEW u \in Urls, StoreUrl(u) PROVE map' = <<>>
  BY <1>5 DEF StoreUrl
<1>6. CASE UNCHANGED vars
  BY <1>1, <1>6 DEF vars, evidence, MapInv, MapCurrent
<1> QED
  BY <1>2, <1>3, <1>4, <1>5, <1>6 DEF Next, MapCurrent

\* A map that is current is the top of the ranking.
LEMMA CurrentIsTop == MapInv => MapIsTopOfRanking
<1> SUFFICES ASSUME MapInv, map # <<>> PROVE MapIsTopOfRanking
  BY DEF MapIsTopOfRanking
<1> DEFINE a == Cardinality(Critical)
           k == reach(a, Hosted)
<1>1. a \in 0..Hosted /\ map = outcome(a, Hosted)
  BY MapIs DEF MapInv, MapCurrent
<1>2. /\ Hosted \in Nat /\ prioritize \in [1..Hosted -> known]
  BY PrioritizeSorts, Fun_BijectionProperties DEF RankingSorted, MapInv
<1>3. TopN \in Nat
  BY FocusAssumption
<1> HIDE DEF a
<1>4. k \in 0..Hosted /\ k = Max({a, Min({TopN, Hosted})})
  <2>1. Min({TopN, Hosted}) = IF TopN <= Hosted THEN TopN ELSE Hosted
    BY <1>2, <1>3, MinOfTwo
  <2> DEFINE n == Min({TopN, Hosted})
  <2>2. n \in Nat
    BY <1>2, <1>3, <2>1
  <2> HIDE DEF n
  <2>3. Max({a, n}) = IF a >= n THEN a ELSE n
    BY <1>1, <1>2, <2>2, MaxOfTwo
  <2>4. n = IF TopN <= Hosted THEN TopN ELSE Hosted
    BY <2>1 DEF n
  <2>5. k \in 0..Hosted /\ k = IF a >= n THEN a ELSE n
    BY <1>1, <1>2, <1>3, <2>4 DEF reach
  <2> QED
    BY <2>3, <2>5 DEF n
<1> HIDE DEF k
<1>5. Len(SubSeq(prioritize, 1, k)) = k
  <2>1. \A i \in 1..k : prioritize[i] \in known
    BY <1>2, <1>4
  <2>2. 1 \in Int /\ k \in Int /\ (IF 1 <= k THEN k - 1 + 1 ELSE 0) = k
    BY <1>2, <1>4
  <2> QED
    BY <2>1, <2>2, SubSeqProperties
<1>6. map.shown = SubSeq(prioritize, 1, k) /\ map.more = Hosted - k
  BY <1>1 DEF outcome, k
<1> QED
  BY <1>4, <1>5, <1>6 DEF MapIsTopOfRanking, Hosted, Critical, a

\* What the map shows is the top of the ranking: all the critical hosts, and
\* others while there is room for top_n in all; and it tells how many are left
\* out (render_focus_map): for any hosts, evidence, weights and top_n.
THEOREM MapShowsTop == Spec => []MapIsTopOfRanking
<1>1. Init => MapInv
  BY FocusTypesInit DEF Init, MapInv, MapCurrent
<1> QED
  BY <1>1, MapInvNext, CurrentIsTop, PTL DEF Spec
=============================================================================
