--------------------------- MODULE CountingTheorems ---------------------------
(***************************************************************************)
(* Facts about finite sets that the proofs of this project count with.     *)
(***************************************************************************)
EXTENDS FiniteSetsExt, FiniteSetTheorems, FunctionTheorems, TLAPS

\* Induction over the subsets of a finite set, for a set T of subsets rather
\* than for a predicate: a family of subsets that has the empty one, and with
\* each subset every larger one by an element, has all.
LEMMA SubsetInduction ==
  ASSUME NEW S, IsFiniteSet(S), NEW T \in SUBSET (SUBSET S), {} \in T,
         \A A \in T : \A x \in S \ A : A \cup {x} \in T
  PROVE  S \in T
<1> DEFINE B == (SUBSET S) \ T
           R == StrictSubsetOrdering(S)
<1> SUFFICES ASSUME S \notin T PROVE FALSE
  OBVIOUS
<1>1. IsWellFoundedOn(R, SUBSET S)
  BY FS_StrictSubsetOrderingWellFounded, FS_FiniteSubsetsOfFinite, Zenon
<1>2. B \subseteq SUBSET S /\ B # {}
  OBVIOUS
<1>3. \E A \in B : \A C \in B : <<C, A>> \notin R
  <2> HIDE DEF B, R
  <2> QED
    BY <1>1, <1>2, WFMin
<1>4. PICK A \in B : \A C \in B : <<C, A>> \notin R
  BY <1>3
<1>5. PICK x : x \in A
  BY <1>4
<1>6. A \ {x} \in SUBSET S /\ <<A \ {x}, A>> \in R
  BY <1>4, <1>5 DEF StrictSubsetOrdering
<1>7. A \ {x} \in T
  BY <1>4, <1>6
<1>8. (A \ {x}) \cup {x} = A /\ x \in S \ (A \ {x})
  BY <1>4, <1>5
<1> QED
  BY <1>4, <1>7, <1>8

\* Induction over the naturals, for a set.
LEMMA SetInduction ==
  ASSUME NEW P \in SUBSET Nat, 0 \in P, \A n \in P : n + 1 \in P
  PROVE  \A n \in Nat : n \in P
<1> SUFFICES ASSUME NEW n \in Nat PROVE n \in P
  OBVIOUS
<1> DEFINE S == 1..n
           T == {A \in SUBSET S : Cardinality(A) \in P}
<1>1. IsFiniteSet(S) /\ Cardinality(S) = n
  BY FS_Interval
<1>2. {} \in T
  BY FS_EmptySet
<1>3. ASSUME NEW A \in T, NEW x \in S \ A PROVE A \cup {x} \in T
  <2>1. IsFiniteSet(A)
    BY <1>1, FS_Subset
  <2>2. Cardinality(A \cup {x}) = Cardinality(A) + 1
    BY <2>1, FS_AddElement
  <2> QED
    BY <2>2
<1>4. S \in T
  <2>1. T \in SUBSET (SUBSET S)
    OBVIOUS
  <2> HIDE DEF S, T
  <2> QED
    BY <1>1, <1>2, <1>3, <2>1, SubsetInduction
<1> QED
  BY <1>1, <1>4

-----------------------------------------------------------------------------
\* Sums of scores.

\* The sum as a fold, in an order that the fold chooses.
ScoreSum(rows) == MapThenSumSet(LAMBDA r : r.score, rows)

\* One step of the sum, with the sums g of smaller sets.
AddOne(g, s) ==
  IF s = {} THEN 0
  ELSE LET x == CHOOSE y \in s : TRUE IN x.score + g[s \ {x}]

\* g adds up the sets in S as the fold does.
AddsUp(g, S) == g = [s \in S |-> AddOne(g, s)]

\* Such a function exists for the subsets of a finite set: what it is on the
\* subsets of n elements defines it on those of n + 1.
LEMMA SumIsAFunction ==
  ASSUME NEW S, IsFiniteSet(S)
  PROVE  \E g : AddsUp(g, SUBSET S)
<1> DEFINE Small(n) == {s \in SUBSET S : Cardinality(s) <= n}
           P == {n \in Nat : \E g : AddsUp(g, Small(n))}
<1>0. \A s \in SUBSET S : IsFiniteSet(s) /\ Cardinality(s) \in Nat
  BY FS_Subset, FS_CardinalityType
<1>1. 0 \in P
  <2>1. \A s \in Small(0) : s = {}
    BY <1>0, FS_EmptySet
  <2> DEFINE g == [s \in Small(0) |-> 0]
  <2>2. AddsUp(g, Small(0))
    BY <2>1 DEF AddsUp, AddOne
  <2> QED
    BY <2>2
<1>2. ASSUME NEW n \in P PROVE n + 1 \in P
  <2>1. PICK g : AddsUp(g, Small(n))
    OBVIOUS
  <2> DEFINE h == [s \in Small(n + 1) |-> AddOne(g, s)]
  <2>2. \A s \in Small(n) : s \in Small(n + 1)
    BY <1>0
  <2>3. \A s \in Small(n) : h[s] = g[s]
    BY <2>1, <2>2 DEF AddsUp
  <2>4. ASSUME NEW s \in Small(n + 1), s # {}
        PROVE  s \ {CHOOSE y \in s : TRUE} \in Small(n)
    <3>1. (CHOOSE y \in s : TRUE) \in s
      BY <2>4
    <3>2. Cardinality(s \ {CHOOSE y \in s : TRUE}) = Cardinality(s) - 1
      BY <1>0, <3>1, FS_RemoveElement
    <3> QED
      BY <1>0, <3>2
  <2>5. ASSUME NEW s \in Small(n + 1) PROVE AddOne(g, s) = AddOne(h, s)
    <3> HIDE DEF h, Small
    <3>1. CASE s = {}
      BY <3>1 DEF AddOne
    <3>2. CASE s # {}
      <4>1. h[s \ {CHOOSE y \in s : TRUE}] = g[s \ {CHOOSE y \in s : TRUE}]
        BY <2>3, <2>4, <3>2
      <4> QED
        BY <3>2, <4>1 DEF AddOne
    <3> QED
      BY <3>1, <3>2
  <2>6. h = [s \in Small(n + 1) |-> AddOne(h, s)]
    <3>1. h = [s \in Small(n + 1) |-> AddOne(g, s)]
      OBVIOUS
    <3> HIDE DEF h, Small
    <3> QED
      BY <2>5, <3>1
  <2>7. \E k : AddsUp(k, Small(n + 1))
    <3> HIDE DEF h, Small
    <3> QED
      BY <2>6 DEF AddsUp
  <2> HIDE DEF Small, h
  <2> QED
    BY <2>7
<1>3. Cardinality(S) \in P
  <2>1. P \in SUBSET Nat
    OBVIOUS
  <2> HIDE DEF P
  <2> QED
    BY <1>0, <1>1, <1>2, <2>1, SetInduction
<1>4. Small(Cardinality(S)) = SUBSET S
  BY <1>0, FS_Subset
<1> QED
  BY <1>3, <1>4

\* The fold satisfies the equation that it is defined by.
LEMMA SumIsTheFold ==
  ASSUME NEW S, IsFiniteSet(S)
  PROVE  \E g : AddsUp(g, SUBSET S) /\ ScoreSum(S) = g[S]
<1> DEFINE g == CHOOSE g : AddsUp(g, SUBSET S)
<1>1. AddsUp(g, SUBSET S)
  BY SumIsAFunction
<1>2. ScoreSum(S) = g[S]
  BY DEF ScoreSum, MapThenSumSet, MapThenFoldSet, AddsUp, AddOne
<1> QED
  BY <1>1, <1>2

-----------------------------------------------------------------------------
\* The balance of a set of ratings.

Ups(rows) == {r \in rows : r.score > 0}
Downs(rows) == {r \in rows : r.score < 0}

\* One more rating counts on one side.
LEMMA OneMoreCounts ==
  ASSUME NEW A, IsFiniteSet(A), NEW x, x \notin A, x.score \in {1, -1}
  PROVE  /\ Cardinality(Ups(A \cup {x})) =
              Cardinality(Ups(A)) + (IF x.score = 1 THEN 1 ELSE 0)
         /\ Cardinality(Downs(A \cup {x})) =
              Cardinality(Downs(A)) + (IF x.score = -1 THEN 1 ELSE 0)
         /\ Cardinality(Ups(A)) \in Nat /\ Cardinality(Downs(A)) \in Nat
<1>1. /\ IsFiniteSet(Ups(A)) /\ IsFiniteSet(Downs(A))
      /\ Cardinality(Ups(A)) \in Nat /\ Cardinality(Downs(A)) \in Nat
  BY FS_Subset, FS_CardinalityType DEF Ups, Downs
<1>2. x \notin Ups(A) /\ x \notin Downs(A)
  BY DEF Ups, Downs
<1>3. CASE x.score = 1
  <2>1. Ups(A \cup {x}) = Ups(A) \cup {x} /\ Downs(A \cup {x}) = Downs(A)
    BY <1>3 DEF Ups, Downs
  <2>2. Cardinality(Ups(A) \cup {x}) = Cardinality(Ups(A)) + 1
    BY <1>1, <1>2, FS_AddElement
  <2> QED
    BY <1>1, <1>3, <2>1, <2>2
<1>4. CASE x.score = -1
  <2>1. Ups(A \cup {x}) = Ups(A) /\ Downs(A \cup {x}) = Downs(A) \cup {x}
    BY <1>4 DEF Ups, Downs
  <2>2. Cardinality(Downs(A) \cup {x}) = Cardinality(Downs(A)) + 1
    BY <1>1, <1>2, FS_AddElement
  <2> QED
    BY <1>1, <1>4, <2>1, <2>2
<1>5. x.score = 1 \/ x.score = -1
  OBVIOUS
<1> QED
  BY <1>3, <1>4, <1>5

\* And it moves the balance by its score.
LEMMA OneMore ==
  ASSUME NEW A, IsFiniteSet(A), NEW x, x \notin A, x.score \in {1, -1}
  PROVE  Cardinality(Ups(A \cup {x})) - Cardinality(Downs(A \cup {x})) =
           x.score + (Cardinality(Ups(A)) - Cardinality(Downs(A)))
<1>1. ASSUME NEW u \in Nat, NEW d \in Nat
      PROVE  /\ (u + 1) - (d + 0) = 1 + (u - d)
             /\ (u + 0) - (d + 1) = -1 + (u - d)
  OBVIOUS
<1>2. CASE x.score = 1
  BY <1>1, <1>2, OneMoreCounts
<1>3. CASE x.score = -1
  BY <1>1, <1>3, OneMoreCounts
<1>4. x.score = 1 \/ x.score = -1
  OBVIOUS
<1> QED
  BY <1>2, <1>3, <1>4

\* The sum of scores of 1 and -1 is the difference of their numbers, in
\* whatever order the fold takes the rows.
LEMMA ScoresAddUp ==
  ASSUME NEW S, IsFiniteSet(S), \A r \in S : r.score \in {1, -1}
  PROVE  ScoreSum(S) = Cardinality(Ups(S)) - Cardinality(Downs(S))
<1>1. PICK g : AddsUp(g, SUBSET S) /\ ScoreSum(S) = g[S]
  BY SumIsTheFold
<1> DEFINE Right(s) == g[s] = Cardinality(Ups(s)) - Cardinality(Downs(s))
           P == {n \in Nat : \A s \in SUBSET S : Cardinality(s) = n => Right(s)}
<1>0. \A s \in SUBSET S : IsFiniteSet(s) /\ Cardinality(s) \in Nat
  BY FS_Subset, FS_CardinalityType
<1>2. \A s \in SUBSET S : g[s] = AddOne(g, s)
  BY <1>1 DEF AddsUp
<1>3. 0 \in P
  <2> SUFFICES ASSUME NEW s \in SUBSET S, Cardinality(s) = 0 PROVE Right(s)
    OBVIOUS
  <2>1. s = {}
    BY <1>0, FS_EmptySet
  <2>2. g[s] = 0
    BY <1>2, <2>1 DEF AddOne
  <2>3. Ups(s) = {} /\ Downs(s) = {}
    BY <2>1 DEF Ups, Downs
  <2> QED
    BY <2>2, <2>3, FS_EmptySet
<1>4. ASSUME NEW n \in P PROVE n + 1 \in P
  <2> SUFFICES ASSUME NEW s \in SUBSET S, Cardinality(s) = n + 1 PROVE Right(s)
    OBVIOUS
  <2>1. s # {}
    BY FS_EmptySet
  <2> DEFINE x == CHOOSE y \in s : TRUE
             t == s \ {x}
  <2>2. x \in s
    BY <2>1
  <2>3. /\ t \in SUBSET S /\ x \notin t /\ s = t \cup {x}
        /\ Cardinality(t) = n
    <3> HIDE DEF x
    <3>1. IsFiniteSet(s) /\ Cardinality(s) \in Nat
      BY <1>0
    <3>2. Cardinality(t) = Cardinality(s) - 1
      BY <2>2, <3>1, FS_RemoveElement
    <3> QED
      BY <2>2, <3>2
  <2>4. g[s] = x.score + g[t]
    BY <1>2, <2>1 DEF AddOne
  <2>5. Right(t)
    BY <2>3
  <2>6. x.score \in {1, -1}
    BY <2>2
  <2> HIDE DEF x, t
  <2> QED
    BY <1>0, <2>3, <2>4, <2>5, <2>6, OneMore
<1>5. Cardinality(S) \in P
  <2>1. P \in SUBSET Nat
    OBVIOUS
  <2> HIDE DEF P
  <2> QED
    BY <1>0, <1>3, <1>4, <2>1, SetInduction
<1>6. Right(S)
  BY <1>5
<1> QED
  BY <1>1, <1>6

\* Numbered deployments of a set of rows.
Pairs(rows) == {<<r.owner, r.dseq>> : r \in rows}

\* Finitely many rows are of finitely many deployments.
LEMMA PairsAreFinite ==
  ASSUME NEW rows, IsFiniteSet(rows)
  PROVE  IsFiniteSet(Pairs(rows)) /\ Cardinality(Pairs(rows)) \in Nat
<1> DEFINE f == [r \in rows |-> <<r.owner, r.dseq>>]
<1>1. f \in [rows -> Pairs(rows)] /\ \A p \in Pairs(rows) : \E r \in rows : f[r] = p
  BY DEF Pairs
<1>2. f \in Surjection(rows, Pairs(rows))
  <2> HIDE DEF f
  <2> QED
    BY <1>1, Fun_IsSurj
<1>3. IsFiniteSet(Pairs(rows))
  <2> HIDE DEF f
  <2> QED
    BY <1>2, FS_Surjection
<1> QED
  BY <1>3, FS_CardinalityType

\* As many values as arguments, when no two arguments have the same value.
LEMMA ImageCounts ==
  ASSUME NEW S, IsFiniteSet(S), NEW T, NEW f \in [S -> T],
         \A x, y \in S : f[x] = f[y] => x = y,
         \A t \in T : \E x \in S : f[x] = t
  PROVE  Cardinality(T) = Cardinality(S)
<1>1. f \in Injection(S, T) /\ f \in Surjection(S, T)
  BY Fun_IsInj, Fun_IsSurj
<1>2. f \in Bijection(S, T)
  BY <1>1 DEF Bijection
<1>3. ExistsBijection(S, T)
  BY <1>2 DEF ExistsBijection
<1> QED
  BY <1>3, FS_Bijection

-----------------------------------------------------------------------------
\* Places in an order: how many elements come before one, and the elements on
\* a page, whose places lie from lo to below hi.

Place(S, rank, x) == Cardinality({y \in S : rank[y] < rank[x]})

PageOf(S, rank, lo, hi) ==
  {x \in S : lo <= Place(S, rank, x) /\ Place(S, rank, x) < hi}

\* No two elements have the same place, and there is one at each.
LEMMA PlacesAreTaken ==
  ASSUME NEW S, IsFiniteSet(S),
         NEW rank, \A x \in S : rank[x] \in Int,
         \A x, y \in S : rank[x] = rank[y] => x = y
  PROVE  /\ \A x \in S : Place(S, rank, x) \in 0..(Cardinality(S) - 1)
         /\ \A x, y \in S : Place(S, rank, x) = Place(S, rank, y) => x = y
         /\ \A k \in 0..(Cardinality(S) - 1) : \E x \in S : Place(S, rank, x) = k
<1> DEFINE Before(x) == {y \in S : rank[y] < rank[x]}
           N == 0..(Cardinality(S) - 1)
           f == [x \in S |-> Place(S, rank, x)]
<1>1. Cardinality(S) \in Nat
  BY FS_CardinalityType
<1>2. ASSUME NEW x \in S
      PROVE  /\ IsFiniteSet(Before(x)) /\ Cardinality(Before(x)) \in Nat
             /\ Cardinality(Before(x)) < Cardinality(S)
  <2>1. Before(x) \in SUBSET S /\ Before(x) # S
    OBVIOUS
  <2>2. /\ IsFiniteSet(Before(x)) /\ Cardinality(Before(x)) <= Cardinality(S)
        /\ Cardinality(S) # Cardinality(Before(x))
    <3> HIDE DEF Before
    <3> QED
      BY <2>1, FS_Subset
  <2>3. Cardinality(Before(x)) \in Nat
    <3> HIDE DEF Before
    <3> QED
      BY <2>2, FS_CardinalityType
  <2> QED
    BY <1>1, <2>2, <2>3
<1>3. ASSUME NEW x \in S, NEW y \in S, rank[x] < rank[y]
      PROVE  Cardinality(Before(x)) < Cardinality(Before(y))
  <2>1. Before(x) \in SUBSET Before(y)
    BY <1>3
  <2>2. x \in Before(y) /\ x \notin Before(x)
    BY <1>3
  <2>3. /\ Cardinality(Before(x)) <= Cardinality(Before(y))
        /\ Cardinality(Before(y)) # Cardinality(Before(x))
    <3> HIDE DEF Before
    <3>1. IsFiniteSet(Before(y))
      BY <1>2
    <3> QED
      BY <2>1, <2>2, <3>1, FS_Subset
  <2>4. Cardinality(Before(x)) \in Nat /\ Cardinality(Before(y)) \in Nat
    BY <1>2
  <2> QED
    BY <2>3, <2>4
<1>4. \A x, y \in S : Place(S, rank, x) = Place(S, rank, y) => x = y
  <2> SUFFICES ASSUME NEW x \in S, NEW y \in S,
                      Cardinality(Before(x)) = Cardinality(Before(y))
               PROVE  x = y
    BY DEF Place
  <2>1. rank[x] \in Int /\ rank[y] \in Int
    OBVIOUS
  <2>2. Cardinality(Before(x)) \in Nat
    BY <1>2
  <2>3. ~(rank[x] < rank[y]) /\ ~(rank[y] < rank[x])
    <3> HIDE DEF Before
    <3> QED
      BY <1>3, <2>2
  <2> QED
    BY <2>1, <2>3
<1>5. \A x \in S : Place(S, rank, x) \in N
  <2> SUFFICES ASSUME NEW x \in S PROVE Cardinality(Before(x)) \in N
    BY DEF Place
  <2> HIDE DEF Before
  <2> QED
    BY <1>1, <1>2
<1>6. f \in Surjection(S, N)
  <2>1. f \in Injection(S, N)
    BY <1>4, <1>5, Fun_IsInj
  <2>2. IsFiniteSet(N) /\ Cardinality(N) = Cardinality(S)
    BY <1>1, FS_Interval
  <2> HIDE DEF f, N
  <2> QED
    BY <2>1, <2>2, FS_Injection
<1>7. \A k \in N : \E x \in S : f[x] = k
  <2> HIDE DEF f, N
  <2> QED
    BY <1>6 DEF Surjection
<1> QED
  BY <1>4, <1>5, <1>7

\* A page holds no more than it has places.
LEMMA PageIsBounded ==
  ASSUME NEW S, IsFiniteSet(S),
         NEW rank, \A x \in S : rank[x] \in Int,
         \A x, y \in S : rank[x] = rank[y] => x = y,
         NEW lo \in Nat, NEW hi \in Nat, lo <= hi
  PROVE  /\ IsFiniteSet(PageOf(S, rank, lo, hi))
         /\ Cardinality(PageOf(S, rank, lo, hi)) \in Nat
         /\ Cardinality(PageOf(S, rank, lo, hi)) <= hi - lo
<1> DEFINE P == PageOf(S, rank, lo, hi)
           N == lo..(hi - 1)
           f == [x \in P |-> Place(S, rank, x)]
<1>1. \A x \in S : Place(S, rank, x) \in Nat
  BY PlacesAreTaken, FS_CardinalityType
<1>2. f \in [P -> N]
  BY <1>1 DEF PageOf
<1>3. \A x, y \in P : f[x] = f[y] => x = y
  BY PlacesAreTaken DEF PageOf
<1>4. IsFiniteSet(N) /\ Cardinality(N) = hi - lo
  BY FS_Interval
<1>5. f \in Injection(P, N)
  <2> HIDE DEF f, P, N
  <2> QED
    BY <1>2, <1>3, Fun_IsInj
<1>6. IsFiniteSet(P) /\ Cardinality(P) <= Cardinality(N)
  <2> HIDE DEF f, P, N
  <2> QED
    BY <1>4, <1>5, FS_Injection
<1>7. Cardinality(P) \in Nat
  <2> HIDE DEF P
  <2> QED
    BY <1>6, FS_CardinalityType
<1> QED
  BY <1>4, <1>6, <1>7

\* A page that is not full is the last one.
LEMMA ShortPageIsLast ==
  ASSUME NEW S, IsFiniteSet(S),
         NEW rank, \A x \in S : rank[x] \in Int,
         \A x, y \in S : rank[x] = rank[y] => x = y,
         NEW lo \in Nat, NEW hi \in Nat, lo <= hi,
         Cardinality(PageOf(S, rank, lo, hi)) < hi - lo
  PROVE  \A x \in S : Place(S, rank, x) < hi
<1> DEFINE P == PageOf(S, rank, lo, hi)
           N == lo..(hi - 1)
           f == [x \in P |-> Place(S, rank, x)]
<1>1. Cardinality(S) \in Nat /\ \A x \in S : Place(S, rank, x) \in Nat
  BY PlacesAreTaken, FS_CardinalityType
<1> SUFFICES ASSUME NEW z \in S, Place(S, rank, z) >= hi PROVE FALSE
  BY <1>1
<1>2. \A k \in N : \E x \in S : Place(S, rank, x) = k
  <2>1. Place(S, rank, z) \in 0..(Cardinality(S) - 1)
    BY PlacesAreTaken
  <2>2. \A k \in N : k \in 0..(Cardinality(S) - 1)
    BY <1>1, <2>1
  <2> QED
    BY <2>2, PlacesAreTaken
<1>3. \A k \in N : \E x \in P : f[x] = k
  BY <1>2 DEF PageOf
<1>4. f \in [P -> N]
  BY <1>1 DEF PageOf
<1>5. IsFiniteSet(P) /\ Cardinality(P) \in Nat
  BY PageIsBounded
<1>6. Cardinality(N) = hi - lo
  BY FS_Interval
<1>7. f \in Surjection(P, N)
  <2> HIDE DEF f, P, N
  <2> QED
    BY <1>3, <1>4, Fun_IsSurj
<1>8. Cardinality(N) <= Cardinality(P)
  <2> HIDE DEF f, P, N
  <2> QED
    BY <1>5, <1>7, FS_Surjection
<1> QED
  BY <1>5, <1>6, <1>8
=============================================================================
