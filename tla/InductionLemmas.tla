--------------------------- MODULE InductionLemmas ---------------------------
(***************************************************************************)
(* Induction over the natural numbers, and functions defined by recursion  *)
(* over a finite interval, with sets and functions as parameters; and the  *)
(* ranks of the elements of a finite set.  The other proof modules use     *)
(* them to reason about recursive functions and about counting.            *)
(***************************************************************************)
EXTENDS Integers, WellFoundedInduction, FiniteSetTheorems, TLAPS

(* A non-empty set of naturals has a least element.                        *)
LEMMA LeastElement ==
  ASSUME NEW T, T \subseteq Nat, T # {}
  PROVE  \E x \in T : \A y \in T : x <= y
<1>1. PICK x \in T : \A y \in T : ~(<<y, x>> \in OpToRel(<, Nat))
  BY NatLessThanWellFounded, WFMin, Zenon
<1>2. \A a, b \in Nat : a < b => <<a, b>> \in OpToRel(<, Nat)
  BY Zenon DEF OpToRel
<1>3. \A y \in T : ~(y < x)
  BY <1>1, <1>2, Zenon
<1>4. x \in Nat /\ \A y \in T : y \in Nat
  OBVIOUS
<1>5. \A y \in T : x <= y
  BY <1>3, <1>4
<1> QED BY <1>5

(* A set that holds 0, and i whenever it holds i - 1, holds 0 .. n.        *)
LEMMA IntervalInduction ==
  ASSUME NEW n \in Nat, NEW P, 0 \in P,
         \A i \in 1 .. n : i - 1 \in P => i \in P
  PROVE  0 .. n \subseteq P
<1> DEFINE T == {i \in 0 .. n : i \notin P}
<1>1. SUFFICES ASSUME T # {} PROVE FALSE
  OBVIOUS
<1>2. T \subseteq Nat
  OBVIOUS
<1> HIDE DEF T
<1>3. PICK x \in T : \A y \in T : x <= y
  BY <1>1, <1>2, LeastElement, Zenon
<1>4. x \in 1 .. n /\ x - 1 \in 0 .. n /\ x - 1 \notin T
  BY <1>3 DEF T
<1> QED BY <1>4 DEF T

(* Recursion over 1 .. n: step maps a position and a value of S to S, and  *)
(* f takes its steps from base.                                            *)
StepsWithin(step, n, S) == \A i \in 1 .. n : \A v \in S : step[<<i, v>>] \in S

Recursion(f, n, S, base, step) ==
  /\ f \in [0 .. n -> S]
  /\ f[0] = base
  /\ \A i \in 1 .. n : f[i] = step[<<i, f[i - 1]>>]

(* Such a function exists.                                                 *)
LEMMA IntervalRecursion ==
  ASSUME NEW n \in Nat, NEW S, NEW base \in S, NEW step, StepsWithin(step, n, S)
  PROVE  \E f : Recursion(f, n, S, base, step)
<1> DEFINE Good(k, f) ==
      f[0] = base /\ \A i \in 1 .. k : f[i] = step[<<i, f[i - 1]>>]
<1> DEFINE P == {k \in 0 .. n : \E f \in [0 .. n -> S] : Good(k, f)}
<1>1. 0 \in P
  <2>1. [i \in 0 .. n |-> base] \in [0 .. n -> S] OBVIOUS
  <2>2. Good(0, [i \in 0 .. n |-> base]) OBVIOUS
  <2>3. 0 \in 0 .. n OBVIOUS
  <2> HIDE DEF Good
  <2> QED BY <2>1, <2>2, <2>3, Zenon
<1>2. ASSUME NEW k \in 1 .. n, k - 1 \in P PROVE k \in P
  <2>1. PICK f \in [0 .. n -> S] : Good(k - 1, f)
    BY <1>2
  <2> DEFINE g == [f EXCEPT ![k] = step[<<k, f[k - 1]>>]]
  <2>2. f[k - 1] \in S BY <2>1
  <2>3. g \in [0 .. n -> S] BY <2>2 DEF StepsWithin
  <2>4. Good(k, g) BY <2>1, <2>2
  <2>5. k \in 0 .. n OBVIOUS
  <2> HIDE DEF Good, g
  <2> QED BY <2>3, <2>4, <2>5, Zenon
<1> HIDE DEF P
<1>3. 0 .. n \subseteq P
  BY <1>1, <1>2, IntervalInduction
<1>4. n \in P
  BY <1>3
<1> QED BY <1>4 DEF P, Recursion

-----------------------------------------------------------------------------
(* The place of an element in a strict total order, given as a set of      *)
(* pairs: how many elements are before it.                                 *)

StrictOrder(S, R) ==
  /\ \A x \in S : <<x, x>> \notin R
  /\ \A x, y, z \in S : <<x, y>> \in R /\ <<y, z>> \in R => <<x, z>> \in R
  /\ \A x, y \in S : x = y \/ <<x, y>> \in R \/ <<y, x>> \in R

Below(S, R, x) == {y \in S : <<y, x>> \in R}

Place(S, R, x) == Cardinality(Below(S, R, x))

\* A place is a number smaller than the size of the set.
LEMMA PlaceBounds ==
  ASSUME NEW S, IsFiniteSet(S), NEW R, StrictOrder(S, R), NEW x \in S
  PROVE  Place(S, R, x) \in 0 .. (Cardinality(S) - 1) /\ IsFiniteSet(Below(S, R, x))
<1>1. Below(S, R, x) \subseteq S /\ x \notin Below(S, R, x)
  BY DEF Below, StrictOrder
<1>2. IsFiniteSet(Below(S, R, x)) /\ Cardinality(Below(S, R, x)) <= Cardinality(S)
  BY <1>1, FS_Subset
<1>3. Cardinality(Below(S, R, x)) # Cardinality(S)
  BY <1>1, FS_Subset
<1>4. Cardinality(Below(S, R, x)) \in Nat /\ Cardinality(S) \in Nat
  BY <1>2, FS_CardinalityType
<1> QED BY <1>2, <1>3, <1>4 DEF Place

\* The larger of two elements has the larger place.
LEMMA PlaceGrows ==
  ASSUME NEW S, IsFiniteSet(S), NEW R, StrictOrder(S, R), NEW x \in S, NEW y \in S,
         <<x, y>> \in R
  PROVE  Place(S, R, x) < Place(S, R, y)
<1>2. Below(S, R, x) \subseteq Below(S, R, y)
  BY DEF Below, StrictOrder
<1>3. x \in Below(S, R, y) /\ x \notin Below(S, R, x)
  BY DEF Below, StrictOrder
<1>4. IsFiniteSet(Below(S, R, x)) /\ IsFiniteSet(Below(S, R, y))
  BY PlaceBounds
<1>5. Cardinality(Below(S, R, x)) <= Cardinality(Below(S, R, y))
  BY <1>2, <1>4, FS_Subset
<1>6. Cardinality(Below(S, R, x)) # Cardinality(Below(S, R, y))
  BY <1>2, <1>3, <1>4, FS_Subset
<1>7. Cardinality(Below(S, R, x)) \in Nat /\ Cardinality(Below(S, R, y)) \in Nat
  BY <1>4, FS_CardinalityType
<1> QED BY <1>5, <1>6, <1>7 DEF Place

\* No two elements have one place.
LEMMA PlaceInjective ==
  ASSUME NEW S, IsFiniteSet(S), NEW R, StrictOrder(S, R), NEW x \in S, NEW y \in S,
         Place(S, R, x) = Place(S, R, y)
  PROVE  x = y
<1>1. Place(S, R, x) \in Int /\ Place(S, R, y) \in Int
  BY PlaceBounds
<1>2. <<x, y>> \notin R /\ <<y, x>> \notin R
  BY <1>1, PlaceGrows
<1> QED BY <1>2 DEF StrictOrder

(* Every place below the number of elements is the place of an element.    *)
LEMMA PlaceOnto ==
  ASSUME NEW S, IsFiniteSet(S), NEW R, StrictOrder(S, R)
  PROVE  {Place(S, R, x) : x \in S} = 0 .. (Cardinality(S) - 1)
<1> DEFINE n == Cardinality(S)
           T == 0 .. (n - 1)
           f == [x \in S |-> Place(S, R, x)]
<1>1. n \in Nat
  BY FS_CardinalityType
<1>2. IsFiniteSet(T) /\ Cardinality(T) = n
  <2> HIDE DEF n
  <2>1. n - 1 \in Int /\ 0 \in Int BY <1>1
  <2>2. IsFiniteSet(T) /\ Cardinality(T) = IF 0 > n - 1 THEN 0 ELSE (n - 1) - 0 + 1
    BY <2>1, FS_Interval
  <2> QED BY <1>1, <2>2
<1>3. \A x \in S : Place(S, R, x) \in T
  BY PlaceBounds
<1>4. \A x, y \in S : Place(S, R, x) = Place(S, R, y) => x = y
  BY PlaceInjective
<1>5. f \in Injection(S, T)
  BY <1>3, <1>4 DEF Injection, IsInjective
<1> HIDE DEF n, T
<1>6. f \in Surjection(S, T)
  BY <1>2, <1>5, FS_Injection DEF n
<1>7. \A t \in T : \E x \in S : Place(S, R, x) = t
  BY <1>6 DEF Surjection
<1> QED BY <1>3, <1>7 DEF T, n

(* At most n elements have a place below n.                                *)
LEMMA PlacedBelow ==
  ASSUME NEW S, IsFiniteSet(S), NEW R, StrictOrder(S, R), NEW n \in Nat
  PROVE  Cardinality({x \in S : Place(S, R, x) < n}) <= n
<1> DEFINE H == {x \in S : Place(S, R, x) < n}
           T == 0 .. (n - 1)
           f == [x \in H |-> Place(S, R, x)]
<1>1. IsFiniteSet(T) /\ Cardinality(T) = n
  <2>1. n - 1 \in Int /\ 0 \in Int OBVIOUS
  <2>2. IsFiniteSet(T) /\ Cardinality(T) = IF 0 > n - 1 THEN 0 ELSE (n - 1) - 0 + 1
    BY <2>1, FS_Interval
  <2> QED BY <2>2
<1>2. \A x \in H : Place(S, R, x) \in T
  <2>1. \A x \in S : Place(S, R, x) \in 0 .. (Cardinality(S) - 1)
    BY PlaceBounds
  <2> QED BY <2>1
<1>3. \A x, y \in H : Place(S, R, x) = Place(S, R, y) => x = y
  BY PlaceInjective
<1>4. f \in Injection(H, T)
  BY <1>2, <1>3 DEF Injection, IsInjective
<1> HIDE DEF H, T
<1>5. Cardinality(H) <= Cardinality(T)
  BY <1>1, <1>4, FS_Injection
<1> QED BY <1>1, <1>5 DEF H

-----------------------------------------------------------------------------
(* The rank of an element: how many elements have a lower value.           *)

Lower(S, v, x) == {y \in S : v[y] < v[x]}

Rank(S, v, x) == Cardinality(Lower(S, v, x))

OneToOne(S, v) == v \in [S -> Int] /\ \A x, y \in S : v[x] = v[y] => x = y

ByValue(S, v) == {p \in S \X S : v[p[1]] < v[p[2]]}

\* A rank is a place in the order of the values.
LEMMA RankIsPlace ==
  ASSUME NEW S, NEW v, OneToOne(S, v)
  PROVE  /\ StrictOrder(S, ByValue(S, v))
         /\ \A x \in S : Rank(S, v, x) = Place(S, ByValue(S, v), x)
<1> DEFINE R == ByValue(S, v)
<1>1. \A x, y \in S : <<x, y>> \in R <=> v[x] < v[y]
  BY DEF ByValue
<1>2. \A x \in S : v[x] \in Int
  BY DEF OneToOne
<1> HIDE DEF R
<1>3. StrictOrder(S, R)
  BY <1>1, <1>2 DEF StrictOrder, OneToOne
<1>4. \A x \in S : Below(S, R, x) = Lower(S, v, x)
  BY <1>1 DEF Below, Lower
<1> QED BY <1>3, <1>4 DEF Rank, Place, R

\* A rank is a number smaller than the size of the set.
LEMMA RankBounds ==
  ASSUME NEW S, IsFiniteSet(S), NEW v, OneToOne(S, v), NEW x \in S
  PROVE  Rank(S, v, x) \in 0 .. (Cardinality(S) - 1)
  BY RankIsPlace, PlaceBounds

\* No two elements have one rank.
LEMMA RankInjective ==
  ASSUME NEW S, IsFiniteSet(S), NEW v, OneToOne(S, v), NEW x \in S, NEW y \in S,
         Rank(S, v, x) = Rank(S, v, y)
  PROVE  x = y
  BY RankIsPlace, PlaceInjective

\* Every number smaller than the size of the set is a rank.
LEMMA RankOnto ==
  ASSUME NEW S, IsFiniteSet(S), NEW v, OneToOne(S, v)
  PROVE  {Rank(S, v, x) : x \in S} = 0 .. (Cardinality(S) - 1)
<1> DEFINE R == ByValue(S, v)
<1>1. StrictOrder(S, R) /\ \A x \in S : Rank(S, v, x) = Place(S, R, x)
  BY RankIsPlace
<1> HIDE DEF R
<1>2. {Rank(S, v, x) : x \in S} = {Place(S, R, x) : x \in S}
  BY <1>1
<1>3. {Place(S, R, x) : x \in S} = 0 .. (Cardinality(S) - 1)
  BY <1>1, PlaceOnto, Zenon
<1> QED BY <1>2, <1>3, Zenon

\* At most n elements have a rank below n.
LEMMA RankedBelow ==
  ASSUME NEW S, IsFiniteSet(S), NEW v, OneToOne(S, v), NEW n \in Nat
  PROVE  Cardinality({x \in S : Rank(S, v, x) < n}) <= n
<1> DEFINE R == ByValue(S, v)
<1>1. StrictOrder(S, R) /\ \A x \in S : Rank(S, v, x) = Place(S, R, x)
  BY RankIsPlace
<1> HIDE DEF R
<1>2. {x \in S : Rank(S, v, x) < n} = {x \in S : Place(S, R, x) < n}
  BY <1>1
<1> QED BY <1>1, <1>2, PlacedBelow
=============================================================================
