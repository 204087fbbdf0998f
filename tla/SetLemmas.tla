----------------------------- MODULE SetLemmas -----------------------------
(***************************************************************************)
(* Facts about finite sets, sets of numbers and sums that the proofs of    *)
(* several components need.                                                *)
(***************************************************************************)
EXTENDS Integers, FiniteSetsExt, FiniteSetTheorems, WellFoundedInduction, TLAPS

\* A non-empty set of naturals has a least element.
LEMMA LeastNatural ==
  ASSUME NEW S \in SUBSET Nat, S # {}
  PROVE  \E x \in S : \A y \in S : x <= y
<1> DEFINE R == OpToRel(<, Nat)
<1>1. IsWellFoundedOn(R, Nat) BY NatLessThanWellFounded
<1>2. \A x, y \in S : y < x => <<y, x>> \in R BY DEF OpToRel
<1> HIDE DEF R
<1>3. PICK x \in S : \A y \in S : ~ (<<y, x>> \in R) BY <1>1, WFMin
<1>4. \A y \in S : ~ (y < x) BY <1>2, <1>3
<1> QED BY <1>4

\* The community modules' Min is that element.
LEMMA MinNatural ==
  ASSUME NEW S \in SUBSET Nat, S # {}
  PROVE  Min(S) \in S /\ \A y \in S : Min(S) <= y
<1>1. \E x \in S : \A y \in S : x <= y BY LeastNatural
<1> QED BY <1>1 DEF Min

\* A set of numbers with a bound has a greatest one.
LEMMA GreatestBelow ==
  ASSUME NEW b \in Nat, NEW S \in SUBSET (0 .. b), S # {}
  PROVE  \E x \in S : \A y \in S : y <= x
<1> DEFINE T == {t \in Nat : \E x \in S : t = b - x}
<1>1. T \in SUBSET Nat /\ T # {}
  <2>1. PICK x \in S : TRUE OBVIOUS
  <2>2. x \in 0 .. b /\ b - x \in Nat BY <2>1
  <2>3. b - x \in T BY <2>1, <2>2
  <2> QED BY <2>3
<1>2. PICK t \in T : \A u \in T : t <= u BY <1>1, LeastNatural
<1>3. PICK x \in S : t = b - x OBVIOUS
<1>4. \A y \in S : b - y \in T OBVIOUS
<1> QED BY <1>2, <1>3, <1>4

-----------------------------------------------------------------------------
(* Sizes of sets.                                                          *)

LEMMA DisjointCount ==
  ASSUME NEW S, IsFiniteSet(S), NEW T, IsFiniteSet(T), S \cap T = {}
  PROVE  Cardinality(S \cup T) = Cardinality(S) + Cardinality(T)
<1>1. Cardinality(S \cup T) = Cardinality(S) + Cardinality(T) - Cardinality(S \cap T)
  BY FS_Union
<1>2. Cardinality(S) \in Nat /\ Cardinality(T) \in Nat BY FS_CardinalityType
<1>3. Cardinality(S \cap T) = 0 BY FS_EmptySet
<1> QED BY <1>1, <1>2, <1>3

LEMMA PartCount ==
  ASSUME NEW S, IsFiniteSet(S), NEW T, T \subseteq S
  PROVE  Cardinality(S \ T) = Cardinality(S) - Cardinality(T)
<1>1. Cardinality(S \ T) = Cardinality(S) - Cardinality(S \cap T) BY FS_Difference
<1>2. S \cap T = T OBVIOUS
<1> QED BY <1>1, <1>2

-----------------------------------------------------------------------------
(* The rank of a number in a finite set of numbers.                        *)

Rank(S, x) == Cardinality({k \in S : k < x})

LEMMA RankType ==
  ASSUME NEW S \in SUBSET Nat, IsFiniteSet(S), NEW x \in S
  PROVE  Rank(S, x) \in 0 .. Cardinality(S) - 1
<1> DEFINE L == {k \in S : k < x}
<1>1. IsFiniteSet(L) /\ Cardinality(L) \in Nat BY FS_Subset, FS_CardinalityType
<1>2. Cardinality(L \cup {x}) = Cardinality(L) + 1
  <2>1. x \notin L OBVIOUS
  <2> HIDE DEF L
  <2> QED BY <1>1, <2>1, FS_AddElement
<1>3. Cardinality(L \cup {x}) <= Cardinality(S) /\ Cardinality(S) \in Nat
  <2>a. L \subseteq S OBVIOUS
  <2> HIDE DEF L
  <2>1. L \cup {x} \in SUBSET S BY <2>a
  <2> QED BY <2>1, FS_Subset, FS_CardinalityType
<1> QED BY <1>1, <1>2, <1>3 DEF Rank

LEMMA RankGrows ==
  ASSUME NEW S \in SUBSET Nat, IsFiniteSet(S), NEW x \in S, NEW y \in S, x < y
  PROVE  Rank(S, x) < Rank(S, y)
<1> DEFINE K == {k \in S : k < x}
           L == {k \in S : k < y}
<1>0. x \in Nat /\ y \in Nat /\ \A k \in S : k \in Nat OBVIOUS
<1>1. K \subseteq L /\ x \in L /\ x \notin K
  <2>1. \A k \in S : k < x => k < y BY <1>0
  <2>2. ~ x < x BY <1>0
  <2> QED BY <2>1, <2>2
<1>2. IsFiniteSet(L) BY FS_Subset
<1> HIDE DEF K, L
<1>3. K \in SUBSET L /\ K # L BY <1>1
<1>4. Cardinality(K) <= Cardinality(L) /\ Cardinality(L) # Cardinality(K)
  BY <1>2, <1>3, FS_Subset
<1>5. Cardinality(K) \in Nat /\ Cardinality(L) \in Nat
  BY <1>2, <1>3, FS_Subset, FS_CardinalityType
<1> QED BY <1>4, <1>5 DEF Rank, K, L

\* Every rank below the size of the set is that of exactly one element.
LEMMA RankOnto ==
  ASSUME NEW S \in SUBSET Nat, IsFiniteSet(S), NEW i \in 0 .. Cardinality(S) - 1
  PROVE  \E x \in S : Rank(S, x) = i
<1> DEFINE T == 0 .. Cardinality(S) - 1
           f == [x \in S |-> Rank(S, x)]
<1>1. Cardinality(S) \in Nat BY FS_CardinalityType
<1>2. IsFiniteSet(T) /\ Cardinality(T) = Cardinality(S) BY <1>1, FS_Interval
<1>3. f \in [S -> T] BY RankType
<1>4. \A x, y \in S : f[x] = f[y] => x = y
  <2> SUFFICES ASSUME NEW x \in S, NEW y \in S, x # y PROVE Rank(S, x) # Rank(S, y)
    OBVIOUS
  <2>1. Rank(S, x) \in Int /\ Rank(S, y) \in Int BY <1>1, RankType
  <2>2. CASE x < y BY <2>1, <2>2, RankGrows
  <2>3. CASE y < x BY <2>1, <2>3, RankGrows
  <2> QED BY <2>2, <2>3
<1>5. f \in Injection(S, T) BY <1>3, <1>4 DEF Injection, IsInjective
<1>6. f \in Surjection(S, T) BY <1>2, <1>5, FS_Injection
<1> QED BY <1>6 DEF Surjection

LEMMA RankInjective ==
  ASSUME NEW S \in SUBSET Nat, IsFiniteSet(S), NEW x \in S, NEW y \in S,
         Rank(S, x) = Rank(S, y)
  PROVE  x = y
<1>1. Rank(S, x) \in Int /\ Rank(S, y) \in Int
  BY RankType, FS_CardinalityType
<1>2. ~ x < y BY <1>1, RankGrows
<1>3. ~ y < x BY <1>1, RankGrows
<1> QED BY <1>2, <1>3

-----------------------------------------------------------------------------
(* Sums.  The sum of f over a finite set is a number of pairs: f[x] pairs  *)
(* for each x.  This is what the folds of the community modules compute.   *)

Units(f, S) == {u \in S \X Nat : u[2] < f[u[1]]}

LEMMA FirstNumbers ==
  ASSUME NEW n \in Nat
  PROVE  IsFiniteSet(0 .. n - 1) /\ Cardinality(0 .. n - 1) = n
<1>1. 0 > n - 1 => n = 0 OBVIOUS
<1> QED BY <1>1, FS_Interval

LEMMA UnitsFinite ==
  ASSUME NEW S, IsFiniteSet(S), NEW f, \A x \in S : f[x] \in Nat
  PROVE  IsFiniteSet(Units(f, S)) /\ Cardinality(Units(f, S)) \in Nat
<1> DEFINE part == [x \in S |-> {x} \X (0 .. f[x] - 1)]
           T == {part[x] : x \in S}
<1>1. part \in Surjection(S, T) BY DEF Surjection
<1>2. IsFiniteSet(T) BY <1>1, FS_Surjection
<1>3. ASSUME NEW x \in S PROVE IsFiniteSet(part[x])
  <2>1. IsFiniteSet({x}) /\ IsFiniteSet(0 .. f[x] - 1) BY FS_Singleton, FirstNumbers
  <2> QED BY <2>1, FS_Product
<1>4. Units(f, S) = UNION T
  <2>1. ASSUME NEW u \in Units(f, S) PROVE u \in UNION T
    <3>1. u[1] \in S /\ u \in part[u[1]] BY DEF Units
    <3> QED BY <3>1
  <2>2. ASSUME NEW x \in S, NEW u \in part[x] PROVE u \in Units(f, S)
    <3>1. u[1] = x /\ u[2] \in 0 .. f[x] - 1 /\ u = <<u[1], u[2]>> OBVIOUS
    <3> QED BY <3>1 DEF Units
  <2> QED BY <2>1, <2>2
<1> HIDE DEF part
<1>5. \A t \in T : IsFiniteSet(t) BY <1>3
<1> HIDE DEF T
<1>6. IsFiniteSet(UNION T) BY <1>2, <1>5, FS_UNION
<1> QED BY <1>4, <1>6, FS_CardinalityType

LEMMA UnitsStep ==
  ASSUME NEW S, IsFiniteSet(S), NEW f, \A x \in S : f[x] \in Nat, NEW x \in S
  PROVE  Cardinality(Units(f, S)) = f[x] + Cardinality(Units(f, S \ {x}))
<1> DEFINE mine == {x} \X (0 .. f[x] - 1)
<1>1. f[x] \in Nat OBVIOUS
<1>2. IsFiniteSet(mine) /\ Cardinality(mine) = f[x]
  <2>1. IsFiniteSet({x}) /\ Cardinality({x}) = 1 BY FS_Singleton
  <2>2. IsFiniteSet(0 .. f[x] - 1) /\ Cardinality(0 .. f[x] - 1) = f[x] BY <1>1, FirstNumbers
  <2>3. 1 * f[x] = f[x] BY <1>1
  <2>4. IsFiniteSet(mine) /\ Cardinality(mine) = Cardinality({x}) * Cardinality(0 .. f[x] - 1)
    BY <2>1, <2>2, FS_Product
  <2> QED BY <2>1, <2>2, <2>3, <2>4
<1>3. /\ IsFiniteSet(Units(f, S \ {x})) /\ Cardinality(Units(f, S \ {x})) \in Nat
  <2>1. IsFiniteSet(S \ {x}) BY FS_RemoveElement
  <2> QED BY <2>1, UnitsFinite
<1>4. Units(f, S) = mine \cup Units(f, S \ {x})
  <2>1. ASSUME NEW u \in Units(f, S) PROVE u \in mine \cup Units(f, S \ {x})
    BY DEF Units
  <2>2. ASSUME NEW u \in mine PROVE u \in Units(f, S)
    <3>1. u[1] = x /\ u[2] \in 0 .. f[x] - 1 /\ u = <<u[1], u[2]>> OBVIOUS
    <3> QED BY <3>1 DEF Units
  <2>3. Units(f, S \ {x}) \subseteq Units(f, S) BY DEF Units
  <2> QED BY <2>1, <2>2, <2>3
<1>5. mine \cap Units(f, S \ {x}) = {} BY DEF Units
<1> HIDE DEF mine
<1> QED BY <1>1, <1>2, <1>3, <1>4, <1>5, DisjointCount

LEMMA UnitsEmpty ==
  ASSUME NEW f
  PROVE  Cardinality(Units(f, {})) = 0
<1>1. Units(f, {}) = {} BY DEF Units
<1> QED BY <1>1, FS_EmptySet

\* The recursive function inside MapThenFoldSet, for a sum.
IsSum(it, f, S) ==
    it = [s \in SUBSET S |->
            IF s = {} THEN 0
            ELSE f[CHOOSE x \in s : TRUE] + it[s \ {CHOOSE x \in s : TRUE}]]

\* It exists for a sum of naturals.
LEMMA SumExists ==
  ASSUME NEW S, IsFiniteSet(S), NEW f, \A x \in S : f[x] \in Nat
  PROVE  \E it : IsSum(it, f, S)
<1> DEFINE it == [s \in SUBSET S |-> Cardinality(Units(f, s))]
           one(s) == CHOOSE x \in s : TRUE
<1>1. ASSUME NEW s \in SUBSET S, s # {}
      PROVE  Cardinality(Units(f, s)) = f[one(s)] + Cardinality(Units(f, s \ {one(s)}))
  <2>1. one(s) \in s BY <1>1
  <2>2. IsFiniteSet(s) BY FS_Subset
  <2> HIDE DEF one
  <2> QED BY <2>1, <2>2, UnitsStep
<1>2. \A s \in SUBSET S : s # {} => s \ {one(s)} \in SUBSET S OBVIOUS
<1>3. it = [s \in SUBSET S |-> IF s = {} THEN 0 ELSE f[one(s)] + it[s \ {one(s)}]]
  <2>1. ASSUME NEW s \in SUBSET S
        PROVE  it[s] = IF s = {} THEN 0 ELSE f[one(s)] + it[s \ {one(s)}]
    BY <1>1, <1>2, UnitsEmpty
  <2> HIDE DEF one
  <2> QED BY <2>1
<1>4. IsSum(it, f, S)
  <2> HIDE DEF it
  <2> QED BY <1>3 DEF IsSum
<1> QED BY <1>4

\* And it can only be the number of pairs.
LEMMA SumIsCount ==
  ASSUME NEW S, IsFiniteSet(S), NEW f, \A x \in S : f[x] \in Nat,
         NEW it, IsSum(it, f, S)
  PROVE  it[S] = Cardinality(Units(f, S))
<1> DEFINE one(s) == CHOOSE x \in s : TRUE
           Wrong == {s \in SUBSET S : it[s] # Cardinality(Units(f, s))}
           Sizes == {k \in Nat : \E s \in Wrong : k = Cardinality(s)}
<1>1. SUFFICES ASSUME Wrong # {} PROVE FALSE OBVIOUS
<1>2. \A s \in SUBSET S : IsFiniteSet(s) /\ Cardinality(s) \in Nat
  BY FS_Subset, FS_CardinalityType
<1>3. Sizes \in SUBSET Nat /\ Sizes # {} BY <1>1, <1>2
<1>4. PICK k \in Sizes : \A m \in Sizes : k <= m
  <2> HIDE DEF Sizes
  <2> QED BY <1>3, LeastNatural
<1>5. PICK s \in Wrong : k = Cardinality(s) BY <1>4
<1>6. CASE s = {} BY <1>5, <1>6, UnitsEmpty DEF IsSum
<1>7. CASE s # {}
  <2>1. one(s) \in s BY <1>7
  <2>2. it[s] = f[one(s)] + it[s \ {one(s)}] BY <1>7 DEF IsSum
  <2> HIDE DEF one
  <2>3. s \ {one(s)} \in SUBSET S /\ Cardinality(s \ {one(s)}) = k - 1
    BY <1>2, <1>5, <2>1, FS_RemoveElement
  <2>4. s \ {one(s)} \notin Wrong
    <3>1. Cardinality(s \ {one(s)}) \in Nat BY <1>2, <2>3
    <3>2. k - 1 \notin Sizes
      <4>1. k \in Nat BY <1>3, <1>4
      <4>2. ~ k <= k - 1 BY <4>1
      <4> QED BY <1>4, <4>2
    <3> QED BY <2>3, <3>1, <3>2
  <2>5. it[s \ {one(s)}] = Cardinality(Units(f, s \ {one(s)})) BY <2>3, <2>4
  <2>6. IsFiniteSet(s) /\ \A x \in s : f[x] \in Nat BY <1>2
  <2> QED BY <1>5, <2>1, <2>2, <2>5, <2>6, UnitsStep
<1> QED BY <1>6, <1>7

-----------------------------------------------------------------------------
(* Min and Max of two numbers, and of sets of numbers with a bound.        *)

LEMMA MaxBelow ==
  ASSUME NEW b \in Nat, NEW S \in SUBSET (0 .. b), S # {}
  PROVE  Max(S) \in S /\ \A y \in S : y <= Max(S)
<1>1. PICK x \in S : \A y \in S : y <= x BY GreatestBelow
<1>2. \A y \in S : x >= y BY <1>1
<1>3. \A x1 \in S : (\A y \in S : x1 >= y) => (\A y \in S : y <= x1) OBVIOUS
<1> QED BY <1>2, <1>3 DEF Max

LEMMA MaxOfTwo ==
  ASSUME NEW a \in Int, NEW b \in Int
  PROVE  Max({a, b}) = IF a >= b THEN a ELSE b
<1>1. \E x \in {a, b} : \A y \in {a, b} : x >= y OBVIOUS
<1>2. Max({a, b}) \in {a, b} /\ \A y \in {a, b} : Max({a, b}) >= y BY <1>1 DEF Max
<1> QED BY <1>2

LEMMA MinOfTwo ==
  ASSUME NEW a \in Int, NEW b \in Int
  PROVE  Min({a, b}) = IF a <= b THEN a ELSE b
<1>1. \E x \in {a, b} : \A y \in {a, b} : x <= y OBVIOUS
<1>2. Min({a, b}) \in {a, b} /\ \A y \in {a, b} : Min({a, b}) <= y BY <1>1 DEF Min
<1> QED BY <1>2

LEMMA SameCount ==
  ASSUME NEW S, IsFiniteSet(S), NEW T, NEW f \in [S -> T],
         \A x, y \in S : f[x] = f[y] => x = y, \A t \in T : \E x \in S : f[x] = t
  PROVE  IsFiniteSet(T) /\ Cardinality(T) = Cardinality(S)
<1>1. f \in Injection(S, T) BY DEF Injection, IsInjective
<1>2. f \in Surjection(S, T) BY DEF Surjection
<1>3. f \in Bijection(S, T) BY <1>1, <1>2 DEF Bijection
<1> QED BY <1>3, FS_Bijection DEF ExistsBijection
=============================================================================
