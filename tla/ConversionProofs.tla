---------------------------- MODULE ConversionProofs ----------------------------
(***************************************************************************)
(* Proofs about Conversion, HookedCall under it and the rounding of        *)
(* MinorUnits, for any currency definitions, amounts and rates, any number *)
(* of interrupts, both variants and all failure modes.                     *)
(***************************************************************************)
EXTENDS Conversion, FiniteSetTheorems, WellFoundedInduction, TLAPS

--------------------------------------------------------------------------------
(* Rounding. *)

\* Division with remainder.
LEMMA Division ==
  ASSUME NEW a \in Int, NEW b \in Nat \ {0}
  PROVE  /\ a \div b \in Int /\ a % b \in 0 .. b - 1
         /\ a >= 0 => a \div b >= 0
         /\ a = b * (a \div b) + (a % b)
<1>1. a \div b \in Int /\ a % b \in Int /\ a % b >= 0 /\ a % b < b OBVIOUS
<1>2. a = b * (a \div b) + (a % b) OBVIOUS
<1>3. a >= 0 => a \div b >= 0 OBVIOUS
<1>4. QED BY <1>1, <1>2, <1>3

\* A multiple of b, divided by b.
LEMMA MultipleDivides ==
  ASSUME NEW a \in Int, NEW b \in Nat \ {0}
  PROVE  (a * b) % b = 0 /\ (a * b) \div b = a
<1>0. PICK c \in Int : c = a * b OBVIOUS
<1> DEFINE q == c \div b
           r == c % b
<1>1. q \in Int /\ r \in 0 .. b - 1 /\ c = b * q + r BY Division
<1> HIDE DEF q, r
<1>2. a * b = b * q + r BY <1>0, <1>1
<1>3. (a - q) * b = r BY <1>1, <1>2
<1>4. a - q >= 1 => (a - q) * b >= b BY <1>1
<1>5. a - q <= -1 => (a - q) * b <= -b BY <1>1
<1>6. a = q BY <1>1, <1>3, <1>4, <1>5
<1>7. r = 0 BY <1>1, <1>3, <1>6
<1>8. QED BY <1>0, <1>6, <1>7 DEF q, r

\* Quantize achieves what Rounds asks for: the nearest integer, or the one the
\* mode picks, of the exact quotient, whatever its sign.
LEMMA QuantizeRounds ==
  ASSUME NEW mode \in RoundingModes, NEW num \in Int, NEW den \in Nat \ {0}
  PROVE  /\ Quantize(mode, num, den) \in Int
         /\ Rounds(mode, num, den, Quantize(mode, num, den))
<1>1. PICK a \in Nat : a = Abs(num) BY DEF Abs
<1> DEFINE q == a \div den
           r == a % den
           up == IF \/ mode = "up" /\ r > 0
                    \/ mode = "half_up" /\ 2 * r >= den
                    \/ mode = "half_even" /\ (2 * r > den \/ (2 * r = den /\ q % 2 = 1))
                 THEN 1 ELSE 0
           n == q + up
           i == Sign(num) * n
           d == den * q
<1>2. q \in Nat /\ r \in 0 .. den - 1 /\ a = d + r
  <2>1. a \in Int /\ a >= 0 OBVIOUS
  <2>2. /\ a \div den \in Int /\ a % den \in 0 .. den - 1
        /\ a >= 0 => a \div den >= 0
        /\ a = den * (a \div den) + (a % den)
    BY <2>1, Division, Zenon
  <2>3. QED BY <2>1, <2>2
<1>3. Quantize(mode, num, den) = i BY <1>1 DEF Quantize
<1> HIDE DEF q, r
<1>4. up \in {0, 1} /\ (up = 1 => r > 0) BY <1>2
<1> HIDE DEF up
<1>5. n \in Nat /\ n * den = d + up * den /\ d \in Nat BY <1>2, <1>4
<1> HIDE DEF n, d
<1>6. i \in Int /\ Abs(i) = n /\ (num >= 0 => i = n) /\ (num < 0 => i = -n)
  BY <1>5 DEF Abs, Sign
<1>7. i * den = IF num >= 0 THEN n * den ELSE -(n * den) BY <1>5, <1>6
<1> HIDE DEF i
<1>8. Abs(num - i * den) = IF up = 1 THEN den - r ELSE r
  <2>1. num = IF num >= 0 THEN d + r ELSE -(d + r) BY <1>1, <1>2, <1>5 DEF Abs
  <2>2. CASE up = 1 BY <1>2, <1>4, <1>5, <1>7, <2>1, <2>2 DEF Abs
  <2>3. CASE up = 0 BY <1>2, <1>4, <1>5, <1>7, <2>1, <2>3 DEF Abs
  <2>4. QED BY <1>4, <2>2, <2>3
<1>9. Rounds(mode, num, den, i)
  <2> DEFINE off == Abs(num - i * den)
  <2>1. off \in Nat /\ off < den BY <1>2, <1>4, <1>8
  <2>2. mode = "down" => Abs(i) * den <= Abs(num)
    BY <1>1, <1>2, <1>5, <1>6 DEF up
  <2>3. mode = "up" => Abs(i) * den >= Abs(num)
    BY <1>1, <1>2, <1>5, <1>6 DEF up
  <2>4. ASSUME mode \in {"half_even", "half_up"} PROVE 2 * off <= den
    BY <1>2, <1>4, <1>8, <2>4 DEF up
  <2>5. ASSUME mode = "half_even", 2 * off = den PROVE i % 2 = 0
    <3>1. 2 * r = den BY <1>2, <1>4, <1>8, <2>5
    <3>2. n % 2 = 0
      BY <1>2, <2>5, <3>1 DEF up, n
    <3>3. QED BY <1>5, <1>6, <3>2
  <2>6. ASSUME mode = "half_up", 2 * off = den PROVE Abs(i) * den > Abs(num)
    <3>1. 2 * r = den BY <1>2, <1>4, <1>8, <2>6
    <3>2. up = 1 BY <2>6, <3>1 DEF up
    <3>3. QED BY <1>1, <1>2, <1>5, <1>6, <3>1, <3>2
  <2> HIDE DEF off
  <2>7. QED BY <2>1, <2>2, <2>3, <2>4, <2>5, <2>6 DEF Rounds, off
<1>10. QED BY <1>3, <1>6, <1>9

\* Of two neighbours, a mode picks one at most.
LEMMA NeighboursExclude ==
  ASSUME NEW mode \in RoundingModes, NEW num \in Int, NEW den \in Nat \ {0}, NEW i \in Int,
         Rounds(mode, num, den, i), Rounds(mode, num, den, i + 1)
  PROVE  FALSE
<1>1. PICK d \in Int : d = i * den /\ (i + 1) * den = d + den OBVIOUS
<1>2. PICK x \in Int : x = num - d BY <1>1
<1>3. num = d + x /\ num - i * den = x /\ num - (i + 1) * den = x - den BY <1>1, <1>2
<1>4. 0 < x /\ x < den BY <1>3 DEF Rounds, Abs
<1>5. \/ i >= 0 /\ d >= 0 /\ Abs(i) * den = d /\ Abs(i + 1) * den = d + den
      \/ i <= -1 /\ d <= -den /\ Abs(i) * den = -d /\ Abs(i + 1) * den = -d - den
  <2>1. CASE i >= 0
    <3>1. i * den >= 0 BY <2>1
    <3>2. Abs(i) = i /\ Abs(i + 1) = i + 1 BY <2>1 DEF Abs
    <3>3. QED BY <1>1, <2>1, <3>1, <3>2
  <2>2. CASE i <= -1
    <3>1. (i + 1) * den <= 0 BY <2>2
    <3>2. Abs(i) = -i /\ Abs(i + 1) = -(i + 1) BY <2>2 DEF Abs
    <3>3. (-i) * den = -(i * den) /\ (-(i + 1)) * den = -((i + 1) * den) OBVIOUS
    <3>4. QED BY <1>1, <2>2, <3>1, <3>2, <3>3
  <2>3. QED BY <2>1, <2>2
<1>6. mode # "down" BY <1>3, <1>4, <1>5 DEF Rounds, Abs
<1>7. mode # "up" BY <1>3, <1>4, <1>5 DEF Rounds, Abs
<1>8. ASSUME mode \in {"half_even", "half_up"} PROVE 2 * x = den
  BY <1>3, <1>4, <1>8 DEF Rounds, Abs
<1>9. mode # "half_even"
  <2> SUFFICES ASSUME mode = "half_even" PROVE FALSE OBVIOUS
  <2>1. i % 2 = 0 /\ (i + 1) % 2 = 0 BY <1>3, <1>4, <1>8 DEF Rounds, Abs
  <2>2. QED BY <2>1
<1>10. mode # "half_up" BY <1>3, <1>4, <1>5, <1>8 DEF Rounds, Abs
<1>11. QED BY <1>6, <1>7, <1>9, <1>10 DEF RoundingModes

\* What a mode asks for determines the rounded quotient: Rounds is a definition
\* of rounding, and Quantize computes what it defines (rounding.py 34-45).
THEOREM RoundingIsDetermined ==
  ASSUME NEW mode \in RoundingModes, NEW num \in Int, NEW den \in Nat \ {0}, NEW i \in Int
  PROVE  Rounds(mode, num, den, i) <=> i = Quantize(mode, num, den)
<1>1. PICK j \in Int : j = Quantize(mode, num, den) /\ Rounds(mode, num, den, j)
  BY QuantizeRounds
<1>2. ASSUME Rounds(mode, num, den, i) PROVE i = j
  <2>1. PICK x \in Int, y \in Int : x = num - i * den /\ y = num - j * den OBVIOUS
  <2>2. Abs(x) < den /\ Abs(y) < den BY <1>1, <1>2, <2>1 DEF Rounds
  <2>3. (j - i) * den = x - y BY <2>1
  <2>4. -2 * den < x - y /\ x - y < 2 * den BY <2>2 DEF Abs
  <2>5. j - i >= 2 => (j - i) * den >= 2 * den OBVIOUS
  <2>6. j - i <= -2 => (j - i) * den <= -2 * den OBVIOUS
  <2>7. j \in {i - 1, i, i + 1} BY <2>3, <2>4, <2>5, <2>6
  <2>8. j # i + 1 BY <1>1, <1>2, NeighboursExclude
  <2>9. j # i - 1
    <3> SUFFICES ASSUME i = j + 1 PROVE FALSE OBVIOUS
    <3>1. Rounds(mode, num, den, j + 1) BY <1>2
    <3>2. QED BY <1>1, <3>1, NeighboursExclude
  <2>10. QED BY <2>7, <2>8, <2>9
<1>3. QED BY <1>1, <1>2

\* A whole number is not rounded.
LEMMA WholeIsKept ==
  ASSUME NEW mode \in RoundingModes, NEW k \in Int, NEW den \in Nat \ {0}
  PROVE  Quantize(mode, k * den, den) = k
<1>1. Abs(k * den) = Abs(k) * den /\ Abs(k) \in Nat
  <2>1. k >= 0 => k * den >= 0 OBVIOUS
  <2>2. k < 0 => k * den < 0 /\ -(k * den) = (-k) * den OBVIOUS
  <2>3. QED BY <2>1, <2>2 DEF Abs
<1>2. Abs(k * den) \div den = Abs(k) /\ Abs(k * den) % den = 0
  BY <1>1, MultipleDivides
<1>3. Sign(k * den) * Abs(k) = k
  <2>1. k >= 0 => k * den >= 0 OBVIOUS
  <2>2. k < 0 => k * den < 0 OBVIOUS
  <2>3. QED BY <2>1, <2>2 DEF Abs, Sign
<1>4. QED BY <1>1, <1>2, <1>3 DEF Quantize

\* A currency has a positive number of minor units to its major unit.
LEMMA FactorProperties ==
  ASSUME NEW d \in Definitions
  PROVE  Factor(d) \in Nat \ {0}
<1>1. PICK k \in 0 .. 9 : k = d.exponent
  BY DefinitionsAssumption DEF DefinitionsAssumption
<1>2. 10 ^ k \in Nat \ {0}
  <2>0. CASE k = 0 BY <2>0
  <2>1. CASE k = 1 BY <2>1
  <2>2. CASE k = 2 BY <2>2
  <2>3. CASE k = 3 BY <2>3
  <2>4. CASE k = 4 BY <2>4
  <2>5. CASE k = 5 BY <2>5
  <2>6. CASE k = 6 BY <2>6
  <2>7. CASE k = 7 BY <2>7
  <2>8. CASE k = 8 BY <2>8
  <2>9. CASE k = 9 BY <2>9
  <2>10. QED BY <2>0, <2>1, <2>2, <2>3, <2>4, <2>5, <2>6, <2>7, <2>8, <2>9
<1>3. QED BY <1>1, <1>2 DEF Factor

--------------------------------------------------------------------------------
(* Sums.  Total is a fold over the positions of a sequence, in the order in    *)
(* which CHOOSE picks them; that it is the sum of its partial sums is shown by *)
(* induction on how many positions are taken.                                  *)

\* Mathematical induction, from the well-foundedness of < on Nat: a smallest
\* natural outside S would be neither zero nor the successor of one in S.
LEMMA Induction ==
  ASSUME NEW S \in SUBSET Nat, 0 \in S, \A n \in S : n + 1 \in S
  PROVE  S = Nat
<1> SUFFICES ASSUME Nat \ S # {} PROVE FALSE OBVIOUS
<1> DEFINE R == OpToRel(<, Nat)
<1>1. IsWellFoundedOn(R, Nat) BY NatLessThanWellFounded, Zenon
<1>1a. \A x, y \in Nat : y < x => <<y, x>> \in R BY Zenon DEF OpToRel
<1> HIDE DEF R
<1>2. PICK x \in Nat \ S : \A y \in Nat \ S : ~(<<y, x>> \in R)
  <2>1. Nat \ S \subseteq Nat OBVIOUS
  <2>2. QED BY <1>1, <2>1, WFMin
<1>3. x # 0 /\ x - 1 \in Nat /\ x - 1 < x OBVIOUS
<1>4. x - 1 \in S BY <1>1a, <1>2, <1>3
<1>5. QED BY <1>2, <1>4

\* The element a fold takes next.
Picked(T) == CHOOSE x \in T : TRUE

\* Total, with the folds of the library expanded.
LEMMA TotalDef ==
  ASSUME NEW s
  PROVE  Total(s) =
           (CHOOSE iter :
              iter = [T \in SUBSET DOMAIN s |->
                        IF T = {} THEN 0 ELSE s[Picked(T)] + iter[T \ {Picked(T)}]])[DOMAIN s]
BY DEF Total, FoldFunction, FoldFunctionOnSet, MapThenFoldSet, Picked

\* g[T] takes the sum of f over T apart as Total does: by an element of T and the rest.
TakesApart(f, g, T) == g[T] = IF T = {} THEN 0 ELSE f[Picked(T)] + g[T \ {Picked(T)}]

\* Any element leaves a smaller finite set.
LEMMA PickedProperties ==
  ASSUME NEW T, IsFiniteSet(T), T # {}
  PROVE  /\ Picked(T) \in T
         /\ \A x \in T : /\ IsFiniteSet(T \ {x}) 
                         /\ Cardinality(T) \in Nat
                         /\ Cardinality(T \ {x}) = Cardinality(T) - 1
BY FS_RemoveElement, FS_CardinalityType DEF Picked

\* A function with the recursion equation of the fold exists, by induction on the
\* size of the sets it is right for.
LEMMA SumsExist ==
  ASSUME NEW D, IsFiniteSet(D), NEW f \in [D -> Int]
  PROVE  \E g \in [SUBSET D -> Int] : \A T \in SUBSET D : TakesApart(f, g, T)
<1> DEFINE Upto(k) ==
             \E g \in [SUBSET D -> Int] :
               \A T \in SUBSET D : Cardinality(T) <= k => TakesApart(f, g, T)
           S == {k \in Nat : Upto(k)}
<1>f. \A T \in SUBSET D : IsFiniteSet(T) /\ Cardinality(T) \in Nat
  BY FS_Subset, FS_CardinalityType
<1>1. 0 \in S
  <2> DEFINE g == [T \in SUBSET D |-> 0]
  <2>1. g \in [SUBSET D -> Int] OBVIOUS
  <2>2. ASSUME NEW T \in SUBSET D, Cardinality(T) <= 0 PROVE TakesApart(f, g, T)
    <3>1. T = {} BY <1>f, <2>2, FS_EmptySet
    <3>2. QED BY <3>1 DEF TakesApart
  <2>3. QED BY <2>1, <2>2
<1>2. ASSUME NEW k \in S PROVE k + 1 \in S
  <2>1. PICK g \in [SUBSET D -> Int] :
          \A T \in SUBSET D : Cardinality(T) <= k => TakesApart(f, g, T)
    OBVIOUS
  <2> DEFINE next(T) == f[Picked(T)] + g[T \ {Picked(T)}]
             h == [T \in SUBSET D |-> IF Cardinality(T) <= k THEN g[T] ELSE next(T)]
  <2>2. ASSUME NEW T \in SUBSET D, T # {}
        PROVE  /\ Picked(T) \in D /\ T \ {Picked(T)} \in SUBSET D /\ next(T) \in Int
               /\ Cardinality(T \ {Picked(T)}) = Cardinality(T) - 1
    BY <1>f, <2>2, PickedProperties
  <2>3. ASSUME NEW T \in SUBSET D, ~(Cardinality(T) <= k) PROVE T # {}
    <3>1. k \in Nat /\ Cardinality({}) = 0 BY FS_EmptySet
    <3>2. ASSUME T = {} PROVE FALSE
      <4>1. Cardinality(T) = 0 BY <3>1, <3>2
      <4>2. QED BY <2>3, <3>1, <4>1
    <3>3. QED BY <3>2
  <2> HIDE DEF next
  <2>4. h \in [SUBSET D -> Int] BY <2>2, <2>3
  <2>5. ASSUME NEW T \in SUBSET D, Cardinality(T) <= k + 1 PROVE TakesApart(f, h, T)
    <3>1. CASE T = {}
      <4>1. Cardinality(T) <= k BY <3>1, FS_EmptySet
      <4>2. QED BY <2>1, <3>1, <4>1 DEF TakesApart
    <3>2. CASE T # {}
      <4>1. Cardinality(T \ {Picked(T)}) <= k BY <1>f, <2>2, <2>5, <3>2
      <4>2. h[T \ {Picked(T)}] = g[T \ {Picked(T)}] BY <2>2, <3>2, <4>1
      <4>3. h[T] = next(T) BY <2>1, <3>2 DEF TakesApart, next
      <4>4. QED BY <3>2, <4>2, <4>3 DEF TakesApart, next
    <3>3. QED BY <3>1, <3>2
  <2> HIDE DEF h
  <2>6. QED BY <2>4, <2>5
<1> HIDE DEF Upto
<1>3. S = Nat BY <1>1, <1>2, Induction
<1>4. Upto(Cardinality(D)) BY <1>3, FS_CardinalityType
<1>5. \A T \in SUBSET D : Cardinality(T) <= Cardinality(D) BY FS_Subset
<1>6. QED BY <1>4, <1>5 DEF Upto

\* The fold is defined by a CHOOSE, so it is such a function, with integer values.
LEMMA TotalTakesApart ==
  ASSUME NEW D, IsFiniteSet(D), NEW f \in [D -> Int]
  PROVE  \E g \in [SUBSET D -> Int] :
           Total(f) = g[D] /\ \A T \in SUBSET D : TakesApart(f, g, T)
<1> DEFINE F(iter) ==
             [T \in SUBSET D |->
                IF T = {} THEN 0 ELSE f[Picked(T)] + iter[T \ {Picked(T)}]]
           g == CHOOSE iter : iter = F(iter)
<1>1. \E iter : iter = F(iter)
  <2>1. PICK iter \in [SUBSET D -> Int] : \A T \in SUBSET D : TakesApart(f, iter, T)
    BY SumsExist
  <2>2. iter = F(iter) BY <2>1 DEF TakesApart
  <2>3. QED BY <2>2
<1>2. Total(f) = g[D] 
  <2>1. DOMAIN f = D OBVIOUS
  <2>2. QED BY <2>1, TotalDef
<1>3. g = F(g) BY <1>1
<1> HIDE DEF g
<1>4. ASSUME NEW T \in SUBSET D PROVE TakesApart(f, g, T)
  <2>1. F(g)[T] = IF T = {} THEN 0 ELSE f[Picked(T)] + g[T \ {Picked(T)}] OBVIOUS
  <2>2. g[T] = F(g)[T] BY <1>3, Zenon
  <2>3. QED BY <2>1, <2>2, Zenon DEF TakesApart
<1>f. \A T \in SUBSET D : IsFiniteSet(T) /\ Cardinality(T) \in Nat
  BY FS_Subset, FS_CardinalityType
<1>5. \A T \in SUBSET D : g[T] \in Int
  <2> DEFINE S == {k \in Nat : \A T \in SUBSET D : Cardinality(T) <= k => g[T] \in Int}
  <2>1. 0 \in S
    <3>1. ASSUME NEW T \in SUBSET D, Cardinality(T) <= 0 PROVE g[T] \in Int
      <4>1. T = {} BY <1>f, <3>1, FS_EmptySet
      <4>2. TakesApart(f, g, T) BY <1>4
      <4>3. QED BY <4>1, <4>2 DEF TakesApart
    <3>2. QED BY <3>1
  <2>2. ASSUME NEW k \in S PROVE k + 1 \in S
    <3>1. ASSUME NEW T \in SUBSET D, Cardinality(T) <= k + 1 PROVE g[T] \in Int
      <4>1. CASE T = {}
        <5>1. TakesApart(f, g, T) BY <1>4
        <5>2. QED BY <4>1, <5>1 DEF TakesApart
      <4>2. CASE T # {}
        <5>1. Picked(T) \in D /\ Cardinality(T \ {Picked(T)}) = Cardinality(T) - 1
          BY <1>f, <4>2, PickedProperties
        <5>2. Cardinality(T \ {Picked(T)}) <= k BY <1>f, <3>1, <5>1
        <5>3. g[T \ {Picked(T)}] \in Int BY <5>2
        <5>4. g[T] = f[Picked(T)] + g[T \ {Picked(T)}] BY <1>4, <4>2 DEF TakesApart
        <5>5. QED BY <5>1, <5>3, <5>4
      <4>3. QED BY <4>1, <4>2
    <3>2. QED BY <3>1
  <2>3. S = Nat BY <2>1, <2>2, Induction
  <2>4. QED BY <1>f, <2>3
<1>6. g \in [SUBSET D -> Int] 
  <2>1. F(g) \in [SUBSET D -> Int]
    <3>1. ASSUME NEW T \in SUBSET D PROVE F(g)[T] \in Int
      <4>1. F(g)[T] = g[T] BY <1>3, Zenon
      <4>2. QED BY <1>5, <4>1
    <3>2. QED BY <3>1, Zenon
  <2>2. QED BY <1>3, <2>1
<1>7. QED BY <1>2, <1>4, <1>6

\* g sums f up over each set, with the element that is picked or with any.
SumsUp(D, f, g) == \A T \in SUBSET D : TakesApart(f, g, T)
InAnyOrder(D, f, g) == \A T \in SUBSET D : \A x \in T : g[T] = f[x] + g[T \ {x}]

\* The order in which the elements are taken does not matter.
LEMMA AnyElementApart ==
  ASSUME NEW D, IsFiniteSet(D), NEW f \in [D -> Int], NEW g \in [SUBSET D -> Int],
         SumsUp(D, f, g)
  PROVE  InAnyOrder(D, f, g)
<1> DEFINE Free(U) == \A y \in U : g[U] = f[y] + g[U \ {y}]
           S == {k \in Nat : \A U \in SUBSET D : Cardinality(U) <= k => Free(U)}
<1>f. \A U \in SUBSET D : IsFiniteSet(U) /\ Cardinality(U) \in Nat
  BY FS_Subset, FS_CardinalityType
<1>1. 0 \in S
  <2>1. \A U \in SUBSET D : Cardinality(U) <= 0 => U = {} BY <1>f, FS_EmptySet
  <2>2. Free({}) OBVIOUS
  <2> HIDE DEF Free
  <2>3. QED BY <2>1, <2>2
<1>2. ASSUME NEW k \in S PROVE k + 1 \in S
  <2>1. ASSUME NEW U \in SUBSET D, Cardinality(U) <= k + 1, NEW y \in U
        PROVE  g[U] = f[y] + g[U \ {y}]
    <3> DEFINE p == Picked(U)
               rest == U \ {p, y}
    <3>1. /\ p \in U
          /\ \A z \in U : Cardinality(U \ {z}) <= k
      BY <1>f, <2>1, PickedProperties
    <3>2. g[U] = f[p] + g[U \ {p}] BY <2>1 DEF SumsUp, TakesApart
    <3> HIDE DEF p
    <3>3. CASE y = p BY <3>2, <3>3
    <3>4. CASE y # p
      <4>1. \A z \in U : U \ {z} \in SUBSET D /\ Free(U \ {z}) BY <3>1
      <4>2. (U \ {p}) \ {y} = rest /\ (U \ {y}) \ {p} = rest OBVIOUS
      <4>3. g[U \ {p}] = f[y] + g[rest]
        <5>1. y \in U \ {p} BY <2>1, <3>4
        <5>2. QED BY <3>1, <4>1, <4>2, <5>1
      <4>4. g[U \ {y}] = f[p] + g[rest]
        <5>1. p \in U \ {y} BY <3>1, <3>4
        <5>2. QED BY <2>1, <4>1, <4>2, <5>1
      <4>5. f[p] \in Int /\ f[y] \in Int /\ g[rest] \in Int
        <5>1. p \in D /\ y \in D /\ rest \in SUBSET D BY <2>1, <3>1
        <5>2. QED BY <5>1
      <4>6. QED BY <3>2, <4>3, <4>4, <4>5
    <3>5. QED BY <3>3, <3>4
  <2>2. QED BY <2>1
<1>3. S = Nat
  <2> HIDE DEF Free
  <2>1. QED BY <1>1, <1>2, Induction
<1>4. \A T \in SUBSET D : Free(T)
  <2> HIDE DEF Free
  <2>1. QED BY <1>f, <1>3
<1>5. QED BY <1>4 DEF InAnyOrder

\* The total of a sequence is the last of its partial sums.
LEMMA TotalIsLastPartialSum ==
  ASSUME NEW n \in Nat, NEW f \in [1 .. n -> Int]
  PROVE  \E sum \in [0 .. n -> Int] :
           /\ sum[0] = 0
           /\ \A i \in 1 .. n : sum[i] = sum[i - 1] + f[i]
           /\ Total(f) = sum[n]
<1>1. PICK D, h : D = 1 .. n /\ h = f OBVIOUS
<1>2. IsFiniteSet(D) /\ h \in [D -> Int] BY <1>1, FS_Interval
<1>3. PICK g : g \in [SUBSET D -> Int] /\ Total(h) = g[D] /\ SumsUp(D, h, g)
  BY <1>2, TotalTakesApart DEF SumsUp
<1>4. \A T \in SUBSET D : \A x \in T : g[T] = h[x] + g[T \ {x}]
  <2>1. InAnyOrder(D, h, g) BY <1>2, <1>3, AnyElementApart, Zenon
  <2>2. QED BY <2>1 DEF InAnyOrder
<1>5. \A i \in 0 .. n : 1 .. i \in SUBSET D BY <1>1
<1> DEFINE sum == [i \in 0 .. n |-> g[1 .. i]]
<1>6. sum \in [0 .. n -> Int] BY <1>3, <1>5
<1>7. sum[0] = 0
  <2>1. {} \in SUBSET D /\ 1 .. 0 = {} /\ 0 \in 0 .. n OBVIOUS
  <2>2. g[{}] = 0 BY <1>3, <2>1 DEF SumsUp, TakesApart
  <2>3. QED BY <2>1, <2>2
<1>8. ASSUME NEW i \in 1 .. n PROVE sum[i] = sum[i - 1] + f[i]
  <2>1. i \in 0 .. n /\ i - 1 \in 0 .. n /\ i \in 1 .. i OBVIOUS
  <2>2. (1 .. i) \ {i} = 1 .. i - 1 OBVIOUS
  <2>3. g[1 .. i] = f[i] + g[(1 .. i) \ {i}] BY <1>1, <1>4, <1>5, <2>1
  <2>4. sum[i] = f[i] + sum[i - 1] BY <2>1, <2>2, <2>3
  <2>5. sum[i - 1] \in Int /\ f[i] \in Int BY <1>6, <2>1
  <2> HIDE DEF sum
  <2>6. QED BY <2>4, <2>5
<1>9. Total(f) = sum[n] BY <1>1, <1>3
<1> HIDE DEF sum
<1>10. QED BY <1>6, <1>7, <1>8, <1>9

\* Whatever starts at zero and grows as the partial sums do ends at the total.
LEMMA TotalByPartialSums ==
  ASSUME NEW n \in Nat, NEW f \in [1 .. n -> Int], NEW h \in [0 .. n -> Int],
         h[0] = 0, \A i \in 1 .. n : h[i] = h[i - 1] + f[i]
  PROVE  Total(f) = h[n]
<1>1. PICK sum \in [0 .. n -> Int] :
        sum[0] = 0 /\ (\A i \in 1 .. n : sum[i] = sum[i - 1] + f[i]) /\ Total(f) = sum[n]
  BY TotalIsLastPartialSum
<1> DEFINE S == {k \in Nat : k <= n => sum[k] = h[k]}
<1>2. 0 \in S BY <1>1
<1>3. ASSUME NEW k \in S PROVE k + 1 \in S
  <2> SUFFICES ASSUME k + 1 <= n PROVE sum[k + 1] = h[k + 1] OBVIOUS
  <2>1. k + 1 \in 1 .. n /\ (k + 1) - 1 = k /\ sum[k] = h[k] OBVIOUS
  <2>2. sum[k + 1] = sum[k] + f[k + 1] /\ h[k + 1] = h[k] + f[k + 1] BY <1>1, <2>1
  <2>3. QED BY <2>1, <2>2
<1>4. S = Nat 
  <2> HIDE DEF S
  <2>1. S \in SUBSET Nat BY DEF S
  <2>2. QED BY <1>2, <1>3, <2>1, Induction
<1>5. sum[n] = h[n] BY <1>4
<1>6. QED BY <1>1, <1>5

\* Any number of parts of an amount of either sign sum up to it, and no two of
\* them are more than a unit apart (money.py 196): h holds the partial sums.
THEOREM SplitConserves ==
  ASSUME NEW minor \in Int, NEW parts \in Nat \ {0}
  PROVE  /\ Total(Split(minor, parts)) = minor
         /\ \A i, j \in 1 .. parts : Abs(Split(minor, parts)[i] - Split(minor, parts)[j]) <= 1
<1>1. PICK a \in Nat, s \in {-1, 1} : a = Abs(minor) /\ s = Sign(minor) /\ minor = s * a
  BY DEF Abs, Sign
<1>2. PICK q \in Nat, r \in 0 .. parts - 1 :
        q = a \div parts /\ r = a % parts /\ a = parts * q + r
  <2>1. /\ a \div parts \in Int /\ a % parts \in 0 .. parts - 1 /\ a \div parts >= 0
        /\ a = parts * (a \div parts) + (a % parts)
    <3>1. a \in Int /\ a >= 0 OBVIOUS
    <3>2. QED BY <3>1, Division
  <2>2. QED BY <2>1
<1> DEFINE f == [i \in 1 .. parts |-> s * (q + IF i <= r THEN 1 ELSE 0)]
           h == [i \in 0 .. parts |-> s * (i * q + IF i <= r THEN i ELSE r)]
<1>3. Split(minor, parts) = f BY <1>1, <1>2 DEF Split
<1>4. f \in [1 .. parts -> Int] /\ h \in [0 .. parts -> Int]
  <2>1. \A i \in Nat : i * q \in Nat OBVIOUS
  <2>2. \A i \in 1 .. parts : f[i] \in Int BY <1>1
  <2>3. ASSUME NEW i \in 0 .. parts PROVE h[i] \in Int
    <3>1. PICK m \in Int : m = i * q + IF i <= r THEN i ELSE r BY <2>1
    <3>2. h[i] = s * m BY <3>1
    <3>3. QED BY <3>2
  <2>4. QED BY <2>2, <2>3
<1>5. h[0] = 0 BY <1>2
<1>6. ASSUME NEW i \in 1 .. parts PROVE h[i] = h[i - 1] + f[i]
  <2>1. PICK c \in Int : c = i * q /\ (i - 1) * q = c - q OBVIOUS
  <2>2. PICK p \in Int, o \in Int, e \in Int :
          /\ p = IF i <= r THEN i ELSE r
          /\ o = IF i - 1 <= r THEN i - 1 ELSE r
          /\ e = IF i <= r THEN 1 ELSE 0
          /\ p = o + e
    OBVIOUS
  <2>3. h[i] = s * (c + p) BY <2>1, <2>2
  <2>4. h[i - 1] = s * (c - q + o) BY <2>1, <2>2
  <2>5. f[i] = s * (q + e) BY <2>2
  <2>6. s * (c + p) = s * (c - q + o) + s * (q + e) BY <2>2
  <2> HIDE DEF f, h
  <2>7. QED BY <2>3, <2>4, <2>5, <2>6
<1>7. h[parts] = minor
  <2>1. h[parts] = s * (parts * q + r) BY <1>2
  <2>2. QED BY <1>1, <1>2, <2>1
<1>8. ASSUME NEW i \in 1 .. parts, NEW j \in 1 .. parts PROVE Abs(f[i] - f[j]) <= 1
  BY DEF Abs
<1> HIDE DEF f, h
<1>9. Total(f) = minor BY <1>4, <1>5, <1>6, <1>7, TotalByPartialSums
<1>10. QED BY <1>3, <1>8, <1>9

\* Any ratios that are not all zero allocate the whole amount, each share within
\* a unit of its exact one (money.py 212).  The floors of the exact shares miss
\* less than a unit each (Near), so at most one unit is left for each recipient and
\* the code's `index % len(shares)' never starts over.
THEOREM AllocateConserves ==
  ASSUME NEW minor \in Int, NEW n \in Nat \ {0}, NEW ratios \in [1 .. n -> Nat]
  PROVE  /\ Total(Allocate(minor, ratios)) = IF Total(ratios) = 0 THEN 0 ELSE minor
         /\ \A i \in 1 .. n : Abs(Allocate(minor, ratios)[i] * Total(ratios) - minor * ratios[i])
                                <= Total(ratios)
<1>1. PICK a \in Nat, s \in {-1, 1} : a = Abs(minor) /\ s = Sign(minor) /\ minor = s * a
  BY DEF Abs, Sign
<1>2. PICK rs \in [0 .. n -> Int] :
        /\ rs[0] = 0 /\ \A i \in 1 .. n : rs[i] = rs[i - 1] + ratios[i]
        /\ Total(ratios) = rs[n]
  <2>1. n \in Nat /\ ratios \in [1 .. n -> Int] OBVIOUS
  <2>2. QED BY <2>1, TotalIsLastPartialSum
<1>3. \A k \in Nat : k <= n => rs[k] >= 0
  <2> DEFINE S == {k \in Nat : k <= n => rs[k] >= 0}
  <2>1. 0 \in S BY <1>2
  <2>2. ASSUME NEW k \in S PROVE k + 1 \in S
    <3> SUFFICES ASSUME k + 1 <= n PROVE rs[k + 1] >= 0 OBVIOUS
    <3>1. k + 1 \in 1 .. n /\ (k + 1) - 1 = k OBVIOUS
    <3>2. rs[k + 1] = rs[k] + ratios[k + 1] BY <1>2, <3>1
    <3>3. QED BY <3>1, <3>2
  <2>3. S = Nat
    <3> HIDE DEF S
    <3>1. S \in SUBSET Nat BY DEF S
    <3>2. QED BY <2>1, <2>2, <3>1, Induction
  <2>4. QED BY <2>3
<1>4. PICK total \in Nat : total = Total(ratios) /\ total = rs[n]
  <2>1. rs[n] \in Int /\ rs[n] >= 0 BY <1>3
  <2>2. QED BY <1>2, <2>1
<1>5. CASE total = 0
  <2> DEFINE f == [i \in 1 .. n |-> 0]
             h == [i \in 0 .. n |-> 0]
  <2>1. Allocate(minor, ratios) = f BY <1>4, <1>5 DEF Allocate
  <2>2. f \in [1 .. n -> Int] /\ h \in [0 .. n -> Int] /\ h[0] = 0 /\ h[n] = 0 OBVIOUS
  <2>3. \A i \in 1 .. n : h[i] = h[i - 1] + f[i] OBVIOUS
  <2>4. Total(f) = 0
    <3> HIDE DEF f, h
    <3>1. QED BY <2>2, <2>3, TotalByPartialSums
  <2>5. ASSUME NEW i \in 1 .. n PROVE ratios[i] = 0
    <3> DEFINE S == {k \in Nat : i <= k /\ k <= n => rs[k] >= ratios[i]}
    <3>1. 0 \in S OBVIOUS
    <3>2. ASSUME NEW k \in S PROVE k + 1 \in S
      <4> SUFFICES ASSUME i <= k + 1, k + 1 <= n PROVE rs[k + 1] >= ratios[i] OBVIOUS
      <4>1. k + 1 \in 1 .. n /\ (k + 1) - 1 = k /\ k \in 0 .. n OBVIOUS
      <4>2. rs[k + 1] = rs[k] + ratios[k + 1] /\ rs[k] >= 0 BY <1>2, <1>3, <4>1
      <4>3. QED BY <4>1, <4>2
    <3>3. S = Nat
      <4> HIDE DEF S
      <4>1. S \in SUBSET Nat BY DEF S
      <4>2. QED BY <3>1, <3>2, <4>1, Induction
    <3>4. n \in S BY <3>3
    <3>5. total >= ratios[i] /\ ratios[i] \in Nat BY <1>4, <3>4
    <3>6. QED BY <1>5, <3>5
  <2>6. ASSUME NEW i \in 1 .. n PROVE Abs(f[i] * total - minor * ratios[i]) <= total
    BY <1>5, <2>5 DEF Abs
  <2> HIDE DEF f
  <2>7. QED BY <1>4, <1>5, <2>1, <2>4, <2>6
<1>6. CASE total # 0
  <2>0. PICK share, rest : /\ share = [i \in 1 .. n |-> (a * ratios[i]) \div total]
                           /\ rest = [i \in 1 .. n |-> (a * ratios[i]) % total]
    OBVIOUS
  <2>1. ASSUME NEW i \in 1 .. n
        PROVE  /\ share[i] \in Nat /\ rest[i] \in 0 .. total - 1
               /\ a * ratios[i] = total * share[i] + rest[i]
    <3>1. PICK c \in Nat : c = a * ratios[i] OBVIOUS
    <3>2. /\ c \div total \in Int /\ c % total \in 0 .. total - 1 /\ c \div total >= 0
          /\ c = total * (c \div total) + (c % total)
      <4>1. total \in Nat \ {0} /\ c \in Int /\ c >= 0 BY <1>6
      <4>2. QED BY <4>1, Division
    <3>3. QED BY <2>0, <3>1, <3>2
  <2>2. share \in [1 .. n -> Int] BY <2>0, <2>1
  <2>3. PICK ss \in [0 .. n -> Int] :
          /\ ss[0] = 0 /\ \A i \in 1 .. n : ss[i] = ss[i - 1] + share[i]
          /\ Total(share) = ss[n]
    BY <2>2, TotalIsLastPartialSum
  <2> DEFINE Near(k) == total * ss[k] <= a * rs[k] /\ a * rs[k] <= total * (ss[k] + k)
             S == {k \in Nat : k <= n => Near(k)}
  <2>4. 0 \in S
    <3>1. total * 0 = 0 /\ a * 0 = 0 /\ total * (0 + 0) = 0 OBVIOUS
    <3>2. QED BY <1>2, <2>3, <3>1
  <2>5. ASSUME NEW k \in S PROVE k + 1 \in S
    <3> SUFFICES ASSUME k + 1 <= n PROVE Near(k + 1) OBVIOUS
    <3>1. k + 1 \in 1 .. n /\ (k + 1) - 1 = k /\ k \in 0 .. n /\ k + 1 \in 0 .. n OBVIOUS
    <3>2. PICK x \in Int, y \in Int, u \in Int, r \in Nat, m \in 0 .. total - 1 :
            /\ x = ss[k] /\ y = rs[k] /\ u = share[k + 1] /\ r = ratios[k + 1]
            /\ m = rest[k + 1]
      <4>1. PICK x \in Int, y \in Int, r \in Nat : x = ss[k] /\ y = rs[k] /\ r = ratios[k + 1]
        BY <3>1
      <4>2. PICK u \in Int, m \in 0 .. total - 1 : u = share[k + 1] /\ m = rest[k + 1]
        <5>1. k + 1 \in 1 .. n BY <3>1
        <5>2. share[k + 1] \in Nat /\ rest[k + 1] \in 0 .. total - 1 BY <2>1, <5>1, Zenon
        <5>3. share[k + 1] \in Int BY <2>2, <5>1
        <5>4. QED BY <5>2, <5>3, Zenon
      <4>3. QED BY <4>1, <4>2
    <3>3. ss[k + 1] = x + u /\ rs[k + 1] = y + r /\ a * r = total * u + m
      BY <1>2, <2>1, <2>3, <3>1, <3>2
    <3>4. total * x <= a * y /\ a * y <= total * (x + k) BY <3>1, <3>2
    <3>5. /\ total * (x + u) = total * x + total * u
          /\ a * (y + r) = a * y + a * r
          /\ total * (x + u + (k + 1)) = total * (x + k) + total * u + total
      OBVIOUS
    <3>6. total * (x + u) <= a * (y + r) /\ a * (y + r) <= total * (x + u + (k + 1))
      <4>1. PICK tx \in Int, tu \in Int, ay \in Int, ar \in Int, txk \in Int :
              /\ tx = total * x /\ tu = total * u /\ ay = a * y /\ ar = a * r
              /\ txk = total * (x + k)
        OBVIOUS
      <4>2. tx <= ay /\ ay <= txk /\ ar = tu + m BY <3>3, <3>4, <4>1
      <4>3. tx + tu <= ay + ar /\ ay + ar <= txk + tu + total BY <4>2
      <4>4. QED BY <3>5, <4>1, <4>3
    <3>7. QED BY <3>3, <3>6
  <2>6. Near(n)
    <3> HIDE DEF Near
    <3>1. S = Nat
      <4> HIDE DEF S
      <4>1. S \in SUBSET Nat BY DEF S
      <4>2. QED BY <2>4, <2>5, <4>1, Induction
    <3>2. QED BY <3>1
  <2>7. PICK left \in 0 .. n : left = a - Total(share)
    <3>1. PICK x \in Int : x = ss[n] OBVIOUS
    <3>2. total * x <= a * total /\ a * total <= total * (x + n) BY <1>4, <2>6, <3>1
    <3>3. total * (a - x) >= 0 /\ total * (a - x - n) <= 0 BY <3>2
    <3>4. a - x >= 0
      <4>1. a - x < 0 => total * (a - x) < 0 BY <1>6
      <4>2. QED BY <3>3, <4>1
    <3>5. a - x <= n
      <4>1. a - x - n > 0 => total * (a - x - n) > 0 BY <1>6
      <4>2. QED BY <3>3, <4>1
    <3>6. QED BY <2>3, <3>1, <3>4, <3>5
  <2> DEFINE f == [i \in 1 .. n |-> s * (share[i] + IF i <= left THEN 1 ELSE 0)]
             h == [i \in 0 .. n |-> s * (ss[i] + IF i <= left THEN i ELSE left)]
  <2>8. Allocate(minor, ratios) = f
    <3>1. [i \in DOMAIN ratios |-> (Abs(minor) * ratios[i]) \div Total(ratios)] = share
      BY <1>1, <1>4, <2>0
    <3>2. DOMAIN ratios = 1 .. n OBVIOUS
    <3>3. Allocate(minor, ratios) =
            [i \in DOMAIN ratios |->
               IF Total(ratios) = 0 THEN 0
               ELSE Sign(minor) *
                      ((Abs(minor) * ratios[i]) \div Total(ratios)
                         + IF i <= Abs(minor) - Total(share) THEN 1 ELSE 0)]
      BY <3>1, Zenon DEF Allocate
    <3>4. Allocate(minor, ratios) =
            [i \in 1 .. n |->
               IF total = 0 THEN 0
               ELSE s * ((a * ratios[i]) \div total + IF i <= left THEN 1 ELSE 0)]
      BY <1>1, <1>4, <2>7, <3>2, <3>3, Zenon
    <3>5. \A i \in 1 .. n : share[i] = (a * ratios[i]) \div total BY <2>0
    <3>6. QED BY <1>6, <3>4, <3>5, Zenon
  <2>9. f \in [1 .. n -> Int] /\ h \in [0 .. n -> Int]
    <3>1. \A i \in 1 .. n : share[i] \in Int BY <2>2
    <3>2. \A i \in 0 .. n : ss[i] \in Int BY <2>3
    <3>3. ASSUME NEW i \in 1 .. n PROVE f[i] \in Int
      <4>1. PICK e \in Int : e = IF i <= left THEN 1 ELSE 0 OBVIOUS
      <4>2. PICK x \in Int : x = share[i] BY <3>1
      <4>3. PICK m \in Int : m = x + e OBVIOUS
      <4>4. f[i] = s * m BY <4>1, <4>2, <4>3
      <4>5. QED BY <4>4
    <3>4. ASSUME NEW i \in 0 .. n PROVE h[i] \in Int
      <4>1. PICK e \in Int : e = IF i <= left THEN i ELSE left OBVIOUS
      <4>2. PICK m \in Int : m = ss[i] + e BY <3>2
      <4>3. h[i] = s * m BY <4>1, <4>2
      <4>4. QED BY <4>3
    <3>5. QED BY <3>3, <3>4
  <2>10. h[0] = 0 BY <2>3
  <2>11. ASSUME NEW i \in 1 .. n PROVE h[i] = h[i - 1] + f[i]
    <3>1. PICK x \in Int, u \in Int : x = ss[i - 1] /\ u = share[i] /\ ss[i] = x + u
      <4>1. i - 1 \in 0 .. n /\ ss[i - 1] \in Int /\ share[i] \in Int BY <2>2
      <4>2. QED BY <2>3, <4>1
    <3>2. PICK p \in Int, q \in Int, e \in Int :
            /\ p = IF i <= left THEN i ELSE left
            /\ q = IF i - 1 <= left THEN i - 1 ELSE left
            /\ e = IF i <= left THEN 1 ELSE 0
            /\ p = q + e
      OBVIOUS
    <3>3. h[i] = s * (x + u + p)
      <4>1. i \in 0 .. n /\ ss[i] = x + u BY <3>1
      <4>2. h[i] = s * (ss[i] + p) BY <3>2, <4>1
      <4>3. QED BY <4>1, <4>2
    <3>4. h[i - 1] = s * (x + q) BY <3>1, <3>2
    <3>5. f[i] = s * (u + e) BY <3>1, <3>2
    <3>6. s * (x + u + p) = s * (x + q) + s * (u + e)
      <4>1. PICK v \in Int, w \in Int : v = x + q /\ w = u + e OBVIOUS
      <4>2. x + u + p = v + w BY <3>2, <4>1
      <4>3. s * (v + w) = s * v + s * w OBVIOUS
      <4>4. QED BY <4>1, <4>2, <4>3
    <3> HIDE DEF f, h
    <3>7. QED BY <3>3, <3>4, <3>5, <3>6
  <2>12. h[n] = minor
    <3>1. PICK x \in Int : x = ss[n] OBVIOUS
    <3>2. left = a - x BY <2>3, <2>7, <3>1
    <3>3. h[n] = s * (x + left) BY <3>1
    <3>4. x + left = a BY <3>2
    <3>5. QED BY <1>1, <3>3, <3>4
  <2>13. ASSUME NEW i \in 1 .. n PROVE Abs(f[i] * total - minor * ratios[i]) <= total
    <3>1. PICK u \in Nat, r \in Nat, m \in 0 .. total - 1, e \in {0, 1} :
            u = share[i] /\ r = ratios[i] /\ m = rest[i] /\ e = IF i <= left THEN 1 ELSE 0
      BY <2>1
    <3>2. a * r = total * u + m BY <2>1, <3>1
    <3>3. f[i] = s * (u + e) BY <3>1
    <3>4. f[i] * total - minor * r = s * (e * total - m)
      <4>1. (s * (u + e)) * total - (s * a) * r = s * (total * u + e * total - a * r) OBVIOUS
      <4>2. total * u + e * total - a * r = e * total - m BY <3>2
      <4>3. QED BY <1>1, <3>3, <4>1, <4>2
    <3>5. Abs(s * (e * total - m)) <= total BY DEF Abs
    <3>6. QED BY <3>1, <3>4, <3>5
  <2> HIDE DEF f, h
  <2>14. Total(f) = minor BY <2>9, <2>10, <2>11, <2>12, TotalByPartialSums
  <2>15. QED BY <1>4, <1>6, <2>8, <2>13, <2>14
<1>7. QED BY <1>5, <1>6

--------------------------------------------------------------------------------
(* The provider call and its two hooks. *)

\* What is decided at each stage of the call; nobody has a result before it ends.
CallStages ==
  /\ detached => pc = "idle"
  /\ pc # "idle" => result = None
  /\ pc \in {"providing", "auditing"} => interrupts = 0 /\ event = None
  /\ pc = "auditing" => inner = "rate"
  /\ pc = "observing" =>
       /\ interrupts = 0 /\ event # "cancelled"
       /\ held \in Hooks!Outcomes \ {"interrupt"}
       /\ held # inner =>
            held = "hook_error" /\ inner = "rate" /\ auditMode = "fail_closed"
       /\ held = "rate" /\ auditMode = "fail_closed" => recorded
  /\ pc = "shielding" =>
       /\ held = "interrupt" /\ event = "cancelled"
       /\ inner # "interrupt" => interrupts > 0

HooksOK ==
  /\ Hooks!TypeOK
  /\ CallStages
  /\ Hooks!HooksAreTransparent /\ Hooks!NoRateWithoutAudit
  /\ Hooks!InterruptsLostByOpenObserver

LEMMA InitHooks == Hooks!Init => HooksOK
<1> USE InterruptsAssumption, NoneAssumption
    DEF InterruptsAssumption, NoneAssumption, Hooks!Init, Hooks!Outcomes
<1> SUFFICES ASSUME Hooks!Init PROVE HooksOK OBVIOUS
<1>1. recorded \in BOOLEAN /\ detached \in BOOLEAN /\ ~detached OBVIOUS
<1>2. Hooks!TypeOK BY <1>1 DEF Hooks!TypeOK, Hooks!Modes
<1>3. CallStages BY <1>1 DEF CallStages
<1>4. Hooks!HooksAreTransparent BY DEF Hooks!HooksAreTransparent
<1>5. Hooks!NoRateWithoutAudit /\ Hooks!InterruptsLostByOpenObserver
  BY DEF Hooks!NoRateWithoutAudit, Hooks!InterruptsLostByOpenObserver
<1>6. QED BY <1>2, <1>3, <1>4, <1>5 DEF HooksOK

\* A call begins.
LEMMA CallHooks == HooksOK /\ Hooks!Call => HooksOK'
<1> USE InterruptsAssumption, NoneAssumption
    DEF InterruptsAssumption, NoneAssumption, Hooks!Call, Hooks!config, Hooks!Outcomes
<1> SUFFICES ASSUME HooksOK, Hooks!Call PROVE HooksOK' OBVIOUS
<1>1. recorded' \in BOOLEAN /\ detached' \in BOOLEAN /\ ~detached'
  BY DEF HooksOK, Hooks!TypeOK
<1>2. Hooks!TypeOK' BY <1>1 DEF HooksOK, Hooks!TypeOK
<1>3. CallStages' BY <1>1 DEF CallStages
<1>4. Hooks!HooksAreTransparent' BY DEF Hooks!HooksAreTransparent
<1>5. Hooks!NoRateWithoutAudit' /\ Hooks!InterruptsLostByOpenObserver'
  BY DEF Hooks!NoRateWithoutAudit, Hooks!InterruptsLostByOpenObserver
<1>6. QED BY <1>2, <1>3, <1>4, <1>5 DEF HooksOK

\* The audited call ends, in the two ways the observed call goes on.
LEMMA ObservesHooks ==
  ASSUME HooksOK, pc \in {"providing", "auditing"}, NEW o \in Hooks!Outcomes,
         Hooks!Observes(o), UNCHANGED <<variant, auditMode, observeMode, detached>>,
         inner' \in Hooks!Outcomes, recorded' \in BOOLEAN, interrupts' \in 0 .. MaxInterrupts,
         o = "interrupt" => inner' = "interrupt" \/ interrupts' > 0,
         o # "interrupt" => interrupts' = 0,
         o \notin {inner', "interrupt"} =>
           o = "hook_error" /\ inner' = "rate" /\ auditMode = "fail_closed",
         o = "rate" /\ auditMode = "fail_closed" => recorded'
  PROVE  HooksOK'
<1> USE NoneAssumption DEF NoneAssumption, Hooks!Outcomes
<1>1. ~detached /\ result = None BY DEF HooksOK, CallStages
<1>2. CASE o # "interrupt"
  BY <1>1, <1>2
     DEF HooksOK, CallStages, Hooks!Observes, Hooks!TypeOK, Hooks!Modes,
         Hooks!HooksAreTransparent, Hooks!NoRateWithoutAudit,
         Hooks!InterruptsLostByOpenObserver
<1>3. CASE o = "interrupt" /\ variant = "async"
  BY <1>1, <1>3
     DEF HooksOK, CallStages, Hooks!Observes, Hooks!TypeOK, Hooks!Modes,
         Hooks!HooksAreTransparent, Hooks!NoRateWithoutAudit,
         Hooks!InterruptsLostByOpenObserver
<1>4. CASE o = "interrupt" /\ variant # "async"
  BY <1>1, <1>4
     DEF HooksOK, CallStages, Hooks!Observes, Hooks!Ends, Hooks!TypeOK, Hooks!Modes,
         Hooks!HooksAreTransparent, Hooks!NoRateWithoutAudit,
         Hooks!InterruptsLostByOpenObserver
<1>5. QED BY <1>2, <1>3, <1>4

\* The call or its observer goes on.
LEMMA ProceedHooks == HooksOK /\ Hooks!Proceed => HooksOK'
<1> USE InterruptsAssumption, NoneAssumption
    DEF InterruptsAssumption, NoneAssumption, Hooks!Outcomes, Hooks!config, Hooks!Interrupted
<1> SUFFICES ASSUME HooksOK, Hooks!Proceed PROVE HooksOK' OBVIOUS
<1>types. Hooks!TypeOK /\ CallStages BY DEF HooksOK
<1>1. CASE Hooks!ProviderReturns
  BY <1>1 DEF Hooks!ProviderReturns, HooksOK, CallStages, Hooks!TypeOK,
     Hooks!HooksAreTransparent, Hooks!NoRateWithoutAudit, Hooks!InterruptsLostByOpenObserver
<1>2. CASE Hooks!ProviderRaises
  <2>1. PICK o \in {"error", "interrupt"} : inner' = o BY <1>2 DEF Hooks!ProviderRaises
  <2>2. Hooks!Observes(o) BY <1>2, <2>1 DEF Hooks!ProviderRaises, Hooks!Observes, Hooks!Ends
  <2>3. QED
    BY <1>2, <1>types, <2>1, <2>2, ObservesHooks
       DEF Hooks!ProviderRaises, CallStages, Hooks!TypeOK
<1>3. CASE Hooks!SinkRecords \/ Hooks!SinkFails \/ Hooks!SinkInterrupted
  <2>1. CASE Hooks!SinkRecords
    BY <1>types, <2>1, ObservesHooks DEF Hooks!SinkRecords, CallStages, Hooks!TypeOK
  <2>2. CASE Hooks!SinkFails
    <3>1. PICK o \in {"hook_error", "rate"} :
            o = IF auditMode = "fail_closed" THEN "hook_error" ELSE "rate"
      OBVIOUS
    <3>2. Hooks!Observes(o) BY <2>2, <3>1 DEF Hooks!SinkFails, Hooks!Observes
    <3>3. QED
      BY <1>types, <2>2, <3>1, <3>2, ObservesHooks
         DEF Hooks!SinkFails, CallStages, Hooks!TypeOK
  <2>3. CASE Hooks!SinkInterrupted
    BY <1>types, <2>3, ObservesHooks DEF Hooks!SinkInterrupted, CallStages, Hooks!TypeOK
  <2>4. QED BY <1>3, <2>1, <2>2, <2>3
<1>4. CASE Hooks!ObserverReturns \/ Hooks!ObserverFails \/ Hooks!ObserverInterrupted
  BY <1>4 DEF Hooks!ObserverReturns, Hooks!ObserverFails, Hooks!ObserverInterrupted,
     Hooks!Ends, HooksOK, CallStages, Hooks!TypeOK, Hooks!Modes,
     Hooks!HooksAreTransparent, Hooks!NoRateWithoutAudit, Hooks!InterruptsLostByOpenObserver
<1>5. CASE Hooks!ShieldedObserverEnds \/ Hooks!CancelledAgain
  <2>1. /\ pc = "shielding" /\ pc' = "idle" /\ result' = "interrupt" /\ held' = held
        /\ UNCHANGED <<variant, auditMode, observeMode, inner, event, recorded>>
    BY <1>5, <1>types DEF Hooks!ShieldedObserverEnds, Hooks!CancelledAgain, Hooks!Ends,
       CallStages
  <2>2. detached' \in BOOLEAN
    BY <1>5, <1>types DEF Hooks!ShieldedObserverEnds, Hooks!CancelledAgain, Hooks!TypeOK
  <2>3. interrupts' \in 0 .. MaxInterrupts /\ interrupts' >= interrupts
    BY <1>5, <1>types DEF Hooks!ShieldedObserverEnds, Hooks!CancelledAgain, Hooks!TypeOK
  <2>4. inner # "interrupt" => interrupts' > 0
    BY <1>types, <2>1, <2>3 DEF CallStages, Hooks!TypeOK
  <2>5. Hooks!TypeOK' BY <1>types, <2>1, <2>2, <2>3 DEF CallStages, Hooks!TypeOK
  <2>6. CallStages' BY <2>1 DEF CallStages
  <2>7. QED
    BY <2>1, <2>4, <2>5, <2>6 DEF HooksOK, Hooks!HooksAreTransparent,
       Hooks!NoRateWithoutAudit, Hooks!InterruptsLostByOpenObserver
<1>6. CASE Hooks!DetachedObserverEnds
  BY <1>6 DEF Hooks!DetachedObserverEnds, HooksOK, CallStages, Hooks!TypeOK,
     Hooks!HooksAreTransparent, Hooks!NoRateWithoutAudit, Hooks!InterruptsLostByOpenObserver
<1>7. QED BY <1>1, <1>2, <1>3, <1>4, <1>5, <1>6 DEF Hooks!Proceed

\* Nothing happens to the call.
LEMMA SameHooks == HooksOK /\ UNCHANGED hooks => HooksOK'
BY DEF hooks, HooksOK, CallStages, Hooks!TypeOK, Hooks!HooksAreTransparent,
   Hooks!NoRateWithoutAudit, Hooks!InterruptsLostByOpenObserver

--------------------------------------------------------------------------------
(* The registry, the request and the result. *)

\* A code is registered with a definition of its own.
RegistryOK ==
  /\ currencies \in [Codes -> Definitions \cup {None}]
  /\ \A c \in Codes : Known(c) => currencies[c].code = c
  /\ frozen \in BOOLEAN
  /\ rounding \in RoundingModes

\* A request is the provider's, and while there is one there is no result.
RequestOK ==
  /\ pc # "idle" => request # None
  /\ request # None => request.money \in Money /\ request.target \in Definitions
                       /\ done = None

\* A result is what applying its rate to its source gives; the identity is one
\* of them.  A rate that came from the provider has passed the audit.
ResultOK ==
  done # None =>
    /\ done.source \in Money /\ done.source.currency.code = done.rate.base
    /\ done.target \in Money /\ done.target.currency.code = done.rate.quote
    /\ done.rate.value.num \in Nat \ {0} /\ done.rate.value.den \in Nat \ {0}
    /\ done.target = ApplyRate(done.source, done.target.currency, done.rate, rounding)
    /\ done.rate.base # done.rate.quote /\ auditMode = "fail_closed" => recorded

IInv == HooksOK /\ RegistryOK /\ RequestOK /\ ResultOK

\* The registry is changed by operations on single definitions and batches.
LEMMA RegistryChangesKeep == RegistryOK /\ RegistryChanges => RegistryOK'
<1> SUFFICES ASSUME RegistryOK, RegistryChanges PROVE RegistryOK' OBVIOUS
<1> USE DefinitionsAssumption, NoneAssumption DEF DefinitionsAssumption, NoneAssumption, Known
<1>1. ASSUME NEW d \in Definitions, NEW replace \in BOOLEAN, Register(d, replace)
      PROVE  RegistryOK'
  BY <1>1 DEF RegistryOK, Register
<1>2. ASSUME NEW batch \in Batches, NEW replace \in BOOLEAN, RegisterMany(batch, replace)
      PROVE  RegistryOK'
  <2>1. currencies' = Stored(batch) /\ UNCHANGED <<frozen, rounding>>
    BY <1>2 DEF RegisterMany
  <2>2. ASSUME NEW c \in Codes
        PROVE  /\ Stored(batch)[c] \in Definitions \cup {None}
               /\ Stored(batch)[c] # None => Stored(batch)[c].code = c
    <3> DEFINE of == {i \in DOMAIN batch : batch[i].code = c}
    <3>1. CASE of = {}
      <4>1. Stored(batch)[c] = currencies[c] BY <3>1 DEF Stored
      <4>2. QED BY <4>1 DEF RegistryOK
    <3>2. CASE of # {}
      <4>1. of \subseteq {1, 2} BY DEF Batches
      <4>2. \E i \in of : \A j \in of : j <= i BY <3>2, <4>1
      <4>3. PICK i \in of : Stored(batch)[c] = batch[i]
        <5> DEFINE i == CHOOSE i \in of : \A j \in of : j <= i
        <5>1. i \in of BY <4>2
        <5>2. Stored(batch)[c] = batch[i] BY <3>2 DEF Stored
        <5>3. QED BY <5>1, <5>2
      <4>4. batch[i] \in Definitions /\ batch[i].code = c BY DEF Batches
      <4>5. QED BY <4>3, <4>4
    <3>3. QED BY <3>1, <3>2
  <2>3. currencies' \in [Codes -> Definitions \cup {None}] BY <2>1, <2>2 DEF Stored
  <2>4. QED BY <2>1, <2>2, <2>3 DEF RegistryOK
<1>3. ASSUME NEW code \in Codes, Unregister(code) PROVE RegistryOK'
  BY <1>3 DEF RegistryOK, Unregister
<1>4. CASE Freeze BY <1>4 DEF RegistryOK, Freeze
<1>5. QED BY <1>1, <1>2, <1>3, <1>4 DEF RegistryChanges

\* Applying a rate to money gives money.
LEMMA ApplyRateIsMoney ==
  ASSUME NEW money \in Money, NEW target \in Definitions, NEW mode \in RoundingModes,
         NEW rate, rate.value.num \in Nat \ {0}, rate.value.den \in Nat \ {0}
  PROVE  /\ ApplyRate(money, target, rate, mode) \in Money
         /\ ApplyRate(money, target, rate, mode).currency = target
<1>1. PICK num \in Int :
        num = money.minor * rate.value.num * Factor(target)
  BY FactorProperties DEF Money
<1>2. PICK den \in Nat \ {0} : den = rate.value.den * Factor(money.currency)
  BY FactorProperties DEF Money
<1>3. Quantize(mode, num, den) \in Int BY QuantizeRounds
<1>4. ApplyRate(money, target, rate, mode) =
        [minor |-> Quantize(mode, num, den), currency |-> target]
  BY <1>1, <1>2 DEF ApplyRate
<1>5. QED BY <1>3, <1>4 DEF Money

\* The identity applies the rate 1.
LEMMA IdentityApplies ==
  ASSUME NEW money \in Money, NEW mode \in RoundingModes,
         NEW rate, rate.value = [num |-> 1, den |-> 1]
  PROVE  ApplyRate(money, money.currency, rate, mode) = money
<1>1. PICK f \in Nat \ {0} : f = Factor(money.currency) BY FactorProperties DEF Money
<1>2. PICK k \in Int : k = money.minor BY DEF Money
<1>3. ApplyRate(money, money.currency, rate, mode) =
        [minor |-> Quantize(mode, k * 1 * f, 1 * f), currency |-> money.currency]
  BY <1>1, <1>2 DEF ApplyRate
<1>4. k * 1 * f = k * f /\ 1 * f = f OBVIOUS
<1>5. Quantize(mode, k * f, f) = k BY WholeIsKept
<1>6. money = [minor |-> k, currency |-> money.currency] BY <1>2 DEF Money
<1>7. QED BY <1>3, <1>4, <1>5, <1>6

\* Money of an amount in major units.
LEMMA FromMajorIsMoney ==
  ASSUME NEW major \in Majors, NEW d \in Definitions, NEW mode \in RoundingModes
  PROVE  FromMajor(major, d, mode) \in Money
<1>1. PICK num \in Int : num = major.num * Factor(d)
  BY FactorProperties, RationalsAssumption DEF RationalsAssumption
<1>2. PICK den \in Nat \ {0} : den = major.den
  BY RationalsAssumption DEF RationalsAssumption
<1>3. FromMajor(major, d, mode) = [minor |-> Quantize(mode, num, den), currency |-> d]
  BY <1>1, <1>2 DEF FromMajor
<1>4. Quantize(mode, num, den) \in Int BY QuantizeRounds
<1>5. QED BY <1>3, <1>4 DEF Money

--------------------------------------------------------------------------------
(* The invariant. *)

\* Before the first call.
LEMMA InitInv == Init => IInv
<1> SUFFICES ASSUME Init PROVE IInv OBVIOUS
<1>1. HooksOK BY InitHooks DEF Init
<1>2. RegistryOK
  <2>1. ASSUME NEW c \in Codes
        PROVE  /\ currencies[c] \in Definitions \cup {None}
               /\ Known(c) => currencies[c].code = c
    <3>1. CASE \E d \in Defaults : d.code = c
      <4>1. currencies[c] = CHOOSE d \in Defaults : d.code = c BY <3>1 DEF Init
      <4>2. currencies[c] \in Defaults /\ currencies[c].code = c BY <3>1, <4>1
      <4>3. QED BY <4>2, DefinitionsAssumption DEF DefinitionsAssumption
    <3>2. CASE ~\E d \in Defaults : d.code = c BY <3>2 DEF Init, Known
    <3>3. QED BY <3>1, <3>2
  <2>2. QED BY <2>1 DEF Init, RegistryOK
<1>3. RequestOK /\ ResultOK BY DEF Init, RequestOK, ResultOK, Hooks!Init
<1>4. QED BY <1>1, <1>2, <1>3 DEF IInv

\* A change of the registry concerns no conversion.
LEMMA RegistryChangesInv == IInv /\ RegistryChanges => IInv'
<1> SUFFICES ASSUME IInv, RegistryChanges PROVE IInv' OBVIOUS
<1>1. UNCHANGED <<hooks, rounding, request, done>>
  BY DEF RegistryChanges, Register, RegisterMany, Unregister, Freeze
<1>2. HooksOK' BY <1>1, SameHooks DEF IInv
<1>3. RegistryOK' BY RegistryChangesKeep DEF IInv
<1>4. RequestOK' BY <1>1 DEF IInv, RequestOK, hooks
<1>5. ResultOK' BY <1>1 DEF IInv, ResultOK, hooks
<1>6. QED BY <1>2, <1>3, <1>4, <1>5 DEF IInv

\* A conversion begins, or needs no rate and is over.
LEMMA ConvertInv ==
  ASSUME IInv, NEW money \in Money, NEW to \in Codes \cup Definitions, Convert(money, to)
  PROVE  IInv'
<1> DEFINE target == IF to \in Codes THEN currencies[to] ELSE to
<1>1. target \in Definitions \cup {None} BY DEF IInv, RegistryOK
<1> HIDE DEF target
<1>2. request = None /\ UNCHANGED <<registry, rounding>> BY DEF Convert
<1>3. RegistryOK' BY <1>2 DEF IInv, RegistryOK, registry, Known
<1>4. CASE money.currency = target /\ done' = Identity(money) /\ UNCHANGED <<hooks, request>>
  <2>1. HooksOK' BY <1>4, SameHooks DEF IInv
  <2>2. RequestOK' BY <1>2, <1>4 DEF IInv, RequestOK, hooks
  <2>3. rounding \in RoundingModes BY DEF IInv, RegistryOK
  <2>4. PICK rate : rate = [base |-> money.currency.code, quote |-> money.currency.code,
                            value |-> [num |-> 1, den |-> 1]]
    OBVIOUS
  <2>5. done' = [source |-> money, target |-> money, rate |-> rate]
    BY <1>4, <2>4 DEF Identity
  <2>6. ApplyRate(money, money.currency, rate, rounding) = money
    BY <2>3, <2>4, IdentityApplies
  <2>7. ResultOK' BY <1>2, <2>4, <2>5, <2>6 DEF ResultOK
  <2>8. QED BY <1>3, <2>1, <2>2, <2>7 DEF IInv
<1>5. CASE /\ target # None
           /\ Hooks!Call
           /\ request' = [money |-> money, target |-> target]
           /\ done' = None
  <2>1. HooksOK' BY <1>5, CallHooks DEF IInv
  <2>2. request' \in Requests BY <1>1, <1>5 DEF Requests
  <2>3. RequestOK' BY <1>5, <2>2, NoneAssumption DEF RequestOK, Requests, NoneAssumption
  <2>4. ResultOK' BY <1>5 DEF ResultOK
  <2>5. QED BY <1>3, <2>1, <2>3, <2>4 DEF IInv
<1>6. QED BY <1>4, <1>5 DEF Convert, target

\* The provider call goes on: there is no result yet, or only the observer of
\* an earlier call ends.
LEMMA ProvideInv == IInv /\ Provide => IInv'
<1> SUFFICES ASSUME IInv, Provide PROVE IInv' OBVIOUS
<1>1. Hooks!Proceed /\ UNCHANGED <<currencies, frozen, rounding, request, done>>
  BY DEF Provide, registry
<1>2. HooksOK' BY <1>1, ProceedHooks DEF IInv
<1>3. RegistryOK' BY <1>1 DEF IInv, RegistryOK, Known
<1>4. CASE pc # "idle"
  <2>1. request # None /\ done = None BY <1>4 DEF IInv, RequestOK
  <2>2. RequestOK' BY <1>1, <2>1 DEF IInv, RequestOK
  <2>3. ResultOK' BY <1>1, <2>1 DEF ResultOK
  <2>4. QED BY <1>2, <1>3, <2>2, <2>3 DEF IInv
<1>5. CASE pc = "idle"
  <2>1. UNCHANGED <<pc, recorded, auditMode>>
    BY <1>1, <1>5 DEF Hooks!Proceed, Hooks!ProviderReturns, Hooks!ProviderRaises,
       Hooks!SinkRecords, Hooks!SinkFails, Hooks!SinkInterrupted, Hooks!ObserverReturns,
       Hooks!ObserverFails, Hooks!ObserverInterrupted, Hooks!ShieldedObserverEnds,
       Hooks!CancelledAgain, Hooks!DetachedObserverEnds, Hooks!config
  <2>2. RequestOK' BY <1>1, <2>1 DEF IInv, RequestOK
  <2>3. ResultOK' BY <1>1, <2>1 DEF IInv, ResultOK
  <2>4. QED BY <1>2, <1>3, <2>2, <2>3 DEF IInv
<1>6. QED BY <1>4, <1>5

\* A conversion ends: only an audited rate is applied.
LEMMA ConcludeInv == IInv /\ Conclude => IInv'
<1> SUFFICES ASSUME IInv, Conclude PROVE IInv' OBVIOUS
<1>1. request # None /\ request' = None /\ UNCHANGED <<hooks, registry, rounding>>
  BY DEF Conclude
<1>2. PICK money \in Money, target \in Definitions :
        money = request.money /\ target = request.target /\ done = None
  BY <1>1 DEF IInv, RequestOK
<1>3. HooksOK' BY <1>1, SameHooks DEF IInv
<1>4. RegistryOK' BY <1>1 DEF IInv, RegistryOK, registry, Known
<1>5. RequestOK' BY <1>1 DEF Conclude, RequestOK, hooks
<1>6. ResultOK'
  <2>1. CASE UNCHANGED done BY <1>2, <2>1 DEF ResultOK
  <2>2. ASSUME result = "rate", NEW value \in Values, done' = Result(money, target, value)
        PROVE  ResultOK'
    <3>1. value.num \in Nat \ {0} /\ value.den \in Nat \ {0}
      BY RationalsAssumption DEF RationalsAssumption
    <3>2. PICK rate : rate = [base |-> money.currency.code, quote |-> target.code,
                              value |-> value]
      OBVIOUS
    <3>3. PICK mode \in RoundingModes : mode = rounding BY DEF IInv, RegistryOK
    <3>4. PICK applied : applied = ApplyRate(money, target, rate, mode) OBVIOUS
    <3>5. applied \in Money /\ applied.currency = target
      BY <3>1, <3>2, <3>4, ApplyRateIsMoney
    <3>6. done' = [source |-> money, target |-> applied, rate |-> rate]
      BY <2>2, <3>2, <3>3, <3>4 DEF Result
    <3>7. auditMode = "fail_closed" => recorded
      BY <2>2 DEF IInv, HooksOK, Hooks!NoRateWithoutAudit
    <3>8. UNCHANGED <<auditMode, recorded, rounding>> BY <1>1 DEF hooks
    <3>9. QED BY <3>1, <3>2, <3>3, <3>4, <3>5, <3>6, <3>7, <3>8 DEF ResultOK
  <2>3. QED BY <1>2, <2>1, <2>2 DEF Conclude
<1>7. QED BY <1>3, <1>4, <1>5, <1>6 DEF IInv

\* Every step keeps the invariant.
LEMMA StepInv == IInv /\ [Next]_vars => IInv'
<1> SUFFICES ASSUME IInv, [Next]_vars PROVE IInv' OBVIOUS
<1>1. CASE RegistryChanges BY <1>1, RegistryChangesInv
<1>2. ASSUME NEW major \in Majors, NEW d \in Definitions, NEW to \in Codes \cup Definitions,
             Convert(FromMajor(major, d, rounding), to)
      PROVE  IInv'
  <2>1. PICK mode \in RoundingModes : mode = rounding BY DEF IInv, RegistryOK
  <2>2. PICK money \in Money : money = FromMajor(major, d, mode) BY FromMajorIsMoney
  <2>3. Convert(money, to) BY <1>2, <2>1, <2>2
  <2>4. QED BY <2>3, ConvertInv
<1>3. CASE Provide BY <1>3, ProvideInv
<1>4. CASE Conclude BY <1>4, ConcludeInv
<1>5. CASE UNCHANGED vars
  <2>1. HooksOK' BY <1>5, SameHooks DEF IInv, vars
  <2>2. RegistryOK' BY <1>5 DEF IInv, RegistryOK, vars, registry, Known
  <2>3. RequestOK' BY <1>5 DEF IInv, RequestOK, vars, hooks
  <2>4. ResultOK' BY <1>5 DEF IInv, ResultOK, vars, hooks
  <2>5. QED BY <2>1, <2>2, <2>3, <2>4 DEF IInv
<1>6. QED BY <1>1, <1>2, <1>3, <1>4, <1>5 DEF Next

\* The inductive invariant holds throughout.
LEMMA Invariance == Spec => []IInv
BY InitInv, StepInv, PTL DEF Spec

--------------------------------------------------------------------------------
(* The properties. *)

\* Registry, hooks, requests and results keep their types for any currency
\* definitions, amounts and rates.
THEOREM TypeCorrect == Spec => []TypeOK
<1>1. IInv => TypeOK
  BY DEF IInv, HooksOK, RegistryOK, RequestOK, ResultOK, TypeOK, Known
<1>2. QED BY <1>1, Invariance, PTL

\* However sink, observer and interrupts fall together, a conversion ends as its
\* provider did but for what the failure modes propagate, and a closed audit has
\* recorded the quote behind every converted amount (observability.py 18-19).
THEOREM HooksKeepModes == Spec => []HooksKeepTheirModes
<1>1. IInv => HooksKeepTheirModes
  BY DEF IInv, HooksOK, ResultOK, HooksKeepTheirModes
<1>2. QED BY <1>1, Invariance, PTL

\* A stored conversion replays to the same result at any later time, whatever
\* the registry went through, as soon as it has the definitions converted with.
THEOREM ResultsAlwaysReplay == Spec => []ResultsReplay
<1>1. IInv => ResultsReplay
  <2> SUFFICES ASSUME IInv, done # None,
                      Loaded(done.source) = done.source,
                      currencies[done.rate.quote] = done.target.currency
               PROVE  Replayed(done.source, done.rate) = done.target
    BY DEF ResultsReplay
  <2>1. done.source \in Money /\ done.source.currency.code = done.rate.base
    BY DEF IInv, ResultOK
  <2>2. done.target.currency \in Definitions BY DEF IInv, ResultOK, Money
  <2>3. done.source # None /\ Known(done.rate.quote)
    BY <2>1, <2>2, NoneAssumption DEF NoneAssumption, Known
  <2>4. Replayed(done.source, done.rate) =
          ApplyRate(done.source, done.target.currency, done.rate, rounding)
    BY <2>1, <2>3 DEF Replayed
  <2>5. QED BY <2>4 DEF IInv, ResultOK
<1>2. QED BY <1>1, Invariance, PTL

\* For any two exponents, cash increment, rate, rounding mode and amount of
\* either sign, the target is the amount the mode picks for the exact product:
\* no intermediate rounding can show (money.py 87).
THEOREM RoundedExactlyOnce == Spec => []RoundedOnce
<1>1. IInv => RoundedOnce
  <2> SUFFICES ASSUME IInv, done # None PROVE RoundedOnce BY DEF RoundedOnce
  <2>1. PICK mode \in RoundingModes : mode = rounding BY DEF IInv, RegistryOK
  <2>0. PICK rate : rate = done.rate OBVIOUS
  <2>2. PICK s \in Money, t \in Money : s = done.source /\ t = done.target
    BY DEF IInv, ResultOK
  <2>3. /\ rate.value.num \in Nat \ {0} /\ rate.value.den \in Nat \ {0}
        /\ t = ApplyRate(s, t.currency, rate, mode)
    BY <2>0, <2>1, <2>2 DEF IInv, ResultOK
  <2>4. PICK num \in Int : num = s.minor * rate.value.num * Factor(t.currency)
    BY <2>3, FactorProperties DEF Money
  <2>5. PICK den \in Nat \ {0} : den = rate.value.den * Factor(s.currency)
    BY <2>3, FactorProperties DEF Money
  <2>6. t.minor = Quantize(mode, num, den) BY <2>3, <2>4, <2>5 DEF ApplyRate
  <2>7. Rounds(mode, num, den, t.minor) BY <2>6, QuantizeRounds
  <2>8. PICK m \in Int, inc \in Nat \ {0} : m = t.minor /\ inc = t.currency.cash
    BY DefinitionsAssumption DEF DefinitionsAssumption, Money
  <2>9. PICK k \in Int : k = Quantize(mode, m, inc) BY QuantizeRounds
  <2>10. PICK cash \in Int : cash = k * inc OBVIOUS
  <2>11. cash % inc = 0 /\ cash \div inc = k BY <2>10, MultipleDivides
  <2>12. Rounds(mode, m, inc, cash \div inc) BY <2>9, <2>11, QuantizeRounds
  <2>13. CashRound(t, mode).minor = cash
    BY <2>8, <2>9, <2>10 DEF CashRound, RoundToIncrement, Money
  <2>14. QED
    BY <2>0, <2>1, <2>2, <2>4, <2>5, <2>7, <2>8, <2>11, <2>12, <2>13 DEF RoundedOnce
<1>2. QED BY <1>1, Invariance, PTL

\* For any number of parts and any ratios, positive or zero, the parts of a
\* converted amount of either sign sum up to it, differ by a unit at most, and
\* each allocation is within a unit of its exact share (money.py 196, 212).
THEOREM SharesAlwaysConserve == Spec => []SharesConserveUnits
<1>1. IInv => SharesConserveUnits
  <2> SUFFICES ASSUME IInv, done # None PROVE SharesConserveUnits BY DEF SharesConserveUnits
  <2>1. PICK minor \in Int : minor = done.target.minor BY DEF IInv, ResultOK, Money
  <2>2. ASSUME NEW parts \in 1 .. 3
        PROVE  /\ Total(Split(minor, parts)) = minor
               /\ \A i, j \in 1 .. parts :
                    Abs(Split(minor, parts)[i] - Split(minor, parts)[j]) <= 1
    BY SplitConserves
  <2>3. ASSUME NEW ratios \in Ratios
        PROVE  /\ Total(Allocate(minor, ratios)) = IF Total(ratios) = 0 THEN 0 ELSE minor
               /\ \A i \in DOMAIN ratios :
                    Abs(Allocate(minor, ratios)[i] * Total(ratios) - minor * ratios[i])
                      <= Total(ratios)
    <3>1. PICK n \in Nat \ {0} : n = Len(ratios) /\ ratios \in [1 .. n -> Nat]
      BY RatiosAssumption DEF RatiosAssumption
    <3>2. DOMAIN ratios = 1 .. n BY <3>1
    <3>3. QED BY <3>1, <3>2, AllocateConserves
  <2>4. QED BY <2>1, <2>2, <2>3 DEF SharesConserveUnits
<1>2. QED BY <1>1, Invariance, PTL

\* A batch of new definitions is registered as a whole or not at all, and a
\* frozen registry never changes again (registry.py 87).
THEOREM BatchesKept == Spec => BatchesAreKept
<1> DEFINE Whole(batch) ==
      \A i \in DOMAIN batch : /\ currencies[batch[i].code] = None
                              /\ currencies'[batch[i].code] = batch[i]
           Kept ==
      /\ frozen => UNCHANGED registry
      /\ \A batch \in Batches : RegisterMany(batch, FALSE) => Whole(batch)
<1>1. IInv /\ [Next]_vars => [Kept]_vars
  <2> SUFFICES ASSUME IInv, Next PROVE Kept OBVIOUS
  <2>1. frozen => UNCHANGED registry
    BY DEF Next, RegistryChanges, Register, RegisterMany, Unregister, Freeze, Convert,
       Provide, Conclude, registry, IInv, RegistryOK
  <2>2. ASSUME NEW batch \in Batches, RegisterMany(batch, FALSE), NEW i \in DOMAIN batch
        PROVE  /\ currencies[batch[i].code] = None
               /\ currencies'[batch[i].code] = batch[i]
    <3> DEFINE of == {j \in DOMAIN batch : batch[j].code = batch[i].code}
    <3>1. /\ \A j \in DOMAIN batch : ~Known(batch[j].code)
          /\ \A j \in DOMAIN batch : \A k \in 1 .. j - 1 : batch[k].code # batch[j].code
          /\ currencies' = Stored(batch)
      BY <2>2 DEF RegisterMany
    <3>2. DOMAIN batch = {1, 2} /\ batch[i] \in Definitions BY DEF Batches
    <3>3. of = {i} BY <3>1, <3>2
    <3>4. (CHOOSE j \in of : \A k \in of : k <= j) = i BY <3>2, <3>3
    <3>5. batch[i].code \in Codes
      BY <3>2, DefinitionsAssumption DEF DefinitionsAssumption
    <3>6. Stored(batch)[batch[i].code] = batch[i] BY <3>3, <3>4, <3>5 DEF Stored
    <3>7. QED BY <3>1, <3>6 DEF Known
  <2>3. QED BY <2>1, <2>2
<1>2. QED BY <1>1, Invariance, PTL DEF Spec, BatchesAreKept

================================================================================
