-------------------------------- MODULE Sums --------------------------------
(***************************************************************************)
(* Facts about sums over finite sets, powers of two and largest elements   *)
(* that the proofs about Throttle, Intake and DedupLinks count with.       *)
(*                                                                         *)
(* SumFunction is a fold, defined by recursion over the subsets of its     *)
(* domain.  That the recursion has a solution is shown by giving one: the  *)
(* number of units, where an element x of weight f[x] has the units        *)
(* <<x, 1>> .. <<x, f[x]>>.  That it has no other is shown with a minimal  *)
(* set on which two solutions differ.                                      *)
(***************************************************************************)
EXTENDS Integers, Functions, FiniteSetTheorems, WellFoundedInduction, TLAPS

UnitsOf(f, x) == {x} \X (1 .. f[x])
Units(f, S) == UNION {UnitsOf(f, x) : x \in S}

LEMMA UnitsOfCount ==
  ASSUME NEW f, NEW x, f[x] \in Nat
  PROVE  IsFiniteSet(UnitsOf(f, x)) /\ Cardinality(UnitsOf(f, x)) = f[x]
<1> DEFINE n == f[x]
           A == {x}
           B == 1 .. n
<1>1. IsFiniteSet(A) /\ Cardinality(A) = 1
  BY FS_Singleton
<1>2. IsFiniteSet(B) /\ Cardinality(B) = n
  BY FS_Interval
<1>3. IsFiniteSet(A \X B) /\ Cardinality(A \X B) = Cardinality(A) * Cardinality(B)
  <2> HIDE DEF A, B
  <2> QED
    BY <1>1, <1>2, FS_Product
<1>4. UnitsOf(f, x) = A \X B
  BY DEF UnitsOf
<1> HIDE DEF A, B, n
<1>5. n \in Nat
  BY DEF n
<1>6. Cardinality(A \X B) = n
  BY <1>1, <1>2, <1>3, <1>5
<1> QED
  BY <1>3, <1>4, <1>6 DEF n

LEMMA UnitsFinite ==
  ASSUME NEW S, IsFiniteSet(S), NEW f, \A x \in S : f[x] \in Nat
  PROVE  IsFiniteSet(Units(f, S)) /\ Cardinality(Units(f, S)) \in Nat
<1> DEFINE g == [x \in S |-> UnitsOf(f, x)]
           T == {UnitsOf(f, x) : x \in S}
<1>1. g \in Surjection(S, T)
  BY DEF Surjection
<1>2. IsFiniteSet(T)
  <2> HIDE DEF g, T
  <2> QED
    BY <1>1, FS_Surjection
<1>3. \A t \in T : IsFiniteSet(t)
  BY UnitsOfCount
<1>4. IsFiniteSet(UNION T)
  <2> HIDE DEF T
  <2> QED
    BY <1>2, <1>3, FS_UNION
<1> QED
  BY <1>4, FS_CardinalityType DEF Units

LEMMA UnitsSplit ==
  ASSUME NEW S, IsFiniteSet(S), NEW f, \A y \in S : f[y] \in Nat, NEW x \in S
  PROVE  Cardinality(Units(f, S)) = f[x] + Cardinality(Units(f, S \ {x}))
<1> DEFINE A == UnitsOf(f, x)
           B == Units(f, S \ {x})
<1>1. IsFiniteSet(A) /\ Cardinality(A) = f[x]
  BY UnitsOfCount
<1>2. IsFiniteSet(S \ {x})
  BY FS_RemoveElement
<1>3. IsFiniteSet(B) /\ Cardinality(B) \in Nat
  BY <1>2, UnitsFinite
<1>4. Units(f, S) = A \cup B
  BY DEF Units
<1>5. A \cap B = {}
  BY DEF Units, UnitsOf
<1> HIDE DEF A, B
<1>6. Cardinality(A \cup B) = Cardinality(A) + Cardinality(B) - Cardinality(A \cap B)
  BY <1>1, <1>3, FS_Union
<1>7. Cardinality(A \cap B) = 0
  BY <1>5, FS_EmptySet
<1>8. f[x] \in Nat
  OBVIOUS
<1> QED
  BY <1>1, <1>3, <1>4, <1>6, <1>7, <1>8 DEF B

-----------------------------------------------------------------------------
\* The recursion of the fold, as an equation of a function on subsets.
Picked(s) == CHOOSE x \in s : TRUE
Summed(f, S, g) ==
  g = [s \in SUBSET S |-> IF s = {} THEN 0 ELSE f[Picked(s)] + g[s \ {Picked(s)}]]

LEMMA SumDefined ==
  ASSUME NEW f, NEW S
  PROVE  SumFunctionOnSet(f, S) = (CHOOSE g : Summed(f, S, g))[S]
BY DEF SumFunctionOnSet, FoldFunctionOnSet, MapThenFoldSet, Summed, Picked

LEMMA CountIsSummed ==
  ASSUME NEW S, IsFiniteSet(S), NEW f, \A y \in S : f[y] \in Nat
  PROVE  Summed(f, S, [s \in SUBSET S |-> Cardinality(Units(f, s))])
<1> DEFINE h == [s \in SUBSET S |-> Cardinality(Units(f, s))]
<1>1. ASSUME NEW s \in SUBSET S, s = {}
      PROVE  h[s] = 0
  <2>1. Units(f, s) = {}
    BY <1>1 DEF Units
  <2> QED
    BY <2>1, FS_EmptySet
<1>2. ASSUME NEW s \in SUBSET S, s # {}
      PROVE  h[s] = f[Picked(s)] + h[s \ {Picked(s)}]
  <2>1. Picked(s) \in s
    BY <1>2 DEF Picked
  <2>2. IsFiniteSet(s)
    BY FS_Subset
  <2>3. Cardinality(Units(f, s)) = f[Picked(s)] + Cardinality(Units(f, s \ {Picked(s)}))
    BY <2>1, <2>2, UnitsSplit
  <2> QED
    BY <2>3
<1> QED
  BY <1>1, <1>2 DEF Summed

LEMMA SummedOnce ==
  ASSUME NEW S, IsFiniteSet(S), NEW f, NEW g, NEW h, Summed(f, S, g), Summed(f, S, h)
  PROVE  g = h
<1> DEFINE Bad == {s \in SUBSET S : g[s] # h[s]}
<1>1. SUFFICES ASSUME Bad # {} PROVE FALSE
  <2>1. DOMAIN g = SUBSET S /\ DOMAIN h = SUBSET S
    BY DEF Summed
  <2>2. /\ g = [s \in SUBSET S |-> g[s]]
        /\ h = [s \in SUBSET S |-> h[s]]
    BY DEF Summed
  <2> QED
    BY <2>2
<1>2. IsWellFoundedOn(StrictSubsetOrdering(S), SUBSET S)
  BY FS_StrictSubsetOrderingWellFounded, FS_FiniteSubsetsOfFinite
<1>3. PICK s \in Bad : \A t \in Bad : <<t, s>> \notin StrictSubsetOrdering(S)
  <2> HIDE DEF Bad
  <2>1. Bad \subseteq SUBSET S
    BY DEF Bad
  <2> QED
    BY <1>1, <1>2, <2>1, WFMin
<1>4. s \in SUBSET S /\ g[s] # h[s]
  OBVIOUS
<1>5. s # {}
  BY <1>4 DEF Summed
<1>6. Picked(s) \in s
  BY <1>5 DEF Picked
<1> DEFINE t == s \ {Picked(s)}
<1>7. t \in SUBSET S /\ <<t, s>> \in StrictSubsetOrdering(S)
  BY <1>4, <1>6 DEF StrictSubsetOrdering
<1>8. g[t] = h[t]
  BY <1>3, <1>7
<1>9. g[s] = f[Picked(s)] + g[t] /\ h[s] = f[Picked(s)] + h[t]
  BY <1>4, <1>5 DEF Summed
<1> QED
  BY <1>4, <1>8, <1>9

LEMMA SumCounts ==
  ASSUME NEW S, IsFiniteSet(S), NEW f, \A y \in S : f[y] \in Nat
  PROVE  SumFunctionOnSet(f, S) = Cardinality(Units(f, S))
<1> DEFINE h == [s \in SUBSET S |-> Cardinality(Units(f, s))]
<1>1. Summed(f, S, h)
  BY CountIsSummed
<1>2. Summed(f, S, CHOOSE g : Summed(f, S, g))
  <2> HIDE DEF h
  <2> QED
    BY <1>1
<1>3. (CHOOSE g : Summed(f, S, g)) = h
  <2> HIDE DEF h
  <2> QED
    BY <1>1, <1>2, SummedOnce
<1>4. h[S] = Cardinality(Units(f, S))
  OBVIOUS
<1> QED
  BY <1>3, <1>4, SumDefined

-----------------------------------------------------------------------------
(* What a sum of natural numbers is, element by element and as a whole.     *)

LEMMA SumNat ==
  ASSUME NEW S, IsFiniteSet(S), NEW f, \A y \in S : f[y] \in Nat
  PROVE  SumFunctionOnSet(f, S) \in Nat
BY SumCounts, UnitsFinite

LEMMA SumSplit ==
  ASSUME NEW S, IsFiniteSet(S), NEW f, \A y \in S : f[y] \in Nat, NEW x \in S
  PROVE  SumFunctionOnSet(f, S) = f[x] + SumFunctionOnSet(f, S \ {x})
<1>1. IsFiniteSet(S \ {x})
  BY FS_RemoveElement
<1>2. SumFunctionOnSet(f, S \ {x}) = Cardinality(Units(f, S \ {x}))
  BY <1>1, SumCounts
<1> QED
  BY <1>2, SumCounts, UnitsSplit

\* Only the weights of the elements count.
LEMMA SumCongruent ==
  ASSUME NEW S, IsFiniteSet(S), NEW f, NEW g,
         \A y \in S : f[y] \in Nat /\ g[y] = f[y]
  PROVE  SumFunctionOnSet(g, S) = SumFunctionOnSet(f, S)
<1>1. Units(f, S) = Units(g, S)
  BY DEF Units, UnitsOf
<1>2. \A y \in S : g[y] \in Nat
  OBVIOUS
<1> QED
  BY <1>1, <1>2, SumCounts

LEMMA SumMonotone ==
  ASSUME NEW S, IsFiniteSet(S), NEW f, NEW g,
         \A y \in S : f[y] \in Nat /\ g[y] \in Nat /\ f[y] <= g[y]
  PROVE  SumFunctionOnSet(f, S) <= SumFunctionOnSet(g, S)
<1>1. Units(f, S) \subseteq Units(g, S)
  <2>1. ASSUME NEW x \in S
        PROVE  UnitsOf(f, x) \subseteq UnitsOf(g, x)
    BY DEF UnitsOf
  <2> QED
    BY <2>1 DEF Units
<1>2. IsFiniteSet(Units(g, S))
  BY UnitsFinite
<1>3. Cardinality(Units(f, S)) <= Cardinality(Units(g, S))
  BY <1>1, <1>2, FS_Subset
<1> QED
  BY <1>3, SumCounts

LEMMA SumPart ==
  ASSUME NEW S, IsFiniteSet(S), NEW f, \A y \in S : f[y] \in Nat, NEW T \in SUBSET S
  PROVE  SumFunctionOnSet(f, T) <= SumFunctionOnSet(f, S)
<1>1. Units(f, T) \subseteq Units(f, S) /\ IsFiniteSet(T)
  BY FS_Subset DEF Units
<1>2. IsFiniteSet(Units(f, S))
  BY UnitsFinite
<1>3. Cardinality(Units(f, T)) <= Cardinality(Units(f, S))
  BY <1>1, <1>2, FS_Subset
<1>4. SumFunctionOnSet(f, T) = Cardinality(Units(f, T))
  BY <1>1, SumCounts
<1> QED
  BY <1>3, <1>4, SumCounts

LEMMA SumConstant ==
  ASSUME NEW S, IsFiniteSet(S), NEW f, NEW n \in Nat, \A y \in S : f[y] = n
  PROVE  SumFunctionOnSet(f, S) = Cardinality(S) * n
<1> DEFINE B == 1 .. n
<1>1. Units(f, S) = S \X B
  BY DEF Units, UnitsOf
<1>2. IsFiniteSet(B) /\ Cardinality(B) = n
  BY FS_Interval
<1>3. Cardinality(S \X B) = Cardinality(S) * Cardinality(B)
  <2> HIDE DEF B
  <2> QED
    BY <1>2, FS_Product
<1>4. SumFunctionOnSet(f, S) = Cardinality(Units(f, S))
  BY SumCounts
<1> HIDE DEF B
<1> QED
  BY <1>1, <1>2, <1>3, <1>4

LEMMA SumBound ==
  ASSUME NEW S, IsFiniteSet(S), NEW f, NEW n \in Nat,
         \A y \in S : f[y] \in Nat /\ f[y] <= n
  PROVE  SumFunctionOnSet(f, S) <= Cardinality(S) * n
<1> DEFINE g == [y \in S |-> n]
<1>1. SumFunctionOnSet(f, S) <= SumFunctionOnSet(g, S)
  BY SumMonotone
<1>2. SumFunctionOnSet(g, S) = Cardinality(S) * n
  BY SumConstant
<1> QED
  BY <1>1, <1>2

\* One weight changes.
LEMMA SumUpdate ==
  ASSUME NEW S, IsFiniteSet(S), NEW f, NEW g, NEW x \in S,
         \A y \in S : f[y] \in Nat /\ g[y] \in Nat,
         \A y \in S \ {x} : g[y] = f[y]
  PROVE  SumFunctionOnSet(g, S) = SumFunctionOnSet(f, S) - f[x] + g[x]
<1> DEFINE rest == SumFunctionOnSet(f, S \ {x})
<1>1. IsFiniteSet(S \ {x})
  BY FS_RemoveElement
<1>2. SumFunctionOnSet(g, S \ {x}) = rest /\ rest \in Nat
  BY <1>1, SumCongruent, SumNat
<1>3. SumFunctionOnSet(f, S) = f[x] + rest
  BY SumSplit
<1>4. SumFunctionOnSet(g, S) = g[x] + SumFunctionOnSet(g, S \ {x})
  BY SumSplit
<1>5. f[x] \in Nat /\ g[x] \in Nat
  OBVIOUS
<1> HIDE DEF rest
<1> QED
  BY <1>2, <1>3, <1>4, <1>5

\* The sums of two weights: the units of the second are counted on from those
\* of the first.
LEMMA SumAdds ==
  ASSUME NEW S, IsFiniteSet(S), NEW f, NEW g, NEW h,
         \A y \in S : f[y] \in Nat /\ g[y] \in Nat /\ h[y] = f[y] + g[y]
  PROVE  SumFunctionOnSet(h, S) = SumFunctionOnSet(f, S) + SumFunctionOnSet(g, S)
<1> DEFINE Moved == {<<p[1], f[p[1]] + p[2]>> : p \in Units(g, S)}
           move == [p \in Units(g, S) |-> <<p[1], f[p[1]] + p[2]>>]
<1>1. \A p \in Units(g, S) : /\ p[1] \in S /\ p[2] \in Nat /\ p = <<p[1], p[2]>>
                             /\ 1 <= p[2] /\ p[2] <= g[p[1]]
  BY DEF Units, UnitsOf
<1>2. move \in Bijection(Units(g, S), Moved)
  <2>1. ASSUME NEW p \in Units(g, S), NEW q \in Units(g, S), move[p] = move[q]
        PROVE  p = q
    <3>1. p[1] = q[1] /\ f[p[1]] + p[2] = f[q[1]] + q[2]
      BY <2>1
    <3>2. f[p[1]] \in Nat /\ p[2] \in Nat /\ q[2] \in Nat
      BY <1>1
    <3>3. p[2] = q[2]
      BY <3>1, <3>2
    <3> QED
      BY <1>1, <3>1, <3>3
  <2> QED
    BY <2>1 DEF Bijection, Injection, IsInjective, Surjection
<1>3. IsFiniteSet(Units(g, S)) /\ IsFiniteSet(Units(f, S))
  BY UnitsFinite
<1>4. IsFiniteSet(Moved) /\ Cardinality(Moved) = Cardinality(Units(g, S))
  <2> HIDE DEF Moved, move
  <2> QED
    BY <1>2, <1>3, FS_Bijection DEF ExistsBijection
<1>5. \A p \in Units(f, S) : p[2] \in Nat /\ p[2] <= f[p[1]]
  BY DEF Units, UnitsOf
<1>6. Units(f, S) \cap Moved = {}
  BY <1>1, <1>5
<1>7. Units(h, S) = Units(f, S) \cup Moved
  <2>1. ASSUME NEW p \in Units(h, S)
        PROVE  p \in Units(f, S) \cup Moved
    <3>1. PICK x \in S : p \in UnitsOf(h, x)
      BY DEF Units
    <3>2. PICK i \in 1 .. f[x] + g[x] : p = <<x, i>>
      BY <3>1 DEF UnitsOf
    <3>3. CASE i <= f[x]
      BY <3>2, <3>3 DEF Units, UnitsOf
    <3>4. CASE i > f[x]
      <4>1. i - f[x] \in 1 .. g[x] /\ f[x] + (i - f[x]) = i
        BY <3>4
      <4>2. <<x, i - f[x]>> \in Units(g, S)
        BY <4>1 DEF Units, UnitsOf
      <4> QED
        BY <3>2, <4>1, <4>2
    <3> QED
      BY <3>3, <3>4
  <2>2. Units(f, S) \subseteq Units(h, S)
    <3>1. ASSUME NEW x \in S PROVE UnitsOf(f, x) \subseteq UnitsOf(h, x)
      BY DEF UnitsOf
    <3> QED
      BY <3>1 DEF Units
  <2>3. ASSUME NEW p \in Units(g, S)
        PROVE  <<p[1], f[p[1]] + p[2]>> \in Units(h, S)
    <3>1. p[1] \in S /\ f[p[1]] + p[2] \in 1 .. h[p[1]]
      BY <1>1
    <3> QED
      BY <3>1 DEF Units, UnitsOf
  <2> QED
    BY <2>1, <2>2, <2>3
<1>8. Cardinality(Units(h, S)) = Cardinality(Units(f, S)) + Cardinality(Units(g, S))
  <2> HIDE DEF Moved
  <2>1. Cardinality(Units(f, S) \cap Moved) = 0
    BY <1>6, FS_EmptySet
  <2>2. Cardinality(Units(f, S)) \in Nat /\ Cardinality(Units(g, S)) \in Nat
    BY UnitsFinite
  <2>3. Cardinality(Units(f, S) \cup Moved)
        = Cardinality(Units(f, S)) + Cardinality(Moved) - Cardinality(Units(f, S) \cap Moved)
    BY <1>3, <1>4, FS_Union
  <2> QED
    BY <1>4, <1>7, <2>1, <2>2, <2>3
<1>9. \A y \in S : h[y] \in Nat
  OBVIOUS
<1> QED
  BY <1>8, <1>9, SumCounts

-----------------------------------------------------------------------------
(* Powers of two count subsets.                                             *)

LEMMA PowerPositive ==
  ASSUME NEW n \in Nat
  PROVE  2 ^ n \in Nat \ {0}
<1> DEFINE S == 1 .. n
<1>1. IsFiniteSet(S) /\ Cardinality(S) = n
  BY FS_Interval
<1>2. IsFiniteSet(SUBSET S) /\ Cardinality(SUBSET S) = 2 ^ Cardinality(S)
  <2> HIDE DEF S
  <2> QED
    BY <1>1, FS_SUBSET
<1>3. {} \in SUBSET S
  OBVIOUS
<1>4. Cardinality(SUBSET S) \in Nat /\ Cardinality(SUBSET S) # 0
  <2> HIDE DEF S
  <2> QED
    BY <1>2, <1>3, FS_CardinalityType, FS_EmptySet
<1> HIDE DEF S
<1> QED
  BY <1>1, <1>2, <1>4

(* A bounded set of natural numbers has a largest element.                  *)

LEMMA LargestExists ==
  ASSUME NEW n \in Nat, NEW T \in SUBSET (0 .. n), T # {}
  PROVE  \E m \in T : \A k \in T : k <= m
<1> DEFINE R == OpToRel(<, Nat)
           D == {n - k : k \in T}
<1>1. D \subseteq Nat /\ D # {}
  <2>1. \A k \in T : n - k \in Nat
    OBVIOUS
  <2>2. PICK k \in T : TRUE
    OBVIOUS
  <2>3. n - k \in D
    OBVIOUS
  <2> QED
    BY <2>1, <2>3
<1>2. PICK d \in D : \A e \in D : <<e, d>> \notin R
  <2> HIDE DEF D
  <2> QED
    BY <1>1, NatLessThanWellFounded, WFMin
<1>3. PICK m \in T : d = n - m
  BY <1>2
<1>4. \A e \in D : ~(e < d)
  BY <1>1, <1>2 DEF OpToRel
<1>5. ASSUME NEW k \in T PROVE k <= m
  <2>1. ~(n - k < n - m)
    BY <1>3, <1>4, <1>5
  <2>2. k \in 0 .. n /\ m \in 0 .. n
    BY <1>3
  <2> QED
    BY <2>1, <2>2
<1> QED
  BY <1>3, <1>5
=============================================================================
