---------------------------------- MODULE Sums ----------------------------------
(* Lemmas about two operators that no prover looks into.  The sum of a function   *)
(* over a finite set is a fold: of naturals, it is the number of its cells, f[x]  *)
(* of them for each x, so that what is known of cardinalities is known of sums.   *)
(* Sorting a finite set by a strict order is told by places: that of an element   *)
(* is one more than the number of elements before it.                             *)
EXTENDS Integers, FiniteSets, FiniteSetsExt, Functions, FiniteSetTheorems,
        WellFoundedInduction, TLAPS

Cells(f, S) == {p \in S \X Nat : p[2] < f[p[1]]}
Picked(s)   == CHOOSE x \in s : TRUE
IsSum(g, f, S) ==
    g = [s \in SUBSET S |-> IF s = {} THEN 0 ELSE f[Picked(s)] + g[s \ {Picked(s)}]]
Summable(f, S) == IsFiniteSet(S) /\ \A x \in S : f[x] \in Nat

\* The number of cells of one element.
LEMMA CellsOfOne ==
    ASSUME NEW f, NEW x, f[x] \in Nat
    PROVE  IsFiniteSet(Cells(f, {x})) /\ Cardinality(Cells(f, {x})) = f[x]
<1>1. PICK n \in Nat : n = f[x]
  OBVIOUS
<1>. DEFINE N == 0..(n - 1)
            h == [i \in N |-> <<x, i>>]
<1>2. IsFiniteSet(N) /\ Cardinality(N) = n
  BY FS_Interval
<1>3. Cells(f, {x}) = {<<x, i>> : i \in N}
  <2>1. ASSUME NEW p \in Cells(f, {x}) PROVE p \in {<<x, i>> : i \in N}
    <3>1. p = <<x, p[2]>> /\ p[2] \in Nat /\ p[2] < n
      BY <2>1, <1>1 DEF Cells
    <3>. QED
      BY <3>1
  <2>2. ASSUME NEW i \in N PROVE <<x, i>> \in Cells(f, {x})
    BY <1>1 DEF Cells
  <2>. QED
    BY <2>1, <2>2
<1>4. h \in Bijection(N, Cells(f, {x}))
  BY <1>3 DEF Bijection, Injection, Surjection, IsInjective
<1>. QED
  BY <1>1, <1>2, <1>4, FS_Bijection DEF ExistsBijection

\* The cells of one more element come on top.
LEMMA CellsOfAdded ==
    ASSUME NEW f, NEW S, NEW x, x \notin S, f[x] \in Nat, IsFiniteSet(Cells(f, S))
    PROVE  /\ IsFiniteSet(Cells(f, S \cup {x}))
           /\ Cardinality(Cells(f, S \cup {x})) = f[x] + Cardinality(Cells(f, S))
<1>1. Cells(f, S \cup {x}) = Cells(f, S) \cup Cells(f, {x})
  BY DEF Cells
<1>2. Cells(f, S) \cap Cells(f, {x}) = {}
  BY DEF Cells
<1>3. IsFiniteSet(Cells(f, {x})) /\ Cardinality(Cells(f, {x})) = f[x]
  BY CellsOfOne
<1>4. Cardinality(Cells(f, S)) \in Nat
  BY FS_CardinalityType
<1>. DEFINE A == Cells(f, S)
            B == Cells(f, {x})
<1>5. IsFiniteSet(A) /\ IsFiniteSet(B) /\ A \cap B = {} /\ Cardinality(A) \in Nat
      /\ Cardinality(B) = f[x]
  BY <1>2, <1>3, <1>4
<1>. HIDE DEF A, B
<1>6. IsFiniteSet(A \cup B) /\ Cardinality(A \cup B) = Cardinality(A) + Cardinality(B) - 0
  <2>1. Cardinality(A \cap B) = 0
    BY <1>5, FS_EmptySet
  <2>. QED
    BY <1>5, <2>1, FS_Union
<1>7. IsFiniteSet(A \cup B) /\ Cardinality(A \cup B) = f[x] + Cardinality(A)
  BY <1>5, <1>6
<1>. QED
  BY <1>1, <1>7, Zenon DEF A, B

\* Finitely many naturals have finitely many cells.
LEMMA CellsAreFinite ==
    ASSUME NEW f, NEW S, Summable(f, S)
    PROVE  IsFiniteSet(Cells(f, S))
<1>. DEFINE g == [x \in S |-> Cells(f, {x})]
            R == {Cells(f, {x}) : x \in S}
<1>1. g \in Surjection(S, R)
  BY DEF Surjection
<1>2. IsFiniteSet(R)
  BY <1>1, FS_Surjection DEF Summable
<1>3. \A T \in R : IsFiniteSet(T)
  BY CellsOfOne DEF Summable
<1>4. Cells(f, S) = UNION R
  BY DEF Cells
<1>. QED
  BY <1>2, <1>3, <1>4, FS_UNION

\* Cells of a set without what is picked of it.
LEMMA CellsOfPicked ==
    ASSUME NEW f, NEW S, Summable(f, S), S # {}
    PROVE  Cardinality(Cells(f, S)) = f[Picked(S)] + Cardinality(Cells(f, S \ {Picked(S)}))
<1>1. PICK x : x = Picked(S)
  OBVIOUS
<1>2. x \in S
  BY <1>1 DEF Picked
<1>3. Summable(f, S \ {x})
  BY FS_RemoveElement DEF Summable
<1>4. IsFiniteSet(Cells(f, S \ {x}))
  BY <1>3, CellsAreFinite
<1>5. S = (S \ {x}) \cup {x} /\ x \notin S \ {x} /\ f[x] \in Nat
  BY <1>2 DEF Summable
<1>. QED
  BY <1>1, <1>4, <1>5, CellsOfAdded

\* There is a function that the recursion of the fold defines: the number of cells.
LEMMA CellsAreSum ==
    ASSUME NEW f, NEW S, Summable(f, S)
    PROVE  IsSum([s \in SUBSET S |-> Cardinality(Cells(f, s))], f, S)
<1>. DEFINE g == [s \in SUBSET S |-> Cardinality(Cells(f, s))]
<1>1. ASSUME NEW s \in SUBSET S
      PROVE  g[s] = IF s = {} THEN 0 ELSE f[Picked(s)] + g[s \ {Picked(s)}]
  <2>1. CASE s = {}
    <3>1. Cells(f, s) = {}
      BY <2>1 DEF Cells
    <3>. QED
      BY <2>1, <3>1, FS_EmptySet
  <2>2. CASE s # {}
    <3>1. Summable(f, s)
      BY FS_Subset DEF Summable
    <3>2. Cardinality(Cells(f, s)) = f[Picked(s)] + Cardinality(Cells(f, s \ {Picked(s)}))
      BY <3>1, <2>2, CellsOfPicked
    <3>3. s \ {Picked(s)} \in SUBSET S
      OBVIOUS
    <3>. QED
      BY <2>2, <3>2, <3>3
  <2>. QED
    BY <2>1, <2>2
<1>2. g = [s \in SUBSET S |-> IF s = {} THEN 0 ELSE f[Picked(s)] + g[s \ {Picked(s)}]]
  <2>. DEFINE r(s) == IF s = {} THEN 0 ELSE f[Picked(s)] + g[s \ {Picked(s)}]
  <2>1. \A s \in SUBSET S : g[s] = r(s)
    BY <1>1
  <2>2. g = [s \in SUBSET S |-> g[s]]
    OBVIOUS
  <2>. HIDE DEF g, r
  <2>3. g = [s \in SUBSET S |-> r(s)]
    BY <2>1, <2>2
  <2>. QED
    BY <2>3 DEF r
<1>. QED
  BY <1>2 DEF IsSum

\* A function the recursion defines counts the cells.  Of the sets for which it does not, one
\* would be smallest.
LEMMA SumIsUnique ==
    ASSUME NEW f, NEW S, Summable(f, S), NEW g, IsSum(g, f, S)
    PROVE  \A s \in SUBSET S : g[s] = Cardinality(Cells(f, s))
<1>. DEFINE Bad == {s \in SUBSET S : g[s] # Cardinality(Cells(f, s))}
            Sizes == {Cardinality(s) : s \in Bad}
<1>1. \A s \in SUBSET S : Summable(f, s) /\ Cardinality(s) \in Nat
  BY FS_Subset, FS_CardinalityType DEF Summable
<1>2. \A s \in SUBSET S : g[s] = IF s = {} THEN 0 ELSE f[Picked(s)] + g[s \ {Picked(s)}]
  BY DEF IsSum
<1>3. SUFFICES ASSUME Bad # {} PROVE FALSE
  OBVIOUS
<1>4. Sizes \subseteq Nat /\ Sizes # {}
  BY <1>1, <1>3
<1>5. PICK n \in Sizes : \A m \in Sizes : <<m, n>> \notin OpToRel(<, Nat)
  BY <1>4, NatLessThanWellFounded, WFMin
<1>6. PICK s \in Bad : n = Cardinality(s)
  OBVIOUS
<1>7. s # {}
  <2>1. SUFFICES ASSUME s = {} PROVE FALSE
    OBVIOUS
  <2>2. Cells(f, s) = {} /\ g[s] = 0
    BY <2>1, <1>2 DEF Cells
  <2>. QED
    BY <2>2, FS_EmptySet
<1>8. PICK x : x = Picked(s)
  OBVIOUS
<1>9. x \in s
  BY <1>7, <1>8 DEF Picked
<1>10. s \ {x} \in SUBSET S /\ Cardinality(s \ {x}) < n /\ Cardinality(s \ {x}) \in Nat /\ n \in Nat
  BY <1>1, <1>6, <1>9, FS_RemoveElement DEF Summable
<1>11. s \ {x} \notin Bad
  <2>1. SUFFICES ASSUME s \ {x} \in Bad PROVE FALSE
    OBVIOUS
  <2>2. Cardinality(s \ {x}) \in Sizes
    BY <2>1
  <2>3. <<Cardinality(s \ {x}), n>> \in OpToRel(<, Nat)
    BY <1>10 DEF OpToRel
  <2>. QED
    BY <1>5, <2>2, <2>3
<1>12. g[s] = f[x] + g[s \ {x}]
  BY <1>2, <1>7, <1>8
<1>13. Cardinality(Cells(f, s)) = f[x] + Cardinality(Cells(f, s \ {x}))
  BY <1>1, <1>7, <1>8, CellsOfPicked
<1>. QED
  BY <1>6, <1>10, <1>11, <1>12, <1>13

\* A sum is the number of its cells.
LEMMA SumIsCells ==
    ASSUME NEW f, NEW S, Summable(f, S)
    PROVE  SumFunctionOnSet(f, S) = Cardinality(Cells(f, S))
<1>. DEFINE it == CHOOSE g : IsSum(g, f, S)
<1>1. SumFunctionOnSet(f, S) = it[S]
  BY Zenon DEF SumFunctionOnSet, FoldFunctionOnSet, MapThenFoldSet, IsSum, Picked
<1>2. IsSum(it, f, S)
  BY CellsAreSum
<1>3. S \in SUBSET S
  OBVIOUS
<1>. HIDE DEF it
<1>. QED
  BY <1>1, <1>2, <1>3, SumIsUnique

-----------------------------------------------------------------------------
(* What is known of sums.                                                      *)

LEMMA SumType ==
    ASSUME NEW f, NEW S, IsFiniteSet(S), \A x \in S : f[x] \in Nat
    PROVE  SumFunctionOnSet(f, S) \in Nat
BY SumIsCells, CellsAreFinite, FS_CardinalityType DEF Summable

\* A sum over fewer elements, or of smaller values, is no larger.
LEMMA SumIsMonotone ==
    ASSUME NEW f, NEW S, IsFiniteSet(S), \A x \in S : f[x] \in Nat,
           NEW g, NEW T, T \subseteq S, \A x \in T : g[x] \in Nat /\ g[x] <= f[x]
    PROVE  SumFunctionOnSet(g, T) <= SumFunctionOnSet(f, S)
<1>1. Summable(f, S) /\ Summable(g, T)
  BY FS_Subset DEF Summable
<1>2. Cells(g, T) \subseteq Cells(f, S)
  <2>1. SUFFICES ASSUME NEW p \in Cells(g, T) PROVE p \in Cells(f, S)
    OBVIOUS
  <2>2. /\ p \in T \X Nat /\ p[2] < g[p[1]] /\ p[1] \in T /\ p[1] \in S /\ p[2] \in Nat
        /\ p \in S \X Nat
    BY DEF Cells
  <2>3. g[p[1]] \in Nat /\ f[p[1]] \in Nat /\ g[p[1]] <= f[p[1]]
    BY <2>2
  <2>. QED
    BY <2>2, <2>3 DEF Cells
<1>3. Cardinality(Cells(g, T)) <= Cardinality(Cells(f, S))
  BY <1>1, <1>2, CellsAreFinite, FS_Subset
<1>. QED
  BY <1>1, <1>3, SumIsCells

\* One more element adds its value.
LEMMA SumOfAdded ==
    ASSUME NEW f, NEW S, IsFiniteSet(S), \A x \in S : f[x] \in Nat,
           NEW x, x \notin S, f[x] \in Nat
    PROVE  SumFunctionOnSet(f, S \cup {x}) = f[x] + SumFunctionOnSet(f, S)
<1>1. Summable(f, S) /\ Summable(f, S \cup {x})
  BY FS_AddElement DEF Summable
<1>2. Cardinality(Cells(f, S \cup {x})) = f[x] + Cardinality(Cells(f, S))
  BY <1>1, CellsAreFinite, CellsOfAdded
<1>. QED
  BY <1>1, <1>2, SumIsCells

\* A sum of ones counts.
LEMMA SumOfOnes ==
    ASSUME NEW f, NEW S, IsFiniteSet(S), \A x \in S : f[x] = 1
    PROVE  SumFunctionOnSet(f, S) = Cardinality(S)
<1>1. Summable(f, S)
  BY DEF Summable
<1>. DEFINE h == [x \in S |-> <<x, 0>>]
<1>2. h \in Bijection(S, Cells(f, S))
  <2>1. \A x \in S : <<x, 0>> \in Cells(f, S)
    BY DEF Cells
  <2>2. \A p \in Cells(f, S) : p[1] \in S /\ p = <<p[1], 0>>
    BY DEF Cells
  <2>3. h \in Injection(S, Cells(f, S))
    BY <2>1 DEF Injection, IsInjective
  <2>4. h \in Surjection(S, Cells(f, S))
    BY <2>1, <2>2 DEF Surjection
  <2>. QED
    BY <2>3, <2>4 DEF Bijection
<1>3. Cardinality(Cells(f, S)) = Cardinality(S)
  BY <1>2, FS_Bijection DEF ExistsBijection
<1>. QED
  BY <1>1, <1>3, SumIsCells

LEMMA SumOfZeros ==
    ASSUME NEW f, NEW S, IsFiniteSet(S), \A x \in S : f[x] = 0
    PROVE  SumFunctionOnSet(f, S) = 0
<1>1. Summable(f, S) /\ Cells(f, S) = {}
  BY DEF Summable, Cells
<1>. QED
  BY <1>1, SumIsCells, FS_EmptySet

\* A sum one of whose values is one more.
Raised(g, f, S, x) == x \in S /\ \A y \in S : g[y] = IF y = x THEN f[x] + 1 ELSE f[y]

LEMMA SumOfRaised ==
    ASSUME NEW f, NEW S, IsFiniteSet(S), \A x \in S : f[x] \in Nat,
           NEW g, NEW x, Raised(g, f, S, x)
    PROVE  SumFunctionOnSet(g, S) = SumFunctionOnSet(f, S) + 1
<1>. PICK R : R = S \ {x}
  OBVIOUS
<1>1. IsFiniteSet(R) /\ x \notin R /\ S = R \cup {x} /\ R \subseteq S
  BY FS_RemoveElement DEF Raised
<1>2. \A y \in R : g[y] = f[y] /\ f[y] \in Nat /\ g[y] \in Nat
  BY <1>1 DEF Raised
<1>3. f[x] \in Nat /\ g[x] = f[x] + 1 /\ g[x] \in Nat
  BY DEF Raised
<1>. PICK s, t : s = SumFunctionOnSet(f, R) /\ t = SumFunctionOnSet(g, R)
  OBVIOUS
<1>4. s \in Nat /\ t \in Nat
  BY <1>1, <1>2, SumType
<1>5. s <= t
  <2>1. \A y \in R : g[y] \in Nat /\ f[y] \in Nat /\ f[y] <= g[y]
    BY <1>2
  <2>. QED
    BY <1>1, <2>1, SumIsMonotone
<1>6. t <= s
  <2>1. \A y \in R : g[y] \in Nat /\ f[y] \in Nat /\ f[y] >= g[y]
    BY <1>2
  <2>. QED
    BY <1>1, <2>1, SumIsMonotone
<1>7. SumFunctionOnSet(f, R \cup {x}) = f[x] + s
  BY <1>1, <1>2, <1>3, SumOfAdded
<1>8. SumFunctionOnSet(g, R \cup {x}) = g[x] + t
  BY <1>1, <1>2, <1>3, SumOfAdded
<1>9. SumFunctionOnSet(g, R \cup {x}) = SumFunctionOnSet(f, R \cup {x}) + 1
  BY <1>3, <1>4, <1>5, <1>6, <1>7, <1>8
<1>. QED
  BY <1>1, <1>9, Zenon

\* Values that move up by one, and may go beyond the set, sum up to no more than before.
LEMMA SumOfShifted ==
    ASSUME NEW f, NEW S, IsFiniteSet(S), \A x \in S : f[x] \in Nat,
           NEW g, NEW T, IsFiniteSet(T), T \subseteq Int, \A x \in T : g[x] \in Nat,
           \A x \in T : g[x] = 0 \/ (x - 1 \in S /\ g[x] <= f[x - 1])
    PROVE  SumFunctionOnSet(g, T) <= SumFunctionOnSet(f, S)
<1>1. Summable(f, S) /\ Summable(g, T)
  BY DEF Summable
<1>. DEFINE h == [p \in Cells(g, T) |-> <<p[1] - 1, p[2]>>]
<1>2. \A p \in Cells(g, T) : /\ p[1] \in Int /\ p[2] \in Nat /\ p = <<p[1], p[2]>>
                             /\ <<p[1] - 1, p[2]>> \in Cells(f, S)
  <2>1. SUFFICES ASSUME NEW p \in Cells(g, T)
                 PROVE  /\ p[1] \in Int /\ p[2] \in Nat /\ p = <<p[1], p[2]>>
                        /\ <<p[1] - 1, p[2]>> \in Cells(f, S)
    OBVIOUS
  <2>2. p[1] \in T /\ p[2] \in Nat /\ p[2] < g[p[1]] /\ p = <<p[1], p[2]>>
    BY DEF Cells
  <2>3. PICK x, i : x = p[1] /\ i = p[2]
    OBVIOUS
  <2>4. x \in Int /\ i \in Nat /\ g[x] \in Nat /\ i < g[x]
    BY <2>2, <2>3
  <2>5. x - 1 \in S /\ f[x - 1] \in Nat /\ g[x] <= f[x - 1]
    BY <2>2, <2>3, <2>4
  <2>6. <<x - 1, i>> \in S \X Nat /\ i < f[x - 1]
    BY <2>4, <2>5
  <2>7. <<x - 1, i>> \in Cells(f, S)
    BY <2>6 DEF Cells
  <2>. QED
    BY <2>2, <2>3, <2>4, <2>7
<1>3. h \in Injection(Cells(g, T), Cells(f, S))
  <2>1. h \in [Cells(g, T) -> Cells(f, S)]
    BY <1>2
  <2>2. ASSUME NEW p \in Cells(g, T), NEW q \in Cells(g, T), h[p] = h[q] PROVE p = q
    <3>1. p[1] - 1 = q[1] - 1 /\ p[2] = q[2]
      BY <2>2
    <3>2. p[1] \in Int /\ q[1] \in Int /\ p = <<p[1], p[2]>> /\ q = <<q[1], q[2]>>
      BY <1>2
    <3>3. p[1] = q[1]
      BY <3>1, <3>2
    <3>. QED
      BY <3>1, <3>2, <3>3, Zenon
  <2>. QED
    BY <2>1, <2>2 DEF Injection, IsInjective
<1>4. Cardinality(Cells(g, T)) <= Cardinality(Cells(f, S))
  BY <1>1, <1>3, CellsAreFinite, FS_Injection
<1>. QED
  BY <1>1, <1>4, SumIsCells

-----------------------------------------------------------------------------
(* The least and the greatest of a set.                                        *)

LEMMA MinOfNat ==
    ASSUME NEW S, S \subseteq Nat, S # {}
    PROVE  Min(S) \in S /\ \A x \in S : Min(S) <= x
<1>1. PICK x \in S : \A y \in S : <<y, x>> \notin OpToRel(<, Nat)
  BY NatLessThanWellFounded, WFMin
<1>2. \A y \in S : x <= y
  <2>1. SUFFICES ASSUME NEW y \in S, ~(x <= y) PROVE FALSE
    OBVIOUS
  <2>2. <<y, x>> \in {ss \in Nat \X Nat : ss[1] < ss[2]}
    BY <2>1
  <2>. QED
    BY <1>1, <2>2 DEF OpToRel
<1>. QED
  BY <1>2 DEF Min

\* A finite set of naturals has a greatest one.
LEMMA MaxOfNat ==
    ASSUME NEW S, IsFiniteSet(S), S \subseteq Nat, S # {}
    PROVE  Max(S) \in S /\ \A x \in S : x <= Max(S)
<1>. DEFINE Above(x) == {y \in S : y > x}
            Sizes == {Cardinality(Above(x)) : x \in S}
<1>1. \A x \in S : IsFiniteSet(Above(x)) /\ Cardinality(Above(x)) \in Nat
  BY FS_Subset, FS_CardinalityType
<1>2. PICK n \in Sizes : \A m \in Sizes : <<m, n>> \notin OpToRel(<, Nat)
  <2>1. Sizes \subseteq Nat /\ Sizes # {}
    BY <1>1
  <2>. QED
    BY <2>1, NatLessThanWellFounded, WFMin
<1>3. PICK x \in S : n = Cardinality(Above(x))
  OBVIOUS
<1>4. \A y \in S : y <= x
  <2>1. SUFFICES ASSUME NEW y \in S, ~(y <= x) PROVE FALSE
    OBVIOUS
  <2>2. Above(y) \subseteq Above(x) /\ y \in Above(x) /\ y \notin Above(y)
    <3>1. x \in Nat /\ y \in Nat /\ y > x
      BY <2>1
    <3>2. \A z \in S : z > y => z > x
      BY <3>1
    <3>3. ~(y > y)
      BY <3>1
    <3>. QED
      BY <3>1, <3>2, <3>3, Zenon
  <2>3. Cardinality(Above(y)) <= Cardinality(Above(x))
    BY <1>1, <2>2, FS_Subset
  <2>4. Cardinality(Above(y)) # Cardinality(Above(x))
    BY <1>1, <2>2, FS_Subset
  <2>5. <<Cardinality(Above(y)), n>> \in OpToRel(<, Nat)
    BY <1>1, <1>3, <2>3, <2>4 DEF OpToRel
  <2>. QED
    BY <1>2, <2>5
<1>. QED
  BY <1>4 DEF Max

-----------------------------------------------------------------------------
(* The places of the members of a finite set in a strict total order.          *)

Orders(R, S) == /\ IsFiniteSet(S)
                /\ \A x \in S : <<x, x>> \notin R
                /\ \A x, y \in S : x # y => <<x, y>> \in R \/ <<y, x>> \in R
                /\ \A x, y, z \in S : <<x, y>> \in R /\ <<y, z>> \in R => <<x, z>> \in R
PlaceIn(R, S, x) == 1 + Cardinality({y \in S : <<y, x>> \in R})

\* Places go from 1 to the number of members, in their order.
LEMMA PlacesFollow ==
    ASSUME NEW R, NEW S, Orders(R, S)
    PROVE  /\ \A x \in S : PlaceIn(R, S, x) \in 1..Cardinality(S)
           /\ \A x, y \in S : <<x, y>> \in R <=> PlaceIn(R, S, x) < PlaceIn(R, S, y)
<1>. DEFINE Below(x) == {y \in S : <<y, x>> \in R}
<1>1. IsFiniteSet(S) /\ Cardinality(S) \in Nat
  BY FS_CardinalityType DEF Orders
<1>2. \A x \in S : IsFiniteSet(Below(x)) /\ Cardinality(Below(x)) \in Nat
  BY <1>1, FS_Subset, FS_CardinalityType
<1>3. \A x \in S : Cardinality(Below(x)) < Cardinality(S)
  <2>1. SUFFICES ASSUME NEW x \in S
                 PROVE  Cardinality(Below(x)) < Cardinality(S)
    OBVIOUS
  <2>2. x \notin Below(x) /\ Below(x) \in SUBSET S /\ Below(x) # S
    BY <2>1 DEF Orders
  <2>3. Cardinality(Below(x)) <= Cardinality(S) /\ Cardinality(S) # Cardinality(Below(x))
    BY <1>1, <2>2, FS_Subset
  <2>. QED
    BY <1>1, <1>2, <2>1, <2>3
<1>4. \A x, y \in S : <<x, y>> \in R => Cardinality(Below(x)) < Cardinality(Below(y))
  <2>1. SUFFICES ASSUME NEW x \in S, NEW y \in S, <<x, y>> \in R
                 PROVE  Cardinality(Below(x)) < Cardinality(Below(y))
    OBVIOUS
  <2>2. Below(x) \in SUBSET Below(y) /\ x \in Below(y) /\ x \notin Below(x)
    BY <2>1 DEF Orders
  <2>3. Cardinality(Below(x)) <= Cardinality(Below(y)) /\ Cardinality(Below(y)) # Cardinality(Below(x))
    BY <1>2, <2>1, <2>2, FS_Subset
  <2>. QED
    BY <1>2, <2>1, <2>3
<1>5. \A x \in S : PlaceIn(R, S, x) = 1 + Cardinality(Below(x))
  BY DEF PlaceIn
<1>. HIDE DEF Below
<1>6. \A x \in S : PlaceIn(R, S, x) \in 1..Cardinality(S)
  BY <1>1, <1>2, <1>3, <1>5
<1>7. ASSUME NEW x \in S, NEW y \in S
      PROVE  <<x, y>> \in R <=> PlaceIn(R, S, x) < PlaceIn(R, S, y)
  <2>1. PICK a \in Nat, b \in Nat : a = Cardinality(Below(x)) /\ b = Cardinality(Below(y))
    BY <1>2, <1>7
  <2>2. PlaceIn(R, S, x) = 1 + a /\ PlaceIn(R, S, y) = 1 + b
    BY <1>5, <1>7, <2>1
  <2>3. <<x, y>> \in R => a < b
    BY <1>4, <1>7, <2>1
  <2>4. <<y, x>> \in R => b < a
    BY <1>4, <1>7, <2>1
  <2>5. x = y \/ <<x, y>> \in R \/ <<y, x>> \in R
    BY <1>7 DEF Orders
  <2>. QED
    BY <2>1, <2>2, <2>3, <2>4, <2>5
<1>. QED
  BY <1>6, <1>7

\* Every place is taken, and the first m of them by as many members.
LEMMA PlacesAreTaken ==
    ASSUME NEW R, NEW S, Orders(R, S)
    PROVE  /\ \A n \in 1..Cardinality(S) : \E x \in S : PlaceIn(R, S, x) = n
           /\ \A m \in 0..Cardinality(S) :
                 /\ IsFiniteSet({x \in S : PlaceIn(R, S, x) <= m})
                 /\ Cardinality({x \in S : PlaceIn(R, S, x) <= m}) = m
<1>. DEFINE place == [x \in S |-> PlaceIn(R, S, x)]
<1>1. PICK c \in Nat : c = Cardinality(S) /\ IsFiniteSet(S)
  BY FS_CardinalityType DEF Orders
<1>2. PICK C : C = 1..c
  OBVIOUS
<1>3. IsFiniteSet(C) /\ Cardinality(C) = c
  <2>1. c \in Int /\ 1 \in Int /\ (IF 1 > c THEN 0 ELSE c - 1 + 1) = c
    BY <1>1
  <2>. QED
    BY <1>2, <2>1, FS_Interval
<1>4. /\ \A x \in S : PlaceIn(R, S, x) \in C
      /\ \A x, y \in S : <<x, y>> \in R <=> PlaceIn(R, S, x) < PlaceIn(R, S, y)
  BY <1>1, <1>2, PlacesFollow
<1>5. \A x, y \in S : PlaceIn(R, S, x) = PlaceIn(R, S, y) => x = y
  <2>1. SUFFICES ASSUME NEW x \in S, NEW y \in S, PlaceIn(R, S, x) = PlaceIn(R, S, y), x # y
                 PROVE  FALSE
    OBVIOUS
  <2>2. PICK n \in Nat : n = PlaceIn(R, S, x) /\ n = PlaceIn(R, S, y)
    BY <1>1, <1>2, <1>4, <2>1
  <2>3. <<x, y>> \in R \/ <<y, x>> \in R
    BY <2>1 DEF Orders
  <2>. QED
    BY <1>4, <2>1, <2>2, <2>3
<1>6. place \in Injection(S, C)
  BY <1>4, <1>5 DEF Injection, IsInjective
<1>7. place \in Surjection(S, C)
  BY <1>1, <1>3, <1>6, FS_Injection
<1>8. ASSUME NEW n \in C
      PROVE  \E x \in S : PlaceIn(R, S, x) = n
  BY <1>7, <1>8 DEF Surjection
<1>9. ASSUME NEW m \in 0..c
      PROVE  /\ IsFiniteSet({x \in S : PlaceIn(R, S, x) <= m})
             /\ Cardinality({x \in S : PlaceIn(R, S, x) <= m}) = m
  <2>1. PICK M, F : M = 1..m /\ F = {x \in S : PlaceIn(R, S, x) <= m}
    OBVIOUS
  <2>2. IsFiniteSet(M) /\ Cardinality(M) = m
    <3>1. m \in Int /\ 1 \in Int /\ (IF 1 > m THEN 0 ELSE m - 1 + 1) = m
      BY <1>9
    <3>. QED
      BY <2>1, <3>1, FS_Interval
  <2>3. IsFiniteSet(F)
    BY <1>1, <2>1, FS_Subset
  <2>. DEFINE first == [x \in F |-> PlaceIn(R, S, x)]
  <2>4. \A x \in F : PlaceIn(R, S, x) \in M
    BY <1>2, <1>4, <1>9, <2>1
  <2>5. \A n \in M : \E x \in F : PlaceIn(R, S, x) = n
    BY <1>1, <1>2, <1>8, <1>9, <2>1
  <2>6. \A x, y \in F : PlaceIn(R, S, x) = PlaceIn(R, S, y) => x = y
    BY <1>5, <2>1
  <2>7. first \in Bijection(F, M)
    BY <2>4, <2>5, <2>6 DEF Bijection, Injection, Surjection, IsInjective
  <2>8. Cardinality(M) = Cardinality(F)
    BY <2>3, <2>7, FS_Bijection DEF ExistsBijection
  <2>. QED
    BY <2>1, <2>2, <2>3, <2>8
<1>. QED
  BY <1>1, <1>2, <1>8, <1>9
==================================================================================
