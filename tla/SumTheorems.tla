----------------------------- MODULE SumTheorems -----------------------------
(* What SumOf computes, from the cardinality theorems of the library.        *)
EXTENDS Sums, Integers, FiniteSetTheorems, TLAPS

\* The units of S are the pairs of an element and one of its units.
LEMMA UnitsMember ==
  ASSUME NEW f, NEW S, NEW u
  PROVE  u \in Units(f, S) <=> \E x \in S : \E n \in 1 .. f[x] : u = <<x, n>>
BY DEF Units

\* One element has exactly f[x] units.
LEMMA UnitsOfOne ==
  ASSUME NEW f, NEW x, f[x] \in Nat
  PROVE  /\ Units(f, {x}) = {x} \X (1 .. f[x])
         /\ IsFiniteSet(Units(f, {x}))
         /\ Cardinality(Units(f, {x})) = f[x]
<1>1. Units(f, {x}) = {x} \X (1 .. f[x])
  BY DEF Units
<1>2. IsFiniteSet(1 .. f[x]) /\ Cardinality(1 .. f[x]) = f[x]
  <2>1. \A n \in Nat : IsFiniteSet(1 .. n) /\ Cardinality(1 .. n) = IF 1 > n THEN 0 ELSE n - 1 + 1
    BY FS_Interval
  <2>2. \A n \in Nat : (IF 1 > n THEN 0 ELSE n - 1 + 1) = n
    OBVIOUS
  <2> QED
    BY <2>1, <2>2
<1>3. IsFiniteSet({x}) /\ Cardinality({x}) = 1
  BY FS_Singleton
<1>4. /\ IsFiniteSet({x} \X (1 .. f[x]))
      /\ Cardinality({x} \X (1 .. f[x])) = 1 * f[x]
  BY <1>2, <1>3, FS_Product
<1>5. 1 * f[x] = f[x]
  OBVIOUS
<1> QED
  BY <1>1, <1>4, <1>5

\* A sum over a finite set is a natural number.
LEMMA SumFinite ==
  ASSUME NEW f, NEW S, IsFiniteSet(S), \A x \in S : f[x] \in Nat
  PROVE  IsFiniteSet(Units(f, S)) /\ SumOf(f, S) \in Nat
<1> DEFINE Parts == {{x} \X (1 .. f[x]) : x \in S}
<1>1. IsFiniteSet(Parts)
  <2> DEFINE part == [x \in S |-> {x} \X (1 .. f[x])]
  <2>1. part \in Surjection(S, Parts)
    BY DEF Surjection
  <2> QED
    BY <2>1, FS_Surjection
<1>2. ASSUME NEW T \in Parts
      PROVE  IsFiniteSet(T)
  <2>1. PICK x \in S : T = {x} \X (1 .. f[x])
    OBVIOUS
  <2>2. IsFiniteSet(Units(f, {x})) /\ Units(f, {x}) = T
    BY <2>1, UnitsOfOne DEF Units
  <2> QED
    BY <2>2
<1>3. IsFiniteSet(UNION Parts)
  BY <1>1, <1>2, FS_UNION
<1> QED
  BY <1>3, FS_CardinalityType DEF Units, SumOf

LEMMA SumEmpty ==
  ASSUME NEW f
  PROVE  SumOf(f, {}) = 0
<1>1. Units(f, {}) = {}
  BY DEF Units
<1> QED
  BY <1>1, FS_EmptySet DEF SumOf

\* Adding an element adds its value.
LEMMA SumAdd ==
  ASSUME NEW f, NEW S, NEW x, IsFiniteSet(S), x \notin S,
         \A y \in S \cup {x} : f[y] \in Nat
  PROVE  SumOf(f, S \cup {x}) = SumOf(f, S) + f[x]
<1>1. Units(f, S \cup {x}) = Units(f, S) \cup Units(f, {x})
  BY DEF Units
<1>2. Units(f, S) \cap Units(f, {x}) = {}
  BY UnitsMember
<1>3. IsFiniteSet(Units(f, S))
  BY SumFinite
<1>4. IsFiniteSet(Units(f, {x})) /\ Cardinality(Units(f, {x})) = f[x]
  BY UnitsOfOne
<1>5. Cardinality(Units(f, S) \cap Units(f, {x})) = 0
  BY <1>2, FS_EmptySet
<1>6. /\ Cardinality(Units(f, S)) \in Nat
  BY <1>3, FS_CardinalityType
<1>7. Cardinality(Units(f, S \cup {x})) = Cardinality(Units(f, S)) + f[x] - 0
  BY <1>1, <1>3, <1>4, <1>5, FS_Union
<1> QED
  BY <1>6, <1>7 DEF SumOf

\* Removing an element removes its value.
LEMMA SumRemove ==
  ASSUME NEW f, NEW S, NEW x \in S, IsFiniteSet(S),
         \A y \in S : f[y] \in Nat
  PROVE  /\ SumOf(f, S \ {x}) = SumOf(f, S) - f[x]
         /\ f[x] <= SumOf(f, S)
<1> DEFINE R == S \ {x}
<1>1. IsFiniteSet(R) /\ x \notin R /\ S = R \cup {x}
  BY FS_RemoveElement
<1>2. SumOf(f, R \cup {x}) = SumOf(f, R) + f[x]
  <2> HIDE DEF R
  <2> QED
    BY <1>1, SumAdd
<1>3. SumOf(f, R) \in Nat /\ f[x] \in Nat
  BY <1>1, SumFinite
<1>4. SumOf(f, S) = SumOf(f, R) + f[x]
  BY <1>1, <1>2
<1> HIDE DEF R
<1>5. SumOf(f, R) = SumOf(f, S) - f[x] /\ f[x] <= SumOf(f, S)
  BY <1>3, <1>4
<1> QED
  BY <1>5 DEF R

\* A sum grows with its set and with its summands.
LEMMA SumMonotone ==
  ASSUME NEW f, NEW g, NEW S, NEW T, IsFiniteSet(T), S \subseteq T,
         \A x \in T : f[x] \in Nat /\ g[x] \in Nat,
         \A x \in S : f[x] <= g[x]
  PROVE  SumOf(f, S) <= SumOf(g, T)
<1>1. Units(f, S) \subseteq Units(g, T)
  <2> SUFFICES ASSUME NEW u \in Units(f, S) PROVE u \in Units(g, T)
    OBVIOUS
  <2>0. PICK x \in S : \E n \in 1 .. f[x] : u = <<x, n>>
    BY UnitsMember
  <2>1. PICK n \in 1 .. f[x] : u = <<x, n>>
    BY <2>0
  <2>2. n \in 1 .. g[x]
    OBVIOUS
  <2> QED
    BY <2>1, <2>2, UnitsMember
<1>2. IsFiniteSet(Units(g, T))
  BY SumFinite
<1> QED
  BY <1>1, <1>2, FS_Subset DEF SumOf

\* Only the values on the set matter.
LEMMA SumSame ==
  ASSUME NEW f, NEW g, NEW S, \A x \in S : f[x] = g[x]
  PROVE  SumOf(f, S) = SumOf(g, S)
<1>1. Units(f, S) = Units(g, S)
  <2>1. ASSUME NEW u PROVE u \in Units(f, S) <=> u \in Units(g, S)
    BY UnitsMember
  <2> QED
    BY <2>1
<1> QED
  BY <1>1 DEF SumOf

\* Disjoint sets add up.
LEMMA SumUnion ==
  ASSUME NEW f, NEW S, NEW T, IsFiniteSet(S), IsFiniteSet(T), S \cap T = {},
         \A x \in S \cup T : f[x] \in Nat
  PROVE  SumOf(f, S \cup T) = SumOf(f, S) + SumOf(f, T)
<1>1. Units(f, S \cup T) = Units(f, S) \cup Units(f, T)
  BY DEF Units
<1>2. Units(f, S) \cap Units(f, T) = {}
  BY UnitsMember
<1>3. IsFiniteSet(Units(f, S)) /\ IsFiniteSet(Units(f, T))
  BY SumFinite
<1>4. Cardinality(Units(f, S) \cap Units(f, T)) = 0
  BY <1>2, FS_EmptySet
<1>5. Cardinality(Units(f, S)) \in Nat /\ Cardinality(Units(f, T)) \in Nat
  BY <1>3, FS_CardinalityType
<1>6. Cardinality(Units(f, S \cup T))
        = Cardinality(Units(f, S)) + Cardinality(Units(f, T)) - 0
  BY <1>1, <1>3, <1>4, FS_Union
<1> QED
  BY <1>5, <1>6 DEF SumOf

\* A sum does not depend on what its elements are called.
LEMMA SumRename ==
  ASSUME NEW f, NEW g, NEW S, NEW T, NEW b \in Bijection(S, T), IsFiniteSet(S),
         \A x \in S : f[x] \in Nat /\ g[b[x]] = f[x]
  PROVE  SumOf(g, T) = SumOf(f, S)
<1> DEFINE U == Units(f, S)
           V == Units(g, T)
           c == [u \in U |-> <<b[u[1]], u[2]>>]
<1>0. /\ b \in [S -> T]
      /\ \A x, y \in S : b[x] = b[y] => x = y
      /\ \A y \in T : \E x \in S : b[x] = y
  BY DEF Bijection, Injection, Surjection, IsInjective
<1>1. ASSUME NEW u \in U PROVE /\ u[1] \in S /\ u[2] \in 1 .. f[u[1]] /\ u = <<u[1], u[2]>>
                               /\ c[u] \in V
  <2>1. PICK x \in S : \E n \in 1 .. f[x] : u = <<x, n>>
    BY UnitsMember
  <2>2. PICK n \in 1 .. f[x] : u = <<x, n>>
    BY <2>1
  <2>3. c[u] = <<b[x], n>> /\ b[x] \in T /\ n \in 1 .. g[b[x]]
    BY <1>0, <2>2
  <2>4. c[u] \in V
    <3> HIDE DEF c
    <3> QED
      BY <2>3, UnitsMember
  <2> QED
    BY <2>2, <2>4
<1>2. ASSUME NEW v \in V PROVE \E u \in U : c[u] = v
  <2>1. PICK y \in T : \E n \in 1 .. g[y] : v = <<y, n>>
    BY UnitsMember
  <2>2. PICK n \in 1 .. g[y] : v = <<y, n>>
    BY <2>1
  <2>3. PICK x \in S : b[x] = y
    BY <1>0
  <2>4. n \in 1 .. f[x]
    BY <2>3
  <2>5. <<x, n>> \in U
    BY <2>4, UnitsMember
  <2> QED
    BY <2>2, <2>3, <2>5
<1>3. ASSUME NEW u \in U, NEW w \in U, c[u] = c[w] PROVE u = w
  <2>1. b[u[1]] = b[w[1]] /\ u[2] = w[2]
    BY <1>3
  <2>2. u[1] \in S /\ w[1] \in S /\ u = <<u[1], u[2]>> /\ w = <<w[1], w[2]>>
    BY <1>1
  <2> QED
    BY <1>0, <2>1, <2>2
<1>4. c \in Bijection(U, V)
  <2>1. c \in [U -> V]
    BY <1>1
  <2> HIDE DEF c, U, V
  <2> QED
    BY <1>2, <1>3, <2>1 DEF Bijection, Injection, Surjection, IsInjective
<1>5. IsFiniteSet(U)
  BY SumFinite
<1>6. ExistsBijection(U, V)
  <2> HIDE DEF c, U, V
  <2> QED
    BY <1>4 DEF ExistsBijection
<1> QED
  BY <1>5, <1>6, FS_Bijection DEF SumOf

-----------------------------------------------------------------------------
(* Induction.  A set with 0 that is closed under the successor has all of   *)
(* the naturals: one that lacks n would map its members up to n into those  *)
(* but 0, two of them to one.                                               *)
LEMMA NatStep ==
  ASSUME NEW T, 0 \in T, \A n \in Nat : n \in T => n + 1 \in T
  PROVE  \A n \in Nat : n \in T
<1> SUFFICES ASSUME NEW n \in Nat, n \notin T PROVE FALSE
  OBVIOUS
<1> DEFINE S == {k \in 0 .. n : k \in T}
           R == S \ {0}
           f == [k \in S |-> k + 1]
<1>1. IsFiniteSet(S)
  <2>1. IsFiniteSet(0 .. n)
    BY FS_Interval
  <2> QED
    BY <2>1, FS_Subset
<1>2. f \in [S -> R]
  <2>1. ASSUME NEW k \in S PROVE k + 1 \in R
    <3>1. k \in 0 .. n /\ k \in T /\ k # n
      OBVIOUS
    <3>2. k + 1 \in T /\ k + 1 \in 0 .. n /\ k + 1 # 0
      BY <3>1
    <3> QED
      BY <3>2
  <2> QED
    BY <2>1
<1>3. IsFiniteSet(R) /\ Cardinality(R) = Cardinality(S) - 1 /\ Cardinality(S) \in Nat
  <2>1. 0 \in S
    OBVIOUS
  <2> HIDE DEF S
  <2> QED
    BY <1>1, <2>1, FS_RemoveElement, FS_CardinalityType
<1>4. PICK x \in S, y \in S : x # y /\ f[x] = f[y]
  <2>1. Cardinality(R) < Cardinality(S)
    BY <1>3
  <2> HIDE DEF S, R, f
  <2> QED
    BY <1>1, <1>2, <1>3, <2>1, FS_PigeonHole
<1>5. x \in Int /\ y \in Int /\ f[x] = x + 1 /\ f[y] = y + 1
  OBVIOUS
<1> QED
  BY <1>4, <1>5

\* A set of naturals without a least has none up to any n.
LEMMA LeastOfNaturals ==
  ASSUME NEW S, S \subseteq Nat, S # {}
  PROVE  \E x \in S : \A y \in S : x <= y
<1> SUFFICES ASSUME \A x \in S : \E y \in S : ~(x <= y) PROVE FALSE
  OBVIOUS
<1> DEFINE T == {n \in Nat : \A m \in 0 .. n : m \notin S}
<1>1. 0 \in T
  <2>1. 0 \notin S
    OBVIOUS
  <2> QED
    BY <2>1
<1>2. ASSUME NEW n \in Nat, n \in T PROVE n + 1 \in T
  <2>1. ASSUME n + 1 \in S PROVE FALSE
    <3>1. PICK y \in S : ~(n + 1 <= y)
      BY <2>1
    <3>2. y \in 0 .. n
      BY <3>1
    <3> QED
      BY <1>2, <3>2
  <2>2. \A m \in 0 .. n + 1 : m \in 0 .. n \/ m = n + 1
    OBVIOUS
  <2> QED
    BY <1>2, <2>1, <2>2
<1>3. PICK x \in S : TRUE
  OBVIOUS
<1>4. x \in T
  <2> HIDE DEF T
  <2> QED
    BY <1>1, <1>2, <1>3, NatStep
<1>5. x \in 0 .. x
  BY <1>3
<1> QED
  BY <1>4, <1>5
=============================================================================
