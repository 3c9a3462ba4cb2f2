----------------------------- MODULE TotalsProofs -----------------------------
(***************************************************************************)
(* Sums over finite sets, for any functions to the naturals.  A sum is the *)
(* cardinality of a set of units, so all of this follows from the theorems *)
(* about cardinalities.  The proofs of the market, the contracts and the   *)
(* reports extend this module.                                             *)
(***************************************************************************)
EXTENDS Totals, FiniteSetTheorems, WellFoundedInduction, TLAPS

------------------------------------------------------------------------------
(* Entries and units.                                                       *)

\* The units of one entry are counted by its value.
LEMMA ColumnCount ==
  ASSUME NEW x, NEW n \in Nat
  PROVE  /\ IsFiniteSet({x} \X (1 .. n))
         /\ Cardinality({x} \X (1 .. n)) = n
PROOF
  <1>1. IsFiniteSet({x}) /\ Cardinality({x}) = 1
    BY FS_Singleton
  <1>2. IsFiniteSet(1 .. n) /\ Cardinality(1 .. n) = n
    BY FS_Interval
  <1>3. /\ IsFiniteSet({x} \X (1 .. n))
        /\ Cardinality({x} \X (1 .. n)) = Cardinality({x}) * Cardinality(1 .. n)
    BY <1>1, <1>2, FS_Product
  <1>4. 1 * n = n
    OBVIOUS
  <1> QED BY <1>1, <1>2, <1>3, <1>4

\* A natural-valued function on a finite set stands for finitely many units,
\* so its sum is a natural number: the type of every running counter.
LEMMA TotalType ==
  ASSUME NEW S, IsFiniteSet(S), NEW f \in [S -> Nat]
  PROVE  IsFiniteSet(Units(f)) /\ Total(f) \in Nat
PROOF
  <1> DEFINE col == [x \in S |-> {x} \X (1 .. f[x])]
             cols == {{x} \X (1 .. f[x]) : x \in DOMAIN f}
  <1>1. col \in Surjection(S, cols)
    BY DEF Surjection
  <1>2. IsFiniteSet(cols)
    BY <1>1, FS_Surjection, Zenon
  <1>3. \A T \in cols : IsFiniteSet(T)
    <2> TAKE T \in cols
    <2>1. PICK x \in S : T = {x} \X (1 .. f[x])
      OBVIOUS
    <2>2. f[x] \in Nat
      OBVIOUS
    <2> QED BY <2>1, <2>2, ColumnCount
  <1>4. IsFiniteSet(Units(f))
    BY <1>2, <1>3, FS_UNION DEF Units
  <1> QED BY <1>4, FS_CardinalityType DEF Total

\* Setting one entry to zero takes exactly that entry off the sum.
LEMMA TotalRemove ==
  ASSUME NEW S, IsFiniteSet(S), NEW f \in [S -> Nat], NEW x \in S
  PROVE  Total(f) = Total([f EXCEPT ![x] = 0]) + f[x]
PROOF
  <1> DEFINE g == [f EXCEPT ![x] = 0]
             c == {x} \X (1 .. f[x])
  <1>1. g \in [S -> Nat]
    OBVIOUS
  <1>2. IsFiniteSet(Units(g)) /\ Total(g) \in Nat
    BY <1>1, TotalType
  <1>3. IsFiniteSet(c) /\ Cardinality(c) = f[x]
    BY ColumnCount
  <1>4. Units(f) = Units(g) \cup c
    <2>1. ASSUME NEW p \in Units(f) PROVE p \in Units(g) \cup c
      BY DEF Units
    <2>2. ASSUME NEW p \in Units(g) PROVE p \in Units(f)
      BY DEF Units
    <2>3. ASSUME NEW p \in c PROVE p \in Units(f)
      BY DEF Units
    <2> QED BY <2>1, <2>2, <2>3
  <1>5. Units(g) \cap c = {}
    BY DEF Units
  <1>6. Cardinality(Units(g) \cup c)
          = Cardinality(Units(g)) + Cardinality(c) - Cardinality(Units(g) \cap c)
    BY <1>2, <1>3, FS_Union
  <1>7. Cardinality(Units(g) \cap c) = 0
    BY <1>5, FS_EmptySet
  <1> QED BY <1>2, <1>3, <1>4, <1>6, <1>7 DEF Total

\* Changing one entry changes the sum by the difference: a placed bet, or a
\* settled stake.
LEMMA TotalUpdate ==
  ASSUME NEW S, IsFiniteSet(S), NEW f \in [S -> Nat], NEW x \in S, NEW v \in Nat
  PROVE  Total([f EXCEPT ![x] = v]) = Total(f) - f[x] + v
PROOF
  <1> DEFINE h == [f EXCEPT ![x] = v]
             z == [f EXCEPT ![x] = 0]
  <1>1. h \in [S -> Nat] /\ z \in [S -> Nat] /\ f[x] \in Nat
    OBVIOUS
  <1>2. [h EXCEPT ![x] = 0] = z
    OBVIOUS
  <1>3. h[x] = v
    OBVIOUS
  <1>4. Total(h) = Total(z) + v
    BY <1>1, <1>2, <1>3, TotalRemove
  <1>5. Total(f) = Total(z) + f[x]
    BY TotalRemove
  <1>6. Total(z) \in Nat
    BY <1>1, TotalType
  <1> QED BY <1>1, <1>4, <1>5, <1>6

\* The same for two functions that differ in one entry, however they are written.
LEMMA TotalDiffer ==
  ASSUME NEW S, IsFiniteSet(S), NEW f \in [S -> Nat], NEW g \in [S -> Nat],
         NEW x \in S, \A y \in S \ {x} : g[y] = f[y]
  PROVE  Total(g) = Total(f) - f[x] + g[x]
PROOF
  <1>1. g = [f EXCEPT ![x] = g[x]]
    OBVIOUS
  <1>2. g[x] \in Nat
    OBVIOUS
  <1>3. Total([f EXCEPT ![x] = g[x]]) = Total(f) - f[x] + g[x]
    BY <1>2, TotalUpdate
  <1> QED BY <1>1, <1>3

\* A function below another one has the smaller sum.
LEMMA TotalMonotone ==
  ASSUME NEW S, IsFiniteSet(S), NEW f \in [S -> Nat], NEW g \in [S -> Nat],
         \A x \in S : f[x] <= g[x]
  PROVE  Total(f) <= Total(g)
PROOF
  <1>1. Units(f) \subseteq Units(g)
    <2> SUFFICES ASSUME NEW p \in Units(f) PROVE p \in Units(g)
      OBVIOUS
    <2>1. PICK x \in S : p \in {x} \X (1 .. f[x])
      BY DEF Units
    <2>2. f[x] \in Nat /\ g[x] \in Nat /\ f[x] <= g[x]
      OBVIOUS
    <2>3. p \in {x} \X (1 .. g[x])
      BY <2>1, <2>2
    <2> QED BY <2>3 DEF Units
  <1>2. IsFiniteSet(Units(g))
    BY TotalType
  <1> QED BY <1>1, <1>2, FS_Subset DEF Total

\* Nothing staked, nothing owed.
LEMMA TotalZero ==
  ASSUME NEW S, NEW f \in [S -> Nat], \A x \in S : f[x] = 0
  PROVE  Total(f) = 0
PROOF
  <1>1. Units(f) = {}
    BY DEF Units
  <1> QED BY <1>1, FS_EmptySet DEF Total

\* One entry never exceeds the sum.
LEMMA EntryBelowTotal ==
  ASSUME NEW S, IsFiniteSet(S), NEW f \in [S -> Nat], NEW x \in S
  PROVE  f[x] <= Total(f)
PROOF
  <1>1. [f EXCEPT ![x] = 0] \in [S -> Nat] /\ f[x] \in Nat
    OBVIOUS
  <1>2. Total([f EXCEPT ![x] = 0]) \in Nat
    BY <1>1, TotalType
  <1>3. Total(f) = Total([f EXCEPT ![x] = 0]) + f[x]
    BY TotalRemove
  <1> QED BY <1>1, <1>2, <1>3

\* A new entry adds its value to the sum.
LEMMA TotalExtend ==
  ASSUME NEW S, IsFiniteSet(S), NEW x, x \notin S, NEW f \in [S \cup {x} -> Nat],
         NEW g \in [S -> Nat], \A y \in S : g[y] = f[y]
  PROVE  Total(f) = Total(g) + f[x]
PROOF
  <1> DEFINE c == {x} \X (1 .. f[x])
  <1>1. IsFiniteSet(c) /\ Cardinality(c) = f[x] /\ f[x] \in Nat
    BY ColumnCount
  <1>2. IsFiniteSet(Units(g)) /\ Total(g) \in Nat
    BY TotalType
  <1>3. \A p : p \in Units(f) <=> \E y \in S \cup {x} : p \in {y} \X (1 .. f[y])
    BY DEF Units
  <1>4. \A p : p \in Units(g) <=> \E y \in S : p \in {y} \X (1 .. f[y])
    BY DEF Units
  <1>5. Units(f) = Units(g) \cup c
    BY <1>3, <1>4
  <1>6. Units(g) \cap c = {}
    BY <1>4
  <1> HIDE DEF c
  <1>7. Cardinality(Units(g) \cap c) = 0
    BY <1>6, FS_EmptySet
  <1>8. Cardinality(Units(f)) = Cardinality(Units(g)) + Cardinality(c) - 0
    BY <1>1, <1>2, <1>5, <1>7, FS_Union
  <1> QED BY <1>1, <1>2, <1>8 DEF Total

\* One more unit for each entry in T.
LEMMA TotalBump ==
  ASSUME NEW S, IsFiniteSet(S), NEW f \in [S -> Nat], NEW T \in SUBSET S
  PROVE  Total([x \in S |-> f[x] + (IF x \in T THEN 1 ELSE 0)]) = Total(f) + Cardinality(T)
PROOF
  <1> DEFINE g == [x \in S |-> f[x] + (IF x \in T THEN 1 ELSE 0)]
             top == [x \in T |-> <<x, f[x] + 1>>]
             tops == {<<x, f[x] + 1>> : x \in T}
  <1>1. g \in [S -> Nat] /\ \A x \in S : g[x] = f[x] + (IF x \in T THEN 1 ELSE 0)
    OBVIOUS
  <1>2. \A p : p \in Units(f) <=> \E x \in S : p \in {x} \X (1 .. f[x])
    BY DEF Units
  <1>3. \A p : p \in Units(g) <=> \E x \in S : p \in {x} \X (1 .. g[x])
    BY DEF Units
  <1> HIDE DEF g
  <1>4. ASSUME NEW p \in Units(g) PROVE p \in Units(f) \cup tops
    <2>1. PICK x \in S : \E i \in 1 .. g[x] : p = <<x, i>>
      BY <1>3
    <2> PICK i \in 1 .. g[x] : p = <<x, i>>
      BY <2>1
    <2>2. f[x] \in Nat
      OBVIOUS
    <2>3. CASE i \in 1 .. f[x]
      BY <1>2, <2>1, <2>3
    <2>4. CASE i \notin 1 .. f[x]
      <3>1. x \in T /\ i = f[x] + 1
        BY <1>1, <2>1, <2>2, <2>4
      <3> QED BY <2>1, <3>1
    <2> QED BY <2>3, <2>4
  <1>5. ASSUME NEW p \in Units(f) PROVE p \in Units(g)
    <2>1. PICK x \in S : \E i \in 1 .. f[x] : p = <<x, i>>
      BY <1>2
    <2> PICK i \in 1 .. f[x] : p = <<x, i>>
      BY <2>1
    <2>2. f[x] \in Nat /\ i \in 1 .. g[x]
      BY <1>1
    <2> QED BY <1>3, <2>1, <2>2
  <1>6. ASSUME NEW p \in tops PROVE p \in Units(g) /\ p \notin Units(f)
    <2>1. PICK x \in T : p = <<x, f[x] + 1>>
      OBVIOUS
    <2>2. x \in S /\ f[x] \in Nat /\ f[x] + 1 \in 1 .. g[x] /\ f[x] + 1 \notin 1 .. f[x]
      BY <1>1
    <2> QED BY <1>2, <1>3, <2>1, <2>2
  <1>7. Units(g) = Units(f) \cup tops /\ Units(f) \cap tops = {}
    BY <1>4, <1>5, <1>6
  <1>8. IsFiniteSet(T)
    BY FS_Subset
  <1>9. top \in Bijection(T, tops)
    BY DEF Bijection, Injection, Surjection, IsInjective
  <1> HIDE DEF tops, top
  <1>10. IsFiniteSet(tops) /\ Cardinality(tops) = Cardinality(T)
    BY <1>8, <1>9, FS_Bijection DEF ExistsBijection
  <1>11. IsFiniteSet(Units(f)) /\ Total(f) \in Nat
    BY TotalType
  <1>12. Cardinality(Units(f) \cap tops) = 0
    BY <1>7, FS_EmptySet
  <1>13. Cardinality(Units(g)) = Cardinality(Units(f)) + Cardinality(tops) - 0
    BY <1>7, <1>10, <1>11, <1>12, FS_Union
  <1>14. Cardinality(T) \in Nat
    BY <1>8, FS_CardinalityType
  <1> QED BY <1>10, <1>11, <1>13, <1>14 DEF Total, g

------------------------------------------------------------------------------
(* Smallest and largest numbers.                                            *)

\* Numbers are well ordered: a set of them has a smallest one, and a bounded set
\* has a largest one.
LEMMA SmallestExists ==
  ASSUME NEW S \in SUBSET Nat, S # {}
  PROVE  \E x \in S : \A y \in S : x <= y
PROOF
  <1> DEFINE less == {p \in Nat \X Nat : p[1] < p[2]}
  <1>1. OpToRel(<, Nat) = less
    BY DEF OpToRel
  <1>2. IsWellFoundedOn(less, Nat)
    BY <1>1, NatLessThanWellFounded
  <1>3. PICK x \in S : \A y \in S : <<y, x>> \notin less
    <2> HIDE DEF less
    <2> QED BY <1>2, WFMin
  <1>4. ASSUME NEW y \in S PROVE x <= y
    <2>1. x \in Nat /\ y \in Nat
      OBVIOUS
    <2>2. ~(y < x)
      BY <1>3, <2>1
    <2> QED BY <2>1, <2>2
  <1> QED BY <1>4

LEMMA LargestExists ==
  ASSUME NEW S \in SUBSET Nat, S # {}, NEW m \in Nat, \A x \in S : x <= m
  PROVE  \E x \in S : \A y \in S : y <= x
PROOF
  <1> DEFINE rest == {m - x : x \in S}
  <1>1. rest \in SUBSET Nat /\ rest # {}
    <2>1. ASSUME NEW x \in S PROVE m - x \in Nat
      <3>1. x \in Nat /\ x <= m
        OBVIOUS
      <3> QED BY <3>1
    <2> QED BY <2>1
  <1>2. PICK r \in rest : \A q \in rest : r <= q
    <2> HIDE DEF rest
    <2> QED BY <1>1, SmallestExists
  <1>3. PICK x \in S : r = m - x
    OBVIOUS
  <1>4. ASSUME NEW y \in S PROVE y <= x
    <2>1. r <= m - y
      BY <1>2
    <2>2. x \in Nat /\ y \in Nat
      OBVIOUS
    <2> QED BY <1>3, <2>1, <2>2
  <1> QED BY <1>4

------------------------------------------------------------------------------
(* Shares: multiplying every entry multiplies the sum, so that a bound on   *)
(* each share is a bound on all of them.                                    *)

\* A floor never exceeds the exact quotient, and misses it by less than one.
LEMMA FloorBounds ==
  ASSUME NEW x \in Nat, NEW d \in Nat, d > 0
  PROVE  /\ x \div d \in Nat
         /\ (x \div d) * d <= x
         /\ x < (x \div d) * d + d
PROOF
  <1>1. x \div d \in Nat
    BY Z3
  <1>2. (x \div d) * d <= x /\ x < (x \div d) * d + d
    BY Z3
  <1> QED BY <1>1, <1>2

LEMMA ProductNat ==
  ASSUME NEW m \in Nat, NEW n \in Nat
  PROVE  m * n \in Nat
OBVIOUS

\* The j-th of w units made out of the i-th unit of an entry n has its own place
\* among the n * w units of the scaled entry.
LEMMA PlaceFits ==
  ASSUME NEW n \in Nat, NEW w \in Nat, NEW i \in 1 .. n, NEW j \in 1 .. w
  PROVE  (i - 1) * w + j \in 1 .. n * w
PROOF
  <1>1. (i - 1) * w \in Nat /\ n * w \in Nat
    BY ProductNat
  <1>2. (i - 1) * w + w = i * w
    BY Z3
  <1>3. i * w <= n * w
    BY Z3
  <1> QED BY <1>1, <1>2, <1>3

LEMMA PlaceIsUnique ==
  ASSUME NEW w \in Nat, NEW i \in Nat \ {0}, NEW k \in Nat \ {0},
         NEW j \in 1 .. w, NEW l \in 1 .. w, (i - 1) * w + j = (k - 1) * w + l
  PROVE  i = k /\ j = l
PROOF
  <1>1. ASSUME NEW x \in Nat \ {0}, NEW y \in Nat \ {0}, NEW p \in 1 .. w, NEW q \in 1 .. w,
               (x - 1) * w + p = (y - 1) * w + q
        PROVE  ~(x < y)
    <2> SUFFICES ASSUME x < y PROVE FALSE
      OBVIOUS
    <2>1. (x - 1) * w + w = x * w
      BY Z3
    <2>2. x * w <= (y - 1) * w
      BY Z3
    <2>3. (x - 1) * w \in Nat /\ (y - 1) * w \in Nat /\ x * w \in Nat
      BY ProductNat
    <2> QED BY <1>1, <2>1, <2>2, <2>3
  <1>2. ~(i < k) /\ ~(k < i)
    BY <1>1
  <1>3. i = k
    BY <1>2
  <1>4. (i - 1) * w \in Nat
    BY ProductNat
  <1> QED BY <1>3, <1>4

LEMMA PlaceIsTaken ==
  ASSUME NEW n \in Nat, NEW w \in Nat, w > 0, NEW m \in 1 .. n * w
  PROVE  \E i \in 1 .. n, j \in 1 .. w : m = (i - 1) * w + j
PROOF
  <1> DEFINE d == (m - 1) \div w
  <1>1. n * w \in Nat /\ m \in Nat /\ m - 1 \in Nat /\ m <= n * w
    BY ProductNat
  <1>2. d \in Nat /\ d * w <= m - 1 /\ m - 1 < d * w + w
    BY <1>1, FloorBounds
  <1> HIDE DEF d
  <1>3. d * w \in Nat
    BY <1>2, ProductNat
  <1>4. d < n
    <2> SUFFICES ASSUME n <= d PROVE FALSE
      BY <1>2
    <2>1. n * w <= d * w
      BY <1>2, Z3
    <2> QED BY <1>1, <1>2, <1>3, <2>1
  <1>5. m - d * w \in 1 .. w /\ d + 1 \in 1 .. n
    BY <1>1, <1>2, <1>3, <1>4
  <1>6. m = ((d + 1) - 1) * w + (m - d * w)
    BY <1>1, <1>2, <1>3
  <1> QED BY <1>5, <1>6

LEMMA TotalScale ==
  ASSUME NEW S, IsFiniteSet(S), NEW f \in [S -> Nat], NEW w \in Nat, w > 0
  PROVE  Total([x \in S |-> f[x] * w]) = Total(f) * w
PROOF
  <1> DEFINE h == [x \in S |-> f[x] * w]
             U == Units(f) \X (1 .. w)
             place == [u \in U |-> <<u[1][1], (u[1][2] - 1) * w + u[2]>>]
  <1>1. h \in [S -> Nat] /\ \A x \in S : h[x] = f[x] * w
    BY ProductNat
  <1>2. \A p \in Units(f) :
          p = <<p[1], p[2]>> /\ p[1] \in S /\ p[2] \in 1 .. f[p[1]]
    BY DEF Units
  <1>3. \A x \in S : \A i \in 1 .. f[x] : <<x, i>> \in Units(f)
    BY DEF Units
  <1>4. \A p \in Units(h) :
          p = <<p[1], p[2]>> /\ p[1] \in S /\ p[2] \in 1 .. h[p[1]]
    BY <1>1 DEF Units
  <1>5. \A x \in S : \A i \in 1 .. h[x] : <<x, i>> \in Units(h)
    BY <1>1 DEF Units
  <1> HIDE DEF h
  <1>6. ASSUME NEW u \in U PROVE place[u] \in Units(h)
    <2>1. u[1] \in Units(f) /\ u[2] \in 1 .. w
      OBVIOUS
    <2>2. u[1][1] \in S /\ u[1][2] \in 1 .. f[u[1][1]] /\ f[u[1][1]] \in Nat
      BY <1>2, <2>1
    <2>3. (u[1][2] - 1) * w + u[2] \in 1 .. h[u[1][1]]
      BY <1>1, <2>1, <2>2, PlaceFits
    <2> QED BY <1>5, <2>2, <2>3
  <1>7. ASSUME NEW u \in U, NEW v \in U, place[u] = place[v] PROVE u = v
    <2>1. u[1] \in Units(f) /\ u[2] \in 1 .. w /\ v[1] \in Units(f) /\ v[2] \in 1 .. w
          /\ u = <<u[1], u[2]>> /\ v = <<v[1], v[2]>>
      OBVIOUS
    <2>2. /\ u[1] = <<u[1][1], u[1][2]>> /\ v[1] = <<v[1][1], v[1][2]>>
          /\ u[1][1] \in S /\ u[1][2] \in 1 .. f[u[1][1]]
          /\ v[1][1] \in S /\ v[1][2] \in 1 .. f[v[1][1]]
      BY <1>2, <2>1
    <2>3. u[1][2] \in Nat \ {0} /\ v[1][2] \in Nat \ {0}
      BY <2>2
    <2>4. /\ u[1][1] = v[1][1]
          /\ (u[1][2] - 1) * w + u[2] = (v[1][2] - 1) * w + v[2]
      BY <1>7
    <2>5. u[1][2] = v[1][2] /\ u[2] = v[2]
      <3> DEFINE i == u[1][2]
                 k == v[1][2]
                 j == u[2]
                 l == v[2]
      <3>1. /\ i \in Nat \ {0} /\ k \in Nat \ {0} /\ j \in 1 .. w /\ l \in 1 .. w
            /\ (i - 1) * w + j = (k - 1) * w + l
        BY <2>1, <2>3, <2>4
      <3> HIDE DEF i, k, j, l
      <3>2. i = k /\ j = l
        BY <3>1, PlaceIsUnique
      <3> QED BY <3>2 DEF i, k, j, l
    <2>6. u[1] = v[1]
      BY <2>2, <2>4, <2>5
    <2> QED BY <2>1, <2>5, <2>6
  <1>8. ASSUME NEW p \in Units(h) PROVE \E u \in U : place[u] = p
    <2>1. p = <<p[1], p[2]>> /\ p[1] \in S /\ p[2] \in 1 .. f[p[1]] * w /\ f[p[1]] \in Nat
      BY <1>1, <1>4
    <2>2. PICK i \in 1 .. f[p[1]], j \in 1 .. w : p[2] = (i - 1) * w + j
      BY <2>1, PlaceIsTaken
    <2>3. <<<<p[1], i>>, j>> \in U
      BY <1>3, <2>1, <2>2
    <2>4. place[<<<<p[1], i>>, j>>] = p
      BY <2>1, <2>2, <2>3
    <2> QED BY <2>3, <2>4
  <1>9. IsFiniteSet(Units(f)) /\ Total(f) \in Nat
    BY TotalType
  <1>10. IsFiniteSet(U) /\ Cardinality(U) = Total(f) * w
    <2>1. IsFiniteSet(1 .. w) /\ Cardinality(1 .. w) = w
      BY FS_Interval
    <2> QED BY <1>9, <2>1, FS_Product DEF Total
  <1>11. place \in Bijection(U, Units(h))
    <2> HIDE DEF U
    <2>1. place \in [U -> Units(h)]
      BY <1>6
    <2> HIDE DEF place
    <2>2. place \in Injection(U, Units(h))
      BY <1>7, <2>1 DEF Injection, IsInjective
    <2>3. place \in Surjection(U, Units(h))
      BY <1>8, <2>1 DEF Surjection
    <2> QED BY <2>2, <2>3 DEF Bijection
  <1>12. Cardinality(Units(h)) = Cardinality(U)
    <2> HIDE DEF U, place
    <2> QED BY <1>10, <1>11, FS_Bijection DEF ExistsBijection
  <1> QED BY <1>10, <1>12 DEF Total, h

\* A sum splits into the entries a test picks and the others.
LEMMA TotalSplit ==
  ASSUME NEW S, IsFiniteSet(S), NEW f \in [S -> Nat], NEW T
  PROVE  Total(f) = Total([x \in S |-> IF x \in T THEN f[x] ELSE 0])
                      + Total([x \in S |-> IF x \in T THEN 0 ELSE f[x]])
PROOF
  <1> DEFINE g == [x \in S |-> IF x \in T THEN f[x] ELSE 0]
             h == [x \in S |-> IF x \in T THEN 0 ELSE f[x]]
  <1>1. g \in [S -> Nat] /\ h \in [S -> Nat]
    OBVIOUS
  <1>2. /\ IsFiniteSet(Units(g)) /\ Total(g) \in Nat
        /\ IsFiniteSet(Units(h)) /\ Total(h) \in Nat
    <2> HIDE DEF g, h
    <2> QED BY <1>1, TotalType
  <1>3. \A p : p \in Units(f) <=> \E x \in S : p \in {x} \X (1 .. f[x])
    BY DEF Units
  <1>4. \A p : p \in Units(g) <=> \E x \in S : x \in T /\ p \in {x} \X (1 .. f[x])
    BY DEF Units
  <1>5. \A p : p \in Units(h) <=> \E x \in S : x \notin T /\ p \in {x} \X (1 .. f[x])
    BY DEF Units
  <1>6. Units(f) = Units(g) \cup Units(h)
    BY <1>3, <1>4, <1>5
  <1>7. Units(g) \cap Units(h) = {}
    BY <1>4, <1>5
  <1> HIDE DEF g, h
  <1>8. Cardinality(Units(g) \cap Units(h)) = 0
    BY <1>7, FS_EmptySet
  <1>9. Cardinality(Units(f)) = Cardinality(Units(g)) + Cardinality(Units(h)) - 0
    BY <1>2, <1>6, <1>8, FS_Union
  <1> QED BY <1>2, <1>9 DEF Total, g, h

\* Shares rounded down never add up to more than what is shared out.
LEMMA SharesFit ==
  ASSUME NEW S, IsFiniteSet(S), NEW stakes \in [S -> Nat], NEW shares \in [S -> Nat],
         NEW w \in Nat, w > 0, NEW d \in Nat,
         \A x \in S : shares[x] * w <= stakes[x] * d
  PROVE  Total(shares) * w <= Total(stakes) * d
PROOF
  <1> DEFINE sw == [x \in S |-> shares[x] * w]
             sd == [x \in S |-> stakes[x] * d]
  <1>1. sw \in [S -> Nat] /\ sd \in [S -> Nat] /\ \A x \in S : sw[x] <= sd[x]
    BY ProductNat
  <1>2. Total(sw) = Total(shares) * w
    BY TotalScale
  <1>3. Total(sd) = Total(stakes) * d
    <2>1. CASE d > 0
      BY <2>1, TotalScale
    <2>2. CASE d = 0
      <3>1. \A x \in S : sd[x] = 0
        BY <2>2
      <3> HIDE DEF sd
      <3>2. Total(sd) = 0 /\ Total(stakes) \in Nat
        BY <1>1, <3>1, TotalZero, TotalType
      <3> QED BY <2>2, <3>2
    <2> QED BY <2>1, <2>2
  <1> HIDE DEF sw, sd
  <1>4. Total(sw) <= Total(sd)
    BY <1>1, TotalMonotone
  <1> QED BY <1>2, <1>3, <1>4

------------------------------------------------------------------------------
(* Sums over parts.                                                         *)

\* Ones are counted.
LEMMA TotalOfOnes ==
  ASSUME NEW S, IsFiniteSet(S)
  PROVE  Total([x \in S |-> 1]) = Cardinality(S)
PROOF
  <1> DEFINE z == [x \in S |-> 0]
             o == [x \in S |-> z[x] + (IF x \in S THEN 1 ELSE 0)]
  <1>1. z \in [S -> Nat] /\ \A x \in S : z[x] = 0
    OBVIOUS
  <1>2. Total(z) = 0
    <2> HIDE DEF z
    <2> QED BY <1>1, TotalZero
  <1>3. Total(o) = Total(z) + Cardinality(S)
    <2> HIDE DEF z
    <2> QED BY <1>1, TotalBump
  <1>4. o = [x \in S |-> 1]
    OBVIOUS
  <1>5. Cardinality(S) \in Nat
    BY FS_CardinalityType
  <1> QED BY <1>2, <1>3, <1>4, <1>5

\* Entries that are added up by a key first add up to the same.
LEMMA TotalOfParts ==
  ASSUME NEW S, IsFiniteSet(S), NEW f \in [S -> Nat],
         NEW K, IsFiniteSet(K), NEW key \in [S -> K], NEW g \in [K -> Nat],
         \A k \in K : g[k] = Total([x \in {y \in S : key[y] = k} |-> f[x]])
  PROVE  Total(g) = Total(f)
PROOF
  <1> DEFINE part(k) == [x \in {y \in S : key[y] = k} |-> f[x]]
             number == [k \in K |-> CHOOSE h : h \in Bijection(Units(part(k)), 1 .. g[k])]
             place == [u \in Units(f) |-> <<key[u[1]], number[key[u[1]]][u]>>]
  <1>1. \A u : u \in Units(f) <=> \E x \in S : u \in {x} \X (1 .. f[x])
    BY DEF Units
  <1>2. \A k, u : u \in Units(part(k)) <=>
          \E x \in S : key[x] = k /\ u \in {x} \X (1 .. f[x])
    <2> TAKE k, u
    <2>1. /\ DOMAIN part(k) = {y \in S : key[y] = k}
          /\ \A x \in DOMAIN part(k) : part(k)[x] = f[x]
      OBVIOUS
    <2> HIDE DEF part
    <2> QED BY <2>1 DEF Units
  <1>3. \A u : u \in Units(g) <=> \E k \in K : u \in {k} \X (1 .. g[k])
    BY DEF Units
  <1>4. \A u \in Units(f) : key[u[1]] \in K /\ u \in Units(part(key[u[1]]))
    <2> TAKE u \in Units(f)
    <2>1. PICK x \in S : u \in {x} \X (1 .. f[x])
      BY <1>1
    <2>2. u[1] = x
      BY <2>1
    <2> HIDE DEF part
    <2> QED BY <1>2, <2>1, <2>2
  <1>5. \A k \in K : \A u : u \in Units(part(k)) => u \in Units(f) /\ key[u[1]] = k
    <2> TAKE k \in K
    <2> TAKE u
    <2> HAVE u \in Units(part(k))
    <2>1. PICK x \in S : key[x] = k /\ u \in {x} \X (1 .. f[x])
      BY <1>2
    <2> HIDE DEF part
    <2> QED BY <1>1, <2>1
  <1>6. ASSUME NEW k \in K
        PROVE  number[k] \in Bijection(Units(part(k)), 1 .. g[k])
    <2>1. part(k) \in [{y \in S : key[y] = k} -> Nat] /\ IsFiniteSet({y \in S : key[y] = k})
      BY FS_Subset
    <2>2. g[k] = Total(part(k)) /\ g[k] \in Nat
      OBVIOUS
    <2> HIDE DEF part
    <2>3. IsFiniteSet(Units(part(k)))
      BY <2>1, TotalType
    <2>4. IsFiniteSet(1 .. g[k]) /\ Cardinality(1 .. g[k]) = g[k]
      BY <2>2, FS_Interval
    <2>5. Cardinality(Units(part(k))) = Cardinality(1 .. g[k])
      BY <2>2, <2>4 DEF Total
    <2>6. \E h : h \in Bijection(Units(part(k)), 1 .. g[k])
      BY <2>3, <2>4, <2>5, FS_SameCardinalityBij DEF ExistsBijection
    <2> QED BY <2>6
  <1> HIDE DEF part, number
  <1>7. place \in Bijection(Units(f), Units(g))
    <2>1. \A u \in Units(f) : place[u] \in Units(g)
      <3> TAKE u \in Units(f)
      <3> DEFINE k == key[u[1]]
      <3>1. k \in K /\ number[k][u] \in 1 .. g[k]
        BY <1>4, <1>6 DEF Bijection, Injection
      <3> QED BY <1>3, <3>1
    <2>2. \A u, v \in Units(f) : place[u] = place[v] => u = v
      <3> SUFFICES ASSUME NEW u \in Units(f), NEW v \in Units(f), place[u] = place[v]
                   PROVE  u = v
        OBVIOUS
      <3> DEFINE k == key[u[1]]
      <3>1. k = key[v[1]] /\ number[k][u] = number[k][v]
        OBVIOUS
      <3>2. k \in K /\ u \in Units(part(k)) /\ v \in Units(part(k))
        BY <1>4, <3>1
      <3> HIDE DEF k, place
      <3> QED BY <1>6, <3>1, <3>2 DEF Bijection, Injection, IsInjective
    <2>3. \A w \in Units(g) : \E u \in Units(f) : place[u] = w
      <3> TAKE w \in Units(g)
      <3>1. PICK k \in K : w \in {k} \X (1 .. g[k])
        BY <1>3
      <3> DEFINE i == w[2]
      <3>0. i \in 1 .. g[k] /\ w = <<k, i>>
        BY <3>1
      <3>2. PICK u \in Units(part(k)) : number[k][u] = i
        BY <1>6, <3>0 DEF Bijection, Surjection
      <3>3. u \in Units(f) /\ key[u[1]] = k
        BY <1>5
      <3> QED BY <3>0, <3>2, <3>3
    <2> HIDE DEF place
    <2>4. place \in [Units(f) -> Units(g)]
      BY <2>1 DEF place
    <2> QED BY <2>2, <2>3, <2>4 DEF Bijection, Injection, Surjection, IsInjective
  <1>8. IsFiniteSet(Units(f))
    BY TotalType
  <1> HIDE DEF place
  <1> QED BY <1>7, <1>8, FS_Bijection DEF ExistsBijection, Total
=============================================================================
