------------------------------ MODULE Iteration ------------------------------
(***************************************************************************)
(* Walking a list of links: the function a recursive definition over the   *)
(* natural numbers stands for, and the induction that says what it does.   *)
(* The induction is over a set of numbers, from the fact that every        *)
(* nonempty set of numbers has a least element, because the provers take   *)
(* no theorem with an operator for a parameter.                            *)
(***************************************************************************)
EXTENDS Integers, WellFoundedInduction, TLAPS

\* Where n steps along the links nx lead from a.  A recursive function
\*   f[i \in Nat] == IF i = 0 THEN a ELSE nx[f[i - 1]]
\* is this one by definition.
Iterate(a, nx) == CHOOSE f : f = [i \in Nat |-> IF i = 0 THEN a ELSE nx[f[i - 1]]]

\* Induction: a set of numbers with 0 and the successor of each member has all of them.
LEMMA SetInduction ==
  ASSUME NEW S \in SUBSET Nat, 0 \in S, \A n \in S : n + 1 \in S
  PROVE  S = Nat
<1> DEFINE T == Nat \ S
           R == OpToRel(<, Nat)
<1>1. \A a, b \in Nat : <<a, b>> \in R <=> a < b
  BY DEF OpToRel
<1>2. SUFFICES ASSUME T # {} PROVE FALSE
  OBVIOUS
<1>3. IsWellFoundedOn(R, Nat)
  BY NatLessThanWellFounded DEF OpToRel
<1> HIDE DEF R
<1>4. \E m \in T : \A y \in T : ~ (<<y, m>> \in R)
  BY <1>2, <1>3, WFMin
<1>5. PICK m \in T : \A y \in T : ~ (y < m)
  BY <1>1, <1>4
<1>6. m # 0 /\ m - 1 \in Nat /\ m - 1 \notin T
  BY <1>5
<1>7. m - 1 \in S
  BY <1>6
<1>8. (m - 1) + 1 \in S
  BY <1>7
<1> QED
  BY <1>5, <1>6, <1>8

\* A function that walks the links exists: it is put together from the finite walks, which
\* agree where they overlap.
LEMMA IterateExists ==
  ASSUME NEW D, NEW a \in D, NEW nx \in [D -> D]
  PROVE  \E f \in [Nat -> D] : f[0] = a /\ \A i \in Nat : f[i + 1] = nx[f[i]]
<1> DEFINE Upto(n, g) == g \in [0 .. n -> D] /\ g[0] = a /\ \A i \in 1 .. n : g[i] = nx[g[i - 1]]
           S == {n \in Nat : \E g : Upto(n, g)}
<1>1. 0 \in S
  <2>1. Upto(0, [i \in 0 .. 0 |-> a])
    OBVIOUS
  <2> QED
    BY <2>1
<1>2. ASSUME NEW n \in S PROVE n + 1 \in S
  <2>1. PICK g : Upto(n, g)
    OBVIOUS
  <2> DEFINE h == [i \in 0 .. n + 1 |-> IF i = n + 1 THEN nx[g[n]] ELSE g[i]]
  <2>2. h \in [0 .. n + 1 -> D]
    BY <2>1
  <2>3. h[0] = a /\ \A i \in 1 .. n + 1 : h[i] = nx[h[i - 1]]
    BY <2>1
  <2>4. Upto(n + 1, h)
    BY <2>2, <2>3
  <2>5. n + 1 \in Nat
    OBVIOUS
  <2> HIDE DEF Upto, h
  <2> QED
    BY <2>4, <2>5
<1>3. \A n \in Nat : \E g : Upto(n, g)
  <2> HIDE DEF Upto
  <2>1. S = Nat
    BY <1>1, <1>2, SetInduction
  <2> QED
    BY <2>1
<1>4. ASSUME NEW m \in Nat, NEW n \in Nat, m <= n, NEW g, NEW h, Upto(m, g), Upto(n, h)
      PROVE  \A i \in 0 .. m : g[i] = h[i]
  <2> DEFINE T == {i \in Nat : i <= m => g[i] = h[i]}
  <2>1. 0 \in T
    BY <1>4
  <2>2. ASSUME NEW i \in T PROVE i + 1 \in T
    <3>1. SUFFICES ASSUME i + 1 <= m PROVE g[i + 1] = h[i + 1]
      OBVIOUS
    <3>2. g[i] = h[i] /\ i + 1 \in 1 .. m /\ i + 1 \in 1 .. n /\ (i + 1) - 1 = i
      BY <3>1, <1>4
    <3> QED
      BY <3>2, <1>4
  <2>3. T = Nat
    <3> HIDE DEF T
    <3>1. T \in SUBSET Nat
      BY DEF T
    <3> QED
      BY <2>1, <2>2, <3>1, SetInduction
  <2> QED
    BY <2>3
<1> DEFINE G == [n \in Nat |-> CHOOSE g : Upto(n, g)]
           F == [n \in Nat |-> G[n][n]]
<1>5. \A n \in Nat : Upto(n, G[n])
  <2> HIDE DEF Upto
  <2> QED
    BY <1>3
<1>6. F \in [Nat -> D]
  <2>1. ASSUME NEW n \in Nat PROVE G[n][n] \in D
    <3> HIDE DEF G
    <3>1. G[n] \in [0 .. n -> D] /\ n \in 0 .. n
      BY <1>5
    <3> QED
      BY <3>1
  <2> HIDE DEF G
  <2> QED
    BY <2>1
<1>7. F[0] = a
  BY <1>5
<1>8. ASSUME NEW i \in Nat PROVE F[i + 1] = nx[F[i]]
  <2>1. i + 1 \in Nat /\ i <= i + 1 /\ i \in 0 .. i /\ i + 1 \in 1 .. i + 1 /\ (i + 1) - 1 = i
    OBVIOUS
  <2>2. Upto(i + 1, G[i + 1]) /\ Upto(i, G[i])
    BY <1>5, <2>1
  <2>3. G[i][i] = G[i + 1][i]
    <3> HIDE DEF Upto, G
    <3> QED
      BY <1>4, <2>1, <2>2
  <2>4. G[i + 1][i + 1] = nx[G[i + 1][i]]
    BY <2>1, <2>2
  <2> QED
    BY <2>1, <2>3, <2>4
<1> QED
  BY <1>6, <1>7, <1>8

\* Iterate starts at a, goes along the links, and never leaves the set they stay in: a walk
\* of the free list of a queue or of a chain of clusters is what its equation says.
LEMMA IterateIsRecursive ==
  ASSUME NEW D, NEW a \in D, NEW nx \in [D -> D]
  PROVE  /\ Iterate(a, nx) \in [Nat -> D]
         /\ Iterate(a, nx)[0] = a
         /\ \A i \in Nat : Iterate(a, nx)[i + 1] = nx[Iterate(a, nx)[i]]
<1> DEFINE P(f) == f = [i \in Nat |-> IF i = 0 THEN a ELSE nx[f[i - 1]]]
           f0 == CHOOSE f : P(f)
<1>1. PICK f1 \in [Nat -> D] : f1[0] = a /\ \A i \in Nat : f1[i + 1] = nx[f1[i]]
  BY IterateExists
<1>2. P(f1)
  <2>1. \A i \in Nat : i # 0 => i - 1 \in Nat /\ (i - 1) + 1 = i
    OBVIOUS
  <2> QED
    BY <1>1, <2>1
<1>3. P(f0)
  <2> HIDE DEF P
  <2> QED
    BY <1>2
<1>4. f0 = Iterate(a, nx)
  BY DEF Iterate
<1> HIDE DEF f0
<1>5. f0[0] = a
  BY <1>3
<1>6. ASSUME NEW i \in Nat PROVE f0[i + 1] = nx[f0[i]]
  <2>1. i + 1 \in Nat /\ i + 1 # 0 /\ (i + 1) - 1 = i
    OBVIOUS
  <2> QED
    BY <1>3, <2>1
<1> DEFINE T == {i \in Nat : f0[i] \in D}
<1>7. 0 \in T /\ \A i \in T : i + 1 \in T
  BY <1>5, <1>6
<1>8. T = Nat
  <2> HIDE DEF T
  <2>1. T \in SUBSET Nat
    BY DEF T
  <2> QED
    BY <1>7, <2>1, SetInduction
<1>9. f0 \in [Nat -> D]
  <2>1. \A i \in Nat : f0[i] \in D
    BY <1>8
  <2>2. f0 = [i \in Nat |-> f0[i]]
    BY <1>3
  <2> QED
    BY <2>1, <2>2
<1> QED
  BY <1>4, <1>5, <1>6, <1>9

==============================================================================
