---------------------------- MODULE NatRecursion -----------------------------
(***************************************************************************)
(* A function on the naturals that is defined by its start and a step:     *)
(* what the levels of the B-tree and of nested sequences are proved from.  *)
(***************************************************************************)
EXTENDS Integers, WellFoundedInduction, TLAPS
-----------------------------------------------------------------------------
\* What repeats a step from a start is a function on the naturals: its beginnings, which agree, make it up.
Begins(a, step, n, g) ==
  /\ g \in [0..n -> DOMAIN step]
  /\ g[0] = a
  /\ \A m \in 0..(n - 1) : g[m + 1] = step[g[m]]

LEMMA BeginsOne ==
  ASSUME NEW D, NEW a \in D, NEW step \in [D -> D], NEW n \in Nat
  PROVE  \E g : Begins(a, step, n, g)
<1> DEFINE Bad == {m \in Nat : ~\E g : Begins(a, step, m, g)}
<1>1. SUFFICES ASSUME n \in Bad PROVE FALSE
  OBVIOUS
<1>2. Bad \subseteq Nat /\ Bad # {}
  BY <1>1
<1>3. PICK m \in Bad : \A y \in Bad : ~(<<y, m>> \in OpToRel(<, Nat))
  BY <1>2, WFMin, NatLessThanWellFounded
<1>4. m \in Nat /\ (~\E g : Begins(a, step, m, g)) /\ \A y \in Bad : ~(y < m)
  BY <1>2, <1>3 DEF OpToRel
<1>5. CASE m = 0
  <2> DEFINE g == [i \in 0..0 |-> a]
  <2>1. g \in [0..m -> D] /\ g[0] = a /\ 0..(m - 1) = {}
    BY <1>5
  <2> HIDE DEF g
  <2>2. Begins(a, step, m, g)
    BY <2>1 DEF Begins
  <2>q. QED
    BY <1>4, <2>2
<1>6. CASE m # 0
  <2>1. m - 1 \in Nat /\ m - 1 < m
    BY <1>4, <1>6
  <2>2. m - 1 \notin Bad
    BY <1>4, <2>1
  <2>3. PICK g : Begins(a, step, m - 1, g)
    BY <2>1, <2>2
  <2>4. g \in [0..(m - 1) -> D] /\ g[0] = a /\ \A i \in 0..((m - 1) - 1) : g[i + 1] = step[g[i]]
    BY <2>3 DEF Begins
  <2> DEFINE e == [i \in 0..m |-> IF i < m THEN g[i] ELSE step[g[m - 1]]]
  <2>5. \A i \in 0..m : i < m => i \in 0..(m - 1)
    BY <1>4
  <2>6. m - 1 \in 0..(m - 1) /\ g[m - 1] \in D /\ step[g[m - 1]] \in D
    BY <2>1, <2>4
  <2>7. e \in [0..m -> D]
    BY <2>4, <2>5, <2>6
  <2>8. e[0] = a
    BY <1>4, <1>6, <2>4
  <2>9. ASSUME NEW i \in 0..(m - 1) PROVE e[i + 1] = step[e[i]]
    <3>1. i \in 0..m /\ i + 1 \in 0..m /\ e[i] = g[i]
      BY <1>4
    <3>2. CASE i = m - 1
      BY <1>4, <3>1, <3>2
    <3>3. CASE i # m - 1
      <4>1. i \in 0..((m - 1) - 1) /\ i + 1 < m
        BY <1>4, <3>3
      <4>2. e[i + 1] = g[i + 1]
        BY <3>1, <4>1
      <4>q. QED
        BY <2>4, <3>1, <4>1, <4>2
    <3>q. QED
      BY <3>2, <3>3
  <2> HIDE DEF e
  <2>10. Begins(a, step, m, e)
    BY <2>7, <2>8, <2>9 DEF Begins
  <2>q. QED
    BY <1>4, <2>10
<1>q. QED
  BY <1>5, <1>6

LEMMA BeginsAgree ==
  ASSUME NEW D, NEW a \in D, NEW step \in [D -> D], NEW n \in Nat, NEW k \in Nat,
         NEW g, Begins(a, step, n, g), NEW e, Begins(a, step, k, e), NEW i \in 0..n, i \in 0..k
  PROVE  g[i] = e[i]
<1> DEFINE Bad == {m \in Nat : m <= n /\ m <= k /\ g[m] # e[m]}
<1>1. SUFFICES ASSUME i \in Bad PROVE FALSE
  OBVIOUS
<1>2. Bad \subseteq Nat /\ Bad # {}
  BY <1>1
<1>3. PICK m \in Bad : \A y \in Bad : ~(<<y, m>> \in OpToRel(<, Nat))
  BY <1>2, WFMin, NatLessThanWellFounded
<1>4. m \in Nat /\ m <= n /\ m <= k /\ g[m] # e[m] /\ \A y \in Bad : ~(y < m)
  BY <1>2, <1>3 DEF OpToRel
<1>5. m # 0
  BY <1>4 DEF Begins
<1>6. m - 1 \in Nat /\ m - 1 < m /\ m - 1 \in 0..(n - 1) /\ m - 1 \in 0..(k - 1) /\ (m - 1) + 1 = m
  BY <1>4, <1>5
<1>7. g[m - 1] = e[m - 1]
  BY <1>4, <1>6
<1>8. g[(m - 1) + 1] = step[g[m - 1]] /\ e[(m - 1) + 1] = step[e[m - 1]]
  BY <1>6 DEF Begins
<1>q. QED
  BY <1>4, <1>6, <1>7, <1>8

Repeatable(D, a, step) == a \in D /\ step \in [D -> D]

LEMMA Recursion ==
  ASSUME NEW D, NEW a, NEW step, Repeatable(D, a, step)
  PROVE  \E f \in [Nat -> D] : f[0] = a /\ \A n \in Nat : f[n + 1] = step[f[n]]
<1>0. a \in D /\ step \in [D -> D]
  BY DEF Repeatable
<1> DEFINE one(n) == CHOOSE g : Begins(a, step, n, g)
           f == [n \in Nat |-> one(n)[n]]
<1>1. \A n \in Nat : Begins(a, step, n, one(n))
  BY <1>0, BeginsOne
<1> HIDE DEF one
<1>2. ASSUME NEW n \in Nat PROVE one(n)[n] \in D
  <2>1. n \in 0..n
    OBVIOUS
  <2>q. QED
    BY <1>0, <1>1, <2>1 DEF Begins
<1>3. f \in [Nat -> D]
  BY <1>2
<1>4. f[0] = a
  BY <1>1 DEF Begins
<1>5. ASSUME NEW n \in Nat PROVE f[n + 1] = step[f[n]]
  <2>1. n \in 0..n /\ n \in 0..(n + 1) /\ n \in 0..((n + 1) - 1) /\ n + 1 \in Nat
    OBVIOUS
  <2>2. one(n)[n] = one(n + 1)[n]
    BY <1>0, <1>1, <2>1, BeginsAgree
  <2>3. one(n + 1)[n + 1] = step[one(n + 1)[n]]
    BY <1>1, <2>1 DEF Begins
  <2>q. QED
    BY <2>1, <2>2, <2>3
<1> HIDE DEF f
<1>q. QED
  BY <1>3, <1>4, <1>5
=============================================================================
