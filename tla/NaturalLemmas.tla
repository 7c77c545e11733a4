--------------------------- MODULE NaturalLemmas ---------------------------
(* Induction over the naturals for a set instead of a predicate, which the  *)
(* provers can use where the rules of the library, with their operator for  *)
(* the predicate, cannot be instantiated.                                   *)
EXTENDS NaturalsInduction, WellFoundedInduction, TLAPS

\* A set of naturals that is not empty has a least element.
LEMMA LeastNat ==
  ASSUME NEW T \in SUBSET Nat, T # {}
  PROVE  \E x \in T : \A y \in T : x <= y
<1>1. IsWellFoundedOn(OpToRel(<, Nat), Nat)
  BY NatLessThanWellFounded
<1>2. PICK x \in T : \A y \in T : ~(<<y, x>> \in OpToRel(<, Nat))
  BY <1>1, WFMin
<1>3. \A y \in T : y \in Nat /\ x \in Nat /\ (y < x => <<y, x>> \in OpToRel(<, Nat))
  BY DEF OpToRel
<1>4. \A y \in T : y \in Nat /\ x \in Nat /\ ~(y < x)
  BY <1>2, <1>3, Zenon
<1>5. \A y \in T : x <= y
  BY <1>4
<1> QED BY <1>5

\* A set that holds 0, and n + 1 with n, holds all up to a bound.
LEMMA UpTo ==
  ASSUME NEW N \in Nat, NEW G, 0 \in G,
         \A n \in 0..(N - 1) : n \in G => n + 1 \in G
  PROVE  \A n \in 0..N : n \in G
<1> DEFINE Bad == {n \in 0..N : n \notin G}
<1> SUFFICES ASSUME Bad # {} PROVE FALSE
  OBVIOUS
<1>1. PICK n \in Bad : \A k \in Bad : n <= k
  <2>1. Bad \in SUBSET Nat
    OBVIOUS
  <2> HIDE DEF Bad
  <2> QED BY <2>1, LeastNat
<1>2. n \in 0..N /\ n \notin G /\ n # 0
  OBVIOUS
<1>3. n - 1 \in 0..(N - 1) /\ (n - 1) + 1 = n /\ n - 1 \in 0..N /\ ~(n <= n - 1)
  BY <1>2
<1>4. n - 1 \in G
  BY <1>1, <1>3
<1> QED BY <1>2, <1>3, <1>4

\* What leads from the value at each natural to the one at the next, up to n.
StepsIn(D, n) == [1..n -> [D -> D]]

\* The function that starts with d and takes these steps.
Follows(f, D, n, d, step) ==
  /\ f \in [0..n -> D] /\ f[0] = d
  /\ \A k \in 1..n : f[k] = step[k][f[k - 1]]

\* A function on the naturals up to n that is defined by its value at 0 and by a
\* step from each to the next exists.
LEMMA Recursion ==
  ASSUME NEW n \in Nat, NEW D, NEW d \in D, NEW step \in StepsIn(D, n)
  PROVE  \E f : Follows(f, D, n, d, step)
<1> DEFINE G == {m \in 0..n : \E f : Follows(f, D, m, d, step)}
<1>1. 0 \in G
  <2> DEFINE f == [k \in 0..0 |-> d]
  <2>1. f \in [0..0 -> D] /\ f[0] = d /\ 1..0 = {}
    OBVIOUS
  <2>2. Follows(f, D, 0, d, step)
    BY <2>1 DEF Follows
  <2> QED BY <2>2
<1>2. \A m \in 0..(n - 1) : m \in G => m + 1 \in G
  <2> SUFFICES ASSUME NEW m \in 0..(n - 1), m \in G PROVE m + 1 \in G
    OBVIOUS
  <2>1. PICK f : Follows(f, D, m, d, step)
    OBVIOUS
  <2> DEFINE g == [k \in 0..(m + 1) |-> IF k = m + 1 THEN step[m + 1][f[m]] ELSE f[k]]
  <2>2. m \in Nat /\ m \in 0..m /\ m + 1 \in 1..n /\ m + 1 \in 0..n
    OBVIOUS
  <2>3. \A k \in 0..m : f[k] \in D
    BY <2>1 DEF Follows
  <2>4. step[m + 1] \in [D -> D] /\ f[m] \in D
    BY <2>2, <2>3 DEF StepsIn
  <2>5. step[m + 1][f[m]] \in D
    BY <2>4
  <2>6. g \in [0..(m + 1) -> D]
    <3>1. \A k \in 0..(m + 1) : k = m + 1 \/ k \in 0..m
      BY <2>2
    <3> QED BY <2>3, <2>5, <3>1
  <2>7. g[0] = d
    BY <2>1, <2>2 DEF Follows
  <2>8. ASSUME NEW k \in 1..(m + 1) PROVE g[k] = step[k][g[k - 1]]
    <3>1. k - 1 \in 0..m /\ k \in 0..(m + 1) /\ k - 1 # m + 1 /\ k - 1 \in 0..(m + 1)
      BY <2>2
    <3>2. g[k - 1] = f[k - 1]
      BY <3>1
    <3>3. CASE k = m + 1
      <4>1. k - 1 = m
        BY <2>2, <3>3
      <4> QED BY <3>1, <3>2, <3>3, <4>1
    <3>4. CASE k # m + 1
      <4>1. k \in 1..m
        BY <2>2, <3>4
      <4>2. f[k] = step[k][f[k - 1]]
        BY <2>1, <4>1 DEF Follows
      <4> QED BY <3>1, <3>2, <3>4, <4>2
    <3> QED BY <3>3, <3>4
  <2>9. Follows(g, D, m + 1, d, step)
    BY <2>6, <2>7, <2>8 DEF Follows
  <2> QED BY <2>2, <2>9
<1>3. \A m \in 0..n : m \in G
  <2> HIDE DEF G
  <2> QED BY <1>1, <1>2, UpTo
<1> QED BY <1>3

=============================================================================
