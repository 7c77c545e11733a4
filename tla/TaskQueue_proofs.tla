-------------------------- MODULE TaskQueue_proofs --------------------------
(***************************************************************************)
(* Proofs about TaskQueue: what the sort and the filters of the list do,   *)
(* the inductive invariant, and the refinement of Deques.                  *)
(***************************************************************************)
EXTENDS TaskQueue, NaturalLemmas, FiniteSetTheorems, TLAPS

-----------------------------------------------------------------------------
(* Counting.                                                               *)

\* A down-closed part of 1..n is an interval.
LEMMA DownClosed ==
  ASSUME NEW n \in Nat, NEW D \in SUBSET (1..n),
         \A i, j \in 1..n : i < j /\ j \in D => i \in D
  PROVE  \E m \in 0..n : D = 1..m
<1> DEFINE T == {j \in 1..(n + 1) : j \notin D}
<1>1. n + 1 \in T /\ T \in SUBSET Nat
  OBVIOUS
<1>2. PICK t \in T : \A y \in T : t <= y
  BY <1>1, LeastNat
<1>3. t \in 1..(n + 1) /\ t \notin D
  BY <1>2
<1>4. \A j \in 1..n : j < t => j \in D
  BY <1>2, <1>3
<1>5. \A j \in D : j < t
  BY <1>3
<1>6. D = 1..(t - 1)
  <2>1. \A j \in D : j \in 1..(t - 1)
    BY <1>3, <1>5
  <2>2. \A j \in 1..(t - 1) : j \in D
    BY <1>3, <1>4
  <2> QED BY <2>1, <2>2
<1>7. t - 1 \in 0..n
  BY <1>3
<1> QED BY <1>6, <1>7

LEMMA CountInterval ==
  \A a, b \in Int : a <= b + 1 => /\ IsFiniteSet(a..b)
                                  /\ Cardinality(a..b) = b - a + 1
BY FS_Interval

-----------------------------------------------------------------------------
(* The order of the list.                                                  *)

LEMMA ClassType ==
  /\ \A type \in Type : TypeClass(type) \in Class
  /\ \A s, type \in Type : TypeClass(s) = TypeClass(type) => s = type
<1>1. /\ TypeClass("task") = 0 /\ TypeClass("evolution") = 1
      /\ TypeClass("health_check") = 2
  BY DEF TypeClass
<1> QED BY <1>1 DEF Type, Class

LEMMA QueuedType ==
  \A t \in Queued : /\ t.id \in TaskId /\ t.type \in Type /\ t.seq \in Int
                    /\ TypeClass(t.type) \in 0..2
<1>1. \A t \in Queued : t.id \in TaskId /\ t.type \in Type /\ t.seq \in Int
  BY DEF Queued
<1> QED BY <1>1, ClassType DEF Class

\* Before is a strict order, total where the numbers differ.
LEMMA BeforeOrder ==
  /\ \A a \in Queued : ~Before(a, a)
  /\ \A a, b \in Queued : Before(a, b) => ~Before(b, a)
  /\ \A a, b, c \in Queued : Before(a, b) /\ Before(b, c) => Before(a, c)
  /\ \A a, b \in Queued : a.seq # b.seq => Before(a, b) \/ Before(b, a)
<1>1. \A a \in Queued : TypeClass(a.type) \in Int /\ a.seq \in Int
  BY ClassType DEF Queued, Class
<1> QED BY <1>1 DEF Before

Increasing(q) == \A i, j \in 1..Len(q) : i < j => Before(q[i], q[j])

\* p is q with x put in after the first m places.
Inserted(q, x, m, p) ==
  /\ m \in 0..Len(q)
  /\ p \in Seq(Queued) /\ Len(p) = Len(q) + 1
  /\ \A k \in 1..m : p[k] = q[k]
  /\ p[m + 1] = x
  /\ \A k \in (m + 1)..Len(q) : p[k + 1] = q[k]

\* One more task in a sorted list: where each place goes.
LEMMA RankOfAppend ==
  ASSUME NEW q \in Seq(Queued), Increasing(q), NEW x \in Queued, NEW m \in 0..Len(q),
         \A j \in 1..m : Before(q[j], x),
         \A j \in (m + 1)..Len(q) : Before(x, q[j])
  PROVE  /\ \A i \in 1..m : Rank(Append(q, x), i) = i
         /\ \A i \in (m + 1)..Len(q) : Rank(Append(q, x), i) = i + 1
         /\ Rank(Append(q, x), Len(q) + 1) = m + 1
<1> DEFINE n == Len(q)
           p == Append(q, x)
           Front(i) == {j \in 1..Len(p) : j = i \/ InFront(p, j, i)}
<1>0. n \in Nat /\ Len(p) = n + 1 /\ p[n + 1] = x /\ \A i \in 1..n : p[i] = q[i] /\ q[i] \in Queued
  OBVIOUS
<1>1. \A i, j \in 1..n : InFront(p, j, i) <=> j < i
  <2> TAKE i, j \in 1..n
  <2>1. i < j => Before(q[i], q[j])
    BY DEF Increasing
  <2>2. j < i => Before(q[j], q[i])
    BY DEF Increasing
  <2>3. i = j => ~Before(q[j], q[i])
    BY <1>0, BeforeOrder
  <2>4. q[i] \in Queued /\ q[j] \in Queued
    BY <1>0
  <2>5. i < j => ~Before(q[j], q[i])
    BY <2>1, <2>4, BeforeOrder
  <2> QED BY <2>2, <2>3, <2>1, <2>5, <1>0 DEF InFront
<1>2. \A j \in 1..n : InFront(p, j, n + 1) <=> j <= m
  BY <1>0, BeforeOrder DEF InFront
<1>3. \A i \in 1..n : InFront(p, n + 1, i) <=> m < i
  BY <1>0, BeforeOrder DEF InFront
<1>4. \A i \in 1..m : Front(i) = 1..i
  BY <1>0, <1>1, <1>3
<1>5. \A i \in (m + 1)..n : Front(i) = (1..i) \cup {n + 1}
  BY <1>0, <1>1, <1>3
<1>6. Front(n + 1) = (1..m) \cup {n + 1}
  BY <1>0, <1>2
<1>7. \A i \in 0..n : /\ Cardinality(1..i) = i
                      /\ Cardinality((1..i) \cup {n + 1}) = i + 1
  <2> TAKE i \in 0..n
  <2>1. IsFiniteSet(1..i) /\ Cardinality(1..i) = i
    BY FS_Interval
  <2>2. n + 1 \notin 1..i
    BY <1>0
  <2> QED BY <2>1, <2>2, FS_AddElement
<1>8. \A i \in 1..(n + 1) : Rank(p, i) = Cardinality(Front(i))
  BY DEF Rank
<1> HIDE DEF Front
<1>9. \A i \in 1..m : Rank(p, i) = i
  <2> TAKE i \in 1..m
  <2>1. i \in 0..n /\ i \in 1..(n + 1)
    BY <1>0
  <2> QED BY <2>1, <1>4, <1>7, <1>8
<1>10. \A i \in (m + 1)..n : Rank(p, i) = i + 1
  <2> TAKE i \in (m + 1)..n
  <2>1. i \in 0..n /\ i \in 1..(n + 1)
    BY <1>0
  <2> QED BY <2>1, <1>5, <1>7, <1>8
<1>11. Rank(p, n + 1) = m + 1
  <2>1. m \in 0..n /\ n + 1 \in 1..(n + 1)
    BY <1>0
  <2> QED BY <2>1, <1>6, <1>7, <1>8
<1> QED BY <1>9, <1>10, <1>11

\* Sorting a sorted list with one more task puts the task in its place.
LEMMA SortInserts ==
  ASSUME NEW q \in Seq(Queued), Increasing(q), NEW x \in Queued,
         \A j \in 1..Len(q) : q[j].seq # x.seq
  PROVE  \E m \in 0..Len(q) :
           /\ \A j \in 1..m : Before(q[j], x)
           /\ \A j \in (m + 1)..Len(q) : Before(x, q[j])
           /\ Inserted(q, x, m, sort_pending(Append(q, x)))
<1> DEFINE n == Len(q)
           p == Append(q, x)
           D == {j \in 1..n : Before(q[j], x)}
<1>0. n \in Nat /\ Len(p) = n + 1 /\ p[n + 1] = x /\ \A i \in 1..n : p[i] = q[i] /\ q[i] \in Queued
  OBVIOUS
<1>1. \A i, j \in 1..n : i < j /\ j \in D => i \in D
  <2> TAKE i, j \in 1..n
  <2> HAVE i < j /\ j \in D
  <2>1. Before(q[i], q[j]) /\ Before(q[j], x)
    BY DEF Increasing
  <2> QED BY <2>1, <1>0, BeforeOrder
<1>2. PICK m \in 0..n : D = 1..m
  <2> HIDE DEF n
  <2>1. D \in SUBSET (1..n)
    OBVIOUS
  <2> HIDE DEF D
  <2> QED BY <1>0, <1>1, <2>1, DownClosed
<1>3. \A j \in 1..m : Before(q[j], x)
  BY <1>2, <1>0
<1>4. \A j \in (m + 1)..n : Before(x, q[j])
  <2> TAKE j \in (m + 1)..n
  <2>1. j \in 1..n /\ j \notin 1..m
    BY <1>0
  <2>2. ~Before(q[j], x)
    BY <2>1, <1>2
  <2> QED BY <2>1, <2>2, <1>0, BeforeOrder
<1>5. /\ \A i \in 1..m : Rank(p, i) = i
      /\ \A i \in (m + 1)..n : Rank(p, i) = i + 1
      /\ Rank(p, n + 1) = m + 1
  BY <1>3, <1>4, RankOfAppend
<1> DEFINE place(k) == CHOOSE i \in 1..(n + 1) : Rank(p, i) = k
<1>6. \A i \in 1..(n + 1) : i \in 1..m \/ i \in (m + 1)..n \/ i = n + 1
  BY <1>0
<1>7. \A k \in 1..m : place(k) = k
  <2> TAKE k \in 1..m
  <2>1. \A i \in 1..(n + 1) : Rank(p, i) = k <=> i = k
    BY <1>0, <1>5, <1>6
  <2> QED BY <2>1, <1>0
<1>8. place(m + 1) = n + 1
  <2>1. \A i \in 1..(n + 1) : Rank(p, i) = m + 1 <=> i = n + 1
    BY <1>0, <1>5, <1>6
  <2> QED BY <2>1, <1>0
<1>9. \A k \in (m + 1)..n : place(k + 1) = k
  <2> TAKE k \in (m + 1)..n
  <2>1. \A i \in 1..(n + 1) : Rank(p, i) = k + 1 <=> i = k
    BY <1>0, <1>5, <1>6
  <2> QED BY <2>1, <1>0
<1>10. sort_pending(p) = [k \in 1..(n + 1) |-> p[place(k)]]
  BY <1>0 DEF sort_pending
<1> HIDE DEF place
<1>11. \A k \in 1..(n + 1) : place(k) \in 1..(n + 1)
  <2> TAKE k \in 1..(n + 1)
  <2>1. k \in 1..m \/ k = m + 1 \/ (k - 1 \in (m + 1)..n /\ k = (k - 1) + 1)
    BY <1>0
  <2>2. CASE k \in 1..m
    BY <2>2, <1>7
  <2>3. CASE k = m + 1
    BY <2>3, <1>8, <1>0
  <2>4. CASE k - 1 \in (m + 1)..n /\ k = (k - 1) + 1
    <3>1. place((k - 1) + 1) = k - 1
      BY <2>4, <1>9
    <3> QED BY <3>1, <2>4
  <2> QED BY <2>1, <2>2, <2>3, <2>4
<1>12. sort_pending(p) \in Seq(Queued) /\ Len(sort_pending(p)) = n + 1
  BY <1>0, <1>10, <1>11
<1>13. Inserted(q, x, m, sort_pending(p))
  <2> DEFINE s == sort_pending(p)
  <2>1. \A k \in 1..(n + 1) : s[k] = p[place(k)]
    BY <1>10
  <2> HIDE DEF s
  <2>2. \A k \in 1..m : s[k] = q[k]
    BY <2>1, <1>7, <1>0
  <2>3. s[m + 1] = x
    BY <2>1, <1>8, <1>0
  <2>4. \A k \in (m + 1)..n : s[k + 1] = q[k]
    <3> TAKE k \in (m + 1)..n
    <3>1. k + 1 \in 1..(n + 1) /\ k \in 1..n
      BY <1>0
    <3> QED BY <3>1, <2>1, <1>9, <1>0
  <2>5. s \in Seq(Queued) /\ Len(s) = n + 1
    BY <1>12 DEF s
  <2> QED BY <2>2, <2>3, <2>4, <2>5 DEF Inserted, s
<1> QED BY <1>3, <1>4, <1>13

-----------------------------------------------------------------------------
(* Taking tasks out of the list.                                           *)

\* p is q without some of its tasks.
Thinned(q, p) ==
  /\ p \in Seq(Queued)
  /\ \E f \in [1..Len(p) -> 1..Len(q)] :
       /\ \A i, j \in 1..Len(p) : i < j => f[i] < f[j]
       /\ \A i \in 1..Len(p) : p[i] = q[f[i]]

LEMMA WithoutAt ==
  ASSUME NEW S, NEW q \in Seq(S), NEW k \in 1..Len(q)
  PROVE  /\ Without(q, k) \in Seq(S) /\ Len(Without(q, k)) = Len(q) - 1
         /\ \A i \in 1..(Len(q) - 1) : Without(q, k)[i] = IF i < k THEN q[i] ELSE q[i + 1]
<1>1. SubSeq(q, 1, k - 1) \in Seq(S) /\ Len(SubSeq(q, 1, k - 1)) = k - 1
  OBVIOUS
<1>2. \A i \in 1..(k - 1) : SubSeq(q, 1, k - 1)[i] = q[i]
  OBVIOUS
<1>3. SubSeq(q, k + 1, Len(q)) \in Seq(S) /\ Len(SubSeq(q, k + 1, Len(q))) = Len(q) - k
  OBVIOUS
<1>4. \A i \in 1..(Len(q) - k) : SubSeq(q, k + 1, Len(q))[i] = q[k + i]
  OBVIOUS
<1> DEFINE u == SubSeq(q, 1, k - 1)
           v == SubSeq(q, k + 1, Len(q))
<1> HIDE DEF u, v
<1>5. u \in Seq(S) /\ Len(u) = k - 1 /\ \A i \in 1..(k - 1) : u[i] = q[i]
  BY <1>1, <1>2 DEF u
<1>6. v \in Seq(S) /\ Len(v) = Len(q) - k /\ \A i \in 1..(Len(q) - k) : v[i] = q[k + i]
  BY <1>3, <1>4 DEF v
<1>7. u \o v \in Seq(S) /\ Len(u \o v) = Len(q) - 1
  BY <1>5, <1>6
<1>8. \A i \in 1..(Len(q) - 1) : (u \o v)[i] = IF i < k THEN q[i] ELSE q[i + 1]
  <2> TAKE i \in 1..(Len(q) - 1)
  <2>1. (u \o v)[i] = IF i <= Len(u) THEN u[i] ELSE v[i - Len(u)]
    BY <1>5, <1>6
  <2>2. CASE i < k
    BY <2>1, <2>2, <1>5
  <2>3. CASE ~(i < k)
    <3>1. i - (k - 1) \in 1..(Len(q) - k) /\ k + (i - (k - 1)) = i + 1
      BY <2>3
    <3> QED BY <3>1, <2>1, <2>3, <1>5, <1>6
  <2> QED BY <2>2, <2>3
<1> QED BY <1>7, <1>8 DEF Without, u, v

LEMMA WithoutThins ==
  ASSUME NEW q \in Seq(Queued), NEW k \in 1..Len(q)
  PROVE  Thinned(q, Without(q, k))
<1> DEFINE p == Without(q, k)
           f == [i \in 1..(Len(q) - 1) |-> IF i < k THEN i ELSE i + 1]
<1>1. p \in Seq(Queued) /\ Len(p) = Len(q) - 1
      /\ \A i \in 1..(Len(q) - 1) : p[i] = IF i < k THEN q[i] ELSE q[i + 1]
  BY WithoutAt
<1>2. f \in [1..Len(p) -> 1..Len(q)]
  BY <1>1
<1>3. \A i, j \in 1..Len(p) : i < j => f[i] < f[j]
  BY <1>1
<1>4. \A i \in 1..Len(p) : p[i] = q[f[i]]
  BY <1>1
<1> HIDE DEF p, f
<1>5. Thinned(q, p)
  BY <1>1, <1>2, <1>3, <1>4 DEF Thinned
<1> QED BY <1>5 DEF p

\* Which place is the k-th of two intervals, or (a = 0) of one.
LEMMA KthOfBlocks ==
  ASSUME NEW a \in Nat, NEW b \in Nat, NEW h \in Nat, a <= b, b <= h
  PROVE  LET S == (1..a) \cup ((b + 1)..h)
         IN  /\ Cardinality(S) = a + (h - b)
             /\ \A k \in 1..a : Kth(S, k) = k
             /\ \A k \in (a + 1)..(a + (h - b)) : Kth(S, k) = k + (b - a)
<1> DEFINE S == (1..a) \cup ((b + 1)..h)
           Upto(i) == {j \in S : j <= i}
<1>1. \A i \in b..h : Cardinality((1..a) \cup ((b + 1)..i)) = a + (i - b)
  <2> TAKE i \in b..h
  <2>1. /\ IsFiniteSet(1..a) /\ Cardinality(1..a) = a
        /\ IsFiniteSet((b + 1)..i) /\ Cardinality((b + 1)..i) = i - b
    BY CountInterval
  <2>2. (1..a) \cap ((b + 1)..i) = {}
    OBVIOUS
  <2>3. Cardinality((1..a) \cap ((b + 1)..i)) = 0
    BY <2>2, FS_EmptySet
  <2>4. Cardinality((1..a) \cup ((b + 1)..i)) = a + (i - b) - 0
    <3> DEFINE U == 1..a
               V == (b + 1)..i
    <3>1. IsFiniteSet(U) /\ IsFiniteSet(V)
      BY <2>1
    <3>2. Cardinality(U \cup V) = Cardinality(U) + Cardinality(V) - Cardinality(U \cap V)
      <4> HIDE DEF U, V
      <4> QED BY <3>1, FS_Union
    <3> QED BY <3>2, <2>1, <2>3
  <2> QED BY <2>4
<1>2. \A i \in 1..a : Cardinality(Upto(i)) = i
  <2> TAKE i \in 1..a
  <2>1. Upto(i) = 1..i
    OBVIOUS
  <2>2. Cardinality(1..i) = i
    BY CountInterval
  <2> QED BY <2>1, <2>2
<1>3. \A i \in (b + 1)..h : Cardinality(Upto(i)) = a + (i - b)
  <2> TAKE i \in (b + 1)..h
  <2>1. Upto(i) = (1..a) \cup ((b + 1)..i)
    OBVIOUS
  <2>2. i \in b..h
    OBVIOUS
  <2> QED BY <2>1, <2>2, <1>1
<1>4. \A k : Kth(S, k) = CHOOSE i \in S : Cardinality(Upto(i)) = k
  BY DEF Kth
<1> HIDE DEF Upto
<1>5. \A k \in 1..a : Kth(S, k) = k
  <2> TAKE k \in 1..a
  <2>1. k \in S /\ \A i \in S : Cardinality(Upto(i)) = k <=> i = k
    BY <1>2, <1>3
  <2> HIDE DEF S
  <2> QED BY <2>1, <1>4
<1>6. \A k \in (a + 1)..(a + (h - b)) : Kth(S, k) = k + (b - a)
  <2> TAKE k \in (a + 1)..(a + (h - b))
  <2>1. k + (b - a) \in S /\ \A i \in S : Cardinality(Upto(i)) = k <=> i = k + (b - a)
    BY <1>2, <1>3
  <2> HIDE DEF S
  <2> QED BY <2>1, <1>4
<1>7. Cardinality(S) = a + (h - b)
  BY <1>1
<1> QED BY <1>5, <1>6, <1>7

LEMMA KthOfInterval ==
  \A b, h \in Nat :
    b <= h => /\ Cardinality((b + 1)..h) = h - b
              /\ \A k \in 1..(h - b) : Kth((b + 1)..h, k) = k + b
<1> TAKE b, h \in Nat
<1> HAVE b <= h
<1> DEFINE S == (b + 1)..h
           Upto(i) == {j \in S : j <= i}
<1>1. Cardinality(S) = h - b
  BY CountInterval
<1>2. \A i \in S : Cardinality(Upto(i)) = i - b
  <2> TAKE i \in S
  <2>1. Upto(i) = (b + 1)..i
    OBVIOUS
  <2>2. Cardinality((b + 1)..i) = i - b
    BY CountInterval
  <2> QED BY <2>1, <2>2
<1>3. \A k : Kth(S, k) = CHOOSE i \in S : Cardinality(Upto(i)) = k
  BY DEF Kth
<1> HIDE DEF Upto
<1>4. \A k \in 1..(h - b) : Kth(S, k) = k + b
  <2> TAKE k \in 1..(h - b)
  <2>1. k + b \in S /\ \A i \in S : Cardinality(Upto(i)) = k <=> i = k + b
    BY <1>2
  <2> HIDE DEF S
  <2> QED BY <2>1, <1>3
<1> QED BY <1>1, <1>4

\* The classes of a sorted list are intervals of it.
Bounds(q, b) ==
  /\ b \in [0..3 -> 0..Len(q)]
  /\ b[0] = 0 /\ b[3] = Len(q)
  /\ b[0] <= b[1] /\ b[1] <= b[2] /\ b[2] <= b[3]
  /\ \A c \in Class : OfClass(q, c) = (b[c] + 1)..b[c + 1]

LEMMA Blocks ==
  ASSUME NEW q \in Seq(Queued), Increasing(q)
  PROVE  \E b : Bounds(q, b)
<1> DEFINE n == Len(q)
           D(c) == {j \in 1..n : TypeClass(q[j].type) < c}
<1>0. n \in Nat /\ \A i \in 1..n : q[i] \in Queued /\ TypeClass(q[i].type) \in 0..2
  <2>1. \A i \in 1..n : q[i] \in Queued
    OBVIOUS
  <2> QED BY <2>1, QueuedType
<1>1. \A c \in Int : \A i, j \in 1..n : i < j /\ j \in D(c) => i \in D(c)
  <2> TAKE c \in Int
  <2> TAKE i, j \in 1..n
  <2> HAVE i < j /\ j \in D(c)
  <2>1. TypeClass(q[i].type) <= TypeClass(q[j].type)
    BY <1>0 DEF Increasing, Before
  <2> QED BY <2>1, <1>0
<1>2. \A c \in Int : \E m \in 0..n : D(c) = 1..m
  <2> TAKE c \in Int
  <2>1. D(c) \in SUBSET (1..n)
    OBVIOUS
  <2>2. \A i, j \in 1..n : i < j /\ j \in D(c) => i \in D(c)
    BY <1>1
  <2> HIDE DEF D, n
  <2> QED BY <1>0, <2>1, <2>2, DownClosed
<1>3. PICK u \in 0..n : D(1) = 1..u
  <2> HIDE DEF D
  <2> QED BY <1>2
<1>4. PICK v \in 0..n : D(2) = 1..v
  <2> HIDE DEF D
  <2> QED BY <1>2
<1>5. u <= v
  <2>1. \A j \in 1..n : j \in D(1) => j \in D(2)
    BY <1>0
  <2>2. u > 0 => u \in D(1)
    BY <1>3, <1>0
  <2>3. u > 0 => u \in 1..v
    BY <2>1, <2>2, <1>4, <1>0
  <2> HIDE DEF D, n
  <2> QED BY <2>3, <1>3, <1>4, <1>0
<1>6. \A j \in 1..n : /\ TypeClass(q[j].type) = 0 <=> j <= u
                      /\ TypeClass(q[j].type) <= 1 <=> j <= v
  <2> TAKE j \in 1..n
  <2>1. (TypeClass(q[j].type) < 1 <=> j \in 1..u) /\ (TypeClass(q[j].type) < 2 <=> j \in 1..v)
    BY <1>3, <1>4
  <2> QED BY <2>1, <1>0
<1> HIDE DEF D
<1> DEFINE b == [c \in 0..3 |-> IF c = 0 THEN 0 ELSE IF c = 1 THEN u ELSE IF c = 2 THEN v ELSE n]
<1>7. b \in [0..3 -> 0..n] /\ b[0] = 0 /\ b[1] = u /\ b[2] = v /\ b[3] = n
  BY <1>0
<1> HIDE DEF b
<1>8. OfClass(q, 0) = 1..u
  BY <1>0, <1>6 DEF OfClass
<1>9. OfClass(q, 1) = (u + 1)..v
  BY <1>0, <1>6 DEF OfClass
<1>10. OfClass(q, 2) = (v + 1)..n
  BY <1>0, <1>6 DEF OfClass
<1>11. \A c \in Class : OfClass(q, c) = (b[c] + 1)..b[c + 1]
  <2>1. \A c \in Class : c = 0 \/ c = 1 \/ c = 2
    BY DEF Class
  <2> QED BY <2>1, <1>7, <1>8, <1>9, <1>10
<1>12. Bounds(q, b)
  BY <1>0, <1>5, <1>7, <1>11 DEF Bounds
<1> QED BY <1>12

\* Filtering out the evolution tasks keeps the classes on both sides.
LEMMA DropAt ==
  ASSUME NEW q \in Seq(Queued), NEW b, Bounds(q, b)
  PROVE  LET p == At(q, {i \in 1..Len(q) : q[i].type # "evolution"})
         IN  /\ p \in Seq(Queued) /\ Len(p) = b[1] + (Len(q) - b[2])
             /\ \A i \in 1..b[1] : p[i] = q[i]
             /\ \A i \in (b[1] + 1)..Len(p) : p[i] = q[i + (b[2] - b[1])]
<1> DEFINE n == Len(q)
           S == {i \in 1..n : q[i].type # "evolution"}
           p == At(q, S)
<1>0. /\ n \in Nat /\ b[1] \in Nat /\ b[2] \in Nat /\ b[1] <= b[2] /\ b[2] <= n
      /\ \A i \in 1..n : q[i] \in Queued /\ q[i].type \in Type
  <2>1. \A i \in 1..n : q[i] \in Queued
    OBVIOUS
  <2> QED BY <2>1, QueuedType DEF Bounds
<1>1. TypeClass("evolution") = 1 /\ "evolution" \in Type
  BY DEF TypeClass, Type
<1>2. \A i \in 1..n : q[i].type # "evolution" <=> TypeClass(q[i].type) # 1
  BY <1>0, <1>1, ClassType
<1>3. OfClass(q, 1) = (b[1] + 1)..b[2]
  <2>1. \A c \in Class : OfClass(q, c) = (b[c] + 1)..b[c + 1]
    BY DEF Bounds
  <2>2. 1 \in Class /\ 1 + 1 = 2
    BY DEF Class
  <2> QED BY <2>1, <2>2
<1>4. \A i \in 1..n : TypeClass(q[i].type) # 1 <=> i \notin (b[1] + 1)..b[2]
  BY <1>3 DEF OfClass
<1>5. S = (1..b[1]) \cup ((b[2] + 1)..n)
  <2>1. \A i : i \in S <=> i \in 1..n /\ i \notin (b[1] + 1)..b[2]
    BY <1>2, <1>4
  <2> HIDE DEF S
  <2>2. \A i : i \in S <=> i \in (1..b[1]) \cup ((b[2] + 1)..n)
    BY <2>1, <1>0
  <2> QED BY <2>2
<1> HIDE DEF S
<1>6. /\ Cardinality(S) = b[1] + (n - b[2])
      /\ \A k \in 1..b[1] : Kth(S, k) = k
      /\ \A k \in (b[1] + 1)..(b[1] + (n - b[2])) : Kth(S, k) = k + (b[2] - b[1])
  <2> DEFINE U == (1..b[1]) \cup ((b[2] + 1)..n)
  <2>1. /\ Cardinality(U) = b[1] + (n - b[2])
        /\ \A k \in 1..b[1] : Kth(U, k) = k
        /\ \A k \in (b[1] + 1)..(b[1] + (n - b[2])) : Kth(U, k) = k + (b[2] - b[1])
    <3> HIDE DEF n
    <3> QED BY <1>0, KthOfBlocks
  <2>2. S = U
    BY <1>5
  <2> HIDE DEF U
  <2> QED BY <2>1, <2>2
<1>7. p = [k \in 1..(b[1] + (n - b[2])) |-> q[Kth(S, k)]]
  BY <1>6 DEF At
<1>8. \A k \in 1..(b[1] + (n - b[2])) : k \in 1..b[1] \/ k \in (b[1] + 1)..(b[1] + (n - b[2]))
  BY <1>0
<1>9. \A k \in 1..(b[1] + (n - b[2])) : Kth(S, k) \in 1..n
  BY <1>0, <1>6, <1>8
<1>10. p \in Seq(Queued) /\ Len(p) = b[1] + (n - b[2])
  <2> DEFINE m == b[1] + (n - b[2])
  <2>1. m \in Nat
    BY <1>0
  <2>2. \A k \in 1..m : q[Kth(S, k)] \in Queued
    BY <1>0, <1>9
  <2>3. p = [k \in 1..m |-> q[Kth(S, k)]]
    BY <1>7
  <2> HIDE DEF m, p
  <2>4. p \in [1..m -> Queued]
    BY <2>2, <2>3
  <2>5. p \in Seq(Queued) /\ Len(p) = m
    BY <2>1, <2>4
  <2> QED BY <2>5 DEF m, p
<1>11. \A i \in 1..b[1] : p[i] = q[i]
  BY <1>0, <1>6, <1>7
<1>12. \A i \in (b[1] + 1)..Len(p) : p[i] = q[i + (b[2] - b[1])]
  <2> TAKE i \in (b[1] + 1)..Len(p)
  <2>1. i \in (b[1] + 1)..(b[1] + (n - b[2])) /\ i \in 1..(b[1] + (n - b[2]))
    BY <1>0, <1>10
  <2>2. Kth(S, i) = i + (b[2] - b[1])
    BY <2>1, <1>6
  <2>3. p[i] = q[Kth(S, i)]
    BY <2>1, <1>7
  <2> QED BY <2>2, <2>3
<1> QED BY <1>10, <1>11, <1>12 DEF S

LEMMA DropThins ==
  ASSUME NEW q \in Seq(Queued), Increasing(q)
  PROVE  Thinned(q, At(q, {i \in 1..Len(q) : q[i].type # "evolution"}))
<1>1. PICK b : Bounds(q, b)
  BY Blocks
<1> DEFINE p == At(q, {i \in 1..Len(q) : q[i].type # "evolution"})
           f == [i \in 1..Len(p) |-> IF i <= b[1] THEN i ELSE i + (b[2] - b[1])]
<1>2. /\ Len(q) \in Nat /\ b[1] \in Nat /\ b[2] \in Nat /\ b[1] <= b[2] /\ b[2] <= Len(q)
  BY <1>1 DEF Bounds
<1>3. /\ p \in Seq(Queued) /\ Len(p) = b[1] + (Len(q) - b[2])
      /\ \A i \in 1..b[1] : p[i] = q[i]
      /\ \A i \in (b[1] + 1)..Len(p) : p[i] = q[i + (b[2] - b[1])]
  BY <1>1, DropAt
<1> HIDE DEF p
<1>4. f \in [1..Len(p) -> 1..Len(q)]
  BY <1>2, <1>3
<1>5. \A i, j \in 1..Len(p) : i < j => f[i] < f[j]
  BY <1>2, <1>3
<1>6. \A i \in 1..Len(p) : p[i] = q[f[i]]
  <2> TAKE i \in 1..Len(p)
  <2>1. CASE i <= b[1]
    <3>1. f[i] = i /\ i \in 1..b[1]
      BY <2>1, <1>2
    <3> QED BY <3>1, <1>3
  <2>2. CASE ~(i <= b[1])
    <3>1. f[i] = i + (b[2] - b[1]) /\ i \in (b[1] + 1)..Len(p)
      BY <2>2, <1>2, <1>3
    <3> QED BY <3>1, <1>3
  <2> QED BY <2>1, <2>2
<1> HIDE DEF f
<1>7. Thinned(q, p)
  BY <1>3, <1>4, <1>5, <1>6 DEF Thinned
<1> QED BY <1>7 DEF p

-----------------------------------------------------------------------------
(* What the two kinds of change keep.                                      *)

LEMMA InsertedPlaces ==
  ASSUME NEW q \in Seq(Queued), NEW x, NEW m, NEW p, Inserted(q, x, m, p)
  PROVE  \A k \in 1..Len(p) :
           \/ k = m + 1 /\ p[k] = x
           \/ k <= m /\ k \in 1..Len(q) /\ p[k] = q[k]
           \/ k > m + 1 /\ k - 1 \in 1..Len(q) /\ p[k] = q[k - 1]
<1> TAKE k \in 1..Len(p)
<1>1. m \in 0..Len(q) /\ Len(p) = Len(q) + 1 /\ Len(q) \in Nat
  BY DEF Inserted
<1>2. CASE k <= m
  BY <1>1, <1>2 DEF Inserted
<1>3. CASE k = m + 1
  BY <1>1, <1>3 DEF Inserted
<1>4. CASE k > m + 1
  <2>1. k - 1 \in (m + 1)..Len(q) /\ (k - 1) + 1 = k
    BY <1>1, <1>4
  <2>2. p[(k - 1) + 1] = q[k - 1]
    BY <2>1 DEF Inserted
  <2> QED BY <2>1, <2>2, <1>1, <1>4
<1> QED BY <1>1, <1>2, <1>3, <1>4

LEMMA InsertedBack ==
  ASSUME NEW q \in Seq(Queued), NEW x, NEW m, NEW p, Inserted(q, x, m, p)
  PROVE  /\ \A k \in 1..Len(q) :
              \E l \in 1..Len(p) : p[l] = q[k] /\ l = IF k <= m THEN k ELSE k + 1
         /\ m + 1 \in 1..Len(p) /\ p[m + 1] = x
<1>1. m \in 0..Len(q) /\ Len(p) = Len(q) + 1 /\ Len(q) \in Nat
  BY DEF Inserted
<1>2. ASSUME NEW k \in 1..Len(q)
      PROVE  \E l \in 1..Len(p) : p[l] = q[k] /\ l = IF k <= m THEN k ELSE k + 1
  <2>1. CASE k <= m
    <3>1. p[k] = q[k] /\ k \in 1..Len(p)
      BY <2>1, <1>1 DEF Inserted
    <3> QED BY <3>1, <2>1
  <2>2. CASE ~(k <= m)
    <3>1. k \in (m + 1)..Len(q) /\ k + 1 \in 1..Len(p)
      BY <2>2, <1>1
    <3>2. p[k + 1] = q[k]
      BY <3>1 DEF Inserted
    <3> QED BY <3>1, <3>2, <2>2
  <2> QED BY <2>1, <2>2
<1> QED BY <1>1, <1>2 DEF Inserted

LEMMA InsertedIds ==
  ASSUME NEW q \in Seq(Queued), NEW x, NEW m, NEW p, Inserted(q, x, m, p)
  PROVE  /\ Ids(p) = Ids(q) \cup {x.id}
         /\ NoRepeat(q) /\ x.id \notin Ids(q) => NoRepeat(p)
<1>1. \A i \in Ids(p) : i \in Ids(q) \cup {x.id}
  <2> TAKE i \in Ids(p)
  <2>1. PICK k \in 1..Len(p) : p[k].id = i
    BY DEF Ids
  <2> QED BY <2>1, InsertedPlaces DEF Ids
<1>2. \A i \in Ids(q) \cup {x.id} : i \in Ids(p)
  <2> TAKE i \in Ids(q) \cup {x.id}
  <2>1. CASE i = x.id
    BY <2>1, InsertedBack DEF Ids
  <2>2. CASE i \in Ids(q)
    <3>1. PICK k \in 1..Len(q) : q[k].id = i
      BY <2>2 DEF Ids
    <3>2. PICK l \in 1..Len(p) : p[l] = q[k]
      BY InsertedBack
    <3> QED BY <3>1, <3>2 DEF Ids
  <2> QED BY <2>1, <2>2
<1>3. ASSUME NoRepeat(q), x.id \notin Ids(q)
      PROVE  NoRepeat(p)
  <2>1. ASSUME NEW i \in 1..Len(p), NEW j \in 1..Len(p), p[i].id = p[j].id, i # j
        PROVE  FALSE
    <3>1. \A k \in 1..Len(q) : q[k].id # x.id
      BY <1>3 DEF Ids
    <3>2. m \in 0..Len(q) /\ Len(q) \in Nat /\ Len(p) = Len(q) + 1
      BY DEF Inserted
    <3>3. \/ i = m + 1 /\ p[i] = x
          \/ i <= m /\ i \in 1..Len(q) /\ p[i] = q[i]
          \/ i > m + 1 /\ i - 1 \in 1..Len(q) /\ p[i] = q[i - 1]
      BY InsertedPlaces
    <3>4. \/ j = m + 1 /\ p[j] = x
          \/ j <= m /\ j \in 1..Len(q) /\ p[j] = q[j]
          \/ j > m + 1 /\ j - 1 \in 1..Len(q) /\ p[j] = q[j - 1]
      BY InsertedPlaces
    <3>5. \A k, l \in 1..Len(q) : q[k].id = q[l].id => k = l
      BY <1>3 DEF NoRepeat
    <3>6. CASE i = m + 1 /\ p[i] = x
      BY <3>6, <2>1, <3>1, <3>4
    <3>7. CASE j = m + 1 /\ p[j] = x
      BY <3>7, <2>1, <3>1, <3>3
    <3>8. CASE ~(i = m + 1 /\ p[i] = x) /\ ~(j = m + 1 /\ p[j] = x)
      <4> DEFINE f == IF i <= m THEN i ELSE i - 1
                 g == IF j <= m THEN j ELSE j - 1
      <4>1. f \in 1..Len(q) /\ p[i] = q[f]
        BY <3>8, <3>2, <3>3
      <4>2. g \in 1..Len(q) /\ p[j] = q[g]
        BY <3>8, <3>2, <3>4
      <4>3. f # g
        <5>1. (i <= m \/ i > m + 1) /\ (j <= m \/ j > m + 1) /\ m \in Int
          BY <3>8, <3>2, <3>3, <3>4
        <5>2. i \in Int /\ j \in Int /\ i # j
          BY <2>1, <3>2
        <5> QED BY <5>1, <5>2
      <4> HIDE DEF f, g
      <4> QED BY <4>1, <4>2, <4>3, <3>5, <2>1
    <3> QED BY <3>6, <3>7, <3>8
  <2> QED BY <2>1 DEF NoRepeat
<1> QED BY <1>1, <1>2, <1>3

\* A new task stays between those before it and those after it.
LEMMA InsertedIncreasing ==
  ASSUME NEW q \in Seq(Queued), Increasing(q), NEW x \in Queued, NEW m, NEW p,
         Inserted(q, x, m, p),
         \A j \in 1..m : Before(q[j], x),
         \A j \in (m + 1)..Len(q) : Before(x, q[j])
  PROVE  Increasing(p)
<1>1. m \in 0..Len(q) /\ Len(q) \in Nat /\ Len(p) = Len(q) + 1
  BY DEF Inserted
<1>2. ASSUME NEW i \in 1..Len(p), NEW j \in 1..Len(p), i < j
      PROVE  Before(p[i], p[j])
  <2>1. \/ i = m + 1 /\ p[i] = x
        \/ i <= m /\ i \in 1..Len(q) /\ p[i] = q[i]
        \/ i > m + 1 /\ i - 1 \in 1..Len(q) /\ p[i] = q[i - 1]
    BY InsertedPlaces
  <2>2. \/ j = m + 1 /\ p[j] = x
        \/ j <= m /\ j \in 1..Len(q) /\ p[j] = q[j]
        \/ j > m + 1 /\ j - 1 \in 1..Len(q) /\ p[j] = q[j - 1]
    BY InsertedPlaces
  <2>3. \A k, l \in 1..Len(q) : k < l => Before(q[k], q[l])
    BY DEF Increasing
  <2>4. CASE i = m + 1
    BY <2>4, <2>1, <2>2, <1>1, <1>2
  <2>5. CASE j = m + 1
    BY <2>5, <2>1, <2>2, <1>1, <1>2
  <2>6. CASE i # m + 1 /\ j # m + 1
    BY <2>6, <2>1, <2>2, <2>3, <1>1, <1>2
  <2> QED BY <2>4, <2>5, <2>6
<1> QED BY <1>2 DEF Increasing

LEMMA ThinnedKeeps ==
  ASSUME NEW q \in Seq(Queued), NEW p, Thinned(q, p)
  PROVE  /\ p \in Seq(Queued) /\ Ids(p) \subseteq Ids(q)
         /\ Increasing(q) => Increasing(p)
         /\ NoRepeat(q) => NoRepeat(p)
         /\ \A i \in 1..Len(p) : \E k \in 1..Len(q) : p[i] = q[k]
<1>1. PICK f \in [1..Len(p) -> 1..Len(q)] :
        /\ \A i, j \in 1..Len(p) : i < j => f[i] < f[j]
        /\ \A i \in 1..Len(p) : p[i] = q[f[i]]
  BY DEF Thinned
<1>2. p \in Seq(Queued) /\ Len(p) \in Nat /\ Len(q) \in Nat
  BY DEF Thinned
<1>3. \A i \in 1..Len(p) : f[i] \in 1..Len(q)
  OBVIOUS
<1>4. Ids(p) \subseteq Ids(q)
  BY <1>1, <1>3 DEF Ids
<1>5. Increasing(q) => Increasing(p)
  BY <1>1, <1>3 DEF Increasing
<1>6. \A i, j \in 1..Len(p) : f[i] = f[j] => i = j
  BY <1>1, <1>2, <1>3
<1>7. NoRepeat(q) => NoRepeat(p)
  BY <1>1, <1>3, <1>6 DEF NoRepeat
<1> QED BY <1>1, <1>2, <1>3, <1>4, <1>5, <1>7

\* enqueue_task puts the task at its place of the sorted list, which stays
\* sorted.
LEMMA EnqueueInserts ==
  ASSUME TypeOK, Sorted, NEW item \in Item, NEW front \in BOOLEAN, Enqueue(item, front)
  PROVE  /\ seqCounter' \in 0..MaxSeq /\ seqCounter' = seqCounter + 1
         /\ Sorted'
         /\ \E x \in Queued, m \in 0..Len(PENDING) :
              /\ x.id = item.id /\ x.type = item.type
              /\ x.seq = IF front THEN -(seqCounter + 1) ELSE seqCounter + 1
              /\ \A j \in 1..m : Before(PENDING[j], x)
              /\ \A j \in (m + 1)..Len(PENDING) : Before(x, PENDING[j])
              /\ Inserted(PENDING, x, m, PENDING')
<1> DEFINE x == [id |-> item.id, type |-> item.type, seq |-> SequenceNumber(front)]
<1>0. /\ PENDING \in Seq(Queued) /\ seqCounter \in Nat /\ MaxSeq \in Nat /\ seqCounter <= MaxSeq
  BY TaskQueueAssumption DEF TypeOK
<1>1. seqCounter' \in 0..MaxSeq /\ seqCounter' = seqCounter + 1
  BY <1>0 DEF Enqueue
<1>2. x.seq = (IF front THEN -(seqCounter + 1) ELSE seqCounter + 1) /\ x.seq \in Int
  BY <1>0 DEF SequenceNumber
<1>3. x \in Queued /\ x.id = item.id /\ x.type = item.type
  BY <1>2 DEF Item, Queued
<1>4. PENDING' = sort_pending(Append(PENDING, x))
  BY DEF Enqueue
<1> HIDE DEF x
<1>5. Increasing(PENDING)
  BY DEF Sorted, Increasing
<1>6. \A j \in 1..Len(PENDING) :
        /\ PENDING[j] \in Queued /\ PENDING[j].seq \in Int
        /\ -seqCounter <= PENDING[j].seq /\ PENDING[j].seq <= seqCounter
  BY <1>0, QueuedType DEF Sorted
<1>7. \A j \in 1..Len(PENDING) : PENDING[j].seq # x.seq
  BY <1>0, <1>2, <1>6
<1>8. PICK m \in 0..Len(PENDING) :
        /\ \A j \in 1..m : Before(PENDING[j], x)
        /\ \A j \in (m + 1)..Len(PENDING) : Before(x, PENDING[j])
        /\ Inserted(PENDING, x, m, PENDING')
  BY <1>0, <1>3, <1>4, <1>5, <1>7, SortInserts
<1>9. Increasing(PENDING')
  BY <1>0, <1>3, <1>5, <1>8, InsertedIncreasing
<1>10. \A i \in 1..Len(PENDING') :
         -seqCounter' <= PENDING'[i].seq /\ PENDING'[i].seq <= seqCounter'
  <2> TAKE i \in 1..Len(PENDING')
  <2>1. PENDING'[i] = x \/ \E j \in 1..Len(PENDING) : PENDING'[i] = PENDING[j]
    BY <1>0, <1>8, InsertedPlaces
  <2>2. CASE PENDING'[i] = x
    BY <2>2, <1>0, <1>1, <1>2
  <2>3. CASE \E j \in 1..Len(PENDING) : PENDING'[i] = PENDING[j]
    BY <2>3, <1>0, <1>1, <1>6
  <2> QED BY <2>1, <2>2, <2>3
<1>11. Sorted'
  BY <1>9, <1>10 DEF Sorted, Increasing
<1> QED BY <1>1, <1>2, <1>3, <1>8, <1>11

\* A list that is thinned stays sorted.
LEMMA ThinningSorted ==
  ASSUME TypeOK, Sorted, seqCounter' = seqCounter, Thinned(PENDING, PENDING')
  PROVE  Sorted'
<1>0. PENDING \in Seq(Queued)
  BY DEF TypeOK
<1>1. Increasing(PENDING') /\ \A i \in 1..Len(PENDING') : \E k \in 1..Len(PENDING) : PENDING'[i] = PENDING[k]
  <2>1. Increasing(PENDING)
    BY DEF Sorted, Increasing
  <2> QED BY <1>0, <2>1, ThinnedKeeps
<1>2. \A i \in 1..Len(PENDING') :
        -seqCounter' <= PENDING'[i].seq /\ PENDING'[i].seq <= seqCounter'
  BY <1>1 DEF Sorted
<1> QED BY <1>1, <1>2 DEF Sorted, Increasing

-----------------------------------------------------------------------------
(* The snapshot.                                                           *)

LEMMA RowsOf ==
  ASSUME NEW q \in Seq(Queued)
  PROVE  /\ Rows(q) \in Seq(Item) /\ Len(Rows(q)) = Len(q)
         /\ \A i \in 1..Len(q) : Rows(q)[i].id = q[i].id /\ Rows(q)[i].type = q[i].type
         /\ Ids(Rows(q)) = Ids(q)
         /\ NoRepeat(q) => NoRepeat(Rows(q))
         /\ Increasing(q) => \A i, j \in 1..Len(q) : i < j =>
              TypeClass(Rows(q)[i].type) <= TypeClass(Rows(q)[j].type)
<1>1. \A i \in 1..Len(q) : q[i] \in Queued /\ Strip(q[i]) \in Item
  <2> TAKE i \in 1..Len(q)
  <2>1. q[i] \in Queued
    OBVIOUS
  <2> QED BY <2>1, QueuedType DEF Strip, Item
<1>2. Rows(q) \in Seq(Item) /\ Len(Rows(q)) = Len(q)
  BY <1>1 DEF Rows
<1>3. \A i \in 1..Len(q) : Rows(q)[i].id = q[i].id /\ Rows(q)[i].type = q[i].type
  BY DEF Rows, Strip
<1>4. Ids(Rows(q)) = Ids(q)
  BY <1>2, <1>3 DEF Ids
<1>5. NoRepeat(q) => NoRepeat(Rows(q))
  BY <1>2, <1>3 DEF NoRepeat
<1>6. Increasing(q) => \A i, j \in 1..Len(q) : i < j =>
        TypeClass(Rows(q)[i].type) <= TypeClass(Rows(q)[j].type)
  <2>1. ASSUME Increasing(q), NEW i \in 1..Len(q), NEW j \in 1..Len(q), i < j
        PROVE  TypeClass(q[i].type) <= TypeClass(q[j].type)
    BY <2>1, <1>1, QueuedType DEF Increasing, Before
  <2> QED BY <2>1, <1>3
<1> QED BY <1>2, <1>3, <1>4, <1>5, <1>6

\* A save writes the list or leaves the file.
LEMMA SaveWrites ==
  ASSUME TypeOK, Saved, NEW q \in Seq(Queued), Increasing(q), NoRepeat(q), Save(q)
  PROVE  /\ snapshot' \in [rows : Seq(Item), fresh : BOOLEAN]
         /\ Saved'
         /\ snapshot'.rows = Rows(q) \/ snapshot'.rows = snapshot.rows
<1>1. Rows(q) \in Seq(Item) /\ Len(Rows(q)) = Len(q)
  BY RowsOf
<1>2. CASE snapshot' = [rows |-> Rows(q), fresh |-> TRUE]
  <2>1. snapshot'.rows = Rows(q) /\ snapshot' \in [rows : Seq(Item), fresh : BOOLEAN]
    BY <1>1, <1>2 DEF TypeOK
  <2>2. NoRepeat(Rows(q)) /\ \A i, j \in 1..Len(Rows(q)) : i < j =>
          TypeClass(Rows(q)[i].type) <= TypeClass(Rows(q)[j].type)
    BY <1>1, RowsOf
  <2> QED BY <2>1, <2>2 DEF Saved
<1>3. CASE UNCHANGED snapshot
  BY <1>3 DEF TypeOK, Saved, NoRepeat
<1> QED BY <1>2, <1>3 DEF Save

\* Once the restore is over nothing more is said about it.
LEMMA RestoreOver ==
  ASSUME booted', restoring' = <<>>
  PROVE  BeforeRestore' /\ Restoring' /\ RestoreKeepsOrder'
BY DEF BeforeRestore, Restoring, RestoreKeepsOrder

LEMMA NoIds ==
  Ids(<<>>) = {}
BY DEF Ids

LEMMA IncreasingIsSorted ==
  Sorted => Increasing(PENDING)
BY DEF Sorted, Increasing

\* A task that comes from nowhere or from a worker waits in the list only.
LEMMA EnqueueOnePlace ==
  ASSUME TypeOK, OnePlace, NEW t, Ids(PENDING') = Ids(PENDING) \cup {t}, NoRepeat(PENDING'),
         restoring' = restoring, t \notin Ids(restoring),
         running' \subseteq running, \A a \in running' : a.id # t,
         taken \ {t} \subseteq taken'
  PROVE  OnePlace'
<1>1. Ids(restoring') = Ids(restoring) /\ NoRepeat(restoring')
  BY DEF OnePlace
<1>2. Ids(PENDING') \cap Ids(restoring') = {}
  BY <1>1 DEF OnePlace
<1>3. \A a, b \in running' : a.id = b.id => a = b
  BY DEF OnePlace
<1>4. \A a \in running' : a.id \in taken' \ (Ids(PENDING') \cup Ids(restoring'))
  BY <1>1 DEF OnePlace
<1>5. /\ Ids(restoring)' = Ids(restoring') /\ Ids(PENDING)' = Ids(PENDING')
      /\ NoRepeat(PENDING)' = NoRepeat(PENDING') /\ NoRepeat(restoring)' = NoRepeat(restoring')
  BY DEF Ids, NoRepeat
<1> QED BY <1>1, <1>2, <1>3, <1>4, <1>5 DEF OnePlace

LEMMA NextTyped ==
  ASSUME TypeOK, Sorted, NEW item \in Item, NEW front \in BOOLEAN, Enqueue(item, front),
         NoRepeat(PENDING), item.id \notin Ids(PENDING)
  PROVE  /\ PENDING' \in Seq(Queued) /\ seqCounter' \in 0..MaxSeq /\ Sorted'
         /\ Increasing(PENDING') /\ NoRepeat(PENDING')
         /\ Ids(PENDING') = Ids(PENDING) \cup {item.id}
<1>1. PENDING \in Seq(Queued)
  BY DEF TypeOK
<1>2. PICK x \in Queued, m \in 0..Len(PENDING) :
        x.id = item.id /\ Inserted(PENDING, x, m, PENDING')
  BY EnqueueInserts
<1>3. seqCounter' \in 0..MaxSeq /\ Sorted'
  BY EnqueueInserts
<1>4. PENDING' \in Seq(Queued)
  BY <1>2 DEF Inserted
<1>5. Ids(PENDING') = Ids(PENDING) \cup {item.id} /\ NoRepeat(PENDING')
  BY <1>1, <1>2, InsertedIds
<1>6. Increasing(PENDING')
  BY <1>3 DEF Sorted, Increasing
<1> QED BY <1>3, <1>4, <1>5, <1>6

-----------------------------------------------------------------------------
(* The order of the rows of a snapshot in the list.                        *)

OrderKept(rows, q) ==
  \A i, j \in 1..Len(rows), k, l \in 1..Len(q) :
    i < j /\ q[k].id = rows[i].id /\ q[l].id = rows[j].id => k < l

TypesKept(rows, q) ==
  \A i \in 1..Len(rows), k \in 1..Len(q) :
    q[k].id = rows[i].id => q[k].type = rows[i].type

\* A task that is no row may go anywhere.
LEMMA StrangerOrder ==
  ASSUME NEW rows \in Seq(Item), NEW q \in Seq(Queued), NEW x, NEW m, NEW p,
         Inserted(q, x, m, p), x.id \notin Ids(rows),
         OrderKept(rows, q), TypesKept(rows, q)
  PROVE  OrderKept(rows, p) /\ TypesKept(rows, p)
<1>0. m \in 0..Len(q) /\ Len(q) \in Nat /\ Len(p) = Len(q) + 1
  BY DEF Inserted
<1>1. \A i \in 1..Len(rows), k \in 1..Len(p) : p[k].id = rows[i].id =>
        \/ k <= m /\ k \in 1..Len(q) /\ p[k] = q[k]
        \/ k > m + 1 /\ k - 1 \in 1..Len(q) /\ p[k] = q[k - 1]
  BY InsertedPlaces DEF Ids
<1>2. ASSUME NEW i \in 1..Len(rows), NEW j \in 1..Len(rows),
             NEW k \in 1..Len(p), NEW l \in 1..Len(p),
             i < j, p[k].id = rows[i].id, p[l].id = rows[j].id
      PROVE  k < l
  <2>1. \/ k <= m /\ k \in 1..Len(q) /\ p[k] = q[k]
        \/ k > m + 1 /\ k - 1 \in 1..Len(q) /\ p[k] = q[k - 1]
    BY <1>1, <1>2
  <2>2. \/ l <= m /\ l \in 1..Len(q) /\ p[l] = q[l]
        \/ l > m + 1 /\ l - 1 \in 1..Len(q) /\ p[l] = q[l - 1]
    BY <1>1, <1>2
  <2> DEFINE a == IF k <= m THEN k ELSE k - 1
             b == IF l <= m THEN l ELSE l - 1
  <2>3. a \in 1..Len(q) /\ p[k] = q[a]
    BY <2>1, <1>0
  <2>4. b \in 1..Len(q) /\ p[l] = q[b]
    BY <2>2, <1>0
  <2>5. a < b
    <3> HIDE DEF a, b
    <3> QED BY <2>3, <2>4, <1>2 DEF OrderKept
  <2> QED BY <1>0, <2>5
<1>3. TypesKept(rows, p)
  <2>1. ASSUME NEW i \in 1..Len(rows), NEW k \in 1..Len(p), p[k].id = rows[i].id
        PROVE  p[k].type = rows[i].type
    <3>1. \E a \in 1..Len(q) : p[k] = q[a]
      BY <2>1, <1>1
    <3> QED BY <2>1, <3>1 DEF TypesKept
  <2> QED BY <2>1 DEF TypesKept
<1> QED BY <1>2, <1>3 DEF OrderKept

\* A row goes behind the rows that stand before it in the snapshot.
LEMMA RowOrder ==
  ASSUME NEW rows \in Seq(Item), NoRepeat(rows), NEW q \in Seq(Queued), NEW x, NEW m, NEW p,
         Inserted(q, x, m, p),
         NEW r \in 1..Len(rows), x.id = rows[r].id, x.type = rows[r].type,
         \A i \in 1..Len(rows), k \in 1..Len(q) : q[k].id = rows[i].id => i < r /\ k <= m,
         OrderKept(rows, q), TypesKept(rows, q)
  PROVE  OrderKept(rows, p) /\ TypesKept(rows, p)
<1>0. m \in 0..Len(q) /\ Len(q) \in Nat /\ Len(p) = Len(q) + 1 /\ Len(rows) \in Nat
  BY DEF Inserted
<1>1. \A i \in 1..Len(rows), k \in 1..Len(p) : p[k].id = rows[i].id =>
        \/ k = m + 1 /\ p[k] = x /\ i = r
        \/ k <= m /\ k \in 1..Len(q) /\ p[k] = q[k] /\ i < r
  <2> TAKE i \in 1..Len(rows), k \in 1..Len(p)
  <2> HAVE p[k].id = rows[i].id
  <2>1. CASE k = m + 1 /\ p[k] = x
    BY <2>1 DEF NoRepeat
  <2>2. CASE k <= m /\ k \in 1..Len(q) /\ p[k] = q[k]
    BY <2>2
  <2>3. CASE k > m + 1 /\ k - 1 \in 1..Len(q) /\ p[k] = q[k - 1]
    <3>1. k - 1 <= m
      BY <2>3
    <3> QED BY <3>1, <2>3, <1>0
  <2> QED BY <2>1, <2>2, <2>3, InsertedPlaces
<1>2. ASSUME NEW i \in 1..Len(rows), NEW j \in 1..Len(rows),
             NEW k \in 1..Len(p), NEW l \in 1..Len(p),
             i < j, p[k].id = rows[i].id, p[l].id = rows[j].id
      PROVE  k < l
  <2>1. \/ k = m + 1 /\ p[k] = x /\ i = r
        \/ k <= m /\ k \in 1..Len(q) /\ p[k] = q[k] /\ i < r
    BY <1>1, <1>2
  <2>2. \/ l = m + 1 /\ p[l] = x /\ j = r
        \/ l <= m /\ l \in 1..Len(q) /\ p[l] = q[l] /\ j < r
    BY <1>1, <1>2
  <2>3. i \in Int /\ j \in Int /\ r \in Int /\ m \in Int /\ i < j
    BY <1>0, <1>2
  <2>4. CASE k = m + 1
    BY <2>4, <2>1, <2>2, <2>3
  <2>5. CASE l = m + 1
    BY <2>5, <2>1, <2>2, <2>3
  <2>6. CASE k # m + 1 /\ l # m + 1
    <3>1. q[k].id = rows[i].id /\ q[l].id = rows[j].id /\ k \in 1..Len(q) /\ l \in 1..Len(q)
      BY <2>1, <2>2, <2>6, <1>2
    <3> QED BY <3>1, <1>2 DEF OrderKept
  <2> QED BY <2>4, <2>5, <2>6
<1>3. TypesKept(rows, p)
  <2>1. ASSUME NEW i \in 1..Len(rows), NEW k \in 1..Len(p), p[k].id = rows[i].id
        PROVE  p[k].type = rows[i].type
    <3>1. CASE p[k] = x /\ i = r
      BY <3>1
    <3>2. CASE k \in 1..Len(q) /\ p[k] = q[k]
      BY <3>2, <2>1 DEF TypesKept
    <3> QED BY <2>1, <1>1, <3>1, <3>2
  <2> QED BY <2>1 DEF TypesKept
<1> QED BY <1>2, <1>3 DEF OrderKept

LEMMA ThinnedOrder ==
  ASSUME NEW rows, NEW q \in Seq(Queued), NEW p, Thinned(q, p),
         OrderKept(rows, q), TypesKept(rows, q)
  PROVE  OrderKept(rows, p) /\ TypesKept(rows, p)
<1>1. PICK f \in [1..Len(p) -> 1..Len(q)] :
        /\ \A i, j \in 1..Len(p) : i < j => f[i] < f[j]
        /\ \A i \in 1..Len(p) : p[i] = q[f[i]]
  BY DEF Thinned
<1>2. Len(p) \in Nat /\ Len(q) \in Nat /\ \A i \in 1..Len(p) : f[i] \in 1..Len(q)
  BY DEF Thinned
<1>3. \A k, l \in 1..Len(p) : f[k] < f[l] => k < l
  <2> TAKE k, l \in 1..Len(p)
  <2>1. f[k] \in Int /\ f[l] \in Int /\ (l < k => f[l] < f[k]) /\ (k = l => f[k] = f[l])
    BY <1>1, <1>2
  <2> QED BY <2>1, <1>2
<1>4. OrderKept(rows, p)
  <2>1. ASSUME NEW i \in 1..Len(rows), NEW j \in 1..Len(rows),
               NEW k \in 1..Len(p), NEW l \in 1..Len(p),
               i < j, p[k].id = rows[i].id, p[l].id = rows[j].id
        PROVE  k < l
    <3>1. f[k] \in 1..Len(q) /\ f[l] \in 1..Len(q)
          /\ q[f[k]].id = rows[i].id /\ q[f[l]].id = rows[j].id
      BY <2>1, <1>1, <1>2
    <3>2. f[k] < f[l]
      BY <2>1, <3>1 DEF OrderKept
    <3> QED BY <3>2, <1>3
  <2> QED BY <2>1 DEF OrderKept
<1>5. TypesKept(rows, p)
  <2>1. ASSUME NEW i \in 1..Len(rows), NEW k \in 1..Len(p), p[k].id = rows[i].id
        PROVE  p[k].type = rows[i].type
    <3>1. f[k] \in 1..Len(q) /\ p[k] = q[f[k]]
      BY <1>1, <1>2
    <3> QED BY <2>1, <3>1 DEF TypesKept
  <2> QED BY <2>1 DEF TypesKept
<1> QED BY <1>4, <1>5

LEMMA OwnOrder ==
  ASSUME NEW q \in Seq(Queued), NoRepeat(q)
  PROVE  OrderKept(Rows(q), q) /\ TypesKept(Rows(q), q)
<1>1. Len(Rows(q)) = Len(q)
      /\ \A i \in 1..Len(q) : Rows(q)[i].id = q[i].id /\ Rows(q)[i].type = q[i].type
  BY RowsOf
<1>2. \A i, k \in 1..Len(q) : q[k].id = Rows(q)[i].id => k = i
  BY <1>1 DEF NoRepeat
<1> QED BY <1>1, <1>2 DEF OrderKept, TypesKept

\* The two parts of the invariant in these words.
RestOfRows ==
  \/ Ids(snapshot.rows) \cap Ids(restoring) = {}
  \/ /\ Len(restoring) <= Len(snapshot.rows)
     /\ \A j \in 1..Len(restoring) :
          restoring[j] = snapshot.rows[Len(snapshot.rows) - Len(restoring) + j]

LEMMA RestoringMeans ==
  Restoring /\ RestoreKeepsOrder <=>
    (restoring # <<>> =>
       /\ OrderKept(snapshot.rows, PENDING) /\ TypesKept(snapshot.rows, PENDING)
       /\ RestOfRows)
BY DEF Restoring, RestoreKeepsOrder, OrderKept, TypesKept, RestOfRows

LEMMA RestoringMeansNext ==
  (Restoring /\ RestoreKeepsOrder)' <=>
    (restoring' # <<>> =>
       /\ OrderKept(snapshot'.rows, PENDING') /\ TypesKept(snapshot'.rows, PENDING')
       /\ RestOfRows')
BY DEF Restoring, RestoreKeepsOrder, OrderKept, TypesKept, RestOfRows

-----------------------------------------------------------------------------
(* The invariant is inductive: one lemma per action.                       *)

LEMMA InvInit ==
  Init => IInv
<1> SUFFICES ASSUME Init PROVE IInv
  OBVIOUS
<1>1. TypeOK
  <2>1. PENDING \in Seq(Queued) /\ restoring \in Seq(Item) /\ seqCounter \in 0..MaxSeq
    BY TaskQueueAssumption DEF Init
  <2>2. snapshot \in [rows : Seq(Item), fresh : BOOLEAN]
    BY DEF Init
  <2>3. /\ running \subseteq Item /\ booted \in BOOLEAN /\ unsaved \in BOOLEAN /\ taken \subseteq TaskId
        /\ resume \in {"sleep", "assign", "done"}
    BY DEF Init
  <2> QED BY <2>1, <2>2, <2>3 DEF TypeOK
<1>2. Sorted /\ OnePlace /\ Saved
  BY DEF Init, Sorted, OnePlace, Saved, NoRepeat, Ids
<1>3. BeforeRestore /\ Restoring /\ RestoreKeepsOrder
  BY DEF Init, BeforeRestore, Restoring, RestoreKeepsOrder, Ids
<1> QED BY <1>1, <1>2, <1>3 DEF IInv

LEMMA InvRestoreBegin ==
  ASSUME IInv, RestoreBegin
  PROVE  IInv'
<1>0. /\ ~booted /\ restoring = <<>>
      /\ UNCHANGED <<PENDING, seqCounter, running, snapshot, resume, unsaved, taken>>
  BY DEF RestoreBegin
<1>1. CASE PENDING = <<>> /\ snapshot.fresh /\ snapshot.rows # <<>>
  <2>1. restoring' = snapshot.rows /\ booted' = booted
    BY <1>1 DEF RestoreBegin
  <2>2. TypeOK' /\ Sorted' /\ Saved'
    BY <1>0, <2>1 DEF IInv, TypeOK, Sorted, Saved
  <2>3. NoRepeat(restoring') /\ Ids(snapshot.rows) \cap {a.id : a \in running} = {}
    BY <1>0, <2>1 DEF IInv, Saved, BeforeRestore
  <2>4. OnePlace'
    <3>1. Ids(PENDING) = {} /\ \A a \in running : a.id \notin Ids(snapshot.rows)
      BY <1>1, <2>3, NoIds
    <3>2. /\ Ids(restoring)' = Ids(snapshot.rows) /\ Ids(PENDING)' = Ids(PENDING)
          /\ NoRepeat(restoring)' = NoRepeat(restoring') /\ NoRepeat(PENDING)' = NoRepeat(PENDING)
      BY <1>0, <2>1 DEF Ids, NoRepeat
    <3>3. /\ NoRepeat(PENDING) /\ (\A a, b \in running : a.id = b.id => a = b)
          /\ \A a \in running : a.id \in taken
      BY DEF IInv, OnePlace
    <3> QED BY <1>0, <2>3, <3>1, <3>2, <3>3 DEF OnePlace
  <2>5. BeforeRestore'
    BY <1>0, <1>1, <2>1 DEF BeforeRestore
  <2>6. Restoring' /\ RestoreKeepsOrder'
    BY <1>0, <1>1, <2>1 DEF IInv, TypeOK, Restoring, RestoreKeepsOrder
  <2> QED BY <2>2, <2>4, <2>5, <2>6 DEF IInv
<1>2. CASE ~(PENDING = <<>> /\ snapshot.fresh /\ snapshot.rows # <<>>)
  <2>1. booted' = TRUE /\ restoring' = restoring
    BY <1>2 DEF RestoreBegin
  <2>2. TypeOK' /\ Sorted' /\ Saved' /\ OnePlace'
    BY <1>0, <2>1 DEF IInv, TypeOK, Sorted, Saved, OnePlace, NoRepeat, Ids
  <2>3. BeforeRestore' /\ Restoring' /\ RestoreKeepsOrder'
    BY <1>0, <2>1, RestoreOver
  <2> QED BY <2>2, <2>3 DEF IInv
<1> QED BY <1>1, <1>2

\* The next row is queued behind the rows before it, and is no longer to be
\* restored.
LEMMA RestoreRowOrder ==
  ASSUME IInv, RestoreRow
  PROVE  (Restoring /\ RestoreKeepsOrder)'
<1>0. /\ restoring # <<>> /\ restoring \in Seq(Item) /\ Head(restoring) \in Item
      /\ Enqueue(Head(restoring), FALSE) /\ restoring' = Tail(restoring)
      /\ (restoring' # <<>> => snapshot' = snapshot)
      /\ snapshot.rows \in Seq(Item) /\ PENDING \in Seq(Queued)
  <2>1. restoring \in Seq(Item) /\ snapshot.rows \in Seq(Item) /\ PENDING \in Seq(Queued)
    BY DEF IInv, TypeOK
  <2>2. /\ restoring # <<>> /\ Enqueue(Head(restoring), FALSE) /\ restoring' = Tail(restoring)
        /\ (Tail(restoring) # <<>> => snapshot' = snapshot)
    BY Zenon DEF RestoreRow, RestoredAt
  <2>3. Head(restoring) \in Item
    BY <2>1, <2>2
  <2> QED BY <2>1, <2>2, <2>3
<1>1. PICK x \in Queued, m \in 0..Len(PENDING) :
        /\ x.id = Head(restoring).id /\ x.type = Head(restoring).type
        /\ x.seq = seqCounter + 1
        /\ \A j \in (m + 1)..Len(PENDING) : Before(x, PENDING[j])
        /\ Inserted(PENDING, x, m, PENDING')
  BY <1>0, EnqueueInserts DEF IInv
<1>2. OrderKept(snapshot.rows, PENDING) /\ TypesKept(snapshot.rows, PENDING) /\ RestOfRows
  BY <1>0, RestoringMeans DEF IInv
<1> SUFFICES ASSUME restoring' # <<>>
             PROVE  /\ OrderKept(snapshot.rows, PENDING') /\ TypesKept(snapshot.rows, PENDING')
                    /\ RestOfRows'
  BY <1>0, RestoringMeansNext
<1> DEFINE N == Len(snapshot.rows)
           r == Len(restoring)
<1>3. /\ r \in Nat /\ r >= 1 /\ Len(restoring') = r - 1 /\ N \in Nat
      /\ Head(restoring) = restoring[1]
      /\ \A j \in 1..(r - 1) : restoring'[j] = restoring[j + 1]
  BY <1>0
<1>4. Ids(restoring') \subseteq Ids(restoring) /\ x.id \in Ids(restoring)
  <2>1. \A j \in 1..(r - 1) : j + 1 \in 1..r /\ restoring'[j].id = restoring[j + 1].id
    BY <1>3
  <2>2. 1 \in 1..r /\ x.id = restoring[1].id
    BY <1>1, <1>3
  <2>3. Ids(restoring) = {restoring[j].id : j \in 1..r}
    BY DEF Ids
  <2>4. Ids(restoring') = {restoring'[j].id : j \in 1..(r - 1)}
    <3>1. Ids(restoring') = {restoring'[j].id : j \in 1..Len(restoring')}
      BY DEF Ids
    <3> QED BY <3>1, <1>3
  <2> HIDE DEF r
  <2> QED BY <2>1, <2>2, <2>3, <2>4
<1>5. CASE Ids(snapshot.rows) \cap Ids(restoring) = {}
  <2>1. OrderKept(snapshot.rows, PENDING') /\ TypesKept(snapshot.rows, PENDING')
    BY <1>0, <1>1, <1>2, <1>4, <1>5, StrangerOrder
  <2>2. Ids(snapshot'.rows) \cap Ids(restoring') = {}
    BY <1>0, <1>4, <1>5
  <2>3. Ids(snapshot.rows)' = Ids(snapshot'.rows) /\ Ids(restoring)' = Ids(restoring')
    BY DEF Ids
  <2> QED BY <2>1, <2>2, <2>3 DEF RestOfRows
<1>6. CASE /\ r <= N
           /\ \A j \in 1..r : restoring[j] = snapshot.rows[N - r + j]
  <2> DEFINE p == N - r + 1
  <2>1. p \in 1..N /\ x.id = snapshot.rows[p].id /\ x.type = snapshot.rows[p].type
    BY <1>1, <1>3, <1>6
  <2>2. \A i \in 1..N, k \in 1..Len(PENDING) : PENDING[k].id = snapshot.rows[i].id => i < p
    <3> SUFFICES ASSUME NEW i \in 1..N, NEW k \in 1..Len(PENDING),
                        PENDING[k].id = snapshot.rows[i].id, ~(i < p)
                 PROVE  FALSE
      OBVIOUS
    <3>1. i - (N - r) \in 1..r /\ restoring[i - (N - r)] = snapshot.rows[N - r + (i - (N - r))]
      <4>1. i - (N - r) \in 1..r
        BY <1>3, <1>6
      <4> QED BY <4>1, <1>6
    <3>2. restoring[i - (N - r)] = snapshot.rows[i]
      BY <3>1, <1>3
    <3>3. PENDING[k].id \in Ids(PENDING) \cap Ids(restoring)
      BY <3>1, <3>2, <1>3 DEF Ids
    <3> QED BY <3>3 DEF IInv, OnePlace
  <2>3. \A i \in 1..N, k \in 1..Len(PENDING) : PENDING[k].id = snapshot.rows[i].id => k <= m
    <3> SUFFICES ASSUME NEW i \in 1..N, NEW k \in 1..Len(PENDING),
                        PENDING[k].id = snapshot.rows[i].id, ~(k <= m)
                 PROVE  FALSE
      OBVIOUS
    <3>1. Before(x, PENDING[k])
      <4>1. k \in (m + 1)..Len(PENDING)
        BY <1>0
      <4> QED BY <4>1, <1>1
    <3>2. PENDING[k].type = snapshot.rows[i].type
      BY <1>2 DEF TypesKept
    <3>3. TypeClass(snapshot.rows[i].type) <= TypeClass(snapshot.rows[p].type)
      <4>1. i < p
        BY <2>2
      <4> QED BY <4>1, <2>1 DEF IInv, Saved
    <3>4. PENDING[k] \in Queued /\ PENDING[k].seq <= seqCounter /\ seqCounter \in Nat
      BY <1>0 DEF IInv, Sorted, TypeOK
    <3>5. /\ TypeClass(PENDING[k].type) \in Int /\ TypeClass(x.type) \in Int
          /\ TypeClass(PENDING[k].type) <= TypeClass(x.type)
          /\ PENDING[k].seq \in Int /\ PENDING[k].seq < x.seq
      <4>1. PENDING[k].seq \in Int /\ x.seq \in Int
        BY <3>4, QueuedType
      <4>2. TypeClass(PENDING[k].type) \in Int /\ TypeClass(x.type) \in Int
        BY <3>4, QueuedType
      <4>3. TypeClass(PENDING[k].type) <= TypeClass(x.type)
        BY <3>2, <3>3, <2>1, <1>1
      <4>4. PENDING[k].seq < x.seq
        <5>1. x.seq = seqCounter + 1
          BY <1>1
        <5> QED BY <5>1, <4>1, <3>4
      <4> QED BY <4>1, <4>2, <4>3, <4>4
    <3>6. x.seq \in Int
      BY QueuedType
    <3> QED BY <3>1, <3>5, <3>6 DEF Before
  <2>4. OrderKept(snapshot.rows, PENDING') /\ TypesKept(snapshot.rows, PENDING')
    <3> HIDE DEF p
    <3>1. NoRepeat(snapshot.rows)
      BY DEF IInv, Saved
    <3>2. \A i \in 1..Len(snapshot.rows), k \in 1..Len(PENDING) :
            PENDING[k].id = snapshot.rows[i].id => i < p /\ k <= m
      BY <2>2, <2>3
    <3>3. snapshot.rows \in Seq(Item) /\ PENDING \in Seq(Queued) /\ p \in 1..Len(snapshot.rows)
          /\ Inserted(PENDING, x, m, PENDING')
      BY <1>0, <1>1, <2>1
    <3>4. x.id = snapshot.rows[p].id /\ x.type = snapshot.rows[p].type
      BY <2>1
    <3> QED BY <1>2, <3>1, <3>2, <3>3, <3>4, RowOrder
  <2>5. /\ Len(restoring') <= N
        /\ \A j \in 1..Len(restoring') : restoring'[j] = snapshot.rows[N - Len(restoring') + j]
    <3>1. Len(restoring') <= N
      BY <1>3, <1>6
    <3>2. ASSUME NEW j \in 1..Len(restoring')
          PROVE  restoring'[j] = snapshot.rows[N - Len(restoring') + j]
      <4>1. restoring'[j] = restoring[j + 1] /\ j + 1 \in 1..r
        BY <1>3
      <4>2. restoring[j + 1] = snapshot.rows[N - r + (j + 1)]
        BY <4>1, <1>6
      <4>3. N - r + (j + 1) = N - Len(restoring') + j
        <5>1. \A a, c, d, e \in Int : d = c - 1 => a - c + (e + 1) = a - d + e
          OBVIOUS
        <5>2. N \in Int /\ r \in Int /\ Len(restoring') \in Int /\ j \in Int
          BY <1>3
        <5> HIDE DEF N, r
        <5> QED BY <5>1, <5>2, <1>3
      <4> QED BY <4>1, <4>2, <4>3
    <3> QED BY <3>1, <3>2
  <2> QED BY <2>4, <2>5, <1>0 DEF RestOfRows
<1> QED BY <1>2, <1>5, <1>6 DEF RestOfRows

LEMMA InvRestoreRow ==
  ASSUME IInv, RestoreRow
  PROVE  IInv'
<1> DEFINE h == Head(restoring)
<1>0. /\ restoring # <<>> /\ restoring \in Seq(Item) /\ h \in Item
      /\ Enqueue(h, FALSE) /\ restoring' = Tail(restoring)
      /\ booted' = (restoring' = <<>>)
      /\ IF restoring' = <<>> THEN Save(PENDING') ELSE snapshot' = snapshot
      /\ UNCHANGED <<running, resume, unsaved, taken>>
  <2>1. restoring \in Seq(Item)
    BY DEF IInv, TypeOK
  <2>2. /\ restoring # <<>> /\ Enqueue(Head(restoring), FALSE) /\ restoring' = Tail(restoring)
        /\ booted' = (Tail(restoring) = <<>>)
        /\ IF Tail(restoring) = <<>> THEN Save(PENDING') ELSE UNCHANGED snapshot
        /\ UNCHANGED <<running, resume, unsaved, taken>>
    BY Zenon DEF RestoreRow, RestoredAt
  <2>3. Head(restoring) \in Item
    BY <2>1, <2>2
  <2> QED BY <2>1, <2>2, <2>3
<1>1. h.id \in Ids(restoring) /\ h.id \notin Ids(PENDING)
  <2>1. h = restoring[1] /\ 1 \in 1..Len(restoring)
    BY <1>0
  <2> QED BY <2>1 DEF Ids, IInv, OnePlace
<1>2. /\ PENDING' \in Seq(Queued) /\ seqCounter' \in 0..MaxSeq /\ Sorted'
      /\ Increasing(PENDING') /\ NoRepeat(PENDING')
      /\ Ids(PENDING') = Ids(PENDING) \cup {h.id}
  <2> HIDE DEF h
  <2> QED BY <1>0, <1>1, NextTyped DEF IInv, OnePlace
<1>3. /\ NoRepeat(restoring') /\ Ids(restoring') \subseteq Ids(restoring) /\ h.id \notin Ids(restoring')
  <2>1. /\ Len(restoring) \in Nat /\ Len(restoring') = Len(restoring) - 1
        /\ \A j \in 1..Len(restoring') : j + 1 \in 1..Len(restoring) /\ restoring'[j] = restoring[j + 1]
        /\ h = restoring[1] /\ 1 \in 1..Len(restoring)
    BY <1>0
  <2>2. \A i, j \in 1..Len(restoring) : restoring[i].id = restoring[j].id => i = j
    BY DEF IInv, OnePlace, NoRepeat
  <2>3. NoRepeat(restoring')
    BY <2>1, <2>2 DEF NoRepeat
  <2>4. Ids(restoring') \subseteq Ids(restoring)
    BY <2>1 DEF Ids
  <2>5. \A j \in 1..Len(restoring') : restoring'[j].id # h.id
    <3> TAKE j \in 1..Len(restoring')
    <3>1. j + 1 # 1
      OBVIOUS
    <3> QED BY <3>1, <2>1, <2>2
  <2> QED BY <2>3, <2>4, <2>5 DEF Ids
<1>4. /\ Saved'
      /\ snapshot' \in [rows : Seq(Item), fresh : BOOLEAN]
  <2>1. CASE restoring' = <<>>
    BY <2>1, <1>0, <1>2, SaveWrites DEF IInv
  <2>2. CASE restoring' # <<>>
    BY <2>2, <1>0 DEF IInv, Saved, TypeOK
  <2> QED BY <2>1, <2>2
<1>5. TypeOK'
  BY <1>0, <1>2, <1>4 DEF IInv, TypeOK
<1>6. OnePlace'
  <2>1. /\ Ids(restoring)' = Ids(restoring') /\ Ids(PENDING)' = Ids(PENDING')
        /\ NoRepeat(PENDING)' = NoRepeat(PENDING') /\ NoRepeat(restoring)' = NoRepeat(restoring')
    BY DEF Ids, NoRepeat
  <2>2. Ids(PENDING') \cap Ids(restoring') = {}
    BY <1>2, <1>3 DEF IInv, OnePlace
  <2>3. \A a \in running : a.id \in taken \ (Ids(PENDING') \cup Ids(restoring'))
    BY <1>1, <1>2, <1>3 DEF IInv, OnePlace
  <2>4. \A a, b \in running : a.id = b.id => a = b
    BY DEF IInv, OnePlace
  <2> QED BY <1>0, <1>2, <1>3, <2>1, <2>2, <2>3, <2>4 DEF OnePlace
<1>7. BeforeRestore'
  BY <1>0 DEF BeforeRestore
<1> QED BY <1>2, <1>4, <1>5, <1>6, <1>7, RestoreRowOrder DEF IInv

LEMMA Booted ==
  ASSUME IInv, booted
  PROVE  restoring = <<>> /\ Ids(restoring) = {}
BY NoIds DEF IInv, BeforeRestore

\* What a task new to the program does to the queue, saved or not.
LEMMA NewTask ==
  ASSUME IInv, NEW t \in TaskId, NEW type \in Type, ~Known(t),
         Enqueue([id |-> t, type |-> type], FALSE),
         UNCHANGED <<running, restoring, taken>>
  PROVE  /\ PENDING' \in Seq(Queued) /\ seqCounter' \in 0..MaxSeq /\ Sorted'
         /\ Increasing(PENDING') /\ NoRepeat(PENDING')
         /\ Ids(PENDING') = Ids(PENDING) \cup {t}
         /\ OnePlace'
<1> DEFINE item == [id |-> t, type |-> type]
<1>1. item \in Item /\ item.id = t
  BY DEF Item
<1>2. /\ t \notin Ids(PENDING) /\ t \notin Ids(restoring) /\ t \notin taken
      /\ t \notin Ids(snapshot.rows)
  BY DEF Known
<1>3. /\ PENDING' \in Seq(Queued) /\ seqCounter' \in 0..MaxSeq /\ Sorted'
      /\ Increasing(PENDING') /\ NoRepeat(PENDING')
      /\ Ids(PENDING') = Ids(PENDING) \cup {t}
  <2> HIDE DEF item
  <2>1. Enqueue(item, FALSE)
    BY DEF item
  <2> QED BY <1>1, <1>2, <2>1, NextTyped DEF IInv, OnePlace
<1>4. \A a \in running' : a.id # t
  BY <1>2 DEF IInv, OnePlace
<1>5. OnePlace'
  BY <1>2, <1>3, <1>4, EnqueueOnePlace DEF IInv
<1> QED BY <1>3, <1>5

LEMMA InvNewMessage ==
  ASSUME IInv, NEW t \in TaskId, NewMessage(t)
  PROVE  IInv'
<1>0. /\ booted /\ ~Known(t) /\ Enqueue([id |-> t, type |-> "task"], FALSE)
      /\ UNCHANGED <<running, snapshot, restoring, booted, resume, unsaved, taken>>
      /\ "task" \in Type
  BY DEF NewMessage, Type
<1>1. /\ PENDING' \in Seq(Queued) /\ seqCounter' \in 0..MaxSeq /\ Sorted' /\ OnePlace'
  BY <1>0, NewTask
<1>2. TypeOK' /\ Saved'
  BY <1>0, <1>1 DEF IInv, TypeOK, Saved
<1>3. BeforeRestore' /\ Restoring' /\ RestoreKeepsOrder'
  BY <1>0, Booted, RestoreOver
<1> QED BY <1>1, <1>2, <1>3 DEF IInv

LEMMA InvSchedule ==
  ASSUME IInv, NEW t \in TaskId, NEW type \in Type, Schedule(t, type)
  PROVE  IInv'
<1>0. /\ booted /\ ~Known(t) /\ Enqueue([id |-> t, type |-> type], FALSE) /\ Save(PENDING')
      /\ UNCHANGED <<running, restoring, booted, resume, unsaved, taken>>
  BY DEF Schedule
<1>1. /\ PENDING' \in Seq(Queued) /\ seqCounter' \in 0..MaxSeq /\ Sorted' /\ OnePlace'
      /\ Increasing(PENDING') /\ NoRepeat(PENDING')
  BY <1>0, NewTask
<1>2. snapshot' \in [rows : Seq(Item), fresh : BOOLEAN] /\ Saved'
  BY <1>0, <1>1, SaveWrites DEF IInv
<1>3. TypeOK'
  BY <1>0, <1>1, <1>2 DEF IInv, TypeOK
<1>4. BeforeRestore' /\ Restoring' /\ RestoreKeepsOrder'
  BY <1>0, Booted, RestoreOver
<1> QED BY <1>1, <1>2, <1>3, <1>4 DEF IInv

LEMMA InvAutoResume ==
  ASSUME IInv, NEW t \in TaskId, AutoResume(t)
  PROVE  IInv'
<1> DEFINE item == [id |-> t, type |-> "task"]
<1>0. /\ resume = "sleep" /\ ~Known(t) /\ Enqueue(item, FALSE) /\ resume' = "assign"
      /\ UNCHANGED <<running, snapshot, restoring, booted, unsaved, taken>>
      /\ "task" \in Type /\ ~unsaved
  BY DEF AutoResume, Type, Enqueue
<1>1. /\ PENDING' \in Seq(Queued) /\ seqCounter' \in 0..MaxSeq /\ Sorted' /\ OnePlace'
      /\ Ids(PENDING') = Ids(PENDING) \cup {t}
  BY <1>0, NewTask
<1>2. TypeOK' /\ Saved'
  BY <1>0, <1>1 DEF IInv, TypeOK, Saved
<1>4. PENDING \in Seq(Queued) /\ snapshot.rows \in Seq(Item) /\ t \notin Ids(snapshot.rows)
  BY <1>0 DEF IInv, TypeOK, Known
<1>5. PICK x \in Queued, m \in 0..Len(PENDING) : x.id = t /\ Inserted(PENDING, x, m, PENDING')
  <2>1. item \in Item /\ item.id = t
    BY <1>0 DEF Item
  <2> HIDE DEF item
  <2> QED BY <1>0, <2>1, EnqueueInserts DEF IInv
<1>6. Restoring' /\ RestoreKeepsOrder'
  <2> SUFFICES ASSUME restoring # <<>>
               PROVE  /\ OrderKept(snapshot.rows, PENDING') /\ TypesKept(snapshot.rows, PENDING')
                      /\ RestOfRows'
    BY <1>0, RestoringMeansNext
  <2>1. OrderKept(snapshot.rows, PENDING) /\ TypesKept(snapshot.rows, PENDING) /\ RestOfRows
    BY RestoringMeans DEF IInv
  <2>2. OrderKept(snapshot.rows, PENDING') /\ TypesKept(snapshot.rows, PENDING')
    BY <1>4, <1>5, <2>1, StrangerOrder
  <2>3. RestOfRows'
    <3>1. restoring' = restoring /\ snapshot' = snapshot
      BY <1>0
    <3>2. RestOfRows' <=> RestOfRows
      BY <3>1 DEF RestOfRows, Ids
    <3> QED BY <2>1, <3>2
  <2> QED BY <2>2, <2>3
<1>7. BeforeRestore'
  <2>1. booted => restoring = <<>>
    BY DEF IInv, BeforeRestore
  <2>2. ASSUME ~booted, restoring = <<>>
        PROVE  /\ Len(PENDING') <= 1
               /\ Ids(snapshot.rows) \cap (Ids(PENDING') \cup {a.id : a \in running}) = {}
    <3>1. PENDING = <<>> /\ Ids(snapshot.rows) \cap (Ids(PENDING) \cup {a.id : a \in running}) = {}
      BY <2>2, <1>0 DEF IInv, BeforeRestore
    <3>2. Len(PENDING') = 1
      BY <3>1, <1>5 DEF Inserted
    <3> QED BY <3>1, <3>2, <1>1, <1>4
  <2> QED BY <1>0, <2>1, <2>2 DEF BeforeRestore, Ids
<1> QED BY <1>1, <1>2, <1>6, <1>7 DEF IInv

\* What depends on the lists and the snapshot only.
LEMMA Unchanged ==
  ASSUME UNCHANGED <<PENDING, seqCounter, running, snapshot, restoring, taken>>
  PROVE  /\ Sorted' = Sorted /\ OnePlace' = OnePlace /\ Saved' = Saved
         /\ Restoring' = Restoring /\ RestoreKeepsOrder' = RestoreKeepsOrder
<1>1. Sorted' = Sorted
  BY DEF Sorted
<1>2. /\ Ids(PENDING)' = Ids(PENDING) /\ Ids(restoring)' = Ids(restoring)
      /\ Ids(snapshot.rows)' = Ids(snapshot.rows)
  BY DEF Ids
<1>3. /\ NoRepeat(PENDING)' = NoRepeat(PENDING) /\ NoRepeat(restoring)' = NoRepeat(restoring)
      /\ NoRepeat(snapshot.rows)' = NoRepeat(snapshot.rows)
  BY DEF NoRepeat
<1>4. OnePlace' = OnePlace
  BY <1>2, <1>3 DEF OnePlace
<1>5. Saved' = Saved
  BY <1>3 DEF Saved
<1>6. Restoring' = Restoring
  BY <1>2 DEF Restoring
<1>7. RestoreKeepsOrder' = RestoreKeepsOrder
  BY DEF RestoreKeepsOrder
<1> QED BY <1>1, <1>4, <1>5, <1>6, <1>7

LEMMA InvAutoResumeEnd ==
  ASSUME IInv, AutoResumeEnd
  PROVE  IInv'
<1>1. resume = "assign" /\ resume' = "done"
      /\ UNCHANGED <<PENDING, seqCounter, running, snapshot, restoring, booted, unsaved, taken>>
  BY DEF AutoResumeEnd
<1>2. TypeOK'
  BY <1>1 DEF IInv, TypeOK
<1>3. /\ Sorted' /\ OnePlace' /\ Saved' /\ Restoring' /\ RestoreKeepsOrder'
  BY <1>1, Unchanged DEF IInv
<1>4. BeforeRestore'
  <2>1. Ids(PENDING)' = Ids(PENDING) /\ Ids(snapshot.rows)' = Ids(snapshot.rows)
    BY <1>1 DEF Ids
  <2>2. resume' # "sleep"
    BY <1>1
  <2> QED BY <1>1, <2>1, <2>2 DEF IInv, BeforeRestore
<1> QED BY <1>2, <1>3, <1>4 DEF IInv

LEMMA InvRequeue ==
  ASSUME IInv, NEW t \in TaskId, NEW item \in Item, Requeue(item, t)
  PROVE  IInv'
<1> DEFINE back == [item EXCEPT !.id = t]
<1>0. /\ booted /\ item \in running /\ (t = item.id \/ ~Known(t))
      /\ running' = running \ {item} /\ taken' = taken \ {t}
      /\ Enqueue(back, TRUE) /\ Save(PENDING')
      /\ UNCHANGED <<restoring, booted, resume, unsaved>>
  BY DEF Requeue
<1>1. back \in Item /\ back.id = t
  BY DEF Item
<1> HIDE DEF back
<1>2. t \notin Ids(PENDING) /\ t \notin Ids(restoring)
  BY <1>0 DEF Known, IInv, OnePlace
<1>3. /\ PENDING' \in Seq(Queued) /\ seqCounter' \in 0..MaxSeq /\ Sorted'
      /\ Increasing(PENDING') /\ NoRepeat(PENDING')
      /\ Ids(PENDING') = Ids(PENDING) \cup {t}
  BY <1>0, <1>1, <1>2, NextTyped DEF IInv, OnePlace
<1>4. \A a \in running' : a.id # t
  <2> TAKE a \in running'
  <2>1. a \in running /\ a # item
    BY <1>0
  <2>2. a.id \in taken /\ a.id # item.id
    BY <2>1, <1>0 DEF IInv, OnePlace
  <2> QED BY <2>2, <1>0 DEF Known
<1>5. OnePlace'
  BY <1>0, <1>2, <1>3, <1>4, EnqueueOnePlace DEF IInv
<1>6. snapshot' \in [rows : Seq(Item), fresh : BOOLEAN] /\ Saved'
  BY <1>0, <1>3, SaveWrites DEF IInv
<1>7. TypeOK'
  BY <1>0, <1>3, <1>6 DEF IInv, TypeOK
<1>8. BeforeRestore' /\ Restoring' /\ RestoreKeepsOrder'
  BY <1>0, Booted, RestoreOver
<1> QED BY <1>3, <1>5, <1>6, <1>7, <1>8 DEF IInv

\* What is left of the list when tasks leave it.
LEMMA Thinning ==
  ASSUME IInv, Thinned(PENDING, PENDING'), seqCounter' = seqCounter
  PROVE  /\ PENDING' \in Seq(Queued) /\ Sorted' /\ Ids(PENDING') \subseteq Ids(PENDING)
         /\ Increasing(PENDING') /\ NoRepeat(PENDING')
<1>1. PENDING \in Seq(Queued) /\ NoRepeat(PENDING) /\ TypeOK /\ Sorted
  BY DEF IInv, TypeOK, OnePlace
<1>2. Increasing(PENDING)
  BY <1>1, IncreasingIsSorted
<1>3. /\ PENDING' \in Seq(Queued) /\ Ids(PENDING') \subseteq Ids(PENDING)
      /\ Increasing(PENDING') /\ NoRepeat(PENDING')
  BY <1>1, <1>2, ThinnedKeeps
<1>4. Sorted'
  BY <1>1, ThinningSorted
<1> QED BY <1>3, <1>4

LEMMA ThinningOnePlace ==
  ASSUME IInv, PENDING' \in Seq(Queued), NoRepeat(PENDING'), Ids(PENDING') \subseteq Ids(PENDING),
         restoring' = restoring, taken \subseteq taken',
         \A a, b \in running' : a.id = b.id => a = b,
         \A a \in running' : a.id \in taken' \ (Ids(PENDING') \cup Ids(restoring))
  PROVE  OnePlace'
<1>1. /\ Ids(PENDING)' = Ids(PENDING') /\ Ids(restoring)' = Ids(restoring)
      /\ NoRepeat(PENDING)' = NoRepeat(PENDING') /\ NoRepeat(restoring)' = NoRepeat(restoring)
  BY DEF Ids, NoRepeat
<1> QED BY <1>1 DEF IInv, OnePlace

\* The id of the task at a place is in no other place.
LEMMA TakenOut ==
  ASSUME IInv, NEW k \in 1..Len(PENDING)
  PROVE  /\ Thinned(PENDING, Without(PENDING, k))
         /\ PENDING[k] \in Queued /\ PENDING[k].id \in Ids(PENDING)
         /\ PENDING[k].id \notin Ids(Without(PENDING, k)) \cup Ids(restoring)
         /\ Ids(Without(PENDING, k)) \subseteq Ids(PENDING)
<1>0. PENDING \in Seq(Queued)
  BY DEF IInv, TypeOK
<1>1. Thinned(PENDING, Without(PENDING, k))
  BY <1>0, WithoutThins
<1>2. PENDING[k].id \in Ids(PENDING)
  BY DEF Ids
<1>3. \A i \in 1..Len(Without(PENDING, k)) : \E j \in 1..Len(PENDING) :
        j # k /\ Without(PENDING, k)[i] = PENDING[j]
  <2> TAKE i \in 1..Len(Without(PENDING, k))
  <2>1. /\ Len(Without(PENDING, k)) = Len(PENDING) - 1
        /\ \A l \in 1..(Len(PENDING) - 1) :
             Without(PENDING, k)[l] = IF l < k THEN PENDING[l] ELSE PENDING[l + 1]
    BY <1>0, WithoutAt
  <2>2. i \in 1..(Len(PENDING) - 1) /\ i \in 1..Len(PENDING) /\ i + 1 \in 1..Len(PENDING)
    BY <1>0, <2>1
  <2> QED BY <2>1, <2>2
<1>4. PENDING[k].id \notin Ids(Without(PENDING, k))
  <2>1. \A i, j \in 1..Len(PENDING) : PENDING[i].id = PENDING[j].id => i = j
    BY DEF IInv, OnePlace, NoRepeat
  <2>2. \A i \in 1..Len(Without(PENDING, k)) : Without(PENDING, k)[i].id # PENDING[k].id
    BY <1>3, <2>1
  <2> QED BY <2>2 DEF Ids
<1>5. PENDING[k].id \notin Ids(restoring)
  BY <1>2 DEF IInv, OnePlace
<1>6. Ids(Without(PENDING, k)) \subseteq Ids(PENDING)
  BY <1>0, <1>1, ThinnedKeeps
<1>7. PENDING[k] \in Queued
  BY <1>0
<1> QED BY <1>1, <1>2, <1>4, <1>5, <1>6, <1>7

LEMMA InvAssign ==
  ASSUME IInv, NEW low \in BOOLEAN, Assign(low)
  PROVE  IInv'
<1>1. PICK k \in 1..Len(PENDING) :
        /\ ~unsaved /\ (booted \/ resume = "assign")
        /\ PENDING' = Without(PENDING, k)
        /\ running' = running \cup {Strip(PENDING[k])}
        /\ taken' = taken \cup {PENDING[k].id}
        /\ unsaved' = TRUE
        /\ UNCHANGED <<seqCounter, snapshot, restoring, booted, resume>>
  BY DEF Assign
<1> DEFINE t == PENDING[k]
<1>2. /\ Thinned(PENDING, PENDING') /\ t \in Queued /\ t.id \in Ids(PENDING)
      /\ t.id \notin Ids(PENDING') \cup Ids(restoring)
      /\ Ids(PENDING') \subseteq Ids(PENDING)
  BY <1>1, TakenOut
<1>3. Strip(t) \in Item /\ Strip(t).id = t.id /\ t.id \in TaskId
  BY <1>2, QueuedType DEF Strip, Item
<1> HIDE DEF t
<1>4. /\ PENDING' \in Seq(Queued) /\ Sorted'
      /\ Increasing(PENDING') /\ NoRepeat(PENDING') /\ Saved'
  BY <1>1, <1>2, Thinning DEF IInv, Saved, NoRepeat
<1>5. TypeOK'
  BY <1>1, <1>3, <1>4 DEF IInv, TypeOK, t
<1>6. \A a \in running : a.id \in taken /\ a.id \notin Ids(PENDING) \cup Ids(restoring)
  BY DEF IInv, OnePlace
<1>7. OnePlace'
  <2>1. \A a \in running' : a \in running \/ a = Strip(t)
    BY <1>1 DEF t
  <2>2. \A a, b \in running' : a.id = b.id => a = b
    BY <2>1, <1>2, <1>3, <1>6 DEF IInv, OnePlace
  <2>3. \A a \in running' : a.id \in taken' \ (Ids(PENDING') \cup Ids(restoring))
    BY <2>1, <1>1, <1>2, <1>3, <1>6 DEF t
  <2> QED BY <1>1, <1>2, <1>4, <2>2, <2>3, ThinningOnePlace
<1>8. Restoring' /\ RestoreKeepsOrder'
  <2> SUFFICES ASSUME restoring # <<>>
               PROVE  /\ OrderKept(snapshot.rows, PENDING') /\ TypesKept(snapshot.rows, PENDING')
                      /\ RestOfRows'
    BY <1>1, RestoringMeansNext
  <2>1. OrderKept(snapshot.rows, PENDING) /\ TypesKept(snapshot.rows, PENDING) /\ RestOfRows
    BY RestoringMeans DEF IInv
  <2>2. PENDING \in Seq(Queued)
    BY DEF IInv, TypeOK
  <2>3. OrderKept(snapshot.rows, PENDING') /\ TypesKept(snapshot.rows, PENDING')
    BY <2>1, <2>2, <1>2, ThinnedOrder
  <2>4. RestOfRows' = RestOfRows
    BY <1>1 DEF RestOfRows, Ids
  <2> QED BY <2>1, <2>3, <2>4
<1>9. BeforeRestore'
  <2>1. booted => restoring = <<>>
    BY DEF IInv, BeforeRestore
  <2>2. ASSUME ~booted, restoring = <<>>
        PROVE  /\ PENDING' = <<>> /\ resume' # "sleep"
               /\ Ids(snapshot.rows) \cap {a.id : a \in running'} = {}
    <3>1. resume' # "sleep"
      BY <2>2, <1>1
    <3>2. Len(PENDING) <= 1
          /\ Ids(snapshot.rows) \cap (Ids(PENDING) \cup {a.id : a \in running}) = {}
      BY <2>2 DEF IInv, BeforeRestore
    <3>3. Len(PENDING') = Len(PENDING) - 1 /\ Len(PENDING) \in Nat /\ Len(PENDING') \in Nat
      <4>1. PENDING \in Seq(Queued)
        BY DEF IInv, TypeOK
      <4> QED BY <4>1, <1>1, <1>4, WithoutAt
    <3>4. Len(PENDING') = 0
      BY <3>2, <3>3
    <3>5. PENDING' = <<>>
      BY <3>4, <1>4
    <3>6. \A a \in running' : a.id \notin Ids(snapshot.rows)
      <4> TAKE a \in running'
      <4>1. a \in running \/ a.id \in Ids(PENDING)
        BY <1>1, <1>2, <1>3 DEF t
      <4> QED BY <4>1, <3>2
    <3> QED BY <3>1, <3>5, <3>6
  <2>3. Ids(snapshot.rows)' = Ids(snapshot.rows) /\ Ids(PENDING)' = Ids(PENDING')
    BY <1>1 DEF Ids
  <2>4. Len(<<>>) <= 1 /\ Ids(<<>>) = {}
    BY NoIds
  <2> QED BY <1>1, <2>1, <2>2, <2>3, <2>4 DEF BeforeRestore
<1> QED BY <1>4, <1>5, <1>7, <1>8, <1>9 DEF IInv

LEMMA InvSaveAssigned ==
  ASSUME IInv, SaveAssigned
  PROVE  IInv'
<1>1. /\ unsaved /\ unsaved' = FALSE /\ Save(PENDING)
      /\ UNCHANGED <<PENDING, seqCounter, running, restoring, booted, resume, taken>>
  BY DEF SaveAssigned
<1>2. /\ TypeOK /\ Saved /\ Sorted /\ PENDING \in Seq(Queued) /\ NoRepeat(PENDING)
      /\ Increasing(PENDING)
  BY IncreasingIsSorted DEF IInv, TypeOK, OnePlace
<1>3. /\ snapshot' \in [rows : Seq(Item), fresh : BOOLEAN] /\ Saved'
      /\ snapshot'.rows = Rows(PENDING) \/ snapshot'.rows = snapshot.rows
  BY <1>1, <1>2, SaveWrites
<1>4. TypeOK' /\ Sorted'
  BY <1>1, <1>3 DEF IInv, TypeOK, Sorted
<1>5. OnePlace'
  <2>1. \A a \in running' : a.id \in taken' \ (Ids(PENDING') \cup Ids(restoring))
    BY <1>1 DEF IInv, OnePlace
  <2>2. \A a, b \in running' : a.id = b.id => a = b
    BY <1>1 DEF IInv, OnePlace
  <2> QED BY <1>1, <1>2, <2>1, <2>2, ThinningOnePlace
<1>6. Restoring' /\ RestoreKeepsOrder'
  <2> SUFFICES ASSUME restoring # <<>>
               PROVE  /\ OrderKept(snapshot'.rows, PENDING) /\ TypesKept(snapshot'.rows, PENDING)
                      /\ RestOfRows'
    BY <1>1, RestoringMeansNext
  <2>1. OrderKept(snapshot.rows, PENDING) /\ TypesKept(snapshot.rows, PENDING) /\ RestOfRows
    BY RestoringMeans DEF IInv
  <2>2. CASE snapshot'.rows = Rows(PENDING)
    <3>1. OrderKept(snapshot'.rows, PENDING) /\ TypesKept(snapshot'.rows, PENDING)
      BY <2>2, <1>2, OwnOrder
    <3>2. Ids(snapshot'.rows) \cap Ids(restoring) = {}
      BY <2>2, <1>2, RowsOf DEF IInv, OnePlace
    <3>3. Ids(snapshot.rows)' = Ids(snapshot'.rows) /\ Ids(restoring)' = Ids(restoring)
      BY <1>1 DEF Ids
    <3> QED BY <3>1, <3>2, <3>3 DEF RestOfRows
  <2>3. CASE snapshot'.rows = snapshot.rows
    <3>1. RestOfRows' = RestOfRows
      BY <2>3, <1>1 DEF RestOfRows, Ids
    <3> QED BY <3>1, <2>1, <2>3
  <2> QED BY <2>2, <2>3, <1>3
<1>7. BeforeRestore'
  <2>1. booted => restoring = <<>>
    BY DEF IInv, BeforeRestore
  <2>2. ASSUME ~booted, restoring = <<>>
        PROVE  /\ PENDING = <<>>
               /\ Ids(snapshot'.rows) \cap {a.id : a \in running} = {}
    <3>1. PENDING = <<>>
          /\ Ids(snapshot.rows) \cap (Ids(PENDING) \cup {a.id : a \in running}) = {}
      BY <2>2, <1>1 DEF IInv, BeforeRestore
    <3>2. snapshot'.rows = Rows(PENDING) => Ids(snapshot'.rows) = {}
      BY <3>1, <1>2, RowsOf, NoIds
    <3> QED BY <3>1, <3>2, <1>3
  <2>3. Ids(snapshot.rows)' = Ids(snapshot'.rows) /\ Ids(PENDING)' = Ids(PENDING)
    BY <1>1 DEF Ids
  <2>4. Len(<<>>) <= 1 /\ Ids(<<>>) = {}
    BY NoIds
  <2> QED BY <1>1, <2>1, <2>2, <2>3, <2>4 DEF BeforeRestore
<1> QED BY <1>3, <1>4, <1>5, <1>6, <1>7 DEF IInv

LEMMA InvCancel ==
  ASSUME IInv, NEW t \in TaskId, Cancel(t)
  PROVE  IInv'
<1>1. PICK k \in 1..Len(PENDING) :
        /\ PENDING[k].id = t
        /\ PENDING' = Without(PENDING, k) /\ taken' = taken \cup {t} /\ Save(PENDING')
  BY DEF Cancel
<1>2. booted /\ UNCHANGED <<seqCounter, running, restoring, booted, resume, unsaved>>
  BY DEF Cancel
<1>3. /\ Thinned(PENDING, PENDING') /\ t \notin Ids(PENDING') \cup Ids(restoring)
      /\ Ids(PENDING') \subseteq Ids(PENDING)
  BY <1>1, TakenOut
<1>4. /\ PENDING' \in Seq(Queued) /\ Sorted' /\ NoRepeat(PENDING')
      /\ snapshot' \in [rows : Seq(Item), fresh : BOOLEAN] /\ Saved'
  BY <1>1, <1>2, <1>3, Thinning, SaveWrites DEF IInv
<1>5. TypeOK'
  BY <1>1, <1>2, <1>4 DEF IInv, TypeOK
<1>6. OnePlace'
  <2>1. \A a \in running' : a.id \in taken' \ (Ids(PENDING') \cup Ids(restoring))
    BY <1>1, <1>2, <1>3 DEF IInv, OnePlace
  <2>2. \A a, b \in running' : a.id = b.id => a = b
    BY <1>2 DEF IInv, OnePlace
  <2> QED BY <1>1, <1>2, <1>3, <1>4, <2>1, <2>2, ThinningOnePlace
<1>7. BeforeRestore' /\ Restoring' /\ RestoreKeepsOrder'
  BY <1>2, Booted, RestoreOver
<1> QED BY <1>4, <1>5, <1>6, <1>7 DEF IInv

LEMMA InvDropEvolution ==
  ASSUME IInv, DropEvolution
  PROVE  IInv'
<1>1. /\ booted /\ Save(PENDING')
      /\ PENDING' = At(PENDING, {i \in 1..Len(PENDING) : PENDING[i].type # "evolution"})
      /\ taken' = taken \cup {t \in Ids(PENDING) : t \notin Ids(PENDING')}
      /\ UNCHANGED <<seqCounter, running, restoring, booted, resume, unsaved>>
  BY DEF DropEvolution
<1>2. PENDING \in Seq(Queued) /\ Sorted
  BY DEF IInv, TypeOK
<1>3. Thinned(PENDING, PENDING')
  BY <1>1, <1>2, IncreasingIsSorted, DropThins
<1>4. /\ PENDING' \in Seq(Queued) /\ Sorted' /\ NoRepeat(PENDING')
      /\ Ids(PENDING') \subseteq Ids(PENDING)
      /\ snapshot' \in [rows : Seq(Item), fresh : BOOLEAN] /\ Saved'
  BY <1>1, <1>3, Thinning, SaveWrites DEF IInv
<1>5. Ids(PENDING) \subseteq TaskId
  <2>1. \A i \in 1..Len(PENDING) : PENDING[i] \in Queued
    BY <1>2
  <2> QED BY <2>1, QueuedType DEF Ids
<1>6. TypeOK'
  BY <1>1, <1>4, <1>5 DEF IInv, TypeOK
<1>7. OnePlace'
  <2>1. \A a \in running' : a.id \in taken' \ (Ids(PENDING') \cup Ids(restoring))
    BY <1>1, <1>4 DEF IInv, OnePlace
  <2>2. \A a, b \in running' : a.id = b.id => a = b
    BY <1>1 DEF IInv, OnePlace
  <2> QED BY <1>1, <1>4, <2>1, <2>2, ThinningOnePlace
<1>8. BeforeRestore' /\ Restoring' /\ RestoreKeepsOrder'
  BY <1>1, Booted, RestoreOver
<1> QED BY <1>4, <1>6, <1>7, <1>8 DEF IInv

LEMMA InvDone ==
  ASSUME IInv, NEW item \in Item, Done(item)
  PROVE  IInv'
<1>1. /\ booted /\ running' = running \ {item} /\ Save(PENDING)
      /\ UNCHANGED <<PENDING, seqCounter, restoring, booted, resume, unsaved, taken>>
  BY DEF Done
<1>2. /\ TypeOK /\ Saved /\ Sorted /\ PENDING \in Seq(Queued) /\ NoRepeat(PENDING)
      /\ Increasing(PENDING)
  BY IncreasingIsSorted DEF IInv, TypeOK, OnePlace
<1>3. /\ snapshot' \in [rows : Seq(Item), fresh : BOOLEAN] /\ Saved'
  BY <1>1, <1>2, SaveWrites
<1>5. TypeOK' /\ Sorted'
  BY <1>1, <1>3 DEF IInv, TypeOK, Sorted
<1>6. OnePlace'
  <2>1. \A a \in running' : a.id \in taken' \ (Ids(PENDING') \cup Ids(restoring))
    BY <1>1 DEF IInv, OnePlace
  <2>2. \A a, b \in running' : a.id = b.id => a = b
    BY <1>1 DEF IInv, OnePlace
  <2> QED BY <1>1, <1>2, <2>1, <2>2, ThinningOnePlace
<1>7. BeforeRestore' /\ Restoring' /\ RestoreKeepsOrder'
  BY <1>1, Booted, RestoreOver
<1> QED BY <1>3, <1>5, <1>6, <1>7 DEF IInv

\* Memory is lost; the file is a snapshot of a list as before.
LEMMA InvForget ==
  ASSUME IInv, Forget, Saved', snapshot' \in [rows : Seq(Item), fresh : BOOLEAN]
  PROVE  IInv'
<1>1. /\ PENDING' = <<>> /\ seqCounter' = 0 /\ running' = {} /\ restoring' = <<>>
      /\ booted' = FALSE /\ resume' = "sleep" /\ unsaved' = FALSE /\ taken' = taken
  BY DEF Forget
<1>2. TypeOK'
  <2>1. PENDING' \in Seq(Queued) /\ restoring' \in Seq(Item) /\ seqCounter' \in 0..MaxSeq
    BY <1>1, TaskQueueAssumption
  <2>2. /\ running' \subseteq Item /\ booted' \in BOOLEAN /\ unsaved' \in BOOLEAN
        /\ resume' \in {"sleep", "assign", "done"}
    BY <1>1
  <2> QED BY <1>1, <2>1, <2>2 DEF IInv, TypeOK
<1>3. Len(PENDING') = 0 /\ Len(restoring') = 0
  BY <1>1
<1>4. /\ Ids(PENDING)' = {} /\ Ids(restoring)' = {}
      /\ NoRepeat(PENDING)' /\ NoRepeat(restoring)'
  BY <1>1, <1>3 DEF Ids, NoRepeat
<1>5. Sorted'
  BY <1>3 DEF Sorted
<1>6. OnePlace'
  BY <1>1, <1>4 DEF OnePlace
<1>7. BeforeRestore'
  BY <1>1, <1>3, <1>4 DEF BeforeRestore
<1>8. Restoring' /\ RestoreKeepsOrder'
  BY <1>1 DEF Restoring, RestoreKeepsOrder
<1> QED BY <1>2, <1>5, <1>6, <1>7, <1>8 DEF IInv

LEMMA InvCrash ==
  ASSUME IInv, Crash
  PROVE  IInv'
<1>1. Forget /\ UNCHANGED snapshot
  BY DEF Crash
<1>2. Saved' /\ snapshot' \in [rows : Seq(Item), fresh : BOOLEAN]
  BY <1>1 DEF IInv, TypeOK, Saved, NoRepeat
<1> QED BY <1>1, <1>2, InvForget

LEMMA InvRestart ==
  ASSUME IInv, Restart
  PROVE  IInv'
<1>1. Forget /\ Save(PENDING)
  BY DEF Restart
<1>2. /\ TypeOK /\ Saved /\ PENDING \in Seq(Queued) /\ NoRepeat(PENDING)
      /\ Increasing(PENDING)
  BY IncreasingIsSorted DEF IInv, TypeOK, OnePlace
<1>3. Saved' /\ snapshot' \in [rows : Seq(Item), fresh : BOOLEAN]
  BY <1>1, <1>2, SaveWrites
<1> QED BY <1>1, <1>3, InvForget

LEMMA InvExpire ==
  ASSUME IInv, Expire
  PROVE  IInv'
<1>1. /\ snapshot' = [snapshot EXCEPT !.fresh = FALSE]
      /\ UNCHANGED <<PENDING, seqCounter, running, restoring, booted, resume, unsaved, taken>>
  BY DEF Expire
<1>2. /\ snapshot'.rows = snapshot.rows /\ ~snapshot'.fresh
      /\ snapshot' \in [rows : Seq(Item), fresh : BOOLEAN]
  BY <1>1 DEF IInv, TypeOK
<1> HIDE DEF Expire
<1>3. TypeOK' /\ Sorted'
  BY <1>1, <1>2 DEF IInv, TypeOK, Sorted
<1>4. /\ Ids(PENDING)' = Ids(PENDING) /\ Ids(restoring)' = Ids(restoring)
      /\ Ids(snapshot.rows)' = Ids(snapshot.rows)
  BY <1>1, <1>2 DEF Ids
<1>5. /\ NoRepeat(PENDING)' = NoRepeat(PENDING) /\ NoRepeat(restoring)' = NoRepeat(restoring)
      /\ NoRepeat(snapshot.rows)' = NoRepeat(snapshot.rows)
  BY <1>1, <1>2 DEF NoRepeat
<1>6. OnePlace'
  BY <1>1, <1>4, <1>5 DEF IInv, OnePlace
<1>7. Saved'
  BY <1>2, <1>5 DEF IInv, Saved
<1>8. BeforeRestore'
  BY <1>1, <1>4 DEF IInv, BeforeRestore
<1>9. Restoring'
  BY <1>1, <1>2, <1>4 DEF IInv, Restoring
<1>10. RestoreKeepsOrder'
  BY <1>1, <1>2 DEF IInv, RestoreKeepsOrder
<1> QED BY <1>3, <1>6, <1>7, <1>8, <1>9, <1>10 DEF IInv

LEMMA InvStutter ==
  ASSUME IInv, UNCHANGED vars
  PROVE  IInv'
<1>1. UNCHANGED <<PENDING, seqCounter, running, snapshot, restoring, booted, resume,
                  unsaved, taken>>
  BY DEF vars
<1>2. TypeOK'
  BY <1>1 DEF IInv, TypeOK
<1>3. /\ Sorted' /\ OnePlace' /\ Saved' /\ Restoring' /\ RestoreKeepsOrder'
  BY <1>1, Unchanged DEF IInv
<1>4. BeforeRestore'
  <2>1. Ids(PENDING)' = Ids(PENDING) /\ Ids(snapshot.rows)' = Ids(snapshot.rows)
    BY <1>1 DEF Ids
  <2> QED BY <1>1, <2>1 DEF IInv, BeforeRestore
<1> QED BY <1>2, <1>3, <1>4 DEF IInv

LEMMA InvNext ==
  IInv /\ [Next]_vars => IInv'
<1> SUFFICES ASSUME IInv, [Next]_vars PROVE IInv'
  OBVIOUS
<1>1. CASE RestoreBegin
  BY <1>1, InvRestoreBegin
<1>2. CASE RestoreRow
  BY <1>2, InvRestoreRow
<1>3. CASE \E t \in TaskId : NewMessage(t) \/ AutoResume(t) \/ Cancel(t)
  BY <1>3, InvNewMessage, InvAutoResume, InvCancel
<1>4. CASE AutoResumeEnd
  BY <1>4, InvAutoResumeEnd
<1>5. CASE \E t \in TaskId, type \in Type : Schedule(t, type)
  BY <1>5, InvSchedule
<1>6. CASE \E t \in TaskId, item \in Item : Requeue(item, t)
  BY <1>6, InvRequeue
<1>7. CASE \E low \in BOOLEAN : Assign(low)
  BY <1>7, InvAssign
<1>8. CASE \E item \in Item : Done(item)
  BY <1>8, InvDone
<1>9. CASE DropEvolution
  BY <1>9, InvDropEvolution
<1>10. CASE Restart
  BY <1>10, InvRestart
<1>11. CASE Expire
  BY <1>11, InvExpire
<1>12. CASE UNCHANGED vars
  BY <1>12, InvStutter
<1>13. CASE SaveAssigned
  BY <1>13, InvSaveAssigned
<1>14. CASE Crash
  BY <1>14, InvCrash
<1> QED BY <1>1, <1>2, <1>3, <1>4, <1>5, <1>6, <1>7, <1>8, <1>9, <1>10, <1>11, <1>12,
    <1>13, <1>14 DEF Next

\* The invariant: the types, the sorted list with its numbers, every task in
\* one place, and what the snapshot and the rows still to be restored hold.
THEOREM Invariant ==
  Spec => []IInv
BY InvInit, InvNext, PTL DEF Spec

\* While restore_pending_from_snapshot queues the rows, those it has queued
\* stand in the order they had in the file.
THEOREM OrderRestored ==
  Spec => []RestoreKeepsOrder
<1>1. IInv => RestoreKeepsOrder
  BY DEF IInv
<1> QED BY <1>1, Invariant, PTL

-----------------------------------------------------------------------------
(* The refinement: the list in its order is the deques of the classes.     *)

Mapped(q) == [c \in Class |-> Rows(At(q, OfClass(q, c)))]

\* The steps of Deques in these words.
LEMMA DequeSteps ==
  /\ \A i \in Item :
       /\ Mapped(PENDING') = [Mapped(PENDING) EXCEPT ![TypeClass(i.type)] = Append(@, i)]
       /\ running' = running
       => Deque!New(i)
  /\ \A i, j \in Item :
       /\ i \in running /\ TypeClass(j.type) = TypeClass(i.type) /\ running' = running \ {i}
       /\ Mapped(PENDING') = [Mapped(PENDING) EXCEPT ![TypeClass(j.type)] = <<j>> \o @]
       => Deque!Return(i, j)
  /\ \A c \in Class :
       /\ Mapped(PENDING)[c] # <<>>
       /\ \A d \in Class : d < c => Mapped(PENDING)[d] = <<>> \/ d = TypeClass("evolution")
       /\ running' = running \cup {Head(Mapped(PENDING)[c])}
       /\ Mapped(PENDING') = [Mapped(PENDING) EXCEPT ![c] = Tail(@)]
       => Deque!Serve(c)
  /\ \A i \in Item : running' = running \ {i} /\ PENDING' = PENDING => Deque!Finish(i)
  /\ \A c \in Class, k \in Nat :
       /\ Mapped(PENDING') = [Mapped(PENDING) EXCEPT ![c] = Without(@, k)]
       /\ running' = running
       => Deque!Withdraw(c, k)
  /\ /\ Mapped(PENDING') = [Mapped(PENDING) EXCEPT ![TypeClass("evolution")] = <<>>]
     /\ running' = running
     => Deque!Drop
  /\ Mapped(PENDING') = [c \in Class |-> <<>>] /\ running' = {} => Deque!Lose
<1>1. ASSUME NEW i \in Item,
             Mapped(PENDING') = [Mapped(PENDING) EXCEPT ![TypeClass(i.type)] = Append(@, i)],
             running' = running
      PROVE  Deque!New(i)
  BY <1>1 DEF Deque!New, Mapped
<1>2. ASSUME NEW i \in Item, NEW j \in Item,
             i \in running, TypeClass(j.type) = TypeClass(i.type), running' = running \ {i},
             Mapped(PENDING') = [Mapped(PENDING) EXCEPT ![TypeClass(j.type)] = <<j>> \o @]
      PROVE  Deque!Return(i, j)
  BY <1>2 DEF Deque!Return, Mapped
<1>3. ASSUME NEW c \in Class, Mapped(PENDING)[c] # <<>>,
             \A d \in Class : d < c => Mapped(PENDING)[d] = <<>> \/ d = TypeClass("evolution"),
             running' = running \cup {Head(Mapped(PENDING)[c])},
             Mapped(PENDING') = [Mapped(PENDING) EXCEPT ![c] = Tail(@)]
      PROVE  Deque!Serve(c)
  BY <1>3 DEF Deque!Serve, Mapped
<1>4. ASSUME NEW i \in Item, running' = running \ {i}, PENDING' = PENDING
      PROVE  Deque!Finish(i)
  BY <1>4 DEF Deque!Finish
<1>5. ASSUME NEW c \in Class, NEW k \in Nat,
             Mapped(PENDING') = [Mapped(PENDING) EXCEPT ![c] = Without(@, k)],
             running' = running
      PROVE  Deque!Withdraw(c, k)
  BY <1>5 DEF Deque!Withdraw, Mapped, Without
<1>6. ASSUME Mapped(PENDING') = [Mapped(PENDING) EXCEPT ![TypeClass("evolution")] = <<>>],
             running' = running
      PROVE  Deque!Drop
  BY <1>6 DEF Deque!Drop, Mapped
<1>7. ASSUME Mapped(PENDING') = [c \in Class |-> <<>>], running' = {}
      PROVE  Deque!Lose
  BY <1>7 DEF Deque!Lose, Mapped
<1> QED BY <1>1, <1>2, <1>3, <1>4, <1>5, <1>6, <1>7

LEMMA SameSeq ==
  ASSUME NEW S, NEW u \in Seq(S), NEW v \in Seq(S), Len(u) = Len(v),
         \A k \in 1..Len(u) : u[k] = v[k]
  PROVE  u = v
<1>1. u \in [1..Len(u) -> S] /\ v \in [1..Len(u) -> S]
  OBVIOUS
<1> QED BY <1>1

\* The deque of a class is the rows of its interval.
LEMMA MappedBlock ==
  ASSUME NEW q \in Seq(Queued), NEW b, Bounds(q, b), NEW c \in Class
  PROVE  /\ b[c] \in Nat /\ b[c + 1] \in Nat /\ b[c] <= b[c + 1] /\ b[c + 1] <= Len(q)
         /\ Mapped(q)[c] \in Seq(Item) /\ Len(Mapped(q)[c]) = b[c + 1] - b[c]
         /\ \A k \in 1..(b[c + 1] - b[c]) :
              b[c] + k \in 1..Len(q) /\ Mapped(q)[c][k] = Strip(q[b[c] + k])
<1> DEFINE lo == b[c]
           hi == b[c + 1]
           S == (lo + 1)..hi
           u == At(q, S)
<1>1. lo \in Nat /\ hi \in Nat /\ lo <= hi /\ hi <= Len(q) /\ Len(q) \in Nat
  <2>1. c = 0 \/ c = 1 \/ c = 2
    BY DEF Class
  <2>2. /\ b[0] \in Nat /\ b[1] \in Nat /\ b[2] \in Nat /\ b[3] \in Nat
        /\ b[0] <= b[1] /\ b[1] <= b[2] /\ b[2] <= b[3] /\ b[3] = Len(q) /\ Len(q) \in Nat
    BY DEF Bounds
  <2>3. CASE c = 0
    BY <2>2, <2>3
  <2>4. CASE c = 1
    BY <2>2, <2>4
  <2>5. CASE c = 2
    BY <2>2, <2>5
  <2> QED BY <2>1, <2>3, <2>4, <2>5
<1>2. OfClass(q, c) = S
  BY DEF Bounds
<1> HIDE DEF lo, hi
<1>3. Cardinality(S) = hi - lo /\ \A k \in 1..(hi - lo) : Kth(S, k) = k + lo
  <2> QED BY <1>1, KthOfInterval
<1> HIDE DEF S
<1>4. \A k \in 1..(hi - lo) : k + lo \in 1..Len(q) /\ lo + k = k + lo
  BY <1>1
<1>5. u = [k \in 1..(hi - lo) |-> q[Kth(S, k)]]
  BY <1>3 DEF At
<1>6. u \in Seq(Queued) /\ Len(u) = hi - lo /\ \A k \in 1..(hi - lo) : u[k] = q[k + lo]
  <2>1. \A k \in 1..(hi - lo) : q[Kth(S, k)] = q[k + lo] /\ q[k + lo] \in Queued
    BY <1>3, <1>4
  <2>2. hi - lo \in Nat
    BY <1>1
  <2> HIDE DEF u
  <2>3. u \in [1..(hi - lo) -> Queued] /\ \A k \in 1..(hi - lo) : u[k] = q[k + lo]
    BY <2>1, <1>5
  <2> QED BY <2>2, <2>3
<1> HIDE DEF u
<1>7. Mapped(q)[c] = Rows(u)
  BY <1>2 DEF Mapped, u
<1>8. Rows(u) \in Seq(Item) /\ Len(Rows(u)) = hi - lo
  BY <1>6, RowsOf
<1>9. \A k \in 1..(hi - lo) : Rows(u)[k] = Strip(q[lo + k])
  BY <1>4, <1>6 DEF Rows
<1>10. \A k \in 1..(hi - lo) : lo + k \in 1..Len(q)
  BY <1>4
<1> QED BY <1>1, <1>7, <1>8, <1>9, <1>10 DEF lo, hi

\* Bounds, said of each place.
LEMMA BoundsByPlace ==
  ASSUME NEW q \in Seq(Queued), NEW b
  PROVE  Bounds(q, b) <=>
           /\ b \in [0..3 -> 0..Len(q)] /\ b[0] = 0 /\ b[3] = Len(q)
           /\ b[0] <= b[1] /\ b[1] <= b[2] /\ b[2] <= b[3]
           /\ \A c \in Class, i \in 1..Len(q) :
                TypeClass(q[i].type) = c <=> b[c] < i /\ i <= b[c + 1]
<1> SUFFICES ASSUME b \in [0..3 -> 0..Len(q)], b[0] = 0, b[3] = Len(q),
                    b[0] <= b[1], b[1] <= b[2], b[2] <= b[3], NEW c \in Class
             PROVE  OfClass(q, c) = (b[c] + 1)..b[c + 1] <=>
                      \A i \in 1..Len(q) :
                        TypeClass(q[i].type) = c <=> b[c] < i /\ i <= b[c + 1]
  BY DEF Bounds
<1>1. b[c] \in Nat /\ b[c + 1] \in Nat /\ b[c + 1] <= Len(q) /\ Len(q) \in Nat
  <2>1. c \in 0..3 /\ c + 1 \in 0..3
    BY DEF Class
  <2>2. b[c] \in 0..Len(q) /\ b[c + 1] \in 0..Len(q)
    BY <2>1
  <2> QED BY <2>2
<1>2. \A i : i \in (b[c] + 1)..b[c + 1] <=> i \in 1..Len(q) /\ b[c] < i /\ i <= b[c + 1]
  BY <1>1
<1>3. \A i : i \in OfClass(q, c) <=> i \in 1..Len(q) /\ TypeClass(q[i].type) = c
  BY DEF OfClass
<1> QED BY <1>2, <1>3

\* The place of a task is between the bounds of its class.
LEMMA BoundsMonotone ==
  ASSUME NEW n \in Nat, NEW b \in [0..3 -> 0..n],
         b[0] <= b[1], b[1] <= b[2], b[2] <= b[3]
  PROVE  \A c, d \in 0..3 : c <= d => b[c] <= b[d] /\ b[c] \in Nat /\ b[d] \in Nat
<1>1. b[0] \in Nat /\ b[1] \in Nat /\ b[2] \in Nat /\ b[3] \in Nat
  OBVIOUS
<1>2. \A c \in 0..3 : c = 0 \/ c = 1 \/ c = 2 \/ c = 3
  OBVIOUS
<1>3. /\ b[0] <= b[2] /\ b[0] <= b[3] /\ b[1] <= b[3]
      /\ b[0] <= b[0] /\ b[1] <= b[1] /\ b[2] <= b[2] /\ b[3] <= b[3]
  BY <1>1
<1>4. \A d \in 0..3 : b[0] <= b[d] /\ b[d] <= b[3] /\ b[d] \in Nat
  BY <1>1, <1>2, <1>3
<1>5. \A d \in 0..3 : 1 <= d => b[1] <= b[d]
  BY <1>1, <1>2, <1>3
<1>6. \A d \in 0..3 : 2 <= d => b[2] <= b[d]
  BY <1>1, <1>2, <1>3
<1>7. \A d \in 0..3 : 3 <= d => b[3] <= b[d]
  BY <1>1, <1>2, <1>3
<1> SUFFICES ASSUME NEW c \in 0..3, NEW d \in 0..3, c <= d
             PROVE  b[c] <= b[d]
  BY <1>4
<1> QED BY <1>2, <1>4, <1>5, <1>6, <1>7

\* The bounds after a task of class c came or went.
Raised(b, c) == [d \in 0..3 |-> IF d <= c THEN b[d] ELSE b[d] + 1]

Lowered(b, c) == [d \in 0..3 |-> IF d <= c THEN b[d] ELSE b[d] - 1]

LEMMA BoundsFacts ==
  ASSUME NEW q \in Seq(Queued), NEW b, Bounds(q, b)
  PROVE  /\ Len(q) \in Nat /\ b \in [0..3 -> 0..Len(q)] /\ b[0] = 0 /\ b[3] = Len(q)
         /\ \A c, d \in 0..3 : c <= d => b[c] <= b[d]
         /\ \A d \in 0..3 : b[d] \in Nat /\ b[d] <= Len(q)
         /\ \A c \in Class, i \in 1..Len(q) :
              TypeClass(q[i].type) = c <=> b[c] < i /\ i <= b[c + 1]
         /\ \A i \in 1..Len(q) : TypeClass(q[i].type) \in Class
         /\ \A c \in Class : c \in 0..3 /\ c + 1 \in 0..3
<1>1. /\ b \in [0..3 -> 0..Len(q)] /\ b[0] = 0 /\ b[3] = Len(q)
      /\ b[0] <= b[1] /\ b[1] <= b[2] /\ b[2] <= b[3]
      /\ \A c \in Class, i \in 1..Len(q) :
           TypeClass(q[i].type) = c <=> b[c] < i /\ i <= b[c + 1]
  BY BoundsByPlace
<1>2. Len(q) \in Nat
  OBVIOUS
<1>3. \A d \in 0..3 : b[d] \in Nat /\ b[d] <= Len(q)
  BY <1>1, <1>2
<1>4. \A c, d \in 0..3 : c <= d => b[c] <= b[d]
  BY <1>1, <1>2, BoundsMonotone
<1>5. \A i \in 1..Len(q) : TypeClass(q[i].type) \in Class
  <2>1. \A i \in 1..Len(q) : q[i] \in Queued
    OBVIOUS
  <2> QED BY <2>1, QueuedType DEF Class
<1>6. \A c \in Class : c \in 0..3 /\ c + 1 \in 0..3
  BY DEF Class
<1> QED BY <1>1, <1>2, <1>3, <1>4, <1>5, <1>6

LEMMA BoundsInserted ==
  ASSUME NEW q \in Seq(Queued), NEW b, Bounds(q, b),
         NEW x \in Queued, NEW m, NEW p, Inserted(q, x, m, p),
         b[TypeClass(x.type)] <= m, m <= b[TypeClass(x.type) + 1]
  PROVE  Bounds(p, Raised(b, TypeClass(x.type)))
<1> DEFINE n == Len(q)
           e == TypeClass(x.type)
           a == Raised(b, e)
<1>0. /\ n \in Nat /\ m \in 0..n /\ Len(p) = n + 1 /\ p \in Seq(Queued) /\ e \in 0..2 /\ e \in Class
  BY QueuedType DEF Inserted, Class
<1>1. /\ b[0] = 0 /\ b[3] = n
      /\ \A c, d \in 0..3 : c <= d => b[c] <= b[d]
      /\ \A d \in 0..3 : b[d] \in Nat /\ b[d] <= n
      /\ \A c \in Class, i \in 1..n : TypeClass(q[i].type) = c <=> b[c] < i /\ i <= b[c + 1]
      /\ \A c \in Class : c \in 0..3 /\ c + 1 \in 0..3
  BY BoundsFacts
<1>2. b[e] <= m /\ m <= b[e + 1]
  OBVIOUS
<1>3. \A d \in 0..3 : a[d] = IF d <= e THEN b[d] ELSE b[d] + 1
  BY DEF Raised
<1> HIDE DEF n, e
<1>4. a \in [0..3 -> 0..(n + 1)] /\ a[0] = 0 /\ a[3] = n + 1
  <2>1. a[0] = 0 /\ a[3] = n + 1
    BY <1>0, <1>1, <1>3
  <2>2. a = [d \in 0..3 |-> IF d <= e THEN b[d] ELSE b[d] + 1]
    BY DEF Raised
  <2>3. \A d \in 0..3 : a[d] \in 0..(n + 1)
    <3> TAKE d \in 0..3
    <3>1. b[d] \in Nat /\ b[d] <= n /\ a[d] = IF d <= e THEN b[d] ELSE b[d] + 1
      BY <1>1, <1>3
    <3> HIDE DEF a
    <3> QED BY <3>1, <1>0
  <2> QED BY <2>1, <2>2, <2>3
<1>5. a[0] <= a[1] /\ a[1] <= a[2] /\ a[2] <= a[3]
  <2>1. /\ b[0] \in Nat /\ b[1] \in Nat /\ b[2] \in Nat /\ b[3] \in Nat
        /\ b[0] <= b[1] /\ b[1] <= b[2] /\ b[2] <= b[3]
    BY <1>1
  <2>2. /\ a[0] = (IF 0 <= e THEN b[0] ELSE b[0] + 1) /\ a[1] = (IF 1 <= e THEN b[1] ELSE b[1] + 1)
        /\ a[2] = (IF 2 <= e THEN b[2] ELSE b[2] + 1) /\ a[3] = (IF 3 <= e THEN b[3] ELSE b[3] + 1)
    BY <1>3
  <2>3. e \in Int
    BY <1>0
  <2> HIDE DEF a
  <2> QED BY <2>1, <2>2, <2>3
<1>6. ASSUME NEW c \in Class, NEW i \in 1..(n + 1)
      PROVE  TypeClass(p[i].type) = c <=> a[c] < i /\ i <= a[c + 1]
  <2> DEFINE ac == a[c]
             ad == a[c + 1]
             bc == b[c]
             bd == b[c + 1]
             be == b[e]
             bf == b[e + 1]
             here == TypeClass(p[i].type) = c
  <2>1. /\ ac = (IF c <= e THEN bc ELSE bc + 1) /\ ad = IF c + 1 <= e THEN bd ELSE bd + 1
        /\ bc \in Nat /\ bd \in Nat /\ be \in Nat /\ bf \in Nat
        /\ (c < e => bd <= be) /\ (c > e => bf <= bc)
        /\ c \in Int /\ e \in Int
    <3>1. c \in 0..3 /\ c + 1 \in 0..3 /\ e \in 0..3 /\ e + 1 \in 0..3
      BY <1>0, <1>1
    <3>2. (c < e => bd <= be) /\ (c > e => bf <= bc)
      <4>1. (c < e => c + 1 <= e) /\ (c > e => e + 1 <= c)
        BY <3>1
      <4> QED BY <3>1, <4>1, <1>1
    <3>3. bc \in Nat /\ bd \in Nat /\ be \in Nat /\ bf \in Nat
      BY <3>1, <1>1
    <3>4. ac = (IF c <= e THEN bc ELSE bc + 1) /\ ad = IF c + 1 <= e THEN bd ELSE bd + 1
      BY <3>1, <1>3
    <3> QED BY <3>1, <3>2, <3>3, <3>4
  <2>2. be <= m /\ m <= bf
    BY <1>2
  <2>3. m \in Int /\ i \in Int
    BY <1>0
  <2>4. \/ i = m + 1 /\ p[i] = x
        \/ i <= m /\ i \in 1..n /\ p[i] = q[i]
        \/ i > m + 1 /\ i - 1 \in 1..n /\ p[i] = q[i - 1]
    BY <1>0, InsertedPlaces DEF n
  <2>5. \/ i = m + 1 /\ (here <=> e = c)
        \/ i <= m /\ (here <=> bc < i /\ i <= bd)
        \/ i > m + 1 /\ (here <=> bc < i - 1 /\ i - 1 <= bd)
    <3>1. CASE i = m + 1 /\ p[i] = x
      BY <3>1 DEF e
    <3>2. CASE i <= m /\ i \in 1..n /\ p[i] = q[i]
      BY <3>2, <1>1
    <3>3. CASE i > m + 1 /\ i - 1 \in 1..n /\ p[i] = q[i - 1]
      BY <3>3, <1>1
    <3> QED BY <2>4, <3>1, <3>2, <3>3
  <2> HIDE DEF ac, ad, bc, bd, be, bf, here
  <2>6. here <=> ac < i /\ i <= ad
    <3>1. CASE c < e
      <4>1. ac = bc /\ ad = bd /\ bd <= be
        BY <3>1, <2>1
      <4> QED BY <4>1, <3>1, <2>1, <2>2, <2>3, <2>5
    <3>2. CASE c = e
      <4>1. ac = bc /\ ad = bd + 1 /\ bc = be /\ bd = bf
        BY <3>2, <2>1 DEF bc, bd, be, bf
      <4> QED BY <4>1, <3>2, <2>1, <2>2, <2>3, <2>5
    <3>3. CASE c > e
      <4>1. ac = bc + 1 /\ ad = bd + 1 /\ bf <= bc
        BY <3>3, <2>1
      <4> QED BY <4>1, <3>3, <2>1, <2>2, <2>3, <2>5
    <3> QED BY <2>1, <3>1, <3>2, <3>3
  <2> QED BY <2>6 DEF ac, ad, here
<1> HIDE DEF a
<1>7. Bounds(p, a)
  BY <1>0, <1>4, <1>5, <1>6, BoundsByPlace
<1> QED BY <1>7 DEF a, e

LEMMA BoundsRemoved ==
  ASSUME NEW q \in Seq(Queued), NEW b, Bounds(q, b), NEW k \in 1..Len(q)
  PROVE  Bounds(Without(q, k), Lowered(b, TypeClass(q[k].type)))
<1> DEFINE n == Len(q)
           e == TypeClass(q[k].type)
           a == Lowered(b, e)
           p == Without(q, k)
<1>0. /\ n \in Nat /\ n >= 1 /\ k \in 1..n /\ p \in Seq(Queued) /\ Len(p) = n - 1
      /\ \A i \in 1..(n - 1) : p[i] = IF i < k THEN q[i] ELSE q[i + 1]
  <2>1. n \in Nat /\ n >= 1
    OBVIOUS
  <2>2. /\ p \in Seq(Queued) /\ Len(p) = n - 1
        /\ \A i \in 1..(n - 1) : p[i] = IF i < k THEN q[i] ELSE q[i + 1]
    BY WithoutAt
  <2> QED BY <2>1, <2>2
<1>1. /\ b[0] = 0 /\ b[3] = n
      /\ \A c, d \in 0..3 : c <= d => b[c] <= b[d]
      /\ \A d \in 0..3 : b[d] \in Nat /\ b[d] <= n
      /\ \A c \in Class, i \in 1..n : TypeClass(q[i].type) = c <=> b[c] < i /\ i <= b[c + 1]
      /\ \A c \in Class : c \in 0..3 /\ c + 1 \in 0..3
      /\ e \in Class
  BY BoundsFacts
<1>2. b[e] < k /\ k <= b[e + 1]
  BY <1>1
<1>3. \A d \in 0..3 : a[d] = IF d <= e THEN b[d] ELSE b[d] - 1
  BY DEF Lowered
<1> HIDE DEF n, e, p
<1>4. e \in 0..2
  BY <1>1 DEF Class
<1>5. a \in [0..3 -> 0..(n - 1)] /\ a[0] = 0 /\ a[3] = n - 1
  <2>1. a[0] = 0 /\ a[3] = n - 1
    BY <1>0, <1>1, <1>3, <1>4
  <2>2. a = [d \in 0..3 |-> IF d <= e THEN b[d] ELSE b[d] - 1]
    BY DEF Lowered
  <2>3. ASSUME NEW d \in 0..3
        PROVE  a[d] \in 0..(n - 1)
    <3>1. CASE d <= e
      <4>1. b[d] <= b[e] /\ b[d] \in Nat /\ b[e] \in Nat
        BY <3>1, <1>1, <1>4
      <4>2. a[d] = b[d]
        BY <3>1, <1>3
      <4>3. b[e] <= n - 1
        BY <4>1, <1>0, <1>2
      <4> HIDE DEF a
      <4> QED BY <4>1, <4>2, <4>3, <1>0
    <3>2. CASE ~(d <= e)
      <4>1. b[e + 1] <= b[d] /\ b[d] \in Nat /\ b[e + 1] \in Nat /\ b[d] <= n
        BY <3>2, <1>1, <1>4
      <4>2. a[d] = b[d] - 1
        BY <3>2, <1>3
      <4> HIDE DEF a
      <4> QED BY <4>1, <4>2, <1>0, <1>2
    <3> QED BY <3>1, <3>2
  <2> QED BY <2>1, <2>2, <2>3
<1>6. ASSUME NEW c \in Class
      PROVE  /\ a[c] = IF c <= e THEN b[c] ELSE b[c] - 1
             /\ a[c + 1] = IF c + 1 <= e THEN b[c + 1] ELSE b[c + 1] - 1
             /\ b[c] \in Nat /\ b[c + 1] \in Nat /\ b[e] \in Nat /\ b[e + 1] \in Nat
             /\ (c < e => b[c + 1] <= b[e]) /\ (c > e => b[e + 1] <= b[c])
             /\ c \in Int /\ e \in Int /\ b[c] <= b[c + 1]
  <2>1. c \in 0..3 /\ c + 1 \in 0..3 /\ e \in 0..3 /\ e + 1 \in 0..3
    BY <1>1
  <2>2. (c < e => b[c + 1] <= b[e]) /\ (c > e => b[e + 1] <= b[c]) /\ b[c] <= b[c + 1]
    <3>1. (c < e => c + 1 <= e) /\ (c > e => e + 1 <= c) /\ c <= c + 1
      BY <2>1
    <3> QED BY <2>1, <3>1, <1>1
  <2>3. b[c] \in Nat /\ b[c + 1] \in Nat /\ b[e] \in Nat /\ b[e + 1] \in Nat
    BY <2>1, <1>1
  <2>4. /\ a[c] = IF c <= e THEN b[c] ELSE b[c] - 1
        /\ a[c + 1] = IF c + 1 <= e THEN b[c + 1] ELSE b[c + 1] - 1
    BY <2>1, <1>3
  <2> QED BY <2>1, <2>2, <2>3, <2>4
<1>7. ASSUME NEW c \in Class
      PROVE  a[c] <= a[c + 1]
  <2>1. CASE c < e
    BY <1>6, <2>1
  <2>2. CASE c = e
    BY <1>6, <2>2, <1>2, <1>0
  <2>3. CASE c > e
    BY <1>6, <2>3
  <2> QED BY <1>6, <2>1, <2>2, <2>3
<1>8. a[0] <= a[1] /\ a[1] <= a[2] /\ a[2] <= a[3]
  <2>1. 0 \in Class /\ 1 \in Class /\ 2 \in Class /\ 0 + 1 = 1 /\ 1 + 1 = 2 /\ 2 + 1 = 3
    BY DEF Class
  <2> HIDE DEF a
  <2>2. a[0] <= a[0 + 1] /\ a[1] <= a[1 + 1] /\ a[2] <= a[2 + 1]
    BY <1>7, <2>1
  <2> QED BY <2>1, <2>2
<1>9. ASSUME NEW c \in Class, NEW i \in 1..(n - 1)
      PROVE  TypeClass(p[i].type) = c <=> a[c] < i /\ i <= a[c + 1]
  <2> DEFINE ac == a[c]
             ad == a[c + 1]
             bc == b[c]
             bd == b[c + 1]
             be == b[e]
             bf == b[e + 1]
             here == TypeClass(p[i].type) = c
  <2>1. /\ ac = (IF c <= e THEN bc ELSE bc - 1) /\ ad = IF c + 1 <= e THEN bd ELSE bd - 1
        /\ bc \in Nat /\ bd \in Nat /\ be \in Nat /\ bf \in Nat
        /\ (c < e => bd <= be) /\ (c > e => bf <= bc)
        /\ c \in Int /\ e \in Int
    BY <1>6
  <2>2. be < k /\ k <= bf
    BY <1>2
  <2>3. k \in Int /\ i \in Int
    BY <1>0
  <2>4. i < k => (here <=> bc < i /\ i <= bd)
    <3> SUFFICES ASSUME i < k PROVE here <=> bc < i /\ i <= bd
      OBVIOUS
    <3>1. i \in 1..n /\ p[i] = q[i]
      BY <1>0
    <3> QED BY <3>1, <1>1
  <2>5. ~(i < k) => (here <=> bc < i + 1 /\ i + 1 <= bd)
    <3> SUFFICES ASSUME ~(i < k) PROVE here <=> bc < i + 1 /\ i + 1 <= bd
      OBVIOUS
    <3>1. i + 1 \in 1..n /\ p[i] = q[i + 1]
      BY <1>0
    <3> QED BY <3>1, <1>1
  <2> HIDE DEF ac, ad, bc, bd, be, bf, here
  <2>6. here <=> ac < i /\ i <= ad
    <3>1. CASE c < e
      <4>1. ac = bc /\ ad = bd /\ bd <= be
        BY <3>1, <2>1
      <4> QED BY <4>1, <2>1, <2>2, <2>3, <2>4, <2>5
    <3>2. CASE c = e
      <4>1. ac = bc /\ ad = bd - 1 /\ bc = be /\ bd = bf
        BY <3>2, <2>1 DEF bc, bd, be, bf
      <4> QED BY <4>1, <2>1, <2>2, <2>3, <2>4, <2>5
    <3>3. CASE c > e
      <4>1. ac = bc - 1 /\ ad = bd - 1 /\ bf <= bc
        BY <3>3, <2>1
      <4> QED BY <4>1, <2>1, <2>2, <2>3, <2>4, <2>5
    <3> QED BY <2>1, <3>1, <3>2, <3>3
  <2> QED BY <2>6 DEF ac, ad, here
<1> HIDE DEF a
<1>10. Bounds(p, a)
  BY <1>0, <1>5, <1>8, <1>9, BoundsByPlace
<1> QED BY <1>10 DEF a, e, p

\* The deques after a task was put in at a place of its class.
LEMMA MappedInserted ==
  ASSUME NEW q \in Seq(Queued), NEW b, Bounds(q, b),
         NEW x \in Queued, NEW m, NEW p, Inserted(q, x, m, p),
         b[TypeClass(x.type)] <= m, m <= b[TypeClass(x.type) + 1]
  PROVE  LET e == TypeClass(x.type)
         IN  /\ e \in Class /\ Mapped(q)[e] \in Seq(Item) /\ Mapped(p)[e] \in Seq(Item)
             /\ b[e] \in Nat /\ b[e + 1] \in Nat /\ m \in Nat
             /\ Len(Mapped(q)[e]) = b[e + 1] - b[e]
             /\ \A c \in Class : c # e => Mapped(p)[c] = Mapped(q)[c]
             /\ Len(Mapped(p)[e]) = Len(Mapped(q)[e]) + 1
             /\ \A k \in 1..(m - b[e]) : Mapped(p)[e][k] = Mapped(q)[e][k]
             /\ Mapped(p)[e][m - b[e] + 1] = Strip(x)
             /\ \A k \in (m - b[e] + 1)..(b[e + 1] - b[e]) :
                  Mapped(p)[e][k + 1] = Mapped(q)[e][k]
<1> DEFINE n == Len(q)
           e == TypeClass(x.type)
           a == Raised(b, e)
<1>0. /\ n \in Nat /\ m \in 0..n /\ Len(p) = n + 1 /\ p \in Seq(Queued) /\ e \in 0..2 /\ e \in Class
      /\ (\A k \in 1..m : p[k] = q[k]) /\ p[m + 1] = x /\ \A k \in (m + 1)..n : p[k + 1] = q[k]
  <2>1. e \in 0..2 /\ e \in Class
    BY QueuedType DEF Class
  <2>2. n \in Nat
    OBVIOUS
  <2>3. /\ m \in 0..n /\ Len(p) = n + 1 /\ p \in Seq(Queued)
        /\ (\A k \in 1..m : p[k] = q[k]) /\ p[m + 1] = x /\ \A k \in (m + 1)..n : p[k + 1] = q[k]
    BY DEF Inserted
  <2> QED BY <2>1, <2>2, <2>3
<1>1. Bounds(p, a)
  BY BoundsInserted
<1>2. b[e] <= m /\ m <= b[e + 1]
  OBVIOUS
<1>3. /\ \A c, d \in 0..3 : c <= d => b[c] <= b[d]
      /\ \A d \in 0..3 : b[d] \in Nat /\ b[d] <= n
      /\ \A c \in Class : c \in 0..3 /\ c + 1 \in 0..3
  BY BoundsFacts
<1>4. \A d \in 0..3 : a[d] = IF d <= e THEN b[d] ELSE b[d] + 1
  BY DEF Raised
<1> HIDE DEF n, e, a
<1>5. ASSUME NEW c \in Class
      PROVE  /\ a[c] = IF c <= e THEN b[c] ELSE b[c] + 1
             /\ a[c + 1] = IF c + 1 <= e THEN b[c + 1] ELSE b[c + 1] + 1
             /\ b[c] \in Nat /\ b[c + 1] \in Nat /\ b[e] \in Nat /\ b[e + 1] \in Nat
             /\ (c < e => b[c + 1] <= b[e]) /\ (c > e => b[e + 1] <= b[c])
             /\ c \in Int /\ e \in Int /\ b[c] <= b[c + 1] /\ b[c + 1] <= n
  <2>1. c \in 0..3 /\ c + 1 \in 0..3 /\ e \in 0..3 /\ e + 1 \in 0..3
    BY <1>0, <1>3
  <2>2. (c < e => b[c + 1] <= b[e]) /\ (c > e => b[e + 1] <= b[c]) /\ b[c] <= b[c + 1]
    <3>1. (c < e => c + 1 <= e) /\ (c > e => e + 1 <= c) /\ c <= c + 1
      BY <2>1
    <3> QED BY <2>1, <3>1, <1>3
  <2>3. b[c] \in Nat /\ b[c + 1] \in Nat /\ b[e] \in Nat /\ b[e + 1] \in Nat /\ b[c + 1] <= n
    BY <2>1, <1>3
  <2> QED BY <2>1, <2>2, <2>3, <1>4
<1>6. ASSUME NEW c \in Class
      PROVE  /\ Mapped(q)[c] \in Seq(Item) /\ Len(Mapped(q)[c]) = b[c + 1] - b[c]
             /\ \A k \in 1..(b[c + 1] - b[c]) : Mapped(q)[c][k] = Strip(q[b[c] + k])
             /\ Mapped(p)[c] \in Seq(Item) /\ Len(Mapped(p)[c]) = a[c + 1] - a[c]
             /\ \A k \in 1..(a[c + 1] - a[c]) : Mapped(p)[c][k] = Strip(p[a[c] + k])
  <2>1. /\ Mapped(q)[c] \in Seq(Item) /\ Len(Mapped(q)[c]) = b[c + 1] - b[c]
        /\ \A k \in 1..(b[c + 1] - b[c]) : Mapped(q)[c][k] = Strip(q[b[c] + k])
    <3>1. /\ b[c] \in Nat /\ b[c + 1] \in Nat /\ b[c] <= b[c + 1] /\ b[c + 1] <= Len(q)
          /\ Mapped(q)[c] \in Seq(Item) /\ Len(Mapped(q)[c]) = b[c + 1] - b[c]
          /\ \A k \in 1..(b[c + 1] - b[c]) :
               b[c] + k \in 1..Len(q) /\ Mapped(q)[c][k] = Strip(q[b[c] + k])
      BY MappedBlock
    <3> QED BY <3>1
  <2>2. /\ Mapped(p)[c] \in Seq(Item) /\ Len(Mapped(p)[c]) = a[c + 1] - a[c]
        /\ \A k \in 1..(a[c + 1] - a[c]) : Mapped(p)[c][k] = Strip(p[a[c] + k])
    <3>1. p \in Seq(Queued)
      BY <1>0
    <3>2. /\ a[c] \in Nat /\ a[c + 1] \in Nat /\ a[c] <= a[c + 1] /\ a[c + 1] <= Len(p)
          /\ Mapped(p)[c] \in Seq(Item) /\ Len(Mapped(p)[c]) = a[c + 1] - a[c]
          /\ \A k \in 1..(a[c + 1] - a[c]) :
               a[c] + k \in 1..Len(p) /\ Mapped(p)[c][k] = Strip(p[a[c] + k])
      BY <3>1, <1>1, MappedBlock
    <3> QED BY <3>2
  <2> QED BY <2>1, <2>2
<1>7. ASSUME NEW c \in Class, c # e
      PROVE  Mapped(p)[c] = Mapped(q)[c]
  <2>1. CASE c < e
    <3>1. a[c] = b[c] /\ a[c + 1] = b[c + 1]
      BY <1>5, <2>1
    <3>2. \A k \in 1..(b[c + 1] - b[c]) : b[c] + k \in 1..m
      <4>1. b[c] \in Nat /\ b[c + 1] \in Nat /\ m \in Nat /\ b[e] \in Nat /\ b[c + 1] <= m
        <5>1. m \in Nat
          BY <1>0
        <5>2. b[c] \in Nat /\ b[c + 1] \in Nat /\ b[e] \in Nat /\ b[c + 1] <= b[e]
          BY <1>5, <2>1
        <5> QED BY <5>1, <5>2, <1>2
      <4> QED BY <4>1
    <3>3. \A k \in 1..(b[c + 1] - b[c]) : p[b[c] + k] = q[b[c] + k]
      BY <3>2, <1>0
    <3>4. /\ Mapped(p)[c] \in Seq(Item) /\ Mapped(q)[c] \in Seq(Item)
          /\ Len(Mapped(q)[c]) = b[c + 1] - b[c] /\ Len(Mapped(p)[c]) = Len(Mapped(q)[c])
      BY <1>6, <3>1
    <3>5. \A k \in 1..(b[c + 1] - b[c]) : Mapped(p)[c][k] = Strip(p[b[c] + k])
      BY <1>6, <3>1
    <3>6. \A k \in 1..(b[c + 1] - b[c]) : Mapped(q)[c][k] = Strip(q[b[c] + k])
      BY <1>6
    <3>7. \A k \in 1..Len(Mapped(p)[c]) : Mapped(p)[c][k] = Mapped(q)[c][k]
      BY <3>3, <3>4, <3>5, <3>6
    <3> QED BY <3>4, <3>7, SameSeq
  <2>2. CASE c > e
    <3>1. a[c] = b[c] + 1 /\ a[c + 1] = b[c + 1] + 1
      BY <1>5, <2>2
    <3>2. \A k \in 1..(b[c + 1] - b[c]) :
            b[c] + k \in (m + 1)..n /\ (b[c] + 1) + k = (b[c] + k) + 1
      <4>1. /\ b[c] \in Nat /\ b[c + 1] \in Nat /\ m \in Nat /\ n \in Nat
            /\ m <= b[c] /\ b[c + 1] <= n
        <5>1. m \in Nat /\ n \in Nat
          BY <1>0
        <5>2. /\ b[c] \in Nat /\ b[c + 1] \in Nat /\ b[e + 1] \in Nat
              /\ b[e + 1] <= b[c] /\ b[c + 1] <= n
          BY <1>5, <2>2
        <5> QED BY <5>1, <5>2, <1>2
      <4> TAKE k \in 1..(b[c + 1] - b[c])
      <4> DEFINE bc == b[c]
                 bd == b[c + 1]
      <4>2. k \in Int /\ 1 <= k /\ k <= bd - bc /\ bc \in Nat /\ bd \in Nat /\ m <= bc /\ bd <= n
        BY <4>1
      <4> HIDE DEF bc, bd
      <4>3. bc + k \in (m + 1)..n /\ (bc + 1) + k = (bc + k) + 1
        BY <4>1, <4>2
      <4> QED BY <4>3 DEF bc
    <3>3. \A k \in 1..(b[c + 1] - b[c]) : p[(b[c] + 1) + k] = q[b[c] + k]
      BY <3>2, <1>0
    <3>4. a[c + 1] - a[c] = b[c + 1] - b[c]
      <4>1. b[c] \in Nat /\ b[c + 1] \in Nat
        BY <1>5
      <4> QED BY <3>1, <4>1
    <3>5. /\ Mapped(p)[c] \in Seq(Item) /\ Mapped(q)[c] \in Seq(Item)
          /\ Len(Mapped(q)[c]) = b[c + 1] - b[c] /\ Len(Mapped(p)[c]) = Len(Mapped(q)[c])
      BY <1>6, <3>4
    <3>6. \A k \in 1..(b[c + 1] - b[c]) : Mapped(p)[c][k] = Strip(p[(b[c] + 1) + k])
      BY <1>6, <3>1, <3>4
    <3>7. \A k \in 1..(b[c + 1] - b[c]) : Mapped(q)[c][k] = Strip(q[b[c] + k])
      BY <1>6
    <3>8. \A k \in 1..Len(Mapped(p)[c]) : Mapped(p)[c][k] = Mapped(q)[c][k]
      BY <3>3, <3>5, <3>6, <3>7
    <3> QED BY <3>5, <3>8, SameSeq
  <2> QED BY <1>5, <1>7, <2>1, <2>2
<1>8. /\ a[e] = b[e] /\ a[e + 1] = b[e + 1] + 1 /\ b[e] \in Nat /\ b[e + 1] \in Nat
      /\ m \in Nat /\ b[e + 1] <= n
  BY <1>0, <1>5
<1>9. Len(Mapped(p)[e]) = Len(Mapped(q)[e]) + 1
  <2>1. (b[e + 1] + 1) - b[e] = (b[e + 1] - b[e]) + 1
    BY <1>8
  <2>2. Len(Mapped(p)[e]) = a[e + 1] - a[e] /\ Len(Mapped(q)[e]) = b[e + 1] - b[e]
    BY <1>0, <1>6
  <2>3. Len(Mapped(p)[e]) = (b[e + 1] + 1) - b[e]
    BY <2>2, <1>8
  <2> QED BY <2>1, <2>2, <2>3
<1>10. \A k \in 1..((b[e + 1] - b[e]) + 1) : Mapped(p)[e][k] = Strip(p[b[e] + k])
  <2>1. (b[e + 1] + 1) - b[e] = (b[e + 1] - b[e]) + 1
    BY <1>8
  <2>2. \A k \in 1..(a[e + 1] - a[e]) : Mapped(p)[e][k] = Strip(p[a[e] + k])
    BY <1>0, <1>6
  <2>3. a[e + 1] - a[e] = (b[e + 1] - b[e]) + 1 /\ a[e] = b[e]
    BY <1>8, <2>1
  <2> QED BY <2>2, <2>3
<1>11. ASSUME NEW k \in 1..(m - b[e])
       PROVE  Mapped(p)[e][k] = Mapped(q)[e][k]
  <2>1. k \in 1..((b[e + 1] - b[e]) + 1) /\ k \in 1..(b[e + 1] - b[e]) /\ b[e] + k \in 1..m
    BY <1>2, <1>8
  <2>2. p[b[e] + k] = q[b[e] + k]
    BY <2>1, <1>0
  <2> QED BY <2>1, <2>2, <1>0, <1>6, <1>10
<1>12. Mapped(p)[e][m - b[e] + 1] = Strip(x)
  <2>1. m - b[e] + 1 \in 1..((b[e + 1] - b[e]) + 1) /\ b[e] + (m - b[e] + 1) = m + 1
    <3>1. /\ b[e] \in Int /\ b[e + 1] \in Int /\ m \in Int /\ b[e] <= m /\ m <= b[e + 1]
      BY <1>2, <1>8
    <3> QED BY <3>1
  <2> QED BY <2>1, <1>0, <1>10
<1>13. ASSUME NEW k \in (m - b[e] + 1)..(b[e + 1] - b[e])
       PROVE  Mapped(p)[e][k + 1] = Mapped(q)[e][k]
  <2>1. /\ k + 1 \in 1..((b[e + 1] - b[e]) + 1) /\ k \in 1..(b[e + 1] - b[e])
        /\ b[e] + k \in (m + 1)..n /\ b[e] + (k + 1) = (b[e] + k) + 1
    <3>1. k \in Int /\ m - b[e] + 1 <= k /\ k <= b[e + 1] - b[e]
      BY <1>8
    <3>2. n \in Nat
      BY <1>0
    <3>3. b[e] \in Int /\ b[e + 1] \in Int /\ m \in Int /\ b[e] <= m /\ b[e + 1] <= n
      BY <1>2, <1>8
    <3>4. \A lo, hi, i, l, j \in Int :
            i - lo + 1 <= j /\ j <= hi - lo /\ lo <= i /\ hi <= l =>
              /\ 1 <= j + 1 /\ j + 1 <= (hi - lo) + 1 /\ 1 <= j
              /\ i + 1 <= lo + j /\ lo + j <= l /\ lo + (j + 1) = (lo + j) + 1
      OBVIOUS
    <3>5. /\ 1 <= k + 1 /\ k + 1 <= (b[e + 1] - b[e]) + 1 /\ 1 <= k
          /\ m + 1 <= b[e] + k /\ b[e] + k <= n /\ b[e] + (k + 1) = (b[e] + k) + 1
      BY <3>1, <3>2, <3>3, <3>4
    <3> QED BY <3>1, <3>2, <3>3, <3>5
  <2>2. p[(b[e] + k) + 1] = q[b[e] + k]
    BY <2>1, <1>0
  <2>3. Mapped(p)[e][k + 1] = Strip(p[b[e] + (k + 1)])
    BY <2>1, <1>10
  <2>4. Mapped(q)[e][k] = Strip(q[b[e] + k])
    BY <2>1, <1>0, <1>6
  <2> QED BY <2>1, <2>2, <2>3, <2>4
<1>14. Mapped(q)[e] \in Seq(Item) /\ Mapped(p)[e] \in Seq(Item)
       /\ Len(Mapped(q)[e]) = b[e + 1] - b[e]
  BY <1>0, <1>6
<1> QED BY <1>0, <1>7, <1>8, <1>9, <1>11, <1>12, <1>13, <1>14 DEF e

\* At the end of its class.
LEMMA MappedAppended ==
  ASSUME NEW q \in Seq(Queued), NEW b, Bounds(q, b),
         NEW x \in Queued, NEW m, NEW p, Inserted(q, x, m, p),
         m = b[TypeClass(x.type) + 1]
  PROVE  Mapped(p) = [Mapped(q) EXCEPT ![TypeClass(x.type)] = Append(@, Strip(x))]
<1> DEFINE e == TypeClass(x.type)
           u == Mapped(q)[e]
           v == Mapped(p)[e]
<1>1. e \in Class
  BY QueuedType DEF Class
<1>2. b[e] <= m /\ m <= b[e + 1]
  <2>1. b[e] <= b[e + 1] /\ b[e + 1] \in Nat
    BY <1>1, MappedBlock
  <2> QED BY <2>1
<1>3. /\ u \in Seq(Item) /\ v \in Seq(Item) /\ b[e] \in Nat /\ m \in Nat /\ Len(u) = m - b[e]
      /\ \A c \in Class : c # e => Mapped(p)[c] = Mapped(q)[c]
      /\ Len(v) = Len(u) + 1
      /\ \A k \in 1..(m - b[e]) : v[k] = u[k]
      /\ v[m - b[e] + 1] = Strip(x)
  BY <1>2, MappedInserted
<1>4. Strip(x) \in Item
  BY QueuedType DEF Strip, Item
<1> HIDE DEF u, v, e
<1>5. Append(u, Strip(x)) \in Seq(Item) /\ Len(Append(u, Strip(x))) = Len(v)
      /\ \A k \in 1..Len(v) : Append(u, Strip(x))[k] = v[k]
  BY <1>3, <1>4
<1>6. v = Append(u, Strip(x))
  BY <1>3, <1>5, SameSeq
<1>7. Mapped(p) = [Mapped(q) EXCEPT ![e] = Append(u, Strip(x))]
  BY <1>1, <1>3, <1>6 DEF Mapped, v
<1> QED BY <1>7 DEF e, u

\* At the front of its class.
LEMMA MappedPrepended ==
  ASSUME NEW q \in Seq(Queued), NEW b, Bounds(q, b),
         NEW x \in Queued, NEW m, NEW p, Inserted(q, x, m, p),
         m = b[TypeClass(x.type)]
  PROVE  Mapped(p) = [Mapped(q) EXCEPT ![TypeClass(x.type)] = <<Strip(x)>> \o @]
<1> DEFINE e == TypeClass(x.type)
           u == Mapped(q)[e]
           v == Mapped(p)[e]
<1>1. e \in Class
  BY QueuedType DEF Class
<1>2. b[e] <= m /\ m <= b[e + 1]
  <2>1. b[e] <= b[e + 1] /\ b[e] \in Nat
    BY <1>1, MappedBlock
  <2> QED BY <2>1
<1>3. /\ u \in Seq(Item) /\ v \in Seq(Item) /\ m \in Nat
      /\ Len(u) = b[e + 1] - m
      /\ \A c \in Class : c # e => Mapped(p)[c] = Mapped(q)[c]
      /\ Len(v) = Len(u) + 1
      /\ v[m - m + 1] = Strip(x)
      /\ \A k \in (m - m + 1)..(b[e + 1] - m) : v[k + 1] = u[k]
  BY <1>2, MappedInserted
<1>4. Strip(x) \in Item
  BY QueuedType DEF Strip, Item
<1> HIDE DEF u, v, e
<1>5. v[1] = Strip(x) /\ \A k \in 1..Len(u) : v[k + 1] = u[k]
  <2>1. m - m + 1 = 1
    BY <1>3
  <2> QED BY <1>3, <2>1
<1> DEFINE w == <<Strip(x)>> \o u
<1>6. w \in Seq(Item) /\ Len(w) = Len(v)
  BY <1>3, <1>4
<1>7. \A k \in 1..Len(w) : w[k] = v[k]
  <2> TAKE k \in 1..Len(w)
  <2>1. CASE k = 1
    BY <2>1, <1>3, <1>4, <1>5
  <2>2. CASE k # 1
    <3>1. k - 1 \in 1..Len(u) /\ (k - 1) + 1 = k
      BY <2>2, <1>3, <1>6
    <3>2. w[k] = u[k - 1]
      BY <2>2, <3>1, <1>3, <1>4
    <3>3. v[(k - 1) + 1] = u[k - 1]
      BY <3>1, <1>5
    <3> QED BY <3>1, <3>2, <3>3
  <2> QED BY <2>1, <2>2
<1>8. v = w
  <2> HIDE DEF w
  <2> QED BY <1>3, <1>6, <1>7, SameSeq
<1>9. Mapped(p) = [Mapped(q) EXCEPT ![e] = w]
  BY <1>1, <1>3, <1>8 DEF Mapped, v
<1> QED BY <1>9 DEF e, u

\* A task taken out leaves its deque at its place there.
LEMMA MappedRemoved ==
  ASSUME NEW q \in Seq(Queued), NEW b, Bounds(q, b), NEW k \in 1..Len(q)
  PROVE  LET e == TypeClass(q[k].type)
         IN  /\ e \in Class /\ Mapped(q)[e] \in Seq(Item)
             /\ k - b[e] \in 1..Len(Mapped(q)[e])
             /\ Mapped(q)[e][k - b[e]] = Strip(q[k])
             /\ Mapped(Without(q, k)) = [Mapped(q) EXCEPT ![e] = Without(@, k - b[e])]
<1> DEFINE n == Len(q)
           e == TypeClass(q[k].type)
           a == Lowered(b, e)
           p == Without(q, k)
           u == Mapped(q)[e]
           l == k - b[e]
<1>0. /\ n \in Nat /\ k \in 1..n /\ p \in Seq(Queued) /\ Len(p) = n - 1
      /\ \A i \in 1..(n - 1) : p[i] = IF i < k THEN q[i] ELSE q[i + 1]
  <2>1. n \in Nat
    OBVIOUS
  <2>2. /\ p \in Seq(Queued) /\ Len(p) = n - 1
        /\ \A i \in 1..(n - 1) : p[i] = IF i < k THEN q[i] ELSE q[i + 1]
    BY WithoutAt
  <2> QED BY <2>1, <2>2
<1>1. Bounds(p, a)
  BY BoundsRemoved
<1>2. /\ \A c, d \in 0..3 : c <= d => b[c] <= b[d]
      /\ \A d \in 0..3 : b[d] \in Nat /\ b[d] <= n
      /\ \A c \in Class : c \in 0..3 /\ c + 1 \in 0..3
      /\ e \in Class /\ b[e] < k /\ k <= b[e + 1]
  BY BoundsFacts
<1>3. \A d \in 0..3 : a[d] = IF d <= e THEN b[d] ELSE b[d] - 1
  BY DEF Lowered
<1> HIDE DEF n, e, a, p
<1>4. ASSUME NEW c \in Class
      PROVE  /\ a[c] = IF c <= e THEN b[c] ELSE b[c] - 1
             /\ a[c + 1] = IF c + 1 <= e THEN b[c + 1] ELSE b[c + 1] - 1
             /\ b[c] \in Nat /\ b[c + 1] \in Nat /\ b[e] \in Nat /\ b[e + 1] \in Nat
             /\ (c < e => b[c + 1] <= b[e]) /\ (c > e => b[e + 1] <= b[c])
             /\ c \in Int /\ e \in Int /\ b[c] <= b[c + 1] /\ b[c + 1] <= n
  <2>1. c \in 0..3 /\ c + 1 \in 0..3 /\ e \in 0..3 /\ e + 1 \in 0..3
    BY <1>2
  <2>2. (c < e => b[c + 1] <= b[e]) /\ (c > e => b[e + 1] <= b[c]) /\ b[c] <= b[c + 1]
    <3>1. (c < e => c + 1 <= e) /\ (c > e => e + 1 <= c) /\ c <= c + 1
      BY <2>1
    <3> QED BY <2>1, <3>1, <1>2
  <2>3. b[c] \in Nat /\ b[c + 1] \in Nat /\ b[e] \in Nat /\ b[e + 1] \in Nat /\ b[c + 1] <= n
    BY <2>1, <1>2
  <2>4. /\ a[c] = IF c <= e THEN b[c] ELSE b[c] - 1
        /\ a[c + 1] = IF c + 1 <= e THEN b[c + 1] ELSE b[c + 1] - 1
    BY <2>1, <1>3
  <2> QED BY <2>1, <2>2, <2>3, <2>4
<1>5. ASSUME NEW c \in Class
      PROVE  /\ Mapped(q)[c] \in Seq(Item) /\ Len(Mapped(q)[c]) = b[c + 1] - b[c]
             /\ \A i \in 1..(b[c + 1] - b[c]) : Mapped(q)[c][i] = Strip(q[b[c] + i])
             /\ Mapped(p)[c] \in Seq(Item) /\ Len(Mapped(p)[c]) = a[c + 1] - a[c]
             /\ \A i \in 1..(a[c + 1] - a[c]) : Mapped(p)[c][i] = Strip(p[a[c] + i])
  <2>1. /\ Mapped(q)[c] \in Seq(Item) /\ Len(Mapped(q)[c]) = b[c + 1] - b[c]
        /\ \A i \in 1..(b[c + 1] - b[c]) : Mapped(q)[c][i] = Strip(q[b[c] + i])
    BY MappedBlock
  <2>2. /\ Mapped(p)[c] \in Seq(Item) /\ Len(Mapped(p)[c]) = a[c + 1] - a[c]
        /\ \A i \in 1..(a[c + 1] - a[c]) : Mapped(p)[c][i] = Strip(p[a[c] + i])
    <3>1. p \in Seq(Queued)
      BY <1>0
    <3> QED BY <3>1, <1>1, MappedBlock
  <2> QED BY <2>1, <2>2
<1>6. ASSUME NEW c \in Class, c # e
      PROVE  Mapped(p)[c] = Mapped(q)[c]
  <2>1. CASE c < e
    <3>1. a[c] = b[c] /\ a[c + 1] = b[c + 1]
      BY <1>4, <2>1
    <3>2. \A i \in 1..(b[c + 1] - b[c]) : b[c] + i \in 1..(n - 1) /\ b[c] + i < k
      <4>1. /\ b[c] \in Nat /\ b[c + 1] \in Nat /\ n \in Nat /\ b[c + 1] < k /\ k <= n /\ k \in Int
            /\ b[e] \in Nat
        <5>1. k \in Int /\ k <= n /\ n \in Nat
          BY <1>0
        <5>2. b[c] \in Nat /\ b[c + 1] \in Nat /\ b[e] \in Nat /\ b[c + 1] <= b[e]
          BY <1>4, <2>1
        <5> QED BY <5>1, <5>2, <1>2
      <4> QED BY <4>1
    <3>3. \A i \in 1..(b[c + 1] - b[c]) : p[b[c] + i] = q[b[c] + i]
      BY <3>2, <1>0
    <3>4. /\ Mapped(p)[c] \in Seq(Item) /\ Mapped(q)[c] \in Seq(Item)
          /\ Len(Mapped(q)[c]) = b[c + 1] - b[c] /\ Len(Mapped(p)[c]) = Len(Mapped(q)[c])
      BY <1>5, <3>1
    <3>5. \A i \in 1..(b[c + 1] - b[c]) : Mapped(p)[c][i] = Strip(p[b[c] + i])
      BY <1>5, <3>1
    <3>6. \A i \in 1..(b[c + 1] - b[c]) : Mapped(q)[c][i] = Strip(q[b[c] + i])
      BY <1>5
    <3>7. \A i \in 1..Len(Mapped(p)[c]) : Mapped(p)[c][i] = Mapped(q)[c][i]
      BY <3>3, <3>4, <3>5, <3>6
    <3> QED BY <3>4, <3>7, SameSeq
  <2>2. CASE c > e
    <3>1. a[c] = b[c] - 1 /\ a[c + 1] = b[c + 1] - 1
      BY <1>4, <2>2
    <3>2. \A i \in 1..(b[c + 1] - b[c]) :
            /\ (b[c] - 1) + i \in 1..(n - 1) /\ ~((b[c] - 1) + i < k)
            /\ ((b[c] - 1) + i) + 1 = b[c] + i
      <4>1. /\ b[c] \in Nat /\ b[c + 1] \in Nat /\ n \in Nat /\ k <= b[c] /\ b[c + 1] <= n
            /\ k \in Int /\ 1 <= k
        <5>1. k \in Int /\ 1 <= k /\ n \in Nat
          BY <1>0
        <5>2. b[c] \in Nat /\ b[c + 1] \in Nat /\ b[c + 1] <= n /\ b[e + 1] <= b[c] /\ b[e + 1] \in Nat
          BY <1>4, <2>2
        <5> QED BY <5>1, <5>2, <1>2
      <4> TAKE i \in 1..(b[c + 1] - b[c])
      <4> DEFINE bc == b[c]
                 bd == b[c + 1]
      <4>2. i \in Int /\ 1 <= i /\ i <= bd - bc /\ bc \in Nat /\ bd \in Nat /\ k <= bc /\ bd <= n
        BY <4>1
      <4> HIDE DEF bc, bd
      <4>3. /\ (bc - 1) + i \in 1..(n - 1) /\ ~((bc - 1) + i < k)
            /\ ((bc - 1) + i) + 1 = bc + i
        BY <4>1, <4>2
      <4> QED BY <4>3 DEF bc
    <3>3. \A i \in 1..(b[c + 1] - b[c]) : p[(b[c] - 1) + i] = q[b[c] + i]
      BY <3>2, <1>0
    <3>4. a[c + 1] - a[c] = b[c + 1] - b[c]
      <4>1. b[c] \in Nat /\ b[c + 1] \in Nat
        BY <1>4
      <4> QED BY <3>1, <4>1
    <3>5. /\ Mapped(p)[c] \in Seq(Item) /\ Mapped(q)[c] \in Seq(Item)
          /\ Len(Mapped(q)[c]) = b[c + 1] - b[c] /\ Len(Mapped(p)[c]) = Len(Mapped(q)[c])
      BY <1>5, <3>4
    <3>6. \A i \in 1..(b[c + 1] - b[c]) : Mapped(p)[c][i] = Strip(p[(b[c] - 1) + i])
      BY <1>5, <3>1, <3>4
    <3>7. \A i \in 1..(b[c + 1] - b[c]) : Mapped(q)[c][i] = Strip(q[b[c] + i])
      BY <1>5
    <3>8. \A i \in 1..Len(Mapped(p)[c]) : Mapped(p)[c][i] = Mapped(q)[c][i]
      BY <3>3, <3>5, <3>6, <3>7
    <3> QED BY <3>5, <3>8, SameSeq
  <2> QED BY <1>4, <1>6, <2>1, <2>2
<1>7. /\ a[e] = b[e] /\ a[e + 1] = b[e + 1] - 1 /\ b[e] \in Nat /\ b[e + 1] \in Nat
      /\ b[e] < k /\ k <= b[e + 1] /\ k \in Int /\ b[e + 1] <= n /\ e \in Class
  BY <1>0, <1>2, <1>4
<1>8. /\ u \in Seq(Item) /\ Len(u) = b[e + 1] - b[e]
      /\ \A i \in 1..(b[e + 1] - b[e]) : u[i] = Strip(q[b[e] + i])
  BY <1>5, <1>7
<1>9. l \in 1..(b[e + 1] - b[e]) /\ b[e] + l = k
  BY <1>7
<1>10. u[l] = Strip(q[k])
  BY <1>8, <1>9
<1>11. /\ Mapped(p)[e] \in Seq(Item) /\ Len(Mapped(p)[e]) = Len(u) - 1
       /\ \A i \in 1..(Len(u) - 1) : Mapped(p)[e][i] = Strip(p[b[e] + i])
  <2>1. a[e + 1] - a[e] = Len(u) - 1
    BY <1>7, <1>8
  <2>2. /\ Mapped(p)[e] \in Seq(Item) /\ Len(Mapped(p)[e]) = a[e + 1] - a[e]
        /\ \A i \in 1..(a[e + 1] - a[e]) : Mapped(p)[e][i] = Strip(p[a[e] + i])
    BY <1>5, <1>7
  <2>3. a[e] = b[e]
    BY <1>7
  <2> HIDE DEF u
  <2> QED BY <2>1, <2>2, <2>3
<1>12. /\ Without(u, l) \in Seq(Item) /\ Len(Without(u, l)) = Len(u) - 1
       /\ \A i \in 1..(Len(u) - 1) : Without(u, l)[i] = IF i < l THEN u[i] ELSE u[i + 1]
  <2>1. l \in 1..Len(u)
    BY <1>8, <1>9
  <2> HIDE DEF u, l
  <2> QED BY <2>1, <1>8, WithoutAt
<1>13. ASSUME NEW i \in 1..(Len(u) - 1)
       PROVE  Mapped(p)[e][i] = Without(u, l)[i]
  <2>1. i \in 1..(b[e + 1] - b[e]) /\ i + 1 \in 1..(b[e + 1] - b[e]) /\ b[e] + i \in 1..(n - 1)
    <3>1. i \in Int /\ 1 <= i /\ i <= (b[e + 1] - b[e]) - 1 /\ n \in Nat
      BY <1>7, <1>8, <1>0
    <3>2. b[e] \in Nat /\ b[e + 1] \in Nat /\ b[e + 1] <= n
      BY <1>7
    <3> HIDE DEF u
    <3> QED BY <3>1, <3>2
  <2>2. CASE i < l
    <3>1. b[e] + i < k
      BY <2>1, <2>2, <1>7
    <3>2. p[b[e] + i] = q[b[e] + i]
      BY <2>1, <3>1, <1>0
    <3> QED BY <2>1, <2>2, <3>2, <1>8, <1>11, <1>12
  <2>3. CASE ~(i < l)
    <3>1. ~(b[e] + i < k) /\ (b[e] + i) + 1 = b[e] + (i + 1)
      <4>1. \A lo, j, m \in Int :
              ~(j < m - lo) => ~(lo + j < m) /\ (lo + j) + 1 = lo + (j + 1)
        OBVIOUS
      <4>2. b[e] \in Int /\ i \in Int /\ k \in Int
        BY <1>7, <2>1
      <4> QED BY <4>1, <4>2, <2>3
    <3>2. p[b[e] + i] = q[b[e] + (i + 1)]
      BY <2>1, <3>1, <1>0
    <3>3. Without(u, l)[i] = u[i + 1]
      BY <2>3, <1>12
    <3>4. u[i + 1] = Strip(q[b[e] + (i + 1)])
      BY <2>1, <1>8
    <3> QED BY <3>2, <3>3, <3>4, <1>11
  <2> QED BY <2>2, <2>3
<1>14. Mapped(p)[e] = Without(u, l)
  <2> HIDE DEF u, l
  <2> QED BY <1>11, <1>12, <1>13, SameSeq
<1>15. Mapped(p) = [Mapped(q) EXCEPT ![e] = Without(u, l)]
  <2>1. \A c \in Class : Mapped(p)[c] = IF c = e THEN Without(u, l) ELSE Mapped(q)[c]
    BY <1>6, <1>14
  <2> HIDE DEF u, l
  <2> QED BY <2>1, <1>7 DEF Mapped
<1>16. l \in 1..Len(u) /\ e \in Class
  BY <1>8, <1>9, <1>7
<1> QED BY <1>8, <1>10, <1>15, <1>16 DEF e, p, u, l

\* Without the evolution tasks the deque of their class is empty.
LEMMA MappedDropped ==
  ASSUME NEW q \in Seq(Queued), Increasing(q)
  PROVE  Mapped(At(q, {i \in 1..Len(q) : q[i].type # "evolution"}))
           = [Mapped(q) EXCEPT ![TypeClass("evolution")] = <<>>]
<1> DEFINE n == Len(q)
           p == At(q, {i \in 1..n : q[i].type # "evolution"})
<1>1. PICK b : Bounds(q, b)
  BY Blocks
<1> DEFINE a == [d \in 0..3 |-> IF d <= 1 THEN b[d] ELSE b[d] - (b[2] - b[1])]
<1>2. /\ n \in Nat /\ b[0] = 0 /\ b[3] = n /\ b[1] \in Nat /\ b[2] \in Nat
      /\ b[0] <= b[1] /\ b[1] <= b[2] /\ b[2] <= n
      /\ \A c \in Class, i \in 1..n :
           TypeClass(q[i].type) = c <=> b[c] < i /\ i <= b[c + 1]
  <2>1. b[0] <= b[1] /\ b[1] <= b[2] /\ b[2] <= b[3] /\ b[1] \in Nat /\ b[2] \in Nat
    BY <1>1 DEF Bounds
  <2> QED BY <1>1, <2>1, BoundsFacts
<1>3. /\ p \in Seq(Queued) /\ Len(p) = b[1] + (n - b[2])
      /\ \A i \in 1..b[1] : p[i] = q[i]
      /\ \A i \in (b[1] + 1)..Len(p) : p[i] = q[i + (b[2] - b[1])]
  BY <1>1, DropAt
<1> HIDE DEF p, n
<1>4. a[0] = 0 /\ a[1] = b[1] /\ a[2] = b[1] /\ a[3] = Len(p) /\ a \in [0..3 -> 0..Len(p)]
  <2>1. a[0] = 0 /\ a[1] = b[1] /\ a[2] = b[1] /\ a[3] = Len(p)
    BY <1>2, <1>3
  <2>2. \A d \in 0..3 : d = 0 \/ d = 1 \/ d = 2 \/ d = 3
    OBVIOUS
  <2>3. b[1] \in 0..Len(p) /\ Len(p) \in 0..Len(p) /\ 0 \in 0..Len(p)
    BY <1>2, <1>3
  <2>4. \A d \in 0..3 : a[d] \in 0..Len(p)
    BY <2>1, <2>2, <2>3
  <2> QED BY <2>1, <2>4
<1> HIDE DEF a
<1>5. \A c \in Class : c = 0 \/ c = 1 \/ c = 2
  BY DEF Class
<1>6. ASSUME NEW c \in Class, NEW i \in 1..Len(p)
      PROVE  TypeClass(p[i].type) = c <=> a[c] < i /\ i <= a[c + 1]
  <2>0. /\ c = 0 => b[c] = 0 /\ b[c + 1] = b[1] /\ a[c] = 0 /\ a[c + 1] = b[1]
        /\ c = 1 => b[c] = b[1] /\ b[c + 1] = b[2] /\ a[c] = b[1] /\ a[c + 1] = b[1]
        /\ c = 2 => b[c] = b[2] /\ b[c + 1] = n /\ a[c] = b[1] /\ a[c + 1] = b[1] + (n - b[2])
        /\ c = 0 \/ c = 1 \/ c = 2
        /\ b[1] \in Nat /\ b[2] \in Nat /\ n \in Nat /\ b[1] <= b[2] /\ b[2] <= n
        /\ i \in Int /\ 1 <= i /\ i <= b[1] + (n - b[2])
    BY <1>2, <1>3, <1>4, <1>5
  <2>1. CASE i <= b[1]
    <3>1. i \in 1..n /\ p[i] = q[i]
      BY <2>1, <1>2, <1>3
    <3>2. TypeClass(p[i].type) = c <=> b[c] < i /\ i <= b[c + 1]
      BY <3>1, <1>2
    <3> QED BY <3>2, <2>0, <2>1
  <2>2. CASE ~(i <= b[1])
    <3> DEFINE j == i + (b[2] - b[1])
    <3>1. j \in 1..n /\ p[i] = q[j] /\ b[2] < j
      <4>1. i \in (b[1] + 1)..Len(p)
        BY <2>2, <1>2, <1>3
      <4>2. /\ i \in Int /\ b[1] < i /\ i <= b[1] + (n - b[2])
            /\ n \in Int /\ b[1] \in Nat /\ b[2] \in Int /\ b[1] <= b[2]
        BY <4>1, <1>2, <1>3
      <4>3. 1 <= j /\ j <= n /\ b[2] < j /\ j \in Int
        BY <4>2
      <4>4. p[i] = q[j]
        BY <4>1, <1>3
      <4> QED BY <4>2, <4>3, <4>4
    <3> HIDE DEF j
    <3>2. TypeClass(p[i].type) = c <=> b[c] < j /\ j <= b[c + 1]
      BY <3>1, <1>2
    <3>3. j = i + (b[2] - b[1])
      BY DEF j
    <3> QED BY <3>1, <3>2, <3>3, <2>0, <2>2
  <2> QED BY <2>1, <2>2
<1>7. Bounds(p, a)
  <2>1. a[0] <= a[1] /\ a[1] <= a[2] /\ a[2] <= a[3]
    BY <1>2, <1>3, <1>4
  <2> QED BY <1>3, <1>4, <1>6, <2>1, BoundsByPlace
<1>8. ASSUME NEW c \in Class
      PROVE  /\ Mapped(q)[c] \in Seq(Item) /\ Len(Mapped(q)[c]) = b[c + 1] - b[c]
             /\ \A i \in 1..(b[c + 1] - b[c]) : Mapped(q)[c][i] = Strip(q[b[c] + i])
             /\ Mapped(p)[c] \in Seq(Item) /\ Len(Mapped(p)[c]) = a[c + 1] - a[c]
             /\ \A i \in 1..(a[c + 1] - a[c]) : Mapped(p)[c][i] = Strip(p[a[c] + i])
  <2>1. /\ Mapped(q)[c] \in Seq(Item) /\ Len(Mapped(q)[c]) = b[c + 1] - b[c]
        /\ \A i \in 1..(b[c + 1] - b[c]) : Mapped(q)[c][i] = Strip(q[b[c] + i])
    BY <1>1, MappedBlock
  <2>2. /\ Mapped(p)[c] \in Seq(Item) /\ Len(Mapped(p)[c]) = a[c + 1] - a[c]
        /\ \A i \in 1..(a[c + 1] - a[c]) : Mapped(p)[c][i] = Strip(p[a[c] + i])
    BY <1>3, <1>7, MappedBlock
  <2> QED BY <2>1, <2>2
<1>9. 0 \in Class /\ 1 \in Class /\ 2 \in Class /\ 0 + 1 = 1 /\ 1 + 1 = 2 /\ 2 + 1 = 3
  BY DEF Class
<1>10. Mapped(p)[0] = Mapped(q)[0]
  <2>1. /\ Mapped(q)[0] \in Seq(Item) /\ Len(Mapped(q)[0]) = b[1]
        /\ \A i \in 1..b[1] : Mapped(q)[0][i] = Strip(q[i])
    <3>1. /\ Mapped(q)[0] \in Seq(Item) /\ Len(Mapped(q)[0]) = b[0 + 1] - b[0]
          /\ \A i \in 1..(b[0 + 1] - b[0]) : Mapped(q)[0][i] = Strip(q[b[0] + i])
      BY <1>8, <1>9
    <3> QED BY <3>1, <1>2, <1>9
  <2>2. /\ Mapped(p)[0] \in Seq(Item) /\ Len(Mapped(p)[0]) = b[1]
        /\ \A i \in 1..b[1] : Mapped(p)[0][i] = Strip(p[i])
    <3>1. /\ Mapped(p)[0] \in Seq(Item) /\ Len(Mapped(p)[0]) = a[0 + 1] - a[0]
          /\ \A i \in 1..(a[0 + 1] - a[0]) : Mapped(p)[0][i] = Strip(p[a[0] + i])
      BY <1>8, <1>9
    <3> QED BY <3>1, <1>2, <1>4, <1>9
  <2>3. \A i \in 1..b[1] : Mapped(p)[0][i] = Mapped(q)[0][i]
    BY <2>1, <2>2, <1>3
  <2> QED BY <2>1, <2>2, <2>3, SameSeq
<1>11. Mapped(p)[1] = <<>>
  <2>1. Mapped(p)[1] \in Seq(Item) /\ Len(Mapped(p)[1]) = a[1 + 1] - a[1]
    BY <1>8, <1>9
  <2>2. Len(Mapped(p)[1]) = 0
    BY <2>1, <1>2, <1>4, <1>9
  <2> QED BY <2>1, <2>2
<1>12. Mapped(p)[2] = Mapped(q)[2]
  <2>1. /\ Mapped(q)[2] \in Seq(Item) /\ Len(Mapped(q)[2]) = n - b[2]
        /\ \A i \in 1..(n - b[2]) : Mapped(q)[2][i] = Strip(q[b[2] + i])
    <3>1. /\ Mapped(q)[2] \in Seq(Item) /\ Len(Mapped(q)[2]) = b[2 + 1] - b[2]
          /\ \A i \in 1..(b[2 + 1] - b[2]) : Mapped(q)[2][i] = Strip(q[b[2] + i])
      BY <1>8, <1>9
    <3> QED BY <3>1, <1>2, <1>9
  <2>2. /\ Mapped(p)[2] \in Seq(Item) /\ Len(Mapped(p)[2]) = n - b[2]
        /\ \A i \in 1..(n - b[2]) : Mapped(p)[2][i] = Strip(p[b[1] + i])
    <3>1. /\ Mapped(p)[2] \in Seq(Item) /\ Len(Mapped(p)[2]) = a[2 + 1] - a[2]
          /\ \A i \in 1..(a[2 + 1] - a[2]) : Mapped(p)[2][i] = Strip(p[a[2] + i])
      BY <1>8, <1>9
    <3>2. a[2 + 1] - a[2] = n - b[2] /\ a[2] = b[1]
      BY <1>2, <1>3, <1>4, <1>9
    <3> QED BY <3>1, <3>2
  <2>3. \A i \in 1..(n - b[2]) : p[b[1] + i] = q[b[2] + i]
    <3> TAKE i \in 1..(n - b[2])
    <3> DEFINE j == b[1] + i
    <3>1. j \in (b[1] + 1)..Len(p) /\ j + (b[2] - b[1]) = b[2] + i
      BY <1>2, <1>3
    <3> HIDE DEF j
    <3>2. p[j] = q[j + (b[2] - b[1])]
      BY <3>1, <1>3
    <3> QED BY <3>1, <3>2 DEF j
  <2>4. \A i \in 1..(n - b[2]) : Mapped(p)[2][i] = Mapped(q)[2][i]
    BY <2>1, <2>2, <2>3
  <2>5. /\ Mapped(p)[2] \in Seq(Item) /\ Mapped(q)[2] \in Seq(Item)
        /\ Len(Mapped(p)[2]) = Len(Mapped(q)[2])
    BY <2>1, <2>2
  <2>6. \A i \in 1..Len(Mapped(p)[2]) : Mapped(p)[2][i] = Mapped(q)[2][i]
    BY <2>2, <2>4
  <2> QED BY <2>5, <2>6, SameSeq
<1>13. TypeClass("evolution") = 1
  BY DEF TypeClass
<1>14. Mapped(p) = [Mapped(q) EXCEPT ![1] = <<>>]
  <2>1. \A c \in Class : Mapped(p)[c] = IF c = 1 THEN <<>> ELSE Mapped(q)[c]
    BY <1>5, <1>10, <1>11, <1>12
  <2> QED BY <2>1, <1>9 DEF Mapped
<1> QED BY <1>13, <1>14 DEF p, n

\* A new number, the largest or the smallest, puts a task at the end or at the
\* front of its class.
LEMMA EnqueueMapped ==
  ASSUME TypeOK, Sorted, NEW item \in Item, NEW front \in BOOLEAN, Enqueue(item, front)
  PROVE  Mapped(PENDING') =
           [Mapped(PENDING) EXCEPT ![TypeClass(item.type)] =
              IF front THEN <<item>> \o @ ELSE Append(@, item)]
<1> DEFINE q == PENDING
           e == TypeClass(item.type)
<1>1. PICK x \in Queued, m \in 0..Len(q) :
        /\ x.id = item.id /\ x.type = item.type
        /\ x.seq = IF front THEN -(seqCounter + 1) ELSE seqCounter + 1
        /\ \A j \in 1..m : Before(q[j], x)
        /\ \A j \in (m + 1)..Len(q) : Before(x, q[j])
        /\ Inserted(q, x, m, PENDING')
  BY EnqueueInserts
<1>2. q \in Seq(Queued) /\ seqCounter \in Nat /\ Increasing(q)
  BY IncreasingIsSorted DEF TypeOK
<1>3. PICK b : Bounds(q, b)
  BY <1>2, Blocks
<1>4. /\ Len(q) \in Nat /\ e \in Class /\ e \in Int
      /\ \A c, d \in 0..3 : c <= d => b[c] <= b[d]
      /\ \A d \in 0..3 : b[d] \in Nat /\ b[d] <= Len(q)
      /\ \A c \in Class, i \in 1..Len(q) :
           TypeClass(q[i].type) = c <=> b[c] < i /\ i <= b[c + 1]
      /\ \A c \in Class : c \in 0..3 /\ c + 1 \in 0..3
  <2>1. e \in Class /\ e \in Int
    BY ClassType DEF Item, Class
  <2> QED BY <2>1, <1>2, <1>3, BoundsFacts
<1>5. \A i \in 1..Len(q) :
        /\ q[i] \in Queued /\ TypeClass(q[i].type) \in Class /\ q[i].seq \in Int
        /\ -seqCounter <= q[i].seq /\ q[i].seq <= seqCounter
  <2>1. \A i \in 1..Len(q) : -seqCounter <= q[i].seq /\ q[i].seq <= seqCounter
    BY DEF Sorted
  <2>2. \A i \in 1..Len(q) : q[i] \in Queued
    BY <1>2
  <2> QED BY <2>1, <2>2, QueuedType DEF Class
<1>6. Strip(x) = item
  BY <1>1 DEF Strip, Item
<1> HIDE DEF q, e
<1>7. b[e] \in Nat /\ b[e + 1] \in Nat /\ b[e] <= b[e + 1] /\ b[e + 1] <= Len(q)
  <2>1. e \in 0..3 /\ e + 1 \in 0..3 /\ e <= e + 1
    BY <1>4
  <2> QED BY <2>1, <1>4
<1>8. \A j \in 1..m : TypeClass(q[j].type) <= e
  <2> TAKE j \in 1..m
  <2>1. Before(q[j], x) /\ j \in 1..Len(q) /\ TypeClass(x.type) = e
    BY <1>1, <1>4 DEF e
  <2>2. TypeClass(q[j].type) \in Int
    BY <2>1, <1>5 DEF Class
  <2> QED BY <2>1, <2>2, <1>4 DEF Before
<1>9. \A j \in (m + 1)..Len(q) : e <= TypeClass(q[j].type)
  <2> TAKE j \in (m + 1)..Len(q)
  <2>1. Before(x, q[j]) /\ j \in 1..Len(q) /\ TypeClass(x.type) = e
    BY <1>1, <1>4 DEF e
  <2>2. TypeClass(q[j].type) \in Int
    BY <2>1, <1>5 DEF Class
  <2> QED BY <2>1, <2>2, <1>4 DEF Before
<1>10. m <= b[e + 1]
  <2> SUFFICES ASSUME ~(m <= b[e + 1]) PROVE FALSE
    OBVIOUS
  <2> DEFINE d == TypeClass(q[m].type)
  <2>1. m \in 1..m /\ m \in 1..Len(q)
    BY <1>1, <1>4, <1>7
  <2>2. d <= e /\ d \in Class /\ m <= b[d + 1]
    BY <2>1, <1>4, <1>5, <1>8
  <2> HIDE DEF d
  <2>3. b[d + 1] <= b[e + 1] /\ b[d + 1] \in Nat
    <3>1. d + 1 \in 0..3 /\ e + 1 \in 0..3 /\ d + 1 <= e + 1
      BY <2>2, <1>4 DEF Class
    <3> QED BY <3>1, <1>4
  <2> QED BY <2>2, <2>3, <1>1, <1>7
<1>11. b[e] <= m
  <2> SUFFICES ASSUME ~(b[e] <= m) PROVE FALSE
    OBVIOUS
  <2> DEFINE i == b[e]
             d == TypeClass(q[i].type)
  <2>1. i \in (m + 1)..Len(q) /\ i \in 1..Len(q)
    <3>1. b[e] \in Nat /\ m \in Nat /\ Len(q) \in Nat /\ b[e] <= Len(q)
      BY <1>1, <1>4, <1>7
    <3> QED BY <3>1
  <2>2. e <= d /\ d \in Class /\ b[d] < i
    BY <2>1, <1>4, <1>5, <1>9
  <2> HIDE DEF d
  <2>3. i <= b[d] /\ b[d] \in Nat
    BY <2>2, <1>4
  <2> HIDE DEF i
  <2> QED BY <2>1, <2>2, <2>3
<1>12. CASE ~front
  <2>1. m = b[e + 1]
    <3> SUFFICES ASSUME m < b[e + 1] PROVE FALSE
      BY <1>1, <1>7, <1>10
    <3>1. m + 1 \in (m + 1)..Len(q) /\ m + 1 \in 1..Len(q) /\ b[e] < m + 1 /\ m + 1 <= b[e + 1]
      <4>1. /\ Len(q) \in Nat /\ m \in Nat /\ b[e] \in Nat /\ b[e + 1] \in Nat
            /\ b[e] <= m /\ b[e + 1] <= Len(q)
        BY <1>1, <1>4, <1>7, <1>11
      <4> HIDE DEF e, q
      <4> QED BY <4>1
    <3>2. TypeClass(q[m + 1].type) = e
      BY <3>1, <1>4
    <3>3. x.seq < q[m + 1].seq
      <4>1. Before(x, q[m + 1])
        BY <3>1, <1>1
      <4> QED BY <4>1, <3>2, <1>1, <1>4 DEF Before, e
    <3>4. q[m + 1].seq \in Int /\ q[m + 1].seq <= seqCounter
      BY <3>1, <1>5
    <3> QED BY <3>3, <3>4, <1>1, <1>2, <1>12
  <2>2. Mapped(PENDING') = [Mapped(q) EXCEPT ![TypeClass(x.type)] = Append(@, Strip(x))]
    <3>1. m = b[TypeClass(x.type) + 1]
      BY <2>1, <1>1 DEF e
    <3> QED BY <3>1, <1>1, <1>2, <1>3, MappedAppended
  <2> QED BY <2>2, <1>1, <1>6, <1>12 DEF q
<1>13. CASE front
  <2>1. m = b[e]
    <3> SUFFICES ASSUME b[e] < m PROVE FALSE
      BY <1>1, <1>7, <1>11
    <3>1. m \in 1..m /\ m \in 1..Len(q) /\ b[e] < m /\ m <= b[e + 1]
      BY <1>1, <1>4, <1>7, <1>10
    <3>2. TypeClass(q[m].type) = e
      BY <3>1, <1>4
    <3>3. q[m].seq < x.seq
      <4>1. Before(q[m], x)
        BY <3>1, <1>1
      <4> QED BY <4>1, <3>2, <1>1, <1>4 DEF Before, e
    <3>4. q[m].seq \in Int /\ -seqCounter <= q[m].seq
      BY <3>1, <1>5
    <3> QED BY <3>3, <3>4, <1>1, <1>2, <1>13
  <2>2. Mapped(PENDING') = [Mapped(q) EXCEPT ![TypeClass(x.type)] = <<Strip(x)>> \o @]
    <3>1. m = b[TypeClass(x.type)]
      BY <2>1, <1>1 DEF e
    <3> QED BY <3>1, <1>1, <1>2, <1>3, MappedPrepended
  <2> QED BY <2>2, <1>1, <1>6, <1>13 DEF q
<1> QED BY <1>12, <1>13

\* assign_tasks serves the deque of the most urgent class that has a task, the
\* evolution tasks passed over.
LEMMA AssignServes ==
  ASSUME IInv, NEW low \in BOOLEAN, Assign(low)
  PROVE  \E c \in Class : Deque!Serve(c)
<1> DEFINE q == PENDING
<1>1. PICK k \in 1..Len(q) :
        /\ ~(low /\ q[k].type = "evolution")
        /\ \A j \in 1..(k - 1) : low /\ q[j].type = "evolution"
        /\ PENDING' = Without(q, k)
        /\ running' = running \cup {Strip(q[k])}
  BY DEF Assign
<1>2. q \in Seq(Queued) /\ Increasing(q)
  BY IncreasingIsSorted DEF IInv, TypeOK
<1>3. PICK b : Bounds(q, b)
  BY <1>2, Blocks
<1> DEFINE e == TypeClass(q[k].type)
           u == Mapped(q)[e]
<1>4. /\ e \in Class /\ u \in Seq(Item) /\ k - b[e] \in 1..Len(u)
      /\ u[k - b[e]] = Strip(q[k])
      /\ Mapped(PENDING') = [Mapped(q) EXCEPT ![e] = Without(@, k - b[e])]
  BY <1>1, <1>2, <1>3, MappedRemoved
<1>5. /\ \A d \in 0..3 : b[d] \in Nat /\ b[d] <= Len(q)
      /\ \A c, d \in 0..3 : c <= d => b[c] <= b[d]
      /\ \A c \in Class, i \in 1..Len(q) :
           TypeClass(q[i].type) = c <=> b[c] < i /\ i <= b[c + 1]
      /\ \A c \in Class : c \in 0..3 /\ c + 1 \in 0..3
      /\ Len(q) \in Nat
  BY <1>2, <1>3, BoundsFacts
<1>6. b[e] \in Nat /\ b[e + 1] \in Nat /\ b[e] < k /\ k <= b[e + 1] /\ k \in Int
  <2>1. e \in 0..3 /\ e + 1 \in 0..3
    BY <1>4, <1>5
  <2>2. b[e] \in Nat /\ b[e + 1] \in Nat
    BY <2>1, <1>5
  <2>3. b[e] < k /\ k <= b[e + 1]
    <3>1. k \in 1..Len(q) /\ e \in Class /\ TypeClass(q[k].type) = e
      BY <1>4
    <3> QED BY <3>1, <1>5
  <2> QED BY <2>2, <2>3
<1>7. k - b[e] = 1
  <2> SUFFICES ASSUME b[e] + 1 < k PROVE FALSE
    BY <1>6
  <2> DEFINE j == b[e] + 1
  <2>1. j \in 1..(k - 1) /\ j \in 1..Len(q) /\ b[e] < j /\ j <= b[e + 1]
    <3>1. b[e] \in Nat /\ b[e + 1] \in Nat /\ b[e] + 1 < k /\ k <= b[e + 1] /\ k \in Int
      BY <1>6
    <3>2. k <= Len(q) /\ Len(q) \in Nat
      BY <1>5
    <3> QED BY <3>1, <3>2
  <2>2. low /\ q[j].type = "evolution"
    BY <2>1, <1>1
  <2>3. TypeClass(q[j].type) = TypeClass(q[k].type)
    BY <2>1, <1>4, <1>5
  <2>4. q[j].type \in Type /\ q[k].type \in Type
    <3>1. q[j] \in Queued /\ q[k] \in Queued
      BY <2>1, <1>2
    <3> QED BY <3>1, QueuedType
  <2>5. q[k].type = "evolution"
    BY <2>2, <2>3, <2>4, ClassType
  <2> QED BY <2>2, <2>5, <1>1
<1>8. ASSUME NEW d \in Class, d < e, Mapped(q)[d] # <<>>
      PROVE  d = TypeClass("evolution")
  <2> DEFINE j == b[d] + 1
  <2>1. /\ b[d] \in Nat /\ b[d + 1] \in Nat /\ b[d] <= b[d + 1] /\ b[d + 1] <= Len(q)
        /\ Mapped(q)[d] \in Seq(Item) /\ Len(Mapped(q)[d]) = b[d + 1] - b[d]
    BY <1>2, <1>3, MappedBlock
  <2>2. b[d] < b[d + 1]
    BY <2>1, <1>8
  <2>3. b[d + 1] <= b[e]
    <3>1. d + 1 \in 0..3 /\ e \in 0..3 /\ d + 1 <= e
      <4>1. d + 1 \in 0..3 /\ e \in 0..3
        BY <1>4, <1>5
      <4>2. d \in Int /\ e \in Int /\ d < e
        BY <1>4, <1>8 DEF Class
      <4> HIDE DEF e
      <4> QED BY <4>1, <4>2
    <3> QED BY <3>1, <1>5
  <2>4. j \in 1..(k - 1) /\ j \in 1..Len(q) /\ b[d] < j /\ j <= b[d + 1]
    BY <2>1, <2>2, <2>3, <1>6
  <2>5. q[j].type = "evolution" /\ TypeClass(q[j].type) = d
    BY <2>4, <1>1, <1>5
  <2> QED BY <2>5
<1>9. u # <<>> /\ Head(u) = Strip(q[k]) /\ Without(u, 1) = Tail(u)
  <2>1. 1 \in 1..Len(u) /\ u[1] = Strip(q[k]) /\ Len(u) \in Nat
    BY <1>4, <1>7
  <2> HIDE DEF u
  <2>2. u # <<>> /\ Head(u) = Strip(q[k])
    BY <2>1, <1>4
  <2>3. /\ Without(u, 1) \in Seq(Item) /\ Len(Without(u, 1)) = Len(u) - 1
        /\ \A i \in 1..(Len(u) - 1) : Without(u, 1)[i] = IF i < 1 THEN u[i] ELSE u[i + 1]
    BY <2>1, <1>4, WithoutAt
  <2>4. /\ Tail(u) \in Seq(Item) /\ Len(Tail(u)) = Len(u) - 1
        /\ \A i \in 1..(Len(u) - 1) : Tail(u)[i] = u[i + 1]
    BY <2>2, <1>4
  <2>5. \A i \in 1..(Len(u) - 1) : ~(i < 1)
    BY <2>1
  <2>6. \A i \in 1..Len(Without(u, 1)) : Without(u, 1)[i] = Tail(u)[i]
    BY <2>3, <2>4, <2>5
  <2> QED BY <2>2, <2>3, <2>4, <2>6, SameSeq
<1>10. Mapped(PENDING') = [Mapped(q) EXCEPT ![e] = Tail(@)]
  BY <1>4, <1>7, <1>9
<1>11. running' = running \cup {Head(Mapped(q)[e])}
  BY <1>1, <1>9
<1> HIDE DEF e
<1>12. Deque!Serve(e)
  BY <1>4, <1>8, <1>9, <1>10, <1>11, DequeSteps
<1> QED BY <1>4, <1>12

LEMMA CancelWithdraws ==
  ASSUME IInv, NEW t \in TaskId, Cancel(t)
  PROVE  \E c \in Class : \E k \in 1..Len(Mapped(PENDING)[c]) : Deque!Withdraw(c, k)
<1> DEFINE q == PENDING
<1>1. PICK k \in 1..Len(q) : PENDING' = Without(q, k)
  BY DEF Cancel
<1>2. q \in Seq(Queued) /\ Increasing(q) /\ running' = running
  BY IncreasingIsSorted DEF IInv, TypeOK, Cancel
<1>3. PICK b : Bounds(q, b)
  BY <1>2, Blocks
<1> DEFINE e == TypeClass(q[k].type)
           l == k - b[e]
<1>4. /\ e \in Class /\ Mapped(q)[e] \in Seq(Item) /\ l \in 1..Len(Mapped(q)[e])
      /\ Mapped(PENDING') = [Mapped(q) EXCEPT ![e] = Without(@, l)]
  BY <1>1, <1>2, <1>3, MappedRemoved
<1> HIDE DEF e, l
<1>5. l \in Nat
  BY <1>4
<1>6. Deque!Withdraw(e, l)
  BY <1>2, <1>4, <1>5, DequeSteps
<1> QED BY <1>4, <1>6

LEMMA DequeInit ==
  Init => Deque!Init
<1> SUFFICES ASSUME Init PROVE Deque!Init
  OBVIOUS
<1>1. PENDING = <<>> /\ running = {}
  BY DEF Init
<1>2. \A c \in Class : OfClass(PENDING, c) = {}
  BY <1>1 DEF OfClass
<1>3. At(PENDING, {}) = <<>>
  <2>1. Cardinality({}) = 0
    BY FS_EmptySet
  <2>2. At(PENDING, {}) = [k \in 1..0 |-> PENDING[Kth({}, k)]]
    BY <2>1 DEF At
  <2> QED BY <2>2
<1>4. Rows(<<>>) = <<>>
  BY DEF Rows
<1>5. [c \in Class |-> Rows(At(PENDING, OfClass(PENDING, c)))] = [c \in Class |-> <<>>]
  BY <1>2, <1>3, <1>4
<1> QED BY <1>1, <1>5 DEF Deque!Init

\* A step of the queue is a step of the deques or changes neither them nor the
\* tasks handed out.
LEMMA DequeNext ==
  ASSUME IInv, [Next]_vars
  PROVE  Deque!Next \/ (PENDING' = PENDING /\ running' = running)
<1>0. PENDING \in Seq(Queued) /\ TypeOK /\ Sorted
  BY DEF IInv, TypeOK
<1>1. ASSUME NEW item \in Item, Enqueue(item, FALSE), running' = running
      PROVE  Deque!Next
  <2>1. Mapped(PENDING') = [Mapped(PENDING) EXCEPT ![TypeClass(item.type)] = Append(@, item)]
    BY <1>0, <1>1, EnqueueMapped
  <2>2. Deque!New(item)
    BY <1>1, <2>1, DequeSteps
  <2> QED BY <2>2 DEF Deque!Next
<1>2. CASE RestoreBegin
  BY <1>2 DEF RestoreBegin
<1>3. CASE RestoreRow
  <2>1. restoring \in Seq(Item) /\ restoring # <<>>
    BY <1>3 DEF IInv, TypeOK, RestoreRow
  <2>2. Head(restoring) \in Item
    BY <2>1
  <2>3. Enqueue(Head(restoring), FALSE) /\ running' = running
    BY <1>3 DEF RestoreRow, RestoredAt
  <2> QED BY <1>1, <2>2, <2>3
<1>4. ASSUME NEW t \in TaskId, NewMessage(t) \/ AutoResume(t)
      PROVE  Deque!Next
  <2>1. Enqueue([id |-> t, type |-> "task"], FALSE) /\ running' = running
    BY <1>4 DEF NewMessage, AutoResume
  <2>2. [id |-> t, type |-> "task"] \in Item
    BY DEF Item, Type
  <2> QED BY <1>1, <2>1, <2>2
<1>5. ASSUME NEW t \in TaskId, Cancel(t)
      PROVE  Deque!Next
  <2>1. PICK c \in Class : \E k \in 1..Len(Mapped(PENDING)[c]) : Deque!Withdraw(c, k)
    BY <1>5, CancelWithdraws
  <2> QED BY <2>1 DEF Deque!Next, Mapped
<1>6. CASE AutoResumeEnd
  BY <1>6 DEF AutoResumeEnd
<1>7. ASSUME NEW t \in TaskId, NEW type \in Type, Schedule(t, type)
      PROVE  Deque!Next
  <2>1. Enqueue([id |-> t, type |-> type], FALSE) /\ running' = running
    BY <1>7 DEF Schedule
  <2>2. [id |-> t, type |-> type] \in Item
    BY DEF Item
  <2> QED BY <1>1, <2>1, <2>2
<1>8. ASSUME NEW t \in TaskId, NEW item \in Item, Requeue(item, t)
      PROVE  Deque!Next
  <2> DEFINE back == [item EXCEPT !.id = t]
  <2>1. back \in Item /\ back.type = item.type
    BY DEF Item
  <2>2. Enqueue(back, TRUE) /\ item \in running /\ running' = running \ {item}
    BY <1>8 DEF Requeue
  <2> HIDE DEF back
  <2>3. Mapped(PENDING') = [Mapped(PENDING) EXCEPT ![TypeClass(back.type)] = <<back>> \o @]
    BY <1>0, <2>1, <2>2, EnqueueMapped
  <2>4. Deque!Return(item, back)
    BY <2>1, <2>2, <2>3, DequeSteps
  <2> QED BY <2>1, <2>4 DEF Deque!Next
<1>9. ASSUME NEW low \in BOOLEAN, Assign(low)
      PROVE  Deque!Next
  <2>1. \E c \in Class : Deque!Serve(c)
    BY <1>9, AssignServes
  <2> QED BY <2>1 DEF Deque!Next
<1>10. ASSUME NEW item \in Item, Done(item)
       PROVE  Deque!Next
  <2>1. running' = running \ {item} /\ PENDING' = PENDING
    BY <1>10 DEF Done
  <2>2. Deque!Finish(item)
    BY <2>1, DequeSteps
  <2> QED BY <2>2 DEF Deque!Next
<1>11. CASE DropEvolution
  <2>1. /\ PENDING' = At(PENDING, {i \in 1..Len(PENDING) : PENDING[i].type # "evolution"})
        /\ running' = running
    BY <1>11 DEF DropEvolution
  <2>2. Mapped(PENDING') = [Mapped(PENDING) EXCEPT ![TypeClass("evolution")] = <<>>]
    BY <1>0, <2>1, IncreasingIsSorted, MappedDropped
  <2>3. Deque!Drop
    BY <2>1, <2>2, DequeSteps
  <2> QED BY <2>3 DEF Deque!Next
<1>12. CASE Crash \/ Restart
  <2>1. PENDING' = <<>> /\ running' = {}
    BY <1>12 DEF Crash, Restart, Forget
  <2>2. \A c \in Class : OfClass(PENDING', c) = {}
    BY <2>1 DEF OfClass
  <2>3. At(PENDING', {}) = <<>>
    <3>1. Cardinality({}) = 0
      BY FS_EmptySet
    <3>2. At(PENDING', {}) = [k \in 1..0 |-> PENDING'[Kth({}, k)]]
      BY <3>1 DEF At
    <3> QED BY <3>2
  <2>4. Rows(<<>>) = <<>>
    BY DEF Rows
  <2>5. Mapped(PENDING') = [c \in Class |-> <<>>]
    BY <2>2, <2>3, <2>4 DEF Mapped
  <2>6. Deque!Lose
    BY <2>1, <2>5, DequeSteps
  <2> QED BY <2>6 DEF Deque!Next
<1>13. CASE Expire
  BY <1>13 DEF Expire
<1>14. CASE UNCHANGED vars
  BY <1>14 DEF vars
<1>15. CASE SaveAssigned
  BY <1>15 DEF SaveAssigned
<1> QED BY <1>2, <1>3, <1>4, <1>5, <1>6, <1>7, <1>8, <1>9, <1>10, <1>11, <1>12, <1>13, <1>14,
    <1>15 DEF Next

\* The list, its numbers and its sort implement one deque per class: a new
\* task goes to the end of its class, an interrupted one to the front, and the
\* worker gets the first of the most urgent class.
THEOREM QueueIsDeques ==
  Spec => ImplementsDeques
<1>1. Init => Deque!Init
  BY DequeInit
<1>2. IInv /\ [Next]_vars =>
        [Deque!Next]_<<[c \in Class |-> Rows(At(PENDING, OfClass(PENDING, c)))], running>>
  <2> SUFFICES ASSUME IInv, [Next]_vars, PENDING' = PENDING /\ running' = running
               PROVE  UNCHANGED <<[c \in Class |-> Rows(At(PENDING, OfClass(PENDING, c)))], running>>
    BY DequeNext
  <2> QED OBVIOUS
<1> QED BY <1>1, <1>2, Invariant, PTL DEF Spec, ImplementsDeques, Deque!Spec

=============================================================================
