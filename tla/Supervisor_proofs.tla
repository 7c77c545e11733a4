-------------------------- MODULE Supervisor_proofs --------------------------
(* Type correctness and the safety invariants of Supervisor, for any workers, *)
(* ids, retries, thresholds and bounds.                                       *)
EXTENDS Supervisor, Integers, FiniteSetTheorems, TLAPS

-----------------------------------------------------------------------------
(* The queue.                                                              *)

Queue == [Class -> Seq(Task)]

LEMMA PriorityClass == \A type \in Type : Priority(type) \in Class
BY DEF Priority, Class, Type

LEMMA NewTaskType ==
  ASSUME NEW t \in TaskId, NEW type \in Type
  PROVE  NewTask(t, type) \in Task /\ NewTask(t, type).id = t
BY SupervisorAssumption DEF NewTask, Task

\* A plain enqueue adds the task and nothing else.
LEMMA EnqueueBackLemma ==
  ASSUME NEW q \in Queue, NEW task \in Task
  PROVE  /\ EnqueueBack(q, task) \in Queue
         /\ \A t : Holds(EnqueueBack(q, task), t) <=> Holds(q, t) \/ t = task.id
         /\ DistinctIds(q) /\ ~Holds(q, task.id)
              => DistinctIds(EnqueueBack(q, task))
<1> DEFINE k == Priority(task.type)
           s == Append(q[k], task)
           r == EnqueueBack(q, task)
           n == Len(q[k])
<1>1. k \in Class BY PriorityClass DEF Task
<1>2. \A c \in Class : q[c] \in Seq(Task) /\ Len(q[c]) \in Nat
  BY DEF Queue
<1>3. r = [q EXCEPT ![k] = s] BY DEF EnqueueBack
<1>4. s \in Seq(Task) BY <1>1, <1>2
<1>5. r \in Queue BY <1>1, <1>3, <1>4 DEF Queue
<1>6. /\ r[k] = s
      /\ \A c \in Class : c # k => r[c] = q[c]
  BY <1>1, <1>3 DEF Queue
<1>7. /\ Len(s) = n + 1 /\ s[n + 1] = task
      /\ \A i \in 1..n : s[i] = q[k][i]
  BY <1>1, <1>2
<1> HIDE DEF k, s, r
<1>8. \A t : Holds(r, t) <=> Holds(q, t) \/ t = task.id
  <2> TAKE t
  <2>1. InDeque(t, s) <=> InDeque(t, q[k]) \/ t = task.id
    <3>1. ASSUME NEW i \in 1..Len(s), s[i].id = t
          PROVE  InDeque(t, q[k]) \/ t = task.id
      <4>1. CASE i = n + 1 BY <3>1, <4>1, <1>7
      <4>2. CASE i # n + 1
        <5>1. i \in 1..n /\ s[i] = q[k][i]
          BY <4>2, <1>1, <1>2, <1>7
        <5> QED BY <3>1, <5>1 DEF InDeque
      <4> QED BY <4>1, <4>2
    <3>2. ASSUME NEW i \in 1..n, q[k][i].id = t
          PROVE  InDeque(t, s)
      <4>1. i \in 1..Len(s) BY <1>1, <1>2, <1>7
      <4> QED BY <3>2, <4>1, <1>7 DEF InDeque
    <3>3. ASSUME t = task.id PROVE InDeque(t, s)
      <4>1. n + 1 \in 1..Len(s) BY <1>1, <1>2, <1>7
      <4> QED BY <3>3, <4>1, <1>7 DEF InDeque
    <3> QED BY <3>1, <3>2, <3>3 DEF InDeque
  <2>2. \A c \in Class : c # k => (InDeque(t, r[c]) <=> InDeque(t, q[c]))
    BY <1>6
  <2> QED BY <1>1, <1>6, <2>1, <2>2 DEF Holds
<1>9. ASSUME DistinctIds(q), ~Holds(q, task.id) PROVE DistinctIds(r)
  <2>1. \A c \in Class : \A i \in 1..Len(q[c]) : q[c][i].id # task.id
    BY <1>9 DEF Holds, InDeque
  <2>2. SUFFICES ASSUME NEW c \in Class, NEW d \in Class,
                        NEW i \in 1..Len(r[c]), NEW j \in 1..Len(r[d]),
                        r[c][i].id = r[d][j].id
                 PROVE  c = d /\ i = j
    BY DEF DistinctIds
  <2>3. \/ c = k /\ i = n + 1 /\ r[c][i] = task
        \/ c = k /\ i \in 1..Len(q[c]) /\ r[c][i] = q[c][i]
        \/ c # k /\ i \in 1..Len(q[c]) /\ r[c][i] = q[c][i]
    BY <1>2, <1>6, <1>7
  <2>4. \/ d = k /\ j = n + 1 /\ r[d][j] = task
        \/ d = k /\ j \in 1..Len(q[d]) /\ r[d][j] = q[d][j]
        \/ d # k /\ j \in 1..Len(q[d]) /\ r[d][j] = q[d][j]
    BY <1>2, <1>6, <1>7
  <2>5. CASE c = k /\ i = n + 1 /\ r[c][i] = task
    BY <2>5, <2>1, <2>2, <2>4
  <2>6. CASE d = k /\ j = n + 1 /\ r[d][j] = task
    BY <2>6, <2>1, <2>2, <2>3
  <2>7. CASE ~(c = k /\ i = n + 1) /\ ~(d = k /\ j = n + 1)
    BY <2>7, <2>2, <2>3, <2>4, <1>9 DEF DistinctIds
  <2> QED BY <2>3, <2>4, <2>5, <2>6, <2>7
<1> QED BY <1>5, <1>8, <1>9 DEF r

\* A front enqueue adds the task and nothing else.
LEMMA EnqueueFrontLemma ==
  ASSUME NEW q \in Queue, NEW task \in Task
  PROVE  /\ EnqueueFront(q, task) \in Queue
         /\ \A t : Holds(EnqueueFront(q, task), t) <=> Holds(q, t) \/ t = task.id
         /\ DistinctIds(q) /\ ~Holds(q, task.id)
              => DistinctIds(EnqueueFront(q, task))
<1> DEFINE k == Priority(task.type)
           s == <<task>> \o q[k]
           r == EnqueueFront(q, task)
           n == Len(q[k])
<1>1. k \in Class BY PriorityClass DEF Task
<1>2. \A c \in Class : q[c] \in Seq(Task) /\ Len(q[c]) \in Nat
  BY DEF Queue
<1>3. r = [q EXCEPT ![k] = s] BY DEF EnqueueFront
<1>4. s \in Seq(Task) BY <1>1, <1>2
<1>5. r \in Queue BY <1>1, <1>3, <1>4 DEF Queue
<1>6. /\ r[k] = s
      /\ \A c \in Class : c # k => r[c] = q[c]
  BY <1>1, <1>3 DEF Queue
<1>7. /\ Len(s) = n + 1 /\ s[1] = task
      /\ \A i \in 1..n : s[i + 1] = q[k][i]
      /\ \A i \in 1..Len(s) : i # 1 => i - 1 \in 1..n /\ s[i] = q[k][i - 1]
  BY <1>1, <1>2
<1> HIDE DEF k, s, r
<1>8. \A t : Holds(r, t) <=> Holds(q, t) \/ t = task.id
  <2> TAKE t
  <2>1. InDeque(t, s) <=> InDeque(t, q[k]) \/ t = task.id
    <3>1. ASSUME NEW i \in 1..Len(s), s[i].id = t
          PROVE  InDeque(t, q[k]) \/ t = task.id
      <4>1. CASE i = 1 BY <3>1, <4>1, <1>7
      <4>2. CASE i # 1
        <5>1. i - 1 \in 1..n /\ s[i] = q[k][i - 1]
          BY <4>2, <1>1, <1>2, <1>7
        <5> QED BY <3>1, <5>1 DEF InDeque
      <4> QED BY <4>1, <4>2
    <3>2. ASSUME NEW i \in 1..n, q[k][i].id = t
          PROVE  InDeque(t, s)
      <4>1. i + 1 \in 1..Len(s) BY <1>1, <1>2, <1>7
      <4> QED BY <3>2, <4>1, <1>7 DEF InDeque
    <3>3. ASSUME t = task.id PROVE InDeque(t, s)
      <4>1. 1 \in 1..Len(s) BY <1>1, <1>2, <1>7
      <4> QED BY <3>3, <4>1, <1>7 DEF InDeque
    <3> QED BY <3>1, <3>2, <3>3 DEF InDeque
  <2>2. \A c \in Class : c # k => (InDeque(t, r[c]) <=> InDeque(t, q[c]))
    BY <1>6
  <2> QED BY <1>1, <1>6, <2>1, <2>2 DEF Holds
<1>9. ASSUME DistinctIds(q), ~Holds(q, task.id) PROVE DistinctIds(r)
  <2>1. \A c \in Class : \A i \in 1..Len(q[c]) : q[c][i].id # task.id
    BY <1>9 DEF Holds, InDeque
  <2>2. SUFFICES ASSUME NEW c \in Class, NEW d \in Class,
                        NEW i \in 1..Len(r[c]), NEW j \in 1..Len(r[d]),
                        r[c][i].id = r[d][j].id
                 PROVE  c = d /\ i = j
    BY DEF DistinctIds
  <2>3. \/ c = k /\ i = 1 /\ r[c][i] = task
        \/ c = k /\ i - 1 \in 1..Len(q[c]) /\ r[c][i] = q[c][i - 1]
        \/ c # k /\ i \in 1..Len(q[c]) /\ r[c][i] = q[c][i]
    BY <1>2, <1>6, <1>7
  <2>4. \/ d = k /\ j = 1 /\ r[d][j] = task
        \/ d = k /\ j - 1 \in 1..Len(q[d]) /\ r[d][j] = q[d][j - 1]
        \/ d # k /\ j \in 1..Len(q[d]) /\ r[d][j] = q[d][j]
    BY <1>2, <1>6, <1>7
  <2>5. CASE c = k /\ i = 1 /\ r[c][i] = task
    BY <2>5, <2>1, <2>2, <2>4
  <2>6. CASE d = k /\ j = 1 /\ r[d][j] = task
    BY <2>6, <2>1, <2>2, <2>3
  <2>7. CASE ~(c = k /\ i = 1) /\ ~(d = k /\ j = 1)
    <3>1. i \in Int /\ j \in Int BY <1>5 DEF Queue
    <3>2. PICK a \in 1..Len(q[c]) :
            r[c][i] = q[c][a] /\ a = IF c = k THEN i - 1 ELSE i
      BY <2>3, <2>7
    <3>3. PICK b \in 1..Len(q[d]) :
            r[d][j] = q[d][b] /\ b = IF d = k THEN j - 1 ELSE j
      BY <2>4, <2>7
    <3>4. c = d /\ a = b BY <2>2, <3>2, <3>3, <1>9 DEF DistinctIds
    <3> QED BY <3>1, <3>2, <3>3, <3>4
  <2> QED BY <2>3, <2>4, <2>5, <2>6, <2>7
<1> QED BY <1>5, <1>8, <1>9 DEF r

\* Taking the head of a class removes that task and nothing else.
LEMMA PopLemma ==
  ASSUME NEW q \in Queue, NEW k \in Class, q[k] # <<>>
  PROVE  LET r == [q EXCEPT ![k] = Tail(@)]
             h == Head(q[k]).id
         IN  /\ r \in Queue /\ Head(q[k]) \in Task /\ Holds(q, h)
             /\ \A t : Holds(r, t) => Holds(q, t)
             /\ DistinctIds(q) => DistinctIds(r) /\ ~Holds(r, h)
<1> DEFINE r == [q EXCEPT ![k] = Tail(@)]
           h == Head(q[k]).id
           n == Len(q[k])
<1>1. \A c \in Class : q[c] \in Seq(Task) /\ Len(q[c]) \in Nat
  BY DEF Queue
<1>2. /\ Head(q[k]) \in Task /\ n \in Nat \ {0} /\ Head(q[k]) = q[k][1]
      /\ Tail(q[k]) \in Seq(Task) /\ Len(Tail(q[k])) = n - 1
      /\ \A i \in 1..(n - 1) : Tail(q[k])[i] = q[k][i + 1]
  BY <1>1
<1>3. /\ r \in Queue /\ r[k] = Tail(q[k])
      /\ \A c \in Class : c # k => r[c] = q[c]
  BY <1>2 DEF Queue
<1>4. Holds(q, h)
  <2>1. 1 \in 1..n BY <1>2
  <2> QED BY <1>2, <2>1 DEF Holds, InDeque
<1> HIDE DEF r
<1>5. \A c \in Class, i \in Nat : i \in 1..Len(r[c]) =>
        \E j \in 1..Len(q[c]) : r[c][i] = q[c][j] /\ j = IF c = k THEN i + 1 ELSE i
  <2> TAKE c \in Class, i \in Nat
  <2> HAVE i \in 1..Len(r[c])
  <2>1. CASE c = k
    <3>1. i + 1 \in 1..Len(q[c]) /\ r[c][i] = q[c][i + 1]
      BY <2>1, <1>2, <1>3
    <3> QED BY <2>1, <3>1
  <2>2. CASE c # k BY <2>2, <1>3
  <2> QED BY <2>1, <2>2
<1>6. \A c \in Class : \A i \in 1..Len(r[c]) : i \in Nat
  BY <1>3 DEF Queue
<1>7. \A t : Holds(r, t) => Holds(q, t)
  BY <1>5, <1>6 DEF Holds, InDeque
<1>8. ASSUME DistinctIds(q) PROVE DistinctIds(r)
  <2>1. SUFFICES ASSUME NEW c \in Class, NEW d \in Class,
                        NEW i \in 1..Len(r[c]), NEW j \in 1..Len(r[d]),
                        r[c][i].id = r[d][j].id
                 PROVE  c = d /\ i = j
    BY DEF DistinctIds
  <2>2. i \in Nat /\ j \in Nat BY <1>6
  <2>3. PICK a \in 1..Len(q[c]) :
          r[c][i] = q[c][a] /\ a = IF c = k THEN i + 1 ELSE i
    BY <1>5, <2>2
  <2>4. PICK b \in 1..Len(q[d]) :
          r[d][j] = q[d][b] /\ b = IF d = k THEN j + 1 ELSE j
    BY <1>5, <2>2
  <2>5. c = d /\ a = b BY <2>1, <2>3, <2>4, <1>8 DEF DistinctIds
  <2> QED BY <2>2, <2>3, <2>4, <2>5
<1>9. ASSUME DistinctIds(q), Holds(r, h) PROVE FALSE
  <2>1. PICK c \in Class : \E i \in 1..Len(r[c]) : r[c][i].id = h
    BY <1>9 DEF Holds, InDeque
  <2>2. PICK i \in 1..Len(r[c]) : r[c][i].id = h
    BY <2>1
  <2>3. i \in Nat \ {0} BY <1>3 DEF Queue
  <2>4. PICK a \in 1..Len(q[c]) :
          r[c][i] = q[c][a] /\ a = IF c = k THEN i + 1 ELSE i
    BY <1>5, <2>3
  <2>5. 1 \in 1..Len(q[k]) /\ q[k][1].id = h BY <1>2
  <2>6. c = k /\ a = 1 BY <2>2, <2>4, <2>5, <1>9 DEF DistinctIds
  <2> QED BY <2>3, <2>4, <2>6
<1> QED BY <1>2, <1>3, <1>4, <1>7, <1>8, <1>9 DEF r

\* Removing an id from the deque that holds it.
LEMMA RemoveLemma ==
  ASSUME NEW q \in Queue, NEW k \in Class, NEW t, InDeque(t, q[k])
  PROVE  LET r == [q EXCEPT ![k] = RemoveId(@, t)]
         IN  /\ r \in Queue
             /\ \A u : Holds(r, u) => Holds(q, u)
             /\ DistinctIds(q) => DistinctIds(r) /\ ~Holds(r, t)
<1> DEFINE r == [q EXCEPT ![k] = RemoveId(@, t)]
           n == Len(q[k])
           keep(i) == IF \E j \in 1..i : q[k][j].id = t THEN i + 1 ELSE i
<1>1. \A c \in Class : q[c] \in Seq(Task) /\ Len(q[c]) \in Nat
  BY DEF Queue
<1>2. PICK p \in 1..n : q[k][p].id = t BY DEF InDeque
<1>3. n \in Nat \ {0} /\ p \in Nat BY <1>1, <1>2
<1>4. \A i \in 1..(n - 1) : keep(i) \in 1..n /\ (p <= i => keep(i) = i + 1)
  BY <1>2, <1>3
<1>5. RemoveId(q[k], t) = [i \in 1..(n - 1) |-> q[k][keep(i)]]
  BY DEF RemoveId
<1> HIDE DEF keep
<1>6. /\ RemoveId(q[k], t) \in Seq(Task)
      /\ Len(RemoveId(q[k], t)) = n - 1
      /\ \A i \in 1..(n - 1) : RemoveId(q[k], t)[i] = q[k][keep(i)]
  <2>1. \A j \in 1..n : q[k][j] \in Task BY <1>1
  <2>2. n - 1 \in Nat BY <1>3
  <2> QED BY <1>4, <1>5, <2>1, <2>2
<1>7. /\ r \in Queue /\ r[k] = RemoveId(q[k], t)
      /\ \A c \in Class : c # k => r[c] = q[c]
  BY <1>6 DEF Queue
<1> HIDE DEF r
<1>8. \A c \in Class, i \in Nat : i \in 1..Len(r[c]) =>
        \E j \in 1..Len(q[c]) : r[c][i] = q[c][j] /\ j = IF c = k THEN keep(i) ELSE i
  BY <1>1, <1>4, <1>6, <1>7
<1>9. \A c \in Class : \A i \in 1..Len(r[c]) : i \in Nat \ {0}
  BY <1>7 DEF Queue
<1>10. \A u : Holds(r, u) => Holds(q, u)
  BY <1>8, <1>9 DEF Holds, InDeque
<1>11. \A i, j \in Nat : keep(i) = keep(j) => i = j
  BY DEF keep
<1>12. ASSUME DistinctIds(q) PROVE DistinctIds(r)
  <2>1. SUFFICES ASSUME NEW c \in Class, NEW d \in Class,
                        NEW i \in 1..Len(r[c]), NEW j \in 1..Len(r[d]),
                        r[c][i].id = r[d][j].id
                 PROVE  c = d /\ i = j
    BY DEF DistinctIds
  <2>2. i \in Nat /\ j \in Nat BY <1>9
  <2>3. PICK a \in 1..Len(q[c]) :
          r[c][i] = q[c][a] /\ a = IF c = k THEN keep(i) ELSE i
    BY <1>8, <2>2
  <2>4. PICK b \in 1..Len(q[d]) :
          r[d][j] = q[d][b] /\ b = IF d = k THEN keep(j) ELSE j
    BY <1>8, <2>2
  <2>5. c = d /\ a = b BY SMTT(20), <2>1, <2>3, <2>4, <1>12 DEF DistinctIds
  <2> QED BY <1>11, <2>2, <2>3, <2>4, <2>5
<1>13. ASSUME DistinctIds(q), Holds(r, t) PROVE FALSE
  <2>1. PICK c \in Class : \E i \in 1..Len(r[c]) : r[c][i].id = t
    BY <1>13 DEF Holds, InDeque
  <2>2. PICK i \in 1..Len(r[c]) : r[c][i].id = t
    BY <2>1
  <2>3. i \in Nat \ {0} BY <1>9
  <2>4. PICK a \in 1..Len(q[c]) :
          r[c][i] = q[c][a] /\ a = IF c = k THEN keep(i) ELSE i
    BY <1>8, <2>3
  <2>5. c = k /\ a = p BY <2>2, <2>4, <1>2, <1>13 DEF DistinctIds
  <2>6. keep(i) = p BY <2>4, <2>5
  <2>7. i \in 1..(n - 1) BY <2>5, <1>6, <1>7
  <2>8. CASE p <= i BY <2>6, <2>7, <2>8, <1>3, <1>4
  <2>9. CASE ~(p <= i)
    <3>1. \A j \in 1..i : q[k][j].id # t
      <4>1. TAKE j \in 1..i
      <4>2. j \in 1..n /\ j # p BY <2>3, <2>7, <2>9, <1>3
      <4> QED BY <4>2, <1>2, <1>13 DEF DistinctIds
    <3> QED BY <3>1, <2>3, <2>6, <2>9, <1>3 DEF keep
  <2> QED BY <2>8, <2>9
<1> QED BY <1>7, <1>10, <1>12, <1>13 DEF r

\* Dropping the evolution tasks leaves the other classes alone.
LEMMA DropLemma ==
  ASSUME NEW q \in Queue
  PROVE  /\ DropEvolution(q) \in Queue
         /\ \A t : Holds(DropEvolution(q), t) => Holds(q, t)
         /\ DistinctIds(q) => DistinctIds(DropEvolution(q))
<1> DEFINE k == Priority("evolution")
           r == DropEvolution(q)
<1>1. k \in Class BY DEF Priority, Class
<1>2. /\ r \in Queue /\ r[k] = <<>>
      /\ \A c \in Class : c # k => r[c] = q[c]
  <2>1. r = [q EXCEPT ![k] = <<>>] BY DEF DropEvolution
  <2> QED BY <1>1, <2>1 DEF Queue
<1> HIDE DEF k, r
<1>3. \A c \in Class : c # k \/ 1..Len(r[c]) = {}
  BY <1>2
<1>4. \A t : Holds(r, t) => Holds(q, t)
  BY <1>2, <1>3 DEF Holds, InDeque
<1>5. DistinctIds(q) => DistinctIds(r)
  BY <1>2, <1>3 DEF DistinctIds
<1> QED BY <1>2, <1>4, <1>5 DEF r

-----------------------------------------------------------------------------
(* The queues of a worker and of the events.                               *)

LEMMA AppendLemma ==
  ASSUME NEW S, NEW s \in Seq(S), NEW e \in S
  PROVE  /\ Append(s, e) \in Seq(S) /\ Len(Append(s, e)) = Len(s) + 1
         /\ \A i \in 1..Len(s) : Append(s, e)[i] = s[i]
         /\ Append(s, e)[Len(s) + 1] = e
         /\ \A t : InDeque(t, Append(s, e)) <=> InDeque(t, s) \/ t = e.id
<1>1. /\ Append(s, e) \in Seq(S) /\ Len(Append(s, e)) = Len(s) + 1
      /\ \A i \in 1..Len(s) : Append(s, e)[i] = s[i]
      /\ Append(s, e)[Len(s) + 1] = e
      /\ Len(s) \in Nat
  OBVIOUS
<1> DEFINE r == Append(s, e)
<1> HIDE DEF r
<1>2. 1..Len(r) = 1..Len(s) \cup {Len(s) + 1} BY <1>1 DEF r
<1>3. \A t : InDeque(t, r) <=> InDeque(t, s) \/ t = e.id
  BY <1>1, <1>2 DEF r, InDeque
<1> QED BY <1>1, <1>3 DEF r

LEMMA TailLemma ==
  ASSUME NEW S, NEW s \in Seq(S), s # <<>>
  PROVE  /\ Tail(s) \in Seq(S) /\ Len(Tail(s)) = Len(s) - 1
         /\ Head(s) \in S /\ Head(s) = s[1] /\ Len(s) \in Nat \ {0}
         /\ \A i \in 1..Len(Tail(s)) : i + 1 \in 1..Len(s) /\ Tail(s)[i] = s[i + 1]
         /\ InDeque(Head(s).id, s)
         /\ \A t : InDeque(t, Tail(s)) => InDeque(t, s)
<1>1. /\ Tail(s) \in Seq(S) /\ Len(Tail(s)) = Len(s) - 1
      /\ Head(s) \in S /\ Head(s) = s[1] /\ Len(s) \in Nat \ {0}
      /\ \A i \in 1..Len(Tail(s)) : i + 1 \in 1..Len(s) /\ Tail(s)[i] = s[i + 1]
  OBVIOUS
<1>2. InDeque(Head(s).id, s)
  <2>1. 1 \in 1..Len(s) BY <1>1
  <2> QED BY <1>1, <2>1 DEF InDeque
<1>3. \A t : InDeque(t, Tail(s)) => InDeque(t, s)
  BY <1>1 DEF InDeque
<1> QED BY <1>1, <1>2, <1>3

-----------------------------------------------------------------------------
(* Type correctness.  A task_done, schedule_task or cancel_task event has to  *)
(* name a task for its handler to keep the types.                          *)

TypeInv == TypeOK /\ EventsNameTasks

LEMMA InitType == Init => TypeInv
<1> HAVE Init
<1>1. st \in SchedulingState
  <2>1. [mode |-> FALSE, breaker |-> FALSE, low |-> FALSE] \in SchedulingState
    BY DEF SchedulingState
  <2>2. InitialState \subseteq SchedulingState BY <2>1 DEF InitialState
  <2> QED BY <2>2 DEF Init
<1>2. EventsNameTasks
  <2>1. 1..Len(eventq) = {} BY DEF Init
  <2> QED BY <2>1 DEF EventsNameTasks
<1>3. PENDING \in Queue /\ eventq \in Seq(Event) /\ inq \in [Wid -> Seq(Task)]
  BY DEF Init, Queue
<1>4. /\ resume \in Resume /\ phase \in Phase
      /\ pass \in [todo: SUBSET Wid, dead: Nat, busyCrash: BOOLEAN]
  BY DEF Init, Resume, ResumeStart, Phase, NoPass
<1>5. /\ RUNNING \in [TaskId -> Meta \cup {None}] /\ WORKERS \subseteq Wid
      /\ busy \in [Wid -> TaskId \cup {None}] /\ alive \in [Wid -> BOOLEAN]
      /\ cur \in [Wid -> Task \cup {None}] /\ todo \subseteq Wid
      /\ lock \in {"free", "main", "resume"} /\ crashes \in Nat
  BY DEF Init
<1>6. /\ hand \in Meta \cup {None} /\ plan \in Type \cup {None}
      /\ kept \in Queue /\ raced \subseteq {"toggle", "guard"}
  BY DEF Init, NoTasks, Queue
<1> QED BY <1>1, <1>2, <1>3, <1>4, <1>5, <1>6 DEF TypeInv, TypeOK, Queue

\* The head of the event queue, when a handler is called for it.
LEMMA DispatchLemma ==
  ASSUME TypeInv, NEW kind, Dispatch(kind)
  PROVE  /\ Head(eventq) \in Event /\ Head(eventq).kind = kind
         /\ eventq' \in Seq(Event) /\ EventsNameTasks'
         /\ kind \in {"task_done", "schedule_task", "cancel_task"}
              => Head(eventq).id \in TaskId
         /\ Says(kind)
<1>1. eventq \in Seq(Event) /\ eventq # <<>> /\ eventq' = Tail(eventq)
  BY DEF TypeInv, TypeOK, Dispatch
<1>2. /\ Tail(eventq) \in Seq(Event) /\ Head(eventq) \in Event
      /\ Head(eventq) = eventq[1] /\ Len(eventq) \in Nat \ {0}
      /\ \A i \in 1..Len(Tail(eventq)) :
           i + 1 \in 1..Len(eventq) /\ Tail(eventq)[i] = eventq[i + 1]
  BY <1>1, TailLemma
<1>3. Head(eventq).kind = kind BY DEF Dispatch
<1>4. EventsNameTasks' BY <1>1, <1>2 DEF TypeInv, EventsNameTasks
<1>5. 1 \in 1..Len(eventq) BY <1>2
<1>6. kind \in {"task_done", "schedule_task", "cancel_task"}
        => Head(eventq).id \in TaskId
  BY <1>2, <1>3, <1>5 DEF TypeInv, EventsNameTasks
<1>7. Says(kind) BY DEF Dispatch, Says
<1> QED BY <1>1, <1>2, <1>3, <1>4, <1>6, <1>7

\* An event put at the end of the queue.
LEMMA EmitLemma ==
  ASSUME TypeInv, NEW e \in Event, eventq' = Append(eventq, e),
         e.kind \in {"task_done", "schedule_task", "cancel_task"} => e.id \in TaskId
  PROVE  eventq' \in Seq(Event) /\ EventsNameTasks'
<1>1. eventq \in Seq(Event) BY DEF TypeInv, TypeOK
<1>2. /\ eventq' \in Seq(Event) /\ Len(eventq') = Len(eventq) + 1
      /\ Len(eventq) \in Nat
      /\ \A i \in 1..Len(eventq) : eventq'[i] = eventq[i]
      /\ eventq'[Len(eventq) + 1] = e
  BY <1>1, AppendLemma
<1>3. \A i \in 1..Len(eventq') : i \in 1..Len(eventq) \/ i = Len(eventq) + 1
  BY <1>2
<1> QED BY <1>2, <1>3 DEF TypeInv, EventsNameTasks

LEMMA RespawnType ==
  ASSUME TypeInv, NEW w \in Wid, Respawn(w)
  PROVE  /\ busy' \in [Wid -> TaskId \cup {None}] /\ alive' \in [Wid -> BOOLEAN]
         /\ inq' \in [Wid -> Seq(Task)] /\ cur' \in [Wid -> Task \cup {None}]
BY DEF TypeInv, TypeOK, Respawn

LEMMA KillType ==
  ASSUME KillWorkers
  PROVE  /\ busy' \in [Wid -> TaskId \cup {None}] /\ alive' \in [Wid -> BOOLEAN]
         /\ inq' \in [Wid -> Seq(Task)] /\ cur' \in [Wid -> Task \cup {None}]
         /\ WORKERS' \subseteq Wid /\ RUNNING' \in [TaskId -> Meta \cup {None}]
BY DEF KillWorkers

LEMMA BootType ==
  ASSUME TypeInv, Boot, UNCHANGED <<st, crashes>>
  PROVE  TypeInv'
<1>1. EventsNameTasks'
  <2>1. 1..Len(eventq') = {} BY DEF Boot
  <2> QED BY <2>1 DEF EventsNameTasks
<1>2. PENDING' \in Queue /\ eventq' \in Seq(Event) /\ inq' \in [Wid -> Seq(Task)]
  BY DEF Boot, Queue
<1>3. /\ resume' \in Resume /\ phase' \in Phase
      /\ pass' \in [todo: SUBSET Wid, dead: Nat, busyCrash: BOOLEAN]
  BY DEF Boot, Resume, ResumeStart, Phase, NoPass
<1>4. /\ RUNNING' \in [TaskId -> Meta \cup {None}] /\ WORKERS' \subseteq Wid
      /\ busy' \in [Wid -> TaskId \cup {None}] /\ alive' \in [Wid -> BOOLEAN]
      /\ cur' \in [Wid -> Task \cup {None}] /\ todo' \subseteq Wid
      /\ lock' \in {"free", "main", "resume"}
  BY DEF Boot
<1>5. /\ hand' \in Meta \cup {None} /\ plan' \in Type \cup {None}
      /\ kept' \in Queue /\ raced' \subseteq {"toggle", "guard"}
  BY DEF Boot, NoTasks, Queue
<1> QED BY <1>1, <1>2, <1>3, <1>4, <1>5 DEF TypeInv, TypeOK, Queue

LEMMA WorkerType ==
  ASSUME TypeInv, NEW w \in Wid, Worker(w)
  PROVE  TypeInv'
<1> USE DEF TypeInv, procVars, stepVars
<1>1. CASE Take(w)
  <2>1. inq[w] \in Seq(Task) /\ inq[w] # <<>> BY <1>1 DEF Take, TypeOK
  <2>2. Head(inq[w]) \in Task /\ Tail(inq[w]) \in Seq(Task) BY <2>1
  <2> QED BY <1>1, <2>2 DEF Take, TypeOK, EventsNameTasks
<1>2. ASSUME NEW k \in Requests, NEW t \in TaskId \cup {None}, NEW f \in BOOLEAN,
             Emit(w, k, t, f)
      PROVE  TypeInv'
  <2> DEFINE e == [kind |-> k, id |-> t, wid |-> w, type |-> cur[w].type, flag |-> f]
  <2>1. cur[w] \in Task BY <1>2 DEF Emit, TypeOK
  <2>2. e \in Event BY <2>1, SupervisorAssumption DEF Event, Task
  <2>3. k \in {"task_done", "schedule_task", "cancel_task"} => t \in TaskId
    BY <1>2, SupervisorAssumption DEF Emit, AllRequests
  <2>4. eventq' = Append(eventq, e) BY <1>2 DEF Emit
  <2> HIDE DEF TypeInv
  <2>5. eventq' \in Seq(Event) /\ EventsNameTasks'
    BY <2>2, <2>3, <2>4, EmitLemma
  <2> QED BY <1>2, <2>5 DEF Emit, TypeOK, TypeInv
<1>3. ASSUME NEW f \in BOOLEAN, Finish(w, f) PROVE TypeInv'
  <2> DEFINE e == [kind |-> "task_done", id |-> cur[w].id, wid |-> w,
                   type |-> cur[w].type, flag |-> f]
  <2>1. cur[w] \in Task BY <1>3 DEF Finish, TypeOK
  <2>2. e \in Event /\ e.id \in TaskId BY <2>1 DEF Event, Task
  <2>3. eventq' = Append(eventq, e) BY <1>3 DEF Finish
  <2>4. st' \in SchedulingState BY <1>3 DEF Finish, TypeOK, SchedulingState
  <2> HIDE DEF TypeInv
  <2>5. eventq' \in Seq(Event) /\ EventsNameTasks'
    BY <2>2, <2>3, EmitLemma
  <2> QED BY <1>3, <2>4, <2>5 DEF Finish, TypeOK, TypeInv
<1>4. CASE Raise(w)
  BY <1>4 DEF Raise, TypeOK, EventsNameTasks
<1>5. CASE Crash(w)
  BY <1>5 DEF Crash, TypeOK, EventsNameTasks
<1> QED BY <1>1, <1>2, <1>3, <1>4, <1>5 DEF Worker

LEMMA QueueType ==
  ASSUME TypeInv
  PROVE  PENDING \in Queue
BY DEF TypeInv, TypeOK, Queue

LEMMA MessageType ==
  ASSUME TypeInv, \/ \E t \in TaskId : Message(t) \/ ResumeEnqueue(t)
                  \/ EndPoll
  PROVE  TypeInv'
<1> USE DEF procVars, stepVars
<1>1. ASSUME NEW t \in TaskId, Message(t) PROVE TypeInv'
  <2>1. PENDING' \in Queue
    BY <1>1, QueueType, NewTaskType, EnqueueBackLemma DEF Message, Type
  <2> QED BY <1>1, <2>1 DEF Message, TypeInv, TypeOK, EventsNameTasks, Phase, Queue
<1>2. ASSUME NEW t \in TaskId, ResumeEnqueue(t) PROVE TypeInv'
  <2>1. PENDING' \in Queue
    BY <1>2, QueueType, NewTaskType, EnqueueBackLemma DEF ResumeEnqueue, Type
  <2> QED BY <1>2, <2>1 DEF ResumeEnqueue, TypeInv, TypeOK, EventsNameTasks, Resume, Queue
<1>3. CASE EndPoll
  BY <1>3 DEF EndPoll, TypeInv, TypeOK, EventsNameTasks, Phase
<1> QED BY <1>1, <1>2, <1>3

LEMMA AssignType ==
  ASSUME TypeInv, Assign
  PROVE  TypeInv'
<1> USE DEF procVars, stepVars
<1>1. ASSUME NEW thread \in {"main", "resume"}, AssignBegin(thread) PROVE TypeInv'
  BY <1>1 DEF AssignBegin, TypeInv, TypeOK, EventsNameTasks
<1>2. ASSUME NEW w \in Wid, AssignWorker(w) PROVE TypeInv'
  <2>1. CASE UNCHANGED <<PENDING, hand>>
    BY <1>2, <2>1 DEF AssignWorker, TypeInv, TypeOK, EventsNameTasks
  <2>2. ASSUME NEW c \in Class, FirstSuitable(c),
               PENDING' = [PENDING EXCEPT ![c] = Tail(@)],
               hand' = [task |-> Head(PENDING[c]), wid |-> w, soft |-> FALSE],
               UNCHANGED todo
        PROVE  TypeInv'
    <3>1. PENDING[c] # <<>> BY <2>2 DEF FirstSuitable, Suitable
    <3>2. Head(PENDING[c]) \in Task /\ PENDING' \in Queue
      BY <2>2, <3>1, QueueType, PopLemma
    <3>3. hand' \in Meta BY <2>2, <3>2 DEF Meta
    <3> QED BY <1>2, <2>2, <3>2, <3>3
        DEF AssignWorker, TypeInv, TypeOK, EventsNameTasks, Queue
  <2>3. CASE PENDING' = DropEvolution(PENDING) /\ UNCHANGED hand
    <3>1. PENDING' \in Queue BY <2>3, QueueType, DropLemma
    <3> QED BY <1>2, <2>3, <3>1
        DEF AssignWorker, TypeInv, TypeOK, EventsNameTasks, Queue
  <2> QED BY <1>2, <2>1, <2>2, <2>3 DEF AssignWorker
<1>3. CASE HandOver
  <2>1. PICK m \in Meta : m = hand BY <1>3 DEF HandOver, TypeInv, TypeOK
  <2>2. m.task \in Task /\ m.task.id \in TaskId /\ m.wid \in Wid BY DEF Meta, Task
  <2>3. inq[m.wid] \in Seq(Task) BY <2>2 DEF TypeInv, TypeOK
  <2>4. Append(inq[m.wid], m.task) \in Seq(Task) BY <2>2, <2>3
  <2>5. /\ busy' \in [Wid -> TaskId \cup {None}] /\ inq' \in [Wid -> Seq(Task)]
        /\ RUNNING' \in [TaskId -> Meta \cup {None}]
    BY <1>3, <2>1, <2>2, <2>4 DEF HandOver, TypeInv, TypeOK
  <2> QED BY <1>3, <2>5 DEF HandOver, TypeInv, TypeOK, EventsNameTasks
<1>4. CASE AssignEnd
  BY <1>4 DEF AssignEnd, TypeInv, TypeOK, EventsNameTasks, Phase, Resume
<1> QED BY <1>1, <1>2, <1>3, <1>4 DEF Assign

\* A guard that lets a task pass.
LEMMA PlannedType ==
  ASSUME TypeInv, NEW type \in Type, Planned(type)
  PROVE  /\ plan' \in Type \cup {None} /\ phase' \in Phase
         /\ raced' \subseteq {"toggle", "guard"}
BY DEF Planned, RacedBy, Phase, TypeInv, TypeOK

LEMMA HandleType ==
  ASSUME TypeInv, StepInPhase, Handle
  PROVE  TypeInv'
<1> USE DEF procVars, stepVars
<1> DEFINE e == Head(eventq)
<1>1. CASE TaskDone
  <2>1. eventq' \in Seq(Event) /\ EventsNameTasks' /\ e \in Event
    BY <1>1, DispatchLemma DEF TaskDone
  <2>2. st' \in SchedulingState
    BY <1>1 DEF TaskDone, TypeInv, TypeOK, SchedulingState
  <2>3. busy' \in [Wid -> TaskId \cup {None}]
    BY <1>1, <2>1 DEF TaskDone, FreedBy, TypeInv, TypeOK
  <2>4. RUNNING' \in [TaskId -> Meta \cup {None}]
    BY <1>1 DEF TaskDone, TypeInv, TypeOK
  <2> QED BY <1>1, <2>1, <2>2, <2>3, <2>4 DEF TaskDone, TypeInv, TypeOK
<1>2. CASE ScheduleTask
  <2>1. eventq' \in Seq(Event) /\ EventsNameTasks' /\ e.id \in TaskId
    BY <1>2, DispatchLemma DEF ScheduleTask
  <2>2. PENDING' \in Queue
    BY <1>2, <2>1, QueueType, NewTaskType, EnqueueBackLemma DEF ScheduleTask, Type
  <2> QED BY <1>2, <2>1, <2>2 DEF ScheduleTask, TypeInv, TypeOK, Queue
<1>3. CASE ReviewRequest
  <2>1. eventq' \in Seq(Event) /\ EventsNameTasks'
    BY <1>3, DispatchLemma DEF ReviewRequest
  <2>2. /\ plan' \in Type \cup {None} /\ phase' \in Phase
        /\ raced' \subseteq {"toggle", "guard"}
    <3>1. CASE UNCHANGED <<phase, plan, raced>> BY <3>1 DEF TypeInv, TypeOK
    <3>2. CASE Planned("review") BY <3>2, PlannedType DEF Type
    <3> QED BY <1>3, <3>1, <3>2 DEF ReviewRequest
  <2> QED BY <1>3, <2>1, <2>2 DEF ReviewRequest, TypeInv, TypeOK
<1>4. CASE CancelTask
  <2>1. eventq' \in Seq(Event) /\ EventsNameTasks'
    BY <1>4, DispatchLemma DEF CancelTask
  <2>2. CASE CancelPending(e.id)
    <3>1. PICK c \in Class : /\ InDeque(e.id, PENDING[c])
                             /\ PENDING' = [PENDING EXCEPT ![c] = RemoveId(@, e.id)]
      BY <2>2 DEF CancelPending
    <3>2. PENDING' \in Queue BY <3>1, QueueType, RemoveLemma
    <3> QED BY <1>4, <2>1, <2>2, <3>2 DEF CancelTask, CancelPending, TypeInv, TypeOK, Queue
  <2>3. CASE CancelRunning(e.id)
    <3>1. PICK w \in WORKERS : Respawn(w) BY <2>3 DEF CancelRunning
    <3>2. w \in Wid BY DEF TypeInv, TypeOK
    <3> QED BY <1>4, <2>1, <2>3, <3>1, <3>2, RespawnType
        DEF CancelTask, CancelRunning, TypeInv, TypeOK
  <2>4. CASE CancelUnknown(e.id)
    BY <1>4, <2>1, <2>4 DEF CancelTask, CancelUnknown, TypeInv, TypeOK
  <2> QED BY <1>4, <2>2, <2>3, <2>4 DEF CancelTask
<1>5. CASE ToggleEvolution
  <2>1. eventq' \in Seq(Event) /\ EventsNameTasks' /\ e \in Event
    BY <1>5, DispatchLemma DEF ToggleEvolution
  <2>2. kept' \in Queue /\ phase' \in Phase
    BY <1>5, QueueType, DropLemma DEF ToggleEvolution, TypeInv, TypeOK, Queue, Phase
  <2>3. st' \in SchedulingState
    BY <1>5, <2>1 DEF ToggleEvolution, TypeInv, TypeOK, SchedulingState, Event
  <2> QED BY <1>5, <2>1, <2>2, <2>3 DEF ToggleEvolution, TypeInv, TypeOK, Queue
<1>8. CASE ToggleWrite
  <2>1. kept' \in Queue /\ PENDING' \in Queue
    BY <1>8 DEF ToggleWrite, NoTasks, TypeInv, TypeOK, Queue
  <2>2. raced' \subseteq {"toggle", "guard"} /\ phase' \in Phase
    BY <1>8 DEF ToggleWrite, TypeInv, TypeOK, Phase
  <2> QED BY <1>8, <2>1, <2>2 DEF ToggleWrite, TypeInv, TypeOK, EventsNameTasks, Queue
<1>9. CASE EnqueuePlanned
  <2>1. plan \in Type BY <1>9 DEF EnqueuePlanned, StepInPhase, TypeInv, TypeOK
  <2>2. PENDING' \in Queue
    BY <1>9, <2>1, QueueType, NewTaskType, EnqueueBackLemma DEF EnqueuePlanned
  <2>3. phase' \in Phase BY <1>9 DEF EnqueuePlanned, Phase
  <2> QED BY <1>9, <2>2, <2>3
      DEF EnqueuePlanned, TypeInv, TypeOK, EventsNameTasks, Queue
<1>6. CASE Dispatch("restart_request") /\
           UNCHANGED <<PENDING, RUNNING, WORKERS, procVars, phase, todo, lock,
                       resume, pass, st, crashes, stepVars>>
  BY <1>6, DispatchLemma DEF TypeInv, TypeOK
<1>7. CASE Boot /\ UNCHANGED <<st, crashes>>
  BY <1>7, BootType DEF TypeInv
<1> QED BY <1>1, <1>2, <1>3, <1>4, <1>5, <1>6, <1>7, <1>8, <1>9
    DEF Handle, RestartRequest

LEMMA HealthType ==
  ASSUME TypeInv, \/ Health \/ BeginHealth \/ EndDrain
  PROVE  TypeInv'
<1> USE DEF procVars, stepVars
<1>1. ASSUME NEW w \in Wid, HealthAlive(w) PROVE TypeInv'
  BY <1>1 DEF HealthAlive, TypeInv, TypeOK, EventsNameTasks
<1>2. ASSUME NEW w \in Wid, HealthDead(w) PROVE TypeInv'
  <2>1. /\ PENDING' \in Queue
        /\ RUNNING' \in [TaskId -> Meta \cup {None}]
    <3>1. CASE busy[w] # None /\ IsRunning(busy[w])
      <4>1. busy[w] \in TaskId BY <3>1 DEF TypeInv, TypeOK
      <4>2. RUNNING[busy[w]].task \in Task
        BY <3>1, <4>1 DEF IsRunning, TypeInv, TypeOK, Meta
      <4>3. PENDING' = EnqueueFront(PENDING, RUNNING[busy[w]].task)
        BY <1>2, <3>1 DEF HealthDead, Requeue
      <4>4. PENDING' \in Queue BY <4>2, <4>3, QueueType, EnqueueFrontLemma
      <4> QED BY <1>2, <3>1, <4>4 DEF HealthDead, Requeue, TypeInv, TypeOK
    <3>2. CASE ~(busy[w] # None /\ IsRunning(busy[w]))
      BY <1>2, <3>2, QueueType DEF HealthDead, Requeue, TypeInv, TypeOK
    <3> QED BY <3>1, <3>2
  <2>2. pass' \in [todo: SUBSET Wid, dead: Nat, busyCrash: BOOLEAN]
    BY <1>2 DEF HealthDead, TypeInv, TypeOK
  <2> QED BY <1>2, <2>1, <2>2, RespawnType
      DEF HealthDead, TypeInv, TypeOK, EventsNameTasks, Queue
<1>3. CASE HealthEnd
  BY <1>3, KillType
  DEF HealthEnd, TypeInv, TypeOK, EventsNameTasks, NoPass, Phase
<1>4. CASE BeginHealth
  BY <1>4 DEF BeginHealth, TypeInv, TypeOK, EventsNameTasks, NoPass, Phase
<1>5. CASE EndDrain
  BY <1>5 DEF EndDrain, TypeInv, TypeOK, EventsNameTasks, Phase
<1> QED BY <1>1, <1>2, <1>3, <1>4, <1>5 DEF Health

\* The copy that a hard timeout queues once more.
LEMMA RetryType ==
  ASSUME NEW task \in Task, NEW r \in TaskId, Retried(task)
  PROVE  LET again == [task EXCEPT !.id = r, !.attempt = @ + 1]
         IN  again \in Task /\ again.id = r
<1>1. task.attempt + 1 \in 1..(MaxRetries + 1)
  BY SupervisorAssumption DEF Retried, Task
<1> DEFINE n == task.attempt + 1
<1>2. [task EXCEPT !.id = r, !.attempt = n] \in Task
  <2> HIDE DEF n
  <2> QED BY <1>1 DEF Task, n
<1> QED BY <1>2 DEF Task

LEMMA PeriodicType ==
  ASSUME TypeInv, \/ Periodic \/ BudgetLow
  PROVE  TypeInv'
<1> USE DEF procVars, stepVars
<1>1. ASSUME NEW t \in TaskId, SoftTimeout(t) PROVE TypeInv'
  <2>1. RUNNING[t] \in Meta BY <1>1 DEF SoftTimeout, IsRunning, TypeInv, TypeOK
  <2>2. [RUNNING[t] EXCEPT !.soft = TRUE] \in Meta BY <2>1 DEF Meta
  <2>3. RUNNING' \in [TaskId -> Meta \cup {None}]
    BY <1>1, <2>2 DEF SoftTimeout, TypeInv, TypeOK
  <2> QED BY <1>1, <2>3 DEF SoftTimeout, TypeInv, TypeOK, EventsNameTasks
<1>2. ASSUME NEW t \in TaskId, HardTimeout(t) PROVE TypeInv'
  <2> DEFINE m == RUNNING[t]
  <2>1. m \in Meta BY <1>2 DEF HardTimeout, IsRunning, TypeInv, TypeOK
  <2>2. PENDING' \in Queue
    <3>1. CASE Retried(m.task)
      <4>1. PICK r \in TaskId : PENDING' = EnqueueFront(PENDING,
               [m.task EXCEPT !.id = r, !.attempt = @ + 1])
        BY <1>2, <3>1 DEF HardTimeout
      <4>2. m.task \in Task BY <2>1 DEF Meta
      <4>3. [m.task EXCEPT !.id = r, !.attempt = @ + 1] \in Task
        BY <3>1, <4>2, RetryType
      <4> QED BY <4>1, <4>3, QueueType, EnqueueFrontLemma
    <3>2. CASE ~Retried(m.task) BY <1>2, <3>2, QueueType DEF HardTimeout
    <3> QED BY <3>1, <3>2
  <2>3. /\ busy' \in [Wid -> TaskId \cup {None}] /\ alive' \in [Wid -> BOOLEAN]
        /\ inq' \in [Wid -> Seq(Task)] /\ cur' \in [Wid -> Task \cup {None}]
    <3>1. m.wid \in Wid BY <2>1 DEF Meta
    <3>2. CASE Respawn(m.wid) BY <3>1, <3>2, RespawnType
    <3>3. CASE UNCHANGED procVars BY <3>3 DEF TypeInv, TypeOK
    <3> QED BY <1>2, <3>2, <3>3 DEF HardTimeout
  <2> QED BY <1>2, <2>2, <2>3
      DEF HardTimeout, TypeInv, TypeOK, EventsNameTasks, Queue
<1>3. CASE EnqueueEvolution
  <2>1. st' \in SchedulingState
    BY <1>3 DEF EnqueueEvolution, TypeInv, TypeOK, SchedulingState
  <2>2. /\ plan' \in Type \cup {None} /\ phase' \in Phase
        /\ raced' \subseteq {"toggle", "guard"}
    <3>1. CASE UNCHANGED <<phase, plan, raced>> BY <3>1 DEF TypeInv, TypeOK
    <3>2. CASE Planned("evolution") BY <3>2, PlannedType DEF Type
    <3> QED BY <1>3, <3>1, <3>2 DEF EnqueueEvolution
  <2> QED BY <1>3, <2>1, <2>2
      DEF EnqueueEvolution, TypeInv, TypeOK, EventsNameTasks
<1>4. CASE EnqueueHealthCheck
  <2>1. /\ plan' \in Type \cup {None} /\ phase' \in Phase
        /\ raced' \subseteq {"toggle", "guard"}
    BY <1>4, PlannedType DEF EnqueueHealthCheck, Type
  <2> QED BY <1>4, <2>1
      DEF EnqueueHealthCheck, TypeInv, TypeOK, EventsNameTasks
<1>5. CASE EndJobs
  BY <1>5 DEF EndJobs, TypeInv, TypeOK, EventsNameTasks, Phase
<1>6. CASE BudgetLow
  BY <1>6 DEF BudgetLow, TypeInv, TypeOK, EventsNameTasks, SchedulingState
<1> QED BY <1>1, <1>2, <1>3, <1>4, <1>5, <1>6 DEF Periodic

LEMMA NextType ==
  ASSUME TypeInv, StepInPhase, [Next]_vars
  PROVE  TypeInv'
<1>1. CASE Next
  BY <1>1, MessageType, AssignType, HandleType, HealthType, PeriodicType,
     WorkerType DEF Next
<1>2. CASE UNCHANGED vars
  BY <1>2 DEF vars, procVars, TypeInv, TypeOK, EventsNameTasks
<1> QED BY <1>1, <1>2

-----------------------------------------------------------------------------
(* What holds of the two threads' steps and of RUNNING whatever a toggle has  *)
(* overwritten.                                                            *)

Frame == TodoUnderLock /\ HandUnderLock /\ StepInPhase /\ OwnRecords

Shape == TypeInv /\ Frame

\* A step outside assign_tasks that puts nothing into RUNNING.
LEMMA FrameSame ==
  ASSUME Frame, UNCHANGED <<WORKERS, todo, lock, hand>>, StepInPhase',
         \A t \in TaskId : RUNNING'[t] # None =>
           RUNNING[t] # None /\ RUNNING'[t].task = RUNNING[t].task
  PROVE  Frame'
BY DEF Frame, TodoUnderLock, HandUnderLock, OwnRecords, IsRunning

LEMMA FrameQuiet ==
  ASSUME Frame, UNCHANGED <<RUNNING, WORKERS, todo, lock, hand>>, StepInPhase'
  PROVE  Frame'
BY FrameSame

LEMMA WorkerFrame ==
  ASSUME Frame, NEW w \in Wid, Worker(w)
  PROVE  Frame'
<1>1. UNCHANGED <<RUNNING, WORKERS, todo, lock, hand, plan, phase>>
  BY DEF Worker, Take, Emit, Finish, Raise, Crash, stepVars
<1>2. StepInPhase' BY <1>1 DEF Frame, StepInPhase
<1> QED BY <1>1, <1>2, FrameQuiet

LEMMA AssignFrame ==
  ASSUME Shape, Assign
  PROVE  Frame'
<1> USE DEF stepVars
<1>1. ASSUME NEW thread \in {"main", "resume"}, AssignBegin(thread) PROVE Frame'
  BY <1>1 DEF AssignBegin, Shape, Frame, TodoUnderLock, HandUnderLock, StepInPhase,
              OwnRecords, IsRunning
<1>2. ASSUME NEW w \in Wid, AssignWorker(w) PROVE Frame'
  <2>1. StepInPhase' /\ OwnRecords'
    BY <1>2 DEF AssignWorker, Shape, Frame, StepInPhase, OwnRecords, IsRunning
  <2>2. TodoUnderLock'
    BY <1>2 DEF AssignWorker, Shape, Frame, TodoUnderLock
  <2>3. HandUnderLock'
    BY <1>2 DEF AssignWorker, Shape, Frame, HandUnderLock
  <2> QED BY <2>1, <2>2, <2>3 DEF Frame
<1>3. CASE HandOver
  <2>1. PICK m \in Meta : m = hand
    BY <1>3 DEF HandOver, Shape, TypeInv, TypeOK
  <2>2. m.task.id \in TaskId BY DEF Meta, Task
  <2>3. RUNNING' = [RUNNING EXCEPT ![m.task.id] = m] BY <1>3, <2>1 DEF HandOver
  <2>4. \A t \in TaskId : RUNNING'[t] = IF t = m.task.id THEN m ELSE RUNNING[t]
    BY <2>2, <2>3 DEF Shape, TypeInv, TypeOK
  <2>5. OwnRecords' BY <2>4 DEF OwnRecords, IsRunning, Shape, Frame
  <2>6. TodoUnderLock' /\ HandUnderLock' /\ StepInPhase'
    BY <1>3 DEF HandOver, Shape, Frame, TodoUnderLock, HandUnderLock, StepInPhase
  <2> QED BY <2>5, <2>6 DEF Frame
<1>4. CASE AssignEnd
  <2>1. UNCHANGED <<RUNNING, WORKERS, todo, hand, plan>> /\ todo = {} BY <1>4 DEF AssignEnd
  <2>2. StepInPhase'
    BY <1>4 DEF AssignEnd, Shape, Frame, StepInPhase, TypeInv, TypeOK
  <2> QED BY <2>1, <2>2
      DEF Shape, Frame, TodoUnderLock, HandUnderLock, OwnRecords, IsRunning
<1> QED BY <1>1, <1>2, <1>3, <1>4 DEF Assign

LEMMA HandleFrame ==
  ASSUME Shape, Handle
  PROVE  Frame'
<1> USE DEF stepVars
<1> DEFINE e == Head(eventq)
<1>1. CASE TaskDone
  <2>1. UNCHANGED <<WORKERS, todo, lock, hand, plan, phase>>
        /\ RUNNING' = [RUNNING EXCEPT ![e.id] = None]
    BY <1>1 DEF TaskDone
  <2>2. StepInPhase' BY <2>1 DEF Shape, Frame, StepInPhase
  <2> HIDE DEF e
  <2>3. \A t \in TaskId : RUNNING'[t] # None => RUNNING'[t] = RUNNING[t]
    BY <2>1 DEF Shape, TypeInv, TypeOK
  <2> QED BY <2>1, <2>2, <2>3, FrameSame DEF Shape
<1>2. CASE ScheduleTask
  BY <1>2, FrameQuiet DEF ScheduleTask, Shape, Frame, StepInPhase
<1>3. CASE ReviewRequest
  <2>1. UNCHANGED <<RUNNING, WORKERS, todo, lock, hand>> BY <1>3 DEF ReviewRequest
  <2>2. StepInPhase'
    BY <1>3, NoneAssumption
    DEF ReviewRequest, Planned, Type, Dispatch, Shape, Frame, StepInPhase
  <2> QED BY <2>1, <2>2, FrameQuiet DEF Shape
<1>4. CASE EnqueuePlanned
  <2>1. UNCHANGED <<RUNNING, WORKERS, todo, lock, hand>> BY <1>4 DEF EnqueuePlanned
  <2>2. StepInPhase' BY <1>4 DEF EnqueuePlanned, StepInPhase
  <2> QED BY <2>1, <2>2, FrameQuiet DEF Shape
<1>5. CASE CancelTask
  <2>1. UNCHANGED <<WORKERS, todo, lock, hand, plan, phase>> BY <1>5 DEF CancelTask
  <2>2. StepInPhase' BY <2>1 DEF Shape, Frame, StepInPhase
  <2>3. RUNNING' = RUNNING \/ RUNNING' = [RUNNING EXCEPT ![e.id] = None]
    BY <1>5 DEF CancelTask, CancelPending, CancelRunning, CancelUnknown
  <2> HIDE DEF e
  <2>4. \A t \in TaskId : RUNNING'[t] # None => RUNNING'[t] = RUNNING[t]
    BY <2>3 DEF Shape, TypeInv, TypeOK
  <2> QED BY <2>1, <2>2, <2>4, FrameSame DEF Shape
<1>6. CASE ToggleEvolution
  <2>1. UNCHANGED <<RUNNING, WORKERS, todo, lock, hand>> BY <1>6 DEF ToggleEvolution
  <2>2. StepInPhase'
    BY <1>6 DEF ToggleEvolution, Dispatch, Shape, Frame, StepInPhase
  <2> QED BY <2>1, <2>2, FrameQuiet DEF Shape
<1>7. CASE ToggleWrite
  <2>1. UNCHANGED <<RUNNING, WORKERS, todo, lock, hand>> BY <1>7 DEF ToggleWrite
  <2>2. StepInPhase' BY <1>7 DEF ToggleWrite, Shape, Frame, StepInPhase
  <2> QED BY <2>1, <2>2, FrameQuiet DEF Shape
<1>8. CASE RestartRequest
  <2>1. CASE Boot
    BY <2>1 DEF Boot, Frame, TodoUnderLock, HandUnderLock, StepInPhase, OwnRecords,
                IsRunning
  <2>2. CASE UNCHANGED <<RUNNING, WORKERS, todo, lock, hand, plan, phase>>
    BY <2>2, FrameQuiet DEF Shape, Frame, StepInPhase
  <2> QED BY <1>8, <2>1, <2>2 DEF RestartRequest
<1> QED BY <1>1, <1>2, <1>3, <1>4, <1>5, <1>6, <1>7, <1>8 DEF Handle

LEMMA HealthFrame ==
  ASSUME Shape, \/ Health \/ BeginHealth \/ EndDrain
  PROVE  Frame'
<1> USE DEF stepVars
<1>1. ASSUME NEW w \in Wid, HealthAlive(w) PROVE Frame'
  BY <1>1, FrameQuiet DEF HealthAlive, Shape, Frame, StepInPhase
<1>2. ASSUME NEW w \in Wid, HealthDead(w) PROVE Frame'
  <2>1. UNCHANGED <<WORKERS, todo, lock, hand, plan, phase>> BY <1>2 DEF HealthDead
  <2>2. StepInPhase' BY <2>1 DEF Shape, Frame, StepInPhase
  <2>3. \A t \in TaskId : RUNNING'[t] # None => RUNNING'[t] = RUNNING[t]
    BY <1>2 DEF HealthDead, Requeue, Shape, TypeInv, TypeOK
  <2> QED BY <2>1, <2>2, <2>3, FrameSame DEF Shape
<1>3. CASE HealthEnd
  <2>1. UNCHANGED <<todo, lock, hand, plan>> BY <1>3 DEF HealthEnd
  <2>2. StepInPhase' BY <1>3, <2>1 DEF HealthEnd, Shape, Frame, StepInPhase
  <2>3. CASE KillWorkers
    <3>1. OwnRecords' BY <2>3 DEF KillWorkers, OwnRecords, IsRunning
    <3>2. TodoUnderLock' /\ HandUnderLock'
      BY <2>1, <2>3 DEF KillWorkers, Shape, Frame, TodoUnderLock, HandUnderLock
    <3> QED BY <2>2, <3>1, <3>2 DEF Frame
  <2>4. CASE UNCHANGED <<RUNNING, WORKERS, procVars>>
    BY <2>1, <2>2, <2>4, FrameQuiet DEF Shape
  <2> QED BY <1>3, <2>3, <2>4 DEF HealthEnd
<1>4. CASE BeginHealth
  BY <1>4, FrameQuiet DEF BeginHealth, Shape, Frame, StepInPhase
<1>5. CASE EndDrain
  BY <1>5, FrameQuiet DEF EndDrain, Shape, Frame, StepInPhase
<1> QED BY <1>1, <1>2, <1>3, <1>4, <1>5 DEF Health

LEMMA PeriodicFrame ==
  ASSUME Shape, \/ Periodic \/ BudgetLow
  PROVE  Frame'
<1> USE DEF stepVars
<1>1. ASSUME NEW t \in TaskId, SoftTimeout(t) PROVE Frame'
  <2>1. UNCHANGED <<WORKERS, todo, lock, hand, plan, phase>> BY <1>1 DEF SoftTimeout
  <2>2. StepInPhase' BY <2>1 DEF Shape, Frame, StepInPhase
  <2>3. PICK m \in Meta : m = RUNNING[t] /\ m # None
    BY <1>1 DEF SoftTimeout, IsRunning, Shape, TypeInv, TypeOK
  <2>4. RUNNING' = [RUNNING EXCEPT ![t] = [m EXCEPT !.soft = TRUE]]
    BY <1>1, <2>3 DEF SoftTimeout
  <2>5. [m EXCEPT !.soft = TRUE].task = m.task BY DEF Meta
  <2>6. \A u \in TaskId : RUNNING'[u] # None =>
          RUNNING[u] # None /\ RUNNING'[u].task = RUNNING[u].task
    BY <2>3, <2>4, <2>5 DEF Shape, TypeInv, TypeOK
  <2> QED BY <2>1, <2>2, <2>6, FrameSame DEF Shape
<1>2. ASSUME NEW t \in TaskId, HardTimeout(t) PROVE Frame'
  <2>1. UNCHANGED <<WORKERS, todo, lock, hand, plan, phase>>
        /\ RUNNING' = [RUNNING EXCEPT ![t] = None]
    BY <1>2 DEF HardTimeout
  <2>2. StepInPhase' BY <2>1 DEF Shape, Frame, StepInPhase
  <2>3. \A u \in TaskId : RUNNING'[u] # None => RUNNING'[u] = RUNNING[u]
    BY <2>1 DEF Shape, TypeInv, TypeOK
  <2> QED BY <2>1, <2>2, <2>3, FrameSame DEF Shape
<1>3. CASE EnqueueEvolution
  <2>1. UNCHANGED <<RUNNING, WORKERS, todo, lock, hand>> BY <1>3 DEF EnqueueEvolution
  <2>2. StepInPhase'
    BY <1>3, NoneAssumption DEF EnqueueEvolution, Planned, Type, Shape, Frame, StepInPhase
  <2> QED BY <2>1, <2>2, FrameQuiet DEF Shape
<1>4. CASE EnqueueHealthCheck
  <2>1. UNCHANGED <<RUNNING, WORKERS, todo, lock, hand>> BY <1>4 DEF EnqueueHealthCheck
  <2>2. StepInPhase'
    BY <1>4, NoneAssumption DEF EnqueueHealthCheck, Planned, Type, Shape, Frame, StepInPhase
  <2> QED BY <2>1, <2>2, FrameQuiet DEF Shape
<1>5. CASE EndJobs
  BY <1>5, FrameQuiet DEF EndJobs, Shape, Frame, StepInPhase
<1>6. CASE BudgetLow
  BY <1>6, FrameQuiet DEF BudgetLow, Shape, Frame, StepInPhase
<1> QED BY <1>1, <1>2, <1>3, <1>4, <1>5, <1>6 DEF Periodic

LEMMA NextShape ==
  ASSUME Shape, [Next]_vars
  PROVE  Shape'
<1>1. TypeInv' BY NextType DEF Shape, Frame
<1>2. CASE Next
  <2>1. ASSUME NEW t \in TaskId, Message(t) PROVE Frame'
    BY <2>1, FrameQuiet DEF Message, stepVars, Shape, Frame, StepInPhase
  <2>2. ASSUME NEW t \in TaskId, ResumeEnqueue(t) PROVE Frame'
    BY <2>2, FrameQuiet DEF ResumeEnqueue, stepVars, Shape, Frame, StepInPhase
  <2>3. ASSUME EndPoll PROVE Frame'
    <3>1. UNCHANGED <<RUNNING, WORKERS, todo, lock, hand>> BY <2>3 DEF EndPoll, stepVars
    <3>2. StepInPhase' BY <2>3 DEF EndPoll, stepVars, Shape, Frame, StepInPhase
    <3> QED BY <3>1, <3>2, FrameQuiet DEF Shape
  <2>4. Frame'
    BY <1>2, <2>1, <2>2, <2>3, AssignFrame, HandleFrame, HealthFrame, PeriodicFrame,
       WorkerFrame DEF Next, Shape
  <2> QED BY <1>1, <2>4 DEF Shape
<1>3. CASE UNCHANGED vars
  <2>1. Frame' BY <1>3, FrameQuiet DEF vars, Shape, Frame, StepInPhase
  <2> QED BY <1>1, <2>1 DEF Shape
<1> QED BY <1>2, <1>3

LEMMA InitShape == Init => Shape
<1> HAVE Init
<1>1. TypeInv BY InitType
<1>2. Frame
  BY DEF Init, Frame, TodoUnderLock, HandUnderLock, StepInPhase, OwnRecords, IsRunning
<1> QED BY <1>1, <1>2 DEF Shape

\* Every reachable state is type-correct, whatever the workers, ids and bounds.
THEOREM TypeCorrect == Spec => []TypeOK
<1>1. Init => Shape BY InitShape
<1>2. Shape /\ [Next]_vars => Shape' BY NextShape
<1>3. Shape => TypeOK BY DEF Shape, TypeInv
<1> QED BY <1>1, <1>2, <1>3, PTL DEF Spec

-----------------------------------------------------------------------------
(* The inductive invariant.  While no toggle has undone anything, the books    *)
(* stay sound: every step but those of assign_tasks only forgets: a RUNNING   *)
(* record, a busy mark or a process, never the other way round; what it adds  *)
(* to the queue is idle.                                                   *)

Good == Shape /\ Sound

Idling(t) ==
  RUNNING[t] = None /\ \A w \in Wid : busy[w] # t /\ ~Executing(w, t)

Forgets ==
  /\ \A t \in TaskId : RUNNING'[t] # None =>
       /\ RUNNING[t] # None
       /\ RUNNING'[t].wid = RUNNING[t].wid
       /\ RUNNING'[t].task.id = RUNNING[t].task.id
       /\ RUNNING[t].wid \in WORKERS'
       /\ busy'[RUNNING[t].wid] = t
  /\ \A w \in Wid : busy'[w] \in {None, busy[w]}
  /\ \A w \in Wid, t \in TaskId : Executing(w, t)' => Executing(w, t)

Queues ==
  /\ \A t \in TaskId : InPending(t)' => InPending(t) \/ (Idling(t)' /\ ~InHand(t))
  /\ DistinctIds(PENDING')

\* The parts of Sound that say nothing of the events.
BookInv ==
  /\ RecordsBusy /\ ListedOnce /\ BusyOnce /\ PendingIsIdle
  /\ ExecutorIsAssignee /\ ExecutedOnce

LEMMA HandLemma ==
  ASSUME Good
  PROVE  hand # None => /\ hand \in Meta /\ hand.wid \in Wid /\ hand.wid \in WORKERS
                        /\ hand.task \in Task /\ hand.task.id \in TaskId
                        /\ busy[hand.wid] = None /\ RUNNING[hand.task.id] = None
<1> SUFFICES ASSUME hand # None
             PROVE  /\ hand \in Meta /\ hand.wid \in Wid /\ hand.wid \in WORKERS
                    /\ hand.task \in Task /\ hand.task.id \in TaskId
                    /\ busy[hand.wid] = None /\ RUNNING[hand.task.id] = None
  OBVIOUS
<1>1. hand \in Meta BY DEF Good, Shape, TypeInv, TypeOK
<1>2. hand.wid \in WORKERS BY DEF Good, Shape, Frame, HandUnderLock, TodoUnderLock
<1>3. busy[hand.wid] = None /\ RUNNING[hand.task.id] = None
  BY DEF Good, Sound, PendingIsIdle, IsRunning
<1> QED BY <1>1, <1>2, <1>3 DEF Meta, Task

LEMMA ForgetLemma ==
  ASSUME Good, TypeOK', UNCHANGED hand, Forgets, Queues
  PROVE  /\ BookInv'
         /\ \A t \in TaskId : Unknown(t) /\ ~InPending(t)' => Unknown(t)'
<1> USE DEF Good, Sound
<1>1. None \notin TaskId BY SupervisorAssumption
<1>2. /\ RUNNING \in [TaskId -> Meta \cup {None}]
      /\ \A t \in TaskId : RUNNING[t] # None => RUNNING[t].wid \in Wid
  BY DEF Shape, TypeInv, TypeOK, Meta
<1>3. RecordsBusy'
  BY <1>2 DEF Forgets, RecordsBusy, IsRunning
<1>4. ListedOnce'
  BY DEF Forgets, Queues, Idling, ListedOnce, IsRunning, InHand
<1>5. BusyOnce'
  BY DEF Forgets, BusyOnce
<1>6. PendingIsIdle'
  <2>1. ASSUME NEW t \in TaskId, InPending(t)', NEW w \in Wid
        PROVE  busy'[w] # t /\ ~Executing(w, t)'
    <3>1. CASE InPending(t)
      BY <2>1, <3>1, <1>1 DEF PendingIsIdle, Forgets
    <3>2. CASE Idling(t)' BY <2>1, <3>2 DEF Idling
    <3> QED BY <2>1, <3>1, <3>2 DEF Queues
  <2>2. ASSUME NEW t \in TaskId, InHand(t)', NEW w \in Wid
        PROVE  busy'[w] # t /\ ~Executing(w, t)'
    <3>1. InHand(t) BY <2>2 DEF InHand
    <3> QED BY <3>1, <1>1 DEF PendingIsIdle, Forgets
  <2>3. hand' # None => busy'[hand'.wid] = None /\ RUNNING'[hand'.task.id] = None
    BY HandLemma DEF Forgets
  <2> QED BY <2>1, <2>2, <2>3 DEF PendingIsIdle, IsRunning
<1>7. ExecutorIsAssignee'
  BY DEF ExecutorIsAssignee, Forgets, IsRunning
<1>8. ExecutedOnce'
  BY DEF ExecutedOnce, Forgets
<1>9. ASSUME NEW t \in TaskId, Unknown(t), ~InPending(t)' PROVE Unknown(t)'
  BY <1>1, <1>9 DEF Unknown, Tracked, InHand, IsRunning, Forgets
<1> QED BY <1>3, <1>4, <1>5, <1>6, <1>7, <1>8, <1>9 DEF BookInv

LEMMA ForgetNothing ==
  ASSUME Good, UNCHANGED <<RUNNING, WORKERS, procVars>>
  PROVE  Forgets
BY DEF Good, Sound, Forgets, RecordsBusy, IsRunning, Executing, procVars

LEMMA QueueShrinks ==
  ASSUME \A t : Holds(PENDING', t) => Holds(PENDING, t), DistinctIds(PENDING')
  PROVE  Queues
BY DEF Queues, InPending

LEMMA QueueGrows ==
  ASSUME Good, NEW task \in Task, ~InPending(task.id), ~InHand(task.id),
         Idling(task.id)',
         \/ PENDING' = EnqueueBack(PENDING, task)
         \/ PENDING' = EnqueueFront(PENDING, task)
  PROVE  /\ Queues
         /\ \A t : InPending(t)' <=> InPending(t) \/ t = task.id
<1>1. PENDING \in Queue /\ DistinctIds(PENDING)
  BY DEF Good, Shape, TypeInv, TypeOK, Queue, Sound, ListedOnce
<1>2. /\ \A t : Holds(PENDING', t) <=> Holds(PENDING, t) \/ t = task.id
      /\ DistinctIds(PENDING')
  <2>1. CASE PENDING' = EnqueueBack(PENDING, task)
    BY <1>1, <2>1, EnqueueBackLemma DEF InPending
  <2>2. CASE PENDING' = EnqueueFront(PENDING, task)
    BY <1>1, <2>2, EnqueueFrontLemma DEF InPending
  <2> QED BY <2>1, <2>2
<1> QED BY <1>2 DEF Queues, InPending

\* A task that is unknown stays idle when nothing but the queue changes.
LEMMA UnknownIdles ==
  ASSUME NEW t \in TaskId, Unknown(t), UNCHANGED <<RUNNING, WORKERS, procVars>>
  PROVE  Idling(t)' /\ ~InPending(t) /\ ~InHand(t)
BY DEF Unknown, Idling, Tracked, IsRunning, Executing, procVars

LEMMA FreshUnknown ==
  ASSUME NEW t \in TaskId, Fresh(t)
  PROVE  Unknown(t) /\ ~InDeque(t, eventq)
BY DEF Fresh, Unknown, Executing

\* The events, when the scheduled tasks they name stay unknown.
LEMMA EventsSame ==
  ASSUME Good, UNCHANGED eventq,
         \A t \in TaskId : Unknown(t) /\ InDeque(t, eventq) => Unknown(t)'
  PROVE  ScheduledIsNew'
<1>1. \A i \in 1..Len(eventq) : InDeque(eventq[i].id, eventq)
  BY DEF InDeque
<1> QED BY <1>1 DEF Good, Shape, TypeInv, Sound, ScheduledIsNew, EventsNameTasks

LEMMA EventsTail ==
  ASSUME Good, eventq # <<>>, eventq' = Tail(eventq),
         \A t \in TaskId :
           /\ Unknown(t) /\ InDeque(t, eventq)
           /\ Head(eventq).kind = "schedule_task" => t # Head(eventq).id
           => Unknown(t)'
  PROVE  ScheduledIsNew'
<1>1. eventq \in Seq(Event) BY DEF Good, Shape, TypeInv, TypeOK
<1>2. /\ Head(eventq) = eventq[1] /\ Len(eventq) \in Nat \ {0}
      /\ Len(Tail(eventq)) = Len(eventq) - 1
      /\ \A i \in 1..Len(Tail(eventq)) :
           i + 1 \in 1..Len(eventq) /\ Tail(eventq)[i] = eventq[i + 1]
  BY <1>1, TailLemma
<1>3. \A i \in 1..Len(eventq) : InDeque(eventq[i].id, eventq)
  BY DEF InDeque
<1>4. SUFFICES ASSUME NEW i \in 1..Len(eventq'),
                      eventq'[i].kind = "schedule_task"
               PROVE  /\ Unknown(eventq[i].id)'
                      /\ \A j \in 1..Len(eventq') :
                           /\ eventq'[j].kind = "schedule_task"
                           /\ eventq'[j].id = eventq'[i].id
                           => i = j
  BY DEF ScheduledIsNew
<1>5. /\ i + 1 \in 1..Len(eventq) /\ eventq'[i] = eventq[i + 1]
      /\ 1 \in 1..Len(eventq) /\ i \in Nat \ {0} /\ i + 1 # 1
  BY <1>2
<1>6. PICK t \in TaskId : t = eventq[i + 1].id /\ Unknown(t)
  BY <1>4, <1>5 DEF Good, Shape, TypeInv, Sound, ScheduledIsNew, EventsNameTasks
<1>7. Head(eventq).kind = "schedule_task" => t # Head(eventq).id
  BY <1>2, <1>4, <1>5, <1>6 DEF Good, Sound, ScheduledIsNew
<1>8. Unknown(t)' BY <1>3, <1>5, <1>6, <1>7
<1>9. t = eventq'[i].id BY <1>5, <1>6
<1>10. Unknown(eventq[i].id)' BY <1>8, <1>9
<1>11. ASSUME NEW j \in 1..Len(eventq'), eventq'[j].kind = "schedule_task",
              eventq'[j].id = eventq'[i].id
       PROVE  i = j
  <2>1. j + 1 \in 1..Len(eventq) /\ eventq'[j] = eventq[j + 1] /\ j \in Nat
    BY <1>2
  <2>2. i + 1 = j + 1 BY <1>4, <1>5, <1>11, <2>1 DEF Good, Sound, ScheduledIsNew
  <2> QED BY <1>5, <2>1, <2>2
<1> QED BY <1>10, <1>11

LEMMA EventsAppend ==
  ASSUME Good, NEW e \in Event, eventq' = Append(eventq, e),
         e.kind = "schedule_task" => /\ e.id \in TaskId /\ Unknown(e.id)'
                                     /\ ~InDeque(e.id, eventq),
         \A t \in TaskId : Unknown(t) /\ InDeque(t, eventq) => Unknown(t)'
  PROVE  ScheduledIsNew'
<1>1. eventq \in Seq(Event) BY DEF Good, Shape, TypeInv, TypeOK
<1>2. /\ Len(eventq') = Len(eventq) + 1 /\ Len(eventq) \in Nat
      /\ \A i \in 1..Len(eventq) : eventq'[i] = eventq[i]
      /\ eventq'[Len(eventq) + 1] = e
  BY <1>1, AppendLemma
<1>3. \A i \in 1..Len(eventq) : InDeque(eventq[i].id, eventq)
  BY DEF InDeque
<1>4. \A i \in 1..Len(eventq') : i \in 1..Len(eventq) \/ i = Len(eventq) + 1
  BY <1>2
<1>5. ASSUME NEW i \in 1..Len(eventq'), eventq'[i].kind = "schedule_task"
      PROVE  Unknown(eventq[i].id)'
  <2>1. CASE i \in 1..Len(eventq)
    <3>1. PICK t \in TaskId : t = eventq[i].id /\ Unknown(t)
      BY <1>2, <1>5, <2>1 DEF Good, Shape, TypeInv, Sound, ScheduledIsNew, EventsNameTasks
    <3>2. Unknown(t)' /\ t = eventq'[i].id BY <1>2, <1>3, <2>1, <3>1
    <3> QED BY <3>2
  <2>2. CASE i = Len(eventq) + 1
    <3>1. e.id \in TaskId /\ Unknown(e.id)' /\ e.id = eventq'[i].id
      BY <1>2, <1>5, <2>2
    <3> QED BY <3>1
  <2> QED BY <1>4, <2>1, <2>2
<1>6. ASSUME NEW i \in 1..Len(eventq'), NEW j \in 1..Len(eventq'),
             eventq'[i].kind = "schedule_task", eventq'[j].kind = "schedule_task",
             eventq'[j].id = eventq'[i].id
      PROVE  i = j
  <2>1. CASE i \in 1..Len(eventq) /\ j \in 1..Len(eventq)
    BY <1>2, <1>6, <2>1 DEF Good, Sound, ScheduledIsNew
  <2>2. CASE i = Len(eventq) + 1 /\ j \in 1..Len(eventq)
    BY <1>2, <1>3, <1>6, <2>2
  <2>3. CASE j = Len(eventq) + 1 /\ i \in 1..Len(eventq)
    BY <1>2, <1>3, <1>6, <2>3
  <2> QED BY <1>4, <2>1, <2>2, <2>3
<1> QED BY <1>5, <1>6 DEF ScheduledIsNew

\* A step that only forgets and takes tasks from the queue.
LEMMA ShrinkStep ==
  ASSUME Good, Shape', UNCHANGED hand, Forgets,
         \A t : Holds(PENDING', t) => Holds(PENDING, t), DistinctIds(PENDING'),
         \/ eventq' = eventq
         \/ eventq # <<>> /\ eventq' = Tail(eventq)
  PROVE  Good'
<1>1. Queues BY QueueShrinks
<1>2. TypeOK' BY DEF Shape, TypeInv
<1>3. /\ BookInv'
      /\ \A t \in TaskId : Unknown(t) /\ ~InPending(t)' => Unknown(t)'
  BY <1>1, <1>2, ForgetLemma
<1>4. \A t \in TaskId : Unknown(t) => Unknown(t)'
  BY <1>3 DEF Unknown, Tracked, InPending
<1>5. ScheduledIsNew' BY <1>4, EventsSame, EventsTail
<1> QED BY <1>3, <1>5 DEF Good, Sound, BookInv

\* A step that forgets, and queues a task which is idle afterwards.
LEMMA GrowStep ==
  ASSUME Good, Shape', UNCHANGED hand, Forgets,
         NEW task \in Task, ~InPending(task.id), ~InHand(task.id), Idling(task.id)',
         \/ PENDING' = EnqueueBack(PENDING, task)
         \/ PENDING' = EnqueueFront(PENDING, task),
         \/ eventq' = eventq
         \/ eventq # <<>> /\ eventq' = Tail(eventq),
         \/ ~Unknown(task.id) \/ ~InDeque(task.id, eventq)
         \/ /\ eventq # <<>> /\ eventq' = Tail(eventq)
            /\ Head(eventq).kind = "schedule_task" /\ Head(eventq).id = task.id
  PROVE  Good'
<1>1. Queues /\ \A t : InPending(t)' <=> InPending(t) \/ t = task.id
  BY QueueGrows
<1>2. TypeOK' BY DEF Shape, TypeInv
<1>3. /\ BookInv'
      /\ \A t \in TaskId : Unknown(t) /\ ~InPending(t)' => Unknown(t)'
  BY <1>1, <1>2, ForgetLemma
<1>4. \A t \in TaskId : Unknown(t) /\ t # task.id => Unknown(t)'
  BY <1>1, <1>3 DEF Unknown, Tracked
<1>5. ScheduledIsNew'
  <2>1. CASE ~Unknown(task.id) \/ ~InDeque(task.id, eventq)
    <3>1. \A t \in TaskId : Unknown(t) /\ InDeque(t, eventq) => Unknown(t)'
      BY <1>4, <2>1
    <3> QED BY <3>1, EventsSame, EventsTail
  <2>2. CASE /\ eventq # <<>> /\ eventq' = Tail(eventq)
             /\ Head(eventq).kind = "schedule_task" /\ Head(eventq).id = task.id
    BY <1>4, <2>2, EventsTail
  <2> QED BY <2>1, <2>2
<1> QED BY <1>3, <1>5 DEF Good, Sound, BookInv

\* A process puts an event in the queue.
LEMMA EventStep ==
  ASSUME Good, Shape', UNCHANGED hand, Forgets, UNCHANGED PENDING,
         NEW e \in Event, eventq' = Append(eventq, e),
         e.kind = "schedule_task" => e.id \in TaskId /\ Fresh(e.id)
  PROVE  Good'
<1>1. Queues BY QueueShrinks DEF Good, Sound, ListedOnce
<1>2. TypeOK' BY DEF Shape, TypeInv
<1>3. /\ BookInv'
      /\ \A t \in TaskId : Unknown(t) /\ ~InPending(t)' => Unknown(t)'
  BY <1>1, <1>2, ForgetLemma
<1>4. \A t \in TaskId : Unknown(t) => Unknown(t)'
  BY <1>3 DEF Unknown, Tracked, InPending
<1>5. ScheduledIsNew' BY <1>4, FreshUnknown, EventsAppend
<1> QED BY <1>3, <1>5 DEF Good, Sound, BookInv

LEMMA SameQueue ==
  ASSUME Good, UNCHANGED PENDING
  PROVE  /\ \A t : Holds(PENDING', t) => Holds(PENDING, t)
         /\ DistinctIds(PENDING')
BY DEF Good, Sound, ListedOnce

\* Killing or replacing a process forgets what it was doing, and whatever else
\* is said to run on it.
LEMMA RespawnForgets ==
  ASSUME Good, NEW w \in Wid, Respawn(w), UNCHANGED WORKERS,
         \A t \in TaskId : RUNNING'[t] # None => RUNNING'[t] = RUNNING[t],
         \A t \in TaskId : busy[w] = t => RUNNING'[t] = None
  PROVE  /\ Forgets
         /\ \A t \in TaskId : busy'[w] # t /\ ~Executing(w, t)'
<1>1. /\ None \notin TaskId /\ w \in DOMAIN busy /\ w \in DOMAIN alive
      /\ w \in DOMAIN inq /\ w \in DOMAIN cur
  BY SupervisorAssumption DEF Good, Shape, TypeInv, TypeOK
<1>2. \A t \in TaskId : busy'[w] # t /\ ~Executing(w, t)'
  BY <1>1 DEF Respawn, Executing, InDeque
<1>3. \A v \in Wid : v # w =>
        /\ busy'[v] = busy[v]
        /\ \A t \in TaskId : Executing(v, t)' => Executing(v, t)
  BY DEF Respawn, Executing, Good, Shape, TypeInv, TypeOK
<1>4. \A v \in Wid : busy'[v] \in {None, busy[v]}
  BY <1>1, <1>3 DEF Respawn
<1>5. \A v \in Wid, t \in TaskId : Executing(v, t)' => Executing(v, t)
  BY <1>2, <1>3
<1>6. ASSUME NEW t \in TaskId, RUNNING'[t] # None
      PROVE  /\ RUNNING[t] # None /\ RUNNING'[t] = RUNNING[t]
             /\ RUNNING[t].wid \in WORKERS' /\ busy'[RUNNING[t].wid] = t
  <2>1. RUNNING'[t] = RUNNING[t] /\ RUNNING[t] # None /\ busy[w] # t BY <1>6
  <2>2. RUNNING[t].wid \in WORKERS /\ busy[RUNNING[t].wid] = t
    BY <2>1 DEF Good, Sound, RecordsBusy, IsRunning
  <2>3. RUNNING[t].wid \in Wid /\ RUNNING[t].wid # w
    BY <2>1, <2>2 DEF Good, Shape, TypeInv, TypeOK
  <2> QED BY <2>1, <2>2, <2>3, <1>3
<1>7. Forgets BY <1>4, <1>5, <1>6 DEF Forgets
<1> QED BY <1>2, <1>7

LEMMA WorkerInv ==
  ASSUME Good, Shape', NEW w \in Wid, Worker(w)
  PROVE  Good'
<1>1. CASE Take(w)
  <2>1. inq[w] \in Seq(Task) /\ inq[w] # <<>> BY <1>1 DEF Take, Good, Shape, TypeInv, TypeOK
  <2>2. /\ InDeque(Head(inq[w]).id, inq[w])
        /\ \A t : InDeque(t, Tail(inq[w])) => InDeque(t, inq[w])
    BY <2>1, TailLemma
  <2>3. \A v \in Wid, t \in TaskId : Executing(v, t)' => Executing(v, t)
    BY <1>1, <2>2 DEF Take, Executing, Good, Shape, TypeInv, TypeOK
  <2>4. Forgets
    BY <1>1, <2>3 DEF Forgets, Take, Good, Sound, RecordsBusy, IsRunning
  <2>5. UNCHANGED hand BY <1>1 DEF Take, stepVars
  <2> QED BY <1>1, <2>4, <2>5, SameQueue, ShrinkStep DEF Take
<1>2. ASSUME NEW k \in Requests, NEW t \in TaskId \cup {None}, NEW f \in BOOLEAN,
             Emit(w, k, t, f)
      PROVE  Good'
  <2> DEFINE e == [kind |-> k, id |-> t, wid |-> w, type |-> cur[w].type, flag |-> f]
  <2>1. cur[w] \in Task BY <1>2 DEF Emit, Good, Shape, TypeInv, TypeOK
  <2>2. e \in Event BY <2>1, SupervisorAssumption DEF Event, Task
  <2>3. e.kind = "schedule_task" => e.id \in TaskId /\ Fresh(e.id)
    BY <1>2 DEF Emit
  <2>4. eventq' = Append(eventq, e) BY <1>2 DEF Emit
  <2>5. UNCHANGED <<RUNNING, WORKERS, procVars>> /\ UNCHANGED PENDING
    BY <1>2 DEF Emit
  <2>6. UNCHANGED hand BY <1>2 DEF Emit, stepVars
  <2> HIDE DEF e
  <2> QED BY <2>2, <2>3, <2>4, <2>5, <2>6, ForgetNothing, EventStep
<1>3. ASSUME NEW f \in BOOLEAN, Finish(w, f) PROVE Good'
  <2> DEFINE e == [kind |-> "task_done", id |-> cur[w].id, wid |-> w,
                   type |-> cur[w].type, flag |-> f]
  <2>1. cur[w] \in Task BY <1>3 DEF Finish, Good, Shape, TypeInv, TypeOK
  <2>2. e \in Event /\ e.kind # "schedule_task" BY <2>1 DEF Event, Task
  <2>3. eventq' = Append(eventq, e) BY <1>3 DEF Finish
  <2>4. \A v \in Wid, t \in TaskId : Executing(v, t)' => Executing(v, t)
    BY <1>3 DEF Finish, Executing, Good, Shape, TypeInv, TypeOK
  <2>5. Forgets
    BY <1>3, <2>4 DEF Forgets, Finish, Good, Sound, RecordsBusy, IsRunning
  <2>6. UNCHANGED hand /\ UNCHANGED PENDING
    BY <1>3 DEF Finish, stepVars
  <2> HIDE DEF e
  <2> QED BY <2>2, <2>3, <2>5, <2>6, EventStep
<1>4. CASE Raise(w)
  <2>1. \A v \in Wid, t \in TaskId : Executing(v, t)' => Executing(v, t)
    BY <1>4 DEF Raise, Executing, Good, Shape, TypeInv, TypeOK
  <2>2. Forgets
    BY <1>4, <2>1 DEF Forgets, Raise, Good, Sound, RecordsBusy, IsRunning
  <2>3. UNCHANGED hand BY <1>4 DEF Raise, stepVars
  <2> QED BY <1>4, <2>2, <2>3, SameQueue, ShrinkStep DEF Raise
<1>5. CASE Crash(w)
  <2>1. \A v \in Wid, t \in TaskId : Executing(v, t)' => Executing(v, t)
    BY <1>5 DEF Crash, Executing, Good, Shape, TypeInv, TypeOK
  <2>2. Forgets
    BY <1>5, <2>1 DEF Forgets, Crash, Good, Sound, RecordsBusy, IsRunning
  <2>3. UNCHANGED hand BY <1>5 DEF Crash, stepVars
  <2> QED BY <1>5, <2>2, <2>3, SameQueue, ShrinkStep DEF Crash
<1> QED BY <1>1, <1>2, <1>3, <1>4, <1>5 DEF Worker

\* A fresh id is queued and nothing else changes but the event being handled.
LEMMA FreshStep ==
  ASSUME Good, Shape', UNCHANGED hand, NEW t \in TaskId, Fresh(t), NEW type \in Type,
         PENDING' = EnqueueBack(PENDING, NewTask(t, type)),
         UNCHANGED <<RUNNING, WORKERS, procVars>>,
         \/ eventq' = eventq
         \/ eventq # <<>> /\ eventq' = Tail(eventq)
  PROVE  Good'
<1>1. NewTask(t, type) \in Task /\ NewTask(t, type).id = t BY NewTaskType
<1>2. Unknown(t) /\ ~InDeque(t, eventq) BY FreshUnknown
<1>3. Idling(t)' /\ ~InPending(t) /\ ~InHand(t) BY <1>2, UnknownIdles
<1>4. Forgets BY ForgetNothing
<1> QED BY <1>1, <1>2, <1>3, <1>4, GrowStep

LEMMA MessageInv ==
  ASSUME Good, Shape', \/ \E t \in TaskId : Message(t) \/ ResumeEnqueue(t)
                       \/ EndPoll
  PROVE  Good'
<1>1. ASSUME NEW t \in TaskId, Message(t) PROVE Good'
  <2>1. UNCHANGED hand BY <1>1 DEF Message, stepVars
  <2> QED BY <1>1, <2>1, FreshStep DEF Message, Type
<1>2. ASSUME NEW t \in TaskId, ResumeEnqueue(t) PROVE Good'
  <2>1. UNCHANGED hand BY <1>2 DEF ResumeEnqueue, stepVars
  <2> QED BY <1>2, <2>1, FreshStep DEF ResumeEnqueue, Type
<1>3. CASE EndPoll
  <2>1. UNCHANGED hand BY <1>3 DEF EndPoll, stepVars
  <2> QED BY <1>3, <2>1, ForgetNothing, SameQueue, ShrinkStep DEF EndPoll
<1> QED BY <1>1, <1>2, <1>3

\* assign_tasks takes the head of a class for a free worker ...
LEMMA PopInv ==
  ASSUME Good, Shape', NEW w \in WORKERS, busy[w] = None,
         NEW c \in Class, PENDING[c] # <<>>,
         PENDING' = [PENDING EXCEPT ![c] = Tail(@)],
         hand' = [task |-> Head(PENDING[c]), wid |-> w, soft |-> FALSE],
         UNCHANGED <<RUNNING, WORKERS, procVars, eventq>>
  PROVE  Good'
<1> DEFINE task == Head(PENDING[c])
           x == task.id
<1>1. PENDING \in Queue /\ DistinctIds(PENDING)
  BY DEF Good, Shape, TypeInv, TypeOK, Queue, Sound, ListedOnce
<1>2. /\ task \in Task /\ InPending(x)
      /\ \A t : Holds(PENDING', t) => Holds(PENDING, t)
      /\ DistinctIds(PENDING') /\ ~Holds(PENDING', x)
  BY <1>1, PopLemma DEF InPending
<1>3. x \in TaskId /\ RUNNING[x] = None
  BY <1>2 DEF Task, Good, Sound, ListedOnce, IsRunning
<1>4. hand'.task = task /\ hand'.wid = w OBVIOUS
<1> HIDE DEF task
<1>5. \A t : InHand(t)' => t = x BY <1>4 DEF InHand
<1>6. \A t \in TaskId :
        /\ InPending(t)' => InPending(t)
        /\ InHand(t)' => InPending(t)
        /\ Tracked(t)' => Tracked(t)
  BY <1>2, <1>5 DEF InPending, Tracked, IsRunning
<1>7. \A v \in Wid, t \in TaskId : Executing(v, t)' <=> Executing(v, t)
  BY DEF Executing, procVars
<1>8. ListedOnce'
  BY <1>2, <1>3, <1>5 DEF Good, Sound, ListedOnce, InPending, IsRunning
<1>9. PendingIsIdle'
  <2>1. \A t \in TaskId : InPending(t)' \/ InHand(t)' =>
          \A v \in Wid : busy'[v] # t /\ ~Executing(v, t)'
    BY <1>6, <1>7 DEF Good, Sound, PendingIsIdle, procVars
  <2> QED BY <1>3, <1>4, <2>1 DEF PendingIsIdle, IsRunning, procVars
<1>10. RecordsBusy' /\ BusyOnce' /\ ExecutorIsAssignee' /\ ExecutedOnce'
  BY <1>7 DEF Good, Sound, RecordsBusy, BusyOnce, ExecutorIsAssignee, ExecutedOnce,
              IsRunning, procVars
<1>11. \A t \in TaskId : Unknown(t) => Unknown(t)'
  BY <1>6, <1>7 DEF Unknown, procVars
<1>12. ScheduledIsNew' BY <1>11, EventsSame
<1> QED BY <1>8, <1>9, <1>10, <1>12 DEF Good, Sound

\* ... and gives it to that worker.
LEMMA HandOverInv ==
  ASSUME Good, Shape', HandOver
  PROVE  Good'
<1>1. PICK m \in Meta : m = hand BY DEF HandOver, Good, Shape, TypeInv, TypeOK
<1> DEFINE w == m.wid
           task == m.task
           x == task.id
<1>2. /\ w \in Wid /\ w \in WORKERS /\ task \in Task /\ x \in TaskId
      /\ busy[w] = None /\ RUNNING[x] = None /\ x # None /\ m # None
  BY <1>1, HandLemma, SupervisorAssumption DEF HandOver
<1>3. InHand(x) BY <1>1, <1>2 DEF InHand
<1>4. /\ \A v \in Wid : busy[v] # x /\ ~Executing(v, x)
      /\ ~InPending(x)
  BY <1>2, <1>3 DEF Good, Sound, PendingIsIdle, ListedOnce
<1>5. /\ busy' = [busy EXCEPT ![w] = x]
      /\ inq' = [inq EXCEPT ![w] = Append(@, task)]
      /\ RUNNING' = [RUNNING EXCEPT ![x] = m]
      /\ hand' = None
      /\ UNCHANGED <<PENDING, WORKERS, alive, cur, eventq>>
  BY <1>1 DEF HandOver
<1> HIDE DEF w, task, x
<1>6. /\ RUNNING'[x] = m
      /\ \A t \in TaskId : t # x => RUNNING'[t] = RUNNING[t]
      /\ busy'[w] = x
      /\ \A v \in Wid : v # w => busy'[v] = busy[v]
  BY <1>2, <1>5 DEF Good, Shape, TypeInv, TypeOK
<1>7. \A v \in Wid, t \in TaskId : Executing(v, t)' =>
        Executing(v, t) \/ (v = w /\ t = x)
  <2>1. inq[w] \in Seq(Task) BY <1>2 DEF Good, Shape, TypeInv, TypeOK
  <2>2. \A t : InDeque(t, Append(inq[w], task)) <=> InDeque(t, inq[w]) \/ t = x
    BY <1>2, <2>1, AppendLemma DEF x
  <2>3. /\ inq'[w] = Append(inq[w], task)
        /\ \A v \in Wid : v # w => inq'[v] = inq[v]
    BY <1>2, <1>5 DEF Good, Shape, TypeInv, TypeOK
  <2> QED BY <1>5, <2>2, <2>3 DEF Executing
<1>8. RecordsBusy'
  <2> SUFFICES ASSUME NEW t \in TaskId, RUNNING'[t] # None
               PROVE  /\ RUNNING'[t].wid \in WORKERS
                      /\ busy'[RUNNING'[t].wid] = t
                      /\ RUNNING'[t].task.id = t
    BY <1>5 DEF RecordsBusy, IsRunning
  <2>1. CASE t = x BY <1>2, <1>6, <2>1 DEF x, w, task
  <2>2. CASE t # x
    <3>1. RUNNING[t] # None /\ RUNNING'[t] = RUNNING[t] BY <1>6, <2>2
    <3>2. RUNNING[t].wid \in WORKERS /\ busy[RUNNING[t].wid] = t /\ RUNNING[t].task.id = t
      BY <3>1 DEF Good, Sound, RecordsBusy, IsRunning
    <3>3. RUNNING[t].wid # w BY <1>2, <3>2, SupervisorAssumption
    <3>4. RUNNING[t].wid \in Wid BY <3>2 DEF Good, Shape, TypeInv, TypeOK
    <3> QED BY <1>6, <3>1, <3>2, <3>3, <3>4
  <2> QED BY <2>1, <2>2
<1>9. \A t : InPending(t)' <=> InPending(t) BY <1>5 DEF InPending
<1>10. \A t : ~InHand(t)' BY <1>5 DEF InHand
<1>11. ListedOnce'
  BY <1>4, <1>5, <1>6, <1>9, <1>10 DEF Good, Sound, ListedOnce, IsRunning
<1>12. BusyOnce'
  BY <1>4, <1>6 DEF Good, Sound, BusyOnce
<1>13. PendingIsIdle'
  <2>1. ASSUME NEW t \in TaskId, InPending(t)', NEW v \in Wid
        PROVE  busy'[v] # t /\ ~Executing(v, t)'
    <3>1. InPending(t) /\ t # x BY <1>4, <1>9, <2>1
    <3>2. busy[v] # t /\ ~Executing(v, t) BY <3>1 DEF Good, Sound, PendingIsIdle
    <3> QED BY <1>6, <1>7, <3>1, <3>2
  <2> QED BY <1>5, <1>10, <2>1 DEF PendingIsIdle
<1>14. ExecutorIsAssignee'
  <2> SUFFICES ASSUME NEW t \in TaskId, NEW v \in Wid, Executing(v, t)',
                      RUNNING'[t] # None
               PROVE  RUNNING'[t].wid = v
    BY DEF ExecutorIsAssignee, IsRunning
  <2>1. CASE t = x BY <1>4, <1>6, <1>7, <2>1 DEF w
  <2>2. CASE t # x
    <3>1. Executing(v, t) /\ RUNNING'[t] = RUNNING[t] BY <1>6, <1>7, <2>2
    <3> QED BY <3>1 DEF Good, Sound, ExecutorIsAssignee, IsRunning
  <2> QED BY <2>1, <2>2
<1>15. ExecutedOnce'
  <2> SUFFICES ASSUME NEW t \in TaskId, NEW u \in Wid, NEW v \in Wid,
                      Executing(u, t)', Executing(v, t)'
               PROVE  u = v
    BY DEF ExecutedOnce
  <2>1. CASE t = x BY <1>4, <1>7, <2>1
  <2>2. CASE t # x BY <1>7, <2>2 DEF Good, Sound, ExecutedOnce
  <2> QED BY <2>1, <2>2
<1>16. ASSUME NEW t \in TaskId, Unknown(t) PROVE Unknown(t)'
  <2>1. t # x BY <1>3, <1>16 DEF Unknown, Tracked
  <2>2. ~InPending(t)' /\ RUNNING'[t] = None
    BY <1>6, <1>9, <1>16, <2>1 DEF Unknown, Tracked, IsRunning
  <2>3. \A v \in Wid : busy'[v] # t /\ ~Executing(v, t)'
    BY <1>6, <1>7, <1>16, <2>1 DEF Unknown
  <2> QED BY <1>10, <2>2, <2>3 DEF Unknown, Tracked, IsRunning
<1>17. ScheduledIsNew' BY <1>5, <1>16, EventsSame
<1> QED BY <1>8, <1>11, <1>12, <1>13, <1>14, <1>15, <1>17 DEF Good, Sound

LEMMA AssignInv ==
  ASSUME Good, Shape', Assign
  PROVE  Good'
<1>1. ASSUME NEW thread \in {"main", "resume"}, AssignBegin(thread) PROVE Good'
  <2>1. UNCHANGED hand BY <1>1 DEF AssignBegin, stepVars
  <2> QED BY <1>1, <2>1, ForgetNothing, SameQueue, ShrinkStep DEF AssignBegin
<1>2. ASSUME NEW w \in Wid, AssignWorker(w) PROVE Good'
  <2>1. /\ w \in WORKERS
        /\ UNCHANGED <<RUNNING, WORKERS, procVars>> /\ UNCHANGED eventq
    BY <1>2 DEF AssignWorker, Good, Shape, Frame, TodoUnderLock
  <2>2. CASE UNCHANGED <<PENDING, hand>>
    BY <2>1, <2>2, ForgetNothing, SameQueue, ShrinkStep
  <2>3. ASSUME busy[w] = None, NEW c \in Class, FirstSuitable(c),
               PENDING' = [PENDING EXCEPT ![c] = Tail(@)],
               hand' = [task |-> Head(PENDING[c]), wid |-> w, soft |-> FALSE]
        PROVE  Good'
    <3>1. PENDING[c] # <<>> BY <2>3 DEF FirstSuitable, Suitable
    <3> QED BY <2>1, <2>3, <3>1, PopInv
  <2>4. CASE PENDING' = DropEvolution(PENDING) /\ UNCHANGED hand
    <3>1. PENDING \in Queue /\ DistinctIds(PENDING)
      BY DEF Good, Shape, TypeInv, TypeOK, Queue, Sound, ListedOnce
    <3> QED BY <2>1, <2>4, <3>1, DropLemma, ForgetNothing, ShrinkStep
  <2> QED BY <1>2, <2>2, <2>3, <2>4 DEF AssignWorker
<1>3. CASE AssignEnd
  <2>1. UNCHANGED hand BY <1>3 DEF AssignEnd, stepVars
  <2> QED BY <1>3, <2>1, ForgetNothing, SameQueue, ShrinkStep DEF AssignEnd
<1> QED BY <1>1, <1>2, <1>3, HandOverInv DEF Assign

LEMMA HandleHand ==
  ASSUME \/ TaskDone \/ ScheduleTask \/ ReviewRequest \/ CancelTask \/ ToggleEvolution
  PROVE  UNCHANGED hand /\ eventq # <<>> /\ eventq' = Tail(eventq)
BY DEF TaskDone, ScheduleTask, ReviewRequest, CancelTask, ToggleEvolution,
       Dispatch, stepVars

LEMMA BootInv ==
  ASSUME Shape', Boot
  PROVE  Good'
<1>1. \A t : ~Holds(PENDING', t)
  BY DEF Boot, Holds, InDeque
<1>2. DistinctIds(PENDING')
  BY DEF Boot, DistinctIds
<1>3. /\ \A t \in TaskId : RUNNING'[t] = None
      /\ \A w \in Wid : busy'[w] = None
      /\ \A w \in Wid, t \in TaskId : ~Executing(w, t)'
  BY DEF Boot, Executing, InDeque
<1>4. ScheduledIsNew'
  <2>1. 1..Len(eventq') = {} BY DEF Boot
  <2> QED BY <2>1 DEF ScheduledIsNew
<1>5. hand' = None /\ \A t \in TaskId : ~InHand(t)' BY DEF Boot, InHand
<1>6. RecordsBusy' /\ ListedOnce' /\ PendingIsIdle'
  BY <1>1, <1>2, <1>3, <1>5
  DEF RecordsBusy, ListedOnce, PendingIsIdle, IsRunning, InPending
<1>7. BusyOnce' /\ ExecutorIsAssignee' /\ ExecutedOnce'
  BY <1>3 DEF BusyOnce, ExecutorIsAssignee, ExecutedOnce
<1> QED BY <1>4, <1>6, <1>7 DEF Good, Sound

LEMMA TaskDoneInv ==
  ASSUME Good, Shape', TaskDone
  PROVE  Good'
<1> DEFINE e == Head(eventq)
<1>1. RUNNING' = [RUNNING EXCEPT ![e.id] = None] /\ busy' = FreedBy(e)
  BY DEF TaskDone
<1> HIDE DEF e
<1>2. \A t \in TaskId : RUNNING'[t] # None => t # e.id /\ RUNNING'[t] = RUNNING[t]
  BY <1>1 DEF Good, Shape, TypeInv, TypeOK
<1>3. \A w \in Wid : busy'[w] = busy[w] \/ (busy'[w] = None /\ busy[w] = e.id)
  <2>1. CASE e.wid \in WORKERS /\ busy[e.wid] = e.id
    <3>1. busy' = [busy EXCEPT ![e.wid] = None] BY <1>1, <2>1 DEF FreedBy
    <3> QED BY <2>1, <3>1 DEF Good, Shape, TypeInv, TypeOK
  <2>2. CASE ~(e.wid \in WORKERS /\ busy[e.wid] = e.id)
    BY <1>1, <2>2 DEF FreedBy
  <2> QED BY <2>1, <2>2
<1>4. \A w \in Wid, t \in TaskId : Executing(w, t)' => Executing(w, t)
  BY DEF TaskDone, Executing
<1>5. Forgets
  <2>1. ASSUME NEW t \in TaskId, RUNNING'[t] # None
        PROVE  /\ RUNNING[t] # None /\ RUNNING'[t] = RUNNING[t]
               /\ RUNNING[t].wid \in WORKERS' /\ busy'[RUNNING[t].wid] = t
    <3>1. RUNNING'[t] = RUNNING[t] /\ RUNNING[t] # None /\ t # e.id BY <1>2, <2>1
    <3>2. RUNNING[t].wid \in WORKERS /\ busy[RUNNING[t].wid] = t
      BY <3>1 DEF Good, Sound, RecordsBusy, IsRunning
    <3>3. RUNNING[t].wid \in Wid BY <3>2 DEF Good, Shape, TypeInv, TypeOK
    <3>4. WORKERS' = WORKERS BY DEF TaskDone
    <3> QED BY <1>3, <3>1, <3>2, <3>3, <3>4
  <2> QED BY <1>3, <1>4, <2>1 DEF Forgets
<1>6. UNCHANGED PENDING BY DEF TaskDone
<1> QED BY <1>5, <1>6, HandleHand, SameQueue, ShrinkStep

LEMMA CancelInv ==
  ASSUME Good, Shape', CancelTask
  PROVE  Good'
<1> DEFINE x == Head(eventq).id
<1>1. PENDING \in Queue /\ DistinctIds(PENDING) /\ UNCHANGED WORKERS
  BY DEF Good, Shape, TypeInv, TypeOK, Queue, Sound, ListedOnce, CancelTask
<1>2. CASE CancelPending(x)
  <2>1. PICK c \in Class : /\ InDeque(x, PENDING[c])
                           /\ PENDING' = [PENDING EXCEPT ![c] = RemoveId(@, x)]
    BY <1>2 DEF CancelPending
  <2>2. /\ \A t : Holds(PENDING', t) => Holds(PENDING, t)
        /\ DistinctIds(PENDING')
    BY <1>1, <2>1, RemoveLemma
  <2>3. Forgets BY <1>1, <1>2, ForgetNothing DEF CancelPending
  <2> QED BY <2>2, <2>3, HandleHand, ShrinkStep
<1>3. CASE CancelRunning(x)
  <2>1. PICK w \in WORKERS : busy[w] = x /\ Respawn(w)
    BY <1>3 DEF CancelRunning
  <2>2. RUNNING' = [RUNNING EXCEPT ![x] = None] /\ UNCHANGED PENDING
    BY <1>3 DEF CancelRunning
  <2> HIDE DEF x
  <2>3. \A t \in TaskId : RUNNING'[t] # None => RUNNING'[t] = RUNNING[t]
    BY <2>2 DEF Good, Shape, TypeInv, TypeOK
  <2>4. \A t \in TaskId : busy[w] = t => RUNNING'[t] = None
    BY <2>1, <2>2 DEF Good, Shape, TypeInv, TypeOK
  <2>5. w \in Wid BY DEF Good, Shape, TypeInv, TypeOK
  <2>6. Forgets BY <1>1, <2>1, <2>3, <2>4, <2>5, RespawnForgets
  <2> QED BY <2>2, <2>6, HandleHand, SameQueue, ShrinkStep
<1>4. CASE CancelUnknown(x)
  <2>1. Forgets BY <1>1, <1>4, ForgetNothing DEF CancelUnknown
  <2> QED BY <1>4, <2>1, HandleHand, SameQueue, ShrinkStep DEF CancelUnknown
<1> QED BY <1>2, <1>3, <1>4 DEF CancelTask

\* The event names a task unknown to everybody.
LEMMA ScheduleInv ==
  ASSUME Good, Shape', ScheduleTask
  PROVE  Good'
<1> DEFINE x == Head(eventq).id
<1>1. /\ eventq \in Seq(Event) /\ eventq # <<>> /\ eventq' = Tail(eventq)
      /\ Head(eventq).kind = "schedule_task"
  BY HandleHand DEF Good, Shape, TypeInv, TypeOK, ScheduleTask, Dispatch
<1>2. Head(eventq) = eventq[1] /\ 1 \in 1..Len(eventq)
  BY <1>1, TailLemma
<1>3. x \in TaskId /\ Unknown(x)
  BY <1>1, <1>2 DEF Good, Shape, TypeInv, Sound, ScheduledIsNew, EventsNameTasks
<1>4. UNCHANGED <<RUNNING, WORKERS, procVars>> BY DEF ScheduleTask
<1>5. Forgets BY <1>4, ForgetNothing
<1>6. CASE PENDING' = PENDING
  BY <1>1, <1>5, <1>6, HandleHand, SameQueue, ShrinkStep
<1>7. CASE PENDING' = EnqueueBack(PENDING, NewTask(x, "task"))
  <2>1. NewTask(x, "task") \in Task /\ NewTask(x, "task").id = x
    BY <1>3, NewTaskType DEF Type
  <2> DEFINE task == NewTask(x, "task")
  <2>3. PICK y \in TaskId : y = x /\ Unknown(y) BY <1>3
  <2>4. Idling(y)' /\ ~InPending(y) /\ ~InHand(y) BY <1>4, <2>3, UnknownIdles
  <2>5. PICK new \in Task : new = task BY <2>1
  <2>6. Idling(new.id)'
    <3>1. new.id = y BY <2>1, <2>3, <2>5
    <3> QED BY <2>4, <3>1
  <2> HIDE DEF task
  <2>7. PENDING' = EnqueueBack(PENDING, new) /\ ~InPending(new.id)
        /\ ~InHand(new.id) /\ Head(eventq).id = new.id
    BY <1>7, <2>1, <2>3, <2>4, <2>5 DEF task
  <2> QED BY <1>1, <1>5, <2>6, <2>7, HandleHand, GrowStep
<1> QED BY <1>6, <1>7 DEF ScheduleTask

\* What toggle_evolution writes back is what the queue has become meanwhile.
LEMMA ToggleInv ==
  ASSUME Good, Shape', ToggleWrite, ~Overwritten'
  PROVE  Good'
<1>1. PENDING' = DropEvolution(PENDING)
  BY DEF ToggleWrite, Overwritten
<1>2. PENDING \in Queue /\ DistinctIds(PENDING)
  BY DEF Good, Shape, TypeInv, TypeOK, Queue, Sound, ListedOnce
<1>3. /\ \A t : Holds(PENDING', t) => Holds(PENDING, t)
      /\ DistinctIds(PENDING')
  BY <1>1, <1>2, DropLemma
<1>4. UNCHANGED <<RUNNING, WORKERS, procVars>> /\ UNCHANGED <<hand, eventq>>
  BY DEF ToggleWrite
<1> QED BY <1>3, <1>4, ForgetNothing, ShrinkStep

LEMMA HandleInv ==
  ASSUME Good, Shape', Handle, ~Overwritten'
  PROVE  Good'
<1>1. CASE ReviewRequest
  <2>1. UNCHANGED <<RUNNING, WORKERS, procVars>> /\ UNCHANGED PENDING
    BY <1>1 DEF ReviewRequest
  <2> QED BY <1>1, <2>1, HandleHand, ForgetNothing, SameQueue, ShrinkStep
<1>2. CASE ToggleEvolution
  <2>1. UNCHANGED <<RUNNING, WORKERS, procVars>> /\ UNCHANGED PENDING
    BY <1>2 DEF ToggleEvolution
  <2> QED BY <1>2, <2>1, HandleHand, ForgetNothing, SameQueue, ShrinkStep
<1>3. CASE EnqueuePlanned
  <2>1. UNCHANGED <<RUNNING, WORKERS, procVars>> /\ UNCHANGED <<eventq, hand>>
    BY <1>3 DEF EnqueuePlanned
  <2>2. plan \in Type
    BY <1>3 DEF EnqueuePlanned, Good, Shape, TypeInv, TypeOK, Frame, StepInPhase
  <2>3. PICK t \in TaskId : Fresh(t) /\ PENDING' = EnqueueBack(PENDING, NewTask(t, plan))
    BY <1>3 DEF EnqueuePlanned
  <2> QED BY <2>1, <2>2, <2>3, FreshStep
<1>4. CASE Dispatch("restart_request") /\
           UNCHANGED <<PENDING, RUNNING, WORKERS, procVars, phase, todo, lock,
                       resume, pass, st, crashes, stepVars>>
  <2>1. UNCHANGED hand /\ eventq # <<>> /\ eventq' = Tail(eventq)
    BY <1>4 DEF Dispatch, stepVars
  <2> QED BY <1>4, <2>1, ForgetNothing, SameQueue, ShrinkStep
<1> QED BY <1>1, <1>2, <1>3, <1>4, TaskDoneInv, CancelInv, ScheduleInv, BootInv,
    ToggleInv DEF Handle, RestartRequest

LEMMA HealthInv ==
  ASSUME Good, Shape', \/ Health \/ BeginHealth \/ EndDrain
  PROVE  Good'
<1>1. ASSUME NEW w \in Wid, HealthAlive(w) PROVE Good'
  <2>1. UNCHANGED hand BY <1>1 DEF HealthAlive, stepVars
  <2> QED BY <1>1, <2>1, ForgetNothing, SameQueue, ShrinkStep DEF HealthAlive
<1>2. ASSUME NEW w \in Wid, HealthDead(w) PROVE Good'
  <2>1. UNCHANGED hand /\ UNCHANGED <<WORKERS, eventq>> /\ Respawn(w) /\ ~alive[w]
    BY <1>2 DEF HealthDead, stepVars
  <2>2. CASE busy[w] # None /\ IsRunning(busy[w])
    <3>1. PICK x \in TaskId : x = busy[w] /\ RUNNING[x] # None
      BY <2>2 DEF Good, Shape, TypeInv, TypeOK, IsRunning
    <3>2. PICK task \in Task : task = RUNNING[x].task /\ task.id = x
      BY <3>1 DEF Good, Shape, TypeInv, TypeOK, Meta, Sound, RecordsBusy, IsRunning
    <3>3. /\ PENDING' = EnqueueFront(PENDING, task)
          /\ RUNNING' = [RUNNING EXCEPT ![x] = None]
      BY <1>2, <2>2, <3>1, <3>2 DEF HealthDead, Requeue
    <3>4. /\ RUNNING'[x] = None
          /\ \A t \in TaskId : RUNNING'[t] # None => RUNNING'[t] = RUNNING[t]
      BY <3>3 DEF Good, Shape, TypeInv, TypeOK
    <3>5. Forgets /\ busy'[w] # x /\ ~Executing(w, x)'
      BY <2>1, <3>1, <3>4, RespawnForgets
    <3>6. RUNNING[x].wid = w
      <4>1. RUNNING[x].wid \in WORKERS /\ busy[RUNNING[x].wid] = x
        BY <3>1 DEF Good, Sound, RecordsBusy, IsRunning
      <4>2. RUNNING[x].wid \in Wid /\ x # None
        BY <4>1, SupervisorAssumption DEF Good, Shape, TypeInv, TypeOK
      <4> QED BY <3>1, <4>1, <4>2 DEF Good, Sound, BusyOnce
    <3>7. ASSUME NEW v \in Wid, v # w PROVE busy'[v] # x /\ ~Executing(v, x)'
      <4>1. busy[v] # x /\ x # None
        BY <3>1, <3>7, SupervisorAssumption DEF Good, Sound, BusyOnce
      <4>2. ~Executing(v, x)
        BY <3>1, <3>6, <3>7 DEF Good, Sound, ExecutorIsAssignee, IsRunning
      <4> QED BY <4>1, <4>2, <3>5, <3>7 DEF Forgets
    <3>8. Idling(x)' BY <3>4, <3>5, <3>7 DEF Idling
    <3>9. ~InPending(x) /\ ~InHand(x) /\ ~Unknown(x)
      BY <3>1 DEF Good, Sound, ListedOnce, PendingIsIdle, Unknown, Tracked, IsRunning
    <3>10. /\ ~InPending(task.id) /\ ~InHand(task.id) /\ ~Unknown(task.id)
           /\ Idling(task.id)'
      BY <3>2, <3>8, <3>9
    <3> QED BY <2>1, <3>3, <3>5, <3>10, GrowStep
  <2>3. CASE ~(busy[w] # None /\ IsRunning(busy[w]))
    <3>1. UNCHANGED <<PENDING, RUNNING>> BY <1>2, <2>3 DEF HealthDead, Requeue
    <3>2. \A t \in TaskId : busy[w] = t => RUNNING'[t] = None
      BY <2>3, <3>1, SupervisorAssumption DEF IsRunning
    <3>3. Forgets BY <2>1, <3>1, <3>2, RespawnForgets
    <3> QED BY <2>1, <3>1, <3>3, SameQueue, ShrinkStep
  <2> QED BY <2>2, <2>3
<1>3. CASE HealthEnd
  <2>1. UNCHANGED <<PENDING, eventq, hand>> BY <1>3 DEF HealthEnd, stepVars
  <2>2. CASE KillWorkers
    <3>1. Forgets BY <2>2 DEF KillWorkers, Forgets, Executing
    <3> QED BY <2>1, <3>1, SameQueue, ShrinkStep
  <2>3. CASE UNCHANGED <<RUNNING, WORKERS, procVars>>
    BY <2>1, <2>3, ForgetNothing, SameQueue, ShrinkStep
  <2> QED BY <1>3, <2>2, <2>3 DEF HealthEnd
<1>4. CASE BeginHealth
  <2>1. UNCHANGED hand BY <1>4 DEF BeginHealth, stepVars
  <2> QED BY <1>4, <2>1, ForgetNothing, SameQueue, ShrinkStep DEF BeginHealth
<1>5. CASE EndDrain
  <2>1. UNCHANGED hand BY <1>5 DEF EndDrain, stepVars
  <2> QED BY <1>5, <2>1, ForgetNothing, SameQueue, ShrinkStep DEF EndDrain
<1> QED BY <1>1, <1>2, <1>3, <1>4, <1>5 DEF Health

LEMMA HardTimeoutInv ==
  ASSUME Good, Shape', NEW t \in TaskId, HardTimeout(t)
  PROVE  Good'
<1>1. PICK m \in Meta : m = RUNNING[t] /\ m # None
  BY DEF HardTimeout, IsRunning, Good, Shape, TypeInv, TypeOK
<1>2. m.wid \in WORKERS /\ m.wid \in Wid /\ busy[m.wid] = t
  BY <1>1 DEF Good, Shape, TypeInv, TypeOK, Sound, RecordsBusy, IsRunning
<1>3. /\ RUNNING' = [RUNNING EXCEPT ![t] = None] /\ Respawn(m.wid)
      /\ UNCHANGED <<WORKERS, eventq>>
  BY <1>1, <1>2 DEF HardTimeout
<1>4. UNCHANGED hand BY DEF HardTimeout, stepVars
<1>5. \A u \in TaskId : RUNNING'[u] # None => RUNNING'[u] = RUNNING[u]
  BY <1>3 DEF Good, Shape, TypeInv, TypeOK
<1>6. \A u \in TaskId : busy[m.wid] = u => RUNNING'[u] = None
  BY <1>2, <1>3 DEF Good, Shape, TypeInv, TypeOK
<1>7. Forgets BY <1>2, <1>3, <1>5, <1>6, RespawnForgets
<1>8. CASE Retried(m.task)
  <2>1. PICK r \in TaskId : /\ Fresh(r)
                            /\ PENDING' = EnqueueFront(PENDING,
                                 [m.task EXCEPT !.id = r, !.attempt = @ + 1])
    BY <1>1, <1>8 DEF HardTimeout
  <2>2. m.task \in Task BY DEF Meta
  <2>3. PICK again \in Task :
          again = [m.task EXCEPT !.id = r, !.attempt = @ + 1] /\ again.id = r
    BY <1>8, <2>2, RetryType
  <2>4. Unknown(r) /\ ~InDeque(r, eventq) BY <2>1, FreshUnknown
  <2>5. Idling(r)'
    BY <1>5, <1>7, <2>4, SupervisorAssumption
    DEF Idling, Unknown, Tracked, IsRunning, Forgets
  <2>6. ~InPending(r) /\ ~InHand(r) BY <2>4 DEF Unknown, Tracked
  <2>7. Idling(again.id)' BY <2>3, <2>5
  <2> QED BY <1>3, <1>4, <1>7, <2>1, <2>3, <2>4, <2>6, <2>7, GrowStep
<1>9. CASE ~Retried(m.task)
  <2>1. UNCHANGED PENDING BY <1>1, <1>9 DEF HardTimeout
  <2> QED BY <1>3, <1>4, <1>7, <2>1, SameQueue, ShrinkStep
<1> QED BY <1>8, <1>9

LEMMA PeriodicInv ==
  ASSUME Good, Shape', \/ Periodic \/ BudgetLow
  PROVE  Good'
<1>1. ASSUME NEW t \in TaskId, SoftTimeout(t) PROVE Good'
  <2>1. UNCHANGED <<PENDING, eventq, WORKERS, procVars>> /\ UNCHANGED hand
    BY <1>1 DEF SoftTimeout, stepVars
  <2>2. RUNNING[t] \in Meta BY <1>1 DEF SoftTimeout, IsRunning, Good, Shape, TypeInv, TypeOK
  <2>3. \A u \in TaskId :
          /\ RUNNING'[u] # None => RUNNING[u] # None
          /\ RUNNING[u] # None => /\ RUNNING'[u].wid = RUNNING[u].wid
                                  /\ RUNNING'[u].task = RUNNING[u].task
    BY <1>1, <2>2 DEF SoftTimeout, IsRunning, Good, Shape, TypeInv, TypeOK, Meta
  <2>4. Forgets
    BY <2>1, <2>3 DEF Forgets, Good, Sound, RecordsBusy, IsRunning, Executing, procVars
  <2> QED BY <2>1, <2>4, SameQueue, ShrinkStep
<1>2. CASE EnqueueEvolution
  <2>1. /\ UNCHANGED <<RUNNING, WORKERS, procVars>>
        /\ UNCHANGED <<PENDING, eventq, hand>>
    BY <1>2 DEF EnqueueEvolution
  <2> QED BY <2>1, ForgetNothing, SameQueue, ShrinkStep
<1>3. CASE EnqueueHealthCheck
  <2>1. /\ UNCHANGED <<RUNNING, WORKERS, procVars>>
        /\ UNCHANGED <<PENDING, eventq, hand>>
    BY <1>3 DEF EnqueueHealthCheck
  <2> QED BY <2>1, ForgetNothing, SameQueue, ShrinkStep
<1>4. CASE EndJobs
  <2>1. UNCHANGED hand BY <1>4 DEF EndJobs, stepVars
  <2> QED BY <1>4, <2>1, ForgetNothing, SameQueue, ShrinkStep DEF EndJobs
<1>5. CASE BudgetLow
  <2>1. UNCHANGED hand BY <1>5 DEF BudgetLow, stepVars
  <2> QED BY <1>5, <2>1, ForgetNothing, SameQueue, ShrinkStep DEF BudgetLow
<1> QED BY <1>1, <1>2, <1>3, <1>4, <1>5, HardTimeoutInv DEF Periodic

LEMMA InitInv == Init => Good
<1> HAVE Init
<1>1. Shape BY InitShape
<1>2. \A t : ~Holds(PENDING, t)
  BY DEF Init, Holds, InDeque
<1>3. DistinctIds(PENDING)
  BY DEF Init, DistinctIds
<1>4. /\ \A t \in TaskId : RUNNING[t] = None
      /\ \A w \in Wid : busy[w] = None
      /\ \A w \in Wid, t \in TaskId : ~Executing(w, t)
      /\ hand = None /\ \A t \in TaskId : ~InHand(t)
  BY DEF Init, Executing, InDeque, InHand
<1>5. ScheduledIsNew
  <2>1. 1..Len(eventq) = {} BY DEF Init
  <2> QED BY <2>1 DEF ScheduledIsNew
<1>6. RecordsBusy /\ ListedOnce /\ PendingIsIdle
  BY <1>2, <1>3, <1>4
  DEF RecordsBusy, ListedOnce, PendingIsIdle, IsRunning, InPending
<1>7. BusyOnce /\ ExecutorIsAssignee /\ ExecutedOnce
  BY <1>4 DEF BusyOnce, ExecutorIsAssignee, ExecutedOnce
<1> QED BY <1>1, <1>5, <1>6, <1>7 DEF Good, Sound

\* The history is forgotten by a restart only, which starts from sound books.
LEMMA RacedGrows ==
  ASSUME [Next]_vars
  PROVE  raced \subseteq raced' \/ Boot
<1> USE DEF stepVars
<1>1. ASSUME NEW w \in Wid, Worker(w) PROVE UNCHANGED raced
  BY <1>1 DEF Worker, Take, Emit, Finish, Raise, Crash
<1>2. ASSUME Assign PROVE UNCHANGED raced
  BY <1>2 DEF Assign, AssignBegin, AssignWorker, HandOver, AssignEnd
<1>3. ASSUME Handle PROVE raced \subseteq raced' \/ Boot
  <2>1. CASE TaskDone \/ ScheduleTask \/ EnqueuePlanned \/ CancelTask \/ ToggleEvolution
    BY <2>1 DEF TaskDone, ScheduleTask, EnqueuePlanned, CancelTask, ToggleEvolution
  <2>2. CASE ReviewRequest BY <2>2 DEF ReviewRequest, Planned, RacedBy
  <2>3. CASE ToggleWrite BY <2>3 DEF ToggleWrite
  <2>4. CASE RestartRequest BY <2>4 DEF RestartRequest
  <2> QED BY <1>3, <2>1, <2>2, <2>3, <2>4 DEF Handle
<1>4. ASSUME Health \/ BeginHealth \/ EndDrain PROVE UNCHANGED raced
  BY <1>4 DEF Health, HealthAlive, HealthDead, HealthEnd, BeginHealth, EndDrain
<1>5. ASSUME Periodic \/ BudgetLow PROVE raced \subseteq raced'
  BY <1>5 DEF Periodic, SoftTimeout, HardTimeout, EnqueueEvolution, EnqueueHealthCheck,
              EndJobs, BudgetLow, Planned, RacedBy
<1>6. ASSUME NEW t \in TaskId, Message(t) \/ ResumeEnqueue(t) \/ EndPoll
      PROVE  UNCHANGED raced
  BY <1>6 DEF Message, ResumeEnqueue, EndPoll
<1>7. ASSUME EndPoll PROVE UNCHANGED raced BY <1>7 DEF EndPoll
<1>8. CASE UNCHANGED vars BY <1>8 DEF vars
<1> QED BY <1>1, <1>2, <1>3, <1>4, <1>5, <1>6, <1>7, <1>8 DEF Next

LEMMA IInvParts == IInv <=> Shape /\ (Overwritten \/ Sound)
BY DEF IInv, Shape, TypeInv, Frame

LEMMA NextInv ==
  ASSUME IInv, [Next]_vars
  PROVE  IInv'
<1>1. Shape /\ (Overwritten \/ Sound) BY IInvParts
<1>2. Shape' BY <1>1, NextShape
<1>3. ASSUME ~Overwritten' PROVE Sound'
  <2>1. CASE Boot BY <1>2, <2>1, BootInv DEF Good
  <2>2. CASE ~Overwritten
    <3>1. Good BY <1>1, <2>2 DEF Good
    <3>2. CASE Next
      <4>1. ASSUME Handle PROVE Good' BY <1>2, <1>3, <3>1, <4>1, HandleInv
      <4>2. ASSUME ~Handle PROVE Good'
        <5>1. ASSUME \/ \E t \in TaskId : Message(t) \/ ResumeEnqueue(t)
                     \/ EndPoll
              PROVE  Good'
          BY <1>2, <3>1, <5>1, MessageInv
        <5>2. ASSUME Assign PROVE Good' BY <1>2, <3>1, <5>2, AssignInv
        <5>3. ASSUME Health \/ BeginHealth \/ EndDrain PROVE Good'
          BY <1>2, <3>1, <5>3, HealthInv
        <5>4. ASSUME Periodic \/ BudgetLow PROVE Good' BY <1>2, <3>1, <5>4, PeriodicInv
        <5>5. ASSUME NEW w \in Wid, Worker(w) PROVE Good' BY <1>2, <3>1, <5>5, WorkerInv
        <5> QED BY <3>2, <4>2, <5>1, <5>2, <5>3, <5>4, <5>5 DEF Next
      <4> QED BY <4>1, <4>2 DEF Good
    <3>3. CASE UNCHANGED vars
      <4>1. UNCHANGED <<RUNNING, WORKERS, procVars>> /\ UNCHANGED <<hand, eventq, PENDING>>
        BY <3>3 DEF vars, procVars
      <4>2. Good' BY <1>2, <3>1, <4>1, ForgetNothing, SameQueue, ShrinkStep
      <4> QED BY <4>2 DEF Good
    <3> QED BY <3>2, <3>3
  <2> QED BY <1>3, <2>1, <2>2, RacedGrows DEF Overwritten
<1>4. Shape' /\ (Overwritten' \/ Sound') BY <1>2, <1>3
<1>5. IInv' <=> Shape' /\ (Overwritten' \/ Sound')
  BY DEF IInv, Shape, TypeInv, Frame
<1> QED BY <1>4, <1>5

-----------------------------------------------------------------------------
(* The theorems.                                                           *)

\* The invariant, whatever the workers, ids, retries, thresholds and bounds, and
\* whatever the auto-resume thread does between two steps of the main loop.
THEOREM Invariance == Spec => []IInv
<1>1. Init => IInv BY InitInv, IInvParts DEF Good
<1>2. IInv /\ [Next]_vars => IInv' BY NextInv
<1> QED BY <1>1, <1>2, PTL DEF Spec

\* No task is run by two processes, or queued while a process runs it: crashes,
\* timeouts, cancels and late task_done events included; a toggle that undoes a
\* step of the other thread is the only way to it.
THEOREM SingleExecution == Spec => []OneExecutor
<1>1. IInv => OneExecutor
  BY DEF IInv, Sound, OneExecutor, PendingIsIdle, ExecutedOnce
<1> QED BY <1>1, Invariance, PTL

\* RUNNING, the busy marks and WORKERS agree.
THEOREM BooksAgree == Spec => []RunningIsBusy
<1>1. IInv => RunningIsBusy BY DEF IInv, Sound, RunningIsBusy
<1> QED BY <1>1, Invariance, PTL

\* No id is twice in the queue, or queued and handed out, unless a toggle has
\* undone a step of the other thread.
THEOREM NoDuplicates == Spec => []QueuedOnce
<1>1. IInv => QueuedOnce BY DEF IInv, Sound, QueuedOnce
<1> QED BY <1>1, Invariance, PTL

-----------------------------------------------------------------------------
(* A cancel.                                                               *)

\* Nothing but the handler of the cancel takes it out of the queue.
LEMMA OnlyCancel ==
  ASSUME TypeInv, Next, Says("cancel_task"), eventq' = Tail(eventq)
  PROVE  CancelTask
<1>1. eventq' # eventq
  <2>1. eventq \in Seq(Event) /\ eventq # <<>>
    BY DEF TypeInv, TypeOK, Says
  <2>2. Len(eventq') = Len(eventq) - 1 /\ Len(eventq) \in Nat
    BY <2>1, TailLemma
  <2> QED BY <2>2
<1>2. \A e \in Event : eventq' # Append(eventq, e)
  <2>1. eventq \in Seq(Event) /\ eventq # <<>>
    BY DEF TypeInv, TypeOK, Says
  <2>2. Len(eventq') = Len(eventq) - 1 /\ Len(eventq) \in Nat
    BY <2>1, TailLemma
  <2>3. \A e \in Event : Len(Append(eventq, e)) = Len(eventq) + 1
    BY <2>1, AppendLemma
  <2> QED BY <2>2, <2>3
<1>3. ASSUME NEW w \in Wid PROVE ~Worker(w)
  <2>1. ~Take(w) /\ ~Raise(w) /\ ~Crash(w)
    BY <1>1 DEF Take, Raise, Crash
  <2>2. \A k \in Requests, t \in TaskId \cup {None}, f \in BOOLEAN : ~Emit(w, k, t, f)
    <3>1. SUFFICES ASSUME NEW k \in Requests, NEW t \in TaskId \cup {None},
                          NEW f \in BOOLEAN, Emit(w, k, t, f)
                   PROVE  FALSE
      OBVIOUS
    <3>2. [kind |-> k, id |-> t, wid |-> w, type |-> cur[w].type, flag |-> f] \in Event
      BY <3>1, SupervisorAssumption DEF Emit, TypeInv, TypeOK, Event, Task
    <3> QED BY <1>2, <3>1, <3>2 DEF Emit
  <2>3. \A f \in BOOLEAN : ~Finish(w, f)
    <3>1. SUFFICES ASSUME NEW f \in BOOLEAN, Finish(w, f) PROVE FALSE
      OBVIOUS
    <3>2. [kind |-> "task_done", id |-> cur[w].id, wid |-> w,
           type |-> cur[w].type, flag |-> f] \in Event
      BY <3>1 DEF Finish, TypeInv, TypeOK, Event, Task
    <3> QED BY <1>2, <3>1, <3>2 DEF Finish
  <2> QED BY <2>1, <2>2, <2>3 DEF Worker
<1>4. Handle => CancelTask
  BY <1>1 DEF Handle, Says, Dispatch, TaskDone, ScheduleTask, ReviewRequest,
              EnqueuePlanned, ToggleEvolution, ToggleWrite, RestartRequest
<1>5. /\ \A t \in TaskId : ~Message(t) /\ ~ResumeEnqueue(t)
      /\ ~EndPoll /\ ~BeginHealth /\ ~EndDrain /\ ~BudgetLow
  BY <1>1 DEF Message, ResumeEnqueue, EndPoll, BeginHealth, EndDrain, BudgetLow
<1>6. ~Assign
  BY <1>1 DEF Assign, AssignBegin, AssignWorker, HandOver, AssignEnd
<1>7. ~Health
  <2>1. \A w \in Wid : ~HealthAlive(w) /\ ~HealthDead(w)
    BY <1>1 DEF HealthAlive, HealthDead
  <2> QED BY <1>1, <2>1 DEF Health, HealthEnd
<1>8. ~Periodic
  <2>1. \A t \in TaskId : ~SoftTimeout(t) /\ ~HardTimeout(t)
    BY DEF SoftTimeout, HardTimeout, Says
  <2> QED BY <2>1 DEF Periodic, EnqueueEvolution, EnqueueHealthCheck, EndJobs, Says
<1> QED BY <1>3, <1>4, <1>5, <1>6, <1>7, <1>8 DEF Next

\* A queued task leaves the queue, and nobody executed it; a running one was
\* executed by the worker that is replaced, and by no other.
LEMMA CancelEnds ==
  ASSUME Good, CancelTask, NEW t \in TaskId, Head(eventq).id = t, Tracked(t)
  PROVE  ~Tracked(t)' /\ \A w \in Wid : ~Executing(w, t)'
<1>1. /\ PENDING \in Queue /\ DistinctIds(PENDING)
      /\ RUNNING \in [TaskId -> Meta \cup {None}] /\ WORKERS \subseteq Wid
  BY DEF Good, Shape, TypeInv, TypeOK, Queue, Sound, ListedOnce
<1>5. hand = None /\ hand' = None
  BY DEF CancelTask, Good, Shape, Frame, TodoUnderLock, HandUnderLock, stepVars
<1>2. CASE CancelPending(t)
  <2>1. PICK c \in Class : /\ InDeque(t, PENDING[c])
                           /\ PENDING' = [PENDING EXCEPT ![c] = RemoveId(@, t)]
    BY <1>2 DEF CancelPending
  <2>2. ~Holds(PENDING', t) BY <1>1, <2>1, RemoveLemma
  <2>3. InPending(t) /\ UNCHANGED <<RUNNING, procVars>>
    BY <1>2 DEF CancelPending
  <2>4. ~IsRunning(t) BY <2>3 DEF Good, Sound, ListedOnce
  <2>5. \A w \in Wid : ~Executing(w, t) BY <2>3 DEF Good, Sound, PendingIsIdle
  <2> QED BY <1>5, <2>2, <2>3, <2>4, <2>5
      DEF Tracked, InHand, InPending, IsRunning, Executing, procVars
<1>3. CASE CancelRunning(t)
  <2>1. PICK w \in Wid : w \in WORKERS /\ busy[w] = t /\ Respawn(w)
    BY <1>1, <1>3 DEF CancelRunning
  <2>2. /\ ~InPending(t) /\ UNCHANGED PENDING
        /\ RUNNING' = [RUNNING EXCEPT ![t] = None]
    BY <1>3 DEF CancelRunning
  <2>3. IsRunning(t) BY <1>5, <2>2 DEF Tracked, InHand
  <2>4. RUNNING[t].wid = w
    <3>1. RUNNING[t].wid \in Wid /\ busy[RUNNING[t].wid] = t
      BY <1>1, <2>3 DEF Good, Sound, RecordsBusy
    <3> QED BY <2>1, <3>1, SupervisorAssumption DEF Good, Sound, BusyOnce
  <2>5. \A v \in Wid : v # w => ~Executing(v, t)
    BY <2>3, <2>4 DEF Good, Sound, ExecutorIsAssignee
  <2>6. \A v \in Wid : ~Executing(v, t)'
    <3>1. ASSUME NEW v \in Wid, v # w PROVE ~Executing(v, t)'
      BY <2>1, <2>5, <3>1 DEF Executing, Respawn, Good, Shape, TypeInv, TypeOK
    <3>2. ~Executing(w, t)'
      <4>1. inq'[w] = <<>> /\ cur'[w] = None
        BY <2>1 DEF Respawn, Good, Shape, TypeInv, TypeOK
      <4> QED BY <4>1 DEF Executing, InDeque
    <3> QED BY <3>1, <3>2
  <2>7. ~IsRunning(t)' /\ ~InPending(t)'
    BY <1>1, <2>2 DEF IsRunning, InPending
  <2> QED BY <1>5, <2>6, <2>7 DEF Tracked, InHand
<1>4. CASE CancelUnknown(t)
  <2>1. IsRunning(t) BY <1>4, <1>5 DEF CancelUnknown, Tracked, InHand
  <2>2. RUNNING[t].wid \in WORKERS /\ busy[RUNNING[t].wid] = t
    BY <2>1 DEF Good, Sound, RecordsBusy
  <2> QED BY <1>4, <2>2 DEF CancelUnknown
<1> QED BY <1>2, <1>3, <1>4 DEF CancelTask

\* A cancel that finds its task ends it: nothing queues or runs it afterwards,
\* unless a toggle had put a copy of it back.
THEOREM CancelIsFinal == Spec => CancelEndsTask
<1> DEFINE Ends(t) ==
      /\ Says("cancel_task") /\ Head(eventq).id = t /\ eventq' = Tail(eventq)
      /\ Tracked(t) /\ ~Overwritten
      => ~Tracked(t)' /\ \A w \in Wid : ~Executing(w, t)'
<1>1. IInv /\ [Next]_vars => [\A t \in TaskId : Ends(t)]_vars
  <2>1. SUFFICES ASSUME IInv, Next, NEW t \in TaskId,
                        Says("cancel_task"), Head(eventq).id = t,
                        eventq' = Tail(eventq), Tracked(t), ~Overwritten
                 PROVE  ~Tracked(t)' /\ \A w \in Wid : ~Executing(w, t)'
    OBVIOUS
  <2>2. CancelTask BY <2>1, OnlyCancel DEF IInv, TypeInv
  <2>3. Good BY <2>1, IInvParts DEF Good
  <2> QED BY <2>1, <2>2, <2>3, CancelEnds
<1> QED BY <1>1, Invariance, PTL DEF Spec, CancelEndsTask

-----------------------------------------------------------------------------
(* What a task may be lost to, whatever a toggle has undone before.  Beyond    *)
(* the types it takes only that RUNNING has a task under its own id: a dead   *)
(* worker's task goes back under that id.                                  *)

LEMMA PopKeeps ==
  ASSUME NEW q \in Queue, NEW k \in Class, q[k] # <<>>, NEW t, Holds(q, t)
  PROVE  t = Head(q[k]).id \/ Holds([q EXCEPT ![k] = Tail(@)], t)
<1> DEFINE r == [q EXCEPT ![k] = Tail(@)]
<1>1. PICK c \in Class : InDeque(t, q[c]) BY DEF Holds
<1>2. PICK i \in 1..Len(q[c]) : q[c][i].id = t BY <1>1 DEF InDeque
<1>3. q[k] \in Seq(Task) /\ q[c] \in Seq(Task) BY DEF Queue
<1>4. r[k] = Tail(q[k]) /\ (c # k => r[c] = q[c]) BY DEF Queue
<1> HIDE DEF r
<1>5. CASE c # k BY <1>1, <1>4, <1>5 DEF Holds, r
<1>6. CASE c = k /\ i = 1 BY <1>2, <1>3, <1>6
<1>7. CASE c = k /\ i # 1
  <2>1. i - 1 \in 1..Len(Tail(q[k])) /\ Tail(q[k])[i - 1] = q[k][i]
    BY <1>3, <1>7
  <2>2. InDeque(t, r[k]) BY <1>2, <1>4, <1>7, <2>1 DEF InDeque
  <2> QED BY <2>2 DEF Holds, r
<1> QED BY <1>5, <1>6, <1>7

LEMMA RemoveKeeps ==
  ASSUME NEW q \in Queue, NEW k \in Class, NEW t, InDeque(t, q[k]),
         NEW u, u # t, Holds(q, u)
  PROVE  Holds([q EXCEPT ![k] = RemoveId(@, t)], u)
<1> DEFINE r == [q EXCEPT ![k] = RemoveId(@, t)]
           n == Len(q[k])
           keep(i) == IF \E j \in 1..i : q[k][j].id = t THEN i + 1 ELSE i
<1>1. n \in Nat BY DEF Queue
<1>2. PICK c \in Class : InDeque(u, q[c]) BY DEF Holds
<1>3. r[k] = RemoveId(q[k], t) /\ (c # k => r[c] = q[c]) BY DEF Queue
<1>4. r[k] = [i \in 1..(n - 1) |-> q[k][keep(i)]] BY <1>3 DEF RemoveId
<1> HIDE DEF r
<1>5. CASE c # k BY <1>2, <1>3, <1>5 DEF Holds, r
<1>6. CASE c = k
  <2>1. PICK a \in 1..n : q[k][a].id = u BY <1>2, <1>6 DEF InDeque
  <2>2. PICK p \in 1..n : q[k][p].id = t BY DEF InDeque
  <2>3. \E i \in 1..(n - 1) : keep(i) = a
    <3>1. CASE \E j \in 1..(a - 1) : q[k][j].id = t
      <4>1. a - 1 \in 1..(n - 1) BY <1>1, <2>1, <3>1
      <4>2. keep(a - 1) = (a - 1) + 1 BY <3>1
      <4>3. (a - 1) + 1 = a BY <1>1, <2>1
      <4>4. keep(a - 1) = a BY <4>2, <4>3
      <4> HIDE DEF keep
      <4> QED BY <4>1, <4>4
    <3>2. CASE ~ \E j \in 1..(a - 1) : q[k][j].id = t
      <4>1. ~ \E j \in 1..a : q[k][j].id = t
        BY <2>1, <3>2
      <4>2. a \in 1..(n - 1)
        <5>1. ~(p \in 1..a) BY <2>2, <4>1
        <5> QED BY <1>1, <2>1, <2>2, <5>1
      <4>3. keep(a) = a BY <4>1
      <4> QED BY <4>2, <4>3
    <3> QED BY <3>1, <3>2
  <2> HIDE DEF keep
  <2>4. PICK i \in 1..(n - 1) : keep(i) = a BY <2>3
  <2>5. r[k][i].id = u BY <1>4, <2>1, <2>4
  <2>6. Len(r[k]) = n - 1 BY <1>1, <1>4, <2>1
  <2> QED BY <2>4, <2>5, <2>6 DEF Holds, InDeque, r
<1> QED BY <1>5, <1>6

LEMMA DropKeeps ==
  ASSUME NEW q \in Queue, NEW t, Holds(q, t)
  PROVE  InDeque(t, q[Priority("evolution")]) \/ Holds(DropEvolution(q), t)
<1>1. PICK c \in Class : InDeque(t, q[c]) BY DEF Holds
<1>2. c # Priority("evolution") => DropEvolution(q)[c] = q[c]
  BY DEF DropEvolution, Queue
<1> QED BY <1>1, <1>2 DEF Holds

Accounted == \A t \in TaskId : Tracked(t) /\ ~Tracked(t)' => Excused(t)

\* A step that only adds to the queue loses nothing.
LEMMA AddingKeeps ==
  ASSUME TypeInv, UNCHANGED <<RUNNING, hand>>,
         \/ UNCHANGED PENDING
         \/ \E task \in Task : PENDING' = EnqueueBack(PENDING, task)
  PROVE  Accounted
<1>1. \A t \in TaskId : Holds(PENDING, t) => Holds(PENDING', t)
  BY QueueType, EnqueueBackLemma
<1> QED BY <1>1 DEF Accounted, Tracked, InHand, InPending, IsRunning

LEMMA AssignKeeps ==
  ASSUME TypeInv, NEW w \in Wid, AssignWorker(w)
  PROVE  Accounted
<1>1. PENDING \in Queue /\ UNCHANGED RUNNING
  BY QueueType DEF AssignWorker
<1>2. CASE UNCHANGED <<PENDING, hand>>
  BY <1>1, <1>2, AddingKeeps
<1>3. ASSUME hand = None, NEW c \in Class, FirstSuitable(c),
             PENDING' = [PENDING EXCEPT ![c] = Tail(@)],
             hand' = [task |-> Head(PENDING[c]), wid |-> w, soft |-> FALSE]
      PROVE  Accounted
  <2>1. PENDING[c] # <<>> BY <1>3 DEF FirstSuitable, Suitable
  <2>2. PICK task \in Task : task = Head(PENDING[c])
    BY <1>1, <2>1, PopLemma
  <2>3. \A t \in TaskId : Holds(PENDING, t) => t = task.id \/ Holds(PENDING', t)
    BY <1>1, <1>3, <2>1, <2>2, PopKeeps
  <2>4. hand' = [task |-> task, wid |-> w, soft |-> FALSE] BY <1>3, <2>2
  <2>5. hand' \in Meta BY <2>4 DEF Meta
  <2>6. hand' # None /\ hand'.task.id = task.id BY <2>4, <2>5, NoneAssumption
  <2> QED BY <1>1, <1>3, <2>3, <2>6 DEF Accounted, Tracked, InHand, InPending, IsRunning
<1>4. CASE PENDING' = DropEvolution(PENDING) /\ UNCHANGED hand
  BY <1>1, <1>4, DropKeeps
  DEF Accounted, Excused, Tracked, InHand, InPending, IsRunning
<1> QED BY <1>2, <1>3, <1>4 DEF AssignWorker

LEMMA HandOverKeeps ==
  ASSUME TypeInv, HandOver
  PROVE  Accounted
<1>1. PICK m \in Meta : m = hand /\ m # None BY DEF HandOver, TypeInv, TypeOK
<1>2. m.task.id \in TaskId BY DEF Meta, Task
<1>3. RUNNING' = [RUNNING EXCEPT ![m.task.id] = m] /\ UNCHANGED PENDING
  BY <1>1 DEF HandOver
<1>4. \A t \in TaskId : RUNNING'[t] = IF t = m.task.id THEN m ELSE RUNNING[t]
  BY <1>2, <1>3 DEF TypeInv, TypeOK
<1> QED BY <1>1, <1>3, <1>4 DEF Accounted, Tracked, InHand, InPending, IsRunning

LEMMA HandleKeeps ==
  ASSUME TypeInv, StepInPhase, Handle
  PROVE  Accounted
<1> DEFINE x == Head(eventq).id
<1>1. PENDING \in Queue /\ RUNNING \in [TaskId -> Meta \cup {None}]
  BY QueueType DEF TypeInv, TypeOK
<1>2. CASE TaskDone
  <2>1. /\ Says("task_done") /\ UNCHANGED <<PENDING, hand>>
        /\ RUNNING' = [RUNNING EXCEPT ![x] = None]
    BY <1>2 DEF TaskDone, Dispatch, Says, stepVars
  <2> HIDE DEF x
  <2>2. \A t \in TaskId : t # x => RUNNING'[t] = RUNNING[t]
    BY <1>1, <2>1
  <2> QED BY <2>1, <2>2 DEF Accounted, Excused, Tracked, InHand, InPending, IsRunning, x
<1>3. CASE ScheduleTask
  <2>1. x \in TaskId BY <1>3, DispatchLemma DEF ScheduleTask
  <2>2. NewTask(x, "task") \in Task BY <2>1, NewTaskType DEF Type
  <2> QED BY <1>3, <2>2, AddingKeeps DEF ScheduleTask, stepVars
<1>4. CASE ReviewRequest BY <1>4, AddingKeeps DEF ReviewRequest
<1>8. CASE EnqueuePlanned
  <2>1. plan \in Type BY <1>8 DEF EnqueuePlanned, StepInPhase, TypeInv, TypeOK
  <2>2. \A t \in TaskId : NewTask(t, plan) \in Task BY <2>1, NewTaskType
  <2> QED BY <1>8, <2>2, AddingKeeps DEF EnqueuePlanned
<1>5. CASE CancelTask
  <2>1. Says("cancel_task") /\ UNCHANGED hand
    BY <1>5 DEF CancelTask, Dispatch, Says, stepVars
  <2>2. CASE CancelPending(x)
    <3>1. PICK c \in Class : /\ InDeque(x, PENDING[c])
                             /\ PENDING' = [PENDING EXCEPT ![c] = RemoveId(@, x)]
      BY <2>2 DEF CancelPending
    <3>2. UNCHANGED RUNNING BY <2>2 DEF CancelPending
    <3> HIDE DEF x
    <3>3. \A t \in TaskId : t # x /\ Holds(PENDING, t) => Holds(PENDING', t)
      BY <1>1, <3>1, RemoveKeeps
    <3> QED BY <2>1, <3>2, <3>3 DEF Accounted, Excused, Tracked, InHand, InPending, IsRunning, x
  <2>3. CASE CancelRunning(x)
    <3>1. UNCHANGED PENDING /\ RUNNING' = [RUNNING EXCEPT ![x] = None]
      BY <2>3 DEF CancelRunning
    <3> HIDE DEF x
    <3>2. \A t \in TaskId : t # x => RUNNING'[t] = RUNNING[t]
      BY <1>1, <3>1
    <3> QED BY <2>1, <3>1, <3>2 DEF Accounted, Excused, Tracked, InHand, InPending, IsRunning, x
  <2>4. CASE CancelUnknown(x)
    BY <2>1, <2>4, AddingKeeps DEF CancelUnknown
  <2> QED BY <1>5, <2>2, <2>3, <2>4 DEF CancelTask
<1>6. CASE ToggleEvolution BY <1>6, AddingKeeps DEF ToggleEvolution
<1>9. CASE ToggleWrite
  <2>1. UNCHANGED <<RUNNING, hand>> /\ PENDING' = kept /\ phase = "toggle"
    BY <1>9 DEF ToggleWrite
  <2>2. CASE kept = DropEvolution(PENDING)
    <3>1. \A t \in TaskId : Holds(PENDING, t) =>
            Holds(PENDING', t) \/ InDeque(t, PENDING[Priority("evolution")])
      BY <1>1, <2>1, <2>2, DropKeeps
    <3> QED BY <2>1, <3>1 DEF Accounted, Excused, Tracked, InHand, InPending, IsRunning
  <2>3. CASE kept # DropEvolution(PENDING)
    BY <2>1, <2>3 DEF Accounted, Excused, Tracked, InHand, InPending, IsRunning
  <2> QED BY <2>2, <2>3
<1>7. CASE RestartRequest
  <2>1. Says("restart_request") BY <1>7 DEF RestartRequest, Dispatch, Says
  <2> QED BY <2>1 DEF Accounted, Excused
<1> QED BY <1>2, <1>3, <1>4, <1>5, <1>6, <1>7, <1>8, <1>9 DEF Handle

LEMMA HealthKeeps ==
  ASSUME Shape, Health
  PROVE  Accounted
<1> USE DEF stepVars
<1>1. TypeInv BY DEF Shape
<1>2. PENDING \in Queue /\ RUNNING \in [TaskId -> Meta \cup {None}]
  BY <1>1, QueueType DEF TypeInv, TypeOK
<1>3. ASSUME NEW w \in Wid, HealthAlive(w) PROVE Accounted
  BY <1>1, <1>3, AddingKeeps DEF HealthAlive
<1>4. ASSUME NEW w \in Wid, HealthDead(w) PROVE Accounted
  <2>1. CASE busy[w] # None /\ IsRunning(busy[w])
    <3>1. PICK x \in TaskId : x = busy[w] /\ RUNNING[x] # None
      BY <2>1 DEF Shape, TypeInv, TypeOK, IsRunning
    <3>2. PICK task \in Task : task = RUNNING[x].task /\ task.id = x
      BY <3>1 DEF Shape, TypeInv, TypeOK, Meta, Frame, OwnRecords, IsRunning
    <3>3. /\ PENDING' = EnqueueFront(PENDING, task)
          /\ RUNNING' = [RUNNING EXCEPT ![x] = None]
      BY <1>4, <2>1, <3>1, <3>2 DEF HealthDead, Requeue
    <3>4. \A t : Holds(PENDING', t) <=> Holds(PENDING, t) \/ t = x
      BY <1>2, <3>2, <3>3, EnqueueFrontLemma
    <3>5. UNCHANGED hand /\ \A t \in TaskId : t # x => RUNNING'[t] = RUNNING[t]
      BY <1>2, <1>4, <3>3 DEF HealthDead
    <3> QED BY <3>4, <3>5 DEF Accounted, Tracked, InHand, InPending, IsRunning
  <2>2. CASE ~(busy[w] # None /\ IsRunning(busy[w]))
    <3>1. UNCHANGED <<PENDING, RUNNING, hand>> BY <1>4, <2>2 DEF HealthDead, Requeue
    <3> QED BY <1>1, <3>1, AddingKeeps
  <2> QED BY <2>1, <2>2
<1>5. CASE HealthEnd
  <2>1. CASE Storm BY <1>5, <2>1 DEF HealthEnd, Accounted, Excused
  <2>2. CASE ~Storm BY <1>1, <1>5, <2>2, AddingKeeps DEF HealthEnd
  <2> QED BY <2>1, <2>2
<1> QED BY <1>3, <1>4, <1>5 DEF Health

\* A hard timeout gives up a task whose retries are used up; else the task it
\* queues again was unknown before.
LEMMA TimeoutKeeps ==
  ASSUME TypeInv, NEW t \in TaskId, HardTimeout(t)
  PROVE  Accounted
<1>1. PENDING \in Queue /\ RUNNING \in [TaskId -> Meta \cup {None}]
  BY QueueType DEF TypeInv, TypeOK
<1>2. PICK m \in Meta : m = RUNNING[t] /\ m # None
  BY <1>1 DEF HardTimeout, IsRunning
<1>3. /\ phase = "jobs" /\ IsRunning(t) /\ UNCHANGED hand
      /\ RUNNING' = [RUNNING EXCEPT ![t] = None]
  BY DEF HardTimeout, stepVars
<1>4. \A u \in TaskId : u # t => RUNNING'[u] = RUNNING[u]
  BY <1>1, <1>3
<1>5. m.task \in Task BY DEF Meta
<1>6. CASE Retried(m.task)
  <2>1. PICK r \in TaskId : /\ Fresh(r)
                            /\ PENDING' = EnqueueFront(PENDING,
                                 [m.task EXCEPT !.id = r, !.attempt = @ + 1])
    BY <1>2, <1>6 DEF HardTimeout
  <2>2. PICK again \in Task :
          again = [m.task EXCEPT !.id = r, !.attempt = @ + 1] /\ again.id = r
    BY <1>5, <1>6, RetryType
  <2>3. \A u : Holds(PENDING', u) <=> Holds(PENDING, u) \/ u = r
    <3>1. PENDING' = EnqueueFront(PENDING, again) BY <2>1, <2>2
    <3>2. again.id = r BY <2>2
    <3> QED BY <1>1, <3>1, <3>2, EnqueueFrontLemma
  <2>4. ~Tracked(r) BY <2>1 DEF Fresh
  <2>5. Tracked(r)' BY <2>3 DEF Tracked, InPending
  <2>6. Excused(t) BY <1>3, <2>4, <2>5 DEF Excused
  <2> QED BY <1>3, <1>4, <2>3, <2>6 DEF Accounted, Tracked, InHand, InPending, IsRunning
<1>7. CASE ~Retried(m.task)
  <2>1. UNCHANGED PENDING BY <1>2, <1>7 DEF HardTimeout
  <2>2. m.task.attempt > MaxRetries
    BY <1>5, <1>7, SupervisorAssumption DEF Retried, Task
  <2>3. Excused(t) BY <1>2, <1>3, <2>2 DEF Excused
  <2> QED BY <1>3, <1>4, <2>1, <2>3 DEF Accounted, Tracked, InHand, InPending, IsRunning
<1> QED BY <1>6, <1>7

LEMMA PeriodicKeeps ==
  ASSUME TypeInv, Periodic
  PROVE  Accounted
<1> USE DEF stepVars
<1>1. ASSUME NEW t \in TaskId, SoftTimeout(t) PROVE Accounted
  <2>1. RUNNING \in [TaskId -> Meta \cup {None}] BY DEF TypeInv, TypeOK
  <2>2. PICK m \in Meta : m = RUNNING[t]
    BY <1>1, <2>1 DEF SoftTimeout, IsRunning
  <2>3. UNCHANGED <<PENDING, hand>> /\ RUNNING' = [RUNNING EXCEPT ![t] = [m EXCEPT !.soft = TRUE]]
    BY <1>1, <2>2 DEF SoftTimeout
  <2>4. [m EXCEPT !.soft = TRUE] \in Meta BY DEF Meta
  <2>5. \A u \in TaskId : RUNNING[u] # None => RUNNING'[u] # None
    BY <2>1, <2>3, <2>4, NoneAssumption
  <2> QED BY <2>3, <2>5 DEF Accounted, Tracked, InHand, InPending, IsRunning
<1>2. CASE EnqueueEvolution BY <1>2, AddingKeeps DEF EnqueueEvolution
<1>3. CASE EnqueueHealthCheck BY <1>3, AddingKeeps DEF EnqueueHealthCheck
<1>4. CASE EndJobs BY <1>4, AddingKeeps DEF EndJobs
<1> QED BY <1>1, <1>2, <1>3, <1>4, TimeoutKeeps DEF Periodic

LEMMA NextKeeps ==
  ASSUME Shape, Next
  PROVE  Accounted
<1> USE DEF stepVars
<1>1. TypeInv /\ StepInPhase BY DEF Shape, Frame
<1>2. \A t \in TaskId : NewTask(t, "task") \in Task BY NewTaskType DEF Type
<1>3. ASSUME NEW t \in TaskId, Message(t) \/ ResumeEnqueue(t) PROVE Accounted
  BY <1>1, <1>2, <1>3, AddingKeeps DEF Message, ResumeEnqueue
<1>4. CASE EndPoll \/ BeginHealth \/ EndDrain \/ BudgetLow
  BY <1>1, <1>4, AddingKeeps DEF EndPoll, BeginHealth, EndDrain, BudgetLow
<1>5. CASE Assign
  <2>1. ASSUME NEW thread \in {"main", "resume"}, AssignBegin(thread) PROVE Accounted
    BY <1>1, <2>1, AddingKeeps DEF AssignBegin
  <2>2. CASE AssignEnd BY <1>1, <2>2, AddingKeeps DEF AssignEnd
  <2> QED BY <1>1, <1>5, <2>1, <2>2, AssignKeeps, HandOverKeeps DEF Assign
<1>6. ASSUME NEW w \in Wid, Worker(w) PROVE Accounted
  <2>1. UNCHANGED <<PENDING, RUNNING, hand>>
    BY <1>6 DEF Worker, Take, Emit, Finish, Raise, Crash
  <2> QED BY <1>1, <2>1, AddingKeeps
<1> QED BY <1>1, <1>3, <1>4, <1>5, <1>6, HandleKeeps, HealthKeeps, PeriodicKeeps
    DEF Next

\* No task leaves the supervisor's books unreported: crashes, timeouts, cancels
\* and late events included, and also after a toggle has undone something.
THEOREM NothingLost == Spec => NoSilentLoss
<1>1. Init => Shape BY InitShape
<1>2. Shape /\ [Next]_vars => Shape' BY NextShape
<1>3. Shape /\ [Next]_vars
        => [\A t \in TaskId : Tracked(t) /\ ~Tracked(t)' => Excused(t)]_vars
  BY NextKeeps DEF Accounted
<1> QED BY <1>1, <1>2, <1>3, PTL DEF Spec, NoSilentLoss

-----------------------------------------------------------------------------
(* Guarded kinds of task.  The type of a task follows it from the queue to the *)
(* hand of assign_tasks, to RUNNING and back.  A guard's answer stays true     *)
(* until its enqueue: meanwhile the other thread adds no task of that kind.    *)

AloneOfItsKind ==
  \A type \in GuardedType : \A s, t \in TaskId :
    OfKind(type, s) /\ OfKind(type, t) => s = t

\* What a guard has let pass is not there yet.
PlanIsNew ==
  plan # None => plan \in GuardedType /\ \A t \in TaskId : ~OfKind(plan, t)

Alone == AloneOfItsKind /\ PlanIsNew

\* It holds until a guard looks while the task it looks for is in hand.
Kinds == raced = {} => Alone

LEMMA BackWaits ==
  ASSUME NEW q \in Queue, NEW task \in Task, NEW type, NEW t,
         Waits(EnqueueBack(q, task), type, t)
  PROVE  Waits(q, type, t) \/ (t = task.id /\ type = task.type)
<1> DEFINE k == Priority(task.type)
           r == EnqueueBack(q, task)
           n == Len(q[k])
<1>1. k \in Class BY PriorityClass DEF Task
<1>2. q[k] \in Seq(Task) /\ n \in Nat BY <1>1 DEF Queue
<1>3. r[k] = Append(q[k], task) /\ \A c \in Class : c # k => r[c] = q[c]
  BY <1>1 DEF EnqueueBack, Queue
<1> HIDE DEF k, r
<1>4. PICK c \in Class : \E i \in 1..Len(r[c]) : r[c][i].id = t /\ r[c][i].type = type
  BY DEF Waits, r
<1>5. PICK i \in 1..Len(r[c]) : r[c][i].id = t /\ r[c][i].type = type
  BY <1>4
<1>6. CASE c # k BY <1>3, <1>5, <1>6 DEF Waits
<1>7. CASE c = k
  <2>1. i \in 1..(n + 1) /\ r[k] = Append(q[k], task)
    BY <1>2, <1>3, <1>5, <1>7
  <2>2. CASE i = n + 1
    <3>1. r[k][i] = task BY <1>2, <2>1, <2>2
    <3> QED BY <1>5, <1>7, <3>1
  <2>3. CASE i # n + 1
    <3>1. i \in 1..n /\ r[k][i] = q[k][i] BY <1>2, <2>1, <2>3
    <3> QED BY <1>1, <1>5, <1>7, <3>1 DEF Waits
  <2> QED BY <2>2, <2>3
<1> QED BY <1>6, <1>7

LEMMA FrontWaits ==
  ASSUME NEW q \in Queue, NEW task \in Task, NEW type, NEW t,
         Waits(EnqueueFront(q, task), type, t)
  PROVE  Waits(q, type, t) \/ (t = task.id /\ type = task.type)
<1> DEFINE k == Priority(task.type)
           r == EnqueueFront(q, task)
           n == Len(q[k])
<1>1. k \in Class BY PriorityClass DEF Task
<1>2. q[k] \in Seq(Task) /\ n \in Nat BY <1>1 DEF Queue
<1>3. r[k] = <<task>> \o q[k] /\ \A c \in Class : c # k => r[c] = q[c]
  BY <1>1 DEF EnqueueFront, Queue
<1> HIDE DEF k, r
<1>4. PICK c \in Class : \E i \in 1..Len(r[c]) : r[c][i].id = t /\ r[c][i].type = type
  BY DEF Waits, r
<1>5. PICK i \in 1..Len(r[c]) : r[c][i].id = t /\ r[c][i].type = type
  BY <1>4
<1>6. CASE c # k BY <1>3, <1>5, <1>6 DEF Waits
<1>7. CASE c = k
  <2>1. i \in 1..(n + 1) /\ r[k] = <<task>> \o q[k]
    BY <1>2, <1>3, <1>5, <1>7
  <2>2. CASE i = 1
    <3>1. r[k][i] = task BY <1>2, <2>1, <2>2
    <3> QED BY <1>5, <1>7, <3>1
  <2>3. CASE i # 1
    <3>1. i - 1 \in 1..n /\ r[k][i] = q[k][i - 1] BY <1>2, <2>1, <2>3
    <3> QED BY <1>1, <1>5, <1>7, <3>1 DEF Waits
  <2> QED BY <2>2, <2>3
<1> QED BY <1>6, <1>7

LEMMA PopWaits ==
  ASSUME NEW q \in Queue, NEW k \in Class, q[k] # <<>>
  PROVE  /\ Waits(q, Head(q[k]).type, Head(q[k]).id)
         /\ \A type, t : Waits([q EXCEPT ![k] = Tail(@)], type, t)
              => Waits(q, type, t)
<1> DEFINE r == [q EXCEPT ![k] = Tail(@)]
<1>1. q[k] \in Seq(Task) BY DEF Queue
<1>2. r[k] = Tail(q[k]) /\ \A c \in Class : c # k => r[c] = q[c]
  BY DEF Queue
<1>3. Waits(q, Head(q[k]).type, Head(q[k]).id)
  <2>1. 1 \in 1..Len(q[k]) /\ Head(q[k]) = q[k][1] BY <1>1
  <2> QED BY <2>1 DEF Waits
<1> HIDE DEF r
<1>4. ASSUME NEW type, NEW t, Waits(r, type, t) PROVE Waits(q, type, t)
  <2>1. PICK c \in Class : \E i \in 1..Len(r[c]) : r[c][i].id = t /\ r[c][i].type = type
    BY <1>4 DEF Waits
  <2>2. PICK i \in 1..Len(r[c]) : r[c][i].id = t /\ r[c][i].type = type
    BY <2>1
  <2>3. CASE c # k BY <1>2, <2>2, <2>3 DEF Waits
  <2>4. CASE c = k
    <3>1. i \in 1..Len(Tail(q[k])) BY <1>2, <2>2, <2>4
    <3>2. i + 1 \in 1..Len(q[k]) /\ Tail(q[k])[i] = q[k][i + 1]
      BY <1>1, <3>1, TailLemma
    <3> QED BY <1>2, <2>2, <2>4, <3>2 DEF Waits
  <2> QED BY <2>3, <2>4
<1> QED BY <1>3, <1>4 DEF r

LEMMA RemoveWaits ==
  ASSUME NEW q \in Queue, NEW k \in Class, NEW x, InDeque(x, q[k]),
         NEW type, NEW t, Waits([q EXCEPT ![k] = RemoveId(@, x)], type, t)
  PROVE  Waits(q, type, t)
<1> DEFINE r == [q EXCEPT ![k] = RemoveId(@, x)]
           n == Len(q[k])
           keep(i) == IF \E j \in 1..i : q[k][j].id = x THEN i + 1 ELSE i
<1>1. n \in Nat \ {0} BY DEF Queue, InDeque
<1>2. r[k] = RemoveId(q[k], x) /\ \A c \in Class : c # k => r[c] = q[c]
  BY DEF Queue
<1>3. r[k] = [i \in 1..(n - 1) |-> q[k][keep(i)]] BY <1>2 DEF RemoveId
<1>4. \A i \in 1..(n - 1) : keep(i) \in 1..n BY <1>1
<1> HIDE DEF r, keep
<1>5. PICK c \in Class : \E i \in 1..Len(r[c]) : r[c][i].id = t /\ r[c][i].type = type
  BY DEF Waits, r
<1>6. PICK i \in 1..Len(r[c]) : r[c][i].id = t /\ r[c][i].type = type
  BY <1>5
<1>7. CASE c # k BY <1>2, <1>6, <1>7 DEF Waits
<1>8. CASE c = k
  <2>1. Len(r[k]) = n - 1 BY <1>1, <1>3
  <2>2. i \in 1..(n - 1) BY <1>6, <1>8, <2>1
  <2>3. keep(i) \in 1..n /\ r[k][i] = q[k][keep(i)] BY <1>3, <1>4, <2>2
  <2> QED BY <1>6, <1>8, <2>3 DEF Waits
<1> QED BY <1>7, <1>8

LEMMA DropWaits ==
  ASSUME NEW q \in Queue, NEW type, NEW t, Waits(DropEvolution(q), type, t)
  PROVE  Waits(q, type, t)
<1> DEFINE k == Priority("evolution")
           r == DropEvolution(q)
<1>1. /\ r[k] = <<>>
      /\ \A c \in Class : c # k => r[c] = q[c]
  BY DEF DropEvolution, Queue, Priority, Class
<1> HIDE DEF k, r
<1>2. \A c \in Class : c # k \/ 1..Len(r[c]) = {} BY <1>1
<1> QED BY <1>1, <1>2 DEF Waits, r

\* A step after which no task is of a guarded kind that was not before.
LEMMA FewerOfKind ==
  ASSUME Alone, plan' \in {plan, None},
         \A type \in GuardedType, t \in TaskId : OfKind(type, t)' => OfKind(type, t)
  PROVE  Alone'
BY DEF Alone, AloneOfItsKind, PlanIsNew

LEMMA SameKinds ==
  ASSUME Alone, UNCHANGED <<PENDING, RUNNING, hand, plan>>
  PROVE  Alone'
<1>1. \A type \in GuardedType, t \in TaskId : OfKind(type, t)' => OfKind(type, t)
  BY DEF OfKind, IsRunning, InHand, Waits
<1> QED BY <1>1, FewerOfKind

\* Forgetting what runs, and removing from the queue.
LEMMA ShrinkingKinds ==
  ASSUME Alone, UNCHANGED <<hand, plan>>,
         \A t \in TaskId : RUNNING'[t] \in {RUNNING[t], None},
         \A type, t : Waits(PENDING', type, t) => Waits(PENDING, type, t)
  PROVE  Alone'
<1>1. \A type \in GuardedType, t \in TaskId : OfKind(type, t)' => OfKind(type, t)
  BY DEF OfKind, IsRunning, InHand
<1> QED BY <1>1, FewerOfKind

\* A plain enqueue of a kind that is not guarded, or that is absent.
LEMMA EnqueueKinds ==
  ASSUME TypeInv, Alone, UNCHANGED <<RUNNING, hand>>, NEW task \in Task,
         PENDING' = EnqueueBack(PENDING, task),
         \/ task.type = "task" /\ UNCHANGED plan
         \/ plan' = None /\ \A t \in TaskId : ~OfKind(task.type, t)
  PROVE  Alone'
<1>1. PENDING \in Queue BY QueueType
<1>2. \A type \in GuardedType, t \in TaskId : OfKind(type, t)'
        => OfKind(type, t) \/ (t = task.id /\ type = task.type)
  BY <1>1, BackWaits DEF OfKind, IsRunning, InHand
<1>3. task.type = "task" => task.type \notin GuardedType BY DEF GuardedType
<1>4. AloneOfItsKind' BY <1>2, <1>3 DEF Alone, AloneOfItsKind
<1>5. PlanIsNew' BY <1>2, <1>3 DEF Alone, PlanIsNew
<1> QED BY <1>4, <1>5 DEF Alone

\* The guards look at every place such a task can be in but one; when it is
\* there, that is a race.
LEMMA NoTypeNoKind ==
  ASSUME NEW type, ~HasType(type), RacedBy(type) = {}
  PROVE  \A t \in TaskId : ~OfKind(type, t)
BY DEF HasType, QueuedType, OfKind, Waits, RacedBy, InHand

LEMMA IdleNoKind ==
  ASSUME Idle, NEW type, RacedBy(type) = {}
  PROVE  \A t \in TaskId : ~OfKind(type, t)
<1>1. \A c \in Class : 1..Len(PENDING[c]) = {} BY DEF Idle, PendingEmpty
<1> QED BY <1>1 DEF Idle, NothingRunning, OfKind, Waits, RacedBy, InHand

\* A guard lets a task pass.
LEMMA PlannedKinds ==
  ASSUME Alone, NEW type \in GuardedType, Planned(type),
         UNCHANGED <<PENDING, RUNNING, hand>>,
         \A t \in TaskId : ~OfKind(type, t)
  PROVE  Alone'
<1>1. \A k, t : OfKind(k, t)' <=> OfKind(k, t)
  BY DEF OfKind, IsRunning, InHand, Waits
<1>2. plan' = type BY DEF Planned
<1> QED BY <1>1, <1>2 DEF Alone, AloneOfItsKind, PlanIsNew

LEMMA AssignKinds ==
  ASSUME TypeInv, Alone, NEW w \in Wid, AssignWorker(w)
  PROVE  Alone'
<1>1. PENDING \in Queue /\ UNCHANGED <<RUNNING, plan>>
  BY QueueType DEF AssignWorker
<1>2. CASE UNCHANGED <<PENDING, hand>>
  BY <1>1, <1>2, SameKinds
<1>3. ASSUME hand = None, NEW c \in Class, FirstSuitable(c),
             PENDING' = [PENDING EXCEPT ![c] = Tail(@)],
             hand' = [task |-> Head(PENDING[c]), wid |-> w, soft |-> FALSE]
      PROVE  Alone'
  <2>1. PENDING[c] # <<>> BY <1>3 DEF FirstSuitable, Suitable
  <2>2. PICK task \in Task : task = Head(PENDING[c])
    BY <1>1, <2>1, PopLemma
  <2>3. Waits(PENDING, task.type, task.id) BY <1>1, <2>1, <2>2, PopWaits
  <2>4. \A type, t : Waits(PENDING', type, t) => Waits(PENDING, type, t)
    BY <1>1, <1>3, <2>1, PopWaits
  <2>5. hand'.task = task BY <1>3, <2>2
  <2>6. \A type \in GuardedType, t \in TaskId : OfKind(type, t)' => OfKind(type, t)
    BY <1>1, <2>3, <2>4, <2>5 DEF OfKind, IsRunning, InHand
  <2> QED BY <1>1, <2>6, FewerOfKind
<1>4. CASE PENDING' = DropEvolution(PENDING) /\ UNCHANGED hand
  BY <1>1, <1>4, DropWaits, ShrinkingKinds
<1> QED BY <1>2, <1>3, <1>4 DEF AssignWorker

LEMMA HandOverKinds ==
  ASSUME TypeInv, Alone, HandOver
  PROVE  Alone'
<1>1. PICK m \in Meta : m = hand /\ m # None BY DEF HandOver, TypeInv, TypeOK
<1>2. m.task.id \in TaskId BY DEF Meta, Task
<1>3. /\ RUNNING' = [RUNNING EXCEPT ![m.task.id] = m] /\ hand' = None
      /\ UNCHANGED <<PENDING, plan>>
  BY <1>1 DEF HandOver
<1>4. \A t \in TaskId : RUNNING'[t] = IF t = m.task.id THEN m ELSE RUNNING[t]
  BY <1>2, <1>3 DEF TypeInv, TypeOK
<1>5. \A type \in GuardedType, t \in TaskId : OfKind(type, t)' => OfKind(type, t)
  BY <1>1, <1>3, <1>4 DEF OfKind, IsRunning, InHand, Waits
<1> QED BY <1>3, <1>5, FewerOfKind

LEMMA HandleKinds ==
  ASSUME TypeInv, StepInPhase, Alone, Handle, raced' = {}, ~Boot
  PROVE  Alone'
<1> DEFINE x == Head(eventq).id
<1>1. PENDING \in Queue /\ RUNNING \in [TaskId -> Meta \cup {None}]
  BY QueueType DEF TypeInv, TypeOK
<1>2. CASE TaskDone
  <2>1. UNCHANGED <<PENDING, hand, plan>> /\ RUNNING' = [RUNNING EXCEPT ![x] = None]
    BY <1>2 DEF TaskDone, stepVars
  <2> HIDE DEF x
  <2>2. \A t \in TaskId : RUNNING'[t] \in {RUNNING[t], None}
    BY <1>1, <2>1
  <2> QED BY <2>1, <2>2, ShrinkingKinds
<1>3. CASE ScheduleTask
  <2>1. x \in TaskId BY <1>3, DispatchLemma DEF ScheduleTask
  <2>2. NewTask(x, "task") \in Task BY <2>1, NewTaskType DEF Type
  <2>3. NewTask(x, "task").type = "task" BY DEF NewTask
  <2>4. UNCHANGED <<RUNNING, hand, plan>> /\
        PENDING' \in {PENDING, EnqueueBack(PENDING, NewTask(x, "task"))}
    BY <1>3 DEF ScheduleTask, stepVars
  <2> HIDE DEF x
  <2> QED BY <2>2, <2>3, <2>4, EnqueueKinds, SameKinds
<1>4. CASE ReviewRequest
  <2>1. UNCHANGED <<PENDING, RUNNING, hand>> BY <1>4 DEF ReviewRequest
  <2>2. CASE UNCHANGED plan BY <2>1, <2>2, SameKinds
  <2>3. ASSUME ~HasType("review"), Planned("review") PROVE Alone'
    <3>1. RacedBy("review") = {} BY <2>3 DEF Planned
    <3>2. \A t \in TaskId : ~OfKind("review", t) BY <2>3, <3>1, NoTypeNoKind
    <3>3. "review" \in GuardedType BY DEF GuardedType
    <3> QED BY <2>1, <2>3, <3>2, <3>3, PlannedKinds
  <2> QED BY <1>4, <2>2, <2>3 DEF ReviewRequest
<1>5. CASE EnqueuePlanned
  <2>1. plan \in Type /\ plan # None
    BY <1>5 DEF EnqueuePlanned, StepInPhase, TypeInv, TypeOK
  <2>2. \A t \in TaskId : ~OfKind(plan, t) BY <2>1 DEF Alone, PlanIsNew
  <2>3. PICK t \in TaskId : PENDING' = EnqueueBack(PENDING, NewTask(t, plan))
    BY <1>5 DEF EnqueuePlanned
  <2>4. NewTask(t, plan) \in Task BY <2>1, NewTaskType
  <2>5. NewTask(t, plan).type = plan BY DEF NewTask
  <2>6. UNCHANGED <<RUNNING, hand>> /\ plan' = None BY <1>5 DEF EnqueuePlanned
  <2> QED BY <2>2, <2>3, <2>4, <2>5, <2>6, EnqueueKinds
<1>6. CASE CancelTask
  <2>1. UNCHANGED <<hand, plan>> BY <1>6 DEF CancelTask, stepVars
  <2>2. CASE CancelPending(x)
    <3>1. PICK c \in Class : /\ InDeque(x, PENDING[c])
                             /\ PENDING' = [PENDING EXCEPT ![c] = RemoveId(@, x)]
      BY <2>2 DEF CancelPending
    <3>2. UNCHANGED RUNNING BY <2>2 DEF CancelPending
    <3> HIDE DEF x
    <3>3. \A type, t : Waits(PENDING', type, t) => Waits(PENDING, type, t)
      BY <1>1, <3>1, RemoveWaits
    <3> QED BY <2>1, <3>2, <3>3, ShrinkingKinds
  <2>3. CASE CancelRunning(x)
    <3>1. UNCHANGED PENDING /\ RUNNING' = [RUNNING EXCEPT ![x] = None]
      BY <2>3 DEF CancelRunning
    <3> HIDE DEF x
    <3>2. \A t \in TaskId : RUNNING'[t] \in {RUNNING[t], None}
      BY <1>1, <3>1
    <3> QED BY <2>1, <3>1, <3>2, ShrinkingKinds
  <2>4. CASE CancelUnknown(x) BY <2>1, <2>4, SameKinds DEF CancelUnknown
  <2> QED BY <1>6, <2>2, <2>3, <2>4 DEF CancelTask
<1>7. CASE ToggleEvolution BY <1>7, SameKinds DEF ToggleEvolution
<1>8. CASE ToggleWrite
  <2>1. PENDING' = DropEvolution(PENDING) /\ UNCHANGED <<RUNNING, hand, plan>>
    BY <1>8 DEF ToggleWrite
  <2>2. \A type, t : Waits(PENDING', type, t) => Waits(PENDING, type, t)
    BY <1>1, <2>1, DropWaits
  <2>3. \A t \in TaskId : RUNNING'[t] \in {RUNNING[t], None} BY <2>1
  <2> QED BY <2>1, <2>2, <2>3, ShrinkingKinds
<1>9. CASE RestartRequest
  BY <1>9, SameKinds DEF RestartRequest, stepVars
<1> QED BY <1>2, <1>3, <1>4, <1>5, <1>6, <1>7, <1>8, <1>9 DEF Handle

LEMMA HealthKinds ==
  ASSUME Shape, Alone, Health
  PROVE  Alone'
<1> USE DEF stepVars
<1>1. TypeInv BY DEF Shape
<1>2. PENDING \in Queue /\ RUNNING \in [TaskId -> Meta \cup {None}]
  BY <1>1, QueueType DEF TypeInv, TypeOK
<1>3. ASSUME NEW w \in Wid, HealthAlive(w) PROVE Alone'
  BY <1>3, SameKinds DEF HealthAlive
<1>4. ASSUME NEW w \in Wid, HealthDead(w) PROVE Alone'
  <2>0. UNCHANGED <<hand, plan>> BY <1>4 DEF HealthDead
  <2>1. CASE busy[w] # None /\ IsRunning(busy[w])
    <3>1. PICK x \in TaskId : x = busy[w] /\ RUNNING[x] # None
      BY <2>1 DEF Shape, TypeInv, TypeOK, IsRunning
    <3>2. PICK task \in Task : task = RUNNING[x].task /\ task.id = x
      BY <3>1 DEF Shape, TypeInv, TypeOK, Meta, Frame, OwnRecords, IsRunning
    <3>3. /\ PENDING' = EnqueueFront(PENDING, task)
          /\ RUNNING' = [RUNNING EXCEPT ![x] = None]
      BY <1>4, <2>1, <3>1, <3>2 DEF HealthDead, Requeue
    <3>4. \A type, t : Waits(PENDING', type, t)
            => Waits(PENDING, type, t) \/ (t = x /\ type = task.type)
      BY <1>2, <3>2, <3>3, FrontWaits
    <3>5. \A t \in TaskId : RUNNING'[t] \in {RUNNING[t], None}
      BY <1>2, <3>3
    <3>6. \A type \in GuardedType, t \in TaskId : OfKind(type, t)' => OfKind(type, t)
      BY <2>0, <3>1, <3>2, <3>4, <3>5 DEF OfKind, IsRunning, InHand
    <3> QED BY <2>0, <3>6, FewerOfKind
  <2>2. CASE ~(busy[w] # None /\ IsRunning(busy[w]))
    BY <1>4, <2>2, SameKinds DEF HealthDead, Requeue
  <2> QED BY <2>1, <2>2
<1>5. CASE HealthEnd
  <2>1. /\ UNCHANGED <<PENDING, hand, plan>>
        /\ \A t \in TaskId : RUNNING'[t] \in {RUNNING[t], None}
    BY <1>5 DEF HealthEnd, KillWorkers
  <2>2. \A type, t : Waits(PENDING', type, t) => Waits(PENDING, type, t)
    BY <2>1
  <2> QED BY <2>1, <2>2, ShrinkingKinds
<1> QED BY <1>3, <1>4, <1>5 DEF Health

\* The retry of a timed out task takes its place.
LEMMA TimeoutKinds ==
  ASSUME Good, Alone, NEW t \in TaskId, HardTimeout(t)
  PROVE  Alone'
<1>1. TypeInv BY DEF Good, Shape
<1>2. PENDING \in Queue /\ RUNNING \in [TaskId -> Meta \cup {None}]
  BY <1>1, QueueType DEF TypeInv, TypeOK
<1>3. PICK m \in Meta : m = RUNNING[t] /\ m # None
  BY <1>2 DEF HardTimeout, IsRunning
<1>4. /\ IsRunning(t) /\ RUNNING' = [RUNNING EXCEPT ![t] = None]
      /\ UNCHANGED <<hand, plan>> /\ plan = None
  BY DEF HardTimeout, stepVars, Good, Shape, Frame, StepInPhase
<1>5. \A u \in TaskId : RUNNING'[u] = IF u = t THEN None ELSE RUNNING[u]
  BY <1>2, <1>4
<1>6. m.task \in Task BY DEF Meta
<1>7. CASE Retried(m.task)
  <2>1. PICK r \in TaskId : /\ Fresh(r)
                            /\ PENDING' = EnqueueFront(PENDING,
                                 [m.task EXCEPT !.id = r, !.attempt = @ + 1])
    BY <1>3, <1>7 DEF HardTimeout
  <2>2. PICK again \in Task :
          again = [m.task EXCEPT !.id = r, !.attempt = @ + 1] /\ again.id = r
    BY <1>6, <1>7, RetryType
  <2>3. again.type = m.task.type BY <1>6, <2>2 DEF Task
  <2>4. PENDING' = EnqueueFront(PENDING, again) BY <2>1, <2>2
  <2>5. \A type, u : Waits(PENDING', type, u)
          => Waits(PENDING, type, u) \/ (u = r /\ type = m.task.type)
    <3>1. again.id = r BY <2>2
    <3> QED BY <1>2, <2>3, <2>4, <3>1, FrontWaits
  <2>6. \A type : ~Waits(PENDING, type, t)
    <3>1. ~InPending(t) BY <1>4 DEF Good, Sound, ListedOnce
    <3> QED BY <3>1 DEF InPending, Holds, InDeque, Waits
  <2>7. ~InHand(t) BY <1>4 DEF Good, Sound, PendingIsIdle, InHand
  <2>8. \A type \in GuardedType, u \in TaskId : OfKind(type, u)'
          => \/ u # t /\ OfKind(type, u)
             \/ u = r /\ OfKind(type, t)
    BY <1>3, <1>4, <1>5, <2>5, <2>6, <2>7 DEF OfKind, IsRunning, InHand
  <2>9. AloneOfItsKind' BY <2>8 DEF Alone, AloneOfItsKind
  <2> QED BY <1>4, <2>9 DEF Alone, PlanIsNew
<1>8. CASE ~Retried(m.task)
  <2>1. UNCHANGED PENDING BY <1>3, <1>8 DEF HardTimeout
  <2>2. \A u \in TaskId : RUNNING'[u] \in {RUNNING[u], None} BY <1>5
  <2>3. \A type, u : Waits(PENDING', type, u) => Waits(PENDING, type, u)
    BY <2>1
  <2> QED BY <1>4, <2>2, <2>3, ShrinkingKinds
<1> QED BY <1>7, <1>8

LEMMA PeriodicKinds ==
  ASSUME Good, Alone, Periodic, raced' = {}
  PROVE  Alone'
<1> USE DEF stepVars
<1>1. TypeInv BY DEF Good, Shape
<1>2. ASSUME NEW t \in TaskId, SoftTimeout(t) PROVE Alone'
  <2>1. RUNNING \in [TaskId -> Meta \cup {None}] BY <1>1 DEF TypeInv, TypeOK
  <2>2. PICK m \in Meta : m = RUNNING[t] /\ m # None
    BY <1>2, <2>1 DEF SoftTimeout, IsRunning
  <2>3. /\ UNCHANGED <<PENDING, hand, plan>>
        /\ RUNNING' = [RUNNING EXCEPT ![t] = [m EXCEPT !.soft = TRUE]]
    BY <1>2, <2>2 DEF SoftTimeout
  <2>4. [m EXCEPT !.soft = TRUE].task = m.task BY DEF Meta
  <2>5. \A u \in TaskId : RUNNING'[u] # None =>
          RUNNING[u] # None /\ RUNNING'[u].task = RUNNING[u].task
    BY <2>1, <2>2, <2>3, <2>4
  <2>6. \A type \in GuardedType, u \in TaskId : OfKind(type, u)' => OfKind(type, u)
    BY <2>3, <2>5 DEF OfKind, IsRunning, InHand
  <2> QED BY <2>3, <2>6, FewerOfKind
<1>3. ASSUME NEW type \in GuardedType, Idle, Planned(type),
             UNCHANGED <<PENDING, RUNNING, hand>>
      PROVE  Alone'
  <2>1. RacedBy(type) = {} BY <1>3 DEF Planned
  <2>2. \A t \in TaskId : ~OfKind(type, t) BY <1>3, <2>1, IdleNoKind
  <2> QED BY <1>3, <2>2, PlannedKinds
<1>4. CASE EnqueueEvolution
  <2>1. "evolution" \in GuardedType BY DEF GuardedType
  <2> QED BY <1>3, <1>4, <2>1, SameKinds DEF EnqueueEvolution
<1>5. CASE EnqueueHealthCheck
  <2>1. "health_check" \in GuardedType BY DEF GuardedType
  <2> QED BY <1>3, <1>5, <2>1 DEF EnqueueHealthCheck
<1>6. CASE EndJobs BY <1>6, SameKinds DEF EndJobs
<1> QED BY <1>2, <1>4, <1>5, <1>6, TimeoutKinds DEF Periodic

\* A restart empties the books.
LEMMA BootKinds ==
  ASSUME Boot
  PROVE  Alone'
<1>1. \A c \in Class : 1..Len(PENDING'[c]) = {} BY DEF Boot
<1>2. \A t \in TaskId : RUNNING'[t] = None BY DEF Boot
<1>3. hand' = None /\ plan' = None BY DEF Boot
<1> QED BY <1>1, <1>2, <1>3
    DEF Alone, AloneOfItsKind, PlanIsNew, OfKind, IsRunning, InHand, Waits

LEMMA NextKinds ==
  ASSUME IInv, Kinds, [Next]_vars
  PROVE  Kinds'
<1> USE DEF stepVars
<1> SUFFICES ASSUME raced' = {}, ~Boot PROVE Alone'
  BY BootKinds DEF Kinds
<1>1. raced = {} BY RacedGrows
<1>2. Good /\ Alone BY <1>1, IInvParts DEF Kinds, Good, Overwritten
<1>3. TypeInv /\ StepInPhase /\ Shape BY <1>2 DEF Good, Shape, Frame
<1>4. ASSUME NEW t \in TaskId, Message(t) \/ ResumeEnqueue(t) PROVE Alone'
  <2>1. NewTask(t, "task") \in Task /\ NewTask(t, "task").type = "task"
    BY NewTaskType DEF Type, NewTask
  <2> QED BY <1>2, <1>3, <1>4, <2>1, EnqueueKinds DEF Message, ResumeEnqueue
<1>5. CASE EndPoll \/ BeginHealth \/ EndDrain \/ BudgetLow
  BY <1>2, <1>5, SameKinds DEF EndPoll, BeginHealth, EndDrain, BudgetLow
<1>6. CASE Assign
  <2>1. ASSUME NEW thread \in {"main", "resume"}, AssignBegin(thread)
        PROVE  Alone'
    BY <1>2, <2>1, SameKinds DEF AssignBegin
  <2>2. CASE AssignEnd BY <1>2, <2>2, SameKinds DEF AssignEnd
  <2> QED BY <1>2, <1>3, <1>6, <2>1, <2>2, AssignKinds, HandOverKinds DEF Assign
<1>7. ASSUME NEW w \in Wid, Worker(w) PROVE Alone'
  <2>1. UNCHANGED <<PENDING, RUNNING, hand, plan>>
    BY <1>7 DEF Worker, Take, Emit, Finish, Raise, Crash
  <2> QED BY <1>2, <2>1, SameKinds
<1>8. CASE UNCHANGED vars BY <1>2, <1>8, SameKinds DEF vars
<1>9. CASE Handle BY <1>2, <1>3, <1>9, HandleKinds
<1>10. CASE Health BY <1>2, <1>3, <1>10, HealthKinds
<1>11. CASE Periodic BY <1>2, <1>11, PeriodicKinds
<1> QED BY <1>4, <1>5, <1>6, <1>7, <1>8, <1>9, <1>10, <1>11 DEF Next

LEMMA InitKinds == Init => Kinds
<1> HAVE Init
<1>1. \A c \in Class : 1..Len(PENDING[c]) = {} BY DEF Init
<1>2. \A t \in TaskId : ~IsRunning(t) BY DEF Init, IsRunning
<1>3. hand = None /\ plan = None BY DEF Init
<1> QED BY <1>1, <1>2, <1>3
    DEF Kinds, Alone, AloneOfItsKind, PlanIsNew, OfKind, InHand, Waits

\* A set of at most one element has at most one element.
LEMMA AtMostOne ==
  ASSUME NEW S, \A s, t \in S : s = t
  PROVE  Cardinality(S) <= 1
<1>1. CASE S = {} BY <1>1, FS_EmptySet
<1>2. CASE S # {}
  <2>1. PICK s \in S : TRUE BY <1>2
  <2>2. S = {s} BY <2>1
  <2>3. Cardinality({s}) = 1 BY FS_Singleton
  <2> QED BY <2>2, <2>3
<1> QED BY <1>1, <1>2

LEMMA AloneIsOne == Kinds => OneOfAKind
<1> SUFFICES ASSUME AloneOfItsKind, NEW type \in GuardedType
             PROVE  Cardinality({t \in TaskId : OfKind(type, t)}) <= 1
  BY DEF OneOfAKind, Kinds, Alone
<1> DEFINE S == {t \in TaskId : OfKind(type, t)}
<1>1. \A s, t \in S : s = t BY DEF AloneOfItsKind
<1> HIDE DEF S
<1>2. Cardinality(S) <= 1 BY <1>1, AtMostOne
<1> QED BY <1>2 DEF S

\* At most one review, one evolution and one health check is queued, in hand or
\* running, whatever crashes, times out, is cancelled or is requested again
\* meanwhile, unless its guard looked while the other one was in hand or a toggle
\* had undone a step of the other thread.
THEOREM OnePerKind == Spec => []OneOfAKind
<1>1. Init => Kinds BY InitKinds
<1>2. IInv /\ Kinds /\ [Next]_vars => Kinds' BY NextKinds
<1>3. Kinds => OneOfAKind BY AloneIsOne
<1> QED BY <1>1, <1>2, <1>3, Invariance, PTL DEF Spec

=============================================================================
