-------------------------- MODULE Telegram_proofs --------------------------
(***************************************************************************)
(* Proofs about the chat with the owner, for any messages and bounds.      *)
(***************************************************************************)
EXTENDS Telegram, NaturalLemmas, SequenceTheorems, TLAPS

-----------------------------------------------------------------------------
(* The parts of a Markdown text.                                           *)

\* The lines of a text and those that are added.
LineType == [number : Nat, size : Nat, kind : {"text", "blank", "fence"}]

\* The sum of the sizes, line by line.
LEMMA SizeIs ==
  ASSUME NEW part \in Seq(LineType)
  PROVE  \E f \in [0..Len(part) -> Nat] :
           /\ f[0] = 0 /\ \A k \in 1..Len(part) : f[k] = f[k - 1] + part[k].size
           /\ PartSize(part) = f[Len(part)]
<1> DEFINE n == Len(part)
           step == [k \in 1..n |-> [x \in Nat |-> x + part[k].size]]
           sum == CHOOSE f : f = [k \in 0..n |-> IF k = 0 THEN 0 ELSE f[k - 1] + part[k].size]
<1>1. n \in Nat /\ n \in 0..n /\ \A k \in 1..n : part[k].size \in Nat
  <2>1. \A k \in 1..n : part[k] \in LineType
    OBVIOUS
  <2> QED BY <2>1 DEF LineType
<1>2. step \in StepsIn(Nat, n)
  BY <1>1 DEF StepsIn
<1>3. PICK f \in [0..n -> Nat] : f[0] = 0 /\ \A k \in 1..n : f[k] = step[k][f[k - 1]]
  <2> DEFINE base == 0
  <2>1. n \in Nat /\ base \in Nat
    BY <1>1
  <2> HIDE DEF step, n, base
  <2>2. \E f : Follows(f, Nat, n, base, step)
    BY <1>2, <2>1, Recursion
  <2> QED BY <2>2 DEF Follows, base
<1>4. \A k \in 1..n : f[k] = f[k - 1] + part[k].size
  <2>1. \A k \in 1..n : k - 1 \in 0..n
    BY <1>1
  <2> QED BY <1>3, <2>1
<1>5. f = [k \in 0..n |-> IF k = 0 THEN 0 ELSE f[k - 1] + part[k].size]
  <2> HIDE DEF step, n
  <2>1. \A k \in 0..n : k = 0 \/ k \in 1..n
    BY <1>1
  <2> QED BY <1>3, <1>4, <2>1
<1>6. sum = [k \in 0..n |-> IF k = 0 THEN 0 ELSE sum[k - 1] + part[k].size]
  BY <1>5
<1>7. PartSize(part) = sum[n]
  BY DEF PartSize
<1> HIDE DEF sum, step, n
<1>8. \A k \in 1..n : k \in 0..n /\ k # 0
  BY <1>1
<1>9. sum[0] = 0 /\ \A k \in 1..n : sum[k] = sum[k - 1] + part[k].size
  <2>1. 0 \in 0..n
    BY <1>1
  <2> QED BY <1>6, <1>8, <2>1
<1>10. \A k \in 0..n : sum[k] = f[k]
  <2> DEFINE G == {k \in 0..n : sum[k] = f[k]}
  <2>1. 0 \in G
    BY <1>1, <1>3, <1>9
  <2>2. ASSUME NEW k \in 0..(n - 1), k \in G
        PROVE  k + 1 \in G
    <3>1. k + 1 \in 1..n /\ k + 1 \in 0..n /\ (k + 1) - 1 = k /\ sum[k] = f[k]
      BY <1>1, <2>2
    <3> QED BY <1>4, <1>9, <3>1
  <2> HIDE DEF G
  <2>3. \A k \in 0..n : k \in G
    BY <1>1, <2>1, <2>2, UpTo
  <2> QED BY <2>3 DEF G
<1>11. PartSize(part) = f[n]
  BY <1>1, <1>7, <1>10
<1> QED BY <1>3, <1>4, <1>11 DEF n

\* An empty part has size 0, and a line adds its size.
LEMMA SizeOfAppend ==
  ASSUME NEW part \in Seq(LineType), NEW line \in LineType
  PROVE  /\ PartSize(part) \in Nat /\ PartSize(<<>>) = 0
         /\ PartSize(Append(part, line)) = PartSize(part) + line.size
<1> DEFINE n == Len(part)
           longer == Append(part, line)
<1>1. /\ n \in Nat /\ longer \in Seq(LineType) /\ Len(longer) = n + 1
      /\ longer[n + 1] = line /\ \A k \in 1..n : longer[k] = part[k]
  OBVIOUS
<1>2. PartSize(<<>>) = 0
  <2>1. <<>> \in Seq(LineType) /\ Len(<<>>) = 0
    OBVIOUS
  <2> QED BY <2>1, SizeIs
<1>3. PICK f \in [0..n -> Nat] :
        /\ f[0] = 0 /\ \A k \in 1..n : f[k] = f[k - 1] + part[k].size
        /\ PartSize(part) = f[n]
  BY SizeIs
<1> HIDE DEF longer, n
<1>4. PICK g \in [0..(n + 1) -> Nat] :
        /\ g[0] = 0 /\ \A k \in 1..(n + 1) : g[k] = g[k - 1] + longer[k].size
        /\ PartSize(longer) = g[n + 1]
  BY <1>1, SizeIs
<1>5. \A k \in 0..n : f[k] = g[k]
  <2> DEFINE G == {k \in 0..n : f[k] = g[k]}
  <2>1. 0 \in G
    BY <1>1, <1>3, <1>4
  <2>2. ASSUME NEW k \in 0..(n - 1), k \in G
        PROVE  k + 1 \in G
    <3>1. /\ k + 1 \in 1..n /\ k + 1 \in 0..n /\ k + 1 \in 1..(n + 1)
          /\ (k + 1) - 1 = k /\ f[k] = g[k]
      BY <1>1, <2>2
    <3>2. f[k + 1] = f[k] + part[k + 1].size
      BY <1>3, <3>1
    <3>3. g[k + 1] = g[k] + longer[k + 1].size
      BY <1>4, <3>1
    <3>4. longer[k + 1] = part[k + 1]
      BY <1>1, <3>1
    <3> QED BY <3>1, <3>2, <3>3, <3>4
  <2> HIDE DEF G
  <2>3. \A k \in 0..n : k \in G
    BY <1>1, <2>1, <2>2, UpTo
  <2> QED BY <2>3 DEF G
<1>6. n \in 0..n /\ n + 1 \in 1..(n + 1) /\ (n + 1) - 1 = n
  BY <1>1
<1>7. PartSize(longer) = PartSize(part) + line.size /\ PartSize(part) \in Nat
  BY <1>1, <1>3, <1>4, <1>5, <1>6
<1> QED BY <1>2, <1>7 DEF longer

\* What is put together, one after the other.
LEMMA FlattenIs ==
  ASSUME NEW A, NEW parts \in Seq(Seq(A))
  PROVE  \E f \in [0..Len(parts) -> Seq(A)] :
           /\ f[0] = <<>> /\ \A k \in 1..Len(parts) : f[k] = f[k - 1] \o parts[k]
           /\ FlattenSeq(parts) = f[Len(parts)]
<1> DEFINE n == Len(parts)
           step == [k \in 1..n |-> [x \in Seq(A) |-> x \o parts[k]]]
           flatten == CHOOSE g : g = [k \in 1..n |-> IF k = 1 THEN parts[k] ELSE g[k - 1] \o parts[k]]
           base == <<>>
<1>1. n \in Nat /\ base \in Seq(A) /\ \A k \in 1..n : parts[k] \in Seq(A)
  OBVIOUS
<1>2. step \in StepsIn(Seq(A), n)
  BY <1>1 DEF StepsIn
<1>3. PICK f : Follows(f, Seq(A), n, base, step)
  <2> HIDE DEF step, n, base
  <2> QED BY <1>1, <1>2, Recursion
<1>4. /\ f \in [0..n -> Seq(A)] /\ f[0] = <<>>
      /\ \A k \in 1..n : f[k] = f[k - 1] \o parts[k]
  <2>1. \A k \in 1..n : k - 1 \in 0..n
    BY <1>1
  <2>2. f \in [0..n -> Seq(A)] /\ f[0] = <<>>
    BY <1>3 DEF Follows
  <2>3. \A k \in 1..n : f[k - 1] \in Seq(A) /\ f[k] = step[k][f[k - 1]]
    BY <1>3, <2>1 DEF Follows
  <2> QED BY <2>2, <2>3
<1> HIDE DEF step, base
<1>5. CASE n = 0
  <2>1. FlattenSeq(parts) = parts /\ parts = <<>>
    BY <1>5 DEF FlattenSeq
  <2> QED BY <1>4, <1>5, <2>1
<1>6. CASE n # 0
  <2> DEFINE g == [k \in 1..n |-> f[k]]
  <2>1. FlattenSeq(parts) = flatten[n]
    BY <1>6 DEF FlattenSeq
  <2> HIDE DEF n
  <2>2. g = [k \in 1..n |-> IF k = 1 THEN parts[k] ELSE g[k - 1] \o parts[k]]
    <3>1. ASSUME NEW k \in 1..n PROVE f[k] = IF k = 1 THEN parts[k] ELSE g[k - 1] \o parts[k]
      <4>1. f[k] = f[k - 1] \o parts[k] /\ parts[k] \in Seq(A)
        BY <1>1, <1>4
      <4>2. CASE k = 1
        <5>1. f[k - 1] = <<>>
          BY <1>4, <4>2
        <5> QED BY <4>1, <4>2, <5>1
      <4>3. CASE k # 1
        <5>1. k - 1 \in 1..n
          BY <1>1, <4>3
        <5> QED BY <4>1, <4>3, <5>1
      <4> QED BY <4>2, <4>3
    <3> QED BY <3>1
  <2>3. flatten = [k \in 1..n |-> IF k = 1 THEN parts[k] ELSE flatten[k - 1] \o parts[k]]
    <3> HIDE DEF g
    <3> QED BY <2>2
  <2> HIDE DEF flatten, g
  <2>4. \A k \in 1..n : flatten[k] = f[k]
    <3> DEFINE G == {k \in 0..n : k = 0 \/ flatten[k] = f[k]}
    <3>1. 0 \in G
      BY <1>1
    <3>2. ASSUME NEW k \in 0..(n - 1), k \in G
          PROVE  k + 1 \in G
      <4>1. k + 1 \in 1..n /\ k + 1 \in 0..n /\ (k + 1) - 1 = k /\ (k + 1 = 1 <=> k = 0)
        BY <1>1
      <4>2. flatten[k + 1] = IF k + 1 = 1 THEN parts[k + 1] ELSE flatten[k] \o parts[k + 1]
        BY <2>3, <4>1
      <4>3. f[k + 1] = f[k] \o parts[k + 1] /\ parts[k + 1] \in Seq(A)
        BY <1>1, <1>4, <4>1
      <4>4. CASE k = 0
        <5>1. f[k] = <<>>
          BY <1>4, <4>4
        <5>2. <<>> \o parts[k + 1] = parts[k + 1]
          BY <4>3
        <5> QED BY <4>1, <4>2, <4>3, <4>4, <5>1, <5>2
      <4>5. CASE k # 0
        BY <3>2, <4>1, <4>2, <4>3, <4>5
      <4> QED BY <4>4, <4>5
    <3> HIDE DEF G
    <3>3. \A k \in 0..n : k \in G
      BY <1>1, <3>1, <3>2, UpTo
    <3>4. \A k \in 1..n : k \in 0..n /\ k # 0
      BY <1>1
    <3> QED BY <3>3, <3>4 DEF G
  <2>5. FlattenSeq(parts) = f[n]
    <3>1. n \in 1..n
      BY <1>1, <1>6
    <3> QED BY <2>1, <2>4, <3>1
  <2> QED BY <1>4, <2>5 DEF n
<1> QED BY <1>5, <1>6

\* A part more comes at the end.
LEMMA FlattenOfAppend ==
  ASSUME NEW A, NEW parts \in Seq(Seq(A)), NEW part \in Seq(A)
  PROVE  /\ FlattenSeq(parts) \in Seq(A) /\ FlattenSeq(<<>>) = <<>>
         /\ FlattenSeq(Append(parts, part)) = FlattenSeq(parts) \o part
<1> DEFINE n == Len(parts)
           longer == Append(parts, part)
<1>1. /\ n \in Nat /\ longer \in Seq(Seq(A)) /\ Len(longer) = n + 1
      /\ longer[n + 1] = part /\ \A k \in 1..n : longer[k] = parts[k]
  OBVIOUS
<1>2. FlattenSeq(<<>>) = <<>>
  BY DEF FlattenSeq
<1>3. PICK f \in [0..n -> Seq(A)] :
        /\ f[0] = <<>> /\ \A k \in 1..n : f[k] = f[k - 1] \o parts[k]
        /\ FlattenSeq(parts) = f[n]
  BY FlattenIs
<1> HIDE DEF longer, n
<1>4. PICK g \in [0..(n + 1) -> Seq(A)] :
        /\ g[0] = <<>> /\ \A k \in 1..(n + 1) : g[k] = g[k - 1] \o longer[k]
        /\ FlattenSeq(longer) = g[n + 1]
  <2>1. longer \in Seq(Seq(A))
    BY <1>1
  <2>2. \E g \in [0..Len(longer) -> Seq(A)] :
          /\ g[0] = <<>> /\ \A k \in 1..Len(longer) : g[k] = g[k - 1] \o longer[k]
          /\ FlattenSeq(longer) = g[Len(longer)]
    BY <2>1, FlattenIs
  <2>3. Len(longer) = n + 1
    BY <1>1
  <2> QED BY <2>2, <2>3
<1>5. n \in Nat
  BY <1>1
<1>6. \A k \in 0..n : f[k] = g[k]
  <2> DEFINE G == {k \in 0..n : f[k] = g[k]}
  <2>1. 0 \in G
    BY <1>3, <1>4, <1>5
  <2>2. ASSUME NEW k \in 0..(n - 1), k \in G
        PROVE  k + 1 \in G
    <3>1. /\ k + 1 \in 1..n /\ k + 1 \in 0..n /\ k + 1 \in 1..(n + 1)
          /\ (k + 1) - 1 = k /\ f[k] = g[k]
      BY <1>5, <2>2
    <3>2. f[k + 1] = f[k] \o parts[k + 1]
      BY <1>3, <3>1
    <3>3. g[k + 1] = g[k] \o longer[k + 1]
      BY <1>4, <3>1
    <3>4. longer[k + 1] = parts[k + 1]
      BY <1>1, <3>1
    <3> QED BY <3>1, <3>2, <3>3, <3>4
  <2> HIDE DEF G
  <2>3. \A k \in 0..n : k \in G
    BY <1>5, <2>1, <2>2, UpTo
  <2> QED BY <2>3 DEF G
<1>7. n \in 0..n /\ n + 1 \in 1..(n + 1) /\ (n + 1) - 1 = n
  BY <1>5
<1>8. FlattenSeq(longer) = FlattenSeq(parts) \o part /\ FlattenSeq(parts) \in Seq(A)
  <2>1. f[n] = g[n] /\ f[n] \in Seq(A)
    BY <1>6, <1>7
  <2>2. g[n + 1] = g[n] \o longer[n + 1]
    BY <1>4, <1>7
  <2>3. longer[n + 1] = part
    BY <1>1
  <2> QED BY <1>3, <1>4, <2>1, <2>2, <2>3
<1> QED BY <1>2, <1>8 DEF longer

\* The lines of the text in a line.
OwnLine(line) == IF line.number = 0 \/ line.kind = "blank" THEN <<>> ELSE <<line>>

\* The lines of the text in one more line come at the end.
LEMMA OwnOfAppend ==
  ASSUME NEW lines \in Seq(LineType), NEW line \in LineType
  PROVE  /\ Own(lines) \in Seq(LineType) /\ Own(<<>>) = <<>>
         /\ Own(Append(lines, line)) = Own(lines) \o OwnLine(line)
<1> DEFINE n == Len(lines)
           longer == Append(lines, line)
           own == [k \in DOMAIN lines |-> OwnLine(lines[k])]
           more == [k \in DOMAIN longer |-> OwnLine(longer[k])]
<1>1. /\ n \in Nat /\ longer \in Seq(LineType) /\ Len(longer) = n + 1
      /\ DOMAIN lines = 1..n /\ DOMAIN longer = 1..(n + 1)
      /\ longer[n + 1] = line /\ \A k \in 1..n : longer[k] = lines[k]
  OBVIOUS
<1>2. \A x \in LineType : OwnLine(x) \in Seq(LineType)
  BY DEF OwnLine
<1>3. Own(lines) = FlattenSeq(own) /\ Own(longer) = FlattenSeq(more)
  BY DEF Own, OwnLine
<1>4. own \in Seq(Seq(LineType)) /\ Len(own) = n
  <2>1. \A k \in 1..n : lines[k] \in LineType
    OBVIOUS
  <2> HIDE DEF n
  <2>2. own = [k \in 1..n |-> OwnLine(lines[k])]
    BY <1>1
  <2> QED BY <1>1, <1>2, <2>1, <2>2
<1>5. more = Append(own, OwnLine(line))
  <2>1. Append(own, OwnLine(line)) = [k \in 1..(n + 1) |-> IF k = n + 1 THEN OwnLine(line) ELSE own[k]]
    BY <1>2, <1>4
  <2>2. more = [k \in 1..(n + 1) |-> OwnLine(longer[k])]
    BY <1>1
  <2>3. ASSUME NEW k \in 1..(n + 1)
        PROVE  OwnLine(longer[k]) = IF k = n + 1 THEN OwnLine(line) ELSE own[k]
    <3>1. CASE k = n + 1
      BY <1>1, <3>1
    <3>2. CASE k # n + 1
      <4>1. k \in 1..n
        BY <1>1, <3>2
      <4>2. longer[k] = lines[k] /\ own[k] = OwnLine(lines[k])
        BY <1>1, <4>1
      <4> QED BY <3>2, <4>2
    <3> QED BY <3>1, <3>2
  <2> HIDE DEF more, own, longer, n
  <2> QED BY <2>1, <2>2, <2>3
<1>6. Own(longer) = Own(lines) \o OwnLine(line) /\ Own(lines) \in Seq(LineType)
  <2>1. OwnLine(line) \in Seq(LineType)
    BY <1>2
  <2> HIDE DEF more, own, longer
  <2> QED BY <1>3, <1>4, <1>5, <2>1, FlattenOfAppend
<1>7. Own(<<>>) = <<>>
  <2>1. DOMAIN <<>> = 1..0 /\ [k \in 1..0 |-> OwnLine(<<>>[k])] = <<>>
    OBVIOUS
  <2>2. Own(<<>>) = FlattenSeq([k \in DOMAIN <<>> |-> OwnLine(<<>>[k])])
    BY DEF Own, OwnLine
  <2>3. Own(<<>>) = FlattenSeq(<<>>)
    BY <2>1, <2>2
  <2> QED BY <2>3 DEF FlattenSeq
<1> QED BY <1>6, <1>7 DEF longer

\* What is told is lines, none of nothing.
LEMMA OwnIsLines ==
  ASSUME NEW lines \in Seq(LineType)
  PROVE  Own(lines) \in Seq(LineType) /\ Own(<<>>) = <<>>
<1> DEFINE line == [number |-> 0, size |-> 0, kind |-> "text"]
<1>1. line \in LineType
  BY DEF LineType
<1> HIDE DEF line
<1> QED BY <1>1, OwnOfAppend

LEMMA LinesTogether == \A a, b, c \in Seq(LineType) : (a \o b) \o c = a \o (b \o c)
BY ConcatAssociative

\* A text is told in two pieces as in one.
LEMMA OwnOfConcat ==
  ASSUME NEW s \in Seq(LineType), NEW t \in Seq(LineType)
  PROVE  Own(s \o t) = Own(s) \o Own(t)
<1> DEFINE n == Len(t)
           Up(k) == SubSeq(t, 1, k)
           G == {k \in 0..n : Own(s \o Up(k)) = Own(s) \o Own(Up(k))}
<1>1. n \in Nat /\ \A k \in 0..n : Up(k) \in Seq(LineType)
  OBVIOUS
<1>2. Up(0) = <<>> /\ Up(n) = t
  OBVIOUS
<1>3. 0 \in G
  <2>1. s \o <<>> = s /\ Own(s) \in Seq(LineType) /\ Own(<<>>) = <<>>
    BY OwnIsLines
  <2>2. Own(s) \o <<>> = Own(s)
    BY <2>1
  <2>3. 0 \in 0..n
    BY <1>1
  <2> HIDE DEF Up, n
  <2>4. Own(s \o Up(0)) = Own(s) \o Own(Up(0))
    BY <1>2, <2>1, <2>2
  <2> QED BY <2>3, <2>4
<1>4. ASSUME NEW k \in 0..(n - 1), k \in G
      PROVE  k + 1 \in G
  <2> DEFINE u == Up(k)
             x == t[k + 1]
  <2>1. /\ k \in 0..n /\ k + 1 \in 0..n /\ u \in Seq(LineType) /\ x \in LineType
        /\ Up(k + 1) = Append(u, x)
    OBVIOUS
  <2>2. Own(s \o u) = Own(s) \o Own(u)
    BY <1>4
  <2> HIDE DEF u, x
  <2>3. s \o Append(u, x) = Append(s \o u, x) /\ s \o u \in Seq(LineType)
    BY <2>1
  <2>4. Own(Append(u, x)) = Own(u) \o OwnLine(x) /\ Own(u) \in Seq(LineType)
    BY <2>1, OwnOfAppend
  <2>5. Own(Append(s \o u, x)) = Own(s \o u) \o OwnLine(x)
    BY <2>1, <2>3, OwnOfAppend
  <2>6. Own(s) \in Seq(LineType)
    BY <2>1, OwnOfAppend
  <2>7. OwnLine(x) \in Seq(LineType)
    BY <2>1 DEF OwnLine
  <2>8. (Own(s) \o Own(u)) \o OwnLine(x) = Own(s) \o (Own(u) \o OwnLine(x))
    BY <2>4, <2>6, <2>7, LinesTogether, Zenon
  <2>9. Own(s \o Up(k + 1)) = Own(s) \o Own(Up(k + 1))
    BY <2>1, <2>2, <2>3, <2>4, <2>5, <2>8
  <2> HIDE DEF Up
  <2> QED BY <2>1, <2>9
<1>5. \A k \in 0..n : k \in G
  <2> HIDE DEF G
  <2> QED BY <1>1, <1>3, <1>4, UpTo
<1>6. n \in 0..n
  BY <1>1
<1>7. Own(s \o Up(n)) = Own(s) \o Own(Up(n))
  BY <1>5, <1>6
<1> QED BY <1>2, <1>7

\* Nothing of the text is in blank lines.
LEMMA BlankOwnsNothing ==
  ASSUME NEW part \in Seq(LineType), Blank(part)
  PROVE  Own(part) = <<>>
<1> DEFINE n == Len(part)
           Up(k) == SubSeq(part, 1, k)
           G == {k \in 0..n : Own(Up(k)) = <<>>}
<1>1. n \in Nat /\ Up(0) = <<>> /\ Up(n) = part
  OBVIOUS
<1>2. 0 \in G
  <2>1. 0 \in 0..n /\ Own(<<>>) = <<>>
    BY <1>1, OwnIsLines
  <2> HIDE DEF Up, n
  <2> QED BY <1>1, <2>1
<1>3. ASSUME NEW k \in 0..(n - 1), k \in G
      PROVE  k + 1 \in G
  <2> DEFINE u == Up(k)
             x == part[k + 1]
  <2>1. /\ k \in 0..n /\ k + 1 \in 0..n /\ u \in Seq(LineType) /\ x \in LineType
        /\ Up(k + 1) = Append(u, x) /\ k + 1 \in DOMAIN part
    OBVIOUS
  <2>2. Own(u) = <<>>
    BY <1>3
  <2>3. x.kind = "blank"
    BY <2>1 DEF Blank
  <2> HIDE DEF u, x
  <2>4. OwnLine(x) = <<>>
    BY <2>3 DEF OwnLine
  <2>5. Own(Append(u, x)) = Own(u) \o OwnLine(x)
    BY <2>1, OwnOfAppend
  <2>6. Own(Up(k + 1)) = <<>> \o <<>>
    BY <2>1, <2>2, <2>4, <2>5
  <2>7. <<>> \o <<>> = <<>>
    OBVIOUS
  <2> HIDE DEF Up
  <2> QED BY <2>1, <2>6, <2>7
<1>4. \A k \in 0..n : k \in G
  <2> HIDE DEF G
  <2> QED BY <1>1, <1>2, <1>3, UpTo
<1>5. n \in 0..n
  BY <1>1
<1> QED BY <1>1, <1>4, <1>5

\* The state of the loop over the lines.
LoopState ==
  [parts : Seq(Seq(LineType)), part : Seq(LineType), inside : BOOLEAN, opening : LineType]

LEMMA ClosingType == Closing \in LineType /\ Closing.number = 0 /\ Closing.size = FenceSize
BY MessagePartsAssumption DEF Closing, Line, LineType

\* A part that is flushed comes at the end, and nothing of the text is forgotten.
LEMMA FlushedTells ==
  ASSUME NEW parts \in Seq(Seq(LineType)), NEW part \in Seq(LineType)
  PROVE  /\ Flushed(parts, part) \in Seq(Seq(LineType))
         /\ Own(FlattenSeq(parts)) \in Seq(LineType)
         /\ Own(FlattenSeq(Flushed(parts, part))) = Own(FlattenSeq(parts)) \o Own(part)
<1>1. /\ FlattenSeq(parts) \in Seq(LineType)
      /\ FlattenSeq(Append(parts, part)) = FlattenSeq(parts) \o part
  BY FlattenOfAppend
<1>2. Own(FlattenSeq(parts)) \in Seq(LineType)
  BY <1>1, OwnIsLines
<1>3. CASE Blank(part)
  <2>1. Own(part) = <<>>
    BY <1>3, BlankOwnsNothing
  <2>2. Own(FlattenSeq(parts)) \o <<>> = Own(FlattenSeq(parts))
    BY <1>2
  <2>3. Flushed(parts, part) = parts
    BY <1>3 DEF Flushed
  <2> QED BY <1>2, <2>1, <2>2, <2>3
<1>4. CASE ~Blank(part)
  <2>1. Flushed(parts, part) = Append(parts, part) /\ Append(parts, part) \in Seq(Seq(LineType))
    BY <1>4 DEF Flushed
  <2>2. Own(FlattenSeq(parts) \o part) = Own(FlattenSeq(parts)) \o Own(part)
    BY <1>1, OwnOfConcat
  <2> QED BY <1>1, <1>2, <2>1, <2>2
<1> QED BY <1>3, <1>4

\* The line is added to the part,
Continues(s, line, inside, opening) ==
  /\ PartSize(s.part) + line.size <= IF inside THEN MaxSize - FenceSize ELSE MaxSize
  /\ Placed(s, line) = [parts |-> s.parts, part |-> Append(s.part, line),
                        inside |-> inside, opening |-> opening]

\* or to a new one, after the line that opens the fence, and the part is flushed.
Starts(s, line, inside, opening) ==
  \E closed \in {s.part, Append(s.part, Closing)},
     fresh \in {<<line>>, Append(<<opening>>, line)} :
    /\ inside \/ fresh = <<line>>
    /\ Placed(s, line) = [parts |-> Flushed(s.parts, closed), part |-> fresh,
                          inside |-> inside, opening |-> opening]

\* The fence that is open was opened by this line or is still the same.
Opens(s, line, inside, opening) ==
  /\ opening = s.opening \/ opening = [line EXCEPT !.number = 0]
  /\ inside /\ opening # [line EXCEPT !.number = 0] => s.inside /\ opening = s.opening

LEMMA PlacedIs ==
  ASSUME NEW s \in LoopState, NEW line \in LineType
  PROVE  \E inside \in BOOLEAN, opening \in LineType :
           /\ Opens(s, line, inside, opening)
           /\ Continues(s, line, inside, opening) \/ Starts(s, line, inside, opening)
<1> DEFINE inside == IF line.kind = "fence" THEN ~s.inside ELSE s.inside
           opening == IF line.kind = "fence" /\ inside THEN [line EXCEPT !.number = 0] ELSE s.opening
           room == IF inside THEN MaxSize - FenceSize ELSE MaxSize
           closed == IF inside /\ s.part # <<>> THEN Append(s.part, Closing) ELSE s.part
           fresh == (IF inside THEN <<opening>> ELSE <<>>) \o <<line>>
<1>1. inside \in BOOLEAN /\ [line EXCEPT !.number = 0] \in LineType /\ s.opening \in LineType
  BY DEF LoopState, LineType
<1>2. opening \in LineType
  BY <1>1
<1>3. opening = s.opening \/ opening = [line EXCEPT !.number = 0]
  OBVIOUS
<1>4. Opens(s, line, inside, opening)
  <2>1. inside /\ opening # [line EXCEPT !.number = 0] => s.inside /\ opening = s.opening
    BY <1>1 DEF LoopState
  <2> HIDE DEF inside, opening
  <2> QED BY <1>3, <2>1 DEF Opens
<1>5. closed \in {s.part, Append(s.part, Closing)}
  OBVIOUS
<1>6. fresh \in {<<line>>, Append(<<opening>>, line)} /\ (inside \/ fresh = <<line>>)
  <2> HIDE DEF inside, opening
  <2>1. <<opening>> \o <<line>> = Append(<<opening>>, line) /\ <<>> \o <<line>> = <<line>>
    BY <1>2
  <2> QED BY <2>1
<1>7. Placed(s, line) =
        IF PartSize(s.part) + line.size <= room
        THEN [parts |-> s.parts, part |-> Append(s.part, line),
              inside |-> inside, opening |-> opening]
        ELSE [parts |-> Flushed(s.parts, closed), part |-> fresh,
              inside |-> inside, opening |-> opening]
  BY DEF Placed
<1> HIDE DEF inside, opening, closed, fresh, room
<1>8. CASE PartSize(s.part) + line.size <= room
  <2>1. Placed(s, line) = [parts |-> s.parts, part |-> Append(s.part, line),
                           inside |-> inside, opening |-> opening]
    BY <1>7, <1>8
  <2> QED BY <1>1, <1>2, <1>4, <1>8, <2>1 DEF Continues, room
<1>9. CASE ~(PartSize(s.part) + line.size <= room)
  <2>1. Placed(s, line) = [parts |-> Flushed(s.parts, closed), part |-> fresh,
                           inside |-> inside, opening |-> opening]
    BY <1>7, <1>9
  <2> QED BY <1>1, <1>2, <1>4, <1>5, <1>6, <2>1 DEF Starts
<1> QED BY <1>8, <1>9

LEMMA PlacedType ==
  ASSUME NEW s \in LoopState, NEW line \in LineType
  PROVE  Placed(s, line) \in LoopState
<1>1. /\ s.parts \in Seq(Seq(LineType)) /\ s.part \in Seq(LineType)
      /\ Append(s.part, line) \in Seq(LineType) /\ Append(s.part, Closing) \in Seq(LineType)
      /\ <<line>> \in Seq(LineType)
      /\ \A opening \in LineType : Append(<<opening>>, line) \in Seq(LineType)
  BY ClosingType DEF LoopState
<1>2. \A part \in Seq(LineType) : Flushed(s.parts, part) \in Seq(Seq(LineType))
  BY <1>1, FlushedTells
<1>3. PICK inside \in BOOLEAN, opening \in LineType :
        Continues(s, line, inside, opening) \/ Starts(s, line, inside, opening)
  BY PlacedIs
<1>4. CASE Continues(s, line, inside, opening)
  BY <1>1, <1>4 DEF Continues, LoopState
<1>5. CASE Starts(s, line, inside, opening)
  <2>1. PICK closed \in {s.part, Append(s.part, Closing)},
             fresh \in {<<line>>, Append(<<opening>>, line)} :
          Placed(s, line) = [parts |-> Flushed(s.parts, closed), part |-> fresh,
                             inside |-> inside, opening |-> opening]
    BY <1>5 DEF Starts
  <2>2. closed \in Seq(LineType) /\ fresh \in Seq(LineType)
    BY <1>1, <2>1
  <2>3. Flushed(s.parts, closed) \in Seq(Seq(LineType))
    BY <1>2, <2>2
  <2> QED BY <2>1, <2>2, <2>3 DEF LoopState
<1> QED BY <1>3, <1>4, <1>5

\* What the parts tell of the text so far.
Told(s) == Own(FlattenSeq(s.parts)) \o Own(s.part)

\* A line of the text is told once, and a line that is added is not.
LEMMA PlacedTells ==
  ASSUME NEW s \in LoopState, NEW line \in LineType, s.opening.number = 0
  PROVE  /\ Told(Placed(s, line)) = Told(s) \o OwnLine(line)
         /\ Placed(s, line).opening.number = 0
<1> DEFINE all == Own(FlattenSeq(s.parts))
<1>1. PICK inside \in BOOLEAN, opening \in LineType :
        /\ Opens(s, line, inside, opening)
        /\ Continues(s, line, inside, opening) \/ Starts(s, line, inside, opening)
  BY PlacedIs
<1>2. opening.number = 0 /\ Placed(s, line).opening = opening
  <2>1. opening.number = 0
    BY <1>1 DEF Opens, LineType
  <2>2. Placed(s, line).opening = opening
    BY <1>1 DEF Continues, Starts
  <2> QED BY <2>1, <2>2
<1>3. s.parts \in Seq(Seq(LineType)) /\ s.part \in Seq(LineType)
  BY DEF LoopState
<1>4. /\ all \in Seq(LineType) /\ Own(s.part) \in Seq(LineType)
      /\ OwnLine(line) \in Seq(LineType) /\ OwnLine(opening) = <<>> /\ OwnLine(Closing) = <<>>
  <2>1. all \in Seq(LineType) /\ Own(s.part) \in Seq(LineType)
    BY <1>3, FlushedTells, OwnIsLines
  <2> QED BY <1>2, <2>1, ClosingType DEF OwnLine
<1>5. (all \o Own(s.part)) \o OwnLine(line) = all \o (Own(s.part) \o OwnLine(line))
  BY <1>4
<1>6. CASE Continues(s, line, inside, opening)
  <2>1. Own(Append(s.part, line)) = Own(s.part) \o OwnLine(line)
    BY <1>3, OwnOfAppend
  <2>2. Told(Placed(s, line)) = all \o Own(Append(s.part, line))
    BY <1>6 DEF Told, Continues
  <2> QED BY <1>2, <1>5, <2>1, <2>2 DEF Told
<1>7. CASE Starts(s, line, inside, opening)
  <2>1. PICK closed \in {s.part, Append(s.part, Closing)},
             fresh \in {<<line>>, Append(<<opening>>, line)} :
          Placed(s, line) = [parts |-> Flushed(s.parts, closed), part |-> fresh,
                             inside |-> inside, opening |-> opening]
    BY <1>7 DEF Starts
  <2>2. Own(closed) = Own(s.part) /\ closed \in Seq(LineType)
    <3>1. Own(Append(s.part, Closing)) = Own(s.part) \o OwnLine(Closing)
      BY <1>3, ClosingType, OwnOfAppend
    <3>2. Own(s.part) \o <<>> = Own(s.part)
      BY <1>4
    <3>3. Append(s.part, Closing) \in Seq(LineType)
      BY <1>3, ClosingType
    <3> QED BY <1>3, <1>4, <2>1, <3>1, <3>2, <3>3
  <2>3. Own(fresh) = OwnLine(line)
    <3>1. <<>> \in Seq(LineType) /\ <<opening>> \in Seq(LineType)
      OBVIOUS
    <3>2. Own(<<>>) = <<>>
      BY <3>1, OwnIsLines
    <3>3. Own(<<line>>) = OwnLine(line)
      <4>1. Append(<<>>, line) = <<line>> /\ <<>> \o OwnLine(line) = OwnLine(line)
        BY <1>4
      <4> QED BY <3>1, <3>2, <4>1, OwnOfAppend
    <3>4. Own(<<opening>>) = <<>>
      <4>1. Append(<<>>, opening) = <<opening>> /\ <<>> \o <<>> = <<>>
        OBVIOUS
      <4>2. Own(Append(<<>>, opening)) = Own(<<>>) \o OwnLine(opening)
        BY <3>1, OwnOfAppend
      <4> QED BY <1>4, <3>2, <4>1, <4>2
    <3>5. Own(Append(<<opening>>, line)) = OwnLine(line)
      <4>1. Own(Append(<<opening>>, line)) = Own(<<opening>>) \o OwnLine(line)
        BY <3>1, OwnOfAppend
      <4>2. <<>> \o OwnLine(line) = OwnLine(line)
        BY <1>4
      <4> QED BY <3>4, <4>1, <4>2
    <3> QED BY <2>1, <3>3, <3>5
  <2>4. Own(FlattenSeq(Flushed(s.parts, closed))) = all \o Own(s.part)
    BY <1>3, <2>2, FlushedTells
  <2>5. Told(Placed(s, line)) = (all \o Own(s.part)) \o OwnLine(line)
    <3>1. /\ Placed(s, line).parts = Flushed(s.parts, closed)
          /\ Placed(s, line).part = fresh
      BY <2>1
    <3> QED BY <2>3, <2>4, <3>1 DEF Told
  <2> QED BY <1>2, <2>5 DEF Told
<1> QED BY <1>1, <1>6, <1>7

\* The parts so far are small, and so is the one that is made, with room for the
\* end of its fence; the line that opened the fence fits in with any other.
Small(s) ==
  /\ \A i \in DOMAIN s.parts : PartSize(s.parts[i]) <= MaxSize + FenceSize
  /\ PartSize(s.part) <= IF s.inside THEN MaxSize - FenceSize ELSE MaxSize
  /\ s.inside => 2 * s.opening.size + FenceSize <= MaxSize

\* Flushing adds a small part.
LEMMA FlushedSmall ==
  ASSUME NEW parts \in Seq(Seq(LineType)), NEW part \in Seq(LineType), NEW bound \in Nat,
         \A i \in DOMAIN parts : PartSize(parts[i]) <= bound, PartSize(part) <= bound
  PROVE  \A i \in DOMAIN Flushed(parts, part) : PartSize(Flushed(parts, part)[i]) <= bound
<1>1. CASE Blank(part)
  BY <1>1 DEF Flushed
<1>2. CASE ~Blank(part)
  <2>1. Flushed(parts, part) = Append(parts, part)
    BY <1>2 DEF Flushed
  <2>2. ASSUME NEW i \in DOMAIN Append(parts, part)
        PROVE  PartSize(Append(parts, part)[i]) <= bound
    <3>1. CASE i = Len(parts) + 1
      <4>1. Append(parts, part)[i] = part
        BY <3>1
      <4> QED BY <4>1
    <3>2. CASE i # Len(parts) + 1
      <4>1. i \in DOMAIN parts /\ Append(parts, part)[i] = parts[i]
        BY <3>2
      <4> QED BY <4>1
    <3> QED BY <3>1, <3>2
  <2> QED BY <2>1, <2>2
<1> QED BY <1>1, <1>2

\* A line of which two fit into a part leaves the parts small.
LEMMA PlacedSmall ==
  ASSUME NEW s \in LoopState, NEW line \in LineType, Small(s),
         2 * line.size + FenceSize <= MaxSize
  PROVE  Small(Placed(s, line))
<1> USE MessagePartsAssumption
<1>1. PICK inside \in BOOLEAN, opening \in LineType :
        /\ Opens(s, line, inside, opening)
        /\ Continues(s, line, inside, opening) \/ Starts(s, line, inside, opening)
  BY PlacedIs
<1>2. inside => 2 * opening.size + FenceSize <= MaxSize
  <2>1. [line EXCEPT !.number = 0].size = line.size
    BY DEF LineType
  <2> QED BY <1>1, <2>1 DEF Opens, Small
<1>3. /\ s.parts \in Seq(Seq(LineType)) /\ s.part \in Seq(LineType) /\ s.inside \in BOOLEAN
      /\ line.size \in Nat /\ opening.size \in Nat
  BY DEF LoopState, LineType
<1>4. PartSize(s.part) \in Nat /\ PartSize(s.part) <= MaxSize
  <2>1. PartSize(s.part) \in Nat
    BY <1>3, SizeOfAppend
  <2> QED BY <1>3, <2>1 DEF Small
<1>5. CASE Continues(s, line, inside, opening)
  <2>1. PartSize(Append(s.part, line)) = PartSize(s.part) + line.size
    BY <1>3, SizeOfAppend
  <2>2. /\ Placed(s, line).parts = s.parts /\ Placed(s, line).part = Append(s.part, line)
        /\ Placed(s, line).inside = inside /\ Placed(s, line).opening = opening
    BY <1>5 DEF Continues
  <2>3. PartSize(s.part) + line.size <= IF inside THEN MaxSize - FenceSize ELSE MaxSize
    BY <1>5 DEF Continues
  <2> QED BY <1>2, <2>1, <2>2, <2>3 DEF Small
<1>6. CASE Starts(s, line, inside, opening)
  <2>1. PICK closed \in {s.part, Append(s.part, Closing)},
             fresh \in {<<line>>, Append(<<opening>>, line)} :
          /\ inside \/ fresh = <<line>>
          /\ Placed(s, line) = [parts |-> Flushed(s.parts, closed), part |-> fresh,
                                inside |-> inside, opening |-> opening]
    BY <1>6 DEF Starts
  <2>2. /\ Placed(s, line).parts = Flushed(s.parts, closed) /\ Placed(s, line).part = fresh
        /\ Placed(s, line).inside = inside /\ Placed(s, line).opening = opening
    BY <2>1
  <2>3. closed \in Seq(LineType) /\ PartSize(closed) <= MaxSize + FenceSize
    <3>1. PartSize(Append(s.part, Closing)) = PartSize(s.part) + FenceSize
      BY <1>3, ClosingType, SizeOfAppend
    <3>2. Append(s.part, Closing) \in Seq(LineType)
      BY <1>3, ClosingType
    <3>3. CASE closed = s.part
      BY <1>3, <1>4, <3>3
    <3>4. CASE closed = Append(s.part, Closing)
      BY <1>4, <3>1, <3>2, <3>4
    <3> QED BY <2>1, <3>3, <3>4
  <2>4. \A i \in DOMAIN Flushed(s.parts, closed) :
          PartSize(Flushed(s.parts, closed)[i]) <= MaxSize + FenceSize
    <3>1. \A i \in DOMAIN s.parts : PartSize(s.parts[i]) <= MaxSize + FenceSize
      BY DEF Small
    <3>2. MaxSize + FenceSize \in Nat
      OBVIOUS
    <3> QED BY <1>3, <2>3, <3>1, <3>2, FlushedSmall
  <2>5. PartSize(<<line>>) = line.size /\ PartSize(<<opening>>) = opening.size
    <3>1. /\ <<>> \in Seq(LineType)
          /\ Append(<<>>, line) = <<line>> /\ Append(<<>>, opening) = <<opening>>
      OBVIOUS
    <3>2. PartSize(<<>>) = 0
      BY <3>1, SizeOfAppend
    <3>3. /\ PartSize(Append(<<>>, line)) = PartSize(<<>>) + line.size
          /\ PartSize(Append(<<>>, opening)) = PartSize(<<>>) + opening.size
      BY <3>1, SizeOfAppend
    <3> QED BY <1>3, <3>1, <3>2, <3>3
  <2>6. PartSize(Append(<<opening>>, line)) = opening.size + line.size
    <3>1. <<opening>> \in Seq(LineType)
      OBVIOUS
    <3> QED BY <2>5, <3>1, SizeOfAppend
  <2>7. PartSize(fresh) <= IF inside THEN MaxSize - FenceSize ELSE MaxSize
    <3>1. CASE fresh = <<line>>
      BY <1>3, <2>5, <3>1
    <3>2. CASE fresh # <<line>>
      <4>1. inside /\ PartSize(fresh) = opening.size + line.size
        BY <2>1, <2>6, <3>2
      <4> QED BY <1>2, <1>3, <4>1
    <3> QED BY <3>1, <3>2
  <2> QED BY <1>2, <2>2, <2>4, <2>7 DEF Small
<1> QED BY <1>1, <1>5, <1>6

\* The state of the loop before the first line.
AtStart == [parts |-> <<>>, part |-> <<>>, inside |-> FALSE, opening |-> Closing]

\* The loop over the lines goes through states of its type, each from the one before.
LEMMA LoopIs ==
  ASSUME NEW page \in Seq(LineType)
  PROVE  \E after \in [0..Len(page) -> LoopState] :
           /\ after[0] = AtStart
           /\ \A k \in 1..Len(page) : after[k] = Placed(after[k - 1], page[k])
           /\ chunk_markdown(page) =
                Flushed(after[Len(page)].parts,
                        IF after[Len(page)].inside THEN Append(after[Len(page)].part, Closing)
                        ELSE after[Len(page)].part)
<1> DEFINE n == Len(page)
           step == [k \in 1..n |-> [s \in LoopState |-> Placed(s, page[k])]]
           after == CHOOSE f : f = [k \in 0..n |-> IF k = 0 THEN AtStart ELSE Placed(f[k - 1], page[k])]
<1>1. n \in Nat /\ n \in 0..n /\ \A k \in 1..n : page[k] \in LineType
  OBVIOUS
<1>2. AtStart \in LoopState
  BY ClosingType DEF AtStart, LoopState
<1>3. step \in StepsIn(LoopState, n)
  BY <1>1, PlacedType DEF StepsIn
<1>4. PICK f : Follows(f, LoopState, n, AtStart, step)
  <2> HIDE DEF step, n
  <2> QED BY <1>1, <1>2, <1>3, Recursion
<1>5. /\ f \in [0..n -> LoopState] /\ f[0] = AtStart
      /\ \A k \in 1..n : f[k] = Placed(f[k - 1], page[k])
  <2>1. \A k \in 1..n : k - 1 \in 0..n
    BY <1>1
  <2>2. f \in [0..n -> LoopState] /\ f[0] = AtStart
    BY <1>4 DEF Follows
  <2>3. \A k \in 1..n : f[k - 1] \in LoopState /\ f[k] = step[k][f[k - 1]]
    BY <1>4, <2>1 DEF Follows
  <2> QED BY <2>2, <2>3
<1>6. f = [k \in 0..n |-> IF k = 0 THEN AtStart ELSE Placed(f[k - 1], page[k])]
  <2> HIDE DEF step, n
  <2>1. \A k \in 0..n : k = 0 \/ k \in 1..n
    BY <1>1
  <2> QED BY <1>5, <2>1
<1>7. after = [k \in 0..n |-> IF k = 0 THEN AtStart ELSE Placed(after[k - 1], page[k])]
  BY <1>6
<1>8. chunk_markdown(page) =
        Flushed(after[n].parts, IF after[n].inside THEN Append(after[n].part, Closing)
                                ELSE after[n].part)
  BY DEF chunk_markdown, AtStart
<1> HIDE DEF after, step, n
<1>9. \A k \in 0..n : after[k] = f[k]
  <2> DEFINE G == {k \in 0..n : after[k] = f[k]}
  <2>1. 0 \in G
    <3>1. after[0] = AtStart /\ 0 \in 0..n
      BY <1>1, <1>7
    <3> QED BY <1>5, <3>1
  <2>2. ASSUME NEW k \in 0..(n - 1), k \in G
        PROVE  k + 1 \in G
    <3>1. /\ k + 1 \in 1..n /\ k + 1 \in 0..n /\ (k + 1) - 1 = k /\ k + 1 # 0
          /\ after[k] = f[k]
      BY <1>1, <2>2
    <3>2. after[k + 1] = Placed(after[k], page[k + 1])
      BY <1>7, <3>1
    <3>3. f[k + 1] = Placed(f[k], page[k + 1])
      BY <1>5, <3>1
    <3> QED BY <3>1, <3>2, <3>3
  <2> HIDE DEF G
  <2>3. \A k \in 0..n : k \in G
    BY <1>1, <2>1, <2>2, UpTo
  <2> QED BY <2>3 DEF G
<1>10. after[n] = f[n]
  BY <1>1, <1>9
<1> QED BY <1>5, <1>8, <1>10 DEF n

\* At the end of the loop the parts tell the text, and they are small if every
\* line of the text is.
LEMMA LoopKeeps ==
  ASSUME NEW page \in Seq(LineType)
  PROVE  \E end \in LoopState :
           /\ chunk_markdown(page) = Flushed(end.parts, IF end.inside THEN Append(end.part, Closing)
                                                        ELSE end.part)
           /\ Told(end) = Own(page)
           /\ Narrow(page) => Small(end)
<1> DEFINE n == Len(page)
           Up(k) == SubSeq(page, 1, k)
<1>1. PICK after \in [0..n -> LoopState] :
           /\ after[0] = AtStart
           /\ \A k \in 1..n : after[k] = Placed(after[k - 1], page[k])
           /\ chunk_markdown(page) =
                Flushed(after[n].parts,
                        IF after[n].inside THEN Append(after[n].part, Closing)
                        ELSE after[n].part)
  BY LoopIs
<1> DEFINE Good(k) == /\ after[k].opening.number = 0
                      /\ Told(after[k]) = Own(Up(k))
                      /\ Narrow(page) => Small(after[k])
           G == {k \in 0..n : Good(k)}
<1>2. n \in Nat /\ n \in 0..n /\ 0 \in 0..n /\ Up(0) = <<>> /\ Up(n) = page /\ DOMAIN page = 1..n
  OBVIOUS
<1>3. 0 \in G
  <2>1. /\ AtStart.parts = <<>> /\ AtStart.part = <<>> /\ AtStart.inside = FALSE
        /\ AtStart.opening = Closing
    BY DEF AtStart
  <2>2. Closing.number = 0
    BY ClosingType
  <2>3. <<>> \in Seq(LineType) /\ <<>> \in Seq(Seq(LineType))
    OBVIOUS
  <2>4. FlattenSeq(<<>>) = <<>>
    BY DEF FlattenSeq
  <2>5. Own(<<>>) = <<>>
    BY <2>3, OwnIsLines
  <2>6. Told(AtStart) = <<>>
    <3>1. <<>> \o <<>> = <<>>
      OBVIOUS
    <3> QED BY <2>1, <2>4, <2>5, <3>1 DEF Told
  <2>7. Small(AtStart)
    <3>1. PartSize(<<>>) = 0
      BY <2>3, ClosingType, SizeOfAppend
    <3>2. DOMAIN <<>> = {}
      OBVIOUS
    <3> QED BY <2>1, <3>1, <3>2, MessagePartsAssumption DEF Small
  <2> HIDE DEF Up, n
  <2>8. Good(0)
    BY <1>1, <1>2, <2>1, <2>2, <2>5, <2>6, <2>7
  <2> HIDE DEF Good
  <2> QED BY <1>2, <2>8
<1>4. ASSUME NEW k \in 0..(n - 1), k \in G
      PROVE  k + 1 \in G
  <2> DEFINE line == page[k + 1]
  <2>1. /\ k \in 0..n /\ k + 1 \in 0..n /\ k + 1 \in 1..n /\ (k + 1) - 1 = k
        /\ line \in LineType /\ Up(k) \in Seq(LineType) /\ Up(k + 1) = Append(Up(k), line)
    OBVIOUS
  <2>2. Good(k)
    BY <1>4
  <2>3. Narrow(page) => 2 * line.size + FenceSize <= MaxSize
    BY <1>2, <2>1 DEF Narrow
  <2> HIDE DEF line, Up, n, G
  <2>4. after[k + 1] = Placed(after[k], line) /\ after[k] \in LoopState
    BY <1>1, <2>1 DEF line
  <2>5. /\ Told(after[k + 1]) = Told(after[k]) \o OwnLine(line)
        /\ after[k + 1].opening.number = 0
    BY <2>1, <2>2, <2>4, PlacedTells
  <2>6. Told(after[k + 1]) = Own(Up(k + 1))
    BY <2>1, <2>2, <2>5, OwnOfAppend
  <2>7. Narrow(page) => Small(after[k + 1])
    BY <2>1, <2>2, <2>3, <2>4, PlacedSmall
  <2> QED BY <2>1, <2>5, <2>6, <2>7 DEF G
<1>5. \A k \in 0..n : k \in G
  <2> HIDE DEF G
  <2> QED BY <1>2, <1>3, <1>4, UpTo
<1>6. Good(n) /\ after[n] \in LoopState
  BY <1>1, <1>2, <1>5
<1> QED BY <1>1, <1>2, <1>6

\* The parts of a page tell its text, and fit.
LEMMA PagesKept ==
  ASSUME NEW page \in Seq(LineType)
  PROVE  PageKept(page)
<1> USE MessagePartsAssumption
<1>1. PICK end \in LoopState :
           /\ chunk_markdown(page) = Flushed(end.parts, IF end.inside THEN Append(end.part, Closing)
                                                        ELSE end.part)
           /\ Told(end) = Own(page)
           /\ Narrow(page) => Small(end)
  BY LoopKeeps
<1> DEFINE part == IF end.inside THEN Append(end.part, Closing) ELSE end.part
<1>2. end.parts \in Seq(Seq(LineType)) /\ end.part \in Seq(LineType) /\ end.inside \in BOOLEAN
  BY DEF LoopState
<1>3. part \in Seq(LineType)
  BY <1>2, ClosingType
<1>4. Own(end.part) \in Seq(LineType)
  BY <1>2, OwnIsLines
<1>5. Own(part) = Own(end.part)
  <2>1. Own(Append(end.part, Closing)) = Own(end.part) \o OwnLine(Closing)
    BY <1>2, ClosingType, OwnOfAppend
  <2>2. OwnLine(Closing) = <<>> /\ Own(end.part) \o <<>> = Own(end.part)
    BY <1>4, ClosingType DEF OwnLine
  <2> QED BY <2>1, <2>2
<1>6. chunk_markdown(page) = Flushed(end.parts, part)
  BY <1>1
<1>7. Narrow(page) => PartSize(part) <= MaxSize + FenceSize
  <2>1. PartSize(end.part) \in Nat /\ PartSize(Append(end.part, Closing)) = PartSize(end.part) + FenceSize
    BY <1>2, ClosingType, SizeOfAppend
  <2> QED BY <1>1, <1>2, <2>1 DEF Small
<1> HIDE DEF part
<1>8. Own(FlattenSeq(chunk_markdown(page))) = Own(page)
  BY <1>1, <1>2, <1>3, <1>5, <1>6, FlushedTells DEF Told
<1>9. ASSUME Narrow(page)
      PROVE  \A i \in DOMAIN chunk_markdown(page) :
               PartSize(chunk_markdown(page)[i]) <= MaxSize + FenceSize
  <2>1. \A i \in DOMAIN end.parts : PartSize(end.parts[i]) <= MaxSize + FenceSize
    BY <1>1, <1>9 DEF Small
  <2>2. MaxSize + FenceSize \in Nat
    OBVIOUS
  <2> QED BY <1>2, <1>3, <1>6, <1>7, <1>9, <2>1, <2>2, FlushedSmall
<1> QED BY <1>8, <1>9 DEF PageKept

-----------------------------------------------------------------------------
(* The parts of a plain text.                                              *)

\* The first part of a text that is too long is not empty and not too long.
LEMMA CutInside ==
  ASSUME NEW s \in Seq(Char), Len(s) > Limit
  PROVE  Cut(s) \in 1..Limit
<1> USE MessagePartsAssumption
<1> DEFINE breaks == {i \in (Least + 1)..Limit : s[i] = "newline"}
           last == SelectLastInSubSeq(s, Least + 1, Limit, LAMBDA c : c = "newline")
<1>1. Cut(s) = IF last = 0 THEN Limit ELSE last - 1
  BY DEF Cut
<1>2. last = IF breaks # {} THEN CHOOSE x \in breaks : \A y \in breaks : x >= y ELSE 0
  BY DEF SelectLastInSubSeq, Max
<1>3. CASE breaks = {}
  BY <1>1, <1>2, <1>3
<1>4. CASE breaks # {}
  <2> DEFINE T == {Limit - i : i \in breaks}
  <2>1. T \in SUBSET Nat /\ T # {}
    BY <1>4
  <2>2. PICK d \in T : \A e \in T : d <= e
    <3> HIDE DEF T
    <3> QED BY <2>1, LeastNat
  <2>3. PICK x \in breaks : d = Limit - x
    BY <2>2
  <2>4. ASSUME NEW y \in breaks PROVE x >= y
    <3>1. Limit - y \in T /\ x \in Nat /\ y \in Nat
      BY <2>3
    <3>2. Limit - x <= Limit - y
      BY <2>2, <2>3, <3>1
    <3> HIDE DEF T, breaks
    <3> QED BY <3>1, <3>2
  <2> HIDE DEF breaks
  <2>5. last \in breaks
    BY <1>2, <1>4, <2>4
  <2>6. last \in (Least + 1)..Limit
    BY <2>5 DEF breaks
  <2> HIDE DEF last
  <2> QED BY <1>1, <2>6
<1> QED BY <1>3, <1>4

\* A sequence is what its two pieces are, one after the other.
LEMMA TwoPieces ==
  ASSUME NEW A, NEW s \in Seq(A), NEW c \in 1..Len(s)
  PROVE  /\ SubSeq(s, 1, c) \in Seq(A) /\ Len(SubSeq(s, 1, c)) = c
         /\ SubSeq(s, c + 1, Len(s)) \in Seq(A) /\ Len(SubSeq(s, c + 1, Len(s))) = Len(s) - c
         /\ SubSeq(s, 1, c) \o SubSeq(s, c + 1, Len(s)) = s
<1> DEFINE n == Len(s)
           front == SubSeq(s, 1, c)
           back == SubSeq(s, c + 1, n)
<1>1. n \in Nat /\ c \in 1..n
  OBVIOUS
<1>2. front \in Seq(A) /\ Len(front) = c /\ \A i \in 1..c : front[i] = s[i]
  OBVIOUS
<1>3. back \in Seq(A) /\ Len(back) = n - c
  OBVIOUS
<1>4. \A i \in 1..(n - c) : back[i] = s[c + i]
  <2>1. \A i \in 1..(n - c) : back[i] = s[(c + 1) + i - 1]
    BY <1>1
  <2>2. \A i \in 1..(n - c) : (c + 1) + i - 1 = c + i
    BY <1>1
  <2> HIDE DEF back, n
  <2> QED BY <2>1, <2>2
<1> HIDE DEF front, back
<1>5. front \o back \in Seq(A) /\ Len(front \o back) = n
  <2> HIDE DEF n
  <2>1. front \o back \in Seq(A) /\ Len(front \o back) = Len(front) + Len(back)
    BY <1>2, <1>3, ConcatProperties
  <2> QED BY <1>1, <1>2, <1>3, <2>1
<1>6. ASSUME NEW i \in 1..n PROVE (front \o back)[i] = s[i]
  <2> HIDE DEF n
  <2>1. CASE i <= c
    <3>1. (front \o back)[i] = front[i] /\ i \in 1..c
      BY <1>1, <1>2, <1>3, <2>1
    <3> QED BY <1>2, <3>1
  <2>2. CASE ~(i <= c)
    <3>1. (front \o back)[i] = back[i - c] /\ i - c \in 1..(n - c) /\ c + (i - c) = i
      BY <1>1, <1>2, <1>3, <2>2
    <3> QED BY <1>4, <3>1
  <2> QED BY <2>1, <2>2
<1>7. front \o back = s
  <2> DEFINE both == front \o back
  <2>1. both \in Seq(A) /\ Len(both) = Len(s) /\ \A i \in 1..Len(s) : both[i] = s[i]
    BY <1>5, <1>6
  <2> HIDE DEF both
  <2>2. both = [i \in 1..Len(s) |-> both[i]] /\ s = [i \in 1..Len(s) |-> s[i]]
    BY <2>1
  <2>3. both = s
    BY <2>1, <2>2
  <2> QED BY <2>3 DEF both
<1> QED BY <1>1, <1>2, <1>3, <1>7 DEF front, back

\* The state of the loop that splits a text.
SplitState == [chunks : Seq(Seq(Char)), rest : Seq(Char)]

\* A turn of the loop leaves the text as it is, adds a small part if any, and takes
\* a character at least from a rest that is too long.
LEMMA SplitKeeps ==
  ASSUME NEW st \in SplitState
  PROVE  /\ Split(st) \in SplitState
         /\ FlattenSeq(Split(st).chunks) \o Split(st).rest = FlattenSeq(st.chunks) \o st.rest
         /\ (\A i \in DOMAIN st.chunks : Len(st.chunks[i]) <= Limit) =>
              \A i \in DOMAIN Split(st).chunks : Len(Split(st).chunks[i]) <= Limit
         /\ \A n \in Nat : Len(st.rest) <= Limit + n + 1 => Len(Split(st).rest) <= Limit + n
<1> USE MessagePartsAssumption
<1>1. st.chunks \in Seq(Seq(Char)) /\ st.rest \in Seq(Char) /\ Len(st.rest) \in Nat
  BY DEF SplitState
<1>2. CASE Len(st.rest) <= Limit
  <2>1. Split(st) = st
    BY <1>2 DEF Split
  <2> QED BY <1>1, <1>2, <2>1
<1>3. CASE ~(Len(st.rest) <= Limit)
  <2> DEFINE cut == Cut(st.rest)
             chunk == SubSeq(st.rest, 1, cut)
             rest == Remainder(st.rest)
  <2>1. cut \in 1..Limit
    BY <1>1, <1>3, CutInside
  <2>2. Split(st) = [chunks |-> Append(st.chunks, chunk), rest |-> rest]
    BY <1>3 DEF Split
  <2> HIDE DEF cut
  <2>3. cut \in 1..Len(st.rest)
    BY <1>1, <1>3, <2>1
  <2>4. rest = SubSeq(st.rest, cut + 1, Len(st.rest))
    BY DEF Remainder, cut
  <2>5. /\ chunk \in Seq(Char) /\ Len(chunk) = cut
        /\ rest \in Seq(Char) /\ Len(rest) = Len(st.rest) - cut
        /\ chunk \o rest = st.rest
    <3> HIDE DEF rest
    <3> QED BY <1>1, <2>3, <2>4, TwoPieces
  <2> HIDE DEF chunk, rest
  <2>6. /\ Split(st).chunks = Append(st.chunks, chunk) /\ Split(st).rest = rest
        /\ Append(st.chunks, chunk) \in Seq(Seq(Char))
    BY <1>1, <2>2, <2>5
  <2>7. Split(st) \in SplitState
    BY <2>2, <2>5, <2>6 DEF SplitState
  <2>8. FlattenSeq(Append(st.chunks, chunk)) \o rest = FlattenSeq(st.chunks) \o st.rest
    <3>1. /\ FlattenSeq(st.chunks) \in Seq(Char)
          /\ FlattenSeq(Append(st.chunks, chunk)) = FlattenSeq(st.chunks) \o chunk
      BY <1>1, <2>5, FlattenOfAppend
    <3> DEFINE all == FlattenSeq(st.chunks)
    <3>2. all \in Seq(Char) /\ chunk \in Seq(Char) /\ rest \in Seq(Char)
      BY <2>5, <3>1
    <3>3. FlattenSeq(Append(st.chunks, chunk)) = all \o chunk
      BY <3>1
    <3> HIDE DEF all
    <3>4. (all \o chunk) \o rest = all \o (chunk \o rest)
      BY <3>2
    <3>5. FlattenSeq(Append(st.chunks, chunk)) \o rest = all \o st.rest
      BY <2>5, <3>3, <3>4
    <3> QED BY <3>5 DEF all
  <2>9. (\A i \in DOMAIN st.chunks : Len(st.chunks[i]) <= Limit) =>
           \A i \in DOMAIN Append(st.chunks, chunk) : Len(Append(st.chunks, chunk)[i]) <= Limit
    <3> SUFFICES ASSUME \A i \in DOMAIN st.chunks : Len(st.chunks[i]) <= Limit,
                        NEW i \in DOMAIN Append(st.chunks, chunk)
                 PROVE  Len(Append(st.chunks, chunk)[i]) <= Limit
      OBVIOUS
    <3>1. CASE i = Len(st.chunks) + 1
      <4>1. Append(st.chunks, chunk)[i] = chunk
        BY <1>1, <3>1
      <4> QED BY <2>1, <2>5, <4>1
    <3>2. CASE i # Len(st.chunks) + 1
      <4>1. Len(Append(st.chunks, chunk)) = Len(st.chunks) + 1
        BY <1>1, AppendProperties
      <4>2. i \in DOMAIN st.chunks
        BY <1>1, <2>6, <3>2, <4>1
      <4>3. Append(st.chunks, chunk)[i] = st.chunks[i]
        BY <1>1, <4>2
      <4> QED BY <4>2, <4>3
    <3> QED BY <3>1, <3>2
  <2>10. \A n \in Nat : Len(st.rest) <= Limit + n + 1 => Len(rest) <= Limit + n
    BY <1>1, <2>1, <2>5
  <2> QED BY <2>6, <2>7, <2>8, <2>9, <2>10
<1> QED BY <1>2, <1>3

\* The loop that splits a text goes through states of its type, each from the one before.
LEMMA SplitLoopIs ==
  ASSUME NEW s \in Seq(Char)
  PROVE  \E after \in [0..Len(s) -> SplitState] :
           /\ after[0] = [chunks |-> <<>>, rest |-> s]
           /\ \A k \in 1..Len(s) : after[k] = Split(after[k - 1])
           /\ split_telegram(s) = Append(after[Len(s)].chunks, after[Len(s)].rest)
<1> DEFINE n == Len(s)
           start == [chunks |-> <<>>, rest |-> s]
           step == [k \in 1..n |-> [st \in SplitState |-> Split(st)]]
           after == CHOOSE f : f = [k \in 0..n |-> IF k = 0 THEN start ELSE Split(f[k - 1])]
<1>1. n \in Nat /\ n \in 0..n
  OBVIOUS
<1>2. start \in SplitState
  BY DEF SplitState
<1>3. step \in StepsIn(SplitState, n)
  BY SplitKeeps DEF StepsIn
<1>4. split_telegram(s) = Append(after[n].chunks, after[n].rest)
  BY DEF split_telegram
<1> HIDE DEF start
<1>5. PICK f : Follows(f, SplitState, n, start, step)
  <2> HIDE DEF step, n
  <2> QED BY <1>1, <1>2, <1>3, Recursion
<1>6. /\ f \in [0..n -> SplitState] /\ f[0] = start
      /\ \A k \in 1..n : f[k] = Split(f[k - 1])
  <2>1. \A k \in 1..n : k - 1 \in 0..n
    BY <1>1
  <2>2. f \in [0..n -> SplitState] /\ f[0] = start
    BY <1>5 DEF Follows
  <2>3. \A k \in 1..n : f[k - 1] \in SplitState /\ f[k] = step[k][f[k - 1]]
    BY <1>5, <2>1 DEF Follows
  <2> QED BY <2>2, <2>3
<1>7. f = [k \in 0..n |-> IF k = 0 THEN start ELSE Split(f[k - 1])]
  <2> HIDE DEF step, n
  <2>1. \A k \in 0..n : k = 0 \/ k \in 1..n
    BY <1>1
  <2> QED BY <1>6, <2>1
<1>8. after = [k \in 0..n |-> IF k = 0 THEN start ELSE Split(after[k - 1])]
  BY <1>7
<1> HIDE DEF after, step, n
<1>9. \A k \in 0..n : after[k] = f[k]
  <2> DEFINE G == {k \in 0..n : after[k] = f[k]}
  <2>1. 0 \in G
    <3>1. after[0] = start /\ 0 \in 0..n
      BY <1>1, <1>8
    <3> QED BY <1>6, <3>1
  <2>2. ASSUME NEW k \in 0..(n - 1), k \in G
        PROVE  k + 1 \in G
    <3>1. /\ k + 1 \in 1..n /\ k + 1 \in 0..n /\ (k + 1) - 1 = k /\ k + 1 # 0
          /\ after[k] = f[k]
      BY <1>1, <2>2
    <3>2. after[k + 1] = Split(after[k])
      BY <1>8, <3>1
    <3>3. f[k + 1] = Split(f[k])
      BY <1>6, <3>1
    <3> QED BY <3>1, <3>2, <3>3
  <2> HIDE DEF G
  <2>3. \A k \in 0..n : k \in G
    BY <1>1, <2>1, <2>2, UpTo
  <2> QED BY <2>3 DEF G
<1>10. after[n] = f[n]
  BY <1>1, <1>9
<1>11. split_telegram(s) = Append(f[n].chunks, f[n].rest)
  BY <1>4, <1>10
<1> QED BY <1>6, <1>11 DEF n, start

\* The parts of a plain text are the text, and none is too long.
LEMMA TextsKept ==
  ASSUME NEW s \in Seq(Char)
  PROVE  PlainKept(s)
<1> USE MessagePartsAssumption
<1> DEFINE n == Len(s)
<1>1. PICK after \in [0..n -> SplitState] :
           /\ after[0] = [chunks |-> <<>>, rest |-> s]
           /\ \A k \in 1..n : after[k] = Split(after[k - 1])
           /\ split_telegram(s) = Append(after[n].chunks, after[n].rest)
  BY SplitLoopIs
<1> DEFINE Short(parts) == \A i \in DOMAIN parts : Len(parts[i]) <= Limit
           Good(k) == /\ FlattenSeq(after[k].chunks) \o after[k].rest = s
                      /\ Short(after[k].chunks)
                      /\ Len(after[k].rest) <= Limit + (n - k)
           G == {k \in 0..n : Good(k)}
<1>2. n \in Nat /\ n \in 0..n /\ 0 \in 0..n
  OBVIOUS
<1>3. 0 \in G
  <2>1. after[0].chunks = <<>> /\ after[0].rest = s
    BY <1>1
  <2>2. FlattenSeq(<<>>) = <<>> /\ <<>> \o s = s /\ DOMAIN <<>> = {}
    BY DEF FlattenSeq
  <2>3. Good(0)
    BY <1>2, <2>1, <2>2
  <2> HIDE DEF Good
  <2> QED BY <1>2, <2>3
<1>4. ASSUME NEW k \in 0..(n - 1), k \in G
      PROVE  k + 1 \in G
  <2>1. k \in 0..n /\ k + 1 \in 0..n /\ k + 1 \in 1..n /\ (k + 1) - 1 = k
    BY <1>2
  <2>2. Good(k)
    BY <1>4
  <2>3. after[k + 1] = Split(after[k]) /\ after[k] \in SplitState
    BY <1>1, <2>1
  <2> DEFINE left == n - (k + 1)
  <2>4. left \in Nat /\ n - k = left + 1 /\ Limit + (n - k) = Limit + left + 1
    BY <1>2, <2>1
  <2> HIDE DEF n, left
  <2>5. /\ FlattenSeq(Split(after[k]).chunks) \o Split(after[k]).rest
             = FlattenSeq(after[k].chunks) \o after[k].rest
        /\ Short(Split(after[k]).chunks)
        /\ Len(Split(after[k]).rest) <= Limit + left
    BY <2>2, <2>3, <2>4, SplitKeeps
  <2>6. Good(k + 1)
    BY <2>2, <2>3, <2>5 DEF left
  <2> HIDE DEF Good
  <2> QED BY <2>1, <2>6
<1>5. \A k \in 0..n : k \in G
  <2> HIDE DEF G
  <2> QED BY <1>2, <1>3, <1>4, UpTo
<1>6. Good(n) /\ after[n] \in SplitState
  BY <1>1, <1>2, <1>5
<1> DEFINE chunks == after[n].chunks
           rest == after[n].rest
<1>7. chunks \in Seq(Seq(Char)) /\ rest \in Seq(Char) /\ Len(rest) <= Limit /\ Short(chunks)
  <2>1. Limit + (n - n) = Limit
    BY <1>2
  <2> QED BY <1>6, <2>1 DEF SplitState
<1>8. split_telegram(s) = Append(chunks, rest) /\ FlattenSeq(chunks) \o rest = s
  BY <1>1, <1>6
<1> HIDE DEF chunks, rest
<1>9. FlattenSeq(Append(chunks, rest)) = s
  <2>1. chunks \in Seq(Seq(Char)) /\ rest \in Seq(Char)
    BY <1>7
  <2>2. FlattenSeq(Append(chunks, rest)) = FlattenSeq(chunks) \o rest
    BY <2>1, FlattenOfAppend
  <2> QED BY <1>8, <2>2
<1>10. ASSUME NEW i \in DOMAIN Append(chunks, rest)
       PROVE  Len(Append(chunks, rest)[i]) <= Limit
  <2>1. CASE i = Len(chunks) + 1
    <3>1. Append(chunks, rest)[i] = rest
      BY <1>7, <2>1
    <3> QED BY <1>7, <3>1
  <2>2. CASE i # Len(chunks) + 1
    <3>1. i \in DOMAIN chunks /\ Append(chunks, rest)[i] = chunks[i]
      BY <1>7, <2>2
    <3> QED BY <1>7, <3>1
  <2> QED BY <2>1, <2>2
<1> QED BY <1>8, <1>9, <1>10 DEF PlainKept

\* The lines of a page are lines.
LEMMA PageType ==
  ASSUME NEW page \in Seq(PageLine)
  PROVE  page \in Seq(LineType)
<1>1. \A line \in PageLine : line \in LineType
  BY DEF PageLine, LineType
<1>2. \A i \in 1..Len(page) : page[i] \in LineType
  BY <1>1
<1> QED BY <1>2

\* Of every text and page, all is kept.
LEMMA EverythingKept == AllKept
<1>1. \A s \in Texts : PlainKept(s)
  BY TextsKept, MessagePartsAssumption
<1>2. \A page \in Pages : PageKept(page)
  <2>1. \A page \in Pages : page \in Seq(LineType)
    BY PageType, MessagePartsAssumption
  <2> QED BY <2>1, PagesKept
<1> QED BY <1>1, <1>2 DEF AllKept

\* What is sent has a number of parts.
LEMMA OutgoingType ==
  Outgoing \subseteq [form : {"photo", "plain", "markdown"}, count : Nat]
<1> SUFFICES ASSUME NEW m \in Messages, NEW due \in BOOLEAN
             PROVE  /\ m.form \in {"photo", "plain", "markdown"}
                    /\ Len(Parts(m.form, IF due /\ m.form # "photo" THEN WithBudget(m.form, m.body)
                                         ELSE m.body)) \in Nat
  BY DEF Outgoing
<1> DEFINE body == IF due /\ m.form # "photo" THEN WithBudget(m.form, m.body) ELSE m.body
<1>1. \/ m.form \in {"photo", "plain"} /\ m.body \in Seq(Char)
      \/ m.form = "markdown" /\ m.body \in Seq(PageLine)
  BY TelegramAssumption
<1>2. CASE m.form = "photo"
  <2>1. Parts(m.form, body) = <<body>>
    BY <1>2 DEF Parts
  <2> QED BY <1>2, <2>1
<1>3. CASE m.form = "plain"
  <2>1. m.body \in Seq(Char)
    BY <1>1, <1>3
  <2>2. <<"newline", "letter">> \in Seq(Char)
    BY DEF Char
  <2>3. m.body \o <<"newline", "letter">> \in Seq(Char)
    <3> HIDE DEF Char
    <3> QED BY <2>1, <2>2
  <2>4. body \in Seq(Char)
    BY <1>3, <2>1, <2>3 DEF WithBudget
  <2>5. Parts(m.form, body) \in {<<>>, split_telegram(body)}
    BY <1>3 DEF Parts
  <2> HIDE DEF body
  <2>6. Len(split_telegram(body)) \in Nat /\ Len(<<>>) \in Nat
    <3>1. PICK after \in [0..Len(body) -> SplitState] :
            split_telegram(body) = Append(after[Len(body)].chunks, after[Len(body)].rest)
      BY <2>4, SplitLoopIs
    <3>2. after[Len(body)] \in SplitState
      BY <2>4, <3>1
    <3>3. Append(after[Len(body)].chunks, after[Len(body)].rest) \in Seq(Seq(Char))
      BY <3>2 DEF SplitState
    <3> QED BY <3>1, <3>3
  <2> QED BY <1>3, <2>5, <2>6 DEF body
<1>4. CASE m.form = "markdown"
  <2>1. m.body \in Seq(PageLine)
    BY <1>1, <1>4
  <2>2. Line(Len(m.body) + 1, 1, "text") \in PageLine
    BY <2>1 DEF Line, PageLine
  <2>3. m.body \o <<Line(Len(m.body) + 1, 1, "text")>> \in Seq(PageLine)
    BY <2>1, <2>2
  <2>4. body \in Seq(LineType)
    BY <1>4, <2>1, <2>3, PageType DEF WithBudget
  <2>5. Parts(m.form, body) = chunk_markdown(body)
    BY <1>4 DEF Parts
  <2> HIDE DEF body
  <2>6. PICK end \in LoopState :
          chunk_markdown(body) = Flushed(end.parts, IF end.inside THEN Append(end.part, Closing)
                                                    ELSE end.part)
    BY <2>4, LoopKeeps
  <2>7. /\ end.parts \in Seq(Seq(LineType))
        /\ (IF end.inside THEN Append(end.part, Closing) ELSE end.part) \in Seq(LineType)
    BY ClosingType DEF LoopState
  <2>8. chunk_markdown(body) \in Seq(Seq(LineType))
    BY <2>6, <2>7, FlushedTells
  <2> QED BY <1>4, <2>5, <2>8 DEF body
<1> QED BY <1>1, <1>2, <1>3, <1>4

-----------------------------------------------------------------------------
(* Types.                                                                  *)

\* The type of the message that is being sent.
SendingType ==
  [message : Nat, form : {"photo", "plain", "markdown", "stripped"}, part : Nat, count : Nat]

\* What a step of the sending does to the message.
LEMMA Moves ==
  ASSUME sending \in SendingType
  PROVE  /\ NextPart => sending' \in SendingType
         /\ PartFails => sending' \in SendingType
<1>1. Nothing \in SendingType BY DEF Nothing, SendingType
<1>2. ASSUME NEW f \in {"photo", "plain", "markdown", "stripped"}
      PROVE  [sending EXCEPT !.form = f] \in SendingType
  BY DEF SendingType
<1>3. [sending EXCEPT !.part = @ + 1, !.form = IF @ = "stripped" THEN "markdown" ELSE @]
        \in SendingType
  <2>1. sending.part + 1 \in Nat BY DEF SendingType
  <2> QED BY <2>1 DEF SendingType
<1> QED BY <1>1, <1>2, <1>3 DEF NextPart, PartFails, GiveUp

\* A part that arrives is the last of the chat.
LEMMA Arrived ==
  ASSUME chat \in Seq(Nat \X Nat), sending \in SendingType, Arrives
  PROVE  /\ chat' \in Seq(Nat \X Nat) /\ Len(chat) <= Len(chat')
         /\ \A i \in DOMAIN chat : chat'[i] = chat[i]
         /\ chat' # <<>> /\ chat'[Len(chat')] = <<sending.message, sending.part>>
<1> DEFINE p == <<sending.message, sending.part>>
<1>1. p \in Nat \X Nat BY DEF SendingType
<1>2. CASE chat # <<>> /\ chat[Len(chat)] = p BY <1>2 DEF Arrives
<1>3. CASE ~(chat # <<>> /\ chat[Len(chat)] = p)
  <2>1. chat' = Append(chat, p) BY <1>3 DEF Arrives
  <2> HIDE DEF p
  <2> QED BY <1>1, <2>1 DEF p
<1> QED BY <1>2, <1>3

\* Every step keeps the types.
LEMMA StepTypes ==
  ASSUME TypeOK, [Next]_vars
  PROVE  TypeOK'
<1> USE TelegramAssumption DEF telegram, inbound, outbound
<1>0. sending \in SendingType BY DEF TypeOK, SendingType
<1>1. CASE OwnerWrites
  <2>1. updates' \in Seq({"text", "other"}) /\ DOMAIN updates \subseteq DOMAIN updates'
    <3>1. PICK u \in {"text", "other"} : updates' = Append(updates, u)
      BY <1>1 DEF OwnerWrites
    <3>2. updates \in Seq({"text", "other"}) BY DEF TypeOK
    <3> QED BY <3>1, <3>2
  <2> QED BY <1>1, <2>1 DEF OwnerWrites, TypeOK
<1>2. CASE WorkerSends
  <2>1. written' \in Nat /\ events' \in Seq(Nat)
    <3>1. written + 1 \in Nat BY DEF TypeOK
    <3> QED BY <1>2, <3>1 DEF WorkerSends, TypeOK
  <2> QED BY <1>2, <2>1 DEF WorkerSends, TypeOK
<1>3. CASE PollAnswered
  <2>1. Confirmed \in Nat BY DEF TypeOK, Confirmed
  <2> QED BY <1>3, <2>1 DEF PollAnswered, Pending, TypeOK
<1>4. CASE PollUnanswered
  <2>1. Confirmed \in Nat BY DEF TypeOK, Confirmed
  <2> QED BY <1>4, <2>1 DEF PollUnanswered, TypeOK
<1>5. ASSUME NEW u \in batch, Handle(u) PROVE TypeOK'
  <2>1. u \in DOMAIN updates /\ u \in Nat BY DEF TypeOK
  <2>2. offset' \in Nat BY <1>5, <2>1 DEF Handle, OffsetAfter
  <2>3. tasks' \in Seq(Nat)
    <3>1. tasks' = tasks \/ tasks' = Append(tasks, u) BY <1>5 DEF Handle
    <3>2. tasks \in Seq(Nat) BY DEF TypeOK
    <3> QED BY <2>1, <3>1, <3>2
  <2> QED BY <1>5, <2>1, <2>2, <2>3 DEF Handle, TypeOK
<1>6. CASE EndBatch BY <1>6 DEF EndBatch, TypeOK
<1>7. CASE BeginMessage
  <2>1. Head(events) \in Nat /\ Tail(events) \in Seq(Nat) BY <1>7 DEF BeginMessage, TypeOK
  <2>2. sending' \in SendingType
    BY <1>0, <1>7, <2>1, OutgoingType DEF BeginMessage, SendingType
  <2> QED BY <1>7, <2>1, <2>2 DEF BeginMessage, TypeOK, SendingType
<1>8. CASE EndDrain BY <1>8 DEF EndDrain, TypeOK
<1>9. CASE SendAnswered
  <2>1. sending' \in SendingType BY <1>0, <1>9, Moves DEF SendAnswered
  <2>2. chat' \in Seq(Nat \X Nat) BY <1>0, <1>9, Arrived DEF SendAnswered, TypeOK
  <2>3. reported' \subseteq Nat \X Nat /\ phase' \in {"events", "send"}
    BY SMTT(20), <1>0, <1>9 DEF SendAnswered, NextPart, TypeOK, SendingType
  <2> QED BY <1>9, <2>1, <2>2, <2>3 DEF SendAnswered, TypeOK, SendingType
<1>10. CASE SendUnanswered
  <2>1. sending' \in SendingType BY <1>0, <1>10, Moves DEF SendUnanswered
  <2>2. chat' \in Seq(Nat \X Nat) BY <1>0, <1>10, Arrived DEF SendUnanswered, TypeOK
  <2>3. UNCHANGED reported /\ phase' \in {"events", "send"}
    BY <1>10 DEF SendUnanswered, PartFails, GiveUp
  <2>4. tries' \in 0..Attempts - 1 BY <1>10 DEF SendUnanswered, TypeOK
  <2> QED BY <1>10, <2>1, <2>2, <2>3, <2>4 DEF SendUnanswered, TypeOK, SendingType
<1>11. CASE Restart BY <1>11 DEF Restart, TypeOK, Nothing
<1>12. CASE UNCHANGED vars BY <1>12 DEF vars, TypeOK
<1> QED BY <1>1, <1>2, <1>3, <1>4, <1>5, <1>6, <1>7, <1>8, <1>9, <1>10, <1>11, <1>12
    DEF Next, Receive, Send

-----------------------------------------------------------------------------
(* The updates.                                                            *)

\* What is promised about the updates and the tasks.
Inbound == Bounded /\ Followed /\ Gapless /\ Handled /\ TasksInOrder

\* Every step keeps it.
LEMMA StepInbound ==
  ASSUME TypeOK, Inbound, [Next]_vars
  PROVE  Inbound'
<1> USE DEF telegram, inbound, outbound
<1>0. TypeOK' BY StepTypes
<1>1. CASE OwnerWrites
  <2>1. /\ Len(updates') = Len(updates) + 1 /\ UNCHANGED <<confirmed, inbound>>
        /\ \A v \in DOMAIN updates : updates'[v] = updates[v]
    BY <1>1 DEF OwnerWrites, TypeOK
  <2>2. /\ Len(updates) \in Nat /\ confirmed \in Nat /\ offset \in Nat
        /\ DOMAIN updates = 1..Len(updates) /\ DOMAIN updates' = 1..Len(updates) + 1
    BY <1>1 DEF OwnerWrites, TypeOK
  <2>3. Bounded' BY <2>1, <2>2 DEF Inbound, Bounded
  <2>4. Followed' BY <2>1, <2>2 DEF Inbound, Bounded, Followed
  <2>5. Gapless'
    <3> SUFFICES ASSUME NEW u \in batch
                 PROVE  /\ u >= offset
                        /\ \A v \in DOMAIN updates' :
                             v < u /\ updates'[v] = "text" => v \in made \/ v \in batch
      BY <2>1 DEF Gapless
    <3>1. u \in DOMAIN updates BY DEF TypeOK
    <3>2. \A v \in DOMAIN updates' : v < u => v \in DOMAIN updates BY <2>2, <3>1
    <3> QED BY <2>1, <3>2 DEF Inbound, Gapless
  <2> QED BY <2>1, <2>3, <2>4, <2>5 DEF Inbound, Handled, TasksInOrder
<1>2. CASE PollAnswered
  <2>1. /\ confirmed' = Confirmed /\ UNCHANGED <<updates, offset, tasks, made>>
        /\ batch' \subseteq Pending
        /\ \E n \in Nat : batch' = {u \in Pending : u <= n}
    <3>1. PICK n \in DOMAIN updates \cup {0} : batch' = {u \in Pending : u <= n}
      BY <1>2 DEF PollAnswered
    <3>2. n \in Nat BY DEF TypeOK
    <3>3. batch' \subseteq Pending BY <3>1
    <3>4. confirmed' = Confirmed /\ UNCHANGED <<updates, offset, tasks, made>>
      BY <1>2 DEF PollAnswered
    <3> QED BY <3>1, <3>2, <3>3, <3>4
  <2>2. Bounded' /\ Followed' BY <2>1 DEF TypeOK, Inbound, Bounded, Followed, Confirmed
  <2>3. \A u \in batch' : u \in DOMAIN updates /\ u >= offset BY <2>1 DEF Pending
  <2>4. Gapless'
    <3> SUFFICES ASSUME NEW u \in batch', NEW v \in DOMAIN updates,
                        v < u, updates[v] = "text", v \notin made
                 PROVE  v \in batch'
      BY <2>1, <2>3 DEF Gapless
    <3>1. PICK n \in Nat : batch' = {w \in Pending : w <= n} BY <2>1
    <3>2. v > Confirmed /\ v >= offset
      BY DEF TypeOK, Inbound, Followed, Confirmed
    <3>3. u <= n /\ u \in DOMAIN updates BY <3>1, <2>3
    <3>4. v <= n BY <3>3 DEF TypeOK
    <3> QED BY <3>1, <3>2, <3>3, <3>4 DEF Pending, TypeOK
  <2> QED BY <2>1, <2>2, <2>4 DEF Inbound, Handled, TasksInOrder
<1>3. CASE PollUnanswered
  <2>1. UNCHANGED <<updates, inbound>> /\ confirmed' \in {confirmed, Confirmed}
    BY <1>3 DEF PollUnanswered
  <2>2. Bounded' /\ Followed' BY <2>1 DEF TypeOK, Inbound, Bounded, Followed, Confirmed
  <2> QED BY <2>1, <2>2 DEF Inbound, Gapless, Handled, TasksInOrder
<1>4. ASSUME NEW u \in batch, Handle(u) PROVE Inbound'
  <2>1. /\ u \in DOMAIN updates /\ u >= offset /\ offset' = u + 1
        /\ UNCHANGED telegram /\ (batch' = batch \ {u} \/ batch' = {})
        /\ \A v \in batch : u <= v
        /\ \A v \in DOMAIN updates : v < u /\ updates[v] = "text" => v \in made \/ v \in batch
    BY <1>4 DEF Handle, Earliest, OffsetAfter, TypeOK, Inbound, Gapless
  <2>2. /\ DOMAIN updates = 1..Len(updates) /\ Len(updates) \in Nat
        /\ batch \subseteq DOMAIN updates /\ u \in Nat /\ offset \in Nat
    BY <2>1 DEF TypeOK
  <2>3. IF updates[u] = "text" THEN tasks' = Append(tasks, u) /\ made' = made \cup {u}
        ELSE UNCHANGED <<tasks, made>>
    BY <1>4 DEF Handle
  <2>4. \A v \in DOMAIN updates : v <= u /\ updates[v] = "text" => v \in made'
    <3> SUFFICES ASSUME NEW v \in DOMAIN updates, v <= u, updates[v] = "text"
                 PROVE  v \in made'
      OBVIOUS
    <3>1. CASE v = u BY <2>3, <3>1
    <3>2. CASE v # u
      <4>1. v < u BY <2>2, <3>2
      <4>2. v \notin batch BY <2>1, <2>2, <4>1
      <4> QED BY <2>1, <2>3, <4>1, <4>2
    <3> QED BY <3>1, <3>2
  <2>5. Bounded' BY <2>1, <2>2 DEF Inbound, Bounded
  <2>6. Followed' BY <2>1, <2>2, <2>3, <2>4 DEF Inbound, Followed
  <2>7. Gapless'
    <3>1. \A w \in batch' : w \in batch /\ w > u BY <2>1, <2>2
    <3>2. made \subseteq made' BY <2>3
    <3>3. CASE batch' = {} BY <3>3 DEF Gapless
    <3>4. CASE batch' = batch \ {u}
      BY <2>1, <2>2, <2>4, <3>1, <3>2, <3>4 DEF Inbound, Gapless
    <3> QED BY <2>1, <3>3, <3>4
  <2>8. \A i \in DOMAIN tasks : tasks[i] < u
    BY <2>1, <2>2 DEF TypeOK, Inbound, Handled
  <2>9. Handled' /\ TasksInOrder'
    <3>1. CASE UNCHANGED tasks
      BY <2>1, <2>2, <2>8, <3>1 DEF TypeOK, Inbound, Handled, TasksInOrder
    <3>2. CASE tasks' = Append(tasks, u)
      <4>1. /\ DOMAIN tasks' = 1..Len(tasks) + 1 /\ DOMAIN tasks = 1..Len(tasks)
            /\ Len(tasks) \in Nat
            /\ \A i \in DOMAIN tasks : tasks'[i] = tasks[i] /\ tasks[i] \in Nat
            /\ tasks'[Len(tasks) + 1] = u
        BY <2>2, <3>2 DEF TypeOK
      <4> QED BY <2>1, <2>2, <2>8, <4>1 DEF Inbound, Handled, TasksInOrder
    <3> QED BY <2>3, <3>1, <3>2
  <2> QED BY <2>5, <2>6, <2>7, <2>9 DEF Inbound
<1>5. CASE Restart
  <2>1. /\ UNCHANGED <<telegram, made>> /\ offset' = 0 /\ batch' = {} /\ tasks' = <<>>
    BY <1>5 DEF Restart
  <2> QED BY <2>1 DEF TypeOK, Inbound, Bounded, Followed, Gapless, Handled, TasksInOrder
<1>6. CASE UNCHANGED <<telegram, inbound>>
  BY <1>6 DEF Inbound, Bounded, Followed, Gapless, Handled, TasksInOrder
<1>7. CASE EndBatch \/ WorkerSends \/ Send \/ UNCHANGED vars
  <2>1. UNCHANGED <<telegram, inbound>>
    BY <1>7 DEF EndBatch, WorkerSends, Send, BeginMessage, EndDrain, SendAnswered,
       SendUnanswered, vars
  <2> QED BY <1>6, <2>1
<1> QED BY <1>1, <1>2, <1>3, <1>4, <1>5, <1>7 DEF Next, Receive

-----------------------------------------------------------------------------
(* The messages.                                                           *)

\* What is promised about the messages and the chat.
Outbound == Sent /\ PartsInOrder

\* A part that arrives is in its place, and the next one may follow.
LEMMA ArrivedInOrder ==
  ASSUME TypeOK, Outbound, phase = "send", Arrives
  PROVE  /\ \A i, j \in DOMAIN chat' : i < j => Before(chat'[i], chat'[j])
         /\ \A j \in DOMAIN chat' : chat'[j][2] > 1 =>
              \E i \in 1..j : chat'[i] = <<chat'[j][1], chat'[j][2] - 1>>
         /\ \A i \in DOMAIN chat' : Before(chat'[i], <<sending.message, sending.part + 1>>)
         /\ \A i \in DOMAIN chat' : chat'[i][1] <= written
         /\ \A i \in DOMAIN chat', j \in DOMAIN events : chat'[i][1] < events[j]
         /\ \E i \in DOMAIN chat' : chat'[i] = <<sending.message, sending.part>>
         /\ \A r \in reported : \E i \in DOMAIN chat' : chat'[i] = r
<1> DEFINE m == sending.message
           p == sending.part
           n == Len(chat)
<1>1. /\ m \in Nat /\ p \in Nat /\ n \in Nat /\ written \in Nat
      /\ DOMAIN chat = 1..n /\ \A i \in DOMAIN chat : chat[i][1] \in Nat /\ chat[i][2] \in Nat
      /\ \A i \in DOMAIN chat : chat[i] = <<chat[i][1], chat[i][2]>>
      /\ \A i \in DOMAIN events : events[i] \in Nat
  BY SMTT(20) DEF TypeOK
<1>2. /\ \A i \in DOMAIN chat : Before(chat[i], <<m, p + 1>>)
      /\ p >= 1 /\ p > 1 => \E i \in DOMAIN chat : chat[i] = <<m, p - 1>>
      /\ m <= written /\ \A j \in DOMAIN events : m < events[j]
      /\ \A i \in DOMAIN chat : chat[i][1] <= written /\ \A j \in DOMAIN events : chat[i][1] < events[j]
  BY DEF Outbound, Sent
<1>3. /\ \A i, j \in DOMAIN chat : i < j => Before(chat[i], chat[j])
      /\ \A j \in DOMAIN chat : chat[j][2] > 1 =>
           \E i \in 1..j : chat[i] = <<chat[j][1], chat[j][2] - 1>>
      /\ \A r \in reported : \E i \in DOMAIN chat : chat[i] = r
  BY DEF Outbound, PartsInOrder
<1>4. CASE chat # <<>> /\ chat[n] = <<m, p>>
  <2>1. chat' = chat BY <1>4 DEF Arrives
  <2>2. n \in DOMAIN chat BY <1>4 DEF TypeOK
  <2> QED BY <1>1, <1>2, <1>3, <1>4, <2>1, <2>2
<1>5. CASE ~(chat # <<>> /\ chat[n] = <<m, p>>)
  <2>1. chat' = Append(chat, <<m, p>>) BY <1>5 DEF Arrives
  <2>2. /\ DOMAIN chat' = 1..n + 1 /\ chat'[n + 1] = <<m, p>>
        /\ \A i \in 1..n : chat'[i] = chat[i]
    BY <1>1, <2>1 DEF TypeOK
  <2>3. \A i \in 1..n : Before(chat[i], <<m, p>>)
    <3> SUFFICES ASSUME NEW i \in 1..n, ~Before(chat[i], <<m, p>>)
                 PROVE  FALSE
      OBVIOUS
    <3>1. chat[i] = <<m, p>> BY <1>1, <1>2 DEF Before
    <3>2. n \in 1..n /\ chat # <<>> BY <1>1
    <3>3. i < n BY <1>1, <1>5, <3>1, <3>2
    <3>4. Before(chat[i], chat[n]) BY <1>1, <1>3, <3>2, <3>3
    <3>5. Before(chat[n], <<m, p + 1>>) BY <1>1, <1>2, <3>2
    <3>6. chat[n] = <<chat[n][1], chat[n][2]>> /\ chat[n][1] \in Nat /\ chat[n][2] \in Nat
      BY <1>1, <3>2
    <3> QED BY <1>1, <3>1, <3>4, <3>5, <3>6 DEF Before
  <2>4. \A i, j \in DOMAIN chat' : i < j => Before(chat'[i], chat'[j])
    <3> SUFFICES ASSUME NEW i \in 1..n + 1, NEW j \in 1..n + 1, i < j
                 PROVE  Before(chat'[i], chat'[j])
      BY <2>2
    <3>1. i \in 1..n BY <1>1
    <3>2. CASE j = n + 1
      <4>1. chat'[j] = <<m, p>> /\ chat'[i] = chat[i] BY <2>2, <3>1, <3>2
      <4> QED BY <2>3, <3>1, <4>1
    <3>3. CASE j \in 1..n
      <4>1. chat'[j] = chat[j] /\ chat'[i] = chat[i] BY <2>2, <3>1, <3>3
      <4> QED BY <1>1, <1>3, <3>1, <3>3, <4>1
    <3> QED BY <1>1, <3>2, <3>3
  <2>5. \A j \in DOMAIN chat' : chat'[j][2] > 1 =>
          \E i \in 1..j : chat'[i] = <<chat'[j][1], chat'[j][2] - 1>>
    <3> SUFFICES ASSUME NEW j \in 1..n + 1, chat'[j][2] > 1
                 PROVE  \E i \in 1..j : chat'[i] = <<chat'[j][1], chat'[j][2] - 1>>
      BY <2>2
    <3>1. CASE j = n + 1
      <4>1. chat'[j] = <<m, p>> BY <2>2, <3>1
      <4>2. p > 1 BY <4>1
      <4>3. PICK i \in 1..n : chat[i] = <<m, p - 1>> BY SMTT(20), <1>1, <1>2, <4>2
      <4>4. i \in 1..j /\ chat'[i] = chat[i] BY <1>1, <2>2, <3>1
      <4> QED BY <4>1, <4>3, <4>4
    <3>2. CASE j \in 1..n
      <4>1. PICK i \in 1..j : chat[i] = <<chat[j][1], chat[j][2] - 1>>
        BY <1>1, <1>3, <2>2, <3>2
      <4>2. i \in 1..n BY <1>1, <3>2
      <4> QED BY <2>2, <3>2, <4>1, <4>2
    <3> QED BY <1>1, <3>1, <3>2
  <2>6. \A i \in DOMAIN chat' : Before(chat'[i], <<m, p + 1>>)
    BY <1>1, <1>2, <2>2 DEF Before
  <2>7. /\ \A i \in DOMAIN chat' : chat'[i][1] <= written
        /\ \A i \in DOMAIN chat', j \in DOMAIN events : chat'[i][1] < events[j]
    <3> SUFFICES ASSUME NEW i \in 1..n + 1
                 PROVE  /\ chat'[i][1] <= written
                        /\ \A j \in DOMAIN events : chat'[i][1] < events[j]
      BY <2>2
    <3>1. CASE i = n + 1
      <4>1. chat'[i][1] = m BY <2>2, <3>1
      <4> QED BY <1>2, <4>1
    <3>2. CASE i \in 1..n
      <4>1. chat'[i] = chat[i] /\ i \in DOMAIN chat BY <1>1, <2>2, <3>2
      <4> QED BY <1>2, <4>1
    <3> QED BY <1>1, <3>1, <3>2
  <2>8. \E i \in DOMAIN chat' : chat'[i] = <<m, p>> BY <1>1, <2>2
  <2>9. \A r \in reported : \E i \in DOMAIN chat' : chat'[i] = r
    <3> SUFFICES ASSUME NEW r \in reported PROVE \E i \in DOMAIN chat' : chat'[i] = r
      OBVIOUS
    <3>1. PICK i \in 1..n : chat[i] = r BY <1>1, <1>3
    <3>2. i \in DOMAIN chat' BY <1>1, <2>2
    <3> QED BY <2>2, <3>1, <3>2
  <2> HIDE DEF m, p
  <2> QED BY <2>4, <2>5, <2>6, <2>7, <2>8, <2>9 DEF m, p
<1> QED BY <1>4, <1>5

\* When the sending of a message is over, the next ones are still in order.
LEMMA SentAgain ==
  ASSUME TypeOK, Sent, UNCHANGED <<events, written>>, phase' = "events", sending' = Nothing,
         \A i \in DOMAIN chat' : chat'[i][1] <= written,
         \A i \in DOMAIN chat', j \in DOMAIN events : chat'[i][1] < events[j]
  PROVE  Sent'
<1>1. sending'.message = 0 /\ phase' # "send" BY DEF Nothing
<1>2. /\ sending.message \in Nat /\ written \in Nat
      /\ \A i \in DOMAIN events : events[i] \in Nat
  BY DEF TypeOK
<1>3. \A i \in DOMAIN events : events[i] > 0 /\ events[i] <= written BY <1>2 DEF Sent
<1> QED BY <1>1, <1>2, <1>3 DEF Sent

\* Every step keeps it.
LEMMA StepOutbound ==
  ASSUME TypeOK, Outbound, [Next]_vars
  PROVE  Outbound'
<1> USE DEF telegram, inbound, outbound
<1>0. TypeOK' BY StepTypes
<1>1. CASE WorkerSends
  <2>1. /\ written' = written + 1 /\ events' = Append(events, written + 1)
        /\ UNCHANGED <<phase, sending, chat, reported>>
    BY <1>1 DEF WorkerSends
  <2>2. /\ DOMAIN events' = 1..Len(events) + 1 /\ DOMAIN events = 1..Len(events)
        /\ Len(events) \in Nat /\ events'[Len(events) + 1] = written + 1
        /\ \A i \in DOMAIN events : events'[i] = events[i] /\ events[i] \in Nat
        /\ written \in Nat /\ sending.message \in Nat
        /\ \A i \in DOMAIN chat : chat[i][1] \in Nat
    <3>1. events \in Seq(Nat) /\ written \in Nat /\ sending.message \in Nat BY DEF TypeOK
    <3>2. chat \in Seq(Nat \X Nat) BY DEF TypeOK
    <3>3. /\ DOMAIN events' = 1..Len(events) + 1 /\ DOMAIN events = 1..Len(events)
          /\ Len(events) \in Nat /\ events'[Len(events) + 1] = written + 1
          /\ \A i \in DOMAIN events : events'[i] = events[i] /\ events[i] \in Nat
      BY <2>1, <3>1
    <3>4. \A i \in DOMAIN chat : chat[i][1] \in Nat BY <3>2
    <3> QED BY <3>1, <3>3, <3>4
  <2>3. \A i, j \in DOMAIN events' : i < j => events'[i] < events'[j]
    BY <2>1, <2>2 DEF Outbound, Sent
  <2>4. \A i \in DOMAIN events' : events'[i] > sending.message /\ events'[i] <= written'
    BY <2>1, <2>2 DEF Outbound, Sent
  <2>5. \A i \in DOMAIN chat : chat[i][1] <= written' /\ \A j \in DOMAIN events' : chat[i][1] < events'[j]
    BY <2>1, <2>2 DEF Outbound, Sent
  <2>6. Sent' BY <2>1, <2>2, <2>3, <2>4, <2>5 DEF Outbound, Sent
  <2> QED BY <2>1, <2>6 DEF Outbound, PartsInOrder
<1>2. CASE BeginMessage
  <2>1. events # <<>> /\ events' = Tail(events) /\ UNCHANGED <<written, chat, reported>>
    BY <1>2 DEF BeginMessage
  <2>2. /\ 1 \in DOMAIN events /\ Head(events) = events[1]
        /\ \A i \in DOMAIN events' : i + 1 \in DOMAIN events /\ events'[i] = events[i + 1] /\ i \in Nat \ {0}
        /\ \A i \in DOMAIN events : events[i] \in Nat
        /\ \A i \in DOMAIN chat : chat[i][1] \in Nat /\ chat[i][2] \in Nat
    <3>1. events \in Seq(Nat) /\ chat \in Seq(Nat \X Nat) BY DEF TypeOK
    <3>2. 1 \in DOMAIN events /\ Head(events) = events[1] BY <2>1, <3>1
    <3>3. \A i \in DOMAIN events' : i + 1 \in DOMAIN events /\ events'[i] = events[i + 1] /\ i \in Nat \ {0}
      BY <2>1, <3>1
    <3>4. \A i \in DOMAIN chat : chat[i] \in Nat \X Nat BY <3>1
    <3>5. \A i \in DOMAIN events : events[i] \in Nat BY <3>1
    <3> QED BY <3>2, <3>3, <3>4, <3>5
  <2>3. /\ \A i, j \in DOMAIN events' : i < j => events'[i] < events'[j]
        /\ \A i \in DOMAIN events' : events'[i] <= written /\ events'[i] > events[1]
                                     /\ events'[i] > sending.message
        /\ \A i \in DOMAIN chat : chat[i][1] < events[1] /\ \A j \in DOMAIN events' : chat[i][1] < events'[j]
        /\ events[1] <= written
    BY <2>1, <2>2 DEF Outbound, Sent
  <2>4. CASE UNCHANGED <<phase, sending>>
    <3>1. phase' # "send" BY <1>2, <2>4 DEF BeginMessage
    <3>2. Sent' BY <2>1, <2>3, <2>4, <3>1 DEF Outbound, Sent
    <3> QED BY <2>1, <3>2 DEF Outbound, PartsInOrder
  <2>5. CASE ~UNCHANGED <<phase, sending>>
    <3>1. PICK k \in Outgoing : k.count # 0 /\ phase' = "send" /\
            sending' = [message |-> Head(events), form |-> k.form, part |-> 1, count |-> k.count]
      BY <1>2, <2>5 DEF BeginMessage
    <3>2. k.count \in Nat BY OutgoingType
    <3>3. sending'.message = events[1] /\ sending'.part = 1 /\ 1 <= sending'.count
      BY <2>2, <3>1, <3>2
    <3>4. \A i \in DOMAIN chat : Before(chat[i], <<events[1], 1 + 1>>)
      BY <2>3 DEF Before
    <3>5. Sent' BY <2>1, <2>3, <3>3, <3>4 DEF Outbound, Sent
    <3> QED BY <2>1, <3>5 DEF Outbound, PartsInOrder
  <2> QED BY <2>4, <2>5
<1>3. CASE UNCHANGED <<events, written, reported, chat, sending>> /\ phase' # "send"
  BY <1>3 DEF Outbound, Sent, PartsInOrder
<1>4. CASE UNCHANGED <<phase, outbound>>
  BY <1>4 DEF Outbound, Sent, PartsInOrder
<1>5. CASE SendAnswered \/ SendUnanswered
  <2>1. UNCHANGED <<events, written>> /\ phase = "send" /\ (Arrives \/ UNCHANGED chat)
    BY <1>5 DEF SendAnswered, SendUnanswered
  <2>2. /\ \A i, j \in DOMAIN chat' : i < j => Before(chat'[i], chat'[j])
        /\ \A j \in DOMAIN chat' : chat'[j][2] > 1 =>
             \E i \in 1..j : chat'[i] = <<chat'[j][1], chat'[j][2] - 1>>
        /\ \A i \in DOMAIN chat' : Before(chat'[i], <<sending.message, sending.part + 1>>)
        /\ \A i \in DOMAIN chat' : chat'[i][1] <= written
        /\ \A i \in DOMAIN chat', j \in DOMAIN events : chat'[i][1] < events[j]
        /\ \A r \in reported : \E i \in DOMAIN chat' : chat'[i] = r
    BY <2>1, ArrivedInOrder DEF Outbound, Sent, PartsInOrder
  <2>3. CASE phase' = "send" /\ reported' = reported /\ sending'.message = sending.message
             /\ sending'.part = sending.part /\ sending'.count = sending.count
    <3>1. sending.part > 1 => \E i \in DOMAIN chat' : chat'[i] = <<sending.message, sending.part - 1>>
      <4>1. CASE UNCHANGED chat BY <2>1, <4>1 DEF Outbound, Sent
      <4>2. CASE Arrives
        <5>1. sending \in SendingType BY DEF TypeOK, SendingType
        <5>2. /\ chat' \in Seq(Nat \X Nat) /\ Len(chat) <= Len(chat')
              /\ \A i \in DOMAIN chat : chat'[i] = chat[i]
          BY <4>2, <5>1, Arrived DEF TypeOK
        <5>3. DOMAIN chat \subseteq DOMAIN chat' BY <5>2 DEF TypeOK
        <5> QED BY <2>1, <5>2, <5>3 DEF Outbound, Sent
      <4> QED BY <2>1, <4>1, <4>2
    <3>2. Sent' BY <2>1, <2>2, <2>3, <3>1 DEF Outbound, Sent
    <3> QED BY <2>2, <2>3, <3>2 DEF Outbound, PartsInOrder
  <2>4. CASE phase' = "events" /\ sending' = Nothing /\ reported' = reported
    <3>1. Sent' BY <2>1, <2>2, <2>4, SentAgain DEF Outbound
    <3> QED BY <2>2, <2>4, <3>1 DEF Outbound, PartsInOrder
  <2>5. CASE SendAnswered
    <3>1. Arrives /\ NextPart BY <2>5 DEF SendAnswered
    <3>2. \E i \in DOMAIN chat' : chat'[i] = <<sending.message, sending.part>>
      BY <2>1, <3>1, ArrivedInOrder
    <3>3. sending.part \in Nat /\ sending.count \in Nat /\ sending.part <= sending.count
          /\ sending.part >= 1
      BY <2>1 DEF TypeOK, Outbound, Sent
    <3>4. CASE sending.part < sending.count
      <4>1. /\ sending'.message = sending.message /\ sending'.part = sending.part + 1
            /\ sending'.count = sending.count /\ UNCHANGED <<phase, reported>>
        BY <3>1, <3>4 DEF NextPart, TypeOK
      <4>2. \A i \in DOMAIN chat' : Before(chat'[i], <<sending.message, sending.part + 1 + 1>>)
        <5>1. \A i \in DOMAIN chat' : chat'[i] \in Nat \X Nat
          <6>1. chat' \in Seq(Nat \X Nat) BY <1>0 DEF TypeOK
          <6> QED BY <6>1
        <5>2. sending.message \in Nat BY DEF TypeOK
        <5> QED BY <2>2, <3>3, <5>1, <5>2 DEF Before
      <4>3. sending.part + 1 - 1 = sending.part BY <3>3
      <4>4. Sent' BY <2>1, <2>2, <3>2, <3>3, <3>4, <4>1, <4>2, <4>3 DEF Outbound, Sent
      <4> QED BY <2>2, <4>1, <4>4 DEF Outbound, PartsInOrder
    <3>5. CASE ~(sending.part < sending.count)
      <4>1. /\ phase' = "events" /\ sending' = Nothing
            /\ reported' = reported \cup {<<sending.message, sending.count>>}
        BY <3>1, <3>5 DEF NextPart
      <4>2. sending.count = sending.part BY <3>3, <3>5
      <4>3. Sent' BY <2>1, <2>2, <4>1, SentAgain DEF Outbound
      <4> QED BY <2>2, <3>2, <4>1, <4>2, <4>3 DEF Outbound, PartsInOrder
    <3> QED BY <3>4, <3>5
  <2>6. CASE SendUnanswered
    <3>1. CASE UNCHANGED <<phase, sending, reported>> BY <2>1, <2>3, <3>1
    <3>2. CASE PartFails
      <4>1. CASE GiveUp BY <2>4, <4>1 DEF GiveUp
      <4>2. CASE ~GiveUp
        <5>1. sending' = [sending EXCEPT !.form = "stripped"] /\ UNCHANGED <<phase, reported>>
          BY <3>2, <4>2 DEF PartFails
        <5>2. /\ sending'.message = sending.message /\ sending'.part = sending.part
              /\ sending'.count = sending.count
          BY <5>1 DEF TypeOK
        <5> QED BY <2>1, <2>3, <5>1, <5>2
      <4> QED BY <4>1, <4>2
    <3> QED BY <2>6, <3>1, <3>2 DEF SendUnanswered
  <2> QED BY <1>5, <2>5, <2>6
<1>6. CASE Restart
  <2>1. /\ events' = <<>> /\ sending' = Nothing /\ phase' = "poll"
        /\ UNCHANGED <<written, chat, reported>>
    BY <1>6 DEF Restart
  <2>2. Sent' BY <2>1 DEF Outbound, Sent, Nothing, TypeOK
  <2> QED BY <2>1, <2>2 DEF Outbound, PartsInOrder
<1>7. CASE OwnerWrites \/ UNCHANGED vars
  <2>1. UNCHANGED <<phase, outbound>> BY <1>7 DEF OwnerWrites, vars
  <2> QED BY <1>4, <2>1
<1>8. CASE Receive \/ EndDrain
  <2>1. UNCHANGED <<events, written, reported, chat, sending>> /\ phase' # "send"
    BY <1>8 DEF Receive, PollAnswered, PollUnanswered, Handle, EndBatch, EndDrain
  <2> QED BY <1>3, <2>1
<1> QED BY <1>1, <1>2, <1>5, <1>6, <1>7, <1>8 DEF Next, Send

-----------------------------------------------------------------------------
(* The theorems.                                                           *)

\* The inductive invariant: types, the updates, the messages.
THEOREM Invariance == Spec => []IInv
<1>1. Init => IInv
  <2> SUFFICES ASSUME Init PROVE IInv OBVIOUS
  <2>1. TypeOK
    <3>1. updates \in Seq({"text", "other"}) /\ tasks \in Seq(Nat) /\ events \in Seq(Nat)
          /\ chat \in Seq(Nat \X Nat)
      BY DEF Init
    <3> QED BY <3>1, TelegramAssumption DEF Init, TypeOK, Nothing
  <2>2. Bounded /\ Followed /\ Gapless /\ Handled /\ TasksInOrder
    BY DEF Init, Bounded, Followed, Gapless, Handled, TasksInOrder
  <2>3. Sent /\ PartsInOrder BY DEF Init, Sent, PartsInOrder, Nothing
  <2> QED BY <2>1, <2>2, <2>3 DEF IInv
<1>2. IInv /\ [Next]_vars => IInv'
  <2> SUFFICES ASSUME IInv, [Next]_vars PROVE IInv' OBVIOUS
  <2>1. TypeOK /\ Inbound /\ Outbound BY DEF IInv, Inbound, Outbound
  <2>2. TypeOK' /\ Inbound' /\ Outbound' BY <2>1, StepTypes, StepInbound, StepOutbound
  <2> QED BY <2>2 DEF IInv, Inbound, Outbound
<1> QED BY <1>1, <1>2, PTL DEF Spec

\* Telegram forgets no text before it is a task, for any numbers of attempts,
\* restarts and updates.
THEOREM NothingForgotten == Spec => []ConfirmedIsTask
<1>1. IInv => ConfirmedIsTask
  <2> SUFFICES ASSUME IInv PROVE ConfirmedIsTask OBVIOUS
  <2> QED BY DEF IInv, TypeOK, Followed, ConfirmedIsTask
<1> QED BY <1>1, Invariance, PTL

\* A process makes its tasks in the order of the updates, one of each.
THEOREM OnceInOrder == Spec => []TasksInOrder
<1>1. IInv => TasksInOrder BY DEF IInv
<1> QED BY <1>1, Invariance, PTL

\* The owner sees messages and parts in order and without gaps, and all parts of
\* a message that was reported as sent.
THEOREM SeenInOrder == Spec => []PartsInOrder
<1>1. IInv => PartsInOrder BY DEF IInv
<1> QED BY <1>1, Invariance, PTL

\* While a message is sent, its parts contain its text (TextKept), for every limit,
\* text and page.
THEOREM TextWhole == Spec => []TextKept
<1>1. TextKept
  BY EverythingKept DEF TextKept
<1> QED BY <1>1, PTL

=============================================================================
