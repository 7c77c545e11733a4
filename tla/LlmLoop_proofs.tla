--------------------------- MODULE LlmLoop_proofs ---------------------------
(* For any bounds and sizes: the conversation of a task has no hole and no  *)
(* reply without its results and fits its window when the model is called,  *)
(* the owner's messages are heard in order, and a round makes a bounded     *)
(* number of calls of the model.                                            *)
EXTENDS LlmLoop, NaturalLemmas, FiniteSetTheorems, TLAPS

-----------------------------------------------------------------------------
(* What cutting and compacting keep.                                       *)

\* d is a suffix of c, but for the sizes of the messages.
SuffixOf(d, c) ==
  /\ d \in Seq(Message)
  /\ \E m \in 0..Len(c) :
       /\ Len(d) = Len(c) - m
       /\ \A i \in 1..Len(d) :
            /\ d[i].n = c[i+m].n /\ d[i].role = c[i+m].role
            /\ d[i].round = c[i+m].round /\ d[i].call = c[i+m].call

\* Compaction keeps every message but its size.
LEMMA CompactionKeeps ==
  ASSUME NEW c \in Seq(Message), NEW keep
  PROVE  /\ Compacted(c, keep) \in Seq(Message)
         /\ Len(Compacted(c, keep)) = Len(c)
         /\ \A i \in 1..Len(c) :
              /\ Compacted(c, keep)[i].n = c[i].n
              /\ Compacted(c, keep)[i].role = c[i].role
              /\ Compacted(c, keep)[i].round = c[i].round
              /\ Compacted(c, keep)[i].call = c[i].call
<1> DEFINE Old(i) == /\ c[i].role # "user"
                     /\ \E s \in Starts(c) : /\ s <= i
                                             /\ Later(c, s) \cap 1..i = {}
                                             /\ Cardinality(Later(c, s)) >= keep
<1> DEFINE At(i) == IF Old(i) THEN [c[i] EXCEPT !.size = Short] ELSE c[i]
<1>1. Compacted(c, keep) = [i \in 1..Len(c) |-> At(i)]
  BY DEF Compacted
<1>2. ASSUME NEW i \in 1..Len(c)
      PROVE  /\ At(i) \in Message
             /\ At(i).n = c[i].n /\ At(i).role = c[i].role
             /\ At(i).round = c[i].round /\ At(i).call = c[i].call
  <2>1. c[i] \in Message OBVIOUS
  <2> HIDE DEF Old
  <2> QED BY <2>1 DEF Message
<1> HIDE DEF At
<1> QED BY <1>1, <1>2

\* What differs by sizes only is a suffix.
LEMMA SameIsSuffix ==
  ASSUME NEW c \in Seq(Message), NEW d \in Seq(Message), Len(d) = Len(c),
         \A i \in 1..Len(c) : /\ d[i].n = c[i].n /\ d[i].role = c[i].role
                              /\ d[i].round = c[i].round /\ d[i].call = c[i].call
  PROVE  SuffixOf(d, c)
<1> DEFINE Same(m, i) == /\ d[i].n = c[i+m].n /\ d[i].role = c[i+m].role
                         /\ d[i].round = c[i+m].round /\ d[i].call = c[i+m].call
<1>1. 0 \in 0..Len(c) /\ Len(d) = Len(c) - 0 OBVIOUS
<1>2. ASSUME NEW i \in 1..Len(d) PROVE Same(0, i)
  <2>1. i + 0 = i OBVIOUS
  <2> QED BY <2>1
<1>3. \E m \in 0..Len(c) : Len(d) = Len(c) - m /\ \A i \in 1..Len(d) : Same(m, i)
  <2> HIDE DEF Same
  <2> QED BY <1>1, <1>2
<1> QED BY <1>3 DEF SuffixOf

\* The cut keeps a suffix.
LEMMA CutKeeps ==
  ASSUME NEW c \in Seq(Message), NEW tokens \in Nat, NEW keep,
         NEW d \in Optimized(c, Compacted(c, keep), tokens)
  PROVE  SuffixOf(d, c)
<1> DEFINE short == Compacted(c, keep)
<1>1. /\ short \in Seq(Message) /\ Len(short) = Len(c)
      /\ \A i \in 1..Len(c) :
           /\ short[i].n = c[i].n /\ short[i].role = c[i].role
           /\ short[i].round = c[i].round /\ short[i].call = c[i].call
  BY CompactionKeeps
<1> HIDE DEF short
<1>2. CASE d = c BY <1>2, SameIsSuffix
<1>3. CASE d = short BY <1>1, <1>3, SameIsSuffix
<1>4. CASE \E m \in 1..(Len(short) + 1) : d = SubSeq(short, m, Len(short))
  <2>1. PICK m \in 1..(Len(short) + 1) : d = SubSeq(short, m, Len(short)) BY <1>4
  <2>2. Len(short) \in Nat /\ m - 1 \in 0..Len(c) BY <1>1
  <2>3. d \in Seq(Message) /\ Len(d) = Len(c) - (m - 1)
    BY <1>1, <2>1, <2>2
  <2>4. \A i \in 1..Len(d) : d[i] = short[i + (m - 1)] /\ i + (m - 1) \in 1..Len(c)
    BY <1>1, <2>1, <2>2, <2>3
  <2>5. \A i \in 1..Len(d) : /\ d[i].n = c[i+(m-1)].n /\ d[i].role = c[i+(m-1)].role
                             /\ d[i].round = c[i+(m-1)].round
                             /\ d[i].call = c[i+(m-1)].call
    BY <1>1, <2>4
  <2> QED BY <2>2, <2>3, <2>5 DEF SuffixOf
<1>5. d = c \/ d = short \/ \E m \in 1..(Len(short) + 1) : d = SubSeq(short, m, Len(short))
  <2>1. CASE tokens + Tokens(c) <= Threshold BY <2>1 DEF Optimized
  <2>2. CASE ~(tokens + Tokens(c) <= Threshold) /\ tokens + Tokens(short) <= Window
    BY <2>2 DEF Optimized, short
  <2>3. CASE ~(tokens + Tokens(c) <= Threshold) /\ ~(tokens + Tokens(short) <= Window)
    <3>1. d \in Recent(short, Window - tokens) BY <2>3 DEF Optimized, short
    <3> QED BY <3>1 DEF Recent
  <2> QED BY <2>1, <2>2, <2>3
<1> QED BY <1>2, <1>3, <1>4, <1>5

\* A suffix of a suffix is one.
LEMMA SuffixOfSuffix ==
  ASSUME NEW c \in Seq(Message), NEW d, NEW e, SuffixOf(d, c), SuffixOf(e, d)
  PROVE  SuffixOf(e, c)
<1>1. PICK m \in 0..Len(c) :
        /\ Len(d) = Len(c) - m
        /\ \A i \in 1..Len(d) :
            /\ d[i].n = c[i+m].n /\ d[i].role = c[i+m].role
            /\ d[i].round = c[i+m].round /\ d[i].call = c[i+m].call
  BY DEF SuffixOf
<1>2. PICK k \in 0..Len(d) :
        /\ Len(e) = Len(d) - k
        /\ \A i \in 1..Len(e) :
            /\ e[i].n = d[i+k].n /\ e[i].role = d[i+k].role
            /\ e[i].round = d[i+k].round /\ e[i].call = d[i+k].call
  BY DEF SuffixOf
<1>3. Len(c) \in Nat /\ Len(d) \in Nat /\ Len(e) \in Nat BY DEF SuffixOf
<1>4. m + k \in 0..Len(c) /\ Len(e) = Len(c) - (m + k) BY <1>1, <1>2, <1>3
<1>5. ASSUME NEW i \in 1..Len(e)
      PROVE  /\ e[i].n = c[i+(m+k)].n /\ e[i].role = c[i+(m+k)].role
             /\ e[i].round = c[i+(m+k)].round /\ e[i].call = c[i+(m+k)].call
  <2>1. i + k \in 1..Len(d) /\ (i + k) + m = i + (m + k) BY <1>1, <1>2, <1>3
  <2> QED BY <1>1, <1>2, <2>1
<1> QED BY <1>4, <1>5 DEF SuffixOf

\* What is compacted or summed up before the cut is the conversation but for the
\* sizes of its messages.
LEMMA HistoryKeeps ==
  ASSUME conv \in Seq(Message),
         NEW c, c \in Histories \/ \E keep \in AskedKeep : c \in Summarised(conv, keep)
  PROVE  c \in Seq(Message) /\ SuffixOf(c, conv)
<1>1. CASE c = conv BY <1>1, SameIsSuffix
<1>2. CASE c = Compacted(conv, KeepOld) BY <1>2, SameIsSuffix, CompactionKeeps
<1>3. CASE \E keep \in AskedKeep : c \in Summarised(conv, keep)
  <2>1. PICK keep \in AskedKeep : c \in Summarised(conv, keep) BY <1>3
  <2> DEFINE short == Compacted(conv, keep)
  <2>2. PICK long \in SUBSET {i \in 1..Len(conv) : conv[i].role = "tool"} :
          c = [i \in 1..Len(conv) |-> IF i \in long THEN conv[i] ELSE short[i]]
    BY <2>1 DEF Summarised
  <2>3. /\ short \in Seq(Message) /\ Len(short) = Len(conv)
        /\ \A i \in 1..Len(conv) :
             /\ short[i].n = conv[i].n /\ short[i].role = conv[i].role
             /\ short[i].round = conv[i].round /\ short[i].call = conv[i].call
    BY CompactionKeeps
  <2> HIDE DEF short
  <2>4. c \in Seq(Message) /\ Len(c) = Len(conv) BY <2>2, <2>3
  <2>5. \A i \in 1..Len(conv) : /\ c[i].n = conv[i].n /\ c[i].role = conv[i].role
                               /\ c[i].round = conv[i].round /\ c[i].call = conv[i].call
    BY <2>2, <2>3
  <2> QED BY <2>4, <2>5, SameIsSuffix
<1> QED BY <1>1, <1>2, <1>3 DEF Histories

\* Preparing a call cuts one of those.
LEMMA PrepareCuts ==
  ASSUME TypeOK, Prepare
  PROVE  \E c \in Seq(Message) :
           /\ SuffixOf(c, conv)
           /\ conv' \in Optimized(c, Compacted(c, KeepRecent), system')
<1>1. PICK c : /\ c \in Histories \/ \E keep \in AskedKeep : c \in Summarised(conv, keep)
               /\ CutFrom(c)
  BY DEF Prepare
<1>2. c \in Seq(Message) /\ SuffixOf(c, conv) BY <1>1, HistoryKeeps DEF TypeOK
<1>3. conv' \in Optimized(c, Compacted(c, KeepRecent), system') BY <1>1 DEF CutFrom
<1> QED BY <1>2, <1>3

\* Preparing a call leaves a suffix of the conversation.
LEMMA PrepareKeeps ==
  ASSUME TypeOK, Prepare
  PROVE  SuffixOf(conv', conv)
<1> USE LlmLoopAssumption
<1>1. conv \in Seq(Message) /\ system' \in Nat BY DEF TypeOK, Prepare
<1>2. PICK c \in Seq(Message) :
        /\ SuffixOf(c, conv)
        /\ conv' \in Optimized(c, Compacted(c, KeepRecent), system')
  BY PrepareCuts
<1>3. SuffixOf(conv', c) BY <1>1, <1>2, CutKeeps
<1> QED BY <1>1, <1>2, <1>3, SuffixOfSuffix

-----------------------------------------------------------------------------
(* What messages measure.                                                  *)

\* The recursive function of Size exists.
LEMMA SizesExist ==
  ASSUME NEW c \in Seq(Message)
  PROVE  \E f : f = [i \in 1..(Len(c) + 1) |->
                       IF i > Len(c) THEN 0 ELSE c[i].size + f[i + 1]]
<1> DEFINE N == Len(c)
           Sums(n, f) == /\ f \in [(N + 1 - n)..(N + 1) -> Nat] /\ f[N + 1] = 0
                         /\ \A i \in (N + 1 - n)..N : f[i] = c[i].size + f[i + 1]
           G == {n \in 0..N : \E f : Sums(n, f)}
<1>1. N \in Nat /\ \A i \in 1..N : c[i].size \in Nat
  <2>1. \A i \in 1..N : c[i] \in Message
    OBVIOUS
  <2>2. Short \in Nat /\ Long \in Nat BY LlmLoopAssumption
  <2>3. \A m \in Message : m.size \in Nat BY <2>2 DEF Message
  <2> QED BY <2>1, <2>3
<1>2. 0 \in G
  <2> DEFINE f == [i \in (N + 1)..(N + 1) |-> 0]
  <2>1. N + 1 - 0 = N + 1 /\ (N + 1)..N = {} /\ N + 1 \in (N + 1)..(N + 1)
    BY <1>1
  <2> HIDE DEF N
  <2>2. f \in [(N + 1)..(N + 1) -> Nat] /\ f[N + 1] = 0
    BY <2>1
  <2>3. \A i \in (N + 1)..N : f[i] = c[i].size + f[i + 1]
    BY <2>1
  <2>4. Sums(0, f)
    BY <2>1, <2>2, <2>3
  <2> HIDE DEF Sums
  <2> QED BY <1>1, <2>4
<1>3. \A n \in 0..(N - 1) : n \in G => n + 1 \in G
  <2> SUFFICES ASSUME NEW n \in 0..(N - 1), n \in G PROVE n + 1 \in G
    OBVIOUS
  <2>1. PICK f : Sums(n, f)
    OBVIOUS
  <2> DEFINE m == N - n
             g == [i \in m..(N + 1) |-> IF i = m THEN c[i].size + f[i + 1] ELSE f[i]]
  <2>2. m \in 1..N /\ N + 1 - n = m + 1 /\ N + 1 - (n + 1) = m /\ n + 1 \in 0..N
    BY <1>1
  <2>3. /\ f \in [(m + 1)..(N + 1) -> Nat] /\ f[N + 1] = 0
        /\ \A i \in (m + 1)..N : f[i] = c[i].size + f[i + 1]
    BY <2>1, <2>2
  <2> HIDE DEF m, N
  <2>4. \A i \in (m + 1)..(N + 1) : f[i] \in Nat
    BY <2>3
  <2>5. c[m].size + f[m + 1] \in Nat
    BY <1>1, <2>2, <2>4
  <2>6. g \in [m..(N + 1) -> Nat]
    BY <2>2, <2>4, <2>5, <1>1
  <2>7. g[N + 1] = 0 /\ \A i \in m..N : g[i] = c[i].size + g[i + 1]
    BY <2>2, <2>3, <1>1
  <2>8. Sums(n + 1, g)
    BY <2>2, <2>6, <2>7
  <2> QED BY <2>2, <2>8
<1>4. N \in G
  <2>1. \A n \in 0..N : n \in G
    <3> HIDE DEF G, N
    <3> QED BY <1>1, <1>2, <1>3, UpTo
  <2>2. N \in 0..N
    BY <1>1
  <2> HIDE DEF G
  <2> QED BY <2>1, <2>2
<1>5. PICK f : Sums(N, f)
  BY <1>4
<1>6. f \in [1..(N + 1) -> Nat] /\ f[N + 1] = 0 /\ \A i \in 1..N : f[i] = c[i].size + f[i + 1]
  BY <1>1, <1>5
<1>7. f = [i \in 1..(N + 1) |-> IF i > N THEN 0 ELSE c[i].size + f[i + 1]]
  <2>1. \A i \in 1..(N + 1) : f[i] = IF i > N THEN 0 ELSE c[i].size + f[i + 1]
    BY <1>1, <1>6
  <2> HIDE DEF N
  <2> QED BY <1>6, <2>1
<1> QED BY <1>7

\* What Size computes.
LEMMA SizeFrom ==
  ASSUME NEW c \in Seq(Message)
  PROVE  /\ \A i \in 1..(Len(c) + 1) : Size(c, i) \in Nat
         /\ Size(c, Len(c) + 1) = 0
         /\ \A i \in 1..Len(c) : Size(c, i) = c[i].size + Size(c, i + 1)
<1> DEFINE N == Len(c)
           from == CHOOSE f : f = [i \in 1..(N + 1) |-> IF i > N THEN 0 ELSE c[i].size + f[i + 1]]
<1>1. from = [i \in 1..(N + 1) |-> IF i > N THEN 0 ELSE c[i].size + from[i + 1]]
  BY SizesExist
<1>2. \A i : Size(c, i) = from[i]
  BY DEF Size
<1>3. N \in Nat /\ \A i \in 1..N : c[i].size \in Nat
  <2>1. \A i \in 1..N : c[i] \in Message
    OBVIOUS
  <2>2. Short \in Nat /\ Long \in Nat BY LlmLoopAssumption
  <2>3. \A m \in Message : m.size \in Nat BY <2>2 DEF Message
  <2> QED BY <2>1, <2>3
<1>4. from[N + 1] = 0 /\ \A i \in 1..N : from[i] = c[i].size + from[i + 1]
  <2> HIDE DEF from, N
  <2>1. N + 1 \in 1..(N + 1) /\ N + 1 > N /\ \A i \in 1..N : i \in 1..(N + 1) /\ ~(i > N)
    BY <1>3
  <2> QED BY <1>1, <2>1
<1> HIDE DEF from
<1>5. \A i \in 1..(N + 1) : from[i] \in Nat
  <2> DEFINE G == {n \in 0..N : from[N + 1 - n] \in Nat}
  <2> HIDE DEF N
  <2>1. 0 \in G
    BY <1>3, <1>4
  <2>2. ASSUME NEW n \in 0..(N - 1), n \in G
        PROVE  n + 1 \in G
    <3>1. N - n \in 1..N /\ n + 1 \in 0..N /\ N + 1 - (n + 1) = N - n /\ (N - n) + 1 = N + 1 - n
      BY <1>3
    <3>2. from[N - n] = c[N - n].size + from[N + 1 - n] /\ c[N - n].size \in Nat
      BY <1>3, <1>4, <3>1
    <3>3. from[N + 1 - n] \in Nat
      BY <2>2
    <3>4. from[N + 1 - (n + 1)] \in Nat
      BY <3>1, <3>2, <3>3
    <3> QED BY <3>1, <3>4
  <2>3. \A n \in 0..N : n \in G
    <3> HIDE DEF G
    <3> QED BY <1>3, <2>1, <2>2, UpTo
  <2> TAKE i \in 1..(N + 1)
  <2>4. N + 1 - i \in 0..N /\ N + 1 - (N + 1 - i) = i
    BY <1>3
  <2>5. from[N + 1 - (N + 1 - i)] \in Nat
    BY <2>3, <2>4
  <2> QED BY <2>4, <2>5
<1> QED BY <1>2, <1>4, <1>5

\* A suffix measures what the whole measures from there on.
LEMMA SizeOfSuffix ==
  ASSUME NEW c \in Seq(Message), NEW m \in 1..(Len(c) + 1)
  PROVE  /\ SubSeq(c, m, Len(c)) \in Seq(Message)
         /\ Tokens(SubSeq(c, m, Len(c))) = Size(c, m)
<1> DEFINE d == SubSeq(c, m, Len(c))
           N == Len(c)
           M == Len(d)
           G == {n \in 0..M : Size(d, M + 1 - n) = Size(c, N + 1 - n)}
<1>1. /\ N \in Nat /\ m \in 1..(N + 1) /\ M = N + 1 - m /\ M \in Nat /\ d \in Seq(Message)
      /\ \A i \in 1..M : d[i] = c[i + (m - 1)]
  OBVIOUS
<1>2. /\ Size(d, M + 1) = 0 /\ Size(c, N + 1) = 0
      /\ \A i \in 1..M : Size(d, i) = d[i].size + Size(d, i + 1)
      /\ \A i \in 1..N : Size(c, i) = c[i].size + Size(c, i + 1)
  <2> HIDE DEF d
  <2> QED BY <1>1, SizeFrom
<1> HIDE DEF d, M, N
<1>3. 0 \in G
  BY <1>1, <1>2
<1>4. ASSUME NEW n \in 0..(M - 1), n \in G
      PROVE  n + 1 \in G
  <2>1. /\ M - n \in 1..M /\ N - n \in 1..N /\ (M - n) + (m - 1) = N - n /\ n + 1 \in 0..M
        /\ (M - n) + 1 = M + 1 - n /\ (N - n) + 1 = N + 1 - n
        /\ M + 1 - (n + 1) = M - n /\ N + 1 - (n + 1) = N - n
    BY <1>1
  <2>2. d[M - n] = c[N - n]
    BY <1>1, <2>1
  <2>3. Size(d, M + 1 - n) = Size(c, N + 1 - n)
    BY <1>4
  <2>4. Size(d, M - n) = d[M - n].size + Size(d, M + 1 - n)
    BY <1>2, <2>1
  <2>5. Size(c, N - n) = c[N - n].size + Size(c, N + 1 - n)
    BY <1>2, <2>1
  <2> QED BY <2>1, <2>2, <2>3, <2>4, <2>5
<1>5. M \in G
  <2>1. \A n \in 0..M : n \in G
    <3> HIDE DEF G
    <3> QED BY <1>1, <1>3, <1>4, UpTo
  <2>2. M \in 0..M
    BY <1>1
  <2> HIDE DEF G
  <2> QED BY <2>1, <2>2
<1>6. M + 1 - M = 1 /\ N + 1 - M = m
  BY <1>1
<1> QED BY <1>1, <1>5, <1>6 DEF Tokens, d, N

-----------------------------------------------------------------------------
(* The cut fits.                                                           *)

\* What smart_context_optimize leaves is nothing, or fits under the threshold
\* together with the system messages.
LEMMA CutFits ==
  ASSUME NEW c \in Seq(Message), NEW short \in Seq(Message), NEW tokens \in Nat,
         NEW d \in Optimized(c, short, tokens)
  PROVE  d = <<>> \/ tokens + Tokens(d) <= Threshold
<1>1. CASE tokens + Tokens(c) <= Threshold
  BY <1>1 DEF Optimized
<1>2. Threshold \in Nat /\ Window \in Nat /\ Window <= Threshold
  BY LlmLoopAssumption
<1>3. CASE ~(tokens + Tokens(c) <= Threshold) /\ tokens + Tokens(short) <= Window
  <2>1. d = short
    BY <1>3 DEF Optimized
  <2>2. Tokens(short) \in Nat
    BY SizeFrom DEF Tokens
  <2> QED BY <2>1, <2>2, <1>2, <1>3
<1>4. CASE ~(tokens + Tokens(c) <= Threshold) /\ ~(tokens + Tokens(short) <= Window)
  <2>1. d \in Recent(short, Window - tokens)
    BY <1>4 DEF Optimized
  <2>2. PICK m \in 1..(Len(short) + 1) :
          /\ d = SubSeq(short, m, Len(short))
          /\ \A j \in m..Len(short) : Size(short, j) <= Window - tokens
    BY <2>1 DEF Recent
  <2>3. CASE m = Len(short) + 1
    BY <2>2, <2>3
  <2>4. CASE m # Len(short) + 1
    <3>1. m \in m..Len(short)
      BY <2>4
    <3>2. Tokens(d) = Size(short, m) /\ Size(short, m) \in Nat
      BY <2>2, SizeOfSuffix, SizeFrom
    <3> QED BY <2>2, <3>1, <3>2, <1>2
  <2> QED BY <2>3, <2>4
<1> QED BY <1>1, <1>3, <1>4

\* Only Prepare leads to a call of the first model or its fallback with another
\* conversation or other system messages.
LEMMA StepFits ==
  ASSUME TypeOK, FitsWindow, [Next]_vars
  PROVE  FitsWindow'
<1> USE DEF talk, batch, mailbox, ears
<1>1. CASE Prepare
  <2>1. conv \in Seq(Message) /\ system' \in Nat
    BY <1>1, LlmLoopAssumption DEF TypeOK, Prepare
  <2>2. PICK c \in Seq(Message) : conv' \in Optimized(c, Compacted(c, KeepRecent), system')
    BY <1>1, PrepareCuts
  <2>3. Compacted(c, KeepRecent) \in Seq(Message)
    BY CompactionKeeps
  <2>4. conv' = <<>> \/ system' + Tokens(conv') <= Threshold
    BY <2>1, <2>2, <2>3, CutFits
  <2> QED BY <2>4 DEF FitsWindow, Tokens, Size
<1>2. CASE UNCHANGED <<conv, system>> /\
           (pc' = "call" /\ who' \in {"main", "fallback"} =>
              pc = "call" /\ who \in {"main", "fallback"})
  BY <1>2 DEF FitsWindow, Tokens, Size
<1>3. CASE ~(pc' = "call" /\ who' \in {"main", "fallback"})
  BY <1>3 DEF FitsWindow
<1>4. CASE NextRound
  BY <1>3, <1>4 DEF NextRound
<1>5. CASE Drain
  BY <1>3, <1>5 DEF Drain
<1>6. CASE CallFails
  BY <1>2, <1>3, <1>6 DEF CallFails, Begin
<1>7. CASE Replies \/ Reviewed
  BY <1>3, <1>7 DEF Replies, Reviewed, Begin
<1>8. CASE AsksTools \/ Results
  BY <1>3, <1>8 DEF AsksTools, Results
<1>9. CASE \E j \in 1..MaxCalls : ToolEnds(j) \/ ToolMalformed(j)
  BY <1>3, <1>9 DEF ToolEnds, ToolMalformed, Runs
<1>10. CASE Cleanup \/ Report \/ Crash
  BY <1>3, <1>10 DEF Cleanup, Report, Crash
<1>11. CASE WriteEnd \/ \E m \in Mail : WriteBegin(m)
  BY <1>2, <1>11 DEF WriteEnd, WriteBegin
<1>12. CASE UNCHANGED vars
  BY <1>2, <1>12 DEF vars
<1> QED BY <1>1, <1>4, <1>5, <1>6, <1>7, <1>8, <1>9, <1>10, <1>11, <1>12
        DEF Next, Agent, Others

-----------------------------------------------------------------------------
(* Types.                                                                  *)

\* The lines that are read, in ascending order, are places in the file.
LEMMA OrderType ==
  ASSUME box \in Seq(Line), NEW line \in InOrder(Unheard)
  PROVE  /\ IsFiniteSet(Unheard) /\ Cardinality(Unheard) \in Nat
         /\ line \in Seq(1..Len(box)) /\ Len(line) = Cardinality(Unheard)
         /\ \A k \in 1..Len(line) : line[k] \in Unheard
         /\ \A j, k \in 1..Len(line) : j < k => line[j] < line[k]
<1>1. Unheard \subseteq 1..Len(box) /\ Len(box) \in Nat BY DEF Unheard, Parsed
<1>2. IsFiniteSet(1..Len(box)) BY <1>1, FS_Interval
<1>3. IsFiniteSet(Unheard) BY <1>1, <1>2, FS_Subset
<1>4. Cardinality(Unheard) \in Nat BY <1>3, FS_CardinalityType
<1>5. line \in [1..Cardinality(Unheard) -> Unheard] BY DEF InOrder
<1>6. line \in Seq(1..Len(box)) /\ Len(line) = Cardinality(Unheard)
  <2> DEFINE C == Cardinality(Unheard)
  <2>1. C \in Nat /\ line \in [1..C -> 1..Len(box)] BY <1>1, <1>4, <1>5
  <2> HIDE DEF C
  <2>2. line \in Seq(1..Len(box)) /\ Len(line) = C BY <2>1
  <2> QED BY <2>2 DEF C
<1>7. \A j, k \in 1..Cardinality(Unheard) : j < k => line[j] < line[k]
  BY DEF InOrder
<1> QED BY <1>3, <1>4, <1>5, <1>6, <1>7

\* The initial values have their types.
LEMMA InitTypes == Init => TypeOK
<1> USE LlmLoopAssumption
<1> SUFFICES ASSUME Init PROVE TypeOK OBVIOUS
<1>1. conv \in Seq(Message)
  <2>1. PICK size \in {Short, Long} : conv = <<User(1, size)>> BY DEF Init, Task
  <2>2. User(1, size) \in Message BY DEF User, Message
  <2> QED BY <2>1, <2>2
<1>2. answer \in Seq(Ending) /\ box \in Seq(Line) /\ heard \in Seq(Mail)
  BY DEF Init
<1>3. /\ round \in 0..(MaxRounds + 1) /\ attempt \in 0..(MaxRetries - 1)
      /\ chats \in Nat /\ said \in Nat /\ crashes \in 0..MaxCrashes
  BY DEF Init
<1> QED BY <1>1, <1>2, <1>3 DEF Init, TypeOK, Place, Who

\* Every step keeps the types, once the round is within its bound.
LEMMA StepTypes ==
  ASSUME TypeOK, CallsSoFar, RoundsSoFar, [Next]_vars
  PROVE  TypeOK'
<1> USE LlmLoopAssumption DEF talk, batch, mailbox, ears
<1>1. CASE NextRound
  BY <1>1 DEF NextRound, RoundIndex, TypeOK, Place, Who, RoundsSoFar
<1>2. CASE Drain
  <2>1. CASE UNCHANGED <<conv, said, heard, seen>>
    BY <1>2, <2>1 DEF Drain, TypeOK, Place
  <2>2. CASE \E line \in InOrder(Unheard) :
               /\ conv' = conv \o [i \in 1..Len(line) |-> User(said + i, Short)]
               /\ said' = said + Len(line)
               /\ heard' = heard \o [i \in 1..Len(line) |-> box[line[i]].id]
               /\ seen' = seen \cup Seen
    <3>1. PICK line \in InOrder(Unheard) :
               /\ conv' = conv \o [i \in 1..Len(line) |-> User(said + i, Short)]
               /\ said' = said + Len(line)
               /\ heard' = heard \o [i \in 1..Len(line) |-> box[line[i]].id]
               /\ seen' = seen \cup Seen
      BY <2>2
    <3>2. /\ line \in Seq(1..Len(box)) /\ Len(line) \in Nat
          /\ box \in Seq(Line)
      BY OrderType DEF TypeOK
    <3>3. \A i \in 1..Len(line) : User(said + i, Short) \in Message
      BY <3>2 DEF TypeOK, User, Message
    <3>4. conv' \in Seq(Message) /\ said' \in Nat
      BY <3>1, <3>2, <3>3 DEF TypeOK
    <3>5. \A i \in 1..Len(line) : box[line[i]].id \in Mail
      <4>1. \A i \in 1..Len(line) : box[line[i]] \in Line BY <3>2
      <4> QED BY <4>1 DEF Line
    <3>6. heard' \in Seq(Mail)
      <4> DEFINE new == [i \in 1..Len(line) |-> box[line[i]].id]
      <4>1. new \in Seq(Mail) BY <3>2, <3>5
      <4>2. heard' = heard \o new /\ heard \in Seq(Mail) BY <3>1 DEF TypeOK
      <4> HIDE DEF new
      <4> QED BY <4>1, <4>2
    <3>7. seen' \subseteq Mail
      <4>1. \A i \in 1..Len(box) : box[i] \in Line BY <3>2
      <4> QED BY <3>1, <4>1 DEF TypeOK, Seen, Parsed, Line
    <3> QED BY <1>2, <3>4, <3>6, <3>7 DEF Drain, TypeOK, Place
  <2> QED BY <1>2, <2>1, <2>2 DEF Drain
<1>3. CASE Prepare
  <2>1. conv' \in Seq(Message) BY <1>3, PrepareKeeps DEF SuffixOf
  <2>2. chats' \in Nat BY <1>3 DEF Prepare, TypeOK
  <2> QED BY <1>3, <2>1, <2>2 DEF Prepare, TypeOK, Place
<1>4. CASE CallFails
  <2>1. chats' \in Nat BY <1>4 DEF CallFails, TypeOK
  <2>2. attempt' \in 0..(MaxRetries - 1)
    BY <1>4 DEF CallFails, TypeOK, Begin, Attempts
  <2> QED BY <1>4, <2>1, <2>2 DEF CallFails, TypeOK, Begin, Place, Who
<1>5. CASE Replies
  BY <1>5 DEF Replies, TypeOK, Begin, Place, Who
<1>6. CASE Reviewed
  BY <1>6 DEF Reviewed, TypeOK, Place
<1>7. CASE AsksTools
  <2>1. PICK k \in 1..MaxCalls :
          /\ answer' = [j \in 1..k |-> "waiting"]
          /\ parallel' \in (IF k > 1 THEN BOOLEAN ELSE {FALSE})
          /\ conv' = Append(conv, Assistant(said + 1, k))
    BY <1>7 DEF AsksTools
  <2>2. Assistant(said + 1, k) \in Message
    BY <2>1 DEF TypeOK, Assistant, Message
  <2>3. conv' \in Seq(Message) BY <2>1, <2>2 DEF TypeOK
  <2>4. answer' \in Seq(Ending) BY <2>1 DEF Ending
  <2>5. parallel' \in BOOLEAN BY <2>1
  <2> QED BY <1>7, <2>3, <2>4, <2>5 DEF AsksTools, TypeOK, Place
<1>8. CASE \E j \in 1..MaxCalls : ToolEnds(j) \/ ToolMalformed(j)
  <2>1. PICK j \in 1..MaxCalls : ToolEnds(j) \/ ToolMalformed(j) BY <1>8
  <2>2. CASE ToolEnds(j)
    <3>1. answer \in Seq(Ending) /\ j \in 1..Len(answer)
      BY <2>2 DEF ToolEnds, Runs, TypeOK
    <3>2. answer' \in Seq(Ending) BY <2>2, <3>1 DEF ToolEnds, Ending
    <3> QED BY <2>2, <3>2 DEF ToolEnds, TypeOK
  <2>3. CASE ToolMalformed(j) BY <2>3 DEF ToolMalformed, TypeOK, Place
  <2> QED BY <2>1, <2>2, <2>3
<1>9. CASE Results
  <2>1. PICK size \in ResultSizes :
       conv' = conv \o [j \in 1..Len(answer) |->
         [n |-> said + j, role |-> "tool", round |-> round,
          call |-> ResultOrder[j], size |-> size[ResultOrder[j]]]]
    BY <1>9 DEF Results
  <2>2. Len(answer) \in Nat /\ said \in Nat /\ round \in Nat BY DEF TypeOK
  <2>3. \A j \in 1..Len(answer) :
         [n |-> said + j, role |-> "tool", round |-> round,
          call |-> ResultOrder[j], size |-> size[ResultOrder[j]]] \in Message
    BY <2>2 DEF ResultSizes, ResultOrder, Message
  <2>4. conv' \in Seq(Message) BY <2>1, <2>2, <2>3 DEF TypeOK
  <2>5. answer' \in Seq(Ending) BY <1>9 DEF Results
  <2>6. said' \in Nat BY <1>9, <2>2 DEF Results
  <2> QED BY <1>9, <2>4, <2>5, <2>6 DEF Results, TypeOK, Place
<1>10. CASE Cleanup
  BY <1>10 DEF Cleanup, TypeOK, Place
<1>11. CASE Report
  BY <1>11 DEF Report, TypeOK, Place
<1>12. CASE WriteEnd
  <2>1. box # <<>> /\ box \in Seq(Line)
    BY <1>12 DEF WriteEnd, Torn, TypeOK
  <2>2. Len(box) \in 1..Len(box) /\ box[Len(box)] \in Line
    BY <2>1
  <2>3. [box[Len(box)] EXCEPT !.whole = TRUE] \in Line BY <2>2 DEF Line
  <2>4. box' = [box EXCEPT ![Len(box)] = [box[Len(box)] EXCEPT !.whole = TRUE]]
    BY <1>12 DEF WriteEnd
  <2>5. box' \in Seq(Line) BY <2>1, <2>2, <2>3, <2>4
  <2> QED BY <1>12, <2>5 DEF WriteEnd, TypeOK
<1>13. CASE \E m \in Mail : WriteBegin(m)
  <2>1. PICK m \in Mail : WriteBegin(m) BY <1>13
  <2>2. [id |-> m, whole |-> FALSE] \in Line BY DEF Line
  <2>3. box' \in Seq(Line) BY <2>1, <2>2 DEF WriteBegin, TypeOK
  <2> QED BY <2>1, <2>3 DEF WriteBegin, TypeOK
<1>14. CASE Crash
  <2>1. PICK size \in {Short, Long} : conv' = <<User(1, size)>> BY <1>14 DEF Crash, Task
  <2>2. User(1, size) \in Message BY DEF User, Message
  <2>3. conv' \in Seq(Message) BY <2>1, <2>2
  <2>4. answer' \in Seq(Ending) /\ heard' \in Seq(Mail) BY <1>14 DEF Crash
  <2>5. /\ round' \in 0..(MaxRounds + 1) /\ attempt' \in 0..(MaxRetries - 1)
        /\ chats' \in Nat /\ said' \in Nat /\ crashes' \in 0..MaxCrashes
    BY <1>14 DEF Crash, TypeOK
  <2> QED BY <1>14, <2>3, <2>4, <2>5 DEF Crash, TypeOK, Place, Who
<1>15. CASE UNCHANGED vars
  BY <1>15 DEF vars, TypeOK
<1> QED
  BY <1>1, <1>2, <1>3, <1>4, <1>5, <1>6, <1>7, <1>8, <1>9, <1>10, <1>11, <1>12,
     <1>13, <1>14, <1>15 DEF Next, Agent, Others

-----------------------------------------------------------------------------
(* The counts of rounds and calls.                                         *)

\* Every step keeps the round within its bound.
LEMMA StepRounds ==
  ASSUME TypeOK, RoundsSoFar, [Next]_vars
  PROVE  RoundsSoFar'
<1> USE LlmLoopAssumption DEF TypeOK, RoundsSoFar, talk, batch, mailbox, ears
<1>1. CASE NextRound BY <1>1 DEF NextRound, RoundIndex
<1>2. CASE Drain BY <1>2 DEF Drain
<1>3. CASE Prepare BY <1>3 DEF Prepare
<1>4. CASE CallFails BY <1>4 DEF CallFails, Begin
<1>5. CASE Replies BY <1>5 DEF Replies, Begin
<1>6. CASE Reviewed BY <1>6 DEF Reviewed
<1>7. CASE AsksTools BY <1>7 DEF AsksTools
<1>8. CASE \E j \in 1..MaxCalls : ToolEnds(j) \/ ToolMalformed(j)
  BY <1>8 DEF ToolEnds, ToolMalformed, Runs
<1>9. CASE Results BY <1>9 DEF Results
<1>10. CASE Cleanup BY <1>10 DEF Cleanup
<1>11. CASE Report BY <1>11 DEF Report
<1>12. CASE WriteEnd BY <1>12 DEF WriteEnd
<1>13. CASE \E m \in Mail : WriteBegin(m) BY <1>13 DEF WriteBegin
<1>14. CASE Crash BY <1>14 DEF Crash
<1>15. CASE UNCHANGED vars BY <1>15 DEF vars
<1> QED
  BY <1>1, <1>2, <1>3, <1>4, <1>5, <1>6, <1>7, <1>8, <1>9, <1>10, <1>11, <1>12,
     <1>13, <1>14, <1>15 DEF Next, Agent, Others

\* A difference in an interval.
LEMMA WithinOf ==
  ASSUME NEW a \in Nat, NEW b \in Nat, NEW n \in Nat
  PROVE  a - b \in 0..n <=> b <= a /\ a <= b + n
OBVIOUS

\* Every step keeps the count of the calls of a round.
LEMMA StepCalls ==
  ASSUME TypeOK, CallsSoFar, RoundsSoFar, [Next]_vars
  PROVE  CallsSoFar'
<1> DEFINE Twice == 2 * MaxRetries
           Light(n) == IF n > 1 THEN 1 ELSE 0
<1>0. Twice \in Nat /\ Twice = MaxRetries + MaxRetries BY LlmLoopAssumption
<1>t. TypeOK' BY StepTypes
<1> HIDE DEF Twice
<1>a. CallsSoFar <=>
      /\ pc \in {"drain", "prepare"} => chats = 0 /\ attempt = 0 /\ who = "main"
      /\ pc = "call" /\ who = "fallback" =>
           /\ MaxRetries + attempt <= chats
           /\ chats <= MaxRetries + attempt + Light(round)
      /\ pc = "call" /\ who = "reflect" =>
           attempt = 0 /\ chats <= Twice + Light(round) /\ round > ReflectAfter
      /\ pc = "call" /\ who \notin {"fallback", "reflect"} =>
           attempt <= chats /\ chats <= attempt + Light(round)
      /\ chats <= Twice + Light(round) + (IF round > ReflectAfter THEN 1 ELSE 0)
  <2>1. chats \in Nat /\ attempt \in Nat /\ MaxRetries \in Nat
    BY LlmLoopAssumption DEF TypeOK
  <2> QED BY <2>1 DEF CallsSoFar, CallsBounded, Summaries, Twice
<1>b. CallsSoFar' <=>
      /\ pc' \in {"drain", "prepare"} => chats' = 0 /\ attempt' = 0 /\ who' = "main"
      /\ pc' = "call" /\ who' = "fallback" =>
           /\ MaxRetries + attempt' <= chats'
           /\ chats' <= MaxRetries + attempt' + Light(round')
      /\ pc' = "call" /\ who' = "reflect" =>
           attempt' = 0 /\ chats' <= Twice + Light(round') /\ round' > ReflectAfter
      /\ pc' = "call" /\ who' \notin {"fallback", "reflect"} =>
           attempt' <= chats' /\ chats' <= attempt' + Light(round')
      /\ chats' <= Twice + Light(round') + (IF round' > ReflectAfter THEN 1 ELSE 0)
  <2>1. chats' \in Nat /\ attempt' \in Nat /\ MaxRetries \in Nat
    BY <1>t, LlmLoopAssumption DEF TypeOK
  <2>2. Summaries' = Light(round') BY DEF Summaries
  <2>3. Light(round') \in Nat OBVIOUS
  <2> HIDE DEF Light
  <2>4. CallsBounded' <=>
        chats' <= Twice + Light(round') + (IF round' > ReflectAfter THEN 1 ELSE 0)
    BY <2>2 DEF CallsBounded, Twice
  <2> DEFINE more == Light(round')
  <2>d. more \in Nat BY <2>3
  <2> HIDE DEF more
  <2>5. chats' - (MaxRetries + attempt') \in 0..more <=>
          /\ MaxRetries + attempt' <= chats'
          /\ chats' <= MaxRetries + attempt' + more
    <3>1. \A a, b \in Nat : a + b \in Nat OBVIOUS
    <3>2. MaxRetries + attempt' \in Nat BY <2>1, <3>1
    <3> QED BY <2>1, <2>d, <3>2, WithinOf
  <2>6. chats' - attempt' \in 0..more <=>
          attempt' <= chats' /\ chats' <= attempt' + more
    BY <2>1, <2>d, WithinOf
  <2> QED BY <2>2, <2>4, <2>5, <2>6 DEF CallsSoFar, Twice, more
<1> USE <1>0, <1>a, <1>b, LlmLoopAssumption DEF TypeOK, Who, talk, batch, mailbox, ears
<1>1. CASE NextRound BY <1>1 DEF NextRound
<1>2. CASE Drain BY <1>2 DEF Drain
<1>3. CASE Prepare BY <1>3 DEF Prepare, Requested
<1>4. CASE CallFails
  <2>1. pc = "call" /\ chats' = chats + 1 /\ round' = round BY <1>4 DEF CallFails
  <2>2. CASE attempt + 1 < Attempts(who)
    <3>1. pc' = pc /\ who' = who /\ attempt' = attempt + 1 BY <1>4, <2>2 DEF CallFails
    <3>2. who # "reflect" /\ attempt + 1 < MaxRetries BY <2>1, <2>2 DEF Attempts
    <3> QED BY <2>1, <3>1, <3>2
  <2>3. CASE /\ ~(attempt + 1 < Attempts(who))
             /\ who = "main" /\ Begin("fallback") /\ pc' = pc
    <3>1. attempt + 1 = MaxRetries /\ attempt <= chats /\ chats <= attempt + Light(round)
      BY <2>1, <2>3 DEF Attempts
    <3> QED BY <2>1, <2>3, <3>1 DEF Begin
  <2>4. CASE pc' = "finally"
    <3>1. CASE who = "reflect" BY <2>1, <2>4, <3>1
    <3>2. CASE who = "fallback" BY <2>1, <2>4, <3>2
    <3>3. CASE who \notin {"fallback", "reflect"} BY <2>1, <2>4, <3>3
    <3> QED BY <3>1, <3>2, <3>3
  <2> QED BY <1>4, <2>2, <2>3, <2>4 DEF CallFails
<1>5. CASE Replies BY <1>5 DEF Replies, Begin
<1>6. CASE Reviewed BY <1>6 DEF Reviewed
<1>7. CASE AsksTools BY <1>7 DEF AsksTools
<1>8. CASE \E j \in 1..MaxCalls : ToolEnds(j) \/ ToolMalformed(j)
  BY <1>8 DEF ToolEnds, ToolMalformed, Runs
<1>9. CASE Results BY <1>9 DEF Results
<1>10. CASE Cleanup BY <1>10 DEF Cleanup
<1>11. CASE Report BY <1>11 DEF Report
<1>12. CASE WriteEnd BY <1>12 DEF WriteEnd
<1>13. CASE \E m \in Mail : WriteBegin(m) BY <1>13 DEF WriteBegin
<1>14. CASE Crash BY <1>14 DEF Crash
<1>15. CASE UNCHANGED vars BY <1>15 DEF vars
<1> QED
  BY <1>1, <1>2, <1>3, <1>4, <1>5, <1>6, <1>7, <1>8, <1>9, <1>10, <1>11, <1>12,
     <1>13, <1>14, <1>15 DEF Next, Agent, Others

-----------------------------------------------------------------------------
(* The conversation.                                                       *)

\* No hole, and no message from before the first.
Contiguous == NoHoles /\ Len(conv) <= said

\* Appending the next messages, or cutting, leaves no hole.
LEMMA AppendNext ==
  ASSUME TypeOK, Contiguous, NEW new \in Seq(Message),
         conv' = conv \o new, said' = said + Len(new),
         \A i \in 1..Len(new) : new[i].n = said + i
  PROVE  Contiguous'
<1>1. conv \in Seq(Message) /\ said \in Nat BY DEF TypeOK
<1>2. /\ Len(conv') = Len(conv) + Len(new)
      /\ \A i \in 1..Len(conv') : conv'[i] = IF i <= Len(conv) THEN conv[i] ELSE new[i - Len(conv)]
  BY <1>1
<1>3. said' - Len(conv') = said - Len(conv) BY <1>1, <1>2
<1>4. ASSUME NEW i \in 1..Len(conv') PROVE conv'[i].n = said' - Len(conv') + i
  <2>1. CASE i <= Len(conv)
    BY <1>1, <1>2, <1>3, <2>1 DEF Contiguous, NoHoles
  <2>2. CASE i > Len(conv)
    <3>1. i - Len(conv) \in 1..Len(new) BY <1>1, <1>2, <2>2
    <3>2. conv'[i].n = said + (i - Len(conv)) BY <1>1, <1>2, <2>2, <3>1
    <3> QED BY <1>1, <1>3, <3>2
  <2> QED BY <1>1, <2>1, <2>2
<1> QED BY <1>1, <1>2, <1>4 DEF Contiguous, NoHoles

\* No step makes a hole.
LEMMA StepContiguous ==
  ASSUME TypeOK, Contiguous, [Next]_vars
  PROVE  Contiguous'
<1> USE DEF talk, batch, mailbox, ears
<1>1. CASE UNCHANGED <<conv, said>> BY <1>1 DEF Contiguous, NoHoles
<1>2. CASE Drain
  <2>1. CASE UNCHANGED <<conv, said, heard, seen>> BY <1>1, <2>1
  <2>2. CASE ~UNCHANGED <<conv, said, heard, seen>>
    <3>1. PICK line \in InOrder(Unheard) :
               /\ conv' = conv \o [i \in 1..Len(line) |-> User(said + i, Short)]
               /\ said' = said + Len(line)
      BY <1>2, <2>2 DEF Drain
    <3>2. Len(line) \in Nat /\ said \in Nat BY OrderType DEF TypeOK
    <3> DEFINE new == [i \in 1..Len(line) |-> User(said + i, Short)]
    <3>3. \A i \in 1..Len(line) : User(said + i, Short) \in Message
      BY <3>2 DEF User, Message
    <3>4. new \in Seq(Message) /\ Len(new) = Len(line) BY <3>2, <3>3
    <3>5. \A i \in 1..Len(new) : new[i].n = said + i BY <3>4 DEF User
    <3>6. conv' = conv \o new /\ said' = said + Len(new) BY <3>1, <3>4
    <3> HIDE DEF new
    <3> QED BY <3>4, <3>5, <3>6, AppendNext
  <2> QED BY <2>1, <2>2
<1>3. CASE Prepare
  <2>1. SuffixOf(conv', conv) /\ said' = said BY <1>3, PrepareKeeps DEF Prepare
  <2>2. PICK m \in 0..Len(conv) :
          /\ Len(conv') = Len(conv) - m
          /\ \A i \in 1..Len(conv') : conv'[i].n = conv[i+m].n
    BY <2>1 DEF SuffixOf
  <2>3. conv \in Seq(Message) /\ said \in Nat BY DEF TypeOK
  <2>4. ASSUME NEW i \in 1..Len(conv') PROVE conv'[i].n = said' - Len(conv') + i
    <3>1. i + m \in 1..Len(conv) BY <2>2, <2>3
    <3>2. conv[i+m].n = said - Len(conv) + (i + m) BY <3>1 DEF Contiguous, NoHoles
    <3> QED BY <2>1, <2>2, <2>3, <3>2
  <2> QED BY <2>1, <2>2, <2>3, <2>4 DEF Contiguous, NoHoles
<1>4. CASE AsksTools
  <2>1. PICK k \in 1..MaxCalls : conv' = Append(conv, Assistant(said + 1, k))
    BY <1>4 DEF AsksTools
  <2>2. said \in Nat /\ conv \in Seq(Message) BY DEF TypeOK
  <2> DEFINE new == <<Assistant(said + 1, k)>>
  <2>3. Assistant(said + 1, k) \in Message
    BY LlmLoopAssumption, <2>2 DEF TypeOK, Assistant, Message
  <2>4. new \in Seq(Message) /\ Len(new) = 1 /\ new[1].n = said + 1
    BY <2>3 DEF Assistant
  <2>5. conv' = conv \o new BY <2>1, <2>2, <2>3
  <2>6. said' = said + Len(new) BY <1>4, <2>4 DEF AsksTools
  <2> HIDE DEF new
  <2>7. \A i \in 1..Len(new) : new[i].n = said + i BY <2>4
  <2> QED BY <2>4, <2>5, <2>6, <2>7, AppendNext
<1>5. CASE Results
  <2>1. PICK size \in ResultSizes :
       conv' = conv \o [j \in 1..Len(answer) |->
         [n |-> said + j, role |-> "tool", round |-> round,
          call |-> ResultOrder[j], size |-> size[ResultOrder[j]]]]
    BY <1>5 DEF Results
  <2> DEFINE new == [j \in 1..Len(answer) |->
         [n |-> said + j, role |-> "tool", round |-> round,
          call |-> ResultOrder[j], size |-> size[ResultOrder[j]]]]
  <2>2. Len(answer) \in Nat /\ said \in Nat /\ round \in Nat
    BY LlmLoopAssumption DEF TypeOK
  <2>3. \A j \in 1..Len(answer) : new[j] \in Message
    BY <2>2 DEF ResultSizes, ResultOrder, Message
  <2>4. new \in Seq(Message) /\ Len(new) = Len(answer) BY <2>2, <2>3
  <2>5. \A j \in 1..Len(new) : new[j].n = said + j BY <2>4
  <2>6. conv' = conv \o new /\ said' = said + Len(new) BY <1>5, <2>1, <2>4 DEF Results
  <2> HIDE DEF new
  <2> QED BY <2>4, <2>5, <2>6, AppendNext
<1>6. CASE Crash
  <2>1. PICK size \in {Short, Long} : conv' = <<User(1, size)>> /\ said' = 1
    BY <1>6 DEF Crash, Task
  <2>2. Len(conv') = 1 /\ conv'[1].n = 1 BY <2>1 DEF User
  <2> QED BY <2>1, <2>2 DEF Contiguous, NoHoles
<1> QED
  BY <1>1, <1>2, <1>3, <1>4, <1>5, <1>6
  DEF Next, Agent, Others, NextRound, CallFails, Replies, Reviewed, ToolEnds,
      ToolMalformed, Cleanup, Report, WriteEnd, WriteBegin, vars

-----------------------------------------------------------------------------
(* Replies and results.                                                    *)

\* Where the last message is a reply whose tools run or were abandoned.
Abandoned == pc \in {"tools", "finally", "report", "done"}

\* What a concatenation holds.
LEMMA Joined ==
  ASSUME NEW S, NEW c \in Seq(S), NEW new \in Seq(S)
  PROVE  /\ Len(c \o new) = Len(c) + Len(new)
         /\ \A p \in 1..Len(c) : (c \o new)[p] = c[p]
         /\ \A p \in 1..Len(new) : (c \o new)[Len(c) + p] = new[p]
<1>1. /\ Len(c \o new) = Len(c) + Len(new)
      /\ \A p \in 1..(Len(c) + Len(new)) :
           (c \o new)[p] = IF p <= Len(c) THEN c[p] ELSE new[p - Len(c)]
  OBVIOUS
<1>2. Len(c) \in Nat /\ Len(new) \in Nat OBVIOUS
<1>3. ASSUME NEW p \in 1..Len(new) PROVE (c \o new)[Len(c) + p] = new[p]
  <2>1. /\ Len(c) + p \in 1..(Len(c) + Len(new)) /\ ~(Len(c) + p <= Len(c))
        /\ (Len(c) + p) - Len(c) = p
    BY <1>2
  <2> HIDE <1>2
  <2> QED BY <1>1, <2>1
<1>4. ASSUME NEW p \in 1..Len(c) PROVE (c \o new)[p] = c[p]
  <2>1. p \in 1..(Len(c) + Len(new)) /\ p <= Len(c) BY <1>2
  <2> QED BY <1>1, <2>1
<1> QED BY <1>1, <1>3, <1>4

\* An answered reply stays answered when c grows by a message that is no result.
LEMMA AnsweredStays ==
  ASSUME NEW c \in Seq(Message), NEW new \in Seq(Message), NEW k \in Nat,
         NEW i \in 1..Len(c), Answered(c, i), c[i].call = k,
         Len(new) > 0 => new[1].role # "tool"
  PROVE  Answered(c \o new, i)
<1> DEFINE d == c \o new
<1>0. Len(c) \in Nat /\ Len(new) \in Nat /\ i \in Nat /\ i > 0 OBVIOUS
<1>1. /\ Len(d) = Len(c) + Len(new)
      /\ \A p \in 1..Len(c) : d[p] = c[p]
      /\ \A p \in 1..Len(new) : d[Len(c) + p] = new[p]
  BY Joined
<1> HIDE DEF d
<1>2. d[i] = c[i] BY <1>1
<1>3. ASSUME NEW j \in 1..k
      PROVE  /\ i + j <= Len(d) /\ d[i+j].role = "tool"
             /\ d[i+j].call = j /\ d[i+j].round = d[i].round
  <2>1. /\ i + j <= Len(c) /\ c[i+j].role = "tool"
        /\ c[i+j].call = j /\ c[i+j].round = c[i].round
    BY DEF Answered
  <2>2. i + j \in 1..Len(c) /\ i + j <= Len(d) BY <1>0, <1>1, <2>1
  <2>3. d[i+j] = c[i+j] BY <1>1, <2>2
  <2> QED BY <1>2, <2>1, <2>2, <2>3
<1>4. ASSUME i + k < Len(d) PROVE d[i + k + 1].role # "tool"
  <2>1. CASE i + k < Len(c)
    <3>1. c[i + k + 1].role # "tool" BY <2>1 DEF Answered
    <3>2. i + k + 1 \in 1..Len(c) BY <1>0, <2>1
    <3>3. d[i + k + 1] = c[i + k + 1] BY <1>1, <3>2
    <3> QED BY <3>1, <3>3
  <2>2. CASE ~(i + k < Len(c))
    <3>1. i + k <= Len(c)
      <4>1. CASE k = 0 BY <1>0, <4>1
      <4>2. CASE k # 0
        <5>1. k \in 1..k BY <4>2
        <5> QED BY <5>1 DEF Answered
      <4> QED BY <4>1, <4>2
    <3>2. i + k + 1 = Len(c) + 1 BY <1>0, <2>2, <3>1
    <3>3. 1 \in 1..Len(new) /\ Len(new) > 0 BY <1>0, <1>1, <1>4, <2>2
    <3>4. d[Len(c) + 1] = new[1] BY <1>1, <3>3
    <3>5. d[i + k + 1] = new[1] BY <3>2, <3>4
    <3> QED BY <3>3, <3>5
  <2> QED BY <2>1, <2>2
<1>5. Answered(d, i) BY <1>2, <1>3, <1>4 DEF Answered
<1> QED BY <1>5 DEF d

\* So it stays when only a suffix of c is kept.
LEMMA AnsweredInSuffix ==
  ASSUME NEW c \in Seq(Message), NEW d \in Seq(Message), NEW m \in 0..Len(c),
         Len(d) = Len(c) - m,
         \A p \in 1..Len(d) : /\ d[p].role = c[p+m].role /\ d[p].call = c[p+m].call
                              /\ d[p].round = c[p+m].round,
         NEW k \in Nat, NEW i \in 1..Len(d), c[i+m].call = k, Answered(c, i + m)
  PROVE  Answered(d, i)
<1>1. /\ d[i].call = k /\ d[i].round = c[i+m].round
      /\ Len(c) \in Nat /\ Len(d) \in Nat /\ m \in Nat /\ i \in Nat /\ i > 0
  OBVIOUS
<1>2. ASSUME NEW j \in 1..k
      PROVE  /\ i + j <= Len(d) /\ d[i+j].role = "tool"
             /\ d[i+j].call = j /\ d[i+j].round = d[i].round
  <2>1. /\ (i+m) + j <= Len(c) /\ c[(i+m)+j].role = "tool"
        /\ c[(i+m)+j].call = j /\ c[(i+m)+j].round = c[i+m].round
    BY DEF Answered
  <2>2. i + j \in 1..Len(d) /\ (i+m) + j = (i+j) + m /\ i + j <= Len(d)
    BY <1>1, <2>1
  <2>3. /\ d[i+j].role = c[(i+j)+m].role /\ d[i+j].call = c[(i+j)+m].call
        /\ d[i+j].round = c[(i+j)+m].round
    BY <2>2
  <2>4. c[(i+m)+j] = c[(i+j)+m] BY <2>2
  <2> QED BY <1>1, <2>1, <2>2, <2>3, <2>4
<1>3. ASSUME i + k < Len(d) PROVE d[i + k + 1].role # "tool"
  <2>1. (i+m) + k < Len(c) /\ i + k + 1 \in 1..Len(d) /\ (i+m) + k + 1 = (i+k+1) + m
    BY <1>1, <1>3
  <2>2. c[(i+m) + k + 1].role # "tool" BY <2>1 DEF Answered
  <2>3. d[i + k + 1].role = c[(i+k+1) + m].role BY <2>1
  <2> QED BY <2>1, <2>2, <2>3
<1> QED BY <1>1, <1>2, <1>3 DEF Answered

\* Every step keeps the results beside their replies.
LEMMA StepReplied ==
  ASSUME TypeOK, Replied, [Next]_vars
  PROVE  Replied'
<1> USE LlmLoopAssumption DEF talk, batch, mailbox, ears
<1>0. /\ conv \in Seq(Message) /\ Len(conv) \in Nat /\ said \in Nat /\ round \in Nat
      /\ answer \in Seq(Ending) /\ Len(answer) \in Nat
      /\ \A i \in 1..Len(conv) : conv[i].call \in Nat
  <2>1. conv \in Seq(Message) /\ said \in Nat /\ round \in Nat /\ answer \in Seq(Ending)
    BY DEF TypeOK
  <2>2. Len(conv) \in Nat /\ Len(answer) \in Nat BY <2>1
  <2>3. \A i \in 1..Len(conv) : conv[i] \in Message BY <2>1
  <2>4. \A x \in Message : x.call \in Nat BY DEF Message
  <2> QED BY <2>1, <2>2, <2>3, <2>4
<1>1. CASE /\ UNCHANGED <<conv, answer, round>> /\ (pc' = "tools" => pc = "tools")
           /\ (Abandoned => Abandoned')
  BY <1>1 DEF Replied, Abandoned, Starts, Answered
<1>2. CASE Drain
  <2>1. CASE UNCHANGED <<conv, said, heard, seen>>
    BY <1>1, <1>2, <2>1 DEF Drain, Abandoned
  <2>2. CASE ~UNCHANGED <<conv, said, heard, seen>>
    <3>1. PICK line \in InOrder(Unheard) :
               conv' = conv \o [i \in 1..Len(line) |-> User(said + i, Short)]
      BY <1>2, <2>2 DEF Drain
    <3>2. Len(line) \in Nat BY OrderType DEF TypeOK
    <3> DEFINE new == [i \in 1..Len(line) |-> User(said + i, Short)]
    <3>3. \A i \in 1..Len(line) : User(said + i, Short) \in Message
      BY <1>0, <3>2 DEF User, Message
    <3>4. new \in Seq(Message) /\ Len(new) = Len(line)
          /\ \A i \in 1..Len(new) : new[i].role = "user"
      BY <3>2, <3>3 DEF User
    <3>5. conv' = conv \o new BY <3>1
    <3> HIDE DEF new
    <3>6. /\ Len(conv') = Len(conv) + Len(new)
          /\ \A i \in 1..Len(conv) : conv'[i] = conv[i]
          /\ \A i \in 1..Len(conv') : i > Len(conv) => conv'[i].role = "user"
      <4>1. /\ Len(conv') = Len(conv) + Len(new)
            /\ \A i \in 1..Len(conv) : conv'[i] = conv[i]
            /\ \A i \in 1..Len(new) : conv'[Len(conv) + i] = new[i]
        <5>1. conv \in Seq(Message) BY <1>0
        <5>2. new \in Seq(Message) BY <3>4
        <5> QED BY <3>5, <5>1, <5>2, Joined
      <4>2. ASSUME NEW i \in 1..Len(conv'), i > Len(conv) PROVE conv'[i].role = "user"
        <5>1. i - Len(conv) \in 1..Len(new) /\ Len(conv) + (i - Len(conv)) = i
          BY <1>0, <3>4, <4>1, <4>2
        <5>2. conv'[i] = new[i - Len(conv)] BY <4>1, <5>1
        <5> QED BY <3>4, <5>1, <5>2
      <4> QED BY <4>1, <4>2
    <3>7. ASSUME NEW i \in Starts(conv') PROVE conv'[i].call > 0 /\ Answered(conv', i)
      <4>1. i \in 1..Len(conv) /\ i \in Starts(conv) BY <1>0, <3>4, <3>6 DEF Starts
      <4>2. conv[i].call > 0 /\ Answered(conv, i) BY <1>2, <4>1 DEF Replied, Drain
      <4>3. Answered(conv \o new, i) BY <1>0, <3>4, <4>1, <4>2, AnsweredStays
      <4> QED BY <3>5, <3>6, <4>1, <4>2, <4>3
    <3>8. pc' = "prepare" BY <1>2 DEF Drain
    <3> QED BY <3>7, <3>8 DEF Replied
  <2> QED BY <2>1, <2>2
<1>3. CASE Prepare
  <2>1. SuffixOf(conv', conv) BY <1>3, PrepareKeeps
  <2>2. PICK m \in 0..Len(conv) :
          /\ Len(conv') = Len(conv) - m
          /\ \A i \in 1..Len(conv') :
              /\ conv'[i].n = conv[i+m].n /\ conv'[i].role = conv[i+m].role
              /\ conv'[i].round = conv[i+m].round /\ conv'[i].call = conv[i+m].call
    BY <2>1 DEF SuffixOf
  <2>3. conv' \in Seq(Message) BY <2>1 DEF SuffixOf
  <2>4. ASSUME NEW i \in Starts(conv') PROVE conv'[i].call > 0 /\ Answered(conv', i)
    <3>1. i \in 1..Len(conv') /\ i + m \in 1..Len(conv) /\ i + m \in Starts(conv)
      BY <1>0, <2>2, <2>3 DEF Starts
    <3>2. conv[i+m].call > 0 /\ Answered(conv, i + m) BY <1>3, <3>1 DEF Replied, Prepare
    <3>3. Answered(conv', i)
      BY <1>0, <2>2, <2>3, <3>1, <3>2, AnsweredInSuffix
    <3> QED BY <2>2, <3>1, <3>2, <3>3
  <2>5. pc' = "call" BY <1>3 DEF Prepare
  <2> QED BY <2>4, <2>5 DEF Replied
<1>4. CASE AsksTools
  <2>1. PICK k \in 1..MaxCalls :
          /\ conv' = Append(conv, Assistant(said + 1, k))
          /\ answer' = [j \in 1..k |-> "waiting"]
    BY <1>4 DEF AsksTools
  <2>2. Assistant(said + 1, k) \in Message BY <1>0, <2>1 DEF Assistant, Message
  <2> DEFINE new == <<Assistant(said + 1, k)>>
  <2>3. /\ new \in Seq(Message) /\ Len(new) = 1 /\ new[1].role = "assistant"
        /\ conv' = conv \o new
    BY <1>0, <2>1, <2>2 DEF Assistant
  <2>4. /\ Len(conv') = Len(conv) + 1 /\ conv'[Len(conv) + 1] = Assistant(said + 1, k)
        /\ \A i \in 1..Len(conv) : conv'[i] = conv[i]
    BY <1>0, <2>3, Joined
  <2>5. conv'[Len(conv')].role = "assistant" /\ conv'[Len(conv')].call = k
        /\ conv'[Len(conv')].round = round
    BY <1>0, <2>4 DEF Assistant
  <2>6. pc = "call" /\ pc' = "tools" /\ round' = round /\ Len(answer') = k /\ conv' # <<>>
    BY <1>0, <1>4, <2>1, <2>4 DEF AsksTools
  <2> HIDE DEF new
  <2>7. ASSUME NEW i \in Starts(conv')
        PROVE  /\ conv'[i].call > 0 /\ (Answered(conv', i) \/ i = Len(conv'))
    <3>1. CASE i = Len(conv') BY <2>1, <2>5, <3>1
    <3>2. CASE i # Len(conv')
      <4>1. i \in 1..Len(conv) /\ i \in Starts(conv) BY <1>0, <2>4, <3>2 DEF Starts
      <4>2. conv[i].call > 0 /\ Answered(conv, i) BY <2>6, <4>1 DEF Replied
      <4>3. Answered(conv \o new, i) BY <1>0, <2>3, <4>1, <4>2, AnsweredStays
      <4> QED BY <2>3, <2>4, <4>1, <4>2, <4>3
    <3> QED BY <3>1, <3>2
  <2> QED BY <2>5, <2>6, <2>7 DEF Replied
<1>5. CASE Results
  <2>1. PICK size \in ResultSizes :
       conv' = conv \o [j \in 1..Len(answer) |->
         [n |-> said + j, role |-> "tool", round |-> round,
          call |-> ResultOrder[j], size |-> size[ResultOrder[j]]]]
    BY <1>5 DEF Results
  <2> DEFINE new == [j \in 1..Len(answer) |->
         [n |-> said + j, role |-> "tool", round |-> round,
          call |-> ResultOrder[j], size |-> size[ResultOrder[j]]]]
  <2>a. Len(answer) \in Nat /\ said \in Nat /\ round \in Nat BY <1>0
  <2>2. \A j \in 1..Len(answer) : new[j] \in Message
    BY <2>a DEF ResultSizes, ResultOrder, Message
  <2>3. /\ new \in Seq(Message) /\ Len(new) = Len(answer)
        /\ \A j \in 1..Len(new) : new[j].role = "tool" /\ new[j].round = round /\ new[j].call = j
    BY <1>0, <2>2 DEF ResultOrder
  <2>4. conv' = conv \o new BY <2>1
  <2> HIDE DEF new
  <2>5. /\ Len(conv') = Len(conv) + Len(answer)
        /\ \A i \in 1..Len(conv) : conv'[i] = conv[i]
        /\ \A j \in 1..Len(answer) : conv'[Len(conv) + j] = new[j]
    <3>1. Len(new) = Len(answer) BY <2>3
    <3>2. /\ Len(conv') = Len(conv) + Len(new)
          /\ \A i \in 1..Len(conv) : conv'[i] = conv[i]
          /\ \A j \in 1..Len(new) : conv'[Len(conv) + j] = new[j]
      <4>1. conv \in Seq(Message) BY <1>0
      <4>2. new \in Seq(Message) BY <2>3
      <4> QED BY <2>4, <4>1, <4>2, Joined
    <3> HIDE <2>4, <1>5
    <3> QED BY <3>1, <3>2
  <2>6. /\ pc = "tools" /\ pc' = "round"
        /\ conv # <<>> /\ conv[Len(conv)].role = "assistant"
        /\ conv[Len(conv)].call = Len(answer) /\ conv[Len(conv)].round = round
    BY <1>5 DEF Results, Replied
  <2>7. Len(conv) \in 1..Len(conv) /\ Len(conv) \in Starts(conv)
    BY <1>0, <2>6 DEF Starts
  <2>8. ASSUME NEW i \in Starts(conv') PROVE conv'[i].call > 0 /\ Answered(conv', i)
    <3>1. i \in 1..Len(conv) /\ i \in Starts(conv) /\ conv'[i] = conv[i]
      <4>1. i \in 1..Len(conv') /\ conv'[i].role = "assistant" BY DEF Starts
      <4>2. CASE i <= Len(conv) BY <1>0, <2>5, <4>1, <4>2 DEF Starts
      <4>3. CASE i > Len(conv)
        <5>1. i - Len(conv) \in 1..Len(answer) /\ Len(conv) + (i - Len(conv)) = i
          BY <1>0, <2>5, <4>1, <4>3
        <5>2. conv'[i] = new[i - Len(conv)] BY <2>5, <5>1
        <5> QED BY <2>3, <4>1, <5>1, <5>2
      <4> QED BY <1>0, <4>1, <4>2, <4>3
    <3>2. conv[i].call > 0 BY <3>1 DEF Replied
    <3>3. CASE i = Len(conv)
      <4>1. conv'[i].call = Len(answer) /\ conv'[i].round = round BY <2>6, <3>1, <3>3
      <4>2. ASSUME NEW j \in 1..Len(answer)
            PROVE  /\ i + j <= Len(conv') /\ conv'[i+j].role = "tool"
                   /\ conv'[i+j].call = j /\ conv'[i+j].round = round
        <5>1. i + j <= Len(conv') /\ i + j = Len(conv) + j BY <1>0, <2>5, <3>3
        <5>2. conv'[i+j] = new[j] BY <2>5, <5>1
        <5> QED BY <2>3, <5>1, <5>2
      <4>3. ~(i + Len(answer) < Len(conv')) BY <1>0, <2>5, <3>3
      <4>4. Answered(conv', i) BY <4>1, <4>2, <4>3 DEF Answered
      <4> QED BY <3>1, <3>2, <4>4
    <3>4. CASE i # Len(conv)
      <4>1. Answered(conv, i) BY <3>1, <3>4 DEF Replied
      <4> DEFINE k == conv[i].call
      <4>2. k \in Nat /\ k > 0 /\ conv'[i] = conv[i] BY <1>0, <3>1, <3>2
      <4>3. i + k <= Len(conv) /\ conv[i+k].role = "tool"
        <5>1. k \in 1..k BY <4>2
        <5> QED BY <4>1, <5>1 DEF Answered
      <4>4. i + k < Len(conv)
        BY <1>0, <2>6, <3>1, <4>2, <4>3
      <4>5. ASSUME NEW j \in 1..k
            PROVE  /\ i + j <= Len(conv') /\ conv'[i+j].role = "tool"
                   /\ conv'[i+j].call = j /\ conv'[i+j].round = conv'[i].round
        <5>1. /\ i + j <= Len(conv) /\ conv[i+j].role = "tool"
              /\ conv[i+j].call = j /\ conv[i+j].round = conv[i].round
          BY <4>1 DEF Answered
        <5>2. i + j \in 1..Len(conv) BY <1>0, <3>1, <4>2, <5>1
        <5> QED BY <1>0, <2>5, <4>2, <5>1, <5>2
      <4>6. conv'[i + k + 1].role # "tool"
        <5>1. conv[i + k + 1].role # "tool" BY <4>1, <4>4 DEF Answered
        <5>2. i + k + 1 \in 1..Len(conv) BY <1>0, <3>1, <4>2, <4>4
        <5> QED BY <2>5, <5>1, <5>2
      <4>7. Answered(conv', i) BY <4>2, <4>5, <4>6 DEF Answered
      <4> QED BY <3>1, <3>2, <4>7
    <3> QED BY <3>3, <3>4
  <2> QED BY <2>6, <2>8 DEF Replied
<1>6. CASE Crash
  <2>1. PICK size \in {Short, Long} : conv' = <<User(1, size)>> /\ pc' = "round"
    BY <1>6 DEF Crash, Task
  <2>2. Starts(conv') = {} BY <2>1 DEF Starts, User
  <2> QED BY <2>1, <2>2 DEF Replied
<1>7. CASE \E j \in 1..MaxCalls : ToolEnds(j)
  <2>1. PICK j \in 1..MaxCalls : ToolEnds(j) BY <1>7
  <2>2. Len(answer') = Len(answer) BY <1>0, <2>1 DEF ToolEnds
  <2>3. UNCHANGED <<conv, round, pc>> BY <2>1 DEF ToolEnds
  <2> QED BY <2>2, <2>3 DEF Replied, Starts, Answered
<1>8. CASE NextRound
  <2>1. pc = "round" /\ pc' # "tools" /\ UNCHANGED <<conv, answer>>
    BY <1>8 DEF NextRound
  <2> QED BY <2>1 DEF Replied, Starts, Answered
<1>9. CASE \E j \in 1..MaxCalls : ToolMalformed(j)
  <2>1. pc = "tools" /\ pc' = "finally" /\ UNCHANGED <<conv, answer, round>>
    BY <1>9 DEF ToolMalformed, Runs
  <2> QED BY <1>1, <2>1 DEF Abandoned
<1>10. CASE CallFails \/ Replies \/ Reviewed
  <2>1. pc = "call" /\ pc' # "tools" /\ UNCHANGED <<conv, answer, round>>
    BY <1>10 DEF CallFails, Replies, Reviewed, Begin
  <2> QED BY <1>1, <2>1 DEF Abandoned
<1>11. CASE Cleanup \/ Report
  <2>1. /\ pc' \in {"report", "done"} /\ UNCHANGED <<conv, answer, round>>
    BY <1>11 DEF Cleanup, Report
  <2> QED BY <1>1, <2>1 DEF Abandoned
<1>12. CASE WriteEnd \/ (\E m \in Mail : WriteBegin(m)) \/ UNCHANGED vars
  <2>1. UNCHANGED <<pc, conv, answer, round>>
    BY <1>12 DEF WriteEnd, WriteBegin, vars
  <2> QED BY <1>1, <2>1 DEF Abandoned
<1> QED
  BY <1>2, <1>3, <1>4, <1>5, <1>6, <1>7, <1>8, <1>9, <1>10, <1>11, <1>12
  DEF Next, Agent, Others

-----------------------------------------------------------------------------
(* The mailbox.                                                            *)

\* An ascending enumeration of a set by as many numbers leaves out none of it.
LEMMA EnumeratesAll ==
  ASSUME NEW S, IsFiniteSet(S), S \subseteq Nat, NEW f \in InOrder(S), NEW x \in S
  PROVE  \E k \in 1..Cardinality(S) : f[k] = x
<1> DEFINE C == Cardinality(S)
<1>1. C \in Nat BY FS_CardinalityType
<1>2. /\ f \in [1..C -> S]
      /\ \A i, j \in 1..C : i < j => f[i] < f[j]
  BY DEF InOrder
<1> HIDE DEF C
<1> SUFFICES ASSUME \A k \in 1..C : f[k] # x PROVE FALSE
  BY DEF C
<1>3. f \in [1..C -> S \ {x}] BY <1>2
<1>4. IsFiniteSet(S \ {x}) /\ Cardinality(S \ {x}) = C - 1
  BY FS_RemoveElement DEF C
<1>5. IsFiniteSet(1..C) /\ Cardinality(1..C) = C BY <1>1, FS_Interval
<1>6. Cardinality(S \ {x}) < Cardinality(1..C) BY <1>1, <1>4, <1>5
<1>7. PICK i, j \in 1..C : i # j /\ f[i] = f[j]
  <2> DEFINE T == 1..C
             U == S \ {x}
  <2>1. f \in [T -> U] /\ IsFiniteSet(T) /\ IsFiniteSet(U) /\ Cardinality(U) < Cardinality(T)
    BY <1>3, <1>4, <1>5, <1>6
  <2> HIDE DEF T, U
  <2>2. \E i, j \in T : i # j /\ f[i] = f[j] BY <2>1, FS_PigeonHole
  <2> QED BY <2>2 DEF T
<1>8. f[i] \in Nat /\ f[j] \in Nat BY <1>2
<1>9. i < j \/ j < i BY <1>1, <1>7
<1> QED BY <1>2, <1>7, <1>8, <1>9

\* What Heard says of a mailbox and of those who read and write it.
InFile(file, writers) ==
  /\ \A i \in 1..Len(file) : file[i].id \in writers /\ (i < Len(file) => file[i].whole)
  /\ \A i, j \in 1..Len(file) : file[i].id = file[j].id => i = j

Read(file, ids, known) ==
  /\ \A i \in 1..Len(ids) : \E k \in 1..Len(file) : file[k].id = ids[i] /\ ids[i] \in Clean
  /\ \A i, j \in 1..Len(ids), k, l \in 1..Len(file) :
       file[k].id = ids[i] /\ file[l].id = ids[j] => (i < j <=> k < l)
  /\ \A k, l \in 1..Len(file), j \in 1..Len(ids) :
       k < l /\ file[k].id \in Clean /\ file[l].id = ids[j] =>
         \E i \in 1..Len(ids) : ids[i] = file[k].id
  /\ known = {ids[i] : i \in 1..Len(ids)}
  /\ \A i \in 1..Len(file) : file[i].id \in known => file[i].whole

\* Heard in these words.
LEMMA HeardIs ==
  /\ Heard <=> /\ InFile(box, sent)
               /\ pc \notin {"report", "done"} => Read(box, heard, seen)
  /\ Heard' <=> /\ InFile(box', sent')
                /\ pc' \notin {"report", "done"} => Read(box', heard', seen')
<1>1. Heard <=> /\ InFile(box, sent)
                /\ pc \notin {"report", "done"} => Read(box, heard, seen)
  BY DEF Heard, OwnerInOrder, InFile, Read
<1>2. Heard' <=> /\ InFile(box', sent')
                 /\ pc' \notin {"report", "done"} => Read(box', heard', seen')
  BY DEF Heard, OwnerInOrder, InFile, Read
<1> QED BY <1>1, <1>2

\* A step of the agent that leaves the mailbox alone.
LEMMA SameHeard ==
  ASSUME Heard, UNCHANGED <<box, sent, heard, seen>>,
         pc' \notin {"report", "done"} => pc \notin {"report", "done"}
  PROVE  Heard'
BY HeardIs

\* A line that becomes complete changes nothing of what was read.
LEMMA ReadSame ==
  ASSUME NEW f, NEW g, NEW ids, NEW known, Len(g) = Len(f), Read(f, ids, known),
         \A i \in 1..Len(f) : g[i].id = f[i].id /\ (f[i].whole => g[i].whole)
  PROVE  Read(g, ids, known)
<1>1. \A i \in 1..Len(ids) : \E k \in 1..Len(g) : g[k].id = ids[i] /\ ids[i] \in Clean
  BY DEF Read
<1>2. \A i, j \in 1..Len(ids), k, l \in 1..Len(g) :
        g[k].id = ids[i] /\ g[l].id = ids[j] => (i < j <=> k < l)
  BY DEF Read
<1>3. \A k, l \in 1..Len(g), j \in 1..Len(ids) :
        k < l /\ g[k].id \in Clean /\ g[l].id = ids[j] =>
          \E i \in 1..Len(ids) : ids[i] = g[k].id
  BY DEF Read
<1>4. /\ known = {ids[i] : i \in 1..Len(ids)}
      /\ \A i \in 1..Len(g) : g[i].id \in known => g[i].whole
  BY DEF Read
<1> QED BY <1>1, <1>2, <1>3, <1>4 DEF Read

\* Draining hears all complete and clean lines that were not heard.
LEMMA DrainHeard ==
  ASSUME TypeOK, Heard, Drain
  PROVE  Heard'
<1> USE DEF mailbox, batch
<1>1. /\ pc \notin {"report", "done"} /\ pc' = "prepare" /\ UNCHANGED <<box, sent>>
  BY DEF Drain
<1>2. CASE UNCHANGED <<conv, said, heard, seen>> BY <1>1, <1>2, SameHeard
<1>3. CASE ~UNCHANGED <<conv, said, heard, seen>>
  <2>1. PICK line \in InOrder(Unheard) :
          /\ heard' = heard \o [i \in 1..Len(line) |-> box[line[i]].id]
          /\ seen' = seen \cup Seen
    BY <1>3 DEF Drain
  <2> DEFINE h == Len(heard)
             w == Len(line)
             new == [i \in 1..Len(line) |-> box[line[i]].id]
  <2>2. box \in Seq(Line) /\ heard \in Seq(Mail) /\ Len(box) \in Nat BY DEF TypeOK
  <2>3. /\ IsFiniteSet(Unheard) /\ line \in Seq(1..Len(box)) /\ w = Cardinality(Unheard)
        /\ \A k \in 1..w : line[k] \in Unheard
        /\ \A j, k \in 1..w : j < k => line[j] < line[k]
    BY <2>2, OrderType
  <2>4. h \in Nat /\ w \in Nat /\ \A k \in 1..w : line[k] \in 1..Len(box)
    BY <2>2, <2>3
  <2>5. Unheard \subseteq 1..Len(box) BY DEF Unheard, Parsed
  <2>6. \A x \in Unheard : \E k \in 1..w : line[k] = x
    <3>1. \A x \in Unheard : \E k \in 1..Cardinality(Unheard) : line[k] = x
      <4>1. Unheard \subseteq Nat BY <2>2, <2>5
      <4> HIDE DEF w, h, new
      <4> QED BY <2>1, <2>3, <4>1, EnumeratesAll
    <3> HIDE DEF w
    <3> QED BY <2>3, <3>1
  <2>7. /\ Len(heard') = h + w
        /\ \A i \in 1..h : heard'[i] = heard[i]
        /\ \A k \in 1..w : heard'[h + k] = box[line[k]].id
    <3>1. \A i \in 1..Len(box) : box[i].id \in Mail
      <4>1. \A i \in 1..Len(box) : box[i] \in Line BY <2>2
      <4> QED BY <4>1 DEF Line
    <3>2. new \in Seq(Mail) /\ Len(new) = w BY <2>4, <3>1
    <3>3. \A k \in 1..w : new[k] = box[line[k]].id BY <2>4
    <3>4. heard' = heard \o new BY <2>1
    <3> HIDE DEF new, w, h
    <3>5. /\ Len(heard \o new) = Len(heard) + Len(new)
          /\ \A i \in 1..Len(heard) : (heard \o new)[i] = heard[i]
          /\ \A k \in 1..Len(new) : (heard \o new)[Len(heard) + k] = new[k]
      <4>1. heard \in Seq(Mail) BY <2>2
      <4>2. new \in Seq(Mail) BY <3>2
      <4> QED BY <4>1, <4>2, Joined
    <3>6. Len(heard') = h + w BY <3>2, <3>4, <3>5 DEF h
    <3>7. \A i \in 1..h : heard'[i] = heard[i] BY <3>4, <3>5 DEF h
    <3>8. \A k \in 1..w : heard'[h + k] = new[k] BY <3>2, <3>4, <3>5 DEF h
    <3> QED BY <3>3, <3>6, <3>7, <3>8
  <2> HIDE DEF h, w, new
  <2>8. \A i \in 1..Len(heard') : i \in 1..h \/ (i - h \in 1..w /\ heard'[i] = box[line[i - h]].id)
    <3> SUFFICES ASSUME NEW i \in 1..Len(heard'), i > h
                 PROVE  i - h \in 1..w /\ heard'[i] = box[line[i - h]].id
      BY <2>4, <2>7
    <3>1. i - h \in 1..w /\ h + (i - h) = i BY <2>4, <2>7
    <3> QED BY <2>7, <3>1
  <2>9. Read(box, heard, seen) /\ InFile(box, sent) BY <1>1, HeardIs
  <2>10. seen = {heard[i] : i \in 1..h} BY <2>9 DEF Read, h
  <2>11. \A i, j \in 1..Len(box) : box[i].id = box[j].id => i = j BY <2>9 DEF InFile
  <2>12. \A x \in Unheard : box[x].whole /\ box[x].id \in Clean /\ box[x].id \notin seen
    BY DEF Unheard, Parsed
  <2>13. \A x \in Unheard, k \in 1..Len(box), i \in 1..h :
           box[k].id = heard[i] => k < x
    <3> SUFFICES ASSUME NEW x \in Unheard, NEW k \in 1..Len(box), NEW i \in 1..h,
                        box[k].id = heard[i], ~(k < x)
                 PROVE  FALSE
      OBVIOUS
    <3>1. x \in 1..Len(box) /\ box[x].id \notin seen BY <2>5, <2>12
    <3>2. x # k BY <2>10, <3>1
    <3>3. x < k BY <2>2, <3>1, <3>2
    <3>4. \E j \in 1..Len(heard) : heard[j] = box[x].id
      BY <2>9, <2>12, <3>1, <3>3 DEF Read, h
    <3> QED BY <2>10, <3>1, <3>4 DEF h
  <2>14. ASSUME NEW i \in 1..Len(heard')
         PROVE  \E k \in 1..Len(box) : box[k].id = heard'[i] /\ heard'[i] \in Clean
    <3>1. CASE i \in 1..h
      <4>1. \E k \in 1..Len(box) : box[k].id = heard[i] /\ heard[i] \in Clean
        BY <2>9, <3>1 DEF Read, h
      <4> QED BY <2>7, <3>1, <4>1
    <3>2. CASE i - h \in 1..w /\ heard'[i] = box[line[i - h]].id
      BY <2>3, <2>4, <2>12, <3>2
    <3> QED BY <2>8, <3>1, <3>2
  <2>15. ASSUME NEW i \in 1..Len(heard'), NEW j \in 1..Len(heard'),
                NEW k \in 1..Len(box), NEW l \in 1..Len(box),
                box[k].id = heard'[i], box[l].id = heard'[j]
         PROVE  i < j <=> k < l
    <3>1. CASE i \in 1..h /\ j \in 1..h
      <4>1. box[k].id = heard[i] /\ box[l].id = heard[j] BY <2>7, <2>15, <3>1
      <4> QED BY <2>9, <3>1, <4>1 DEF Read, h
    <3>2. CASE i \in 1..h /\ j - h \in 1..w /\ heard'[j] = box[line[j - h]].id
      <4> DEFINE x == line[j - h]
      <4>0. x \in 1..Len(box) /\ x \in Unheard BY <2>3, <2>4, <3>2
      <4>1. l = x /\ l \in Unheard BY <2>11, <2>15, <3>2, <4>0
      <4>2. box[k].id = heard[i] BY <2>7, <2>15, <3>2
      <4>3. k < l BY <2>13, <3>2, <4>1, <4>2
      <4>4. i < j BY <2>4, <3>2
      <4> QED BY <4>3, <4>4
    <3>3. CASE i - h \in 1..w /\ heard'[i] = box[line[i - h]].id /\ j \in 1..h
      <4> DEFINE x == line[i - h]
      <4>0. x \in 1..Len(box) /\ x \in Unheard BY <2>3, <2>4, <3>3
      <4>1. k = x /\ k \in Unheard BY <2>11, <2>15, <3>3, <4>0
      <4>2. box[l].id = heard[j] BY <2>7, <2>15, <3>3
      <4>3. l < k BY <2>13, <3>3, <4>1, <4>2
      <4>4. ~(i < j) BY <2>4, <3>3
      <4> QED BY <2>2, <4>3, <4>4
    <3>4. CASE /\ i - h \in 1..w /\ heard'[i] = box[line[i - h]].id
               /\ j - h \in 1..w /\ heard'[j] = box[line[j - h]].id
      <4>0. line[i - h] \in 1..Len(box) /\ line[j - h] \in 1..Len(box) BY <2>4, <3>4
      <4>1. k = line[i - h] /\ l = line[j - h] BY <2>11, <2>15, <3>4, <4>0
      <4>2. i - h < j - h => k < l BY <2>3, <3>4, <4>1
      <4>3. j - h < i - h => l < k BY <2>3, <3>4, <4>1
      <4>4. i - h = j - h => k = l BY <4>1
      <4>5. i < j <=> i - h < j - h
        <5>1. i \in Nat /\ j \in Nat /\ h \in Nat BY <2>4
        <5> QED BY <5>1
      <4>6. i - h < j - h \/ j - h < i - h \/ i - h = j - h BY <2>4, <3>4
      <4> QED BY <2>2, <4>2, <4>3, <4>4, <4>5, <4>6
    <3> QED BY <2>8, <3>1, <3>2, <3>3, <3>4
  <2>16. \A i \in 1..Len(box) : box[i].id \in seen => \E j \in 1..Len(heard') : heard'[j] = box[i].id
    <3> SUFFICES ASSUME NEW i \in 1..Len(box), box[i].id \in seen
                 PROVE  \E j \in 1..Len(heard') : heard'[j] = box[i].id
      OBVIOUS
    <3>1. PICK j \in 1..h : heard[j] = box[i].id BY <2>10
    <3>2. j \in 1..Len(heard') BY <2>4, <2>7
    <3> QED BY <2>7, <3>1, <3>2
  <2>17. \A x \in Unheard : \E j \in 1..Len(heard') : heard'[j] = box[x].id
    <3> SUFFICES ASSUME NEW x \in Unheard PROVE \E j \in 1..Len(heard') : heard'[j] = box[x].id
      OBVIOUS
    <3>1. PICK k \in 1..w : line[k] = x BY <2>6
    <3>2. h + k \in 1..Len(heard') BY <2>4, <2>7
    <3> QED BY <2>7, <3>1, <3>2
  <2>18. ASSUME NEW k \in 1..Len(box), NEW l \in 1..Len(box), k < l, box[k].id \in Clean
         PROVE  \E i \in 1..Len(heard') : heard'[i] = box[k].id
    <3>1. box[k].whole
      <4>1. k < Len(box) BY <2>2, <2>18
      <4> QED BY <2>9, <4>1 DEF InFile
    <3>2. box[k].id \in seen \/ k \in Unheard BY <2>18, <3>1 DEF Unheard, Parsed
    <3> QED BY <2>16, <2>17, <3>2
  <2>19. seen' = {heard'[i] : i \in 1..Len(heard')}
    <3>1. ASSUME NEW x \in seen' PROVE \E i \in 1..Len(heard') : x = heard'[i]
      <4>1. CASE x \in seen
        <5>1. PICK i \in 1..h : x = heard[i] BY <2>10, <4>1
        <5>2. i \in 1..Len(heard') BY <2>4, <2>7
        <5> QED BY <2>7, <5>1, <5>2
      <4>2. CASE x \notin seen
        <5>1. PICK p \in Parsed : x = box[p].id BY <2>1, <3>1, <4>2 DEF Seen
        <5>2. p \in Unheard BY <4>2, <5>1 DEF Unheard
        <5> QED BY <2>17, <5>1, <5>2
      <4> QED BY <4>1, <4>2
    <3>2. ASSUME NEW i \in 1..Len(heard') PROVE heard'[i] \in seen'
      <4>1. CASE i \in 1..h BY <2>1, <2>7, <2>10, <4>1
      <4>2. CASE i - h \in 1..w /\ heard'[i] = box[line[i - h]].id
        <5>1. line[i - h] \in Parsed BY <2>3, <4>2 DEF Unheard
        <5> QED BY <2>1, <4>2, <5>1 DEF Seen
      <4> QED BY <2>8, <4>1, <4>2
    <3> QED BY <3>1, <3>2
  <2>20. ASSUME NEW i \in 1..Len(box), box[i].id \in seen' PROVE box[i].whole
    <3>1. CASE box[i].id \in seen BY <2>9, <3>1 DEF Read
    <3>2. CASE box[i].id \notin seen
      <4>1. PICK p \in Parsed : box[i].id = box[p].id BY <2>1, <2>20, <3>2 DEF Seen
      <4>2. p \in 1..Len(box) /\ box[p].whole BY DEF Parsed
      <4> QED BY <2>11, <4>1, <4>2
    <3> QED BY <3>1, <3>2
  <2>21. Read(box, heard', seen')
    <3>1. \A i \in 1..Len(heard') :
            \E k \in 1..Len(box) : box[k].id = heard'[i] /\ heard'[i] \in Clean
      BY <2>14
    <3>2. \A i, j \in 1..Len(heard'), k, l \in 1..Len(box) :
            box[k].id = heard'[i] /\ box[l].id = heard'[j] => (i < j <=> k < l)
      BY <2>15
    <3>3. \A k, l \in 1..Len(box), j \in 1..Len(heard') :
            k < l /\ box[k].id \in Clean /\ box[l].id = heard'[j] =>
              \E i \in 1..Len(heard') : heard'[i] = box[k].id
      BY <2>18
    <3>4. \A i \in 1..Len(box) : box[i].id \in seen' => box[i].whole BY <2>20
    <3> QED BY <2>19, <3>1, <3>2, <3>3, <3>4 DEF Read
  <2> QED BY <1>1, <2>9, <2>21, HeardIs
<1> QED BY <1>2, <1>3

\* Every step keeps what is heard beside the file.
LEMMA StepHeard ==
  ASSUME TypeOK, Heard, [Next]_vars
  PROVE  Heard'
<1> USE DEF talk, batch, mailbox, ears
<1>0. box \in Seq(Line) /\ Len(box) \in Nat /\ heard \in Seq(Mail) /\ Len(heard) \in Nat
  BY DEF TypeOK
<1>1. CASE Drain BY <1>1, DrainHeard
<1>2. CASE /\ UNCHANGED <<box, sent, heard, seen>>
           /\ pc' \notin {"report", "done"} => pc \notin {"report", "done"}
  BY <1>2, SameHeard
<1>3. CASE Cleanup
  <2>1. box' = <<>> /\ sent' = sent /\ pc' = "report" BY <1>3 DEF Cleanup
  <2>2. InFile(box', sent') BY <2>1 DEF InFile
  <2> QED BY <2>1, <2>2, HeardIs
<1>4. CASE Crash
  <2>1. UNCHANGED <<box, sent>> /\ heard' = <<>> /\ seen' = {} BY <1>4 DEF Crash
  <2>2. Len(heard') = 0 /\ 1..Len(heard') = {} BY <2>1
  <2>3. Read(box', heard', seen') BY <2>1, <2>2 DEF Read
  <2> QED BY <2>1, <2>3, HeardIs
<1>5. CASE WriteEnd
  <2>1. /\ Torn /\ box' = [box EXCEPT ![Len(box)].whole = TRUE]
        /\ UNCHANGED <<pc, sent, heard, seen>>
    BY <1>5 DEF WriteEnd
  <2>2. /\ Len(box') = Len(box)
        /\ \A i \in 1..Len(box) : i # Len(box) => box'[i] = box[i]
        /\ Len(box) \in 1..Len(box) => box'[Len(box)] = [box[Len(box)] EXCEPT !.whole = TRUE]
    <3> DEFINE last == [box[Len(box)] EXCEPT !.whole = TRUE]
    <3>1. box' = [box EXCEPT ![Len(box)] = last] BY <2>1
    <3>2. last \in Line
      <4>1. Len(box) \in 1..Len(box) BY <1>0, <2>1 DEF Torn
      <4>2. box[Len(box)] \in Line BY <1>0, <4>1
      <4> QED BY <4>2 DEF Line
    <3> HIDE DEF last
    <3>3. /\ Len(box') = Len(box)
          /\ \A i \in 1..Len(box) : box'[i] = IF i = Len(box) THEN last ELSE box[i]
      BY <1>0, <3>1, <3>2
    <3> QED BY <3>3 DEF last
  <2>3. ASSUME NEW i \in 1..Len(box)
        PROVE  box'[i].id = box[i].id /\ (box[i].whole => box'[i].whole)
    <3>1. CASE i # Len(box) BY <2>2, <3>1
    <3>2. CASE i = Len(box)
      <4>1. box'[i] = [box[i] EXCEPT !.whole = TRUE] BY <2>2, <3>2
      <4>2. box[i] \in Line BY <1>0
      <4> QED BY <4>1, <4>2 DEF Line
    <3> QED BY <3>1, <3>2
  <2>4. InFile(box, sent) BY HeardIs
  <2>5. InFile(box', sent') BY <2>1, <2>2, <2>3, <2>4 DEF InFile
  <2>6. ASSUME pc \notin {"report", "done"} PROVE Read(box', heard', seen')
    <3>1. Read(box, heard, seen) BY <2>6, HeardIs
    <3>2. Read(box', heard, seen) BY <2>2, <2>3, <3>1, ReadSame
    <3> QED BY <2>1, <3>2
  <2> QED BY <2>1, <2>5, <2>6, HeardIs
<1>6. CASE \E m \in Mail : WriteBegin(m)
  <2>1. PICK m \in Mail : WriteBegin(m) BY <1>6
  <2>2. /\ m \notin sent /\ ~Torn /\ sent' = sent \cup {m}
        /\ box' = Append(box, [id |-> m, whole |-> FALSE])
        /\ UNCHANGED <<pc, heard, seen>>
    BY <2>1 DEF WriteBegin
  <2>3. /\ Len(box') = Len(box) + 1
        /\ \A i \in 1..Len(box) : box'[i] = box[i]
        /\ box'[Len(box) + 1] = [id |-> m, whole |-> FALSE]
    BY <1>0, <2>2
  <2>4. box'[Len(box) + 1].id = m BY <2>3
  <2>5. InFile(box, sent) BY HeardIs
  <2>6. \A i \in 1..Len(box) : box[i].whole
    <3> SUFFICES ASSUME NEW i \in 1..Len(box) PROVE box[i].whole
      OBVIOUS
    <3>1. CASE i < Len(box) BY <2>5, <3>1 DEF InFile
    <3>2. CASE i = Len(box)
      <4>1. box # <<>> BY <1>0, <3>2
      <4> QED BY <2>2, <3>2, <4>1 DEF Torn
    <3> QED BY <1>0, <3>1, <3>2
  <2>7. \A i \in 1..Len(box') : i \in 1..Len(box) \/ i = Len(box) + 1
    BY <1>0, <2>3
  <2>8. \A i \in 1..Len(box) : box'[i].id \in sent /\ box'[i].id # m
    BY <2>2, <2>3, <2>5 DEF InFile
  <2>9. ASSUME NEW i \in 1..Len(box')
        PROVE  box'[i].id \in sent' /\ (i < Len(box') => box'[i].whole)
    <3>1. CASE i \in 1..Len(box) BY <2>2, <2>3, <2>6, <2>8, <3>1
    <3>2. CASE i = Len(box) + 1
      <4>1. ~(i < Len(box')) BY <1>0, <2>3, <3>2
      <4> QED BY <2>2, <2>4, <3>2, <4>1
    <3> QED BY <2>7, <3>1, <3>2
  <2>10. ASSUME NEW i \in 1..Len(box'), NEW j \in 1..Len(box'), box'[i].id = box'[j].id
         PROVE  i = j
    <3>1. CASE i \in 1..Len(box) /\ j \in 1..Len(box)
      BY <2>3, <2>5, <2>10, <3>1 DEF InFile
    <3>2. CASE i = Len(box) + 1 /\ j \in 1..Len(box)
      BY <2>4, <2>8, <2>10, <3>2
    <3>3. CASE i \in 1..Len(box) /\ j = Len(box) + 1
      BY <2>4, <2>8, <2>10, <3>3
    <3>4. CASE i = Len(box) + 1 /\ j = Len(box) + 1 BY <3>4
    <3> QED BY <2>7, <3>1, <3>2, <3>3, <3>4
  <2>11. InFile(box', sent') BY <2>9, <2>10 DEF InFile
  <2>12. ASSUME pc \notin {"report", "done"} PROVE Read(box', heard', seen')
    <3>1. Read(box, heard, seen) BY <2>12, HeardIs
    <3>2. \A i \in 1..Len(heard) : heard[i] # m
      <4> SUFFICES ASSUME NEW i \in 1..Len(heard) PROVE heard[i] # m
        OBVIOUS
      <4>1. PICK k \in 1..Len(box) : box[k].id = heard[i] BY <3>1 DEF Read
      <4>2. box[k].id \in sent BY <2>5 DEF InFile
      <4> QED BY <2>2, <4>1, <4>2
    <3>3. \A k \in 1..Len(box'), i \in 1..Len(heard) :
            box'[k].id = heard[i] => k \in 1..Len(box) /\ box'[k] = box[k]
      BY <2>3, <2>4, <2>7, <3>2
    <3>4. \A i \in 1..Len(heard) :
            \E k \in 1..Len(box') : box'[k].id = heard[i] /\ heard[i] \in Clean
      <4> SUFFICES ASSUME NEW i \in 1..Len(heard)
                   PROVE  \E k \in 1..Len(box') : box'[k].id = heard[i] /\ heard[i] \in Clean
        OBVIOUS
      <4>1. PICK k \in 1..Len(box) : box[k].id = heard[i] /\ heard[i] \in Clean
        BY <3>1 DEF Read
      <4>2. k \in 1..Len(box') /\ box'[k] = box[k] BY <1>0, <2>3
      <4> QED BY <4>1, <4>2
    <3>5. \A i, j \in 1..Len(heard), k, l \in 1..Len(box') :
            box'[k].id = heard[i] /\ box'[l].id = heard[j] => (i < j <=> k < l)
      BY <3>1, <3>3 DEF Read
    <3>6. ASSUME NEW k \in 1..Len(box'), NEW l \in 1..Len(box'), NEW j \in 1..Len(heard),
                 k < l, box'[k].id \in Clean, box'[l].id = heard[j]
          PROVE  \E i \in 1..Len(heard) : heard[i] = box'[k].id
      <4>1. l \in 1..Len(box) /\ box[l].id = heard[j] BY <3>3, <3>6
      <4>2. k \in 1..Len(box) BY <1>0, <3>6, <4>1
      <4>3. box'[k] = box[k] BY <2>3, <4>2
      <4> QED BY <3>1, <3>6, <4>1, <4>2, <4>3 DEF Read
    <3>7. \A i \in 1..Len(box') : box'[i].id \in seen => box'[i].whole
      <4> SUFFICES ASSUME NEW i \in 1..Len(box'), box'[i].id \in seen PROVE box'[i].whole
        OBVIOUS
      <4>1. PICK j \in 1..Len(heard) : box'[i].id = heard[j] BY <3>1 DEF Read
      <4>2. i \in 1..Len(box) /\ box'[i] = box[i] BY <3>3, <4>1
      <4> QED BY <2>6, <4>2
    <3>8. seen = {heard[i] : i \in 1..Len(heard)} BY <3>1 DEF Read
    <3>9. Read(box', heard, seen) BY <3>4, <3>5, <3>6, <3>7, <3>8 DEF Read
    <3> QED BY <2>2, <3>9
  <2> QED BY <2>2, <2>11, <2>12, HeardIs
<1>7. CASE NextRound \/ Prepare \/ CallFails \/ Replies \/ Reviewed \/ AsksTools \/ Results
  <2>1. /\ UNCHANGED <<box, sent, heard, seen>>
        /\ pc \notin {"report", "done"}
    BY <1>7 DEF NextRound, Prepare, CallFails, Replies, Reviewed, AsksTools, Results
  <2> QED BY <1>2, <2>1
<1>8. CASE \E j \in 1..MaxCalls : ToolEnds(j) \/ ToolMalformed(j)
  <2>1. UNCHANGED <<box, sent, heard, seen>> /\ pc \notin {"report", "done"}
    BY <1>8 DEF ToolEnds, ToolMalformed, Runs
  <2> QED BY <1>2, <2>1
<1>9. CASE Report \/ UNCHANGED vars
  <2>1. /\ UNCHANGED <<box, sent, heard, seen>>
        /\ pc' \notin {"report", "done"} => pc \notin {"report", "done"}
    BY <1>9 DEF Report, vars
  <2> QED BY <1>2, <2>1
<1> QED
  BY <1>1, <1>3, <1>4, <1>5, <1>6, <1>7, <1>8, <1>9 DEF Next, Agent, Others

-----------------------------------------------------------------------------
(* The theorems.                                                           *)

\* The first state.
LEMMA InitInv == Init => IInv
<1> SUFFICES ASSUME Init PROVE IInv OBVIOUS
<1>1. TypeOK BY InitTypes
<1>2. PICK size \in {Short, Long} : conv = <<User(1, size)>> BY DEF Init, Task
<1>3. Len(conv) = 1 /\ conv[1].n = 1 /\ conv[1].role = "user" BY <1>2 DEF User
<1>4. NoHoles /\ Len(conv) <= said BY <1>3 DEF Init, NoHoles
<1>5. Starts(conv) = {} BY <1>3 DEF Starts
<1>6. Replied BY <1>5 DEF Replied, Init
<1>7. RoundsSoFar BY LlmLoopAssumption DEF Init, RoundsSoFar
<1>8. CallsSoFar
  <2>1. MaxRetries \in Nat /\ ReflectAfter \in Nat BY LlmLoopAssumption
  <2>2. 0 <= 2 * MaxRetries BY <2>1
  <2>3. chats = 0 /\ round = 0 /\ attempt = 0 /\ who = "main" /\ pc \notin {"call"} BY DEF Init
  <2>4. ~(round > 1) /\ ~(round > ReflectAfter) BY <2>1, <2>3
  <2>5. CallsBounded BY <2>1, <2>2, <2>3, <2>4 DEF CallsBounded, Summaries
  <2> QED BY <2>3, <2>5 DEF CallsSoFar
<1>9. Heard BY DEF Init, Heard, OwnerInOrder
<1> QED BY <1>1, <1>4, <1>6, <1>7, <1>8, <1>9 DEF IInv

\* The inductive invariant: types, the conversation without a hole, the counts of
\* rounds and of calls, the results of every reply and the mailbox.
THEOREM Invariance == Spec => []IInv
<1>1. IInv /\ [Next]_vars => IInv'
  <2> SUFFICES ASSUME IInv, [Next]_vars PROVE IInv' OBVIOUS
  <2>1. /\ TypeOK /\ Contiguous /\ CallsSoFar /\ RoundsSoFar /\ Replied /\ Heard
    BY DEF IInv, Contiguous
  <2>2. TypeOK' /\ Contiguous' /\ CallsSoFar' /\ RoundsSoFar' /\ Replied' /\ Heard'
    BY <2>1, StepTypes, StepContiguous, StepCalls, StepRounds, StepReplied, StepHeard
  <2> QED BY <2>2 DEF IInv, Contiguous
<1> QED BY InitInv, <1>1, PTL DEF Spec

\* The model is shown everything since some message: cutting and compacting leave
\* no hole in the conversation and change no order.
THEOREM Unbroken == Spec => []NoHoles
<1>1. IInv => NoHoles BY DEF IInv
<1> QED BY <1>1, Invariance, PTL

\* Every reply with tool calls that the model is shown is followed by the results
\* of just these calls in their order.
THEOREM EveryCallAnswered == Spec => []CallsAnswered
<1>1. IInv => CallsAnswered BY DEF IInv, Replied, CallsAnswered
<1> QED BY <1>1, Invariance, PTL

\* The agent hears what is forwarded to it in clean text in the order of the file,
\* none twice and none left out before a later one.
THEOREM HeardInOrder == Spec => []OwnerInOrder
<1>1. IInv => OwnerInOrder BY DEF IInv, Heard
<1> QED BY <1>1, Invariance, PTL

\* A round makes a bounded number of calls of the model.
THEOREM BoundedCalls == Spec => []CallsBounded
<1>1. IInv => CallsBounded BY DEF IInv, CallsSoFar
<1> QED BY <1>1, Invariance, PTL

\* Beside the system messages there is room for all of the conversation that is
\* kept, when the model or its fallback is asked for the next step.
THEOREM KeptFits == Spec => []FitsWindow
<1>1. Init => FitsWindow BY DEF Init, FitsWindow
<1>2. IInv => TypeOK BY DEF IInv
<1>3. TypeOK /\ FitsWindow /\ [Next]_vars => FitsWindow' BY StepFits
<1> QED BY <1>1, <1>2, <1>3, Invariance, PTL DEF Spec

=============================================================================
