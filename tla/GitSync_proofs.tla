--------------------------- MODULE GitSync_proofs ---------------------------
(* For any calls, agents and machines: one call at a time while no lock is  *)
(* broken, answers that are true unless a reset without the lock came       *)
(* between, and no change lost but by a restart.                            *)
EXTENDS GitSync, TLAPS

Branch == Seq(SUBSET Change)

-----------------------------------------------------------------------------
(* Branches.                                                               *)

\* The changes of a branch are changes.
LEMMA InType ==
  ASSUME NEW b \in Branch
  PROVE  In(b) \subseteq Change
BY DEF In, Branch

\* A commit adds its changes.
LEMMA InAppend ==
  ASSUME NEW b \in Branch, NEW s \in SUBSET Change
  PROVE  Append(b, s) \in Branch /\ In(Append(b, s)) = In(b) \cup s
<1> DEFINE d == Append(b, s)
<1>1. d \in Branch BY DEF Branch
<1>2. /\ DOMAIN d = 1..(Len(b) + 1) /\ DOMAIN b = 1..Len(b) /\ Len(b) \in Nat
      /\ \A i \in 1..Len(b) : d[i] = b[i]
      /\ d[Len(b) + 1] = s
  BY DEF Branch
<1> HIDE DEF d
<1>3. ASSUME NEW x \in In(d) PROVE x \in In(b) \cup s
  <2>1. PICK i \in DOMAIN d : x \in d[i] BY <1>3 DEF In
  <2>2. i \in 1..Len(b) \/ i = Len(b) + 1 BY <1>2
  <2> QED BY <1>2, <2>1, <2>2 DEF In
<1>4. ASSUME NEW x \in In(b) PROVE x \in In(d)
  <2>1. PICK i \in DOMAIN b : x \in b[i] BY <1>4 DEF In
  <2>2. i \in DOMAIN d /\ d[i] = b[i] BY <1>2
  <2> QED BY <2>1, <2>2 DEF In
<1>5. ASSUME NEW x \in s PROVE x \in In(d)
  <2>1. Len(b) + 1 \in DOMAIN d BY <1>2
  <2> QED BY <1>2, <2>1 DEF In
<1> QED BY <1>1, <1>3, <1>4, <1>5 DEF d

\* A branch that is behind has no change that the other has not.
LEMMA InBehind ==
  ASSUME NEW b \in Branch, NEW c \in Branch, IsBehind(b, c)
  PROVE  In(b) \subseteq In(c)
<1>1. DOMAIN b = 1..Len(b) /\ DOMAIN c = 1..Len(c) /\ Len(b) \in Nat /\ Len(c) \in Nat
  BY DEF Branch
<1>2. ASSUME NEW x \in In(b) PROVE x \in In(c)
  <2>1. PICK i \in DOMAIN b : x \in b[i] BY <1>2 DEF In
  <2>2. i \in DOMAIN c /\ c[i] = b[i] BY <1>1 DEF IsBehind
  <2> QED BY <2>1, <2>2 DEF In
<1> QED BY <1>2

\* Undoing the last commit takes out no other changes than its own.
LEMMA InFront ==
  ASSUME NEW b \in Branch, b # <<>>
  PROVE  /\ SubSeq(b, 1, Len(b) - 1) \in Branch
         /\ b[Len(b)] \subseteq Change
         /\ In(b) = In(SubSeq(b, 1, Len(b) - 1)) \cup b[Len(b)]
<1> DEFINE d == SubSeq(b, 1, Len(b) - 1)
<1>1. Len(b) \in Nat /\ Len(b) > 0 /\ DOMAIN b = 1..Len(b) BY DEF Branch
<1>2. d \in Branch /\ Len(d) = Len(b) - 1 /\ DOMAIN d = 1..(Len(b) - 1)
      /\ \A i \in 1..(Len(b) - 1) : d[i] = b[i]
  BY <1>1 DEF Branch
<1>3. Len(b) \in DOMAIN b /\ b[Len(b)] \subseteq Change BY <1>1 DEF Branch
<1> HIDE DEF d
<1>4. ASSUME NEW x \in In(b) PROVE x \in In(d) \cup b[Len(b)]
  <2>1. PICK i \in DOMAIN b : x \in b[i] BY <1>4 DEF In
  <2>2. i \in DOMAIN d \/ i = Len(b) BY <1>1, <1>2
  <2> QED BY <1>1, <1>2, <2>1, <2>2 DEF In
<1>5. ASSUME NEW x \in In(d) PROVE x \in In(b)
  <2>1. PICK i \in DOMAIN d : x \in d[i] BY <1>5 DEF In
  <2>2. i \in DOMAIN b /\ b[i] = d[i] BY <1>1, <1>2
  <2> QED BY <2>1, <2>2 DEF In
<1>6. b[Len(b)] \subseteq In(b) BY <1>3 DEF In
<1> QED BY <1>2, <1>3, <1>4, <1>5, <1>6 DEF d

\* The elements of the end of a sequence.
LEMMA EndOf ==
  ASSUME NEW S, NEW b \in Seq(S), NEW m \in 1..(Len(b) + 1)
  PROVE  /\ SubSeq(b, m, Len(b)) \in Seq(S)
         /\ Len(SubSeq(b, m, Len(b))) = Len(b) - (m - 1)
         /\ \A i \in 1..(Len(b) - (m - 1)) : SubSeq(b, m, Len(b))[i] = b[i + (m - 1)]
<1>1. Len(b) \in Nat OBVIOUS
<1> DEFINE d == SubSeq(b, m, Len(b))
<1>2. d \in Seq(S) /\ Len(d) = Len(b) - (m - 1) BY <1>1
<1>3. \A i \in 1..(Len(b) - (m - 1)) : d[i] = b[i + (m - 1)] BY <1>1, <1>2
<1> QED BY <1>2, <1>3

\* The elements of a concatenation.
LEMMA Joined ==
  ASSUME NEW S, NEW c \in Seq(S), NEW s \in Seq(S)
  PROVE  /\ c \o s \in Seq(S) /\ Len(c \o s) = Len(c) + Len(s)
         /\ \A i \in 1..(Len(c) + Len(s)) :
              (c \o s)[i] = IF i <= Len(c) THEN c[i] ELSE s[i - Len(c)]
OBVIOUS

\* A rebase keeps what was in either branch.
LEMMA InRebased ==
  ASSUME NEW b \in Branch, NEW c \in Branch, NEW n \in 0..Len(b), n <= Len(c),
         \A i \in 1..n : b[i] = c[i]
  PROVE  /\ c \o SubSeq(b, n + 1, Len(b)) \in Branch
         /\ In(c \o SubSeq(b, n + 1, Len(b))) = In(b) \cup In(c)
<1> DEFINE s == SubSeq(b, n + 1, Len(b))
           d == c \o s
<1>1. /\ Len(b) \in Nat /\ Len(c) \in Nat /\ n \in Nat /\ n <= Len(b)
      /\ DOMAIN b = 1..Len(b) /\ DOMAIN c = 1..Len(c)
  BY DEF Branch
<1>2. s \in Branch /\ Len(s) = Len(b) - n /\ \A i \in 1..(Len(b) - n) : s[i] = b[i + n]
  <2>1. n + 1 \in 1..(Len(b) + 1) /\ (n + 1) - 1 = n BY <1>1
  <2>2. b \in Seq(SUBSET Change) BY DEF Branch
  <2>3. /\ s \in Seq(SUBSET Change) /\ Len(s) = Len(b) - ((n + 1) - 1)
        /\ \A i \in 1..(Len(b) - ((n + 1) - 1)) : s[i] = b[i + ((n + 1) - 1)]
    BY <2>1, <2>2, EndOf
  <2> HIDE DEF s
  <2> QED BY <2>1, <2>3 DEF Branch
<1> HIDE DEF s
<1>3. /\ d \in Branch /\ DOMAIN d = 1..(Len(c) + Len(s))
      /\ \A i \in 1..(Len(c) + Len(s)) : d[i] = IF i <= Len(c) THEN c[i] ELSE s[i - Len(c)]
  <2>1. /\ d \in Branch /\ Len(d) = Len(c) + Len(s)
        /\ \A i \in 1..(Len(c) + Len(s)) : d[i] = IF i <= Len(c) THEN c[i] ELSE s[i - Len(c)]
    BY <1>2, Joined DEF Branch
  <2>2. DOMAIN d = 1..Len(d)
    <3> HIDE DEF d
    <3> QED BY <2>1 DEF Branch
  <2> QED BY <2>1, <2>2
<1> HIDE DEF d
<1>4. ASSUME NEW x \in In(d) PROVE x \in In(b) \cup In(c)
  <2>1. PICK i \in DOMAIN d : x \in d[i] BY <1>4 DEF In
  <2>2. CASE i <= Len(c)
    <3>1. i \in DOMAIN c /\ d[i] = c[i] BY <1>1, <1>3, <2>1, <2>2
    <3> QED BY <2>1, <3>1 DEF In
  <2>3. CASE ~(i <= Len(c))
    <3>1. i - Len(c) \in 1..(Len(b) - n) /\ d[i] = s[i - Len(c)]
      BY <1>1, <1>2, <1>3, <2>1, <2>3
    <3>2. (i - Len(c)) + n \in DOMAIN b BY <1>1, <3>1
    <3>3. d[i] = b[(i - Len(c)) + n] BY <1>2, <3>1
    <3> QED BY <2>1, <3>2, <3>3 DEF In
  <2> QED BY <2>2, <2>3
<1>5. ASSUME NEW x \in In(c) PROVE x \in In(d)
  <2>1. PICK i \in DOMAIN c : x \in c[i] BY <1>5 DEF In
  <2>2. i \in DOMAIN d /\ d[i] = c[i] BY <1>1, <1>2, <1>3
  <2> QED BY <2>1, <2>2 DEF In
<1>6. ASSUME NEW x \in In(b) PROVE x \in In(d)
  <2>1. PICK i \in DOMAIN b : x \in b[i] BY <1>6 DEF In
  <2>2. CASE i <= n
    <3>1. i \in 1..n /\ i \in DOMAIN c BY <1>1, <2>2
    <3>2. x \in In(c) BY <2>1, <3>1 DEF In
    <3> QED BY <1>5, <3>2
  <2>3. CASE ~(i <= n)
    <3>1. i - n \in 1..(Len(b) - n) /\ (i - n) + n = i BY <1>1, <2>3
    <3>2. s[i - n] = b[i] BY <1>2, <3>1
    <3>3. /\ Len(c) + (i - n) \in DOMAIN d /\ ~(Len(c) + (i - n) <= Len(c))
          /\ (Len(c) + (i - n)) - Len(c) = i - n
      BY <1>1, <1>2, <1>3, <3>1
    <3>4. d[Len(c) + (i - n)] = s[i - n] BY <1>3, <3>3
    <3> QED BY <2>1, <3>2, <3>3, <3>4 DEF In
  <2> QED BY <2>2, <2>3
<1> QED BY <1>3, <1>4, <1>5, <1>6 DEF d, s

-----------------------------------------------------------------------------
(* What the commands of git do to the changes.                             *)

\* No change leaves its place but for a commit, unless a reset undoes it.
Grow ==
  /\ In(origin) \subseteq In(origin')
  /\ In(local) \subseteq In(local') \cup undone'
  /\ tree \subseteq tree' \cup In(local') \cup undone'
  /\ index \subseteq index' \cup In(local') \cup undone'
  /\ undone \subseteq undone'
  /\ Discarding \/ Changes \subseteq Changes'

CopyType ==
  /\ local \in Branch /\ tree \subseteq Change /\ index \subseteq tree
  /\ rebasing \in BOOLEAN

\* A pull keeps the changes, whether it succeeds or not.
LEMMA PullKeeps ==
  ASSUME CopyType, origin \in Branch, PullSucceeds \/ PullFails \/ PullConflicts
  PROVE  CopyType' /\ In(local) \subseteq In(local') /\ UNCHANGED <<tree, index>>
<1>1. CASE PullSucceeds
  <2>1. PICK n \in Common : local' = origin \o SubSeq(local, n + 1, Len(local))
    BY <1>1 DEF PullSucceeds
  <2>2. n \in 0..Len(local) /\ n <= Len(origin) /\ \A i \in 1..n : local[i] = origin[i]
    BY DEF Common
  <2>3. local' \in Branch /\ In(local') = In(local) \cup In(origin)
    BY <2>1, <2>2, InRebased DEF CopyType
  <2> QED BY <1>1, <2>3 DEF PullSucceeds, CopyType
<1>2. CASE PullFails \/ PullConflicts
  BY <1>2 DEF PullFails, PullConflicts, copy, CopyType
<1> QED BY <1>1, <1>2

\* A commit moves what is staged into the branch.
LEMMA CommitKeeps ==
  ASSUME CopyType, Commits
  PROVE  /\ CopyType' /\ In(local') = In(local) \cup index
         /\ tree' = tree \ index /\ index' = {}
<1>1. index \subseteq Change BY DEF CopyType
<1>2. local' \in Branch /\ In(local') = In(local) \cup index
  BY <1>1, InAppend DEF Commits, CopyType
<1> QED BY <1>2 DEF Commits, CopyType

\* A push makes the remote's branch what the local one is.
LEMMA PushKeeps ==
  ASSUME local \in Branch, origin \in Branch, Pushes
  PROVE  origin' \in Branch /\ origin' = local /\ In(origin) \subseteq In(origin')
BY InBehind DEF Pushes

\* What is discarded was staged or is known to git.
LEMMA DiscardsTracked ==
  ASSUME CopyType, Discards
  PROVE  /\ index \subseteq Tracked /\ Tracked \subseteq Change
         /\ tree' = tree \ Tracked /\ index' = {}
BY DEF CopyType, Discards, Tracked

\* The types in these words.
LEMMA TypeIs ==
  /\ TypeOK => CopyType /\ origin \in Branch
  /\ TypeOK' <=> /\ pc' \in [Call -> Place] /\ kind' \in [Call -> Kind]
                 /\ answer' \in [Call -> {"none", "error", "local", "ok"}]
                 /\ lock' \in Call \cup {None}
                 /\ origin' \in Branch /\ CopyType'
                 /\ rescue' \in [Agent -> {"idle", "commit", "pull", "push", "undo", "done"}]
                 /\ restart' \in {"idle", "abort", "reset", "test"}
                 /\ undone' \subseteq Change
                 /\ breaks' \in 0..MaxBreaks /\ deaths' \in 0..MaxDeaths
                 /\ restarts' \in 0..MaxRestarts
<1>1. TypeOK => CopyType /\ origin \in Branch
  BY DEF TypeOK, CopyType, Branch
<1>2. CopyType' <=> /\ local' \in Branch /\ tree' \subseteq Change
                    /\ index' \subseteq tree' /\ rebasing' \in BOOLEAN
  BY DEF CopyType
<1>3. TypeOK' <=> /\ pc' \in [Call -> Place] /\ kind' \in [Call -> Kind]
                 /\ answer' \in [Call -> {"none", "error", "local", "ok"}]
                 /\ lock' \in Call \cup {None}
                 /\ origin' \in Branch /\ local' \in Branch
                 /\ tree' \subseteq Change /\ index' \subseteq tree' /\ rebasing' \in BOOLEAN
                 /\ rescue' \in [Agent -> {"idle", "commit", "pull", "push", "undo", "done"}]
                 /\ restart' \in {"idle", "abort", "reset", "test"}
                 /\ undone' \subseteq Change
                 /\ breaks' \in 0..MaxBreaks /\ deaths' \in 0..MaxDeaths
                 /\ restarts' \in 0..MaxRestarts
  BY DEF TypeOK, Branch
<1> QED BY <1>1, <1>2, <1>3

-----------------------------------------------------------------------------
(* Types, and where changes go.                                            *)

\* A step that touches no change.
LEMMA Quiet ==
  ASSUME CopyType, origin \in Branch, UNCHANGED <<origin, copy, undone>>
  PROVE  Grow /\ CopyType' /\ origin' \in Branch
BY DEF Grow, CopyType, copy, Changes

\* A step that keeps both branches and stages or makes changes.
LEMMA Adding ==
  ASSUME CopyType, origin \in Branch, UNCHANGED <<origin, local, rebasing, undone>>,
         tree \subseteq tree', tree' \subseteq Change, index \subseteq index', index' \subseteq tree'
  PROVE  Grow /\ CopyType' /\ origin' \in Branch
BY DEF Grow, CopyType, Changes

\* A commit, a pull and a push.
LEMMA Commanding ==
  ASSUME CopyType, origin \in Branch, UNCHANGED undone,
         \/ Commits /\ UNCHANGED origin
         \/ (PullSucceeds \/ PullFails \/ PullConflicts) /\ UNCHANGED origin
         \/ Pushes /\ UNCHANGED copy
  PROVE  Grow /\ CopyType' /\ origin' \in Branch
<1>1. CASE Commits /\ UNCHANGED origin
  <2>1. /\ CopyType' /\ In(local') = In(local) \cup index
        /\ tree' = tree \ index /\ index' = {}
    BY <1>1, CommitKeeps
  <2>2. tree \subseteq tree' \cup In(local') /\ index \subseteq In(local') BY <2>1
  <2> QED BY <1>1, <2>1, <2>2 DEF Grow, Changes
<1>2. CASE (PullSucceeds \/ PullFails \/ PullConflicts) /\ UNCHANGED origin
  BY <1>2, PullKeeps DEF Grow, Changes
<1>3. CASE Pushes /\ UNCHANGED copy
  <2>1. origin' \in Branch /\ In(origin) \subseteq In(origin')
    BY <1>3, PushKeeps DEF CopyType
  <2>2. UNCHANGED <<local, tree, index, rebasing>> BY <1>3 DEF copy
  <2> QED BY <2>1, <2>2 DEF Grow, CopyType, Changes
<1> QED BY <1>1, <1>2, <1>3

\* The variables that are no changes.
ControlType ==
  /\ pc \in [Call -> Place] /\ kind \in [Call -> Kind]
  /\ answer \in [Call -> {"none", "error", "local", "ok"}]
  /\ lock \in Call \cup {None}
  /\ rescue \in [Agent -> {"idle", "commit", "pull", "push", "undo", "done"}]
  /\ restart \in {"idle", "abort", "reset", "test"}
  /\ breaks \in 0..MaxBreaks /\ deaths \in 0..MaxDeaths /\ restarts \in 0..MaxRestarts

\* A tool's step.
LEMMA ToolTypes ==
  ASSUME TypeOK, NEW c \in Call, Tool(c)
  PROVE  Grow /\ ControlType' /\ CopyType' /\ origin' \in Branch
         /\ UNCHANGED <<undone, rescue, restart>>
<1> USE GitSyncAssumption DEF calls, helpers, faults
<1>0. CopyType /\ origin \in Branch /\ ControlType /\ c \in Change
  BY TypeIs DEF TypeOK, ControlType, Change
<1>1. CASE Begin(c)
  <2>1. PICK k \in Kind :
          /\ kind' = [kind EXCEPT ![c] = k]
          /\ tree' = IF k = "write" THEN tree ELSE tree \cup {c}
    BY <1>1 DEF Begin
  <2>2. ControlType' BY <1>0, <1>1, <2>1 DEF Begin, ControlType, Goto, Place
  <2>3. /\ UNCHANGED <<origin, local, rebasing, undone, index>>
        /\ tree \subseteq tree' /\ tree' \subseteq Change /\ index \subseteq tree'
    BY <1>0, <1>1, <2>1 DEF Begin, CopyType
  <2>4. Grow /\ CopyType' /\ origin' \in Branch BY <1>0, <2>3, Adding
  <2> QED BY <1>1, <2>2, <2>4 DEF Begin
<1>2. CASE Acquire(c) \/ Break(c) \/ TimesOut(c) \/ Fails(c) \/ Checkout(c) \/ Release(c)
  <2>1. UNCHANGED <<origin, copy, undone>>
    BY <1>2 DEF Acquire, Break, TimesOut, Fails, Checkout, Release
  <2>2. ASSUME Acquire(c) PROVE ControlType'
    BY <1>0, <2>2 DEF Acquire, ControlType, Goto, Place
  <2>3. ASSUME Break(c) PROVE ControlType'
    BY <1>0, <2>3 DEF Break, ControlType, Goto, Place
  <2>4. ASSUME TimesOut(c) PROVE ControlType'
    BY <1>0, <2>4 DEF TimesOut, ControlType, Goto, Place
  <2>5. ASSUME Fails(c) PROVE ControlType'
    BY <1>0, <2>5 DEF Fails, Answers, ControlType, Goto, Place
  <2>6. ASSUME Checkout(c) PROVE ControlType'
    BY <1>0, <2>6 DEF Checkout, ControlType, Goto, Place
  <2>7. ASSUME Release(c) PROVE ControlType'
    BY <1>0, <2>7 DEF Release, ControlType, Goto, Place
  <2>8. ControlType' BY <1>2, <2>2, <2>3, <2>4, <2>5, <2>6, <2>7
  <2> QED BY <1>0, <1>2, <2>1, <2>8, Quiet
    DEF Acquire, Break, TimesOut, Fails, Checkout, Release
<1>3. CASE LooksStale(c)
  <2>1. UNCHANGED <<origin, copy, undone>> BY <1>3 DEF LooksStale
  <2>2. ControlType' BY <1>0, <1>3 DEF LooksStale, ControlType, Goto, Place
  <2> QED BY <1>0, <1>3, <2>1, <2>2, Quiet DEF LooksStale
<1>4. CASE Die(c)
  <2>1. UNCHANGED <<origin, copy, undone>> BY <1>4 DEF Die
  <2>2. ControlType' BY <1>0, <1>4 DEF Die, ControlType, Goto, Place
  <2> QED BY <1>0, <1>4, <2>1, <2>2, Quiet DEF Die
<1>5. CASE Tests(c)
  <2>1. UNCHANGED <<origin, copy, undone>> BY <1>5 DEF Tests
  <2>2. ControlType' BY <1>0, <1>5 DEF Tests, Answers, ControlType, Goto, Place
  <2> QED BY <1>0, <1>5, <2>1, <2>2, Quiet DEF Tests
<1>6. CASE Write(c)
  <2>1. ControlType' BY <1>0, <1>6 DEF Write, ControlType, Goto, Place
  <2>2. /\ UNCHANGED <<origin, local, rebasing, undone, index>>
        /\ tree \subseteq tree' /\ tree' \subseteq Change /\ index \subseteq tree'
    BY <1>0, <1>6 DEF Write, CopyType
  <2>3. Grow /\ CopyType' /\ origin' \in Branch BY <1>0, <2>2, Adding
  <2> QED BY <1>6, <2>1, <2>3 DEF Write
<1>7. CASE Add(c)
  <2>1. ControlType' BY <1>0, <1>7 DEF Add, ControlType, Goto, Place
  <2>2. /\ UNCHANGED <<origin, local, rebasing, undone, tree>>
        /\ index \subseteq index' /\ index' \subseteq tree' /\ tree' \subseteq Change
    BY <1>0, <1>7 DEF Add, Staged, CopyType
  <2>3. Grow /\ CopyType' /\ origin' \in Branch BY <1>0, <2>2, Adding
  <2> QED BY <1>7, <2>1, <2>3 DEF Add
<1>8. CASE Commit(c)
  <2>1. ControlType' BY <1>0, <1>8 DEF Commit, ControlType, Goto, Place
  <2>2. Commits /\ UNCHANGED <<origin, undone>> BY <1>8 DEF Commit
  <2>3. Grow /\ CopyType' /\ origin' \in Branch BY <1>0, <2>2, Commanding
  <2> QED BY <1>8, <2>1, <2>3 DEF Commit
<1>9. CASE Pull(c)
  <2>1. ControlType' BY <1>0, <1>9 DEF Pull, ControlType, Goto, Place
  <2>2. (PullSucceeds \/ PullFails \/ PullConflicts) /\ UNCHANGED <<origin, undone>>
    BY <1>9 DEF Pull
  <2>3. Grow /\ CopyType' /\ origin' \in Branch BY <1>0, <2>2, Commanding
  <2> QED BY <1>9, <2>1, <2>3 DEF Pull
<1>10. CASE Push(c)
  <2>1. ControlType' BY <1>0, <1>10 DEF Push, PushEnds, Answers, ControlType, Goto, Place
  <2>2. UNCHANGED <<copy, undone>> /\ (Pushes \/ UNCHANGED origin)
    BY <1>10 DEF Push, PushEnds
  <2>3. CASE Pushes
    <3>1. Grow /\ CopyType' /\ origin' \in Branch BY <1>0, <2>2, <2>3, Commanding
    <3> QED BY <1>10, <2>1, <3>1 DEF Push
  <2>4. CASE UNCHANGED origin
    <3>1. Grow /\ CopyType' /\ origin' \in Branch BY <1>0, <2>2, <2>4, Quiet
    <3> QED BY <1>10, <2>1, <3>1 DEF Push
  <2> QED BY <2>2, <2>3, <2>4
<1> QED
  BY <1>1, <1>2, <1>3, <1>4, <1>5, <1>6, <1>7, <1>8, <1>9, <1>10 DEF Tool

\* A step of a rescue.
LEMMA RescueTypes ==
  ASSUME TypeOK, NEW a \in Agent, Rescue(a)
  PROVE  Grow /\ ControlType' /\ CopyType' /\ origin' \in Branch /\ undone' \subseteq Change
         /\ UNCHANGED <<calls, lock, restart, faults>>
<1>0. CopyType /\ origin \in Branch /\ ControlType /\ undone \subseteq Change
  BY TypeIs DEF TypeOK, ControlType
<1>1. UNCHANGED <<calls, lock, restart, faults>>
  BY DEF Rescue, RescueLook, RescueCommit, RescuePull, RescuePush, RescueUndo
<1>2. rescue' \in [Agent -> {"idle", "commit", "pull", "push", "undo", "done"}]
  BY <1>0 DEF Rescue, RescueLook, RescueCommit, RescuePull, RescuePush, RescueUndo,
              RescueGoto, ControlType
<1>3. ControlType' BY <1>0, <1>1, <1>2 DEF ControlType, calls, faults
<1>4. CASE RescueLook(a)
  <2>1. UNCHANGED <<origin, copy, undone>> BY <1>4 DEF RescueLook
  <2> QED BY <1>0, <1>1, <1>3, <2>1, Quiet
<1>5. CASE RescueCommit(a)
  <2>1. (Commits \/ UNCHANGED copy) /\ UNCHANGED <<origin, undone>>
    BY <1>5 DEF RescueCommit
  <2>2. Grow /\ CopyType' /\ origin' \in Branch BY <1>0, <2>1, Quiet, Commanding
  <2> QED BY <1>0, <1>1, <1>3, <2>1, <2>2
<1>6. CASE RescuePull(a)
  <2>1. (PullSucceeds \/ PullFails \/ PullConflicts) /\ UNCHANGED <<origin, undone>>
    BY <1>6 DEF RescuePull
  <2>2. Grow /\ CopyType' /\ origin' \in Branch BY <1>0, <2>1, Commanding
  <2> QED BY <1>0, <1>1, <1>3, <2>1, <2>2
<1>7. CASE RescuePush(a)
  <2>1. (Pushes \/ UNCHANGED origin) /\ UNCHANGED <<copy, undone>>
    BY <1>7 DEF RescuePush
  <2>2. Grow /\ CopyType' /\ origin' \in Branch BY <1>0, <2>1, Quiet, Commanding
  <2> QED BY <1>0, <1>1, <1>3, <2>1, <2>2
<1>8. CASE RescueUndo(a)
  <2>1. UNCHANGED origin BY <1>8 DEF RescueUndo
  <2>2. CASE local = <<>>
    <3>1. UNCHANGED <<origin, copy, undone>> BY <1>8, <2>2 DEF RescueUndo
    <3> QED BY <1>0, <1>1, <1>3, <3>1, Quiet
  <2>3. CASE local # <<>>
    <3> DEFINE last == local[Len(local)]
               front == SubSeq(local, 1, Len(local) - 1)
    <3>1. /\ undone' = undone \cup last \cup index
          /\ tree' = tree \cup last /\ index' = {}
          /\ local' = front /\ rebasing' = rebasing
      BY <1>8, <2>3 DEF RescueUndo, Kept
    <3>2. front \in Branch /\ last \subseteq Change /\ In(local) = In(front) \cup last
      BY <1>0, <2>3, InFront DEF CopyType
    <3> HIDE DEF last, front
    <3>3. CopyType' /\ undone' \subseteq Change BY <1>0, <3>1, <3>2 DEF CopyType
    <3>4. Grow BY <2>1, <3>1, <3>2 DEF Grow, Changes
    <3> QED BY <1>0, <1>1, <1>3, <2>1, <3>3, <3>4
  <2> QED BY <2>2, <2>3
<1> QED BY <1>4, <1>5, <1>6, <1>7, <1>8 DEF Rescue

\* A step of the supervisor or of another machine.
LEMMA OtherTypes ==
  ASSUME TypeOK,
         \/ \E f \in Foreign : ForeignPush(f)
         \/ RestartPull \/ RestartAbort \/ RestartReset \/ RestartFails \/ Restart \/ UNCHANGED vars
  PROVE  Grow /\ ControlType' /\ CopyType' /\ origin' \in Branch
         /\ undone' \subseteq Change
<1> USE GitSyncAssumption DEF helpers, faults, calls
<1>0. /\ CopyType /\ origin \in Branch /\ ControlType
      /\ undone \subseteq Change
  BY TypeIs DEF TypeOK, ControlType
<1>1. CASE \E f \in Foreign : ForeignPush(f)
  <2>1. PICK f \in Foreign : origin' = Append(origin, {f}) BY <1>1 DEF ForeignPush
  <2>2. {f} \in SUBSET Change BY DEF Change
  <2>3. origin' \in Branch /\ In(origin) \subseteq In(origin')
    BY <1>0, <2>1, <2>2, InAppend
  <2>4. UNCHANGED <<calls, lock, local, tree, index, rebasing, helpers, undone, faults>>
    BY <1>1 DEF ForeignPush, copy
  <2>5. CopyType' /\ ControlType' BY <1>0, <2>4 DEF CopyType, ControlType
  <2>6. Grow BY <2>3, <2>4 DEF Grow, Changes
  <2> QED BY <1>0, <2>3, <2>4, <2>5, <2>6
<1>2. CASE RestartPull
  <2>1. UNCHANGED <<calls, lock, origin, rescue, undone, breaks, deaths>>
    BY <1>2 DEF RestartPull
  <2>2. ControlType' BY <1>0, <1>2, <2>1 DEF RestartPull, ControlType
  <2>3. PullSucceeds \/ PullFails \/ PullConflicts BY <1>2 DEF RestartPull
  <2>4. Grow /\ CopyType' /\ origin' \in Branch BY <1>0, <2>1, <2>3, Commanding
  <2> QED BY <1>0, <2>1, <2>2, <2>4
<1>3. CASE RestartReset
  <2>1. /\ UNCHANGED <<calls, lock, origin, rebasing, rescue, faults>>
        /\ restart = "reset" /\ restart' = "test"
        /\ undone' = undone \cup (In(local) \ In(origin)) \cup Tracked
        /\ local' = IF rebasing THEN local ELSE origin
        /\ Discards
    BY <1>3 DEF RestartReset
  <2>2. In(local) \subseteq Change BY <1>0, InType DEF CopyType
  <2>3. /\ index \subseteq Tracked /\ Tracked \subseteq Change
        /\ tree' = tree \ Tracked /\ index' = {}
    BY <1>0, <2>1, DiscardsTracked
  <2>4. CopyType' /\ undone' \subseteq Change BY <1>0, <2>1, <2>2, <2>3 DEF CopyType
  <2>5. ControlType' BY <1>0, <2>1 DEF ControlType
  <2>6. Grow
    <3>1. CASE rebasing BY <1>0, <2>1, <2>3, <3>1 DEF Grow, Discarding, CopyType
    <3>2. CASE ~rebasing BY <1>0, <2>1, <2>3, <3>2 DEF Grow, Discarding, CopyType
    <3> QED BY <3>1, <3>2
  <2> QED BY <1>0, <2>1, <2>4, <2>5, <2>6
<1>4. CASE RestartFails
  <2>1. UNCHANGED <<calls, lock, origin, copy, rescue, undone, faults>>
    BY <1>4 DEF RestartFails
  <2>2. ControlType' BY <1>0, <1>4, <2>1 DEF RestartFails, ControlType
  <2> QED BY <1>0, <2>1, <2>2, Quiet
<1>5. CASE Restart
  <2>1. UNCHANGED <<kind, answer, lock, origin, copy, undone, faults>>
    BY <1>5 DEF Restart
  <2>2. ControlType' BY <1>0, <1>5, <2>1 DEF Restart, ControlType, Place
  <2> QED BY <1>0, <2>1, <2>2, Quiet
<1>6. CASE UNCHANGED vars
  <2>1. UNCHANGED <<calls, lock, origin, copy, helpers, undone, faults>>
    BY <1>6 DEF vars
  <2>2. ControlType' BY <1>0, <2>1 DEF ControlType
  <2> QED BY <1>0, <2>1, <2>2, Quiet
<1>7. CASE RestartAbort
  <2>1. /\ UNCHANGED <<calls, lock, origin, rescue, faults>>
        /\ restart = "abort" /\ restart' = "reset"
    BY <1>7 DEF RestartAbort
  <2>2. ControlType' BY <1>0, <2>1 DEF ControlType
  <2>3. CASE UNCHANGED <<copy, undone>>
    BY <1>0, <2>1, <2>2, <2>3, Quiet
  <2>4. CASE /\ rebasing /\ rebasing' = FALSE
             /\ Discards /\ undone' = undone \cup Tracked
             /\ UNCHANGED local
    <3>1. /\ index \subseteq Tracked /\ Tracked \subseteq Change
          /\ tree' = tree \ Tracked /\ index' = {}
      BY <1>0, <2>4, DiscardsTracked
    <3>2. CopyType' /\ undone' \subseteq Change BY <1>0, <2>4, <3>1 DEF CopyType
    <3>3. Grow BY <1>0, <2>1, <2>4, <3>1 DEF Grow, Discarding
    <3> QED BY <1>0, <2>1, <2>2, <3>2, <3>3
  <2> QED BY <1>7, <2>3, <2>4 DEF RestartAbort
<1> QED BY <1>1, <1>2, <1>3, <1>4, <1>5, <1>6, <1>7

\* Every step keeps the types, and no change goes but as Grow says.
LEMMA StepTypes ==
  ASSUME TypeOK, [Next]_vars
  PROVE  TypeOK' /\ Grow
<1>0. undone \subseteq Change BY DEF TypeOK
<1>1. /\ Grow /\ ControlType' /\ CopyType' /\ origin' \in Branch
      /\ undone' \subseteq Change
  <2>1. CASE \E c \in Call : Tool(c) BY <1>0, <2>1, ToolTypes
  <2>2. CASE \E a \in Agent : Rescue(a) BY <1>0, <2>2, RescueTypes
  <2> QED BY <2>1, <2>2, OtherTypes DEF Next
<1> QED BY <1>1, TypeIs DEF ControlType

-----------------------------------------------------------------------------
(* The lock.                                                               *)

\* Every step keeps the owner of the lock.
LEMMA StepOwned ==
  ASSUME TypeOK, Owned, [Next]_vars
  PROVE  Owned'
<1> USE GitSyncAssumption DEF calls, helpers, faults
<1>0. pc \in [Call -> Place] /\ breaks \in Nat /\ breaks' \in Nat
  <2>1. TypeOK' BY StepTypes
  <2> QED BY <2>1 DEF TypeOK
<1>1. CASE \E c \in Call : Tool(c)
  <2>1. PICK c \in Call : Tool(c) BY <1>1
  <2>2. CASE LooksStale(c) \/ breaks # 0
    <3>1. breaks' # 0
      BY <1>0, <2>1, <2>2 DEF Tool, Begin, Acquire, LooksStale, Break, TimesOut, Fails,
         Checkout, Write, Add, Commit, Tests, Pull, Push, Release, Die
    <3> QED BY <3>1 DEF Owned
  <2>3. CASE ~LooksStale(c) /\ breaks = 0
    <3>1. \A d \in Call : pc[d] # "break" /\ (Inside(d) => lock = d)
      BY <2>3 DEF Owned
    <3>2. \A d \in Call : d # c => pc'[d] = pc[d]
      <4>1. CASE Begin(c) \/ Acquire(c) \/ LooksStale(c) \/ Break(c) \/ TimesOut(c)
        BY <1>0, <4>1 DEF Begin, Acquire, LooksStale, Break, TimesOut, Goto
      <4>2. CASE Fails(c) \/ Checkout(c) \/ Write(c) \/ Add(c) \/ Commit(c)
        <5>1. \E p : pc' = [pc EXCEPT ![c] = p]
          BY <4>2 DEF Fails, Checkout, Write, Add, Commit, Goto, Answers
        <5> QED BY <1>0, <5>1
      <4>3. CASE Tests(c) \/ Pull(c)
        BY <1>0, <4>3 DEF Tests, Pull, Goto, Answers
      <4>4. CASE Push(c)
        BY <1>0, <4>4 DEF Push, PushEnds, Goto, Answers
      <4>5. CASE Release(c) \/ Die(c)
        BY <1>0, <4>5 DEF Release, Die, Goto
      <4> QED BY <2>1, <4>1, <4>2, <4>3, <4>4, <4>5 DEF Tool
    <3>3. CASE Acquire(c)
      <4>1. lock = None /\ lock' = c /\ pc'[c] = "checkout"
        BY <1>0, <3>3 DEF Acquire, LockIsFree, Goto
      <4>2. \A d \in Call : d # c => ~Inside(d)' BY <3>1, <3>2, <4>1 DEF Inside
      <4>3. \A d \in Call : pc'[d] # "break" BY <3>1, <3>2, <4>1
      <4> QED BY <4>1, <4>2, <4>3 DEF Owned
    <3>4. CASE Release(c)
      <4>1. Inside(c) /\ pc'[c] = "returned" /\ lock = c
        BY <1>0, <3>1, <3>4 DEF Release, Goto, Inside
      <4>2. \A d \in Call : ~Inside(d)' BY <3>1, <3>2, <4>1 DEF Inside
      <4>3. \A d \in Call : pc'[d] # "break" BY <3>1, <3>2, <4>1
      <4> QED BY <4>2, <4>3 DEF Owned
    <3>5. CASE ~Acquire(c) /\ ~Release(c)
      <4>1. lock' = lock /\ pc'[c] # "break" /\ (Inside(c)' => Inside(c))
        BY <1>0, <2>1, <2>3, <3>1, <3>5 DEF Tool, Begin, Break, TimesOut, Fails,
           Checkout, Write, Add, Commit, Tests, Pull, Push, PushEnds, Die, Goto, Answers, Inside
      <4>2. \A d \in Call : Inside(d)' => Inside(d) BY <3>2, <4>1 DEF Inside
      <4>3. \A d \in Call : pc'[d] # "break" BY <3>1, <3>2, <4>1
      <4> QED BY <3>1, <4>1, <4>2, <4>3 DEF Owned
    <3> QED BY <3>3, <3>4, <3>5
  <2> QED BY <2>2, <2>3
<1>2. CASE Restart
  <2>1. UNCHANGED <<lock, breaks>>
        /\ pc' = [c \in Call |-> IF Running(c) THEN "dead" ELSE pc[c]]
    BY <1>2 DEF Restart
  <2> QED BY <1>0, <2>1 DEF Owned, Inside, Running
<1>3. CASE UNCHANGED <<calls, lock, breaks>>
  BY <1>3 DEF Owned, Inside
<1>4. CASE \E a \in Agent : Rescue(a)
  BY <1>3, <1>4 DEF Rescue, RescueLook, RescueCommit, RescuePull, RescuePush, RescueUndo
<1>5. CASE \/ \E f \in Foreign : ForeignPush(f)
           \/ RestartPull \/ RestartAbort \/ RestartReset \/ RestartFails \/ UNCHANGED vars
  BY <1>3, <1>5 DEF ForeignPush, RestartPull, RestartAbort, RestartReset, RestartFails, vars
<1> QED BY <1>1, <1>2, <1>4, <1>5 DEF Next

-----------------------------------------------------------------------------
(* Where the changes of the calls are.                                     *)

\* What the invariant says of a call.
LocatedOrUndone(c) == c \in undone \/ Located(c)

\* What grows leaves the change of a call that does nothing where it is.
LEMMA StaysLocated ==
  ASSUME Grow, index' \subseteq tree', NEW c \in Call, LocatedOrUndone(c),
         pc'[c] = pc[c] \/ pc'[c] \in {"dead", "returned"},
         kind'[c] = kind[c], answer'[c] = answer[c]
  PROVE  LocatedOrUndone(c)'
BY DEF LocatedOrUndone, Located, Grow

\* A step of the call itself.
LEMMA ToolLocated ==
  ASSUME TypeOK, NEW c \in Call, Tool(c), LocatedOrUndone(c)
  PROVE  LocatedOrUndone(c)'
<1>0. /\ Grow /\ CopyType /\ CopyType' /\ undone' = undone /\ origin \in Branch
      /\ pc \in [Call -> Place] /\ kind \in [Call -> Kind] /\ Branch = Branch
      /\ answer \in [Call -> {"none", "error", "local", "ok"}]
  BY ToolTypes, TypeIs DEF TypeOK
<1>1. CASE c \in undone BY <1>0, <1>1 DEF LocatedOrUndone
<1>2. CASE c \notin undone
  <2>1. Located(c) /\ c \notin undone' BY <1>0, <1>2 DEF LocatedOrUndone
  <2>2. /\ In(origin) \subseteq In(origin')
        /\ c \in In(local) => c \in In(local')
        /\ c \in tree => c \in tree' \cup In(local')
        /\ c \in index => c \in index' \cup In(local')
        /\ c \in index' => c \in tree'
    BY <1>0, <2>1 DEF Grow, CopyType
  <2> USE <1>0, <2>1, <2>2 DEF Located, Goto, Answers
  <2>3. ASSUME Begin(c) PROVE Located(c)'
    <3>1. PICK k \in Kind :
          /\ kind' = [kind EXCEPT ![c] = k]
          /\ tree' = IF k = "write" THEN tree ELSE tree \cup {c}
      BY <2>3 DEF Begin
    <3>2. pc'[c] = "lock" /\ answer' = answer /\ kind'[c] = k BY <2>3, <3>1 DEF Begin
    <3> QED BY <3>1, <3>2
  <2>4. ASSUME Acquire(c) \/ Break(c) \/ LooksStale(c) PROVE Located(c)'
    <3>1. /\ pc[c] \in {"lock", "break"} /\ pc'[c] \in {"lock", "break", "checkout"}
          /\ UNCHANGED <<kind, answer>>
      BY <2>4 DEF Acquire, Break, LooksStale
    <3> QED BY <3>1
  <2>5. ASSUME TimesOut(c) \/ Fails(c) PROVE Located(c)'
    <3>1. pc'[c] \in {"returned", "release"} /\ answer'[c] = "error"
      BY <2>5 DEF TimesOut, Fails
    <3> QED BY <3>1
  <2>6. ASSUME Checkout(c) PROVE Located(c)'
    <3>1. /\ pc[c] = "checkout" /\ UNCHANGED <<kind, answer>>
          /\ pc'[c] = IF kind[c] = "write" THEN "write" ELSE "add"
      BY <2>6 DEF Checkout
    <3> QED BY <3>1
  <2>7. ASSUME Write(c) PROVE Located(c)'
    <3>1. pc'[c] = "add" /\ c \in tree' /\ UNCHANGED <<kind, answer>>
      BY <2>7 DEF Write
    <3> QED BY <3>1
  <2>8. ASSUME Add(c) PROVE Located(c)'
    <3>1. /\ pc[c] = "add" /\ pc'[c] = "commit" /\ UNCHANGED <<kind, answer>>
          /\ c \in tree => c \in index'
      BY <2>8 DEF Add, Staged
    <3> QED BY <3>1
  <2>9. ASSUME Commit(c) PROVE Located(c)'
    <3>1. pc[c] = "commit" /\ pc'[c] = "tests" /\ UNCHANGED <<kind, answer>> /\ Commits
      BY <2>9 DEF Commit
    <3>2. In(local') = In(local) \cup index BY <3>1, CommitKeeps
    <3> QED BY <3>1, <3>2
  <2>10. ASSUME Tests(c) PROVE Located(c)'
    <3>1. /\ pc[c] = "tests" /\ UNCHANGED kind
          /\ \/ pc'[c] = "pull" /\ answer' = answer
             \/ pc'[c] = "release" /\ answer'[c] = "local"
      BY <2>10 DEF Tests
    <3> QED BY <3>1
  <2>11. ASSUME Pull(c) PROVE Located(c)'
    <3>1. pc[c] = "pull" /\ pc'[c] = "push" /\ UNCHANGED <<kind, answer>>
      BY <2>11 DEF Pull
    <3> QED BY <3>1
  <2>12. ASSUME Push(c) PROVE Located(c)'
    <3>1. pc[c] = "push" /\ pc'[c] = "release" /\ UNCHANGED <<kind, local>>
          /\ \/ Pushes /\ answer'[c] = "ok"
             \/ answer'[c] = "local"
      BY <2>12 DEF Push, PushEnds, copy
    <3>2. c \in In(local) BY <3>1
    <3>3. CASE Pushes /\ answer'[c] = "ok"
      <4>1. c \in In(origin') BY <3>2, <3>3 DEF Pushes
      <4> QED BY <3>1, <3>3, <4>1
    <3>4. CASE answer'[c] = "local" BY <3>1, <3>2, <3>4
    <3> QED BY <3>1, <3>3, <3>4
  <2>13. ASSUME Release(c) \/ Die(c) PROVE Located(c)'
    <3>1. pc'[c] \in {"returned", "dead"} /\ UNCHANGED <<kind, answer>>
      BY <2>13 DEF Release, Die
    <3> QED BY <3>1
  <2>14. Located(c)'
    BY <2>3, <2>4, <2>5, <2>6, <2>7, <2>8, <2>9, <2>10, <2>11, <2>12, <2>13 DEF Tool
  <2> QED BY <2>14 DEF LocatedOrUndone
<1> QED BY <1>1, <1>2

\* Every step keeps the changes of all calls where they should be.
LEMMA StepLocated ==
  ASSUME TypeOK, \A c \in Call : LocatedOrUndone(c), [Next]_vars
  PROVE  \A c \in Call : LocatedOrUndone(c)'
<1> USE DEF calls
<1>0. /\ Grow /\ index' \subseteq tree'
      /\ pc \in [Call -> Place] /\ kind \in [Call -> Kind]
      /\ answer \in [Call -> {"none", "error", "local", "ok"}]
  BY StepTypes, TypeIs DEF TypeOK, CopyType
<1>1. CASE \E c \in Call : Tool(c)
  <2>1. PICK c \in Call : Tool(c) BY <1>1
  <2>2. LocatedOrUndone(c)' BY <2>1, ToolLocated
  <2>3. \A d \in Call : d # c => pc'[d] = pc[d] /\ kind'[d] = kind[d] /\ answer'[d] = answer[d]
    BY <1>0, <2>1 DEF Tool, Begin, Acquire, LooksStale, Break, TimesOut, Fails,
       Checkout, Write, Add, Commit, Tests, Pull, Push, PushEnds, Release, Die, Goto, Answers
  <2>4. \A d \in Call : d # c => LocatedOrUndone(d)' BY <1>0, <2>3, StaysLocated
  <2> QED BY <2>2, <2>4
<1>2. CASE Restart
  <2>1. /\ UNCHANGED <<kind, answer>>
        /\ \A c \in Call : pc'[c] = pc[c] \/ pc'[c] = "dead"
    BY <1>2 DEF Restart
  <2> QED BY <1>0, <2>1, StaysLocated
<1>3. CASE UNCHANGED calls
  BY <1>0, <1>3, StaysLocated
<1>4. CASE \E a \in Agent : Rescue(a)
  <2>1. UNCHANGED calls
    BY <1>4 DEF Rescue, RescueLook, RescueCommit, RescuePull, RescuePush, RescueUndo
  <2> QED BY <1>3, <2>1
<1>5. CASE \/ \E f \in Foreign : ForeignPush(f)
           \/ RestartPull \/ RestartAbort \/ RestartReset \/ RestartFails \/ UNCHANGED vars
  <2>1. UNCHANGED calls
    BY <1>5 DEF ForeignPush, RestartPull, RestartAbort, RestartReset, RestartFails, vars
  <2> QED BY <1>3, <2>1
<1> QED BY <1>1, <1>2, <1>4, <1>5 DEF Next

-----------------------------------------------------------------------------
(* The theorems.                                                           *)

\* The inductive invariant: types, the owner of the lock, and where the change of
\* each call is.
THEOREM Invariance == Spec => []IInv
<1>1. Init => IInv
  <2> SUFFICES ASSUME Init PROVE IInv OBVIOUS
  <2>1. TypeOK
    <3>1. /\ origin \in Seq(SUBSET Change) /\ local \in Seq(SUBSET Change)
          /\ tree \subseteq Change /\ index \subseteq tree
          /\ undone \subseteq Change
      BY DEF Init
    <3>2. pc \in [Call -> Place] /\ kind \in [Call -> Kind] BY DEF Init, Place, Kind
    <3>3. /\ answer \in [Call -> {"none", "error", "local", "ok"}]
          /\ rescue \in [Agent -> {"idle", "commit", "pull", "push", "undo", "done"}]
          /\ restart \in {"idle", "abort", "reset", "test"} /\ lock \in Call \cup {None}
          /\ rebasing \in BOOLEAN
      BY DEF Init
    <3>4. /\ breaks \in 0..MaxBreaks /\ deaths \in 0..MaxDeaths
          /\ restarts \in 0..MaxRestarts
      BY GitSyncAssumption DEF Init
    <3> QED BY <3>1, <3>2, <3>3, <3>4 DEF TypeOK
  <2>2. Owned BY DEF Init, Owned, Inside
  <2>3. \A c \in Call : Located(c) BY DEF Init, Located
  <2> QED BY <2>1, <2>2, <2>3 DEF IInv
<1>2. IInv /\ [Next]_vars => IInv'
  <2> SUFFICES ASSUME IInv, [Next]_vars PROVE IInv' OBVIOUS
  <2>1. TypeOK /\ Owned /\ \A c \in Call : LocatedOrUndone(c)
    BY DEF IInv, LocatedOrUndone
  <2>2. TypeOK' /\ Owned' /\ \A c \in Call : LocatedOrUndone(c)'
    BY <2>1, StepTypes, StepOwned, StepLocated
  <2> QED BY <2>2 DEF IInv, LocatedOrUndone
<1> QED BY <1>1, <1>2, PTL DEF Spec

\* While no lock was taken for stale, one call at a time works on the repository.
THEOREM Exclusion == Spec => []OneAtATime
<1>1. IInv => OneAtATime BY DEF IInv, Owned, OneAtATime
<1> QED BY <1>1, Invariance, PTL

\* A call that says OK has its change at the remote, unless a reset undid it.
THEOREM OkIsTrue == Spec => []OkIsPushed
<1>1. IInv => OkIsPushed BY DEF IInv, Located, OkIsPushed
<1> QED BY <1>1, Invariance, PTL

\* A call that says its change is committed locally has it in a commit, unless a
\* reset undid it.
THEOREM LocalIsTrue == Spec => []LocalIsCommitted
<1>1. IInv => LocalIsCommitted BY DEF IInv, Located, LocalIsCommitted
<1> QED BY <1>1, Invariance, PTL

\* No change is lost but by a restart, when it aborts a rebase or resets.
THEOREM NoChangeLost == Spec => ChangesKept
<1>1. IInv /\ [Next]_vars => [Discarding \/ Changes \subseteq Changes']_vars
  <2> SUFFICES ASSUME IInv, [Next]_vars PROVE Discarding \/ Changes \subseteq Changes'
    OBVIOUS
  <2> QED BY StepTypes DEF IInv, Grow
<1> QED BY <1>1, Invariance, PTL DEF Spec, ChangesKept

=============================================================================
