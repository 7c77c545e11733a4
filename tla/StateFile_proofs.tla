-------------------------- MODULE StateFile_proofs ---------------------------
(* For any processes and bounds: the sections of StateFile are atomic while  *)
(* nobody dies, times out or breaks a lock, and no call is charged twice.    *)
EXTENDS StateFile, FiniteSetTheorems, TLAPS

\* The process is between taking the lock and giving it back.
Within(p) == pc[p] \in {"read", "write", "backup", "release"}

Shape ==
  /\ pc \in [Proc -> Place] /\ section \in [Proc -> Section]
  /\ fd \in [Proc -> BOOLEAN]
  /\ st = [p \in Proc |-> st[p]] /\ sha = [p \in Proc |-> sha[p]]

\* Who is within a section has created the lock file that is there.
OneWithin == \A p \in Proc : Within(p) => fd[p] /\ lockfile = p

\* What is about to be written is what the files say, with the section's change.
UpToDate ==
  \A p \in Proc : pc[p] = "write" /\ section[p] # "save" => st[p] = Changed(p, Found)

\* Between the two writes state.json has what the backup will have; else they
\* agree, or state.json is lost.
FilesAgree ==
  /\ \A p \in Proc : pc[p] = "backup" => file \in {None, st[p]}
  /\ (\A p \in Proc : pc[p] # "backup") => file \in {None, backup}

IInv == Shape /\ (orderly => OneWithin /\ UpToDate /\ FilesAgree)

-----------------------------------------------------------------------------

LEMMA InitInv == Init => IInv
BY DEF Init, IInv, Shape, Place, Section, OneWithin, Within, UpToDate, FilesAgree

\* A step that only moves processes outside the sections.
LEMMA OutsideStep ==
  ASSUME IInv, Shape', orderly' = orderly, UNCHANGED <<file, backup, lockfile, fd>>,
         \A p \in Proc : Within(p)' => Within(p) /\ pc'[p] = pc[p] /\ st'[p] = st[p]
                                     /\ section'[p] = section[p] /\ sha'[p] = sha[p],
         \A p \in Proc : Within(p) => Within(p)'
  PROVE  IInv'
<1> SUFFICES ASSUME orderly PROVE (OneWithin /\ UpToDate /\ FilesAgree)'
  BY DEF IInv
<1>1. OneWithin' BY DEF IInv, OneWithin
<1>2. UpToDate'
  <2> SUFFICES ASSUME NEW p \in Proc, pc'[p] = "write", section'[p] # "save"
               PROVE  st'[p] = Changed(p, Found)'
    BY DEF UpToDate
  <2>1. Within(p)' BY DEF Within
  <2>2. pc[p] = "write" /\ section[p] # "save" /\ st'[p] = st[p]
        /\ section'[p] = section[p] /\ sha'[p] = sha[p]
    BY <2>1
  <2>3. st[p] = Changed(p, Found) BY <2>2 DEF IInv, UpToDate
  <2> QED BY <2>2, <2>3 DEF Changed, Found
<1>3. FilesAgree'
  <2>1. \A p \in Proc : pc'[p] = "backup" => pc[p] = "backup" /\ st'[p] = st[p]
    BY DEF Within
  <2>2. \A p \in Proc : pc[p] = "backup" => pc'[p] = "backup"
    BY DEF Within
  <2> QED BY <2>1, <2>2 DEF IInv, FilesAgree
<1> QED BY <1>1, <1>2, <1>3

LEMMA LockInv ==
  ASSUME IInv, NEW p \in Proc,
         \/ \E o \in Op : Call(p, o)
         \/ Acquire(p) \/ Busy(p) \/ SeeStale(p) \/ Break(p) \/ GiveUp(p)
         \/ Crash(p)
  PROVE  IInv'
<1>1. ASSUME NEW o \in Op, Call(p, o) PROVE IInv'
  <2>1. FirstSection(o) \in Section BY DEF FirstSection, Op, Section
  <2>2. Shape' BY <1>1, <2>1 DEF Call, Enter, Goto, IInv, Shape, Place
  <2> QED BY <1>1, <2>1, <2>2, OutsideStep
      DEF Call, Enter, Goto, IInv, Shape, Within, files
<1>2. CASE Acquire(p)
  <2>1. Shape' BY <1>2 DEF Acquire, Goto, Inside, IInv, Shape, Place
  <2> SUFFICES ASSUME orderly PROVE (OneWithin /\ UpToDate /\ FilesAgree)'
    BY <1>2, <2>1 DEF Acquire, IInv
  <2>2. \A q \in Proc : ~Within(q)
    BY <1>2, StateFileAssumption DEF Acquire, IInv, OneWithin
  <2>3. /\ pc' = [pc EXCEPT ![p] = Inside(p)] /\ fd' = [fd EXCEPT ![p] = TRUE]
        /\ lockfile' = p /\ UNCHANGED <<file, backup, section, st>>
    BY <1>2 DEF Acquire, Goto, files
  <2>4. \A q \in Proc : q # p => ~Within(q)'
    BY <2>2, <2>3 DEF IInv, Shape, Within
  <2>5. OneWithin' BY <2>3, <2>4 DEF OneWithin, IInv, Shape
  <2>6. UpToDate'
    BY <2>3, <2>4 DEF UpToDate, Within, Inside, IInv, Shape
  <2>7. FilesAgree'
    BY <2>2, <2>3, <2>4 DEF FilesAgree, Within, Inside, IInv, Shape
  <2> QED BY <2>5, <2>6, <2>7
<1>3. CASE Busy(p) \/ SeeStale(p)
  <2>1. Shape' BY <1>3 DEF Busy, SeeStale, Goto, IInv, Shape, Place
  <2> QED BY <1>3, <2>1, OutsideStep
      DEF Busy, SeeStale, Goto, IInv, Shape, Within, files
<1>4. CASE Break(p) \/ GiveUp(p) \/ Crash(p)
  <2>1. Shape'
    BY <1>4 DEF Break, GiveUp, Crash, Goto, Inside, IInv, Shape, Place
  <2> QED BY <1>4, <2>1 DEF Break, GiveUp, Crash, IInv
<1> QED BY <1>1, <1>2, <1>3, <1>4

LEMMA SectionInv ==
  ASSUME IInv, NEW p \in Proc,
         Read(p) \/ Write(p) \/ WriteBackup(p) \/ Release(p) \/ Look(p)
  PROVE  IInv'
<1>1. CASE Look(p)
  <2>1. Shape'
    BY <1>1 DEF Look, Enter, Goto, IInv, Shape, Place, Section
  <2> QED BY <1>1, <2>1, OutsideStep
      DEF Look, Enter, Goto, IInv, Shape, Within, files
<1>2. CASE Read(p)
  <2>1. Shape' BY <1>2 DEF Read, Goto, IInv, Shape, Place
  <2> SUFFICES ASSUME orderly PROVE (OneWithin /\ UpToDate /\ FilesAgree)'
    BY <1>2, <2>1 DEF Read, IInv
  <2>2. \A q \in Proc : q # p => ~Within(q)
    BY <1>2 DEF Read, Within, IInv, OneWithin
  <2>3. /\ pc'[p] \in {"release", "write"} /\ \A q \in Proc : q # p => pc'[q] = pc[q]
        /\ st'[p] = Changed(p, Found)
        /\ UNCHANGED <<file, backup, lockfile, fd, section, sha>>
    BY <1>2 DEF Read, Goto, Reread, IInv, Shape, files
  <2>4. OneWithin'
    BY <1>2, <2>2, <2>3 DEF OneWithin, Within, Read, IInv
  <2>5. UpToDate'
    <3>1. Changed(p, Found)' = Changed(p, Found)
      BY <2>3 DEF Changed, Found
    <3>2. \A q \in Proc : pc'[q] = "write" => q = p
      BY <2>2, <2>3 DEF Within
    <3> QED BY <2>3, <3>1, <3>2 DEF UpToDate
  <2>6. FilesAgree'
    BY <1>2, <2>2, <2>3 DEF FilesAgree, Within, IInv, Read
  <2> QED BY <2>4, <2>5, <2>6
<1>3. CASE Write(p)
  <2>1. Shape' BY <1>3 DEF Write, Goto, IInv, Shape, Place
  <2> SUFFICES ASSUME orderly PROVE (OneWithin /\ UpToDate /\ FilesAgree)'
    BY <1>3, <2>1 DEF Write, IInv
  <2>2. \A q \in Proc : q # p => ~Within(q)
    BY <1>3 DEF Write, Within, IInv, OneWithin
  <2>3. /\ pc'[p] = "backup" /\ \A q \in Proc : q # p => pc'[q] = pc[q]
        /\ file' = st[p] /\ UNCHANGED <<lockfile, fd, st>>
    BY <1>3 DEF Write, Goto, IInv, Shape
  <2>4. OneWithin' BY <1>3, <2>2, <2>3 DEF OneWithin, Within, Write, IInv
  <2>5. UpToDate' /\ FilesAgree'
    BY <2>2, <2>3 DEF UpToDate, FilesAgree, Within
  <2> QED BY <2>4, <2>5
<1>4. CASE WriteBackup(p)
  <2>1. Shape' BY <1>4 DEF WriteBackup, Goto, IInv, Shape, Place
  <2> SUFFICES ASSUME orderly PROVE (OneWithin /\ UpToDate /\ FilesAgree)'
    BY <1>4, <2>1 DEF WriteBackup, IInv
  <2>2. \A q \in Proc : q # p => ~Within(q)
    BY <1>4 DEF WriteBackup, Within, IInv, OneWithin
  <2>3. /\ pc'[p] = "release" /\ \A q \in Proc : q # p => pc'[q] = pc[q]
        /\ backup' = st[p] /\ UNCHANGED <<file, lockfile, fd, st>>
    BY <1>4 DEF WriteBackup, Goto, IInv, Shape
  <2>4. file \in {None, st[p]} BY <1>4 DEF WriteBackup, IInv, FilesAgree
  <2>5. OneWithin' BY <1>4, <2>2, <2>3 DEF OneWithin, Within, WriteBackup, IInv
  <2>6. UpToDate' /\ FilesAgree'
    BY <2>2, <2>3, <2>4 DEF UpToDate, FilesAgree, Within
  <2> QED BY <2>5, <2>6
<1>5. CASE Release(p)
  <2>1. Shape'
    BY <1>5 DEF Release, Enter, Goto, IInv, Shape, Place, Section
  <2> SUFFICES ASSUME orderly PROVE (OneWithin /\ UpToDate /\ FilesAgree)'
    BY <1>5, <2>1 DEF Release, IInv
  <2>2. \A q \in Proc : q # p => ~Within(q)
    BY <1>5 DEF Release, Within, IInv, OneWithin
  <2>3. /\ pc'[p] \in {"look", "lock", "idle"}
        /\ \A q \in Proc : q # p => pc'[q] = pc[q]
        /\ UNCHANGED <<file, backup>>
    BY <1>5 DEF Release, Enter, Goto, IInv, Shape, files
  <2>4. \A q \in Proc : ~Within(q)' BY <2>2, <2>3 DEF Within
  <2>5. \A q \in Proc : pc[q] # "backup"
    BY <1>5, <2>2 DEF Release, Within
  <2> QED BY <2>3, <2>4, <2>5
      DEF OneWithin, UpToDate, FilesAgree, Within, IInv
<1> QED BY <1>1, <1>2, <1>3, <1>4, <1>5

\* When state.json is lost the backup says the same, unless a writer is between
\* the two files, and then nobody has anything else to write.
LEMMA AroundInv ==
  ASSUME IInv, Age \/ Commit \/ Spoil
  PROVE  IInv'
<1>1. CASE Age \/ Commit
  <2>1. Shape' BY <1>1 DEF Age, Commit, IInv, Shape
  <2> QED BY <1>1, <2>1, OutsideStep DEF Age, Commit, Within, files, bounds
<1>2. CASE Spoil
  <2>1. Shape' BY <1>2 DEF Spoil, IInv, Shape
  <2> SUFFICES ASSUME orderly PROVE (OneWithin /\ UpToDate /\ FilesAgree)'
    BY <1>2, <2>1 DEF Spoil, IInv
  <2>2. UNCHANGED <<pc, fd, lockfile, section, st, sha, backup>> /\ file' = None
    BY <1>2 DEF Spoil
  <2>3. OneWithin' BY <2>2 DEF OneWithin, Within, IInv
  <2>4. FilesAgree' BY <2>2 DEF FilesAgree
  <2>5. UpToDate'
    <3> SUFFICES ASSUME NEW p \in Proc, pc[p] = "write", section[p] # "save"
                 PROVE  st[p] = Changed(p, Found)'
      BY <2>2 DEF UpToDate
    <3>1. \A q \in Proc : pc[q] # "backup"
      BY DEF IInv, OneWithin, Within
    <3>2. Found' = Found
      BY <1>2, <2>2, <3>1 DEF Spoil, Found, IInv, FilesAgree
    <3>3. st[p] = Changed(p, Found) BY DEF IInv, UpToDate
    <3> QED BY <2>2, <3>2, <3>3 DEF Changed
  <2> QED BY <2>3, <2>4, <2>5
<1> QED BY <1>1, <1>2

LEMMA NextInv ==
  ASSUME IInv, [Next]_vars
  PROVE  IInv'
<1>1. CASE UNCHANGED vars
  <2>1. Shape' BY <1>1 DEF vars, files, IInv, Shape
  <2> QED BY <1>1, <2>1, OutsideStep DEF vars, files, Within
<1> QED BY <1>1, LockInv, SectionInv, AroundInv DEF Next

-----------------------------------------------------------------------------

\* Only Write takes a process from one file to the other, and what it writes is
\* up to date.
LEMMA WriteAtomic ==
  ASSUME IInv, Next, NEW p \in Proc, orderly, pc[p] = "write", pc'[p] = "backup",
         section[p] # "save"
  PROVE  file' = Changed(p, Current)
<1>1. Current = Found
  <2>1. \A q \in Proc : ~Writing(q)
    BY DEF IInv, OneWithin, Within, Writing
  <2> QED BY <2>1 DEF Current
<1>2. file' = st[p]
  <2>1. PICK q \in Proc : \/ \E o \in Op : Call(q, o)
                          \/ Acquire(q) \/ Busy(q) \/ SeeStale(q) \/ Break(q)
                          \/ GiveUp(q) \/ Read(q) \/ Write(q) \/ WriteBackup(q)
                          \/ Release(q) \/ Look(q) \/ Crash(q)
    BY DEF Next, Age, Commit, Spoil
  <2>2. q = p
    BY <2>1 DEF IInv, Shape, Call, Acquire, Busy, SeeStale, Break, GiveUp, Read,
                Write, WriteBackup, Release, Look, Crash, Enter, Goto
  <2>3. Write(p)
    BY <2>1, <2>2 DEF Call, Acquire, Busy, SeeStale, Break, GiveUp, Read,
                      WriteBackup, Release, Look, Crash, Goto, Inside, IInv, Shape
  <2> QED BY <2>3 DEF Write
<1> QED BY <1>1, <1>2 DEF IInv, UpToDate

\* The critical sections of state.json are atomic: no update is lost to another
\* section, to a reader or to a lost state.json, unless somebody dies, times out
\* or breaks a lock.
THEOREM Atomicity == Spec => SectionsAtomic
<1>1. Init => IInv BY InitInv
<1>2. IInv /\ [Next]_vars => IInv' BY NextInv
<1>3. IInv /\ [Next]_vars => [\A p \in Proc :
        orderly /\ pc[p] = "write" /\ pc'[p] = "backup" /\ section[p] # "save"
        => file' = Changed(p, Current)]_vars
  BY WriteAtomic
<1> QED BY <1>1, <1>2, <1>3, PTL DEF Spec, SectionsAtomic

-----------------------------------------------------------------------------
(* Nothing is charged twice.  The types alone do not bound what is charged,  *)
(* so they are proved together with the count.                               *)

Copy == [spent: Nat, sha: 0..MaxHead \cup {None}]

\* TypeOK without a bound on what a copy of the state counts.
Typed ==
  /\ file \in Copy \cup {None} /\ backup \in Copy \cup {None}
  /\ lockfile \in Proc \cup {None} /\ stale \in BOOLEAN
  /\ HEAD \in 0..MaxHead
  /\ pc \in [Proc -> Place]
  /\ op \in [Proc -> Op] /\ section \in [Proc -> Section]
  /\ fd \in [Proc -> BOOLEAN]
  /\ st \in [Proc -> Copy]
  /\ sha \in [Proc -> 0..MaxHead \cup {None}]
  /\ charged \in 0..MaxCalls /\ orderly \in BOOLEAN
  /\ calls \in 0..MaxCalls /\ crashes \in 0..MaxCrashes /\ spoils \in 0..MaxSpoils

\* Who has been asked to charge a call and has not read the state for it yet.
Due == {p \in Proc : section[p] = "update" /\ pc[p] \in {"lock", "wait", "break", "read"}}

\* What the copies of the state count, on disk and in the processes.
Spent ==
  {0} \cup {st[p].spent : p \in Proc} \cup {s.spent : s \in {file, backup} \ {None}}

\* A copy counts no call that is still due.
Counted == \A n \in Spent : n + Cardinality(Due) <= charged

CInv == Typed /\ charged <= calls /\ Counted

LEMMA DueFinite == IsFiniteSet(Due) /\ Cardinality(Due) \in Nat
<1>1. IsFiniteSet(Due)
  BY FS_Subset, StateFileAssumption DEF StateFileAssumption, Due
<1> QED BY <1>1, FS_CardinalityType

LEMMA SpentNat == ASSUME Typed PROVE Spent \subseteq Nat
BY DEF Spent, Typed, Copy

LEMMA InitCount == Init => CInv
<1> SUFFICES ASSUME Init PROVE CInv OBVIOUS
<1>1. Default \in Copy BY DEF Default, Copy
<1>2. Typed
  <2>1. file \in Copy \cup {None} /\ backup \in Copy \cup {None}
    BY <1>1 DEF Init
  <2>2. st \in [Proc -> Copy] /\ sha \in [Proc -> 0..MaxHead \cup {None}]
    BY <1>1 DEF Init
  <2>3. /\ HEAD \in 0..MaxHead /\ charged \in 0..MaxCalls
        /\ calls \in 0..MaxCalls /\ crashes \in 0..MaxCrashes
        /\ spoils \in 0..MaxSpoils
    BY StateFileAssumption DEF Init, StateFileAssumption
  <2>4. /\ pc \in [Proc -> Place] /\ op \in [Proc -> Op]
        /\ section \in [Proc -> Section] /\ fd \in [Proc -> BOOLEAN]
    BY DEF Init, Op, Section, Place
  <2>5. lockfile \in Proc \cup {None} /\ stale \in BOOLEAN /\ orderly \in BOOLEAN
    BY DEF Init
  <2> QED BY <2>1, <2>2, <2>3, <2>4, <2>5 DEF Typed
<1>3. Due = {} BY DEF Due, Init
<1>4. Spent \subseteq {0} BY DEF Spent, Init, Default
<1> QED BY <1>2, <1>3, <1>4, FS_EmptySet DEF CInv, Counted, Init

\* Steps that copy what is counted and charge nothing.
LEMMA Fewer ==
  ASSUME CInv, Typed', charged' = charged, calls' = calls,
         Due' \subseteq Due, Spent' \subseteq Spent
  PROVE  CInv'
<1>1. Cardinality(Due') <= Cardinality(Due) /\ Cardinality(Due') \in Nat
  <2>1. IsFiniteSet(Due') BY DueFinite, FS_Subset
  <2> QED BY <2>1, DueFinite, FS_Subset, FS_CardinalityType
<1>2. ASSUME NEW n \in Spent' PROVE n + Cardinality(Due') <= charged'
  <2>1. n \in Nat /\ n + Cardinality(Due) <= charged
    BY SpentNat DEF CInv, Counted
  <2> QED BY <1>1, <2>1, DueFinite DEF CInv, Typed
<1> QED BY <1>2 DEF CInv, Counted

LEMMA CallCount ==
  ASSUME CInv, NEW p \in Proc, NEW o \in Op, Call(p, o)
  PROVE  CInv'
<1>1. FirstSection(o) \in Section BY DEF FirstSection, Op, Section
<1>2. Typed'
  <2>1. calls' \in 0..MaxCalls /\ charged' \in 0..MaxCalls /\ charged' <= calls'
    BY StateFileAssumption DEF CInv, Typed, Call, StateFileAssumption
  <2> QED BY <1>1, <2>1 DEF CInv, Typed, Call, Enter, Goto, Place, files
<1>3. charged' <= calls' BY DEF CInv, Typed, Call
<1>4. Spent' = Spent BY DEF Spent, Call, files
<1>5. p \notin Due BY DEF Due, Call
<1>6. ASSUME NEW q \in Proc, q # p
      PROVE  pc'[q] = pc[q] /\ section'[q] = section[q]
  BY <1>6 DEF Call, Enter, Goto, CInv, Typed
<1>7. pc'[p] = "lock" /\ section'[p] = FirstSection(o)
  BY DEF Call, Enter, Goto, CInv, Typed
<1>8. CASE o = "update"
  <2>1. Due' = Due \cup {p} BY <1>6, <1>7, <1>8 DEF Due, FirstSection
  <2>2. Cardinality(Due') = Cardinality(Due) + 1
    BY <1>5, <2>1, DueFinite, FS_AddElement
  <2>3. charged' = charged + 1 BY <1>8 DEF Call
  <2>4. ASSUME NEW n \in Spent PROVE n + Cardinality(Due') <= charged'
    <3>1. n \in Nat /\ n + Cardinality(Due) <= charged
      BY SpentNat DEF CInv, Counted
    <3> QED BY <2>2, <2>3, <3>1, DueFinite DEF CInv, Typed
  <2> QED BY <1>2, <1>3, <1>4, <2>4 DEF CInv, Counted
<1>9. CASE o # "update"
  <2>1. FirstSection(o) # "update" BY <1>9 DEF FirstSection
  <2>2. Due' = Due BY <1>5, <1>6, <1>7, <2>1 DEF Due
  <2>3. charged' = charged BY <1>9 DEF Call
  <2> QED BY <1>2, <1>3, <1>4, <2>2, <2>3 DEF CInv, Counted
<1> QED BY <1>8, <1>9

\* Only the update counts, and the call it counts is due no longer.
LEMMA ReadCount ==
  ASSUME CInv, NEW p \in Proc, Read(p)
  PROVE  CInv'
<1>1. Found \in Copy /\ Found.spent \in Spent
  <2>1. Default \in Copy /\ Default.spent = 0 BY DEF Default, Copy
  <2> QED BY <2>1 DEF Found, CInv, Typed, Spent
<1>2. /\ Changed(p, Found) \in Copy
      /\ section[p] = "update" => Changed(p, Found).spent = Found.spent + 1
      /\ section[p] # "update" => Changed(p, Found).spent = Found.spent
  <2>1. sha[p] \in 0..MaxHead \cup {None} BY DEF CInv, Typed
  <2> QED BY <1>1, <2>1 DEF Changed, Copy
<1>3. /\ st' = [st EXCEPT ![p] = Changed(p, Found)]
      /\ UNCHANGED <<file, backup, section, charged, calls>>
  BY DEF Read, Reread, files, bounds
<1>4. Typed' BY <1>2, <1>3 DEF CInv, Typed, Read, Goto, Place, files, bounds
<1>5. /\ pc'[p] \in {"release", "write"}
      /\ \A q \in Proc : q # p => pc'[q] = pc[q] /\ st'[q] = st[q]
      /\ st'[p] = Changed(p, Found)
  BY <1>3 DEF Read, Goto, CInv, Typed
<1>6. Due' = Due \ {p} BY <1>3, <1>5 DEF Due
<1>7. Spent' \subseteq Spent \cup {Changed(p, Found).spent}
  BY <1>3, <1>5 DEF Spent
<1>8. CASE section[p] = "update"
  <2>1. p \in Due BY <1>8 DEF Due, Read
  <2>2. Cardinality(Due') = Cardinality(Due) - 1
    BY <1>6, <2>1, DueFinite, FS_RemoveElement
  <2>3. ASSUME NEW n \in Spent' PROVE n + Cardinality(Due') <= charged'
    <3>1. PICK k \in Spent : n = k \/ n = k + 1
      BY <1>1, <1>2, <1>7, <1>8
    <3>2. k \in Nat /\ k + Cardinality(Due) <= charged
      BY SpentNat DEF CInv, Counted
    <3> QED BY <1>3, <2>2, <3>1, <3>2, DueFinite DEF CInv, Typed
  <2> QED BY <1>3, <1>4, <2>3 DEF CInv, Counted
<1>9. CASE section[p] # "update"
  <2>1. Spent' \subseteq Spent BY <1>1, <1>2, <1>7, <1>9
  <2> QED BY <1>3, <1>4, <1>6, <2>1, Fewer
<1> QED BY <1>8, <1>9

LEMMA OtherCount ==
  ASSUME CInv, NEW p \in Proc,
         \/ Acquire(p) \/ Busy(p) \/ SeeStale(p) \/ Break(p) \/ GiveUp(p)
         \/ Write(p) \/ WriteBackup(p) \/ Release(p) \/ Look(p) \/ Crash(p)
  PROVE  CInv'
<1>1. Spent' \subseteq Spent
  <2>1. CASE UNCHANGED <<st, file, backup>> BY <2>1 DEF Spent
  <2>2. CASE Write(p) BY <2>2 DEF Write, Spent
  <2>3. CASE WriteBackup(p) BY <2>3 DEF WriteBackup, Spent
  <2> QED
    BY <2>1, <2>2, <2>3
    DEF Acquire, Busy, SeeStale, Break, GiveUp, Release, Look, Crash, files
<1>2. Due' \subseteq Due
  <2>1. CASE \/ Acquire(p) \/ Busy(p) \/ SeeStale(p) \/ Break(p) \/ GiveUp(p)
             \/ Write(p) \/ WriteBackup(p) \/ Crash(p)
    BY <2>1
    DEF Due, Acquire, Busy, SeeStale, Break, GiveUp, Write, WriteBackup, Crash,
        Goto, Inside, CInv, Typed
  <2>2. CASE Release(p) \/ Look(p)
    <3>1. section'[p] # "update" \/ pc'[p] = "idle" \/ pc'[p] = "look"
      BY <2>2 DEF Release, Look, Enter, Goto, CInv, Typed
    <3>2. \A q \in Proc : q # p => pc'[q] = pc[q] /\ section'[q] = section[q]
      BY <2>2 DEF Release, Look, Enter, Goto, CInv, Typed
    <3> QED BY <3>1, <3>2 DEF Due
  <2> QED BY <2>1, <2>2
<1>3. Typed'
  <2>1. CASE Acquire(p) \/ Busy(p) \/ SeeStale(p) \/ Break(p) \/ GiveUp(p)
    BY <2>1
    DEF Acquire, Busy, SeeStale, Break, GiveUp, Goto, Inside, CInv, Typed, Place,
        files, bounds
  <2>2. CASE Write(p) \/ WriteBackup(p)
    BY <2>2 DEF Write, WriteBackup, Goto, CInv, Typed, Place, bounds
  <2>3. CASE Release(p)
    BY <2>3 DEF Release, Enter, Goto, CInv, Typed, Place, Section, files, bounds
  <2>4. CASE Look(p)
    BY <2>4 DEF Look, Enter, Goto, CInv, Typed, Place, Section, files, bounds
  <2>5. CASE Crash(p)
    <3>1. crashes' \in 0..MaxCrashes
      BY <2>5, StateFileAssumption DEF Crash, CInv, Typed, StateFileAssumption
    <3> QED BY <2>5, <3>1 DEF Crash, Goto, CInv, Typed, Place, files
  <2> QED BY <2>1, <2>2, <2>3, <2>4, <2>5
<1>4. charged' = charged /\ calls' = calls
  BY DEF Acquire, Busy, SeeStale, Break, GiveUp, Write, WriteBackup, Release, Look,
         Crash, bounds
<1> QED BY <1>1, <1>2, <1>3, <1>4, Fewer

LEMMA NextCount ==
  ASSUME CInv, [Next]_vars
  PROVE  CInv'
<1>1. CASE Age \/ Commit \/ Spoil
  <2>1. Typed'
    <3>1. CASE Age BY <1>1, <3>1 DEF Age, CInv, Typed, files, bounds
    <3>2. CASE Commit
      <4>1. HEAD' \in 0..MaxHead
        BY <3>2, StateFileAssumption DEF Commit, CInv, Typed, StateFileAssumption
      <4> QED BY <3>2, <4>1 DEF Commit, CInv, Typed, files
    <3>3. CASE Spoil
      <4>1. spoils' \in 0..MaxSpoils
        BY <3>3, StateFileAssumption DEF Spoil, CInv, Typed, StateFileAssumption
      <4> QED BY <3>3, <4>1 DEF Spoil, CInv, Typed
    <3> QED BY <1>1, <3>1, <3>2, <3>3
  <2>2. Due' = Due /\ charged' = charged /\ calls' = calls
    BY <1>1 DEF Age, Commit, Spoil, Due, bounds
  <2>3. Spent' \subseteq Spent BY <1>1 DEF Age, Commit, Spoil, Spent, files
  <2> QED BY <2>1, <2>2, <2>3, Fewer
<1>2. CASE UNCHANGED vars
  <2>1. Typed' BY <1>2 DEF vars, files, CInv, Typed
  <2>2. Due' = Due /\ Spent' = Spent /\ charged' = charged /\ calls' = calls
    BY <1>2 DEF vars, files, Due, Spent
  <2> QED BY <2>1, <2>2, Fewer
<1> QED BY <1>1, <1>2, CallCount, ReadCount, OtherCount DEF Next

\* Where the count is right every copy counts at most what was charged.
LEMMA CountBounds ==
  ASSUME CInv
  PROVE  TypeOK /\ NeverOvercharged
<1>1. \A n \in Spent : n \in Nat /\ n <= charged
  BY SpentNat, DueFinite DEF CInv, Counted, Typed
<1>2. charged \in Nat /\ charged <= MaxCalls
  BY StateFileAssumption DEF CInv, Typed, StateFileAssumption
<1>3. NeverOvercharged BY <1>1 DEF NeverOvercharged, Spent
<1>4. ASSUME NEW s \in Copy, s.spent \in Spent PROVE s \in State
  BY <1>1, <1>2, <1>4, StateFileAssumption
  DEF Copy, State, StateFileAssumption
<1>5. file \in State \cup {None} /\ backup \in State \cup {None}
  BY <1>4 DEF CInv, Typed, Spent
<1>6. st \in [Proc -> State]
  BY <1>4 DEF CInv, Typed, Spent
<1>7. TypeOK BY <1>5, <1>6 DEF TypeOK, CInv, Typed
<1> QED BY <1>3, <1>7

\* Every variable keeps its type; that what is counted stays within the calls
\* that were made needs the count of those that are due.
THEOREM StateTypes == Spec => []TypeOK
<1>1. Init => CInv BY InitCount
<1>2. CInv /\ [Next]_vars => CInv' BY NextCount
<1>3. CInv => TypeOK BY CountBounds
<1> QED BY <1>1, <1>2, <1>3, PTL DEF Spec

\* No call of the model is charged twice, whoever dies where, whoever breaks
\* whose lock or runs without one, and however often state.json is lost.
THEOREM ChargedOnce == Spec => []NeverOvercharged
<1>1. Init => CInv BY InitCount
<1>2. CInv /\ [Next]_vars => CInv' BY NextCount
<1>3. CInv => NeverOvercharged BY CountBounds
<1> QED BY <1>1, <1>2, <1>3, PTL DEF Spec

=============================================================================
