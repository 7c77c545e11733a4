----------------------------- MODULE StateFile ------------------------------
(***************************************************************************)
(* state.json, its backup and its lock file (supervisor/state.py), with    *)
(* the calls its users make: the main loop, the consciousness' thread, the *)
(* watchdog and the agents in the worker processes.                        *)
(*                                                                         *)
(* Each file access of a call is a step.  os.replace makes the writes      *)
(* atomic, so a file holds a whole state or nothing readable.  Of the      *)
(* state's fields two are kept: what the budget counts and the SHA that    *)
(* load_state reconciles; a save writes back every field of a copy.        *)
(***************************************************************************)
EXTENDS Naturals, FiniteSets

CONSTANTS
  Proc,       \* threads and processes that use the file
  None,       \* no file, no lock holder, no SHA
  MaxCalls,   \* bound: calls in a behaviour
  MaxHead,    \* bound: commits that move the HEAD of the repository
  MaxCrashes, \* bound: processes that die in the middle of a call
  MaxSpoils,  \* bound: times state.json is lost or made unreadable from outside
  Slow        \* whether a live holder may keep the lock longer than others wait

ASSUME StateFileAssumption ==
  /\ IsFiniteSet(Proc) /\ None \notin Proc \cup Nat
  /\ MaxCalls \in Nat /\ MaxHead \in Nat
  /\ MaxCrashes \in Nat /\ MaxSpoils \in Nat
  /\ Slow \in BOOLEAN

VARIABLES
  file,     \* STATE_PATH
  backup,   \* STATE_LAST_GOOD_PATH
  lockfile, \* who created the file at STATE_LOCK_PATH
  stale,    \* the lock file is older than stale_sec
  HEAD,     \* git's HEAD
  pc,       \* where each call is
  op,       \* what each call was made for
  section,  \* the section of the call the lock is taken for
  fd,       \* acquire_file_lock has returned a descriptor
  st,       \* the copy of the state
  sha,      \* actual_sha
  charged,  \* calls of the model charged so far (history)
  orderly,  \* nobody has died, timed out or broken a lock so far (history)
  calls, crashes, spoils \* counted against the bounds

vars == <<file, backup, lockfile, stale, HEAD, pc, op, section, fd, st, sha,
          charged, orderly, calls, crashes, spoils>>

files == <<file, backup>>
bounds == <<HEAD, calls, crashes, spoils>>

Op == {"update", "load", "modify", "init"}

Section == {"update", "check", "load", "heal", "save", "init"}

Place == {"idle", "lock", "wait", "break", "read", "write", "backup",
          "release", "look"}

State == [spent: 0..MaxCalls, sha: 0..MaxHead \cup {None}]

\* ensure_state_defaults({}).
Default == [spent |-> 0, sha |-> None]

Init ==
  /\ file \in {None, Default}
  /\ backup = file
  /\ lockfile = None /\ stale = FALSE
  /\ HEAD = 0
  /\ pc = [p \in Proc |-> "idle"]
  /\ op = [p \in Proc |-> "load"]
  /\ section = [p \in Proc |-> "load"]
  /\ fd = [p \in Proc |-> FALSE]
  /\ st = [p \in Proc |-> Default]
  /\ sha = [p \in Proc |-> None]
  /\ charged = 0 /\ orderly = TRUE
  /\ calls = 0 /\ crashes = 0 /\ spoils = 0

-----------------------------------------------------------------------------
(* The calls.  update_budget_from_usage and init_state are one section, the *)
(* first with a second one every fifty calls; load_state is one, and one   *)
(* more to heal the SHA; a handler that changes a field calls load_state   *)
(* and then save_state.                                                    *)

Goto(p, place) == pc' = [pc EXCEPT ![p] = place]

Enter(p, s) == section' = [section EXCEPT ![p] = s] /\ Goto(p, "lock")

FirstSection(o) == IF o = "modify" THEN "load" ELSE o

Call(p, o) ==
  /\ pc[p] = "idle" /\ calls < MaxCalls
  /\ calls' = calls + 1
  /\ op' = [op EXCEPT ![p] = o]
  /\ charged' = IF o = "update" THEN charged + 1 ELSE charged
  /\ Enter(p, FirstSection(o))
  /\ UNCHANGED <<files, lockfile, stale, HEAD, fd, st, sha, orderly, crashes,
                 spoils>>

-----------------------------------------------------------------------------
(* acquire_file_lock.                                                      *)

\* save_state writes the copy it is given, every other section reads first.
Inside(p) == IF section[p] = "save" THEN "write" ELSE "read"

Acquire(p) ==
  /\ pc[p] \in {"lock", "wait"} /\ lockfile = None
  /\ lockfile' = p /\ stale' = FALSE
  /\ fd' = [fd EXCEPT ![p] = TRUE]
  /\ Goto(p, Inside(p))
  /\ UNCHANGED <<files, op, section, st, sha, charged, orderly, bounds>>

\* The lock file exists and is young: sleep and try again ...
Busy(p) ==
  /\ pc[p] = "lock" /\ lockfile # None /\ ~stale
  /\ Goto(p, "wait")
  /\ UNCHANGED <<files, lockfile, stale, op, section, fd, st, sha, charged,
                 orderly, bounds>>

\* ... or it is old: unlink it, whichever file it is by now.
SeeStale(p) ==
  /\ pc[p] \in {"lock", "wait"} /\ lockfile # None /\ stale
  /\ Goto(p, "break")
  /\ UNCHANGED <<files, lockfile, stale, op, section, fd, st, sha, charged,
                 orderly, bounds>>

Break(p) ==
  /\ pc[p] = "break"
  /\ lockfile' = None /\ stale' = FALSE
  /\ orderly' = FALSE
  /\ Goto(p, "wait")
  /\ UNCHANGED <<files, op, section, fd, st, sha, charged, bounds>>

\* Who created it has died.
Orphan == lockfile # None /\ ~fd[lockfile]

\* timeout_sec is over: the section is run without the lock.
GiveUp(p) ==
  /\ pc[p] = "wait" /\ (Slow \/ crashes > 0)
  /\ orderly' = FALSE
  /\ Goto(p, Inside(p))
  /\ UNCHANGED <<files, lockfile, stale, op, section, fd, st, sha, charged,
                 bounds>>

Age ==
  /\ lockfile # None /\ ~stale /\ (Slow \/ Orphan)
  /\ stale' = TRUE
  /\ UNCHANGED <<files, lockfile, pc, op, section, fd, st, sha, charged,
                 orderly, bounds>>

-----------------------------------------------------------------------------
(* The sections.                                                           *)

\* What _load_state_unlocked finds: state.json, else its backup, else nothing.
Found ==
  IF file # None THEN file ELSE IF backup # None THEN backup ELSE Default

\* (mutant) A call is charged when the ground truth is checked, too.
ChargedAgain(p, s) ==
  CASE section[p] \in {"update", "check"} -> [s EXCEPT !.spent = @ + 1]
    [] section[p] = "heal" -> [s EXCEPT !.sha = sha[p]]
    [] OTHER -> s

\* What the section does to the state it has read.
Changed(p, s) ==
  CASE section[p] = "update" -> [s EXCEPT !.spent = @ + 1]
    [] section[p] = "heal" -> [s EXCEPT !.sha = sha[p]]
    [] OTHER -> s

\* (mutant) The SHA is healed in the copy read before, not in the state.
ReadOnce(p) == IF section[p] = "heal" THEN st[p] ELSE Found

Reread(p) == Found

\* A load writes only what it did not find in state.json.  (The other sections
\* then write twice, first what they found: the second write stands for both.)
Read(p) ==
  /\ pc[p] = "read"
  /\ st' = [st EXCEPT ![p] = Changed(p, Reread(p))]
  /\ Goto(p, IF section[p] = "load" /\ file # None THEN "release" ELSE "write")
  /\ UNCHANGED <<files, lockfile, stale, op, section, fd, sha, charged,
                 orderly, bounds>>

Write(p) ==
  /\ pc[p] = "write"
  /\ file' = st[p]
  /\ Goto(p, "backup")
  /\ UNCHANGED <<backup, lockfile, stale, op, section, fd, st, sha, charged,
                 orderly, bounds>>

WriteBackup(p) ==
  /\ pc[p] = "backup"
  /\ backup' = st[p]
  /\ Goto(p, "release")
  /\ UNCHANGED <<file, lockfile, stale, op, section, fd, st, sha, charged,
                 orderly, bounds>>

\* release_file_lock unlinks the lock file that is there, its own or not; then
\* comes the rest of the call.
Release(p) ==
  /\ pc[p] = "release"
  /\ fd' = [fd EXCEPT ![p] = FALSE]
  /\ IF fd[p] THEN lockfile' = None /\ stale' = FALSE
     ELSE UNCHANGED <<lockfile, stale>>
  /\ \/ section[p] = "load" /\ Goto(p, "look") /\ UNCHANGED section
     \/ section[p] = "heal" /\ op[p] = "modify" /\ Enter(p, "save")
     \/ section[p] = "update" /\ Enter(p, "check")
     \/ /\ \/ section[p] \in {"update", "check", "save", "init"}
           \/ section[p] = "heal" /\ op[p] = "load"
        /\ Goto(p, "idle") /\ UNCHANGED section
  /\ UNCHANGED <<files, op, st, sha, charged, orderly, bounds>>

\* load_state asks git, which may not answer, and heals the state if the SHA
\* differs.
Look(p) ==
  /\ pc[p] = "look"
  /\ sha' \in {[sha EXCEPT ![p] = s] : s \in {None, HEAD}}
  /\ \/ sha'[p] # None /\ sha'[p] # st[p].sha /\ Enter(p, "heal")
     \/ /\ sha'[p] \in {None, st[p].sha}
        /\ IF op[p] = "modify" THEN Enter(p, "save")
           ELSE Goto(p, "idle") /\ UNCHANGED section
  /\ UNCHANGED <<files, lockfile, stale, op, fd, st, charged, orderly, bounds>>

-----------------------------------------------------------------------------
(* What happens around them.                                               *)

Commit ==
  /\ HEAD < MaxHead
  /\ HEAD' = HEAD + 1
  /\ UNCHANGED <<files, lockfile, stale, pc, op, section, fd, st, sha, charged,
                 orderly, calls, crashes, spoils>>

\* The process dies in a call; a new one takes its place.
Crash(p) ==
  /\ pc[p] # "idle" /\ crashes < MaxCrashes
  /\ crashes' = crashes + 1
  /\ fd' = [fd EXCEPT ![p] = FALSE]
  /\ Goto(p, "idle")
  /\ orderly' = FALSE
  /\ UNCHANGED <<files, lockfile, stale, HEAD, op, section, st, sha, charged,
                 calls, spoils>>

\* json_load_file returns None for a state.json that is gone or does not parse.
Spoil ==
  /\ file # None /\ spoils < MaxSpoils
  /\ spoils' = spoils + 1
  /\ file' = None
  /\ UNCHANGED <<backup, lockfile, stale, HEAD, pc, op, section, fd, st, sha,
                 charged, orderly, calls, crashes>>

Next ==
  \/ \E p \in Proc :
       \/ \E o \in Op : Call(p, o)
       \/ Acquire(p) \/ Busy(p) \/ SeeStale(p) \/ Break(p) \/ GiveUp(p)
       \/ Read(p) \/ Write(p) \/ WriteBackup(p) \/ Release(p) \/ Look(p)
       \/ Crash(p)
  \/ Age \/ Commit \/ Spoil

Spec == Init /\ [][Next]_vars

-----------------------------------------------------------------------------
(* Properties.                                                             *)

\* Type correctness of every variable.
TypeOK ==
  /\ file \in State \cup {None} /\ backup \in State \cup {None}
  /\ lockfile \in Proc \cup {None} /\ stale \in BOOLEAN
  /\ HEAD \in 0..MaxHead
  /\ pc \in [Proc -> Place]
  /\ op \in [Proc -> Op] /\ section \in [Proc -> Section]
  /\ fd \in [Proc -> BOOLEAN]
  /\ st \in [Proc -> State]
  /\ sha \in [Proc -> 0..MaxHead \cup {None}]
  /\ charged \in 0..MaxCalls /\ orderly \in BOOLEAN
  /\ calls \in 0..MaxCalls /\ crashes \in 0..MaxCrashes /\ spoils \in 0..MaxSpoils

\* The state on disk, a write that has reached one file included.
Writing(p) == pc[p] = "backup"

Current ==
  IF \E p \in Proc : Writing(p) THEN st[CHOOSE p \in Proc : Writing(p)] ELSE Found

\* "A single lock scope for the read-modify-write cycle": as long as nobody has
\* died, timed out or broken a lock, what a section writes is the state of that
\* moment with its own change, although others read, write and heal meanwhile
\* and state.json may be lost at any time.
SectionsAtomic ==
  [][\A p \in Proc :
       orderly /\ pc[p] = "write" /\ pc'[p] = "backup" /\ section[p] # "save"
       => file' = Changed(p, Current)]_vars

\* Nothing is charged twice: not after a death between the two files, by a
\* recovery from the backup, or with two processes in the section at once.
NeverOvercharged ==
  /\ \A p \in Proc : st[p].spent <= charged
  /\ \A s \in {file, backup} \ {None} : s.spent <= charged

=============================================================================
