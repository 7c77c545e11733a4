------------------------------ MODULE GitSync ------------------------------
(***************************************************************************)
(* The agent's own repository, one working copy for all processes: the     *)
(* commit tools (ouroboros/tools/git.py) work under a lock file, while the *)
(* rescue at the start of an agent (ouroboros/agent.py) and the pull of a  *)
(* restart (supervisor/git_ops.py) take no lock.                           *)
(*                                                                         *)
(* A call of a tool is named and so is the change it is about.  A commit   *)
(* is a set of changes, a branch the sequence of its commits.  A tool call *)
(* that is given up goes on as a thread, so a call is also a process.      *)
(***************************************************************************)
EXTENDS Integers, Sequences, FiniteSets

CONSTANTS
  Call,        \* calls of repo_write_commit and repo_commit_push
  Foreign,     \* commits that other machines push
  Agent,       \* agents that start
  NewFile,     \* changes that are files git does not know until they are staged
  None,
  MaxBreaks,   \* bound: locks taken for stale
  MaxDeaths,   \* bound: calls that die with their process
  MaxRestarts  \* bound: restarts the agent asks for

ASSUME GitSyncAssumption ==
  /\ Call \cap Foreign = {} /\ None \notin Call /\ NewFile \subseteq Call
  /\ MaxBreaks \in Nat /\ MaxDeaths \in Nat /\ MaxRestarts \in Nat

VARIABLES
  pc,        \* where each call is
  kind,      \* which tool it is, and with which paths
  answer,    \* what it answers
  lock,      \* the call that made git.lock
  origin,    \* the branch at the remote,
  local,     \* and in the repository
  tree,      \* changes of the working copy that are in no commit
  index,     \* those of them that are staged
  rebasing,  \* a rebase stopped at a conflict
  rescue,    \* where each agent's rescue is
  restart,   \* where the supervisor's restart is
  undone,    \* changes that a reset or an abort took out of a branch or the copy
  breaks, deaths, restarts  \* how often these happened

calls == <<pc, kind, answer>>
copy == <<local, tree, index, rebasing>>
helpers == <<rescue, restart>>
faults == <<breaks, deaths, restarts>>

vars == <<calls, lock, origin, copy, helpers, undone, faults>>

Change == Call \cup Foreign

Kind == {"write", "paths", "all"}
Place == {"idle", "lock", "break", "checkout", "write", "add", "commit", "tests",
          "pull", "push", "release", "returned", "dead"}

-----------------------------------------------------------------------------
(* What git does.                                                          *)

\* The changes of a branch.
In(branch) == UNION {branch[i] : i \in DOMAIN branch}

IsBehind(b, c) == Len(b) <= Len(c) /\ \A i \in 1..Len(b) : b[i] = c[i]

Diverged == ~IsBehind(origin, local) /\ ~IsBehind(local, origin)

\* The number of commits that both branches start with, as the only member.
Common ==
  {n \in 0..Len(local) :
     /\ n <= Len(origin) /\ \A i \in 1..n : local[i] = origin[i]
     /\ (n < Len(local) /\ n < Len(origin)) => local[n+1] # origin[n+1]}

\* The changes of the working copy that git has to do with.
Tracked == {c \in tree : c \notin NewFile \/ c \in index}

\* git pull --rebase, which does nothing in a working copy with such changes.
PullSucceeds ==
  /\ Tracked = {} /\ ~rebasing
  /\ \E n \in Common : local' = origin \o SubSeq(local, n + 1, Len(local))
  /\ UNCHANGED <<tree, index, rebasing>>

PullFails == UNCHANGED copy

\* The rebase stops; the branch stays where it was.
PullConflicts ==
  /\ Tracked = {} /\ ~rebasing /\ Diverged
  /\ rebasing' = TRUE
  /\ UNCHANGED <<local, tree, index>>

\* What git reset --hard does to the working copy, and git rebase --abort too.
Discards == tree' = tree \ Tracked /\ index' = {}

\* git commit.
Commits ==
  /\ index # {} /\ ~rebasing
  /\ local' = Append(local, index)
  /\ tree' = tree \ index
  /\ index' = {}
  /\ UNCHANGED rebasing

\* git push, which the remote refuses unless the branch is ahead of its own.
Pushes ==
  /\ IsBehind(origin, local)
  /\ origin' = local

-----------------------------------------------------------------------------
(* The commit tools.                                                       *)

Init ==
  /\ pc = [c \in Call |-> "idle"] /\ kind = [c \in Call |-> "write"]
  /\ answer = [c \in Call |-> "none"] /\ lock = None
  /\ origin = <<>> /\ local = <<>> /\ tree = {} /\ index = {} /\ rebasing = FALSE
  /\ rescue = [a \in Agent |-> "idle"] /\ restart = "idle"
  /\ undone = {} /\ breaks = 0 /\ deaths = 0 /\ restarts = 0

Goto(c, place) == pc' = [pc EXCEPT ![c] = place]

\* The call answers s as soon as it has released the lock.
Answers(c, s) == Goto(c, "release") /\ answer' = [answer EXCEPT ![c] = s]

\* repo_write_commit makes the change itself; before repo_commit_push another
\* tool of the agent has made it, without the lock.
Begin(c) ==
  /\ pc[c] = "idle" /\ Goto(c, "lock")
  /\ \E k \in Kind :
       /\ kind' = [kind EXCEPT ![c] = k]
       /\ tree' = IF k = "write" THEN tree ELSE tree \cup {c}
  /\ UNCHANGED <<answer, lock, origin, local, index, rebasing, helpers, undone, faults>>

\* (mutant) The file is opened although it is there.
Opened == TRUE

\* The lock file can be created only if it is not there.
LockIsFree == lock = None

\* _acquire_git_lock: the file is created, or it looks stale, or time is up.
Acquire(c) ==
  /\ pc[c] = "lock" /\ LockIsFree
  /\ lock' = c /\ Goto(c, "checkout")
  /\ UNCHANGED <<kind, answer, origin, copy, helpers, undone, faults>>

LooksStale(c) ==
  /\ pc[c] = "lock" /\ lock # None /\ breaks < MaxBreaks
  /\ breaks' = breaks + 1 /\ Goto(c, "break")
  /\ UNCHANGED <<kind, answer, lock, origin, copy, helpers, undone, deaths, restarts>>

\* By now the file may be another one.
Break(c) ==
  /\ pc[c] = "break"
  /\ lock' = None /\ Goto(c, "lock")
  /\ UNCHANGED <<kind, answer, origin, copy, helpers, undone, faults>>

TimesOut(c) ==
  /\ pc[c] = "lock" /\ lock # None
  /\ Goto(c, "returned") /\ answer' = [answer EXCEPT ![c] = "error"]
  /\ UNCHANGED <<kind, lock, origin, copy, helpers, undone, faults>>

\* Any command may fail, also because another git process is at work.
Fails(c) ==
  /\ pc[c] \in {"checkout", "write", "add", "commit"}
  /\ Answers(c, "error")
  /\ UNCHANGED <<kind, lock, origin, copy, helpers, undone, faults>>

\* git checkout, which fails as long as a rebase is stopped.
Checkout(c) ==
  /\ pc[c] = "checkout" /\ ~rebasing
  /\ Goto(c, IF kind[c] = "write" THEN "write" ELSE "add")
  /\ UNCHANGED <<kind, answer, lock, origin, copy, helpers, undone, faults>>

Write(c) ==
  /\ pc[c] = "write" /\ Goto(c, "add")
  /\ tree' = tree \cup {c}
  /\ UNCHANGED <<kind, answer, lock, origin, local, index, rebasing, helpers, undone, faults>>

\* (mutant) Nothing is staged for a call with paths.
StagedForAll(c) == IF kind[c] = "all" THEN tree ELSE {}

\* What the call stages: all that changed, or its own files.
Staged(c) == IF kind[c] = "all" THEN tree ELSE {c} \cap tree

Add(c) ==
  /\ pc[c] = "add" /\ Goto(c, "commit")
  /\ index' = index \cup Staged(c)
  /\ UNCHANGED <<kind, answer, lock, origin, local, tree, rebasing, helpers, undone, faults>>

\* The commit takes whatever is staged.
Commit(c) ==
  /\ pc[c] = "commit" /\ Goto(c, "tests")
  /\ Commits
  /\ UNCHANGED <<kind, answer, lock, origin, helpers, undone, faults>>

\* _git_push_with_tests: the tests may block the push,
Tests(c) ==
  /\ pc[c] = "tests"
  /\ \/ Goto(c, "pull") /\ UNCHANGED answer
     \/ Answers(c, "local")
  /\ UNCHANGED <<kind, lock, origin, copy, helpers, undone, faults>>

\* a pull that fails is ignored,
Pull(c) ==
  /\ pc[c] = "pull" /\ Goto(c, "push")
  /\ PullSucceeds \/ PullFails \/ PullConflicts
  /\ UNCHANGED <<kind, answer, lock, origin, helpers, undone, faults>>

\* (mutant) A push that fails is ignored like the pull before it.
PushIgnored(c) ==
  /\ Answers(c, "ok")
  /\ Pushes \/ UNCHANGED origin

\* and a push that fails is reported.
PushEnds(c) ==
  \/ Pushes /\ Answers(c, "ok")
  \/ UNCHANGED origin /\ Answers(c, "local")

Push(c) ==
  /\ pc[c] = "push" /\ PushEnds(c)
  /\ UNCHANGED <<kind, lock, copy, helpers, undone, faults>>

\* _release_git_lock removes the file, whoever made it.
Release(c) ==
  /\ pc[c] = "release" /\ Goto(c, "returned")
  /\ lock' = None
  /\ UNCHANGED <<kind, answer, origin, copy, helpers, undone, faults>>

Running(c) == pc[c] \notin {"idle", "returned", "dead"}

\* The process of the call dies; the lock file and the working copy stay.
Die(c) ==
  /\ Running(c) /\ deaths < MaxDeaths
  /\ deaths' = deaths + 1 /\ Goto(c, "dead")
  /\ UNCHANGED <<kind, answer, lock, origin, copy, helpers, undone, breaks, restarts>>

Tool(c) ==
  \/ Begin(c) \/ Acquire(c) \/ LooksStale(c) \/ Break(c) \/ TimesOut(c)
  \/ Fails(c) \/ Checkout(c) \/ Write(c) \/ Add(c) \/ Commit(c)
  \/ Tests(c) \/ Pull(c) \/ Push(c) \/ Release(c) \/ Die(c)

-----------------------------------------------------------------------------
(* Other machines.                                                         *)

ForeignPush(f) ==
  /\ f \notin In(origin)
  /\ origin' = Append(origin, {f})
  /\ UNCHANGED <<calls, lock, copy, helpers, undone, faults>>

-----------------------------------------------------------------------------
(* The rescue of an agent that starts: _check_uncommitted_changes.         *)

RescueGoto(a, place) == rescue' = [rescue EXCEPT ![a] = place]

\* The lines of git status are stripped before their third column is taken for
\* the path: staging what is not staged yet fails, and the rescue ends.
RescueLook(a) ==
  /\ rescue[a] = "idle"
  /\ RescueGoto(a, IF tree # {} /\ index = tree /\ ~rebasing THEN "commit" ELSE "done")
  /\ UNCHANGED <<calls, lock, origin, copy, restart, undone, faults>>

RescueCommit(a) ==
  /\ rescue[a] = "commit"
  /\ \/ Commits /\ RescueGoto(a, "pull")
     \/ UNCHANGED copy /\ RescueGoto(a, "done")
  /\ UNCHANGED <<calls, lock, origin, restart, undone, faults>>

\* Unlike the tools the rescue ends when the pull fails; its commit stays.
RescuePull(a) ==
  /\ rescue[a] = "pull"
  /\ \/ PullSucceeds /\ RescueGoto(a, "push")
     \/ (PullFails \/ PullConflicts) /\ RescueGoto(a, "done")
  /\ UNCHANGED <<calls, lock, origin, restart, undone, faults>>

RescuePush(a) ==
  /\ rescue[a] = "push"
  /\ \/ Pushes /\ RescueGoto(a, "done")
     \/ UNCHANGED origin /\ RescueGoto(a, "undo")
  /\ UNCHANGED <<calls, lock, copy, restart, undone, faults>>

\* (mutant) git reset --hard HEAD~1.
Dropped == tree \ local[Len(local)]

\* git reset HEAD~1 keeps the changes in the working copy.
Kept == tree \cup local[Len(local)]

\* The last commit is undone, whoever made it.
RescueUndo(a) ==
  /\ rescue[a] = "undo" /\ RescueGoto(a, "done")
  /\ IF local = <<>> THEN UNCHANGED <<copy, undone>>
     ELSE /\ undone' = undone \cup local[Len(local)] \cup index
          /\ tree' = Kept /\ index' = {}
          /\ local' = SubSeq(local, 1, Len(local) - 1)
          /\ UNCHANGED rebasing
  /\ UNCHANGED <<calls, lock, origin, restart, faults>>

Rescue(a) ==
  RescueLook(a) \/ RescueCommit(a) \/ RescuePull(a) \/ RescuePush(a) \/ RescueUndo(a)

-----------------------------------------------------------------------------
(* A restart: safe_restart of the supervisor.                              *)

\* safe_pull: after a pull that succeeds a name that is not defined is used.  The
\* exception leads to the same reset as a conflict, and so does a timeout, which
\* leaves the rebase as it is.
RestartPull ==
  /\ restart = "idle" /\ restarts < MaxRestarts
  /\ restarts' = restarts + 1
  /\ \/ PullSucceeds /\ restart' = "reset"
     \/ (PullFails \/ PullConflicts) /\ restart' \in {"abort", "reset"}
  /\ UNCHANGED <<calls, lock, origin, rescue, undone, breaks, deaths>>

\* git rebase --abort, also of a rebase that an earlier pull began: edits made
\* meanwhile are gone.  Its result is ignored.
RestartAbort ==
  /\ restart = "abort" /\ restart' = "reset"
  /\ \/ /\ rebasing /\ rebasing' = FALSE
        /\ Discards /\ undone' = undone \cup Tracked
        /\ UNCHANGED local
     \/ UNCHANGED <<copy, undone>>
  /\ UNCHANGED <<calls, lock, origin, rescue, faults>>

\* git fetch and git reset --hard.  During a rebase this is not the branch.
RestartReset ==
  /\ restart = "reset" /\ restart' = "test"
  /\ undone' = undone \cup (In(local) \ In(origin)) \cup Tracked
  /\ local' = IF rebasing THEN local ELSE origin
  /\ Discards
  /\ UNCHANGED <<calls, lock, origin, rebasing, rescue, faults>>

\* Without the remote, or when the code does not compile, there is no restart.
RestartFails ==
  /\ restart \in {"reset", "test"} /\ restart' = "idle"
  /\ UNCHANGED <<calls, lock, origin, copy, rescue, undone, faults>>

\* kill_workers and execv: all calls die, and other agents start.
Restart ==
  /\ restart = "test" /\ restart' = "idle"
  /\ pc' = [c \in Call |-> IF Running(c) THEN "dead" ELSE pc[c]]
  /\ rescue' = [a \in Agent |-> "idle"]
  /\ UNCHANGED <<kind, answer, lock, origin, copy, undone, faults>>

-----------------------------------------------------------------------------

Next ==
  \/ \E c \in Call : Tool(c)
  \/ \E f \in Foreign : ForeignPush(f)
  \/ \E a \in Agent : Rescue(a)
  \/ RestartPull \/ RestartAbort \/ RestartReset \/ RestartFails \/ Restart

Spec == Init /\ [][Next]_vars

-----------------------------------------------------------------------------
(* Properties.                                                             *)

TypeOK ==
  /\ pc \in [Call -> Place] /\ kind \in [Call -> Kind]
  /\ answer \in [Call -> {"none", "error", "local", "ok"}]
  /\ lock \in Call \cup {None}
  /\ origin \in Seq(SUBSET Change) /\ local \in Seq(SUBSET Change)
  /\ tree \subseteq Change /\ index \subseteq tree /\ rebasing \in BOOLEAN
  /\ rescue \in [Agent -> {"idle", "commit", "pull", "push", "undo", "done"}]
  /\ restart \in {"idle", "abort", "reset", "test"}
  /\ undone \subseteq Change
  /\ breaks \in 0..MaxBreaks /\ deaths \in 0..MaxDeaths /\ restarts \in 0..MaxRestarts

Inside(c) ==
  pc[c] \in {"checkout", "write", "add", "commit", "tests", "pull", "push", "release"}

\* Only one call works on the repository as long as no lock was taken for stale.
OneAtATime ==
  breaks = 0 => \A c, d \in Call : Inside(c) /\ Inside(d) => c = d

\* "OK: committed and pushed": the change of the call is at the remote, whatever
\* the other calls do, unless a reset without the lock took it away.
OkIsPushed ==
  \A c \in Call : answer[c] = "ok" => c \in In(origin) \cup undone

\* "Committed locally but NOT pushed": the change is in a commit, unless a reset
\* took it away.
LocalIsCommitted ==
  \A c \in Call : answer[c] = "local" => c \in In(local) \cup In(origin) \cup undone

-----------------------------------------------------------------------------
(* The inductive invariant of the proofs.                                  *)

\* While no lock was broken, only its owner is inside.
Owned ==
  breaks = 0 => \A c \in Call : pc[c] # "break" /\ (Inside(c) => lock = c)

\* Where the change of a call is that no reset touched.
Located(c) ==
  /\ pc[c] \in {"lock", "break", "checkout"} /\ kind[c] # "write" => c \in tree \cup In(local)
  /\ pc[c] \in {"write", "idle"} => kind[c] = "write"
  /\ pc[c] = "add" => c \in tree \cup In(local)
  /\ pc[c] = "commit" => c \in index \cup In(local)
  /\ pc[c] \in {"tests", "pull", "push"} => c \in In(local)
  /\ answer[c] = "ok" => c \in In(origin)
  /\ answer[c] = "local" => c \in In(local) \cup In(origin)

IInv == TypeOK /\ Owned /\ \A c \in Call : c \in undone \/ Located(c)

-----------------------------------------------------------------------------

\* A restart discards changes by the abort of a rebase and by its reset.
Discarding == \/ restart = "abort" /\ rebasing
              \/ restart = "reset" /\ restart' = "test"

\* All changes that exist anywhere.
Changes == tree \cup In(local) \cup In(origin)

\* No change is lost but by a restart, when it aborts a rebase or resets.
ChangesKept == [][Discarding \/ Changes \subseteq Changes']_vars

=============================================================================
