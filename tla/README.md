# Verification of the supervisor, its workers and the chat

This directory holds TLA+ models of the parts of the program that schedule and
run tasks, talk with the owner, call the model and commit to the agent's own
repository, the configurations that check them with TLC, and proofs checked by
TLAPS. Every definition is translated from the Python source; `PROJECT.json`
maps each one to its lines.

## The system

| Component | State | Operations | Talks to |
|---|---|---|---|
| Launcher main loop, `scripts/colab_launcher.py` | where it is in the loop, the Telegram offset | poll, make a task of a message, assign, drain events, health pass | everything below |
| Task queue, `supervisor/queue.py` | `PENDING`, `RUNNING`, the sequence counter, `queue_snapshot.json`, `_queue_lock` | enqueue, sort, cancel, timeouts, reviews, evolution, health checks, snapshot, restore | the loop, the event handlers, the auto-resume thread |
| Workers, `supervisor/workers.py` | `WORKERS`: process, `in_q`, `busy_task_id`; `EVENT_Q`; crash times | spawn, assign, respawn, kill, health pass, auto-resume, `worker_main` | queue, agent |
| Event handlers, `supervisor/events.py` | none of their own | one handler per event of a worker | queue, workers, `state.json`, Telegram, consciousness |
| State file, `supervisor/state.py` | `state.json`, its backup, a lock file, the budget | load, save, budget update, locks that break when stale | every process |
| Git operations, `supervisor/git_ops.py`, `ouroboros/tools/git.py`, the rescue in `ouroboros/agent.py` | the working copy, its branch, `git.lock` | commit, test, pull, push, rescue, restart | tools, agent, event handlers |
| Telegram client, `supervisor/telegram.py` | budget counter | poll, split, send with retries | launcher, handlers |
| Owner mailbox, `ouroboros/owner_inject.py` | one file per task | write, drain with seen ids, clean up | tools, agent loop |
| Agent, `ouroboros/agent.py` | pending events, evolution history | run a task, emit its results | worker, LLM loop, tools |
| LLM loop, `ouroboros/loop*.py` | messages, usage, round | rounds, retries, fallback model, review, the end of a task | LLM client, tool executor, mailbox |
| Context window, `ouroboros/context.py`, `context_compact.py` | none | compact old rounds, cut to the window | LLM loop |
| Tool executor, `ouroboros/tool_executor.py` | thread pools | parallel and stateful calls, timeouts | tools |
| Control tools, `ouroboros/tools/control.py` | pending events | schedule, cancel, review, restart, wait for a task | agent, supervisor |
| Background consciousness, `ouroboros/consciousness.py` | thread, two events, flags, deferred events, what it spent | start, stop, pause, resume, think | LLM client, tools, a queue of its own |
| Hot reload, `ouroboros/hot_reload.py` | file times | watch, restart the worker | worker |
| Watchdog, `supervisor/watchdog.py` | none | restore files from backups | files |
| Tools, context, memory, vault, skills, resilience | files | one call each | agent |

The main loop is one thread. Beside it run the auto-resume thread for the first
seconds, the consciousness thread, and the worker processes. Main loop and
auto-resume share `PENDING`, `RUNNING` and `WORKERS` under `_queue_lock`, which
some handlers do not take. Workers are reached by two queues, `in_q` to each and
`EVENT_Q` from all. `state.json`, the mailbox files and the git working copy are
shared by processes.

What is hard: a worker may die at any moment, also with an event of its task on
the way; events arrive after the task they report was requeued, cancelled or
retried; a cancel races with the assignment; handlers run while the auto-resume
thread assigns; the process restarts while tasks are queued; flags of the
consciousness are tested and cleared by two threads; requests to Telegram and to
the model get lost and are repeated; a file is read while another process appends
to it; a conversation outgrows its window; commits of several workers share one
working copy with helpers that take no lock. What must hold: a task has
one executor, no task vanishes without a reason, a cancel is final, the three
books (`PENDING`, `RUNNING`, `busy_task_id`) agree, system tasks are not
duplicated, the queue is served in its order, accepted tasks are answered, a
budget is kept, a stopped thread ends, no thought takes an event twice, no message of the
owner is forgotten, messages arrive in order, the model is shown an unbroken
conversation, what a commit tool answers is true. The full list
of hazards, each at its line, is in `PROJECT.json`.

## Modules

| Module | Models | Proofs |
|---|---|---|
| `Supervisor` | launcher loop, queue operations, workers, event handlers, auto-resume, periodic functions | `Supervisor_proofs` |
| `Deques` | abstract: what the queue promises, a deque per priority class | |
| `TaskQueue` | the list, its sequence numbers, the sort, the snapshot file and its restore; implements `Deques` | `TaskQueue_proofs` |
| `Consciousness` | the background thread, its flags, its budget and its events | `Consciousness_proofs` |
| `StateFile` | `state.json`, its backup and its lock file, and the calls that use them | `StateFile_proofs` |
| `LlmLoop` | one task: the rounds of the loop, the calls of the model, the tools, the mailbox, the cutting of the conversation, a death in between | `LlmLoop_proofs` |
| `GitSync` | the working copy, its branch and the remote; the commit tools, the rescue, the restart | `GitSync_proofs` |
| `MessageParts` | how a text is cut into parts, as functions | `Telegram_proofs` |
| `Telegram` | polling, the offset, sending in parts with retries; extends `MessageParts` | `Telegram_proofs` |
| `NaturalLemmas` | induction over the naturals, for sets, used by the proofs | |
| `MC...` | small instances for TLC | |

### Supervisor

`PENDING` is a function from the priority class to a sequence: that the sorted
list behaves so is what `TaskQueue` shows. `RUNNING`, `WORKERS` and
the worker's fields `busy`, `alive`, `inq` are the variables of the code; `cur` is
the local task of `worker_main`; `phase`, `todo`, `lock`, `resume` and `pass` are the
control state of the main loop, of `assign_tasks`, of the auto-resume thread and of
`ensure_workers_healthy`. An action is one iteration of a loop or one handler, with
every change of state it makes, and it is cut in two where the code reads or writes
the queue without `_queue_lock`. Handlers that take the lock wait while `assign_tasks` holds
it; `toggle_evolution`, the `task_done` handler and the guards do not.

* Assignment: `AssignWorker` pops a task, `HandOver` marks the worker, sends the task and
  enters it in `RUNNING`; between the two it is in `hand` and in neither book.
* Toggle: `ToggleEvolution` computes the list without evolution tasks (`kept`), `ToggleWrite`
  writes it over `PENDING` later, whatever the auto-resume thread has popped or queued since.
* Guards: those of the review, evolution and health-check tasks look at `PENDING` and `RUNNING`
  without the lock; the type they let pass waits in `plan` for `EnqueuePlanned`, which takes it.
* `raced` is a history of the harm: `"toggle"` once a write has undone a step of the
  other thread, `"guard"` once a guard has overlooked a task of its kind in hand. The
  properties that a race breaks name it: `QueuedOnce` and its like hold until a toggle has
  overwritten something, `OneOfAKind` until either has happened. That the races occur is the
  run `doubled` for the toggle; `NoSilentLoss` holds after them too, and names the
  overwriting as a reason.

* Crashes: a worker dies in any state. Its `in_q` and its task are lost, its events
  are not. A health pass finds it, requeues its task in front with its id, and
  starts a new process with a new `in_q`.
* Restart: `execv` ends every queue and every worker; `state.json` stays.
* Time: passes of the health check are 300 s apart and the window of `CRASH_TS` is
  60 s, so a storm is decided by the crashes of one pass.
* The periodic functions `enforce_task_timeouts`, `enqueue_evolution_task_if_needed`
  and `enqueue_health_check_if_needed` are called by no code of the repository. They
  are modelled for a main loop that calls them, and `Jobs` says which; with
  `Jobs = {}` the model is the launcher as it is.
* An owner the supervisor does not know (`OwnerKnown`) means that scheduled tasks,
  reviews and system tasks are not queued; only the proofs cover that case.

Beside the main loop only the auto-resume thread runs, once in the life of a process, so
each of these windows can be met once in it. Steps of one thread that nothing else
reads or writes in between are one: `busy_task_id`, the put into `in_q` and the entry in
`RUNNING` are (a worker would have to finish the task, and the main loop to handle its
`task_done`, between two of these lines); the window of the filter reaches from its
first read to the end of the sort that follows the write; the guards'
two reads, of `PENDING` and of `RUNNING`, are one, since a task passes from the first to
the second and the pair misses it only when both come while it is in hand. A
dictionary that changes while a guard iterates over it raises, and the guard then lets nothing pass.

Abstracted: texts, times, the snapshot, messages to the owner, budgets except
"below the reserve" (`st.low`) and the breaker (`st.breaker`), whose failures the
agent counts from its history file.

### TaskQueue and Deques

`Enqueue` appends, numbers (negative for the front) and sorts, as `enqueue_task`
does. The sort puts an element at its rank, the number of those in front of it, and a
filter the k-th of the places it keeps at place k; so said, a stable sort and a filter can be
reasoned about without recursion. Operations that take a task out save the snapshot, a message does not.
`assign_tasks` saves at its end, after the task has gone to its worker and the owner may have been
told (`Assign`, then `SaveAssigned`); a death in between leaves a fresh snapshot with a task
that was handed out, and such a task would be restored and run twice. The
file is replaced atomically, so a crash leaves the old or the new one; writing may
fail (`MayFail`), which the code logs and ignores. A crash forgets the list and leaves the
snapshot; a restart that was asked for saves first, in `kill_workers` (`Restart`).
`restore_pending_from_snapshot` has no caller in the repository; it is
modelled as the first thing a process does, row by row, while the auto-resume
thread may queue and assign. The refinement mapping sends a class to the
subsequence of the list with that class and the tasks in `RUNNING` to `held`.

### Consciousness

`on`, `paused`, `stop`, `wakeup` are `_running`, `_paused` and the two
`threading.Event`s. Each thread that `start` creates walks through `_loop` and
`_think`; an action is the code between two accesses to shared state. `pending` is the
local list of events, `ctxEvents` the list in the tool context, which is one for all
threads. `Budget` says what `TOTAL_BUDGET` holds: an amount, zero or less, or a text that
`float` refuses; with the last two `_check_budget` lets every call pass. `pause` and
`resume` have no caller; `Pauses` adds one. A round makes one
tool call, which stands for the calls of that round. A call of the model takes any
cost up to `MaxCost`, or raises (`Fails`); a tool may never return (`Hangs`): the
executor's `with` block waits for it although its result has been given up.

### StateFile

A process or thread makes calls, one at a time: the locked budget update and its
check, `load_state`, the load and save of a handler, `init_state`. A call is one or
more sections under the lock; each access to a file is a step, so others run between
the test of the lock file and its removal, between the two files, and between the
load of a handler and its save. Of the state two fields are kept: one that the budget
counts, and the SHA that `load_state` heals.

* A holder dies anywhere (`Crash`) and leaves the lock file, which gets old (`Age`).
  Whoever sees it old unlinks whatever file is there by then (`SeeStale`, `Break`).
* A waiter runs its section without the lock after its timeout (`GiveUp`), and does
  not release a lock it does not have. `Slow` says whether live holders are slow
  enough for that, as `init_state` with its HTTP call under the lock may be.
* `state.json` is lost or made unreadable from outside (`Spoil`); the next section
  recovers from the backup. git may not answer (`Look`).
* `orderly` and `charged` are histories: nobody has died, timed out or broken a lock;
  how many calls were charged.

### LlmLoop

`pc` walks through a round of `run_llm_loop`: head of the loop, drain of the mailbox,
preparation of the messages, a call of the model, the tools, and at the end the
`finally` block and the report. `who` says which call it is: the first model, the
fallback, the final one after the last round, the review of a reply. `conv` is the list
`messages` without its system messages, of which only the size `system` counts; a message
knows its place in all that was said (`n`), its round and, for a result, the call it
answers. `answer` holds how each tool call of the round ended; side by side if `parallel`,
else in order.

* `Prepare` is all that happens to the messages between the drain and the call: notes
  join the system messages, old rounds are compacted from some round on, and
  `smart_context_optimize` cuts what is too long (`Optimized`). What is cut is gone, since
  the loop goes on with the shorter list.
* A compaction that a tool asked for (`Requested`) may take a call of the light model, which
  counts; it shortens some of the old results and leaves others as they are, since a summary may
  be as long as its text (`Summarised`).
* The mailbox is a sequence of lines; the last one may be incomplete while another agent
  writes it (`Torn`). A drain skips it, or reads nothing when a character is cut in two.
  A line with a separator that only `splitlines` knows is skipped each time (`Clean` has the others).
* A death (`Crash`) starts the task again from its text, with the mailbox as it is.

Abstracted: texts; system notes beyond their size; the
legacy message queue of the agent, which nothing fills; the limit at half of the
budget, which cannot be reached (see below). One agent at a time writes to a mailbox.

### GitSync

A change is named after the call that makes it. `tree` and `index` are the changes of the
working copy and those that are staged, `local` and `origin` the branch here and at the
remote, as sequences of commits, a commit being a set of changes. A pull rebases the own
commits, does nothing, or stops at a conflict (`rebasing`). Each git command of a tool, of
the rescue and of the restart is a step, so all of them interleave; only the tools take
`git.lock`, which may be taken for stale (`LooksStale`, `Break`) and is removed by whoever
releases. A tool call that is given up by its executor goes on as a thread, so a call is an
actor of its own that may die (`Die`).

The abort of a rebase that a restart begins with takes the edits of tracked files with it
(`RestartAbort`), also those made since the rebase stopped, and the fetch that follows may fail, so that
there is no restart. A change to a file that git does not know yet (`NewFile`) outlives it unless staged.

`undone` remembers the changes that a reset or an abort took out of a branch or the working copy:
`RescueUndo` after a push that failed, `RestartAbort` and `RestartReset`. The properties except these and nothing else.

Abstracted: contents and conflicts (any pull of diverged branches may conflict); git's own `index.lock`, which is a command that
fails (`Fails`); a checkout that works after a reset during a rebase (the model lets it fail
until a restart); the second run of the tests.

### MessageParts and Telegram

`split_telegram` is the loop of the code over sequences of letters and newlines,
`chunk_markdown` the one over lines with a size and a kind (text, blank, fence). Both are functions of
the turn: what the loop has made after `k` turns, which is what the proofs are about.
`Telegram` uses them for the number of parts of a message. `updates` is what Telegram
keeps, `confirmed` what it has forgotten because a poll asked for later ones; `offset` is
`update_offset`, which a restart sets to 0; `batch` the rest of an answer. `made` remembers
which updates any process has made tasks of. `sending` is the message whose parts go out,
`chat` what the owner sees. Each attempt of a request is a step: it may arrive although its
answer is lost, and is repeated. An exception of `assign_tasks` ends the loop over the
batch (`Handle`).

Abstracted: texts of messages beyond small ones, the conversion to HTML, a request that
arrives after its client has given up on it, failures to write the logs.

## Runs

Passing:

| Run | Shows |
|---|---|
| `tasks` | with messages, subtasks, reviews, cancels, restarts, raising tasks and two crashes (a storm needs both): `OneExecutor`, `RunningIsBusy`, `QueuedOnce`, `OneOfAKind`, `NoSilentLoss`, `CancelEndsTask` and the inductive invariant `IInv` |
| `periodic` | the timeouts, evolution and health-check functions with late events, a crash, the breaker and the budget, while the evolution mode is switched and the auto-resume thread queues and assigns: `TypeOK` (attempts stay within the limit), `OneExecutor`, `QueuedOnce`, `OneOfAKind`, `NoSilentLoss` |
| `answered` | `EveryTaskAnswered`: while messages keep coming, every task ends although a worker dies |
| `queue` | `ImplementsDeques`, `RestoreKeepsOrder`, with crashes between a hand-out and its snapshot |
| `stopping` | two loops at once, pauses, calls that raise, tools that hang: `OverspendBound`; `EventsInOrder`: no thought gathers an event twice or out of order; `StopEndsLoop` |
| `state` | `NeverOvercharged`: a call is never charged twice, whatever dies, times out or breaks a lock; `SectionsAtomic`: until then a section writes the newest state with its own change, also after a recovery |
| `rounds` | with three rounds, failures, reviews, requested compactions, tools in any order, three forwarded messages and a death: `NoHoles`, `FitsWindow`, `CallsAnswered` of what the model is shown; `OwnerInOrder`: of the messages, one of them unreadable, the others are heard once, in order and none left out; `CallsBounded`, `TaskEnds`; and `IInv` |
| `commits` | two tool calls, a foreign push, a rescue, a restart, stale locks and deaths: `OneAtATime`, `OkIsPushed`, `LocalIsCommitted`, `ChangesKept` and `IInv` |
| `chat` | lost requests and answers, exceptions, two restarts: `ConfirmedIsTask`, `TasksInOrder`, `PartsInOrder`, `Heard`; `TextKept` for all texts of up to nine characters and pages of up to five lines; and `IInv` |

Each of the following has a finding in `PROJECT.json`; TLC's trace shows it:

| Run | Shows |
|---|---|
| `launched` | a scheduled task waits beside an idle worker until the owner writes |
| `doubled` | a `toggle_evolution` filters the list, the auto-resume thread hands a task out, and the filtered list is written back: the task is queued and runs |
| `recent_kept` | with system messages of the size of the repository's own prompts the cut drops the whole conversation, so the model is called without its task |

Read from the code and without a run of their own; the models contain the first four:

* A `TOTAL_BUDGET` like `$50` is understood by the launcher (`scripts/colab_launcher.py:258`), but
  `_check_budget` gives the raw text to `float`, which raises, and then lets every call pass
  (`consciousness.py:183`): background thinking has no limit. `OverspendBound` is about an amount.
* A stop and a start in quick succession leave two loops (`consciousness.py:103`). They share the
  list of the context, so an event of one's tool may be gathered and forwarded by both;
  `EventsInOrder` speaks of each thought by itself.
* A call of the model that raises ends the thought, and the events of its earlier rounds are
  neither forwarded nor deferred (`consciousness.py:338`).
* A forwarded message that contains U+2028, U+2029 or U+0085 is cut by `splitlines`, never parses and is never
  heard, while later ones are (`owner_inject.py:74`). `OwnerInOrder` excepts it (`Clean`).

* After a crash storm `WORKERS` stays empty and nothing answers, although
  `supervisor/workers.py:766` promises direct chat: nothing calls `handle_chat_direct`.
* A handler that loads the state and saves it later (`supervisor/state.py:260`) writes an old copy
  over a budget update made in between, which `state.py:364` says cannot happen.
* After a successful pull of a restart a name that is not defined is used
  (`supervisor/git_ops.py:145`); the exception leads to the hard reset meant for conflicts.
* When a rebase stands at a conflict, a restart aborts it with the edits of the tools that work
  meanwhile; if the fetch then fails there is no restart (`supervisor/git_ops.py:155`).
* `_get_budget_status` asks for the cost of `accumulated_usage["model"]`, which nothing sets, so
  a task is never stopped at half of the budget; the loop calls `_call_llm_with_retry` without
  its usage callback, so what a task spends is never charged, although
  `ouroboros/agent.py:812` says that the loop has emitted it.
* The rescue of an agent takes the path of a file from a stripped line of `git status`, so an
  unstaged change is never rescued (`ouroboros/agent.py:217`).
* A message forwarded to a task after its last drain is deleted with the mailbox, while
  `forward_to_worker` has said that it was forwarded.
* An update handled but not confirmed before a restart becomes a second task; `tg_offset`
  of `state.json` is never read.
* The consciousness' own queue has no reader, so its messages and tasks go nowhere although
  its docstring says it can write to the owner and schedule tasks; `pause` has no caller; a
  `stop` between the test of the stop event and the clearing of the wakeup event is slept
  over, so that a loop may end an hour late (`StopEndsLoop` says only that it ends).
* A hanging tool of the consciousness holds its loop although its result was given up
  (`consciousness.py:652`); `resume` would lose events deferred while it empties the list (`:125`).
* A task that kills its workers is requeued with the same attempt count each time
  (`supervisor/workers.py:728`), so it never gives up.
* Two reviews, or two evolution tasks, are queued when a guard looks while the auto-resume thread
  has the first in hand (`supervisor/queue.py:416`); `OneOfAKind` excepts it.
* In the first seconds of a process the auto-resume thread and a handler may write the
  snapshot in the wrong order, since `persist_queue_snapshot` takes no lock (`supervisor/events.py:148`).
* The rescue unlinks `.git/index.lock` without knowing whether its owner lives (`ouroboros/agent.py:227`).
* A fence of code that opens where a part is full closes one that is not open and repeats
  its opening line (`supervisor/telegram.py:346`); `TextKept` allows the closing line beyond the limit.
* A timed-out browser tool goes on in its thread beside the next one, although the docstring of
  `_StatefulToolExecutor` says that they share a thread (`ouroboros/tool_executor.py:467`).

### Bounds

* `Wid` two workers: the shortest conflicts need the dead one and a successor.
  `TaskId` three or four: a running, a queued and a new task. Ids are drawn again once
  nothing holds them, which keeps behaviours infinite.
* `MaxCrashes` two in `tasks` allows a task to lose two workers, or both workers at
  once; `StormThreshold` is 2 instead of 3 so that two workers can make a storm.
* `MaxEvents` one: a request is emitted only onto an empty queue, but any number of
  `task_done` events may precede or follow it.
* `MaxOpen`, `SpareIds` bound how much the owner and the tools ask for.
* `MaxSeq` four enqueues per process; processes repeat without bound.
* `periodic`: two ids, one auto-resume task among them, and one spare id for a retry or a system task
  while another is held; each window of the auto-resume thread is met, since a task it pops is put back
  and one it queues is overwritten. `doubled` has three ids. Restarts, which open the window again, are in `tasks`.
* `stopping`: two threads of the consciousness, two rounds, costs 0 and 1 over a budget of 1:
  every check is met on both sides of the limit. Two events are the least number that has
  an order. Threads are created once each; a third adds no pair. `Budget` is an amount; the
  proof covers the other values. `View` forgets what was forwarded or deferred, which no step reads.
* `state`: three processes, one to die with the lock and two to break it; three calls,
  one death, one lost file, one commit. `Slow` is FALSE: timeouts and stale locks come
  only after a death, which is enough for two processes to be in the section at once.
  `View` forgets the variables of a call that is over.
* `rounds`: the sizes are those of the code (`Threshold` 12000, `Window` 10000), the system messages
  9000 or, as in the repository, 12402 tokens; `KeepRecent`, `OldRound`, `KeepOld` and `ReflectAfter`
  are smaller than in the code so that three rounds compact, cut and review; so is the number of rounds
  a requested compaction keeps (`AskedKeep` 1, where a tool may ask for 2 to 20). "More than 60 messages" is
  that a round after `ManyFrom` may have many or not. Two attempts
  distinguish the first, the last and one too many. Three messages let the unreadable one stand before,
  between or behind the others. `View` counts the numbers of messages from the last one and forgets what a
  round has done with once its reply is there. `recent_kept` takes 12402 tokens alone.
* `commits`: two tool calls, since a third adds no pair; one foreign commit makes the branches
  diverge, and one agent runs the rescue; two locks taken for stale, which lets two waiters
  break one after the other; two deaths, one restart, whose abort and reset meet both calls at
  any step. One of the two changes is a new file, so the calls are not symmetric.
* `chat`: three updates (one handled, one raised upon, one behind), two messages, three
  attempts as in the code, two restarts. Parts of at most four characters with a least cut
  of two, or of five lines' size, put every kind of boundary within nine characters and
  five lines.

### Fairness

`QuietSpec` assumes weak fairness of the steps of the main loop and of
`worker_main`, which are loops without a blocking step (in_q.get and the poll have
time limits or something to read), strong fairness of the auto-resume thread,
which competes for a lock released in finite time, and strong fairness of
`BeginHealth`, which comes every 300 s. `FairSpec` adds that the owner writes again
and again: `launched` shows that this is needed. `MayRaise` is FALSE there: a task
that raises sends no `task_done`, so its worker stays busy, and nothing ends it
since `enforce_task_timeouts` is never called. `FairSpec` of `Consciousness` is weak fairness of
each thread's loop; a wait always ends by its timeout. `FairSpec` of `LlmLoop` is weak fairness
of the agent: calls of the model and of tools end by their timeouts. `FairSpec` of `Telegram`
is weak fairness of the main loop and strong fairness of `PollAnswered`: not every poll
fails, which is the least without which no text could arrive.

## Proofs

`Supervisor_proofs` proves, for any workers, ids, retries, requests, jobs and
bounds, from `SupervisorAssumption` and `NoneAssumption` alone:

* `TypeCorrect`: `TypeOK`; `Invariance`: `IInv`;
* `SingleExecution` (`OneExecutor`), `BooksAgree` (`RunningIsBusy`),
  `NoDuplicates` (`QueuedOnce`), each a consequence of `IInv` and, as stated there, with the
  exception of a toggle that has overwritten a step of the auto-resume thread;
* `CancelIsFinal` (`CancelEndsTask`): no other step takes a cancel out of the event
  queue (`OnlyCancel`), and where `IInv` holds its handler finds the task in the
  queue, where nobody executes it, or with the one worker that does (`CancelEnds`);
* `NothingLost` (`NoSilentLoss`): each action keeps every task it has no reason to
  give up (`AssignKeeps`, `HandleKeeps`, `HealthKeeps`, `TimeoutKeeps`, ...). It holds after an
  overwriting too, so it rests on the part of `IInv` that no race touches: the health check queues
  a dead worker's task again under the id that `RUNNING` had it under (`OwnRecords`);
* `OnePerKind` (`OneOfAKind`): the type of a task goes with it from the queue to
  `RUNNING` and back, and the guards of the review, evolution and health-check tasks look
  at both places, all but the hand. `AloneOfItsKind` is inductive beside `IInv`, which is needed where a task is
  put back: it leaves `RUNNING` under the id it is queued under, or, after a timeout, for
  the one retry that takes its place.

`IInv` has two parts. The one of types, of the lock and of the threads' places always holds; the one
that says that the books agree (`Sound`) holds until a toggle is overwritten. What `ToggleWrite`
writes is what `DropEvolution` makes of the queue at that moment, unless it marks `raced`.

`OneExecutor` is not inductive. A process may be started on a task only if the
task was in the queue (`PendingIsIdle`: nobody is busy with or executes a task that is queued or in hand),
a respawn forgets only the task of that worker if no other is busy with it
(`BusyOnce`), a late `task_done` must not free the wrong worker
(`ExecutorIsAssignee`), the loop of `assign_tasks` meets existing workers
(`TodoUnderLock`) with a task in hand only for one of them (`HandUnderLock`), and a task that comes from an event must be new
(`ScheduledIsNew`, `EventsNameTasks`). The lemmas follow the operations on the
deques, then the actions: one that only shrinks what is queued or executed
(`ShrinkStep`), one that only adds (`GrowStep`, `FreshStep`), the dispatch of an event
(`EventStep`), and the remaining ones one by one.

`TaskQueue_proofs` proves, for any tasks, any `MaxSeq`, and failing writes included, `Invariant`
(`IInv`), `OrderRestored` (`RestoreKeepsOrder`) and
`QueueIsDeques`: the list implements `Deques`. It has three layers.

* What the operators do. A rank counts the elements in front; on a sorted list, appending one and sorting
  puts it behind those it does not come before and leaves the others as they are (`RankOfAppend`,
  `SortInserts`, `EnqueueInserts`). A filter keeps an increasing choice of places (`WithoutThins`,
  `DropThins`). Where the argument is an induction, it is made from the least counterexample of a set of
  naturals (`LeastNat`) or from the cardinality of an interval.
* `IInv`, one lemma per action. `RestoreKeepsOrder` alone is not inductive: the next row
  must stand behind those restored before it, whatever came in between. That the file's
  rows are sorted by class, that the rows still to come are the rest of the file, and that
  no queued number exceeds the counter make it so; a row that is queued a second time
  under its id is excluded by `OnePlace`. A write that fails, or a crash before it, leaves a
  file that the queue has left behind; the rows still to come are then the rest of that file, or the file has been
  replaced by one that holds none of them (`Restoring`).
* The refinement. A sorted list is cut into classes by four bounds (`Blocks`), and the deque of a
  class is the interval between two (`MappedBlock`). Inserting shifts the bounds behind the class up, removing
  down (`BoundsInserted`, `BoundsRemoved`); that a new task lands at the end of its class, or
  at its start if its number is negative (`EnqueueMapped`), and that `assign_tasks` takes the
  first of the most urgent class but for evolution tasks passed over (`AssignServes`), follows.

`Consciousness_proofs` proves `BudgetRespected` (`OverspendBound`) for any finite set of
threads: with an amount to check against, the excess beyond the budget is at most one call for each
thread that has landed, that is, will look at the budget before it calls again. It also proves
`EventsGatheredInOrder` (`EventsInOrder`), for any threads, budget, price, number of rounds and events, with calls
that raise, tools that hang and pauses: events are numbered as they are emitted; the list of the
context is always increasing and, while a thread's tool runs, beyond what that thread has gathered (`EventInv`). That every event
is forwarded, and forwarded once, is false (see Runs).

`StateFile_proofs` proves `Atomicity` (`SectionsAtomic`) for any processes and bounds,
`Slow` TRUE included. While the history is orderly the one process within a section
has created the lock file that is there (`OneWithin`), what it is about to write is what
the files say with its change (`UpToDate`), and the two files differ only by the write
in progress or a lost `state.json` (`FilesAgree`); the last is needed for a recovery
from the backup to be a recovery of the newest state.

It also proves `ChargedOnce` (`NeverOvercharged`) and `StateTypes` (`TypeOK`) for any
finite set of processes, with no condition on the history: whatever a copy of the
state counts, on disk or in a process, is at most the calls charged less those that
are still due (`Counted`), where a call is due until its section has read the state.
The counter's type needs that bound, so the two are proved together.

`LlmLoop_proofs` proves `Invariance` and from it `Unbroken` (`NoHoles`), `EveryCallAnswered`
(`CallsAnswered`), `HeardInOrder` (`OwnerInOrder`), `BoundedCalls` (`CallsBounded`) and `KeptFits` (`FitsWindow`) for all sizes,
rounds, calls and messages. `CallsAnswered` speaks of the moments when the model is called; the
invariant adds where the results of the round may still be missing (`Replied`), how the
calls are counted along the fallbacks (`CallsSoFar`, `RoundsSoFar`), and that what was heard
is a prefix of the file whose lines are whole (`Heard`). The lemmas on `Recent` and `Compacted` say
that a cut is a suffix and that compaction, requested or not, changes sizes only; a suffix may begin with
results whose reply is gone, never with a reply without its results. `KeptFits` needs what a suffix
measures: the recursive function of `Size` exists (`SizesExist`, by `UpTo`), the measure of a suffix
is what that function says at its start (`SizeOfSuffix`), so what `Recent` keeps fits (`CutFits`).

`GitSync_proofs` proves `Invariance`, `Exclusion` (`OneAtATime`), `OkIsTrue` (`OkIsPushed`), `LocalIsTrue`
(`LocalIsCommitted`) and `NoChangeLost` (`ChangesKept`) for any calls, agents and bounds. `Located`
follows the change of a call through the tool; that a rebase, a commit of another call or a
foreign push keeps it there are lemmas about what git does.

`Telegram_proofs` proves `Invariance`, `NothingForgotten` (`ConfirmedIsTask`), `OnceInOrder`
(`TasksInOrder`) and `SeenInOrder` (`PartsInOrder`). The first needs that a text is a task or will be told
again (`Followed`), and for an exception in the middle of a batch that nothing before the next
update is missing (`Gapless`); the last that the queue holds what comes after the chat (`Sent`).

`TextWhole` (`TextKept`) is about `MessageParts`, for all limits, texts and pages. That the functions of the turn
exist is an induction for a set (`Recursion`). For a plain text the loop keeps the parts followed by
the rest, and every turn takes a character at least (`SplitKeeps`, `CutInside`), so after as many turns as there
are characters the rest fits. For a page each line is told once and an added one not (`PlacedTells`), and a
part that is flushed or forgotten takes nothing of the text with it (`FlushedTells`, `BlankOwnsNothing`). If two
lines and the end of a fence fit into a part, the parts are small; the part that is made needs room for the end of its
fence, and the line that opened the fence must fit in with the next (`Small`, `PlacedSmall`).
`OutgoingType` gives the numbers of parts that `Invariance` needs.

Only model-checked: liveness (`EveryTaskAnswered`, `StopEndsLoop`, `TaskEnds`, `Heard`), which is out
of the prover's reach. Every invariant and every other property of the runs is a theorem.

## Not modelled, and why

* The LLM client, the GitHub and process-statistics helpers: pure I/O.
* The tools other than the control and commit tools, the prompts, memory and vault: each is one call whose
  result is text; the loop sees it return, fail or hang.
* The resilience package, which nothing calls, and the skills.
* The watchdog restores `state.json` from its backup only when the state cannot be read or has
  no owner, which `ensure_state_defaults` always sets; a failing disk is not modelled.
* Hot reload replaces modules in a running worker: which code runs is outside these models.
* The signal handler takes `_queue_lock` in the thread that may hold it; the shutdown is not a model
  of its own since there would be nothing else in it.
* The clock of the crash storm, the counters behind the evolution breaker, and the breakdown of
  the budget are times and sums; the models have the decisions they lead to.
* How a parent waits for its subtask: `wait_for_task` is a tool call that ends by its timeout.

What could be proved next: abstract specifications of the chat and of the commit tools beside the
invariants, implemented step by step as the queue implements `Deques`.
