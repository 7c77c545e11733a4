----------------------------- MODULE Supervisor -----------------------------
(***************************************************************************)
(* The supervisor process of the agent: the launcher's main loop           *)
(* (scripts/colab_launcher.py), the queue it feeds (supervisor/queue.py),  *)
(* the worker processes it feeds them to (supervisor/workers.py) and the   *)
(* handlers of the events the workers send back (supervisor/events.py).    *)
(*                                                                         *)
(* PENDING is a list sorted by (priority, _queue_seq).  Here it is one     *)
(* deque per priority class: a plain enqueue goes to the back of its class *)
(* and a front enqueue to its front.  TaskQueue shows that the list, its   *)
(* sequence numbers and its sort implement exactly this.                   *)
(*                                                                         *)
(* The main loop, the auto-resume thread and the worker processes          *)
(* interleave.  An action of the main loop is one iteration of a loop or   *)
(* one handler, cut in two where the code reads or writes PENDING or       *)
(* RUNNING without _queue_lock.  queue_snapshot.json, which these handlers *)
(* write and the launcher never reads back, is modelled in TaskQueue.      *)
(***************************************************************************)
EXTENDS Naturals, Sequences, FiniteSets

CONSTANTS
  Wid,            \* keys of WORKERS that spawn_workers creates
  TaskId,         \* the uuids; an id nobody holds any more may be drawn again
  None,           \* Python's None
  Requests,       \* the kinds of request event a running task may make
  Jobs,           \* the periodic functions of queue.py the main loop calls
  MaxRetries,     \* QUEUE_MAX_RETRIES
  StormThreshold, \* dead workers in one pass that make a crash storm (3)
  MaxCrashes,     \* bound: worker deaths in a behaviour
  MaxEvents,      \* bound: length of the event queue a request may find
  MaxOpen,        \* bound: tasks open before the owner waits for answers
  SpareIds,       \* bound: ids left for the supervisor's own tasks
  MayRaise,       \* whether handle_task may raise
  OwnerKnown      \* whether state.json has the owner's chat id

AllRequests == {"schedule_task", "cancel_task", "review_request",
                "toggle_evolution", "restart_request"}
AllJobs == {"timeouts", "evolution", "health_check"}

ASSUME SupervisorAssumption ==
  /\ None \notin Wid \cup TaskId
  /\ Requests \subseteq AllRequests
  /\ Jobs \subseteq AllJobs
  /\ MaxRetries \in Nat /\ MaxCrashes \in Nat /\ MaxEvents \in Nat
  /\ MaxOpen \in Nat /\ SpareIds \in Nat
  /\ StormThreshold \in Nat \ {0}
  /\ MayRaise \in BOOLEAN /\ OwnerKnown \in BOOLEAN

VARIABLES
  PENDING,   \* priority class -> deque of tasks waiting
  RUNNING,   \* task id -> the record assign_tasks made for it, or None
  WORKERS,   \* the keys of the WORKERS dict
  busy,      \* Worker.busy_task_id
  alive,     \* Worker.proc.is_alive()
  inq,       \* Worker.in_q: tasks sent to the process
  cur,       \* the task worker_main is handling
  eventq,    \* EVENT_Q: events from the workers
  phase,     \* where the main loop is
  todo,      \* WORKERS the loop of assign_tasks has still to visit
  lock,      \* which thread holds _queue_lock inside assign_tasks
  resume,    \* where the auto-resume thread is
  pass,      \* the running pass of ensure_workers_healthy
  st,        \* the fields of state.json the scheduling reads
  crashes,   \* worker deaths so far (counts against MaxCrashes)
  hand,      \* task assign_tasks has popped and not yet entered in RUNNING
  kept,      \* the filtered list of toggle_evolution, before it is written back
  plan,      \* type a guard has let pass and that is not yet queued, or None
  raced      \* history: the races between the two threads that did harm

vars == <<PENDING, RUNNING, WORKERS, busy, alive, inq, cur, eventq, phase,
          todo, lock, resume, pass, st, crashes, hand, kept, plan, raced>>

procVars == <<busy, alive, inq, cur>>

\* What a thread holds between two of its steps.
stepVars == <<hand, kept, plan, raced>>

-----------------------------------------------------------------------------
(* Tasks, events and the queue.                                            *)

Type == {"task", "review", "evolution", "health_check"}

Class == 0..2

\* A smaller class is served first.
Priority(type) == CASE type \in {"task", "review"} -> 0
                    [] type = "evolution" -> 1
                    [] OTHER -> 2

Task == [id: TaskId, type: Type, attempt: 1..(MaxRetries + 1)]

NewTask(t, type) == [id |-> t, type |-> type, attempt |-> 1]

Meta == [task: Task, wid: Wid, soft: BOOLEAN]

ASSUME NoneAssumption == None \notin Meta /\ None \notin Type

Event == [kind: AllRequests \cup {"task_done"}, id: TaskId \cup {None},
          wid: Wid, type: Type, flag: BOOLEAN]

EnqueueBack(q, task) ==
  [q EXCEPT ![Priority(task.type)] = Append(@, task)]

EnqueueFront(q, task) ==
  [q EXCEPT ![Priority(task.type)] = <<task>> \o @]

\* (mutant) Everything is dropped with the evolution tasks.
DropAll(q) == [c \in Class |-> <<>>]

DropEvolution(q) == [q EXCEPT ![Priority("evolution")] = <<>>]

InDeque(t, q) == \E i \in 1..Len(q) : q[i].id = t

Holds(q, t) == \E c \in Class : InDeque(t, q[c])

InPending(t) == Holds(PENDING, t)

PendingEmpty == \A c \in Class : PENDING[c] = <<>>

IsRunning(t) == RUNNING[t] # None

NothingRunning == \A t \in TaskId : ~IsRunning(t)

\* assign_tasks has taken the task off the list and not yet entered it in RUNNING.
InHand(t) == hand # None /\ hand.task.id = t

\* The supervisor still answers for the task.
Tracked(t) == InPending(t) \/ IsRunning(t) \/ InHand(t)

\* A live process will run the task or is running it.
Executing(w, t) ==
  /\ alive[w]
  /\ \/ InDeque(t, inq[w])
     \/ cur[w] # None /\ cur[w].id = t

\* uuid4 draws an id that occurs nowhere.
Fresh(t) ==
  /\ ~Tracked(t) /\ ~Holds(kept, t)
  /\ \A w \in Wid : /\ busy[w] # t
                    /\ ~InDeque(t, inq[w])
                    /\ ~(cur[w] # None /\ cur[w].id = t)
  /\ ~InDeque(t, eventq)

QueuedType(type) ==
  \E c \in Class : \E i \in 1..Len(PENDING[c]) : PENDING[c][i].type = type

\* queue_has_task_type.
HasType(type) ==
  \/ QueuedType(type)
  \/ \E t \in TaskId : IsRunning(t) /\ RUNNING[t].task.type = type

-----------------------------------------------------------------------------
(* Initial state: spawn_workers has run, the auto-resume thread sleeps.    *)

NoPass == [todo |-> {}, dead |-> 0, busyCrash |-> FALSE]

Resume == {"sleep", "assign", "done"}

\* auto_resume_after_restart starts no thread for an unknown owner, or when it
\* fails on the way.
ResumeStart == IF OwnerKnown THEN {"sleep", "done"} ELSE {"done"}

Phase == {"poll", "assign", "drain", "toggle", "enqueue", "health", "jobs"}

NoTasks == [c \in Class |-> <<>>]

\* What a new supervisor process starts from; state.json outlives it.
Boot ==
  /\ PENDING' = [c \in Class |-> <<>>]
  /\ RUNNING' = [t \in TaskId |-> None]
  /\ WORKERS' = Wid
  /\ busy' = [w \in Wid |-> None]
  /\ alive' = [w \in Wid |-> TRUE]
  /\ inq' = [w \in Wid |-> <<>>]
  /\ cur' = [w \in Wid |-> None]
  /\ eventq' = <<>>
  /\ phase' = "poll"
  /\ todo' = {}
  /\ lock' = "free"
  /\ resume' \in ResumeStart
  /\ pass' = NoPass
  /\ hand' = None /\ kept' = NoTasks /\ plan' = None /\ raced' = {}

\* state.json as an earlier process left it; only the evolution job reads
\* these fields.
SchedulingState == [mode: BOOLEAN, breaker: BOOLEAN, low: BOOLEAN]

InitialState ==
  IF "evolution" \in Jobs THEN SchedulingState
  ELSE {[mode |-> FALSE, breaker |-> FALSE, low |-> FALSE]}

Init ==
  /\ PENDING = [c \in Class |-> <<>>]
  /\ RUNNING = [t \in TaskId |-> None]
  /\ WORKERS = Wid
  /\ busy = [w \in Wid |-> None]
  /\ alive = [w \in Wid |-> TRUE]
  /\ inq = [w \in Wid |-> <<>>]
  /\ cur = [w \in Wid |-> None]
  /\ eventq = <<>>
  /\ phase = "poll"
  /\ todo = {}
  /\ lock = "free"
  /\ resume \in ResumeStart
  /\ pass = NoPass
  /\ st \in InitialState
  /\ crashes = 0
  /\ hand = None /\ kept = NoTasks /\ plan = None /\ raced = {}

-----------------------------------------------------------------------------
(* Worker processes.                                                       *)

\* worker_main: task = in_q.get().
Take(w) ==
  /\ alive[w] /\ cur[w] = None /\ inq[w] # <<>>
  /\ cur' = [cur EXCEPT ![w] = Head(inq[w])]
  /\ inq' = [inq EXCEPT ![w] = Tail(@)]
  /\ UNCHANGED <<PENDING, RUNNING, WORKERS, busy, alive, eventq, phase, todo,
                 lock, resume, pass, st, crashes, stepVars>>

\* The bound on ids: enough are left for the supervisor's own tasks.
SpareLeft == Cardinality({t \in TaskId : Fresh(t)}) > SpareIds

\* The same bound for a task that is queued some steps after its guard: the
\* auto-resume thread may take an id in between.
PlanLeft ==
  Cardinality({t \in TaskId : Fresh(t)}) > IF resume = "sleep" THEN 1 ELSE 0

\* worker_main forwards a request event the task's tools recorded.  The flag is
\* what a toggle asks for, and whether a scheduled task has a description.
Emit(w, kind, t, flag) ==
  /\ alive[w] /\ cur[w] # None
  /\ kind \in Requests
  /\ Len(eventq) < MaxEvents
  /\ CASE kind = "schedule_task" -> t \in TaskId /\ Fresh(t) /\ SpareLeft
       [] kind = "cancel_task" -> t \in TaskId /\ ~Fresh(t)
       [] kind = "review_request" -> t = None /\ PlanLeft
       [] OTHER -> t = None
  /\ kind \notin {"toggle_evolution", "schedule_task"} => flag
  /\ eventq' = Append(eventq, [kind |-> kind, id |-> t, wid |-> w,
                               type |-> cur[w].type, flag |-> flag])
  /\ UNCHANGED <<PENDING, RUNNING, WORKERS, procVars, phase, todo, lock,
                 resume, pass, st, crashes, stepVars>>

\* worker_main forwards task_done, the last event of handle_task.  After an
\* evolution or review task the agent has also counted its success.
Finish(w, flag) ==
  /\ alive[w] /\ cur[w] # None
  /\ eventq' = Append(eventq, [kind |-> "task_done", id |-> cur[w].id,
                               wid |-> w, type |-> cur[w].type, flag |-> flag])
  /\ cur' = [cur EXCEPT ![w] = None]
  /\ IF cur[w].type \in {"evolution", "review"}
     THEN \E b \in BOOLEAN : st' = [st EXCEPT !.breaker = b]
     ELSE st' = st /\ flag
  /\ UNCHANGED <<PENDING, RUNNING, WORKERS, busy, alive, inq, phase, todo,
                 lock, resume, pass, crashes, stepVars>>

\* handle_task raises: worker_main logs it and waits for the next task;
\* no event is sent.
Raise(w) ==
  /\ MayRaise
  /\ alive[w] /\ cur[w] # None
  /\ cur' = [cur EXCEPT ![w] = None]
  /\ UNCHANGED <<PENDING, RUNNING, WORKERS, busy, alive, inq, eventq, phase,
                 todo, lock, resume, pass, st, crashes, stepVars>>

\* The process dies: killed by the system, os._exit of the hot reloader, or
\* make_agent failed at its start.
Crash(w) ==
  /\ crashes < MaxCrashes
  /\ w \in WORKERS /\ alive[w]
  /\ crashes' = crashes + 1
  /\ alive' = [alive EXCEPT ![w] = FALSE]
  /\ cur' = [cur EXCEPT ![w] = None]
  /\ UNCHANGED <<PENDING, RUNNING, WORKERS, busy, inq, eventq, phase, todo,
                 lock, resume, pass, st, stepVars>>

\* (mutant) A replacement process that goes on reading the old in_q.
RespawnOnOldQueue(w) ==
  /\ busy' = [busy EXCEPT ![w] = None]
  /\ alive' = [alive EXCEPT ![w] = TRUE]
  /\ cur' = [cur EXCEPT ![w] = None]
  /\ UNCHANGED inq

\* respawn_worker: a new process, a new in_q and a new Worker object; what
\* the old process was doing, if it was still alive, has been terminated.
Respawn(w) ==
  /\ busy' = [busy EXCEPT ![w] = None]
  /\ alive' = [alive EXCEPT ![w] = TRUE]
  /\ inq' = [inq EXCEPT ![w] = <<>>]
  /\ cur' = [cur EXCEPT ![w] = None]

\* kill_workers: no worker is left, RUNNING is cleared, PENDING stays.
KillWorkers ==
  /\ lock = "free"
  /\ WORKERS' = {}
  /\ RUNNING' = [t \in TaskId |-> None]
  /\ busy' = [w \in Wid |-> None]
  /\ alive' = [w \in Wid |-> FALSE]
  /\ inq' = [w \in Wid |-> <<>>]
  /\ cur' = [w \in Wid |-> None]

-----------------------------------------------------------------------------
(* Telegram: every message with a text becomes a task, and assign_tasks is  *)
(* called.                                                                 *)

\* The owner writes while fewer than MaxOpen tasks are open, and also when a
\* task waits although a worker is free.
OwnerWrites ==
  /\ SpareLeft
  /\ \/ Cardinality({t \in TaskId : Tracked(t)}) < MaxOpen
     \/ ~PendingEmpty /\ \E w \in WORKERS : busy[w] = None

Message(t) ==
  /\ phase = "poll" /\ lock = "free"
  /\ OwnerWrites
  /\ Fresh(t)
  /\ PENDING' = EnqueueBack(PENDING, NewTask(t, "task"))
  /\ phase' = "assign"
  /\ UNCHANGED <<RUNNING, WORKERS, procVars, eventq, todo, lock, resume, pass,
                 st, crashes, stepVars>>

EndPoll ==
  /\ phase = "poll"
  /\ phase' = "drain"
  /\ UNCHANGED <<PENDING, RUNNING, WORKERS, procVars, eventq, todo, lock,
                 resume, pass, st, crashes, stepVars>>

\* The auto-resume thread queues its task three seconds after the start ...
ResumeEnqueue(t) ==
  /\ resume = "sleep" /\ lock = "free"
  /\ Fresh(t)
  /\ PENDING' = EnqueueBack(PENDING, NewTask(t, "task"))
  /\ resume' = "assign"
  /\ UNCHANGED <<RUNNING, WORKERS, procVars, eventq, phase, todo, lock, pass,
                 st, crashes, stepVars>>

\* ... and calls assign_tasks, as the main loop does after a message.
AssignBegin(thread) ==
  /\ lock = "free"
  /\ IF thread = "main" THEN phase = "assign" ELSE resume = "assign"
  /\ lock' = thread
  /\ todo' = WORKERS
  /\ UNCHANGED <<PENDING, RUNNING, WORKERS, procVars, eventq, phase, resume,
                 pass, st, crashes, stepVars>>

\* The first candidate that is not an evolution task over budget.
Suitable(c) == PENDING[c] # <<>> /\ (c = Priority("evolution") => ~st.low)

FirstSuitable(c) == Suitable(c) /\ \A d \in Class : Suitable(d) => c <= d

\* The loop of assign_tasks comes to a worker.  It goes on to the next one, or
\* pops a task ...
AssignWorker(w) ==
  /\ w \in todo /\ hand = None
  /\ \/ /\ busy[w] # None \/ PendingEmpty
        /\ todo' = todo \ {w}
        /\ UNCHANGED <<PENDING, hand>>
     \/ /\ busy[w] = None
        /\ \E c \in Class :
             /\ FirstSuitable(c)
             /\ PENDING' = [PENDING EXCEPT ![c] = Tail(@)]
             /\ hand' = [task |-> Head(PENDING[c]), wid |-> w, soft |-> FALSE]
        /\ UNCHANGED todo
     \/ /\ busy[w] = None /\ ~PendingEmpty
        /\ \A c \in Class : ~Suitable(c)
        /\ todo' = todo \ {w}
        /\ PENDING' = DropEvolution(PENDING)
        /\ UNCHANGED hand
  /\ UNCHANGED <<RUNNING, WORKERS, procVars, eventq, phase, lock, resume, pass,
                 st, crashes, kept, plan, raced>>

\* ... and then marks the worker, sends the task and enters it in RUNNING.
HandOver ==
  /\ hand # None
  /\ busy' = [busy EXCEPT ![hand.wid] = hand.task.id]
  /\ inq' = [inq EXCEPT ![hand.wid] = Append(@, hand.task)]
  /\ RUNNING' = [RUNNING EXCEPT ![hand.task.id] = hand]
  /\ todo' = todo \ {hand.wid}
  /\ hand' = None
  /\ UNCHANGED <<PENDING, WORKERS, alive, cur, eventq, phase, lock, resume, pass,
                 st, crashes, kept, plan, raced>>

AssignEnd ==
  /\ lock # "free" /\ todo = {}
  /\ lock' = "free"
  /\ IF lock = "main"
     THEN phase' = "poll" /\ UNCHANGED resume
     ELSE resume' = "done" /\ UNCHANGED phase
  /\ UNCHANGED <<PENDING, RUNNING, WORKERS, procVars, eventq, todo, pass, st,
                 crashes, stepVars>>

-----------------------------------------------------------------------------
(* dispatch_event: one action per handler that changes the state above.    *)

Dispatch(kind) ==
  /\ phase = "drain"
  /\ eventq # <<>> /\ Head(eventq).kind = kind
  /\ eventq' = Tail(eventq)

\* (mutants) The reporting worker is freed whatever it is busy with; no worker
\* is freed.
FreedByReporter(e) ==
  IF e.wid \in WORKERS THEN [busy EXCEPT ![e.wid] = None] ELSE busy

FreedByNobody(e) == busy

\* The worker is freed only if the supervisor believes it to run the task.
FreedBy(e) ==
  IF e.wid \in WORKERS /\ busy[e.wid] = e.id
  THEN [busy EXCEPT ![e.wid] = None] ELSE busy

\* RUNNING forgets the task whoever reports it.
TaskDone ==
  /\ Dispatch("task_done")
  /\ LET e == Head(eventq) IN
       /\ IF e.type = "evolution"
          THEN IF e.flag THEN st' = [st EXCEPT !.breaker = FALSE]
               ELSE \E b \in BOOLEAN :
                      st' = [st EXCEPT !.breaker = st.breaker \/ b]
          ELSE UNCHANGED st
       /\ RUNNING' = [RUNNING EXCEPT ![e.id] = None]
       /\ busy' = FreedBy(e)
  /\ UNCHANGED <<PENDING, WORKERS, alive, inq, cur, phase, todo, lock, resume,
                 pass, crashes, stepVars>>

ScheduleTask ==
  /\ Dispatch("schedule_task") /\ lock = "free"
  /\ PENDING' = IF OwnerKnown /\ Head(eventq).flag
                THEN EnqueueBack(PENDING, NewTask(Head(eventq).id, "task"))
                ELSE PENDING
  /\ UNCHANGED <<RUNNING, WORKERS, procVars, phase, todo, lock, resume, pass,
                 st, crashes, stepVars>>

\* A guard that looks for tasks of this type overlooks the one in hand.
RacedBy(type) ==
  IF hand # None /\ hand.task.type = type THEN raced \cup {"guard"} ELSE raced

\* The guard has let a task of this type pass; it is queued in a later step.
Planned(type) ==
  /\ plan' = type
  /\ phase' = "enqueue"
  /\ raced' = RacedBy(type)

\* queue_review_task: nothing is queued while a review waits or runs, or for
\* an unknown owner.  The guard takes no lock ...
ReviewRequest ==
  /\ Dispatch("review_request")
  /\ IF ~OwnerKnown \/ HasType("review")
     THEN UNCHANGED <<phase, plan, raced>>
     ELSE Planned("review")
  /\ UNCHANGED <<PENDING, RUNNING, WORKERS, procVars, todo, lock, resume, pass,
                 st, crashes, hand, kept>>

\* ... and enqueue_task does.
EnqueuePlanned ==
  /\ phase = "enqueue" /\ lock = "free"
  /\ \E t \in TaskId :
       /\ Fresh(t)
       /\ PENDING' = EnqueueBack(PENDING, NewTask(t, plan))
  /\ plan' = None
  /\ phase' = IF plan = "review" THEN "drain" ELSE "jobs"
  /\ UNCHANGED <<RUNNING, WORKERS, procVars, eventq, todo, lock, resume, pass,
                 st, crashes, hand, kept, raced>>

RemoveId(q, t) ==
  LET keep(i) == IF \E j \in 1..i : q[j].id = t THEN i + 1 ELSE i
  IN  [i \in 1..(Len(q) - 1) |-> q[keep(i)]]

\* cancel_task_by_id: first the queue, then the worker believed to run it.
CancelPending(t) ==
  /\ InPending(t)
  /\ \E c \in Class : /\ InDeque(t, PENDING[c])
                      /\ PENDING' = [PENDING EXCEPT ![c] = RemoveId(@, t)]
  /\ UNCHANGED <<RUNNING, procVars>>

\* (mutant) The worker is freed but its process left running.
CancelWithoutKill(t) ==
  /\ ~InPending(t)
  /\ \E w \in WORKERS : busy[w] = t /\ busy' = [busy EXCEPT ![w] = None]
  /\ RUNNING' = [RUNNING EXCEPT ![t] = None]
  /\ UNCHANGED <<PENDING, alive, inq, cur>>

CancelRunning(t) ==
  /\ ~InPending(t)
  /\ \E w \in WORKERS : busy[w] = t /\ Respawn(w)
  /\ RUNNING' = [RUNNING EXCEPT ![t] = None]
  /\ UNCHANGED PENDING

CancelUnknown(t) ==
  /\ ~InPending(t) /\ \A w \in WORKERS : busy[w] # t
  /\ UNCHANGED <<PENDING, RUNNING, procVars>>

CancelTask ==
  /\ Dispatch("cancel_task") /\ lock = "free"
  /\ LET t == Head(eventq).id IN
       CancelPending(t) \/ CancelRunning(t) \/ CancelUnknown(t)
  /\ UNCHANGED <<WORKERS, phase, todo, lock, resume, pass, st, crashes, stepVars>>

\* The list without evolution tasks is computed from PENDING with no lock ...
ToggleEvolution ==
  /\ Dispatch("toggle_evolution")
  /\ st' = [st EXCEPT !.mode = Head(eventq).flag]
  /\ IF Head(eventq).flag
     THEN UNCHANGED <<phase, kept>>
     ELSE phase' = "toggle" /\ kept' = DropEvolution(PENDING)
  /\ UNCHANGED <<PENDING, RUNNING, WORKERS, procVars, todo, lock, resume, pass,
                 crashes, hand, plan, raced>>

\* ... and written over PENDING, whatever the other thread has done to it since.
ToggleWrite ==
  /\ phase = "toggle"
  /\ phase' = "drain"
  /\ PENDING' = kept
  /\ kept' = NoTasks
  /\ raced' = IF kept = DropEvolution(PENDING) THEN raced ELSE raced \cup {"toggle"}
  /\ UNCHANGED <<RUNNING, WORKERS, procVars, eventq, todo, lock, resume, pass, st,
                 crashes, hand, plan>>

\* safe_restart refuses, or the workers are killed and execv replaces this
\* process by a new launcher.
RestartRequest ==
  \/ /\ Dispatch("restart_request")
     /\ UNCHANGED <<PENDING, RUNNING, WORKERS, procVars, phase, todo, lock,
                    resume, pass, st, crashes, stepVars>>
  \/ /\ phase = "drain" /\ lock = "free"
     /\ eventq # <<>> /\ Head(eventq).kind = "restart_request"
     /\ Boot
     /\ UNCHANGED <<st, crashes>>

\* The event queue is empty; 300 s have passed since the last pass and 90 s
\* since the last spawn.
BeginHealth ==
  /\ phase = "drain" /\ eventq = <<>> /\ resume = "done"
  /\ phase' = "health"
  /\ pass' = [NoPass EXCEPT !.todo = WORKERS]
  /\ UNCHANGED <<PENDING, RUNNING, WORKERS, procVars, eventq, todo, lock,
                 resume, st, crashes, stepVars>>

EndDrain ==
  /\ phase = "drain" /\ eventq = <<>>
  /\ phase' = IF Jobs = {} THEN "poll" ELSE "jobs"
  /\ UNCHANGED <<PENDING, RUNNING, WORKERS, procVars, eventq, todo, lock,
                 resume, pass, st, crashes, stepVars>>

-----------------------------------------------------------------------------
(* ensure_workers_healthy.                                                 *)

HealthAlive(w) ==
  /\ phase = "health" /\ w \in pass.todo /\ alive[w]
  /\ pass' = [pass EXCEPT !.todo = @ \ {w}]
  /\ UNCHANGED <<PENDING, RUNNING, WORKERS, procVars, eventq, phase, todo,
                 lock, resume, st, crashes, stepVars>>

\* (mutants) The task is queued again but stays in RUNNING; it leaves RUNNING
\* and is not queued again.
RequeueAndKeep(w) ==
  IF busy[w] # None /\ IsRunning(busy[w])
  THEN /\ PENDING' = EnqueueFront(PENDING, RUNNING[busy[w]].task)
       /\ UNCHANGED RUNNING
  ELSE UNCHANGED <<PENDING, RUNNING>>

RequeueNothing(w) ==
  /\ RUNNING' = [t \in TaskId |-> IF busy[w] = t THEN None ELSE RUNNING[t]]
  /\ UNCHANGED PENDING

\* The task of a dead worker goes back to the front of its class with the id
\* and the attempt it had.
Requeue(w) ==
  IF busy[w] # None /\ IsRunning(busy[w])
  THEN /\ PENDING' = EnqueueFront(PENDING, RUNNING[busy[w]].task)
       /\ RUNNING' = [RUNNING EXCEPT ![busy[w]] = None]
  ELSE UNCHANGED <<PENDING, RUNNING>>

HealthDead(w) ==
  /\ phase = "health" /\ lock = "free" /\ w \in pass.todo /\ ~alive[w]
  /\ pass' = [todo |-> pass.todo \ {w}, dead |-> pass.dead + 1,
              busyCrash |-> pass.busyCrash \/ busy[w] # None]
  /\ Requeue(w)
  /\ Respawn(w)
  /\ UNCHANGED <<WORKERS, eventq, phase, todo, lock, resume, st, crashes, stepVars>>

Storm ==
  /\ pass.busyCrash \/ \A w \in WORKERS : ~alive[w]
  /\ pass.dead >= StormThreshold

\* CRASH_TS holds only crashes of this pass: passes are 300 s apart and its
\* window is 60 s.
HealthEnd ==
  /\ phase = "health" /\ pass.todo = {}
  /\ IF Storm THEN KillWorkers
     ELSE UNCHANGED <<RUNNING, WORKERS, procVars>>
  /\ pass' = NoPass
  /\ phase' = IF Jobs = {} THEN "poll" ELSE "jobs"
  /\ UNCHANGED <<PENDING, eventq, todo, lock, resume, st, crashes, stepVars>>

-----------------------------------------------------------------------------
(* The periodic functions of queue.py, for a main loop that calls them.    *)

\* enforce_task_timeouts, for a task past the soft limit ...
SoftTimeout(t) ==
  /\ phase = "jobs" /\ "timeouts" \in Jobs
  /\ IsRunning(t) /\ ~RUNNING[t].soft
  /\ RUNNING' = [RUNNING EXCEPT ![t].soft = TRUE]
  /\ UNCHANGED <<PENDING, WORKERS, procVars, eventq, phase, todo, lock,
                 resume, pass, st, crashes, stepVars>>

\* (mutant) One retry too many.
RetriedOnceMore(task) == task.attempt <= MaxRetries + 1

Retried(task) == task.attempt <= MaxRetries

\* ... and past the hard limit: the worker is replaced, and the task is
\* queued once more, under a new id, while it has retries left.
HardTimeout(t) ==
  /\ phase = "jobs" /\ "timeouts" \in Jobs /\ lock = "free"
  /\ IsRunning(t)
  /\ LET m == RUNNING[t] IN
       /\ RUNNING' = [RUNNING EXCEPT ![t] = None]
       /\ IF m.wid \in WORKERS THEN Respawn(m.wid) ELSE UNCHANGED procVars
       /\ IF Retried(m.task)
          THEN \E r \in TaskId :
                 /\ Fresh(r)
                 /\ PENDING' = EnqueueFront(PENDING,
                      [m.task EXCEPT !.id = r, !.attempt = @ + 1])
          ELSE UNCHANGED PENDING
  /\ UNCHANGED <<WORKERS, eventq, phase, todo, lock, resume, pass, st,
                 crashes, stepVars>>

\* (mutant) The guard looks at the queue only.
IdleQueue == PendingEmpty

\* "if PENDING or RUNNING: return".
Idle == PendingEmpty /\ NothingRunning

\* enqueue_evolution_task_if_needed.  Its guard takes no lock.
EnqueueEvolution ==
  /\ phase = "jobs" /\ "evolution" \in Jobs
  /\ Idle /\ st.mode /\ OwnerKnown /\ PlanLeft
  /\ IF st.breaker \/ st.low
     THEN st' = [st EXCEPT !.mode = FALSE] /\ UNCHANGED <<phase, plan, raced>>
     ELSE UNCHANGED st /\ Planned("evolution")
  /\ UNCHANGED <<PENDING, RUNNING, WORKERS, procVars, eventq, todo, lock, resume,
                 pass, crashes, hand, kept>>

\* enqueue_health_check_if_needed, when its two hours have passed; no lock either.
EnqueueHealthCheck ==
  /\ phase = "jobs" /\ "health_check" \in Jobs
  /\ Idle /\ OwnerKnown /\ PlanLeft
  /\ Planned("health_check")
  /\ UNCHANGED <<PENDING, RUNNING, WORKERS, procVars, eventq, todo, lock, resume,
                 pass, st, crashes, hand, kept>>

EndJobs ==
  /\ phase = "jobs"
  /\ phase' = "poll"
  /\ UNCHANGED <<PENDING, RUNNING, WORKERS, procVars, eventq, todo, lock,
                 resume, pass, st, crashes, stepVars>>

\* update_budget_from_usage: the remaining budget falls below the reserve.
BudgetLow ==
  /\ "evolution" \in Jobs /\ ~st.low
  /\ st' = [st EXCEPT !.low = TRUE]
  /\ UNCHANGED <<PENDING, RUNNING, WORKERS, procVars, eventq, phase, todo,
                 lock, resume, pass, crashes, stepVars>>

-----------------------------------------------------------------------------

Worker(w) ==
  \/ Take(w)
  \/ \E k \in Requests, t \in TaskId \cup {None}, f \in BOOLEAN : Emit(w, k, t, f)
  \/ \E f \in BOOLEAN : Finish(w, f)
  \/ Raise(w)
  \/ Crash(w)

Assign ==
  \/ \E thread \in {"main", "resume"} : AssignBegin(thread)
  \/ \E w \in Wid : AssignWorker(w)
  \/ HandOver \/ AssignEnd

Handle ==
  \/ TaskDone \/ ScheduleTask \/ ReviewRequest \/ EnqueuePlanned
  \/ CancelTask \/ ToggleEvolution \/ ToggleWrite \/ RestartRequest

Health == (\E w \in Wid : HealthAlive(w) \/ HealthDead(w)) \/ HealthEnd

Periodic ==
  \/ \E t \in TaskId : SoftTimeout(t) \/ HardTimeout(t)
  \/ EnqueueEvolution \/ EnqueueHealthCheck \/ EndJobs

Next ==
  \/ \E t \in TaskId : Message(t)
  \/ EndPoll
  \/ \E t \in TaskId : ResumeEnqueue(t)
  \/ Assign \/ Handle \/ BeginHealth \/ EndDrain \/ Health \/ Periodic \/ BudgetLow
  \/ \E w \in Wid : Worker(w)

Spec == Init /\ [][Next]_vars

\* The main loop and the auto-resume thread run on, a live worker takes and
\* finishes its tasks, and a health pass comes again and again (every 300 s).
QuietSpec ==
  /\ Spec
  /\ WF_vars(EndPoll) /\ WF_vars(Assign) /\ WF_vars(Handle)
  /\ WF_vars(EndDrain) /\ WF_vars(Health) /\ WF_vars(EndJobs)
  /\ SF_vars(\E t \in TaskId : ResumeEnqueue(t))
  /\ SF_vars(AssignBegin("resume"))
  /\ SF_vars(BeginHealth)
  /\ \A w \in Wid : /\ WF_vars(Take(w))
                    /\ WF_vars(\E f \in BOOLEAN : Finish(w, f))

\* ... and the owner keeps writing.
FairSpec == QuietSpec /\ SF_vars(\E t \in TaskId : Message(t))

-----------------------------------------------------------------------------
(* Properties.                                                             *)

\* Type correctness of every variable.
TypeOK ==
  /\ PENDING \in [Class -> Seq(Task)]
  /\ RUNNING \in [TaskId -> Meta \cup {None}]
  /\ WORKERS \subseteq Wid
  /\ busy \in [Wid -> TaskId \cup {None}]
  /\ alive \in [Wid -> BOOLEAN]
  /\ inq \in [Wid -> Seq(Task)]
  /\ cur \in [Wid -> Task \cup {None}]
  /\ eventq \in Seq(Event)
  /\ phase \in Phase
  /\ todo \subseteq Wid
  /\ lock \in {"free", "main", "resume"}
  /\ resume \in Resume
  /\ pass \in [todo: SUBSET Wid, dead: Nat, busyCrash: BOOLEAN]
  /\ st \in SchedulingState
  /\ crashes \in Nat
  /\ hand \in Meta \cup {None}
  /\ kept \in [Class -> Seq(Task)]
  /\ plan \in Type \cup {None}
  /\ raced \subseteq {"toggle", "guard"}

\* A toggle_evolution has undone what the auto-resume thread did to the queue
\* between its two steps.
Overwritten == "toggle" \in raced

\* No task is run by two processes, or queued for another run while a process
\* still runs it: the requeue after a crash, the retry after a timeout and a
\* late task_done of a dead worker included.  Only the unlocked write of
\* toggle_evolution can put a task back that has been handed out.
OneExecutor ==
  ~Overwritten =>
    \A t \in TaskId, w \in Wid :
      Executing(w, t) => /\ ~InPending(t)
                         /\ \A v \in Wid : Executing(v, t) => v = w

\* Every RUNNING record names a worker that exists and is busy with that very
\* task ...
RecordsBusy ==
  \A t \in TaskId :
    IsRunning(t) => /\ RUNNING[t].wid \in WORKERS
                    /\ busy[RUNNING[t].wid] = t
                    /\ RUNNING[t].task.id = t

\* ... so the health check and a cancel can still find it.
RunningIsBusy == ~Overwritten => RecordsBusy

\* No id is twice in the queue, and none is both queued and handed out.
DistinctIds(q) ==
  \A c, d \in Class : \A i \in 1..Len(q[c]), j \in 1..Len(q[d]) :
    q[c][i].id = q[d][j].id => c = d /\ i = j

\* What the comment on _queue_lock promises, that it is the lock for all
\* mutations of PENDING, RUNNING and WORKERS, and so protects them against
\* concurrent access: no interleaving duplicates a task.
ListedOnce ==
  /\ DistinctIds(PENDING)
  /\ \A t \in TaskId : ~(InPending(t) /\ (IsRunning(t) \/ InHand(t)))

\* It holds as long as no toggle_evolution, which does not take the lock, has
\* undone a step of the auto-resume thread.
QueuedOnce == ~Overwritten => ListedOnce

\* The first event of the queue, about to be dispatched, is of this kind.
Says(kind) == phase = "drain" /\ eventq # <<>> /\ Head(eventq).kind = kind

\* The reasons for which the supervisor may stop answering for a task: it is
\* reported done, it is cancelled, the process restarts, a crash storm kills the
\* workers, evolution tasks are dropped, its retries are used up (before that
\* another task replaces it), or it was queued while toggle_evolution was
\* computing the list it now writes back.
Excused(t) ==
  \/ (Says("task_done") \/ Says("cancel_task")) /\ Head(eventq).id = t
  \/ Says("restart_request")
  \/ phase = "toggle" /\ kept # DropEvolution(PENDING) /\ ~Holds(kept, t)
  \/ phase = "health" /\ Storm
  \/ InPending(t) /\ InDeque(t, PENDING[Priority("evolution")])
  \/ /\ phase = "jobs" /\ IsRunning(t)
     /\ \/ RUNNING[t].task.attempt > MaxRetries
        \/ \E r \in TaskId : ~Tracked(r) /\ Tracked(r)'

\* A task leaves the supervisor's books for one of these reasons only.  No
\* crash of a worker at any moment and no late or repeated event loses one.
NoSilentLoss ==
  [][\A t \in TaskId : Tracked(t) /\ ~Tracked(t)' => Excused(t)]_vars

\* A cancel that finds its task ends it for good: it is neither queued nor
\* run by any process afterwards, whichever worker it had been given to and
\* whatever crashed before, unless a toggle had put a copy of it back.
CancelEndsTask ==
  [][\A t \in TaskId :
       /\ Says("cancel_task") /\ Head(eventq).id = t /\ eventq' = Tail(eventq)
       /\ Tracked(t) /\ ~Overwritten
       => ~Tracked(t)' /\ \A w \in Wid : ~Executing(w, t)']_vars

\* A task of this type waits in q under the id t.
Waits(q, type, t) ==
  \E c \in Class : \E i \in 1..Len(q[c]) : q[c][i].id = t /\ q[c][i].type = type

OfKind(type, t) ==
  \/ IsRunning(t) /\ RUNNING[t].task.type = type
  \/ InHand(t) /\ hand.task.type = type
  \/ Waits(PENDING, type, t)

GuardedType == {"review", "evolution", "health_check"}

\* A review, an evolution or a health check is never queued beside another of
\* its kind, a requeue after a crash or a timeout included, unless its guard
\* looked while the auto-resume thread held that other one between the queue and
\* RUNNING (or a toggle had undone a step of that thread).
OneOfAKind ==
  raced = {} =>
    \A type \in GuardedType : Cardinality({t \in TaskId : OfKind(type, t)}) <= 1

\* While the owner keeps writing, every accepted task is eventually answered,
\* cancelled or given up, although workers crash.
EveryTaskAnswered ==
  \A t \in TaskId : Tracked(t) ~> ~Tracked(t)

\* What prompts/SYSTEM.md says of schedule_task, that it launches a subtask: a
\* queued task is given to a worker, whether or not the owner writes again.
QueuedIsLaunched ==
  \A t \in TaskId : InPending(t) ~> ~InPending(t)

-----------------------------------------------------------------------------
(* The inductive invariant behind the safety properties.                   *)

\* The loop of assign_tasks visits existing workers, and only under the lock.
TodoUnderLock == todo \subseteq WORKERS /\ (lock = "free" => todo = {})

\* A task in hand is on its way to the worker the loop has come to.
HandUnderLock == hand # None => hand.wid \in todo

\* A guard's answer waits for the enqueue that uses it, and for nothing else; the
\* main loop holds the lock only while it assigns.
StepInPhase ==
  /\ plan # None <=> phase = "enqueue"
  /\ lock = "main" => phase = "assign"

\* RUNNING has a task under the id it had in the queue.
OwnRecords == \A t \in TaskId : IsRunning(t) => RUNNING[t].task.id = t

\* Two workers are never marked busy with the same task.
BusyOnce ==
  \A v, w \in Wid : busy[v] # None /\ busy[v] = busy[w] => v = w

\* Nobody is busy with, or executes, a task that waits in the queue or is in
\* hand; the worker of the latter is free and RUNNING does not know it.
PendingIsIdle ==
  /\ \A t \in TaskId : InPending(t) \/ InHand(t) =>
       \A w \in Wid : busy[w] # t /\ ~Executing(w, t)
  /\ hand # None => busy[hand.wid] = None /\ ~IsRunning(hand.task.id)

\* A running task is executed by the worker it was assigned to.
ExecutorIsAssignee ==
  \A t \in TaskId, w \in Wid :
    Executing(w, t) /\ IsRunning(t) => RUNNING[t].wid = w

\* A task is executed once at a time.
ExecutedOnce ==
  \A t \in TaskId, v, w \in Wid : Executing(v, t) /\ Executing(w, t) => v = w

\* The events that name a task name one.
EventsNameTasks ==
  \A i \in 1..Len(eventq) :
    eventq[i].kind \in {"task_done", "schedule_task", "cancel_task"}
      => eventq[i].id \in TaskId

\* No one in the supervisor or its workers knows the task.
Unknown(t) ==
  /\ ~Tracked(t)
  /\ \A w \in Wid : busy[w] # t /\ ~Executing(w, t)

\* A task about to be scheduled exists nowhere else, and in one event only.
ScheduledIsNew ==
  \A i \in 1..Len(eventq) : eventq[i].kind = "schedule_task" =>
    /\ Unknown(eventq[i].id)
    /\ \A j \in 1..Len(eventq) :
         eventq[j].kind = "schedule_task" /\ eventq[j].id = eventq[i].id => i = j

\* The books as they are while no toggle has undone anything.
Sound ==
  /\ RecordsBusy /\ ListedOnce /\ BusyOnce /\ PendingIsIdle
  /\ ExecutorIsAssignee /\ ExecutedOnce /\ ScheduledIsNew

\* The inductive invariant.
IInv ==
  /\ TypeOK /\ EventsNameTasks /\ TodoUnderLock /\ HandUnderLock /\ StepInPhase
  /\ OwnRecords
  /\ Overwritten \/ Sound

=============================================================================
