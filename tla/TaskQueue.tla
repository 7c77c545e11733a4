----------------------------- MODULE TaskQueue -----------------------------
(***************************************************************************)
(* The list PENDING of supervisor/queue.py with its sequence numbers and   *)
(* its sort, and queue_snapshot.json.  Every operation that takes a task   *)
(* out of the list saves a snapshot, assign_tasks only after the task is   *)
(* handed out; a message adds one and saves nothing.  The supervisor may   *)
(* die at any step, also between the two; the next process finds the       *)
(* snapshot, which may then hold a task a worker was given.                *)
(*                                                                         *)
(* restore_pending_from_snapshot is called by no module of the program:    *)
(* the process modelled here calls it first of all, while the auto-resume  *)
(* thread may already be queueing.                                         *)
(***************************************************************************)
EXTENDS Integers, Sequences, FiniteSets

CONSTANTS
  TaskId,   \* the uuids
  MaxSeq,   \* bound: values of the sequence counter in one process
  MayFail   \* whether writing the snapshot may fail

ASSUME TaskQueueAssumption ==
  MaxSeq \in Nat /\ MayFail \in BOOLEAN

VARIABLES
  PENDING,    \* the list of tasks waiting
  seqCounter, \* QUEUE_SEQ_COUNTER_REF["value"]
  running,    \* the tasks in RUNNING
  snapshot,   \* queue_snapshot.json: the pending rows and their age
  restoring,  \* rows restore_pending_from_snapshot has still to queue
  booted,     \* whether restore_pending_from_snapshot has returned
  resume,     \* where the auto-resume thread is
  unsaved,    \* whether assign_tasks has still to save what it handed out
  taken       \* ids that left the list (history)

vars == <<PENDING, seqCounter, running, snapshot, restoring, booted,
          resume, unsaved, taken>>

-----------------------------------------------------------------------------

Type == {"task", "evolution", "health_check"}
Class == 0..2

TypeClass(type) == CASE type = "task" -> 0
                     [] type = "evolution" -> 1
                     [] OTHER -> 2

Item == [id: TaskId, type: Type]

Queued == [id: TaskId, type: Type, seq: Int]

Strip(t) == [id |-> t.id, type |-> t.type]

Rows(q) == [i \in 1..Len(q) |-> Strip(q[i])]

Ids(q) == {q[i].id : i \in 1..Len(q)}

\* _queue_sort_key.
Before(a, b) ==
  \/ TypeClass(a.type) < TypeClass(b.type)
  \/ TypeClass(a.type) = TypeClass(b.type) /\ a.seq < b.seq

\* PENDING.sort is stable: which of two places of q comes first.
InFront(q, i, j) == Before(q[i], q[j]) \/ (~Before(q[j], q[i]) /\ i < j)

Rank(q, i) == Cardinality({j \in 1..Len(q) : j = i \/ InFront(q, j, i)})

sort_pending(q) ==
  [k \in 1..Len(q) |-> q[CHOOSE i \in 1..Len(q) : Rank(q, i) = k]]

\* The elements of q at the places in S, in their order.
Kth(S, k) == CHOOSE i \in S : Cardinality({j \in S : j <= i}) = k

At(q, S) == [k \in 1..Cardinality(S) |-> q[Kth(S, k)]]

\* (mutant) A front task whose number is not negated.
Unsigned(front) == seqCounter + 1

SequenceNumber(front) == IF front THEN -(seqCounter + 1) ELSE seqCounter + 1

\* enqueue_task: a task that comes back gets a new number.  The lock is free
\* once assign_tasks has saved.
Enqueue(item, front) ==
  /\ ~unsaved
  /\ seqCounter < MaxSeq
  /\ seqCounter' = seqCounter + 1
  /\ PENDING' = sort_pending(Append(PENDING,
       [id |-> item.id, type |-> item.type, seq |-> SequenceNumber(front)]))

\* persist_queue_snapshot: the file is replaced atomically; a failure is
\* logged and the old file stays.
Save(q) ==
  \/ snapshot' = [rows |-> Rows(q), fresh |-> TRUE]
  \/ MayFail /\ UNCHANGED snapshot

Known(t) == t \in Ids(PENDING) \cup Ids(restoring) \cup taken \cup Ids(snapshot.rows)

-----------------------------------------------------------------------------

Init ==
  /\ PENDING = <<>> /\ seqCounter = 0 /\ running = {}
  /\ snapshot = [rows |-> <<>>, fresh |-> FALSE]
  /\ restoring = <<>> /\ booted = FALSE /\ resume = "sleep"
  /\ unsaved = FALSE /\ taken = {}

\* restore_pending_from_snapshot gives up if a task is queued already, or the
\* file is missing or older than 15 minutes.
RestoreBegin ==
  /\ ~booted /\ restoring = <<>>
  /\ IF PENDING = <<>> /\ snapshot.fresh /\ snapshot.rows # <<>>
     THEN restoring' = snapshot.rows /\ UNCHANGED booted
     ELSE booted' = TRUE /\ UNCHANGED restoring
  /\ UNCHANGED <<PENDING, seqCounter, running, snapshot, resume, unsaved, taken>>

\* (mutant) Restored tasks go to the front.
RestoredInFront == TRUE

RestoredAt == FALSE

RestoreRow ==
  /\ restoring # <<>>
  /\ Enqueue(Head(restoring), RestoredAt)
  /\ restoring' = Tail(restoring)
  /\ booted' = (Tail(restoring) = <<>>)
  /\ IF Tail(restoring) = <<>> THEN Save(PENDING') ELSE UNCHANGED snapshot
  /\ UNCHANGED <<running, resume, unsaved, taken>>

\* A message of the owner: not saved.
NewMessage(t) ==
  /\ booted /\ ~Known(t)
  /\ Enqueue([id |-> t, type |-> "task"], FALSE)
  /\ UNCHANGED <<running, snapshot, restoring, booted, resume, unsaved, taken>>

\* The auto-resume thread queues its task, not saved either, and assigns.
AutoResume(t) ==
  /\ resume = "sleep" /\ ~Known(t)
  /\ Enqueue([id |-> t, type |-> "task"], FALSE)
  /\ resume' = "assign"
  /\ UNCHANGED <<running, snapshot, restoring, booted, unsaved, taken>>

AutoResumeEnd ==
  /\ resume = "assign"
  /\ resume' = "done"
  /\ UNCHANGED <<PENDING, seqCounter, running, snapshot, restoring, booted,
                 unsaved, taken>>

\* A scheduled task, a review or a system task.
Schedule(t, type) ==
  /\ booted /\ ~Known(t)
  /\ Enqueue([id |-> t, type |-> type], FALSE)
  /\ Save(PENDING')
  /\ UNCHANGED <<running, restoring, booted, resume, unsaved, taken>>

\* The task of a dead worker goes back to the queue; a task past the hard
\* timeout comes back under a new id.
Requeue(item, t) ==
  /\ booted
  /\ item \in running /\ (t = item.id \/ ~Known(t))
  /\ running' = running \ {item}
  /\ taken' = taken \ {t}
  /\ Enqueue([item EXCEPT !.id = t], TRUE)
  /\ Save(PENDING')
  /\ UNCHANGED <<restoring, booted, resume, unsaved>>

Without(q, k) == SubSeq(q, 1, k - 1) \o SubSeq(q, k + 1, Len(q))

\* assign_tasks: the first candidate, evolution tasks skipped while the budget
\* is low, is handed to a worker ...
Assign(low) ==
  \E k \in 1..Len(PENDING) :
    /\ ~unsaved /\ (booted \/ resume = "assign")
    /\ ~(low /\ PENDING[k].type = "evolution")
    /\ \A j \in 1..(k - 1) : low /\ PENDING[j].type = "evolution"
    /\ PENDING' = Without(PENDING, k)
    /\ running' = running \cup {Strip(PENDING[k])}
    /\ taken' = taken \cup {PENDING[k].id}
    /\ unsaved' = TRUE
    /\ UNCHANGED <<seqCounter, snapshot, restoring, booted, resume>>

\* ... and the snapshot follows, once the owner has been told of it.
SaveAssigned ==
  /\ unsaved
  /\ Save(PENDING)
  /\ unsaved' = FALSE
  /\ UNCHANGED <<PENDING, seqCounter, running, restoring, booted, resume, taken>>

\* cancel_task_by_id on the queue: the first task with the id.
Cancel(t) ==
  /\ booted /\ ~unsaved
  /\ \E k \in 1..Len(PENDING) :
       /\ PENDING[k].id = t /\ \A j \in 1..(k - 1) : PENDING[j].id # t
       /\ PENDING' = Without(PENDING, k)
       /\ taken' = taken \cup {t}
       /\ Save(PENDING')
  /\ UNCHANGED <<seqCounter, running, restoring, booted, resume, unsaved>>

\* Evolution tasks are filtered out: the mode is switched off, or only they
\* are left and the budget is low.  (What the auto-resume thread can do while
\* the filter runs is in Supervisor.)
DropEvolution ==
  /\ booted
  /\ PENDING' = At(PENDING, {i \in 1..Len(PENDING) : PENDING[i].type # "evolution"})
  /\ taken' = taken \cup {t \in Ids(PENDING) : t \notin Ids(PENDING')}
  /\ Save(PENDING')
  /\ UNCHANGED <<seqCounter, running, restoring, booted, resume, unsaved>>

Done(item) ==
  /\ booted /\ item \in running
  /\ running' = running \ {item}
  /\ Save(PENDING)
  /\ UNCHANGED <<PENDING, seqCounter, restoring, booted, resume, unsaved, taken>>

\* The process ends and its memory is lost.
Forget ==
  /\ PENDING' = <<>> /\ seqCounter' = 0 /\ running' = {}
  /\ restoring' = <<>> /\ booted' = FALSE /\ resume' = "sleep"
  /\ unsaved' = FALSE /\ UNCHANGED taken

\* A crash, at any moment.
Crash == Forget /\ UNCHANGED snapshot

\* A restart that was asked for: kill_workers empties RUNNING and saves first.
Restart ==
  /\ booted /\ ~unsaved
  /\ Save(PENDING)
  /\ Forget

\* Fifteen minutes pass.
Expire ==
  /\ snapshot.fresh
  /\ snapshot' = [snapshot EXCEPT !.fresh = FALSE]
  /\ UNCHANGED <<PENDING, seqCounter, running, restoring, booted, resume,
                 unsaved, taken>>

Next ==
  \/ RestoreBegin \/ RestoreRow
  \/ \E t \in TaskId : NewMessage(t) \/ AutoResume(t) \/ Cancel(t)
  \/ AutoResumeEnd
  \/ \E t \in TaskId, type \in Type : Schedule(t, type)
  \/ \E t \in TaskId, item \in Item : Requeue(item, t)
  \/ \E low \in BOOLEAN : Assign(low)
  \/ \E item \in Item : Done(item)
  \/ SaveAssigned \/ DropEvolution \/ Crash \/ Restart \/ Expire

Spec == Init /\ [][Next]_vars

-----------------------------------------------------------------------------
(* Properties.                                                             *)

\* The places of the tasks of a class.
OfClass(q, c) == {i \in 1..Len(q) : TypeClass(q[i].type) = c}

\* The list, its numbers and its sort are the deques the supervisor relies on:
\* requeued tasks overtake their class and nothing else overtakes anything.
Deque == INSTANCE Deques WITH
  ClassOf <- [item \in Item |-> TypeClass(item.type)],
  Skipped <- TypeClass("evolution"),
  held <- running,
  deque <- [c \in Class |-> Rows(At(PENDING, OfClass(PENDING, c)))]

ImplementsDeques == Deque!Spec

\* While a snapshot is restored, the tasks it saved stand in the queue in the
\* order they had, before anything queued meanwhile in their class has a chance
\* to overtake those already there.
RestoreKeepsOrder ==
  restoring # <<>> =>
    \A i, j \in 1..Len(snapshot.rows), k, l \in 1..Len(PENDING) :
      /\ i < j
      /\ PENDING[k].id = snapshot.rows[i].id
      /\ PENDING[l].id = snapshot.rows[j].id
      => k < l

-----------------------------------------------------------------------------
(* The inductive invariant of the proofs.                                  *)

TypeOK ==
  /\ PENDING \in Seq(Queued) /\ seqCounter \in 0..MaxSeq /\ running \subseteq Item
  /\ snapshot \in [rows : Seq(Item), fresh : BOOLEAN]
  /\ restoring \in Seq(Item) /\ booted \in BOOLEAN /\ unsaved \in BOOLEAN
  /\ resume \in {"sleep", "assign", "done"} /\ taken \subseteq TaskId

\* The list is sorted, and no number in it is one that is still to come.
Sorted ==
  /\ \A i, j \in 1..Len(PENDING) : i < j => Before(PENDING[i], PENDING[j])
  /\ \A i \in 1..Len(PENDING) :
       -seqCounter <= PENDING[i].seq /\ PENDING[i].seq <= seqCounter

NoRepeat(q) == \A i, j \in 1..Len(q) : q[i].id = q[j].id => i = j

\* A task waits, is still to be restored, or runs, in one place only.
OnePlace ==
  /\ NoRepeat(PENDING) /\ NoRepeat(restoring)
  /\ \A a, b \in running : a.id = b.id => a = b
  /\ Ids(PENDING) \cap Ids(restoring) = {}
  /\ \A a \in running : a.id \in taken \ (Ids(PENDING) \cup Ids(restoring))

\* The snapshot is of a list like this.
Saved ==
  /\ NoRepeat(snapshot.rows)
  /\ \A i, j \in 1..Len(snapshot.rows) :
       i < j => TypeClass(snapshot.rows[i].type) <= TypeClass(snapshot.rows[j].type)

\* Before the restore there is at most the task of the auto-resume thread.
BeforeRestore ==
  /\ booted => restoring = <<>>
  /\ ~booted /\ restoring = <<>> =>
       /\ Len(PENDING) <= 1
       /\ resume = "sleep" \/ unsaved => PENDING = <<>>
       /\ unsaved => resume # "sleep"
       /\ Ids(snapshot.rows) \cap (Ids(PENDING) \cup {a.id : a \in running}) = {}

\* What is restored is the rest of the snapshot, unless a snapshot of what was
\* restored so far has replaced it.
Restoring ==
  restoring # <<>> =>
    /\ \A i \in 1..Len(snapshot.rows), k \in 1..Len(PENDING) :
         PENDING[k].id = snapshot.rows[i].id => PENDING[k].type = snapshot.rows[i].type
    /\ \/ Ids(snapshot.rows) \cap Ids(restoring) = {}
       \/ /\ Len(restoring) <= Len(snapshot.rows)
          /\ \A j \in 1..Len(restoring) :
               restoring[j] = snapshot.rows[Len(snapshot.rows) - Len(restoring) + j]

IInv ==
  /\ TypeOK /\ Sorted /\ OnePlace /\ Saved /\ BeforeRestore
  /\ Restoring /\ RestoreKeepsOrder

=============================================================================
