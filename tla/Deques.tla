------------------------------- MODULE Deques -------------------------------
(***************************************************************************)
(* What the task queue promises to the rest of the supervisor: one deque   *)
(* per priority class.  A new task goes to the back of its class, a task   *)
(* that was interrupted to the front, and a worker gets the first task of  *)
(* the most urgent class, except that the class of evolution tasks may be  *)
(* passed over.  Any task may be withdrawn, and a restart loses them all.  *)
(***************************************************************************)
EXTENDS Naturals, Sequences

CONSTANTS
  Item,         \* the tasks
  Class,        \* the priority classes, the smallest first
  ClassOf,      \* the class of each task
  Skipped       \* the class that may be passed over

VARIABLES
  deque,   \* class -> tasks waiting
  held     \* the tasks handed out and not finished

Init == deque = [c \in Class |-> <<>>] /\ held = {}

New(i) ==
  /\ deque' = [deque EXCEPT ![ClassOf[i]] = Append(@, i)]
  /\ UNCHANGED held

\* A task that was handed out comes back, perhaps under another name.
Return(i, j) ==
  /\ i \in held /\ ClassOf[j] = ClassOf[i]
  /\ held' = held \ {i}
  /\ deque' = [deque EXCEPT ![ClassOf[j]] = <<j>> \o @]

Serve(c) ==
  /\ deque[c] # <<>>
  /\ \A d \in Class : d < c => deque[d] = <<>> \/ d = Skipped
  /\ held' = held \cup {Head(deque[c])}
  /\ deque' = [deque EXCEPT ![c] = Tail(@)]

Finish(i) ==
  /\ held' = held \ {i}
  /\ UNCHANGED deque

Withdraw(c, k) ==
  /\ deque' = [deque EXCEPT ![c] = SubSeq(@, 1, k - 1) \o SubSeq(@, k + 1, Len(@))]
  /\ UNCHANGED held

Drop ==
  /\ deque' = [deque EXCEPT ![Skipped] = <<>>]
  /\ UNCHANGED held

Lose == deque' = [c \in Class |-> <<>>] /\ held' = {}

Next ==
  \/ \E i \in Item : New(i) \/ Finish(i)
  \/ \E i, j \in Item : Return(i, j)
  \/ \E c \in Class : Serve(c)
  \/ \E c \in Class : \E k \in 1..Len(deque[c]) : Withdraw(c, k)
  \/ Drop \/ Lose

Spec == Init /\ [][Next]_<<deque, held>>

=============================================================================
