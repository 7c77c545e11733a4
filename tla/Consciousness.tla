--------------------------- MODULE Consciousness ---------------------------
(***************************************************************************)
(* The background consciousness (ouroboros/consciousness.py): a thread     *)
(* of the launcher that sleeps, wakes and thinks.  Thinking is a series of *)
(* rounds, a call of the model and the tools it asks for; the events of    *)
(* the tools are forwarded when the thought ends.                          *)
(*                                                                         *)
(* start and stop are called by the main loop.  pause and resume have no   *)
(* caller; Pauses says whether the main loop calls them.  An action is the *)
(* code between two accesses to what the threads share.                    *)
(***************************************************************************)
EXTENDS Naturals, Sequences, FiniteSets

CONSTANTS
  Thread,     \* the threads start() creates, each once
  None,       \* no thread
  Budget,     \* what TOTAL_BUDGET holds: "amount", "zero" (or less), or
              \* "unreadable", a text like $50 that float() refuses
  MaxBg,      \* the share of it for background thinking, in units of cost
  MaxCost,    \* bound: what one call of the model costs at most
  MaxRounds,  \* _MAX_BG_ROUNDS
  MaxEvents,  \* bound: events that the tools emit in a behaviour
  Pauses,     \* whether the main loop calls pause and resume
  Fails,      \* whether a call of the model may raise
  Hangs       \* whether a tool may never return

ASSUME ConsciousnessAssumption ==
  /\ IsFiniteSet(Thread) /\ None \notin Thread
  /\ Budget \in {"amount", "zero", "unreadable"}
  /\ MaxBg \in Nat /\ MaxCost \in Nat /\ MaxEvents \in Nat
  /\ MaxRounds \in Nat \ {0}
  /\ Pauses \in BOOLEAN /\ Fails \in BOOLEAN /\ Hangs \in BOOLEAN

VARIABLES
  on,        \* _running
  paused,    \* _paused
  stop,      \* _stop_event is set
  wakeup,    \* _wakeup_event is set
  thread,    \* _thread
  pc,        \* where each thread is
  round,     \* round_idx of each thread
  pending,   \* all_pending_events of each thread
  ctxEvents, \* pending_events of the tool context, which the threads share
  deferred,  \* _deferred_events
  queue,     \* _event_queue
  spent,     \* _bg_spent_usd
  emitted,   \* events the tools have emitted so far
  main       \* where the main loop is in resume

vars == <<on, paused, stop, wakeup, thread, pc, round, pending, ctxEvents,
          deferred, queue, spent, emitted, main>>

control == <<on, paused, stop, thread, main>>

Place == {"unborn", "test", "clear", "wait", "awake", "ask", "reply", "tool",
          "run", "collect", "hang", "hand", "defer", "exited"}

Alive(th) == pc[th] \notin {"unborn", "exited"}

Thinking(th) == pc[th] \in {"ask", "reply", "tool", "run", "collect", "hang",
                           "hand", "defer"}

\* Without an amount, and when reading it raises, every call is in budget.
InBudget == Budget = "amount" => spent < MaxBg

is_running == on /\ thread # None /\ Alive(thread)

Init ==
  /\ on = FALSE /\ paused = FALSE /\ stop = FALSE /\ wakeup = FALSE
  /\ thread = None
  /\ pc = [th \in Thread |-> "unborn"]
  /\ round = [th \in Thread |-> 0]
  /\ pending = [th \in Thread |-> <<>>]
  /\ ctxEvents = <<>> /\ deferred = <<>> /\ queue = <<>>
  /\ spent = 0 /\ emitted = 0
  /\ main = "idle"

-----------------------------------------------------------------------------
(* The main loop.                                                          *)

Start(th) ==
  /\ main = "idle"
  /\ ~is_running
  /\ pc[th] = "unborn"
  /\ on' = TRUE /\ paused' = FALSE /\ stop' = FALSE
  /\ thread' = th
  /\ pc' = [pc EXCEPT ![th] = "test"]
  /\ UNCHANGED <<wakeup, round, pending, ctxEvents, deferred, queue, spent, emitted, main>>

\* (mutant) stop forgets the stop event.
StopFlagOnly ==
  /\ main = "idle"
  /\ is_running
  /\ on' = FALSE /\ wakeup' = TRUE
  /\ UNCHANGED <<paused, stop, thread, pc, round, pending, ctxEvents, deferred,
                 queue, spent, emitted, main>>

Stop ==
  /\ main = "idle"
  /\ is_running
  /\ on' = FALSE /\ stop' = TRUE /\ wakeup' = TRUE
  /\ UNCHANGED <<paused, thread, pc, round, pending, ctxEvents, deferred, queue, spent,
                 emitted, main>>

Pause ==
  /\ Pauses /\ main = "idle"
  /\ paused' = TRUE
  /\ UNCHANGED <<on, stop, wakeup, thread, pc, round, pending, ctxEvents,
                 deferred, queue, spent, emitted, main>>

\* resume puts the deferred events on the queue, ...
ResumeFlush ==
  /\ Pauses /\ main = "idle"
  /\ queue' = queue \o deferred
  /\ main' = IF deferred = <<>> THEN "wake" ELSE "clear"
  /\ UNCHANGED <<on, paused, stop, wakeup, thread, pc, round, pending, ctxEvents, deferred,
                 spent, emitted>>

\* ... clears their list, ...
ResumeClear ==
  /\ main = "clear"
  /\ deferred' = <<>>
  /\ main' = "wake"
  /\ UNCHANGED <<on, paused, stop, wakeup, thread, pc, round, pending, ctxEvents, queue,
                 spent, emitted>>

\* ... and wakes the thread.
ResumeWake ==
  /\ main = "wake"
  /\ paused' = FALSE /\ wakeup' = TRUE
  /\ main' = "idle"
  /\ UNCHANGED <<on, stop, thread, pc, round, pending, ctxEvents, deferred, queue, spent,
                 emitted>>

-----------------------------------------------------------------------------
(* The threads.                                                            *)

Goto(th, place) == pc' = [pc EXCEPT ![th] = place]

Test(th) ==
  /\ pc[th] = "test"
  /\ Goto(th, IF stop THEN "exited" ELSE "clear")
  /\ UNCHANGED <<control, wakeup, round, pending, ctxEvents, deferred, queue, spent, emitted>>

Clear(th) ==
  /\ pc[th] = "clear"
  /\ wakeup' = FALSE
  /\ Goto(th, "wait")
  /\ UNCHANGED <<control, round, pending, ctxEvents, deferred, queue, spent, emitted>>

\* The wait ends: the event is set, or _next_wakeup_sec have passed.
Wake(th) ==
  /\ pc[th] = "wait" /\ wakeup
  /\ Goto(th, "awake")
  /\ UNCHANGED <<control, wakeup, round, pending, ctxEvents, deferred, queue, spent, emitted>>

Timeout(th) ==
  /\ pc[th] = "wait" /\ ~wakeup
  /\ Goto(th, "awake")
  /\ UNCHANGED <<control, wakeup, round, pending, ctxEvents, deferred, queue, spent, emitted>>

Think(th) ==
  /\ pc[th] = "awake"
  /\ IF stop THEN Goto(th, "exited")
     ELSE Goto(th, IF ~paused /\ InBudget THEN "ask" ELSE "test")
  /\ round' = [round EXCEPT ![th] = 1]
  /\ pending' = [pending EXCEPT ![th] = <<>>]
  /\ UNCHANGED <<control, wakeup, ctxEvents, deferred, queue, spent, emitted>>

\* The top of a round; the model is called unless the thread is paused.
Ask(th) ==
  /\ pc[th] = "ask"
  /\ Goto(th, IF paused THEN "hand" ELSE "reply")
  /\ UNCHANGED <<control, wakeup, round, pending, ctxEvents, deferred, queue, spent, emitted>>

\* (mutant) After a call the budget is not looked at.
AffordsMore == TRUE

AffordsRound == InBudget'

\* The reply is paid for; it asks for tools or is the end of the thought.
Reply(th) ==
  /\ pc[th] = "reply"
  /\ \E cost \in 0..MaxCost : spent' = spent + cost
  /\ \/ Goto(th, "hand")
     \/ AffordsRound /\ ~paused /\ Goto(th, "tool")
  /\ UNCHANGED <<control, wakeup, round, pending, ctxEvents, deferred, queue, emitted>>

\* The call raises: _think logs it and returns.
ReplyFails(th) ==
  /\ Fails
  /\ pc[th] = "reply"
  /\ Goto(th, "test")
  /\ UNCHANGED <<control, wakeup, round, pending, ctxEvents, deferred, queue, spent, emitted>>

\* (mutant) What earlier tools left in the context stays there.
ToolKeepsList(th) ==
  /\ pc[th] = "tool"
  /\ Goto(th, "run")
  /\ UNCHANGED <<control, wakeup, round, pending, ctxEvents, deferred, queue, spent, emitted>>

\* A tool starts with an empty list in the context, ...
ToolBegin(th) ==
  /\ pc[th] = "tool"
  /\ ctxEvents' = <<>>
  /\ Goto(th, "run")
  /\ UNCHANGED <<control, wakeup, round, pending, deferred, queue, spent, emitted>>

\* ... adds an event to it, or none, and returns, ...
ToolRuns(th) ==
  /\ pc[th] = "run"
  /\ \/ UNCHANGED <<emitted, ctxEvents>>
     \/ /\ emitted < MaxEvents
        /\ emitted' = emitted + 1
        /\ ctxEvents' = Append(ctxEvents, emitted')
  /\ Goto(th, "collect")
  /\ UNCHANGED <<control, wakeup, round, pending, deferred, queue, spent>>

\* ... or never returns.  After 30 seconds its result is given up, but the
\* executor's with block still waits for it.
ToolHangs(th) ==
  /\ Hangs
  /\ pc[th] = "run"
  /\ Goto(th, "hang")
  /\ UNCHANGED <<control, wakeup, round, pending, ctxEvents, deferred, queue, spent, emitted>>

\* What is in the context is the thread's; the next round begins.
Collect(th) ==
  /\ pc[th] = "collect"
  /\ pending' = [pending EXCEPT ![th] = @ \o ctxEvents]
  /\ IF round[th] < MaxRounds
     THEN Goto(th, "ask") /\ round' = [round EXCEPT ![th] = @ + 1]
     ELSE Goto(th, "hand") /\ UNCHANGED round
  /\ UNCHANGED <<control, wakeup, ctxEvents, deferred, queue, spent, emitted>>

\* The thought ends; its events are forwarded, or kept while paused.
Hand(th) ==
  /\ pc[th] = "hand"
  /\ IF pending[th] # <<>> /\ paused
     THEN Goto(th, "defer") /\ UNCHANGED <<queue, deferred, pending>>
     ELSE /\ queue' = queue \o pending[th]
          /\ Goto(th, "test")
          /\ pending' = [pending EXCEPT ![th] = <<>>]
          /\ UNCHANGED deferred
  /\ UNCHANGED <<control, wakeup, round, ctxEvents, spent, emitted>>

Defer(th) ==
  /\ pc[th] = "defer"
  /\ deferred' = deferred \o pending[th]
  /\ pending' = [pending EXCEPT ![th] = <<>>]
  /\ Goto(th, "test")
  /\ UNCHANGED <<control, wakeup, round, ctxEvents, queue, spent, emitted>>

-----------------------------------------------------------------------------

Main ==
  \/ \E th \in Thread : Start(th)
  \/ Stop \/ Pause
  \/ ResumeFlush \/ ResumeClear \/ ResumeWake

Loop(th) ==
  \/ Test(th) \/ Clear(th) \/ Wake(th) \/ Timeout(th) \/ Think(th) \/ Ask(th)
  \/ Reply(th) \/ ReplyFails(th) \/ ToolBegin(th) \/ ToolRuns(th)
  \/ ToolHangs(th) \/ Collect(th) \/ Hand(th) \/ Defer(th)

Next == Main \/ \E th \in Thread : Loop(th)

Spec == Init /\ [][Next]_vars

\* The threads run on, and a wait always ends: Timeout is part of Loop.
FairSpec == Spec /\ \A th \in Thread : WF_vars(Loop(th))

-----------------------------------------------------------------------------
(* Properties.                                                             *)

\* The budget is exceeded by less than one call of the model for each thread
\* that was ever started.
BudgetKept ==
  spent > 0 => spent < MaxBg + MaxCost * Cardinality({th \in Thread : pc[th] # "unborn"})

\* With an amount to check against, background thinking keeps its budget up to
\* a call for each thread: the check before a thought and the one after every
\* call leave no other gap.
OverspendBound == Budget = "amount" => BudgetKept

\* "Accumulate events across all tool calls": a thought gathers each event at
\* most once and in the order of emission, although another loop empties the
\* list of the context, or adds to it, while a tool runs.
EventsInOrder ==
  \A th \in Thread : \A i, j \in 1..Len(pending[th]) :
    i < j => pending[th][i] < pending[th][j]

\* A stopped consciousness ends its threads, whatever they are thinking of and
\* wherever they sleep, unless it is started again or a tool never returns.
StopEndsLoop ==
  \A th \in Thread : ~on /\ Alive(th) ~> on \/ ~Alive(th) \/ pc[th] = "hang"

=============================================================================
