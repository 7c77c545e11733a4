-------------------------- MODULE MCConsciousness --------------------------
(* Consciousness on a small instance.                                      *)
EXTENDS Consciousness

\* What any later step depends on: not the events that have left a thought, which
\* nothing reads, nor what a thought that is over has left behind.
View ==
  <<control, wakeup, pc, deferred = <<>>, spent, emitted,
    [th \in Thread |-> IF Thinking(th) THEN <<round[th], pending[th]>> ELSE <<>>],
    IF \E th \in Thread : Thinking(th) THEN ctxEvents ELSE <<>>>>

=============================================================================
