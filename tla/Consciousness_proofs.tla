------------------------ MODULE Consciousness_proofs ------------------------
(***************************************************************************)
(* The budget of the background consciousness holds for any number of      *)
(* threads, any price of a call and any number of rounds, provided that    *)
(* there is an amount to check against.  What a thought gathers is in      *)
(* order, for any number of threads that share the list of the context.    *)
(***************************************************************************)
EXTENDS Consciousness, FiniteSetTheorems, TLAPS

\* The threads that may still be charged once without a look at the budget,
\* and the started ones that may not.
Flying == {th \in Thread :
             pc[th] \in {"ask", "reply", "tool", "run", "collect", "hang"}}

Landed == {th \in Thread : pc[th] # "unborn"} \ Flying

BudgetTypes ==
  /\ pc \in [Thread -> Place]
  /\ spent \in Nat

\* Every landed thread has overdrawn the budget by at most one call; without an
\* amount nothing is out of budget and the rest says nothing.
BudgetInv ==
  /\ BudgetTypes
  /\ spent > 0 /\ ~InBudget => spent < MaxBg + MaxCost * Cardinality(Landed)
  /\ Budget = "amount" /\ MaxBg = 0 => Flying = {}

-----------------------------------------------------------------------------

LEMMA LandedFinite ==
  /\ IsFiniteSet(Landed) /\ Cardinality(Landed) \in Nat
  /\ IsFiniteSet({th \in Thread : pc[th] # "unborn"})
  /\ Cardinality({th \in Thread : pc[th] # "unborn"}) \in Nat
<1> DEFINE S == {th \in Thread : pc[th] # "unborn"}
<1>1. IsFiniteSet(S) BY FS_Subset, ConsciousnessAssumption DEF ConsciousnessAssumption
<1>2. IsFiniteSet(Landed) BY <1>1, FS_Subset DEF Landed
<1> QED BY <1>1, <1>2, FS_CardinalityType

\* A larger set of landed threads allows at least as much.
LEMMA AllowsMore ==
  ASSUME NEW A, NEW B, IsFiniteSet(B), A \subseteq B
  PROVE  /\ Cardinality(A) \in Nat /\ Cardinality(B) \in Nat
         /\ MaxCost * Cardinality(A) \in Nat
         /\ MaxCost * Cardinality(A) <= MaxCost * Cardinality(B)
<1>1. /\ IsFiniteSet(A) /\ Cardinality(A) <= Cardinality(B)
  BY FS_Subset
<1>2. Cardinality(A) \in Nat /\ Cardinality(B) \in Nat BY <1>1, FS_CardinalityType
<1>3. MaxCost \in Nat BY ConsciousnessAssumption DEF ConsciousnessAssumption
<1>4. ASSUME NEW c \in Nat, NEW a \in Nat, NEW b \in Nat, a <= b
      PROVE c * a <= c * b /\ c * a \in Nat
  <2>1. PICK d \in Nat : b = a + d BY <1>4
  <2>2. c * b = c * a + c * d BY <2>1
  <2>3. c * a \in Nat /\ c * d \in Nat OBVIOUS
  <2> QED BY <2>2, <2>3
<1> QED BY <1>1, <1>2, <1>3, <1>4

\* What every step but a reply does: it costs nothing, no thread takes off
\* beyond the budget and none that has landed is forgotten.
Free ==
  /\ spent' = spent
  /\ pc' \in [Thread -> Place]
  /\ InBudget \/ Flying' \subseteq Flying
  /\ Landed \subseteq Landed' \/ InBudget

LEMMA FreeStep ==
  ASSUME BudgetInv, Free
  PROVE  BudgetInv'
<1> USE ConsciousnessAssumption DEF ConsciousnessAssumption
<1>1. BudgetTypes' BY DEF BudgetInv, BudgetTypes, Free
<1>2. Budget = "amount" /\ MaxBg = 0 => Flying' = {}
  BY DEF BudgetInv, BudgetTypes, Free, InBudget
<1>3. ASSUME spent' > 0, ~InBudget'
      PROVE spent' < MaxBg + MaxCost * Cardinality(Landed')
  <2>1. ~InBudget /\ spent > 0 BY <1>3 DEF Free, InBudget
  <2>2. spent < MaxBg + MaxCost * Cardinality(Landed) BY <2>1 DEF BudgetInv
  <2>3. Landed \subseteq Landed' BY <2>1 DEF Free
  <2>4. IsFiniteSet(Landed')
    <3>1. Landed' \subseteq Thread BY DEF Landed
    <3> QED BY <3>1, FS_Subset
  <2>5. /\ MaxCost * Cardinality(Landed) <= MaxCost * Cardinality(Landed')
        /\ MaxCost * Cardinality(Landed) \in Nat
        /\ Cardinality(Landed') \in Nat
    BY <2>3, <2>4, AllowsMore
  <2>6. MaxCost * Cardinality(Landed') \in Nat
    BY <2>4, AllowsMore
  <2> QED BY <2>2, <2>5, <2>6, <1>1 DEF BudgetTypes, BudgetInv, Free
<1> QED BY <1>1, <1>2, <1>3 DEF BudgetInv

\* A reply is paid: beyond the budget the thread that pays it lands.
LEMMA ReplyStep ==
  ASSUME BudgetInv, NEW th \in Thread, Reply(th)
  PROVE  BudgetInv'
<1> USE ConsciousnessAssumption DEF ConsciousnessAssumption
<1>1. PICK cost \in 0..MaxCost : spent' = spent + cost BY DEF Reply
<1>2. pc[th] = "reply" /\ pc' \in [Thread -> Place]
  BY DEF Reply, Goto, BudgetInv, BudgetTypes, Place
<1>3. BudgetTypes' BY <1>1, <1>2 DEF BudgetInv, BudgetTypes
<1>4. Budget = "amount" => MaxBg # 0 BY <1>2 DEF BudgetInv, Flying
<1>5. ASSUME ~InBudget'
      PROVE spent' < MaxBg + MaxCost * Cardinality(Landed')
  <2>1. pc' = [pc EXCEPT ![th] = "hand"] BY <1>5 DEF Reply, Goto, AffordsRound
  <2>2. Landed' = Landed \cup {th} /\ th \notin Landed
    BY <2>1, <1>2 DEF Landed, Flying, BudgetInv, BudgetTypes
  <2>3. IsFiniteSet(Landed) /\ Cardinality(Landed) \in Nat BY LandedFinite
  <2>4. Cardinality(Landed') = Cardinality(Landed) + 1
    BY <2>2, <2>3, FS_AddElement
  <2>5. MaxCost * Cardinality(Landed') = MaxCost * Cardinality(Landed) + MaxCost
    <3>1. ASSUME NEW c \in Nat, NEW n \in Nat PROVE c * (n + 1) = c * n + c
      OBVIOUS
    <3> QED BY <3>1, <2>3, <2>4
  <2>6. MaxCost * Cardinality(Landed) \in Nat
    BY <2>3, AllowsMore
  <2>7. CASE InBudget
    <3>1. spent < MaxBg BY <1>5, <2>7 DEF InBudget
    <3>2. spent \in Nat BY DEF BudgetInv, BudgetTypes
    <3>3. MaxBg \in Nat /\ MaxCost \in Nat OBVIOUS
    <3> DEFINE d == MaxCost * Cardinality(Landed)
    <3> HIDE DEF d
    <3>4. d \in Nat /\ MaxCost * Cardinality(Landed') = d + MaxCost
      BY <2>5, <2>6 DEF d
    <3> QED BY <1>1, <3>1, <3>2, <3>3, <3>4
  <2>8. CASE ~InBudget
    <3>1. spent > 0 BY <2>8, <1>4 DEF InBudget, BudgetInv, BudgetTypes
    <3>2. spent < MaxBg + MaxCost * Cardinality(Landed)
      BY <3>1, <2>8 DEF BudgetInv
    <3> QED BY <3>2, <2>5, <2>6, <1>1 DEF BudgetInv, BudgetTypes
  <2> QED BY <2>7, <2>8
<1> QED BY <1>3, <1>4, <1>5 DEF BudgetInv

\* Every other step of a thread is free.
LEMMA LoopIsFree ==
  ASSUME BudgetInv, NEW th \in Thread, Loop(th), ~Reply(th)
  PROVE  Free
<1> USE DEF Free, BudgetInv, BudgetTypes, Landed, Flying, Goto, Place
<1>1. CASE Test(th) BY <1>1 DEF Test
<1>2. CASE Clear(th) BY <1>2 DEF Clear
<1>3. CASE Wake(th) \/ Timeout(th) BY <1>3 DEF Wake, Timeout
<1>4. CASE Think(th) BY <1>4 DEF Think
<1>5. CASE Ask(th) BY <1>5 DEF Ask
<1>6. CASE ReplyFails(th) BY <1>6 DEF ReplyFails
<1>7. CASE ToolBegin(th) BY <1>7 DEF ToolBegin
<1>8. CASE ToolRuns(th) \/ ToolHangs(th) BY <1>8 DEF ToolRuns, ToolHangs
<1>9. CASE Collect(th) BY <1>9 DEF Collect
<1>10. CASE Hand(th) BY <1>10 DEF Hand
<1>11. CASE Defer(th) BY <1>11 DEF Defer
<1> QED BY <1>1, <1>2, <1>3, <1>4, <1>5, <1>6, <1>7, <1>8, <1>9, <1>10, <1>11
        DEF Loop

LEMMA MainIsFree ==
  ASSUME BudgetInv, Main
  PROVE  Free
<1> USE DEF Free, BudgetInv, BudgetTypes
<1>1. ASSUME NEW th \in Thread, Start(th) PROVE Free
  BY <1>1 DEF Start, Landed, Flying, Place
<1>2. CASE Stop \/ Pause
  BY <1>2 DEF Stop, Pause, Landed, Flying
<1>3. CASE ResumeFlush \/ ResumeClear \/ ResumeWake
  BY <1>3 DEF ResumeFlush, ResumeClear, ResumeWake, Landed, Flying
<1> QED BY <1>1, <1>2, <1>3 DEF Main

LEMMA BudgetInvariant == Spec => []BudgetInv
<1>1. Init => BudgetInv
  BY ConsciousnessAssumption DEF ConsciousnessAssumption, Init, BudgetInv,
     BudgetTypes, Flying, Place
<1>2. BudgetInv /\ [Next]_vars => BudgetInv'
  <2> SUFFICES ASSUME BudgetInv, [Next]_vars PROVE BudgetInv'
    OBVIOUS
  <2>1. CASE Main BY <2>1, MainIsFree, FreeStep
  <2>2. ASSUME NEW th \in Thread, Loop(th) PROVE BudgetInv'
    BY <2>2, LoopIsFree, FreeStep, ReplyStep
  <2>3. CASE UNCHANGED vars
    <3>1. Free BY <2>3 DEF vars, Free, BudgetInv, BudgetTypes, Landed, Flying
    <3> QED BY <3>1, FreeStep
  <2> QED BY <2>1, <2>2, <2>3 DEF Next
<1> QED BY <1>1, <1>2, PTL DEF Spec

\* With an amount to check against, background thinking never exceeds its budget
\* by a whole call of the model per started thread, however pauses, stops,
\* starts, failing calls and hanging tools fall between the checks.
THEOREM BudgetRespected == Spec => []OverspendBound
<1>1. BudgetInv => OverspendBound
  <2> SUFFICES ASSUME BudgetInv, Budget = "amount", spent > 0
               PROVE spent < MaxBg + MaxCost * Cardinality({th \in Thread : pc[th] # "unborn"})
    BY DEF OverspendBound, BudgetKept
  <2> DEFINE S == {th \in Thread : pc[th] # "unborn"}
  <2>1. IsFiniteSet(S) /\ Landed \subseteq S BY LandedFinite DEF Landed
  <2>2. /\ MaxCost * Cardinality(Landed) <= MaxCost * Cardinality(S)
        /\ MaxCost * Cardinality(Landed) \in Nat
    BY <2>1, AllowsMore
  <2>3. MaxCost * Cardinality(S) \in Nat BY <2>1, AllowsMore
  <2> HIDE DEF S
  <2>4. spent < MaxBg + MaxCost * Cardinality(S)
    BY <2>2, <2>3, ConsciousnessAssumption
       DEF ConsciousnessAssumption, BudgetInv, BudgetTypes, InBudget
  <2> QED BY <2>4 DEF S
<1> QED BY <1>1, BudgetInvariant, PTL

-----------------------------------------------------------------------------
(* The events of the tools.                                                *)

Increasing(list) == \A i, j \in 1..Len(list) : i < j => list[i] < list[j]

UpTo(list, n) == \A i \in 1..Len(list) : list[i] <= n

EventTypes ==
  /\ pc \in [Thread -> Place]
  /\ pending \in [Thread -> Seq(Nat)]
  /\ ctxEvents \in Seq(Nat)
  /\ emitted \in Nat

\* While its tool runs, all that a thought has gathered is older than what is
\* in the context, since the list was emptied, by this loop or another, after
\* the last event was gathered.
EventInv ==
  /\ EventTypes
  /\ Increasing(ctxEvents) /\ UpTo(ctxEvents, emitted)
  /\ \A th \in Thread : Increasing(pending[th]) /\ UpTo(pending[th], emitted)
  /\ \A th \in Thread :
       pc[th] \in {"run", "collect"} =>
         \A i \in 1..Len(pending[th]), j \in 1..Len(ctxEvents) :
           pending[th][i] < ctxEvents[j]

LEMMA AppendIncreasing ==
  ASSUME NEW s \in Seq(Nat), NEW n \in Nat, NEW e \in Nat,
         Increasing(s), UpTo(s, n), n < e
  PROVE  Increasing(Append(s, e)) /\ UpTo(Append(s, e), e)
<1>1. /\ Len(Append(s, e)) = Len(s) + 1 /\ Append(s, e)[Len(s) + 1] = e
      /\ \A i \in 1..Len(s) : Append(s, e)[i] = s[i] /\ s[i] \in Nat
      /\ Len(s) \in Nat
  OBVIOUS
<1>2. \A i \in 1..Len(s) : s[i] <= n BY DEF UpTo
<1>3. \A i, j \in 1..Len(s) : i < j => s[i] < s[j] BY DEF Increasing
<1>4. ASSUME NEW i \in 1..(Len(s) + 1), NEW j \in 1..(Len(s) + 1), i < j
      PROVE  Append(s, e)[i] < Append(s, e)[j]
  <2>1. i \in 1..Len(s) BY <1>1, <1>4
  <2>2. CASE j = Len(s) + 1 BY <1>1, <1>2, <2>1, <2>2
  <2>3. CASE j # Len(s) + 1
    <3>1. j \in 1..Len(s) BY <1>1, <2>3
    <3> QED BY <1>1, <1>3, <1>4, <2>1, <3>1
  <2> QED BY <2>2, <2>3
<1>5. ASSUME NEW i \in 1..(Len(s) + 1) PROVE Append(s, e)[i] <= e
  <2>1. CASE i = Len(s) + 1 BY <1>1, <2>1
  <2>2. CASE i # Len(s) + 1
    <3>1. i \in 1..Len(s) BY <1>1, <2>2
    <3> QED BY <1>1, <1>2, <3>1
  <2> QED BY <2>1, <2>2
<1> QED BY <1>1, <1>4, <1>5 DEF Increasing, UpTo

LEMMA ConcatIncreasing ==
  ASSUME NEW s \in Seq(Nat), NEW t \in Seq(Nat), NEW n \in Nat,
         Increasing(s), Increasing(t), UpTo(s, n), UpTo(t, n),
         \A i \in 1..Len(s), j \in 1..Len(t) : s[i] < t[j]
  PROVE  Increasing(s \o t) /\ UpTo(s \o t, n) /\ s \o t \in Seq(Nat)
<1> DEFINE u == s \o t
<1>1. /\ u \in Seq(Nat) /\ Len(u) = Len(s) + Len(t)
      /\ Len(s) \in Nat /\ Len(t) \in Nat
      /\ \A i \in 1..Len(s) : u[i] = s[i]
      /\ \A i \in 1..Len(u) : i > Len(s) =>
           i - Len(s) \in 1..Len(t) /\ u[i] = t[i - Len(s)]
  OBVIOUS
<1>2. /\ \A i, j \in 1..Len(s) : i < j => s[i] < s[j]
      /\ \A i, j \in 1..Len(t) : i < j => t[i] < t[j]
  BY DEF Increasing
<1>3. /\ \A i \in 1..Len(s) : s[i] <= n
      /\ \A i \in 1..Len(t) : t[i] <= n
  BY DEF UpTo
<1> HIDE DEF u
<1>4. ASSUME NEW i \in 1..Len(u), NEW j \in 1..Len(u), i < j
      PROVE  u[i] < u[j]
  <2>1. CASE j <= Len(s)
    <3>1. i \in 1..Len(s) /\ j \in 1..Len(s) BY <1>1, <1>4, <2>1
    <3> QED BY <1>1, <1>2, <1>4, <3>1
  <2>2. CASE i <= Len(s) /\ j > Len(s)
    <3>1. i \in 1..Len(s) BY <1>1, <2>2
    <3>2. u[i] = s[i] BY <1>1, <3>1
    <3>3. j - Len(s) \in 1..Len(t) /\ u[j] = t[j - Len(s)] BY <1>1, <2>2
    <3> QED BY <3>1, <3>2, <3>3
  <2>3. CASE i > Len(s) /\ j > Len(s)
    <3>1. i - Len(s) \in 1..Len(t) /\ u[i] = t[i - Len(s)] BY <1>1, <2>3
    <3>2. j - Len(s) \in 1..Len(t) /\ u[j] = t[j - Len(s)] BY <1>1, <2>3
    <3>3. i - Len(s) < j - Len(s) BY <1>1, <1>4
    <3> QED BY <1>2, <3>1, <3>2, <3>3
  <2> QED BY <1>1, <1>4, <2>1, <2>2, <2>3
<1>5. ASSUME NEW i \in 1..Len(u) PROVE u[i] <= n
  <2>1. CASE i <= Len(s)
    <3>1. i \in 1..Len(s) BY <1>1, <2>1
    <3> QED BY <1>1, <1>3, <3>1
  <2>2. CASE i > Len(s)
    <3>1. i - Len(s) \in 1..Len(t) /\ u[i] = t[i - Len(s)] BY <1>1, <2>2
    <3> QED BY <1>3, <3>1
  <2> QED BY <1>1, <2>1, <2>2
<1> QED BY <1>1, <1>4, <1>5 DEF Increasing, UpTo, u

\* A step that leaves the lists as they are, or empties some of a thought.
LEMMA ListsStay ==
  ASSUME EventInv, pc' \in [Thread -> Place], UNCHANGED <<ctxEvents, emitted>>,
         pending' \in [Thread -> Seq(Nat)],
         \A u \in Thread : pending'[u] = pending[u] \/ pending'[u] = <<>>,
         \A u \in Thread : pc'[u] \in {"run", "collect"} => pc[u] \in {"run", "collect"}
  PROVE  EventInv'
<1>1. EventTypes' BY DEF EventInv, EventTypes
<1>2. Len(<<>>) = 0 /\ 1..Len(<<>>) = {} OBVIOUS
<1>3. Increasing(<<>>) /\ UpTo(<<>>, emitted) BY <1>2 DEF Increasing, UpTo
<1>4. \A u \in Thread : Increasing(pending'[u]) /\ UpTo(pending'[u], emitted)
  BY <1>3 DEF EventInv
<1>5. ASSUME NEW u \in Thread, pc'[u] \in {"run", "collect"},
             NEW i \in 1..Len(pending'[u]), NEW j \in 1..Len(ctxEvents)
      PROVE  pending'[u][i] < ctxEvents[j]
  <2>1. pending'[u] = pending[u] BY <1>2, <1>5
  <2>2. pc[u] \in {"run", "collect"} BY <1>5
  <2> QED BY <2>1, <2>2, <1>5 DEF EventInv
<1> QED BY <1>1, <1>4, <1>5 DEF EventInv

\* A tool that starts finds an empty list, and so do those that run.
LEMMA BeginStep ==
  ASSUME EventInv, NEW th \in Thread, ToolBegin(th)
  PROVE  EventInv'
<1>1. /\ pc' \in [Thread -> Place] /\ ctxEvents' = <<>>
      /\ UNCHANGED <<pending, emitted>>
  BY DEF ToolBegin, Goto, EventInv, EventTypes, Place
<1>2. Len(<<>>) = 0 /\ 1..Len(<<>>) = {} /\ <<>> \in Seq(Nat) OBVIOUS
<1>3. EventTypes' BY <1>1, <1>2 DEF EventInv, EventTypes
<1>4. Increasing(<<>>) /\ UpTo(<<>>, emitted) BY <1>2 DEF Increasing, UpTo
<1>5. \A u \in Thread : Increasing(pending'[u]) /\ UpTo(pending'[u], emitted')
  BY <1>1 DEF EventInv
<1> QED BY <1>1, <1>2, <1>3, <1>4, <1>5 DEF EventInv

\* An event is newer than all that any thought has gathered.
LEMMA EmitStep ==
  ASSUME EventInv, NEW th \in Thread, ToolRuns(th)
  PROVE  EventInv'
<1>1. /\ pc' \in [Thread -> Place] /\ UNCHANGED pending
      /\ \A u \in Thread : pc'[u] \in {"run", "collect"} => pc[u] \in {"run", "collect"}
  BY DEF ToolRuns, Goto, EventInv, EventTypes, Place
<1>2. CASE UNCHANGED <<emitted, ctxEvents>>
  <2>1. pending' \in [Thread -> Seq(Nat)] BY <1>1 DEF EventInv, EventTypes
  <2> QED BY <1>1, <1>2, <2>1, ListsStay
<1>3. CASE emitted' = emitted + 1 /\ ctxEvents' = Append(ctxEvents, emitted')
  <2>1. /\ ctxEvents \in Seq(Nat) /\ emitted \in Nat /\ emitted' \in Nat
        /\ emitted < emitted'
    BY <1>3 DEF EventInv, EventTypes
  <2>2. Increasing(ctxEvents') /\ UpTo(ctxEvents', emitted')
    BY <1>3, <2>1, AppendIncreasing DEF EventInv
  <2>3. EventTypes'
    BY <1>1, <1>3, <2>1 DEF EventInv, EventTypes
  <2>4. ASSUME NEW u \in Thread
        PROVE  Increasing(pending'[u]) /\ UpTo(pending'[u], emitted')
    <3>1. pending[u] \in Seq(Nat) BY DEF EventInv, EventTypes
    <3>2. \A i \in 1..Len(pending[u]) : pending[u][i] \in Nat BY <3>1
    <3>3. Increasing(pending[u]) /\ \A i \in 1..Len(pending[u]) : pending[u][i] <= emitted
      BY DEF EventInv, UpTo
    <3>4. \A i \in 1..Len(pending[u]) : pending[u][i] <= emitted'
      BY <2>1, <3>2, <3>3
    <3> QED BY <1>1, <3>3, <3>4 DEF UpTo
  <2>5. ASSUME NEW u \in Thread, pc'[u] \in {"run", "collect"},
               NEW i \in 1..Len(pending'[u]), NEW j \in 1..Len(ctxEvents')
        PROVE  pending'[u][i] < ctxEvents'[j]
    <3>1. pc[u] \in {"run", "collect"} BY <1>1, <2>5
    <3>2. /\ Len(ctxEvents') = Len(ctxEvents) + 1 /\ Len(ctxEvents) \in Nat
          /\ ctxEvents'[Len(ctxEvents) + 1] = emitted'
          /\ \A k \in 1..Len(ctxEvents) : ctxEvents'[k] = ctxEvents[k]
      BY <1>3, <2>1
    <3>3. i \in 1..Len(pending[u]) /\ pending'[u][i] = pending[u][i] BY <1>1, <2>5
    <3>4. pending[u] \in Seq(Nat) BY DEF EventInv, EventTypes
    <3>5. CASE j = Len(ctxEvents) + 1
      <4>1. pending[u][i] <= emitted /\ pending[u][i] \in Nat
        BY <3>3, <3>4 DEF EventInv, UpTo
      <4> QED BY <2>1, <3>2, <3>3, <3>5, <4>1
    <3>6. CASE j # Len(ctxEvents) + 1
      <4>1. j \in 1..Len(ctxEvents) BY <2>5, <3>2, <3>6
      <4>2. pending[u][i] < ctxEvents[j] BY <3>1, <3>3, <4>1 DEF EventInv
      <4> QED BY <3>2, <3>3, <4>1, <4>2
    <3> QED BY <3>5, <3>6
  <2> QED BY <2>2, <2>3, <2>4, <2>5 DEF EventInv
<1> QED BY <1>2, <1>3 DEF ToolRuns

\* What is in the context joins what the thought has gathered.
LEMMA CollectStep ==
  ASSUME EventInv, NEW th \in Thread, Collect(th)
  PROVE  EventInv'
<1>1. /\ pc' \in [Thread -> Place] /\ pc'[th] \in {"ask", "hand"}
      /\ pc[th] = "collect"
      /\ \A u \in Thread \ {th} : pc'[u] = pc[u]
      /\ UNCHANGED <<ctxEvents, emitted>>
  BY DEF Collect, Goto, EventInv, EventTypes, Place
<1>2. pending[th] \in Seq(Nat) /\ ctxEvents \in Seq(Nat) /\ emitted \in Nat
  BY DEF EventInv, EventTypes
<1>3. /\ pending'[th] = pending[th] \o ctxEvents
      /\ \A u \in Thread \ {th} : pending'[u] = pending[u]
  BY DEF Collect, EventInv, EventTypes
<1>4. \A i \in 1..Len(pending[th]), j \in 1..Len(ctxEvents) : pending[th][i] < ctxEvents[j]
  BY <1>1 DEF EventInv
<1>5. /\ Increasing(pending'[th]) /\ UpTo(pending'[th], emitted)
      /\ pending'[th] \in Seq(Nat)
  <2>1. /\ Increasing(pending[th]) /\ UpTo(pending[th], emitted)
        /\ Increasing(ctxEvents) /\ UpTo(ctxEvents, emitted)
    BY DEF EventInv
  <2> QED BY <1>2, <1>3, <1>4, <2>1, ConcatIncreasing
<1>6. pending' \in [Thread -> Seq(Nat)]
  BY <1>3, <1>5 DEF Collect, EventInv, EventTypes
<1>7. EventTypes' BY <1>1, <1>6 DEF EventInv, EventTypes
<1>8. \A u \in Thread : Increasing(pending'[u]) /\ UpTo(pending'[u], emitted')
  BY <1>1, <1>3, <1>5 DEF EventInv
<1>9. ASSUME NEW u \in Thread, pc'[u] \in {"run", "collect"},
             NEW i \in 1..Len(pending'[u]), NEW j \in 1..Len(ctxEvents')
      PROVE  pending'[u][i] < ctxEvents'[j]
  <2>1. u # th BY <1>1, <1>9
  <2>2. pc[u] \in {"run", "collect"} /\ pending'[u] = pending[u] BY <1>1, <1>3, <1>9, <2>1
  <2> QED BY <1>1, <1>9, <2>2 DEF EventInv
<1> QED BY <1>1, <1>7, <1>8, <1>9 DEF EventInv

\* Every other step of a thread leaves the lists or empties its own.
LEMMA LoopEvents ==
  ASSUME EventInv, NEW th \in Thread, Loop(th)
  PROVE  EventInv'
<1>1. pc \in [Thread -> Place] /\ pending \in [Thread -> Seq(Nat)]
  BY DEF EventInv, EventTypes
<1>2. CASE \/ Test(th) \/ Clear(th) \/ Wake(th) \/ Timeout(th)
           \/ Ask(th) \/ Reply(th) \/ ReplyFails(th) \/ ToolHangs(th)
  <2>1. /\ \E place \in Place \ {"run", "collect"} : Goto(th, place)
        /\ UNCHANGED <<pending, ctxEvents, emitted>>
    BY <1>2 DEF Test, Clear, Wake, Timeout, Ask, Reply, ReplyFails, ToolHangs, Place
  <2>2. /\ pc' \in [Thread -> Place]
        /\ \A u \in Thread : pc'[u] \in {"run", "collect"} => pc[u] \in {"run", "collect"}
    BY <1>1, <2>1 DEF Goto
  <2> QED BY <1>1, <2>1, <2>2, ListsStay
<1>3. CASE Think(th) \/ Hand(th) \/ Defer(th)
  <2>1. /\ \E place \in Place \ {"run", "collect"} : Goto(th, place)
        /\ UNCHANGED <<ctxEvents, emitted>>
        /\ pending' = pending \/ pending' = [pending EXCEPT ![th] = <<>>]
    BY <1>3 DEF Think, Hand, Defer, Place
  <2>2. /\ pc' \in [Thread -> Place]
        /\ \A u \in Thread : pc'[u] \in {"run", "collect"} => pc[u] \in {"run", "collect"}
    BY <1>1, <2>1 DEF Goto
  <2>3. /\ pending' \in [Thread -> Seq(Nat)]
        /\ \A u \in Thread : pending'[u] = pending[u] \/ pending'[u] = <<>>
    <3>1. CASE pending' = pending BY <1>1, <3>1
    <3>2. CASE pending' = [pending EXCEPT ![th] = <<>>]
      <4>1. <<>> \in Seq(Nat) OBVIOUS
      <4>2. pending' \in [Thread -> Seq(Nat)] BY <1>1, <3>2, <4>1
      <4>3. pending'[th] = <<>> /\ \A u \in Thread \ {th} : pending'[u] = pending[u]
        BY <1>1, <3>2
      <4> QED BY <4>2, <4>3
    <3> QED BY <2>1, <3>1, <3>2
  <2> QED BY <2>1, <2>2, <2>3, ListsStay
<1> QED BY <1>2, <1>3, BeginStep, EmitStep, CollectStep DEF Loop

LEMMA MainEvents ==
  ASSUME EventInv, Main
  PROVE  EventInv'
<1>1. pc \in [Thread -> Place] /\ pending \in [Thread -> Seq(Nat)]
  BY DEF EventInv, EventTypes
<1>2. UNCHANGED <<pending, ctxEvents, emitted>>
  BY DEF Main, Start, Stop, Pause, ResumeFlush, ResumeClear, ResumeWake
<1>3. pc' = pc \/ \E u \in Thread : pc' = [pc EXCEPT ![u] = "test"]
  BY DEF Main, Start, Stop, Pause, ResumeFlush, ResumeClear, ResumeWake
<1>4. /\ pc' \in [Thread -> Place]
      /\ \A u \in Thread : pc'[u] \in {"run", "collect"} => pc[u] \in {"run", "collect"}
  BY <1>1, <1>3 DEF Place
<1> QED BY <1>1, <1>2, <1>4, ListsStay

LEMMA EventInvariance == Spec => []EventInv
<1>1. Init => EventInv
  <2>1. Len(<<>>) = 0 /\ 1..Len(<<>>) = {} /\ <<>> \in Seq(Nat) OBVIOUS
  <2> QED BY <2>1 DEF Init, EventInv, EventTypes, Place, Increasing, UpTo
<1>2. EventInv /\ [Next]_vars => EventInv'
  <2> SUFFICES ASSUME EventInv, [Next]_vars PROVE EventInv'
    OBVIOUS
  <2>1. CASE Main BY <2>1, MainEvents
  <2>2. ASSUME NEW th \in Thread, Loop(th) PROVE EventInv'
    BY <2>2, LoopEvents
  <2>3. CASE UNCHANGED vars
    BY <2>3, ListsStay DEF vars, EventInv, EventTypes
  <2> QED BY <2>1, <2>2, <2>3 DEF Next
<1> QED BY <1>1, <1>2, PTL DEF Spec

\* A thought gathers each event at most once and in order, with any number of
\* loops on the same context, pauses, failing calls and hanging tools.
THEOREM EventsGatheredInOrder == Spec => []EventsInOrder
<1>1. EventInv => EventsInOrder
  BY DEF EventInv, Increasing, EventsInOrder
<1> QED BY <1>1, EventInvariance, PTL

=============================================================================
