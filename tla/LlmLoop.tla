------------------------------ MODULE LlmLoop ------------------------------
(***************************************************************************)
(* One task in a worker process: run_llm_loop (ouroboros/loop.py) calls    *)
(* the model, executes the tools it asks for, hands it what the owner      *)
(* wrote meanwhile, and cuts the conversation when it grows too long.      *)
(*                                                                         *)
(* conv is `messages` without its system messages, of which only the size  *)
(* counts; a message carries the number under which it was appended.  The  *)
(* process may die at any step; the supervisor then runs the task again,   *)
(* and the mailbox file is still there.  Another task's agent appends to   *)
(* the mailbox at any time; a reader may find the last line incomplete.    *)
(***************************************************************************)
EXTENDS Integers, Sequences, FiniteSets

CONSTANTS
  Mail,         \* the messages other agents forward to this task
  Clean,        \* those without a separator of lines other than \n, which
                \* json.dumps leaves alone and splitlines cuts at
  MaxRounds,    \* MAX_ROUNDS
  MaxRetries,   \* max_retries
  MaxCalls,     \* bound: tool calls in one reply
  MaxCrashes,   \* bound: deaths of the process
  ReflectAfter, \* a reply in a later round than this one is reviewed
  SystemSizes,  \* what the system messages may measure, in tokens
  Short,        \* the size of a short message, and of a compacted one
  Long,         \* the size of a long message
  Threshold,    \* a conversation above this size is cut,
  Window,       \* to this size
  KeepRecent,   \* rounds that the cut leaves as they are
  ManyFrom,     \* from the round after this one on, with many messages,
  OldRound,     \* from the round after this one on, always,
  KeepOld,      \* old rounds are compacted except these
  AskedKeep     \* what compact_context may be asked to keep

ASSUME LlmLoopAssumption ==
  /\ IsFiniteSet(Mail) /\ Clean \subseteq Mail
  /\ SystemSizes \subseteq Nat /\ SystemSizes # {}
  /\ MaxRounds \in Nat \ {0} /\ MaxRetries \in Nat \ {0}
  /\ MaxCalls \in Nat \ {0} /\ MaxCrashes \in Nat /\ ReflectAfter \in Nat
  /\ Short \in Nat \ {0} /\ Long \in Nat /\ Short <= Long
  /\ Threshold \in Nat /\ Window \in Nat /\ Window <= Threshold
  /\ KeepRecent \in Nat /\ OldRound \in Nat /\ KeepOld \in Nat
  /\ ManyFrom \in Nat /\ AskedKeep \subseteq Nat

VARIABLES
  pc,      \* where the agent is
  round,   \* round_idx
  who,     \* which call of the model this is
  attempt, \* attempts of this call that have failed
  chats,   \* calls of the model in this round
  system,  \* the size of the system messages
  conv,    \* the other messages
  said,    \* how many messages were ever appended to conv
  answer,  \* how each tool call of the round ended, in the order of the calls
  parallel,\* whether the tool calls of the round run side by side
  box,     \* the lines of the task's mailbox file
  sent,    \* messages that another agent has begun to write
  seen,    \* _owner_msg_seen
  heard,   \* the messages of the owner that were appended, in order
  crashes  \* deaths of the process so far

mailbox == <<box, sent>>
talk == <<conv, said, system>>
batch == <<answer, parallel>>
ears == <<seen, heard>>

vars == <<pc, round, who, attempt, chats, talk, batch, mailbox, ears, crashes>>

Place == {"round", "drain", "prepare", "call", "tools", "finally", "report", "done"}
Who == {"main", "fallback", "final", "reflect"}
Ending == {"waiting", "ok", "error"}

-----------------------------------------------------------------------------
(* Messages.                                                               *)

Message == [n : Nat \ {0}, role : {"user", "assistant", "tool"}, round : Nat,
            call : Nat, size : {Short, Long}]

User(n, size) == [n |-> n, role |-> "user", round |-> 0, call |-> 0, size |-> size]

\* A reply with tool calls; call is how many.
Assistant(n, calls) ==
  [n |-> n, role |-> "assistant", round |-> round, call |-> calls, size |-> Short]

\* What the messages of c from this place on measure.
Size(c, place) ==
  LET from[i \in 1..(Len(c) + 1)] ==
        IF i > Len(c) THEN 0 ELSE c[i].size + from[i + 1]
  IN from[place]

Tokens(c) == Size(c, 1)

\* compact_tool_history: the replies with tool calls, except the last few, and
\* their results become short.  A result whose reply is gone stays as it is.
Starts(c) == {i \in 1..Len(c) : c[i].role = "assistant"}

Later(c, i) == {j \in Starts(c) : j > i}

Compacted(c, keep) ==
  LET IsOld(i) ==
        /\ c[i].role # "user"
        /\ \E s \in Starts(c) : /\ s <= i
                                /\ Later(c, s) \cap 1..i = {}
                                /\ Cardinality(Later(c, s)) >= keep
  IN [i \in 1..Len(c) |-> IF IsOld(i) THEN [c[i] EXCEPT !.size = Short] ELSE c[i]]

\* (mutant) A message too long for the room is left out and the search goes on,
\* and the room is not reduced by what is kept.
EachThatFits(c, room) == {SelectSeq(c, LAMBDA m : m.size <= room)}

\* The longest suffix of c that fits into the room, the only member of the set.
Recent(c, room) ==
  {SubSeq(c, i, Len(c)) : i \in {i \in 1..(Len(c) + 1) :
      /\ \A j \in i..Len(c) : Size(c, j) <= room
      /\ i = 1 \/ Size(c, i-1) > room}}

\* smart_context_optimize, called above the threshold: the compacted conversation
\* if that is enough, or its most recent messages beside all system messages.
Optimized(c, compacted, tokens) ==
  IF tokens + Tokens(c) <= Threshold THEN {c}
  ELSE IF tokens + Tokens(compacted) <= Window THEN {compacted}
  ELSE Recent(compacted, Window - tokens)

\* compact_tool_history_llm: a light model sums up old results; a summary may be
\* as long as the result, and without one the result is compacted.
Summarised(c, keep) ==
  {[i \in 1..Len(c) |-> IF i \in long THEN c[i] ELSE Compacted(c, keep)[i]] :
     long \in SUBSET {i \in 1..Len(c) : c[i].role = "tool"}}

\* The tools of the round before have run; compact_context may be one of them.
Requested == round > 1 /\ \E i \in Starts(conv) : conv[i].round = round - 1

\* What the loop does before that unless it was asked to: from some round on, old
\* rounds are compacted, in earlier ones if there are many messages, among which
\* the system messages count.
Histories ==
  (IF round > OldRound THEN {} ELSE {conv})
  \cup (IF round > ManyFrom \/ round > OldRound THEN {Compacted(conv, KeepOld)} ELSE {})

-----------------------------------------------------------------------------
(* The mailbox.                                                            *)

Line == [id : Mail, whole : BOOLEAN]

Torn == box # <<>> /\ ~box[Len(box)].whole

\* write_owner_message, by one agent at a time: the file grows by a line, which
\* is incomplete for a moment.  A write after the end of the task makes a file
\* that nobody reads.
WriteBegin(m) ==
  /\ m \notin sent /\ ~Torn
  /\ sent' = sent \cup {m}
  /\ box' = Append(box, [id |-> m, whole |-> FALSE])
  /\ UNCHANGED <<pc, round, who, attempt, chats, talk, batch, ears, crashes>>

WriteEnd ==
  /\ Torn
  /\ box' = [box EXCEPT ![Len(box)].whole = TRUE]
  /\ UNCHANGED <<pc, round, who, attempt, chats, talk, batch, sent, ears, crashes>>

\* (mutant) The message ids are noted before the line is parsed.
NotedAsSeen == {box[i].id : i \in 1..Len(box)}

\* The lines that json.loads accepts; the pieces of any other are skipped.
Parsed == {i \in 1..Len(box) : box[i].whole /\ box[i].id \in Clean}

\* The ids that drain_owner_messages adds to seen_ids.
Seen == {box[i].id : i \in Parsed}

\* The lines whose messages drain_owner_messages returns.
Unheard == {i \in Parsed : box[i].id \notin seen}

\* The members of a set of places in ascending order.
InOrder(S) ==
  {f \in [1..Cardinality(S) -> S] : \A i, j \in 1..Cardinality(S) : i < j => f[i] < f[j]}

-----------------------------------------------------------------------------
(* A task.                                                                 *)

\* What the conversation starts with.
Task == {<<User(1, size)>> : size \in {Short, Long}}

\* handle_task and the setup of the loop: the messages are built from scratch.
Init ==
  /\ pc = "round" /\ round = 0 /\ who = "main" /\ attempt = 0 /\ chats = 0
  /\ system \in SystemSizes /\ conv \in Task /\ said = 1
  /\ answer = <<>> /\ parallel = FALSE /\ seen = {} /\ heard = <<>>
  /\ box = <<>> /\ sent = {} /\ crashes = 0

\* (mutant) A round that ended with a critique is not counted.
CountedUnlessReviewed == IF who = "reflect" THEN round ELSE round + 1

RoundIndex == round + 1

\* The head of the loop.  Without budget the task ends before its first call;
\* after MAX_ROUNDS the model is asked for a final answer.
NextRound ==
  /\ pc = "round"
  /\ round' = RoundIndex
  /\ attempt' = 0 /\ chats' = 0
  /\ \/ round = 0 /\ pc' = "finally" /\ UNCHANGED who
     \/ RoundIndex > MaxRounds /\ pc' = "call" /\ who' = "final"
     \/ RoundIndex <= MaxRounds /\ pc' = "drain" /\ who' = "main"
  /\ UNCHANGED <<talk, batch, mailbox, ears, crashes>>

\* _drain_incoming_messages: what is new in the file joins the conversation.  A
\* character that is cut in two makes the whole file unreadable for this round.
Drain ==
  /\ pc = "drain" /\ pc' = "prepare"
  /\ \/ \E line \in InOrder(Unheard) :
          /\ conv' = conv \o [i \in 1..Len(line) |-> User(said + i, Short)]
          /\ said' = said + Len(line)
          /\ heard' = heard \o [i \in 1..Len(line) |-> box[line[i]].id]
          /\ seen' = seen \cup Seen
     \/ Torn /\ UNCHANGED <<conv, said, heard, seen>>
  /\ UNCHANGED <<round, who, attempt, chats, system, batch, mailbox, crashes>>

CutFrom(c) ==
  \E short \in {Compacted(c, KeepRecent)} : conv' \in Optimized(c, short, system')

\* Hints, rules and checks join the system messages, and the conversation is
\* compacted, on request with a call of the light model, and cut for good.
Prepare ==
  /\ pc = "prepare" /\ pc' = "call"
  /\ system' \in {s \in SystemSizes : s >= system}
  /\ \/ chats' = chats /\ \E c \in Histories : CutFrom(c)
     \/ /\ Requested /\ chats' \in {chats, chats + 1}
        /\ \E keep \in AskedKeep : \E c \in Summarised(conv, keep) : CutFrom(c)
  /\ UNCHANGED <<round, who, attempt, said, batch, mailbox, ears, crashes>>

-----------------------------------------------------------------------------
(* A call of the model: _call_llm_with_retry.                              *)

Begin(w) == who' = w /\ attempt' = 0

\* (mutant) One attempt more.
OneMore(w) == IF w = "reflect" THEN 1 ELSE MaxRetries + 1

Attempts(w) == IF w = "reflect" THEN 1 ELSE MaxRetries

\* A failure or an empty reply is tried again.  Then a fallback model is asked,
\* unless there is none but the active one; without a reply from it either, the
\* task ends, and without a review the reply stands.
CallFails ==
  /\ pc = "call"
  /\ chats' = chats + 1
  /\ IF attempt + 1 < Attempts(who) THEN attempt' = attempt + 1 /\ UNCHANGED <<pc, who>>
     ELSE \/ who = "main" /\ Begin("fallback") /\ UNCHANGED pc
          \/ pc' = "finally" /\ UNCHANGED <<who, attempt>>
  /\ UNCHANGED <<round, talk, batch, mailbox, ears, crashes>>

\* A reply without tool calls: it is reviewed in later rounds.
Replies ==
  /\ pc = "call" /\ who # "reflect"
  /\ chats' = chats + 1
  /\ IF who # "final" /\ round > ReflectAfter
     THEN Begin("reflect") /\ UNCHANGED pc
     ELSE pc' = "finally" /\ UNCHANGED <<who, attempt>>
  /\ UNCHANGED <<round, talk, batch, mailbox, ears, crashes>>

\* The review lets the reply pass or asks for another round.
Reviewed ==
  /\ pc = "call" /\ who = "reflect"
  /\ chats' = chats + 1
  /\ pc' \in {"finally", "round"}
  /\ UNCHANGED <<round, who, attempt, talk, batch, mailbox, ears, crashes>>

\* A reply with tool calls; they may run side by side if all only read.
AsksTools ==
  /\ pc = "call" /\ who \in {"main", "fallback"}
  /\ chats' = chats + 1 /\ pc' = "tools"
  /\ \E k \in 1..MaxCalls :
       /\ answer' = [j \in 1..k |-> "waiting"]
       /\ parallel' \in (IF k > 1 THEN BOOLEAN ELSE {FALSE})
       /\ conv' = Append(conv, Assistant(said + 1, k))
  /\ said' = said + 1
  /\ UNCHANGED <<round, who, attempt, system, mailbox, ears, crashes>>

-----------------------------------------------------------------------------
(* The tools of a round: _handle_tool_calls.                               *)

Runs(j) ==
  /\ pc = "tools" /\ j \in DOMAIN answer /\ answer[j] = "waiting"
  /\ parallel \/ \A i \in 1..(j - 1) : answer[i] # "waiting"

\* A call returns, or it is refused, raises or is given up.  In the last case its
\* thread runs on, but what it returns later goes nowhere.
ToolEnds(j) ==
  /\ Runs(j)
  /\ \E e \in {"ok", "error"} : answer' = [answer EXCEPT ![j] = e]
  /\ UNCHANGED <<pc, round, who, attempt, chats, talk, parallel, mailbox, ears, crashes>>

\* A call without a name or an id raises out of the loop.
ToolMalformed(j) ==
  /\ Runs(j)
  /\ pc' = "finally"
  /\ UNCHANGED <<round, who, attempt, chats, talk, batch, mailbox, ears, crashes>>

\* (mutant) Results in the reverse of the order of the calls.
LastFirst == [j \in 1..Len(answer) |-> Len(answer) + 1 - j]

\* The call whose result comes at each place.
ResultOrder == [j \in 1..Len(answer) |-> j]

\* How long each result is: what an error says is short.
ResultSizes ==
  {f \in [1..Len(answer) -> {Short, Long}] :
     \A j \in 1..Len(answer) : answer[j] # "ok" => f[j] = Short}

\* _process_tool_results.
Results ==
  /\ pc = "tools" /\ pc' = "round"
  /\ \A j \in DOMAIN answer : answer[j] # "waiting"
  /\ \E size \in ResultSizes :
       conv' = conv \o [j \in 1..Len(answer) |->
         [n |-> said + j, role |-> "tool", round |-> round,
          call |-> ResultOrder[j], size |-> size[ResultOrder[j]]]]
  /\ said' = said + Len(answer)
  /\ answer' = <<>> /\ parallel' = FALSE
  /\ UNCHANGED <<round, who, attempt, chats, system, mailbox, ears, crashes>>

-----------------------------------------------------------------------------
(* The end of a task, and of its process.                                  *)

\* The finally block: cleanup_task_mailbox.
Cleanup ==
  /\ pc = "finally" /\ pc' = "report"
  /\ box' = <<>>
  /\ UNCHANGED <<round, who, attempt, chats, talk, batch, sent, ears, crashes>>

\* _emit_task_results: the owner's message, the metrics and task_done.
Report ==
  /\ pc = "report" /\ pc' = "done"
  /\ UNCHANGED <<round, who, attempt, chats, talk, batch, mailbox, ears, crashes>>

\* The worker dies.  The supervisor queues the task again; another process
\* starts from the task alone, with the mailbox as it is.
Crash ==
  /\ pc # "done" /\ crashes < MaxCrashes
  /\ crashes' = crashes + 1
  /\ pc' = "round" /\ round' = 0 /\ who' = "main" /\ attempt' = 0 /\ chats' = 0
  /\ system' \in SystemSizes /\ conv' \in Task /\ said' = 1
  /\ answer' = <<>> /\ parallel' = FALSE /\ seen' = {} /\ heard' = <<>>
  /\ UNCHANGED mailbox

Agent ==
  \/ NextRound \/ Drain \/ Prepare
  \/ CallFails \/ Replies \/ Reviewed \/ AsksTools
  \/ \E j \in 1..MaxCalls : ToolEnds(j) \/ ToolMalformed(j)
  \/ Results \/ Cleanup \/ Report

Others == WriteEnd \/ \E m \in Mail : WriteBegin(m)

Next == Agent \/ Others \/ Crash

Spec == Init /\ [][Next]_vars

\* Calls of the model and of tools end: both have timeouts.
FairSpec == Spec /\ WF_vars(Agent)

-----------------------------------------------------------------------------
(* Properties.                                                             *)

TypeOK ==
  /\ pc \in Place /\ round \in 0..(MaxRounds + 1) /\ who \in Who
  /\ attempt \in 0..(MaxRetries - 1) /\ chats \in Nat
  /\ system \in SystemSizes /\ conv \in Seq(Message) /\ said \in Nat
  /\ answer \in Seq(Ending) /\ parallel \in BOOLEAN
  /\ box \in Seq(Line) /\ sent \subseteq Mail
  /\ seen \subseteq Mail /\ heard \in Seq(Mail) /\ crashes \in 0..MaxCrashes

\* What the model is shown is everything since some message: cutting and
\* compacting leave no hole in the conversation and change no order.
NoHoles == \A i \in 1..Len(conv) : conv[i].n = said - Len(conv) + i

\* Between the system messages and the threshold there is room for all that is
\* kept, when the model is asked for the next step.
FitsWindow ==
  pc = "call" /\ who \in {"main", "fallback"} =>
    conv = <<>> \/ system + Tokens(conv) <= Threshold

\* The reply with tool calls at place i of c is followed by the results of just
\* these calls, one each and in their order.
Answered(c, i) ==
  /\ \A j \in 1..c[i].call :
       /\ i + j <= Len(c) /\ c[i+j].role = "tool"
       /\ c[i+j].call = j /\ c[i+j].round = c[i].round
  /\ i + c[i].call < Len(c) => c[i + c[i].call + 1].role # "tool"

\* Whenever the model is called, every reply with tool calls is followed by the
\* results of just these calls, one each and in their order, whether they ran
\* side by side, failed or were given up, and whatever the owner wrote meanwhile.
CallsAnswered == pc = "call" => \A i \in Starts(conv) : Answered(conv, i)

\* Until the task ends, the agent has heard what other agents forwarded to it in
\* clean text, in the order of the file, none twice and none left out before a
\* later one, although a line may be read before it is complete and another may
\* never be readable.
OwnerInOrder ==
  pc \notin {"report", "done"} =>
    /\ \A i \in 1..Len(heard) : \E k \in 1..Len(box) : box[k].id = heard[i] /\ heard[i] \in Clean
    /\ \A i, j \in 1..Len(heard), k, l \in 1..Len(box) :
         box[k].id = heard[i] /\ box[l].id = heard[j] => (i < j <=> k < l)
    /\ \A k, l \in 1..Len(box), j \in 1..Len(heard) :
         k < l /\ box[k].id \in Clean /\ box[l].id = heard[j] =>
           \E i \in 1..Len(heard) : heard[i] = box[k].id

\* The calls of a round that sum up old results, at most.
Summaries == IF round > 1 THEN 1 ELSE 0

\* However calls fail and replies are sent back, a round makes no more calls of
\* a model than the retries of two models, one for a requested compaction and
\* one for a review in later rounds.
CallsBounded ==
  chats <= 2 * MaxRetries + Summaries + (IF round > ReflectAfter THEN 1 ELSE 0)

-----------------------------------------------------------------------------
(* The inductive invariant of the proofs.                                  *)

\* The calls of a round so far, by the place in the round.
CallsSoFar ==
  /\ pc \in {"drain", "prepare"} => chats = 0 /\ attempt = 0 /\ who = "main"
  /\ pc = "call" =>
       CASE who = "fallback" -> chats - (MaxRetries + attempt) \in 0..Summaries
         [] who = "reflect" -> /\ attempt = 0 /\ round > ReflectAfter
                               /\ chats <= 2 * MaxRetries + Summaries
         [] OTHER -> chats - attempt \in 0..Summaries
  /\ CallsBounded

\* Only the final call is made after the last round.
RoundsSoFar ==
  /\ who = "final" => pc \in {"call", "finally", "report", "done"}
  /\ who # "final" /\ pc \notin {"finally", "report", "done"} => round <= MaxRounds

\* Every reply has its results, except the last one while its tools run.
Replied ==
  /\ \A i \in Starts(conv) :
       /\ conv[i].call > 0
       /\ \/ Answered(conv, i)
          \/ pc \in {"tools", "finally", "report", "done"} /\ i = Len(conv)
  /\ pc = "tools" =>
       /\ conv # <<>> /\ conv[Len(conv)].role = "assistant"
       /\ conv[Len(conv)].call = Len(answer) /\ conv[Len(conv)].round = round

\* Only the messages heard are seen, and their lines are complete.
Heard ==
  /\ \A i \in 1..Len(box) : box[i].id \in sent /\ (i < Len(box) => box[i].whole)
  /\ \A i, j \in 1..Len(box) : box[i].id = box[j].id => i = j
  /\ OwnerInOrder
  /\ pc \notin {"report", "done"} =>
       /\ seen = {heard[i] : i \in 1..Len(heard)}
       /\ \A i \in 1..Len(box) : box[i].id \in seen => box[i].whole

IInv ==
  TypeOK /\ NoHoles /\ Len(conv) <= said
  /\ CallsSoFar /\ RoundsSoFar /\ Replied /\ Heard

-----------------------------------------------------------------------------

\* The task ends, with an answer for the owner.
TaskEnds == <>(pc = "done")

\* "Keep system messages + most recent messages": the model is shown the most
\* recent message.
RecentKept ==
  pc = "call" /\ who = "main" => conv # <<>> /\ conv[Len(conv)].n = said

=============================================================================
