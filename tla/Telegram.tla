----------------------------- MODULE Telegram -----------------------------
(***************************************************************************)
(* The chat with the owner: the main loop of the launcher                  *)
(* (scripts/colab_launcher.py) polls Telegram for updates, makes tasks of  *)
(* them, then takes the workers' events and sends the messages among them  *)
(* (supervisor/events.py, supervisor/telegram.py).                         *)
(*                                                                         *)
(* Requests and their answers get lost, and are repeated.  Telegram keeps  *)
(* an update until a poll asks for later ones.  The process may end at any *)
(* step; the next one polls from the start.                                *)
(***************************************************************************)
EXTENDS MessageParts, Integers

CONSTANTS
  Messages,     \* what workers send: [form, body]
  Attempts,     \* of a request
  MaxUpdates,   \* bound: updates
  MaxMessages,  \* bound: messages of workers
  MaxRestarts   \* bound: ends of the process

ASSUME TelegramAssumption ==
  /\ Messages \subseteq [form : {"photo", "plain"}, body : Seq(Char)]
                   \cup [form : {"markdown"}, body : Seq(PageLine)]
  /\ Attempts \in Nat \ {0}
  /\ MaxUpdates \in Nat /\ MaxMessages \in Nat /\ MaxRestarts \in Nat

VARIABLES
  updates,    \* what each update is; its number is its id
  confirmed,  \* Telegram has forgotten the updates up to this one
  offset,     \* update_offset
  batch,      \* the updates of an answer that are still to be handled
  tasks,      \* the updates that this process has made tasks of, in order,
  made,       \* and those that any process has
  phase,      \* where the main loop is
  tries,      \* failed attempts of the request
  events,     \* EVENT_Q: numbers of messages
  written,    \* how many messages workers have sent
  sending,    \* the message, its form and body, its next part, how many it has
  chat,       \* the parts the owner sees, and of which messages
  reported,   \* messages that were sent "OK", with the number of their parts
  restarts

telegram == <<updates, confirmed>>
inbound == <<offset, batch, tasks, made>>
outbound == <<events, written, sending, chat, reported>>
vars == <<telegram, inbound, phase, tries, outbound, restarts>>

-----------------------------------------------------------------------------
(* Messages.                                                               *)

\* The line about the budget is appended to every tenth message.
WithBudget(form, body) ==
  IF form = "markdown" THEN body \o <<Line(Len(body) + 1, 1, "text")>>
  ELSE body \o <<"newline", "letter">>

\* The parts that are sent; a text of white space is not.
Parts(form, body) ==
  CASE form = "photo" -> <<body>>
    [] form = "markdown" -> chunk_markdown(body)
    [] OTHER -> IF \A i \in DOMAIN body : body[i] = "newline" THEN <<>>
                ELSE split_telegram(body)

\* The messages as they are sent: their forms, and the numbers of their parts.
Outgoing ==
  {[form |-> m.form,
    count |-> Len(Parts(m.form, IF due /\ m.form # "photo" THEN WithBudget(m.form, m.body)
                                ELSE m.body))] : m \in Messages, due \in BOOLEAN}

Nothing == [message |-> 0, form |-> "photo", part |-> 0, count |-> 0]

-----------------------------------------------------------------------------

Init ==
  /\ updates = <<>> /\ confirmed = 0
  /\ offset = 0 /\ batch = {} /\ tasks = <<>> /\ made = {}
  /\ phase = "poll" /\ tries = 0
  /\ events = <<>> /\ written = 0 /\ sending = Nothing /\ chat = <<>> /\ reported = {}
  /\ restarts = 0

\* The owner writes, or does something else that Telegram tells.
OwnerWrites ==
  /\ Len(updates) < MaxUpdates
  /\ \E u \in {"text", "other"} : updates' = Append(updates, u)
  /\ UNCHANGED <<confirmed, inbound, phase, tries, outbound, restarts>>

-----------------------------------------------------------------------------
(* get_updates.                                                            *)

\* A request with this offset reaches Telegram.
Confirmed == IF offset > confirmed THEN offset - 1 ELSE confirmed

Pending == {u \in DOMAIN updates : u > Confirmed /\ u >= offset}

\* The answer has the first updates, at least one if there is one.
PollAnswered ==
  /\ phase = "poll"
  /\ confirmed' = Confirmed
  /\ \E n \in DOMAIN updates \cup {0} :
       /\ batch' = {u \in Pending : u <= n}
       /\ Pending # {} => batch' # {}
  /\ phase' = "batch" /\ tries' = 0
  /\ UNCHANGED <<updates, offset, tasks, made, outbound, restarts>>

\* The request is lost, or its answer; after the last attempt the poll raises.
PollUnanswered ==
  /\ phase = "poll"
  /\ confirmed' \in {confirmed, Confirmed}
  /\ \/ tries + 1 < Attempts /\ tries' = tries + 1 /\ UNCHANGED phase
     \/ tries + 1 = Attempts /\ tries' = 0 /\ phase' = "events"
  /\ UNCHANGED <<updates, inbound, outbound, restarts>>

-----------------------------------------------------------------------------
(* The loop over the updates.                                              *)

Earliest(u) == u \in batch /\ \A v \in batch : u <= v

\* (mutant) The offset of the whole batch, once for all.
AfterBatch(u) == 1 + CHOOSE w \in batch : \A v \in batch : v <= w

\* (mutant) The id of the update itself.
SameAgain(u) == u

\* The offset is set before the update is handled.
OffsetAfter(u) == u + 1

\* A task for a text; what assign_tasks raises ends the loop.
Handle(u) ==
  /\ phase = "batch" /\ Earliest(u)
  /\ offset' = OffsetAfter(u)
  /\ IF updates[u] = "text" THEN tasks' = Append(tasks, u) /\ made' = made \cup {u}
     ELSE UNCHANGED <<tasks, made>>
  /\ \/ batch' = batch \ {u} /\ UNCHANGED phase
     \/ updates[u] = "text" /\ batch' = {} /\ phase' = "events"
  /\ UNCHANGED <<telegram, tries, outbound, restarts>>

EndBatch ==
  /\ phase = "batch" /\ batch = {} /\ phase' = "events"
  /\ UNCHANGED <<telegram, inbound, tries, outbound, restarts>>

-----------------------------------------------------------------------------
(* The drain of the events, and send_with_budget.                          *)

WorkerSends ==
  /\ written < MaxMessages /\ written' = written + 1
  /\ events' = Append(events, written + 1)
  /\ UNCHANGED <<telegram, inbound, phase, tries, sending, chat, reported, restarts>>

\* A message without a part is dropped here.
BeginMessage ==
  /\ phase = "events" /\ events # <<>>
  /\ events' = Tail(events)
  /\ \E m \in Outgoing :
       IF m.count = 0 THEN UNCHANGED <<phase, sending>>
       ELSE /\ phase' = "send"
            /\ sending' = [message |-> Head(events), form |-> m.form,
                           part |-> 1, count |-> m.count]
  /\ UNCHANGED <<telegram, inbound, tries, written, chat, reported, restarts>>

EndDrain ==
  /\ phase = "events" /\ events = <<>> /\ phase' = "poll"
  /\ UNCHANGED <<telegram, inbound, tries, outbound, restarts>>

\* A part that comes once more, as the answer was lost, is recorded once.
Arrives ==
  LET part == <<sending.message, sending.part>>
  IN  chat' = IF chat # <<>> /\ chat[Len(chat)] = part THEN chat ELSE Append(chat, part)

GiveUp ==
  /\ phase' = "events" /\ sending' = Nothing
  /\ UNCHANGED reported

NextPart ==
  IF sending.part < sending.count
  THEN /\ sending' = [sending EXCEPT !.part = @ + 1,
                        !.form = IF @ = "stripped" THEN "markdown" ELSE @]
       /\ UNCHANGED <<phase, reported>>
  ELSE /\ reported' = reported \cup {<<sending.message, sending.count>>}
       /\ phase' = "events" /\ sending' = Nothing

\* (mutant) A part that cannot be sent is left out.
LeaveOut == NextPart

\* A part that cannot be sent as HTML is sent as plain text, unless nothing is
\* left without the markers; otherwise it is the last.
PartFails ==
  \/ /\ sending.form = "markdown"
     /\ sending' = [sending EXCEPT !.form = "stripped"]
     /\ UNCHANGED <<phase, reported>>
  \/ GiveUp

SendAnswered ==
  /\ phase = "send" /\ Arrives
  /\ NextPart
  /\ tries' = 0
  /\ UNCHANGED <<telegram, inbound, events, written, restarts>>

\* The request is lost, refused, or its answer is lost.
SendUnanswered ==
  /\ phase = "send" /\ (Arrives \/ UNCHANGED chat)
  /\ \/ /\ tries + 1 < Attempts /\ tries' = tries + 1
        /\ UNCHANGED <<phase, sending, reported>>
     \/ /\ tries + 1 = Attempts /\ tries' = 0
        /\ PartFails
  /\ UNCHANGED <<telegram, inbound, events, written, restarts>>

-----------------------------------------------------------------------------

\* The process ends anywhere and is started again.
Restart ==
  /\ restarts < MaxRestarts /\ restarts' = restarts + 1
  /\ offset' = 0 /\ batch' = {} /\ tasks' = <<>>
  /\ phase' = "poll" /\ tries' = 0
  /\ events' = <<>> /\ sending' = Nothing
  /\ UNCHANGED <<telegram, made, written, chat, reported>>

Receive ==
  PollAnswered \/ PollUnanswered \/ (\E u \in batch : Handle(u)) \/ EndBatch

Send == BeginMessage \/ EndDrain \/ SendAnswered \/ SendUnanswered

Next == OwnerWrites \/ WorkerSends \/ Receive \/ Send \/ Restart

Spec == Init /\ [][Next]_vars

\* The loop goes on, and not every poll fails.
FairSpec == Spec /\ WF_vars(Receive \/ Send) /\ SF_vars(PollAnswered)

-----------------------------------------------------------------------------
(* Properties.                                                             *)

\* Telegram forgets no text before a process has made a task of it, whatever is
\* lost, raised or restarted in between.
ConfirmedIsTask ==
  \A u \in DOMAIN updates : u <= confirmed /\ updates[u] = "text" => u \in made

\* A process makes one task of an update, in the order of the updates.
TasksInOrder == \A i, j \in DOMAIN tasks : i < j => tasks[i] < tasks[j]

Before(a, b) == a[1] < b[1] \/ (a[1] = b[1] /\ a[2] < b[2])

\* The owner sees the messages in the order of the queue and the parts of each in
\* order without a gap, and all parts of a message that was reported as sent.
PartsInOrder ==
  /\ \A i, j \in DOMAIN chat : i < j => Before(chat[i], chat[j])
  /\ \A j \in DOMAIN chat : chat[j][2] > 1 =>
       \E i \in 1..j : chat[i] = <<chat[j][1], chat[j][2] - 1>>
  /\ \A r \in reported : \E i \in DOMAIN chat : chat[i] = r

\* While a message is sent, its parts contain its text, whatever it is.
TextKept == phase = "send" => AllKept

\* Every text becomes a task.
Heard ==
  \A u \in 1..MaxUpdates :
    (u \in DOMAIN updates /\ updates[u] = "text") ~> (u \in made)

-----------------------------------------------------------------------------
(* The inductive invariant of the proofs.                                  *)

TypeOK ==
  /\ updates \in Seq({"text", "other"}) /\ confirmed \in Nat
  /\ offset \in Nat /\ batch \subseteq DOMAIN updates
  /\ tasks \in Seq(Nat) /\ made \subseteq DOMAIN updates
  /\ phase \in {"poll", "batch", "events", "send"} /\ tries \in 0..Attempts - 1
  /\ events \in Seq(Nat) /\ written \in Nat
  /\ sending \in [message : Nat, form : {"photo", "plain", "markdown", "stripped"},
                  part : Nat, count : Nat]
  /\ chat \in Seq(Nat \X Nat) /\ reported \subseteq Nat \X Nat
  /\ restarts \in Nat

\* Telegram forgets, and the process skips, only updates that exist.
Bounded == confirmed <= Len(updates) /\ offset <= Len(updates) + 1

\* Every text is a task, or Telegram will tell it again.
Followed ==
  \A u \in DOMAIN updates : updates[u] = "text" =>
    u \in made \/ (u > confirmed /\ u >= offset)

\* The texts before one that is still to be handled are tasks, or so are they.
Gapless ==
  \A u \in batch : u >= offset /\ \A v \in DOMAIN updates :
    v < u /\ updates[v] = "text" => v \in made \/ v \in batch

\* The process polls for what comes after its tasks.
Handled == \A i \in DOMAIN tasks : tasks[i] < offset

\* What is still to be sent comes after what the owner sees.
Sent ==
  /\ \A i, j \in DOMAIN events : i < j => events[i] < events[j]
  /\ \A i \in DOMAIN events : events[i] > sending.message /\ events[i] <= written
  /\ sending.message <= written
  /\ \A i \in DOMAIN chat : chat[i][1] <= written /\ \A j \in DOMAIN events : chat[i][1] < events[j]
  /\ phase = "send" =>
       /\ 1 <= sending.part /\ sending.part <= sending.count
       /\ \A i \in DOMAIN chat : Before(chat[i], <<sending.message, sending.part + 1>>)
       /\ sending.part > 1 =>
            \E i \in DOMAIN chat : chat[i] = <<sending.message, sending.part - 1>>

IInv ==
  /\ TypeOK
  /\ Bounded /\ Followed /\ Gapless /\ Handled /\ TasksInOrder
  /\ Sent /\ PartsInOrder

=============================================================================
