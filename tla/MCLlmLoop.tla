----------------------------- MODULE MCLlmLoop -----------------------------
(* LlmLoop with the size of a prompt that leaves room for a conversation,  *)
(* and of the repository's own prompts.                                    *)
EXTENDS LlmLoop

Sizes == {9000, 12402}

OwnSize == {12402}

\* The conversation with the numbers of its messages counted from the last one.
Relative == [i \in 1..Len(conv) |-> [conv[i] EXCEPT !.n = said - @]]

\* What later steps depend on.  Once a round's reply is there its calls of the model
\* do not matter, nor does the conversation at the end of a task.
View ==
  CASE pc \in {"finally", "report", "done"} ->
         <<pc, round, who, chats, mailbox, ears, crashes>>
    [] pc \in {"tools", "round"} ->
         <<pc, round, Relative, system, batch, mailbox, ears, crashes>>
    [] OTHER ->
         <<pc, round, who, attempt, chats, Relative, system, mailbox, ears, crashes>>

=============================================================================
