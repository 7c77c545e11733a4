--------------------------- MODULE MessageParts ---------------------------
(***************************************************************************)
(* How a text is cut into parts that Telegram accepts                      *)
(* (supervisor/telegram.py): split_telegram for plain texts, and for       *)
(* Markdown _chunk_markdown_for_telegram, which closes a fence of code at  *)
(* the end of a part and opens it again in the next.                       *)
(***************************************************************************)
EXTENDS Naturals, Sequences, SequencesExt

\* A character of a plain text, and a line of a Markdown text.
Char == {"letter", "newline"}
PageLine == [number : Nat \ {0}, size : Nat, kind : {"text", "blank", "fence"}]

CONSTANTS
  Limit,      \* of split_telegram, in characters
  Least,      \* a newline before this position is no place to cut
  MaxSize,    \* max_chars of a Markdown part
  FenceSize,  \* the size of the line that closes a fence
  Texts,      \* plain texts, sequences of characters and "newline"s
  Pages       \* Markdown texts, sequences of lines

ASSUME MessagePartsAssumption ==
  /\ Least \in Nat \ {0} /\ Limit \in Nat /\ Least < Limit
  /\ MaxSize \in Nat /\ FenceSize \in Nat
  /\ Texts \subseteq Seq(Char) /\ Pages \subseteq Seq(PageLine)

-----------------------------------------------------------------------------
(* Plain texts.                                                            *)

\* How many characters of a text that is too long come into its first part: those
\* before the last newline that is early enough and not too early.
Cut(s) ==
  LET cut == SelectLastInSubSeq(s, Least + 1, Limit, LAMBDA c : c = "newline")
  IN  IF cut = 0 THEN Limit ELSE cut - 1

\* (mutant) The newline itself is dropped.
AfterNewline(s) == SubSeq(s, IF Cut(s) = Limit THEN Limit + 1 ELSE Cut(s) + 2, Len(s))

Remainder(s) == SubSeq(s, Cut(s) + 1, Len(s))

\* The body of the loop, which does nothing once the rest is short enough.
Split(st) ==
  IF Len(st.rest) <= Limit THEN st
  ELSE [chunks |-> Append(st.chunks, SubSeq(st.rest, 1, Cut(st.rest))),
        rest |-> Remainder(st.rest)]

\* Every turn takes a character at least.
split_telegram(s) ==
  LET after[k \in 0..Len(s)] ==
        IF k = 0 THEN [chunks |-> <<>>, rest |-> s] ELSE Split(after[k - 1])
  IN  Append(after[Len(s)].chunks, after[Len(s)].rest)

-----------------------------------------------------------------------------
(* Markdown texts.  A line has a size and a kind; a line of the text knows *)
(* its number, and a line that is added to a part has the number 0.        *)

Line(n, size, kind) == [number |-> n, size |-> size, kind |-> kind]

Closing == Line(0, FenceSize, "fence")

Blank(part) == \A i \in DOMAIN part : part[i].kind = "blank"

PartSize(part) ==
  LET sum[k \in 0..Len(part)] == IF k = 0 THEN 0 ELSE sum[k - 1] + part[k].size
  IN  sum[Len(part)]

\* _flush, which forgets a part of blank lines only.
Flushed(parts, part) == IF Blank(part) THEN parts ELSE Append(parts, part)

\* The body of the loop over the lines.
Placed(s, line) ==
  LET inside == IF line.kind = "fence" THEN ~s.inside ELSE s.inside
      opening == IF line.kind = "fence" /\ inside THEN [line EXCEPT !.number = 0] ELSE s.opening
      room == IF inside THEN MaxSize - FenceSize ELSE MaxSize
  IN  IF PartSize(s.part) + line.size <= room
      THEN [parts |-> s.parts, part |-> Append(s.part, line), inside |-> inside, opening |-> opening]
      ELSE [parts |-> Flushed(s.parts, IF inside /\ s.part # <<>>
                                       THEN Append(s.part, Closing) ELSE s.part),
            part |-> (IF inside THEN <<opening>> ELSE <<>>) \o <<line>>,
            inside |-> inside, opening |-> opening]

chunk_markdown(page) ==
  LET after[k \in 0..Len(page)] ==
        IF k = 0 THEN [parts |-> <<>>, part |-> <<>>, inside |-> FALSE, opening |-> Closing]
        ELSE Placed(after[k - 1], page[k])
      end == after[Len(page)]
  IN  Flushed(end.parts, IF end.inside THEN Append(end.part, Closing) ELSE end.part)

-----------------------------------------------------------------------------
(* Properties.                                                             *)

PlainKept(s) ==
  /\ FlattenSeq(split_telegram(s)) = s
  /\ \A i \in DOMAIN split_telegram(s) : Len(split_telegram(s)[i]) <= Limit

\* The lines of the text among those of its parts.
Own(lines) ==
  FlattenSeq([k \in DOMAIN lines |->
                IF lines[k].number = 0 \/ lines[k].kind = "blank" THEN <<>> ELSE <<lines[k]>>])

\* Two lines and the end of a fence fit into a part.
Narrow(page) == \A i \in DOMAIN page : 2 * page[i].size + FenceSize <= MaxSize

\* A part may exceed max_chars by the fence that is closed at its end, and by no
\* more unless a line is very long.
PageKept(page) ==
  LET parts == chunk_markdown(page)
  IN  /\ Own(FlattenSeq(parts)) = Own(page)
      /\ Narrow(page) => \A i \in DOMAIN parts : PartSize(parts[i]) <= MaxSize + FenceSize

\* What the parts of a text contain is the text: nothing is lost, repeated or
\* reordered at a cut, only blank lines of Markdown; and no part is too large.
AllKept == (\A s \in Texts : PlainKept(s)) /\ (\A page \in Pages : PageKept(page))

=============================================================================
