---------------------------- MODULE MCTelegram ----------------------------
(* Telegram with small limits: every text of up to nine characters and     *)
(* every page of up to five lines, a message in plain text, one in         *)
(* Markdown, one of white space, and a photo.                              *)
EXTENDS Telegram

AllTexts == UNION {[1..n -> Char] : n \in 0..9}

Kinds == {<<1, "text">>, <<2, "text">>, <<1, "blank">>, <<1, "fence">>, <<2, "fence">>}

Page(k) == [i \in DOMAIN k |-> Line(i, k[i][1], k[i][2])]

AllPages == {Page(k) : k \in UNION {[1..n -> Kinds] : n \in 0..5}}

Forms ==
  {[form |-> "plain", body |-> <<"newline">>],
   [form |-> "plain", body |-> <<"letter", "letter", "newline", "letter">>],
   [form |-> "markdown", body |-> Page(<<<<1, "fence">>, <<2, "text">>, <<2, "text">>>>)],
   [form |-> "photo", body |-> <<>>]}

=============================================================================
