---------------------------- MODULE Normalization ----------------------------
(***************************************************************************)
(* What the gateway makes of a delivery before anything is stored:         *)
(* Normalize and DedupeHash (internal/ingest/normalize.go).                *)
(*                                                                         *)
(* A text is a sequence of lines of one word each: the hash collapses      *)
(* white space, and the patterns look only at how a line begins.  A line   *)
(* bears the mark of a quotation (>), of a reply divider (On ... wrote:)   *)
(* or of a signature (--), or none; `hidden` says that invisible runes     *)
(* precede the mark or pad the word, `capital` that it is written in upper *)
(* case.  A blank text is the empty sequence.                              *)
(***************************************************************************)
EXTENDS Integers, Sequences, FiniteSets

CONSTANTS
    Words,      \* what people write
    Addresses,  \* senders
    Keys,       \* idempotency_key of a delivery that has one
    Missing     \* the address or the key of one that has none

Invisible == ""

\* What the form itself writes.
Labels == {"Subject:", "Name:", "Email:"}

\* What stands before an address in the form "Name <addr>".
DisplayName == "display name"

Marks == {"none", "quote", "divider", "signature"}

Lines == [mark : Marks, word : Words \cup Addresses \cup {DisplayName, Invisible},
          capital : BOOLEAN, hidden : BOOLEAN]

\* `from` stands for the field the channel takes its sender from, `name` for the
\* other fields of the form; `named` is the form "Name <addr>".
IsPayload(p) ==
    /\ p.channel \in {"email", "web_form", "messaging"}
    /\ p.key \in Keys \cup {Missing}
    /\ p.from \in [address : Addresses \cup {Missing}, named : BOOLEAN,
                   capital : BOOLEAN, hidden : BOOLEAN]
    /\ p.subject \in Seq(Lines) /\ p.name \in Seq(Lines) /\ p.body \in Seq(Lines)
    /\ p.name # <<>> => p.channel = "web_form"

Plain(word) == [mark |-> "none", word |-> word, capital |-> FALSE, hidden |-> FALSE]

-----------------------------------------------------------------------------

\* strings.ToLower and the display name of ParseAddress; invisible runes stay.
normalizeSender(from) == <<from.address, from.hidden>>

\* What the pattern of this mark, tried on the raw line, matches.
Matches(line, mark) == line.mark = mark /\ ~line.hidden

\* The lines at these positions, in their order.
Pick(lines, kept) ==
    [n \in 1..Cardinality(kept) |->
        lines[CHOOSE i \in kept : Cardinality({j \in kept : j <= i}) = n]]

\* Of the lines kept so far, those before the first match.
Before(lines, kept, mark) ==
    {i \in kept : \A j \in kept : j <= i => ~Matches(lines[j], mark)}

Newest(lines) ==
    LET above == Before(lines, DOMAIN lines, "divider") IN
    Before(lines, {i \in above : ~Matches(lines[i], "quote")}, "signature")

trimQuotedReply(lines) == Pick(lines, Newest(lines))

labeled(label, lines) == IF lines = <<>> THEN <<>> ELSE <<Plain(label)>> \o lines

\* Variant: invisible runes stay.
cleanVisible(lines) == lines

\* dropInvisible: a line of invisible runes alone is blank then, and the mark
\* of a line the patterns overlooked is text.
clean(lines) ==
    LET shown == {i \in DOMAIN lines : lines[i].word # Invisible \/ lines[i].mark # "none"} IN
    [n \in DOMAIN Pick(lines, shown) |-> [Pick(lines, shown)[n] EXCEPT !.hidden = FALSE]]

Body(p) == IF p.channel = "email" THEN trimQuotedReply(p.body) ELSE p.body

\* The form's own fields become part of the text, its address as it was typed.
Email(p) ==
    IF p.channel # "web_form" \/ p.from.address = Missing THEN <<>>
    ELSE (IF p.from.named THEN <<Plain(DisplayName)>> ELSE <<>>)
         \o <<[Plain(p.from.address) EXCEPT !.capital = p.from.capital, !.hidden = p.from.hidden]>>

Raw(p) ==
    ((labeled("Subject:", p.subject) \o labeled("Name:", p.name)) \o labeled("Email:", Email(p)))
    \o Body(p)

Text(p) == clean(Raw(p))

ToLower(text) == [i \in DOMAIN text |-> [text[i] EXCEPT !.capital = FALSE]]

\* Variant: the text alone.
DedupeHashOfText(sender, text) == ToLower(text)

\* SHA-256 of the sender and the text in lower case, taken to be injective.
DedupeHash(sender, text) == <<sender, ToLower(text)>>

Accepted(p) == p.from.address # Missing /\ Text(p) # <<>>

IdempotencyKey(p) ==
    IF p.key # Missing THEN <<"client", p.key>>
    ELSE <<"auto", DedupeHash(normalizeSender(p.from), Text(p))>>

-----------------------------------------------------------------------------
(* What the properties compare.                                            *)

(***************************************************************************)
(* What a person reads as new in a delivery: the words that are neither    *)
(* quoted nor part of a signature, whatever runes pad them.  (A label of   *)
(* the form is nothing anybody says.)                                      *)
(***************************************************************************)
Unmarked(lines) == {i \in DOMAIN lines : lines[i].mark = "none"}

New(p) ==
    {i \in Unmarked(p.body) :
        p.channel = "email" => \A j \in 1..i : ~Matches(p.body[j], "signature")}

Read(lines, positions) == {lines[i].word : i \in positions} \ ({Invisible} \cup Labels)

Said(p) ==
    UNION {Read(p.subject, Unmarked(p.subject)), Read(p.name, Unmarked(p.name)),
           Read(Email(p), Unmarked(Email(p))), Read(p.body, New(p))}

\* Nothing new is written below the divider of a mail: trimQuotedReply cuts it.
TopPosted(p) ==
    p.channel = "email" =>
        \A i \in New(p) : \A j \in 1..i : ~Matches(p.body[j], "divider")

\* p and q are one text for whoever reads them: they differ in case, in runes
\* that pad a word but precede no mark and, where it is not part of the text, in
\* the sender's display name.
NoiseApart(ps, qs) ==
    /\ DOMAIN ps = DOMAIN qs
    /\ \A i \in DOMAIN ps :
          /\ ps[i].mark = qs[i].mark /\ ps[i].word = qs[i].word
          /\ ps[i].mark # "none" => ps[i].hidden = qs[i].hidden

SameButForNoise(p, q) ==
    /\ p.channel = q.channel
    /\ p.from.address = q.from.address /\ p.from.hidden = q.from.hidden
    /\ p.channel = "web_form" => p.from.named = q.from.named
    /\ NoiseApart(p.subject, q.subject)
    /\ NoiseApart(p.name, q.name)
    /\ NoiseApart(p.body, q.body)
=============================================================================
