------------------------------ MODULE MCGateway ------------------------------
(* Gateway for TLC: two deliveries of what one sender and another may send. *)
EXTENDS Gateway, TLC

Sender(address) == [address |-> address, named |-> FALSE, capital |-> FALSE, hidden |-> FALSE]

Loud == [Sender("a@x") EXCEPT !.named = TRUE, !.capital = TRUE]

Padded(word) == [Plain(word) EXCEPT !.capital = TRUE, !.hidden = TRUE]

Marked(mark, word) == [Plain(word) EXCEPT !.mark = mark]

Mail(from, body) ==
    [channel |-> "email", key |-> Missing, from |-> from,
     subject |-> <<>>, name |-> <<>>, body |-> body]

CONSTANTS d1, d2

\* A signed message above the one it answers; and a copy with noise.
Hello ==
    Mail(Sender("a@x"), <<Plain("hello"), Marked("signature", Invisible), Plain("b"),
                          Marked("divider", "b"), Marked("quote", "bye")>>)

HelloAgain ==
    [Hello EXCEPT !.from = Loud, !.body[1] = Padded("hello"), !.body[3] = Padded("b")]

\* A form filled in, and the same with noise.
Form == [Mail(Sender("a@x"), <<Plain("hello")>>) EXCEPT !.channel = "web_form", !.name = <<Plain("b")>>]

FormAgain ==
    [Form EXCEPT !.from.capital = TRUE, !.name[1] = Padded("b"), !.body[1] = Padded("hello")]

\* The message, or a form; and its copy, by mail or in another channel, the same
\* words from somebody else, another message with a key of its client's, or a
\* mail with nothing new.
SomePayloads ==
    d1 :> {Hello, Form}
    @@ d2 :> {HelloAgain, FormAgain,
              [HelloAgain EXCEPT !.channel = "messaging", !.body = <<Padded("hello")>>],
              Mail(Sender("b@x"), <<Plain("hello")>>),
              [Mail(Sender("a@x"), <<Plain("bye")>>) EXCEPT !.key = "k"],
              Mail(Sender("a@x"), <<Marked("quote", "hello"), Padded(Invisible)>>)}

\* One message, delivered twice.
OneMessage == d1 :> {Hello} @@ d2 :> {HelloAgain}

\* Sound for the safety run: no property names an enquiry, and no action prefers
\* one.
GatewaySymmetry == Permutations(Enquiries)
=============================================================================
