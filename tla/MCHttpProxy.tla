---------------------------- MODULE MCHttpProxy ----------------------------
(***************************************************************************)
(* Instances of HttpProxy for TLC: bodies of at most two chunks, plain,    *)
(* compressed, damaged or in an encoding that decodeContent does not know; *)
(* hosts with and without a port, and the special one.                     *)
(***************************************************************************)
EXTENDS HttpProxy

CONSTANTS ip, name, special, loopback

Intercepted == [host |-> ip, port |-> 80]
Specials == {special}

Hosts == {NoHost, Intercepted, [host |-> name, port |-> NoPort], [host |-> special, port |-> 80]}

Message(encs, n, damage) == [encodings |-> encs, len |-> n, damage |-> damage]
Messages ==
  {Message(<<>>, n, "none") : n \in 0 .. 2} \cup
  {Message(<<"gzip">>, n, "none") : n \in 0 .. 2} \cup
  {Message(<<"gzip">>, 2, d) : d \in {"header", "data"}} \cup
  {Message(<<"other", "gzip">>, 2, "none"), Message(<<"other">>, 1, "none")}

Ask(m, host, chunked) ==
  [host |-> host, chunked |-> chunked, encodings |-> m.encodings, len |-> m.len, damage |-> m.damage]
Reply(m) == [status |-> 200, encodings |-> m.encodings, len |-> m.len, damage |-> m.damage]

AllRequests == {Ask(m, Intercepted, ch) : m \in Messages, ch \in BOOLEAN}
AllReplies == {Reply(m) : m \in Messages}
PlainRequests == {Ask(Message(<<>>, n, "none"), h, ch) : n \in 0 .. 2, h \in Hosts, ch \in BOOLEAN}
PlainReplies == {Reply(Message(<<>>, n, "none")) : n \in 0 .. 2}

Setup(h, r) == [har |-> h, reuse |-> r]
PlainOrHar == {Setup(FALSE, TRUE), Setup(TRUE, FALSE)}
Plain == {Setup(FALSE, FALSE)}
HarAndReuse == {Setup(TRUE, TRUE)}
=============================================================================
