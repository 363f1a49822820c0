---------------------------- MODULE MCTcpStack ----------------------------
(***************************************************************************)
(* Instances of TcpStack for TLC.  The segments are those of one exchange  *)
(* of the subprocess's kernel, any of which may be repeated, lost or       *)
(* reordered.  Sequence numbers start at 6 of Modulus = 8, so that they    *)
(* wrap around within the exchange.                                        *)
(***************************************************************************)
EXTENDS TcpStack

CONSTANTS c1, c2

Seg(syn, a, fin, n, l) == [syn |-> syn, ack |-> a, fin |-> fin, seq |-> n, len |-> l]

Syn == Seg(TRUE, FALSE, FALSE, 6, 0)
Ack == Seg(FALSE, TRUE, FALSE, 7, 0)
Data == Seg(FALSE, TRUE, FALSE, 7, 1)
Fin == Seg(FALSE, TRUE, TRUE, 0, 0)
FinData == Seg(FALSE, TRUE, TRUE, 0, 1)

OneConn == {c1}
TwoConns == {c1, c2}

Exchange == {Syn, Ack, Data, FinData}
Teardown == {Syn, Ack, Fin}

(* A kernel that acknowledges a handshake only once it has been answered.  *)
Answered ==
  \A c \in Conns : heard[c].acked => \E i \in 1 .. Len(wire[c]) : wire[c][i].kind = "SYN+ACK"
=============================================================================
