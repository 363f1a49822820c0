----------------------------- MODULE MCTcpProxy -----------------------------
(***************************************************************************)
(* An instance of TcpProxy for TLC: one connection for the HTTP proxy and  *)
(* one for proxyTCP, which compete for one slot.                           *)
(***************************************************************************)
EXTENDS TcpProxy

CONSTANTS web, raw

Both == {web, raw}
Ports == [c \in Both |-> IF c = web THEN 443 ELSE 22]
Intercepted == <<80, 443>>
=============================================================================
