---------------------------- MODULE MCUdpStack -----------------------------
(***************************************************************************)
(* Instances of UdpStack for TLC: two flows to port 53, one elsewhere; a   *)
(* query may be repeated, as a resolver does after its timeout.            *)
(***************************************************************************)
EXTENDS UdpStack

CONSTANTS f1, f2, name

Datagram(f, port, form, type, n) ==
  [flow |-> f, port |-> port, form |-> form, type |-> type, name |-> n]

Queries ==
  {Datagram(f1, 53, "query", "A", SpecialName), Datagram(f1, 53, "query", "A", name),
   Datagram(f2, 53, "query", "AAAA", SpecialName), Datagram(f2, 53, "query", "other", name)}
Oddities ==
  {Datagram(f1, 53, "garbage", "other", name), Datagram(f2, 53, "noQuestion", "other", name),
   Datagram(f2, 123, "query", "A", name)}

Mixed == Queries \cup Oddities
DnsOnly == <<53>>
BothStacks == {"homegrown", "gvisor"}
Homegrown == {"homegrown"}
=============================================================================
