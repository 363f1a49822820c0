----------------------------- MODULE UdpStack ------------------------------
(***************************************************************************)
(* UDP packets of the subprocess and the DNS answers to them: udp.go, the  *)
(* UDP half of mux.go, dns.go, and the UDP forwarder of httptap.go:728-776.*)
(* Each packet that the mux dispatches gets a handler goroutine of its own,*)
(* which resolves the query and calls Write once.                          *)
(*                                                                         *)
(* With the homegrown stack one reader takes the packets from the device,  *)
(* and every Write serializes into the one SerializeBuffer of the stack,   *)
(* without a lock.  With gvisor each flow has an endpoint with a queue and *)
(* a reading goroutine, and packets are serialized by netstack.            *)
(***************************************************************************)
EXTENDS Naturals, Sequences

CONSTANTS
  Stacks,      \* the stacks to choose from: "homegrown", "gvisor"
  Datagrams,   \* what the subprocess may send
  UdpHandlers, \* patterns of the mux, in order: ports, or Any for "*"
  Any,
  SpecialName, \* host.httptap.local
  SpecialIP,   \* 169.254.77.65
  LinkCap,     \* capacity of toSubprocess: 1000
  MaxPackets   \* bound: packets sent by the subprocess

Forms == {"garbage", "notAQuery", "noQuestion", "query"}
Types == {"A", "AAAA", "other"}

ASSUME StacksAssumption == Stacks \subseteq {"homegrown", "gvisor"}
ASSUME DatagramsAssumption ==
  \A d \in Datagrams : d.port \in Nat /\ d.form \in Forms /\ d.type \in Types
ASSUME BoundsAssumption == LinkCap \in Nat \ {0} /\ MaxPackets \in Nat

Packets == 1 .. MaxPackets  \* packets in order of arrival, and their handlers

VARIABLES
  stack,      \* --stack
  what,       \* the datagrams sent so far, in order
  at,         \* per packet: how far it or its handler is
  reply,      \* per packet: the answer section of its reply
  buf,        \* per buffer: the parts in it, in order
  out,        \* per packet: the bytes its Write copied
  overlapped, \* history: handlers whose Write overlapped with another's
  link,       \* toSubprocess: the packets' numbers
  wire,       \* history: packets written to the device
  crashed     \* whether a data race has ended the process

vars == <<stack, what, at, reply, buf, out, overlapped, link, wire, crashed>>

(* The parts of a packet. *)
IpHeader(t) == [part |-> "ip", flow |-> what[t].flow]
UdpHeader(t) == [part |-> "udp", flow |-> what[t].flow]
Payload(t) == [part |-> "dns", query |-> what[t], answer |-> reply[t]]
Torn == <<[part |-> "torn"]>>

Init ==
  /\ stack \in Stacks
  /\ what = <<>>
  /\ at = [t \in Packets |-> "absent"]
  /\ reply = [t \in Packets |-> {}]
  /\ buf = [b \in {0} \cup Packets |-> <<>>]
  /\ out = [t \in Packets |-> <<>>]
  /\ overlapped = {}
  /\ link = <<>> /\ wire = <<>>
  /\ crashed = FALSE

-----------------------------------------------------------------------------
(* "Bad" variants are the following definition with a plausible bug; see   *)
(* TcpStack.                                                               *)

(* Whether a pattern covers the address a packet was sent to. *)
Matches(pattern, d) == pattern = Any \/ pattern = d.port
Dispatched(d) == \E i \in 1 .. Len(UdpHandlers) : Matches(UdpHandlers[i], d)

(* The packets queue in the device, or in the endpoint of their flow. *)
InTurn(t) ==
  \A u \in 1 .. t - 1 :
    at[u] = "queued" => stack = "gvisor" /\ what[u].flow # what[t].flow

(* Whether handleDNS replies to a datagram at all. *)
BadAnswerable(d) == d.form = "query"
Answerable(d) == d.form \in {"noQuestion", "query"}

(* What the reply may contain: resolvers outside may fail, which leaves it *)
(* empty, but are not asked about the special name's A record.             *)
Special(d) == d.type = "A" /\ d.name = SpecialName
Answers(d) ==
  CASE d.form = "noQuestion" -> {{}}
    [] d.form = "query" /\ Special(d) -> {{SpecialIP}}
    [] d.form = "query" /\ ~Special(d) -> {{}, {"resolved"}}

(* The buffer a handler serializes into, what tmp.Clear leaves in it, and  *)
(* the handlers that use it.                                               *)
BadBufferOf(t) == 0
BufferOf(t) == IF stack = "homegrown" THEN 0 ELSE t
Cleared(b) == <<>>
Writing(t) == at[t] \in {"payload", "udp", "ip", "copy"}
Rivals(t) == {u \in Packets \ {t} : Writing(u) /\ BufferOf(u) = BufferOf(t)}

(* Whether a send on toSubprocess proceeds.  With gvisor, link stands for  *)
(* netstack's own queue, which may be full at any moment.                  *)
BadHasRoom == stack = "gvisor" \/ Len(link) <= LinkCap
HasRoom == stack = "gvisor" \/ Len(link) < LinkCap

-----------------------------------------------------------------------------
Send(d) ==
  /\ ~crashed /\ Len(what) < MaxPackets
  /\ what' = Append(what, d)
  /\ at' = [at EXCEPT ![Len(what')] = "queued"]
  /\ UNCHANGED <<stack, reply, buf, out, overlapped, link, wire, crashed>>

(* handlePacket or the endpoint's reading goroutine, and notifyUDP. *)
Notify(t) ==
  /\ ~crashed /\ at[t] = "queued" /\ InTurn(t)
  /\ at' = [at EXCEPT ![t] = IF Dispatched(what[t]) THEN "handling" ELSE "unheard"]
  /\ UNCHANGED <<stack, what, reply, buf, out, overlapped, link, wire, crashed>>

(* With gvisor the forwarder may fail to create the endpoint of a flow     *)
(* that has none yet: it returns, and the packet is gone.                  *)
Refuse(t) ==
  /\ ~crashed /\ at[t] = "queued" /\ InTurn(t) /\ stack = "gvisor"
  /\ \A u \in 1 .. t - 1 : what[u].flow = what[t].flow => at[u] \in {"refused", "lost"}
  /\ at' = [at EXCEPT ![t] = "refused"]
  /\ UNCHANGED <<stack, what, reply, buf, out, overlapped, link, wire, crashed>>

(* Netstack may drop a packet before an endpoint's goroutine reads it: its *)
(* buffers are bounded, and a TODO (httptap.go:726) says of the forwarder  *)
(* that it "sometimes only ever processes one UDP packet".                 *)
Lose(t) ==
  /\ ~crashed /\ at[t] = "queued" /\ InTurn(t) /\ stack = "gvisor"
  /\ at' = [at EXCEPT ![t] = "lost"]
  /\ UNCHANGED <<stack, what, reply, buf, out, overlapped, link, wire, crashed>>

(* handleDNS up to the call of Write. *)
Ignore(t) ==
  /\ ~crashed /\ at[t] = "handling" /\ ~Answerable(what[t])
  /\ at' = [at EXCEPT ![t] = "ignored"]
  /\ UNCHANGED <<stack, what, reply, buf, out, overlapped, link, wire, crashed>>

Resolve(t) ==
  /\ ~crashed /\ at[t] = "handling" /\ Answerable(what[t])
  /\ \E a \in Answers(what[t]) : reply' = [reply EXCEPT ![t] = a]
  /\ at' = [at EXCEPT ![t] = "clear"]
  /\ UNCHANGED <<stack, what, buf, out, overlapped, link, wire, crashed>>

(* The answer that came from outside cannot be packed. *)
Abandon(t) ==
  /\ ~crashed /\ at[t] = "clear" /\ reply[t] = {"resolved"}
  /\ at' = [at EXCEPT ![t] = "abandoned"]
  /\ UNCHANGED <<stack, what, reply, buf, out, overlapped, link, wire, crashed>>

(* serializeUDP: clear, append the payload, prepend the headers ... *)
Fill(t, step, next, parts) ==
  /\ ~crashed /\ at[t] = step
  /\ at' = [at EXCEPT ![t] = next]
  /\ buf' = [buf EXCEPT ![BufferOf(t)] = parts]
  /\ overlapped' = IF Rivals(t) = {} THEN overlapped ELSE overlapped \cup Rivals(t) \cup {t}
  /\ UNCHANGED <<stack, what, reply, out, link, wire, crashed>>

Serialize(t) ==
  LET b == buf[BufferOf(t)]
  IN \/ Fill(t, "clear", "payload", Cleared(b))
     \/ Fill(t, "payload", "udp", Append(b, Payload(t)))
     \/ Fill(t, "udp", "ip", <<UdpHeader(t)>> \o b)
     \/ Fill(t, "ip", "copy", <<IpHeader(t)>> \o b)

(* ... and copy the result, which after a race may be neither packet. *)
Copy(t) ==
  /\ ~crashed /\ at[t] = "copy"
  /\ at' = [at EXCEPT ![t] = "send"]
  /\ \/ out' = [out EXCEPT ![t] = buf[BufferOf(t)]]
     \/ t \in overlapped /\ out' = [out EXCEPT ![t] = Torn]
  /\ UNCHANGED <<stack, what, reply, buf, overlapped, link, wire, crashed>>

(* Or the slices of the racing buffer are inconsistent: nobody recovers    *)
(* the panic of a handler.                                                 *)
Panic(t) ==
  /\ ~crashed /\ t \in overlapped /\ Writing(t)
  /\ crashed' = TRUE
  /\ UNCHANGED <<stack, what, at, reply, buf, out, overlapped, link, wire>>

Reply(t) ==
  /\ ~crashed /\ at[t] = "send"
  /\ \/ HasRoom /\ at' = [at EXCEPT ![t] = "sent"] /\ link' = Append(link, t)
     \/ /\ stack = "gvisor" \/ ~HasRoom
        /\ at' = [at EXCEPT ![t] = "dropped"] /\ link' = link
  /\ UNCHANGED <<stack, what, reply, buf, out, overlapped, wire, crashed>>

(* copyToDevice, which drops a packet it cannot write. *)
Transmit ==
  /\ ~crashed /\ link # <<>>
  /\ link' = Tail(link)
  /\ wire' \in {wire, Append(wire, Head(link))}
  /\ UNCHANGED <<stack, what, at, reply, buf, out, overlapped, crashed>>

Handler(t) ==
  \/ Notify(t) \/ Ignore(t) \/ Resolve(t) \/ Abandon(t)
  \/ Serialize(t) \/ Copy(t) \/ Panic(t) \/ Reply(t)

Next ==
  \/ \E d \in Datagrams : Send(d)
  \/ \E t \in Packets : Handler(t) \/ Refuse(t) \/ Lose(t)
  \/ Transmit

(* The goroutines run; the resolvers have timeouts.  Netstack need not     *)
(* deliver a packet, but one it delivers is read.                          *)
Fairness == (\A t \in Packets : WF_vars(Handler(t))) /\ WF_vars(Transmit)

Spec == Init /\ [][Next]_vars /\ Fairness

-----------------------------------------------------------------------------
Stages == {"absent", "queued", "refused", "lost", "unheard", "handling", "ignored", "clear",
           "abandoned", "payload", "udp", "ip", "copy", "send", "sent", "dropped"}

TypeOK ==
  /\ stack \in Stacks
  /\ what \in Seq(Datagrams) /\ Len(what) <= MaxPackets
  /\ at \in [Packets -> Stages]
  /\ \A t \in Packets : at[t] = "absent" <=> t > Len(what)
  /\ reply \in [Packets -> SUBSET {SpecialIP, "resolved"}]
  /\ overlapped \subseteq Packets
  /\ stack = "homegrown" => Len(link) <= LinkCap
  /\ link \in Seq(Packets) /\ wire \in Seq(Packets)
  /\ crashed \in BOOLEAN

(* The packet a handler means to send: back along the flow of its query,   *)
(* with its own answer.                                                    *)
Own(t) == <<IpHeader(t), UdpHeader(t), Payload(t)>>
Sent(t) == at[t] = "sent"

(* With gvisor, however the handlers interleave, and with the homegrown    *)
(* stack unless two Writes overlap, a reply carries the headers of its own *)
(* flow and the answer to its own query (udp.go:127-135): nothing of what  *)
(* was serialized before is left in the buffer.                            *)
RepliesMatch ==
  \A t \in Packets :
    Sent(t) /\ (stack = "gvisor" \/ t \notin overlapped) => out[t] = Own(t)

(* dns.go:30-32: a query is answered also when resolving it fails, with an *)
(* empty answer: a handler that gets one always comes to its Write, which  *)
(* sends the reply unless there is no room towards the subprocess; only an *)
(* answer from outside may be abandoned, as one that cannot be packed.  A  *)
(* query always reaches its handler with the homegrown stack, but not with *)
(* gvisor (httptap.go:726, 737-741).  A data race may end the process.     *)
Answered(t) ==
  \/ at[t] \in {"sent", "dropped"}
  \/ at[t] = "abandoned" /\ reply[t] = {"resolved"}
  \/ at[t] \in {"refused", "lost"} /\ stack = "gvisor"

QueriesAnswered ==
  \A t \in Packets :
    at[t] = "queued" /\ Dispatched(what[t]) /\ what[t].form \in {"noQuestion", "query"} ~>
      Answered(t) \/ crashed

(* mux.go:39, "each call of w.Write sends a UDP packet that seems to come  *)
(* from the destination to which the original packet was sent": a packet   *)
(* with an IP header has that of its own flow.                             *)
SentFromDestination ==
  \A t \in Packets :
    Sent(t) /\ out[t] # <<>> /\ Head(out[t]).part = "ip" => Head(out[t]) = IpHeader(t)
=============================================================================
