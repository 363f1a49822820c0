------------------------------ MODULE TcpProxy ------------------------------
(***************************************************************************)
(* TCP connections through netstack's forwarder: a SYN takes one of the    *)
(* slots in flight, the mux hands the request to the first entry that      *)
(* matches, the entry accepts it and frees the slot, and proxyTCP copies   *)
(* both ways between the subprocess and the world.  The forwarder,         *)
(* netstack's endpoints and the two peers are external.                    *)
(***************************************************************************)
EXTENDS Integers, Sequences, FiniteSets

CONSTANTS
  Conns,       \* connections of the subprocess
  Port,        \* the port each goes to
  HttpPorts,   \* ports of --http and then --https
  MaxInFlight, \* 100
  MaxSyns,     \* bound: SYNs per connection
  MaxChunks    \* bound: what each side sends, in reads of the proxy

ASSUME PortsAssumption == Port \in [Conns -> Nat] /\ HttpPorts \in Seq(Nat)
ASSUME BoundsAssumption == MaxInFlight \in Nat \ {0} /\ MaxSyns \in Nat /\ MaxChunks \in Nat

Sides == {"subprocess", "world"}
Other == [subprocess |-> "world", world |-> "subprocess"]

VARIABLES
  syns,     \* per connection: SYNs sent
  at,       \* how far its request is
  handlers, \* goroutines that have its request
  peer,     \* per side: "open", "finished" (it has sent a FIN), "reset"
  closed,   \* per side: whether the proxy has closed its connection
  sent,     \* per side: chunks sent to the proxy
  read,     \* per side: chunks the proxy has read
  pump,     \* per side: the goroutine that reads from it
  buf,      \* the buffers of the pumps
  got       \* per side: chunks received from the proxy

forwarder == <<syns, at, handlers>>
peers == <<peer, sent>>
proxy == <<closed, read, pump, buf, got>>
vars == <<forwarder, peers, proxy>>

PerSide(v) == [c \in Conns |-> [s \in Sides |-> v]]
Nothing == [from |-> "none", n |-> 0]

Init ==
  /\ syns = [c \in Conns |-> 0] /\ at = [c \in Conns |-> "none"] /\ handlers = [c \in Conns |-> 0]
  /\ peer = PerSide("open") /\ sent = PerSide(0)
  /\ closed = PerSide(FALSE) /\ read = PerSide(0) /\ pump = PerSide("off")
  /\ buf = PerSide(Nothing) /\ got = PerSide(<<>>)

-----------------------------------------------------------------------------
(* "Bad" variants are the following definition with a plausible bug.       *)

(* The mux's entries in order of registration: Main ends with "*".         *)
Any == -1
BadTable == HttpPorts
Table == Append(HttpPorts, Any)

Matching(c) == {i \in DOMAIN Table : Table[i] \in {Any, Port[c]}}
First(c) == CHOOSE i \in Matching(c) : \A j \in Matching(c) : i <= j

(* A request holds its slot until Complete. *)
BadHolding == {"requested", "dropped"}
Holding == {"requested", "accepting", "endpoint", "failed", "dropped"}
InFlight == {c \in Conns : at[c] \in Holding}
Established == {"endpoint", "http", "dialing", "proxying", "unreachable"}

(* The forwarder ignores a SYN of a connection in flight, and any when     *)
(* there are too many; one that has an endpoint does not reach it.         *)
Syn(c) ==
  /\ syns[c] < MaxSyns
  /\ syns' = [syns EXCEPT ![c] = @ + 1]
  /\ \/ /\ c \in InFlight \/ Cardinality(InFlight) >= MaxInFlight \/ at[c] \in Established
        /\ UNCHANGED <<at, handlers>>
     \/ /\ c \notin InFlight /\ Cardinality(InFlight) < MaxInFlight /\ at[c] \notin Established
        /\ at' = [at EXCEPT ![c] = "requested"]
        /\ handlers' = [handlers EXCEPT ![c] = @ + 1]
  /\ UNCHANGED <<peers, proxy>>

Step(c, from, to) ==
  /\ at[c] = from /\ at' = [at EXCEPT ![c] = to]
  /\ UNCHANGED <<syns, peers>>

(* notifyTCP gives the request to the handler of the first match.          *)
Notify(c) ==
  /\ Step(c, "requested", IF Matching(c) = {} THEN "dropped" ELSE "accepting")
  /\ UNCHANGED <<handlers, proxy>>

(* tcpRequest.Accept: CreateEndpoint waits for the end of the handshake,   *)
(* which may fail, then Complete frees the slot.                           *)
CreateEndpoint(c) ==
  /\ Step(c, "accepting", "endpoint") \/ Step(c, "accepting", "failed")
  /\ UNCHANGED <<handlers, proxy>>

CompleteWithReset(c) ==
  /\ Step(c, "failed", "none")
  /\ handlers' = [handlers EXCEPT ![c] = @ - 1]
  /\ UNCHANGED proxy

Complete(c) ==
  /\ Step(c, "endpoint", IF Table[First(c)] = Any THEN "dialing" ELSE "http")
  /\ UNCHANGED <<handlers, proxy>>

(* proxyTCP *)
Dial(c) ==
  /\ Step(c, "dialing", "proxying")
  /\ pump' = [pump EXCEPT ![c] = [s \in Sides |-> "reading"]]
  /\ UNCHANGED <<handlers, closed, read, buf, got>>

Abandon(c) == closed' = [closed EXCEPT ![c].subprocess = TRUE]
BadDialFails(c) ==
  /\ Step(c, "dialing", "unreachable") /\ Abandon(c)
  /\ pump' = [pump EXCEPT ![c] = [s \in Sides |-> "reading"]]
  /\ UNCHANGED <<handlers, read, buf, got>>
DialFails(c) ==
  /\ Step(c, "dialing", "unreachable") /\ Abandon(c)
  /\ UNCHANGED <<handlers, read, pump, buf, got>>

-----------------------------------------------------------------------------
(* proxyBytes reads from side s and writes to the other one.  At the end   *)
(* of the one it tells the other nothing and closes nothing.               *)
BadBuffer(s) == "world"
Buffer(s) == s

Read(c, s) ==
  /\ pump[c][s] = "reading" /\ read[c][s] < sent[c][s] /\ ~closed[c][s]
  /\ read' = [read EXCEPT ![c][s] = @ + 1]
  /\ buf' = [buf EXCEPT ![c][Buffer(s)] = [from |-> s, n |-> read[c][s] + 1]]
  /\ pump' = [pump EXCEPT ![c][s] = "writing"]
  /\ UNCHANGED <<forwarder, peers, closed, got>>

BadAtEnd(c) == [s \in Sides |-> TRUE]
AtEnd(c) == closed[c]
Stop(c, s) ==
  /\ pump[c][s] = "reading"
  /\ \/ peer[c][s] = "finished" /\ read[c][s] = sent[c][s]
     \/ peer[c][s] = "reset" \/ closed[c][s]
  /\ pump' = [pump EXCEPT ![c][s] = "stopped"]
  /\ closed' = [closed EXCEPT ![c] = AtEnd(c)]
  /\ UNCHANGED <<forwarder, peers, read, buf, got>>

(* A chunk that cannot be written is dropped, and the pump goes on.        *)
(* Otherwise w.Write returns when the peer has made room for the chunk by  *)
(* reading, if it ever does: there is no deadline.                         *)
Refused(c, s) == peer[c][s] = "reset" \/ closed[c][s]
Write(c, s) ==
  /\ pump[c][s] = "writing"
  /\ IF Refused(c, Other[s]) THEN UNCHANGED got
     ELSE got' = [got EXCEPT ![c][Other[s]] = Append(@, buf[c][Buffer(s)])]
  /\ pump' = [pump EXCEPT ![c][s] = "reading"]
  /\ UNCHANGED <<forwarder, peers, closed, read, buf>>

(* The peers. *)
Send(c, s) ==
  /\ peer[c][s] = "open" /\ ~closed[c][s] /\ sent[c][s] < MaxChunks
  /\ at[c] = "proxying" \/ (at[c] = "dialing" /\ s = "subprocess")
  /\ sent' = [sent EXCEPT ![c][s] = @ + 1]
  /\ UNCHANGED <<forwarder, proxy, peer>>

End(c, s) ==
  /\ at[c] = "proxying"
  /\ \/ peer[c][s] = "open" /\ peer' = [peer EXCEPT ![c][s] = "finished"]
     \/ peer[c][s] # "reset" /\ peer' = [peer EXCEPT ![c][s] = "reset"]
  /\ UNCHANGED <<forwarder, proxy, sent>>

Handle(c) ==
  Notify(c) \/ CreateEndpoint(c) \/ CompleteWithReset(c) \/ Complete(c) \/ Dial(c) \/ DialFails(c)
Pump(c, s) == Read(c, s) \/ Stop(c, s) \/ Write(c, s)

Next ==
  \E c \in Conns :
    \/ Syn(c) \/ Handle(c)
    \/ \E s \in Sides : Pump(c, s) \/ Send(c, s) \/ End(c, s)

(* Handshakes and dials end.  A pump goes on unless it waits for a peer,   *)
(* which need neither send nor read.                                       *)
Fairness ==
  \A c \in Conns :
    /\ WF_vars(Handle(c))
    /\ \A s \in Sides : /\ WF_vars(Read(c, s) \/ Stop(c, s))
                        /\ WF_vars(Refused(c, Other[s]) /\ Write(c, s))

Spec == Init /\ [][Next]_vars /\ Fairness

-----------------------------------------------------------------------------
(* Only requests that were accepted are proxied, and pumps are where the   *)
(* state of their connection allows.                                       *)
TypeOK ==
  /\ syns \in [Conns -> 0 .. MaxSyns] /\ handlers \in [Conns -> Nat]
  /\ at \in [Conns -> Holding \cup Established \cup {"none"}]
  /\ peer \in [Conns -> [Sides -> {"open", "finished", "reset"}]]
  /\ closed \in [Conns -> [Sides -> BOOLEAN]]
  /\ pump \in [Conns -> [Sides -> {"off", "reading", "writing", "stopped"}]]
  /\ \A c \in Conns, s \in Sides :
       /\ sent[c][s] \in 0 .. MaxChunks /\ read[c][s] \in 0 .. sent[c][s]
       /\ (pump[c][s] = "off") = (at[c] # "proxying")

(* A connection never has two handlers at once, however often its SYN is   *)
(* repeated: Complete comes after CreateEndpoint, tcp.go:78-92.            *)
HandlerOnce == \A c \in Conns : handlers[c] <= 1

(* Each side receives what the other sent, in order, without gaps and      *)
(* nothing of its own: the pumps share no buffer, and a chunk is dropped   *)
(* only when no later one can arrive, proxy.go:24-44.                      *)
InOrder ==
  \A c \in Conns, s \in Sides : \A i \in DOMAIN got[c][s] :
    got[c][s][i] = [from |-> Other[s], n |-> i]

(* A slot is always freed, so that the limit never locks everybody out:    *)
(* Main's last entry matches everything and Accept completes the request   *)
(* on both ways, tcp.go:78-92, httptap.go:673-683.                         *)
SlotsAreFreed == \A c \in Conns : c \in InFlight ~> c \notin InFlight

(* The directions are independent: what one side sends arrives, although   *)
(* the other direction may have ended or be blocked, unless one of the two *)
(* resets its connection or the receiver itself does not read, which keeps *)
(* this direction's pump in w.Write for ever (proxy.go:39).                *)
EverythingArrives ==
  \A c \in Conns, s \in Sides :
    at[c] = "proxying" ~>
      \/ Len(got[c][Other[s]]) = sent[c][s]
      \/ \E t \in Sides : peer[c][t] = "reset"
      \/ [](pump[c][s] = "writing")
=============================================================================
