--------------------------- MODULE TcpProxyProofs ---------------------------
(***************************************************************************)
(* TcpProxy for any connections, ports, tables and bounds: type            *)
(* correctness, that a connection has at most one handler, and that each   *)
(* side receives what the other sent in order and without gaps.            *)
(*                                                                         *)
(* The inductive invariant ProxyInv ties the handlers of a connection to   *)
(* the stage of its request, and the chunks of a direction to how far its  *)
(* pump has got: a chunk is missing only if the receiving connection takes *)
(* no more, which it never does again.                                     *)
(***************************************************************************)
EXTENDS TcpProxy, TLAPS

Chunks == [from : Sides \cup {"none"}, n : Nat]
Stages == Holding \cup Established \cup {"none"}

(* The parts of TypeOK, with the values of the buffers. *)
Requests ==
  /\ syns \in [Conns -> 0 .. MaxSyns] /\ handlers \in [Conns -> Nat]
  /\ at \in [Conns -> Stages]
Wires ==
  /\ peer \in [Conns -> [Sides -> {"open", "finished", "reset"}]]
  /\ closed \in [Conns -> [Sides -> BOOLEAN]]
  /\ sent \in [Conns -> [Sides -> 0 .. MaxChunks]] /\ read \in [Conns -> [Sides -> Nat]]
Copies ==
  /\ pump \in [Conns -> [Sides -> {"off", "reading", "writing", "stopped"}]]
  /\ buf \in [Conns -> [Sides -> Chunks]]
  /\ got \in [Conns -> [Sides -> Seq(Chunks)]]
Paired ==
  \A c \in Conns, s \in Sides :
    read[c][s] <= sent[c][s] /\ (pump[c][s] = "off" <=> at[c] # "proxying")

Handled == \A c \in Conns : handlers[c] = IF at[c] = "none" THEN 0 ELSE 1

(* The chunks read from s that have been written or dropped. *)
Passed(c, s) == IF pump[c][s] = "writing" THEN read[c][s] - 1 ELSE read[c][s]

InHand(c, s) ==
  pump[c][s] = "writing" => read[c][s] # 0 /\ buf[c][s] = [from |-> s, n |-> read[c][s]]
Delivered(c, s) ==
  LET arrived == got[c][Other[s]] IN
    /\ Refused(c, Other[s]) \/ Len(arrived) = Passed(c, s)
    /\ \A i \in 1 .. Len(arrived) : arrived[i] = [from |-> s, n |-> i]
Flow == \A c \in Conns, s \in Sides : InHand(c, s) /\ Delivered(c, s)

ProxyInv == Requests /\ Wires /\ Copies /\ Paired /\ Handled /\ Flow

-----------------------------------------------------------------------------
(* The two sides, each the other's other. *)
LEMMA TwoSides ==
  ASSUME NEW s \in Sides
  PROVE  Other[s] \in Sides /\ Other[s] # s /\ Other[Other[s]] = s
BY DEF Sides, Other

(* What an assignment to one side of one connection changes. *)
LEMMA Assigned ==
  ASSUME NEW A, NEW f \in [Conns -> [Sides -> A]], NEW c \in Conns, NEW s \in Sides, NEW v \in A,
         NEW g, g = [f EXCEPT ![c][s] = v]
  PROVE  /\ g \in [Conns -> [Sides -> A]]
         /\ \A d \in Conns, r \in Sides : g[d][r] = IF d = c /\ r = s THEN v ELSE f[d][r]
OBVIOUS

LEMMA InitHolds == Init => ProxyInv
<1>. SUFFICES ASSUME Init PROVE ProxyInv
  OBVIOUS
<1>. USE BoundsAssumption DEF Init, PerSide
<1>1. Requests /\ Wires /\ Copies
  BY DEF Requests, Wires, Copies, Stages, Chunks, Nothing
<1>2. Paired /\ Handled
  BY DEF Paired, Handled
<1>3. Flow
  BY TwoSides DEF Flow, InHand, Delivered, Passed
<1>. QED BY <1>1, <1>2, <1>3 DEF ProxyInv

(* Steps that leave the chunks and both ends alone keep the flow. *)
LEMMA SameFlow ==
  ASSUME Flow, UNCHANGED <<peer, closed, read, pump, buf, got>>
  PROVE  Flow'
BY DEF Flow, InHand, Delivered, Passed, Refused

(* A SYN: only a connection without a request gets one, and a handler.     *)
LEMMA SynStep ==
  ASSUME ProxyInv, NEW c \in Conns, Syn(c)
  PROVE  ProxyInv'
<1>1. /\ UNCHANGED <<peer, sent, closed, read, pump, buf, got>>
      /\ syns[c] < MaxSyns /\ syns' = [syns EXCEPT ![c] = @ + 1]
      /\ \/ UNCHANGED <<at, handlers>>
         \/ /\ at[c] = "none" /\ at' = [at EXCEPT ![c] = "requested"]
            /\ handlers' = [handlers EXCEPT ![c] = @ + 1]
  <2>1. c \notin InFlight /\ at[c] \notin Established => at[c] = "none"
    BY DEF ProxyInv, Requests, Stages, InFlight
  <2>. QED BY <2>1 DEF Syn, peers, proxy
<1>. USE <1>1
<1>2. Requests'
  <2>1. syns' \in [Conns -> 0 .. MaxSyns]
    BY BoundsAssumption DEF ProxyInv, Requests
  <2>. QED BY <2>1 DEF ProxyInv, Requests, Stages, Holding
<1>3. Wires' /\ Copies'
  BY DEF ProxyInv, Wires, Copies
<1>4. Paired' /\ Handled'
  BY DEF ProxyInv, Requests, Paired, Handled
<1>5. Flow'
  BY SameFlow DEF ProxyInv
<1>. QED BY <1>2, <1>3, <1>4, <1>5 DEF ProxyInv

(* The handler's steps before it dials. *)
LEMMA RequestStep ==
  ASSUME ProxyInv, NEW c \in Conns,
         Notify(c) \/ CreateEndpoint(c) \/ CompleteWithReset(c) \/ Complete(c)
  PROVE  ProxyInv'
<1>1. /\ UNCHANGED <<syns, peer, sent, closed, read, pump, buf, got>>
      /\ \/ /\ at[c] = "failed" /\ at' = [at EXCEPT ![c] = "none"]
            /\ handlers' = [handlers EXCEPT ![c] = @ - 1]
         \/ /\ at[c] \in {"requested", "accepting", "endpoint"}
            /\ \E to \in {"dropped", "accepting", "endpoint", "failed", "dialing", "http"} :
                 at' = [at EXCEPT ![c] = to]
            /\ UNCHANGED handlers
  BY DEF Notify, CreateEndpoint, CompleteWithReset, Complete, Step, peers, proxy
<1>. USE <1>1
<1>2. Requests'
  <2>1. handlers[c] = 1 \/ UNCHANGED handlers
    BY DEF ProxyInv, Handled
  <2>. QED BY <2>1 DEF ProxyInv, Requests, Stages, Holding, Established
<1>3. Wires' /\ Copies'
  BY DEF ProxyInv, Wires, Copies
<1>4. Paired' /\ Handled'
  BY DEF ProxyInv, Requests, Paired, Handled
<1>5. Flow'
  BY SameFlow DEF ProxyInv
<1>. QED BY <1>2, <1>3, <1>4, <1>5 DEF ProxyInv

(* Dialing: the pumps start, or the subprocess's connection is closed.     *)
LEMMA DialStep ==
  ASSUME ProxyInv, NEW c \in Conns, Dial(c) \/ DialFails(c)
  PROVE  ProxyInv'
<1>1. /\ UNCHANGED <<syns, handlers, peer, sent, read, buf, got>>
      /\ at[c] = "dialing"
      /\ \/ /\ at' = [at EXCEPT ![c] = "proxying"] /\ UNCHANGED closed
            /\ pump' = [pump EXCEPT ![c] = [s \in Sides |-> "reading"]]
         \/ /\ at' = [at EXCEPT ![c] = "unreachable"] /\ UNCHANGED pump
            /\ closed' = [closed EXCEPT ![c]["subprocess"] = TRUE]
  BY DEF Dial, DialFails, Abandon, Step, peers
<1>2. Requests'
  BY <1>1 DEF ProxyInv, Requests, Stages, Established
<1>3. /\ closed' \in [Conns -> [Sides -> BOOLEAN]]
      /\ \A d \in Conns, r \in Sides : closed[d][r] => closed'[d][r]
  <2>1. CASE UNCHANGED closed
    BY <2>1 DEF ProxyInv, Wires
  <2>2. CASE closed' = [closed EXCEPT ![c]["subprocess"] = TRUE]
    <3>1. "subprocess" \in Sides /\ TRUE \in BOOLEAN /\ closed \in [Conns -> [Sides -> BOOLEAN]]
      BY DEF ProxyInv, Wires, Sides
    <3>. QED BY <2>2, <3>1, Assigned
  <2>. QED BY <1>1, <2>1, <2>2
<1>4. /\ pump' \in [Conns -> [Sides -> {"off", "reading", "writing", "stopped"}]]
      /\ \A d \in Conns, r \in Sides :
           pump'[d][r] = IF d = c /\ at'[c] = "proxying" THEN "reading" ELSE pump[d][r]
  <2>1. /\ pump \in [Conns -> [Sides -> {"off", "reading", "writing", "stopped"}]]
        /\ at \in [Conns -> Stages]
    BY DEF ProxyInv, Requests, Copies
  <2>2. CASE at' = [at EXCEPT ![c] = "proxying"] /\ pump' = [pump EXCEPT ![c] = [s \in Sides |-> "reading"]]
    BY <2>1, <2>2
  <2>3. CASE at' = [at EXCEPT ![c] = "unreachable"] /\ UNCHANGED pump
    BY <2>1, <2>3
  <2>. QED BY <1>1, <2>2, <2>3
<1>5. Wires' /\ Copies' /\ Paired' /\ Handled'
  <2>1. Wires' /\ Copies'
    BY <1>1, <1>3, <1>4 DEF ProxyInv, Wires, Copies
  <2>2. Paired'
    BY <1>1, <1>4 DEF ProxyInv, Requests, Paired
  <2>3. Handled'
    BY <1>1 DEF ProxyInv, Requests, Handled
  <2>. QED BY <2>1, <2>2, <2>3
<1>6. Flow'
  <2>. SUFFICES ASSUME NEW d \in Conns, NEW s \in Sides PROVE InHand(d, s)' /\ Delivered(d, s)'
    BY DEF Flow
  <2>1. InHand(d, s) /\ Delivered(d, s) /\ Other[s] \in Sides
    BY TwoSides DEF ProxyInv, Flow
  <2>2. pump'[d][s] = "writing" <=> pump[d][s] = "writing"
    BY <1>1, <1>4 DEF ProxyInv, Paired
  <2>. QED BY <1>1, <1>3, <2>1, <2>2 DEF InHand, Delivered, Passed, Refused
<1>. QED BY <1>2, <1>5, <1>6 DEF ProxyInv

(* A pump reads a chunk into its own buffer. *)
LEMMA ReadStep ==
  ASSUME ProxyInv, NEW c \in Conns, NEW s \in Sides, Read(c, s)
  PROVE  ProxyInv'
<1>. DEFINE n == read[c][s] + 1
            chunk == [from |-> s, n |-> n]
<1>1. /\ UNCHANGED <<syns, at, handlers, peer, sent, closed, got>>
      /\ pump[c][s] = "reading" /\ read[c][s] < sent[c][s]
      /\ read' = [read EXCEPT ![c][s] = n]
      /\ buf' = [buf EXCEPT ![c][s] = chunk]
      /\ pump' = [pump EXCEPT ![c][s] = "writing"]
  BY DEF Read, Buffer, forwarder, peers
<1>2. read[c][s] \in Nat /\ n \in Nat /\ n # 0 /\ chunk \in Chunks
  BY DEF ProxyInv, Wires, Chunks
<1>. HIDE DEF n, chunk
<1>3. /\ read' \in [Conns -> [Sides -> Nat]]
      /\ \A d \in Conns, r \in Sides : read'[d][r] = IF d = c /\ r = s THEN n ELSE read[d][r]
  BY <1>1, <1>2, Assigned DEF ProxyInv, Wires
<1>4. /\ buf' \in [Conns -> [Sides -> Chunks]]
      /\ \A d \in Conns, r \in Sides : buf'[d][r] = IF d = c /\ r = s THEN chunk ELSE buf[d][r]
  BY <1>1, <1>2, Assigned DEF ProxyInv, Copies
<1>5. /\ pump' \in [Conns -> [Sides -> {"off", "reading", "writing", "stopped"}]]
      /\ \A d \in Conns, r \in Sides : pump'[d][r] = IF d = c /\ r = s THEN "writing" ELSE pump[d][r]
  BY <1>1, Assigned DEF ProxyInv, Copies
<1>6. Requests' /\ Wires' /\ Copies' /\ Handled'
  BY <1>1, <1>3, <1>4, <1>5 DEF ProxyInv, Requests, Wires, Copies, Handled
<1>7. Paired'
  <2>1. sent[c][s] \in Nat
    BY BoundsAssumption DEF ProxyInv, Wires
  <2>. QED BY <1>1, <1>2, <1>3, <1>5, <2>1 DEF ProxyInv, Paired, n
<1>8. Flow'
  <2>. SUFFICES ASSUME NEW d \in Conns, NEW r \in Sides PROVE InHand(d, r)' /\ Delivered(d, r)'
    BY DEF Flow
  <2>1. InHand(d, r) /\ Delivered(d, r)
    BY DEF ProxyInv, Flow
  <2>2. CASE d = c /\ r = s
    BY <1>1, <1>2, <1>3, <1>4, <1>5, <2>1, <2>2 DEF InHand, Delivered, Passed, Refused, n, chunk
  <2>3. CASE ~(d = c /\ r = s)
    BY <1>1, <1>3, <1>4, <1>5, <2>1, <2>3 DEF InHand, Delivered, Passed, Refused
  <2>. QED BY <2>2, <2>3
<1>. QED BY <1>6, <1>7, <1>8 DEF ProxyInv

(* A pump ends, and closes nothing. *)
LEMMA StopStep ==
  ASSUME ProxyInv, NEW c \in Conns, NEW s \in Sides, Stop(c, s)
  PROVE  ProxyInv'
<1>1. /\ UNCHANGED <<syns, at, handlers, peer, sent, read, buf, got>>
      /\ pump[c][s] = "reading" /\ pump' = [pump EXCEPT ![c][s] = "stopped"]
      /\ closed' = closed
  BY DEF Stop, AtEnd, forwarder, peers, ProxyInv, Wires
<1>2. /\ pump' \in [Conns -> [Sides -> {"off", "reading", "writing", "stopped"}]]
      /\ \A d \in Conns, r \in Sides : pump'[d][r] = IF d = c /\ r = s THEN "stopped" ELSE pump[d][r]
  BY <1>1, Assigned DEF ProxyInv, Copies
<1>3. Requests' /\ Wires' /\ Copies' /\ Paired' /\ Handled'
  BY <1>1, <1>2 DEF ProxyInv, Requests, Wires, Copies, Paired, Handled
<1>4. Flow'
  BY <1>1, <1>2 DEF ProxyInv, Flow, InHand, Delivered, Passed, Refused
<1>. QED BY <1>3, <1>4 DEF ProxyInv

(* A pump writes its chunk, or drops it when the other side is deaf.       *)
LEMMA WriteStep ==
  ASSUME ProxyInv, NEW c \in Conns, NEW s \in Sides, Write(c, s)
  PROVE  ProxyInv'
<1>. DEFINE o == Other[s]
            chunk == [from |-> s, n |-> read[c][s]]
            more == Append(got[c][o], chunk)
<1>1. /\ UNCHANGED <<syns, at, handlers, peer, sent, closed, read, buf>>
      /\ pump[c][s] = "writing" /\ pump' = [pump EXCEPT ![c][s] = "reading"]
      /\ IF Refused(c, o) THEN got' = got ELSE got' = [got EXCEPT ![c][o] = Append(@, buf[c][s])]
  BY DEF Write, Refused, Buffer, forwarder, peers
<1>2. /\ o \in Sides /\ Other[o] = s /\ read[c][s] \in Nat
      /\ got[c][o] \in Seq(Chunks) /\ buf[c][s] = chunk /\ chunk \in Chunks
  <2>1. o \in Sides /\ Other[o] = s
    BY TwoSides
  <2>2. read[c][s] \in Nat /\ got[c][o] \in Seq(Chunks)
    BY <2>1 DEF ProxyInv, Wires, Copies
  <2>3. buf[c][s] = chunk
    BY <1>1 DEF ProxyInv, Flow, InHand
  <2>. QED BY <2>1, <2>2, <2>3 DEF Chunks
<1>3. /\ more \in Seq(Chunks) /\ Len(more) = Len(got[c][o]) + 1
      /\ \A i \in 1 .. Len(got[c][o]) : more[i] = got[c][o][i]
      /\ more[Len(got[c][o]) + 1] = chunk
  <2>. HIDE DEF chunk, o
  <2>. QED BY <1>2
<1>. HIDE DEF o, more
<1>4. /\ pump' \in [Conns -> [Sides -> {"off", "reading", "writing", "stopped"}]]
      /\ \A d \in Conns, r \in Sides : pump'[d][r] = IF d = c /\ r = s THEN "reading" ELSE pump[d][r]
  BY <1>1, Assigned DEF ProxyInv, Copies
<1>5. /\ got' \in [Conns -> [Sides -> Seq(Chunks)]]
      /\ \A d \in Conns, r \in Sides :
           got'[d][r] = IF d = c /\ r = o /\ ~Refused(c, o) THEN more ELSE got[d][r]
  <2>1. CASE Refused(c, o)
    BY <1>1, <2>1 DEF ProxyInv, Copies
  <2>2. CASE ~Refused(c, o)
    <3>1. got' = [got EXCEPT ![c][o] = more] /\ got \in [Conns -> [Sides -> Seq(Chunks)]]
      BY <1>1, <1>2, <2>2 DEF ProxyInv, Copies, more
    <3>. HIDE DEF chunk
    <3>. QED BY <1>2, <1>3, <2>2, <3>1, Assigned
  <2>. QED BY <2>1, <2>2
<1>6. Requests' /\ Wires' /\ Copies' /\ Paired' /\ Handled'
  BY <1>1, <1>4, <1>5 DEF ProxyInv, Requests, Wires, Copies, Paired, Handled
<1>7. Flow'
  <2>. SUFFICES ASSUME NEW d \in Conns, NEW r \in Sides PROVE InHand(d, r)' /\ Delivered(d, r)'
    BY DEF Flow
  <2>1. InHand(d, r) /\ Delivered(d, r) /\ Other[r] \in Sides /\ Other[Other[r]] = r
    BY TwoSides DEF ProxyInv, Flow
  <2>2. CASE d = c /\ r = s
    <3>1. InHand(c, s)'
      BY <1>4 DEF InHand
    <3>2. Passed(c, s)' = read[c][s] /\ Passed(c, s) = read[c][s] - 1
      BY <1>1, <1>4 DEF Passed
    <3>3. Refused(c, o)' = Refused(c, o) /\ Other[s] = o
      BY <1>1 DEF Refused, o
    <3>4. CASE Refused(c, o)
      <4>1. got'[c][o] = got[c][o]
        BY <1>2, <1>5, <3>4
      <4>. QED BY <2>1, <2>2, <3>1, <3>3, <3>4, <4>1 DEF Delivered
    <3>5. CASE ~Refused(c, o)
      <4>1. got'[c][o] = more
        BY <1>2, <1>5, <3>5
      <4>2. Len(got[c][o]) = read[c][s] - 1 /\ \A i \in 1 .. Len(got[c][o]) : got[c][o][i] = [from |-> s, n |-> i]
        BY <2>1, <2>2, <3>2, <3>3, <3>5 DEF Delivered
      <4>3. Len(more) = read[c][s] /\ \A i \in 1 .. Len(more) : more[i] = [from |-> s, n |-> i]
        <5>1. Len(got[c][o]) \in Nat
          BY <1>2
        <5>2. Len(more) = read[c][s]
          BY <1>2, <1>3, <4>2, <5>1
        <5>3. ASSUME NEW i \in 1 .. Len(more) PROVE more[i] = [from |-> s, n |-> i]
          <6>1. CASE i \in 1 .. Len(got[c][o])
            <7>1. more[i] = got[c][o][i]
              BY <1>3, <6>1
            <7>. QED BY <4>2, <6>1, <7>1
          <6>2. CASE i = Len(got[c][o]) + 1
            <7>1. more[i] = chunk
              BY <1>3, <6>2
            <7>2. i = read[c][s]
              BY <1>2, <4>2, <6>2
            <7>. QED BY <7>1, <7>2
          <6>. QED BY <1>3, <5>1, <6>1, <6>2
        <5>. QED BY <5>2, <5>3
      <4>. QED BY <2>2, <3>1, <3>2, <3>3, <4>1, <4>3 DEF Delivered
    <3>. QED BY <3>4, <3>5
  <2>3. CASE ~(d = c /\ r = s)
    <3>1. pump'[d][r] = pump[d][r] /\ got'[d][Other[r]] = got[d][Other[r]]
      BY <1>2, <1>4, <1>5, <2>1, <2>3
    <3>. QED BY <1>1, <2>1, <3>1 DEF InHand, Delivered, Passed, Refused
  <2>. QED BY <2>2, <2>3
<1>. QED BY <1>6, <1>7 DEF ProxyInv

(* The peers send, finish and reset: what is reset stays so. *)
LEMMA PeerStep ==
  ASSUME ProxyInv, NEW c \in Conns, NEW s \in Sides, Send(c, s) \/ End(c, s)
  PROVE  ProxyInv'
<1>1. /\ UNCHANGED <<syns, at, handlers, closed, read, pump, buf, got>>
      /\ \/ UNCHANGED peer /\ sent[c][s] < MaxChunks /\ sent' = [sent EXCEPT ![c][s] = @ + 1]
         \/ /\ UNCHANGED sent
            /\ \/ peer[c][s] = "open" /\ peer' = [peer EXCEPT ![c][s] = "finished"]
               \/ peer' = [peer EXCEPT ![c][s] = "reset"]
  BY DEF Send, End, forwarder, proxy
<1>2. /\ peer' \in [Conns -> [Sides -> {"open", "finished", "reset"}]]
      /\ \A d \in Conns, r \in Sides : peer[d][r] = "reset" => peer'[d][r] = "reset"
  <2>1. peer \in [Conns -> [Sides -> {"open", "finished", "reset"}]]
    BY DEF ProxyInv, Wires
  <2>. QED BY <1>1, <2>1, Assigned
<1>3. /\ sent' \in [Conns -> [Sides -> 0 .. MaxChunks]]
      /\ \A d \in Conns, r \in Sides : sent[d][r] <= sent'[d][r]
  <2>1. sent \in [Conns -> [Sides -> 0 .. MaxChunks]] /\ \A d \in Conns, r \in Sides : sent[d][r] \in Nat
    BY BoundsAssumption DEF ProxyInv, Wires
  <2>2. CASE UNCHANGED sent
    BY <2>1, <2>2
  <2>3. CASE sent[c][s] < MaxChunks /\ sent' = [sent EXCEPT ![c][s] = @ + 1]
    <3>1. sent[c][s] + 1 \in 0 .. MaxChunks /\ sent' = [sent EXCEPT ![c][s] = sent[c][s] + 1]
      BY BoundsAssumption, <2>1, <2>3
    <3>2. /\ sent' \in [Conns -> [Sides -> 0 .. MaxChunks]]
          /\ \A d \in Conns, r \in Sides :
               sent'[d][r] = IF d = c /\ r = s THEN sent[c][s] + 1 ELSE sent[d][r]
      BY <2>1, <3>1, Assigned
    <3>. QED BY <2>1, <3>2
  <2>. QED BY <1>1, <2>2, <2>3
<1>4. Requests' /\ Wires' /\ Copies' /\ Handled'
  BY <1>1, <1>2, <1>3 DEF ProxyInv, Requests, Wires, Copies, Handled
<1>5. Paired'
  <2>1. \A d \in Conns, r \in Sides : read[d][r] \in Nat /\ sent[d][r] \in Nat /\ sent'[d][r] \in Nat
    BY BoundsAssumption, <1>3 DEF ProxyInv, Wires
  <2>. QED BY <1>1, <1>3, <2>1 DEF ProxyInv, Paired
<1>6. Flow'
  <2>. SUFFICES ASSUME NEW d \in Conns, NEW r \in Sides PROVE InHand(d, r)' /\ Delivered(d, r)'
    BY DEF Flow
  <2>1. InHand(d, r) /\ Delivered(d, r) /\ Other[r] \in Sides
    BY TwoSides DEF ProxyInv, Flow
  <2>. QED BY <1>1, <1>2, <2>1 DEF InHand, Delivered, Passed, Refused
<1>. QED BY <1>4, <1>5, <1>6 DEF ProxyInv

LEMMA NextHolds == ProxyInv /\ [Next]_vars => ProxyInv'
<1>. SUFFICES ASSUME ProxyInv, [Next]_vars PROVE ProxyInv'
  OBVIOUS
<1>1. CASE UNCHANGED vars
  <2>1. UNCHANGED <<syns, at, handlers, peer, sent, closed, read, pump, buf, got>>
    BY <1>1 DEF vars, forwarder, peers, proxy
  <2>2. Flow'
    BY <2>1, SameFlow DEF ProxyInv
  <2>. QED BY <2>1, <2>2 DEF ProxyInv, Requests, Wires, Copies, Paired, Handled
<1>2. ASSUME NEW c \in Conns, Syn(c) PROVE ProxyInv'
  BY <1>2, SynStep
<1>3. ASSUME NEW c \in Conns, Handle(c) PROVE ProxyInv'
  BY <1>3, RequestStep, DialStep DEF Handle
<1>4. ASSUME NEW c \in Conns, NEW s \in Sides, Pump(c, s) PROVE ProxyInv'
  BY <1>4, ReadStep, StopStep, WriteStep DEF Pump
<1>5. ASSUME NEW c \in Conns, NEW s \in Sides, Send(c, s) \/ End(c, s) PROVE ProxyInv'
  BY <1>5, PeerStep
<1>. QED BY <1>1, <1>2, <1>3, <1>4, <1>5 DEF Next

(* Type correctness, with where the pumps of a connection may be.          *)
THEOREM TypeCorrect == Spec => []TypeOK
<1>1. ProxyInv => TypeOK
  <2>. SUFFICES ASSUME ProxyInv PROVE TypeOK
    OBVIOUS
  <2>. USE DEF ProxyInv
  <2>1. \A c \in Conns, s \in Sides :
          /\ sent[c][s] \in 0 .. MaxChunks /\ read[c][s] \in 0 .. sent[c][s]
          /\ (pump[c][s] = "off") = (at[c] # "proxying")
    BY BoundsAssumption DEF Wires, Paired
  <2>. QED BY <2>1 DEF Requests, Stages, Wires, Copies, TypeOK
<1>. QED BY <1>1, InitHolds, NextHolds, PTL DEF Spec

(* However often SYNs are repeated and whatever the limit, tcp.go:78-92    *)
(* gives a connection one handler at a time.                               *)
THEOREM OneHandler == Spec => []HandlerOnce
<1>1. ProxyInv => HandlerOnce
  BY DEF ProxyInv, Handled, HandlerOnce
<1>. QED BY <1>1, InitHolds, NextHolds, PTL DEF Spec

(* proxy.go:24-44 relays each direction in order, without gaps, and with   *)
(* nothing of the other direction.                                         *)
THEOREM RelayedInOrder == Spec => []InOrder
<1>1. ProxyInv => InOrder
  <2>. SUFFICES ASSUME ProxyInv, NEW c \in Conns, NEW s \in Sides, NEW i \in DOMAIN got[c][s]
                PROVE  got[c][s][i] = [from |-> Other[s], n |-> i]
    BY DEF InOrder
  <2>1. Other[s] \in Sides /\ Other[Other[s]] = s
    BY TwoSides
  <2>2. Delivered(c, Other[s]) /\ DOMAIN got[c][s] = 1 .. Len(got[c][s])
    BY <2>1 DEF ProxyInv, Flow, Copies
  <2>. QED BY <2>1, <2>2 DEF Delivered
<1>. QED BY <1>1, InitHolds, NextHolds, PTL DEF Spec
=============================================================================
