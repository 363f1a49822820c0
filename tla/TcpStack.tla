------------------------------ MODULE TcpStack ------------------------------
(***************************************************************************)
(* The homegrown user-space TCP stack (tcp.go) together with the two tun   *)
(* pumps that feed and drain it (copyToDevice, readFromDevice).            *)
(*                                                                         *)
(* One goroutine, the READER, takes segments from the tun device and runs  *)
(* tcpStack.handlePacket on each.  For every connection that the mux has a *)
(* handler for, a second goroutine, the HANDLER, calls Accept or Reject    *)
(* and then Read, Write and Close.  The two share the stream without a     *)
(* lock: state is a plain field, seq and ack are atomics, serializeBuf is  *)
(* an unguarded buffer.  Every access to one of these is a step here.      *)
(*                                                                         *)
(* Payload bytes are abstracted to their number.  A RST from the           *)
(* subprocess has no field: handlePacket never looks at it.                *)
(***************************************************************************)
EXTENDS Naturals, Sequences, FiniteSets

CONSTANTS
  Conns,      \* source/destination pairs: the keys of streamsBySrcDst
  Served,     \* those whose destination some mux entry matches
  Modulus,    \* 2^32 in the code
  MaxLen,     \* largest payload
  Segments,   \* what the subprocess's kernel may put on the tun device
  LinkCap,    \* capacity of toSubprocess, shared by every stream
  QueueCap,   \* capacity of a stream's fromSubprocess
  MaxSegs,    \* bound: segments received in a behaviour
  MaxCalls    \* bound: Write and Close calls in a behaviour

SeqNum == 0 .. Modulus - 1
Lengths == 0 .. MaxLen

ASSUME ConnsAssumption == Served \subseteq Conns
ASSUME WidthAssumption == Modulus \in Nat /\ MaxLen \in Nat /\ Modulus > MaxLen + 1
ASSUME SegmentsAssumption ==
  Segments \subseteq [syn : BOOLEAN, ack : BOOLEAN, fin : BOOLEAN,
                      seq : SeqNum, len : Lengths]
ASSUME CapAssumption == LinkCap \in Nat /\ QueueCap \in Nat
ASSUME BoundsAssumption == MaxSegs \in Nat /\ MaxCalls \in Nat

VARIABLES
  state,          \* tcpStream.state, "None" before the stream is in the map
  seq,            \* tcpStream.seq
  ack,            \* tcpStream.ack
  fromSubprocess, \* per stream: lengths of the payloads waiting for Read
  toSubprocess,   \* the packets waiting for copyToDevice
  buf,            \* per stream: the packets whose bytes may be in serializeBuf
  rd,             \* the reader: what it works on and its next step
  app,            \* the handlers: next step and packet under construction
  segs, calls,    \* bounds: segments received, calls made
  started,        \* history: how often the mux started a handler
  issued,         \* history: the packets given a sequence number, in that order
  wire,           \* history: the packets put on toSubprocess
  heard           \* history: what the subprocess has sent

streamVars == <<state, seq, ack, fromSubprocess, buf>>
historyVars == <<started, issued, wire, heard>>
vars == <<streamVars, toSubprocess, rd, app, segs, calls, historyVars>>

-----------------------------------------------------------------------------
States == {"None", "Init", "SynReceived", "Connected", "OtherSideFinished",
           "Finished"}
Kinds == {"SYN+ACK", "RST", "DATA", "FIN", "FIN-REPLY"}

(* "num" is the packet's place in issued: a name, not a field of the code. *)
Packet == [conn : Conns, kind : Kinds \cup {"NONE", "TORN"}, num : Nat,
           seq : SeqNum, ack : SeqNum, len : Lengths]

Void(c, kind) ==
  [conn |-> c, kind |-> kind, num |-> 0, seq |-> 0, ack |-> 0, len |-> 0]
Blank(c) == Void(c, "NONE")
Torn(c) == Void(c, "TORN")

ReaderSteps == {"finState", "finSequence", "finAck", "finSerialize", "finSend",
                "ackCheck", "ackSet", "payload", "acknowledge", "deliver"}
Idle == [at |-> "read"]
Dead == [at |-> "panicked"]
Job == [at : ReaderSteps, conn : Conns, seg : Segments, out : Packet]

HandlerSteps == {"none", "start", "sequence", "loadAck", "serialize", "send",
                 "open", "done", "panicked"}

Plus(a, n) == (a + n) % Modulus

(* Some definitions below are preceded by a "Bad" variant: the same         *)
(* definition with a plausible bug.  Nothing uses it; with it in place of  *)
(* the real one, the property that guards against the bug is violated.     *)

BadSpan(kind, n) == n

(* Sequence numbers a packet uses up: every flag packet takes one. *)
Span(kind, n) == IF kind = "DATA" THEN n ELSE 1

-----------------------------------------------------------------------------
(* Decisions of handlePacket. *)

BadStartsHandshake(c, g) == g.syn /\ state[c] \in {"None", "Init", "SynReceived"}
StartsHandshake(c, g) == g.syn /\ state[c] \in {"None", "Init"}

BadAnswersFin(g, st) == st # "Init"
AnswersFin(g, st) == g.fin /\ st # "Init"

BadEstablishes(c, g) == g.ack /\ state[c] # "Connected"
Establishes(c, g) == g.ack /\ state[c] = "SynReceived"

BadCarriesPayload(c, g) == ~g.syn /\ g.len > 0 /\ state[c] \notin {"Init", "SynReceived"}
CarriesPayload(c, g) == ~g.syn /\ g.len > 0 /\ state[c] = "Connected"

(* The acknowledgement number a handler's packet carries. *)
BadAckField(c, kind) == Plus(ack[c], 1)
AckField(c, kind) ==
  IF kind \in {"SYN+ACK", "RST"} THEN Plus(ack[c], 1) ELSE ack[c]

(* The stack's ack after a SYN or FIN, and after a payload. *)
BadAfterFlag(g) == Plus(g.seq, 2)
AfterFlag(g) == Plus(g.seq, 1)
BadAfterPayload(g) == g.seq + g.len
AfterPayload(g) == Plus(g.seq, g.len)

(* What segment g adds to the history of what the subprocess has sent:     *)
(* the acknowledgement numbers that it justifies.                          *)
Covered(g) ==
  {Plus(g.seq, k) : k \in {i \in 1 .. MaxLen + 2 :
      i <= g.len + (IF g.syn THEN 1 ELSE 0) + (IF g.fin THEN 1 ELSE 0)}}

-----------------------------------------------------------------------------
(* Steps that both goroutines take, on stream c. *)

(* atomic.AddUint32(&s.seq, n) - n: the packet that gets the old value. *)
Numbered(c, kind, n) ==
  [conn |-> c, kind |-> kind, num |-> Len(issued[c]) + 1,
   seq |-> seq[c], ack |-> 0, len |-> IF kind = "DATA" THEN n ELSE 0]

Allocate(c, kind, n) ==
  /\ seq' = [seq EXCEPT ![c] = Plus(@, Span(kind, n))]
  /\ issued' = [issued EXCEPT ![c] =
                  Append(@, [kind |-> kind, seq |-> seq[c], len |-> n])]

(* serializeTCP clears the buffer and writes packet p into it.  If the     *)
(* other goroutine is still between its own clear and copy, bytes of both  *)
(* packets are in there from now on.                                       *)
Fill(c, p, contended) ==
  buf' = [buf EXCEPT ![c] = IF contended THEN @ \cup {p} ELSE {p}]

(* What copy(cp, serialized) may then read. *)
Copied(c, p) == IF buf[c] = {p} THEN {p} ELSE buf[c] \cup {Torn(c)}

(* select { case toSubprocess <- cp: default: drop } *)
BadTrySend(c, p) ==
  /\ Len(toSubprocess) < LinkCap
  /\ toSubprocess' = Append(toSubprocess, p)
  /\ wire' = [wire EXCEPT ![c] = Append(@, p)]

TrySend(c, p) ==
  IF Len(toSubprocess) < LinkCap
  THEN /\ toSubprocess' = Append(toSubprocess, p)
       /\ wire' = [wire EXCEPT ![c] = Append(@, p)]
  ELSE UNCHANGED <<toSubprocess, wire>>

ReaderHoldsBuf(c) == rd.at = "finSend" /\ rd.conn = c
HandlerHoldsBuf(c) == app[c].at = "send"

-----------------------------------------------------------------------------
Init ==
  /\ state = [c \in Conns |-> "None"]
  /\ seq = [c \in Conns |-> 0]
  /\ ack = [c \in Conns |-> 0]
  /\ fromSubprocess = [c \in Conns |-> <<>>]
  /\ toSubprocess = <<>>
  /\ buf = [c \in Conns |-> {}]
  /\ rd = Idle
  /\ app = [c \in Conns |-> [at |-> "none", out |-> Blank(c)]]
  /\ segs = 0 /\ calls = 0
  /\ started = [c \in Conns |-> 0]
  /\ issued = [c \in Conns |-> <<>>]
  /\ wire = [c \in Conns |-> <<>>]
  /\ heard = [c \in Conns |-> [syn |-> FALSE, acked |-> FALSE, fins |-> 0, sent |-> {}]]

-----------------------------------------------------------------------------
(* THE READER: one segment of the tun device at a time. *)

Hear(c, g) ==
  heard' = [heard EXCEPT ![c] =
    [syn |-> @.syn \/ g.syn,
     acked |-> @.acked \/ ((@.syn \/ g.syn) /\ g.ack),
     fins |-> @.fins + (IF (@.syn \/ g.syn) /\ g.fin THEN 1 ELSE 0),
     sent |-> @.sent \cup Covered(g)]]

FirstStep(c, g) == IF AnswersFin(g, state'[c]) THEN "finState" ELSE "ackCheck"

TakeUp(c, g) ==
  /\ rd.at = "read" /\ segs < MaxSegs
  /\ segs' = segs + 1
  /\ Hear(c, g)
  /\ rd' = [at |-> FirstStep(c, g), conn |-> c, seg |-> g, out |-> Blank(c)]
  /\ UNCHANGED <<seq, fromSubprocess, toSubprocess, buf, calls, issued, wire>>

(* A SYN for a stream that is new or still in StateInit: the mux is asked  *)
(* for a handler, which starts in a goroutine of its own.  No other        *)
(* goroutine knows the stream yet, so the block is one step.               *)
ReceiveSyn(c, g) ==
  /\ StartsHandshake(c, g)
  /\ state' = [state EXCEPT ![c] = "SynReceived"]
  /\ ack' = [ack EXCEPT ![c] = AfterFlag(g)]
  /\ IF c \in Served
     THEN /\ app' = [app EXCEPT ![c].at = "start"]
          /\ started' = [started EXCEPT ![c] = @ + 1]
     ELSE UNCHANGED <<app, started>>
  /\ TakeUp(c, g)

(* Any other segment; the first one of a connection creates the stream. *)
ReceiveOther(c, g) ==
  /\ ~StartsHandshake(c, g)
  /\ IF state[c] = "None"
     THEN /\ state' = [state EXCEPT ![c] = "Init"]
          /\ ack' = [ack EXCEPT ![c] = g.seq]
     ELSE UNCHANGED <<state, ack>>
  /\ UNCHANGED <<app, started>>
  /\ TakeUp(c, g)

Proceed(step) == rd' = [rd EXCEPT !.at = step]

(* The FIN block, 436-485. *)
FinState ==
  /\ rd.at = "finState"
  /\ state' = [state EXCEPT ![rd.conn] = "OtherSideFinished"]
  /\ Proceed("finSequence")
  /\ UNCHANGED <<seq, ack, fromSubprocess, buf, toSubprocess, app, segs, calls, historyVars>>

FinSequence ==
  /\ rd.at = "finSequence"
  /\ Allocate(rd.conn, "FIN-REPLY", 0)
  /\ rd' = [rd EXCEPT !.at = "finAck", !.out = Numbered(rd.conn, "FIN-REPLY", 0)]
  /\ UNCHANGED <<state, ack, fromSubprocess, buf, toSubprocess, app, segs, calls,
                 started, wire, heard>>

FinAck ==
  /\ rd.at = "finAck"
  /\ ack' = [ack EXCEPT ![rd.conn] = AfterFlag(rd.seg)]
  /\ rd' = [rd EXCEPT !.at = "finSerialize", !.out.ack = AfterFlag(rd.seg)]
  /\ UNCHANGED <<state, seq, fromSubprocess, buf, toSubprocess, app, segs, calls, historyVars>>

FinSerialize ==
  /\ rd.at = "finSerialize"
  /\ Fill(rd.conn, rd.out, HandlerHoldsBuf(rd.conn))
  /\ Proceed("finSend")
  /\ UNCHANGED <<state, seq, ack, fromSubprocess, toSubprocess, app, segs, calls, historyVars>>

FinSend ==
  /\ rd.at = "finSend"
  /\ \E p \in Copied(rd.conn, rd.out) : TrySend(rd.conn, p)
  /\ Proceed("ackCheck")
  /\ UNCHANGED <<streamVars, app, segs, calls, started, issued, heard>>

(* 487-488: the test and the assignment are two accesses to state. *)
AckCheck ==
  /\ rd.at = "ackCheck"
  /\ Proceed(IF Establishes(rd.conn, rd.seg) THEN "ackSet" ELSE "payload")
  /\ UNCHANGED <<streamVars, toSubprocess, app, segs, calls, historyVars>>

AckSet ==
  /\ rd.at = "ackSet"
  /\ state' = [state EXCEPT ![rd.conn] = "Connected"]
  /\ Proceed("payload")
  /\ UNCHANGED <<seq, ack, fromSubprocess, buf, toSubprocess, app, segs, calls, historyVars>>

(* 496-504. *)
PayloadCheck ==
  /\ rd.at = "payload"
  /\ IF CarriesPayload(rd.conn, rd.seg) THEN Proceed("acknowledge") ELSE rd' = Idle
  /\ UNCHANGED <<streamVars, toSubprocess, app, segs, calls, historyVars>>

Acknowledge ==
  /\ rd.at = "acknowledge"
  /\ ack' = [ack EXCEPT ![rd.conn] = AfterPayload(rd.seg)]
  /\ Proceed("deliver")
  /\ UNCHANGED <<state, seq, fromSubprocess, buf, toSubprocess, app, segs, calls, historyVars>>

(* deliverToApplication drops the payload if the queue is full. *)
DeliverToApplication ==
  /\ rd.at = "deliver"
  /\ fromSubprocess' =
       IF Len(fromSubprocess[rd.conn]) < QueueCap
       THEN [fromSubprocess EXCEPT ![rd.conn] = Append(@, rd.seg.len)]
       ELSE fromSubprocess
  /\ rd' = Idle
  /\ UNCHANGED <<state, seq, ack, buf, toSubprocess, app, segs, calls, historyVars>>

ReaderStep ==
  \/ FinState \/ FinSequence \/ FinAck \/ FinSerialize \/ FinSend
  \/ AckCheck \/ AckSet
  \/ PayloadCheck \/ Acknowledge \/ DeliverToApplication

-----------------------------------------------------------------------------
(* THE HANDLERS.  Accept, Reject, Write and Close all take a sequence      *)
(* number, load ack, serialize, and copy the packet to the channel.        *)

Begin(c, kind, n) ==
  /\ Allocate(c, kind, n)
  /\ app' = [app EXCEPT ![c] = [at |-> "loadAck", out |-> Numbered(c, kind, n)]]

Answer(c, kind) ==
  /\ app[c].at = "start"
  /\ Begin(c, kind, 0)
  /\ UNCHANGED <<state, ack, fromSubprocess, buf, toSubprocess, rd, segs, calls,
                 started, wire, heard>>

Accept(c) == Answer(c, "SYN+ACK")
Reject(c) == Answer(c, "RST")

Write(c, n) ==
  /\ app[c].at = "open" /\ calls < MaxCalls
  /\ calls' = calls + 1
  /\ Begin(c, "DATA", n)
  /\ UNCHANGED <<state, ack, fromSubprocess, buf, toSubprocess, rd, segs,
                 started, wire, heard>>

MayClose(c) == state[c] \notin {"Init", "Finished"}

(* Close in StateFinished returns at once and changes nothing.  Only Close *)
(* assigns StateFinished, so testing and assigning state is one step.      *)
Close(c) ==
  /\ app[c].at = "open" /\ calls < MaxCalls
  /\ MayClose(c)
  /\ calls' = calls + 1
  /\ state' = [state EXCEPT ![c] = "Finished"]
  /\ app' = [app EXCEPT ![c].at = "sequence"]
  /\ UNCHANGED <<seq, ack, fromSubprocess, buf, toSubprocess, rd, segs, historyVars>>

CloseSequence(c) ==
  /\ app[c].at = "sequence"
  /\ Begin(c, "FIN", 0)
  /\ UNCHANGED <<state, ack, fromSubprocess, buf, toSubprocess, rd, segs, calls,
                 started, wire, heard>>

LoadAck(c) ==
  /\ app[c].at = "loadAck"
  /\ app' = [app EXCEPT ![c].at = "serialize",
                        ![c].out.ack = AckField(c, app[c].out.kind)]
  /\ UNCHANGED <<streamVars, toSubprocess, rd, segs, calls, historyVars>>

Serialize(c) ==
  /\ app[c].at = "serialize"
  /\ Fill(c, app[c].out, ReaderHoldsBuf(c))
  /\ app' = [app EXCEPT ![c].at = "send"]
  /\ UNCHANGED <<state, seq, ack, fromSubprocess, toSubprocess, rd, segs, calls, historyVars>>

Send(c) ==
  /\ app[c].at = "send"
  /\ \E p \in Copied(c, app[c].out) : TrySend(c, p)
  /\ app' = [app EXCEPT ![c] =
       [at |-> IF @.out.kind = "RST" THEN "done" ELSE "open", out |-> Blank(c)]]
  /\ UNCHANGED <<streamVars, rd, segs, calls, started, issued, heard>>

(* Read takes one payload off the queue; with too small a buffer it loses  *)
(* the payload and returns an error.  proxyTCP reads in a goroutine of its *)
(* own, so a Read may overlap a Write or Close of the same stream.         *)
Accepted(c) == \E i \in 1 .. Len(issued[c]) : issued[c][i].kind = "SYN+ACK"

Read(c) ==
  /\ Accepted(c) /\ (app[c].out.kind # "SYN+ACK")
  /\ fromSubprocess[c] # <<>>
  /\ fromSubprocess' = [fromSubprocess EXCEPT ![c] = Tail(@)]
  /\ UNCHANGED <<state, seq, ack, buf, toSubprocess, rd, app, segs, calls, historyVars>>

HandlerStep(c) ==
  \/ Accept(c) \/ Reject(c)
  \/ \E n \in Lengths \ {0} : Write(c, n)
  \/ Close(c) \/ CloseSequence(c)
  \/ LoadAck(c) \/ Serialize(c) \/ Send(c)
  \/ Read(c)

-----------------------------------------------------------------------------
(* copyToDevice writes the next packet to the tun device. *)
Transmit ==
  /\ toSubprocess # <<>>
  /\ toSubprocess' = Tail(toSubprocess)
  /\ UNCHANGED <<streamVars, rd, app, segs, calls, historyVars>>

(* The other outcome of two goroutines in one gopacket buffer: its slice   *)
(* bounds no longer fit and the panic ends the process, queues and all.    *)
Panic(c) ==
  /\ ReaderHoldsBuf(c) /\ HandlerHoldsBuf(c)
  /\ rd' = Dead
  /\ app' = [d \in Conns |-> [at |-> "panicked", out |-> Blank(d)]]
  /\ toSubprocess' = <<>>
  /\ fromSubprocess' = [d \in Conns |-> <<>>]
  /\ UNCHANGED <<state, seq, ack, buf, segs, calls, historyVars>>

Next ==
  \/ \E c \in Conns, g \in Segments : ReceiveSyn(c, g) \/ ReceiveOther(c, g)
  \/ ReaderStep
  \/ \E c \in Conns : HandlerStep(c) \/ Panic(c)
  \/ Transmit

(* The Go scheduler keeps running the reader, whose steps never wait; what *)
(* the subprocess, the handlers and the device do is up to them.           *)
Spec == Init /\ [][Next]_vars /\ WF_vars(ReaderStep)

-----------------------------------------------------------------------------
TypeOK ==
  /\ state \in [Conns -> States]
  /\ seq \in [Conns -> SeqNum]
  /\ ack \in [Conns -> SeqNum]
  /\ fromSubprocess \in [Conns -> Seq(Lengths)]
  /\ toSubprocess \in Seq(Packet)
  /\ buf \in [Conns -> SUBSET Packet]
  /\ rd \in {Idle, Dead} \cup Job
  /\ app \in [Conns -> [at : HandlerSteps, out : Packet]]
  /\ segs \in 0 .. MaxSegs
  /\ calls \in 0 .. MaxCalls
  /\ started \in [Conns -> Nat]
  /\ issued \in [Conns -> Seq([kind : Kinds, seq : SeqNum, len : Lengths])]
  /\ wire \in [Conns -> Seq(Packet)]
  /\ heard \in [Conns -> [syn : BOOLEAN, acked : BOOLEAN, fins : Nat, sent : SUBSET SeqNum]]

(* Only handlePacket's reader creates handlers: however often the SYN of a *)
(* connection is retransmitted, and whatever came before it, the mux       *)
(* starts at most one handler for it (the state test of line 428).         *)
HandlerOnce == \A c \in Conns : started[c] <= 1

(* A payload is queued for the application only between the subprocess's   *)
(* ACK of the handshake and its FIN (the state test of line 496, for which *)
(* lines 429, 439, 488 and 332 all compete).                               *)
DeliveryWindow ==
  [][\A c \in Conns :
       Len(fromSubprocess'[c]) > Len(fromSubprocess[c])
         => heard[c].acked /\ heard[c].fins = 0]_vars

(* The reader's FIN replies and the handler's packets draw on one atomic   *)
(* sequence counter (lines 164, 211, 277, 333, 440): the packets of a      *)
(* stream tile its sequence space without gap or overlap, and each one     *)
(* that reaches the channel untorn carries the number it was issued with.  *)
Follows(p, q) ==
  q.seq = Plus(p.seq, p.len + (IF p.kind = "DATA" THEN 0 ELSE 1))

SeqTiled ==
  \A c \in Conns :
    /\ \A i \in 1 .. Len(issued[c]) - 1 : Follows(issued[c][i], issued[c][i + 1])
    /\ \A i \in 1 .. Len(wire[c]) :
         wire[c][i].kind = "TORN"
           \/ /\ wire[c][i].num \in 1 .. Len(issued[c])
              /\ wire[c][i].seq = issued[c][wire[c][i].num].seq
              /\ wire[c][i].kind = issued[c][wire[c][i].num].kind

(* Data and FIN packets acknowledge only what the subprocess has sent,     *)
(* although ack is overwritten by the reader (lines 430, 441, 500) while   *)
(* the handler reads it (lines 278, 342), and starts out as the bare       *)
(* sequence number of whatever segment came first (line 423).              *)
AckIsGenuine ==
  \A c \in Conns : \A i \in 1 .. Len(wire[c]) :
    wire[c][i].kind \in {"DATA", "FIN", "FIN-REPLY"} => wire[c][i].ack \in heard[c].sent

(* serializeBuf is unguarded (line 359), but the reader writes into it     *)
(* only to answer a FIN: until the subprocess sends one, the packets of a  *)
(* connection reach the channel whole, in sequence order, each at most     *)
(* once.                                                                   *)
InOrderBeforeFin ==
  \A c \in Conns : heard[c].fins = 0 =>
    \A j \in 1 .. Len(wire[c]) :
      /\ wire[c][j].kind # "TORN"
      /\ \A i \in 1 .. j - 1 : wire[c][i].num < wire[c][j].num

(* Close is idempotent only through StateFinished (line 326), which the    *)
(* reader may overwrite, by OtherSideFinished for each FIN (line 439) and  *)
(* by Connected in the race of lines 487-488: no more FINs of our own than *)
(* one, one for that race once the handshake was acknowledged, and one per *)
(* FIN received.                                                           *)
OwnFins(c) == {i \in 1 .. Len(issued[c]) : issued[c][i].kind = "FIN"}

FinBudget ==
  \A c \in Conns :
    Cardinality(OwnFins(c)) <= 1 + (IF heard[c].acked THEN 1 ELSE 0) + heard[c].fins

(* handlePacket never waits: neither for room in toSubprocess or           *)
(* fromSubprocess (lines 388-392, 480-484) nor for a handler, so every     *)
(* segment is disposed of and the reader is back at tun.Read, unless the   *)
(* process has panicked.                                                   *)
ReaderReturns == (rd.at # "read") ~> (rd.at \in {"read", "panicked"})

-----------------------------------------------------------------------------
(* What comments of the code say and what the steps above contradict; a    *)
(* cfg that names one of them as an invariant shows how.                   *)

(* tcp.go:27, StateFinished "means we have sent our own FIN and must not   *)
(* send any more data": no payload is issued after a FIN of ours.          *)
NoDataAfterOwnFin ==
  \A c \in Conns : \A j \in 1 .. Len(issued[c]) : \A i \in 1 .. j - 1 :
    issued[c][i].kind \in {"FIN", "FIN-REPLY"} => issued[c][j].kind # "DATA"

(* tcp.go:108, ack is "the next acknowledgement number to send": a SYN+ACK *)
(* acknowledges what the subprocess has sent, like every other packet.     *)
SynAckIsGenuine ==
  \A c \in Conns : \A i \in 1 .. Len(wire[c]) :
    wire[c][i].kind = "SYN+ACK" => wire[c][i].ack \in heard[c].sent

(* tcp.go:25 and 27, StateConnected means "can send and receive data",     *)
(* StateFinished "must not send": a stream whose Close has issued its FIN  *)
(* is not in StateConnected.                                               *)
ClosedIsNotConnected ==
  \A c \in Conns : OwnFins(c) # {} => state[c] # "Connected"
=============================================================================
