--------------------------- MODULE TcpWireProofs ---------------------------
(***************************************************************************)
(* What a stream of TcpStack puts on the wire, for any connections, widths *)
(* and capacities: that its packets tile the sequence space, acknowledge   *)
(* only what was sent, are whole and in order until the first FIN, and     *)
(* that FINs of our own are within their budget.                           *)
(*                                                                         *)
(* WireInv follows a packet from the counter through the goroutine that    *)
(* builds it and the shared buffer to the channel; it rests on PhaseInv of *)
(* TcpStackProofs, which says when the two goroutines may meet.            *)
(***************************************************************************)
EXTENDS TcpStackProofs, FiniteSetTheorems

Record == [kind : Kinds, seq : SeqNum, len : Lengths]

(* A packet is torn or has the number, place and kind that were issued ... *)
NamedIn(s, p) ==
  p.kind = "TORN" \/ (p.num \in 1 .. Len(s) /\ p.seq = s[p.num].seq /\ p.kind = s[p.num].kind)
(* ... and acknowledges one of the numbers in sent.                        *)
GenuineIn(sent, p) == p.kind \in {"DATA", "FIN", "FIN-REPLY"} => p.ack \in sent

ReaderHas == rd.at \in {"finAck", "finSerialize", "finSend"}
HandlerHas(c) == app[c].at \in {"loadAck", "serialize", "send"}
Size(r) == r.len + (IF r.kind = "DATA" THEN 0 ELSE 1)

Numbers(c) ==
  /\ \A i \in 1 .. Len(issued[c]) - 1 : Follows(issued[c][i], issued[c][i + 1])
  /\ Len(issued[c]) # 0 =>
       seq[c] = Plus(issued[c][Len(issued[c])].seq, Size(issued[c][Len(issued[c])]))

Carried(c) ==
  /\ \A p \in buf[c] : NamedIn(issued[c], p) /\ GenuineIn(heard[c].sent, p)
  /\ \A i \in 1 .. Len(wire[c]) :
       NamedIn(issued[c], wire[c][i]) /\ GenuineIn(heard[c].sent, wire[c][i])

Held(c) ==
  /\ HandlerHas(c) => NamedIn(issued[c], app[c].out) /\ app[c].out.kind # "TORN"
  /\ app[c].at \in {"serialize", "send"} => GenuineIn(heard[c].sent, app[c].out)

Acking(c) == heard[c].syn => ack[c] \in heard[c].sent

InTurn(c) == heard[c].fins = 0 =>
  /\ \A j \in 1 .. Len(wire[c]) :
       /\ wire[c][j].kind # "TORN" /\ wire[c][j].num <= Len(issued[c])
       /\ HandlerHas(c) => wire[c][j].num < app[c].out.num
       /\ \A i \in 1 .. j - 1 : wire[c][i].num < wire[c][j].num
  /\ HandlerHas(c) => app[c].out.num = Len(issued[c])
  /\ app[c].at = "send" => buf[c] = {app[c].out}

WireOf(c) == Numbers(c) /\ Carried(c) /\ Held(c) /\ Acking(c) /\ InTurn(c)

ReaderOf ==
  /\ rd.at \in ReaderSteps => Covered(rd.seg) \subseteq heard[rd.conn].sent
  /\ rd.at = "acknowledge" => rd.seg.len # 0
  /\ rd.at = "finState" \/ rd.at = "finSequence" \/ ReaderHas =>
       rd.seg.fin /\ heard[rd.conn].fins # 0 /\ heard[rd.conn].syn
  /\ ReaderHas => NamedIn(issued[rd.conn], rd.out)
  /\ rd.at \in {"finSerialize", "finSend"} => GenuineIn(heard[rd.conn].sent, rd.out)

WireInv == PhaseInv /\ ReaderOf /\ \A c \in Conns : WireOf(c)

-----------------------------------------------------------------------------
(* A packet keeps its name when more are issued. *)
LEMMA NameKept ==
  ASSUME NEW s \in Seq(Record), NEW r \in Record, NEW p, NamedIn(s, p)
  PROVE  NamedIn(Append(s, r), p)
<1>. DEFINE t == Append(s, r)
<1>1. Len(s) \in Nat /\ Len(t) = Len(s) + 1 /\ \A i \in 1 .. Len(s) : t[i] = s[i]
  OBVIOUS
<1>. HIDE DEF t
<1>2. NamedIn(t, p)
  BY <1>1 DEF NamedIn
<1>. QED BY <1>2 DEF t

(* The acknowledgement numbers that a segment with a FIN, a SYN or a       *)
(* payload justifies.                                                      *)
LEMMA Justified ==
  ASSUME NEW g \in Segments
  PROVE  /\ g.syn \/ g.fin => AfterFlag(g) \in Covered(g)
         /\ g.len # 0 => AfterPayload(g) \in Covered(g)
<1>1. g.len \in Nat /\ g.len <= MaxLen /\ MaxLen \in Nat
  BY SegmentType, WidthAssumption DEF Lengths
<1>2. ASSUME g.syn \/ g.fin PROVE AfterFlag(g) \in Covered(g)
  BY <1>1, <1>2 DEF AfterFlag, Covered
<1>3. ASSUME g.len # 0 PROVE AfterPayload(g) \in Covered(g)
  BY <1>1, <1>3 DEF AfterPayload, Covered
<1>. QED BY <1>2, <1>3

(* The history of what was heard only grows. *)
LEMMA HeardGrows ==
  ASSUME TypeOK, NEW c \in Conns, NEW g \in Segments, TakeUp(c, g)
  PROVE  /\ heard'[c].syn = (heard[c].syn \/ g.syn)
         /\ heard'[c].acked = (heard[c].acked \/ ((heard[c].syn \/ g.syn) /\ g.ack))
         /\ heard'[c].fins = heard[c].fins + (IF (heard[c].syn \/ g.syn) /\ g.fin THEN 1 ELSE 0)
         /\ heard[c].fins \in Nat
         /\ heard'[c].sent = heard[c].sent \cup Covered(g)
         /\ \A d \in Conns \ {c} : heard'[d] = heard[d]
BY DEF TakeUp, Hear, TypeOK

(* A connection that a step does not touch. *)
Untouched(d) ==
  /\ issued'[d] = issued[d] /\ seq'[d] = seq[d] /\ buf'[d] = buf[d] /\ wire'[d] = wire[d]
  /\ app'[d] = app[d] /\ ack'[d] = ack[d] /\ heard'[d] = heard[d]

LEMMA KeepsConn ==
  ASSUME NEW d, WireOf(d), Untouched(d)
  PROVE  WireOf(d)'
BY DEF Untouched, WireOf, Numbers, Carried, Held, Acking, InTurn, HandlerHas

LEMMA KeepsReader ==
  ASSUME ReaderOf, UNCHANGED <<rd, issued, heard>>
  PROVE  ReaderOf'
BY DEF ReaderOf, ReaderHas

-----------------------------------------------------------------------------
LEMMA WireInit == Init => WireInv
<1>. SUFFICES ASSUME Init PROVE WireInv
  OBVIOUS
<1>1. PhaseInv
  <2>1. TypeOK
    BY InitType
  <2>. QED BY <2>1 DEF Init, PhaseInv, PhaseOfConn, PhaseOfReader, Idle, ReaderSteps
<1>2. ReaderOf
  BY DEF Init, ReaderOf, ReaderHas, Idle, ReaderSteps
<1>3. ASSUME NEW c \in Conns PROVE WireOf(c)
  BY DEF Init, WireOf, Numbers, Carried, Held, Acking, InTurn, HandlerHas
<1>. QED BY <1>1, <1>2, <1>3 DEF WireInv

(* A segment comes in: whatever it is, the reader's packet is not there    *)
(* yet, and the handler does not have one if it starts now.                *)
LEMMA TakeUpStep ==
  ASSUME WireInv, NEW c \in Conns, NEW g \in Segments, TakeUp(c, g),
         \A d \in Conns \ {c} : app'[d] = app[d] /\ ack'[d] = ack[d],
         app'[c] = app[c] \/ app'[c].at = "start",
         heard'[c].syn => ack'[c] \in heard'[c].sent,
         AnswersFin(g, state'[c]) => heard'[c].syn
  PROVE  ReaderOf' /\ \A d \in Conns : WireOf(d)'
<1>1. /\ UNCHANGED <<seq, buf, issued, wire>>
      /\ rd'.at \in {"finState", "ackCheck"} /\ rd'.conn = c /\ rd'.seg = g
      /\ rd'.at = "finState" <=> AnswersFin(g, state'[c])
  BY DEF TakeUp, FirstStep
<1>2. /\ heard'[c].syn = (heard[c].syn \/ g.syn)
      /\ heard'[c].fins = heard[c].fins + (IF (heard[c].syn \/ g.syn) /\ g.fin THEN 1 ELSE 0)
      /\ heard[c].fins \in Nat
      /\ heard'[c].sent = heard[c].sent \cup Covered(g)
      /\ \A d \in Conns \ {c} : heard'[d] = heard[d]
  BY HeardGrows DEF WireInv, PhaseInv
<1>3. ReaderOf'
  <2>1. rd'.at = "finState" => g.fin /\ heard'[c].syn /\ heard'[c].fins # 0
    <3>1. rd'.at = "finState" => g.fin /\ heard'[c].syn
      BY <1>1 DEF AnswersFin
    <3>2. heard'[c].syn => heard[c].syn \/ g.syn
      BY <1>2
    <3>3. (heard[c].syn \/ g.syn) /\ g.fin => heard'[c].fins = heard[c].fins + 1
      BY <1>2
    <3>. QED BY <1>2, <3>1, <3>2, <3>3
  <2>. QED BY <1>1, <1>2, <2>1 DEF ReaderOf, ReaderHas
<1>4. ASSUME NEW d \in Conns \ {c} PROVE WireOf(d)'
  BY <1>1, <1>2, KeepsConn DEF WireInv, Untouched
<1>5. WireOf(c)'
  <2>1. WireOf(c) /\ heard[c].fins \in Nat
    BY <1>2 DEF WireInv
  <2>2. Carried(c)'
    BY <1>1, <1>2, <2>1 DEF WireOf, Carried, GenuineIn
  <2>3. Held(c)'
    BY <1>1, <1>2, <2>1 DEF WireOf, Held, HandlerHas, GenuineIn
  <2>4. InTurn(c)'
    <3>1. heard'[c].fins = 0 => heard[c].fins = 0
      BY <1>2
    <3>. QED BY <1>1, <2>1, <3>1 DEF WireOf, InTurn, HandlerHas
  <2>. QED BY <1>1, <2>1, <2>2, <2>3, <2>4 DEF WireOf, Numbers, Acking
<1>. QED BY <1>3, <1>4, <1>5

LEMMA ReceiveStep ==
  ASSUME WireInv, NEW c \in Conns, NEW g \in Segments, ReceiveSyn(c, g) \/ ReceiveOther(c, g)
  PROVE  ReaderOf' /\ \A d \in Conns : WireOf(d)'
<1>1. /\ TypeOK /\ PhaseOfConn(c) /\ WireOf(c) /\ TakeUp(c, g)
      /\ g.syn \in BOOLEAN /\ g.fin \in BOOLEAN /\ heard[c].syn \in BOOLEAN
  BY SegmentType DEF WireInv, PhaseInv, ReceiveSyn, ReceiveOther, TypeOK
<1>2. /\ heard'[c].syn = (heard[c].syn \/ g.syn)
      /\ heard'[c].sent = heard[c].sent \cup Covered(g)
  BY <1>1, HeardGrows
<1>3. CASE ReceiveSyn(c, g)
  <2>1. /\ g.syn /\ ack' = [ack EXCEPT ![c] = AfterFlag(g)]
        /\ app' = app \/ app' = [app EXCEPT ![c].at = "start"]
    BY <1>3 DEF ReceiveSyn, StartsHandshake
  <2>2. ack'[c] = AfterFlag(g) /\ \A d \in Conns \ {c} : ack'[d] = ack[d] /\ app'[d] = app[d]
    BY <1>1, <2>1 DEF TypeOK
  <2>3. app'[c] = app[c] \/ app'[c].at = "start"
    BY <1>1, <2>1 DEF TypeOK
  <2>4. ack'[c] \in heard'[c].sent
    BY <1>2, <2>1, <2>2, Justified
  <2>. QED BY <1>1, <1>2, <2>1, <2>2, <2>3, <2>4, TakeUpStep
<1>4. CASE ReceiveOther(c, g)
  <2>1. app' = app /\ \A d \in Conns \ {c} : ack'[d] = ack[d]
    BY <1>1, <1>4 DEF ReceiveOther, TypeOK
  <2>2. /\ g.syn => state[c] \notin {"None", "Init"}
        /\ state[c] = "None" => state'[c] = "Init"
        /\ state[c] # "None" => state' = state /\ ack' = ack
    BY <1>1, <1>4 DEF ReceiveOther, StartsHandshake, TypeOK
  <2>3. heard'[c].syn => heard[c].syn /\ ack'[c] \in heard'[c].sent
    BY <1>1, <1>2, <2>2 DEF PhaseOfConn, WireOf, Acking
  <2>4. AnswersFin(g, state'[c]) => heard'[c].syn
    BY <1>1, <1>2, <2>2 DEF PhaseOfConn, AnswersFin
  <2>. QED BY <1>1, <2>1, <2>3, <2>4, TakeUpStep
<1>. QED BY <1>3, <1>4

-----------------------------------------------------------------------------
(* A packet is given its number: it follows the one before. *)
LEMMA AllocateStep ==
  ASSUME TypeOK, NEW c \in Conns, WireOf(c), NEW kind \in Kinds, NEW n \in Lengths,
         kind # "DATA" => n = 0, Allocate(c, kind, n)
  PROVE  /\ Numbers(c)'
         /\ Len(issued'[c]) = Len(issued[c]) + 1 /\ Len(issued[c]) \in Nat
         /\ \A p : NamedIn(issued[c], p) => NamedIn(issued'[c], p)
         /\ NamedIn(issued'[c], Numbered(c, kind, n))
         /\ \A d \in Conns \ {c} : issued'[d] = issued[d] /\ seq'[d] = seq[d]
<1>. DEFINE r == [kind |-> kind, seq |-> seq[c], len |-> n]
            s == issued[c]
            t == Append(s, r)
<1>1. s \in Seq(Record) /\ r \in Record
  BY DEF TypeOK, Record
<1>2. /\ issued' = [issued EXCEPT ![c] = Append(issued[c], r)]
      /\ seq' = [seq EXCEPT ![c] = Plus(seq[c], Span(kind, n))]
  BY DEF Allocate
<1>3. /\ issued'[c] = t /\ seq'[c] = Plus(seq[c], Span(kind, n))
      /\ \A d \in Conns \ {c} : issued'[d] = issued[d] /\ seq'[d] = seq[d]
  BY <1>2 DEF TypeOK
<1>4. /\ Len(t) = Len(s) + 1 /\ Len(s) \in Nat
      /\ \A i \in 1 .. Len(s) : t[i] = s[i]
      /\ t[Len(s) + 1] = r
  <2>. HIDE DEF s, r
  <2>. QED BY <1>1
<1>5. \A p : NamedIn(s, p) => NamedIn(t, p)
  <2>. HIDE DEF s, r
  <2>. QED BY <1>1, NameKept
<1>6. NamedIn(t, Numbered(c, kind, n))
  <2>1. /\ Numbered(c, kind, n).num = Len(s) + 1 /\ Numbered(c, kind, n).seq = r.seq
        /\ Numbered(c, kind, n).kind = r.kind
    BY DEF Numbered
  <2>. HIDE DEF s, r, t
  <2>. QED BY <1>4, <2>1 DEF NamedIn
<1>7. Span(kind, n) = Size(r)
  BY ZeroType DEF Span, Size
<1>8. Numbers(c)'
  <2>1. /\ \A i \in 1 .. Len(s) - 1 : Follows(s[i], s[i + 1])
        /\ Len(s) # 0 => r.seq = Plus(s[Len(s)].seq, Size(s[Len(s)]))
    BY DEF WireOf, Numbers
  <2>2. \A i \in 1 .. Len(t) - 1 : Follows(t[i], t[i + 1])
    <3>. SUFFICES ASSUME NEW i \in 1 .. Len(t) - 1 PROVE Follows(t[i], t[i + 1])
      OBVIOUS
    <3>. HIDE DEF s, r, t
    <3>1. CASE i = Len(s)
      <4>1. t[i] = s[Len(s)] /\ t[i + 1] = r /\ Len(s) # 0
        BY <1>4, <3>1
      <4>. QED BY <2>1, <4>1 DEF Follows, Size
    <3>2. CASE i # Len(s)
      <4>1. i \in 1 .. Len(s) - 1 /\ t[i] = s[i] /\ t[i + 1] = s[i + 1]
        BY <1>4, <3>2
      <4>. QED BY <2>1, <4>1
    <3>. QED BY <3>1, <3>2
  <2>3. seq'[c] = Plus(t[Len(t)].seq, Size(t[Len(t)]))
    <3>1. t[Len(t)] = r
      BY <1>4
    <3>. HIDE DEF t
    <3>. QED BY <1>3, <1>7, <3>1
  <2>. HIDE DEF t
  <2>. QED BY <1>3, <2>2, <2>3 DEF Numbers
<1>. HIDE DEF s, t
<1>. QED BY <1>3, <1>4, <1>5, <1>6, <1>8 DEF s

(* Steps of the reader that change nothing of this. *)
LEMMA ReaderQuiet ==
  ASSUME WireInv, FinState \/ AckCheck \/ AckSet \/ PayloadCheck \/ DeliverToApplication
  PROVE  ReaderOf' /\ \A d \in Conns : WireOf(d)'
<1>1. UNCHANGED <<seq, ack, buf, wire, issued, app, heard>> /\ rd.at \in ReaderSteps
  BY DEF FinState, AckCheck, AckSet, PayloadCheck, DeliverToApplication, streamVars, historyVars, ReaderSteps
<1>2. rd \in Job /\ rd.conn \in Conns /\ rd.seg \in Segments
  BY <1>1, JobType DEF WireInv, PhaseInv
<1>3. ReaderOf'
  <2>1. CASE FinState
    <3>1. rd.at = "finState" /\ rd'.at = "finSequence" /\ rd'.conn = rd.conn /\ rd'.seg = rd.seg
      BY <1>2, <2>1 DEF FinState, Proceed, Job
    <3>. QED BY <1>1, <3>1 DEF WireInv, ReaderOf, ReaderHas, ReaderSteps
  <2>2. CASE AckCheck \/ AckSet
    <3>1. rd'.at \in {"ackSet", "payload"} /\ rd'.conn = rd.conn /\ rd'.seg = rd.seg
      BY <1>2, <2>2 DEF AckCheck, AckSet, Proceed, Job
    <3>. QED BY <1>1, <3>1 DEF WireInv, ReaderOf, ReaderHas, ReaderSteps
  <2>3. CASE PayloadCheck /\ CarriesPayload(rd.conn, rd.seg)
    <3>1. /\ rd'.at = "acknowledge" /\ rd'.conn = rd.conn /\ rd'.seg = rd.seg
      BY <1>2, <2>3 DEF PayloadCheck, Proceed, Job
    <3>2. rd.seg.len # 0
      BY <1>2, <2>3, SegmentType, ZeroType DEF CarriesPayload
    <3>. QED BY <1>1, <3>1, <3>2 DEF WireInv, ReaderOf, ReaderHas, ReaderSteps
  <2>4. CASE (PayloadCheck /\ ~CarriesPayload(rd.conn, rd.seg)) \/ DeliverToApplication
    BY <2>4 DEF PayloadCheck, DeliverToApplication, Idle, ReaderOf, ReaderHas, ReaderSteps
  <2>. QED BY <2>1, <2>2, <2>3, <2>4
<1>4. ASSUME NEW d \in Conns PROVE WireOf(d)'
  BY <1>1, KeepsConn DEF WireInv, Untouched
<1>. QED BY <1>3, <1>4

LEMMA AcknowledgeStep ==
  ASSUME WireInv, Acknowledge
  PROVE  ReaderOf' /\ \A d \in Conns : WireOf(d)'
<1>1. UNCHANGED <<seq, buf, wire, issued, app, heard>> /\ rd.at = "acknowledge"
  BY DEF Acknowledge, historyVars
<1>2. TypeOK /\ rd \in Job /\ rd.conn \in Conns /\ rd.seg \in Segments
  BY <1>1, JobType DEF WireInv, PhaseInv, ReaderSteps
<1>3. rd'.at = "deliver" /\ rd'.conn = rd.conn /\ rd'.seg = rd.seg
  BY <1>2 DEF Acknowledge, Proceed, Job
<1>4. ReaderOf'
  BY <1>1, <1>3 DEF WireInv, ReaderOf, ReaderHas, ReaderSteps
<1>5. ack' = [ack EXCEPT ![rd.conn] = AfterPayload(rd.seg)] /\ ack \in [Conns -> SeqNum]
  BY <1>2 DEF Acknowledge, TypeOK
<1>6. AfterPayload(rd.seg) \in heard[rd.conn].sent
  BY <1>1, <1>2, Justified DEF WireInv, ReaderOf, ReaderSteps
<1>7. ASSUME NEW d \in Conns PROVE WireOf(d)'
  <2>1. WireOf(d)
    BY DEF WireInv
  <2>2. Acking(d)'
    BY <1>1, <1>2, <1>5, <1>6, <2>1 DEF WireOf, Acking
  <2>. QED BY <1>1, <2>1, <2>2 DEF WireOf, Numbers, Carried, Held, InTurn, HandlerHas
<1>. QED BY <1>4, <1>7

(* The answer to a FIN: while the reader is at it the subprocess has sent  *)
(* one, so that the order of the packets is open from then on.             *)
LEMMA FinSequenceStep ==
  ASSUME WireInv, FinSequence, NEW c \in Conns, c = rd.conn
  PROVE  ReaderOf' /\ \A d \in Conns : WireOf(d)'
<1>1. UNCHANGED <<ack, buf, wire, app, heard>> /\ rd.at = "finSequence" /\ Allocate(c, "FIN-REPLY", 0)
  BY DEF FinSequence
<1>2. TypeOK /\ rd \in Job /\ rd.seg \in Segments /\ WireOf(c)
  BY <1>1, JobType DEF WireInv, PhaseInv, ReaderSteps
<1>3. /\ rd'.at = "finAck" /\ rd'.conn = c /\ rd'.seg = rd.seg
      /\ rd'.out = Numbered(c, "FIN-REPLY", 0)
  BY <1>2 DEF FinSequence, Job
<1>4. /\ Numbers(c)' /\ \A p : NamedIn(issued[c], p) => NamedIn(issued'[c], p)
      /\ NamedIn(issued'[c], Numbered(c, "FIN-REPLY", 0))
      /\ \A d \in Conns \ {c} : issued'[d] = issued[d] /\ seq'[d] = seq[d]
  <2>1. "FIN-REPLY" \in Kinds /\ 0 \in Lengths
    BY ZeroType DEF Kinds
  <2>. QED BY <1>1, <1>2, <2>1, AllocateStep
<1>5. ReaderOf'
  BY <1>1, <1>3, <1>4 DEF WireInv, ReaderOf, ReaderHas, ReaderSteps
<1>6. ASSUME NEW d \in Conns \ {c} PROVE WireOf(d)'
  BY <1>1, <1>4, KeepsConn DEF WireInv, Untouched
<1>7. WireOf(c)'
  <2>1. heard[c].fins # 0
    BY <1>1 DEF WireInv, ReaderOf
  <2>2. Carried(c)' /\ Held(c)'
    BY <1>1, <1>2, <1>4 DEF WireOf, Carried, Held, HandlerHas
  <2>. QED BY <1>1, <1>2, <1>4, <2>1, <2>2 DEF WireOf, Acking, InTurn
<1>. QED BY <1>5, <1>6, <1>7

LEMMA FinAckStep ==
  ASSUME WireInv, FinAck, NEW c \in Conns, c = rd.conn
  PROVE  ReaderOf' /\ \A d \in Conns : WireOf(d)'
<1>1. UNCHANGED <<seq, buf, wire, app, issued, heard>> /\ rd.at = "finAck"
  BY DEF FinAck, historyVars
<1>2. TypeOK /\ rd \in Job /\ rd.seg \in Segments /\ rd.out \in Packet /\ WireOf(c)
  BY <1>1, JobType DEF WireInv, PhaseInv, ReaderSteps
<1>3. /\ Covered(rd.seg) \subseteq heard[c].sent /\ rd.seg.fin /\ heard[c].fins # 0 /\ heard[c].syn
      /\ NamedIn(issued[c], rd.out)
  BY <1>1 DEF WireInv, ReaderOf, ReaderHas, ReaderSteps
<1>4. AfterFlag(rd.seg) \in heard[c].sent
  BY <1>2, <1>3, Justified
<1>5. /\ rd'.at = "finSerialize" /\ rd'.conn = c /\ rd'.seg = rd.seg
      /\ rd'.out = [rd.out EXCEPT !.ack = AfterFlag(rd.seg)]
  BY <1>2 DEF FinAck, Job
<1>6. NamedIn(issued[c], rd'.out) /\ rd'.out.ack \in heard[c].sent
  <2>1. /\ rd'.out.ack = AfterFlag(rd.seg) /\ rd'.out.num = rd.out.num
        /\ rd'.out.kind = rd.out.kind /\ rd'.out.seq = rd.out.seq
    BY <1>2, <1>5 DEF Packet
  <2>. QED BY <1>3, <1>4, <2>1 DEF NamedIn
<1>7. ReaderOf'
  BY <1>1, <1>3, <1>5, <1>6 DEF ReaderOf, ReaderHas, ReaderSteps, GenuineIn
<1>8. ack' = [ack EXCEPT ![c] = AfterFlag(rd.seg)] /\ ack \in [Conns -> SeqNum]
  BY <1>2 DEF FinAck, TypeOK
<1>9. ASSUME NEW d \in Conns PROVE WireOf(d)'
  <2>1. WireOf(d)
    BY DEF WireInv
  <2>2. Acking(d)'
    BY <1>1, <1>4, <1>8, <2>1 DEF WireOf, Acking
  <2>. QED BY <1>1, <2>1, <2>2 DEF WireOf, Numbers, Carried, Held, InTurn, HandlerHas
<1>. QED BY <1>7, <1>9

LEMMA FinSerializeStep ==
  ASSUME WireInv, FinSerialize, NEW c \in Conns, c = rd.conn
  PROVE  ReaderOf' /\ \A d \in Conns : WireOf(d)'
<1>1. /\ UNCHANGED <<seq, ack, wire, app, issued, heard>> /\ rd.at = "finSerialize"
      /\ \E b \in BOOLEAN : Fill(c, rd.out, b)
  BY DEF FinSerialize, historyVars, HandlerHoldsBuf
<1>2. TypeOK /\ rd \in Job /\ rd.seg \in Segments /\ rd.out \in Packet /\ WireOf(c)
  BY <1>1, JobType DEF WireInv, PhaseInv, ReaderSteps
<1>3. /\ heard[c].fins # 0 /\ NamedIn(issued[c], rd.out) /\ GenuineIn(heard[c].sent, rd.out)
  BY <1>1 DEF WireInv, ReaderOf, ReaderHas
<1>4. rd'.at = "finSend" /\ rd'.conn = c /\ rd'.seg = rd.seg /\ rd'.out = rd.out
  BY <1>2 DEF FinSerialize, Proceed, Job
<1>5. ReaderOf'
  BY <1>1, <1>4 DEF WireInv, ReaderOf, ReaderHas, ReaderSteps
<1>6. buf'[c] \subseteq buf[c] \cup {rd.out} /\ \A d \in Conns \ {c} : buf'[d] = buf[d]
  BY <1>1, <1>2 DEF Fill, TypeOK
<1>7. ASSUME NEW d \in Conns \ {c} PROVE WireOf(d)'
  BY <1>1, <1>6, KeepsConn DEF WireInv, Untouched
<1>8. WireOf(c)'
  <2>1. Carried(c)'
    BY <1>1, <1>2, <1>3, <1>6 DEF WireOf, Carried
  <2>. QED BY <1>1, <1>2, <1>3, <2>1 DEF WireOf, Numbers, Held, Acking, InTurn, HandlerHas
<1>. QED BY <1>5, <1>7, <1>8

(* What leaves the buffer is sound, if what is meant to leave it is. *)
LEMMA SendStep ==
  ASSUME TypeOK, NEW c \in Conns, WireOf(c), NEW q \in Packet, NEW p \in Copied(c, q), TrySend(c, p),
         NamedIn(issued[c], q), GenuineIn(heard[c].sent, q), UNCHANGED <<buf, issued, heard>>
  PROVE  /\ Carried(c)'
         /\ wire'[c] = wire[c] \/ wire'[c] = Append(wire[c], p)
         /\ \A d \in Conns \ {c} : wire'[d] = wire[d]
<1>1. p \in Packet /\ NamedIn(issued[c], p) /\ GenuineIn(heard[c].sent, p)
  <2>1. CASE p = q
    BY <2>1
  <2>2. CASE p \in buf[c]
    BY <2>2 DEF WireOf, Carried, TypeOK
  <2>3. CASE p = Torn(c)
    BY <2>3, BlankType DEF NamedIn, GenuineIn, Torn, Void
  <2>. QED BY <2>1, <2>2, <2>3 DEF Copied
<1>2. wire' = wire \/ wire' = [wire EXCEPT ![c] = Append(wire[c], p)]
  BY DEF TrySend
<1>3. /\ wire'[c] = wire[c] \/ wire'[c] = Append(wire[c], p)
      /\ \A d \in Conns \ {c} : wire'[d] = wire[d]
  BY <1>2 DEF TypeOK
<1>4. \A i \in 1 .. Len(wire'[c]) : wire'[c][i] = p \/ (i \in 1 .. Len(wire[c]) /\ wire'[c][i] = wire[c][i])
  <2>. DEFINE s == wire[c]
              t == wire'[c]
  <2>1. s \in Seq(Packet) /\ (t = s \/ t = Append(s, p))
    BY <1>3 DEF TypeOK
  <2>. HIDE DEF s, t
  <2>2. \A i \in 1 .. Len(t) : t[i] = p \/ (i \in 1 .. Len(s) /\ t[i] = s[i])
    BY <1>1, <2>1
  <2>. QED BY <2>2 DEF s, t
<1>5. Carried(c)'
  BY <1>1, <1>4 DEF WireOf, Carried
<1>. QED BY <1>3, <1>5

LEMMA FinSendStep ==
  ASSUME WireInv, FinSend, NEW c \in Conns, c = rd.conn
  PROVE  ReaderOf' /\ \A d \in Conns : WireOf(d)'
<1>1. /\ UNCHANGED <<seq, ack, buf, app, issued, heard>> /\ rd.at = "finSend"
      /\ \E p \in Copied(c, rd.out) : TrySend(c, p)
  BY DEF FinSend, streamVars
<1>2. TypeOK /\ rd \in Job /\ rd.seg \in Segments /\ rd.out \in Packet /\ WireOf(c)
  BY <1>1, JobType DEF WireInv, PhaseInv, ReaderSteps
<1>3. /\ heard[c].fins # 0 /\ NamedIn(issued[c], rd.out) /\ GenuineIn(heard[c].sent, rd.out)
  BY <1>1 DEF WireInv, ReaderOf, ReaderHas
<1>4. rd'.at = "ackCheck" /\ rd'.conn = c /\ rd'.seg = rd.seg
  BY <1>2 DEF FinSend, Proceed, Job
<1>5. ReaderOf'
  BY <1>1, <1>4 DEF WireInv, ReaderOf, ReaderHas, ReaderSteps
<1>6. Carried(c)' /\ \A d \in Conns \ {c} : wire'[d] = wire[d]
  BY <1>1, <1>2, <1>3, SendStep
<1>7. ASSUME NEW d \in Conns \ {c} PROVE WireOf(d)'
  BY <1>1, <1>6, KeepsConn DEF WireInv, Untouched
<1>8. WireOf(c)'
  BY <1>1, <1>2, <1>3, <1>6 DEF WireOf, Numbers, Held, Acking, InTurn, HandlerHas
<1>. QED BY <1>5, <1>7, <1>8

-----------------------------------------------------------------------------
(* A step of c's handler: the names of packets are kept, so that the       *)
(* reader's packet keeps its own, and the other connections are not        *)
(* touched.                                                                *)
LEMMA HandlerFrame ==
  ASSUME WireInv, NEW c \in Conns, UNCHANGED <<rd, heard>>,
         \A p : NamedIn(issued[c], p) => NamedIn(issued'[c], p),
         \A d \in Conns \ {c} : Untouched(d),
         WireOf(c)'
  PROVE  ReaderOf' /\ \A d \in Conns : WireOf(d)'
<1>1. ASSUME NEW d \in Conns \ {c} PROVE WireOf(d)'
  BY KeepsConn DEF WireInv
<1>2. ReaderHas => NamedIn(issued'[rd.conn], rd.out)
  <2>. SUFFICES ASSUME ReaderHas PROVE NamedIn(issued'[rd.conn], rd.out)
    OBVIOUS
  <2>1. rd.conn \in Conns
    BY JobType DEF WireInv, PhaseInv, ReaderHas, ReaderSteps
  <2>2. NamedIn(issued[rd.conn], rd.out)
    BY DEF WireInv, ReaderOf
  <2>3. CASE rd.conn = c
    BY <2>2, <2>3
  <2>4. CASE rd.conn # c
    BY <2>1, <2>2, <2>4 DEF Untouched
  <2>. QED BY <2>3, <2>4
<1>3. ReaderOf'
  BY <1>2 DEF WireInv, ReaderOf, ReaderHas
<1>. QED BY <1>1, <1>3

(* Accept, Reject, Write and Close take a number: every packet on the wire *)
(* has a smaller one.                                                      *)
LEMMA BeginStep ==
  ASSUME WireInv, NEW c \in Conns, NEW kind \in Kinds, NEW n \in Lengths,
         kind # "DATA" => n = 0, Begin(c, kind, n),
         UNCHANGED <<ack, buf, wire, heard, rd>>
  PROVE  ReaderOf' /\ \A d \in Conns : WireOf(d)'
<1>1. TypeOK /\ WireOf(c) /\ Allocate(c, kind, n)
  BY DEF WireInv, PhaseInv, Begin
<1>2. /\ Numbers(c)'
      /\ Len(issued'[c]) = Len(issued[c]) + 1 /\ Len(issued[c]) \in Nat
      /\ \A p : NamedIn(issued[c], p) => NamedIn(issued'[c], p)
      /\ NamedIn(issued'[c], Numbered(c, kind, n))
      /\ \A d \in Conns \ {c} : issued'[d] = issued[d] /\ seq'[d] = seq[d]
  BY <1>1, AllocateStep
<1>3. /\ app'[c].at = "loadAck" /\ app'[c].out = Numbered(c, kind, n)
      /\ \A d \in Conns \ {c} : app'[d] = app[d]
  BY <1>1 DEF Begin, TypeOK
<1>4. app'[c].out.num = Len(issued'[c]) /\ app'[c].out.kind = kind
  BY <1>2, <1>3 DEF Numbered
<1>5. Carried(c)'
  BY <1>1, <1>2 DEF WireOf, Carried
<1>6. Held(c)'
  BY <1>2, <1>3, <1>4 DEF Held, HandlerHas, Kinds
<1>7. InTurn(c)'
  <2>. SUFFICES ASSUME heard[c].fins = 0 PROVE InTurn(c)'
    BY DEF InTurn
  <2>1. ASSUME NEW j \in 1 .. Len(wire[c])
        PROVE  /\ wire[c][j].kind # "TORN"
               /\ wire[c][j].num <= Len(issued'[c]) /\ wire[c][j].num < Len(issued'[c])
               /\ \A i \in 1 .. j - 1 : wire[c][i].num < wire[c][j].num
    <3>1. wire[c][j].num \in Nat
      <4>. DEFINE w == wire[c]
      <4>1. w \in Seq(Packet)
        BY <1>1 DEF TypeOK
      <4>2. j \in 1 .. Len(w)
        BY <2>1
      <4>. HIDE DEF w
      <4>3. w[j] \in Packet
        BY <4>1, <4>2
      <4>. QED BY <4>3 DEF Packet, w
    <3>. QED BY <1>1, <1>2, <2>1, <3>1 DEF WireOf, InTurn
  <2>. QED BY <1>3, <1>4, <2>1 DEF InTurn, HandlerHas
<1>8. WireOf(c)'
  BY <1>1, <1>2, <1>5, <1>6, <1>7 DEF WireOf, Acking
<1>9. \A d \in Conns \ {c} : Untouched(d)
  BY <1>2, <1>3 DEF Untouched
<1>. QED BY <1>2, <1>8, <1>9, HandlerFrame

(* Close takes StateFinished before it takes a number: no packet yet. *)
LEMMA CloseStep ==
  ASSUME WireInv, NEW c \in Conns, Close(c)
  PROVE  ReaderOf' /\ \A d \in Conns : WireOf(d)'
<1>1. /\ UNCHANGED <<seq, ack, buf, wire, issued, heard, rd>>
      /\ app' = [app EXCEPT ![c].at = "sequence"]
  BY DEF Close, historyVars
<1>2. app'[c].at = "sequence" /\ \A d \in Conns \ {c} : app'[d] = app[d]
  BY <1>1 DEF WireInv, PhaseInv, TypeOK
<1>3. WireOf(c)'
  BY <1>1, <1>2 DEF WireInv, WireOf, Numbers, Carried, Held, Acking, InTurn, HandlerHas
<1>4. \A d \in Conns \ {c} : Untouched(d)
  BY <1>1, <1>2 DEF Untouched
<1>. QED BY <1>1, <1>3, <1>4, HandlerFrame

(* The handler reads ack: from the SYN on it is a number that the          *)
(* subprocess has sent.                                                    *)
LEMMA LoadAckStep ==
  ASSUME WireInv, NEW c \in Conns, LoadAck(c)
  PROVE  ReaderOf' /\ \A d \in Conns : WireOf(d)'
<1>1. /\ UNCHANGED <<seq, ack, buf, wire, issued, heard, rd>>
      /\ app[c].at = "loadAck"
  BY DEF LoadAck, streamVars, historyVars
<1>2. TypeOK /\ WireOf(c) /\ app[c].out \in Packet /\ heard[c].syn
  BY <1>1 DEF WireInv, PhaseInv, PhaseOfConn, TypeOK
<1>3. /\ app'[c].at = "serialize"
      /\ app'[c].out = [app[c].out EXCEPT !.ack = AckField(c, app[c].out.kind)]
      /\ \A d \in Conns \ {c} : app'[d] = app[d]
  BY <1>2 DEF LoadAck, TypeOK
<1>4. /\ app'[c].out.kind = app[c].out.kind /\ app'[c].out.num = app[c].out.num
      /\ app'[c].out.seq = app[c].out.seq
      /\ app'[c].out.ack = AckField(c, app[c].out.kind)
  BY <1>2, <1>3 DEF Packet
<1>5. Held(c)'
  <2>1. NamedIn(issued[c], app[c].out) /\ app[c].out.kind # "TORN"
    BY <1>1, <1>2 DEF WireOf, Held, HandlerHas
  <2>2. ack[c] \in heard[c].sent
    BY <1>2 DEF WireOf, Acking
  <2>3. GenuineIn(heard[c].sent, app'[c].out)
    BY <1>4, <2>2 DEF GenuineIn, AckField
  <2>. QED BY <1>1, <1>4, <2>1, <2>3 DEF Held, NamedIn
<1>6. InTurn(c)'
  BY <1>1, <1>2, <1>3, <1>4 DEF WireOf, InTurn, HandlerHas
<1>7. WireOf(c)'
  BY <1>1, <1>2, <1>5, <1>6 DEF WireOf, Numbers, Carried, Acking
<1>8. \A d \in Conns \ {c} : Untouched(d)
  BY <1>1, <1>3 DEF Untouched
<1>. QED BY <1>1, <1>7, <1>8, HandlerFrame

(* The handler fills the buffer: before the first FIN the reader is not    *)
(* using it.                                                               *)
LEMMA SerializeStep ==
  ASSUME WireInv, NEW c \in Conns, Serialize(c)
  PROVE  ReaderOf' /\ \A d \in Conns : WireOf(d)'
<1>1. /\ UNCHANGED <<seq, ack, wire, issued, heard, rd>> /\ app[c].at = "serialize"
      /\ Fill(c, app[c].out, ReaderHoldsBuf(c))
      /\ app' = [app EXCEPT ![c].at = "send"]
  BY DEF Serialize, historyVars
<1>2. TypeOK /\ WireOf(c)
  BY DEF WireInv, PhaseInv
<1>3. /\ app'[c].at = "send" /\ app'[c].out = app[c].out
      /\ \A d \in Conns \ {c} : app'[d] = app[d]
  BY <1>1, <1>2 DEF TypeOK
<1>4. /\ buf'[c] = IF ReaderHoldsBuf(c) THEN buf[c] \cup {app[c].out} ELSE {app[c].out}
      /\ \A d \in Conns \ {c} : buf'[d] = buf[d]
  BY <1>1, <1>2 DEF Fill, TypeOK
<1>5. heard[c].fins = 0 => ~ReaderHoldsBuf(c)
  BY DEF WireInv, ReaderOf, ReaderHas, ReaderHoldsBuf
<1>6. NamedIn(issued[c], app[c].out) /\ GenuineIn(heard[c].sent, app[c].out) /\ app[c].out.kind # "TORN"
  BY <1>1, <1>2 DEF WireOf, Held, HandlerHas
<1>7. Carried(c)'
  <2>1. buf'[c] \subseteq buf[c] \cup {app[c].out}
    BY <1>4
  <2>. QED BY <1>1, <1>2, <1>6, <2>1 DEF WireOf, Carried
<1>8. InTurn(c)'
  BY <1>1, <1>2, <1>3, <1>4, <1>5 DEF WireOf, InTurn, HandlerHas
<1>9. Held(c)'
  BY <1>1, <1>3, <1>6 DEF Held
<1>10. WireOf(c)'
  BY <1>1, <1>2, <1>7, <1>8, <1>9 DEF WireOf, Numbers, Acking
<1>11. \A d \in Conns \ {c} : Untouched(d)
  BY <1>1, <1>3, <1>4 DEF Untouched
<1>. QED BY <1>1, <1>10, <1>11, HandlerFrame

(* The handler's packet reaches the channel, or is dropped. *)
LEMMA HandlerSendStep ==
  ASSUME WireInv, NEW c \in Conns, Send(c)
  PROVE  ReaderOf' /\ \A d \in Conns : WireOf(d)'
<1>. PICK p \in Copied(c, app[c].out) : TrySend(c, p)
  BY DEF Send
<1>1. UNCHANGED <<seq, ack, buf, issued, heard, rd>> /\ app[c].at = "send"
  BY DEF Send, streamVars
<1>2. TypeOK /\ WireOf(c) /\ app[c].out \in Packet
  BY DEF WireInv, PhaseInv, TypeOK
<1>3. /\ app'[c].at \in {"open", "done"}
      /\ \A d \in Conns \ {c} : app'[d] = app[d]
  BY <1>2 DEF Send, TypeOK
<1>4. NamedIn(issued[c], app[c].out) /\ GenuineIn(heard[c].sent, app[c].out) /\ app[c].out.kind # "TORN"
  BY <1>1, <1>2 DEF WireOf, Held, HandlerHas
<1>5. /\ Carried(c)'
      /\ wire'[c] = wire[c] \/ wire'[c] = Append(wire[c], p)
      /\ \A d \in Conns \ {c} : wire'[d] = wire[d]
  BY <1>1, <1>2, <1>4, SendStep
<1>6. InTurn(c)'
  <2>. SUFFICES ASSUME heard[c].fins = 0 PROVE InTurn(c)'
    BY <1>1 DEF InTurn
  <2>1. p = app[c].out /\ p.num = Len(issued[c])
    BY <1>1, <1>2 DEF WireOf, InTurn, HandlerHas, Copied
  <2>. DEFINE s == wire[c]
              t == wire'[c]
              m == Len(issued[c])
  <2>2. s \in Seq(Packet) /\ p \in Packet /\ (t = s \/ t = Append(s, p))
        /\ p.num = m /\ p.kind # "TORN" /\ m \in Nat
    BY <1>2, <1>4, <1>5, <2>1 DEF TypeOK
  <2>3. \A j \in 1 .. Len(s) :
          /\ s[j].kind # "TORN" /\ s[j].num <= m /\ s[j].num < p.num
          /\ \A i \in 1 .. j - 1 : s[i].num < s[j].num
    BY <1>1, <1>2, <2>1 DEF WireOf, InTurn, HandlerHas
  <2>4. \A j \in 1 .. Len(t) :
          /\ t[j].kind # "TORN" /\ t[j].num <= m
          /\ \A i \in 1 .. j - 1 : t[i].num < t[j].num
    <3>. HIDE DEF s, t, m
    <3>1. CASE t = s
      BY <2>3, <3>1
    <3>2. CASE t = Append(s, p)
      <4>1. /\ Len(s) \in Nat /\ Len(t) = Len(s) + 1 /\ t[Len(s) + 1] = p
            /\ \A i \in 1 .. Len(s) : t[i] = s[i]
        BY <2>2, <3>2
      <4>2. ASSUME NEW j \in 1 .. Len(s)
            PROVE  /\ t[j].kind # "TORN" /\ t[j].num <= m
                   /\ \A i \in 1 .. j - 1 : t[i].num < t[j].num
        <5>1. \A i \in 1 .. j - 1 : i \in 1 .. Len(s)
          BY <4>1
        <5>. QED BY <2>3, <4>1, <5>1
      <4>3. /\ t[Len(s) + 1].kind # "TORN" /\ t[Len(s) + 1].num <= m
            /\ \A i \in 1 .. Len(s) : t[i].num < t[Len(s) + 1].num
        BY <2>2, <2>3, <4>1
      <4>. QED BY <4>1, <4>2, <4>3
    <3>. QED BY <2>2, <3>1, <3>2
  <2>. HIDE DEF t
  <2>. QED BY <1>1, <1>3, <2>4 DEF InTurn, HandlerHas, t
<1>7. Held(c)'
  BY <1>3 DEF Held, HandlerHas
<1>8. WireOf(c)'
  BY <1>1, <1>2, <1>5, <1>6, <1>7 DEF WireOf, Numbers, Acking
<1>9. \A d \in Conns \ {c} : Untouched(d)
  BY <1>1, <1>3, <1>5 DEF Untouched
<1>. QED BY <1>1, <1>8, <1>9, HandlerFrame

LEMMA HandlerWires ==
  ASSUME WireInv, NEW c \in Conns, HandlerStep(c)
  PROVE  ReaderOf' /\ \A d \in Conns : WireOf(d)'
<1>1. "SYN+ACK" \in Kinds /\ "RST" \in Kinds /\ "DATA" \in Kinds /\ "FIN" \in Kinds /\ 0 \in Lengths
  BY ZeroType DEF Kinds
<1>2. CASE Accept(c) \/ Reject(c)
  BY <1>1, <1>2, BeginStep DEF Accept, Reject, Answer
<1>3. ASSUME NEW n \in Lengths \ {0}, Write(c, n)
      PROVE  ReaderOf' /\ \A d \in Conns : WireOf(d)'
  BY <1>1, <1>3, BeginStep DEF Write
<1>4. CASE CloseSequence(c)
  BY <1>1, <1>4, BeginStep DEF CloseSequence
<1>5. CASE Read(c)
  <2>1. UNCHANGED <<seq, ack, buf, wire, issued, app, heard, rd>>
    BY <1>5 DEF Read, historyVars
  <2>. QED BY <2>1, KeepsConn, KeepsReader DEF WireInv, Untouched
<1>. QED BY <1>2, <1>3, <1>4, <1>5, CloseStep, LoadAckStep, SerializeStep, HandlerSendStep DEF HandlerStep

(* A torn buffer ends the process: nothing more is built. *)
LEMMA PanicWires ==
  ASSUME WireInv, NEW c \in Conns, Panic(c)
  PROVE  ReaderOf' /\ \A d \in Conns : WireOf(d)'
<1>1. UNCHANGED <<seq, ack, buf, wire, issued, heard>> /\ rd' = Dead
  BY DEF Panic, historyVars
<1>2. ReaderOf'
  BY <1>1 DEF ReaderOf, ReaderHas, Dead, ReaderSteps
<1>3. ASSUME NEW d \in Conns PROVE WireOf(d)'
  <2>1. WireOf(d) /\ app'[d].at = "panicked"
    BY DEF WireInv, Panic
  <2>. QED BY <1>1, <2>1 DEF WireOf, Numbers, Carried, Held, Acking, InTurn, HandlerHas
<1>. QED BY <1>2, <1>3

LEMMA WireStep == WireInv /\ [Next]_vars => WireInv'
<1>. SUFFICES ASSUME WireInv, [Next]_vars PROVE ReaderOf' /\ \A d \in Conns : WireOf(d)'
  BY PhaseStep DEF WireInv
<1>1. ASSUME NEW c \in Conns, NEW g \in Segments, ReceiveSyn(c, g) \/ ReceiveOther(c, g)
      PROVE  ReaderOf' /\ \A d \in Conns : WireOf(d)'
  BY <1>1, ReceiveStep
<1>2. CASE ReaderStep
  <2>1. rd.conn \in Conns
    BY <1>2, JobType DEF WireInv, PhaseInv, ReaderStep, FinState, FinSequence, FinAck, FinSerialize,
      FinSend, AckCheck, AckSet, PayloadCheck, Acknowledge, DeliverToApplication, ReaderSteps
  <2>. QED BY <1>2, <2>1, ReaderQuiet, AcknowledgeStep, FinSequenceStep, FinAckStep, FinSerializeStep,
         FinSendStep DEF ReaderStep
<1>3. ASSUME NEW c \in Conns, HandlerStep(c) \/ Panic(c)
      PROVE  ReaderOf' /\ \A d \in Conns : WireOf(d)'
  BY <1>3, HandlerWires, PanicWires
<1>4. CASE Transmit \/ UNCHANGED vars
  <2>1. UNCHANGED <<seq, ack, buf, wire, issued, app, heard, rd>>
    BY <1>4 DEF Transmit, vars, streamVars, historyVars
  <2>. QED BY <2>1, KeepsConn, KeepsReader DEF WireInv, Untouched
<1>. QED BY <1>1, <1>2, <1>3, <1>4 DEF Next

LEMMA WireInvariant == Spec => []WireInv
BY WireInit, WireStep, PTL DEF Spec

(* The packets of a stream tile its sequence space whichever goroutine     *)
(* took their numbers, and a packet on the wire that is not torn carries   *)
(* the number it was issued with.                                          *)
THEOREM Tiled == Spec => []SeqTiled
<1>1. WireInv => SeqTiled
  BY DEF WireInv, WireOf, Numbers, Carried, NamedIn, SeqTiled
<1>. QED BY <1>1, WireInvariant, PTL

(* Whoever overwrote ack last, a DATA or FIN packet acknowledges a number  *)
(* that the subprocess has sent.                                           *)
THEOREM AcksGenuine == Spec => []AckIsGenuine
<1>1. WireInv => AckIsGenuine
  BY DEF WireInv, WireOf, Carried, GenuineIn, AckIsGenuine
<1>. QED BY <1>1, WireInvariant, PTL

(* Until the first FIN of the subprocess the unguarded buffer is the       *)
(* handler's alone, and its packets leave it whole and in order.           *)
THEOREM WholeBeforeFin == Spec => []InOrderBeforeFin
<1>1. WireInv => InOrderBeforeFin
  BY DEF WireInv, WireOf, InTurn, InOrderBeforeFin
<1>. QED BY <1>1, WireInvariant, PTL

-----------------------------------------------------------------------------
(* FINs of our own.  A Close is paid for in advance: by StateFinished not  *)
(* being taken yet, by a FIN that the reader is about to answer, or by an  *)
(* acknowledged handshake whose StateConnected is still to come.  Budget   *)
(* counts what has been spent and what may still be.                       *)
One(b) == IF b THEN 1 ELSE 0

Closing(c) == One(app[c].at = "sequence")
Unfinished(c) == One(state[c] # "Finished")
Reopening(c) == One(rd.at = "finState" /\ rd.conn = c)
Connecting(c) == One((heard[c].acked /\ state[c] = "SynReceived") \/ (rd.at = "ackSet" /\ rd.conn = c))

BudgetOf(c) ==
  Cardinality(OwnFins(c)) + Closing(c) + Unfinished(c) + Reopening(c) + Connecting(c)
    <= 1 + One(heard[c].acked) + heard[c].fins

BudgetInv == PhaseInv /\ \A c \in Conns : BudgetOf(c)

LEMMA OwnFinsType ==
  ASSUME TypeOK, NEW c \in Conns
  PROVE  IsFiniteSet(OwnFins(c)) /\ Cardinality(OwnFins(c)) \in Nat /\ heard[c].fins \in Nat
<1>1. Len(issued[c]) \in Nat /\ heard[c].fins \in Nat
  BY DEF TypeOK
<1>2. IsFiniteSet(1 .. Len(issued[c]))
  BY <1>1, FS_Interval
<1>3. OwnFins(c) \subseteq 1 .. Len(issued[c])
  BY DEF OwnFins
<1>4. IsFiniteSet(OwnFins(c))
  BY <1>2, <1>3, FS_Subset
<1>. QED BY <1>1, <1>4, FS_CardinalityType

(* Only a number taken for a FIN adds to the FINs of our own. *)
LEMMA OwnFinsStep ==
  ASSUME TypeOK, NEW c \in Conns, NEW kind \in Kinds, NEW n \in Lengths, Allocate(c, kind, n)
  PROVE  /\ Cardinality(OwnFins(c)') = Cardinality(OwnFins(c)) + One(kind = "FIN")
         /\ \A d \in Conns \ {c} : issued'[d] = issued[d]
<1>. DEFINE r == [kind |-> kind, seq |-> seq[c], len |-> n]
            s == issued[c]
            t == Append(s, r)
<1>1. s \in Seq(Record) /\ r \in Record /\ r.kind = kind
  BY DEF TypeOK, Record
<1>2. issued' = [issued EXCEPT ![c] = Append(issued[c], r)]
  BY DEF Allocate
<1>3. issued'[c] = t /\ \A d \in Conns \ {c} : issued'[d] = issued[d]
  BY <1>2 DEF TypeOK
<1>4. /\ Len(t) = Len(s) + 1 /\ Len(s) \in Nat /\ t[Len(s) + 1] = r
      /\ \A i \in 1 .. Len(s) : t[i] = s[i]
  <2>. HIDE DEF s, r
  <2>. QED BY <1>1
<1>5. OwnFins(c) = {i \in 1 .. Len(s) : s[i].kind = "FIN"} /\ OwnFins(c)' = {i \in 1 .. Len(t) : t[i].kind = "FIN"}
  BY <1>3 DEF OwnFins
<1>. HIDE DEF s, t, r
<1>6. OwnFins(c)' = IF kind = "FIN" THEN OwnFins(c) \cup {Len(s) + 1} ELSE OwnFins(c)
  BY <1>1, <1>4, <1>5
<1>7. Len(s) + 1 \notin OwnFins(c)
  BY <1>4, <1>5
<1>8. IsFiniteSet(OwnFins(c)) /\ Cardinality(OwnFins(c)) \in Nat
  BY OwnFinsType
<1>9. Cardinality(OwnFins(c)') = Cardinality(OwnFins(c)) + One(kind = "FIN")
  <2>1. CASE kind = "FIN"
    BY <1>6, <1>7, <1>8, <2>1, FS_AddElement DEF One
  <2>2. CASE kind # "FIN"
    BY <1>6, <1>8, <2>2 DEF One
  <2>. QED BY <2>1, <2>2
<1>. QED BY <1>3, <1>9

(* A step that spends nothing on d. *)
LEMMA BudgetKept ==
  ASSUME TypeOK, NEW d \in Conns, BudgetOf(d),
         issued'[d] = issued[d], heard'[d] = heard[d], state'[d] = state[d],
         app'[d].at = "sequence" => app[d].at = "sequence",
         rd'.at = "finState" /\ rd'.conn = d => rd.at = "finState" /\ rd.conn = d,
         rd'.at = "ackSet" /\ rd'.conn = d =>
           (heard[d].acked /\ state[d] = "SynReceived") \/ (rd.at = "ackSet" /\ rd.conn = d)
  PROVE  BudgetOf(d)'
<1>1. Cardinality(OwnFins(d)') = Cardinality(OwnFins(d)) /\ Cardinality(OwnFins(d)) \in Nat
      /\ heard[d].fins \in Nat
  BY OwnFinsType DEF OwnFins
<1>2. /\ Closing(d)' <= Closing(d) /\ Unfinished(d)' = Unfinished(d)
      /\ Reopening(d)' <= Reopening(d) /\ Connecting(d)' <= Connecting(d)
  BY DEF Closing, Unfinished, Reopening, Connecting, One
<1>3. /\ Closing(d) \in {0, 1} /\ Closing(d)' \in {0, 1} /\ Unfinished(d) \in {0, 1}
      /\ Reopening(d) \in {0, 1} /\ Reopening(d)' \in {0, 1}
      /\ Connecting(d) \in {0, 1} /\ Connecting(d)' \in {0, 1} /\ One(heard[d].acked) \in {0, 1}
  BY DEF Closing, Unfinished, Reopening, Connecting, One
<1>. QED BY <1>1, <1>2, <1>3 DEF BudgetOf

(* A segment that comes in adds as much to the budget as it may cost. *)
LEMMA BudgetTakeUp ==
  ASSUME BudgetInv, NEW c \in Conns, NEW g \in Segments, ReceiveSyn(c, g) \/ ReceiveOther(c, g)
  PROVE  \A d \in Conns : BudgetOf(d)'
<1>1. /\ TypeOK /\ PhaseOfConn(c) /\ BudgetOf(c) /\ TakeUp(c, g)
      /\ g.syn \in BOOLEAN /\ g.ack \in BOOLEAN /\ g.fin \in BOOLEAN
      /\ heard[c].syn \in BOOLEAN /\ heard[c].acked \in BOOLEAN
  BY SegmentType DEF BudgetInv, PhaseInv, ReceiveSyn, ReceiveOther, TypeOK
<1>2. /\ issued' = issued /\ rd.at = "read"
      /\ rd'.at = (IF AnswersFin(g, state'[c]) THEN "finState" ELSE "ackCheck") /\ rd'.conn = c
  BY <1>1 DEF TakeUp, FirstStep
<1>3. /\ heard'[c].acked = (heard[c].acked \/ ((heard[c].syn \/ g.syn) /\ g.ack))
      /\ heard'[c].fins = heard[c].fins + (IF (heard[c].syn \/ g.syn) /\ g.fin THEN 1 ELSE 0)
      /\ heard[c].fins \in Nat
      /\ \A d \in Conns \ {c} : heard'[d] = heard[d]
  BY <1>1, HeardGrows
<1>4. /\ \A d \in Conns \ {c} : state'[d] = state[d] /\ app'[d] = app[d]
      /\ app'[c] = app[c] \/ app'[c].at = "start"
      /\ state'[c] = state[c] \/ (state[c] \in {"None", "Init"} /\ state'[c] \in {"Init", "SynReceived"})
  BY <1>1 DEF ReceiveSyn, ReceiveOther, StartsHandshake, TypeOK, States
<1>5. state'[c] = "SynReceived" /\ state[c] # "SynReceived" => ~heard[c].acked
  BY <1>1, <1>4 DEF PhaseOfConn
<1>6. AnswersFin(g, state'[c]) => (heard[c].syn \/ g.syn) /\ g.fin
  <2>1. CASE ReceiveSyn(c, g)
    BY <2>1 DEF ReceiveSyn, StartsHandshake, AnswersFin
  <2>2. CASE ReceiveOther(c, g)
    BY <1>1, <2>2 DEF ReceiveOther, StartsHandshake, AnswersFin, PhaseOfConn, TypeOK
  <2>. QED BY <1>1, <2>1, <2>2
<1>7. ASSUME NEW d \in Conns \ {c} PROVE BudgetOf(d)'
  <2>1. BudgetOf(d)
    BY DEF BudgetInv
  <2>. QED BY <1>1, <1>2, <1>3, <1>4, <2>1, BudgetKept
<1>8. BudgetOf(c)'
  <2>1. Cardinality(OwnFins(c)') = Cardinality(OwnFins(c)) /\ Cardinality(OwnFins(c)) \in Nat
    BY <1>1, <1>2, OwnFinsType DEF OwnFins
  <2>2. Closing(c)' <= Closing(c) /\ Unfinished(c)' = Unfinished(c) /\ Reopening(c) = 0
    BY <1>2, <1>4 DEF Closing, Unfinished, Reopening, One
  <2>3. heard[c].fins + Reopening(c)' <= heard'[c].fins /\ heard'[c].fins \in Nat
    BY <1>2, <1>3, <1>6 DEF Reopening, One
  <2>4. Connecting(c)' + One(heard[c].acked) <= Connecting(c) + One(heard'[c].acked)
    BY <1>1, <1>2, <1>3, <1>4, <1>5 DEF Connecting, One
  <2>5. /\ Closing(c) \in {0, 1} /\ Closing(c)' \in {0, 1} /\ Unfinished(c) \in {0, 1}
        /\ Reopening(c)' \in {0, 1} /\ One(heard'[c].acked) \in {0, 1}
        /\ Connecting(c) \in {0, 1} /\ Connecting(c)' \in {0, 1} /\ One(heard[c].acked) \in {0, 1}
    BY DEF Closing, Unfinished, Reopening, Connecting, One
  <2>. QED BY <1>1, <1>3, <2>1, <2>2, <2>3, <2>4, <2>5 DEF BudgetOf
<1>. QED BY <1>7, <1>8

(* A number is taken: a FIN of our own costs what its Close has set aside, *)
(* any other packet costs nothing.                                         *)
LEMMA BudgetIssue ==
  ASSUME BudgetInv, NEW c \in Conns, NEW kind \in Kinds, NEW n \in Lengths, Allocate(c, kind, n),
         UNCHANGED <<state, heard>>, rd' = rd \/ rd'.at \notin {"finState", "ackSet"},
         \A d \in Conns \ {c} : app'[d] = app[d],
         \/ kind # "FIN" /\ (app'[c] = app[c] \/ app'[c].at # "sequence")
         \/ kind = "FIN" /\ app[c].at = "sequence" /\ app'[c].at # "sequence"
  PROVE  \A d \in Conns : BudgetOf(d)'
<1>0. TypeOK /\ BudgetOf(c)
  BY DEF BudgetInv, PhaseInv
<1>1. /\ Cardinality(OwnFins(c)') = Cardinality(OwnFins(c)) + One(kind = "FIN")
      /\ Cardinality(OwnFins(c)) \in Nat /\ heard[c].fins \in Nat
      /\ \A d \in Conns \ {c} : issued'[d] = issued[d]
  BY <1>0, OwnFinsStep, OwnFinsType
<1>2. ASSUME NEW d \in Conns \ {c} PROVE BudgetOf(d)'
  <2>1. BudgetOf(d)
    BY DEF BudgetInv
  <2>. QED BY <1>0, <1>1, <2>1, BudgetKept
<1>3. BudgetOf(c)'
  <2>1. /\ One(kind = "FIN") + Closing(c)' <= Closing(c) /\ Unfinished(c)' = Unfinished(c)
        /\ Reopening(c)' <= Reopening(c) /\ Connecting(c)' <= Connecting(c) /\ heard'[c] = heard[c]
    BY DEF Closing, Unfinished, Reopening, Connecting, One
  <2>2. /\ Closing(c) \in {0, 1} /\ Closing(c)' \in {0, 1} /\ Unfinished(c) \in {0, 1}
        /\ Reopening(c) \in {0, 1} /\ Reopening(c)' \in {0, 1} /\ One(kind = "FIN") \in {0, 1}
        /\ Connecting(c) \in {0, 1} /\ Connecting(c)' \in {0, 1} /\ One(heard[c].acked) \in {0, 1}
    BY DEF Closing, Unfinished, Reopening, Connecting, One
  <2>. QED BY <1>0, <1>1, <2>1, <2>2 DEF BudgetOf
<1>. QED BY <1>2, <1>3

(* The reader spends what it announced: StateFinished is overwritten once  *)
(* for the FIN it answers, once for the handshake it completes.            *)
LEMMA BudgetReader ==
  ASSUME BudgetInv, ReaderStep, NEW c \in Conns, c = rd.conn
  PROVE  \A d \in Conns : BudgetOf(d)'
<1>0. TypeOK /\ BudgetOf(c) /\ PhaseOfReader /\ PhaseOfConn(c)
  BY DEF BudgetInv, PhaseInv
<1>1. app' = app /\ heard' = heard /\ rd.at \in ReaderSteps /\ rd \in Job
  BY <1>0, JobType DEF ReaderStep, FinState, FinSequence, FinAck, FinSerialize, FinSend, AckCheck, AckSet,
    PayloadCheck, Acknowledge, DeliverToApplication, historyVars, ReaderSteps
<1>2. CASE FinState
  <2>1. rd'.at = "finSequence" /\ rd.at = "finState" /\ issued' = issued
        /\ state' = [state EXCEPT ![c] = "OtherSideFinished"]
    BY <1>1, <1>2 DEF FinState, Proceed, Job, historyVars
  <2>2. state'[c] = "OtherSideFinished" /\ \A d \in Conns \ {c} : state'[d] = state[d]
    BY <1>0, <2>1 DEF TypeOK
  <2>3. ASSUME NEW d \in Conns \ {c} PROVE BudgetOf(d)'
    <3>1. BudgetOf(d)
      BY DEF BudgetInv
    <3>. QED BY <1>0, <1>1, <2>1, <2>2, <3>1, BudgetKept
  <2>4. BudgetOf(c)'
    <3>1. Cardinality(OwnFins(c)') = Cardinality(OwnFins(c)) /\ Cardinality(OwnFins(c)) \in Nat
          /\ heard[c].fins \in Nat
      BY <1>0, <2>1, OwnFinsType DEF OwnFins
    <3>2. /\ Closing(c)' = Closing(c) /\ Unfinished(c)' + Reopening(c)' <= Unfinished(c) + Reopening(c)
          /\ Connecting(c)' <= Connecting(c) /\ heard'[c] = heard[c]
      BY <1>1, <2>1, <2>2 DEF Closing, Unfinished, Reopening, Connecting, One
    <3>3. /\ Closing(c) \in {0, 1} /\ Unfinished(c) \in {0, 1} /\ Unfinished(c)' \in {0, 1}
          /\ Reopening(c) \in {0, 1} /\ Reopening(c)' \in {0, 1}
          /\ Connecting(c) \in {0, 1} /\ Connecting(c)' \in {0, 1} /\ One(heard[c].acked) \in {0, 1}
      BY DEF Closing, Unfinished, Reopening, Connecting, One
    <3>. QED BY <1>0, <3>1, <3>2, <3>3 DEF BudgetOf
  <2>. QED BY <2>3, <2>4
<1>3. CASE AckSet
  <2>1. rd'.at = "payload" /\ rd.at = "ackSet" /\ issued' = issued
        /\ state' = [state EXCEPT ![c] = "Connected"]
    BY <1>1, <1>3 DEF AckSet, Proceed, Job, historyVars
  <2>2. state'[c] = "Connected" /\ \A d \in Conns \ {c} : state'[d] = state[d]
    BY <1>0, <2>1 DEF TypeOK
  <2>3. ASSUME NEW d \in Conns \ {c} PROVE BudgetOf(d)'
    <3>1. BudgetOf(d)
      BY DEF BudgetInv
    <3>. QED BY <1>0, <1>1, <2>1, <2>2, <3>1, BudgetKept
  <2>4. BudgetOf(c)'
    <3>1. Cardinality(OwnFins(c)') = Cardinality(OwnFins(c)) /\ Cardinality(OwnFins(c)) \in Nat
          /\ heard[c].fins \in Nat
      BY <1>0, <2>1, OwnFinsType DEF OwnFins
    <3>2. /\ Closing(c)' = Closing(c) /\ Unfinished(c)' + Connecting(c)' <= Unfinished(c) + Connecting(c)
          /\ Reopening(c)' <= Reopening(c) /\ heard'[c] = heard[c]
      BY <1>1, <2>1, <2>2 DEF Closing, Unfinished, Reopening, Connecting, One
    <3>3. /\ Closing(c) \in {0, 1} /\ Unfinished(c) \in {0, 1} /\ Unfinished(c)' \in {0, 1}
          /\ Reopening(c) \in {0, 1} /\ Reopening(c)' \in {0, 1}
          /\ Connecting(c) \in {0, 1} /\ Connecting(c)' \in {0, 1} /\ One(heard[c].acked) \in {0, 1}
      BY DEF Closing, Unfinished, Reopening, Connecting, One
    <3>. QED BY <1>0, <3>1, <3>2, <3>3 DEF BudgetOf
  <2>. QED BY <2>3, <2>4
<1>4. CASE AckCheck
  <2>1. /\ state' = state /\ issued' = issued
        /\ rd'.at = (IF Establishes(c, rd.seg) THEN "ackSet" ELSE "payload") /\ rd'.conn = c
    BY <1>1, <1>4 DEF AckCheck, Proceed, Job, streamVars, historyVars
  <2>2. Establishes(c, rd.seg) => heard[c].acked /\ state[c] = "SynReceived"
    BY <1>0, <1>1 DEF Establishes, PhaseOfReader, PhaseOfConn
  <2>3. ASSUME NEW d \in Conns PROVE BudgetOf(d)'
    <3>1. BudgetOf(d)
      BY DEF BudgetInv
    <3>. QED BY <1>0, <1>1, <2>1, <2>2, <3>1, BudgetKept
  <2>. QED BY <2>3
<1>5. CASE FinAck \/ FinSerialize \/ FinSend \/ PayloadCheck \/ Acknowledge \/ DeliverToApplication
  <2>1. state' = state /\ issued' = issued
    BY <1>5 DEF FinAck, FinSerialize, FinSend, PayloadCheck, Acknowledge, DeliverToApplication,
      streamVars, historyVars
  <2>2. rd'.at \notin {"finState", "ackSet"}
    <3>1. CASE FinAck \/ FinSerialize \/ FinSend
      BY <1>1, <3>1 DEF FinAck, FinSerialize, FinSend, Proceed, Job
    <3>2. CASE PayloadCheck \/ Acknowledge \/ DeliverToApplication
      BY <1>1, <3>2 DEF PayloadCheck, Acknowledge, DeliverToApplication, Proceed, Job, Idle
    <3>. QED BY <1>5, <3>1, <3>2
  <2>3. ASSUME NEW d \in Conns PROVE BudgetOf(d)'
    <3>1. BudgetOf(d)
      BY DEF BudgetInv
    <3>. QED BY <1>0, <1>1, <2>1, <2>2, <3>1, BudgetKept
  <2>. QED BY <2>3
<1>6. CASE FinSequence
  <2>1. /\ state' = state /\ rd'.at = "finAck" /\ Allocate(c, "FIN-REPLY", 0)
    BY <1>1, <1>6 DEF FinSequence, Job
  <2>2. "FIN-REPLY" \in Kinds /\ 0 \in Lengths
    BY ZeroType DEF Kinds
  <2>. QED BY <1>0, <1>1, <2>1, <2>2, BudgetIssue
<1>. QED BY <1>2, <1>3, <1>4, <1>5, <1>6 DEF ReaderStep

LEMMA BudgetHandler ==
  ASSUME BudgetInv, NEW c \in Conns, HandlerStep(c)
  PROVE  \A d \in Conns : BudgetOf(d)'
<1>0. TypeOK /\ BudgetOf(c)
  BY DEF BudgetInv, PhaseInv
<1>1. "SYN+ACK" \in Kinds /\ "RST" \in Kinds /\ "DATA" \in Kinds /\ "FIN" \in Kinds /\ 0 \in Lengths
  BY ZeroType DEF Kinds
<1>2. ASSUME NEW kind \in Kinds, NEW n \in Lengths, Begin(c, kind, n), UNCHANGED <<state, heard, rd>>,
             kind = "FIN" => app[c].at = "sequence"
      PROVE  \A d \in Conns : BudgetOf(d)'
  <2>1. Allocate(c, kind, n) /\ app'[c].at = "loadAck" /\ \A d \in Conns \ {c} : app'[d] = app[d]
    BY <1>0, <1>2 DEF Begin, TypeOK
  <2>. QED BY <1>0, <1>2, <2>1, BudgetIssue
<1>3. CASE Accept(c) \/ Reject(c)
  BY <1>1, <1>2, <1>3 DEF Accept, Reject, Answer
<1>4. ASSUME NEW n \in Lengths \ {0}, Write(c, n) PROVE \A d \in Conns : BudgetOf(d)'
  BY <1>1, <1>2, <1>4 DEF Write
<1>5. CASE CloseSequence(c)
  BY <1>1, <1>2, <1>5 DEF CloseSequence
<1>6. CASE LoadAck(c) \/ Serialize(c) \/ Send(c) \/ Read(c)
  <2>1. /\ UNCHANGED <<state, issued, heard, rd>>
        /\ \A d \in Conns : app'[d] = app[d] \/ app'[d].at # "sequence"
    BY <1>0, <1>6 DEF LoadAck, Serialize, Send, Read, streamVars, historyVars, TypeOK
  <2>2. ASSUME NEW d \in Conns PROVE BudgetOf(d)'
    <3>1. BudgetOf(d)
      BY DEF BudgetInv
    <3>. QED BY <1>0, <2>1, <3>1, BudgetKept
  <2>. QED BY <2>2
<1>7. CASE Close(c)
  <2>1. /\ UNCHANGED <<issued, heard, rd>> /\ state[c] # "Finished" /\ app[c].at = "open"
        /\ state'[c] = "Finished" /\ app'[c].at = "sequence"
        /\ \A d \in Conns \ {c} : state'[d] = state[d] /\ app'[d] = app[d]
    BY <1>0, <1>7 DEF Close, MayClose, historyVars, TypeOK
  <2>2. ASSUME NEW d \in Conns \ {c} PROVE BudgetOf(d)'
    <3>1. BudgetOf(d)
      BY DEF BudgetInv
    <3>. QED BY <1>0, <2>1, <3>1, BudgetKept
  <2>3. BudgetOf(c)'
    <3>1. Cardinality(OwnFins(c)') = Cardinality(OwnFins(c)) /\ Cardinality(OwnFins(c)) \in Nat
          /\ heard[c].fins \in Nat
      BY <1>0, <2>1, OwnFinsType DEF OwnFins
    <3>2. /\ Closing(c)' + Unfinished(c)' = Closing(c) + Unfinished(c) /\ Reopening(c)' = Reopening(c)
          /\ Connecting(c)' <= Connecting(c) /\ heard'[c] = heard[c]
      BY <2>1 DEF Closing, Unfinished, Reopening, Connecting, One
    <3>3. /\ Closing(c) \in {0, 1} /\ Closing(c)' \in {0, 1} /\ Unfinished(c) \in {0, 1}
          /\ Unfinished(c)' \in {0, 1} /\ Reopening(c) \in {0, 1}
          /\ Connecting(c) \in {0, 1} /\ Connecting(c)' \in {0, 1} /\ One(heard[c].acked) \in {0, 1}
      BY DEF Closing, Unfinished, Reopening, Connecting, One
    <3>. QED BY <1>0, <3>1, <3>2, <3>3 DEF BudgetOf
  <2>. QED BY <2>2, <2>3
<1>. QED BY <1>3, <1>4, <1>5, <1>6, <1>7 DEF HandlerStep

LEMMA BudgetStep == BudgetInv /\ [Next]_vars => BudgetInv'
<1>. SUFFICES ASSUME BudgetInv, [Next]_vars PROVE \A d \in Conns : BudgetOf(d)'
  BY PhaseStep DEF BudgetInv
<1>1. ASSUME NEW c \in Conns, NEW g \in Segments, ReceiveSyn(c, g) \/ ReceiveOther(c, g)
      PROVE  \A d \in Conns : BudgetOf(d)'
  BY <1>1, BudgetTakeUp
<1>2. CASE ReaderStep
  <2>1. rd.conn \in Conns
    BY <1>2, JobType DEF BudgetInv, PhaseInv, ReaderStep, FinState, FinSequence, FinAck, FinSerialize,
      FinSend, AckCheck, AckSet, PayloadCheck, Acknowledge, DeliverToApplication, ReaderSteps
  <2>. QED BY <1>2, <2>1, BudgetReader
<1>3. ASSUME NEW c \in Conns, HandlerStep(c) PROVE \A d \in Conns : BudgetOf(d)'
  BY <1>3, BudgetHandler
<1>4. ASSUME NEW c \in Conns, Panic(c) PROVE \A d \in Conns : BudgetOf(d)'
  <2>1. /\ UNCHANGED <<state, issued, heard>> /\ rd'.at = "panicked"
        /\ \A d \in Conns : app'[d].at = "panicked"
    BY <1>4 DEF Panic, Dead, historyVars
  <2>2. ASSUME NEW d \in Conns PROVE BudgetOf(d)'
    <3>1. TypeOK /\ BudgetOf(d)
      BY DEF BudgetInv, PhaseInv
    <3>. QED BY <2>1, <3>1, BudgetKept
  <2>. QED BY <2>2
<1>5. CASE Transmit \/ UNCHANGED vars
  <2>1. UNCHANGED <<state, issued, app, heard, rd>>
    BY <1>5 DEF Transmit, vars, streamVars, historyVars
  <2>2. ASSUME NEW d \in Conns PROVE BudgetOf(d)'
    <3>1. TypeOK /\ BudgetOf(d)
      BY DEF BudgetInv, PhaseInv
    <3>. QED BY <2>1, <3>1, BudgetKept
  <2>. QED BY <2>2
<1>. QED BY <1>1, <1>2, <1>3, <1>4, <1>5 DEF Next

LEMMA BudgetInvariant == Spec => []BudgetInv
<1>1. Init => BudgetInv
  <2>. SUFFICES ASSUME Init PROVE BudgetInv
    OBVIOUS
  <2>1. PhaseInv
    BY WireInit DEF WireInv
  <2>2. ASSUME NEW c \in Conns PROVE BudgetOf(c)
    <3>1. OwnFins(c) = {}
      BY DEF Init, OwnFins
    <3>2. Cardinality(OwnFins(c)) = 0
      BY <3>1, FS_EmptySet
    <3>. QED BY <3>2 DEF Init, Idle, BudgetOf, Closing, Unfinished, Reopening, Connecting, One
  <2>. QED BY <2>1, <2>2 DEF BudgetInv
<1>. QED BY <1>1, BudgetStep, PTL DEF Spec

(* However Close, the FINs of the subprocess and its ACK of the handshake  *)
(* interleave, a stream issues one FIN of its own, one more for that ACK   *)
(* and one more for each FIN received, and never another.                  *)
THEOREM FinsBounded == Spec => []FinBudget
<1>1. BudgetInv => FinBudget
  <2>. SUFFICES ASSUME BudgetInv, NEW c \in Conns
       PROVE  Cardinality(OwnFins(c)) <= 1 + (IF heard[c].acked THEN 1 ELSE 0) + heard[c].fins
    BY DEF FinBudget
  <2>1. BudgetOf(c) /\ Cardinality(OwnFins(c)) \in Nat /\ heard[c].fins \in Nat
    BY OwnFinsType DEF BudgetInv, PhaseInv
  <2>2. /\ Closing(c) \in {0, 1} /\ Unfinished(c) \in {0, 1} /\ Reopening(c) \in {0, 1}
        /\ Connecting(c) \in {0, 1}
    BY DEF Closing, Unfinished, Reopening, Connecting, One
  <2>3. Cardinality(OwnFins(c)) <= 1 + One(heard[c].acked) + heard[c].fins
    <3>1. One(heard[c].acked) \in {0, 1}
      BY DEF One
    <3>. QED BY <2>1, <2>2, <3>1 DEF BudgetOf
  <2>. QED BY <2>3 DEF One
<1>. QED BY <1>1, BudgetInvariant, PTL
=============================================================================
