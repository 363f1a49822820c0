--------------------------- MODULE TcpStackProofs ---------------------------
(***************************************************************************)
(* Theorems about TcpStack for any set of connections, any sequence-number *)
(* width, any segments and any channel capacities.                         *)
(***************************************************************************)
EXTENDS TcpStack, TLAPS

-----------------------------------------------------------------------------
(* Sequence-number arithmetic stays in the sequence space.                 *)
LEMMA PlusType == ASSUME NEW a \in Nat, NEW n \in Nat PROVE Plus(a, n) \in SeqNum
  BY WidthAssumption DEF Plus, SeqNum

LEMMA ZeroType == 0 \in SeqNum /\ 0 \in Lengths /\ SeqNum \subseteq Nat /\ Lengths \subseteq Nat
  BY WidthAssumption DEF SeqNum, Lengths

LEMMA SegmentType ==
  ASSUME NEW g \in Segments
  PROVE /\ g.syn \in BOOLEAN /\ g.ack \in BOOLEAN /\ g.fin \in BOOLEAN
        /\ g.seq \in SeqNum /\ g.len \in Lengths
        /\ AfterFlag(g) \in SeqNum /\ AfterPayload(g) \in SeqNum
        /\ Covered(g) \subseteq SeqNum
  <1>1. /\ g.syn \in BOOLEAN /\ g.ack \in BOOLEAN /\ g.fin \in BOOLEAN
        /\ g.seq \in SeqNum /\ g.len \in Lengths
    BY SegmentsAssumption
  <1>2. g.seq \in Nat /\ g.len \in Nat
    BY <1>1, ZeroType
  <1>3. AfterFlag(g) \in SeqNum /\ AfterPayload(g) \in SeqNum
    BY <1>2, PlusType DEF AfterFlag, AfterPayload
  <1>4. \A k \in 1 .. MaxLen + 2 : Plus(g.seq, k) \in SeqNum
    BY <1>2, PlusType, WidthAssumption
  <1>5. Covered(g) \subseteq SeqNum
    BY <1>4 DEF Covered
  <1> QED BY <1>1, <1>3, <1>5

LEMMA BlankType == ASSUME NEW c \in Conns PROVE Blank(c) \in Packet /\ Torn(c) \in Packet
  BY ZeroType DEF Void, Blank, Torn, Packet

(* A packet that has just been given its number.                           *)
LEMMA NumberedType ==
  ASSUME TypeOK, NEW c \in Conns, NEW kind \in Kinds, NEW n \in Lengths
  PROVE Numbered(c, kind, n) \in Packet
  BY ZeroType DEF Numbered, Packet, TypeOK

LEMMA AllocateType ==
  ASSUME TypeOK, NEW c \in Conns, NEW kind \in Kinds, NEW n \in Lengths, Allocate(c, kind, n)
  PROVE /\ seq' \in [Conns -> SeqNum]
        /\ issued' \in [Conns -> Seq([kind : Kinds, seq : SeqNum, len : Lengths])]
  <1>1. Span(kind, n) \in Nat /\ seq[c] \in Nat
    BY ZeroType DEF Span, TypeOK
  <1>2. Plus(seq[c], Span(kind, n)) \in SeqNum
    BY <1>1, PlusType
  <1>3. seq' \in [Conns -> SeqNum]
    BY <1>2 DEF Allocate, TypeOK
  <1>4. [kind |-> kind, seq |-> seq[c], len |-> n] \in [kind : Kinds, seq : SeqNum, len : Lengths]
    BY DEF TypeOK
  <1>5. issued' \in [Conns -> Seq([kind : Kinds, seq : SeqNum, len : Lengths])]
    <2> DEFINE R == [kind : Kinds, seq : SeqNum, len : Lengths]
               r == [kind |-> kind, seq |-> seq[c], len |-> n]
    <2>1. issued \in [Conns -> Seq(R)] /\ r \in R
      BY <1>4 DEF TypeOK
    <2>2. issued' = [issued EXCEPT ![c] = Append(@, r)]
      BY DEF Allocate
    <2> HIDE DEF R, r
    <2>3. issued' \in [Conns -> Seq(R)]
      BY <2>1, <2>2
    <2> QED BY <2>3 DEF R
  <1> QED BY <1>3, <1>5

LEMMA FillType ==
  ASSUME TypeOK, NEW c \in Conns, NEW p \in Packet, NEW b \in BOOLEAN, Fill(c, p, b)
  PROVE buf' \in [Conns -> SUBSET Packet]
  BY DEF Fill, TypeOK

LEMMA SendType ==
  ASSUME TypeOK, NEW c \in Conns, NEW q \in Packet, NEW p \in Copied(c, q), TrySend(c, p)
  PROVE toSubprocess' \in Seq(Packet) /\ wire' \in [Conns -> Seq(Packet)]
  <1>1. p \in Packet
    BY BlankType DEF Copied, TypeOK
  <1>2. CASE Len(toSubprocess) < LinkCap
    <2>1. toSubprocess' \in Seq(Packet)
      <3>1. toSubprocess \in Seq(Packet) /\ toSubprocess' = Append(toSubprocess, p)
        BY <1>2 DEF TrySend, TypeOK
      <3> QED BY <1>1, <3>1
    <2>2. wire' \in [Conns -> Seq(Packet)]
      <3>1. wire \in [Conns -> Seq(Packet)] /\ wire' = [wire EXCEPT ![c] = Append(@, p)]
        BY <1>2 DEF TrySend, TypeOK
      <3> QED BY <1>1, <3>1
    <2> QED BY <2>1, <2>2
  <1>3. CASE ~(Len(toSubprocess) < LinkCap)
    BY <1>3 DEF TrySend, TypeOK
  <1> QED BY <1>2, <1>3

LEMMA TailType == ASSUME NEW S, NEW s \in Seq(S), s # <<>> PROVE Tail(s) \in Seq(S)
  OBVIOUS

(* A handler that moves to another step.                                   *)
LEMMA JobUpdate ==
  ASSUME NEW r \in Job, NEW s \in ReaderSteps, NEW p \in Packet
  PROVE [r EXCEPT !.at = s, !.out = p] \in Job
  BY DEF Job

LEMMA AppType ==
  ASSUME TypeOK, NEW c \in Conns, NEW s \in HandlerSteps
  PROVE [app EXCEPT ![c].at = s] \in [Conns -> [at : HandlerSteps, out : Packet]]
  <1>1. app \in [Conns -> [at : HandlerSteps, out : Packet]]
    BY DEF TypeOK
  <1> QED BY <1>1

(* The reader's record while it works on a segment.                        *)
LEMMA JobType ==
  ASSUME TypeOK, rd.at \in ReaderSteps
  PROVE /\ rd \in Job /\ rd.conn \in Conns /\ rd.seg \in Segments /\ rd.out \in Packet
        /\ \A s \in ReaderSteps : [rd EXCEPT !.at = s] \in Job
  <1>1. rd # Idle /\ rd # Dead
    BY DEF Idle, Dead, ReaderSteps
  <1>2. rd \in Job
    BY <1>1 DEF TypeOK
  <1> QED BY <1>2 DEF Job

-----------------------------------------------------------------------------
LEMMA InitType == Init => TypeOK
  BY ZeroType, BlankType, BoundsAssumption DEF Init, TypeOK, States, HandlerSteps

(* The one lemma about Next that every theorem below rests on.             *)
LEMMA TypeStep == TypeOK /\ [Next]_vars => TypeOK'
<1> SUFFICES ASSUME TypeOK, [Next]_vars PROVE TypeOK'
  OBVIOUS
<1>1. ASSUME NEW c \in Conns, NEW g \in Segments, ReceiveSyn(c, g) PROVE TypeOK'
  <2>1. heard' \in [Conns -> [syn : BOOLEAN, acked : BOOLEAN, fins : Nat, sent : SUBSET SeqNum]]
    BY <1>1, SegmentType DEF ReceiveSyn, TakeUp, Hear, TypeOK
  <2>2. rd' \in Job
    BY <1>1, BlankType DEF ReceiveSyn, TakeUp, FirstStep, Job, ReaderSteps
  <2>3. /\ state' \in [Conns -> States] /\ ack' \in [Conns -> SeqNum]
        /\ segs' \in 0 .. MaxSegs
    BY <1>1, SegmentType, BoundsAssumption DEF ReceiveSyn, TakeUp, TypeOK, States
  <2>4. /\ app' \in [Conns -> [at : HandlerSteps, out : Packet]]
        /\ started' \in [Conns -> Nat]
    <3>1. [app EXCEPT ![c].at = "start"] \in [Conns -> [at : HandlerSteps, out : Packet]]
      BY AppType DEF HandlerSteps
    <3>2. [started EXCEPT ![c] = @ + 1] \in [Conns -> Nat]
      BY DEF TypeOK
    <3> QED BY <1>1, <3>1, <3>2 DEF ReceiveSyn, TypeOK
  <2> QED BY <1>1, <2>1, <2>2, <2>3, <2>4 DEF ReceiveSyn, TakeUp, TypeOK
<1>2. ASSUME NEW c \in Conns, NEW g \in Segments, ReceiveOther(c, g) PROVE TypeOK'
  <2>1. heard' \in [Conns -> [syn : BOOLEAN, acked : BOOLEAN, fins : Nat, sent : SUBSET SeqNum]]
    BY <1>2, SegmentType DEF ReceiveOther, TakeUp, Hear, TypeOK
  <2>2. rd' \in Job
    BY <1>2, BlankType DEF ReceiveOther, TakeUp, FirstStep, Job, ReaderSteps
  <2>3. /\ state' \in [Conns -> States] /\ ack' \in [Conns -> SeqNum]
        /\ segs' \in 0 .. MaxSegs
    <3>1. [state EXCEPT ![c] = "Init"] \in [Conns -> States]
      BY DEF TypeOK, States
    <3>2. [ack EXCEPT ![c] = g.seq] \in [Conns -> SeqNum]
      BY SegmentType DEF TypeOK
    <3>3. state' \in [Conns -> States] /\ ack' \in [Conns -> SeqNum]
      BY <1>2, <3>1, <3>2 DEF ReceiveOther, TypeOK
    <3>4. segs' \in 0 .. MaxSegs
      BY <1>2, BoundsAssumption DEF ReceiveOther, TakeUp, TypeOK
    <3> QED BY <3>3, <3>4
  <2> QED BY <1>2, <2>1, <2>2, <2>3 DEF ReceiveOther, TakeUp, TypeOK
<1>3. CASE ReaderStep
  <2>1. rd.at \in ReaderSteps
    BY <1>3 DEF ReaderStep, FinState, FinSequence, FinAck, FinSerialize, FinSend, AckCheck,
      AckSet, PayloadCheck, Acknowledge, DeliverToApplication, ReaderSteps
  <2>2. /\ rd \in Job /\ rd.conn \in Conns /\ rd.seg \in Segments /\ rd.out \in Packet
        /\ \A s \in ReaderSteps : [rd EXCEPT !.at = s] \in Job
    BY <2>1, JobType
  <2>3. CASE FinState
    BY <2>2, <2>3 DEF FinState, Proceed, ReaderSteps, TypeOK, historyVars, States
  <2>4. CASE FinSequence
    <3>1. "FIN-REPLY" \in Kinds /\ 0 \in Lengths
      BY ZeroType DEF Kinds
    <3>2. /\ seq' \in [Conns -> SeqNum]
          /\ issued' \in [Conns -> Seq([kind : Kinds, seq : SeqNum, len : Lengths])]
      BY <2>2, <2>4, <3>1, AllocateType DEF FinSequence
    <3>3. Numbered(rd.conn, "FIN-REPLY", 0) \in Packet
      BY <2>2, <3>1, NumberedType
    <3>4. rd' \in Job
      BY <2>2, <2>4, <3>3, JobUpdate DEF FinSequence, ReaderSteps
    <3> QED BY <2>4, <3>2, <3>4 DEF FinSequence, TypeOK
  <2>5. CASE FinAck
    <3>1. AfterFlag(rd.seg) \in SeqNum
      BY <2>2, SegmentType
    <3>2. [rd.out EXCEPT !.ack = AfterFlag(rd.seg)] \in Packet
      BY <2>2, <3>1 DEF Packet
    <3>3. [rd EXCEPT !.at = "finSerialize", !.out = [rd.out EXCEPT !.ack = AfterFlag(rd.seg)]] \in Job
      BY <2>2, <3>2, JobUpdate DEF ReaderSteps
    <3>4. rd' \in Job
      <4>1. rd' = [rd EXCEPT !.at = "finSerialize", !.out = [rd.out EXCEPT !.ack = AfterFlag(rd.seg)]]
        BY <2>2, <2>5 DEF FinAck, Job
      <4> QED BY <3>3, <4>1
    <3> QED BY <2>2, <2>5, <3>1, <3>4 DEF FinAck, TypeOK, historyVars
  <2>6. CASE FinSerialize
    <3>1. buf' \in [Conns -> SUBSET Packet]
      BY <2>2, <2>6, FillType DEF FinSerialize, HandlerHoldsBuf
    <3> QED BY <2>2, <2>6, <3>1 DEF FinSerialize, Proceed, ReaderSteps, TypeOK, historyVars
  <2>7. CASE FinSend
    <3>1. toSubprocess' \in Seq(Packet) /\ wire' \in [Conns -> Seq(Packet)]
      BY <2>2, <2>7, SendType DEF FinSend
    <3> QED BY <2>2, <2>7, <3>1 DEF FinSend, Proceed, ReaderSteps, TypeOK, streamVars
  <2>8. CASE AckCheck
    BY <2>2, <2>8 DEF AckCheck, Proceed, ReaderSteps, TypeOK, streamVars, historyVars
  <2>9. CASE AckSet
    BY <2>2, <2>9 DEF AckSet, Proceed, ReaderSteps, TypeOK, historyVars, States
  <2>10. CASE PayloadCheck
    BY <2>2, <2>10 DEF PayloadCheck, Proceed, ReaderSteps, TypeOK, streamVars, historyVars
  <2>11. CASE Acknowledge
    BY <2>2, <2>11, SegmentType DEF Acknowledge, Proceed, ReaderSteps, TypeOK, historyVars
  <2>12. CASE DeliverToApplication
    <3>1. rd.seg.len \in Lengths
      BY <2>2, SegmentType
    <3>2. fromSubprocess \in [Conns -> Seq(Lengths)]
      BY DEF TypeOK
    <3>3. [fromSubprocess EXCEPT ![rd.conn] = Append(@, rd.seg.len)] \in [Conns -> Seq(Lengths)]
      BY <2>2, <3>1, <3>2
    <3>4. fromSubprocess' \in [Conns -> Seq(Lengths)]
      BY <2>12, <3>2, <3>3 DEF DeliverToApplication
    <3> QED BY <2>12, <3>4 DEF DeliverToApplication, TypeOK, historyVars
  <2> QED BY <1>3, <2>3, <2>4, <2>5, <2>6, <2>7, <2>8, <2>9, <2>10, <2>11, <2>12 DEF ReaderStep
<1>4. ASSUME NEW c \in Conns, NEW kind \in Kinds, NEW n \in Lengths, Begin(c, kind, n)
      PROVE /\ seq' \in [Conns -> SeqNum]
            /\ issued' \in [Conns -> Seq([kind : Kinds, seq : SeqNum, len : Lengths])]
            /\ app' \in [Conns -> [at : HandlerSteps, out : Packet]]
  <2>1. Numbered(c, kind, n) \in Packet
    BY NumberedType
  <2> QED BY <1>4, <2>1, AllocateType DEF Begin, TypeOK, HandlerSteps
<1>5. ASSUME NEW c \in Conns, HandlerStep(c) PROVE TypeOK'
  <2>1. CASE Accept(c) \/ Reject(c)
    BY <2>1, <1>4, ZeroType DEF Accept, Reject, Answer, Kinds, TypeOK
  <2>2. ASSUME NEW n \in Lengths \ {0}, Write(c, n) PROVE TypeOK'
    <3>1. Begin(c, "DATA", n) /\ "DATA" \in Kinds /\ n \in Lengths
      BY <2>2 DEF Write, Kinds
    <3>2. calls' \in 0 .. MaxCalls
      BY <2>2, BoundsAssumption DEF Write, TypeOK
    <3> QED BY <2>2, <3>1, <3>2, <1>4 DEF Write, TypeOK
  <2>3. CASE Close(c)
    <3>1. [app EXCEPT ![c].at = "sequence"] \in [Conns -> [at : HandlerSteps, out : Packet]]
      BY AppType DEF HandlerSteps
    <3>2. calls' \in 0 .. MaxCalls /\ state' \in [Conns -> States]
      BY <2>3, BoundsAssumption DEF Close, TypeOK, States
    <3> QED BY <2>3, <3>1, <3>2 DEF Close, TypeOK, historyVars
  <2>4. CASE CloseSequence(c)
    BY <2>4, <1>4, ZeroType DEF CloseSequence, Kinds, TypeOK
  <2>5. CASE LoadAck(c)
    <3>1. AckField(c, app[c].out.kind) \in SeqNum
      BY PlusType, ZeroType DEF AckField, TypeOK
    <3>2. app[c].out \in Packet
      BY DEF TypeOK
    <3>3. [app[c].out EXCEPT !.ack = AckField(c, app[c].out.kind)] \in Packet
      BY <3>1, <3>2 DEF Packet
    <3>4. app' \in [Conns -> [at : HandlerSteps, out : Packet]]
      BY <2>5, <3>3 DEF LoadAck, TypeOK, HandlerSteps
    <3> QED BY <2>5, <3>4 DEF LoadAck, TypeOK, streamVars, historyVars
  <2>6. CASE Serialize(c)
    <3>1. buf' \in [Conns -> SUBSET Packet]
      BY <2>6, FillType DEF Serialize, ReaderHoldsBuf, TypeOK
    <3> QED BY <2>6, <3>1 DEF Serialize, TypeOK, HandlerSteps, historyVars
  <2>7. CASE Send(c)
    <3>1. toSubprocess' \in Seq(Packet) /\ wire' \in [Conns -> Seq(Packet)]
      <4>1. app[c].out \in Packet
        BY DEF TypeOK
      <4> QED BY <2>7, <4>1, SendType DEF Send
    <3>2. app' \in [Conns -> [at : HandlerSteps, out : Packet]]
      BY <2>7, BlankType DEF Send, TypeOK, HandlerSteps
    <3> QED BY <2>7, <3>1, <3>2 DEF Send, TypeOK, streamVars
  <2>8. CASE Read(c)
    <3>1. Tail(fromSubprocess[c]) \in Seq(Lengths)
      BY <2>8, TailType DEF Read, TypeOK
    <3>2. fromSubprocess' \in [Conns -> Seq(Lengths)]
      BY <2>8, <3>1 DEF Read, TypeOK
    <3> QED BY <2>8, <3>2 DEF Read, TypeOK, historyVars
  <2> QED BY <1>5, <2>1, <2>2, <2>3, <2>4, <2>5, <2>6, <2>7, <2>8 DEF HandlerStep
<1>6. ASSUME NEW c \in Conns, Panic(c) PROVE TypeOK'
  <2>1. app' \in [Conns -> [at : HandlerSteps, out : Packet]]
    BY <1>6, BlankType DEF Panic, HandlerSteps
  <2>2. toSubprocess' \in Seq(Packet) /\ fromSubprocess' \in [Conns -> Seq(Lengths)]
    BY <1>6 DEF Panic
  <2>3. rd' \in {Idle, Dead}
    BY <1>6 DEF Panic
  <2> QED BY <1>6, <2>1, <2>2, <2>3 DEF Panic, TypeOK, historyVars
<1>7. CASE Transmit
  <2>1. toSubprocess' \in Seq(Packet)
    BY <1>7, TailType DEF Transmit, TypeOK
  <2> QED BY <1>7, <2>1 DEF Transmit, TypeOK, streamVars, historyVars
<1>8. CASE UNCHANGED vars
  BY <1>8 DEF vars, streamVars, historyVars, TypeOK
<1> QED BY <1>1, <1>2, <1>3, <1>5, <1>6, <1>7, <1>8 DEF Next

(* Every reachable state is well typed: above all, seq and ack stay within *)
(* the width of the code's integers, and what lies in the channels and in  *)
(* the buffer are packets.                                                 *)
THEOREM TypeCorrect == Spec => []TypeOK
<1>1. Init => TypeOK
  BY InitType
<1>2. TypeOK /\ [Next]_vars => TypeOK'
  BY TypeStep
<1> QED BY <1>1, <1>2, PTL DEF Spec

-----------------------------------------------------------------------------
(* How far a connection has come is recorded three times: in state, in the *)
(* reader's next step and in what the subprocess has sent.  This is how    *)
(* they agree.                                                             *)
PhaseOfConn(c) ==
  /\ state[c] \in {"None", "Init"} <=> ~heard[c].syn
  /\ ~heard[c].syn => started[c] = 0 /\ heard[c].fins = 0 /\ ~heard[c].acked
  /\ started[c] <= 1
  /\ app[c].at \notin {"none", "panicked"} => heard[c].syn
  /\ state[c] = "Connected" => heard[c].acked
  /\ state[c] \in {"SynReceived", "Connected"} =>
       heard[c].fins = 0 \/ (rd.at = "finState" /\ rd.conn = c)

PhaseOfReader ==
  /\ rd.at \in ReaderSteps => (rd.seg.ack /\ heard[rd.conn].syn => heard[rd.conn].acked)
  /\ rd.at = "finState" => heard[rd.conn].syn
  /\ rd.at \in {"ackSet", "acknowledge", "deliver"} =>
       heard[rd.conn].acked /\ heard[rd.conn].fins = 0

PhaseInv == TypeOK /\ PhaseOfReader /\ \A c \in Conns : PhaseOfConn(c)

(* A step that moves neither the reader nor state keeps it ...             *)
LEMMA PhaseHandler ==
  ASSUME PhaseInv, UNCHANGED <<state, heard, started, rd>>,
         \A d \in Conns : app'[d].at \notin {"none", "panicked"} => heard[d].syn
  PROVE PhaseOfReader' /\ \A d \in Conns : PhaseOfConn(d)'
  BY DEF PhaseInv, PhaseOfReader, PhaseOfConn

(* ... and so does a step of the reader that leaves state alone, if it     *)
(* enters the three steps that matter only with good reason.               *)
LEMMA PhaseReader ==
  ASSUME PhaseInv, rd.at \in ReaderSteps \ {"finState"},
         UNCHANGED <<state, heard, started, app>>,
         \/ rd' = Idle
         \/ /\ rd'.at \in ReaderSteps \ {"finState"}
            /\ rd'.conn = rd.conn /\ rd'.seg = rd.seg
            /\ rd'.at \in {"ackSet", "acknowledge", "deliver"} =>
                 heard[rd.conn].acked /\ heard[rd.conn].fins = 0
  PROVE PhaseOfReader' /\ \A d \in Conns : PhaseOfConn(d)'
  <1>1. PhaseOfReader'
    BY DEF PhaseInv, PhaseOfReader, Idle, ReaderSteps
  <1>2. ASSUME NEW d \in Conns PROVE PhaseOfConn(d)'
    BY DEF PhaseInv, PhaseOfConn
  <1> QED BY <1>1, <1>2

(* What the reader finds when it takes up a segment.                       *)
LEMMA PhaseTakeUp ==
  ASSUME PhaseInv, NEW c \in Conns, NEW g \in Segments, TakeUp(c, g),
         state' \in [Conns -> States],
         \A d \in Conns \ {c} : state'[d] = state[d] /\ started'[d] = started[d]
                                /\ app'[d] = app[d],
         state'[c] \in {"None", "Init"} <=> ~(heard[c].syn \/ g.syn),
         ~heard'[c].syn => started'[c] = 0,
         started'[c] <= 1,
         app'[c].at \notin {"none", "panicked"} => heard[c].syn \/ g.syn,
         state'[c] # "None",
         state'[c] = "Connected" => state[c] = "Connected",
         state'[c] = "SynReceived" /\ state[c] # "SynReceived" => ~heard[c].syn
  PROVE PhaseOfReader' /\ \A d \in Conns : PhaseOfConn(d)'
  <1> USE DEF PhaseInv
  <1>1. /\ heard[c] \in [syn : BOOLEAN, acked : BOOLEAN, fins : Nat, sent : SUBSET SeqNum]
        /\ heard' = [heard EXCEPT ![c] = heard'[c]]
        /\ heard'[c] = [syn |-> heard[c].syn \/ g.syn,
             acked |-> heard[c].acked \/ ((heard[c].syn \/ g.syn) /\ g.ack),
             fins |-> heard[c].fins + (IF (heard[c].syn \/ g.syn) /\ g.fin THEN 1 ELSE 0),
             sent |-> heard[c].sent \cup Covered(g)]
        /\ \A d \in Conns \ {c} : heard'[d] = heard[d]
    BY DEF TakeUp, Hear, TypeOK
  <1>2. /\ g.syn \in BOOLEAN /\ g.ack \in BOOLEAN /\ g.fin \in BOOLEAN
    BY SegmentType
  <1>3. /\ heard'[c].syn = (heard[c].syn \/ g.syn)
        /\ heard'[c].acked = (heard[c].acked \/ ((heard[c].syn \/ g.syn) /\ g.ack))
        /\ heard'[c].fins = heard[c].fins + (IF (heard[c].syn \/ g.syn) /\ g.fin THEN 1 ELSE 0)
        /\ heard[c].fins \in Nat
    BY <1>1
  <1>4. /\ rd.at = "read"
        /\ rd'.at = FirstStep(c, g) /\ rd'.conn = c /\ rd'.seg = g
    BY DEF TakeUp
  <1>5. /\ rd'.at = "finState" <=> (heard[c].syn \/ g.syn) /\ g.fin
        /\ rd'.at \in {"finState", "ackCheck"}
    BY <1>2, <1>4 DEF FirstStep, AnswersFin
  <1>6. PhaseOfReader'
    BY <1>3, <1>4, <1>5 DEF PhaseOfReader
  <1>7. ASSUME NEW d \in Conns \ {c} PROVE PhaseOfConn(d)'
    BY <1>1, <1>4 DEF PhaseOfConn
  <1>8. PhaseOfConn(c)'
    <2>1. PhaseOfConn(c)
      OBVIOUS
    <2>2. heard'[c].fins # heard[c].fins => rd'.at = "finState"
      BY <1>3, <1>5
    <2>3. state'[c] \in {"SynReceived", "Connected"} => heard[c].fins = 0
      BY <2>1, <1>4 DEF PhaseOfConn
    <2> QED BY <1>3, <1>4, <1>5, <2>1, <2>2, <2>3 DEF PhaseOfConn
  <1> QED BY <1>6, <1>7, <1>8

LEMMA PhaseStep == PhaseInv /\ [Next]_vars => PhaseInv'
<1> SUFFICES ASSUME PhaseInv, [Next]_vars
             PROVE PhaseOfReader' /\ \A d \in Conns : PhaseOfConn(d)'
  BY TypeStep DEF PhaseInv
<1>0. TypeOK
  BY DEF PhaseInv
<1>1. ASSUME NEW c \in Conns, NEW g \in Segments, ReceiveSyn(c, g)
      PROVE PhaseOfReader' /\ \A d \in Conns : PhaseOfConn(d)'
  <2>1. PhaseOfConn(c) /\ g.syn /\ ~heard[c].syn
    BY <1>1 DEF PhaseInv, PhaseOfConn, ReceiveSyn, StartsHandshake
  <2>2. /\ state' = [state EXCEPT ![c] = "SynReceived"]
        /\ state' \in [Conns -> States] /\ state'[c] = "SynReceived"
    BY <1>0, <1>1 DEF ReceiveSyn, TypeOK, States
  <2>3. started'[c] <= 1
    BY <1>0, <1>1, <2>1 DEF ReceiveSyn, TypeOK, PhaseOfConn
  <2>4. heard'[c].syn
    BY <1>0, <1>1, <2>1 DEF ReceiveSyn, TakeUp, Hear, TypeOK
  <2>5. \A d \in Conns \ {c} : state'[d] = state[d] /\ started'[d] = started[d] /\ app'[d] = app[d]
    BY <1>0, <1>1 DEF ReceiveSyn, TypeOK
  <2>6. TakeUp(c, g)
    BY <1>1 DEF ReceiveSyn
  <2> QED BY <2>1, <2>2, <2>3, <2>4, <2>5, <2>6, PhaseTakeUp
<1>2. ASSUME NEW c \in Conns, NEW g \in Segments, ReceiveOther(c, g)
      PROVE PhaseOfReader' /\ \A d \in Conns : PhaseOfConn(d)'
  <2>1. PhaseOfConn(c) /\ g.syn \in BOOLEAN /\ heard[c].syn \in BOOLEAN
    BY <1>0, SegmentType DEF PhaseInv, TypeOK
  <2>2. /\ state'[c] = IF state[c] = "None" THEN "Init" ELSE state[c]
        /\ state' \in [Conns -> States]
        /\ \A d \in Conns \ {c} : state'[d] = state[d]
    <3>1. CASE state[c] = "None"
      BY <1>0, <1>2, <3>1 DEF ReceiveOther, TypeOK, States
    <3>2. CASE state[c] # "None"
      BY <1>0, <1>2, <3>2 DEF ReceiveOther, TypeOK
    <3> QED BY <3>1, <3>2
  <2>3. /\ app' = app /\ started' = started /\ TakeUp(c, g)
        /\ ~g.syn \/ state[c] \notin {"None", "Init"}
    BY <1>2 DEF ReceiveOther, StartsHandshake
  <2>4. heard'[c].syn = (heard[c].syn \/ g.syn)
    BY <1>0, <2>3 DEF TakeUp, Hear, TypeOK
  <2>5. state'[c] \in {"None", "Init"} <=> ~(heard[c].syn \/ g.syn)
    BY <2>1, <2>2, <2>3 DEF PhaseOfConn
  <2>6. started'[c] <= 1 /\ (~heard'[c].syn => started'[c] = 0)
    BY <2>1, <2>3, <2>4 DEF PhaseOfConn
  <2>7. app'[c].at \notin {"none", "panicked"} => heard[c].syn \/ g.syn
    BY <2>1, <2>3 DEF PhaseOfConn
  <2> QED BY <2>2, <2>3, <2>5, <2>6, <2>7, PhaseTakeUp
<1>3. CASE ReaderStep
  <2>1. rd.at \in ReaderSteps
    BY <1>3 DEF ReaderStep, FinState, FinSequence, FinAck, FinSerialize, FinSend, AckCheck,
      AckSet, PayloadCheck, Acknowledge, DeliverToApplication, ReaderSteps
  <2>2. /\ rd \in Job /\ rd.conn \in Conns /\ rd.seg \in Segments
        /\ PhaseOfReader /\ PhaseOfConn(rd.conn)
    BY <1>0, <2>1, JobType DEF PhaseInv
  <2>3. CASE FinState
    <3>1. rd'.at = "finSequence" /\ rd'.conn = rd.conn /\ rd'.seg = rd.seg
      BY <2>2, <2>3 DEF FinState, Proceed, Job
    <3>2. PhaseOfReader'
      BY <2>1, <2>2, <2>3, <3>1 DEF FinState, PhaseOfReader, historyVars
    <3>3. ASSUME NEW d \in Conns PROVE PhaseOfConn(d)'
      <4>1. PhaseOfConn(d)
        BY DEF PhaseInv
      <4>2. state'[d] = IF d = rd.conn THEN "OtherSideFinished" ELSE state[d]
        BY <1>0, <2>3 DEF FinState, TypeOK
      <4>3. d = rd.conn => heard[d].syn
        BY <2>2, <2>3 DEF FinState, PhaseOfReader
      <4> QED BY <2>3, <4>1, <4>2, <4>3 DEF FinState, PhaseOfConn, historyVars
    <3> QED BY <3>2, <3>3
  <2>4. CASE FinSequence \/ FinAck \/ FinSerialize \/ FinSend
    <3>1. /\ UNCHANGED <<state, heard, started, app>>
          /\ rd.at \in ReaderSteps \ {"finState"}
      BY <2>1, <2>4 DEF FinSequence, FinAck, FinSerialize, FinSend, streamVars, historyVars
    <3>2. /\ rd'.at \in ReaderSteps \ {"finState", "ackSet", "acknowledge", "deliver"}
          /\ rd'.conn = rd.conn /\ rd'.seg = rd.seg
      BY <2>2, <2>4 DEF FinSequence, FinAck, FinSerialize, FinSend, Proceed, Job, ReaderSteps
    <3> QED BY <3>1, <3>2, PhaseReader
  <2>5. CASE AckCheck
    <3>1. /\ UNCHANGED <<state, heard, started, app>>
          /\ rd.at \in ReaderSteps \ {"finState"}
      BY <2>1, <2>5 DEF AckCheck, streamVars, historyVars
    <3>2. /\ rd'.at = IF Establishes(rd.conn, rd.seg) THEN "ackSet" ELSE "payload"
          /\ rd'.conn = rd.conn /\ rd'.seg = rd.seg
      BY <2>2, <2>5 DEF AckCheck, Proceed, Job
    <3>3. Establishes(rd.conn, rd.seg) => heard[rd.conn].acked /\ heard[rd.conn].fins = 0
      BY <2>1, <2>2, <2>5 DEF AckCheck, Establishes, PhaseOfReader, PhaseOfConn
    <3> QED BY <3>1, <3>2, <3>3, PhaseReader DEF ReaderSteps
  <2>6. CASE AckSet
    <3>1. rd'.at = "payload" /\ rd'.conn = rd.conn /\ rd'.seg = rd.seg
      BY <2>2, <2>6 DEF AckSet, Proceed, Job
    <3>2. PhaseOfReader'
      BY <2>1, <2>2, <2>6, <3>1 DEF AckSet, PhaseOfReader, historyVars
    <3>3. ASSUME NEW d \in Conns PROVE PhaseOfConn(d)'
      <4>1. PhaseOfConn(d)
        BY DEF PhaseInv
      <4>2. state'[d] = IF d = rd.conn THEN "Connected" ELSE state[d]
        BY <1>0, <2>6 DEF AckSet, TypeOK
      <4>3. d = rd.conn => heard[d].acked /\ heard[d].fins = 0
        BY <2>2, <2>6 DEF AckSet, PhaseOfReader
      <4>4. rd.at # "finState"
        BY <2>6 DEF AckSet
      <4> QED BY <1>0, <2>6, <4>1, <4>2, <4>3, <4>4 DEF AckSet, PhaseOfConn, historyVars, TypeOK
    <3> QED BY <3>2, <3>3
  <2>7. CASE PayloadCheck
    <3>1. /\ UNCHANGED <<state, heard, started, app>>
          /\ rd.at \in ReaderSteps \ {"finState"}
      BY <2>1, <2>7 DEF PayloadCheck, streamVars, historyVars
    <3>2. CASE ~CarriesPayload(rd.conn, rd.seg)
      BY <2>7, <3>1, <3>2, PhaseReader DEF PayloadCheck
    <3>3. CASE CarriesPayload(rd.conn, rd.seg)
      <4>1. rd'.at = "acknowledge" /\ rd'.conn = rd.conn /\ rd'.seg = rd.seg
        BY <2>2, <2>7, <3>3 DEF PayloadCheck, Proceed, Job
      <4>2. heard[rd.conn].acked /\ heard[rd.conn].fins = 0
        BY <2>2, <2>7, <3>3 DEF PayloadCheck, CarriesPayload, PhaseOfConn
      <4> QED BY <3>1, <4>1, <4>2, PhaseReader DEF ReaderSteps
    <3> QED BY <3>2, <3>3
  <2>8. CASE Acknowledge
    <3>1. /\ UNCHANGED <<state, heard, started, app>>
          /\ rd.at \in ReaderSteps \ {"finState"}
      BY <2>1, <2>8 DEF Acknowledge, historyVars
    <3>2. rd'.at = "deliver" /\ rd'.conn = rd.conn /\ rd'.seg = rd.seg
      BY <2>2, <2>8 DEF Acknowledge, Proceed, Job
    <3>3. heard[rd.conn].acked /\ heard[rd.conn].fins = 0
      BY <2>2, <2>8 DEF Acknowledge, PhaseOfReader
    <3> QED BY <3>1, <3>2, <3>3, PhaseReader DEF ReaderSteps
  <2>9. CASE DeliverToApplication
    BY <2>1, <2>9, PhaseReader DEF DeliverToApplication, historyVars
  <2> QED BY <1>3, <2>3, <2>4, <2>5, <2>6, <2>7, <2>8, <2>9 DEF ReaderStep
<1>4. ASSUME NEW c \in Conns, HandlerStep(c)
      PROVE PhaseOfReader' /\ \A d \in Conns : PhaseOfConn(d)'
  <2>1. /\ UNCHANGED <<heard, started, rd>>
        /\ state' = state \/ Close(c)
    BY <1>4 DEF HandlerStep, Accept, Reject, Answer, Write, Close, CloseSequence, LoadAck,
      Serialize, Send, Read, streamVars, historyVars
  <2>2. app' = app \/ app[c].at \notin {"none", "panicked"}
    BY <1>4 DEF HandlerStep, Accept, Reject, Answer, Write, Close, CloseSequence, LoadAck,
      Serialize, Send, Read
  <2>3. \A d \in Conns \ {c} : app'[d] = app[d]
    BY <1>0, <1>4 DEF HandlerStep, Accept, Reject, Answer, Write, Begin, Close, CloseSequence,
      LoadAck, Serialize, Send, Read, TypeOK
  <2>4. \A d \in Conns : app'[d].at \notin {"none", "panicked"} => heard[d].syn
    BY <2>2, <2>3 DEF PhaseInv, PhaseOfConn
  <2>5. CASE state' = state
    BY <2>1, <2>4, <2>5, PhaseHandler
  <2>6. CASE Close(c)
    <3>1. PhaseOfReader'
      BY <2>1 DEF PhaseInv, PhaseOfReader
    <3>2. ASSUME NEW d \in Conns PROVE PhaseOfConn(d)'
      <4>1. PhaseOfConn(d)
        BY DEF PhaseInv
      <4>2. state'[d] = IF d = c THEN "Finished" ELSE state[d]
        BY <1>0, <2>6 DEF Close, TypeOK
      <4>3. d = c => heard[d].syn
        BY <2>6, <4>1 DEF Close, PhaseOfConn
      <4> QED BY <2>1, <2>4, <4>1, <4>2, <4>3 DEF PhaseOfConn
    <3> QED BY <3>1, <3>2
  <2> QED BY <2>1, <2>5, <2>6
<1>5. ASSUME NEW c \in Conns, Panic(c)
      PROVE PhaseOfReader' /\ \A d \in Conns : PhaseOfConn(d)'
  <2>1. PhaseOfReader'
    BY <1>5 DEF Panic, Dead, PhaseOfReader, ReaderSteps
  <2>2. ASSUME NEW d \in Conns PROVE PhaseOfConn(d)'
    BY <1>5 DEF Panic, ReaderHoldsBuf, PhaseInv, PhaseOfConn, historyVars
  <2> QED BY <2>1, <2>2
<1>6. CASE Transmit \/ UNCHANGED vars
  <2>1. UNCHANGED <<state, heard, started, rd, app>>
    BY <1>6 DEF Transmit, vars, streamVars, historyVars
  <2> QED BY <2>1, PhaseHandler DEF PhaseInv, PhaseOfConn
<1> QED BY <1>1, <1>2, <1>3, <1>4, <1>5, <1>6 DEF Next

LEMMA PhaseInvariant == Spec => []PhaseInv
<1>1. Init => PhaseInv
  <2>1. Init => TypeOK
    BY InitType
  <2> QED BY <2>1 DEF Init, PhaseInv, PhaseOfConn, PhaseOfReader, Idle, ReaderSteps
<1> QED BY <1>1, PhaseStep, PTL DEF Spec

(* Retransmitted SYNs, SYNs on a stream that began with another segment,   *)
(* SYNs after a close: the mux starts one handler per connection.          *)
THEOREM OneHandler == Spec => []HandlerOnce
<1>1. PhaseInv => HandlerOnce
  BY DEF PhaseInv, PhaseOfConn, HandlerOnce
<1> QED BY <1>1, PhaseInvariant, PTL

(* No payload reaches the application before the subprocess's ACK of the   *)
(* handshake or after its FIN, however Close races with the reader.        *)
THEOREM DeliveredInWindow == Spec => DeliveryWindow
<1>1. PhaseInv /\ [Next]_vars =>
        [\A c \in Conns : Len(fromSubprocess'[c]) > Len(fromSubprocess[c])
           => heard[c].acked /\ heard[c].fins = 0]_vars
  <2> SUFFICES ASSUME PhaseInv, Next, NEW c \in Conns,
                      Len(fromSubprocess'[c]) > Len(fromSubprocess[c])
               PROVE heard[c].acked /\ heard[c].fins = 0
    OBVIOUS
  <2>0. TypeOK /\ fromSubprocess[c] \in Seq(Lengths)
    BY DEF PhaseInv, TypeOK
  <2>1. DeliverToApplication \/ fromSubprocess'[c] = fromSubprocess[c]
        \/ (fromSubprocess[c] # <<>> /\ fromSubprocess'[c] = Tail(fromSubprocess[c]))
        \/ fromSubprocess'[c] = <<>>
    BY <2>0 DEF TypeOK, Next, ReceiveSyn, ReceiveOther, TakeUp, ReaderStep, FinState, FinSequence,
      FinAck, FinSerialize, FinSend, AckCheck, AckSet, PayloadCheck, Acknowledge,
      HandlerStep, Accept, Reject, Answer, Write, Close, CloseSequence, LoadAck, Serialize, Send,
      Read, Panic, Transmit, streamVars
  <2>2. CASE fromSubprocess'[c] = fromSubprocess[c]
    BY <2>0, <2>2
  <2>3. CASE fromSubprocess'[c] = <<>> \/ (fromSubprocess[c] # <<>> /\ fromSubprocess'[c] = Tail(fromSubprocess[c]))
    <3>1. Len(fromSubprocess[c]) \in Nat
      BY <2>0
    <3>2. Len(fromSubprocess'[c]) <= Len(fromSubprocess[c])
      <4> DEFINE q == fromSubprocess[c]
                 r == fromSubprocess'[c]
      <4>1. q \in Seq(Lengths) /\ (r = <<>> \/ (q # <<>> /\ r = Tail(q)))
        BY <2>0, <2>3
      <4> HIDE DEF q, r
      <4>2. Len(r) <= Len(q)
        BY <4>1
      <4> QED BY <4>2 DEF q, r
    <3>3. Len(fromSubprocess'[c]) \in Nat
      <4> DEFINE q == fromSubprocess[c]
                 r == fromSubprocess'[c]
      <4>1. q \in Seq(Lengths) /\ (r = <<>> \/ (q # <<>> /\ r = Tail(q)))
        BY <2>0, <2>3
      <4> HIDE DEF q, r
      <4>2. Len(r) \in Nat
        BY <4>1
      <4> QED BY <4>2 DEF r
    <3> QED BY <3>1, <3>2, <3>3
  <2>4. CASE DeliverToApplication
    <3>1. rd.conn = c
      BY <2>0, <2>4 DEF DeliverToApplication, TypeOK
    <3> QED BY <2>4, <3>1 DEF DeliverToApplication, PhaseInv, PhaseOfReader
  <2> QED BY <2>1, <2>2, <2>3, <2>4
<1> QED BY <1>1, PhaseInvariant, PTL DEF Spec, DeliveryWindow
=============================================================================
