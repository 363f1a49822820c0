-------------------------- MODULE UdpStackProofs ---------------------------
(***************************************************************************)
(* UdpStack for any datagrams, patterns and bounds: type correctness, and  *)
(* that a reply whose Write overlapped with no other is the handler's own. *)
(*                                                                         *)
(* The inductive invariant ReplyInv says what the buffer of a handler      *)
(* holds at each step of its Write, if no rival was at it meanwhile.       *)
(***************************************************************************)
EXTENDS UdpStack, SequenceTheorems, TLAPS

Buffers == {0} \cup Packets

Shape ==
  /\ buf = [b \in Buffers |-> buf[b]]
  /\ out = [t \in Packets |-> out[t]]

(* Handlers that share a buffer while both write in it are overlapped, and *)
(* with gvisor none are.                                                   *)
Lone ==
  /\ stack = "gvisor" => overlapped = {}
  /\ \A t, u \in Packets :
       Writing(t) /\ Writing(u) /\ t # u /\ BufferOf(t) = BufferOf(u) => t \in overlapped

Progress(t) ==
  /\ at[t] = "payload" => buf[BufferOf(t)] = <<>>
  /\ at[t] = "udp" => buf[BufferOf(t)] = <<Payload(t)>>
  /\ at[t] = "ip" => buf[BufferOf(t)] = <<UdpHeader(t), Payload(t)>>
  /\ at[t] = "copy" => buf[BufferOf(t)] = Own(t)
  /\ at[t] \in {"send", "sent", "dropped"} => out[t] = Own(t)

Filled == \A t \in Packets : t \notin overlapped => Progress(t)

ReplyInv == TypeOK /\ Shape /\ Lone /\ Filled

-----------------------------------------------------------------------------
(* Sequences of up to three parts. *)
LEMMA Parts ==
  ASSUME NEW x, NEW y, NEW z
  PROVE  /\ Append(<<>>, x) = <<x>>
         /\ <<y>> \o <<x>> = <<y, x>>
         /\ <<z>> \o <<y, x>> = <<z, y, x>>
<1>. DEFINE S == {x, y, z}
<1>1. <<>> \in Seq(S) /\ <<x>> \in Seq(S) /\ <<y>> \in Seq(S) /\ <<z>> \in Seq(S)
      /\ <<y, x>> \in Seq(S) /\ <<z, y, x>> \in Seq(S)
  OBVIOUS
<1>2. Append(<<>>, x) = <<x>>
  OBVIOUS
<1>3. <<y>> \o <<x>> = <<y, x>>
  <2>1. /\ <<y>> \o <<x>> \in Seq(S) /\ Len(<<y>> \o <<x>>) = 2
        /\ (<<y>> \o <<x>>)[1] = y /\ (<<y>> \o <<x>>)[2] = x
    BY <1>1, ConcatProperties
  <2>. DEFINE s == <<y>> \o <<x>>
             r == <<y, x>>
  <2>2. s \in Seq(S) /\ r \in Seq(S) /\ Len(s) = Len(r) /\ \A i \in 1 .. Len(s) : s[i] = r[i]
    BY <1>1, <2>1
  <2>. HIDE DEF s, r, S
  <2>3. s = r
    BY <2>2, SeqEqual
  <2>. QED BY <2>3 DEF s, r
<1>4. <<z>> \o <<y, x>> = <<z, y, x>>
  <2>1. /\ <<z>> \o <<y, x>> \in Seq(S) /\ Len(<<z>> \o <<y, x>>) = 3
        /\ (<<z>> \o <<y, x>>)[1] = z /\ (<<z>> \o <<y, x>>)[2] = y
        /\ (<<z>> \o <<y, x>>)[3] = x
    BY <1>1, ConcatProperties
  <2>. DEFINE s == <<z>> \o <<y, x>>
             r == <<z, y, x>>
  <2>2. s \in Seq(S) /\ r \in Seq(S) /\ Len(s) = Len(r) /\ \A i \in 1 .. Len(s) : s[i] = r[i]
    BY <1>1, <2>1
  <2>. HIDE DEF s, r, S
  <2>3. s = r
    BY <2>2, SeqEqual
  <2>. QED BY <2>3 DEF s, r
<1>. QED BY <1>2, <1>3, <1>4

(* What the steps do not change: the parts a handler means to send, as     *)
(* long as its datagram and its answer stay.                               *)
LEMMA Kept ==
  ASSUME NEW t \in Packets, what'[t] = what[t], reply'[t] = reply[t], stack' = stack
  PROVE  /\ Payload(t)' = Payload(t) /\ UdpHeader(t)' = UdpHeader(t)
         /\ Own(t)' = Own(t) /\ BufferOf(t)' = BufferOf(t)
BY DEF Payload, UdpHeader, IpHeader, Own, BufferOf

LEMMA InitHolds == Init => ReplyInv
<1>. SUFFICES ASSUME Init PROVE ReplyInv
  OBVIOUS
<1>. USE BoundsAssumption DEF Init, Packets
<1>1. TypeOK
  <2>1. what = <<>> /\ Len(what) = 0 /\ MaxPackets \in Nat /\ LinkCap \in Nat
    OBVIOUS
  <2>2. what \in Seq(Datagrams) /\ link \in Seq(Packets) /\ wire \in Seq(Packets) /\ Len(link) = 0
    OBVIOUS
  <2>3. \A t \in Packets : at[t] = "absent" /\ t > Len(what)
    BY <2>1
  <2>4. at \in [Packets -> Stages] /\ reply \in [Packets -> SUBSET {SpecialIP, "resolved"}]
    BY DEF Stages
  <2>5. stack \in Stacks /\ overlapped \subseteq Packets /\ 0 <= MaxPackets /\ 0 <= LinkCap
    BY <2>1
  <2>6. crashed \in BOOLEAN
    BY Zenon
  <2>. QED BY <2>1, <2>2, <2>3, <2>4, <2>5, <2>6 DEF TypeOK
<1>2. Shape
  BY DEF Shape, Buffers
<1>3. Lone /\ Filled
  BY DEF Lone, Filled, Progress, Writing
<1>. QED BY <1>1, <1>2, <1>3 DEF ReplyInv

LEMMA SendStep ==
  ASSUME ReplyInv, NEW d \in Datagrams, Send(d)
  PROVE  ReplyInv'
<1>. USE BoundsAssumption DEF ReplyInv, TypeOK, Send, Packets
<1>. DEFINE n == Len(what) + 1
<1>1. /\ n \in Packets /\ Len(what') = n /\ what' \in Seq(Datagrams)
      /\ \A t \in 1 .. Len(what) : what'[t] = what[t]
      /\ at' = [at EXCEPT ![n] = "queued"]
  OBVIOUS
<1>2. TypeOK'
  BY <1>1 DEF Stages
<1>3. Shape'
  BY DEF Shape, Buffers
<1>4. Lone'
  BY <1>1 DEF Lone, Writing, BufferOf
<1>5. Filled'
  <2>. SUFFICES ASSUME NEW t \in Packets, t \notin overlapped', at'[t] \notin {"queued", "absent"}
                PROVE  Progress(t)'
    BY <1>1, <1>2 DEF Filled, Progress
  <2>1. at'[t] = at[t] /\ t \in 1 .. Len(what)
    BY <1>1
  <2>2. what'[t] = what[t] /\ reply' = reply /\ stack' = stack
    BY <1>1, <2>1
  <2>3. Progress(t)
    BY DEF Filled
  <2>. QED BY <2>1, <2>2, <2>3, Kept DEF Progress
<1>. QED BY <1>2, <1>3, <1>4, <1>5 DEF ReplyInv

(* A handler's step outside serialization: it changes its own stage and,   *)
(* before it writes, its answer.                                           *)
LEMMA QuietStep ==
  ASSUME ReplyInv, NEW t \in Packets,
         Notify(t) \/ Refuse(t) \/ Lose(t) \/ Ignore(t) \/ Resolve(t) \/ Abandon(t)
  PROVE  ReplyInv'
<1>. DEFINE Quiet == {"refused", "lost", "unheard", "handling", "ignored", "clear", "abandoned"}
<1>. USE BoundsAssumption DEF ReplyInv, Notify, Refuse, Lose, Ignore, Resolve, Abandon
<1>1. /\ UNCHANGED <<stack, what, buf, out, overlapped, link, wire, crashed>>
      /\ \E s \in Quiet : at' = [at EXCEPT ![t] = s]
      /\ at[t] \in {"queued", "handling", "clear"}
  BY DEF TypeOK
<1>2. reply' = reply \/ \E a \in SUBSET {SpecialIP, "resolved"} : reply' = [reply EXCEPT ![t] = a]
  <2>1. CASE Resolve(t)
    <3>1. Answers(what[t]) \subseteq SUBSET {SpecialIP, "resolved"}
      BY <2>1 DEF Answers, Answerable, Special
    <3>. QED BY <2>1, <3>1
  <2>. QED BY <2>1
<1>3. TypeOK'
  BY <1>1, <1>2 DEF TypeOK, Stages
<1>4. Shape'
  BY <1>1 DEF Shape, Buffers
<1>5. Lone'
  BY <1>1 DEF Lone, Writing, BufferOf, TypeOK
<1>6. Filled'
  <2>. SUFFICES ASSUME NEW u \in Packets, u \notin overlapped' PROVE Progress(u)'
    BY DEF Filled
  <2>1. CASE u = t
    <3>1. at'[t] \in Quiet
      BY <1>1 DEF TypeOK
    <3>. QED BY <2>1, <3>1 DEF Progress
  <2>2. CASE u # t
    <3>1. at'[u] = at[u] /\ reply'[u] = reply[u] /\ what'[u] = what[u] /\ stack' = stack
      BY <1>1, <1>2, <2>2 DEF TypeOK
    <3>2. Progress(u)
      BY <1>1 DEF Filled
    <3>. QED BY <1>1, <3>1, <3>2, Kept DEF Progress
  <2>. QED BY <2>1, <2>2
<1>. QED BY <1>3, <1>4, <1>5, <1>6 DEF ReplyInv

(* One step of serializeUDP by t: the others that write in its buffer      *)
(* become overlapped with it.                                              *)
LEMMA FillStep ==
  ASSUME ReplyInv, NEW t \in Packets, Serialize(t)
  PROVE  ReplyInv'
<1>. DEFINE b == BufferOf(t)
<1>. USE BoundsAssumption DEF ReplyInv
<1>1. /\ UNCHANGED <<stack, what, reply, out, link, wire, crashed>>
      /\ overlapped' = IF Rivals(t) = {} THEN overlapped
                       ELSE overlapped \cup Rivals(t) \cup {t}
  BY DEF Serialize, Fill
<1>2. /\ at[t] \in {"clear", "payload", "udp", "ip"}
      /\ \E s \in {"payload", "udp", "ip", "copy"} : at' = [at EXCEPT ![t] = s]
      /\ \E p : buf' = [buf EXCEPT ![b] = p]
  BY DEF Serialize, Fill
<1>3. b \in Buffers
  BY DEF BufferOf, Buffers
<1>4. Rivals(t) \subseteq Packets
  BY DEF Rivals
<1>5. TypeOK'
  BY <1>1, <1>2, <1>4 DEF TypeOK, Stages
<1>6. Shape'
  BY <1>1, <1>2, <1>3 DEF Shape
<1>7. Lone'
  <2>1. stack = "gvisor" => Rivals(t) = {}
    BY DEF Rivals, BufferOf
  <2>2. ASSUME NEW u \in Packets, NEW v \in Packets, Writing(u)', Writing(v)', u # v,
               BufferOf(u)' = BufferOf(v)'
        PROVE  u \in overlapped'
    <3>1. BufferOf(u) = BufferOf(v)
      BY <1>1, <2>2 DEF BufferOf
    <3>2. \A w \in Packets \ {t} : Writing(w)' => Writing(w)
      BY <1>2 DEF Writing, TypeOK
    <3>3. CASE u = t
      <4>1. v \in Rivals(t)
        BY <2>2, <3>1, <3>2, <3>3 DEF Rivals
      <4>. QED BY <1>1, <3>3, <4>1
    <3>4. CASE v = t
      <4>1. u \in Rivals(t)
        BY <2>2, <3>1, <3>2, <3>4 DEF Rivals
      <4>. QED BY <1>1, <4>1
    <3>5. CASE u # t /\ v # t
      <4>1. u \in overlapped
        BY <2>2, <3>1, <3>2, <3>5 DEF Lone
      <4>. QED BY <1>1, <4>1
    <3>. QED BY <3>3, <3>4, <3>5
  <2>. QED BY <1>1, <2>1, <2>2 DEF Lone
<1>8. Filled'
  <2>. SUFFICES ASSUME NEW u \in Packets, u \notin overlapped' PROVE Progress(u)'
    BY DEF Filled
  <2>1. u \notin overlapped /\ Progress(u)
    BY <1>1 DEF Filled
  <2>2. what'[u] = what[u] /\ reply'[u] = reply[u] /\ stack' = stack
    BY <1>1
  <2>3. CASE u = t
    <3>1. buf[b] = buf[b] /\ DOMAIN buf = Buffers /\ at \in [Packets -> Stages]
      BY DEF Shape, TypeOK
    <3>2. CASE Fill(t, "clear", "payload", Cleared(buf[b]))
      <4>1. at'[t] = "payload" /\ buf'[b] = <<>>
        BY <1>3, <3>1, <3>2 DEF Fill, Cleared
      <4>. QED BY <2>2, <2>3, <4>1, Kept DEF Progress
    <3>3. CASE Fill(t, "payload", "udp", Append(buf[b], Payload(t)))
      <4>1. at'[t] = "udp" /\ buf'[b] = Append(<<>>, Payload(t))
        BY <1>3, <2>1, <2>3, <3>1, <3>3 DEF Fill, Progress
      <4>2. buf'[b] = <<Payload(t)>>
        BY <4>1, Parts
      <4>. QED BY <2>2, <2>3, <4>1, <4>2, Kept DEF Progress
    <3>4. CASE Fill(t, "udp", "ip", <<UdpHeader(t)>> \o buf[b])
      <4>1. at'[t] = "ip" /\ buf'[b] = <<UdpHeader(t)>> \o <<Payload(t)>>
        BY <1>3, <2>1, <2>3, <3>1, <3>4 DEF Fill, Progress
      <4>2. buf'[b] = <<UdpHeader(t), Payload(t)>>
        BY <4>1, Parts
      <4>. QED BY <2>2, <2>3, <4>1, <4>2, Kept DEF Progress
    <3>5. CASE Fill(t, "ip", "copy", <<IpHeader(t)>> \o buf[b])
      <4>1. at'[t] = "copy" /\ buf'[b] = <<IpHeader(t)>> \o <<UdpHeader(t), Payload(t)>>
        BY <1>3, <2>1, <2>3, <3>1, <3>5 DEF Fill, Progress
      <4>2. buf'[b] = Own(t)
        BY <4>1, Parts DEF Own
      <4>. QED BY <2>2, <2>3, <4>1, <4>2, Kept DEF Progress
    <3>. QED BY <3>2, <3>3, <3>4, <3>5 DEF Serialize
  <2>4. CASE u # t
    <3>1. at'[u] = at[u] /\ out'[u] = out[u]
      BY <1>1, <1>2, <2>4 DEF TypeOK
    <3>2. Writing(u) => BufferOf(u) # b
      BY <1>1, <2>4 DEF Rivals
    <3>3. Writing(u) => buf'[BufferOf(u)] = buf[BufferOf(u)]
      BY <1>2, <3>2 DEF Shape, BufferOf, Buffers
    <3>. QED BY <2>1, <2>2, <3>1, <3>3, Kept DEF Progress, Writing
  <2>. QED BY <2>3, <2>4
<1>. QED BY <1>5, <1>6, <1>7, <1>8 DEF ReplyInv

LEMMA CopyStep ==
  ASSUME ReplyInv, NEW t \in Packets, Copy(t)
  PROVE  ReplyInv'
<1>. USE BoundsAssumption DEF ReplyInv, Copy
<1>1. TypeOK'
  BY DEF TypeOK, Stages
<1>2. Shape'
  BY DEF Shape, Buffers
<1>3. Lone'
  BY DEF Lone, Writing, BufferOf, TypeOK
<1>4. Filled'
  <2>. SUFFICES ASSUME NEW u \in Packets, u \notin overlapped' PROVE Progress(u)'
    BY DEF Filled
  <2>1. Progress(u)
    BY DEF Filled
  <2>2. what'[u] = what[u] /\ reply'[u] = reply[u] /\ stack' = stack /\ buf' = buf
    OBVIOUS
  <2>3. CASE u = t
    <3>1. at'[t] = "send" /\ out'[t] = buf[BufferOf(t)]
      BY <2>3 DEF TypeOK, Shape
    <3>. QED BY <2>1, <2>2, <2>3, <3>1, Kept DEF Progress
  <2>4. CASE u # t
    <3>1. at'[u] = at[u] /\ out'[u] = out[u]
      BY <2>4 DEF TypeOK, Shape
    <3>. QED BY <2>1, <2>2, <3>1, Kept DEF Progress
  <2>. QED BY <2>3, <2>4
<1>. QED BY <1>1, <1>2, <1>3, <1>4 DEF ReplyInv

(* A step that leaves the buffers alone and what is copied: Reply, Panic,  *)
(* Transmit and stuttering.                                                *)
LEMMA RestStep ==
  ASSUME ReplyInv,
         \/ \E t \in Packets : Reply(t) \/ Panic(t)
         \/ Transmit
         \/ UNCHANGED vars
  PROVE  ReplyInv'
<1>. USE BoundsAssumption DEF ReplyInv
<1>1. /\ UNCHANGED <<stack, what, reply, buf, out, overlapped>>
      /\ \A t \in Packets : at'[t] = at[t] \/ (at[t] = "send" /\ at'[t] \in {"sent", "dropped"})
  BY DEF Reply, Panic, Transmit, vars, TypeOK
<1>2. TypeOK'
  <2>1. ASSUME NEW t \in Packets, Reply(t) PROVE TypeOK'
    <3>1. link' \in Seq(Packets) /\ (stack = "homegrown" => Len(link') <= LinkCap)
      <4>1. CASE HasRoom /\ link' = Append(link, t)
        <5>1. link \in Seq(Packets)
          BY DEF TypeOK
        <5>2. link' \in Seq(Packets) /\ Len(link') = Len(link) + 1
          BY <4>1, <5>1
        <5>3. stack = "homegrown" => Len(link) < LinkCap
          BY <4>1 DEF HasRoom
        <5>4. Len(link) \in Nat
          BY <5>1
        <5>. QED BY <5>2, <5>3, <5>4
      <4>2. CASE link' = link
        BY <4>2 DEF TypeOK
      <4>. QED BY <2>1, <4>1, <4>2 DEF Reply
    <3>2. at' \in [Packets -> Stages] /\ \A u \in Packets : at'[u] = "absent" <=> u > Len(what)
      BY <2>1 DEF Reply, TypeOK, Stages
    <3>. QED BY <2>1, <3>1, <3>2 DEF Reply, TypeOK
  <2>2. CASE Transmit
    <3>1. Head(link) \in Packets /\ Tail(link) \in Seq(Packets) /\ Len(Tail(link)) = Len(link) - 1
      BY <2>2 DEF Transmit, TypeOK
    <3>2. wire' \in Seq(Packets)
      <4>1. wire \in Seq(Packets) /\ (wire' = wire \/ wire' = Append(wire, Head(link)))
        BY <2>2 DEF Transmit, TypeOK
      <4>2. Append(wire, Head(link)) \in Seq(Packets)
        BY <3>1, <4>1
      <4>. QED BY <4>1, <4>2
    <3>3. Len(link) \in Nat
      BY DEF TypeOK
    <3>. QED BY <2>2, <3>1, <3>2, <3>3 DEF Transmit, TypeOK
  <2>3. CASE UNCHANGED vars
    BY <2>3 DEF vars, TypeOK
  <2>4. ASSUME NEW t \in Packets, Panic(t) PROVE TypeOK'
    BY <2>4 DEF Panic, TypeOK
  <2>. QED BY <2>1, <2>2, <2>3, <2>4
<1>3. Shape'
  BY <1>1 DEF Shape, Buffers
<1>4. Lone'
  BY <1>1 DEF Lone, Writing, BufferOf
<1>5. Filled'
  <2>. SUFFICES ASSUME NEW u \in Packets, u \notin overlapped' PROVE Progress(u)'
    BY DEF Filled
  <2>1. Progress(u) /\ what'[u] = what[u] /\ reply'[u] = reply[u] /\ stack' = stack
    BY <1>1 DEF Filled
  <2>. QED BY <1>1, <2>1, Kept DEF Progress
<1>. QED BY <1>2, <1>3, <1>4, <1>5 DEF ReplyInv

LEMMA NextHolds == ReplyInv /\ [Next]_vars => ReplyInv'
<1>. SUFFICES ASSUME ReplyInv, [Next]_vars PROVE ReplyInv'
  OBVIOUS
<1>1. ASSUME NEW d \in Datagrams, Send(d) PROVE ReplyInv'
  BY <1>1, SendStep
<1>2. ASSUME NEW t \in Packets, Handler(t) \/ Refuse(t) \/ Lose(t) PROVE ReplyInv'
  <2>1. CASE Notify(t) \/ Refuse(t) \/ Lose(t) \/ Ignore(t) \/ Resolve(t) \/ Abandon(t)
    BY <2>1, QuietStep
  <2>2. CASE Serialize(t)
    BY <2>2, FillStep
  <2>3. CASE Copy(t)
    BY <2>3, CopyStep
  <2>4. CASE Reply(t) \/ Panic(t)
    BY <2>4, RestStep
  <2>. QED BY <1>2, <2>1, <2>2, <2>3, <2>4 DEF Handler
<1>3. CASE Transmit \/ UNCHANGED vars
  BY <1>3, RestStep
<1>. QED BY <1>1, <1>2, <1>3 DEF Next

LEMMA InvHolds == Spec => []ReplyInv
<1>. QED BY InitHolds, NextHolds, PTL DEF Spec

(* In every reachable state the packets' stages agree with their order of  *)
(* arrival, and the homegrown stack's channel is within its capacity.      *)
THEOREM TypeCorrect == Spec => []TypeOK
<1>1. ReplyInv => TypeOK
  BY DEF ReplyInv
<1>. QED BY <1>1, InvHolds, PTL

(* A reply carries its own flow's headers and the answer to its own query, *)
(* always with gvisor, and without overlapping Writes with the homegrown   *)
(* stack (udp.go:127-135).                                                 *)
THEOREM RepliesAreOwn == Spec => []RepliesMatch
<1>1. ReplyInv => RepliesMatch
  BY DEF ReplyInv, Lone, Filled, Progress, RepliesMatch, Sent
<1>. QED BY <1>1, InvHolds, PTL
=============================================================================
