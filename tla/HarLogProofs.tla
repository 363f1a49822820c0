---------------------------- MODULE HarLogProofs ----------------------------
(***************************************************************************)
(* HarLog for any trips, requests and idle connections: type correctness,  *)
(* that the log gets each trip once, and that the phases of an entry add   *)
(* up.                                                                     *)
(*                                                                         *)
(* The inductive invariant HarInv has a part about the log and the mutex,  *)
(* which all trips share, and one about each trip alone: in what order its *)
(* times lie, and that the entry made of them stays true of them although  *)
(* hooks are called after it was made.                                     *)
(***************************************************************************)
EXTENDS HarLog, TLAPS

Places == {"init", "making", "request", "trip", "get", "waiting", "conn", "response",
           "timings", "append", "appending", "returned"}
Fields == {"startAt", "connStart", "connObtained", "writeRequest",
           "firstResponseByte", "tlsHandshakeStart", "tlsHandshakeEnd", "endAt"}
Instants == {Zero} \cup Nat
Stamps == [Fields -> Instants]
Durations == [Time : Int, Blocked : Int, DNS : Int, Connect : Int,
              Send : Int, Wait : Int, Receive : Int, SSL : Int]
Entries == [request : BOOLEAN, response : BOOLEAN, timings : Durations]

Shape ==
  /\ req \in [Trips -> UNION {Requests[t] : t \in Trips}]
  /\ pc \in [Trips -> Places] /\ clock \in [Trips -> Nat] /\ stamp \in [Trips -> Stamps]
  /\ dial \in [Trips -> {"none", "dialing", "tls", "ready", "over"}]
  /\ reused \in [Trips -> BOOLEAN] /\ writing \in [Trips -> BOOLEAN] /\ idles \in [Trips -> Nat]
  /\ entry \in [Trips -> Entries]

(* The log: one append at a time, each from the whole log. *)
Logging ==
  /\ made \in BOOLEAN /\ log \in Seq(Trips) /\ seen \in [Trips -> Seq(Trips)]
  /\ mutex \in Trips \cup {Nobody}
  /\ \A t \in Trips : mutex = t <=> pc[t] = "appending"
  /\ \A t \in Trips : pc[t] = "appending" => seen[t] = log
  /\ \A t \in Trips : pc[t] \in {"init", "making"} \/ made
  /\ made \/ log = <<>>
  /\ \A t \in Trips : pc[t] = "returned" <=> t \in ToSet(log)
  /\ IsInjective(log)

(* What the entry says of request and response. *)
Recording(t) ==
  /\ req[t] \in Requests[t]
  /\ pc[t] \in {"init", "making", "request"} \/ entry[t].request = req[t].recordable
  /\ entry[t].response \/ pc[t] = "response" => stamp[t].firstResponseByte # Zero

Early(t) == pc[t] \in {"init", "making", "request", "trip"}
Answered(t) == pc[t] \in {"response", "timings"} \/ Recorded(t)

(* The order of the times.  An attempt that is given up leaves its own     *)
(* behind, so that a connection seems obtained before it was asked for;    *)
(* but then there is no response.                                          *)
Ordered(t) ==
  LET s == stamp[t] IN
    /\ \A f \in Fields : s[f] <= clock[t]
    /\ Early(t) => s.connStart = Zero
    /\ ~Early(t) => s.startAt # Zero /\ (s.connStart = Zero \/ s.startAt <= s.connStart)
    /\ Early(t) \/ pc[t] = "get" \/ s.connStart # Zero
    /\ pc[t] = "conn" => s.connStart <= s.connObtained
    /\ s.firstResponseByte # Zero => Answered(t) /\ s.connStart <= s.connObtained
    /\ Recorded(t) => s.endAt # Zero /\ s.firstResponseByte <= s.endAt

(* The handshake of the connection that a trip dials itself. *)
Secured(t) ==
  LET s == stamp[t] IN
    /\ reused[t] => idles[t] # 0
    /\ ~req[t].https => dial[t] # "tls" /\ s.tlsHandshakeStart = Zero
    /\ idles[t] = 0 =>
         /\ Early(t) \/ pc[t] = "get" => dial[t] = "none"
         /\ req[t].https /\ dial[t] \in {"tls", "ready", "over"} =>
              s.tlsHandshakeStart # Zero /\ s.connStart <= s.tlsHandshakeStart
         /\ req[t].https /\ dial[t] \in {"ready", "over"} => s.tlsHandshakeStart <= s.tlsHandshakeEnd
         /\ req[t].https /\ dial[t] = "over" => s.tlsHandshakeEnd <= s.connObtained

(* What the entry says of the times, of which the writer's and the         *)
(* handshake's may still be set after it was made.                         *)
Measured(t) ==
  LET s == stamp[t] m == entry[t].timings IN
    Recorded(t) =>
      /\ m.Time = s.endAt - s.startAt /\ m.Blocked = s.startAt - s.connStart
      /\ m.Connect = s.connObtained - s.connStart /\ m.Receive = s.endAt - s.firstResponseByte
      /\ s.writeRequest <= s.endAt =>
           m.Send = s.writeRequest - s.connObtained /\ m.Wait = s.firstResponseByte - s.writeRequest
      /\ dial[t] = "over" \/ ~req[t].https => m.SSL = Ssl(s)

OfTrip(t) == Recording(t) /\ Ordered(t) /\ Secured(t) /\ Measured(t)

HarInv == Shape /\ Logging /\ \A t \in Trips : OfTrip(t)

-----------------------------------------------------------------------------
(* What a call of a hook changes. *)
LEMMA Hooked ==
  ASSUME NEW t \in Trips, NEW fields, Hook(t, fields),
         stamp \in [Trips -> Stamps], clock \in [Trips -> Nat]
  PROVE  /\ stamp' \in [Trips -> Stamps] /\ clock' \in [Trips -> Nat]
         /\ clock'[t] = clock[t] + Tick
         /\ \A f \in Fields : stamp'[t][f] = IF f \in fields THEN clock[t] + Tick ELSE stamp[t][f]
         /\ \A u \in Trips \ {t} : stamp'[u] = stamp[u] /\ clock'[u] = clock[u]
<1>. DEFINE s == [f \in Fields |-> IF f \in fields THEN clock[t] + Tick ELSE stamp[t][f]]
<1>1. DOMAIN stamp[t] = Fields /\ clock[t] + Tick \in Nat
  BY DEF Stamps, Tick
<1>2. s \in Stamps
  BY <1>1 DEF Stamps, Instants
<1>3. stamp' = [stamp EXCEPT ![t] = s] /\ clock' = [clock EXCEPT ![t] = clock[t] + Tick]
  BY <1>1 DEF Hook
<1>4. \A f \in Fields : s[f] = IF f \in fields THEN clock[t] + Tick ELSE stamp[t][f]
  OBVIOUS
<1>. HIDE DEF s
<1>. QED BY <1>1, <1>2, <1>3, <1>4

(* The times of a trip, as numbers. *)
LEMMA Times ==
  ASSUME Shape, NEW t \in Trips
  PROVE  /\ clock[t] \in Nat
         /\ \A f \in Fields : stamp[t][f] \in Int /\ (stamp[t][f] = Zero \/ stamp[t][f] >= 0)
BY DEF Shape, Stamps, Instants, Zero

(* A trip is not disturbed by the steps of the others. *)
Alone(t) ==
  \A u \in Trips \ {t} :
    /\ req'[u] = req[u] /\ pc'[u] = pc[u] /\ clock'[u] = clock[u] /\ stamp'[u] = stamp[u]
    /\ dial'[u] = dial[u] /\ reused'[u] = reused[u] /\ idles'[u] = idles[u] /\ entry'[u] = entry[u]

LEMMA OthersKeep ==
  ASSUME HarInv, NEW t \in Trips, Alone(t), OfTrip(t)'
  PROVE  \A u \in Trips : OfTrip(u)'
<1>. SUFFICES ASSUME NEW u \in Trips \ {t} PROVE OfTrip(u)'
  OBVIOUS
<1>1. OfTrip(u)
  BY DEF HarInv
<1>. QED BY <1>1 DEF Alone, OfTrip, Recording, Ordered, Secured, Measured, Early, Answered, Recorded

(* The log stays as it is while a trip goes from one place to another that *)
(* has nothing to do with it.                                              *)
Apart == Places \ {"init", "making", "appending", "returned"}
LEMMA LogKeeps ==
  ASSUME HarInv, NEW t \in Trips, UNCHANGED shared,
         \A u \in Trips \ {t} : pc'[u] = pc[u],
         \/ pc'[t] = pc[t]
         \/ pc[t] \in Apart /\ pc'[t] \in Apart
         \/ pc[t] = "init" /\ pc'[t] = "making"
         \/ pc[t] = "init" /\ pc'[t] = "request" /\ made
  PROVE  Logging'
BY DEF HarInv, Logging, shared, Apart

-----------------------------------------------------------------------------
LEMMA InitHolds == Init => HarInv
<1>. SUFFICES ASSUME Init PROVE HarInv
  OBVIOUS
<1>1. Unset \in Stamps /\ \A f \in Fields : Unset[f] = Zero
  BY DEF Stamps, Fields, Unset, Instants
<1>2. [request |-> FALSE, response |-> FALSE, timings |-> NoTimings] \in Entries
  BY DEF Entries, Durations, NoTimings
<1>3. Shape
  BY <1>1, <1>2 DEF Init, Shape, Places
<1>4. Logging
  <2>1. log = <<>> /\ ToSet(log) = {} /\ IsInjective(log) /\ log \in Seq(Trips)
    BY DEF Init, ToSet, IsInjective
  <2>. QED BY <2>1, NobodyAssumption DEF Init, Logging
<1>5. ASSUME NEW t \in Trips PROVE OfTrip(t)
  <2>1. /\ pc[t] = "init" /\ clock[t] = 0 /\ stamp[t] = Unset /\ dial[t] = "none" /\ reused[t] = FALSE
        /\ idles[t] = 0 /\ entry[t].response = FALSE /\ req[t] \in Requests[t]
    BY DEF Init
  <2>2. /\ stamp[t].connStart = Zero /\ stamp[t].firstResponseByte = Zero /\ stamp[t].tlsHandshakeStart = Zero
        /\ \A f \in Fields : stamp[t][f] <= clock[t]
    BY <1>1, <2>1 DEF Fields, Zero
  <2>. QED BY <2>1, <2>2 DEF OfTrip, Recording, Ordered, Secured, Measured, Early, Answered, Recorded
<1>. QED BY <1>3, <1>4, <1>5 DEF HarInv

(* Steps of RoundTrip before the transport, and failures in it: only the   *)
(* place changes.                                                          *)
LEMMA PlaceStep ==
  ASSUME HarInv, NEW t \in Trips, SkipInit(t) \/ LookInit(t) \/ LockedInit(t) \/ TripFails(t)
  PROVE  HarInv'
<1>1. /\ UNCHANGED <<req, clock, stamp, dial, reused, writing, idles, entry, seen, mutex>>
      /\ pc \in [Trips -> Places] /\ \E p \in Places : pc' = [pc EXCEPT ![t] = p]
      /\ \/ pc[t] = "init" /\ pc'[t] \in {"making", "request"} 
         \/ pc[t] = "making" /\ pc'[t] = "request" 
         \/ pc[t] \in {"conn", "waiting"} /\ pc'[t] = "timings"
  BY DEF HarInv, Shape, Places, SkipInit, LookInit, LockedInit, TripFails, Go, Make, shared, wire
<1>2. Shape'
  BY <1>1 DEF HarInv, Shape
<1>3. Logging'
  <2>1. CASE LockedInit(t)
    <3>1. pc[t] = "making" /\ pc'[t] = "request" /\ made' = TRUE /\ log' = log
      BY <1>1, <2>1 DEF LockedInit, Go, Make, HarInv, Logging, Shape
    <3>. QED BY <1>1, <3>1 DEF HarInv, Logging
  <2>2. CASE SkipInit(t) \/ LookInit(t) \/ TripFails(t)
    <3>1. UNCHANGED shared /\ (pc'[t] = "request" => made)
      BY <2>2 DEF SkipInit, LookInit, TripFails, HarInv, Shape, Go
    <3>. QED BY <1>1, <2>2, <3>1, LogKeeps DEF Apart, Places, SkipInit, LookInit, TripFails, Go
  <2>. QED BY <2>1, <2>2
<1>4. OfTrip(t)'
  <2>1. OfTrip(t)
    BY DEF HarInv
  <2>. QED BY <1>1, <2>1
       DEF OfTrip, Recording, Ordered, Secured, Measured, Early, Answered, Recorded
<1>. QED BY <1>1, <1>2, <1>3, <1>4, OthersKeep DEF HarInv, Alone

(* The entry gets its request and its response. *)
LEMMA EntryStep ==
  ASSUME HarInv, NEW t \in Trips, PreRoundTrip(t) \/ PostRoundTrip(t)
  PROVE  HarInv'
<1>1. /\ UNCHANGED <<shared, req, clock, stamp, dial, reused, writing, idles>>
      /\ pc \in [Trips -> Places] /\ entry \in [Trips -> Entries]
      /\ \/ /\ pc[t] = "request" /\ pc' = [pc EXCEPT ![t] = "trip"]
            /\ entry' = [entry EXCEPT ![t] = [@ EXCEPT !.request = req[t].recordable]]
         \/ /\ pc[t] = "response" /\ pc' = [pc EXCEPT ![t] = "timings"]
            /\ entry' = entry \/ entry' = [entry EXCEPT ![t] = [@ EXCEPT !.response = TRUE]]
  BY DEF HarInv, Shape, PreRoundTrip, PostRoundTrip, UpdateEntryWithRequest, UpdateEntryWithResponse, Go, wire
<1>2. req[t] \in Requests[t] /\ req[t].recordable \in BOOLEAN
  BY RequestsAssumption DEF HarInv, OfTrip, Recording
<1>3. /\ entry' \in [Trips -> Entries]
      /\ \A u \in Trips \ {t} : entry'[u] = entry[u]
      /\ entry'[t].timings = entry[t].timings
      /\ pc[t] = "request" => entry'[t].request = req[t].recordable /\ entry'[t].response = entry[t].response
      /\ pc[t] = "response" => entry'[t].request = entry[t].request
  <2>. DEFINE asked == [entry[t] EXCEPT !.request = req[t].recordable]
              answered == [entry[t] EXCEPT !.response = TRUE]
  <2>1. /\ asked \in Entries /\ asked.request = req[t].recordable
        /\ asked.response = entry[t].response /\ asked.timings = entry[t].timings
    BY <1>1, <1>2 DEF Entries
  <2>2. /\ answered \in Entries /\ answered.request = entry[t].request
        /\ answered.timings = entry[t].timings
    <3>1. entry[t] \in Entries /\ TRUE \in BOOLEAN
      BY <1>1
    <3>. QED BY <3>1 DEF Entries
  <2>3. /\ pc[t] = "request" => entry' = [entry EXCEPT ![t] = asked]
        /\ pc[t] = "response" => entry' = entry \/ entry' = [entry EXCEPT ![t] = answered]
    BY <1>1
  <2>. HIDE DEF asked, answered
  <2>. QED BY <1>1, <2>1, <2>2, <2>3
<1>4. Shape'
  BY <1>1, <1>3 DEF HarInv, Shape, Places
<1>5. Logging'
  BY <1>1, LogKeeps DEF Apart, Places
<1>6. OfTrip(t)'
  <2>1. OfTrip(t)
    BY DEF HarInv
  <2>2. Recording(t)'
    BY <1>1, <1>3, <2>1 DEF OfTrip, Recording
  <2>. QED BY <1>1, <1>3, <2>1, <2>2
       DEF OfTrip, Ordered, Secured, Measured, Early, Answered, Recorded
<1>. QED BY <1>1, <1>3, <1>4, <1>5, <1>6, OthersKeep DEF HarInv, Alone

-----------------------------------------------------------------------------
(* Hooks that the trip's own steps call. *)
LEMMA StartStep ==
  ASSUME HarInv, NEW t \in Trips, Start(t)
  PROVE  HarInv'
<1>1. /\ UNCHANGED <<shared, req, dial, reused, writing, idles, entry>> /\ Hook(t, {"startAt"})
      /\ pc \in [Trips -> Places] /\ pc[t] = "trip" /\ pc' = [pc EXCEPT ![t] = "get"]
  BY DEF HarInv, Shape, Start, Go, wire
<1>2. /\ stamp' \in [Trips -> Stamps] /\ clock' \in [Trips -> Nat] /\ clock'[t] = clock[t] + Tick
      /\ \A f \in Fields : stamp'[t][f] = IF f = "startAt" THEN clock[t] + Tick ELSE stamp[t][f]
      /\ \A u \in Trips \ {t} : stamp'[u] = stamp[u] /\ clock'[u] = clock[u]
  BY <1>1, Hooked DEF HarInv, Shape
<1>3. Shape'
  BY <1>1, <1>2 DEF HarInv, Shape, Places
<1>4. Logging'
  BY <1>1, LogKeeps DEF Apart, Places
<1>5. OfTrip(t)'
  <2>1. OfTrip(t)
    BY DEF HarInv
  <2>2. /\ clock[t] \in Nat
        /\ \A f \in Fields : stamp[t][f] \in Int /\ (stamp[t][f] = Zero \/ stamp[t][f] >= 0)
    BY Times DEF HarInv
  <2>3. Recording(t)' /\ Secured(t)' /\ Measured(t)'
    BY <1>1, <1>2, <2>1 DEF OfTrip, Recording, Secured, Measured, Early, Recorded, Fields
  <2>4. Ordered(t)'
    BY <1>1, <1>2, <2>1, <2>2 DEF OfTrip, Ordered, Early, Answered, Recorded, Fields, Tick, Zero
  <2>. QED BY <2>3, <2>4 DEF OfTrip
<1>. QED BY <1>1, <1>2, <1>3, <1>4, <1>5, OthersKeep DEF HarInv, Alone

LEMMA GetConnStep ==
  ASSUME HarInv, NEW t \in Trips, GetConn(t)
  PROVE  HarInv'
<1>1. /\ UNCHANGED <<shared, req, reused, writing, idles, entry>> /\ Hook(t, {"connStart"})
      /\ pc \in [Trips -> Places] /\ pc[t] = "get" /\ pc' = [pc EXCEPT ![t] = "waiting"]
      /\ \/ dial' = [dial EXCEPT ![t] = IF @ = "none" THEN "dialing" ELSE @] \/ UNCHANGED dial
  BY DEF HarInv, Shape, GetConn, Go
<1>2. /\ stamp' \in [Trips -> Stamps] /\ clock' \in [Trips -> Nat] /\ clock'[t] = clock[t] + Tick
      /\ \A f \in Fields : stamp'[t][f] = IF f = "connStart" THEN clock[t] + Tick ELSE stamp[t][f]
      /\ \A u \in Trips \ {t} : stamp'[u] = stamp[u] /\ clock'[u] = clock[u]
  BY <1>1, Hooked DEF HarInv, Shape
<1>3. /\ dial' \in [Trips -> {"none", "dialing", "tls", "ready", "over"}]
      /\ dial'[t] = dial[t] \/ (dial[t] = "none" /\ dial'[t] = "dialing")
      /\ \A u \in Trips \ {t} : dial'[u] = dial[u]
  BY <1>1 DEF HarInv, Shape
<1>4. Shape'
  BY <1>1, <1>2, <1>3 DEF HarInv, Shape, Places
<1>5. Logging'
  BY <1>1, LogKeeps DEF Apart, Places
<1>6. OfTrip(t)'
  <2>1. OfTrip(t)
    BY DEF HarInv
  <2>2. /\ clock[t] \in Nat
        /\ \A f \in Fields : stamp[t][f] \in Int /\ (stamp[t][f] = Zero \/ stamp[t][f] >= 0)
    BY Times DEF HarInv
  <2>3. Recording(t)' /\ Secured(t)' /\ Measured(t)'
    BY <1>1, <1>2, <1>3, <2>1 DEF OfTrip, Recording, Secured, Measured, Early, Recorded, Fields
  <2>4. Ordered(t)'
    BY <1>1, <1>2, <2>1, <2>2 DEF OfTrip, Ordered, Early, Answered, Recorded, Fields, Tick, Zero
  <2>. QED BY <2>3, <2>4 DEF OfTrip
<1>. QED BY <1>1, <1>2, <1>3, <1>4, <1>5, <1>6, OthersKeep DEF HarInv, Alone

LEMMA GotConnStep ==
  ASSUME HarInv, NEW t \in Trips, GotConn(t)
  PROVE  HarInv'
<1>1. /\ UNCHANGED <<shared, req, entry>> /\ Hook(t, {"connObtained"})
      /\ pc \in [Trips -> Places] /\ pc[t] = "waiting" /\ pc' = [pc EXCEPT ![t] = "conn"]
      /\ writing' = [writing EXCEPT ![t] = TRUE]
      /\ \/ /\ idles' = [idles EXCEPT ![t] = @ + 1] /\ reused' = [reused EXCEPT ![t] = TRUE]
            /\ UNCHANGED dial
         \/ /\ dial[t] = "ready" /\ dial' = [dial EXCEPT ![t] = "over"]
            /\ reused' = [reused EXCEPT ![t] = FALSE] /\ UNCHANGED idles
  BY DEF HarInv, Shape, GotConn, Go
<1>2. /\ stamp' \in [Trips -> Stamps] /\ clock' \in [Trips -> Nat] /\ clock'[t] = clock[t] + Tick
      /\ \A f \in Fields : stamp'[t][f] = IF f = "connObtained" THEN clock[t] + Tick ELSE stamp[t][f]
      /\ \A u \in Trips \ {t} : stamp'[u] = stamp[u] /\ clock'[u] = clock[u]
  BY <1>1, Hooked DEF HarInv, Shape
<1>3. /\ dial' \in [Trips -> {"none", "dialing", "tls", "ready", "over"}]
      /\ reused' \in [Trips -> BOOLEAN] /\ idles' \in [Trips -> Nat]
      /\ \/ idles'[t] # 0 /\ dial'[t] = dial[t]
         \/ dial[t] = "ready" /\ dial'[t] = "over" /\ reused'[t] = FALSE /\ idles'[t] = idles[t]
      /\ \A u \in Trips \ {t} : dial'[u] = dial[u] /\ reused'[u] = reused[u] /\ idles'[u] = idles[u]
  <2>1. /\ dial \in [Trips -> {"none", "dialing", "tls", "ready", "over"}]
        /\ reused \in [Trips -> BOOLEAN] /\ idles \in [Trips -> Nat]
    BY DEF HarInv, Shape
  <2>2. CASE idles' = [idles EXCEPT ![t] = @ + 1] /\ reused' = [reused EXCEPT ![t] = TRUE] /\ UNCHANGED dial
    BY <2>1, <2>2
  <2>3. CASE /\ dial[t] = "ready" /\ dial' = [dial EXCEPT ![t] = "over"]
             /\ reused' = [reused EXCEPT ![t] = FALSE] /\ UNCHANGED idles
    BY <2>1, <2>3
  <2>. QED BY <1>1, <2>2, <2>3
<1>4. Shape'
  BY <1>1, <1>2, <1>3 DEF HarInv, Shape, Places
<1>5. Logging'
  BY <1>1, LogKeeps DEF Apart, Places
<1>6. OfTrip(t)'
  <2>1. OfTrip(t)
    BY DEF HarInv
  <2>2. /\ clock[t] \in Nat
        /\ \A f \in Fields : stamp[t][f] \in Int /\ (stamp[t][f] = Zero \/ stamp[t][f] >= 0)
    BY Times DEF HarInv
  <2>3. Recording(t)' /\ Measured(t)'
    BY <1>1, <1>2, <2>1 DEF OfTrip, Recording, Measured, Recorded, Fields
  <2>4. Ordered(t)'
    BY <1>1, <1>2, <2>1, <2>2 DEF OfTrip, Ordered, Early, Answered, Recorded, Fields, Tick, Zero
  <2>5. stamp[t].tlsHandshakeEnd <= clock[t]
    BY <2>1 DEF OfTrip, Ordered, Fields
  <2>6. Secured(t)'
    BY <1>1, <1>2, <1>3, <2>1, <2>2, <2>5 DEF OfTrip, Secured, Early, Fields, Tick
  <2>. QED BY <2>3, <2>4, <2>6 DEF OfTrip
<1>. QED BY <1>1, <1>2, <1>3, <1>4, <1>5, <1>6, OthersKeep DEF HarInv, Alone

(* The dial in the background, at any time: what the entry says of a       *)
(* handshake that is not over yet is not covered by Measured.              *)
LEMMA DialedStep ==
  ASSUME HarInv, NEW t \in Trips, Dialed(t)
  PROVE  HarInv'
<1>1. /\ UNCHANGED <<shared, req, pc, reused, writing, idles, entry>>
      /\ \E d \in {"tls", "ready"} : dial' = [dial EXCEPT ![t] = d]
      /\ \/ /\ dial[t] = "dialing" /\ ~req[t].https /\ dial'[t] = "ready"
            /\ UNCHANGED <<clock, stamp>>
         \/ dial[t] = "dialing" /\ req[t].https /\ dial'[t] = "tls" /\ Hook(t, {"tlsHandshakeStart"})
         \/ dial[t] = "tls" /\ dial'[t] = "ready" /\ Hook(t, {"tlsHandshakeEnd"})
  BY DEF HarInv, Shape, Dialed
<1>2. /\ stamp' \in [Trips -> Stamps] /\ clock' \in [Trips -> Nat]
      /\ \A u \in Trips \ {t} : stamp'[u] = stamp[u] /\ clock'[u] = clock[u]
      /\ \A f \in Fields \ {"tlsHandshakeStart", "tlsHandshakeEnd"} : stamp'[t][f] = stamp[t][f]
      /\ \/ /\ ~req[t].https /\ clock'[t] = clock[t]
            /\ stamp'[t].tlsHandshakeStart = stamp[t].tlsHandshakeStart
            /\ stamp'[t].tlsHandshakeEnd = stamp[t].tlsHandshakeEnd
         \/ /\ dial[t] = "dialing" /\ req[t].https /\ clock'[t] = clock[t] + Tick
            /\ stamp'[t].tlsHandshakeStart = clock[t] + Tick
            /\ stamp'[t].tlsHandshakeEnd = stamp[t].tlsHandshakeEnd
         \/ /\ dial[t] = "tls" /\ clock'[t] = clock[t] + Tick
            /\ stamp'[t].tlsHandshakeStart = stamp[t].tlsHandshakeStart
            /\ stamp'[t].tlsHandshakeEnd = clock[t] + Tick
  <2>1. stamp \in [Trips -> Stamps] /\ clock \in [Trips -> Nat]
    BY DEF HarInv, Shape
  <2>2. CASE ~req[t].https /\ UNCHANGED <<clock, stamp>>
    BY <1>1, <2>1, <2>2
  <2>3. CASE dial[t] = "dialing" /\ req[t].https /\ Hook(t, {"tlsHandshakeStart"})
    BY <1>1, <2>1, <2>3, Hooked DEF Fields
  <2>4. CASE dial[t] = "tls" /\ Hook(t, {"tlsHandshakeEnd"})
    BY <1>1, <2>1, <2>4, Hooked DEF Fields
  <2>. QED BY <1>1, <2>2, <2>3, <2>4
<1>3. Shape'
  BY <1>1, <1>2 DEF HarInv, Shape
<1>4. Logging'
  BY <1>1, LogKeeps
<1>5. OfTrip(t)'
  <2>1. OfTrip(t)
    BY DEF HarInv
  <2>2. /\ clock[t] \in Nat
        /\ \A f \in Fields : stamp[t][f] \in Int /\ (stamp[t][f] = Zero \/ stamp[t][f] >= 0)
    BY Times DEF HarInv
  <2>3. Recording(t)'
    BY <1>1, <1>2, <2>1 DEF OfTrip, Recording, Fields
  <2>4. Ordered(t)'
    <3>1. \A f \in Fields : stamp'[t][f] <= clock'[t]
      BY <1>2, <2>1, <2>2 DEF OfTrip, Ordered, Fields, Tick
    <3>. QED BY <1>1, <1>2, <2>1, <3>1 DEF OfTrip, Ordered, Early, Answered, Recorded, Fields
  <2>5. Secured(t)'
    <3>1. stamp[t].tlsHandshakeStart <= clock[t] /\ stamp[t].connStart <= clock[t]
      BY <2>1 DEF OfTrip, Ordered, Fields
    <3>. QED BY <1>1, <1>2, <2>1, <2>2, <3>1 DEF OfTrip, Secured, Early, Fields, Tick, Zero
  <2>6. Measured(t)'
    BY <1>1, <1>2, <2>1 DEF OfTrip, Measured, Secured, Recorded, Fields, Ssl
  <2>. QED BY <2>3, <2>4, <2>5, <2>6 DEF OfTrip
<1>. QED BY <1>1, <1>2, <1>3, <1>4, <1>5, OthersKeep DEF HarInv, Alone, Shape

(* The writer, which may be late. *)
LEMMA WroteStep ==
  ASSUME HarInv, NEW t \in Trips, WroteRequest(t)
  PROVE  HarInv'
<1>1. /\ UNCHANGED <<shared, req, pc, dial, reused, idles, entry>> /\ Hook(t, {"writeRequest"})
      /\ writing' = [writing EXCEPT ![t] = FALSE]
  BY DEF WroteRequest
<1>2. /\ stamp' \in [Trips -> Stamps] /\ clock' \in [Trips -> Nat] /\ clock'[t] = clock[t] + Tick
      /\ \A f \in Fields : stamp'[t][f] = IF f = "writeRequest" THEN clock[t] + Tick ELSE stamp[t][f]
      /\ \A u \in Trips \ {t} : stamp'[u] = stamp[u] /\ clock'[u] = clock[u]
  BY <1>1, Hooked DEF HarInv, Shape
<1>3. Shape'
  BY <1>1, <1>2 DEF HarInv, Shape
<1>4. Logging'
  BY <1>1, LogKeeps
<1>5. OfTrip(t)'
  <2>1. OfTrip(t)
    BY DEF HarInv
  <2>2. /\ clock[t] \in Nat
        /\ \A f \in Fields : stamp[t][f] \in Int /\ (stamp[t][f] = Zero \/ stamp[t][f] >= 0)
    BY Times DEF HarInv
  <2>3. Recording(t)' /\ Secured(t)'
    BY <1>1, <1>2, <2>1 DEF OfTrip, Recording, Secured, Early, Fields
  <2>4. Ordered(t)'
    BY <1>1, <1>2, <2>1, <2>2 DEF OfTrip, Ordered, Early, Answered, Recorded, Fields, Tick, Zero
  <2>5. Measured(t)'
    <3>1. Recorded(t) => stamp[t].endAt <= clock[t]
      BY <2>1 DEF OfTrip, Ordered, Fields
    <3>. QED BY <1>1, <1>2, <2>1, <2>2, <3>1 DEF OfTrip, Measured, Recorded, Fields, Tick, Ssl
  <2>. QED BY <2>3, <2>4, <2>5 DEF OfTrip
<1>. QED BY <1>1, <1>2, <1>3, <1>4, <1>5, OthersKeep DEF HarInv, Alone

LEMMA FirstByteStep ==
  ASSUME HarInv, NEW t \in Trips, GotFirstResponseByte(t)
  PROVE  HarInv'
<1>1. /\ UNCHANGED <<shared, req, dial, reused, writing, idles, entry>> /\ Hook(t, {"firstResponseByte"})
      /\ pc \in [Trips -> Places] /\ pc[t] = "conn" /\ pc' = [pc EXCEPT ![t] = "response"]
  BY DEF HarInv, Shape, GotFirstResponseByte, Go, wire
<1>2. /\ stamp' \in [Trips -> Stamps] /\ clock' \in [Trips -> Nat] /\ clock'[t] = clock[t] + Tick
      /\ \A f \in Fields : stamp'[t][f] = IF f = "firstResponseByte" THEN clock[t] + Tick ELSE stamp[t][f]
      /\ \A u \in Trips \ {t} : stamp'[u] = stamp[u] /\ clock'[u] = clock[u]
  BY <1>1, Hooked DEF HarInv, Shape
<1>3. Shape'
  BY <1>1, <1>2 DEF HarInv, Shape, Places
<1>4. Logging'
  BY <1>1, LogKeeps DEF Apart, Places
<1>5. OfTrip(t)'
  <2>1. OfTrip(t)
    BY DEF HarInv
  <2>2. /\ clock[t] \in Nat
        /\ \A f \in Fields : stamp[t][f] \in Int /\ (stamp[t][f] = Zero \/ stamp[t][f] >= 0)
    BY Times DEF HarInv
  <2>3. Recording(t)' /\ Secured(t)' /\ Measured(t)'
    BY <1>1, <1>2, <2>1, <2>2 DEF OfTrip, Recording, Secured, Measured, Early, Recorded, Fields, Tick, Zero
  <2>4. Ordered(t)'
    BY <1>1, <1>2, <2>1, <2>2 DEF OfTrip, Ordered, Early, Answered, Recorded, Fields, Tick, Zero
  <2>. QED BY <2>3, <2>4 DEF OfTrip
<1>. QED BY <1>1, <1>2, <1>3, <1>4, <1>5, OthersKeep DEF HarInv, Alone

(* A second attempt comes only after an idle connection. *)
LEMMA RetryStep ==
  ASSUME HarInv, NEW t \in Trips, Retry(t)
  PROVE  HarInv'
<1>1. /\ UNCHANGED <<shared, req, clock, stamp, dial, reused, idles, entry>>
      /\ writing' = [writing EXCEPT ![t] = FALSE]
      /\ pc \in [Trips -> Places] /\ pc[t] = "conn" /\ pc' = [pc EXCEPT ![t] = "get"]
      /\ reused[t]
  BY DEF HarInv, Shape, Retry, Go
<1>2. Shape'
  BY <1>1 DEF HarInv, Shape, Places
<1>3. Logging'
  BY <1>1, LogKeeps DEF Apart, Places
<1>4. OfTrip(t)'
  <2>1. OfTrip(t)
    BY DEF HarInv
  <2>. QED BY <1>1, <2>1 DEF OfTrip, Recording, Ordered, Secured, Measured, Early, Answered, Recorded
<1>. QED BY <1>1, <1>2, <1>3, <1>4, OthersKeep DEF HarInv, Alone

(* The timings are made of the times as they are then. *)
LEMMA UpdateStep ==
  ASSUME HarInv, NEW t \in Trips, Update(t)
  PROVE  HarInv'
<1>. DEFINE end == clock[t] + Tick
            times == TimingsOf(stamp[t], end)
            e == [entry[t] EXCEPT !.timings = times]
<1>1. /\ UNCHANGED <<shared, req, dial, reused, writing, idles>> /\ Hook(t, {"endAt"})
      /\ pc \in [Trips -> Places] /\ pc[t] = "timings" /\ pc' = [pc EXCEPT ![t] = "append"]
      /\ entry' = [entry EXCEPT ![t] = e]
  BY DEF HarInv, Shape, Update, Go, wire
<1>2. /\ stamp' \in [Trips -> Stamps] /\ clock' \in [Trips -> Nat] /\ clock'[t] = end
      /\ \A f \in Fields : stamp'[t][f] = IF f = "endAt" THEN end ELSE stamp[t][f]
      /\ \A u \in Trips \ {t} : stamp'[u] = stamp[u] /\ clock'[u] = clock[u]
  BY <1>1, Hooked DEF HarInv, Shape
<1>3. OfTrip(t) /\ entry[t] \in Entries /\ entry \in [Trips -> Entries]
  BY DEF HarInv, Shape
<1>4. /\ clock[t] \in Nat /\ end \in Nat
      /\ \A f \in Fields : stamp[t][f] \in Int /\ (stamp[t][f] = Zero \/ stamp[t][f] >= 0)
  BY Times DEF HarInv, Tick
<1>5. times \in Durations
  BY <1>4 DEF TimingsOf, Durations, Send, Ssl, Fields
<1>6. stamp[t].connStart # Zero /\ stamp[t].firstResponseByte <= clock[t]
  BY <1>1, <1>3 DEF OfTrip, Ordered, Early, Fields
<1>7. /\ times.Time = end - stamp[t].startAt /\ times.Blocked = stamp[t].startAt - stamp[t].connStart
      /\ times.Connect = stamp[t].connObtained - stamp[t].connStart
      /\ times.Receive = end - stamp[t].firstResponseByte
      /\ times.Send = stamp[t].writeRequest - stamp[t].connObtained
      /\ times.Wait = stamp[t].firstResponseByte - stamp[t].writeRequest
      /\ times.SSL = Ssl(stamp[t])
  BY <1>6 DEF TimingsOf, Send
<1>8. e \in Entries /\ e.timings = times /\ e.request = entry[t].request /\ e.response = entry[t].response
  <2>. HIDE DEF times
  <2>. QED BY <1>3, <1>5 DEF Entries
<1>. HIDE DEF times, e
<1>9. entry' \in [Trips -> Entries] /\ entry'[t] = e /\ \A u \in Trips \ {t} : entry'[u] = entry[u]
  BY <1>1, <1>3, <1>8
<1>10. Shape'
  BY <1>1, <1>2, <1>9 DEF HarInv, Shape, Places
<1>11. Logging'
  BY <1>1, LogKeeps DEF Apart, Places
<1>12. OfTrip(t)'
  <2>1. Recording(t)' /\ Secured(t)'
    BY <1>1, <1>2, <1>3, <1>8, <1>9 DEF OfTrip, Recording, Secured, Early, Fields
  <2>2. Ordered(t)'
    BY <1>1, <1>2, <1>3, <1>4, <1>6 DEF OfTrip, Ordered, Early, Answered, Recorded, Fields, Tick, Zero
  <2>3. Measured(t)'
    BY <1>1, <1>2, <1>7, <1>8, <1>9 DEF Measured, Recorded, Fields, Ssl
  <2>. QED BY <2>1, <2>2, <2>3 DEF OfTrip
<1>. QED BY <1>1, <1>2, <1>9, <1>10, <1>11, <1>12, OthersKeep DEF HarInv, Alone

-----------------------------------------------------------------------------
(* An entry more, and still each once. *)
LEMMA Appended ==
  ASSUME NEW S, NEW s \in Seq(S), NEW x \in S, x \notin ToSet(s), IsInjective(s)
  PROVE  /\ Append(s, x) \in Seq(S)
         /\ ToSet(Append(s, x)) = ToSet(s) \cup {x}
         /\ IsInjective(Append(s, x))
<1>. DEFINE r == Append(s, x)
<1>1. /\ r \in Seq(S) /\ Len(s) \in Nat /\ Len(r) = Len(s) + 1 /\ r[Len(r)] = x
      /\ \A i \in 1 .. Len(s) : r[i] = s[i]
      /\ DOMAIN r = 1 .. Len(r) /\ DOMAIN s = 1 .. Len(s)
  OBVIOUS
<1>. HIDE DEF r
<1>2. ToSet(r) = ToSet(s) \cup {x}
  BY <1>1 DEF ToSet
<1>3. IsInjective(r)
  <2>1. \A i \in 1 .. Len(s) : s[i] # x
    BY <1>1 DEF ToSet
  <2>. QED BY <1>1, <2>1 DEF IsInjective
<1>. QED BY <1>1, <1>2, <1>3 DEF r

(* The append, in the critical section. *)
LEMMA LockStep ==
  ASSUME HarInv, NEW t \in Trips, LockLog(t)
  PROVE  HarInv'
<1>1. /\ UNCHANGED <<req, clock, stamp, dial, reused, writing, idles, entry, made, log>>
      /\ mutex = Nobody /\ mutex' = t /\ seen' = [seen EXCEPT ![t] = log]
      /\ pc \in [Trips -> Places] /\ pc[t] = "append" /\ pc' = [pc EXCEPT ![t] = "appending"]
  BY DEF HarInv, Shape, LockLog, MayLock, Go, own, wire
<1>2. Shape'
  BY <1>1 DEF HarInv, Shape, Places
<1>3. Logging'
  BY <1>1, NobodyAssumption DEF HarInv, Logging
<1>4. OfTrip(t)'
  <2>1. OfTrip(t)
    BY DEF HarInv
  <2>. QED BY <1>1, <2>1 DEF OfTrip, Recording, Ordered, Secured, Measured, Early, Answered, Recorded
<1>. QED BY <1>1, <1>2, <1>3, <1>4, OthersKeep DEF HarInv, Alone

LEMMA UnlockStep ==
  ASSUME HarInv, NEW t \in Trips, UnlockLog(t)
  PROVE  HarInv'
<1>1. /\ UNCHANGED <<req, clock, stamp, dial, reused, writing, idles, entry, made, seen>>
      /\ mutex' = Nobody /\ log' = Append(seen[t], t)
      /\ pc \in [Trips -> Places] /\ pc[t] = "appending" /\ pc' = [pc EXCEPT ![t] = "returned"]
  BY DEF HarInv, Shape, UnlockLog, Release, Go, own, wire
<1>2. Shape'
  BY <1>1 DEF HarInv, Shape, Places
<1>3. Logging'
  <2>1. /\ mutex = t /\ seen[t] = log /\ made = TRUE /\ log \in Seq(Trips) /\ t \notin ToSet(log)
        /\ IsInjective(log)
    BY <1>1 DEF HarInv, Logging
  <2>2. log' \in Seq(Trips) /\ ToSet(log') = ToSet(log) \cup {t} /\ IsInjective(log')
    BY <1>1, <2>1, Appended
  <2>. QED BY <1>1, <2>1, <2>2, NobodyAssumption DEF HarInv, Logging
<1>4. OfTrip(t)'
  <2>1. OfTrip(t)
    BY DEF HarInv
  <2>. QED BY <1>1, <2>1 DEF OfTrip, Recording, Ordered, Secured, Measured, Early, Answered, Recorded
<1>. QED BY <1>1, <1>2, <1>3, <1>4, OthersKeep DEF HarInv, Alone

LEMMA NextHolds == HarInv /\ [Next]_vars => HarInv'
<1>. SUFFICES ASSUME HarInv, [Next]_vars PROVE HarInv'
  OBVIOUS
<1>1. CASE UNCHANGED vars
  <2>1. UNCHANGED <<req, pc, clock, stamp, dial, reused, writing, idles, entry, made, log, seen, mutex>>
    BY <1>1 DEF vars, own, wire, shared
  <2>2. Shape' /\ Logging'
    BY <2>1 DEF HarInv, Shape, Logging
  <2>3. ASSUME NEW t \in Trips PROVE OfTrip(t)'
    <3>1. OfTrip(t)
      BY DEF HarInv
    <3>. QED BY <2>1, <3>1 DEF OfTrip, Recording, Ordered, Secured, Measured, Early, Answered, Recorded
  <2>. QED BY <2>2, <2>3 DEF HarInv
<1>2. ASSUME NEW t \in Trips, RoundTrip(t) PROVE HarInv'
  BY <1>2, PlaceStep, EntryStep, StartStep, UpdateStep, LockStep, UnlockStep DEF RoundTrip
<1>3. ASSUME NEW t \in Trips, Transport(t) PROVE HarInv'
  BY <1>3, PlaceStep, GetConnStep, GotConnStep, DialedStep, WroteStep, FirstByteStep, RetryStep
     DEF Transport
<1>. QED BY <1>1, <1>2, <1>3 DEF Next

-----------------------------------------------------------------------------
(* Type correctness, with who holds the mutex and what an entry may have.  *)
THEOREM TypeCorrect == Spec => []TypeOK
<1>1. HarInv => TypeOK
  <2>. SUFFICES ASSUME HarInv PROVE TypeOK
    OBVIOUS
  <2>1. \A t \in Trips : (mutex = t) = (pc[t] = "appending")
    BY DEF HarInv, Logging
  <2>2. ASSUME NEW t \in Trips
        PROVE  /\ req[t] \in Requests[t] /\ dial[t] \in {"none", "dialing", "tls", "ready", "over"}
               /\ Recorded(t) => entry[t].request = req[t].recordable
               /\ entry[t].response => stamp[t].firstResponseByte # Zero
    <3>1. Recording(t)
      BY DEF HarInv, OfTrip
    <3>. QED BY <3>1 DEF HarInv, Shape, Recording, Recorded
  <2>3. mutex \in Trips \cup {Nobody}
    BY DEF HarInv, Logging
  <2>. QED BY <2>1, <2>2, <2>3 DEF TypeOK
<1>. QED BY <1>1, InitHolds, NextHolds, PTL DEF Spec

(* However the first trips race to make the log and the last ones to       *)
(* append, round_tripper.go:27-45 and 66-71 lose and double no entry.      *)
THEOREM NoEntryLost == Spec => []NoneLost
<1>1. HarInv => NoneLost
  BY DEF HarInv, Logging, NoneLost
<1>. QED BY <1>1, InitHolds, NextHolds, PTL DEF Spec

(* The phases of update.go:15-26 add up, whatever hooks came late.         *)
THEOREM PhasesFit == Spec => []PhasesAddUp
<1>1. HarInv => PhasesAddUp
  <2>. SUFFICES ASSUME HarInv, NEW t \in Trips, Recorded(t),
                       stamp[t].connObtained < stamp[t].writeRequest,
                       stamp[t].writeRequest < stamp[t].firstResponseByte,
                       stamp[t].firstResponseByte < stamp[t].endAt
                PROVE  /\ \A phase \in {"Connect", "Send", "Wait", "Receive"} :
                            entry[t].timings[phase] \in 0 .. entry[t].timings.Time
                       /\ entry[t].timings.Connect + entry[t].timings.Send + entry[t].timings.Wait
                            + entry[t].timings.Receive = entry[t].timings.Time + entry[t].timings.Blocked
    BY DEF PhasesAddUp
  <2>1. Ordered(t) /\ Measured(t)
    BY DEF HarInv, OfTrip
  <2>2. \A f \in Fields : stamp[t][f] \in Int /\ (stamp[t][f] = Zero \/ stamp[t][f] >= 0)
    BY Times DEF HarInv
  <2>3. /\ stamp[t].startAt <= stamp[t].connStart /\ stamp[t].connStart <= stamp[t].connObtained
        /\ stamp[t].firstResponseByte # Zero
    BY <2>1, <2>2 DEF Ordered, Recorded, Early, Fields, Zero
  <2>4. stamp[t].writeRequest <= stamp[t].endAt
    BY <2>2 DEF Fields
  <2>. QED BY <2>1, <2>2, <2>3, <2>4 DEF Measured, Fields
<1>. QED BY <1>1, InitHolds, NextHolds, PTL DEF Spec

(* The TLS phase of update.go:15-26 is that of the trip's own connection.  *)
THEOREM HandshakeFits == Spec => []SslWithinConnect
<1>1. HarInv => SslWithinConnect
  <2>. SUFFICES ASSUME HarInv, NEW t \in Trips, Recorded(t)
                PROVE  /\ ~req[t].https => entry[t].timings.SSL = -1
                       /\ req[t].https /\ dial[t] = "over" /\ idles[t] = 0 =>
                            entry[t].timings.SSL \in 0 .. entry[t].timings.Connect
    BY DEF SslWithinConnect
  <2>1. Ordered(t) /\ Secured(t) /\ Measured(t)
    BY DEF HarInv, OfTrip
  <2>2. \A f \in Fields : stamp[t][f] \in Int /\ (stamp[t][f] = Zero \/ stamp[t][f] >= 0)
    BY Times DEF HarInv
  <2>. QED BY <2>1, <2>2 DEF Secured, Measured, Ssl, Fields
<1>. QED BY <1>1, InitHolds, NextHolds, PTL DEF Spec
=============================================================================
