------------------------------- MODULE HarLog -------------------------------
(***************************************************************************)
(* The HAR middleware (pkg/harlog): concurrent RoundTrips, each of which   *)
(* fills an entry and appends it to one log that the first of them makes,  *)
(* and the hooks of httptrace, which the transport's goroutines call       *)
(* before, during and after the trip they belong to.  http.Transport is    *)
(* external.  Each trip has a clock that its own events advance; only      *)
(* differences are used.                                                   *)
(***************************************************************************)
EXTENDS Integers, Sequences, SequencesExt

CONSTANTS
  Trips,    \* the calls of RoundTrip
  Requests, \* per trip: the requests it may be about
  Nobody,   \* holder of the free mutex
  MaxIdle   \* bound, per trip: idle connections it may get

ASSUME RequestsAssumption ==
  \A t \in Trips : \A r \in Requests[t] : r.https \in BOOLEAN /\ r.recordable \in BOOLEAN
ASSUME NobodyAssumption == Nobody \notin Trips
ASSUME IdleAssumption == MaxIdle \in [Trips -> Nat]

VARIABLES
  req,     \* per trip: the request
  pc,      \* where RoundTrip is, with the transport's part of it
  clock,
  stamp,   \* the TimingTrace
  dial,    \* background dial: "none", "dialing", "tls", "ready", "over"
  reused,  \* whether the trip got an idle connection
  writing, \* whether the connection's writer is at the request
  idles,   \* idle connections obtained
  entry,   \* its HAR entry
  made,    \* whether h.har is there
  log,     \* h.har.Log.Entries, as trips
  seen,    \* per trip: the log that its append started from
  mutex

shared == <<made, log, seen, mutex>>
wire == <<dial, reused, writing, idles>>
own == <<req, pc, clock, stamp, wire, entry>>
vars == <<own, shared>>

(* Times and durations are in nanoseconds, of which an event takes Tick; a *)
(* millisecond is what types.go divides by.  Neither matters otherwise.    *)
Tick == 2
Millisecond == 1000
Zero == -1000000  \* the zero time.Time, before all others
Unset == [startAt |-> Zero, connStart |-> Zero, connObtained |-> Zero, writeRequest |-> Zero,
          firstResponseByte |-> Zero, tlsHandshakeStart |-> Zero, tlsHandshakeEnd |-> Zero, endAt |-> Zero]
NoTimings == [Time |-> 0, Blocked |-> 0, DNS |-> 0, Connect |-> 0, Send |-> 0, Wait |-> 0, Receive |-> 0, SSL |-> 0]

Init ==
  /\ req \in {f \in [Trips -> UNION {Requests[t] : t \in Trips}] : \A t \in Trips : f[t] \in Requests[t]}
  /\ pc = [t \in Trips |-> "init"] /\ clock = [t \in Trips |-> 0]
  /\ stamp = [t \in Trips |-> Unset]
  /\ dial = [t \in Trips |-> "none"] /\ reused = [t \in Trips |-> FALSE]
  /\ writing = [t \in Trips |-> FALSE] /\ idles = [t \in Trips |-> 0]
  /\ entry = [t \in Trips |-> [request |-> FALSE, response |-> FALSE, timings |-> NoTimings]]
  /\ made = FALSE /\ log = <<>> /\ seen = [t \in Trips |-> <<>>] /\ mutex = Nobody

-----------------------------------------------------------------------------
(* "Bad" variants are the following definition with a plausible bug.       *)

Go(t, from, to) == pc[t] = from /\ pc' = [pc EXCEPT ![t] = to]

(* The tracer: a hook stores the time in its field. *)
Hook(t, fields) ==
  /\ clock' = [clock EXCEPT ![t] = @ + Tick]
  /\ stamp' = [stamp EXCEPT ![t] = [f \in DOMAIN @ |-> IF f \in fields THEN clock[t] + Tick ELSE @[f]]]

(* init: looks, locks, looks again and makes the log. *)
SkipInit(t) ==
  /\ made /\ Go(t, "init", "request")
  /\ UNCHANGED <<shared, req, clock, stamp, wire, entry>>
LookInit(t) ==
  /\ ~made /\ Go(t, "init", "making")
  /\ UNCHANGED <<shared, req, clock, stamp, wire, entry>>

BadMake == made' = TRUE /\ log' = <<>>
Make == made' = TRUE /\ log' = IF made THEN log ELSE <<>>
LockedInit(t) ==
  /\ mutex = Nobody /\ Go(t, "making", "request") /\ Make
  /\ UNCHANGED <<seen, mutex, req, clock, stamp, wire, entry>>

(* preRoundTrip: its errors (a body that breaks off, multipart data        *)
(* without a boundary) are reported and ignored.  What the transport gets  *)
(* of the body is in HttpProxy.                                            *)
UpdateEntryWithRequest(e, r) == [e EXCEPT !.request = r.recordable]
PreRoundTrip(t) ==
  /\ Go(t, "request", "trip")
  /\ entry' = [entry EXCEPT ![t] = UpdateEntryWithRequest(@, req[t])]
  /\ UNCHANGED <<shared, req, clock, stamp, wire>>

Start(t) ==
  /\ Go(t, "trip", "get") /\ Hook(t, {"startAt"})
  /\ UNCHANGED <<shared, req, wire, entry>>

-----------------------------------------------------------------------------
(* The transport.  It takes an idle connection, or dials and waits for     *)
(* either; the dial that is not needed goes on behind the trip's back,     *)
(* its hooks with it.                                                      *)
GetConn(t) ==
  /\ Go(t, "get", "waiting") /\ Hook(t, {"connStart"})
  /\ \/ dial' = [dial EXCEPT ![t] = IF @ = "none" THEN "dialing" ELSE @]
     \/ idles[t] < MaxIdle[t] /\ UNCHANGED dial
  /\ UNCHANGED <<shared, req, reused, writing, idles, entry>>

GotConn(t) ==
  /\ Go(t, "waiting", "conn") /\ Hook(t, {"connObtained"})
  /\ writing' = [writing EXCEPT ![t] = TRUE]
  /\ \/ /\ idles[t] < MaxIdle[t] /\ idles' = [idles EXCEPT ![t] = @ + 1]
        /\ reused' = [reused EXCEPT ![t] = TRUE] /\ UNCHANGED dial
     \/ /\ dial[t] = "ready" /\ dial' = [dial EXCEPT ![t] = "over"]
        /\ reused' = [reused EXCEPT ![t] = FALSE] /\ UNCHANGED idles
  /\ UNCHANGED <<shared, req, entry>>

Dialed(t) ==
  /\ \/ dial[t] = "dialing" /\ ~req[t].https /\ dial' = [dial EXCEPT ![t] = "ready"] /\ UNCHANGED <<clock, stamp>>
     \/ dial[t] = "dialing" /\ req[t].https /\ dial' = [dial EXCEPT ![t] = "tls"] /\ Hook(t, {"tlsHandshakeStart"})
     \/ dial[t] = "tls" /\ dial' = [dial EXCEPT ![t] = "ready"] /\ Hook(t, {"tlsHandshakeEnd"})
  /\ UNCHANGED <<shared, req, pc, reused, writing, idles, entry>>

WroteRequest(t) ==
  /\ writing[t] /\ writing' = [writing EXCEPT ![t] = FALSE] /\ Hook(t, {"writeRequest"})
  /\ UNCHANGED <<shared, req, pc, dial, reused, idles, entry>>

GotFirstResponseByte(t) ==
  /\ Go(t, "conn", "response") /\ Hook(t, {"firstResponseByte"})
  /\ UNCHANGED <<shared, req, wire, entry>>

(* An idle connection that turns out to be closed is replaced, once the    *)
(* writer has given up; other failures end the trip.                       *)
Retry(t) ==
  /\ reused[t] /\ Go(t, "conn", "get")
  /\ writing' = [writing EXCEPT ![t] = FALSE]
  /\ UNCHANGED <<shared, req, clock, stamp, dial, reused, idles, entry>>

TripFails(t) ==
  /\ Go(t, "conn", "timings") \/ Go(t, "waiting", "timings")
  /\ UNCHANGED <<shared, req, clock, stamp, wire, entry>>

-----------------------------------------------------------------------------
(* postRoundTrip: without an entry for a response that breaks off. *)
UpdateEntryWithResponse(e) == [e EXCEPT !.response = TRUE]
PostRoundTrip(t) ==
  /\ Go(t, "response", "timings")
  /\ UNCHANGED entry \/ entry' = [entry EXCEPT ![t] = UpdateEntryWithResponse(@)]
  /\ UNCHANGED <<shared, req, clock, stamp, wire>>

(* UpdateEntryWithTimings, DNS left out: the dialer does not pass the      *)
(* context on, so that its hooks are never called.                         *)
BadSend(s) == s.writeRequest - s.connStart
Send(s) == s.writeRequest - s.connObtained
BadSsl(s) == s.tlsHandshakeEnd - s.tlsHandshakeStart
Ssl(s) == IF s.tlsHandshakeStart = Zero THEN -1 ELSE s.tlsHandshakeEnd - s.tlsHandshakeStart
TimingsOf(s, end) ==
  [Time |-> end - s.startAt, Blocked |-> s.startAt - s.connStart, DNS |-> -1,
   Connect |-> IF s.connStart = Zero THEN -1 ELSE s.connObtained - s.connStart,
   Send |-> Send(s), Wait |-> s.firstResponseByte - s.writeRequest,
   Receive |-> end - s.firstResponseByte, SSL |-> Ssl(s)]

Update(t) ==
  /\ Go(t, "timings", "append") /\ Hook(t, {"endAt"})
  /\ entry' = [entry EXCEPT ![t].timings = TimingsOf(stamp[t], clock[t] + Tick)]
  /\ UNCHANGED <<shared, req, wire>>

(* The deferred append, in two steps with the mutex held. *)
BadMayLock == TRUE
MayLock == mutex = Nobody
LockLog(t) ==
  /\ MayLock /\ Go(t, "append", "appending")
  /\ mutex' = t /\ seen' = [seen EXCEPT ![t] = log]
  /\ UNCHANGED <<made, log, req, clock, stamp, wire, entry>>
BadRelease == UNCHANGED mutex
Release == mutex' = Nobody
UnlockLog(t) ==
  /\ Go(t, "appending", "returned")
  /\ log' = Append(seen[t], t) /\ Release
  /\ UNCHANGED <<made, seen, req, clock, stamp, wire, entry>>

RoundTrip(t) ==
  SkipInit(t) \/ LookInit(t) \/ LockedInit(t) \/ PreRoundTrip(t) \/ Start(t)
  \/ PostRoundTrip(t) \/ Update(t) \/ LockLog(t) \/ UnlockLog(t)
Transport(t) ==
  GetConn(t) \/ GotConn(t) \/ Dialed(t) \/ WroteRequest(t) \/ GotFirstResponseByte(t)
  \/ Retry(t) \/ TripFails(t)

Next == \E t \in Trips : RoundTrip(t) \/ Transport(t)
Spec == Init /\ [][Next]_vars /\ \A t \in Trips : WF_vars(RoundTrip(t)) /\ WF_vars(Transport(t))

-----------------------------------------------------------------------------
Recorded(t) == pc[t] \in {"append", "appending", "returned"}

(* Requests are given ones, who appends holds the mutex, an entry has a    *)
(* request exactly if there was one to record, and a response only if one  *)
(* began.                                                                  *)
TypeOK ==
  /\ \A t \in Trips : req[t] \in Requests[t] /\ dial[t] \in {"none", "dialing", "tls", "ready", "over"}
  /\ mutex \in Trips \cup {Nobody}
  /\ \A t \in Trips : (mutex = t) = (pc[t] = "appending")
  /\ \A t \in Trips : Recorded(t) => entry[t].request = req[t].recordable
  /\ \A t \in Trips : entry[t].response => stamp[t].firstResponseByte # Zero

(* Every RoundTrip that has returned has exactly one entry in the log,     *)
(* whichever of them made the log and however their appends meet:          *)
(* round_tripper.go:27-45, 66-71.                                          *)
NoneLost ==
  /\ \A t \in Trips : pc[t] = "returned" => t \in ToSet(log)
  /\ IsInjective(log)

(* When the request was written before the response began, the phases are  *)
(* neither negative nor longer than the call, and add up to it; the entry  *)
(* has no room for the time before GetConn but Blocked, which is minus     *)
(* that: update.go:15-26.  After an early response or a failure they may   *)
(* be anything.                                                            *)
PhasesAddUp ==
  \A t \in Trips : LET m == entry[t].timings s == stamp[t] IN
    Recorded(t) /\ s.connObtained < s.writeRequest /\ s.writeRequest < s.firstResponseByte
      /\ s.firstResponseByte < s.endAt =>
        /\ \A phase \in {"Connect", "Send", "Wait", "Receive"} : m[phase] \in 0 .. m.Time
        /\ m.Connect + m.Send + m.Wait + m.Receive = m.Time + m.Blocked

(* The TLS phase lies within Connect when the trip used the connection it  *)
(* dialed itself at its first attempt, and does not apply when the scheme  *)
(* is http.  (If an idle connection came first, the handshake of the dial  *)
(* behind its back may end after the entry is made.)                       *)
SslWithinConnect ==
  \A t \in Trips : Recorded(t) =>
    /\ ~req[t].https => entry[t].timings.SSL = -1
    /\ req[t].https /\ dial[t] = "over" /\ idles[t] = 0 =>
         entry[t].timings.SSL \in 0 .. entry[t].timings.Connect

(* types.go:319-331 of the optional phases: "Use -1 if the timing does not *)
(* apply to the current request", and of all durations: milliseconds.  So  *)
(* each is written as no less than 0, or as -1.                            *)
WrittenAs(d, ms) == d = ms * Millisecond
OptionalPhases ==
  \A t \in Trips : Recorded(t) => \A phase \in {"Blocked", "DNS", "Connect", "SSL"} :
    entry[t].timings[phase] >= 0 \/ WrittenAs(entry[t].timings[phase], -1)

(* RoundTrip returns and the log gets its entry if the transport and the   *)
(* response's body come to an end.                                         *)
TripsReturn == \A t \in Trips : <>(pc[t] = "returned")
=============================================================================
