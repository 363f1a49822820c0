------------------------------ MODULE CallLog -------------------------------
(***************************************************************************)
(* The log of HTTP calls and its listeners (http.go:44-86): httpCalls and  *)
(* httpListeners under httpMu, and one buffered channel per listener.      *)
(* Producers are the proxy's connection handlers, each completing a call;  *)
(* consumers are the console printer of main and the web UI's requests for *)
(* /api/calls (httptap.go:449-539).                                        *)
(*                                                                         *)
(* notifyHTTP sends on the channels while it holds httpMu, one channel     *)
(* after the other, and waits where a channel is full: each send is a step *)
(* here.  listenHTTP and finishHTTP never wait once they hold the lock and *)
(* are one step each.                                                      *)
(***************************************************************************)
EXTENDS Naturals, Sequences

CONSTANTS
  Handlers,  \* proxy handlers; each completes one call, named after it
  Console,   \* the listener that prints, registered before the proxy runs
  Watchers,  \* requests for /api/calls
  Leavers,   \* the watchers whose client may disconnect
  Cap,       \* capacity of a listener's channel: 128
  MayFinish, \* whether finishHTTP may be called; httptap itself never does
  Free       \* httpMu's holder when nobody holds it

Listeners == {Console} \cup Watchers

ASSUME ListenersAssumption == Console \notin Watchers /\ Leavers \subseteq Watchers
ASSUME CapAssumption == Cap \in Nat \ {0}
ASSUME FinishAssumption == MayFinish \in BOOLEAN
ASSUME FreeAssumption == Free \notin Handlers

VARIABLES
  httpMu,        \* the handler holding the mutex in notifyHTTP, or Free
  httpCalls,     \* the log
  httpListeners, \* the listeners, in order of registration
  chan,          \* per listener: its channel's contents
  closed,        \* the listeners whose channel is closed
  pc,            \* per handler: where it is
  next,          \* notifyHTTP's loop: index of the next listener to send to
  at,            \* per listener: "absent", "listening", "gone" or "ended"
  inbox          \* per listener: the history it was given and what it received

vars == <<httpMu, httpCalls, httpListeners, chan, closed, pc, next, at, inbox>>

Init ==
  /\ httpMu = Free
  /\ httpCalls = <<>>
  /\ httpListeners = <<Console>>
  /\ chan = [l \in Listeners |-> <<>>]
  /\ closed = {}
  /\ pc = [h \in Handlers |-> "working"]
  /\ next = 1
  /\ at = [l \in Listeners |-> IF l = Console THEN "listening" ELSE "absent"]
  /\ inbox = [l \in Listeners |-> <<>>]

-----------------------------------------------------------------------------
(* "Bad" variants are the following definition with a plausible bug; see   *)
(* TcpStack.                                                               *)

(* The history listenHTTP returns. *)
BadHistory == IF httpCalls = <<>> THEN <<>> ELSE Tail(httpCalls)
History == httpCalls

(* Where the loop over the listeners starts. *)
BadFirst == 2
BadStart == 0
First == 1

(* Whether a send to l can proceed. *)
CanSend(l) == Len(chan[l]) < Cap

(* What a receive takes from a channel, and what it leaves. *)
BadRest(q) == <<>>
Rest(q) == Tail(q)

(* When a range loop over a channel ends. *)
Ends(l) == l \in closed /\ chan[l] = <<>>

(* The channels finishHTTP closes. *)
ToClose == {httpListeners[i] : i \in 1 .. Len(httpListeners)}

-----------------------------------------------------------------------------
(* A web UI request registers. *)
Listen(w) ==
  /\ httpMu = Free
  /\ at[w] = "absent"
  /\ httpListeners' = Append(httpListeners, w)
  /\ at' = [at EXCEPT ![w] = "listening"]
  /\ inbox' = [inbox EXCEPT ![w] = History]
  /\ UNCHANGED <<httpMu, httpCalls, chan, closed, pc, next>>

(* A handler has written its response and calls notifyHTTP ... *)
Complete(h) ==
  /\ pc[h] = "working"
  /\ pc' = [pc EXCEPT ![h] = "waiting"]
  /\ UNCHANGED <<httpMu, httpCalls, httpListeners, chan, closed, next, at, inbox>>

(* ... gets the lock and appends the call ... *)
Notify(h) ==
  /\ pc[h] = "waiting" /\ httpMu = Free
  /\ httpMu' = h
  /\ httpCalls' = Append(httpCalls, h)
  /\ next' = First
  /\ pc' = [pc EXCEPT ![h] = "sending"]
  /\ UNCHANGED <<httpListeners, chan, closed, at, inbox>>

(* ... sends it to the listeners, one after the other ... *)
Send(h) ==
  /\ pc[h] = "sending" /\ next <= Len(httpListeners)
  /\ httpListeners[next] \notin closed
  /\ CanSend(httpListeners[next])
  /\ chan' = [chan EXCEPT ![httpListeners[next]] = Append(@, h)]
  /\ next' = next + 1
  /\ UNCHANGED <<httpMu, httpCalls, httpListeners, closed, pc, at, inbox>>

(* ... where a send on a closed channel panics, with the deferred unlock   *)
(* still executed ...                                                      *)
Panic(h) ==
  /\ pc[h] = "sending" /\ next <= Len(httpListeners)
  /\ httpListeners[next] \in closed
  /\ httpMu' = Free
  /\ pc' = [pc EXCEPT ![h] = "panicked"]
  /\ UNCHANGED <<httpCalls, httpListeners, chan, closed, next, at, inbox>>

(* ... and returns. *)
Return(h) ==
  /\ pc[h] = "sending" /\ next > Len(httpListeners)
  /\ httpMu' = Free
  /\ pc' = [pc EXCEPT ![h] = "done"]
  /\ UNCHANGED <<httpCalls, httpListeners, chan, closed, next, at, inbox>>

Receive(l) ==
  /\ at[l] = "listening" /\ chan[l] # <<>>
  /\ inbox' = [inbox EXCEPT ![l] = Append(@, Head(chan[l]))]
  /\ chan' = [chan EXCEPT ![l] = Rest(@)]
  /\ UNCHANGED <<httpMu, httpCalls, httpListeners, closed, pc, next, at>>

(* The console's range loop ends with its channel.  (A watcher does not    *)
(* notice: it keeps receiving nil, which changes nothing here.)            *)
End ==
  /\ at[Console] = "listening" /\ Ends(Console)
  /\ at' = [at EXCEPT ![Console] = "ended"]
  /\ UNCHANGED <<httpMu, httpCalls, httpListeners, chan, closed, pc, next, inbox>>

(* The client of a watcher disconnects: the request's handler breaks out   *)
(* of its loop and stops receiving.  The listener stays registered.        *)
Leave(w) ==
  /\ at[w] = "listening"
  /\ at' = [at EXCEPT ![w] = "gone"]
  /\ UNCHANGED <<httpMu, httpCalls, httpListeners, chan, closed, pc, next, inbox>>

(* finishHTTP closes every channel.  Closing twice would panic: at most    *)
(* one call.                                                               *)
Finish ==
  /\ MayFinish /\ closed = {} /\ httpMu = Free
  /\ closed' = ToClose
  /\ UNCHANGED <<httpMu, httpCalls, httpListeners, chan, pc, next, at, inbox>>

NotifyStep(h) == Notify(h) \/ Send(h) \/ Panic(h) \/ Return(h)

Next ==
  \/ \E w \in Watchers : Listen(w)
  \/ \E h \in Handlers : Complete(h) \/ NotifyStep(h)
  \/ \E l \in Listeners : Receive(l)
  \/ End
  \/ \E w \in Leavers : Leave(w)
  \/ Finish

(* Goroutines that can run do: a handler inside notifyHTTP, the console,   *)
(* and a watcher that is still listening.  Nobody has to complete a call,  *)
(* to open or close the web UI, or to finish.                              *)
Fairness ==
  /\ \A h \in Handlers : WF_vars(NotifyStep(h))
  /\ \A l \in Listeners : WF_vars(Receive(l))
  /\ WF_vars(End)

Spec == Init /\ [][Next]_vars /\ Fairness

-----------------------------------------------------------------------------
TypeOK ==
  /\ httpMu \in Handlers \cup {Free}
  /\ httpCalls \in Seq(Handlers)
  /\ httpListeners \in Seq(Listeners)
  /\ chan \in [Listeners -> Seq(Handlers)]
  /\ closed \subseteq Listeners
  /\ pc \in [Handlers -> {"working", "waiting", "sending", "done", "panicked"}]
  /\ next \in Nat \ {0}
  /\ at \in [Listeners -> {"absent", "listening", "gone", "ended"}]
  /\ inbox \in [Listeners -> Seq(Handlers)]

(* The calls that listener l must have been given or sent: all of them,    *)
(* but for the one whose loop has not come to l yet.                       *)
Registered(l) == \E i \in 1 .. Len(httpListeners) : httpListeners[i] = l
Reached(l) ==
  httpMu = Free \/ \E i \in 1 .. next - 1 : i <= Len(httpListeners) /\ httpListeners[i] = l
Due(l) == IF Reached(l) THEN Len(httpCalls) ELSE Len(httpCalls) - 1

UpToDate(l) ==
  /\ closed = {} => Len(inbox[l]) + Len(chan[l]) = Due(l)
  /\ Len(inbox[l]) + Len(chan[l]) <= Len(httpCalls)
  /\ \A i \in 1 .. Len(inbox[l]) : inbox[l][i] = httpCalls[i]
  /\ \A i \in 1 .. Len(chan[l]) : chan[l][i] = httpCalls[Len(inbox[l]) + i]

(* http.go:56-57, the history is returned "in a way that guarantees none   *)
(* are missed": what a listener was given, has received and will find in   *)
(* its channel is the log, without gap, repetition or reordering, as long  *)
(* as the channels are open; once finished, nothing is added.              *)
NoneMissed == \A l \in Listeners : Registered(l) => UpToDate(l)

(* The log and its listeners implement the abstract feed.                  *)
Feed == INSTANCE CallFeed WITH
          Calls <- Handlers, Subscribers <- Listeners, log <- httpCalls,
          joined <- {l \in Listeners : at[l] # "absent"}, inbox <- inbox
ImplementsFeed == Feed!FeedSpec

(* http.go:44, a listener "receives HTTPCalls each time a request/response *)
(* is completed": every completed call is eventually printed.              *)
EveryCallPrinted ==
  \A h \in Handlers :
    pc[h] = "waiting" ~> \E i \in 1 .. Len(inbox[Console]) : inbox[Console][i] = h

(* ... and is so unless the log was finished or a client has left, whose    *)
(* listener may hold the others up: with every listener receiving, waiting *)
(* on a full channel with the lock held delays a call but never loses it.  *)
PrintedWhileListening ==
  \A h \in Handlers :
    pc[h] = "waiting" ~>
      \/ \E i \in 1 .. Len(inbox[Console]) : inbox[Console][i] = h
      \/ closed # {}
      \/ \E w \in Watchers : at[w] = "gone"
=============================================================================
