--------------------------- MODULE CallLogProofs ----------------------------
(***************************************************************************)
(* Theorems about CallLog for any number of handlers and watchers and any  *)
(* channel capacity: nothing is missed, and the log with its listeners     *)
(* implements the abstract feed.                                           *)
(***************************************************************************)
EXTENDS CallLog, TLAPS

LEMMA AppendFacts ==
  ASSUME NEW S, NEW s \in Seq(S), NEW e \in S
  PROVE /\ Append(s, e) \in Seq(S) /\ Len(Append(s, e)) = Len(s) + 1 /\ Len(s) \in Nat
        /\ \A i \in 1 .. Len(s) : Append(s, e)[i] = s[i]
        /\ Append(s, e)[Len(s) + 1] = e
  OBVIOUS

LEMMA TailFacts ==
  ASSUME NEW S, NEW s \in Seq(S), s # <<>>
  PROVE /\ Tail(s) \in Seq(S) /\ Len(Tail(s)) = Len(s) - 1
        /\ Len(s) \in Nat /\ Len(s) > 0
        /\ \A i \in 1 .. Len(s) - 1 : Tail(s)[i] = s[i + 1]
        /\ Head(s) = s[1] /\ Head(s) \in S
  OBVIOUS

(* The sums of lengths that the steps below move calls between.            *)
LEMMA Sums ==
  ASSUME NEW a \in Nat, NEW b \in Nat, NEW n \in Nat
  PROVE /\ (a + 1) + (b - 1) = a + b
        /\ a + b = n - 1 => a + (b + 1) = n
        /\ a + b <= n /\ b > 0 => a < n
        /\ a + b <= n => a + b <= n + 1 /\ a <= n
  OBVIOUS

LEMMA Indices ==
  ASSUME NEW a \in Nat, NEW b \in Nat, NEW n \in Nat, a + b <= n
  PROVE /\ \A i \in 1 .. a : i \in 1 .. n
        /\ \A i \in 1 .. b : a + i \in 1 .. n
  OBVIOUS

-----------------------------------------------------------------------------
LEMMA InitType == Init => TypeOK
  BY ListenersAssumption DEF Init, TypeOK, Listeners

LEMMA TypeStep == TypeOK /\ [Next]_vars => TypeOK'
<1> SUFFICES ASSUME TypeOK, [Next]_vars PROVE TypeOK'
  OBVIOUS
<1> USE DEF TypeOK
<1>1. ASSUME NEW w \in Watchers, Listen(w) PROVE TypeOK'
  <2>1. w \in Listeners
    BY DEF Listeners
  <2>2. httpListeners' \in Seq(Listeners)
    BY <1>1, <2>1, AppendFacts DEF Listen
  <2> QED BY <1>1, <2>1, <2>2 DEF Listen, History
<1>2. ASSUME NEW h \in Handlers, Complete(h) PROVE TypeOK'
  BY <1>2 DEF Complete
<1>3. ASSUME NEW h \in Handlers, Notify(h) PROVE TypeOK'
  <2>1. httpCalls' \in Seq(Handlers)
    BY <1>3, AppendFacts DEF Notify
  <2> QED BY <1>3, <2>1 DEF Notify, First
<1>4. ASSUME NEW h \in Handlers, Send(h) PROVE TypeOK'
  <2>1. httpListeners[next] \in Listeners
    BY <1>4 DEF Send
  <2>2. Append(chan[httpListeners[next]], h) \in Seq(Handlers)
    BY <2>1, AppendFacts
  <2>3. chan' \in [Listeners -> Seq(Handlers)]
    BY <1>4, <2>1, <2>2 DEF Send
  <2> QED BY <1>4, <2>3 DEF Send
<1>5. ASSUME NEW h \in Handlers, Panic(h) \/ Return(h) PROVE TypeOK'
  BY <1>5 DEF Panic, Return
<1>6. ASSUME NEW l \in Listeners, Receive(l) PROVE TypeOK'
  <2>1. Tail(chan[l]) \in Seq(Handlers) /\ Head(chan[l]) \in Handlers
    BY <1>6, TailFacts DEF Receive
  <2>2. Append(inbox[l], Head(chan[l])) \in Seq(Handlers)
    BY <2>1, AppendFacts
  <2> QED BY <1>6, <2>1, <2>2 DEF Receive, Rest
<1>7. CASE End
  BY <1>7 DEF End
<1>8. ASSUME NEW w \in Leavers, Leave(w) PROVE TypeOK'
  BY <1>8 DEF Leave
<1>9. CASE Finish
  BY <1>9 DEF Finish, ToClose
<1>10. CASE UNCHANGED vars
  BY <1>10 DEF vars
<1> QED BY <1>1, <1>2, <1>3, <1>4, <1>5, <1>6, <1>7, <1>8, <1>9, <1>10 DEF Next, NotifyStep

-----------------------------------------------------------------------------
(* The lock and the loop of notifyHTTP: who sends holds the lock and sends *)
(* the last call of the log; once the channels are closed no loop gets     *)
(* past the console, which registered first.                               *)
LoopInv ==
  /\ \A h \in Handlers : pc[h] = "sending" <=> httpMu = h
  /\ httpMu # Free => httpCalls # <<>> /\ httpCalls[Len(httpCalls)] = httpMu
  /\ httpMu # Free => next <= Len(httpListeners) + 1
  /\ closed # {} => Console \in closed /\ (httpMu # Free => next = 1)

(* A listener registers once, and has nothing before it does.              *)
RegistryInv ==
  /\ Len(httpListeners) > 0 /\ httpListeners[1] = Console
  /\ \A i, j \in 1 .. Len(httpListeners) : httpListeners[i] = httpListeners[j] => i = j
  /\ \A l \in Listeners : Registered(l) <=> at[l] # "absent"
  /\ \A l \in Listeners : at[l] = "absent" => chan[l] = <<>>

LogInv == TypeOK /\ LoopInv /\ RegistryInv /\ NoneMissed

LEMMA LoopStep == LogInv /\ [Next]_vars => LoopInv'
<1> SUFFICES ASSUME LogInv, [Next]_vars PROVE LoopInv'
  OBVIOUS
<1>0. TypeOK /\ LoopInv /\ RegistryInv /\ Len(httpListeners) \in Nat
  BY DEF LogInv, TypeOK
<1>1. ASSUME NEW w \in Watchers, Listen(w) PROVE LoopInv'
  <2>1. httpMu = Free /\ httpMu' = Free
    BY <1>1 DEF Listen
  <2> QED BY <1>0, <1>1, <2>1, FreeAssumption DEF Listen, LoopInv
<1>2. ASSUME NEW h \in Handlers, Complete(h) PROVE LoopInv'
  <2>1. \A k \in Handlers : pc'[k] = "sending" <=> pc[k] = "sending"
    BY <1>0, <1>2 DEF Complete, TypeOK
  <2> QED BY <1>0, <1>2, <2>1 DEF Complete, LoopInv
<1>3. ASSUME NEW h \in Handlers, Notify(h) PROVE LoopInv'
  <2>1. \A k \in Handlers : pc'[k] = "sending" <=> k = h
    BY <1>0, <1>3, FreeAssumption DEF Notify, TypeOK, LoopInv
  <2>2. httpCalls' # <<>> /\ httpCalls'[Len(httpCalls')] = h
    BY <1>0, <1>3, AppendFacts DEF Notify, TypeOK
  <2> QED BY <1>0, <1>3, <2>1, <2>2 DEF Notify, First, LoopInv
<1>4. ASSUME NEW h \in Handlers, Send(h) PROVE LoopInv'
  <2>1. closed = {}
    <3>1. closed # {} => httpListeners[next] \in closed
      BY <1>0, <1>4, FreeAssumption DEF Send, LoopInv, RegistryInv
    <3> QED BY <1>4, <3>1 DEF Send
  <2>2. next' <= Len(httpListeners') + 1
    BY <1>0, <1>4 DEF Send, TypeOK
  <2> QED BY <1>0, <1>4, <2>1, <2>2 DEF Send, LoopInv
<1>5. ASSUME NEW h \in Handlers, Panic(h) \/ Return(h) PROVE LoopInv'
  <2>1. httpMu' = Free /\ httpMu = h
    BY <1>0, <1>5 DEF Panic, Return, LoopInv
  <2>2. \A k \in Handlers : pc'[k] # "sending"
    BY <1>0, <1>5, <2>1 DEF Panic, Return, TypeOK, LoopInv
  <2> QED BY <1>0, <1>5, <2>1, <2>2, FreeAssumption DEF Panic, Return, LoopInv
<1>6. ASSUME NEW l \in Listeners, Receive(l) PROVE LoopInv'
  BY <1>0, <1>6 DEF Receive, LoopInv
<1>7. CASE End
  BY <1>0, <1>7 DEF End, LoopInv
<1>8. ASSUME NEW w \in Leavers, Leave(w) PROVE LoopInv'
  BY <1>0, <1>8 DEF Leave, LoopInv
<1>9. CASE Finish
  <2>1. Console \in closed'
    BY <1>0, <1>9 DEF Finish, ToClose, RegistryInv
  <2> QED BY <1>0, <1>9, <2>1 DEF Finish, LoopInv
<1>10. CASE UNCHANGED vars
  BY <1>0, <1>10 DEF vars, LoopInv
<1> QED BY <1>1, <1>2, <1>3, <1>4, <1>5, <1>6, <1>7, <1>8, <1>9, <1>10 DEF Next, NotifyStep

LEMMA RegistryStep == LogInv /\ [Next]_vars => RegistryInv'
<1> SUFFICES ASSUME LogInv, [Next]_vars PROVE RegistryInv'
  OBVIOUS
<1>0. TypeOK /\ RegistryInv
  BY DEF LogInv
<1>1. ASSUME NEW w \in Watchers, Listen(w) PROVE RegistryInv'
  <2>1. w \in Listeners /\ at[w] = "absent" /\ ~Registered(w)
    BY <1>0, <1>1 DEF Listen, Listeners, RegistryInv
  <2>2. /\ Len(httpListeners) \in Nat /\ Len(httpListeners') = Len(httpListeners) + 1
        /\ \A i \in 1 .. Len(httpListeners) : httpListeners'[i] = httpListeners[i]
        /\ httpListeners'[Len(httpListeners) + 1] = w
    BY <1>0, <1>1, <2>1, AppendFacts DEF Listen, TypeOK
  <2>3. \A i \in 1 .. Len(httpListeners) : httpListeners[i] # w
    BY <2>1 DEF Registered
  <2>4. \A l \in Listeners : at'[l] = IF l = w THEN "listening" ELSE at[l]
    BY <1>0, <1>1 DEF Listen, TypeOK
  <2>5. \A l \in Listeners : Registered(l)' <=> Registered(l) \/ l = w
    BY <2>2 DEF Registered
  <2>6. chan' = chan
    BY <1>1 DEF Listen
  <2> QED BY <1>0, <2>2, <2>3, <2>4, <2>5, <2>6 DEF RegistryInv
<1>2. ASSUME NEW h \in Handlers, Complete(h) \/ Notify(h) \/ Panic(h) \/ Return(h) PROVE RegistryInv'
  BY <1>0, <1>2 DEF Complete, Notify, Panic, Return, RegistryInv, Registered
<1>3. ASSUME NEW h \in Handlers, Send(h) PROVE RegistryInv'
  <2>1. Registered(httpListeners[next]) /\ httpListeners[next] \in Listeners
    BY <1>0, <1>3 DEF Send, TypeOK, Registered
  <2>2. at[httpListeners[next]] # "absent"
    BY <1>0, <2>1 DEF RegistryInv
  <2>3. \A l \in Listeners : at[l] = "absent" => chan'[l] = chan[l]
    BY <1>0, <1>3, <2>2 DEF Send, TypeOK
  <2> QED BY <1>0, <1>3, <2>3 DEF Send, RegistryInv, Registered
<1>4. ASSUME NEW l \in Listeners, Receive(l) PROVE RegistryInv'
  <2>1. \A d \in Listeners : at[d] = "absent" => chan'[d] = chan[d]
    BY <1>0, <1>4 DEF Receive, TypeOK
  <2> QED BY <1>0, <1>4, <2>1 DEF Receive, RegistryInv, Registered
<1>5. CASE End \/ \E w \in Leavers : Leave(w)
  <2>1. \A d \in Listeners : at'[d] = "absent" <=> at[d] = "absent"
    BY <1>0, <1>5 DEF End, Leave, TypeOK
  <2> QED BY <1>0, <1>5, <2>1 DEF End, Leave, RegistryInv, Registered
<1>6. CASE Finish \/ UNCHANGED vars
  BY <1>0, <1>6 DEF Finish, vars, RegistryInv, Registered
<1> QED BY <1>1, <1>2, <1>3, <1>4, <1>5, <1>6 DEF Next, NotifyStep

-----------------------------------------------------------------------------
(* A listener none of whose things change stays up to date.                *)
LEMMA UpToDateKept ==
  ASSUME TypeOK, NEW l \in Listeners, UpToDate(l),
         inbox'[l] = inbox[l], chan'[l] = chan[l], httpCalls' = httpCalls, closed' = closed,
         closed = {} => (Reached(l)' <=> Reached(l))
  PROVE UpToDate(l)'
<1>1. closed = {} => Due(l)' = Due(l)
  BY DEF Due
<1> QED BY <1>1 DEF UpToDate

LEMMA NoneMissedStep == LogInv /\ [Next]_vars => NoneMissed'
<1> SUFFICES ASSUME LogInv, [Next]_vars PROVE NoneMissed'
  OBVIOUS
<1>0. TypeOK /\ LoopInv /\ RegistryInv /\ NoneMissed /\ Len(httpCalls) \in Nat
      /\ \A l \in Listeners : Len(inbox[l]) \in Nat /\ Len(chan[l]) \in Nat
  BY DEF LogInv, TypeOK
<1>1. ASSUME NEW w \in Watchers, Listen(w) PROVE NoneMissed'
  <2>1. w \in Listeners /\ chan[w] = <<>> /\ httpMu = Free
    BY <1>0, <1>1 DEF Listen, Listeners, RegistryInv
  <2>2. inbox'[w] = httpCalls /\ \A l \in Listeners \ {w} : inbox'[l] = inbox[l]
    BY <1>0, <1>1, <2>1 DEF Listen, TypeOK, History
  <2>3. UpToDate(w)'
    <3>1. Due(w)' = Len(httpCalls)
      BY <1>0, <1>1, <2>1 DEF Due, Reached, Listen
    <3> QED BY <1>0, <1>1, <2>1, <2>2, <3>1 DEF Listen, UpToDate
  <2>4. ASSUME NEW l \in Listeners \ {w}, Registered(l)' PROVE UpToDate(l)'
    <3>1. /\ Len(httpListeners) \in Nat
          /\ Len(httpListeners') = Len(httpListeners) + 1
          /\ \A i \in 1 .. Len(httpListeners) : httpListeners'[i] = httpListeners[i]
          /\ httpListeners'[Len(httpListeners) + 1] = w
      BY <1>0, <1>1, <2>1, AppendFacts DEF Listen, TypeOK
    <3>2. Registered(l)
      <4>1. PICK i \in 1 .. Len(httpListeners) + 1 : httpListeners'[i] = l
        BY <2>4, <3>1 DEF Registered
      <4>2. i # Len(httpListeners) + 1
        <5>1. l # w
          BY <2>4
        <5> QED BY <3>1, <4>1, <5>1
      <4>3. i \in 1 .. Len(httpListeners)
        BY <3>1, <4>1, <4>2
      <4> QED BY <3>1, <4>1, <4>3 DEF Registered
    <3>3. UpToDate(l)
      BY <1>0, <3>2 DEF NoneMissed
    <3>4. Reached(l) /\ Reached(l)'
      BY <1>1, <2>1 DEF Reached, Listen
    <3> QED BY <1>0, <1>1, <2>2, <3>3, <3>4, UpToDateKept DEF Listen
  <2> QED BY <2>3, <2>4 DEF NoneMissed
<1>2. ASSUME NEW h \in Handlers, Complete(h) PROVE NoneMissed'
  BY <1>0, <1>2 DEF Complete, NoneMissed, Registered, UpToDate, Due, Reached
<1>3. ASSUME NEW h \in Handlers, Notify(h) PROVE NoneMissed'
  <2> SUFFICES ASSUME NEW l \in Listeners, Registered(l)' PROVE UpToDate(l)'
    BY DEF NoneMissed
  <2>1. UpToDate(l)
    BY <1>0, <1>3 DEF NoneMissed, Registered, Notify
  <2>2. /\ Len(httpCalls') = Len(httpCalls) + 1
        /\ \A i \in 1 .. Len(httpCalls) : httpCalls'[i] = httpCalls[i]
    BY <1>0, <1>3, AppendFacts DEF Notify, TypeOK
  <2>3. Reached(l) /\ ~Reached(l)'
    BY <1>3, FreeAssumption DEF Reached, Notify, First
  <2>4. Due(l) = Len(httpCalls) /\ Due(l)' = Len(httpCalls)
    BY <1>0, <2>2, <2>3 DEF Due
  <2>5. /\ Len(inbox[l]) + Len(chan[l]) <= Len(httpCalls)
        /\ Len(inbox[l]) \in Nat /\ Len(chan[l]) \in Nat
    BY <1>0, <2>1 DEF UpToDate
  <2>6. inbox' = inbox /\ chan' = chan /\ closed' = closed
    BY <1>3 DEF Notify
  <2>7. closed' = {} => Len(inbox'[l]) + Len(chan'[l]) = Due(l)'
    BY <2>1, <2>4, <2>6 DEF UpToDate
  <2>8. Len(inbox'[l]) + Len(chan'[l]) <= Len(httpCalls')
    <3>1. Len(inbox[l]) + Len(chan[l]) <= Len(httpCalls) + 1
      BY <1>0, <2>5, Sums
    <3> QED BY <2>2, <2>6, <3>1
  <2>9. /\ \A i \in 1 .. Len(inbox[l]) : i \in 1 .. Len(httpCalls)
        /\ \A i \in 1 .. Len(chan[l]) : Len(inbox[l]) + i \in 1 .. Len(httpCalls)
    BY <1>0, <2>5, Indices
  <2>10. /\ \A i \in 1 .. Len(inbox[l]) : inbox[l][i] = httpCalls'[i]
         /\ \A i \in 1 .. Len(chan[l]) : chan[l][i] = httpCalls'[Len(inbox[l]) + i]
    BY <2>1, <2>2, <2>9 DEF UpToDate
  <2> QED BY <2>6, <2>7, <2>8, <2>10 DEF UpToDate
<1>4. ASSUME NEW h \in Handlers, Send(h) PROVE NoneMissed'
  <2>0. PICK k \in Listeners : k = httpListeners[next]
    BY <1>0, <1>4 DEF Send, TypeOK
  <2>1. /\ next \in 1 .. Len(httpListeners) /\ Registered(k)
        /\ httpMu = h /\ h # Free
    BY <1>0, <1>4, <2>0, FreeAssumption DEF Send, TypeOK, LoopInv, Registered
  <2>2. closed = {} /\ closed' = {}
    BY <1>0, <1>4, <2>0, <2>1 DEF Send, LoopInv, RegistryInv
  <2>3. UNCHANGED <<httpMu, httpCalls, httpListeners, inbox>> /\ next' = next + 1
    BY <1>4 DEF Send
  <2>4. \A l \in Listeners \ {k} : chan'[l] = chan[l]
    BY <1>0, <1>4, <2>0, <2>1 DEF Send, TypeOK
  <2>5. /\ Len(chan'[k]) = Len(chan[k]) + 1
        /\ \A i \in 1 .. Len(chan[k]) : chan'[k][i] = chan[k][i]
        /\ chan'[k][Len(chan[k]) + 1] = h
    <3>1. chan'[k] = Append(chan[k], h)
      BY <1>0, <1>4, <2>0, <2>1 DEF Send, TypeOK
    <3>2. chan[k] \in Seq(Handlers)
      BY <1>0, <2>1 DEF TypeOK
    <3> QED BY <3>1, <3>2, AppendFacts
  <2>6. ~Reached(k) /\ Reached(k)'
    <3>1. next \in Nat /\ Len(httpListeners) \in Nat
      BY <1>0 DEF TypeOK
    <3>2. ~Reached(k)
      <4> SUFFICES ASSUME NEW i \in 1 .. next - 1, i <= Len(httpListeners), httpListeners[i] = k
                   PROVE FALSE
        BY <2>1 DEF Reached
      <4>1. i \in 1 .. Len(httpListeners) /\ i # next
        BY <3>1
      <4> QED BY <1>0, <2>0, <2>1, <4>1 DEF RegistryInv
    <3>3. Reached(k)'
      <4>1. next \in 1 .. next' - 1 /\ next <= Len(httpListeners')
        BY <2>1, <2>3, <3>1
      <4> QED BY <2>0, <2>3, <4>1 DEF Reached
    <3> QED BY <3>2, <3>3
  <2>7. UpToDate(k)
    BY <1>0, <2>1 DEF NoneMissed
  <2>8. UpToDate(k)'
    <3>1. Len(inbox[k]) + Len(chan[k]) = Len(httpCalls) - 1
      BY <2>2, <2>6, <2>7 DEF UpToDate, Due
    <3>2. Due(k)' = Len(httpCalls)
      BY <1>0, <2>3, <2>6 DEF Due
    <3>3. httpCalls[Len(httpCalls)] = h
      BY <1>0, <2>1 DEF LoopInv
    <3>4. Len(inbox[k]) \in Nat /\ Len(chan[k]) \in Nat
      BY <1>0, <2>1
    <3>5. \A i \in 1 .. Len(chan'[k]) : chan'[k][i] = httpCalls[Len(inbox[k]) + i]
      <4> SUFFICES ASSUME NEW i \in 1 .. Len(chan'[k])
                   PROVE chan'[k][i] = httpCalls[Len(inbox[k]) + i]
        OBVIOUS
      <4>1. CASE i \in 1 .. Len(chan[k])
        BY <2>5, <2>7, <4>1 DEF UpToDate
      <4>2. CASE i = Len(chan[k]) + 1
        <5>1. Len(inbox[k]) + i = Len(httpCalls)
          BY <1>0, <3>1, <3>4, <4>2, Sums
        <5> QED BY <2>5, <3>3, <4>2, <5>1
      <4> QED BY <2>5, <3>4, <4>1, <4>2
    <3>6. Len(inbox[k]) + Len(chan'[k]) = Len(httpCalls)
      <4>1. Len(inbox[k]) + (Len(chan[k]) + 1) = Len(httpCalls)
        BY <1>0, <3>1, <3>4, Sums
      <4>2. Len(chan'[k]) = Len(chan[k]) + 1
        BY <2>5
      <4> QED BY <4>1, <4>2
    <3>7. Len(inbox[k]) + Len(chan'[k]) <= Len(httpCalls)
      <4>1. Len(httpCalls) <= Len(httpCalls)
        BY <1>0
      <4> QED BY <3>6, <4>1
    <3>8. \A i \in 1 .. Len(inbox[k]) : inbox[k][i] = httpCalls[i]
      BY <2>7 DEF UpToDate
    <3> QED BY <2>2, <2>3, <3>2, <3>5, <3>6, <3>7, <3>8 DEF UpToDate
  <2>9. ASSUME NEW l \in Listeners \ {k}, Registered(l)' PROVE UpToDate(l)'
    <3>1. Registered(l) /\ UpToDate(l)
      BY <1>0, <2>3, <2>9 DEF NoneMissed, Registered
    <3>2. Reached(l)' <=> Reached(l)
      BY <1>0, <2>0, <2>1, <2>3 DEF Reached
    <3> QED BY <1>0, <2>2, <2>3, <2>4, <3>1, <3>2, UpToDateKept
  <2> QED BY <2>1, <2>8, <2>9 DEF NoneMissed
<1>5. ASSUME NEW h \in Handlers, Panic(h) PROVE NoneMissed'
  <2>1. closed # {} /\ UNCHANGED <<httpCalls, httpListeners, chan, closed, inbox>>
    BY <1>5 DEF Panic
  <2> QED BY <1>0, <2>1 DEF NoneMissed, Registered, UpToDate
<1>6. ASSUME NEW h \in Handlers, Return(h) PROVE NoneMissed'
  <2> SUFFICES ASSUME NEW l \in Listeners, Registered(l)' PROVE UpToDate(l)'
    BY DEF NoneMissed
  <2>1. Registered(l) /\ UNCHANGED <<httpCalls, httpListeners, chan, closed, inbox>>
    BY <1>6 DEF Return, Registered
  <2>2. UpToDate(l)
    BY <1>0, <2>1 DEF NoneMissed
  <2>3. Reached(l) /\ Reached(l)'
    BY <1>0, <1>6, <2>1 DEF Return, Reached, Registered, TypeOK
  <2> QED BY <1>0, <2>1, <2>2, <2>3, UpToDateKept
<1>7. ASSUME NEW k \in Listeners, Receive(k) PROVE NoneMissed'
  <2> SUFFICES ASSUME NEW l \in Listeners, Registered(l)' PROVE UpToDate(l)'
    BY DEF NoneMissed
  <2>1. UNCHANGED <<httpMu, httpCalls, httpListeners, closed, next>>
    BY <1>7 DEF Receive
  <2>2. Registered(l) /\ UpToDate(l) /\ (Reached(l)' <=> Reached(l))
    BY <1>0, <2>1 DEF NoneMissed, Registered, Reached
  <2>3. CASE l # k
    <3>1. inbox'[l] = inbox[l] /\ chan'[l] = chan[l]
      BY <1>0, <1>7, <2>3 DEF Receive, TypeOK
    <3> QED BY <1>0, <2>1, <2>2, <3>1, UpToDateKept
  <2>4. CASE l = k
    <3> DEFINE q == chan[l]
               b == inbox[l]
    <3>1. /\ chan'[l] = Tail(q) /\ inbox'[l] = Append(b, Head(q))
          /\ q # <<>> /\ q \in Seq(Handlers) /\ b \in Seq(Handlers)
      BY <1>0, <1>7, <2>4 DEF Receive, TypeOK, Rest
    <3>2. /\ Len(Tail(q)) = Len(q) - 1 /\ Len(q) \in Nat /\ Len(q) > 0
          /\ \A i \in 1 .. Len(q) - 1 : Tail(q)[i] = q[i + 1]
          /\ Head(q) = q[1] /\ Head(q) \in Handlers
      <4> HIDE DEF q, b
      <4> QED BY <3>1, TailFacts
    <3>3. /\ Len(Append(b, Head(q))) = Len(b) + 1 /\ Len(b) \in Nat
          /\ \A i \in 1 .. Len(b) : Append(b, Head(q))[i] = b[i]
          /\ Append(b, Head(q))[Len(b) + 1] = Head(q)
      <4> HIDE DEF q, b
      <4> QED BY <3>1, <3>2, AppendFacts
    <3>4. /\ \A i \in 1 .. Len(b) : b[i] = httpCalls[i]
          /\ \A i \in 1 .. Len(q) : q[i] = httpCalls[Len(b) + i]
      BY <2>2 DEF UpToDate
    <3>5. Due(l)' = Due(l)
      BY <2>1, <2>2 DEF Due
    <3>6. Len(Append(b, Head(q))) + Len(Tail(q)) = Len(b) + Len(q)
      <4>1. Len(b) \in Nat /\ Len(q) \in Nat
        BY <3>2, <3>3
      <4>2. (Len(b) + 1) + (Len(q) - 1) = Len(b) + Len(q)
        BY <4>1, Sums
      <4>3. Len(Append(b, Head(q))) = Len(b) + 1 /\ Len(Tail(q)) = Len(q) - 1
        BY <3>2, <3>3
      <4> HIDE DEF q, b
      <4> QED BY <4>2, <4>3
    <3>7. \A i \in 1 .. Len(Append(b, Head(q))) : Append(b, Head(q))[i] = httpCalls[i]
      <4> HIDE DEF q, b
      <4>1. Append(b, Head(q))[Len(b) + 1] = httpCalls[Len(b) + 1]
        BY <3>2, <3>3, <3>4
      <4> QED BY <3>3, <3>4, <4>1
    <3>8. \A i \in 1 .. Len(Tail(q)) : Tail(q)[i] = httpCalls[Len(Append(b, Head(q))) + i]
      <4> HIDE DEF q, b
      <4> SUFFICES ASSUME NEW i \in 1 .. Len(Tail(q))
                   PROVE Tail(q)[i] = httpCalls[Len(b) + 1 + i]
        BY <3>3
      <4>1. i + 1 \in 1 .. Len(q) /\ i \in 1 .. Len(q) - 1
        BY <3>2
      <4>2. Tail(q)[i] = q[i + 1] /\ q[i + 1] = httpCalls[Len(b) + (i + 1)]
        BY <3>2, <3>4, <4>1
      <4>3. Len(b) + (i + 1) = Len(b) + 1 + i
        BY <3>3
      <4> QED BY <4>2, <4>3
    <3> QED BY <2>1, <2>2, <3>1, <3>5, <3>6, <3>7, <3>8 DEF UpToDate
  <2> QED BY <2>3, <2>4
<1>8. CASE End \/ \E w \in Leavers : Leave(w)
  <2>1. UNCHANGED <<httpMu, httpCalls, httpListeners, chan, closed, next, inbox>>
    BY <1>8 DEF End, Leave
  <2> QED BY <1>0, <2>1 DEF NoneMissed, Registered, UpToDate, Due, Reached
<1>9. CASE Finish
  <2> SUFFICES ASSUME NEW l \in Listeners, Registered(l)' PROVE UpToDate(l)'
    BY DEF NoneMissed
  <2>1. UNCHANGED <<httpMu, httpCalls, httpListeners, chan, inbox>> /\ httpMu = Free /\ closed = {}
    BY <1>9 DEF Finish
  <2>2. UpToDate(l) /\ Reached(l)
    BY <1>0, <2>1 DEF NoneMissed, Registered, Reached
  <2>3. Len(inbox[l]) + Len(chan[l]) = Len(httpCalls)
    BY <1>0, <2>1, <2>2 DEF UpToDate, Due
  <2>4. Due(l)' = Len(httpCalls)
    BY <1>0, <2>1 DEF Due, Reached
  <2> QED BY <1>0, <2>1, <2>2, <2>3, <2>4 DEF UpToDate
<1>10. CASE UNCHANGED vars
  BY <1>0, <1>10 DEF vars, NoneMissed, Registered, UpToDate, Due, Reached
<1> QED BY <1>1, <1>2, <1>3, <1>4, <1>5, <1>6, <1>7, <1>8, <1>9, <1>10 DEF Next, NotifyStep

LEMMA LogInvariant == Spec => []LogInv
<1>1. Init => LogInv
  <2>1. Init => TypeOK
    BY InitType
  <2>2. ASSUME Init PROVE LoopInv /\ RegistryInv /\ NoneMissed
    <3>1. /\ Len(httpListeners) = 1 /\ httpListeners[1] = Console /\ httpMu = Free
          /\ closed = {} /\ httpCalls = <<>> /\ Len(httpCalls) = 0
          /\ \A l \in Listeners : inbox[l] = <<>> /\ chan[l] = <<>>
                                  /\ Len(inbox[l]) = 0 /\ Len(chan[l]) = 0
      BY <2>2 DEF Init
    <3>2. LoopInv
      BY <2>2, <3>1, FreeAssumption DEF Init, LoopInv
    <3>3. \A l \in Listeners : Registered(l) <=> l = Console
      BY <3>1 DEF Registered
    <3>4. RegistryInv
      BY <2>2, <3>1, <3>3 DEF Init, RegistryInv
    <3>5. NoneMissed
      <4> SUFFICES ASSUME NEW l \in Listeners PROVE UpToDate(l)
        BY DEF NoneMissed
      <4>1. Due(l) = 0
        BY <3>1 DEF Due, Reached
      <4>2. /\ Len(inbox[l]) = 0 /\ Len(chan[l]) = 0 /\ Len(httpCalls) = 0
            /\ 1 .. 0 = {}
        BY <3>1
      <4> QED BY <4>1, <4>2 DEF UpToDate
    <3> QED BY <3>2, <3>4, <3>5
  <2> QED BY <2>1, <2>2 DEF LogInv
<1>2. LogInv /\ [Next]_vars => LogInv'
  BY TypeStep, LoopStep, RegistryStep, NoneMissedStep DEF LogInv
<1> QED BY <1>1, <1>2, PTL DEF Spec

(* Every reachable state is well typed: the lock is held by one handler or *)
(* nobody, and log, channels and inboxes are sequences of calls.           *)
THEOREM TypeCorrect == Spec => []TypeOK
<1>1. LogInv => TypeOK
  BY DEF LogInv
<1> QED BY <1>1, LogInvariant, PTL

(* http.go:56-57: the history and the channel of a listener together hold  *)
(* every call, in order, once, for any number of listeners that join while *)
(* any number of handlers notify.                                          *)
THEOREM NothingIsMissed == Spec => []NoneMissed
<1>1. LogInv => NoneMissed
  BY DEF LogInv
<1> QED BY <1>1, LogInvariant, PTL

(* The log with its lock, channels and loops behaves like the abstract     *)
(* feed: each listener's calls are a growing prefix of one growing log.    *)
THEOREM LogImplementsFeed == Spec => ImplementsFeed
<1>1. Init => Feed!FeedInit
  BY ListenersAssumption DEF Init, Feed!FeedInit
<1>2. LogInv /\ [Next]_vars => [Feed!FeedNext]_Feed!feedVars
  <2> SUFFICES ASSUME LogInv, [Next]_vars PROVE [Feed!FeedNext]_Feed!feedVars
    OBVIOUS
  <2> DEFINE joined == {l \in Listeners : at[l] # "absent"}
  <2>0. TypeOK /\ RegistryInv /\ NoneMissed /\ Len(httpCalls) \in Nat
    BY DEF LogInv, TypeOK
  <2>1. ASSUME NEW w \in Watchers, Listen(w) PROVE Feed!FeedNext
    <3>1. w \in Listeners /\ w \notin joined /\ joined' = joined \cup {w}
      BY <2>0, <2>1 DEF Listen, Listeners, TypeOK
    <3>2. inbox' = [inbox EXCEPT ![w] = httpCalls] /\ UNCHANGED httpCalls
      BY <2>1 DEF Listen, History
    <3>3. Feed!Subscribe(w)
      BY <3>1, <3>2 DEF Feed!Subscribe
    <3> QED BY <3>1, <3>3 DEF Feed!FeedNext
  <2>2. ASSUME NEW h \in Handlers, Notify(h) PROVE Feed!FeedNext
    <3>1. Feed!Publish(h)
      BY <2>2 DEF Notify, Feed!Publish
    <3> QED BY <3>1 DEF Feed!FeedNext
  <2>3. ASSUME NEW l \in Listeners, Receive(l) PROVE Feed!FeedNext
    <3>1. at[l] = "listening" /\ chan[l] # <<>> /\ chan[l] \in Seq(Handlers) /\ Len(inbox[l]) \in Nat
      BY <2>0, <2>3 DEF Receive, TypeOK
    <3>2. Len(chan[l]) \in Nat /\ Len(chan[l]) > 0 /\ Head(chan[l]) = chan[l][1]
      BY <3>1, TailFacts
    <3>3. UpToDate(l)
      BY <2>0, <3>1 DEF NoneMissed, RegistryInv
    <3>4. Len(inbox[l]) + Len(chan[l]) <= Len(httpCalls)
      BY <3>3 DEF UpToDate
    <3>5. Head(chan[l]) = httpCalls[Len(inbox[l]) + 1]
      BY <3>2, <3>3 DEF UpToDate
    <3>6. Len(inbox[l]) < Len(httpCalls)
      BY <2>0, <3>1, <3>2, <3>4, Sums
    <3>7. inbox' = [inbox EXCEPT ![l] = Append(@, httpCalls[Len(@) + 1])]
      BY <2>3, <3>5 DEF Receive
    <3>8. UNCHANGED <<httpCalls, joined>> /\ l \in joined
      BY <2>3, <3>1 DEF Receive
    <3>9. Feed!Deliver(l)
      BY <3>6, <3>7, <3>8 DEF Feed!Deliver
    <3> QED BY <3>9 DEF Feed!FeedNext
  <2>4. ASSUME NEW h \in Handlers, Complete(h) \/ Send(h) \/ Panic(h) \/ Return(h)
        PROVE UNCHANGED Feed!feedVars
    BY <2>4 DEF Complete, Send, Panic, Return, Feed!feedVars
  <2>5. CASE End \/ \E w \in Leavers : Leave(w)
    <3>1. \A l \in Listeners : at'[l] = "absent" <=> at[l] = "absent"
      BY <2>0, <2>5 DEF End, Leave, TypeOK
    <3>2. joined' = joined /\ UNCHANGED <<httpCalls, inbox>>
      BY <2>5, <3>1 DEF End, Leave
    <3> QED BY <3>2 DEF Feed!feedVars
  <2>6. CASE Finish \/ UNCHANGED vars
    BY <2>6 DEF Finish, vars, Feed!feedVars
  <2> QED BY <2>1, <2>2, <2>3, <2>4, <2>5, <2>6 DEF Next, NotifyStep
<1> QED BY <1>1, <1>2, LogInvariant, PTL DEF Spec, ImplementsFeed, Feed!FeedSpec
=============================================================================
