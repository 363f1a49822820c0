-------------------------- MODULE HttpProxyProofs --------------------------
(***************************************************************************)
(* HttpProxy for any requests and responses, any damage to them and any    *)
(* moment at which either side breaks off: a logged call shows the         *)
(* response that was relayed, complete.                                    *)
(*                                                                         *)
(* The inductive invariant RelayInv follows the response: as long as it is *)
(* relayed, the capture is what was written to the subprocess, a prefix of *)
(* the body; the handler gets to decoding only with all of it, and nothing *)
(* of it changes until it is logged.                                       *)
(***************************************************************************)
EXTENDS HttpProxy, SequenceTheorems, TLAPS

Waiting == {"reading", "copying", "connecting", "waiting", "receiving"}
Relayed == {"decoding", "decodingResponse", "notifying"}

Answered == resp \in Answers /\ avail \in 0 .. resp.len

Prefix ==
  /\ pc \in Waiting => got = <<>> /\ respbody = <<>>
  /\ Len(got) \in 0 .. avail /\ got = Whole(Len(got))

Captured ==
  /\ pc \in Waiting \cup {"relaying", "decoding", "decodingResponse"} => respbody = got
  /\ pc \in Relayed => Len(got) = resp.len
  /\ pc = "notifying" /\ ~Fails(resp) => responsebody = Decode(resp, Whole(resp.len)).out

Unlogged == pc \in Waiting \cup Relayed \cup {"relaying"} => httpCalls = <<>>

RelayInv == Answered /\ Prefix /\ Captured /\ Unlogged /\ LoggedIsRelayed

-----------------------------------------------------------------------------
LEMMA AnswerLength == \A r \in Answers : r.len \in Nat
BY ResponsesAssumption DEF Answers, NoResponse, BadGateway

(* A capture that is the front of a body stays so with the next chunk. *)
LEMMA NextChunk ==
  ASSUME NEW n \in Nat
  PROVE  Append(Whole(n), n + 1) = Whole(n + 1) /\ Len(Whole(n)) = n
<1>1. Whole(n) \in Seq(Nat) /\ Len(Whole(n)) = n
  BY DEF Whole
<1>2. Append(Whole(n), n + 1) \in Seq(Nat) /\ Len(Append(Whole(n), n + 1)) = n + 1
      /\ \A i \in 1 .. n + 1 : Append(Whole(n), n + 1)[i] = i
  BY <1>1 DEF Whole
<1>3. Whole(n + 1) \in Seq(Nat) /\ Len(Whole(n + 1)) = n + 1
      /\ \A i \in 1 .. n + 1 : Whole(n + 1)[i] = i
  BY DEF Whole
<1>4. \A i \in 1 .. Len(Append(Whole(n), n + 1)) :
        Append(Whole(n), n + 1)[i] = Whole(n + 1)[i]
  BY <1>2, <1>3
<1>. QED BY <1>1, <1>2, <1>3, <1>4, SeqEqual

LEMMA InitHolds == Init => RelayInv
<1>. SUFFICES ASSUME Init PROVE RelayInv
  OBVIOUS
<1>1. Answered
  BY DEF Init, Answered, Answers, NoResponse
<1>2. Whole(0) = <<>>
  BY DEF Whole
<1>3. Prefix
  BY <1>2 DEF Init, Prefix
<1>. QED BY <1>1, <1>3
         DEF Init, RelayInv, Captured, Unlogged, Relayed, LoggedIsRelayed, Logged

(* Steps that neither touch the response nor bring the handler to a step   *)
(* of its own in relaying it: those of the subprocess, of the writer, of   *)
(* the handler before the response and after it was logged or given up.    *)
LEMMA Elsewhere ==
  ASSUME RelayInv, UNCHANGED <<resp, avail, got, respbody, responsebody, httpCalls>>,
         \/ pc' = pc
         \/ pc \in Waiting /\ pc' \in Waiting
         \/ pc' \in {"announcing", "closing", "draining", "returned", "crashed"}
  PROVE  RelayInv'
<1>. USE DEF RelayInv
<1>1. Answered'
  BY DEF Answered
<1>2. Prefix'
  BY DEF Prefix, Waiting
<1>3. Captured'
  BY DEF Captured, Waiting, Relayed, Fails
<1>4. Unlogged'
  BY DEF Unlogged, Waiting, Relayed
<1>5. LoggedIsRelayed'
  BY DEF LoggedIsRelayed, Logged, Call, Fails
<1>. QED BY <1>1, <1>2, <1>3, <1>4, <1>5

(* The response comes, from the world or made up. *)
LEMMA AnswerStep ==
  ASSUME RelayInv, Respond \/ Receive \/ RoundTripFails
  PROVE  RelayInv'
<1>. USE DEF RelayInv
<1>1. /\ pc \in Waiting /\ pc' \in {"receiving", "relaying"}
      /\ UNCHANGED <<got, respbody, responsebody, httpCalls>>
  BY DEF Respond, Receive, RoundTripFails, FailStep, Waiting, logVars
<1>2. got = <<>> /\ respbody = <<>> /\ httpCalls = <<>> /\ Whole(0) = <<>>
  BY <1>1 DEF Prefix, Unlogged, Whole
<1>3. Answered'
  <2>1. CASE Respond
    BY <2>1 DEF Respond, Answered, Answers
  <2>2. CASE RoundTripFails
    BY <2>2 DEF RoundTripFails, Answered, Answers, BadGateway
  <2>3. CASE Receive
    BY <2>3, AnswerLength DEF Receive, Answered
  <2>. QED BY <2>1, <2>2, <2>3
<1>4. Prefix'
  BY <1>1, <1>2, <1>3, AnswerLength DEF Prefix, Answered, Waiting
<1>. QED BY <1>1, <1>2, <1>3, <1>4
         DEF Captured, Unlogged, LoggedIsRelayed, Logged, Waiting, Relayed

LEMMA RelayStep ==
  ASSUME RelayInv, Relay
  PROVE  RelayInv'
<1>. USE DEF RelayInv, Relay
<1>. DEFINE n == Len(got)
<1>1. n \in Nat /\ avail \in Nat /\ got = Whole(n) /\ respbody = got /\ httpCalls = <<>>
  BY AnswerLength DEF Answered, Prefix, Captured, Unlogged
<1>2. got' = Append(got, n + 1) /\ respbody' = Append(respbody, n + 1)
  BY DEF Tee
<1>3. got' = Whole(n + 1) /\ Len(got') = n + 1 /\ respbody' = got'
  <2>1. Append(Whole(n), n + 1) = Whole(n + 1) /\ Len(Whole(n + 1)) = n + 1
    <3>. HIDE DEF n
    <3>1. n + 1 \in Nat
      BY <1>1
    <3>. QED BY <1>1, <3>1, NextChunk
  <2>2. Append(got, n + 1) = Append(Whole(n), n + 1)
    BY <1>1
  <2>. HIDE DEF n
  <2>. QED BY <1>1, <1>2, <2>1, <2>2
<1>4. Answered'
  BY DEF Answered
<1>5. Prefix'
  BY <1>1, <1>3 DEF Prefix, Waiting
<1>. QED BY <1>1, <1>3, <1>4, <1>5
         DEF Captured, Unlogged, LoggedIsRelayed, Logged, Waiting, Relayed

(* From the end of the body to the entry in the log. *)
LEMMA LogStep ==
  ASSUME RelayInv, RelayEnds \/ DecodeRequest \/ DecodeResponse \/ Notify
  PROVE  RelayInv'
<1>. USE DEF RelayInv
<1>1. UNCHANGED <<resp, avail, got>>
  BY DEF RelayEnds, DecodeRequest, DecodeResponse, Notify, respVars
<1>2. Answered'
  BY <1>1 DEF Answered
<1>3. CASE RelayEnds \/ DecodeRequest
  <2>1. /\ pc \in {"relaying", "decoding"} /\ pc' \in {"decoding", "decodingResponse"}
        /\ UNCHANGED <<respbody, responsebody, httpCalls>>
        /\ Len(got) = resp.len
    BY <1>3 DEF RelayEnds, DecodeRequest, logVars, Captured, Relayed
  <2>. QED BY <1>1, <1>2, <2>1
           DEF Prefix, Captured, Unlogged, LoggedIsRelayed, Logged, Waiting, Relayed
<1>4. CASE DecodeResponse
  <2>1. /\ pc = "decodingResponse" /\ pc' = "notifying" /\ httpCalls' = httpCalls
        /\ responsebody' = Decode(resp, respbody).out
    BY <1>4 DEF DecodeResponse
  <2>2. Len(got) = resp.len /\ respbody = Whole(resp.len) /\ httpCalls = <<>>
    BY <2>1 DEF Captured, Prefix, Unlogged, Relayed
  <2>3. responsebody' = Decode(resp, Whole(resp.len)).out
    BY <2>1, <2>2
  <2>4. Decode(resp, Whole(resp.len))' = Decode(resp, Whole(resp.len))
    BY <1>1 DEF Decode, Damage, Whole, Raw, Decoded, Nothing, Partial
  <2>5. Captured'
    BY <1>1, <2>1, <2>2, <2>3, <2>4 DEF Captured, Waiting, Relayed
  <2>. QED BY <1>1, <1>2, <2>1, <2>2, <2>5
           DEF Prefix, Unlogged, LoggedIsRelayed, Logged, Waiting, Relayed
<1>5. CASE Notify
  <2>1. /\ pc = "notifying" /\ pc' = "announcing" /\ UNCHANGED <<respbody, responsebody>>
        /\ httpCalls' = Append(httpCalls, [request |-> requestbody, response |-> responsebody,
                                           status |-> resp.status])
    BY <1>5 DEF Notify
  <2>2. httpCalls = <<>> /\ got = Whole(resp.len)
        /\ (~Fails(resp) => responsebody = Decode(resp, Whole(resp.len)).out)
    BY <2>1 DEF Captured, Prefix, Unlogged, Relayed
  <2>3. Call' = [request |-> requestbody, response |-> responsebody, status |-> resp.status]
    BY <2>1, <2>2 DEF Call
  <2>4. Fails(resp)' = Fails(resp) /\ Decode(resp, Whole(resp.len))' = Decode(resp, Whole(resp.len))
    BY <1>1 DEF Fails, Decode, Damage, Whole, Raw, Decoded, Nothing, Partial
  <2>5. LoggedIsRelayed'
    BY <1>1, <2>2, <2>3, <2>4 DEF LoggedIsRelayed
  <2>. QED BY <1>1, <1>2, <2>1, <2>5
           DEF Prefix, Captured, Unlogged, Waiting, Relayed
<1>. QED BY <1>3, <1>4, <1>5

LEMMA NextHolds == RelayInv /\ [Next]_vars => RelayInv'
<1>. SUFFICES ASSUME RelayInv, [Next]_vars PROVE RelayInv'
  OBVIOUS
<1>. USE DEF respVars, logVars, Waiting
<1>1. CASE Subprocess
  BY <1>1, Elsewhere DEF Subprocess, SendChunk, Leave
<1>2. CASE Writer
  BY <1>2, Elsewhere DEF Writer, WriterRead, WriterFlush, WriterEnds, WriterBreaks
<1>3. CASE Retry
  BY <1>3, Elsewhere DEF Retry
<1>4. CASE ReadFails \/ ReadRequest \/ CopyChunk \/ CopyEnds \/ Connect
  BY <1>4, Elsewhere DEF ReadFails, ReadRequest, CopyChunk, CopyEnds, Connect
<1>5. CASE RelayFails \/ RacePanics \/ NotifyReturns \/ CloseResponse \/ CloseConn
  BY <1>5, Elsewhere DEF RelayFails, RelayError, RacePanics, NotifyReturns, CloseResponse, CloseConn
<1>6. CASE UNCHANGED vars
  BY <1>6, Elsewhere DEF vars
<1>. QED BY <1>1, <1>2, <1>3, <1>4, <1>5, <1>6, AnswerStep, RelayStep, LogStep
         DEF Next, Handler, World

(* A call in the log has the status of the response that was relayed, all  *)
(* of whose body was written to the subprocess, and shows that body        *)
(* (http.go:265-306).                                                      *)
THEOREM LogShowsWhatWasRelayed == Spec => []LoggedIsRelayed
<1>1. RelayInv => LoggedIsRelayed
  BY DEF RelayInv
<1>. QED BY <1>1, InitHolds, NextHolds, PTL DEF Spec

-----------------------------------------------------------------------------
(* The request's way: from the connection through the tee into the         *)
(* capture, HAR's copy and the writer to the world.                        *)

Unsent == pc \in {"reading", "copying", "connecting"}

Drawing ==
  /\ Unsent => writer = "idle" /\ buffered = <<>> /\ ~flushed
  /\ pc \in {"reading", "copying"} => source = "conn" /\ drawn = 0
  /\ pc = "reading" => taken = 0
  /\ pc = "copying" => setup.har
  /\ (pc = "connecting" \/ writer = "sending") /\ source = "conn" => drawn = taken
  /\ source = "copy" => setup.har /\ taken = request.len
  /\ reused => setup.reuse
  /\ ~flushed => heard = <<>> /\ ~ended
  /\ ended => writer \notin {"idle", "sending"} /\ taken = request.len /\ source # "closed"

TypeInv == TypeOK /\ Drawing

LEMMA RequestType ==
  ASSUME TypeOK
  PROVE  /\ request.len \in Nat /\ request.encodings \in Seq(Encodings) /\ request.chunked \in BOOLEAN
         /\ setup.har \in BOOLEAN /\ setup.reuse \in BOOLEAN
         /\ sent \in Nat /\ taken \in Nat /\ drawn \in Nat
         /\ resp.len \in Nat /\ avail \in Nat /\ resp.status \in Nat /\ resp.encodings \in Seq(Encodings)
<1>1. request \in Requests /\ setup \in Setups /\ resp \in Answers
  BY DEF TypeOK
<1>2. request.len \in Nat /\ request.encodings \in Seq(Encodings) /\ request.chunked \in BOOLEAN
  BY <1>1, RequestsAssumption
<1>3. setup.har \in BOOLEAN /\ setup.reuse \in BOOLEAN
  BY <1>1, SetupsAssumption
<1>4. resp.len \in Nat
  BY <1>1, AnswerLength
<1>5. resp.status \in Nat /\ resp.encodings \in Seq(Encodings)
  <2>1. CASE resp \in Responses
    BY <2>1, ResponsesAssumption
  <2>2. CASE resp \in {NoResponse, BadGateway}
    <3>1. resp.status \in {0, 502} /\ resp.encodings = <<>>
      BY <2>2 DEF NoResponse, BadGateway
    <3>. QED BY <3>1
  <2>. QED BY <1>1, <2>1, <2>2 DEF Answers
<1>6. sent \in Nat /\ taken \in Nat /\ drawn \in Nat /\ avail \in Nat
  BY <1>2, <1>4 DEF TypeOK
<1>. QED BY <1>2, <1>3, <1>4, <1>5, <1>6

(* What decodeContent returns and leaves. *)
LEMMA DecodeType ==
  ASSUME NEW m, m.encodings \in Seq(Encodings), NEW q \in Seq(Nat)
  PROVE  /\ Decode(m, q).out \in Body /\ Decode(m, q).rest \in Seq(Nat)
         /\ Raw(Decode(m, q).rest) \in Body
<1>1. /\ Raw(q) \in Body /\ Nothing \in Body /\ Partial \in Body /\ Decoded(q) \in Body
      /\ <<>> \in Seq(Nat)
  BY DEF Raw, Nothing, Partial, Decoded, Body, Forms
<1>2. q # <<>> => Tail(q) \in Seq(Nat)
  OBVIOUS
<1>3. Decode(m, q).out \in Body /\ Decode(m, q).rest \in Seq(Nat)
  BY <1>1, <1>2 DEF Decode
<1>. QED BY <1>3 DEF Raw, Body, Forms

LEMMA TypeInit == Init => TypeInv
<1>. SUFFICES ASSUME Init PROVE TypeInv
  OBVIOUS
<1>1. Nothing \in Body
  BY DEF Nothing, Raw, Body, Forms
<1>2. request \in Requests /\ request.len \in Nat
  BY RequestsAssumption DEF Init
<1>3. resp \in Answers /\ avail \in 0 .. resp.len
  BY DEF Init, Answers, NoResponse
<1>4. TypeOK
  <2>1. /\ taken \in 0 .. sent /\ sent \in 0 .. request.len /\ drawn \in 0 .. request.len
        /\ writer = "sending" /\ source = "conn" => drawn = taken
    BY <1>2 DEF Init
  <2>2. /\ reqbody \in Seq(Nat) /\ buffered \in Seq(Nat) /\ heard \in Seq(Nat)
        /\ got \in Seq(Nat) /\ respbody \in Seq(Nat)
        /\ httpCalls \in Seq([request : Body, response : Body, status : Nat])
        /\ har \in Seq(Answers)
    BY DEF Init
  <2>. QED BY <1>1, <1>2, <1>3, <2>1, <2>2 DEF Init, TypeOK, Steps
<1>5. Drawing
  BY <1>2 DEF Init, Drawing, Unsent
<1>. QED BY <1>4, <1>5 DEF TypeInv

LEMMA TypeStep == TypeInv /\ [Next]_vars => TypeInv'
<1>. SUFFICES ASSUME TypeInv, [Next]_vars PROVE TypeInv'
  OBVIOUS
<1>0. /\ request.len \in Nat /\ request.chunked \in BOOLEAN
      /\ setup.har \in BOOLEAN /\ setup.reuse \in BOOLEAN
      /\ sent \in Nat /\ taken \in Nat /\ drawn \in Nat /\ resp.len \in Nat /\ avail \in Nat
  BY RequestType DEF TypeInv
<1>. USE DEF TypeInv, TypeOK, Drawing, Unsent, Steps
<1>1. CASE Subprocess
  <2>1. CASE SendChunk
    BY <1>0, <2>1 DEF SendChunk, sendVars, respVars, logVars
  <2>2. CASE Leave
    BY <1>0, <2>2 DEF Leave, sendVars, respVars, logVars
  <2>. QED BY <1>1, <2>1, <2>2 DEF Subprocess
<1>2. CASE ReadFails \/ ReadRequest
  <2>1. CASE ReadFails
    BY <1>0, <2>1 DEF ReadFails, inVars, sendVars, respVars, logVars
  <2>2. CASE ReadRequest
    BY <1>0, <2>2 DEF ReadRequest, inVars, sendVars, respVars, logVars
  <2>. QED BY <1>2, <2>1, <2>2
<1>3. CASE CopyChunk
  BY <1>0, <1>3 DEF CopyChunk, Readable, Tee, inVars, sendVars, respVars, logVars
<1>4. CASE CopyEnds
  <2>1. CASE BrokenOff
    BY <1>0, <1>4, <2>1 DEF CopyEnds, inVars, respVars, logVars
  <2>2. CASE ~BrokenOff
    BY <1>0, <1>4, <2>2 DEF CopyEnds, inVars, respVars, logVars
  <2>. QED BY <2>1, <2>2
<1>5. CASE Connect
  BY <1>0, <1>5 DEF Connect, inVars, respVars, logVars
<1>6. CASE Retry
  BY <1>0, <1>6 DEF Retry, Rewound, Drained, inVars, respVars, logVars
<1>7. CASE WriterRead
  <2>1. drawn' = drawn + 1 /\ drawn < request.len /\ buffered' = Append(buffered, drawn')
        /\ buffered' \in Seq(Nat) /\ writer = "sending"
        /\ UNCHANGED <<pc, inVars, source, writer, reused, dialed, flushed, heard, ended, respVars, logVars>>
    BY <1>0, <1>7 DEF WriterRead
  <2>2. CASE source = "conn"
    <3>1. taken < sent /\ taken' = taken + 1 /\ reqbody' = Append(reqbody, taken')
      BY <1>7, <2>2 DEF WriterRead, Readable, Tee
    <3>2. reqbody' \in Seq(Nat) /\ taken' \in 0 .. sent
      BY <1>0, <3>1
    <3>. QED BY <1>0, <2>1, <2>2, <3>1, <3>2 DEF inVars, respVars, logVars
  <2>3. CASE source = "copy"
    <3>1. UNCHANGED <<taken, reqbody>>
      BY <1>7, <2>3 DEF WriterRead
    <3>. QED BY <1>0, <2>1, <2>3, <3>1 DEF inVars, respVars, logVars
  <2>. QED BY <1>7, <2>2, <2>3 DEF WriterRead
<1>8. CASE WriterFlush
  BY <1>0, <1>8 DEF WriterFlush, inVars, respVars, logVars
<1>9. CASE WriterEnds
  BY <1>0, <1>9 DEF WriterEnds, BodyError, inVars, respVars, logVars
<1>10. CASE WriterBreaks
  BY <1>0, <1>10 DEF WriterBreaks, inVars, respVars, logVars
<1>11. CASE Respond
  BY <1>0, <1>11, AnswerLength DEF Respond, Answers, inVars, sendVars, logVars
<1>12. CASE RoundTripFails
  <2>1. /\ pc' = "relaying" /\ writer' = "stopped" /\ dialed' = dialed \cup {DialTo(request)}
        /\ UNCHANGED <<setup, request, client, sent, taken, reqbody, source, drawn, buffered, reused, flushed,
                       heard, ended, early, got, respbody, requestbody, responsebody, httpCalls>>
    BY <1>12 DEF RoundTripFails, FailStep, inVars
  <2>2. resp' \in Answers /\ avail' \in 0 .. resp'.len
    BY <1>12 DEF RoundTripFails, BadGateway, Answers
  <2>3. har' \in Seq(Answers)
    BY <1>12 DEF RoundTripFails, NoResponse, Answers
  <2>4. TypeOK'
    BY <1>0, <2>1, <2>2, <2>3
  <2>5. Drawing'
    BY <1>0, <2>1
  <2>. QED BY <2>4, <2>5
<1>13. CASE Receive
  BY <1>0, <1>13 DEF Receive, EntryOf, NoResponse, Answers, inVars, sendVars
<1>14. CASE Relay
  BY <1>0, <1>14 DEF Relay, Tee, inVars, sendVars
<1>15. CASE RelayFails \/ RelayEnds \/ RacePanics \/ NotifyReturns \/ CloseResponse \/ CloseConn
  <2>1. CASE RelayFails \/ RelayEnds \/ NotifyReturns \/ CloseConn
    <3>1. /\ pc' \in {"closing", "decoding", "returned"}
          /\ UNCHANGED <<inVars, taken, reqbody, sendVars, respVars, logVars>>
      BY <2>1 DEF RelayFails, RelayError, RelayEnds, NotifyReturns, CloseConn
    <3>. QED BY <1>0, <3>1 DEF inVars, sendVars, respVars, logVars
  <2>2. CASE RacePanics
    BY <1>0, <2>2 DEF RacePanics, inVars, sendVars, respVars, logVars
  <2>3. CASE CloseResponse
    BY <1>0, <2>3 DEF CloseResponse, inVars, respVars, logVars
  <2>. QED BY <1>15, <2>1, <2>2, <2>3
<1>16. CASE DecodeRequest
  <2>1. Decode(request, reqbody).out \in Body /\ Decode(request, reqbody).rest \in Seq(Nat)
        /\ Raw(Decode(request, reqbody).rest) \in Body
    BY DecodeType, RequestType
  <2>2. Torn \in Body
    BY DEF Torn, Body, Forms
  <2>. QED BY <1>0, <1>16, <2>1, <2>2 DEF DecodeRequest, inVars, sendVars, respVars
<1>17. CASE DecodeResponse
  <2>1. Decode(resp, respbody).out \in Body /\ Decode(resp, respbody).rest \in Seq(Nat)
        /\ Raw(reqbody) \in Body
    BY DecodeType, RequestType DEF Raw, Body, Forms
  <2>. QED BY <1>0, <1>17, <2>1 DEF DecodeResponse, inVars, sendVars, respVars
<1>18. CASE Notify
  <2>1. resp.status \in Nat
    BY RequestType
  <2>. QED BY <1>0, <1>18, <2>1 DEF Notify, inVars, sendVars, respVars
<1>19. CASE UNCHANGED vars
  BY <1>19 DEF vars, inVars, sendVars, respVars, logVars
<1>. QED BY <1>1, <1>2, <1>3, <1>4, <1>5, <1>6, <1>7, <1>8, <1>9, <1>10, <1>11, <1>12, <1>13, <1>14,
         <1>15, <1>16, <1>17, <1>18, <1>19 DEF Next, Handler, Writer, World

(* Every reachable state is well typed: above all, no side ever reads past *)
(* the end of a body, and as long as the writer reads from the connection  *)
(* it is where the connection is.                                          *)
THEOREM TypeCorrect == Spec => []TypeOK
<1>1. TypeInv => TypeOK
  BY DEF TypeInv
<1>. QED BY <1>1, TypeInit, TypeStep, PTL DEF Spec

-----------------------------------------------------------------------------
(* Up to its decoding the capture is what was read of the body, and until  *)
(* the body breaks off, what the world has and what the writer holds back  *)
(* is what the writer drew: unless a transport that sends HAR's copy       *)
(* retries.                                                                *)
Capturing ==
  pc \in Waiting \cup {"relaying", "decoding"} /\ source # "closed" => reqbody = Whole(taken)

Retriable == setup.har /\ setup.reuse

Carrying == ~Retriable =>
  /\ BodyError \/ heard \o buffered = Whole(drawn)
  /\ WorldGetsBody

BodyInv == TypeInv /\ Capturing /\ Carrying

LEMMA CaptureStep == BodyInv /\ [Next]_vars => Capturing'
<1>. SUFFICES ASSUME BodyInv, [Next]_vars,
                     pc' \in Waiting \cup {"relaying", "decoding"}, source' # "closed"
              PROVE  reqbody' = Whole(taken')
  BY DEF Capturing
<1>0. taken \in Nat /\ Capturing
  BY RequestType DEF BodyInv, TypeInv
<1>1. CASE UNCHANGED <<pc, source, taken, reqbody>>
  BY <1>0, <1>1 DEF Capturing
<1>2. ASSUME pc \in Waiting \cup {"relaying", "decoding"}, source # "closed",
             taken' = taken + 1, reqbody' = Tee(reqbody, taken')
      PROVE  reqbody' = Whole(taken')
  BY <1>0, <1>2, NextChunk DEF Capturing, Tee
<1>3. CASE CopyChunk
  BY <1>2, <1>3 DEF CopyChunk, Waiting, BodyInv, TypeInv, Drawing
<1>4. CASE WriterRead
  <2>1. pc' = pc /\ source' = source
    BY <1>4 DEF WriterRead
  <2>2. CASE UNCHANGED <<taken, reqbody>>
    BY <1>1, <2>1, <2>2
  <2>3. CASE taken' = taken + 1 /\ reqbody' = Tee(reqbody, taken')
    BY <1>2, <2>1, <2>3
  <2>. QED BY <1>4, <2>2, <2>3 DEF WriterRead
<1>5. CASE CopyEnds
  <2>1. pc = "copying" /\ source = "conn" /\ UNCHANGED <<taken, reqbody>>
    BY <1>5 DEF CopyEnds, BodyInv, TypeInv, Drawing
  <2>. QED BY <1>0, <2>1 DEF Capturing, Waiting
<1>6. CASE Retry
  <2>1. pc = "waiting" /\ UNCHANGED <<source, taken, reqbody>>
    BY <1>6 DEF Retry
  <2>. QED BY <1>0, <2>1 DEF Capturing, Waiting
<1>7. CASE DecodeRequest \/ DecodeResponse \/ Notify \/ NotifyReturns \/ CloseResponse \/ CloseConn
           \/ RelayFails \/ RacePanics \/ ReadFails
  BY <1>7 DEF DecodeRequest, DecodeResponse, Notify, NotifyReturns, CloseResponse, CloseConn, RelayFails,
     RelayError, RacePanics, ReadFails, Waiting
<1>8. CASE ReadRequest \/ Connect \/ RoundTripFails \/ Respond \/ Receive \/ Relay \/ RelayEnds
  <2>1. pc \in Waiting \cup {"relaying", "decoding"} /\ UNCHANGED <<source, taken, reqbody>>
    BY <1>8 DEF ReadRequest, Connect, RoundTripFails, Respond, Receive, Relay, RelayEnds, Waiting, sendVars
  <2>. QED BY <1>0, <2>1 DEF Capturing
<1>9. CASE Subprocess \/ WriterFlush \/ WriterEnds \/ WriterBreaks \/ UNCHANGED vars
  BY <1>1, <1>9 DEF Subprocess, SendChunk, Leave, WriterFlush, WriterEnds, WriterBreaks, vars, sendVars
<1>. QED BY <1>3, <1>4, <1>5, <1>6, <1>7, <1>8, <1>9 DEF Next, Handler, Writer, World

(* A body that broke off stays broken off. *)
LEMMA BrokenStays ==
  ASSUME TypeInv, Next, BodyError
  PROVE  BodyError' /\ ~WriterRead
<1>. USE DEF TypeInv, TypeOK
<1>0. sent \in Nat /\ taken \in Nat /\ request.len \in Nat
  BY RequestType
<1>1. ~WriterRead
  BY <1>0 DEF BodyError, BrokenOff, WriterRead, Readable
<1>2. (~CopyChunk /\ ~SendChunk) \/ source = "closed"
  BY <1>0 DEF BodyError, BrokenOff, CopyChunk, SendChunk, Readable
<1>3. CASE Retry
  BY <1>1, <1>3 DEF Retry, BodyError, BrokenOff, inVars
<1>4. CASE CopyEnds
  BY <1>1, <1>4 DEF CopyEnds, BodyError, BrokenOff, inVars, Drawing
<1>5. CASE UNCHANGED <<source, client, request, sent, taken>>
  BY <1>1, <1>5 DEF BodyError, BrokenOff
<1>6. CASE source = "closed"
  <2>1. source' = "closed"
    BY <1>6 DEF Next, Handler, Writer, World, Subprocess, SendChunk, Leave, ReadFails, ReadRequest, CopyChunk,
       CopyEnds, Connect, Retry, WriterRead, WriterFlush, WriterEnds, WriterBreaks, RoundTripFails, Respond,
       Receive, Relay, RelayFails, RelayEnds, DecodeRequest, RacePanics, DecodeResponse, Notify,
       NotifyReturns, CloseResponse, CloseConn, sendVars, Drawing
  <2>. QED BY <1>1, <2>1 DEF BodyError
<1>7. CASE Leave
  BY <1>1, <1>7 DEF Leave, BodyError, BrokenOff, sendVars
<1>8. CASE ReadFails \/ ReadRequest \/ Connect \/ Receive \/ Relay \/ RelayFails \/ RelayEnds \/ DecodeRequest
           \/ RacePanics \/ DecodeResponse \/ Notify \/ NotifyReturns \/ CloseResponse \/ CloseConn
  BY <1>5, <1>8 DEF ReadFails, ReadRequest, Connect, Receive, Relay, RelayFails, RelayEnds, DecodeRequest,
     RacePanics, DecodeResponse, Notify, NotifyReturns, CloseResponse, CloseConn, inVars, sendVars
<1>9. CASE WriterFlush \/ WriterEnds \/ WriterBreaks \/ Respond \/ RoundTripFails
  BY <1>5, <1>9 DEF WriterFlush, WriterEnds, WriterBreaks, Respond, RoundTripFails, inVars, sendVars
<1>. QED BY <1>1, <1>2, <1>3, <1>4, <1>6, <1>7, <1>8, <1>9 DEF Next, Handler, Writer, World, Subprocess

LEMMA CarryStep == BodyInv /\ [Next]_vars => Carrying'
<1>. SUFFICES ASSUME BodyInv, [Next]_vars, ~Retriable'
              PROVE  (BodyError \/ heard \o buffered = Whole(drawn))' /\ WorldGetsBody'
  BY DEF Carrying
<1>0. /\ TypeInv /\ setup' = setup /\ request' = request
      /\ drawn \in Nat /\ taken \in Nat /\ sent \in Nat /\ request.len \in Nat
  BY RequestType DEF BodyInv, TypeInv, Next, Handler, Writer, World, Subprocess, SendChunk, Leave, ReadFails,
     ReadRequest, CopyChunk, CopyEnds, Connect, Retry, WriterRead, WriterFlush, WriterEnds, WriterBreaks,
     RoundTripFails, Respond, Receive, Relay, RelayFails, RelayEnds, DecodeRequest, RacePanics, DecodeResponse,
     Notify, NotifyReturns, CloseResponse, CloseConn, inVars, vars
<1>1. /\ ~Retriable /\ WorldGetsBody
      /\ BodyError \/ heard \o buffered = Whole(drawn)
  BY <1>0 DEF BodyInv, Carrying, Retriable
<1>2. heard \in Seq(Nat) /\ buffered \in Seq(Nat)
  BY <1>0 DEF TypeInv, TypeOK
<1>3. CASE UNCHANGED <<heard, buffered, drawn, ended>>
  <2>1. BodyError => BodyError'
    <3>1. CASE UNCHANGED vars
      BY <3>1 DEF vars, inVars, sendVars, BodyError, BrokenOff
    <3>. QED BY <1>0, <3>1, BrokenStays
  <2>. QED BY <1>0, <1>1, <1>3, <2>1 DEF WorldGetsBody
<1>4. CASE CopyEnds
  <2>1. pc = "copying" /\ heard = <<>> /\ buffered = <<>> /\ ~ended /\ UNCHANGED <<heard, buffered, ended, sent, client, taken>>
    BY <1>0, <1>4 DEF CopyEnds, TypeInv, Drawing, Unsent, inVars
  <2>2. Whole(0) = <<>> /\ <<>> \o <<>> = <<>>
    BY DEF Whole
  <2>3. CASE BrokenOff
    BY <1>0, <1>4, <2>1, <2>3 DEF CopyEnds, BodyError, BrokenOff, WorldGetsBody
  <2>4. CASE ~BrokenOff
    BY <1>4, <2>1, <2>2, <2>4 DEF CopyEnds, WorldGetsBody
  <2>. QED BY <2>3, <2>4
<1>5. CASE Retry
  <2>1. heard = <<>> /\ buffered' = <<>> /\ ~ended /\ UNCHANGED <<heard, ended, drawn>> /\ reused
    BY <1>0, <1>5 DEF Retry, TypeInv, Drawing, Rewound
  <2>2. source # "copy"
    BY <1>0, <1>1, <2>1 DEF TypeInv, Drawing, Retriable
  <2>3. CASE drawn > 0
    <3>1. source' = "closed"
      BY <1>0, <1>5, <2>2, <2>3 DEF Retry
    <3>. QED BY <2>1, <3>1 DEF BodyError, WorldGetsBody
  <2>4. CASE drawn = 0
    <3>1. Whole(0) = <<>> /\ <<>> \o <<>> = <<>>
      BY DEF Whole
    <3>. QED BY <2>1, <2>4, <3>1 DEF WorldGetsBody
  <2>. QED BY <1>0, <2>3, <2>4
<1>6. CASE WriterRead
  <2>1. /\ ~BodyError /\ drawn' = drawn + 1 /\ buffered' = Append(buffered, drawn + 1)
        /\ heard' = heard /\ ended' = ended
    BY <1>0, <1>6, BrokenStays DEF WriterRead, Next, Writer
  <2>2. heard \o Append(buffered, drawn + 1) = Append(heard \o buffered, drawn + 1)
    BY <1>0, <1>2
  <2>3. Append(Whole(drawn), drawn + 1) = Whole(drawn + 1)
    BY <1>0, NextChunk
  <2>. QED BY <1>0, <1>1, <2>1, <2>2, <2>3 DEF WorldGetsBody
<1>7. CASE WriterFlush
  <2>1. /\ heard' = heard \o buffered /\ buffered' = <<>> /\ drawn' = drawn /\ ended' = ended /\ writer = "sending"
        /\ UNCHANGED <<source, client, sent, taken>>
    BY <1>7 DEF WriterFlush, inVars
  <2>2. ~ended
    BY <1>0, <2>1 DEF TypeInv, Drawing
  <2>3. heard \o buffered \in Seq(Nat)
    BY <1>2
  <2>4. (heard \o buffered) \o <<>> = heard \o buffered
    BY <2>3
  <2>. QED BY <1>0, <1>1, <2>1, <2>2, <2>4 DEF WorldGetsBody, BodyError, BrokenOff
<1>8. CASE WriterEnds
  <2>1. /\ UNCHANGED <<heard, buffered, drawn, source, client, sent, taken>>
        /\ ~BodyError /\ buffered = <<>> /\ drawn = request.len
    BY <1>8 DEF WriterEnds, inVars
  <2>2. heard = Whole(request.len)
    BY <1>1, <1>2, <2>1
  <2>. QED BY <1>0, <1>1, <2>1, <2>2 DEF WorldGetsBody
<1>9. CASE Subprocess
  BY <1>3, <1>9 DEF Subprocess, SendChunk, Leave, sendVars
<1>10. CASE ReadFails \/ ReadRequest \/ CopyChunk \/ Connect \/ Receive \/ Relay \/ RelayFails \/ RelayEnds
            \/ DecodeRequest \/ RacePanics \/ DecodeResponse \/ Notify \/ NotifyReturns
            \/ CloseResponse \/ CloseConn
  BY <1>3, <1>10 DEF ReadFails, ReadRequest, CopyChunk, Connect, Receive, Relay, RelayFails, RelayEnds,
     DecodeRequest, RacePanics, DecodeResponse, Notify, NotifyReturns, CloseResponse, CloseConn, sendVars
<1>11. CASE WriterBreaks \/ Respond \/ RoundTripFails \/ UNCHANGED vars
  BY <1>3, <1>11 DEF WriterBreaks, Respond, RoundTripFails, sendVars, vars
<1>. QED BY <1>4, <1>5, <1>6, <1>7, <1>8, <1>9, <1>10, <1>11 DEF Next, Handler, Writer, World

LEMMA BodyInvariant == Spec => []BodyInv
<1>1. Init => BodyInv
  <2>. SUFFICES ASSUME Init PROVE BodyInv
    OBVIOUS
  <2>1. Whole(0) = <<>> /\ <<>> \o <<>> = <<>>
    BY DEF Whole
  <2>. QED BY <2>1, TypeInit DEF Init, BodyInv, Capturing, Carrying, WorldGetsBody
<1>2. BodyInv /\ [Next]_vars => BodyInv'
  BY TypeStep, CaptureStep, CarryStep DEF BodyInv
<1>. QED BY <1>1, <1>2, PTL DEF Spec

(* A request that ends for the world is the one the subprocess sent,       *)
(* wherever its body breaks off and whichever idle connection was stale,   *)
(* as long as the transport with idle connections does not send HAR's copy.*)
THEOREM WorldGetsWhatWasSent == Spec => [](Retriable \/ WorldGetsBody)
<1>1. BodyInv => Retriable \/ WorldGetsBody
  BY DEF BodyInv, Carrying
<1>. QED BY <1>1, BodyInvariant, PTL

-----------------------------------------------------------------------------
(* From a response that came after the whole request on, the capture is    *)
(* the whole body and nobody appends to it: what it decodes to is what     *)
(* the log will show.                                                      *)
Heeded == ~early /\ resp # BadGateway
Inspected == requestbody = Decode(request, Whole(request.len)).out

Inspecting ==
  /\ pc \in {"receiving", "relaying"} \cup Relayed /\ Heeded => ended
  /\ pc = "decodingResponse" /\ Heeded /\ ~Fails(request) => Inspected
  /\ pc = "notifying" /\ Heeded /\ ~Fails(request) /\ ~Fails(resp) => Inspected

LogInv == BodyInv /\ RelayInv /\ Inspecting /\ LoggedRequestIsWhole

LEMMA EndStays ==
  ASSUME TypeInv, [Next]_vars, ended
  PROVE  ended'
BY DEF TypeInv, Drawing, Next, Handler, Writer, World, Subprocess, SendChunk, Leave, ReadFails, ReadRequest,
   CopyChunk, CopyEnds, Connect, Retry, WriterRead, WriterFlush, WriterEnds, WriterBreaks, RoundTripFails,
   Respond, Receive, Relay, RelayFails, RelayEnds, DecodeRequest, RacePanics, DecodeResponse, Notify,
   NotifyReturns, CloseResponse, CloseConn, sendVars, vars

LEMMA RequestStays == [Next]_vars => request' = request /\ setup' = setup
BY DEF Next, Handler, Writer, World, Subprocess, SendChunk, Leave, ReadFails, ReadRequest,
   CopyChunk, CopyEnds, Connect, Retry, WriterRead, WriterFlush, WriterEnds, WriterBreaks, RoundTripFails,
   Respond, Receive, Relay, RelayFails, RelayEnds, DecodeRequest, RacePanics, DecodeResponse, Notify,
   NotifyReturns, CloseResponse, CloseConn, inVars, vars

(* Decoding looks at nothing but the message and the bytes. *)
LEMMA SameDecoding ==
  ASSUME NEW m, NEW n, m' = m, n' = n
  PROVE  Decode(m, Whole(n))' = Decode(m, Whole(n))
OBVIOUS

LEMMA LogsRequest == LogInv /\ [Next]_vars => Inspecting' /\ LoggedRequestIsWhole'
<1>. SUFFICES ASSUME LogInv, [Next]_vars PROVE Inspecting' /\ LoggedRequestIsWhole'
  OBVIOUS
<1>0. /\ TypeInv /\ BodyInv /\ RelayInv /\ Inspecting /\ LoggedRequestIsWhole
      /\ request' = request /\ (ended => ended')
      /\ Fails(request)' = Fails(request)
      /\ Decode(request, Whole(request.len))' = Decode(request, Whole(request.len))
  <2>1. TypeInv /\ BodyInv /\ RelayInv /\ Inspecting /\ LoggedRequestIsWhole
    BY DEF LogInv, BodyInv
  <2>2. request' = request /\ (ended => ended')
    BY <2>1, EndStays, RequestStays
  <2>3. Decode(request, Whole(request.len))' = Decode(request, Whole(request.len))
    BY <2>2 DEF Decode, Damage, Whole, Raw, Decoded, Nothing, Partial
  <2>4. Fails(request)' = Fails(request)
    BY <2>3 DEF Fails
  <2>. QED BY <2>1, <2>2, <2>3, <2>4
<1>1. ASSUME UNCHANGED <<early, resp, httpCalls, requestbody>>,
             \/ pc' = pc
             \/ pc' \in {"reading", "copying", "connecting", "waiting"}
             \/ pc' \in {"announcing", "closing", "draining", "returned", "crashed"}
      PROVE  Inspecting' /\ LoggedRequestIsWhole'
  BY <1>0, <1>1 DEF Inspecting, LoggedRequestIsWhole, Logged, Call, Heeded, Inspected, Fails, Waiting, Relayed
<1>2. CASE Subprocess \/ Writer
  BY <1>1, <1>2 DEF Subprocess, SendChunk, Leave, Writer, WriterRead, WriterFlush, WriterEnds, WriterBreaks,
     respVars, logVars
<1>3. CASE ReadFails \/ ReadRequest \/ CopyChunk \/ CopyEnds \/ Connect \/ Retry
  <2>1. UNCHANGED <<early, resp, httpCalls, requestbody>>
    BY <1>3 DEF ReadFails, ReadRequest, CopyChunk, CopyEnds, Connect, Retry, respVars, logVars
  <2>2. pc' = pc \/ pc' \in {"returned", "copying", "connecting", "waiting"}
    BY <1>3 DEF ReadFails, ReadRequest, CopyChunk, CopyEnds, Connect, Retry
  <2>. QED BY <1>1, <2>1, <2>2
<1>4. CASE Relay \/ RelayFails \/ RacePanics \/ NotifyReturns \/ CloseResponse \/ CloseConn \/ UNCHANGED vars
  <2>1. UNCHANGED <<early, resp, httpCalls, requestbody>>
    BY <1>4 DEF Relay, RelayFails, RacePanics, NotifyReturns, CloseResponse, CloseConn, vars, respVars, logVars
  <2>2. pc' = pc \/ pc' \in {"announcing", "closing", "draining", "returned", "crashed"}
    BY <1>4 DEF Relay, RelayFails, RelayError, RacePanics, NotifyReturns, CloseResponse, CloseConn, vars
  <2>. QED BY <1>1, <2>1, <2>2
<1>5. CASE RoundTripFails
  <2>1. pc' = "relaying" /\ resp' = BadGateway /\ httpCalls' = httpCalls
    BY <1>5 DEF RoundTripFails, FailStep
  <2>2. BadGateway' = BadGateway
    BY DEF BadGateway
  <2>. QED BY <1>0, <2>1, <2>2 DEF Inspecting, LoggedRequestIsWhole, Heeded, Relayed
<1>6. CASE Respond
  <2>1. pc = "waiting" /\ pc' \in {"receiving", "relaying"} /\ early' = ~ended /\ httpCalls' = httpCalls /\ ended' = ended
    BY <1>6 DEF Respond, logVars, sendVars
  <2>2. httpCalls = <<>>
    BY <1>0, <2>1 DEF RelayInv, Unlogged, Waiting
  <2>. QED BY <2>1, <2>2 DEF Inspecting, LoggedRequestIsWhole, Logged, Heeded, Relayed
<1>7. CASE Receive \/ RelayEnds
  <2>1. /\ pc \in {"receiving", "relaying"} /\ pc' \in {"relaying", "decoding"}
        /\ UNCHANGED <<early, resp, httpCalls>>
    BY <1>7 DEF Receive, RelayEnds, respVars, logVars
  <2>2. httpCalls = <<>>
    BY <1>0, <2>1 DEF RelayInv, Unlogged, Waiting
  <2>. QED BY <1>0, <2>1, <2>2 DEF Inspecting, LoggedRequestIsWhole, Logged, Heeded, Relayed
<1>8. CASE DecodeRequest
  <2>1. /\ pc = "decoding" /\ pc' = "decodingResponse" /\ UNCHANGED <<early, resp, httpCalls>>
        /\ \/ requestbody' = IF Decode(request, reqbody).err THEN Raw(Decode(request, reqbody).rest)
                                                            ELSE Decode(request, reqbody).out
           \/ Racing
    BY <1>8 DEF DecodeRequest, respVars
  <2>2. httpCalls = <<>>
    BY <1>0, <2>1 DEF RelayInv, Unlogged, Relayed
  <2>3. ASSUME Heeded', ~Fails(request)' PROVE Inspected'
    <3>1. Heeded /\ ~Fails(request)
      BY <1>0, <2>1, <2>3 DEF Heeded
    <3>2. ended
      BY <1>0, <2>1, <3>1 DEF Inspecting, Relayed
    <3>3. ~Racing /\ reqbody = Whole(request.len)
      BY <1>0, <2>1, <3>2 DEF TypeInv, Drawing, Racing, BodyInv, Capturing
    <3>4. requestbody' = Decode(request, Whole(request.len)).out
      BY <2>1, <3>1, <3>3 DEF Fails
    <3>. QED BY <1>0, <3>4 DEF Inspected
  <2>. QED BY <1>0, <2>1, <2>2, <2>3 DEF Inspecting, LoggedRequestIsWhole, Logged, Heeded, Relayed
<1>9. CASE DecodeResponse
  <2>1. /\ pc = "decodingResponse" /\ pc' = "notifying" /\ UNCHANGED <<early, resp, httpCalls>>
        /\ requestbody' = IF Decode(resp, respbody).err THEN Raw(reqbody) ELSE requestbody
    BY <1>9 DEF DecodeResponse, respVars
  <2>2. httpCalls = <<>> /\ respbody = Whole(resp.len)
    BY <1>0, <2>1 DEF RelayInv, Unlogged, Captured, Prefix, Relayed
  <2>3. ASSUME Heeded', ~Fails(request)', ~Fails(resp)' PROVE Inspected'
    <3>1. Heeded /\ ~Fails(request) /\ ~Fails(resp)
      BY <1>0, <2>1, <2>3 DEF Heeded, Fails
    <3>2. requestbody' = requestbody /\ Inspected
      BY <1>0, <2>1, <2>2, <3>1 DEF Fails, Inspecting
    <3>. QED BY <1>0, <3>2 DEF Inspected
  <2>. QED BY <1>0, <2>1, <2>2, <2>3 DEF Inspecting, LoggedRequestIsWhole, Logged, Heeded, Relayed
<1>10. CASE Notify
  <2>1. /\ pc = "notifying" /\ pc' = "announcing" /\ UNCHANGED <<early, resp, requestbody>>
        /\ httpCalls' = Append(httpCalls, [request |-> requestbody, response |-> responsebody,
                                           status |-> resp.status])
    BY <1>10 DEF Notify, respVars
  <2>2. httpCalls = <<>>
    BY <1>0, <2>1 DEF RelayInv, Unlogged, Relayed
  <2>3. Call'.request = requestbody
    BY <2>1, <2>2 DEF Call
  <2>4. Fails(resp)' = Fails(resp)
    BY <2>1 DEF Fails, Decode, Damage, Whole, Raw, Decoded, Nothing, Partial
  <2>5. LoggedRequestIsWhole'
    BY <1>0, <2>1, <2>3, <2>4 DEF LoggedRequestIsWhole, Inspecting, Heeded, Inspected
  <2>. QED BY <2>1, <2>5 DEF Inspecting, Relayed
<1>. QED BY <1>2, <1>3, <1>4, <1>5, <1>6, <1>7, <1>8, <1>9, <1>10 DEF Next, Handler, World

(* http.go:224 and 275: if the world had all of the request before it      *)
(* answered, the log shows the whole request body.                         *)
THEOREM LogShowsTheRequest == Spec => []LoggedRequestIsWhole
<1>1. Init => LogInv
  <2>. SUFFICES ASSUME Init PROVE LogInv
    OBVIOUS
  <2>1. Whole(0) = <<>> /\ <<>> \o <<>> = <<>>
    BY DEF Whole
  <2>. QED BY <2>1, TypeInit, InitHolds
           DEF Init, LogInv, BodyInv, Capturing, Carrying, WorldGetsBody, Inspecting, LoggedRequestIsWhole, Logged, Relayed
<1>2. LogInv /\ [Next]_vars => LogInv'
  BY TypeStep, CaptureStep, CarryStep, NextHolds, LogsRequest DEF LogInv, BodyInv
<1>3. LogInv => LoggedRequestIsWhole
  BY DEF LogInv
<1>. QED BY <1>1, <1>2, <1>3, PTL DEF Spec

-----------------------------------------------------------------------------
(* The HAR log gets its entry when the round trip ends, before the handler *)
(* relays; one without a response is for a 502 of the proxy or for a body  *)
(* that breaks off, which is never logged.                                 *)
Entered == har = <<resp>> \/ (har = <<NoResponse>> /\ (resp = BadGateway \/ avail < resp.len))

Entries == setup.har =>
  /\ pc \in Waiting => har = <<>>
  /\ pc \in {"relaying"} \cup Relayed => Entered
  /\ HarHasTheCall

EntryInv == TypeInv /\ RelayInv /\ Entries

LEMMA EntryStep == EntryInv /\ [Next]_vars => Entries'
<1>. SUFFICES ASSUME EntryInv, [Next]_vars, setup.har PROVE Entries'
  BY RequestStays DEF Entries
<1>0. TypeInv /\ RelayInv /\ Entries /\ setup' = setup /\ avail \in Nat /\ resp.len \in Nat
  BY RequestStays, RequestType DEF EntryInv, TypeInv
<1>1. ASSUME UNCHANGED <<resp, avail, har, httpCalls>>,
             \/ pc' = pc
             \/ pc \in Waiting /\ pc' \in Waiting
             \/ pc \in {"relaying"} \cup Relayed /\ pc' \in Relayed
             \/ pc' \in {"announcing", "closing", "draining", "returned", "crashed"}
      PROVE  Entries'
  BY <1>0, <1>1 DEF Entries, Entered, HarHasTheCall, Logged, Waiting, Relayed, NoResponse, BadGateway
<1>. USE DEF Waiting, Relayed
<1>2. CASE Subprocess \/ Writer
  BY <1>1, <1>2 DEF Subprocess, SendChunk, Leave, Writer, WriterRead, WriterFlush, WriterEnds, WriterBreaks,
     respVars, logVars
<1>3. CASE ReadFails \/ ReadRequest \/ CopyChunk \/ CopyEnds \/ Connect \/ Retry
  BY <1>1, <1>3 DEF ReadFails, ReadRequest, CopyChunk, CopyEnds, Connect, Retry, respVars, logVars
<1>4. CASE Relay \/ RelayFails \/ RelayEnds \/ RacePanics \/ NotifyReturns \/ CloseResponse
            \/ CloseConn \/ UNCHANGED vars
  BY <1>1, <1>4 DEF Relay, RelayFails, RelayError, RelayEnds, RacePanics, NotifyReturns, CloseResponse,
     CloseConn, vars, respVars, logVars
<1>5. CASE DecodeRequest \/ DecodeResponse
  BY <1>1, <1>5 DEF DecodeRequest, DecodeResponse, respVars
<1>6. CASE RoundTripFails
  <2>1. /\ pc \in Waiting /\ pc' = "relaying" /\ resp' = BadGateway /\ httpCalls' = httpCalls
        /\ har' = Append(har, NoResponse)
    BY <1>6 DEF RoundTripFails, FailStep
  <2>2. har = <<>> /\ httpCalls = <<>>
    BY <1>0, <2>1 DEF Entries, RelayInv, Unlogged
  <2>3. har' = <<NoResponse>> /\ httpCalls' = <<>>
    BY <2>1, <2>2
  <2>. QED BY <2>1, <2>3 DEF Entries, Entered, HarHasTheCall, Logged, NoResponse, BadGateway
<1>7. CASE Respond
  <2>1. pc = "waiting" /\ pc' = "receiving" /\ UNCHANGED <<httpCalls, har>>
    BY <1>7 DEF Respond, logVars
  <2>2. har' = <<>> /\ httpCalls' = <<>>
    BY <1>0, <2>1 DEF Entries, RelayInv, Unlogged
  <2>. QED BY <2>1, <2>2 DEF Entries, HarHasTheCall, Logged
<1>8. CASE Receive
  <2>1. /\ pc = "receiving" /\ pc' = "relaying" /\ UNCHANGED <<resp, httpCalls>>
        /\ avail' = (IF avail = resp.len THEN avail ELSE 0)
        /\ har' = Append(har, IF avail = resp.len THEN resp ELSE NoResponse)
    BY <1>8 DEF Receive, EntryOf
  <2>2. /\ har' = <<IF avail = resp.len THEN resp ELSE NoResponse>> /\ httpCalls' = <<>>
    BY <1>0, <2>1 DEF Entries, RelayInv, Unlogged
  <2>3. avail <= resp.len
    BY <1>0 DEF TypeInv, TypeOK
  <2>4. Entered'
    <3>1. CASE avail = resp.len
      BY <2>1, <2>2, <3>1 DEF Entered
    <3>2. CASE avail # resp.len
      <4>1. avail' = 0 /\ har' = <<NoResponse>> /\ resp' = resp
        BY <2>1, <2>2, <3>2
      <4>2. 0 < resp.len
        BY <1>0, <2>3, <3>2
      <4>. QED BY <4>1, <4>2 DEF Entered, NoResponse
    <3>. QED BY <3>1, <3>2
  <2>. QED BY <2>1, <2>2, <2>4 DEF Entries, HarHasTheCall, Logged
<1>9. CASE Notify
  <2>1. pc = "notifying" /\ pc' = "announcing" /\ UNCHANGED <<resp, avail, har>>
    BY <1>9 DEF Notify, respVars
  <2>2. avail = resp.len
    BY <1>0, <2>1 DEF RelayInv, Captured, Prefix, Answered
  <2>3. har = <<resp>> \/ (har = <<NoResponse>> /\ resp = BadGateway)
    BY <1>0, <2>1, <2>2 DEF Entries, Entered
  <2>4. NoResponse' = NoResponse /\ BadGateway' = BadGateway
    BY DEF NoResponse, BadGateway
  <2>. QED BY <2>1, <2>3, <2>4 DEF Entries, HarHasTheCall
<1>. QED BY <1>2, <1>3, <1>4, <1>5, <1>6, <1>7, <1>8, <1>9 DEF Next, Handler, World

(* With --dump-har, a call in the log of calls has exactly one entry in    *)
(* the HAR log, with the same response or, for a 502 of the proxy's own,   *)
(* with none.                                                              *)
THEOREM HarAgreesWithTheLog == Spec => []HarHasTheCall
<1>1. Init => EntryInv
  BY TypeInit, InitHolds DEF Init, EntryInv, Entries, Waiting, Relayed, HarHasTheCall, Logged
<1>2. EntryInv /\ [Next]_vars => EntryInv'
  BY TypeStep, NextHolds, EntryStep DEF EntryInv
<1>3. EntryInv => HarHasTheCall
  BY DEF EntryInv, Entries, HarHasTheCall
<1>. QED BY <1>1, <1>2, <1>3, PTL DEF Spec
=============================================================================
