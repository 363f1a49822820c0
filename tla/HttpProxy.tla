----------------------------- MODULE HttpProxy -----------------------------
(***************************************************************************)
(* One intercepted HTTP or HTTPS connection (http.go:88-324): the handler  *)
(* proxyHTTPScheme, the transport it gives the request to, with the pinned *)
(* dialer of httptap.go:599-627 and, with --dump-har, the HAR middleware   *)
(* of pkg/harlog around it, the subprocess at one end and a server, the    *)
(* WORLD, at the other.                                                    *)
(*                                                                         *)
(* http.Transport is modelled from how it is used: it dials or reuses an   *)
(* idle connection, copies the request body from a goroutine of its own,   *)
(* the WRITER, and returns as soon as the response's header is there,      *)
(* which may be before the body was copied.  (This is its HTTP/1.1 side;   *)
(* of its retries, the one for requests that need not be idempotent.)      *)
(*                                                                         *)
(* Bodies are sequences of chunks 1, 2, ...; the first chunk of a gzip     *)
(* body holds its header.                                                  *)
(***************************************************************************)
EXTENDS Naturals, Sequences

CONSTANTS
  Requests,  \* requests of the subprocess
  Responses, \* answers of the world
  LocalAddr, \* the address the subprocess connected to
  NoHost,    \* Host header and URL without a host
  NoPort,    \* a host without a port
  Special,   \* host.httptap.local and 169.254.77.65, which stand for ...
  Loopback,  \* ... 127.0.0.1
  Https,     \* port 443
  Setups     \* whether --dump-har was given, and whether the transport may
             \* have idle connections: records with har and reuse

Damages == {"none", "header", "data"}
Encodings == {"gzip", "other"}

ASSUME RequestsAssumption ==
  \A q \in Requests :
    q.encodings \in Seq(Encodings) /\ q.len \in Nat /\ q.damage \in Damages
    /\ q.chunked \in BOOLEAN
ASSUME ResponsesAssumption ==
  \A r \in Responses :
    r.status \in Nat /\ r.encodings \in Seq(Encodings) /\ r.len \in Nat
    /\ r.damage \in Damages
ASSUME SetupsAssumption == Setups \subseteq [har : BOOLEAN, reuse : BOOLEAN]

VARIABLES
  pc,           \* the handler's next step
  setup,        \* how httptap was started
  request,      \* what the subprocess asks
  client,       \* the subprocess's end of the connection
  sent,         \* chunks of the request body it has sent
  taken,        \* chunks read from the connection
  reqbody,      \* the capture of the request body: what is in the buffer
  source,       \* what req.Body reads: the connection, HAR's copy, or nothing
  drawn,        \* chunks the writer has taken from source
  writer,       \* the transport's writer
  buffered,     \* chunks in the writer's bufio.Writer
  reused,       \* whether the transport's connection was an idle one
  dialed,       \* the addresses dialed
  flushed,      \* whether the world has got the header of the request ...
  heard,        \* ... what it has got of its body ...
  ended,        \* ... and whether it takes it for complete
  early,        \* history: the response came before that
  resp,         \* the response
  avail,        \* chunks that can be read of its body
  got,          \* chunks of the response written to the subprocess
  respbody,     \* the capture of the response body
  requestbody, responsebody, \* what the log will say
  httpCalls,    \* the call as it was logged
  har           \* the entry as it was logged

inVars == <<setup, request, client, sent>>
sendVars == <<source, drawn, writer, buffered, reused, dialed, flushed, heard, ended>>
respVars == <<early, resp, avail, got>>
logVars == <<respbody, requestbody, responsebody, httpCalls, har>>
vars == <<pc, inVars, taken, reqbody, sendVars, respVars, logVars>>

Whole(n) == [i \in 1 .. n |-> i]

NoResponse == [status |-> 0, encodings |-> <<>>, len |-> 0, damage |-> "none"]

(* What the log shows of a body: nothing, the bytes, the decoded bytes,    *)
(* some decoded bytes, or what a data race leaves of them.                 *)
Raw(q) == [form |-> "raw", data |-> q]
Nothing == Raw(<<>>)
Decoded(q) == [form |-> "decoded", data |-> q]
Partial == [form |-> "partial", data |-> <<>>]
Torn == [form |-> "torn", data |-> <<>>]

Init ==
  /\ pc = "reading" /\ setup \in Setups /\ request \in Requests
  /\ client = "open" /\ sent = 0 /\ taken = 0
  /\ reqbody = <<>> /\ respbody = <<>>
  /\ source = "conn" /\ drawn = 0 /\ writer = "idle" /\ buffered = <<>>
  /\ reused = FALSE /\ dialed = {}
  /\ flushed = FALSE /\ heard = <<>> /\ ended = FALSE /\ early = FALSE
  /\ resp = NoResponse /\ avail = 0 /\ got = <<>>
  /\ requestbody = Nothing /\ responsebody = Nothing
  /\ httpCalls = <<>> /\ har = <<>>

-----------------------------------------------------------------------------
(* "Bad" variants are the following definition with a plausible bug; see   *)
(* TcpStack.                                                               *)

(* The address the request's dialTo stands for. *)
HostPort(a) == IF a.port = NoPort THEN [a EXCEPT !.port = Https] ELSE a
DialTo(q) ==
  LET a == HostPort(IF q.host = NoHost THEN LocalAddr ELSE q.host)
  IN IF a.host \in Special THEN [a EXCEPT !.host = Loopback] ELSE a

BadTee(q, i) == q
Tee(q, i) == Append(q, i)

(* A request with a GetBody can be sent again; this one's returns the body *)
(* itself, however much was read of it.                                    *)
Rewound == drawn

BadGateway == [status |-> 502, encodings |-> <<>>, len |-> 1, damage |-> "none"]

(* What is wrong with the n chunks of a message when q was captured. *)
Damage(m, q) ==
  IF q = <<>> THEN "header"
  ELSE IF m.damage = "none" /\ q # Whole(m.len) THEN "data" ELSE m.damage

(* decodeContent on a buffer with the bytes q: whether it fails, what it   *)
(* returns, and what it leaves in the buffer.                              *)
Decode(m, q) ==
  LET encs == m.encodings
      fails(out, rest) == [err |-> TRUE, out |-> out, rest |-> rest]
  IN CASE encs = <<>> -> [err |-> FALSE, out |-> Raw(q), rest |-> <<>>]
       [] encs # <<>> /\ encs[Len(encs)] # "gzip" -> fails(Nothing, q)
       [] encs # <<>> /\ encs[Len(encs)] = "gzip" ->
            IF Damage(m, q) = "header" \/ \E i \in 1 .. Len(encs) : encs[i] # "gzip"
            THEN fails(Nothing, IF q = <<>> THEN q ELSE Tail(q))
            ELSE IF Damage(m, q) = "data" THEN fails(Partial, <<>>)
            ELSE [err |-> FALSE, out |-> Decoded(q), rest |-> <<>>]

-----------------------------------------------------------------------------
(* The subprocess. *)

SendChunk ==
  /\ client = "open" /\ sent < request.len
  /\ sent' = sent + 1
  /\ UNCHANGED <<pc, setup, request, client, taken, reqbody, sendVars, respVars, logVars>>

Leave ==
  /\ client = "open"
  /\ client' = "closed"
  /\ UNCHANGED <<pc, setup, request, sent, taken, reqbody, sendVars, respVars, logVars>>

(* Whether a chunk of the request body can be read, or never will be. *)
BadReadable == taken < request.len
Readable == taken < sent
BrokenOff == client = "closed" /\ taken = sent /\ sent < request.len

(* When req.Body.Close, which reads what is left of the body, returns. *)
BadDrained == sent = request.len
Drained == sent = request.len \/ client = "closed"

(* Reading the body is an error: the connection broke off, or the          *)
(* transport closed the body, and through the tee the connection's.        *)
BadBodyError == source = "conn" /\ BrokenOff
BodyError == source = "closed" \/ (source = "conn" /\ BrokenOff)

-----------------------------------------------------------------------------
(* The handler and HAR up to the transport.                                *)

(* A malformed request, a failed TLS handshake or a closed connection. *)
ReadFails ==
  /\ pc = "reading"
  /\ pc' = "returned"
  /\ UNCHANGED <<inVars, taken, reqbody, sendVars, respVars, logVars>>

ReadRequest ==
  /\ pc = "reading"
  /\ pc' = IF setup.har THEN "copying" ELSE "connecting"
  /\ UNCHANGED <<inVars, taken, reqbody, sendVars, respVars, logVars>>

(* preRoundTrip reads the body through the tee ... *)
CopyChunk ==
  /\ pc = "copying" /\ Readable
  /\ taken' = taken + 1
  /\ reqbody' = Tee(reqbody, taken')
  /\ UNCHANGED <<pc, inVars, sendVars, respVars, logVars>>

(* ... and puts its copy in the body's place, unless reading it failed,    *)
(* which UnusualError turns into success.                                  *)
CopyEnds ==
  /\ pc = "copying" /\ (taken = request.len \/ BrokenOff)
  /\ source' = IF BrokenOff THEN "conn" ELSE "copy"
  /\ drawn' = IF BrokenOff THEN taken ELSE 0
  /\ pc' = "connecting"
  /\ UNCHANGED <<inVars, taken, reqbody, writer, buffered, reused, dialed, flushed, heard,
                 ended, respVars, logVars>>

-----------------------------------------------------------------------------
(* The transport.                                                          *)

Connect ==
  /\ pc = "connecting"
  /\ pc' = "waiting" /\ writer' = "sending"
  /\ dialed' = dialed \cup {DialTo(request)}
  /\ reused' \in IF setup.reuse THEN BOOLEAN ELSE {FALSE}
  /\ UNCHANGED <<inVars, taken, reqbody, source, drawn, buffered, flushed, heard, ended,
                 respVars, logVars>>

(* The idle connection turns out to be closed before anything was written: *)
(* the transport closes a body it has read from, asks GetBody for another  *)
(* and connects again.  HAR's copy does not mind being closed.             *)
Retry ==
  /\ pc = "waiting" /\ reused /\ ~flushed /\ writer = "sending"
  /\ \/ /\ drawn > 0 /\ source = "conn" /\ Drained
        /\ source' = "closed" /\ taken' = sent
     \/ /\ drawn = 0 \/ source = "copy"
        /\ UNCHANGED <<source, taken>>
  /\ pc' = "connecting" /\ writer' = "idle"
  /\ drawn' = Rewound /\ buffered' = <<>>
  /\ UNCHANGED <<inVars, reqbody, reused, dialed, flushed, heard, ended, respVars, logVars>>

WriterRead ==
  /\ writer = "sending" /\ drawn < request.len
  /\ \/ /\ source = "conn" /\ Readable
        /\ taken' = taken + 1
        /\ reqbody' = Tee(reqbody, taken')
     \/ source = "copy" /\ UNCHANGED <<taken, reqbody>>
  /\ drawn' = drawn + 1
  /\ buffered' = Append(buffered, drawn')
  /\ UNCHANGED <<pc, inVars, source, writer, reused, dialed, flushed, heard, ended, respVars, logVars>>

WriterFlush ==
  /\ writer = "sending" /\ (~flushed \/ buffered # <<>>)
  /\ flushed' = TRUE
  /\ heard' = heard \o buffered /\ buffered' = <<>>
  /\ UNCHANGED <<pc, inVars, taken, reqbody, source, drawn, writer, reused, dialed, ended,
                 respVars, logVars>>

(* The body is at its end.  Fewer bytes than the announced length are an   *)
(* error; a chunked body ends where it ends.                               *)
WriterEnds ==
  /\ writer = "sending" /\ drawn = request.len /\ ~BodyError
  /\ buffered = <<>> /\ flushed
  /\ ended' = (request.chunked \/ Len(heard) = request.len)
  /\ writer' = IF ended' THEN "done" ELSE "failed"
  /\ UNCHANGED <<pc, inVars, taken, reqbody, source, drawn, buffered, reused, dialed, flushed,
                 heard, respVars, logVars>>

WriterBreaks ==
  /\ writer = "sending" /\ BodyError
  /\ writer' = "failed"
  /\ UNCHANGED <<pc, inVars, taken, reqbody, source, drawn, buffered, reused, dialed, flushed,
                 heard, ended, respVars, logVars>>

(* RoundTrip returns with an error: the dial, the writer or the world      *)
(* failed.  The handler makes a 502 of it.                                 *)
BadFailStep == "closing"
FailStep == "relaying"
RoundTripFails ==
  /\ pc \in {"connecting", "waiting"}
  /\ pc' = FailStep
  /\ dialed' = dialed \cup {DialTo(request)}
  /\ writer' = "stopped"
  /\ resp' = BadGateway /\ avail' = BadGateway.len
  /\ har' = IF setup.har THEN Append(har, NoResponse) ELSE har
  /\ UNCHANGED <<inVars, taken, reqbody, source, drawn, buffered, reused, flushed, heard, ended,
                 early, got, respbody, requestbody, responsebody, httpCalls>>

(* The header of a response is there, and the first chunks of its body     *)
(* will be: all of them unless the world breaks off.                       *)
Respond ==
  /\ pc = "waiting" /\ flushed
  /\ resp' \in Responses /\ avail' \in 0 .. resp'.len
  /\ early' = ~ended
  /\ pc' = IF setup.har THEN "receiving" ELSE "relaying"
  /\ UNCHANGED <<inVars, taken, reqbody, sendVars, got, logVars>>

(* postRoundTrip reads the response's body and puts its copy in the body's *)
(* place, unless reading it failed: then the entry has no response and the *)
(* handler, as UnusualError makes the error nil, gets the closed body.     *)
BadEntry == IF avail < resp.len THEN resp ELSE NoResponse
EntryOf == IF avail = resp.len THEN resp ELSE NoResponse
Receive ==
  /\ pc = "receiving"
  /\ avail' = IF avail = resp.len THEN avail ELSE 0
  /\ har' = Append(har, EntryOf)
  /\ pc' = "relaying"
  /\ UNCHANGED <<inVars, taken, reqbody, sendVars, early, resp, got, respbody, requestbody,
                 responsebody, httpCalls>>

-----------------------------------------------------------------------------
(* The handler from the response's header on.                              *)

(* resp.Write copies the body to the subprocess; a write after the         *)
(* subprocess left may still seem to succeed.                              *)
Relay ==
  /\ pc = "relaying" /\ Len(got) < avail
  /\ got' = Append(got, Len(got) + 1)
  /\ respbody' = Tee(respbody, Len(got) + 1)
  /\ UNCHANGED <<pc, inVars, taken, reqbody, sendVars, early, resp, avail, requestbody,
                 responsebody, httpCalls, har>>

BadRelayError == "decoding"
RelayError == "closing"
RelayFails ==
  /\ pc = "relaying"
  /\ client = "closed" \/ (Len(got) = avail /\ avail < resp.len)
  /\ pc' = RelayError
  /\ UNCHANGED <<inVars, taken, reqbody, sendVars, respVars, logVars>>

RelayEnds ==
  /\ pc = "relaying" /\ Len(got) = resp.len
  /\ pc' = "decoding"
  /\ UNCHANGED <<inVars, taken, reqbody, sendVars, respVars, logVars>>

(* Whether the writer may be appending to reqbody right now. *)
Racing == source = "conn" /\ writer = "sending" /\ taken < request.len

DecodeRequest ==
  /\ pc = "decoding"
  /\ pc' = "decodingResponse"
  /\ LET d == Decode(request, reqbody)
     IN /\ \/ requestbody' = IF d.err THEN Raw(d.rest) ELSE d.out
           \/ Racing /\ requestbody' = Torn
        /\ reqbody' = d.rest
  /\ UNCHANGED <<inVars, taken, sendVars, respVars, respbody, responsebody, httpCalls, har>>

(* What the race may also do: a slice bounds panic, recovered in the       *)
(* handler, the end of the process in the writer.                          *)
RacePanics ==
  /\ pc = "decoding" /\ Racing
  /\ pc' \in {"closing", "crashed"}
  /\ UNCHANGED <<inVars, taken, reqbody, sendVars, respVars, logVars>>

(* The error of the response's decoding goes to the request's variable.    *)
DecodeResponse ==
  /\ pc = "decodingResponse"
  /\ pc' = "notifying"
  /\ LET d == Decode(resp, respbody)
     IN /\ responsebody' = d.out
        /\ respbody' = d.rest
        /\ requestbody' = IF d.err THEN Raw(reqbody) ELSE requestbody
  /\ UNCHANGED <<inVars, taken, reqbody, sendVars, respVars, httpCalls, har>>

(* notifyHTTP gets the mutex and appends the call ...                      *)
Notify ==
  /\ pc = "notifying"
  /\ pc' = "announcing"
  /\ httpCalls' = Append(httpCalls, [request |-> requestbody, response |-> responsebody,
                                     status |-> resp.status])
  /\ UNCHANGED <<inVars, taken, reqbody, sendVars, respVars, respbody, requestbody,
                 responsebody, har>>

(* ... and has sent it to every listener.  CallLog has the steps of both:  *)
(* for the mutex, and for room in a listener's channel, it may wait for    *)
(* ever.                                                                   *)
NotifyReturns ==
  /\ pc = "announcing"
  /\ pc' = "closing"
  /\ UNCHANGED <<inVars, taken, reqbody, sendVars, respVars, logVars>>

(* The deferred calls: resp.Body.Close, with which the transport gives up, *)
(* req.Body.Close, which reads what is left of the body, and conn.Close.   *)
CloseResponse ==
  /\ pc = "closing"
  /\ pc' = "draining"
  /\ writer' = IF writer = "sending" THEN "stopped" ELSE writer
  /\ UNCHANGED <<inVars, taken, reqbody, source, drawn, buffered, reused, dialed, flushed, heard,
                 ended, respVars, logVars>>

CloseConn ==
  /\ pc = "draining" /\ Drained
  /\ pc' = "returned"
  /\ UNCHANGED <<inVars, taken, reqbody, sendVars, respVars, logVars>>

-----------------------------------------------------------------------------
Handler ==
  \/ ReadFails \/ ReadRequest \/ CopyChunk \/ CopyEnds \/ Connect
  \/ Receive \/ Relay \/ RelayFails \/ RelayEnds
  \/ DecodeRequest \/ RacePanics \/ DecodeResponse \/ Notify \/ NotifyReturns
  \/ CloseResponse \/ CloseConn

Writer == WriterRead \/ WriterFlush \/ WriterEnds \/ WriterBreaks
World == Respond \/ RoundTripFails \/ Retry
Subprocess == SendChunk \/ Leave

Next == Handler \/ Writer \/ World \/ Subprocess

(* What the handler does without waiting for anybody: the rest of a        *)
(* response is in memory, made up or read by HAR, or at its end, and a     *)
(* subprocess that left takes no more.                                     *)
InMemory == setup.har \/ resp = BadGateway \/ Len(got) = resp.len

Alone ==
  \/ CopyChunk \/ CopyEnds
  \/ client = "closed" /\ InMemory /\ (Relay \/ RelayFails \/ RelayEnds)
  \/ DecodeRequest \/ RacePanics \/ DecodeResponse \/ CloseResponse \/ CloseConn

(* The handler goes on when it can by itself, and RoundTrip returns once   *)
(* its writer has failed.  Nobody else owes anything: the transport has no *)
(* ResponseHeaderTimeout and the request no deadline (httptap.go:600-627), *)
(* so the world need not answer nor end its response; the subprocess need  *)
(* not send, read or leave; and notifyHTTP may not return (http.go:69-75). *)
Fairness == WF_vars(Alone) /\ WF_vars(writer = "failed" /\ RoundTripFails)

Spec == Init /\ [][Next]_vars /\ Fairness

-----------------------------------------------------------------------------
Steps == {"reading", "copying", "connecting", "waiting", "receiving", "relaying", "decoding",
          "decodingResponse", "notifying", "announcing", "closing", "draining", "returned", "crashed"}
Forms == {"raw", "decoded", "partial", "torn"}
Body == [form : Forms, data : Seq(Nat)]
Answers == Responses \cup {NoResponse, BadGateway}

TypeOK ==
  /\ pc \in Steps /\ setup \in Setups /\ request \in Requests /\ client \in {"open", "closed"}
  /\ taken \in 0 .. sent /\ sent \in 0 .. request.len /\ drawn \in 0 .. request.len
  /\ source \in {"conn", "copy", "closed"}
  /\ writer = "sending" /\ source = "conn" => drawn = taken
  /\ writer \in {"idle", "sending", "done", "failed", "stopped"}
  /\ {reused, flushed, ended, early} \subseteq BOOLEAN
  /\ reqbody \in Seq(Nat) /\ buffered \in Seq(Nat) /\ heard \in Seq(Nat)
  /\ resp \in Answers /\ avail \in 0 .. resp.len
  /\ got \in Seq(Nat) /\ respbody \in Seq(Nat)
  /\ requestbody \in Body /\ responsebody \in Body
  /\ httpCalls \in Seq([request : Body, response : Body, status : Nat])
  /\ har \in Seq(Answers)

Logged == httpCalls # <<>>
Call == httpCalls[1]
Fails(m) == Decode(m, Whole(m.len)).err

(* http.go:44 and 36: the log has a call once its response is completed,   *)
(* and shows what the subprocess got: never a response that broke off.     *)
LoggedIsRelayed ==
  Logged =>
    /\ Call.status = resp.status
    /\ got = Whole(resp.len)
    /\ ~Fails(resp) => Call.response = Decode(resp, Whole(resp.len)).out

(* http.go:224, the request body is captured "for inspection later": if    *)
(* the world had all of it before it answered, so has the log.             *)
LoggedRequestIsWhole ==
  Logged /\ ~early /\ resp # BadGateway /\ ~Fails(resp) /\ ~Fails(request) =>
    Call.request = Decode(request, Whole(request.len)).out

(* README.md:186, "when the subprocess sends data [...] we relay it": a    *)
(* request that ends for the world is the one the subprocess sent.         *)
WorldGetsBody == ended => heard = Whole(request.len)

(* httptap.go:649, the HAR log: a call in the log of calls has one entry   *)
(* in it, with the same response, or with none if it is the 502 that the   *)
(* proxy makes up.                                                         *)
HarHasTheCall ==
  setup.har /\ Logged => har = <<resp>> \/ (har = <<NoResponse>> /\ resp = BadGateway)

(* Whom the handler may wait for: the world while RoundTrip has not        *)
(* returned, and for the chunks of its response; the subprocess to read    *)
(* the response or send the rest of its request; the call log.             *)
AwaitsWorld ==
  \/ pc \in {"connecting", "waiting"} /\ writer # "failed"
  \/ pc = "receiving"
  \/ pc = "relaying" /\ ~InMemory
AwaitsSubprocess ==
  client = "open" /\ (pc = "relaying" \/ (pc \in {"copying", "draining"} /\ sent < request.len))
AwaitsLog == pc \in {"notifying", "announcing"}

(* Once a request was read the connection is closed (the deferred calls of *)
(* http.go:187-202 and 251), unless one of these three lets the handler    *)
(* wait for ever, which no deadline prevents, or the data race ends the    *)
(* process.  Leaving ends every wait for the subprocess.                   *)
ConnectionCloses ==
  pc # "reading" ~>
    pc \in {"returned", "crashed"} \/ []AwaitsWorld \/ []AwaitsSubprocess \/ []AwaitsLog

(* http.go:234-249: errors of the world become a response: if the          *)
(* subprocess stays and a response does not break off, the call is logged  *)
(* (or lost to the data race that an early response makes possible), or    *)
(* the handler waits for ever as above.                                    *)
BrokenResponse == resp # NoResponse /\ avail < resp.len
CallIsLogged ==
  pc \in {"copying", "connecting"} ~>
    \/ Logged \/ client = "closed" \/ BrokenResponse
    \/ pc = "crashed" \/ (early /\ pc = "returned")
    \/ []AwaitsWorld \/ []AwaitsSubprocess \/ []AwaitsLog

(* context.go:6-8 and http.go:217: the transport dials the address that    *)
(* the subprocess was connecting to, whatever host the request names.  The *)
(* code does not (http.go:218); a cfg that names this shows it.            *)
DialsIntercepted == dialed \subseteq {LocalAddr}
=============================================================================
