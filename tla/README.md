# httptap in TLA+

httptap runs a command in a network namespace of its own whose only route is a
tun device, answers every packet that the command (the *subprocess*) sends from
user space, and shows the HTTP and HTTPS calls among them. These modules
specify the parts of it in which goroutines, packets and failures meet, check
them with TLC on small instances and prove the main results with TLAPS.

The commit modelled does not compile as it stands: `pkg/harlog/round_tripper.go:10`
reads `"time"1`, `http.go:144` and `187` defer `handlePanic` while `panic.go` defines
`panikYakala` and `guvenliCalistir`, and `httptap.go` calls two functions that
`pkg/opensslpaths` does not define. Read as what each use asks for (an
import of `time`, a deferred recover, a lookup that may return an empty string)
the code is well defined, and that reading is what is modelled.

## The system: an inventory

| Component | Source | State | Operations |
| --- | --- | --- | --- |
| Homegrown TCP stack | `tcp.go`, pumps in `httptap.go:58-122` | `streamsBySrcDst`; per stream `state`, `seq`, `ack`, `fromSubprocess`, `serializeBuf`; the channel `toSubprocess` | `handlePacket`, `deliverToApplication`, `Accept`, `Reject`, `Read`, `Write`, `Close`, `copyToDevice`, `readFromDevice` |
| Mux | `mux.go` | pattern lists for TCP and UDP | `HandleTCP`, `HandleTCPRequest`, `ListenTCP`, `HandleUDP`, `notifyTCP`, `notifyUDP` |
| UDP: homegrown stack, gvisor forwarder | `udp.go`, `httptap.go:728-776` | one serialize buffer for the stack; with gvisor an endpoint per flow | `handlePacket`, responder `Write`, the forwarder and its reading loop |
| DNS | `dns.go` | the table of special names | `handleDNS`, `handleDNSQuery` |
| Call log | `http.go:44-86`, `httptap.go:450-539` | `httpMu`, `httpCalls`, `httpListeners`, one channel per listener | `listenHTTP`, `notifyHTTP`, `finishHTTP`, the console, `/api/calls` |
| HTTP(S) proxy | `http.go:88-324`, `context.go`, dialer in `httptap.go:599-627` | one handler per connection: request, response, two captures | `proxyHTTP`, `proxyHTTPS`, `proxyHTTPScheme`, `decodeContent`, the pinned dialer |
| HAR transport | `pkg/harlog` | `har` under a mutex | `RoundTrip`, `preRoundTrip`, `postRoundTrip`, `HAR` |
| TCP proxy | `proxy.go`, `httptap.go:668-679` | two connections | `proxyTCP`, `proxyBytes` in both directions |
| gvisor TCP forwarder | `tcp.go` (`tcpRequest`), `httptap.go:716-726` | connections in flight, at most 100 | `Accept`, `Reject` |
| Main | `httptap.go:163-845` | namespaces, temporary directories, the subprocess, deferred cleanups | re-execution, setup, start, wait, exit |
| Overlay, bind mounts | `pkg/overlay`, `pkg/bindfiles`, `pkg/overlayroot`, and their users in `experiments/` | a temporary directory and mounts | `Mount`, `Pivot`, `Remove` |
| Certificates, openssl paths, panic helpers, web page, other experiments | | none that outlives a call | |

How they interact. The reader (`readFromDevice`) calls the TCP or UDP stack for
each packet; the stack calls the mux, which starts a goroutine: an HTTP(S) or TCP
proxy handler for a connection, `handleDNS` for a packet. Handlers and reader
share streams and buffers, mostly without locks, and send on one channel,
`toSubprocess`, from which `copyToDevice` feeds the device. Proxy handlers
give requests to one `http.Transport` (with `--dump-har` through the HAR
middleware) and report completed calls to the call log, whose listeners are the
console printer and the requests of the web UI. With `--stack gvisor`, the
default, netstack takes the place of the homegrown stacks.

What is hard in it:

* reader and handler work on one stream at once: `state` is a plain field, `seq`
  and `ack` are atomics that are read and advanced apart, `serializeBuf` is
  unguarded (`tcp.go:164-204, 277-313, 326-364, 428-504`);
* segments are lost, repeated and reordered, channels fill up and packets are then
  dropped;
* every UDP handler serializes into one buffer (`udp.go:128`);
* `notifyHTTP` sends on bounded channels with the mutex held (`http.go:66-76`);
* the transport copies a request's body from its own goroutine, may answer before
  it is done, may fail at any chunk, and may retry with a body already read;
* the hooks of the HAR trace are called by goroutines of the transport, also by those
  of a dial that the trip no longer waits for;
* much waits without a deadline: the transport for a response, a handler for the rest of
  a request, a pump for its peer to read;
* namespaces belong to a thread, deferred calls depend on their order, and any of
  some twenty steps of the setup may fail;
* the process ends while all of that runs.

What makes each part correct, and what could go wrong at which line, is the list
of hazards in `PROJECT.json`; the properties below are named there.

## Modules

| Module | Models | Rests on |
| --- | --- | --- |
| `TcpStack` | a set of connections, the reader, one handler per connection, the link to the device | |
| `CallFeed` | what the call log promises: one growing log, subscribers get all of it in order | |
| `CallLog` | mutex, log, listeners, channels, console, web UI clients; implements `CallFeed` | `CallFeed` |
| `HttpProxy` | one intercepted connection, handler, transport and its writer, HAR, subprocess and world | |
| `UdpStack` | datagrams, mux dispatch, DNS handlers, replies, with either stack | |
| `TcpProxy` | the forwarder's slots, TCP dispatch, `Accept`, `proxyTCP` and its pumps, the two peers | |
| `HarLog` | concurrent trips through the HAR middleware, the trace's hooks, timings, the log | |
| `Mounts` | the three packages that mount: their system calls, failures and `Remove` | |
| `Lifecycle` | `Main` from re-execution to exit; threads, subprocess, calls, ends without cleanup | `Mounts` |
| `MC...` | instances for TLC | each its module |
| `...Proofs` | theorems | each its module |

A definition preceded by one whose name starts with `Bad` has a plausible bug
as its twin: nothing uses the twin, but put in the definition's place it makes the
property that guards against it fail.

**TcpStack.** `ReceiveSyn` and `ReceiveOther` are `handlePacket` up to its first
shared access. From there each access to shared state is a step: `FinState ...
FinSend` for lines 436-485, `AckCheck` and `AckSet` for 487-488, `PayloadCheck`,
`Acknowledge`, `DeliverToApplication` for 496-504. On the handler's side `Begin`
takes a sequence number, then `LoadAck`, `Serialize`, `Send`; `Close` changes
`state` first. `rd` and `app` are the program counters with the packet under
construction. A SYN is one step because nobody else knows the stream before
the mux is called. When reader and handler are both between filling and copying
`serializeBuf`, `Copied` lets the copy be either packet or a mixture (`TORN`), and
`Panic` lets gopacket's slices go out of bounds, which ends the process. Payload is
its length; `issued`, `wire`, `heard` and `started` are history.

**CallLog.** `Notify`, `Send` (one listener at a time, waiting on a full channel),
`Return` are `notifyHTTP` under the lock; `Panic` is a send on a closed channel.
`Listen` is `listenHTTP`, one step because it never waits with the lock held.
`Leave` is the break of `httptap.go:527-528`, which leaves the listener registered.
`Finish` is `finishHTTP`, which httptap never calls: with it the run shows that the
history and the feed survive it.

**HttpProxy.** `pc` follows `proxyHTTPScheme`, with the HAR middleware's two halves
(`copying`, `receiving`) in their places. `http.Transport` is external and modelled
by what the code relies on, for HTTP/1.1: it dials through the pinned dialer or
reuses an idle connection, a goroutine (`Writer...`) copies the body through a
buffer, `RoundTrip` returns as soon as the response's header is there, and a reused
connection found closed before anything was written leads to a `Retry` with
`GetBody`. Bodies are sequences of numbered chunks, so that a lost, repeated or
reordered chunk shows; `Decode` is `decodeContent` with what it leaves in the
buffer. `RacePanics` and `Torn` are the outcomes of decoding a capture that the
writer still appends to. `Notify` is `notifyHTTP` up to its append, `NotifyReturns`
its end, between which it may wait for listeners as `CallLog` shows. The deferred calls
are `CloseResponse` and `CloseConn`; the latter waits for the rest of the request, as
`Body.Close` of a server request does.
TLS is a further reason for `ReadFails`.

**UdpStack.** Packets are numbered in order of arrival, and a handler has its packet's
number. `Notify` is `handlePacket` or the endpoint's loop with `notifyUDP`'s first
match; with gvisor a packet may instead be refused with its flow's endpoint (`Refuse`) or
not be handed to it (`Lose`). `Resolve` chooses among what the resolvers outside may say; `Abandon`
is a reply that cannot be packed; the steps of `Serialize`, `Copy` and `Reply` are `Write`. `BufferOf` is where the two stacks differ.

**TcpProxy.** `Syn` is netstack's forwarder as httptap uses it: a connection in flight
ignores further SYNs, `MaxInFlight` of them stop all new ones. `Notify` is `notifyTCP`
over `Table`, Main's entries in order; `CreateEndpoint`, `CompleteWithReset` and
`Complete` are `tcpRequest.Accept` and what `HandleTCP` makes of its result. `Dial` and
`DialFails` are `proxyTCP`; each `proxyBytes` is a `pump` with its own buffer that reads
one chunk (`Read`), writes it or drops it (`Write`) and ends at EOF or an error (`Stop`),
telling nobody. It drops a chunk if the connection it writes to is `Refused`; on any
other, `Write` waits for the peer to read, if it ever does. A chunk carries where it comes from and its number.

**HarLog.** One `RoundTrip` per trip: `SkipInit`, `LookInit` and `LockedInit` are
`init` with its two tests; `PreRoundTrip`, `Start`, `PostRoundTrip`, `Update` the middle;
`LockLog` and `UnlockLog` the append, which is the read and the write of a slice. The
transport is external, and modelled by when it calls which hook: a trip may get an idle
connection while its own dial goes on, find it stale and start again, and the
connection's writer may be late with `WroteRequest`. Every trip has a clock that its
events advance, so that an interval is positive exactly if its end comes later. What
becomes of the bodies is in `HttpProxy`, the encoding at exit in `Lifecycle`.

**Mounts.** `CallsOf` lists the system calls of the three packages in order, and
`Lifecycle` makes them steps of its setup. A mount made in a namespace that still
shares with the host is `spilled`. `PivotRoot` needs `/old` on the host, because the
directory made for it is hidden by the overlay mounted over it.

**Lifecycle.** `Plan` is the setup as a sequence of steps, given the program's options; a
step succeeds with an action of its own (`Certificates`, `Lock`, `Network`, ...) or `Fail`s, and
adds its deferred calls. `Unwind` takes the last of them. `on` is the thread that Main's
goroutine runs on: `Migrate` moves it unless it is locked, and a handler (`Trip`) runs on
any other thread, or on any at all if none is locked. The encoder takes its length
when it begins and its entries when it ends; if it fails, or the file cannot be
written, the file is `broken`. `Interrupt`, `WebFails` and the crash of the
encoder end the process on the spot.

## Runs that pass

| Run | Instance | What it shows |
| --- | --- | --- |
| `tcp_exchange` | one connection, three segments out of SYN, ACK, data, FIN with data in any order and number; two `Write`/`Close` calls; channels of capacity 1 | `SeqTiled`, `AckIsGenuine`, `InOrderBeforeFin`, `DeliveryWindow` |
| `tcp_shared_reader` | two connections, one without a mux entry, link of capacity 1; three segments out of SYN, ACK, FIN; `Close` as often as it has an effect | `HandlerOnce`, `FinBudget`, `ReaderReturns` |
| `call_log` | three calls, console, two web UI clients that may leave, channels of capacity 2, `finishHTTP` at any moment | `NoneMissed`, `ImplementsFeed`, `PrintedWhileListening` |
| `http_proxy` | bodies of 0-2 chunks, plain, gzip, twice encoded, damaged in header or data; with idle connections, and with HAR | `LoggedIsRelayed`, `LoggedRequestIsWhole`, `WorldGetsBody`, `HarHasTheCall`, `ConnectionCloses`, `CallIsLogged` |
| `udp_dns` | two packets of two flows, queries of several types and names, garbage, a packet without a question and one to another port, either stack | `RepliesMatch`, `QueriesAnswered` |
| `tcp_proxy` | a connection for port 443 and one for port 22, one slot, three SYNs each, two chunks each way | `HandlerOnce`, `InOrder`, `SlotsAreFreed`, `EverythingArrives` |
| `har_log` | a trip with or without TLS, whose request can be recorded or not and which may get one idle connection, and a plain trip | `NoneLost`, `PhasesAddUp`, `SslWithinConnect`, `TripsReturn` |
| `lifecycle` | httptap with and without user namespace, overlay, HAR, web UI, `--user root` or another, and the two experiments; two threads, two calls, two files | `Served`, `HostUntouched`, `DialsFromHost`, `NothingLeft`, `HarHasReceived`, `ExitTellsTheOutcome`, `EndsAfterSubprocess` |

Every run of the table but `tcp_shared_reader` checks its module's `TypeOK` as well.

Why the bounds are enough to be interesting:

* *TCP.* `Modulus = 8` with a first sequence number of 6 wraps within the exchange.
  Three segments allow a full handshake with a payload or FIN, a repeated SYN after a
  FIN, two FINs, and any of them before the handler has answered. Two calls let the
  handler be in any step of `Write` or `Close` while the reader is in any step of a FIN.
  Capacity 1 makes both channels overflow. `tcp_shared_reader` gives up payload and
  `Write` for a second connection, with which the first shares the reader and the link, and
  for more calls of `Close`, without which `FinBudget` is in no danger. Its bound of four
  calls is never reached, because three segments leave room for three `Close`s with an
  effect. The budget is used up in it, by a `Close` before the handshake's ACK whose state
  lines 487-488 overwrite, and by one more after each FIN that overwrites it. Segments with
  SYN and FIN at once are left to the theorems, which hold for any segments;
  `ReaderReturns`, which is not proved, meets their steps in separate segments.
* *Call log.* With three calls and capacity 2 a channel fills up behind a listener
  that does not receive, and two watchers register before, between and during calls.
* *HTTP.* Two chunks distinguish nothing sent, part sent, all sent; the second
  of them is the first that can be lost without the header being lost. One
  connection suffices: connections share only the transport's idle connections, whose
  effect is `reused`, the call log, which has its own module, and the HAR log.
* *UDP.* Two packets are the smallest number with two writers; the proof covers any
  number.

* *TCP proxy.* One slot is the smallest limit at which a connection can keep another
  out. Two chunks can be swapped, and one be lost with another to follow. The third SYN
  of a connection comes after a first that failed and a second that succeeded.
* *HAR.* Two trips are what an append or the making of the log can lose. One idle
  connection allows a stale one, a retry and the dial that is left behind.
* *Lifecycle.* Two calls make an append during the encoder's run and one before it, two
  threads a locked and a free one, two files a mount that succeeds before one that fails.
  Not every combination of options is run: `--user` and the web UI touch what HAR does
  not.

`CHECK_DEADLOCK FALSE` is in the runs that have states where all is done (every
bounded exchange ends); `udp_dns` has it for that reason as well. Liveness is
checked as `ReaderReturns`, `SlotsAreFreed` and the like, which a deadlock of
the part in question would violate.

## Fairness

A goroutine that can go on does. What it waits for is another matter: little here has a
deadline, and where the code has none the model grants nothing. A liveness property then
names the wait that may last for ever, and claims all the rest.

* `TcpStack`: the reader is fair, the handlers are not at all. That is what makes
  `ReaderReturns` say that the reader never waits for them.
* `CallLog`: handlers inside `notifyHTTP` and listeners that listen are fair. Nobody has to
  make a call, leave or open the web UI, or call `finishHTTP`.
* `HttpProxy`: only what the handler does without waiting for anybody (`Alone`) is fair,
  and the return of `RoundTrip` once its own writer has failed. `http.Transport` is made
  without `ResponseHeaderTimeout` and the request has no deadline (`httptap.go:600-627`):
  the world may stay silent after accepting, or stop in the middle of a response. The
  subprocess may neither send the rest of its request nor read nor leave. `notifyHTTP` may
  never return (`call_log_leaver`). `ConnectionCloses` and `CallIsLogged` except these
  three waits as `[]AwaitsWorld`, `[]AwaitsSubprocess` and `[]AwaitsLog`, that is, a handler
  that stays in one of them for good. They claim that it waits nowhere else, and that once
  the subprocess has left it no longer waits for the subprocess.
* `UdpStack`: handlers and `copyToDevice` are fair, and resolving ends, since both resolvers
  have timeouts. Netstack owes no packet: `Refuse` and `Lose` may always happen first. One
  that it hands over is read.
* `TcpProxy`: handlers are fair, since handshakes end (netstack gives up after its retries)
  and `net.Dial` has the kernel's timeout. A pump is fair when it has something to read, an
  end to see or an error to meet. Its `w.Write` has no deadline (`proxy.go:39`), so it need
  not return as long as the connection stands; `EverythingArrives` excepts a pump that
  stays there for good, for its own direction only. Peers owe nothing.
* `HarLog`: the transport is fair. That is an assumption about the world, which nothing in
  the code enforces: `TripsReturn` says that the middleware, with its mutex, adds no wait
  of its own to those of the transport.
* `Lifecycle`: the setup and the deferred calls are fair, while the subprocess, handlers,
  console and signals are not: the program ends although handlers wait for ever.

## Runs that find a disagreement

Each checks one sentence of the repository against the code, and TLC shows a run of
the code that breaks it.

| Run | Says | Happens |
| --- | --- | --- |
| `call_log_leaver` | `http.go:44`: a listener receives each call | a client that left fills its channel and blocks `notifyHTTP` with the lock held (`http.go:74`) |
| `http_proxy_retry` | `README.md:186`: what the subprocess sends is relayed | with HAR a retry sends what is left of a chunked body (`http.go:229`) |
| `udp_shared_buffer` | `mux.go:39`: a `Write` sends a packet from the destination of the query | overlapping `Write`s send each other's packet (`udp.go:128`) |
| `har_optional_phases` | `types.go:319-331`: -1 for a phase that does not apply, milliseconds otherwise | `Blocked` is the time before `GetConn` with a minus sign; -1 is a nanosecond and written as -0.000001 (`update.go:19-25`) |

`http_proxy_retry` needs HAR and idle
connections at once, the combination that `http_proxy` leaves out: with either alone
`WorldGetsBody` holds. The race of `udp_shared_buffer` is also why `RepliesMatch`
excludes, for the homegrown stack, replies whose `Write` overlapped with another.

Four more sentences are stated as properties that the code breaks, without a run of
their own. A cfg that names one as its `INVARIANT` shows how; for the first and third,
`CONSTRAINT Answered` keeps to a kernel that acknowledges only an answered handshake.

* `TcpStack!NoDataAfterOwnFin`: `tcp.go:27`, after our own FIN we "must not send any more
  data"; the reply to a FIN carries our FIN, and `Write` goes on (`tcp.go:439`).
* `TcpStack!SynAckIsGenuine`: `tcp.go:108`, `ack` is the next acknowledgement number; the
  SYN+ACK and RST carry one more (`tcp.go:165, 212`).
* `TcpStack!ClosedIsNotConnected`: `tcp.go:25, 27`; a `Close` between lines 487 and 488 is
  undone.
* `HttpProxy!DialsIntercepted`: `context.go:6-8`, `http.go:217`, dial what the subprocess
  dialed; the address comes from the request, with `https` for a missing port
  (`http.go:218-220`).

Observations without a property:

* The fallback for an undecodable response (`http.go:284`) overwrites `requestbody` instead
  of `responsebody`; `DecodeResponse` models it as written. `/api/calls` drops the
  history that `listenHTTP` hands it (`httptap.go:506`).
* Nothing limits how long a handler waits for the world (`httptap.go:600-627`); see Fairness.
* With gvisor a UDP packet may be dropped before the mux sees it: `CreateEndpoint` fails
  (`httptap.go:737-741`), or the forwarder "sometimes only ever processes one UDP packet"
  (the TODO in line 726). `QueriesAnswered` excepts those packets by name.
* When encoding or writing the HAR file fails (`httptap.go:651-654`) the error is a verbose
  message, the file empty or cut short and the exit code that of the command.
  `HarHasReceived` speaks of a file that could be written.
* DNS looks the special name up as spelled and for A records only, although `dns.go:253` says
  that the special IP is always returned; `UdpStack!Special` models the lookup.
* `proxyBytes` passes on neither the end of one side nor a failure (`proxy.go:28-36`): both
  connections stay open. `EverythingArrives` says what holds nevertheless.
* `overlayroot.Pivot` fails unless the host has `/old`, and after it `Remove` cannot
  find the directory it was made for (`overlayroot.go:56, 68, 110`).
* `--stack` is examined after the subprocess was started (`httptap.go:822`): the one failure
  after which `NothingLeft` lets the subprocess live on. With `--user` and another user than
  root the directories made before cannot be removed, and Main ignores that. Main prints
  no call that the console has not printed when the subprocess exits.
* `ListenTCP` registers with the mutex held that registering takes (`mux.go:57-62`), and the
  mux's comments promise patterns with host names (`mux.go:50-54`) where
  `desenEşleşiyorMu` matches only ports and `*` (`mux.go:10-18`).

## What is proved

Every invariant that a run checks is proved, with one restriction (`WorldGetsBody`,
below), and so is the refinement. The theorems hold for every value of the constants
that satisfies the named assumptions, which say: the sequence space is larger than a
payload; bounds and capacities are natural numbers (where a channel is made with room
for something, not 0); requests, responses, segments and options have the fields the code reads
(a status is a number); `Free`, `Nobody` and the console are not a handler, a trip or a web UI
client; a process has a thread; `bindfiles.Mount`, whose only caller gives it one file, gets
at least one.

* `TcpStackProofs`: `TypeCorrect`; `OneHandler`, the mux starts at most one handler
  per connection whatever arrives; `DeliveredInWindow`, payload reaches the
  application only between the handshake's ACK and the FIN. Neither of the last two is
  inductive: how far a connection is shows in `state`, in the reader's next step and
  in what was heard, and the handler's `Close` overwrites `state` at any moment.
  `PhaseInv` says how the three agree: `state` is `Connected` only after an ACK, and
  with a FIN heard only until the reader's very next step, since `Connected` can be
  assigned only from `ackSet`, which a segment with FIN no longer reaches.
* `TcpWireProofs`: `Tiled`, `AcksGenuine`, `WholeBeforeFin`, `FinsBounded`, for any
  connections, widths and capacities. `WireInv` follows a packet from the counter through
  the goroutine that builds it and the shared buffer to the channel: a number is
  allocated by one atomic step, so `seq` always follows the last packet issued; whatever
  is in a hand, in the buffer or on the wire is torn or names the packet it was issued as,
  with an acknowledgement in `heard.sent`. `PhaseInv` is what keeps the reader out of the
  buffer until a FIN was heard. `BudgetInv` counts, beside the FINs issued, those that are
  still possible: a `Close` that has passed its test or may still pass it, and a reader
  about to leave `Finished` for another state.
* `CallLogProofs`: `TypeCorrect`; `NothingIsMissed` for any number of handlers and listeners
  and any capacity, and `LogImplementsFeed`, the refinement. `LogInv` adds the loop (who sends
  holds the lock and sends the last call; after `finishHTTP` the loop stops at
  the console) and the registry (a listener registers once and has nothing before).
* `HttpProxyProofs`: `TypeCorrect`, whose difficult part is that the writer of a retry and
  the handler never read past a body's end; `LogShowsWhatWasRelayed`, where `RelayInv`
  follows the response's capture: while a response is relayed it equals what was written to the
  subprocess, a prefix of the body, and decoding starts only with all of it;
  `LogShowsTheRequest`, where an invariant follows the request's capture in the same way until
  the writer has ended; `HarAgreesWithTheLog`; and `WorldGetsWhatWasSent`, which states
  `WorldGetsBody` unless HAR and idle connections are both at work. The exception is
  `http_proxy_retry`, where the code breaks it.
* `UdpStackProofs`: `TypeCorrect`, and `RepliesAreOwn` for any number of packets.
  `ReplyInv` says what the buffer holds after each step of a `Write` that has had no
  rival, and that two writers in one buffer are always both marked as overlapped.
* `TcpProxyProofs`: `TypeCorrect`, `OneHandler`, `RelayedInOrder`. `ProxyInv` ties handlers
  to the stage of a request, and the chunks received to those read: one is missing
  only if the receiving connection takes no more, which it never does again; a chunk in
  hand is the last one read.
* `HarLogProofs`: `TypeCorrect`, `NoEntryLost`, `PhasesFit`, `HandshakeFits`. `HarInv` has a
  part about the mutex (who appends holds it and has seen the whole log) and a part
  about each trip: in what order its times lie, which hooks may still come, and that the
  entry made of the times stays true of them.
* `LifecycleProofs`: `TypeCorrect`, `CommandIsServed`, `HostIsUntouched`,
  `HandlersDialFromTheHost`, `LeavesNothing`, `HarIsComplete`, `ExitTells`, for every set of
  options, of threads and of calls, and every number of bound files. The setup is a
  sequence that depends on the options, so the first half of the module gives each step
  a rank and proves that the ranks increase along any `Plan`, but for the calls that
  `bindfiles.Mount` repeats for each file: a step that is done has all wanted steps of
  lower rank done. The second half is `LifeInv`. Before Main returns it says what
  each step done has brought about; afterwards, what holds while a deferred call
  is pending. `StackInv` joins the two: the deferred calls are a beginning of
  `AllDeferred`, as long as the steps done make it. The threads outside the host's namespaces
  are the locked one while Main is locked to it, and that same one afterwards. What the encoder
  has taken, if it could write it, includes every call received, since a response arrives only at a
  subprocess that runs, and Main returns without an error only when it has ended.

Only model-checked: all liveness (`ReaderReturns`, `QueriesAnswered`,
`ConnectionCloses`, `CallIsLogged`, `PrintedWhileListening`, `SlotsAreFreed`,
`EverythingArrives`, `TripsReturn`, `EndsAfterSubprocess`), which
is out of the prover's reach.

## What is not modelled

* netstack, `http.Transport` and the kernel, except through their use.
* HTTP/2 towards the world (`ForceAttemptHTTP2`), retries of idempotent requests
  after something was written, 1xx responses, trailers, upgrades.
* Contents of DNS records, HAR entries, headers and log lines.
* ICMP; IPv6; errors of the tun device.
* Certificates, openssl paths and the web page: no state of their own. The other
  experiments: separate trial programs.
* `ListenTCP` and its listener, `tcpRequest.Reject`, `overlayroot.Mount`: no caller.
* The byte stream of the homegrown TCP stack end to end. It is acknowledged before it is
  queued and dropped when the queue is full, and nothing is ever sent again; to say
  what an application then sees takes the subprocess's kernel with its window and its
  retransmissions as a second party, beside the twenty steps of reader and handler that
  `TcpStack` already interleaves. The hazards at `tcp.go:424, 500` therefore have no
  property.
* Errors of the gvisor UDP endpoint (`httptap.go:762` retries them without end).

## Plan

Written, in this order: `TcpStack` (every byte with `--stack homegrown` passes it),
`CallFeed` and `CallLog`, `HttpProxy`, `UdpStack`, each with a proof module; then `Mounts` and
`Lifecycle`, `TcpProxy`, `HarLog`.

Then the proofs, now of every invariant.

To come:

* Theorems with stronger statements than the runs' properties where their invariants already
  imply more: what a stream's packets are after the first FIN (`TcpWireProofs`), which chunk a
  side lacks when its peer has ended (`TcpProxyProofs`).
* The safety half of the liveness properties: that a state in which `ReaderReturns` or
  `SlotsAreFreed` waits has a step of the fair part of the code to take, as far as this can
  be said without ENABLED.
