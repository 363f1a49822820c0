----------------------------- MODULE Lifecycle -----------------------------
(***************************************************************************)
(* Main of httptap.go from re-execution to exit: the steps of the setup,   *)
(* each of which may return early, the deferred calls, the threads and     *)
(* their namespaces, the subprocess, the calls that handlers carry out     *)
(* meanwhile, and what ends the process at any moment: Ctrl-C, log.Fatal   *)
(* in the web UI's goroutine, a data race in the encoder.  The programs    *)
(* experiments/pivotroot and experiments/bindmount have the same shape     *)
(* with fewer steps.                                                       *)
(***************************************************************************)
EXTENDS Mounts

CONSTANTS
  Options, \* the programs to run, with their options
  Calls    \* HTTP calls of the subprocess, one handler each

Programs == {"httptap", "pivotroot", "bindmount"}

ASSUME OptionsAssumption ==
  \A o \in Options :
    /\ o.program \in Programs /\ o.user \in {"none", "root", "other"}
    /\ {o.newUserNamespace, o.overlay, o.har, o.web} \subseteq BOOLEAN

(* How a process may end: exit codes 0, 1, 2 and -1, or by a signal. *)
Ends == {"ok", "error", "crash", "minus1", "signal"}

VARIABLES
  opts,     \* the program and its options
  outer,    \* the process that has re-executed itself: "absent", "running", or its end
  code,     \* the process: "running" or its end
  phase,    \* where Main is
  step,     \* next step of the setup
  failed,   \* the step that returned an error, or "none"
  deferred, \* deferred calls, the next to run last
  on,       \* thread that runs Main's goroutine
  locked,   \* whether the goroutine is locked to it
  net,      \* per thread: network namespace, "host" or "own"
  device,   \* network namespace of the tun device
  certs,    \* temporary directory of the certificates: "none", "empty", "full"
  uid,      \* effective user
  sub,      \* the subprocess: "none", "running", or its end
  home,     \* namespaces it was started in
  at,       \* per call: how far it is
  dialed,   \* history: network namespace its handler dialed from
  entries,  \* the HAR log
  taken,    \* number of entries when the encoder began, -1 before
  file,     \* the HAR file: "none", "open", "closed", "broken"
  written   \* number of entries in it, -1 while it is empty or broken

control == <<opts, outer, code, phase, step, failed, deferred>>
threads == <<on, locked, net>>
child == <<sub, home>>
har == <<entries, taken, file, written>>
calls == <<at, dialed>>
vars == <<control, threads, device, certs, uid, child, calls, har, mountVars>>

Alive == code = "running"
Serving == Alive /\ phase \in {"waiting", "unwinding"} /\ failed = "none"

-----------------------------------------------------------------------------
(* "Bad" variants are the following definition with a plausible bug.       *)

If(wanted, s) == IF wanted THEN <<s>> ELSE <<>>

MountSteps ==
  CASE opts.program = "httptap" -> IF opts.overlay THEN CallsOf.overlay ELSE <<>>
    [] opts.program = "pivotroot" -> CallsOf.pivot
    [] opts.program = "bindmount" -> CallsOf.bind

(* The setup, in order, the calls of Mount among its steps. *)
Prepare ==
  <<"ca", "tempdir", "certs", "lock", "netns", "device">> \o MountSteps
  \o If(opts.user # "none", "user") \o <<"console">> \o If(opts.web, "web")
Plan ==
  IF opts.program = "httptap"
  THEN Prepare \o <<"launch">> \o If(opts.har, "har") \o <<"transport", "stack">>
  ELSE <<"lock">> \o MountSteps \o <<"launch">>

CannotFail == {"lock", "console", "web", "har", "transport"}
Mounting(i) == Plan[i] \in MountCalls
LastMount(i) == Mounting(i) /\ (i < Len(Plan) => ~Mounting(i + 1))

(* The calls that step i defers; they run in reverse order. *)
BadDeferredBy(i) ==
  CASE Plan[i] = "tempdir" -> <<"removeCerts">>
    [] Plan[i] = "lock" -> <<"unlock">>
    [] Plan[i] = "har" -> <<"encode", "close">>
    [] LastMount(i) -> <<"remove">>
    [] OTHER -> <<>>
DeferredBy(i) ==
  CASE Plan[i] = "tempdir" -> <<"removeCerts">>
    [] Plan[i] = "lock" -> <<"unlock">>
    [] Plan[i] = "har" -> <<"close", "encode">>
    [] LastMount(i) -> <<"remove">>
    [] OTHER -> <<>>

Init ==
  /\ opts \in Options
  /\ phase = IF opts.newUserNamespace THEN "reexec" ELSE "setup"
  /\ outer = "absent" /\ code = "running"
  /\ step = 1 /\ failed = "none" /\ deferred = <<>>
  /\ on = CHOOSE t \in Threads : TRUE
  /\ locked = FALSE /\ net = [t \in Threads |-> "host"]
  /\ device = "none" /\ certs = "none" /\ uid = "root"
  /\ sub = "none" /\ home = [net |-> "host", space |-> "host"]
  /\ at = [c \in Calls |-> "idle"] /\ dialed = [c \in Calls |-> "none"]
  /\ entries = <<>> /\ taken = -1 /\ file = "none" /\ written = -1
  /\ MountInit /\ (oldExists => opts.program = "pivotroot")

-----------------------------------------------------------------------------
(* The process re-executes itself in a new user namespace and waits. *)
Reexec ==
  /\ Alive /\ phase = "reexec"
  /\ \/ phase' = "setup" /\ outer' = "running" /\ UNCHANGED code
     \/ code' = "error" /\ UNCHANGED <<phase, outer>>
  /\ UNCHANGED <<opts, step, failed, deferred, threads, device, certs, uid, child, calls, har, mountVars>>

(* Step s of the setup succeeds, or returns an error. *)
Advance(s) ==
  /\ Alive /\ phase = "setup" /\ Plan[step] = s
  /\ step' = step + 1
  /\ deferred' = deferred \o DeferredBy(step)
  /\ phase' = IF step = Len(Plan) THEN "waiting" ELSE phase
  /\ UNCHANGED <<opts, outer, code, failed>>

Return(s) ==
  /\ phase' = "unwinding" /\ failed' = s
  /\ UNCHANGED <<opts, outer, code, step, deferred>>

Fail ==
  /\ Alive /\ phase = "setup" /\ Plan[step] \notin CannotFail
  /\ Return(Plan[step])
  /\ IF Plan[step] \in MountCalls THEN MountCallFails(Plan[step]) ELSE UNCHANGED mountVars
  /\ UNCHANGED <<threads, device, certs, uid, child, calls, har>>

Certificates ==
  /\ \/ Advance("ca") /\ UNCHANGED certs
     \/ Advance("tempdir") /\ certs' = "empty"
     \/ Advance("certs") /\ certs' = "full"
  /\ UNCHANGED <<threads, device, uid, child, calls, har, mountVars>>

(* Go starts threads as copies of one that was never locked, so that only  *)
(* the locked one enters the new namespaces.                               *)
BadLockOSThread == UNCHANGED locked
LockOSThread == locked' = TRUE

Lock ==
  /\ Advance("lock") /\ LockOSThread
  /\ UNCHANGED <<on, net, device, certs, uid, child, calls, har, mountVars>>

Migrate ==
  /\ Alive /\ ~locked
  /\ on' \in Threads \ {on}
  /\ UNCHANGED <<control, locked, net, device, certs, uid, child, calls, har, mountVars>>

Network ==
  /\ \/ Advance("netns") /\ net' = [net EXCEPT ![on] = "own"] /\ UNCHANGED device
     \/ Advance("device") /\ device' = net[on] /\ UNCHANGED net
  /\ UNCHANGED <<on, locked, certs, uid, child, calls, har, mountVars>>

Mount ==
  /\ Alive /\ phase = "setup" /\ Mounting(step)
  /\ Advance(Plan[step])
  /\ MountCall(Plan[step], on, opts.newUserNamespace)
  /\ UNCHANGED <<threads, device, certs, uid, child, calls, har>>

(* In the new user namespace no other user exists. *)
SwitchUser ==
  /\ Advance("user")
  /\ opts.user = "other" => ~opts.newUserNamespace
  /\ uid' = opts.user
  /\ UNCHANGED <<threads, device, certs, child, calls, har, mountVars>>

(* Goroutines, the mux's table and the transport; the stack. *)
Services ==
  /\ \E s \in {"console", "web", "transport", "stack"} : Advance(s)
  /\ UNCHANGED <<threads, device, certs, uid, child, calls, har, mountVars>>

Launch ==
  /\ Advance("launch")
  /\ sub' = "running" /\ home' = [net |-> net[on], space |-> space[on]]
  /\ UNCHANGED <<threads, device, certs, uid, calls, har, mountVars>>

(* Main goes on without a file if it cannot be created. *)
CreateHar ==
  /\ Advance("har")
  /\ file' \in {"none", "open"}
  /\ UNCHANGED <<threads, device, certs, uid, child, calls, entries, taken, written, mountVars>>

-----------------------------------------------------------------------------
SubprocessExits ==
  /\ sub = "running"
  /\ sub' \in {"ok", "error"}
  /\ UNCHANGED <<control, threads, device, certs, uid, home, calls, har, mountVars>>

(* cmd.Wait *)
BadFinished == sub # "running" /\ \A c \in Calls : at[c] \in {"idle", "printed"}
Finished == sub # "running"
Wait ==
  /\ Alive /\ phase = "waiting" /\ Finished
  /\ Return(IF sub = "ok" THEN "none" ELSE "wait")
  /\ UNCHANGED <<threads, device, certs, uid, child, calls, har, mountVars>>

(* The deferred calls. *)
BadUnwind(d) ==
  /\ Alive /\ phase = "unwinding" /\ deferred # <<>> /\ Head(deferred) = d
  /\ deferred' = Tail(deferred)
  /\ UNCHANGED <<opts, outer, phase, step, failed>>
Unwind(d) ==
  /\ Alive /\ phase = "unwinding" /\ deferred # <<>> /\ Last(deferred) = d
  /\ deferred' = Front(deferred)
  /\ UNCHANGED <<opts, outer, phase, step, failed>>

EncodeBegins ==
  /\ Alive /\ phase = "unwinding" /\ deferred # <<>> /\ Last(deferred) = "encode"
  /\ taken = -1 /\ taken' = Len(entries)
  /\ UNCHANGED <<control, threads, device, certs, uid, child, calls, entries, file, written, mountVars>>

(* The encoder reads the slice without the mutex: an append meanwhile may  *)
(* show, or not, or send it beyond the array.  Encoding may fail and so    *)
(* may the write, having written a part: that is ignored.                  *)
EncodeEnds ==
  /\ Unwind("encode") /\ taken >= 0
  /\ \/ /\ UNCHANGED <<code, file>>
        /\ written' \in IF file = "open" THEN taken .. Len(entries) ELSE {written}
     \/ file = "open" /\ file' = "broken" /\ UNCHANGED <<code, written>>
     \/ taken # Len(entries) /\ code' = "crash" /\ UNCHANGED <<file, written>>
  /\ UNCHANGED <<threads, device, certs, uid, child, calls, entries, taken, mountVars>>

CloseHar ==
  /\ Unwind("close") /\ UNCHANGED code
  /\ file' = IF file = "open" THEN "closed" ELSE file
  /\ UNCHANGED <<threads, device, certs, uid, child, calls, entries, taken, written, mountVars>>

RemoveMount ==
  /\ Unwind("remove") /\ UNCHANGED code
  /\ RemoverRemove(uid # "other")
  /\ UNCHANGED <<threads, device, certs, uid, child, calls, har>>

Unlock ==
  /\ Unwind("unlock") /\ UNCHANGED code
  /\ locked' = FALSE
  /\ UNCHANGED <<on, net, device, certs, uid, child, calls, har, mountVars>>

RemoveCerts ==
  /\ Unwind("removeCerts") /\ UNCHANGED code
  /\ certs' = IF uid = "other" THEN certs ELSE "none"
  /\ UNCHANGED <<threads, device, uid, child, calls, har, mountVars>>

(* main: log.Fatal for an error, whatever the subprocess's exit code. *)
Exit ==
  /\ Alive /\ phase = "unwinding" /\ deferred = <<>>
  /\ code' = IF failed = "none" THEN "ok" ELSE "error"
  /\ UNCHANGED <<opts, outer, phase, step, failed, deferred>>
  /\ UNCHANGED <<threads, device, certs, uid, child, calls, har, mountVars>>

(* The outer process ends with the same code. *)
BadOuterCode == IF code = "signal" THEN "ok" ELSE code
OuterCode == IF code = "signal" THEN "minus1" ELSE code
OuterExits ==
  /\ outer = "running" /\ ~Alive
  /\ outer' = OuterCode
  /\ UNCHANGED <<opts, code, phase, step, failed, deferred>>
  /\ UNCHANGED <<threads, device, certs, uid, child, calls, har, mountVars>>

(* Ends without the deferred calls.  A kill reaches this process alone,    *)
(* Ctrl-C the outer one and the subprocess as well, which may ignore it.   *)
Interrupt ==
  /\ Alive /\ code' = "signal"
  /\ \/ UNCHANGED <<outer, sub>>
     \/ /\ outer' = IF outer = "running" THEN "signal" ELSE outer
        /\ sub' \in {sub, IF sub = "running" THEN "signal" ELSE sub}
  /\ UNCHANGED <<opts, phase, step, failed, deferred, home>>
  /\ UNCHANGED <<threads, device, certs, uid, calls, har, mountVars>>

WebFails ==
  /\ Alive /\ \E i \in 1 .. step - 1 : Plan[i] = "web"
  /\ code' = "error"
  /\ UNCHANGED <<opts, outer, phase, step, failed, deferred>>
  /\ UNCHANGED <<threads, device, certs, uid, child, calls, har, mountVars>>

-----------------------------------------------------------------------------
(* A call: the subprocess asks, a handler's RoundTrip (which appends the   *)
(* HAR entry before it returns), the response, the call log, the console.  *)
(* A handler whose response cannot be written logs nothing.                *)
Progress(c, from, to) == Alive /\ at[c] = from /\ at' = [at EXCEPT ![c] = to]

Ask(c) ==
  /\ Serving /\ sub = "running" /\ home.net = device
  /\ Progress(c, "idle", "asked")
  /\ UNCHANGED <<control, threads, device, certs, uid, child, dialed, har, mountVars>>

Logged(c) == entries' = IF opts.har THEN Append(entries, c) ELSE entries

Trip(c) ==
  /\ Progress(c, "asked", "tripped")
  /\ \E t \in Threads : (locked => t # on) /\ dialed' = [dialed EXCEPT ![c] = net[t]]
  /\ Logged(c)
  /\ UNCHANGED <<control, threads, device, certs, uid, child, taken, file, written, mountVars>>

Relay(c) ==
  /\ Progress(c, "tripped", IF sub = "running" THEN "received" ELSE "lost")
  /\ UNCHANGED <<control, threads, device, certs, uid, child, dialed, har, mountVars>>

Show(c) ==
  /\ Progress(c, "received", "printed")
  /\ UNCHANGED <<control, threads, device, certs, uid, child, dialed, har, mountVars>>

Setup ==
  Reexec \/ Fail \/ Certificates \/ Lock \/ Network \/ Mount \/ SwitchUser
  \/ Services \/ Launch \/ CreateHar
Unwinding ==
  Wait \/ EncodeBegins \/ EncodeEnds \/ CloseHar \/ RemoveMount \/ Unlock
  \/ RemoveCerts \/ Exit \/ OuterExits

Next ==
  \/ Setup \/ Unwinding \/ SubprocessExits \/ Migrate \/ Interrupt \/ WebFails
  \/ \E c \in Calls : Ask(c) \/ Trip(c) \/ Relay(c) \/ Show(c)

Spec == Init /\ [][Next]_vars /\ WF_vars(Setup) /\ WF_vars(Unwinding)

-----------------------------------------------------------------------------
(* All that Main defers, in the order in which it does. *)
AllDeferred ==
  If(opts.program = "httptap", "removeCerts") \o <<"unlock">> \o If(MountSteps # <<>>, "remove")
  \o IF opts.program = "httptap" /\ opts.har THEN <<"close", "encode">> ELSE <<>>

(* The variables have the values that the comments on them name; what is   *)
(* still deferred is a beginning of what Main defers, with all that the    *)
(* steps done have deferred while Main has not begun to return.            *)
TypeOK ==
  /\ opts \in Options
  /\ outer \in {"absent", "running"} \cup Ends /\ code \in {"running"} \cup Ends
  /\ phase \in {"reexec", "setup", "waiting", "unwinding"}
  /\ step \in 1 .. Len(Plan) + 1 /\ (phase = "waiting" => step = Len(Plan) + 1)
  /\ IsPrefix(deferred, AllDeferred)
  /\ phase # "unwinding" => \A i \in 1 .. step - 1 : ToSet(DeferredBy(i)) \subseteq ToSet(deferred)
  /\ on \in Threads
  /\ locked \in BOOLEAN /\ net \in [Threads -> {"host", "own"}]
  /\ device \in {"none", "host", "own"} /\ certs \in {"none", "empty", "full"}
  /\ uid \in {"root", "other"} /\ sub \in {"none", "running"} \cup Ends
  /\ home.net \in {"host", "own"} /\ home.space \in Spaces
  /\ at \in [Calls -> {"idle", "asked", "tripped", "received", "lost", "printed"}]
  /\ dialed \in [Calls -> {"none", "host", "own"}]
  /\ file \in {"none", "open", "closed", "broken"}
  /\ {taken, written} \subseteq -1 .. Len(entries)
  /\ space \in [Threads -> Spaces]

(* While the process serves it, the subprocess runs in the network         *)
(* namespace of the device and in the private mount namespace, what is     *)
(* mounted has its files, and the certificates are there: httptap.go:257,  *)
(* 284-413, 559.  (With --user other they are there, but not for the       *)
(* subprocess to read: their directory belongs to root, with mode 0700.)   *)
Served ==
  sub = "running" /\ Alive /\ phase \in {"setup", "waiting"} =>
    /\ MountSteps # <<>> => home.space = "private" /\ mounted # <<>> /\ Backed
    /\ opts.program = "httptap" => home.net = "own" /\ device = "own" /\ certs = "full"

(* No mount of the process reaches the host's namespace, nothing but the   *)
(* locked thread leaves it, and a file bound over another lives as long as *)
(* the mount: overlay.go:81-90, bindfiles.go:41-54, httptap.go:285.        *)
HostUntouched ==
  /\ spilled = {}
  /\ \A t \in Threads : space[t] # "host" \/ net[t] # "host" =>
       \A u \in Threads \ {t} : space[u] = "host" /\ net[u] = "host"
  /\ "bind" \in ToSet(mounted) => "file" \in tmpdir

(* Handlers dial from the host's network namespace, although the process   *)
(* has a thread in the new one; until Main has unlocked that thread on its *)
(* way out: httptap.go:285, 621.                                           *)
DialsFromHost ==
  \A c \in Calls : dialed[c] = "own" => phase = "unwinding" /\ "unlock" \notin ToSet(deferred)

(* When Main has returned, no temporary directory is left, except the ones *)
(* of --user other, a mount that failed on the way (its caller gets no     *)
(* Remover or ignores it), pivot_root's, and one with a file still mounted;*)
(* and the subprocess runs only if the step after its start, the choice    *)
(* and creation of the stack, has failed: httptap.go:257, 412, 685-823.    *)
NothingLeft ==
  code \in {"ok", "error"} /\ phase = "unwinding" /\ deferred = <<>> =>
    /\ certs = "none" \/ uid = "other"
    /\ \/ tmpdir = {} \/ uid = "other" \/ failed \in MountCalls
       \/ {"pivotRoot", "bind"} \cap ToSet(mounted) # {}
    /\ sub = "running" => failed = "stack"

(* When Main has returned and the file could be created and written, the   *)
(* HAR file has every call whose response the subprocess received while it *)
(* ran, however many calls go on at exit: httptap.go:630-655,              *)
(* round_tripper.go:66-71.  (Errors of the encoder are ignored at line     *)
(* 653: the file is then empty or cut short, and nobody is told.)          *)
HarHasReceived ==
  phase = "unwinding" /\ deferred = <<>> /\ file \notin {"none", "broken"} /\ code # "crash" =>
    \A c \in Calls : at[c] \in {"received", "printed"} => c \in ToSet(SubSeq(entries, 1, written))

(* Whoever started the program gets 0 only if the command had exit code 0, *)
(* and always gets an error otherwise: httptap.go:235-241, 825-845.        *)
ExitTellsTheOutcome ==
  LET seen == IF opts.newUserNamespace /\ outer # "absent" THEN outer ELSE code
  IN /\ seen = "ok" => sub = "ok" /\ failed = "none"
     /\ seen = "error" /\ ~opts.web => sub # "ok" \/ failed # "none"

(* Once the subprocess has exited, the program ends, whatever handlers are *)
(* still waiting for: httptap.go:826.                                      *)
EndsAfterSubprocess ==
  sub \notin {"none", "running"} ~> ~Alive /\ outer # "running"
=============================================================================
