------------------------------- MODULE Mounts -------------------------------
(***************************************************************************)
(* The packages that lay files over the file system in a mount namespace   *)
(* of the calling thread: overlay (Mount, used by httptap), overlayroot    *)
(* (Pivot) and bindfiles (Mount), the latter two each used by one program  *)
(* under experiments.  Each is a sequence of system calls, any of which    *)
(* may fail, and a Remove.  Lifecycle runs them.                           *)
(***************************************************************************)
EXTENDS Integers, Sequences, SequencesExt

CONSTANTS
  Threads,   \* threads of the process: every one has its own namespaces
  BindFiles  \* number of files given to bindfiles.Mount

(* The experiment gives Mount one file. *)
ASSUME BindFilesAssumption == BindFiles \in Nat \ {0}
ASSUME ThreadsAssumption == Threads # {}

VARIABLES
  tmpdir,   \* what is in the temporary directory of Mount; {} if there is none
  space,    \* per thread: mount namespace, the host's or one of its own
  mounted,  \* the mounts made so far
  spilled,  \* history: those among them that the host's namespace has as well
  oldExists \* whether the host has a directory /old

mountVars == <<tmpdir, space, mounted, spilled, oldExists>>

Spaces == {"host", "shared", "slave", "private"}

BindCalls == [i \in 1 .. 3 * BindFiles |-> <<"write", "stat", "bind">>[1 + ((i - 1) % 3)]]

BadCallsOf ==
  [overlay |-> <<"mkdtemp", "mkdirs", "bake", "unshare", "mountOverlay">>,
   pivot   |-> <<"mkdtemp", "mkdirs", "bake", "unshare", "mountOverlay", "pivotRoot">>,
   bind    |-> <<"mkdtemp", "unshare">> \o BindCalls]
CallsOf ==
  [overlay |-> <<"mkdtemp", "mkdirs", "bake", "unshare", "private", "mountOverlay">>,
   pivot   |-> <<"mkdtemp", "mkdirs", "bake", "unshare", "private", "mountOverlay", "pivotRoot">>,
   bind    |-> <<"mkdtemp", "unshare", "private">> \o BindCalls]

MountCalls == UNION {ToSet(CallsOf[p]) : p \in DOMAIN CallsOf}

MountInit ==
  /\ tmpdir = {} /\ mounted = <<>> /\ spilled = {}
  /\ space = [t \in Threads |-> "host"]
  /\ oldExists \in BOOLEAN

(* What a call puts into the temporary directory. *)
Creates == [mkdtemp |-> {"dir"}, mkdirs |-> {"work", "layer"}, bake |-> {"baked"}, write |-> {"file"}]

MakeFiles(c) ==
  /\ c \in DOMAIN Creates
  /\ tmpdir' = tmpdir \cup Creates[c]
  /\ UNCHANGED <<space, mounted, spilled, oldExists>>

(* A namespace that belongs to another user namespace than the one it is   *)
(* copied from sends no mounts back (MS_SLAVE).                            *)
Unshare(c, t, newUserNamespace) ==
  /\ c = "unshare"
  /\ space' = [space EXCEPT ![t] = IF newUserNamespace THEN "slave" ELSE "shared"]
  /\ UNCHANGED <<tmpdir, mounted, spilled, oldExists>>

MakePrivate(c, t) ==
  /\ c = "private"
  /\ space' = [space EXCEPT ![t] = IF @ = "host" THEN @ ELSE "private"]
  /\ UNCHANGED <<tmpdir, mounted, spilled, oldExists>>

Attach(c, t) ==
  /\ c \in {"mountOverlay", "bind"}
  /\ mounted' = Append(mounted, c)
  /\ spilled' = IF space[t] \in {"host", "shared"} THEN spilled \cup {c} ELSE spilled
  /\ UNCHANGED <<tmpdir, space, oldExists>>

Stat(c) == c = "stat" /\ UNCHANGED mountVars

(* The directory made for the old root lies under the mount point, so that *)
(* the overlay hides it: the call finds /old of the host, if there is one. *)
PivotRoot(c) ==
  /\ c = "pivotRoot" /\ oldExists
  /\ mounted' = Append(mounted, c)
  /\ UNCHANGED <<tmpdir, space, spilled, oldExists>>

MountCall(c, t, newUserNamespace) ==
  \/ MakeFiles(c) \/ Unshare(c, t, newUserNamespace) \/ MakePrivate(c, t)
  \/ Attach(c, t) \/ Stat(c) \/ PivotRoot(c)

(* A call that fails may have made a part of its files. *)
MountCallFails(c) ==
  /\ \E part \in SUBSET (IF c \in DOMAIN Creates THEN Creates[c] ELSE {}) :
       /\ c = "mkdtemp" => part = {}
       /\ tmpdir' = tmpdir \cup part
  /\ UNCHANGED <<space, mounted, spilled, oldExists>>

-----------------------------------------------------------------------------
(* Remove: RemoveAll works if the files are the caller's.  After           *)
(* pivot_root the name is one in the overlay, which notes the removal in   *)
(* its own layer.                                                          *)
BadRemoveAll(owner) == IF owner /\ tmpdir = {"dir"} THEN {} ELSE tmpdir
RemoveAll(owner) ==
  IF owner /\ "pivotRoot" \notin ToSet(mounted) THEN {} ELSE tmpdir

RemoveOverlay(owner) ==
  /\ "bind" \notin ToSet(mounted)
  /\ tmpdir' = RemoveAll(owner)
  /\ UNCHANGED <<space, mounted, spilled, oldExists>>

(* bindfiles unmounts first, and keeps the files if a mount stays.  (Each  *)
(* stays or goes; only how many matters.)                                  *)
Kept(n) == IF n = 0 THEN RemoveAll(TRUE) ELSE tmpdir

RemoveBinds ==
  /\ "bind" \in ToSet(mounted)
  /\ \E n \in 0 .. Len(mounted) :
       /\ mounted' = SubSeq(mounted, 1, n)
       /\ tmpdir' = Kept(n)
  /\ UNCHANGED <<space, spilled, oldExists>>

RemoverRemove(owner) == RemoveOverlay(owner) \/ RemoveBinds

(* Whether what is mounted still has the files behind it. *)
Backed ==
  /\ "mountOverlay" \in ToSet(mounted) => {"layer", "work", "baked"} \subseteq tmpdir
  /\ "bind" \in ToSet(mounted) => "file" \in tmpdir
=============================================================================
