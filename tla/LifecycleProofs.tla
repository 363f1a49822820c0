-------------------------- MODULE LifecycleProofs --------------------------
(***************************************************************************)
(* What Lifecycle's process does to the host and to itself, for every set  *)
(* of options, of threads and of calls, and every number of bound files.   *)
(* The order of the setup's steps is put into one place: a step has a rank *)
(* (Place), and in every Plan the ranks increase, but for the calls that   *)
(* bindfiles.Mount repeats for each file.                                  *)
(*                                                                         *)
(* LifeInv is inductive.  Until Main returns it says what each step that   *)
(* is done has brought about, and afterwards what holds while a deferred   *)
(* call is still to come; StackInv ties the one to the other.              *)
(***************************************************************************)
EXTENDS Lifecycle, SequenceTheorems, TLAPS

(* Every step of any setup, and its rank. *)
Place ==
  [ca |-> 1, tempdir |-> 2, certs |-> 3, lock |-> 4, netns |-> 5, device |-> 6,
   mkdtemp |-> 7, mkdirs |-> 8, bake |-> 9, unshare |-> 10, private |-> 11,
   mountOverlay |-> 12, pivotRoot |-> 13, write |-> 14, stat |-> 14, bind |-> 14,
   user |-> 15, console |-> 16, web |-> 17, launch |-> 18, har |-> 19,
   transport |-> 20, stack |-> 21]
Steps ==
  {"ca", "tempdir", "certs", "lock", "netns", "device", "mkdtemp", "mkdirs", "bake", "unshare",
   "private", "mountOverlay", "pivotRoot", "write", "stat", "bind", "user", "console", "web",
   "launch", "har", "transport", "stack"}
Repeated == 14

In(x, s) == \E i \in 1 .. Len(s) : s[i] = x

(* A list of steps whose ranks lie in lo .. hi and increase. *)
Arranged(s, lo, hi) ==
  /\ s \in Seq(Steps)
  /\ \A i \in 1 .. Len(s) : Place[s[i]] \in lo .. hi
  /\ \A i, j \in 1 .. Len(s) :
       i < j => \/ Place[s[i]] < Place[s[j]]
                \/ Place[s[i]] = Repeated /\ Place[s[j]] = Repeated

-----------------------------------------------------------------------------
(* The order of the steps. *)

LEMMA PlaceType == \A x \in Steps : Place[x] \in 1 .. 21
BY DEF Place, Steps

LEMMA Joined ==
  ASSUME NEW S, NEW s \in Seq(S), NEW t \in Seq(S)
  PROVE  /\ s \o t \in Seq(S) /\ Len(s \o t) = Len(s) + Len(t)
         /\ \A i \in 1 .. Len(s \o t) : (s \o t)[i] = IF i <= Len(s) THEN s[i] ELSE t[i - Len(s)]
OBVIOUS

LEMMA InJoin ==
  ASSUME NEW S, NEW s \in Seq(S), NEW t \in Seq(S)
  PROVE  \A x : In(x, s \o t) <=> In(x, s) \/ In(x, t)
<1> DEFINE w == s \o t
<1>1. /\ Len(w) = Len(s) + Len(t) /\ Len(s) \in Nat /\ Len(t) \in Nat
      /\ \A i \in 1 .. Len(w) : w[i] = IF i <= Len(s) THEN s[i] ELSE t[i - Len(s)]
  BY Joined
<1> HIDE DEF w
<1>2. ASSUME NEW x PROVE In(x, w) <=> In(x, s) \/ In(x, t)
  <2>1. In(x, s) => In(x, w)
    <3> SUFFICES ASSUME NEW i \in 1 .. Len(s), s[i] = x PROVE In(x, w) BY DEF In
    <3>1. i \in 1 .. Len(w) /\ w[i] = x BY <1>1
    <3> QED BY <3>1 DEF In
  <2>2. In(x, t) => In(x, w)
    <3> SUFFICES ASSUME NEW i \in 1 .. Len(t), t[i] = x PROVE In(x, w) BY DEF In
    <3>1. i + Len(s) \in 1 .. Len(w) /\ w[i + Len(s)] = x BY <1>1
    <3> QED BY <3>1 DEF In
  <2>3. In(x, w) => In(x, s) \/ In(x, t)
    <3> SUFFICES ASSUME NEW i \in 1 .. Len(w), w[i] = x PROVE In(x, s) \/ In(x, t) BY DEF In
    <3>1. CASE i <= Len(s) BY <3>1, <1>1 DEF In
    <3>2. CASE ~(i <= Len(s))
      <4>1. i - Len(s) \in 1 .. Len(t) /\ t[i - Len(s)] = x BY <3>2, <1>1
      <4> QED BY <4>1 DEF In
    <3> QED BY <3>1, <3>2
  <2> QED BY <2>1, <2>2, <2>3
<1> QED BY <1>2 DEF w

(* Two arranged lists make one if the first has the lower ranks. *)
LEMMA ArrangedJoin ==
  ASSUME NEW s, NEW t, NEW lo \in Nat, NEW mid \in Nat, NEW next \in Nat, NEW hi \in Nat,
         Arranged(s, lo, mid), Arranged(t, next, hi), lo <= next, mid < next, mid <= hi
  PROVE  /\ Arranged(s \o t, lo, hi)
         /\ \A x : In(x, s \o t) <=> In(x, s) \/ In(x, t)
<1> DEFINE w == s \o t
<1>1. s \in Seq(Steps) /\ t \in Seq(Steps) BY DEF Arranged
<1>2. /\ w \in Seq(Steps) /\ Len(w) = Len(s) + Len(t) /\ Len(s) \in Nat /\ Len(t) \in Nat
      /\ \A i \in 1 .. Len(w) : w[i] = IF i <= Len(s) THEN s[i] ELSE t[i - Len(s)]
  BY <1>1, Joined
<1> HIDE DEF w
<1>3. \A i \in 1 .. Len(w) : Place[w[i]] \in lo .. hi
  <2> TAKE i \in 1 .. Len(w)
  <2>1. CASE i <= Len(s)
    <3>1. i \in 1 .. Len(s) /\ w[i] = s[i] BY <2>1, <1>2
    <3> QED BY <3>1 DEF Arranged
  <2>2. CASE ~(i <= Len(s))
    <3>1. i - Len(s) \in 1 .. Len(t) /\ w[i] = t[i - Len(s)] BY <2>2, <1>2
    <3>2. Place[w[i]] \in next .. hi BY <3>1 DEF Arranged
    <3> QED BY <3>2
  <2> QED BY <2>1, <2>2
<1>4. ASSUME NEW i \in 1 .. Len(w), NEW j \in 1 .. Len(w), i < j
      PROVE  \/ Place[w[i]] < Place[w[j]]
             \/ Place[w[i]] = Repeated /\ Place[w[j]] = Repeated
  <2>1. CASE j <= Len(s)
    <3>1. i \in 1 .. Len(s) /\ j \in 1 .. Len(s) /\ w[i] = s[i] /\ w[j] = s[j] BY <2>1, <1>2, <1>4
    <3> QED BY <3>1, <1>4 DEF Arranged
  <2>2. CASE ~(i <= Len(s))
    <3>1. /\ i - Len(s) \in 1 .. Len(t) /\ j - Len(s) \in 1 .. Len(t) /\ i - Len(s) < j - Len(s)
          /\ w[i] = t[i - Len(s)] /\ w[j] = t[j - Len(s)]
      BY <2>2, <1>2, <1>4
    <3> QED BY <3>1 DEF Arranged
  <2>3. CASE i <= Len(s) /\ ~(j <= Len(s))
    <3>1. /\ i \in 1 .. Len(s) /\ j - Len(s) \in 1 .. Len(t)
          /\ w[i] = s[i] /\ w[j] = t[j - Len(s)]
      BY <2>3, <1>2
    <3>2. Place[w[i]] \in lo .. mid /\ Place[w[j]] \in next .. hi BY <3>1 DEF Arranged
    <3> QED BY <3>2
  <2> QED BY <2>1, <2>2, <2>3, <1>2
<1>5. \A x : In(x, w) <=> In(x, s) \/ In(x, t) BY <1>1, InJoin DEF w
<1>6. Arranged(w, lo, hi) BY <1>2, <1>3, <1>4 DEF Arranged
<1> QED BY <1>5, <1>6 DEF w

LEMMA ArrangedOne ==
  ASSUME NEW x \in Steps
  PROVE  Arranged(<<x>>, Place[x], Place[x]) /\ \A y : In(y, <<x>>) <=> y = x
<1>1. <<x>> \in Seq(Steps) /\ Len(<<x>>) = 1 /\ <<x>>[1] = x OBVIOUS
<1>2. \A i \in 1 .. Len(<<x>>) : <<x>>[i] = x BY <1>1
<1>3. Place[x] \in Nat BY PlaceType
<1>4. Arranged(<<x>>, Place[x], Place[x]) BY <1>1, <1>2, <1>3 DEF Arranged
<1> QED BY <1>1, <1>2, <1>4 DEF In

LEMMA ArrangedNone ==
  ASSUME NEW lo, NEW hi PROVE Arranged(<<>>, lo, hi) /\ \A y : ~In(y, <<>>)
BY DEF Arranged, In

LEMMA ArrangedIf ==
  ASSUME NEW x \in Steps, NEW wanted \in BOOLEAN
  PROVE  Arranged(If(wanted, x), Place[x], Place[x]) /\ \A y : In(y, If(wanted, x)) <=> wanted /\ y = x
<1>1. CASE wanted BY <1>1, ArrangedOne DEF If
<1>2. CASE ~wanted BY <1>2, ArrangedNone DEF If
<1> QED BY <1>1, <1>2

(* The list that bindfiles.Mount goes through: a file is written before it *)
(* is bound, and the last call binds one.                                  *)
LEMMA BindCallsAre ==
  /\ BindCalls \in Seq({"write", "stat", "bind"}) /\ Len(BindCalls) \in Nat /\ Len(BindCalls) >= 3
  /\ BindCalls[1] = "write" /\ BindCalls[3] = "bind"
<1>1. BindFiles \in Nat /\ BindFiles >= 1 BY BindFilesAssumption
<1>2. BindCalls \in [1 .. 3 * BindFiles -> {"write", "stat", "bind"}] BY <1>1 DEF BindCalls
<1>3. BindCalls \in Seq({"write", "stat", "bind"}) BY <1>1, <1>2
<1>4. Len(BindCalls) = 3 * BindFiles BY <1>1, <1>2
<1>5. 1 \in 1 .. 3 * BindFiles /\ 3 \in 1 .. 3 * BindFiles BY <1>1
<1>6. BindCalls[1] = "write" /\ BindCalls[3] = "bind" BY <1>5 DEF BindCalls
<1> QED BY <1>1, <1>3, <1>4, <1>6

LEMMA OverlayCallsAre ==
  /\ Arranged(CallsOf.overlay, 7, 14)
  /\ \A x : In(x, CallsOf.overlay) <=>
       x \in {"mkdtemp", "mkdirs", "bake", "unshare", "private", "mountOverlay"}
<1> DEFINE s == CallsOf.overlay
<1>1. s = <<"mkdtemp", "mkdirs", "bake", "unshare", "private", "mountOverlay">> BY DEF CallsOf
<1>2. /\ s \in Seq(Steps) /\ Len(s) = 6
      /\ s[1] = "mkdtemp" /\ s[2] = "mkdirs" /\ s[3] = "bake" /\ s[4] = "unshare" /\ s[5] = "private"
      /\ s[6] = "mountOverlay"
  BY <1>1 DEF Steps
<1> HIDE DEF s
<1>3. Arranged(s, 7, 14) BY <1>2 DEF Arranged, Place
<1>4. \A x : In(x, s) <=> x \in {"mkdtemp", "mkdirs", "bake", "unshare", "private", "mountOverlay"}
  BY <1>2 DEF In
<1> QED BY <1>3, <1>4 DEF s

LEMMA PivotCallsAre ==
  /\ Arranged(CallsOf.pivot, 7, 14)
  /\ \A x : In(x, CallsOf.pivot) <=>
       x \in {"mkdtemp", "mkdirs", "bake", "unshare", "private", "mountOverlay", "pivotRoot"}
<1> DEFINE s == CallsOf.pivot
<1>1. s = <<"mkdtemp", "mkdirs", "bake", "unshare", "private", "mountOverlay", "pivotRoot">> BY DEF CallsOf
<1>2. /\ s \in Seq(Steps) /\ Len(s) = 7
      /\ s[1] = "mkdtemp" /\ s[2] = "mkdirs" /\ s[3] = "bake" /\ s[4] = "unshare" /\ s[5] = "private"
      /\ s[6] = "mountOverlay" /\ s[7] = "pivotRoot"
  BY <1>1 DEF Steps
<1> HIDE DEF s
<1>3. Arranged(s, 7, 14) BY <1>2 DEF Arranged, Place
<1>4. \A x : In(x, s) <=>
        x \in {"mkdtemp", "mkdirs", "bake", "unshare", "private", "mountOverlay", "pivotRoot"}
  BY <1>2 DEF In
<1> QED BY <1>3, <1>4 DEF s

LEMMA BindMountCallsAre ==
  /\ Arranged(CallsOf.bind, 7, 14)
  /\ \A x : In(x, CallsOf.bind) => x \in {"mkdtemp", "unshare", "private", "write", "stat", "bind"}
  /\ \A x \in {"mkdtemp", "unshare", "private", "write", "bind"} : In(x, CallsOf.bind)
  /\ Len(CallsOf.bind) >= 4 /\ CallsOf.bind[4] = "write"
  /\ \A i \in 1 .. Len(CallsOf.bind) : CallsOf.bind[i] = "bind" => i > 4
<1> DEFINE s == CallsOf.bind
           h == <<"mkdtemp", "unshare", "private">>
           b == BindCalls
<1>1. s = h \o b BY DEF CallsOf
<1>2. /\ h \in Seq(Steps) /\ Len(h) = 3 /\ h[1] = "mkdtemp" /\ h[2] = "unshare" /\ h[3] = "private"
  BY DEF Steps
<1>3. /\ b \in Seq(Steps) /\ Len(b) \in Nat /\ Len(b) >= 3 /\ b[1] = "write" /\ b[3] = "bind"
      /\ \A i \in 1 .. Len(b) : b[i] \in {"write", "stat", "bind"}
  BY BindCallsAre DEF Steps
<1> HIDE DEF h, b, s
<1>4. Arranged(h, 7, 11) BY <1>2 DEF Arranged, Place
<1>5. Arranged(b, 14, 14)
  <2>1. \A i \in 1 .. Len(b) : Place[b[i]] = 14 BY <1>3 DEF Place
  <2> QED BY <2>1, <1>3 DEF Arranged, Repeated
<1>6. Arranged(s, 7, 14) /\ \A x : In(x, s) <=> In(x, h) \/ In(x, b)
  BY <1>1, <1>4, <1>5, ArrangedJoin
<1>7. \A x : In(x, h) <=> x \in {"mkdtemp", "unshare", "private"} BY <1>2 DEF In
<1>8. In("write", b) /\ In("bind", b) /\ \A x : In(x, b) => x \in {"write", "stat", "bind"}
  BY <1>3 DEF In
<1>9. /\ Len(s) = 3 + Len(b)
      /\ \A i \in 1 .. Len(s) : s[i] = IF i <= 3 THEN h[i] ELSE b[i - 3]
  <2>1. /\ Len(h \o b) = Len(h) + Len(b)
        /\ \A i \in 1 .. Len(h \o b) : (h \o b)[i] = IF i <= Len(h) THEN h[i] ELSE b[i - Len(h)]
    <3>1. h \in Seq(Steps) /\ b \in Seq(Steps) BY <1>2, <1>3
    <3> QED BY <3>1, Joined
  <2> QED BY <2>1, <1>1, <1>2
<1>10. Len(s) >= 4 /\ s[4] = "write" BY <1>9, <1>3
<1>11. \A i \in 1 .. Len(s) : s[i] = "bind" => i > 4
  <2> SUFFICES ASSUME NEW i \in 1 .. Len(s), i <= 4 PROVE s[i] # "bind" OBVIOUS
  <2>1. CASE i <= 3 BY <2>1, <1>9, <1>2
  <2>2. CASE i = 4 BY <2>2, <1>10
  <2> QED BY <2>1, <2>2
<1> QED BY <1>6, <1>7, <1>8, <1>10, <1>11 DEF s

Httptap == opts.program = "httptap"
Pivots == opts.program = "pivotroot"
Binds == opts.program = "bindmount"
Overlays == (Httptap /\ opts.overlay) \/ Pivots
Lays == Overlays \/ Binds

OptionsType ==
  /\ opts.program \in Programs /\ opts.user \in {"none", "root", "other"}
  /\ opts.newUserNamespace \in BOOLEAN /\ opts.overlay \in BOOLEAN
  /\ opts.har \in BOOLEAN /\ opts.web \in BOOLEAN

LEMMA OptionsTyped ==
  ASSUME opts \in Options PROVE OptionsType /\ (Httptap \/ Pivots \/ Binds)
BY OptionsAssumption DEF OptionsType, Programs, Httptap, Pivots, Binds

(* What Mount does, by program. *)
LEMMA MountStepsAre ==
  ASSUME OptionsType
  PROVE  /\ Arranged(MountSteps, 7, 14)
         /\ (MountSteps # <<>>) <=> Lays
         /\ ~Lays => \A x : ~In(x, MountSteps)
         /\ \A x : In(x, MountSteps) =>
              \/ x \in {"mkdtemp", "unshare", "private"} /\ Lays
              \/ x \in {"mkdirs", "bake", "mountOverlay"} /\ Overlays
              \/ x = "pivotRoot" /\ Pivots
              \/ x \in {"write", "stat", "bind"} /\ Binds
         /\ Lays => In("mkdtemp", MountSteps) /\ In("unshare", MountSteps) /\ In("private", MountSteps)
         /\ Overlays => In("mkdirs", MountSteps) /\ In("bake", MountSteps) /\ In("mountOverlay", MountSteps)
         /\ Binds => In("write", MountSteps) /\ In("bind", MountSteps)
         /\ Binds => MountSteps = CallsOf.bind
<1>0. /\ Httptap \/ Pivots \/ Binds
      /\ ~(Httptap /\ Pivots) /\ ~(Httptap /\ Binds) /\ ~(Pivots /\ Binds)
  BY DEF OptionsType, Programs, Httptap, Pivots, Binds
<1>1. CASE Httptap /\ opts.overlay
  <2>1. MountSteps = CallsOf.overlay BY <1>1 DEF MountSteps, Httptap
  <2>2. CallsOf.overlay # <<>> BY OverlayCallsAre DEF In
  <2> QED BY <1>0, <1>1, <2>1, <2>2, OverlayCallsAre DEF Lays, Overlays
<1>2. CASE Httptap /\ ~opts.overlay
  <2>1. MountSteps = <<>> BY <1>2 DEF MountSteps, Httptap
  <2> QED BY <1>0, <1>2, <2>1, ArrangedNone DEF Lays, Overlays
<1>3. CASE Pivots
  <2>1. MountSteps = CallsOf.pivot BY <1>3 DEF MountSteps, Pivots
  <2>2. CallsOf.pivot # <<>> BY PivotCallsAre DEF In
  <2> QED BY <1>0, <1>3, <2>1, <2>2, PivotCallsAre DEF Lays, Overlays
<1>4. CASE Binds
  <2>1. MountSteps = CallsOf.bind BY <1>4 DEF MountSteps, Binds
  <2>2. CallsOf.bind # <<>> BY BindMountCallsAre DEF In
  <2> QED BY <1>0, <1>4, <2>1, <2>2, BindMountCallsAre DEF Lays, Overlays
<1> QED BY <1>0, <1>1, <1>2, <1>3, <1>4

Wanted(x) ==
  \/ x \in {"lock", "launch"}
  \/ Httptap /\ x \in {"ca", "tempdir", "certs", "netns", "device", "console", "transport", "stack"}
  \/ Httptap /\ opts.user # "none" /\ x = "user"
  \/ Httptap /\ opts.web /\ x = "web"
  \/ Httptap /\ opts.har /\ x = "har"
  \/ In(x, MountSteps)

(* The setup goes through its steps by rank, and takes those wanted. *)
LEMMA PlanIs ==
  ASSUME OptionsType
  PROVE  Arranged(Plan, 1, 21) /\ \A x : In(x, Plan) <=> Wanted(x)
<1>0. /\ Httptap \/ Pivots \/ Binds
      /\ ~(Httptap /\ Pivots) /\ ~(Httptap /\ Binds) /\ ~(Pivots /\ Binds)
  BY DEF OptionsType, Programs, Httptap, Pivots, Binds
<1>1. Arranged(MountSteps, 7, 14) BY MountStepsAre
<1>2. ASSUME Httptap PROVE Arranged(Plan, 1, 21) /\ \A x : In(x, Plan) <=> Wanted(x)
  <2> DEFINE a == <<"ca", "tempdir", "certs", "lock", "netns", "device">>
             b == a \o MountSteps
             c == b \o If(opts.user # "none", "user")
             d == c \o <<"console">>
             e == d \o If(opts.web, "web")
             f == e \o <<"launch">>
             g == f \o If(opts.har, "har")
             z == <<"transport", "stack">>
  <2>1. Plan = g \o z BY <1>2 DEF Plan, Prepare, Httptap
  <2>2. /\ Arranged(a, 1, 6)
        /\ \A x : In(x, a) <=> x \in {"ca", "tempdir", "certs", "lock", "netns", "device"}
    <3>1. /\ a \in Seq(Steps) /\ Len(a) = 6
          /\ a[1] = "ca" /\ a[2] = "tempdir" /\ a[3] = "certs" /\ a[4] = "lock" /\ a[5] = "netns" /\ a[6] = "device"
      BY DEF Steps
    <3> HIDE DEF a
    <3> QED BY <3>1 DEF Arranged, In, Place
  <2> HIDE DEF a
  <2>3. Arranged(b, 1, 14) /\ \A x : In(x, b) <=> In(x, a) \/ In(x, MountSteps)
    BY <2>2, <1>1, ArrangedJoin
  <2> HIDE DEF b
  <2>4. Arranged(c, 1, 15) /\ \A x : In(x, c) <=> In(x, b) \/ (opts.user # "none" /\ x = "user")
    <3>1. /\ Arranged(If(opts.user # "none", "user"), 15, 15)
          /\ \A x : In(x, If(opts.user # "none", "user")) <=> opts.user # "none" /\ x = "user"
      BY ArrangedIf DEF Steps, Place
    <3> QED BY <2>3, <3>1, ArrangedJoin
  <2> HIDE DEF c
  <2>5. Arranged(d, 1, 16) /\ \A x : In(x, d) <=> In(x, c) \/ x = "console"
    <3>1. Arranged(<<"console">>, 16, 16) /\ \A x : In(x, <<"console">>) <=> x = "console"
      BY ArrangedOne DEF Steps, Place
    <3> QED BY <2>4, <3>1, ArrangedJoin
  <2> HIDE DEF d
  <2>6. Arranged(e, 1, 17) /\ \A x : In(x, e) <=> In(x, d) \/ (opts.web /\ x = "web")
    <3>1. /\ Arranged(If(opts.web, "web"), 17, 17)
          /\ \A x : In(x, If(opts.web, "web")) <=> opts.web /\ x = "web"
      BY ArrangedIf DEF Steps, Place, OptionsType
    <3> QED BY <2>5, <3>1, ArrangedJoin
  <2> HIDE DEF e
  <2>7. Arranged(f, 1, 18) /\ \A x : In(x, f) <=> In(x, e) \/ x = "launch"
    <3>1. Arranged(<<"launch">>, 18, 18) /\ \A x : In(x, <<"launch">>) <=> x = "launch"
      BY ArrangedOne DEF Steps, Place
    <3> QED BY <2>6, <3>1, ArrangedJoin
  <2> HIDE DEF f
  <2>8. Arranged(g, 1, 19) /\ \A x : In(x, g) <=> In(x, f) \/ (opts.har /\ x = "har")
    <3>1. /\ Arranged(If(opts.har, "har"), 19, 19)
          /\ \A x : In(x, If(opts.har, "har")) <=> opts.har /\ x = "har"
      BY ArrangedIf DEF Steps, Place, OptionsType
    <3> QED BY <2>7, <3>1, ArrangedJoin
  <2> HIDE DEF g
  <2>9. Arranged(z, 20, 21) /\ \A x : In(x, z) <=> x \in {"transport", "stack"}
    <3>1. z \in Seq(Steps) /\ Len(z) = 2 /\ z[1] = "transport" /\ z[2] = "stack" BY DEF Steps
    <3> HIDE DEF z
    <3> QED BY <3>1 DEF Arranged, In, Place
  <2> HIDE DEF z
  <2>10. Arranged(Plan, 1, 21) /\ \A x : In(x, Plan) <=> In(x, g) \/ In(x, z)
    BY <2>1, <2>8, <2>9, ArrangedJoin
  <2> QED BY <1>2, <2>2, <2>3, <2>4, <2>5, <2>6, <2>7, <2>8, <2>9, <2>10 DEF Wanted
<1>3. ASSUME ~Httptap PROVE Arranged(Plan, 1, 21) /\ \A x : In(x, Plan) <=> Wanted(x)
  <2> DEFINE a == <<"lock">>
             b == a \o MountSteps
             z == <<"launch">>
  <2>1. Plan = b \o z BY <1>3 DEF Plan, Httptap
  <2>2. Arranged(a, 4, 4) /\ \A x : In(x, a) <=> x = "lock" BY ArrangedOne DEF Steps, Place
  <2>3. Arranged(z, 18, 18) /\ \A x : In(x, z) <=> x = "launch" BY ArrangedOne DEF Steps, Place
  <2> HIDE DEF a, z
  <2>4. Arranged(b, 4, 14) /\ \A x : In(x, b) <=> In(x, a) \/ In(x, MountSteps)
    BY <2>2, <1>1, ArrangedJoin
  <2> HIDE DEF b
  <2>5. Arranged(Plan, 4, 18) /\ \A x : In(x, Plan) <=> In(x, b) \/ In(x, z)
    BY <2>1, <2>3, <2>4, ArrangedJoin
  <2>6. Arranged(Plan, 1, 21)
    <3>1. \A i \in 1 .. Len(Plan) : Place[Plan[i]] \in 1 .. 21
      <4> TAKE i \in 1 .. Len(Plan)
      <4>1. Place[Plan[i]] \in 4 .. 18 BY <2>5 DEF Arranged
      <4> QED BY <4>1
    <3> QED BY <3>1, <2>5 DEF Arranged
  <2> QED BY <1>3, <2>2, <2>3, <2>4, <2>5, <2>6 DEF Wanted
<1> QED BY <1>2, <1>3

LEMMA PlanTyped ==
  ASSUME OptionsType
  PROVE  /\ Plan \in Seq(Steps) /\ Len(Plan) \in Nat \ {0}
         /\ \A i \in 1 .. Len(Plan) : Plan[i] \in Steps /\ Place[Plan[i]] \in 1 .. 21 /\ Wanted(Plan[i])
<1>1. Arranged(Plan, 1, 21) /\ \A x : In(x, Plan) <=> Wanted(x) BY PlanIs
<1>2. Plan \in Seq(Steps) /\ Len(Plan) \in Nat BY <1>1 DEF Arranged
<1>3. \E i \in 1 .. Len(Plan) : Plan[i] = "lock" BY <1>1 DEF Wanted, In
<1>4. Len(Plan) # 0 BY <1>2, <1>3
<1>5. \A i \in 1 .. Len(Plan) : Plan[i] \in Steps /\ Place[Plan[i]] \in 1 .. 21
  BY <1>1, <1>2 DEF Arranged
<1>6. \A i \in 1 .. Len(Plan) : Wanted(Plan[i]) BY <1>1 DEF In
<1> QED BY <1>2, <1>4, <1>5, <1>6

(* bindfiles.Mount writes a file before it binds one. *)
LEMMA WriteBeforeBind ==
  ASSUME OptionsType, NEW i \in 1 .. Len(Plan), Plan[i] = "bind"
  PROVE  \E j \in 1 .. i - 1 : Plan[j] = "write"
<1>1. Wanted("bind") BY PlanTyped
<1>2. Binds BY <1>1, MountStepsAre DEF Wanted
<1>3. ~Httptap BY <1>2 DEF Httptap, Binds
<1> DEFINE a == <<"lock">>
           s == CallsOf.bind
           z == <<"launch">>
<1>4. Plan = a \o s \o z BY <1>2, <1>3, MountStepsAre DEF Plan, Httptap
<1>5. a \in Seq(Steps) /\ Len(a) = 1 /\ a[1] = "lock" BY DEF Steps
<1>6. z \in Seq(Steps) /\ Len(z) = 1 /\ z[1] = "launch" BY DEF Steps
<1>7. /\ s \in Seq(Steps) /\ Len(s) >= 4 /\ s[4] = "write"
      /\ \A k \in 1 .. Len(s) : s[k] = "bind" => k > 4
  BY BindMountCallsAre DEF Arranged
<1> HIDE DEF a, s, z
<1>8. /\ a \o s \in Seq(Steps) /\ Len(a \o s) = 1 + Len(s)
      /\ \A k \in 1 .. Len(a \o s) : (a \o s)[k] = IF k <= 1 THEN a[k] ELSE s[k - 1]
  <2>1. a \in Seq(Steps) /\ s \in Seq(Steps) BY <1>5, <1>7
  <2>2. /\ a \o s \in Seq(Steps) /\ Len(a \o s) = Len(a) + Len(s)
        /\ \A k \in 1 .. Len(a \o s) : (a \o s)[k] = IF k <= Len(a) THEN a[k] ELSE s[k - Len(a)]
    BY <2>1, Joined
  <2> QED BY <2>2, <1>5
<1>9. /\ Len(Plan) = Len(s) + 2
      /\ \A k \in 1 .. Len(Plan) : Plan[k] = IF k <= Len(s) + 1 THEN (a \o s)[k] ELSE z[k - (Len(s) + 1)]
  <2>1. a \o s \in Seq(Steps) /\ z \in Seq(Steps) BY <1>6, <1>8
  <2>2. /\ Len(a \o s \o z) = Len(a \o s) + Len(z)
        /\ \A k \in 1 .. Len(a \o s \o z) :
             (a \o s \o z)[k] = IF k <= Len(a \o s) THEN (a \o s)[k] ELSE z[k - Len(a \o s)]
    BY <2>1, Joined
  <2>3. Len(s) \in Nat BY <1>7
  <2> QED BY <2>2, <2>3, <1>4, <1>6, <1>8
<1>10. Len(s) \in Nat BY <1>7
<1>11. Plan[5] = "write" BY <1>7, <1>8, <1>9, <1>10
<1>12. i > 5
  <2>1. CASE i = 1 BY <2>1, <1>5, <1>8, <1>9, <1>10
  <2>2. CASE i \in 2 .. 5
    <3>1. i - 1 \in 1 .. Len(s) /\ Plan[i] = s[i - 1] BY <2>2, <1>7, <1>8, <1>9, <1>10
    <3> QED BY <3>1, <2>2, <1>7
  <2> QED BY <2>1, <2>2
<1> QED BY <1>11, <1>12

(* The steps that a rank from 7 to 14 names are those of a Mount. *)
LEMMA MountRanks ==
  \A x \in Steps : Place[x] \in 7 .. 14 =>
    x \in {"mkdtemp", "mkdirs", "bake", "unshare", "private", "mountOverlay", "pivotRoot", "write", "stat", "bind"}
BY DEF Place, Steps

LEMMA MountCallsAre ==
  \A x \in Steps : x \in MountCalls <=> Place[x] \in 7 .. 14
<1> DEFINE M == {"mkdtemp", "mkdirs", "bake", "unshare", "private", "mountOverlay", "pivotRoot", "write",
                 "stat", "bind"}
<1>1. DOMAIN CallsOf = {"overlay", "pivot", "bind"} BY DEF CallsOf
<1>2. ASSUME NEW p \in DOMAIN CallsOf, NEW x \in ToSet(CallsOf[p]) PROVE x \in M
  <2>1. Arranged(CallsOf[p], 7, 14) BY <1>1, OverlayCallsAre, PivotCallsAre, BindMountCallsAre
  <2>2. In(x, CallsOf[p]) BY <2>1 DEF ToSet, In, Arranged
  <2>3. x \in Steps /\ Place[x] \in 7 .. 14 BY <2>1, <2>2 DEF In, Arranged
  <2> QED BY <2>3, MountRanks
<1>3. \A x \in M \ {"stat"} : In(x, CallsOf.pivot) \/ In(x, CallsOf.bind)
  BY PivotCallsAre, BindMountCallsAre
<1>4. In("stat", CallsOf.bind)
  <2>1. 2 \in 1 .. 3 * BindFiles BY BindFilesAssumption
  <2>2. BindCalls[2] = "stat" BY <2>1 DEF BindCalls
  <2> DEFINE h == <<"mkdtemp", "unshare", "private">>
             b == BindCalls
  <2>3. h \in Seq(Steps) /\ Len(h) = 3 BY DEF Steps
  <2>4. b \in Seq(Steps) /\ Len(b) >= 3 BY BindCallsAre DEF Steps
  <2>5. CallsOf.bind = h \o b BY DEF CallsOf
  <2>6. b[2] = "stat" BY <2>2
  <2> HIDE DEF h, b
  <2>7. Len(h \o b) = 3 + Len(b) /\ (h \o b)[5] = b[2]
    <3>1. h \in Seq(Steps) /\ b \in Seq(Steps) BY <2>3, <2>4
    <3>2. /\ Len(h \o b) = Len(h) + Len(b)
          /\ \A k \in 1 .. Len(h \o b) : (h \o b)[k] = IF k <= Len(h) THEN h[k] ELSE b[k - Len(h)]
      BY <3>1, Joined
    <3>3. 5 \in 1 .. Len(h \o b) BY <3>2, <2>3, <2>4
    <3> QED BY <3>2, <3>3, <2>3
  <2> QED BY <2>4, <2>5, <2>6, <2>7 DEF In
<1>5. \A x \in M : \E p \in DOMAIN CallsOf : x \in ToSet(CallsOf[p])
  <2>1. /\ Arranged(CallsOf.pivot, 7, 14) /\ Arranged(CallsOf.bind, 7, 14)
    BY PivotCallsAre, BindMountCallsAre
  <2>2. \A x : In(x, CallsOf.pivot) => x \in ToSet(CallsOf["pivot"]) BY <2>1 DEF In, ToSet, Arranged
  <2>3. \A x : In(x, CallsOf.bind) => x \in ToSet(CallsOf["bind"]) BY <2>1 DEF In, ToSet, Arranged
  <2> QED BY <1>1, <1>3, <1>4, <2>2, <2>3
<1>6. MountCalls = M
  <2>1. \A x \in MountCalls : \E p \in DOMAIN CallsOf : x \in ToSet(CallsOf[p]) BY DEF MountCalls
  <2>2. \A p \in DOMAIN CallsOf : \A x \in ToSet(CallsOf[p]) : x \in MountCalls BY DEF MountCalls
  <2> QED BY <2>1, <2>2, <1>2, <1>5
<1> QED BY <1>6 DEF Steps, Place

-----------------------------------------------------------------------------
(* What has been done, and what is deferred. *)

Done(x) == \E i \in 1 .. step - 1 : Plan[i] = x
MountBegun == \E i \in 1 .. step - 1 : Mounting(i)
MountDone == \E i \in 1 .. step - 1 : LastMount(i)

LEMMA SamePlan ==
  ASSUME opts' = opts
  PROVE  /\ Plan' = Plan /\ AllDeferred' = AllDeferred /\ MountSteps' = MountSteps
         /\ Httptap' = Httptap /\ Binds' = Binds /\ Overlays' = Overlays /\ Lays' = Lays
         /\ \A x : Wanted(x)' = Wanted(x)
         /\ \A i : Mounting(i)' = Mounting(i) /\ LastMount(i)' = LastMount(i) /\ DeferredBy(i)' = DeferredBy(i)
BY DEF Plan, Prepare, AllDeferred, MountSteps, Httptap, Pivots, Binds, Overlays, Lays, Wanted, Mounting,
       LastMount, DeferredBy

LEMMA RanksDiffer ==
  ASSUME NEW p \in 1 .. 21, NEW q \in 1 .. 21, p < q
  PROVE  p # q /\ ~(q < p) /\ ~(q = Repeated /\ p = Repeated)
OBVIOUS

LEMMA RankBetween ==
  ASSUME NEW p \in 7 .. 14, NEW q \in 1 .. 21, NEW r \in 7 .. 14,
         p < q \/ (p = Repeated /\ q = Repeated), q < r \/ (q = Repeated /\ r = Repeated)
  PROVE  q \in 7 .. 14
BY DEF Repeated

(* The next step's predecessors are done, its successors are not. *)
LEMMA Order ==
  ASSUME OptionsType, step \in 1 .. Len(Plan)
  PROVE  /\ \A x : Wanted(x) /\ Place[x] < Place[Plan[step]] => Done(x)
         /\ \A x \in Steps : Place[x] > Place[Plan[step]] => ~Done(x)
         /\ Done(Plan[step]) => Place[Plan[step]] = Repeated
         /\ Plan[step] = "bind" => Done("write")
<1>1. Arranged(Plan, 1, 21) /\ \A x : In(x, Plan) <=> Wanted(x) BY PlanIs
<1>2. Len(Plan) \in Nat /\ \A i \in 1 .. Len(Plan) : Place[Plan[i]] \in 1 .. 21 BY <1>1 DEF Arranged
<1>3. \A i, j \in 1 .. Len(Plan) :
        i < j => \/ Place[Plan[i]] < Place[Plan[j]]
                 \/ Place[Plan[i]] = Repeated /\ Place[Plan[j]] = Repeated
  BY <1>1 DEF Arranged
<1>4. ASSUME NEW x, Wanted(x), Place[x] < Place[Plan[step]] PROVE Done(x)
  <2>1. PICK k \in 1 .. Len(Plan) : Plan[k] = x BY <1>1, <1>4 DEF In
  <2>2. Place[Plan[k]] \in 1 .. 21 /\ Place[Plan[step]] \in 1 .. 21 /\ Place[Plan[k]] < Place[Plan[step]]
    BY <1>2, <1>4, <2>1
  <2>3. k # step BY <2>2, RanksDiffer
  <2>4. ~(step < k) BY <2>2, <1>3, RanksDiffer
  <2>5. k < step BY <2>3, <2>4, <1>2
  <2> QED BY <2>1, <2>5, <1>2 DEF Done
<1>5. ASSUME NEW x \in Steps, Place[x] > Place[Plan[step]], Done(x) PROVE FALSE
  <2>1. PICK k \in 1 .. step - 1 : Plan[k] = x BY <1>5 DEF Done
  <2>2. k \in 1 .. Len(Plan) /\ k < step BY <2>1, <1>2
  <2>3. Place[Plan[k]] \in 1 .. 21 /\ Place[Plan[step]] \in 1 .. 21 /\ Place[Plan[k]] > Place[Plan[step]]
    BY <1>2, <1>5, <2>1, <2>2
  <2>4. \/ Place[Plan[k]] < Place[Plan[step]]
        \/ Place[Plan[k]] = Repeated /\ Place[Plan[step]] = Repeated
    BY <1>3, <2>2
  <2> QED BY <2>3, <2>4, RanksDiffer
<1>6. ASSUME Done(Plan[step]) PROVE Place[Plan[step]] = Repeated
  <2>1. PICK k \in 1 .. step - 1 : Plan[k] = Plan[step] BY <1>6 DEF Done
  <2> QED BY <2>1, <1>2, <1>3
<1>7. Plan[step] = "bind" => Done("write") BY WriteBeforeBind DEF Done
<1> QED BY <1>4, <1>5, <1>6, <1>7

LEMMA DoneBefore ==
  ASSUME OptionsType, step \in 1 .. Len(Plan) + 1, NEW y, Done(y), NEW x, Wanted(x), Place[x] < Place[y]
  PROVE  Done(x)
<1>1. Arranged(Plan, 1, 21) /\ \A z : In(z, Plan) <=> Wanted(z) BY PlanIs
<1>2. Len(Plan) \in Nat /\ \A i \in 1 .. Len(Plan) : Place[Plan[i]] \in 1 .. 21 BY <1>1 DEF Arranged
<1>3. PICK k \in 1 .. Len(Plan) : Plan[k] = x BY <1>1 DEF In
<1>4. PICK j \in 1 .. step - 1 : Plan[j] = y BY DEF Done
<1>5. j \in 1 .. Len(Plan) BY <1>2
<1>6. Place[Plan[j]] \in 1 .. 21 /\ Place[Plan[k]] \in 1 .. 21 /\ Place[Plan[k]] < Place[Plan[j]]
  BY <1>2, <1>3, <1>4, <1>5
<1>7. j < k => \/ Place[Plan[j]] < Place[Plan[k]]
               \/ Place[Plan[j]] = Repeated /\ Place[Plan[k]] = Repeated
  BY <1>1, <1>5 DEF Arranged
<1>8. ~(j < k) BY <1>6, <1>7, RanksDiffer
<1>9. j # k BY <1>6, RanksDiffer
<1> QED BY <1>2, <1>3, <1>4, <1>8, <1>9 DEF Done

LEMMA DoneWanted ==
  ASSUME OptionsType, step \in 1 .. Len(Plan) + 1
  PROVE  /\ \A x : Done(x) => Wanted(x) /\ x \in Steps
         /\ step = Len(Plan) + 1 => \A x : Wanted(x) => Done(x)
<1>1. Len(Plan) \in Nat /\ \A i \in 1 .. Len(Plan) : Plan[i] \in Steps /\ Wanted(Plan[i]) BY PlanTyped
<1>2. \A x : Wanted(x) => In(x, Plan) BY PlanIs
<1>3. \A x : Done(x) => Wanted(x) /\ x \in Steps BY <1>1 DEF Done
<1>4. ASSUME step = Len(Plan) + 1 PROVE \A x : Wanted(x) => Done(x)
  BY <1>1, <1>2, <1>4 DEF Done, In
<1> QED BY <1>3, <1>4

LEMMA MountingIs ==
  ASSUME OptionsType, NEW i \in 1 .. Len(Plan)
  PROVE  Mounting(i) <=> Place[Plan[i]] \in 7 .. 14
BY PlanTyped, MountCallsAre DEF Mounting

LEMMA MountsAreTogether ==
  ASSUME OptionsType, step \in 1 .. Len(Plan) + 1, MountDone
  PROVE  ~(step <= Len(Plan) /\ Mounting(step)) /\ Done("lock") /\ (Httptap => Done("tempdir")) /\ Lays
<1>1. Arranged(Plan, 1, 21) BY PlanIs
<1>2. Len(Plan) \in Nat /\ \A k \in 1 .. Len(Plan) : Place[Plan[k]] \in 1 .. 21 BY <1>1 DEF Arranged
<1>3. PICK i \in 1 .. step - 1 : LastMount(i) BY DEF MountDone
<1>4. i \in 1 .. Len(Plan) /\ Mounting(i) /\ Done(Plan[i]) BY <1>2, <1>3 DEF LastMount, Done
<1>5. Place[Plan[i]] \in 7 .. 14 BY <1>4, MountingIs
<1>6. ASSUME step <= Len(Plan), Mounting(step) PROVE FALSE
  <2>1. step \in 1 .. Len(Plan) /\ i + 1 \in 1 .. Len(Plan) BY <1>2, <1>3, <1>6
  <2>2. ~Mounting(i + 1) BY <1>3, <2>1, <1>2 DEF LastMount
  <2>3. i + 1 # step BY <2>2, <1>6
  <2>4. i + 1 < step BY <2>3, <2>1, <1>3
  <2>5. Place[Plan[step]] \in 7 .. 14 BY <2>1, <1>6, MountingIs
  <2>6. /\ \/ Place[Plan[i]] < Place[Plan[i + 1]]
           \/ Place[Plan[i]] = Repeated /\ Place[Plan[i + 1]] = Repeated
        /\ \/ Place[Plan[i + 1]] < Place[Plan[step]]
           \/ Place[Plan[i + 1]] = Repeated /\ Place[Plan[step]] = Repeated
    <3>1. i < i + 1 OBVIOUS
    <3> QED BY <3>1, <2>1, <2>4, <1>1, <1>4 DEF Arranged
  <2>7. Place[Plan[i + 1]] \in 1 .. 21 BY <1>2, <2>1
  <2>8. Place[Plan[i + 1]] \in 7 .. 14 BY <1>5, <2>5, <2>6, <2>7, RankBetween
  <2> QED BY <2>1, <2>2, <2>8, MountingIs
<1>7. Wanted("lock") /\ Place["lock"] = 4 /\ Place["tempdir"] = 2 /\ (Httptap => Wanted("tempdir"))
  BY DEF Wanted, Place
<1>8. Done("lock") BY <1>4, <1>5, <1>7, DoneBefore
<1>9. Httptap => Done("tempdir") BY <1>4, <1>5, <1>7, DoneBefore
<1>10. Lays
  <2>1. Wanted(Plan[i]) /\ Plan[i] \in Steps BY <1>4, PlanTyped
  <2>2. Plan[i] \in {"mkdtemp", "mkdirs", "bake", "unshare", "private", "mountOverlay", "pivotRoot", "write",
                    "stat", "bind"}
    BY <2>1, <1>5, MountRanks
  <2>3. In(Plan[i], MountSteps) BY <2>1, <2>2 DEF Wanted
  <2> QED BY <2>3, MountStepsAre
<1> QED BY <1>2, <1>6, <1>8, <1>9, <1>10

(* Where each deferred call stands. *)
UnlockAt == IF Httptap THEN 2 ELSE 1
CloseAt == IF Lays THEN UnlockAt + 2 ELSE UnlockAt + 1
Deferrable == {"removeCerts", "unlock", "remove", "close", "encode"}

LEMMA IfIs ==
  ASSUME NEW S, NEW x \in S, NEW wanted \in BOOLEAN
  PROVE  /\ If(wanted, x) \in Seq(S)
         /\ wanted => Len(If(wanted, x)) = 1 /\ If(wanted, x)[1] = x
         /\ ~wanted => Len(If(wanted, x)) = 0
<1>1. CASE wanted
  <2>1. If(wanted, x) = <<x>> BY <1>1 DEF If
  <2>2. <<x>> \in Seq(S) /\ Len(<<x>>) = 1 /\ <<x>>[1] = x OBVIOUS
  <2> QED BY <1>1, <2>1, <2>2
<1>2. CASE ~wanted
  <2>1. If(wanted, x) = <<>> BY <1>2 DEF If
  <2> QED BY <1>2, <2>1
<1> QED BY <1>1, <1>2

LEMMA DeferredAre ==
  ASSUME OptionsType
  PROVE  /\ AllDeferred \in Seq(Deferrable)
         /\ Len(AllDeferred) = IF Httptap /\ opts.har THEN CloseAt + 1 ELSE CloseAt - 1
         /\ Httptap => AllDeferred[1] = "removeCerts"
         /\ AllDeferred[UnlockAt] = "unlock"
         /\ Lays => AllDeferred[UnlockAt + 1] = "remove"
         /\ Httptap /\ opts.har => AllDeferred[CloseAt] = "close" /\ AllDeferred[CloseAt + 1] = "encode"
<1> DEFINE a == If(Httptap, "removeCerts")
           u == <<"unlock">>
           m == If(Lays, "remove")
           h == IF Httptap /\ opts.har THEN <<"close", "encode">> ELSE <<>>
           au == a \o u
           aum == au \o m
           all == aum \o h
<1>1. (MountSteps # <<>>) <=> Lays BY MountStepsAre
<1>2. Httptap \in BOOLEAN /\ Lays \in BOOLEAN /\ opts.har \in BOOLEAN
  BY DEF OptionsType, Httptap, Lays, Overlays, Pivots, Binds
<1>3. AllDeferred = all
  <2>1. If(MountSteps # <<>>, "remove") = m BY <1>1 DEF If
  <2> QED BY <2>1 DEF AllDeferred, Httptap
<1>4. a \in Seq(Deferrable) /\ IF Httptap THEN Len(a) = 1 /\ a[1] = "removeCerts" ELSE Len(a) = 0
  BY <1>2, IfIs DEF Deferrable
<1>5. u \in Seq(Deferrable) /\ Len(u) = 1 /\ u[1] = "unlock" BY DEF Deferrable
<1>6. m \in Seq(Deferrable) /\ IF Lays THEN Len(m) = 1 /\ m[1] = "remove" ELSE Len(m) = 0
  BY <1>2, IfIs DEF Deferrable
<1>7. /\ h \in Seq(Deferrable)
      /\ IF Httptap /\ opts.har THEN Len(h) = 2 /\ h[1] = "close" /\ h[2] = "encode" ELSE Len(h) = 0
  <2>1. CASE Httptap /\ opts.har
    <3>1. h = <<"close", "encode">> BY <2>1
    <3>2. "close" \in Deferrable /\ "encode" \in Deferrable BY DEF Deferrable
    <3> QED BY <2>1, <3>1, <3>2
  <2>2. CASE ~(Httptap /\ opts.har)
    <3>1. h = <<>> BY <2>2
    <3> QED BY <2>2, <3>1
  <2> QED BY <2>1, <2>2
<1> HIDE DEF a, u, m, h
<1>8. UnlockAt = (IF Httptap THEN 2 ELSE 1) /\ CloseAt = IF Lays THEN UnlockAt + 2 ELSE UnlockAt + 1
  BY DEF UnlockAt, CloseAt
<1>9. /\ au \in Seq(Deferrable) /\ Len(au) = UnlockAt /\ au[UnlockAt] = "unlock"
      /\ Httptap => au[1] = "removeCerts"
  <2>1. /\ au \in Seq(Deferrable) /\ Len(au) = Len(a) + Len(u)
        /\ \A i \in 1 .. Len(au) : au[i] = IF i <= Len(a) THEN a[i] ELSE u[i - Len(a)]
    BY <1>4, <1>5, Joined
  <2> HIDE DEF au
  <2>2. CASE Httptap
    <3>1. Len(a) = 1 /\ a[1] = "removeCerts" /\ UnlockAt = 2 BY <2>2, <1>4, <1>8
    <3>2. Len(au) = 2 BY <3>1, <2>1, <1>5
    <3>3. au[1] = a[1] /\ au[2] = u[1] BY <3>1, <3>2, <2>1
    <3> QED BY <3>1, <3>2, <3>3, <2>1, <1>5
  <2>3. CASE ~Httptap BY <2>1, <2>3, <1>4, <1>5, <1>8
  <2> QED BY <2>2, <2>3
<1> HIDE DEF au
<1>10. /\ aum \in Seq(Deferrable) /\ Len(aum) = CloseAt - 1 /\ aum[UnlockAt] = "unlock"
       /\ Httptap => aum[1] = "removeCerts"
       /\ Lays => aum[UnlockAt + 1] = "remove"
  <2>1. /\ aum \in Seq(Deferrable) /\ Len(aum) = Len(au) + Len(m)
        /\ \A i \in 1 .. Len(aum) : aum[i] = IF i <= Len(au) THEN au[i] ELSE m[i - Len(au)]
    BY <1>6, <1>9, Joined
  <2> HIDE DEF aum
  <2>2. CASE Lays
    <3>1. Len(m) = 1 /\ m[1] = "remove" /\ CloseAt = UnlockAt + 2 /\ UnlockAt \in {1, 2}
      BY <2>2, <1>6, <1>8
    <3>2. Len(aum) = UnlockAt + 1 BY <3>1, <2>1, <1>9
    <3>3. aum[1] = au[1] /\ aum[UnlockAt] = au[UnlockAt] /\ aum[UnlockAt + 1] = m[1]
      BY <3>1, <3>2, <2>1, <1>9
    <3> QED BY <3>1, <3>2, <3>3, <2>1, <1>9
  <2>3. CASE ~Lays BY <2>1, <2>3, <1>6, <1>8, <1>9
  <2> QED BY <2>2, <2>3
<1> HIDE DEF aum
<1>11. /\ all \in Seq(Deferrable) /\ Len(all) = Len(aum) + Len(h)
       /\ \A i \in 1 .. Len(all) : all[i] = IF i <= Len(aum) THEN aum[i] ELSE h[i - Len(aum)]
  BY <1>7, <1>10, Joined
<1> HIDE DEF all
<1>12. /\ all[UnlockAt] = "unlock" /\ (Httptap => all[1] = "removeCerts")
       /\ Lays => all[UnlockAt + 1] = "remove"
  BY <1>7, <1>8, <1>10, <1>11
<1>13. CASE Httptap /\ opts.har
  <2>0. Len(h) = 2 /\ CloseAt \in 2 .. 4 BY <1>7, <1>8, <1>13
  <2>1. Len(all) = CloseAt + 1 BY <2>0, <1>10, <1>11
  <2>2. all[CloseAt] = "close" /\ all[CloseAt + 1] = "encode"
    BY <2>1, <1>7, <1>8, <1>10, <1>11, <1>13
  <2> QED BY <1>3, <1>11, <1>12, <1>13, <2>1, <2>2
<1>14. CASE ~(Httptap /\ opts.har)
  <2>1. Len(all) = CloseAt - 1 BY <1>7, <1>8, <1>10, <1>11, <1>14
  <2> QED BY <1>3, <1>11, <1>12, <1>14, <2>1
<1> QED BY <1>13, <1>14

-----------------------------------------------------------------------------
(* The inductive invariant, by the part of the state that each piece is    *)
(* about.  (While Main has not begun to return, Done says what holds;      *)
(* afterwards, what is pending does.)                                      *)

Returning == phase = "unwinding"
Pending(d) == In(d, deferred)
One(p) == IF p THEN 1 ELSE 0
Depth == One(Done("tempdir")) + One(Done("lock")) + One(MountDone) + 2 * One(Done("har"))

StepInv ==
  /\ opts \in Options
  /\ phase \in {"reexec", "setup", "waiting", "unwinding"}
  /\ step \in 1 .. Len(Plan) + 1
  /\ phase = "reexec" => step = 1
  /\ phase = "setup" => step <= Len(Plan)
  /\ phase = "waiting" => step = Len(Plan) + 1
  /\ ~Returning => failed = "none"
  /\ Returning => \/ failed \in {"none", "wait"} /\ step = Len(Plan) + 1
                  \/ step <= Len(Plan) /\ failed = Plan[step] /\ failed \notin CannotFail
  /\ MountBegun => MountDone \/ (step <= Len(Plan) /\ Mounting(step))

StackInv ==
  /\ deferred \in Seq(Deferrable) /\ Len(deferred) <= Len(AllDeferred)
  /\ \A i \in 1 .. Len(deferred) : deferred[i] = AllDeferred[i]
  /\ ~Returning => Len(deferred) = Depth

Out(t) == net[t] # "host" \/ space[t] # "host"

ThreadInv ==
  /\ on \in Threads /\ locked \in BOOLEAN
  /\ net \in [Threads -> {"host", "own"}] /\ space \in [Threads -> Spaces]
  /\ device \in {"none", "host", "own"}
  /\ locked <=> Pending("unlock")
  /\ \A t \in Threads : Out(t) => (locked /\ t = on) \/ (~locked /\ Returning)
  /\ \A t, u \in Threads : Out(t) /\ Out(u) => t = u
  /\ ~Returning /\ Done("netns") => net[on] = "own"
  /\ ~Returning /\ Done("device") => device = "own"
  /\ ~Returning /\ Done("unshare") => space[on] # "host"
  /\ ~Returning /\ Done("private") => space[on] = "private"

FilesInv ==
  /\ spilled = {} /\ mounted \in Seq({"mountOverlay", "pivotRoot", "bind"})
  /\ In("mountOverlay", mounted) \/ In("pivotRoot", mounted) => Overlays
  /\ In("bind", mounted) => Binds /\ "file" \in tmpdir
  /\ ~Returning =>
       /\ Done("mkdirs") => {"work", "layer"} \subseteq tmpdir
       /\ Done("bake") => "baked" \in tmpdir
       /\ Done("write") => "file" \in tmpdir
       /\ Done("mountOverlay") => In("mountOverlay", mounted)
       /\ Done("bind") => In("bind", mounted)
       /\ tmpdir # {} => MountBegun
  /\ Returning /\ tmpdir # {} =>
       \/ failed \in MountCalls \/ Pending("remove") \/ uid = "other"
       \/ In("pivotRoot", mounted) \/ In("bind", mounted)

CertsInv ==
  /\ certs \in {"none", "empty", "full"} /\ uid \in {"root", "other"}
  /\ ~Returning /\ Done("certs") => certs = "full"
  /\ certs # "none" => uid = "other" \/ Pending("removeCerts")

ChildInv ==
  /\ sub \in {"none", "running"} \cup Ends
  /\ home.net \in {"host", "own"} /\ home.space \in Spaces
  /\ ~Returning => (sub # "none" <=> Done("launch"))
  /\ sub # "none" /\ Httptap => home.net = "own"
  /\ sub # "none" /\ Lays => home.space = "private"
  /\ Returning /\ sub = "running" => failed = "stack"
  /\ Returning /\ failed = "none" => sub = "ok"
  /\ Returning /\ failed = "wait" => sub \notin {"none", "running", "ok"}

EndInv ==
  /\ outer \in {"absent", "running"} \cup Ends /\ code \in {"running"} \cup Ends
  /\ code = "ok" => Returning /\ failed = "none"
  /\ code = "error" => phase = "reexec" \/ opts.web \/ (Returning /\ failed # "none")
  /\ outer = "ok" => code = "ok"
  /\ outer = "error" => code = "error"

CallsInv ==
  /\ at \in [Calls -> {"idle", "asked", "tripped", "received", "lost", "printed"}]
  /\ dialed \in [Calls -> {"none", "host", "own"}]
  /\ entries \in Seq(Calls)
  /\ \A c \in Calls : at[c] # "idle" => phase \in {"waiting", "unwinding"} /\ failed \in {"none", "wait"}
  /\ \A c \in Calls : dialed[c] = "own" => Returning /\ ~locked
  /\ \A c \in Calls : opts.har /\ at[c] \in {"tripped", "received", "lost", "printed"} => In(c, entries)

HarInv ==
  /\ taken \in -1 .. Len(entries) /\ written \in -1 .. Len(entries)
  /\ file \in {"none", "open", "closed", "broken"}
  /\ taken >= 0 => /\ Returning /\ opts.har
                   /\ \A c \in Calls : at[c] \in {"received", "printed"} => \E i \in 1 .. taken : entries[i] = c
  /\ file # "none" => Httptap /\ opts.har /\ (Returning \/ Done("har"))
  /\ file = "closed" => ~Pending("close")
  /\ file = "broken" => ~Pending("encode")
  /\ file \notin {"none", "broken"} /\ ~Pending("encode") =>
       code = "crash" \/ (taken >= 0 /\ written >= taken)

LifeInv ==
  /\ StepInv /\ StackInv /\ ThreadInv /\ FilesInv /\ CertsInv /\ ChildInv /\ EndInv /\ CallsInv /\ HarInv

-----------------------------------------------------------------------------
(* The deferred calls. *)

LEMMA Positions ==
  ASSUME OptionsType, NEW i \in 1 .. Len(AllDeferred)
  PROVE  /\ AllDeferred[i] = "removeCerts" <=> Httptap /\ i = 1
         /\ AllDeferred[i] = "unlock" <=> i = UnlockAt
         /\ AllDeferred[i] = "remove" <=> Lays /\ i = UnlockAt + 1
         /\ AllDeferred[i] = "close" <=> Httptap /\ opts.har /\ i = CloseAt
         /\ AllDeferred[i] = "encode" <=> Httptap /\ opts.har /\ i = CloseAt + 1
<1>1. /\ Len(AllDeferred) = IF Httptap /\ opts.har THEN CloseAt + 1 ELSE CloseAt - 1
      /\ Httptap => AllDeferred[1] = "removeCerts"
      /\ AllDeferred[UnlockAt] = "unlock"
      /\ Lays => AllDeferred[UnlockAt + 1] = "remove"
      /\ Httptap /\ opts.har => AllDeferred[CloseAt] = "close" /\ AllDeferred[CloseAt + 1] = "encode"
  BY DeferredAre
<1>2. UnlockAt = (IF Httptap THEN 2 ELSE 1) /\ CloseAt = IF Lays THEN UnlockAt + 2 ELSE UnlockAt + 1
  BY DEF UnlockAt, CloseAt
<1>3. \/ Httptap /\ i = 1
      \/ i = UnlockAt
      \/ Lays /\ i = UnlockAt + 1
      \/ Httptap /\ opts.har /\ i = CloseAt
      \/ Httptap /\ opts.har /\ i = CloseAt + 1
  BY <1>1, <1>2
<1>4. CASE Httptap /\ i = 1 BY <1>1, <1>2, <1>4
<1>5. CASE i = UnlockAt BY <1>1, <1>2, <1>5
<1>6. CASE Lays /\ i = UnlockAt + 1 BY <1>1, <1>2, <1>6
<1>7. CASE Httptap /\ opts.har /\ i = CloseAt BY <1>1, <1>2, <1>7
<1>8. CASE Httptap /\ opts.har /\ i = CloseAt + 1 BY <1>1, <1>2, <1>8
<1> QED BY <1>3, <1>4, <1>5, <1>6, <1>7, <1>8

(* What is pending depends on how many calls are. *)
LEMMA PendingAt ==
  ASSUME OptionsType, StackInv
  PROVE  /\ Pending("removeCerts") <=> Httptap /\ Len(deferred) >= 1
         /\ Pending("unlock") <=> Len(deferred) >= UnlockAt
         /\ Pending("remove") <=> Lays /\ Len(deferred) >= UnlockAt + 1
         /\ Pending("close") <=> Httptap /\ opts.har /\ Len(deferred) >= CloseAt
         /\ Pending("encode") <=> Httptap /\ opts.har /\ Len(deferred) >= CloseAt + 1
<1>1. /\ Len(deferred) \in Nat /\ Len(AllDeferred) \in Nat /\ Len(deferred) <= Len(AllDeferred)
      /\ \A i \in 1 .. Len(deferred) : i \in 1 .. Len(AllDeferred) /\ deferred[i] = AllDeferred[i]
  BY DeferredAre DEF StackInv
<1>2. UnlockAt \in 1 .. 2 /\ CloseAt \in 2 .. 4 BY DEF UnlockAt, CloseAt
<1>3. \A d : Pending(d) <=> \E i \in 1 .. Len(deferred) : deferred[i] = d BY DEF Pending, In
<1>4. Pending("removeCerts") <=> Httptap /\ Len(deferred) >= 1 BY <1>1, <1>3, Positions
<1>5. Pending("unlock") <=> Len(deferred) >= UnlockAt BY <1>1, <1>2, <1>3, Positions
<1>6. Pending("remove") <=> Lays /\ Len(deferred) >= UnlockAt + 1 BY <1>1, <1>2, <1>3, Positions
<1>7. Pending("close") <=> Httptap /\ opts.har /\ Len(deferred) >= CloseAt BY <1>1, <1>2, <1>3, Positions
<1>8. Pending("encode") <=> Httptap /\ opts.har /\ Len(deferred) >= CloseAt + 1
  BY <1>1, <1>2, <1>3, Positions
<1> QED BY <1>4, <1>5, <1>6, <1>7, <1>8

LEMMA DepthOrder ==
  ASSUME OptionsType, StepInv
  PROVE  /\ Done("tempdir") => Httptap
         /\ Done("lock") /\ Httptap => Done("tempdir")
         /\ MountDone => Done("lock") /\ Lays
         /\ Done("har") => Httptap /\ opts.har /\ Done("lock") /\ (Lays => MountDone)
<1>1. step \in 1 .. Len(Plan) + 1 BY DEF StepInv
<1>2. \A x : Done(x) => Wanted(x) BY <1>1, DoneWanted
<1>3. Done("tempdir") => Httptap
  <2>1. ~In("tempdir", MountSteps) BY MountStepsAre
  <2> QED BY <2>1, <1>2 DEF Wanted
<1>4. Done("lock") /\ Httptap => Done("tempdir")
  <2>1. Httptap => Wanted("tempdir") BY DEF Wanted
  <2>2. Place["tempdir"] < Place["lock"] BY DEF Place
  <2> QED BY <1>1, <2>1, <2>2, DoneBefore
<1>5. MountDone => Done("lock") /\ Lays BY <1>1, MountsAreTogether
<1>6. ASSUME Done("har") PROVE Httptap /\ opts.har /\ Done("lock") /\ (Lays => MountDone)
  <2>1. ~In("har", MountSteps) BY MountStepsAre
  <2>2. Httptap /\ opts.har BY <2>1, <1>2, <1>6 DEF Wanted
  <2>3. Wanted("lock") /\ Place["lock"] < Place["har"] BY DEF Wanted, Place
  <2>4. Done("lock") BY <1>1, <1>6, <2>3, DoneBefore
  <2>5. ASSUME Lays PROVE MountDone
    <3>1. Wanted("private") /\ Place["private"] < Place["har"] BY <2>5, MountStepsAre DEF Wanted, Place
    <3>2. Done("private") BY <1>1, <1>6, <3>1, DoneBefore
    <3>3. PICK i \in 1 .. step - 1 : Plan[i] = "private" BY <3>2 DEF Done
    <3>4. i \in 1 .. Len(Plan) /\ Place[Plan[i]] \in 7 .. 14 BY <1>1, <3>3, PlanTyped DEF Place
    <3>5. MountBegun BY <3>3, <3>4, MountingIs DEF MountBegun
    <3>6. ASSUME step <= Len(Plan), Mounting(step) PROVE FALSE
      <4>1. step \in 1 .. Len(Plan) BY <1>1, <3>6, PlanTyped
      <4>2. Place[Plan[step]] \in 7 .. 14 BY <3>6, <4>1, MountingIs
      <4>3. "har" \in Steps /\ Place["har"] > Place[Plan[step]] BY <4>2 DEF Place, Steps
      <4> QED BY <4>1, <4>3, <1>6, Order
    <3> QED BY <3>5, <3>6 DEF StepInv
  <2> QED BY <2>2, <2>4, <2>5
<1> QED BY <1>3, <1>4, <1>5, <1>6

(* Until Main begins to return, what is pending tells what is done. *)
LEMMA PendingIs ==
  ASSUME OptionsType, StepInv, StackInv, ~Returning
  PROVE  /\ Pending("removeCerts") <=> Done("tempdir")
         /\ Pending("unlock") <=> Done("lock")
         /\ Pending("remove") <=> MountDone
         /\ Pending("close") <=> Done("har")
         /\ Pending("encode") <=> Done("har")
<1>1. Len(deferred) = One(Done("tempdir")) + One(Done("lock")) + One(MountDone) + 2 * One(Done("har"))
  BY DEF StackInv, Depth
<1>2. UnlockAt = (IF Httptap THEN 2 ELSE 1) /\ CloseAt = IF Lays THEN UnlockAt + 2 ELSE UnlockAt + 1
  BY DEF UnlockAt, CloseAt
<1>3. CASE Done("har") BY <1>1, <1>2, <1>3, PendingAt, DepthOrder DEF One
<1>4. CASE ~Done("har") /\ MountDone BY <1>1, <1>2, <1>4, PendingAt, DepthOrder DEF One
<1>5. CASE ~Done("har") /\ ~MountDone /\ Done("lock") BY <1>1, <1>2, <1>5, PendingAt, DepthOrder DEF One
<1>6. CASE ~Done("har") /\ ~MountDone /\ ~Done("lock") BY <1>1, <1>2, <1>6, PendingAt, DepthOrder DEF One
<1> QED BY <1>3, <1>4, <1>5, <1>6

LEMMA DeferredByIs ==
  ASSUME OptionsType, NEW i \in 1 .. Len(Plan)
  PROVE  /\ Plan[i] = "tempdir" => DeferredBy(i) = <<"removeCerts">>
         /\ Plan[i] = "lock" => DeferredBy(i) = <<"unlock">>
         /\ Plan[i] = "har" => DeferredBy(i) = <<"close", "encode">>
         /\ LastMount(i) => DeferredBy(i) = <<"remove">> /\ Place[Plan[i]] \in 7 .. 14
         /\ Plan[i] \notin {"tempdir", "lock", "har"} /\ ~LastMount(i) => DeferredBy(i) = <<>>
<1>1. LastMount(i) => Place[Plan[i]] \in 7 .. 14 BY MountingIs DEF LastMount
<1>2. LastMount(i) => Plan[i] \notin {"tempdir", "lock", "har"} BY <1>1 DEF Place
<1> QED BY <1>1, <1>2 DEF DeferredBy

LEMMA DoneStep ==
  ASSUME OptionsType, opts' = opts, step \in 1 .. Len(Plan), step' = step + 1
  PROVE  /\ \A x : Done(x)' <=> Done(x) \/ x = Plan[step]
         /\ MountBegun' <=> MountBegun \/ Mounting(step)
         /\ MountDone' <=> MountDone \/ LastMount(step)
<1>1. Plan' = Plan /\ \A i : Mounting(i)' = Mounting(i) /\ LastMount(i)' = LastMount(i) BY SamePlan
<1>2. Len(Plan) \in Nat BY PlanTyped
<1>3. step' - 1 = step /\ \A i : i \in 1 .. step <=> i \in 1 .. step - 1 \/ i = step BY <1>2
<1>4. \A x : Done(x)' <=> Done(x) \/ x = Plan[step] BY <1>1, <1>3 DEF Done
<1>5. MountBegun' <=> MountBegun \/ Mounting(step) BY <1>1, <1>3 DEF MountBegun
<1>6. MountDone' <=> MountDone \/ LastMount(step) BY <1>1, <1>3 DEF MountDone
<1> QED BY <1>4, <1>5, <1>6

LEMMA DoneSame ==
  ASSUME opts' = opts, step' = step
  PROVE  (\A x : Done(x)' <=> Done(x)) /\ (MountBegun' <=> MountBegun) /\ (MountDone' <=> MountDone)
BY SamePlan DEF Done, MountBegun, MountDone

-----------------------------------------------------------------------------
(* What a step does to Main's control. *)

Stays == UNCHANGED <<phase, step, failed, deferred>>
Enters == phase = "reexec" /\ phase' = "setup" /\ UNCHANGED <<step, failed, deferred>>
Returns ==
  /\ \/ phase = "setup" /\ Plan[step] \notin CannotFail /\ failed' = Plan[step]
     \/ phase = "waiting" /\ sub # "running" /\ failed' = (IF sub = "ok" THEN "none" ELSE "wait")
  /\ phase' = "unwinding" /\ UNCHANGED <<step, deferred>>
Moves ==
  /\ opts' = opts
  /\ Stays \/ Enters \/ (\E s : Advance(s)) \/ Returns \/ (\E d : Unwind(d))

LEMMA NextMoves == ASSUME [Next]_vars PROVE Moves
<1>1. CASE Reexec BY <1>1 DEF Reexec, Moves, Stays, Enters
<1>2. CASE Fail BY <1>2 DEF Fail, Return, Moves, Returns
<1>3. CASE Certificates BY <1>3 DEF Certificates, Advance, Moves
<1>4. CASE Lock BY <1>4 DEF Lock, Advance, Moves
<1>5. CASE Network BY <1>5 DEF Network, Advance, Moves
<1>6. CASE Mount BY <1>6 DEF Mount, Advance, Moves
<1>7. CASE SwitchUser BY <1>7 DEF SwitchUser, Advance, Moves
<1>8. CASE Services BY <1>8 DEF Services, Advance, Moves
<1>9. CASE Launch BY <1>9 DEF Launch, Advance, Moves
<1>10. CASE CreateHar BY <1>10 DEF CreateHar, Advance, Moves
<1>11. CASE Wait BY <1>11 DEF Wait, Finished, Return, Moves, Returns
<1>12. CASE EncodeBegins BY <1>12 DEF EncodeBegins, control, Moves, Stays
<1>13. CASE EncodeEnds BY <1>13 DEF EncodeEnds, Unwind, Moves
<1>14. CASE CloseHar BY <1>14 DEF CloseHar, Unwind, Moves
<1>15. CASE RemoveMount BY <1>15 DEF RemoveMount, Unwind, Moves
<1>16. CASE Unlock BY <1>16 DEF Unlock, Unwind, Moves
<1>17. CASE RemoveCerts BY <1>17 DEF RemoveCerts, Unwind, Moves
<1>18. CASE Exit BY <1>18 DEF Exit, Moves, Stays
<1>19. CASE OuterExits BY <1>19 DEF OuterExits, Moves, Stays
<1>20. CASE SubprocessExits BY <1>20 DEF SubprocessExits, control, Moves, Stays
<1>21. CASE Migrate BY <1>21 DEF Migrate, control, Moves, Stays
<1>22. CASE Interrupt BY <1>22 DEF Interrupt, Moves, Stays
<1>23. CASE WebFails BY <1>23 DEF WebFails, Moves, Stays
<1>24. CASE \E c \in Calls : Ask(c) \/ Trip(c) \/ Relay(c) \/ Show(c)
  BY <1>24 DEF Ask, Trip, Relay, Show, control, Moves, Stays
<1>25. CASE UNCHANGED vars BY <1>25 DEF vars, control, Moves, Stays
<1> QED BY <1>1, <1>2, <1>3, <1>4, <1>5, <1>6, <1>7, <1>8, <1>9, <1>10, <1>11, <1>12, <1>13, <1>14,
           <1>15, <1>16, <1>17, <1>18, <1>19, <1>20, <1>21, <1>22, <1>23, <1>24, <1>25
        DEF Next, Setup, Unwinding

LEMMA StepInvStep ==
  ASSUME StepInv, Moves PROVE StepInv'
<1>1. OptionsType BY OptionsTyped DEF StepInv
<1>2. Len(Plan) \in Nat \ {0} BY <1>1, PlanTyped
<1>3. Plan' = Plan /\ \A i : Mounting(i)' = Mounting(i) BY SamePlan DEF Moves
<1>4. CASE Stays \/ Enters \/ Returns
  <2>1. opts' = opts /\ step' = step BY <1>4 DEF Moves, Stays, Enters, Returns
  <2>2. (MountBegun' <=> MountBegun) /\ (MountDone' <=> MountDone) BY <2>1, DoneSame
  <2>3. CASE Stays BY <2>1, <2>2, <2>3, <1>3 DEF StepInv, Stays, Returning
  <2>4. CASE Enters BY <2>1, <2>2, <2>4, <1>2, <1>3 DEF StepInv, Enters, Returning
  <2>5. CASE Returns BY <2>1, <2>2, <2>5, <1>2, <1>3 DEF StepInv, Returns, Returning
  <2> QED BY <1>4, <2>3, <2>4, <2>5
<1>5. ASSUME NEW s, Advance(s) PROVE StepInv'
  <2>1. /\ phase = "setup" /\ step \in 1 .. Len(Plan) /\ step' = step + 1 /\ opts' = opts
        /\ failed' = failed /\ phase' = IF step = Len(Plan) THEN "waiting" ELSE phase
    BY <1>2, <1>5 DEF Advance, StepInv
  <2>2. /\ MountBegun' <=> MountBegun \/ Mounting(step)
        /\ MountDone' <=> MountDone \/ LastMount(step)
    BY <1>1, <2>1, DoneStep
  <2>3. MountBegun => MountDone \/ Mounting(step) BY DEF StepInv
  <2>4. Mounting(step) => LastMount(step) \/ (step + 1 <= Len(Plan) /\ Mounting(step + 1))
    BY <2>1, <1>2 DEF LastMount
  <2>5. MountBegun' => MountDone' \/ (step' <= Len(Plan) /\ Mounting(step + 1))
    BY <2>1, <2>2, <2>3, <2>4
  <2>6. Mounting(step)' <=> Mounting(step + 1) BY <2>1, <1>3 DEF Mounting
  <2>7. MountBegun' => MountDone' \/ (step' <= Len(Plan)' /\ Mounting(step)') BY <2>5, <2>6, <1>3
  <2> QED BY <2>1, <2>7, <1>2, <1>3 DEF StepInv, Returning
<1>6. ASSUME NEW d, Unwind(d) PROVE StepInv'
  <2>1. opts' = opts /\ phase' = phase /\ phase = "unwinding" /\ step' = step /\ failed' = failed
    BY <1>6 DEF Unwind
  <2>2. (MountBegun' <=> MountBegun) /\ (MountDone' <=> MountDone) BY <2>1, DoneSame
  <2> QED BY <2>1, <2>2, <1>3 DEF StepInv, Returning
<1> QED BY <1>4, <1>5, <1>6 DEF Moves

LEMMA FrontOf ==
  ASSUME NEW S, NEW s \in Seq(S), Len(s) # 0
  PROVE  /\ SubSeq(s, 1, Len(s) - 1) \in Seq(S) /\ Len(SubSeq(s, 1, Len(s) - 1)) = Len(s) - 1
         /\ \A i \in 1 .. Len(s) - 1 : SubSeq(s, 1, Len(s) - 1)[i] = s[i]
<1>1. Len(s) \in Nat /\ Len(s) - 1 \in 0 .. Len(s) OBVIOUS
<1>2. SubSeq(s, 1, Len(s) - 1) \in Seq(S) BY <1>1, SubSeqProperties
<1>3. Len(SubSeq(s, 1, Len(s) - 1)) = Len(s) - 1
  <2> DEFINE n == Len(s) - 1
  <2>1. n \in Nat BY <1>1
  <2>2. \A i \in 1 .. n : s[i] \in S BY <1>1
  <2> HIDE DEF n
  <2>3. Len(SubSeq(s, 1, n)) = IF 1 <= n THEN n - 1 + 1 ELSE 0 BY <2>1, <2>2, SubSeqProperties
  <2>4. Len(SubSeq(s, 1, n)) = n BY <2>1, <2>3
  <2> QED BY <2>4 DEF n
<1>4. \A i \in 1 .. Len(s) - 1 : SubSeq(s, 1, Len(s) - 1)[i] = s[i] BY <1>1
<1> QED BY <1>2, <1>3, <1>4

(* What has failed is a step, and not Wait, unless Main came to wait. *)
LEMMA FailedStep ==
  ASSUME OptionsType, NEW i \in 1 .. Len(Plan) PROVE Plan[i] \notin {"none", "wait"}
BY PlanTyped DEF Steps

LEMMA AdvancePending ==
  ASSUME OptionsType, StackInv, step \in 1 .. Len(Plan), NEW s, Advance(s)
  PROVE  /\ Pending("removeCerts")' <=> Pending("removeCerts") \/ s = "tempdir"
         /\ Pending("unlock")' <=> Pending("unlock") \/ s = "lock"
         /\ Pending("remove")' <=> Pending("remove") \/ LastMount(step)
         /\ Pending("close")' <=> Pending("close") \/ s = "har"
         /\ Pending("encode")' <=> Pending("encode") \/ s = "har"
<1> DEFINE a == DeferredBy(step)
<1>1. deferred' = deferred \o a /\ Plan[step] = s BY DEF Advance
<1>2. /\ s = "tempdir" => a = <<"removeCerts">>
      /\ s = "lock" => a = <<"unlock">>
      /\ s = "har" => a = <<"close", "encode">>
      /\ LastMount(step) => a = <<"remove">> /\ s \notin {"tempdir", "lock", "har"}
      /\ s \notin {"tempdir", "lock", "har"} /\ ~LastMount(step) => a = <<>>
  <2>1. Place[s] \in 7 .. 14 => s \notin {"tempdir", "lock", "har"} BY DEF Place
  <2> QED BY <2>1, <1>1, DeferredByIs
<1>3. \A d \in Deferrable : \A x : In(x, <<d>>) <=> x = d BY DEF In
<1>4. \A x : In(x, <<"close", "encode">>) <=> x \in {"close", "encode"}
  <2> DEFINE b == <<"close", "encode">>
  <2>1. Len(b) = 2 /\ b[1] = "close" /\ b[2] = "encode" OBVIOUS
  <2> HIDE DEF b
  <2>2. \A x : In(x, b) <=> x \in {"close", "encode"} BY <2>1 DEF In
  <2> QED BY <2>2 DEF b
<1>5. \A x : ~In(x, <<>>) BY DEF In
<1>6. a \in Seq(Deferrable)
  <2>1. \A d \in Deferrable : <<d>> \in Seq(Deferrable) OBVIOUS
  <2>2. <<"close", "encode">> \in Seq(Deferrable)
    <3>1. "close" \in Deferrable /\ "encode" \in Deferrable BY DEF Deferrable
    <3> QED BY <3>1
  <2>3. <<>> \in Seq(Deferrable) OBVIOUS
  <2>4. "removeCerts" \in Deferrable /\ "unlock" \in Deferrable /\ "remove" \in Deferrable BY DEF Deferrable
  <2> QED BY <2>1, <2>2, <2>3, <2>4, <1>2
<1> HIDE DEF a
<1>7. \A x : Pending(x)' <=> Pending(x) \/ In(x, a)
  <2>1. deferred \in Seq(Deferrable) BY DEF StackInv
  <2>2. \A x : In(x, deferred \o a) <=> In(x, deferred) \/ In(x, a) BY <2>1, <1>6, InJoin
  <2> QED BY <2>2, <1>1 DEF Pending, In
<1>8. /\ In("removeCerts", a) <=> s = "tempdir"
      /\ In("unlock", a) <=> s = "lock"
      /\ In("remove", a) <=> LastMount(step)
      /\ In("close", a) <=> s = "har"
      /\ In("encode", a) <=> s = "har"
  <2>1. {"removeCerts", "unlock", "remove", "close", "encode"} = Deferrable BY DEF Deferrable
  <2>2. CASE s = "tempdir"
    <3>1. \A x : In(x, a) <=> x = "removeCerts" BY <2>1, <2>2, <1>2, <1>3
    <3> QED BY <3>1, <2>2, <1>2
  <2>3. CASE s = "lock"
    <3>1. \A x : In(x, a) <=> x = "unlock" BY <2>1, <2>3, <1>2, <1>3
    <3> QED BY <3>1, <2>3, <1>2
  <2>4. CASE s = "har"
    <3>1. \A x : In(x, a) <=> x \in {"close", "encode"} BY <2>4, <1>2, <1>4
    <3> QED BY <3>1, <2>4, <1>2
  <2>5. CASE LastMount(step)
    <3>1. \A x : In(x, a) <=> x = "remove" BY <2>1, <2>5, <1>2, <1>3
    <3> QED BY <3>1, <2>5, <1>2
  <2>6. CASE s \notin {"tempdir", "lock", "har"} /\ ~LastMount(step)
    <3>1. \A x : ~In(x, a) BY <2>6, <1>2, <1>5
    <3> QED BY <3>1, <2>6
  <2> QED BY <2>2, <2>3, <2>4, <2>5, <2>6
<1> QED BY <1>7, <1>8

LEMMA UnwindPending ==
  ASSUME OptionsType, StackInv, NEW d, Unwind(d)
  PROVE  /\ d \in Deferrable /\ Pending(d)
         /\ \A x : Pending(x)' <=> Pending(x) /\ x # d
         /\ d = "close" => ~Pending("encode")
         /\ d = "encode" => Pending("close")
<1> DEFINE n == Len(deferred)
<1>1. /\ deferred \in Seq(Deferrable) /\ n \in Nat /\ n # 0 /\ deferred[n] = d
      /\ deferred' = SubSeq(deferred, 1, n - 1)
  BY DEF StackInv, Unwind, Last, Front
<1>2. Len(deferred') = n - 1 /\ \A i \in 1 .. n - 1 : deferred'[i] = deferred[i]
  BY <1>1, FrontOf
<1>3. \A i \in 1 .. n : i \in 1 .. Len(AllDeferred) /\ deferred[i] = AllDeferred[i] /\ deferred[i] \in Deferrable
  BY <1>1, DeferredAre DEF StackInv
<1>4. \A i \in 1 .. n - 1 : deferred[i] # d
  <2> SUFFICES ASSUME NEW i \in 1 .. n - 1, deferred[i] = d PROVE FALSE OBVIOUS
  <2>1. i \in 1 .. n /\ n \in 1 .. n BY <1>1
  <2>2. AllDeferred[i] = d /\ AllDeferred[n] = d /\ i \in 1 .. Len(AllDeferred) /\ n \in 1 .. Len(AllDeferred)
    BY <2>1, <1>1, <1>3
  <2>3. d \in Deferrable BY <2>1, <1>1, <1>3
  <2>4. i = n BY <2>2, <2>3, Positions DEF Deferrable
  <2> QED BY <2>4, <1>1
<1>5. d \in Deferrable /\ Pending(d) BY <1>1, <1>3 DEF Pending, In
<1>6. \A x : Pending(x)' <=> \E i \in 1 .. n - 1 : deferred[i] = x BY <1>2 DEF Pending, In
<1>7. \A x : Pending(x) <=> \E i \in 1 .. n : deferred[i] = x BY DEF Pending, In
<1>8. \A x : Pending(x)' <=> Pending(x) /\ x # d
  <2> TAKE x
  <2>1. Pending(x)' => Pending(x) /\ x # d BY <1>1, <1>4, <1>6, <1>7
  <2>2. Pending(x) /\ x # d => Pending(x)'
    <3> SUFFICES ASSUME NEW i \in 1 .. n, deferred[i] = x, x # d PROVE Pending(x)' BY <1>7
    <3>1. i \in 1 .. n - 1 BY <1>1
    <3> QED BY <3>1, <1>6
  <2> QED BY <2>1, <2>2
<1>9. n \in 1 .. Len(AllDeferred) /\ AllDeferred[n] = d BY <1>1, <1>3
<1>10. CloseAt \in 2 .. 4 BY DEF CloseAt, UnlockAt
<1>11. d = "close" => ~Pending("encode") BY <1>9, <1>10, Positions, PendingAt
<1>12. d = "encode" => Pending("close") BY <1>9, <1>10, Positions, PendingAt
<1> QED BY <1>5, <1>8, <1>11, <1>12

LEMMA StackInvStep ==
  ASSUME StepInv, StackInv, Moves PROVE StackInv'
<1>1. OptionsType BY OptionsTyped DEF StepInv
<1>2. Len(Plan) \in Nat \ {0} BY <1>1, PlanTyped
<1>3. AllDeferred' = AllDeferred /\ AllDeferred \in Seq(Deferrable) BY <1>1, SamePlan, DeferredAre DEF Moves
<1>4. CASE Stays \/ Enters \/ Returns
  <2>1. /\ opts' = opts /\ step' = step /\ deferred' = deferred
        /\ ~Returning' => ~Returning
    BY <1>4 DEF Moves, Stays, Enters, Returns, Returning
  <2>2. (\A x : Done(x)' <=> Done(x)) /\ (MountDone' <=> MountDone) BY <2>1, DoneSame
  <2>3. Depth' = Depth BY <2>2 DEF Depth, One
  <2> QED BY <2>1, <2>3, <1>3 DEF StackInv
<1>5. ASSUME NEW d, Unwind(d) PROVE StackInv'
  <2>1. /\ deferred \in Seq(Deferrable) /\ Len(deferred) # 0
        /\ deferred' = SubSeq(deferred, 1, Len(deferred) - 1)
        /\ phase' = "unwinding"
    BY <1>5 DEF StackInv, Unwind, Front
  <2>2. /\ deferred' \in Seq(Deferrable) /\ Len(deferred') = Len(deferred) - 1
        /\ \A i \in 1 .. Len(deferred) - 1 : deferred'[i] = deferred[i]
    BY <2>1, FrontOf
  <2>3. Len(deferred) \in Nat /\ Len(AllDeferred) \in Nat BY <2>1, <1>3
  <2>4. Len(deferred') <= Len(AllDeferred) BY <2>2, <2>3 DEF StackInv
  <2>5. \A i \in 1 .. Len(deferred') : deferred'[i] = AllDeferred[i] BY <2>2, <2>3 DEF StackInv
  <2> QED BY <2>1, <2>2, <2>4, <2>5, <1>3 DEF StackInv, Returning
<1>6. ASSUME NEW s, Advance(s) PROVE StackInv'
  <2> DEFINE a == DeferredBy(step)
             n == Len(deferred)
  <2>1. /\ phase = "setup" /\ Plan[step] = s /\ step \in 1 .. Len(Plan) /\ step' = step + 1 /\ opts' = opts
        /\ deferred' = deferred \o a
    BY <1>2, <1>6 DEF Advance, StepInv
  <2>2. (\A x : Done(x)' <=> Done(x) \/ x = s) /\ (MountDone' <=> MountDone \/ LastMount(step))
    BY <1>1, <2>1, DoneStep
  <2>3. n = One(Done("tempdir")) + One(Done("lock")) + One(MountDone) + 2 * One(Done("har"))
    BY <2>1 DEF StackInv, Depth, Returning
  <2>4. /\ Done("tempdir") => Httptap
        /\ Done("lock") /\ Httptap => Done("tempdir")
        /\ MountDone => Done("lock") /\ Lays
        /\ Done("har") => Httptap /\ opts.har /\ Done("lock") /\ (Lays => MountDone)
    BY <1>1, DepthOrder
  <2>5. /\ Httptap => AllDeferred[1] = "removeCerts"
        /\ AllDeferred[UnlockAt] = "unlock"
        /\ Lays => AllDeferred[UnlockAt + 1] = "remove"
        /\ Httptap /\ opts.har => AllDeferred[CloseAt] = "close" /\ AllDeferred[CloseAt + 1] = "encode"
        /\ Len(AllDeferred) = IF Httptap /\ opts.har THEN CloseAt + 1 ELSE CloseAt - 1
    BY <1>1, DeferredAre
  <2>6. UnlockAt = (IF Httptap THEN 2 ELSE 1) /\ CloseAt = IF Lays THEN UnlockAt + 2 ELSE UnlockAt + 1
    BY DEF UnlockAt, CloseAt
  <2>7. Wanted(s) /\ s \in Steps BY <1>1, <2>1, PlanTyped
  <2>8. /\ s = "tempdir" => a = <<"removeCerts">>
        /\ s = "lock" => a = <<"unlock">>
        /\ s = "har" => a = <<"close", "encode">>
        /\ LastMount(step) => a = <<"remove">> /\ Place[s] \in 7 .. 14
        /\ s \notin {"tempdir", "lock", "har"} /\ ~LastMount(step) => a = <<>>
    BY <1>1, <2>1, DeferredByIs
  <2>9. /\ \A x : Wanted(x) /\ Place[x] < Place[s] => Done(x)
        /\ \A x \in Steps : Place[x] > Place[s] => ~Done(x)
        /\ Done(s) => Place[s] = Repeated
    BY <1>1, <2>1, Order
  <2>10. /\ Place["tempdir"] = 2 /\ Place["lock"] = 4 /\ Place["har"] = 19
         /\ "tempdir" \in Steps /\ "lock" \in Steps /\ "har" \in Steps
    BY DEF Place, Steps
  <2> HIDE DEF a
  <2>11. deferred \in Seq(Deferrable) /\ n \in Nat BY DEF StackInv
  <2>12. \A i \in 1 .. n : deferred[i] = AllDeferred[i] BY DEF StackInv
  <2>13. ASSUME NEW d \in Deferrable, a = <<d>>, n + 1 <= Len(AllDeferred), AllDeferred[n + 1] = d,
                Depth' = n + 1
         PROVE  StackInv'
    <3>1. <<d>> \in Seq(Deferrable) /\ Len(<<d>>) = 1 /\ <<d>>[1] = d OBVIOUS
    <3>2. /\ deferred \o <<d>> \in Seq(Deferrable) /\ Len(deferred \o <<d>>) = n + Len(<<d>>)
          /\ \A i \in 1 .. Len(deferred \o <<d>>) :
               (deferred \o <<d>>)[i] = IF i <= n THEN deferred[i] ELSE <<d>>[i - n]
      BY <2>11, <3>1, Joined
    <3>3. /\ deferred' \in Seq(Deferrable) /\ Len(deferred') = n + 1
          /\ \A i \in 1 .. n + 1 : deferred'[i] = IF i <= n THEN deferred[i] ELSE <<d>>[i - n]
      BY <3>1, <3>2, <2>1, <2>13
    <3>4. \A i \in 1 .. n + 1 : deferred'[i] = AllDeferred[i]
      <4> TAKE i \in 1 .. n + 1
      <4>1. CASE i \in 1 .. n BY <4>1, <3>3, <2>11, <2>12
      <4>2. CASE i \notin 1 .. n
        <5>1. i = n + 1 /\ ~(i <= n) /\ i - n = 1 BY <4>2, <2>11
        <5> QED BY <5>1, <3>1, <3>3, <2>13
      <4> QED BY <4>1, <4>2
    <3> QED BY <3>3, <3>4, <2>13, <1>3 DEF StackInv
  <2>14. CASE s = "tempdir"
    <3>1. /\ ~Done("tempdir") /\ ~Done("lock") /\ ~Done("har") /\ ~MountDone /\ ~LastMount(step) /\ Httptap
      <4>1. ~In("tempdir", MountSteps) BY <1>1, MountStepsAre
      <4> QED BY <4>1, <2>4, <2>7, <2>8, <2>9, <2>10, <2>14 DEF Wanted, Repeated
    <3>2. n = 0 BY <3>1, <2>3 DEF One
    <3>3. Depth' = n + 1 BY <3>1, <3>2, <2>2, <2>14 DEF Depth, One
    <3>4. n + 1 <= Len(AllDeferred) /\ AllDeferred[n + 1] = "removeCerts" BY <3>1, <3>2, <2>5, <2>6
    <3> QED BY <3>3, <3>4, <2>8, <2>13, <2>14 DEF Deferrable
  <2>15. CASE s = "lock"
    <3>1. /\ ~Done("lock") /\ ~Done("har") /\ ~MountDone /\ ~LastMount(step)
          /\ Done("tempdir") <=> Httptap
      <4>1. Httptap => Wanted("tempdir") BY DEF Wanted
      <4> QED BY <4>1, <2>4, <2>8, <2>9, <2>10, <2>15 DEF Repeated
    <3>2. n + 1 = UnlockAt BY <3>1, <2>3, <2>6 DEF One
    <3>3. Depth' = n + 1 BY <3>1, <3>2, <2>2, <2>3, <2>15 DEF Depth, One
    <3>4. n + 1 <= Len(AllDeferred) /\ AllDeferred[n + 1] = "unlock" BY <3>1, <3>2, <2>5, <2>6
    <3> QED BY <3>3, <3>4, <2>8, <2>13, <2>15 DEF Deferrable
  <2>16. CASE LastMount(step)
    <3>1. Place[s] \in 7 .. 14 /\ s \notin {"tempdir", "lock", "har"} BY <2>8, <2>10, <2>16
    <3>2. /\ Done("lock") /\ ~Done("har") /\ ~MountDone /\ (Done("tempdir") <=> Httptap) /\ Lays
      <4>1. Done("lock") /\ (Httptap => Done("tempdir"))
        <5>1. Wanted("lock") /\ (Httptap => Wanted("tempdir")) BY DEF Wanted
        <5> QED BY <5>1, <3>1, <2>9, <2>10
      <4>2. ~Done("har") BY <3>1, <2>9, <2>10
      <4>3. ~MountDone BY <1>1, <2>1, <2>16, MountsAreTogether DEF LastMount
      <4>4. Lays
        <5>1. s \in {"mkdtemp", "mkdirs", "bake", "unshare", "private", "mountOverlay", "pivotRoot", "write",
                     "stat", "bind"}
          BY <3>1, <2>7 DEF Place, Steps
        <5>2. In(s, MountSteps) BY <5>1, <2>7 DEF Wanted
        <5> QED BY <5>2, <1>1, MountStepsAre
      <4> QED BY <4>1, <4>2, <4>3, <4>4, <2>4
    <3>3. n = UnlockAt BY <3>2, <2>3, <2>6 DEF One
    <3>4. Depth' = n + 1 BY <3>1, <3>2, <2>2, <2>3, <2>16 DEF Depth, One
    <3>5. n + 1 <= Len(AllDeferred) /\ AllDeferred[n + 1] = "remove" BY <3>2, <3>3, <2>5, <2>6
    <3> QED BY <3>4, <3>5, <2>8, <2>13, <2>16 DEF Deferrable
  <2>17. CASE s = "har"
    <3>1. ~Done("har") /\ ~LastMount(step) BY <2>8, <2>9, <2>10, <2>17 DEF Repeated
    <3>2. Httptap /\ opts.har /\ Done("lock") /\ Done("tempdir")
      <4>1. ~In("har", MountSteps) BY <1>1, MountStepsAre
      <4>2. Httptap /\ opts.har BY <4>1, <2>7, <2>17 DEF Wanted
      <4>3. Wanted("lock") BY DEF Wanted
      <4> QED BY <4>2, <4>3, <2>4, <2>9, <2>10, <2>17
    <3>3. Lays => MountDone
      <4> SUFFICES ASSUME Lays PROVE MountDone OBVIOUS
      <4>1. Wanted("private") /\ Place["private"] = 11 BY <1>1, MountStepsAre DEF Wanted, Place
      <4>2. Done("private") BY <4>1, <2>9, <2>10, <2>17
      <4>3. PICK i \in 1 .. step - 1 : Plan[i] = "private" BY <4>2 DEF Done
      <4>4. i \in 1 .. Len(Plan) /\ Place[Plan[i]] \in 7 .. 14 BY <4>1, <4>3, <2>1, <1>2
      <4>5. MountBegun BY <4>3, <4>4, <1>1, MountingIs DEF MountBegun
      <4>6. ~Mounting(step)
        <5>1. ~(Place[s] \in 7 .. 14) BY <2>10, <2>17
        <5> QED BY <5>1, <2>1, <1>1, MountingIs
      <4> QED BY <4>5, <4>6 DEF StepInv
    <3>4. n + 1 = CloseAt /\ CloseAt \in 2 .. 4 BY <3>1, <3>2, <3>3, <2>3, <2>4, <2>6 DEF One
    <3>5. Depth' = n + 2 BY <3>1, <3>2, <3>3, <2>2, <2>3, <2>17 DEF Depth, One
    <3>6. /\ n + 2 = Len(AllDeferred) /\ AllDeferred[n + 1] = "close" /\ AllDeferred[n + 2] = "encode"
      BY <3>2, <3>4, <2>5, <2>6
    <3> DEFINE b == <<"close", "encode">>
    <3>7. b \in Seq(Deferrable) /\ Len(b) = 2 /\ b[1] = "close" /\ b[2] = "encode"
      <4>1. "close" \in Deferrable /\ "encode" \in Deferrable BY DEF Deferrable
      <4> QED BY <4>1
    <3>8. a = b BY <2>8, <2>17
    <3> HIDE DEF b
    <3>9. /\ deferred \o b \in Seq(Deferrable) /\ Len(deferred \o b) = n + Len(b)
          /\ \A i \in 1 .. Len(deferred \o b) : (deferred \o b)[i] = IF i <= n THEN deferred[i] ELSE b[i - n]
      <4>1. b \in Seq(Deferrable) BY <3>7
      <4> QED BY <4>1, <2>11, Joined
    <3>10. /\ deferred' \in Seq(Deferrable) /\ Len(deferred') = n + 2
           /\ \A i \in 1 .. n + 2 : deferred'[i] = IF i <= n THEN deferred[i] ELSE b[i - n]
      BY <3>7, <3>8, <3>9, <2>1
    <3>11. deferred'[n + 1] = "close" /\ deferred'[n + 2] = "encode"
      BY <3>7, <3>10, <2>11
    <3>12. \A i \in 1 .. n + 2 : deferred'[i] = AllDeferred[i]
      <4> TAKE i \in 1 .. n + 2
      <4>1. CASE i \in 1 .. n BY <4>1, <3>10, <2>11, <2>12
      <4>2. CASE i \notin 1 .. n
        <5>1. i = n + 1 \/ i = n + 2 BY <4>2, <2>11
        <5> QED BY <5>1, <3>6, <3>11
      <4> QED BY <4>1, <4>2
    <3> QED BY <3>5, <3>6, <3>10, <3>12, <2>11, <1>3 DEF StackInv
  <2>18. CASE s \notin {"tempdir", "lock", "har"} /\ ~LastMount(step)
    <3>1. deferred' = deferred
      <4>1. deferred \o <<>> = deferred BY <2>11
      <4> QED BY <4>1, <2>1, <2>8, <2>18
    <3>2. Depth' = n BY <2>2, <2>3, <2>18 DEF Depth, One
    <3> QED BY <3>1, <3>2, <1>3 DEF StackInv
  <2> QED BY <2>14, <2>15, <2>16, <2>17, <2>18
<1> QED BY <1>4, <1>5, <1>6 DEF Moves

(* What each kind of move does to what is done and to what is pending. *)
LEMMA AdvanceEffect ==
  ASSUME StepInv, StackInv, NEW s, Advance(s)
  PROVE  /\ OptionsType /\ opts' = opts /\ ~Returning /\ ~Returning' /\ phase = "setup" /\ failed' = failed
         /\ step \in 1 .. Len(Plan) /\ Plan[step] = s /\ Wanted(s) /\ s \in Steps
         /\ \A x : Done(x)' <=> Done(x) \/ x = s
         /\ MountBegun' <=> MountBegun \/ Mounting(step)
         /\ \A x : Wanted(x) /\ Place[x] < Place[s] => Done(x)
         /\ \A x \in Steps : Place[x] > Place[s] => ~Done(x)
         /\ Done(s) => Place[s] = Repeated
         /\ s = "bind" => Done("write")
         /\ Pending("removeCerts")' <=> Pending("removeCerts") \/ s = "tempdir"
         /\ Pending("unlock")' <=> Pending("unlock") \/ s = "lock"
         /\ Pending("remove")' <=> Pending("remove") \/ LastMount(step)
         /\ Pending("close")' <=> Pending("close") \/ s = "har"
         /\ Pending("encode")' <=> Pending("encode") \/ s = "har"
<1>1. OptionsType BY OptionsTyped DEF StepInv
<1>2. Len(Plan) \in Nat \ {0} BY <1>1, PlanTyped
<1>3. /\ phase = "setup" /\ Plan[step] = s /\ step \in 1 .. Len(Plan) /\ step' = step + 1 /\ opts' = opts
      /\ failed' = failed /\ ~Returning /\ ~Returning'
  BY <1>2 DEF Advance, StepInv, Returning
<1>4. Wanted(s) /\ s \in Steps BY <1>1, <1>3, PlanTyped
<1>5. /\ \A x : Done(x)' <=> Done(x) \/ x = s
      /\ MountBegun' <=> MountBegun \/ Mounting(step)
  BY <1>1, <1>3, DoneStep
<1>6. /\ \A x : Wanted(x) /\ Place[x] < Place[s] => Done(x)
      /\ \A x \in Steps : Place[x] > Place[s] => ~Done(x)
      /\ Done(s) => Place[s] = Repeated
      /\ s = "bind" => Done("write")
  BY <1>1, <1>3, Order
<1>7. /\ Pending("removeCerts")' <=> Pending("removeCerts") \/ s = "tempdir"
      /\ Pending("unlock")' <=> Pending("unlock") \/ s = "lock"
      /\ Pending("remove")' <=> Pending("remove") \/ LastMount(step)
      /\ Pending("close")' <=> Pending("close") \/ s = "har"
      /\ Pending("encode")' <=> Pending("encode") \/ s = "har"
  BY <1>1, <1>3, AdvancePending
<1> QED BY <1>1, <1>3, <1>4, <1>5, <1>6, <1>7

LEMMA UnwindEffect ==
  ASSUME StepInv, StackInv, NEW d, Unwind(d)
  PROVE  /\ opts' = opts /\ Returning /\ Returning' /\ failed' = failed /\ phase' = phase
         /\ d \in Deferrable /\ Pending(d)
         /\ \A x : Pending(x)' <=> Pending(x) /\ x # d
         /\ d = "close" => ~Pending("encode")
         /\ d = "encode" => Pending("close")
<1>1. OptionsType BY OptionsTyped DEF StepInv
<1>2. opts' = opts /\ Returning /\ Returning' /\ failed' = failed /\ phase' = phase BY DEF Unwind, Returning
<1> QED BY <1>1, <1>2, UnwindPending

Keeps == opts' = opts /\ step' = step /\ deferred' = deferred /\ (Returning => Returning' /\ failed' = failed)

LEMMA KeepsEffect ==
  ASSUME Keeps
  PROVE  /\ \A x : Done(x)' <=> Done(x)
         /\ MountBegun' <=> MountBegun
         /\ \A x : Pending(x)' <=> Pending(x)
BY DoneSame DEF Keeps, Pending, In

-----------------------------------------------------------------------------
(* The threads. *)

LEMMA ThreadInvStep ==
  ASSUME StepInv, StackInv, ThreadInv, [Next]_vars PROVE ThreadInv'
<1>0. OptionsType BY OptionsTyped DEF StepInv
<1>1. ASSUME UNCHANGED <<on, locked, net, device, space>>, Pending("unlock")' <=> Pending("unlock"),
             Returning => Returning',
             ~Returning' => \A x \in {"netns", "device", "unshare", "private"} : Done(x)' => Done(x)
      PROVE  ThreadInv'
  <2>1. \A t : Out(t)' <=> Out(t) BY <1>1 DEF Out
  <2> QED BY <1>1, <2>1 DEF ThreadInv
<1>2. ASSUME NEW s, Advance(s), Place[s] > 4 PROVE locked
  <2>1. Wanted("lock") /\ Place["lock"] = 4 BY DEF Wanted, Place
  <2>2. Done("lock") BY <1>2, <2>1, AdvanceEffect
  <2>3. ~Returning BY <1>2, AdvanceEffect
  <2> QED BY <2>2, <2>3, <1>0, PendingIs DEF ThreadInv
<1>3. ASSUME locked, ~Returning PROVE \A t \in Threads : Out(t) => t = on BY <1>3 DEF ThreadInv
<1>4. CASE Lock
  <2>1. Advance("lock") /\ locked' = TRUE /\ UNCHANGED <<on, net, device, space>>
    BY <1>4 DEF Lock, LockOSThread, mountVars
  <2>2. ~Returning /\ ~Returning' /\ Pending("unlock")' /\ ~Done("lock") /\ \A x : Done(x)' <=> Done(x) \/ x = "lock"
    <3>1. Place["lock"] = 4 BY DEF Place
    <3> QED BY <2>1, <3>1, AdvanceEffect DEF Repeated
  <2>3. ~locked BY <2>2, <1>0, PendingIs DEF ThreadInv
  <2>4. \A t \in Threads : ~Out(t) BY <2>2, <2>3 DEF ThreadInv
  <2>5. \A t : Out(t)' <=> Out(t) BY <2>1 DEF Out
  <2> QED BY <2>1, <2>2, <2>4, <2>5 DEF ThreadInv
<1>5. CASE Network
  <2>1. CASE Advance("netns") /\ net' = [net EXCEPT ![on] = "own"] /\ UNCHANGED device
    <3>1. UNCHANGED <<on, locked, space>> BY <1>5 DEF Network, mountVars
    <3>2. /\ ~Returning /\ ~Returning' /\ (Pending("unlock")' <=> Pending("unlock"))
          /\ \A x : Done(x)' <=> Done(x) \/ x = "netns"
      BY <2>1, AdvanceEffect
    <3>3. locked
      <4>1. Place["netns"] > 4 BY DEF Place
      <4> QED BY <2>1, <4>1, <1>2
    <3>4. \A t \in Threads : Out(t)' => t = on
      <4>1. \A t \in Threads : Out(t)' => Out(t) \/ t = on BY <2>1, <3>1 DEF Out, ThreadInv
      <4> QED BY <4>1, <3>2, <3>3, <1>3
    <3>5. net' \in [Threads -> {"host", "own"}] /\ net'[on] = "own" BY <2>1 DEF ThreadInv
    <3> QED BY <2>1, <3>1, <3>2, <3>3, <3>4, <3>5 DEF ThreadInv
  <2>2. CASE Advance("device") /\ device' = net[on] /\ UNCHANGED net
    <3>1. UNCHANGED <<on, locked, space>> BY <1>5 DEF Network, mountVars
    <3>2. /\ ~Returning /\ ~Returning' /\ (Pending("unlock")' <=> Pending("unlock"))
          /\ \A x : Done(x)' <=> Done(x) \/ x = "device"
      BY <2>2, AdvanceEffect
    <3>3. net[on] = "own"
      <4>1. Place["netns"] < Place["device"] BY DEF Place
      <4>2. Wanted("device") BY <2>2, AdvanceEffect
      <4>3. Wanted("netns")
        <5>1. ~In("device", MountSteps) BY <1>0, MountStepsAre
        <5> QED BY <5>1, <4>2 DEF Wanted
      <4>4. Done("netns") BY <2>2, <4>1, <4>3, AdvanceEffect
      <4> QED BY <4>4, <3>2 DEF ThreadInv
    <3>4. \A t : Out(t)' <=> Out(t) BY <2>2, <3>1 DEF Out
    <3> QED BY <2>2, <3>1, <3>2, <3>3, <3>4 DEF ThreadInv
  <2> QED BY <1>5, <2>1, <2>2 DEF Network
<1>6. CASE Mount
  <2> DEFINE c == Plan[step]
  <2>1. /\ Advance(c) /\ MountCall(c, on, opts.newUserNamespace) /\ Mounting(step)
        /\ UNCHANGED <<on, locked, net, device>>
    BY <1>6 DEF Mount, threads
  <2>2. /\ ~Returning /\ ~Returning' /\ step \in 1 .. Len(Plan) /\ c \in Steps /\ Wanted(c)
        /\ \A x : Done(x)' <=> Done(x) \/ x = c
    BY <2>1, AdvanceEffect
  <2>3. Place[c] \in 7 .. 14 BY <2>1, <2>2, <1>0, MountingIs
  <2>4. c \notin {"lock", "netns", "device"} BY <2>3 DEF Place
  <2>5. Pending("unlock")' <=> Pending("unlock") BY <2>1, <2>4, AdvanceEffect
  <2>6. locked BY <2>1, <2>3, <1>2
  <2> HIDE DEF c
  <2>7. CASE Unshare(c, on, opts.newUserNamespace)
    <3>1. /\ c = "unshare" /\ space' \in [Threads -> Spaces] /\ space'[on] # "host"
          /\ \A t \in Threads \ {on} : space'[t] = space[t]
      BY <2>7 DEF Unshare, ThreadInv, Spaces
    <3>2. ~Done("private")
      <4>1. "private" \in Steps /\ Place["private"] > Place["unshare"] BY DEF Steps, Place
      <4> QED BY <2>1, <3>1, <4>1, AdvanceEffect
    <3>3. \A t \in Threads : Out(t)' => t = on
      <4>1. \A t \in Threads : Out(t)' => Out(t) \/ t = on BY <2>1, <3>1 DEF Out
      <4> QED BY <4>1, <2>2, <2>6, <1>3
    <3> QED BY <2>1, <2>2, <2>4, <2>5, <2>6, <3>1, <3>2, <3>3 DEF ThreadInv
  <2>8. CASE MakePrivate(c, on)
    <3>1. c = "private" BY <2>8 DEF MakePrivate
    <3>2. space[on] # "host"
      <4>1. Place["unshare"] < Place["private"] BY DEF Place
      <4>2. In("private", MountSteps) BY <2>2, <3>1 DEF Wanted
      <4>3. Wanted("unshare") BY <4>2, <1>0, MountStepsAre DEF Wanted
      <4>4. Done("unshare") BY <2>1, <3>1, <4>1, <4>3, AdvanceEffect
      <4> QED BY <4>4, <2>2 DEF ThreadInv
    <3>3. /\ space' \in [Threads -> Spaces] /\ space'[on] = "private"
          /\ \A t \in Threads \ {on} : space'[t] = space[t]
      BY <2>8, <3>2 DEF MakePrivate, ThreadInv, Spaces
    <3>4. \A t \in Threads : Out(t)' => t = on
      <4>1. \A t \in Threads : Out(t)' => Out(t) \/ t = on BY <2>1, <3>3 DEF Out
      <4> QED BY <4>1, <2>2, <2>6, <1>3
    <3> QED BY <2>1, <2>2, <2>4, <2>5, <2>6, <3>1, <3>3, <3>4 DEF ThreadInv
  <2>9. CASE MakeFiles(c) \/ Attach(c, on) \/ Stat(c) \/ PivotRoot(c)
    <3>1. space' = space /\ c \notin {"unshare", "private"}
      BY <2>9 DEF MakeFiles, Creates, Attach, Stat, PivotRoot, mountVars
    <3> QED BY <2>1, <2>2, <2>4, <2>5, <3>1, <1>1
  <2> QED BY <2>1, <2>7, <2>8, <2>9 DEF MountCall
<1>7. CASE Unlock
  <2>1. Unwind("unlock") /\ locked' = FALSE /\ UNCHANGED <<on, net, device, space>>
    BY <1>7 DEF Unlock, mountVars
  <2>2. Returning' /\ ~Pending("unlock")' BY <2>1, UnwindEffect
  <2>3. \A t : Out(t)' <=> Out(t) BY <2>1 DEF Out
  <2> QED BY <2>1, <2>2, <2>3 DEF ThreadInv
<1>8. CASE Migrate
  <2>1. ~locked /\ on' \in Threads /\ Keeps /\ UNCHANGED <<phase, locked, net, device, space>>
    BY <1>8 DEF Migrate, control, mountVars, Keeps, Returning
  <2>2. (\A x : Done(x)' <=> Done(x)) /\ (Pending("unlock")' <=> Pending("unlock")) BY <2>1, KeepsEffect
  <2>3. \A t : Out(t)' <=> Out(t) BY <2>1 DEF Out
  <2>4. Returning' <=> Returning BY <2>1 DEF Returning
  <2>5. ~Returning => \A x \in {"netns", "device", "unshare", "private"} : ~Done(x)
    <3> SUFFICES ASSUME ~Returning, NEW x \in {"netns", "device", "unshare", "private"}, Done(x)
                 PROVE  FALSE
      OBVIOUS
    <3>1. ~Done("lock") BY <2>1, <1>0, PendingIs DEF ThreadInv
    <3>2. Wanted("lock") /\ Place["lock"] < Place[x] BY DEF Wanted, Place
    <3>3. step \in 1 .. Len(Plan) + 1 BY DEF StepInv
    <3> QED BY <3>1, <3>2, <3>3, <1>0, DoneBefore
  <2> QED BY <2>1, <2>2, <2>3, <2>4, <2>5 DEF ThreadInv
<1>9. CASE Certificates \/ SwitchUser \/ Services \/ Launch \/ CreateHar
  <2>1. /\ \E s \in {"ca", "tempdir", "certs", "user", "console", "web", "transport", "stack", "launch", "har"} :
             Advance(s)
        /\ UNCHANGED <<on, locked, net, device, space>>
    BY <1>9 DEF Certificates, SwitchUser, Services, Launch, CreateHar, threads, mountVars
  <2> QED BY <2>1, <1>1, AdvanceEffect
<1>10. CASE EncodeEnds \/ CloseHar \/ RemoveMount \/ RemoveCerts
  <2>1. /\ \E d \in {"encode", "close", "remove", "removeCerts"} : Unwind(d)
        /\ UNCHANGED <<on, locked, net, device, space>>
    BY <1>10 DEF EncodeEnds, CloseHar, RemoveMount, RemoveCerts, RemoverRemove, RemoveOverlay, RemoveBinds,
                 threads, mountVars
  <2> QED BY <2>1, <1>1, UnwindEffect
<1>11. CASE \/ Reexec \/ Fail \/ Wait \/ EncodeBegins \/ Exit \/ OuterExits \/ SubprocessExits \/ Interrupt
            \/ WebFails \/ (\E c \in Calls : Ask(c) \/ Trip(c) \/ Relay(c) \/ Show(c)) \/ UNCHANGED vars
  <2>1. Keeps /\ UNCHANGED <<on, locked, net, device, space>>
    BY <1>11 DEF Reexec, Fail, Return, MountCallFails, Wait, EncodeBegins, Exit, OuterExits, SubprocessExits,
                 Interrupt, WebFails, Ask, Trip, Relay, Show, Keeps, Returning, vars, control, threads, mountVars
  <2> QED BY <2>1, <1>1, KeepsEffect DEF Keeps
<1> QED BY <1>4, <1>5, <1>6, <1>7, <1>8, <1>9, <1>10, <1>11 DEF Next, Setup, Unwinding

-----------------------------------------------------------------------------
(* The files, the certificates, the subprocess. *)

LEMMA InToSet ==
  ASSUME NEW S, NEW s \in Seq(S) PROVE \A x : x \in ToSet(s) <=> In(x, s)
BY DEF ToSet, In

LEMMA InAppend ==
  ASSUME NEW S, NEW s \in Seq(S), NEW e \in S
  PROVE  Append(s, e) \in Seq(S) /\ \A x : In(x, Append(s, e)) <=> In(x, s) \/ x = e
<1> DEFINE w == Append(s, e)
<1>1. /\ w \in Seq(S) /\ Len(w) = Len(s) + 1 /\ w[Len(s) + 1] = e /\ Len(s) \in Nat
      /\ \A i \in 1 .. Len(s) : w[i] = s[i]
  OBVIOUS
<1> HIDE DEF w
<1>2. ASSUME NEW x PROVE In(x, w) <=> In(x, s) \/ x = e
  <2>1. In(x, s) => In(x, w) BY <1>1 DEF In
  <2>2. x = e => In(x, w) BY <1>1 DEF In
  <2>3. In(x, w) => In(x, s) \/ x = e
    <3> SUFFICES ASSUME NEW i \in 1 .. Len(w), w[i] = x, x # e PROVE In(x, s) BY DEF In
    <3>1. i \in 1 .. Len(s) /\ s[i] = x BY <1>1
    <3> QED BY <3>1 DEF In
  <2> QED BY <2>1, <2>2, <2>3
<1> QED BY <1>1, <1>2 DEF w

(* Which programs mount, and which pivot or bind. *)
LEMMA MountWanted ==
  ASSUME OptionsType, NEW c, Wanted(c)
  PROVE  /\ c \in {"mkdtemp", "mkdirs", "bake", "unshare", "private", "mountOverlay", "pivotRoot", "write",
                   "stat", "bind"} => Lays /\ Wanted("private")
         /\ c \in {"mountOverlay", "pivotRoot"} => Overlays
         /\ c = "bind" => Binds
         /\ ~(Overlays /\ Binds)
<1>1. c \in {"mkdtemp", "mkdirs", "bake", "unshare", "private", "mountOverlay", "pivotRoot", "write",
             "stat", "bind"} => In(c, MountSteps)
  BY DEF Wanted
<1>2. /\ In(c, MountSteps) => Lays
      /\ Lays => In("private", MountSteps)
      /\ In(c, MountSteps) /\ c \in {"mountOverlay", "pivotRoot"} => Overlays
      /\ In(c, MountSteps) /\ c = "bind" => Binds
  BY MountStepsAre DEF Overlays, Lays
<1>3. ~(Overlays /\ Binds) BY DEF Overlays, Binds, Httptap, Pivots
<1> QED BY <1>1, <1>2, <1>3 DEF Wanted

LEMMA FilesInvStep ==
  ASSUME StepInv, StackInv, ThreadInv, FilesInv, CertsInv, [Next]_vars PROVE FilesInv'
<1>0. OptionsType BY OptionsTyped DEF StepInv
<1>1. opts' = opts /\ (Overlays' <=> Overlays) /\ (Binds' <=> Binds)
  BY NextMoves, SamePlan DEF Moves
<1>2. ASSUME UNCHANGED <<tmpdir, spilled, mounted>>, Returning' <=> Returning,
             Returning => (Pending("remove")' <=> Pending("remove")) /\ failed' = failed /\ uid' = uid,
             MountBegun => MountBegun',
             ~Returning' => \A x \in {"mkdirs", "bake", "write", "mountOverlay", "bind"} : Done(x)' => Done(x)
      PROVE  FilesInv'
  BY <1>1, <1>2 DEF FilesInv
<1>3. CASE Mount
  <2> DEFINE c == Plan[step]
  <2>1. Advance(c) /\ MountCall(c, on, opts.newUserNamespace) /\ Mounting(step) BY <1>3 DEF Mount
  <2>2. /\ ~Returning /\ ~Returning' /\ step \in 1 .. Len(Plan) /\ c \in Steps /\ Wanted(c) /\ MountBegun'
        /\ \A x : Done(x)' <=> Done(x) \/ x = c
    BY <2>1, AdvanceEffect
  <2>3. Place[c] \in 7 .. 14 BY <2>1, <2>2, <1>0, MountingIs
  <2>4. c \in {"mkdtemp", "mkdirs", "bake", "unshare", "private", "mountOverlay", "pivotRoot", "write",
               "stat", "bind"}
    BY <2>2, <2>3, MountRanks
  <2> HIDE DEF c
  <2>5. CASE MakeFiles(c)
    <3>1. /\ c \in {"mkdtemp", "mkdirs", "bake", "write"}
          /\ tmpdir' = tmpdir \cup Creates[c] /\ UNCHANGED <<spilled, mounted>>
      BY <2>5 DEF MakeFiles, Creates
    <3>2. /\ c = "mkdirs" => Creates[c] = {"work", "layer"}
          /\ c = "bake" => Creates[c] = {"baked"}
          /\ c = "write" => Creates[c] = {"file"}
      BY DEF Creates
    <3> QED BY <2>2, <3>1, <3>2, <1>1 DEF FilesInv
  <2>6. CASE Unshare(c, on, opts.newUserNamespace) \/ MakePrivate(c, on) \/ Stat(c)
    <3>1. c \in {"unshare", "private", "stat"} /\ UNCHANGED <<tmpdir, spilled, mounted>>
      BY <2>6 DEF Unshare, MakePrivate, Stat, mountVars
    <3> QED BY <2>2, <3>1, <1>1 DEF FilesInv
  <2>7. CASE Attach(c, on)
    <3>1. c \in {"mountOverlay", "bind"} /\ mounted' = Append(mounted, c) /\ tmpdir' = tmpdir
      BY <2>7 DEF Attach
    <3>2. space[on] = "private"
      <4>1. Wanted("private") /\ Place["private"] < Place[c] BY <2>2, <3>1, <1>0, MountWanted DEF Place
      <4>2. Done("private") BY <2>1, <4>1, AdvanceEffect
      <4> QED BY <4>2, <2>2 DEF ThreadInv
    <3>3. spilled' = spilled BY <2>7, <3>2 DEF Attach
    <3>4. mounted' \in Seq({"mountOverlay", "pivotRoot", "bind"})
          /\ \A x : In(x, mounted') <=> In(x, mounted) \/ x = c
      BY <3>1, InAppend DEF FilesInv
    <3>5. (c = "mountOverlay" => Overlays) /\ (c = "bind" => Binds) BY <2>2, <1>0, MountWanted
    <3>6. c = "bind" => "file" \in tmpdir
      <4>1. c = "bind" => Done("write") BY <2>1, AdvanceEffect
      <4> QED BY <4>1, <2>2 DEF FilesInv
    <3>7. \A x : In(x, mounted)' <=> In(x, mounted) \/ x = c BY <3>4 DEF In
    <3> QED BY <2>2, <3>1, <3>3, <3>4, <3>5, <3>6, <3>7, <1>1 DEF FilesInv
  <2>8. CASE PivotRoot(c)
    <3>1. c = "pivotRoot" /\ mounted' = Append(mounted, c) /\ UNCHANGED <<tmpdir, spilled>>
      BY <2>8 DEF PivotRoot
    <3>2. mounted' \in Seq({"mountOverlay", "pivotRoot", "bind"})
          /\ \A x : In(x, mounted') <=> In(x, mounted) \/ x = c
      BY <3>1, InAppend DEF FilesInv
    <3>3. Overlays BY <2>2, <3>1, <1>0, MountWanted
    <3>4. \A x : In(x, mounted)' <=> In(x, mounted) \/ x = c BY <3>2 DEF In
    <3> QED BY <2>2, <3>1, <3>2, <3>3, <3>4, <1>1 DEF FilesInv
  <2> QED BY <2>1, <2>5, <2>6, <2>7, <2>8 DEF MountCall
<1>4. CASE Fail
  <2>1. /\ ~Returning /\ Returning' /\ phase = "setup" /\ failed' = Plan[step] /\ Keeps
        /\ UNCHANGED <<spilled, mounted>>
        /\ tmpdir \subseteq tmpdir'
        /\ Plan[step] \notin MountCalls => tmpdir' = tmpdir
    BY <1>4 DEF Fail, Return, MountCallFails, Keeps, Returning, mountVars
  <2>2. Pending("remove")' <=> Pending("remove") BY <2>1, KeepsEffect
  <2>3. Plan[step] \notin MountCalls /\ tmpdir # {} => MountDone
    <3>1. tmpdir # {} => MountBegun BY <2>1 DEF FilesInv
    <3> QED BY <3>1 DEF StepInv, Mounting
  <2>4. MountDone => Pending("remove") BY <2>1, <1>0, PendingIs
  <2> QED BY <2>1, <2>2, <2>3, <2>4, <1>1 DEF FilesInv
<1>5. CASE Wait
  <2>1. ~Returning /\ Returning' /\ phase = "waiting" /\ Keeps /\ UNCHANGED <<tmpdir, spilled, mounted>>
    BY <1>5 DEF Wait, Return, Keeps, Returning, mountVars
  <2>2. Pending("remove")' <=> Pending("remove") BY <2>1, KeepsEffect
  <2>3. tmpdir # {} => MountDone
    <3>1. tmpdir # {} => MountBegun BY <2>1 DEF FilesInv
    <3>2. ~(step <= Len(Plan)) BY <2>1, <1>0, PlanTyped DEF StepInv
    <3> QED BY <3>1, <3>2 DEF StepInv
  <2>4. MountDone => Pending("remove") BY <2>1, <1>0, PendingIs
  <2> QED BY <2>1, <2>2, <2>3, <2>4, <1>1 DEF FilesInv
<1>6. CASE RemoveMount
  <2>1. Unwind("remove") /\ RemoverRemove(uid # "other") /\ uid' = uid BY <1>6 DEF RemoveMount
  <2>2. Returning /\ Returning' BY <2>1, UnwindEffect
  <2>3. \A x : x \in ToSet(mounted) <=> In(x, mounted) BY InToSet DEF FilesInv
  <2>4. CASE RemoveOverlay(uid # "other")
    <3>1. ~In("bind", mounted) /\ UNCHANGED <<spilled, mounted>> BY <2>3, <2>4 DEF RemoveOverlay
    <3>2. tmpdir' # {} => uid = "other" \/ In("pivotRoot", mounted)
      BY <2>3, <2>4 DEF RemoveOverlay, RemoveAll
    <3> QED BY <2>1, <2>2, <3>1, <3>2, <1>1 DEF FilesInv
  <2>5. CASE RemoveBinds
    <3>1. In("bind", mounted) /\ spilled' = spilled BY <2>3, <2>5 DEF RemoveBinds
    <3>2. ~In("pivotRoot", mounted) /\ ~In("mountOverlay", mounted) /\ "file" \in tmpdir /\ Binds
      BY <3>1 DEF FilesInv, Overlays, Binds, Httptap, Pivots
    <3>3. \A i \in 1 .. Len(mounted) : mounted[i] = "bind" BY <3>2 DEF FilesInv, In
    <3>4. PICK n \in 0 .. Len(mounted) : mounted' = SubSeq(mounted, 1, n) /\ tmpdir' = Kept(n)
      BY <2>5 DEF RemoveBinds
    <3>5. /\ mounted' \in Seq({"mountOverlay", "pivotRoot", "bind"}) /\ Len(mounted') = n
          /\ \A i \in 1 .. n : mounted'[i] = "bind"
      <4> DEFINE S == {"mountOverlay", "pivotRoot", "bind"}
      <4>1. n \in Nat /\ n <= Len(mounted) BY DEF FilesInv
      <4>2. \A i \in 1 .. n : mounted[i] \in S /\ mounted[i] = "bind" BY <4>1, <3>3
      <4>3. SubSeq(mounted, 1, n) \in Seq(S) BY <4>1, <4>2, SubSeqProperties
      <4>4. Len(SubSeq(mounted, 1, n)) = n
        <5>1. Len(SubSeq(mounted, 1, n)) = IF 1 <= n THEN n - 1 + 1 ELSE 0
          BY <4>1, <4>2, SubSeqProperties
        <5> QED BY <5>1, <4>1
      <4>5. \A i \in 1 .. n : SubSeq(mounted, 1, n)[i] = mounted[i]
        <5>1. \A i \in 1 .. n - 1 + 1 : SubSeq(mounted, 1, n)[i] = mounted[1 + i - 1]
          BY <4>1, <4>2, SubSeqProperties
        <5> QED BY <5>1, <4>1
      <4> QED BY <4>2, <4>3, <4>4, <4>5, <3>4
    <3>6. CASE n = 0
      <4>1. tmpdir' = {} BY <2>3, <3>2, <3>4, <3>6 DEF Kept, RemoveAll
      <4>2. \A x : ~In(x, mounted)' BY <3>5, <3>6 DEF In
      <4> QED BY <2>2, <3>1, <3>5, <4>1, <4>2 DEF FilesInv
    <3>7. CASE n # 0
      <4>1. tmpdir' = tmpdir BY <3>4, <3>7 DEF Kept
      <4>2. In("bind", mounted)' BY <3>5, <3>7 DEF In
      <4>3. ~In("pivotRoot", mounted)' /\ ~In("mountOverlay", mounted)' BY <3>5 DEF In
      <4> QED BY <2>2, <3>1, <3>2, <3>5, <4>1, <4>2, <4>3, <1>1 DEF FilesInv
    <3> QED BY <3>6, <3>7
  <2> QED BY <2>1, <2>4, <2>5 DEF RemoverRemove
<1>7. CASE Certificates \/ Lock \/ Network \/ SwitchUser \/ Services \/ Launch \/ CreateHar
  <2>1. /\ \E s \in {"ca", "tempdir", "certs", "lock", "netns", "device", "user", "console", "web", "transport",
                     "stack", "launch", "har"} : Advance(s)
        /\ UNCHANGED <<tmpdir, spilled, mounted>>
    BY <1>7 DEF Certificates, Lock, Network, SwitchUser, Services, Launch, CreateHar, mountVars
  <2> QED BY <2>1, <1>2, AdvanceEffect
<1>8. CASE EncodeEnds \/ CloseHar \/ Unlock \/ RemoveCerts
  <2>1. /\ \E d \in {"encode", "close", "unlock", "removeCerts"} : Unwind(d)
        /\ UNCHANGED <<tmpdir, spilled, mounted, uid>>
    BY <1>8 DEF EncodeEnds, CloseHar, Unlock, RemoveCerts, mountVars
  <2>2. step' = step BY <2>1 DEF Unwind
  <2>3. MountBegun' <=> MountBegun BY <2>2, <1>1, DoneSame
  <2> QED BY <2>1, <2>3, <1>2, UnwindEffect
<1>9. CASE \/ Reexec \/ EncodeBegins \/ Exit \/ OuterExits \/ SubprocessExits \/ Interrupt \/ Migrate
           \/ WebFails \/ (\E c \in Calls : Ask(c) \/ Trip(c) \/ Relay(c) \/ Show(c)) \/ UNCHANGED vars
  <2>1. Keeps /\ (Returning' <=> Returning) /\ UNCHANGED <<failed, tmpdir, spilled, mounted, uid>>
    BY <1>9 DEF Reexec, EncodeBegins, Exit, OuterExits, SubprocessExits, Migrate,
                 Interrupt, WebFails, Ask, Trip, Relay, Show, Keeps, Returning, vars, control, mountVars
  <2> QED BY <2>1, <1>2, KeepsEffect
<1> QED BY <1>3, <1>4, <1>5, <1>6, <1>7, <1>8, <1>9 DEF Next, Setup, Unwinding

LEMMA CertsInvStep ==
  ASSUME StepInv, StackInv, CertsInv, [Next]_vars PROVE CertsInv'
<1>0. OptionsType BY OptionsTyped DEF StepInv
<1>1. ASSUME UNCHANGED <<certs, uid>>, Returning => Returning',
             Pending("removeCerts") => Pending("removeCerts")', ~Returning' => (Done("certs")' => Done("certs"))
      PROVE  CertsInv'
  BY <1>1 DEF CertsInv
<1>2. CASE Certificates
  <2>1. uid' = uid BY <1>2 DEF Certificates
  <2>2. ASSUME NEW s \in {"ca", "tempdir", "certs"}, Advance(s)
        PROVE  Httptap /\ Wanted("tempdir")
    <3>1. Wanted(s) /\ ~In(s, MountSteps) BY <2>2, <1>0, AdvanceEffect, MountStepsAre
    <3> QED BY <3>1 DEF Wanted
  <2>3. CASE Advance("ca") /\ UNCHANGED certs
    <3>1. Place["ca"] = 1 BY DEF Place
    <3> QED BY <2>1, <2>3, <1>1, AdvanceEffect
  <2>4. CASE Advance("tempdir") /\ certs' = "empty"
    <3>1. "certs" \in Steps /\ Place["tempdir"] < Place["certs"] BY DEF Place, Steps
    <3>2. ~Done("certs") BY <2>4, <3>1, AdvanceEffect DEF Place
    <3>3. ~Done("certs")' /\ Pending("removeCerts")' BY <2>4, <3>2, AdvanceEffect
    <3> QED BY <2>1, <2>4, <3>3 DEF CertsInv
  <2>5. CASE Advance("certs") /\ certs' = "full"
    <3>1. Wanted("tempdir") /\ Place["tempdir"] < Place["certs"] BY <2>2, <2>5 DEF Place
    <3>2. Done("tempdir") /\ ~Returning BY <2>5, <3>1, AdvanceEffect
    <3>3. Pending("removeCerts") BY <3>2, <1>0, PendingIs
    <3>4. Pending("removeCerts")' BY <2>5, <3>3, AdvanceEffect
    <3> QED BY <2>1, <2>5, <3>4 DEF CertsInv
  <2> QED BY <1>2, <2>3, <2>4, <2>5 DEF Certificates
<1>3. CASE SwitchUser
  <2>1. Advance("user") /\ uid' = opts.user /\ certs' = certs BY <1>3 DEF SwitchUser
  <2>2. Wanted("user") /\ ~Returning /\ ~In("user", MountSteps) BY <2>1, <1>0, AdvanceEffect, MountStepsAre
  <2>3. Httptap /\ opts.user # "none" BY <2>2 DEF Wanted
  <2>4. Wanted("tempdir") /\ Place["tempdir"] < Place["user"] BY <2>3 DEF Wanted, Place
  <2>5. Done("tempdir") BY <2>1, <2>4, AdvanceEffect
  <2>6. Pending("removeCerts")' BY <2>1, <2>2, <2>5, <1>0, PendingIs, AdvanceEffect
  <2>7. Done("certs")' <=> Done("certs") BY <2>1, AdvanceEffect
  <2>8. uid' \in {"root", "other"} BY <2>1, <2>3, <1>0 DEF OptionsType
  <2> QED BY <2>1, <2>2, <2>6, <2>7, <2>8 DEF CertsInv, Returning
<1>4. CASE RemoveCerts
  <2>1. Unwind("removeCerts") /\ certs' = (IF uid = "other" THEN certs ELSE "none") /\ uid' = uid
    BY <1>4 DEF RemoveCerts
  <2>2. Returning' BY <2>1, UnwindEffect
  <2> QED BY <2>1, <2>2 DEF CertsInv
<1>5. CASE Lock \/ Network \/ Mount \/ Services \/ Launch \/ CreateHar
  <2>1. UNCHANGED <<certs, uid>> /\ \E s : s # "certs" /\ Advance(s)
    <3>1. CASE Mount
      <4>1. Advance(Plan[step]) /\ Mounting(step) /\ UNCHANGED <<certs, uid>> BY <3>1 DEF Mount
      <4>2. step \in 1 .. Len(Plan) BY <4>1, AdvanceEffect
      <4>3. Place[Plan[step]] \in 7 .. 14 BY <4>1, <4>2, <1>0, MountingIs
      <4>4. Plan[step] # "certs" BY <4>3 DEF Place
      <4> QED BY <4>1, <4>4
    <3> QED BY <1>5, <3>1 DEF Lock, Network, Services, Launch, CreateHar
  <2> QED BY <2>1, <1>1, AdvanceEffect
<1>6. CASE EncodeEnds \/ CloseHar \/ Unlock \/ RemoveMount
  <2>1. /\ \E d \in {"encode", "close", "unlock", "remove"} : Unwind(d)
        /\ UNCHANGED <<certs, uid>>
    BY <1>6 DEF EncodeEnds, CloseHar, Unlock, RemoveMount
  <2> QED BY <2>1, <1>1, UnwindEffect
<1>7. CASE \/ Reexec \/ Fail \/ Wait \/ EncodeBegins \/ Exit \/ OuterExits \/ SubprocessExits \/ Interrupt \/ Migrate
           \/ WebFails \/ (\E c \in Calls : Ask(c) \/ Trip(c) \/ Relay(c) \/ Show(c)) \/ UNCHANGED vars
  <2>1. Keeps /\ UNCHANGED <<certs, uid>>
    BY <1>7 DEF Reexec, Fail, Return, Wait, EncodeBegins, Exit, OuterExits, SubprocessExits, Migrate,
                 Interrupt, WebFails, Ask, Trip, Relay, Show, Keeps, Returning, vars, control
  <2> QED BY <2>1, <1>1, KeepsEffect DEF Keeps
<1> QED BY <1>2, <1>3, <1>4, <1>5, <1>6, <1>7 DEF Next, Setup, Unwinding

LEMMA ChildInvStep ==
  ASSUME StepInv, StackInv, ThreadInv, ChildInv, [Next]_vars PROVE ChildInv'
<1>0. OptionsType BY OptionsTyped DEF StepInv
<1>1. opts' = opts /\ (Httptap' <=> Httptap) /\ (Lays' <=> Lays) BY NextMoves, SamePlan DEF Moves
<1>2. ASSUME UNCHANGED <<sub, home>>, Returning' <=> Returning, Returning => failed' = failed,
             ~Returning' => (Done("launch")' <=> Done("launch"))
      PROVE  ChildInv'
  BY <1>1, <1>2 DEF ChildInv
<1>3. CASE Launch
  <2>1. Advance("launch") /\ sub' = "running" /\ home' = [net |-> net[on], space |-> space[on]]
    BY <1>3 DEF Launch
  <2>2. ~Returning /\ ~Returning' /\ Done("launch")' BY <2>1, AdvanceEffect
  <2>3. Httptap => net[on] = "own"
    <3>1. Httptap => Wanted("netns") BY DEF Wanted
    <3>2. Place["netns"] < Place["launch"] BY DEF Place
    <3>3. Httptap => Done("netns") BY <2>1, <3>1, <3>2, AdvanceEffect
    <3> QED BY <2>2, <3>3 DEF ThreadInv
  <2>4. Lays => space[on] = "private"
    <3>1. Lays => Wanted("private") BY <1>0, MountStepsAre DEF Wanted
    <3>2. Place["private"] < Place["launch"] BY DEF Place
    <3>3. Lays => Done("private") BY <2>1, <3>1, <3>2, AdvanceEffect
    <3> QED BY <2>2, <3>3 DEF ThreadInv
  <2>5. net[on] \in {"host", "own"} /\ space[on] \in Spaces BY DEF ThreadInv
  <2> QED BY <2>1, <2>2, <2>3, <2>4, <2>5, <1>1 DEF ChildInv
<1>4. CASE Fail
  <2>1. /\ ~Returning /\ Returning' /\ phase = "setup" /\ failed' = Plan[step] /\ Plan[step] \notin CannotFail
        /\ UNCHANGED <<sub, home>>
    BY <1>4 DEF Fail, Return, Returning, child
  <2>2. step \in 1 .. Len(Plan) BY <2>1, <1>0, PlanTyped DEF StepInv
  <2>3. failed' \notin {"none", "wait"} BY <2>1, <2>2, <1>0, FailedStep
  <2>4. sub = "running" => failed' = "stack"
    <3> SUFFICES ASSUME sub = "running" PROVE Plan[step] = "stack" BY <2>1
    <3>1. Done("launch") BY <2>1 DEF ChildInv
    <3>2. Plan[step] \in Steps BY <2>2, <1>0, PlanTyped
    <3>3. ~(Place["launch"] > Place[Plan[step]])
      <4>1. "launch" \in Steps BY DEF Steps
      <4> QED BY <3>1, <4>1, <2>2, <1>0, Order
    <3>4. Plan[step] # "launch"
      <4>1. Place["launch"] # Repeated BY DEF Place, Repeated
      <4> QED BY <3>1, <4>1, <2>2, <1>0, Order
    <3> QED BY <2>1, <3>2, <3>3, <3>4 DEF Place, Steps, CannotFail
  <2> QED BY <2>1, <2>3, <2>4, <1>1 DEF ChildInv
<1>5. CASE Wait
  <2>1. /\ ~Returning /\ Returning' /\ phase = "waiting" /\ sub # "running" /\ UNCHANGED <<sub, home>>
        /\ failed' = IF sub = "ok" THEN "none" ELSE "wait"
    BY <1>5 DEF Wait, Return, Finished, Returning, child
  <2>2. Done("launch")
    <3>1. step = Len(Plan) + 1 /\ step \in 1 .. Len(Plan) + 1 BY <2>1 DEF StepInv
    <3>2. Wanted("launch") BY DEF Wanted
    <3> QED BY <3>1, <3>2, <1>0, DoneWanted
  <2> QED BY <2>1, <2>2, <1>1 DEF ChildInv
<1>6. CASE SubprocessExits \/ Interrupt
  <2>1. /\ Keeps /\ phase' = phase /\ failed' = failed /\ home' = home
        /\ sub' = sub \/ (sub = "running" /\ sub' \in {"ok", "error", "signal"})
    BY <1>6 DEF SubprocessExits, Interrupt, Keeps, Returning, control
  <2>2. (Done("launch")' <=> Done("launch")) /\ (Returning' <=> Returning)
    BY <2>1, KeepsEffect DEF Returning
  <2> QED BY <2>1, <2>2, <1>1 DEF ChildInv, Ends
<1>7. CASE Certificates \/ Lock \/ Network \/ SwitchUser \/ Services \/ CreateHar \/ Mount
  <2>1. UNCHANGED <<sub, home>> /\ \E s : s # "launch" /\ Advance(s)
    <3>1. CASE Mount
      <4>1. Advance(Plan[step]) /\ Mounting(step) /\ UNCHANGED <<sub, home>> BY <3>1 DEF Mount, child
      <4>2. step \in 1 .. Len(Plan) BY <4>1, AdvanceEffect
      <4>3. Place[Plan[step]] \in 7 .. 14 BY <4>1, <4>2, <1>0, MountingIs
      <4>4. Plan[step] # "launch" BY <4>3 DEF Place
      <4> QED BY <4>1, <4>4
    <3> QED BY <1>7, <3>1 DEF Certificates, Lock, Network, SwitchUser, Services, CreateHar, child
  <2> QED BY <2>1, <1>2, AdvanceEffect
<1>8. CASE EncodeEnds \/ CloseHar \/ RemoveMount \/ Unlock \/ RemoveCerts
  <2>1. UNCHANGED <<sub, home>> /\ \E d : Unwind(d)
    BY <1>8 DEF EncodeEnds, CloseHar, RemoveMount, Unlock, RemoveCerts, child
  <2> QED BY <2>1, <1>2, UnwindEffect
<1>9. CASE \/ Reexec \/ EncodeBegins \/ Exit \/ OuterExits \/ Migrate
           \/ WebFails \/ (\E c \in Calls : Ask(c) \/ Trip(c) \/ Relay(c) \/ Show(c)) \/ UNCHANGED vars
  <2>1. Keeps /\ (Returning' <=> Returning) /\ UNCHANGED <<failed, sub, home>>
    BY <1>9 DEF Reexec, EncodeBegins, Exit, OuterExits, Migrate,
                 WebFails, Ask, Trip, Relay, Show, Keeps, Returning, vars, control, child
  <2> QED BY <2>1, <1>2, KeepsEffect
<1> QED BY <1>3, <1>4, <1>5, <1>6, <1>7, <1>8, <1>9 DEF Next, Setup, Unwinding

-----------------------------------------------------------------------------
(* How the processes end. *)

LEMMA EndInvStep ==
  ASSUME StepInv, EndInv, [Next]_vars PROVE EndInv'
<1>0. OptionsType BY OptionsTyped DEF StepInv
<1>1. opts' = opts BY NextMoves DEF Moves
<1>2. ASSUME UNCHANGED <<outer, code>>, code = "running" \/ UNCHANGED <<phase, failed>> PROVE EndInv'
  BY <1>1, <1>2 DEF EndInv, Ends, Returning
<1>3. CASE Reexec
  <2>1. CASE phase' = "setup" /\ outer' = "running" /\ UNCHANGED code
    BY <1>3, <2>1 DEF Reexec, Alive, EndInv, Ends
  <2>2. CASE code' = "error" /\ UNCHANGED <<phase, outer>>
    BY <1>3, <2>2 DEF Reexec, Alive, EndInv, Ends
  <2> QED BY <1>3, <2>1, <2>2 DEF Reexec
<1>4. CASE EncodeEnds
  <2>1. /\ code = "running" /\ code' \in {"running", "crash"} /\ UNCHANGED <<outer, phase, failed>>
    BY <1>4 DEF EncodeEnds, Unwind, Alive
  <2> QED BY <2>1, <1>1 DEF EndInv, Ends
<1>5. CASE Exit
  <2>1. /\ code = "running" /\ Returning /\ UNCHANGED <<outer, phase, failed>>
        /\ code' = IF failed = "none" THEN "ok" ELSE "error"
    BY <1>5 DEF Exit, Alive, Returning
  <2> QED BY <2>1 DEF EndInv, Ends, Returning
<1>6. CASE OuterExits
  <2>1. /\ code # "running" /\ UNCHANGED <<code, phase, failed>>
        /\ outer' = IF code = "signal" THEN "minus1" ELSE code
    BY <1>6 DEF OuterExits, OuterCode, Alive
  <2> QED BY <2>1, <1>1 DEF EndInv, Ends, Returning
<1>7. CASE Interrupt
  <2>1. /\ code = "running" /\ code' = "signal" /\ outer' \in {outer, "signal"}
    BY <1>7 DEF Interrupt, Alive
  <2> QED BY <2>1 DEF EndInv, Ends
<1>8. CASE WebFails
  <2>1. code = "running" /\ code' = "error" /\ UNCHANGED <<outer, phase, failed>> /\ Done("web")
    BY <1>8 DEF WebFails, Alive, Done
  <2>2. step \in 1 .. Len(Plan) + 1 BY DEF StepInv
  <2>3. Wanted("web") /\ ~In("web", MountSteps) BY <2>1, <2>2, <1>0, DoneWanted, MountStepsAre
  <2>4. opts.web BY <2>3 DEF Wanted
  <2> QED BY <2>1, <2>4, <1>1 DEF EndInv, Ends
<1>9. CASE \/ Fail \/ Certificates \/ Lock \/ Network \/ Mount \/ SwitchUser \/ Services \/ Launch \/ CreateHar
           \/ Wait \/ EncodeBegins \/ CloseHar \/ RemoveMount \/ Unlock \/ RemoveCerts
           \/ SubprocessExits \/ Migrate
           \/ (\E c \in Calls : Ask(c) \/ Trip(c) \/ Relay(c) \/ Show(c)) \/ UNCHANGED vars
  <2>1. UNCHANGED <<outer, code>> /\ (code = "running" \/ UNCHANGED <<phase, failed>>)
    BY <1>9 DEF Fail, Return, Advance, Certificates, Lock, Network, Mount, SwitchUser, Services, Launch,
                CreateHar, Wait, EncodeBegins, Unwind, CloseHar, RemoveMount, Unlock, RemoveCerts,
                SubprocessExits, Migrate, Ask, Trip, Relay, Show, Alive, vars, control
  <2> QED BY <2>1, <1>2
<1> QED BY <1>3, <1>4, <1>5, <1>6, <1>7, <1>8, <1>9 DEF Next, Setup, Unwinding

-----------------------------------------------------------------------------
(* The calls, and the HAR file. *)

(* Main never goes back: once it serves or returns without an error of its *)
(* own, it goes on to.                                                     *)
LEMMA StaysServing ==
  ASSUME Moves
  PROVE  /\ opts' = opts /\ (Returning => Returning')
         /\ phase \in {"waiting", "unwinding"} /\ failed \in {"none", "wait"} =>
              phase' \in {"waiting", "unwinding"} /\ failed' \in {"none", "wait"}
BY DEF Moves, Stays, Enters, Returns, Advance, Unwind, Returning

LEMMA CallsInvStep ==
  ASSUME StepInv, ThreadInv, CallsInv, [Next]_vars PROVE CallsInv'
<1>1. /\ opts' = opts /\ (Returning => Returning')
      /\ phase \in {"waiting", "unwinding"} /\ failed \in {"none", "wait"} =>
           phase' \in {"waiting", "unwinding"} /\ failed' \in {"none", "wait"}
  BY NextMoves, StaysServing
<1>2. ASSUME UNCHANGED calls, UNCHANGED entries, Returning /\ ~locked => ~locked' PROVE CallsInv'
  <2>1. UNCHANGED <<at, dialed, entries>> /\ \A c : In(c, entries)' <=> In(c, entries)
    BY <1>2 DEF calls, In
  <2> QED BY <1>1, <1>2, <2>1 DEF CallsInv
<1>3. ASSUME NEW c \in Calls, Ask(c) PROVE CallsInv'
  <2>1. /\ phase \in {"waiting", "unwinding"} /\ failed = "none" /\ at' = [at EXCEPT ![c] = "asked"]
        /\ UNCHANGED <<dialed, entries, locked>> /\ \A x : In(x, entries)' <=> In(x, entries)
    BY <1>3 DEF Ask, Serving, Progress, threads, har, In
  <2>2. at' \in [Calls -> {"idle", "asked", "tripped", "received", "lost", "printed"}]
    BY <2>1 DEF CallsInv
  <2>3. \A x \in Calls : at'[x] = IF x = c THEN "asked" ELSE at[x] BY <2>1 DEF CallsInv
  <2> QED BY <1>1, <2>1, <2>2, <2>3 DEF CallsInv
<1>4. ASSUME NEW c \in Calls, Trip(c) PROVE CallsInv'
  <2>1. /\ at[c] = "asked" /\ at' = [at EXCEPT ![c] = "tripped"] /\ UNCHANGED locked
        /\ entries' = IF opts.har THEN Append(entries, c) ELSE entries
    BY <1>4 DEF Trip, Progress, Logged, threads
  <2>2. PICK t \in Threads : (locked => t # on) /\ dialed' = [dialed EXCEPT ![c] = net[t]] BY <1>4 DEF Trip
  <2>3. net[t] = "own" => Returning /\ ~locked
    <3>1. net[t] = "own" => Out(t) BY DEF Out
    <3> QED BY <2>2, <3>1 DEF ThreadInv
  <2>4. /\ at' \in [Calls -> {"idle", "asked", "tripped", "received", "lost", "printed"}]
        /\ \A x \in Calls : at'[x] = IF x = c THEN "tripped" ELSE at[x]
    BY <2>1 DEF CallsInv
  <2>5. /\ dialed' \in [Calls -> {"none", "host", "own"}]
        /\ \A x \in Calls : dialed'[x] = IF x = c THEN net[t] ELSE dialed[x]
    <3>1. net[t] \in {"none", "host", "own"} BY DEF ThreadInv
    <3> QED BY <2>2, <3>1 DEF CallsInv
  <2>6. /\ entries' \in Seq(Calls)
        /\ \A x : In(x, entries)' <=> In(x, entries) \/ (opts.har /\ x = c)
    <3>1. CASE opts.har
      <4>1. entries' = Append(entries, c) BY <2>1, <3>1
      <4>2. entries' \in Seq(Calls) /\ \A x : In(x, entries') <=> In(x, entries) \/ x = c
        BY <4>1, InAppend DEF CallsInv
      <4>3. \A x : In(x, entries)' <=> In(x, entries') BY DEF In
      <4> QED BY <3>1, <4>2, <4>3
    <3>2. CASE ~opts.har
      <4>1. entries' = entries BY <2>1, <3>2
      <4> QED BY <3>2, <4>1 DEF CallsInv, In
    <3> QED BY <3>1, <3>2
  <2> QED BY <1>1, <2>1, <2>3, <2>4, <2>5, <2>6 DEF CallsInv
<1>5. ASSUME NEW c \in Calls, Relay(c) \/ Show(c) PROVE CallsInv'
  <2>1. /\ UNCHANGED <<dialed, entries, locked>> /\ \A x : In(x, entries)' <=> In(x, entries)
        /\ at[c] \in {"tripped", "received"}
        /\ \E to \in {"received", "lost", "printed"} : at' = [at EXCEPT ![c] = to]
    BY <1>5 DEF Relay, Show, Progress, threads, har, In
  <2>2. PICK to \in {"received", "lost", "printed"} : at' = [at EXCEPT ![c] = to] BY <2>1
  <2>3. /\ at' \in [Calls -> {"idle", "asked", "tripped", "received", "lost", "printed"}]
        /\ \A x \in Calls : at'[x] = IF x = c THEN to ELSE at[x]
    BY <2>2 DEF CallsInv
  <2> QED BY <1>1, <2>1, <2>3 DEF CallsInv
<1>6. CASE Lock
  <2>1. UNCHANGED calls /\ UNCHANGED entries /\ ~Returning BY <1>6 DEF Lock, Advance, Returning, har
  <2> QED BY <2>1, <1>2
<1>7. CASE Unlock
  BY <1>7, <1>2 DEF Unlock, har
<1>8. CASE Reexec \/ Fail \/ Certificates \/ Network \/ Mount \/ SwitchUser \/ Services \/ Launch \/ CreateHar
  BY <1>8, <1>2 DEF Reexec, Fail, Certificates, Network, Mount, SwitchUser, Services, Launch, CreateHar, threads, har
<1>9. CASE Wait \/ EncodeBegins \/ EncodeEnds \/ CloseHar \/ RemoveMount \/ RemoveCerts \/ Exit \/ OuterExits
  BY <1>9, <1>2 DEF Wait, EncodeBegins, EncodeEnds, CloseHar, RemoveMount, RemoveCerts, Exit, OuterExits,
                    threads, har
<1>10. CASE SubprocessExits \/ Migrate \/ Interrupt \/ WebFails \/ UNCHANGED vars
  BY <1>10, <1>2 DEF SubprocessExits, Migrate, Interrupt, WebFails, vars, threads, har
<1> QED BY <1>3, <1>4, <1>5, <1>6, <1>7, <1>8, <1>9, <1>10 DEF Next, Setup, Unwinding

LEMMA HarInvStep ==
  ASSUME StepInv, StackInv, ChildInv, CallsInv, HarInv, [Next]_vars PROVE HarInv'
<1>0. OptionsType BY OptionsTyped DEF StepInv
<1>1. opts' = opts /\ (Httptap' <=> Httptap) /\ (Returning => Returning')
  BY NextMoves, SamePlan, StaysServing DEF Moves
<1>2. ASSUME UNCHANGED <<taken, written, file, entries, at>>, Done("har") => Done("har")' \/ Returning',
             Pending("close")' <=> Pending("close"), Pending("encode")' <=> Pending("encode"),
             code = "crash" => code' = "crash"
      PROVE  HarInv'
  BY <1>1, <1>2 DEF HarInv
<1>3. CASE CreateHar
  <2>1. Advance("har") /\ file' \in {"none", "open"} /\ UNCHANGED <<entries, taken, written, at>>
    BY <1>3 DEF CreateHar, calls
  <2>2. ~Returning /\ Done("har")' /\ Pending("encode")' /\ Wanted("har") BY <2>1, AdvanceEffect
  <2>3. Httptap /\ opts.har
    <3>1. ~In("har", MountSteps) BY <1>0, MountStepsAre
    <3> QED BY <2>2, <3>1 DEF Wanted
  <2> QED BY <1>1, <2>1, <2>2, <2>3 DEF HarInv
<1>4. CASE EncodeBegins
  <2>1. /\ Keeps /\ Returning /\ Returning' /\ deferred # <<>> /\ Last(deferred) = "encode"
        /\ taken' = Len(entries) /\ UNCHANGED <<entries, file, written, at>>
    BY <1>4 DEF EncodeBegins, Keeps, Returning, control, calls
  <2>2. Pending("encode")
    <3>1. deferred \in Seq(Deferrable) /\ Len(deferred) \in Nat BY DEF StackInv
    <3>2. Len(deferred) # 0 /\ deferred[Len(deferred)] = "encode" BY <2>1, <3>1 DEF Last
    <3>3. Len(deferred) \in 1 .. Len(deferred) BY <3>1, <3>2
    <3> QED BY <3>2, <3>3 DEF Pending, In
  <2>3. opts.har BY <2>2, <1>0, PendingAt
  <2>4. \A x : Pending(x)' <=> Pending(x) BY <2>1, KeepsEffect
  <2>5. Len(entries) \in Nat BY DEF CallsInv
  <2>6. \A c \in Calls : at[c] \in {"received", "printed"} => \E i \in 1 .. Len(entries) : entries[i] = c
    BY <2>3 DEF CallsInv, In
  <2> QED BY <1>1, <2>1, <2>2, <2>3, <2>4, <2>5, <2>6 DEF HarInv
<1>5. CASE EncodeEnds
  <2>1. Unwind("encode") /\ taken >= 0 /\ UNCHANGED <<entries, taken, at>>
    BY <1>5 DEF EncodeEnds, calls
  <2>2. Returning /\ Pending("close") /\ Pending("encode") /\ ~Pending("encode")' /\ Pending("close")'
    BY <2>1, UnwindEffect
  <2>3. Len(entries) \in Nat BY DEF CallsInv
  <2>4. file \in {"none", "open"} BY <2>2 DEF HarInv
  <2>5. CASE /\ UNCHANGED <<code, file>>
             /\ written' \in IF file = "open" THEN taken .. Len(entries) ELSE {written}
    <3>1. written' \in -1 .. Len(entries) BY <2>1, <2>3, <2>5 DEF HarInv
    <3>2. file = "open" => written' >= taken BY <2>1, <2>3, <2>5 DEF HarInv
    <3>3. file' = file BY <2>5
    <3> QED BY <1>1, <2>1, <2>2, <2>4, <3>1, <3>2, <3>3 DEF HarInv
  <2>6. CASE file = "open" /\ file' = "broken" /\ UNCHANGED <<code, written>>
    BY <1>1, <2>1, <2>2, <2>6 DEF HarInv
  <2>7. CASE code' = "crash" /\ UNCHANGED <<file, written>>
    BY <1>1, <2>1, <2>2, <2>4, <2>7 DEF HarInv
  <2> QED BY <1>5, <2>5, <2>6, <2>7 DEF EncodeEnds
<1>6. CASE CloseHar
  <2>1. /\ Unwind("close") /\ code = "running" /\ code' = code /\ UNCHANGED <<entries, taken, written, at>>
        /\ file' = IF file = "open" THEN "closed" ELSE file
    BY <1>6 DEF CloseHar, Unwind, Alive, calls
  <2>2. /\ Returning /\ ~Pending("close")' /\ ~Pending("encode") /\ ~Pending("encode")'
    BY <2>1, UnwindEffect
  <2>3. /\ file' # "none" => file # "none"
        /\ file' \notin {"none", "broken"} => file \notin {"none", "broken"}
        /\ file' \in {"none", "open", "closed", "broken"}
    BY <2>1 DEF HarInv
  <2> QED BY <1>1, <2>1, <2>2, <2>3 DEF HarInv
<1>7. ASSUME NEW c \in Calls, Trip(c) PROVE HarInv'
  <2>1. /\ Keeps /\ at' = [at EXCEPT ![c] = "tripped"] /\ UNCHANGED <<code, taken, file, written>>
        /\ entries' = IF opts.har THEN Append(entries, c) ELSE entries
    BY <1>7 DEF Trip, Progress, Logged, control, Keeps, Returning
  <2>2. (\A x : Done(x)' <=> Done(x)) /\ (\A x : Pending(x)' <=> Pending(x)) BY <2>1, KeepsEffect
  <2>3. /\ Len(entries) \in Nat /\ Len(entries') \in Nat /\ Len(entries) <= Len(entries')
        /\ \A i \in 1 .. Len(entries) : entries'[i] = entries[i]
    BY <2>1 DEF CallsInv
  <2>4. taken \in -1 .. Len(entries)' /\ written \in -1 .. Len(entries)' BY <2>3 DEF HarInv
  <2>5. \A x \in Calls : at'[x] \in {"received", "printed"} => at[x] \in {"received", "printed"}
    BY <2>1 DEF CallsInv
  <2>6. taken >= 0 => \A x \in Calls : at'[x] \in {"received", "printed"} => \E i \in 1 .. taken : entries'[i] = x
    BY <2>3, <2>5 DEF HarInv
  <2> QED BY <1>1, <2>1, <2>2, <2>4, <2>6 DEF HarInv
<1>8. ASSUME NEW c \in Calls, Ask(c) \/ Relay(c) \/ Show(c) PROVE HarInv'
  <2>1. Keeps /\ UNCHANGED <<code, entries, taken, file, written>>
    BY <1>8 DEF Ask, Relay, Show, control, har, Keeps, Returning
  <2>2. (\A x : Done(x)' <=> Done(x)) /\ (\A x : Pending(x)' <=> Pending(x)) BY <2>1, KeepsEffect
  <2>3. taken >= 0 =>
          \A x \in Calls : at'[x] \in {"received", "printed"} => at[x] \in {"received", "printed"}
    <3>1. CASE Ask(c) BY <3>1 DEF Ask, Progress, CallsInv
    <3>2. CASE Show(c) BY <3>2 DEF Show, Progress, CallsInv
    <3>3. CASE Relay(c)
      <4>1. at[c] = "tripped" BY <3>3 DEF Relay, Progress
      <4>2. taken >= 0 => sub # "running" BY <4>1 DEF HarInv, CallsInv, ChildInv
      <4> QED BY <3>3, <4>2 DEF Relay, Progress, CallsInv
    <3> QED BY <1>8, <3>1, <3>2, <3>3
  <2>4. taken >= 0 => \A x \in Calls : at'[x] \in {"received", "printed"} => \E i \in 1 .. taken : entries[i] = x
    BY <2>3 DEF HarInv
  <2> QED BY <1>1, <2>1, <2>2, <2>4 DEF HarInv
<1>9. CASE Certificates \/ Lock \/ Network \/ SwitchUser \/ Services \/ Launch \/ Mount
  <2>1. UNCHANGED <<taken, written, file, entries, at, code>> /\ \E s : s # "har" /\ Advance(s)
    <3>1. CASE Mount
      <4>1. Advance(Plan[step]) /\ Mounting(step) /\ UNCHANGED <<taken, written, file, entries, at>>
        BY <3>1 DEF Mount, har, calls
      <4>2. step \in 1 .. Len(Plan) BY <4>1, AdvanceEffect
      <4>3. Place[Plan[step]] \in 7 .. 14 BY <4>1, <4>2, <1>0, MountingIs
      <4>4. Plan[step] # "har" BY <4>3 DEF Place
      <4> QED BY <4>1, <4>4 DEF Advance
    <3> QED BY <1>9, <3>1 DEF Certificates, Lock, Network, SwitchUser, Services, Launch, Advance, har, calls
  <2> QED BY <2>1, <1>2, AdvanceEffect
<1>10. CASE RemoveMount \/ Unlock \/ RemoveCerts
  <2>1. /\ UNCHANGED <<taken, written, file, entries, at, code>>
        /\ \E d : d \notin {"close", "encode"} /\ Unwind(d)
    BY <1>10 DEF RemoveMount, Unlock, RemoveCerts, har, calls
  <2> QED BY <2>1, <1>2, UnwindEffect
<1>11. CASE \/ Reexec \/ Fail \/ Wait \/ Exit \/ OuterExits \/ Migrate \/ SubprocessExits \/ Interrupt
            \/ WebFails \/ UNCHANGED vars
  <2>1. /\ Keeps /\ UNCHANGED <<taken, written, file, entries, at>>
        /\ code = "crash" => code' = "crash"
    BY <1>11 DEF Reexec, Fail, Return, Wait, Exit, OuterExits, SubprocessExits, Interrupt, Migrate,
                 WebFails, Alive, Keeps, Returning, vars, control, har, calls
  <2> QED BY <2>1, <1>2, KeepsEffect
<1> QED BY <1>3, <1>4, <1>5, <1>6, <1>7, <1>8, <1>9, <1>10, <1>11 DEF Next, Setup, Unwinding

-----------------------------------------------------------------------------
(* The invariant. *)

LEMMA InitLife == Init => LifeInv
<1> SUFFICES ASSUME Init PROVE LifeInv OBVIOUS
<1>0. OptionsType BY OptionsTyped DEF Init
<1>1. /\ opts \in Options /\ phase \in {"reexec", "setup"} /\ outer = "absent" /\ code = "running"
      /\ step = 1 /\ failed = "none" /\ deferred = <<>> /\ on = (CHOOSE t \in Threads : TRUE)
      /\ locked = FALSE /\ net = [t \in Threads |-> "host"] /\ space = [t \in Threads |-> "host"]
      /\ device = "none" /\ certs = "none" /\ uid = "root"
      /\ sub = "none" /\ home = [net |-> "host", space |-> "host"]
      /\ at = [c \in Calls |-> "idle"] /\ dialed = [c \in Calls |-> "none"]
      /\ entries = <<>> /\ taken = -1 /\ file = "none" /\ written = -1
      /\ tmpdir = {} /\ mounted = <<>> /\ spilled = {}
  BY DEF Init, MountInit
<1>2. ~Returning BY <1>1 DEF Returning
<1>3. (\A x : ~Done(x)) /\ ~MountBegun /\ ~MountDone BY <1>1 DEF Done, MountBegun, MountDone
<1>4. \A x : ~Pending(x) BY <1>1 DEF Pending, In
<1>5. \A x : ~In(x, mounted) BY <1>1 DEF In
<1>6. StepInv
  <2>1. Len(Plan) \in Nat \ {0} BY <1>0, PlanTyped
  <2> QED BY <1>1, <1>2, <1>3, <2>1 DEF StepInv
<1>7. StackInv
  <2>1. Depth = 0 BY <1>3 DEF Depth, One
  <2>2. Len(AllDeferred) \in Nat BY <1>0, DeferredAre
  <2> QED BY <1>1, <2>1, <2>2 DEF StackInv
<1>8. ThreadInv
  <2>1. on \in Threads BY <1>1, ThreadsAssumption
  <2>2. \A t \in Threads : ~Out(t) BY <1>1 DEF Out
  <2> QED BY <1>1, <1>2, <1>3, <1>4, <2>1, <2>2 DEF ThreadInv, Spaces
<1>9. FilesInv BY <1>1, <1>2, <1>3, <1>5 DEF FilesInv
<1>10. CertsInv BY <1>1, <1>2, <1>3 DEF CertsInv
<1>11. ChildInv BY <1>1, <1>2, <1>3 DEF ChildInv, Spaces
<1>12. EndInv BY <1>1 DEF EndInv
<1>13. CallsInv BY <1>1 DEF CallsInv
<1>14. HarInv BY <1>1 DEF HarInv
<1> QED BY <1>6, <1>7, <1>8, <1>9, <1>10, <1>11, <1>12, <1>13, <1>14 DEF LifeInv

LEMMA NextLife == LifeInv /\ [Next]_vars => LifeInv'
<1> SUFFICES ASSUME LifeInv, [Next]_vars PROVE LifeInv' OBVIOUS
<1>1. /\ StepInv /\ StackInv /\ ThreadInv /\ FilesInv /\ CertsInv /\ ChildInv /\ EndInv /\ CallsInv /\ HarInv
  BY DEF LifeInv
<1>2. StepInv' BY <1>1, NextMoves, StepInvStep
<1>3. StackInv' BY <1>1, NextMoves, StackInvStep
<1>4. ThreadInv' BY <1>1, ThreadInvStep
<1>5. FilesInv' BY <1>1, FilesInvStep
<1>6. CertsInv' BY <1>1, CertsInvStep
<1>7. ChildInv' BY <1>1, ChildInvStep
<1>8. EndInv' BY <1>1, EndInvStep
<1>9. CallsInv' BY <1>1, CallsInvStep
<1>10. HarInv' BY <1>1, HarInvStep
<1> QED BY <1>2, <1>3, <1>4, <1>5, <1>6, <1>7, <1>8, <1>9, <1>10 DEF LifeInv

LEMMA AlwaysLife == Spec => []LifeInv
BY InitLife, NextLife, PTL DEF Spec

-----------------------------------------------------------------------------
(* What follows from it. *)

LEMMA TypeFromLife == LifeInv => TypeOK
<1> SUFFICES ASSUME LifeInv PROVE TypeOK OBVIOUS
<1>1. StepInv /\ StackInv /\ ThreadInv /\ FilesInv /\ CertsInv /\ ChildInv /\ EndInv /\ CallsInv /\ HarInv
  BY DEF LifeInv
<1>2. OptionsType BY <1>1, OptionsTyped DEF StepInv
<1>3. IsPrefix(deferred, AllDeferred)
  <2> DEFINE n == Len(deferred)
  <2>1. /\ deferred \in Seq(Deferrable) /\ n \in Nat /\ n <= Len(AllDeferred) /\ AllDeferred \in Seq(Deferrable)
        /\ \A i \in 1 .. n : deferred[i] = AllDeferred[i]
    BY <1>1, <1>2, DeferredAre DEF StackInv
  <2>2. \A i \in 1 .. n : deferred[i] \in Deferrable /\ AllDeferred[i] \in Deferrable BY <2>1
  <2>3. SubSeq(deferred, 1, n) = SubSeq(AllDeferred, 1, n)
    <3> DEFINE a == SubSeq(deferred, 1, n)
               b == SubSeq(AllDeferred, 1, n)
    <3>0. n \in Int /\ 1 \in Int BY <2>1
    <3> HIDE DEF n
    <3>1. /\ a \in Seq(Deferrable) /\ Len(a) = (IF 1 <= n THEN n - 1 + 1 ELSE 0)
          /\ \A i \in 1 .. n - 1 + 1 : a[i] = deferred[1 + i - 1]
      BY <3>0, <2>2, SubSeqProperties
    <3>2. /\ b \in Seq(Deferrable) /\ Len(b) = (IF 1 <= n THEN n - 1 + 1 ELSE 0)
          /\ \A i \in 1 .. n - 1 + 1 : b[i] = AllDeferred[1 + i - 1]
      BY <3>0, <2>2, SubSeqProperties
    <3> HIDE DEF a, b
    <3>3. Len(a) = n /\ Len(b) = n /\ \A i \in 1 .. n : a[i] = deferred[i] /\ b[i] = AllDeferred[i]
      BY <2>1, <3>1, <3>2
    <3>4. Len(a) = Len(b) /\ \A i \in 1 .. Len(a) : a[i] = b[i] BY <2>1, <3>3
    <3>5. a = b BY <3>1, <3>2, <3>4, SeqEqual
    <3> QED BY <3>5 DEF a, b
  <2> QED BY <2>1, <2>3 DEF IsPrefix
<1>4. ASSUME phase # "unwinding", NEW i \in 1 .. step - 1 PROVE ToSet(DeferredBy(i)) \subseteq ToSet(deferred)
  <2>1. i \in 1 .. Len(Plan)
    <3>1. Len(Plan) \in Nat /\ step \in 1 .. Len(Plan) + 1 BY <1>1, <1>2, PlanTyped DEF StepInv
    <3> QED BY <3>1
  <2>2. Done(Plan[i]) /\ (LastMount(i) => MountDone) BY DEF Done, MountDone
  <2>3. /\ Plan[i] = "tempdir" => Pending("removeCerts")
        /\ Plan[i] = "lock" => Pending("unlock")
        /\ LastMount(i) => Pending("remove")
        /\ Plan[i] = "har" => Pending("close") /\ Pending("encode")
    BY <1>1, <1>2, <1>4, <2>2, PendingIs DEF Returning
  <2>4. \A x : Pending(x) => x \in ToSet(deferred) BY <1>1, InToSet DEF StackInv, Pending
  <2>5. \A x : ToSet(<<x>>) = {x} BY DEF ToSet
  <2>6. ToSet(<<"close", "encode">>) = {"close", "encode"} BY DEF ToSet
  <2>7. ToSet(<<>>) = {} BY DEF ToSet
  <2> QED BY <1>2, <2>1, <2>3, <2>4, <2>5, <2>6, <2>7, DeferredByIs
<1>5. {taken, written} \subseteq -1 .. Len(entries) BY <1>1 DEF HarInv
<1>6. /\ step \in 1 .. Len(Plan) + 1 /\ (phase = "waiting" => step = Len(Plan) + 1)
      /\ opts \in Options /\ phase \in {"reexec", "setup", "waiting", "unwinding"}
  BY <1>1 DEF StepInv
<1> QED BY <1>1, <1>3, <1>4, <1>5, <1>6 DEF TypeOK, ThreadInv, CertsInv, ChildInv, EndInv, CallsInv, HarInv

LEMMA ServedFromLife == LifeInv => Served
<1> SUFFICES ASSUME LifeInv, sub = "running", phase \in {"setup", "waiting"}
             PROVE  /\ MountSteps # <<>> => home.space = "private" /\ mounted # <<>> /\ Backed
                    /\ opts.program = "httptap" => home.net = "own" /\ device = "own" /\ certs = "full"
  BY DEF Served
<1>1. StepInv /\ ThreadInv /\ FilesInv /\ CertsInv /\ ChildInv BY DEF LifeInv
<1>2. OptionsType BY <1>1, OptionsTyped DEF StepInv
<1>3. ~Returning /\ Done("launch") /\ step \in 1 .. Len(Plan) + 1
  BY <1>1 DEF Returning, ChildInv, StepInv
<1>4. \A x : Wanted(x) /\ Place[x] < Place["launch"] => Done(x) BY <1>2, <1>3, DoneBefore
<1>5. ASSUME MountSteps # <<>> PROVE home.space = "private" /\ mounted # <<>> /\ Backed
  <2>1. Lays BY <1>2, <1>5, MountStepsAre
  <2>2. home.space = "private" BY <1>1, <2>1 DEF ChildInv
  <2>3. \A x : x \in ToSet(mounted) <=> In(x, mounted) BY <1>1, InToSet DEF FilesInv
  <2>4. /\ Overlays => Wanted("mountOverlay") /\ Wanted("mkdirs") /\ Wanted("bake")
        /\ Binds => Wanted("bind")
    BY <1>2, MountStepsAre DEF Wanted
  <2>5. /\ Place["mountOverlay"] < Place["launch"] /\ Place["mkdirs"] < Place["launch"]
        /\ Place["bake"] < Place["launch"] /\ Place["bind"] < Place["launch"]
    BY DEF Place
  <2>6. /\ Overlays => Done("mountOverlay") /\ Done("mkdirs") /\ Done("bake")
        /\ Binds => Done("bind")
    BY <1>4, <2>4, <2>5
  <2>7. /\ Overlays => In("mountOverlay", mounted) /\ {"layer", "work", "baked"} \subseteq tmpdir
        /\ Binds => In("bind", mounted)
    BY <1>1, <1>3, <2>6 DEF FilesInv
  <2>8. mounted # <<>> BY <2>1, <2>7 DEF Lays, In
  <2>9. Backed BY <1>1, <2>3, <2>7 DEF Backed, FilesInv
  <2> QED BY <2>2, <2>8, <2>9
<1>6. ASSUME opts.program = "httptap" PROVE home.net = "own" /\ device = "own" /\ certs = "full"
  <2>1. Httptap BY <1>6 DEF Httptap
  <2>2. Wanted("device") /\ Wanted("certs") BY <2>1 DEF Wanted
  <2>3. Place["device"] < Place["launch"] /\ Place["certs"] < Place["launch"] BY DEF Place
  <2>4. Done("device") /\ Done("certs") BY <1>4, <2>2, <2>3
  <2> QED BY <1>1, <1>3, <2>1, <2>4 DEF ThreadInv, CertsInv, ChildInv
<1> QED BY <1>5, <1>6

LEMMA HostFromLife == LifeInv => HostUntouched /\ DialsFromHost
<1> SUFFICES ASSUME LifeInv PROVE HostUntouched /\ DialsFromHost OBVIOUS
<1>1. StackInv /\ ThreadInv /\ FilesInv /\ CallsInv BY DEF LifeInv
<1>2. spilled = {} BY <1>1 DEF FilesInv
<1>3. \A t \in Threads : space[t] # "host" \/ net[t] # "host" =>
        \A u \in Threads \ {t} : space[u] = "host" /\ net[u] = "host"
  BY <1>1 DEF ThreadInv, Out
<1>4. "bind" \in ToSet(mounted) => "file" \in tmpdir
  <2>1. \A x : x \in ToSet(mounted) <=> In(x, mounted) BY <1>1, InToSet DEF FilesInv
  <2> QED BY <1>1, <2>1 DEF FilesInv
<1>5. DialsFromHost
  <2>1. \A x : x \in ToSet(deferred) <=> Pending(x) BY <1>1, InToSet DEF StackInv, Pending
  <2> QED BY <1>1, <2>1 DEF DialsFromHost, CallsInv, ThreadInv, Returning
<1> QED BY <1>2, <1>3, <1>4, <1>5 DEF HostUntouched

LEMMA NothingLeftFromLife == LifeInv => NothingLeft
<1> SUFFICES ASSUME LifeInv, phase = "unwinding", deferred = <<>>
             PROVE  /\ certs = "none" \/ uid = "other"
                    /\ \/ tmpdir = {} \/ uid = "other" \/ failed \in MountCalls
                       \/ {"pivotRoot", "bind"} \cap ToSet(mounted) # {}
                    /\ sub = "running" => failed = "stack"
  BY DEF NothingLeft
<1>1. FilesInv /\ CertsInv /\ ChildInv BY DEF LifeInv
<1>2. Returning /\ \A x : ~Pending(x) BY DEF Returning, Pending, In
<1>3. \A x : x \in ToSet(mounted) <=> In(x, mounted) BY <1>1, InToSet DEF FilesInv
<1>4. certs = "none" \/ uid = "other" BY <1>1, <1>2 DEF CertsInv
<1>5. tmpdir # {} => failed \in MountCalls \/ uid = "other" \/ In("pivotRoot", mounted) \/ In("bind", mounted)
  BY <1>1, <1>2 DEF FilesInv
<1>6. sub = "running" => failed = "stack" BY <1>1, <1>2 DEF ChildInv
<1> QED BY <1>3, <1>4, <1>5, <1>6

LEMMA HarFromLife == LifeInv => HarHasReceived
<1> SUFFICES ASSUME LifeInv, phase = "unwinding", deferred = <<>>, file \notin {"none", "broken"}, code # "crash",
                    NEW c \in Calls, at[c] \in {"received", "printed"}
             PROVE  c \in ToSet(SubSeq(entries, 1, written))
  BY DEF HarHasReceived
<1>1. HarInv /\ CallsInv BY DEF LifeInv
<1>2. ~Pending("encode") BY DEF Pending, In
<1>3. taken >= 0 /\ written >= taken /\ taken \in Int /\ written \in Int /\ written <= Len(entries)
  BY <1>1, <1>2 DEF HarInv, CallsInv
<1>4. PICK i \in 1 .. taken : entries[i] = c BY <1>1, <1>3 DEF HarInv
<1>5. i \in 1 .. written BY <1>3
<1> DEFINE s == SubSeq(entries, 1, written)
<1>6. entries \in Seq(Calls) /\ \A j \in 1 .. written : entries[j] \in Calls BY <1>1, <1>3 DEF CallsInv
<1>7. /\ s \in Seq(Calls) /\ Len(s) = (IF 1 <= written THEN written - 1 + 1 ELSE 0)
      /\ \A j \in 1 .. written - 1 + 1 : s[j] = entries[1 + j - 1]
  BY <1>3, <1>6, SubSeqProperties
<1> HIDE DEF s
<1>8. i \in 1 .. Len(s) /\ s[i] = c BY <1>3, <1>4, <1>5, <1>7
<1>9. c \in ToSet(s) BY <1>7, <1>8, InToSet DEF In
<1> QED BY <1>9 DEF s

LEMMA ExitFromLife == LifeInv => ExitTellsTheOutcome
<1> SUFFICES ASSUME LifeInv PROVE ExitTellsTheOutcome OBVIOUS
<1>1. StepInv /\ ChildInv /\ EndInv BY DEF LifeInv
<1>2. code = "ok" => sub = "ok" /\ failed = "none" BY <1>1 DEF EndInv, ChildInv
<1>3. phase = "reexec" => sub = "none"
  <2>1. phase = "reexec" => ~Returning /\ ~Done("launch") BY <1>1 DEF StepInv, Returning, Done
  <2> QED BY <1>1, <2>1 DEF ChildInv
<1>4. code = "error" /\ ~opts.web => sub # "ok" \/ failed # "none" BY <1>1, <1>3 DEF EndInv
<1>5. (outer = "ok" => code = "ok") /\ (outer = "error" => code = "error") BY <1>1 DEF EndInv
<1> QED BY <1>2, <1>4, <1>5 DEF ExitTellsTheOutcome

-----------------------------------------------------------------------------
(* Main's state is what its setup and its deferred calls make it: what is  *)
(* still to be called is the beginning of what httptap.go:257-656 defers,  *)
(* with all that the steps done have deferred until Main returns.          *)
THEOREM TypeCorrect == Spec => []TypeOK
BY AlwaysLife, TypeFromLife, PTL

(* The subprocess that httptap.go:559-626 starts is, while Main waits for  *)
(* it, in the namespaces prepared for it, with the files, the device and   *)
(* the certificates in place, whatever failed and whichever options.       *)
THEOREM CommandIsServed == Spec => []Served
BY AlwaysLife, ServedFromLife, PTL

(* Mounts stay in the process's own namespace, and one thread alone leaves *)
(* the host's namespaces (overlay.go:81-90, bindfiles.go:41-54,            *)
(* httptap.go:284-288), for every number of threads.                       *)
THEOREM HostIsUntouched == Spec => []HostUntouched
<1>1. LifeInv => HostUntouched BY HostFromLife
<1> QED BY AlwaysLife, <1>1, PTL

(* No handler dials from within the tun device's namespace before Main has *)
(* unlocked its thread on the way out: httptap.go:285, 621.                *)
THEOREM HandlersDialFromTheHost == Spec => []DialsFromHost
<1>1. LifeInv => DialsFromHost BY HostFromLife
<1> QED BY AlwaysLife, <1>1, PTL

(* What Main leaves behind when it returns, at whichever step it does:     *)
(* httptap.go:257, 412, 685-823.                                           *)
THEOREM LeavesNothing == Spec => []NothingLeft
BY AlwaysLife, NothingLeftFromLife, PTL

(* Once Main has returned, a HAR file that could be created and written    *)
(* has every call that the subprocess had an answer to, for every number   *)
(* of calls that go on while the deferred encoder runs; one that could not *)
(* is left empty or cut short without a word: httptap.go:630-655,          *)
(* round_tripper.go:66-71.                                                 *)
THEOREM HarIsComplete == Spec => []HarHasReceived
BY AlwaysLife, HarFromLife, PTL

(* Exit code 0 means that the command had it, and an error that it did     *)
(* not: httptap.go:235-241, 825-845.                                       *)
THEOREM ExitTells == Spec => []ExitTellsTheOutcome
BY AlwaysLife, ExitFromLife, PTL
=============================================================================
