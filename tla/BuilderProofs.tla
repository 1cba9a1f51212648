--------------------------- MODULE BuilderProofs ---------------------------
(***************************************************************************)
(* What the programs on the developer's machine keep, for any number of    *)
(* processes, commits, edits, faults and power losses.  The programs share *)
(* nothing, so a theorem about one of them rests on the inductive          *)
(* invariant of its own module, and on OwnSteps: while part names it,      *)
(* every step is one of its steps.                                         *)
(***************************************************************************)
EXTENDS MCBuilders, FiniteSetTheorems, SequenceTheorems, TLAPS

LEMMA OwnSteps ==
    ASSUME [Next]_mcVars
    PROVE  /\ part' = part
           /\ part = "toolchain" => [Toolchain!Next]_(Toolchain!vars)
           /\ part = "cache" => [Cache!TreeNext]_(Cache!treeAllVars)
           /\ part = "audit" => [Audit!AuditNext]_(Audit!auditVars)
           /\ part = "bundle" => [Bundle!BundleNext]_(Bundle!bundleVars)
           /\ part = "package" => [Package!CanonNext]_(Package!canonVars)
           /\ part = "release" => [Release!ReleaseNext]_(Release!releaseVars)
           /\ part = "p1" => [P1!CandidateNext]_(P1!candidateVars)
           /\ part = "promotion" => [Promotion!BuildNext]_(Promotion!buildVars)
           /\ part = "one-shot" => [OneShot!OneShotNext]_(OneShot!oneShotVars)
           /\ part = "usb" => [Usb!UsbNext]_(Usb!usbVars)
           /\ part = "install" => [Install!InstallNext]_(Install!installVars)
           /\ part = "p3" => [P3!P3Next]_(P3!p3Vars)
<1>1. CASE UNCHANGED mcVars
  BY <1>1 DEF mcVars, Toolchain!vars, Toolchain!gitVars, Toolchain!cacheVars,
     Toolchain!releaseVars, Cache!treeAllVars, Cache!treeVars, Cache!jobVars,
     Audit!auditVars, Bundle!bundleVars, Bundle!repoVars, Package!canonVars,
     Package!scanVars, Package!walkVars, Release!releaseVars, P1!candidateVars,
     Promotion!buildVars, OneShot!oneShotVars, Usb!usbVars, Install!installVars, P3!p3Vars
<1>2. CASE Next
  BY <1>2 DEF Next, ToolchainStep, CacheStep, AuditStep, BundleStep, PackageStep,
     ReleaseStep, P1Step, PromotionStep, OneShotStep, UsbStep, InstallStep, P3Step
<1> QED
  BY <1>1, <1>2

(* Counting is the same in every module. *)
LEMMA CountsAlike ==
    /\ \A S : Package!IsFiniteSet(S) <=> IsFiniteSet(S)
    /\ \A S : Package!Cardinality(S) = Cardinality(S)
    /\ \A S : Install!Cardinality(S) = Cardinality(S)
BY Zenon DEF Package!IsFiniteSet, IsFiniteSet, Package!Cardinality, Install!Cardinality,
             Cardinality

-----------------------------------------------------------------------------
(* The card toolchain.  One process at a time is under the lock of the cache, and a *)
(* step of another one takes nothing from it; a generation is published with its    *)
(* source and its receipt before CURRENT names it.                                  *)
LEMMA OneRoot ==
    Nil \notin Builders /\ \A p, q \in Builders : RootOf[p] \in CacheRoots /\ RootOf[p] = RootOf[q]
BY NilAssumption DEF RootOf, CacheRoots

LEMMA ToolBegins ==
    ASSUME Toolchain!Init PROVE Toolchain!ToolInv
<1> DEFINE proc == x13
<1>1. \A p \in Builders : proc[p] = Toolchain!Idle
  BY DEF Toolchain!Init
<1>2. Toolchain!Typed
  BY <1>1 DEF Toolchain!Typed, Toolchain!Init
<1>3. Toolchain!Stored
  BY DEF Toolchain!Stored, Toolchain!Init
<1>4. \A p \in Builders : Toolchain!JobHolds(p)
  BY <1>1, OneRoot DEF Toolchain!JobHolds, Toolchain!Idle, Toolchain!UnderLock,
     Toolchain!Holds, Toolchain!CacheRoot, Toolchain!Init
<1> QED BY <1>2, <1>3, <1>4 DEF Toolchain!ToolInv

(* Only one process is under the lock, and none when it is free. *)
LEMMA ToolAlone ==
    ASSUME Toolchain!ToolInv, NEW p \in Builders, NEW q \in Builders \ {p},
           x13[q].pc \in Toolchain!UnderLock
    PROVE  x5[Toolchain!CacheRoot(p)] = q /\ x13[p].pc \notin Toolchain!UnderLock /\ q # Nil
BY OneRoot DEF Toolchain!ToolInv, Toolchain!JobHolds, Toolchain!Holds, Toolchain!CacheRoot

(* A step of one process keeps the invariant when it leaves a peer that is under *)
(* the lock its lock, its work directory and what it has published.              *)
LEMMA ToolPeers ==
    ASSUME Toolchain!ToolInv, NEW p \in Builders, Toolchain!Typed', Toolchain!Stored',
           Toolchain!JobHolds(p)', x12' >= x12,
           \A q \in Builders \ {p} : x13'[q] = x13[q],
           \A q \in Builders \ {p} : x13[q].pc \in Toolchain!UnderLock =>
             /\ q \in x6[Toolchain!CacheRoot(q)] => q \in x6'[Toolchain!CacheRoot(q)]
             /\ UNCHANGED <<x7, x10, x9, x11>>,
           \A q \in Builders \ {p} : Toolchain!Holds(q)' <=> Toolchain!Holds(q)
    PROVE  Toolchain!ToolInv'
<1> DEFINE proc == x13
<1> SUFFICES ASSUME NEW q \in Builders \ {p} PROVE Toolchain!JobHolds(q)'
  BY DEF Toolchain!ToolInv
<1>1. Toolchain!JobHolds(q) /\ Toolchain!Typed
  BY DEF Toolchain!ToolInv
<1>2. CASE proc[q].pc \in Toolchain!UnderLock
  <2>1. \A g : Toolchain!TrueBinary(g) => Toolchain!TrueBinary(g)'
    BY <1>1 DEF Toolchain!TrueBinary, Toolchain!Typed
  <2>2. \A g : Toolchain!Named(g)' <=> Toolchain!Named(g)
    BY <1>2 DEF Toolchain!Named
  <2> QED BY <1>1, <1>2, <2>1, <2>2 DEF Toolchain!JobHolds, Toolchain!CacheRoot
<1>3. CASE proc[q].pc \notin Toolchain!UnderLock
  BY <1>1, <1>3 DEF Toolchain!JobHolds, Toolchain!UnderLock
<1> QED BY <1>2, <1>3

(* Before the lock is taken, and when it is given up, a process knows nothing. *)
LEMMA ToolOutside ==
    ASSUME Toolchain!ToolInv, NEW p \in Builders,
           \/ \E cmd \in {"build", "clean", "validate"} : Toolchain!Start(p, cmd)
           \/ Toolchain!PrepareCache(p) \/ Toolchain!WriteMarker(p) \/ Toolchain!ReadCurrent(p)
           \/ Toolchain!CheckCurrent(p)
           \/ Toolchain!Unwind(p) \/ Toolchain!Clean(p) \/ Toolchain!Published(p)
           \/ Toolchain!Kill(p)
    PROVE  Toolchain!ToolInv'
<1> DEFINE marker == x3  home == x4  lock == x5  works == x6  builds == x7  damaged == x8
           current == x9  syncedBuilds == x10  syncedCurrent == x11  staged == x12
           proc == x13
<1>0. Toolchain!Typed /\ Toolchain!Stored /\ Toolchain!JobHolds(p)
      /\ Toolchain!CacheRoot(p) \in CacheRoots
  BY OneRoot DEF Toolchain!ToolInv, Toolchain!CacheRoot
<1>1. /\ UNCHANGED <<builds, damaged, current, syncedBuilds, syncedCurrent, staged>>
      /\ DOMAIN proc' = Builders /\ \A q \in Builders \ {p} : proc'[q] = proc[q]
      /\ proc'[p].pc \in {"idle", "prepare", "mark", "wait", "read", "check"}
      /\ DOMAIN proc'[p] = DOMAIN Toolchain!Idle
  <2>1. CASE \E cmd \in {"build", "clean", "validate"} : Toolchain!Start(p, cmd)
    BY <1>0, <2>1 DEF Toolchain!Start, Toolchain!Typed, Toolchain!Idle, Toolchain!releaseVars
  <2>2. CASE Toolchain!PrepareCache(p) \/ Toolchain!WriteMarker(p)
    BY <1>0, <2>2 DEF Toolchain!PrepareCache, Toolchain!WriteMarker, Toolchain!Answer,
       Toolchain!Goto, Toolchain!Typed, Toolchain!Idle, Toolchain!releaseVars
  <2>3. CASE Toolchain!ReadCurrent(p) \/ Toolchain!CheckCurrent(p)
    <3>1. \/ Toolchain!Answer(p, "failed") \/ Toolchain!Answer(p, "verified")
          \/ proc' = [proc EXCEPT ![p] = [proc[p] EXCEPT !.pc = "check", !.gen = current]]
      BY <1>0, <2>3 DEF Toolchain!ReadCurrent, Toolchain!CheckCurrent, Toolchain!Typed
    <3> QED
      BY <1>0, <2>3, <3>1
      DEF Toolchain!ReadCurrent, Toolchain!CheckCurrent, Toolchain!Answer, Toolchain!Typed,
          Toolchain!Idle, Toolchain!releaseVars
  <2>4. CASE Toolchain!Unwind(p) \/ Toolchain!Clean(p) \/ Toolchain!Published(p)
             \/ Toolchain!Kill(p)
    BY <1>0, <2>4 DEF Toolchain!Unwind, Toolchain!Clean, Toolchain!Published, Toolchain!Kill,
       Toolchain!Leave, Toolchain!Answer, Toolchain!Typed, Toolchain!Idle, Toolchain!releaseVars
  <2> QED BY <2>1, <2>2, <2>3, <2>4
<1>2. {DOMAIN home', DOMAIN lock', DOMAIN works', DOMAIN marker'} = {CacheRoots}
  BY <1>0 DEF Toolchain!Start, Toolchain!PrepareCache, Toolchain!WriteMarker,
     Toolchain!ReadCurrent, Toolchain!CheckCurrent, Toolchain!Unwind, Toolchain!Clean,
     Toolchain!Published,
     Toolchain!Kill, Toolchain!Leave, Toolchain!Typed, Toolchain!cacheVars
<1>3. Toolchain!Typed' /\ Toolchain!Stored' /\ Toolchain!JobHolds(p)'
  <2>1. Toolchain!Typed'
    BY <1>0, <1>1, <1>2 DEF Toolchain!Typed, Toolchain!Idle
  <2>2. Toolchain!Stored'
    BY <1>0, <1>1 DEF Toolchain!Stored, Toolchain!TrueBinary
  <2>3. ~Toolchain!Holds(p)'
    <3>1. CASE Toolchain!Unwind(p) \/ Toolchain!Clean(p) \/ Toolchain!Published(p)
               \/ Toolchain!Kill(p)
      BY <1>0, <3>1, OneRoot DEF Toolchain!Unwind, Toolchain!Clean, Toolchain!Published,
         Toolchain!Kill, Toolchain!Leave, Toolchain!Holds, Toolchain!CacheRoot, Toolchain!Typed
    <3>2. CASE ~(Toolchain!Unwind(p) \/ Toolchain!Clean(p) \/ Toolchain!Published(p)
                 \/ Toolchain!Kill(p))
      <4>1. lock' = lock /\ proc[p].pc \notin Toolchain!UnderLock
        BY <3>2 DEF Toolchain!Start, Toolchain!PrepareCache, Toolchain!WriteMarker,
           Toolchain!ReadCurrent, Toolchain!CheckCurrent, Toolchain!At, Toolchain!UnderLock
      <4> QED BY <1>0, <4>1 DEF Toolchain!JobHolds, Toolchain!Holds, Toolchain!CacheRoot
    <3> QED BY <3>1, <3>2
  <2>4. Toolchain!JobHolds(p)'
    BY <1>1, <2>3 DEF Toolchain!JobHolds, Toolchain!UnderLock
  <2> QED BY <2>1, <2>2, <2>4
<1>4. ASSUME NEW q \in Builders \ {p}, proc[q].pc \in Toolchain!UnderLock
      PROVE  q \in works[Toolchain!CacheRoot(q)] => q \in works'[Toolchain!CacheRoot(q)]
  <2>1. lock[Toolchain!CacheRoot(p)] = q /\ q # p /\ proc[p].pc \notin Toolchain!UnderLock
        /\ Toolchain!CacheRoot(q) = Toolchain!CacheRoot(p)
    BY <1>4, ToolAlone, OneRoot DEF Toolchain!CacheRoot
  <2>2. CASE Toolchain!Unwind(p) \/ Toolchain!Clean(p) \/ Toolchain!Published(p)
    BY <2>1, <2>2 DEF Toolchain!Unwind, Toolchain!Clean, Toolchain!Published, Toolchain!Holds,
       Toolchain!At, Toolchain!UnderLock
  <2>3. CASE Toolchain!Kill(p)
    BY <1>0, <2>1, <2>3 DEF Toolchain!Kill
  <2> QED
    BY <2>2, <2>3 DEF Toolchain!Start, Toolchain!PrepareCache, Toolchain!WriteMarker,
       Toolchain!ReadCurrent, Toolchain!CheckCurrent, Toolchain!cacheVars
<1>5. ASSUME NEW q \in Builders \ {p} PROVE Toolchain!Holds(q)' <=> Toolchain!Holds(q)
  <2>1. Toolchain!CacheRoot(q) = Toolchain!CacheRoot(p) /\ q # Nil /\ q # p
    BY OneRoot DEF Toolchain!CacheRoot
  <2>2. CASE Toolchain!Kill(p)
    BY <1>0, <2>1, <2>2 DEF Toolchain!Kill, Toolchain!Holds, Toolchain!CacheRoot
  <2>3. CASE Toolchain!Unwind(p) \/ Toolchain!Clean(p) \/ Toolchain!Published(p)
    <3>1. Toolchain!Holds(p)
      BY <1>0, <2>3 DEF Toolchain!Unwind, Toolchain!Clean, Toolchain!Published, Toolchain!At,
         Toolchain!JobHolds, Toolchain!UnderLock
    <3>2. lock'[Toolchain!CacheRoot(p)] = Nil
      BY <1>0, <2>3 DEF Toolchain!Unwind, Toolchain!Clean, Toolchain!Published,
         Toolchain!Leave, Toolchain!Typed
    <3> QED BY <2>1, <3>1, <3>2 DEF Toolchain!Holds, Toolchain!CacheRoot
  <2>4. CASE lock' = lock
    BY <2>4 DEF Toolchain!Holds, Toolchain!CacheRoot
  <2> QED
    BY <2>2, <2>3, <2>4 DEF Toolchain!Start, Toolchain!PrepareCache, Toolchain!WriteMarker,
       Toolchain!ReadCurrent, Toolchain!CheckCurrent
<1> QED
  BY <1>0, <1>1, <1>3, <1>4, <1>5, ToolPeers DEF Toolchain!Typed

LEMMA ToolLocks ==
    ASSUME Toolchain!ToolInv, NEW p \in Builders, Toolchain!LockOrGiveUp(p)
    PROVE  Toolchain!ToolInv'
<1> DEFINE marker == x3  home == x4  lock == x5  works == x6  builds == x7  damaged == x8
           current == x9  syncedBuilds == x10  syncedCurrent == x11  staged == x12
           proc == x13
<1>0. Toolchain!Typed /\ Toolchain!Stored /\ Toolchain!JobHolds(p)
      /\ Toolchain!CacheRoot(p) \in CacheRoots
  BY OneRoot DEF Toolchain!ToolInv, Toolchain!CacheRoot
<1>1. /\ UNCHANGED <<home, works, marker, builds, damaged, current, syncedBuilds,
              syncedCurrent, staged>>
      /\ DOMAIN proc' = Builders /\ \A q \in Builders \ {p} : proc'[q] = proc[q]
      /\ DOMAIN lock' = CacheRoots
      /\ DOMAIN proc'[p] = DOMAIN Toolchain!Idle
  BY <1>0 DEF Toolchain!LockOrGiveUp, Toolchain!Answer, Toolchain!Goto, Toolchain!Typed,
     Toolchain!Idle, Toolchain!releaseVars, Toolchain!cacheVars
<1>2. proc'[p].pc = "idle" \/ (proc'[p].pc = "locked" /\ lock'[Toolchain!CacheRoot(p)] = p)
  BY <1>0 DEF Toolchain!LockOrGiveUp, Toolchain!Answer, Toolchain!Goto, Toolchain!Typed,
     Toolchain!Idle
<1>3. Toolchain!Typed' /\ Toolchain!Stored' /\ Toolchain!JobHolds(p)'
  <2>1. Toolchain!Typed'
    BY <1>0, <1>1 DEF Toolchain!Typed, Toolchain!Idle
  <2>2. Toolchain!Stored'
    BY <1>0, <1>1 DEF Toolchain!Stored, Toolchain!TrueBinary
  <2>3. proc'[p].pc = "idle" => lock' = lock /\ proc[p].pc = "wait"
    BY <1>0, <1>1 DEF Toolchain!LockOrGiveUp, Toolchain!Goto, Toolchain!Typed, Toolchain!Idle
  <2>4. Toolchain!JobHolds(p)'
    BY <1>0, <1>2, <2>3 DEF Toolchain!JobHolds, Toolchain!UnderLock, Toolchain!Holds,
       Toolchain!CacheRoot
  <2> QED BY <2>1, <2>2, <2>4
<1>4. ASSUME NEW q \in Builders \ {p} PROVE Toolchain!Holds(q)' <=> Toolchain!Holds(q)
  <2>1. Toolchain!CacheRoot(q) = Toolchain!CacheRoot(p) /\ q # Nil /\ q # p
    BY OneRoot DEF Toolchain!CacheRoot
  <2>2. lock' = lock
        \/ (lock[Toolchain!CacheRoot(p)] = Nil /\ lock'[Toolchain!CacheRoot(p)] = p)
    BY <1>0 DEF Toolchain!LockOrGiveUp, Toolchain!Typed
  <2> QED BY <2>1, <2>2 DEF Toolchain!Holds, Toolchain!CacheRoot
<1> QED
  BY <1>0, <1>1, <1>3, <1>4, ToolPeers DEF Toolchain!Typed

(* A step under the lock has no peer to disturb. *)
LEMMA ToolUnder ==
    ASSUME Toolchain!ToolInv, NEW p \in Builders, Toolchain!Typed', Toolchain!Stored',
           Toolchain!JobHolds(p)', x12' >= x12,
           \A q \in Builders \ {p} : x13'[q] = x13[q], x13[p].pc \in Toolchain!UnderLock,
           x5'[Toolchain!CacheRoot(p)] \in {p, Nil}
    PROVE  Toolchain!ToolInv'
<1> DEFINE lock == x5
<1>1. \A q \in Builders \ {p} : Toolchain!CacheRoot(q) = Toolchain!CacheRoot(p)
      /\ q \notin {p, Nil}
  BY OneRoot DEF Toolchain!CacheRoot
<1>2. lock[Toolchain!CacheRoot(p)] = p
  BY DEF Toolchain!ToolInv, Toolchain!JobHolds, Toolchain!Holds
<1>3. \A q \in Builders \ {p} : Toolchain!Holds(q)' <=> Toolchain!Holds(q)
  BY <1>1, <1>2 DEF Toolchain!Holds, Toolchain!CacheRoot
<1> QED
  BY <1>3, ToolAlone, ToolPeers

(* The steps that prepare a build: nothing is published yet. *)
LEMMA ToolPrepares ==
    ASSUME Toolchain!ToolInv, NEW p \in Builders,
           \/ Toolchain!StartWork(p) \/ Toolchain!PinHead(p) \/ Toolchain!PinClean(p)
           \/ Toolchain!CaptureSnapshot(p)
           \/ Toolchain!PruneList(p) \/ Toolchain!PruneSweep(p) \/ Toolchain!RunGates(p)
    PROVE  Toolchain!ToolInv'
<1> DEFINE marker == x3  home == x4  lock == x5  works == x6  builds == x7  damaged == x8
           current == x9  syncedBuilds == x10  syncedCurrent == x11  staged == x12
           proc == x13
<1>0. Toolchain!Typed /\ Toolchain!Stored /\ Toolchain!JobHolds(p)
      /\ Toolchain!CacheRoot(p) \in CacheRoots
  BY OneRoot DEF Toolchain!ToolInv, Toolchain!CacheRoot
<1>1. /\ UNCHANGED <<lock, marker, builds, damaged, current, syncedBuilds, syncedCurrent,
              staged>>
      /\ DOMAIN proc' = Builders /\ \A q \in Builders \ {p} : proc'[q] = proc[q]
      /\ DOMAIN works' = CacheRoots /\ DOMAIN home' = CacheRoots
      /\ DOMAIN proc'[p] = DOMAIN Toolchain!Idle
      /\ proc'[p].pc \in {"pin", "clean?", "capture", "prune", "sweep", "gates", "compile"}
      /\ proc'[p].cmd = proc[p].cmd
      /\ proc[p].pc \in Toolchain!UnderLock
  BY <1>0
  DEF Toolchain!StartWork, Toolchain!PinHead, Toolchain!PinClean, Toolchain!CaptureSnapshot,
      Toolchain!PruneList, Toolchain!PruneSweep, Toolchain!RunGates, Toolchain!At,
      Toolchain!Goto, Toolchain!Typed, Toolchain!Idle, Toolchain!releaseVars,
      Toolchain!cacheVars, Toolchain!UnderLock
<1>2. proc[p].cmd = "build" /\ p \in works'[Toolchain!CacheRoot(p)]
  <2>1. CASE Toolchain!StartWork(p)
    BY <1>0, <2>1 DEF Toolchain!StartWork, Toolchain!At, Toolchain!Typed
  <2>2. CASE ~Toolchain!StartWork(p)
    <3>1. proc[p].pc \in Toolchain!UnderLock \ {"locked"} /\ works' = works
      BY <1>1, <2>2 DEF Toolchain!PinHead, Toolchain!PinClean, Toolchain!CaptureSnapshot,
         Toolchain!PruneList, Toolchain!PruneSweep, Toolchain!RunGates, Toolchain!cacheVars
    <3> QED BY <1>0, <3>1 DEF Toolchain!JobHolds
  <2> QED BY <2>1, <2>2
<1>3. proc'[p].pc = "sweep" => "config" \notin proc'[p].doomed
  BY <1>0 DEF Toolchain!StartWork, Toolchain!PinHead, Toolchain!PinClean,
     Toolchain!CaptureSnapshot, Toolchain!PruneList, Toolchain!PruneSweep, Toolchain!RunGates,
     Toolchain!Goto,
     Toolchain!Typed, Toolchain!Idle
<1>4. Toolchain!Typed' /\ Toolchain!Stored' /\ Toolchain!JobHolds(p)'
  <2>1. Toolchain!Typed'
    BY <1>0, <1>1 DEF Toolchain!Typed, Toolchain!Idle
  <2>2. Toolchain!Stored'
    BY <1>0, <1>1 DEF Toolchain!Stored, Toolchain!TrueBinary
  <2>3. Toolchain!Holds(p)'
    BY <1>0, <1>1 DEF Toolchain!JobHolds, Toolchain!Holds, Toolchain!CacheRoot
  <2>4. Toolchain!JobHolds(p)'
    BY <1>1, <1>2, <1>3, <2>3 DEF Toolchain!JobHolds, Toolchain!UnderLock, Toolchain!CacheRoot
  <2> QED BY <2>1, <2>2, <2>4
<1> QED
  BY <1>0, <1>1, <1>4, ToolUnder DEF Toolchain!Typed, Toolchain!JobHolds, Toolchain!Holds,
     Toolchain!CacheRoot

(* A generation that was just compiled has a number that no other has. *)
LEMMA ToolCompiles ==
    ASSUME Toolchain!ToolInv, NEW p \in Builders, Toolchain!CompileAndRecheck(p)
    PROVE  Toolchain!ToolInv'
<1> DEFINE marker == x3  home == x4  lock == x5  works == x6  builds == x7  damaged == x8
           current == x9  syncedBuilds == x10  syncedCurrent == x11  staged == x12
           proc == x13
<1>0. Toolchain!Typed /\ Toolchain!Stored /\ Toolchain!JobHolds(p)
      /\ Toolchain!CacheRoot(p) \in CacheRoots
  BY OneRoot DEF Toolchain!ToolInv, Toolchain!CacheRoot
<1>a. PICK new : new = [n |-> staged + 1, commit |-> proc[p].pin, binary |-> proc[p].source]
  OBVIOUS
<1>1. /\ UNCHANGED <<home, works, lock, marker, builds, damaged, current, syncedBuilds,
              syncedCurrent>>
      /\ staged' = staged + 1 /\ staged \in Nat
      /\ DOMAIN proc' = Builders /\ \A q \in Builders \ {p} : proc'[q] = proc[q]
      /\ DOMAIN proc'[p] = DOMAIN Toolchain!Idle
      /\ proc'[p].pc = "rename" /\ proc'[p].gen = new /\ proc'[p].cmd = proc[p].cmd
      /\ proc[p].pc = "compile"
  BY <1>0, <1>a DEF Toolchain!CompileAndRecheck, Toolchain!Typed, Toolchain!Idle,
     Toolchain!cacheVars
<1>2. new.binary = new.commit /\ new.n = staged + 1
  BY <1>a DEF Toolchain!CompileAndRecheck, Toolchain!SnapshotIntact
<1>3. \A g \in builds : g.n # staged + 1
  BY <1>0, <1>1 DEF Toolchain!Stored, Toolchain!TrueBinary
<1>4. new # Nil => ~Toolchain!Named(new)
  BY <1>0, <1>2, <1>3 DEF Toolchain!Named, Toolchain!Stored
<1>5. Toolchain!TrueBinary(new)' /\ (new # Nil => ~Toolchain!Named(new)')
  BY <1>1, <1>2, <1>4 DEF Toolchain!TrueBinary, Toolchain!Named
<1>6. Toolchain!Typed'
  BY <1>0, <1>1 DEF Toolchain!Typed, Toolchain!Idle
<1>7. Toolchain!Stored'
  BY <1>0, <1>1 DEF Toolchain!Stored, Toolchain!TrueBinary
<1>8. Toolchain!JobHolds(p)'
  BY <1>0, <1>1, <1>5 DEF Toolchain!JobHolds, Toolchain!Holds, Toolchain!CacheRoot,
     Toolchain!UnderLock
<1> QED
  BY <1>0, <1>1, <1>6, <1>7, <1>8, ToolUnder DEF Toolchain!UnderLock, Toolchain!JobHolds,
     Toolchain!Holds, Toolchain!CacheRoot

(* Publication: the generation comes before CURRENT, and CURRENT before the *)
(* others are removed.                                                      *)
LEMMA ToolPublishes ==
    ASSUME Toolchain!ToolInv, NEW p \in Builders,
           \/ Toolchain!RenameGeneration(p) \/ Toolchain!SyncBuilds(p)
           \/ Toolchain!VerifyGeneration(p) \/ Toolchain!SwapCurrent(p)
           \/ Toolchain!SyncCurrent(p) \/ Toolchain!ConfirmRelease(p) \/ Toolchain!RemoveOld(p)
    PROVE  Toolchain!ToolInv'
<1> DEFINE marker == x3  home == x4  lock == x5  works == x6  builds == x7  damaged == x8
           current == x9  syncedBuilds == x10  syncedCurrent == x11  staged == x12
           proc == x13
<1>0. Toolchain!Typed /\ Toolchain!Stored /\ Toolchain!JobHolds(p)
      /\ Toolchain!CacheRoot(p) \in CacheRoots
  BY OneRoot DEF Toolchain!ToolInv, Toolchain!CacheRoot
<1>1. /\ UNCHANGED <<home, works, lock, marker, damaged, staged>>
      /\ DOMAIN proc' = Builders /\ \A q \in Builders \ {p} : proc'[q] = proc[q]
      /\ DOMAIN proc'[p] = DOMAIN Toolchain!Idle
      /\ proc'[p].cmd = proc[p].cmd /\ proc'[p].gen = proc[p].gen
      /\ proc'[p].pc \in Toolchain!UnderLock \ {"locked", "sweep"}
      /\ proc[p].pc \in Toolchain!UnderLock \ {"locked"}
  BY <1>0
  DEF Toolchain!RenameGeneration, Toolchain!SyncBuilds, Toolchain!VerifyGeneration,
      Toolchain!SwapCurrent, Toolchain!SyncCurrent, Toolchain!ConfirmRelease,
      Toolchain!RemoveOld, Toolchain!Goto, Toolchain!Typed, Toolchain!Idle,
      Toolchain!cacheVars, Toolchain!releaseVars, Toolchain!UnderLock
<1>2. Toolchain!Typed'
  BY <1>0, <1>1 DEF Toolchain!Typed, Toolchain!Idle
<1>3. Toolchain!Holds(p)' /\ proc'[p].cmd = "build" /\ p \in works'[Toolchain!CacheRoot(p)]
  BY <1>0, <1>1 DEF Toolchain!JobHolds, Toolchain!Holds, Toolchain!CacheRoot
<1>4. \A g : Toolchain!TrueBinary(g)' <=> Toolchain!TrueBinary(g)
  BY <1>1 DEF Toolchain!TrueBinary
<1>5. CASE Toolchain!RenameGeneration(p)
  <2>1. /\ builds' = builds \cup {proc[p].gen} /\ UNCHANGED <<current, syncedBuilds,
                syncedCurrent>>
        /\ proc[p].pc = "rename" /\ proc'[p].pc = "sync"
    BY <1>0, <1>5 DEF Toolchain!RenameGeneration, Toolchain!Goto, Toolchain!Typed,
       Toolchain!Idle
  <2>2. Toolchain!TrueBinary(proc[p].gen)
        /\ (proc[p].gen # Nil => ~Toolchain!Named(proc[p].gen))
    BY <1>0, <2>1 DEF Toolchain!JobHolds
  <2>3. Toolchain!Stored'
    BY <1>0, <1>4, <2>1, <2>2 DEF Toolchain!Stored
  <2>4. Toolchain!JobHolds(p)'
    BY <1>1, <1>3, <1>4, <2>1, <2>2 DEF Toolchain!JobHolds, Toolchain!Named,
       Toolchain!UnderLock, Toolchain!CacheRoot
  <2> QED
    BY <1>1, <1>2, <2>3, <2>4, ToolUnder
    DEF Toolchain!Typed, Toolchain!JobHolds, Toolchain!Holds, Toolchain!CacheRoot
<1>6. CASE Toolchain!SyncBuilds(p) \/ Toolchain!VerifyGeneration(p)
  <2>1. /\ syncedBuilds' = (IF proc[p].pc = "sync" THEN builds ELSE syncedBuilds)
        /\ UNCHANGED <<current, builds, syncedCurrent>>
        /\ \/ proc[p].pc = "sync" /\ proc'[p].pc = "verify"
           \/ proc[p].pc = "verify" /\ proc'[p].pc = "swap"
    BY <1>0, <1>6 DEF Toolchain!SyncBuilds, Toolchain!VerifyGeneration, Toolchain!Goto,
       Toolchain!Typed, Toolchain!Idle, Toolchain!releaseVars
  <2>2. Toolchain!Stored'
    BY <1>0, <1>4, <2>1 DEF Toolchain!Stored
  <2>3. Toolchain!JobHolds(p)'
    BY <1>0, <1>1, <1>3, <1>4, <2>1 DEF Toolchain!JobHolds, Toolchain!Named,
       Toolchain!UnderLock, Toolchain!CacheRoot
  <2> QED
    BY <1>1, <1>2, <2>2, <2>3, ToolUnder
    DEF Toolchain!Typed, Toolchain!JobHolds, Toolchain!Holds, Toolchain!CacheRoot
<1>7. CASE Toolchain!SwapCurrent(p) \/ Toolchain!SyncCurrent(p)
  <2>1. /\ UNCHANGED <<builds, syncedBuilds>>
        /\ \/ /\ proc[p].pc = "swap" /\ proc'[p].pc = "confirm"
              /\ current' = proc[p].gen /\ syncedCurrent' = syncedCurrent
           \/ /\ proc[p].pc = "confirm" /\ proc'[p].pc = "resolve"
              /\ syncedCurrent' = current /\ current' = current
    BY <1>0, <1>7 DEF Toolchain!SwapCurrent, Toolchain!SyncCurrent, Toolchain!Goto,
       Toolchain!Typed, Toolchain!Idle
  <2>2. proc[p].gen \in builds \cap syncedBuilds
        /\ (proc[p].pc = "confirm" => current = proc[p].gen)
    BY <1>0, <2>1 DEF Toolchain!JobHolds
  <2>3. Toolchain!Stored'
    BY <1>0, <1>4, <2>1, <2>2 DEF Toolchain!Stored
  <2>4. Toolchain!JobHolds(p)'
    BY <1>1, <1>3, <2>1, <2>2 DEF Toolchain!JobHolds, Toolchain!UnderLock, Toolchain!CacheRoot
  <2> QED
    BY <1>1, <1>2, <2>3, <2>4, ToolUnder
    DEF Toolchain!Typed, Toolchain!JobHolds, Toolchain!Holds, Toolchain!CacheRoot
<1>8. CASE Toolchain!ConfirmRelease(p)
  <2>1. /\ UNCHANGED <<builds, syncedBuilds, current, syncedCurrent>>
        /\ proc[p].pc = "resolve" /\ proc'[p].pc = "remove"
        /\ proc[p].gen \notin proc'[p].doomed
    BY <1>0, <1>8 DEF Toolchain!ConfirmRelease, Toolchain!Typed, Toolchain!Idle,
       Toolchain!releaseVars
  <2>2. Toolchain!Stored'
    BY <1>0, <1>4, <2>1 DEF Toolchain!Stored
  <2>3. Toolchain!JobHolds(p)'
    BY <1>0, <1>1, <1>3, <2>1 DEF Toolchain!JobHolds, Toolchain!UnderLock, Toolchain!CacheRoot
  <2> QED
    BY <1>1, <1>2, <2>2, <2>3, ToolUnder
    DEF Toolchain!Typed, Toolchain!JobHolds, Toolchain!Holds, Toolchain!CacheRoot
<1>9. CASE Toolchain!RemoveOld(p)
  <2>1. PICK g \in proc[p].doomed : /\ builds' = builds \ {g}
                                    /\ proc' = [proc EXCEPT ![p].doomed = @ \ {g}]
    BY <1>9 DEF Toolchain!RemoveOld
  <2>2. /\ UNCHANGED <<syncedBuilds, current, syncedCurrent>>
        /\ proc[p].pc = "remove" /\ proc'[p].pc = "remove"
        /\ proc'[p].doomed = proc[p].doomed \ {g}
    BY <1>0, <1>9, <2>1 DEF Toolchain!RemoveOld, Toolchain!Typed, Toolchain!Idle
  <2>3. g # proc[p].gen /\ current = proc[p].gen /\ syncedCurrent = proc[p].gen
    BY <1>0, <2>1, <2>2 DEF Toolchain!JobHolds
  <2>4. Toolchain!Stored'
    BY <1>0, <1>4, <2>1, <2>2, <2>3 DEF Toolchain!Stored
  <2>5. Toolchain!JobHolds(p)'
    BY <1>0, <1>1, <1>3, <2>1, <2>2, <2>3 DEF Toolchain!JobHolds, Toolchain!UnderLock,
       Toolchain!CacheRoot
  <2> QED
    BY <1>1, <1>2, <2>4, <2>5, ToolUnder
    DEF Toolchain!Typed, Toolchain!JobHolds, Toolchain!Holds, Toolchain!CacheRoot
<1> QED BY <1>5, <1>6, <1>7, <1>8, <1>9

(* A swap that failed takes back a generation that nothing names. *)
LEMMA ToolSwapFails ==
    ASSUME Toolchain!ToolInv, NEW p \in Builders, Toolchain!SwapFails(p)
    PROVE  Toolchain!ToolInv'
<1> DEFINE marker == x3  home == x4  lock == x5  works == x6  builds == x7  damaged == x8
           current == x9  syncedBuilds == x10  syncedCurrent == x11  staged == x12
           proc == x13
<1>0. Toolchain!Typed /\ Toolchain!Stored /\ Toolchain!JobHolds(p)
      /\ Toolchain!CacheRoot(p) \in CacheRoots
  BY OneRoot DEF Toolchain!ToolInv, Toolchain!CacheRoot
<1>1. /\ UNCHANGED <<home, marker, damaged, current, syncedBuilds, syncedCurrent, staged>>
      /\ DOMAIN proc' = Builders /\ \A q \in Builders \ {p} : proc'[q] = proc[q]
      /\ DOMAIN proc'[p] = DOMAIN Toolchain!Idle /\ DOMAIN works' = CacheRoots
      /\ DOMAIN lock' = CacheRoots
      /\ proc'[p].pc = "idle" /\ proc[p].pc = "swap"
      /\ builds' = builds \/ builds' = builds \ {proc[p].gen}
  BY <1>0 DEF Toolchain!SwapFails, Toolchain!Leave, Toolchain!Answer, Toolchain!Typed,
     Toolchain!Idle
<1>2. Toolchain!Typed'
  BY <1>0, <1>1 DEF Toolchain!Typed, Toolchain!Idle
<1>3. proc[p].gen # Nil => proc[p].gen \notin {current, syncedCurrent}
  BY <1>0, <1>1 DEF Toolchain!JobHolds, Toolchain!Named
<1>4. Toolchain!Stored'
  BY <1>0, <1>1, <1>3 DEF Toolchain!Stored, Toolchain!TrueBinary
<1>5. lock'[Toolchain!CacheRoot(p)] = Nil /\ Nil # p
  BY <1>0, OneRoot DEF Toolchain!SwapFails, Toolchain!Leave, Toolchain!Typed,
     Toolchain!CacheRoot
<1>6. Toolchain!JobHolds(p)'
  BY <1>1, <1>5 DEF Toolchain!JobHolds, Toolchain!UnderLock, Toolchain!Holds,
     Toolchain!CacheRoot
<1>7. staged' >= staged /\ proc[p].pc \in Toolchain!UnderLock
  BY <1>0, <1>1 DEF Toolchain!Typed, Toolchain!UnderLock
<1> QED
  BY <1>1, <1>2, <1>4, <1>5, <1>6, <1>7, ToolUnder

(* What the developer, a cargo run by hand and a power loss may do. *)
LEMMA ToolWorld ==
    ASSUME Toolchain!ToolInv, Toolchain!Develop \/ Toolchain!Damage \/ Toolchain!PowerLoss
           \/ \E c \in CacheRoots : Toolchain!DirectCargo(c)
    PROVE  Toolchain!ToolInv'
<1> DEFINE marker == x3  home == x4  lock == x5  works == x6  builds == x7  current == x9
           syncedBuilds == x10  syncedCurrent == x11  staged == x12  proc == x13
<1>0. Toolchain!Typed /\ Toolchain!Stored
  BY DEF Toolchain!ToolInv
<1>1. CASE Toolchain!PowerLoss
  <2>1. /\ \A p \in Builders : proc'[p] = Toolchain!Idle
        /\ DOMAIN proc' = Builders /\ DOMAIN lock' = CacheRoots
        /\ UNCHANGED <<marker, home, staged>> /\ DOMAIN works' = CacheRoots
        /\ builds' \subseteq builds \cup syncedBuilds
        /\ builds \cap syncedBuilds \subseteq builds'
        /\ syncedBuilds' = builds' /\ current' \in {current, syncedCurrent}
        /\ syncedCurrent' = current'
    BY <1>1 DEF Toolchain!PowerLoss, Toolchain!cacheVars
  <2>2. Toolchain!Typed'
    BY <1>0, <2>1 DEF Toolchain!Typed
  <2>3. Toolchain!Stored'
    BY <1>0, <2>1 DEF Toolchain!Stored, Toolchain!TrueBinary
  <2>4. \A p \in Builders : lock'[Toolchain!CacheRoot(p)] = Nil /\ Nil # p
    BY <1>1, OneRoot DEF Toolchain!PowerLoss, Toolchain!CacheRoot
  <2>5. \A p \in Builders : Toolchain!JobHolds(p)'
    BY <2>1, <2>4 DEF Toolchain!JobHolds, Toolchain!Idle, Toolchain!UnderLock, Toolchain!Holds,
       Toolchain!CacheRoot
  <2> QED BY <2>2, <2>3, <2>5 DEF Toolchain!ToolInv
<1>2. CASE Toolchain!Develop \/ Toolchain!Damage
           \/ \E c \in CacheRoots : Toolchain!DirectCargo(c)
  <2>1. /\ UNCHANGED <<proc, lock, marker, works, staged, builds, current, syncedBuilds,
                syncedCurrent>>
        /\ DOMAIN home' = CacheRoots
    BY <1>0, <1>2 DEF Toolchain!Develop, Toolchain!Damage, Toolchain!DirectCargo,
       Toolchain!cacheVars, Toolchain!releaseVars, Toolchain!Typed
  <2>2. Toolchain!Typed'
    BY <1>0, <2>1 DEF Toolchain!Typed
  <2>3. Toolchain!Stored'
    BY <1>0, <2>1 DEF Toolchain!Stored, Toolchain!TrueBinary
  <2>4. \A p \in Builders : Toolchain!JobHolds(p)'
    BY <2>1 DEF Toolchain!ToolInv, Toolchain!JobHolds, Toolchain!Holds, Toolchain!CacheRoot,
       Toolchain!TrueBinary, Toolchain!Named
  <2> QED BY <2>2, <2>3, <2>4 DEF Toolchain!ToolInv
<1> QED BY <1>1, <1>2

LEMMA ToolStepHolds ==
    ASSUME Toolchain!ToolInv, [Toolchain!Next]_(Toolchain!vars)
    PROVE  Toolchain!ToolInv'
<1>1. CASE UNCHANGED Toolchain!vars
  BY <1>1 DEF Toolchain!vars, Toolchain!gitVars, Toolchain!cacheVars, Toolchain!releaseVars,
     Toolchain!ToolInv, Toolchain!Typed, Toolchain!Stored, Toolchain!JobHolds,
     Toolchain!TrueBinary,
     Toolchain!Named, Toolchain!Holds, Toolchain!CacheRoot
<1>2. ASSUME NEW p \in Builders, Toolchain!Driver(p) PROVE Toolchain!ToolInv'
  BY <1>2, ToolOutside, ToolLocks, ToolPrepares, ToolCompiles, ToolPublishes, ToolSwapFails
     DEF Toolchain!Driver
<1> QED BY <1>1, <1>2, ToolWorld DEF Toolchain!Next

LEMMA ToolIsKept ==
    ASSUME Toolchain!ToolInv PROVE Toolchain!CurrentResolves /\ Toolchain!CurrentIsItsSource
           /\ Toolchain!PeerWorkKept
<1> DEFINE works == x6  proc == x13
<1>1. Toolchain!CurrentResolves /\ Toolchain!CurrentIsItsSource
  BY DEF Toolchain!ToolInv, Toolchain!Stored, Toolchain!CurrentResolves,
     Toolchain!CurrentIsItsSource, Toolchain!TrueBinary
<1>2. Toolchain!PeerWorkKept
  <2> SUFFICES ASSUME NEW p \in Builders, Toolchain!Holds(p), proc[p].cmd = "build",
      proc[p].pc # "locked"
               PROVE  p \in works[Toolchain!CacheRoot(p)]
    BY DEF Toolchain!PeerWorkKept
  <2> QED BY DEF Toolchain!ToolInv, Toolchain!JobHolds
<1> QED BY <1>1, <1>2

(* PASS is only answered once CURRENT and its generation are on the disk. *)
LEMMA ToolPasses ==
    ASSUME Toolchain!ToolInv,
           [Toolchain!Next]_(Toolchain!vars) PROVE Toolchain!PublishedIsDurable
<1> DEFINE builds == x7  syncedBuilds == x10  syncedCurrent == x11  proc == x13
<1> SUFFICES ASSUME NEW p \in Builders, proc'[p].told = "published", proc[p].told # "published"
             PROVE  syncedCurrent = proc[p].gen /\ proc[p].gen \in builds \cap syncedBuilds
  BY DEF Toolchain!PublishedIsDurable
<1>0. Toolchain!Typed /\ Toolchain!JobHolds(p)
  BY DEF Toolchain!ToolInv
<1>1. CASE Toolchain!Published(p)
  BY <1>0, <1>1 DEF Toolchain!Published, Toolchain!JobHolds
<1>2. ASSUME NEW q \in Builders, Toolchain!Driver(q), ~Toolchain!Published(p) PROVE FALSE
  <2>1. DOMAIN proc = Builders /\ DOMAIN proc[p] = DOMAIN Toolchain!Idle
        /\ Toolchain!Idle.told = "failed"
    BY <1>0 DEF Toolchain!Typed, Toolchain!Idle
  <2>2. proc'[p] = proc[p] \/ q = p
    BY <1>2, <2>1
    DEF Toolchain!Driver, Toolchain!Start, Toolchain!PrepareCache, Toolchain!WriteMarker,
        Toolchain!LockOrGiveUp, Toolchain!Unwind, Toolchain!Clean, Toolchain!ReadCurrent,
        Toolchain!CheckCurrent, Toolchain!StartWork, Toolchain!PinHead, Toolchain!PinClean,
        Toolchain!CaptureSnapshot, Toolchain!PruneList, Toolchain!PruneSweep,
        Toolchain!RunGates, Toolchain!CompileAndRecheck, Toolchain!RenameGeneration,
        Toolchain!SyncBuilds, Toolchain!VerifyGeneration, Toolchain!SwapCurrent,
        Toolchain!SwapFails, Toolchain!SyncCurrent, Toolchain!ConfirmRelease,
        Toolchain!RemoveOld, Toolchain!Published, Toolchain!Kill, Toolchain!Goto,
        Toolchain!Answer, Toolchain!Leave
  <2>3. Toolchain!Driver(p) /\ ~Toolchain!Published(p)
    BY <1>2, <2>2
  <2>4. CASE \/ \E cmd \in {"build", "clean", "validate"} : Toolchain!Start(p, cmd)
             \/ Toolchain!PrepareCache(p) \/ Toolchain!WriteMarker(p)
             \/ Toolchain!LockOrGiveUp(p)
    BY ZenonT(40), <2>1, <2>4 DEF Toolchain!Start, Toolchain!PrepareCache, Toolchain!WriteMarker,
       Toolchain!LockOrGiveUp, Toolchain!Goto, Toolchain!Answer, Toolchain!Idle
  <2>5. CASE Toolchain!Unwind(p) \/ Toolchain!Clean(p) \/ Toolchain!SwapFails(p)
             \/ Toolchain!Kill(p) \/ Toolchain!CheckCurrent(p) \/ Toolchain!ReadCurrent(p)
    BY <2>1, <2>5 DEF Toolchain!Unwind, Toolchain!Clean, Toolchain!SwapFails, Toolchain!Kill,
       Toolchain!CheckCurrent, Toolchain!ReadCurrent, Toolchain!Leave, Toolchain!Answer,
       Toolchain!Idle
  <2>6. CASE \/ Toolchain!StartWork(p) \/ Toolchain!PinHead(p) \/ Toolchain!PinClean(p)
             \/ Toolchain!CaptureSnapshot(p) \/ Toolchain!PruneList(p)
             \/ Toolchain!PruneSweep(p) \/ Toolchain!RunGates(p)
             \/ Toolchain!CompileAndRecheck(p)
    BY <2>1, <2>6 DEF Toolchain!StartWork, Toolchain!PinHead, Toolchain!PinClean,
       Toolchain!CaptureSnapshot, Toolchain!PruneList, Toolchain!PruneSweep, Toolchain!RunGates,
       Toolchain!CompileAndRecheck, Toolchain!Goto, Toolchain!Idle
  <2>7. CASE \/ Toolchain!RenameGeneration(p) \/ Toolchain!SyncBuilds(p)
             \/ Toolchain!VerifyGeneration(p) \/ Toolchain!SwapCurrent(p)
             \/ Toolchain!SyncCurrent(p) \/ Toolchain!ConfirmRelease(p)
             \/ Toolchain!RemoveOld(p)
    BY <2>1, <2>7 DEF Toolchain!RenameGeneration, Toolchain!SyncBuilds,
       Toolchain!VerifyGeneration, Toolchain!SwapCurrent, Toolchain!SyncCurrent,
       Toolchain!ConfirmRelease, Toolchain!RemoveOld, Toolchain!Goto, Toolchain!Idle
  <2> QED BY <2>3, <2>4, <2>5, <2>6, <2>7 DEF Toolchain!Driver
<1>3. CASE Toolchain!Develop \/ Toolchain!Damage \/ Toolchain!PowerLoss
           \/ (\E c \in CacheRoots : Toolchain!DirectCargo(c)) \/ UNCHANGED Toolchain!vars
  BY <1>0, <1>3 DEF Toolchain!Develop, Toolchain!Damage, Toolchain!PowerLoss,
     Toolchain!DirectCargo, Toolchain!vars, Toolchain!Idle
<1> QED BY <1>1, <1>2, <1>3 DEF Toolchain!Next

(* A sweep takes what was listed when no configuration was there. *)
LEMMA ToolKeepsConfig ==
    ASSUME Toolchain!ToolInv, [Toolchain!Next]_(Toolchain!vars) PROVE Toolchain!ConfigKept
<1> DEFINE home == x4
<1> SUFFICES ASSUME NEW c \in CacheRoots, "config" \in home[c], "config" \notin home'[c]
             PROVE  home'[c] = {} /\ \E p \in Builders : Toolchain!At(p, "clean", "locked")
  BY DEF Toolchain!ConfigKept
<1>0. DOMAIN home = CacheRoots /\ home' # home
  BY DEF Toolchain!ToolInv, Toolchain!Typed
<1>1. CASE \E p \in Builders : Toolchain!Clean(p)
  BY <1>0, <1>1 DEF Toolchain!Clean
<1>2. ASSUME NEW p \in Builders, Toolchain!PruneSweep(p) PROVE FALSE
  BY <1>0, <1>2 DEF Toolchain!PruneSweep, Toolchain!ToolInv, Toolchain!JobHolds
<1>3. CASE \E d \in CacheRoots : Toolchain!DirectCargo(d)
  BY <1>0, <1>3 DEF Toolchain!DirectCargo
<1>4. ASSUME NEW p \in Builders, Toolchain!Driver(p)
      PROVE  Toolchain!Clean(p) \/ Toolchain!PruneSweep(p)
  BY <1>0, <1>4
  DEF Toolchain!Driver, Toolchain!Start, Toolchain!PrepareCache, Toolchain!WriteMarker,
      Toolchain!LockOrGiveUp, Toolchain!Unwind, Toolchain!ReadCurrent, Toolchain!CheckCurrent,
      Toolchain!StartWork, Toolchain!PinHead, Toolchain!PinClean, Toolchain!CaptureSnapshot,
      Toolchain!PruneList, Toolchain!RunGates, Toolchain!CompileAndRecheck,
      Toolchain!RenameGeneration, Toolchain!SyncBuilds, Toolchain!VerifyGeneration,
      Toolchain!SwapCurrent, Toolchain!SwapFails, Toolchain!SyncCurrent,
      Toolchain!ConfirmRelease, Toolchain!RemoveOld, Toolchain!Published, Toolchain!Kill,
      Toolchain!cacheVars
<1> QED
  BY <1>0, <1>1, <1>2, <1>3, <1>4 DEF Toolchain!Next, Toolchain!Develop, Toolchain!Damage,
     Toolchain!PowerLoss, Toolchain!vars, Toolchain!cacheVars

ToolchainPart == part = "toolchain" => Toolchain!ToolInv

(* However many processes build, are killed and start again, although HEAD moves,   *)
(* the gates write and the power goes: CURRENT names a generation that is there,    *)
(* compiled from the commit of its receipt, and nobody's work directory is emptied  *)
(* under him (r46h_card_toolchain.py).                                              *)
THEOREM ToolchainIsKept == Spec => []ToolchainHolds
<1>1. Init => ToolchainPart
  BY ToolBegins
  DEF Init, ToolchainPart
<1>2. ToolchainPart /\ [Next]_mcVars
      => ToolchainPart'
  BY OwnSteps, ToolStepHolds
  DEF ToolchainPart
<1>3. ToolchainPart => ToolchainHolds
  BY ToolIsKept
  DEF ToolchainPart, ToolchainHolds
<1> QED
  BY <1>1, <1>2, <1>3, PTL DEF Spec

-----------------------------------------------------------------------------
(* The cache.  A copy takes over an entry only when it is what was seen before it   *)
(* was opened and after it was read; what others mounted is never entered.          *)
LEMMA TreeBegins ==
    ASSUME Cache!TreeInit PROVE Cache!TreeInv
BY DEF Cache!TreeInit, Cache!TreeInv, Cache!TreeTypes, Cache!CopyGrows, Cache!ForeignKept,
   Cache!CopyUnderWay, Cache!CopiedNames, Cache!Nothing, Cache!Kinds, Cache!RemovalHolds,
   Cache!NoPin

LEMMA TreeCopyIsWhole ==
    ASSUME Cache!TreeInv PROVE Cache!CopyIsWhole
BY DEF Cache!TreeInv, Cache!CopyGrows, Cache!CopyIsWhole, Cache!CopyUnderWay, Cache!CopiedNames

(* The steps of a removal and a pruning. *)
LEMMA TreeRemoves ==
    ASSUME Cache!TreeInv,
           \/ Cache!PrunePreflight \/ Cache!RemoveDone
           \/ \E n \in EntryNames : Cache!OpenForRemoval(n) \/ Cache!EmptyDirectory(n)
                                     \/ Cache!RemoveEntry(n)
    PROVE  Cache!TreeInv'
<1> DEFINE kind == x1  inode == x2  version == x3  mounted == x4  foreignLost == x5
           dirVersion == x6  meddling == x7  job == x8  step == x9  todo == x10
           seen == x11  half == x12  copied == x13  stocked == x14  pinned == x15  fixed == x16
<1> DEFINE Dirs == \A n \in mounted : kind[n] = "dir"
<1>0. Cache!TreeTypes /\ Cache!CopyGrows /\ Cache!RemovalHolds /\ foreignLost = {} /\ Dirs
  BY DEF Cache!TreeInv, Cache!ForeignKept
<1> USE DEF Cache!Finish, Cache!treeVars, Cache!jobVars
<1>1. CASE Cache!PrunePreflight
  <2>1. /\ UNCHANGED <<Cache!treeVars, meddling, job, seen, pinned, half, copied>>
        /\ job = "prune" /\ step = "preflight" /\ step' \in {"next", "refused"}
        /\ \/ fixed' = Cache!Present /\ todo' = Cache!Present
           \/ UNCHANGED <<fixed, todo>> /\ step' = "refused"
    BY <1>1 DEF Cache!PrunePreflight
  <2>2. Cache!TreeTypes' /\ foreignLost' = {} /\ Dirs'
    BY <1>0, <2>1 DEF Cache!TreeTypes, Cache!Present
  <2>3. Cache!CopyGrows' /\ Cache!RemovalHolds'
    BY <1>0, <2>1 DEF Cache!CopyGrows, Cache!CopyUnderWay, Cache!RemovalHolds
  <2> QED BY <2>2, <2>3 DEF Cache!TreeInv, Cache!ForeignKept
<1>2. CASE Cache!RemoveDone
  <2>1. /\ UNCHANGED <<Cache!treeVars, meddling, job, todo, seen, pinned, fixed, half, copied>>
        /\ job \in {"remove", "prune"} /\ step' \in {"done", "failed"}
    BY <1>2 DEF Cache!RemoveDone
  <2>2. Cache!TreeTypes' /\ foreignLost' = {} /\ Dirs'
    BY <1>0, <2>1 DEF Cache!TreeTypes
  <2>3. Cache!CopyGrows' /\ Cache!RemovalHolds'
    BY <1>0, <2>1 DEF Cache!CopyGrows, Cache!CopyUnderWay, Cache!RemovalHolds
  <2> QED BY <2>2, <2>3 DEF Cache!TreeInv, Cache!ForeignKept
<1>3. ASSUME NEW n \in EntryNames, Cache!OpenForRemoval(n) PROVE Cache!TreeInv'
  <2>0. Cache!Inside(n) => ((~Cache!Inside(n)) = FALSE)
    BY Zenon
  <2>1. /\ UNCHANGED <<Cache!treeVars, meddling, job, todo, seen, fixed, half, copied>>
        /\ job \in {"remove", "prune"} /\ step = "open" /\ step' \in {"empty", "unlink", "failed"}
        /\ \/ UNCHANGED pinned /\ step' = "failed"
           \/ /\ Cache!SameEntry(n) /\ Cache!Inside(n)
              /\ pinned' = [inode |-> inode[n], mount |-> ~Cache!Inside(n)]
    BY <1>3 DEF Cache!OpenForRemoval
  <2>2. \/ UNCHANGED pinned /\ step' = "failed"
        \/ pinned' = [inode |-> inode[n], mount |-> FALSE] /\ seen.mount = FALSE /\ inode[n] = seen.inode
    BY <2>0, <2>1, Zenon DEF Cache!SameEntry
  <2>3. Cache!TreeTypes' /\ foreignLost' = {} /\ Dirs'
    BY <1>0, <2>1, <2>2 DEF Cache!TreeTypes
  <2>4. step' = "empty" => pinned'.inode = seen'.inode /\ ~pinned'.mount /\ ~seen'.mount
    BY <2>1, <2>2
  <2>5. Cache!CopyGrows' /\ Cache!RemovalHolds'
    BY <1>0, <2>1, <2>4 DEF Cache!CopyGrows, Cache!CopyUnderWay, Cache!RemovalHolds
  <2> QED BY <2>3, <2>5 DEF Cache!TreeInv, Cache!ForeignKept
<1>4. ASSUME NEW n \in EntryNames, Cache!EmptyDirectory(n) PROVE Cache!TreeInv'
  <2>1. /\ UNCHANGED <<kind, inode, version, mounted, dirVersion, meddling, job>>
        /\ UNCHANGED <<todo, seen, pinned, fixed, half, copied>>
        /\ step = "empty" /\ step' \in {"unlink", "failed"} /\ stocked' \subseteq stocked
    BY <1>4 DEF Cache!EmptyDirectory
  <2>2. ~pinned.mount /\ job # "copy"
    BY <1>0, <2>1 DEF Cache!RemovalHolds
  <2>3. foreignLost' = {}
    BY <1>0, <1>4, <2>2 DEF Cache!EmptyDirectory
  <2>4. Cache!TreeTypes' /\ Dirs'
    BY <1>0, <2>1 DEF Cache!TreeTypes
  <2>5. Cache!CopyGrows' /\ Cache!RemovalHolds'
    BY <1>0, <2>1, <2>2 DEF Cache!CopyGrows, Cache!CopyUnderWay, Cache!RemovalHolds
  <2> QED BY <2>3, <2>4, <2>5 DEF Cache!TreeInv, Cache!ForeignKept
<1>5. ASSUME NEW n \in EntryNames, Cache!RemoveEntry(n) PROVE Cache!TreeInv'
  <2>1. /\ UNCHANGED <<inode, version, stocked, mounted, foreignLost, meddling, job>>
        /\ UNCHANGED <<seen, pinned, fixed, half, copied>>
        /\ step = "unlink" /\ step' \in {"next", "failed"} /\ todo' \subseteq todo
        /\ \/ UNCHANGED <<kind, dirVersion>>
           \/ /\ Cache!Inside(n) /\ kind' = [kind EXCEPT ![n] = "gone"]
              /\ dirVersion' = dirVersion + 1
    BY <1>5 DEF Cache!RemoveEntry, Cache!Removes
  <2>2. job # "copy"
    BY <1>0, <2>1 DEF Cache!RemovalHolds
  <2>3. Cache!TreeTypes' /\ Dirs'
    BY <1>0, <2>1 DEF Cache!TreeTypes, Cache!Kinds, Cache!Inside
  <2>4. Cache!CopyGrows' /\ Cache!RemovalHolds'
    BY <1>0, <2>1, <2>2 DEF Cache!CopyGrows, Cache!CopyUnderWay, Cache!CopiedNames,
       Cache!RemovalHolds
  <2> QED BY <1>0, <2>1, <2>3, <2>4 DEF Cache!TreeInv, Cache!ForeignKept
<1> QED
  BY <1>1, <1>2, <1>3, <1>4, <1>5

LEMMA TreeStepHolds ==
    ASSUME Cache!TreeInv, [Cache!TreeNext]_(Cache!treeAllVars)
    PROVE  Cache!TreeInv'
<1> DEFINE kind == x1  inode == x2  version == x3  mounted == x4  foreignLost == x5
           dirVersion == x6  meddling == x7  job == x8  step == x9  todo == x10
           seen == x11  half == x12  copied == x13  stocked == x14  pinned == x15  fixed == x16
<1> DEFINE Dirs == \A n \in mounted : kind[n] = "dir"
<1>0. Cache!TreeTypes /\ Cache!CopyGrows /\ Cache!RemovalHolds /\ foreignLost = {} /\ Dirs
  BY DEF Cache!TreeInv, Cache!ForeignKept
<1> USE DEF Cache!Finish, Cache!treeVars, Cache!jobVars
<1>1. CASE UNCHANGED Cache!treeAllVars
  <2>1. Cache!TreeTypes' /\ foreignLost' = {} /\ Dirs'
    BY <1>0, <1>1 DEF Cache!treeAllVars, Cache!TreeTypes
  <2>2. Cache!CopyGrows' /\ Cache!RemovalHolds'
    BY <1>0, <1>1 DEF Cache!treeAllVars, Cache!CopyGrows, Cache!CopyUnderWay,
       Cache!CopiedNames, Cache!Present, Cache!RemovalHolds
  <2> QED BY <2>1, <2>2 DEF Cache!TreeInv, Cache!ForeignKept
<1>2. CASE Cache!RemovePreflight \/ Cache!CopyPreflight
  <2>1. /\ UNCHANGED <<Cache!treeVars, meddling, job, todo, seen, pinned, fixed, half, copied>>
        /\ step = "preflight" /\ step' \in {"list", "refused"} /\ job # "prune"
    BY <1>2 DEF Cache!RemovePreflight, Cache!CopyPreflight
  <2>2. Cache!TreeTypes' /\ foreignLost' = {} /\ Dirs'
    BY <1>0, <2>1 DEF Cache!TreeTypes
  <2>3. Cache!CopyGrows' /\ Cache!RemovalHolds'
    BY <1>0, <2>1 DEF Cache!CopyGrows, Cache!CopyUnderWay, Cache!CopiedNames, Cache!RemovalHolds
  <2> QED BY <2>2, <2>3 DEF Cache!TreeInv, Cache!ForeignKept
<1>3. CASE Cache!ListEntries
  <2>1. Cache!TreeTypes' /\ foreignLost' = {} /\ Dirs' /\ seen'.dir = dirVersion
    BY <1>0, <1>3 DEF Cache!ListEntries, Cache!TreeTypes, Cache!Present, Cache!Nothing,
       Cache!Kinds
  <2>2. Cache!CopyGrows'
    BY <1>0, <1>3, <2>1 DEF Cache!ListEntries, Cache!CopyGrows, Cache!CopyUnderWay,
       Cache!CopiedNames, Cache!Present, Cache!TreeTypes
  <2>3. Cache!RemovalHolds'
    BY <1>0, <1>3 DEF Cache!ListEntries, Cache!RemovalHolds
  <2> QED BY <2>1, <2>2, <2>3 DEF Cache!TreeInv, Cache!ForeignKept
<1>4. ASSUME NEW n \in EntryNames, Cache!Look(n) PROVE Cache!TreeInv'
  <2>1. /\ UNCHANGED <<Cache!treeVars, meddling, job, todo, pinned, fixed, half, copied>>
        /\ step = "next" /\ n \in todo
        /\ seen'.dir = seen.dir
        /\ \/ step' = "failed"
           \/ step' = "open" /\ seen'.name = n
           \/ step' = "unlink" /\ seen'.name = n /\ job # "copy"
    BY <1>0, <1>4 DEF Cache!Look, Cache!TreeTypes
  <2>2. Cache!TreeTypes' /\ foreignLost' = {} /\ Dirs'
    <3>1. seen' = seen \/ seen' = [seen EXCEPT !.name = n, !.kind = kind[n], !.inode = inode[n],
                                              !.mount = ~Cache!Inside(n)]
      BY <1>4 DEF Cache!Look
    <3>2. kind[n] \in Cache!Kinds /\ inode[n] \in Nat /\ (~Cache!Inside(n)) \in BOOLEAN
      BY <1>0 DEF Cache!TreeTypes
    <3>3. seen' \in [name : EntryNames \cup {"none"}, kind : Cache!Kinds, inode : Nat,
                     mount : BOOLEAN, version : Nat, dir : Nat]
      BY <1>0, <3>1, <3>2 DEF Cache!TreeTypes
    <3> QED BY <1>0, <2>1, <3>3 DEF Cache!TreeTypes
  <2>3. Cache!CopyGrows' /\ Cache!RemovalHolds'
    BY <1>0, <2>1 DEF Cache!CopyGrows, Cache!CopyUnderWay, Cache!CopiedNames, Cache!Present,
       Cache!RemovalHolds
  <2> QED BY <2>2, <2>3 DEF Cache!TreeInv, Cache!ForeignKept
<1>6. ASSUME NEW n \in EntryNames, Cache!OpenForCopy(n) PROVE Cache!TreeInv'
  <2>1. /\ UNCHANGED <<Cache!treeVars, meddling, job, todo, pinned, fixed, copied>>
        /\ seen.name = n /\ step = "open" /\ job = "copy"
        /\ \/ step' = "failed" /\ UNCHANGED <<seen, half>>
           \/ step' = "read" /\ seen' = [seen EXCEPT !.version = version[n]]
              /\ half' = version[n]
    BY <1>6 DEF Cache!OpenForCopy
  <2>2. Cache!TreeTypes' /\ foreignLost' = {} /\ Dirs' /\ seen'.dir = seen.dir /\ seen'.name = n
        /\ (step' = "read" => half' = seen'.version)
    BY <1>0, <2>1 DEF Cache!TreeTypes
  <2>3. Cache!CopyGrows' /\ Cache!RemovalHolds'
    BY <1>0, <2>1, <2>2 DEF Cache!CopyGrows, Cache!CopyUnderWay, Cache!CopiedNames,
       Cache!Present, Cache!RemovalHolds
  <2> QED BY <2>2, <2>3 DEF Cache!TreeInv, Cache!ForeignKept
<1>7. ASSUME NEW n \in EntryNames, Cache!ReadRest(n) PROVE Cache!TreeInv'
  <2>1. /\ UNCHANGED <<Cache!treeVars, meddling, job, seen, pinned, fixed, half>>
        /\ seen.name = n /\ step = "read" /\ job = "copy"
        /\ \/ step' = "failed" /\ UNCHANGED <<todo, copied>>
           \/ /\ step' = "next" /\ copied' = [copied EXCEPT ![n] = <<half, seen.version>>]
              /\ todo' = todo \ {n}
    BY <1>7 DEF Cache!ReadRest
  <2>2. Cache!TreeTypes' /\ Cache!RemovalHolds' /\ foreignLost' = {} /\ Dirs'
    BY <1>0, <2>1 DEF Cache!TreeTypes, Cache!RemovalHolds
  <2>3. CASE step' = "failed"
    BY <1>0, <2>1, <2>2, <2>3 DEF Cache!CopyGrows, Cache!CopyUnderWay, Cache!CopiedNames,
       Cache!Present, Cache!TreeInv, Cache!ForeignKept
  <2>4. CASE step' = "next"
    <3>1. half = seen.version /\ n \in todo
      BY <1>0, <2>1 DEF Cache!CopyGrows
    <3>2. \A m \in EntryNames : copied'[m] = IF m = n THEN <<half, seen.version>> ELSE copied[m]
      BY <1>0, <2>1, <2>4 DEF Cache!TreeTypes
    <3>3. <<half, seen.version>> # <<>>
      OBVIOUS
    <3>4. Cache!CopiedNames' = Cache!CopiedNames \cup {n}
      BY <3>2, <3>3 DEF Cache!CopiedNames
    <3>5. \A m \in EntryNames : copied'[m] # <<>> => copied'[m][1] = copied'[m][2]
      BY <3>1, <3>2, <1>0 DEF Cache!CopyGrows
    <3>6. Cache!CopiedNames' \cup todo' = Cache!CopiedNames \cup todo
      BY <3>4, <3>1, <2>1, <2>4
    <3>7. Cache!CopyGrows'
      BY <1>0, <2>1, <2>4, <3>5, <3>6 DEF Cache!CopyGrows, Cache!CopyUnderWay, Cache!Present
    <3> QED BY <2>2, <3>7 DEF Cache!TreeInv, Cache!ForeignKept
  <2> QED BY <2>1, <2>3, <2>4
<1>8. CASE Cache!CopyDone
  <2>1. /\ UNCHANGED <<Cache!treeVars, meddling, job, todo, seen, pinned, fixed, half, copied>>
        /\ step = "next" /\ todo = {} /\ step' \in {"done", "failed"} /\ job = "copy"
        /\ step' = "done" => dirVersion = seen.dir
    BY <1>8 DEF Cache!CopyDone
  <2>2. Cache!TreeTypes' /\ Cache!RemovalHolds' /\ foreignLost' = {} /\ Dirs'
    BY <1>0, <2>1 DEF Cache!TreeTypes, Cache!RemovalHolds
  <2>3. Cache!CopyGrows'
    BY <1>0, <2>1 DEF Cache!CopyGrows, Cache!CopyUnderWay, Cache!CopiedNames, Cache!Present
  <2> QED BY <2>2, <2>3 DEF Cache!TreeInv, Cache!ForeignKept
<1>9. CASE Cache!Meddle
  <2>1. /\ UNCHANGED <<foreignLost, job, step, todo, seen, pinned, fixed, half, copied>>
        /\ meddling' = meddling + 1 /\ step # "done"
    BY <1>9 DEF Cache!Meddle
  <2>2. PICK n \in EntryNames :
         \/ /\ kind[n] = "file" /\ version' = [version EXCEPT ![n] = @ + 1]
            /\ UNCHANGED <<kind, inode, mounted, dirVersion, stocked>>
         \/ /\ kind[n] = "dir" /\ mounted' = mounted \cup {n}
            /\ UNCHANGED <<kind, inode, version, dirVersion, stocked>>
         \/ /\ stocked' = stocked \cup {n}
            /\ UNCHANGED <<kind, inode, version, mounted, dirVersion>>
         \/ /\ n \notin mounted /\ \E k \in Cache!Kinds : kind' = [kind EXCEPT ![n] = k]
            /\ inode' = [inode EXCEPT ![n] = @ + 1]
            /\ stocked' \in {stocked \ {n}, stocked \cup {n}}
            /\ dirVersion' = dirVersion + 1
            /\ UNCHANGED <<version, mounted>>
    BY <1>9 DEF Cache!Meddle, Cache!Inside
  <2>3. Cache!TreeTypes' /\ Dirs'
    BY <1>0, <2>1, <2>2 DEF Cache!TreeTypes
  <2>4. \/ dirVersion' = dirVersion /\ kind' = kind
        \/ dirVersion' = dirVersion + 1
    BY <2>2
  <2>5. Cache!CopyGrows' /\ Cache!RemovalHolds'
    BY <1>0, <2>1, <2>4 DEF Cache!CopyGrows, Cache!CopyUnderWay, Cache!CopiedNames,
       Cache!Present, Cache!TreeTypes, Cache!RemovalHolds
  <2> QED BY <1>0, <2>1, <2>3, <2>5 DEF Cache!TreeInv, Cache!ForeignKept
<1> QED
  BY <1>1, <1>2, <1>3, <1>4, <1>6, <1>7, <1>8, <1>9, TreeRemoves DEF Cache!TreeNext, Cache!Ended

(* What a directory holds goes through the descriptor, and it is open on the directory *)
(* that was looked at; of a pruning only what its check listed goes.                   *)
LEMMA TreeRemovesSeen ==
    ASSUME Cache!TreeInv, [Cache!TreeNext]_(Cache!treeAllVars)
    PROVE  Cache!OnlySeenRemoved
<1> DEFINE kind == x1  inode == x2  meddling == x7  job == x8  seen == x11  stocked == x14
           fixed == x16
<1> SUFFICES ASSUME NEW n \in EntryNames, meddling' = meddling
             PROVE  /\ n \in stocked /\ n \notin stocked'
                         => seen.name = n /\ kind[n] = "dir" /\ inode[n] = seen.inode /\ ~seen.mount
                    /\ job = "prune" /\ kind[n] # "gone" /\ kind'[n] = "gone" => n \in fixed
  BY DEF Cache!OnlySeenRemoved
<1>0. Cache!TreeTypes /\ Cache!RemovalHolds
  BY DEF Cache!TreeInv
<1>1. ~Cache!Meddle
  BY <1>0 DEF Cache!Meddle, Cache!TreeTypes
<1>2. ASSUME NEW m \in EntryNames, Cache!EmptyDirectory(m)
      PROVE  /\ kind' = kind
             /\ n \in stocked /\ n \notin stocked'
                  => seen.name = n /\ kind[n] = "dir" /\ inode[n] = seen.inode /\ ~seen.mount
  BY <1>0, <1>2 DEF Cache!EmptyDirectory, Cache!StillPinned, Cache!RemovalHolds
<1>3. ASSUME NEW m \in EntryNames, Cache!RemoveEntry(m)
      PROVE  /\ stocked' = stocked
             /\ job = "prune" /\ kind[n] # "gone" /\ kind'[n] = "gone" => n \in fixed
  <2>1. /\ stocked' = stocked /\ seen.name = m /\ x9 = "unlink"
        /\ kind' \in {kind, [kind EXCEPT ![m] = "gone"]}
    BY <1>3 DEF Cache!RemoveEntry
  <2> QED
    BY <1>0, <2>1 DEF Cache!TreeTypes, Cache!RemovalHolds
<1>4. CASE ~ \E m \in EntryNames : Cache!EmptyDirectory(m) \/ Cache!RemoveEntry(m)
  <2>1. kind' = kind /\ stocked' = stocked
    BY <1>1, <1>4 DEF Cache!TreeNext, Cache!treeAllVars, Cache!treeVars, Cache!RemovePreflight,
       Cache!PrunePreflight, Cache!CopyPreflight, Cache!ListEntries, Cache!Look,
       Cache!OpenForRemoval, Cache!OpenForCopy, Cache!ReadRest, Cache!RemoveDone,
       Cache!CopyDone, Cache!Ended
  <2> QED BY <2>1
<1> QED
  BY <1>2, <1>3, <1>4

CachePart == part = "cache" => Cache!TreeInv

(* Whatever others write, replace and mount in the cache meanwhile, also between the *)
(* look at an entry, its opening and its removal by name: a finished copy has one    *)
(* version of every entry and nothing mounted is deleted (r46h_card_toolchain.py).   *)
THEOREM CacheTreeIsKept == Spec => []CacheTreeHolds
<1>1. Init => CachePart
  BY TreeBegins
  DEF Init, CachePart
<1>2. CachePart /\ [Next]_mcVars
      => CachePart'
  BY OwnSteps, TreeStepHolds
  DEF CachePart
<1>3. CachePart => CacheTreeHolds
  BY TreeCopyIsWhole
  DEF CachePart, CacheTreeHolds,
         Cache!TreeInv
<1> QED
  BY <1>1, <1>2, <1>3, PTL DEF Spec

-----------------------------------------------------------------------------
(* The audit.  An archive is claimed by one start of the launcher, filled, synced,  *)
(* and marked in this order; what the bootstrap hands over is the evidence of the   *)
(* card and the tool that this start was bound to.                                  *)
LEMMA AuditBegins ==
    ASSUME Audit!AuditInit PROVE Audit!AuditInv
BY NilAssumption, AuditsAssumption
DEF Audit!AuditInit, Audit!AuditInv, Audit!AuditTypes, Audit!BootFollows,
    Audit!ResultIsEvidence, Audit!ArchiveIsOwn, Audit!ArchivesHold, Audit!Idle,
    Audit!NotStarted, Audit!NoEvidence, Audit!NoArchive, Audit!Audits, Audit!Statuses,
    Audit!Early, Audit!Writing, Audit!Judging, Audit!Listed, Audit!Evidences, Audit!Marked,
    Audit!Launchers, Audit!Bootstraps, Audit!Archives

LEMMA AuditIsTrue ==
    ASSUME Audit!AuditInv PROVE Audit!HandoffIsTrue
BY DEF Audit!AuditInv, Audit!AuditTypes, Audit!ArchivesHold, Audit!HandoffIsTrue, Audit!Marked,
   Audit!ReceiptValid, Audit!Listed

LEMMA AuditRecords ==
    Audit!NoEvidence \in Audit!Evidences /\ Audit!Idle \in Audit!Launchers
      /\ Audit!NotStarted \in Audit!Bootstraps
BY DEF Audit!NoEvidence, Audit!Evidences, Audit!Idle, Audit!Launchers, Audit!NotStarted,
   Audit!Bootstraps, Audit!Statuses

LEMMA ArchiveEdits ==
    \A a \in Audit!Archives : \A e \in SUBSET {"files", "HANDOFF.json", "HANDOFF-COMPLETE"} :
        /\ \E k \in Audit!Archives :
              /\ k = [a EXCEPT !.entries = e] /\ k.of = a.of /\ k.claim = a.claim
              /\ k.entries = e /\ k.synced = a.synced
        /\ \E k \in Audit!Archives :
              /\ k = [a EXCEPT !.synced = e] /\ k.of = a.of /\ k.claim = a.claim
              /\ k.entries = a.entries /\ k.synced = e
<1> TAKE a \in Audit!Archives
<1> TAKE e \in SUBSET {"files", "HANDOFF.json", "HANDOFF-COMPLETE"}
<1> DEFINE w == [a EXCEPT !.entries = e]
           s == [a EXCEPT !.synced = e]
<1>1. w \in Audit!Archives /\ w.of = a.of /\ w.claim = a.claim /\ w.entries = e
      /\ w.synced = a.synced
  BY DEF Audit!Archives
<1>2. s \in Audit!Archives /\ s.of = a.of /\ s.claim = a.claim /\ s.entries = a.entries
      /\ s.synced = e
  BY DEF Audit!Archives
<1> HIDE DEF w, s
<1> QED BY <1>1, <1>2 DEF w, s

(* Steps of the launcher before the privileged part. *)
LEMMA AuditEarly ==
    ASSUME Audit!AuditInv, Audit!BindRelease \/ Audit!SelectCandidate \/ Audit!ArchiveIdentity
           \/ Audit!OpenArchive
    PROVE  Audit!AuditInv'
<1> DEFINE workspace == x1  reader == x2  mounted == x3  audit == x5  launcher == x6
           bootstrap == x7  evidence == x8  archives == x9
<1>1. /\ UNCHANGED <<Audit!world, audit, bootstrap, evidence, archives>>
      /\ launcher.at \in Audit!Early /\ launcher'.at \in Audit!Early
      /\ \/ launcher' = [launcher EXCEPT !.at = "discover", !.bound = workspace]
         \/ \E c \in Cards : launcher' = [launcher EXCEPT !.at = "identity", !.card = c]
         \/ launcher' = [launcher EXCEPT !.at = "open", !.claimed = mounted]
         \/ launcher' = [launcher EXCEPT !.at = "authorize", !.disk = mounted]
  <2>1. launcher \in Audit!Launchers /\ reader \in Cards
    BY DEF Audit!AuditInv, Audit!AuditTypes
  <2>2. CASE Audit!BindRelease
    BY <2>1, <2>2 DEF Audit!BindRelease, Audit!LauncherAt, Audit!Early, Audit!Launchers
  <2>3. CASE Audit!SelectCandidate
    BY <2>1, <2>3 DEF Audit!SelectCandidate, Audit!Discovered, Audit!LauncherAt, Audit!Early,
       Audit!Launchers
  <2>4. CASE Audit!ArchiveIdentity
    BY <2>1, <2>4 DEF Audit!ArchiveIdentity, Audit!LauncherAt, Audit!Early, Audit!Launchers
  <2>5. CASE Audit!OpenArchive
    BY <2>1, <2>5 DEF Audit!OpenArchive, Audit!LauncherAt, Audit!Early, Audit!Launchers
  <2> QED BY <2>2, <2>3, <2>4, <2>5
<1>2. Audit!AuditTypes'
  <2>1. launcher \in Audit!Launchers /\ mounted \in Disks
    BY DEF Audit!AuditInv, Audit!AuditTypes
  <2>2. workspace \in ToolVersions
    BY DEF Audit!AuditInv, Audit!AuditTypes
  <2>3. CASE Audit!BindRelease
    <3>1. launcher' \in Audit!Launchers
      BY <2>1, <2>2, <2>3 DEF Audit!BindRelease, Audit!Launchers
    <3> QED
      BY <3>1, <1>1
      DEF Audit!AuditInv, Audit!AuditTypes, Audit!world, Audit!Launchers, Audit!Bootstraps
  <2>4. CASE Audit!SelectCandidate
    <3>1. PICK c \in Cards : launcher' = [launcher EXCEPT !.at = "identity", !.card = c]
      BY <2>4 DEF Audit!SelectCandidate, Audit!Discovered, Audit!AuditInv, Audit!AuditTypes
    <3>2. launcher' \in Audit!Launchers
      BY <2>1, <3>1 DEF Audit!Launchers
    <3> QED
      BY <3>2, <1>1
      DEF Audit!AuditInv, Audit!AuditTypes, Audit!world, Audit!Launchers, Audit!Bootstraps
  <2>5. CASE Audit!ArchiveIdentity \/ Audit!OpenArchive
    <3>1. launcher' \in Audit!Launchers
      BY ZenonT(40), <2>1, <2>5 DEF Audit!ArchiveIdentity, Audit!OpenArchive, Audit!Launchers
    <3> QED
      BY <3>1, <1>1
      DEF Audit!AuditInv, Audit!AuditTypes, Audit!world, Audit!Launchers, Audit!Bootstraps
  <2> QED BY <2>3, <2>4, <2>5
<1>3. Audit!BootFollows' /\ Audit!ResultIsEvidence'
  BY <1>1 DEF Audit!AuditInv, Audit!BootFollows, Audit!ResultIsEvidence, Audit!Early,
     Audit!Writing, Audit!Judging
<1>4. Audit!ArchiveIsOwn' /\ Audit!ArchivesHold'
  BY <1>1 DEF Audit!AuditInv, Audit!ArchiveIsOwn, Audit!ArchivesHold, Audit!Early,
     Audit!Writing, Audit!Judging, Audit!Marked
<1> QED BY <1>2, <1>3, <1>4 DEF Audit!AuditInv

(* Steps of the bootstrap, and of what stops it, that find nothing new. *)
LEMMA AuditBoot ==
    ASSUME Audit!AuditInv,
           \/ Audit!Authorize \/ Audit!FreezeStage \/ Audit!StartAudit \/ Audit!CleanupStage
           \/ Audit!SendHandoff
           \/ Audit!BootstrapFails \/ Audit!KillGroup \/ Audit!Forward
    PROVE  Audit!AuditInv'
<1> DEFINE audit == x5  launcher == x6  bootstrap == x7  evidence == x8  archives == x9
<1> USE DEF Audit!BootAt, Audit!LauncherAt, Audit!Goes
<1>1. /\ UNCHANGED <<Audit!world, audit, evidence, archives>>
      /\ launcher'.bound = launcher.bound /\ launcher'.card = launcher.card
      /\ launcher'.result = launcher.result
      /\ launcher' \in Audit!Launchers
      /\ launcher.at \in Audit!Early \cup {"run"} /\ launcher'.at \in Audit!Early \cup {"run"}
  <2>1. CASE Audit!Authorize
    BY <2>1 DEF Audit!AuditInv, Audit!AuditTypes, Audit!Authorize, Audit!Early, Audit!Launchers
  <2>2. CASE Audit!FreezeStage \/ Audit!StartAudit \/ Audit!CleanupStage \/ Audit!SendHandoff
             \/ Audit!BootstrapFails \/ Audit!KillGroup
    <3>1. UNCHANGED <<Audit!world, audit, launcher, evidence,
                  archives>> /\ bootstrap.at \notin {"off", "ended"}
      BY <2>2 DEF Audit!FreezeStage, Audit!StartAudit, Audit!CleanupStage, Audit!SendHandoff,
         Audit!BootstrapFails, Audit!KillGroup
    <3> QED BY <3>1 DEF Audit!AuditInv, Audit!AuditTypes, Audit!BootFollows
  <2>3. CASE Audit!Forward
    BY <2>3 DEF Audit!AuditInv, Audit!AuditTypes, Audit!Forward, Audit!Early, Audit!Launchers
  <2> QED BY <2>1, <2>2, <2>3
<1>2. /\ bootstrap' \in Audit!Bootstraps
      /\ launcher'.at \in Audit!Early => bootstrap'.at = "off"
      /\ launcher'.at = "run" => bootstrap'.at # "off"
      /\ bootstrap'.at \notin {"off", "ended"} => launcher'.at = "run"
  <2>1. CASE Audit!Authorize
    BY <2>1 DEF Audit!AuditInv, Audit!AuditTypes, Audit!BootFollows, Audit!Authorize,
       Audit!NotStarted, Audit!Early, Audit!Bootstraps, Audit!Launchers
  <2>2. CASE Audit!FreezeStage
    BY <2>2 DEF Audit!AuditInv, Audit!AuditTypes, Audit!BootFollows, Audit!FreezeStage,
       Audit!Early, Audit!Bootstraps
  <2>3. CASE Audit!StartAudit \/ Audit!SendHandoff
    BY <2>3 DEF Audit!AuditInv, Audit!AuditTypes, Audit!BootFollows, Audit!StartAudit,
       Audit!SendHandoff, Audit!Early, Audit!Bootstraps
  <2>4. CASE Audit!CleanupStage \/ Audit!BootstrapFails \/ Audit!KillGroup
    BY <2>4 DEF Audit!AuditInv, Audit!AuditTypes, Audit!BootFollows, Audit!CleanupStage,
       Audit!BootstrapFails, Audit!KillGroup, Audit!Early, Audit!Bootstraps
  <2>5. CASE Audit!Forward
    BY ZenonT(40), <2>5 DEF Audit!AuditInv, Audit!AuditTypes, Audit!BootFollows, Audit!Forward,
       Audit!Early, Audit!Bootstraps, Audit!Launchers
  <2> QED BY <2>1, <2>2, <2>3, <2>4, <2>5
<1>3. /\ bootstrap'.status = bootstrap.status \/ bootstrap'.at = "start"
      /\ \/ bootstrap'.at = bootstrap.at \/ bootstrap'.at = "ended"
         \/ /\ bootstrap'.at \in {"start", "frozen", "auditing"}
            /\ bootstrap.at \in {"off", "start", "frozen", "auditing"}
         \/ bootstrap'.at = "unstaged" /\ bootstrap.at = "audited"
         \/ bootstrap'.at = "sent" /\ bootstrap.at = "exact"
  <2>1. bootstrap \in Audit!Bootstraps /\ (launcher.at = "authorize" => bootstrap.at = "off")
    BY DEF Audit!AuditInv, Audit!AuditTypes, Audit!BootFollows, Audit!Early
  <2>2. CASE Audit!Authorize
    BY <2>1, <2>2 DEF Audit!Authorize, Audit!NotStarted, Audit!Bootstraps
  <2>3. CASE Audit!FreezeStage \/ Audit!StartAudit
    BY <2>1, <2>3 DEF Audit!FreezeStage, Audit!StartAudit, Audit!Bootstraps
  <2>4. CASE Audit!CleanupStage \/ Audit!SendHandoff
    BY <2>1, <2>4 DEF Audit!CleanupStage, Audit!SendHandoff, Audit!Bootstraps
  <2>5. CASE Audit!BootstrapFails \/ Audit!KillGroup
    BY <2>1, <2>5 DEF Audit!BootstrapFails, Audit!KillGroup, Audit!Bootstraps
  <2>6. CASE Audit!Forward
    BY <2>1, <2>6 DEF Audit!Forward, Audit!Bootstraps
  <2> QED BY <2>2, <2>3, <2>4, <2>5, <2>6
<1>4. Audit!AuditTypes'
  BY <1>1, <1>2 DEF Audit!AuditInv, Audit!AuditTypes, Audit!world
<1>5. Audit!BootFollows'
  BY <1>1, <1>2, <1>3 DEF Audit!AuditInv, Audit!BootFollows
<1>6. Audit!ResultIsEvidence' /\ Audit!ArchiveIsOwn'
  BY <1>1 DEF Audit!AuditInv, Audit!ResultIsEvidence, Audit!ArchiveIsOwn, Audit!Early,
     Audit!Writing, Audit!Judging
<1>7. Audit!ArchivesHold'
  BY <1>1 DEF Audit!AuditInv, Audit!ArchivesHold, Audit!Marked, Audit!ReceiptValid
<1> QED BY <1>4, <1>5, <1>6, <1>7 DEF Audit!AuditInv

(* The audit tool writes the evidence of this start, and the bootstrap gives it
   to the caller. *)
LEMMA AuditFinds ==
    ASSUME Audit!AuditInv, Audit!AuditTool \/ Audit!ExactFiles
    PROVE  Audit!AuditInv'
<1> DEFINE reader == x2  audit == x5  launcher == x6  bootstrap == x7  evidence == x8
           archives == x9
<1> USE DEF Audit!BootAt
<1>1. UNCHANGED <<Audit!world, audit, launcher, archives>> /\ launcher.at = "run"
      /\ bootstrap.at \in {"auditing", "unstaged"}
  BY DEF Audit!AuditInv, Audit!BootFollows, Audit!AuditTool, Audit!ExactFiles
<1>2. PICK e \in Audit!Evidences : evidence' = [evidence EXCEPT ![audit] = e]
         /\ \/ bootstrap'.at = "audited" /\ bootstrap'.status = e.status
            \/ bootstrap'.at = "exact" /\ e.status \in Audit!Statuses
  <2>1. CASE Audit!AuditTool
    <3>1. PICK s \in {"complete", "failed", Nil} :
            /\ bootstrap' = [bootstrap EXCEPT !.at = "audited", !.status = s]
            /\ evidence' = [evidence EXCEPT ![audit] =
                [Audit!NoEvidence EXCEPT !.status = s, !.tool = bootstrap.stage,
                 !.card = reader]]
      BY <2>1 DEF Audit!AuditTool
    <3>2. [Audit!NoEvidence EXCEPT !.status = s, !.tool = bootstrap.stage,
           !.card = reader] \in Audit!Evidences
      BY DEF Audit!AuditInv, Audit!AuditTypes, Audit!Evidences, Audit!NoEvidence,
         Audit!Statuses, Audit!Bootstraps
    <3>3. [Audit!NoEvidence EXCEPT !.status = s, !.tool = bootstrap.stage,
           !.card = reader].status = s
      BY DEF Audit!NoEvidence
    <3>4. bootstrap'.at = "audited" /\ bootstrap'.status = s
      BY <3>1 DEF Audit!AuditInv, Audit!AuditTypes, Audit!Bootstraps
    <3> QED BY <3>1, <3>2, <3>3, <3>4
  <2>2. CASE Audit!ExactFiles
    <3>1. evidence' = [evidence EXCEPT ![audit] = [evidence[audit] EXCEPT !.owner = "caller"]]
      BY <2>2 DEF Audit!ExactFiles
    <3>2. /\ [evidence[audit] EXCEPT !.owner = "caller"] \in Audit!Evidences
          /\ [evidence[audit] EXCEPT !.owner = "caller"].status = evidence[audit].status
      BY DEF Audit!AuditInv, Audit!AuditTypes, Audit!Evidences
    <3>3. evidence[audit].status \in Audit!Statuses /\ bootstrap'.at = "exact"
      BY <2>2 DEF Audit!ExactFiles, Audit!AuditInv, Audit!AuditTypes, Audit!BootFollows,
         Audit!Bootstraps, Audit!Statuses
    <3> QED BY <3>1, <3>2, <3>3
  <2> QED BY <2>1, <2>2
<1>3. /\ evidence \in [Audit!Audits -> Audit!Evidences]
      /\ evidence' \in [Audit!Audits -> Audit!Evidences]
      /\ evidence'[audit] = e /\ \A a \in Audit!Audits : a # audit => evidence'[a] = evidence[a]
  BY <1>2 DEF Audit!AuditInv, Audit!AuditTypes
<1>4. bootstrap' \in Audit!Bootstraps
  BY DEF Audit!AuditInv, Audit!AuditTypes, Audit!AuditTool, Audit!ExactFiles, Audit!Statuses,
     Audit!Bootstraps
<1>5. Audit!AuditTypes'
  BY <1>1, <1>3, <1>4 DEF Audit!AuditInv, Audit!AuditTypes, Audit!world
<1>6. Audit!BootFollows'
  BY <1>1, <1>2, <1>3 DEF Audit!AuditInv, Audit!AuditTypes, Audit!BootFollows, Audit!Early,
     Audit!Audits
<1>7. Audit!ResultIsEvidence' /\ Audit!ArchiveIsOwn'
  BY <1>1 DEF Audit!AuditInv, Audit!ResultIsEvidence, Audit!ArchiveIsOwn, Audit!Early,
     Audit!Writing, Audit!Judging
<1>8. Audit!ArchivesHold'
  BY <1>1 DEF Audit!AuditInv, Audit!ArchivesHold, Audit!Marked, Audit!ReceiptValid
<1> QED BY <1>5, <1>6, <1>7, <1>8 DEF Audit!AuditInv

(* The launcher judges what the handoff said. *)
LEMMA AuditJudges ==
    ASSUME Audit!AuditInv, Audit!TakeHandoff \/ Audit!Revalidate \/ Audit!ValidateReceipt
    PROVE  Audit!AuditInv'
<1> DEFINE audit == x5  launcher == x6  bootstrap == x7  evidence == x8  archives == x9
<1> USE DEF Audit!BootAt, Audit!LauncherAt, Audit!Goes
<1>1. /\ UNCHANGED <<Audit!world, audit, evidence, archives>> /\ launcher'.at \in Audit!Judging
      /\ launcher.at \in {"run"} \cup Audit!Judging /\ bootstrap'.at \in {bootstrap.at, "ended"}
      /\ launcher'.bound = launcher.bound /\ launcher'.card = launcher.card
  BY DEF Audit!AuditInv, Audit!AuditTypes, Audit!TakeHandoff, Audit!Revalidate,
     Audit!ValidateReceipt, Audit!Judging, Audit!Launchers, Audit!Bootstraps
<1>2. /\ launcher'.result = evidence[audit] /\ launcher'.result.status \in Audit!Statuses
      /\ launcher'.at = "mkdir" /\ launcher'.result.status = "complete"
             => launcher'.result.tool = launcher.bound /\ launcher'.result.card = launcher.card
  <2>1. CASE Audit!TakeHandoff
    BY <2>1 DEF Audit!AuditInv, Audit!AuditTypes, Audit!BootFollows, Audit!TakeHandoff,
       Audit!Launchers
  <2>2. CASE Audit!Revalidate \/ Audit!ValidateReceipt
    BY <2>2 DEF Audit!AuditInv, Audit!AuditTypes, Audit!ResultIsEvidence, Audit!Revalidate,
       Audit!ValidateReceipt, Audit!Judging, Audit!Status,
       Audit!ReceiptValid, Audit!Launchers
  <2> QED BY <2>1, <2>2
<1>3. Audit!AuditTypes'
  <2>1. CASE Audit!TakeHandoff
    BY <1>1, <2>1 DEF Audit!AuditInv, Audit!AuditTypes, Audit!TakeHandoff, Audit!world,
       Audit!Launchers, Audit!Bootstraps
  <2>2. CASE Audit!Revalidate \/ Audit!ValidateReceipt
    BY <1>1, <2>2 DEF Audit!AuditInv, Audit!AuditTypes, Audit!Revalidate,
       Audit!ValidateReceipt, Audit!world, Audit!Launchers
  <2> QED BY <2>1, <2>2
<1>4. Audit!BootFollows'
  <2>1. \/ bootstrap' = [bootstrap EXCEPT !.at = "ended"]
        \/ bootstrap' = bootstrap /\ launcher.at \in Audit!Judging
    BY DEF Audit!TakeHandoff, Audit!Revalidate, Audit!ValidateReceipt, Audit!Judging
  <2>2. bootstrap'.at \in {"off", "ended"}
    BY <2>1 DEF Audit!AuditInv, Audit!AuditTypes, Audit!BootFollows, Audit!Judging,
       Audit!Bootstraps
  <2>3. bootstrap'.at = "off" => evidence[audit] = Audit!NoEvidence
    BY <2>1 DEF Audit!AuditInv, Audit!AuditTypes, Audit!BootFollows, Audit!Bootstraps
  <2> QED BY <1>1, <2>2, <2>3 DEF Audit!AuditInv, Audit!BootFollows, Audit!Early, Audit!Judging
<1>5. Audit!ResultIsEvidence'
  BY <1>1, <1>2 DEF Audit!ResultIsEvidence, Audit!Status, Audit!ReceiptValid, Audit!Writing,
     Audit!Judging
<1>6. Audit!ArchiveIsOwn'
  BY <1>1 DEF Audit!AuditInv, Audit!ArchiveIsOwn, Audit!Early, Audit!Writing, Audit!Judging
<1>7. Audit!ArchivesHold'
  BY <1>1 DEF Audit!AuditInv, Audit!ArchivesHold, Audit!Marked, Audit!ReceiptValid
<1> QED BY <1>3, <1>4, <1>5, <1>6, <1>7 DEF Audit!AuditInv

(* The launcher fills its archive. *)
LEMMA AuditArchives ==
    ASSUME Audit!AuditInv,
           \/ Audit!MakeArchive \/ Audit!WriteFiles \/ Audit!WriteManifest
           \/ Audit!SyncManifest \/ Audit!WriteComplete
           \/ Audit!SyncComplete
    PROVE  Audit!AuditInv'
<1> DEFINE audit == x5  launcher == x6  bootstrap == x7  evidence == x8  archives == x9
<1> USE DEF Audit!LauncherAt, Audit!Goes
<1>1. /\ UNCHANGED <<Audit!world, audit, evidence, bootstrap>> /\ launcher'.at \in Audit!Writing
      /\ launcher.at \in {"mkdir"} \cup Audit!Writing
      /\ launcher' = [launcher EXCEPT !.at = launcher'.at]
      /\ launcher'.bound = launcher.bound /\ launcher'.card = launcher.card
      /\ launcher'.result = launcher.result
  BY DEF Audit!AuditInv, Audit!AuditTypes, Audit!MakeArchive, Audit!WriteFiles,
     Audit!WriteManifest, Audit!SyncManifest, Audit!WriteComplete,
     Audit!SyncComplete, Audit!Writing, Audit!Launchers
<1>2. Audit!Status \in Audit!Statuses /\ launcher'.result.status = Audit!Status
  BY <1>1 DEF Audit!AuditInv, Audit!ResultIsEvidence, Audit!Judging, Audit!Writing, Audit!Status
<1>3. /\ Audit!Status \in Audit!Statuses /\ launcher'.result.status = Audit!Status
      /\ launcher.result \in Audit!Evidences
      /\ Audit!Status = "complete" => Audit!ReceiptValid(launcher.result)
  BY <1>1, <1>2 DEF Audit!AuditInv, Audit!AuditTypes, Audit!ResultIsEvidence, Audit!Judging,
     Audit!Writing
<1>4. archives \in [Audit!Statuses -> Audit!Archives]
  BY DEF Audit!AuditInv, Audit!AuditTypes
<1>5. PICK k \in Audit!Archives :
         /\ archives' = [archives EXCEPT ![Audit!Status] = k]
         /\ k.of = audit /\ k.claim = launcher.result /\ k.synced \subseteq k.entries
         /\ "HANDOFF-COMPLETE" \in k.entries => Audit!Listed \subseteq k.synced
         /\ launcher'.at = "manifest" => "files" \in k.entries
         /\ launcher'.at = "sync" => Audit!Listed \subseteq k.entries
         /\ launcher'.at \in {"mark", "sync mark"} => Audit!Listed \subseteq k.synced
         /\ launcher'.at = "sync mark" => "HANDOFF-COMPLETE" \in k.entries
         /\ launcher'.at = "cleanup" => "HANDOFF-COMPLETE" \in k.synced
  <2>1. CASE Audit!MakeArchive
    <3> DEFINE k == [Audit!NoArchive EXCEPT !.of = audit, !.claim = launcher.result]
    <3>0. audit \in Nat
      BY NilAssumption, AuditsAssumption DEF Audit!AuditInv, Audit!AuditTypes, Audit!Audits
    <3>1. /\ k \in Audit!Archives
          /\ k.of = audit /\ k.claim = launcher.result /\ k.entries = {} /\ k.synced = {}
      BY <1>3, <3>0 DEF Audit!NoArchive, Audit!Archives
    <3>2. archives' = [archives EXCEPT ![Audit!Status] = k] /\ launcher'.at = "files"
      BY <2>1 DEF Audit!MakeArchive, Audit!AuditInv, Audit!AuditTypes, Audit!Launchers
    <3> HIDE DEF k
    <3> QED BY <3>1, <3>2
  <2> DEFINE old == archives[Audit!Status]
  <2>2. /\ old \in Audit!Archives /\ old.synced \subseteq old.entries
        /\ "HANDOFF-COMPLETE" \in old.entries => Audit!Listed \subseteq old.synced
    BY <1>3, <1>4 DEF Audit!AuditInv, Audit!ArchivesHold, Audit!Marked
  <2>3. launcher.at \in Audit!Writing => old.of = audit /\ old.claim = launcher.result
    BY DEF Audit!AuditInv, Audit!ArchiveIsOwn
  <2>4. CASE Audit!WriteFiles
    <3> DEFINE new == old.entries \cup {"files"}
    <3>0. old \in Audit!Archives /\ new \in SUBSET {"files", "HANDOFF.json", "HANDOFF-COMPLETE"}
      BY <2>2 DEF Audit!Archives
    <3> HIDE DEF new
    <3>1. PICK k \in Audit!Archives :
            /\ k = [old EXCEPT !.entries = new]
            /\ k.of = old.of /\ k.claim = old.claim
            /\ k.entries = new /\ k.synced = old.synced
      <4>1. PICK a \in Audit!Archives : a = old
        BY <3>0
      <4>2. \E k \in Audit!Archives :
               /\ k = [a EXCEPT !.entries = new] /\ k.of = a.of /\ k.claim = a.claim
               /\ k.entries = new /\ k.synced = a.synced
        BY <3>0, ArchiveEdits
      <4> QED BY <4>1, <4>2
    <3> USE DEF new
    <3>2. archives' = [archives EXCEPT ![Audit!Status] = k] /\ launcher'.at = "manifest"
          /\ launcher.at = "files"
      BY <3>1, <2>4, <1>1 DEF Audit!WriteFiles, Audit!Writes, Audit!AuditInv, Audit!AuditTypes,
         Audit!Launchers
    <3> QED BY <3>1, <3>2, <2>2, <2>3 DEF Audit!Writing, Audit!Listed
  <2>5. CASE Audit!WriteManifest
    <3> DEFINE new == old.entries \cup {"HANDOFF.json"}
    <3>0. old \in Audit!Archives /\ new \in SUBSET {"files", "HANDOFF.json", "HANDOFF-COMPLETE"}
      BY <2>2 DEF Audit!Archives
    <3> HIDE DEF new
    <3>1. PICK k \in Audit!Archives :
            /\ k = [old EXCEPT !.entries = new]
            /\ k.of = old.of /\ k.claim = old.claim
            /\ k.entries = new /\ k.synced = old.synced
      <4>1. PICK a \in Audit!Archives : a = old
        BY <3>0
      <4>2. \E k \in Audit!Archives :
               /\ k = [a EXCEPT !.entries = new] /\ k.of = a.of /\ k.claim = a.claim
               /\ k.entries = new /\ k.synced = a.synced
        BY <3>0, ArchiveEdits
      <4> QED BY <4>1, <4>2
    <3> USE DEF new
    <3>2. archives' = [archives EXCEPT ![Audit!Status] = k] /\ launcher'.at = "sync"
          /\ launcher.at = "manifest"
      BY <3>1, <2>5, <1>1 DEF Audit!WriteManifest, Audit!Writes, Audit!AuditInv,
         Audit!AuditTypes, Audit!Launchers
    <3>3. "files" \in old.entries
      BY <3>2 DEF Audit!AuditInv, Audit!ArchiveIsOwn, Audit!Marked
    <3> QED BY <3>1, <3>2, <2>2, <2>3, <3>3 DEF Audit!Writing, Audit!Listed
  <2>6. CASE Audit!SyncManifest
    <3>1. PICK k \in Audit!Archives :
            /\ k = [old EXCEPT !.synced = old.entries]
            /\ k.of = old.of /\ k.claim = old.claim
            /\ k.entries = old.entries /\ k.synced = old.entries
      <4>1. old.entries \in SUBSET {"files", "HANDOFF.json", "HANDOFF-COMPLETE"}
        BY <2>2 DEF Audit!Archives
      <4> QED BY ZenonT(40), <4>1, <2>2, ArchiveEdits
    <3>2. archives' = [archives EXCEPT ![Audit!Status] = k] /\ launcher'.at = "mark"
          /\ launcher.at = "sync"
      BY <3>1, <2>6, <1>1 DEF Audit!SyncManifest, Audit!SyncDirectory, Audit!AuditInv,
         Audit!AuditTypes, Audit!Launchers
    <3>3. Audit!Listed \subseteq old.entries
      BY <3>2 DEF Audit!AuditInv, Audit!ArchiveIsOwn, Audit!Marked
    <3> QED BY <3>1, <3>2, <2>2, <2>3, <3>3 DEF Audit!Writing, Audit!Listed
  <2>7. CASE Audit!WriteComplete
    <3> DEFINE new == old.entries \cup {"HANDOFF-COMPLETE"}
    <3>0. old \in Audit!Archives /\ new \in SUBSET {"files", "HANDOFF.json", "HANDOFF-COMPLETE"}
      BY <2>2 DEF Audit!Archives
    <3> HIDE DEF new
    <3>1. PICK k \in Audit!Archives :
            /\ k = [old EXCEPT !.entries = new]
            /\ k.of = old.of /\ k.claim = old.claim
            /\ k.entries = new /\ k.synced = old.synced
      <4>1. PICK a \in Audit!Archives : a = old
        BY <3>0
      <4>2. \E k \in Audit!Archives :
               /\ k = [a EXCEPT !.entries = new] /\ k.of = a.of /\ k.claim = a.claim
               /\ k.entries = new /\ k.synced = a.synced
        BY <3>0, ArchiveEdits
      <4> QED BY <4>1, <4>2
    <3> USE DEF new
    <3>2. archives' = [archives EXCEPT ![Audit!Status] = k] /\ launcher'.at = "sync mark"
          /\ launcher.at = "mark"
      BY <3>1, <2>7, <1>1 DEF Audit!WriteComplete, Audit!Writes, Audit!AuditInv,
         Audit!AuditTypes, Audit!Launchers
    <3>3. Audit!Listed \subseteq old.synced
      BY <3>2 DEF Audit!AuditInv, Audit!ArchiveIsOwn, Audit!Marked
    <3> QED BY <3>1, <3>2, <2>2, <2>3, <3>3 DEF Audit!Writing, Audit!Listed
  <2>8. CASE Audit!SyncComplete
    <3>1. PICK k \in Audit!Archives :
            /\ k = [old EXCEPT !.synced = old.entries]
            /\ k.of = old.of /\ k.claim = old.claim
            /\ k.entries = old.entries /\ k.synced = old.entries
      <4>1. old.entries \in SUBSET {"files", "HANDOFF.json", "HANDOFF-COMPLETE"}
        BY <2>2 DEF Audit!Archives
      <4> QED BY <4>1, <2>2, ArchiveEdits
    <3>2. archives' = [archives EXCEPT ![Audit!Status] = k] /\ launcher'.at = "cleanup"
          /\ launcher.at = "sync mark"
      BY <3>1, <2>8, <1>1 DEF Audit!SyncComplete, Audit!SyncDirectory, Audit!AuditInv,
         Audit!AuditTypes, Audit!Launchers
    <3>3. Audit!Listed \subseteq old.synced /\ "HANDOFF-COMPLETE" \in old.entries
      BY <3>2 DEF Audit!AuditInv, Audit!ArchiveIsOwn, Audit!Marked
    <3> QED BY <3>1, <3>2, <2>2, <2>3, <3>3 DEF Audit!Writing, Audit!Listed
  <2> QED BY <2>1, <2>4, <2>5, <2>6, <2>7, <2>8
<1>6. /\ archives' \in [Audit!Statuses -> Audit!Archives] /\ archives'[Audit!Status] = k
      /\ \A s \in Audit!Statuses : s # Audit!Status => archives'[s] = archives[s]
  BY <1>3, <1>4, <1>5
<1>7. Audit!AuditTypes'
  BY <1>1, <1>6 DEF Audit!AuditInv, Audit!AuditTypes, Audit!world, Audit!Launchers,
     Audit!Writing
<1>8. Audit!BootFollows' /\ Audit!ResultIsEvidence'
  BY <1>1, <1>3 DEF Audit!AuditInv, Audit!BootFollows, Audit!ResultIsEvidence, Audit!Early,
     Audit!Judging, Audit!Writing, Audit!ReceiptValid, Audit!Status
<1>9. Audit!ArchiveIsOwn'
  <2>1. Audit!Status' = Audit!Status
    BY <1>3 DEF Audit!Status
  <2> QED
    BY <1>1, <1>3, <1>5, <1>6, <2>1
    DEF Audit!ArchiveIsOwn, Audit!Marked, Audit!Early, Audit!Judging, Audit!Writing
<1>10. Audit!ArchivesHold'
  <2> SUFFICES ASSUME NEW s \in Audit!Statuses
               PROVE  /\ archives'[s].of <= audit
                      /\ archives'[s].synced \subseteq archives'[s].entries
                      /\ archives'[s].of = 0 => archives'[s].entries = {}
                      /\ archives'[s].of # 0 => archives'[s].claim.status = s
                      /\ "HANDOFF-COMPLETE" \in archives'[s].entries
                         => Audit!Listed \subseteq archives'[s].synced
                      /\ s = "complete" /\ archives'[s].of = audit
                            => /\ archives'[s].claim.tool = launcher.bound
                               /\ archives'[s].claim.card = launcher.card
    BY <1>1 DEF Audit!ArchivesHold, Audit!Marked, Audit!ReceiptValid
  <2>1. CASE s = Audit!Status
    <3>1. audit \in Nat /\ audit # 0
      BY NilAssumption, AuditsAssumption DEF Audit!AuditInv, Audit!AuditTypes, Audit!Audits
    <3>2. archives'[s] = k /\ launcher.result.status = s
      BY <2>1, <1>6 DEF Audit!Status
    <3>3. s = "complete" => k.claim.tool = launcher.bound /\ k.claim.card = launcher.card
      BY <2>1, <1>3, <1>5 DEF Audit!ReceiptValid
    <3>4. /\ k.of = audit /\ k.claim = launcher.result /\ k.synced \subseteq k.entries
          /\ "HANDOFF-COMPLETE" \in k.entries => Audit!Listed \subseteq k.synced
      BY <1>5
    <3> QED BY <3>1, <3>2, <3>3, <3>4
  <2>2. CASE s # Audit!Status
    BY <2>2, <1>6 DEF Audit!AuditInv, Audit!ArchivesHold, Audit!Marked, Audit!ReceiptValid
  <2> QED BY <2>1, <2>2
<1> QED BY <1>7, <1>8, <1>9, <1>10 DEF Audit!AuditInv

(* The launcher ends, is started again, and the world around it changes. *)
LEMMA AuditEnds ==
    ASSUME Audit!AuditInv, Audit!CleanupEvidence \/ Audit!LauncherFails \/ Audit!PowerLoss
           \/ Audit!RunAgain \/ Audit!WorldChanges
    PROVE  Audit!AuditInv'
<1> DEFINE workspace == x1  reader == x2  mounted == x3  audit == x5  launcher == x6
           bootstrap == x7  evidence == x8  archives == x9
<1> USE DEF Audit!LauncherAt, Audit!Goes
<1>1. CASE Audit!CleanupEvidence
  <2>1. /\ UNCHANGED <<Audit!world, audit, bootstrap, archives>> /\ launcher.at = "cleanup"
        /\ launcher' = [launcher EXCEPT !.at = "ended"]
        /\ evidence' = [evidence EXCEPT ![audit] = Audit!NoEvidence] \/ evidence' = evidence
    BY <1>1 DEF Audit!AuditInv, Audit!AuditTypes, Audit!CleanupEvidence
  <2>2. Audit!NoEvidence \in Audit!Evidences
    BY DEF Audit!NoEvidence, Audit!Evidences
  <2>3. Audit!AuditTypes' /\ launcher'.at = "ended" /\ launcher'.bound = launcher.bound
        /\ launcher'.card = launcher.card
    BY <2>1, <2>2 DEF Audit!AuditInv, Audit!AuditTypes, Audit!world, Audit!Launchers,
       Audit!Bootstraps
  <2>4. Audit!BootFollows'
    BY <2>1, <2>3 DEF Audit!AuditInv, Audit!AuditTypes, Audit!BootFollows, Audit!Early,
       Audit!Audits
  <2>5. Audit!ResultIsEvidence' /\ Audit!ArchiveIsOwn' /\ Audit!ArchivesHold'
    BY <2>1, <2>3 DEF Audit!AuditInv, Audit!ResultIsEvidence, Audit!ArchiveIsOwn,
       Audit!ArchivesHold, Audit!Early, Audit!Judging, Audit!Writing, Audit!Marked,
       Audit!ReceiptValid
  <2> QED BY <2>3, <2>4, <2>5 DEF Audit!AuditInv
<1>2. CASE Audit!LauncherFails
  <2>1. /\ UNCHANGED <<Audit!world, audit, evidence, archives>>
        /\ launcher' = [launcher EXCEPT !.at = "ended"]
        /\ bootstrap' = [bootstrap EXCEPT !.at = "ended"]
    BY <1>2 DEF Audit!LauncherFails
  <2>2. Audit!AuditTypes' /\ launcher'.at = "ended" /\ launcher'.bound = launcher.bound
        /\ launcher'.card = launcher.card /\ bootstrap'.at = "ended"
    BY <2>1 DEF Audit!AuditInv, Audit!AuditTypes, Audit!world, Audit!Launchers, Audit!Bootstraps
  <2>3. Audit!BootFollows' /\ Audit!ResultIsEvidence'
    BY <2>1, <2>2 DEF Audit!AuditInv, Audit!BootFollows, Audit!ResultIsEvidence, Audit!Early,
       Audit!Judging, Audit!Writing
  <2>4. Audit!ArchiveIsOwn' /\ Audit!ArchivesHold'
    BY <2>1, <2>2 DEF Audit!AuditInv, Audit!ArchiveIsOwn, Audit!ArchivesHold, Audit!Early,
       Audit!Judging, Audit!Writing, Audit!Marked, Audit!ReceiptValid
  <2> QED BY <2>2, <2>3, <2>4 DEF Audit!AuditInv
<1>3. CASE Audit!PowerLoss
  <2>1. PICK keep \in SUBSET {"files", "HANDOFF.json", "HANDOFF-COMPLETE"} :
          archives' = [s \in DOMAIN archives |->
              [archives[s] EXCEPT
                  !.entries = archives[s].synced \cup (keep \cap archives[s].entries),
                  !.synced = archives[s].synced \cup (keep \cap archives[s].entries)]]
    BY <1>3 DEF Audit!PowerLoss
  <2>2. /\ UNCHANGED <<Audit!world, audit, evidence>>
        /\ launcher' = [launcher EXCEPT !.at = "ended"]
        /\ bootstrap' = [bootstrap EXCEPT !.at = "ended", !.stage = Nil]
    BY <1>3 DEF Audit!PowerLoss
  <2>3. \A s \in Audit!Statuses :
           /\ archives'[s].of = archives[s].of /\ archives'[s].claim = archives[s].claim
           /\ archives'[s].entries = archives[s].synced \cup (keep \cap archives[s].entries)
           /\ archives'[s].synced = archives'[s].entries
    BY <2>1 DEF Audit!AuditInv, Audit!AuditTypes, Audit!Archives
  <2>4. archives' \in [Audit!Statuses -> Audit!Archives]
    BY <2>1 DEF Audit!AuditInv, Audit!AuditTypes, Audit!Archives
  <2>5. Audit!AuditTypes' /\ launcher'.at = "ended" /\ launcher'.bound = launcher.bound
        /\ launcher'.card = launcher.card /\ bootstrap'.at = "ended"
    BY <2>2, <2>4 DEF Audit!AuditInv, Audit!AuditTypes, Audit!world, Audit!Launchers,
       Audit!Bootstraps
  <2>6. Audit!BootFollows' /\ Audit!ResultIsEvidence' /\ Audit!ArchiveIsOwn'
    BY <2>2, <2>5 DEF Audit!AuditInv, Audit!BootFollows, Audit!ResultIsEvidence,
       Audit!ArchiveIsOwn, Audit!Early, Audit!Judging, Audit!Writing
  <2>7. Audit!ArchivesHold'
    <3> SUFFICES ASSUME NEW s \in Audit!Statuses
                 PROVE  /\ archives'[s].of <= audit
                        /\ archives'[s].synced \subseteq archives'[s].entries
                        /\ archives'[s].of = 0 => archives'[s].entries = {}
                        /\ archives'[s].of # 0 => archives'[s].claim.status = s
                        /\ "HANDOFF-COMPLETE" \in archives'[s].entries
                              => Audit!Listed \subseteq archives'[s].synced
                        /\ s = "complete" /\ archives'[s].of = audit
                              => /\ archives'[s].claim.tool = launcher.bound
                                 /\ archives'[s].claim.card = launcher.card
      BY <2>2, <2>5 DEF Audit!ArchivesHold, Audit!Marked, Audit!ReceiptValid
    <3> QED BY <2>3 DEF Audit!AuditInv, Audit!ArchivesHold, Audit!Marked, Audit!ReceiptValid
  <2> QED BY SMTT(20), <2>5, <2>6, <2>7 DEF Audit!AuditInv
<1>4. CASE Audit!RunAgain
  <2>1. /\ UNCHANGED <<Audit!world, evidence,
                archives>> /\ launcher' = Audit!Idle /\ bootstrap' = Audit!NotStarted
        /\ audit' = audit + 1 /\ audit' \in Audit!Audits /\ audit \in Audit!Audits
    BY <1>4, NilAssumption, AuditsAssumption DEF Audit!RunAgain, Audit!AuditInv,
       Audit!AuditTypes, Audit!Audits
  <2>2. Audit!AuditTypes' /\ launcher'.at = "bind" /\ bootstrap'.at = "off"
    BY <2>1 DEF Audit!AuditInv, Audit!AuditTypes, Audit!world, Audit!Idle, Audit!NotStarted,
       Audit!Launchers, Audit!Bootstraps
  <2>3. Audit!BootFollows'
    BY <2>1, <2>2, NilAssumption, AuditsAssumption DEF Audit!AuditInv, Audit!BootFollows,
       Audit!Audits, Audit!Early
  <2>4. /\ audit \in Nat /\ \A s \in Audit!Statuses : archives[s].of \in Nat
           /\ archives[s].of <= audit
        /\ archives' = archives
    BY <2>1, NilAssumption, AuditsAssumption DEF Audit!AuditInv, Audit!AuditTypes,
       Audit!ArchivesHold, Audit!Audits, Audit!Archives
  <2>5. \A s \in Audit!Statuses : archives'[s].of <= audit' /\ archives'[s].of # audit'
    BY <2>1, <2>4
  <2>6. Audit!ResultIsEvidence' /\ Audit!ArchiveIsOwn'
    BY <2>2, <2>5 DEF Audit!ResultIsEvidence, Audit!ArchiveIsOwn, Audit!Judging, Audit!Writing
  <2>7. Audit!ArchivesHold'
    BY <2>4, <2>5 DEF Audit!AuditInv, Audit!ArchivesHold, Audit!Marked
  <2> QED BY <2>2, <2>3, <2>6, <2>7 DEF Audit!AuditInv
<1>5. CASE Audit!WorldChanges
  <2>1. UNCHANGED <<audit, launcher, bootstrap, evidence, archives>>
        /\ workspace' \in ToolVersions /\ reader' \in Cards /\ mounted' \in Disks
    BY <1>5 DEF Audit!WorldChanges, Audit!AuditInv, Audit!AuditTypes
  <2>2. Audit!Status' = Audit!Status
    BY <2>1 DEF Audit!Status
  <2>3. Audit!AuditTypes' /\ Audit!BootFollows' /\ Audit!ArchivesHold'
    BY <2>1 DEF Audit!AuditInv, Audit!AuditTypes, Audit!BootFollows, Audit!ArchivesHold,
       Audit!Marked, Audit!ReceiptValid
  <2>4. Audit!ResultIsEvidence' /\ Audit!ArchiveIsOwn'
    BY <2>1, <2>2 DEF Audit!AuditInv, Audit!ResultIsEvidence, Audit!ArchiveIsOwn, Audit!Marked,
       Audit!ReceiptValid
  <2> QED BY <2>3, <2>4 DEF Audit!AuditInv
<1> QED BY <1>1, <1>2, <1>3, <1>4, <1>5

LEMMA AuditStepHolds ==
    ASSUME Audit!AuditInv, [Audit!AuditNext]_(Audit!auditVars)
    PROVE  Audit!AuditInv'
<1> DEFINE workspace == x1  reader == x2  mounted == x3  audit == x5  launcher == x6
           bootstrap == x7  evidence == x8  archives == x9
<1>1. CASE UNCHANGED Audit!auditVars
  <2>1. UNCHANGED <<workspace, reader, mounted, audit, launcher, bootstrap, evidence, archives>>
    BY <1>1 DEF Audit!auditVars
  <2>2. Audit!Status' = Audit!Status
    BY <2>1 DEF Audit!Status
  <2>3. Audit!AuditTypes' /\ Audit!BootFollows' /\ Audit!ArchivesHold'
    BY <2>1 DEF Audit!AuditInv, Audit!AuditTypes, Audit!BootFollows, Audit!ArchivesHold,
       Audit!Marked, Audit!ReceiptValid
  <2>4. Audit!ResultIsEvidence' /\ Audit!ArchiveIsOwn'
    BY <2>1, <2>2 DEF Audit!AuditInv, Audit!ResultIsEvidence, Audit!ArchiveIsOwn, Audit!Marked,
       Audit!ReceiptValid
  <2> QED BY <2>3, <2>4 DEF Audit!AuditInv
<1> QED
  BY <1>1, AuditEarly, AuditBoot, AuditFinds, AuditJudges, AuditArchives,
     AuditEnds DEF Audit!AuditNext

LEMMA AuditKeepsEvidence ==
    ASSUME Audit!AuditInv, [Audit!AuditNext]_(Audit!auditVars)
    PROVE  Audit!EvidenceIsKept
<1> DEFINE audit == x5  launcher == x6  evidence == x8  archives == x9
<1> SUFFICES ASSUME NEW a \in Audit!Audits, evidence[a].status # Nil, evidence'[a].status = Nil
             PROVE  \E s \in Audit!Statuses :
                       /\ archives[s].of = a /\ archives[s].claim = evidence[a]
                       /\ "HANDOFF-COMPLETE" \in archives[s].synced
  BY DEF Audit!EvidenceIsKept, Audit!AuditInv, Audit!AuditTypes
<1>1. evidence' # evidence
  OBVIOUS
<1>2. CASE Audit!AuditTool
  <2>1. evidence[audit] = Audit!NoEvidence /\ audit \in Audit!Audits
    BY <1>2 DEF Audit!AuditInv, Audit!AuditTypes, Audit!BootFollows, Audit!AuditTool,
       Audit!BootAt
  <2>2. \A b \in Audit!Audits : b # audit => evidence'[b] = evidence[b]
    BY <1>2 DEF Audit!AuditInv, Audit!AuditTypes, Audit!AuditTool
  <2> QED BY <2>1, <2>2 DEF Audit!NoEvidence
<1>3. CASE Audit!ExactFiles
  BY <1>3 DEF Audit!AuditInv, Audit!AuditTypes, Audit!ExactFiles, Audit!Evidences
<1>4. CASE Audit!CleanupEvidence
  <2>1. a = audit /\ evidence[audit] = launcher.result /\ launcher.at = "cleanup"
    BY <1>4 DEF Audit!AuditInv, Audit!AuditTypes, Audit!CleanupEvidence, Audit!LauncherAt
  <2>2. Audit!Status \in Audit!Statuses
    BY <2>1 DEF Audit!AuditInv, Audit!ResultIsEvidence, Audit!Writing
  <2>3. /\ archives[Audit!Status].of = a /\ archives[Audit!Status].claim = evidence[a]
        /\ "HANDOFF-COMPLETE" \in archives[Audit!Status].synced
    BY <2>1 DEF Audit!AuditInv, Audit!ArchiveIsOwn, Audit!Writing
  <2> QED BY <2>2, <2>3
<1> QED
  BY <1>1, <1>2, <1>3, <1>4
  DEF Audit!AuditNext, Audit!auditVars, Audit!BindRelease, Audit!SelectCandidate,
      Audit!ArchiveIdentity, Audit!OpenArchive, Audit!Authorize, Audit!FreezeStage,
      Audit!StartAudit, Audit!CleanupStage, Audit!SendHandoff, Audit!BootstrapFails,
      Audit!KillGroup, Audit!TakeHandoff, Audit!Revalidate, Audit!ValidateReceipt,
      Audit!MakeArchive, Audit!WriteFiles, Audit!WriteManifest, Audit!SyncManifest,
      Audit!WriteComplete, Audit!SyncComplete, Audit!LauncherFails, Audit!Forward,
      Audit!PowerLoss, Audit!RunAgain, Audit!WorldChanges

AuditPart == part = "audit" => Audit!AuditInv

(* For any number of starts of one audit id, cards, disks and power losses, an      *)
(* archive with HANDOFF-COMPLETE has every file its manifest names and is the audit *)
(* of the selected card by the bound tool (r46h_card_macos_readonly.py).            *)
THEOREM HandoffsAreTrue == Spec => []HandoffIsTrue
<1>1. Init => AuditPart
  BY AuditBegins
  DEF Init, AuditPart
<1>2. AuditPart /\ [Next]_mcVars
      => AuditPart'
  BY OwnSteps, AuditStepHolds
  DEF AuditPart
<1>3. AuditPart => HandoffIsTrue
  BY AuditIsTrue
  DEF AuditPart, HandoffIsTrue
<1> QED
  BY <1>1, <1>2, <1>3, PTL DEF Spec

-----------------------------------------------------------------------------
(* The generator of bundles.  It reads the package once and copies its file again   *)
(* later, while others may replace it; the archive is only published by the one     *)
(* that holds the directory.                                                        *)
USE DEF Bundle!repoVars

(* A step of one generator that publishes nothing keeps the invariant when what *)
(* it comes to know is true and it does not claim the directory anew.           *)
LEMMA OneGenerator ==
    ASSUME NEW b \in Builders, Bundle!BundleInv, NEW g \in Bundle!Generators,
           x6' = [x6 EXCEPT ![b] = g], Bundle!Knows(g),
           g.at \in Bundle!DirOut => x6[b].at \in Bundle!DirOut
             /\ Bundle!BundleOf(b, g) = Bundle!BundleOf(b, x6[b]),
           UNCHANGED <<x1, x3, x4, x5>>
    PROVE  Bundle!BundleInv'
<1> DEFINE gen == x6
<1>1. \A d \in Builders : gen'[d] = IF d = b THEN g ELSE gen[d]
  BY DEF Bundle!BundleInv
<1>2. gen' = [d \in Builders |-> gen'[d]]
  BY DEF Bundle!BundleInv
<1>3. Bundle!GenInv'
  BY <1>1 DEF Bundle!BundleInv, Bundle!GenInv, Bundle!Knows
<1>4. Bundle!DirIsHeld'
  BY <1>1 DEF Bundle!BundleInv, Bundle!DirIsHeld
<1>5. Bundle!PairFromOneBuilder' /\ Bundle!BundleIsOnePackage'
  BY DEF Bundle!BundleInv, Bundle!PairFromOneBuilder, Bundle!BundleIsOnePackage
<1> QED
  BY <1>2, <1>3, <1>4, <1>5 DEF Bundle!BundleInv

(* The steps that only go on keep all a generator knows. *)
LEMMA MovesOn ==
    ASSUME NEW b \in Builders, Bundle!BundleInv,
           \/ Bundle!ConfirmBinding(b) \/ Bundle!OutputsAbsent(b) \/ Bundle!ArchiveStage(b)
           \/ Bundle!RecheckBinding(b)
           \/ Bundle!FinalCheck(b) \/ Bundle!GiveUp(b)
    PROVE  \E g : Bundle!Goes(b, g)
<1> DEFINE repoHead == x1  packageFile == x3  bundleDir == x4  bundleTar == x5  gen == x6
<1> DEFINE g(where) == [gen[b] EXCEPT !.at = where]
<1>1. gen[b] \in Bundle!Generators /\ Bundle!Knows(gen[b])
  BY DEF Bundle!BundleInv, Bundle!GenInv
<1>2. PICK where \in Bundle!Places :
        /\ gen' = [gen EXCEPT ![b] = g(where)]
        /\ where \in Bundle!HeadBound => gen[b].at \in Bundle!HeadBound
        /\ where \in Bundle!Copied => gen[b].at \in Bundle!Copied
        /\ where \in Bundle!DirOut => gen[b].at \in Bundle!DirOut
        /\ UNCHANGED <<repoHead, packageFile, bundleDir, bundleTar>>
  <2> USE DEF Bundle!Places, Bundle!PackageRead, Bundle!HeadBound, Bundle!Copied,
              Bundle!DirOut, Bundle!At, Bundle!Step
  <2>1. CASE Bundle!ConfirmBinding(b)
    BY <2>1 DEF Bundle!ConfirmBinding
  <2>2. CASE Bundle!OutputsAbsent(b)
    BY <2>2 DEF Bundle!OutputsAbsent
  <2>3. CASE Bundle!ArchiveStage(b)
    BY <2>3 DEF Bundle!ArchiveStage
  <2>4. CASE Bundle!RecheckBinding(b)
    BY <2>4 DEF Bundle!RecheckBinding
  <2>5. CASE Bundle!FinalCheck(b)
    BY <2>5 DEF Bundle!FinalCheck
  <2>6. CASE Bundle!GiveUp(b)
    BY <2>6 DEF Bundle!GiveUp
  <2> QED BY <2>1, <2>2, <2>3, <2>4, <2>5, <2>6
<1>3. /\ g(where) \in Bundle!Generators /\ g(where).at = where
      /\ g(where).package = gen[b].package /\ g(where).bound = gen[b].bound
      /\ g(where).copy = gen[b].copy /\ g(where).policy = gen[b].policy
  BY <1>1 DEF Bundle!Generators
<1>4. Bundle!Knows(g(where))
  BY <1>1, <1>2, <1>3 DEF Bundle!Knows
<1>5. Bundle!BundleOf(b, g(where)) = Bundle!BundleOf(b, gen[b])
  BY <1>3 DEF Bundle!BundleOf
<1> HIDE DEF g
<1> QED
  BY <1>2, <1>3, <1>4, <1>5 DEF Bundle!Goes

(* The steps that learn something: the package, the commit, the copy. *)
LEMMA Learns ==
    ASSUME NEW b \in Builders, Bundle!BundleInv,
           Bundle!OpenPackage(b) \/ Bundle!ReadPackage(b) \/ Bundle!BindHead(b)
             \/ Bundle!StageFiles(b) \/ Bundle!Rerun(b)
    PROVE  \E g : Bundle!Goes(b, g)
<1> DEFINE repoHead == x1  packageFile == x3  bundleDir == x4  bundleTar == x5  gen == x6
<1> USE DEF Bundle!Places, Bundle!PackageRead, Bundle!HeadBound, Bundle!Copied, Bundle!DirOut,
            Bundle!At, Bundle!Knows, Bundle!Generators, Bundle!Goes
<1>1. gen[b] \in Bundle!Generators /\ Bundle!Knows(gen[b])
  BY DEF Bundle!BundleInv, Bundle!GenInv
<1>2. repoHead \in Heads /\ packageFile \in PackageVersions
  BY DEF Bundle!BundleInv
<1>3. CASE Bundle!OpenPackage(b)
  <2> DEFINE g == [gen[b] EXCEPT !.at = "reading", !.opened = packageFile]
  <2>1. g \in Bundle!Generators /\ g.at = "reading"
    BY <1>1, <1>2
  <2>2. /\ gen' = [gen EXCEPT ![b] = g]
        /\ UNCHANGED <<repoHead, packageFile, bundleDir, bundleTar>>
    BY <1>3 DEF Bundle!OpenPackage
  <2> HIDE DEF g
  <2> QED BY <2>1, <2>2
<1>4. CASE Bundle!ReadPackage(b)
  <2> DEFINE g == [gen[b] EXCEPT !.at = "bind", !.package = gen[b].opened]
  <2>1. g \in Bundle!Generators /\ g.at = "bind"
    BY <1>1
  <2>2. /\ gen' = [gen EXCEPT ![b] = g]
        /\ UNCHANGED <<repoHead, packageFile, bundleDir, bundleTar>>
    BY <1>4 DEF Bundle!ReadPackage
  <2> HIDE DEF g
  <2> QED BY <2>1, <2>2
<1>5. CASE Bundle!BindHead(b)
  <2> DEFINE g == [gen[b] EXCEPT !.at = "bound", !.bound = repoHead]
  <2>1. g \in Bundle!Generators /\ g.at = "bound" /\ g.package = gen[b].package
        /\ g.bound = repoHead
    BY <1>1, <1>2
  <2>2. /\ gen' = [gen EXCEPT ![b] = g]
        /\ UNCHANGED <<repoHead, packageFile, bundleDir, bundleTar>>
    BY <1>5 DEF Bundle!BindHead
  <2>3. Bundle!Knows(g)
    BY <1>5, <2>1 DEF Bundle!BindHead
  <2> HIDE DEF g
  <2> QED BY <2>1, <2>2, <2>3
<1>6. CASE Bundle!StageFiles(b)
  <2> DEFINE g == [gen[b] EXCEPT !.at = "staged", !.copy = packageFile]
  <2>1. /\ g \in Bundle!Generators /\ g.at = "staged" /\ g.package = gen[b].package
        /\ g.bound = gen[b].bound /\ g.copy = packageFile
    BY <1>1, <1>2
  <2> QED
    BY ZenonT(40), <1>1, <1>6, <2>1
       DEF Bundle!StageFiles, Bundle!CopyVerified, Bundle!SourceUnchanged
<1>7. CASE Bundle!Rerun(b)
  <2> DEFINE g == [Bundle!Fresh EXCEPT !.policy = gen[b].policy]
  <2>1. g \in Bundle!Generators /\ g.at = "read"
    BY <1>1 DEF Bundle!Fresh
  <2> QED BY <1>7, <2>1 DEF Bundle!Rerun
<1> QED
  BY <1>3, <1>4, <1>5, <1>6, <1>7

(* The one that gets the directory shuts the others out of the archive. *)
LEMMA PublishStep ==
    ASSUME NEW b \in Builders, Bundle!BundleInv, Nil \notin Bundle!Bundles,
           Bundle!PublishDir(b) \/ Bundle!PublishTar(b)
    PROVE  Bundle!BundleInv'
<1> DEFINE repoHead == x1  packageFile == x3  bundleDir == x4  bundleTar == x5  gen == x6
<1> DEFINE where == IF Bundle!PublishDir(b) THEN "dir out" ELSE "both out"
           g == [gen[b] EXCEPT !.at = where]
<1>1. /\ gen' = [gen EXCEPT ![b] = g]
      /\ gen[b].at \in Bundle!Copied \cap Bundle!HeadBound
      /\ UNCHANGED <<repoHead, packageFile>>
  BY DEF Bundle!PublishDir, Bundle!PublishTar, Bundle!At, Bundle!Step, Bundle!Copied,
     Bundle!HeadBound, Bundle!PackageRead
<1>2. gen[b] \in Bundle!Generators /\ Bundle!Knows(gen[b])
  BY DEF Bundle!BundleInv, Bundle!GenInv
<1>3. /\ g \in Bundle!Generators /\ g.at = where
      /\ g.package = gen[b].package /\ g.bound = gen[b].bound
      /\ g.copy = gen[b].copy /\ g.policy = gen[b].policy
  BY <1>2 DEF Bundle!Generators, Bundle!Places, Bundle!PackageRead
<1>4. Bundle!Knows(g) /\ Bundle!BundleOf(b, g) = Bundle!BundleOf(b, gen[b])
  BY <1>1, <1>2, <1>3 DEF Bundle!Knows, Bundle!BundleOf
<1>5. Bundle!Output(b) = Bundle!BundleOf(b, gen[b])
  BY DEF Bundle!Output, Bundle!BundleOf
<1>6. /\ Bundle!BundleOf(b, gen[b]) \in Bundle!Bundles
      /\ Bundle!BundleOf(b, gen[b]).files = Bundle!BundleOf(b, gen[b]).tar
      /\ CommitIn[Bundle!BundleOf(b, gen[b]).files] = Bundle!BundleOf(b, gen[b]).commit
      /\ Bundle!DeploymentRelates(Bundle!BundleOf(b, gen[b]).files)
  BY <1>1, <1>2 DEF Bundle!BundleOf, Bundle!Bundles, Bundle!Generators, Bundle!Knows
<1> HIDE DEF g, where
<1>7. \A d \in Builders : gen'[d] = IF d = b THEN g ELSE gen[d]
  BY <1>1 DEF Bundle!BundleInv
<1>8. gen' = [d \in Builders |-> gen'[d]] /\ Bundle!GenInv'
  BY <1>1, <1>3, <1>4, <1>7 DEF Bundle!BundleInv, Bundle!GenInv, Bundle!Knows
<1>9. CASE Bundle!PublishDir(b)
  <2>1. bundleDir = Nil /\ bundleDir' = Bundle!Output(b) /\ bundleTar' = bundleTar
    BY <1>9 DEF Bundle!PublishDir, Bundle!NoReplace
  <2>2. \A d \in Builders : gen[d].at \notin Bundle!DirOut
    <3>1. \A d \in Builders : Bundle!BundleOf(d, gen[d]) \in Bundle!Bundles
      BY DEF Bundle!BundleInv, Bundle!GenInv, Bundle!BundleOf, Bundle!Bundles, Bundle!Generators
    <3> QED BY <2>1, <3>1 DEF Bundle!BundleInv, Bundle!DirIsHeld
  <2>3. bundleTar = Nil
    BY <2>1 DEF Bundle!BundleInv, Bundle!PairFromOneBuilder
  <2>4. Bundle!DirIsHeld'
    BY <1>4, <1>5, <1>7, <2>1, <2>2 DEF Bundle!DirIsHeld
  <2>5. Bundle!PairFromOneBuilder' /\ Bundle!BundleIsOnePackage'
    BY <1>5, <1>6, <2>1, <2>3 DEF Bundle!PairFromOneBuilder, Bundle!BundleIsOnePackage
  <2> QED
    BY <1>1, <1>5, <1>6, <1>8, <2>1, <2>4, <2>5 DEF Bundle!BundleInv
<1>10. CASE Bundle!PublishTar(b)
  <2>1. gen[b].at = "dir out" /\ bundleTar' = Bundle!Output(b) /\ bundleDir' = bundleDir
    BY <1>10 DEF Bundle!PublishTar, Bundle!At
  <2>2. bundleDir = Bundle!BundleOf(b, gen[b])
    BY <2>1 DEF Bundle!BundleInv, Bundle!DirIsHeld, Bundle!DirOut
  <2>3. Bundle!DirIsHeld'
    BY <1>4, <1>7, <2>1, <2>2 DEF Bundle!BundleInv, Bundle!DirIsHeld
  <2>4. Bundle!PairFromOneBuilder' /\ Bundle!BundleIsOnePackage'
    BY <1>5, <2>1, <2>2 DEF Bundle!BundleInv, Bundle!PairFromOneBuilder,
       Bundle!BundleIsOnePackage
  <2> QED
    BY <1>1, <1>8, <2>1, <2>3, <2>4 DEF Bundle!BundleInv
<1> QED
  BY <1>9, <1>10

LEMMA BundleBegins ==
    ASSUME Bundle!BundleInit PROVE Bundle!BundleInv
<1> DEFINE gen == x6
<1>1. /\ gen = [b \in Builders |-> gen[b]]
      /\ \A b \in Builders : gen[b] \in Bundle!Generators /\ gen[b].at = "read"
  BY DEF Bundle!BundleInit, Bundle!Fresh, Bundle!Generators, Bundle!Places
<1> QED
  BY <1>1
  DEF Bundle!BundleInit, Bundle!BundleInv, Bundle!GenInv, Bundle!Knows, Bundle!DirIsHeld,
      Bundle!PairFromOneBuilder, Bundle!BundleIsOnePackage, Bundle!HeadBound, Bundle!Copied,
      Bundle!DirOut, Bundle!PackageRead

LEMMA BundleInductive ==
    ASSUME Bundle!BundleInv, Nil \notin Bundle!Bundles, [Bundle!BundleNext]_(Bundle!bundleVars)
    PROVE  Bundle!BundleInv'
<1> DEFINE repoHead == x1  packageFile == x3  bundleDir == x4  bundleTar == x5  gen == x6
<1>1. CASE Bundle!World \/ UNCHANGED Bundle!bundleVars
  <2>1. /\ repoHead' \in Heads /\ packageFile' \in PackageVersions
        /\ UNCHANGED <<bundleDir, bundleTar, gen>>
    BY <1>1 DEF Bundle!World, Bundle!bundleVars, Bundle!BundleInv
  <2> QED
    BY <2>1 DEF Bundle!BundleInv, Bundle!GenInv, Bundle!Knows, Bundle!DirIsHeld,
       Bundle!PairFromOneBuilder, Bundle!BundleIsOnePackage
<1>2. ASSUME NEW b \in Builders, \E g : Bundle!Goes(b, g)
      PROVE  Bundle!BundleInv'
  BY <1>2, OneGenerator DEF Bundle!Goes
<1> QED
  BY <1>1, <1>2, MovesOn, Learns, PublishStep DEF Bundle!BundleNext

HIDE DEF Bundle!repoVars

-----------------------------------------------------------------------------
(* The canonical package.  The scan has passed a beginning of a canonical archive;  *)
(* of the tree, what the walk has not visited is on its stack or below it, with the *)
(* left of it on top.                                                               *)
(* The members that the scan has passed, one more at a time. *)
LEMMA ScanCounts ==
    ASSUME NEW n \in Nat
    PROVE  /\ IsFiniteSet(Package!Counted(n)) /\ Cardinality(Package!Counted(n)) \in Nat
           /\ Cardinality(Package!Counted(n + 1)) =
                Cardinality(Package!Counted(n)) + (IF x2[n + 1] # "long" THEN 1 ELSE 0)
           /\ \A m \in Nat : m >= n
              => Cardinality(Package!Counted(n)) <= Cardinality(Package!Counted(m))
<1> DEFINE tar == x2
<1>1. \A m \in Nat : IsFiniteSet(Package!Counted(m)) /\ Cardinality(Package!Counted(m)) \in Nat
  <2> TAKE m \in Nat
  <2>1. IsFiniteSet(1 .. m) /\ Package!Counted(m) \in SUBSET (1 .. m)
    BY FS_Interval DEF Package!Counted
  <2> QED BY <2>1, FS_Subset, FS_CardinalityType
<1>2. Package!Counted(n + 1) = IF tar[n + 1] # "long" THEN Package!Counted(n)
      \cup {n + 1} ELSE Package!Counted(n)
  BY DEF Package!Counted
<1>3. n + 1 \notin Package!Counted(n)
  BY DEF Package!Counted
<1>4. Cardinality(Package!Counted(n) \cup {n + 1}) = Cardinality(Package!Counted(n)) + 1
  BY <1>1, <1>3, FS_AddElement
<1>5. ASSUME NEW m \in Nat, m >= n
      PROVE  Cardinality(Package!Counted(n)) <= Cardinality(Package!Counted(m))
  <2>1. Package!Counted(n) \in SUBSET Package!Counted(m)
    BY <1>5 DEF Package!Counted
  <2> QED BY <1>1, <2>1, FS_Subset
<1> QED BY <1>1, <1>2, <1>4, <1>5

LEMMA CanonicalEnds ==
    ASSUME Len(x2) \in Nat PROVE Package!Canonical(x2) <=> \E z \in Nat : Package!Ends(z)
<1> DEFINE tar == x2
<1>1. \A z \in 2 .. Len(tar) - 1 : z \in Nat
  OBVIOUS
<1> QED BY <1>1 DEF Package!Canonical, Package!Ends, Package!Counted

(* The zeros of a canonical archive begin where the scan finds the first one. *)
LEMMA EndsHere ==
    ASSUME Package!ScanInv, NEW z \in Nat, Package!Ends(z)
    PROVE  /\ x3 <= Len(x2) /\ x3 <= z
           /\ x2[x3] = "zero" => z = x3
           /\ x2[x3] # "zero" => x3 < z
<1> DEFINE tar == x2  pos == x3
<1>1. Len(tar) \in Nat /\ pos \in 1 .. Len(tar) + 1 /\ z \in 2 .. Len(tar) - 1
  BY DEF Package!ScanInv, Package!Ends
<1>2. pos <= z
  <2> SUFFICES ASSUME z < pos PROVE FALSE
    BY <1>1
  <2>1. z \in 1 .. pos - 1 /\ z \in z .. Len(tar)
    BY <1>1
  <2> QED BY <2>1 DEF Package!ScanInv, Package!Ends
<1>3. pos < z => tar[pos] # "zero"
  <2> SUFFICES ASSUME pos < z PROVE tar[pos] # "zero"
    OBVIOUS
  <2>1. pos \in 1 .. z - 1
    BY <1>1
  <2> QED BY <2>1 DEF Package!Ends
<1>4. pos = z => tar[pos] = "zero"
  BY <1>1 DEF Package!Ends
<1> QED BY <1>1, <1>2, <1>3, <1>4

LEMMA ScanDecides ==
    ASSUME Package!ScanInv, Package!Scan, x7' # "none"
    PROVE  x7' = "canonical" <=> Package!Canonical(x2)
<1> DEFINE tar == x2  pos == x3  longName == x4  headers == x5  members == x6
           verdict == x7
<1>0. /\ Len(tar) \in Nat /\ pos \in 1 .. Len(tar) + 1 /\ MaxHeaders \in Nat
      /\ MaxMembers \in Nat
      /\ headers = pos - 1 /\ members = Cardinality(Package!Counted(pos - 1))
      /\ members \in Nat /\ verdict = "none"
  <2>1. pos - 1 \in Nat
    BY DEF Package!ScanInv
  <2> QED BY <2>1, BudgetsAssumption, ScanCounts, CountsAlike DEF Package!ScanInv, Package!Scan
<1>1. CASE Package!EndMarker
  <2>1. tar[pos] = "zero" /\ pos <= Len(tar)
    BY <1>1 DEF Package!EndMarker
  <2>2. verdict' = "canonical" <=>
           ~longName /\ members > 0 /\ pos < Len(tar)
             /\ \A i \in pos .. Len(tar) : tar[i] = "zero"
    BY <1>1 DEF Package!EndMarker, Package!Decide
  <2>3. ASSUME ~longName, members > 0, pos < Len(tar),
               \A i \in pos .. Len(tar) : tar[i] = "zero"
        PROVE  Package!Ends(pos)
    <3>1. pos > 1
      <4> SUFFICES ASSUME pos = 1 PROVE FALSE
        BY <1>0
      <4>1. Package!Counted(pos - 1) = {}
        BY DEF Package!Counted
      <4>2. Cardinality({}) = 0
        BY FS_EmptySet
      <4>3. members = 0
        BY <1>0, <4>1, <4>2
      <4> QED BY <2>3, <4>3
    <3> QED BY <1>0, <2>3, <3>1 DEF Package!Ends, Package!ScanInv
  <2>4. ASSUME Package!Ends(pos) PROVE ~longName /\ members > 0 /\ pos < Len(tar)
    <3>1. pos - 1 \in Package!Counted(pos - 1)
      BY <1>0, <2>4 DEF Package!Ends, Package!Counted
    <3>2. IsFiniteSet(Package!Counted(pos - 1)) /\ Cardinality(Package!Counted(pos - 1)) \in Nat
      BY <1>0, ScanCounts
    <3>3. Cardinality(Package!Counted(pos - 1)) # 0
      BY <3>1, <3>2, FS_EmptySet
    <3> QED BY <1>0, <2>4, <3>2, <3>3 DEF Package!Ends, Package!ScanInv
  <2> QED BY <1>0, <2>1, <2>2, <2>3, <2>4, CanonicalEnds, EndsHere DEF Package!Ends
<1>2. ASSUME NEW z \in Nat, Package!Ends(z), ~Package!EndMarker PROVE FALSE
  <2>1. pos <= Len(tar) /\ pos < z /\ tar[pos] \in {"member", "named", "long"}
        /\ pos \in 1 .. z - 1
    BY <1>0, <1>2, EndsHere DEF Package!Ends, Package!EndMarker, Package!Scan,
       Package!LongName, Package!Member, Package!BadOrMissing
  <2>2. (tar[pos] = "named" <=> pos > 1 /\ tar[pos - 1] = "long")
    BY <1>2, <2>1 DEF Package!Ends
  <2>3. longName <=> tar[pos] = "named"
    BY <2>2 DEF Package!ScanInv
  <2>4. headers < MaxHeaders
    BY <1>0, <1>2, <2>1 DEF Package!Ends
  <2>5. tar[pos] # "long" => members < MaxMembers
    <3>1. Cardinality(Package!Counted(pos)) <= Cardinality(Package!Counted(z - 1))
      BY <1>0, <2>1, ScanCounts
    <3>2. /\ Cardinality(Package!Counted(pos)) =
               Cardinality(Package!Counted(pos - 1)) + (IF tar[pos] # "long" THEN 1 ELSE 0)
          /\ Cardinality(Package!Counted(pos - 1)) \in Nat
      <4>1. pos - 1 \in Nat /\ (pos - 1) + 1 = pos
        BY <1>0
      <4> QED BY <4>1, ScanCounts
    <3>3. Cardinality(Package!Counted(pos)) \in Nat
          /\ Cardinality(Package!Counted(z - 1)) \in Nat
      <4>1. pos \in Nat /\ z - 1 \in Nat
        BY <2>1
      <4> QED BY <4>1, ScanCounts
    <3>4. Cardinality(Package!Counted(z - 1)) <= MaxMembers
      BY <1>2, CountsAlike DEF Package!Ends
    <3> QED BY <1>0, <3>1, <3>2, <3>3, <3>4
  <2>6. ~Package!BadOrMissing /\ (Package!LongName \/ Package!Member)
    BY <1>2, <2>1 DEF Package!Scan, Package!BadOrMissing
  <2>7. longName \in BOOLEAN /\ verdict' # verdict
    BY <1>0 DEF Package!ScanInv
  <2>8. CASE Package!LongName
    <3>1. tar[pos] = "long" /\ ~longName /\ ~(headers >= MaxHeaders)
      BY <1>0, <2>3, <2>4, <2>8 DEF Package!LongName
    <3> QED BY <2>7, <2>8, <3>1 DEF Package!LongName
  <2>9. CASE Package!Member
    <3>1. /\ tar[pos] # "long" /\ (longName = (tar[pos] = "named"))
          /\ ~(headers >= MaxHeaders) /\ ~(members >= MaxMembers)
      <4>1. longName = (tar[pos] = "named")
        BY <2>3, <2>7, Zenon
      <4> QED BY <1>0, <2>4, <2>5, <2>9, <4>1 DEF Package!Member
    <3> QED BY <2>7, <2>9, <3>1 DEF Package!Member
  <2> QED BY <2>6, <2>8, <2>9
<1>3. ~Package!EndMarker => verdict' = "rejected"
  BY <1>0 DEF Package!Scan, Package!LongName, Package!Member, Package!BadOrMissing,
     Package!Decide
<1> QED BY <1>1, <1>2, <1>3, CanonicalEnds

LEMMA ScanHolds ==
    ASSUME Package!ScanInv, Package!Scan
    PROVE  Package!ScanInv'
<1> DEFINE tar == x2  pos == x3  longName == x4  headers == x5  members == x6
<1>0. /\ Len(tar) \in Nat /\ pos \in 1 .. Len(tar) + 1 /\ MaxHeaders \in Nat
      /\ MaxMembers \in Nat
      /\ headers = pos - 1 /\ members = Cardinality(Package!Counted(pos - 1))
      /\ members \in Nat /\ tar \in Seq(Package!Blocks)
  <2>1. pos - 1 \in Nat
    BY DEF Package!ScanInv
  <2> QED BY <2>1, BudgetsAssumption, ScanCounts, CountsAlike DEF Package!ScanInv, Package!Scan
<1>1. CASE UNCHANGED <<tar, pos, longName, headers, members>>
  BY <1>1 DEF Package!ScanInv, Package!Counted
<1>2. CASE ~UNCHANGED <<tar, pos, longName, headers, members>>
  <2>1. /\ tar' = tar /\ pos' = pos + 1 /\ headers' = headers + 1 /\ headers < MaxHeaders
        /\ pos <= Len(tar)
        /\ \/ /\ tar[pos] = "long" /\ longName' = TRUE /\ members' = members /\ ~longName
           \/ /\ tar[pos] \in {"member", "named"} /\ longName' = FALSE /\ members' = members + 1
              /\ members < MaxMembers /\ (longName <=> tar[pos] = "named")
    <3>1. longName \in BOOLEAN /\ ~Package!EndMarker /\ ~Package!BadOrMissing
      BY <1>2 DEF Package!ScanInv, Package!EndMarker, Package!BadOrMissing, Package!Decide
    <3>2. CASE Package!LongName
      BY <1>0, <1>2, <3>1, <3>2 DEF Package!LongName, Package!Decide
    <3>3. CASE Package!Member
      <4>1. /\ ~(longName # (tar[pos] = "named")) /\ ~(headers >= MaxHeaders)
            /\ ~(members >= MaxMembers)
        BY <1>2, <3>3 DEF Package!Member, Package!Decide
      <4>2. longName <=> tar[pos] = "named"
        BY <3>1, <4>1, Zenon
      <4> QED BY <1>0, <3>3, <4>1, <4>2 DEF Package!Member
    <3> QED BY <3>1, <3>2, <3>3 DEF Package!Scan
  <2>2. \A n : Package!Counted(n)' = Package!Counted(n)
    BY <2>1 DEF Package!Counted
  <2>3. members' = Cardinality(Package!Counted(pos))
    <3>1. pos - 1 \in Nat /\ (pos - 1) + 1 = pos
      BY <1>0
    <3>2. Cardinality(Package!Counted(pos)) =
            Cardinality(Package!Counted(pos - 1)) + (IF tar[pos] # "long" THEN 1 ELSE 0)
      BY <3>1, ScanCounts
    <3> QED BY <1>0, <2>1, <3>2
  <2>4. members' = Cardinality(Package!Counted(pos - 1))' /\ members' <= MaxMembers
    <3>1. pos' - 1 = pos
      BY <1>0, <2>1
    <3>2. Package!Counted(pos - 1)' = Package!Counted(pos)
      BY <2>1, <3>1 DEF Package!Counted
    <3>3. members' <= MaxMembers
      BY <1>0, <2>1 DEF Package!ScanInv
    <3> QED BY <2>3, <3>2, <3>3
  <2>5. pos' - 1 = pos /\ pos' \in 1 .. Len(tar) + 1 /\ headers' = pos' - 1
        /\ headers' <= MaxHeaders
    BY <1>0, <2>1
  <2>6. \A i \in 1 .. pos : tar[i] \in {"member", "named", "long"}
    BY <1>0, <2>1 DEF Package!ScanInv
  <2>7. \A i \in 1 .. pos : tar[i] = "named" <=> (i > 1 /\ tar[i - 1] = "long")
    BY <1>0, <2>1 DEF Package!ScanInv
  <2>8. longName' \in BOOLEAN /\ (longName' <=> (pos' > 1 /\ tar'[pos' - 1] = "long"))
    <3>1. longName' <=> tar[pos] = "long"
      BY <2>1
    <3>2. pos' > 1 /\ tar'[pos' - 1] = tar[pos]
      BY <1>0, <2>1, <2>5
    <3> QED BY <2>1, <3>1, <3>2
  <2>9. /\ \A i \in 1 .. pos' - 1 : tar'[i] \in {"member", "named", "long"}
        /\ \A i \in 1 .. pos' - 1 : tar'[i] = "named" <=> (i > 1 /\ tar'[i - 1] = "long")
    BY <2>1, <2>5, <2>6, <2>7
  <2> QED BY <1>0, <2>1, <2>4, <2>5, <2>8, <2>9, CountsAlike DEF Package!ScanInv
<1> QED BY <1>1, <1>2

(* Every path of the tree is a sequence of names, and its beginnings are *)
(* directories.                                                          *)
LEMMA TreePaths ==
    ASSUME \A f \in x8 : f \in Seq(TreeNames) /\ Len(f) > 0
    PROVE  /\ \A q \in Package!Tree : q \in Seq(TreeNames)
           /\ \A q \in Package!Tree : Package!Parents(q) \subseteq Package!Directories
<1> DEFINE files == x8
<1>1. \A f \in files : \A d \in 0 .. Len(f) :
        /\ SubSeq(f, 1, d) \in Seq(TreeNames) /\ Len(SubSeq(f, 1, d)) = d
        /\ \A k \in 1 .. d : SubSeq(f, 1, d)[k] = f[k]
  <2> SUFFICES ASSUME NEW f \in files, NEW d \in 0 .. Len(f)
               PROVE  /\ SubSeq(f, 1, d) \in Seq(TreeNames) /\ Len(SubSeq(f, 1, d)) = d
                      /\ \A k \in 1 .. d : SubSeq(f, 1, d)[k] = f[k]
    OBVIOUS
  <2>1. Len(f) \in Nat /\ d \in Int /\ d >= 0 /\ \A k \in 1 .. d : f[k] \in TreeNames
    BY ElementOfSeq, LenProperties
  <2> QED BY <2>1, SubSeqProperties
<1>2. \A q \in Package!Directories :
        \E f \in files : \E d \in 0 .. Len(f) - 1 : q = SubSeq(f, 1, d)
  BY DEF Package!Directories, Package!Parents
<1>3. \A q \in Package!Tree : q \in Seq(TreeNames)
  <2>1. \A f \in files : Len(f) \in Nat
    BY LenProperties
  <2> QED BY <1>1, <1>2, <2>1 DEF Package!Tree
<1>4. ASSUME NEW q \in Package!Tree PROVE Package!Parents(q) \subseteq Package!Directories
  <2>1. CASE q \in files
    BY <2>1 DEF Package!Directories
  <2>2. CASE q \in Package!Directories
    <3>0. PICK f \in files : \E d \in 0 .. Len(f) - 1 : q = SubSeq(f, 1, d)
      BY <1>2, <2>2
    <3>1. PICK d \in 0 .. Len(f) - 1 : q = SubSeq(f, 1, d)
      BY <3>0
    <3>2. Len(f) \in Nat /\ Len(q) = d
      BY <1>1, <3>1, LenProperties
    <3> SUFFICES ASSUME NEW e \in 0 .. d - 1 PROVE SubSeq(q, 1, e) \in Package!Parents(f)
      BY <3>2 DEF Package!Parents, Package!Directories
    <3>3. SubSeq(q, 1, e) = SubSeq(f, 1, e) /\ e \in 0 .. Len(f) - 1
      <4>1. \A k \in 1 .. e : q[k] = f[k] /\ q[k] \in TreeNames
        BY <1>1, <3>1, <3>2, ElementOfSeq
      <4>2. /\ SubSeq(q, 1, e) \in Seq(TreeNames) /\ Len(SubSeq(q, 1, e)) = e
            /\ \A k \in 1 .. e : SubSeq(q, 1, e)[k] = q[k]
        BY <4>1, SubSeqProperties
      <4>3. /\ SubSeq(f, 1, e) \in Seq(TreeNames) /\ Len(SubSeq(f, 1, e)) = e
            /\ \A k \in 1 .. e : SubSeq(f, 1, e)[k] = f[k]
        BY <1>1, <3>1, <3>2
      <4>4. e \in 0 .. Len(f) - 1
        BY <3>1, <3>2
      <4> QED BY <4>1, <4>2, <4>3, <4>4, SeqEqual
    <3> QED BY <3>3 DEF Package!Parents
  <2> QED BY <2>1, <2>2 DEF Package!Tree
<1> QED BY <1>3, <1>4

LEMMA PrefixIs ==
    ASSUME NEW q \in Seq(TreeNames), NEW d \in 0 .. Len(q)
    PROVE  /\ SubSeq(q, 1, d) \in Seq(TreeNames) /\ Len(SubSeq(q, 1, d)) = d
           /\ \A k \in 1 .. d : SubSeq(q, 1, d)[k] = q[k]
<1>1. Len(q) \in Nat /\ d \in Int /\ d >= 0 /\ \A k \in 1 .. d : q[k] \in TreeNames
  BY ElementOfSeq, LenProperties
<1> QED BY <1>1, SubSeqProperties

LEMMA ParentsBegin ==
    ASSUME NEW p \in Seq(TreeNames), NEW q \in Seq(TreeNames)
    PROVE  p \in Package!Parents(q) <=> Package!Begins(p, q)
<1>1. Len(q) \in Nat /\ Len(p) \in Nat
  BY LenProperties
<1>2. p \in Package!Parents(q) => Package!Begins(p, q)
  BY <1>1, PrefixIs DEF Package!Parents, Package!Begins
<1>3. ASSUME Package!Begins(p, q) PROVE p = SubSeq(q, 1, Len(p))
  <2>1. Len(p) \in 0 .. Len(q)
    BY <1>1, <1>3 DEF Package!Begins
  <2> QED BY <1>1, <1>3, <2>1, PrefixIs, SeqEqual DEF Package!Begins
<1> QED BY <1>1, <1>2, <1>3 DEF Package!Parents, Package!Begins

LEMMA LeftSplits ==
    ASSUME NEW p \in Seq(TreeNames), NEW q \in Seq(TreeNames)
    PROVE  Package!LeftOf(p, q) <=> Package!Splits(p, q)
<1>1. Len(q) \in Nat /\ Len(p) \in Nat
  BY LenProperties
<1>2. ASSUME NEW i \in 1 .. Len(p), i <= Len(q)
      PROVE  SubSeq(p, 1, i - 1) = SubSeq(q, 1, i - 1) <=> \A k \in 1 .. i - 1 : p[k] = q[k]
  <2>1. i - 1 \in 0 .. Len(p) /\ i - 1 \in 0 .. Len(q)
    BY <1>1, <1>2
  <2>2. /\ SubSeq(p, 1, i - 1) \in Seq(TreeNames) /\ Len(SubSeq(p, 1, i - 1)) = i - 1
        /\ \A k \in 1 .. i - 1 : SubSeq(p, 1, i - 1)[k] = p[k]
    BY <2>1, PrefixIs
  <2>3. /\ SubSeq(q, 1, i - 1) \in Seq(TreeNames) /\ Len(SubSeq(q, 1, i - 1)) = i - 1
        /\ \A k \in 1 .. i - 1 : SubSeq(q, 1, i - 1)[k] = q[k]
    BY <2>1, PrefixIs
  <2> QED BY <2>2, <2>3, SeqEqual
<1> QED BY <1>2 DEF Package!LeftOf, Package!Splits

(* p before q stays before what is below q, and what is left of q stays so *)
(* with all that is below it.                                              *)
LEMMA BelowKeeps ==
    ASSUME NEW p \in Seq(TreeNames), NEW q \in Seq(TreeNames), NEW r \in Seq(TreeNames),
           q \in Package!Parents(r)
    PROVE  /\ Package!Before(p, q) => Package!Before(p, r)
           /\ Package!LeftOf(q, p) => Package!LeftOf(r, p)
<1>0. Len(q) \in Nat /\ Len(p) \in Nat /\ Len(r) \in Nat /\ Package!Begins(q, r)
      /\ TreeNames \subseteq Nat
  BY LenProperties, ParentsBegin, BudgetsAssumption
<1>1. Package!Begins(p, q) => Package!Begins(p, r)
  BY <1>0 DEF Package!Begins
<1>2. Package!Splits(p, q) => Package!Splits(p, r)
  BY <1>0 DEF Package!Begins, Package!Splits
<1>3. Package!Splits(q, p) => Package!Splits(r, p)
  BY <1>0 DEF Package!Begins, Package!Splits
<1> QED BY <1>1, <1>2, <1>3, ParentsBegin, LeftSplits DEF Package!Before

LEMMA SiblingsSort ==
    ASSUME NEW S, Package!Siblings(S)
    PROVE  /\ IsFiniteSet(S) /\ Cardinality(S) \in Nat
           /\ \E s \in [1 .. Cardinality(S) -> S] :
                \A i, j \in DOMAIN s : i < j => Package!Last(s[i]) < Package!Last(s[j])
<1>1. \A p \in S : Package!Last(p) \in TreeNames /\ Package!Last(p) \in Nat
  <2> SUFFICES ASSUME NEW p \in S PROVE Package!Last(p) \in TreeNames
    BY BudgetsAssumption
  <2>1. Len(p) \in Nat \ {0}
    BY EmptySeq DEF Package!Siblings
  <2> QED BY <2>1, ElementOfSeq DEF Package!Siblings, Package!Last
<1>2. IsFiniteSet(S)
  <2> DEFINE f == [p \in S |-> Package!Last(p)]
  <2>1. f \in Injection(S, TreeNames)
    BY <1>1 DEF Injection, IsInjective, Package!Siblings
  <2> QED BY <2>1, BudgetsAssumption, FS_Injection
<1> DEFINE n == Cardinality(S)
           Upto(p) == {q \in S : Package!Last(q) <= Package!Last(p)}
           rank == [p \in S |-> Cardinality(Upto(p))]
<1>3. n \in Nat
  BY <1>2, FS_CardinalityType
<1>4. \A p \in S : IsFiniteSet(Upto(p)) /\ rank[p] \in 1 .. n
  <2> SUFFICES ASSUME NEW p \in S PROVE IsFiniteSet(Upto(p)) /\ Cardinality(Upto(p)) \in 1 .. n
    OBVIOUS
  <2>1. Upto(p) \in SUBSET S /\ p \in Upto(p)
    BY <1>1
  <2>2. IsFiniteSet(Upto(p)) /\ Cardinality(Upto(p)) <= n
    BY <1>2, <2>1, FS_Subset
  <2>3. Cardinality(Upto(p)) \in Nat /\ Cardinality(Upto(p)) # 0
    BY <2>1, <2>2, FS_CardinalityType, FS_EmptySet
  <2> QED BY <1>3, <2>2, <2>3
<1>5. ASSUME NEW p \in S, NEW q \in S, Package!Last(p) < Package!Last(q) PROVE rank[p] < rank[q]
  <2>1. Upto(p) \in SUBSET Upto(q) /\ q \in Upto(q) /\ q \notin Upto(p)
    BY <1>1, <1>5
  <2>2. Cardinality(Upto(p)) <= Cardinality(Upto(q))
        /\ Cardinality(Upto(p)) # Cardinality(Upto(q))
    BY <1>4, <2>1, FS_Subset
  <2>3. rank[p] = Cardinality(Upto(p)) /\ rank[q] = Cardinality(Upto(q))
    OBVIOUS
  <2> HIDE DEF rank, Upto
  <2> QED BY <1>3, <1>4, <2>2, <2>3
<1>6. rank \in Surjection(S, 1 .. n)
  <2>1. rank \in Injection(S, 1 .. n)
    <3>1. rank \in [S -> 1 .. n]
      BY <1>4
    <3>2. ASSUME NEW p \in S, NEW q \in S, p # q PROVE rank[p] # rank[q]
      <4>1. Package!Last(p) < Package!Last(q) \/ Package!Last(q) < Package!Last(p)
        BY <1>1, <3>2 DEF Package!Siblings
      <4>2. rank[p] \in Nat /\ rank[q] \in Nat
        BY <1>4, <1>3
      <4> HIDE DEF rank
      <4> QED BY <1>5, <4>1, <4>2
    <3> HIDE DEF rank
    <3> QED BY <3>1, <3>2 DEF Injection, IsInjective
  <2>2. IsFiniteSet(1 .. n) /\ Cardinality(1 .. n) = n
    BY <1>3, FS_Interval
  <2> HIDE DEF rank
  <2> QED BY <1>3, <2>1, <2>2, FS_Injection
<1> HIDE DEF rank
<1>7. \A i \in 1 .. n : \E p \in S : rank[p] = i
  BY <1>6 DEF Surjection
<1> DEFINE s == [i \in 1 .. n |-> CHOOSE p \in S : rank[p] = i]
<1>8. \A i \in 1 .. n : s[i] \in S /\ rank[s[i]] = i
  BY <1>7
<1>9. s \in [1 .. n -> S]
  BY <1>8
<1> HIDE DEF s, n
<1>10. \A i, j \in DOMAIN s : i < j => Package!Last(s[i]) < Package!Last(s[j])
  <2> SUFFICES ASSUME NEW i \in 1 .. n, NEW j \in 1 .. n, i < j
               PROVE  Package!Last(s[i]) < Package!Last(s[j])
    BY <1>9
  <2>1. s[i] \in S /\ s[j] \in S /\ rank[s[i]] = i /\ rank[s[j]] = j /\ i \in Nat /\ j \in Nat
    BY <1>3, <1>8
  <2>2. ~(Package!Last(s[j]) < Package!Last(s[i]))
    BY <1>5, <2>1
  <2>3. Package!Last(s[j]) # Package!Last(s[i])
    BY <2>1 DEF Package!Siblings
  <2> QED BY <1>1, <2>1, <2>2, <2>3
<1> QED BY <1>2, <1>3, <1>9, <1>10 DEF n

(* What ByName chooses has every sibling once. *)
LEMMA ByNameSorts ==
    ASSUME NEW S, Package!Siblings(S)
    PROVE  /\ Cardinality(S) \in Nat /\ Package!ByName(S) \in [1 .. Cardinality(S) -> S]
           /\ \A i, j \in 1 .. Cardinality(S) : i < j
              => Package!Last(Package!ByName(S)[i]) < Package!Last(Package!ByName(S)[j])
           /\ \A p \in S : \E i \in 1 .. Cardinality(S) : Package!ByName(S)[i] = p
<1> DEFINE n == Cardinality(S)  s == Package!ByName(S)
<1>1. /\ IsFiniteSet(S) /\ n \in Nat /\ s \in [1 .. n -> S]
      /\ \A i, j \in DOMAIN s : i < j => Package!Last(s[i]) < Package!Last(s[j])
  BY SiblingsSort, CountsAlike DEF Package!ByName
<1> HIDE DEF s, n
<1>2. \A p \in S : Package!Last(p) \in Nat
  <2> SUFFICES ASSUME NEW p \in S PROVE Package!Last(p) \in TreeNames
    BY BudgetsAssumption
  <2>1. Len(p) \in Nat \ {0}
    BY EmptySeq DEF Package!Siblings
  <2> QED BY <2>1, ElementOfSeq DEF Package!Siblings, Package!Last
<1>3. s \in Injection(1 .. n, S)
  <2> SUFFICES ASSUME NEW i \in 1 .. n, NEW j \in 1 .. n, i # j PROVE s[i] # s[j]
    BY <1>1 DEF Injection, IsInjective
  <2>1. i < j \/ j < i
    BY <1>1
  <2>2. Package!Last(s[i]) < Package!Last(s[j]) \/ Package!Last(s[j]) < Package!Last(s[i])
    BY <1>1, <2>1
  <2>3. Package!Last(s[i]) \in Nat /\ Package!Last(s[j]) \in Nat
    BY <1>1, <1>2
  <2> QED BY <2>2, <2>3
<1>4. IsFiniteSet(1 .. n) /\ Cardinality(1 .. n) = n
  BY <1>1, FS_Interval
<1>5. s \in Surjection(1 .. n, S)
  BY <1>1, <1>3, <1>4, FS_Injection DEF n
<1>6. \A p \in S : \E i \in 1 .. n : s[i] = p
  BY <1>5 DEF Surjection
<1> QED BY <1>1, <1>6 DEF n, s

LEMMA PushedChildren ==
    ASSUME \A f \in x8 : f \in Seq(TreeNames) /\ Len(f) > 0, NEW d \in Package!Tree
    PROVE  /\ Package!Pushed(d) \in Seq(Package!Tree)
           /\ Package!ToSet(Package!Pushed(d)) = Package!ChildrenOf(d)
           /\ \A i, j \in 1 .. Len(Package!Pushed(d)) : i < j
              => Package!LeftOf(Package!Pushed(d)[j], Package!Pushed(d)[i])
<1> DEFINE S == Package!ChildrenOf(d)  n == Cardinality(S)
           s == Package!ByName(S)  r == Package!Pushed(d)
<1>1. d \in Seq(TreeNames) /\ Len(d) \in Nat /\ S \subseteq Package!Tree
      /\ S \subseteq Seq(TreeNames)
  BY TreePaths, LenProperties DEF Package!ChildrenOf, Package!Tree
<1>2. \A p \in S : Len(p) = Len(d) + 1 /\ \A k \in 1 .. Len(d) : p[k] = d[k]
  <2> SUFFICES ASSUME NEW p \in S
               PROVE  Len(p) = Len(d) + 1 /\ \A k \in 1 .. Len(d) : p[k] = d[k]
    OBVIOUS
  <2>1. Len(p) = Len(d) + 1 /\ SubSeq(p, 1, Len(d)) = d
    BY DEF Package!ChildrenOf
  <2>2. p \in Seq(TreeNames) /\ Len(d) \in 0 .. Len(p)
    BY <1>1, <2>1
  <2> QED BY <2>1, <2>2, PrefixIs
<1>3. Package!Siblings(S)
  <2>1. \A p \in S : p # <<>>
    BY <1>1, <1>2, EmptySeq
  <2>2. ASSUME NEW p \in S, NEW q \in S, Package!Last(p) = Package!Last(q) PROVE p = q
    <3>1. \A k \in 1 .. Len(p) : p[k] = q[k]
      BY <1>1, <1>2, <2>2 DEF Package!Last
    <3> QED BY <1>1, <1>2, <3>1, SeqEqual
  <2> QED BY <1>1, <2>1, <2>2 DEF Package!Siblings
<1> HIDE DEF S
<1>4. /\ n \in Nat /\ s \in [1 .. n -> S]
      /\ \A i, j \in 1 .. n : i < j => Package!Last(s[i]) < Package!Last(s[j])
      /\ \A p \in S : \E i \in 1 .. n : s[i] = p
  BY <1>3, ByNameSorts
<1> HIDE DEF n, s
<1>5. s \in Seq(Package!Tree) /\ Len(s) = n
  <2>1. s \in [1 .. n -> Package!Tree]
    BY <1>1, <1>4
  <2>2. s \in Seq(Package!Tree)
    BY <1>4, <2>1, SeqDef
  <2>3. 1 .. n = 1 .. Len(s) /\ Len(s) \in Nat
    BY <2>1, <2>2, LenProperties
  <2>4. \A k \in Nat : k \in 1 .. n <=> k \in 1 .. Len(s)
    BY <2>3
  <2>5. ~(n < Len(s)) /\ ~(Len(s) < n)
    BY <1>4, <2>3, <2>4
  <2> QED BY <1>4, <2>2, <2>3, <2>5
<1>6. r = [i \in 1 .. n |-> s[(n - i) + 1]]
  BY <1>5 DEF Package!Pushed, Package!Reverse, S, s
<1> HIDE DEF r
<1>7. r \in Seq(Package!Tree) /\ Len(r) = n /\ \A i \in 1 .. n : r[i] = s[(n - i) + 1]
  BY <1>1, <1>4, <1>6
<1>8. Package!ToSet(r) = S
  <2>1. \A i \in 1 .. n : r[i] \in S
    BY <1>4, <1>7
  <2>2. ASSUME NEW p \in S PROVE \E i \in 1 .. n : r[i] = p
    <3>1. PICK i \in 1 .. n : s[i] = p
      BY <1>4
    <3>2. (n - i) + 1 \in 1 .. n /\ (n - ((n - i) + 1)) + 1 = i
      BY <1>4
    <3> QED BY <1>7, <3>1, <3>2
  <2>3. DOMAIN r = 1 .. n
    BY <1>6
  <2> QED BY <2>1, <2>2, <2>3 DEF Package!ToSet
<1>9. ASSUME NEW i \in 1 .. n, NEW j \in 1 .. n, i < j PROVE Package!LeftOf(r[j], r[i])
  <2>1. (n - i) + 1 \in 1 .. n /\ (n - j) + 1 \in 1 .. n /\ (n - j) + 1 < (n - i) + 1
    BY <1>4, <1>9
  <2>2. Package!Last(r[j]) < Package!Last(r[i])
    BY <1>4, <1>7, <2>1
  <2>3. r[i] \in S /\ r[j] \in S
    BY <1>4, <1>7, <2>1
  <2>4. r[j][Len(d) + 1] < r[i][Len(d) + 1]
    BY <1>2, <2>2, <2>3 DEF Package!Last
  <2>5. Package!Splits(r[j], r[i])
    <3>1. \A k \in 1 .. (Len(d) + 1) - 1 : r[j][k] = r[i][k]
      BY <1>1, <1>2, <2>3
    <3>2. Len(d) + 1 \in 1 .. Len(r[j]) /\ Len(d) + 1 <= Len(r[i])
      BY <1>1, <1>2, <2>3
    <3> QED BY <2>4, <3>1, <3>2 DEF Package!Splits
  <2> QED BY <1>1, <2>3, <2>5, LeftSplits
<1> QED BY <1>7, <1>8, <1>9 DEF S, r

(* A child is below its directory, and what is below a directory is below one of *)
(* its children or is one.                                                       *)
LEMMA ChildrenBelow ==
    ASSUME \A f \in x8 : f \in Seq(TreeNames) /\ Len(f) > 0, NEW d \in Package!Tree
    PROVE  /\ \A p \in Package!ChildrenOf(d) : d \in Package!Parents(p)
           /\ \A q \in Package!Tree : d \in Package!Parents(q) =>
                d \in Package!Directories /\ \E p \in Package!ChildrenOf(d) : p = q
                  \/ p \in Package!Parents(q)
<1>1. d \in Seq(TreeNames) /\ Len(d) \in Nat
  BY SMTT(20), TreePaths, LenProperties
<1>2. ASSUME NEW p \in Package!ChildrenOf(d) PROVE d \in Package!Parents(p)
  <2>1. Len(d) \in 0 .. Len(p) - 1 /\ d = SubSeq(p, 1, Len(d))
    BY <1>1, <1>2 DEF Package!ChildrenOf
  <2> QED BY <2>1 DEF Package!Parents
<1>3. ASSUME NEW q \in Package!Tree, d \in Package!Parents(q)
      PROVE  d \in Package!Directories /\ \E p \in Package!ChildrenOf(d) : p = q
             \/ p \in Package!Parents(q)
  <2>1. q \in Seq(TreeNames) /\ Len(q) \in Nat /\ d \in Package!Directories
    BY <1>3, TreePaths, LenProperties
  <2>2. Package!Begins(d, q)
    BY <1>1, <1>3, <2>1, ParentsBegin
  <2>3. Len(d) + 1 \in 0 .. Len(q)
    BY <1>1, <2>1, <2>2 DEF Package!Begins
  <2> DEFINE p == SubSeq(q, 1, Len(d) + 1)
  <2>4. /\ p \in Seq(TreeNames) /\ Len(p) = Len(d) + 1
        /\ \A k \in 1 .. Len(d) + 1 : p[k] = q[k]
    BY <2>1, <2>3, PrefixIs
  <2>5. p = q \/ p \in Package!Parents(q)
    <3>1. CASE Len(d) + 1 = Len(q)
      BY <2>1, <3>1, SubSeqFull
    <3>2. CASE Len(d) + 1 # Len(q)
      BY <2>3, <2>1, <1>1, <3>2 DEF Package!Parents
    <3> QED BY <3>1, <3>2
  <2>6. p \in Package!Tree
    BY <2>5, TreePaths DEF Package!Tree
  <2> HIDE DEF p
  <2>7. SubSeq(p, 1, Len(d)) = d
    <3>1. Package!Begins(d, p)
      BY <1>1, <2>2, <2>4 DEF Package!Begins
    <3>2. Len(d) \in 0 .. Len(p)
      BY <1>1, <2>4
    <3>3. /\ SubSeq(p, 1, Len(d)) \in Seq(TreeNames) /\ Len(SubSeq(p, 1, Len(d))) = Len(d)
          /\ \A k \in 1 .. Len(d) : SubSeq(p, 1, Len(d))[k] = p[k]
      BY <2>4, <3>2, PrefixIs
    <3> QED BY <1>1, <3>1, <3>3, SeqEqual DEF Package!Begins
  <2> QED BY <2>1, <2>4, <2>5, <2>6, <2>7 DEF Package!ChildrenOf, Package!Tree
<1> QED BY <1>2, <1>3

(* One entry goes to the end of the order, and its children take its place on *)
(* the stack.                                                                 *)
LEMMA WalkGoesOn ==
    ASSUME \A f \in x8 : f \in Seq(TreeNames) /\ Len(f) > 0, x8 # {}, x8' = x8,
           x10 \in Seq(Package!Tree),
           NEW child \in Package!Tree, NEW rest \in Seq(Package!Tree),
           NEW new \in Seq(Package!Tree),
           x10' = Append(x10, child), x9' = rest \o new,
           Package!ToSet(new) = Package!ChildrenOf(child),
           \A i, j \in 1 .. Len(new) : i < j => Package!LeftOf(new[j], new[i]),
           \A i, j \in 1 .. Len(x10) : i < j => Package!Before(x10[i], x10[j]),
           \A i \in 1 .. Len(x10) : Package!Before(x10[i], child),
           \A i \in 1 .. Len(x10), j \in 1 .. Len(rest) : Package!Before(x10[i], rest[j]),
           \A j \in 1 .. Len(rest) : Package!LeftOf(child, rest[j]),
           \A i, j \in 1 .. Len(rest) : i < j => Package!LeftOf(rest[j], rest[i]),
           \A q \in Package!Tree : \/ q \in Package!ToSet(x10) \/ q = child
                                   \/ child \in Package!Parents(q)
                                   \/ q \in Package!ToSet(rest)
                                   \/ \E j \in 1 .. Len(rest) : rest[j] \in Package!Parents(q)
    PROVE  Package!WalkInv'
<1> DEFINE stack == x9  order == x10
<1> DEFINE n == Len(order)  m == Len(rest)  h == Len(new)
           o == Append(order, child)  s == rest \o new
<1>1. /\ n \in Nat /\ m \in Nat /\ h \in Nat
      /\ DOMAIN order = 1 .. n /\ DOMAIN rest = 1 .. m /\ DOMAIN new = 1 .. h
  BY LenProperties
<1>2. /\ o \in Seq(Package!Tree) /\ DOMAIN o = 1 .. n + 1 /\ o # <<>>
      /\ \A i \in 1 .. n : o[i] = order[i]
      /\ o[n + 1] = child
  BY AppendProperties, LenProperties
<1>3. /\ s \in Seq(Package!Tree) /\ DOMAIN s = 1 .. m + h
      /\ \A i \in 1 .. m : s[i] = rest[i]
      /\ \A i \in 1 .. h : s[m + i] = new[i]
  <2>1. /\ s \in Seq(Package!Tree) /\ Len(s) = m + h
        /\ \A i \in 1 .. m + h : s[i] = IF i <= m THEN rest[i] ELSE new[i - m]
    BY ConcatProperties
  <2>2. DOMAIN s = 1 .. m + h
    BY <2>1, LenProperties
  <2> HIDE DEF s, m, h
  <2>3. \A i \in 1 .. h : m + i \in 1 .. m + h /\ ~(m + i <= m) /\ (m + i) - m = i
    BY <1>1
  <2>4. \A i \in 1 .. m : i \in 1 .. m + h /\ i <= m
    BY <1>1
  <2> QED BY <2>1, <2>2, <2>3, <2>4
<1>4. /\ \A i \in 1 .. m : rest[i] \in Package!Tree /\ rest[i] \in Seq(TreeNames)
      /\ \A i \in 1 .. n : order[i] \in Package!Tree /\ order[i] \in Seq(TreeNames)
      /\ \A i \in 1 .. h : /\ new[i] \in Package!Tree /\ new[i] \in Seq(TreeNames)
                           /\ child \in Package!Parents(new[i])
      /\ child \in Seq(TreeNames)
  <2>1. \A i \in 1 .. h : new[i] \in Package!ChildrenOf(child)
    BY <1>1 DEF Package!ToSet
  <2> QED BY <1>1, <2>1, TreePaths, ChildrenBelow, ElementOfSeq
<1> HIDE DEF n, m, h, o, s
<1>5. \A i \in 1 .. n + 1 : i \in 1 .. n \/ i = n + 1
  BY <1>1
<1>6. \A j \in 1 .. m + h : j \in 1 .. m \/ \E k \in 1 .. h : j = m + k
  <2> SUFFICES ASSUME NEW j \in 1 .. m + h, j \notin 1 .. m PROVE \E k \in 1 .. h : j = m + k
    OBVIOUS
  <2>1. j - m \in 1 .. h /\ j = m + (j - m)
    BY <1>1
  <2> QED BY <2>1
<1>7. ASSUME NEW i \in 1 .. n + 1, NEW j \in 1 .. n + 1, i < j PROVE Package!Before(o[i], o[j])
  <2>1. i \in 1 .. n
    BY <1>1, <1>7
  <2> QED BY <1>2, <1>5, <2>1, <1>7 DEF n
<1>8. ASSUME NEW i \in 1 .. n + 1, NEW j \in 1 .. m + h PROVE Package!Before(o[i], s[j])
  <2>1. CASE j \in 1 .. m
    <3>1. s[j] = rest[j] /\ Package!LeftOf(child, rest[j])
      BY <1>3, <2>1 DEF m
    <3>2. \A k \in 1 .. n : Package!Before(order[k], rest[j])
      BY <2>1 DEF m, n
    <3> QED BY <1>2, <1>5, <3>1, <3>2 DEF Package!Before
  <2>2. ASSUME NEW k \in 1 .. h, j = m + k PROVE Package!Before(o[i], s[j])
    <3>1. s[j] = new[k] /\ child \in Package!Parents(new[k])
      BY <1>3, <1>4, <2>2
    <3>2. \A l \in 1 .. n : Package!Before(order[l], new[k])
      <4> SUFFICES ASSUME NEW l \in 1 .. n PROVE Package!Before(order[l], new[k])
        OBVIOUS
      <4>1. Package!Before(order[l], child)
        BY DEF n
      <4> QED BY <1>4, <4>1, BelowKeeps
    <3> QED BY <1>2, <1>5, <3>1, <3>2 DEF Package!Before
  <2> QED BY <1>6, <2>1, <2>2
<1>9. ASSUME NEW i \in 1 .. m + h, NEW j \in 1 .. m + h, i < j PROVE Package!LeftOf(s[j], s[i])
  <2>1. CASE j \in 1 .. m
    <3>1. i \in 1 .. m
      BY <1>1, <1>9, <2>1
    <3> QED BY <1>3, <1>9, <2>1, <3>1 DEF m
  <2>2. ASSUME NEW k \in 1 .. h, j = m + k PROVE Package!LeftOf(s[j], s[i])
    <3>1. s[j] = new[k] /\ child \in Package!Parents(new[k])
      BY <1>3, <1>4, <2>2
    <3>2. CASE i \in 1 .. m
      <4>1. s[i] = rest[i] /\ Package!LeftOf(child, rest[i])
        BY <1>3, <3>2 DEF m
      <4> QED BY <1>4, <3>1, <3>2, <4>1, BelowKeeps
    <3>3. ASSUME NEW l \in 1 .. h, i = m + l PROVE Package!LeftOf(s[j], s[i])
      <4>1. l < k
        BY <1>1, <1>9, <2>2, <3>3
      <4> QED BY <1>3, <3>1, <3>3, <4>1 DEF h
    <3> QED BY <1>6, <3>2, <3>3
  <2> QED BY <1>6, <2>1, <2>2
<1>10. ASSUME NEW q \in Package!Tree
       PROVE  q \in Package!ToSet(o) \/ q \in Package!ToSet(s)
              \/ \E j \in DOMAIN s : s[j] \in Package!Parents(q)
  <2>1. CASE q \in Package!ToSet(order) \/ q = child
    <3>1. n + 1 \in 1 .. n + 1 /\ \A i \in 1 .. n : i \in 1 .. n + 1
      BY <1>1
    <3> QED BY <1>1, <1>2, <2>1, <3>1 DEF Package!ToSet
  <2>2. CASE child \in Package!Parents(q)
    <3>1. PICK p \in Package!ChildrenOf(child) : p = q \/ p \in Package!Parents(q)
      BY <2>2, ChildrenBelow
    <3>2. PICK k \in 1 .. h : new[k] = p
      BY <1>1, <3>1 DEF Package!ToSet
    <3>3. m + k \in 1 .. m + h /\ s[m + k] = p
      BY <1>1, <1>3, <3>2
    <3> QED BY <1>3, <3>1, <3>3 DEF Package!ToSet
  <2>3. CASE q \in Package!ToSet(rest)
             \/ \E j \in 1 .. Len(rest) : rest[j] \in Package!Parents(q)
    <3>1. \A j \in 1 .. m : j \in 1 .. m + h
      BY <1>1
    <3> QED BY <1>1, <1>3, <2>3, <3>1 DEF Package!ToSet, m
  <2> QED BY <2>1, <2>2, <2>3
<1>11. Package!Tree' = Package!Tree
  BY DEF Package!Tree, Package!Directories
<1>12. order' = o /\ stack' = s /\ Package!ToSet(order)' = Package!ToSet(o)
       /\ Package!ToSet(stack)' = Package!ToSet(s)
  BY DEF o, s, Package!ToSet
<1>13. /\ (\A i, j \in DOMAIN order : i < j => Package!Before(order[i], order[j]))'
       /\ (\A i \in DOMAIN order, j \in DOMAIN stack : Package!Before(order[i], stack[j]))'
       /\ (\A i, j \in DOMAIN stack : i < j => Package!LeftOf(stack[j], stack[i]))'
  BY <1>2, <1>3, <1>7, <1>8, <1>9, <1>12
<1> QED
  BY <1>2, <1>3, <1>10, <1>11, <1>12, <1>13 DEF Package!WalkInv

LEMMA StartHolds ==
    ASSUME Package!WalkInv, Package!StartWalk
    PROVE  Package!WalkInv'
<1> DEFINE files == x8  stack == x9  order == x10
<1>1. /\ order = <<>> /\ order' = << <<>> >> /\ stack' = Package!Pushed(<<>>) /\ files' = files
      /\ \A f \in files : f \in Seq(TreeNames) /\ Len(f) > 0
      /\ files # {}
  BY DEF Package!StartWalk, Package!WalkInv, Package!Pushed
<1>2. PICK f \in files : f \in Seq(TreeNames) /\ Len(f) \in Nat /\ Len(f) > 0
  BY <1>1, LenProperties
<1>3. ASSUME NEW q \in Seq(TreeNames), Len(q) > 0 PROVE <<>> \in Package!Parents(q)
  <2>1. Len(q) \in Nat
    BY LenProperties
  <2>2. SubSeq(q, 1, 0) = <<>> /\ 0 \in 0 .. Len(q) - 1
    BY <1>3, <2>1, SubSeqEmpty
  <2> QED BY <2>2 DEF Package!Parents
<1>4. <<>> \in Package!Directories /\ <<>> \in Package!Tree
  BY <1>2, <1>3 DEF Package!Directories, Package!Tree
<1>5. /\ Package!Pushed(<<>>) \in Seq(Package!Tree)
      /\ Package!ToSet(Package!Pushed(<<>>)) = Package!ChildrenOf(<<>>)
      /\ \A i, j \in 1 .. Len(Package!Pushed(<<>>)) : i < j
         => Package!LeftOf(Package!Pushed(<<>>)[j], Package!Pushed(<<>>)[i])
  BY <1>1, <1>4, PushedChildren
<1>6. /\ <<>> \in Seq(Package!Tree) /\ Len(<<>>) = 0 /\ 1 .. 0 = {}
      /\ order' = Append(order, <<>>)
      /\ stack' = <<>> \o Package!Pushed(<<>>)
  BY <1>1, <1>5, ConcatEmptySeq, EmptySeq
<1>7. \A q \in Package!Tree : q = <<>> \/ <<>> \in Package!Parents(q)
  <2> SUFFICES ASSUME NEW q \in Package!Tree, q # <<>> PROVE <<>> \in Package!Parents(q)
    OBVIOUS
  <2>1. q \in Seq(TreeNames)
    BY <1>1, TreePaths
  <2>2. Len(q) > 0
    BY <2>1, EmptySeq
  <2> QED BY <1>3, <2>1, <2>2
<1> HIDE DEF Package!Pushed
<1>8. ASSUME NEW none \in Seq(Package!Tree), none = <<>>, NEW new \in Seq(Package!Tree),
             new = Package!Pushed(<<>>)
      PROVE  Package!WalkInv'
  <2>1. Len(none) = 0 /\ 1 .. Len(none) = {} /\ 1 .. Len(order) = {}
    BY <1>1, <1>6, <1>8
  <2>2. /\ order' = Append(order, none) /\ stack' = none \o new /\ none \in Package!Tree
        /\ Package!ToSet(new) = Package!ChildrenOf(none) /\ order \in Seq(Package!Tree)
    BY <1>1, <1>4, <1>5, <1>6, <1>8
  <2>3. /\ \A q \in Package!Tree : q = none \/ none \in Package!Parents(q)
        /\ \A i, j \in 1 .. Len(new) : i < j => Package!LeftOf(new[j], new[i])
    BY <1>5, <1>7, <1>8
  <2> QED BY <1>1, <2>1, <2>2, <2>3, WalkGoesOn
<1> QED BY <1>5, <1>6, <1>8

LEMMA PopHolds ==
    ASSUME Package!WalkInv, Package!PopChild
    PROVE  Package!WalkInv'
<1> DEFINE files == x8  stack == x9  order == x10
<1>1. /\ \A f \in files : f \in Seq(TreeNames) /\ Len(f) > 0
      /\ files # {} /\ files' = files /\ stack # <<>> /\ order # <<>>
      /\ order \in Seq(Package!Tree) /\ stack \in Seq(Package!Tree)
  BY DEF Package!PopChild, Package!WalkInv
<1>2. PICK n : n = Len(stack)
  OBVIOUS
<1>3. n \in Nat \ {0} /\ DOMAIN stack = 1 .. n /\ DOMAIN order = 1 .. Len(order)
  BY <1>1, <1>2, EmptySeq, LenProperties
<1>4. PICK child : child = stack[n]
  OBVIOUS
<1>5. PICK rest : rest = Package!Front(stack)
  OBVIOUS
<1>6. PICK new : new = IF child \in Package!Directories THEN Package!Pushed(child) ELSE <<>>
  OBVIOUS
<1>7. child \in Package!Tree /\ n \in 1 .. n
  BY <1>1, <1>2, <1>3, <1>4, ElementOfSeq
<1>8. /\ rest \in Seq(Package!Tree) /\ Len(rest) = n - 1 /\ DOMAIN rest = 1 .. n - 1
      /\ \A i \in 1 .. n - 1 : rest[i] = stack[i]
  <2>1. \A i \in 1 .. n - 1 : stack[i] \in Package!Tree
    BY <1>1, <1>2, <1>3, ElementOfSeq
  <2>2. /\ rest \in Seq(Package!Tree) /\ Len(rest) = (IF 1 <= n - 1 THEN (n - 1) - 1 + 1 ELSE 0)
        /\ \A i \in 1 .. (n - 1) - 1 + 1 : rest[i] = stack[1 + i - 1]
    BY <1>2, <1>3, <1>5, <2>1, SubSeqProperties DEF Package!Front
  <2>3. Len(rest) = n - 1 /\ \A i \in 1 .. n - 1 : rest[i] = stack[i]
    BY <1>3, <2>2
  <2> QED BY <2>2, <2>3, LenProperties
<1>9. order' = Append(order, child) /\ stack' = rest \o new
  BY <1>2, <1>4, <1>5, <1>6 DEF Package!PopChild, Package!Last, Package!Pushed
<1>10. /\ new \in Seq(Package!Tree) /\ Package!ToSet(new) = Package!ChildrenOf(child)
       /\ \A i, j \in 1 .. Len(new) : i < j => Package!LeftOf(new[j], new[i])
  <2>1. CASE child \in Package!Directories
    BY <1>1, <1>6, <1>7, <2>1, PushedChildren
  <2>2. CASE child \notin Package!Directories
    <3>1. Package!ChildrenOf(child) \subseteq Package!Tree
      BY DEF Package!ChildrenOf, Package!Tree
    <3>2. Package!ChildrenOf(child) = {}
      BY <1>1, <1>7, <2>2, <3>1, ChildrenBelow, TreePaths
    <3>3. new = <<>> /\ Package!ToSet(new) = {} /\ Len(new) = 0
      BY <1>6, <2>2 DEF Package!ToSet
    <3> QED BY <3>2, <3>3, EmptySeq
  <2> QED BY <2>1, <2>2
<1>11. \A i \in 1 .. n - 1 : i \in 1 .. n /\ i < n
  BY <1>3
<1>12. /\ \A i, j \in 1 .. Len(order) : i < j => Package!Before(order[i], order[j])
       /\ \A i \in 1 .. Len(order) : Package!Before(order[i], child)
       /\ \A i \in 1 .. Len(order), j \in 1 .. Len(rest) : Package!Before(order[i], rest[j])
       /\ \A j \in 1 .. Len(rest) : Package!LeftOf(child, rest[j])
       /\ \A i, j \in 1 .. Len(rest) : i < j => Package!LeftOf(rest[j], rest[i])
  <2>1. /\ \A i, j \in 1 .. Len(order) : i < j => Package!Before(order[i], order[j])
        /\ \A i \in 1 .. Len(order), j \in 1 .. n : Package!Before(order[i], stack[j])
        /\ \A i, j \in 1 .. n : i < j => Package!LeftOf(stack[j], stack[i])
    BY <1>3 DEF Package!WalkInv
  <2>2. 1 .. Len(rest) = 1 .. n - 1
    BY <1>8
  <2>3. \A j \in 1 .. n - 1 : Package!LeftOf(child, stack[j])
    BY <1>4, <1>7, <1>11, <2>1
  <2>4. \A i \in 1 .. Len(order) : Package!Before(order[i], child)
    BY <1>4, <1>7, <2>1
  <2> QED BY <1>8, <1>11, <2>1, <2>2, <2>3, <2>4
<1>13. ASSUME NEW q \in Package!Tree
       PROVE  \/ q \in Package!ToSet(order) \/ q = child \/ child \in Package!Parents(q)
              \/ q \in Package!ToSet(rest)
              \/ \E j \in 1 .. Len(rest) : rest[j] \in Package!Parents(q)
  <2>1. \A j \in 1 .. n : j \in 1 .. n - 1 \/ j = n
    BY <1>3
  <2>2. CASE q \in Package!ToSet(order)
    BY <2>2
  <2>3. CASE \E j \in 1 .. n : q = stack[j] \/ stack[j] \in Package!Parents(q)
    BY <1>4, <1>8, <2>1, <2>3 DEF Package!ToSet
  <2> QED BY <1>1, <1>3, <2>2, <2>3 DEF Package!WalkInv, Package!ToSet
<1> QED
  BY <1>1, <1>7, <1>8, <1>9, <1>10, <1>12, <1>13, WalkGoesOn

LEMMA CanonBegins ==
    ASSUME Package!CanonInit PROVE Package!CanonInv
<1> DEFINE task == x1  tar == x2  pos == x3  longName == x4  headers == x5  members == x6
           verdict == x7  files == x8  stack == x9  order == x10
<1>1. CASE task = "scan"
  <2>1. PICK n \in 1 .. MaxBlocks : tar \in [1 .. n -> Package!Blocks]
    BY <1>1 DEF Package!CanonInit
  <2>2. n \in Nat \ {0} /\ tar \in Seq(Package!Blocks) /\ Len(tar) = n
    BY <2>1, BudgetsAssumption
  <2>3. Cardinality(Package!Counted(pos - 1)) = 0
    <3>1. Package!Counted(pos - 1) = {}
      BY DEF Package!Counted, Package!CanonInit
    <3> QED BY <3>1, FS_EmptySet, Zenon
  <2>4. pos = 1 /\ longName = FALSE /\ headers = 0 /\ members = 0 /\ verdict = "none"
        /\ order = <<>>
    BY DEF Package!CanonInit
  <2>5. Package!ScanInv
    <3>1. pos \in 1 .. Len(tar) + 1 /\ 1 .. pos - 1 = {} /\ 0 <= MaxHeaders /\ 0 <= MaxMembers
      BY <2>2, <2>4, BudgetsAssumption
    <3>2. members = Cardinality(Package!Counted(pos - 1)) /\ headers = pos - 1
      BY <2>3, <2>4
    <3>3. longName \in BOOLEAN /\ (longName <=> (pos > 1 /\ tar[pos - 1] = "long"))
      <4>1. ~(pos > 1)
        BY <2>4
      <4> QED BY <2>4, <4>1, Zenon
    <3> QED BY <2>2, <2>4, <3>1, <3>2, <3>3, CountsAlike DEF Package!ScanInv
  <2>6. Package!ScanIsExact
    BY <2>4 DEF Package!ScanIsExact
  <2> QED BY <1>1, <2>4, <2>5, <2>6 DEF Package!CanonInv
<1>2. CASE task = "walk"
  <2>1. /\ files # {} /\ files \subseteq Package!Paths /\ order = <<>> /\ stack = <<>>
        /\ verdict = "none"
    BY <1>2 DEF Package!CanonInit
  <2>2. \A f \in files : f \in Seq(TreeNames) /\ Len(f) > 0
    <3> SUFFICES ASSUME NEW f \in files PROVE f \in Seq(TreeNames) /\ Len(f) > 0
      OBVIOUS
    <3>1. PICK d \in 1 .. MaxDepth : f \in [1 .. d -> TreeNames]
      BY <2>1 DEF Package!Paths
    <3>2. d \in Nat \ {0}
      BY BudgetsAssumption
    <3>3. f \in Seq(TreeNames)
      BY <3>1, <3>2, SeqDef
    <3>4. 1 \in 1 .. Len(f) /\ Len(f) \in Nat
      BY <3>1, <3>2, <3>3, LenProperties
    <3> QED BY <3>3, <3>4
  <2>3. DOMAIN order = {} /\ DOMAIN stack = {} /\ order \in Seq(Package!Tree)
        /\ stack \in Seq(Package!Tree)
    BY <2>1
  <2>4. Package!WalkInv
    BY <2>1, <2>2, <2>3 DEF Package!WalkInv
  <2> QED BY <1>2, <2>1, <2>4 DEF Package!CanonInv
<1> QED BY <1>1, <1>2 DEF Package!CanonInit

LEMMA CanonStepHolds ==
    ASSUME Package!CanonInv, [Package!CanonNext]_(Package!canonVars)
    PROVE  Package!CanonInv'
<1> DEFINE task == x1  tar == x2  verdict == x7  order == x10
<1>1. CASE UNCHANGED Package!canonVars
  BY ZenonT(40), <1>1 DEF Package!canonVars, Package!scanVars, Package!walkVars, Package!CanonInv,
     Package!ScanInv, Package!ScanIsExact, Package!WalkInv, Package!Counted, Package!Canonical,
     Package!Tree, Package!Directories
<1>2. CASE Package!Scan
  <2>1. /\ task = "scan" /\ order = <<>> /\ Package!ScanInv /\ verdict = "none"
        /\ task' = task /\ order' = order /\ tar' = tar
    BY <1>2 DEF Package!CanonInv, Package!Scan, Package!walkVars, Package!EndMarker,
       Package!LongName, Package!Member, Package!BadOrMissing, Package!Decide
  <2>2. Package!ScanInv'
    BY <1>2, <2>1, ScanHolds
  <2>3. Package!ScanIsExact'
    BY <1>2, <2>1, ScanDecides DEF Package!ScanIsExact, Package!Canonical
  <2> QED BY <2>1, <2>2, <2>3 DEF Package!CanonInv
<1>3. CASE Package!StartWalk \/ Package!PopChild
  <2>1. task = "walk" /\ verdict = "none" /\ Package!WalkInv /\ task' = task
        /\ verdict' = verdict
    BY <1>3 DEF Package!CanonInv, Package!StartWalk, Package!PopChild, Package!scanVars
  <2>2. Package!WalkInv'
    BY <1>3, <2>1, StartHolds, PopHolds
  <2> QED BY <2>1, <2>2 DEF Package!CanonInv
<1> QED BY <1>1, <1>2, <1>3 DEF Package!CanonNext

LEMMA CanonIsKept ==
    ASSUME Package!CanonInv PROVE Package!ScanIsExact /\ Package!WalkIsTreeOrder
<1> DEFINE task == x1  verdict == x7  files == x8  stack == x9  order == x10
<1>1. CASE task = "scan"
  BY <1>1 DEF Package!CanonInv, Package!WalkIsTreeOrder
<1>2. CASE task = "walk"
  <2>1. verdict = "none" /\ Package!WalkInv
    BY <1>2 DEF Package!CanonInv
  <2>2. ASSUME order # <<>>, stack = <<>>
        PROVE  Package!ToSet(order) = files \cup Package!Directories
    <3>1. DOMAIN stack = {} /\ Package!ToSet(stack) = {}
      BY <2>2 DEF Package!ToSet
    <3>2. DOMAIN order = 1 .. Len(order) /\ \A i \in 1 .. Len(order) : order[i] \in Package!Tree
      BY <2>1, LenProperties, ElementOfSeq DEF Package!WalkInv
    <3> QED BY <2>1, <2>2, <3>1, <3>2 DEF Package!WalkInv, Package!ToSet, Package!Tree
  <2>3. \A i, j \in DOMAIN order : i < j => Package!Before(order[i], order[j])
    BY <2>1 DEF Package!WalkInv
  <2> QED BY <2>1, <2>2, <2>3 DEF Package!ScanIsExact, Package!WalkIsTreeOrder
<1> QED BY <1>1, <1>2 DEF Package!CanonInv

BundlePart == part = "bundle" => Bundle!BundleInv
PackagePart == part = "package" => Package!CanonInv

(* However many generators race for one build id, die and are started again, and    *)
(* however the package file and HEAD change under them, the archive that is         *)
(* published is that of the published directory, made from one version of the       *)
(* package, of the commit it names; and for archives of any length and any finite   *)
(* tree the scan accepts exactly the canonical ones and the stack gives the order   *)
(* of the walk (generate-easyroms-bundle.py).                                       *)
THEOREM BundlesHold == Spec => []BundleHolds
<1>1. Init => BundlePart /\ PackagePart
  BY BundleBegins, CanonBegins
  DEF Init, BundlePart, PackagePart
<1>2. BundlePart /\ PackagePart /\ [Next]_mcVars
      => (BundlePart /\ PackagePart)'
  BY OwnSteps, BundleInductive, CanonStepHolds, NilAssumption
  DEF BundlePart, PackagePart
<1>3. BundlePart /\ PackagePart => BundleHolds
  BY CanonIsKept
  DEF BundlePart, PackagePart, BundleHolds,
         Bundle!BundleInv
<1> QED
  BY <1>1, <1>2, <1>3, PTL DEF Spec

-----------------------------------------------------------------------------
(* The first-version release.  An input that was hashed and has its identity still  *)
(* is pinned, and each part of the generation is what was made of such inputs.      *)
LEMMA OrderIsInputs ==
    /\ Len(Release!InputOrder) = 5
    /\ \A n \in 1..5 : Release!InputOrder[n] \in Release!InputNames
    /\ Release!InputOrder[1] = "p1" /\ Release!InputOrder[5] = "receipts"
    /\ {Release!InputOrder[n] : n \in 1..5} = Release!InputNames
<1>1. Len(Release!InputOrder) = 5
  BY DEF Release!InputOrder
<1>2. /\ Release!InputOrder[1] = "p1" /\ Release!InputOrder[2] = "prefix"
      /\ Release!InputOrder[3] = "p2"
      /\ Release!InputOrder[4] = "p3" /\ Release!InputOrder[5] = "receipts"
  BY DEF Release!InputOrder
<1>3. \A n \in 1..5 : n = 1 \/ n = 2 \/ n = 3 \/ n = 4 \/ n = 5
  OBVIOUS
<1>4. \A n \in 1..5 : Release!InputOrder[n] \in Release!InputNames
  BY <1>2, <1>3 DEF Release!InputNames
<1>5. \A i \in Release!InputNames : \E n \in 1..5 : Release!InputOrder[n] = i
  <2>1. 1 \in 1..5 /\ 2 \in 1..5 /\ 3 \in 1..5 /\ 4 \in 1..5 /\ 5 \in 1..5
    OBVIOUS
  <2> QED BY <1>2, <2>1 DEF Release!InputNames
<1> QED BY <1>1, <1>2, <1>4, <1>5

(* Of all that mtools may leave, the exact difference admits only what was asked. *)
LEMMA ExactIsMutated ==
    ASSUME NEW t \in Release!MtoolsResults(Release!BaseTree),
           Release!ExactP1Diff(Release!BaseTree, t)
    PROVE  t = Release!Mutated(Release!BaseTree)
<1> DEFINE right == Release!Mutated(Release!BaseTree)
<1>1. /\ DOMAIN Release!BaseTree = Release!Spotlight \cup Release!Anchors
         \cup {"boot.ini", "other"}
      /\ Release!BaseTree["boot.ini"] = "v0.15 boot"
      /\ \A p \in DOMAIN Release!BaseTree : p # "boot.ini" => Release!BaseTree[p] = p
  BY DEF Release!BaseTree
<1>2. DOMAIN right = (DOMAIN Release!BaseTree \ Release!Spotlight) \cup Release!V17Files
      \cup {"boot.ini"}
  BY DEF Release!Mutated
<1>3. DOMAIN Release!BaseTree \ DOMAIN t = Release!Spotlight
      /\ DOMAIN t \ DOMAIN Release!BaseTree = Release!V17Files
  BY DEF Release!ExactP1Diff
<1>4. /\ t["boot.ini"] = "v0.17 boot" /\ \A p \in Release!V17Files : t[p] = p
      /\ \A p \in DOMAIN Release!BaseTree \cap DOMAIN t : Release!BaseTree[p] # t[p]
         => p = "boot.ini"
  BY DEF Release!ExactP1Diff
<1>5. ASSUME NEW p \in DOMAIN right, t = [right EXCEPT ![p] = "damaged"]
      PROVE  FALSE
  <2>1. t[p] = "damaged" /\ DOMAIN t = DOMAIN right
    BY <1>5
  <2>2. p \in {"boot.ini", "other"} \cup Release!Anchors \cup Release!V17Files
    BY <1>1, <1>2
  <2>3. p # "boot.ini" /\ p \notin Release!V17Files
    BY <1>4, <2>1 DEF Release!V17Files
  <2>4. p \in DOMAIN Release!BaseTree \cap DOMAIN t /\ Release!BaseTree[p] = p
    BY <1>1, <2>1, <2>2, <2>3
  <2>5. p # "damaged"
    BY <2>2, <2>3 DEF Release!Anchors
  <2> QED BY <1>4, <2>1, <2>3, <2>4, <2>5
<1>6. ASSUME NEW p \in DOMAIN right, t = [q \in DOMAIN right \ {p} |-> right[q]]
      PROVE  FALSE
  <2>1. p \notin DOMAIN t
    BY <1>6
  <2>2. p \notin Release!V17Files
    BY <1>3, <2>1
  <2>3. p \in DOMAIN Release!BaseTree
    BY <1>1, <1>2, <2>2
  <2>4. p \notin Release!Spotlight
    BY <1>2, <2>3, <2>2 DEF Release!Spotlight, Release!V17Files
  <2> QED BY <1>3, <2>1, <2>3, <2>4
<1>7. ASSUME NEW p \in Release!Spotlight,
             t = [q \in DOMAIN right \cup {p} |-> IF q = p THEN p ELSE right[q]]
      PROVE  FALSE
  <2>1. p \in DOMAIN t
    BY <1>7
  <2> QED BY <1>3, <2>1
<1> QED
  BY <1>5, <1>6, <1>7 DEF Release!MtoolsResults

LEMMA ReleaseBegins ==
    ASSUME Release!ReleaseInit PROVE Release!ReleaseInv
<1> DEFINE inputs == x1
<1>1. inputs = [i \in Release!InputNames |-> [content |-> Release!Pinned, id |-> 0]]
  BY OrderIsInputs DEF Release!ReleaseInit
<1>2. Release!TakesInOrder(Release!Waiting) /\ Release!ReadsWhatItTook(Release!Waiting)
      /\ Release!MakesThePlan(Release!Waiting)
  BY DEF Release!TakesInOrder, Release!ReadsWhatItTook, Release!MakesThePlan, Release!Waiting,
     Release!Fields, Release!AfterClone, Release!AfterDiff, Release!AfterParts
<1> QED
  BY <1>1, <1>2 DEF Release!ReleaseInit, Release!ReleaseInv, Release!ReleaseIsPinned,
     Release!Pinned, Release!PassIsWhole

(* A builder replaced by one of which the same is true. *)
LEMMA ReleaseBuilderReplaced ==
    ASSUME Release!ReleaseInv, NEW b \in Releasers, NEW m,
           Release!TakesInOrder(m), Release!ReadsWhatItTook(m), Release!MakesThePlan(m),
           x3' = [x3 EXCEPT ![b] = m], UNCHANGED <<x1, x2, x4, x5, x6>>
    PROVE  Release!ReleaseInv'
<1> DEFINE builder == x3
<1>1. DOMAIN builder' = Releasers
      /\ \A c \in Releasers : builder'[c] = IF c = b THEN m ELSE builder[c]
  BY DEF Release!ReleaseInv
<1>2. \A c \in Releasers : Release!TakesInOrder(builder'[c])
      /\ Release!ReadsWhatItTook(builder'[c]) /\ Release!MakesThePlan(builder'[c])
  BY <1>1 DEF Release!ReleaseInv
<1>3. ASSUME NEW c \in Releasers PROVE Release!ReadsWhatItTook(builder[c])'
  BY <1>2 DEF Release!ReadsWhatItTook, Release!SameAsTaken
<1>4. \A c \in Releasers : (Release!TakesInOrder(builder[c])
                            /\ Release!MakesThePlan(builder[c]))'
  BY <1>2 DEF Release!TakesInOrder, Release!MakesThePlan
<1> QED
  BY <1>1, <1>3, <1>4 DEF Release!ReleaseInv, Release!PassIsWhole

(* The builder takes the inputs one by one and hashes what the contract pins. *)
LEMMA ReleaseCaptureSource ==
    ASSUME Release!ReleaseInv, NEW b \in Releasers, Release!CaptureSource(b)
    PROVE  Release!ReleaseInv'
<1> DEFINE inputs == x1  headMoved == x2  builder == x3  generation == x4
           validator == x5  passed == x6
<1> DEFINE m == builder[b]
<1>0. /\ Release!TakesInOrder(m) /\ Release!ReadsWhatItTook(m) /\ Release!MakesThePlan(m)
      /\ DOMAIN m = Release!Fields
      /\ DOMAIN builder = Releasers
  BY DEF Release!ReleaseInv, Release!TakesInOrder
<1> DEFINE k == [m EXCEPT !.at = "identify"]
<1>1. builder' = [builder EXCEPT ![b] = k]
  BY <1>0 DEF Release!CaptureSource, Release!Fields
<1>2. m.at = "capture"
  BY <1>0 DEF Release!CaptureSource, Release!BuilderAt
<1>3. /\ DOMAIN k = Release!Fields
      /\ k.at = "identify"
      /\ k.taken = m.taken
      /\ k.ids = m.ids
      /\ k.before = m.before
      /\ k.p1 = m.p1
      /\ k.parts = m.parts
      /\ k.receipts = m.receipts
  BY <1>0 DEF Release!Fields
<1> HIDE DEF k
<1>4. Release!TakesInOrder(k)
  BY <1>0, <1>2, <1>3 DEF Release!TakesInOrder, Release!AfterClone, Release!AfterDiff,
     Release!AfterParts
<1>5. Release!ReadsWhatItTook(k)
  BY <1>0, <1>2, <1>3 DEF Release!ReadsWhatItTook, Release!SameAsTaken, Release!TakesInOrder,
     Release!AfterClone
<1>6. Release!MakesThePlan(k)
  BY <1>0, <1>2, <1>3 DEF Release!MakesThePlan, Release!AfterDiff, Release!AfterParts,
     Release!TakesInOrder
<1>7. UNCHANGED <<inputs, headMoved, generation, validator, passed>>
  BY DEF Release!CaptureSource, Release!Builds
<1> QED BY <1>1, <1>4, <1>5, <1>6, <1>7, ReleaseBuilderReplaced

LEMMA ReleaseHashInput ==
    ASSUME Release!ReleaseInv, NEW b \in Releasers, Release!HashInput(b)
    PROVE  Release!ReleaseInv'
<1> DEFINE inputs == x1  headMoved == x2  builder == x3  generation == x4
           validator == x5  passed == x6
<1> DEFINE m == builder[b]
<1>0. /\ Release!TakesInOrder(m) /\ Release!ReadsWhatItTook(m) /\ Release!MakesThePlan(m)
      /\ DOMAIN m = Release!Fields
      /\ DOMAIN builder = Releasers
  BY DEF Release!ReleaseInv, Release!TakesInOrder
<1> DEFINE k == [m EXCEPT !.at = IF m.taken = 5 THEN "receipts" ELSE "identify"]
<1>1. builder' = [builder EXCEPT ![b] = k]
  BY <1>0, OrderIsInputs DEF Release!HashInput, Release!Fields
<1>2. /\ m.at = "hash"
      /\ Release!InputOrder[m.taken] \in Release!HashedOnEntry
         => inputs[Release!InputOrder[m.taken]].content = Release!Pinned
  BY <1>0 DEF Release!HashInput, Release!BuilderAt
<1>3. /\ DOMAIN k = Release!Fields
      /\ k.at = IF m.taken = 5 THEN "receipts" ELSE "identify"
      /\ k.taken = m.taken
      /\ k.ids = m.ids
      /\ k.before = m.before
      /\ k.p1 = m.p1
      /\ k.parts = m.parts
      /\ k.receipts = m.receipts
  BY <1>0 DEF Release!Fields
<1> HIDE DEF k
<1>4. Release!TakesInOrder(k)
  BY <1>0, <1>2, <1>3 DEF Release!TakesInOrder, Release!AfterClone, Release!AfterDiff,
     Release!AfterParts
<1>5. Release!ReadsWhatItTook(k)
  BY <1>0, <1>2, <1>3 DEF Release!ReadsWhatItTook, Release!SameAsTaken, Release!TakesInOrder,
     Release!AfterClone
<1>6. Release!MakesThePlan(k)
  BY <1>0, <1>2, <1>3 DEF Release!MakesThePlan, Release!AfterDiff, Release!AfterParts,
     Release!TakesInOrder
<1>7. UNCHANGED <<inputs, headMoved, generation, validator, passed>>
  BY DEF Release!HashInput, Release!Builds
<1> QED BY <1>1, <1>4, <1>5, <1>6, <1>7, ReleaseBuilderReplaced

LEMMA ReleaseCheckReceipts ==
    ASSUME Release!ReleaseInv, NEW b \in Releasers, Release!CheckReceipts(b)
    PROVE  Release!ReleaseInv'
<1> DEFINE inputs == x1  headMoved == x2  builder == x3  generation == x4
           validator == x5  passed == x6
<1> DEFINE m == builder[b]
<1>0. /\ Release!TakesInOrder(m) /\ Release!ReadsWhatItTook(m) /\ Release!MakesThePlan(m)
      /\ DOMAIN m = Release!Fields
      /\ DOMAIN builder = Releasers
  BY DEF Release!ReleaseInv, Release!TakesInOrder
<1> DEFINE k == [m EXCEPT !.at = "clone"]
<1>1. builder' = [builder EXCEPT ![b] = k]
  BY <1>0 DEF Release!CheckReceipts, Release!Fields
<1>2. m.at = "receipts"
  BY <1>0 DEF Release!CheckReceipts, Release!BuilderAt
<1>3. /\ DOMAIN k = Release!Fields
      /\ k.at = "clone"
      /\ k.taken = m.taken
      /\ k.ids = m.ids
      /\ k.before = m.before
      /\ k.p1 = m.p1
      /\ k.parts = m.parts
      /\ k.receipts = m.receipts
  BY <1>0 DEF Release!Fields
<1> HIDE DEF k
<1>4. Release!TakesInOrder(k)
  BY <1>0, <1>2, <1>3 DEF Release!TakesInOrder, Release!AfterClone, Release!AfterDiff,
     Release!AfterParts
<1>5. Release!ReadsWhatItTook(k)
  BY <1>0, <1>2, <1>3 DEF Release!ReadsWhatItTook, Release!SameAsTaken, Release!TakesInOrder,
     Release!AfterClone
<1>6. Release!MakesThePlan(k)
  BY <1>0, <1>2, <1>3 DEF Release!MakesThePlan, Release!AfterDiff, Release!AfterParts,
     Release!TakesInOrder
<1>7. UNCHANGED <<inputs, headMoved, generation, validator, passed>>
  BY DEF Release!CheckReceipts, Release!Builds
<1> QED BY <1>1, <1>4, <1>5, <1>6, <1>7, ReleaseBuilderReplaced

(* p1 is a copy of the base image, changed by mtools and compared with the plan. *)
LEMMA ReleaseCloneBase ==
    ASSUME Release!ReleaseInv, NEW b \in Releasers, Release!CloneBase(b)
    PROVE  Release!ReleaseInv'
<1> DEFINE inputs == x1  headMoved == x2  builder == x3  generation == x4
           validator == x5  passed == x6
<1> DEFINE m == builder[b]
<1>0. /\ Release!TakesInOrder(m) /\ Release!ReadsWhatItTook(m) /\ Release!MakesThePlan(m)
      /\ DOMAIN m = Release!Fields
      /\ DOMAIN builder = Releasers
  BY DEF Release!ReleaseInv, Release!TakesInOrder
<1> DEFINE k == [m EXCEPT !.at = "mutate", !.before = Release!TreeOf(inputs["p1"].content)]
<1>1. builder' = [builder EXCEPT ![b] = k]
  BY <1>0 DEF Release!CloneBase, Release!Fields
<1>2. m.at = "clone"
  BY <1>0 DEF Release!CloneBase, Release!BuilderAt
<1>3. /\ DOMAIN k = Release!Fields
      /\ k.at = "mutate"
      /\ k.taken = m.taken
      /\ k.ids = m.ids
      /\ k.before = Release!TreeOf(inputs["p1"].content)
      /\ k.p1 = m.p1
      /\ k.parts = m.parts
      /\ k.receipts = m.receipts
  BY <1>0 DEF Release!Fields
<1> HIDE DEF k
<1>4. Release!TakesInOrder(k)
  BY <1>0, <1>2, <1>3 DEF Release!TakesInOrder, Release!AfterClone, Release!AfterDiff,
     Release!AfterParts
<1>5. Release!ReadsWhatItTook(k)
  <2>1. \A n \in 1..k.taken :
          /\ k.ids[n] <= inputs[Release!InputOrder[n]].id
          /\ /\ Release!InputOrder[n] \in Release!HashedOnEntry
             /\ (n # k.taken \/ k.at # "hash")
             /\ Release!SameAsTaken(k, n)
             => inputs[Release!InputOrder[n]].content = Release!Pinned
    BY <1>0, <1>2, <1>3 DEF Release!ReadsWhatItTook, Release!SameAsTaken
  <2>2. Release!SameAsTaken(k, 1) => k.before = Release!BaseTree
    BY <1>0, <1>2, <1>3, <2>1, OrderIsInputs
    DEF Release!SameAsTaken, Release!TakesInOrder, Release!AfterClone, Release!TreeOf,
        Release!HashedOnEntry
  <2> QED BY <1>3, <2>1, <2>2 DEF Release!ReadsWhatItTook
<1>6. Release!MakesThePlan(k)
  BY <1>0, <1>2, <1>3 DEF Release!MakesThePlan, Release!AfterDiff, Release!AfterParts,
     Release!TakesInOrder
<1>7. UNCHANGED <<inputs, headMoved, generation, validator, passed>>
  BY DEF Release!CloneBase, Release!Builds
<1> QED BY <1>1, <1>4, <1>5, <1>6, <1>7, ReleaseBuilderReplaced

LEMMA ReleaseMutateP1 ==
    ASSUME Release!ReleaseInv, NEW b \in Releasers, Release!MutateP1(b)
    PROVE  Release!ReleaseInv'
<1> DEFINE inputs == x1  headMoved == x2  builder == x3  generation == x4
           validator == x5  passed == x6
<1> DEFINE m == builder[b]
<1>0. /\ Release!TakesInOrder(m) /\ Release!ReadsWhatItTook(m) /\ Release!MakesThePlan(m)
      /\ DOMAIN m = Release!Fields
      /\ DOMAIN builder = Releasers
  BY DEF Release!ReleaseInv, Release!TakesInOrder
<1>p. PICK t \in Release!MtoolsResults(m.before) :
         builder' = [builder EXCEPT ![b].at = "diff", ![b].p1 = t]
  BY DEF Release!MutateP1
<1> DEFINE k == [m EXCEPT !.at = "diff", !.p1 = t]
<1>1. builder' = [builder EXCEPT ![b] = k]
  BY <1>0, <1>p DEF Release!MutateP1, Release!Fields
<1>2. m.at = "mutate"
  BY <1>0, <1>p DEF Release!MutateP1, Release!BuilderAt
<1>3. /\ DOMAIN k = Release!Fields
      /\ k.at = "diff"
      /\ k.taken = m.taken
      /\ k.ids = m.ids
      /\ k.before = m.before
      /\ k.p1 = t
      /\ k.parts = m.parts
      /\ k.receipts = m.receipts
  BY <1>0 DEF Release!Fields
<1> HIDE DEF k
<1>4. Release!TakesInOrder(k)
  BY <1>0, <1>2, <1>3 DEF Release!TakesInOrder, Release!AfterClone, Release!AfterDiff,
     Release!AfterParts
<1>5. Release!ReadsWhatItTook(k)
  BY <1>0, <1>2, <1>3 DEF Release!ReadsWhatItTook, Release!SameAsTaken, Release!TakesInOrder,
     Release!AfterClone
<1>6. Release!MakesThePlan(k)
  BY <1>0, <1>2, <1>3 DEF Release!MakesThePlan, Release!AfterDiff, Release!AfterParts,
     Release!TakesInOrder
<1>7. UNCHANGED <<inputs, headMoved, generation, validator, passed>>
  BY DEF Release!MutateP1, Release!Builds
<1> QED BY <1>1, <1>4, <1>5, <1>6, <1>7, ReleaseBuilderReplaced

LEMMA ReleaseDiffP1 ==
    ASSUME Release!ReleaseInv, NEW b \in Releasers, Release!DiffP1(b)
    PROVE  Release!ReleaseInv'
<1> DEFINE inputs == x1  headMoved == x2  builder == x3  generation == x4
           validator == x5  passed == x6
<1> DEFINE m == builder[b]
<1>0. /\ Release!TakesInOrder(m) /\ Release!ReadsWhatItTook(m) /\ Release!MakesThePlan(m)
      /\ DOMAIN m = Release!Fields
      /\ DOMAIN builder = Releasers
  BY DEF Release!ReleaseInv, Release!TakesInOrder
<1> DEFINE k == [m EXCEPT !.at = "parts"]
<1>1. builder' = [builder EXCEPT ![b] = k]
  BY <1>0 DEF Release!DiffP1, Release!Fields
<1>2. m.at = "diff" /\ Release!ExactP1Diff(m.before, m.p1)
  BY <1>0 DEF Release!DiffP1, Release!BuilderAt
<1>3. /\ DOMAIN k = Release!Fields
      /\ k.at = "parts"
      /\ k.taken = m.taken
      /\ k.ids = m.ids
      /\ k.before = m.before
      /\ k.p1 = m.p1
      /\ k.parts = m.parts
      /\ k.receipts = m.receipts
  BY <1>0 DEF Release!Fields
<1> HIDE DEF k
<1>4. Release!TakesInOrder(k)
  BY <1>0, <1>2, <1>3 DEF Release!TakesInOrder, Release!AfterClone, Release!AfterDiff,
     Release!AfterParts
<1>5. Release!ReadsWhatItTook(k)
  BY <1>0, <1>2, <1>3 DEF Release!ReadsWhatItTook, Release!SameAsTaken, Release!TakesInOrder,
     Release!AfterClone
<1>6. Release!MakesThePlan(k)
  BY <1>0, <1>2, <1>3, ExactIsMutated DEF Release!MakesThePlan, Release!AfterDiff,
     Release!AfterParts, Release!TakesInOrder
<1>7. UNCHANGED <<inputs, headMoved, generation, validator, passed>>
  BY DEF Release!DiffP1, Release!Builds
<1> QED BY <1>1, <1>4, <1>5, <1>6, <1>7, ReleaseBuilderReplaced

(* The other parts and the receipts are copied and hashed again. *)
LEMMA ReleaseCloneParts ==
    ASSUME Release!ReleaseInv, NEW b \in Releasers, Release!CloneParts(b)
    PROVE  Release!ReleaseInv'
<1> DEFINE inputs == x1  headMoved == x2  builder == x3  generation == x4
           validator == x5  passed == x6
<1> DEFINE m == builder[b]
<1>0. /\ Release!TakesInOrder(m) /\ Release!ReadsWhatItTook(m) /\ Release!MakesThePlan(m)
      /\ DOMAIN m = Release!Fields
      /\ DOMAIN builder = Releasers
  BY DEF Release!ReleaseInv, Release!TakesInOrder
<1> DEFINE k == [m EXCEPT !.at = "hash parts",
                 !.parts = [i \in Release!Components |-> inputs[i].content]]
<1>1. builder' = [builder EXCEPT ![b] = k]
  BY <1>0 DEF Release!CloneParts, Release!Fields
<1>2. m.at = "parts"
  BY <1>0 DEF Release!CloneParts, Release!BuilderAt
<1>3. /\ DOMAIN k = Release!Fields
      /\ k.at = "hash parts"
      /\ k.taken = m.taken
      /\ k.ids = m.ids
      /\ k.before = m.before
      /\ k.p1 = m.p1
      /\ k.parts = [i \in Release!Components |-> inputs[i].content]
      /\ k.receipts = m.receipts
  BY <1>0 DEF Release!Fields
<1> HIDE DEF k
<1>4. Release!TakesInOrder(k)
  BY <1>0, <1>2, <1>3 DEF Release!TakesInOrder, Release!AfterClone, Release!AfterDiff,
     Release!AfterParts
<1>5. Release!ReadsWhatItTook(k)
  BY <1>0, <1>2, <1>3 DEF Release!ReadsWhatItTook, Release!SameAsTaken, Release!TakesInOrder,
     Release!AfterClone
<1>6. Release!MakesThePlan(k)
  <2>1. \A i \in Release!Components : inputs[i].content \in {Release!Pinned, "other"}
    BY DEF Release!ReleaseInv, Release!Components, Release!InputNames
  <2>2. k.parts \in [Release!Components -> {Release!Pinned, "other"}]
    BY <1>3, <2>1
  <2> QED
    BY <1>0, <1>2, <1>3, <2>2 DEF Release!MakesThePlan, Release!AfterDiff, Release!AfterParts
<1>7. UNCHANGED <<inputs, headMoved, generation, validator, passed>>
  BY DEF Release!CloneParts, Release!Builds
<1> QED BY <1>1, <1>4, <1>5, <1>6, <1>7, ReleaseBuilderReplaced

LEMMA ReleaseHashParts ==
    ASSUME Release!ReleaseInv, NEW b \in Releasers, Release!HashParts(b)
    PROVE  Release!ReleaseInv'
<1> DEFINE inputs == x1  headMoved == x2  builder == x3  generation == x4
           validator == x5  passed == x6
<1> DEFINE m == builder[b]
<1>0. /\ Release!TakesInOrder(m) /\ Release!ReadsWhatItTook(m) /\ Release!MakesThePlan(m)
      /\ DOMAIN m = Release!Fields
      /\ DOMAIN builder = Releasers
  BY DEF Release!ReleaseInv, Release!TakesInOrder
<1> DEFINE k == [m EXCEPT !.at = "copy receipts"]
<1>1. builder' = [builder EXCEPT ![b] = k]
  BY <1>0 DEF Release!HashParts, Release!Fields
<1>2. m.at = "hash parts" /\ \A i \in Release!Components : m.parts[i] = Release!Pinned
  BY <1>0 DEF Release!HashParts, Release!BuilderAt
<1>3. /\ DOMAIN k = Release!Fields
      /\ k.at = "copy receipts"
      /\ k.taken = m.taken
      /\ k.ids = m.ids
      /\ k.before = m.before
      /\ k.p1 = m.p1
      /\ k.parts = m.parts
      /\ k.receipts = m.receipts
  BY <1>0 DEF Release!Fields
<1> HIDE DEF k
<1>4. Release!TakesInOrder(k)
  BY <1>0, <1>2, <1>3 DEF Release!TakesInOrder, Release!AfterClone, Release!AfterDiff,
     Release!AfterParts
<1>5. Release!ReadsWhatItTook(k)
  BY <1>0, <1>2, <1>3 DEF Release!ReadsWhatItTook, Release!SameAsTaken, Release!TakesInOrder,
     Release!AfterClone
<1>6. Release!MakesThePlan(k)
  BY <1>0, <1>2, <1>3 DEF Release!MakesThePlan, Release!AfterDiff, Release!AfterParts,
     Release!TakesInOrder
<1>7. UNCHANGED <<inputs, headMoved, generation, validator, passed>>
  BY DEF Release!HashParts, Release!Builds
<1> QED BY <1>1, <1>4, <1>5, <1>6, <1>7, ReleaseBuilderReplaced

LEMMA ReleaseCopyReceipts ==
    ASSUME Release!ReleaseInv, NEW b \in Releasers, Release!CopyReceipts(b)
    PROVE  Release!ReleaseInv'
<1> DEFINE inputs == x1  headMoved == x2  builder == x3  generation == x4
           validator == x5  passed == x6
<1> DEFINE m == builder[b]
<1>0. /\ Release!TakesInOrder(m) /\ Release!ReadsWhatItTook(m) /\ Release!MakesThePlan(m)
      /\ DOMAIN m = Release!Fields
      /\ DOMAIN builder = Releasers
  BY DEF Release!ReleaseInv, Release!TakesInOrder
<1> DEFINE k == [m EXCEPT !.at = "recheck", !.receipts = inputs["receipts"].content]
<1>1. builder' = [builder EXCEPT ![b] = k]
  BY <1>0 DEF Release!CopyReceipts, Release!Fields
<1>2. m.at = "copy receipts"
  BY <1>0 DEF Release!CopyReceipts, Release!BuilderAt
<1>3. /\ DOMAIN k = Release!Fields
      /\ k.at = "recheck"
      /\ k.taken = m.taken
      /\ k.ids = m.ids
      /\ k.before = m.before
      /\ k.p1 = m.p1
      /\ k.parts = m.parts
      /\ k.receipts = inputs["receipts"].content
  BY <1>0 DEF Release!Fields
<1> HIDE DEF k
<1>4. Release!TakesInOrder(k)
  BY <1>0, <1>2, <1>3 DEF Release!TakesInOrder, Release!AfterClone, Release!AfterDiff,
     Release!AfterParts
<1>5. Release!ReadsWhatItTook(k)
  <2>1. m.taken = 5 /\ m.at \in Release!AfterClone /\ m.at # "hash"
    BY <1>0, <1>2 DEF Release!TakesInOrder, Release!AfterClone
  <2>2. /\ \A n \in 1..k.taken :
              /\ k.ids[n] <= inputs[Release!InputOrder[n]].id
              /\ Release!InputOrder[n] \in Release!HashedOnEntry /\ Release!SameAsTaken(k, n)
                            => inputs[Release!InputOrder[n]].content = Release!Pinned
        /\ Release!SameAsTaken(k, 1) => k.before = Release!BaseTree
    BY <1>0, <1>3, <2>1 DEF Release!ReadsWhatItTook, Release!SameAsTaken
  <2>3. Release!SameAsTaken(k, 5) => k.receipts = Release!Pinned
    BY <1>3, <2>1, <2>2, OrderIsInputs DEF Release!HashedOnEntry
  <2> QED BY <2>2, <2>3 DEF Release!ReadsWhatItTook
<1>6. Release!MakesThePlan(k)
  BY <1>0, <1>2, <1>3 DEF Release!MakesThePlan, Release!AfterDiff, Release!AfterParts,
     Release!TakesInOrder
<1>7. UNCHANGED <<inputs, headMoved, generation, validator, passed>>
  BY DEF Release!CopyReceipts, Release!Builds
<1> QED BY <1>1, <1>4, <1>5, <1>6, <1>7, ReleaseBuilderReplaced

(* At the end the inputs are looked at once more, and what is published is pinned. *)
LEMMA ReleaseRecheckInputs ==
    ASSUME Release!ReleaseInv, NEW b \in Releasers, Release!RecheckInputs(b)
    PROVE  Release!ReleaseInv'
<1> DEFINE inputs == x1  headMoved == x2  builder == x3  generation == x4
           validator == x5  passed == x6
<1> DEFINE m == builder[b]
<1>0. /\ Release!TakesInOrder(m) /\ Release!ReadsWhatItTook(m) /\ Release!MakesThePlan(m)
      /\ DOMAIN m = Release!Fields
      /\ DOMAIN builder = Releasers
  BY DEF Release!ReleaseInv, Release!TakesInOrder
<1> DEFINE k == [m EXCEPT !.at = "publish"]
<1>1. builder' = [builder EXCEPT ![b] = k]
  BY <1>0 DEF Release!RecheckInputs, Release!Fields
<1>2. /\ m.at = "recheck" /\ Release!InputsUnchanged(b)
  BY <1>0 DEF Release!RecheckInputs, Release!BuilderAt
<1>3. /\ DOMAIN k = Release!Fields
      /\ k.at = "publish"
      /\ k.taken = m.taken
      /\ k.ids = m.ids
      /\ k.before = m.before
      /\ k.p1 = m.p1
      /\ k.parts = m.parts
      /\ k.receipts = m.receipts
  BY <1>0 DEF Release!Fields
<1> HIDE DEF k
<1>4. Release!TakesInOrder(k)
  BY <1>0, <1>2, <1>3 DEF Release!TakesInOrder, Release!AfterClone, Release!AfterDiff,
     Release!AfterParts
<1>5. Release!ReadsWhatItTook(k)
  BY <1>0, <1>2, <1>3 DEF Release!ReadsWhatItTook, Release!SameAsTaken, Release!TakesInOrder,
     Release!AfterClone
<1>6. Release!MakesThePlan(k)
  <2>1. \A n \in 1..5 : Release!SameAsTaken(m, n)
    BY <1>2, OrderIsInputs DEF Release!InputsUnchanged, Release!SameAsTaken
  <2>2. m.before = Release!BaseTree /\ m.receipts = Release!Pinned
    BY <1>0, <1>2, <2>1 DEF Release!ReadsWhatItTook, Release!AfterClone
  <2>3. m.p1 = Release!Mutated(Release!BaseTree)
        /\ m.parts \in [Release!Components -> {Release!Pinned}]
    BY <1>0, <1>2, <2>2 DEF Release!MakesThePlan, Release!AfterDiff, Release!AfterParts
  <2> QED BY <1>3, <2>2, <2>3 DEF Release!MakesThePlan, Release!AfterDiff, Release!AfterParts
<1>7. UNCHANGED <<inputs, headMoved, generation, validator, passed>>
  BY DEF Release!RecheckInputs, Release!Builds
<1> QED BY <1>1, <1>4, <1>5, <1>6, <1>7, ReleaseBuilderReplaced

LEMMA ReleaseIdentifyInput ==
    ASSUME Release!ReleaseInv, NEW b \in Releasers, Release!IdentifyInput(b)
    PROVE  Release!ReleaseInv'
<1> DEFINE inputs == x1  headMoved == x2  builder == x3  generation == x4
           validator == x5  passed == x6
<1> DEFINE m == builder[b]
           i == Release!InputOrder[m.taken + 1]
<1>0. /\ Release!TakesInOrder(m) /\ Release!ReadsWhatItTook(m) /\ Release!MakesThePlan(m)
      /\ DOMAIN m = Release!Fields
      /\ DOMAIN builder = Releasers
  BY DEF Release!ReleaseInv, Release!TakesInOrder
<1> DEFINE k == [m EXCEPT !.ids = Append(m.ids, inputs[i].id), !.taken = m.taken + 1,
                 !.at = "hash"]
<1>1. builder' = [builder EXCEPT ![b] = k]
  BY <1>0 DEF Release!IdentifyInput, Release!Fields
<1>2. m.at = "identify" /\ m.taken \in 0..4 /\ m.ids \in Seq(Nat) /\ Len(m.ids) = m.taken
  BY <1>0 DEF Release!IdentifyInput, Release!BuilderAt, Release!TakesInOrder
<1>3. /\ DOMAIN k = Release!Fields /\ k.at = "hash" /\ k.taken = m.taken + 1
      /\ k.ids = Append(m.ids, inputs[i].id) /\ k.before = m.before /\ k.p1 = m.p1
      /\ k.parts = m.parts /\ k.receipts = m.receipts
  BY <1>0 DEF Release!Fields
<1>4. m.taken + 1 \in 1..5 /\ i \in Release!InputNames /\ inputs[i].id \in Nat
  <2>1. inputs \in [Release!InputNames -> [content : {Release!Pinned, "other"}, id : Nat]]
    BY DEF Release!ReleaseInv
  <2> QED BY <1>2, <2>1, OrderIsInputs
<1> HIDE DEF k
<1>5. Release!TakesInOrder(k)
  BY <1>2, <1>3, <1>4 DEF Release!TakesInOrder, Release!AfterClone, Release!AfterDiff,
     Release!AfterParts
<1>6. /\ \A n \in 1..m.taken : k.ids[n] = m.ids[n]
      /\ k.ids[m.taken + 1] = inputs[i].id
  BY <1>2, <1>3, <1>4
<1>7. Release!ReadsWhatItTook(k)
  <2>1. ASSUME NEW n \in 1..k.taken
        PROVE  /\ k.ids[n] <= inputs[Release!InputOrder[n]].id
               /\ Release!InputOrder[n] \in Release!HashedOnEntry
                  /\ (n # k.taken \/ k.at # "hash") /\ Release!SameAsTaken(k, n)
                             => inputs[Release!InputOrder[n]].content = Release!Pinned
    <3>1. CASE n = m.taken + 1
      BY <3>1, <1>3, <1>4, <1>6
    <3>2. CASE n # m.taken + 1
      <4>1. n \in 1..m.taken
        BY <3>2, <1>2, <1>3
      <4> QED BY <4>1, <1>0, <1>2, <1>6 DEF Release!ReadsWhatItTook, Release!SameAsTaken
    <3> QED BY <3>1, <3>2
  <2> QED BY <2>1, <1>3 DEF Release!ReadsWhatItTook, Release!AfterClone
<1>8. Release!MakesThePlan(k)
  BY <1>0, <1>3 DEF Release!MakesThePlan, Release!AfterDiff, Release!AfterParts
<1>9. UNCHANGED <<inputs, headMoved, generation, validator, passed>>
  BY DEF Release!IdentifyInput, Release!Builds
<1> QED BY <1>1, <1>5, <1>7, <1>8, <1>9, ReleaseBuilderReplaced

LEMMA ReleaseFails ==
    ASSUME Release!ReleaseInv, NEW b \in Releasers, Release!BuildFails(b)
    PROVE  Release!ReleaseInv'
<1> DEFINE inputs == x1  headMoved == x2  builder == x3  generation == x4
           validator == x5  passed == x6
<1> DEFINE k == [Release!Waiting EXCEPT !.at = "failed"]
<1>1. Release!TakesInOrder(k) /\ Release!ReadsWhatItTook(k) /\ Release!MakesThePlan(k)
  BY DEF Release!TakesInOrder, Release!ReadsWhatItTook, Release!MakesThePlan, Release!Waiting,
     Release!Fields, Release!AfterClone, Release!AfterDiff, Release!AfterParts
<1>2. builder' = [builder EXCEPT ![b] = k] /\ UNCHANGED <<inputs, headMoved, generation,
              validator, passed>>
  BY DEF Release!BuildFails, Release!Builds
<1> QED BY <1>1, <1>2, ReleaseBuilderReplaced

LEMMA ReleasePublishes ==
    ASSUME Release!ReleaseInv, NEW b \in Releasers, Release!PublishRelease(b)
    PROVE  Release!ReleaseInv'
<1> DEFINE inputs == x1  headMoved == x2  builder == x3  generation == x4
           validator == x5  passed == x6
<1> DEFINE m == builder[b]
           k == [m EXCEPT !.at = "done"]
<1>0. /\ Release!TakesInOrder(m) /\ Release!ReadsWhatItTook(m) /\ Release!MakesThePlan(m)
      /\ DOMAIN m = Release!Fields
      /\ DOMAIN builder = Releasers /\ m.at = "publish"
  BY DEF Release!ReleaseInv, Release!TakesInOrder, Release!PublishRelease, Release!BuilderAt
<1>1. /\ DOMAIN k = Release!Fields /\ k.at = "done" /\ k.taken = m.taken /\ k.ids = m.ids
      /\ k.before = m.before /\ k.receipts = m.receipts
  BY <1>0 DEF Release!Fields
<1>2. builder' = [builder EXCEPT ![b] = k] /\ UNCHANGED <<inputs, headMoved, validator, passed>>
      /\ generation = Nil
      /\ generation' = [p1 |-> m.p1, parts |-> m.parts, receipts |-> m.receipts, torn |-> {},
                        settled |-> FALSE]
  BY DEF Release!PublishRelease
<1> HIDE DEF k
<1>3. Release!TakesInOrder(k) /\ Release!ReadsWhatItTook(k) /\ Release!MakesThePlan(k)
  BY <1>0, <1>1
  DEF Release!TakesInOrder, Release!ReadsWhatItTook, Release!MakesThePlan, Release!SameAsTaken,
      Release!AfterClone, Release!AfterDiff, Release!AfterParts
<1>4. \A c \in Releasers : builder'[c] = IF c = b THEN k ELSE builder[c]
  BY <1>0, <1>2
<1>5. \A c \in Releasers : Release!TakesInOrder(builder'[c])
      /\ Release!ReadsWhatItTook(builder'[c]) /\ Release!MakesThePlan(builder'[c])
  BY <1>3, <1>4 DEF Release!ReleaseInv
<1>6. ASSUME NEW c \in Releasers PROVE Release!ReadsWhatItTook(builder[c])'
  BY <1>2, <1>5 DEF Release!ReadsWhatItTook, Release!SameAsTaken
<1>7. \A c \in Releasers : (Release!TakesInOrder(builder[c])
                            /\ Release!MakesThePlan(builder[c]))'
  BY <1>5 DEF Release!TakesInOrder, Release!MakesThePlan
<1>8. generation' \in Release!Releases
  BY <1>0, <1>2 DEF Release!Releases, Release!MakesThePlan
<1>9. generation' # Nil /\ generation'.torn = {} /\ generation'.settled = FALSE
  BY <1>2, <1>8, NilAssumption
<1>10. validator \notin {"contract", "live tree", "receipt", "passed"} /\ passed # "written"
  BY <1>2 DEF Release!ReleaseInv, Release!PassIsWhole
<1> QED
  BY <1>0, <1>2, <1>6, <1>7, <1>8, <1>9, <1>10 DEF Release!ReleaseInv, Release!PassIsWhole

(* The validator, and a generation that is written back or torn. *)
LEMMA ReleaseValidates ==
    ASSUME Release!ReleaseInv,
           Release!CheckSums \/ Release!CheckContract \/ Release!CheckLiveTree
             \/ Release!CheckBuildReceipt \/ Release!ValidationFails
    PROVE  Release!ReleaseInv'
<1> DEFINE inputs == x1  headMoved == x2  builder == x3  generation == x4
           validator == x5  passed == x6
<1>1. UNCHANGED <<inputs, headMoved, builder, generation>>
  BY DEF Release!CheckSums, Release!CheckContract, Release!CheckLiveTree,
     Release!CheckBuildReceipt, Release!ValidationFails
<1>2. /\ validator' \in {"contract", "live tree", "receipt", "passed"} =>
           generation # Nil /\ generation.torn = {}
      /\ \/ passed' = passed
         \/ generation # Nil /\ generation.torn = {} /\
            passed' = IF generation.settled THEN "written" ELSE "cached"
  BY DEF Release!ReleaseInv, Release!CheckSums, Release!SumsMatch, Release!CheckContract,
     Release!CheckLiveTree, Release!CheckBuildReceipt, Release!ValidationFails
<1>3. ASSUME NEW c \in Releasers
      PROVE  (Release!TakesInOrder(builder[c]) /\ Release!ReadsWhatItTook(builder[c])
              /\ Release!MakesThePlan(builder[c]))'
  BY <1>1 DEF Release!ReleaseInv, Release!TakesInOrder, Release!MakesThePlan,
     Release!ReadsWhatItTook, Release!SameAsTaken
<1> QED BY <1>1, <1>2, <1>3 DEF Release!ReleaseInv, Release!PassIsWhole

LEMMA ReleaseSettles ==
    ASSUME Release!ReleaseInv, Release!Settle \/ Release!ReleasePowerLoss
    PROVE  Release!ReleaseInv'
<1> DEFINE inputs == x1  headMoved == x2  builder == x3  generation == x4
           validator == x5  passed == x6
<1>1. /\ UNCHANGED <<inputs, headMoved>> /\ {DOMAIN builder'} = {Releasers}
      /\ \A c \in Releasers : builder'[c] = builder[c]
         \/ builder'[c] = [Release!Waiting EXCEPT !.at = "failed"]
  BY DEF Release!ReleaseInv, Release!Settle, Release!ReleasePowerLoss
<1> DEFINE k == [Release!Waiting EXCEPT !.at = "failed"]
<1>2. Release!TakesInOrder(k) /\ Release!ReadsWhatItTook(k) /\ Release!MakesThePlan(k)
  BY DEF Release!TakesInOrder, Release!ReadsWhatItTook, Release!MakesThePlan, Release!Waiting,
     Release!Fields, Release!AfterClone, Release!AfterDiff, Release!AfterParts
<1> HIDE DEF k
<1>3. \A c \in Releasers : Release!TakesInOrder(builder'[c])
      /\ Release!ReadsWhatItTook(builder'[c]) /\ Release!MakesThePlan(builder'[c])
  BY <1>1, <1>2 DEF Release!ReleaseInv, k
<1>4. ASSUME NEW c \in Releasers PROVE Release!ReadsWhatItTook(builder[c])'
  BY <1>1, <1>3 DEF Release!ReadsWhatItTook, Release!SameAsTaken
<1>5. \A c \in Releasers : (Release!TakesInOrder(builder[c])
                            /\ Release!MakesThePlan(builder[c]))'
  BY <1>3 DEF Release!TakesInOrder, Release!MakesThePlan
<1>6. CASE Release!Settle
  <2>1. /\ generation \in Release!Releases /\ ~generation.settled /\ validator' = validator
        /\ generation' = [generation EXCEPT !.settled = TRUE]
        /\ passed' = IF passed = "cached" THEN "written" ELSE passed
    BY <1>6 DEF Release!Settle, Release!ReleaseInv
  <2>2. /\ generation' \in Release!Releases /\ generation'.torn = generation.torn
        /\ generation'.settled
    BY <2>1 DEF Release!Releases
  <2>3. generation # Nil /\ generation' # Nil
    BY <2>1, <2>2, NilAssumption
  <2> QED
    BY <1>1, <1>4, <1>5, <2>1, <2>2, <2>3 DEF Release!ReleaseInv, Release!PassIsWhole
<1>7. CASE Release!ReleasePowerLoss
  <2>1. validator' = "idle" /\ passed' = passed
    BY <1>7 DEF Release!ReleasePowerLoss
  <2>2. CASE generation # Nil /\ ~generation.settled
    <3>1. generation \in Release!Releases /\ passed # "written"
      BY <2>2 DEF Release!ReleaseInv
    <3>2. CASE generation' = Nil
      BY <1>1, <1>4, <1>5, <2>1, <3>1, <3>2 DEF Release!ReleaseInv, Release!PassIsWhole
    <3>3. CASE \E torn \in SUBSET (Release!Components \cup {"p1"}) :
                  generation' = [generation EXCEPT !.torn = torn, !.settled = TRUE]
      <4>1. generation' \in Release!Releases /\ generation'.settled
        BY <3>1, <3>3 DEF Release!Releases
      <4> QED
        BY <1>1, <1>4, <1>5, <2>1, <3>1, <4>1 DEF Release!ReleaseInv, Release!PassIsWhole
    <3> QED
      BY <1>7, <2>2, <3>2, <3>3 DEF Release!ReleasePowerLoss
  <2>3. CASE ~(generation # Nil /\ ~generation.settled)
    <3>1. generation' = generation
      BY <1>7, <2>3 DEF Release!ReleasePowerLoss
    <3> QED
      BY <1>1, <1>4, <1>5, <2>1, <3>1 DEF Release!ReleaseInv, Release!PassIsWhole
  <2> QED BY <2>2, <2>3
<1> QED BY <1>6, <1>7

(* Others change an input, or HEAD moves. *)
LEMMA ReleaseWorldMoves ==
    ASSUME Release!ReleaseInv, Release!EditInput \/ Release!MoveHead
    PROVE  Release!ReleaseInv'
<1> DEFINE inputs == x1  builder == x3  generation == x4  validator == x5  passed == x6
<1>0. inputs \in [Release!InputNames -> [content : {Release!Pinned, "other"}, id : Nat]]
  BY DEF Release!ReleaseInv
<1>1. UNCHANGED <<builder, generation, validator, passed>>
  BY DEF Release!EditInput, Release!MoveHead
<1>2. /\ inputs' \in [Release!InputNames -> [content : {Release!Pinned, "other"}, id : Nat]]
      /\ \A i \in Release!InputNames : inputs'[i] = inputs[i]
         \/ inputs'[i].id = inputs[i].id + 1
  <2>1. CASE Release!EditInput
    <3>1. PICK j \in Release!InputNames : inputs' = [inputs EXCEPT ![j] =
                [content |-> IF @.content = Release!Pinned THEN "other" ELSE Release!Pinned,
                 id |-> @.id + 1]]
      BY <2>1, <1>0 DEF Release!EditInput
    <3> QED BY <1>0, <3>1
  <2>2. CASE Release!MoveHead
    BY <2>2, <1>0 DEF Release!MoveHead
  <2> QED BY <2>1, <2>2
<1>3. ASSUME NEW c \in Releasers
      PROVE  Release!ReadsWhatItTook(builder[c])'
  <2> DEFINE m == builder[c]
  <2>1. Release!TakesInOrder(m) /\ Release!ReadsWhatItTook(m)
    BY DEF Release!ReleaseInv
  <2>2. \A n \in 1..5 : Release!InputOrder[n] \in Release!InputNames
    BY OrderIsInputs
  <2>3. m.taken \in 0..5 /\ m.ids \in Seq(Nat) /\ Len(m.ids) = m.taken
        /\ (m.at \in Release!AfterClone => m.taken = 5)
    BY <2>1 DEF Release!TakesInOrder
  <2>4. ASSUME NEW n \in 1..m.taken
        PROVE  /\ m.ids[n] <= inputs'[Release!InputOrder[n]].id
               /\ m.ids[n] = inputs'[Release!InputOrder[n]].id
                  => inputs'[Release!InputOrder[n]] = inputs[Release!InputOrder[n]]
    <3>1. n \in 1..5 /\ m.ids[n] \in Nat /\ Release!InputOrder[n] \in Release!InputNames
      <4> DEFINE s == m.ids
                 taken == m.taken
      <4>1. s \in Seq(Nat) /\ Len(s) = taken /\ taken \in 0..5 /\ n \in 1..taken
        BY <2>3
      <4> HIDE DEF s, taken
      <4>2. n \in 1..5 /\ s[n] \in Nat
        BY <4>1
      <4> QED BY <4>2, <2>2 DEF s
    <3>2. m.ids[n] <= inputs[Release!InputOrder[n]].id
      BY <2>1 DEF Release!ReadsWhatItTook
    <3> DEFINE i == Release!InputOrder[n]
    <3> HIDE DEF i
    <3>3. i \in Release!InputNames /\ inputs[i].id \in Nat
      BY <3>1, <1>0 DEF i
    <3>4. inputs'[i] = inputs[i] \/ inputs'[i].id = inputs[i].id + 1
      BY <3>3, <1>2
    <3>5. m.ids[n] <= inputs[i].id
      BY <3>2 DEF i
    <3>6. m.ids[n] <= inputs'[i].id /\ (m.ids[n] = inputs'[i].id => inputs'[i] = inputs[i])
      BY <3>1, <3>3, <3>4, <3>5
    <3> QED BY <3>6 DEF i
  <2>5. ASSUME NEW n \in 1..m.taken
        PROVE  m.ids[n] = inputs'[Release!InputOrder[n]].id => Release!SameAsTaken(m, n)
    BY <2>4 DEF Release!SameAsTaken
  <2>6. m.at \in Release!AfterClone => 1 \in 1..m.taken /\ 5 \in 1..m.taken
    BY <2>3
  <2>7. "recheck" \in Release!AfterClone
    BY DEF Release!AfterClone
  <2>8. \A n \in 1..m.taken :
           /\ m.ids[n] <= inputs'[Release!InputOrder[n]].id
           /\ Release!InputOrder[n] \in Release!HashedOnEntry /\ (n # m.taken \/ m.at # "hash")
                         /\ m.ids[n] = inputs'[Release!InputOrder[n]].id
                         => inputs'[Release!InputOrder[n]].content = Release!Pinned
    BY <2>1, <2>4, <2>5 DEF Release!ReadsWhatItTook
  <2>9. /\ m.at \in Release!AfterClone /\ m.ids[1] = inputs'[Release!InputOrder[1]].id
           => m.before = Release!BaseTree
        /\ m.at = "recheck" /\ m.ids[5] = inputs'[Release!InputOrder[5]].id
           => m.receipts = Release!Pinned
    BY <2>1, <2>5, <2>6, <2>7 DEF Release!ReadsWhatItTook
  <2> QED BY <1>1, <2>8, <2>9 DEF Release!ReadsWhatItTook, Release!SameAsTaken
<1>4. ASSUME NEW c \in Releasers
      PROVE  (Release!TakesInOrder(builder[c]) /\ Release!MakesThePlan(builder[c]))'
  BY <1>1 DEF Release!ReleaseInv, Release!TakesInOrder, Release!MakesThePlan
<1> QED BY <1>1, <1>2, <1>3, <1>4 DEF Release!ReleaseInv, Release!PassIsWhole

LEMMA ReleaseStepHolds ==
    ASSUME Release!ReleaseInv, [Release!ReleaseNext]_(Release!releaseVars)
    PROVE  Release!ReleaseInv'
<1> DEFINE inputs == x1  builder == x3  generation == x4  validator == x5  passed == x6
<1>1. CASE UNCHANGED Release!releaseVars
  <2>1. UNCHANGED <<inputs, builder, generation, validator, passed>>
    BY <1>1 DEF Release!releaseVars
  <2>2. ASSUME NEW c \in Releasers
        PROVE  (Release!TakesInOrder(builder[c]) /\ Release!ReadsWhatItTook(builder[c])
                /\ Release!MakesThePlan(builder[c]))'
    BY <2>1 DEF Release!ReleaseInv, Release!TakesInOrder, Release!MakesThePlan,
       Release!ReadsWhatItTook, Release!SameAsTaken
  <2> QED BY <2>1, <2>2 DEF Release!ReleaseInv, Release!PassIsWhole
<1> QED
  BY <1>1, ReleaseCaptureSource, ReleaseIdentifyInput, ReleaseHashInput, ReleaseCheckReceipts,
     ReleaseCloneBase,
     ReleaseMutateP1, ReleaseDiffP1, ReleaseCloneParts, ReleaseHashParts, ReleaseCopyReceipts,
     ReleaseRecheckInputs, ReleasePublishes, ReleaseFails, ReleaseValidates, ReleaseSettles,
     ReleaseWorldMoves DEF Release!ReleaseNext

LEMMA ReleasePassed ==
    ASSUME Release!ReleaseInv PROVE Release!ReleaseIsPinned /\ Release!PassIsWhole
BY DEF Release!ReleaseInv, Release!PassIsWhole, Release!ReleaseIsPinned, Release!Releases

ReleasePart == part = "release" => Release!ReleaseInv

(* However often inputs change and change back, HEAD moves and mtools errs, a       *)
(* release is published as the pinned one with exactly the planned p1; and what     *)
(* passed the validator is whole until a power loss, and after it when the system   *)
(* had written it back (build-r46h-first-version-release.py).                       *)
THEOREM ReleasesArePinned == Spec => []ReleaseIsPinned
<1>1. Init => ReleasePart
  BY ReleaseBegins
  DEF Init, ReleasePart
<1>2. ReleasePart /\ [Next]_mcVars
      => ReleasePart'
  BY OwnSteps, ReleaseStepHolds
  DEF ReleasePart
<1>3. ReleasePart => ReleaseIsPinned
  BY ReleasePassed
  DEF ReleasePart, ReleaseIsPinned
<1> QED
  BY <1>1, <1>2, <1>3, PTL DEF Spec

-----------------------------------------------------------------------------
(* The candidates of p1.  What passes the exact difference has the fallback, and    *)
(* the write replaces p1 only by the candidate of what is on the card.              *)
LEMMA P1Begins ==
    ASSUME P1!CandidateInit PROVE P1!CandidateInv
<1> DEFINE maker == x5  candidate == x6  plan == x7
<1>1. /\ {DOMAIN maker, DOMAIN candidate, DOMAIN plan} = {P1!Versions}
      /\ \A v \in P1!Versions : maker[v] = P1!Fresh /\ candidate[v] = Nil /\ plan[v] = Nil
  BY DEF P1!CandidateInit
<1>2. P1!FallbackStays
  BY DEF P1!CandidateInit, P1!FallbackStays, P1!Fallback, P1!FactoryTree
<1>3. P1!MakerIsTrue(P1!Fresh)
  BY DEF P1!MakerIsTrue, P1!Fresh
<1>4. P1!WriteIsTrue
  BY DEF P1!CandidateInit, P1!WriteIsTrue, P1!NoWrite
<1> QED
  BY <1>1, <1>2, <1>3, <1>4 DEF P1!CandidateInv, P1!CandidateIsTrue, P1!PlanIsTrue

(* A builder replaced by one of which the same is true. *)
LEMMA P1MakerReplaced ==
    ASSUME P1!CandidateInv, NEW v \in P1!Versions, NEW m, P1!MakerIsTrue(m),
           x5' = [x5 EXCEPT ![v] = m],
           UNCHANGED <<x1, x6, x7, x8>>
    PROVE  P1!CandidateInv'
<1> DEFINE maker == x5
<1>1. DOMAIN maker' = P1!Versions
      /\ \A w \in P1!Versions : maker'[w] = IF w = v THEN m ELSE maker[w]
  BY DEF P1!CandidateInv
<1>2. \A w \in P1!Versions : P1!MakerIsTrue(maker'[w])
  BY <1>1 DEF P1!CandidateInv
<1> QED
  BY <1>1, <1>2 DEF P1!CandidateInv, P1!FallbackStays, P1!WriteIsTrue

(* What passes the exact difference has the fallback and keeps the rest. *)
LEMMA P1DiffKeeps ==
    ASSUME NEW v \in P1!Versions, NEW before, NEW after, NEW payload,
           P1!ExactDiff(v, before, after, payload), P1!V08Anchors \subseteq DOMAIN before
    PROVE  P1!Fallback(after) /\ P1!Keeps(before, after)
<1>1. \A p \in P1!V08Anchors : after[p] = p
  BY DEF P1!ExactDiff
<1>2. DOMAIN before \ DOMAIN after = P1!RemovedFiles(v)
      /\ DOMAIN after \ DOMAIN before = P1!AddedFiles(v)
  BY DEF P1!ExactDiff
<1>3. \A p \in DOMAIN before \cap DOMAIN after : before[p] = after[p]
  BY DEF P1!ExactDiff
<1>4. P1!RemovedFiles(v) \subseteq P1!RemovedV09 \cup P1!RemovedV10
  BY DEF P1!RemovedFiles
<1>5. P1!Keeps(before, after)
  BY <1>2, <1>3, <1>4 DEF P1!Keeps
<1>6. P1!V08Anchors \cap (P1!RemovedV09 \cup P1!RemovedV10) = {}
  BY DEF P1!V08Anchors, P1!RemovedV09, P1!V02Files, P1!RemovedV10, P1!AddedV09
<1> QED BY <1>1, <1>5, <1>6 DEF P1!Fallback, P1!Keeps

LEMMA P1MakerHolds ==
    ASSUME P1!CandidateInv, NEW v \in P1!Versions,
           \/ P1!PinClone(v) \/ P1!ReadSums(v) \/ P1!ReadPayload(v) \/ P1!RecheckBundle(v)
           \/ P1!CopyClone(v)
           \/ P1!Mutate(v) \/ P1!Diff(v) \/ P1!LateCheck(v) \/ P1!MakerFails(v)
    PROVE  P1!CandidateInv'
<1> DEFINE card == x1  clone == x3  bundle == x4  maker == x5  candidate == x6
           plan == x7  write == x8
<1> USE DEF P1!MakerAt, P1!Making
<1> DEFINE m == maker[v]
<1>0. P1!MakerIsTrue(m)
      /\ DOMAIN m = {"at", "id", "base", "sums", "bundleId", "payload", "tree"}
  BY DEF P1!CandidateInv, P1!MakerIsTrue
<1>1. UNCHANGED <<card, candidate, plan, write>>
  BY DEF P1!PinClone, P1!ReadSums, P1!ReadPayload, P1!RecheckBundle, P1!CopyClone, P1!Mutate,
     P1!Diff, P1!LateCheck, P1!MakerFails
<1>2. \E n : maker' = [maker EXCEPT ![v] = n] /\ P1!MakerIsTrue(n)
  <2>1. CASE P1!PinClone(v)
    <3> DEFINE n == [m EXCEPT !.at = "sums", !.base = clone[v].tree, !.id = clone[v].id]
    <3>1. maker' = [maker EXCEPT ![v] = n]
      BY <2>1, <1>0 DEF P1!PinClone, P1!CandidateInv
    <3>2. P1!MakerIsTrue(n)
      BY <1>0 DEF P1!MakerIsTrue
    <3> QED BY <3>1, <3>2
  <2>2. CASE P1!ReadSums(v)
    <3> DEFINE n == [m EXCEPT !.at = "payload", !.sums = bundle[v].content,
                     !.bundleId = bundle[v].id]
    <3>1. maker' = [maker EXCEPT ![v] = n]
      BY <2>2, <1>0 DEF P1!ReadSums, P1!CandidateInv
    <3>2. P1!MakerIsTrue(n)
      BY <1>0 DEF P1!MakerIsTrue
    <3> QED BY <3>1, <3>2
  <2>3. CASE P1!ReadPayload(v)
    <3> DEFINE n == [m EXCEPT !.at = "recheck bundle", !.payload = bundle[v].content]
    <3>1. maker' = [maker EXCEPT ![v] = n]
      BY <2>3, <1>0 DEF P1!ReadPayload, P1!CandidateInv
    <3>2. P1!MakerIsTrue(n)
      BY <1>0 DEF P1!MakerIsTrue
    <3> QED BY <3>1, <3>2
  <2>4. CASE P1!RecheckBundle(v)
    <3> DEFINE n == [m EXCEPT !.at = "copy"]
    <3>1. maker' = [maker EXCEPT ![v] = n]
      BY <2>4 DEF P1!RecheckBundle
    <3>2. P1!MakerIsTrue(n)
      BY <1>0 DEF P1!MakerIsTrue
    <3> QED BY <3>1, <3>2
  <2>5. CASE P1!CopyClone(v)
    <3> DEFINE n == [m EXCEPT !.at = "mutate"]
    <3>1. maker' = [maker EXCEPT ![v] = n] /\ P1!Fallback(m.base)
      BY <2>5 DEF P1!CopyClone, P1!BaseFits, P1!Fallback
    <3>2. P1!MakerIsTrue(n)
      BY <1>0, <3>1 DEF P1!MakerIsTrue
    <3> QED BY <3>1, <3>2
  <2>6. CASE P1!Mutate(v)
    <3>1. PICK t : maker' = [maker EXCEPT ![v].at = "diff", ![v].tree = t]
      BY <2>6 DEF P1!Mutate
    <3> DEFINE n == [m EXCEPT !.at = "diff", !.tree = t]
    <3>2. maker' = [maker EXCEPT ![v] = n]
      BY <3>1, <1>0 DEF P1!CandidateInv
    <3>3. P1!Fallback(m.base)
      BY <2>6, <1>0 DEF P1!Mutate, P1!MakerIsTrue
    <3>4. P1!MakerIsTrue(n)
      BY <1>0, <3>3 DEF P1!MakerIsTrue
    <3> QED BY <3>2, <3>4
  <2>7. CASE P1!Diff(v)
    <3> DEFINE n == [m EXCEPT !.at = "late"]
    <3>1. maker' = [maker EXCEPT ![v] = n] /\ P1!ExactDiff(v, m.base, m.tree, m.payload)
          /\ m.at = "diff"
      BY <2>7 DEF P1!Diff
    <3>2. P1!V08Anchors \subseteq DOMAIN m.base
      BY <3>1, <1>0 DEF P1!MakerIsTrue, P1!Fallback
    <3>3. P1!Fallback(m.tree) /\ P1!Keeps(m.base, m.tree)
      BY <3>1, <3>2, P1DiffKeeps
    <3>4. P1!MakerIsTrue(n)
      BY <1>0, <3>1, <3>3 DEF P1!MakerIsTrue
    <3> QED BY <3>1, <3>4
  <2>8. CASE P1!LateCheck(v)
    <3> DEFINE n == [m EXCEPT !.at = "publish"]
    <3>1. maker' = [maker EXCEPT ![v] = n] /\ m.at = "late"
      BY <2>8 DEF P1!LateCheck
    <3>2. P1!MakerIsTrue(n)
      BY <1>0, <3>1 DEF P1!MakerIsTrue
    <3> QED BY <3>1, <3>2
  <2>9. CASE P1!MakerFails(v)
    <3> DEFINE n == [P1!Fresh EXCEPT !.at = "failed"]
    <3>1. maker' = [maker EXCEPT ![v] = n]
      BY <2>9 DEF P1!MakerFails
    <3>2. P1!MakerIsTrue(n)
      BY DEF P1!MakerIsTrue, P1!Fresh
    <3> QED BY <3>1, <3>2
  <2> QED BY <2>1, <2>2, <2>3, <2>4, <2>5, <2>6, <2>7, <2>8, <2>9
<1> QED
  BY <1>1, <1>2, P1MakerReplaced

(* The published candidate, the plan made of it, and the write of p1. *)
LEMMA P1PublishHolds ==
    ASSUME P1!CandidateInv, NEW v \in P1!Versions, P1!Publish(v)
    PROVE  P1!CandidateInv'
<1> DEFINE card == x1  maker == x5  candidate == x6  plan == x7  write == x8
<1> DEFINE m == maker[v]
           n == [m EXCEPT !.at = "done"]
           c == [image |-> m.tree, status |-> m.tree, base |-> m.base, dry |-> FALSE]
<1>1. /\ UNCHANGED <<card, plan, write>> /\ maker' = [maker EXCEPT ![v] = n]
      /\ candidate' = [candidate EXCEPT ![v] = c] /\ m.at = "publish"
  BY DEF P1!Publish, P1!MakerAt
<1>2. P1!MakerIsTrue(m)
  BY DEF P1!CandidateInv
<1>3. P1!MakerIsTrue(n)
  BY <1>2 DEF P1!MakerIsTrue
<1>4. P1!CandidateIsTrue(c)
  BY <1>1, <1>2 DEF P1!MakerIsTrue, P1!CandidateIsTrue
<1> HIDE DEF n, c
<1>5. /\ DOMAIN maker' = P1!Versions /\ DOMAIN candidate' = P1!Versions
      /\ \A w \in P1!Versions : maker'[w] = IF w = v THEN n ELSE maker[w]
      /\ \A w \in P1!Versions : candidate'[w] = IF w = v THEN c ELSE candidate[w]
  BY <1>1 DEF P1!CandidateInv
<1>6. \A w \in P1!Versions : P1!MakerIsTrue(maker'[w]) /\ P1!CandidateIsTrue(candidate'[w])
  BY <1>3, <1>4, <1>5 DEF P1!CandidateInv
<1> QED
  BY <1>1, <1>5, <1>6 DEF P1!CandidateInv, P1!FallbackStays, P1!WriteIsTrue

LEMMA P1PlanHolds ==
    ASSUME P1!CandidateInv, NEW v \in P1!Versions, x6[v] # Nil, P1!CreatePlan(v)
    PROVE  P1!CandidateInv'
<1> DEFINE card == x1  maker == x5  candidate == x6  plan == x7  write == x8
<1> DEFINE q == [image |-> candidate[v].status, before |-> candidate[v].base]
<1>1. /\ UNCHANGED <<card, maker, candidate, write>> /\ plan[v] = Nil
      /\ plan' = [plan EXCEPT ![v] = q]
  BY DEF P1!CreatePlan
<1>2. P1!PlanIsTrue(q)
  BY DEF P1!CandidateInv, P1!CandidateIsTrue, P1!PlanIsTrue
<1>a. P1!WriteIsTrue /\ P1!FallbackStays
  BY DEF P1!CandidateInv
<1>b. write # P1!NoWrite => plan'[write.of] = plan[write.of]
  BY <1>1, <1>a DEF P1!WriteIsTrue, P1!CandidateInv
<1> HIDE DEF q
<1>3. DOMAIN plan' = P1!Versions
      /\ \A w \in P1!Versions : plan'[w] = IF w = v THEN q ELSE plan[w]
  BY <1>1 DEF P1!CandidateInv
<1>4. \A w \in P1!Versions : P1!PlanIsTrue(plan'[w])
  BY <1>2, <1>3 DEF P1!CandidateInv
<1>5. P1!WriteIsTrue' /\ P1!FallbackStays'
  BY <1>1, <1>a, <1>b DEF P1!WriteIsTrue, P1!FallbackStays
<1> QED
  BY <1>1, <1>3, <1>4, <1>5 DEF P1!CandidateInv

LEMMA P1WriteBackHolds ==
    ASSUME P1!CandidateInv, NEW v \in P1!Versions, P1!WriteBack(v)
    PROVE  P1!CandidateInv'
<1> DEFINE card == x1  maker == x5  candidate == x6  plan == x7  write == x8
<1> DEFINE c == candidate[v]
<1>1. PICK i : /\ candidate' = [candidate EXCEPT ![v].dry = TRUE, ![v].image = i]
               /\ c # Nil /\ UNCHANGED <<card, maker, plan, write>>
  BY DEF P1!WriteBack
<1> DEFINE n == [c EXCEPT !.dry = TRUE, !.image = i]
<1>2. DOMAIN c = {"image", "status", "base", "dry"} /\ P1!Fallback(c.status)
      /\ P1!Fallback(c.base) /\ P1!Keeps(c.base, c.status)
  BY <1>1 DEF P1!CandidateInv, P1!CandidateIsTrue
<1>3. candidate' = [candidate EXCEPT ![v] = n]
  BY <1>1, <1>2 DEF P1!CandidateInv
<1>4. P1!CandidateIsTrue(n)
  BY <1>2 DEF P1!CandidateIsTrue
<1> HIDE DEF n
<1>5. DOMAIN candidate' = P1!Versions
      /\ \A w \in P1!Versions : candidate'[w] = IF w = v THEN n ELSE candidate[w]
  BY <1>3 DEF P1!CandidateInv
<1>6. \A w \in P1!Versions : P1!CandidateIsTrue(candidate'[w])
  BY <1>4, <1>5 DEF P1!CandidateInv
<1> QED
  BY <1>1, <1>5, <1>6 DEF P1!CandidateInv, P1!FallbackStays, P1!WriteIsTrue

(* The write begins on the base of its plan, and while it is on only the last piece *)
(* or a cut ends it.                                                                *)
LEMMA P1BeginHolds ==
    ASSUME P1!CandidateInv, NEW v \in P1!Versions, P1!BeginWrite(v)
    PROVE  P1!CandidateInv' /\ P1!NothingLost
<1> DEFINE card == x1  maker == x5  candidate == x6  plan == x7  write == x8
<1>1. /\ UNCHANGED <<maker, candidate, plan>> /\ plan[v] # Nil /\ card = plan[v].before
      /\ card' = P1!Torn /\ write' = [of |-> v, cut |-> FALSE, saved |-> card]
  BY DEF P1!BeginWrite
<1>2. P1!Fallback(card) /\ P1!Fallback(plan[v].image)
  BY <1>1 DEF P1!CandidateInv, P1!PlanIsTrue
<1>3. v # "none" /\ write' # P1!NoWrite
  BY <1>1 DEF P1!NoWrite, P1!Versions
<1>4. P1!WriteIsTrue'
  BY <1>1, <1>3 DEF P1!WriteIsTrue
<1>5. P1!FallbackStays'
  BY <1>1, <1>2, <1>3 DEF P1!FallbackStays
<1>6. P1!NothingLost
  BY <1>3 DEF P1!NothingLost
<1> QED BY <1>1, <1>4, <1>5, <1>6 DEF P1!CandidateInv

LEMMA P1FinishHolds ==
    ASSUME P1!CandidateInv, NEW v \in P1!Versions, P1!FinishWrite(v)
    PROVE  P1!CandidateInv' /\ P1!NothingLost
<1> DEFINE card == x1  maker == x5  candidate == x6  plan == x7  write == x8
<1>1. /\ UNCHANGED <<maker, candidate, plan>> /\ write.of = v
      /\ card' = plan[v].image /\ write' = P1!NoWrite
  BY DEF P1!FinishWrite
<1>2. write # P1!NoWrite
  BY <1>1 DEF P1!NoWrite, P1!Versions
<1>3. plan[v] # Nil /\ write.saved = plan[v].before
  BY <1>1, <1>2 DEF P1!CandidateInv, P1!WriteIsTrue
<1>4. P1!Fallback(plan[v].image) /\ P1!Keeps(plan[v].before, plan[v].image)
  BY <1>3 DEF P1!CandidateInv, P1!PlanIsTrue
<1>5. P1!FallbackStays'
  BY <1>1, <1>4 DEF P1!FallbackStays, P1!Fallback
<1>6. P1!NothingLost
  BY <1>1, <1>3, <1>4 DEF P1!NothingLost, P1!Keeps
<1>7. P1!WriteIsTrue'
  BY <1>1 DEF P1!WriteIsTrue, P1!NoWrite
<1> QED BY <1>1, <1>5, <1>6, <1>7 DEF P1!CandidateInv

LEMMA P1CutHolds ==
    ASSUME P1!CandidateInv, P1!CutWrite
    PROVE  P1!CandidateInv' /\ P1!NothingLost
<1> DEFINE card == x1  maker == x5  candidate == x6  plan == x7  write == x8
<1>1. /\ UNCHANGED <<card, maker, candidate, plan>> /\ write # P1!NoWrite
      /\ write' = [write EXCEPT !.cut = TRUE] /\ P1!WriteIsTrue /\ P1!FallbackStays
  BY DEF P1!CutWrite, P1!CandidateInv
<1>2. write.of # "none" /\ write'.of = write.of /\ write'.saved = write.saved
  BY <1>1 DEF P1!WriteIsTrue
<1>3. write' # P1!NoWrite
  BY <1>2 DEF P1!NoWrite
<1>4. P1!WriteIsTrue' /\ P1!FallbackStays' /\ P1!NothingLost
  BY <1>1, <1>2, <1>3 DEF P1!WriteIsTrue, P1!FallbackStays, P1!NothingLost
<1> QED BY <1>1, <1>4 DEF P1!CandidateInv

LEMMA P1CardEditHolds ==
    ASSUME P1!CandidateInv, P1!CardEdit
    PROVE  P1!CandidateInv' /\ P1!NothingLost
<1> DEFINE card == x1  maker == x5  candidate == x6  plan == x7  write == x8
<1>1. /\ UNCHANGED <<maker, candidate, plan, write>> /\ card["settings"] = "settings"
      /\ card' = [card EXCEPT !["settings"] = "edited"]
  BY DEF P1!CardEdit
<1>2. card # P1!Torn
  BY <1>1 DEF P1!Torn
<1>3. write = P1!NoWrite /\ P1!Fallback(card)
  BY <1>2 DEF P1!CandidateInv, P1!FallbackStays
<1>4. /\ DOMAIN card' = DOMAIN card
      /\ \A p \in DOMAIN card : card'[p] = IF p = "settings" THEN "edited" ELSE card[p]
  BY <1>1
<1>5. "settings" \notin P1!V08Anchors
  BY DEF P1!V08Anchors
<1>6. P1!Fallback(card')
  BY <1>3, <1>4, <1>5 DEF P1!Fallback
<1>7. P1!FallbackStays' /\ P1!NothingLost /\ P1!WriteIsTrue'
  BY <1>1, <1>3, <1>6
  DEF P1!FallbackStays, P1!Fallback, P1!NothingLost, P1!CandidateInv, P1!WriteIsTrue
<1> QED BY <1>1, <1>7 DEF P1!CandidateInv

LEMMA P1StepHolds ==
    ASSUME P1!CandidateInv, [P1!CandidateNext]_(P1!candidateVars)
    PROVE  P1!CandidateInv' /\ P1!NothingLost
<1> DEFINE card == x1  maker == x5  candidate == x6  plan == x7  write == x8
<1>1. CASE UNCHANGED <<card, maker, candidate, plan, write>>
  BY <1>1 DEF P1!CandidateInv, P1!FallbackStays, P1!WriteIsTrue, P1!NothingLost
<1>2. ASSUME NEW v \in P1!Versions,
             \/ P1!PinClone(v) \/ P1!ReadSums(v) \/ P1!ReadPayload(v) \/ P1!RecheckBundle(v)
             \/ P1!CopyClone(v)
             \/ P1!Mutate(v) \/ P1!Diff(v) \/ P1!LateCheck(v) \/ P1!MakerFails(v)
      PROVE  P1!CandidateInv' /\ P1!NothingLost
  <2>1. write' = write
    BY <1>2 DEF P1!Making, P1!PinClone, P1!ReadSums, P1!ReadPayload, P1!RecheckBundle,
       P1!CopyClone, P1!Mutate, P1!Diff, P1!LateCheck,
       P1!MakerFails
  <2>2. P1!NothingLost
    BY <2>1 DEF P1!NothingLost
  <2> QED BY <1>2, <2>2, P1MakerHolds
<1>3. ASSUME NEW v \in P1!Versions, P1!Publish(v) \/ P1!WriteBack(v)
      PROVE  P1!CandidateInv' /\ P1!NothingLost
  <2>1. write' = write
    BY <1>3 DEF P1!Publish, P1!WriteBack
  <2>2. P1!NothingLost
    BY <2>1 DEF P1!NothingLost
  <2> QED BY <1>3, <2>2, P1PublishHolds, P1WriteBackHolds
<1>4. CASE P1!V09Plan \/ P1!V10Plan
  <2>1. write' = write
    BY <1>4 DEF P1!V09Plan, P1!V10Plan, P1!CreatePlan
  <2>2. P1!NothingLost
    BY <2>1 DEF P1!NothingLost
  <2>3. "v0.9" \in P1!Versions /\ "v0.10" \in P1!Versions
    BY DEF P1!Versions
  <2>4. P1!CandidateInv'
    BY <1>4, <2>3, P1PlanHolds DEF P1!V09Plan, P1!V10Plan, P1!LoadV09, P1!LoadV10
  <2> QED BY <2>2, <2>4
<1>5. ASSUME NEW v \in P1!Versions, P1!TakeClone(v) \/ P1!BundleReplaced(v)
      PROVE  P1!CandidateInv' /\ P1!NothingLost
  BY <1>5, <1>1 DEF P1!TakeClone, P1!BundleReplaced
<1>6. "v0.9" \in P1!Versions /\ "v0.10" \in P1!Versions
  BY DEF P1!Versions
<1>7. CASE P1!V09Next
  BY <1>7, <1>2, <1>3, <1>6 DEF P1!V09Next, P1!V09Sources, P1!V09Bundle, P1!V09BundleAgain,
     P1!V09Mutate, P1!V09Diff,
     P1!V09Late, P1!V09Publish
<1>8. CASE P1!V10Next
  BY <1>8, <1>2, <1>3, <1>6 DEF P1!V10Next
<1> QED
  BY <1>1, <1>3, <1>4, <1>5, <1>7, <1>8, P1BeginHolds, P1FinishHolds,
     P1CutHolds, P1CardEditHolds DEF P1!CandidateNext,
     P1!candidateVars

P1Part == part = "p1" => P1!CandidateInv

(* The v0.8 fallback is on the card before, between and after the writes of both    *)
(* candidates, whatever bundle is in place, whatever a tool leaves and however      *)
(* often the clone is taken again.  From the first piece of a write to the last, and *)
(* for ever when it is cut, p1 is torn: then the fallback is in the tree that was    *)
(* there and in the image of the plan, and p1 is written only where it was the base  *)
(* (build-v09-p1-candidate.py, build-v10-p1-candidate.py, CardDevice.swift).         *)
THEOREM FallbackIsKept == Spec => []FallbackStays
<1>1. Init => P1Part
  BY P1Begins
  DEF Init, P1Part
<1>2. P1Part /\ [Next]_mcVars
      => P1Part'
  BY OwnSteps, P1StepHolds
  DEF P1Part
<1>3. P1Part => FallbackStays
  BY DEF P1Part, FallbackStays,
         P1!CandidateInv
<1> QED
  BY <1>1, <1>2, <1>3, PTL DEF Spec

-----------------------------------------------------------------------------
(* The promotion builders: CURRENT is replaced by the name of a generation that was *)
(* renamed into place.                                                              *)
LEMMA PromotionBegins ==
    ASSUME Promotion!BuildInit PROVE Promotion!PromotionInv
BY DEF Promotion!BuildInit, Promotion!PromotionInv, Promotion!CurrentIsPublished

LEMMA PromotionStepHolds ==
    ASSUME Promotion!PromotionInv, [Promotion!BuildNext]_(Promotion!buildVars)
    PROVE  Promotion!PromotionInv'
<1> DEFINE v == x1  pc == x5  commit == x6  blobs == x7  builds == x8  current == x11
           passed == x13  lost == x16  pointer == x17
<1> USE DEF Promotion!PromotionInv, Promotion!CurrentIsPublished, Promotion!NoGeneration
<1>1. CASE UNCHANGED Promotion!buildVars
  BY <1>1 DEF Promotion!buildVars, Promotion!Generation
<1>2. CASE Promotion!Commit \/ Promotion!Edit
  BY <1>2 DEF Promotion!Commit, Promotion!Edit, Promotion!Captured, Promotion!Release,
     Promotion!Checked, Promotion!Generation
<1>3. ASSUME NEW S, NEW verdict, Promotion!Exit(S, verdict), v' = v,
             UNCHANGED Promotion!Release
      PROVE  Promotion!PromotionInv'
  <2>1. /\ {DOMAIN pc', DOMAIN commit', DOMAIN blobs', DOMAIN passed'} = {Builders}
        /\ \A c \in Builders : pc'[c] = "point" =>
              pc[c] = "point" /\ commit'[c] = commit[c] /\ blobs'[c] = blobs[c]
    BY <1>3 DEF Promotion!Exit
  <2> QED BY <1>3, <2>1 DEF Promotion!Release, Promotion!Generation
<1>4. CASE Promotion!Kill
  BY <1>3, <1>4 DEF Promotion!Kill, Promotion!Repo
<1>5. CASE Promotion!WriteBack
  BY <1>5 DEF Promotion!WriteBack, Promotion!Captured, Promotion!Checked, Promotion!Repo,
     Promotion!Generation
<1>6. CASE Promotion!PowerLoss
  <2>1. /\ {DOMAIN pc', DOMAIN commit', DOMAIN blobs', DOMAIN passed'} = {Builders}
        /\ \A c \in Builders : pc'[c] = "end"
    BY <1>6 DEF Promotion!PowerLoss, Promotion!Exit
  <2>2. pointer' = pointer /\ current' = pointer /\ builds \cup lost \subseteq builds' \cup lost'
    BY <1>6 DEF Promotion!PowerLoss
  <2> QED BY <2>1, <2>2
<1>7. ASSUME NEW b \in Builders, Promotion!BuilderStep(b)
      PROVE  Promotion!PromotionInv'
  <2> USE DEF Promotion!Move
  <2>1. CASE Promotion!Refuse(b) \/ Promotion!Validate(b) \/ Promotion!ValidateRefuses(b)
    BY <1>3, <2>1 DEF Promotion!Refuse, Promotion!Validate, Promotion!ValidateRefuses,
       Promotion!Repo
  <2>2. CASE Promotion!RequireClean(b) \/ Promotion!VerifyInputs(b)
             \/ Promotion!BeginValidate(b) \/ Promotion!ReadCurrent(b)
    <3>1. /\ UNCHANGED <<v, commit, blobs, builds, lost, current, pointer, passed>>
          /\ \E at \in {"rev", "publish", "validate", "inspect"} : pc' = [pc EXCEPT ![b] = at]
      BY <2>2
      DEF Promotion!RequireClean, Promotion!VerifyInputs, Promotion!BeginValidate,
          Promotion!ReadCurrent, Promotion!Repo, Promotion!Release, Promotion!Captured,
          Promotion!Checked
    <3> QED BY <3>1 DEF Promotion!Generation
  <2>3. CASE Promotion!ReadCommit(b)
    BY <2>3 DEF Promotion!ReadCommit, Promotion!Repo, Promotion!Release, Promotion!Checked,
       Promotion!Generation
  <2>4. CASE Promotion!CaptureFile(b)
    BY <2>4 DEF Promotion!CaptureFile, Promotion!Repo, Promotion!Release, Promotion!Checked,
       Promotion!Generation
  <2>5. CASE Promotion!RenameStage(b)
    <3>1. /\ UNCHANGED <<v, commit, blobs, current, pointer, passed>>
          /\ builds' = builds \cup {Promotion!Generation(b)}
          /\ lost' = lost \ {Promotion!Generation(b)} /\ pc' = [pc EXCEPT ![b] = "point"]
      BY <2>5 DEF Promotion!RenameStage, Promotion!Repo, Promotion!Captured, Promotion!Checked
    <3>2. \A c \in Builders : Promotion!Generation(c)' = Promotion!Generation(c)
      BY <3>1 DEF Promotion!Generation
    <3>3. builds \cup lost \subseteq builds' \cup lost'
      BY <3>1
    <3>4. \A c \in Builders : pc'[c] = "point" => Promotion!Generation(c) \in builds'
      BY <3>1
    <3> HIDE DEF Promotion!Move
    <3> QED BY <3>1, <3>2, <3>3, <3>4
  <2>6. CASE Promotion!ReplaceCurrent(b)
    <3>1. /\ UNCHANGED <<v, commit, blobs, builds, lost, pointer, passed>>
          /\ current' = Promotion!Generation(b)
          /\ pc' = [pc EXCEPT ![b] = "validate"] /\ pc[b] = "point"
      BY <2>6 DEF Promotion!ReplaceCurrent, Promotion!Repo, Promotion!Captured,
         Promotion!Checked
    <3>2. \A c \in Builders : Promotion!Generation(c)' = Promotion!Generation(c)
      BY <3>1 DEF Promotion!Generation
    <3> QED BY <3>1, <3>2
  <2>7. CASE Promotion!Again(b)
    BY <2>7 DEF Promotion!Again, Promotion!Repo, Promotion!Release, Promotion!Captured,
       Promotion!Generation
  <2> QED
    BY <1>7, <2>1, <2>2, <2>3, <2>4, <2>5, <2>6, <2>7 DEF Promotion!BuilderStep
<1> QED
  BY <1>1, <1>2, <1>4, <1>5, <1>6, <1>7 DEF Promotion!BuildNext

LEMMA PromotionPassHolds ==
    ASSUME Promotion!PromotionInv, [Promotion!BuildNext]_(Promotion!buildVars)
    PROVE  Promotion!PassIsTrue
<1> DEFINE v == x1  builds == x8  torn == x9  looked == x12  passed == x13
<1> SUFFICES ASSUME NEW c \in Builders, ~passed[c], passed'[c]
             PROVE  /\ looked[c] \in builds \ torn
                    /\ v # "v15" => Promotion!PayloadOfCommit(looked[c])
  BY DEF Promotion!PassIsTrue
<1>1. \A S : ~Promotion!Exit(S, FALSE)
  BY DEF Promotion!Exit
<1>2. passed' # passed
  OBVIOUS
<1>3. PICK b \in Builders : Promotion!Validate(b) \/ Promotion!Again(b)
  BY <1>1, <1>2
  DEF Promotion!BuildNext, Promotion!BuilderStep, Promotion!buildVars, Promotion!Commit,
      Promotion!Edit, Promotion!Kill, Promotion!WriteBack, Promotion!PowerLoss,
      Promotion!RequireClean, Promotion!ReadCommit, Promotion!CaptureFile,
      Promotion!VerifyInputs, Promotion!Refuse, Promotion!RenameStage,
      Promotion!ReplaceCurrent, Promotion!BeginValidate, Promotion!ReadCurrent,
      Promotion!ValidateRefuses, Promotion!Checked
<1>4. ~Promotion!Again(b)
  BY DEF Promotion!Again, Promotion!PromotionInv
<1>5. b = c /\ Promotion!Accepts(looked[b])
  BY <1>3, <1>4 DEF Promotion!Validate, Promotion!Exit
<1> QED
  BY <1>5 DEF Promotion!Accepts, Promotion!V15Accepts, Promotion!WholeGeneration

-----------------------------------------------------------------------------
(* The one-shot builders: the payload is made of the source that was captured, and  *)
(* captured is what the commit of the manifest has.                                 *)
LEMMA OneShotsKnown == OneShotVersions \subseteq {"v11", "v13", "v14", "v16", "v17"}
BY DEF OneShotVersions

LEMMA PathsLength == Len(OneShot!Paths) = 2
BY DEF OneShot!Paths

LEMMA OneShotBegins ==
    ASSUME OneShot!OneShotInit PROVE OneShot!OneShotInv
BY OneShotsKnown DEF OneShot!OneShotInit, OneShot!OneShotInv, OneShot!OneShotTypes,
   OneShot!WorkOf, OneShot!PublishedIsOfCommit

(* A step of one builder leaves the work of the others alone. *)
LEMMA OneShotKeeps ==
    ASSUME OneShot!OneShotInv, NEW b \in Builders, OneShot!OneShotTypes', x1' = x1,
           \A c \in Builders \ {b} : /\ x5'[c] = x5[c] /\ x7'[c] = x7[c]
                                     /\ x8'[c] = x8[c] /\ x9'[c] = x9[c],
           OneShot!WorkOf(b)', x10' = x10
    PROVE  OneShot!OneShotInv'
<1>1. \A c \in Builders \ {b} : OneShot!WorkOf(c)'
  BY DEF OneShot!OneShotInv, OneShot!WorkOf
<1>2. OneShot!PublishedIsOfCommit'
  BY DEF OneShot!OneShotInv, OneShot!PublishedIsOfCommit
<1> QED
  BY <1>1, <1>2 DEF OneShot!OneShotInv

LEMMA OneShotBuilderHolds ==
    ASSUME OneShot!OneShotInv, NEW b \in Builders, OneShot!BuilderStep(b)
    PROVE  OneShot!OneShotInv'
<1> DEFINE v == x1  pc == x5  commit == x6  entries == x7  source == x8  made == x9
           releases == x10  looked == x14  passed == x15
<1>0. OneShot!OneShotTypes /\ OneShot!WorkOf(b) /\ Len(OneShot!Paths) = 2
  BY PathsLength DEF OneShot!OneShotInv
<1> USE DEF OneShot!Goes, OneShot!World, OneShot!Taken, OneShot!Store, OneShot!Seen
<1>1. CASE OneShot!RequireClean(b) \/ OneShot!Refuse(b) \/ OneShot!LookUp(b)
           \/ OneShot!Validate(b) \/ OneShot!ValidateRefuses(b)
           \/ OneShot!BeginValidate(b) \/ OneShot!ReplaceCurrent(b)
  <2>1. /\ UNCHANGED <<v, entries, source, made, releases>>
        /\ {DOMAIN commit', DOMAIN looked', DOMAIN passed'} = {Builders}
        /\ \E at \in {"rev", "end", "validate", "inspect"} : pc' = [pc EXCEPT ![b] = at]
    BY <1>0, <1>1 DEF OneShot!RequireClean, OneShot!Refuse, OneShot!LookUp, OneShot!Validate,
       OneShot!ValidateRefuses, OneShot!BeginValidate,
       OneShot!ReplaceCurrent, OneShot!OneShotTypes
  <2>2. OneShot!OneShotTypes' /\ OneShot!WorkOf(b)'
    BY <1>0, <2>1 DEF OneShot!OneShotTypes, OneShot!WorkOf
  <2>3. \A c \in Builders \ {b} : pc'[c] = pc[c]
    BY <1>0, <2>1 DEF OneShot!OneShotTypes
  <2> QED BY <2>1, <2>2, <2>3, OneShotKeeps
<1>2. CASE OneShot!ReadCommit(b) \/ OneShot!CaptureFile(b)
  <2>1. /\ UNCHANGED <<v, source, made, releases, looked, passed>>
        /\ DOMAIN commit' = Builders /\ DOMAIN entries' = Builders /\ DOMAIN pc' = Builders
        /\ pc'[b] = "capture"
        /\ \A c \in Builders \ {b} : pc'[c] = pc[c] /\ entries'[c] = entries[c]
    BY <1>0, <1>2 DEF OneShot!ReadCommit, OneShot!CaptureFile, OneShot!OneShotTypes
  <2>2. OneShot!OneShotTypes' /\ OneShot!WorkOf(b)'
    BY <1>0, <2>1 DEF OneShot!OneShotTypes, OneShot!WorkOf
  <2> QED BY <2>1, <2>2, OneShotKeeps
<1>3. CASE OneShot!TakeInputs(b)
  <2>1. /\ UNCHANGED <<v, commit, entries, made, releases, looked, passed>>
        /\ pc' = [pc EXCEPT ![b] = IF v = "v11" THEN "tests" ELSE "compose"]
        /\ source' = [source EXCEPT ![b] = OneShot!SourceOf(b)]
        /\ Len(entries[b]) = Len(OneShot!Paths)
    BY <1>3 DEF OneShot!TakeInputs, OneShot!Captured
  <2>2. OneShot!OneShotTypes'
    BY <1>0, <2>1 DEF OneShot!OneShotTypes
  <2>3. OneShot!WorkOf(b)'
    BY <1>0, <2>1 DEF OneShot!OneShotTypes, OneShot!WorkOf, OneShot!SourceOf
  <2>4. \A c \in Builders \ {b} : pc'[c] = pc[c] /\ source'[c] = source[c]
    BY <1>0, <2>1 DEF OneShot!OneShotTypes
  <2> QED BY <2>1, <2>2, <2>3, <2>4, OneShotKeeps
<1>4. CASE OneShot!HostTests(b)
  <2>1. /\ UNCHANGED <<v, commit, entries, made, releases, looked, passed>>
        /\ pc[b] = "tests" /\ pc' = [pc EXCEPT ![b] = "compose"]
        /\ \E after \in {source[b], OneShot!Dirty} : source' = [source EXCEPT ![b] = after]
    BY <1>4 DEF OneShot!HostTests
  <2>2. OneShot!OneShotTypes' /\ OneShot!WorkOf(b)'
    BY <1>0, <2>1 DEF OneShot!OneShotTypes, OneShot!WorkOf
  <2>3. \A c \in Builders \ {b} : pc'[c] = pc[c] /\ source'[c] = source[c]
    BY <1>0, <2>1 DEF OneShot!OneShotTypes
  <2> QED BY <2>1, <2>2, <2>3, OneShotKeeps
<1>5. CASE OneShot!Compose(b)
  <2> DEFINE r == [commit |-> commit[b], entries |-> entries[b], payload |-> OneShot!Compile(b)]
  <2>1. /\ UNCHANGED <<v, commit, entries, source, releases, looked, passed>>
        /\ pc[b] = "compose" /\ pc' = [pc EXCEPT ![b] = "stage"]
        /\ v = "v11" => source[b] = entries[b][Len(OneShot!Paths)]
        /\ made' = [made EXCEPT ![b] = r]
    BY <1>5 DEF OneShot!Compose, OneShot!SnapshotKept
  <2>2. v \in {"v11", "v14"} => OneShot!LastBlob(r)
    BY <1>0, <2>1 DEF OneShot!LastBlob, OneShot!WorkOf, OneShot!Compile, OneShot!V11Compile,
       OneShot!V14Compile
  <2> HIDE DEF r
  <2>3. OneShot!OneShotTypes' /\ OneShot!WorkOf(b)'
    BY <1>0, <2>1, <2>2 DEF OneShot!OneShotTypes, OneShot!WorkOf
  <2>4. \A c \in Builders \ {b} : pc'[c] = pc[c] /\ made'[c] = made[c]
    BY <1>0, <2>1 DEF OneShot!OneShotTypes
  <2> QED BY <2>1, <2>3, <2>4, OneShotKeeps
<1>6. CASE OneShot!ValidateStage(b)
  <2>1. /\ UNCHANGED <<v, commit, entries, source, made, releases, looked, passed>>
        /\ pc[b] = "stage" /\ pc' = [pc EXCEPT ![b] = "publish"]
        /\ v \in {"v11", "v13"} => OneShot!EntriesOfCommit(made[b])
    BY <1>6 DEF OneShot!ValidateStage, OneShot!StageAccepted, OneShot!V11Manifest,
       OneShot!V13Manifest
  <2>2. OneShot!OneShotTypes' /\ OneShot!WorkOf(b)'
    BY <1>0, <2>1 DEF OneShot!OneShotTypes, OneShot!WorkOf
  <2>3. \A c \in Builders \ {b} : pc'[c] = pc[c]
    BY <1>0, <2>1 DEF OneShot!OneShotTypes
  <2> QED BY <2>1, <2>2, <2>3, OneShotKeeps
<1>7. CASE OneShot!RenameStage(b)
  <2>1. /\ UNCHANGED <<v, commit, entries, source, made, looked, passed>>
        /\ releases' = releases \cup {made[b]} /\ pc[b] = "publish"
        /\ \E at \in {"point", "validate"} : pc' = [pc EXCEPT ![b] = at]
    BY <1>7 DEF OneShot!RenameStage
  <2>2. OneShot!OneShotTypes' /\ \A c \in Builders : pc'[c] = IF c = b THEN pc'[b] ELSE pc[c]
    BY <1>0, <2>1 DEF OneShot!OneShotTypes
  <2>3. \A c \in Builders : OneShot!WorkOf(c)'
    BY <2>1, <2>2, <1>0 DEF OneShot!OneShotInv, OneShot!WorkOf, OneShot!OneShotTypes
  <2>4. v \in {"v11", "v14"} => OneShot!LastBlob(made[b])
    BY <1>0, <2>1 DEF OneShot!WorkOf
  <2>5. v \in {"v11", "v13"} => OneShot!EntriesOfCommit(made[b])
    BY <1>0, <2>1 DEF OneShot!WorkOf
  <2>6. v = "v11" => made[b].payload = made[b].commit
    BY <1>0, <2>4, <2>5 DEF OneShot!LastBlob, OneShot!EntriesOfCommit
  <2>7. OneShot!PublishedIsOfCommit'
    BY <2>1, <2>5, <2>6 DEF OneShot!OneShotInv, OneShot!PublishedIsOfCommit
  <2>8. v' \in {"v11", "v14"} => \A r \in releases' : OneShot!LastBlob(r)
    BY <2>1, <2>4 DEF OneShot!OneShotInv
  <2> QED BY <2>2, <2>3, <2>7, <2>8 DEF OneShot!OneShotInv
<1>8. CASE OneShot!Again(b)
  <2>1. /\ UNCHANGED <<v, releases>> /\ OneShot!OneShotTypes' /\ pc'[b] = "start"
        /\ \A c \in Builders \ {b} : /\ pc'[c] = pc[c] /\ entries'[c] = entries[c]
                                     /\ source'[c] = source[c] /\ made'[c] = made[c]
    BY <1>0, <1>8 DEF OneShot!Again, OneShot!OneShotTypes
  <2>2. OneShot!WorkOf(b)'
    BY <2>1 DEF OneShot!WorkOf
  <2> QED BY <2>1, <2>2, OneShotKeeps
<1> QED
  BY <1>1, <1>2, <1>3, <1>4, <1>5, <1>6, <1>7, <1>8 DEF OneShot!BuilderStep

LEMMA OneShotStepHolds ==
    ASSUME OneShot!OneShotInv, [OneShot!OneShotNext]_(OneShot!oneShotVars)
    PROVE  OneShot!OneShotInv'
<1> DEFINE v == x1  pc == x5  entries == x7  source == x8  made == x9  releases == x10
<1>1. ASSUME OneShot!OneShotTypes', UNCHANGED <<v, entries, source, made>>,
             releases' \subseteq releases,
             \A c \in Builders : pc'[c] \in {pc[c], "end"}
      PROVE  OneShot!OneShotInv'
  <2>1. \A c \in Builders : OneShot!WorkOf(c)'
    BY <1>1 DEF OneShot!OneShotInv, OneShot!WorkOf
  <2>2. OneShot!PublishedIsOfCommit'
    BY <1>1 DEF OneShot!OneShotInv, OneShot!PublishedIsOfCommit
  <2> QED BY <1>1, <2>1, <2>2 DEF OneShot!OneShotInv
<1>2. CASE UNCHANGED OneShot!oneShotVars
  BY <1>1, <1>2 DEF OneShot!OneShotInv, OneShot!OneShotTypes, OneShot!oneShotVars
<1>3. CASE OneShot!Move
  BY <1>1, <1>3 DEF OneShot!OneShotInv, OneShot!OneShotTypes, OneShot!Move, OneShot!Taken,
     OneShot!Store, OneShot!Seen
<1>4. CASE OneShot!Kill
  BY <1>1, <1>4 DEF OneShot!OneShotInv, OneShot!OneShotTypes, OneShot!Kill, OneShot!Taken,
     OneShot!Store, OneShot!Seen
<1>5. CASE OneShot!PowerLoss
  <2>1. releases' \subseteq releases
    BY <1>5 DEF OneShot!PowerLoss
  <2>2. OneShot!OneShotTypes'
    BY <1>5 DEF OneShot!OneShotInv, OneShot!OneShotTypes, OneShot!PowerLoss, OneShot!Taken,
       OneShot!Seen
  <2> QED BY <1>1, <1>5, <2>1, <2>2 DEF OneShot!PowerLoss, OneShot!Taken, OneShot!OneShotInv,
             OneShot!OneShotTypes
<1> QED
  BY <1>2, <1>3, <1>4, <1>5, OneShotBuilderHolds DEF OneShot!OneShotNext

LEMMA OneShotPassHolds ==
    ASSUME OneShot!OneShotInv, [OneShot!OneShotNext]_(OneShot!oneShotVars)
    PROVE  OneShot!PassIsOfCommit
<1> DEFINE v == x1  looked == x14  passed == x15
<1> SUFFICES ASSUME NEW c \in Builders, ~passed[c], passed'[c]
             PROVE  /\ OneShot!Whole(looked[c])
                    /\ v # "v16" => OneShot!EntriesOfCommit(looked[c])
                    /\ v = "v14" => looked[c].payload = looked[c].commit
  BY DEF OneShot!PassIsOfCommit
<1>1. passed' # passed
  OBVIOUS
<1>2. PICK b \in Builders : OneShot!Validate(b) \/ OneShot!Again(b)
  BY <1>1
  DEF OneShot!OneShotNext, OneShot!BuilderStep, OneShot!oneShotVars, OneShot!Move,
      OneShot!Kill, OneShot!PowerLoss, OneShot!RequireClean, OneShot!ReadCommit,
      OneShot!CaptureFile, OneShot!TakeInputs, OneShot!HostTests, OneShot!Compose,
      OneShot!ValidateStage, OneShot!RenameStage, OneShot!ReplaceCurrent, OneShot!Refuse,
      OneShot!BeginValidate, OneShot!LookUp, OneShot!ValidateRefuses, OneShot!Seen
<1>3. ~OneShot!Again(b)
  BY DEF OneShot!Again, OneShot!OneShotInv, OneShot!OneShotTypes
<1>4. b = c /\ OneShot!Accepts(c)
  BY <1>2, <1>3 DEF OneShot!Validate, OneShot!OneShotInv, OneShot!OneShotTypes
<1> DEFINE r == looked[c]
<1>5. v \in {"v11", "v13", "v14", "v16", "v17"}
  BY DEF OneShot!OneShotInv, OneShot!OneShotTypes
<1>6. OneShot!Whole(r) /\ (v # "v16" => OneShot!EntriesOfCommit(r))
  BY <1>4, <1>5 DEF OneShot!Accepts, OneShot!V11Accepts, OneShot!V14Accepts,
     OneShot!V16Accepts, OneShot!V16Archive, OneShot!V11Manifest, OneShot!V13Manifest,
     OneShot!V14Manifest, OneShot!V17Manifest
<1>7. v = "v14" => OneShot!LastBlob(r)
  BY <1>6 DEF OneShot!Whole, OneShot!OneShotInv
<1> QED
  BY <1>6, <1>7, PathsLength DEF OneShot!LastBlob, OneShot!EntriesOfCommit

-----------------------------------------------------------------------------
(* Recovery of p3: an image is made of payloads that were frozen as the commit pins *)
(* them, and is hashed before anything is planned with it.                          *)
USE CommitsAssumption DEF P3!Other

LEMMA PinsBytes ==
    ASSUME x4 \in Nat
    PROVE  \A c \in Nat : P3!Pins(c) \in P3!Bytes
BY DEF P3!Pins, P3!Bytes

LEMMA P3Begins ==
    ASSUME P3!P3Init PROVE P3!P3Inv
<1> DEFINE pinned == x4  job == x5  planner == x10
<1>1. P3!Lost \in P3!Bytes /\ pinned \in Nat
  BY DEF P3!P3Init, P3!Lost, P3!Bytes
<1>2. P3!P3Types
  BY <1>1, PinsBytes
  DEF P3!P3Init, P3!P3Types, P3!NoJob, P3!None, P3!Jobs, P3!Steps, P3!NoPlan
<1>3. P3!JobIsPinned(P3!NoJob)
  BY DEF P3!NoJob, P3!JobIsPinned, P3!Lost
<1>4. \A b \in Builders : job[b] = P3!NoJob
  BY DEF P3!P3Init
<1>5. P3!PlannerIsTrue
  BY DEF P3!P3Init, P3!PlannerIsTrue, P3!NoPlan
<1> QED
  BY <1>2, <1>3, <1>4, <1>5 DEF P3!P3Init, P3!P3Inv, P3!PlanIsPinned

(* The plan generator is as true as before when the configuration is. *)
LEMMA P3PlannerKept ==
    ASSUME P3!PlannerIsTrue, x4' = x4, x10' = x10 PROVE P3!PlannerIsTrue'
<1>1. /\ P3!Pins(x10.of)' = P3!Pins(x10.of) /\ P3!Pins(x10.head)' = P3!Pins(x10.head)
  BY DEF P3!Pins
<1> QED BY <1>1 DEF P3!PlannerIsTrue

LEMMA P3JobReplaced ==
    ASSUME P3!P3Inv, NEW b \in Builders, NEW j \in P3!Jobs, P3!JobIsPinned(j),
           x5' = [x5 EXCEPT ![b] = j], x4' = x4,
           x1' \in Nat \ {0}, x3' \in P3!Bytes, UNCHANGED <<x6, x8, x10>>
    PROVE  P3!P3Inv'
<1> DEFINE job == x5  artifact == x6
<1>1. P3!P3Types'
  BY DEF P3!P3Inv, P3!P3Types
<1>2. \A c \in Builders : job'[c] = IF c = b THEN j ELSE job[c]
  BY DEF P3!P3Inv, P3!P3Types
<1>3. ASSUME NEW c \in Builders PROVE P3!JobIsPinned(job[c])'
  <2> DEFINE k == IF c = b THEN j ELSE job[c]
  <2>1. job'[c] = k /\ P3!JobIsPinned(k)
    BY <1>2 DEF P3!P3Inv
  <2>2. P3!Pins(job[c].commit)' = P3!Pins(job'[c].commit)
    BY DEF P3!Pins
  <2> HIDE DEF k
  <2> QED BY <2>1, <2>2 DEF P3!JobIsPinned
<1>4. P3!PlanIsPinned'
  BY DEF P3!P3Inv, P3!PlanIsPinned, P3!Pins
<1>5. (artifact # P3!None => artifact.sum = P3!Pins(artifact.commit))'
  <2>1. P3!Pins(artifact.commit)' = P3!Pins(artifact.commit) /\ P3!None' = P3!None
    BY DEF P3!Pins, P3!None, P3!Lost
  <2> QED BY <2>1 DEF P3!P3Inv
<1>6. P3!PlannerIsTrue'
  BY P3PlannerKept DEF P3!P3Inv
<1> QED
  BY <1>1, <1>3, <1>4, <1>5, <1>6 DEF P3!P3Inv

LEMMA P3NoJob == P3!NoJob \in P3!Jobs /\ P3!JobIsPinned(P3!NoJob)
BY DEF P3!NoJob, P3!Jobs, P3!Steps, P3!Lost, P3!Bytes, P3!JobIsPinned

LEMMA P3BuilderHolds ==
    ASSUME P3!P3Inv, NEW b \in Builders,
           \/ P3!BeginBuild(b) \/ P3!BuildImage(b) \/ P3!LoopCheck(b) \/ P3!RawVerify(b)
           \/ P3!HashImage(b)
           \/ P3!Recheck(b) \/ P3!BuildFails(b) \/ P3!LateWrite(b)
           \/ \E p \in Payloads : P3!FreezePayload(b, p)
    PROVE  P3!P3Inv'
<1> DEFINE head == x1  live == x3  pinned == x4  job == x5  artifact == x6  plans == x8
           planner == x10
<1> DEFINE j == job[b]
<1>1. j \in P3!Jobs /\ P3!JobIsPinned(j) /\ job \in [Builders -> P3!Jobs]
      /\ P3!Lost \in P3!Bytes
      /\ head \in Nat \ {0} /\ live \in P3!Bytes /\ pinned \in Nat
      /\ \A p \in Payloads : P3!Pins(j.commit)[p] \in Nat
  BY DEF P3!P3Inv, P3!P3Types, P3!Lost, P3!Bytes, P3!Pins, P3!Jobs
<1> SUFFICES \E k \in P3!Jobs : P3!JobIsPinned(k) /\ job' = [job EXCEPT ![b] = k]
             /\ UNCHANGED <<pinned, head, live, artifact, plans, planner>>
  BY <1>1, P3JobReplaced
<1>2. CASE P3!BeginBuild(b)
  <2> DEFINE k == [P3!NoJob EXCEPT !.at = "freeze", !.commit = head]
  <2>1. k \in P3!Jobs /\ P3!JobIsPinned(k)
    BY <1>1 DEF P3!NoJob, P3!Jobs, P3!Steps, P3!Lost, P3!Bytes, P3!JobIsPinned
  <2> QED BY <1>2, <2>1 DEF P3!BeginBuild, P3!Tree, P3!Out
<1>3. CASE P3!BuildImage(b)
  <2>1. PICK image \in {j.frozen, P3!Lost}, loop \in BOOLEAN :
          job' = [job EXCEPT ![b].at = "loop", ![b].image = image, ![b].loop = loop]
    BY <1>3 DEF P3!BuildImage
  <2> DEFINE k == [j EXCEPT !.at = "loop", !.image = image, !.loop = loop]
  <2>2. job' = [job EXCEPT ![b] = k]
    BY <2>1, <1>1
  <2>3. j.frozen = P3!Pins(j.commit)
    BY <1>1, <1>3 DEF P3!BuildImage, P3!JobIsPinned, P3!Jobs, P3!Bytes, P3!Pins
  <2>4. k \in P3!Jobs /\ P3!JobIsPinned(k)
    BY <1>1, <2>3 DEF P3!Jobs, P3!Steps, P3!JobIsPinned
  <2> QED BY <1>3, <2>2, <2>4 DEF P3!BuildImage, P3!Tree, P3!Out
<1>4. CASE P3!LoopCheck(b) \/ P3!RawVerify(b) \/ P3!Recheck(b)
  <2>1. PICK at \in P3!Steps : /\ job' = [job EXCEPT ![b].at = at]
                               /\ at \in {"recheck", "publish"} => j.at = "recheck"
                               /\ j.at \notin {"idle", "freeze"}
    BY <1>4 DEF P3!LoopCheck, P3!RawVerify, P3!Recheck, P3!Goes, P3!Steps
  <2> DEFINE k == [j EXCEPT !.at = at]
  <2>2. job' = [job EXCEPT ![b] = k]
    BY <2>1, <1>1
  <2>3. k \in P3!Jobs /\ P3!JobIsPinned(k)
    BY <1>1, <2>1 DEF P3!Jobs, P3!Steps, P3!JobIsPinned
  <2> QED
    BY <1>4, <2>2, <2>3 DEF P3!LoopCheck, P3!RawVerify, P3!Recheck, P3!Goes, P3!Tree, P3!Out
<1>5. CASE P3!HashImage(b)
  <2> DEFINE k == [j EXCEPT !.at = "recheck", !.sum = j.image]
  <2>2. job' = [job EXCEPT ![b] = k]
    BY <1>5, <1>1 DEF P3!HashImage
  <2>3. k \in P3!Jobs /\ P3!JobIsPinned(k)
    BY <1>1, <1>5 DEF P3!HashImage, P3!RawTreeExact, P3!Jobs, P3!Steps, P3!JobIsPinned
  <2> QED BY <1>5, <2>2, <2>3 DEF P3!HashImage, P3!Tree, P3!Out
<1>6. CASE P3!BuildFails(b)
  BY <1>6, P3NoJob DEF P3!BuildFails, P3!Tree, P3!Out
<1>7. CASE P3!LateWrite(b)
  <2> DEFINE k == [j EXCEPT !.image = P3!Lost]
  <2>2. job' = [job EXCEPT ![b] = k]
    BY <1>7, <1>1 DEF P3!LateWrite
  <2>3. k \in P3!Jobs /\ P3!JobIsPinned(k)
    BY <1>1 DEF P3!Jobs, P3!JobIsPinned
  <2> QED BY <1>7, <2>2, <2>3 DEF P3!LateWrite, P3!Out
<1>8. ASSUME NEW p \in Payloads, P3!FreezePayload(b, p)
      PROVE  \E k \in P3!Jobs : P3!JobIsPinned(k) /\ job' = [job EXCEPT ![b] = k]
             /\ UNCHANGED <<pinned, head, live, artifact, plans, planner>>
  <2> DEFINE f == [j.frozen EXCEPT ![p] = live[p]]
             k == [j EXCEPT !.frozen = f]
  <2>1. live[p] = P3!Pins(j.commit)[p] /\ j.at = "freeze"
    BY <1>8 DEF P3!FreezePayload, P3!PinnedBytes
  <2>2. job' = [job EXCEPT ![b] = k]
    BY <1>8, <1>1 DEF P3!FreezePayload
  <2>3. f \in P3!Bytes
    BY <1>1, <2>1 DEF P3!Jobs, P3!Bytes
  <2>4. k \in P3!Jobs
    BY <1>1, <2>3 DEF P3!Jobs
  <2>5. \A q \in Payloads : f[q] \in {P3!Other, P3!Pins(j.commit)[q]}
    BY <1>1, <2>1 DEF P3!Jobs, P3!Bytes, P3!JobIsPinned
  <2>6. P3!JobIsPinned(k)
    <3>1. k.at = "freeze" /\ k.commit = j.commit /\ k.frozen = f
      BY <1>1, <2>1 DEF P3!Jobs
    <3> QED BY <3>1, <2>5 DEF P3!JobIsPinned
  <2> QED BY <1>8, <2>2, <2>4, <2>6 DEF P3!FreezePayload, P3!Tree, P3!Out
<1> QED
  BY <1>2, <1>3, <1>4, <1>5, <1>6, <1>7, <1>8

LEMMA P3StepHolds ==
    ASSUME P3!P3Inv, [P3!P3Next]_(P3!p3Vars)
    PROVE  P3!P3Inv'
<1> DEFINE head == x1  live == x3  pinned == x4  job == x5  artifact == x6  plans == x8
           planner == x10
<1> DEFINE Good(a) == a # P3!None => a.sum = P3!Pins(a.commit)
<1>0. /\ head \in Nat \ {0} /\ live \in P3!Bytes /\ pinned \in Nat
      /\ job \in [Builders -> P3!Jobs]
      /\ artifact \in [commit : Nat, image : P3!Bytes, sum : P3!Bytes] /\ P3!Lost \in P3!Bytes
      /\ P3!None \in [commit : Nat, image : P3!Bytes, sum : P3!Bytes]
      /\ planner \in [at : {"idle", "head", "clean", "config", "hash", "write"},
                       of : Nat, sum : P3!Bytes, head : Nat]
      /\ P3!PlannerIsTrue /\ P3!PlanIsPinned
  BY DEF P3!P3Inv, P3!P3Types, P3!Lost, P3!None, P3!Bytes
<1>a. ASSUME P3!P3Types', P3!PlannerIsTrue', P3!PlanIsPinned', pinned' = pinned,
             Good(artifact'), \A b \in Builders : P3!JobIsPinned(job'[b])
      PROVE  P3!P3Inv'
  <2>1. ASSUME NEW b \in Builders PROVE P3!JobIsPinned(job[b])'
    <3>1. P3!Pins(job[b].commit)' = P3!Pins(job'[b].commit)
      BY <1>a DEF P3!Pins
    <3> QED BY <1>a, <3>1 DEF P3!JobIsPinned
  <2>2. (artifact # P3!None => artifact.sum = P3!Pins(artifact.commit))'
    BY <1>a DEF P3!Pins, P3!None, P3!Lost
  <2> QED BY <1>a, <2>1, <2>2 DEF P3!P3Inv
<1>1. ASSUME pinned' = pinned, head' \in Nat \ {0}, live' \in P3!Bytes,
             artifact' \in [commit : Nat, image : P3!Bytes, sum : P3!Bytes], Good(artifact'),
             job' \in [Builders -> P3!Jobs], \A b \in Builders : P3!JobIsPinned(job'[b]),
             plans' = plans, planner' \in {planner, P3!NoPlan}
      PROVE  P3!P3Inv'
  <2>1. P3!P3Types'
    BY <1>0, <1>1 DEF P3!P3Types, P3!NoPlan
  <2>2. P3!PlanIsPinned'
    <3>1. \A c : P3!Pins(c)' = P3!Pins(c)
      BY <1>1 DEF P3!Pins
    <3> QED BY <1>0, <1>1, <3>1 DEF P3!PlanIsPinned
  <2>3. P3!PlannerIsTrue'
    BY <1>0, <1>1, P3PlannerKept DEF P3!PlannerIsTrue, P3!NoPlan
  <2> QED BY <1>1, <1>a, <2>1, <2>2, <2>3
<1>2. Good(artifact) /\ \A b \in Builders : P3!JobIsPinned(job[b])
  BY DEF P3!P3Inv
<1>3. CASE UNCHANGED P3!p3Vars
  BY <1>0, <1>1, <1>2, <1>3 DEF P3!p3Vars
<1>4. CASE \/ P3!ReadArtifact \/ P3!ReadHead \/ P3!CheckClean \/ P3!CheckConfig
           \/ P3!HashArtifact \/ P3!WritePlan \/ P3!PlanFails
  <2>1. UNCHANGED <<head, live, pinned, job, artifact>>
    BY <1>4 DEF P3!ReadArtifact, P3!ReadHead, P3!CheckClean, P3!CheckConfig, P3!HashArtifact,
       P3!WritePlan, P3!PlanFails, P3!Unplanned
  <2>2. \A c : P3!Pins(c)' = P3!Pins(c)
    BY <2>1 DEF P3!Pins
  <2>3. P3!P3Types' /\ P3!PlannerIsTrue' /\ P3!PlanIsPinned'
    <3>1. CASE P3!ReadArtifact
      BY <1>0, <1>2, <2>1, <2>2, <3>1
      DEF P3!ReadArtifact, P3!Complete, P3!P3Types, P3!PlannerIsTrue, P3!PlanIsPinned
    <3>2. CASE P3!ReadHead
      <4>1. /\ plans' = plans /\ planner.at = "head" /\ P3!HeadMatches(planner.of)
            /\ planner' = [planner EXCEPT !.at = "clean", !.head = head]
        BY <3>2 DEF P3!ReadHead
      <4>2. P3!Pins(head) = P3!Pins(planner.of)
        BY <4>1 DEF P3!HeadMatches, P3!Pins
      <4> QED
        BY <1>0, <2>1, <2>2, <4>1, <4>2 DEF P3!P3Types, P3!PlannerIsTrue, P3!PlanIsPinned
    <3>3. CASE P3!CheckClean \/ P3!CheckConfig \/ P3!HashArtifact
      <4>1. /\ plans' = plans /\ planner.at \notin {"idle", "head"}
            /\ \E at \in {"config", "hash", "write"} : planner' = [planner EXCEPT !.at = at]
        BY <3>3 DEF P3!CheckClean, P3!CheckConfig, P3!HashArtifact, P3!Plans
      <4> QED BY <1>0, <2>1, <2>2, <4>1 DEF P3!P3Types, P3!PlannerIsTrue, P3!PlanIsPinned
    <3>4. CASE P3!WritePlan
      <4>1. /\ planner.at = "write" /\ planner' = P3!NoPlan
            /\ plans' = plans \cup {[at |-> planner.head, image |-> planner.sum]}
        BY <3>4 DEF P3!WritePlan
      <4>2. planner.sum = P3!Pins(planner.head)
        BY <1>0, <4>1 DEF P3!PlannerIsTrue
      <4>3. P3!PlanIsPinned'
        BY <1>0, <2>2, <4>1, <4>2 DEF P3!PlanIsPinned
      <4> QED BY <1>0, <2>1, <4>1, <4>3 DEF P3!P3Types, P3!PlannerIsTrue, P3!NoPlan
    <3>5. CASE P3!PlanFails
      BY <1>0, <2>1, <2>2, <3>5
      DEF P3!PlanFails, P3!P3Types, P3!PlannerIsTrue, P3!NoPlan, P3!PlanIsPinned
    <3> QED BY <1>4, <3>1, <3>2, <3>3, <3>4, <3>5
  <2> QED BY <1>a, <1>2, <2>1, <2>3
<1>5. CASE P3!EditPayload
  <2>1. P3!Commits \cup {P3!Other} \subseteq Nat
    BY DEF P3!Commits
  <2>2. live' \in P3!Bytes
    BY <1>0, <1>5, <2>1 DEF P3!EditPayload, P3!Bytes
  <2> QED BY <1>0, <1>1, <1>2, <2>2, <1>5 DEF P3!EditPayload, P3!Out
<1>6. CASE P3!EditTracked
  BY <1>0, <1>1, <1>2, <1>6 DEF P3!EditTracked, P3!Out
<1>7. CASE P3!Commit
  <2>1. pinned' = pinned /\ head' \in Nat \ {0} /\ (live' = live \/ live' = P3!Pins(head'))
    BY <1>0, <1>7 DEF P3!Commit
  <2>2. live' \in P3!Bytes
    BY <2>1, <1>0, PinsBytes
  <2> QED BY <1>0, <1>1, <1>2, <2>1, <2>2, <1>7 DEF P3!Commit, P3!Out
<1>8. CASE P3!WriteBack
  BY <1>0, <1>1, <1>2, <1>8 DEF P3!WriteBack, P3!Tree
<1>9. CASE P3!PowerLoss
  <2>1. artifact' \in {artifact, P3!None, [artifact EXCEPT !.image = P3!Lost]}
    BY <1>9 DEF P3!PowerLoss
  <2>2. artifact' \in [commit : Nat, image : P3!Bytes, sum : P3!Bytes]
    BY <1>0, <2>1
  <2>3. Good(artifact')
    <3>1. CASE artifact = P3!None
      BY <3>1, <2>1 DEF P3!None
    <3> QED BY <3>1, <1>0, <1>2, <2>1
  <2>4. job' \in [Builders -> P3!Jobs] /\ \A b \in Builders : P3!JobIsPinned(job'[b])
    BY <1>9, P3NoJob DEF P3!PowerLoss
  <2> QED BY <1>0, <1>1, <2>2, <2>3, <2>4, <1>9 DEF P3!PowerLoss
<1>10. CASE P3!DeleteArtifact
  BY <1>0, <1>1, <1>2, <1>10 DEF P3!DeleteArtifact
<1>11. ASSUME NEW b \in Builders, P3!Publish(b)
       PROVE  P3!P3Inv'
  <2> DEFINE j == job[b]
  <2>1. j \in P3!Jobs /\ P3!JobIsPinned(j) /\ j.at = "publish"
        /\ artifact' = [commit |-> j.commit, image |-> j.image, sum |-> j.sum]
    BY <1>0, <1>2, <1>11 DEF P3!Publish, P3!Goes
  <2>2. j.sum = P3!Pins(j.commit)
    BY <2>1 DEF P3!JobIsPinned
  <2>3. artifact' \in [commit : Nat, image : P3!Bytes, sum : P3!Bytes] /\ Good(artifact')
    BY <2>1, <2>2 DEF P3!Jobs
  <2> DEFINE k == [j EXCEPT !.at = "idle"]
  <2>4. job' = [job EXCEPT ![b] = k]
    BY <1>11, <1>0 DEF P3!Publish, P3!Goes
  <2>5. k \in P3!Jobs /\ P3!JobIsPinned(k)
    BY <2>1 DEF P3!Jobs, P3!Steps, P3!JobIsPinned
  <2>6. job' \in [Builders -> P3!Jobs] /\ \A c \in Builders : P3!JobIsPinned(job'[c])
    <3> HIDE DEF k, j
    <3> QED BY <2>4, <2>5, <1>0, <1>2
  <2> QED BY <1>0, <1>1, <2>3, <2>6, <1>11 DEF P3!Publish, P3!Tree
<1> QED
  BY <1>3, <1>4, <1>5, <1>6, <1>7, <1>8, <1>9, <1>10, <1>11, P3BuilderHolds DEF P3!P3Next

HIDE CommitsAssumption DEF P3!Other

PromotionPart == part = "promotion" => Promotion!PromotionInv
OneShotPart == part = "one-shot" => OneShot!OneShotInv
P3Part == part = "p3" => P3!P3Inv

(* For any number of builders, commits and payloads, although commits and edits come *)
(* between the git commands and builders are killed: CURRENT of the promotion       *)
(* builders names a published generation or one that a power loss took, for no      *)
(* directory is synced; what v0.11 and v0.13 publish is of the commit in its        *)
(* manifest; and a plan for p3 names the sum of the bytes that are pinned at the    *)
(* commit its generator found, though HEAD and the artifact may be others by then   *)
(* (build-r46h-v15-boot-promotion.py, build-v11-usb-one-shot.py,                    *)
(* build-easyroms-p3-recovery.py, generate-easyroms-p3-write-plan.py).              *)
THEOREM BuildsAreTrue == Spec => []BuildsAreOfTheirCommit
<1>1. Init => PromotionPart /\ OneShotPart /\ P3Part
  BY PromotionBegins, OneShotBegins, P3Begins
  DEF Init, PromotionPart, OneShotPart, P3Part
<1>2. PromotionPart /\ OneShotPart /\ P3Part /\ [Next]_mcVars
      => (PromotionPart /\ OneShotPart /\ P3Part)'
  BY OwnSteps, PromotionStepHolds, OneShotStepHolds, P3StepHolds
  DEF PromotionPart, OneShotPart, P3Part
<1>3. PromotionPart /\ OneShotPart /\ P3Part => BuildsAreOfTheirCommit
  BY DEF PromotionPart, OneShotPart, P3Part, BuildsAreOfTheirCommit,
         Promotion!PromotionInv, OneShot!OneShotInv, P3!P3Inv
<1> QED
  BY <1>1, <1>2, <1>3, PTL DEF Spec

-----------------------------------------------------------------------------
(* Staging on the USB drive: the receipt is written for the drive, the volume and   *)
(* the generation that were copied and read back.                                   *)
USE DrivesAssumption DEF Usb!None

LEMMA UsbBegins ==
    ASSUME Usb!UsbInit PROVE Usb!UsbInv
<1>1. Usb!Absent \in [of : UsbGenerations \cup {Usb!None, "torn"}, synced : BOOLEAN]
  BY DEF Usb!Absent
<1>2. Usb!UsbTypes
  BY <1>1 DEF Usb!UsbInit, Usb!UsbTypes, Usb!Files, Usb!Volumes, Usb!NoDrive
<1> QED
  BY <1>2 DEF Usb!UsbInit, Usb!UsbInv, Usb!StagedIsThere, Usb!ReceiptIsTrue, Usb!Stages

LEMMA UsbStepHolds ==
    ASSUME Usb!UsbInv, [Usb!UsbNext]_(Usb!usbVars)
    PROVE  Usb!UsbInv'
<1> DEFINE plugged == x1  files == x2  uuid == x4  current == x5  pc == x6  source == x7
           before == x8  receipts == x10
<1> DEFINE Entries == [of : UsbGenerations \cup {Usb!None, "torn"}, synced : BOOLEAN]
           Kept == \A r \in receipts : uuid[r.drive] <= uuid'[r.drive]
                     /\ (uuid'[r.drive] = r.uuid =>
                          \A n \in Usb!NameSet : files'[r.drive][n] = [of |-> r.of,
                                                                       synced |-> TRUE])
<1>0. Usb!UsbTypes /\ Usb!StagedIsThere /\ Usb!ReceiptIsTrue
      /\ \A r \in receipts : /\ r.uuid <= uuid[r.drive] /\ r.uuid \in Nat
                             /\ r.drive \in Drives /\ r.of \in UsbGenerations
                             /\ uuid[r.drive] \in Nat
  BY DEF Usb!UsbInv, Usb!UsbTypes
<1>1. ASSUME Usb!UsbTypes', Usb!StagedIsThere', Kept, receipts' = receipts
      PROVE  Usb!UsbInv'
  <2>1. Usb!ReceiptIsTrue'
    BY <1>1 DEF Usb!ReceiptIsTrue
  <2>2. \A r \in receipts : r.uuid <= uuid'[r.drive]
    <3>1. \A d \in Drives : uuid'[d] \in Nat
      BY <1>1 DEF Usb!UsbTypes
    <3> SUFFICES ASSUME NEW r \in receipts PROVE r.uuid <= uuid'[r.drive]
      OBVIOUS
    <3>2. uuid'[r.drive] \in Nat /\ r.uuid <= uuid[r.drive] /\ uuid[r.drive] <= uuid'[r.drive]
          /\ r.uuid \in Nat /\ uuid[r.drive] \in Nat
      BY <3>1, <1>0, <1>1
    <3> QED BY <3>2
  <2> QED BY <1>1, <2>1, <2>2 DEF Usb!UsbInv
<1>2. ASSUME UNCHANGED <<files, uuid>>
      PROVE  Kept
  BY <1>0, <1>2 DEF Usb!ReceiptIsTrue
<1>3. CASE UNCHANGED Usb!usbVars
  <2>1. Usb!UsbTypes' /\ Usb!StagedIsThere'
    <3>1. Usb!UsbTypes'
      BY <1>0, <1>3 DEF Usb!usbVars, Usb!UsbTypes
    <3>2. Usb!StagedIsThere'
      BY <1>0, <1>3 DEF Usb!usbVars, Usb!StagedIsThere, Usb!Identity
    <3> QED BY <3>1, <3>2
  <2> QED BY <1>1, <1>2, <2>1, <1>3 DEF Usb!usbVars
<1>4. CASE Usb!QueryHardware \/ Usb!Prepared \/ Usb!BeginStage \/ Usb!QueryBefore
           \/ Usb!TakeExisting \/ Usb!StageError
  <2>1. Usb!UsbTypes'
    <3>1. UNCHANGED <<plugged, files, uuid, current, receipts>> /\ before' \in Usb!Volumes
          /\ source' \in UsbGenerations \cup {Usb!None}
      BY <1>4, <1>0
      DEF Usb!QueryHardware, Usb!Prepared, Usb!BeginStage, Usb!QueryBefore, Usb!TakeExisting,
          Usb!StageError, Usb!Bus, Usb!Disk, Usb!Run, Usb!Goes, Usb!UsbTypes, Usb!Volumes,
          Usb!NoDrive, Usb!Hardware, Usb!Mounted, Usb!Identity
    <3> QED BY <3>1, <1>0 DEF Usb!UsbTypes
  <2>2. Usb!StagedIsThere'
    BY <1>4, <1>0
    DEF Usb!QueryHardware, Usb!Prepared, Usb!BeginStage, Usb!QueryBefore, Usb!TakeExisting,
        Usb!StageError, Usb!Bus, Usb!Disk, Usb!Run, Usb!Goes, Usb!StagedIsThere, Usb!Stages,
        Usb!UsbTypes
  <2> QED
    BY <1>1, <1>2, <2>1, <2>2, <1>4 DEF Usb!QueryHardware, Usb!Prepared, Usb!BeginStage,
       Usb!QueryBefore,
       Usb!TakeExisting, Usb!StageError, Usb!Disk
<1>5. CASE Usb!EraseDisk
  <2>1. plugged \in Drives /\ uuid' = [uuid EXCEPT ![plugged] = @ + 1]
        /\ files' = [files EXCEPT ![plugged] = [n \in Usb!NameSet |-> Usb!Absent]]
    BY <1>0, <1>5 DEF Usb!EraseDisk, Usb!UsbTypes
  <2>2. [n \in Usb!NameSet |-> Usb!Absent] \in Usb!Files
    BY DEF Usb!Files, Usb!Absent
  <2>3. Usb!UsbTypes'
    BY <1>0, <1>5, <2>1, <2>2 DEF Usb!EraseDisk, Usb!Bus, Usb!Run, Usb!UsbTypes
  <2>4. Usb!StagedIsThere'
    BY <1>5 DEF Usb!EraseDisk, Usb!Goes, Usb!StagedIsThere, Usb!Stages
  <2>5. \A r \in receipts : IF r.drive = plugged THEN uuid'[r.drive] = uuid[r.drive] + 1
                            ELSE uuid'[r.drive] = uuid[r.drive]
                              /\ files'[r.drive] = files[r.drive]
    BY <1>0, <2>1 DEF Usb!UsbTypes
  <2>6. Kept
    BY <1>0, <2>5 DEF Usb!ReceiptIsTrue
  <2> QED BY <1>1, <2>3, <2>4, <2>6, <1>5 DEF Usb!EraseDisk
<1>6. CASE Usb!OpenCopy
  <2> DEFINE f == [of |-> source, synced |-> FALSE]
  <2>1. /\ plugged \in Drives /\ source \in UsbGenerations /\ f \in Entries
        /\ files[plugged][Usb!Next1] = Usb!Absent
        /\ files' = [files EXCEPT ![plugged][Usb!Next1] = f]
    BY <1>0, <1>6 DEF Usb!OpenCopy, Usb!Goes, Usb!AtPath, Usb!UsbTypes, Usb!StagedIsThere,
       Usb!Stages
  <2> HIDE DEF Usb!Next1
  <2>2. files' \in [Drives -> Usb!Files]
    BY <2>1, <1>0 DEF Usb!UsbTypes, Usb!Files
  <2>3. Usb!UsbTypes'
    BY <1>0, <1>6, <2>2 DEF Usb!OpenCopy, Usb!Bus, Usb!Run, Usb!UsbTypes
  <2>4. Usb!StagedIsThere'
    BY <1>6, <2>1 DEF Usb!OpenCopy, Usb!Goes, Usb!Run, Usb!StagedIsThere, Usb!Stages
  <2>5. ASSUME NEW r \in receipts, uuid[r.drive] = r.uuid, NEW n \in Usb!NameSet
        PROVE  files'[r.drive][n] = [of |-> r.of, synced |-> TRUE]
    <3>1. files[r.drive][n] = [of |-> r.of, synced |-> TRUE]
      BY <1>0, <2>5 DEF Usb!ReceiptIsTrue
    <3>2. files[r.drive][n].of # Usb!None
      BY <3>1, <1>0
    <3>3. ~(r.drive = plugged /\ n = Usb!Next1)
      BY <3>2, <2>1 DEF Usb!Absent
    <3> QED BY <3>1, <3>3, <2>1, <1>0 DEF Usb!UsbTypes, Usb!Files
  <2>6. Kept
    BY <1>0, <1>6, <2>5 DEF Usb!OpenCopy
  <2> QED BY <1>1, <2>3, <2>4, <2>6, <1>6 DEF Usb!OpenCopy
<1>7. CASE Usb!SyncCopy
  <2>1. plugged \in Drives /\ files' = [files EXCEPT ![plugged][Usb!Next1].synced = TRUE]
    BY <1>0, <1>7 DEF Usb!SyncCopy, Usb!Goes, Usb!AtPath, Usb!UsbTypes
  <2> HIDE DEF Usb!Next1
  <2>2. ASSUME NEW d \in Drives, NEW n \in Usb!NameSet
        PROVE  /\ files[d][n] \in Entries
               /\ files'[d][n] \in Entries /\ files'[d][n].of = files[d][n].of
               /\ files[d][n].synced => files'[d][n] = files[d][n]
    <3>1. files[d][n] \in Entries /\ DOMAIN files[d] = Usb!NameSet
      BY <1>0 DEF Usb!UsbTypes, Usb!Files
    <3>2. files'[d][n] = IF d = plugged /\ n = Usb!Next1 THEN [files[d][n] EXCEPT !.synced = TRUE]
                         ELSE files[d][n]
      BY <2>1, <3>1, <1>0 DEF Usb!UsbTypes
    <3> QED BY <3>1, <3>2
  <2>3. files' \in [Drives -> Usb!Files]
    <3>1. ASSUME NEW d \in Drives PROVE files'[d] = [n \in Usb!NameSet |-> files'[d][n]]
      BY <2>1, <1>0 DEF Usb!UsbTypes, Usb!Files
    <3>2. ASSUME NEW d \in Drives PROVE files'[d] \in Usb!Files
      <4>1. [n \in Usb!NameSet |-> files'[d][n]] \in Usb!Files
        BY <2>2 DEF Usb!Files
      <4> QED BY <3>1, <4>1
    <3>3. files' = [d \in Drives |-> files'[d]]
      BY <2>1, <1>0 DEF Usb!UsbTypes
    <3> QED BY <3>2, <3>3
  <2>4. Usb!UsbTypes'
    BY <1>0, <1>7, <2>3 DEF Usb!SyncCopy, Usb!Bus, Usb!UsbTypes
  <2>5. Usb!StagedIsThere'
    BY <1>0, <1>7, <2>1 DEF Usb!SyncCopy, Usb!Goes, Usb!StagedIsThere, Usb!Stages
  <2>6. Kept
    BY <1>0, <1>7, <2>2 DEF Usb!SyncCopy, Usb!ReceiptIsTrue
  <2> QED BY <1>1, <2>4, <2>5, <2>6, <1>7 DEF Usb!SyncCopy
<1>8. CASE Usb!RemoveAppleDouble
  <2>1. Usb!UsbTypes' /\ Usb!StagedIsThere'
    BY <1>0, <1>8 DEF Usb!RemoveAppleDouble, Usb!Goes, Usb!Bus, Usb!Run, Usb!UsbTypes,
       Usb!StagedIsThere, Usb!Stages
  <2> QED BY <1>1, <1>2, <2>1, <1>8 DEF Usb!RemoveAppleDouble
<1>9. CASE Usb!ReadBack \/ Usb!QueryAfter
  <2>1. Usb!UsbTypes'
    BY <1>0, <1>9 DEF Usb!ReadBack, Usb!QueryAfter, Usb!Bus, Usb!Disk, Usb!Run, Usb!UsbTypes
  <2>2. Usb!StagedIsThere'
    <3>1. CASE Usb!ReadBack
      <4>1. /\ UNCHANGED <<plugged, files, source>> /\ pc' = "after" /\ pc = "readback"
            /\ plugged \in Drives /\ \A n \in Usb!NameSet : files[plugged][n].of = source
        BY <1>0, <3>1 DEF Usb!ReadBack, Usb!AtPath, Usb!Goes, Usb!Bus, Usb!Disk, Usb!Run,
           Usb!UsbTypes
      <4> QED BY <1>0, <4>1 DEF Usb!StagedIsThere, Usb!Stages
    <3>2. CASE Usb!QueryAfter
      <4>1. /\ UNCHANGED <<plugged, files, source, before, uuid>> /\ pc' = "eject"
            /\ pc = "after" /\ plugged = Ours /\ before = Usb!Identity(Ours)
        BY <3>2 DEF Usb!QueryAfter, Usb!SameDrive, Usb!Mounted, Usb!Hardware, Usb!Goes,
           Usb!Bus, Usb!Disk, Usb!Run
      <4> QED BY <1>0, <4>1 DEF Usb!StagedIsThere, Usb!Stages, Usb!Identity
    <3> QED BY <1>9, <3>1, <3>2
  <2> QED BY <1>1, <1>2, <2>1, <2>2, <1>9 DEF Usb!ReadBack, Usb!QueryAfter, Usb!Disk
<1>10. CASE Usb!Eject
  <2>1. plugged = Ours /\ plugged' = Usb!None
        /\ files' = [files EXCEPT ![Ours] = [n \in Usb!NameSet |-> [@[n] EXCEPT !.synced = TRUE]]]
    BY <1>0, <1>10 DEF Usb!Eject, Usb!Goes, Usb!StagedIsThere
  <2> DEFINE whole == [n \in Usb!NameSet |-> [files[Ours][n] EXCEPT !.synced = TRUE]]
  <2>2. ASSUME NEW d \in Drives, NEW n \in Usb!NameSet
        PROVE  /\ files[d][n] \in Entries
               /\ files'[d][n] \in Entries /\ files'[d][n].of = files[d][n].of
               /\ files[d][n].synced => files'[d][n] = files[d][n]
               /\ d = Ours => files'[d][n].synced = TRUE
    <3>1. files[d][n] \in Entries
      BY <1>0 DEF Usb!UsbTypes, Usb!Files
    <3>2. files'[d][n] = IF d = Ours THEN [files[d][n] EXCEPT !.synced = TRUE] ELSE files[d][n]
      BY <2>1, <1>0 DEF Usb!UsbTypes
    <3> QED BY <3>1, <3>2
  <2>3. files' \in [Drives -> Usb!Files]
    <3>1. ASSUME NEW n \in Usb!NameSet PROVE [files[Ours][n] EXCEPT !.synced = TRUE] \in Entries
      <4>1. files[Ours][n] \in Entries
        BY <1>0 DEF Usb!UsbTypes, Usb!Files
      <4> QED BY <4>1
    <3>2. whole \in Usb!Files
      BY <3>1 DEF Usb!Files
    <3> QED BY <3>2, <2>1, <1>0 DEF Usb!UsbTypes
  <2>4. Usb!UsbTypes'
    BY <1>0, <1>10, <2>1, <2>3 DEF Usb!Eject, Usb!Run, Usb!UsbTypes
  <2>5. \A n \in Usb!NameSet : files'[Ours][n] = [of |-> source, synced |-> TRUE]
    <3>1. \A n \in Usb!NameSet : files[Ours][n].of = source
      BY <1>0, <1>10 DEF Usb!Eject, Usb!Goes, Usb!StagedIsThere
    <3> QED BY <3>1, <2>2
  <2>6. Usb!StagedIsThere'
    <3>1. pc' = "receipt" /\ before' = Usb!Identity(Ours)' /\ source' \in UsbGenerations
          /\ \A n \in Usb!NameSet : files'[Ours][n] = [of |-> source', synced |-> TRUE]
      BY <1>0, <1>10, <2>5 DEF Usb!Eject, Usb!Goes, Usb!Run, Usb!StagedIsThere, Usb!Stages,
         Usb!Identity
    <3> QED BY <3>1 DEF Usb!StagedIsThere
  <2>7. Kept
    BY <1>0, <1>10, <2>2 DEF Usb!Eject, Usb!ReceiptIsTrue
  <2> QED BY <1>1, <2>4, <2>6, <2>7, <1>10 DEF Usb!Eject
<1>11. CASE Usb!PublishReceipt
  <2> DEFINE q == [drive |-> before.drive, uuid |-> before.uuid, of |-> source]
  <2>1. /\ before = Usb!Identity(Ours) /\ source \in UsbGenerations
        /\ \A n \in Usb!NameSet : files[Ours][n] = [of |-> source, synced |-> TRUE]
        /\ receipts' = receipts \cup {q} /\ UNCHANGED <<plugged, files, uuid, current>>
        /\ pc' = "idle" /\ source' = Usb!None /\ before' = Usb!NoDrive
    BY <1>0, <1>11 DEF Usb!PublishReceipt, Usb!Goes, Usb!StagedIsThere, Usb!Stages, Usb!Bus,
       Usb!Disk
  <2>2. q = [drive |-> Ours, uuid |-> uuid[Ours], of |-> source] /\ uuid[Ours] \in Nat
    BY <2>1, <1>0 DEF Usb!Identity, Usb!UsbTypes
  <2> HIDE DEF q
  <2>3. Usb!UsbTypes'
    BY <1>0, <2>1, <2>2 DEF Usb!UsbTypes, Usb!Volumes, Usb!NoDrive
  <2>4. Usb!StagedIsThere'
    BY <2>1 DEF Usb!StagedIsThere, Usb!Stages
  <2>5. ASSUME NEW r \in receipts'
        PROVE  /\ r.uuid <= uuid[r.drive]
               /\ uuid[r.drive] = r.uuid =>
                    \A n \in Usb!NameSet : files[r.drive][n] = [of |-> r.of, synced |-> TRUE]
    <3>1. CASE r \in receipts
      BY <1>0, <3>1 DEF Usb!ReceiptIsTrue
    <3>2. CASE r = q
      <4>1. r.drive = Ours /\ r.uuid = uuid[Ours] /\ r.of = source
        BY <2>2, <3>2, Zenon
      <4>2. r.uuid <= uuid[r.drive]
        BY <2>2, <4>1
      <4>3. \A n \in Usb!NameSet : files[r.drive][n] = [of |-> r.of, synced |-> TRUE]
        BY <2>1, <4>1
      <4> QED BY <4>2, <4>3
    <3> QED BY <2>1, <3>1, <3>2
  <2>6. Usb!ReceiptIsTrue' /\ \A r \in receipts' : r.uuid <= uuid'[r.drive]
    BY <2>1, <2>5 DEF Usb!ReceiptIsTrue
  <2> QED BY <2>3, <2>4, <2>6 DEF Usb!UsbInv
<1>12. CASE Usb!PullOut
  <2> DEFINE left == [n \in Usb!NameSet |->
                        IF files[plugged][n].synced THEN files[plugged][n] ELSE Usb!Torn]
  <2>1. /\ plugged \in Drives /\ plugged' = Usb!None
        /\ files' = [files EXCEPT ![plugged] = left]
        /\ pc \notin {"after", "eject"} /\ UNCHANGED <<pc, uuid, current, receipts, source,
                      before>>
    BY <1>0, <1>12 DEF Usb!PullOut, Usb!UsbTypes, Usb!Run
  <2>2. Usb!Torn \in Entries
    BY DEF Usb!Torn
  <2>3. left \in Usb!Files
    BY <2>1, <2>2, <1>0 DEF Usb!UsbTypes, Usb!Files
  <2>4. files' \in [Drives -> Usb!Files]
    BY <2>1, <2>3, <1>0 DEF Usb!UsbTypes
  <2>5. \A d \in Drives, n \in Usb!NameSet :
          files[d][n].synced = TRUE => files'[d][n] = files[d][n]
    BY <2>1, <1>0 DEF Usb!UsbTypes, Usb!Files
  <2>6. Usb!UsbTypes'
    BY <1>0, <2>1, <2>4 DEF Usb!UsbTypes
  <2>7. Usb!StagedIsThere'
    <3>1. pc = "receipt"
          => \A n \in Usb!NameSet : files'[Ours][n] = [of |-> source, synced |-> TRUE]
      <4>1. ASSUME pc = "receipt", NEW n \in Usb!NameSet
            PROVE  files'[Ours][n] = [of |-> source, synced |-> TRUE]
        <5>1. files[Ours][n] = [of |-> source, synced |-> TRUE]
          BY <1>0, <4>1 DEF Usb!StagedIsThere
        <5> QED BY <5>1, <2>5
      <4> QED BY <4>1
    <3> QED BY <1>0, <2>1, <3>1 DEF Usb!StagedIsThere, Usb!Identity
  <2>8. Kept
    BY <1>0, <2>1, <2>5 DEF Usb!ReceiptIsTrue
  <2> QED BY <1>1, <2>1, <2>6, <2>7, <2>8
<1>13. CASE Usb!PlugIn
  <2>1. Usb!UsbTypes' /\ Usb!StagedIsThere'
    BY <1>0, <1>13 DEF Usb!PlugIn, Usb!Disk, Usb!Run, Usb!UsbTypes, Usb!StagedIsThere,
       Usb!Identity
  <2> QED BY <1>1, <1>2, <2>1, <1>13 DEF Usb!PlugIn, Usb!Disk
<1>14. CASE Usb!NextGeneration
  <2>1. Usb!UsbTypes' /\ Usb!StagedIsThere'
    BY <1>0, <1>14 DEF Usb!NextGeneration, Usb!Bus, Usb!Disk, Usb!Run, Usb!UsbTypes,
       Usb!StagedIsThere, Usb!Identity
  <2> QED BY <1>1, <1>2, <2>1, <1>14 DEF Usb!NextGeneration, Usb!Disk
<1> QED
  BY <1>3, <1>4, <1>5, <1>6, <1>7, <1>8, <1>9, <1>10, <1>11, <1>12, <1>13, <1>14 DEF Usb!UsbNext

HIDE DrivesAssumption DEF Usb!None

-----------------------------------------------------------------------------
(* Installation on the handheld: the target gets its name when all its files are on *)
(* the disk, and only one directory has that name.                                  *)
USE RunsAssumption

LEMMA InstallBegins ==
    ASSUME Install!InstallInit PROVE Install!InstallInv
<1> DEFINE booted == x8
<1>1. Install!NoDir \in Install!Dirs /\ Install!NoDir.at # "target"
  BY DEF Install!NoDir, Install!Dirs, Install!Places, Install!Nowhere
<1>2. Install!InstallTypes /\ Install!Target = {}
  BY <1>1 DEF Install!InstallInit, Install!InstallTypes, Install!Target, Install!TargetIn
<1>3. \A f \in Install!Files : booted[f] = "absent"
  BY DEF Install!InstallInit, Install!NoDir
<1> QED
  BY <1>2, <1>3 DEF Install!InstallInit, Install!InstallInv, Install!OneTarget,
     Install!WorkIsAlone, Install!InstalledIsWhole, Install!Working, Install!Files

LEMMA InstallStepHolds ==
    ASSUME Install!InstallInv, [Install!InstallNext]_(Install!installVars)
    PROVE  Install!InstallInv'
<1> DEFINE dir == x1  disk == x2  run == x3  own == x4  pc == x5  passed == x7
           booted == x8
<1> DEFINE I == 1..MaxRuns
           Says(d, e, p) == /\ p = "installed" => \E r \in I : d[r].at = "target"
                               /\ Install!Whole(d[r])
                            /\ p = "removed" => \A r \in I : d[r].at # "target"
                            /\ p # "none" => d = e
           Loads == \A f \in {"IMAGE.GZ", "R46H.DTB"} : booted[f] \in {"absent", "whole"}
<1>0. /\ Install!InstallTypes /\ Install!WorkIsAlone /\ Says(dir, disk, passed) /\ Loads
      /\ \A r, s \in I : dir[r].at = "target" /\ dir[s].at = "target" => r = s
      /\ pc \in Install!Working \ {"installed"} => \A r \in I : dir[r].at # "target"
      /\ \A r \in I : dir[r] \in Install!Dirs /\ disk[r] \in Install!Dirs
  BY DEF Install!InstallInv, Install!InstalledIsWhole, Install!OneTarget, Install!Target,
     Install!TargetIn, Install!InstallTypes, Install!WorkIsAlone
<1>1. ASSUME Install!InstallTypes', Install!WorkIsAlone', Says(dir', disk', passed'), Loads',
             \A r, s \in I : dir'[r].at = "target" /\ dir'[s].at = "target" => r = s
      PROVE  Install!InstallInv'
  <2>1. Install!OneTarget'
    BY <1>1 DEF Install!OneTarget, Install!Target, Install!TargetIn
  <2>2. Install!InstalledIsWhole'
    <3>1. ASSUME passed' = "installed"
          PROVE  \E r \in Install!Target' : Install!Whole(dir'[r]) /\ Install!Whole(disk'[r])
      <4>1. PICK r \in I : dir'[r].at = "target" /\ Install!Whole(dir'[r]) /\ dir' = disk'
        BY <3>1, <1>1
      <4> QED BY <4>1 DEF Install!Target, Install!TargetIn
    <3>2. passed' = "removed" => Install!Target' = {}
      BY <1>1 DEF Install!Target, Install!TargetIn
    <3> QED BY <3>1, <3>2, <1>1 DEF Install!InstalledIsWhole
  <2> QED BY <1>1, <2>1, <2>2 DEF Install!InstallInv
<1>2. Install!NoDir \in Install!Dirs /\ Install!NoDir.at = "nowhere"
  BY DEF Install!NoDir, Install!Dirs, Install!Places, Install!Nowhere
<1>3. ASSUME NEW d \in Install!Dirs, NEW x \in Install!Places
      PROVE  [d EXCEPT !.at = x] \in Install!Dirs
  BY DEF Install!Dirs
<1>4. ASSUME NEW d \in Install!Dirs, NEW f \in Install!Files, NEW x \in {"absent", "whole"}
      PROVE  [d EXCEPT !.has[f] = x] \in Install!Dirs /\ [d EXCEPT !.has[f] = x].at = d.at
  BY DEF Install!Dirs
<1>5. CASE UNCHANGED Install!installVars
  <2>1. Install!InstallTypes' /\ Install!WorkIsAlone'
    BY <1>0, <1>5 DEF Install!installVars, Install!InstallTypes, Install!WorkIsAlone,
       Install!Target, Install!TargetIn, Install!Whole
  <2> QED BY <1>0, <1>1, <1>5, <2>1 DEF Install!installVars
<1>6. CASE Install!BeginInstall
  <2>1. /\ own' \in I /\ run' \in 0..MaxRuns /\ pc' = "copy" /\ passed' = "none"
        /\ dir' = [dir EXCEPT ![own'] = [Install!NoDir EXCEPT !.at = "stage"]]
        /\ \A r \in I : dir[r].at # "target"
        /\ UNCHANGED <<disk, booted>>
    BY <1>0, <1>6 DEF Install!BeginInstall, Install!Goes, Install!Target, Install!TargetIn,
       Install!InstallTypes
  <2>2. [Install!NoDir EXCEPT !.at = "stage"] \in Install!Dirs
        /\ [Install!NoDir EXCEPT !.at = "stage"].at = "stage"
    BY DEF Install!NoDir, Install!Dirs, Install!Places
  <2>3. dir' \in [I -> Install!Dirs] /\ \A r \in I : dir'[r].at # "target"
    BY <2>1, <2>2, <1>0 DEF Install!InstallTypes
  <2>4. Install!InstallTypes'
    BY <1>0, <2>1, <2>3 DEF Install!InstallTypes
  <2>5. Install!WorkIsAlone'
    BY <2>1, <2>3 DEF Install!WorkIsAlone, Install!Working, Install!Target, Install!TargetIn
  <2> QED BY <1>0, <1>1, <2>1, <2>3, <2>4, <2>5
<1>7. CASE Install!CopyFile \/ Install!RemoveFile
  <2>1. PICK f \in Install!Files,
             x \in {"absent", "whole"} : dir' = [dir EXCEPT ![own].has[f] = x]
    BY <1>7 DEF Install!CopyFile, Install!RemoveFile
  <2>2. pc \in {"copy", "unlink"} /\ UNCHANGED <<pc, disk, run, own, passed,
                booted>> /\ own \in I
        /\ passed = "none"
    BY <1>0, <1>7 DEF Install!CopyFile, Install!RemoveFile, Install!Same, Install!Told,
       Install!WorkIsAlone, Install!Working
  <2>3. dir' = [dir EXCEPT ![own] = [dir[own] EXCEPT !.has[f] = x]]
    BY <2>1
  <2>4. [dir[own] EXCEPT !.has[f] = x] \in Install!Dirs
        /\ [dir[own] EXCEPT !.has[f] = x].at = dir[own].at
    BY <1>0, <1>4, <2>2
  <2>5. dir' \in [I -> Install!Dirs] /\ \A r \in I : dir'[r].at = dir[r].at
    BY <2>3, <2>4, <1>0 DEF Install!InstallTypes
  <2>6. Install!InstallTypes'
    BY <1>0, <2>2, <2>5 DEF Install!InstallTypes
  <2>7. Install!WorkIsAlone'
    BY <1>0, <2>2, <2>5 DEF Install!WorkIsAlone, Install!Working, Install!Target,
       Install!TargetIn
  <2> QED BY <1>0, <1>1, <2>2, <2>5, <2>6, <2>7
<1>8. CASE Install!VerifyStage
  <2>1. Install!InstallTypes' /\ Install!WorkIsAlone'
    BY <1>0, <1>8 DEF Install!VerifyStage, Install!Goes, Install!Same, Install!Told,
       Install!InstallTypes, Install!WorkIsAlone, Install!Working, Install!Target,
       Install!TargetIn, Install!Whole
  <2> QED BY <1>0, <1>1, <1>8, <2>1 DEF Install!VerifyStage, Install!Told
<1>9. CASE Install!MoveStage
  <2>1. /\ pc = "move" /\ pc' = "installed" /\ dir' = [dir EXCEPT ![own].at = "target"]
        /\ UNCHANGED <<disk, run, own, passed, booted>> /\ own \in I /\ passed = "none"
        /\ Install!Whole(dir[own]) /\ \A r \in I : dir[r].at # "target"
    BY <1>0, <1>9 DEF Install!MoveStage, Install!Goes, Install!Same, Install!Told,
       Install!WorkIsAlone, Install!Working
  <2>2. [dir[own] EXCEPT !.at = "target"] \in Install!Dirs
    BY <1>0, <1>3, <2>1 DEF Install!Places
  <2>3. dir' \in [I -> Install!Dirs] /\ \A r \in I : dir'[r].at = "target" <=> r = own
    BY <2>1, <2>2, <1>0 DEF Install!InstallTypes, Install!Dirs
  <2>4. Install!Whole(dir'[own])
    BY <2>1, <1>0 DEF Install!InstallTypes, Install!Dirs, Install!Whole
  <2>5. Install!InstallTypes'
    BY <1>0, <2>1, <2>3 DEF Install!InstallTypes
  <2>6. Install!WorkIsAlone'
    BY <2>1, <2>3, <2>4 DEF Install!WorkIsAlone, Install!Working, Install!Target,
       Install!TargetIn
  <2> QED BY <1>0, <1>1, <2>1, <2>3, <2>5, <2>6
<1>10. CASE Install!SyncAll
  <2>1. /\ pc \in {"installed", "removed"} /\ pc' = "idle" /\ disk' = dir /\ passed' = pc
        /\ UNCHANGED <<dir, run, own, booted>>
    BY <1>10 DEF Install!SyncAll, Install!Same
  <2>2. pc = "installed" => own \in I /\ dir[own].at = "target" /\ Install!Whole(dir[own])
    BY <1>0 DEF Install!WorkIsAlone, Install!Target, Install!TargetIn
  <2>3. pc = "removed" => \A r \in I : dir[r].at # "target"
    BY <1>0 DEF Install!Working
  <2>4. Install!InstallTypes' /\ Install!WorkIsAlone'
    BY <1>0, <2>1 DEF Install!InstallTypes, Install!WorkIsAlone, Install!Working
  <2>5. Says(dir', disk', passed')
    BY <2>1, <2>2, <2>3
  <2> QED BY <1>0, <1>1, <2>1, <2>4, <2>5
<1>11. CASE Install!CleanupStage \/ Install!RemoveTombstone
  <2>1. /\ pc \in {"copy", "move", "unlink"} /\ pc' \in {"idle", "removed"}
        /\ dir' = [dir EXCEPT ![own] = Install!NoDir]
        /\ UNCHANGED <<disk, run, own, passed, booted>> /\ own \in I /\ passed = "none"
        /\ \A r \in I : dir[r].at # "target"
    BY <1>0, <1>11 DEF Install!CleanupStage, Install!RemoveTombstone, Install!Goes,
       Install!Same, Install!Told, Install!WorkIsAlone, Install!Working
  <2>2. dir' \in [I -> Install!Dirs] /\ \A r \in I : dir'[r].at # "target"
    BY <2>1, <1>2, <1>0 DEF Install!InstallTypes
  <2>3. Install!InstallTypes'
    BY <1>0, <2>1, <2>2 DEF Install!InstallTypes
  <2>4. Install!WorkIsAlone'
    BY <2>1, <2>2 DEF Install!WorkIsAlone, Install!Working, Install!Target, Install!TargetIn
  <2> QED BY <1>0, <1>1, <2>1, <2>2, <2>3, <2>4
<1>12. CASE Install!BeginRemove
  <2>1. PICK r \in I : /\ dir[r].at = "target" /\ own' = r
                       /\ dir' = [dir EXCEPT ![r].at = "tombstone"]
    BY <1>12 DEF Install!BeginRemove, Install!Target, Install!TargetIn
  <2>2. pc' = "unlink" /\ passed' = "none" /\ UNCHANGED <<disk, booted>> /\ run' \in 0..MaxRuns
    BY <1>0, <1>12 DEF Install!BeginRemove, Install!Goes, Install!InstallTypes
  <2>3. [dir[r] EXCEPT !.at = "tombstone"] \in Install!Dirs
    BY <1>0, <1>3 DEF Install!Places
  <2>4. dir' \in [I -> Install!Dirs] /\ \A s \in I : dir'[s].at # "target"
    BY <2>1, <2>3, <1>0 DEF Install!InstallTypes, Install!Dirs
  <2>5. Install!InstallTypes'
    BY <1>0, <2>1, <2>2, <2>4 DEF Install!InstallTypes
  <2>6. Install!WorkIsAlone'
    BY <2>1, <2>2, <2>4 DEF Install!WorkIsAlone, Install!Working, Install!Target,
       Install!TargetIn
  <2> QED BY <1>0, <1>1, <2>2, <2>4, <2>5, <2>6
<1>13. CASE Install!UBootStarts
  <2>1. /\ pc' = "idle" /\ UNCHANGED <<dir, disk, run, own, passed>> /\ Loads'
    BY <1>13 DEF Install!UBootStarts, Install!Goes, Install!Same, Install!ExactSize
  <2>2. Install!InstallTypes' /\ Install!WorkIsAlone'
    BY <1>0, <2>1 DEF Install!InstallTypes, Install!WorkIsAlone, Install!Working
  <2> QED BY <1>0, <1>1, <2>1, <2>2
<1>14. CASE Install!OrdinaryStart
  <2>1. /\ pc' = "idle" /\ UNCHANGED <<dir, disk, run, own, passed>> /\ Loads'
    BY <1>14 DEF Install!OrdinaryStart, Install!Goes, Install!Same, Install!NoDir, Install!Files
  <2>2. Install!InstallTypes' /\ Install!WorkIsAlone'
    BY <1>0, <2>1 DEF Install!InstallTypes, Install!WorkIsAlone, Install!Working
  <2> QED BY <1>0, <1>1, <2>1, <2>2
<1>15. CASE Install!PowerOff
  <2>1. /\ pc' = "off" /\ disk' = dir /\ UNCHANGED <<dir, run, own, passed, booted>>
    BY <1>15 DEF Install!PowerOff, Install!Goes, Install!Same, Install!Told
  <2>2. Install!InstallTypes' /\ Install!WorkIsAlone'
    BY <1>0, <2>1 DEF Install!InstallTypes, Install!WorkIsAlone, Install!Working
  <2> QED BY <1>0, <1>1, <2>1, <2>2
<1>16. CASE Install!Kill
  <2>1. /\ pc' = "idle" /\ UNCHANGED <<dir, disk, run, own, passed, booted>>
    BY <1>16 DEF Install!Kill, Install!Same, Install!Told
  <2>2. Install!InstallTypes' /\ Install!WorkIsAlone'
    BY <1>0, <2>1 DEF Install!InstallTypes, Install!WorkIsAlone, Install!Working
  <2> QED BY <1>0, <1>1, <2>1, <2>2
<1>17. CASE Install!PowerLoss
  <2>1. /\ pc' = "off" /\ disk' = dir' /\ UNCHANGED <<run, own, passed, booted>>
        /\ dir' \in [1..MaxRuns -> UNION {Install!Left(r) : r \in 1..MaxRuns}]
        /\ \A r \in I : dir'[r] \in Install!Left(r)
        /\ Cardinality(Install!TargetIn(dir')) <= 1
    BY <1>17, CountsAlike DEF Install!PowerLoss, Install!Same, Install!Told
  <2>2. ASSUME NEW r \in I
        PROVE  Install!Left(r) \subseteq Install!Dirs
               /\ (dir[r] = disk[r] => Install!Left(r) = {dir[r]})
    <3> DEFINE cuts == SUBSET {f \in Install!Files : dir[r].has[f] = "whole"
                               /\ disk[r].has[f] # "whole"}
               shorter(cut) == [f \in Install!Files |->
                                    IF f \in cut THEN "short" ELSE dir[r].has[f]]
               left(cut) == [dir[r] EXCEPT !.has = shorter(cut)]
    <3>1. Install!Left(r) = {disk[r]} \cup {left(cut) : cut \in cuts}
      BY DEF Install!Left
    <3>2. ASSUME NEW cut \in cuts PROVE left(cut) \in Install!Dirs
      BY <1>0 DEF Install!Dirs
    <3>3. ASSUME dir[r] = disk[r], NEW cut \in cuts PROVE left(cut) = dir[r]
      <4>1. cut = {}
        BY <3>3
      <4>2. shorter(cut) = dir[r].has
        BY <4>1, <1>0 DEF Install!Dirs
      <4> QED BY <4>2, <1>0 DEF Install!Dirs
    <3> HIDE DEF left, cuts
    <3> QED BY <3>1, <3>2, <3>3, <1>0
  <2>3. dir' \in [I -> Install!Dirs]
    <3>1. \A r \in I : dir'[r] \in Install!Dirs
      BY <2>1, <2>2
    <3> QED BY <3>1, <2>1
  <2>4. \A r, s \in I : dir'[r].at = "target" /\ dir'[s].at = "target" => r = s
    <3> DEFINE T == Install!TargetIn(dir')
    <3>1. IsFiniteSet(I) /\ T \subseteq I
      BY FS_Interval DEF Install!TargetIn
    <3>2. IsFiniteSet(T)
      BY <3>1, FS_Subset
    <3>3. \A r, s \in T : r = s
      BY <2>1, <3>2, FS_CardinalityType, FS_EmptySet, FS_Singleton, FS_RemoveElement
    <3> QED BY <3>3 DEF Install!TargetIn
  <2>5. passed # "none" => dir' = dir
    <3>1. ASSUME passed # "none" PROVE \A r \in I : dir'[r] = dir[r]
      BY <3>1, <1>0, <2>1, <2>2
    <3> QED BY <3>1, <2>3, <1>0 DEF Install!InstallTypes
  <2>6. Install!InstallTypes' /\ Install!WorkIsAlone'
    BY <1>0, <2>1, <2>3 DEF Install!InstallTypes, Install!WorkIsAlone, Install!Working
  <2> QED BY <1>0, <1>1, <2>1, <2>4, <2>5, <2>6
<1>18. CASE Install!RemountBoot
  <2>1. Install!InstallTypes' /\ Install!WorkIsAlone'
    BY <1>0, <1>18 DEF Install!RemountBoot, Install!Told, Install!InstallTypes,
       Install!WorkIsAlone, Install!Target, Install!TargetIn, Install!Whole
  <2> QED BY <1>0, <1>1, <1>18, <2>1 DEF Install!RemountBoot, Install!Told
<1> QED
  BY <1>5, <1>6, <1>7, <1>8, <1>9, <1>10, <1>11, <1>12, <1>13, <1>14, <1>15, <1>16, <1>17, <1>18
     DEF Install!InstallNext

HIDE RunsAssumption

UsbPart == part = "usb" => Usb!UsbInv
InstallPart == part = "install" => Install!InstallInv

(* For any number of drives, generations, swaps, runs of the scripts and power      *)
(* losses: what was staged is whole when its receipt says so, what install.sh left  *)
(* is whole when PASS says so, and only whole files are started                     *)
(* (stage-v11-usb-one-shot-macos.py, build-v13-mmc-one-shot.py).                    *)
THEOREM StagedFilesAreWhole == Spec => []StagedIsWhole
<1>1. Init => UsbPart /\ InstallPart
  BY UsbBegins, InstallBegins
  DEF Init, UsbPart, InstallPart
<1>2. UsbPart /\ InstallPart /\ [Next]_mcVars
      => (UsbPart /\ InstallPart)'
  BY OwnSteps, UsbStepHolds, InstallStepHolds
  DEF UsbPart, InstallPart
<1>3. UsbPart /\ InstallPart => StagedIsWhole
  BY DEF UsbPart, InstallPart, StagedIsWhole,
         Usb!UsbInv, Install!InstallInv
<1> QED
  BY <1>1, <1>2, <1>3, PTL DEF Spec

-----------------------------------------------------------------------------
(* The steps. *)
(* A builder answers PASS only for something durable and whole: the toolchain for a *)
(* release that a power loss leaves, the promotion and one-shot builders for the    *)
(* generation they validated (r46h_card_toolchain.py,                               *)
(* build-r46h-v15-boot-promotion.py, build-v11-usb-one-shot.py).                    *)
THEOREM PassesAreTrue == Spec => PassIsTrue
<1> DEFINE Parts == ToolchainPart /\ PromotionPart /\ OneShotPart
<1>1. Init => Parts
  BY ToolBegins, PromotionBegins, OneShotBegins
  DEF Init, ToolchainPart, PromotionPart, OneShotPart
<1>2. Parts /\ [Next]_mcVars => Parts'
  BY OwnSteps, ToolStepHolds, PromotionStepHolds, OneShotStepHolds
  DEF ToolchainPart, PromotionPart, OneShotPart
<1>3. Parts /\ [Next]_mcVars =>
        [/\ part = "toolchain" => Toolchain!PublishedIsDurable
         /\ part = "promotion" => Promotion!PassIsTrue
         /\ part = "one-shot" => OneShot!PassIsOfCommit]_mcVars
  BY OwnSteps, ToolPasses, PromotionPassHolds, OneShotPassHolds
  DEF ToolchainPart, PromotionPart, OneShotPart
<1> HIDE DEF Parts
<1> QED
  BY <1>1, <1>2, <1>3, PTL DEF Spec, PassIsTrue

(* The evidence of an audit stays until it is archived; the removal of the cache    *)
(* empties no directory but one that was looked at and opened as that, and a        *)
(* pruning removes no entry that came after its check of the names (what it removes *)
(* under a name may have been replaced since); a Cargo configuration that came later *)
(* is not removed; and a write of p1 that ends keeps what was saved on the card     *)
(* before it (r46h_card_macos_readonly.py, r46h_card_toolchain.py,                  *)
(* build-v09-p1-candidate.py).                                                      *)
THEOREM NothingGetsLost == Spec => NothingIsLost
<1> DEFINE Parts == AuditPart /\ CachePart /\ ToolchainPart /\ P1Part
<1>1. Init => Parts
  BY AuditBegins, TreeBegins, ToolBegins, P1Begins
  DEF Init, AuditPart, CachePart, ToolchainPart, P1Part
<1>2. Parts /\ [Next]_mcVars => Parts'
  BY OwnSteps, AuditStepHolds, TreeStepHolds, ToolStepHolds, P1StepHolds
  DEF AuditPart, CachePart, ToolchainPart, P1Part
<1>3. Parts /\ [Next]_mcVars =>
        [/\ part = "audit" => Audit!EvidenceIsKept
         /\ part = "cache" => Cache!OnlySeenRemoved
         /\ part = "toolchain" => Toolchain!ConfigKept
         /\ part = "p1" => P1!NothingLost]_mcVars
  BY OwnSteps, AuditKeepsEvidence, TreeRemovesSeen, ToolKeepsConfig, P1StepHolds
  DEF AuditPart, CachePart, ToolchainPart, P1Part
<1> HIDE DEF Parts
<1> QED
  BY <1>1, <1>2, <1>3, PTL DEF Spec, NothingIsLost
=============================================================================
