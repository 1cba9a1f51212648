-------------------------- MODULE ToolchainRelease --------------------------
(***************************************************************************)
(* The driver of the host card toolchain (scripts/r46h_card_toolchain.py): *)
(* the commands build, clean and validate-release, run by several          *)
(* processes over one repository, one or more cache roots and one release  *)
(* directory, with processes that are killed and a machine that loses      *)
(* power.                                                                  *)
(*                                                                         *)
(* A commit stands for a commit with its tree; the source scope of the     *)
(* working tree is clean or not.  A generation records the commit that its *)
(* receipt and manifest name, and the source that its binary was compiled  *)
(* from.  Directory entries made or removed since the last sync of their   *)
(* directory may or may not survive a power loss; entries of one directory *)
(* survive in the order they were made.                                    *)
(***************************************************************************)
EXTENDS Naturals, FiniteSets

CONSTANTS Procs,     \* the driver processes
          Caches,    \* the cache roots
          CacheOf,   \* the cache root that each process is given
          Commits,   \* the commits that HEAD may name
          MaxGens,   \* how many generations are ever staged (a bound of the model)
          NoOne, NoGen, Altered    \* no process, no generation, a changed source

VARIABLES head, scopeClean,      \* Git: HEAD, and whether the build scope is clean
          marker,                \* the ownership marker of each cache root
          home,                  \* what the shared Cargo home of each cache holds beside
                                 \* the registry archives and index, which stay
          lock, works,           \* operation.lock; the private work directories in use
          builds, damaged,       \* the generations in builds/, those with changed bytes
          current,               \* the generation that CURRENT names
          syncedBuilds, syncedCurrent,   \* what a power loss cannot take back
          staged,                \* how many generations were staged
          proc                   \* the state of each process

gitVars == <<head, scopeClean>>
cacheVars == <<marker, home, works>>
releaseVars == <<builds, damaged, current, syncedBuilds, syncedCurrent, staged>>
vars == <<gitVars, cacheVars, lock, releaseVars, proc>>

Generations == [n : 1 .. MaxGens, commit : Commits, binary : Commits \cup {Altered}]

Idle == [cmd |-> "none", pc |-> "idle", pin |-> NoGen, source |-> NoGen,
         gen |-> NoGen, doomed |-> {}, told |-> "failed"]

Init ==
    /\ head \in Commits /\ scopeClean = TRUE
    /\ marker = [c \in Caches |-> "absent"]
    /\ home = [c \in Caches |-> {}]
    /\ lock = [c \in Caches |-> NoOne]
    /\ works = [c \in Caches |-> {}]
    /\ builds = {} /\ damaged = {} /\ current = NoGen
    /\ syncedBuilds = {} /\ syncedCurrent = NoGen /\ staged = 0
    /\ proc = [p \in Procs |-> Idle]

(* The layout of a process: the cache root is its own choice, the environment
   may name another one; the release directory is that of the repository. *)
CacheRoot(p) == CacheOf[p]

Goto(p, pc) == proc' = [proc EXCEPT ![p].pc = pc]
At(p, cmd, pc) == proc[p].cmd = cmd /\ proc[p].pc = pc
(* An answer ends the command; only a PASS is told apart. *)
Answer(p, told) == proc' = [proc EXCEPT ![p] = [Idle EXCEPT !.told = told]]
Holds(p) == lock[CacheRoot(p)] = p

(***************************************************************************)
(* What the program decides on.                                            *)
(***************************************************************************)
CleanAt(c) == scopeClean /\ head = c

(* The files of the private snapshot are those of its manifest. *)
SnapshotIntact(p) == proc[p].source = proc[p].pin

(* The file set, the checksums, the receipt and the manifest of a generation
   agree, and the manifest is that of the clean HEAD. *)
GenerationValid(g) ==
    /\ g \in builds /\ g \notin damaged
    /\ CleanAt(g.commit)

(* CURRENT names a generation, and that generation is valid. *)
ReleaseValid(g) == current = g /\ g # NoGen /\ GenerationValid(g)

(***************************************************************************)
(* The cache root: its marker, and the operation lock.                     *)
(***************************************************************************)
Start(p, cmd) ==
    /\ proc[p].pc = "idle"
    /\ proc' = [proc EXCEPT ![p] = [Idle EXCEPT !.cmd = cmd,
                                       !.pc = IF cmd = "validate" THEN "read" ELSE "prepare"]]
    /\ UNCHANGED <<gitVars, cacheVars, lock, releaseVars>>

(* A new cache root gets its marker with O_EXCL, empty at first; an existing
   marker must be readable and name this root. *)
PrepareCache(p) ==
    LET c == CacheRoot(p) IN
    /\ proc[p].pc = "prepare"
    /\ \/ /\ marker[c] = "absent"
          /\ marker' = [marker EXCEPT ![c] = "empty"]
          /\ Goto(p, "mark")
       \/ /\ marker[c] = "valid" /\ Goto(p, "wait") /\ UNCHANGED marker
       \/ /\ marker[c] = "empty" /\ Answer(p, "failed") /\ UNCHANGED marker
    /\ UNCHANGED <<gitVars, home, works, lock, releaseVars>>

WriteMarker(p) ==
    /\ proc[p].pc = "mark"
    /\ marker' = [marker EXCEPT ![CacheRoot(p)] = "valid"]
    /\ Goto(p, "wait")
    /\ UNCHANGED <<gitVars, home, works, lock, releaseVars>>

LockOrGiveUp(p) ==
    LET c == CacheRoot(p) IN
    /\ proc[p].pc = "wait"
    /\ \/ lock[c] = NoOne /\ lock' = [lock EXCEPT ![c] = p] /\ Goto(p, "locked")
       \/ lock[c] # NoOne /\ Answer(p, "failed") /\ UNCHANGED lock
    /\ UNCHANGED <<gitVars, cacheVars, releaseVars>>

(* The exits of the two context managers: the private work directory goes,
   then the lock. *)
Leave(p, told) ==
    /\ works' = [works EXCEPT ![CacheRoot(p)] = @ \ {p}]
    /\ lock' = [lock EXCEPT ![CacheRoot(p)] = NoOne]
    /\ Answer(p, told)

(* An exception, SIGTERM among them, at any point under the lock. *)
Unwind(p) ==
    /\ Holds(p)
    /\ Leave(p, "failed")
    /\ UNCHANGED <<gitVars, marker, home, releaseVars>>

(***************************************************************************)
(* clean and validate-release.                                             *)
(***************************************************************************)
Clean(p) ==
    /\ At(p, "clean", "locked")
    /\ \E all \in BOOLEAN :
          home' = [home EXCEPT ![CacheRoot(p)] = IF all THEN {} ELSE @]
    /\ works' = [works EXCEPT ![CacheRoot(p)] = {}]
    /\ lock' = [lock EXCEPT ![CacheRoot(p)] = NoOne]
    /\ Answer(p, "failed")
    /\ UNCHANGED <<gitVars, marker, releaseVars>>

ReadCurrent(p) ==
    /\ At(p, "validate", "read")
    /\ IF current = NoGen
         THEN Answer(p, "failed")
         ELSE proc' = [proc EXCEPT ![p].pc = "check", ![p].gen = current]
    /\ UNCHANGED <<gitVars, cacheVars, lock, releaseVars>>

CheckCurrent(p) ==
    /\ At(p, "validate", "check")
    /\ Answer(p, IF GenerationValid(proc[p].gen) THEN "verified" ELSE "failed")
    /\ UNCHANGED <<gitVars, cacheVars, lock, releaseVars>>

(***************************************************************************)
(* build: the work directory, the source and the shared Cargo home.        *)
(***************************************************************************)
StartWork(p) ==
    /\ At(p, "build", "locked")
    /\ works' = [works EXCEPT ![CacheRoot(p)] = {p}]
    /\ Goto(p, "pin")
    /\ UNCHANGED <<gitVars, marker, home, lock, releaseVars>>

(* HEAD is read before the diffs that find the scope clean. *)
PinHead(p) ==
    /\ proc[p].pc = "pin"
    /\ proc' = [proc EXCEPT ![p].pc = "clean?", ![p].pin = head]
    /\ UNCHANGED <<gitVars, cacheVars, lock, releaseVars>>

PinClean(p) ==
    /\ proc[p].pc = "clean?" /\ scopeClean
    /\ Goto(p, "capture")
    /\ UNCHANGED <<gitVars, cacheVars, lock, releaseVars>>

(* The snapshot is unpacked from an archive of the pinned commit, never from
   the working tree. *)
CaptureSnapshot(p) ==
    /\ proc[p].pc = "capture"
    /\ proc' = [proc EXCEPT ![p].pc = "prune", ![p].source = proc[p].pin]
    /\ UNCHANGED <<gitVars, cacheVars, lock, releaseVars>>

(* The shared Cargo home is checked as a whole, and what is to go is listed. *)
PruneList(p) ==
    /\ proc[p].pc = "prune"
    /\ "config" \notin home[CacheRoot(p)]
    /\ proc' = [proc EXCEPT ![p].pc = "sweep", ![p].doomed = home[CacheRoot(p)]]
    /\ UNCHANGED <<gitVars, cacheVars, lock, releaseVars>>

PruneSweep(p) ==
    /\ proc[p].pc = "sweep"
    /\ home' = [home EXCEPT ![CacheRoot(p)] = @ \ proc[p].doomed]
    /\ proc' = [proc EXCEPT ![p].pc = "gates", ![p].doomed = {}]
    /\ UNCHANGED <<gitVars, marker, works, lock, releaseVars>>

(* The gates before the release build; a test may write into the snapshot.
   The private copy of the registry is theirs, and so is what they fetch. *)
RunGates(p) ==
    /\ proc[p].pc = "gates"
    /\ \E left \in {proc[p].source, Altered} :
          proc' = [proc EXCEPT ![p].pc = "compile", ![p].source = left]
    /\ UNCHANGED <<gitVars, cacheVars, lock, releaseVars>>

(* The binary is compiled from the snapshot; afterwards the live scope must
   still be the pinned one and the snapshot must be as it was captured. *)
CompileAndRecheck(p) ==
    /\ proc[p].pc = "compile"
    /\ CleanAt(proc[p].pin) /\ SnapshotIntact(p)
    /\ staged < MaxGens
    /\ staged' = staged + 1
    /\ proc' = [proc EXCEPT ![p].pc = "rename",
                   ![p].gen = [n |-> staged + 1, commit |-> proc[p].pin,
                               binary |-> proc[p].source]]
    /\ UNCHANGED <<gitVars, cacheVars, lock, builds, damaged, current,
                   syncedBuilds, syncedCurrent>>

(***************************************************************************)
(* build: publication.                                                     *)
(***************************************************************************)
(* The staged directory leaves the work directory for builds/. *)
RenameGeneration(p) ==
    /\ proc[p].pc = "rename" /\ p \in works[CacheRoot(p)]
    /\ builds' = builds \cup {proc[p].gen}
    /\ Goto(p, "sync")
    /\ UNCHANGED <<gitVars, cacheVars, lock, damaged, current, syncedBuilds,
                   syncedCurrent, staged>>

\* mutant: the directory of the generations is not synced
SyncBuildsForgotten(p) ==
    /\ proc[p].pc = "sync"
    /\ Goto(p, "verify")
    /\ UNCHANGED <<gitVars, cacheVars, lock, releaseVars>>

SyncBuilds(p) ==
    /\ proc[p].pc = "sync"
    /\ syncedBuilds' = builds
    /\ Goto(p, "verify")
    /\ UNCHANGED <<gitVars, cacheVars, lock, builds, damaged, current,
                   syncedCurrent, staged>>

VerifyGeneration(p) ==
    /\ proc[p].pc = "verify" /\ GenerationValid(proc[p].gen)
    /\ Goto(p, "swap")
    /\ UNCHANGED <<gitVars, cacheVars, lock, releaseVars>>

SwapCurrent(p) ==
    /\ proc[p].pc = "swap"
    /\ current' = proc[p].gen
    /\ Goto(p, "confirm")
    /\ UNCHANGED <<gitVars, cacheVars, lock, builds, damaged, syncedBuilds,
                   syncedCurrent, staged>>

(* os.replace failed: the new generation is taken back, unless CURRENT
   resolves to it after all. *)
SwapFails(p) ==
    /\ proc[p].pc = "swap"
    /\ builds' = IF ReleaseValid(proc[p].gen) THEN builds ELSE builds \ {proc[p].gen}
    /\ Leave(p, "failed")
    /\ UNCHANGED <<gitVars, marker, home, damaged, current, syncedBuilds,
                   syncedCurrent, staged>>

SyncCurrent(p) ==
    /\ proc[p].pc = "confirm"
    /\ syncedCurrent' = current
    /\ Goto(p, "resolve")
    /\ UNCHANGED <<gitVars, cacheVars, lock, builds, damaged, current,
                   syncedBuilds, staged>>

(* CURRENT must resolve to the new generation; the others are listed. *)
ConfirmRelease(p) ==
    /\ proc[p].pc = "resolve" /\ ReleaseValid(proc[p].gen)
    /\ proc' = [proc EXCEPT ![p].pc = "remove", ![p].doomed = builds \ {proc[p].gen}]
    /\ UNCHANGED <<gitVars, cacheVars, lock, releaseVars>>

RemoveOld(p) ==
    /\ proc[p].pc = "remove"
    /\ \E g \in proc[p].doomed :
          /\ builds' = builds \ {g}
          /\ proc' = [proc EXCEPT ![p].doomed = @ \ {g}]
    /\ UNCHANGED <<gitVars, cacheVars, lock, damaged, current, syncedBuilds,
                   syncedCurrent, staged>>

Published(p) ==
    /\ proc[p].pc = "remove" /\ proc[p].doomed = {}
    /\ Leave(p, "published")
    /\ UNCHANGED <<gitVars, marker, home, releaseVars>>

(***************************************************************************)
(* The world around the driver.                                            *)
(***************************************************************************)
(* The developer edits, reverts and commits. *)
Develop ==
    /\ \/ scopeClean' = ~scopeClean /\ UNCHANGED head
       \/ ~scopeClean /\ scopeClean' = TRUE /\ head' \in Commits \ {head}
    /\ UNCHANGED <<cacheVars, lock, releaseVars, proc>>

(* A cargo run by hand, with the environment that the env command prints,
   leaves extracted sources or a configuration in the shared home. *)
DirectCargo(c) ==
    /\ marker[c] = "valid"
    /\ \E what \in {"config", "extracted"} : home' = [home EXCEPT ![c] = @ \cup {what}]
    /\ UNCHANGED <<gitVars, marker, works, lock, releaseVars, proc>>

(* Bytes of one generation change on the disk. *)
Damage ==
    /\ damaged = {}
    /\ \E g \in builds : damaged' = {g}
    /\ UNCHANGED <<gitVars, cacheVars, lock, builds, current, syncedBuilds,
                   syncedCurrent, staged, proc>>

(* kill -9: the operating system releases the lock, the files stay.  A work directory
   whose process is gone is not in works: the next build removes it unread. *)
Kill(p) ==
    /\ proc[p].pc # "idle"
    /\ lock' = [c \in Caches |-> IF lock[c] = p THEN NoOne ELSE lock[c]]
    /\ works' = [c \in Caches |-> works[c] \ {p}]
    /\ Answer(p, "failed")
    /\ UNCHANGED <<gitVars, marker, home, releaseVars>>

PowerLoss ==
    /\ \E p \in Procs : proc[p].pc # "idle"
    /\ lock' = [c \in Caches |-> NoOne]
    /\ proc' = [p \in Procs |-> Idle]
    /\ \E lost \in SUBSET (builds \ syncedBuilds), back \in SUBSET (syncedBuilds \ builds) :
          builds' = (builds \ lost) \cup back
    /\ current' \in {current, syncedCurrent}
    /\ syncedBuilds' = builds' /\ syncedCurrent' = current'
    /\ works' = [c \in Caches |-> {}]
    /\ UNCHANGED <<gitVars, marker, home, damaged, staged>>

Driver(p) ==
    \/ \E cmd \in {"build", "clean", "validate"} : Start(p, cmd)
    \/ PrepareCache(p) \/ WriteMarker(p) \/ LockOrGiveUp(p) \/ Unwind(p)
    \/ Clean(p) \/ ReadCurrent(p) \/ CheckCurrent(p)
    \/ StartWork(p) \/ PinHead(p) \/ PinClean(p) \/ CaptureSnapshot(p)
    \/ PruneList(p) \/ PruneSweep(p) \/ RunGates(p) \/ CompileAndRecheck(p)
    \/ RenameGeneration(p) \/ SyncBuilds(p) \/ VerifyGeneration(p)
    \/ SwapCurrent(p) \/ SwapFails(p) \/ SyncCurrent(p) \/ ConfirmRelease(p)
    \/ RemoveOld(p) \/ Published(p) \/ Kill(p)

Next ==
    \/ \E p \in Procs : Driver(p)
    \/ Develop \/ Damage \/ PowerLoss
    \/ \E c \in Caches : DirectCargo(c)

Spec == Init /\ [][Next]_vars

-----------------------------------------------------------------------------
(* CURRENT never names a generation that is not there, whatever was killed
   and whenever the power went: a reader that enters through CURRENT finds a
   whole release once there is one. *)
CurrentResolves == current # NoGen => current \in builds

(* What CURRENT names was compiled from the commit that its receipt names,
   though HEAD moves and the gates may write into the snapshot. *)
CurrentIsItsSource == current # NoGen => current.binary = current.commit

(* While a build runs, nobody removes its private work directory: the driver
   that empties work/ relies on the lock for that. *)
PeerWorkKept ==
    \A p \in Procs : Holds(p) /\ proc[p].cmd = "build" /\ proc[p].pc # "locked"
                        => p \in works[CacheRoot(p)]

(* Of every step: a build that answers PASS leaves a release that survives a power loss. *)
PublishedIsDurable ==
    \A p \in Procs : proc'[p].told = "published" /\ proc[p].told # "published"
        => /\ syncedCurrent = proc[p].gen
           /\ proc[p].gen \in builds \cap syncedBuilds

(* Of every step: pruning never sweeps a Cargo configuration that appeared while it ran:
   only clean --all empties the shared home. *)
ConfigKept ==
    \A c \in Caches : "config" \in home[c] /\ "config" \notin home'[c]
        => home'[c] = {} /\ \E p \in Procs : At(p, "clean", "locked")

(* What is in builds/, or would be back after a power loss, was compiled from its
   commit; CURRENT stays there, on the disk and in what is shown of it; and the one
   that holds the lock publishes a generation that nobody else names.           *)
UnderLock == {"locked", "pin", "clean?", "capture", "prune", "sweep", "gates", "compile", "rename",
              "sync", "verify", "swap", "confirm", "resolve", "remove"}
Named(g) == current = g \/ syncedCurrent = g
TrueBinary(g) == g.binary = g.commit /\ g.n \in 1 .. staged

Typed ==
    /\ staged \in Nat
    /\ {DOMAIN home, DOMAIN lock, DOMAIN works, DOMAIN marker} = {Caches} /\ DOMAIN proc = Procs
    /\ \A p \in Procs : DOMAIN proc[p] = DOMAIN Idle

Stored ==
    /\ \A g \in builds \cup syncedBuilds : TrueBinary(g)
    /\ \A g \in {current, syncedCurrent} \ {NoGen} : g \in builds \cap syncedBuilds

JobHolds(p) ==
    LET job == proc[p] IN
    /\ job.pc \in {"idle", "prepare", "mark", "wait", "read", "check"} \cup UnderLock
    /\ job.pc \in UnderLock <=> Holds(p)
    /\ job.pc \in UnderLock \ {"locked"} => job.cmd = "build" /\ p \in works[CacheRoot(p)]
    /\ job.pc = "sweep" => "config" \notin job.doomed
    /\ job.pc \in {"rename", "sync", "verify", "swap"} =>
         TrueBinary(job.gen) /\ (job.gen # NoGen => ~Named(job.gen))
    /\ job.pc \in {"sync", "verify", "swap", "confirm", "resolve", "remove"} => job.gen \in builds
    /\ job.pc \in {"verify", "swap", "confirm", "resolve", "remove"} => job.gen \in syncedBuilds
    /\ job.pc \in {"confirm", "resolve", "remove"} => current = job.gen
    /\ job.pc \in {"resolve", "remove"} => syncedCurrent = job.gen
    /\ job.pc = "remove" => job.gen \notin job.doomed

ToolInv == Typed /\ Stored /\ \A p \in Procs : JobHolds(p)
=============================================================================
