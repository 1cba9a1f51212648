----------------------------- MODULE PromotionBuild -----------------------------
(* scripts/build-r46h-v15-boot-promotion.py, its successor -v16- and the
   configuration -v17- of the latter: the builders of the BOOT promotion payload.
   A builder captures the committed sources with one git command per file,
   composes and checks an archive in a private directory, renames the finished
   generation into builds/, replaces the CURRENT pointer and then validates the
   generation CURRENT names.  There is no lock: builders, validators, commits and
   edits interleave; a process can be killed and the power can fail.  No directory
   is synced, so a power loss may take the rename or the pointer alone.        *)
EXTENDS FiniteSets, Naturals

CONSTANTS Versions,     \* subset of {"v15", "v16", "v17"}: whose builder runs
          Builders,     \* processes
          Commits,      \* commits; each changes every source file
          Files,        \* source files of the payload
          MaxMoves,     \* bound: commits made and files edited meanwhile
          MaxFaults,    \* bound: kills and power losses
          MaxBuilds     \* bound: different generations that are ever published

None  == "none"
Dirty == "dirty"

VARIABLES v,         \* the builder version of this release root
          head,      \* commit HEAD names
          live,      \* [Files -> Commits or Dirty]: the working tree
          replaced,  \* frozen inputs that are no longer the pinned files
          pc,        \* [Builders -> step]
          commit,    \* [Builders -> commit read with rev-parse]
          blobs,     \* [Builders -> captured file -> commit of its blob]
          builds,    \* generations in builds/: sets of [commit, blobs]
          torn,      \* generations a power loss left incomplete
          loose,     \* generations published since: a power loss may yet take them
          lost,      \* generations it took from builds/, and nobody published again
          current,   \* generation CURRENT names, or NoGeneration
          pointer,   \* generation CURRENT names on the medium
          looked,    \* [Builders -> the generation it validates]
          passed,    \* [Builders -> it printed PASS]
          moves, faults

buildVars == <<v, head, live, replaced, pc, commit, blobs, builds, torn, loose, lost, current,
               pointer, looked, passed, moves, faults>>

\* The frozen inputs a builder compares with its pinned sizes and digests.
V15Inputs == {"kernel", "fallback", "modules"}
V16Inputs == {"candidate", "rootfs"}
V17Inputs == V16Inputs        \* other names and digests, through the same functions

Inputs(version) ==
  CASE version = "v15" -> V15Inputs [] version = "v16" -> V16Inputs [] version = "v17" -> V17Inputs

\* Render is what the builder makes of a source blob: v0.17 rewrites the two
\* scripts of v0.16 with its own constants, v0.16 takes them as they are.
Render(version, file, blob) == [file |-> file, of |-> blob, rewritten |-> version = "v17"]

\* The archive is a function of the payload: same sources, same archive.
V15Payload(captured) ==
  {[file |-> f, of |-> captured[f], rewritten |-> FALSE] : f \in DOMAIN captured}
Payload(version, captured) ==
  IF version = "v15" THEN V15Payload(captured)
  ELSE {Render(version, f, captured[f]) : f \in DOMAIN captured}

Nothing      == [f \in {} |-> None]
NoGeneration == [commit |-> None, payload |-> {}]

BuildInit ==
  /\ v \in Versions
  /\ head \in Commits
  /\ live = [f \in Files |-> head]
  /\ replaced = {}
  /\ pc = [b \in Builders |-> "start"]
  /\ commit = [b \in Builders |-> None]
  /\ blobs = [b \in Builders |-> Nothing]
  /\ builds = {} /\ torn = {} /\ loose = {} /\ lost = {}
  /\ current = NoGeneration /\ pointer = NoGeneration
  /\ looked = [b \in Builders |-> NoGeneration]
  /\ passed = [b \in Builders |-> FALSE]
  /\ moves = 0 /\ faults = 0

Move(b, from, to) == pc[b] = from /\ pc' = [pc EXCEPT ![b] = to]
\* A process that ends takes along what it had captured and looked at.
Exit(ended, verdict) ==
  /\ pc' = [b \in Builders |-> IF b \in ended THEN "end" ELSE pc[b]]
  /\ commit' = [b \in Builders |-> IF b \in ended THEN None ELSE commit[b]]
  /\ blobs' = [b \in Builders |-> IF b \in ended THEN Nothing ELSE blobs[b]]
  /\ looked' = [b \in Builders |-> IF b \in ended THEN NoGeneration ELSE looked[b]]
  /\ passed' = [b \in Builders |-> IF b \in ended THEN verdict ELSE passed[b]]
Repo     == <<v, head, live, replaced, moves>>
Release  == <<builds, torn, loose, lost, current, pointer>>
Captured == <<commit, blobs>>
Checked  == <<looked, passed>>

-----------------------------------------------------------------------------
(* capture_clean_source: one git command after the other. *)

RequireClean(b) ==
  /\ \A f \in Files : live[f] = head
  /\ Move(b, "start", "rev")
  /\ UNCHANGED <<Repo, Release, Captured, Checked, faults>>

ReadCommit(b) ==
  /\ Move(b, "rev", "capture")
  /\ commit' = [commit EXCEPT ![b] = head]
  /\ UNCHANGED <<Repo, Release, blobs, Checked, faults>>

\* Each file is read from HEAD as it is by then, and compared with the live one.
CaptureFile(b) ==
  /\ pc[b] = "capture"
  /\ \E f \in Files \ DOMAIN blobs[b] :
       /\ live[f] = head
       /\ blobs' = [blobs EXCEPT ![b] =
            [g \in DOMAIN blobs[b] \cup {f} |-> IF g = f THEN head ELSE blobs[b][g]]]
  /\ UNCHANGED <<pc, commit, Repo, Release, Checked, faults>>

KernelBundle    == "kernel" \notin replaced
FallbackBundle  == "fallback" \notin replaced
ProductModules  == "modules" \notin replaced
FrozenCandidate == "candidate" \notin replaced
RootfsContract  == "rootfs" \notin replaced

\* The constants in the captured scripts are those of the inputs: of the files, the
\* boot script and the helpers are pinned, so only the other scripts may differ.
InputsPinned ==
  IF v = "v15" THEN KernelBundle /\ FallbackBundle /\ ProductModules
  ELSE FrozenCandidate /\ RootfsContract

VerifyInputs(b) ==
  /\ DOMAIN blobs[b] = Files /\ InputsPinned
  /\ Move(b, "capture", "publish")
  /\ UNCHANGED <<Captured, Repo, Release, Checked, faults>>

\* Composed in a private directory; its name is made of the commit and the digest
\* of the archive, so equal generations have one name.
Generation(b) == [commit |-> commit[b], payload |-> Payload(v, blobs[b])]

\* Anything refused so far leaves no trace but the private directory's removal.
Refuse(b) ==
  /\ pc[b] \in {"start", "capture", "publish"}
  /\ \/ pc[b] = "start" /\ \E f \in Files : live[f] # head
     \/ pc[b] = "capture" /\ (~InputsPinned \/ \E f \in Files \ DOMAIN blobs[b] : live[f] # head)
     \/ pc[b] = "publish" /\ Generation(b) \in builds
  /\ Exit({b}, FALSE)
  /\ UNCHANGED <<Repo, Release, faults>>

-----------------------------------------------------------------------------
(* publish_generation: the rename, then the pointer; nothing is locked. *)

RenameStage(b) ==
  /\ Generation(b) \notin builds
  /\ Cardinality(builds \cup lost \cup {Generation(b)}) <= MaxBuilds
  /\ Move(b, "publish", "point")
  /\ builds' = builds \cup {Generation(b)}
  /\ loose' = loose \cup {Generation(b)} /\ lost' = lost \ {Generation(b)}
  /\ UNCHANGED <<Captured, Repo, torn, current, pointer, Checked, faults>>

ReplaceCurrent(b) ==
  /\ Move(b, "point", "validate")
  /\ current' = Generation(b)
  /\ UNCHANGED <<Captured, Repo, builds, torn, loose, lost, pointer, Checked, faults>>

-----------------------------------------------------------------------------
(* validate_generation, after a build or on its own. *)

BeginValidate(b) ==
  /\ Move(b, "start", "validate")
  /\ UNCHANGED <<Captured, Repo, Release, Checked, faults>>

ReadCurrent(b) ==
  /\ current # NoGeneration
  /\ Move(b, "validate", "inspect")
  /\ looked' = [looked EXCEPT ![b] = current]
  /\ UNCHANGED <<Captured, Repo, Release, passed, faults>>

\* mutant: the generation's checksums are not compared
Named(g) == g \in builds

\* The bytes agree with the generation's own manifests.
WholeGeneration(g) == g \in builds \ torn

\* Since v0.16 every payload file is rendered again from the commit of the receipt.
PayloadOfCommit(g) == g.payload = Payload(v, [f \in Files |-> g.commit])

V15Accepts(g) == WholeGeneration(g)
Accepts(g)    == IF v = "v15" THEN V15Accepts(g) ELSE WholeGeneration(g) /\ PayloadOfCommit(g)

Validate(b) ==
  /\ pc[b] = "inspect" /\ Accepts(looked[b])
  /\ Exit({b}, TRUE)
  /\ UNCHANGED <<Repo, Release, faults>>

ValidateRefuses(b) ==
  /\ \/ pc[b] = "validate" /\ current = NoGeneration
     \/ pc[b] = "inspect" /\ ~Accepts(looked[b])
  /\ Exit({b}, FALSE)
  /\ UNCHANGED <<Repo, Release, faults>>

-----------------------------------------------------------------------------
(* The repository and the host. *)

Commit ==
  /\ moves < MaxMoves /\ moves' = moves + 1
  /\ \E c \in Commits \ {head} : head' = c /\ live' = [f \in Files |-> c]
  /\ UNCHANGED <<v, replaced, pc, Captured, Release, Checked, faults>>

Edit ==
  /\ moves < MaxMoves /\ moves' = moves + 1
  /\ \/ \E f \in Files : live' = [live EXCEPT ![f] = Dirty] /\ UNCHANGED replaced
     \/ \E i \in Inputs(v) \ replaced : replaced' = replaced \cup {i} /\ UNCHANGED live
  /\ UNCHANGED <<v, head, pc, Captured, Release, Checked, faults>>

Kill == \E b \in Builders :
  /\ faults < MaxFaults /\ faults' = faults + 1
  /\ pc[b] # "end" /\ Exit({b}, FALSE)
  /\ UNCHANGED <<Repo, Release>>

\* v0.15 writes its archive without a sync; the others sync every file.
ByteLoss == IF v = "v15" THEN loose ELSE {}

\* The system writes the pointer back when it likes (of interest while power may fail).
WriteBack ==
  /\ faults < MaxFaults /\ pointer # current /\ pointer' = current
  /\ UNCHANGED <<Repo, pc, Captured, Checked, builds, torn, loose, lost, current, faults>>

\* A generation that was renamed since the last loss may be gone from builds/ or,
\* of v0.15, be there in part; CURRENT names again what it names on the medium.
PowerLoss ==
  /\ faults < MaxFaults /\ faults' = faults + 1
  /\ Exit(Builders, FALSE)
  /\ \E gone \in SUBSET loose : \E broken \in SUBSET (ByteLoss \ gone) :
       /\ builds' = builds \ gone /\ lost' = lost \cup gone
       /\ torn' = torn \cup broken
  /\ loose' = {} /\ current' = pointer
  /\ UNCHANGED <<Repo, pointer>>

\* A later invocation by the same operator.
Again(b) ==
  /\ Move(b, "end", "start")
  /\ passed' = [passed EXCEPT ![b] = FALSE]
  /\ UNCHANGED <<Captured, Repo, Release, looked, faults>>

BuilderStep(b) ==
  \/ RequireClean(b) \/ ReadCommit(b) \/ CaptureFile(b) \/ VerifyInputs(b) \/ Refuse(b)
  \/ RenameStage(b) \/ ReplaceCurrent(b) \/ BeginValidate(b) \/ ReadCurrent(b)
  \/ Validate(b) \/ ValidateRefuses(b) \/ Again(b)

BuildNext == Commit \/ Edit \/ Kill \/ WriteBack \/ PowerLoss \/ \E b \in Builders : BuilderStep(b)

BuildSpec == BuildInit /\ [][BuildNext]_buildVars

-----------------------------------------------------------------------------
(* Of every step: PASS means that the generation that was validated is whole, and since v0.16
   that its payload is the rendering of one commit: the sources are captured with
   one command per file while commits are made, and the pointer may be another
   builder's by the time it is read.                                          *)
PassIsTrue ==
  \A b \in Builders : ~passed[b] /\ passed'[b] =>
    /\ looked[b] \in builds \ torn
    /\ v # "v15" => PayloadOfCommit(looked[b])

(* CURRENT names a generation in builds/, whichever builders race and wherever one
   of them is killed; only a power loss can leave it naming one that is gone, and
   only one that it took itself, until that generation is published again.     *)
CurrentIsPublished == current # NoGeneration => current \in builds \cup lost

(* A builder that is about to set the pointer has published what it will name; what
   CURRENT may go back to was published, too.                                  *)
PromotionInv ==
  /\ {DOMAIN pc, DOMAIN commit, DOMAIN blobs, DOMAIN passed} = {Builders}
  /\ \A b \in Builders : pc[b] = "point" => Generation(b) \in builds
  /\ pointer # NoGeneration => pointer \in builds \cup lost
  /\ CurrentIsPublished
=============================================================================
