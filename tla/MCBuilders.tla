----------------------------- MODULE MCBuilders -----------------------------
(***************************************************************************)
(* The programs on the developer's machine that make, check and stage what *)
(* goes on the card: the card toolchain and its cache, the audit launcher, *)
(* the bundle generator, the release, candidate, promotion and one-shot    *)
(* builders, USB staging and p3 recovery.  They share nothing while they   *)
(* run, so one model checks one program at a time: part names it, and the  *)
(* variables x1, x2, ... are its variables in the order of its module.     *)
(***************************************************************************)
EXTENDS Naturals, FiniteSets, TLC

CONSTANTS
    Builders,        \* the processes of a builder that run at the same time
    Revisions,       \* the commits of the repository
    Nil, Altered,    \* nothing yet; a changed source
    MaxGens,         \* toolchain, promotion: generations that are ever staged, published
    EntryNames,      \* cache: the entries of the directory that is copied
    MaxMeddling,     \* cache: how often others change it
    ToolVersions, Cards, Fitting, Disks, External,   \* audit: see ReadonlyAudit
    MaxAudits,       \* audit: starts of the launcher with one audit id
    MaxChanges,      \* audit: changes of the world, per kind
    Heads, PackageVersions, CommitIn, ReleaseIn,     \* bundle: see EasyromsBundle
    BaselineCommit, CurrentRelease, FallbackRelease,
    MaxBlocks, MaxHeaders, MaxMembers,               \* package: see PackageCanon
    TreeNames, MaxDepth,
    Releasers,       \* release: the builder processes
    MaxEdits,        \* release: changes of the input files
    KernelBundles,   \* p1: what the bundle directory may hold
    MaxCardEdits,    \* p1: replacements of a file or directory
    PayloadFiles,    \* promotion: the source files of the payload
    MaxMoves, MaxBuildFaults,    \* promotion and one-shot: commits and edits; kills and losses
    Drives, Ours, UsbGenerations, \* usb: see UsbStage
    MaxSwaps, MaxFormats,
    MaxRuns, MaxInstallFaults,   \* install: starts of a script; kills, full disks, losses
    Payloads,                    \* p3: the payload bundles of the configuration
    MaxCommits, MaxRecoveryFaults    \* p3: commits on the branch; moves, kills and losses

VARIABLES
    part,   \* the program that runs
    x1, x2, x3, x4, x5, x6, x7, x8, x9, x10, x11, x12, x13, x14, x15, x16, x17   \* its variables

mcVars == <<part, x1, x2, x3, x4, x5, x6, x7, x8, x9, x10, x11, x12, x13, x14, x15, x16, x17>>

\* What the manifest of each kernel package names, in the instance that is checked.
CommitsOfThree == [v1 |-> "h1", v2 |-> "h1", v3 |-> "h2"]
ReleasesOfThree == [v1 |-> "r1", v2 |-> "r2", v3 |-> "current"]

\* All driver processes are given the default cache root.
CacheRoots == {"default"}
RootOf == [b \in Builders |-> "default"]

\* Whose promotion and one-shot builders there are.
PromotionVersions == {"v15", "v16", "v17"}
OneShotVersions == {"v11", "v13", "v14", "v16", "v17"}

\* Builders are interchangeable; so are commits, none is named.
Interchangeable == Permutations(Builders) \cup Permutations(Revisions)

Toolchain == INSTANCE ToolchainRelease WITH
  Procs <- Builders, Caches <- CacheRoots, CacheOf <- RootOf,
  Commits <- Revisions, MaxGens <- MaxGens, NoOne <- Nil, NoGen <- Nil,
  Altered <- Altered,
  head <- x1, scopeClean <- x2, marker <- x3, home <- x4, lock <- x5, works <- x6,
  builds <- x7, damaged <- x8, current <- x9, syncedBuilds <- x10,
  syncedCurrent <- x11, staged <- x12, proc <- x13

Cache == INSTANCE CacheTree WITH
  Names <- EntryNames, MaxMeddling <- MaxMeddling,
  kind <- x1, inode <- x2, version <- x3, mounted <- x4, foreignLost <- x5,
  dirVersion <- x6, meddling <- x7, job <- x8, step <- x9, todo <- x10, seen <- x11,
  half <- x12, copied <- x13, stocked <- x14, pinned <- x15, fixed <- x16

Audit == INSTANCE ReadonlyAudit WITH
  ToolVersions <- ToolVersions, Cards <- Cards, Fitting <- Fitting,
  Disks <- Disks, External <- External, Absent <- Nil,
  MaxAudits <- MaxAudits, MaxChanges <- MaxChanges,
  workspace <- x1, reader <- x2, mounted <- x3, changes <- x4, audit <- x5,
  launcher <- x6, bootstrap <- x7, evidence <- x8, archives <- x9

Bundle == INSTANCE EasyromsBundle WITH
  Builders <- Builders, Heads <- Heads, PackageVersions <- PackageVersions,
  CommitIn <- CommitIn, ReleaseIn <- ReleaseIn, BaselineCommit <- BaselineCommit,
  CurrentRelease <- CurrentRelease, FallbackRelease <- FallbackRelease, NoBundle <- Nil,
  repoHead <- x1, repoClean <- x2, packageFile <- x3, bundleDir <- x4,
  bundleTar <- x5, gen <- x6

Package == INSTANCE PackageCanon WITH
  MaxBlocks <- MaxBlocks, MaxHeaders <- MaxHeaders, MaxMembers <- MaxMembers,
  TreeNames <- TreeNames, MaxDepth <- MaxDepth,
  task <- x1, tar <- x2, pos <- x3, longName <- x4, headers <- x5, members <- x6,
  verdict <- x7, files <- x8, stack <- x9, order <- x10

Release == INSTANCE FirstRelease WITH
  Builders <- Releasers, MaxEdits <- MaxEdits, NoRelease <- Nil,
  inputs <- x1, headMoved <- x2, builder <- x3, generation <- x4, validator <- x5, passed <- x6

P1 == INSTANCE P1Candidate WITH
  Bundles <- KernelBundles, MaxEdits <- MaxCardEdits, NoImage <- Nil,
  card <- x1, deployed <- x2, clone <- x3, bundle <- x4, maker <- x5,
  candidate <- x6, plan <- x7, write <- x8

Promotion == INSTANCE PromotionBuild WITH
  Versions <- PromotionVersions, Builders <- Builders, Commits <- Revisions,
  Files <- PayloadFiles, MaxMoves <- MaxMoves, MaxFaults <- MaxBuildFaults,
  MaxBuilds <- MaxGens,
  v <- x1, head <- x2, live <- x3, replaced <- x4, pc <- x5, commit <- x6,
  blobs <- x7, builds <- x8, torn <- x9, loose <- x10, current <- x11,
  looked <- x12, passed <- x13, moves <- x14, faults <- x15, lost <- x16, pointer <- x17

OneShot == INSTANCE OneShotBuild WITH
  Versions <- OneShotVersions, Builders <- Builders,
  Commits <- Revisions, MaxMoves <- MaxMoves, MaxFaults <- MaxBuildFaults,
  v <- x1, head <- x2, live <- x3, package <- x4, pc <- x5, commit <- x6,
  entries <- x7, source <- x8, made <- x9, releases <- x10, torn <- x11,
  loose <- x12, current <- x13, looked <- x14, passed <- x15, moves <- x16,
  faults <- x17

Usb == INSTANCE UsbStage WITH
  Drives <- Drives, Ours <- Ours, Generations <- UsbGenerations,
  MaxSwaps <- MaxSwaps, MaxFormats <- MaxFormats,
  plugged <- x1, files <- x2, doubles <- x3, uuid <- x4, current <- x5, pc <- x6,
  source <- x7, before <- x8, copied <- x9, receipts <- x10, swaps <- x11

Install == INSTANCE OneShotInstall WITH
  MaxRuns <- MaxRuns, MaxFaults <- MaxInstallFaults,
  dir <- x1, disk <- x2, run <- x3, own <- x4, pc <- x5, bootRw <- x6, passed <- x7,
  booted <- x8, faults <- x9

P3 == INSTANCE P3Recovery WITH
  Builders <- Builders, Payloads <- Payloads, MaxCommits <- MaxCommits,
  MaxFaults <- MaxRecoveryFaults,
  head <- x1, clean <- x2, live <- x3, pinned <- x4, job <- x5, artifact <- x6,
  durable <- x7, plans <- x8, faults <- x9, planner <- x10

\* Nil is none of the things that may be there, and names that stand for nothing
\* or for a torn file name no drive and no generation.
ASSUME NilAssumption ==
    /\ Nil \notin Builders \cup {"complete", "failed"}
    /\ Nil \notin Bundle!Bundles /\ Nil \notin Release!Releases
ASSUME AuditsAssumption == MaxAudits \in Nat \ {0}
ASSUME BudgetsAssumption ==
    /\ MaxBlocks \in Nat /\ MaxHeaders \in Nat /\ MaxMembers \in Nat
    /\ TreeNames \subseteq Nat /\ IsFiniteSet(TreeNames) /\ MaxDepth \in Nat
ASSUME DrivesAssumption ==
    /\ Ours \in Drives /\ "none" \notin Drives
    /\ UsbGenerations \cap {"none", "torn"} = {}
ASSUME RunsAssumption == MaxRuns \in Nat
ASSUME CommitsAssumption == MaxCommits \in Nat

\* The slots that a program with fewer variables leaves alone.
From14 == <<x14, x15, x16, x17>>
From12 == <<x12, x13, From14>>
From11 == <<x11, From12>>
From10 == <<x10, From11>>
From9 == <<x9, From10>>
From7 == <<x7, x8, From9>>

Idle17 == x17 = 0
Idle14 == x14 = 0 /\ x15 = 0 /\ x16 = 0 /\ Idle17
Idle12 == x12 = 0 /\ x13 = 0 /\ Idle14
Idle11 == x11 = 0 /\ Idle12
Idle10 == x10 = 0 /\ Idle11
Idle9 == x9 = 0 /\ Idle10
Idle7 == x7 = 0 /\ x8 = 0 /\ Idle9

\* The tools of the audit are interchangeable; it starts with the first one.
First(S) == CHOOSE e \in S : TRUE

Init ==
    \/ part = "toolchain" /\ Toolchain!Init /\ Idle14
    \/ part = "cache" /\ Cache!TreeInit /\ Idle17
    \/ part = "audit" /\ Audit!AuditInit /\ x1 = First(ToolVersions) /\ Idle10
    \/ part = "bundle" /\ Bundle!BundleInit /\ Idle7
    \/ part = "package" /\ Package!CanonInit /\ Idle11
    \/ part = "release" /\ Release!ReleaseInit /\ Idle7
    \/ part = "p1" /\ P1!CandidateInit /\ Idle9
    \/ part = "promotion" /\ Promotion!BuildInit
    \/ part = "one-shot" /\ OneShot!OneShotInit
    \/ part = "usb" /\ Usb!UsbInit /\ Idle12
    \/ part = "install" /\ Install!InstallInit /\ Idle10
    \/ part = "p3" /\ P3!P3Init /\ Idle11

ToolchainStep == part = "toolchain" /\ Toolchain!Next /\ UNCHANGED <<part, From14>>
CacheStep == part = "cache" /\ Cache!TreeNext /\ UNCHANGED <<part, x17>>
AuditStep == part = "audit" /\ Audit!AuditNext /\ UNCHANGED <<part, From10>>
BundleStep == part = "bundle" /\ Bundle!BundleNext /\ UNCHANGED <<part, From7>>
PackageStep == part = "package" /\ Package!CanonNext /\ UNCHANGED <<part, From11>>
ReleaseStep == part = "release" /\ Release!ReleaseNext /\ UNCHANGED <<part, From7>>
P1Step == part = "p1" /\ P1!CandidateNext /\ UNCHANGED <<part, From9>>
PromotionStep == part = "promotion" /\ Promotion!BuildNext /\ UNCHANGED part
OneShotStep == part = "one-shot" /\ OneShot!OneShotNext /\ UNCHANGED part
UsbStep == part = "usb" /\ Usb!UsbNext /\ UNCHANGED <<part, From12>>
InstallStep == part = "install" /\ Install!InstallNext /\ UNCHANGED <<part, From10>>
P3Step == part = "p3" /\ P3!P3Next /\ UNCHANGED <<part, From11>>

Next == ToolchainStep \/ CacheStep \/ AuditStep \/ BundleStep \/ PackageStep \/ ReleaseStep \/
        P1Step \/ PromotionStep \/ OneShotStep \/ UsbStep \/ InstallStep \/ P3Step

Spec == Init /\ [][Next]_mcVars

-----------------------------------------------------------------------------
(* The card toolchain: CURRENT names a generation that is there and that was
   compiled from the commit in its receipt, and no process empties the work
   directory under another's build, whatever is killed, when the power goes and
   although HEAD moves and the gates write (r46h_card_toolchain.py). *)
ToolchainHolds ==
    part = "toolchain" =>
        Toolchain!CurrentResolves /\ Toolchain!CurrentIsItsSource /\ Toolchain!PeerWorkKept

(* A copy of the cache is whole, and nothing mounted inside the cache is deleted,
   although others write, replace and mount between the look at an entry, its opening
   and its removal by name (r46h_card_toolchain.py). *)
CacheTreeHolds == part = "cache" => Cache!ForeignKept /\ Cache!CopyIsWhole

(* An archive with HANDOFF-COMPLETE has every file that its manifest names and is
   the audit of the selected card by the bound tool, also after a power loss and
   in the second run of one audit id (r46h_card_macos_readonly.py). *)
HandoffIsTrue == part = "audit" => Audit!HandoffIsTrue

(* Two generators that race for one build id leave a directory and an archive of
   the same bundle, made of one package built from the bound commit; of a package,
   the block scan accepts exactly the canonical archives, and the stack of pending
   children gives the order of the tree walk (generate-easyroms-bundle.py). *)
BundleHolds ==
    /\ part = "bundle" => Bundle!PairFromOneBuilder /\ Bundle!BundleIsOnePackage
    /\ part = "package" => Package!ScanIsExact /\ Package!WalkIsTreeOrder

(* A published first-version release is the pinned one with exactly the planned
   p1, though inputs change and change back and the tools err; what passed validation
   is whole while the power stays on, and also after a power loss if the system had
   written it back, which no step waits for (build-r46h-first-version-release.py). *)
ReleaseIsPinned == part = "release" => Release!ReleaseIsPinned /\ Release!PassIsWhole

(* The v0.8 fallback is on the card before, between and after the writes of both
   candidates, whatever a tool or a power loss did to them; while p1 is written, and
   after the write was cut, it is in what p1 was and in what it was to be, but p1 is
   torn (build-v09-p1-candidate.py, build-v10-...). *)
FallbackStays == part = "p1" => P1!FallbackStays

(* CURRENT of the promotion builders names a published generation, unless a power loss
   took that generation; what the one-shot builders publish is of the commit in its
   manifest; and a plan for p3 is of the bytes that are pinned where its generator
   found HEAD, although commits, edits and power losses come between the steps
   (build-r46h-v15-boot-promotion.py and build-v11-...py with their successors,
   build-easyroms-p3-recovery.py, generate-easyroms-p3-write-plan.py). *)
BuildsAreOfTheirCommit ==
    /\ part = "promotion" => Promotion!CurrentIsPublished
    /\ part = "one-shot" => OneShot!PublishedIsOfCommit
    /\ part = "p3" => P3!PlanIsPinned

(* What was staged on the USB drive and what install.sh left on the handheld is
   whole when its receipt or its PASS says so, and only whole files are started
   (stage-v11-usb-one-shot-macos.py, build-v13-mmc-one-shot.py). *)
StagedIsWhole ==
    /\ part = "usb" => Usb!ReceiptIsTrue
    /\ part = "install" => Install!InstalledIsWhole

(* PASS is about something durable and whole: of a release of the toolchain, and
   of the generation that a promotion or one-shot builder validated, though the
   pointer may be another builder's by then. *)
PassIsTrue ==
    [][/\ part = "toolchain" => Toolchain!PublishedIsDurable
       /\ part = "promotion" => Promotion!PassIsTrue
       /\ part = "one-shot" => OneShot!PassIsOfCommit]_mcVars

(* No step takes what is not its own: the evidence of an audit stays until it is
   archived, only the directory that was looked at is emptied, an entry that came after
   the check of a pruning or a Cargo configuration is not removed, and a write of p1
   keeps what was saved on the card before it. *)
NothingIsLost ==
    [][/\ part = "audit" => Audit!EvidenceIsKept
       /\ part = "cache" => Cache!OnlySeenRemoved
       /\ part = "toolchain" => Toolchain!ConfigKept
       /\ part = "p1" => P1!NothingLost]_mcVars
=============================================================================
