# Verification of JumeOS

TLA+ models, TLC runs and TLAPS proofs for the parts of JumeOS in which the
order of steps decides whether a card still boots, a medium is written by one
writer only, a release is what its receipt says, an upload is whole or a button
press reaches the right program. All paths are relative to `src/mainline/`
unless they start with `src/`.

Contents: [1 the system](#1-the-system), [2 modules](#2-modules-and-code),
[3 runs](#3-runs), [4 bounds](#4-bounds-and-why-they-are-enough),
[5 fairness](#5-fairness), [6 proofs](#6-proofs),
[7 disagreements](#7-disagreements-between-code-and-documents),
[8 observations](#8-observations), [9 limits](#9-what-is-not-modelled),
[10 plan](#10-plan).

## 1 The system

JumeOS turns a Rockchip RK3326 handheld into a game console with a mainline
kernel. Its own code is four families of programs: Python programs on the
developer's machine that make, check and stage what goes on a card; tools that
write cards; scripts on the device that switch its boot files; and the handheld
session with the programs around it (compositor, shell, input router, file share,
ports, remote access).

| part | state it keeps | operations | what makes it correct |
|---|---|---|---|
| **Card transaction engine** (`tools/r46h-card-toolchain`) | medium session, receipt, append-only journal, evidence directory | claim, preflight, authorize, write, flush, read back, recheck, eject, publish | evidence never says more than the card deserves; the journal is written ahead; nothing is clobbered; every error path ends |
| **BOOT promotion v0.16** (`gaming-product-v16-boot-promotion`) | FAT directory with journals, stages and `boot.ini`; STATUS file; lock file; mounts | prepare, activate, rollback, recover-*, postflight | the card always boots one exact script; STATUS is true; every interruption has a recovery |
| **Card Agent** (`tools/r46h-card-agent`) | stop flag, write reservation, card lock, disk claim, status and receipt files, socket, token | clone, read, mount, unmount, execute-write, stop | one writer, alone; a torn partition is announced; answers are true; a stop ends the agent |
| **Host card toolchain driver** (`scripts/r46h_card_toolchain.py`) | cache root with lock and work directories, generations, `CURRENT`, Cargo home | build, clean, validate-release | `CURRENT` names a whole generation of the commit in its receipt; work and caches of others stay |
| **Read-only audit launcher** (`scripts/r46h_card_macos_readonly.py`) | bound tool and profile, private stage, temporary evidence, archive | bind, select, sudo, audit, hand off, archive, clean | an archive marked complete is whole and is of the bound tool and the selected card |
| **Bundle generator** (`scripts/generate-easyroms-bundle.py`) | stage, directory and archive of a build id | read package, bind commit, stage, publish | one package, one commit, one generator; the canonical check is exact |
| **First-version release** (`scripts/build-r46h-first-version-release.py`) | clones of the card's parts, generation | pin, clone, mutate p1, prove the difference, publish, validate | the release is the pinned one with exactly the planned changes |
| **P1 candidates** (`scripts/build-v09-...`, `build-v10-p1-candidate.py` and their plan generators) | candidate image, plan, the card's p1 | build, plan, write | the v0.8 fallback stays; nothing else is lost |
| **Promotion and one-shot builders** (`scripts/build-r46h-v15/16/17-...`, `build-v11/v13/v14-...`) | stages, generations, `CURRENT` | capture, compose, publish, point, validate | what is published is of the commit it names; PASS is about a whole generation |
| **One-shot scripts** (rendered by `build-v13-mmc-one-shot.py` and its siblings) | root partition of the handheld | install, remove, U-Boot start | only whole files are started; PASS outlives a power loss |
| **USB staging** (`scripts/stage-v11-usb-one-shot-macos.py`) | drive, files, receipt | prepare, stage, read back, eject | a receipt is true of the drive it names |
| **P3 recovery** (`scripts/build-easyroms-p3-recovery.py`, `generate-easyroms-p3-write-plan.py`) | frozen payloads, image, plan | pin, make, verify, publish, plan | a plan names an image of pinned payloads |
| **Input router** (`gaming-wayland/input-router.cpp`, `input-route.h`) | evdev backlog, owner, gesture state, virtual gamepads, injection | Mode, Inject, CancelInject, gestures | every press arrives once, at one owner; shortcuts fire only for what was really held |
| **Handheld session** (`gaming-shell/handheld.cpp`) | agreed scene, requested owner, sequence numbers, capture | selectInput, requestPolicy, readInput, capture, injectGame | what it believes of the router is true; the pad follows the scene |
| **Applications** (`gaming-shell/applications.cpp`) | tasks, slots, process groups | launch, activate, background, stop, kill | slots are not reused while their task lives; stopped groups are resumed |
| **Compositor policy** (`gaming-wayland/handheld-shell.cpp`, `capture.cpp`) | granted surface, privacy, sequence | policy requests, capture fences | stale requests are refused and retried |
| **Wi-Fi share** (`gaming-files/transfer_server.py`) | session codes, sockets, handler slots, transfer permits, partial uploads | accept, session, upload, download, halt | an upload appears whole or not at all and replaces nothing; guesses are bounded; a stop ends |
| **Port manager** (`gaming-ports/manager.py`) | generations, index, runtime pool | install, update, rollback, uninstall, collect | nothing goes that an index which can come back names |
| **Port sessions** (`gaming-ports/local_port.py`) | managed configuration, child process, result | publish configuration, supervise, stop, report | no game stays behind; settings stay; the result names the reason |
| **CPU control** (`gaming-shell/cpu-control.py`) | policy nodes, device lease | scene and manual profiles, rollback | the answer is the policy in force; no write order is refused |
| **Remote control** (`gaming-shell/control.py`, `control.cpp`) | session, sequence, pending request; pictures and traces | observe, tap, game input, record | an observed state is acted on once; an answer is of its own action |
| **ROM upload** (`gaming-rom-workflow/upload-rom.py`) | candidate, published name, rollback flag | copy, rehash, check, sync, link, verify, mark | a ROM is whole under its name; PASS is durable |
| **Screen fetch** (`gaming-remote-screen/fetch-screen.py`) | export, temporary file, final name | capture, download, check PNG, link, remove | a picture is complete, never lost and never replaced |
| **Display diagnostic** (`scripts/r46h-display-diagnostic.py`) | services, terminal mode, framebuffer, pattern generator | stop, show, restore | it leaves what it found, or says what it could not |
| **File manager** (`gaming-files/operations.cpp`, ...) | file trees, trash | copy, move, trash, save | no source is lost when a step fails |
| **Leases** (`gaming-shell/device-lease.sh`, `gaming-ports/runtime-lease.sh`, `memory-control.sh`) | saved values, owner | acquire, restore | what was changed is restored by whoever survives |
| **Target installer** (`tools/r46h-v10-target-installer`) | files, journal, fault points | install, verify, recover | the boot script is published last |
| **Input bridge** (`gaming-input-bridge`) | grabbed devices, one combined pad | grab, mirror | the pad is complete or absent |
| session scripts, shell views and settings, root file system builders, kernel and board support, probes, recipes | little or none that survives a call | - | see section 9 |

**Interactions.** The router and the session speak over a seqpacket channel and
answer each other by sequence numbers (`Mode`/`Ack`, `Inject`/`InjectDone` or
`InjectDenied`, `CancelInject`, `State`, `Panel`, `Home`); the session asks the
compositor through a JSON request that is answered or runs into a deadline; the
applications signal exits to the session, which derives the scene and the owner
from them. `install.sh` sources `transaction.sh` and calls its operations inside
its own status protocol. The Card Agent serves several connections on dispatch
threads which meet at the session lock, the card lock and the disk claim. The
card engine drives a backend through one session and writes evidence beside it.
The Python programs meet in the file system: a repository whose HEAD and files
move while they run, pointers such as `CURRENT`, build ids for which two
processes may race, plans that the Card Agent executes. On the handheld the share,
the port sessions, the CPU helper and the diagnostic each serve one caller and
meet their clients over sockets, signals and processes.

**Hard behaviours.** Power loss between any two commands on a FAT file system
that reorders entries and data; failing calls in the middle of a sequence that
must still release or announce; two locks taken one after the other (agent);
queues in both directions between router and session, and a third one (evdev)
that overflows; answers that arrive after the question was withdrawn; a slot
that is reused while a request made for its former tenant is in flight;
gestures decided by clocks; checks whose object is replaced before it is used;
builders without a lock that share a pointer; signals that arrive on top of the
thread that holds the lock they need. `PROJECT.json` lists each one as a hazard at its
line, with the properties that watch it.

## 2 Modules and code

| module | models | composes with |
|---|---|---|
| `CardTransaction` | `transaction.rs`, `journal.rs`, `file_backend.rs`, `receipt.rs`, `source.rs`, `simulate` in `main.rs` | - |
| `CardTransactionInv`, `CardTransactionProofs`, `CardTransactionStepProofs` | the inductive invariants and the theorems | extend `CardTransaction` |
| `BootSwitch` | abstract: what the user of a BOOT directory relies on | implemented by `BootTransaction` |
| `BootTransaction` | `transaction.sh` | implements `BootSwitch` |
| `BootPromotion` | `install.sh` | extends `BootTransaction` and implements its specification |
| `BootTransactionProofs`, `BootPromotionProofs` | theorems about `BootTransaction` and `BootPromotion` | extend them |
| `PromotionLock` | lock file and `flock` of `install.sh` | - |
| `CardAgent`, `CardAgentProofs` | `UnixServer.swift`, `SessionState.swift`, `CardDevice.swift`, `DiskClaim.swift`; theorems | - |
| `AgentEndpoint` | lock file, socket and token of successive agents | - |
| `InputPolicy` | `Route::Policy` in `input-route.h` | its rules are free choices in `InputOwnership` |
| `InputOwnership`, `InputOwnershipProofs` | `input-router.cpp`, `handheld.cpp`, the slots of `applications.cpp`; theorems | - |
| `ToolchainRelease` | build, clean and validate-release of `r46h_card_toolchain.py` | - |
| `CacheTree` | removal and copy of a cache tree, same file | used by the steps of `ToolchainRelease` that empty a cache |
| `ReadonlyAudit` | `r46h_card_macos_readonly.py` | runs the tool `ToolchainRelease` publishes |
| `EasyromsBundle` | publication of a bundle in `generate-easyroms-bundle.py` | - |
| `PackageCanon` | canonical package check, same file | the guard of `EasyromsBundle!ReadPackage` |
| `FirstRelease` | `build-r46h-first-version-release.py` | - |
| `P1Candidate` | v0.9 and v0.10 candidates and their write plans | the plan is one `CardAgent` executes |
| `PromotionBuild` | `build-r46h-v15/v16/v17-boot-promotion.py` | makes what `BootPromotion` installs |
| `OneShotBuild` | five one-shot builders | makes what `OneShotInstall` and `UsbStage` take |
| `OneShotInstall` | the scripts those builders render, U-Boot's start | - |
| `UsbStage` | `stage-v11-usb-one-shot-macos.py` | - |
| `P3Recovery` | recovery image of p3 and its plan | the plan is one `CardAgent` executes |
| `FileShare` | `transfer_server.py` | - |
| `PortStore` | `manager.py` | - |
| `PortSession` | `local_port.py` | - |
| `CpuControl` | `cpu-control.py` | - |
| `RemoteControl` | `control.py`, `control.cpp` | - |
| `RomUpload` | `upload-rom.py` and its publish script | - |
| `ScreenFetch` | `fetch-screen.py` | - |
| `DisplayDiagnostic` | `r46h-display-diagnostic.py` | - |
| `MCCardTransaction`, `MCCardAgent`, `MCInputOwnership` | symmetry sets, plans | extend their module |
| `MCBuilders`, `MCHandheld`, `MCStops` | sums of independent programs (below) | instantiate their modules |
| `HandheldProofs` | theorems about the programs of the handheld and the agent's endpoint | extends `MCHandheld` |
| `BuilderProofs` | theorems about the programs of the developer's machine | extends `MCBuilders` |

**Sums of programs.** Twelve programs of the developer's machine, and eleven of the
handheld and its operator, are separate processes that share no state while they run.
`MCBuilders` and `MCHandheld` therefore check each of them alone, in one run: the
variable `part` names the program, never changes, and `x1`, `x2`, ... stand for its
variables, in the order of its module, so that the reachable states are the disjoint
union of the programs' own. Every step is a step of the instantiated module, and a
property of the sum is, for each part, the conjunction of that module's properties.
`MCStops` does the same for the two servers that promise to stop.

In every module the variables carry the names of the code's state where TLA+
allows it, one action stands for one call that can fail or be interleaved, and
`PROJECT.json` ("map") names for each definition the lines it was read from.
Operators that begin like another one and end in a deviation (`...Late`,
`...Never`, `...OffByOne`, `...Forward`) are seeded bugs: replacing the original
by them must break the property listed beside them under "mutants".

### CardTransaction

`pc` is the call of `Transaction::execute` the invocation makes next; every
call may fail where the code returns an error. `persist` is a state of its own
with a continuation `cont`, because the journal is appended from a dozen places
and each of them can fail with a torn line (`poisoned`). A partition is a
sequence of chunks; `media` is what the card's cache shows and `disk` what a
power loss leaves. Bytes are `base`, `new` (the declared source), or something
else, because that is all a digest tells apart. `Covered` are the chunks the
verification mode reads back: all of them in full mode, head, tail and samples
otherwise (`sample_ranges`, transaction.rs:498-521). The evidence directory is
`evid[d]`: whether it was reserved, the journal lines, `receipt.json` and
`RECEIPT-COMPLETE`. An invocation that ends or crashes may be followed by another
one on the same medium and with the same directories (`MaxRuns`). `touched` and
`late` are history variables: operations written to, and chunks spoiled after
they were read back.

### BootSwitch, BootTransaction, BootPromotion, PromotionLock

`BootTransaction` keeps the FAT directory twice, `fs` as mounted and `disk` as a
power loss leaves it; `raw` are the names whose data was not flushed. Between
two flushes any subset of the changed entries may be on the card, and unflushed
data may be torn (`Survives`). `prepare`, `activate` and `rollback` share their
steps: detect, journal, flush, (space), publish or stage, flush, rename, flush,
clear markers, flush and detect again; `job` says which of them runs and
`Fresh`, `Resumed` and `Finished` are the states each accepts. Every command may
fail; a failed write or flush leaves any partial effect.

`BootPromotion` adds `install.sh`: `Admits` is what each mode accepts of the
pair (STATUS, BOOT state), `Start` begins a mode, `RetainPayload`/`WriteIntent`
publish the intent, `Mount`, `Dispatch`, the transaction, `Returned` (with the
automatic rollback of a failed activation), `UnmountBoot`, `Verify`, `Record`.
`set -e` is the action `Fails`, the exit trap `Cleanup`. `sealed` says that the
partition's bytes are the ones whose hash STATUS records: a writable mount alone
ends that. `Crash` boots whichever script the card selects (`running`), which is
what `--postflight` depends on.

`PromotionLock` keeps the file behind the lock's name and the file each command
has open, since the exit trap removes the name.

### CardAgent, AgentEndpoint

`server` is the accept loop (check the stop flag, poll, accept, drain), `pc[c]`
the place of connection `c` in `handleClient`, `dispatch`, `withCardLock` and
`executeWrite`. The operations of `SessionState` run under its lock and are one
step each; between them everything interleaves, the desktop's automounts and a
power loss included. `status` is what the status file says and `kept` what a
power loss leaves of it: a rename is durable only after the directory was
synced. `soft` are partitions whose data is still in a cache. A device may lie
on a write (the copy succeeds and the card holds something else): the readback
is there for that. `Plan` is the write plan, a constant, so that two operations
can rewrite one partition in a row.

`AgentEndpoint` models successive agents of one user: the lock file that is
never removed, stale socket and token, creation, removal and a kill at any
moment (the kernel drops the `flock`).

### InputPolicy, InputOwnership

`InputPolicy` is `Route::Policy` with the buttons it treats specially (the two
stick clicks, Select, Start, and X standing for X, Y and any ordinary button of
a shortcut). Deadlines are ages: `clickAge`, `startAge`. `delivered` is what the
last step showed to the owner and `asked` what it requested. `owed`, `clicking`
and `together` are history variables computed from the pad alone, so that the
properties compare the policy with what the hand really did.

`InputOwnership` is the router's loop and the session's handlers with their
two channels `toRouter` and `toSession`. What the policy decides (deliver,
defer, ask for a system action) is a free choice here: the properties hold for
every policy, hence for the one in `InputPolicy`. One press at a time is in
hand, numbered, so that `got[p]` can say who acted on press `p`. `backlog` is the
evdev queue with the `SYN_DROPPED` marker. On the session's side `SelectInput`,
`RequestPolicy`, `Settle` and `SceneChanged` are the functions of
`handheld.cpp`; `session.asked` is the policy request in flight, answered by
`PolicyReply` or ended by `Deadline`. Applications start, exit, are reaped and
give their slot back in separate steps. `grantee` is a history variable: the
application for which the desktop last granted the slot.

### The host programs: ToolchainRelease, CacheTree, ReadonlyAudit

`ToolchainRelease` has one record per process (`proc`): its command, where it is, the
commit and the source it saw. A generation records both, so that a HEAD that
moves between the reading and the compilation shows. `builds` and `current` are
what the release directory holds, `syncedBuilds` and `syncedCurrent` what a power
loss leaves. `works` are the private directories under the lock of a cache root.
`CacheTree` is one directory whose entries another process may write, replace or
mount over. What an entry is, is looked up by name (`Look`), checked through a descriptor
that is closed again for a file and stays open on a directory while that is emptied
(`OpenForRemoval`, `EmptyDirectory`), and then removed by name (`RemoveEntry`): separate
steps with others between them, so that what is unlinked need not be what was checked.
A pruning takes its names from its check (`fixed`) and unlinks files with no comparison.
`stocked` are the directories with entries of their own, which `rmdir` refuses.

In `ReadonlyAudit` the launcher (user), the bootstrap (root), the evidence and the
two archives of an audit (complete and failed) are separate records; the workspace,
the card in the reader and the disk under the archive path change at any time. An
archive's `entries` and `synced` tell what is there from what survives.

### Builders: EasyromsBundle, PackageCanon, FirstRelease, P1Candidate, PromotionBuild, OneShotBuild, P3Recovery

All of them read inputs that move. A version, commit or content is a model value;
equal values have equal digests. A builder's record or program counter says what it
has read and when; `World`-like actions replace inputs, move HEAD and put things back.
Checks that the code makes twice (before and after a copy) are two steps, so that a
change that is undone in between is possible. `torn` are the releases whose content a
power loss left in part, `loose` those published since the last one, whose directory entry
it may take (the builders sync no directory), `lost` those it took. `pointer` is what
CURRENT names on the medium; entry and pointer are lost independently. In
`FirstRelease`, `passed` is the PASS that was printed, which no power loss takes back. In
`P1Candidate` the write of p1 is begun, and finished or cut; in between p1 is `Torn`. The
plan generator of `P3Recovery` (`planner`) reads the artifact, HEAD, the tree, the
configuration and the image one after the other and comes back to none of them.
`PromotionBuild` and `OneShotBuild` are one text for three and five programs:
the parameter `v` selects the guards and steps in which the versions differ.
`FirstRelease` and `P1Candidate` keep a FAT tree as a function from paths to contents,
and mtools may do something else than asked. `PackageCanon` models the loop over the
raw tar blocks and the stack of the tree walk and compares them with definitions
(`Canonical`, `Before`) over all inputs up to the bounds.

### What reaches the card: OneShotInstall, UsbStage

`OneShotInstall` keeps the target directory as the running system sees it (`dir`) and as
a power loss leaves it (`disk`); a script may be killed, the partition may fill up. A
power loss may keep or undo the renames that were not synced, but leaves one directory at
most under the name of the target: `mv --no-clobber` renames to a name that is free, so
the rename is on the medium only with the one that freed the name.
`UsbStage` keeps the files of two drives, of which only one is plugged in, and lets them
be swapped between any two commands that name the drive by its device node. The copy itself
goes to whatever is mounted at the volume path (`AtPath`); only the query after it tells
which drive that was.

### The handheld's programs

`FileShare`: the main thread, one thread per connection, the watcher, the parent thread
and the signal handler, with `server.lock` taken and released in separate steps; a
handler's reads and writes are separated per block. `PortStore`: the index as it is read
(`vis`) and as a power failure leaves it (`dur`), the index in memory (`mem`), generations
and runtimes; `overlooked` and `changed` remember whether an invocation began while the two
indexes differed, and whether this one changed what is selected. `PortSession`: two sessions over one managed configuration, a child that ends
on its own, is asked to or is killed, and a clock. `CpuControl`: a plan of node writes, each
of which may fail or be refused, and the rollback. `RemoteControl`: requests and answers are
sets (late, lost, in any order), a restart begins a session; `acts` is a history variable that
records for each executed action where it was executed and at which sequence number it was
asked for. `RomUpload`: the host (`pc`) and the publish script on the handheld (`script`) as two
processes that outlive each other, `synced` and `kept` for content and entry.
`ScreenFetch`: two fetches of one operator; the PNG loop over chunks is evaluated as the code
does and compared with `WellFormed`. `DisplayDiagnostic`: what was found (`snapshots`,
`vtFirst`, `fbKept`), what was changed, and `lost`, what the cleanup reports.

## 3 Runs

| run | module, bounds | what it checks |
|---|---|---|
| `card_full` | two partitions of two chunks, full mode, one fault | `SafeEvidence`, `EvidenceTells` (types, `WriteAhead`, `JournalReadable`, `VerdictHasEvidence`), `MediumReleased`, `FirstWriteOnBaseline` |
| `card_again` | one partition of three chunks, quick mode, two invocations | `JournaledProgress`, `NoClobber`, `InvocationEnds` |
| `boot` | two versioned files, three faults, two failed commands | `Bootable`, `OutcomeIsTrue` (types, `SuccessIsDurable`, `StatusIsTrue`, `RecoveryIsAdmitted`), `StepsAreJournaled` (`SwitchIsJournaled`, `ImplementsTransaction`), `ImplementsSwitch`, `RecoveryCompletes` |
| `boot_journal` | the operations alone, one fault | `JournalsClassify` is violated (section 7) |
| `promotion_lock` | three commands | `OneCommandAtATime` is violated (section 7) |
| `agent_chain` | two connections, two operations on one partition, reads, mounts | `CardHolds` (types, `TornIsAnnounced`, `CompleteIsTrue`, `StopAnswerIsTrue`, `WriterIsAlone`), `NoWriteAfterStop` |
| `stops` | agent: two connections, one operation; share: two connections | `StopEnds` of both servers |
| `ownership` | two applications, two slots, one press, three changes of scene, one injection | `SessionKnowsOwner` (types, `OwnerFollowsScene`, `BeliefIsTrue`, `ProtocolHolds`), `PressesReachOneParty` (`PadsNeutral`, `OnlyGranteeReads`, `OnePressOneOwner`) |
| `ownership_live` | the same with a capture and one change of scene | `OwnerIsGranted`, `InjectionIsAnswered` |
| `ownership_reuse` | the same with a capture, no injection | `OnlyGranteeReads` is violated (section 7) |
| `builders` | `MCBuilders`: twelve programs, one at a time, two processes each where they can race | `ToolchainHolds`, `CacheTreeHolds`, `HandoffIsTrue`, `BundleHolds`, `ReleaseIsPinned`, `FallbackStays`, `BuildsAreOfTheirCommit`, `StagedIsWhole`, `PassIsTrue`, `NothingIsLost` |
| `handheld` | `MCHandheld`: eleven programs, one at a time, two peers each | `ShareHolds`, `PortsHold`, `SessionEndsTrue`, `ClockAnswerIsTrue`, `RequestActsOnce`, `TransferIsWhole`, `LeavesAsFound`, `GesturesHold`, `EndpointIsServed`, `AnswerIsTrue`, `NothingReplaced` |

A property of `builders` or `handheld` that names several programs is the conjunction of
properties the modules define, each with a comment of its own:

| property | programs | conjuncts |
|---|---|---|
| `ToolchainHolds` | toolchain | `CurrentResolves`, `CurrentIsItsSource`, `PeerWorkKept` |
| `CacheTreeHolds` | cache | `ForeignKept`, `CopyIsWhole` |
| `BundleHolds` | bundle, package | `PairFromOneBuilder`, `BundleIsOnePackage`, `ScanIsExact`, `WalkIsTreeOrder` |
| `ReleaseIsPinned` | release | `ReleaseIsPinned`, `PassIsWhole` |
| `BuildsAreOfTheirCommit` | promotion, one-shot, p3 | `CurrentIsPublished`, `PublishedIsOfCommit`, `PlanIsPinned` |
| `StagedIsWhole` | usb, install | `ReceiptIsTrue`, `InstalledIsWhole` |
| `PassIsTrue` (of steps) | toolchain, promotion, one-shot | `PublishedIsDurable`, `PassIsTrue`, `PassIsOfCommit` |
| `NothingIsLost` (of steps) | audit, cache, toolchain, p1 | `EvidenceIsKept`, `OnlySeenRemoved`, `ConfigKept`, `NothingLost` |
| `ShareHolds` | share | `NothingHalf`, `GuessesBounded`, `JoinWaitsForCut` |
| `PortsHold` | store | `GenerationsStay`, `RuntimesStay`, `AnswerIsTrue` |
| `SessionEndsTrue` | session | `NoOrphan`, `ResultIsTrue` |
| `ClockAnswerIsTrue` | cpu | `AnswerTellsPolicy`, `OrderIsAccepted` |
| `RequestActsOnce` | remote | `ActsOnce`, `AnswerIsOwnAct`, `RecordIsWhole` |
| `TransferIsWhole` | upload, fetch | `FinalIsWhole`, `PassIsTrue`, `LeftoverIsNamed`, `FinalIsPicture` |
| `GesturesHold` | policy | `EveryPressArrives`, `PanelIsTimely`, `KillIsHeld` |
| `NothingReplaced` (of steps) | share, fetch, session | `NeverReplaced`, `NoPictureLost`, `NothingReplaced`, `SettingsStay` |

What the passing runs show, in words:

- **Card engine.** A journal line or a receipt with `safe_to_boot = true`
  describes a card released by a successful eject with nothing unflushed, every
  chunk the mode reads back durable and equal to its source, and every attested
  range intact, whatever call failed before and whenever the power went. A
  partition that was written to is named by a `WriteInProgress` line already in
  the journal. The verdict `pass` needs both evidence files. A second invocation
  never starts on a target the first one left half written (unless it is declared
  disposable and authorized) and never touches the first one's evidence.
- **BOOT.** The card always selects one exact boot script, and the new one only
  when its versioned files are complete. An operation that returned success is
  already durable. Outside the three intents STATUS is true at every moment, and
  with an intent some recovery mode accepts what is found, or the directory is
  one of the unclassifiable ones of section 7. An operator who keeps running the
  recovery the status calls for gets out. `install.sh` drives `transaction.sh`
  only in the ways its specification allows (`ImplementsTransaction`), and
  `transaction.sh` implements the three-action `BootSwitch`
  (`ImplementsSwitch`): publish the candidate, select it, restore the fallback.
- **Agent.** A partition in pieces is always announced by a status file that
  survives a power loss; `WRITE_COMPLETE` is true until another operation of the
  plan announces itself on the same partition; a client's answer agrees with
  the card and with the files; the writer holds lock, claim and reservation alone
  with nothing mounted; after a stop that found no write none begins; a stop
  ends the agent.
- **Input.** No press is lost by the deferral of clicks and of Select, the panel
  opens only for clicks that overlap in time and a kill only after the full
  hold. Between router, session and compositor the belief about the owner is
  never wrong, the protocol never reaches a state its reader calls an error, a
  pad that lost its grant is neutral, and one press is acted on by one party.
- **Builders.** Whatever is killed, edited or committed meanwhile: `CURRENT` names a
  release that is there (of the toolchain also after a power loss; of the promotion a
  power loss may take the generation, nothing else can); what a receipt, manifest or plan
  says of its commit and bytes is true when it is written; an audit's archive is whole
  and of the card that was selected; a bundle is of one generator and one package; the
  canonical check of a package is exact within the bounds. The v0.8 fallback is on the
  card before, between and after the two writes of p1; during a write, and after one that
  was cut, p1 is torn and the fallback is in what was there and in the planned image. A
  PASS is about something whole: of the toolchain for good, of a first-version release as
  long as the power stays on or once the system wrote it back. A cache removal never
  deletes mounted content or what is in a directory that was not looked at, and a pruning
  nothing that came after its check.
- **Handheld programs.** An upload, a ROM and a picture are whole under their names and
  replace nothing; a port's index never names a generation that was removed, nor a runtime
  unless a power failure brings back an index older than the one a later invocation
  collected by; a refusal leaves what the index selects as it was; a session leaves no game
  behind; the answer of the CPU helper is the policy in force; one observed state of the
  shell is acted on once although requests are repeated, late or lost; the diagnostic
  leaves what it found or says what it could not put back.

## 4 Bounds and why they are enough

- `card_full`: two operations are needed for everything that goes wrong between
  partitions (a chunk spoiled while the next one is written, statuses that
  lag); two chunks separate the first write from the last and leave a partition
  half written in between. Failing calls, torn appends, altered sources and the
  power loss are not bounded: each is possible wherever the code can meet it, any
  number of times. `MaxFaults = 1` bounds only the damage a device does
  silently, to one chunk or one attested range at any moment of the writing; a
  second one adds another damaged chunk, which is checked separately from the
  first. Operation 2 is disposable, operation 1 is not. Two attested ranges,
  because the prefix and the plan's ranges are checked by different calls.
- `card_again`: two invocations with one evidence directory, so that the second
  one meets it reserved; three chunks with a progress interval of two, so that
  the interval does not divide the size; quick mode.
- `boot`: two versioned files are what the code publishes (DTB and boot script).
  `MaxFaults` bounds the failing commands of the operations and the power losses
  together: three allow a failing activation, a failing rollback and a power loss
  in one history. `MaxStops = 2` allows a failed command and a failed unmount in the
  trap. `CHECK_DEADLOCK FALSE`: a directory that cannot be classified is refused
  by every mode, and then the system does stop.
- `agent_chain`: two connections are the smallest number with a writer and a rival;
  each slot may be used again once its handler left. The second operation's baseline
  is the first one's source. Deadlock is checked: `Ended` is the only end.
- `promotion_lock`: three commands are the smallest number that shows the
  violation. The commands end, hence `CHECK_DEADLOCK FALSE`.
- `stops`: one write, two connections, signals off for the share (section 8 says what
  happens with them). A server that ended stops, hence `CHECK_DEADLOCK FALSE`.
- `builders`: two builders for a race, two commits for a HEAD that moves and moves back.
  Bounds by module: toolchain two generations and one cache root (section 8;
  the work directory of a dead process is not counted, the next build removes it unread);
  cache tree two entries and two interferences, enough to replace an entry after its check
  and to fill or mount over another; audit two runs with one or two audit
  ids, two tool versions (it starts with the first, they are interchangeable), two cards and one change of the world; package up to six
  blocks, four headers, three members, trees of two names and depth three (every
  sequence of blocks and every such tree is an initial state); release one builder,
  two inputs that change, each at most twice (a replacement and its undoing); p1 two bundles and one edit; promotion
  and one-shot one move of HEAD or the tree and one fault, all versions, at most
  `MaxBuilds = 2` different promotion generations; USB two drives,
  two swaps, two formats; one-shot scripts three runs and two faults; p3 two payloads, two
  commits, two faults. The programs end, hence `CHECK_DEADLOCK FALSE`.
- `handheld`: two peers. Share: two handler slots, one transfer permit, so that the
  second upload meets a permit taken; one wrong code per window, one block, one tick, and
  SIGTERM allowed. Store: two packages, two runtimes, three invocations, two faults: an
  install, an update and the uninstall that collects. Session: grace periods of one and
  two of three ticks, one crash. CPU: three frequencies, two governors, two caps, two
  requests and two faults, so that a rollback can fail too. Remote: one restart, three
  requests, recordings of two samples. Upload: two hosts, two contents, two faults.
  Fetch: one name, pictures of three and four chunks. Display: two services, two
  checkpoints, two events and two faults. Policy: the window (1 tick) and the hold (2
  ticks) keep their order; a tick between any two steps may be skipped, so slow polls
  are covered; ages saturate one above their limit. Endpoint: three agents. Agent: one
  operation with clones that take a name of the evidence. `CHECK_DEADLOCK FALSE` for the
  same reason.
- `ownership*`: one numbered press, three scene changes (enough for launch, panel
  and exit with reuse of a slot), two slots. `MaxBacklog = 1` fills the evdev
  queue with the second report, so that `SYN_DROPPED` occurs in almost every
  history. `captures = 0` in `ownership`, because with one capture the property
  `OnlyGranteeReads` fails (`ownership_reuse`). Captures and injections are bounded
  by one where they are on. `CHECK_DEADLOCK FALSE`: the bounds end the histories.
- Symmetry: directories, connections, applications, builders, commits and peers are
  interchangeable in the specification and in the properties; symmetry is used in runs
  without liveness properties only.

## 5 Fairness

| specification | assumption | justification |
|---|---|---|
| `CardTransaction!FairSpec` | weak fairness of the invocation's next step | it is one thread; crash and faults are not required |
| `BootPromotion!FairSpec` | the running command ends; a reboot that is due happens; some recovery mode that is admitted is started | the first is the shell; the others are the operator's procedure (`gaming-product-v16-boot-promotion/README.md`) |
| `CardAgent!FairSpec` | weak fairness of the accept loop and of each handler while the process runs | dispatch threads; the poll returns after 500 ms, sockets time out after 5 s, commands are killed on cancellation. A client that sends one byte every few seconds would prolong the drain; it is outside the model |
| `InputOwnership!FairSpec` | router commands and reports are taken, an injection expires, the session reads its channel, the compositor answers | two event loops; the router's poll returns after 100 ms at most (input-router.cpp:225-228); the deadline stays possible instead of the answer |
| `MCStops!FairSpec` | for the agent the two assumptions above; for the share weak fairness of the main loop, of the watcher's samples and of its halt, of the parent thread's halt, of every handler's own step, and of a read or write on a socket that was shut down | threads are scheduled; the watcher polls; a shut-down socket returns at once (transfer_server.py). A client owes nothing: a handler waits for it until its socket is cut |

`part` never changes, so in `MCStops` the fairness of a step of one server is the
fairness of that server alone.

No liveness property relies on fairness of a fault, of the hand on the pad, or
of a client of either server.

## 6 Proofs

TLAPS proves the following for every value of the constants under the named
assumptions of the modules. They say what makes a constant a constant of the
program: sizes, times and bounds are numbers, sets of names do not contain the value
that means nobody, the verification mode is one of the three, `Interior` are chunks,
`Disposable` are operations, a plan is a nonempty sequence, the shares' peers are none
of the words for "nobody" and "main thread" (`PeersAssumption`), the lengths of a PNG
chunk and the frequencies of the processor are numbers. TLC evaluates each of them on
the run of its module.

**`CardTransactionProofs`**

- `TypeCorrect`: `Spec => []TypeOK`.
- `SafeEvidenceHolds`: `Spec => []SafeEvidence`, for every verification mode,
  number of partitions, chunks, directories, invocations and faults.

`SafeEvidence` alone is not inductive: that a receipt says safe only when the
card is good depends on where in the sequence it was set and on what the steps
before have established. `IInv == TypeInv /\ OpsInv /\ MediaInv /\ EvidenceInv
/\ SafeInv` (module `CardTransactionInv`) adds: the continuation of an append is
one of the calls that follow one (`Control`); the loop over the operations has
verified exactly those before `op` (`OpsInv`); what was read back is still on
the medium but for damage recorded in `late`, the recheck has seen the attested
ranges, and after the last flush `media = disk` (`MediaInv`); directories nobody
reserved are empty (`EvidenceInv`); a safe receipt exists only in the closing
calls, when nothing is written any more (`SafeInv`). The proof has one lemma per
action; persisting is proved once for all its continuations.

**`BootTransactionProofs`**

- `TypesHold`: `TxSpec => []TxTypeOK`.
- `AlwaysBootable`: `TxSpec => []Bootable`.
- `SwitchImplemented`: `TxSpec => ImplementsSwitch`, the refinement of
  `BootSwitch` under `active <- disk[boot.ini]`, `candidate <-` all versioned files
  exact.
- `SuccessSurvives`: `TxSpec => []SuccessIsDurable`.
- `SwitchesAreJournaled`: `TxSpec => SwitchIsJournaled`.

`Bootable` alone is not inductive either: it must be known that whatever a flush
or a power loss brings to the card is exact. `BootInv == TxTypeOK /\ DirInv /\
StepInv /\ KindInv`. `DirInv`: no final name (versioned file or `boot.ini`) has
unflushed data, each is absent or exact both in the mount and on the card, and the
target's script is in neither unless the versioned files are on the card.
`StepInv`: the stage about to be renamed is flushed and holds the payload, a
switch is under way only with the versioned files on the card, and only
`prepare` names them as its target. `KindInv`: an unflushed change is either of
`boot.ini` or of versioned files, never of both, so that a power loss that keeps
one and drops the other has nothing to mix. The lemmas follow the primitives of
the directory (put, remove, move, flush, survive) and then the commands. The
refinement follows because each step moves at most one of the two abstract
variables.

The last two need to know when an unflushed directory can be taken for a finished
one. `OutcomeInv`: an operation that finds its work done and returns at once was
called on a fresh mount, or it is the rollback after a failed activation; that
activation either changed nothing or left a mark (its journal, or its script as the
active one) which no finished rollback bears. `JournalInv`: while the active script
in the mount differs from that on the card, a journal is complete, flushed and on
the card; there is no such difference while a journal is written or removed; and
until the next call an activation can only move the script forward, so that a
rollback which finds the old script active has nothing to flush.

**`CardTransactionStepProofs`** builds on `TypeInv`, `OpsInv` and `EvidenceInv`:

- `NothingIsClobbered`: `Spec => NoClobber`. With `UnpublishedInv` (until
  `PublishReceipt` the directory in use holds no receipt), every step changes only
  the directory in use, appends at most one line to its journal and links a receipt
  only where there is none.
- `FirstWriteFindsBaseline`: `Spec => FirstWriteOnBaseline`. `BaselineInv` carries
  what the preflight saw over the authorization, the begin of an operation and the
  seek to the first write: until then nothing is touched and nothing that
  could change the medium or a range is a step. A disposable target is only sought
  with the capability.
- `ProgressIsJournaled`: `Spec => []JournaledProgress`, and `WritesAreAnnounced`:
  `Spec => []WriteAhead`. `ProgressInv`: no line and no receipt claims more than was
  streamed (`JournalBehind`), the partition in hand is untouched until its first
  buffer (`CursorInv`), and before each buffer a line already names it and is less
  than one interval behind (`SaidBefore`).
- `JournalStaysReadable`: `Spec => []JournalReadable`, and `VerdictsHaveEvidence`:
  `Spec => []VerdictHasEvidence`. `StateInv` ties the receipt's state to the call,
  `OrderInv` says that a journal which can still grow ends with a line that one more
  may follow, and `VerdictInv` that what is published is what the journal ends with.
- `EvidenceIsTrue`: `Spec => []EvidenceTells`, the conjunction of types, `WriteAhead`,
  `JournalReadable` and `VerdictHasEvidence`.
- `MediumIsReleased`: `Spec => []MediumReleased`. `DispositionInv`: the receipt in
  memory and the published one say of flush and eject only what is so, and once
  the invocation is disposing of the medium the claim is released or stuck.

**`BootPromotionProofs`** carries these results over to `install.sh`, for any number of
commands, failures and losses of power:

- `OperationsAreDriven`: `Spec => ImplementsTransaction`. Every step of a command is a
  step `transaction.sh` allows, or leaves its state alone. `MountInv` says where BOOT is
  mounted: an operation runs only in a mount, and what is not mounted is flushed.
- `PromotionBoots`, `PromotionSwitches`: `Bootable` and the refinement of `BootSwitch`
  hold of `install.sh` too; they follow from the theorems about `transaction.sh` and
  the one above. `PromotionIsJournaled`: `Spec => StepsAreJournaled`.
- `OutcomesAreTrue`: `Spec => []OutcomeIsTrue`. `StatusInv`: STATUS is an intent from
  before the mount until after the unmount, hence what is not an intent was found on an
  unmounted, flushed card. `RollbackInv`: under a rollback's intent the journal of
  `prepare` is neither there nor can it come back, which is why a recovery mode always
  accepts what is found.

**`CardAgentProofs`**, for any number of connections and every plan; it uses that
`None` is no connection (`PlanAssumption`):

- `TheWriterIsAlone`: `Spec => []WriterIsAlone`.
- `StopPreventsWrites`: `Spec => NoWriteAfterStop`.
- `CardIsKept`: `Spec => []CardHolds`, with `TornIsAnnounced`, `CompleteIsTrue` and
  `StopAnswerIsTrue`. `AnswersAreTrue`: `Spec => []AnswerIsTrue` for the agent.

`WriterInv` is a chain from the lock to the medium: a handler between its lock and
its unlock holds the card lock (`SectionLocked`), one inside execute-write has the
reservation (`WriteReserved`), is active from its promotion on (`PromotedIsActive`),
and owns the claim while it looks at the card (`LookerClaims`), which keeps the
desktop from mounting it (`NothingMounted`). No link alone is inductive. `AgentInv`
(module `CardAgent`) adds what the files say: a status is durable before the partition
it names is touched, so what a loss of power may tear is announced; what was read back
stays until an operation that announced the same partition touches it (`Stays`); and
the number of connections the loop counts is the number of handlers (`CountStep`, by
the cardinality of finite sets).

**`HandheldProofs`** has eleven theorems about the programs of `MCHandheld`. `OwnSteps`
says that while `part` names a program every step is a step of its module; each theorem
then rests on the inductive invariant of that module, stated and named there:

- `EndpointBelongsToServer`: `Spec => []EndpointIsServed`. The property says nothing of
  the agents that prepare or clean the endpoint; `HoldersLock` says that all of them hold
  the one flock, `BinderHasToken` that the one about to bind has its own token there.
- `RequestsActOnce`: `Spec => []RequestActsOnce`. What keeps a third action away is that
  everything executed in this session was asked for at a sequence number that is past.
- `TransfersAreWhole`: `Spec => []TransferIsWhole`. ROM: a candidate that passed its
  checks holds the bytes the host hashed, nothing is linked that was not synced, a rollback
  flag stands only in the script that made the link. Picture: the loop over chunks accepts
  exactly the well-formed ones, for every length of the file.
- `ClockAnswersAreTrue`: `Spec => []ClockAnswerIsTrue`, for any frequencies, caps and
  governors: what was written is what the plan's prefix says, and the rollback undoes
  that prefix.
- `SessionsEndTrue`, `DisplayIsLeftAsFound`, `GesturesAreTrue`: the invariants of the port
  sessions, of the diagnostic and of the shortcut policy, for every grace period, number of
  services and faults, window and hold.
- `ShareIsKept`: `Spec => []ShareHolds`: no half upload is visible, guesses are bounded by
  the window's budget, and the main thread joins only what was cut; for any number of
  peers, slots, transfers and blocks.
- `PortsStay`: `Spec => []PortsHold`. `StoreHolds` is what holds without history: an index
  names whole generations of its own package, and generations are removed only when the
  index that is read is the durable one. `Remembers` ties it to the history: under an
  invocation that began with both indexes equal, the older one cannot come back, so that
  what it collects no index names.
- `ClientsAreToldTheTruth`: `Spec => []AnswerIsTrue`, from `CardAgentProofs`, instantiated
  with the variables of the sum.
- `NothingIsReplaced`: `Spec => NothingReplaced`, the action property of share, fetch and
  port session.

The pass over the chunks of a picture needs induction. The induction theorems of the
library cannot be instantiated (their parameter is an operator), so lemma `UpTo` states it
for the set of the numbers a fact holds of, by the least number that is not in it.

**`InputOwnershipProofs`**, for any number of applications, slots, presses and scenes:

- `OwnershipKept`: `Spec => []OwnershipInv`, the inductive invariant, and from it
- `SessionKnowsItsOwner`: `Spec => []SessionKnowsOwner`,
- `LosersAreNeutral`: `Spec => []PadsNeutral`,
- `PressesAreOwned`: `Spec => [](captures = 0 => PressesReachOneParty)`. Before the first
  capture every press is read by one party, the one the desktop granted; after one,
  `OnlyGranteeReads` is false, which is finding `ownership_reuse` of section 7.

`OwnershipInv` was checked by TLC with the constants of `ownership.cfg` before it was
proved. It has three parts. The router's (`PadInv`): who reads the pad is who owns it, and
a virtual pad that is not the owner's is neutral; it depends on nothing of the session.
The session's (`SessionInv`): what the router will believe once it has read its queue
(`Follows`) is what the session last sent, an owner that is believed without a message in
flight is the one the scene asks for, and an injection is answered exactly once. And the
numbers (`Bounded`). Each handler of the session is a chain of `SelectInput`,
`RequestPolicy` and `Settle`; `Leaves` and `Settles` say what such a chain leaves behind,
so that the cases of a handler are proved once for all the handlers that end in it.

**`BuilderProofs`** has ten theorems about the programs of `MCBuilders`, laid out as in
`HandheldProofs`. Each invariant is stated in its program's module, was checked by TLC
with the constants of `builders.cfg`, and is proved for any number of processes, commits,
edits, kills, faults and losses of power:

- `ToolchainIsKept`: `Spec => []ToolchainHolds`. `ToolInv`: a generation is in `builds`
  with a true binary before anything names it, what CURRENT may come back to after a loss
  of power is synced, and a process past its lock is alone in its work directory.
- `CacheTreeIsKept`: `Spec => []CacheTreeHolds`. `TreeInv`: while the directory is what it
  was when it was listed, what is copied and what is still to do are together all of it;
  a directory that is being emptied is the one that was looked at and not mounted over.
- `HandoffsAreTrue`: `Spec => []HandoffIsTrue`. `AuditInv`: an archive belongs to one start
  of the launcher, its files are synced before it is marked, and the bootstrap's answer
  is the evidence of the card that this start selected.
- `BundlesHold`: `Spec => []BundleHolds`. `BundleInv` says what a generator knows at each
  of its steps of a package that others may replace meanwhile. `CanonInv`: for archives of
  any length, what the scan has passed begins a canonical archive; for every finite tree,
  the order so far comes before all that is on the stack, and what is in neither is below
  something on the stack. `ByName` is there because a finite set of numbers can be
  counted in order, which the lemmas show from the library's theorems on finite sets.
- `ReleasesArePinned`: `Spec => []ReleaseIsPinned`. `ReleaseInv`: if no input changed since
  it was taken, everything made of it is what the contract says; the last look at all
  inputs is what lets the builder conclude it. What passed was whole, and stays so unless
  it was still cached when the power went.
- `FallbackIsKept`: `Spec => []FallbackStays`, by `CandidateInv`: an image that may be
  published has the fallback and keeps what its base had; a write under way has a plan,
  and what it overwrites is the plan's base.
- `BuildsAreTrue`: `Spec => []BuildsAreOfTheirCommit`, from `PromotionInv`, `OneShotInv`
  and `P3Inv`: which of the blobs a builder holds are known to be of the commit, step by
  step; the versions differ in that, and the invariant says how. What CURRENT may go back
  to after a loss of power was published, too. `PlannerIsTrue`: what the plan generator
  read of HEAD and of the artifact agrees, although neither is looked at again.
- `StagedFilesAreWhole`: `Spec => []StagedIsWhole`. `UsbInv`: once the volume was looked at
  again, what was copied is on our drive; the uuid of a drive only grows, so no later
  format fits an old receipt. `InstallInv`: a script that works is alone with the target.
- `PassesAreTrue`: `Spec => PassIsTrue`, and `NothingGetsLost`: `Spec => NothingIsLost`, the
  two action properties, from the invariants above.

They rest on the named assumptions of `MCBuilders`. `NilAssumption`, `DrivesAssumption`: the
values that stand for nothing are no builder, bundle, drive or generation.
`AuditsAssumption`: the launcher is started at least once. `BudgetsAssumption`,
`RunsAssumption`, `CommitsAssumption`: bounds are natural numbers, and the names in a
package are ordered as natural numbers are. The sets of builders, commits, cards, drives and
names are otherwise arbitrary, and nothing is assumed of the other bounds. Of the toolchain there is one cache root (`RootOf`
is a definition, not a constant): with two, the property is false (section 8).

The proof of `InstallInv` found an error in the model. `OneShotInstall!PowerLoss` let every
directory fall back by itself, so that after four runs of the scripts two directories could
have the name of the target; TLC, with three runs, had not met it. Section 2 says how the
action is now.

**Only model-checked**: the liveness properties (fairness and `ENABLED` are out of the
prover's reach): `InvocationEnds`, `RecoveryCompletes`, `StopEnds`, `OwnerIsGranted`,
`InjectionIsAnswered`. Every invariant and every action property of a passing run is a
theorem, with one exception: `PressesReachOneParty` is proved for the histories before the
first capture, as above, and the run `ownership` checks it with `captures = 0`. No module
that holds a theorem reaches a `RECURSIVE` operator.

## 7 Disagreements between code and documents

1. `boot_journal`. The promotion's README says that the journals "classify every
   accepted partial state". The journal itself is written in place under its
   final name (transaction.sh:382, 424, 466) and flushed afterwards. A power loss
   or a failing write in between leaves an empty or torn journal, which
   `r46h_tx_check_journal` rejects; then no mode, no recovery and no preflight
   accepts the directory, although `boot.ini` is exact (`Bootable` still holds).
2. `promotion_lock`. install.sh:163 says that another process holds the lock, but
   the exit trap removes the lock file by its name (install.sh:211). A command
   that opened it before the removal locks the removed file, a third one creates
   and locks a new one, and both go on.
3. `ownership_reuse`. HANDHELD.md:565 says that a change of owner neutralizes the
   old one and waits for a neutral pad. A privacy request for a capture leaves the
   desktop ready (handheld.cpp:321) and the owner is not decided again until it
   is answered. Meanwhile the foreground application exits and is reaped, a new
   one is launched into its slot, and for handheld.cpp:187 the owner, same kind
   and same slot, has not changed: no `Mode` is sent, and the new application
   reads the pad as the first one left it.

## 8 Observations

Facts met while modelling that no property calls wrong.

- Card engine: full mode reads a partition back right after it was written and
  never again, so damage done while a later partition is written stays unseen
  (`late` in the model); quick and balanced mode do not see the interior. If the
  final `Ejected` line is written but its sync fails, the journal may say safe
  while `receipt.json` says `Failed`. A failing progress append surfaces as a
  partial write. A reserved evidence directory whose parent could not be synced
  stays reserved.
- BOOT: the preflight (install.sh:572-591) calls `activate-partial` with
  `rollback-intent`, and `rollback-partial` with `activate-intent`, incompatible;
  `--rollback` accepts and finishes both.
- Agent: `defer { state.seal() }` (main.swift:39) does not run on a clean stop,
  which leaves through `exit`; the receipt's directory entry is not synced; a
  status that says complete stays when a later operation of the plan fails.
- Input: the pulse of a short stick click is made of the raw sample
  (input-route.h:87), so that it can show Select, or the Start of a running
  shortcut, to the owner, although input-route.h:54 and HANDHELD.md:561 reserve
  Select. `CancelInject` ticks the policy even while the router waits for a
  resynchronization (input-router.cpp:193). Home is queued and sends to the
  background whichever application is active by then. A `State` sent between a
  Mode and a later `CancelInject` is dropped by the session because its sequence
  is the older one.
- File share: `halt()` run by a signal waits for `server.lock` in the main thread
  (transfer_server.py:168), which may hold it in `process_request`
  (transfer_server.py:179). With `Signals` TRUE, TLC finds this in `FileShare` as a
  violation of `NoSelfWait`; no run checks it, and `StopEnds` is checked without
  signals. TRANSFER.md:49-52 promises that a normal stop removes partial uploads;
  this one does not.
- Ports: the content of a generation is never synced, only the index that selects it
  (manager.py:368); with `LosesContent` TRUE, a power loss leaves an index that names
  a damaged generation. "Retain both versions while durability is uncertain", says
  manager.py:380-381 of an index that was replaced but could not be synced. The invocation
  that meets this does so. The next one, even a `catalog`, does not know of it: its
  `collect_runtimes` (manager.py:271-289) goes by the index it reads and removes a runtime
  that only the older index names. A power loss before the directory is written back
  brings that older index back, with its generation there and its runtime gone.
  `RuntimesStay` says exactly this: it holds of both indexes until such an invocation
  begins (`overlooked`), and of the visible one until such a power loss (`reverted`).
  Without the exceptions TLC finds the history: an uninstall whose index is published but
  not synced, a `list` that collects and removes the runtime, a power failure that brings
  the older index back.
- Cache tree: the descriptor through which an entry was checked is closed before the entry
  is unlinked by its name (r46h_card_toolchain.py:864-870), and a pruning unlinks with no
  comparison (1257-1260). A file, a link, a special file or an empty directory that
  another process puts in its place between the two is removed unchecked. What a
  directory holds is safe: it is emptied through its own descriptor and `rmdir` refuses a
  stocked one.
- Toolchain: the lock belongs to a cache root, the release directory to the
  repository. Two builds with different cache roots both hold their lock, and each
  removes the generation the other one made current (r46h_card_toolchain.py:2114).
  The cache marker is created under its name and then written
  (r46h_card_toolchain.py:624); a kill in between leaves a marker that every later run
  refuses.
- Builders: a release or pointer torn by a power loss is refused, and refusing it
  also keeps a new one from being built. No promotion builder syncs a directory after the
  rename and the replacement of CURRENT (build-r46h-v15-boot-promotion.py:702-713,
  build-r46h-v16-boot-promotion.py:756-766), so a power loss may keep the pointer and take
  the generation, and CURRENT dangles until that generation is built again; of the one-shot
  builders v11 syncs the directory of CURRENT, none that of the releases. The images of a
  first-version release are not synced before they are published and called PASS
  (build-r46h-first-version-release.py:1318-1320, 1532), nor is the p3 image by its builder;
  the v0.15 archive is written without a sync (build-r46h-v15-boot-promotion.py:685),
  v0.16 publishes its generation before it validates it
  (build-r46h-v16-boot-promotion.py:967), and both one-shot MMC builders read the
  overlay again after its commit was established
  (build-r46h-v16-mmc-cold-isolation.py:502, build-r46h-v17-mmc-power-settle.py:508).
- P1: the Card Agent writes p1 in place and in pieces (CardDevice.swift:449); p1 holds both
  the fallback and the candidate, so that while it is written, and after a cut, the card has
  neither, and only the clone or the candidate image makes it whole again.
- P3 plans: the generator reads HEAD once (generate-easyroms-p3-write-plan.py:366), hashes
  the image later (482-488) and writes the plan without a further look: when the plan is
  there, HEAD may have moved and the artifact may be another one or gone. `PlanIsPinned`
  is about the sum that the plan names, which the Card Agent checks again.
- Audit: the helper is checked and then executed by its path.
- USB staging: files that are already there are compared but not synced
  (stage-v11-usb-one-shot-macos.py:392-404; `UsbStage` lets a pulled drive tear them and
  assumes no pull between the read back and the eject), the eject names the
  device node (437-445), and `prepare` erases whatever is at the node by then
  (517-527).
- One-shot scripts: an install that is killed leaves its stage, whose name holds its
  process id, and nothing removes it; a power loss between rename and sync may bring
  back what was there.

## 9 What is not modelled

Inside the modelled parts:

- Bytes, digests, sizes, paths, formatting and display; sources and identities are
  checked as "the right one" or "another one".
- `BootTransaction`: SIGKILL in the middle of a command (the shell ends by an
  error or with the power), loss of a STATUS rename after a sync that failed,
  other writers to the partition, the FAT dirty flag. The v0.15 promotion has the
  same structure, v0.17 is rendered from this one.
- `CardAgent`: the terminal display, the creation of the session directory, hash
  values, the parsing of requests and paths. Reads, clones, mounts and unmounts
  are modelled by when they hold the card and whether they fail.
- `InputPolicy`: sticks and triggers, which it copies.
- `InputOwnership`: closing and killing tasks, the task panel, overlay, volume
  and observation requests, start-up before the router's `Ready`, programs that fail to start, suspended
  groups, stale-state retries of the compositor, a full channel. Several
  `changed` signals of one operation are one `SceneChanged`.

- The host programs and builders: parsing of archives, manifests, receipts and kernel
  files, container and compiler runs, the text of rendered scripts, digests. A
  receipt is valid or not; a gate passes or not. `ToolchainRelease` runs with one
  cache root (section 8). `CacheTree`: the branches for Windows, a copy with no change
  detection (r46h_card_toolchain.py:1054-1058) and a removal by path (775-799), and what
  happens inside a directory that is being emptied, which is one step.
- `CardTransaction`: the arithmetic of the sampling ranges is the definition `Covered`, and
  `SafeEvidence` is about what it covers; an off-by-one in it is for a unit test.
- `ReadonlyAudit`: what becomes of an archive on its disk after it was marked complete.
- `FileShare`: listings, new directories, the resolution of paths, the window that
  starts the server (`transfer.cpp`).
- `PortStore`, `PortSession`: the catalogue, archive parsing and path checks.
- `ScreenFetch`: the tools behind the restricted SSH, modelled by what they answer.
- `CpuControl`: the shell scripts around the helper, which hold the leases.

Whole parts (PROJECT.json gives each its reason):

- planned (section 10): the compositor's policy, stopping and suspending
  applications, file operations, device, memory and runtime leases, target
  installer, input bridge, session scripts;
- left out because they keep no state that another step could meet: shell views and
  settings (display code and wrappers), root file system builders (sequential
  scripts in a container whose failed runs leave nothing), bring-up probes;
- not this project's logic: kernel patches and board support, emulator and port
  recipes, vendored programs.

## 10 Plan

Done: the card engine, the promotion, the Card Agent and its endpoint, the input
side, the Python programs of the developer's machine, and the share, ports, CPU helper,
remote control, upload, fetch and diagnostic of the handheld.

Models that remain, in this order:

1. `Applications`: stop, TERM and KILL with their clocks, suspension, failed
   starts, slots; then composed with `InputOwnership` in place of its four
   application actions. Hazard applications.cpp:57.
2. `DesktopPolicy`: compositor sequence numbers, stale-state retries, privacy and
   capture fences (`handheld-shell.cpp`, `capture.cpp`), refined by what
   `InputOwnership` assumes of the compositor.
3. `TargetInstaller`: journaled publication with the boot script last and the
   fault points of `lib.rs`; abstract specification `BootSwitch`.
4. `FileOperations`: copy, move across devices, trash, save.
5. `DeviceLease` with the session scripts that hold it; `InputBridge`.

Proofs that remain: of the properties that the runs check only liveness is without a
theorem, and the prover does not reach it. Worth stating next: what is true of a press after
a capture, and an abstract specification of a guarded operation, announced, written and
settled, that `CardAgent` and `OneShotInstall` both implement.
