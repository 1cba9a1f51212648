------------------------------ MODULE OneShotBuild ------------------------------
(* The builders of the attended one-shot boots: scripts/build-v11-usb-one-shot.py,
   build-v13-mmc-one-shot.py, build-v14-gaming-input-one-shot.py and the two
   device-tree candidates build-r46h-v16-mmc-cold-isolation.py and
   build-r46h-v17-mmc-power-settle.py.  Each captures the committed sources, takes
   the kernel from a pinned package, makes a payload, publishes it and validates
   it.  They differ in what the payload is made of, in whether the stage is
   validated before it is published, and in what a release is: a generation that
   CURRENT names (v11, v14) or one directory (v13, v16, v17).                   *)
EXTENDS Sequences, FiniteSets, Naturals

CONSTANTS Versions,     \* subset of {"v11", "v13", "v14", "v16", "v17"}
          Builders,     \* processes
          Commits,      \* commits; each changes every source file
          MaxMoves,     \* bound: commits made, files edited and packages replaced
          MaxFaults     \* bound: kills and power losses

None  == "none"
Dirty == "dirty"

\* SOURCE_PATHS in order: the last one is the source the payload is made of (the
\* observer, the templates or the overlay), the first stands for the others.
Paths    == <<"closure", "payload">>
PathSet  == {Paths[i] : i \in 1..Len(Paths)}

VARIABLES v,        \* whose release root this is
          head,     \* commit HEAD names
          live,     \* [PathSet -> Commits or Dirty]: the working tree
          package,  \* the pinned package is the file under its name
          pc,       \* [Builders -> step]
          commit,   \* [Builders -> commit read with rev-parse]
          entries,  \* [Builders -> commits of the blobs captured so far, in order]
          source,   \* [Builders -> what the payload source is in the work directory]
          made,     \* [Builders -> the release in its stage]
          releases, \* published generations, or the one release directory
          torn,     \* releases a power loss left incomplete
          loose,    \* releases published since: a power loss may yet take them
          current,  \* generation CURRENT names
          looked,   \* [Builders -> the release it validates]
          passed,   \* [Builders -> it printed PASS]
          moves, faults

oneShotVars == <<v, head, live, package, pc, commit, entries, source, made, releases, torn, loose,
                 current, looked, passed, moves, faults>>

NoRelease == [commit |-> None, entries |-> <<>>, payload |-> None]

OneShotInit ==
  /\ v \in Versions
  /\ head \in Commits /\ live = [p \in PathSet |-> head] /\ package = TRUE
  /\ pc = [b \in Builders |-> "start"]
  /\ commit = [b \in Builders |-> None] /\ entries = [b \in Builders |-> <<>>]
  /\ source = [b \in Builders |-> None] /\ made = [b \in Builders |-> NoRelease]
  /\ releases = {} /\ torn = {} /\ loose = {} /\ current = NoRelease
  /\ looked = [b \in Builders |-> NoRelease] /\ passed = [b \in Builders |-> FALSE]
  /\ moves = 0 /\ faults = 0

Goes(b, from, to) == pc[b] = from /\ pc' = [pc EXCEPT ![b] = to]
World   == <<v, head, live, package, moves, faults>>
Taken   == <<commit, entries, source>>
Store   == <<releases, torn, loose, current>>
Seen    == <<looked, passed>>

HasGenerations == v \in {"v11", "v14"}

-----------------------------------------------------------------------------
(* require_clean_source: one git command after the other. *)

\* v16 and v17 refuse at once when a release exists; v17 loads the v16 builder as
\* a library only when it is the blob of HEAD.
MayStart ==
  /\ v \in {"v16", "v17"} => releases = {}
  /\ v = "v17" => live["closure"] = head
  /\ \A p \in PathSet : live[p] = head

RequireClean(b) ==
  /\ Goes(b, "start", "rev") /\ MayStart
  /\ UNCHANGED <<Taken, made, Store, Seen, World>>

ReadCommit(b) ==
  /\ Goes(b, "rev", "capture")
  /\ commit' = [commit EXCEPT ![b] = head]
  /\ UNCHANGED <<entries, source, made, Store, Seen, World>>

\* The live file is compared with the blob HEAD has by now.
CaptureFile(b) ==
  /\ pc[b] = "capture" /\ Len(entries[b]) < Len(Paths)
  /\ live[Paths[Len(entries[b]) + 1]] = head
  /\ entries' = [entries EXCEPT ![b] = Append(@, head)]
  /\ UNCHANGED <<pc, commit, source, made, Store, Seen, World>>

Captured(b) == pc[b] = "capture" /\ Len(entries[b]) = Len(Paths)

\* The package is read through one descriptor, or hashed and read again with every
\* part compared with its pinned digest: the bytes used are the pinned ones.
V11Package == package
V13Package == package
V14Package == package
BaseDtb    == package

\* v11 works on a snapshot of the blobs, v14 on the blobs themselves, v13 has its
\* scripts in the program; v16 and v17 read the overlay from the working tree
\* again, after it was compared.
SourceOf(b) ==
  IF v \in {"v16", "v17"} THEN live["payload"] ELSE entries[b][Len(Paths)]

TakeInputs(b) ==
  /\ pc[b] = "capture" /\ Captured(b)
  /\ CASE v = "v11" -> V11Package [] v = "v13" -> V13Package
       [] v = "v14" -> V14Package [] OTHER -> BaseDtb
  /\ pc' = [pc EXCEPT ![b] = IF v = "v11" THEN "tests" ELSE "compose"]
  /\ source' = [source EXCEPT ![b] = SourceOf(b)]
  /\ UNCHANGED <<commit, entries, made, Store, Seen, World>>

\* run_host_tests: the committed tests run inside the snapshot, and may write there.
HostTests(b) ==
  /\ Goes(b, "tests", "compose")
  /\ \E after \in {source[b], Dirty} : source' = [source EXCEPT ![b] = after]
  /\ UNCHANGED <<commit, entries, made, Store, Seen, World>>

\* require_source_snapshot: the snapshot is compared with the blobs again.
SnapshotKept(b) == source[b] = entries[b][Len(Paths)]

-----------------------------------------------------------------------------
(* The payload.  Compilers and archivers run twice and are deterministic, and the
   archive is read back: the payload is a function of its source.             *)

V11Compile(b) == source[b]        \* compile_observer, from the snapshot
V13Compile(b) == "program"        \* the scripts are templates of the program
V14Compile(b) == source[b]        \* render_template, of the captured templates
V16Compile(b) == source[b]        \* compile_candidate, overlay applied to the base
V17Compile(b) == source[b]

Compile(b) ==
  CASE v = "v11" -> V11Compile(b) [] v = "v13" -> V13Compile(b) [] v = "v14" -> V14Compile(b)
    [] v = "v16" -> V16Compile(b) [] v = "v17" -> V17Compile(b)

Compose(b) ==
  /\ Goes(b, "compose", "stage")
  /\ v = "v11" => SnapshotKept(b)
  /\ made' = [made EXCEPT ![b] =
       [commit |-> commit[b], entries |-> entries[b], payload |-> Compile(b)]]
  /\ UNCHANGED <<Taken, Store, Seen, World>>

\* validate_source_manifest: each entry is the blob of the commit the manifest names.
EntriesOfCommit(r) == \A i \in 1..Len(r.entries) : r.entries[i] = r.commit

\* v13 also compares the working tree.
V11Manifest(r) == EntriesOfCommit(r)
V13Manifest(r) == EntriesOfCommit(r) /\ \A p \in PathSet : live[p] = r.commit
V14Manifest(r) == EntriesOfCommit(r)
V17Manifest(r) == EntriesOfCommit(r)

\* mutant: the stage is not validated
StageTrusted(r) == r # NoRelease

\* Only v11 and v13 validate the stage; it is not published when that fails.
StageAccepted(r) ==
  CASE v = "v11" -> V11Manifest(r) [] v = "v13" -> V13Manifest(r) [] OTHER -> TRUE

ValidateStage(b) ==
  /\ Goes(b, "stage", "publish") /\ StageAccepted(made[b])
  /\ UNCHANGED <<Taken, made, Store, Seen, World>>

-----------------------------------------------------------------------------
(* Publication. *)

\* A generation is named after its commit and payload: equal ones have one name.
NameTaken(r) ==
  IF HasGenerations
  THEN \E g \in releases : g.commit = r.commit /\ g.payload = r.payload
  ELSE releases # {}

\* rename_noreplace, or a rename that fails on a directory with members.
RenameStage(b) ==
  /\ pc[b] = "publish" /\ ~NameTaken(made[b])
  /\ pc' = [pc EXCEPT ![b] = IF HasGenerations THEN "point" ELSE "validate"]
  /\ releases' = releases \cup {made[b]}
  /\ loose' = loose \cup {made[b]}
  /\ UNCHANGED <<torn, current, Taken, made, Seen, World>>

ReplaceCurrent(b) ==
  /\ Goes(b, "point", "validate")
  /\ current' = made[b]
  /\ UNCHANGED <<releases, torn, loose, Taken, made, Seen, World>>

\* Whatever is refused before the rename leaves no trace but removed work.
Refuse(b) ==
  /\ pc[b] \in {"start", "capture", "tests", "compose", "stage", "publish"}
  /\ \/ pc[b] = "start" /\ ~MayStart
     \/ pc[b] = "capture" /\ (Captured(b) => ~package)
          /\ (~Captured(b) => live[Paths[Len(entries[b]) + 1]] # head)
     \/ pc[b] = "tests"
     \/ pc[b] = "compose" /\ v = "v11" /\ ~SnapshotKept(b)
     \/ pc[b] = "stage" /\ ~StageAccepted(made[b])
     \/ pc[b] = "publish" /\ NameTaken(made[b])
  /\ pc' = [pc EXCEPT ![b] = "end"]
  /\ UNCHANGED <<Taken, made, Store, Seen, World>>

-----------------------------------------------------------------------------
(* Validation, after a build or on its own. *)

\* A build of v11 validates its own generation, one of v14 what CURRENT names.
Named(b) ==
  CASE v = "v11" -> {IF made[b] # NoRelease THEN made[b] ELSE current}
    [] v = "v14" -> {current}
    [] OTHER -> releases

BeginValidate(b) ==
  /\ Goes(b, "start", "validate")
  /\ v = "v11" => \A p \in PathSet : live[p] = head
  /\ commit' = [commit EXCEPT ![b] = head]
  /\ UNCHANGED <<entries, source, made, Store, Seen, World>>

LookUp(b) ==
  /\ Goes(b, "validate", "inspect")
  /\ \E r \in Named(b) \ {NoRelease} : looked' = [looked EXCEPT ![b] = r]
  /\ UNCHANGED <<passed, Taken, made, Store, World>>

\* The bytes agree with the release's own manifests and the pinned package; v16 and
\* v17 apply the archived overlay to the base again.
Whole(r)      == r \in releases \ torn
V11Accepts(r) == Whole(r) /\ V11Manifest(r)
V14Accepts(r) == Whole(r) /\ V14Manifest(r)
V16Archive(r) == Whole(r)
V16Accepts(r) == V16Archive(r) /\ package
Accepts(b) == LET r == looked[b] IN
  CASE v = "v11" -> V11Accepts(r) /\ r.commit = commit[b]
    [] v = "v13" -> Whole(r) /\ V13Manifest(r)
    [] v = "v14" -> V14Accepts(r)
    [] v = "v16" -> V16Accepts(r)
    [] v = "v17" -> V16Accepts(r) /\ V17Manifest(r)

Validate(b) ==
  /\ Goes(b, "inspect", "end") /\ Accepts(b)
  /\ passed' = [passed EXCEPT ![b] = TRUE]
  /\ UNCHANGED <<looked, Taken, made, Store, World>>

ValidateRefuses(b) ==
  /\ \/ pc[b] = "validate" /\ Named(b) \ {NoRelease} = {}
     \/ pc[b] = "inspect" /\ ~Accepts(b)
  /\ pc' = [pc EXCEPT ![b] = "end"]
  /\ UNCHANGED <<Taken, made, Store, Seen, World>>

-----------------------------------------------------------------------------
(* The repository and the host. *)

Move ==
  /\ moves < MaxMoves /\ moves' = moves + 1
  /\ \/ \E c \in Commits \ {head} :
          head' = c /\ live' = [p \in PathSet |-> c] /\ UNCHANGED package
     \/ \E p \in PathSet : live' = [live EXCEPT ![p] = Dirty] /\ UNCHANGED <<head, package>>
     \/ package' = FALSE /\ UNCHANGED <<head, live>>
  /\ UNCHANGED <<v, pc, Taken, made, Store, Seen, faults>>

Kill == \E b \in Builders :
  /\ faults < MaxFaults /\ faults' = faults + 1
  /\ pc[b] # "end" /\ pc' = [pc EXCEPT ![b] = "end"]
  /\ UNCHANGED <<v, head, live, package, Taken, made, Store, Seen, moves>>

\* v16 and v17 write their files without a sync.
ByteLoss == IF v \in {"v16", "v17"} THEN loose ELSE {}

\* The directory of the releases is not synced (that of CURRENT only by v11): a
\* release that was renamed since may be gone or, of v16 and v17, be there in part;
\* CURRENT may name an earlier one.
PowerLoss ==
  /\ faults < MaxFaults /\ faults' = faults + 1
  /\ pc' = [b \in Builders |-> "end"]
  /\ \E gone \in SUBSET loose : \E broken \in SUBSET (ByteLoss \ gone) :
       releases' = releases \ gone /\ torn' = torn \cup broken
  /\ loose' = {}
  /\ current' \in {current, NoRelease} \cup releases
  /\ HasGenerations \/ current' = current
  /\ UNCHANGED <<v, head, live, package, Taken, made, Seen, moves>>

\* A later invocation by the same operator.
Again(b) ==
  /\ Goes(b, "end", "start")
  /\ commit' = [commit EXCEPT ![b] = None] /\ entries' = [entries EXCEPT ![b] = <<>>]
  /\ source' = [source EXCEPT ![b] = None] /\ made' = [made EXCEPT ![b] = NoRelease]
  /\ looked' = [looked EXCEPT ![b] = NoRelease] /\ passed' = [passed EXCEPT ![b] = FALSE]
  /\ UNCHANGED <<Store, World>>

BuilderStep(b) ==
  \/ RequireClean(b) \/ ReadCommit(b) \/ CaptureFile(b) \/ TakeInputs(b) \/ HostTests(b)
  \/ Compose(b) \/ ValidateStage(b) \/ RenameStage(b) \/ ReplaceCurrent(b) \/ Refuse(b)
  \/ BeginValidate(b) \/ LookUp(b) \/ Validate(b) \/ ValidateRefuses(b) \/ Again(b)

OneShotNext == Move \/ Kill \/ PowerLoss \/ \E b \in Builders : BuilderStep(b)

OneShotSpec == OneShotInit /\ [][OneShotNext]_oneShotVars

-----------------------------------------------------------------------------
(* What v11 and v13 have published is of one commit, the one its manifest names,
   whatever was committed or edited during the build: the sources are captured
   one command at a time, and the observer of v11 comes from a snapshot in which
   tests ran.                                                                  *)
PublishedIsOfCommit ==
  v \in {"v11", "v13"} => \A r \in releases :
    EntriesOfCommit(r) /\ (v = "v11" => r.payload = r.commit)

(* Of every step: PASS means that the release it was printed about is whole and, but for v16,
   that its manifest is of one commit; for v14 then also its payload.          *)
PassIsOfCommit ==
  \A b \in Builders : ~passed[b] /\ passed'[b] =>
    /\ Whole(looked[b])
    /\ v # "v16" => EntriesOfCommit(looked[b])
    /\ v = "v14" => looked[b].payload = looked[b].commit

(* What v11 and v14 take their payload from is the last blob that was captured, until
   the release is there; what v11 and v13 are about to publish has the entries of
   the commit it names.                                                        *)
LastBlob(r) == Len(r.entries) = Len(Paths) /\ r.payload = r.entries[Len(Paths)]

OneShotTypes ==
  /\ v \in {"v11", "v13", "v14", "v16", "v17"}
  /\ {DOMAIN pc, DOMAIN commit, DOMAIN entries, DOMAIN source, DOMAIN made, DOMAIN looked,
      DOMAIN passed} = {Builders}

WorkOf(b) ==
  /\ pc[b] \in {"tests", "compose"} => Len(entries[b]) = Len(Paths)
  /\ pc[b] = "compose" /\ v = "v14" => source[b] = entries[b][Len(Paths)]
  /\ pc[b] = "tests" => v = "v11"
  /\ pc[b] \in {"stage", "publish"} /\ v \in {"v11", "v14"} => LastBlob(made[b])
  /\ pc[b] = "publish" /\ v \in {"v11", "v13"} => EntriesOfCommit(made[b])

OneShotInv ==
  /\ OneShotTypes /\ PublishedIsOfCommit
  /\ \A b \in Builders : WorkOf(b)
  /\ v \in {"v11", "v14"} => \A r \in releases : LastBlob(r)
=============================================================================
