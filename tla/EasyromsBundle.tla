--------------------------- MODULE EasyromsBundle ---------------------------
(***************************************************************************)
(* The generator of the EASYROMS deployment bundle                         *)
(* (scripts/generate-easyroms-bundle.py): it reads a canonical kernel      *)
(* package, binds it to the clean HEAD of the repository, stages a         *)
(* directory and an archive of it under private names, and publishes both  *)
(* without replacing anything.  Several generators may run for the same    *)
(* build id, the package file may be replaced and HEAD may move.           *)
(*                                                                         *)
(* A package version stands for the bytes and the metadata of the file.    *)
(***************************************************************************)
EXTENDS Naturals, FiniteSets

CONSTANTS Builders,         \* the generator processes
          Heads,            \* the commits that HEAD may name
          PackageVersions,  \* what the package file may hold
          CommitIn,         \* the source commit in the manifest of a version
          ReleaseIn,        \* the kernel release in the manifest of a version
          BaselineCommit, CurrentRelease, FallbackRelease,
          NoBundle

VARIABLES repoHead, repoClean,   \* HEAD, and whether mainline/ is clean
          packageFile,           \* the version in the package file
          bundleDir, bundleTar,  \* what the final names hold
          gen                    \* each generator

repoVars == <<repoHead, repoClean>>
bundleVars == <<repoVars, packageFile, bundleDir, bundleTar, gen>>

Fresh == [at |-> "read", opened |-> NoBundle, package |-> NoBundle, bound |-> NoBundle,
          policy |-> "full", copy |-> NoBundle]

BundleInit ==
    /\ repoHead \in Heads /\ repoClean = TRUE
    /\ packageFile \in PackageVersions
    /\ bundleDir = NoBundle /\ bundleTar = NoBundle
    /\ gen \in [Builders -> {[Fresh EXCEPT !.policy = a] : a \in {"full", "install-modules-only"}}]

At(b, where) == gen[b].at = where
Step(b, where) == gen' = [gen EXCEPT ![b].at = where]

(* What a generator publishes: the package its files were made from, the copy
   of the package file, the commit and the actions it allows. *)
Output(b) == [by |-> b, files |-> gen[b].package, tar |-> gen[b].copy,
              commit |-> gen[b].bound, actions |-> gen[b].policy]

(***************************************************************************)
(* Reading the package.                                                    *)
(***************************************************************************)
(* A regular file, the same by name and by handle. *)
OpenPackage(b) ==
    /\ At(b, "read")
    /\ gen' = [gen EXCEPT ![b].at = "reading", ![b].opened = packageFile]
    /\ UNCHANGED <<repoVars, packageFile, bundleDir, bundleTar>>

(* It still is what it was when it has been read and found canonical. *)
SourceUnchanged(b) == packageFile = gen[b].opened

ReadPackage(b) ==
    /\ At(b, "reading") /\ SourceUnchanged(b)
    /\ gen' = [gen EXCEPT ![b].at = "bind", ![b].package = gen[b].opened]
    /\ UNCHANGED <<repoVars, packageFile, bundleDir, bundleTar>>

(***************************************************************************)
(* The binding to the repository, and the audited deployment.              *)
(***************************************************************************)
BindHead(b) ==
    /\ At(b, "bind") /\ repoClean
    /\ CommitIn[gen[b].package] = repoHead
    /\ gen' = [gen EXCEPT ![b].at = "bound", ![b].bound = repoHead]
    /\ UNCHANGED <<repoVars, packageFile, bundleDir, bundleTar>>

(* Clean, at the bound HEAD, with the archive of it that was bound. *)
BindingHolds(b) == repoClean /\ repoHead = gen[b].bound

(* The package differs from what runs on the card and from the fallback. *)
DeploymentRelates(v) ==
    /\ CommitIn[v] # BaselineCommit
    /\ Cardinality({ReleaseIn[v], CurrentRelease, FallbackRelease}) = 3

ConfirmBinding(b) ==
    /\ At(b, "bound") /\ BindingHolds(b)
    /\ Step(b, "absent?")
    /\ UNCHANGED <<repoVars, packageFile, bundleDir, bundleTar>>

(* A first look at the output names, before anything is staged. *)
OutputsAbsent(b) ==
    /\ At(b, "absent?") /\ bundleDir = NoBundle /\ bundleTar = NoBundle
    /\ Step(b, "stage")
    /\ UNCHANGED <<repoVars, packageFile, bundleDir, bundleTar>>

(***************************************************************************)
(* Staging under private names.                                            *)
(***************************************************************************)
(* The copy of the package has the digest of what was read, and the file is
   the same before and after the copy. *)
CopyVerified(b) == SourceUnchanged(b) /\ packageFile = gen[b].package

(* The files come from the bytes that were read, the package itself is copied
   from its file again. *)
StageFiles(b) ==
    /\ At(b, "stage") /\ CopyVerified(b)
    /\ DeploymentRelates(gen[b].package)
    /\ gen' = [gen EXCEPT ![b].at = "staged", ![b].copy = packageFile]
    /\ UNCHANGED <<repoVars, packageFile, bundleDir, bundleTar>>

ArchiveStage(b) ==
    /\ At(b, "staged")
    /\ Step(b, "archived")
    /\ UNCHANGED <<repoVars, packageFile, bundleDir, bundleTar>>

RecheckBinding(b) ==
    /\ At(b, "archived") /\ BindingHolds(b)
    /\ Step(b, "publish")
    /\ UNCHANGED <<repoVars, packageFile, bundleDir, bundleTar>>

(***************************************************************************)
(* Publication, each name without replacing.                               *)
(***************************************************************************)
\* mutant: a rename that replaces
RenameReplaces(held) == TRUE

NoReplace(held) == held = NoBundle

PublishDir(b) ==
    /\ At(b, "publish") /\ NoReplace(bundleDir)
    /\ bundleDir' = Output(b)
    /\ Step(b, "dir out")
    /\ UNCHANGED <<repoVars, packageFile, bundleTar>>

PublishTar(b) ==
    /\ At(b, "dir out") /\ NoReplace(bundleTar)
    /\ bundleTar' = Output(b)
    /\ Step(b, "both out")
    /\ UNCHANGED <<repoVars, packageFile, bundleDir>>

(* Both names still hold what this generator moved there. *)
StillPublished(b) == bundleDir = Output(b) /\ bundleTar = Output(b)

FinalCheck(b) ==
    /\ At(b, "both out") /\ BindingHolds(b) /\ StillPublished(b)
    /\ Step(b, "done")
    /\ UNCHANGED <<repoVars, packageFile, bundleDir, bundleTar>>

(* Any check or call fails, or the process is killed: what is published stays,
   the private names stay as evidence, nothing is deleted by path. *)
GiveUp(b) ==
    /\ gen[b].at \notin {"done", "failed"}
    /\ gen' = [gen EXCEPT ![b].at = "failed"]
    /\ UNCHANGED <<repoVars, packageFile, bundleDir, bundleTar>>

(* The operator starts the generator again. *)
Rerun(b) ==
    /\ At(b, "failed")
    /\ gen' = [gen EXCEPT ![b] = [Fresh EXCEPT !.policy = gen[b].policy]]
    /\ UNCHANGED <<repoVars, packageFile, bundleDir, bundleTar>>

World ==
    /\ \/ packageFile' \in PackageVersions \ {packageFile} /\ UNCHANGED repoVars
       \/ repoClean' = ~repoClean /\ UNCHANGED <<repoHead, packageFile>>
       \/ /\ ~repoClean /\ repoHead' \in Heads \ {repoHead} /\ repoClean' = TRUE
          /\ UNCHANGED packageFile
    /\ UNCHANGED <<bundleDir, bundleTar, gen>>

BundleNext ==
    \/ \E b \in Builders :
          \/ OpenPackage(b) \/ ReadPackage(b) \/ BindHead(b) \/ ConfirmBinding(b)
          \/ OutputsAbsent(b) \/ StageFiles(b) \/ ArchiveStage(b) \/ RecheckBinding(b)
          \/ PublishDir(b) \/ PublishTar(b) \/ FinalCheck(b) \/ GiveUp(b) \/ Rerun(b)
    \/ World

BundleSpec == BundleInit /\ [][BundleNext]_bundleVars

-----------------------------------------------------------------------------
(* A published archive is always the archive of the published directory, also
   when two generators race for the names or one dies between the two. *)
PairFromOneBuilder == bundleTar # NoBundle => bundleDir = bundleTar

(* The boot files and the package copy in a published bundle come from one
   version of the package, built from the commit that the bundle is bound to,
   and it is neither what the card runs nor its fallback. *)
BundleIsOnePackage ==
    bundleDir # NoBundle =>
        /\ bundleDir.files = bundleDir.tar
        /\ CommitIn[bundleDir.files] = bundleDir.commit
        /\ DeploymentRelates(bundleDir.files)

(* What a generator knows at each step: it reads the package once and copies its
   file again later, while others may replace it.  Who published the directory
   holds it, so the others of the race stay without an archive.                 *)
PackageRead == {"bind", "bound", "absent?", "stage", "staged", "archived", "publish",
                "dir out", "both out", "done"}
HeadBound   == PackageRead \ {"bind"}
Copied      == {"staged", "archived", "publish", "dir out", "both out", "done"}
DirOut      == {"dir out", "both out", "done"}
Places      == {"read", "reading", "failed"} \cup PackageRead

Generators == [at : Places, opened : PackageVersions \cup {NoBundle},
               package : PackageVersions \cup {NoBundle}, bound : Heads \cup {NoBundle},
               policy : {"full", "install-modules-only"},
               copy : PackageVersions \cup {NoBundle}]
Bundles == [by : Builders, files : PackageVersions \cup {NoBundle},
            tar : PackageVersions \cup {NoBundle}, commit : Heads \cup {NoBundle},
            actions : {"full", "install-modules-only"}]

Knows(g) ==
    /\ g.at \in HeadBound => CommitIn[g.package] = g.bound
    /\ g.at \in Copied => g.copy = g.package /\ DeploymentRelates(g.package)

BundleOf(b, g) == [by |-> b, files |-> g.package, tar |-> g.copy,
                   commit |-> g.bound, actions |-> g.policy]

GenInv    == \A b \in Builders : gen[b] \in Generators /\ Knows(gen[b])
DirIsHeld == \A b \in Builders : gen[b].at \in DirOut => bundleDir = BundleOf(b, gen[b])

BundleInv ==
    /\ repoHead \in Heads /\ packageFile \in PackageVersions
    /\ gen = [b \in Builders |-> gen[b]]
    /\ bundleDir \in Bundles \cup {NoBundle}
    /\ GenInv /\ DirIsHeld /\ PairFromOneBuilder /\ BundleIsOnePackage

(* The steps of one generator that publish nothing and keep what it knows. *)
Goes(b, g) ==
    /\ gen' = [gen EXCEPT ![b] = g] /\ g \in Generators /\ Knows(g)
    /\ g.at \in DirOut => gen[b].at \in DirOut /\ BundleOf(b, g) = BundleOf(b, gen[b])
    /\ UNCHANGED <<repoHead, packageFile, bundleDir, bundleTar>>
=============================================================================
