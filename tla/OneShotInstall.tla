----------------------------- MODULE OneShotInstall -----------------------------
(* What the builders of the one-shots put on the handheld: install.sh copies Image
   and DTB from /run to a versioned directory of the root partition, the remover it
   leaves there takes them away, and U-Boot starts them on one attended boot
   (render_install_script, render_remove_script and render_uboot_commands of
   build-v13-mmc-one-shot.py and its siblings).  The scripts run one at a time, as
   root; they are killed, the partition fills up, and power fails: what was not
   synced by then is there in part.                                            *)
EXTENDS Naturals, FiniteSets

CONSTANTS MaxRuns,    \* bound: times a script is started; it also names the stages ($$)
          MaxFaults   \* bound: kills, full partitions, power losses

Files == {"IMAGE.GZ", "R46H.DTB", "REMOVE.sh"}

\* The directory each run made: where its name is, and the bytes of each file.
Nowhere == "nowhere"
Places  == {"stage", "target", "tombstone"}
NoDir   == [at |-> Nowhere, has |-> [f \in Files |-> "absent"]]

VARIABLES dir,      \* [1..MaxRuns -> the directory of that run, as running programs see it]
          disk,     \* the same, as a power loss would leave it at the least
          run, own, pc,  \* the run under way, the directory it works on, its step
          bootRw,   \* the BOOT partition is mounted writable
          passed,   \* what the last script that ended well said: installed, removed or none
          booted,   \* the files U-Boot started
          faults

installVars == <<dir, disk, run, own, pc, bootRw, passed, booted, faults>>

InstallInit ==
  /\ dir = [r \in 1..MaxRuns |-> NoDir] /\ disk = dir
  /\ run = 0 /\ own = 0 /\ pc = "idle" /\ bootRw \in BOOLEAN
  /\ passed = "none" /\ booted = NoDir.has /\ faults = 0

Goes(from, to) == pc = from /\ pc' = to
Told == <<passed, booted>>
Same == <<run, own, bootRw>>

TargetIn(d) == {r \in 1..MaxRuns : d[r].at = "target"}
Target   == TargetIn(dir)
Whole(d) == \A f \in Files : d.has[f] = "whole"

-----------------------------------------------------------------------------
(* install.sh *)

\* Payload verified, running release and root as expected, the target not there.
BeginInstall ==
  /\ Goes("idle", "copy") /\ run < MaxRuns
  /\ ~bootRw /\ Target = {}
  /\ run' = run + 1 /\ own' = run'
  /\ dir' = [dir EXCEPT ![run'] = [NoDir EXCEPT !.at = "stage"]]
  /\ passed' = "none"
  /\ UNCHANGED <<disk, bootRw, booted, faults>>

CopyFile ==
  /\ pc = "copy" /\ UNCHANGED pc
  /\ \E f \in Files : dir[own].has[f] = "absent" /\ dir' = [dir EXCEPT ![own].has[f] = "whole"]
  /\ UNCHANGED <<disk, Same, Told, faults>>

\* Every staged file has its hash, and BOOT still is not writable.
VerifyStage ==
  /\ Goes("copy", "move") /\ Whole(dir[own]) /\ ~bootRw
  /\ UNCHANGED <<dir, disk, Same, Told, faults>>

MoveStage ==
  /\ Goes("move", "installed")
  /\ dir' = [dir EXCEPT ![own].at = "target"]
  /\ UNCHANGED <<disk, Same, Told, faults>>

\* Both scripts end with a sync of everything and say PASS.
SyncAll ==
  /\ pc \in {"installed", "removed"} /\ pc' = "idle"
  /\ disk' = dir /\ passed' = pc
  /\ UNCHANGED <<dir, Same, booted, faults>>

\* die, or a command that fails: the exit trap removes the stage.
CleanupStage ==
  /\ pc \in {"copy", "move"} /\ pc' = "idle"
  /\ dir' = [dir EXCEPT ![own] = NoDir]
  /\ UNCHANGED <<disk, Same, Told, faults>>

-----------------------------------------------------------------------------
(* REMOVE.sh *)

\* The remover runs from the target and checks every file there by its hash but
\* itself; one that was cut short does not run to its end.
BeginRemove ==
  /\ Goes("idle", "unlink") /\ run < MaxRuns
  /\ ~bootRw
  /\ run' = run + 1
  /\ \E r \in Target : Whole(dir[r]) /\ own' = r /\ dir' = [dir EXCEPT ![r].at = "tombstone"]
  /\ passed' = "none"
  /\ UNCHANGED <<disk, bootRw, booted, faults>>

RemoveFile ==
  /\ pc = "unlink" /\ UNCHANGED pc
  /\ \E f \in Files : dir[own].has[f] # "absent" /\ dir' = [dir EXCEPT ![own].has[f] = "absent"]
  /\ UNCHANGED <<disk, Same, Told, faults>>

RemoveTombstone ==
  /\ Goes("unlink", "removed") /\ dir[own].has = NoDir.has
  /\ dir' = [dir EXCEPT ![own] = NoDir]
  /\ UNCHANGED <<disk, Same, Told, faults>>

-----------------------------------------------------------------------------
(* U-Boot on the next cold start; every load is checked by its exact size. *)

\* mutant: only that the file is there
AnySize(content) == content # "absent"

\* The file system writes data before it lets a file grow: a file is whole or short.
ExactSize(content) == content = "whole"

UBootStarts ==
  /\ Goes("off", "idle")
  /\ \E r \in Target :
       /\ ExactSize(dir[r].has["IMAGE.GZ"]) /\ ExactSize(dir[r].has["R46H.DTB"])
       /\ booted' = dir[r].has
  /\ UNCHANGED <<dir, disk, Same, passed, faults>>

\* A load failed or has another size, or nobody typed the commands.
OrdinaryStart ==
  /\ Goes("off", "idle") /\ booted' = NoDir.has
  /\ UNCHANGED <<dir, disk, Same, passed, faults>>

-----------------------------------------------------------------------------
(* The handheld. *)

PowerOff ==
  /\ Goes("idle", "off") /\ disk' = dir
  /\ UNCHANGED <<dir, Same, Told, faults>>

Fault == faults < MaxFaults /\ faults' = faults + 1

\* Killed without the exit trap.
Kill ==
  /\ Fault /\ pc \notin {"idle", "off"} /\ pc' = "idle"
  /\ UNCHANGED <<dir, disk, Same, Told>>

\* A directory is where it was at the last sync, or where it is now with any of the
\* files that are not synced cut short.
Left(r) == {disk[r]} \cup
  {[dir[r] EXCEPT !.has = [f \in Files |-> IF f \in cut THEN "short" ELSE @[f]]] :
     cut \in SUBSET {f \in Files : dir[r].has[f] = "whole" /\ disk[r].has[f] # "whole"}}

\* One directory has the name of the target: a rename to it is only on the medium with
\* the one that took it away before.
PowerLoss ==
  /\ Fault /\ pc # "off" /\ pc' = "off"
  /\ dir' \in {d \in [1..MaxRuns -> UNION {Left(r) : r \in 1..MaxRuns}] :
                 /\ \A r \in 1..MaxRuns : d[r] \in Left(r)
                 /\ Cardinality(TargetIn(d)) <= 1}
  /\ disk' = dir'
  /\ UNCHANGED <<Same, Told>>

RemountBoot ==
  /\ bootRw' = ~bootRw
  /\ UNCHANGED <<dir, disk, run, own, pc, Told, faults>>

InstallNext ==
  \/ BeginInstall \/ CopyFile \/ VerifyStage \/ MoveStage \/ SyncAll \/ CleanupStage
  \/ BeginRemove \/ RemoveFile \/ RemoveTombstone
  \/ UBootStarts \/ OrdinaryStart \/ PowerOff \/ Kill \/ PowerLoss \/ RemountBoot

InstallSpec == InstallInit /\ [][InstallNext]_installVars

-----------------------------------------------------------------------------
(* What a script said when it ended well outlives a power loss: what was installed is
   whole in the target, what was removed is not there.  And U-Boot starts whole files
   only, also from a target that a power loss has left in part.                 *)
InstalledIsWhole ==
  /\ passed = "installed" => \E r \in Target : Whole(dir[r]) /\ Whole(disk[r])
  /\ passed = "removed" => Target = {}
  /\ \A f \in {"IMAGE.GZ", "R46H.DTB"} : booted[f] \in {"absent", "whole"}

(* What a script relies on: while one works there is no target but the one it has just
   made, what it verified is whole, and what the last one said is of synced
   directories.                                                                 *)
Dirs == [at : Places \cup {Nowhere}, has : [Files -> {"absent", "whole", "short"}]]
Working == {"copy", "move", "installed", "unlink", "removed"}

InstallTypes ==
  /\ dir \in [1..MaxRuns -> Dirs] /\ disk \in [1..MaxRuns -> Dirs]
  /\ run \in 0..MaxRuns /\ own \in 0..MaxRuns
  /\ passed \in {"none", "installed", "removed"}

OneTarget == \A r, s \in Target : r = s

WorkIsAlone ==
  /\ pc \in Working => own \in 1..MaxRuns /\ passed = "none"
  /\ pc \in Working \ {"installed"} => Target = {}
  /\ pc = "move" => Whole(dir[own])
  /\ pc = "installed" => own \in Target /\ Whole(dir[own])

InstallInv ==
  /\ InstallTypes /\ OneTarget /\ WorkIsAlone /\ InstalledIsWhole
  /\ passed # "none" => dir = disk
=============================================================================
