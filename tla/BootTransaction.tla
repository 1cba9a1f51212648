-------------------------- MODULE BootTransaction --------------------------
(***************************************************************************)
(* transaction.sh: the three operations on the FAT BOOT directory that     *)
(* publish the versioned files of a new kernel (prepare), select its boot  *)
(* script (activate) and restore the old one (rollback).                   *)
(*                                                                         *)
(* The directory is modelled twice: as the mounted file system shows it    *)
(* and as a power loss leaves it.  Between two flushes every directory     *)
(* entry reaches the card on its own, and file data that was not flushed   *)
(* may be torn.  Every command of the script may fail.                     *)
(***************************************************************************)
EXTENDS Integers, FiniteSets

CONSTANTS
    NFiles,     \* versioned files of the target, published in this order
    MaxFaults   \* bound: commands that fail and power losses

ASSUME SizeAssumption == NFiles \in Nat \ {0} /\ MaxFaults \in Nat

Ops == {"prepare", "activate", "rollback"}
Files == 1..NFiles
BootIni == 0                       \* the active boot.ini among the files

Journal(op) == <<op, 0>>
File(f)  == <<"file", f>>
Stage(f) == <<"stage", f>>

Names == {Journal(op) : op \in Ops}
         \cup {File(f) : f \in 0..NFiles} \cup {Stage(f) : f \in 0..NFiles}

(* The two boot scripts; "exact" is the one right content of any other     *)
(* name.                                                                   *)
Contents == {"none", "torn", "exact", "fallback", "target"}

VARIABLES
    fs,      \* the directory as the mounted file system shows it
    disk,    \* the directory as a power loss leaves it
    raw,     \* names whose data has not been flushed
    pc,      \* the next command of the running operation
    job,     \* the operation and its recovery argument
    target,  \* the file being published
    result,  \* what the last operation returned
    faults   \* faults so far

dirVars == <<fs, disk, raw>>
txVars  == <<fs, disk, raw, pc, job, target, result, faults>>

TxInit ==
    /\ fs = [n \in Names |-> IF n = File(BootIni) THEN "fallback" ELSE "none"]
    /\ disk = fs /\ raw = {}
    /\ pc = "idle" /\ job = [op |-> "prepare", rec |-> FALSE]
    /\ target = BootIni /\ result = "none" /\ faults = 0

----------------------------------------------------------------------------
(* The BOOT directory *)

Put(n, c) == fs' = [fs EXCEPT ![n] = c] /\ raw' = raw \cup {n}
             /\ UNCHANGED disk

Remove(S) == fs' = [n \in Names |-> IF n \in S THEN "none" ELSE fs[n]]
             /\ raw' = raw \ S /\ UNCHANGED disk

Move(a, b) == /\ fs' = [fs EXCEPT ![a] = "none", ![b] = fs[a]]
              /\ raw' = (raw \ {a, b}) \cup (IF a \in raw THEN {b} ELSE {})
              /\ UNCHANGED disk

Flush == disk' = fs /\ raw' = {} /\ UNCHANGED fs

(* Any of the unflushed entries, some of them with torn data. *)
Unflushed == {n \in Names : fs[n] # disk[n]} \cup raw
Survives(d) ==
    \E S \in SUBSET Unflushed : \E T \in SUBSET (S \cap raw) :
        d = [n \in Names |-> IF n \in T THEN "torn"
                             ELSE IF n \in S THEN fs[n] ELSE disk[n]]

PartialFlush == Survives(disk') /\ UNCHANGED <<fs, raw>>

(* r46h_tx_detect_state; the active boot.ini tells the v15 and v16         *)
(* variants of a partial state apart.                                      *)
DetectState(b) ==
    LET journals  == {op \in Ops : b[Journal(op)] # "none"}
        published == {f \in Files : b[File(f)] # "none"}
        staged    == {f \in 0..NFiles : b[Stage(f)] # "none"}
        active    == b[File(BootIni)]
        exact     == /\ \A op \in journals : b[Journal(op)] = "exact"
                     /\ Cardinality(journals) <= 1
                     /\ \A f \in published : b[File(f)] = "exact"
                     /\ active \in {"fallback", "target"}
    IN  CASE ~exact -> "error"
          [] exact /\ journals = {"prepare"} /\ active = "fallback"
                   /\ BootIni \notin staged -> "prepare-partial"
          [] exact /\ journals = {"activate"} /\ published = Files ->
                "activate-partial"
          [] exact /\ journals = {"rollback"} /\ published = Files ->
                "rollback-partial"
          [] exact /\ journals = {} /\ staged = {} /\ published = {}
                   /\ active = "fallback" -> "base"
          [] exact /\ journals = {} /\ staged = {} /\ published = Files ->
                IF active = "fallback" THEN "prepared" ELSE "activated"
          [] OTHER -> "error"

----------------------------------------------------------------------------
(* One call of an operation *)

Fault == faults < MaxFaults /\ faults' = faults + 1
Goto(p) == pc' = p /\ UNCHANGED <<result, faults>>
Return(r) == pc' = "idle" /\ result' = r

FlushClearUnflushed == /\ pc = "flushClear" /\ UNCHANGED <<dirVars, target, faults, job>>
                       /\ Return("ok")

(* A command or a check that fails and leaves the directory alone. *)
Failed == Fault /\ Return("fail") /\ UNCHANGED <<dirVars, target>>

FromActive(op) == IF op = "rollback" THEN "target" ELSE "fallback"
ToActive(op)   == IF op = "activate" THEN "target" ELSE "fallback"

Fresh(op) == CASE op = "prepare"  -> "base"
               [] op = "activate" -> "prepared"
               [] op = "rollback" -> "activated"
Resumed(op) == CASE op = "prepare"  -> {"prepare-partial"}
                 [] op = "activate" -> {"activate-partial"}
                 [] op = "rollback" -> {"activate-partial", "rollback-partial"}
Finished(op) == CASE op = "prepare"  -> {"prepared"}
                  [] op = "activate" -> {"activated"}
                  [] op = "rollback" -> {"base", "prepared"}

Invoke(op, rec) ==
    /\ pc = "idle"
    /\ job' = [op |-> op, rec |-> rec] /\ target' = BootIni
    /\ pc' = "detect" /\ result' = "none"
    /\ UNCHANGED <<dirVars, faults>>

Detect ==
    /\ pc = "detect"
    /\ \/ /\ UNCHANGED <<dirVars, target>>
          /\ LET s == DetectState(fs) IN
             \/ /\ s \in Finished(job.op)
                /\ Return(IF job.rec THEN "fail" ELSE "ok")
                /\ UNCHANGED faults
             \/ s = Fresh(job.op) /\ ~job.rec /\ Goto("journal")
             \/ /\ s \in Resumed(job.op) /\ (job.rec \/ job.op = "rollback")
                /\ Goto(IF job.op = "prepare" THEN "space"
                        ELSE IF fs[File(BootIni)] = FromActive(job.op)
                             THEN "clearStage" ELSE "clear")
             \/ /\ s \notin Finished(job.op)
                /\ \/ s # Fresh(job.op) \/ job.rec
                /\ s \notin Resumed(job.op) \/ (~job.rec /\ job.op # "rollback")
                /\ Return("fail") /\ UNCHANGED faults
       \/ Failed
    /\ UNCHANGED job

WriteJournalForward ==
    /\ pc = "journal" /\ UNCHANGED <<target, job>> /\ Goto("flushJournal")
    /\ IF job.op = "rollback" THEN UNCHANGED dirVars
                              ELSE Put(Journal(job.op), "exact")

WriteJournal ==
    /\ pc = "journal"
    /\ \/ Put(Journal(job.op), "exact") /\ Goto("flushJournal") /\ UNCHANGED target
       \/ Put(Journal(job.op), "torn") /\ Fault /\ Return("fail") /\ UNCHANGED target
       \/ Failed
    /\ UNCHANGED job

FlushThen(p) == Flush /\ Goto(p)
FlushFails == PartialFlush /\ Fault /\ Return("fail") /\ UNCHANGED target

FlushJournal ==
    /\ pc = "flushJournal"
    /\ \/ FlushThen(IF job.op = "prepare" THEN "space" ELSE "clearStage")
          /\ UNCHANGED target
       \/ FlushFails
    /\ UNCHANGED job

CheckSpace ==
    /\ pc = "space"
    /\ \/ Goto("publish") /\ target' = 1 /\ UNCHANGED dirVars
       \/ Failed
    /\ UNCHANGED job

NextFile == IF target < NFiles THEN Goto("publish") /\ target' = target + 1
                               ELSE Goto("clear") /\ UNCHANGED target

Publish ==
    /\ pc = "publish"
    /\ \/ fs[File(target)] = "exact" /\ NextFile /\ UNCHANGED dirVars
       \/ fs[File(target)] = "none" /\ Goto("clearStage")
          /\ UNCHANGED <<dirVars, target>>
       \/ Failed
    /\ UNCHANGED job

ClearStageAndFile ==
    /\ pc = "clearStage" /\ Remove({Stage(target), File(target)})
    /\ Goto("copy") /\ UNCHANGED <<target, job>>

ClearStage ==
    /\ pc = "clearStage"
    /\ \/ Remove({Stage(target)}) /\ Goto("copy") /\ UNCHANGED target
       \/ Failed
    /\ UNCHANGED job

(* A versioned file, or the boot script that is to become active. *)
Payload == IF target = BootIni THEN ToActive(job.op) ELSE "exact"

CopyStage ==
    /\ pc = "copy"
    /\ \/ Put(Stage(target), Payload) /\ Goto("flushStage") /\ UNCHANGED target
       \/ Put(Stage(target), "torn") /\ Fault /\ Return("fail") /\ UNCHANGED target
       \/ Failed
    /\ UNCHANGED job

StageIsFlushedLater == Goto("rename") /\ UNCHANGED dirVars
StageIsFlushed == FlushThen("rename")

(* The stage is checked and flushed before it takes its final name. *)
FlushStage ==
    /\ pc = "flushStage"
    /\ \/ /\ fs[Stage(target)] = Payload
          /\ target = BootIni => fs[File(BootIni)] = FromActive(job.op)
          /\ target # BootIni => fs[File(target)] = "none"
          /\ StageIsFlushed /\ UNCHANGED target
       \/ FlushFails \/ Failed
    /\ UNCHANGED job

Rename ==
    /\ pc = "rename"
    /\ \/ Move(Stage(target), File(target)) /\ Goto("flushRename")
          /\ UNCHANGED target
       \/ Failed
    /\ UNCHANGED job

FlushRename ==
    /\ pc = "flushRename"
    /\ \/ Flush /\ IF target = BootIni THEN Goto("clear") /\ UNCHANGED target
                                       ELSE NextFile
       \/ FlushFails
    /\ UNCHANGED job

(* What rm is given at the end.  When rm fails it may have removed some:   *)
(* activate names the stage and the journal in commands of their own.      *)
Markers(op) ==
    CASE op = "prepare"  -> {Journal("prepare")}
      [] op = "activate" -> {Stage(BootIni), Journal("activate")}
      [] op = "rollback" -> {Stage(BootIni), Journal("activate"), Journal("rollback")}

ClearMarkers ==
    /\ pc = "clear"
    /\ \/ /\ fs[File(BootIni)] = ToActive(job.op)
          /\ job.op = "prepare" => \A f \in Files : fs[File(f)] = "exact"
          /\ Remove(Markers(job.op)) /\ Goto("flushClear") /\ UNCHANGED target
       \/ \E S \in SUBSET Markers(job.op) :
            /\ S # Markers(job.op)
            /\ job.op = "activate" => Journal("activate") \notin S
            /\ Remove(S) /\ Fault /\ Return("fail") /\ UNCHANGED target
    /\ UNCHANGED job

FlushClear ==
    /\ pc = "flushClear"
    /\ \/ /\ Flush /\ UNCHANGED <<target, faults>>
          /\ Return(IF DetectState(fs) \in Finished(job.op) \ {"base"}
                    THEN "ok" ELSE "fail")
       \/ FlushFails
    /\ UNCHANGED job

TxStep ==
    \/ Detect \/ WriteJournal \/ FlushJournal \/ CheckSpace \/ Publish
    \/ ClearStage \/ CopyStage \/ FlushStage \/ Rename \/ FlushRename
    \/ ClearMarkers \/ FlushClear

----------------------------------------------------------------------------
(* The caller and the power *)

Mounted == fs = disk /\ raw = {}

(* A call finds the directory freshly mounted; only the rollback after a   *)
(* failed activation follows in the same mount.                            *)
Call ==
    \/ Mounted /\ \E op \in Ops, rec \in BOOLEAN :
         (op = "rollback" => ~rec) /\ Invoke(op, rec)
    \/ job.op = "activate" /\ result = "fail" /\ Invoke("rollback", FALSE)

Unmount ==
    /\ pc = "idle" /\ ~Mounted
    /\ Flush /\ UNCHANGED <<pc, job, target, result, faults>>

PowerLoss ==
    /\ Fault
    /\ Survives(disk') /\ fs' = disk' /\ raw' = {}
    /\ pc' = "idle" /\ result' = "none" /\ UNCHANGED <<job, target>>

TxNext == Call \/ TxStep \/ Unmount \/ PowerLoss

TxSpec == TxInit /\ [][TxNext]_txVars

----------------------------------------------------------------------------
(* Properties *)

PCs == {"idle", "detect", "journal", "flushJournal", "space", "publish",
        "clearStage", "copy", "flushStage", "rename", "flushRename", "clear",
        "flushClear"}

(* The directory holds only names and contents detect_state knows, and the *)
(* operation that runs is at one of its commands.                          *)
TxTypeOK ==
    /\ fs \in [Names -> Contents] /\ disk \in [Names -> Contents]
    /\ raw \subseteq Names
    /\ pc \in PCs /\ job \in [op : Ops, rec : BOOLEAN]
    /\ target \in 0..NFiles /\ result \in {"none", "ok", "fail"}
    /\ faults \in 0..MaxFaults

Candidate == \A f \in Files : disk[File(f)] = "exact"

(* At whatever moment the power fails, the card selects one exact boot     *)
(* script, and the target's only when its versioned files are complete.    *)
Bootable ==
    /\ disk[File(BootIni)] \in {"fallback", "target"}
    /\ disk[File(BootIni)] = "target" => Candidate

(* An operation that returned success is durable: the directory on the     *)
(* card is in the state the operation is to reach.                         *)
SuccessIsDurable == result = "ok" => DetectState(disk) \in Finished(job.op)

(* boot.ini is never replaced unless a journal that explains the switch is *)
(* already on the card.                                                    *)
SwitchIsJournaled ==
    [][disk'[File(BootIni)] # disk[File(BootIni)] =>
         \E op \in {"activate", "rollback"} : disk[Journal(op)] = "exact"]_txVars

(* The directory implements the switch its user relies on. *)
Switch == INSTANCE BootSwitch WITH active <- disk[File(BootIni)],
                                   candidate <- Candidate
ImplementsSwitch == Switch!Spec

(* README: the journals classify every partial state, so that the next     *)
(* recovery can tell which boot script is active.                          *)
JournalsClassify == DetectState(disk) # "error"
============================================================================
