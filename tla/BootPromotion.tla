--------------------------- MODULE BootPromotion ---------------------------
(***************************************************************************)
(* install.sh: the command an operator runs, one mode at a time, around    *)
(* the operations of transaction.sh.  It keeps a STATUS on the root file   *)
(* system (intent before the BOOT directory is touched, the completed      *)
(* state with the hash of the whole partition afterwards), mounts and      *)
(* unmounts BOOT, restores the old boot script when an activation fails,   *)
(* and is rerun after failures, power losses and reboots.                  *)
(***************************************************************************)
EXTENDS BootTransaction

CONSTANT MaxStops   \* bound: commands that fail outside the operations

ASSUME StopsAssumption == MaxStops \in Nat

VARIABLES
    status,   \* state= of the STATUS file, and what its absence means
    sealed,   \* the partition's bytes are the ones whose hash STATUS records
    mounted,  \* BOOT is mounted writable
    step,     \* where the running command is; "none" when none runs
    mode,     \* the mode of that command
    running,  \* the boot script the system was last booted with
    stops     \* commands that failed so far

promoVars == <<status, sealed, mounted, step, mode, running, stops>>
vars == <<txVars, promoVars>>

Intent == [prepare |-> "prepare-intent", activate |-> "activate-intent",
           rollback |-> "rollback-intent"]
Intents == {Intent[m] : m \in DOMAIN Intent}
Recovery == {"recover-prepare", "recover-activate", "rollback"}

(* "restore" is the rollback that a failed activation starts.              *)
Preparing  == {"prepare", "recover-prepare"}
Activating == {"activate", "recover-activate"}
Modes == Preparing \cup Activating \cup {"rollback", "restore", "postflight"}

(* What a mode has to find in BOOT at its end, and the status it records.  *)
Goal(m) == CASE m \in Preparing  -> [boot |-> "prepared",  status |-> "prepared"]
             [] m \in Activating -> [boot |-> "activated", status |-> "activated"]
             [] m \in {"rollback", "restore"} ->
                  [boot |-> "prepared", status |-> "rollback-complete"]
             [] m = "postflight" -> [boot |-> "activated", status |-> "complete"]

Init ==
    /\ TxInit
    /\ status = "absent" /\ sealed = TRUE /\ mounted = FALSE
    /\ step = "none" /\ mode = "prepare" /\ running = "fallback" /\ stops = 0

----------------------------------------------------------------------------
(* What the modes read before anything is written *)

(* perform_rollback: also what an interrupted rollback left.               *)
AdmitsRollback(s, b) ==
    /\ s \in {"activated", "complete", "activate-intent", "rollback-intent"}
    /\ b \in {"activated", "prepared", "activate-partial", "rollback-partial"}

(* verify_candidate_boot: the kernel that runs is the new one.             *)
CandidateRuns == running = "target"

AdmitsPostflight(s, b, exact) ==
    s = "activated" /\ exact /\ b = "activated" /\ CandidateRuns

Admits(m, s, b, exact) ==
    CASE m = "prepare" ->
           s \in {"absent", "retention-partial"} /\ exact /\ b = "base"
      [] m = "recover-prepare" -> s = "prepare-intent"
      [] m = "activate" ->
           s \in {"prepared", "rollback-complete"} /\ exact /\ b = "prepared"
      [] m = "recover-activate" -> s = "activate-intent"
      [] m = "rollback"   -> AdmitsRollback(s, b)
      [] m = "postflight" -> AdmitsPostflight(s, b, exact)
      [] OTHER -> FALSE

----------------------------------------------------------------------------
(* One command *)

At(s) == step = s /\ pc = "idle"
GoOn(s) == step' = s /\ UNCHANGED <<mode, running, stops>>
Stop == stops < MaxStops /\ stops' = stops + 1
Die == GoOn("cleanup") /\ UNCHANGED <<txVars, status, sealed, mounted>>

(* A command refuses to start while BOOT is mounted.                       *)
Start(m) ==
    /\ At("none") /\ ~mounted
    /\ Admits(m, status, DetectState(disk), sealed)
    /\ mode' = m
    /\ step' = CASE m = "prepare" -> "retain"
                 [] m \in {"activate", "rollback"} -> "intent"
                 [] m = "postflight" -> "record"
                 [] OTHER -> "mount"
    /\ UNCHANGED <<txVars, status, sealed, mounted, running, stops>>

RetainPayload ==
    /\ At("retain") /\ status' = "retention-partial" /\ GoOn("intent")
    /\ UNCHANGED <<txVars, sealed, mounted>>

(* STATUS is replaced by one rename; the hash it records is the one just   *)
(* read from the partition or found equal to it.                           *)
WriteIntent ==
    /\ At("intent") /\ status' = Intent[mode] /\ sealed' = TRUE
    /\ GoOn("mount") /\ UNCHANGED <<txVars, mounted>>

(* A writable mount alone changes the bytes of the partition.              *)
Mount ==
    /\ At("mount") /\ mounted' = TRUE /\ sealed' = FALSE
    /\ GoOn("dispatch") /\ UNCHANGED <<txVars, status>>

Run(op, rec, m) ==
    /\ Invoke(op, rec) /\ step' = "tx" /\ mode' = m
    /\ UNCHANGED <<status, sealed, mounted, running, stops>>

SkipRefused == Die
Skip == GoOn("unmount") /\ UNCHANGED <<txVars, status, sealed, mounted>>

PrepareBoot(b) ==
    /\ mode \in Preparing
    /\ \/ b = "base" /\ Run("prepare", FALSE, mode)
       \/ b = "prepare-partial" /\ Run("prepare", TRUE, mode)
       \/ b = "prepared" /\ Skip
       \/ b \notin {"base", "prepare-partial", "prepared"} /\ Die

(* A directory that is not half activated is put back to the old script.   *)
ActivateBoot(b) ==
    /\ mode \in Activating
    /\ \/ b = "prepared" /\ Run("activate", FALSE, mode)
       \/ b = "activate-partial" /\ Run("activate", TRUE, mode)
       \/ b = "activated" /\ Skip
       \/ b = "error" /\ Die
       \/ /\ b \notin {"prepared", "activate-partial", "activated", "error"}
          /\ Run("rollback", FALSE, "restore")

RollBack == mode = "rollback" /\ Run("rollback", FALSE, mode)

Dispatch ==
    /\ At("dispatch")
    /\ \/ PrepareBoot(DetectState(fs)) \/ ActivateBoot(DetectState(fs))
       \/ RollBack

Transact == step = "tx" /\ TxStep /\ UNCHANGED promoVars

Returned ==
    /\ At("tx")
    /\ \/ result = "ok" /\ Skip
       \/ result = "fail" /\ mode \in Activating /\ Run("rollback", FALSE, "restore")
       \/ result = "fail" /\ mode \notin Activating /\ Die

UnmountBoot ==
    /\ At("unmount") /\ Flush /\ mounted' = FALSE /\ GoOn("verify")
    /\ UNCHANGED <<pc, job, target, result, faults, status, sealed>>

Verify ==
    /\ At("verify")
    /\ \/ DetectState(disk) = Goal(mode).boot /\ GoOn("record")
          /\ UNCHANGED <<txVars, status, sealed, mounted>>
       \/ DetectState(disk) # Goal(mode).boot /\ Die

Record ==
    /\ At("record") /\ status' = Goal(mode).status /\ sealed' = TRUE
    /\ GoOn("none") /\ UNCHANGED <<txVars, mounted>>

(* Any command of the script may fail; set -e ends it.                     *)
Fails ==
    /\ step \notin {"none", "tx", "cleanup"} /\ pc = "idle" /\ Stop
    /\ step' = "cleanup"
    /\ UNCHANGED <<txVars, status, sealed, mounted, mode, running>>

(* The exit trap unmounts, or warns that it could not.                     *)
Cleanup ==
    /\ At("cleanup") /\ step' = "none"
    /\ \/ Flush /\ mounted' = FALSE /\ UNCHANGED stops
       \/ mounted /\ Stop /\ UNCHANGED <<dirVars, mounted>>
    /\ UNCHANGED <<pc, job, target, result, faults, status, sealed, mode, running>>

----------------------------------------------------------------------------
(* The operator and the power *)

Crash ==
    /\ PowerLoss /\ step' = "none" /\ mounted' = FALSE
    /\ running' = disk'[File(BootIni)] /\ UNCHANGED <<status, sealed, mode, stops>>

Reboot ==
    /\ At("none") /\ (mounted \/ running # disk[File(BootIni)])
    /\ Flush /\ mounted' = FALSE /\ running' = fs[File(BootIni)]
    /\ UNCHANGED <<pc, job, target, result, faults, status, sealed, step, mode, stops>>

Progress ==
    \/ RetainPayload \/ WriteIntent \/ Mount \/ Dispatch \/ Transact \/ Returned
    \/ UnmountBoot \/ Verify \/ Record \/ Cleanup

Next == (\E m \in Modes : Start(m)) \/ Progress \/ Fails \/ Crash \/ Reboot

Spec == Init /\ [][Next]_vars

(* A command that runs ends, and the operator reruns the recovery the      *)
(* status calls for, rebooting first when BOOT was left mounted.           *)
FairSpec == Spec /\ WF_vars(Progress) /\ WF_vars(Reboot)
                 /\ WF_vars(\E m \in Recovery : Start(m))

----------------------------------------------------------------------------
(* Properties *)

Steps == {"none", "retain", "intent", "mount", "dispatch", "tx", "unmount",
          "verify", "record", "cleanup"}

(* The command is at one of its steps, and STATUS holds one of the states  *)
(* load_status accepts.                                                    *)
TypeOK ==
    /\ TxTypeOK
    /\ status \in {"absent", "retention-partial", "prepared", "activated",
                   "complete", "rollback-complete"} \cup Intents
    /\ sealed \in BOOLEAN /\ mounted \in BOOLEAN
    /\ step \in Steps /\ mode \in Modes /\ running \in {"fallback", "target"}
    /\ stops \in 0..MaxStops

(* A status that is not an intent is the truth about the card at every     *)
(* moment, a power loss included: BOOT is exactly in that state and its    *)
(* bytes are the ones recorded.                                            *)
StatusIsTrue ==
    status \notin Intents =>
        /\ sealed
        /\ DetectState(disk) =
             CASE status \in {"absent", "retention-partial"}   -> "base"
               [] status \in {"prepared", "rollback-complete"} -> "prepared"
               [] status \in {"activated", "complete"}         -> "activated"

(* Whatever failed, a status that announces an intent leaves the operator  *)
(* a mode that accepts the pair of status and BOOT state, unless the       *)
(* directory itself cannot be classified.                                  *)
RecoveryIsAdmitted ==
    status \in Intents /\ DetectState(disk) # "error" =>
        \E m \in Recovery : Admits(m, status, DetectState(disk), sealed)

(* The command drives the operations of transaction.sh the way they are    *)
(* meant to be: on a fresh mount, or the rollback after an activation.     *)
ImplementsTransaction == TxSpec

(* What is told of a promotion holds at every moment, a power loss included: a   *)
(* command that reports success left BOOT in the state it names on the medium,   *)
(* a status that is no intent is the truth, and an intent leaves a way out.      *)
OutcomeIsTrue == TypeOK /\ SuccessIsDurable /\ StatusIsTrue /\ RecoveryIsAdmitted

(* boot.ini is replaced only when a journal that explains the switch is on the   *)
(* card, and the command drives the operations of transaction.sh the way they    *)
(* are meant to be driven.                                                       *)
StepsAreJournaled == SwitchIsJournaled /\ ImplementsTransaction

(* An interrupted promotion is brought to a completed status, unless BOOT  *)
(* cannot be classified.                                                   *)
RecoveryCompletes ==
    status \in Intents ~> status \notin Intents \/ DetectState(disk) = "error"
============================================================================
