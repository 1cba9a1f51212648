------------------------ MODULE BootPromotionProofs ------------------------
(***************************************************************************)
(* For every number of files, faults and failing commands: install.sh      *)
(* drives the operations of transaction.sh as they are meant to be driven, *)
(* so that what is proved of them holds under it; a STATUS that is no      *)
(* intent is the truth about the card; and an intent always leaves a mode  *)
(* that accepts it.                                                        *)
(*                                                                         *)
(* The first follows from where BOOT is mounted (MountInv), the second     *)
(* from what STATUS says at each step of a command (StatusInv), the third  *)
(* from what a directory that is rolled back can no longer become          *)
(* (RollbackInv).                                                          *)
(***************************************************************************)
EXTENDS BootPromotion, BootTransactionProofs, FiniteSetTheorems

(* The operation a mode runs, and the intent it runs under.                *)
OpOf(m) == CASE m \in Preparing -> "prepare"
             [] m \in Activating -> "activate"
             [] m \in {"rollback", "restore"} -> "rollback"
             [] OTHER -> "none"
IntentOf(m) == CASE m \in Preparing -> "prepare-intent"
                 [] m \in Activating \cup {"restore"} -> "activate-intent"
                 [] m = "rollback" -> "rollback-intent"
                 [] OTHER -> "none"

(* BOOT that is not mounted is flushed, and an operation runs only in a    *)
(* mount, fresh when it is the first one.                                  *)
MountInv ==
    /\ step # "tx" => pc = "idle"
    /\ ~mounted \/ step = "dispatch" => Mounted
    /\ step \in {"retain", "intent", "mount", "verify", "record"} => ~mounted
    /\ step \in {"dispatch", "tx", "unmount"} => mounted
    /\ step = "tx" => job.op = OpOf(mode)

(* STATUS is replaced by the intent before BOOT is mounted, and by the     *)
(* state that was found after it was unmounted.                            *)
StatusInv ==
    /\ StatusIsTrue
    /\ status \notin Intents =>
         Mounted /\ step \notin {"mount", "dispatch", "tx", "unmount"}
    /\ step = "record" => DetectState(disk) = Goal(mode).boot
    /\ step = "retain" => mode = "prepare" /\ status \in {"absent", "retention-partial"}
    /\ step = "intent" => mode \in DOMAIN Intent
    /\ step \in {"mount", "dispatch", "tx"} => status = IntentOf(mode)

(* A rollback starts on complete files without the journal of prepare, and *)
(* nothing under its intent brings that journal back.                      *)
NoPrepare ==
    /\ Candidate /\ Journal("prepare") \notin raw
    /\ fs[Journal("prepare")] = "none" /\ disk[Journal("prepare")] = "none"
RollbackInv ==
    status = "rollback-intent" \/ (mode = "rollback" /\ step = "intent") => NoPrepare

Types == status \in {"absent", "retention-partial", "prepared", "activated",
                     "complete", "rollback-complete"} \cup Intents
         /\ sealed \in BOOLEAN /\ mounted \in BOOLEAN
         /\ step \in Steps /\ mode \in Modes /\ running \in {"fallback", "target"}
         /\ stops \in 0..MaxStops

----------------------------------------------------------------------------
(* The command drives the operations *)

LEMMA IntentsAre == Intents = {"prepare-intent", "activate-intent", "rollback-intent"}
<1>1. DOMAIN Intent = {"prepare", "activate", "rollback"}
  BY DEF Intent
<1> QED BY <1>1 DEF Intents, Intent

LEMMA RunCalls ==
    ASSUME MountInv, mounted, NEW op \in Ops, NEW m \in Modes, op = OpOf(m), NEW rec \in BOOLEAN,
           Run(op, rec, m), Mounted \/ (job.op = "activate" /\ result = "fail"),
           Mounted \/ op = "rollback", op = "rollback" => ~rec
    PROVE  Call /\ MountInv'
<1>1. Call
  <2>1. CASE Mounted
    BY <2>1 DEF Run, Call
  <2>2. CASE ~Mounted
    BY <2>2 DEF Run, Call
  <2> QED BY <2>1, <2>2
<1>2. MountInv'
  BY DEF Run, Invoke, MountInv, Mounted, dirVars
<1> QED BY <1>1, <1>2

LEMMA FlushMounts ==
    ASSUME Flush, pc = "idle", UNCHANGED <<pc, job, target, result, faults>>
    PROVE  Mounted' /\ (Unmount \/ UNCHANGED txVars)
BY DEF Flush, Mounted, Unmount, txVars, dirVars

LEMMA ModeRuns ==
    ASSUME NEW m \in Modes
    PROVE  /\ m \in Preparing => OpOf(m) = "prepare" /\ IntentOf(m) = "prepare-intent"
           /\ m \in Activating => OpOf(m) = "activate" /\ IntentOf(m) = "activate-intent"
           /\ m \in {"rollback", "restore"} => OpOf(m) = "rollback"
           /\ IntentOf("restore") = "activate-intent"
           /\ IntentOf("rollback") = "rollback-intent"
           /\ m = "prepare" \/ m = "recover-prepare" <=> m \in Preparing
           /\ m = "activate" \/ m = "recover-activate" <=> m \in Activating
BY DEF OpOf, IntentOf, Preparing, Activating, Modes

LEMMA StartMounts ==
    ASSUME MountInv, NEW m \in Modes, Start(m)
    PROVE  MountInv' /\ UNCHANGED txVars
<1>1. step' \in {"retain", "intent", "record", "mount"}
  BY DEF Start
<1> QED BY <1>1 DEF Start, At, MountInv, Mounted, txVars

LEMMA QuietMounts ==
    ASSUME MountInv,
           \/ RetainPayload \/ WriteIntent \/ Mount \/ Verify \/ Record \/ Fails
    PROVE  MountInv' /\ UNCHANGED txVars
<1>1. UNCHANGED txVars
  BY DEF RetainPayload, WriteIntent, Mount, Verify, Record, Fails, Die
<1>2. Mounted' <=> Mounted
  BY <1>1 DEF txVars, Mounted
<1> QED BY <1>1, <1>2 DEF RetainPayload, WriteIntent, Mount, Verify, Record, Fails, Die,
       GoOn, At, MountInv, txVars

LEMMA DispatchMounts ==
    ASSUME MountInv, Types, Dispatch
    PROVE  MountInv' /\ (Call \/ UNCHANGED txVars)
<1>1. Mounted /\ mounted /\ pc = "idle" /\ step = "dispatch" /\ mode \in Modes
  BY DEF Dispatch, At, MountInv, Types
<1>2. CASE Skip \/ Die
  BY <1>1, <1>2 DEF Skip, Die, GoOn, MountInv, txVars, Mounted
<1>3. CASE \E rec \in BOOLEAN : mode \in Preparing /\ Run("prepare", rec, mode)
  BY <1>1, <1>3, RunCalls, ModeRuns DEF Ops
<1>4. CASE \E rec \in BOOLEAN : mode \in Activating /\ Run("activate", rec, mode)
  BY <1>1, <1>4, RunCalls, ModeRuns DEF Ops
<1>5. CASE Run("rollback", FALSE, "restore")
  BY <1>1, <1>5, RunCalls, ModeRuns DEF Ops, Modes
<1>6. CASE mode = "rollback" /\ Run("rollback", FALSE, mode)
  BY <1>1, <1>6, RunCalls, ModeRuns DEF Ops
<1> QED BY <1>2, <1>3, <1>4, <1>5, <1>6 DEF Dispatch, PrepareBoot, ActivateBoot, RollBack

LEMMA ReturnedMounts ==
    ASSUME MountInv, Types, Returned
    PROVE  MountInv' /\ (Call \/ UNCHANGED txVars)
<1>1. mounted /\ pc = "idle" /\ step = "tx" /\ mode \in Modes /\ job.op = OpOf(mode)
  BY DEF Returned, At, MountInv, Types
<1>2. CASE Skip \/ Die
  BY <1>1, <1>2 DEF Skip, Die, GoOn, MountInv, txVars, Mounted
<1>3. CASE result = "fail" /\ mode \in Activating /\ Run("rollback", FALSE, "restore")
  <2>1. job.op = "activate"
    BY <1>1, <1>3, ModeRuns
  <2>2. "restore" \in Modes /\ "rollback" \in Ops /\ OpOf("restore") = "rollback"
    BY ModeRuns DEF Ops, Modes
  <2> QED BY <1>1, <1>3, <2>1, <2>2, RunCalls
<1> QED BY <1>2, <1>3 DEF Returned

LEMMA MountStep ==
    ASSUME TxTypeOK, Types, MountInv, [Next]_vars
    PROVE  MountInv' /\ [TxNext]_txVars
<1>1. ASSUME NEW m \in Modes, Start(m) PROVE MountInv' /\ [TxNext]_txVars
  BY <1>1, StartMounts
<1>2. CASE RetainPayload \/ WriteIntent \/ Mount \/ Verify \/ Record \/ Fails
  BY <1>2, QuietMounts
<1>3. CASE Dispatch
  BY <1>3, DispatchMounts DEF TxNext
<1>4. CASE Transact
  <2>1. job' = job
    BY <1>4 DEF Transact, TxStep, Detect, WriteJournal, FlushJournal, CheckSpace, Publish,
       ClearStage, CopyStage, FlushStage, Rename, FlushRename, ClearMarkers, FlushClear
  <2> QED BY <1>4, <2>1 DEF Transact, promoVars, MountInv, TxNext
<1>5. CASE Returned
  BY <1>5, ReturnedMounts DEF TxNext
<1>6. CASE UnmountBoot
  BY <1>6, FlushMounts DEF UnmountBoot, At, GoOn, MountInv, TxNext
<1>7. CASE Cleanup
  <2>1. pc = "idle" /\ step' = "none" /\ UNCHANGED <<pc, job, target, result, faults>>
    BY <1>7 DEF Cleanup, At
  <2>2. CASE Flush /\ mounted' = FALSE
    BY <2>1, <2>2, FlushMounts DEF MountInv, TxNext
  <2>3. CASE mounted /\ UNCHANGED <<dirVars, mounted>>
    BY <2>1, <2>3 DEF MountInv, txVars, dirVars
  <2> QED BY <1>7, <2>2, <2>3 DEF Cleanup
<1>8. CASE Crash
  BY <1>8 DEF Crash, PowerLoss, MountInv, Mounted, TxNext
<1>9. CASE Reboot
  BY <1>9, FlushMounts DEF Reboot, At, MountInv, TxNext
<1>10. CASE UNCHANGED vars
  BY <1>10 DEF vars, promoVars, txVars, MountInv, Mounted
<1> QED BY <1>1, <1>2, <1>3, <1>4, <1>5, <1>6, <1>7, <1>8, <1>9, <1>10 DEF Next, Progress

----------------------------------------------------------------------------
(* What a mount that is flushed loses                                      *)

LEMMA DirAt ==
    ASSUME TxTypeOK, Mounted, NEW d, Survives(d)
    PROVE  d = disk
<1>1. Unflushed = {}
  BY DEF Mounted, Unflushed
<1>2. PICK S \in SUBSET Unflushed : \E T \in SUBSET (S \cap raw) :
        d = [n \in Names |-> IF n \in T THEN "torn"
                             ELSE IF n \in S THEN fs[n] ELSE disk[n]]
  BY DEF Survives
<1>3. d = [n \in Names |-> disk[n]]
  BY <1>1, <1>2
<1> QED BY <1>3 DEF TxTypeOK

----------------------------------------------------------------------------
(* What STATUS says *)

LEMMA TypesStep ==
    ASSUME BootInv, BootInv', Types, StatusInv, [Next]_vars
    PROVE  Types'
<1>1. CASE UNCHANGED vars
  BY <1>1 DEF vars, promoVars, Types
<1>2. ASSUME NEW m \in Modes, Start(m) PROVE Types'
  <2>1. step' \in Steps
    BY <1>2 DEF Start, Steps
  <2> QED BY <1>2, <2>1 DEF Start, Types
<1>3. CASE RetainPayload \/ Mount \/ Verify
  BY <1>3 DEF RetainPayload, Mount, Verify, Die, GoOn, Types, Steps
<1>4. CASE WriteIntent
  <2>1. Intent[mode] \in Intents
    BY <1>4 DEF WriteIntent, At, StatusInv, Intents
  <2> QED BY <1>4, <2>1 DEF WriteIntent, GoOn, Types, Steps
<1>5. ASSUME NEW op, NEW rec, NEW m \in Modes, Run(op, rec, m) PROVE Types'
  BY <1>5 DEF Run, Types, Steps
<1>6. CASE Skip \/ Die
  BY <1>6 DEF Skip, Die, GoOn, Types, Steps
<1>7. CASE Dispatch \/ Returned
  <2>1. mode \in Modes /\ "restore" \in Modes
    BY DEF Types, Modes
  <2> QED BY <1>5, <1>6, <1>7, <2>1 DEF Dispatch, PrepareBoot, ActivateBoot, RollBack, Returned
<1>8. CASE Transact
  BY <1>8 DEF Transact, promoVars, Types
<1>9. CASE UnmountBoot \/ Cleanup
  <2>1. stops' \in 0..MaxStops
    BY <1>9, StopsAssumption DEF UnmountBoot, Cleanup, GoOn, Stop, Types
  <2>2. /\ UNCHANGED <<status, sealed, mode, running>>
        /\ step' \in {"none", "verify"} /\ mounted' \in {mounted, FALSE}
    BY <1>9 DEF UnmountBoot, Cleanup, GoOn
  <2> QED BY <2>1, <2>2 DEF Types, Steps
<1>10. CASE Record
  <2>1. Goal(mode).status \in {"prepared", "activated", "rollback-complete", "complete"}
    BY DEF Types, Modes, Goal, Preparing, Activating
  <2> QED BY <1>10, <2>1 DEF Record, GoOn, Types, Steps
<1>11. CASE Fails
  BY <1>11, StopsAssumption DEF Fails, Stop, Types, Steps
<1>12. CASE Crash \/ Reboot
  <2>1. running' \in {"fallback", "target"}
    BY <1>12 DEF Crash, Reboot, BootInv, DirInv
  <2>2. /\ UNCHANGED <<status, sealed, mode, stops>>
        /\ step' \in {step, "none"} /\ mounted' = FALSE
    BY <1>12 DEF Crash, Reboot
  <2> QED BY <2>1, <2>2 DEF Types, Steps
<1> QED BY <1>1, <1>2, <1>3, <1>4, <1>7, <1>8, <1>9, <1>10, <1>11, <1>12 DEF Next, Progress

(* The command is where no status that is the truth is left behind.        *)
LEMMA AtRest ==
    ASSUME StatusInv, status' = status, sealed' = sealed, disk' = disk,
           Mounted => Mounted',
           step' \in {"none", "cleanup"}
           \/ (status \in Intents /\ step' \in {"unmount", "verify"})
    PROVE  StatusInv'
<1>1. StatusIsTrue'
  BY DEF StatusInv, StatusIsTrue
<1> QED BY <1>1 DEF StatusInv

LEMMA StartStates ==
    ASSUME MountInv, StatusInv, NEW m \in Modes, Start(m)
    PROVE  StatusInv'
<1>1. /\ UNCHANGED <<fs, disk, raw, status, sealed>> /\ mode' = m
      /\ Mounted /\ Admits(m, status, DetectState(disk), sealed)
  BY DEF Start, MountInv, txVars
<1>2. StatusIsTrue' /\ Mounted'
  BY <1>1 DEF StatusInv, StatusIsTrue, Mounted
<1>3. CASE m = "prepare"
  <2>1. step' = "retain" /\ status \in {"absent", "retention-partial"}
    BY <1>1, <1>3 DEF Start, Admits
  <2> QED BY <1>1, <1>2, <1>3, <2>1 DEF StatusInv
<1>4. CASE m \in {"activate", "rollback"}
  <2>1. step' = "intent" /\ m \in DOMAIN Intent
    BY <1>4 DEF Start, Intent
  <2> QED BY <1>1, <1>2, <2>1 DEF StatusInv
<1>5. CASE m = "postflight"
  <2>1. step' = "record" /\ DetectState(disk) = "activated"
    BY <1>1, <1>5 DEF Start, Admits, AdmitsPostflight
  <2>2. Goal(m).boot = "activated"
    BY <1>5 DEF Goal, Preparing, Activating
  <2> QED BY <1>1, <1>2, <2>1, <2>2 DEF StatusInv
<1>6. CASE m \in {"recover-prepare", "recover-activate"}
  <2>1. step' = "mount" /\ status = IntentOf(m) /\ status \in Intents
    BY <1>1, <1>6, IntentsAre DEF Start, Admits, IntentOf, Preparing, Activating
  <2> QED BY <1>1, <1>2, <2>1 DEF StatusInv
<1>7. m # "restore"
  BY <1>1 DEF Admits
<1> QED BY <1>3, <1>4, <1>5, <1>6, <1>7 DEF Modes, Preparing, Activating

LEMMA RunStates ==
    ASSUME StatusInv, status \in Intents, NEW op, NEW rec, NEW m, Run(op, rec, m),
           status = IntentOf(m)
    PROVE  StatusInv'
BY DEF Run, StatusInv, StatusIsTrue, Intents

LEMMA DriveStates ==
    ASSUME Types, StatusInv, Dispatch \/ Returned
    PROVE  StatusInv'
<1>1. status \in Intents /\ status = IntentOf(mode) /\ mode \in Modes
  BY DEF Dispatch, Returned, At, StatusInv, Types
<1>2. ASSUME NEW op, NEW rec, Run(op, rec, mode) PROVE StatusInv'
  BY <1>1, <1>2, RunStates
<1>3. CASE mode \in Activating /\ Run("rollback", FALSE, "restore")
  <2>1. status = IntentOf("restore")
    BY <1>1, <1>3, ModeRuns
  <2> QED BY <1>1, <1>3, <2>1, RunStates
<1>4. CASE Skip \/ Die
  BY <1>1, <1>4, AtRest DEF Skip, Die, GoOn, txVars, Mounted
<1> QED BY <1>2, <1>3, <1>4 DEF Dispatch, PrepareBoot, ActivateBoot, RollBack, Returned

LEMMA QuietStates ==
    ASSUME MountInv, Types, StatusInv,
           \/ RetainPayload \/ WriteIntent \/ Mount \/ Verify \/ Record \/ Fails
    PROVE  StatusInv'
<1>1. /\ UNCHANGED <<fs, disk, raw>>
      /\ Mounted' <=> Mounted
  BY DEF RetainPayload, WriteIntent, Mount, Verify, Record, Fails, Die, txVars, Mounted
<1>2. CASE RetainPayload
  <2>1. mode = "prepare" /\ status \in {"absent", "retention-partial"} /\ Mounted
    BY <1>2, IntentsAre DEF RetainPayload, At, StatusInv
  <2>2. mode \in DOMAIN Intent
    BY <2>1 DEF Intent
  <2>3. StatusIsTrue'
    BY <1>1, <1>2, <2>1, IntentsAre DEF RetainPayload, StatusInv, StatusIsTrue
  <2> QED BY <1>1, <1>2, <2>1, <2>2, <2>3 DEF RetainPayload, GoOn, StatusInv
<1>3. CASE WriteIntent
  <2>1. mode \in DOMAIN Intent
    BY <1>3 DEF WriteIntent, At, StatusInv
  <2>2. Intent[mode] = IntentOf(mode) /\ Intent[mode] \in Intents
    BY <2>1 DEF Intent, IntentOf, Intents, Preparing, Activating
  <2> QED BY <1>1, <1>3, <2>2 DEF WriteIntent, GoOn, StatusInv, StatusIsTrue, Intents
<1>4. CASE Mount
  <2>1. status \in Intents
    BY <1>4 DEF Mount, At, StatusInv
  <2> QED BY <1>1, <1>4, <2>1 DEF Mount, At, GoOn, StatusInv, StatusIsTrue, Intents
<1>5. CASE Verify
  <2>1. CASE Die
    BY <1>1, <2>1, AtRest DEF Die, GoOn
  <2>2. CASE DetectState(disk) = Goal(mode).boot /\ GoOn("record") /\ UNCHANGED <<status, sealed>>
    BY <1>1, <2>2 DEF GoOn, StatusInv, StatusIsTrue
  <2> QED BY <1>5, <2>1, <2>2 DEF Verify
<1>6. CASE Record
  <2>1. Mounted /\ DetectState(disk) = Goal(mode).boot /\ mode \in Modes
    BY <1>6 DEF Record, At, MountInv, StatusInv, Types
  <2>2. \/ Goal(mode) = [boot |-> "prepared", status |-> "prepared"]
        \/ Goal(mode) = [boot |-> "activated", status |-> "activated"]
        \/ Goal(mode) = [boot |-> "prepared", status |-> "rollback-complete"]
        \/ Goal(mode) = [boot |-> "activated", status |-> "complete"]
    BY <2>1 DEF Goal, Modes, Preparing, Activating
  <2>3. StatusIsTrue'
    BY <1>1, <1>6, <2>1, <2>2 DEF Record, StatusIsTrue
  <2> QED BY <1>1, <1>6, <2>1, <2>3 DEF Record, GoOn, StatusInv
<1>7. CASE Fails
  BY <1>1, <1>7, AtRest DEF Fails
<1> QED BY <1>2, <1>3, <1>4, <1>5, <1>6, <1>7

LEMMA FlushStates ==
    ASSUME TxTypeOK, MountInv, StatusInv, UnmountBoot \/ Cleanup \/ Crash \/ Reboot
    PROVE  StatusInv'
<1>1. status' = status /\ sealed' = sealed
  BY DEF UnmountBoot, Cleanup, Crash, Reboot
<1>2. Mounted => disk' = disk
  BY DirAt DEF UnmountBoot, Cleanup, Crash, Reboot, PowerLoss, Flush, Mounted, dirVars
<1>3. Mounted'
      \/ (Cleanup /\ UNCHANGED dirVars)
  BY DEF UnmountBoot, Cleanup, Crash, Reboot, PowerLoss, Flush, Mounted
<1>4. CASE status \notin Intents
  <2>1. Mounted /\ ~UnmountBoot
    BY <1>4 DEF StatusInv, UnmountBoot, At
  <2>2. disk' = disk /\ Mounted' /\ step' = "none"
    BY <1>2, <1>3, <2>1 DEF Mounted, dirVars, Cleanup, Crash, Reboot, At
  <2> QED BY <1>1, <2>2, AtRest
<1>5. CASE status \in Intents
  <2>1. StatusIsTrue'
    BY <1>1, <1>5 DEF StatusIsTrue
  <2>2. step' \in {"none", "verify"}
    BY DEF UnmountBoot, Cleanup, Crash, Reboot, GoOn, At
  <2> QED BY <1>1, <1>5, <2>1, <2>2 DEF StatusInv, Intents
<1> QED BY <1>4, <1>5

LEMMA StatusStep ==
    ASSUME TxTypeOK, Types, MountInv, StatusInv, [Next]_vars
    PROVE  StatusInv'
<1>1. CASE UNCHANGED vars
  BY <1>1 DEF vars, promoVars, txVars, StatusInv, StatusIsTrue, Mounted
<1>2. CASE Transact
  <2>1. status \in Intents /\ step = "tx"
    BY <1>2 DEF Transact, StatusInv
  <2> QED BY <1>2, <2>1 DEF Transact, promoVars, StatusInv, StatusIsTrue
<1> QED BY <1>1, <1>2, StartStates, DriveStates, QuietStates, FlushStates DEF Next, Progress

----------------------------------------------------------------------------
(* What a rollback leaves behind *)

(* A directory with the files of the target and without the journal of     *)
(* prepare is classified as one of the later states, and the other way     *)
(* round each of these has no journal of prepare.                          *)
LEMMA LaterStates ==
    ASSUME NEW b \in [Names -> Contents]
    PROVE  LET later == {"prepared", "activated", "activate-partial", "rollback-partial"}
           IN  /\ DetectState(b) \in later => b[Journal("prepare")] = "none"
               /\ /\ \A f \in Files : b[File(f)] = "exact"
                  /\ b[Journal("prepare")] = "none"
                  => DetectState(b) \in later \cup {"error"}
<1> DEFINE later == {"prepared", "activated", "activate-partial", "rollback-partial"}
<1>1. "prepare" \notin JournalsIn(b) <=> b[Journal("prepare")] = "none"
  BY DEF JournalsIn, Ops
<1>2. (\A f \in Files : b[File(f)] = "exact") => PublishedIn(b) # {}
  <2>1. 1 \in Files
    BY SizeAssumption DEF Files
  <2> QED BY <2>1 DEF PublishedIn
<1>3. DetectState(b) \in later => JournalsIn(b) \in {{}, {"activate"}, {"rollback"}}
  BY Classification
<1>4. "prepare" \notin JournalsIn(b) /\ PublishedIn(b) # {} =>
        DetectState(b) \in later \cup {"error"}
  BY Classification
<1> QED BY <1>1, <1>2, <1>3, <1>4

(* While a rollback runs, every change of the directory leaves the journal *)
(* of prepare alone.                                                       *)
LEMMA JournalStaysAway ==
    ASSUME BootInv, NoPrepare, [TxNext]_txVars,
           TxStep => job.op = "rollback"
    PROVE  NoPrepare'
<1> DEFINE J == Journal("prepare")
<1>0. DirTypes /\ CtlTypes
  BY TypesSplit DEF BootInv
<1>1. Candidate'
  <2>1. \A f \in Files : disk'[File(f)] \in {fs[File(f)], disk[File(f)]}
    BY DiskStep, NamesDiffer
  <2> QED BY <2>1 DEF NoPrepare, Candidate, BootInv, DirInv
<1>2. /\ J \in Names /\ J # Journal("activate") /\ J # Journal("rollback")
      /\ \A f \in 0..NFiles : J # Stage(f) /\ J # File(f)
  BY JournalsDiffer DEF Ops
<1> DEFINE Away == J \notin raw' /\ fs'[J] = "none" /\ disk'[J] = "none"
<1> HIDE DEF J
<1>3. fs[J] = "none" /\ disk[J] = "none" /\ J \notin raw
  BY DEF NoPrepare, J
<1>13. SUFFICES Away
  BY <1>1 DEF NoPrepare, J
<1>4. ASSUME NEW d, Survives(d) PROVE d[J] = "none"
  <2>1. PICK S \in SUBSET Unflushed : \E T \in SUBSET (S \cap raw) :
          d = [n \in Names |-> IF n \in T THEN "torn"
                               ELSE IF n \in S THEN fs[n] ELSE disk[n]]
    BY <1>4 DEF Survives
  <2> QED BY <2>1, <1>2, <1>3
<1>5. ASSUME NEW n \in Names \ {J}, NEW c, Put(n, c) PROVE Away
  BY <1>0, <1>2, <1>3, <1>5 DEF Put, DirTypes
<1>6. ASSUME NEW S, Remove(S) PROVE Away
  BY <1>2, <1>3, <1>6 DEF Remove
<1>7. ASSUME NEW a \in Names \ {J}, NEW b \in Names \ {J}, Move(a, b) PROVE Away
  BY <1>0, <1>2, <1>3, <1>7 DEF Move, DirTypes
<1>8. CASE Flush \/ PartialFlush \/ UNCHANGED dirVars
  <2>1. CASE Flush \/ UNCHANGED dirVars
    BY <1>3, <2>1 DEF Flush, dirVars
  <2>2. CASE PartialFlush
    <3>1. Survives(disk') /\ fs' = fs /\ raw' = raw
      BY <2>2 DEF PartialFlush
    <3> QED BY <1>3, <1>4, <3>1
  <2> QED BY <1>8, <2>1, <2>2
<1>9. CASE TxStep
  <2>1. job.op = "rollback" /\ Journal(job.op) \in Names \ {J}
    BY <1>2, <1>9, JournalsDiffer DEF Ops
  <2>2. Stage(target) \in Names \ {J} /\ File(target) \in Names \ {J}
    BY <1>0, <1>2, NamesDiffer DEF CtlTypes
  <2>3. \/ Flush \/ PartialFlush \/ UNCHANGED dirVars
        \/ \E n \in {Journal(job.op), Stage(target)} : \E c : Put(n, c)
        \/ \E S : Remove(S) \/ Move(Stage(target), File(target))
    BY <1>9 DEF TxStep, Detect, WriteJournal, FlushJournal, CheckSpace, Publish, ClearStage,
              CopyStage, FlushStage, Rename, FlushRename, ClearMarkers, FlushClear, Failed,
              FlushFails, FlushThen, StageIsFlushed
  <2> HIDE DEF Away
  <2> QED BY <1>5, <1>6, <1>7, <1>8, <2>1, <2>2, <2>3
<1>10. CASE Call
  <2>1. UNCHANGED dirVars
    BY <1>10 DEF Call, Invoke
  <2> QED BY <1>8, <2>1
<1>11. CASE Unmount \/ UNCHANGED txVars
  <2>1. Flush \/ UNCHANGED dirVars
    BY <1>11 DEF Unmount, txVars, dirVars
  <2> QED BY <1>8, <2>1
<1>12. CASE PowerLoss
  <2>1. Survives(disk') /\ fs' = disk' /\ raw' = {}
    BY <1>12 DEF PowerLoss
  <2> QED BY <1>4, <2>1
<1> QED BY <1>9, <1>10, <1>11, <1>12 DEF TxNext

(* What a rollback is admitted to has the target's files, and no journal   *)
(* of prepare.                                                             *)
LEMMA StartNoPrepare ==
    ASSUME BootInv, Mounted, AdmitsRollback(status, DetectState(disk))
    PROVE  NoPrepare
<1>1. disk \in [Names -> Contents] /\ fs = disk /\ raw = {}
  BY DEF BootInv, TxTypeOK, Mounted
<1>2. DetectState(disk) \in {"activated", "prepared", "activate-partial", "rollback-partial"}
  BY DEF AdmitsRollback
<1>3. Candidate
  BY <1>1, <1>2, StateFacts DEF Candidate
<1>4. disk[Journal("prepare")] = "none"
  BY <1>1, <1>2, LaterStates
<1> QED BY <1>1, <1>3, <1>4 DEF NoPrepare

LEMMA RollbackStep ==
    ASSUME BootInv, Types, MountInv, StatusInv, RollbackInv, [Next]_vars, [TxNext]_txVars
    PROVE  RollbackInv'
<1>1. CASE UNCHANGED vars
  BY <1>1 DEF vars, promoVars, txVars, RollbackInv, NoPrepare, Candidate
<1>2. ASSUME NEW m \in Modes, Start(m) PROVE RollbackInv'
  <2>1. status' = status /\ mode' = m /\ UNCHANGED <<fs, disk, raw>>
        /\ (NoPrepare => NoPrepare')
    BY <1>2 DEF Start, txVars, NoPrepare, Candidate
  <2>2. m = "rollback" => NoPrepare
    BY <1>2, StartNoPrepare DEF Start, Admits, MountInv
  <2> QED BY <2>1, <2>2 DEF RollbackInv
<1>3. CASE ~\E m \in Modes : Start(m)
  <2>1. SUFFICES ASSUME status' = "rollback-intent" \/ (mode' = "rollback" /\ step' = "intent")
                 PROVE  NoPrepare'
    BY DEF RollbackInv
  <2>2. CASE status = "rollback-intent" \/ (mode = "rollback" /\ step = "intent")
    <3>1. NoPrepare
      BY <2>2 DEF RollbackInv
    <3>2. TxStep => job.op = "rollback"
      <4>1. TxStep => step = "tx"
        BY DEF MountInv, TxStep, Detect, WriteJournal, FlushJournal, CheckSpace, Publish,
           ClearStage, CopyStage, FlushStage, Rename, FlushRename, ClearMarkers, FlushClear
      <4>2. step = "tx" => status = IntentOf(mode) /\ job.op = OpOf(mode) /\ mode \in Modes
        BY DEF StatusInv, MountInv, Types
      <4>3. step = "tx" => mode = "rollback"
        BY <2>2, <4>2 DEF IntentOf, Modes, Preparing, Activating
      <4> QED BY <4>1, <4>2, <4>3, ModeRuns DEF Modes
    <3> QED BY <3>1, <3>2, JournalStaysAway
  <2>3. CASE status # "rollback-intent" /\ ~(mode = "rollback" /\ step = "intent")
    <3>1. CASE status' = "rollback-intent"
      <4>1. WriteIntent
        <5>1. Record => status' # "rollback-intent"
          BY DEF Record, Types, Modes, Preparing, Activating, Goal
        <5> QED BY <1>3, <2>3, <3>1, <5>1
                DEF Next, Progress, RetainPayload, Mount, Dispatch, PrepareBoot, ActivateBoot,
                    RollBack, Run, Skip, Die, Transact, Returned, UnmountBoot, Verify, Cleanup,
                    Fails, Crash, Reboot, vars, promoVars
      <4>2. mode \in DOMAIN Intent /\ status' = Intent[mode]
        BY <4>1 DEF WriteIntent, At, StatusInv
      <4> QED BY <2>3, <3>1, <4>1, <4>2 DEF WriteIntent, At, Intent
    <3>2. CASE mode' = "rollback" /\ step' = "intent"
      <4>1. RetainPayload
        BY <1>1, <1>3, <2>3, <3>2
           DEF Next, Progress, WriteIntent, Mount, Dispatch, PrepareBoot, ActivateBoot,
               RollBack, Run, Skip, Die, Transact, Returned, UnmountBoot, Verify, Cleanup,
               Fails, Crash, Reboot, GoOn, Record, promoVars, vars
      <4> QED BY <3>2, <4>1 DEF RetainPayload, At, GoOn, StatusInv
    <3> QED BY <2>1, <3>1, <3>2
  <2> QED BY <2>2, <2>3
<1> QED BY <1>2, <1>3

----------------------------------------------------------------------------
(* The theorems *)

PromoInv == BootInv /\ Types /\ MountInv /\ StatusInv /\ RollbackInv

LEMMA PromoInit == Init => PromoInv
<1> SUFFICES ASSUME Init PROVE PromoInv
  OBVIOUS
<1>1. BootInv
  BY InitHolds DEF Init
<1>2. Types
  <2>1. "prepare" \in Modes /\ "none" \in Steps /\ 0 \in 0..MaxStops
    BY StopsAssumption DEF Modes, Preparing, Steps
  <2> QED BY <2>1 DEF Init, Types
<1>3. Mounted /\ pc = "idle"
  BY DEF Init, TxInit, Mounted
<1>4. DetectState(disk) = "base"
  <2>1. /\ \A op \in Ops : disk[Journal(op)] = "none"
        /\ \A f \in 0..NFiles : disk[Stage(f)] = "none"
        /\ \A f \in Files : disk[File(f)] = "none"
        /\ disk[File(BootIni)] = "fallback"
    BY NamesDiffer, JournalsDiffer DEF Init, TxInit, Active
  <2>2. JournalsIn(disk) = {} /\ PublishedIn(disk) = {} /\ StagedIn(disk) = {}
    BY <2>1 DEF JournalsIn, PublishedIn, StagedIn
  <2>3. ExactIn(disk)
    BY <2>1, <2>2, FS_EmptySet DEF ExactIn
  <2>4. Files # {}
    BY SizeAssumption DEF Files
  <2> QED BY <2>1, <2>2, <2>3, <2>4, Classification
<1>5. StatusInv
  BY <1>3, <1>4 DEF Init, StatusInv, StatusIsTrue
<1> QED BY <1>1, <1>2, <1>3, <1>5, IntentsAre DEF Init, PromoInv, MountInv, RollbackInv

LEMMA PromoStep == PromoInv /\ [Next]_vars => PromoInv' /\ [TxNext]_txVars
<1> SUFFICES ASSUME PromoInv, [Next]_vars PROVE PromoInv' /\ [TxNext]_txVars
  OBVIOUS
<1>1. TxTypeOK /\ BootInv /\ Types /\ MountInv /\ StatusInv /\ RollbackInv
  BY DEF PromoInv, BootInv
<1>2. MountInv' /\ [TxNext]_txVars
  BY <1>1, MountStep
<1>3. BootInv'
  BY <1>1, <1>2, StepKeeps
<1>4. Types' /\ StatusInv' /\ RollbackInv'
  BY <1>1, <1>2, <1>3, TypesStep, StatusStep, RollbackStep
<1> QED BY <1>2, <1>3, <1>4 DEF PromoInv

LEMMA PromoInvariant == Spec => []PromoInv
<1> QED BY PromoInit, PromoStep, PTL DEF Spec

(* install.sh calls an operation of transaction.sh only on a fresh mount,  *)
(* or the rollback after a failed activation: whatever fails, it behaves   *)
(* as the caller that the theorems about the operations assume.            *)
THEOREM OperationsAreDriven == Spec => ImplementsTransaction
<1>1. Init => TxInit
  BY DEF Init
<1> QED BY <1>1, PromoStep, PromoInvariant, PTL DEF Spec, ImplementsTransaction, TxSpec

(* So the card boots one exact script at every moment of a promotion, and  *)
(* the script on the card is switched as the abstract switch is.           *)
THEOREM PromotionBoots == Spec => []Bootable
<1> QED BY OperationsAreDriven, AlwaysBootable, PTL DEF ImplementsTransaction

THEOREM PromotionSwitches == Spec => ImplementsSwitch
<1> QED BY OperationsAreDriven, SwitchImplemented, PTL DEF ImplementsTransaction

(* boot.ini changes on the card only behind a journal that explains it,    *)
(* under install.sh and not only under an ideal caller.                    *)
THEOREM PromotionIsJournaled == Spec => StepsAreJournaled
<1> QED BY OperationsAreDriven, SwitchesAreJournaled, PTL
        DEF ImplementsTransaction, StepsAreJournaled

LEMMA RecoveryAdmits ==
    ASSUME PromoInv
    PROVE  RecoveryIsAdmitted
<1> SUFFICES ASSUME status \in Intents, DetectState(disk) # "error"
             PROVE  \E m \in Recovery : Admits(m, status, DetectState(disk), sealed)
  BY DEF RecoveryIsAdmitted
<1>1. CASE status = "prepare-intent"
  BY <1>1 DEF Recovery, Admits
<1>2. CASE status = "activate-intent"
  BY <1>2 DEF Recovery, Admits
<1>3. CASE status = "rollback-intent"
  <2>1. disk \in [Names -> Contents]
    BY DEF PromoInv, BootInv, TxTypeOK
  <2>2. /\ \A f \in Files : disk[File(f)] = "exact"
        /\ disk[Journal("prepare")] = "none"
    BY <1>3 DEF PromoInv, RollbackInv, NoPrepare, Candidate
  <2>3. DetectState(disk) \in {"prepared", "activated", "activate-partial", "rollback-partial"}
    BY <2>1, <2>2, LaterStates
  <2>4. Admits("rollback", status, DetectState(disk), sealed)
    BY <1>3, <2>3 DEF Admits, AdmitsRollback
  <2> QED BY <2>4 DEF Recovery
<1> QED BY <1>1, <1>2, <1>3, IntentsAre

(* What is told of a promotion is true at every moment, a power loss       *)
(* included: success is durable, a status that is no intent is the exact   *)
(* state of BOOT, and an intent leaves a mode that accepts it              *)
(* (install.sh: load_status, require_status, the case of the modes).       *)
THEOREM OutcomesAreTrue == Spec => []OutcomeIsTrue
<1>1. PromoInv => TypeOK /\ StatusIsTrue /\ RecoveryIsAdmitted
  <2> SUFFICES ASSUME PromoInv PROVE TypeOK /\ StatusIsTrue /\ RecoveryIsAdmitted
    OBVIOUS
  <2>1. TypeOK
    BY DEF PromoInv, BootInv, Types, TypeOK
  <2>2. StatusIsTrue
    BY DEF PromoInv, StatusInv
  <2> QED BY <2>1, <2>2, RecoveryAdmits
<1>2. Spec => []SuccessIsDurable
  BY OperationsAreDriven, SuccessSurvives, PTL DEF ImplementsTransaction
<1>3. TypeOK /\ SuccessIsDurable /\ StatusIsTrue /\ RecoveryIsAdmitted => OutcomeIsTrue
  BY DEF OutcomeIsTrue
<1> QED BY <1>1, <1>2, <1>3, PromoInvariant, PTL
=============================================================================
