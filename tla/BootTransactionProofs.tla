----------------------- MODULE BootTransactionProofs -----------------------
(***************************************************************************)
(* For every number of files and faults, the BOOT directory always selects *)
(* one exact boot script and implements the abstract boot switch.          *)
(*                                                                         *)
(* These follow from three facts that hold at every moment: the final names *)
(* are never written in place (DirInv: no unflushed data, no torn content, *)
(* and what the card holds the file system still shows); a final name is   *)
(* taken only by a stage that was checked and flushed, and boot.ini only   *)
(* when the versioned files are on the card (StepInv); and prepare never   *)
(* touches boot.ini while the other two never touch anything else          *)
(* (KindInv).                                                              *)
(*                                                                         *)
(* Then: what is reported as done is done on the card (OutcomeInv), and    *)
(* the active script changes only behind a journal (JournalInv).           *)
(***************************************************************************)
EXTENDS BootTransaction, TLAPS

Finals == {File(f) : f \in 0..NFiles}

DirInv ==
    /\ raw \cap Finals = {}
    /\ fs[File(BootIni)] \in {"fallback", "target"}
    /\ disk[File(BootIni)] \in {"fallback", "target"}
    /\ \A f \in Files : /\ fs[File(f)] \in {"none", "exact"}
                        /\ disk[File(f)] \in {"none", "exact"}
                        /\ disk[File(f)] = "exact" => fs[File(f)] = "exact"
    /\ "target" \in {fs[File(BootIni)], disk[File(BootIni)]} => Candidate

Switching == {"journal", "flushJournal", "clearStage", "copy", "flushStage", "rename"}
Staging == {"publish", "clearStage", "copy", "flushStage", "rename", "flushRename"}

StepInv ==
    /\ job.op # "prepare" => target = BootIni /\ pc \notin {"space", "publish"}
    /\ job.op = "prepare" /\ pc \in Staging => target \in Files
    /\ job.op # "prepare" /\ pc \in Switching => Candidate
    /\ pc = "rename" => /\ Stage(target) \notin raw
                        /\ fs[Stage(target)] = Payload

KindInv ==
    /\ job.op = "prepare" => fs[File(BootIni)] = disk[File(BootIni)]
    /\ job.op # "prepare" => \A f \in Files : fs[File(f)] = disk[File(f)]

BootInv == TxTypeOK /\ DirInv /\ StepInv /\ KindInv
----------------------------------------------------------------------------
(* The names of the directory *)

(* Final names, stages and journals are different names.                   *)
LEMMA NamesDiffer ==
    /\ Finals \subseteq Names
    /\ \A f \in 0..NFiles : /\ File(f) \in Finals /\ Stage(f) \in Names
                            /\ Stage(f) \notin Finals
    /\ \A op \in Ops : Journal(op) \in Names /\ Journal(op) \notin Finals
    /\ \A f, g \in 0..NFiles : File(f) = File(g) => f = g
    /\ Files \subseteq 0..NFiles /\ BootIni \in 0..NFiles /\ BootIni \notin Files
<1>1. Finals \subseteq Names
  BY DEF Finals, Names
<1>2. ASSUME NEW f \in 0..NFiles
      PROVE  /\ File(f) \in Finals /\ Stage(f) \in Names
             /\ Stage(f) \notin Finals
  BY DEF Finals, Names, File, Stage
<1>3. ASSUME NEW op \in Ops
      PROVE  Journal(op) \in Names /\ Journal(op) \notin Finals
  BY DEF Finals, Names, File, Journal, Ops
<1>4. \A f, g \in 0..NFiles : File(f) = File(g) => f = g
  BY DEF File
<1>5. Files \subseteq 0..NFiles /\ BootIni \in 0..NFiles /\ BootIni \notin Files
  BY SizeAssumption DEF Files, BootIni
<1> QED BY <1>1, <1>2, <1>3, <1>4, <1>5

(* The parts of a directory that its classification looks at.               *)
JournalsIn(b)  == {op \in Ops : b[Journal(op)] # "none"}
PublishedIn(b) == {f \in Files : b[File(f)] # "none"}
StagedIn(b)    == {f \in 0..NFiles : b[Stage(f)] # "none"}
ExactIn(b) == /\ \A op \in JournalsIn(b) : b[Journal(op)] = "exact"
              /\ Cardinality(JournalsIn(b)) <= 1
              /\ \A f \in PublishedIn(b) : b[File(f)] = "exact"
              /\ b[File(BootIni)] \in {"fallback", "target"}

LEMMA Classification ==
    ASSUME NEW b
    PROVE  DetectState(b) =
             CASE ~ExactIn(b) -> "error"
               [] ExactIn(b) /\ JournalsIn(b) = {"prepare"} /\ b[File(BootIni)] = "fallback"
                        /\ BootIni \notin StagedIn(b) -> "prepare-partial"
               [] ExactIn(b) /\ JournalsIn(b) = {"activate"} /\ PublishedIn(b) = Files ->
                     "activate-partial"
               [] ExactIn(b) /\ JournalsIn(b) = {"rollback"} /\ PublishedIn(b) = Files ->
                     "rollback-partial"
               [] ExactIn(b) /\ JournalsIn(b) = {} /\ StagedIn(b) = {} /\ PublishedIn(b) = {}
                        /\ b[File(BootIni)] = "fallback" -> "base"
               [] ExactIn(b) /\ JournalsIn(b) = {} /\ StagedIn(b) = {} /\ PublishedIn(b) = Files ->
                     IF b[File(BootIni)] = "fallback" THEN "prepared" ELSE "activated"
               [] OTHER -> "error"
BY DEF DetectState, ExactIn, JournalsIn, PublishedIn, StagedIn

(* What the classification of a directory says about its final names.      *)
LEMMA StateFacts ==
    ASSUME NEW b \in [Names -> Contents]
    PROVE  /\ DetectState(b) \in {"base", "prepare-partial", "prepared"} =>
                 b[File(BootIni)] = "fallback"
           /\ DetectState(b) \in {"prepared", "activated", "activate-partial",
                                  "rollback-partial"} =>
                 \A f \in Files : b[File(f)] = "exact"
<1>1. ExactIn(b) /\ PublishedIn(b) = Files => \A f \in Files : b[File(f)] = "exact"
  BY DEF ExactIn
<1>2. DetectState(b) \in {"base", "prepare-partial", "prepared"} =>
        b[File(BootIni)] = "fallback"
  BY Classification
<1>3. DetectState(b) \in {"prepared", "activated", "activate-partial",
                         "rollback-partial"} => ExactIn(b) /\ PublishedIn(b) = Files
  BY Classification
<1> QED BY <1>1, <1>2, <1>3

----------------------------------------------------------------------------
(* What each kind of change of the directory keeps *)

DirTypes == /\ fs \in [Names -> Contents] /\ disk \in [Names -> Contents]
            /\ raw \subseteq Names

SameFinals == \A f \in 0..NFiles : /\ fs'[File(f)] = fs[File(f)]
                                   /\ disk'[File(f)] = disk[File(f)]

(* Changes that leave the final names and their data alone.                *)
LEMMA SameFinalsKeeps ==
    ASSUME DirInv, SameFinals, raw' \cap Finals = {}
    PROVE  DirInv' /\ (Candidate => Candidate')
<1>1. \A f \in Files : fs'[File(f)] = fs[File(f)] /\ disk'[File(f)] = disk[File(f)]
  BY NamesDiffer DEF SameFinals
<1>2. fs'[File(BootIni)] = fs[File(BootIni)] /\ disk'[File(BootIni)] = disk[File(BootIni)]
  BY NamesDiffer DEF SameFinals
<1>3. Candidate <=> Candidate'
  BY <1>1 DEF Candidate
<1> QED BY <1>1, <1>2, <1>3 DEF DirInv

LEMMA PutKeeps ==
    ASSUME DirTypes, DirInv, NEW n \in Names \ Finals, NEW c \in Contents, Put(n, c)
    PROVE  /\ DirTypes' /\ DirInv' /\ SameFinals
           /\ (Candidate => Candidate')
<1>1. DirTypes'
  BY DEF DirTypes, Put
<1>2. \A f \in 0..NFiles : File(f) # n /\ File(f) \in Names
  BY NamesDiffer
<1>3. SameFinals
  BY <1>2 DEF SameFinals, Put, DirTypes
<1>4. raw' \cap Finals = {}
  BY DEF Put, DirInv
<1> QED BY <1>1, <1>3, <1>4, SameFinalsKeeps

LEMMA RemoveKeeps ==
    ASSUME DirTypes, DirInv, NEW S \in SUBSET (Names \ Finals), Remove(S)
    PROVE  /\ DirTypes' /\ DirInv' /\ SameFinals
           /\ (Candidate => Candidate')
<1>1. DirTypes'
  BY DEF DirTypes, Remove, Contents
<1>2. \A f \in 0..NFiles : File(f) \notin S /\ File(f) \in Names
  BY NamesDiffer
<1>3. SameFinals
  BY <1>2 DEF SameFinals, Remove, DirTypes
<1>4. raw' \cap Finals = {}
  BY DEF Remove, DirInv
<1> QED BY <1>1, <1>3, <1>4, SameFinalsKeeps

LEMMA FlushKeeps ==
    ASSUME DirTypes, DirInv, Flush
    PROVE  /\ DirTypes' /\ DirInv' /\ (Candidate => Candidate')
           /\ fs' = fs /\ disk' = fs /\ raw' = {}
<1>1. DirTypes'
  BY DEF DirTypes, Flush
<1>2. fs' = fs /\ disk' = fs /\ raw' = {}
  BY DEF Flush
<1>3. Candidate => \A f \in Files : fs[File(f)] = "exact"
  BY DEF Candidate, DirInv
<1>4. Candidate => Candidate'
  BY <1>2, <1>3 DEF Candidate
<1>5. DirInv'
  BY <1>2, <1>4 DEF DirInv
<1> QED BY <1>1, <1>2, <1>4, <1>5

(* Unflushed changes that reach the card on their own, each or not at all. *)
LEMMA SurvivesFacts ==
    ASSUME DirTypes, DirInv, NEW d, Survives(d)
    PROVE  /\ d \in [Names -> Contents]
           /\ \A f \in 0..NFiles : d[File(f)] \in {fs[File(f)], disk[File(f)]}
           /\ Candidate => \A f \in Files : d[File(f)] = "exact"
<1>0. PICK S \in SUBSET Unflushed : \E T \in SUBSET (S \cap raw) :
        d = [n \in Names |-> IF n \in T THEN "torn"
                             ELSE IF n \in S THEN fs[n] ELSE disk[n]]
  BY DEF Survives
<1>1. PICK T \in SUBSET (S \cap raw) :
        d = [n \in Names |-> IF n \in T THEN "torn"
                             ELSE IF n \in S THEN fs[n] ELSE disk[n]]
  BY <1>0
<1>2. d \in [Names -> Contents]
  BY <1>1 DEF DirTypes, Contents
<1>3. \A f \in 0..NFiles : File(f) \in Names /\ File(f) \notin T
  BY NamesDiffer DEF DirInv
<1>4. \A f \in 0..NFiles : d[File(f)] \in {fs[File(f)], disk[File(f)]}
  BY <1>1, <1>3
<1>5. Candidate => \A f \in Files : d[File(f)] = "exact"
  BY <1>4, NamesDiffer DEF Candidate, DirInv
<1> QED BY <1>2, <1>4, <1>5

LEMMA PartialFlushKeeps ==
    ASSUME DirTypes, DirInv, PartialFlush
    PROVE  /\ DirTypes' /\ DirInv' /\ (Candidate => Candidate')
           /\ fs' = fs /\ raw' = raw
           /\ \A f \in 0..NFiles : disk'[File(f)] \in {fs[File(f)], disk[File(f)]}
<1>1. Survives(disk') /\ fs' = fs /\ raw' = raw
  BY DEF PartialFlush
<1>2. /\ disk' \in [Names -> Contents]
      /\ \A f \in 0..NFiles : disk'[File(f)] \in {fs[File(f)], disk[File(f)]}
      /\ Candidate => Candidate'
  BY <1>1, SurvivesFacts DEF Candidate
<1>3. DirInv'
  <2>1. disk'[File(BootIni)] \in {fs[File(BootIni)], disk[File(BootIni)]}
    BY <1>2, NamesDiffer
  <2>2. \A f \in Files : disk'[File(f)] \in {fs[File(f)], disk[File(f)]}
    BY <1>2, NamesDiffer
  <2>3. \A f \in Files : /\ fs'[File(f)] \in {"none", "exact"}
                         /\ disk'[File(f)] \in {"none", "exact"}
                         /\ disk'[File(f)] = "exact" => fs'[File(f)] = "exact"
    BY <1>1, <2>2 DEF DirInv
  <2>4. "target" \in {fs'[File(BootIni)], disk'[File(BootIni)]} => Candidate'
    BY <1>1, <1>2, <2>1 DEF DirInv
  <2> QED BY <1>1, <2>1, <2>3, <2>4 DEF DirInv
<1> QED BY <1>1, <1>2, <1>3 DEF DirTypes

LEMMA PowerLossKeeps ==
    ASSUME DirTypes, DirInv, Survives(disk'), fs' = disk', raw' = {}
    PROVE  /\ DirTypes' /\ DirInv' /\ (Candidate => Candidate')
           /\ \A f \in 0..NFiles : disk'[File(f)] \in {fs[File(f)], disk[File(f)]}
<1>1. /\ disk' \in [Names -> Contents]
      /\ \A f \in 0..NFiles : disk'[File(f)] \in {fs[File(f)], disk[File(f)]}
      /\ Candidate => Candidate'
  BY SurvivesFacts DEF Candidate
<1>2. disk'[File(BootIni)] \in {fs[File(BootIni)], disk[File(BootIni)]}
  BY <1>1, NamesDiffer
<1>3. \A f \in Files : disk'[File(f)] \in {"none", "exact"}
  BY <1>1, NamesDiffer DEF DirInv
<1>4. "target" = disk'[File(BootIni)] => Candidate'
  BY <1>1, <1>2 DEF DirInv
<1>5. DirInv'
  BY <1>2, <1>3, <1>4 DEF DirInv
<1> QED BY <1>1, <1>5 DEF DirTypes

----------------------------------------------------------------------------
(* What the commands of an operation keep *)

CtlTypes == /\ pc \in PCs /\ job \in [op : Ops, rec : BOOLEAN]
            /\ target \in 0..NFiles /\ result \in {"none", "ok", "fail"}
            /\ faults \in 0..MaxFaults

LEMMA TypesSplit == TxTypeOK <=> DirTypes /\ CtlTypes
BY DEF TxTypeOK, DirTypes, CtlTypes

LEMMA UnchangedKeeps ==
    ASSUME DirTypes, DirInv, KindInv, UNCHANGED dirVars, job' = job
    PROVE  DirTypes' /\ DirInv' /\ KindInv' /\ (Candidate => Candidate')
BY DEF DirTypes, DirInv, KindInv, dirVars, Candidate

LEMMA SameKind ==
    ASSUME KindInv, SameFinals, job' = job
    PROVE  KindInv'
BY NamesDiffer DEF KindInv, SameFinals

LEMMA FaultBound ==
    ASSUME CtlTypes, Fault
    PROVE  faults' \in 0..MaxFaults
BY SizeAssumption DEF CtlTypes, Fault

(* A command that fails ends the operation.                                *)
LEMMA FailedKeeps ==
    ASSUME BootInv, Failed, job' = job
    PROVE  BootInv'
<1>1. DirTypes /\ CtlTypes /\ DirInv /\ KindInv /\ StepInv
  BY TypesSplit DEF BootInv
<1>2. DirTypes' /\ DirInv' /\ KindInv'
  BY <1>1, UnchangedKeeps DEF Failed
<1>3. CtlTypes'
  BY <1>1, FaultBound DEF Failed, Return, CtlTypes, PCs
<1>4. StepInv'
  BY <1>1 DEF Failed, Return, StepInv, Staging, Switching
<1> QED BY <1>2, <1>3, <1>4, TypesSplit DEF BootInv, TxTypeOK, DirTypes, CtlTypes

LEMMA FlushFailsKeeps ==
    ASSUME BootInv, FlushFails, job' = job
    PROVE  BootInv'
<1>1. DirTypes /\ CtlTypes /\ DirInv /\ KindInv /\ StepInv
  BY TypesSplit DEF BootInv
<1>2. /\ DirTypes' /\ DirInv' /\ fs' = fs
      /\ \A f \in 0..NFiles : disk'[File(f)] \in {fs[File(f)], disk[File(f)]}
  BY <1>1, PartialFlushKeeps DEF FlushFails
<1>3. KindInv'
  BY <1>1, <1>2, NamesDiffer DEF KindInv
<1>4. CtlTypes'
  BY <1>1, FaultBound DEF FlushFails, Return, CtlTypes, PCs
<1>5. StepInv'
  BY <1>1 DEF FlushFails, Return, StepInv, Staging, Switching
<1> QED BY <1>2, <1>3, <1>4, <1>5 DEF BootInv, TxTypeOK, DirTypes, CtlTypes

(* The start of a stage, a journal or a script with content that is not    *)
(* what it should be ends the operation too.                               *)
LEMMA TornKeeps ==
    ASSUME BootInv, NEW n \in Names \ Finals, Put(n, "torn"), Fault, Return("fail"),
           target' = target, job' = job
    PROVE  BootInv'
<1>1. DirTypes /\ CtlTypes /\ DirInv /\ KindInv /\ StepInv
  BY TypesSplit DEF BootInv
<1>2. DirTypes' /\ DirInv' /\ SameFinals
  <2>1. "torn" \in Contents
    BY DEF Contents
  <2> QED BY <1>1, <2>1, PutKeeps
<1>3. KindInv'
  BY <1>1, <1>2, SameKind
<1>4. CtlTypes'
  BY <1>1, FaultBound DEF Return, CtlTypes, PCs
<1>5. StepInv'
  BY <1>1 DEF Return, StepInv, Staging, Switching
<1> QED BY <1>2, <1>3, <1>4, <1>5 DEF BootInv, TxTypeOK, DirTypes, CtlTypes

LEMMA PayloadFacts ==
    ASSUME StepInv, CtlTypes
    PROVE  /\ Payload \in {"exact", "fallback", "target"}
           /\ target # BootIni => Payload = "exact"
           /\ target = BootIni => Payload \in {"fallback", "target"}
BY DEF Payload, ToActive

LEMMA NextFileKeeps ==
    ASSUME CtlTypes, NextFile, job.op = "prepare", target \in Files, job' = job
    PROVE  /\ CtlTypes' /\ pc' \in {"publish", "clear"} /\ target' \in Files
BY SizeAssumption DEF CtlTypes, NextFile, Goto, PCs, Files

----------------------------------------------------------------------------
(* The actions *)

LEMMA InvokeKeeps ==
    ASSUME BootInv, NEW op \in Ops, NEW rec \in BOOLEAN, Invoke(op, rec),
           (\A n \in Names : fs[n] = disk[n]) \/ (job.op # "prepare" /\ op # "prepare")
    PROVE  BootInv'
<1>0. DirTypes /\ CtlTypes /\ DirInv /\ KindInv /\ StepInv
  BY TypesSplit DEF BootInv
<1>1. DirTypes' /\ DirInv'
  BY <1>0 DEF Invoke, dirVars, DirTypes, DirInv, Candidate
<1>2. CtlTypes'
  BY <1>0, NamesDiffer DEF Invoke, CtlTypes, PCs
<1>3. KindInv'
  BY <1>0, NamesDiffer DEF Invoke, dirVars, KindInv
<1>4. StepInv'
  BY DEF Invoke, StepInv, Staging, Switching
<1> QED BY <1>1, <1>2, <1>3, <1>4 DEF BootInv, TxTypeOK, DirTypes, CtlTypes

LEMMA DetectKeeps ==
    ASSUME BootInv, Detect
    PROVE  BootInv'
<1>0. DirTypes /\ CtlTypes /\ DirInv /\ KindInv /\ StepInv
  BY TypesSplit DEF BootInv
<1>1. CASE UNCHANGED dirVars /\ UNCHANGED target /\ ~Failed
  <2>1. DirTypes' /\ DirInv' /\ KindInv' /\ (Candidate => Candidate')
    BY <1>0, <1>1, UnchangedKeeps DEF Detect
  <2>2. CtlTypes'
    BY <1>0, <1>1 DEF Detect, Goto, Return, CtlTypes, PCs
  <2>3. \/ pc' = "idle"
        \/ pc' = "journal" /\ DetectState(fs) = Fresh(job.op)
        \/ pc' = "space" /\ job.op = "prepare"
        \/ pc' \in {"clearStage", "clear"} /\ job.op # "prepare"
           /\ DetectState(fs) \in Resumed(job.op)
    <3> DEFINE s == DetectState(fs)
               next == IF job.op = "prepare" THEN "space"
                       ELSE IF fs[File(BootIni)] = FromActive(job.op)
                            THEN "clearStage" ELSE "clear"
    <3>1. \/ pc' = "idle"
          \/ pc' = "journal" /\ s = Fresh(job.op)
          \/ pc' = next /\ s \in Resumed(job.op)
      <4> HIDE DEF next
      <4> QED BY <1>1 DEF Detect, Goto, Return, next
    <3>2. \/ next = "space" /\ job.op = "prepare"
          \/ next \in {"clearStage", "clear"} /\ job.op # "prepare"
      OBVIOUS
    <3> HIDE DEF next
    <3> QED BY <3>1, <3>2
  <2>4. job.op # "prepare" /\ DetectState(fs) \in {Fresh(job.op)} \cup Resumed(job.op)
          => \A f \in Files : fs[File(f)] = "exact"
    <3>1. job.op \in Ops
      BY <1>0 DEF CtlTypes
    <3>2. job.op # "prepare" => {Fresh(job.op)} \cup Resumed(job.op) \subseteq
            {"prepared", "activated", "activate-partial", "rollback-partial"}
      BY <3>1 DEF Ops, Fresh, Resumed
    <3> QED BY <1>0, <3>2, StateFacts DEF DirTypes
  <2>5. job.op # "prepare" /\ DetectState(fs) \in {Fresh(job.op)} \cup Resumed(job.op)
          => Candidate
    BY <1>0, <2>4 DEF KindInv, Candidate
  <2>6. job' = job /\ target' = target
    BY <1>1 DEF Detect
  <2>7. StepInv'
    BY <1>0, <2>1, <2>3, <2>5, <2>6 DEF StepInv, Staging, Switching
  <2> QED BY <2>1, <2>2, <2>7 DEF BootInv, TxTypeOK, DirTypes, CtlTypes
<1>2. CASE Failed
  BY <1>2, FailedKeeps DEF Detect
<1> QED BY <1>1, <1>2 DEF Detect

LEMMA WriteJournalKeeps ==
    ASSUME BootInv, WriteJournal
    PROVE  BootInv'
<1>0. DirTypes /\ CtlTypes /\ DirInv /\ KindInv /\ StepInv
  BY TypesSplit DEF BootInv
<1>1. Journal(job.op) \in Names \ Finals
  BY <1>0, NamesDiffer DEF CtlTypes
<1>2. CASE Put(Journal(job.op), "exact") /\ Goto("flushJournal") /\ UNCHANGED target
  <2>1. "exact" \in Contents
    BY DEF Contents
  <2>2. DirTypes' /\ DirInv' /\ SameFinals /\ (Candidate => Candidate')
    BY <1>0, <1>1, <1>2, <2>1, PutKeeps
  <2>3. KindInv'
    BY <1>0, <2>2, SameKind DEF WriteJournal
  <2>4. CtlTypes'
    BY <1>0, <1>2 DEF WriteJournal, Goto, CtlTypes, PCs
  <2>5. StepInv'
    BY <1>0, <1>2, <2>2 DEF WriteJournal, Goto, StepInv, Staging, Switching
  <2> QED BY <2>2, <2>3, <2>4, <2>5 DEF BootInv, TxTypeOK, DirTypes, CtlTypes
<1>3. CASE Put(Journal(job.op), "torn") /\ Fault /\ Return("fail") /\ UNCHANGED target
  BY <1>1, <1>3, TornKeeps DEF WriteJournal
<1>4. CASE Failed
  BY <1>4, FailedKeeps DEF WriteJournal
<1> QED BY <1>2, <1>3, <1>4 DEF WriteJournal

LEMMA FlushJournalKeeps ==
    ASSUME BootInv, FlushJournal
    PROVE  BootInv'
<1>0. DirTypes /\ CtlTypes /\ DirInv /\ KindInv /\ StepInv
  BY TypesSplit DEF BootInv
<1>1. CASE FlushThen(IF job.op = "prepare" THEN "space" ELSE "clearStage")
           /\ UNCHANGED target
  <2>1. DirTypes' /\ DirInv' /\ (Candidate => Candidate') /\ fs' = fs /\ disk' = fs
    BY <1>0, <1>1, FlushKeeps DEF FlushThen
  <2>2. KindInv'
    BY <2>1 DEF KindInv
  <2>3. CtlTypes'
    BY <1>0, <1>1 DEF FlushJournal, FlushThen, Goto, CtlTypes, PCs
  <2>4. StepInv'
    BY <1>0, <1>1, <2>1 DEF FlushJournal, FlushThen, Goto, StepInv, Staging, Switching
  <2> QED BY <2>1, <2>2, <2>3, <2>4 DEF BootInv, TxTypeOK, DirTypes, CtlTypes
<1>2. CASE FlushFails
  BY <1>2, FlushFailsKeeps DEF FlushJournal
<1> QED BY <1>1, <1>2 DEF FlushJournal

LEMMA CheckSpaceKeeps ==
    ASSUME BootInv, CheckSpace
    PROVE  BootInv'
<1>0. DirTypes /\ CtlTypes /\ DirInv /\ KindInv /\ StepInv
  BY TypesSplit DEF BootInv
<1>1. CASE Goto("publish") /\ target' = 1 /\ UNCHANGED dirVars
  <2>1. DirTypes' /\ DirInv' /\ KindInv'
    BY <1>0, <1>1, UnchangedKeeps DEF CheckSpace
  <2>2. 1 \in Files
    BY SizeAssumption DEF Files
  <2>3. CtlTypes'
    BY <1>0, <1>1, <2>2, NamesDiffer DEF CheckSpace, Goto, CtlTypes, PCs
  <2>4. StepInv'
    BY <1>0, <1>1, <2>2 DEF CheckSpace, Goto, StepInv, Staging, Switching
  <2> QED BY <2>1, <2>3, <2>4 DEF BootInv, TxTypeOK, DirTypes, CtlTypes
<1>2. CASE Failed
  BY <1>2, FailedKeeps DEF CheckSpace
<1> QED BY <1>1, <1>2 DEF CheckSpace

LEMMA PublishKeeps ==
    ASSUME BootInv, Publish
    PROVE  BootInv'
<1>0. DirTypes /\ CtlTypes /\ DirInv /\ KindInv /\ StepInv
  BY TypesSplit DEF BootInv
<1>1. job.op = "prepare" /\ target \in Files
  BY <1>0 DEF Publish, StepInv, Staging
<1>2. CASE NextFile /\ UNCHANGED dirVars
  <2>1. DirTypes' /\ DirInv' /\ KindInv'
    BY <1>0, <1>2, UnchangedKeeps DEF Publish
  <2>2. CtlTypes' /\ pc' \in {"publish", "clear"} /\ target' \in Files
    BY <1>0, <1>1, <1>2, NextFileKeeps DEF Publish
  <2>3. StepInv'
    BY <1>1, <2>2 DEF Publish, StepInv, Staging, Switching
  <2> QED BY <2>1, <2>2, <2>3 DEF BootInv, TxTypeOK, DirTypes, CtlTypes
<1>3. CASE Goto("clearStage") /\ UNCHANGED <<dirVars, target>>
  <2>1. DirTypes' /\ DirInv' /\ KindInv'
    BY <1>0, <1>3, UnchangedKeeps DEF Publish
  <2>2. CtlTypes'
    BY <1>0, <1>3 DEF Publish, Goto, CtlTypes, PCs
  <2>3. StepInv'
    BY <1>1, <1>3 DEF Publish, Goto, StepInv, Staging, Switching
  <2> QED BY <2>1, <2>2, <2>3 DEF BootInv, TxTypeOK, DirTypes, CtlTypes
<1>4. CASE Failed
  BY <1>4, FailedKeeps DEF Publish
<1> QED BY <1>2, <1>3, <1>4 DEF Publish

LEMMA ClearStageKeeps ==
    ASSUME BootInv, ClearStage
    PROVE  BootInv'
<1>0. DirTypes /\ CtlTypes /\ DirInv /\ KindInv /\ StepInv
  BY TypesSplit DEF BootInv
<1>1. CASE Remove({Stage(target)}) /\ Goto("copy") /\ UNCHANGED target
  <2>1. {Stage(target)} \in SUBSET (Names \ Finals)
    BY <1>0, NamesDiffer DEF CtlTypes
  <2>2. DirTypes' /\ DirInv' /\ SameFinals /\ (Candidate => Candidate')
    BY <1>0, <1>1, <2>1, RemoveKeeps
  <2>3. KindInv'
    BY <1>0, <2>2, SameKind DEF ClearStage
  <2>4. CtlTypes'
    BY <1>0, <1>1 DEF ClearStage, Goto, CtlTypes, PCs
  <2>5. StepInv'
    BY <1>0, <1>1, <2>2 DEF ClearStage, Goto, StepInv, Staging, Switching
  <2> QED BY <2>2, <2>3, <2>4, <2>5 DEF BootInv, TxTypeOK, DirTypes, CtlTypes
<1>2. CASE Failed
  BY <1>2, FailedKeeps DEF ClearStage
<1> QED BY <1>1, <1>2 DEF ClearStage

LEMMA CopyStageKeeps ==
    ASSUME BootInv, CopyStage
    PROVE  BootInv'
<1>0. DirTypes /\ CtlTypes /\ DirInv /\ KindInv /\ StepInv
  BY TypesSplit DEF BootInv
<1>1. Stage(target) \in Names \ Finals
  BY <1>0, NamesDiffer DEF CtlTypes
<1>2. CASE Put(Stage(target), Payload) /\ Goto("flushStage") /\ UNCHANGED target
  <2>1. Payload \in Contents
    BY <1>0, PayloadFacts DEF Contents
  <2>2. DirTypes' /\ DirInv' /\ SameFinals /\ (Candidate => Candidate')
    BY <1>0, <1>1, <1>2, <2>1, PutKeeps
  <2>3. KindInv'
    BY <1>0, <2>2, SameKind DEF CopyStage
  <2>4. CtlTypes'
    BY <1>0, <1>2 DEF CopyStage, Goto, CtlTypes, PCs
  <2>5. StepInv'
    BY <1>0, <1>2, <2>2 DEF CopyStage, Goto, StepInv, Staging, Switching
  <2> QED BY <2>2, <2>3, <2>4, <2>5 DEF BootInv, TxTypeOK, DirTypes, CtlTypes
<1>3. CASE Put(Stage(target), "torn") /\ Fault /\ Return("fail") /\ UNCHANGED target
  BY <1>1, <1>3, TornKeeps DEF CopyStage
<1>4. CASE Failed
  BY <1>4, FailedKeeps DEF CopyStage
<1> QED BY <1>2, <1>3, <1>4 DEF CopyStage

(* The step that makes the rename safe: what is renamed is on the card.    *)
LEMMA FlushStageKeeps ==
    ASSUME BootInv, FlushStage
    PROVE  BootInv'
<1>0. DirTypes /\ CtlTypes /\ DirInv /\ KindInv /\ StepInv
  BY TypesSplit DEF BootInv
<1>1. CASE fs[Stage(target)] = Payload /\ StageIsFlushed /\ UNCHANGED target
  <2>1. /\ DirTypes' /\ DirInv' /\ (Candidate => Candidate')
        /\ fs' = fs /\ disk' = fs /\ raw' = {}
    BY <1>0, <1>1, FlushKeeps DEF StageIsFlushed, FlushThen
  <2>2. KindInv'
    BY <2>1 DEF KindInv
  <2>3. CtlTypes'
    BY <1>0, <1>1 DEF FlushStage, StageIsFlushed, FlushThen, Goto, CtlTypes, PCs
  <2>4. pc = "flushStage" /\ pc' = "rename" /\ job' = job /\ target' = target
    BY <1>1 DEF FlushStage, StageIsFlushed, FlushThen, Goto
  <2>5. Payload' = Payload
    BY <2>4 DEF Payload
  <2>6. StepInv'
    BY <1>0, <1>1, <2>1, <2>4, <2>5 DEF StepInv, Staging, Switching
  <2> QED BY <2>1, <2>2, <2>3, <2>6 DEF BootInv, TxTypeOK, DirTypes, CtlTypes
<1>2. CASE FlushFails
  BY <1>2, FlushFailsKeeps DEF FlushStage
<1>3. CASE Failed
  BY <1>3, FailedKeeps DEF FlushStage
<1> QED BY <1>1, <1>2, <1>3 DEF FlushStage

(* A final name gets complete data, and boot.ini a new script only when    *)
(* the versioned files are on the card.                                    *)
LEMMA RenameKeeps ==
    ASSUME BootInv, Rename
    PROVE  BootInv'
<1>0. DirTypes /\ CtlTypes /\ DirInv /\ KindInv /\ StepInv
  BY TypesSplit DEF BootInv
<1>1. CASE Move(Stage(target), File(target)) /\ Goto("flushRename") /\ UNCHANGED target
  <2>1. /\ Stage(target) \in Names /\ File(target) \in Names
        /\ Stage(target) \notin Finals /\ Stage(target) \notin raw
        /\ fs[Stage(target)] = Payload /\ target \in 0..NFiles
    BY <1>0, NamesDiffer DEF Rename, StepInv, CtlTypes
  <2>2. \A f \in 0..NFiles : fs'[File(f)] = IF f = target THEN Payload ELSE fs[File(f)]
    BY <1>0, <1>1, <2>1, NamesDiffer DEF Move, DirTypes
  <2>3. disk' = disk /\ raw' \cap Finals = {}
    BY <1>0, <1>1, <2>1 DEF Move, DirInv
  <2>4. DirTypes'
    BY <1>0, <1>1, <2>1 DEF Move, DirTypes, Contents
  <2>5. /\ Payload \in {"exact", "fallback", "target"}
        /\ target # BootIni => Payload = "exact"
        /\ target = BootIni => Payload \in {"fallback", "target"}
    BY <1>0, PayloadFacts
  <2>6. /\ job.op = "prepare" => target \in Files
        /\ job.op # "prepare" => target = BootIni /\ Candidate
    BY <1>0 DEF Rename, StepInv, Staging, Switching
  <2>7. fs'[File(BootIni)] = fs[File(BootIni)] \/ (target = BootIni /\ Candidate)
    BY <2>2, <2>6, NamesDiffer
  <2>8. Candidate' <=> Candidate
    BY <2>3 DEF Candidate
  <2>9. \A f \in Files : fs'[File(f)] \in {fs[File(f)], "exact"}
    BY <2>2, <2>5, NamesDiffer
  <2>10. fs'[File(BootIni)] \in {"fallback", "target"}
    BY <1>0, <2>2, <2>5, NamesDiffer DEF DirInv
  <2>11. DirInv'
    BY <1>0, <2>3, <2>7, <2>8, <2>9, <2>10 DEF DirInv
  <2>12. KindInv'
    BY <1>0, <2>2, <2>3, <2>6, NamesDiffer DEF KindInv, Rename
  <2>13. CtlTypes'
    BY <1>0, <1>1 DEF Rename, Goto, CtlTypes, PCs
  <2>14. StepInv'
    BY <1>0, <1>1, <2>6 DEF Rename, Goto, StepInv, Staging, Switching
  <2> QED BY <2>4, <2>11, <2>12, <2>13, <2>14 DEF BootInv, TxTypeOK, DirTypes, CtlTypes
<1>2. CASE Failed
  BY <1>2, FailedKeeps DEF Rename
<1> QED BY <1>1, <1>2 DEF Rename

LEMMA FlushRenameKeeps ==
    ASSUME BootInv, FlushRename
    PROVE  BootInv'
<1>0. DirTypes /\ CtlTypes /\ DirInv /\ KindInv /\ StepInv
  BY TypesSplit DEF BootInv
<1>1. CASE /\ Flush
           /\ IF target = BootIni THEN Goto("clear") /\ UNCHANGED target ELSE NextFile
  <2>1. DirTypes' /\ DirInv' /\ fs' = fs /\ disk' = fs
    BY <1>0, <1>1, FlushKeeps
  <2>2. KindInv'
    BY <2>1 DEF KindInv
  <2>3. CASE target = BootIni
    <3>1. CtlTypes'
      BY <1>0, <1>1, <2>3 DEF FlushRename, Goto, CtlTypes, PCs
    <3>2. StepInv'
      BY <1>0, <1>1, <2>3 DEF FlushRename, Goto, StepInv, Staging, Switching
    <3> QED BY <2>1, <2>2, <3>1, <3>2 DEF BootInv, TxTypeOK, DirTypes, CtlTypes
  <2>4. CASE target # BootIni
    <3>1. job.op = "prepare" /\ target \in Files
      BY <1>0, <2>4 DEF FlushRename, StepInv, Staging
    <3>2. CtlTypes' /\ pc' \in {"publish", "clear"} /\ target' \in Files
      BY <1>0, <1>1, <2>4, <3>1, NextFileKeeps DEF FlushRename
    <3>3. StepInv'
      BY <3>1, <3>2 DEF FlushRename, StepInv, Staging, Switching
    <3> QED BY <2>1, <2>2, <3>2, <3>3 DEF BootInv, TxTypeOK, DirTypes, CtlTypes
  <2> QED BY <2>3, <2>4
<1>2. CASE FlushFails
  BY <1>2, FlushFailsKeeps DEF FlushRename
<1> QED BY <1>1, <1>2 DEF FlushRename

LEMMA ClearMarkersKeeps ==
    ASSUME BootInv, ClearMarkers
    PROVE  BootInv'
<1>0. DirTypes /\ CtlTypes /\ DirInv /\ KindInv /\ StepInv
  BY TypesSplit DEF BootInv
<1>1. PICK S \in SUBSET Markers(job.op) :
        /\ Remove(S) /\ target' = target
        /\ \/ Goto("flushClear")
           \/ Fault /\ Return("fail")
  BY DEF ClearMarkers
<1>2. Markers(job.op) \subseteq Names \ Finals
  BY <1>0, NamesDiffer DEF CtlTypes, Markers, Ops
<1>3. DirTypes' /\ DirInv' /\ SameFinals
  BY <1>0, <1>1, <1>2, RemoveKeeps
<1>4. KindInv'
  BY <1>0, <1>3, SameKind DEF ClearMarkers
<1>5. CtlTypes'
  <2>1. CASE Goto("flushClear")
    BY <1>0, <1>1, <2>1 DEF ClearMarkers, Goto, CtlTypes, PCs
  <2>2. CASE Fault /\ Return("fail")
    BY <1>0, <1>1, <2>2, FaultBound DEF ClearMarkers, Return, CtlTypes, PCs
  <2> QED BY <1>1, <2>1, <2>2
<1>6. StepInv'
  BY <1>0, <1>1 DEF ClearMarkers, Goto, Return, StepInv, Staging, Switching
<1> QED BY <1>3, <1>4, <1>5, <1>6 DEF BootInv, TxTypeOK, DirTypes, CtlTypes

LEMMA FlushClearKeeps ==
    ASSUME BootInv, FlushClear
    PROVE  BootInv'
<1>0. DirTypes /\ CtlTypes /\ DirInv /\ KindInv /\ StepInv
  BY TypesSplit DEF BootInv
<1>1. CASE /\ Flush /\ UNCHANGED <<target, faults>>
           /\ \E r \in {"ok", "fail"} : Return(r)
  <2>1. DirTypes' /\ DirInv' /\ fs' = fs /\ disk' = fs
    BY <1>0, <1>1, FlushKeeps
  <2>2. KindInv'
    BY <2>1 DEF KindInv
  <2>3. CtlTypes'
    BY <1>0, <1>1 DEF FlushClear, Return, CtlTypes, PCs
  <2>4. StepInv'
    BY <1>0, <1>1 DEF FlushClear, Return, StepInv, Staging, Switching
  <2> QED BY <2>1, <2>2, <2>3, <2>4 DEF BootInv, TxTypeOK, DirTypes, CtlTypes
<1>2. CASE FlushFails
  BY <1>2, FlushFailsKeeps DEF FlushClear
<1> QED BY <1>1, <1>2 DEF FlushClear

LEMMA CallKeeps ==
    ASSUME BootInv, Call
    PROVE  BootInv'
<1>0. DirTypes /\ CtlTypes /\ DirInv /\ KindInv /\ StepInv
  BY TypesSplit DEF BootInv
<1>1. CASE Mounted /\ \E op \in Ops, rec \in BOOLEAN : Invoke(op, rec)
  BY <1>1, InvokeKeeps DEF Mounted
<1>2. CASE job.op = "activate" /\ Invoke("rollback", FALSE)
  BY <1>2, InvokeKeeps DEF Ops
<1> QED BY <1>1, <1>2 DEF Call

LEMMA UnmountKeeps ==
    ASSUME BootInv, Unmount
    PROVE  BootInv'
<1>0. DirTypes /\ CtlTypes /\ DirInv /\ KindInv /\ StepInv
  BY TypesSplit DEF BootInv
<1>1. DirTypes' /\ DirInv' /\ fs' = fs /\ disk' = fs /\ (Candidate => Candidate')
  BY <1>0, FlushKeeps DEF Unmount
<1>2. KindInv'
  BY <1>1 DEF KindInv
<1>3. CtlTypes' /\ StepInv'
  BY <1>0 DEF Unmount, CtlTypes, StepInv, Staging, Switching
<1> QED BY <1>1, <1>2, <1>3 DEF BootInv, TxTypeOK, DirTypes, CtlTypes

LEMMA PowerLossStepKeeps ==
    ASSUME BootInv, PowerLoss
    PROVE  BootInv'
<1>0. DirTypes /\ CtlTypes /\ DirInv /\ KindInv /\ StepInv
  BY TypesSplit DEF BootInv
<1>1. DirTypes' /\ DirInv'
  BY <1>0, PowerLossKeeps DEF PowerLoss
<1>2. KindInv'
  BY DEF PowerLoss, KindInv
<1>3. CtlTypes'
  BY <1>0, FaultBound DEF PowerLoss, CtlTypes, PCs
<1>4. StepInv'
  BY <1>0 DEF PowerLoss, StepInv, Staging, Switching
<1> QED BY <1>1, <1>2, <1>3, <1>4 DEF BootInv, TxTypeOK, DirTypes, CtlTypes

----------------------------------------------------------------------------
(* The theorems *)

LEMMA InitHolds == TxInit => BootInv
<1> SUFFICES ASSUME TxInit PROVE BootInv
  OBVIOUS
<1>1. \A f \in Files : /\ File(f) \in Names /\ File(f) # File(BootIni)
                       /\ fs[File(f)] = "none" /\ disk[File(f)] = "none"
  BY NamesDiffer DEF TxInit
<1>2. fs[File(BootIni)] = "fallback" /\ disk[File(BootIni)] = "fallback"
  BY NamesDiffer DEF TxInit
<1>3. TxTypeOK
  BY SizeAssumption, NamesDiffer DEF TxInit, TxTypeOK, Contents, PCs, Ops
<1>4. DirInv
  BY <1>1, <1>2 DEF TxInit, DirInv
<1>5. StepInv /\ KindInv
  BY DEF TxInit, StepInv, KindInv, Staging, Switching
<1> QED BY <1>3, <1>4, <1>5 DEF BootInv

LEMMA StepKeeps == BootInv /\ [TxNext]_txVars => BootInv'
<1> SUFFICES ASSUME BootInv, [TxNext]_txVars PROVE BootInv'
  OBVIOUS
<1>1. CASE UNCHANGED txVars
  BY <1>1 DEF txVars, BootInv, TxTypeOK, DirInv, StepInv, KindInv, Candidate, Payload
<1>2. CASE TxStep
  BY <1>2, DetectKeeps, WriteJournalKeeps, FlushJournalKeeps, CheckSpaceKeeps,
     PublishKeeps, ClearStageKeeps, CopyStageKeeps, FlushStageKeeps, RenameKeeps,
     FlushRenameKeeps, ClearMarkersKeeps, FlushClearKeeps DEF TxStep
<1> QED BY <1>1, <1>2, CallKeeps, UnmountKeeps, PowerLossStepKeeps DEF TxNext

LEMMA Invariant == TxSpec => []BootInv
<1> QED BY InitHolds, StepKeeps, PTL DEF TxSpec

(* Every variable keeps its type.                                          *)
THEOREM TypesHold == TxSpec => []TxTypeOK
<1>1. BootInv => TxTypeOK
  BY DEF BootInv
<1> QED BY <1>1, Invariant, PTL

(* Whatever is called, whatever fails and whenever the power goes, boot.ini *)
(* on the card is one exact script, and the new one only with its files.   *)
THEOREM AlwaysBootable == TxSpec => []Bootable
<1>1. BootInv => Bootable
  BY DEF BootInv, DirInv, Bootable
<1> QED BY <1>1, Invariant, PTL

(* On the card a final name gets what the file system shows, or nothing.   *)
LEMMA DiskStep ==
    ASSUME BootInv, [TxNext]_txVars
    PROVE  \A f \in 0..NFiles : disk'[File(f)] \in {fs[File(f)], disk[File(f)]}
<1>1. DirTypes /\ DirInv
  BY TypesSplit DEF BootInv
<1>2. disk' = disk \/ disk' = fs \/ Survives(disk')
  <2>1. TxStep => disk' = disk \/ disk' = fs \/ Survives(disk')
    BY DEF TxStep, Detect, WriteJournal, FlushJournal, CheckSpace, Publish, ClearStage,
       CopyStage, FlushStage, Rename, FlushRename, ClearMarkers, FlushClear, Failed,
       FlushFails, FlushThen, StageIsFlushed, PartialFlush, Put, Remove, Move, Flush,
       dirVars
  <2>2. Call => disk' = disk
    BY DEF Call, Invoke, dirVars
  <2>3. UNCHANGED txVars => disk' = disk
    BY DEF txVars
  <2> QED BY <2>1, <2>2, <2>3 DEF TxNext, Unmount, Flush, PowerLoss
<1> QED BY <1>1, <1>2, SurvivesFacts

LEMMA SwitchStep ==
    BootInv /\ BootInv' /\ [TxNext]_txVars =>
        [Switch!Next]_<<disk[File(BootIni)], Candidate>>
<1> SUFFICES ASSUME BootInv, BootInv', [TxNext]_txVars
             PROVE  [Switch!Next]_<<disk[File(BootIni)], Candidate>>
  OBVIOUS
<1>1. /\ disk'[File(BootIni)] \in {fs[File(BootIni)], disk[File(BootIni)]}
      /\ \A f \in Files : disk'[File(f)] \in {fs[File(f)], disk[File(f)]}
  BY DiskStep, NamesDiffer
<1>2. Candidate => Candidate'
  BY <1>1 DEF Candidate, BootInv, DirInv
<1>3. /\ disk[File(BootIni)] \in {"fallback", "target"}
      /\ disk'[File(BootIni)] \in {"fallback", "target"}
      /\ Candidate \in BOOLEAN
  BY DEF BootInv, DirInv, Candidate
<1>4. CASE job.op = "prepare"
  <2>1. disk'[File(BootIni)] = disk[File(BootIni)]
    BY <1>1, <1>4 DEF BootInv, KindInv
  <2> QED BY <1>2, <2>1 DEF Switch!Next, Switch!Publish, Candidate
<1>5. CASE job.op # "prepare"
  <2>1. Candidate' = Candidate
    BY <1>1, <1>5 DEF BootInv, KindInv, Candidate
  <2>2. disk'[File(BootIni)] = "target" => Candidate
    BY <1>1 DEF BootInv, DirInv
  <2> QED BY <1>3, <2>1, <2>2 DEF Switch!Next, Switch!Select, Switch!Restore
<1> QED BY <1>4, <1>5

(* The directory is the boot switch its user relies on.                    *)
THEOREM SwitchImplemented == TxSpec => ImplementsSwitch
<1>1. TxInit => Switch!Init
  <2> SUFFICES ASSUME TxInit PROVE Switch!Init
    OBVIOUS
  <2>1. disk[File(BootIni)] = "fallback"
    BY NamesDiffer DEF TxInit
  <2>2. 1 \in Files /\ disk[File(1)] = "none"
    BY SizeAssumption, NamesDiffer DEF TxInit, Files
  <2> QED BY <2>1, <2>2 DEF Switch!Init, Candidate
<1> QED BY <1>1, Invariant, SwitchStep, PTL DEF TxSpec, ImplementsSwitch, Switch!Spec

----------------------------------------------------------------------------
(* What success says                                                       *)
(*                                                                         *)
(* An operation that finds its work already done returns at once, without  *)
(* a flush.  That is safe because it was called on a freshly mounted       *)
(* directory, or it is the rollback after a failed activation, which finds *)
(* the mark of that activation unless the directory was never changed.     *)

Active == File(BootIni)
Marked == fs[Journal("activate")] # "none" \/ fs[Active] = "target"
Marking == {"flushJournal", "clearStage", "copy", "flushStage", "rename",
            "flushRename", "clear", "flushClear"}

OutcomeInv ==
    /\ pc # "idle" => result = "none"
    /\ result = "ok" => Mounted /\ DetectState(disk) \in Finished(job.op)
    /\ job.op = "activate" => Mounted \/ Marked
    /\ job.op = "activate" /\ pc \in Marking => Marked
    /\ pc = "detect" => Mounted \/ (job.op = "rollback" /\ Marked)

(* Journals are neither final names nor stages, and differ by operation.   *)
LEMMA JournalsDiffer ==
    /\ Active \in Names /\ \A op \in Ops : Journal(op) \in Names /\ Journal(op) # Active
    /\ \A f \in 0..NFiles : /\ Stage(f) # Active
                            /\ \A op \in Ops : Journal(op) \notin {Stage(f), File(f)}
    /\ \A op1, op2 \in Ops : Journal(op1) = Journal(op2) => op1 = op2
<1>1. Active \in Names /\ \A op \in Ops : Journal(op) \in Names /\ Journal(op) # Active
  BY NamesDiffer DEF Active
<1>2. ASSUME NEW f \in 0..NFiles
      PROVE  /\ Stage(f) # Active
             /\ \A op \in Ops : Journal(op) \notin {Stage(f), File(f)}
  BY DEF Active, Stage, File, Journal, Ops
<1>3. \A op1, op2 \in Ops : Journal(op1) = Journal(op2) => op1 = op2
  BY DEF Journal
<1> QED BY <1>1, <1>2, <1>3

(* What the classification of a directory says about its journals.         *)
LEMMA StateJournals ==
    ASSUME NEW b \in [Names -> Contents]
    PROVE  /\ DetectState(b) \in {"base", "prepared"} => b[Active] = "fallback"
           /\ DetectState(b) = "activated" => b[Active] = "target"
           /\ DetectState(b) \in {"base", "prepared", "activated"} =>
                 \A op \in Ops : b[Journal(op)] = "none"
           /\ DetectState(b) = "activate-partial" => b[Journal("activate")] = "exact"
           /\ DetectState(b) = "rollback-partial" => b[Journal("rollback")] = "exact"
<1>1. JournalsIn(b) = {} => \A op \in Ops : b[Journal(op)] = "none"
  BY DEF JournalsIn
<1>2. ExactIn(b) => /\ b[Active] \in {"fallback", "target"}
                    /\ \A op \in JournalsIn(b) : b[Journal(op)] = "exact"
  BY DEF ExactIn, Active
<1>3. DetectState(b) \in {"base", "prepared"} =>
        b[File(BootIni)] = "fallback" /\ JournalsIn(b) = {}
  BY Classification
<1>4. DetectState(b) = "activated" =>
        ExactIn(b) /\ b[File(BootIni)] # "fallback" /\ JournalsIn(b) = {}
  BY Classification
<1>5. DetectState(b) = "activate-partial" => ExactIn(b) /\ JournalsIn(b) = {"activate"}
  BY Classification
<1>6. DetectState(b) = "rollback-partial" => ExactIn(b) /\ JournalsIn(b) = {"rollback"}
  BY Classification
<1> QED BY <1>1, <1>2, <1>3, <1>4, <1>5, <1>6 DEF Active

(* A marked directory is in no state that a finished rollback reaches.     *)
LEMMA MarkedIsUnfinished ==
    ASSUME DirTypes, Marked
    PROVE  DetectState(fs) \notin Finished("rollback")
BY StateJournals DEF DirTypes, Marked, Finished, Ops

(* A command that fails ends the operation and changes no more than what   *)
(* the power could lose.                                                   *)
LEMMA FailureKeepsOutcome ==
    ASSUME OutcomeInv, Return("fail"), job' = job,
           job.op = "activate" => Mounted' \/ Marked'
    PROVE  OutcomeInv'
BY DEF OutcomeInv, Return, Marking

LEMMA FailedKeepsOutcome ==
    ASSUME OutcomeInv, Failed, job' = job
    PROVE  OutcomeInv'
<1>1. job.op = "activate" => Mounted' \/ Marked'
  BY DEF OutcomeInv, Failed, dirVars, Mounted, Marked
<1> QED BY <1>1, FailureKeepsOutcome DEF Failed

LEMMA FlushFailsKeepsOutcome ==
    ASSUME OutcomeInv, FlushFails, pc \in Marking, job' = job
    PROVE  OutcomeInv'
<1>1. job.op = "activate" => Marked'
  BY DEF OutcomeInv, FlushFails, PartialFlush, Marked
<1> QED BY <1>1, FailureKeepsOutcome DEF FlushFails

(* A command of the running operation that goes on to the next one.        *)
LEMMA GotoKeepsOutcome ==
    ASSUME OutcomeInv, NEW p \in PCs \ {"idle", "detect"}, pc # "idle", Goto(p),
           job' = job,
           job.op = "activate" => Marked' \/ (p = "journal" /\ Mounted')
    PROVE  OutcomeInv'
BY DEF OutcomeInv, Goto, Marking

LEMMA DetectKeepsOutcome ==
    ASSUME BootInv, OutcomeInv, Detect
    PROVE  OutcomeInv'
<1>0. DirTypes /\ CtlTypes
  BY TypesSplit DEF BootInv
<1>1. CASE Failed
  BY <1>1, FailedKeepsOutcome DEF Detect
<1> DEFINE s == DetectState(fs)
           next == IF job.op = "prepare" THEN "space"
                   ELSE IF fs[File(BootIni)] = FromActive(job.op)
                        THEN "clearStage" ELSE "clear"
<1>2. SUFFICES ASSUME UNCHANGED <<dirVars, target>>, job' = job, pc = "detect"
      PROVE  \/ s \in Finished(job.op) /\ Return(IF job.rec THEN "fail" ELSE "ok")
             \/ s = Fresh(job.op) /\ Goto("journal")
             \/ s \in Resumed(job.op) /\ Goto(next)
             \/ Return("fail")
             => OutcomeInv'
  <2> HIDE DEF next
  <2> QED BY <1>1, <1>2 DEF Detect, next
<1>3. /\ Mounted' <=> Mounted
      /\ Marked' <=> Marked
      /\ disk' = disk /\ fs' = fs
  BY <1>2 DEF dirVars, Mounted, Marked
<1>4. CASE Return("fail")
  BY <1>2, <1>3, <1>4, FailureKeepsOutcome DEF OutcomeInv
<1>5. CASE s \in Finished(job.op) /\ Return("ok")
  <2>1. Mounted
    BY <1>0, <1>2, <1>5, MarkedIsUnfinished DEF OutcomeInv
  <2>2. DetectState(disk') = s
    BY <1>3, <2>1 DEF Mounted
  <2> QED BY <1>2, <1>3, <1>5, <2>1, <2>2 DEF OutcomeInv, Return, Marking
<1>6. CASE s = Fresh(job.op) /\ Goto("journal")
  <2>1. job.op = "activate" => Mounted'
    BY <1>2, <1>3 DEF OutcomeInv
  <2> QED BY <1>2, <1>6, <2>1, GotoKeepsOutcome DEF PCs
<1>7. CASE s \in Resumed(job.op) /\ Goto(next)
  <2>1. job.op = "activate" => Marked'
    BY <1>0, <1>3, <1>7, StateJournals DEF Resumed, DirTypes, Marked
  <2>2. next \in PCs \ {"idle", "detect"}
    BY DEF PCs
  <2> HIDE DEF next
  <2> QED BY <1>2, <1>7, <2>1, <2>2, GotoKeepsOutcome
<1> QED BY <1>4, <1>5, <1>6, <1>7

LEMMA WriteJournalKeepsOutcome ==
    ASSUME BootInv, OutcomeInv, WriteJournal
    PROVE  OutcomeInv'
<1>0. DirTypes /\ CtlTypes
  BY TypesSplit DEF BootInv
<1>1. ASSUME NEW c \in {"exact", "torn"}, Put(Journal(job.op), c)
      PROVE  job.op = "activate" => Marked'
  BY <1>0, <1>1, JournalsDiffer DEF CtlTypes, Put, DirTypes, Marked
<1>2. CASE Put(Journal(job.op), "exact") /\ Goto("flushJournal")
  BY <1>1, <1>2, GotoKeepsOutcome DEF WriteJournal, PCs
<1>3. CASE Put(Journal(job.op), "torn") /\ Return("fail")
  BY <1>1, <1>3, FailureKeepsOutcome DEF WriteJournal
<1>4. CASE Failed
  BY <1>4, FailedKeepsOutcome DEF WriteJournal
<1> QED BY <1>2, <1>3, <1>4 DEF WriteJournal

LEMMA FlushJournalKeepsOutcome ==
    ASSUME OutcomeInv, FlushJournal
    PROVE  OutcomeInv'
<1>1. CASE FlushThen(IF job.op = "prepare" THEN "space" ELSE "clearStage")
  <2> DEFINE p == IF job.op = "prepare" THEN "space" ELSE "clearStage"
  <2>1. p \in PCs \ {"idle", "detect"}
    BY DEF PCs
  <2>2. job.op = "activate" => Marked'
    BY <1>1 DEF OutcomeInv, FlushJournal, FlushThen, Flush, Marked, Marking
  <2>3. Goto(p)
    BY <1>1 DEF FlushThen
  <2> HIDE DEF p
  <2> QED BY <2>1, <2>2, <2>3, GotoKeepsOutcome DEF FlushJournal
<1>2. CASE FlushFails
  BY <1>2, FlushFailsKeepsOutcome DEF FlushJournal, Marking
<1> QED BY <1>1, <1>2 DEF FlushJournal

LEMMA PublishKeepsOutcome ==
    ASSUME BootInv, OutcomeInv, CheckSpace \/ Publish
    PROVE  OutcomeInv'
<1>1. job.op = "prepare" /\ job' = job /\ pc # "idle"
  BY DEF BootInv, StepInv, CheckSpace, Publish, TxTypeOK, Ops
<1>2. CASE Failed
  BY <1>1, <1>2, FailedKeepsOutcome
<1>3. CASE \E p \in {"publish", "clear", "clearStage"} : Goto(p)
  BY <1>1, <1>3, GotoKeepsOutcome DEF PCs
<1> QED BY <1>2, <1>3 DEF CheckSpace, Publish, NextFile

(* Stages are written and removed behind the mark.                         *)
LEMMA StageKeepsOutcome ==
    ASSUME BootInv, OutcomeInv, ClearStage \/ CopyStage
    PROVE  OutcomeInv'
<1>0. DirTypes /\ CtlTypes
  BY TypesSplit DEF BootInv
<1>1. job' = job /\ pc \in Marking \ {"idle"}
  BY DEF ClearStage, CopyStage, Marking
<1>2. CASE Failed
  BY <1>1, <1>2, FailedKeepsOutcome
<1>3. ASSUME \/ Remove({Stage(target)})
             \/ \E c \in {Payload, "torn"} : Put(Stage(target), c)
      PROVE  job.op = "activate" => Marked'
  <2>1. /\ Stage(target) # Active /\ Stage(target) # Journal("activate")
        /\ Active \in Names /\ Journal("activate") \in Names
    BY <1>0, JournalsDiffer DEF CtlTypes, Ops
  <2> QED BY <1>0, <1>1, <1>3, <2>1 DEF OutcomeInv, Put, Remove, DirTypes, Marked
<1>4. CASE /\ \/ Remove({Stage(target)})
              \/ \E c \in {Payload, "torn"} : Put(Stage(target), c)
           /\ \E p \in {"copy", "flushStage"} : Goto(p)
  BY <1>1, <1>3, <1>4, GotoKeepsOutcome DEF PCs, Marking
<1>5. CASE Put(Stage(target), "torn") /\ Return("fail")
  BY <1>1, <1>3, <1>5, FailureKeepsOutcome
<1> QED BY <1>2, <1>4, <1>5 DEF ClearStage, CopyStage

LEMMA FlushStageKeepsOutcome ==
    ASSUME OutcomeInv, FlushStage
    PROVE  OutcomeInv'
<1>1. CASE StageIsFlushed
  <2>1. job.op = "activate" => Marked'
    BY <1>1 DEF OutcomeInv, FlushStage, StageIsFlushed, FlushThen, Flush, Marked, Marking
  <2> QED BY <1>1, <2>1, GotoKeepsOutcome DEF FlushStage, StageIsFlushed, FlushThen, PCs
<1>2. CASE FlushFails
  BY <1>2, FlushFailsKeepsOutcome DEF FlushStage, Marking
<1>3. CASE Failed
  BY <1>3, FailedKeepsOutcome DEF FlushStage
<1> QED BY <1>1, <1>2, <1>3 DEF FlushStage

(* What activate renames is the new script, itself a mark.                 *)
LEMMA RenameKeepsOutcome ==
    ASSUME BootInv, OutcomeInv, Rename
    PROVE  OutcomeInv'
<1>0. DirTypes /\ CtlTypes /\ StepInv
  BY TypesSplit DEF BootInv
<1>1. CASE Move(Stage(target), File(target)) /\ Goto("flushRename")
  <2>1. ASSUME job.op = "activate" PROVE Marked'
    <3>1. target = BootIni /\ fs[Stage(target)] = "target"
      BY <1>0, <2>1 DEF Rename, StepInv, Payload, ToActive
    <3> QED BY <1>0, <1>1, <3>1, JournalsDiffer DEF Move, DirTypes, Marked, Active
  <2> QED BY <1>1, <2>1, GotoKeepsOutcome DEF Rename, PCs
<1>2. CASE Failed
  BY <1>2, FailedKeepsOutcome DEF Rename
<1> QED BY <1>1, <1>2 DEF Rename

LEMMA FlushRenameKeepsOutcome ==
    ASSUME OutcomeInv, FlushRename
    PROVE  OutcomeInv'
<1>1. CASE Flush /\ \E p \in {"clear", "publish"} : Goto(p)
  <2>1. job.op = "activate" => Marked'
    BY <1>1 DEF OutcomeInv, FlushRename, Flush, Marked, Marking
  <2> QED BY <1>1, <2>1, GotoKeepsOutcome DEF FlushRename, PCs
<1>2. CASE FlushFails
  BY <1>2, FlushFailsKeepsOutcome DEF FlushRename, Marking
<1> QED BY <1>1, <1>2 DEF FlushRename, NextFile

(* activate loses its journal only when its script is the active one.      *)
LEMMA ClearMarkersKeepsOutcome ==
    ASSUME BootInv, OutcomeInv, ClearMarkers
    PROVE  OutcomeInv'
<1>0. DirTypes /\ CtlTypes
  BY TypesSplit DEF BootInv
<1>1. /\ Active \in Names /\ Journal("activate") \in Names
      /\ Active \notin Markers(job.op)
  BY <1>0, JournalsDiffer, NamesDiffer DEF CtlTypes, Markers, Ops
<1>2. CASE /\ fs[File(BootIni)] = ToActive(job.op)
           /\ Remove(Markers(job.op)) /\ Goto("flushClear")
  <2>1. job.op = "activate" => Marked'
    BY <1>1, <1>2 DEF Remove, Marked, ToActive, Active
  <2> QED BY <1>2, <2>1, GotoKeepsOutcome DEF ClearMarkers, PCs
<1>3. CASE \E S \in SUBSET Markers(job.op) :
             /\ job.op = "activate" => Journal("activate") \notin S
             /\ Remove(S) /\ Return("fail")
  <2>1. job.op = "activate" => Marked'
    BY <1>1, <1>3 DEF OutcomeInv, ClearMarkers, Remove, Marked, Marking
  <2> QED BY <1>3, <2>1, FailureKeepsOutcome DEF ClearMarkers
<1> QED BY <1>2, <1>3 DEF ClearMarkers

LEMMA FlushClearKeepsOutcome ==
    ASSUME OutcomeInv, FlushClear
    PROVE  OutcomeInv'
<1>1. CASE Flush /\ Return(IF DetectState(fs) \in Finished(job.op) \ {"base"}
                           THEN "ok" ELSE "fail")
  <2>1. disk' = fs /\ fs' = fs /\ Mounted' /\ job' = job
    BY <1>1 DEF FlushClear, Flush, Mounted
  <2>2. DetectState(disk') = DetectState(fs)
    BY <2>1
  <2> QED BY <1>1, <2>1, <2>2 DEF OutcomeInv, Return, Marking
<1>2. CASE FlushFails
  BY <1>2, FlushFailsKeepsOutcome DEF FlushClear, Marking
<1> QED BY <1>1, <1>2 DEF FlushClear

LEMMA CallerKeepsOutcome ==
    ASSUME OutcomeInv, Call \/ Unmount \/ PowerLoss
    PROVE  OutcomeInv'
<1>1. CASE Call
  <2>1. PICK op \in Ops, rec \in BOOLEAN :
          Invoke(op, rec) /\ (Mounted \/ (job.op = "activate" /\ op = "rollback"))
    BY <1>1 DEF Call, Ops
  <2>2. (Mounted' <=> Mounted) /\ (Marked' <=> Marked)
    BY <2>1 DEF Invoke, dirVars, Mounted, Marked
  <2> QED BY <2>1, <2>2 DEF OutcomeInv, Invoke, Marking
<1>2. CASE Unmount
  <2>1. Mounted' /\ result' = result /\ pc' = "idle" /\ job' = job /\ result # "ok"
    BY <1>2 DEF Unmount, Flush, Mounted, OutcomeInv
  <2> QED BY <2>1 DEF OutcomeInv, Marking
<1>3. CASE PowerLoss
  <2>1. Mounted' /\ result' = "none" /\ pc' = "idle"
    BY <1>3 DEF PowerLoss, Mounted
  <2> QED BY <2>1 DEF OutcomeInv, Marking
<1> QED BY <1>1, <1>2, <1>3

LEMMA OutcomeStep == BootInv /\ OutcomeInv /\ [TxNext]_txVars => OutcomeInv'
<1> SUFFICES ASSUME BootInv, OutcomeInv, [TxNext]_txVars PROVE OutcomeInv'
  OBVIOUS
<1>1. CASE UNCHANGED txVars
  <2>1. (Mounted' <=> Mounted) /\ (Marked' <=> Marked) /\ disk' = disk
    BY <1>1 DEF txVars, Mounted, Marked
  <2> QED BY <1>1, <2>1 DEF txVars, OutcomeInv
<1>2. CASE TxStep
  BY <1>2, DetectKeepsOutcome, WriteJournalKeepsOutcome, FlushJournalKeepsOutcome,
     PublishKeepsOutcome, StageKeepsOutcome, FlushStageKeepsOutcome,
     RenameKeepsOutcome, FlushRenameKeepsOutcome, ClearMarkersKeepsOutcome,
     FlushClearKeepsOutcome DEF TxStep
<1> QED BY <1>1, <1>2, CallerKeepsOutcome DEF TxNext

LEMMA OutcomeInvariant == TxSpec => []OutcomeInv
<1>1. TxInit => OutcomeInv
  BY DEF TxInit, OutcomeInv, Mounted, Marking
<1> QED BY <1>1, Invariant, OutcomeStep, PTL DEF TxSpec

(* r46h_tx_prepare, _activate and _rollback: when one of them returns      *)
(* success, the directory on the card is in the state it is to reach.      *)
THEOREM SuccessSurvives == TxSpec => []SuccessIsDurable
<1>1. OutcomeInv => SuccessIsDurable
  BY DEF OutcomeInv, SuccessIsDurable
<1> QED BY <1>1, OutcomeInvariant, PTL
----------------------------------------------------------------------------
(* What the journals say                                                   *)
(*                                                                         *)
(* boot.ini is renamed only behind a journal that was flushed, the journal *)
(* is removed only after the rename was flushed, and the one call without  *)
(* a fresh mount, the rollback, finds either the flushed journal of the    *)
(* failed activation or an active script that never changed.               *)

Switched == fs[Active] # disk[Active]
Shown == \E op \in {"activate", "rollback"} : fs[Journal(op)] = "exact"
Explained == \E op \in {"activate", "rollback"} :
                /\ fs[Journal(op)] = "exact" /\ disk[Journal(op)] = "exact"
                /\ Journal(op) \notin raw
Forward == disk[Active] = "target" => fs[Active] = "target"

JournalInv ==
    /\ Switched => Explained
    /\ pc \in {"journal", "flushJournal", "clear", "flushClear"} => ~Switched
    /\ job.op # "prepare" /\ pc \in {"flushJournal", "clearStage", "copy", "flushStage"}
          => Shown
    /\ job.op # "prepare" /\ pc = "rename" => Explained
    /\ job.op = "activate" \/ pc = "detect" => Forward

(* prepare never changes the active script.                                *)
LEMMA PrepareKeepsJournal ==
    ASSUME BootInv', job'.op = "prepare"
    PROVE  JournalInv'
BY DEF BootInv, KindInv, JournalInv, Switched, Forward, Active

(* A command that leaves the active script and its explanation in place.   *)
Undisturbed == /\ fs'[Active] = fs[Active] /\ disk'[Active] = disk[Active]
               /\ (Explained => Explained') /\ (Shown => Shown')

LEMMA UnchangedUndisturbs ==
    ASSUME UNCHANGED dirVars
    PROVE  Undisturbed
BY DEF dirVars, Undisturbed, Explained, Shown

LEMMA StageUndisturbs ==
    ASSUME DirTypes, target \in 0..NFiles,
           \/ Remove({Stage(target)})
           \/ \E c \in {Payload, "torn"} : Put(Stage(target), c)
    PROVE  Undisturbed
<1>1. /\ Active \in Names /\ Stage(target) # Active
      /\ \A op \in {"activate", "rollback"} : Journal(op) \in Names
                                               /\ Journal(op) # Stage(target)
  BY JournalsDiffer DEF Ops
<1>2. /\ disk' = disk /\ raw' \subseteq raw \cup {Stage(target)}
      /\ \A n \in Names \ {Stage(target)} : fs'[n] = fs[n]
  BY DEF Put, Remove, DirTypes
<1> QED BY <1>1, <1>2 DEF Undisturbed, Explained, Shown

LEMMA UndisturbedEnds ==
    ASSUME JournalInv, Undisturbed, job' = job, pc' = "idle",
           job.op = "activate" => Forward
    PROVE  JournalInv'
BY DEF JournalInv, Undisturbed, Switched, Forward

LEMMA UndisturbedGoesOn ==
    ASSUME JournalInv, Undisturbed, job' = job, pc \in {"clearStage", "copy"},
           pc' \in {"idle", "copy", "flushStage"}
    PROVE  JournalInv'
BY DEF JournalInv, Undisturbed, Switched, Forward

(* A flush settles the active script; a failed one may, and leaves on the  *)
(* card what was on the card and in the file system.                       *)
LEMMA FlushSettles ==
    ASSUME Flush
    PROVE  /\ ~Switched' /\ Forward'
           /\ (Shown => Shown' /\ Explained')
BY DEF Flush, Switched, Forward, Shown, Explained

LEMMA FlushFailsKeepsJournal ==
    ASSUME BootInv, JournalInv, FlushFails, job' = job
    PROVE  JournalInv'
<1>0. DirTypes /\ DirInv
  BY TypesSplit DEF BootInv
<1>1. /\ fs' = fs /\ raw' = raw /\ pc' = "idle"
      /\ disk'[Active] \in {fs[Active], disk[Active]}
  BY <1>0, PartialFlushKeeps, NamesDiffer DEF FlushFails, Return, Active
<1>2. PICK S \in SUBSET Unflushed : \E T \in SUBSET (S \cap raw) :
        disk' = [n \in Names |-> IF n \in T THEN "torn"
                                 ELSE IF n \in S THEN fs[n] ELSE disk[n]]
  BY DEF FlushFails, PartialFlush, Survives
<1>3. \A n \in Names \ raw : disk'[n] \in {fs[n], disk[n]}
  BY <1>2
<1>4. \A op \in {"activate", "rollback"} : Journal(op) \in Names
  BY JournalsDiffer DEF Ops
<1>5. Explained => Explained'
  BY <1>1, <1>3, <1>4 DEF Explained
<1>6. (Switched' => Switched) /\ (Forward => Forward')
  BY <1>1 DEF Switched, Forward
<1> QED BY <1>1, <1>5, <1>6 DEF JournalInv

LEMMA FailedKeepsJournal ==
    ASSUME JournalInv, Failed, job' = job
    PROVE  JournalInv'
<1>1. Undisturbed /\ pc' = "idle"
  BY UnchangedUndisturbs DEF Failed, Return
<1> QED BY <1>1, UndisturbedEnds DEF JournalInv

LEMMA DetectKeepsJournal ==
    ASSUME BootInv, BootInv', OutcomeInv, JournalInv, Detect
    PROVE  JournalInv'
<1>0. DirTypes /\ DirInv /\ job \in [op : Ops, rec : BOOLEAN]
  BY TypesSplit DEF BootInv, CtlTypes
<1>1. CASE Failed
  BY <1>1, FailedKeepsJournal DEF Detect
<1>2. CASE job.op = "prepare"
  BY <1>2, PrepareKeepsJournal DEF Detect
<1> DEFINE s == DetectState(fs)
           next == IF fs[File(BootIni)] = FromActive(job.op) THEN "clearStage"
                                                             ELSE "clear"
<1>3. SUFFICES ASSUME UNCHANGED <<dirVars, target>>, job' = job, pc = "detect",
                      job.op \in {"activate", "rollback"}
      PROVE  \/ s = Fresh(job.op) /\ pc' = "journal"
             \/ s \in Resumed(job.op) /\ pc' = next
             \/ pc' = "idle"
             => JournalInv'
  <2>1. job.op \in {"activate", "rollback"} \/ job.op = "prepare"
    BY <1>0 DEF Ops
  <2> HIDE DEF next
  <2> QED BY <1>1, <1>2, <1>3, <2>1 DEF Detect, Goto, Return, next
<1>4. Undisturbed /\ Forward
  BY <1>3, UnchangedUndisturbs DEF JournalInv
<1>5. CASE pc' = "idle"
  BY <1>3, <1>4, <1>5, UndisturbedEnds
<1>6. CASE s = Fresh(job.op) /\ pc' = "journal"
  <2>1. ~Explained
    BY <1>0, <1>3, <1>6, StateJournals DEF DirTypes, Fresh, Explained, Ops
  <2>2. ~Switched
    BY <2>1 DEF JournalInv
  <2> QED BY <1>3, <1>4, <1>6, <2>2 DEF JournalInv, Undisturbed, Switched, Forward
<1>7. CASE s \in Resumed(job.op) /\ pc' = next
  <2>1. Shown
    BY <1>0, <1>3, <1>7, StateJournals DEF DirTypes, Resumed, Shown
  <2>2. ASSUME fs[File(BootIni)] # FromActive(job.op)
        PROVE  ~Switched
    <3>1. CASE job.op = "activate"
      BY <1>3, <3>1 DEF OutcomeInv, Mounted, Switched
    <3>2. CASE job.op = "rollback"
      BY <1>0, <1>4, <2>2, <3>2 DEF FromActive, Forward, DirInv, Switched, Active
    <3> QED BY <1>3, <3>1, <3>2
  <2>3. pc' = "clearStage" \/ (pc' = "clear" /\ ~Switched)
    BY <1>7, <2>2
  <2> QED BY <1>3, <1>4, <2>1, <2>3 DEF JournalInv, Undisturbed, Switched, Forward
<1> HIDE DEF next
<1> QED BY <1>5, <1>6, <1>7

LEMMA WriteJournalKeepsJournal ==
    ASSUME BootInv, BootInv', JournalInv, WriteJournal
    PROVE  JournalInv'
<1>0. DirTypes /\ job.op \in Ops
  BY TypesSplit DEF BootInv, CtlTypes
<1>1. CASE Failed
  BY <1>1, FailedKeepsJournal DEF WriteJournal
<1>2. CASE job.op = "prepare"
  BY <1>2, PrepareKeepsJournal DEF WriteJournal
<1>3. CASE /\ job.op \in {"activate", "rollback"}
           /\ \/ Put(Journal(job.op), "exact") /\ Goto("flushJournal")
              \/ Put(Journal(job.op), "torn") /\ Return("fail")
  <2>1. fs'[Active] = fs[Active] /\ disk' = disk
    BY <1>0, <1>3, JournalsDiffer DEF Put, DirTypes
  <2>2. ~Switched' /\ Forward'
    BY <2>1 DEF JournalInv, WriteJournal, Switched, Forward
  <2>3. Goto("flushJournal") => Shown'
    BY <1>0, <1>3, JournalsDiffer DEF Put, DirTypes, Goto, Return, Shown
  <2>4. pc' = "idle" \/ (pc' = "flushJournal" /\ Shown')
    BY <1>3, <2>3 DEF Goto, Return
  <2> QED BY <2>2, <2>4 DEF JournalInv
<1> QED BY <1>0, <1>1, <1>2, <1>3 DEF WriteJournal, Ops

LEMMA FlushJournalKeepsJournal ==
    ASSUME BootInv, BootInv', JournalInv, FlushJournal
    PROVE  JournalInv'
<1>1. CASE FlushFails
  BY <1>1, FlushFailsKeepsJournal DEF FlushJournal
<1>2. CASE job.op = "prepare"
  BY <1>2, PrepareKeepsJournal DEF FlushJournal
<1>3. CASE job.op # "prepare" /\ FlushThen("clearStage")
  <2>1. ~Switched' /\ Forward' /\ Shown' /\ pc' = "clearStage"
    BY <1>3, FlushSettles DEF FlushThen, Goto, FlushJournal, JournalInv
  <2> QED BY <2>1 DEF JournalInv
<1> QED BY <1>1, <1>2, <1>3 DEF FlushJournal

LEMMA StageKeepsJournal ==
    ASSUME BootInv, JournalInv, ClearStage \/ CopyStage
    PROVE  JournalInv'
<1>0. DirTypes /\ target \in 0..NFiles
  BY TypesSplit DEF BootInv, CtlTypes
<1>1. job' = job /\ pc \in {"clearStage", "copy"}
  BY DEF ClearStage, CopyStage
<1>2. CASE Failed
  BY <1>1, <1>2, FailedKeepsJournal
<1>3. CASE /\ \/ Remove({Stage(target)})
              \/ \E c \in {Payload, "torn"} : Put(Stage(target), c)
           /\ pc' \in {"idle", "copy", "flushStage"}
  BY <1>0, <1>1, <1>3, StageUndisturbs, UndisturbedGoesOn
<1> QED BY <1>2, <1>3 DEF ClearStage, CopyStage, Goto, Return

LEMMA FlushStageKeepsJournal ==
    ASSUME BootInv, BootInv', JournalInv, FlushStage
    PROVE  JournalInv'
<1>1. CASE FlushFails
  BY <1>1, FlushFailsKeepsJournal DEF FlushStage
<1>2. CASE Failed
  BY <1>2, FailedKeepsJournal DEF FlushStage
<1>3. CASE job.op = "prepare"
  BY <1>3, PrepareKeepsJournal DEF FlushStage
<1>4. CASE job.op # "prepare" /\ StageIsFlushed
  <2>1. ~Switched' /\ Forward' /\ Explained' /\ pc' = "rename"
    BY <1>4, FlushSettles DEF StageIsFlushed, FlushThen, Goto, FlushStage, JournalInv
  <2> QED BY <2>1 DEF JournalInv
<1> QED BY <1>1, <1>2, <1>3, <1>4 DEF FlushStage

(* The one command that changes the active script.                         *)
LEMMA RenameKeepsJournal ==
    ASSUME BootInv, BootInv', JournalInv, Rename
    PROVE  JournalInv'
<1>0. DirTypes /\ StepInv
  BY TypesSplit DEF BootInv
<1>1. CASE Failed
  BY <1>1, FailedKeepsJournal DEF Rename
<1>2. CASE job.op = "prepare"
  BY <1>2, PrepareKeepsJournal DEF Rename
<1>3. CASE job.op # "prepare" /\ Move(Stage(target), File(target)) /\ Goto("flushRename")
  <2>1. target = BootIni /\ fs[Stage(BootIni)] = ToActive(job.op) /\ BootIni \in 0..NFiles
    BY <1>0, <1>3, NamesDiffer DEF StepInv, Rename, Payload
  <2>2. /\ \A op \in {"activate", "rollback"} :
             Journal(op) \in Names /\ Journal(op) \notin {Stage(BootIni), File(BootIni)}
        /\ File(BootIni) \in Names /\ Stage(BootIni) \in Names
    BY <2>1, JournalsDiffer, NamesDiffer DEF Ops
  <2>3. /\ disk' = disk /\ fs'[File(BootIni)] = ToActive(job.op)
        /\ \A op \in {"activate", "rollback"} :
             /\ fs'[Journal(op)] = fs[Journal(op)]
             /\ Journal(op) \in raw' => Journal(op) \in raw
    BY <1>0, <1>3, <2>1, <2>2 DEF Move, DirTypes
  <2>4. Explained'
    BY <1>3, <2>3 DEF Explained, JournalInv, Rename
  <2>5. job.op = "activate" => Forward'
    BY <2>3 DEF Forward, ToActive, Active
  <2>6. pc' = "flushRename" /\ job' = job
    BY <1>3 DEF Goto, Rename
  <2> QED BY <2>4, <2>5, <2>6 DEF JournalInv
<1> QED BY <1>1, <1>2, <1>3 DEF Rename

LEMMA FlushRenameKeepsJournal ==
    ASSUME BootInv, BootInv', JournalInv, FlushRename
    PROVE  JournalInv'
<1>1. CASE FlushFails
  BY <1>1, FlushFailsKeepsJournal DEF FlushRename
<1>2. CASE job.op = "prepare"
  BY <1>2, PrepareKeepsJournal DEF FlushRename
<1>3. CASE job.op # "prepare" /\ Flush /\ ~FlushFails
  <2>1. target = BootIni
    BY <1>3 DEF BootInv, StepInv
  <2>2. ~Switched' /\ Forward' /\ pc' = "clear"
    BY <1>3, <2>1, FlushSettles DEF FlushRename, Goto
  <2> QED BY <2>2 DEF JournalInv
<1> QED BY <1>1, <1>2, <1>3 DEF FlushRename

LEMMA ClearMarkersKeepsJournal ==
    ASSUME BootInv, JournalInv, ClearMarkers
    PROVE  JournalInv'
<1>1. job.op \in Ops
  BY DEF BootInv, TxTypeOK
<1>2. Active \in Names /\ Active \notin Markers(job.op)
  BY <1>1, JournalsDiffer, NamesDiffer DEF Markers, Ops
<1>3. PICK S \in SUBSET Markers(job.op) : Remove(S) /\ pc' \in {"flushClear", "idle"}
  BY DEF ClearMarkers, Goto, Return
<1>4. fs'[Active] = fs[Active] /\ disk' = disk
  BY <1>2, <1>3 DEF Remove
<1>5. ~Switched' /\ Forward'
  BY <1>4 DEF JournalInv, ClearMarkers, Switched, Forward
<1> QED BY <1>3, <1>5 DEF JournalInv

LEMMA FlushClearKeepsJournal ==
    ASSUME BootInv, JournalInv, FlushClear
    PROVE  JournalInv'
<1>1. CASE FlushFails
  BY <1>1, FlushFailsKeepsJournal DEF FlushClear
<1>2. CASE Flush /\ pc' = "idle"
  BY <1>2, FlushSettles DEF JournalInv
<1> QED BY <1>1, <1>2 DEF FlushClear, Return

LEMMA CallerKeepsJournal ==
    ASSUME JournalInv, Call \/ Unmount \/ PowerLoss
    PROVE  JournalInv'
<1>1. CASE Call
  <2>1. PICK op \in Ops, rec \in BOOLEAN :
          Invoke(op, rec) /\ (Mounted \/ job.op = "activate")
    BY <1>1 DEF Call, Ops
  <2>2. Undisturbed /\ pc' = "detect"
    BY <2>1, UnchangedUndisturbs DEF Invoke
  <2>3. Forward
    BY <2>1 DEF JournalInv, Mounted, Forward
  <2> QED BY <2>2, <2>3 DEF JournalInv, Undisturbed, Switched, Forward
<1>2. CASE Unmount
  BY <1>2, FlushSettles DEF Unmount, JournalInv
<1>3. CASE PowerLoss
  BY <1>3 DEF PowerLoss, JournalInv, Switched, Forward
<1> QED BY <1>1, <1>2, <1>3

LEMMA JournalStep ==
    BootInv /\ BootInv' /\ OutcomeInv /\ JournalInv /\ [TxNext]_txVars => JournalInv'
<1> SUFFICES ASSUME BootInv, BootInv', OutcomeInv, JournalInv, [TxNext]_txVars
             PROVE  JournalInv'
  OBVIOUS
<1>1. CASE UNCHANGED txVars
  BY <1>1 DEF txVars, JournalInv, Switched, Explained, Shown, Forward
<1>2. CASE CheckSpace \/ Publish
  <2>1. job'.op = "prepare"
    BY <1>2 DEF BootInv, TxTypeOK, StepInv, CheckSpace, Publish
  <2> QED BY <2>1, PrepareKeepsJournal
<1>3. CASE TxStep
  BY <1>2, <1>3, DetectKeepsJournal, WriteJournalKeepsJournal,
     FlushJournalKeepsJournal, StageKeepsJournal, FlushStageKeepsJournal,
     RenameKeepsJournal, FlushRenameKeepsJournal, ClearMarkersKeepsJournal,
     FlushClearKeepsJournal DEF TxStep
<1> QED BY <1>1, <1>3, CallerKeepsJournal DEF TxNext

LEMMA JournalInvariant == TxSpec => []JournalInv
<1>1. TxInit => JournalInv
  BY DEF TxInit, JournalInv, Switched, Forward
<1> QED BY <1>1, Invariant, OutcomeInvariant, JournalStep, PTL DEF TxSpec

(* Whenever the active script on the card changes, by a flush or by the    *)
(* power loss that lets a rename through, a complete journal that explains *)
(* the change is on the card already.                                      *)
THEOREM SwitchesAreJournaled == TxSpec => SwitchIsJournaled
<1>1. BootInv /\ JournalInv /\ [TxNext]_txVars =>
        [disk'[File(BootIni)] # disk[File(BootIni)] =>
           \E op \in {"activate", "rollback"} : disk[Journal(op)] = "exact"]_txVars
  <2> SUFFICES ASSUME BootInv, JournalInv, [TxNext]_txVars,
                      disk'[File(BootIni)] # disk[File(BootIni)]
               PROVE  \E op \in {"activate", "rollback"} : disk[Journal(op)] = "exact"
    OBVIOUS
  <2>1. disk'[File(BootIni)] \in {fs[File(BootIni)], disk[File(BootIni)]}
    BY DiskStep, NamesDiffer
  <2>2. Explained
    BY <2>1 DEF JournalInv, Switched, Active
  <2> QED BY <2>2 DEF Explained
<1> QED BY <1>1, Invariant, JournalInvariant, PTL DEF TxSpec, SwitchIsJournaled
=============================================================================
