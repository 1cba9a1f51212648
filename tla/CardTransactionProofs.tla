----------------------- MODULE CardTransactionProofs -----------------------
(***************************************************************************)
(* Proofs about CardTransaction, for every plan, chunk count, evidence     *)
(* path, number of invocations and number of faults.                       *)
(***************************************************************************)
EXTENDS CardTransactionInv, SequenceTheorems, TLAPS

LEMMA ReceiptTypes ==
    /\ NewReceipt \in Receipts
    /\ TornLine \in Receipts
    /\ NoReceipt \in Receipts
    /\ NoEvidence \in Evidence
  <1>1. 0 \in 0..NChunks
    BY SizeAssumption
  <1>2. NoOps \in [Ops -> OpReceipts]
    BY <1>1 DEF NoOps, OpReceipts, OpStates
  <1>3. QED
    BY <1>2 DEF NewReceipt, TornLine, NoReceipt, NoEvidence, Evidence, Blank,
                Receipts, ReceiptStates, Outcomes

LEMMA SetOpType ==
    ASSUME receipt \in Receipts, NEW o \in Ops, NEW st \in OpStates,
           NEW b \in 0..NChunks
    PROVE  SetOp(o, st, b) \in Receipts
  BY DEF SetOp, Receipts, OpReceipts

LEMMA AppendedType ==
    ASSUME evid \in [Dirs -> Evidence], NEW line \in Receipts, dir \in Dirs
    PROVE  Appended(line) \in [Dirs -> Evidence]
  <1>1. Append(evid[dir].lines, line) \in Seq(Receipts)
    BY DEF Evidence
  <1>2. QED
    BY <1>1 DEF Appended, Evidence

LEMMA ReceiptUpdates ==
    ASSUME receipt \in Receipts
    PROVE  /\ \A s \in ReceiptStates : SetState(s) \in Receipts
           /\ \A f, e \in BOOLEAN : SetFailed(f, e) \in Receipts
           /\ SetPending \in Receipts
  <1>1. 0 \in 0..NChunks
    BY SizeAssumption
  <1>2. [o \in Ops |-> [st |-> "Pending", bytes |-> 0]] \in [Ops -> OpReceipts]
    BY <1>1 DEF OpReceipts, OpStates
  <1>3. \A s \in ReceiptStates : SetState(s) \in Receipts
    BY DEF SetState, Receipts
  <1>4. \A f, e \in BOOLEAN : SetFailed(f, e) \in Receipts
    BY DEF SetFailed, Outcome, Outcomes, Receipts, ReceiptStates
  <1>5. SetPending \in Receipts
    BY <1>2 DEF SetPending, Receipts, ReceiptStates
  <1>6. QED
    BY <1>3, <1>4, <1>5

LEMMA EvidenceUpdates ==
    ASSUME evid \in [Dirs -> Evidence]
    PROVE  /\ \A d \in Dirs : Reserved(d) \in [Dirs -> Evidence]
           /\ dir \in Dirs /\ receipt \in Receipts =>
                ReceiptLinked \in [Dirs -> Evidence]
           /\ dir \in Dirs => MarkerLinked \in [Dirs -> Evidence]
  BY DEF Evidence, Reserved, ReceiptLinked, MarkerLinked

LEMMA FlushedType ==
    ASSUME TypeOK, NEW S
    PROVE  Flushed(S) \in [Ops -> [Chunks -> Contents]]
  BY DEF Flushed, TypeOK

LEMMA TypeInvInit == Init => TypeInv
  <1> SUFFICES ASSUME Init PROVE TypeInv
    OBVIOUS
  <1>1. 0 \in 0..NChunks /\ 1 \in Ops /\ 0 \in 0..MaxRuns /\ 0 \in 0..MaxFaults
    BY SizeAssumption DEF Ops
  <1>2. media \in [Ops -> [Chunks -> Contents]]
    BY DEF Init, Contents
  <1>3. evid \in [Dirs -> Evidence]
    BY ReceiptTypes DEF Init
  <1>4. QED
    BY <1>1, <1>2, <1>3, ReceiptTypes DEF Init, TypeInv, TypeOK, Control, PCs

LEMMA TypeInvNext == TypeInv /\ [Next]_vars => TypeInv'
  <1> USE SizeAssumption DEF TypeInv, TypeOK, Control, PCs, runVars, writerVars,
                            mediaVars
  <1>1. ASSUME TypeInv, Claim PROVE TypeInv'
    <2>1. NewReceipt \in Receipts /\ 1 \in Ops /\ 0 \in 0..NChunks
      BY ReceiptTypes DEF Ops
    <2>2. runs + 1 \in 0..MaxRuns
      BY <1>1 DEF Claim
    <2>3. QED
      BY <1>1, <2>1, <2>2 DEF Claim
  <1>2. ASSUME TypeInv, New PROVE TypeInv'
    BY <1>2 DEF New
  <1>3. ASSUME TypeInv, EvidenceCreate PROVE TypeInv'
    BY <1>3, EvidenceUpdates DEF EvidenceCreate
  <1>4. ASSUME TypeInv, JournalCreate PROVE TypeInv'
    BY <1>4 DEF JournalCreate
  <1>5. ASSUME TypeInv, Drop PROVE TypeInv'
    BY <1>5, FlushedType DEF Drop, Dispose, FlushMedia, EjectMedia
  <1>6. ASSUME TypeInv, PersistOk PROVE TypeInv'
    BY <1>6, AppendedType DEF PersistOk
  <1>7. ASSUME TypeInv, PersistFails PROVE TypeInv'
    BY <1>7, AppendedType, ReceiptTypes, SetOpType
    DEF PersistFails, AppendFails, PersistError, Record, Err, OpStates
  <1>8. ASSUME TypeInv, Preflight PROVE TypeInv'
    BY <1>8, ReceiptUpdates DEF Preflight, Record, Err, ReceiptStates
  <1>9. ASSUME TypeInv, AuthorizeDestructive PROVE TypeInv'
    <2>1. SetState("WriteInProgress") \in Receipts
      BY <1>9, ReceiptUpdates DEF ReceiptStates
    <2>2. authorized' \in BOOLEAN
      BY <1>9 DEF AuthorizeDestructive
    <2>3. /\ \/ pc' = "persist" /\ cont' = "begin"
             \/ pc' = "error" /\ cont' = cont
          /\ receipt' \in Receipts
      BY <1>9, <2>1 DEF AuthorizeDestructive, Record, Err
    <2>4. QED
      BY <1>9, <2>2, <2>3 DEF AuthorizeDestructive
  <1>10. ASSUME TypeInv, BeginOp PROVE TypeInv'
    BY <1>10, SetOpType DEF BeginOp, Record, Err, OpStates
  <1>11. ASSUME TypeInv, Seek PROVE TypeInv'
    BY <1>11, SetOpType DEF Seek, Record, OpStates
  <1>12. ASSUME TypeInv, WriteChunk PROVE TypeInv'
    BY <1>12, SetOpType DEF WriteChunk, MoreToWrite, Record, OpStates, SourceBytes,
                                 Contents, Chunks
  <1>13. ASSUME TypeInv, PartialWrite PROVE TypeInv'
    <2>1. SetOp(op, "Failed", pos) \in Receipts
      BY <1>13, SetOpType DEF OpStates
    <2>2. touched' \subseteq Ops
      BY <1>13 DEF PartialWrite
    <2>3. media' \in [Ops -> [Chunks -> Contents]]
      <3>1. [media EXCEPT ![op][pos + 1] = "bad"] \in [Ops -> [Chunks -> Contents]]
        BY <1>13 DEF Contents
      <3>2. QED
        BY <1>13, <3>1 DEF PartialWrite
    <2>4. QED
      BY <1>13, <2>1, <2>2, <2>3 DEF PartialWrite, Record
  <1>14. ASSUME TypeInv, WriteOutcome PROVE TypeInv'
    BY <1>14, SetOpType DEF WriteOutcome, Record, OpStates
  <1>15. ASSUME TypeInv, FlushOp PROVE TypeInv'
    BY <1>15, FlushedType DEF FlushOp, FlushMedia, Err
  <1>16. ASSUME TypeInv, VerifyWritten PROVE TypeInv'
    BY <1>16, SetOpType DEF VerifyWritten, Record, Err, OpStates
  <1>17. ASSUME TypeInv, NextOp PROVE TypeInv'
    <2>1. SetState("WriteComplete") \in Receipts
      BY <1>17, ReceiptUpdates DEF ReceiptStates
    <2>2. op' \in Ops
      BY <1>17 DEF NextOp, Ops
    <2>5. pos' \in 0..NChunks
      BY <1>17 DEF NextOp
    <2>6. streamOk' \in BOOLEAN
      BY <1>17 DEF NextOp
    <2>3. /\ \/ pc' = "persist" /\ cont' = "recheck"
             \/ pc' = "begin" /\ cont' = cont
          /\ receipt' \in Receipts
      BY <1>17, <2>1 DEF NextOp, Record
    <2>4. QED
      BY <1>17, <2>2, <2>3, <2>5, <2>6 DEF NextOp
  <1>18. ASSUME TypeInv, Recheck PROVE TypeInv'
    BY <1>18 DEF Recheck, Err
  <1>19. ASSUME TypeInv, FlushAll PROVE TypeInv'
    <2>1. SetState("VerificationComplete") \in Receipts
      BY <1>19, ReceiptUpdates DEF ReceiptStates
    <2>2. QED
      BY <1>19, <2>1, FlushedType DEF FlushAll, FlushMedia, Record, Err
  <1>20. ASSUME TypeInv, Eject PROVE TypeInv'
    <2>1. SetState("Ejected") \in Receipts
      BY <1>20, ReceiptUpdates DEF ReceiptStates
    <2>2. QED
      BY <1>20, <2>1 DEF Eject, EjectMedia, Record, Err
  <1>21. ASSUME TypeInv, Error PROVE TypeInv'
    BY <1>21, FlushedType, ReceiptUpdates
    DEF Error, Dispose, FlushMedia, EjectMedia, Record, Outcome, Outcomes, ReceiptStates
  <1>22. ASSUME TypeInv, PublishReceipt PROVE TypeInv'
    BY <1>22, EvidenceUpdates DEF PublishReceipt
  <1>23. ASSUME TypeInv, PublishComplete PROVE TypeInv'
    BY <1>23, EvidenceUpdates DEF PublishComplete, Verdict
  <1>24. ASSUME TypeInv, Crash PROVE TypeInv'
    BY <1>24, FlushedType, AppendedType, ReceiptTypes, EvidenceUpdates
    DEF Crash, FlushMedia
  <1>25. ASSUME TypeInv, AlterSource PROVE TypeInv'
    BY <1>25 DEF AlterSource
  <1>26. ASSUME TypeInv, SilentDamage PROVE TypeInv'
    <2>1. faults + 1 \in 0..MaxFaults
      BY <1>26 DEF SilentDamage
    <2>2. \A o \in Ops, c \in Chunks :
            /\ [media EXCEPT ![o][c] = "bad"] \in [Ops -> [Chunks -> Contents]]
            /\ [disk EXCEPT ![o][c] = "bad"] \in [Ops -> [Chunks -> Contents]]
      BY <1>26 DEF Contents
    <2>3. \A r \in Attested : [rest EXCEPT ![r] = FALSE] \in [Attested -> BOOLEAN]
      BY <1>26
    <2>4. media' \in [Ops -> [Chunks -> Contents]]
          /\ disk' \in [Ops -> [Chunks -> Contents]]
      <3>1. CASE \E o \in Ops, c \in Chunks :
                   /\ media' = [media EXCEPT ![o][c] = "bad"]
                   /\ disk' = [disk EXCEPT ![o][c] = "bad"]
        BY <3>1, <2>2
      <3>2. CASE UNCHANGED <<media, disk>>
        BY <1>26, <3>2
      <3>3. QED
        BY <1>26, <3>1, <3>2 DEF SilentDamage
    <2>5. rest' \in [Attested -> BOOLEAN]
      BY <1>26, <2>3 DEF SilentDamage
    <2>6. late' \subseteq Ops \X Chunks
      BY <1>26 DEF SilentDamage
    <2>7. QED
      BY <1>26, <2>1, <2>4, <2>5, <2>6 DEF SilentDamage
  <1>27. ASSUME TypeInv, UNCHANGED vars PROVE TypeInv'
    BY <1>27 DEF vars
  <1> QED
    BY <1>1, <1>2, <1>3, <1>4, <1>5, <1>6, <1>7, <1>8, <1>9, <1>10, <1>11, <1>12, <1>13, <1>14, <1>15, <1>16, <1>17, <1>18, <1>19, <1>20, <1>21, <1>22, <1>23, <1>24, <1>25, <1>26, <1>27 DEF Next, Step, Finished

(* Every variable of the transaction keeps its type, and every append goes *)
(* to a directory this invocation reserved.                                *)
THEOREM TypeCorrect == Spec => []TypeInv
  <1>1. QED
    BY TypeInvInit, TypeInvNext, PTL DEF Spec

-----------------------------------------------------------------------------
(* What the receipt and evidence updates change, and what they leave. *)

LEMMA SetOpFacts ==
    ASSUME receipt \in Receipts, NEW o \in Ops, NEW st \in OpStates,
           NEW b \in 0..NChunks
    PROVE  /\ SetOp(o, st, b).ops[o].st = st
           /\ \A q \in Ops : q # o => SetOp(o, st, b).ops[q] = receipt.ops[q]
           /\ SetOp(o, st, b).safe = receipt.safe
           /\ SetOp(o, st, b).state = receipt.state
  BY DEF SetOp, Receipts, OpReceipts

LEMMA SetOpVerified ==
    ASSUME receipt \in Receipts, NEW o \in Ops, NEW st \in OpStates,
           st # "Verified", NEW b \in 0..NChunks
    PROVE  \A q \in Ops : SetOp(o, st, b).ops[q].st = "Verified" =>
                          receipt.ops[q].st = "Verified"
  BY SetOpFacts

LEMMA SetStateFacts ==
    ASSUME receipt \in Receipts, NEW state
    PROVE  /\ SetState(state).ops = receipt.ops
           /\ SetState(state).safe <=> state = "Ejected"
           /\ SetState(state).state = state
  BY DEF SetState, Receipts

LEMMA SetPendingFacts ==
    ASSUME receipt \in Receipts
    PROVE  /\ \A o \in Ops : SetPending.ops[o].st = "Pending"
           /\ SetPending.safe = receipt.safe
  BY DEF SetPending, Receipts

LEMMA SetFailedFacts ==
    ASSUME receipt \in Receipts, NEW f, NEW e
    PROVE  /\ SetFailed(f, e).ops = receipt.ops
           /\ SetFailed(f, e).safe = FALSE
           /\ SetFailed(f, e).state = "Failed"
  BY DEF SetFailed, Receipts

LEMMA NewReceiptFacts ==
    /\ NewReceipt.safe = FALSE /\ TornLine.safe = FALSE /\ NoReceipt.safe = FALSE
    /\ \A o \in Ops : NewReceipt.ops[o].st = "absent"
  BY DEF NewReceipt, TornLine, NoReceipt, Blank, NoOps

-----------------------------------------------------------------------------
(* The loop over the operations *)

LEMMA OpsInvInit == Init => OpsInv
  BY SizeAssumption DEF Init, OpsInv, At, Ops

LEMMA OpsInvNext == TypeInv /\ OpsInv /\ [Next]_vars => OpsInv'
  <1> SUFFICES ASSUME TypeInv, OpsInv, [Next]_vars PROVE OpsInv'
    OBVIOUS
  <1> USE SizeAssumption DEF OpsInv, At, Status, runVars, writerVars, mediaVars
  <1>0. /\ receipt \in Receipts /\ op \in Ops /\ pos \in 0..NChunks
        /\ op \in Int /\ Ops \subseteq Int /\ \A o \in Ops : ~(o < 1)
    BY DEF TypeInv, TypeOK, Ops
  <1>1. ASSUME Claim PROVE OpsInv'
    BY <1>0, <1>1, NewReceiptFacts DEF Claim
  <1>2. ASSUME New PROVE OpsInv'
    BY <1>0, <1>2 DEF New
  <1>3. ASSUME EvidenceCreate PROVE OpsInv'
    BY <1>0, <1>3 DEF EvidenceCreate
  <1>4. ASSUME JournalCreate PROVE OpsInv'
    BY <1>0, <1>4 DEF JournalCreate
  <1>5. ASSUME Drop PROVE OpsInv'
    BY <1>0, <1>5 DEF Drop
  <1>6. ASSUME PersistOk PROVE OpsInv'
    <2>1. /\ \A p : At(p)' => At(p)
          /\ pc' \notin {"validate", "reserve", "journal"}
          /\ UNCHANGED <<op, pos, streamOk, receipt>>
      BY <1>6 DEF PersistOk, TypeInv, Control
    <2> HIDE DEF At
    <2>2. QED
      BY <1>0, <2>1
  <1>7. ASSUME PersistFails PROVE OpsInv'
    BY <1>0, <1>7 DEF PersistFails, PersistError, Record, Err
  <1>8. ASSUME Preflight PROVE OpsInv'
    BY <1>0, <1>8, SetPendingFacts DEF Preflight, Record, Err
  <1>9. ASSUME AuthorizeDestructive PROVE OpsInv'
    <2>1. CASE Record(SetState("WriteInProgress"), "begin")
      <3>1. receipt'.ops = receipt.ops
        BY <1>0, <2>1, SetStateFacts DEF Record
      <3>2. QED
        BY <1>0, <1>9, <2>1, <3>1 DEF AuthorizeDestructive, Record
    <2>2. CASE Err
      BY <1>0, <1>9, <2>2 DEF AuthorizeDestructive, Err
    <2>3. QED
      BY <1>9, <2>1, <2>2 DEF AuthorizeDestructive
  <1>10. ASSUME BeginOp PROVE OpsInv'
    BY <1>0, <1>10, SetOpFacts DEF BeginOp, Record, Err, OpStates
  <1>11. ASSUME Seek PROVE OpsInv'
    BY <1>0, <1>11 DEF Seek, Record, OpStates
  <1>12. ASSUME WriteChunk PROVE OpsInv'
    <2>1. op' = op /\ pos' \in 0..NChunks
      BY <1>0, <1>12 DEF WriteChunk, MoreToWrite
    <2>2. CASE Record(SetOp(op, "Writing", pos'), "write")
      BY <1>0, <1>12, <2>1, <2>2, SetOpFacts DEF WriteChunk, Record, OpStates
    <2>3. CASE UNCHANGED <<pc, cont, receipt>>
      BY <1>0, <1>12, <2>1, <2>3 DEF WriteChunk
    <2>4. QED
      BY <1>12, <2>2, <2>3 DEF WriteChunk
  <1>13. ASSUME PartialWrite PROVE OpsInv'
    BY <1>0, <1>13 DEF PartialWrite, Record
  <1>14. ASSUME WriteOutcome PROVE OpsInv'
    BY <1>0, <1>14, SetOpFacts DEF WriteOutcome, Record, OpStates
  <1>15. ASSUME FlushOp PROVE OpsInv'
    BY <1>0, <1>15 DEF FlushOp, Err
  <1>16. ASSUME VerifyWritten PROVE OpsInv'
    <2>1. CASE Record(SetOp(op, "Verified", pos), "next")
      <3>1. /\ receipt'.ops[op].st = "Verified"
            /\ \A q \in Ops : q # op => receipt'.ops[q] = receipt.ops[q]
        BY <1>0, <2>1, SetOpFacts DEF Record, OpStates
      <3>2. QED
        BY <1>0, <1>16, <2>1, <3>1 DEF VerifyWritten, Record
    <2>2. CASE Err
      BY <1>0, <1>16, <2>2 DEF VerifyWritten, Err
    <2>3. QED
      BY <1>16, <2>1, <2>2 DEF VerifyWritten
  <1>17. ASSUME NextOp PROVE OpsInv'
    BY <1>0, <1>17, SetStateFacts DEF NextOp, Record, Ops
  <1>18. ASSUME Recheck PROVE OpsInv'
    BY <1>0, <1>18 DEF Recheck, Err
  <1>19. ASSUME FlushAll PROVE OpsInv'
    BY <1>0, <1>19, SetStateFacts DEF FlushAll, Record, Err
  <1>20. ASSUME Eject PROVE OpsInv'
    BY <1>0, <1>20, SetStateFacts DEF Eject, Record, Err
  <1>21. ASSUME Error PROVE OpsInv'
    BY <1>0, <1>21 DEF Error, Record
  <1>22. ASSUME PublishReceipt PROVE OpsInv'
    BY <1>0, <1>22 DEF PublishReceipt
  <1>23. ASSUME PublishComplete PROVE OpsInv'
    BY <1>0, <1>23 DEF PublishComplete
  <1>24. ASSUME Crash PROVE OpsInv'
    BY <1>0, <1>24 DEF Crash
  <1>25. ASSUME AlterSource PROVE OpsInv'
    BY <1>0, <1>25 DEF AlterSource
  <1>26. ASSUME SilentDamage PROVE OpsInv'
    BY <1>0, <1>26 DEF SilentDamage
  <1>27. ASSUME UNCHANGED vars PROVE OpsInv'
    BY <1>27 DEF vars
  <1> QED
    BY <1>1, <1>2, <1>3, <1>4, <1>5, <1>6, <1>7, <1>8, <1>9, <1>10, <1>11, <1>12, <1>13, <1>14, <1>15, <1>16, <1>17, <1>18, <1>19, <1>20, <1>21, <1>22, <1>23, <1>24, <1>25, <1>26, <1>27 DEF Next, Step, Finished

-----------------------------------------------------------------------------
(* The evidence directories *)

LEMMA EvidenceFacts ==
    ASSUME evid \in [Dirs -> Evidence]
    PROVE  /\ \A line : \A d \in Dirs : dir \in Dirs =>
                /\ Appended(line)[d].made = evid[d].made
                /\ Appended(line)[d].receipt = evid[d].receipt
                /\ d # dir => Appended(line)[d] = evid[d]
                /\ Appended(line)[dir].lines = Append(evid[dir].lines, line)
           /\ \A c, d \in Dirs :
                /\ Reserved(c)[d].lines = evid[d].lines
                /\ Reserved(c)[d].receipt = evid[d].receipt
                /\ Reserved(c)[c].made
                /\ d # c => Reserved(c)[d] = evid[d]
           /\ \A d \in Dirs : dir \in Dirs =>
                /\ ReceiptLinked[d].made = evid[d].made
                /\ ReceiptLinked[d].lines = evid[d].lines
                /\ ReceiptLinked[dir].receipt = receipt
                /\ d # dir => ReceiptLinked[d] = evid[d]
           /\ \A d \in Dirs : dir \in Dirs =>
                /\ MarkerLinked[d].made = evid[d].made
                /\ MarkerLinked[d].lines = evid[d].lines
                /\ MarkerLinked[d].receipt = evid[d].receipt
  <1>1. \A d \in Dirs : evid[d] \in Evidence
    OBVIOUS
  <1>2. QED
    BY <1>1 DEF Evidence, Appended, Reserved, ReceiptLinked, MarkerLinked

LEMMA EvidenceInvInit == Init => EvidenceInv
  BY PlanAssumption DEF Init, EvidenceInv, NoEvidence

LEMMA EvidenceInvNext == TypeInv /\ EvidenceInv /\ [Next]_vars => EvidenceInv'
  <1> SUFFICES ASSUME TypeInv, EvidenceInv, [Next]_vars PROVE EvidenceInv'
    OBVIOUS
  <1> USE DEF EvidenceInv, runVars, writerVars, mediaVars
  <1>0. evid \in [Dirs -> Evidence] /\ NoDir \notin Dirs
    BY PlanAssumption DEF TypeInv, TypeOK
  <1>1. ASSUME UNCHANGED <<evid, dir>> PROVE EvidenceInv'
    BY <1>1
  <1>2. ASSUME Claim PROVE EvidenceInv'
    BY <1>0, <1>2 DEF Claim
  <1>3. ASSUME EvidenceCreate PROVE EvidenceInv'
    <2>1. ASSUME NEW d \in Dirs, evid' = Reserved(d), dir' \in {d, NoDir}
          PROVE  EvidenceInv'
      BY <1>0, <2>1, EvidenceFacts
    <2>2. dir = NoDir
      BY <1>3 DEF EvidenceCreate, TypeInv, Control
    <2>3. QED
      BY <1>1, <1>3, <2>1, <2>2 DEF EvidenceCreate
  <1>4. ASSUME dir \in Dirs, dir' = dir,
               \/ \E line : evid' = Appended(line)
               \/ evid' = ReceiptLinked
               \/ evid' = MarkerLinked
        PROVE  EvidenceInv'
    BY <1>0, <1>4, EvidenceFacts
  <1>5. ASSUME PersistOk \/ PersistFails \/ PublishReceipt \/ PublishComplete \/ Crash
        PROVE  EvidenceInv'
    <2>1. dir' = dir
      BY <1>5 DEF PersistOk, PersistFails, PublishReceipt, PublishComplete, Crash
    <2>2. pc \in {"persist", "receipt", "complete"} => dir \in Dirs
      BY DEF TypeInv, Control
    <2>3. \/ evid' = evid
          \/ dir \in Dirs /\ \/ \E line : evid' = Appended(line)
                             \/ evid' = ReceiptLinked
                             \/ evid' = MarkerLinked
      BY <1>5, <2>2 DEF PersistOk, PersistFails, AppendFails, PublishReceipt,
                        PublishComplete, Crash
    <2>4. QED
      BY <1>1, <1>4, <2>1, <2>3
  <1>6. ASSUME \/ New \/ JournalCreate \/ Drop \/ Preflight \/ BeginOp \/ Seek
               \/ AuthorizeDestructive \/ WriteChunk \/ PartialWrite \/ WriteOutcome
               \/ FlushOp \/ VerifyWritten \/ NextOp \/ Recheck \/ FlushAll \/ Eject
               \/ Error \/ AlterSource \/ SilentDamage \/ UNCHANGED vars
        PROVE  UNCHANGED <<evid, dir>>
    BY <1>6 DEF New, JournalCreate, Drop, Preflight, BeginOp, Seek,
         AuthorizeDestructive, WriteChunk, PartialWrite, WriteOutcome, FlushOp,
         VerifyWritten, NextOp, Recheck, FlushAll, Eject, Error, AlterSource,
         SilentDamage, vars
  <1>7. QED
    BY <1>1, <1>2, <1>3, <1>5, <1>6 DEF Next, Step, Finished

-----------------------------------------------------------------------------
(* What the medium holds *)

LEMMA FlushAllDirty ==
    ASSUME TypeInv, FlushMedia(TRUE)
    PROVE  disk' = media
  <1>1. \A o \in Ops, c \in Chunks : <<o, c>> \notin Dirty => media[o][c] = disk[o][c]
    BY DEF Dirty
  <1>2. disk' = Flushed(Dirty)
    BY DEF FlushMedia
  <1>3. Flushed(Dirty) = [o \in Ops |-> [c \in Chunks |-> media[o][c]]]
    BY <1>1 DEF Flushed
  <1>4. media = [o \in Ops |-> [c \in Chunks |-> media[o][c]]]
    BY DEF TypeInv, TypeOK
  <1>5. QED
    BY <1>2, <1>3, <1>4

LEMMA FlushClean ==
    ASSUME TypeInv, media = disk, NEW ok, FlushMedia(ok)
    PROVE  disk' = disk
  <1>1. PICK S \in SUBSET Dirty : disk' = Flushed(S)
    BY DEF FlushMedia
  <1>2. Flushed(S) = [o \in Ops |-> [c \in Chunks |-> disk[o][c]]]
    BY DEF Flushed
  <1>3. disk = [o \in Ops |-> [c \in Chunks |-> disk[o][c]]]
    BY DEF TypeInv, TypeOK
  <1>4. QED
    BY <1>1, <1>2, <1>3

LEMMA MediaInvInit == Init => MediaInv
  BY NewReceiptFacts DEF Init, MediaInv, At, Status

LEMMA MediaInvNext ==
    TypeInv /\ OpsInv /\ MediaInv /\ [Next]_vars => MediaInv'
  <1> SUFFICES ASSUME TypeInv, OpsInv, MediaInv, [Next]_vars PROVE MediaInv'
    OBVIOUS
  <1> USE SizeAssumption DEF MediaInv, At, Status, runVars, writerVars, mediaVars
  <1>0. /\ receipt \in Receipts /\ op \in Ops /\ pos \in 0..NChunks
        /\ op \in Int /\ Ops \subseteq Int /\ Chunks \subseteq Int
        /\ Covered \subseteq Chunks /\ \A c \in Chunks : c <= NChunks /\ ~(c <= 0)
        /\ media \in [Ops -> [Chunks -> Contents]]
    BY PlanAssumption DEF TypeInv, TypeOK, Ops, Chunks, Covered
  <1>1. ASSUME Claim PROVE MediaInv'
    BY <1>0, <1>1, NewReceiptFacts DEF Claim, OpsInv
  <1>2. ASSUME New PROVE MediaInv'
    BY <1>0, <1>2 DEF New, OpsInv
  <1>3. ASSUME EvidenceCreate PROVE MediaInv'
    BY <1>0, <1>3 DEF EvidenceCreate, OpsInv
  <1>4. ASSUME JournalCreate PROVE MediaInv'
    BY <1>0, <1>4 DEF JournalCreate, OpsInv
  <1>5. ASSUME Drop PROVE MediaInv'
    BY <1>0, <1>5 DEF Drop, OpsInv
  <1>6. ASSUME PersistOk PROVE MediaInv'
    BY <1>0, <1>6 DEF PersistOk, OpsInv
  <1>7. ASSUME PersistFails PROVE MediaInv'
    <2>1. /\ pc' \in {"persist", "receipt", "error"}
          /\ pc' = "persist" => cont' = "error"
      BY <1>7 DEF PersistFails, PersistError, Record, Err
    <2>2. \A q \in Ops : receipt'.ops[q].st = "Verified" => Status(q) = "Verified"
      BY <1>0, <1>7, SetOpVerified
      DEF PersistFails, PersistError, Record, Err, OpStates
    <2>3. UNCHANGED <<media, late>>
      BY <1>7 DEF PersistFails
    <2>4. QED
      BY <1>0, <1>7, <2>1, <2>2, <2>3 DEF PersistFails
  <1>8. ASSUME Preflight PROVE MediaInv'
    BY <1>0, <1>8, SetPendingFacts DEF Preflight, Record, Err, OpsInv
  <1>9. ASSUME AuthorizeDestructive PROVE MediaInv'
    BY <1>0, <1>9, SetStateFacts DEF AuthorizeDestructive, Record, Err, OpsInv
  <1>10. ASSUME BeginOp PROVE MediaInv'
    BY <1>0, <1>10, SetOpFacts DEF BeginOp, Record, Err, OpStates, OpsInv
  <1>11. ASSUME Seek PROVE MediaInv'
    <2>1. \A q \in Ops : receipt'.ops[q].st = "Verified" => Status(q) = "Verified"
      <3>1. 0 \in 0..NChunks
        OBVIOUS
      <3>2. receipt' = receipt \/ receipt' = SetOp(op, "Failed", 0)
        BY <1>11 DEF Seek, Record
      <3>3. QED
        BY <1>0, <3>1, <3>2, SetOpVerified DEF OpStates
    <2>2. pos = 0
      BY <1>11 DEF Seek, OpsInv
    <2>3. QED
      BY <1>0, <1>11, <2>1, <2>2 DEF Seek, Record
  <1>12. ASSUME WriteChunk PROVE MediaInv'
    <2>1. pos' = pos + 1 /\ pos' \in Chunks /\ pos' \in 0..NChunks
      BY <1>0, <1>12 DEF WriteChunk, MoreToWrite, Chunks
    <2>2. /\ receipt' = receipt \/ receipt' = SetOp(op, "Writing", pos')
          /\ pc' \in {"persist", "write"} /\ (pc' = "persist" => cont' = "write")
      BY <1>12 DEF WriteChunk, Record
    <2>3. \A q \in Ops : receipt'.ops[q].st = "Verified" =>
                         Status(q) = "Verified"
      BY <1>0, <2>1, <2>2, SetOpVerified DEF OpStates
    <2>4. Status(op) # "Verified"
      BY <1>12 DEF WriteChunk, OpsInv
    <2>5. \A o \in Ops, c \in Chunks :
            /\ o # op => media'[o][c] = media[o][c]
            /\ c # pos' => media'[o][c] = media[o][c]
      BY <1>0, <1>12, <2>1 DEF WriteChunk
    <2>6. streamOk' => streamOk /\ media'[op][pos'] = "new"
      <3>1. streamOk' => streamOk /\ src[op] = "declared"
        BY <1>12 DEF WriteChunk
      <3>2. src[op] = "declared" => media'[op][pos'] = "new"
        BY <1>0, <1>12, <2>1 DEF WriteChunk, SourceBytes
      <3>3. QED
        BY <3>1, <3>2
    <2>7. streamOk' => \A c \in Chunks : c <= pos' => media'[op][c] \in {"new", "bad"}
      <3>1. SUFFICES ASSUME streamOk', NEW c \in Chunks, c <= pos'
                     PROVE  media'[op][c] \in {"new", "bad"}
        OBVIOUS
      <3>2. CASE c = pos'
        BY <2>6, <3>1, <3>2
      <3>3. CASE c # pos'
        <4>1. c <= pos
          BY <1>0, <2>1, <3>1, <3>3
        <4>2. media[op][c] \in {"new", "bad"}
          BY <1>12, <2>6, <3>1, <4>1 DEF WriteChunk
        <4>3. QED
          BY <1>0, <2>5, <3>3, <4>2
      <3>4. QED
        BY <3>2, <3>3
    <2>8. op' = op /\ late' = late
      BY <1>12 DEF WriteChunk
    <2>9. \A o \in Ops : receipt'.ops[o].st = "Verified" =>
            \A c \in Covered : media'[o][c] = "new" \/ <<o, c>> \in late'
      BY <1>0, <1>12, <2>3, <2>4, <2>5, <2>8 DEF WriteChunk
    <2>10. QED
      BY <2>2, <2>7, <2>8, <2>9
  <1>13. ASSUME PartialWrite PROVE MediaInv'
    BY <1>0, <1>13, SetOpFacts DEF PartialWrite, Record, OpStates, OpsInv
  <1>14. ASSUME WriteOutcome PROVE MediaInv'
    BY <1>0, <1>14, SetOpFacts DEF WriteOutcome, Record, OpStates, OpsInv
  <1>15. ASSUME FlushOp PROVE MediaInv'
    BY <1>0, <1>15 DEF FlushOp, Err, OpsInv
  <1>16. ASSUME VerifyWritten PROVE MediaInv'
    BY <1>0, <1>16, SetOpFacts DEF VerifyWritten, Record, Err, OpStates, Readback, SourceBytes, OpsInv
  <1>17. ASSUME NextOp PROVE MediaInv'
    <2>1. receipt'.ops = receipt.ops
      BY <1>0, <1>17, SetStateFacts DEF NextOp, Record
    <2>2. \/ pc' = "begin"
          \/ pc' = "persist" /\ cont' = "recheck"
      BY <1>17 DEF NextOp, Record
    <2>3. QED
      BY <1>0, <1>17, <2>1, <2>2 DEF NextOp
  <1>18. ASSUME Recheck PROVE MediaInv'
    BY <1>0, <1>18 DEF Recheck, Err, OpsInv
  <1>19. ASSUME FlushAll PROVE MediaInv'
    <2>1. CASE FlushMedia(TRUE) /\ Record(SetState("VerificationComplete"), "eject")
      <3>1. receipt'.ops = receipt.ops
        BY <1>0, <2>1, SetStateFacts DEF Record
      <3>2. disk' = media
        BY <2>1, FlushAllDirty
      <3>3. QED
        BY <1>19, <2>1, <3>1, <3>2 DEF FlushAll, Record
    <2>2. CASE Err
      BY <1>19, <2>2 DEF FlushAll, Err
    <2>3. QED
      BY <1>19, <2>1, <2>2 DEF FlushAll
  <1>20. ASSUME Eject PROVE MediaInv'
    BY <1>0, <1>20, SetStateFacts DEF Eject, Record, Err, OpsInv
  <1>21. ASSUME Error PROVE MediaInv'
    <2>1. PICK f \in BOOLEAN, e \in BOOLEAN : Record(SetFailed(f, e), "receipt")
      BY <1>21 DEF Error
    <2>2. receipt'.ops = receipt.ops
      BY <1>0, <2>1, SetFailedFacts DEF Record
    <2>3. QED
      BY <1>21, <2>1, <2>2 DEF Error, Record
  <1>22. ASSUME PublishReceipt PROVE MediaInv'
    BY <1>0, <1>22 DEF PublishReceipt, OpsInv
  <1>23. ASSUME PublishComplete PROVE MediaInv'
    BY <1>0, <1>23 DEF PublishComplete, OpsInv
  <1>24. ASSUME Crash PROVE MediaInv'
    BY <1>0, <1>24 DEF Crash, OpsInv
  <1>25. ASSUME AlterSource PROVE MediaInv'
    BY <1>0, <1>25 DEF AlterSource, OpsInv
  <1>26. ASSUME SilentDamage PROVE MediaInv'
    <2>1. pc = "write" /\ UNCHANGED <<pc, cont, receipt, op, pos, streamOk>>
      BY <1>26 DEF SilentDamage
    <2>2. CASE UNCHANGED <<media, late>>
      BY <2>1, <2>2
    <2>3. ASSUME NEW o \in Ops, NEW c \in Chunks,
                 media' = [media EXCEPT ![o][c] = "bad"],
                 late' = late \cup (IF o < op THEN {<<o, c>>} ELSE {})
          PROVE  MediaInv'
      <3>1. \A p \in Ops, q \in Chunks :
              media'[p][q] = IF p = o /\ q = c THEN "bad" ELSE media[p][q]
        BY <1>0, <2>3
      <3>2. \A p \in Ops : Status(p) = "Verified" => p < op
        BY <1>0, <2>1 DEF OpsInv
      <3>3. \A p \in Ops : Status(p) = "Verified" =>
              \A q \in Covered : media'[p][q] = "new" \/ <<p, q>> \in late'
        BY <1>0, <2>1, <2>3, <3>1, <3>2
      <3>4. streamOk => \A q \in Chunks : q <= pos => media'[op][q] \in {"new", "bad"}
        BY <1>0, <2>1, <3>1
      <3>5. QED
        BY <2>1, <3>3, <3>4
    <2>4. QED
      BY <1>26, <2>2, <2>3 DEF SilentDamage
  <1>27. ASSUME UNCHANGED vars PROVE MediaInv'
    BY <1>27 DEF vars
  <1> QED
    BY <1>1, <1>2, <1>3, <1>4, <1>5, <1>6, <1>7, <1>8, <1>9, <1>10, <1>11, <1>12, <1>13, <1>14, <1>15, <1>16, <1>17, <1>18, <1>19, <1>20, <1>21, <1>22, <1>23, <1>24, <1>25, <1>26, <1>27 DEF Next, Step, Finished

-----------------------------------------------------------------------------
(* A card that is good stays good until the next invocation claims it. *)

LEMMA GoodStable ==
    ASSUME TypeInv, Good, [Next]_vars, ~Claim
    PROVE  Good'
  <1> USE DEF Good, Closing, runVars, writerVars, mediaVars
  <1>1. ASSUME PersistOk \/ PersistFails \/ PublishReceipt \/ PublishComplete
        PROVE  Good'
    BY <1>1 DEF PersistOk, PersistFails, PersistError, Err, Record, PublishReceipt,
                PublishComplete
  <1>2. CASE Error
    <2>1. media' = media /\ rest' = rest /\ late' = late /\ Closing'
      BY <1>2 DEF Error, Record
    <2>2. disk' = disk
      BY <1>2, FlushClean DEF Error, Dispose
    <2>3. card' = "released"
      BY <1>2 DEF Error, Dispose, EjectMedia
    <2>4. QED
      BY <2>1, <2>2, <2>3
  <1>3. CASE Crash
    <2>1. disk' = disk /\ media' = disk'
      BY <1>3, FlushClean DEF Crash
    <2>2. QED
      BY <1>3, <2>1 DEF Crash
  <1>4. CASE AlterSource
    BY <1>4 DEF AlterSource
  <1>5. CASE UNCHANGED vars
    BY <1>5 DEF vars
  <1>6. ASSUME \/ New \/ EvidenceCreate \/ JournalCreate \/ Drop \/ Preflight
               \/ BeginOp \/ Seek \/ AuthorizeDestructive \/ WriteChunk
               \/ PartialWrite \/ WriteOutcome \/ FlushOp \/ VerifyWritten
               \/ NextOp \/ Recheck \/ FlushAll \/ Eject \/ SilentDamage
        PROVE  FALSE
    BY <1>6 DEF New, EvidenceCreate, JournalCreate, Drop, Preflight, BeginOp,
         Seek, AuthorizeDestructive, WriteChunk, PartialWrite, WriteOutcome,
         FlushOp, VerifyWritten, NextOp, Recheck, FlushAll, Eject, SilentDamage
  <1>7. QED
    BY <1>1, <1>2, <1>3, <1>4, <1>5, <1>6 DEF Next, Step, Finished

LEMMA SafeInvInit == Init => SafeInv
  BY NewReceiptFacts, PlanAssumption DEF Init, SafeInv

LEMMA SafeInvNext == IInv /\ [Next]_vars => SafeInv'
  <1> SUFFICES ASSUME IInv, [Next]_vars PROVE SafeInv'
    OBVIOUS
  <1> USE DEF runVars, writerVars, mediaVars
  <1>0. /\ TypeInv /\ OpsInv /\ MediaInv /\ EvidenceInv /\ SafeInv
        /\ receipt \in Receipts /\ op \in Ops /\ pos \in 0..NChunks
        /\ evid \in [Dirs -> Evidence] /\ NoDir \notin Dirs
    BY PlanAssumption DEF IInv, TypeInv, TypeOK
  (* The receipt in memory. *)
  <1>1. ASSUME ~Claim, receipt'.safe
        PROVE  Good' /\ AllVerified(receipt')
    <2>1. CASE receipt' = receipt
      <3>1. Good
        BY <1>0, <1>1, <2>1 DEF SafeInv
      <3>2. QED
        BY <1>0, <1>1, <2>1, <3>1, GoodStable DEF SafeInv
    <2>2. CASE receipt' # receipt /\ Eject
      <3>1. EjectMedia(TRUE) /\ Record(SetState("Ejected"), "receipt")
        BY <2>2 DEF Eject, Err
      <3>2. /\ \A o \in Ops : receipt.ops[o].st = "Verified"
            /\ receipt'.ops = receipt.ops
        BY <1>0, <2>2, <3>1, SetStateFacts DEF Eject, OpsInv, At, Status, Record
      <3>3. /\ \A o \in Ops : \A c \in Covered : media[o][c] = "new" \/ <<o, c>> \in late
            /\ \A r \in Attested : rest[r]
            /\ media = disk
        BY <1>0, <2>2, <3>2 DEF Eject, MediaInv, At, Status
      <3>4. UNCHANGED mediaVars /\ card' = "released" /\ Closing'
        BY <2>2, <3>1 DEF Eject, EjectMedia, Record, Closing
      <3>5. QED
        BY <3>2, <3>3, <3>4 DEF Good, AllVerified
    <2>3. CASE receipt' # receipt /\ ~Eject
      <3>1. ASSUME receipt.safe PROVE Closing /\ (pc = "persist" => cont = "receipt")
        BY <1>0, <3>1 DEF SafeInv, Good, Closing
      <3>2. ASSUME NEW st, receipt' = SetState(st), st # "Ejected" PROVE FALSE
        BY <1>0, <1>1, <3>2, SetStateFacts
      <3>3. ASSUME NEW f, NEW e, receipt' = SetFailed(f, e) PROVE FALSE
        BY <1>0, <1>1, <3>3, SetFailedFacts
      <3>4. ASSUME NEW st \in OpStates, NEW b \in 0..NChunks, receipt' = SetOp(op, st, b)
            PROVE  receipt.safe
        BY <1>0, <1>1, <3>4, SetOpFacts
      <3>5. ASSUME receipt' = SetPending PROVE receipt.safe
        BY <1>0, <1>1, <3>5, SetPendingFacts
      <3>6. CASE PersistFails
        BY <1>0, <2>3, <3>1, <3>4, <3>6
        DEF PersistFails, PersistError, Record, Err, Closing, OpStates
      <3>7. ASSUME BeginOp \/ Seek \/ PartialWrite \/ WriteOutcome \/ VerifyWritten
            PROVE  \E st \in OpStates, b \in 0..NChunks : receipt' = SetOp(op, st, b)
        <4>1. 0 \in 0..NChunks
          BY SizeAssumption
        <4>2. QED
          BY <1>0, <2>3, <3>7, <4>1 DEF BeginOp, Seek, PartialWrite, WriteOutcome,
             VerifyWritten, Record, Err, OpStates
      <3>8. CASE BeginOp \/ Seek \/ PartialWrite \/ WriteOutcome \/ VerifyWritten
        <4>1. ~Closing
          BY <3>8 DEF BeginOp, Seek, PartialWrite, WriteOutcome, VerifyWritten, Closing
        <4>2. QED
          BY <3>1, <3>4, <3>7, <3>8, <4>1
      <3>9. CASE WriteChunk
        <4>1. pos' \in 0..NChunks
          BY <1>0, <3>9, SizeAssumption DEF WriteChunk, MoreToWrite
        <4>2. receipt' = SetOp(op, "Writing", pos')
          BY <2>3, <3>9 DEF WriteChunk, Record
        <4>3. ~Closing
          BY <3>9 DEF WriteChunk, Closing
        <4>4. QED
          BY <3>1, <3>4, <4>1, <4>2, <4>3 DEF OpStates
      <3>10. CASE Preflight
        BY <2>3, <3>1, <3>5, <3>10 DEF Preflight, Record, Err, Closing
      <3>11. CASE AuthorizeDestructive
        <4>1. receipt' = SetState("WriteInProgress")
          BY <2>3, <3>11 DEF AuthorizeDestructive, Record, Err
        <4>2. QED
          BY <3>2, <4>1
      <3>12. CASE NextOp
        <4>1. receipt' = SetState("WriteComplete")
          BY <2>3, <3>12 DEF NextOp, Record
        <4>2. QED
          BY <3>2, <4>1
      <3>13. CASE FlushAll
        <4>1. receipt' = SetState("VerificationComplete")
          BY <2>3, <3>13 DEF FlushAll, Record, Err
        <4>2. QED
          BY <3>2, <4>1
      <3>14. CASE Error
        BY <3>3, <3>14 DEF Error, Record
      <3>15. ASSUME \/ New \/ EvidenceCreate \/ JournalCreate \/ Drop \/ PersistOk
                    \/ FlushOp \/ Recheck \/ PublishReceipt \/ PublishComplete
                    \/ Crash \/ AlterSource \/ SilentDamage \/ UNCHANGED vars
             PROVE  receipt' = receipt
        BY <3>15 DEF New, EvidenceCreate, JournalCreate, Drop, PersistOk, FlushOp,
           Recheck, Err, PublishReceipt, PublishComplete, Crash, AlterSource,
           SilentDamage, vars
      <3>16. QED
        BY <1>1, <2>3, <3>6, <3>8, <3>9, <3>10, <3>11, <3>12, <3>13, <3>14, <3>15
        DEF Next, Step, Finished
    <2>4. QED
      BY <2>1, <2>2, <2>3
  (* The evidence directory. *)
  <1>2. ASSUME UNCHANGED <<evid, dir>>, ~Claim
        PROVE  SafeInv'
    BY <1>0, <1>1, <1>2, GoodStable DEF SafeInv, AllVerified
  <1>3. CASE Claim
    <2>1. dir' = NoDir /\ receipt' = NewReceipt
      BY <1>3 DEF Claim
    <2>2. QED
      BY <1>0, <2>1, NewReceiptFacts DEF SafeInv
  <1>4. ASSUME EvidenceCreate, NEW d \in Dirs, ~evid[d].made, evid' = Reserved(d),
               dir' \in {d, NoDir}
        PROVE  SafeInv'
    <2>1. ~Claim
      BY <1>4 DEF EvidenceCreate, Claim
    <2>2. evid'[d].lines = <<>> /\ evid'[d].receipt = NoReceipt
      BY <1>0, <1>4, EvidenceFacts DEF EvidenceInv
    <2>3. QED
      BY <1>0, <1>1, <1>4, <2>1, <2>2, NewReceiptFacts DEF SafeInv
  <1>5. ASSUME dir \in Dirs, dir' = dir, ~Claim, NEW line \in {TornLine, receipt},
               evid' = Appended(line)
        PROVE  SafeInv'
    <2>1. /\ evid'[dir].lines = Append(evid[dir].lines, line)
          /\ evid'[dir].receipt = evid[dir].receipt
          /\ evid[dir].lines \in Seq(Receipts)
      BY <1>0, <1>5, EvidenceFacts DEF Evidence
    <2>2. \A i \in 1..Len(evid'[dir].lines) :
            \/ i \in 1..Len(evid[dir].lines) /\ evid'[dir].lines[i] = evid[dir].lines[i]
            \/ evid'[dir].lines[i] = line
      BY <2>1
    <2>3. line.safe => Good /\ AllVerified(line)
      BY <1>0, <1>5, NewReceiptFacts DEF SafeInv
    <2>4. ASSUME NEW i \in 1..Len(evid'[dir].lines), evid'[dir].lines[i].safe
          PROVE  Good /\ AllVerified(evid'[dir].lines[i])
      BY <1>0, <1>5, <2>2, <2>3, <2>4 DEF SafeInv
    <2>5. evid'[dir].receipt.safe => Good /\ AllVerified(evid'[dir].receipt)
      BY <1>0, <1>5, <2>1 DEF SafeInv
    <2>6. Good => Good'
      BY <1>0, <1>5, GoodStable
    <2>7. QED
      BY <1>1, <1>5, <2>4, <2>5, <2>6 DEF SafeInv, AllVerified
  <1>6. ASSUME dir \in Dirs, dir' = dir, ~Claim,
               evid' = ReceiptLinked \/ evid' = MarkerLinked
        PROVE  SafeInv'
    <2>1. /\ evid'[dir].lines = evid[dir].lines
          /\ evid'[dir].receipt \in {receipt, evid[dir].receipt}
      BY <1>0, <1>6, EvidenceFacts
    <2>2. Good => Good'
      BY <1>0, <1>6, GoodStable
    <2>3. QED
      BY <1>0, <1>1, <1>6, <2>1, <2>2 DEF SafeInv, AllVerified
  <1>7. CASE EvidenceCreate
    <2>1. ~Claim /\ dir = NoDir
      BY <1>0, <1>7 DEF EvidenceCreate, Claim, TypeInv, Control
    <2>2. QED
      BY <1>2, <1>4, <1>7, <2>1 DEF EvidenceCreate, Reservable
  <1>8. CASE PersistOk \/ PersistFails \/ PublishReceipt \/ PublishComplete \/ Crash
    <2>1. dir' = dir /\ ~Claim
      BY <1>8 DEF PersistOk, PersistFails, PublishReceipt, PublishComplete, Crash, Claim
    <2>2. pc \in {"persist", "receipt", "complete"} => dir \in Dirs
      BY <1>0 DEF TypeInv, Control
    <2>3. \/ evid' = evid
          \/ dir \in Dirs /\ \/ \E line \in {TornLine, receipt} : evid' = Appended(line)
                             \/ evid' = ReceiptLinked
                             \/ evid' = MarkerLinked
      BY <1>8, <2>2 DEF PersistOk, PersistFails, AppendFails, PublishReceipt,
                        PublishComplete, Crash
    <2>4. QED
      BY <1>2, <1>5, <1>6, <2>1, <2>3
  <1>9. ASSUME \/ New \/ JournalCreate \/ Drop \/ Preflight \/ BeginOp \/ Seek
               \/ AuthorizeDestructive \/ WriteChunk \/ PartialWrite \/ WriteOutcome
               \/ FlushOp \/ VerifyWritten \/ NextOp \/ Recheck \/ FlushAll \/ Eject
               \/ Error \/ AlterSource \/ SilentDamage \/ UNCHANGED vars
        PROVE  UNCHANGED <<evid, dir>>
    BY <1>9 DEF New, JournalCreate, Drop, Preflight, BeginOp, Seek,
         AuthorizeDestructive, WriteChunk, PartialWrite, WriteOutcome, FlushOp,
         VerifyWritten, NextOp, Recheck, FlushAll, Eject, Error, AlterSource,
         SilentDamage, vars
  <1>10. QED
    BY <1>2, <1>3, <1>7, <1>8, <1>9 DEF Next, Step, Finished

-----------------------------------------------------------------------------

LEMMA IInvInductive == IInv /\ [Next]_vars => IInv'
  BY TypeInvNext, OpsInvNext, MediaInvNext, EvidenceInvNext, SafeInvNext DEF IInv

LEMMA SafeInvImplies == IInv => SafeEvidence
  <1> SUFFICES ASSUME IInv PROVE SafeEvidence
    OBVIOUS
  <1>1. Good => CardIsGood
    <2>1. media = disk => Dirty = {}
      BY DEF Dirty
    <2>2. QED
      BY <2>1 DEF Good, CardIsGood
  <1>2. CASE dir = NoDir
    BY <1>2, NewReceiptFacts DEF SafeEvidence, Lines, Published
  <1>3. CASE dir \in Dirs
    <2>1. Lines = evid[dir].lines /\ Published = evid[dir].receipt
      BY <1>3, PlanAssumption DEF Lines, Published
    <2>2. Lines \in Seq(Receipts)
      BY <1>3, <2>1 DEF IInv, TypeInv, TypeOK, Evidence
    <2>3. DOMAIN Lines = 1..Len(Lines)
      BY <2>2
    <2>4. QED
      BY <1>1, <1>3, <2>1, <2>3 DEF IInv, SafeInv, SafeEvidence, AllVerified
  <1>4. QED
    BY <1>2, <1>3 DEF IInv, TypeInv, TypeOK

(* Whatever fails and whenever the power goes, evidence that says          *)
(* safe_to_boot describes a card that was written, read back, flushed and  *)
(* ejected: for any plan, any number of invocations and of silent faults.  *)
THEOREM SafeEvidenceHolds == Spec => []SafeEvidence
  <1>1. Init => IInv
    BY TypeInvInit, OpsInvInit, MediaInvInit, EvidenceInvInit, SafeInvInit DEF IInv
  <1>2. QED
    BY <1>1, IInvInductive, SafeInvImplies, PTL DEF Spec
============================================================================
