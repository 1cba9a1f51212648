--------------------- MODULE CardTransactionStepProofs ---------------------
(***************************************************************************)
(* What a step of the card transaction may never do, and what its evidence *)
(* is worth beside the word safe: NoClobber, FirstWriteOnBaseline,         *)
(* MediumReleased, JournaledProgress, WriteAhead, JournalReadable and      *)
(* VerdictHasEvidence, for every plan, chunk count, progress interval,     *)
(* number of invocations and of faults.  They build on the invariants of   *)
(* CardTransactionInv and add what each of them needs.                     *)
(***************************************************************************)
EXTENDS CardTransactionProofs

-----------------------------------------------------------------------------
(* Evidence is never clobbered. *)

(* Until the receipt is published the directory in use has none. *)
UnpublishedInv ==
    dir \in Dirs /\ pc \notin {"complete", "done", "crashed"} =>
        evid[dir].receipt = NoReceipt

(* The steps that change neither evidence nor the directory in use. *)
LEMMA EvidenceUnchanged ==
    ASSUME \/ New \/ JournalCreate \/ Drop \/ Preflight \/ BeginOp \/ Seek
           \/ AuthorizeDestructive \/ WriteChunk \/ PartialWrite \/ WriteOutcome
           \/ FlushOp \/ VerifyWritten \/ NextOp \/ Recheck \/ FlushAll \/ Eject
           \/ Error \/ AlterSource \/ SilentDamage \/ UNCHANGED vars
    PROVE  /\ evid' = evid /\ dir' = dir
           /\ pc' \in {"complete", "crashed"} => pc' = pc
           /\ pc \in {"complete", "done", "crashed"} => pc' = pc
  BY DEF New, JournalCreate, Drop, Preflight, BeginOp, Seek, AuthorizeDestructive,
         WriteChunk, PartialWrite, WriteOutcome, FlushOp, VerifyWritten, NextOp,
         Recheck, FlushAll, Eject, Error, AlterSource, SilentDamage, Record, Err,
         runVars, vars

LEMMA UnpublishedNext ==
    ASSUME TypeInv, EvidenceInv, UnpublishedInv, [Next]_vars
    PROVE  UnpublishedInv'
  <1> USE DEF UnpublishedInv, runVars
  <1>0. evid \in [Dirs -> Evidence] /\ NoDir \notin Dirs
    BY PlanAssumption DEF TypeInv, TypeOK
  <1>1. CASE Claim
    BY <1>0, <1>1 DEF Claim
  <1>2. CASE EvidenceCreate
    <2>1. dir = NoDir
      BY <1>2 DEF EvidenceCreate, TypeInv, Control
    <2>2. ASSUME NEW d \in Dirs, ~evid[d].made, evid' = Reserved(d), dir' \in {d, NoDir}
          PROVE  UnpublishedInv'
      BY <1>0, <2>2, EvidenceFacts DEF EvidenceInv
    <2>3. QED
      BY <1>0, <1>2, <2>1, <2>2 DEF EvidenceCreate, Reservable
  <1>3. CASE PersistOk \/ PersistFails
    <2>1. dir' = dir /\ dir \in Dirs /\ (evid' = evid \/ \E line : evid' = Appended(line))
      BY <1>3 DEF PersistOk, PersistFails, AppendFails, TypeInv, Control
    <2>2. evid'[dir].receipt = evid[dir].receipt
      BY <1>0, <2>1, EvidenceFacts
    <2>3. pc \notin {"complete", "done", "crashed"}
      BY <1>3 DEF PersistOk, PersistFails
    <2>4. QED
      BY <2>1, <2>2, <2>3
  <1>4. CASE PublishReceipt \/ PublishComplete \/ Crash
    BY <1>4 DEF PublishReceipt, PublishComplete, Crash
  <1>5. ASSUME \/ New \/ JournalCreate \/ Drop \/ Preflight \/ BeginOp \/ Seek
               \/ AuthorizeDestructive \/ WriteChunk \/ PartialWrite \/ WriteOutcome
               \/ FlushOp \/ VerifyWritten \/ NextOp \/ Recheck \/ FlushAll \/ Eject
               \/ Error \/ AlterSource \/ SilentDamage \/ UNCHANGED vars
        PROVE  UnpublishedInv'
    BY <1>5, EvidenceUnchanged
  <1>6. QED
    BY <1>1, <1>2, <1>3, <1>4, <1>5 DEF Next, Step, Finished

LEMMA AppendKeepsPrefix ==
    ASSUME NEW S, NEW s \in Seq(S), NEW e \in S
    PROVE  /\ Len(s) <= Len(Append(s, e))
           /\ s = SubSeq(Append(s, e), 1, Len(s))
  <1>1. /\ Append(s, e) \in Seq(S) /\ Len(Append(s, e)) = Len(s) + 1 /\ Len(s) \in Nat
        /\ \A i \in 1..Len(s) : Append(s, e)[i] = s[i]
    OBVIOUS
  <1>2. \A i \in 1..Len(s) : Append(s, e)[i] \in S
    BY <1>1
  <1>3. /\ SubSeq(Append(s, e), 1, Len(s)) \in Seq(S)
        /\ Len(SubSeq(Append(s, e), 1, Len(s))) = Len(s)
        /\ \A i \in 1..Len(s) : SubSeq(Append(s, e), 1, Len(s))[i] = s[i]
    BY <1>1, <1>2, SubSeqProperties
  <1>4. QED
    BY <1>1, <1>3, SeqEqual

(* What a step leaves of an evidence directory that was reserved before it. *)
Kept(d) ==
    /\ d # dir' => evid'[d] = evid[d]
    /\ Len(evid[d].lines) <= Len(evid'[d].lines)
    /\ evid[d].lines = SubSeq(evid'[d].lines, 1, Len(evid[d].lines))
    /\ evid[d].receipt.state # "None" => evid'[d].receipt = evid[d].receipt

LEMMA SameIsKept ==
    ASSUME TypeInv, NEW d \in Dirs, evid'[d] = evid[d]
    PROVE  Kept(d)
  <1>1. evid[d].lines \in Seq(Receipts)
    BY DEF TypeInv, TypeOK, Evidence
  <1>2. QED
    BY <1>1, SubSeqFull DEF Kept

LEMMA ClobberStep ==
    ASSUME TypeInv, EvidenceInv, UnpublishedInv, [Next]_vars
    PROVE  \A d \in Dirs : evid[d].made => Kept(d)
  <1> SUFFICES ASSUME NEW d \in Dirs, evid[d].made PROVE Kept(d)
    OBVIOUS
  <1>0. /\ evid \in [Dirs -> Evidence] /\ NoDir \notin Dirs /\ receipt \in Receipts
        /\ evid[d].lines \in Seq(Receipts)
    BY PlanAssumption DEF TypeInv, TypeOK, Evidence
  <1>1. CASE Claim
    BY <1>1, SameIsKept DEF Claim
  <1>2. CASE EvidenceCreate
    <2>1. \/ evid' = evid
          \/ \E c \in Dirs : ~evid[c].made /\ evid' = Reserved(c)
      BY <1>2 DEF EvidenceCreate, Reservable
    <2>2. evid'[d] = evid[d]
      BY <1>0, <2>1, EvidenceFacts
    <2>3. QED
      BY <2>2, SameIsKept
  <1>3. ASSUME dir \in Dirs, dir' = dir, NEW line \in Receipts, evid' = Appended(line)
        PROVE  Kept(d)
    <2>1. CASE d = dir
      <3>1. evid'[d].lines = Append(evid[d].lines, line) /\ evid'[d].receipt = evid[d].receipt
        BY <1>0, <1>3, <2>1, EvidenceFacts
      <3>2. QED
        BY <1>0, <1>3, <2>1, <3>1, AppendKeepsPrefix DEF Kept
    <2>2. CASE d # dir
      BY <1>0, <1>3, <2>2, EvidenceFacts, SameIsKept
    <2>3. QED
      BY <2>1, <2>2
  <1>4. ASSUME dir \in Dirs, dir' = dir, evid' = ReceiptLinked, evid[dir].receipt = NoReceipt
        PROVE  Kept(d)
    <2>1. CASE d = dir
      <3>1. evid'[d].lines = evid[d].lines /\ evid[d].receipt.state = "None"
        BY <1>0, <1>4, <2>1, EvidenceFacts DEF NoReceipt, Blank
      <3>2. QED
        BY <1>0, <1>4, <2>1, <3>1, SubSeqFull DEF Kept
    <2>2. CASE d # dir
      BY <1>0, <1>4, <2>2, EvidenceFacts, SameIsKept
    <2>3. QED
      BY <2>1, <2>2
  <1>5. ASSUME dir \in Dirs, dir' = dir, evid' = MarkerLinked
        PROVE  Kept(d)
    <2>1. /\ evid'[d].lines = evid[d].lines /\ evid'[d].receipt = evid[d].receipt
          /\ d # dir => evid'[d] = evid[d]
      BY <1>0, <1>5, EvidenceFacts DEF MarkerLinked
    <2>2. QED
      BY <1>0, <1>5, <2>1, SubSeqFull DEF Kept
  <1>6. CASE PersistOk \/ PersistFails \/ PublishReceipt \/ PublishComplete \/ Crash
    <2>1. dir' = dir
      BY <1>6 DEF PersistOk, PersistFails, PublishReceipt, PublishComplete, Crash, runVars
    <2>2. pc \in {"persist", "receipt", "complete"} => dir \in Dirs
      BY DEF TypeInv, Control
    <2>3. pc = "receipt" => evid[dir].receipt = NoReceipt
      BY <2>2 DEF UnpublishedInv
    <2>4. \/ evid' = evid
          \/ dir \in Dirs /\ \E line \in {TornLine, receipt} : evid' = Appended(line)
          \/ dir \in Dirs /\ evid' = ReceiptLinked /\ evid[dir].receipt = NoReceipt
          \/ dir \in Dirs /\ evid' = MarkerLinked
      BY <1>6, <2>2, <2>3 DEF PersistOk, PersistFails, AppendFails, PublishReceipt,
                              PublishComplete, Crash
    <2>5. QED
      BY <1>0, <1>3, <1>4, <1>5, <2>1, <2>4, SameIsKept, ReceiptTypes
  <1>7. ASSUME \/ New \/ JournalCreate \/ Drop \/ Preflight \/ BeginOp \/ Seek
               \/ AuthorizeDestructive \/ WriteChunk \/ PartialWrite \/ WriteOutcome
               \/ FlushOp \/ VerifyWritten \/ NextOp \/ Recheck \/ FlushAll \/ Eject
               \/ Error \/ AlterSource \/ SilentDamage \/ UNCHANGED vars
        PROVE  Kept(d)
    BY <1>7, EvidenceUnchanged, SameIsKept
  <1>8. QED
    BY <1>1, <1>2, <1>6, <1>7 DEF Next, Step, Finished

(* No invocation changes what an earlier one left in its evidence directory, *)
(* no journal line is taken back and no receipt replaced: for any number of  *)
(* invocations, directories and failing calls (EvidenceDir::create,          *)
(* AppendOnlyJournal, publish_no_replace).                                   *)
THEOREM NothingIsClobbered == Spec => NoClobber
  <1>1. Init => TypeInv /\ EvidenceInv /\ UnpublishedInv
    BY TypeInvInit, EvidenceInvInit, PlanAssumption DEF Init, UnpublishedInv
  <1>2. TypeInv /\ EvidenceInv /\ UnpublishedInv /\ [Next]_vars =>
          (TypeInv /\ EvidenceInv /\ UnpublishedInv)'
    BY TypeInvNext, EvidenceInvNext, UnpublishedNext
  <1>3. TypeInv /\ EvidenceInv /\ UnpublishedInv /\ [Next]_vars =>
          [\A d \in Dirs : evid[d].made =>
             /\ d # dir' => evid'[d] = evid[d]
             /\ Len(evid[d].lines) <= Len(evid'[d].lines)
             /\ evid[d].lines = SubSeq(evid'[d].lines, 1, Len(evid[d].lines))
             /\ evid[d].receipt.state # "None" =>
                    evid'[d].receipt = evid[d].receipt]_vars
    BY ClobberStep DEF Kept
  <1>4. QED
    BY <1>1, <1>2, <1>3, PTL DEF Spec, NoClobber

-----------------------------------------------------------------------------
(* The first write finds everything at its baseline. *)

OnBaseline ==
    /\ \A r \in Attested : rest[r]
    /\ \A o \in Ops \ Disposable : \A c \in Chunks : media[o][c] = "base"

(* From the preflight to the first write nothing changes; later operations *)
(* begin after a write, and a disposable target only with the capability.  *)
BaselineInv ==
    /\ touched = {} /\ (At("authorize") \/ At("begin") \/ At("seek") \/ At("write")) =>
         OnBaseline
    /\ pos > 0 => touched # {}
    /\ At("flush") \/ At("verify") \/ At("next") => touched # {}
    /\ (\/ pc \in {"idle", "validate", "reserve", "journal"}
        \/ At("preflight") \/ At("authorize")) => touched = {}
    /\ (At("seek") \/ At("write")) /\ op \in Disposable => authorized
    /\ touched \cap Disposable # {} => authorized

LEMMA BaselineInit == Init => BaselineInv
  BY DEF Init, BaselineInv, At

LEMMA BaselineNext ==
    ASSUME TypeInv, OpsInv, BaselineInv, [Next]_vars
    PROVE  BaselineInv'
  <1> USE SizeAssumption DEF BaselineInv, OnBaseline, At, runVars, writerVars, mediaVars
  <1>0. /\ pos \in 0..NChunks /\ op \in Ops /\ touched \subseteq Ops
        /\ Disposable \subseteq Ops
        /\ pc = "persist" =>
             cont \in {"preflight", "authorize", "begin", "seek", "write", "flush",
                       "next", "recheck", "eject", "error", "receipt"}
    BY PlanAssumption DEF TypeInv, TypeOK, Control
  <1>1. CASE Claim
    BY <1>0, <1>1 DEF Claim
  <1>2. CASE New \/ EvidenceCreate \/ JournalCreate \/ Drop
    <2>1. /\ UNCHANGED <<touched, pos, op, authorized>>
          /\ \/ pc' \in {"drop", "done"}
             \/ pc' = "reserve" /\ pc = "validate"
             \/ pc' = "journal" /\ pc = "reserve"
             \/ pc' = "persist" /\ cont' = "preflight" /\ pc = "journal"
      BY <1>2 DEF New, EvidenceCreate, JournalCreate, Drop
    <2>2. /\ ~(At("authorize") \/ At("begin") \/ At("seek") \/ At("write"))'
          /\ ~(At("flush") \/ At("verify") \/ At("next"))'
      BY <2>1
    <2>3. touched = {} \/ pc' \in {"drop", "done"}
      BY <2>1
    <2>4. QED
      BY <1>0, <2>1, <2>2, <2>3
  <1>3. CASE PersistOk
    BY <1>0, <1>3 DEF PersistOk
  <1>4. CASE PersistFails
    BY <1>0, <1>4 DEF PersistFails, PersistError, Record, Err
  <1>5. CASE Preflight
    BY <1>0, <1>5 DEF Preflight, Baseline, Record, Err
  <1>6. CASE AuthorizeDestructive
    BY <1>0, <1>6 DEF AuthorizeDestructive, Record, Err
  <1>7. CASE BeginOp \/ Seek
    BY <1>0, <1>7 DEF BeginOp, Seek, Record, Err
  <1>8. CASE WriteChunk
    <2>1. /\ touched' = touched \cup {op} /\ authorized' = authorized /\ op' = op
          /\ pc' \in {"write", "persist"} /\ (pc' = "persist" => cont' = "write")
      BY <1>8 DEF WriteChunk, Record
    <2>2. op \in Disposable => authorized
      BY <1>8 DEF WriteChunk
    <2>3. QED
      BY <1>0, <2>1, <2>2
  <1>9. CASE PartialWrite
    <2>1. /\ touched' \in {touched, touched \cup {op}} /\ authorized' = authorized
          /\ op' = op /\ pos' = pos /\ pc' = "persist" /\ cont' = "error"
      BY <1>9 DEF PartialWrite, Record
    <2>2. op \in Disposable => authorized
      BY <1>9 DEF PartialWrite
    <2>3. QED
      BY <1>0, <2>1, <2>2
  <1>10. CASE WriteOutcome
    BY <1>0, <1>10 DEF WriteOutcome, Record
  <1>11. CASE FlushOp \/ VerifyWritten
    BY <1>0, <1>11 DEF FlushOp, VerifyWritten, Record, Err
  <1>12. CASE NextOp
    BY <1>0, <1>12 DEF NextOp, Record
  <1>13. CASE Recheck \/ FlushAll \/ Eject \/ Error
    BY <1>0, <1>13 DEF Recheck, FlushAll, Eject, Error, Record, Err
  <1>14. CASE PublishReceipt \/ PublishComplete \/ Crash
    BY <1>0, <1>14 DEF PublishReceipt, PublishComplete, Crash
  <1>15. CASE AlterSource \/ SilentDamage
    <2>1. /\ touched' = touched /\ UNCHANGED <<pc, cont, op, pos, authorized>>
          /\ touched = {} => UNCHANGED <<media, rest>>
      BY <1>0, <1>15 DEF AlterSource, SilentDamage
    <2>2. QED
      BY <2>1
  <1>16. CASE UNCHANGED vars
    BY <1>16 DEF vars
  <1>17. QED
    BY <1>1, <1>2, <1>3, <1>4, <1>5, <1>6, <1>7, <1>8, <1>9, <1>10, <1>11, <1>12,
       <1>13, <1>14, <1>15, <1>16 DEF Next, Step, Finished

LEMMA FirstWriteStep ==
    ASSUME TypeInv, BaselineInv, [Next]_vars
    PROVE  /\ touched = {} /\ touched' # {} => OnBaseline
           /\ touched' \cap Disposable # {} => authorized
  <1> USE DEF BaselineInv, At, mediaVars
  <1>1. CASE WriteChunk \/ PartialWrite
    <2>1. pc = "write" /\ touched' \in {touched, touched \cup {op}}
      BY <1>1 DEF WriteChunk, PartialWrite
    <2>2. QED
      BY <2>1
  <1>2. CASE Claim
    BY <1>2 DEF Claim
  <1>3. CASE ~WriteChunk /\ ~PartialWrite /\ ~Claim
    <2>1. touched' = touched
      BY <1>3 DEF Next, Step, Finished, vars, New, EvidenceCreate, JournalCreate, Drop,
         PersistOk, PersistFails, Preflight, AuthorizeDestructive, BeginOp, Seek,
         WriteOutcome, FlushOp, VerifyWritten, NextOp, Recheck, FlushAll, Eject, Error,
         PublishReceipt, PublishComplete, Crash, AlterSource, SilentDamage
    <2>2. QED
      BY <2>1
  <1>4. QED
    BY <1>1, <1>2, <1>3

(* Nothing is written to a card before every attested range and every target *)
(* that is not disposable was found at its baseline, and a disposable target  *)
(* only with the capability of the backend: for any plan and any number of    *)
(* invocations on one card (Transaction::execute_inner).                      *)
THEOREM FirstWriteFindsBaseline == Spec => FirstWriteOnBaseline
  <1>1. Init => TypeInv /\ OpsInv /\ BaselineInv
    BY TypeInvInit, OpsInvInit, BaselineInit
  <1>2. TypeInv /\ OpsInv /\ BaselineInv /\ [Next]_vars => (TypeInv /\ OpsInv /\ BaselineInv)'
    BY TypeInvNext, OpsInvNext, BaselineNext
  <1>3. TypeInv /\ OpsInv /\ BaselineInv /\ [Next]_vars =>
          [/\ touched = {} /\ touched' # {} =>
                /\ \A r \in Attested : rest[r]
                /\ \A o \in Ops \ Disposable : \A c \in Chunks : media[o][c] = "base"
           /\ touched' \cap Disposable # {} => authorized]_vars
    BY FirstWriteStep DEF OnBaseline
  <1>4. QED
    BY <1>1, <1>2, <1>3, PTL DEF Spec, FirstWriteOnBaseline

-----------------------------------------------------------------------------
(* The disposition of the medium. *)

(* Where the receipt that says how flush and eject went is being published. *)
Disposing == \/ pc \in {"receipt", "complete", "done"}
             \/ pc = "persist" /\ cont = "receipt"

(* What a receipt claims of flush and eject is so, and nothing is to come  *)
(* that makes it untrue.                                                   *)
DisposedAsSaid(r) ==
    /\ r.flush = "Succeeded" => Closing /\ media = disk
    /\ r.eject = "Succeeded" => Closing /\ card = "released"
    /\ r.state = "Failed" => (Disposing \/ pc = "crashed") /\ card \in {"released", "stuck"}

DispositionInv ==
    /\ Disposing => card \in {"released", "stuck"}
    /\ DisposedAsSaid(receipt)
    /\ dir \in Dirs => DisposedAsSaid(evid[dir].receipt)

LEMMA UpdatesKeepDisposition ==
    ASSUME receipt \in Receipts
    PROVE  /\ \A o, st, b : SetOp(o, st, b).flush = receipt.flush
                            /\ SetOp(o, st, b).eject = receipt.eject
                            /\ SetOp(o, st, b).state = receipt.state
           /\ \A s : SetState(s).flush = receipt.flush /\ SetState(s).eject = receipt.eject
                     /\ SetState(s).state = s
           /\ SetPending.flush = receipt.flush /\ SetPending.eject = receipt.eject
           /\ SetPending.state = "PreflightComplete"
           /\ \A f, e : SetFailed(f, e).flush = Outcome(f) /\ SetFailed(f, e).eject = Outcome(e)
  BY DEF SetOp, SetState, SetPending, SetFailed, Receipts

LEMMA DispositionInit == Init => DispositionInv
  BY PlanAssumption DEF Init, DispositionInv, DisposedAsSaid, Disposing, NewReceipt, Blank

(* The steps before the medium is disposed of: nothing says yet how it went. *)
LEMMA UndisposedReceipt ==
    ASSUME DispositionInv, ~Closing
    PROVE  /\ receipt.flush # "Succeeded" /\ receipt.eject # "Succeeded"
           /\ receipt.state # "Failed"
           /\ dir \in Dirs => /\ evid[dir].receipt.flush # "Succeeded"
                              /\ evid[dir].receipt.eject # "Succeeded"
                              /\ evid[dir].receipt.state # "Failed"
  BY DEF DispositionInv, DisposedAsSaid, Disposing, Closing

(* What was said of a disposed medium stays true until the next claim. *)
LEMMA DispositionStable ==
    ASSUME TypeInv, Closing, pc # "error", [Next]_vars, ~Claim
    PROVE  /\ Closing'
           /\ card' = card
           /\ media = disk => media' = disk'
  <1> USE DEF Closing, mediaVars
  <1>1. CASE PersistOk \/ PersistFails \/ PublishReceipt \/ PublishComplete
    BY <1>1 DEF PersistOk, PersistFails, PersistError, Record, Err, PublishReceipt,
                PublishComplete
  <1>2. CASE Crash
    <2>1. media = disk => disk' = disk
      BY <1>2, FlushClean DEF Crash
    <2>2. media' = disk' /\ card' = card /\ pc' = "crashed"
      BY <1>2 DEF Crash
    <2>3. QED
      BY <2>1, <2>2
  <1>3. CASE AlterSource \/ UNCHANGED vars
    BY <1>3 DEF AlterSource, vars
  <1>4. ASSUME \/ New \/ EvidenceCreate \/ JournalCreate \/ Drop \/ Preflight
               \/ BeginOp \/ Seek \/ AuthorizeDestructive \/ WriteChunk
               \/ PartialWrite \/ WriteOutcome \/ FlushOp \/ VerifyWritten
               \/ NextOp \/ Recheck \/ FlushAll \/ Eject \/ Error \/ SilentDamage
        PROVE  FALSE
    BY <1>4 DEF New, EvidenceCreate, JournalCreate, Drop, Preflight, BeginOp, Seek,
         AuthorizeDestructive, WriteChunk, PartialWrite, WriteOutcome, FlushOp,
         VerifyWritten, NextOp, Recheck, FlushAll, Eject, Error, SilentDamage
  <1>5. QED
    BY <1>1, <1>2, <1>3, <1>4 DEF Next, Step, Finished

(* A receipt that says nothing of flush, eject and failure is disposed as said. *)
LEMMA SilentReceipt ==
    ASSUME NEW r, r.flush # "Succeeded", r.eject # "Succeeded", r.state # "Failed"
    PROVE  DisposedAsSaid(r)'
  BY DEF DisposedAsSaid

(* The receipts found in the directory in use after a step. *)
LEMMA PublishedNext ==
    ASSUME TypeInv, EvidenceInv, [Next]_vars, dir' \in Dirs
    PROVE  \/ evid'[dir'].receipt = NoReceipt
           \/ dir' = dir /\ evid'[dir].receipt = evid[dir].receipt
           \/ dir' = dir /\ evid'[dir].receipt = receipt /\ pc = "receipt"
  <1>0. evid \in [Dirs -> Evidence] /\ NoDir \notin Dirs
    BY PlanAssumption DEF TypeInv, TypeOK
  <1>1. CASE Claim
    BY <1>0, <1>1 DEF Claim
  <1>2. CASE EvidenceCreate
    <2>1. dir = NoDir
      BY <1>2 DEF EvidenceCreate, TypeInv, Control
    <2>2. PICK d \in Dirs : ~evid[d].made /\ evid' = Reserved(d) /\ dir' = d
      BY <1>0, <1>2, <2>1 DEF EvidenceCreate, Reservable
    <2>3. QED
      BY <1>0, <2>2, EvidenceFacts DEF EvidenceInv
  <1>3. CASE PersistOk \/ PersistFails \/ PublishReceipt \/ PublishComplete \/ Crash
    <2>1. dir' = dir
      BY <1>3 DEF PersistOk, PersistFails, PublishReceipt, PublishComplete, Crash, runVars
    <2>2. \/ evid' = evid
          \/ \E line : evid' = Appended(line)
          \/ evid' = ReceiptLinked /\ pc = "receipt"
          \/ evid' = MarkerLinked
      BY <1>3 DEF PersistOk, PersistFails, AppendFails, PublishReceipt,
                  PublishComplete, Crash
    <2>3. QED
      BY <1>0, <2>1, <2>2, EvidenceFacts
  <1>4. ASSUME \/ New \/ JournalCreate \/ Drop \/ Preflight \/ BeginOp \/ Seek
               \/ AuthorizeDestructive \/ WriteChunk \/ PartialWrite \/ WriteOutcome
               \/ FlushOp \/ VerifyWritten \/ NextOp \/ Recheck \/ FlushAll \/ Eject
               \/ Error \/ AlterSource \/ SilentDamage \/ UNCHANGED vars
        PROVE  dir' = dir /\ evid' = evid
    BY <1>4, EvidenceUnchanged
  <1>5. QED
    BY <1>1, <1>2, <1>3, <1>4 DEF Next, Step, Finished

(* While the medium is in use. *)
LEMMA DispositionOpen ==
    ASSUME TypeInv, EvidenceInv, DispositionInv, ~Closing, [Next]_vars
    PROVE  DispositionInv'
  <1>0. receipt \in Receipts
    BY DEF TypeInv, TypeOK
  <1>1. /\ receipt'.flush # "Succeeded" /\ receipt'.eject # "Succeeded"
        /\ receipt'.state # "Failed"
    <2>1. \/ receipt' = receipt \/ receipt' = NewReceipt \/ receipt' = SetPending
          \/ \E o, st, b : receipt' = SetOp(o, st, b)
          \/ \E s \in ReceiptStates \ {"Failed"} : receipt' = SetState(s)
      <3>1. CASE Claim \/ Preflight \/ UNCHANGED vars
        BY <3>1 DEF Claim, Preflight, Record, Err, vars
      <3>2. CASE BeginOp \/ Seek \/ WriteChunk \/ PartialWrite \/ WriteOutcome \/ VerifyWritten
        BY <3>2 DEF BeginOp, Seek, WriteChunk, PartialWrite, WriteOutcome, VerifyWritten,
                    Record, Err
      <3>3. CASE AuthorizeDestructive \/ NextOp
        BY <3>3 DEF AuthorizeDestructive, NextOp, Record, Err, ReceiptStates
      <3>4. CASE FlushAll \/ Eject
        BY <3>4 DEF FlushAll, Eject, Record, Err, ReceiptStates
      <3>5. CASE PersistFails
        BY <3>5 DEF PersistFails, PersistError, Record, Err
      <3>6. CASE Error \/ PublishReceipt \/ PublishComplete
        BY <3>6 DEF Error, PublishReceipt, PublishComplete, Closing
      <3>7. CASE \/ New \/ EvidenceCreate \/ JournalCreate \/ Drop \/ PersistOk \/ FlushOp
                 \/ Recheck \/ Crash \/ AlterSource \/ SilentDamage
        BY <3>7 DEF New, EvidenceCreate, JournalCreate, Drop, PersistOk, FlushOp,
                    Recheck, Err, Crash, AlterSource, SilentDamage
      <3>8. QED
        BY <3>1, <3>2, <3>3, <3>4, <3>5, <3>6, <3>7 DEF Next, Step, Finished
    <2>2. NewReceipt.flush = "none" /\ NewReceipt.eject = "none"
          /\ NewReceipt.state = "Initialized"
      BY DEF NewReceipt, Blank
    <2>3. QED
      BY <1>0, <2>1, <2>2, UndisposedReceipt, UpdatesKeepDisposition
  <1>2. ASSUME dir' \in Dirs
        PROVE  /\ evid'[dir'].receipt.flush # "Succeeded"
               /\ evid'[dir'].receipt.eject # "Succeeded"
               /\ evid'[dir'].receipt.state # "Failed"
    <2>1. NoReceipt.flush = "none" /\ NoReceipt.eject = "none" /\ NoReceipt.state = "None"
      BY DEF NoReceipt, Blank
    <2>2. pc # "receipt"
      BY DEF Closing
    <2>3. QED
      BY <1>2, <2>1, <2>2, PublishedNext, UndisposedReceipt
  <1>3. Disposing' => card' \in {"released", "stuck"}
    <2>1. CASE Drop
      BY <2>1 DEF Drop, Dispose, EjectMedia
    <2>2. CASE Eject
      BY <2>2 DEF Eject, EjectMedia, Record, Err, Disposing
    <2>3. CASE PersistOk
      BY <2>3 DEF PersistOk, Disposing, Closing, TypeInv, Control
    <2>4. CASE PersistFails
      BY <2>4, UndisposedReceipt DEF PersistFails, PersistError, Record, Err, Disposing
    <2>5. CASE Claim \/ New \/ EvidenceCreate \/ JournalCreate
      BY <2>5 DEF Claim, New, EvidenceCreate, JournalCreate, Disposing
    <2>6. CASE \/ Preflight \/ AuthorizeDestructive \/ BeginOp \/ Seek \/ PartialWrite
               \/ WriteOutcome
      BY <2>6 DEF Preflight, AuthorizeDestructive, BeginOp, Seek, PartialWrite,
                  WriteOutcome, Record, Err, Disposing
    <2>7. CASE FlushOp \/ VerifyWritten \/ NextOp \/ Recheck \/ FlushAll \/ WriteChunk
      BY <2>7 DEF FlushOp, VerifyWritten, NextOp, Recheck, FlushAll, WriteChunk, Record,
                  Err, Disposing
    <2>8. CASE Error \/ PublishReceipt \/ PublishComplete
      BY <2>8 DEF Error, PublishReceipt, PublishComplete, Closing
    <2>9. CASE Crash \/ AlterSource \/ SilentDamage \/ UNCHANGED vars
      BY <2>9 DEF Crash, AlterSource, SilentDamage, vars, Disposing, Closing
    <2>10. QED
      BY <2>1, <2>2, <2>3, <2>4, <2>5, <2>6, <2>7, <2>8, <2>9 DEF Next, Step, Finished
  <1>4. QED
    BY <1>1, <1>2, <1>3 DEF DispositionInv, DisposedAsSaid

(* The error arm disposes of the medium and says how that went. *)
LEMMA DispositionError ==
    ASSUME TypeInv, EvidenceInv, UnpublishedInv, DispositionInv, Error
    PROVE  DispositionInv'
  <1>1. PICK f \in BOOLEAN, e \in BOOLEAN :
            Dispose(f, e) /\ Record(SetFailed(f, e), "receipt")
    BY DEF Error
  <1>2. /\ receipt'.flush = Outcome(f) /\ receipt'.eject = Outcome(e)
        /\ pc' = "persist" /\ cont' = "receipt"
    BY <1>1, UpdatesKeepDisposition DEF Record, TypeInv, TypeOK
  <1>3. f => media' = disk'
    BY <1>1, FlushAllDirty DEF Error, Dispose
  <1>4. card' \in {"released", "stuck"} /\ (e => card' = "released")
    BY <1>1 DEF Dispose, EjectMedia
  <1>5. DisposedAsSaid(receipt)'
    BY <1>2, <1>3, <1>4 DEF DisposedAsSaid, Disposing, Closing, Outcome
  <1>6. dir' \in Dirs => evid'[dir'].receipt = NoReceipt
    BY DEF Error, UnpublishedInv, runVars
  <1>7. dir' \in Dirs => DisposedAsSaid(evid[dir].receipt)'
    BY <1>6 DEF DisposedAsSaid, NoReceipt, Blank
  <1>8. QED
    BY <1>4, <1>5, <1>7 DEF DispositionInv

(* At the error arm only Error changes what the lemma above speaks of. *)
LEMMA DispositionAtError ==
    ASSUME TypeInv, EvidenceInv, UnpublishedInv, DispositionInv, pc = "error", [Next]_vars, ~Error
    PROVE  DispositionInv'
  <1>1. receipt' = receipt /\ evid' = evid /\ dir' = dir /\ card' = card
        /\ pc' \in {"error", "crashed"} /\ (pc' = "error" => UNCHANGED <<media, disk>>)
    BY DEF Next, Step, Finished, vars, mediaVars, runVars, Claim, New, EvidenceCreate,
       JournalCreate, Drop, PersistOk, PersistFails, Preflight, AuthorizeDestructive,
       BeginOp, Seek, WriteChunk, PartialWrite, WriteOutcome, FlushOp, VerifyWritten,
       NextOp, Recheck, FlushAll, Eject, PublishReceipt, PublishComplete, Crash,
       AlterSource, SilentDamage
  <1>2. media = disk => media' = disk'
    <2>1. CASE Crash
      BY <2>1, FlushClean DEF Crash
    <2>2. CASE ~Crash
      BY <1>1, <2>2 DEF Next, Step, Finished, vars, mediaVars, Claim, New, EvidenceCreate,
         JournalCreate, Drop, PersistOk, PersistFails, Preflight, AuthorizeDestructive,
         BeginOp, Seek, WriteChunk, PartialWrite, WriteOutcome, FlushOp, VerifyWritten,
         NextOp, Recheck, FlushAll, Eject, PublishReceipt, PublishComplete, AlterSource,
         SilentDamage
    <2>3. QED
      BY <2>1, <2>2
  <1>3. receipt.state # "Failed"
    BY DEF DispositionInv, DisposedAsSaid, Disposing
  <1>4. dir \in Dirs => evid[dir].receipt.state # "Failed"
    BY DEF DispositionInv, DisposedAsSaid, Disposing
  <1>5. QED
    BY <1>1, <1>2, <1>3, <1>4 DEF DispositionInv, DisposedAsSaid, Disposing, Closing

LEMMA DispositionClosed ==
    ASSUME TypeInv, EvidenceInv, UnpublishedInv, DispositionInv, Closing, pc # "error", [Next]_vars
    PROVE  DispositionInv'
  <1>1. CASE Claim
    <2>1. dir' = NoDir /\ receipt' = NewReceipt /\ pc' = "validate"
      BY <1>1 DEF Claim
    <2>2. QED
      BY <2>1, PlanAssumption DEF DispositionInv, DisposedAsSaid, Disposing, NewReceipt, Blank
  <1>2. CASE ~Claim
    <2>1. /\ Closing' /\ card' = card /\ (media = disk => media' = disk')
      BY <1>2, DispositionStable
    <2>2. /\ receipt' = receipt
          /\ Disposing' => Disposing
          /\ receipt.state = "Failed" /\ (Disposing \/ pc = "crashed") =>
               (Disposing \/ pc = "crashed")'
          /\ pc \in {"complete", "done", "crashed"} => (Disposing \/ pc = "crashed")'
      <3>1. CASE PersistOk \/ PersistFails
        BY <3>1 DEF PersistOk, PersistFails, PersistError, Record, Err, Disposing, Closing
      <3>2. CASE PublishReceipt \/ PublishComplete \/ Crash
        BY <3>2 DEF PublishReceipt, PublishComplete, Crash, Disposing
      <3>3. CASE AlterSource \/ UNCHANGED vars
        BY <3>3 DEF AlterSource, vars, Disposing
      <3>4. ASSUME \/ New \/ EvidenceCreate \/ JournalCreate \/ Drop \/ Preflight
                   \/ BeginOp \/ Seek \/ AuthorizeDestructive \/ WriteChunk
                   \/ PartialWrite \/ WriteOutcome \/ FlushOp \/ VerifyWritten
                   \/ NextOp \/ Recheck \/ FlushAll \/ Eject \/ Error \/ SilentDamage
            PROVE  FALSE
        BY <3>4 DEF Closing, New, EvidenceCreate, JournalCreate, Drop, Preflight, BeginOp,
             Seek, AuthorizeDestructive, WriteChunk, PartialWrite, WriteOutcome, FlushOp,
             VerifyWritten, NextOp, Recheck, FlushAll, Eject, Error, SilentDamage
      <3>5. QED
        BY <1>2, <3>1, <3>2, <3>3, <3>4 DEF Next, Step, Finished
    <2>3. DisposedAsSaid(receipt)'
      BY <2>1, <2>2 DEF DispositionInv, DisposedAsSaid
    <2>4. ASSUME dir' \in Dirs PROVE DisposedAsSaid(evid[dir].receipt)'
      <3>1. CASE evid'[dir'].receipt = NoReceipt
        BY <3>1 DEF DisposedAsSaid, NoReceipt, Blank
      <3>2. CASE dir' = dir /\ evid'[dir].receipt = receipt
        BY <2>2, <2>3, <3>2 DEF DisposedAsSaid
      <3>3. CASE dir' = dir /\ evid'[dir].receipt = evid[dir].receipt
        <4>1. DisposedAsSaid(evid[dir].receipt)
          BY <2>4, <3>3 DEF DispositionInv
        <4>2. evid[dir].receipt.state = "Failed" => pc \in {"complete", "done", "crashed"}
          BY <2>4, <3>3 DEF UnpublishedInv, NoReceipt, Blank
        <4>3. QED
          BY <2>1, <2>2, <3>3, <4>1, <4>2 DEF DisposedAsSaid
      <3>4. QED
        BY <2>4, <3>1, <3>2, <3>3, PublishedNext
    <2>5. Disposing' => card' \in {"released", "stuck"}
      BY <2>1, <2>2 DEF DispositionInv
    <2>6. QED
      BY <2>3, <2>4, <2>5 DEF DispositionInv
  <1>3. QED
    BY <1>1, <1>2

(* An invocation that returned has tried to release the medium, and a receipt  *)
(* that says flushed or ejected says so of a medium that is: for any number of *)
(* invocations, whatever call failed and whenever the power went               *)
(* (dispose_session, execute_with_journal).                                    *)
THEOREM MediumIsReleased == Spec => []MediumReleased
  <1> DEFINE Inv == TypeInv /\ EvidenceInv /\ UnpublishedInv /\ DispositionInv
  <1>1. Init => Inv
    BY TypeInvInit, EvidenceInvInit, DispositionInit, PlanAssumption
    DEF Init, UnpublishedInv
  <1>2. Inv /\ [Next]_vars => Inv'
    <2>1. ASSUME Inv, [Next]_vars PROVE DispositionInv'
      <3>1. CASE ~Closing
        BY <2>1, <3>1, DispositionOpen
      <3>2. CASE Closing /\ pc # "error"
        BY <2>1, <3>2, DispositionClosed
      <3>3. CASE pc = "error"
        BY <2>1, <3>3, DispositionError, DispositionAtError
      <3>4. QED
        BY <3>1, <3>2, <3>3
    <2>2. QED
      BY <2>1, TypeInvNext, EvidenceInvNext, UnpublishedNext
  <1>3. Inv => MediumReleased
    <2>1. ASSUME Inv PROVE MediumReleased
      <3>1. media = disk => Dirty = {}
        BY DEF Dirty
      <3>2. NoReceipt.flush # "Succeeded" /\ NoReceipt.eject # "Succeeded"
        BY DEF NoReceipt, Blank
      <3>3. dir \in Dirs \/ dir = NoDir
        BY <2>1 DEF TypeInv, TypeOK
      <3>4. QED
        BY <2>1, <3>1, <3>2, <3>3
        DEF MediumReleased, Published, DispositionInv, DisposedAsSaid, Disposing
    <2>2. QED
      BY <2>1
  <1> HIDE DEF Inv
  <1>4. QED
    BY <1>1, <1>2, <1>3, PTL DEF Spec

-----------------------------------------------------------------------------
(* The journal runs ahead of the medium and close behind the cursor. *)

(* What of a partition has reached the medium when the cursor is at op, pos. *)
Streamed(o) == IF o < op THEN NChunks ELSE IF o = op THEN pos ELSE 0
Behind(r)   == \A o \in Ops : r.ops[o].bytes <= Streamed(o)
Names(r, o) == r.state = "WriteInProgress" /\ r.ops[o].st = "Writing"

InLoop == At("begin") \/ At("seek") \/ At("write") \/ At("flush") \/ At("verify") \/ At("next")

(* The operation in hand was not written to by this invocation. *)
Untouched == \/ pc \in {"idle", "validate", "reserve", "journal"} \/ At("preflight")
             \/ At("authorize") \/ At("begin") \/ At("seek")

JournalBehind ==
    /\ Behind(receipt)
    /\ dir \in Dirs => \A i \in DOMAIN evid[dir].lines : Behind(evid[dir].lines[i])

CursorInv ==
    /\ \A o \in touched : o <= op
    /\ Untouched => \A o \in touched : o # op
    /\ InLoop => receipt.state = "WriteInProgress"
    /\ pc = "persist" /\ cont \in {"seek", "write"} => receipt.ops[op].bytes = pos

(* Before a buffer goes to the medium, the journal names its partition, and *)
(* less than the interval was written since.                                *)
SaidBefore ==
    pc \in {"seek", "write"} =>
        /\ pos < receipt.ops[op].bytes + ProgressChunks
        /\ dir \in Dirs /\ \E i \in DOMAIN evid[dir].lines :
             /\ Names(evid[dir].lines[i], op)
             /\ evid[dir].lines[i].ops[op].bytes = receipt.ops[op].bytes

TouchedIsNamed ==
    /\ \A o \in touched : dir \in Dirs /\
         \E i \in DOMAIN evid[dir].lines : Names(evid[dir].lines[i], o)
    /\ op \in touched => dir \in Dirs /\ \E i \in DOMAIN evid[dir].lines :
         /\ Names(evid[dir].lines[i], op)
         /\ pos <= evid[dir].lines[i].ops[op].bytes + ProgressChunks

ProgressInv == JournalBehind /\ CursorInv /\ SaidBefore /\ TouchedIsNamed

LEMMA ProgressInit == Init => ProgressInv
  <1> SUFFICES ASSUME Init PROVE ProgressInv
    OBVIOUS
  <1>1. pc = "idle" /\ touched = {} /\ dir \notin Dirs /\ receipt = NewReceipt /\ op = 1 /\ pos = 0
    BY PlanAssumption DEF Init
  <1>2. Behind(NewReceipt)
    BY <1>1, SizeAssumption DEF Behind, Streamed, NewReceipt, Blank, NoOps
  <1>3. QED
    BY <1>1, <1>2 DEF ProgressInv, JournalBehind, CursorInv, SaidBefore, TouchedIsNamed,
                      Untouched, InLoop, At

LEMMA CursorStep ==
    ASSUME TypeInv, [Next]_vars, ~Claim
    PROVE  \/ op' = op /\ pos' = pos
           \/ WriteChunk /\ op' = op /\ pos' = pos + 1
           \/ NextOp /\ op' = op + 1 /\ pos' = 0
  BY DEF Next, Step, Finished, vars, writerVars, New, EvidenceCreate, JournalCreate,
     Drop, PersistOk, PersistFails, Preflight, AuthorizeDestructive, BeginOp, Seek,
     WriteChunk, PartialWrite, WriteOutcome, FlushOp, VerifyWritten, NextOp, Recheck,
     FlushAll, Eject, Error, PublishReceipt, PublishComplete, Crash, AlterSource,
     SilentDamage

LEMMA StreamedGrows ==
    ASSUME TypeInv, [Next]_vars, ~Claim, NEW o \in Ops
    PROVE  /\ Streamed(o) \in Int /\ Streamed(o)' \in Int
           /\ Streamed(o) <= Streamed(o)'
  <1>1. /\ op \in Int /\ pos \in 0..NChunks /\ o \in Int /\ NChunks \in Int /\ op \in Ops
        /\ NChunks \in Nat
    BY SizeAssumption DEF TypeInv, TypeOK, Ops
  <1>2. CASE op' = op /\ pos' = pos
    BY <1>1, <1>2 DEF Streamed
  <1>3. CASE op' = op /\ pos' = pos + 1
    BY <1>1, <1>3 DEF Streamed
  <1>4. CASE op' = op + 1 /\ pos' = 0
    BY <1>1, <1>4 DEF Streamed
  <1>5. QED
    BY <1>2, <1>3, <1>4, CursorStep

(* The updates of the receipt as a whole leave its operations alone. *)
LEMMA UpdatedOps ==
    ASSUME receipt \in Receipts
    PROVE  /\ \A s : SetState(s).ops = receipt.ops
           /\ \A f, e : SetFailed(f, e).ops = receipt.ops
           /\ \A o \in Ops : SetPending.ops[o].bytes = 0
  BY DEF SetOp, SetState, SetFailed, SetPending, Receipts

(* How a step other than a claim changes the receipt. *)
LEMMA ReceiptStep ==
    ASSUME TypeInv, OpsInv, [Next]_vars, ~Claim
    PROVE  \/ receipt'.ops = receipt.ops
           \/ receipt' = SetPending
           \/ op' = op /\ \E st \in OpStates, b \in {0, pos, pos'} : receipt' = SetOp(op, st, b)
  <1> USE DEF Record, Err
  <1>0. receipt \in Receipts
    BY DEF TypeInv, TypeOK
  <1>1. CASE Preflight
    BY <1>1 DEF Preflight
  <1>2. CASE BeginOp \/ Seek \/ WriteChunk
    BY <1>2 DEF BeginOp, Seek, WriteChunk, writerVars, OpStates
  <1>3. CASE PartialWrite \/ WriteOutcome \/ VerifyWritten
    BY <1>3 DEF PartialWrite, WriteOutcome, VerifyWritten, writerVars, OpStates
  <1>4. CASE PersistFails
    BY <1>4 DEF PersistFails, PersistError, writerVars, OpStates
  <1>5. CASE AuthorizeDestructive \/ NextOp \/ FlushAll \/ Eject \/ Error
    BY <1>0, <1>5, UpdatedOps DEF AuthorizeDestructive, NextOp, FlushAll, Eject, Error
  <1>6. CASE \/ New \/ EvidenceCreate \/ JournalCreate \/ Drop \/ PersistOk \/ FlushOp
             \/ Recheck \/ PublishReceipt \/ PublishComplete \/ Crash \/ AlterSource
             \/ SilentDamage \/ UNCHANGED vars
    BY <1>6 DEF New, EvidenceCreate, JournalCreate, Drop, PersistOk, FlushOp, Recheck,
                PublishReceipt, PublishComplete, Crash, AlterSource, SilentDamage, vars
  <1>7. QED
    BY <1>1, <1>2, <1>3, <1>4, <1>5, <1>6 DEF Next, Step, Finished

LEMMA ReceiptBehind ==
    ASSUME TypeInv, OpsInv, Behind(receipt), [Next]_vars, ~Claim
    PROVE  Behind(receipt)'
  <1>0. /\ receipt \in Receipts /\ receipt' \in Receipts /\ op \in Ops
        /\ pos \in 0..NChunks /\ pos' \in 0..NChunks /\ NChunks \in Nat /\ Ops \subseteq Int
    BY TypeInvNext, SizeAssumption DEF TypeInv, TypeOK, Ops
  <1>1. \A o \in Ops : receipt.ops[o].bytes \in Int
    BY <1>0 DEF Receipts, OpReceipts
  <1>2. SUFFICES ASSUME NEW o \in Ops PROVE receipt'.ops[o].bytes <= Streamed(o)'
    BY DEF Behind
  <1>3. /\ Streamed(o) \in Int /\ Streamed(o)' \in Int /\ Streamed(o) <= Streamed(o)'
        /\ receipt.ops[o].bytes <= Streamed(o) /\ receipt.ops[o].bytes \in Int
    BY <1>1, StreamedGrows DEF Behind
  <1>4. 0 <= Streamed(o)'
    BY <1>0, TypeInvNext DEF Streamed
  <1>5. CASE receipt'.ops = receipt.ops
    BY <1>3, <1>5
  <1>6. CASE receipt' = SetPending
    BY <1>0, <1>4, <1>6, UpdatedOps
  <1>7. ASSUME op' = op, NEW st, NEW b \in {0, pos, pos'}, receipt' = SetOp(op, st, b)
        PROVE  receipt'.ops[o].bytes <= Streamed(o)'
    <2>1. CASE o = op
      <3>1. receipt'.ops[o].bytes = b
        BY <1>0, <1>7, <2>1 DEF SetOp, Receipts
      <3>2. Streamed(o)' = pos' /\ b <= pos'
        BY <1>0, <1>7, <2>1, CursorStep DEF Streamed
      <3>3. QED
        BY <3>1, <3>2
    <2>2. CASE o # op
      <3>1. receipt'.ops[o] = receipt.ops[o]
        BY <1>0, <1>7, <2>2 DEF SetOp, Receipts
      <3>2. QED
        BY <1>3, <3>1
    <2>3. QED
      BY <2>1, <2>2
  <1>8. QED
    BY <1>5, <1>6, <1>7, ReceiptStep

(* The journal in use is new and empty, or what it was and at most one line. *)
LEMMA JournalStep ==
    ASSUME TypeInv, EvidenceInv, [Next]_vars, dir' \in Dirs
    PROVE  \/ pc = "reserve" /\ evid'[dir'].lines = <<>>
           \/ /\ dir' = dir /\ dir \in Dirs
              /\ \/ evid'[dir].lines = evid[dir].lines
                 \/ evid'[dir].lines = Append(evid[dir].lines, TornLine)
                 \/ evid'[dir].lines = Append(evid[dir].lines, receipt)
  <1>0. evid \in [Dirs -> Evidence] /\ NoDir \notin Dirs
    BY PlanAssumption DEF TypeInv, TypeOK
  <1>1. CASE Claim
    BY <1>0, <1>1 DEF Claim
  <1>2. CASE EvidenceCreate
    <2>1. dir = NoDir /\ pc = "reserve"
      BY <1>2 DEF EvidenceCreate, TypeInv, Control
    <2>2. PICK d \in Dirs : ~evid[d].made /\ evid' = Reserved(d) /\ dir' = d
      BY <1>0, <1>2, <2>1 DEF EvidenceCreate, Reservable
    <2>3. QED
      BY <1>0, <2>1, <2>2, EvidenceFacts DEF EvidenceInv
  <1>3. CASE PersistOk \/ PersistFails \/ PublishReceipt \/ PublishComplete \/ Crash
    <2>1. dir' = dir
      BY <1>3 DEF PersistOk, PersistFails, PublishReceipt, PublishComplete, Crash, runVars
    <2>2. \/ evid' = evid
          \/ evid' = Appended(TornLine)
          \/ evid' = Appended(receipt)
          \/ evid' = ReceiptLinked
          \/ evid' = MarkerLinked
      BY <1>3 DEF PersistOk, PersistFails, AppendFails, PublishReceipt,
                  PublishComplete, Crash
    <2>3. QED
      BY <1>0, <2>1, <2>2, EvidenceFacts
  <1>4. ASSUME \/ New \/ JournalCreate \/ Drop \/ Preflight \/ BeginOp \/ Seek
               \/ AuthorizeDestructive \/ WriteChunk \/ PartialWrite \/ WriteOutcome
               \/ FlushOp \/ VerifyWritten \/ NextOp \/ Recheck \/ FlushAll \/ Eject
               \/ Error \/ AlterSource \/ SilentDamage \/ UNCHANGED vars
        PROVE  dir' = dir /\ evid' = evid
    BY <1>4, EvidenceUnchanged
  <1>5. QED
    BY <1>1, <1>2, <1>3, <1>4 DEF Next, Step, Finished

(* No line is lost, and what is new is a torn line or the receipt. *)
LEMMA LinesStay ==
    ASSUME TypeInv, EvidenceInv, [Next]_vars, dir' \in Dirs, pc # "reserve"
    PROVE  /\ dir' = dir /\ dir \in Dirs
           /\ \A i \in DOMAIN evid[dir].lines :
                i \in DOMAIN evid'[dir].lines /\ evid'[dir].lines[i] = evid[dir].lines[i]
           /\ \A i \in DOMAIN evid'[dir].lines :
                \/ i \in DOMAIN evid[dir].lines /\ evid'[dir].lines[i] = evid[dir].lines[i]
                \/ evid'[dir].lines[i] \in {TornLine, receipt}
  <1>1. dir' = dir /\ dir \in Dirs
    BY JournalStep
  <1>2. evid[dir].lines \in Seq(Receipts) /\ receipt \in Receipts /\ TornLine \in Receipts
    BY <1>1, ReceiptTypes DEF TypeInv, TypeOK, Evidence
  <1>3. CASE evid'[dir].lines = evid[dir].lines
    BY <1>1, <1>3
  <1>4. ASSUME NEW e \in {TornLine, receipt}, evid'[dir].lines = Append(evid[dir].lines, e)
        PROVE  /\ \A i \in DOMAIN evid[dir].lines :
                    i \in DOMAIN evid'[dir].lines /\ evid'[dir].lines[i] = evid[dir].lines[i]
               /\ \A i \in DOMAIN evid'[dir].lines :
                    \/ i \in DOMAIN evid[dir].lines /\ evid'[dir].lines[i] = evid[dir].lines[i]
                    \/ evid'[dir].lines[i] \in {TornLine, receipt}
    <2> DEFINE s == evid[dir].lines
    <2>1. s \in Seq(Receipts) /\ e \in Receipts
      BY <1>2
    <2>2. /\ DOMAIN s = 1..Len(s) /\ DOMAIN Append(s, e) = 1..(Len(s) + 1) /\ Len(s) \in Nat
          /\ \A i \in 1..Len(s) : Append(s, e)[i] = s[i]
          /\ Append(s, e)[Len(s) + 1] = e
      BY <2>1
    <2> HIDE DEF s
    <2>3. QED
      BY <1>4, <2>2 DEF s
  <1>5. QED
    BY <1>1, <1>3, <1>4, JournalStep

LEMMA JournalBehindNext ==
    ASSUME TypeInv, OpsInv, EvidenceInv, JournalBehind, [Next]_vars
    PROVE  JournalBehind'
  <1>1. CASE Claim
    <2>1. dir' \notin Dirs /\ receipt' = NewReceipt /\ op' = 1 /\ pos' = 0
      BY <1>1, PlanAssumption DEF Claim
    <2>2. Behind(receipt)'
      BY <2>1, SizeAssumption DEF Behind, Streamed, NewReceipt, Blank, NoOps
    <2>3. QED
      BY <2>1, <2>2 DEF JournalBehind
  <1>2. CASE ~Claim
    <2>1. Behind(receipt)'
      BY <1>2, ReceiptBehind DEF JournalBehind
    <2>2. ASSUME NEW r \in Receipts, Behind(r) PROVE \A o \in Ops : r.ops[o].bytes <= Streamed(o)'
      <3>1. \A o \in Ops : r.ops[o].bytes \in Int
        BY SizeAssumption DEF Receipts, OpReceipts
      <3>2. QED
        BY <1>2, <2>2, <3>1, StreamedGrows DEF Behind
    <2>3. ASSUME dir' \in Dirs, NEW i \in DOMAIN evid'[dir'].lines
          PROVE  \A o \in Ops : evid'[dir'].lines[i].ops[o].bytes <= Streamed(o)'
      <3>1. CASE pc = "reserve"
        <4>1. dir = NoDir
          BY <3>1 DEF TypeInv, Control
        <4>2. evid'[dir'].lines = <<>>
          BY <2>3, <4>1, JournalStep, PlanAssumption
        <4>3. QED
          BY <2>3, <4>2
      <3>2. CASE pc # "reserve"
        <4>1. /\ dir' = dir /\ dir \in Dirs
              /\ \/ i \in DOMAIN evid[dir].lines /\ evid'[dir].lines[i] = evid[dir].lines[i]
                 \/ evid'[dir].lines[i] \in {TornLine, receipt}
          BY <2>3, <3>2, LinesStay
        <4>2. /\ receipt \in Receipts /\ TornLine \in Receipts
              /\ evid[dir].lines \in Seq(Receipts)
          BY <4>1, ReceiptTypes DEF TypeInv, TypeOK, Evidence
        <4>3. Behind(TornLine)
          BY SizeAssumption DEF Behind, Streamed, TornLine, Blank, NoOps, TypeInv, TypeOK
        <4>4. evid'[dir'].lines[i] \in Receipts /\ Behind(evid'[dir'].lines[i])
          BY <4>1, <4>2, <4>3 DEF JournalBehind
        <4>5. QED
          BY <4>4, <2>2
      <3>3. QED
        BY <3>1, <3>2
    <2>4. QED
      BY <2>1, <2>3 DEF JournalBehind, Behind
  <1>3. QED
    BY <1>1, <1>2

LEMMA CursorInvNext ==
    ASSUME TypeInv, OpsInv, CursorInv, [Next]_vars
    PROVE  CursorInv'
  <1> USE DEF CursorInv, Untouched, InLoop, At
  <1>0. /\ receipt \in Receipts /\ op \in Ops /\ op \in Int /\ pos \in 0..NChunks
        /\ touched \subseteq Int
        /\ pc = "persist" =>
             cont \in {"preflight", "authorize", "begin", "seek", "write", "flush",
                       "next", "recheck", "eject", "error", "receipt"}
    BY DEF TypeInv, TypeOK, Control, Ops
  <1>1. CASE Claim
    BY <1>1 DEF Claim
  <1>2. CASE New \/ EvidenceCreate \/ JournalCreate \/ Drop
    BY <1>2 DEF New, EvidenceCreate, JournalCreate, Drop, writerVars, mediaVars
  <1>3. CASE PersistOk
    BY <1>0, <1>3 DEF PersistOk, writerVars, mediaVars
  <1>4. CASE PersistFails
    <2>1. /\ UNCHANGED <<op, pos, touched>>
          /\ pc' \in {"persist", "receipt", "error"} /\ (pc' = "persist" => cont' = "error")
      BY <1>4 DEF PersistFails, PersistError, Record, Err, writerVars, mediaVars
    <2>2. QED
      BY <1>0, <2>1
  <1>5. CASE Preflight \/ AuthorizeDestructive
    <2>1. /\ UNCHANGED <<op, pos, touched>>
          /\ \/ pc' = "error"
             \/ pc = "preflight" /\ pc' = "persist" /\ cont' = "authorize"
             \/ pc = "authorize" /\ pc' = "persist" /\ cont' = "begin"
                /\ receipt' = SetState("WriteInProgress")
      BY <1>5 DEF Preflight, AuthorizeDestructive, Record, Err, writerVars, mediaVars
    <2>2. QED
      BY <1>0, <2>1, UpdatesKeepDisposition
  <1>6. CASE BeginOp
    <2>1. /\ UNCHANGED <<op, pos, touched>> /\ pc = "begin" /\ pos = 0
          /\ \/ pc' = "error"
             \/ pc' = "persist" /\ cont' = "seek" /\ receipt' = SetOp(op, "Writing", 0)
      BY <1>6 DEF BeginOp, Record, Err, writerVars, mediaVars, OpsInv
    <2>2. receipt' = SetOp(op, "Writing", 0) =>
            receipt'.ops[op].bytes = 0 /\ receipt'.state = receipt.state
      BY <1>0 DEF SetOp, Receipts
    <2>3. QED
      BY <1>0, <2>1, <2>2
  <1>7. CASE Seek
    BY <1>0, <1>7 DEF Seek, Record, writerVars, mediaVars
  <1>8. CASE WriteChunk
    <2>1. /\ op' = op /\ pos' = pos + 1 /\ touched' = touched \cup {op} /\ pc = "write"
          /\ \/ pc' = "write" /\ receipt' = receipt
             \/ pc' = "persist" /\ cont' = "write" /\ receipt' = SetOp(op, "Writing", pos')
      BY <1>8 DEF WriteChunk, Record
    <2>2. receipt' = SetOp(op, "Writing", pos') =>
            receipt'.ops[op].bytes = pos' /\ receipt'.state = receipt.state
      BY <1>0 DEF SetOp, Receipts
    <2>3. QED
      BY <1>0, <2>1, <2>2
  <1>9. CASE PartialWrite
    <2>1. /\ op' = op /\ pos' = pos /\ touched' \subseteq touched \cup {op}
          /\ pc' = "persist" /\ cont' = "error"
      BY <1>9 DEF PartialWrite, Record, writerVars
    <2>2. QED
      BY <1>0, <2>1
  <1>10. CASE WriteOutcome \/ VerifyWritten
    <2>1. /\ UNCHANGED <<op, pos, touched>> /\ pc \in {"write", "verify"}
          /\ \/ pc' = "error"
             \/ /\ pc' = "persist" /\ cont' \in {"flush", "next", "error"}
                /\ \E st, b : receipt' = SetOp(op, st, b)
      BY <1>10 DEF WriteOutcome, VerifyWritten, Record, Err, writerVars, mediaVars
    <2>2. \A st, b : SetOp(op, st, b).state = receipt.state
      BY <1>0, UpdatesKeepDisposition
    <2>3. QED
      BY <1>0, <2>1, <2>2
  <1>11. CASE FlushOp
    BY <1>0, <1>11 DEF FlushOp, Err, writerVars, mediaVars
  <1>12. CASE NextOp
    <2>1. /\ touched' = touched /\ pc = "next"
          /\ \/ op' = op + 1 /\ pos' = 0 /\ pc' = "begin" /\ receipt' = receipt
             \/ UNCHANGED <<op, pos>> /\ pc' = "persist" /\ cont' = "recheck"
      BY <1>12 DEF NextOp, Record, mediaVars
    <2>2. \A o \in touched : o <= op + 1 /\ o # op + 1
      BY <1>0
    <2>3. QED
      BY <1>0, <2>1, <2>2
  <1>13. CASE Recheck \/ FlushAll \/ Eject \/ Error
    <2>1. /\ UNCHANGED <<op, pos, touched>>
          /\ \/ pc' \in {"flushAll", "error"}
             \/ pc' = "persist" /\ cont' \in {"eject", "receipt"}
      BY <1>13 DEF Recheck, FlushAll, Eject, Error, Record, Err, writerVars, mediaVars
    <2>2. QED
      BY <1>0, <2>1
  <1>14. CASE PublishReceipt \/ PublishComplete \/ Crash
    BY <1>0, <1>14 DEF PublishReceipt, PublishComplete, Crash, writerVars, mediaVars
  <1>15. CASE AlterSource \/ SilentDamage \/ UNCHANGED vars
    BY <1>0, <1>15 DEF AlterSource, SilentDamage, vars, writerVars, mediaVars
  <1>16. QED
    BY <1>1, <1>2, <1>3, <1>4, <1>5, <1>6, <1>7, <1>8, <1>9, <1>10, <1>11, <1>12,
       <1>13, <1>14, <1>15 DEF Next, Step, Finished

LEMMA SaidBeforeNext ==
    ASSUME TypeInv, OpsInv, EvidenceInv, CursorInv, SaidBefore, [Next]_vars
    PROVE  SaidBefore'
  <1>0. /\ pos \in 0..NChunks /\ ProgressChunks \in Nat \ {0} /\ receipt \in Receipts
        /\ evid \in [Dirs -> Evidence] /\ op \in Ops
    BY SizeAssumption DEF TypeInv, TypeOK
  <1>1. CASE PersistOk
    <2>1. /\ pc = "persist" /\ pc' = cont /\ evid' = Appended(receipt)
          /\ UNCHANGED <<op, pos, receipt, dir>> /\ dir \in Dirs
      BY <1>1 DEF PersistOk, writerVars, runVars, TypeInv, Control
    <2>2. SUFFICES ASSUME cont \in {"seek", "write"} PROVE SaidBefore'
      BY <2>1 DEF SaidBefore
    <2>3. receipt.ops[op].bytes = pos /\ Names(receipt, op)
      BY <2>1, <2>2 DEF CursorInv, InLoop, At, OpsInv, Status, Names
    <2> DEFINE s == evid[dir].lines
    <2>4. s \in Seq(Receipts)
      BY <1>0, <2>1 DEF Evidence
    <2>5. evid'[dir].lines = Append(s, receipt)
      BY <1>0, <2>1, EvidenceFacts
    <2>6. Len(s) + 1 \in DOMAIN Append(s, receipt) /\ Append(s, receipt)[Len(s) + 1] = receipt
      BY <1>0, <2>4
    <2> HIDE DEF s
    <2>7. \E i \in DOMAIN evid'[dir].lines : evid'[dir].lines[i] = receipt
      BY <2>5, <2>6
    <2>8. QED
      BY <1>0, <2>1, <2>3, <2>7 DEF SaidBefore, Names
  <1>2. ASSUME pc \in {"seek", "write"}, pc' \in {"seek", "write"},
               UNCHANGED <<op, dir, evid, receipt>>,
               pos' < receipt.ops[op].bytes + ProgressChunks
        PROVE  SaidBefore'
    BY <1>2 DEF SaidBefore, Names
  <1>3. CASE Seek
    BY <1>2, <1>3 DEF Seek, Record, SaidBefore, writerVars, runVars
  <1>4. CASE WriteChunk
    <2>1. /\ pos' = pos + 1 /\ pc = "write" /\ UNCHANGED <<op, dir, evid>>
          /\ \/ pc' = "persist"
             \/ ~ProgressDue(pos') /\ pc' = pc /\ receipt' = receipt
      BY <1>4 DEF WriteChunk, Record, runVars
    <2>2. CASE pc' = "persist"
      BY <2>2 DEF SaidBefore
    <2>3. CASE ~ProgressDue(pos') /\ pc' = pc /\ receipt' = receipt
      <3>1. receipt.ops[op].bytes \in Int
        BY <1>0, SizeAssumption DEF Receipts, OpReceipts
      <3>2. pos' < receipt.ops[op].bytes + ProgressChunks
        BY <1>0, <2>1, <2>3, <3>1 DEF ProgressDue
      <3>3. QED
        BY <1>2, <2>1, <2>3, <3>2
    <2>4. QED
      BY <2>1, <2>2, <2>3
  <1>5. CASE AlterSource \/ SilentDamage \/ UNCHANGED vars
    <2>1. UNCHANGED <<pc, op, pos, dir, evid, receipt>>
      BY <1>5 DEF AlterSource, SilentDamage, vars, writerVars, runVars
    <2>2. QED
      BY <2>1 DEF SaidBefore, Names
  <1>6. ASSUME ~PersistOk, ~Seek, ~WriteChunk, ~AlterSource, ~SilentDamage, ~(UNCHANGED vars)
        PROVE  pc' \notin {"seek", "write"}
    BY <1>6 DEF Next, Step, Finished, Claim, New, EvidenceCreate, JournalCreate, Drop,
       PersistFails, PersistError, Preflight, AuthorizeDestructive, BeginOp, PartialWrite,
       WriteOutcome, FlushOp, VerifyWritten, NextOp, Recheck, FlushAll, Eject, Error,
       PublishReceipt, PublishComplete, Crash, Record, Err
  <1>7. QED
    BY <1>1, <1>3, <1>4, <1>5, <1>6 DEF SaidBefore

LEMMA TouchedIsNamedNext ==
    ASSUME TypeInv, OpsInv, EvidenceInv, CursorInv, SaidBefore, TouchedIsNamed, [Next]_vars
    PROVE  TouchedIsNamed'
  <1>0. /\ pos \in 0..NChunks /\ ProgressChunks \in Nat \ {0} /\ receipt \in Receipts
        /\ op \in Ops /\ NoDir \notin Dirs /\ touched \subseteq Ops /\ op \in Int
    BY SizeAssumption, PlanAssumption DEF TypeInv, TypeOK, Ops
  <1>1. CASE Claim
    BY <1>1 DEF Claim, TouchedIsNamed
  <1>2. CASE WriteChunk \/ PartialWrite
    <2>1. /\ UNCHANGED <<op, dir, evid>> /\ pc = "write"
          /\ touched' \subseteq touched \cup {op} /\ pos' \in {pos, pos + 1}
      BY <1>2 DEF WriteChunk, PartialWrite, runVars, writerVars
    <2>2. receipt.ops[op].bytes \in Int /\ pos + 1 <= receipt.ops[op].bytes + ProgressChunks
      BY <1>0, <2>1, SizeAssumption DEF SaidBefore, Receipts, OpReceipts
    <2>3. dir \in Dirs /\ \E i \in DOMAIN evid[dir].lines :
            /\ Names(evid[dir].lines[i], op)
            /\ evid[dir].lines[i].ops[op].bytes = receipt.ops[op].bytes
      BY <2>1 DEF SaidBefore
    <2>4. pos' <= receipt.ops[op].bytes + ProgressChunks
      BY <1>0, <2>1, <2>2
    <2>5. QED
      BY <2>1, <2>3, <2>4 DEF TouchedIsNamed, Names
  <1>3. CASE ~Claim /\ ~WriteChunk /\ ~PartialWrite
    <2>1. touched' = touched
      BY <1>3 DEF Next, Step, Finished, vars, mediaVars, New, EvidenceCreate, JournalCreate,
         Drop, PersistOk, PersistFails, Preflight, AuthorizeDestructive, BeginOp, Seek,
         WriteOutcome, FlushOp, VerifyWritten, NextOp, Recheck, FlushAll, Eject, Error,
         PublishReceipt, PublishComplete, Crash, AlterSource, SilentDamage
    <2>2. CASE touched = {}
      BY <2>1, <2>2 DEF TouchedIsNamed
    <2>3. CASE touched # {}
      <3>1. dir \in Dirs
        BY <2>3 DEF TouchedIsNamed
      <3>2. pc # "reserve"
        BY <1>0, <3>1 DEF TypeInv, Control
      <3>3. dir' = dir
        BY <1>3, <3>2 DEF Next, Step, Finished, vars, runVars, New, EvidenceCreate,
           JournalCreate, Drop, PersistOk, PersistFails, Preflight, AuthorizeDestructive,
           BeginOp, Seek, WriteOutcome, FlushOp, VerifyWritten, NextOp, Recheck, FlushAll,
           Eject, Error, PublishReceipt, PublishComplete, Crash, AlterSource, SilentDamage
      <3>4. \A i \in DOMAIN evid[dir].lines :
              i \in DOMAIN evid'[dir].lines /\ evid'[dir].lines[i] = evid[dir].lines[i]
        BY <3>1, <3>2, <3>3, LinesStay
      <3>5. \A o \in touched' : dir' \in Dirs /\
              \E i \in DOMAIN evid'[dir'].lines : Names(evid'[dir'].lines[i], o)
        BY <2>1, <3>1, <3>3, <3>4 DEF TouchedIsNamed
      <3>6. op' \in touched' => op' = op /\ pos' = pos
        BY <1>0, <1>3, <2>1, CursorStep DEF CursorInv
      <3>7. op' \in touched' => dir' \in Dirs /\ \E i \in DOMAIN evid'[dir'].lines :
              /\ Names(evid'[dir'].lines[i], op')
              /\ pos' <= evid'[dir'].lines[i].ops[op'].bytes + ProgressChunks
        BY <2>1, <3>1, <3>3, <3>4, <3>6 DEF TouchedIsNamed
      <3>8. QED
        BY <3>5, <3>7 DEF TouchedIsNamed, Names
    <2>4. QED
      BY <2>2, <2>3
  <1>4. QED
    BY <1>1, <1>2, <1>3

LEMMA ProgressInvariant == Spec => [](TypeInv /\ ProgressInv)
  <1>1. Init => TypeInv /\ OpsInv /\ EvidenceInv /\ ProgressInv
    BY TypeInvInit, OpsInvInit, EvidenceInvInit, ProgressInit
  <1>2. TypeInv /\ OpsInv /\ EvidenceInv /\ ProgressInv /\ [Next]_vars =>
          (TypeInv /\ OpsInv /\ EvidenceInv /\ ProgressInv)'
    BY TypeInvNext, OpsInvNext, EvidenceInvNext, JournalBehindNext, CursorInvNext,
       SaidBeforeNext, TouchedIsNamedNext DEF ProgressInv
  <1>3. QED
    BY <1>1, <1>2, PTL DEF Spec

(* The journal never claims bytes that did not reach the medium, and a power   *)
(* loss leaves at most one interval of the partition in hand unclaimed: for    *)
(* every interval, also one that does not divide the partition                 *)
(* (write_partition, JOURNAL_PROGRESS_BYTES).                                  *)
THEOREM ProgressIsJournaled == Spec => []JournaledProgress
  <1>1. TypeInv /\ ProgressInv => JournaledProgress
    BY PlanAssumption DEF TypeInv, TypeOK, ProgressInv, JournalBehind, Behind, Streamed,
       TouchedIsNamed, Names, JournaledProgress, Lines
  <1>2. QED
    BY <1>1, ProgressInvariant, PTL

(* A partition is not written to before a line of the journal names it, of any *)
(* number of partitions and whatever append fails (write_partition).           *)
THEOREM WritesAreAnnounced == Spec => []WriteAhead
  <1>1. TypeInv /\ ProgressInv => WriteAhead
    BY PlanAssumption DEF TypeInv, TypeOK, ProgressInv, TouchedIsNamed, Names, WriteAhead,
       Lines
  <1>2. QED
    BY <1>1, ProgressInvariant, PTL

-----------------------------------------------------------------------------
(* Journal, receipt and verdict tell one story. *)

(* The state of the receipt at each call. *)
StateInv ==
    /\ receipt.state \in ReceiptStates
    /\ receipt.safe <=> receipt.state = "Ejected"
    /\ pc \in {"validate", "reserve", "journal"} \/ At("preflight") =>
         receipt.state = "Initialized"
    /\ At("authorize") => receipt.state = "PreflightComplete"
    /\ InLoop \/ (pc = "persist" /\ cont = "error") => receipt.state = "WriteInProgress"
    /\ At("recheck") \/ At("flushAll") => receipt.state = "WriteComplete"
    /\ At("eject") => receipt.state = "VerificationComplete"
    /\ At("receipt") \/ pc = "complete" => receipt.state \in {"Ejected", "Failed"}

Ordered(s) ==
    \A i \in 1..(Len(s) - 1) :
        Rank(s[i].state) < 6 /\ Rank(s[i].state) <= Rank(s[i + 1].state)

Closed == pc \in {"receipt", "complete", "done", "crashed"}

(* A journal that can still grow ends with a line that one more may follow. *)
OrderInv ==
    dir \in Dirs =>
        /\ Ordered(evid[dir].lines)
        /\ ~poisoned /\ ~Closed /\ evid[dir].lines # <<>> =>
             LET last == evid[dir].lines[Len(evid[dir].lines)]
             IN  Rank(last.state) < 6 /\ Rank(last.state) <= Rank(receipt.state)

EndsWith(s, r) == s # <<>> /\ s[Len(s)] = r

VerdictInv ==
    /\ \A d \in Dirs : evid[d].complete => evid[d].receipt.state # "None"
    /\ result = "pass" =>
         pc = "done" /\ dir \in Dirs /\ evid[dir].receipt.safe /\ evid[dir].complete
    /\ pc = "receipt" /\ receipt.safe => EndsWith(evid[dir].lines, receipt)
    /\ pc = "complete" => evid[dir].receipt = receipt
    /\ dir \in Dirs /\ evid[dir].receipt.safe =>
         EndsWith(evid[dir].lines, evid[dir].receipt)

LEMMA RankRange == \A x : Rank(x) \in 1..7
  BY DEF Rank

LEMMA RankOrder ==
    /\ Rank("Initialized") = 1 /\ Rank("PreflightComplete") = 2
    /\ Rank("WriteInProgress") = 3 /\ Rank("WriteComplete") = 4
    /\ Rank("VerificationComplete") = 5 /\ Rank("Ejected") = 6
    /\ Rank("Failed") = 7 /\ Rank("Torn") = 7
  BY DEF Rank

LEMMA UpdatedState ==
    ASSUME receipt \in Receipts
    PROVE  /\ \A o, st, b : SetOp(o, st, b).state = receipt.state
                            /\ SetOp(o, st, b).safe = receipt.safe
           /\ \A s : SetState(s).state = s /\ (SetState(s).safe <=> s = "Ejected")
           /\ \A f, e : SetFailed(f, e).state = "Failed" /\ ~SetFailed(f, e).safe
           /\ SetPending.state = "PreflightComplete" /\ SetPending.safe = receipt.safe
  BY DEF SetOp, SetState, SetFailed, SetPending, Receipts

LEMMA StateInit == Init => StateInv
  BY DEF Init, StateInv, InLoop, At, NewReceipt, Blank, ReceiptStates

(* How the receipt changes, and where the invocation is afterwards. *)
LEMMA StateStep ==
    ASSUME TypeInv, StateInv, [Next]_vars, ~Claim
    PROVE  /\ StateInv'
           /\ Rank(receipt.state) <= Rank(receipt'.state)
  <1> USE DEF InLoop, At
  <1>0. /\ receipt \in Receipts
        /\ pc = "persist" =>
             cont \in {"preflight", "authorize", "begin", "seek", "write", "flush",
                       "next", "recheck", "eject", "error", "receipt"}
    BY DEF TypeInv, TypeOK, Control
  <1>1. ASSUME receipt' = receipt, StateInv'
        PROVE  StateInv' /\ Rank(receipt.state) <= Rank(receipt'.state)
    BY <1>1, RankRange
  <1>2. CASE PersistOk
    <2>1. receipt' = receipt /\ pc' = cont /\ pc = "persist"
      BY <1>2 DEF PersistOk
    <2>2. StateInv'
      BY <1>0, <2>1 DEF StateInv
    <2>3. QED
      BY <1>1, <2>1, <2>2
  <1>3. CASE PersistFails
    <2>1. /\ receipt'.state = receipt.state /\ receipt'.safe = receipt.safe
          /\ \/ pc' = "persist" /\ cont' = "error" /\ pc = "persist" /\ cont = "write"
             \/ pc' = "receipt" /\ receipt.state = "Failed"
             \/ pc' = "error"
      BY <1>0, <1>3, UpdatedState DEF PersistFails, PersistError, Record, Err
    <2>2. StateInv'
      BY <2>1 DEF StateInv
    <2>3. QED
      BY <2>1, <2>2, RankRange
  <1>4. CASE New \/ EvidenceCreate \/ JournalCreate \/ Drop
    <2>1. /\ receipt' = receipt
          /\ \/ pc' \in {"drop", "done"}
             \/ pc' = "reserve" /\ pc = "validate"
             \/ pc' = "journal" /\ pc = "reserve"
             \/ pc' = "persist" /\ cont' = "preflight" /\ pc = "journal"
      BY <1>4 DEF New, EvidenceCreate, JournalCreate, Drop
    <2>2. StateInv'
      BY <2>1 DEF StateInv
    <2>3. QED
      BY <1>1, <2>1, <2>2
  <1>5. CASE Preflight \/ AuthorizeDestructive
    <2>1. \/ pc' = "error" /\ receipt' = receipt
          \/ /\ pc = "preflight" /\ pc' = "persist" /\ cont' = "authorize"
             /\ receipt' = SetPending
          \/ /\ pc = "authorize" /\ pc' = "persist" /\ cont' = "begin"
             /\ receipt' = SetState("WriteInProgress")
      BY <1>5 DEF Preflight, AuthorizeDestructive, Record, Err
    <2>2. StateInv'
      BY <1>0, <2>1, UpdatedState DEF StateInv, ReceiptStates
    <2>3. QED
      BY <1>0, <2>1, <2>2, UpdatedState, RankOrder, RankRange DEF StateInv
  <1>6. CASE BeginOp \/ Seek \/ WriteChunk \/ PartialWrite \/ WriteOutcome \/ VerifyWritten
    <2>1. /\ InLoop
          /\ receipt' = receipt \/ \E o, st, b : receipt' = SetOp(o, st, b)
          /\ \/ pc' = "error"
             \/ pc' = "write"
             \/ pc' = "persist" /\ cont' \in {"seek", "write", "flush", "next", "error"}
      BY <1>6 DEF BeginOp, Seek, WriteChunk, PartialWrite, WriteOutcome, VerifyWritten,
                  Record, Err
    <2>2. receipt'.state = receipt.state /\ receipt'.safe = receipt.safe
      BY <1>0, <2>1, UpdatedState
    <2>3. StateInv'
      BY <2>1, <2>2 DEF StateInv
    <2>4. QED
      BY <2>2, <2>3, RankRange
  <1>7. CASE FlushOp \/ Recheck
    <2>1. /\ receipt' = receipt
          /\ \/ pc' = "error"
             \/ pc = "flush" /\ pc' = "verify"
             \/ pc = "recheck" /\ pc' = "flushAll"
      BY <1>7 DEF FlushOp, Recheck, Err
    <2>2. StateInv'
      BY <2>1 DEF StateInv
    <2>3. QED
      BY <1>1, <2>1, <2>2
  <1>8. CASE NextOp \/ FlushAll \/ Eject
    <2>1. \/ pc' = "error" /\ receipt' = receipt
          \/ pc = "next" /\ pc' = "begin" /\ receipt' = receipt
          \/ /\ pc = "next" /\ pc' = "persist" /\ cont' = "recheck"
             /\ receipt' = SetState("WriteComplete")
          \/ /\ pc = "flushAll" /\ pc' = "persist" /\ cont' = "eject"
             /\ receipt' = SetState("VerificationComplete")
          \/ /\ pc = "eject" /\ pc' = "persist" /\ cont' = "receipt"
             /\ receipt' = SetState("Ejected")
      BY <1>8 DEF NextOp, FlushAll, Eject, Record, Err
    <2>2. StateInv'
      BY <1>0, <2>1, UpdatedState DEF StateInv, ReceiptStates
    <2>3. QED
      BY <1>0, <2>1, <2>2, UpdatedState, RankOrder, RankRange DEF StateInv
  <1>9. CASE Error
    <2>1. /\ pc' = "persist" /\ cont' = "receipt"
          /\ receipt'.state = "Failed" /\ ~receipt'.safe
      BY <1>0, <1>9, UpdatedState DEF Error, Record
    <2>2. StateInv'
      BY <2>1 DEF StateInv, ReceiptStates
    <2>3. QED
      BY <2>1, <2>2, RankOrder, RankRange
  <1>10. CASE PublishReceipt \/ PublishComplete \/ Crash
    <2>1. /\ receipt' = receipt
          /\ pc' \in {"done", "crashed"} \/ (pc = "receipt" /\ pc' = "complete")
      BY <1>10 DEF PublishReceipt, PublishComplete, Crash
    <2>2. StateInv'
      BY <2>1 DEF StateInv
    <2>3. QED
      BY <1>1, <2>1, <2>2
  <1>11. CASE AlterSource \/ SilentDamage \/ UNCHANGED vars
    <2>1. UNCHANGED <<receipt, pc, cont>>
      BY <1>11 DEF AlterSource, SilentDamage, vars
    <2>2. StateInv'
      BY <2>1 DEF StateInv
    <2>3. QED
      BY <1>1, <2>1, <2>2
  <1>12. QED
    BY <1>2, <1>3, <1>4, <1>5, <1>6, <1>7, <1>8, <1>9, <1>10, <1>11 DEF Next, Step, Finished

LEMMA StateInvNext ==
    ASSUME TypeInv, StateInv, [Next]_vars
    PROVE  StateInv'
  <1>1. CASE Claim
    BY <1>1 DEF Claim, StateInv, InLoop, At, NewReceipt, Blank, ReceiptStates
  <1>2. QED
    BY <1>1, StateStep

(* Only an append under way adds a line; it goes on, or it is the last one. *)
LEMMA AppendStep ==
    ASSUME TypeInv, EvidenceInv, [Next]_vars, dir' \in Dirs
    PROVE  \/ pc = "reserve" /\ evid'[dir'].lines = <<>>
           \/ dir' = dir /\ dir \in Dirs /\ evid'[dir].lines = evid[dir].lines /\ ~PersistOk
           \/ /\ dir' = dir /\ dir \in Dirs /\ pc = "persist" /\ ~poisoned
              /\ \/ PersistOk /\ evid'[dir].lines = Append(evid[dir].lines, receipt)
                 \/ /\ poisoned' = TRUE \/ pc' = "crashed"
                    /\ \/ evid'[dir].lines = Append(evid[dir].lines, TornLine)
                       \/ evid'[dir].lines = Append(evid[dir].lines, receipt)
  <1>0. evid \in [Dirs -> Evidence] /\ NoDir \notin Dirs
    BY PlanAssumption DEF TypeInv, TypeOK
  <1>1. CASE Claim
    BY <1>0, <1>1 DEF Claim
  <1>2. CASE EvidenceCreate
    BY <1>0, <1>2, JournalStep DEF EvidenceCreate, TypeInv, Control
  <1>3. CASE PersistOk
    <2>1. dir' = dir /\ pc = "persist" /\ ~poisoned /\ evid' = Appended(receipt) /\ dir \in Dirs
      BY <1>3 DEF PersistOk, runVars, TypeInv, Control
    <2>2. QED
      BY <1>0, <1>3, <2>1, EvidenceFacts
  <1>4. CASE (PersistFails \/ Crash) /\ ~PersistOk
    <2>1. dir' = dir
      BY <1>4 DEF PersistFails, Crash, runVars
    <2>2. \/ evid' = evid
          \/ evid' = ReceiptLinked
          \/ evid' = MarkerLinked
          \/ /\ pc = "persist" /\ ~poisoned /\ (poisoned' = TRUE \/ pc' = "crashed")
             /\ evid' = Appended(TornLine) \/ evid' = Appended(receipt)
      BY <1>4 DEF PersistFails, AppendFails, Crash
    <2>3. QED
      BY <1>0, <1>4, <2>1, <2>2, EvidenceFacts
  <1>5. CASE (PublishReceipt \/ PublishComplete) /\ ~PersistOk
    <2>1. dir' = dir
      BY <1>5 DEF PublishReceipt, PublishComplete, runVars
    <2>2. evid' = evid \/ evid' = ReceiptLinked \/ evid' = MarkerLinked
      BY <1>5 DEF PublishReceipt, PublishComplete
    <2>3. QED
      BY <1>0, <1>5, <2>1, <2>2, EvidenceFacts
  <1>6. ASSUME \/ New \/ JournalCreate \/ Drop \/ Preflight \/ BeginOp \/ Seek
               \/ AuthorizeDestructive \/ WriteChunk \/ PartialWrite \/ WriteOutcome
               \/ FlushOp \/ VerifyWritten \/ NextOp \/ Recheck \/ FlushAll \/ Eject
               \/ Error \/ AlterSource \/ SilentDamage \/ UNCHANGED vars
        PROVE  dir' = dir /\ evid' = evid
    BY <1>6, EvidenceUnchanged
  <1>7. QED
    BY <1>1, <1>2, <1>3, <1>4, <1>5, <1>6 DEF Next, Step, Finished

LEMMA LastOfAppend ==
    ASSUME NEW s \in Seq(Receipts), NEW e \in Receipts
    PROVE  /\ Append(s, e) # <<>> /\ Append(s, e)[Len(Append(s, e))] = e
           /\ EndsWith(Append(s, e), e)
  <1>1. Len(Append(s, e)) = Len(s) + 1 /\ Append(s, e)[Len(s) + 1] = e /\ Len(s) \in Nat
    OBVIOUS
  <1>2. QED
    BY <1>1 DEF EndsWith

LEMMA OrderedAppend ==
    ASSUME NEW s \in Seq(Receipts), NEW e \in Receipts, Ordered(s),
           s # <<>> => Rank(s[Len(s)].state) < 6 /\ Rank(s[Len(s)].state) <= Rank(e.state)
    PROVE  Ordered(Append(s, e))
  <1>1. /\ Len(Append(s, e)) = Len(s) + 1 /\ Append(s, e)[Len(s) + 1] = e /\ Len(s) \in Nat
        /\ \A i \in 1..Len(s) : Append(s, e)[i] = s[i]
    OBVIOUS
  <1>2. SUFFICES ASSUME NEW i \in 1..Len(s)
                 PROVE  /\ Rank(Append(s, e)[i].state) < 6
                        /\ Rank(Append(s, e)[i].state) <= Rank(Append(s, e)[i + 1].state)
    BY <1>1 DEF Ordered
  <1>3. CASE i = Len(s)
    <2>1. s # <<>>
      BY <1>3
    <2>2. QED
      BY <1>1, <1>3, <2>1
  <1>4. CASE i # Len(s)
    <2>1. i \in 1..(Len(s) - 1) /\ i + 1 \in 1..Len(s)
      BY <1>1, <1>4
    <2>2. QED
      BY <1>1, <2>1 DEF Ordered
  <1>5. QED
    BY <1>3, <1>4

LEMMA OrderInvNext ==
    ASSUME TypeInv, EvidenceInv, StateInv, OrderInv, [Next]_vars
    PROVE  OrderInv'
  <1> SUFFICES ASSUME dir' \in Dirs PROVE OrderInv'
    BY DEF OrderInv
  <1> DEFINE s == evid[dir].lines
             t == evid'[dir'].lines
  <1>1. ~Claim
    BY PlanAssumption DEF Claim
  <1>2. receipt \in Receipts /\ receipt' \in Receipts /\ TornLine \in Receipts
    BY ReceiptTypes, TypeInvNext DEF TypeInv, TypeOK
  <1>3. Rank(receipt.state) <= Rank(receipt'.state)
    BY <1>1, StateStep
  <1>5. CASE t = <<>>
    <2>1. Ordered(t)
      BY <1>5 DEF Ordered
    <2>2. QED
      BY <1>5, <2>1 DEF OrderInv
  <1>6. ASSUME dir' = dir, dir \in Dirs, t = s, ~PersistOk
        PROVE  OrderInv'
    <2>1. Ordered(s)
      BY <1>6 DEF OrderInv
    <2>2. ASSUME ~poisoned', ~Closed', s # <<>>
          PROVE  Rank(s[Len(s)].state) < 6 /\ Rank(s[Len(s)].state) <= Rank(receipt'.state)
      <3>1. ~poisoned /\ ~Closed
        <4>1. poisoned' = poisoned \/ poisoned' = TRUE
          BY <1>1 DEF Next, Step, Finished, vars, New, EvidenceCreate, JournalCreate, Drop,
             PersistOk, PersistFails, AppendFails, Preflight, AuthorizeDestructive, BeginOp, Seek,
             WriteChunk, PartialWrite, WriteOutcome, FlushOp, VerifyWritten, NextOp, Recheck,
             FlushAll, Eject, Error, PublishReceipt, PublishComplete, Crash, AlterSource,
             SilentDamage
        <4>2. Closed => Closed'
          <5>1. CASE PublishReceipt \/ PublishComplete \/ Crash
            BY <5>1 DEF PublishReceipt, PublishComplete, Crash, Closed
          <5>2. CASE AlterSource \/ SilentDamage \/ UNCHANGED vars
            BY <5>2 DEF AlterSource, SilentDamage, vars, Closed
          <5>3. ASSUME ~PublishReceipt, ~PublishComplete, ~Crash, ~AlterSource, ~SilentDamage,
                       ~(UNCHANGED vars)
                PROVE  ~Closed
            BY <1>1, <5>3 DEF Closed, Next, Step, Finished, New, EvidenceCreate, JournalCreate,
               Drop, PersistOk, PersistFails, Preflight, AuthorizeDestructive, BeginOp, Seek,
               WriteChunk, PartialWrite, WriteOutcome, FlushOp, VerifyWritten, NextOp, Recheck,
               FlushAll, Eject, Error
          <5>4. QED
            BY <5>1, <5>2, <5>3
        <4>3. QED
          BY <2>2, <4>1, <4>2
      <3>4. Rank(s[Len(s)].state) < 6 /\ Rank(s[Len(s)].state) <= Rank(receipt.state)
        BY <1>6, <2>2, <3>1 DEF OrderInv
      <3>5. QED
        <4>1. /\ Rank(s[Len(s)].state) \in 1..7 /\ Rank(receipt.state) \in 1..7
              /\ Rank(receipt'.state) \in 1..7
          BY RankRange
        <4> HIDE DEF s
        <4>2. QED
          BY <1>3, <3>4, <4>1
    <2>3. QED
      BY <1>6, <2>1, <2>2 DEF OrderInv
  <1>7. ASSUME dir' = dir, dir \in Dirs, pc = "persist", ~poisoned,
               NEW e \in {TornLine, receipt}, t = Append(s, e)
        PROVE  Ordered(t) /\ EndsWith(t, e)
    <2>1. s \in Seq(Receipts) /\ e \in Receipts
      BY <1>2, <1>7 DEF TypeInv, TypeOK, Evidence
    <2>2. Ordered(s) /\ (s # <<>> => /\ Rank(s[Len(s)].state) < 6
                                     /\ Rank(s[Len(s)].state) <= Rank(receipt.state))
      BY <1>7 DEF OrderInv, Closed
    <2>4. Rank(TornLine.state) = 7
      BY RankOrder DEF TornLine, Blank
    <2>5. s # <<>> => Rank(s[Len(s)].state) < 6 /\ Rank(s[Len(s)].state) <= Rank(e.state)
      <3>1. Rank(s[Len(s)].state) \in 1..7 /\ e \in {TornLine, receipt}
        BY <1>7, RankRange
      <3> HIDE DEF s
      <3>2. QED
        BY <1>7, <2>2, <2>4, <3>1, RankRange
    <2> HIDE DEF s
    <2>6. QED
      BY <1>7, <2>1, <2>2, <2>5, OrderedAppend, LastOfAppend
  <1>8. ASSUME dir' = dir, dir \in Dirs, pc = "persist", ~poisoned, PersistOk,
               t = Append(s, receipt)
        PROVE  OrderInv'
    <2>1. receipt' = receipt /\ pc' = cont
      BY <1>8 DEF PersistOk
    <2>2. ~Closed' => Rank(receipt.state) < 6
      BY <1>8, <2>1, RankOrder DEF Closed, StateInv, InLoop, At, TypeInv, Control
    <2>3. Ordered(t) /\ EndsWith(t, receipt)
      BY <1>7, <1>8
    <2>4. Rank(receipt.state) \in 1..7
      BY RankRange
    <2>5. QED
      BY <1>8, <2>1, <2>2, <2>3, <2>4 DEF OrderInv, EndsWith
  <1>9. ASSUME dir' = dir, dir \in Dirs, pc = "persist", ~poisoned,
               poisoned' = TRUE \/ pc' = "crashed",
               NEW e \in {TornLine, receipt}, t = Append(s, e)
        PROVE  OrderInv'
    <2>1. Ordered(t)
      BY <1>7, <1>9
    <2>2. poisoned' \/ Closed'
      BY <1>9 DEF Closed
    <2>3. QED
      BY <2>1, <2>2 DEF OrderInv
  <1> HIDE DEF s, t
  <1>10. QED
    BY <1>5, <1>6, <1>8, <1>9, AppendStep DEF s, t

(* Only the two calls that publish, or a power loss in them, change what an *)
(* evidence directory holds beside its journal.                             *)
LEMMA PublishStep ==
    ASSUME TypeInv, EvidenceInv, [Next]_vars, NEW d \in Dirs
    PROVE  \/ /\ evid'[d].receipt = evid[d].receipt
              /\ evid'[d].complete = evid[d].complete
           \/ /\ pc = "receipt" /\ dir \in Dirs /\ d = dir /\ dir' = dir
              /\ evid'[d].receipt = receipt /\ evid'[d].complete = evid[d].complete
              /\ evid'[d].lines = evid[d].lines
           \/ /\ pc = "complete" /\ dir \in Dirs /\ d = dir /\ dir' = dir
              /\ evid'[d].receipt = evid[d].receipt
              /\ evid'[d].lines = evid[d].lines
  <1>0. evid \in [Dirs -> Evidence] /\ evid[d] \in Evidence
    BY DEF TypeInv, TypeOK
  <1>1. \A line : /\ Appended(line)[d].receipt = evid[d].receipt
                  /\ Appended(line)[d].complete = evid[d].complete
    BY <1>0 DEF Appended, Evidence
  <1>2. \A c : /\ Reserved(c)[d].receipt = evid[d].receipt
               /\ Reserved(c)[d].complete = evid[d].complete
    BY <1>0 DEF Reserved, Evidence
  <1>3. \/ evid' = evid
        \/ \E line : evid' = Appended(line)
        \/ \E c : evid' = Reserved(c)
        \/ pc = "receipt" /\ dir' = dir /\ evid' = ReceiptLinked
        \/ pc = "complete" /\ dir' = dir /\ evid' = MarkerLinked
    <2>1. CASE Claim \/ EvidenceCreate
      BY <2>1 DEF Claim, EvidenceCreate
    <2>2. CASE PersistOk \/ PersistFails
      BY <2>2 DEF PersistOk, PersistFails, AppendFails
    <2>3. CASE PublishReceipt \/ PublishComplete \/ Crash
      BY <2>3 DEF PublishReceipt, PublishComplete, Crash, runVars
    <2>4. ASSUME \/ New \/ JournalCreate \/ Drop \/ Preflight \/ BeginOp \/ Seek
                 \/ AuthorizeDestructive \/ WriteChunk \/ PartialWrite \/ WriteOutcome
                 \/ FlushOp \/ VerifyWritten \/ NextOp \/ Recheck \/ FlushAll \/ Eject
                 \/ Error \/ AlterSource \/ SilentDamage \/ UNCHANGED vars
          PROVE  evid' = evid
      BY <2>4, EvidenceUnchanged
    <2>5. QED
      BY <2>1, <2>2, <2>3, <2>4 DEF Next, Step, Finished
  <1>4. CASE pc = "receipt" /\ dir' = dir /\ evid' = ReceiptLinked
    <2>1. dir \in Dirs
      BY <1>4 DEF TypeInv, Control
    <2>2. QED
      BY <1>0, <1>4, <2>1 DEF ReceiptLinked, Evidence
  <1>5. CASE pc = "complete" /\ dir' = dir /\ evid' = MarkerLinked
    <2>1. dir \in Dirs
      BY <1>5 DEF TypeInv, Control
    <2>2. QED
      BY <1>0, <1>5, <2>1 DEF MarkerLinked, Evidence
  <1>6. QED
    BY <1>1, <1>2, <1>3, <1>4, <1>5

LEMMA VerdictInit == Init => VerdictInv
  BY PlanAssumption DEF Init, VerdictInv, NoEvidence

LEMMA VerdictInvNext ==
    ASSUME TypeInv, EvidenceInv, UnpublishedInv, StateInv, VerdictInv, [Next]_vars
    PROVE  VerdictInv'
  <1>0. /\ evid \in [Dirs -> Evidence] /\ NoDir \notin Dirs
        /\ receipt.state \in ReceiptStates /\ receipt \in Receipts
    BY PlanAssumption DEF TypeInv, TypeOK, StateInv
  <1>1. \A d \in Dirs : evid'[d].complete => evid'[d].receipt.state # "None"
    <2> SUFFICES ASSUME NEW d \in Dirs, evid'[d].complete PROVE evid'[d].receipt.state # "None"
      OBVIOUS
    <2>1. receipt.state # "None"
      BY <1>0 DEF ReceiptStates
    <2>2. pc = "complete" => evid[dir].receipt = receipt
      BY DEF VerdictInv
    <2>3. evid[d].complete => evid[d].receipt.state # "None"
      BY DEF VerdictInv
    <2>4. QED
      BY <2>1, <2>2, <2>3, PublishStep
  <1>2. pc' = "complete" => evid'[dir'].receipt = receipt'
    <2>1. CASE PublishReceipt
      <3>1. dir \in Dirs
        BY <2>1 DEF PublishReceipt, TypeInv, Control
      <3>2. QED
        BY <1>0, <2>1, <3>1, EvidenceFacts DEF PublishReceipt
    <2>2. CASE AlterSource \/ SilentDamage \/ UNCHANGED vars
      BY <2>2 DEF AlterSource, SilentDamage, vars, runVars, VerdictInv
    <2>3. CASE PersistOk \/ PersistFails
      BY <2>3 DEF PersistOk, PersistFails, PersistError, Record, Err, TypeInv, Control
    <2>4. ASSUME ~PublishReceipt, ~AlterSource, ~SilentDamage, ~(UNCHANGED vars),
                 ~PersistOk, ~PersistFails
          PROVE  pc' # "complete"
      BY <2>4 DEF Next, Step, Finished, Claim, New, EvidenceCreate, JournalCreate, Drop,
         Preflight, AuthorizeDestructive, BeginOp, Seek, WriteChunk, PartialWrite,
         WriteOutcome, FlushOp, VerifyWritten, NextOp, Recheck, FlushAll, Eject, Error,
         PublishComplete, Crash, Record, Err
    <2>5. QED
      BY <2>1, <2>2, <2>3, <2>4
  <1>3. pc' = "receipt" /\ receipt'.safe => EndsWith(evid'[dir'].lines, receipt')
    <2>1. CASE PersistOk
      <3>1. dir \in Dirs /\ dir' = dir /\ evid' = Appended(receipt) /\ receipt' = receipt
        BY <2>1 DEF PersistOk, TypeInv, Control, runVars
      <3>2. evid'[dir].lines = Append(evid[dir].lines, receipt) /\ evid[dir].lines \in Seq(Receipts)
        BY <1>0, <3>1, EvidenceFacts DEF Evidence
      <3>3. QED
        BY <1>0, <3>1, <3>2, LastOfAppend
    <2>2. CASE PersistFails
      <3>1. pc' = "receipt" => receipt' = receipt /\ receipt.state = "Failed"
        BY <2>2 DEF PersistFails, PersistError, Record, Err
      <3>2. receipt.state = "Failed" => ~receipt.safe
        BY DEF StateInv
      <3>3. QED
        BY <3>1, <3>2
    <2>3. CASE AlterSource \/ SilentDamage \/ UNCHANGED vars
      BY <2>3 DEF AlterSource, SilentDamage, vars, runVars, VerdictInv, EndsWith
    <2>4. ASSUME ~AlterSource, ~SilentDamage, ~(UNCHANGED vars), ~PersistOk, ~PersistFails
          PROVE  pc' # "receipt"
      BY <2>4 DEF Next, Step, Finished, Claim, New, EvidenceCreate, JournalCreate, Drop,
         Preflight, AuthorizeDestructive, BeginOp, Seek, WriteChunk, PartialWrite,
         WriteOutcome, FlushOp, VerifyWritten, NextOp, Recheck, FlushAll, Eject, Error,
         PublishReceipt, PublishComplete, Crash, Record, Err
    <2>5. QED
      BY <2>1, <2>2, <2>3, <2>4
  <1>4. dir' \in Dirs /\ evid'[dir'].receipt.safe =>
          EndsWith(evid'[dir'].lines, evid'[dir'].receipt)
    <2> SUFFICES ASSUME dir' \in Dirs, evid'[dir'].receipt.safe
                 PROVE  EndsWith(evid'[dir'].lines, evid'[dir'].receipt)
      OBVIOUS
    <2>1. ~NoReceipt.safe
      BY DEF NoReceipt, Blank
    <2>2. dir' = dir /\ dir \in Dirs
      BY <2>1, PublishedNext
    <2>3. CASE evid'[dir].receipt = evid[dir].receipt
      <3>1. evid[dir].receipt # NoReceipt
        BY <2>1, <2>2, <2>3
      <3>2. pc \in {"complete", "done", "crashed"}
        BY <2>2, <3>1 DEF UnpublishedInv
      <3>3. evid'[dir].lines = evid[dir].lines
        BY <2>2, <3>2, AppendStep
      <3>4. QED
        BY <2>2, <2>3, <3>3 DEF VerdictInv
    <2>4. CASE evid'[dir].receipt # evid[dir].receipt
      <3>1. pc = "receipt" /\ evid'[dir].receipt = receipt /\ evid'[dir].lines = evid[dir].lines
        BY <2>2, <2>4, PublishStep
      <3>2. QED
        BY <2>2, <3>1 DEF VerdictInv
    <2>5. QED
      BY <2>3, <2>4
  <1>5. result' = "pass" =>
          pc' = "done" /\ dir' \in Dirs /\ evid'[dir'].receipt.safe /\ evid'[dir'].complete
    <2> SUFFICES ASSUME result' = "pass"
                 PROVE  /\ pc' = "done" /\ dir' \in Dirs
                        /\ evid'[dir'].receipt.safe /\ evid'[dir'].complete
      OBVIOUS
    <2>1. CASE result = "pass"
      <3>1. pc = "done"
        BY <2>1 DEF VerdictInv
      <3>2. UNCHANGED vars
        BY <3>1, PlanAssumption DEF Next, Step, Finished, Claim, New, EvidenceCreate,
           JournalCreate, Drop, PersistOk, PersistFails, Preflight, AuthorizeDestructive, BeginOp,
           Seek, WriteChunk, PartialWrite, WriteOutcome, FlushOp, VerifyWritten, NextOp, Recheck,
           FlushAll, Eject, Error, PublishReceipt, PublishComplete, Crash, AlterSource,
           SilentDamage
      <3>3. QED
        BY <2>1, <3>2 DEF vars, runVars, VerdictInv
    <2>2. CASE result # "pass"
      <3>1. PublishComplete
        BY <2>2 DEF Next, Step, Finished, vars, runVars, Claim, New, EvidenceCreate,
           JournalCreate, Drop, PersistOk, PersistFails, Preflight, AuthorizeDestructive, BeginOp,
           Seek, WriteChunk, PartialWrite, WriteOutcome, FlushOp, VerifyWritten, NextOp, Recheck,
           FlushAll, Eject, Error, PublishReceipt, Crash, AlterSource, SilentDamage
      <3>2. /\ pc = "complete" /\ pc' = "done" /\ dir' = dir /\ evid' = MarkerLinked
            /\ Verdict = "pass"
        BY <3>1 DEF PublishComplete
      <3>3. dir \in Dirs /\ receipt.safe /\ evid[dir].receipt = receipt
        BY <3>2 DEF TypeInv, Control, Verdict, StateInv, VerdictInv
      <3>4. evid'[dir].complete /\ evid'[dir].receipt = evid[dir].receipt
        BY <1>0, <3>2, <3>3 DEF MarkerLinked, Evidence
      <3>5. QED
        BY <3>2, <3>3, <3>4
    <2>3. QED
      BY <2>1, <2>2
  <1>6. QED
    BY <1>1, <1>2, <1>3, <1>4, <1>5 DEF VerdictInv

LEMMA StoryInvariant == Spec => [](TypeInv /\ OrderInv /\ VerdictInv)
  <1> DEFINE Inv == /\ TypeInv /\ EvidenceInv /\ UnpublishedInv
                    /\ StateInv /\ OrderInv /\ VerdictInv
  <1>1. Init => Inv
    BY TypeInvInit, EvidenceInvInit, StateInit, VerdictInit, PlanAssumption
    DEF Init, UnpublishedInv, OrderInv
  <1>2. Inv /\ [Next]_vars => Inv'
    BY TypeInvNext, EvidenceInvNext, UnpublishedNext, StateInvNext, OrderInvNext,
       VerdictInvNext
  <1>3. Inv => TypeInv /\ OrderInv /\ VerdictInv
    OBVIOUS
  <1> HIDE DEF Inv
  <1>4. QED
    BY <1>1, <1>2, <1>3, PTL DEF Spec

(* Whatever append fails or is cut short, the lines of a journal are in the   *)
(* order of the transaction, a torn one is the last, and nothing follows one  *)
(* that says safe or Failed (AppendOnlyJournal, execute_with_journal).        *)
THEOREM JournalStaysReadable == Spec => []JournalReadable
  <1>1. TypeInv /\ OrderInv => JournalReadable
    <2> SUFFICES ASSUME TypeInv, OrderInv PROVE JournalReadable
      OBVIOUS
    <2>1. CASE dir = NoDir
      BY <2>1 DEF JournalReadable, Lines
    <2>2. CASE dir \in Dirs
      BY <2>2, PlanAssumption DEF OrderInv, Ordered, JournalReadable, Lines
    <2>3. QED
      BY <2>1, <2>2 DEF TypeInv, TypeOK
  <1>2. QED
    BY <1>1, StoryInvariant, PTL

(* The verdict pass has its safe receipt and its marker, a marker has its     *)
(* receipt, and a safe receipt is the last line of its journal: in any number *)
(* of invocations and at every moment of them (execute_with_journal,          *)
(* publish_no_replace).                                                       *)
THEOREM VerdictsHaveEvidence == Spec => []VerdictHasEvidence
  <1>1. TypeInv /\ VerdictInv => VerdictHasEvidence
    <2> SUFFICES ASSUME TypeInv, VerdictInv PROVE VerdictHasEvidence
      OBVIOUS
    <2>1. dir \in Dirs \/ dir = NoDir
      BY DEF TypeInv, TypeOK
    <2>2. ~NoReceipt.safe
      BY DEF NoReceipt, Blank
    <2>3. QED
      BY <2>1, <2>2, PlanAssumption
      DEF VerdictInv, VerdictHasEvidence, Lines, Published, EndsWith
  <1>2. QED
    BY <1>1, StoryInvariant, PTL

(* The evidence on the host is true of the card at every moment of any number *)
(* of invocations: all four parts of EvidenceTells hold of every plan, chunk  *)
(* count, progress interval and fault bound (transaction.rs, journal.rs).     *)
THEOREM EvidenceIsTrue == Spec => []EvidenceTells
  <1>1. TypeInv /\ WriteAhead /\ JournalReadable /\ VerdictHasEvidence => EvidenceTells
    BY DEF TypeInv, EvidenceTells
  <1>2. QED
    BY <1>1, TypeCorrect, WritesAreAnnounced, JournalStaysReadable, VerdictsHaveEvidence, PTL
=============================================================================
