-------------------------- MODULE CardTransaction --------------------------
(***************************************************************************)
(* The write transaction of the card toolchain (r46h-card-core driven by   *)
(* `r46h-card simulate`): claim the medium, reserve an evidence directory, *)
(* create the append-only journal, check sources and baselines, write      *)
(* every partition of the plan, read it back, re-check what must not have  *)
(* changed, eject, and only then call the card safe to boot.               *)
(*                                                                         *)
(* Every persisted journal line is a step of its own, so that the model    *)
(* sees a failed append, a failed sync, a power loss between the two and   *)
(* a power loss between any two calls.  An invocation that ended or was    *)
(* killed may be followed by another one on the same medium.               *)
(***************************************************************************)
EXTENDS Integers, Sequences, FiniteSets

CONSTANTS
    NOps,            \* write operations of the plan, one partition each
    NChunks,         \* buffers write_partition copies per partition
    ProgressChunks,  \* JOURNAL_PROGRESS_BYTES, counted in buffers
    Mode,            \* WritePlan.verification
    Interior,        \* interior sample positions of the balanced mode
    Disposable,      \* operations whose target_before is Disposable
    Attested,        \* the prefix and the plan's unchanged ranges
    Dirs,            \* paths an operator may pass as --evidence-dir
    NoDir,           \* no evidence directory reserved yet
    MaxRuns,         \* bound: invocations of the tool
    MaxFaults        \* bound: silent device faults

Ops == 1..NOps
Chunks == 1..NChunks

ASSUME SizeAssumption ==
    /\ NOps \in Nat \ {0}
    /\ NChunks \in Nat \ {0}
    /\ ProgressChunks \in Nat \ {0}
    /\ MaxRuns \in Nat
    /\ MaxFaults \in Nat

ASSUME PlanAssumption ==
    /\ Mode \in {"Quick", "Balanced", "Full"}
    /\ Interior \subseteq Chunks
    /\ Disposable \subseteq Ops
    /\ NoDir \notin Dirs

VARIABLES
    pc,         \* the next call of the invocation
    cont,       \* where a successful journal append continues
    dir,        \* the evidence directory this invocation reserved
    op,         \* the operation being executed
    pos,        \* buffers of it that reached the medium
    streamOk,   \* the bytes streamed so far are those of the declared digest
    authorized, \* the backend issued the destructive capability
    receipt,    \* Transaction.receipt, the in-memory snapshot
    poisoned,   \* AppendOnlyJournal.poisoned
    evid,       \* what each evidence directory holds
    media,      \* partition contents as the claimed handle reads them
    disk,       \* partition contents that survive a power loss
    rest,       \* for every attested range: does it still have its digest?
    src,        \* source files: the declared bytes, or altered ones
    card,       \* the claim on the medium
    result,     \* what the invocation reported
    runs,       \* invocations started
    faults,     \* silent faults so far
    touched,    \* history: partitions this invocation wrote to
    late        \* history: chunks damaged after their partition's turn

runVars    == <<dir, runs, result>>
writerVars == <<op, pos, streamOk, authorized>>
mediaVars  == <<media, disk, rest, faults, touched, late>>
vars == <<pc, cont, runVars, writerVars, receipt, poisoned, evid,
          mediaVars, src, card>>

----------------------------------------------------------------------------
(* Data *)

Contents == {"base", "other", "new", "alt", "bad"}
OpStates == {"absent", "Pending", "Writing", "Written", "Verified", "Failed"}
ReceiptStates == {"Initialized", "PreflightComplete", "WriteInProgress",
                  "WriteComplete", "VerificationComplete", "Ejected", "Failed"}
Outcomes == {"none", "Succeeded", "Failed"}

OpReceipts == [st : OpStates, bytes : 0..NChunks]
Receipts == [state : ReceiptStates \cup {"Torn", "None"}, safe : BOOLEAN,
             ops : [Ops -> OpReceipts], flush : Outcomes, eject : Outcomes]

NoOps == [o \in Ops |-> [st |-> "absent", bytes |-> 0]]
Blank(state) == [state |-> state, safe |-> FALSE, ops |-> NoOps,
                 flush |-> "none", eject |-> "none"]
NewReceipt == Blank("Initialized")
TornLine   == Blank("Torn")     \* the head of a line that was not written out
NoReceipt  == Blank("None")

NoEvidence == [made |-> FALSE, lines |-> <<>>, receipt |-> NoReceipt,
               complete |-> FALSE]

PCs == {"idle", "validate", "reserve", "journal", "persist", "preflight",
        "authorize", "begin", "seek", "write", "flush", "verify",
        "next", "recheck", "flushAll", "eject", "error", "drop", "receipt",
        "complete", "done", "crashed"}

(* What the pinned source file yields, and what a readback looks at. *)
SourceBytes(o) == IF src[o] = "declared" THEN "new" ELSE "alt"
Covered == IF Mode = "Full" THEN Chunks
           ELSE {1, NChunks} \cup (IF Mode = "Balanced" THEN Interior ELSE {})

Dirty == {x \in Ops \X Chunks : media[x[1]][x[2]] # disk[x[1]][x[2]]}
Flushed(S) == [o \in Ops |-> [c \in Chunks |->
                  IF <<o, c>> \in S THEN media[o][c] ELSE disk[o][c]]]

Init ==
    /\ pc = "idle" /\ cont = "idle"
    /\ dir = NoDir /\ runs = 0 /\ result = "none"
    /\ op = 1 /\ pos = 0 /\ streamOk = TRUE /\ authorized = FALSE
    /\ receipt = NewReceipt /\ poisoned = FALSE
    /\ evid = [d \in Dirs |-> NoEvidence]
    /\ \E b \in [Ops -> {"base", "other"}] :
         media = [o \in Ops |-> [c \in Chunks |-> b[o]]]
    /\ disk = media
    /\ rest \in [Attested -> BOOLEAN]
    /\ src \in [Ops -> {"declared", "altered"}]
    /\ card = "inserted"
    /\ faults = 0 /\ touched = {} /\ late = {}

----------------------------------------------------------------------------
(* Calls on the claimed medium and on the journal *)

(* A receipt change followed by journal.persist; `then` is the next call. *)
Record(r, then) == receipt' = r /\ pc' = "persist" /\ cont' = then

SetOp(o, st, bytes) ==
    [receipt EXCEPT !.ops[o] = [st |-> st, bytes |-> bytes]]

(* safe_to_boot is set on the way to Ejected and cleared everywhere else. *)
SetState(state) ==
    [receipt EXCEPT !.state = state, !.safe = (state = "Ejected")]

SetPending ==
    [receipt EXCEPT !.state = "PreflightComplete",
                    !.ops = [o \in Ops |-> [st |-> "Pending", bytes |-> 0]]]

Outcome(ok) == IF ok THEN "Succeeded" ELSE "Failed"

SetFailed(flushed, ejected) ==
    [receipt EXCEPT !.state = "Failed", !.safe = FALSE,
                    !.flush = Outcome(flushed), !.eject = Outcome(ejected)]

FlushMedia(ok) ==
    \E S \in SUBSET Dirty :
        /\ ok => S = Dirty
        /\ disk' = Flushed(S)

EjectMedia(ok) ==
    card' = IF ok THEN "released"
            ELSE IF card = "released" THEN "released" ELSE "stuck"

(* dispose_session: the eject is attempted even when the flush failed. *)
DisposeStopsAtFailedFlush(f, e) ==
    FlushMedia(f) /\ IF f THEN EjectMedia(e) ELSE UNCHANGED card
Dispose(f, e) == FlushMedia(f) /\ EjectMedia(e)

(* Any call of execute_inner that returns Err before the receipt changes. *)
Err == pc' = "error" /\ UNCHANGED <<cont, receipt>>

----------------------------------------------------------------------------
(* Opening the transaction *)

Claim ==
    /\ pc \in {"idle", "done", "crashed"} /\ runs < MaxRuns
    /\ runs' = runs + 1 /\ pc' = "validate" /\ card' = "claimed"
    /\ dir' = NoDir /\ result' = "none"
    /\ op' = 1 /\ pos' = 0 /\ streamOk' = TRUE /\ authorized' = FALSE
    /\ receipt' = NewReceipt /\ poisoned' = FALSE
    /\ touched' = {} /\ late' = {}
    /\ UNCHANGED <<cont, evid, media, disk, rest, src, faults>>

New ==
    /\ pc = "validate"
    /\ pc' \in {"reserve", "drop"}
    /\ UNCHANGED <<cont, runVars, writerVars, receipt, poisoned, evid,
                   mediaVars, src, card>>

Appended(line)  == [evid EXCEPT ![dir].lines = Append(@, line)]
Reserved(d)     == [evid EXCEPT ![d].made = TRUE]
ReceiptLinked   == [evid EXCEPT ![dir].receipt = receipt]
MarkerLinked    == [evid EXCEPT ![dir].complete = TRUE]

ReservableEvenIfPresent(d) == TRUE
Reservable(d) == ~evid[d].made

(* Reserve the directory (it must not exist), sync its parent. *)
EvidenceCreate ==
    /\ pc = "reserve"
    /\ \E d \in Dirs :
         \/ /\ Reservable(d)
            /\ evid' = Reserved(d)
            /\ \/ dir' = d /\ pc' = "journal"
               \/ dir' = dir /\ pc' = "drop"
         \/ pc' = "drop" /\ UNCHANGED <<dir, evid>>
    /\ UNCHANGED <<cont, runs, result, writerVars, receipt, poisoned,
                   mediaVars, src, card>>

JournalCreate ==
    /\ pc = "journal"
    /\ \/ pc' = "persist" /\ cont' = "preflight"
       \/ pc' = "drop" /\ UNCHANGED cont
    /\ UNCHANGED <<runVars, writerVars, receipt, poisoned, evid, mediaVars,
                   src, card>>

(* Transaction dropped before execution, or refused by its constructor. *)
Drop ==
    /\ pc = "drop"
    /\ \E f, e \in BOOLEAN : Dispose(f, e)
    /\ pc' = "done" /\ result' = "fail"
    /\ UNCHANGED <<cont, dir, runs, writerVars, receipt, poisoned, evid,
                   media, rest, faults, touched, late, src>>

----------------------------------------------------------------------------
(* AppendOnlyJournal *)

PersistOk ==
    /\ pc = "persist" /\ ~poisoned
    /\ evid' = Appended(receipt)
    /\ pc' = cont
    /\ UNCHANGED <<cont, runVars, writerVars, receipt, poisoned, mediaVars,
                   src, card>>

(* write_all fails with nothing or part of the line written, or sync_data  *)
(* fails after it.                                                         *)
AppendFails ==
    /\ poisoned' = TRUE
    /\ \/ UNCHANGED evid
       \/ ~poisoned /\ evid' \in {Appended(TornLine), Appended(receipt)}

PersistErrorIgnored == pc' = cont /\ UNCHANGED <<cont, receipt>>
PersistErrorRetried == UNCHANGED <<pc, cont, receipt>>

(* Where the error of a persist call goes: through write_partition as a    *)
(* PartialWrite, into the final receipt, or to the error arm.              *)
PersistError ==
    \/ cont = "write" /\ Record(SetOp(op, "Failed", pos), "error")
    \/ /\ receipt.state = "Failed"
       /\ pc' = "receipt" /\ UNCHANGED <<cont, receipt>>
    \/ cont # "write" /\ receipt.state # "Failed" /\ Err

PersistFails ==
    /\ pc = "persist"
    /\ AppendFails
    /\ PersistError
    /\ UNCHANGED <<runVars, writerVars, mediaVars, src, card>>

----------------------------------------------------------------------------
(* Transaction::execute_inner *)

BaselineOfRangesOnly == \A r \in Attested : rest[r]
Baseline ==
    /\ \A o \in Ops : src[o] = "declared"
    /\ \A r \in Attested : rest[r]
    /\ \A o \in Ops \ Disposable : \A c \in Chunks : media[o][c] = "base"

Preflight ==
    /\ pc = "preflight"
    /\ \/ Baseline
          /\ Record(SetPending, "authorize")
       \/ Err
    /\ UNCHANGED <<runVars, writerVars, poisoned, evid, mediaVars, src, card>>

AuthorizeDestructive ==
    /\ pc = "authorize"
    /\ \/ /\ authorized' = (Disposable # {})
          /\ Record(SetState("WriteInProgress"), "begin")
       \/ Disposable # {} /\ Err /\ UNCHANGED authorized
    /\ UNCHANGED <<runVars, op, pos, streamOk, poisoned, evid, mediaVars,
                   src, card>>

BeginOp ==
    /\ pc = "begin"
    /\ \/ /\ op \in Disposable => authorized
          /\ Record(SetOp(op, "Writing", 0), "seek")
       \/ op \in Disposable /\ ~authorized /\ Err
    /\ UNCHANGED <<runVars, writerVars, poisoned, evid, mediaVars, src, card>>

Seek ==
    /\ pc = "seek"
    /\ \/ pc' = "write" /\ UNCHANGED <<cont, receipt>>
       \/ Record(SetOp(op, "Failed", 0), "error")
    /\ UNCHANGED <<runVars, writerVars, poisoned, evid, mediaVars, src, card>>

MoreToWrite == pos < NChunks

ProgressDueLate(n) == n = NChunks \/ n - receipt.ops[op].bytes > ProgressChunks
ProgressDue(n) == n = NChunks \/ n - receipt.ops[op].bytes >= ProgressChunks

WriteChunk ==
    /\ pc = "write" /\ MoreToWrite
    /\ media' = [media EXCEPT ![op][pos + 1] = SourceBytes(op)]
    /\ streamOk' = (streamOk /\ src[op] = "declared")
    /\ pos' = pos + 1 /\ touched' = touched \cup {op}
    /\ IF ProgressDue(pos')
       THEN Record(SetOp(op, "Writing", pos'), "write")
       ELSE UNCHANGED <<pc, cont, receipt>>
    /\ UNCHANGED <<runVars, op, authorized, poisoned, evid, disk, rest,
                   faults, late, src, card>>

(* Error::PartialWrite: the source or the medium fails; the buffer after   *)
(* the last complete one may be half written.                              *)
PartialWrite ==
    /\ pc = "write"
    /\ \/ UNCHANGED <<media, touched>>
       \/ /\ pos < NChunks
          /\ media' = [media EXCEPT ![op][pos + 1] = "bad"]
          /\ touched' = touched \cup {op}
    /\ Record(SetOp(op, "Failed", pos), "error")
    /\ UNCHANGED <<runVars, writerVars, poisoned, evid, disk, rest, faults,
                   late, src, card>>

WriteOutcome ==
    /\ pc = "write" /\ pos = NChunks
    /\ IF streamOk THEN Record(SetOp(op, "Written", pos), "flush")
                   ELSE Record(SetOp(op, "Failed", pos), "error")
    /\ UNCHANGED <<runVars, writerVars, poisoned, evid, mediaVars, src, card>>

FlushOp ==
    /\ pc = "flush"
    /\ \E ok \in BOOLEAN :
         /\ FlushMedia(ok)
         /\ IF ok THEN pc' = "verify" /\ UNCHANGED <<cont, receipt>> ELSE Err
    /\ UNCHANGED <<runVars, writerVars, poisoned, evid, media, rest, faults,
                   touched, late, src, card>>

ReadbackHeadOnly(o) == media[o][1] = "new"
Readback(o) ==
    \A c \in Covered :
        media[o][c] = IF Mode = "Full" THEN "new" ELSE SourceBytes(o)

VerifyWritten ==
    /\ pc = "verify"
    /\ \/ Readback(op) /\ Record(SetOp(op, "Verified", pos), "next")
       \/ Err
    /\ UNCHANGED <<runVars, writerVars, poisoned, evid, mediaVars, src, card>>

NextOp ==
    /\ pc = "next"
    /\ \/ /\ op < NOps
          /\ op' = op + 1 /\ pos' = 0 /\ streamOk' = TRUE
          /\ pc' = "begin" /\ UNCHANGED <<cont, receipt>>
       \/ /\ op = NOps /\ UNCHANGED <<op, pos, streamOk>>
          /\ Record(SetState("WriteComplete"), "recheck")
    /\ UNCHANGED <<runVars, authorized, poisoned, evid, mediaVars, src, card>>

Recheck ==
    /\ pc = "recheck"
    /\ \/ /\ \A r \in Attested : rest[r]
          /\ pc' = "flushAll" /\ UNCHANGED <<cont, receipt>>
       \/ Err
    /\ UNCHANGED <<runVars, writerVars, poisoned, evid, mediaVars, src, card>>

FlushAll ==
    /\ pc = "flushAll"
    /\ \E ok \in BOOLEAN :
         /\ FlushMedia(ok)
         /\ IF ok
            THEN Record(SetState("VerificationComplete"), "eject")
            ELSE Err
    /\ UNCHANGED <<runVars, writerVars, poisoned, evid, media, rest, faults,
                   touched, late, src, card>>

Eject ==
    /\ pc = "eject"
    /\ \E ok \in BOOLEAN :
         /\ EjectMedia(ok)
         /\ IF ok
            THEN Record(SetState("Ejected"), "receipt")
            ELSE Err
    /\ UNCHANGED <<runVars, writerVars, poisoned, evid, mediaVars, src>>
----------------------------------------------------------------------------
(* The error arm of execute_with_journal, and the final receipt *)

Error ==
    /\ pc = "error"
    /\ \E f, e \in BOOLEAN :
         /\ Dispose(f, e)
         /\ Record(SetFailed(f, e), "receipt")
    /\ UNCHANGED <<runVars, writerVars, poisoned, evid, media, rest, faults,
                   touched, late, src>>

(* publish_no_replace links a synced temporary file, then syncs the        *)
(* directory: an error may come before or after the file is visible.       *)
PublishReceipt ==
    /\ pc = "receipt"
    /\ \/ /\ evid' = ReceiptLinked
          /\ \/ pc' = "complete" /\ UNCHANGED result
             \/ pc' = "done" /\ result' = "fail"
       \/ pc' = "done" /\ result' = "fail" /\ UNCHANGED evid
    /\ UNCHANGED <<cont, dir, runs, writerVars, receipt, poisoned, mediaVars,
                   src, card>>

Verdict == IF receipt.state = "Ejected" THEN "pass" ELSE "fail"

PublishComplete ==
    /\ pc = "complete" /\ pc' = "done"
    /\ \/ /\ evid' = MarkerLinked
          /\ result' \in {Verdict, "fail"}
       \/ result' = "fail" /\ UNCHANGED evid
    /\ UNCHANGED <<cont, dir, runs, writerVars, receipt, poisoned, mediaVars,
                   src, card>>

----------------------------------------------------------------------------
(* The environment *)

(* Power loss: unflushed chunks and the write under way may or may not     *)
(* have reached their device.                                              *)
Crash ==
    /\ pc \notin {"idle", "done", "crashed"}
    /\ FlushMedia(FALSE) /\ media' = disk'
    /\ \/ UNCHANGED evid
       \/ /\ pc = "persist" /\ ~poisoned
          /\ evid' \in {Appended(TornLine), Appended(receipt)}
       \/ pc = "receipt" /\ evid' = ReceiptLinked
       \/ pc = "complete" /\ evid' = MarkerLinked
    /\ pc' = "crashed" /\ result' = "none"
    /\ UNCHANGED <<cont, dir, runs, writerVars, receipt, poisoned, rest,
                   faults, touched, late, src, card>>

(* Another process rewrites a source file after it was pinned. *)
AlterSource ==
    /\ pc \notin {"idle", "done", "crashed"}
    /\ \E o \in Ops :
         src[o] = "declared" /\ src' = [src EXCEPT ![o] = "altered"]
    /\ UNCHANGED <<pc, cont, runVars, writerVars, receipt, poisoned, evid,
                   mediaVars, card>>

(* While a partition is written the device silently spoils a chunk of any  *)
(* partition, or a range the plan attests as unchanged.                    *)
SilentDamage ==
    /\ pc = "write" /\ pos > 0 /\ faults < MaxFaults
    /\ faults' = faults + 1
    /\ \/ \E o \in Ops, c \in Chunks :
            /\ media' = [media EXCEPT ![o][c] = "bad"]
            /\ disk' = [disk EXCEPT ![o][c] = "bad"]
            /\ late' = late \cup (IF o < op THEN {<<o, c>>} ELSE {})
            /\ UNCHANGED rest
       \/ /\ \E r \in Attested : rest' = [rest EXCEPT ![r] = FALSE]
          /\ UNCHANGED <<media, disk, late>>
    /\ UNCHANGED <<pc, cont, runVars, writerVars, receipt, poisoned, evid,
                   touched, src, card>>

Finished ==
    /\ pc \in {"done", "crashed"} /\ runs = MaxRuns
    /\ UNCHANGED vars

Step ==
    \/ New \/ EvidenceCreate \/ JournalCreate \/ Drop
    \/ PersistOk \/ PersistFails \/ Preflight \/ AuthorizeDestructive
    \/ BeginOp \/ Seek \/ WriteChunk \/ PartialWrite \/ WriteOutcome
    \/ FlushOp \/ VerifyWritten \/ NextOp \/ Recheck \/ FlushAll \/ Eject
    \/ Error \/ PublishReceipt \/ PublishComplete

Next == Claim \/ Step \/ Crash \/ AlterSource \/ SilentDamage \/ Finished

Spec == Init /\ [][Next]_vars

(* Every call of an invocation returns: the program is sequential and its  *)
(* I/O calls report success or failure.  Nothing is assumed of Claim, the  *)
(* crash or the faults.                                                    *)
FairSpec == Spec /\ WF_vars(Step)

----------------------------------------------------------------------------
(* Properties *)

Evidence == [made : BOOLEAN, lines : Seq(Receipts), receipt : Receipts,
             complete : BOOLEAN]

(* Media, receipts and the invocation hold what their declarations allow;  *)
(* the cursor never leaves the partition.                                  *)
TypeOK ==
    /\ pc \in PCs /\ cont \in PCs
    /\ dir \in Dirs \cup {NoDir} /\ runs \in 0..MaxRuns
    /\ result \in {"none", "pass", "fail"}
    /\ op \in Ops /\ pos \in 0..NChunks
    /\ streamOk \in BOOLEAN /\ authorized \in BOOLEAN
    /\ receipt \in Receipts /\ poisoned \in BOOLEAN
    /\ evid \in [Dirs -> Evidence]
    /\ media \in [Ops -> [Chunks -> Contents]]
    /\ disk \in [Ops -> [Chunks -> Contents]]
    /\ rest \in [Attested -> BOOLEAN]
    /\ src \in [Ops -> {"declared", "altered"}]
    /\ card \in {"inserted", "claimed", "released", "stuck"}
    /\ faults \in 0..MaxFaults
    /\ touched \subseteq Ops /\ late \subseteq Ops \X Chunks

Lines == IF dir = NoDir THEN <<>> ELSE evid[dir].lines
Published == IF dir = NoDir THEN NoReceipt ELSE evid[dir].receipt

(* The card deserves the word safe: released by a successful eject with    *)
(* nothing left unflushed, every chunk the verification mode reads back    *)
(* durable and equal to the declared source, every attested range intact.  *)
(* A chunk spoiled after its own readback, while a later partition was     *)
(* written, is the one thing the code does not look at again.              *)
CardIsGood ==
    /\ card = "released"
    /\ Dirty = {}
    /\ \A o \in Ops : \A c \in Covered : disk[o][c] = "new" \/ <<o, c>> \in late
    /\ \A r \in Attested : rest[r]

(* Whatever the moment of a crash or the call that fails, a journal line   *)
(* or a published receipt with safe_to_boot = true describes a card that   *)
(* is good, and lists every operation as verified.                         *)
SafeEvidence ==
    \A r \in {Lines[i] : i \in DOMAIN Lines} \cup {Published} :
        r.safe => CardIsGood /\ \A o \in Ops : r.ops[o].st = "Verified"

(* Write-ahead: a partition the invocation has written to is named as      *)
(* being written by a line that is already in the journal.                 *)
WriteAhead ==
    \A o \in touched : \E i \in DOMAIN Lines :
        Lines[i].state = "WriteInProgress" /\ Lines[i].ops[o].st = "Writing"

(* bytes_written in the journal never exceeds what reached the medium, and *)
(* trails it by at most JOURNAL_PROGRESS_BYTES.                            *)
JournaledProgress ==
    /\ \A i \in DOMAIN Lines, o \in Ops :
         Lines[i].ops[o].bytes <= (IF o < op THEN NChunks
                                   ELSE IF o = op THEN pos ELSE 0)
    /\ op \in touched => \E i \in DOMAIN Lines :
         /\ Lines[i].ops[op].st = "Writing"
         /\ pos <= Lines[i].ops[op].bytes + ProgressChunks

Rank(state) == CASE state = "Initialized" -> 1
                 [] state = "PreflightComplete" -> 2
                 [] state = "WriteInProgress" -> 3
                 [] state = "WriteComplete" -> 4
                 [] state = "VerificationComplete" -> 5
                 [] state = "Ejected" -> 6
                 [] OTHER -> 7

(* The journal stays readable: snapshots in order, a truncated line only   *)
(* as the last one, and nothing after a line that says safe or Failed.     *)
JournalReadable ==
    \A i \in 1..(Len(Lines) - 1) :
        /\ Rank(Lines[i].state) < 6
        /\ Rank(Lines[i].state) <= Rank(Lines[i + 1].state)

(* The reported verdict, the receipt and the journal tell one story: pass  *)
(* needs both files, RECEIPT-COMPLETE needs receipt.json, and a safe       *)
(* receipt needs a safe last journal line.                                 *)
VerdictHasEvidence ==
    /\ result = "pass" => Published.safe /\ evid[dir].complete
    /\ dir # NoDir /\ evid[dir].complete => Published.state # "None"
    /\ Published.safe => Lines # <<>> /\ Lines[Len(Lines)] = Published

(* What the evidence on the host tells is true of the card at every        *)
(* moment: the write is announced before it starts and progress is         *)
(* journaled, a journal that was written can be read back, and a verdict   *)
(* stands only with the readback it names, in a transaction whose other    *)
(* state keeps its types (transaction.rs, journal.rs).                     *)
EvidenceTells == TypeOK /\ WriteAhead /\ JournalReadable /\ VerdictHasEvidence

(* An invocation that ended by itself has tried to eject the medium, and   *)
(* the failure disposition of a published receipt is the truth.            *)
MediumReleased ==
    /\ pc = "done" => card \in {"released", "stuck"}
    /\ Published.flush = "Succeeded" => Dirty = {}
    /\ Published.eject = "Succeeded" => card = "released"

(* The first write of an invocation finds every attested range and every   *)
(* exact-digest target at its baseline: a target another invocation left   *)
(* half written is never written again.  Disposable targets are written    *)
(* only with the capability of the backend.                                *)
FirstWriteOnBaseline ==
    [][/\ touched = {} /\ touched' # {} =>
            /\ \A r \in Attested : rest[r]
            /\ \A o \in Ops \ Disposable : \A c \in Chunks : media[o][c] = "base"
       /\ touched' \cap Disposable # {} => authorized]_vars

(* Evidence is never clobbered: a directory reserved by an earlier         *)
(* invocation does not change, a journal only grows, a receipt stays.      *)
NoClobber ==
    [][\A d \in Dirs : evid[d].made =>
         /\ d # dir' => evid'[d] = evid[d]
         /\ Len(evid[d].lines) <= Len(evid'[d].lines)
         /\ evid[d].lines = SubSeq(evid'[d].lines, 1, Len(evid[d].lines))
         /\ evid[d].receipt.state # "None" =>
                evid'[d].receipt = evid[d].receipt]_vars

(* Every invocation ends, unless the power fails. *)
InvocationEnds == pc = "validate" ~> pc \in {"done", "crashed"}
============================================================================
