------------------------ MODULE CardTransactionInv -------------------------
(***************************************************************************)
(* The strengthening of SafeEvidence that every step of CardTransaction    *)
(* preserves: what is known at each call of the transaction about the      *)
(* operations, the medium and the evidence directory.                      *)
(***************************************************************************)
EXTENDS CardTransaction

(* The call p is next, possibly after the journal append under way. *)
At(p) == pc = p \/ (pc = "persist" /\ cont = p)

Status(o) == receipt.ops[o].st

(* Between the reservation of the evidence directory and the end of the    *)
(* invocation the journal has a place to go; before it there is none.  An  *)
(* append continues at one of the calls that follow a persist.             *)
Control ==
    /\ pc \notin {"idle", "validate", "reserve", "drop", "done", "crashed"} =>
         dir \in Dirs
    /\ pc \in {"idle", "validate", "reserve"} => dir = NoDir
    /\ pc = "persist" =>
         cont \in {"preflight", "authorize", "begin", "seek", "write", "flush",
                  "next", "recheck", "eject", "error", "receipt"}

TypeInv == TypeOK /\ Control

(* How far the loop over the operations has come. *)
OpsInv ==
    /\ (\/ pc \in {"validate", "reserve", "journal"} \/ At("preflight")
        \/ At("authorize") \/ At("begin") \/ At("seek")) => pos = 0 /\ streamOk
    /\ (\/ pc \in {"validate", "reserve", "journal"} \/ At("preflight")
        \/ At("authorize")) => op = 1
    /\ At("authorize") => \A o \in Ops : Status(o) = "Pending"
    /\ (\/ At("begin") \/ At("seek") \/ At("write") \/ At("flush")
        \/ At("verify") \/ At("next")) =>
         /\ \A o \in Ops : o < op => Status(o) = "Verified"
         /\ \A o \in Ops : o > op => Status(o) = "Pending"
    /\ At("begin") => Status(op) = "Pending"
    /\ At("seek") \/ At("write") => Status(op) = "Writing"
    /\ At("flush") \/ At("verify") =>
         Status(op) = "Written" /\ streamOk /\ pos = NChunks
    /\ At("next") => Status(op) = "Verified"
    /\ At("recheck") \/ At("flushAll") \/ At("eject") =>
         \A o \in Ops : Status(o) = "Verified"

(* What the medium holds: the partition in hand has only declared or       *)
(* spoiled bytes while its stream hash agrees; a partition marked Verified *)
(* still holds what was read back, but for damage inflicted later.         *)
MediaInv ==
    /\ (At("write") \/ At("flush") \/ At("verify")) /\ streamOk =>
         \A c \in Chunks : c <= pos => media[op][c] \in {"new", "bad"}
    /\ pc # "crashed" =>
         \A o \in Ops : Status(o) = "Verified" =>
            \A c \in Covered : media[o][c] = "new" \/ <<o, c>> \in late
    /\ At("flushAll") \/ At("eject") => \A r \in Attested : rest[r]
    /\ At("eject") => media = disk

(* Directories nobody reserved are empty; the one in use is reserved. *)
EvidenceInv ==
    /\ \A d \in Dirs : ~evid[d].made =>
         evid[d].lines = <<>> /\ evid[d].receipt = NoReceipt
    /\ dir \in Dirs => evid[dir].made

(* Calls after which the medium is not written any more. *)
Closing == \/ pc \in {"error", "receipt", "complete", "done", "crashed"}
           \/ pc = "persist" /\ cont = "receipt"

Good ==
    /\ Closing
    /\ card = "released"
    /\ media = disk
    /\ \A o \in Ops : \A c \in Covered : disk[o][c] = "new" \/ <<o, c>> \in late
    /\ \A r \in Attested : rest[r]

AllVerified(r) == \A o \in Ops : r.ops[o].st = "Verified"

SafeInv ==
    /\ receipt.safe => Good /\ AllVerified(receipt)
    /\ dir \in Dirs =>
         /\ \A i \in 1..Len(evid[dir].lines) :
              evid[dir].lines[i].safe => Good /\ AllVerified(evid[dir].lines[i])
         /\ evid[dir].receipt.safe => Good /\ AllVerified(evid[dir].receipt)

IInv == TypeInv /\ OpsInv /\ MediaInv /\ EvidenceInv /\ SafeInv
============================================================================
