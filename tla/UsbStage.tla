-------------------------------- MODULE UsbStage --------------------------------
(* scripts/stage-v11-usb-one-shot-macos.py: it formats one disposable USB drive
   (prepare) and copies the payload of the current v0.11 generation to it, file by
   file (stage).  A stage that was interrupted is taken up by the next one.  Every
   file is synced before the next; the drive is identified before and after, the
   files are read back, the drive is ejected and only then a receipt is written.
   The drive can be pulled out and another one plugged in at any time.        *)
EXTENDS Sequences, FiniteSets, Naturals

CONSTANTS Drives,       \* drives that are ever behind the device node
          Ours,         \* the one whose serial number the program expects
          Generations,  \* payloads CURRENT may name
          MaxSwaps,     \* bound: drives pulled out, processes killed
          MaxFormats    \* bound: volume identities a drive goes through

\* The payload in the order in which it is copied (sorted names).
Names   == <<"BOOT.INI", "PAYLOAD.COMPLETE", "R46H.DTB">>
NameSet == {Names[i] : i \in 1..Len(Names)}

None   == "none"
Absent == [of |-> None, synced |-> TRUE]
Torn   == [of |-> "torn", synced |-> TRUE]

VARIABLES plugged,   \* the drive behind the device node and the volume path, or None
          files,     \* [Drives -> [NameSet -> what is on the drive]]
          doubles,   \* [Drives -> macOS left AppleDouble files beside the payload]
          uuid,      \* [Drives -> volume identity; 0 is a drive without the volume]
          current,   \* generation CURRENT names
          pc, source, before, copied,  \* step, source generation, drive and uuid seen, files
          receipts,  \* [uuid, drive, of]: what the receipts say
          swaps

usbVars == <<plugged, files, doubles, uuid, current, pc, source, before, copied, receipts, swaps>>

NoDrive == [drive |-> None, uuid |-> 0]

UsbInit ==
  /\ plugged \in Drives \cup {None}
  /\ files = [d \in Drives |-> [n \in NameSet |-> Absent]]
  /\ doubles = [d \in Drives |-> FALSE]
  /\ uuid = [d \in Drives |-> IF d = Ours THEN 0 ELSE 1]
  /\ current \in Generations
  /\ pc = "idle" /\ source = None /\ before = NoDrive /\ copied = {}
  /\ receipts = {} /\ swaps = 0

Goes(from, to) == pc = from /\ pc' = to
Bus  == <<plugged, swaps>>
Disk == <<files, doubles, uuid>>
Run  == <<source, before, copied>>

\* parse_hardware: one whole USB disk of the expected size, serial and location.
Hardware(d) == d = Ours
\* parse_identity: the same, and one FAT32 partition with the volume name, mounted.
Identity(d) == [drive |-> d, uuid |-> uuid[d]]
Mounted(d)  == Hardware(d) /\ uuid[d] > 0
\* copy_and_verify_payload works on the volume path: on whatever drive is mounted
\* there by then.  The others have a volume of that name, too.
AtPath == plugged # None /\ uuid[plugged] > 0

-----------------------------------------------------------------------------
(* prepare *)

QueryHardware ==
  /\ Goes("idle", "erase") /\ Hardware(plugged)
  /\ before' = [drive |-> plugged, uuid |-> 0]
  /\ UNCHANGED <<Bus, Disk, source, copied, current, receipts>>

\* diskutil erases whatever is behind the device node by now.
EraseDisk ==
  /\ Goes("erase", "formatted") /\ plugged # None
  /\ uuid[plugged] < MaxFormats
  /\ uuid' = [uuid EXCEPT ![plugged] = @ + 1]
  /\ files' = [files EXCEPT ![plugged] = [n \in NameSet |-> Absent]]
  /\ doubles' = [doubles EXCEPT ![plugged] = FALSE]
  /\ UNCHANGED <<Bus, Run, current, receipts>>

Prepared ==
  /\ Goes("formatted", "idle") /\ Mounted(plugged) /\ before' = NoDrive
  /\ UNCHANGED <<Bus, Disk, source, copied, current, receipts>>

-----------------------------------------------------------------------------
(* stage *)

\* The generation CURRENT names is validated against the clean sources.
BeginStage ==
  /\ Goes("idle", "source")
  /\ source' = current
  /\ UNCHANGED <<Bus, Disk, before, copied, current, receipts>>

QueryBefore ==
  /\ Goes("source", "existing") /\ Mounted(plugged)
  /\ before' = Identity(plugged)
  /\ UNCHANGED <<Bus, Disk, source, copied, current, receipts>>

\* Only whole files of this payload may be there, and AppleDouble files of it.
ExistingAgree ==
  \A n \in NameSet : files[plugged][n] = Absent \/ files[plugged][n].of = source

TakeExisting ==
  /\ Goes("existing", "copy") /\ AtPath /\ ExistingAgree
  /\ copied' = {n \in NameSet : files[plugged][n] # Absent}
  /\ UNCHANGED <<Bus, Disk, source, before, current, receipts>>

Next1 == LET rest == {i \in 1..Len(Names) : Names[i] \notin copied} IN
  Names[CHOOSE i \in rest : \A j \in rest : i <= j]

\* copy_one: O_EXCL, so never over a file; synced before it is counted.
OpenCopy ==
  /\ Goes("copy", "sync") /\ copied # NameSet /\ AtPath
  /\ files[plugged][Next1] = Absent
  /\ files' = [files EXCEPT ![plugged][Next1] = [of |-> source, synced |-> FALSE]]
  /\ doubles' \in {doubles, [doubles EXCEPT ![plugged] = TRUE]}
  /\ UNCHANGED <<uuid, Bus, Run, current, receipts>>

\* Through the handle, which is dead once its drive was pulled out.
SyncCopy ==
  /\ Goes("sync", "copy") /\ AtPath
  /\ files[plugged][Next1] = [of |-> source, synced |-> FALSE]
  /\ files' = [files EXCEPT ![plugged][Next1].synced = TRUE]
  /\ copied' = copied \cup {Next1}
  /\ UNCHANGED <<doubles, uuid, Bus, source, before, current, receipts>>

RemoveAppleDouble ==
  /\ Goes("copy", "readback") /\ copied = NameSet /\ AtPath
  /\ doubles' = [doubles EXCEPT ![plugged] = FALSE]
  /\ UNCHANGED <<files, uuid, Bus, Run, current, receipts>>

\* require_flat_payload of the copy: exactly these files, with these bytes.
ReadBack ==
  /\ Goes("readback", "after") /\ AtPath
  /\ ~doubles[plugged] /\ \A n \in NameSet : files[plugged][n].of = source
  /\ UNCHANGED <<Bus, Disk, Run, current, receipts>>

SameDrive == Mounted(plugged) /\ Identity(plugged) = before

QueryAfter ==
  /\ Goes("after", "eject") /\ SameDrive
  /\ UNCHANGED <<Bus, Disk, Run, current, receipts>>

\* Ejecting writes back what the volume still held; the node is gone afterwards.
Eject ==
  /\ Goes("eject", "receipt") /\ plugged # None
  /\ plugged' = None
  /\ files' = [files EXCEPT ![plugged] = [n \in NameSet |-> [@[n] EXCEPT !.synced = TRUE]]]
  /\ UNCHANGED <<doubles, uuid, swaps, Run, current, receipts>>

PublishReceipt ==
  /\ Goes("receipt", "idle")
  /\ receipts' = receipts \cup {[drive |-> before.drive, uuid |-> before.uuid, of |-> source]}
  /\ source' = None /\ before' = NoDrive /\ copied' = {}
  /\ UNCHANGED <<Bus, Disk, current>>

\* Any refusal, failed call or kill leaves the drive as it is by then.
StageError ==
  /\ pc \in {"source", "existing", "copy", "sync", "readback", "after", "eject", "erase", "formatted"}
  /\ pc' = "idle" /\ source' = None /\ before' = NoDrive /\ copied' = {}
  /\ UNCHANGED <<Bus, Disk, current, receipts>>

-----------------------------------------------------------------------------
(* The hand at the socket, and the next build. *)

\* What was not synced when a drive is pulled is there in part.  Assumption: nobody
\* pulls the drive between the read back and the eject that follows at once.
PullOut ==
  /\ swaps < MaxSwaps /\ swaps' = swaps + 1
  /\ pc \notin {"after", "eject"}
  /\ plugged # None /\ plugged' = None
  /\ files' = [files EXCEPT ![plugged] =
       [n \in NameSet |-> IF @[n].synced THEN @[n] ELSE Torn]]
  /\ UNCHANGED <<doubles, uuid, Run, pc, current, receipts>>

PlugIn ==
  /\ plugged = None /\ plugged' \in Drives
  /\ UNCHANGED <<Disk, Run, pc, current, receipts, swaps>>

NextGeneration ==
  /\ pc \in {"source", "copy", "idle"}
  /\ current' \in Generations \ {current}
  /\ UNCHANGED <<Bus, Disk, Run, pc, receipts>>

UsbNext ==
  \/ QueryHardware \/ EraseDisk \/ Prepared \/ BeginStage \/ QueryBefore \/ TakeExisting
  \/ OpenCopy \/ SyncCopy \/ RemoveAppleDouble \/ ReadBack \/ QueryAfter \/ Eject
  \/ PublishReceipt \/ StageError \/ PullOut \/ PlugIn \/ NextGeneration

UsbSpec == UsbInit /\ [][UsbNext]_usbVars

-----------------------------------------------------------------------------
(* A drive with the volume a receipt names has on it, synced, every file of the
   generation the receipt names, and no other: however often staging was
   interrupted, and although the drive may have been another one for a while.  *)
ReceiptIsTrue ==
  \A r \in receipts : uuid[r.drive] = r.uuid =>
    \A n \in NameSet : files[r.drive][n] = [of |-> r.of, synced |-> TRUE]

(* What a receipt rests on: from the read back to the receipt the drive is the one
   that was identified, holds the generation that is staged, and its volume is not
   younger than a receipt for it.                                             *)
Stages  == {"source", "existing", "copy", "sync", "readback", "after", "eject", "receipt"}
Files   == [NameSet -> [of : Generations \cup {None, "torn"}, synced : BOOLEAN]]
Volumes == [drive : Drives \cup {None}, uuid : Nat]

UsbTypes ==
  /\ plugged \in Drives \cup {None} /\ files \in [Drives -> Files] /\ uuid \in [Drives -> Nat]
  /\ current \in Generations /\ source \in Generations \cup {None} /\ before \in Volumes
  /\ receipts \subseteq [drive : Drives, uuid : Nat, of : Generations]

StagedIsThere ==
  /\ pc \in Stages => source \in Generations
  /\ pc \in {"after", "eject"} =>
       plugged \in Drives /\ \A n \in NameSet : files[plugged][n].of = source
  /\ pc = "eject" => plugged = Ours
  /\ pc \in {"eject", "receipt"} => before = Identity(Ours)
  /\ pc = "receipt" => \A n \in NameSet : files[Ours][n] = [of |-> source, synced |-> TRUE]

UsbInv ==
  /\ UsbTypes /\ StagedIsThere /\ ReceiptIsTrue
  /\ \A r \in receipts : r.uuid <= uuid[r.drive]
=================================================================================
