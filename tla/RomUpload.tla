------------------------------- MODULE RomUpload -------------------------------
(* gaming-rom-workflow/upload-rom.py: hosts upload a ROM to one name of the
   handheld over SSH.  The host hashes its file, copies it to a hidden candidate
   of its own, hashes its file again, and starts a remote script that checks,
   syncs and links the candidate into place, and prints a marker at the end; the
   script takes its link back when anything after the link fails.  A connection
   can be lost at any point, and the script then runs on without its reader;
   the power of the handheld can be lost, and what was not synced is then as old
   as the last sync.  The candidate's name is fresh (uuid4), so it is
   indexed by the host.  Nothing but this program touches the ROM's name.     *)
EXTENDS Naturals

CONSTANTS Hosts,        \* hosts that upload to the same name
          Contents,     \* contents of a ROM file
          MaxFaults     \* bound: failed commands, lost connections, power losses

None == "none"          \* no such file
Torn == "torn"          \* a file whose content is incomplete

VARIABLES pc,        \* [Hosts -> step of the host's upload]
          rom,       \* [Hosts -> content of the local ROM file]
          digest,    \* [Hosts -> content hashed by validate_rom]
          script,    \* [Hosts -> step of the publish script on the handheld]
          rollback,  \* [Hosts -> the script's rollback flag]
          cand,      \* [Hosts -> candidate: None, Torn or a content]
          synced,    \* [Hosts -> the content of the candidate's file is durable]
          final,     \* the published name: [by, what]; by = None when absent
          kept,      \* the directory entry of final is durable
          told,      \* [Hosts -> what the host printed: none, pass, error, warned]
          faults, outages

romVars == <<pc, rom, digest, script, rollback, cand, synced, final, kept, told,
             faults, outages>>

Absent == [by |-> None, what |-> None]

UploadInit ==
  /\ pc = [h \in Hosts |-> "validate"]
  /\ rom \in [Hosts -> Contents]
  /\ digest = [h \in Hosts |-> None]
  /\ script = [h \in Hosts |-> "idle"]
  /\ rollback = [h \in Hosts |-> FALSE]
  /\ cand = [h \in Hosts |-> None]
  /\ synced = [h \in Hosts |-> FALSE]
  /\ final = Absent
  /\ kept = FALSE
  /\ told = [h \in Hosts |-> None]
  /\ faults = 0 /\ outages = 0

At(h, from, to) == pc[h] = from /\ pc' = [pc EXCEPT ![h] = to]
Tell(h, word)   == told' = [told EXCEPT ![h] = word]
Fault           == faults < MaxFaults /\ faults' = faults + 1
Device          == <<script, rollback, cand, synced, final, kept>>

-----------------------------------------------------------------------------
(* The host. *)

ValidateRom(h) ==
  /\ At(h, "validate", "preflight")
  /\ digest' = [digest EXCEPT ![h] = rom[h]]
  /\ UNCHANGED <<rom, Device, told, faults, outages>>

\* The final name and the candidate are absent, and the file system is healthy.
Precheck(h) ==
  /\ final = Absent /\ cand[h] = None
  /\ At(h, "preflight", "copy")
  /\ UNCHANGED <<rom, digest, Device, told, faults, outages>>

\* Another host key, an unhealthy device or a name that exists ends the upload;
\* before the candidate exists a refusal needs no cleanup.
Refused(h) ==
  /\ At(h, "preflight", "end") /\ Tell(h, "error")
  /\ \/ final # Absent /\ UNCHANGED faults
     \/ Fault
  /\ UNCHANGED <<rom, digest, Device, outages>>

\* scp sends what the file holds now; a failed scp leaves a partial candidate.
Copy(h) ==
  /\ At(h, "copy", "rehash")
  /\ cand' = [cand EXCEPT ![h] = rom[h]]
  /\ UNCHANGED <<rom, digest, script, rollback, synced, final, kept, told, faults, outages>>

CopyFails(h) ==
  /\ At(h, "copy", "cleanup") /\ Fault
  /\ \E left \in {None, Torn} : cand' = [cand EXCEPT ![h] = left]
  /\ UNCHANGED <<rom, digest, script, rollback, synced, final, kept, told, outages>>

\* The local file is hashed again before the publish script is started.
Rehash(h) ==
  /\ pc[h] = "rehash"
  /\ IF rom[h] = digest[h]
     THEN /\ At(h, "rehash", "publish")
          /\ script' = [script EXCEPT ![h] = "check"]
     ELSE At(h, "rehash", "cleanup") /\ UNCHANGED script
  /\ UNCHANGED <<rom, digest, rollback, cand, synced, final, kept, told, faults, outages>>

\* The marker is the only success: an exit without it is an error.
Passed(h) ==
  /\ script[h] = "marked"
  /\ At(h, "publish", "end") /\ Tell(h, "pass")
  /\ UNCHANGED <<rom, digest, Device, faults, outages>>

PublishFailed(h) ==
  /\ script[h] = "exited" /\ At(h, "publish", "cleanup")
  /\ UNCHANGED <<rom, digest, Device, told, faults, outages>>

\* ssh ends or the operator interrupts; the script on the handheld runs on.
LoseConnection(h) ==
  /\ Fault /\ At(h, "publish", "cleanup")
  /\ UNCHANGED <<rom, digest, Device, told, outages>>

CleanupCandidate(h) ==
  /\ At(h, "cleanup", "end") /\ Tell(h, "error")
  /\ cand' = [cand EXCEPT ![h] = None]
  /\ UNCHANGED <<rom, digest, script, rollback, synced, final, kept, faults, outages>>

CleanupFails(h) ==
  /\ At(h, "cleanup", "end") /\ Fault /\ Tell(h, "warned")
  /\ UNCHANGED <<rom, digest, Device, outages>>

-----------------------------------------------------------------------------
(* The publish script. *)

Goes(h, from, to) == script[h] = from /\ script' = [script EXCEPT ![h] = to]
HostSide          == <<pc, rom, digest, told, outages>>

\* A step that finds what it checks wrong, or a command that fails, exits; the
\* EXIT trap takes the link back when this script made it.
Exit(h) ==
  /\ script' = [script EXCEPT ![h] = "exited"]
  /\ rollback' = [rollback EXCEPT ![h] = FALSE]
  /\ IF rollback[h] THEN final' = Absent /\ kept' = FALSE ELSE UNCHANGED <<final, kept>>
  /\ UNCHANGED <<HostSide, cand, synced>>

CheckCandidate(h) == final = Absent /\ cand[h] = digest[h]
CheckFinal(h)     == cand[h] = None /\ final = [by |-> h, what |-> digest[h]]

ScriptCheck(h) ==
  /\ CheckCandidate(h) /\ Goes(h, "check", "flush")
  /\ UNCHANGED <<HostSide, rollback, cand, synced, final, kept, faults>>

\* mutant: the candidate is not synced
ScriptFlushSkipped(h) ==
  /\ Goes(h, "flush", "link") /\ cand[h] # None
  /\ UNCHANGED <<HostSide, rollback, cand, synced, final, kept, faults>>

ScriptFlush(h) ==
  /\ Goes(h, "flush", "link") /\ cand[h] # None
  /\ synced' = [synced EXCEPT ![h] = TRUE]
  /\ UNCHANGED <<HostSide, rollback, cand, final, kept, faults>>

\* ln without -f: it refuses a name that exists.
ScriptLink(h) ==
  /\ final = Absent /\ cand[h] # None
  /\ Goes(h, "link", "drop")
  /\ final' = [by |-> h, what |-> cand[h]] /\ kept' = FALSE
  /\ rollback' = [rollback EXCEPT ![h] = TRUE]
  /\ UNCHANGED <<HostSide, cand, synced, faults>>

ScriptDrop(h) ==
  /\ Goes(h, "drop", "verify")
  /\ cand' = [cand EXCEPT ![h] = None]
  /\ UNCHANGED <<HostSide, rollback, synced, final, kept, faults>>

ScriptVerify(h) ==
  /\ CheckFinal(h) /\ Goes(h, "verify", "settle")
  /\ UNCHANGED <<HostSide, rollback, cand, synced, final, kept, faults>>

ScriptSettle(h) ==
  /\ Goes(h, "settle", "mark") /\ kept' = TRUE
  /\ UNCHANGED <<HostSide, rollback, cand, synced, final, faults>>

\* The marker reaches the host while it reads; with the reader gone the write
\* fails, and the script exits with its rollback flag still set.
ScriptMark(h) ==
  /\ pc[h] = "publish" /\ Goes(h, "mark", "marked")
  /\ rollback' = [rollback EXCEPT ![h] = FALSE]
  /\ UNCHANGED <<HostSide, cand, synced, final, kept, faults>>

ScriptExits(h) ==
  /\ \/ script[h] = "check" /\ ~CheckCandidate(h) /\ UNCHANGED faults
     \/ script[h] = "flush" /\ cand[h] = None /\ UNCHANGED faults
     \/ script[h] = "link" /\ (final # Absent \/ cand[h] = None) /\ UNCHANGED faults
     \/ script[h] = "verify" /\ ~CheckFinal(h) /\ UNCHANGED faults
     \/ script[h] = "mark" /\ pc[h] # "publish" /\ UNCHANGED faults
     \/ script[h] \in {"check", "flush", "link", "drop", "verify", "settle"} /\ Fault
  /\ Exit(h)

-----------------------------------------------------------------------------
(* The world. *)

EditRom(h) == \E c \in Contents \ {rom[h]} :
  /\ pc[h] \in {"preflight", "copy", "rehash"} /\ Fault
  /\ rom' = [rom EXCEPT ![h] = c]
  /\ UNCHANGED <<pc, digest, Device, told, outages>>

\* The candidate and the final name are one inode until the candidate is removed.
PowerLoss ==
  /\ Fault /\ outages' = outages + 1
  /\ script' = [h \in Hosts |-> IF script[h] \in {"idle", "marked"} THEN script[h] ELSE "exited"]
  /\ rollback' = [h \in Hosts |-> FALSE]
  /\ \E after \in {final, IF kept THEN final ELSE Absent} :
       final' = IF after # Absent /\ ~synced[after.by] THEN [after EXCEPT !.what = Torn] ELSE after
  /\ kept' = (final' # Absent)
  /\ cand' = [h \in Hosts |-> IF cand[h] # None /\ ~synced[h] THEN Torn ELSE cand[h]]
  /\ UNCHANGED <<pc, rom, digest, synced, told>>

UploadStep(h) ==
  \/ ValidateRom(h) \/ Precheck(h) \/ Refused(h) \/ Copy(h) \/ CopyFails(h) \/ Rehash(h)
  \/ Passed(h) \/ PublishFailed(h) \/ LoseConnection(h) \/ CleanupCandidate(h) \/ CleanupFails(h)
  \/ ScriptCheck(h) \/ ScriptFlush(h) \/ ScriptLink(h) \/ ScriptDrop(h) \/ ScriptVerify(h)
  \/ ScriptSettle(h) \/ ScriptMark(h) \/ ScriptExits(h) \/ EditRom(h)

UploadNext == PowerLoss \/ \E h \in Hosts : UploadStep(h)

UploadSpec == UploadInit /\ [][UploadNext]_romVars

-----------------------------------------------------------------------------
(* What is at the ROM's name is the whole file of the host that put it there, at
   every moment and after any loss of power: no reader of the handheld sees a
   partial ROM, although the copy, the link and the sync are separate steps.  *)
FinalIsWhole == final # Absent => final.what = digest[final.by]

(* A host that printed PASS has its file at the name, durably: no other host's
   script, cleanup or rollback and no loss of power takes it away again.      *)
PassIsTrue == \A h \in Hosts :
  told[h] = "pass" => final = [by |-> h, what |-> digest[h]] /\ kept

(* While the handheld keeps its power, a host that ended without the warning
   left no hidden candidate, whichever of the script and the cleanup came
   first.                                                                     *)
LeftoverIsNamed == \A h \in Hosts :
  outages = 0 /\ pc[h] = "end" /\ told[h] # "warned" => cand[h] = None
-----------------------------------------------------------------------------
(* What keeps them from step to step: a rollback takes a published file away, and
   a loss of power tears one whose content was not synced; but a rollback flag
   stands only in the script that made the link (RollbackIsOwn), and nothing is
   linked that was not checked and synced (CandidateChecked, LinkedIsWhole).  *)
Checked   == {"flush", "link"}
Linked    == {"drop", "verify", "settle", "mark"}
ScriptAt  == {"idle", "check", "marked", "exited"} \cup Checked \cup Linked
HostAt    == {"validate", "preflight", "copy", "rehash", "publish", "cleanup", "end"}
Publishes == {"publish", "cleanup", "end"}
Files     == [by : Hosts \cup {None}, what : Contents \cup {None, Torn}]

UploadTypes ==
    /\ pc \in [Hosts -> HostAt] /\ script \in [Hosts -> ScriptAt]
    /\ rom \in [Hosts -> Contents] /\ digest \in [Hosts -> Contents \cup {None}]
    /\ cand \in [Hosts -> Contents \cup {None, Torn}]
    /\ synced \in [Hosts -> BOOLEAN] /\ rollback \in [Hosts -> BOOLEAN]
    /\ told \in [Hosts -> {None, "pass", "error", "warned"}]
    /\ final \in Files /\ outages \in Nat

\* A script runs only for a host that has its digest and made its copy.
ScriptIsLate == \A h \in Hosts : script[h] # "idle" => pc[h] \in Publishes

CandidateChecked == \A h \in Hosts :
    /\ script[h] \in Checked => cand[h] \in {None, digest[h]}
    /\ script[h] = "link" => synced[h] = TRUE

LinkedIsWhole == final # Absent =>
    /\ final.by \in Hosts /\ final.what = digest[final.by]
    /\ synced[final.by] = TRUE /\ script[final.by] # "idle"

RollbackIsOwn == \A h \in Hosts :
    /\ rollback[h] = TRUE => final # Absent /\ final.by = h
    /\ script[h] \in Linked => rollback[h] = TRUE

MarkIsTrue == \A h \in Hosts :
    /\ script[h] \in {"mark", "marked"} => final # Absent /\ final.by = h /\ kept = TRUE
    /\ told[h] = "pass" => script[h] = "marked"

\* A candidate is there from the copy to the drop of the script.
CandidateIsBetween == \A h \in Hosts :
    pc[h] \in {"validate", "preflight"} \/ script[h] \in {"verify", "settle", "mark", "marked"} =>
        cand[h] = None

UploadInv ==
    /\ UploadTypes /\ ScriptIsLate /\ CandidateChecked /\ LinkedIsWhole
    /\ RollbackIsOwn /\ MarkIsTrue /\ CandidateIsBetween /\ LeftoverIsNamed
=============================================================================
