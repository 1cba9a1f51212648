---------------------------- MODULE DisplayDiagnostic ----------------------------
(* scripts/r46h-display-diagnostic.py: one controlled test of the display path.  It
   stops the display services, takes the active virtual terminal into graphics
   mode, shows a framebuffer pattern or the pattern generator of the DSI host for a
   while, and must leave the handheld as it found it, whatever fails on the way:
   a command, a descriptor that another process opens, a service that comes back,
   a battery that drops, or a signal at any moment.                           *)
EXTENDS FiniteSets, Naturals

CONSTANTS Units,       \* DISPLAY_UNITS
          Checkpoints, \* bound: observation_checkpoints of one window
          MaxEvents,   \* bound: what other programs and the operator do meanwhile
          MaxFaults    \* bound: operations of the program that fail

Modes == {"prepare", "pattern", "vpg"}

VARIABLES mode,      \* which test was asked for
          unit,      \* [Units -> "active" or "inactive"]
          snapshots, \* units that were active when captured, or {} before
          vt,        \* mode of the active terminal: "text" or "graphics"
          vtFirst,   \* its mode when the program starts
          vtKept,    \* original mode and open descriptor, or "none"
          fb,        \* framebuffer: "original", "pattern" or "foreign"
          fbKept,    \* the snapshot of the framebuffer is in memory
          vpg,       \* flag of the host pattern generator
          vpgTried,  \* enable_attempted, and the attempts to switch it off so far
          others,    \* how other processes hold the display
          low,       \* the battery is outside the safe range
          logged,    \* the kernel log has a new display fault
          signalled, \* RECEIVED_SIGNALS is not empty
          failed,    \* primary_error
          lost,      \* what a cleanup could not put back
          seen,      \* checkpoints passed
          pc, passed, events, faults

Services == <<unit, snapshots>>
Terminal == <<vt, vtFirst, vtKept>>
Frame    == <<fb, fbKept>>
Generator == <<vpg, vpgTried>>
World    == <<others, low, logged, signalled, events>>
Outcome  == <<failed, lost, passed>>

diagVars == <<mode, Services, Terminal, Frame, Generator, World, Outcome, seen, pc, faults>>

DiagInit ==
  /\ mode \in Modes
  /\ unit \in [Units -> {"active", "inactive"}] /\ snapshots = {}
  /\ vt \in {"text", "graphics"} /\ vtFirst = vt /\ vtKept = "none"
  /\ fb = "original" /\ fbKept = FALSE
  /\ vpg = FALSE /\ vpgTried = 0
  /\ others = {} /\ low = FALSE /\ logged = FALSE /\ signalled = FALSE /\ events = 0
  /\ failed = FALSE /\ lost = {} /\ passed = FALSE
  /\ seen = 0 /\ pc = "target" /\ faults = 0

Active == {u \in Units : unit[u] = "active"}

-----------------------------------------------------------------------------
(* Checks. *)

\* record_signal only records; commands, sleeps and rows look (raise_if_signal_received).
NotInterrupted == ~signalled

\* read_battery_voltage: exactly one battery, by voltage_now or else voltage_avg.
SafeBattery == ~low

NoLegacyProcesses == "process" \notin others
NoDisplayHolders  == "descriptor" \notin others /\ "map" \notin others
NoDrmClients      == "client" \notin others
FuserClear        == "descriptor" \notin others

\* require_quiescent: every sample finds nobody at the display, the units that were
\* stopped still stopped and the others as they were.
Quiescent ==
  /\ NoLegacyProcesses /\ NoDisplayHolders /\ NoDrmClients /\ FuserClear
  /\ Active = {}

\* drm_scanout_fingerprint: fbcon's buffer is still the one scanned out.
ScanoutKept == "client" \notin others

\* framebuffer_fingerprint: the device and its mode are those of the first opening;
\* nothing here changes them.
PatternShown == fb = "pattern"

Fails(from, to) ==
  /\ pc = from /\ pc' = to
  /\ faults < MaxFaults /\ faults' = faults + 1
  /\ failed' = TRUE

-----------------------------------------------------------------------------
(* Before anything is changed. *)

\* validate_target runs before the handlers are installed: a refusal ends the program.
ValidateTarget ==
  /\ pc = "target" /\ pc' = IF SafeBattery THEN "capture" ELSE "end"
  /\ failed' = ~SafeBattery
  /\ UNCHANGED <<mode, Services, Terminal, Frame, Generator, World, lost, passed, seen, faults>>

CaptureDisplayUnits ==
  /\ pc = "capture" /\ NotInterrupted /\ pc' = "stop"
  /\ snapshots' = Active
  /\ UNCHANGED <<mode, unit, Terminal, Frame, Generator, World, Outcome, seen, faults>>

\* One systemctl at a time; the unit may be stopped although the command failed.
StopDisplayUnit ==
  /\ pc = "stop" /\ NotInterrupted
  /\ \E u \in Active \cap snapshots :
       /\ unit' = [unit EXCEPT ![u] = "inactive"]
       /\ \/ UNCHANGED <<pc, failed, faults>>
          \/ Fails("stop", "vtBack")
  /\ UNCHANGED <<mode, snapshots, Terminal, Frame, Generator, World, lost, passed, seen>>

\* enter_graphics_vt: when the mode was set and cannot be verified it is set back,
\* and the descriptor is closed: the cleanup of main knows nothing of it.
EnterGraphicsVt ==
  /\ pc = "stop" /\ Active \cap snapshots = {}
  /\ \/ /\ vt' = "graphics" /\ vtKept' = vt /\ pc' = "clean"
        /\ UNCHANGED <<failed, lost, faults>>
     \/ /\ Fails("stop", "vtBack") /\ UNCHANGED <<Terminal, lost>>
     \/ /\ Fails("stop", "vtBack") /\ vt # "graphics" /\ faults + 1 < MaxFaults
        /\ vt' = "graphics" /\ lost' = lost \cup {"vt"} /\ UNCHANGED vtKept
  /\ UNCHANGED <<mode, vtFirst, Services, Frame, Generator, World, passed, seen>>

FirstQuiescent ==
  /\ pc = "clean" /\ NotInterrupted /\ Quiescent /\ ScanoutKept
  /\ pc' = CASE mode = "prepare" -> "vtBack" [] mode = "pattern" -> "snapshot"
             [] mode = "vpg" -> "enable"
  /\ UNCHANGED <<mode, Services, Terminal, Frame, Generator, World, Outcome, seen, faults>>

\* mutant: an interrupted write goes straight to the cleanup of main
InterruptedOutside ==
  /\ pc \in {"capture", "stop", "clean", "write", "observe", "after"} /\ signalled
  /\ pc' = "vtBack" /\ failed' = TRUE
  /\ UNCHANGED <<mode, Services, Terminal, Frame, Generator, World, lost, passed, seen, faults>>

\* Any check that fails, and any signal where the program looks for one.
Interrupted ==
  /\ pc \in {"capture", "stop", "clean", "write", "observe", "after"}
  /\ \/ signalled
     \/ pc \in {"clean", "after", "observe"} /\ ~(Quiescent /\ ScanoutKept)
     \/ pc = "after" /\ logged
     \/ pc = "observe" /\ (low \/ (mode = "pattern" /\ ~PatternShown))
  /\ pc' = IF pc \in {"write", "observe"}
           THEN IF mode = "pattern" THEN "fbBack" ELSE "vpgBack" ELSE "vtBack"
  /\ failed' = TRUE
  /\ UNCHANGED <<mode, Services, Terminal, Frame, Generator, World, lost, passed, seen, faults>>

-----------------------------------------------------------------------------
(* run_pattern. *)

\* Open, check the mode and read all of the framebuffer into memory.
Snapshot ==
  /\ pc = "snapshot"
  /\ \/ fbKept' = TRUE /\ pc' = "write" /\ UNCHANGED <<failed, faults>>
     \/ Fails("snapshot", "vtBack") /\ UNCHANGED fbKept
  /\ UNCHANGED <<mode, Services, Terminal, fb, Generator, World, lost, passed, seen>>

\* Row by row: what is on the screen may be the pattern in part.
WritePattern ==
  /\ pc = "write" /\ NotInterrupted
  /\ fb' = "pattern"
  /\ \/ pc' = "observe" /\ UNCHANGED <<failed, faults>>
     \/ Fails("write", "fbBack")
  /\ UNCHANGED <<mode, Services, Terminal, fbKept, Generator, World, lost, passed, seen>>

\* The finally clause: the snapshot is written back and read again, whatever the
\* reason for leaving was.
RestoreFramebuffer ==
  /\ pc = "fbBack" /\ pc' = IF failed THEN "vtBack" ELSE "after"
  /\ fbKept /\ fb' = "original"
  /\ UNCHANGED <<mode, Services, Terminal, fbKept, Generator, World, Outcome, seen, faults>>

RestoreFramebufferFails ==
  /\ Fails("fbBack", "vtBack") /\ lost' = lost \cup {"fb"}
  /\ UNCHANGED <<mode, Services, Terminal, Frame, Generator, World, passed, seen>>

-----------------------------------------------------------------------------
(* run_host_vpg. *)

\* A write that is not confirmed may have taken effect: enable_attempted is set first.
EnableVpg ==
  /\ pc = "enable" /\ vpgTried' = 1
  /\ \/ vpg' = TRUE /\ pc' = "observe" /\ UNCHANGED <<failed, faults>>
     \/ vpg' \in BOOLEAN /\ Fails("enable", "vpgBack")
  /\ UNCHANGED <<mode, Services, Terminal, Frame, World, lost, passed, seen>>

\* restore_host_vpg: two attempts, each read back.
RestoreVpg ==
  /\ pc = "vpgBack" /\ pc' = IF failed THEN "vtBack" ELSE "after"
  /\ vpg' = FALSE
  /\ UNCHANGED <<mode, Services, Terminal, Frame, vpgTried, World, Outcome, seen, faults>>

RestoreVpgFails ==
  /\ pc = "vpgBack" /\ faults < MaxFaults /\ faults' = faults + 1
  /\ vpgTried' = vpgTried + 1
  /\ IF vpgTried < 2 THEN UNCHANGED <<pc, failed, lost>>
     ELSE pc' = "vtBack" /\ failed' = TRUE /\ lost' = lost \cup {"vpg"}
  /\ UNCHANGED <<mode, Services, Terminal, Frame, vpg, World, passed, seen>>

-----------------------------------------------------------------------------
(* Both tests, and the cleanup of main. *)

\* At each checkpoint: the battery, the pattern, nobody at the display, the scanout.
Observe ==
  /\ pc = "observe" /\ NotInterrupted
  /\ SafeBattery /\ Quiescent /\ ScanoutKept
  /\ mode = "pattern" => PatternShown
  /\ seen' = seen + 1
  /\ pc' = IF seen' < Checkpoints THEN "observe"
           ELSE IF mode = "pattern" THEN "fbBack" ELSE "vpgBack"
  /\ UNCHANGED <<mode, Services, Terminal, Frame, Generator, World, Outcome, faults>>

\* The final samples, and no new fault in the kernel's log.
AfterTest ==
  /\ pc = "after" /\ NotInterrupted /\ Quiescent /\ ScanoutKept /\ ~logged
  /\ pc' = "vtBack"
  /\ UNCHANGED <<mode, Services, Terminal, Frame, Generator, World, Outcome, seen, faults>>

\* CLEANUP_ACTIVE: no signal stops what follows, and one failure not the next step.
RestoreVt ==
  /\ pc = "vtBack" /\ pc' = "unitsBack"
  /\ vtKept' = "none"
  /\ IF vtKept = "none" THEN UNCHANGED <<vt, lost, faults>>
     ELSE \/ vt' = vtKept /\ UNCHANGED <<lost, faults>>
          \/ /\ faults < MaxFaults /\ faults' = faults + 1
             /\ lost' = lost \cup {"vt"} /\ UNCHANGED vt
  /\ UNCHANGED <<mode, vtFirst, Services, Frame, Generator, World, failed, passed, seen>>

\* restore_display_units goes through all of them in order, also after an error.
RestoreDisplayUnits ==
  /\ pc = "unitsBack" /\ pc' = "report"
  /\ \E stuck \in SUBSET snapshots :
       /\ Cardinality(stuck) <= MaxFaults - faults /\ faults' = faults + Cardinality(stuck)
       /\ unit' = [u \in Units |-> IF u \in snapshots \ stuck THEN "active" ELSE unit[u]]
       /\ lost' = IF stuck = {} THEN lost ELSE lost \cup {"units"}
  /\ UNCHANGED <<mode, snapshots, Terminal, Frame, Generator, World, failed, passed, seen>>

\* The last word: a signal that was only recorded, an error or a failed cleanup
\* make the run a failure.
Report ==
  /\ pc = "report" /\ pc' = "end"
  /\ passed' = (~failed /\ ~signalled /\ lost = {})
  /\ failed' = (failed \/ signalled \/ lost # {})
  /\ UNCHANGED <<mode, Services, Terminal, Frame, Generator, World, lost, seen, faults>>

-----------------------------------------------------------------------------
(* The rest of the system while the program runs. *)

Signal == ~signalled /\ signalled' = TRUE /\ UNCHANGED <<unit, fb, others, low, logged>>
Intrude ==
  /\ \/ \E kind \in {"process", "descriptor", "map", "client"} \ others :
          others' = others \cup {kind} /\ UNCHANGED fb
     \/ \E kind \in others : others' = others \ {kind} /\ UNCHANGED fb
     \/ others \cap {"descriptor", "map"} # {} /\ fb' = "foreign" /\ UNCHANGED others
  /\ UNCHANGED <<unit, low, logged, signalled>>
UnitReturns ==
  /\ \E u \in Units \ Active : unit' = [unit EXCEPT ![u] = "active"]
  /\ UNCHANGED <<fb, others, low, logged, signalled>>
BatteryDrops == ~low /\ low' = TRUE /\ UNCHANGED <<unit, fb, others, logged, signalled>>
KernelFault  == ~logged /\ logged' = TRUE /\ UNCHANGED <<unit, fb, others, low, signalled>>

Elsewhere ==
  /\ pc \notin {"target", "end"} /\ events < MaxEvents /\ events' = events + 1
  /\ Signal \/ Intrude \/ UnitReturns \/ BatteryDrops \/ KernelFault
  /\ UNCHANGED <<mode, snapshots, Terminal, fbKept, Generator, Outcome, seen, pc, faults>>

DiagNext ==
  \/ ValidateTarget \/ CaptureDisplayUnits \/ StopDisplayUnit \/ EnterGraphicsVt
  \/ FirstQuiescent \/ Interrupted \/ Snapshot \/ WritePattern \/ RestoreFramebuffer
  \/ RestoreFramebufferFails \/ EnableVpg \/ RestoreVpg \/ RestoreVpgFails \/ Observe
  \/ AfterTest \/ RestoreVt \/ RestoreDisplayUnits \/ Report \/ Elsewhere

DiagSpec == DiagInit /\ [][DiagNext]_diagVars

-----------------------------------------------------------------------------
(* Wherever the program is interrupted or fails, at its end everything is back but
   what it reports it could not put back: the terminal mode, the framebuffer, the
   generator's flag and every service that was active; and a PASS leaves nothing
   behind.                                                                    *)
LeavesAsFound ==
  pc = "end" =>
    /\ "vt" \notin lost => vt = vtFirst
    /\ "fb" \notin lost => fb # "pattern"
    /\ "vpg" \notin lost => ~vpg
    /\ "units" \notin lost => snapshots \subseteq Active
    /\ lost # {} => ~passed
-----------------------------------------------------------------------------
(* What keeps it from step to step: where the program still has to put a thing
   back, and what it knows of how it was.                                     *)

DiagTypes ==
  /\ mode \in Modes /\ snapshots \subseteq Units
  /\ unit \in [Units -> {"active", "inactive"}]
  /\ vt \in {"text", "graphics"} /\ vtFirst \in {"text", "graphics"}
  /\ pc \in {"snapshot", "write"} => mode = "pattern"
  /\ pc = "enable" => mode = "vpg"

TerminalIsKnown ==
  /\ pc \in {"target", "capture", "stop"} => vtKept = "none" /\ lost = {}
  /\ pc \in {"unitsBack", "report", "end"} => vtKept = "none"
  /\ vtKept = "none" /\ "vt" \notin lost => vt = vtFirst
  /\ vtKept # "none" => vtKept = vtFirst

FrameIsDue ==
  fb = "pattern" /\ "fb" \notin lost => pc \in {"write", "observe", "fbBack"} /\ mode = "pattern"

GeneratorIsDue == vpg /\ "vpg" \notin lost => pc \in {"observe", "vpgBack"} /\ mode = "vpg"

UnitsAreBack ==
  /\ pc = "target" => snapshots = {}
  /\ pc \in {"report", "end"} /\ "units" \notin lost => snapshots \subseteq Active

PassIsLast == passed => pc = "end" /\ lost = {}

DiagInv ==
  /\ DiagTypes /\ TerminalIsKnown /\ FrameIsDue /\ GeneratorIsDue /\ UnitsAreBack /\ PassIsLast
=============================================================================
