----------------------------- MODULE MCHandheld -----------------------------
(***************************************************************************)
(* The programs of the handheld, and of the operator's machine that talk   *)
(* to it, which share nothing while they run: the Wi-Fi share, the port    *)
(* store and port sessions, CPU and remote control, ROM upload and screen  *)
(* fetch, the display diagnostic, the shortcut policy of the input router, *)
(* and the Card Agent with its endpoint.  One model checks one of them at  *)
(* a time: part names it, and the variables x1, x2, ... are its variables  *)
(* in the order of its module.                                             *)
(***************************************************************************)
EXTENDS Naturals, FiniteSets, TLC

CONSTANTS
    Peers,                                                             \* connections, sessions,
                                                                       \* clients, hosts, fetches
    Slots, Transfers, MaxAttempts, Window, Blocks, ShareTime, Signals, \* the share
    Pkgs, Runtimes, MaxOps, LosesContent,                              \* the port store
    Seconds, SharedGrace, OwnGrace, MaxTime, Crashes,                  \* a port session
    Freqs, Governors, Caps, CpuRequests,                               \* CPU control
    Binaries, MaxRestarts, MaxRequests, MaxSamples,                    \* remote control
    Contents, Names, Lengths, FetchFaults,                             \* ROM upload, screen fetch
    Units, Checkpoints, MaxEvents,                                     \* the display diagnostic
    Controls, ChordMs, HoldMs,                                         \* the shortcut policy
    Agents, Nobody, Asked,                                              \* the Card Agent
    MaxFaults

ASSUME NamesAssumption == Nobody \notin Agents
ASSUME PeersAssumption == {"free", "main", "none", "owner"} \cap Peers = {}
ASSUME ShareAssumption == MaxAttempts \in Nat /\ Window \in Nat /\ Blocks \in Nat
ASSUME StoreAssumption == MaxOps \in Nat
ASSUME LengthsAssumption == Lengths \subseteq Nat \ {0}
ASSUME FrequenciesAssumption == Freqs \subseteq Nat /\ Caps \subseteq Nat
ASSUME DelaysAssumption == ChordMs \in Nat /\ HoldMs \in Nat
ASSUME AgentAssumption ==
    /\ IsFiniteSet(Peers) /\ Nobody \notin Peers \cup {"boot-a"}
    /\ Asked \subseteq {"read", "clone", "mount", "unmount", "write"}

VARIABLES
    part,   \* the program that runs
    x1, x2, x3, x4, x5, x6, x7, x8, x9, x10, x11, x12, x13, x14, x15, x16, x17, x18,
    x19, x20, x21   \* its variables

mcVars == <<part, x1, x2, x3, x4, x5, x6, x7, x8, x9, x10, x11, x12, x13, x14, x15, x16, x17,
            x18, x19, x20, x21>>

\* One write of one partition.
Single == [o \in {"boot-a"} |-> [partition |-> "boot", before |-> "old", source |-> "new"]]

\* Peers are interchangeable, none is named.
Interchangeable == Permutations(Peers)

Share == INSTANCE FileShare WITH
  Conns <- Peers, MaxTime <- ShareTime,
  trouble <- x1, now <- x2, file <- x3, partial <- x4, stopped <- x5, lock <- x6,
  sockets <- x7, cut <- x8, guesses <- x9, busy <- x10, main <- x11, watcher <- x12,
  parent <- x13, sig <- x14, pc <- x15, kind <- x16, got <- x17

Store == INSTANCE PortStore WITH
  vis <- x1, dur <- x2, gen <- x3, unsynced <- x4, owner <- x5, needs <- x6,
  pool <- x7, reverted <- x8, ops <- x9, faults <- x10, step <- x11, kind <- x12,
  pkg <- x13, mem <- x14, fresh <- x15, answer <- x16, overlooked <- x17, changed <- x18

Session == INSTANCE PortSession WITH
  Sessions <- Peers,
  pc <- x1, partial <- x2, config <- x3, child <- x4, by <- x5, shared <- x6,
  requested <- x7, began <- x8, bounded <- x9, grace <- x10, forced <- x11,
  result <- x12, clock <- x13, crashes <- x14

Cpu == INSTANCE CpuControl WITH
  MaxRequests <- CpuRequests,
  node <- x1, lease <- x2, previous <- x3, target <- x4, scene <- x5, plan <- x6,
  at <- x7, reply <- x8, faults <- x9, requests <- x10

Remote == INSTANCE RemoteControl WITH
  Clients <- Peers,
  session <- x1, seq <- x2, bin <- x3, served <- x4, injecting <- x5, acts <- x6,
  out <- x7, back <- x8, know <- x9, at <- x10, want <- x11, samples <- x12,
  picture <- x13, trace <- x14, requests <- x15

Upload == INSTANCE RomUpload WITH
  Hosts <- Peers,
  pc <- x1, rom <- x2, digest <- x3, script <- x4, rollback <- x5, cand <- x6,
  synced <- x7, final <- x8, kept <- x9, told <- x10, faults <- x11, outages <- x12

Fetch == INSTANCE ScreenFetch WITH
  Fetches <- Peers, MaxFaults <- FetchFaults,
  pc <- x1, marker <- x2, export <- x3, temp <- x4, final <- x5, told <- x6,
  faults <- x7

Display == INSTANCE DisplayDiagnostic WITH
  mode <- x1, unit <- x2, snapshots <- x3, vt <- x4, vtFirst <- x5, vtKept <- x6,
  fb <- x7, fbKept <- x8, vpg <- x9, vpgTried <- x10, others <- x11, low <- x12,
  logged <- x13, signalled <- x14, failed <- x15, lost <- x16, seen <- x17,
  pc <- x18, passed <- x19, events <- x20, faults <- x21

Policy == INSTANCE InputPolicy WITH
  keys <- x1, waiting <- x2, ownerPending <- x3, pending <- x4, clickAge <- x5,
  chordSpent <- x6, previous <- x7, selecting <- x8, shortcut <- x9,
  startAge <- x10, shortcutSpent <- x11, delivered <- x12, asked <- x13,
  owed <- x14, clicking <- x15, together <- x16

Endpoint == INSTANCE AgentEndpoint WITH
  None <- Nobody,
  flock <- x1, socket <- x2, token <- x3, pc <- x4

Agent == INSTANCE CardAgent WITH
  Conns <- Peers, Plan <- Single, None <- Nobody,
  server <- x1, handlers <- x2, stopping <- x3, reserved <- x4, active <- x5,
  consumed <- x6, verified <- x7, lock <- x8, claim <- x9, pc <- x10, cmd <- x11,
  op <- x12, result <- x13, mounted <- x14, card <- x15, soft <- x16, status <- x17,
  kept <- x18, receipt <- x19

\* The slots that a program with fewer variables leaves alone.
From20 == <<x20, x21>>
From19 == <<x19, From20>>
From18 == <<x18, From19>>
From17 == <<x17, From18>>
From16 == <<x16, From17>>
From15 == <<x15, From16>>
From13 == <<x13, x14, From15>>
From11 == <<x11, x12, From13>>
From8 == <<x8, x9, x10, From11>>
From5 == <<x5, x6, x7, From8>>

Idle20 == x20 = 0 /\ x21 = 0
Idle19 == x19 = 0 /\ Idle20
Idle18 == x18 = 0 /\ Idle19
Idle17 == x17 = 0 /\ Idle18
Idle16 == x16 = 0 /\ Idle17
Idle15 == x15 = 0 /\ Idle16
Idle13 == x13 = 0 /\ x14 = 0 /\ Idle15
Idle11 == x11 = 0 /\ x12 = 0 /\ Idle13
Idle8 == x8 = 0 /\ x9 = 0 /\ x10 = 0 /\ Idle11
Idle5 == x5 = 0 /\ x6 = 0 /\ x7 = 0 /\ Idle8

Init ==
    \/ part = "share" /\ Share!ShareInit /\ Idle18
    \/ part = "store" /\ Store!StoreInit /\ Idle19
    \/ part = "session" /\ Session!SessionInit /\ Idle15
    \/ part = "cpu" /\ Cpu!CpuInit /\ Idle11
    \/ part = "remote" /\ Remote!ControlInit /\ Idle16
    \/ part = "upload" /\ Upload!UploadInit /\ Idle13
    \/ part = "fetch" /\ Fetch!FetchInit /\ Idle8
    \/ part = "display" /\ Display!DiagInit
    \/ part = "policy" /\ Policy!Init /\ Idle17
    \/ part = "endpoint" /\ Endpoint!Init /\ Idle5
    \/ part = "agent" /\ Agent!Init /\ Idle20

ShareStep == part = "share" /\ Share!ShareNext /\ UNCHANGED <<part, From18>>
StoreStep == part = "store" /\ Store!StoreNext /\ UNCHANGED <<part, From19>>
SessionStep == part = "session" /\ Session!SessionNext /\ UNCHANGED <<part, From15>>
CpuStep == part = "cpu" /\ Cpu!CpuNext /\ UNCHANGED <<part, From11>>
RemoteStep == part = "remote" /\ Remote!ControlNext /\ UNCHANGED <<part, From16>>
UploadStep == part = "upload" /\ Upload!UploadNext /\ UNCHANGED <<part, From13>>
FetchStep == part = "fetch" /\ Fetch!FetchNext /\ UNCHANGED <<part, From8>>
DisplayStep == part = "display" /\ Display!DiagNext /\ UNCHANGED part
PolicyStep == part = "policy" /\ Policy!Next /\ UNCHANGED <<part, From17>>
EndpointStep == part = "endpoint" /\ Endpoint!Next /\ UNCHANGED <<part, From5>>
AgentStep == part = "agent" /\ Agent!Next /\ UNCHANGED <<part, From20>>

Next == ShareStep \/ StoreStep \/ SessionStep \/ CpuStep \/ RemoteStep \/ UploadStep \/
        FetchStep \/ DisplayStep \/ PolicyStep \/ EndpointStep \/ AgentStep

Spec == Init /\ [][Next]_mcVars

-----------------------------------------------------------------------------
(* The Wi-Fi share: what is published was received whole, no window sees more
   wrong codes than the limit however many connections guess, and when the main
   thread joins the handlers every socket was cut (transfer_server.py). *)
ShareHolds == part = "share" => Share!NothingHalf /\ Share!GuessesBounded /\ Share!JoinWaitsForCut

(* The port store: no generation goes while an index that names it can come back, and
   no runtime unless an invocation began while an older index still could; an answer
   is true on the medium, and one that denies a change has made none (manager.py). *)
PortsHold == part = "store" => Store!GenerationsStay /\ Store!RuntimesStay /\ Store!AnswerIsTrue

(* A port session that ended leaves no game behind, and its result does not hide
   a kill and names the reason, whatever raced (local_port.py). *)
SessionEndsTrue == part = "session" => Session!NoOrphan /\ Session!ResultIsTrue

(* The answer of the CPU helper is the policy in force, and no order of its writes
   is one that the kernel refuses (cpu-control.py). *)
ClockAnswerIsTrue == part = "cpu" => Cpu!AnswerTellsPolicy /\ Cpu!OrderIsAccepted

(* One observed state of the shell is acted on at most once, an answered action
   was executed for its own request, and a record names only what it has, with
   late and lost messages and restarts (control.py, control.cpp). *)
RequestActsOnce ==
    part = "remote" => Remote!ActsOnce /\ Remote!AnswerIsOwnAct /\ Remote!RecordIsWhole

(* An uploaded ROM is whole under its name at every moment, PASS is durable, a
   left candidate is told of, and a fetched picture is a complete one
   (upload-rom.py, fetch-screen.py). *)
TransferIsWhole ==
    /\ part = "upload" => Upload!FinalIsWhole /\ Upload!PassIsTrue /\ Upload!LeftoverIsNamed
    /\ part = "fetch" => Fetch!FinalIsPicture

(* The display diagnostic leaves terminal, framebuffer, pattern generator and
   services as it found them or says what it could not put back
   (r46h-display-diagnostic.py). *)
LeavesAsFound == part = "display" => Display!LeavesAsFound

(* No press of the pad is lost behind the gestures, the panel opens only for
   clicks that overlap in time and a kill only for a full hold (input-route.h). *)
GesturesHold ==
    part = "policy" => Policy!EveryPressArrives /\ Policy!PanelIsTimely /\ Policy!KillIsHeld

(* No agent that starts, fails to start, ends or was killed takes the endpoint of
   the one that serves (UnixServer.swift). *)
EndpointIsServed == part = "endpoint" => Endpoint!EndpointIsServed

(* What the client of a write is told agrees with the card and with the evidence,
   and the counts and locks of the agent stay in their ranges, also with clones
   that take a name of the evidence (UnixServer.swift 112-137, 417-470). *)
AnswerIsTrue == part = "agent" => Agent!AnswerIsTrue /\ Agent!TypeOK

(* No step replaces what another party put there: a published upload, a fetched
   picture or its export, or settings that a game saved (transfer_server.py,
   fetch-screen.py, local_port.py). *)
NothingReplaced ==
    [][/\ part = "share" => Share!NeverReplaced
       /\ part = "fetch" => Fetch!NoPictureLost /\ Fetch!NothingReplaced
       /\ part = "session" => Session!SettingsStay]_mcVars
=============================================================================
