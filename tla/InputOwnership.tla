--------------------------- MODULE InputOwnership ---------------------------
(***************************************************************************)
(* Who reads the pad.  The input router (gaming-wayland/input-router.cpp)  *)
(* owns the evdev device and gives each sample to the desktop, as a State  *)
(* packet, or to the virtual gamepad of one application slot.  The desktop *)
(* (gaming-shell/handheld.cpp) decides the owner: once the compositor has  *)
(* agreed to the scene it sends Mode commands, numbered, over a seqpacket  *)
(* channel, and believes an owner only after the Ack.  System actions,     *)
(* tool input injected by the remote control, lost evdev reports and       *)
(* changes of the running applications meet these commands in flight.      *)
(*                                                                         *)
(* A sample is 0 (neutral), a press (numbered) or Tool (injected).  What *)
(* the policy makes of a press (deliver it, defer it, or take it for a     *)
(* system action) is free here; InputPolicy has the rules.                 *)
(***************************************************************************)
EXTENDS Naturals, Sequences, FiniteSets

CONSTANTS
    Apps, None, Tool, Dropped,
    Slots,        \* the virtual gamepads: 0..3 in the code
    MaxPresses,   \* bound: presses of the pad
    MaxScenes,    \* bound: launches, switches, exits and panel changes
    MaxInjects,   \* bound: tool inputs
    MaxCaptures,  \* bound: screen captures, for the policy requests they cause
    MaxBacklog    \* bound: evdev reports waiting; a full queue is dropped

ASSUME OwnershipAssumption ==
    /\ 0 \in Slots /\ Slots \subseteq Nat /\ IsFiniteSet(Apps)
    /\ Cardinality(Apps) <= Cardinality(Slots)
    /\ None \notin Apps \cup Slots /\ None \notin {"ui", "game", "deadline", "protocol"}
    /\ {Tool, Dropped} \cap Nat = {}
    /\ {MaxPresses, MaxScenes, MaxInjects, MaxCaptures, MaxBacklog} \subseteq Nat
    /\ MaxBacklog # 0

VARIABLES
    pad, presses, backlog,       \* the physical pad and its evdev queue
    input, deferred,             \* the sample last read; the press the policy keeps back
    mode, slot, waiting, ownerPending, syncing, commandSequence,
    remote,                      \* the injection in force (its sequence), or 0
    game, ui,                    \* the last samples the router wrote and sent
    pads,                        \* what each virtual gamepad shows
    toRouter, toSession,         \* the channel
    session,                     \* HandheldSession, see SessionType
    failed,                      \* why the session failed, or None
    active, apps, slotOf,        \* Applications
    quickOpen, homing, capturing,
    scenes, injects, captures,
    got,                         \* press -> who acted on it
    grantee                      \* the application the router's grant was made for

kernel  == <<pad, presses, backlog>>
policy  == <<deferred, mode, slot, waiting, ownerPending, grantee>>
router  == <<input, policy, syncing, commandSequence, remote, game, ui, pads, toSession>>
desktop == <<active, apps, slotOf, quickOpen, homing, capturing>>
bounds  == <<scenes, injects, captures>>
vars    == <<kernel, router, toRouter, session, failed, desktop, bounds, got>>

Presses == 1..MaxPresses
Samples == {0} \cup Presses
Modes   == {"ui", "game"}

Mode(n, m, s, a) == [type |-> "Mode", seq |-> n, mode |-> m, slot |-> s, for |-> a]
Inject(n, s)     == [type |-> "Inject", seq |-> n, slot |-> s]
CancelInject(n)  == [type |-> "CancelInject", seq |-> n]
State(n, m, s)   == [type |-> "State", seq |-> n, mode |-> m, sample |-> s]
Ack(n, m, s)     == [type |-> "Ack", seq |-> n, mode |-> m, slot |-> s]
Answer(t, n)     == [type |-> t, seq |-> n]
Action(n, t)     == [type |-> t, seq |-> n]

-----------------------------------------------------------------------------
(* The pad and the kernel's queue of its reports. *)

Queue(s) == backlog' = IF Len(backlog) < MaxBacklog THEN Append(backlog, s) ELSE <<Dropped, s>>

Press ==
    /\ pad = 0 /\ presses < MaxPresses
    /\ presses' = presses + 1 /\ pad' = presses' /\ Queue(pad')
    /\ UNCHANGED <<router, toRouter, session, failed, desktop, bounds, got>>

Release ==
    /\ pad # 0 /\ pad' = 0 /\ Queue(0)
    /\ UNCHANGED <<presses, router, toRouter, session, failed, desktop, bounds, got>>

-----------------------------------------------------------------------------
(* The router. *)

Alive(a) == apps[a] \in {"starting", "running"}

\* the application that has the virtual gamepad s open
OwnerOf(s) == IF \E a \in Apps : Alive(a) /\ slotOf[a] = s
                  THEN CHOOSE a \in Apps : Alive(a) /\ slotOf[a] = s ELSE None

\* writeGame(): only what differs from the last sample is written
Write(s) ==
    /\ game' = s
    /\ pads' = IF s = game THEN pads ELSE [pads EXCEPT ![slot] = s]

\* the owner of the slot acts on the presses it sees appear
Reads(seen) ==
    got' = [p \in Presses |-> IF p \in seen \ {game} /\ OwnerOf(slot) # None
                                  THEN got[p] \cup {OwnerOf(slot)} ELSE got[p]]

\* endRemote()
Done(ended) == IF ended THEN <<Answer("InjectDone", remote)>> ELSE <<>>
End(ended)  == remote' = IF ended THEN 0 ELSE remote

\* neutralize(): the game reads neutral, and the desktop is told so
NeutralState(n, m) == <<State(n, m, 0)>>
Neutralize ==
    /\ Write(0) /\ ui' = 0
    /\ UNCHANGED got

\* Policy.update does nothing: the owner is undecided, or the pad was never let go
Withholds(in, ended) ==
    /\ ownerPending \/ (waiting /\ in # 0)
    /\ IF ended THEN Write(0) ELSE UNCHANGED <<game, pads>>
    /\ toSession' = toSession \o Done(ended)
    /\ UNCHANGED <<deferred, waiting, ownerPending, ui, got>>

Acts(in) == ~ownerPending /\ ~(waiting /\ in # 0)

\* ... delivers out, after a pulse of the deferred press when it was let go
Delivers(in, out, pulse, ended) ==
    LET live == IF remote # 0 /\ ~ended THEN Tool ELSE out
        click == IF pulse THEN deferred ELSE 0
    IN  /\ Acts(in)
        /\ out \in {in, 0} /\ (out # in => in \notin {game, ui})
        /\ pulse => in = 0 /\ deferred # 0
        /\ deferred' = IF out = in THEN 0 ELSE in
        /\ waiting' = FALSE /\ UNCHANGED ownerPending
        /\ \/ /\ mode = "game"
              /\ Write(live) /\ Reads(IF live = Tool THEN {} ELSE {out, click}) /\ UNCHANGED ui
              /\ toSession' = toSession \o Done(ended)
           \/ /\ mode = "ui"
              /\ ui' = out /\ UNCHANGED <<game, pads, got>>
              /\ toSession' = toSession \o Done(ended)
                    \o (IF pulse THEN <<State(commandSequence', mode, click)>> ELSE <<>>)
                    \o (IF pulse \/ out # ui THEN <<State(commandSequence', mode, out)>> ELSE <<>>)

\* ... or asks for a system action: the pad is neutral until the next Mode
Requests(in) ==
    /\ Acts(in) /\ (in # 0 \/ deferred # 0)
    /\ ownerPending' = TRUE /\ waiting' = TRUE /\ deferred' = 0
    /\ Neutralize
    /\ \E t \in {"Panel", "Home"} :
          toSession' = toSession \o Done(remote # 0)
              \o NeutralState(commandSequence', mode) \o <<Action(commandSequence', t)>>

\* tick() with the sample in; an injection ends when its time is over or the pad is touched
Tick(in, ended) ==
    /\ ended => remote # 0
    /\ remote # 0 /\ in # 0 => ended
    /\ input' = in
    /\ UNCHANGED <<mode, slot, grantee>>
    /\ \/ Withholds(in, ended) /\ End(ended)
       \/ \E out \in Samples, pulse \in BOOLEAN : Delivers(in, out, pulse, ended) /\ End(ended)
       \/ Requests(in) /\ End(remote # 0)

RouterOnly == UNCHANGED <<pad, presses, session, failed, desktop, bounds>>

Idle ==
    /\ failed = None /\ ~syncing
    /\ UNCHANGED <<backlog, syncing, commandSequence, toRouter>> /\ RouterOnly
    /\ \E ended \in BOOLEAN : Tick(input, ended)

\* the kernel lost reports: same owner, but neutral until the pad is read again and let go
Lost ==
    /\ Head(backlog) = Dropped
    /\ syncing' = TRUE /\ waiting' = TRUE /\ deferred' = 0
    /\ Neutralize /\ End(remote # 0)
    /\ toSession' = toSession \o Done(remote # 0) \o NeutralState(commandSequence, mode)
    /\ UNCHANGED <<input, mode, slot, ownerPending, grantee>>

ReadEvent ==
    /\ failed = None /\ backlog # <<>>
    /\ backlog' = Tail(backlog)
    /\ UNCHANGED <<commandSequence, toRouter>> /\ RouterOnly
    /\ \/ Lost
       \/ /\ Head(backlog) # Dropped /\ syncing' = FALSE
          /\ \E ended \in BOOLEAN : Tick(IF syncing THEN pad ELSE Head(backlog), ended)

\* the gamepad of the old owner is left neutral
LetGo(c) == pads' = IF game = 0 THEN pads ELSE [pads EXCEPT ![slot] = 0]

\* mutant: the new owner does not wait for the pad to be let go
GateOpen == waiting' = FALSE

\* setMode() and the tick that follows: open only to a neutral pad
Gate == waiting' = (pad # 0)

\* a new owner: both sides neutral, the old owner's reports discarded
TakeMode(c) ==
    /\ commandSequence' = c.seq /\ End(remote # 0)
    /\ LetGo(c) /\ game' = 0 /\ ui' = 0 /\ UNCHANGED got
    /\ mode' = c.mode /\ slot' = c.slot /\ grantee' = c.for
    /\ backlog' = <<>> /\ syncing' = FALSE
    /\ input' = pad /\ deferred' = 0 /\ Gate /\ ownerPending' = FALSE
    /\ toSession' = toSession \o Done(remote # 0) \o NeutralState(c.seq, mode)
          \o NeutralState(c.seq, c.mode) \o <<Ack(c.seq, c.mode, c.slot)>>

Injectable(c) ==
    /\ mode = "game" /\ ~waiting /\ ~ownerPending /\ ~syncing
    /\ remote = 0 /\ pad = 0 /\ c.slot = slot

\* mutant: a denied injection is not answered
DenySilently(c) == UNCHANGED toSession

Deny(c) == toSession' = Append(toSession, Answer("InjectDenied", c.seq))

TakeInject(c) ==
    /\ commandSequence' = c.seq /\ input' = pad
    /\ \/ /\ Injectable(c)
          /\ remote' = c.seq /\ Write(Tool) /\ UNCHANGED toSession
       \/ /\ ~Injectable(c)
          /\ Deny(c)
          /\ UNCHANGED <<remote, game, pads>>
    /\ UNCHANGED <<backlog, policy, syncing, ui, got>>

TakeCancel(c) ==
    /\ commandSequence' = c.seq /\ Tick(input, remote # 0)
    /\ UNCHANGED <<backlog, syncing>>

Command ==
    /\ failed = None /\ toRouter # <<>>
    /\ toRouter' = Tail(toRouter)
    /\ \/ Head(toRouter).type = "Mode" /\ TakeMode(Head(toRouter))
       \/ Head(toRouter).type = "Inject" /\ TakeInject(Head(toRouter))
       \/ Head(toRouter).type = "CancelInject" /\ TakeCancel(Head(toRouter))
    /\ RouterOnly

\* the channel is closed: the router destroys its gamepads
RouterExit ==
    /\ failed # None /\ \E s \in Slots : pads[s] # 0
    /\ pads' = [s \in Slots |-> 0] /\ game' = 0
    /\ UNCHANGED <<kernel, input, policy, syncing, commandSequence, remote, ui, toSession,
                   toRouter, session, failed, desktop, bounds, got>>

-----------------------------------------------------------------------------
(* The session: what it believes of the router, and what the compositor has
   agreed to.  asked is the scene proposed by the request in flight. *)

Scenes == [privacy : BOOLEAN, game : Apps \cup {None}, panel : BOOLEAN]

ASSUME SceneAssumption == None \notin Scenes

SessionType ==
    [mode : Modes \cup {None}, slot : Slots \cup {None},       \* m_inputMode, m_inputSlot
     requested : Modes \cup {None}, wanted : Slots,             \* m_inputRequested, m_requestedSlot
     sequence : Nat, modeSequence : Nat, remote : Nat,
     keys : Samples, wait : BOOLEAN,                            \* ControllerInput
     asked : Scenes \cup {None}, agreed : Scenes, ready : BOOLEAN]

InputSlot == IF active = None THEN 0 ELSE slotOf[active]

\* processId(): an application that has exited has none
Foreground == IF active # None /\ Alive(active) THEN active ELSE None

Scene == [privacy |-> ~capturing, game |-> Foreground, panel |-> Foreground # None /\ quickOpen]

InFlight(s) == s.requested # None

\* mutant: an owner of the same kind is kept whatever its slot
OwnedAnySlot(s, m, sl) == s.mode = m

Owned(s, m, sl) == s.mode = m /\ s.slot = sl

\* selectInput(): one ownership change in flight, and none to the owner of record
SelectInput(s, want, sl) ==
    LET m == IF want.game = None \/ want.panel THEN "ui" ELSE "game"
    IN  IF InFlight(s) \/ Owned(s, m, sl) THEN s
        ELSE [s EXCEPT !.requested = m, !.wanted = sl, !.sequence = @ + 1,
                       !.modeSequence = s.sequence + 1, !.keys = 0, !.wait = FALSE]

\* one difference at a time is put to the compositor
Proposal(agreed, want) ==
    IF agreed.privacy # want.privacy THEN [agreed EXCEPT !.privacy = want.privacy]
    ELSE IF agreed.game # want.game THEN [agreed EXCEPT !.game = want.game]
    ELSE [agreed EXCEPT !.panel = want.panel]

\* a privacy request leaves the desktop ready, the others do not
Quiet(s, want) == s.agreed.privacy # want.privacy

\* requestPolicy()
RequestPolicy(s, want, sl) ==
    IF s.asked # None THEN s
    ELSE IF s.agreed # want
    THEN [s EXCEPT !.asked = Proposal(s.agreed, want),
                   !.ready = @ /\ Quiet(s, want)]
    ELSE LET t == SelectInput(s, want, sl) IN [t EXCEPT !.ready = (t.requested = None)]

\* synchronize() ends every handler; cancel are the commands sent before it
Settle(s, want, cancel) ==
    LET t == RequestPolicy(s, want, InputSlot')
    IN  /\ session' = t
        /\ toRouter' = toRouter \o cancel \o
               IF t.modeSequence = s.modeSequence THEN <<>>
               ELSE <<Mode(t.sequence, t.requested, t.wanted, active')>>

\* sceneChanged(): an injection is cancelled, a capture given up
SceneChanged(s, want) ==
    IF s.remote = 0 THEN Settle(s, want, <<>>)
    ELSE Settle([s EXCEPT !.sequence = @ + 1], want, <<CancelInject(s.sequence + 1)>>)

Fail(why) ==
    /\ failed' = why
    /\ session' = [session EXCEPT !.ready = FALSE, !.remote = 0]
    /\ UNCHANGED <<toRouter, desktop, got>>

SessionOnly == UNCHANGED <<kernel, input, policy, syncing, commandSequence, remote,
                           game, ui, pads, bounds>>

\* a report counts when it is of the owner in force; the desktop acts on it when
\* it is ready and in front
ReceiveState(p) ==
    LET current == p.seq = session.sequence /\ p.mode = "ui" /\ session.requested = None
        acts    == p.sample \notin {0, session.keys} /\ ~session.wait
                       /\ session.ready /\ (active = None \/ quickOpen)
    IN  /\ session' = IF current
                         THEN [session EXCEPT !.keys = p.sample, !.wait = @ /\ p.sample # 0]
                         ELSE session
        /\ got' = IF current /\ acts THEN [got EXCEPT ![p.sample] = @ \cup {"ui"}] ELSE got
        /\ UNCHANGED <<toRouter, failed, desktop>>

Acknowledged(p) == p.seq = session.modeSequence /\ p.mode = session.requested

Credited == [session EXCEPT !.mode = session.requested, !.slot = session.wanted, !.requested = None]

ReceiveAck(p) ==
    IF Acknowledged(p) /\ p.slot = session.wanted
    THEN /\ UNCHANGED <<failed, desktop, got>>
         /\ Settle(Credited, Scene, <<>>)
    ELSE Fail("protocol")

ReceiveAnswer(p) ==
    IF p.seq = session.remote
    THEN session' = [session EXCEPT !.remote = 0] /\ UNCHANGED <<toRouter, failed, desktop, got>>
    ELSE Fail("protocol")

\* mutant: the owner of record survives a system action
UnownedKept == [session EXCEPT !.wait = TRUE]

\* the router is neutral and paused: the owner of record is nobody
Unowned == [session EXCEPT !.mode = None, !.wait = TRUE]

ReceivePanel ==
    /\ UNCHANGED <<failed, active, apps, slotOf, homing, got>>
    /\ quickOpen' = ~quickOpen /\ capturing' = FALSE
    /\ SceneChanged(Unowned, Scene')

\* the desktop is shown later, by a queued call
ReceiveHome ==
    /\ homing' = TRUE
    /\ UNCHANGED <<failed, active, apps, slotOf, quickOpen, capturing, got>>
    /\ Settle(Unowned, Scene, <<>>)

ReadInput ==
    /\ failed = None /\ toSession # <<>> /\ toSession' = Tail(toSession)
    /\ LET p == Head(toSession)
       IN  \/ p.type = "State" /\ ReceiveState(p)
           \/ p.type = "Ack" /\ ReceiveAck(p)
           \/ p.type \in {"InjectDone", "InjectDenied"} /\ ReceiveAnswer(p)
           \/ p.type = "Panel" /\ ReceivePanel
           \/ p.type = "Home" /\ ReceiveHome
    /\ SessionOnly

\* ControllerInput::poll(), with the sample it has
Poll ==
    /\ failed = None /\ session.wait /\ session.keys = 0
    /\ session' = [session EXCEPT !.wait = FALSE]
    /\ UNCHANGED <<kernel, router, toRouter, failed, desktop, bounds, got>>

\* external: the compositor takes the scene proposed
PolicyReply ==
    /\ failed = None /\ session.asked # None
    /\ UNCHANGED <<kernel, router, failed, desktop, bounds, got>>
    /\ Settle([session EXCEPT !.agreed = session.asked, !.asked = None], Scene, <<>>)

\* the compositor or the router took too long
Deadline ==
    /\ failed = None /\ (session.asked # None \/ session.requested # None)
    /\ Fail("deadline")
    /\ UNCHANGED <<kernel, router, bounds>>

\* injectGame()
GameInputAvailable ==
    /\ session.ready /\ session.remote = 0 /\ session.requested = None
    /\ session.mode = "game" /\ Foreground # None /\ ~quickOpen

InjectGame ==
    /\ failed = None /\ injects < MaxInjects /\ GameInputAvailable
    /\ injects' = injects + 1
    /\ session' = [session EXCEPT !.sequence = @ + 1, !.remote = session.sequence + 1]
    /\ toRouter' = Append(toRouter, Inject(session.sequence + 1, InputSlot))
    /\ UNCHANGED <<kernel, router, failed, desktop, scenes, captures, got>>

\* cancelGameInput(): the remote control went away
CancelGameInput ==
    /\ failed = None /\ session.remote # 0
    /\ scenes < MaxScenes /\ scenes' = scenes + 1
    /\ session' = [session EXCEPT !.sequence = @ + 1]
    /\ toRouter' = Append(toRouter, CancelInject(session.sequence + 1))
    /\ UNCHANGED <<kernel, router, failed, desktop, injects, captures, got>>

-----------------------------------------------------------------------------
(* The applications and the pages of the desktop. *)

DesktopOnly == UNCHANGED <<kernel, router, failed, injects, got>>
Counted     == failed = None /\ scenes < MaxScenes /\ scenes' = scenes + 1

\* launchPrepared(): changed is emitted before the process has an id
Launch(a) ==
    /\ Counted /\ session.ready /\ active = None /\ apps[a] = "none"
    /\ \E s \in Slots :
          /\ \A b \in Apps : slotOf[b] # s
          /\ \A r \in Slots : r < s => \E b \in Apps : slotOf[b] = r
          /\ slotOf' = [slotOf EXCEPT ![a] = s]
    /\ apps' = [apps EXCEPT ![a] = "starting"] /\ active' = a /\ capturing' = FALSE
    /\ UNCHANGED <<quickOpen, homing, captures>> /\ DesktopOnly
    /\ SceneChanged(session, [Scene' EXCEPT !.game = None, !.panel = FALSE])

Started(a) ==
    /\ failed = None /\ apps[a] = "starting"
    /\ apps' = [apps EXCEPT ![a] = "running"] /\ capturing' = FALSE
    /\ UNCHANGED <<active, slotOf, quickOpen, homing, scenes, captures>> /\ DesktopOnly
    /\ SceneChanged([session EXCEPT !.wait = TRUE], Scene')

Finished(a) ==
    /\ Counted /\ apps[a] = "running"
    /\ apps' = [apps EXCEPT ![a] = "done"] /\ capturing' = FALSE
    /\ UNCHANGED <<active, slotOf, quickOpen, homing, captures>> /\ DesktopOnly
    /\ SceneChanged(session, Scene')

Free(a) == slotOf' = [slotOf EXCEPT ![a] = None]

\* complete(): the process group is gone
Complete(a) ==
    /\ failed = None /\ apps[a] = "done"
    /\ apps' = [apps EXCEPT ![a] = "none"] /\ Free(a)
    /\ capturing' = FALSE
    /\ UNCHANGED <<homing, scenes, captures>> /\ DesktopOnly
    /\ \/ /\ active = a /\ active' = None /\ quickOpen' = FALSE
          /\ SceneChanged([session EXCEPT !.wait = TRUE], Scene')
       \/ /\ active # a /\ UNCHANGED <<active, quickOpen>>
          /\ SceneChanged(session, Scene')

Activate(a) ==
    /\ Counted /\ Alive(a) /\ active # a
    /\ active' = a /\ capturing' = FALSE
    /\ UNCHANGED <<apps, slotOf, quickOpen, homing, captures>> /\ DesktopOnly
    /\ SceneChanged(session, Scene')

\* background() and showTasksOrDesktop(); without an application only the page changes
ToDesktop ==
    /\ active' = None /\ quickOpen' = FALSE
    /\ capturing' = (capturing /\ active = None /\ ~quickOpen)
    /\ IF active = None /\ ~quickOpen THEN UNCHANGED <<session, toRouter>>
       ELSE SceneChanged(session, Scene')

ShowDesktop ==
    /\ failed = None /\ homing /\ homing' = FALSE
    /\ UNCHANGED <<apps, slotOf, scenes, captures>> /\ DesktopOnly
    /\ ToDesktop

Background ==
    /\ Counted /\ active # None
    /\ UNCHANGED <<apps, slotOf, homing, captures>> /\ DesktopOnly
    /\ ToDesktop

LeavePanel ==
    /\ Counted /\ quickOpen /\ quickOpen' = FALSE /\ capturing' = FALSE
    /\ UNCHANGED <<active, apps, slotOf, homing, captures>> /\ DesktopOnly
    /\ SceneChanged(session, Scene')

\* a capture lifts the privacy of the desktop while it reads, and restores it
BeginCapture ==
    /\ failed = None /\ ~capturing /\ captures < MaxCaptures
    /\ captures' = captures + 1 /\ capturing' = TRUE
    /\ UNCHANGED <<active, apps, slotOf, quickOpen, homing, scenes>> /\ DesktopOnly
    /\ Settle(session, Scene', <<>>)

EndCapture ==
    /\ failed = None /\ capturing /\ capturing' = FALSE
    /\ UNCHANGED <<active, apps, slotOf, quickOpen, homing, scenes, captures>> /\ DesktopOnly
    /\ Settle(session, Scene', <<>>)

-----------------------------------------------------------------------------
\* the router is ready, the compositor has answered hello: the first Mode is out
Init ==
    /\ pad = 0 /\ presses = 0 /\ backlog = <<>>
    /\ input = 0 /\ deferred = 0 /\ mode = "ui" /\ slot = 0 /\ waiting = TRUE
    /\ ownerPending = FALSE /\ syncing = FALSE /\ commandSequence = 0 /\ remote = 0
    /\ game = 0 /\ ui = 0 /\ pads = [s \in Slots |-> 0]
    /\ toRouter = <<Mode(1, "ui", 0, None)>> /\ toSession = <<>>
    /\ session = [mode |-> None, slot |-> None, requested |-> "ui", wanted |-> 0,
                  sequence |-> 1, modeSequence |-> 1, remote |-> 0,
                  keys |-> 0, wait |-> FALSE, asked |-> None,
                  agreed |-> [privacy |-> TRUE, game |-> None, panel |-> FALSE],
                  ready |-> FALSE]
    /\ failed = None
    /\ active = None /\ apps = [a \in Apps |-> "none"] /\ slotOf = [a \in Apps |-> None]
    /\ quickOpen = FALSE /\ homing = FALSE /\ capturing = FALSE
    /\ scenes = 0 /\ injects = 0 /\ captures = 0
    /\ got = [p \in Presses |-> {}] /\ grantee = None

Router  == Command \/ ReadEvent \/ Idle \/ RouterExit
Session == ReadInput \/ Poll \/ PolicyReply \/ Deadline
Desktop ==
    \/ InjectGame \/ CancelGameInput
    \/ \E a \in Apps : Launch(a) \/ Started(a) \/ Finished(a) \/ Complete(a) \/ Activate(a)
    \/ ShowDesktop \/ Background \/ LeavePanel \/ BeginCapture \/ EndCapture

Next == Press \/ Release \/ Router \/ Session \/ Desktop
Spec == Init /\ [][Next]_vars

\* An injection ends at its time.
Expire == Idle /\ remote # 0 /\ remote' = 0

\* The two event loops run and the compositor answers; Deadline stays possible.
FairSpec ==
    /\ Spec
    /\ WF_vars(Command) /\ WF_vars(ReadEvent) /\ WF_vars(Expire)
    /\ WF_vars(ReadInput) /\ WF_vars(PolicyReply)

-----------------------------------------------------------------------------
(* The router, the session and their channels hold what their declarations
   allow: one sample of the pad, packets of the protocol, tasks in slots. *)
TypeOK ==
    /\ pad \in Samples /\ presses \in 0..MaxPresses
    /\ backlog \in Seq(Samples \cup {Dropped}) /\ Len(backlog) <= MaxBacklog + 1
    /\ {input, deferred, ui} \subseteq Samples /\ game \in Samples \cup {Tool}
    /\ mode \in Modes /\ slot \in Slots /\ {waiting, ownerPending, syncing} \subseteq BOOLEAN
    /\ remote \in 0..commandSequence /\ commandSequence \in 0..session.sequence
    /\ pads \in [Slots -> Samples \cup {Tool}]
    /\ session \in SessionType /\ session.modeSequence <= session.sequence
    /\ failed \in {None, "deadline", "protocol"}
    /\ active \in Apps \cup {None} /\ slotOf \in [Apps -> Slots \cup {None}]
    /\ apps \in [Apps -> {"none", "starting", "running", "done"}]
    /\ \A a \in Apps : (apps[a] = "none") = (slotOf[a] = None)
    /\ {quickOpen, homing, capturing} \subseteq BOOLEAN
    /\ got \in [Presses -> SUBSET (Apps \cup {"ui"})] /\ grantee \in Apps \cup {None}
    /\ scenes \in 0..MaxScenes /\ injects \in 0..MaxInjects /\ captures \in 0..MaxCaptures

\* What the session takes for the owner is what the router does: the Acks, which
\* come late and between cancellations, are never credited to another Mode.
BeliefIsTrue ==
    failed = None /\ session.requested = None /\ session.mode # None
        => session.mode = mode /\ session.slot = slot

\* With no request open and no program being started, a ready desktop that
\* believes in an owner has the pad where the scene in force wants it.
OwnerFollowsScene ==
    (/\ failed = None /\ session.ready /\ session.asked = None /\ session.mode # None
     /\ active # None => apps[active] # "starting")
        => /\ mode = IF Foreground = None \/ quickOpen THEN "ui" ELSE "game"
           /\ slot = InputSlot

\* A virtual gamepad shows something only while its slot has the grant: whoever
\* loses the pad is left with a neutral one.
PadsNeutral ==
    \A s \in Slots : pads[s] # 0 =>
        mode = "game" /\ s = slot /\ ~waiting /\ ~ownerPending /\ pads[s] = game

\* One press of the pad is acted on by one party: never by the desktop and an
\* application, or by two applications, however it meets the change of owner.
OnePressOneOwner == \A p \in Presses : Cardinality(got[p]) <= 1

\* No packet ever finds the session in a state in which it calls it a protocol error.
ProtocolHolds == failed # "protocol"

\* A gamepad that is not neutral is read by the application for which the slot
\* was granted (HANDHELD.md: "Each change sends neutral game/UI state and waits
\* for physical neutral").
OnlyGranteeReads ==
    \A s \in Slots : pads[s] # 0 => OwnerOf(s) \in {None, grantee}

\* A system action leaves the pad to nobody, and the session gives it back.
OwnerIsGranted == ownerPending ~> (~ownerPending \/ failed # None)

\* The remote control's tool input is answered: done, cancelled or denied.
InjectionIsAnswered == session.remote # 0 ~> session.remote = 0

-----------------------------------------------------------------------------
(* What the session believes is what the router does, though Acks come late and
   between cancellations: once nothing is asked the pad is where the scene wants
   it, an owner is believed in only when the router has it, and no packet finds
   the session in a state in which it calls it a protocol error (handheld.cpp,
   input-router.cpp). *)
SessionKnowsOwner == TypeOK /\ OwnerFollowsScene /\ BeliefIsTrue /\ ProtocolHolds

(* One press reaches one party, however it meets the change of owner: whoever loses
   the pad is left with a neutral one, what is not neutral is read by the one it
   was granted for, and no two act on one press (input-router.cpp). *)
PressesReachOneParty == PadsNeutral /\ OnlyGranteeReads /\ OnePressOneOwner

-----------------------------------------------------------------------------
(* What keeps them from step to step. *)

Sent(q)    == {q[i] : i \in DOMAIN q}
Has(q, T)  == \E m \in Sent(q) : m.type \in T
Once(q, T) == \A i, j \in DOMAIN q : q[i].type \in T /\ q[j].type \in T => i = j

Answers == {"InjectDone", "InjectDenied"}

Commands ==
    [type : {"Mode"}, seq : Nat, mode : Modes, slot : Slots, for : Apps \cup {None}]
        \cup [type : {"Inject"}, seq : Nat, slot : Slots]
        \cup [type : {"CancelInject"}, seq : Nat]
Packets ==
    [type : {"State"}, seq : Nat, mode : Modes, sample : Samples]
        \cup [type : {"Ack"}, seq : Nat, mode : Modes, slot : Slots]
        \cup [type : Answers \cup {"Panel", "Home"}, seq : Nat]

\* commands are numbered in the order in which they are sent
Increasing(q, low, high) ==
    /\ \A i \in DOMAIN q : q[i].seq \in (low + 1)..high
    /\ \A i, j \in DOMAIN q : i < j => q[i].seq < q[j].seq

Numbered ==
    /\ toRouter \in Seq(Commands) /\ toSession \in Seq(Packets)
    /\ Increasing(toRouter, commandSequence, session.sequence)

\* every task has a slot of its own, and the one in front is a task
TasksInSlots ==
    /\ active # None => apps[active] # "none"
    /\ \A a, b \in Apps : slotOf[a] = slotOf[b] /\ slotOf[a] # None => a = b

\* the one change of owner in flight is a Mode on its way or its Ack on the way back
ModeFits(q, r, s, m, sl) ==
    /\ Once(q, {"Mode"}) /\ Once(r, {"Ack"}) /\ ~(Has(q, {"Mode"}) /\ Has(r, {"Ack"}))
    /\ \A c \in Sent(q) : c.type = "Mode" =>
         InFlight(s) /\ c.seq = s.modeSequence /\ c.mode = s.requested /\ c.slot = s.wanted
    /\ \A p \in Sent(r) : p.type = "Ack" =>
         /\ InFlight(s) /\ p.seq = s.modeSequence /\ p.mode = s.requested /\ p.slot = s.wanted
         /\ m = s.requested /\ sl = s.wanted

ModeInFlight == failed = None => ModeFits(toRouter, toSession, session, mode, slot)

\* so is the one injection: on its way, in force, or answered
InjectFits(q, r, s, rem) ==
    /\ Once(q, {"Inject"}) /\ Once(r, Answers)
    /\ ~(Has(q, {"Inject"}) /\ (rem # 0 \/ Has(r, Answers))) /\ ~(rem # 0 /\ Has(r, Answers))
    /\ \A c \in Sent(q) : c.type = "Inject" => c.seq = s.remote
    /\ \A p \in Sent(r) : p.type \in Answers => p.seq = s.remote /\ p.seq # 0
    /\ rem # 0 => rem = s.remote

InjectInFlight == failed = None => InjectFits(toRouter, toSession, session, remote)

\* a ready desktop with nothing asked has the scene agreed and the owner it wants
Settled == failed = None /\ session.ready =>
    /\ session.requested = None
    /\ session.asked = None /\ (active # None => apps[active] # "starting") =>
         /\ session.agreed = Scene
         /\ Owned(session, IF Foreground = None \/ quickOpen THEN "ui" ELSE "game", InputSlot)

\* before the first capture nothing is asked of the compositor of a ready desktop
Private == captures = 0 =>
    /\ ~capturing /\ session.agreed.privacy
    /\ session.asked # None => session.asked.privacy /\ ~session.ready

\* ... and the grant of a slot, made or on its way, is for the task that has it
GrantIsForOwner == captures = 0 => \A a \in Apps : slotOf[a] # None =>
    /\ mode = "game" /\ slot = slotOf[a] => grantee = a
    /\ \A c \in Sent(toRouter) :
         c.type = "Mode" /\ c.mode = "game" /\ c.slot = slotOf[a] => c.for = a

\* the last report in the queue is the pad as it is; no press is known before it is made
PadIsRead ==
    /\ backlog = <<>> => input = pad
    /\ backlog # <<>> => backlog[Len(backlog)] = pad
    /\ pad <= presses /\ input <= presses /\ deferred <= presses
    /\ \A s \in Sent(backlog) : s = Dropped \/ s <= presses
    /\ \A p \in Sent(toSession) : p.type = "State" => p.sample <= presses
    /\ \A p \in Presses : p > presses => got[p] = {}

\* the presses that the router may still give to the owner in force
Reachable(p) == p \in Sent(backlog) \/ p = deferred \/ (~waiting /\ p \in {pad, input})

\* the desktop has been, or will be, told of the press
ToldUi(p) == \E m \in Sent(toSession) : m.type = "State" /\ m.mode = "ui" /\ m.sample = p

OneParty == captures = 0 => \A p \in Presses :
    /\ \E party \in Apps \cup {"ui"} : got[p] \subseteq {party}
    /\ ToldUi(p) => got[p] \subseteq {"ui"}
    /\ Reachable(p) /\ mode = "ui" => got[p] \subseteq {"ui"}
    /\ Reachable(p) /\ mode = "game" => got[p] \subseteq {grantee} /\ ~ToldUi(p)

OwnershipInv ==
    /\ TypeOK /\ Numbered /\ TasksInSlots /\ ModeInFlight /\ InjectInFlight /\ BeliefIsTrue
    /\ Settled /\ Private /\ GrantIsForOwner /\ PadIsRead /\ OneParty /\ PadsNeutral
    /\ ProtocolHolds
=============================================================================
