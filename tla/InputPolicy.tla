----------------------------- MODULE InputPolicy -----------------------------
(***************************************************************************)
(* Route::Policy of mainline/gaming-wayland/input-route.h: what the input  *)
(* router does with each sample of the pad.  L3+R3 pressed within a window *)
(* opens the panel, so a stick click waits for it; Select is a modifier,   *)
(* so its own press waits for its release; all other buttons are immediate.*)
(* A system action pauses delivery until the desktop grants an owner, and  *)
(* a new owner gets nothing before the pad was neutral.                    *)
(*                                                                         *)
(* Time is counted since the first click and since Start; the deadlines of *)
(* the code are ages here.  Sticks and triggers are left out: they neither *)
(* wait nor take part in a gesture.                                        *)
(***************************************************************************)
EXTENDS Naturals, Sequences

CONSTANTS
    Controls,  \* the buttons of the pad: some of Chord, Combine, "select" and "a"
    ChordMs,   \* the chord window
    HoldMs     \* how long Select+Start is held to kill

Chord   == {"l3", "r3"}
Combine == {"start", "x", "y"}  \* what Select makes a shortcut of

VARIABLES
    keys,                      \* the buttons down in the latest sample
    waiting, ownerPending,     \* not neutral yet; no owner granted yet
    pending, clickAge, chordSpent,
    previous, selecting, shortcut, startAge, shortcutSpent,
    delivered,                 \* the samples the latest update gave the owner
    asked,                     \* the action the latest update requested
    owed,                      \* presses seen while delivering, not yet given
    clicking, together         \* time since a click began, since Select+Start

chord    == <<pending, clickAge, chordSpent>>
modifier == <<previous, selecting, shortcut, startAge, shortcutSpent>>
vars     == <<keys, waiting, ownerPending, chord, modifier, delivered, asked,
              owed, clicking, together>>

-----------------------------------------------------------------------------
(* The parts of one update with the buttons k down, delivery being open. *)

Older(age, limit) == IF age < limit THEN age + 1 ELSE age

\* the shortcut in progress once k is seen: a press of Start, Y or X under Select
Current == IF selecting THEN shortcut ELSE "none"
Spent == selecting /\ shortcutSpent
Pressed(k) == (k \ previous) \cap Combine
Taken(k) == "select" \in k /\ Current = "none" /\ ~Spent /\ Pressed(k) # {}
Shortcut(k) == IF ~Taken(k) THEN IF "select" \in k THEN Current ELSE shortcut
               ELSE IF "start" \in Pressed(k) THEN "start"
               ELSE IF "y" \in Pressed(k) THEN "y" ELSE "x"

StartAge(k) == IF Taken(k) THEN 0 ELSE startAge

\* the action the Select gesture asks for
Gesture(k) ==
    IF Taken(k) /\ Shortcut(k) = "y" THEN "Tasks"
    ELSE IF Taken(k) /\ Shortcut(k) = "x" THEN "Close"
    ELSE IF Shortcut(k) # "start" \/ Spent THEN "none"
    ELSE IF {"select", "start"} \subseteq k
         THEN IF StartAge(k) >= HoldMs THEN "Kill" ELSE "none"
    ELSE IF "select" \in k \/ selecting THEN "Home" ELSE "none"

\* Select was released without a shortcut: its press and release are due now
Standalone(k) == selecting /\ "select" \notin k /\ ~shortcutSpent /\ shortcut = "none"

\* the buttons of k that are not held back or used up by the modifier
Unmodified(k) == IF "select" \notin k THEN k
                 ELSE (k \ {"select"}) \ (IF Shortcut(k) = "none" THEN {} ELSE Combine)

Clicks(k) == k \cap Chord
FirstClick(k) == ~chordSpent /\ pending = {} /\ Clicks(k) # {}

Pending(k) == IF FirstClick(k) THEN Clicks(k) ELSE pending
ClickAge(k) == IF FirstClick(k) THEN 0 ELSE clickAge
Deciding(k) == ~chordSpent /\ Pending(k) # {}

ChordMade(k) == Deciding(k) /\ Clicks(k) = Chord /\ ClickAge(k) <= ChordMs
ShortClick(k) == Deciding(k) /\ Clicks(k) \cap Pending(k) = {}
Decided(k) == Deciding(k) /\ (ClickAge(k) >= ChordMs \/ ShortClick(k))

\* mutant: the pulse of a short click without the click
ClickPulseLost(k) == k

\* the press of a click that ended inside its window, next to everything down
ClickPulse(k) == k \cup Pending(k)

Output(k) == IF Deciding(k) /\ ~Decided(k) THEN Unmodified(k) \ Chord ELSE Unmodified(k)

SelectPulse(k) == IF Standalone(k) THEN <<Unmodified(k) \cup {"select"}>> ELSE <<>>

Emissions(k) ==
    SelectPulse(k)
    \o (IF ShortClick(k) THEN <<ClickPulse(k)>> ELSE <<>>)
    \o <<Output(k)>>

Given(s) == UNION {s[i] : i \in DOMAIN s}

-----------------------------------------------------------------------------
(* update(): nothing while an owner is awaited, nothing before neutral;    *)
(* otherwise an action is requested, or samples are delivered.             *)

Withheld(k) == ownerPending \/ (waiting /\ k # {})

Withhold ==
    /\ delivered' = <<>> /\ asked' = "none" /\ owed' = {}
    /\ UNCHANGED <<waiting, ownerPending, chord, modifier>>

\* the router releases the owner's buttons and sends the action to the desktop
Request(k, action) ==
    /\ asked' = action /\ owed' = {}
    /\ waiting' = TRUE /\ ownerPending' = TRUE
    /\ previous' = k
    /\ selecting' = ("select" \in k)
    /\ shortcut' = Shortcut(k) /\ startAge' = StartAge(k)

\* an update in which delivery is open
Deliver(k) ==
    /\ asked' = "none" /\ waiting' = FALSE /\ UNCHANGED ownerPending
    /\ delivered' = Emissions(k)
    /\ previous' = k /\ selecting' = ("select" \in k)
    /\ shortcut' = IF selecting /\ "select" \notin k THEN "none" ELSE Shortcut(k)
    /\ startAge' = StartAge(k)
    /\ shortcutSpent' = IF selecting THEN shortcutSpent ELSE shortcutSpent /\ "select" \notin k
    /\ pending' = IF Decided(k) THEN {} ELSE Pending(k)
    /\ clickAge' = IF Decided(k) THEN 0 ELSE ClickAge(k)
    /\ chordSpent' = ((chordSpent \/ Decided(k)) /\ Clicks(k) # {})
    /\ owed' = (owed \cup (k \ keys)) \ (Given(Emissions(k))
                  \cup IF "select" \in k /\ Shortcut(k) # "none" THEN Combine ELSE {})

Update(k) ==
    \/ Withheld(k) /\ Withhold
    \/ /\ ~Withheld(k) /\ Gesture(k) # "none"
       /\ Request(k, Gesture(k)) /\ delivered' = <<>>
       /\ shortcutSpent' = TRUE /\ UNCHANGED chord
    \/ /\ ~Withheld(k) /\ Gesture(k) = "none" /\ ChordMade(k)
       /\ Request(k, "Panel") /\ delivered' = SelectPulse(k)
       /\ shortcutSpent' = Spent
       /\ pending' = {} /\ clickAge' = 0 /\ UNCHANGED chordSpent
    \/ ~Withheld(k) /\ Gesture(k) = "none" /\ ~ChordMade(k) /\ Deliver(k)

\* how long a click, and Select+Start, have been down, whatever the policy knows
Watch(k) ==
    /\ clicking' = IF Clicks(k) = {} \/ Clicks(keys) = {} THEN 0 ELSE clicking
    /\ together' = IF {"select", "start"} \subseteq k \cap keys THEN together ELSE 0

-----------------------------------------------------------------------------
\* setMode(), on a Mode command or a lost report: everything is forgotten, the
\* buttons down then are read from the pad and delivery waits for neutral
SetMode(k, pendingOwner) ==
    /\ keys' = k /\ previous' = {}
    /\ ownerPending' = pendingOwner /\ waiting' = (pendingOwner \/ k # {})
    /\ pending' = {} /\ clickAge' = 0 /\ chordSpent' = FALSE
    /\ selecting' = FALSE /\ shortcut' = "none" /\ startAge' = HoldMs /\ shortcutSpent' = FALSE
    /\ delivered' = IF waiting' THEN <<>> ELSE <<{}>>
    /\ asked' = "none" /\ owed' = {}

Init ==
    /\ keys \in SUBSET Controls /\ waiting = TRUE /\ ownerPending = FALSE
    /\ pending = {} /\ clickAge = 0 /\ chordSpent = FALSE
    /\ previous = {} /\ selecting = FALSE /\ shortcut = "none"
    /\ startAge = HoldMs /\ shortcutSpent = FALSE
    /\ delivered = <<>> /\ asked = "none" /\ owed = {} /\ clicking = 0 /\ together = 0

Report  == \E k \in SUBSET Controls : k # keys /\ keys' = k /\ Update(k) /\ Watch(k)
Poll    == Update(keys) /\ Watch(keys) /\ UNCHANGED keys
Grant   == \E k \in SUBSET Controls : SetMode(k, FALSE) /\ Watch(k)
Dropped == \E k \in SUBSET Controls : SetMode(k, ownerPending) /\ Watch(k)

\* time passes without an update
Elapse ==
    /\ clickAge' = IF pending = {} THEN clickAge ELSE Older(clickAge, ChordMs + 1)
    /\ startAge' = IF shortcut = "start" THEN Older(startAge, HoldMs) ELSE startAge
    /\ clicking' = IF Clicks(keys) = {} THEN 0 ELSE Older(clicking, ChordMs + 1)
    /\ together' = IF {"select", "start"} \subseteq keys THEN Older(together, HoldMs) ELSE 0
    /\ delivered' = <<>> /\ asked' = "none"
    /\ UNCHANGED <<keys, waiting, ownerPending, pending, chordSpent,
                   previous, selecting, shortcut, shortcutSpent, owed>>

Next == Report \/ Poll \/ Grant \/ Dropped \/ Elapse

Spec == Init /\ [][Next]_vars

-----------------------------------------------------------------------------
\* Every press made while delivery is open reaches the owner, at the latest with
\* its release, unless a gesture used it up or took the pad away: a click shorter
\* than the chord window and a Select without a shortcut are delayed, never lost.
EveryPressArrives == owed \subseteq keys

\* The panel opens only for two clicks that overlap inside the window, counted
\* from the first of them: later overlaps stay ordinary clicks.
PanelIsTimely == asked = "Panel" => Chord \subseteq keys /\ clicking <= ChordMs

\* The process is killed only after Select and Start were held down together,
\* without a break, for the full time.
KillIsHeld == asked = "Kill" => together >= HoldMs
-----------------------------------------------------------------------------
(* What keeps them from step to step.                                      *)

PolicyTypes ==
    /\ keys \subseteq Controls /\ pending \subseteq Chord /\ pending # Chord
    /\ waiting \in BOOLEAN /\ ownerPending \in BOOLEAN /\ chordSpent \in BOOLEAN
    /\ selecting \in BOOLEAN /\ shortcutSpent \in BOOLEAN
    /\ clickAge \in Nat /\ startAge \in Nat /\ clicking \in Nat /\ together \in Nat

\* Before an owner, and before neutral, nothing is begun and nothing is owed; and a
\* shortcut that was answered stays so until the owner is there.
NothingBefore ==
    /\ waiting /\ ~ownerPending => ~selecting /\ pending = {}
    /\ waiting \/ ownerPending => owed = {}
    /\ shortcutSpent => ownerPending

\* What is owed is held back by the modifier or by the chord, and still down.
HeldBack ==
    /\ owed \subseteq keys
    /\ \A c \in owed : (c = "select" /\ selecting) \/ (c \in pending /\ ~chordSpent)

\* The policy's ages of the click and of Start run no faster than the time itself.
AgesAreTrue ==
    /\ pending # {} => clicking <= clickAge
    /\ ~waiting /\ ~ownerPending /\ pending = {} /\ ~chordSpent => keys \cap Chord = {}
    /\ ~ownerPending /\ selecting => shortcut \in {"none", "start"}
    /\ ~ownerPending /\ selecting /\ shortcut = "start" =>
        {"select", "start"} \subseteq keys /\ startAge <= together

PolicyInv == PolicyTypes /\ NothingBefore /\ HeldBack /\ AgesAreTrue
=============================================================================
