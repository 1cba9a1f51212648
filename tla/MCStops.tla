---------------------------------- MODULE MCStops ---------------------------
(***************************************************************************)
(* What a stop promises, in the two servers of the project that promise    *)
(* it: the Card Agent on the host and the Wi-Fi share on the handheld.     *)
(* Part names the server that runs, and x1, x2, ... are its variables in   *)
(* the order of its module.                                                *)
(***************************************************************************)
EXTENDS Naturals, TLC

CONSTANTS Conns, None

VARIABLES
    part,
    x1, x2, x3, x4, x5, x6, x7, x8, x9, x10, x11, x12, x13, x14, x15, x16, x17, x18,
    x19

mcVars == <<part, x1, x2, x3, x4, x5, x6, x7, x8, x9, x10, x11, x12, x13, x14, x15, x16, x17,
            x18, x19>>

\* One write of one partition.
Single == "boot-a" :> [partition |-> "boot", before |-> "old", source |-> "new"]

Agent == INSTANCE CardAgent WITH
  Conns <- Conns, Plan <- Single, Asked <- {"write"}, None <- None,
  server <- x1, handlers <- x2, stopping <- x3, reserved <- x4, active <- x5,
  consumed <- x6, verified <- x7, lock <- x8, claim <- x9, pc <- x10, cmd <- x11,
  op <- x12, result <- x13, mounted <- x14, card <- x15, soft <- x16, status <- x17,
  kept <- x18, receipt <- x19

Share == INSTANCE FileShare WITH
  Conns <- Conns, Slots <- 2, Transfers <- 1, MaxAttempts <- 1, Window <- 0,
  Blocks <- 1, MaxTime <- 0, Signals <- FALSE,
  trouble <- x1, now <- x2, file <- x3, partial <- x4, stopped <- x5, lock <- x6,
  sockets <- x7, cut <- x8, guesses <- x9, busy <- x10, main <- x11, watcher <- x12,
  parent <- x13, sig <- x14, pc <- x15, kind <- x16, got <- x17

Rest == <<x18, x19>>

Init ==
    \/ part = "agent" /\ Agent!Init
    \/ part = "share" /\ Share!ShareInit /\ x18 = 0 /\ x19 = 0

AgentStep == part = "agent" /\ Agent!Next /\ UNCHANGED part
ShareStep == part = "share" /\ Share!ShareNext /\ UNCHANGED <<part, Rest>>

Next == AgentStep \/ ShareStep

ByAgent(step) == part = "agent" /\ step /\ UNCHANGED part
ByShare(step) == part = "share" /\ step /\ UNCHANGED <<part, Rest>>

(* Threads are scheduled; a client only comes back when its socket is cut.  Part
   never changes, so the fairness of a step of either server is that of its own. *)
Fairness ==
    /\ WF_mcVars(ByAgent(Agent!Server) \/ ByShare(Share!MainOwn))
    /\ WF_mcVars(ByShare(Share!WatcherSamples)) /\ WF_mcVars(ByShare(Share!WatcherHalts))
    /\ WF_mcVars(ByShare(Share!ParentHalts))
    /\ \A c \in Conns :
          /\ WF_mcVars(ByAgent(Agent!Running /\ Agent!Handler(c)) \/ ByShare(Share!HandlerOwn(c)))
          /\ WF_mcVars(ByShare(Share!Released(c)))

FairSpec == Init /\ [][Next]_mcVars /\ Fairness

-----------------------------------------------------------------------------
StopIsDue ==
    \/ part = "agent" /\ Agent!StopIsDue
    \/ part = "share" /\ Share!StopIsDue

Ended ==
    \/ part = "agent" /\ ~Agent!Running
    \/ part = "share" /\ Share!Ended

(* A stop ends the agent after the write that was running, and ends the share, as
   does a lost link or directory, however its clients dawdle (UnixServer.swift,
   transfer_server.py). *)
StopEnds == StopIsDue ~> Ended
=============================================================================
