------------------------------ MODULE PortSession ------------------------------
(* gaming-ports/local_port.py: sessions of an original game.  A session publishes
   the first copy of the managed configuration (a complete temporary file, then
   a link that replaces nothing), works in a directory of its own whose
   configuration is a link to the managed file, starts the game as a child
   process and supervises it: the child is asked to end at the time limit or
   when the supervisor was asked to stop, and is killed after a grace period;
   then the log and the result are written.  Two sessions share the state
   directory.                                                                 *)
EXTENDS Naturals

CONSTANTS Sessions,   \* sessions on one state directory
          Seconds,    \* time limit of the supervisor
          SharedGrace, OwnGrace,   \* grace periods, in steps of the clock
          MaxTime,    \* bound on the clock
          Crashes     \* bound: sessions that die with the power

None == "none"
NoTime == MaxTime + 1     \* no point of time was recorded

VARIABLES pc,        \* [Sessions -> step]
          partial,   \* [Sessions -> the temporary configuration: None, "begun", "whole"]
          config,    \* the managed configuration: None, "begun", "whole" or "edited"
          child,     \* [Sessions -> None, "runs", "ignores" (a signal), "gone"]
          by,        \* [Sessions -> what ended the child: None, itself, term, kill]
          shared,    \* [Sessions -> the child shares the compositor's display]
          requested, \* [Sessions -> a stop signal reached the supervisor]
          began,     \* [Sessions -> when the supervisor asked the child to end]
          bounded,   \* [Sessions -> the time limit was the reason]
          grace,     \* [Sessions -> grace period in force]
          forced,    \* [Sessions -> the supervisor's own forced_kill flag]
          result,    \* [Sessions -> None or the result that was written]
          clock, crashes

sessionVars == <<pc, partial, config, child, by, shared, requested, began,
                 bounded, grace, forced, result, clock, crashes>>

NoResult == [forced |-> None]

SessionInit ==
  /\ pc = [s \in Sessions |-> "look"]
  /\ partial = [s \in Sessions |-> None]
  /\ config = None
  /\ child = [s \in Sessions |-> None]
  /\ by = [s \in Sessions |-> None]
  /\ shared \in [Sessions -> BOOLEAN]
  /\ requested = [s \in Sessions |-> FALSE]
  /\ began = [s \in Sessions |-> NoTime]
  /\ bounded = [s \in Sessions |-> FALSE]
  /\ grace = [s \in Sessions |-> OwnGrace]
  /\ forced = [s \in Sessions |-> FALSE]
  /\ result = [s \in Sessions |-> NoResult]
  /\ clock = 0 /\ crashes = 0

Move(s, from, to) == pc[s] = from /\ pc' = [pc EXCEPT ![s] = to]
Files == <<partial, config>>
Stop  == <<requested, began, bounded, grace, forced>>
Child == <<child, by, shared>>
World == <<clock, crashes>>

-----------------------------------------------------------------------------
(* prepared: the managed configuration. *)

LookForConfig(s) ==
  /\ Move(s, "look", IF config = None THEN "copy" ELSE "start")
  /\ UNCHANGED <<Files, Child, Stop, result, World>>

\* mkstemp, the copy and its fsync; the file has a name of its own all the time.
BeginCopy(s) ==
  /\ pc[s] = "copy" /\ partial[s] = None
  /\ partial' = [partial EXCEPT ![s] = "begun"]
  /\ UNCHANGED <<pc, config, Child, Stop, result, World>>

FinishCopy(s) ==
  /\ partial[s] = "begun" /\ Move(s, "copy", "publish")
  /\ partial' = [partial EXCEPT ![s] = "whole"]
  /\ UNCHANGED <<config, Child, Stop, result, World>>

\* os.link does not replace: the session that comes second ends with an error.
PublishConfig(s) ==
  /\ pc[s] = "publish"
  /\ IF config = None
     THEN config' = partial[s] /\ Move(s, "publish", "start")
     ELSE UNCHANGED config /\ Move(s, "publish", "failed")
  /\ partial' = [partial EXCEPT ![s] = None]
  /\ UNCHANGED <<Child, Stop, result, World>>

-----------------------------------------------------------------------------
(* run_game. *)

\* Popen; signals are handled from before it until the result is written.
StartGame(s) ==
  /\ Move(s, "start", "supervise")
  /\ child' = [child EXCEPT ![s] = "runs"]
  /\ UNCHANGED <<Files, by, shared, Stop, result, World>>

\* The supervisor gets SIGTERM or SIGINT: a flag, read by its loop.
RequestStop(s) ==
  /\ pc[s] = "supervise" /\ ~requested[s]
  /\ requested' = [requested EXCEPT ![s] = TRUE]
  /\ UNCHANGED <<pc, Files, Child, began, bounded, grace, forced, result, World>>

Late(s)   == clock >= Seconds
Overdue(s) == began[s] # NoTime /\ clock >= began[s] + grace[s]

Ends(s, how) == /\ child' = [child EXCEPT ![s] = "gone"]
                /\ by' = [by EXCEPT ![s] = how]

\* The first request to end: the grace period is that of the reason of now.  The
\* child may have exited since the loop polled it; the signal then does nothing.
AskChild(s) ==
  /\ pc[s] = "supervise" /\ (Late(s) \/ requested[s])
  /\ began[s] = NoTime
  /\ bounded' = [bounded EXCEPT ![s] = Late(s)]
  /\ grace' = [grace EXCEPT ![s] = IF shared[s] /\ ~Late(s) THEN SharedGrace ELSE OwnGrace]
  /\ began' = [began EXCEPT ![s] = clock]
  /\ IF child[s] = "gone"
     THEN UNCHANGED <<child, by>>
     ELSE \/ Ends(s, "term")
          \/ child' = [child EXCEPT ![s] = "ignores"] /\ UNCHANGED by
  /\ UNCHANGED <<pc, Files, shared, requested, forced, result, World>>

ForceChild(s) ==
  /\ pc[s] = "supervise" /\ Overdue(s) /\ ~forced[s]
  /\ forced' = [forced EXCEPT ![s] = TRUE]
  /\ IF child[s] = "gone" THEN UNCHANGED <<child, by>> ELSE Ends(s, "kill")
  /\ UNCHANGED <<pc, Files, shared, requested, began, bounded, grace, result, World>>

\* A game ends by itself, or late after the request.
ChildExits(s) ==
  /\ child[s] \in {"runs", "ignores"}
  /\ Ends(s, IF child[s] = "runs" THEN "itself" ELSE "term")
  /\ UNCHANGED <<pc, Files, shared, Stop, result, World>>

\* mutant: the finally block leaves the game alone
SuperviseFailsOnly(s) ==
  /\ Move(s, "supervise", "failed")
  /\ UNCHANGED <<Files, Child, Stop, result, World>>

\* An error in the loop: the finally block kills and reaps, nothing is written.
SuperviseFails(s) ==
  /\ Move(s, "supervise", "failed")
  /\ IF child[s] # "gone" THEN Ends(s, "kill") ELSE UNCHANGED <<child, by>>
  /\ UNCHANGED <<Files, shared, Stop, result, World>>

\* poll sees the exit and the loop ends; the result is written atomically.
WriteResult(s) ==
  /\ child[s] = "gone" /\ Move(s, "supervise", "done")
  /\ result' = [result EXCEPT ![s] =
        [forced |-> forced[s], bounded |-> bounded[s], requested |-> requested[s]]]
  /\ UNCHANGED <<Files, Child, Stop, World>>

-----------------------------------------------------------------------------
(* The game writes its settings through the link; time; the power. *)

SaveSettings(s) ==
  /\ child[s] \in {"runs", "ignores"} /\ config # "edited"
  /\ config' = "edited"
  /\ UNCHANGED <<pc, partial, Child, Stop, result, World>>

\* The loop wakes ten times a second, so it acts before the clock moves on.
Tick ==
  /\ clock < MaxTime /\ clock' = clock + 1
  /\ \A s \in Sessions : pc[s] = "supervise" =>
       /\ ~(child[s] = "runs" /\ began[s] = NoTime /\ (Late(s) \/ requested[s]))
       /\ ~(child[s] \in {"runs", "ignores"} /\ Overdue(s))
  /\ UNCHANGED <<pc, Files, Child, Stop, result, crashes>>

Crash ==
  /\ crashes < Crashes /\ crashes' = crashes + 1
  /\ pc' = [s \in Sessions |-> IF pc[s] = "done" THEN "done" ELSE "look"]
  /\ child' = [s \in Sessions |-> None] /\ by' = [s \in Sessions |-> None]
  /\ partial' = [s \in Sessions |-> None] /\ UNCHANGED config
  /\ requested' = [s \in Sessions |-> FALSE]
  /\ began' = [s \in Sessions |-> NoTime] /\ bounded' = [s \in Sessions |-> FALSE]
  /\ grace' = [s \in Sessions |-> OwnGrace] /\ forced' = [s \in Sessions |-> FALSE]
  /\ clock' = 0
  /\ UNCHANGED <<shared, result>>

SessionStep(s) ==
  \/ LookForConfig(s) \/ BeginCopy(s) \/ FinishCopy(s) \/ PublishConfig(s) \/ StartGame(s)
  \/ RequestStop(s) \/ AskChild(s) \/ ForceChild(s) \/ ChildExits(s) \/ SuperviseFails(s)
  \/ WriteResult(s) \/ SaveSettings(s)

SessionNext == Tick \/ Crash \/ \E s \in Sessions : SessionStep(s)

SessionSpec == SessionInit /\ [][SessionNext]_sessionVars

-----------------------------------------------------------------------------
(* Of every step: the managed configuration is complete as soon as it has its name, and settings
   a game has saved are never put back to the first copy by another session that
   had found the configuration missing.                                       *)
SettingsStay == /\ config' # "begun"
                /\ config # None => config' \in {config, "edited"}

(* No game outlives its supervisor: when a session ended, in success or failure,
   its child is gone (or never ran).                                          *)
NoOrphan == \A s \in Sessions :
  pc[s] \in {"done", "failed"} => child[s] \in {None, "gone"}

(* The result never hides the supervisor's own kill, and says of every game that
   was asked to end why it was asked, whatever raced: the exit of the game, the
   limit, a stop signal and the end of the grace period.                      *)
ResultIsTrue == \A s \in Sessions :
  result[s] # NoResult /\ child[s] = "gone" =>
    /\ by[s] = "kill" => result[s].forced
    /\ by[s] = "term" \/ result[s].forced => result[s].bounded \/ result[s].requested
-----------------------------------------------------------------------------
(* What keeps them from step to step. *)

Reasons == [forced : BOOLEAN, bounded : BOOLEAN, requested : BOOLEAN]

SessionTypes ==
  /\ pc \in [Sessions -> {"look", "copy", "publish", "start", "supervise", "done", "failed"}]
  /\ partial \in [Sessions -> {None, "begun", "whole"}] /\ config \in {None, "whole", "edited"}
  /\ child \in [Sessions -> {None, "runs", "ignores", "gone"}]
  /\ by \in [Sessions -> {None, "itself", "term", "kill"}]
  /\ requested \in [Sessions -> BOOLEAN] /\ bounded \in [Sessions -> BOOLEAN]
  /\ forced \in [Sessions -> BOOLEAN]
  /\ clock \in Nat /\ began \in [Sessions -> Nat \cup {NoTime}]
  /\ result \in [Sessions -> Reasons \cup {NoResult}]

(* A child lives only under its supervisor; the copy that is to be published is
   complete; a result stands for a session that is over. *)
PhaseIsTrue == \A s \in Sessions :
  /\ pc[s] \in {"look", "copy", "publish", "start"} => child[s] = None /\ by[s] = None
  /\ pc[s] = "publish" => partial[s] = "whole"
  /\ result[s] # NoResult => pc[s] = "done"

(* Whatever of the stop was done has its reason, and the kill its flag. *)
ReasonIsKept == \A s \in Sessions :
  /\ began[s] # NoTime \/ child[s] = "ignores" \/ by[s] = "term" \/ forced[s] =>
       bounded[s] \/ requested[s]
  /\ pc[s] = "supervise" /\ by[s] = "kill" => forced[s]

SessionInv == SessionTypes /\ PhaseIsTrue /\ ReasonIsKept /\ NoOrphan /\ ResultIsTrue
=============================================================================
