------------------------------ MODULE CardAgent ------------------------------
(***************************************************************************)
(* The macOS card agent, mainline/tools/r46h-card-agent: a foreground      *)
(* server that accepts one command per connection on a local socket, runs  *)
(* the handlers concurrently, gives the card to one command at a time and  *)
(* may, in deploy mode, write the whole-partition images of a pinned plan. *)
(*                                                                         *)
(* A stop may be requested at any instant, by a client or by a signal.  It *)
(* cancels what only reads; a write that has begun is finished, read back  *)
(* and reported first.  The state of a handler is its program counter in   *)
(* handleClient -> dispatch -> dispatchCardCommand -> executeWrite.        *)
(***************************************************************************)
EXTENDS Naturals, FiniteSets

CONSTANTS
    Conns,    \* connection slots; a slot is used again once its handler left
    Plan,     \* operation id -> [partition, before, source]; empty: audit mode
    Asked,    \* the card commands clients ask for
    None      \* no connection, no operation

Ops        == DOMAIN Plan
Partitions == {Plan[o].partition : o \in Ops}
Images     == {Plan[o].before : o \in Ops} \cup {Plan[o].source : o \in Ops}

ASSUME PlanAssumption ==
    /\ IsFiniteSet(Conns) /\ None \notin Conns \cup Ops
    /\ \A o \in Ops : Plan[o].before # Plan[o].source
    /\ "torn" \notin Images
    /\ Asked \subseteq {"read", "clone", "mount", "unmount", "write"}

VARIABLES
    server,    \* run(): the accept loop
    handlers,  \* the DispatchGroup: handlers entered and not left
    stopping, reserved, active, consumed, verified,  \* SessionState, under its lock
    lock,      \* cardLock: the connection that holds it
    claim,     \* the connection whose WholeDiskClaim is granted
    pc, cmd, op, result,  \* one handler per connection
    mounted,   \* some partition of the card is mounted
    card,      \* partition -> the image it holds, or "torn"
    soft,      \* partitions with bytes the card may still lose
    status, kept,  \* WRITE-STATUS-<op>.json as seen, and as a power cut leaves it
    receipt    \* write-<op>-receipt.json

session  == <<stopping, reserved, active, consumed, verified>>
medium   == <<mounted, card, soft>>
evidence == <<status, kept, receipt>>
vars == <<server, handlers, session, lock, claim, pc, cmd, op, result, medium, evidence>>

CardCommands == {"read", "clone", "mount", "unmount", "write"}
Results      == {"none", "ok", "warning", "error", "shutdown", "waiting", "lost"}
Statuses     == {"none", "clone", "in_progress", "complete"}
Writing      == {"copy", "sync", "readback", "recheck"}
Evidencing   == {"mark", "complete", "receipt"}
HandlerSteps == {"free", "request", "stopreply", "lock", "run", "unmounted", "claim",
                 "pin", "baseline", "stage", "promote", "status", "finish", "unlock",
                 "respond", "catch", "leave", "done"} \cup Writing \cup Evidencing

Init ==
    /\ server = "check" /\ handlers = 0
    /\ stopping = FALSE /\ reserved = FALSE /\ active = FALSE
    /\ consumed = {} /\ verified = {}
    /\ lock = None /\ claim = None
    /\ pc = [c \in Conns |-> "free"] /\ cmd = [c \in Conns |-> "none"]
    /\ op = [c \in Conns |-> None] /\ result = [c \in Conns |-> "none"]
    /\ mounted \in BOOLEAN /\ card \in [Partitions -> Images] /\ soft = {}
    /\ status = [o \in Ops |-> "none"] /\ kept = [o \in Ops |-> "none"]
    /\ receipt = [o \in Ops |-> "none"]

-----------------------------------------------------------------------------
(* The accept loop.  The stop flag is read before poll, so a client may    *)
(* still be accepted after a stop.                                         *)

CheckStop ==
    /\ server = "check"
    /\ server' = IF stopping THEN "drain" ELSE "poll"
    /\ UNCHANGED <<handlers, session, lock, claim, pc, cmd, op, result, medium, evidence>>

PollTimeout ==
    /\ server = "poll" /\ server' = "check"
    /\ UNCHANGED <<handlers, session, lock, claim, pc, cmd, op, result, medium, evidence>>

\* poll or accept fails: run() throws, and its defer still waits for the handlers
PollFails ==
    /\ server = "poll" /\ server' = "drain"
    /\ UNCHANGED <<handlers, session, lock, claim, pc, cmd, op, result, medium, evidence>>

Accept(c) ==
    /\ server = "poll" /\ server' = "check"
    /\ pc[c] \in {"free", "done"}
    /\ handlers' = handlers + 1
    /\ pc' = [pc EXCEPT ![c] = "request"]
    /\ op' = [op EXCEPT ![c] = None]
    /\ result' = [result EXCEPT ![c] = "none"]
    /\ UNCHANGED <<session, lock, claim, cmd, medium, evidence>>

Exit ==
    /\ server = "drain" /\ handlers = 0
    /\ server' = "exited"
    /\ UNCHANGED <<handlers, session, lock, claim, pc, cmd, op, result, medium, evidence>>

Server == CheckStop \/ PollTimeout \/ PollFails \/ Exit \/ \E c \in Conns : Accept(c)

-----------------------------------------------------------------------------
(* One handler. *)

Goto(c, step) == pc' = [pc EXCEPT ![c] = step]

\* a throw inside a command: the defers below it run, then the catch of handleClient
Fail(c, step) == Goto(c, step) /\ result' = [result EXCEPT ![c] = "error"]

\* readLine, decodeRequest, the token and dispatch's switch; a command that is
\* malformed, unauthorised or unknown is thrown out
Request(c) ==
    /\ pc[c] = "request"
    /\ \/ Fail(c, "catch") /\ UNCHANGED <<cmd, stopping>>
       \/ /\ Goto(c, "respond") /\ result' = [result EXCEPT ![c] = "ok"]
          /\ UNCHANGED <<cmd, stopping>>
       \/ /\ stopping' = TRUE /\ Goto(c, "stopreply")
          /\ UNCHANGED <<cmd, result>>
       \/ \E k \in Asked :
             /\ cmd' = [cmd EXCEPT ![c] = k]
             /\ IF stopping THEN Fail(c, "catch") ELSE Goto(c, "lock") /\ UNCHANGED result
             /\ UNCHANGED stopping
    /\ UNCHANGED <<server, handlers, reserved, active, consumed, verified, lock, claim,
                   op, medium, evidence>>

\* the answer to stop reads hasActiveWrite after requestStop has released the lock
StopReply(c) ==
    /\ pc[c] = "stopreply"
    /\ result' = [result EXCEPT ![c] = IF active THEN "waiting" ELSE "shutdown"]
    /\ Goto(c, "respond")
    /\ UNCHANGED <<server, handlers, session, lock, claim, cmd, op, medium, evidence>>

TryLock(c) ==
    /\ pc[c] = "lock"
    /\ IF lock = None THEN lock' = c /\ Goto(c, "run") /\ UNCHANGED result
                      ELSE Fail(c, "catch") /\ UNCHANGED lock
    /\ UNCHANGED <<server, handlers, session, claim, cmd, op, medium, evidence>>

\* the commands that do not write the card; each may fail or be cancelled anywhere
Finishes(c, ok) ==
    /\ Goto(c, "unlock")
    /\ result' = [result EXCEPT ![c] = IF ok THEN "ok" ELSE "error"]

RunRead(c) ==
    /\ pc[c] = "run" /\ cmd[c] = "read"
    /\ \E ok \in BOOLEAN : Finishes(c, ok)
    /\ UNCHANGED <<server, handlers, session, lock, claim, cmd, op, medium, evidence>>

\* cloneRaw creates the file its client names in the session directory, O_EXCL,
\* and removes it on a failure: the name may be one the evidence will need
RunClone(c) ==
    /\ pc[c] = "run" /\ cmd[c] = "clone"
    /\ \/ Finishes(c, FALSE) /\ UNCHANGED evidence
       \/ Finishes(c, ~mounted) /\ UNCHANGED evidence
       \/ \E o \in Ops :
             /\ ~mounted /\ status[o] = "none" /\ Finishes(c, TRUE)
             /\ status' = [status EXCEPT ![o] = "clone"] /\ UNCHANGED <<kept, receipt>>
       \/ \E o \in Ops :
             /\ ~mounted /\ receipt[o] = "none" /\ Finishes(c, TRUE)
             /\ receipt' = [receipt EXCEPT ![o] = "clone"] /\ UNCHANGED <<status, kept>>
    /\ UNCHANGED <<server, handlers, session, lock, claim, cmd, op, medium>>

\* diskutil changes the mounts, and a check after it may still fail
RunMount(c) ==
    /\ pc[c] = "run" /\ cmd[c] \in {"mount", "unmount"}
    /\ \/ Finishes(c, FALSE) /\ UNCHANGED mounted
       \/ /\ cmd[c] = "mount" /\ ~mounted
          /\ mounted' = TRUE /\ \E ok \in BOOLEAN : Finishes(c, ok)
       \/ /\ cmd[c] = "unmount"
          /\ mounted' = FALSE /\ \E ok \in BOOLEAN : Finishes(c, ok)
    /\ UNCHANGED <<server, handlers, session, lock, claim, cmd, op, card, soft, evidence>>

-----------------------------------------------------------------------------
(* execute-write.  Until writeStarted the operation can still be given up; *)
(* after it only an error of the card or of the evidence ends it early.    *)

Reserve(c) ==
    /\ pc[c] = "run" /\ cmd[c] = "write"
    /\ \/ Fail(c, "unlock") /\ UNCHANGED <<reserved, consumed, op>>  \* audit, or not planned
       \/ \E o \in Ops \ consumed :
             /\ ~stopping /\ ~reserved /\ ~active
             /\ reserved' = TRUE /\ consumed' = consumed \cup {o}
             /\ op' = [op EXCEPT ![c] = o]
             /\ Goto(c, "unmounted") /\ UNCHANGED result
    /\ UNCHANGED <<server, handlers, stopping, active, verified, lock, claim, cmd, medium,
                   evidence>>

\* requireUnmounted before the claim
FirstCheck(c) ==
    /\ pc[c] = "unmounted"
    /\ Fail(c, "finish") \/ (~mounted /\ Goto(c, "claim") /\ UNCHANGED result)
    /\ UNCHANGED <<server, handlers, session, lock, claim, cmd, op, medium, evidence>>

\* WholeDiskClaim: denied, timed out or cancelled, or granted; from then on
\* Disk Arbitration mounts nothing of this disk
Claim(c) ==
    /\ pc[c] = "claim"
    /\ \/ Fail(c, "finish") /\ UNCHANGED claim
       \/ claim' = c /\ Goto(c, "pin") /\ UNCHANGED result
    /\ UNCHANGED <<server, handlers, session, lock, cmd, op, medium, evidence>>

\* openPinnedCard: what was mounted between the check and the claim shows here
Pin(c) ==
    /\ pc[c] = "pin"
    /\ Fail(c, "finish") \/ (~mounted /\ Goto(c, "baseline") /\ UNCHANGED result)
    /\ UNCHANGED <<server, handlers, session, lock, claim, cmd, op, medium, evidence>>

Target(c) == Plan[op[c]].partition
Source(c) == Plan[op[c]].source

\* verifyTargetBaseline and the synchronize-cache preflight
Baseline(c) ==
    /\ pc[c] = "baseline"
    /\ \/ Fail(c, "finish")
       \/ /\ ~stopping /\ card[Target(c)] = Plan[op[c]].before
          /\ Goto(c, "stage") /\ UNCHANGED result
    /\ UNCHANGED <<server, handlers, session, lock, claim, cmd, op, medium, evidence>>

\* the source is copied and hashed into a nameless file; a client that has gone
\* away cancels here, because no write is active yet
Stage(c) ==
    /\ pc[c] = "stage"
    /\ Fail(c, "finish") \/ (~stopping /\ Goto(c, "promote") /\ UNCHANGED result)
    /\ UNCHANGED <<server, handlers, session, lock, claim, cmd, op, medium, evidence>>

\* mutant: a reserved write is promoted whether or not a stop was requested
PromoteStopping(c) ==
    /\ pc[c] = "promote"
    /\ active' = TRUE /\ Goto(c, "status")
    /\ UNCHANGED <<server, handlers, stopping, reserved, consumed, verified, lock, claim,
                   cmd, op, result, medium, evidence>>

Promote(c) ==
    /\ pc[c] = "promote"
    /\ IF reserved /\ ~stopping /\ ~active
       THEN active' = TRUE /\ Goto(c, "status") /\ UNCHANGED result
       ELSE Fail(c, "finish") /\ UNCHANGED active
    /\ UNCHANGED <<server, handlers, stopping, reserved, consumed, verified, lock, claim,
                   cmd, op, medium, evidence>>

\* writeRootStatus: a failure may come before the rename or after it; only a
\* directory that was synced makes the new text durable
Publish(o, text, done) ==
    /\ status' = [status EXCEPT ![o] = text]
    /\ kept' = IF done THEN [kept EXCEPT ![o] = text] ELSE kept
    /\ UNCHANGED receipt

\* mutant: the write goes on without its status file
CreateStatusAnyway(c) ==
    /\ pc[c] = "status"
    /\ UNCHANGED evidence \/ Publish(op[c], "in_progress", TRUE)
    /\ Goto(c, "copy")
    /\ UNCHANGED <<server, handlers, session, lock, claim, cmd, op, result, medium>>

CreateStatus(c) ==
    /\ pc[c] = "status"
    /\ \/ Fail(c, "finish") /\ UNCHANGED evidence
       \/ /\ status[op[c]] = "none"
          /\ \/ Publish(op[c], "in_progress", FALSE) /\ Fail(c, "finish")
             \/ Publish(op[c], "in_progress", TRUE) /\ Goto(c, "copy") /\ UNCHANGED result
    /\ UNCHANGED <<server, handlers, session, lock, claim, cmd, op, medium>>

\* copyAndHash onto the card; a device error leaves the partition in pieces, and
\* a device that lies leaves it so without an error
Copy(c) ==
    /\ pc[c] = "copy"
    /\ soft' = soft \cup {Target(c)}
    /\ \/ card' = [card EXCEPT ![Target(c)] = "torn"] /\ Fail(c, "finish")
       \/ /\ \E got \in {"torn", Source(c)} : card' = [card EXCEPT ![Target(c)] = got]
          /\ Goto(c, "sync") /\ UNCHANGED result
    /\ UNCHANGED <<server, handlers, session, lock, claim, cmd, op, mounted, evidence>>

\* fsync, then DKIOCSYNCHRONIZECACHE
Sync(c) ==
    /\ pc[c] = "sync"
    /\ \/ Fail(c, "finish") /\ UNCHANGED soft
       \/ soft' = soft \ {Target(c)} /\ Goto(c, "readback") /\ UNCHANGED result
    /\ UNCHANGED <<server, handlers, session, lock, claim, cmd, op, mounted, card, evidence>>

Readback(c) ==
    /\ pc[c] = "readback"
    /\ \/ Fail(c, "finish")
       \/ card[Target(c)] = Source(c) /\ Goto(c, "recheck") /\ UNCHANGED result
    /\ UNCHANGED <<server, handlers, session, lock, claim, cmd, op, medium, evidence>>

\* geometry, prefix and a last snapshot; then the claim is released
Recheck(c) ==
    /\ pc[c] = "recheck"
    /\ \/ Fail(c, "finish") /\ UNCHANGED claim
       \/ ~mounted /\ claim' = None /\ Goto(c, "mark") /\ UNCHANGED result
    /\ UNCHANGED <<server, handlers, session, lock, cmd, op, medium, evidence>>

\* mutant: the connection is not marked before the evidence is published
MarkForgotten(c) ==
    /\ pc[c] = "mark" /\ Goto(c, "complete")
    /\ UNCHANGED <<server, handlers, session, lock, claim, cmd, op, result, medium, evidence>>

MarkVerified(c) ==
    /\ pc[c] = "mark"
    /\ verified' = verified \cup {c} /\ Goto(c, "complete")
    /\ UNCHANGED <<server, handlers, stopping, reserved, active, consumed, lock, claim,
                   cmd, op, result, medium, evidence>>

CompleteStatus(c) ==
    /\ pc[c] = "complete"
    /\ \/ Fail(c, "finish") /\ UNCHANGED evidence
       \/ Publish(op[c], "complete", FALSE) /\ Fail(c, "finish")
       \/ Publish(op[c], "complete", TRUE) /\ Goto(c, "receipt") /\ UNCHANGED result
    /\ UNCHANGED <<server, handlers, session, lock, claim, cmd, op, medium>>

WriteReceipt(c) ==
    /\ pc[c] = "receipt"
    /\ \/ Fail(c, "finish") /\ UNCHANGED receipt
       \/ /\ receipt[op[c]] = "none" /\ receipt' = [receipt EXCEPT ![op[c]] = "written"]
          /\ Goto(c, "finish") /\ result' = [result EXCEPT ![c] = "ok"]
    /\ UNCHANGED <<server, handlers, session, lock, claim, cmd, op, medium, status, kept>>

\* the defers of CardDevice.executeWrite and of UnixServer.executeWrite
Finish(c) ==
    /\ pc[c] = "finish"
    /\ claim' = IF claim = c THEN None ELSE claim
    /\ active' = FALSE /\ reserved' = FALSE
    /\ Goto(c, "unlock")
    /\ UNCHANGED <<server, handlers, stopping, consumed, verified, lock, cmd, op, result,
                   medium, evidence>>

Write(c) ==
    \/ Reserve(c) \/ FirstCheck(c) \/ Claim(c) \/ Pin(c) \/ Baseline(c) \/ Stage(c)
    \/ Promote(c) \/ CreateStatus(c) \/ Copy(c) \/ Sync(c) \/ Readback(c) \/ Recheck(c)
    \/ MarkVerified(c) \/ CompleteStatus(c) \/ WriteReceipt(c) \/ Finish(c)

-----------------------------------------------------------------------------
(* The end of every handler. *)

Unlock(c) ==
    /\ pc[c] = "unlock" /\ lock' = None
    /\ Goto(c, IF result[c] = "error" THEN "catch" ELSE "respond")
    /\ UNCHANGED <<server, handlers, session, claim, cmd, op, result, medium, evidence>>

\* a result that cannot be delivered is thrown like any other error
Respond(c) ==
    /\ pc[c] = "respond"
    /\ Fail(c, "catch") \/ (Goto(c, "leave") /\ UNCHANGED result)
    /\ UNCHANGED <<server, handlers, session, lock, claim, cmd, op, medium, evidence>>

Catch(c) ==
    /\ pc[c] = "catch"
    /\ \E answer \in {IF c \in verified THEN "warning" ELSE "error", "lost"} :
          result' = [result EXCEPT ![c] = answer]
    /\ Goto(c, "leave")
    /\ UNCHANGED <<server, handlers, session, lock, claim, cmd, op, medium, evidence>>

\* mutant: a handler that caught an error never leaves the group
LeaveUnlessFailed(c) ==
    /\ pc[c] = "leave" /\ Goto(c, "done")
    /\ cmd' = [cmd EXCEPT ![c] = "none"]
    /\ verified' = verified \ {c}
    /\ handlers' = IF result[c] = "error" THEN handlers ELSE handlers - 1
    /\ UNCHANGED <<server, stopping, reserved, active, consumed, lock, claim, op, result,
                   medium, evidence>>

Leave(c) ==
    /\ pc[c] = "leave" /\ Goto(c, "done")
    /\ cmd' = [cmd EXCEPT ![c] = "none"]
    /\ verified' = verified \ {c}
    /\ handlers' = handlers - 1
    /\ UNCHANGED <<server, stopping, reserved, active, consumed, lock, claim, op, result,
                   medium, evidence>>

Handler(c) ==
    \/ Request(c) \/ StopReply(c) \/ TryLock(c) \/ RunRead(c) \/ RunClone(c) \/ RunMount(c)
    \/ Write(c) \/ Unlock(c) \/ Respond(c) \/ Catch(c) \/ Leave(c)

-----------------------------------------------------------------------------
(* What happens to the agent. *)

Running == server \notin {"exited", "dead"}

Signal ==
    /\ Running /\ ~stopping /\ stopping' = TRUE
    /\ UNCHANGED <<server, handlers, reserved, active, consumed, verified, lock, claim, pc,
                   cmd, op, result, medium, evidence>>

\* the desktop mounts or unmounts the card on its own, unless the disk is claimed
Automount ==
    /\ Running /\ claim = None /\ mounted' = ~mounted
    /\ UNCHANGED <<server, handlers, session, lock, claim, pc, cmd, op, result, card, soft,
                   evidence>>

\* the host stops: the process is gone, and unsynced blocks and names may be too
PowerLoss ==
    /\ Running /\ server' = "dead"
    /\ \E lost \in SUBSET soft :
          card' = [p \in Partitions |-> IF p \in lost THEN "torn" ELSE card[p]]
    /\ \E back \in SUBSET {o \in Ops : status[o] # "clone"} :
          status' = [o \in Ops |-> IF o \in back THEN kept[o] ELSE status[o]]
    /\ handlers' = 0 /\ stopping' = FALSE /\ reserved' = FALSE /\ active' = FALSE
    /\ consumed' = {} /\ verified' = {} /\ lock' = None /\ claim' = None
    /\ pc' = [c \in Conns |-> "free"] /\ cmd' = [c \in Conns |-> "none"]
    /\ op' = [c \in Conns |-> None] /\ result' = [c \in Conns |-> "none"]
    /\ mounted' = FALSE /\ soft' = {}
    /\ UNCHANGED <<kept, receipt>>

Ended == ~Running /\ UNCHANGED vars

Next ==
    \/ Server \/ Signal \/ Automount \/ PowerLoss \/ Ended
    \/ \E c \in Conns : Running /\ Handler(c)

Spec == Init /\ [][Next]_vars

(* The loop and the handlers run whenever they can: dispatch threads, a poll *)
(* with a timeout, sockets with timeouts, commands that are killed when they *)
(* overrun.  Nothing is assumed of clients, signals or the desktop.          *)
FairSpec ==
    /\ Spec /\ WF_vars(Server)
    /\ \A c \in Conns : WF_vars(Running /\ Handler(c))

-----------------------------------------------------------------------------
(* The variables have the types their declarations in SessionState, UnixServer *)
(* and CardDevice give them, and no handler leaves the group twice.            *)
TypeOK ==
    /\ server \in {"check", "poll", "drain", "exited", "dead"}
    /\ handlers \in 0..Cardinality(Conns)
    /\ stopping \in BOOLEAN /\ reserved \in BOOLEAN /\ active \in BOOLEAN
    /\ consumed \subseteq Ops /\ verified \subseteq Conns
    /\ lock \in Conns \cup {None} /\ claim \in Conns \cup {None}
    /\ pc \in [Conns -> HandlerSteps] /\ cmd \in [Conns -> CardCommands \cup {"none"}]
    /\ op \in [Conns -> Ops \cup {None}] /\ result \in [Conns -> Results]
    /\ mounted \in BOOLEAN /\ card \in [Partitions -> Images \cup {"torn"}]
    /\ soft \subseteq Partitions
    /\ status \in [Ops -> Statuses] /\ kept \in [Ops -> Statuses]
    /\ receipt \in [Ops -> {"none", "clone", "written"}]

(* A partition in pieces is always announced: some operation on it has a status *)
(* file that says WRITE_IN_PROGRESS, safe_to_boot no, and that file survives    *)
(* the loss of the host's power (UnixServer.swift 390-415 before CardDevice 449). *)
TornIsAnnounced ==
    \A p \in Partitions : card[p] = "torn" =>
        \E o \in Ops : /\ Plan[o].partition = p
                       /\ status[o] = "in_progress" /\ kept[o] = "in_progress"

(* A status file that says WRITE_COMPLETE is true of the card: the partition    *)
(* holds the source, until another operation of the plan announces that it is   *)
(* writing the same partition.                                                  *)
Overtaken(o) == \E q \in Ops \ {o} :
    Plan[q].partition = Plan[o].partition /\ status[q] \in {"in_progress", "complete"}
Holds(o) == card[Plan[o].partition] = Plan[o].source \/ Overtaken(o)

CompleteIsTrue == \A o \in Ops : status[o] = "complete" => Holds(o)

(* What the client of a write is told agrees with the card and the evidence: a  *)
(* failure is never reported for an operation whose status says complete, a     *)
(* success has its status and its receipt, and the warning that only the        *)
(* publication failed is given only for an image that is on the card            *)
(* (UnixServer.swift 112-137, 417-470).                                         *)
AnswerIsTrue ==
    \A c \in Conns : (pc[c] \in {"leave", "done"} /\ op[c] # None) =>
        /\ result[c] = "error" => status[op[c]] # "complete"
        /\ result[c] = "ok" => status[op[c]] = "complete" /\ receipt[op[c]] = "written"
        /\ result[c] \in {"ok", "warning"} => Holds(op[c])

(* A client told only that shutdown was requested knows that no write is going  *)
(* on or will begin (UnixServer.swift 180-190 against SessionState 249-256).    *)
StopAnswerIsTrue == \A c \in Conns : result[c] = "shutdown" => ~active

(* While a partition is written, read back and rechecked its writer holds the   *)
(* card and the claim alone, the write is reserved and active, and nothing of   *)
(* the card is mounted, whatever the desktop did between the two checks.        *)
WriterIsAlone ==
    \A c \in Conns : (pc[c] \in Writing) =>
        lock = c /\ claim = c /\ reserved /\ active /\ ~mounted

(* Once a stop is requested and no write is active, none becomes active and the *)
(* card is not written again in this session, by any handler that was already   *)
(* past its own checks of the stop flag.                                        *)
NoWriteAfterStop ==
    [][(stopping /\ ~active) => ~active' /\ (card' = card \/ server' = "dead")]_vars

(* A stop that was requested ends the agent, after the write that was running.  *)
StopIsDue == stopping
StopEnds == StopIsDue ~> ~Running
-----------------------------------------------------------------------------
(* The card and what is told of it agree: a torn partition is announced by its *)
(* status file, COMPLETE stands for the image that is on the card, STOPPED is  *)
(* said only when nothing writes, and no one reads or mounts while a write     *)
(* holds the card (UnixServer.swift, CardDevice.swift).                        *)
CardHolds == TypeOK /\ TornIsAnnounced /\ CompleteIsTrue /\ StopAnswerIsTrue /\ WriterIsAlone

(* What keeps them from step to step.  An operation belongs to the one handler *)
(* that reserved it; its status is durable before the card is touched; what it *)
(* wrote stays until a later operation on the partition has a durable status.  *)
Before   == {"unmounted", "claim", "pin", "baseline", "stage", "promote", "status"}
Reserved == Before \cup Writing \cup Evidencing \cup {"finish"}
Free     == {"free", "request", "stopreply", "lock", "run"}

OpsAreOwned ==
    /\ \A c \in Conns : op[c] # None => op[c] \in consumed
    /\ \A c, d \in Conns : op[c] = op[d] /\ op[c] # None => c = d
    /\ \A c \in Conns : pc[c] \in Free => op[c] = None
    /\ \A c \in Conns : pc[c] \in Free \cup (Reserved \ {"finish"}) => result[c] = "none"
    /\ \A c \in Conns : pc[c] \in Reserved => op[c] # None
    /\ server # "dead" =>
         \A o \in Ops \ consumed : status[o] \in {"none", "clone"} /\ kept[o] = "none"

StatusFollows ==
    /\ \A c \in Conns : pc[c] \in Before =>
         status[op[c]] \in {"none", "clone"} /\ kept[op[c]] = "none"
    /\ \A c \in Conns : pc[c] \in Writing \cup {"mark", "complete"} =>
         status[op[c]] = "in_progress" /\ kept[op[c]] = "in_progress"
    /\ \A c \in Conns : pc[c] = "receipt" => status[op[c]] = "complete"
    /\ \A o \in Ops : kept[o] \in {"none", status[o]} \/
                      (kept[o] = "in_progress" /\ status[o] = "complete")
    /\ \A o \in Ops : kept[o] # "clone"
    /\ \A c \in Conns : op[c] # None /\ status[op[c]] = "complete" =>
         c \in verified \/ pc[c] \in {"leave", "done"}
    /\ \A c \in Conns : pc[c] \in {"complete", "receipt"} => c \in verified
    /\ \A c \in verified :
         pc[c] \in {"complete", "receipt", "finish", "unlock", "respond", "catch", "leave"}

Stays(o) ==
    \/ card[Plan[o].partition] = Plan[o].source /\ Plan[o].partition \notin soft
    \/ \E q \in Ops \ {o} : /\ Plan[q].partition = Plan[o].partition
                            /\ kept[q] \in {"in_progress", "complete"}

ReadIsWritten ==
    /\ \A c \in Conns : pc[c] \in {"readback", "recheck"} \cup Evidencing => Target(c) \notin soft
    /\ \A c \in Conns : pc[c] \in {"recheck"} \cup Evidencing => card[Target(c)] = Source(c)

LossIsAnnounced ==
    \A p \in Partitions : p \in soft \/ card[p] = "torn" =>
        \E o \in Ops : /\ Plan[o].partition = p
                       /\ status[o] = "in_progress" /\ kept[o] = "in_progress"

ToldStays ==
    /\ \A o \in Ops : status[o] = "complete" => Stays(o)
    /\ \A c \in Conns : op[c] # None /\ (c \in verified \/ result[c] \in {"ok", "warning"}) =>
         Stays(op[c])

SuccessFollows ==
    \A c \in Conns : op[c] # None /\ result[c] = "ok" =>
        status[op[c]] = "complete" /\ receipt[op[c]] = "written"
FailureFollows ==
    /\ \A c \in Conns : pc[c] = "respond" => result[c] # "error"
    /\ \A c \in Conns : op[c] # None /\ result[c] = "error" /\ pc[c] \in {"leave", "done"} =>
         status[op[c]] # "complete"
StoppingFollows == \A c \in Conns : pc[c] = "stopreply" \/ result[c] = "shutdown" => stopping
ShutdownFollows == \A c \in Conns : result[c] = "shutdown" => ~active

HandlersAreCounted == handlers = Cardinality({c \in Conns : pc[c] \notin {"free", "done"}})

AgentInv ==
    /\ TypeOK /\ OpsAreOwned /\ StatusFollows /\ ReadIsWritten /\ LossIsAnnounced /\ ToldStays
    /\ SuccessFollows /\ FailureFollows /\ StoppingFollows /\ ShutdownFollows
    /\ HandlersAreCounted
=============================================================================
