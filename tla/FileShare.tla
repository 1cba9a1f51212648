----------------------------- MODULE FileShare -----------------------------
(***************************************************************************)
(* The Wi-Fi file share (gaming-files/transfer_server.py): the main thread *)
(* accepts connections, one thread serves each of them, a watcher samples  *)
(* the link, a thread waits for the parent's stop, and SIGTERM runs the    *)
(* stop on top of whatever the main thread is doing.                       *)
(***************************************************************************)
EXTENDS Naturals, FiniteSets

CONSTANTS Conns,       \* the connections of the session
          Slots,       \* handlers at once
          Transfers,   \* transfers at once
          MaxAttempts, \* wrong codes in one window
          Window,      \* the length of the window
          Blocks,      \* the blocks of an upload
          MaxTime,     \* how long the session is followed (a bound of the model)
          Signals      \* whether SIGTERM may arrive

Kinds == {"session", "upload", "download"}

VARIABLES
    trouble, now,               \* the world: what went wrong, time
    file, partial,              \* who wrote the name; the connections with a partial file
    stopped, lock,              \* stop_event; the holder of server.lock
    sockets, cut,               \* the registered sockets; those shut down
    guesses,                    \* the wrong codes compared, with their times
    busy,                       \* the connections that hold a transfer permit
    main, watcher, parent, sig, \* where each thread is, and the signal handler
    pc, kind, got               \* each connection: its handler and its request

world == <<trouble, now>>
tree == <<file, partial>>
state == <<guesses, busy>>
net == <<sockets, cut>>
threads == <<main, watcher, parent, sig>>
conn == <<pc, kind, got>>
shareVars == <<world, tree, stopped, lock, net, state, threads, conn>>

Live == {c \in Conns : pc[c] \notin {"none", "closed"}}

Healthy == ~stopped /\ trouble # "health"

(* The main thread runs its own code unless the signal handler is on top. *)
MainRuns == sig \in {"none", "done"}

ShareInit ==
    /\ trouble = "no" /\ now = 0 /\ file = "none" /\ partial = {}
    /\ stopped = FALSE /\ lock = "free" /\ sockets = {} /\ cut = {}
    /\ guesses = {} /\ busy = {}
    /\ main = "loop" /\ watcher = "wait" /\ parent = "wait" /\ sig = "none"
    /\ pc = [c \in Conns |-> "none"] /\ kind \in [Conns -> Kinds]
    /\ got = [c \in Conns |-> 0]

(***************************************************************************)
(* The world.  Lost health is a replaced directory, a session over its     *)
(* time, or a watcher late by four seconds: healthy answers no from then   *)
(* on.  A lost link only the watcher sees.                                 *)
(***************************************************************************)
Trouble ==
    /\ trouble = "no" /\ trouble' \in {"link", "health"}
    /\ UNCHANGED <<now, tree, stopped, lock, net, state, threads, conn>>

Tick ==
    /\ now < MaxTime /\ now' = now + 1
    /\ UNCHANGED <<trouble, tree, stopped, lock, net, state, threads, conn>>

OwnerSaves ==
    /\ file = "none" /\ file' = "owner"
    /\ UNCHANGED <<world, partial, stopped, lock, net, state, threads, conn>>

(***************************************************************************)
(* halt: the event first, then every registered socket under the lock.     *)
(***************************************************************************)
CutAll ==
    /\ lock = "free" /\ cut' = cut \cup sockets
    /\ UNCHANGED <<world, tree, stopped, lock, sockets, state, conn>>

WatcherSamples ==
    /\ watcher = "wait" /\ ~stopped /\ trouble # "no"
    /\ watcher' = "halt" /\ stopped' = TRUE
    /\ UNCHANGED <<world, tree, lock, net, state, main, parent, sig, conn>>

WatcherHalts ==
    /\ watcher = "halt" /\ watcher' = "done" /\ CutAll /\ UNCHANGED <<main, parent, sig>>

ParentStops ==
    /\ parent = "wait" /\ main # "ended" /\ parent' = "halt" /\ stopped' = TRUE
    /\ UNCHANGED <<world, tree, lock, net, state, main, watcher, sig, conn>>

ParentHalts ==
    /\ parent = "halt" /\ parent' = "done" /\ CutAll /\ UNCHANGED <<main, watcher, sig>>

(* The handler of SIGTERM runs halt in the main thread, between two of its
   instructions. *)
Sigterm ==
    /\ Signals /\ sig = "none" /\ main # "ended"
    /\ sig' = "halt" /\ stopped' = TRUE
    /\ UNCHANGED <<world, tree, lock, net, state, main, watcher, parent, conn>>

SigtermHalts ==
    /\ sig = "halt" /\ sig' = "done" /\ CutAll /\ UNCHANGED <<main, watcher, parent>>

(***************************************************************************)
(* The main thread.                                                        *)
(***************************************************************************)
Accept(c) ==
    /\ MainRuns /\ main = "loop" /\ ~stopped /\ pc[c] = "none"
    /\ IF Healthy /\ Cardinality(Live) < Slots
         THEN pc' = [pc EXCEPT ![c] = "accepted"] /\ main' = "accept"
         ELSE pc' = [pc EXCEPT ![c] = "closed"] /\ UNCHANGED main
    /\ UNCHANGED <<world, tree, stopped, lock, net, state, watcher, parent, sig, kind, got>>

TakeLock ==
    /\ MainRuns /\ main = "accept" /\ lock = "free"
    /\ lock' = "main" /\ main' = "register"
    /\ UNCHANGED <<world, tree, stopped, net, state, watcher, parent, sig, conn>>

(* The socket joins the set, the lock is released and the thread starts. *)
Register(c) ==
    /\ MainRuns /\ main = "register" /\ pc[c] = "accepted"
    /\ sockets' = sockets \cup {c} /\ lock' = "free"
    /\ main' = "loop" /\ pc' = [pc EXCEPT ![c] = "request"]
    /\ UNCHANGED <<world, tree, stopped, cut, state, watcher, parent, sig, kind, got>>

LeaveLoop ==
    /\ MainRuns /\ main = "loop" /\ stopped /\ main' = "halt"
    /\ UNCHANGED <<world, tree, stopped, lock, net, state, watcher, parent, sig, conn>>

(* The halt of the main thread itself: it holds the lock while it cuts. *)
FinalHalt ==
    /\ MainRuns /\ main = "halt" /\ lock = "free"
    /\ lock' = "main" /\ main' = "cutting"
    /\ UNCHANGED <<world, tree, stopped, net, state, watcher, parent, sig, conn>>

FinalCut ==
    /\ MainRuns /\ main = "cutting"
    /\ cut' = cut \cup sockets /\ lock' = "free" /\ main' = "join"
    /\ UNCHANGED <<world, tree, stopped, sockets, state, watcher, parent, sig, conn>>

(* server_close joins the handlers. *)
Close ==
    /\ MainRuns /\ main = "join" /\ Live = {} /\ main' = "ended"
    /\ UNCHANGED <<world, tree, stopped, lock, net, state, watcher, parent, sig, conn>>

(***************************************************************************)
(* A handler.  It ends by giving back what it took.                        *)
(***************************************************************************)
Go(c, to) == pc' = [pc EXCEPT ![c] = to] /\ UNCHANGED kind

(* The request arrives; it is refused when the share is no longer healthy. *)
Request(c) ==
    /\ pc[c] = "request"
    /\ Go(c, IF Healthy THEN kind[c] ELSE "leave")
    /\ UNCHANGED <<world, tree, stopped, lock, net, state, threads, got>>

(* The client is silent for the time limit, or the socket is cut. *)
NoRequest(c) ==
    /\ pc[c] = "request" /\ Go(c, "leave")
    /\ UNCHANGED <<world, tree, stopped, lock, net, state, threads, got>>

(* The session code is compared under the lock.  Old attempts leave the deque
   first; when it is still full the code is refused unseen. *)
Recent == {g \in guesses : now - g.at <= Window}

\* mutant: one guess too many
TakeSessionOffByOne(c) ==
    /\ pc[c] = "session" /\ lock = "free"
    /\ IF Cardinality(Recent) > MaxAttempts
         THEN Go(c, "leave") /\ UNCHANGED lock
         ELSE Go(c, "compare") /\ lock' = c
    /\ UNCHANGED <<world, tree, stopped, net, state, threads, got>>

TakeSession(c) ==
    /\ pc[c] = "session" /\ lock = "free"
    /\ IF Cardinality(Recent) >= MaxAttempts
         THEN Go(c, "leave") /\ UNCHANGED lock
         ELSE Go(c, "compare") /\ lock' = c
    /\ UNCHANGED <<world, tree, stopped, net, state, threads, got>>

Compare(c) ==
    /\ pc[c] = "compare" /\ Go(c, "leave") /\ lock' = "free"
    /\ \/ UNCHANGED guesses
       \/ guesses' = guesses \cup {[who |-> c, at |-> now]}
    /\ UNCHANGED <<world, tree, stopped, net, busy, threads, got>>

(* A transfer takes one of the permits; a download only sends then. *)
TakePermit(c) ==
    /\ pc[c] \in {"upload", "download"}
    /\ IF Cardinality(busy) >= Transfers
         THEN Go(c, "leave") /\ UNCHANGED busy
         ELSE /\ busy' = busy \cup {c}
              /\ Go(c, IF pc[c] = "upload" THEN "check" ELSE "send")
    /\ UNCHANGED <<world, tree, stopped, lock, net, guesses, threads, got>>

(* An upload refuses a name that exists, and a device without space. *)
CheckName(c) ==
    /\ pc[c] = "check"
    /\ \/ Go(c, "undo") /\ UNCHANGED partial
       \/ file = "none" /\ Go(c, "body") /\ partial' = partial \cup {c}
    /\ UNCHANGED <<world, file, stopped, lock, net, state, threads, got>>

(* The next block: received into the partial file, or sent. *)
Block(c) ==
    /\ pc[c] \in {"body", "send"} /\ got[c] < Blocks /\ Healthy /\ c \notin cut
    /\ got' = [got EXCEPT ![c] = @ + 1]
    /\ UNCHANGED <<world, tree, stopped, lock, net, state, threads, pc, kind>>

(* The client goes silent, the socket is cut, space runs out, or health is gone. *)
BreakOff(c) ==
    /\ pc[c] \in {"body", "send"} /\ got[c] < Blocks /\ Go(c, "undo")
    /\ UNCHANGED <<world, tree, stopped, lock, net, state, threads, got>>

(* All of it: an upload is synced and the share must still be healthy. *)
Whole(c) ==
    /\ pc[c] \in {"body", "send"} /\ got[c] = Blocks
    /\ Go(c, IF pc[c] = "body" /\ Healthy THEN "publish" ELSE "undo")
    /\ UNCHANGED <<world, tree, stopped, lock, net, state, threads, got>>

\* mutant: a rename that replaces
PublishReplacing(c) ==
    /\ pc[c] = "publish" /\ Go(c, "undo")
    /\ file' = c /\ partial' = partial \ {c}
    /\ UNCHANGED <<world, stopped, lock, net, state, threads, got>>

(* The name is given without replacing: the check above is long past. *)
Publish(c) ==
    /\ pc[c] = "publish" /\ Go(c, "undo")
    /\ IF file = "none" THEN file' = c /\ partial' = partial \ {c}
       ELSE UNCHANGED tree
    /\ UNCHANGED <<world, stopped, lock, net, state, threads, got>>

(* The finally of a transfer: the partial file goes and the permit comes back. *)
Undo(c) ==
    /\ pc[c] = "undo" /\ Go(c, "leave")
    /\ partial' = partial \ {c} /\ busy' = busy \ {c}
    /\ UNCHANGED <<world, file, stopped, lock, net, guesses, threads, got>>

(* The thread ends: the socket leaves the set under the lock, the slot is free. *)
Leave(c) ==
    /\ pc[c] = "leave" /\ lock = "free" /\ Go(c, "closed")
    /\ sockets' = sockets \ {c} /\ cut' = cut \ {c}
    /\ UNCHANGED <<world, tree, stopped, lock, state, threads, got>>

(* What a handler does by itself, and what a client makes it do. *)
HandlerOwn(c) ==
    TakeSession(c) \/ Compare(c) \/ TakePermit(c) \/ CheckName(c) \/ Whole(c)
    \/ Publish(c) \/ Undo(c) \/ Leave(c)

HandlerClient(c) == Request(c) \/ NoRequest(c) \/ Block(c) \/ BreakOff(c)

MainOwn == TakeLock \/ (\E c \in Conns : Register(c)) \/ LeaveLoop \/ FinalHalt \/ FinalCut \/ Close

ShareNext ==
    \/ Trouble \/ Tick \/ OwnerSaves
    \/ WatcherSamples \/ WatcherHalts \/ ParentStops \/ ParentHalts
    \/ Sigterm \/ SigtermHalts
    \/ MainOwn
    \/ \E c \in Conns : Accept(c) \/ HandlerOwn(c) \/ HandlerClient(c)

(* Threads are scheduled.  A client is not: a handler that waits for one, even
   for a client that sends a byte now and then, is sure to come back only when
   its socket is cut. *)
Released(c) == c \in cut /\ (NoRequest(c) \/ BreakOff(c))

ShareFairness ==
    /\ WF_shareVars(MainOwn) /\ WF_shareVars(WatcherSamples) /\ WF_shareVars(WatcherHalts)
    /\ WF_shareVars(ParentHalts) /\ WF_shareVars(SigtermHalts)
    /\ \A c \in Conns : WF_shareVars(HandlerOwn(c)) /\ WF_shareVars(Released(c))

ShareSpec == ShareInit /\ [][ShareNext]_shareVars /\ ShareFairness

(* Of every step: two uploads of one name, or an upload and the owner of the device: what is
   published is never replaced (publish, long after the check). *)
NeverReplaced == file # "none" => file' = file

(* What is published was received whole, and when the server has ended no
   partial file is left (upload's last check and its finally). *)
NothingHalf ==
    /\ file \in Conns => got[file] = Blocks
    /\ main = "ended" => partial = {}

(* No window of time sees more wrong codes compared than the limit, however
   many connections guess at once. *)
GuessesBounded ==
    \A t \in 0 .. MaxTime :
        Cardinality({g \in guesses : g.at \in t .. t + Window}) <= MaxAttempts

(* When the main thread waits for the handlers, every one of them has had its
   socket cut, also one that was accepted while another thread was halting. *)
JoinWaitsForCut == main = "join" => Live \subseteq cut

(* A stop, and a link or a directory that is gone, ends the session, unless a
   signal arrived. *)
StopIsDue == stopped \/ trouble # "no"
Ended == main = "ended" \/ sig # "none"
StopEnds == StopIsDue ~> Ended

(* The main thread never waits for a lock it holds itself. *)
NoSelfWait == ~(sig = "halt" /\ lock = "main")
-----------------------------------------------------------------------------
(* What keeps them from step to step.  A handler that compares holds the lock and left
   room for its guess; a name is given to what was received whole; and whoever has a
   socket is in the set that is cut, but for the one that is being registered. *)
Steps == {"none", "closed", "accepted", "request", "compare", "check", "body", "send",
          "publish", "undo", "leave"} \cup Kinds

ShareTypes ==
    /\ trouble \in {"no", "link", "health"} /\ now \in Nat /\ stopped \in BOOLEAN
    /\ file \in Conns \cup {"none", "owner"} /\ lock \in Conns \cup {"free", "main"}
    /\ IsFiniteSet(guesses) /\ \A g \in guesses : g.at \in Nat /\ g.at <= now
    /\ main \in {"loop", "accept", "register", "halt", "cutting", "join", "ended"}
    /\ pc \in [Conns -> Steps] /\ kind \in [Conns -> Kinds] /\ got \in [Conns -> 0 .. Blocks]

LockIsHeld ==
    /\ main \in {"register", "cutting"} => lock = "main"
    /\ \A c \in Conns : pc[c] = "compare" => lock = c

RoomIsLeft == \A c \in Conns : pc[c] = "compare" => Cardinality(Recent) < MaxAttempts

UploadIsWhole ==
    /\ \A c \in Conns : pc[c] = "publish" => got[c] = Blocks
    /\ \A c \in partial : c \in Conns /\ pc[c] \in {"body", "publish", "undo"}
    /\ main = "ended" => Live = {}

SocketIsKnown ==
    /\ \A c \in Conns : pc[c] = "accepted" => main \in {"accept", "register"}
    /\ \A c, d \in Conns : pc[c] = "accepted" /\ pc[d] = "accepted" => c = d
    /\ \A c \in Live : pc[c] # "accepted" => c \in sockets

ShareInv ==
    /\ ShareTypes /\ LockIsHeld /\ RoomIsLeft /\ UploadIsWhole /\ SocketIsKnown
    /\ NothingHalf /\ GuessesBounded /\ JoinWaitsForCut
=============================================================================
