---------------------------- MODULE AgentEndpoint ----------------------------
(***************************************************************************)
(* The endpoint of the card agent: one directory per user with a lock file *)
(* that is never removed, the control socket and the session token         *)
(* (UnixServer.prepareEndpoint and cleanEndpoint).  Agents are started,    *)
(* stopped and killed at any time; the kernel drops the flock of a process *)
(* that is gone, and its socket and token stay behind.                     *)
(***************************************************************************)
CONSTANTS Agents, None

VARIABLES
    flock,   \* the agent that holds agent.lock
    socket,  \* the agent that bound control.sock
    token,   \* the agent whose token the token file holds
    pc       \* prepareEndpoint, the accept loop, cleanEndpoint

vars == <<flock, socket, token, pc>>

Init ==
    /\ flock = None /\ socket = None /\ token = None
    /\ pc = [a \in Agents |-> "off"]

Goto(a, step) == pc' = [pc EXCEPT ![a] = step]
Exits(a)      == Goto(a, "off") /\ flock' = IF flock = a THEN None ELSE flock

Launch(a) == pc[a] = "off" /\ Goto(a, "lock") /\ UNCHANGED <<flock, socket, token>>

\* flock with LOCK_NB: another agent ends this one
AcquireInstanceLock(a) ==
    /\ pc[a] = "lock"
    /\ IF flock = None THEN flock' = a /\ Goto(a, "socket") ELSE Exits(a)
    /\ UNCHANGED <<socket, token>>

\* a socket that answers belongs to an agent that runs; one that refuses is stale
Listening(a) == a # None /\ pc[a] = "serve"

RemoveStaleSocket(a) ==
    /\ pc[a] = "socket"
    /\ IF Listening(socket) THEN Exits(a) /\ UNCHANGED socket
                            ELSE socket' = None /\ Goto(a, "token") /\ UNCHANGED flock
    /\ UNCHANGED token

RemoveStaleToken(a) ==
    /\ pc[a] = "token" /\ token' = None /\ Goto(a, "create")
    /\ UNCHANGED <<flock, socket>>

CreateToken(a) ==
    /\ pc[a] = "create"
    /\ IF token = None THEN token' = a /\ Goto(a, "bind") /\ UNCHANGED flock
                       ELSE Exits(a) /\ UNCHANGED token
    /\ UNCHANGED socket

\* a bind that fails removes the token and gives up
Listen(a) ==
    /\ pc[a] = "bind"
    /\ \/ socket = None /\ socket' = a /\ Goto(a, "serve") /\ UNCHANGED <<flock, token>>
       \/ token' = None /\ Exits(a) /\ UNCHANGED socket

Stop(a) ==
    /\ pc[a] = "serve" /\ Goto(a, "unlink")
    /\ UNCHANGED <<flock, socket, token>>

\* mutant: the lock is given up with the socket, before the token is removed
UnlinkSocketAndUnlock(a) ==
    /\ pc[a] = "unlink" /\ socket' = None /\ Goto(a, "forget")
    /\ flock' = IF flock = a THEN None ELSE flock
    /\ UNCHANGED token

UnlinkSocket(a) ==
    /\ pc[a] = "unlink" /\ socket' = None /\ Goto(a, "forget")
    /\ UNCHANGED <<flock, token>>

UnlinkToken(a) ==
    /\ pc[a] = "forget" /\ token' = None /\ Goto(a, "unlock")
    /\ UNCHANGED <<flock, socket>>

Unlock(a) == pc[a] = "unlock" /\ Exits(a) /\ UNCHANGED <<socket, token>>

Killed(a) == pc[a] # "off" /\ Exits(a) /\ UNCHANGED <<socket, token>>

Next == \E a \in Agents :
    \/ Launch(a) \/ AcquireInstanceLock(a) \/ RemoveStaleSocket(a) \/ RemoveStaleToken(a)
    \/ CreateToken(a) \/ Listen(a) \/ Stop(a) \/ UnlinkSocket(a) \/ UnlinkToken(a)
    \/ Unlock(a) \/ Killed(a)

Spec == Init /\ [][Next]_vars

(* The agent that serves is the one whose socket a client connects to and whose *)
(* token it reads: no agent that starts, fails to start, ends or was killed     *)
(* ever takes away or replaces the endpoint of the one that serves              *)
(* (UnixServer.swift 563-572, 604-643, 680-692).                                *)
EndpointIsServed ==
    \A a \in Agents : pc[a] = "serve" => flock = a /\ socket = a /\ token = a
-----------------------------------------------------------------------------
(* What keeps it from step to step: whoever prepares or cleans the endpoint holds *)
(* the flock, and between its token and its socket an agent has its own token.    *)
Holding == {"socket", "token", "create", "bind", "serve", "unlink", "forget", "unlock"}
Steps == {"off", "lock"} \cup Holding

EndpointTypes == pc \in [Agents -> Steps]
HoldersLock == \A a \in Agents : pc[a] \in Holding => flock = a
BinderHasToken == \A a \in Agents : pc[a] = "bind" => token = a

EndpointInv == EndpointTypes /\ HoldersLock /\ BinderHasToken /\ EndpointIsServed
=============================================================================
