---------------------------- MODULE PromotionLock ----------------------------
(***************************************************************************)
(* How install.sh keeps two commands from working on BOOT at once: it      *)
(* opens the lock file, creating it when it is missing, locks what it      *)
(* opened or dies, and removes the file by name in its exit trap, before   *)
(* the lock goes with the process.  A lock belongs to the file opened, not *)
(* to its name.                                                            *)
(***************************************************************************)
EXTENDS Naturals, FiniteSets

CONSTANT Commands  \* commands started by the operator, each of them once

VARIABLES
    link,   \* the file that LOCK_FILE names, 0 when there is none
    files,  \* lock files created so far
    fd,     \* the file a command opened, 0 before
    phase   \* "new", "opened", "locked", "leaving" (file removed) or "gone"

vars == <<link, files, fd, phase>>

Init == /\ link = 0 /\ files = 0
        /\ fd = [c \in Commands |-> 0] /\ phase = [c \in Commands |-> "new"]

Holders == {c \in Commands : phase[c] \in {"locked", "leaving"}}

Enter(c, p) == phase' = [phase EXCEPT ![c] = p]

Open(c) ==
    /\ phase[c] = "new" /\ Enter(c, "opened")
    /\ IF link = 0 THEN files' = files + 1 /\ link' = files'
                   ELSE UNCHANGED <<files, link>>
    /\ fd' = [fd EXCEPT ![c] = link']

(* A command that cannot lock dies before its exit trap is set.            *)
TryLock(c) ==
    /\ phase[c] = "opened"
    /\ Enter(c, IF \E h \in Holders : fd[h] = fd[c] THEN "gone" ELSE "locked")
    /\ UNCHANGED <<link, files, fd>>

RemoveLock(c) == /\ phase[c] = "locked" /\ Enter(c, "leaving")
                 /\ link' = 0 /\ UNCHANGED <<files, fd>>

Exit(c) == phase[c] = "leaving" /\ Enter(c, "gone") /\ UNCHANGED <<link, files, fd>>

Next == \E c \in Commands : Open(c) \/ TryLock(c) \/ RemoveLock(c) \/ Exit(c)

Spec == Init /\ [][Next]_vars

(* install.sh: a command works on BOOT only when no other one holds the    *)
(* lock.                                                                   *)
OneCommandAtATime ==
    Cardinality({c \in Commands : phase[c] = "locked"}) <= 1
=============================================================================
