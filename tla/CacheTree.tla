------------------------------ MODULE CacheTree ------------------------------
(***************************************************************************)
(* How the card toolchain removes, prunes and copies a directory of its    *)
(* cache (scripts/r46h_card_toolchain.py): without following links, without*)
(* leaving the mount, while another process of the same user may write,    *)
(* replace or mount over entries.  What an entry is, is looked up by name, *)
(* checked through a descriptor and then removed by name again: three      *)
(* steps, and others act between them.  One directory with a few entries   *)
(* stands for the tree; emptying an entry that is a directory is one step  *)
(* through its descriptor (its own entries go the same way).  The branches *)
(* for Windows, which have no descriptors, are not modelled.               *)
(***************************************************************************)
EXTENDS Naturals, FiniteSets

CONSTANTS Names,      \* the entries of the directory
          MaxMeddling \* how often others change the tree (a bound of the model)

Kinds == {"file", "dir", "link", "special", "gone"}

VARIABLES kind, inode, version,  \* each entry: what it is, which one, its last change
          stocked,               \* the directories among them that have entries of their own
          mounted,               \* the entries another file system is mounted over
          foreignLost,           \* entries whose mounted content was deleted
          dirVersion,            \* the last change of the directory itself
          meddling,
          job, step, todo, seen, \* the operation: its names left, the entry it looked at
          pinned,                \* the directory its descriptor is open on
          fixed,                 \* the entries there when a pruning was validated
          half, copied           \* what was read of the open file, what was copied

treeVars == <<kind, inode, version, stocked, mounted, foreignLost, dirVersion>>
jobVars == <<step, todo, seen, pinned, fixed, half, copied>>
treeAllVars == <<treeVars, meddling, job, jobVars>>

Nothing == [name |-> "none", kind |-> "gone", inode |-> 0, mount |-> FALSE, version |-> 0, dir |-> 0]
NoPin == [inode |-> 0, mount |-> FALSE]
Present == {n \in Names : kind[n] # "gone"}

TreeInit ==
    /\ kind \in [Names -> Kinds \ {"gone"}]
    /\ inode = [n \in Names |-> 0] /\ version = [n \in Names |-> 0]
    /\ stocked = {n \in Names : kind[n] = "dir"}
    /\ mounted = {} /\ foreignLost = {} /\ dirVersion = 0 /\ meddling = 0
    /\ job \in {"remove", "prune", "copy"} /\ step = "preflight"
    /\ todo = {} /\ seen = Nothing /\ pinned = NoPin /\ fixed = {} /\ half = 0
    /\ copied = [n \in Names |-> <<>>]

Finish(how) == step' = how /\ UNCHANGED <<todo, seen, pinned, fixed, half, copied>>

(* An entry stays within the boundary when nothing is mounted over it. *)
Inside(n) == n \notin mounted

(* A symbolic link, or a reparse point of Windows; it is unlinked, not opened. *)
IsLink(k) == k = "link"

(* What may be removed: links (never followed), files and directories of this
   mount. *)
Removable(n) == IsLink(kind[n]) \/ (kind[n] \in {"file", "dir"} /\ Inside(n))

(* What may be copied: files and directories of this mount, no link. *)
Copyable(n) == kind[n] \in {"file", "dir"} /\ Inside(n)

(***************************************************************************)
(* Removal: the whole tree is checked before the first entry goes, and     *)
(* each entry again when its turn comes.  A pruning takes the names of its *)
(* check; a removal lists the directory anew.                              *)
(***************************************************************************)
RemovePreflight ==
    /\ job = "remove" /\ step = "preflight"
    /\ Finish(IF \A n \in Present : Removable(n) THEN "list" ELSE "refused")
    /\ UNCHANGED <<treeVars, meddling, job>>

\* mutant: the names are listed again after the check, not taken from it
PrunePreflightLists ==
    /\ job = "prune" /\ step = "preflight"
    /\ IF \A n \in Present : Removable(n)
         THEN /\ fixed' = Present /\ step' = "list"
              /\ UNCHANGED <<todo, seen, pinned, half, copied>>
         ELSE Finish("refused")
    /\ UNCHANGED <<treeVars, meddling, job>>

PrunePreflight ==
    /\ job = "prune" /\ step = "preflight"
    /\ IF \A n \in Present : Removable(n)
         THEN /\ fixed' = Present /\ todo' = Present /\ step' = "next"
              /\ UNCHANGED <<seen, pinned, half, copied>>
         ELSE Finish("refused")
    /\ UNCHANGED <<treeVars, meddling, job>>

ListEntries ==
    /\ step = "list"
    /\ todo' = Present /\ step' = "next"
    /\ seen' = [Nothing EXCEPT !.dir = dirVersion]
    /\ UNCHANGED <<treeVars, meddling, job, pinned, fixed, half, copied>>

(* What an entry is, by name.  A removal opens what is no link; a pruning opens
   directories only. *)
Look(n) ==
    /\ step = "next" /\ n \in todo
    /\ IF kind[n] = "gone" \/ (job # "copy" /\ kind[n] = "special")
         THEN Finish("failed")
         ELSE /\ seen' = [seen EXCEPT !.name = n, !.kind = kind[n], !.inode = inode[n],
                                      !.mount = ~Inside(n)]
              /\ step' = IF \/ job # "copy" /\ IsLink(kind[n])
                            \/ job = "prune" /\ kind[n] = "file" THEN "unlink" ELSE "open"
              /\ UNCHANGED <<todo, pinned, fixed, half, copied>>
    /\ UNCHANGED <<treeVars, meddling, job>>

(* The entry opened is the entry looked at: its kind, device and inode. *)
SameEntry(n) == kind[n] = seen.kind /\ inode[n] = seen.inode /\ seen.mount = ~Inside(n)

(* A file or a directory is opened, compared with what was looked at, and must be
   within the boundary.  The directory stays open; a file is closed again. *)
\* mutant: the boundary was checked before the removal began
OpenForRemovalAnywhere(n) ==
    /\ job \in {"remove", "prune"} /\ step = "open" /\ seen.name = n
    /\ IF SameEntry(n)
         THEN /\ pinned' = [inode |-> inode[n], mount |-> ~Inside(n)]
              /\ step' = IF kind[n] = "dir" THEN "empty" ELSE "unlink"
              /\ UNCHANGED <<todo, seen, fixed, half, copied>>
         ELSE Finish("failed")
    /\ UNCHANGED <<treeVars, meddling, job>>

OpenForRemoval(n) ==
    /\ job \in {"remove", "prune"} /\ step = "open" /\ seen.name = n
    /\ IF SameEntry(n) /\ Inside(n)
         THEN /\ pinned' = [inode |-> inode[n], mount |-> ~Inside(n)]
              /\ step' = IF kind[n] = "dir" THEN "empty" ELSE "unlink"
              /\ UNCHANGED <<todo, seen, fixed, half, copied>>
         ELSE Finish("failed")
    /\ UNCHANGED <<treeVars, meddling, job>>

(* The directory that has the name now is the one the descriptor is open on (which
   may have something mounted over it since). *)
StillPinned(n) == kind[n] = "dir" /\ inode[n] = pinned.inode

(* A directory is emptied through its descriptor, wherever it is by now; when one
   of its own entries fails the checks, part of it stays. *)
EmptyDirectory(n) ==
    /\ step = "empty" /\ seen.name = n
    /\ \/ step' = "unlink" /\ UNCHANGED <<todo, seen, pinned, fixed, half, copied>>
          /\ stocked' = IF StillPinned(n) /\ ~pinned.mount THEN stocked \ {n} ELSE stocked
       \/ Finish("failed") /\ UNCHANGED stocked
    /\ foreignLost' = IF pinned.mount THEN foreignLost \cup {n} ELSE foreignLost
    /\ UNCHANGED <<kind, inode, version, mounted, dirVersion, meddling, job>>

(* What the system lets go by that name now, whatever was looked at: an empty
   directory (rmdir), or what is no directory (unlink); never what something is
   mounted on. *)
Removes(n) ==
    /\ Inside(n) /\ kind[n] # "gone"
    /\ IF seen.kind = "dir" THEN kind[n] = "dir" /\ n \notin stocked ELSE kind[n] # "dir"

RemoveEntry(n) ==
    /\ step = "unlink" /\ seen.name = n
    /\ IF Removes(n)
         THEN /\ kind' = [kind EXCEPT ![n] = "gone"] /\ dirVersion' = dirVersion + 1
              /\ todo' = todo \ {n} /\ step' = "next"
              /\ UNCHANGED <<seen, pinned, fixed, half, copied>>
         ELSE Finish("failed") /\ UNCHANGED <<kind, dirVersion>>
    /\ UNCHANGED <<inode, version, stocked, mounted, foreignLost, meddling, job>>

(* The emptied directory itself goes last, if nothing came into it meanwhile; a
   pruning leaves its directory. *)
RemoveDone ==
    /\ job \in {"remove", "prune"} /\ step = "next" /\ todo = {}
    /\ Finish(IF job = "prune" \/ Present = {} THEN "done" ELSE "failed")
    /\ UNCHANGED <<treeVars, meddling, job>>

(***************************************************************************)
(* Copy: every file is read in pieces and must not have changed meanwhile, *)
(* and the directory must have the same entries at the end.                *)
(***************************************************************************)
CopyPreflight ==
    /\ job = "copy" /\ step = "preflight"
    /\ Finish(IF \A n \in Present : Copyable(n) THEN "list" ELSE "refused")
    /\ UNCHANGED <<treeVars, meddling, job>>

OpenForCopy(n) ==
    /\ job = "copy" /\ step = "open" /\ seen.name = n
    /\ IF Copyable(n) /\ SameEntry(n)
         THEN /\ seen' = [seen EXCEPT !.version = version[n]]
              /\ half' = version[n] /\ step' = "read" /\ UNCHANGED <<todo, pinned, fixed, copied>>
         ELSE Finish("failed")
    /\ UNCHANGED <<treeVars, meddling, job>>

(* The rest of the file, and the comparison with what it was when opened. A
   file that was replaced meanwhile is still read through the open handle. *)
ReadRest(n) ==
    /\ job = "copy" /\ step = "read" /\ seen.name = n
    /\ LET now == IF inode[n] = seen.inode /\ kind[n] = seen.kind
                    THEN version[n] ELSE seen.version IN
       IF now = seen.version
         THEN /\ copied' = [copied EXCEPT ![n] = <<half, now>>]
              /\ todo' = todo \ {n} /\ step' = "next" /\ UNCHANGED <<seen, pinned, fixed, half>>
         ELSE Finish("failed")
    /\ UNCHANGED <<treeVars, meddling, job>>

CopyDone ==
    /\ job = "copy" /\ step = "next" /\ todo = {}
    /\ Finish(IF dirVersion = seen.dir THEN "done" ELSE "failed")
    /\ UNCHANGED <<treeVars, meddling, job>>

(***************************************************************************)
(* Others of the same user.                                                *)
(***************************************************************************)
Meddle ==
    /\ step \notin {"done", "failed", "refused"} /\ meddling < MaxMeddling
    /\ meddling' = meddling + 1
    /\ \E n \in Names :
         \/ /\ kind[n] = "file" /\ version' = [version EXCEPT ![n] = @ + 1]
            /\ UNCHANGED <<kind, inode, stocked, mounted, dirVersion>>
         \/ /\ kind[n] = "dir" /\ mounted' = mounted \cup {n}
            /\ UNCHANGED <<kind, inode, version, stocked, dirVersion>>
         \/ /\ kind[n] = "dir" /\ Inside(n) /\ stocked' = stocked \cup {n}
            /\ UNCHANGED <<kind, inode, version, mounted, dirVersion>>
         \/ /\ Inside(n) /\ \E k \in Kinds : kind' = [kind EXCEPT ![n] = k]
            /\ \/ stocked' = stocked \ {n}
               \/ kind'[n] = "dir" /\ stocked' = stocked \cup {n}
            /\ inode' = [inode EXCEPT ![n] = @ + 1]
            /\ dirVersion' = dirVersion + 1
            /\ UNCHANGED <<version, mounted>>
    /\ UNCHANGED <<foreignLost, job, jobVars>>

Ended == step \in {"done", "failed", "refused"} /\ UNCHANGED treeAllVars

TreeNext ==
    \/ RemovePreflight \/ PrunePreflight \/ CopyPreflight \/ ListEntries
    \/ \E n \in Names : \/ Look(n) \/ OpenForRemoval(n) \/ EmptyDirectory(n) \/ RemoveEntry(n)
                      \/ OpenForCopy(n) \/ ReadRest(n)
    \/ RemoveDone \/ CopyDone \/ Meddle \/ Ended

TreeSpec == TreeInit /\ [][TreeNext]_treeAllVars

-----------------------------------------------------------------------------
(* Nothing on a file system mounted inside the cache is deleted, even when it
   is mounted after the tree was checked: between the look at an entry and its
   opening, or while it is emptied. *)
ForeignKept == foreignLost = {}

(* Of every step: what a directory holds is deleted only from the directory that
   was looked at, not from one put in its place; and a pruning removes no entry that
   came after its check ("a newly appearing Cargo config is never swept up as
   generic state", r46h_card_toolchain.py:1252).  Of a file or a link that is
   replaced between the look and the unlink this does not hold: the name decides. *)
OnlySeenRemoved ==
    meddling' = meddling =>
        \A n \in Names :
            /\ n \in stocked /\ n \notin stocked'
                 => seen.name = n /\ kind[n] = "dir" /\ inode[n] = seen.inode /\ ~seen.mount
            /\ job = "prune" /\ kind[n] # "gone" /\ kind'[n] = "gone" => n \in fixed

(* A copy that succeeds has every entry that the directory has, and each file
   as it was at one moment. *)
CopyIsWhole ==
    job = "copy" /\ step = "done" =>
        /\ \A n \in Names : copied[n] # <<>> => copied[n][1] = copied[n][2]
        /\ {n \in Names : copied[n] # <<>>} = Present

(* What is mounted inside is mounted over a directory; as long as the directory has
   not changed, what is copied and what is still to do are its entries; and the two
   pieces of an open file are of the version that was opened. *)
CopyUnderWay == job = "copy" /\ step \in {"next", "open", "read", "done"}
CopiedNames == {n \in Names : copied[n] # <<>>}

TreeTypes ==
    /\ kind \in [Names -> Kinds] /\ inode \in [Names -> Nat] /\ version \in [Names -> Nat]
    /\ mounted \subseteq Names /\ stocked \subseteq Names /\ dirVersion \in Nat /\ meddling \in Nat
    /\ {DOMAIN copied} = {Names} /\ todo \subseteq Names /\ fixed \subseteq Names
    /\ pinned \in [inode : Nat, mount : BOOLEAN]
    /\ seen \in [name : Names \cup {"none"}, kind : Kinds, inode : Nat, mount : BOOLEAN,
                  version : Nat, dir : Nat]

CopyGrows ==
    /\ job = "copy" /\ step \in {"preflight", "list"} => CopiedNames = {}
    /\ job = "copy" /\ step \in {"open", "read"} => seen.name \in todo
    /\ job = "copy" /\ step = "read" => half = seen.version
    /\ CopyUnderWay => seen.dir <= dirVersion
    /\ CopyUnderWay /\ dirVersion = seen.dir => CopiedNames \cup todo = Present
    /\ job = "copy" /\ step = "done" => dirVersion = seen.dir /\ todo = {}
    /\ \A n \in Names : copied[n] # <<>> => copied[n][1] = copied[n][2]

(* A removal holds the directory it looked at, within the boundary; a pruning goes
   on with the names of its check only. *)
RemovalHolds ==
    /\ job = "copy" => step \notin {"empty", "unlink"}
    /\ step = "empty" => pinned.inode = seen.inode /\ ~pinned.mount /\ ~seen.mount
    /\ job = "prune" /\ step \in {"next", "open", "empty", "unlink"} => todo \subseteq fixed
    /\ job = "prune" /\ step \in {"open", "empty", "unlink"} => seen.name \in fixed
    /\ job = "prune" => step # "list"

TreeInv ==
    /\ TreeTypes /\ CopyGrows /\ RemovalHolds /\ ForeignKept
    /\ \A n \in mounted : kind[n] = "dir"
=============================================================================
