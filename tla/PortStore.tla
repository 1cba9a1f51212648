----------------------------- MODULE PortStore -----------------------------
(***************************************************************************)
(* The store of installed ports (gaming-ports/manager.py): one invocation  *)
(* at a time, under a lock, installs, rolls back or removes a package.     *)
(* The index installed.json names for each package its generation and the  *)
(* previous one; runtimes are shared files named by their hash.  The       *)
(* process may be killed and the power may fail between any two steps, and *)
(* the sync of the index's directory may fail after the index was replaced.*)
(***************************************************************************)
EXTENDS Naturals, FiniteSets

CONSTANTS Pkgs,      \* the packages
          Runtimes,  \* the versions of one shared runtime
          MaxOps,    \* invocations (a bound of the model)
          MaxFaults, \* failed writes, kills and power failures (a bound of the model)
          LosesContent \* whether a power failure may lose unsynced content

Gens == 1 .. MaxOps
NoGen == 0
Absent == [cur |-> NoGen, prev |-> NoGen]

(* What an invocation may do: catalog, refresh and details change nothing here. *)
Reads == {"list"}
Changes == {"install", "rollback", "uninstall"}

VARIABLES vis, dur,     \* the index as it is read, and as a power failure leaves it
          gen,          \* each generation directory: absent, whole, half removed, damaged
          unsynced,     \* generations written and not yet on the medium
          owner, needs, \* the package and the runtime of each generation
          pool,         \* the runtime files
          reverted,     \* whether a power failure brought an older index back
          overlooked,   \* whether an invocation began while that could still happen
          changed,      \* whether the invocation changed what the index selects
          ops, faults,
          step, kind, pkg, mem, fresh, answer \* the invocation

disk == <<vis, dur, gen, unsynced, owner, needs, pool>>
proc == <<kind, pkg, mem, fresh>>
storeVars == <<disk, reverted, overlooked, changed, ops, faults, step, proc, answer>>

Named(rec) == {rec.cur, rec.prev} \ {NoGen}
Selected(index) == UNION {Named(index.packages[p]) : p \in Pkgs}

\* mutant: the previous generations are forgotten
ReferencedNow(index) ==
    {needs[index.packages[p].cur] : p \in {q \in Pkgs : index.packages[q].cur # NoGen}}

(* The runtimes that the current and previous generations of an index use. *)
Referenced(index) == {needs[g] : g \in Selected(index)}

StoreInit ==
    /\ vis = [packages |-> [p \in Pkgs |-> Absent], runtime |-> "none"] /\ dur = vis
    /\ gen = [g \in Gens |-> "absent"] /\ unsynced = {}
    /\ owner = [g \in Gens |-> "none"] /\ needs = [g \in Gens |-> "none"] /\ pool = {}
    /\ reverted = FALSE /\ overlooked = FALSE /\ changed = FALSE /\ ops = 0 /\ faults = 0
    /\ step = "idle" /\ kind = "none" /\ pkg \in Pkgs /\ mem = vis /\ fresh = NoGen
    /\ answer = "none"

Finish(how) ==
    /\ answer' = how /\ step' = "idle" /\ kind' = "none"
    /\ UNCHANGED <<ops, pkg, mem, fresh>>

(* The answer is ok or not.  Not ok after the change was made, because the cleanup
   failed, is told apart here. *)
Failed == IF answer \in {"installed", "removed"} THEN "unclean" ELSE "failed"

(* atomic_json: the new index is written and synced beside the old one, then
   replaces it, then the directory is synced.  A failure of the last step is
   told apart: the new index is already visible. *)
WriteIndex(index, written, published, failed) ==
    \/ /\ vis' = index /\ dur' = index /\ written /\ UNCHANGED faults
    \/ /\ faults < MaxFaults /\ faults' = faults + 1
       /\ vis' = index /\ published /\ UNCHANGED dur
    \/ /\ faults < MaxFaults /\ faults' = faults + 1 /\ failed /\ UNCHANGED <<vis, dur>>

(***************************************************************************)
(* Every invocation takes the lock, reads the index and collects runtimes. *)
(***************************************************************************)
Start(k, p) ==
    /\ step = "idle" /\ ops < MaxOps /\ ops' = ops + 1
    /\ kind' = k /\ pkg' = p /\ mem' = vis /\ fresh' = NoGen
    /\ step' = "collect" /\ answer' = "none"
    /\ UNCHANGED <<disk, faults>>

(* Unused runtimes leave the index before their files go. *)
CollectIndex ==
    /\ step = "collect"
    /\ IF mem.runtime # "none" /\ mem.runtime \notin Referenced(mem)
         THEN LET index == [mem EXCEPT !.runtime = "none"] IN
              WriteIndex(index, step' = "unlink" /\ mem' = index /\ UNCHANGED <<kind, pkg, fresh, answer>>,
                         Finish(Failed), Finish(Failed))
         ELSE step' = "unlink" /\ UNCHANGED <<vis, dur, faults, proc, answer>>
    /\ UNCHANGED <<gen, unsynced, owner, needs, pool, ops>>

CollectFiles ==
    /\ step = "unlink"
    /\ pool' = pool \cap Referenced(mem)
    /\ IF kind \in Changes /\ answer = "none" /\ fresh = NoGen
         THEN step' = kind /\ UNCHANGED <<proc, answer>>
         ELSE Finish(answer)
    /\ UNCHANGED <<vis, dur, gen, unsynced, owner, needs, ops, faults>>

(***************************************************************************)
(* install: everything is staged first; then the runtime and the           *)
(* generation are moved in, the index selects them, and the generations it *)
(* no longer names are removed.                                            *)
(***************************************************************************)
Stage ==
    /\ step = "install"
    /\ \/ Finish("failed") /\ UNCHANGED <<owner, needs>>
       \/ /\ fresh' = ops /\ owner' = [owner EXCEPT ![ops] = pkg]
          /\ \E r \in Runtimes : needs' = [needs EXCEPT ![ops] = r]
          /\ step' = "runtime" /\ UNCHANGED <<ops, kind, pkg, mem, answer>>
    /\ UNCHANGED <<vis, dur, gen, unsynced, pool, faults>>

(* A runtime that the index records and whose file is intact is not fetched. *)
Cached(r) == mem.runtime = r /\ r \in pool

MoveRuntime ==
    /\ step = "runtime" /\ step' = "place"
    /\ pool' = IF Cached(needs[fresh]) THEN pool ELSE pool \cup {needs[fresh]}
    /\ UNCHANGED <<vis, dur, gen, unsynced, owner, needs, ops, faults, proc, answer>>

Place ==
    /\ step = "place"
    /\ gen' = [gen EXCEPT ![fresh] = "whole"] /\ unsynced' = unsynced \cup {fresh}
    /\ step' = "select"
    /\ UNCHANGED <<vis, dur, owner, needs, pool, ops, faults, proc, answer>>

Chosen == [packages |-> [mem.packages EXCEPT ![pkg] = [cur |-> fresh, prev |-> @.cur]],
           runtime |-> needs[fresh]]

Select ==
    /\ step = "select"
    /\ WriteIndex(Chosen,
                  step' = "sweep" /\ mem' = Chosen /\ answer' = "installed" /\ UNCHANGED <<kind, pkg, fresh>>,
                  Finish("uncertain"),
                  step' = "revert" /\ answer' = "failed" /\ UNCHANGED proc)
    /\ UNCHANGED <<gen, unsynced, owner, needs, pool, ops>>

(* Removing a directory takes several steps and may be cut short. *)
Remove(g) ==
    /\ gen' = [gen EXCEPT ![g] = IF @ = "half" THEN "absent" ELSE "half"]
    /\ unsynced' = unsynced \ {g}

Others == {g \in Gens : owner[g] = pkg /\ gen[g] # "absent" /\ g \notin Named(mem.packages[pkg])}

Sweep ==
    /\ step \in {"sweep", "remove"}
    /\ IF Others = {}
         THEN step' = "collect" /\ UNCHANGED <<gen, unsynced>>
         ELSE (\E g \in Others : Remove(g)) /\ UNCHANGED step
    /\ UNCHANGED <<vis, dur, owner, needs, pool, ops, faults, proc, answer>>

RemoveFails ==
    /\ step \in {"sweep", "remove", "revert"} /\ faults < MaxFaults /\ faults' = faults + 1
    /\ Finish(Failed) /\ UNCHANGED disk

(* A write that failed before it was visible: the new generation goes again. *)
Revert ==
    /\ step = "revert"
    /\ IF gen[fresh] = "absent"
         THEN step' = "collect" /\ UNCHANGED <<gen, unsynced>>
         ELSE Remove(fresh) /\ UNCHANGED step
    /\ UNCHANGED <<vis, dur, owner, needs, pool, ops, faults, proc, answer>>

(***************************************************************************)
(* rollback and uninstall.                                                 *)
(***************************************************************************)
Rollback ==
    /\ step = "rollback"
    /\ LET rec == mem.packages[pkg]
           index == [mem EXCEPT !.packages[pkg] = [cur |-> rec.prev, prev |-> rec.cur]] IN
       IF rec.prev = NoGen \/ gen[rec.prev] = "absent"
         THEN Finish("failed") /\ UNCHANGED <<vis, dur, faults>>
         ELSE WriteIndex(index, Finish("rolledBack"), Finish("uncertain"), Finish("failed"))
    /\ UNCHANGED <<gen, unsynced, owner, needs, pool, ops>>

Uninstall ==
    /\ step = "uninstall"
    /\ LET index == [mem EXCEPT !.packages[pkg] = Absent] IN
       IF mem.packages[pkg] = Absent /\ Others = {}
         THEN Finish("failed") /\ UNCHANGED <<vis, dur, faults>>
         ELSE WriteIndex(index,
                  step' = "remove" /\ mem' = index /\ answer' = "removed" /\ UNCHANGED <<kind, pkg, fresh>>,
                  Finish("uncertain"), Finish("failed"))
    /\ UNCHANGED <<gen, unsynced, owner, needs, pool, ops>>

(***************************************************************************)
(* The process is killed; the power fails.  The lock goes with the process.*)
(***************************************************************************)
Kill ==
    /\ step # "idle" /\ faults < MaxFaults /\ faults' = faults + 1
    /\ Finish("none") /\ UNCHANGED disk

PowerFails ==
    /\ faults < MaxFaults /\ faults' = faults + 1
    /\ vis' \in {vis, dur} /\ dur' = vis' /\ reverted' = (reverted \/ vis' # vis)
    /\ changed' = FALSE /\ UNCHANGED overlooked
    /\ \E lost \in SUBSET unsynced :
        /\ ~LosesContent => lost = {}
        /\ gen' = [g \in Gens |-> IF g \in lost THEN "damaged" ELSE gen[g]]
    /\ unsynced' = {} /\ Finish("none")
    /\ UNCHANGED <<owner, needs, pool>>

(* The system writes back what was not synced. *)
WriteBack ==
    /\ unsynced # {} /\ unsynced' = {}
    /\ UNCHANGED <<vis, dur, gen, owner, needs, pool, ops, faults, step, proc, answer>>

Invocation ==
    \/ \E k \in Changes \cup Reads, p \in Pkgs : Start(k, p)
    \/ CollectIndex \/ CollectFiles \/ Stage \/ MoveRuntime \/ Place \/ Select
    \/ Sweep \/ RemoveFails \/ Revert \/ Rollback \/ Uninstall \/ Kill \/ WriteBack

(* What the properties remember. *)
Remember ==
    /\ UNCHANGED reverted
    /\ IF step = "idle" /\ step' = "collect"
         THEN overlooked' = (overlooked \/ vis # dur) /\ changed' = FALSE
         ELSE UNCHANGED overlooked /\ changed' = (changed \/ vis'.packages # vis.packages)

StoreNext == (Invocation /\ Remember) \/ PowerFails

StoreSpec == StoreInit /\ [][StoreNext]_storeVars

(* No generation goes while an index that names it can still come back: the one
   that is read, or the one a power failure would leave (install, uninstall). *)
GenerationsStay ==
    \A g \in Selected(vis) \cup Selected(dur) : gen[g] \in {"whole", "damaged"}

(* The runtimes are there that the index names and that the index names which a power
   failure would bring back: also after a failed sync of the index's directory, and
   after the power failure.  But an invocation that begins while the durable index may
   still be an older one, even one that only reads, collects by the visible index
   alone: a runtime that only the older index names goes, and may be missed after a
   power failure.  Then this holds of the visible index, until that power failure. *)
RuntimesStay ==
    /\ ~overlooked => Referenced(vis) \cup Referenced(dur) \subseteq pool
    /\ ~reverted => Referenced(vis) \subseteq pool

(* What is selected was written out before the index that selects it. *)
SelectedIsWhole == \A g \in Selected(vis) : gen[g] # "damaged"

(* An answer that claims a change is true on the medium; one that denies it has left
   what the index selects as it was, but for a change whose cleanup failed
   ("unclean") and a write of which nobody knows whether it will last ("uncertain"). *)
AnswerIsTrue ==
    step = "idle" =>
        /\ answer \in {"installed", "rolledBack", "removed"} => dur = vis
        /\ answer = "installed" => vis.packages[pkg].cur = fresh
        /\ answer = "removed" => vis.packages[pkg] = Absent /\ Others = {}
        /\ answer = "failed" => ~changed
-----------------------------------------------------------------------------
(* What keeps them from step to step.  An invocation works on the index that is read; the
   generation it installs is newer than any that an index names; and it removes
   generations only when the index that is read is also the one that a power failure
   leaves. *)
Records == [cur : 0 .. MaxOps, prev : 0 .. MaxOps]
Indexes == [packages : [Pkgs -> Records], runtime : Runtimes \cup {"none"}]
Coming == Selected(vis) \cup Selected(dur)

StoreTypes ==
    /\ vis \in Indexes /\ dur \in Indexes /\ mem \in Indexes
    /\ gen \in [Gens -> {"absent", "whole", "half", "damaged"}] /\ unsynced \subseteq Gens
    /\ owner \in [Gens -> Pkgs \cup {"none"}] /\ needs \in [Gens -> Runtimes \cup {"none"}]
    /\ ops \in 0 .. MaxOps /\ fresh \in 0 .. MaxOps /\ pkg \in Pkgs
    /\ kind \in Changes \cup Reads \cup {"none"}
    /\ step \in Changes \cup {"idle", "collect", "unlink", "runtime", "place", "select", "sweep",
                              "remove", "revert"}

IndexIsRead == step # "idle" => mem = vis /\ ops \in Gens

FreshIsNew ==
    /\ \A g \in Coming : g <= ops
    /\ step # "idle" /\ fresh = NoGen => ops \notin Coming
    /\ step \in Changes => fresh = NoGen
    /\ step \in {"runtime", "place", "select", "revert"} => fresh = ops /\ fresh \notin Coming

StagedIsReady ==
    /\ step \in {"runtime", "place", "select"} => owner[fresh] = pkg
    /\ step \in {"place", "select"} => needs[fresh] \in pool
    /\ step = "select" => gen[fresh] = "whole"

OwnersAreTrue ==
    \A p \in Pkgs : \A g \in Named(vis.packages[p]) \cup Named(dur.packages[p]) : owner[g] = p

AnswerIsKept ==
    /\ step \in {"sweep", "remove"} => dur = vis
    /\ step = "revert" => answer = "failed"
    /\ answer \in {"installed", "removed"} =>
         dur = vis /\ step \in {"sweep", "remove", "collect", "unlink", "idle"}
    /\ answer = "installed" => vis.packages[pkg].cur = fresh
    /\ answer = "removed" => vis.packages[pkg] = Absent
    /\ answer = "removed" /\ step \in {"collect", "unlink", "idle"} => Others = {}

InvocationHolds == StoreTypes /\ IndexIsRead /\ FreshIsNew /\ StagedIsReady /\ AnswerIsKept
DiskHolds == OwnersAreTrue /\ GenerationsStay /\ RuntimesStay
StoreHolds == InvocationHolds /\ DiskHolds

(* An older index can come back under an invocation only if it could when that began;
   and nothing has changed as long as nothing is claimed. *)
Remembers ==
    /\ step # "idle" => answer \in {"none", "failed", "installed", "removed"}
    /\ step # "idle" /\ ~overlooked => dur = vis
    /\ answer = "rolledBack" => dur = vis
    /\ answer = "failed" \/ (answer = "none" /\ step # "idle") => ~changed

StoreInv == StoreHolds /\ Remembers
=============================================================================
