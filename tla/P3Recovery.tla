------------------------------- MODULE P3Recovery -------------------------------
(* The recovery image of the EASYROMS partition, and the plan to write it:
   scripts/build-easyroms-p3-recovery.py freezes the payloads that the configuration
   pins, lets a container make an exFAT image of them, verifies it twice and publishes
   it; scripts/generate-easyroms-p3-write-plan.py binds the published artifact to a
   plan for the card agent.  Meanwhile the tree is edited and HEAD moves, a container
   leaves its loop device attached, builders are killed and power fails.           *)
EXTENDS Naturals, FiniteSets

CONSTANTS Builders,    \* builders that may run at the same time
          Payloads,    \* the payload bundles the configuration names
          MaxCommits,  \* bound: commits on the branch; each pins its own payloads
          MaxFaults    \* bound: edits, moves of HEAD, kills, power losses

Commits == 1..MaxCommits
\* The bytes of a payload are those one commit pins, or others.
Other == 0
Lost  == [p \in Payloads |-> Other]
None  == [commit |-> Other, image |-> Lost, sum |-> Lost]

VARIABLES head, clean,  \* the commit checked out, and the tracked files are as committed
          live,         \* [Payloads -> bytes in mainline/out]
          pinned,       \* commit of the artifact the variant pins, or Other
          job,          \* [Builders -> a build under way]
          artifact,     \* what is published, or None; its bytes may not be on the disk yet
          durable,      \* the image of the artifact was written back
          planner,      \* the plan generator: the artifact it read, the HEAD it found
          plans,        \* plans that were written
          faults

p3Vars == <<head, clean, live, pinned, job, artifact, durable, planner, plans, faults>>

NoJob == [at |-> "idle", commit |-> Other, frozen |-> Lost, image |-> Lost,
          loop |-> FALSE, sum |-> Lost]

NoPlan == [at |-> "idle", of |-> Other, sum |-> Lost, head |-> Other]

\* The configuration at a commit; that of a pinned variant does not change any more.
Pins(commit) == [p \in Payloads |-> IF pinned = Other THEN commit ELSE pinned]

P3Init ==
  /\ head = 1 /\ clean = TRUE /\ pinned \in {Other, 1} /\ live = Pins(1)
  /\ job = [b \in Builders |-> NoJob]
  /\ artifact = None /\ durable = FALSE /\ planner = NoPlan /\ plans = {} /\ faults = 0

Goes(b, from, to) == job[b].at = from /\ job' = [job EXCEPT ![b].at = to]
Tree == <<head, clean, live, pinned, faults>>
Out  == <<artifact, durable, planner, plans>>

-----------------------------------------------------------------------------
(* The builder *)

\* Nothing tracked is changed, and every build input has the bytes and mode of HEAD.
GitInputs(commit) == clean /\ head = commit

BeginBuild(b) ==
  /\ job[b].at = "idle" /\ GitInputs(head) /\ artifact = None
  /\ job' = [job EXCEPT ![b] = [NoJob EXCEPT !.at = "freeze", !.commit = head]]
  /\ UNCHANGED <<Tree, Out>>

\* The list of the bundle and then each file has the hash the configuration pins,
\* while it is copied.
PinnedBytes(b, p) == live[p] = Pins(job[b].commit)[p]

FreezePayload(b, p) ==
  /\ job[b].at = "freeze" /\ job[b].frozen[p] = Other
  /\ PinnedBytes(b, p)
  /\ job' = [job EXCEPT ![b].frozen[p] = live[p]]
  /\ UNCHANGED <<Tree, Out>>

\* The container makes the image; it says PASS, whatever it did with the bytes.
BuildImage(b) ==
  /\ job[b].at = "freeze" /\ \A p \in Payloads : job[b].frozen[p] # Other
  /\ \E image \in {job[b].frozen, Lost}, loop \in BOOLEAN :
       job' = [job EXCEPT ![b].at = "loop", ![b].image = image, ![b].loop = loop]
  /\ UNCHANGED <<Tree, Out>>

LoopCheck(b) ==
  /\ ~job[b].loop /\ Goes(b, "loop", "verify")
  /\ UNCHANGED <<Tree, Out>>

\* The tree in the image, read raw, is exactly the expected one.
RawTreeExact(image, frozen) == image = frozen

RawVerify(b) ==
  /\ RawTreeExact(job[b].image, job[b].frozen)
  /\ Goes(b, "verify", "hash")
  /\ UNCHANGED <<Tree, Out>>

\* The sum of the image is taken around a second verification.
HashImage(b) ==
  /\ job[b].at = "hash" /\ RawTreeExact(job[b].image, job[b].frozen)
  /\ job' = [job EXCEPT ![b].at = "recheck", ![b].sum = job[b].image]
  /\ UNCHANGED <<Tree, Out>>

\* Live and frozen payloads and the tracked inputs are still what they were.
Recheck(b) ==
  /\ \A p \in Payloads : PinnedBytes(b, p)
  /\ GitInputs(job[b].commit)
  /\ Goes(b, "recheck", "publish")
  /\ UNCHANGED <<Tree, Out>>

\* One rename that never replaces.
Publish(b) ==
  /\ artifact = None /\ Goes(b, "publish", "idle")
  /\ artifact' = [commit |-> job[b].commit, image |-> job[b].image, sum |-> job[b].sum]
  /\ durable' = FALSE
  /\ UNCHANGED <<Tree, planner, plans>>

\* Every error removes the stage.
BuildFails(b) ==
  /\ job[b].at # "idle" /\ job' = [job EXCEPT ![b] = NoJob]
  /\ UNCHANGED <<Tree, Out>>

-----------------------------------------------------------------------------
(* The plan generator: one step after the other, while the tree, HEAD and the artifact
   may change; it does not come back to what it has checked.                      *)

Plans(from, to) == planner.at = from /\ planner' = [planner EXCEPT !.at = to]
Unplanned == <<head, clean, live, pinned, faults, job, artifact, durable>>

\* The directory has exactly the files of an artifact, with a complete status; the
\* status and the sums are read.
Complete(a) == a # None

ReadArtifact ==
  /\ planner.at = "idle" /\ Complete(artifact)
  /\ planner' = [at |-> "head", of |-> artifact.commit, sum |-> artifact.sum, head |-> Other]
  /\ UNCHANGED <<Unplanned, plans>>

\* Without pins HEAD must be the commit of the build; else the pinned artifact it is,
\* from an ancestor of HEAD.
HeadMatches(commit) == IF pinned = Other THEN head = commit
                                         ELSE commit = pinned /\ pinned <= head

ReadHead ==
  /\ planner.at = "head" /\ HeadMatches(planner.of)
  /\ planner' = [planner EXCEPT !.at = "clean", !.head = head]
  /\ UNCHANGED <<Unplanned, plans>>

CheckClean ==
  /\ clean /\ Plans("clean", "config")
  /\ UNCHANGED <<Unplanned, plans>>

\* The configuration that is read now is the one of the status, and the source
\* bindings agree with it.
ConfigAgrees(commit) == Pins(head) = Pins(commit)

CheckConfig ==
  /\ ConfigAgrees(planner.of) /\ Plans("config", "hash")
  /\ UNCHANGED <<Unplanned, plans>>

\* Every file of the directory has, by its name, the sum that was read.
ArtifactWhole(sum) == artifact # None /\ artifact.image = sum

HashArtifact ==
  /\ ArtifactWhole(planner.sum) /\ Plans("hash", "write")
  /\ UNCHANGED <<Unplanned, plans>>

\* The plan names the path of the image and the sum.
WritePlan ==
  /\ planner.at = "write" /\ planner' = NoPlan
  /\ plans' = plans \cup {[at |-> planner.head, image |-> planner.sum]}
  /\ UNCHANGED Unplanned

PlanFails ==
  /\ planner.at # "idle" /\ planner' = NoPlan
  /\ UNCHANGED <<Unplanned, plans>>

-----------------------------------------------------------------------------
(* The world *)

Fault == faults < MaxFaults /\ faults' = faults + 1

EditPayload ==
  /\ Fault /\ \E p \in Payloads, c \in Commits \cup {Other} : live' = [live EXCEPT ![p] = c]
  /\ UNCHANGED <<head, clean, pinned, job, Out>>

EditTracked ==
  /\ Fault /\ clean' = ~clean
  /\ UNCHANGED <<head, live, pinned, job, Out>>

Commit ==
  /\ Fault /\ head < MaxCommits /\ head' = head + 1 /\ clean' = TRUE
  /\ \/ UNCHANGED live
     \/ live' = Pins(head')
  /\ UNCHANGED <<pinned, job, Out>>

\* A loop device that is still attached writes to the image.
LateWrite(b) ==
  /\ Fault /\ job[b].loop /\ job[b].at \notin {"idle", "freeze"}
  /\ job' = [job EXCEPT ![b].image = Lost]
  /\ UNCHANGED <<head, clean, live, pinned, Out>>

WriteBack ==
  /\ artifact # None /\ ~durable /\ durable' = TRUE
  /\ UNCHANGED <<Tree, job, artifact, planner, plans>>

\* The name, or the bytes of the image, may not have reached the disk.
PowerLoss ==
  /\ Fault /\ job' = [b \in Builders |-> NoJob] /\ planner' = NoPlan
  /\ IF durable THEN UNCHANGED artifact
     ELSE artifact' \in {artifact, None, [artifact EXCEPT !.image = Lost]}
  /\ UNCHANGED <<head, clean, live, pinned, durable, plans>>

\* The operator deletes an artifact to build anew.
DeleteArtifact ==
  /\ Fault /\ artifact # None /\ artifact' = None
  /\ UNCHANGED <<head, clean, live, pinned, job, durable, planner, plans>>

P3Next ==
  \/ \E b \in Builders :
       \/ BeginBuild(b) \/ BuildImage(b) \/ LoopCheck(b) \/ RawVerify(b) \/ HashImage(b)
       \/ Recheck(b) \/ Publish(b) \/ BuildFails(b) \/ LateWrite(b)
       \/ \E p \in Payloads : FreezePayload(b, p)
  \/ ReadArtifact \/ ReadHead \/ CheckClean \/ CheckConfig \/ HashArtifact \/ WritePlan
  \/ PlanFails \/ EditPayload \/ EditTracked \/ Commit \/ WriteBack \/ PowerLoss
  \/ DeleteArtifact

P3Spec == P3Init /\ [][P3Next]_p3Vars

-----------------------------------------------------------------------------
(* A plan names the sum of an image with every payload as it is pinned at the commit
   that the generator found checked out, whatever was edited, committed, lost or built
   anew meanwhile.  That this commit still is checked out, or that the image still is
   there, it does not say: both may change before the plan is written.            *)
PlanIsPinned == \A plan \in plans : plan.image = Pins(plan.at)

(* What the plans rest on: what was frozen is what the commit pins, the sum of an
   image is that of an exact one, and a published artifact keeps its sum whatever
   happens to its image.                                                          *)
Bytes == [Payloads -> Nat]
Steps == {"idle", "freeze", "loop", "verify", "hash", "recheck", "publish"}
Jobs  == [at : Steps, commit : Nat, frozen : Bytes, image : Bytes, loop : BOOLEAN, sum : Bytes]

P3Types ==
  /\ head \in Nat \ {0} /\ pinned \in Nat /\ live \in Bytes
  /\ job \in [Builders -> Jobs] /\ artifact \in [commit : Nat, image : Bytes, sum : Bytes]
  /\ planner \in [at : {"idle", "head", "clean", "config", "hash", "write"},
                  of : Nat, sum : Bytes, head : Nat]

JobIsPinned(j) ==
  /\ \A p \in Payloads : j.frozen[p] \in {Other, Pins(j.commit)[p]}
  /\ j.at \notin {"idle", "freeze"} => j.frozen = Pins(j.commit)
  /\ j.at \in {"recheck", "publish"} => j.sum = Pins(j.commit)

PlannerIsTrue ==
  /\ planner.at # "idle" => planner.sum = Pins(planner.of)
  /\ planner.at \notin {"idle", "head"} => Pins(planner.head) = Pins(planner.of)

P3Inv ==
  /\ P3Types /\ PlannerIsTrue /\ PlanIsPinned
  /\ \A b \in Builders : JobIsPinned(job[b])
  /\ artifact # None => artifact.sum = Pins(artifact.commit)
=============================================================================
