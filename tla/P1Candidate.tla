---------------------------- MODULE P1Candidate ----------------------------
(***************************************************************************)
(* The one-shot BOOT candidates v0.9 and v0.10 of the card's p1            *)
(* (scripts/build-v09-p1-candidate.py, build-v10-p1-candidate.py) and      *)
(* their write plans (generate-v09-p1-write-plan.py, generate-v10-...):    *)
(* from a clone of p1 and a deployment bundle a whole new p1 is made, and  *)
(* a plan lets the Card Agent replace p1 by it if p1 still is the base.    *)
(*                                                                         *)
(* The same program in two versions: an operator with parameter v is both, *)
(* and the V09 operators are the text of v0.9.  A FAT tree is a function   *)
(* from paths to contents; equal trees have equal digests.                 *)
(***************************************************************************)
EXTENDS Naturals, FiniteSets

CONSTANTS Bundles,     \* the versions of the bundle a directory may hold
          MaxEdits,    \* how often a file or directory is replaced
          NoImage

VARIABLES card,        \* the tree in p1 of the card, or Torn
          write,       \* the write of p1: of which version, cut or not, what was there before
          deployed,    \* what the v0.9 write left on the card
          clone,       \* the clone of p1 that a builder is given: tree and identity
          bundle,      \* the bundle directory: version and identity
          maker,       \* the candidate builder of each version
          candidate,   \* the published candidate of each version
          plan         \* the write plan of each version

candidateVars == <<card, write, deployed, clone, bundle, maker, candidate, plan>>

Versions == {"v0.9", "v0.10"}
V08Anchors == {"boot.ini", "v0.8 image", "v0.8 boot", "v0.8 dtb"}
V02Files == {"v0.2 image", "v0.2 boot"}

(* What each version removes from BOOT, and what it adds: v0.9 goes with the
   v0.8 device tree, v0.10 brings its own. *)
RemovedV09 == V02Files
AddedV09 == {"v0.9 image", "v0.9 boot"}
RemovedV10 == AddedV09
AddedV10 == {"v0.10 image", "v0.10 boot", "v0.10 dtb"}
RemovedFiles(v) == IF v = "v0.9" THEN RemovedV09 ELSE RemovedV10
AddedFiles(v) == IF v = "v0.9" THEN AddedV09 ELSE AddedV10

FactoryTree == [p \in V08Anchors \cup V02Files \cup {"settings"} |-> p]

(* p1 while it is written, or after the write was cut: some old and some new bytes,
   and no file that can be relied on. *)
Torn == [p \in V08Anchors \cup {"settings"} |-> "torn"]

NoWrite == [of |-> "none", cut |-> FALSE, saved |-> NoImage]

Fresh == [at |-> "pin", id |-> 0, base |-> NoImage, sums |-> NoImage, bundleId |-> 0,
          payload |-> NoImage, tree |-> NoImage]

CandidateInit ==
    /\ card = FactoryTree /\ write = NoWrite /\ deployed = NoImage
    /\ clone = [v \in Versions |-> [tree |-> FactoryTree, id |-> 0]]
    /\ bundle \in [Versions -> [content : Bundles, id : {0}]]
    /\ maker = [v \in Versions |-> Fresh]
    /\ candidate = [v \in Versions |-> NoImage]
    /\ plan = [v \in Versions |-> NoImage]

MakerAt(v, where) == maker[v].at = where
Making(v) == UNCHANGED <<card, write, deployed, clone, bundle, candidate, plan>>

(***************************************************************************)
(* The sources.                                                            *)
(***************************************************************************)
(* v0.10 starts from nothing but the deployed v0.9 image. *)
ExpectedBase(v, tree) == v = "v0.10" => tree = deployed

PinClone(v) ==
    /\ MakerAt(v, "pin") /\ ExpectedBase(v, clone[v].tree)
    /\ maker' = [maker EXCEPT ![v].at = "sums", ![v].base = clone[v].tree, ![v].id = clone[v].id]
    /\ Making(v)

ReadSums(v) ==
    /\ MakerAt(v, "sums")
    /\ maker' = [maker EXCEPT ![v].at = "payload", ![v].sums = bundle[v].content,
                              ![v].bundleId = bundle[v].id]
    /\ Making(v)

(* Every payload file has the digest in STAGE-SOURCES, and manifest, package
   and HEAD agree; the bytes are kept. *)
ReadPayload(v) ==
    /\ MakerAt(v, "payload") /\ bundle[v].content = maker[v].sums
    /\ maker' = [maker EXCEPT ![v].at = "recheck bundle", ![v].payload = bundle[v].content]
    /\ Making(v)

BundleHolds(v) == bundle[v] = [content |-> maker[v].sums, id |-> maker[v].bundleId]

RecheckBundle(v) ==
    /\ MakerAt(v, "recheck bundle") /\ BundleHolds(v)
    /\ maker' = [maker EXCEPT ![v].at = "copy"]
    /\ Making(v)

(***************************************************************************)
(* The candidate.                                                          *)
(***************************************************************************)
(* The private copy has the digest of the clone; what is to be removed and the
   v0.8 anchors are there byte for byte, what is to be added is not. *)
BaseFits(v, tree) ==
    /\ \A p \in RemovedFiles(v) : p \in DOMAIN tree
    /\ \A p \in V08Anchors : p \in DOMAIN tree /\ tree[p] = p
    /\ AddedFiles(v) \cap DOMAIN tree = {}

CopyClone(v) ==
    /\ MakerAt(v, "copy") /\ clone[v].tree = maker[v].base
    /\ BaseFits(v, maker[v].base)
    /\ maker' = [maker EXCEPT ![v].at = "mutate"]
    /\ Making(v)

(* The planned tree: the added files come from the bundle. *)
Planned(v, tree, payload) ==
    [p \in (DOMAIN tree \ RemovedFiles(v)) \cup AddedFiles(v) |->
        IF p \in AddedFiles(v) THEN payload ELSE tree[p]]

(* mtools may leave one path wrong without saying so. *)
ToolResults(right) ==
    {right} \cup {[right EXCEPT ![p] = "damaged"] : p \in DOMAIN right}
            \cup {[q \in DOMAIN right \ {p} |-> right[q]] : p \in DOMAIN right}

Mutate(v) ==
    /\ MakerAt(v, "mutate")
    /\ \E t \in ToolResults(Planned(v, maker[v].base, maker[v].payload)) :
          maker' = [maker EXCEPT ![v].at = "diff", ![v].tree = t]
    /\ Making(v)

\* mutant: only names are compared, and what was added
ExactNames(v, before, after, payload) ==
    /\ DOMAIN before \ DOMAIN after = RemovedFiles(v)
    /\ DOMAIN after \ DOMAIN before = AddedFiles(v)
    /\ \A p \in AddedFiles(v) : after[p] = payload

ExactDiff(v, before, after, payload) ==
    /\ DOMAIN before \ DOMAIN after = RemovedFiles(v)
    /\ DOMAIN after \ DOMAIN before = AddedFiles(v)
    /\ \A p \in DOMAIN before \cap DOMAIN after : before[p] = after[p]
    /\ \A p \in AddedFiles(v) : after[p] = payload
    /\ \A p \in V08Anchors : after[p] = p

Diff(v) ==
    /\ MakerAt(v, "diff")
    /\ ExactDiff(v, maker[v].base, maker[v].tree, maker[v].payload)
    /\ maker' = [maker EXCEPT ![v].at = "late"]
    /\ Making(v)

(* Bundle, repository and clone are validated once more just before. *)
LateCheck(v) ==
    /\ MakerAt(v, "late") /\ bundle[v].content = maker[v].payload
    /\ clone[v] = [tree |-> maker[v].base, id |-> maker[v].id]
    /\ maker' = [maker EXCEPT ![v].at = "publish"]
    /\ Making(v)

(* One rename that replaces nothing; image and status are not synced before. *)
Publish(v) ==
    /\ MakerAt(v, "publish") /\ candidate[v] = NoImage
    /\ candidate' = [candidate EXCEPT ![v] =
          [image |-> maker[v].tree, status |-> maker[v].tree, base |-> maker[v].base, dry |-> FALSE]]
    /\ maker' = [maker EXCEPT ![v].at = "done"]
    /\ UNCHANGED <<card, write, deployed, clone, bundle, plan>>

MakerFails(v) ==
    /\ maker[v].at \notin {"done", "failed"}
    /\ maker' = [maker EXCEPT ![v] = [Fresh EXCEPT !.at = "failed"]]
    /\ Making(v)

V09Sources == PinClone("v0.9") \/ CopyClone("v0.9")
V09Bundle == ReadSums("v0.9") \/ ReadPayload("v0.9")
V09BundleAgain == RecheckBundle("v0.9")
V09Mutate == Mutate("v0.9")
V09Diff == Diff("v0.9")
V09Late == LateCheck("v0.9")
V09Publish == Publish("v0.9")
V09Next == \/ V09Sources \/ V09Bundle \/ V09BundleAgain \/ V09Mutate \/ V09Diff
           \/ V09Late \/ V09Publish \/ MakerFails("v0.9")

(* The builder of v0.10 is started once v0.9 is on the card. *)
V10Next ==
    /\ deployed # NoImage
    /\ \/ PinClone("v0.10") \/ ReadSums("v0.10") \/ ReadPayload("v0.10") \/ RecheckBundle("v0.10")
       \/ CopyClone("v0.10") \/ Mutate("v0.10") \/ Diff("v0.10") \/ LateCheck("v0.10")
       \/ Publish("v0.10") \/ MakerFails("v0.10")

(***************************************************************************)
(* The write plan and the write.                                           *)
(***************************************************************************)
(* The image has the digest in BUILD-STATUS and SHA256SUMS; v0.10 also demands
   the base. *)
LoadV09 ==
    /\ candidate["v0.9"] # NoImage
    /\ candidate["v0.9"].image = candidate["v0.9"].status

LoadV10 ==
    /\ candidate["v0.10"] # NoImage
    /\ candidate["v0.10"].image = candidate["v0.10"].status
    /\ ExpectedBase("v0.10", candidate["v0.10"].base)

CreatePlan(v) ==
    /\ plan[v] = NoImage
    /\ plan' = [plan EXCEPT ![v] = [image |-> candidate[v].status, before |-> candidate[v].base]]
    /\ UNCHANGED <<card, write, deployed, clone, bundle, maker, candidate>>

V09Plan == LoadV09 /\ CreatePlan("v0.9")
V10Plan == LoadV10 /\ CreatePlan("v0.10")

(* While the agent writes it has the medium for itself. *)
Free == write = NoWrite \/ write.cut

(* The Card Agent stages a copy of the image that has the digest in the plan, checks
   that p1 is the base, and then writes it piece by piece. *)
BeginWrite(v) ==
    /\ Free /\ plan[v] # NoImage
    /\ candidate[v].image = plan[v].image /\ card = plan[v].before
    /\ card' = Torn /\ write' = [of |-> v, cut |-> FALSE, saved |-> card]
    /\ UNCHANGED <<deployed, clone, bundle, maker, candidate, plan>>

(* The last piece is written and read back. *)
FinishWrite(v) ==
    /\ write.of = v /\ ~write.cut
    /\ card' = plan[v].image /\ write' = NoWrite
    /\ deployed' = IF v = "v0.9" THEN plan[v].image ELSE deployed
    /\ UNCHANGED <<clone, bundle, maker, candidate, plan>>

(* An error, a kill or a power loss between two pieces. *)
CutWrite ==
    /\ write # NoWrite /\ ~write.cut /\ write' = [write EXCEPT !.cut = TRUE]
    /\ UNCHANGED <<card, deployed, clone, bundle, maker, candidate, plan>>

(***************************************************************************)
(* The world.                                                              *)
(***************************************************************************)
(* p1 is cloned again in a card session. *)
TakeClone(v) ==
    /\ Free /\ clone[v].id < MaxEdits
    /\ clone' = [clone EXCEPT ![v] = [tree |-> card, id |-> @.id + 1]]
    /\ UNCHANGED <<card, write, deployed, bundle, maker, candidate, plan>>

(* Something is saved on BOOT, by the device or by a host. *)
CardEdit ==
    /\ Free /\ card["settings"] = "settings"
    /\ card' = [card EXCEPT !["settings"] = "edited"]
    /\ UNCHANGED <<write, deployed, clone, bundle, maker, candidate, plan>>

BundleReplaced(v) ==
    /\ bundle[v].id < MaxEdits
    /\ \E c \in Bundles : bundle' = [bundle EXCEPT ![v] = [content |-> c, id |-> @.id + 1]]
    /\ UNCHANGED <<card, write, deployed, clone, maker, candidate, plan>>

(* What was written long enough ago is on the disk; a power loss before leaves
   a torn image under the published name. *)
WriteBack(v) ==
    /\ candidate[v] # NoImage /\ ~candidate[v].dry
    /\ \E torn \in BOOLEAN :
          candidate' = [candidate EXCEPT ![v].dry = TRUE,
              ![v].image = IF torn THEN [@ EXCEPT !["boot.ini"] = "torn"] ELSE @]
    /\ UNCHANGED <<card, write, deployed, clone, bundle, maker, plan>>

CandidateNext ==
    \/ V09Next \/ V10Next \/ V09Plan \/ V10Plan
    \/ \E v \in Versions : BeginWrite(v) \/ FinishWrite(v) \/ TakeClone(v) \/ BundleReplaced(v)
                            \/ WriteBack(v)
    \/ CutWrite \/ CardEdit

CandidateSpec == CandidateInit /\ [][CandidateNext]_candidateVars

-----------------------------------------------------------------------------
(* The v0.8 fallback is on the card whole, before, between and after the two writes,
   whatever a tool did to a candidate or a power loss to a published image.  While p1
   is written, and after the write was cut, it is not: p1 has no second copy on the
   card.  What was there before and what the write was to leave both have it then, so
   that p1 can be made whole from either. *)
Fallback(tree) == \A p \in V08Anchors : p \in DOMAIN tree /\ tree[p] = p

FallbackStays ==
    IF write = NoWrite THEN Fallback(card)
    ELSE card = Torn /\ Fallback(write.saved) /\ Fallback(plan[write.of].image)

(* Of every step: a write of p1 that is finished takes nothing from the card that its
   candidate was not meant to take, also what was saved there after the clone was
   made. *)
Keeps(before, after) ==
    \A p \in DOMAIN before \ (RemovedV09 \cup RemovedV10) :
        p \in DOMAIN after /\ after[p] = before[p]

NothingLost == write # NoWrite /\ write' = NoWrite => Keeps(write.saved, card')

(* What a candidate that passed the exact difference keeps, from the builder
   through the published status and the plan to the card: the fallback, and
   everything of its base but what the two versions remove. *)
MakerIsTrue(m) ==
    /\ DOMAIN m = {"at", "id", "base", "sums", "bundleId", "payload", "tree"}
    /\ m.at \in {"mutate", "diff", "late", "publish"} => Fallback(m.base)
    /\ m.at \in {"late", "publish"} => Fallback(m.tree) /\ Keeps(m.base, m.tree)

CandidateIsTrue(c) ==
    c # NoImage =>
        /\ DOMAIN c = {"image", "status", "base", "dry"}
        /\ Fallback(c.base) /\ Fallback(c.status) /\ Keeps(c.base, c.status)

PlanIsTrue(p) == p # NoImage => Fallback(p.before) /\ Fallback(p.image) /\ Keeps(p.before, p.image)

WriteIsTrue ==
    /\ write.of \in Versions \cup {"none"} /\ (write.of = "none" => write = NoWrite)
    /\ write # NoWrite => plan[write.of] # NoImage /\ write.saved = plan[write.of].before

CandidateInv ==
    /\ {DOMAIN maker, DOMAIN candidate, DOMAIN plan} = {Versions}
    /\ WriteIsTrue /\ FallbackStays
    /\ \A v \in Versions : MakerIsTrue(maker[v]) /\ CandidateIsTrue(candidate[v]) /\ PlanIsTrue(plan[v])
=============================================================================
