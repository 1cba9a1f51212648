---------------------------- MODULE FirstRelease ----------------------------
(***************************************************************************)
(* The builder and the validator of the first-version release set          *)
(* (scripts/build-r46h-first-version-release.py): it pins its inputs,      *)
(* clones the audited p1, normalises it with mtools in a container (remove *)
(* Spotlight, activate v0.17), proves the difference exact, clones the     *)
(* other parts of the card, and publishes one generation.                  *)
(*                                                                         *)
(* A FAT tree is a function from paths to contents.  Input files may be    *)
(* replaced at any time, the tools may do something else than asked, two   *)
(* builders may run, power may fail.                                       *)
(***************************************************************************)
EXTENDS Naturals, FiniteSets, Sequences

CONSTANTS Builders,   \* builder processes
          MaxEdits,   \* how many input files are changed, and each how often
          NoRelease

VARIABLES inputs,      \* the input files: content and identity
          headMoved,   \* whether the sources left the commit they were at
          builder,     \* the builders
          generation,  \* the published generation
          validator,   \* the validator
          passed       \* what PASS was ever printed of: nothing, cached or written images

releaseVars == <<inputs, headMoved, builder, generation, validator, passed>>

(***************************************************************************)
(* Trees.                                                                  *)
(***************************************************************************)
Spotlight == {"Spotlight store", "Spotlight index"}
Anchors == {"v0.8 boot", "v0.15 boot"}           \* each fallback, file by file
V17Files == {"v0.17 boot", "v0.17 dtb"}

(* The audited p1: the active boot.ini is the one of v0.15. *)
BaseTree == [p \in Spotlight \cup Anchors \cup {"boot.ini", "other"} |->
                CASE p = "boot.ini" -> "v0.15 boot" [] OTHER -> p]

(* A p1 of the same shape with one other file. *)
StrangeTree == [BaseTree EXCEPT !["other"] = "something else"]

(* The script: remove Spotlight, replace boot.ini, add the v0.17 boot and dtb. *)
Mutated(tree) ==
    [p \in (DOMAIN tree \ Spotlight) \cup V17Files \cup {"boot.ini"} |->
        CASE p = "boot.ini" -> "v0.17 boot" [] p \in V17Files -> p [] OTHER -> tree[p]]

(* What mtools may leave although it reports success: one path is wrong. *)
MtoolsResults(tree) ==
    LET right == Mutated(tree) IN
    {right} \cup {[right EXCEPT ![p] = "damaged"] : p \in DOMAIN right}
            \cup {[q \in DOMAIN right \ {p} |-> right[q]] : p \in DOMAIN right}
            \cup {[q \in DOMAIN right \cup {p} |-> IF q = p THEN p ELSE right[q]] : p \in Spotlight}

(* The difference is exactly the planned one. *)
ExactP1Diff(before, after) ==
    LET kept == DOMAIN before \cap DOMAIN after IN
    /\ Spotlight \cap DOMAIN before # {}
    /\ \A p \in Anchors : p \in kept /\ before[p] = p /\ after[p] = p
    /\ before["boot.ini"] = "v0.15 boot"
    /\ DOMAIN before \ DOMAIN after = Spotlight
    /\ DOMAIN after \ DOMAIN before = V17Files
    /\ {p \in kept : before[p] # after[p]} = {"boot.ini"}
    /\ after["boot.ini"] = "v0.17 boot"
    /\ \A p \in V17Files : after[p] = p

(***************************************************************************)
(* The build.                                                              *)
(***************************************************************************)
InputOrder == <<"p1", "prefix", "p2", "p3", "receipts">>
HashedOnEntry == {"p1", "prefix", "receipts"}
Components == {"prefix", "p2", "p3"}
Pinned == "pinned"

Waiting == [at |-> "capture", taken |-> 0, ids |-> <<>>, before |-> <<>>, p1 |-> <<>>,
            parts |-> <<>>, receipts |-> NoRelease]

ReleaseInit ==
    /\ inputs = [i \in {InputOrder[n] : n \in 1..5} |-> [content |-> Pinned, id |-> 0]]
    /\ headMoved = FALSE
    /\ builder = [b \in Builders |-> Waiting]
    /\ generation = NoRelease /\ validator = "idle" /\ passed = "nothing"

BuilderAt(b, where) == builder[b].at = where
Builds(b) == UNCHANGED <<inputs, headMoved, generation, validator, passed>>

(* The sources are committed and clean, and are read from the commit. *)
CaptureSource(b) ==
    /\ BuilderAt(b, "capture") /\ ~headMoved
    /\ builder' = [builder EXCEPT ![b].at = "identify"]
    /\ Builds(b)

(* The identity of each input is taken before its digest; p2 and p3 are too
   large and get no digest here. *)
IdentifyInput(b) ==
    /\ BuilderAt(b, "identify")
    /\ LET i == InputOrder[builder[b].taken + 1] IN
       builder' = [builder EXCEPT ![b].ids = Append(@, inputs[i].id),
                                  ![b].taken = @ + 1, ![b].at = "hash"]
    /\ Builds(b)

HashInput(b) ==
    /\ BuilderAt(b, "hash")
    /\ LET i == InputOrder[builder[b].taken] IN
       i \in HashedOnEntry => inputs[i].content = Pinned
    /\ builder' = [builder EXCEPT ![b].at =
                      IF builder[b].taken = Len(InputOrder) THEN "receipts" ELSE "identify"]
    /\ Builds(b)

(* The receipts of the parts say what their builders promised. *)
UpstreamReceipts(content) == content = Pinned

CheckReceipts(b) ==
    /\ BuilderAt(b, "receipts") /\ UpstreamReceipts(inputs["receipts"].content)
    /\ builder' = [builder EXCEPT ![b].at = "clone"]
    /\ Builds(b)

TreeOf(content) == IF content = Pinned THEN BaseTree ELSE StrangeTree

CloneBase(b) ==
    /\ BuilderAt(b, "clone")
    /\ builder' = [builder EXCEPT ![b].at = "mutate", ![b].before = TreeOf(inputs["p1"].content)]
    /\ Builds(b)

MutateP1(b) ==
    /\ BuilderAt(b, "mutate")
    /\ \E t \in MtoolsResults(builder[b].before) :
          builder' = [builder EXCEPT ![b].at = "diff", ![b].p1 = t]
    /\ Builds(b)

DiffP1(b) ==
    /\ BuilderAt(b, "diff") /\ ExactP1Diff(builder[b].before, builder[b].p1)
    /\ builder' = [builder EXCEPT ![b].at = "parts"]
    /\ Builds(b)

CloneParts(b) ==
    /\ BuilderAt(b, "parts")
    /\ builder' = [builder EXCEPT ![b].at = "hash parts",
                                  ![b].parts = [i \in Components |-> inputs[i].content]]
    /\ Builds(b)

(* The digest is of the clone, also for p2 and p3. *)
HashParts(b) ==
    /\ BuilderAt(b, "hash parts") /\ \A i \in Components : builder[b].parts[i] = Pinned
    /\ builder' = [builder EXCEPT ![b].at = "copy receipts"]
    /\ Builds(b)

(* The receipts are read again from their files; then checksums and marker. *)
CopyReceipts(b) ==
    /\ BuilderAt(b, "copy receipts")
    /\ builder' = [builder EXCEPT ![b].at = "recheck", ![b].receipts = inputs["receipts"].content]
    /\ Builds(b)

\* mutant: the content is compared again instead of the identity
InputsLookAlike(b) == \A i \in DOMAIN inputs : inputs[i].content = Pinned

(* Every input file still has the identity it had at first. *)
InputsUnchanged(b) == \A n \in 1..Len(InputOrder) : inputs[InputOrder[n]].id = builder[b].ids[n]

RecheckInputs(b) ==
    /\ BuilderAt(b, "recheck") /\ InputsUnchanged(b) /\ ~headMoved
    /\ builder' = [builder EXCEPT ![b].at = "publish"]
    /\ Builds(b)

(* The stage is moved to its name in one step, replacing nothing. *)
PublishRelease(b) ==
    /\ BuilderAt(b, "publish") /\ generation = NoRelease
    /\ generation' = [p1 |-> builder[b].p1, parts |-> builder[b].parts,
                      receipts |-> builder[b].receipts, torn |-> {}, settled |-> FALSE]
    /\ builder' = [builder EXCEPT ![b].at = "done"]
    /\ UNCHANGED <<inputs, headMoved, validator, passed>>

(* A check or a tool fails, or the process dies: the private work is dropped. *)
BuildFails(b) ==
    /\ builder[b].at \notin {"done", "failed"}
    /\ builder' = [builder EXCEPT ![b] = [Waiting EXCEPT !.at = "failed"]]
    /\ Builds(b)

(***************************************************************************)
(* Validation of a published generation, and the world.                    *)
(***************************************************************************)
(* Every file has the digest in SHA256SUMS, that of BUILD-COMPLETE included. *)
SumsMatch(g) == g.torn = {}

CheckSums ==
    /\ validator \in {"idle", "passed"} /\ generation # NoRelease /\ SumsMatch(generation)
    /\ validator' = "contract"
    /\ UNCHANGED <<inputs, headMoved, builder, generation, passed>>

(* Manifest, receipts and geometry are the pinned ones. *)
CheckContract ==
    /\ validator = "contract"
    /\ \A i \in Components : generation.parts[i] = Pinned
    /\ UpstreamReceipts(generation.receipts)
    /\ validator' = "live tree"
    /\ UNCHANGED <<inputs, headMoved, builder, generation, passed>>

(* The tree in a fresh clone of p1 is the one in the receipt. *)
CheckLiveTree ==
    /\ validator = "live tree" /\ "p1" \notin generation.torn
    /\ validator' = "receipt"
    /\ UNCHANGED <<inputs, headMoved, builder, generation, passed>>

(* BUILD-RECEIPT names the sources, the image of p1 and the expected difference. *)
CheckBuildReceipt ==
    /\ validator = "receipt" /\ ExactP1Diff(BaseTree, generation.p1)
    /\ validator' = "passed"
    /\ passed' = IF generation.settled THEN "written" ELSE "cached"
    /\ UNCHANGED <<inputs, headMoved, builder, generation>>

ValidationFails ==
    /\ validator \in {"contract", "live tree", "receipt"}
    /\ validator' = "idle"
    /\ UNCHANGED <<inputs, headMoved, builder, generation, passed>>

(* Neither the images nor the directory they are moved into are synced: until the
   system wrote them back, a power loss may tear any of them under the published
   name, or take the name.  A PASS that was printed stays printed. *)
Settle ==
    /\ generation # NoRelease /\ ~generation.settled
    /\ generation' = [generation EXCEPT !.settled = TRUE]
    /\ passed' = IF passed = "cached" THEN "written" ELSE passed
    /\ UNCHANGED <<inputs, headMoved, builder, validator>>

ReleasePowerLoss ==
    /\ builder' = [b \in Builders |-> [Waiting EXCEPT !.at = "failed"]]
    /\ validator' = "idle"
    /\ IF generation # NoRelease /\ ~generation.settled
       THEN \/ generation' = NoRelease
            \/ \E t \in SUBSET (Components \cup {"p1"}) :
                  generation' = [generation EXCEPT !.torn = t, !.settled = TRUE]
       ELSE UNCHANGED generation
    /\ UNCHANGED <<inputs, headMoved, passed>>

(* An input file gets other bytes, or its old bytes back, under a new identity. *)
EditInput ==
    /\ \E i \in DOMAIN inputs :
          /\ inputs[i].id < MaxEdits
          /\ Cardinality({j \in DOMAIN inputs : inputs[j].id > 0} \cup {i}) <= MaxEdits
          /\ inputs' = [inputs EXCEPT ![i] =
                [content |-> IF @.content = Pinned THEN "other" ELSE Pinned, id |-> @.id + 1]]
    /\ UNCHANGED <<headMoved, builder, generation, validator, passed>>

MoveHead ==
    /\ ~headMoved /\ headMoved' = TRUE
    /\ UNCHANGED <<inputs, builder, generation, validator, passed>>

ReleaseNext ==
    \/ \E b \in Builders :
          \/ CaptureSource(b) \/ IdentifyInput(b) \/ HashInput(b) \/ CheckReceipts(b)
          \/ CloneBase(b) \/ MutateP1(b) \/ DiffP1(b) \/ CloneParts(b) \/ HashParts(b)
          \/ CopyReceipts(b) \/ RecheckInputs(b) \/ PublishRelease(b) \/ BuildFails(b)
    \/ CheckSums \/ CheckContract \/ CheckLiveTree \/ CheckBuildReceipt
    \/ ValidationFails
    \/ Settle \/ ReleasePowerLoss \/ EditInput \/ MoveHead

ReleaseSpec == ReleaseInit /\ [][ReleaseNext]_releaseVars

-----------------------------------------------------------------------------
(* A release is published with the pinned parts, and its p1 is the audited one
   with exactly the planned changes, although the inputs may change and change
   back while it is built and mtools may err: no digest of p1 is known before.
   (What a power loss then tears is in torn; see PassIsWhole.) *)
ReleaseIsPinned ==
    generation # NoRelease =>
        /\ generation.p1 = Mutated(BaseTree)
        /\ \A i \in Components : generation.parts[i] = Pinned
        /\ generation.receipts = Pinned

(* What passed validation is whole as long as the power stays on, and for good when
   the images had reached the disk before or after the PASS; what a power loss tore
   earlier does not pass.  Nothing makes sure that they reached it: a PASS of cached
   images says nothing about what a later power loss leaves. *)
PassIsWhole ==
    validator = "passed" \/ passed = "written" => generation # NoRelease /\ generation.torn = {}

(* The identity of an input is taken before its digest and its bytes: as long as the
   file still has that identity, what was read of it since is pinned.  So what
   passes the last comparison of identities is made of pinned bytes. *)
InputNames == {"p1", "prefix", "p2", "p3", "receipts"}
Fields == {"at", "taken", "ids", "before", "p1", "parts", "receipts"}
AfterClone == {"mutate", "diff", "parts", "hash parts", "copy receipts", "recheck"}
AfterDiff == {"parts", "hash parts", "copy receipts", "recheck"}
AfterParts == {"copy receipts", "recheck"}

SameAsTaken(m, n) == m.ids[n] = inputs[InputOrder[n]].id

TakesInOrder(m) ==
    /\ DOMAIN m = Fields /\ m.taken \in 0..5 /\ m.ids \in Seq(Nat) /\ Len(m.ids) = m.taken
    /\ m.at = "hash" => m.taken # 0
    /\ m.at = "identify" => m.taken # 5
    /\ m.at \in AfterClone \cup {"receipts", "clone"} => m.taken = 5
    /\ m.at = "capture" => m.taken = 0

ReadsWhatItTook(m) ==
    /\ \A n \in 1..m.taken :
          /\ m.ids[n] <= inputs[InputOrder[n]].id
          /\ InputOrder[n] \in HashedOnEntry /\ (n # m.taken \/ m.at # "hash") /\ SameAsTaken(m, n)
                => inputs[InputOrder[n]].content = Pinned
    /\ m.at \in AfterClone /\ SameAsTaken(m, 1) => m.before = BaseTree
    /\ m.at = "recheck" /\ SameAsTaken(m, 5) => m.receipts = Pinned

MakesThePlan(m) ==
    /\ m.at = "diff" => m.p1 \in MtoolsResults(m.before)
    /\ m.at \in AfterDiff /\ m.before = BaseTree => m.p1 = Mutated(BaseTree)
    /\ m.at = "hash parts" => m.parts \in [Components -> {Pinned, "other"}]
    /\ m.at \in AfterParts \cup {"publish"} => m.parts \in [Components -> {Pinned}]
    /\ m.at = "publish" => m.p1 = Mutated(BaseTree) /\ m.receipts = Pinned

(* What may be published. *)
Releases == [p1 : {Mutated(BaseTree)}, parts : [Components -> {Pinned}], receipts : {Pinned},
             torn : SUBSET (Components \cup {"p1"}), settled : BOOLEAN]

ReleaseInv ==
    /\ inputs \in [InputNames -> [content : {Pinned, "other"}, id : Nat]]
    /\ {DOMAIN builder} = {Builders}
    /\ \A b \in Builders :
          TakesInOrder(builder[b]) /\ ReadsWhatItTook(builder[b]) /\ MakesThePlan(builder[b])
    /\ generation \in Releases \cup {NoRelease}
    /\ validator \in {"contract", "live tree", "receipt", "passed"} =>
          generation # NoRelease /\ generation.torn = {}
    /\ passed = "cached" /\ generation # NoRelease /\ ~generation.settled =>
          generation.torn = {}
    /\ PassIsWhole /\ (passed = "written" => generation.settled)
=============================================================================
