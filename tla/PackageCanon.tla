---------------------------- MODULE PackageCanon ----------------------------
(***************************************************************************)
(* How the bundle generator decides that a kernel package is canonical     *)
(* (scripts/generate-easyroms-bundle.py): the raw tar blocks are scanned   *)
(* header by header, with a GNU long name held back for the header that    *)
(* follows it, and the member names must come in the order of a walk of    *)
(* the tree, that a stack of pending children produces.                    *)
(***************************************************************************)
EXTENDS Naturals, Sequences, FiniteSets, SequencesExt

CONSTANTS MaxBlocks,    \* the length of the archives that are tried
          MaxHeaders,   \* the header budget
          MaxMembers,   \* the member budget
          TreeNames,    \* the names in a package tree, numbers in their order
          MaxDepth      \* the depth of the trees that are tried

(* A block is an end marker, a member header with its data, one whose name
   field is the start of the long name before it, a long name record, or a
   header with anything else in it. *)
Blocks == {"zero", "member", "named", "long", "bad"}

Paths == UNION {[1 .. d -> TreeNames] : d \in 1 .. MaxDepth}
Parents(path) == {SubSeq(path, 1, d) : d \in 0 .. Len(path) - 1}

VARIABLES task, tar, pos, longName, headers, members, verdict,
          files, stack, order

scanVars == <<tar, pos, longName, headers, members, verdict>>
walkVars == <<files, stack, order>>
canonVars == <<task, scanVars, walkVars>>

(* The directories are the ancestors of the files, the root among them. *)
Directories == UNION {Parents(f) : f \in files}
ChildrenOf(d) == {p \in files \cup Directories : Len(p) = Len(d) + 1 /\ SubSeq(p, 1, Len(d)) = d}

CanonInit ==
    /\ pos = 1 /\ longName = FALSE /\ headers = 0 /\ members = 0 /\ verdict = "none"
    /\ stack = <<>> /\ order = <<>>
    /\ \/ /\ task = "scan" /\ files = {}
          /\ tar \in UNION {[1 .. n -> Blocks] : n \in 1 .. MaxBlocks}
       \/ /\ task = "walk" /\ tar = <<>>
          /\ files \in {F \in SUBSET Paths : F # {} /\ \A f \in F : Parents(f) \cap F = {}}

Decide(v) == verdict' = v /\ UNCHANGED <<tar, pos, longName, headers, members>>

(***************************************************************************)
(* The scan.                                                               *)
(***************************************************************************)
(* Two zero blocks end the archive, and only zeros follow. *)
EndMarker ==
    /\ pos <= Len(tar) /\ tar[pos] = "zero"
    /\ Decide(IF /\ ~longName /\ members > 0
                 /\ pos < Len(tar) /\ \A i \in pos .. Len(tar) : tar[i] = "zero"
                THEN "canonical" ELSE "rejected")

LongName ==
    /\ pos <= Len(tar) /\ tar[pos] = "long"
    /\ IF longName \/ headers >= MaxHeaders
         THEN Decide("rejected")
         ELSE /\ longName' = TRUE /\ headers' = headers + 1 /\ pos' = pos + 1
              /\ UNCHANGED <<tar, members, verdict>>

(* The header after a long name must start with it. *)
Member ==
    /\ pos <= Len(tar) /\ tar[pos] \in {"member", "named"}
    /\ IF \/ longName # (tar[pos] = "named")
          \/ headers >= MaxHeaders \/ members >= MaxMembers
         THEN Decide("rejected")
         ELSE /\ longName' = FALSE /\ headers' = headers + 1 /\ members' = members + 1
              /\ pos' = pos + 1 /\ UNCHANGED <<tar, verdict>>

BadOrMissing ==
    /\ IF pos <= Len(tar) THEN tar[pos] = "bad" ELSE TRUE
    /\ Decide("rejected")

Scan ==
    /\ task = "scan" /\ verdict = "none"
    /\ EndMarker \/ LongName \/ Member \/ BadOrMissing
    /\ UNCHANGED <<task, walkVars>>

(***************************************************************************)
(* The walk: a directory's children are pushed in reverse, so that the     *)
(* smallest name is popped first.                                          *)
(***************************************************************************)
ByName(paths) ==
    CHOOSE s \in [1 .. Cardinality(paths) -> paths] :
        \A i, j \in DOMAIN s : i < j => Last(s[i]) < Last(s[j])
Pushed(d) == Reverse(ByName(ChildrenOf(d)))

StartWalk ==
    /\ task = "walk" /\ order = <<>>
    /\ order' = << <<>> >>
    /\ stack' = Pushed(<<>>)
    /\ UNCHANGED <<task, scanVars, files>>

PopChild ==
    /\ task = "walk" /\ stack # <<>>
    /\ LET child == Last(stack) IN
       /\ order' = Append(order, child)
       /\ stack' = Front(stack) \o (IF child \in Directories THEN Pushed(child) ELSE <<>>)
    /\ UNCHANGED <<task, scanVars, files>>

CanonNext == Scan \/ StartWalk \/ PopChild

CanonSpec == CanonInit /\ [][CanonNext]_canonVars

-----------------------------------------------------------------------------
(* What a canonical archive is: members, each with at most one long name right
   before it, then nothing but zero blocks, two or more; within the budgets. *)
Canonical(t) ==
    \E z \in 2 .. Len(t) - 1 :
        /\ \A i \in z .. Len(t) : t[i] = "zero"
        /\ \A i \in 1 .. z - 1 : t[i] \in {"member", "named", "long"}
        /\ \A i \in 1 .. z - 1 : t[i] = "named" <=> (i > 1 /\ t[i - 1] = "long")
        /\ t[z - 1] # "long"
        /\ z - 1 <= MaxHeaders
        /\ Cardinality({i \in 1 .. z - 1 : t[i] # "long"}) <= MaxMembers

(* The scan accepts exactly the canonical archives. *)
ScanIsExact == verdict # "none" => (verdict = "canonical" <=> Canonical(tar))

(* p comes before q: a directory before what is in it, siblings by name. *)
LeftOf(p, q) ==
    \E i \in 1 .. Len(p) : /\ i <= Len(q) /\ SubSeq(p, 1, i - 1) = SubSeq(q, 1, i - 1)
                           /\ p[i] < q[i]
Before(p, q) == p \in Parents(q) \/ LeftOf(p, q)

(* The order that the stack produces is the order of the tree walk, with every
   file and directory in it once. *)
WalkIsTreeOrder ==
    /\ \A i, j \in DOMAIN order : i < j => Before(order[i], order[j])
    /\ order # <<>> /\ stack = <<>> => ToSet(order) = files \cup Directories

(* What the scan has passed is a beginning of a canonical archive, with a long name
   held back exactly when one was read last.                                    *)
Counted(n) == {i \in 1 .. n : tar[i] # "long"}

ScanInv ==
    /\ tar \in Seq(Blocks) /\ pos \in 1 .. Len(tar) + 1
    /\ headers = pos - 1 /\ headers <= MaxHeaders
    /\ members = Cardinality(Counted(pos - 1)) /\ members <= MaxMembers
    /\ \A i \in 1 .. pos - 1 : tar[i] \in {"member", "named", "long"}
    /\ \A i \in 1 .. pos - 1 : tar[i] = "named" <=> (i > 1 /\ tar[i - 1] = "long")
    /\ longName \in BOOLEAN /\ (longName <=> (pos > 1 /\ tar[pos - 1] = "long"))

(* The zeros of a canonical archive may begin at z. *)
Ends(z) ==
    /\ z \in 2 .. Len(tar) - 1
    /\ \A i \in z .. Len(tar) : tar[i] = "zero"
    /\ \A i \in 1 .. z - 1 : tar[i] \in {"member", "named", "long"}
    /\ \A i \in 1 .. z - 1 : tar[i] = "named" <=> (i > 1 /\ tar[i - 1] = "long")
    /\ tar[z - 1] # "long"
    /\ z - 1 <= MaxHeaders
    /\ Cardinality(Counted(z - 1)) <= MaxMembers

(* The same relations of paths, name by name; siblings differ in their last name. *)
Begins(p, q) == Len(p) < Len(q) /\ \A k \in 1 .. Len(p) : p[k] = q[k]
Splits(p, q) == \E i \in 1 .. Len(p) : /\ i <= Len(q) /\ \A k \in 1 .. i - 1 : p[k] = q[k]
                                       /\ p[i] < q[i]
Siblings(S) ==
    /\ S \subseteq Seq(TreeNames) \ {<<>>}
    /\ \A p, q \in S : Last(p) = Last(q) => p = q

(* Of the tree, what is not in the order yet is on the stack or below it; the stack
   has the left of it on top, and the order comes before all of it.             *)
Tree == files \cup Directories

WalkInv ==
    /\ \A f \in files : f \in Seq(TreeNames) /\ Len(f) > 0
    /\ files # {} /\ order \in Seq(Tree) /\ stack \in Seq(Tree)
    /\ order = <<>> => stack = <<>>
    /\ \A i, j \in DOMAIN order : i < j => Before(order[i], order[j])
    /\ \A i \in DOMAIN order, j \in DOMAIN stack : Before(order[i], stack[j])
    /\ \A i, j \in DOMAIN stack : i < j => LeftOf(stack[j], stack[i])
    /\ order # <<>> => \A q \in Tree : \/ q \in ToSet(order) \/ q \in ToSet(stack)
                                       \/ \E j \in DOMAIN stack : stack[j] \in Parents(q)

CanonInv ==
    \/ task = "scan" /\ order = <<>> /\ ScanInv /\ ScanIsExact
    \/ task = "walk" /\ verdict = "none" /\ WalkInv
=============================================================================
