----------------------------- MODULE CpuControl -----------------------------
(***************************************************************************)
(* The privileged helper that sets the CPU policy for a scene              *)
(* (gaming-shell/cpu-control.py): it checks health, writes the three nodes *)
(* in an order the kernel accepts, reads each back, and on a failure       *)
(* writes the profile it found.  Frequencies are small numbers, ordered.   *)
(* The kernel refuses a minimum above the maximum.                         *)
(***************************************************************************)
EXTENDS Naturals, Sequences

CONSTANTS Freqs,     \* the available frequencies
          Governors, \* the available governors
          Caps,      \* the caps of the scenes
          MaxFaults, \* writes or readbacks that fail (a bound of the model)
          MaxRequests

VARIABLES node,         \* the governor, minimum and maximum of the policy
          lease,        \* what the device lease recorded when the session began
          previous,     \* what apply found
          target, scene,\* the profile to write, whether a scene asked for it
          plan,         \* the writes still to do
          at, reply, faults, requests

cpuVars == <<node, lease, previous, target, scene, plan, at, reply, faults, requests>>

Profiles == [gov : Governors, min : Freqs, max : Freqs]
Legal == {p \in Profiles : p.min <= p.max}
Least(a, b) == IF a < b THEN a ELSE b

CpuInit ==
    /\ lease \in Legal /\ node \in {p \in Legal : p = lease}
    /\ previous = lease /\ target = lease /\ scene = FALSE /\ plan = <<>>
    /\ at = "idle" /\ reply = "none" /\ faults = 0 /\ requests = 0

MaxFirst(p) == <<<<"max", p.max>>, <<"min", p.min>>, <<"gov", p.gov>>>>
MinFirst(p) == <<<<"min", p.min>>, <<"max", p.max>>, <<"gov", p.gov>>>>

(* The writes of a profile: which bound goes first depends on the minimum in
   force, the governor is last. *)
Order(p) == IF p.max < node.min THEN MinFirst(p) ELSE MaxFirst(p)

(* A request for profile p.  It is refused when supply or temperature are not
   safe, and when the profile is not one this CPU has.  A scene needs the
   default governor, before the session and now. *)
SceneProfile(cap) == [gov |-> "schedutil", min |-> lease.min, max |-> Least(lease.max, cap)]

Supported(p, byScene) ==
    /\ p.min <= p.max
    /\ byScene => lease.gov = "schedutil" /\ node.gov = "schedutil"

Request(p, byScene) ==
    /\ at = "idle" /\ requests < MaxRequests /\ requests' = requests + 1
    /\ \/ reply' = "refused" /\ UNCHANGED <<previous, target, scene, plan, at>>
       \/ /\ Supported(p, byScene)
          /\ previous' = node /\ target' = p /\ scene' = byScene
          /\ plan' = Order(p) /\ at' = "write" /\ reply' = "none"
    /\ UNCHANGED <<node, lease, faults>>

RequestScene == \E cap \in Caps : Request(SceneProfile(cap), TRUE)
RequestManual == \E p \in Profiles : Request(p, FALSE)

(* One node is written and read back. *)
Write ==
    /\ at \in {"write", "rollback"} /\ plan # <<>>
    /\ LET p == [node EXCEPT ![Head(plan)[1]] = Head(plan)[2]] IN
       /\ p.min <= p.max /\ node' = p
    /\ plan' = Tail(plan)
    /\ UNCHANGED <<lease, previous, target, scene, at, reply, faults, requests>>

(* A write is refused, cut short or not read back in time: it may have taken
   effect all the same.  A second failure gives up. *)
Rejected == LET p == [node EXCEPT ![Head(plan)[1]] = Head(plan)[2]] IN p.min > p.max

WriteFails ==
    /\ at \in {"write", "rollback"} /\ plan # <<>>
    /\ \/ Rejected /\ UNCHANGED <<node, faults>>
       \/ /\ faults < MaxFaults /\ faults' = faults + 1
          /\ ~Rejected /\ node' \in {node, [node EXCEPT ![Head(plan)[1]] = Head(plan)[2]]}
    /\ at' = IF at = "write" THEN "restore" ELSE "idle"
    /\ reply' = IF at = "write" THEN "none" ELSE "rollback_failed"
    /\ plan' = <<>>
    /\ UNCHANGED <<lease, previous, target, scene, requests>>

(* The order of the rollback is chosen from the minimum that is in force now. *)
Restore ==
    /\ at = "restore" /\ at' = "rollback" /\ plan' = Order(previous)
    /\ UNCHANGED <<node, lease, previous, target, scene, reply, faults, requests>>

Done ==
    /\ at \in {"write", "rollback"} /\ plan = <<>> /\ at' = "idle"
    /\ reply' = IF at = "write" THEN "ok" ELSE "write_failed"
    /\ UNCHANGED <<node, lease, previous, target, scene, plan, faults, requests>>

CpuNext == RequestScene \/ RequestManual \/ Write \/ WriteFails \/ Restore \/ Done

CpuSpec == CpuInit /\ [][CpuNext]_cpuVars

(* An answer tells what is in force: the profile asked for, capped for a scene,
   or after a failed write the one that was there before, node by node (apply). *)
AnswerTellsPolicy ==
    /\ reply = "ok" => node = target /\ (scene => node.max <= lease.max /\ node.min = lease.min)
    /\ reply = "write_failed" => node = previous

(* Without a fault no write is refused: neither the order of a change nor that
   of the rollback ever asks for a minimum above the maximum (write_profile). *)
OrderIsAccepted == at \in {"write", "rollback"} /\ plan # <<>> => ~Rejected
-----------------------------------------------------------------------------
(* What keeps the two of them from step to step.                           *)

Ordered == {p \in [gov : Governors, min : Nat, max : Nat] : p.min <= p.max}

CpuTypes ==
    /\ lease \in Ordered /\ previous \in Ordered /\ target \in Ordered /\ node \in Ordered
    /\ scene \in BOOLEAN /\ at \in {"idle", "write", "restore", "rollback"}
    /\ at # "idle" => reply = "none"
    /\ scene => target.min = lease.min /\ target.max <= lease.max

(* The writes that are left bring the policy to profile p, the bound that has to
   wait last, and what was written already is in force. *)
Leads(p) ==
    \/ plan = MinFirst(p) /\ p.max < node.min
    \/ plan = MaxFirst(p) /\ node.min <= p.max
    \/ plan = <<<<"max", p.max>>, <<"gov", p.gov>>>> /\ node.min = p.min
    \/ plan = <<<<"min", p.min>>, <<"gov", p.gov>>>> /\ node.max = p.max
    \/ plan = <<<<"gov", p.gov>>>> /\ node.min = p.min /\ node.max = p.max
    \/ plan = <<>> /\ node = p

CpuInv ==
    /\ CpuTypes
    /\ at = "write" => Leads(target)
    /\ at = "rollback" => Leads(previous)
    /\ AnswerTellsPolicy
=============================================================================
