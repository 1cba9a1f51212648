---------------------------- MODULE MCCardAgent ----------------------------
(* A plan for TLC: two operations that rewrite one partition in a row. *)
EXTENDS CardAgent, TLC

MCChained == ("boot-a" :> [partition |-> "boot", before |-> "old", source |-> "new"])
          @@ ("boot-b" :> [partition |-> "boot", before |-> "new", source |-> "newer"])

ConnSymmetry == Permutations(Conns)
=============================================================================
