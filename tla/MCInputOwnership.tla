-------------------------- MODULE MCInputOwnership --------------------------
(* InputOwnership with interchangeable applications, for TLC. *)
EXTENDS InputOwnership, TLC

Interchangeable == Permutations(Apps)
=============================================================================
