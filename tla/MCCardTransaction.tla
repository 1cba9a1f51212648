------------------------- MODULE MCCardTransaction -------------------------
(* Model-checking instance of CardTransaction: directories are alike.      *)
EXTENDS CardTransactionInv, TLC

DirSymmetry == Permutations(Dirs)
============================================================================
