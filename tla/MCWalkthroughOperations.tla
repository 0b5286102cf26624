----------------------- MODULE MCWalkthroughOperations -----------------------
(* Small instances of WalkthroughOperations for TLC. *)
EXTENDS WalkthroughOperations, TLC

KeySymmetry == Permutations(Keys)
=============================================================================
