-------------------------- MODULE MCDatabaseOwnership --------------------------
(* DatabaseOwnership for TLC: contenders of the same fate may be exchanged. *)
EXTENDS DatabaseOwnership, TLC

Contenders == Permutations(Mortal)
=============================================================================
