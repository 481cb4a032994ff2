----------------------------- MODULE MCLastAccess -----------------------------
(***************************************************************************)
(* TLC instance of LastAccess.                                             *)
(***************************************************************************)
EXTENDS LastAccess, TLC

Symmetry == Permutations(Workers) \cup Permutations(Media)
=============================================================================
