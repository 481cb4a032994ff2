----------------------------- MODULE MCTokenCache -----------------------------
(***************************************************************************)
(* TLC instance of TokenCache: the symmetry of requests and of keys.       *)
(***************************************************************************)
EXTENDS TokenCache, TLC

CallerSymmetry == Permutations(Callers) \cup Permutations(Keys)
==============================================================================
