----------------------------- MODULE MCWellKnown -----------------------------
(***************************************************************************)
(* TLC instance of WellKnown: the symmetry of requests.                    *)
(***************************************************************************)
EXTENDS WellKnown, TLC

RequestSymmetry == Permutations(Requests)
==============================================================================
