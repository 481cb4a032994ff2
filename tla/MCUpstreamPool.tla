---------------------------- MODULE MCUpstreamPool ----------------------------
(***************************************************************************)
(* TLC instance of UpstreamPool: the symmetry of requests.  Endpoints have *)
(* an order and are not symmetric.                                         *)
(***************************************************************************)
EXTENDS UpstreamPool, TLC

RequestSymmetry == Permutations(Requests)
==============================================================================
