---------------------------- MODULE MCRemoteMedia ----------------------------
(***************************************************************************)
(* TLC instance of RemoteMedia: the symmetry of requests and processes.    *)
(***************************************************************************)
EXTENDS RemoteMedia, TLC

RequestSymmetry == Permutations(Requests) \cup Permutations(Workers)
==============================================================================
