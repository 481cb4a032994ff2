---------------------------- MODULE MCUploadLimits ----------------------------
(***************************************************************************)
(* TLC instance of UploadLimits: every list of at most two limits over two *)
(* windows and three ceilings.                                             *)
(***************************************************************************)
EXTENDS UploadLimits, TLC

MCLimits == [window : {1, 2}, max : 1 .. 3]
MCConfigurations == UNION {[1 .. n -> MCLimits] : n \in 0 .. 2}

Symmetry == Permutations(Uploads)
=============================================================================
