--------------------------- MODULE MCThumbnailCache ---------------------------
(***************************************************************************)
(* TLC instance of ThumbnailCache.                                         *)
(***************************************************************************)
EXTENDS ThumbnailCache, TLC

Symmetry == Permutations(Keys) \cup Permutations(Puts)
=============================================================================
