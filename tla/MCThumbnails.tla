---------------------------- MODULE MCThumbnails ----------------------------
(***************************************************************************)
(* TLC instance of Thumbnails.                                             *)
(***************************************************************************)
EXTENDS Thumbnails, TLC
=============================================================================
