----------------------------- MODULE MCLocalMedia -----------------------------
(***************************************************************************)
(* TLC instance of LocalMedia: the lengths of contents and the symmetry of *)
(* requests and users.  Contents are symmetric as they all have length 1.  *)
(***************************************************************************)
EXTENDS LocalMediaInv, TLC

MCSize == [c \in Contents |-> 1]

UploadSymmetry ==
  Permutations(Uploads) \cup Permutations(Users) \cup Permutations(Contents)
==============================================================================
