----------------------------- MODULE MCFilesys -----------------------------
(***************************************************************************)
(* An instance of Filesys for TLC.                                         *)
(***************************************************************************)
EXTENDS Filesys, TLC

Symmetry == Permutations(Name) \cup Permutations(Handle)
=============================================================================
