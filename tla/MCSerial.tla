------------------------------ MODULE MCSerial ------------------------------
(***************************************************************************)
(* Instances of Serial for TLC.                                            *)
(***************************************************************************)
EXTENDS Serial, TLC

\* Readers are alike.
ReaderSymmetry == Permutations(Reader)
=============================================================================
