----------------------------- MODULE MCProcess -----------------------------
(***************************************************************************)
(* Small instances of Process.                                             *)
(***************************************************************************)
EXTENDS Process, TLC

CONSTANTS Pages    \* the pages that can hold the threads of processes

MCThread == Pages \cup {Main, Idle}

PageSymmetry == Permutations(Pages)
=============================================================================
