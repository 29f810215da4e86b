------------------------------ MODULE MCMemory ------------------------------
(***************************************************************************)
(* An instance of Memory for TLC.                                          *)
(***************************************************************************)
EXTENDS Memory, TLC

CONSTANT PerArena  \* blocks in each arena

MCblocks_per_arena == [d \in Desc |-> PerArena]
ThreadSymmetry == Permutations(Thread)
=============================================================================
