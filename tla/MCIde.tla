------------------------------- MODULE MCIde -------------------------------
(***************************************************************************)
(* An instance of Ide for TLC: a disk whose first sector is in no          *)
(* partition, and one with a partition of this system and a foreign one.   *)
(***************************************************************************)
EXTENDS Ide

MCPart == {[disk |-> 0, start |-> 1, size |-> 1, foreign |-> FALSE],
           [disk |-> 1, start |-> 0, size |-> 1, foreign |-> FALSE],
           [disk |-> 1, start |-> 1, size |-> 1, foreign |-> TRUE]}
=============================================================================
