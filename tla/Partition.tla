----------------------------- MODULE Partition -----------------------------
(***************************************************************************)
(* The search for partitions of devices/partition.c.  Sector numbers are   *)
(* block_sector_t and wrap around at MaxSector + 1.  The table read is     *)
(* always the one in sector 0, whatever sector was asked for.              *)
(***************************************************************************)
EXTENDS Naturals, Sequences, SequencesExt

CONSTANTS
  MaxSector,    \* the largest block_sector_t
  DeviceSize,   \* block_size of the device
  MaxDepth      \* bound on the nesting of read_partition_table

ASSUME PartitionAssumption == MaxSector \in Nat /\ DeviceSize \in 1 .. MaxSector

Plus(a, b) == (a + b) % (MaxSector + 1)

\* Mutant: the end of the partition is not tested for wrapping around.
FoundUnchecked(start, size, part_nr) ==
  IF start >= DeviceSize \/ Plus(start, size) > DeviceSize THEN {}
  ELSE {[start |-> start, size |-> size, nr |-> part_nr]}

\* found_partition: the partition registered, if any.
found_partition(start, size, part_nr) ==
  IF \/ start >= DeviceSize
     \/ Plus(start, size) < start
     \/ Plus(start, size) > DeviceSize
    THEN {}
    ELSE {[start |-> start, size |-> size, nr |-> part_nr]}

\* read_partition_table for the given sector.  acc has the partitions found so
\* far and the number of the last one.
RECURSIVE read_partition_table(_, _, _, _, _)
read_partition_table(table, sector, primary, acc, depth) ==
  IF sector >= DeviceSize \/ depth = 0 THEN acc
  ELSE FoldLeft(
         LAMBDA r, e :
           CASE e.size = 0 \/ e.type = "empty" -> r
             [] e.size # 0 /\ e.type = "extended" ->
                  IF sector = 0
                    THEN read_partition_table(table, e.offset, e.offset, r, depth - 1)
                    ELSE read_partition_table(table, Plus(e.offset, primary), primary, r, depth - 1)
             [] OTHER ->
                  [found |-> r.found \cup
                             found_partition(Plus(e.offset, sector), e.size, r.part_nr + 1),
                   part_nr |-> r.part_nr + 1],
         acc, table)

\* partition_scan.
partition_scan(table) ==
  read_partition_table(table, 0, 0, [found |-> {}, part_nr |-> 0], MaxDepth)
=============================================================================
