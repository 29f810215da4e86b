------------------------------ MODULE InodeIO ------------------------------
(***************************************************************************)
(* How inode_read_at and inode_write_at (filesys/inode.c) cut a request    *)
(* for bytes of a file into chunks of its sectors, and file_read and       *)
(* file_write (filesys/file.c) move the position.  A chunk is a stretch of *)
(* one sector; sectors count from the start of the file.                   *)
(***************************************************************************)
EXTENDS Integers, Sequences, SequencesExt

CONSTANT BLOCK_SECTOR_SIZE

ASSUME InodeIOAssumption == BLOCK_SECTOR_SIZE \in Nat \ {0}

\* bytes_to_sectors.
bytes_to_sectors(size) == (size + BLOCK_SECTOR_SIZE - 1) \div BLOCK_SECTOR_SIZE

\* byte_to_sector, -1 past the end.
byte_to_sector(length, pos) == IF pos < length THEN pos \div BLOCK_SECTOR_SIZE ELSE -1

LOCAL Lesser(a, b) == IF a < b THEN a ELSE b

\* Mutant: the bytes left in the file are not looked at.
ChunkPastEnd(length, size, offset) ==
  Lesser(size, BLOCK_SECTOR_SIZE - (offset % BLOCK_SECTOR_SIZE))

\* The bytes of one turn of the loop: not more than are wanted, left in the
\* file and left in the sector.
chunk_size(length, size, offset) ==
  LET sector_left == BLOCK_SECTOR_SIZE - (offset % BLOCK_SECTOR_SIZE)
  IN Lesser(size, Lesser(length - offset, sector_left))

\* A chunk that is a whole sector needs no bounce buffer.
Whole(ofs, n) == ofs = 0 /\ n = BLOCK_SECTOR_SIZE

\* The loop, from offset on.  With no bounce buffer it ends at the first chunk
\* that needs one.
RECURSIVE chunks(_, _, _, _)
chunks(length, size, offset, bounce) ==
  LET ofs == offset % BLOCK_SECTOR_SIZE
      n == chunk_size(length, size, offset)
  IN IF size <= 0 \/ n <= 0 \/ ~(bounce \/ Whole(ofs, n)) THEN <<>>
     ELSE <<[sector |-> byte_to_sector(length, offset), ofs |-> ofs, size |-> n]>>
            \o chunks(length, size - n, offset + n, bounce)

inode_read_at(length, size, offset) == chunks(length, size, offset, TRUE)

\* inode_write_at: a file that is denied writes has nothing written.
inode_write_at(length, size, offset, deny_write_cnt, bounce) ==
  IF deny_write_cnt > 0 THEN <<>> ELSE chunks(length, size, offset, bounce)

\* The bytes read or written, which file_read and file_write add to the position.
bytes_done(done) == FoldLeft(LAMBDA sum, c : sum + c.size, 0, done)
file_pos(pos, done) == pos + bytes_done(done)
=============================================================================
