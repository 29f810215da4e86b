------------------------------ MODULE Filesys ------------------------------
(***************************************************************************)
(* The file system's structure on disk and in memory: the free map         *)
(* (filesys/free-map.c), inodes and the list of open inodes                *)
(* (filesys/inode.c), the root directory (filesys/directory.c), open files *)
(* (filesys/file.c) and the operations of filesys/filesys.c.               *)
(*                                                                         *)
(* The system calls make each operation under io_lock, so an operation is  *)
(* one step; every allocation of memory and every write of the free map    *)
(* file inside it may fail.  inode_write_at makes a block dirty in the     *)
(* cache (filesys/cache.c), and the disk gets it when it is evicted; of    *)
(* the cache it is assumed that inode_read_at finds in it what was         *)
(* written.  Inodes go to the disk at once.  Sectors stand for themselves, *)
(* lengths are in sectors.                                                 *)
(***************************************************************************)
EXTENDS Naturals, FiniteSets, FiniteSetsExt

CONSTANTS
  SectorCnt,  \* sectors of fs_device
  SlotCnt,    \* the entries that the root directory has room for
  Name,       \* file names
  Handle,     \* struct file objects
  MaxLength,  \* bound: the longest file created, in sectors
  NULL

FREE_MAP_SECTOR == 0
ROOT_DIR_SECTOR == 1
Sector == 0 .. SectorCnt - 1
Slot == 1 .. SlotCnt

Extent == [start : Sector, length : 0 .. SectorCnt]
Entry == [name : Name, inode_sector : Sector]
Inode == [open_cnt : Nat, removed : BOOLEAN, deny_write_cnt : Nat, data : Extent]
File == [inode : Sector, deny_write : BOOLEAN]

ASSUME FilesysAssumption ==
  /\ SectorCnt \in Nat /\ SectorCnt >= 4
  /\ SlotCnt \in Nat /\ MaxLength \in Nat
  /\ IsFiniteSet(Handle)
  /\ NULL \notin Sector \cup Extent \cup Entry \cup Inode \cup File

VARIABLES
  free_map,  \* the sectors marked in the free map in memory
  map_file,  \* the sectors marked in the free map file
  inode_at,  \* the on-disk inode last written to each sector
  entry,     \* the root directory: name and inode sector, or NULL if not in use
  inode,     \* open_inodes, by sector
  file,      \* the open files
  dirty,     \* a block in the cache, of the free map file or the directory, is dirty
  lost,      \* history: sectors that a failed create, a failed write of the free
             \* map file or a reboot has left marked and unreachable
  torn       \* history: a reboot has lost a dirty block

vars == <<free_map, map_file, inode_at, entry, inode, file, dirty, lost, torn>>

TypeOK ==
  /\ free_map \subseteq Sector /\ map_file \subseteq Sector /\ lost \subseteq Sector
  /\ inode_at \in [Sector -> Extent \cup {NULL}]
  /\ entry \in [Slot -> Entry \cup {NULL}]
  /\ inode \in [Sector -> Inode \cup {NULL}]
  /\ file \in [Handle -> File \cup {NULL}]
  /\ dirty \in BOOLEAN /\ torn \in BOOLEAN

Run(start, cnt) == start .. start + cnt - 1
Opened(data) == [open_cnt |-> 1, removed |-> FALSE, deny_write_cnt |-> 0, data |-> data]

\* do_format and free_map_open: the free map's data is in sector 2, the root
\* directory's in sector 3, and the free map file is open.  The directory's
\* zeros are on the disk, the free map is in a dirty block.
Init ==
  LET map == [start |-> 2, length |-> 1]
      root == [start |-> 3, length |-> 1]
  IN /\ free_map = 0 .. 3 /\ map_file = 0 .. 3 /\ lost = {}
     /\ inode_at = [s \in Sector |-> CASE s = FREE_MAP_SECTOR -> map
                                       [] s = ROOT_DIR_SECTOR -> root
                                       [] OTHER -> NULL]
     /\ entry = [i \in Slot |-> NULL]
     /\ inode = [s \in Sector |-> IF s = FREE_MAP_SECTOR THEN Opened(map) ELSE NULL]
     /\ file = [h \in Handle |-> NULL]
     /\ dirty = TRUE /\ torn = FALSE

-----------------------------------------------------------------------------
(* The free map.  Its operators return what may be the outcomes.  A map in  *)
(* memory and the map in the file go together as [map, file].               *)

Map == [map |-> free_map, file |-> map_file]

\* Mutant: only the first bit is looked at.
ScanFirst(map, cnt) ==
  LET fits == {s \in Sector : s + cnt <= SectorCnt /\ Run(s, Min({1, cnt})) \cap map = {}}
  IN IF fits = {} THEN NULL ELSE Min(fits)

\* bitmap_scan over the free bits: the first run of cnt free sectors, or NULL.
scan(map, cnt) ==
  LET fits == {s \in Sector : s + cnt <= SectorCnt /\ Run(s, cnt) \cap map = {}}
  IN IF fits = {} THEN NULL ELSE Min(fits)

\* Mutant: a failed write of the free map file is not undone.
AllocateNotUndone(m, cnt) ==
  LET s == scan(m.map, cnt)
      marked == m.map \cup Run(s, cnt)
  IN IF s = NULL THEN {[map |-> m.map, file |-> m.file, sector |-> NULL]}
     ELSE {[map |-> marked, file |-> marked, sector |-> s],
           [map |-> marked, file |-> m.file, sector |-> NULL]}

\* free_map_allocate: if the file cannot be written the bits are cleared again.
free_map_allocate(m, cnt) ==
  LET s == scan(m.map, cnt)
      marked == m.map \cup Run(s, cnt)
  IN {[map |-> m.map, file |-> m.file, sector |-> NULL]} \cup
     (IF s = NULL THEN {} ELSE {[map |-> marked, file |-> marked, sector |-> s]})

\* free_map_release: whether the file could be written is not looked at.
free_map_release(m, run) ==
  {[map |-> m.map \ run, file |-> m.map \ run], [map |-> m.map \ run, file |-> m.file]}

Store(m) == free_map' = m.map /\ map_file' = m.file

-----------------------------------------------------------------------------
(* Inodes in memory. *)

\* inode_open: an inode already open is shared.
inode_open(s) ==
  [inode EXCEPT ![s] = IF @ = NULL THEN Opened(inode_at[s])
                       ELSE [inode[s] EXCEPT !.open_cnt = @ + 1]]

\* The list of open inodes after inode_close.
closed(i, s) ==
  [i EXCEPT ![s] = IF @.open_cnt = 1 THEN NULL ELSE [i[s] EXCEPT !.open_cnt = @ - 1]]

\* The sectors that inode_close releases: all of a removed inode's, on its last
\* close.
released(i, s) ==
  IF i[s].open_cnt = 1 /\ i[s].removed
    THEN {s} \cup Run(i[s].data.start, i[s].data.length)
    ELSE {}

\* inode_close, on the list i: the two releases are one write of the file
\* after the other, each of which may fail.
inode_close(i, s) ==
  LET gone == released(i, s)
      first == gone \cap {s}
  IN /\ inode' = closed(i, s)
     /\ IF gone = {} THEN Store(Map)
        ELSE \E m \in free_map_release(Map, first) :
               \E n \in free_map_release(m, gone \ first) : Store(n)

-----------------------------------------------------------------------------
(* The operations of filesys.c and file.c.  A failure that changes nothing  *)
(* is a step that is not taken.                                             *)

FreeSlots == {i \in Slot : entry[i] = NULL}
Lookup(name) == {i \in Slot : entry[i] # NULL /\ entry[i].name = name}

\* dir_add when it succeeds: the name is new and the directory, which does not
\* grow, has a free slot.
dir_add(name, s) ==
  /\ Lookup(name) = {} /\ FreeSlots # {}
  /\ entry' = [entry EXCEPT ![Min(FreeSlots)] = [name |-> name, inode_sector |-> s]]

\* filesys_create.  If dir_add fails the sector of the inode is released, the
\* data sectors are not.
FilesysCreate(name, length) ==
  \E a \in free_map_allocate(Map, 1) :
    /\ a.sector # NULL
    /\ \E b \in free_map_allocate(a, length) :
         \/ /\ b.sector # NULL
            /\ inode_at' = [inode_at EXCEPT ![a.sector] = [start |-> b.sector, length |-> length]]
            /\ dir_add(name, a.sector)
            /\ Store(b)
            /\ UNCHANGED lost
         \/ /\ b.sector # NULL
            /\ inode_at' = [inode_at EXCEPT ![a.sector] = [start |-> b.sector, length |-> length]]
            /\ lost' = lost \cup Run(b.sector, length)
            /\ \E m \in free_map_release(b, {a.sector}) : Store(m)
            /\ UNCHANGED entry
         \/ /\ b.sector = NULL
            /\ \E m \in free_map_release(b, {a.sector}) : Store(m)
            /\ UNCHANGED <<inode_at, entry, lost>>
    /\ dirty' = TRUE
    /\ UNCHANGED <<inode, file, torn>>

\* filesys_open.
FilesysOpen(h, name) ==
  /\ file[h] = NULL
  /\ \E i \in Lookup(name) :
       /\ inode' = inode_open(entry[i].inode_sector)
       /\ file' = [file EXCEPT ![h] = [inode |-> entry[i].inode_sector, deny_write |-> FALSE]]
  /\ UNCHANGED <<free_map, map_file, inode_at, entry, dirty, lost, torn>>

\* file_reopen.
FileReopen(h, g) ==
  /\ file[h] # NULL /\ file[g] = NULL
  /\ inode' = [inode EXCEPT ![file[h].inode].open_cnt = @ + 1]
  /\ file' = [file EXCEPT ![g] = [inode |-> file[h].inode, deny_write |-> FALSE]]
  /\ UNCHANGED <<free_map, map_file, inode_at, entry, dirty, lost, torn>>

\* file_deny_write and file_allow_write, which count once per file.
FileDenyWrite(h) ==
  /\ file[h] # NULL /\ ~file[h].deny_write
  /\ file' = [file EXCEPT ![h].deny_write = TRUE]
  /\ inode' = [inode EXCEPT ![file[h].inode].deny_write_cnt = @ + 1]
  /\ UNCHANGED <<free_map, map_file, inode_at, entry, dirty, lost, torn>>

allow_write(h) ==
  IF file[h].deny_write
    THEN [inode EXCEPT ![file[h].inode].deny_write_cnt = @ - 1]
    ELSE inode

FileAllowWrite(h) ==
  /\ file[h] # NULL /\ file[h].deny_write
  /\ file' = [file EXCEPT ![h].deny_write = FALSE]
  /\ inode' = allow_write(h)
  /\ UNCHANGED <<free_map, map_file, inode_at, entry, dirty, lost, torn>>

\* Mutant: the inode keeps counting the file as one that denies writes.
CloseDenying(h) ==
  /\ file[h] # NULL
  /\ inode_close(inode, file[h].inode)
  /\ dirty' = (dirty \/ released(inode, file[h].inode) # {})
  /\ file' = [file EXCEPT ![h] = NULL]
  /\ UNCHANGED <<inode_at, entry, lost, torn>>

\* file_close.
FileClose(h) ==
  /\ file[h] # NULL
  /\ inode_close(allow_write(h), file[h].inode)
  /\ dirty' = (dirty \/ released(allow_write(h), file[h].inode) # {})
  /\ file' = [file EXCEPT ![h] = NULL]
  /\ UNCHANGED <<inode_at, entry, lost, torn>>

\* filesys_remove: the entry is erased, and the inode that dir_remove has
\* opened is closed again.
FilesysRemove(name) ==
  /\ \E i \in Lookup(name) :
       LET s == entry[i].inode_sector
       IN /\ entry' = [entry EXCEPT ![i] = NULL]
          /\ inode_close([inode_open(s) EXCEPT ![s].removed = TRUE], s)
  /\ dirty' = TRUE
  /\ UNCHANGED <<inode_at, file, lost, torn>>

\* block_evict writes the last dirty block to the disk, when the cache needs its
\* place.  Nothing else writes a dirty block.
BlockEvict ==
  /\ dirty
  /\ dirty' = FALSE
  /\ UNCHANGED <<free_map, map_file, inode_at, entry, inode, file, lost, torn>>

-----------------------------------------------------------------------------
\* The sectors of the inode in sector s with the given extent.
Sectors(s, data) == {s} \cup Run(data.start, data.length)

\* What the disk leads to: the two fixed inodes and those in the directory.
OnDisk == {FREE_MAP_SECTOR, ROOT_DIR_SECTOR} \cup
          {entry[i].inode_sector : i \in {j \in Slot : entry[j] # NULL}}
DiskSectors == UNION {Sectors(s, inode_at[s]) : s \in OnDisk}
Open == {s \in Sector : inode[s] # NULL}
OpenSectors == UNION {Sectors(s, inode[s].data) : s \in Open}

\* The machine is switched off and on between two operations, and no file is
\* open but the free map's.
Restart ==
  /\ inode' = [s \in Sector |-> IF s = FREE_MAP_SECTOR THEN Opened(inode_at[s]) ELSE NULL]
  /\ file' = [h \in Handle |-> NULL]
  /\ dirty' = FALSE
  /\ UNCHANGED <<map_file, inode_at, entry>>

\* No block was dirty: filesys_init reads the free map from its file.
Reboot ==
  /\ ~dirty
  /\ Restart
  /\ free_map' = map_file
  /\ lost' = map_file \ DiskSectors
  /\ UNCHANGED torn

\* A block was dirty, which filesys_done does not write: the free map or the
\* directory, or both, come back as they once were, whatever the other and the
\* inodes say.  The model ends here, and what came back is left open.
RebootUnwritten ==
  /\ dirty
  /\ Restart
  /\ torn' = TRUE
  /\ UNCHANGED <<free_map, lost>>

Next ==
  /\ ~torn
  /\ \/ \E name \in Name, length \in 0 .. MaxLength : FilesysCreate(name, length)
     \/ \E name \in Name : FilesysRemove(name) \/ \E h \in Handle : FilesysOpen(h, name)
     \/ \E h \in Handle : FileClose(h) \/ FileDenyWrite(h) \/ FileAllowWrite(h)
     \/ \E h, g \in Handle : FileReopen(h, g)
     \/ BlockEvict
     \/ Reboot \/ RebootUnwritten

Spec == Init /\ [][Next]_vars

-----------------------------------------------------------------------------
(* Properties.  They are about the time until a reboot loses a dirty block; *)
(* from then on the code promises nothing.                                  *)

\* Two files, one of them perhaps removed and still open, have no sector in
\* common.
FilesDisjoint ==
  LET data(s) == IF inode[s] # NULL THEN inode[s].data ELSE inode_at[s]
  IN ~torn => \A s, t \in OnDisk \cup Open :
                s # t => Sectors(s, data(s)) \cap Sectors(t, data(t)) = {}

\* No sector of a file is free for another, and none is lost except by a create
\* that fails at dir_add and by a reboot: the free map marks exactly the sectors
\* that the disk leads to, those of open inodes, and the lost ones.  What the
\* disk leads to is marked in the free map file too, and so also after a
\* reboot that finds the cache written back.  The assertion of free_map_release
\* holds for the same reason.
SectorsAccounted ==
  ~torn => /\ free_map = DiskSectors \cup OpenSectors \cup lost
           /\ DiskSectors \subseteq map_file

\* An inode is open exactly as often as files refer to it, denies writes as
\* often as they do (the assertions of inode_deny_write and
\* inode_allow_write), and is removed exactly if no entry leads to it.
InodesCounted ==
  ~torn => \A s \in Open :
    LET files == {h \in Handle : file[h] # NULL /\ file[h].inode = s}
        own == IF s = FREE_MAP_SECTOR THEN 1 ELSE 0
    IN /\ inode[s].open_cnt = Cardinality(files) + own
       /\ inode[s].open_cnt > 0
       /\ inode[s].deny_write_cnt = Cardinality({h \in files : file[h].deny_write})
       /\ inode[s].removed = (s \notin OnDisk)
=============================================================================
