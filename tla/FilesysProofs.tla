--------------------------- MODULE FilesysProofs ---------------------------
(***************************************************************************)
(* Proofs about Filesys, for a disk, a directory and files of any size: no *)
(* two files share a sector, the free map accounts for every sector, also  *)
(* after failures and after reboots that find the cache written back, and  *)
(* open inodes are counted exactly.                                        *)
(***************************************************************************)
EXTENDS Filesys, TLAPS, FiniteSetTheorems

-----------------------------------------------------------------------------
(* The inductive invariant.  An inode is live if the disk or open_inodes   *)
(* leads to it; what the disk says of it is what is in memory.  FilesysInv *)
(* is kept by every operation; a reboot that loses a dirty block ends it.  *)

Types ==
  /\ free_map \subseteq Sector /\ map_file \subseteq Sector /\ lost \subseteq Sector
  /\ inode_at \in [Sector -> Extent \cup {NULL}]
  /\ entry \in [Slot -> Entry \cup {NULL}]
  /\ inode \in [Sector -> Inode \cup {NULL}]
  /\ file \in [Handle -> File \cup {NULL}]
CacheTypes == dirty \in BOOLEAN /\ torn \in BOOLEAN

Live == OnDisk \cup Open
Space(s) == Sectors(s, inode_at[s])
Used == UNION {Space(s) : s \in Live}

\* The fixed inodes are in no entry, and an inode is in one entry at most.
EntriesOK ==
  /\ \A i \in Slot : entry[i] # NULL => entry[i].inode_sector \notin {FREE_MAP_SECTOR, ROOT_DIR_SECTOR}
  /\ \A i, j \in Slot : entry[i] # NULL /\ entry[j] # NULL /\ i # j =>
       entry[i].inode_sector # entry[j].inode_sector

\* A live inode has an extent within the disk.
ExtentsOK ==
  \A s \in Live : inode_at[s] \in Extent /\ inode_at[s].start + inode_at[s].length <= SectorCnt

\* The live inodes have no sector in common with each other or the lost ones.
Apart ==
  /\ \A s, t \in Live : s # t => Space(s) \cap Space(t) = {}
  /\ \A s \in Live : Space(s) \cap lost = {}

Marked ==
  /\ free_map = Used \cup lost
  /\ \A s \in OnDisk : Space(s) \subseteq map_file

SectorInv == EntriesOK /\ ExtentsOK /\ Apart /\ Marked

Files(s) == {h \in Handle : file[h] # NULL /\ file[h].inode = s}
Deniers(s) == {h \in Files(s) : file[h].deny_write}
Own(s) == IF s = FREE_MAP_SECTOR THEN 1 ELSE 0

Counted(s) ==
  /\ inode[s].open_cnt = Cardinality(Files(s)) + Own(s)
  /\ inode[s].open_cnt > 0
  /\ inode[s].deny_write_cnt = Cardinality(Deniers(s))
  /\ inode[s].removed = (s \notin OnDisk)

InodeInv ==
  /\ \A h \in Handle : file[h] # NULL => file[h].inode \in Open
  /\ \A s \in Open : inode[s].data = inode_at[s] /\ Counted(s)

FilesysInv == Types /\ SectorInv /\ InodeInv

DiskInv == Types /\ CacheTypes /\ (~torn => FilesysInv)

-----------------------------------------------------------------------------
(* The free map. *)

LEMMA MinIn ==
  ASSUME NEW S \in SUBSET Nat, S # {}
  PROVE  Min(S) \in S /\ \A y \in S : Min(S) <= y
  <1> DEFINE R == OpToRel(<, Nat)
  <1>1. IsWellFoundedOn(R, Nat)
    BY NatLessThanWellFounded, Zenon
  <1>2. \A x, y \in Nat : x < y => <<x, y>> \in R
    BY Zenon DEF OpToRel
  <1> HIDE DEF R
  <1>3. PICK x \in S : \A y \in S : ~(<<y, x>> \in R)
    BY <1>1, WFMin, Zenon
  <1>4. \A y \in S : x <= y
    <2> SUFFICES ASSUME NEW y \in S  PROVE x <= y
      BY Zenon
    <2>1. x \in Nat /\ y \in Nat
      BY Zenon
    <2>2. ~(y < x)
      BY <1>2, <1>3, <2>1, Zenon
    <2> QED  BY <2>1, <2>2, SMT
  <1> QED  BY <1>4, Zenon DEF Min

LEMMA ScanFits ==
  ASSUME NEW map, NEW cnt \in Nat, scan(map, cnt) # NULL
  PROVE  /\ scan(map, cnt) \in Sector /\ scan(map, cnt) + cnt <= SectorCnt
         /\ Run(scan(map, cnt), cnt) \cap map = {}
  <1> DEFINE fits == {s \in Sector : s + cnt <= SectorCnt /\ Run(s, cnt) \cap map = {}}
  <1>1. fits # {} /\ scan(map, cnt) = Min(fits)
    BY Zenon DEF scan
  <1>2. fits \in SUBSET Nat
    BY FilesysAssumption DEF Sector
  <1>3. Min(fits) \in fits
    BY <1>1, <1>2, MinIn, Zenon
  <1> QED  BY <1>1, <1>3, Zenon

\* What free_map_allocate gives is marked in both maps and was not in use.
LEMMA Allocated ==
  ASSUME NEW m, NEW cnt \in Nat, NEW a \in free_map_allocate(m, cnt)
  PROVE  /\ a.sector = NULL => a.map = m.map /\ a.file = m.file
         /\ a.sector # NULL => /\ a.sector \in Sector /\ a.sector + cnt <= SectorCnt
                               /\ Run(a.sector, cnt) \cap m.map = {}
                               /\ a.map = m.map \cup Run(a.sector, cnt) /\ a.file = a.map
  <1> DEFINE s == scan(m.map, cnt)
  <1>1. CASE s = NULL
    BY <1>1 DEF free_map_allocate
  <1>2. CASE s # NULL
    <2>1. s \in Sector /\ s + cnt <= SectorCnt /\ Run(s, cnt) \cap m.map = {}
      BY <1>2, ScanFits, Zenon
    <2>2. \/ a = [map |-> m.map, file |-> m.file, sector |-> NULL]
          \/ a = [map |-> m.map \cup Run(s, cnt), file |-> m.map \cup Run(s, cnt), sector |-> s]
      BY <1>2, Zenon DEF free_map_allocate
    <2> HIDE DEF s
    <2> QED  BY <1>2, <2>1, <2>2
  <1> QED  BY <1>1, <1>2, Zenon

LEMMA RunInSector ==
  ASSUME NEW s \in Sector, NEW n \in Nat, s + n <= SectorCnt
  PROVE  Run(s, n) \subseteq Sector
  BY FilesysAssumption DEF Run, Sector

\* inode_close takes the sectors it releases out of the map in memory, and no
\* other sector out of the file.
LEMMA CloseMaps ==
  ASSUME NEW i, NEW s, inode_close(i, s)
  PROVE  /\ inode' = closed(i, s)
         /\ free_map' = free_map \ released(i, s)
         /\ (map_file \cap free_map) \ released(i, s) \subseteq map_file'
         /\ map_file' \subseteq map_file \cup free_map
         /\ released(i, s) = {} => map_file' = map_file
  <1> DEFINE gone == released(i, s)
             first == gone \cap {s}
  <1>1. inode' = closed(i, s)
    BY Zenon DEF inode_close
  <1>2. CASE gone = {}
    BY <1>1, <1>2, Zenon DEF inode_close, Store, Map
  <1>3. CASE gone # {}
    <2>1. PICK m \in free_map_release(Map, first) :
            \E n \in free_map_release(m, gone \ first) : Store(n)
      BY <1>3, Zenon DEF inode_close
    <2>2. PICK n \in free_map_release(m, gone \ first) : Store(n)
      BY <2>1, Zenon
    <2>3. m.map = free_map \ first /\ m.file \in {free_map \ first, map_file}
      BY DEF free_map_release, Map
    <2>4. n.map = m.map \ (gone \ first) /\ n.file \in {m.map \ (gone \ first), m.file}
      BY DEF free_map_release
    <2>5. free_map' = n.map /\ map_file' = n.file
      BY <2>2, Zenon DEF Store
    <2> HIDE DEF gone
    <2> QED  BY <1>1, <1>3, <2>3, <2>4, <2>5, Zenon DEF gone
  <1> QED  BY <1>2, <1>3, Zenon

-----------------------------------------------------------------------------
(* The sectors. *)

LEMMA DiskTypes ==
  ASSUME Types
  PROVE  /\ FREE_MAP_SECTOR \in OnDisk /\ ROOT_DIR_SECTOR \in OnDisk
         /\ OnDisk \subseteq Sector /\ Open \subseteq Sector /\ Live \subseteq Sector
         /\ \A i \in Slot : entry[i] # NULL => entry[i] \in Entry
         /\ \A s \in Open : inode[s] \in Inode
         /\ \A h \in Handle : file[h] # NULL => file[h] \in File
         /\ \A s \in Sector : s \in Open <=> inode[s] # NULL
         /\ NULL \notin Inode /\ NULL \notin File /\ NULL \notin Entry /\ NULL \notin Extent
  BY FilesysAssumption
  DEF Types, OnDisk, Open, Live, Sector, Entry, FREE_MAP_SECTOR, ROOT_DIR_SECTOR

LEMMA LiveMarked ==
  ASSUME SectorInv, NEW s \in Live
  PROVE  s \in Space(s) /\ Space(s) \subseteq free_map
  BY Zenon DEF SectorInv, Marked, Used, Space, Sectors

LEMMA SameSectors ==
  ASSUME SectorInv, UNCHANGED <<entry, inode_at, free_map, map_file, lost>>, Live' = Live
  PROVE  SectorInv'
  <1>1. OnDisk' = OnDisk /\ \A s : Space(s)' = Space(s)
    BY Zenon DEF OnDisk, Space
  <1>2. EntriesOK' /\ ExtentsOK'
    BY Zenon DEF SectorInv, EntriesOK, ExtentsOK
  <1>3. Apart'
    BY <1>1, Zenon DEF SectorInv, Apart
  <1>4. Marked'
    BY <1>1, Zenon DEF SectorInv, Marked, Used
  <1> QED  BY <1>2, <1>3, <1>4, Zenon DEF SectorInv

\* A live inode goes, with all its sectors.
LEMMA ReleasedSectors ==
  ASSUME SectorInv, NEW s \in Live, EntriesOK', OnDisk' = OnDisk \ {s}, Live' = Live \ {s},
         UNCHANGED <<inode_at, lost>>, free_map' = free_map \ Space(s),
         (map_file \cap free_map) \ Space(s) \subseteq map_file'
  PROVE  SectorInv'
  <1>1. \A t : Space(t)' = Space(t)
    BY Zenon DEF Space
  <1>2. ExtentsOK' /\ Apart'
    BY <1>1, Zenon DEF SectorInv, ExtentsOK, Apart
  <1>3. \A t \in Live \ {s} : Space(t) \cap Space(s) = {}
    BY Zenon DEF SectorInv, Apart
  <1>4. Used' = Used \ Space(s)
    <2>1. Used' = UNION {Space(t) : t \in Live \ {s}}
      BY <1>1, Zenon DEF Used
    <2> QED  BY <1>3, <2>1 DEF Used
  <1>5. free_map' = Used' \cup lost'
    BY <1>4, Zenon DEF SectorInv, Marked, Apart
  <1>6. ASSUME NEW t \in OnDisk'  PROVE Space(t)' \subseteq map_file'
    <2>1. t \in OnDisk /\ t \in Live \ {s}
      BY Zenon DEF Live
    <2>2. Space(t) \subseteq map_file /\ Space(t) \subseteq free_map
      BY <2>1, LiveMarked, Zenon DEF SectorInv, Marked
    <2> QED  BY <1>1, <1>3, <2>1, <2>2, Zenon
  <1> QED  BY <1>2, <1>5, <1>6, Zenon DEF SectorInv, Marked

\* A new inode, in sectors that were free.
LEMMA CreatedSectors ==
  ASSUME Types, SectorInv, NEW s \in Sector, NEW x \in Extent, x.start + x.length <= SectorCnt,
         Sectors(s, x) \cap free_map = {},
         inode_at' = [inode_at EXCEPT ![s] = x], EntriesOK', OnDisk' = OnDisk \cup {s},
         Live' = Live \cup {s}, lost' = lost,
         free_map' = free_map \cup Sectors(s, x), map_file' = free_map'
  PROVE  SectorInv'
  <1>1. s \notin Live
    BY LiveMarked, Zenon DEF Sectors
  <1>2. inode_at'[s] = x /\ \A t \in Live : inode_at'[t] = inode_at[t]
    BY <1>1, DiskTypes, Zenon DEF Types
  <1>3. Space(s)' = Sectors(s, x) /\ \A t \in Live : Space(t)' = Space(t)
    BY <1>2, Zenon DEF Space
  <1>4. \A t \in Live : Space(t) \cap Sectors(s, x) = {}
    BY LiveMarked, Zenon
  <1>5. ExtentsOK'
    BY <1>2, Zenon DEF SectorInv, ExtentsOK
  <1>6. Apart'
    <2>1. \A t \in Live : Space(t) \cap lost = {}
      BY Zenon DEF SectorInv, Apart
    <2>2. Sectors(s, x) \cap lost = {}
      BY Zenon DEF SectorInv, Marked
    <2>3. \A t, u \in Live : t # u => Space(t) \cap Space(u) = {}
      BY Zenon DEF SectorInv, Apart
    <2> QED  BY <1>1, <1>3, <1>4, <2>1, <2>2, <2>3 DEF Apart
  <1>7. Used' = Used \cup Sectors(s, x)
    BY <1>3, Zenon DEF Used
  <1>8. free_map' = Used' \cup lost'
    BY <1>7, Zenon DEF SectorInv, Marked
  <1>9. \A t \in OnDisk' : Space(t)' \subseteq map_file'
    BY <1>8, Zenon DEF Used, Live
  <1> QED  BY <1>5, <1>6, <1>8, <1>9, Zenon DEF SectorInv, Marked

\* A create that fails at dir_add: the data sectors are lost.
LEMMA LostSectors ==
  ASSUME Types, SectorInv, NEW s \in Sector, NEW x, NEW run,
         s \notin free_map, run \cap free_map = {},
         inode_at' = [inode_at EXCEPT ![s] = x], entry' = entry, Live' = Live,
         lost' = lost \cup run, free_map' = free_map \cup run,
         free_map \subseteq map_file'
  PROVE  SectorInv'
  <1>1. s \notin Live
    BY LiveMarked, Zenon
  <1>2. \A t \in Live : inode_at'[t] = inode_at[t]
    BY <1>1, DiskTypes, Zenon DEF Types
  <1>3. \A t \in Live : Space(t)' = Space(t)
    BY <1>2, Zenon DEF Space
  <1>4. OnDisk' = OnDisk /\ OnDisk \subseteq Live
    BY Zenon DEF OnDisk, Live
  <1>5. EntriesOK' /\ ExtentsOK'
    BY <1>2, Zenon DEF SectorInv, EntriesOK, ExtentsOK
  <1>6. Apart'
    BY <1>3, LiveMarked DEF SectorInv, Apart
  <1>7. Used' = Used
    BY <1>3, Zenon DEF Used
  <1>8. Marked'
    BY <1>3, <1>4, <1>7, LiveMarked DEF SectorInv, Marked
  <1> QED  BY <1>5, <1>6, <1>8, Zenon DEF SectorInv

\* A reboot: what the disk does not lead to is lost.
LEMMA RebootSectors ==
  ASSUME Types, SectorInv, Reboot
  PROVE  SectorInv'
  <1> USE DEF Reboot, Restart
  <1>1. OnDisk' = OnDisk /\ \A s : Space(s)' = Space(s)
    BY Zenon DEF OnDisk, Space
  <1>2. Live' = OnDisk /\ OnDisk \subseteq Live
    <2>1. Open' \subseteq {FREE_MAP_SECTOR}
      BY Zenon DEF Open
    <2> QED  BY <1>1, <2>1, Zenon DEF Live, OnDisk
  <1>3. DiskSectors = UNION {Space(s) : s \in OnDisk}
    BY Zenon DEF DiskSectors, Space
  <1>4. EntriesOK' /\ ExtentsOK'
    BY <1>2, Zenon DEF SectorInv, EntriesOK, ExtentsOK
  <1>5. Apart'
    BY <1>1, <1>2, <1>3, Zenon DEF SectorInv, Apart
  <1>6. Used' = DiskSectors
    BY <1>1, <1>2, <1>3, Zenon DEF Used
  <1>7. DiskSectors \subseteq map_file
    BY <1>3, Zenon DEF SectorInv, Marked
  <1>8. Marked'
    BY <1>1, <1>6, <1>7, Zenon DEF SectorInv, Marked
  <1> QED  BY <1>4, <1>5, <1>8, Zenon DEF SectorInv

-----------------------------------------------------------------------------
(* The open inodes. *)

LEMMA FilesFinite ==
  ASSUME NEW s
  PROVE  /\ IsFiniteSet(Files(s)) /\ Cardinality(Files(s)) \in Nat
         /\ IsFiniteSet(Deniers(s)) /\ Cardinality(Deniers(s)) \in Nat
  <1>1. IsFiniteSet(Files(s)) /\ IsFiniteSet(Deniers(s))
    BY FilesysAssumption, FS_Subset, Zenon DEF Files, Deniers
  <1> QED  BY <1>1, FS_CardinalityType, Zenon

LEMMA OtherCounted ==
  ASSUME NEW t, Counted(t), inode'[t] = inode[t], Files(t)' = Files(t), Deniers(t)' = Deniers(t),
         t \in OnDisk' <=> t \in OnDisk
  PROVE  Counted(t)'
  BY Zenon DEF Counted

\* The file object h changes to f; it refers to inode s before and after, if it
\* refers to any.
LEMMA FileChange ==
  ASSUME Types, NEW h \in Handle, NEW s, NEW f \in File \cup {NULL},
         file' = [file EXCEPT ![h] = f],
         file[h] # NULL => file[h].inode = s, f # NULL => f.inode = s
  PROVE  /\ \A t : t # s => Files(t)' = Files(t) /\ Deniers(t)' = Deniers(t)
         /\ Files(s)' = IF f # NULL THEN Files(s) \cup {h} ELSE Files(s) \ {h}
         /\ Deniers(s)' = IF f # NULL /\ f.deny_write THEN Deniers(s) \cup {h} ELSE Deniers(s) \ {h}
  <1>1. file'[h] = f /\ \A g \in Handle \ {h} : file'[g] = file[g]
    BY Zenon DEF Types
  <1>2. \A t : Files(t)' = {g \in Handle : file'[g] # NULL /\ file'[g].inode = t}
    BY Zenon DEF Files
  <1>3. ASSUME NEW t, t # s  PROVE Files(t)' = Files(t)
    <2>1. \A g \in Handle : (file'[g] # NULL /\ file'[g].inode = t) <=> (file[g] # NULL /\ file[g].inode = t)
      BY <1>1, <1>3
    <2> QED  BY <1>2, <2>1, Zenon DEF Files
  <1>4. Files(s)' = IF f # NULL THEN Files(s) \cup {h} ELSE Files(s) \ {h}
    BY <1>1, <1>2, Zenon DEF Files
  <1>5. ASSUME NEW t, t # s  PROVE Deniers(t)' = Deniers(t)
    <2>1. h \notin Files(t)
      BY <1>5, Zenon DEF Files
    <2>2. Files(t)' = Files(t) /\ Files(t) \subseteq Handle
      BY <1>3, <1>5, Zenon DEF Files
    <2> QED  BY <1>1, <2>1, <2>2, Zenon DEF Deniers
  <1>6. Deniers(s)' = IF f # NULL /\ f.deny_write THEN Deniers(s) \cup {h} ELSE Deniers(s) \ {h}
    <2>1. Deniers(s)' = {g \in Files(s)' : file'[g].deny_write} /\ Files(s) \subseteq Handle
      BY Zenon DEF Deniers, Files
    <2> QED  BY <1>1, <1>4, <2>1, Zenon DEF Deniers
  <1> QED  BY <1>3, <1>4, <1>5, <1>6, Zenon

\* One inode changes together with its files.
LEMMA InodeChange ==
  ASSUME FilesysInv, Types', NEW h \in Handle, NEW s \in Sector, NEW f \in File \cup {NULL},
         file' = [file EXCEPT ![h] = f],
         file[h] # NULL => file[h].inode = s, f # NULL => f.inode = s,
         UNCHANGED <<entry, inode_at>>, \A t \in Sector \ {s} : inode'[t] = inode[t],
         inode'[s] # NULL => inode'[s].data = inode_at[s] /\ Counted(s)',
         inode'[s] = NULL => Files(s)' = {}
  PROVE  InodeInv'
  <1> USE DEF FilesysInv
  <1>1. OnDisk' = OnDisk /\ \A t : t # s => Files(t)' = Files(t) /\ Deniers(t)' = Deniers(t)
    <2>1. OnDisk' = OnDisk
      BY Zenon DEF OnDisk
    <2>2. \A t : t # s => Files(t)' = Files(t) /\ Deniers(t)' = Deniers(t)
      BY FileChange, Zenon
    <2> QED  BY <2>1, <2>2, Zenon
  <1>2. \A t \in Sector : (t \in Open <=> inode[t] # NULL) /\ (t \in Open' <=> inode'[t] # NULL)
    BY Zenon DEF Open
  <1>3. ASSUME NEW g \in Handle, file'[g] # NULL  PROVE file'[g].inode \in Open'
    <2>1. CASE file'[g].inode = s
      <3>1. g \in Files(s)'
        BY <1>3, <2>1, Zenon DEF Files
      <3> QED  BY <1>2, <2>1, <3>1, Zenon
    <2>2. CASE file'[g].inode # s
      <3>1. g \in Files(file'[g].inode)
        <4> PICK t : t = file'[g].inode
          BY Zenon
        <4>1. g \in Files(t)'
          BY <1>3, Zenon DEF Files
        <4> QED  BY <1>1, <2>2, <4>1, Zenon
      <3>2. file[g] # NULL /\ file[g].inode = file'[g].inode
        BY <3>1, Zenon DEF Files
      <3>3. file[g].inode \in Open /\ file[g].inode \in Sector
        BY <3>2, DiskTypes, Zenon DEF InodeInv
      <3> QED  BY <1>2, <2>2, <3>2, <3>3, Zenon
    <2> QED  BY <2>1, <2>2, Zenon
  <1>4. ASSUME NEW t \in Open'  PROVE inode'[t].data = inode_at[t] /\ Counted(t)'
    <2>1. t \in Sector
      BY Zenon DEF Open
    <2>2. CASE t = s
      BY <1>2, <2>1, <2>2, Zenon
    <2>3. CASE t # s
      <3>1. t \in Open /\ inode'[t] = inode[t]
        BY <1>2, <2>1, <2>3, Zenon
      <3> QED  BY <1>1, <2>3, <3>1, OtherCounted, Zenon DEF InodeInv
    <2> QED  BY <2>2, <2>3, Zenon
  <1> QED  BY <1>3, <1>4, Zenon DEF InodeInv

LEMMA SameLive ==
  ASSUME NEW s \in Sector, \A t \in Sector \ {s} : inode'[t] = inode[t], entry' = entry,
         s \in OnDisk \/ (s \in Open /\ inode'[s] # NULL)
  PROVE  Live' = Live
  BY Zenon DEF Live, Open, OnDisk

-----------------------------------------------------------------------------
(* The operations keep the invariant. *)

LEMMA OpenedType ==
  ASSUME NEW x \in Extent
  PROVE  /\ Opened(x) \in Inode /\ Opened(x).open_cnt = 1 /\ Opened(x).removed = FALSE
         /\ Opened(x).deny_write_cnt = 0 /\ Opened(x).data = x
  <1>1. 1 \in Nat /\ 0 \in Nat
    BY Zenon
  <1> QED  BY <1>1, Zenon DEF Opened, Inode

LEMMA OpenStep ==
  ASSUME FilesysInv, NEW h \in Handle, NEW name \in Name, FilesysOpen(h, name)
  PROVE  FilesysInv'
  <1> USE DEF FilesysInv
  <1>1. PICK i \in Lookup(name) :
          /\ inode' = inode_open(entry[i].inode_sector)
          /\ file' = [file EXCEPT ![h] = [inode |-> entry[i].inode_sector, deny_write |-> FALSE]]
    BY Zenon DEF FilesysOpen
  <1> PICK s : s = entry[i].inode_sector
    BY Zenon
  <1> DEFINE f == [inode |-> s, deny_write |-> FALSE]
  <1>2. /\ i \in Slot /\ entry[i] # NULL /\ file[h] = NULL
        /\ UNCHANGED <<free_map, map_file, inode_at, entry, lost>>
    BY Zenon DEF Lookup, FilesysOpen
  <1>3. /\ s \in Sector /\ s \in OnDisk /\ s \in Live /\ s # FREE_MAP_SECTOR
        /\ inode_at[s] \in Extent /\ f \in File /\ f # NULL /\ f.inode = s /\ f.deny_write = FALSE
    <2>1. entry[i] \in Entry
      BY <1>2, DiskTypes, Zenon
    <2>2. s \in Sector /\ s \in OnDisk /\ s # FREE_MAP_SECTOR
      BY <1>2, <2>1, Zenon DEF Entry, OnDisk, SectorInv, EntriesOK
    <2>3. f \in File
      BY <2>2, Zenon DEF File
    <2>4. f # NULL
      BY <2>3, DiskTypes, Zenon
    <2> QED  BY <2>2, <2>3, <2>4, Zenon DEF Live, SectorInv, ExtentsOK
  <1>4. /\ \A t \in Sector \ {s} : inode'[t] = inode[t]
        /\ inode[s] = NULL => inode'[s] = Opened(inode_at[s])
        /\ inode[s] # NULL => inode'[s] = [inode[s] EXCEPT !.open_cnt = @ + 1]
    BY <1>1, <1>3, Zenon DEF inode_open, Types
  <1>5. inode \in [Sector -> Inode \cup {NULL}] /\ (inode[s] # NULL => inode[s] \in Inode)
    BY <1>3, Zenon DEF Types
  <1>6. inode'[s] \in Inode
    <2>1. CASE inode[s] = NULL
      BY <1>3, <1>4, <2>1, OpenedType, Zenon
    <2>2. CASE inode[s] # NULL
      BY <1>4, <1>5, <2>2 DEF Inode, Types
    <2> QED  BY <2>1, <2>2, Zenon
  <1>7. Types'
    <2>1. inode' \in [Sector -> Inode \cup {NULL}]
      BY <1>1, <1>3, <1>4, <1>6, Zenon DEF inode_open, Types
    <2>2. file' \in [Handle -> File \cup {NULL}]
      BY <1>1, <1>3, Zenon DEF Types
    <2> QED  BY <1>2, <2>1, <2>2, Zenon DEF Types
  <1>8. inode'[s] # NULL
    BY <1>6, DiskTypes, Zenon
  <1>9. SectorInv'
    <2>1. Live' = Live
      BY <1>2, <1>3, <1>4, SameLive, Zenon
    <2> QED  BY <1>2, <2>1, SameSectors, Zenon
  <1>10. Files(s)' = Files(s) \cup {h} /\ Deniers(s)' = Deniers(s) \ {h} /\ h \notin Files(s)
    <2>1. file' = [file EXCEPT ![h] = f]
      BY <1>1, Zenon
    <2> HIDE DEF f
    <2>2. Files(s)' = Files(s) \cup {h} /\ Deniers(s)' = Deniers(s) \ {h}
      BY <1>2, <1>3, <2>1, FileChange, Zenon
    <2> QED  BY <1>2, <2>2, Zenon DEF Files
  <1> HIDE DEF f
  <1>11. /\ Cardinality(Files(s)') = Cardinality(Files(s)) + 1
         /\ Deniers(s)' = Deniers(s) /\ OnDisk' = OnDisk
    <2>1. Cardinality(Files(s) \cup {h}) = Cardinality(Files(s)) + 1
      BY <1>10, FilesFinite, FS_AddElement, Zenon
    <2>2. Deniers(s) \subseteq Files(s)
      BY Zenon DEF Deniers
    <2> QED  BY <1>2, <1>10, <2>1, <2>2, Zenon DEF OnDisk
  <1>12. inode'[s].data = inode_at[s] /\ Counted(s)'
    <2>1. CASE inode[s] = NULL
      <3>1. Files(s) = {}
        BY <1>3, <2>1, DiskTypes, Zenon DEF InodeInv, Files
      <3>2. Cardinality(Files(s)) = 0 /\ Cardinality(Deniers(s)) = 0
        BY <3>1, FS_EmptySet, Zenon DEF Deniers
      <3>3. /\ inode'[s].open_cnt = 1 /\ inode'[s].removed = FALSE
            /\ inode'[s].deny_write_cnt = 0 /\ inode'[s].data = inode_at[s]
        BY <1>3, <1>4, <2>1, OpenedType, Zenon
      <3>4. inode'[s].removed = (s \notin OnDisk')
        BY <1>3, <1>11, <3>3, Zenon
      <3> QED  BY <1>3, <1>11, <3>2, <3>3, <3>4 DEF Counted, Own
    <2>2. CASE inode[s] # NULL
      <3>1. Counted(s) /\ inode[s].data = inode_at[s] /\ inode[s] \in Inode
        BY <1>3, <1>5, <2>2, DiskTypes, Zenon DEF InodeInv
      <3>2. /\ inode'[s].open_cnt = inode[s].open_cnt + 1 /\ inode'[s].data = inode[s].data
            /\ inode'[s].removed = inode[s].removed
            /\ inode'[s].deny_write_cnt = inode[s].deny_write_cnt
        BY <1>4, <2>2, <3>1, Zenon DEF Inode
      <3> QED  BY <1>3, <1>11, <3>1, <3>2, FilesFinite DEF Counted, Own
    <2> QED  BY <2>1, <2>2, Zenon
  <1>13. InodeInv'
    BY <1>1, <1>2, <1>3, <1>4, <1>7, <1>8, <1>12, InodeChange, Zenon DEF f
  <1> QED  BY <1>7, <1>9, <1>13, Zenon

\* The steps that change one open inode and one file that refers to it.
LEMMA OpenFileStep ==
  ASSUME FilesysInv, NEW h \in Handle, NEW s \in Open, NEW f \in File, f.inode = s,
         file[h] # NULL => file[h].inode = s, file' = [file EXCEPT ![h] = f],
         NEW x \in Inode, inode' = [inode EXCEPT ![s] = x],
         x.data = inode[s].data, x.removed = inode[s].removed,
         x.open_cnt = Cardinality(Files(s) \cup {h}) + Own(s),
         x.deny_write_cnt = Cardinality(IF f.deny_write THEN Deniers(s) \cup {h} ELSE Deniers(s) \ {h}),
         UNCHANGED <<free_map, map_file, inode_at, entry, lost>>
  PROVE  FilesysInv'
  <1> USE DEF FilesysInv
  <1>1. s \in Sector /\ f # NULL /\ x # NULL /\ inode[s] # NULL
    BY DiskTypes, Zenon DEF Open
  <1>2. inode'[s] = x /\ \A t \in Sector \ {s} : inode'[t] = inode[t]
    BY <1>1, Zenon DEF Types
  <1>3. Types'
    BY <1>1, Zenon DEF Types
  <1>4. Live' = Live
    BY <1>1, <1>2, SameLive, Zenon
  <1>5. SectorInv'
    BY <1>4, SameSectors, Zenon
  <1>6. /\ Files(s)' = Files(s) \cup {h}
        /\ Deniers(s)' = IF f.deny_write THEN Deniers(s) \cup {h} ELSE Deniers(s) \ {h}
    BY <1>1, FileChange, ZenonT(30)
  <1>7. OnDisk' = OnDisk
    BY Zenon DEF OnDisk
  <1>8. x.open_cnt > 0
    <2>1. h \in Files(s) \cup {h} /\ IsFiniteSet(Files(s) \cup {h})
      BY FilesFinite, FS_AddElement, Zenon
    <2>2. Cardinality(Files(s) \cup {h}) \in Nat /\ Cardinality(Files(s) \cup {h}) # 0
      BY <2>1, FS_CardinalityType, FS_EmptySet, Zenon
    <2> QED  BY <2>2 DEF Own
  <1>9. inode'[s].data = inode_at[s] /\ Counted(s)'
    BY <1>2, <1>6, <1>7, <1>8, Zenon DEF Counted, Own, InodeInv
  <1>10. InodeInv'
    BY <1>1, <1>2, <1>3, <1>9, InodeChange, Zenon
  <1> QED  BY <1>3, <1>5, <1>10, Zenon

\* What an open file says of its inode.
LEMMA FileInode ==
  ASSUME FilesysInv, NEW h \in Handle, file[h] # NULL, NEW s, s = file[h].inode
  PROVE  /\ s \in Open /\ s \in Sector /\ inode[s] \in Inode /\ file[h] \in File
         /\ Counted(s) /\ h \in Files(s) /\ inode[s].data = inode_at[s]
         /\ inode[s] # NULL
  <1>1. s \in Open /\ s \in Sector /\ inode[s] \in Inode /\ file[h] \in File /\ inode[s] # NULL
    BY DiskTypes, Zenon DEF FilesysInv, InodeInv
  <1> QED  BY <1>1, Zenon DEF FilesysInv, InodeInv, Files

LEMMA ReopenStep ==
  ASSUME FilesysInv, NEW h \in Handle, NEW g \in Handle, FileReopen(h, g)
  PROVE  FilesysInv'
  <1> PICK s : s = file[h].inode
    BY Zenon
  <1>1. /\ s \in Open /\ s \in Sector /\ inode[s] \in Inode /\ Counted(s)
    BY FileInode, Zenon DEF FileReopen
  <1> DEFINE f == [inode |-> s, deny_write |-> FALSE]
             x == [inode[s] EXCEPT !.open_cnt = @ + 1]
  <1>2. f \in File /\ f.inode = s /\ f.deny_write = FALSE
    BY <1>1, Zenon DEF File
  <1>3. /\ x \in Inode /\ x.data = inode[s].data /\ x.removed = inode[s].removed
        /\ x.open_cnt = inode[s].open_cnt + 1 /\ x.deny_write_cnt = inode[s].deny_write_cnt
    BY <1>1 DEF Inode
  <1>4. /\ file[g] = NULL /\ file' = [file EXCEPT ![g] = f] /\ inode' = [inode EXCEPT ![s] = x]
        /\ UNCHANGED <<free_map, map_file, inode_at, entry, lost>>
    BY Zenon DEF FileReopen
  <1> HIDE DEF f, x
  <1>5. g \notin Files(s) /\ Deniers(s) \ {g} = Deniers(s)
    BY <1>4, Zenon DEF Files, Deniers
  <1>6. Cardinality(Files(s) \cup {g}) = Cardinality(Files(s)) + 1
    BY <1>5, FilesFinite, FS_AddElement, Zenon
  <1>7. /\ x.open_cnt = Cardinality(Files(s) \cup {g}) + Own(s)
        /\ x.deny_write_cnt = Cardinality(Deniers(s) \ {g})
    <2>1. /\ inode[s].open_cnt = Cardinality(Files(s)) + Own(s)
          /\ inode[s].deny_write_cnt = Cardinality(Deniers(s))
      BY <1>1, Zenon DEF Counted
    <2>2. Cardinality(Files(s)) \in Nat /\ Own(s) \in Nat
      BY FilesFinite, Zenon DEF Own
    <2>3. x.open_cnt = Cardinality(Files(s)) + 1 + Own(s)
      BY <1>3, <2>1, <2>2
    <2> QED  BY <1>3, <1>5, <1>6, <2>1, <2>3, Zenon
  <1> QED  BY <1>1, <1>2, <1>3, <1>4, <1>7, OpenFileStep, Zenon

LEMMA DenyStep ==
  ASSUME FilesysInv, NEW h \in Handle, FileDenyWrite(h) \/ FileAllowWrite(h)
  PROVE  FilesysInv'
  <1> PICK s : s = file[h].inode
    BY Zenon
  <1>1. file[h] # NULL /\ UNCHANGED <<free_map, map_file, inode_at, entry, lost>>
    BY Zenon DEF FileDenyWrite, FileAllowWrite
  <1>2. /\ s \in Open /\ s \in Sector /\ inode[s] \in Inode /\ file[h] \in File /\ Counted(s)
        /\ h \in Files(s)
    BY <1>1, FileInode, Zenon
  <1>3. Files(s) \cup {h} = Files(s)
    BY <1>2, Zenon
  <1>4. CASE FileDenyWrite(h)
    <2> DEFINE f == [file[h] EXCEPT !.deny_write = TRUE]
               x == [inode[s] EXCEPT !.deny_write_cnt = @ + 1]
    <2>1. f \in File /\ f.inode = s /\ f.deny_write = TRUE
      BY <1>2, Zenon DEF File
    <2>2. /\ x \in Inode /\ x.data = inode[s].data /\ x.removed = inode[s].removed
          /\ x.open_cnt = inode[s].open_cnt /\ x.deny_write_cnt = inode[s].deny_write_cnt + 1
      BY <1>2 DEF Inode
    <2>3. file' = [file EXCEPT ![h] = f] /\ inode' = [inode EXCEPT ![s] = x] /\ ~file[h].deny_write
      BY <1>4, Zenon DEF FileDenyWrite
    <2> HIDE DEF f, x
    <2>4. Cardinality(Deniers(s) \cup {h}) = Cardinality(Deniers(s)) + 1
      <3>1. h \notin Deniers(s)
        BY <2>3, Zenon DEF Deniers
      <3> QED  BY <3>1, FilesFinite, FS_AddElement, Zenon
    <2>5. /\ x.open_cnt = Cardinality(Files(s) \cup {h}) + Own(s)
          /\ x.deny_write_cnt = Cardinality(Deniers(s) \cup {h})
      BY <1>2, <1>3, <2>2, <2>4, Zenon DEF Counted
    <2> QED  BY <1>1, <1>2, <2>1, <2>2, <2>3, <2>5, OpenFileStep, Zenon
  <1>5. CASE FileAllowWrite(h)
    <2> DEFINE f == [file[h] EXCEPT !.deny_write = FALSE]
               x == [inode[s] EXCEPT !.deny_write_cnt = @ - 1]
    <2>1. f \in File /\ f.inode = s /\ f.deny_write = FALSE
      BY <1>2, Zenon DEF File
    <2>2. file' = [file EXCEPT ![h] = f] /\ inode' = [inode EXCEPT ![s] = x] /\ file[h].deny_write
      BY <1>5, Zenon DEF FileAllowWrite, allow_write
    <2>3. Cardinality(Deniers(s) \ {h}) = Cardinality(Deniers(s)) - 1
      <3>1. h \in Deniers(s)
        BY <1>2, <2>2, Zenon DEF Deniers
      <3> QED  BY <3>1, FilesFinite, FS_RemoveElement, Zenon
    <2>4. Cardinality(Deniers(s) \ {h}) \in Nat
      BY FilesFinite, FS_Subset, FS_CardinalityType, Zenon
    <2>5. inode[s].deny_write_cnt - 1 \in Nat
      BY <1>2, <2>3, <2>4, Zenon DEF Counted
    <2>6. /\ x \in Inode /\ x.data = inode[s].data /\ x.removed = inode[s].removed
          /\ x.open_cnt = inode[s].open_cnt /\ x.deny_write_cnt = inode[s].deny_write_cnt - 1
      BY <1>2, <2>5, Zenon DEF Inode
    <2> HIDE DEF f, x
    <2>7. /\ x.open_cnt = Cardinality(Files(s) \cup {h}) + Own(s)
          /\ x.deny_write_cnt = Cardinality(Deniers(s) \ {h})
      BY <1>2, <1>3, <2>3, <2>6, Zenon DEF Counted
    <2> QED  BY <1>1, <1>2, <2>1, <2>2, <2>6, <2>7, OpenFileStep, Zenon
  <1> QED  BY <1>4, <1>5, Zenon

\* file_close, in two parts: the inode as file_allow_write leaves it, and
\* inode_close.
LEMMA CloseStep ==
  ASSUME FilesysInv, NEW h \in Handle, FileClose(h)
  PROVE  FilesysInv'
  <1> USE DEF FilesysInv
  <1> PICK s : s = file[h].inode
    BY Zenon
  <1>1. /\ file[h] # NULL /\ inode_close(allow_write(h), s) /\ file' = [file EXCEPT ![h] = NULL]
        /\ UNCHANGED <<inode_at, entry, lost>>
    BY Zenon DEF FileClose
  <1>2. /\ s \in Open /\ s \in Sector /\ inode[s] \in Inode /\ file[h] \in File /\ Counted(s)
        /\ h \in Files(s) /\ inode[s].data = inode_at[s] /\ inode[s] # NULL
    BY <1>1, FileInode, Zenon
  <1>3. Cardinality(Files(s) \ {h}) = Cardinality(Files(s)) - 1 /\ Cardinality(Files(s) \ {h}) \in Nat
    <2>1. IsFiniteSet(Files(s) \ {h})
      BY FilesFinite, FS_Subset, Zenon
    <2> QED  BY <1>2, <2>1, FilesFinite, FS_RemoveElement, FS_CardinalityType, Zenon
  <1>4. PICK x \in Inode :
          /\ allow_write(h) = [inode EXCEPT ![s] = x]
          /\ x.open_cnt = inode[s].open_cnt /\ x.removed = inode[s].removed /\ x.data = inode[s].data
          /\ x.deny_write_cnt = Cardinality(Deniers(s) \ {h})
    <2>1. CASE ~file[h].deny_write
      <3>1. Deniers(s) \ {h} = Deniers(s)
        BY <2>1, Zenon DEF Deniers
      <3>2. allow_write(h) = [inode EXCEPT ![s] = inode[s]]
        BY <2>1, Zenon DEF allow_write, Types
      <3> QED  BY <1>2, <3>1, <3>2, Zenon DEF Counted
    <2>2. CASE file[h].deny_write
      <3>1. Cardinality(Deniers(s) \ {h}) = Cardinality(Deniers(s)) - 1
        <4>1. h \in Deniers(s)
          BY <1>2, <2>2, Zenon DEF Deniers
        <4> QED  BY <4>1, FilesFinite, FS_RemoveElement, Zenon
      <3>2. Cardinality(Deniers(s) \ {h}) \in Nat
        BY FilesFinite, FS_Subset, FS_CardinalityType, Zenon
      <3>3. inode[s].deny_write_cnt - 1 = Cardinality(Deniers(s) \ {h})
        BY <1>2, <3>1, <3>2, Zenon DEF Counted
      <3> DEFINE x == [inode[s] EXCEPT !.deny_write_cnt = @ - 1]
      <3>4. /\ x \in Inode /\ x.data = inode[s].data /\ x.removed = inode[s].removed
            /\ x.open_cnt = inode[s].open_cnt /\ x.deny_write_cnt = inode[s].deny_write_cnt - 1
        BY <1>2, <3>2, <3>3, Zenon DEF Inode
      <3>5. allow_write(h) = [inode EXCEPT ![s] = x]
        BY <2>2, Zenon DEF allow_write
      <3> QED  BY <3>3, <3>4, <3>5, Zenon
    <2> QED  BY <2>1, <2>2, Zenon
  <1> DEFINE i == allow_write(h)
  <1>5. i[s] = x /\ i \in [Sector -> Inode \cup {NULL}] /\ \A t \in Sector \ {s} : i[t] = inode[t]
    BY <1>2, <1>4, Zenon DEF Types
  <1>6. /\ inode' = closed(i, s) /\ free_map' = free_map \ released(i, s)
        /\ (map_file \cap free_map) \ released(i, s) \subseteq map_file'
        /\ map_file' \subseteq map_file \cup free_map
        /\ released(i, s) = {} => map_file' = map_file
    BY <1>1, CloseMaps, Zenon
  <1> HIDE DEF i
  <1>7. inode' = [i EXCEPT ![s] = IF x.open_cnt = 1 THEN NULL ELSE [x EXCEPT !.open_cnt = @ - 1]]
    BY <1>5, <1>6, Zenon DEF closed
  <1>8. /\ x.open_cnt \in Nat /\ x.open_cnt > 0 /\ x.open_cnt = Cardinality(Files(s)) + Own(s)
        /\ Own(s) \in Nat /\ x.removed = (s \notin OnDisk) /\ x.data = inode_at[s]
    BY <1>2, <1>4, Zenon DEF Inode, Counted, Own
  <1>9. /\ \A t \in Sector \ {s} : inode'[t] = inode[t]
        /\ x.open_cnt = 1 => inode'[s] = NULL
        /\ x.open_cnt # 1 => /\ inode'[s] \in Inode /\ inode'[s].data = x.data
                             /\ inode'[s].removed = x.removed
                             /\ inode'[s].deny_write_cnt = x.deny_write_cnt
                             /\ inode'[s].open_cnt = x.open_cnt - 1
    BY <1>2, <1>5, <1>7, <1>8 DEF Inode
  <1>10. Types'
    <2>1. inode' \in [Sector -> Inode \cup {NULL}]
      BY <1>2, <1>5, <1>7, <1>9, Zenon
    <2>2. file' \in [Handle -> File \cup {NULL}]
      BY <1>1, Zenon DEF Types
    <2> QED  BY <1>1, <1>6, <2>1, <2>2, Zenon DEF Types
  <1>11. OnDisk' = OnDisk
    BY <1>1, Zenon DEF OnDisk
  <1>12. /\ Files(s)' = Files(s) \ {h} /\ Deniers(s)' = Deniers(s) \ {h}
    BY <1>1, FileChange, Zenon
  <1>13. InodeInv'
    <2>1. CASE x.open_cnt = 1
      <3>1. Cardinality(Files(s) \ {h}) = 0
        BY <1>3, <1>8, <2>1, FilesFinite
      <3>2. Files(s)' = {}
        BY <1>12, <3>1, FilesFinite, FS_Subset, FS_EmptySet
      <3> QED  BY <1>1, <1>2, <1>9, <1>10, <2>1, <3>2, InodeChange, Zenon
    <2>2. CASE x.open_cnt # 1
      <3>1. /\ inode'[s].open_cnt = Cardinality(Files(s)') + Own(s) /\ inode'[s].open_cnt > 0
        <4>1. inode'[s].open_cnt = x.open_cnt - 1 /\ x.open_cnt > 1
          BY <1>8, <1>9, <2>2
        <4>2. Cardinality(Files(s)') = Cardinality(Files(s)) - 1
          BY <1>3, <1>12, Zenon
        <4> QED  BY <1>8, <4>1, <4>2, FilesFinite
      <3>2. inode'[s].deny_write_cnt = Cardinality(Deniers(s)')
        BY <1>4, <1>9, <1>12, <2>2, Zenon
      <3>3. inode'[s].removed = (s \notin OnDisk')
        BY <1>8, <1>9, <1>11, <2>2, Zenon
      <3>4. Counted(s)' /\ inode'[s].data = inode_at[s] /\ inode'[s] # NULL
        BY <1>8, <1>9, <2>2, <3>1, <3>2, <3>3, DiskTypes, Zenon DEF Counted, Own
      <3> QED  BY <1>1, <1>2, <1>9, <1>10, <3>4, InodeChange, Zenon
    <2> QED  BY <2>1, <2>2, Zenon
  <1>14. SectorInv'
    <2>1. CASE released(i, s) = {}
      <3>1. s \in OnDisk \/ inode'[s] # NULL
        <4>1. ~(x.open_cnt = 1 /\ x.removed)
          BY <1>5, <2>1, Zenon DEF released
        <4> QED  BY <1>8, <1>9, <4>1, DiskTypes, Zenon
      <3>2. Live' = Live
        BY <1>1, <1>2, <1>9, <3>1, SameLive, Zenon
      <3>3. free_map' = free_map /\ map_file' = map_file
        BY <1>6, <2>1, Zenon
      <3> QED  BY <1>1, <3>2, <3>3, SameSectors, Zenon
    <2>2. CASE released(i, s) # {}
      <3>1. x.open_cnt = 1 /\ x.removed /\ released(i, s) = Space(s)
        BY <1>5, <1>8, <2>2, Zenon DEF released, Space, Sectors
      <3>2. s \notin OnDisk /\ inode'[s] = NULL /\ s \in Live
        BY <1>2, <1>8, <1>9, <3>1, Zenon DEF Live
      <3>3. Open' = Open \ {s}
        BY <1>9, <3>2, Zenon DEF Open
      <3>4. Live' = Live \ {s} /\ OnDisk' = OnDisk \ {s}
        BY <1>11, <3>2, <3>3, Zenon DEF Live
      <3>5. EntriesOK'
        BY <1>1, Zenon DEF SectorInv, EntriesOK
      <3> QED  BY <1>1, <1>6, <3>1, <3>2, <3>4, <3>5, ReleasedSectors, Zenon
    <2> QED  BY <2>1, <2>2, Zenon
  <1> QED  BY <1>10, <1>13, <1>14, Zenon

LEMMA RemoveStep ==
  ASSUME FilesysInv, NEW name \in Name, FilesysRemove(name)
  PROVE  FilesysInv'
  <1> USE DEF FilesysInv
  <1>1. PICK i \in Lookup(name) :
          /\ entry' = [entry EXCEPT ![i] = NULL]
          /\ inode_close([inode_open(entry[i].inode_sector) EXCEPT ![entry[i].inode_sector].removed = TRUE],
                         entry[i].inode_sector)
    BY Zenon DEF FilesysRemove
  <1> PICK s : s = entry[i].inode_sector
    BY Zenon
  <1> DEFINE l == [inode_open(s) EXCEPT ![s].removed = TRUE]
  <1>2. i \in Slot /\ entry[i] # NULL /\ UNCHANGED <<inode_at, file, lost>>
    BY Zenon DEF Lookup, FilesysRemove
  <1>3. /\ s \in Sector /\ s \in OnDisk /\ s \in Live /\ s \notin {FREE_MAP_SECTOR, ROOT_DIR_SECTOR}
        /\ inode_at[s] \in Extent
    <2>1. entry[i] \in Entry
      BY <1>2, DiskTypes, Zenon
    <2>2. s \in Sector /\ s \in OnDisk /\ s \notin {FREE_MAP_SECTOR, ROOT_DIR_SECTOR}
      BY <1>2, <2>1, Zenon DEF Entry, OnDisk, SectorInv, EntriesOK
    <2> QED  BY <2>2, Zenon DEF Live, SectorInv, ExtentsOK
  <1>4. /\ entry'[i] = NULL /\ \A j \in Slot \ {i} : entry'[j] = entry[j]
        /\ entry' \in [Slot -> Entry \cup {NULL}]
    BY <1>1, <1>2, Zenon DEF Types
  <1>5. OnDisk' = OnDisk \ {s} /\ EntriesOK'
    <2>1. \A j \in Slot \ {i} : entry[j] # NULL => entry[j].inode_sector # s
      BY <1>2, Zenon DEF SectorInv, EntriesOK
    <2>2. OnDisk' = OnDisk \ {s}
      BY <1>2, <1>3, <1>4, <2>1 DEF OnDisk
    <2>3. EntriesOK'
      BY <1>4, Zenon DEF SectorInv, EntriesOK
    <2> QED  BY <2>2, <2>3, Zenon
  <1>6. PICK x \in Inode :
          /\ l = [inode EXCEPT ![s] = x]
          /\ x.removed = TRUE /\ x.data = inode_at[s]
          /\ inode[s] = NULL => x.open_cnt = 1
          /\ inode[s] # NULL => /\ x.open_cnt = inode[s].open_cnt + 1
                                /\ x.deny_write_cnt = inode[s].deny_write_cnt
    <2>1. CASE inode[s] = NULL
      <3> DEFINE x == [Opened(inode_at[s]) EXCEPT !.removed = TRUE]
      <3>1. Opened(inode_at[s]) \in Inode /\ Opened(inode_at[s]).open_cnt = 1
            /\ Opened(inode_at[s]).data = inode_at[s]
        BY <1>3, OpenedType, Zenon
      <3>2. x \in Inode /\ x.removed = TRUE /\ x.data = inode_at[s] /\ x.open_cnt = 1
        BY <3>1, Zenon DEF Inode
      <3>3. l = [inode EXCEPT ![s] = x]
        BY <1>3, <2>1, Zenon DEF inode_open, Types
      <3> QED  BY <2>1, <3>2, <3>3, Zenon
    <2>2. CASE inode[s] # NULL
      <3> DEFINE y == [inode[s] EXCEPT !.open_cnt = @ + 1]
                 x == [y EXCEPT !.removed = TRUE]
      <3>1. inode[s] \in Inode /\ inode[s].data = inode_at[s]
        BY <1>3, <2>2, DiskTypes, Zenon DEF InodeInv
      <3>2. /\ y \in Inode /\ y.open_cnt = inode[s].open_cnt + 1 /\ y.data = inode[s].data
            /\ y.deny_write_cnt = inode[s].deny_write_cnt
        BY <3>1 DEF Inode
      <3>3. inode_open(s) = [inode EXCEPT ![s] = y]
        BY <1>3, <2>2, Zenon DEF inode_open, Types
      <3> HIDE DEF y
      <3>4. /\ x \in Inode /\ x.removed = TRUE /\ x.open_cnt = y.open_cnt /\ x.data = y.data
            /\ x.deny_write_cnt = y.deny_write_cnt
        BY <3>2, Zenon DEF Inode
      <3>5. l = [inode EXCEPT ![s] = x]
        BY <1>3, <3>3, Zenon DEF Types
      <3> QED  BY <2>2, <3>1, <3>2, <3>4, <3>5, Zenon
    <2> QED  BY <2>1, <2>2, Zenon
  <1>7. /\ inode' = closed(l, s) /\ free_map' = free_map \ released(l, s)
        /\ (map_file \cap free_map) \ released(l, s) \subseteq map_file'
        /\ map_file' \subseteq map_file \cup free_map
        /\ released(l, s) = {} => map_file' = map_file
    BY <1>1, CloseMaps, Zenon
  <1>8. l[s] = x /\ l \in [Sector -> Inode \cup {NULL}] /\ \A t \in Sector \ {s} : l[t] = inode[t]
    <2>1. inode \in [Sector -> Inode \cup {NULL}] /\ s \in Sector
      BY <1>3, Zenon DEF FilesysInv, Types
    <2>2. l = [inode EXCEPT ![s] = x]
      BY <1>6, Zenon
    <2> HIDE DEF l
    <2> QED  BY <2>1, <2>2, Zenon
  <1> HIDE DEF l
  <1>9. inode' = [l EXCEPT ![s] = IF x.open_cnt = 1 THEN NULL ELSE [x EXCEPT !.open_cnt = @ - 1]]
    BY <1>7, <1>8, Zenon DEF closed
  <1>10. released(l, s) = IF x.open_cnt = 1 THEN Space(s) ELSE {}
    <2>1. released(l, s) = IF x.open_cnt = 1 /\ x.removed
                             THEN {s} \cup Run(x.data.start, x.data.length) ELSE {}
      BY <1>8, Zenon DEF released
    <2>2. {s} \cup Run(x.data.start, x.data.length) = Space(s)
      BY <1>6, Zenon DEF Space, Sectors
    <2> QED  BY <1>6, <2>1, <2>2, Zenon
  <1>11. x.open_cnt = 1 <=> inode[s] = NULL
    <2>1. inode[s] # NULL => inode[s].open_cnt > 0 /\ inode[s].open_cnt \in Nat
      BY <1>3, DiskTypes, Zenon DEF InodeInv, Counted, Inode
    <2> QED  BY <1>6, <2>1
  <1>12. /\ \A t \in Sector \ {s} : inode'[t] = inode[t]
         /\ inode[s] = NULL => inode'[s] = NULL
         /\ inode[s] # NULL => /\ inode'[s] \in Inode /\ inode'[s].data = inode_at[s]
                               /\ inode'[s].removed = TRUE
                               /\ inode'[s].deny_write_cnt = inode[s].deny_write_cnt
                               /\ inode'[s].open_cnt = inode[s].open_cnt
    <2>1. CASE inode[s] = NULL
      BY <1>3, <1>8, <1>9, <1>11, <2>1, Zenon
    <2>2. CASE inode[s] # NULL
      <3>1. inode'[s] = [x EXCEPT !.open_cnt = @ - 1]
        BY <1>3, <1>8, <1>9, <1>11, <2>2, Zenon
      <3>2. inode[s].open_cnt \in Nat
        BY <1>3, <2>2, DiskTypes, Zenon DEF Inode
      <3> QED  BY <1>3, <1>6, <1>8, <1>9, <2>2, <3>1, <3>2 DEF Inode
    <2> QED  BY <2>1, <2>2, Zenon
  <1>13. Types'
    <2>1. inode' \in [Sector -> Inode \cup {NULL}]
      BY <1>3, <1>8, <1>9, <1>12, Zenon
    <2> QED  BY <1>2, <1>4, <1>7, <2>1, Zenon DEF Types
  <1>14. \A t \in Sector : t \in Open' <=> t \in Open
    <2>1. inode'[s] # NULL <=> inode[s] # NULL
      BY <1>12, DiskTypes, Zenon
    <2> QED  BY <1>12, <2>1, Zenon DEF Open
  <1>15. InodeInv'
    <2>1. \A t : Files(t)' = Files(t) /\ Deniers(t)' = Deniers(t)
      BY <1>2, Zenon DEF Files, Deniers
    <2>2. ASSUME NEW t \in Open'  PROVE inode'[t].data = inode_at[t] /\ Counted(t)'
      <3>1. t \in Open /\ t \in Sector
        BY <1>14, Zenon DEF Open
      <3>2. Counted(t) /\ inode[t].data = inode_at[t]
        BY <3>1, Zenon DEF InodeInv
      <3>3. CASE t # s
        <4>1. inode'[t] = inode[t] /\ (t \in OnDisk' <=> t \in OnDisk)
          BY <1>5, <1>12, <3>1, <3>3, Zenon
        <4> QED  BY <2>1, <3>2, <4>1, OtherCounted, Zenon
      <3>4. CASE t = s
        <4>1. inode[s] # NULL
          BY <3>1, <3>4, Zenon DEF Open
        <4>2. t \notin OnDisk'
          BY <1>5, <3>4, Zenon
        <4>3. inode'[t].removed = (t \notin OnDisk')
          BY <1>12, <3>4, <4>1, <4>2, Zenon
        <4> QED  BY <1>12, <2>1, <3>2, <3>4, <4>1, <4>3, Zenon DEF Counted
      <3> QED  BY <3>3, <3>4, Zenon
    <2>3. ASSUME NEW h \in Handle, file'[h] # NULL  PROVE file'[h].inode \in Open'
      BY <1>2, <1>14, <2>3, DiskTypes, Zenon DEF InodeInv
    <2> QED  BY <1>2, <2>2, <2>3, Zenon DEF InodeInv
  <1>16. SectorInv'
    <2>1. Open' = Open
      BY <1>14, Zenon DEF Open
    <2>2. CASE inode[s] = NULL
      <3>1. s \notin Open
        BY <2>2, Zenon DEF Open
      <3>2. Live' = Live \ {s}
        BY <1>5, <2>1, <3>1, Zenon DEF Live
      <3>3. released(l, s) = Space(s)
        BY <1>10, <1>11, <2>2, Zenon
      <3> QED  BY <1>2, <1>3, <1>5, <1>7, <3>2, <3>3, ReleasedSectors, Zenon
    <2>3. CASE inode[s] # NULL
      <3>1. s \in Open
        BY <1>3, <2>3, Zenon DEF Open
      <3>2. Live' = Live
        BY <1>5, <2>1, <3>1, Zenon DEF Live
      <3>3. free_map' = free_map /\ map_file' = map_file
        BY <1>7, <1>10, <1>11, <2>3, Zenon
      <3>4. \A t : Space(t)' = Space(t)
        BY <1>2, Zenon DEF Space
      <3>5. ExtentsOK' /\ Apart'
        BY <1>2, <3>2, <3>4, Zenon DEF SectorInv, ExtentsOK, Apart
      <3>6. Used' = Used
        BY <3>2, <3>4, Zenon DEF Used
      <3>7. Marked'
        BY <1>2, <1>5, <3>3, <3>4, <3>6, Zenon DEF SectorInv, Marked
      <3> QED  BY <1>5, <3>5, <3>7, Zenon DEF SectorInv
    <2> QED  BY <2>2, <2>3, Zenon
  <1> QED  BY <1>13, <1>15, <1>16, Zenon

\* filesys_create: it succeeds, dir_add fails, or there is no room for the data.
LEMMA CreateStep ==
  ASSUME FilesysInv, NEW name \in Name, NEW length \in 0 .. MaxLength, FilesysCreate(name, length)
  PROVE  FilesysInv'
  <1> USE DEF FilesysInv
  <1>1. length \in Nat
    BY FilesysAssumption
  <1>2. PICK a \in free_map_allocate(Map, 1) :
          /\ a.sector # NULL
          /\ \E b \in free_map_allocate(a, length) :
               \/ /\ b.sector # NULL
                  /\ inode_at' = [inode_at EXCEPT ![a.sector] = [start |-> b.sector, length |-> length]]
                  /\ dir_add(name, a.sector)
                  /\ Store(b)
                  /\ UNCHANGED lost
               \/ /\ b.sector # NULL
                  /\ inode_at' = [inode_at EXCEPT ![a.sector] = [start |-> b.sector, length |-> length]]
                  /\ lost' = lost \cup Run(b.sector, length)
                  /\ \E m \in free_map_release(b, {a.sector}) : Store(m)
                  /\ UNCHANGED entry
               \/ /\ b.sector = NULL
                  /\ \E m \in free_map_release(b, {a.sector}) : Store(m)
                  /\ UNCHANGED <<inode_at, entry, lost>>
          /\ UNCHANGED <<inode, file>>
    BY Zenon DEF FilesysCreate
  <1>3. PICK b \in free_map_allocate(a, length) :
               \/ /\ b.sector # NULL
                  /\ inode_at' = [inode_at EXCEPT ![a.sector] = [start |-> b.sector, length |-> length]]
                  /\ dir_add(name, a.sector)
                  /\ Store(b)
                  /\ UNCHANGED lost
               \/ /\ b.sector # NULL
                  /\ inode_at' = [inode_at EXCEPT ![a.sector] = [start |-> b.sector, length |-> length]]
                  /\ lost' = lost \cup Run(b.sector, length)
                  /\ \E m \in free_map_release(b, {a.sector}) : Store(m)
                  /\ UNCHANGED entry
               \/ /\ b.sector = NULL
                  /\ \E m \in free_map_release(b, {a.sector}) : Store(m)
                  /\ UNCHANGED <<inode_at, entry, lost>>
    BY <1>2, Zenon
  <1> DEFINE s == a.sector
             x == [start |-> b.sector, length |-> length]
             run == Run(b.sector, length)
  <1>4. /\ s \in Sector /\ s \notin free_map /\ a.map = free_map \cup {s} /\ a.file = a.map
    <2>1. /\ s \in Sector /\ Run(s, 1) \cap Map.map = {} /\ a.map = Map.map \cup Run(s, 1)
          /\ a.file = a.map
      BY <1>2, Allocated
    <2>2. Run(s, 1) = {s} /\ Map.map = free_map
      BY <2>1, FilesysAssumption DEF Run, Sector, Map
    <2> QED  BY <2>1, <2>2, Zenon
  <1>5. /\ b.sector = NULL => b.map = a.map /\ b.file = a.map
        /\ b.sector # NULL =>
             /\ x \in Extent /\ x.start + x.length <= SectorCnt /\ run \subseteq Sector
             /\ run \cap a.map = {} /\ b.map = a.map \cup run /\ b.file = b.map
             /\ Sectors(s, x) = {s} \cup run
    <2>1. CASE b.sector = NULL
      BY <1>1, <1>4, <2>1, Allocated
    <2>2. CASE b.sector # NULL
      <3>1. /\ b.sector \in Sector /\ b.sector + length <= SectorCnt
            /\ run \cap a.map = {} /\ b.map = a.map \cup run /\ b.file = b.map
        BY <1>1, <2>2, Allocated
      <3>2. length \in 0 .. SectorCnt
        BY <1>1, <3>1, FilesysAssumption DEF Sector
      <3>3. x \in Extent /\ x.start + x.length <= SectorCnt /\ Sectors(s, x) = {s} \cup run
        BY <3>1, <3>2, Zenon DEF Extent, Sectors
      <3>4. run \subseteq Sector
        BY <1>1, <3>1, RunInSector, Zenon
      <3> QED  BY <2>2, <3>1, <3>3, <3>4, Zenon
    <2> QED  BY <2>1, <2>2, Zenon
  <1> HIDE DEF s, x, run
  <1>6. s \notin Live /\ inode' = inode /\ file' = file /\ Open' = Open
    BY <1>2, <1>4, LiveMarked, Zenon DEF Open
  <1>7. ASSUME \A t \in Sector \ {s} : inode_at'[t] = inode_at[t],
               OnDisk' \subseteq OnDisk \cup {s}, OnDisk \subseteq OnDisk'
        PROVE  InodeInv'
    <2>1. \A t : Files(t)' = Files(t) /\ Deniers(t)' = Deniers(t)
      BY <1>6, Zenon DEF Files, Deniers
    <2>2. ASSUME NEW t \in Open  PROVE inode[t].data = inode_at'[t] /\ Counted(t)'
      <3>1. t \in Sector /\ t # s
        BY <1>6, DiskTypes, Zenon DEF Live
      <3>2. t \in OnDisk' <=> t \in OnDisk
        BY <1>7, <3>1, Zenon
      <3> QED  BY <1>6, <1>7, <2>1, <3>1, <3>2, OtherCounted, Zenon DEF InodeInv
    <2> QED  BY <1>6, <2>2, Zenon DEF InodeInv
  <1>8. CASE /\ b.sector # NULL /\ inode_at' = [inode_at EXCEPT ![s] = x]
             /\ dir_add(name, s) /\ Store(b) /\ UNCHANGED lost
    <2> DEFINE k == Min(FreeSlots)
               e == [name |-> name, inode_sector |-> s]
    <2>1. k \in Slot /\ entry[k] = NULL
      <3>1. FreeSlots # {} /\ FreeSlots \in SUBSET Nat
        BY <1>8, FilesysAssumption DEF dir_add, FreeSlots, Slot
      <3>2. k \in FreeSlots
        BY <3>1, MinIn, Zenon
      <3> QED  BY <3>2, Zenon DEF FreeSlots
    <2>2. e \in Entry /\ e.inode_sector = s
      BY <1>4, Zenon DEF Entry
    <2>3. entry' = [entry EXCEPT ![k] = e]
      BY <1>8, Zenon DEF dir_add
    <2> HIDE DEF k, e
    <2>4. /\ entry'[k] = e /\ \A j \in Slot \ {k} : entry'[j] = entry[j]
          /\ entry' \in [Slot -> Entry \cup {NULL}] /\ e # NULL
      BY <2>1, <2>2, <2>3, DiskTypes, Zenon DEF Types
    <2>5. OnDisk' = OnDisk \cup {s}
      BY <2>1, <2>2, <2>4 DEF OnDisk
    <2>6. EntriesOK'
      <3>1. s \notin {FREE_MAP_SECTOR, ROOT_DIR_SECTOR}
        BY <1>6, DiskTypes, Zenon DEF Live
      <3>2. \A j \in Slot : entry[j] # NULL => entry[j].inode_sector # s
        BY <1>6, Zenon DEF Live, OnDisk
      <3> QED  BY <2>1, <2>2, <2>4, <3>1, <3>2, Zenon DEF SectorInv, EntriesOK
    <2>7. free_map' = free_map \cup Sectors(s, x) /\ map_file' = free_map'
      BY <1>4, <1>5, <1>8, Zenon DEF Store
    <2>8. Sectors(s, x) \cap free_map = {} /\ Sectors(s, x) \subseteq Sector
      BY <1>4, <1>5, <1>8, Zenon
    <2>9. Live' = Live \cup {s}
      BY <1>6, <2>5, Zenon DEF Live
    <2>10. SectorInv'
      BY <1>4, <1>5, <1>8, <2>5, <2>6, <2>7, <2>8, <2>9, CreatedSectors, Zenon
    <2>11. /\ \A t \in Sector \ {s} : inode_at'[t] = inode_at[t]
           /\ inode_at' \in [Sector -> Extent \cup {NULL}]
      BY <1>4, <1>5, <1>8, Zenon DEF Types
    <2>12. Types'
      BY <1>6, <1>8, <2>4, <2>7, <2>8, <2>11, Zenon DEF Types
    <2> QED  BY <1>7, <2>5, <2>10, <2>11, <2>12, Zenon
  <1>9. CASE /\ b.sector # NULL /\ inode_at' = [inode_at EXCEPT ![s] = x]
             /\ lost' = lost \cup run
             /\ \E m \in free_map_release(b, {s}) : Store(m)
             /\ UNCHANGED entry
    <2>1. free_map' = b.map \ {s} /\ map_file' \in {b.map \ {s}, b.file}
      BY <1>9 DEF free_map_release, Store
    <2>2. /\ free_map' = free_map \cup run /\ free_map \subseteq map_file' /\ map_file' \subseteq Sector
          /\ run \cap free_map = {}
      BY <1>4, <1>5, <1>9, <2>1 DEF Types
    <2>3. Live' = Live /\ OnDisk' = OnDisk
      BY <1>6, <1>9, Zenon DEF Live, OnDisk
    <2>4. SectorInv'
      BY <1>4, <1>9, <2>2, <2>3, LostSectors, Zenon
    <2>5. /\ \A t \in Sector \ {s} : inode_at'[t] = inode_at[t]
          /\ inode_at' \in [Sector -> Extent \cup {NULL}]
      BY <1>4, <1>5, <1>9, Zenon DEF Types
    <2>6. Types'
      BY <1>5, <1>6, <1>9, <2>2, <2>5, Zenon DEF Types
    <2> QED  BY <1>7, <2>3, <2>4, <2>5, <2>6, Zenon
  <1>10. CASE /\ b.sector = NULL
              /\ \E m \in free_map_release(b, {s}) : Store(m)
              /\ UNCHANGED <<inode_at, entry, lost>>
    <2>1. free_map' = b.map \ {s} /\ map_file' \in {b.map \ {s}, b.file}
      BY <1>10 DEF free_map_release, Store
    <2>2. free_map' = free_map /\ free_map \subseteq map_file' /\ map_file' \subseteq Sector
      BY <1>4, <1>5, <1>10, <2>1 DEF Types
    <2>3. Live' = Live /\ OnDisk' = OnDisk
      BY <1>6, <1>10, Zenon DEF Live, OnDisk
    <2>4. SectorInv'
      <3>1. inode_at' = [inode_at EXCEPT ![s] = inode_at[s]] /\ lost' = lost \cup {}
            /\ free_map' = free_map \cup {}
        BY <1>10, <2>2, Zenon DEF Types
      <3> QED  BY <1>4, <1>10, <2>2, <2>3, <3>1, LostSectors, Zenon
    <2>5. Types'
      BY <1>6, <1>10, <2>2, Zenon DEF Types
    <2> QED  BY <1>7, <1>10, <2>3, <2>4, <2>5, Zenon
  <1> QED  BY <1>3, <1>8, <1>9, <1>10, Zenon DEF s, x, run

\* After a restart of either kind only the free map's own inode is open.
LEMMA RestartStep ==
  ASSUME FilesysInv, Restart
  PROVE  InodeInv' /\ inode' \in [Sector -> Inode \cup {NULL}]
  <1> USE DEF FilesysInv, Restart
  <1> PICK z : z = FREE_MAP_SECTOR
    BY Zenon
  <1>2. z \in OnDisk /\ z \in Sector /\ z \in Live /\ inode_at[z] \in Extent
    BY DiskTypes, Zenon DEF Live, SectorInv, ExtentsOK
  <1>3. /\ \A t \in Sector \ {z} : inode'[t] = NULL
        /\ inode'[z] = Opened(inode_at[z]) /\ \A h \in Handle : file'[h] = NULL
    BY <1>2, Zenon
  <1>4. /\ inode'[z] \in Inode /\ inode'[z].open_cnt = 1 /\ inode'[z].removed = FALSE
        /\ inode'[z].deny_write_cnt = 0 /\ inode'[z].data = inode_at[z]
    BY <1>2, <1>3, OpenedType, Zenon
  <1>5. inode' \in [Sector -> Inode \cup {NULL}]
    BY <1>3, <1>4, Zenon
  <1>6. Files(z)' = {} /\ Deniers(z)' = {} /\ OnDisk' = OnDisk
    BY <1>3, Zenon DEF Files, Deniers, OnDisk
  <1>7. inode'[z].removed = (z \notin OnDisk')
    BY <1>2, <1>4, <1>6, Zenon
  <1>8. Counted(z)'
    BY <1>4, <1>6, <1>7, FS_EmptySet DEF Counted, Own
  <1>9. Open' \subseteq {z}
    BY <1>3, Zenon DEF Open
  <1>10. InodeInv'
    BY <1>3, <1>4, <1>8, <1>9, Zenon DEF InodeInv
  <1> QED  BY <1>5, <1>10, Zenon

LEMMA RebootStep ==
  ASSUME FilesysInv, Reboot
  PROVE  FilesysInv'
  <1>1. SectorInv'
    BY RebootSectors, Zenon DEF FilesysInv
  <1>2. InodeInv' /\ inode' \in [Sector -> Inode \cup {NULL}]
    BY RestartStep, Zenon DEF Reboot
  <1>3. Types'
    BY <1>2, Zenon DEF FilesysInv, Types, Reboot, Restart
  <1> QED  BY <1>1, <1>2, <1>3, Zenon DEF FilesysInv

LEMMA UnwrittenStep ==
  ASSUME FilesysInv, RebootUnwritten
  PROVE  Types' /\ torn'
  <1>1. inode' \in [Sector -> Inode \cup {NULL}]
    BY RestartStep, Zenon DEF RebootUnwritten
  <1> QED  BY <1>1, Zenon DEF FilesysInv, Types, RebootUnwritten, Restart

\* An eviction changes nothing but dirty.
LEMMA SameStep ==
  ASSUME FilesysInv, UNCHANGED <<free_map, map_file, inode_at, entry, inode, file, lost>>
  PROVE  FilesysInv'
  <1>1. OnDisk' = OnDisk /\ Open' = Open
    BY Zenon DEF OnDisk, Open
  <1>2. Live' = Live
    BY <1>1, Zenon DEF Live
  <1>3. \A s : Space(s)' = Space(s)
    BY Zenon DEF Space
  <1>4. Used' = Used
    BY <1>2, <1>3, Zenon DEF Used
  <1>5. Types'
    BY Zenon DEF FilesysInv, Types
  <1>6. EntriesOK' /\ ExtentsOK'
    BY <1>2, Zenon DEF FilesysInv, SectorInv, EntriesOK, ExtentsOK
  <1>7. Apart' /\ Marked'
    BY <1>1, <1>2, <1>3, <1>4, Zenon DEF FilesysInv, SectorInv, Apart, Marked
  <1>8. \A s : Counted(s)' <=> Counted(s)
    BY <1>1, Zenon DEF Counted, Files, Deniers
  <1>9. InodeInv'
    BY <1>1, <1>8, Zenon DEF FilesysInv, InodeInv
  <1> QED  BY <1>5, <1>6, <1>7, <1>9, Zenon DEF FilesysInv, SectorInv

-----------------------------------------------------------------------------
(* The theorems. *)

LEMMA InitInv == Init => FilesysInv
  <1> SUFFICES ASSUME Init  PROVE FilesysInv
    BY Zenon
  <1> DEFINE map == [start |-> 2, length |-> 1]
             root == [start |-> 3, length |-> 1]
  <1>1. /\ {0, 1, 2, 3} \subseteq Sector /\ 1 \in 0 .. SectorCnt /\ 0 .. 3 = {0, 1, 2, 3}
        /\ Run(2, 1) = {2} /\ Run(3, 1) = {3}
    BY FilesysAssumption DEF Sector, Run
  <1>2. map \in Extent /\ root \in Extent
    BY <1>1, Zenon DEF Extent
  <1>3. /\ free_map = {0, 1, 2, 3} /\ map_file = {0, 1, 2, 3} /\ lost = {}
        /\ inode_at = [s \in Sector |-> CASE s = 0 -> map [] s = 1 -> root [] OTHER -> NULL]
        /\ entry = [i \in Slot |-> NULL]
        /\ inode = [s \in Sector |-> IF s = 0 THEN Opened(map) ELSE NULL]
        /\ file = [h \in Handle |-> NULL]
    BY <1>1, Zenon DEF Init, FREE_MAP_SECTOR, ROOT_DIR_SECTOR
  <1>4. /\ Opened(map) \in Inode /\ Opened(map).open_cnt = 1 /\ Opened(map).removed = FALSE
        /\ Opened(map).deny_write_cnt = 0 /\ Opened(map).data = map
    BY <1>2, OpenedType, Zenon
  <1>5. /\ inode_at[0] = map /\ inode_at[1] = root
        /\ inode[0] = Opened(map) /\ \A s \in Sector \ {0} : inode[s] = NULL
    BY <1>1, <1>3, Zenon
  <1>6. OnDisk = {0, 1} /\ Open = {0} /\ Live = {0, 1}
    <2>1. OnDisk = {0, 1}
      BY <1>3, Zenon DEF OnDisk, FREE_MAP_SECTOR, ROOT_DIR_SECTOR
    <2>2. Open = {0}
      BY <1>1, <1>4, <1>5, FilesysAssumption, Zenon DEF Open
    <2> QED  BY <2>1, <2>2, Zenon DEF Live
  <1>7. map.start = 2 /\ map.length = 1 /\ root.start = 3 /\ root.length = 1
    BY Zenon
  <1> HIDE DEF map, root
  <1>8. Space(0) = {0, 2} /\ Space(1) = {1, 3}
    BY <1>1, <1>5, <1>7, Zenon DEF Space, Sectors
  <1>9. Types
    <2>1. inode_at \in [Sector -> Extent \cup {NULL}] /\ inode \in [Sector -> Inode \cup {NULL}]
      BY <1>2, <1>3, <1>4, Zenon
    <2> QED  BY <1>1, <1>3, <2>1, Zenon DEF Types
  <1>10. EntriesOK /\ ExtentsOK
    BY <1>2, <1>3, <1>5, <1>6, <1>7, FilesysAssumption DEF EntriesOK, ExtentsOK
  <1>11. Used = {0, 1, 2, 3}
    BY <1>6, <1>8, Zenon DEF Used
  <1>12. Apart /\ Marked
    BY <1>3, <1>6, <1>8, <1>11 DEF Apart, Marked
  <1>13. Files(0) = {} /\ Deniers(0) = {}
    BY <1>3, Zenon DEF Files, Deniers
  <1>14. inode[0].removed = (0 \notin OnDisk)
    BY <1>4, <1>5, <1>6, Zenon
  <1>15. Counted(0)
    BY <1>4, <1>5, <1>13, <1>14, FS_EmptySet DEF Counted, Own, FREE_MAP_SECTOR
  <1>16. InodeInv
    BY <1>3, <1>4, <1>5, <1>6, <1>15, Zenon DEF InodeInv
  <1> QED  BY <1>9, <1>10, <1>12, <1>16, Zenon DEF FilesysInv, SectorInv

LEMMA StepInv ==
  ASSUME FilesysInv, Next
  PROVE  Types' /\ (~torn' => FilesysInv')
  <1>1. CASE \E name \in Name, length \in 0 .. MaxLength : FilesysCreate(name, length)
    BY <1>1, CreateStep, Zenon DEF FilesysInv
  <1>2. CASE \E name \in Name : FilesysRemove(name) \/ \E h \in Handle : FilesysOpen(h, name)
    BY <1>2, RemoveStep, OpenStep, Zenon DEF FilesysInv
  <1>3. CASE \E h \in Handle : FileClose(h) \/ FileDenyWrite(h) \/ FileAllowWrite(h)
    BY <1>3, CloseStep, DenyStep, Zenon DEF FilesysInv
  <1>4. CASE \E h, g \in Handle : FileReopen(h, g)
    BY <1>4, ReopenStep, Zenon DEF FilesysInv
  <1>5. CASE BlockEvict
    BY <1>5, SameStep, Zenon DEF BlockEvict, FilesysInv
  <1>6. CASE Reboot
    BY <1>6, RebootStep, Zenon DEF FilesysInv
  <1>7. CASE RebootUnwritten
    BY <1>7, UnwrittenStep, Zenon
  <1> QED  BY <1>1, <1>2, <1>3, <1>4, <1>5, <1>6, <1>7, Zenon DEF Next

LEMMA CacheStep ==
  ASSUME CacheTypes, Next
  PROVE  CacheTypes'
  <1>1. ASSUME NEW name, NEW length, FilesysCreate(name, length)  PROVE CacheTypes'
    BY <1>1, Zenon DEF CacheTypes, FilesysCreate
  <1>2. ASSUME NEW name, FilesysRemove(name)  PROVE CacheTypes'
    BY <1>2, Zenon DEF CacheTypes, FilesysRemove
  <1>3. ASSUME NEW h, FileClose(h)  PROVE CacheTypes'
    BY <1>3, Zenon DEF CacheTypes, FileClose
  <1>4. ASSUME NEW h, NEW name, FilesysOpen(h, name)  PROVE CacheTypes'
    BY <1>4, Zenon DEF CacheTypes, FilesysOpen
  <1>5. ASSUME NEW h, FileDenyWrite(h) \/ FileAllowWrite(h)  PROVE CacheTypes'
    BY <1>5, Zenon DEF CacheTypes, FileDenyWrite, FileAllowWrite
  <1>6. ASSUME NEW h, NEW g, FileReopen(h, g)  PROVE CacheTypes'
    BY <1>6, Zenon DEF CacheTypes, FileReopen
  <1>7. CASE BlockEvict \/ Reboot \/ RebootUnwritten
    BY <1>7, Zenon DEF CacheTypes, BlockEvict, Reboot, RebootUnwritten, Restart
  <1> QED  BY <1>1, <1>2, <1>3, <1>4, <1>5, <1>6, <1>7, Zenon DEF Next

LEMMA DiskInvariant == Spec => []DiskInv
  <1>1. Init => DiskInv
    <2>1. Init => CacheTypes
      BY Zenon DEF Init, CacheTypes
    <2> QED  BY <2>1, InitInv, Zenon DEF DiskInv, FilesysInv
  <1>2. DiskInv /\ [Next]_vars => DiskInv'
    <2> SUFFICES ASSUME DiskInv, [Next]_vars  PROVE DiskInv'
      BY Zenon
    <2>1. CASE UNCHANGED vars
      <3>1. UNCHANGED <<free_map, map_file, inode_at, entry, inode, file, lost>> /\ UNCHANGED <<dirty, torn>>
        BY <2>1, Zenon DEF vars
      <3>2. Types' /\ CacheTypes'
        BY <3>1, Zenon DEF DiskInv, Types, CacheTypes
      <3> QED  BY <3>1, <3>2, SameStep, Zenon DEF DiskInv
    <2>2. CASE Next
      <3>1. ~torn
        BY <2>2, Zenon DEF Next
      <3> QED  BY <2>2, <3>1, StepInv, CacheStep, Zenon DEF DiskInv
    <2> QED  BY <2>1, <2>2, Zenon
  <1> QED  BY <1>1, <1>2, PTL DEF Spec

\* Types: every extent, entry, inode and file keeps the shape that its struct
\* has, and no count of an open inode runs below zero.
THEOREM FilesysTypes == Spec => []TypeOK
  <1>1. DiskInv => TypeOK
    BY Zenon DEF DiskInv, Types, CacheTypes, TypeOK
  <1> QED  BY <1>1, DiskInvariant, PTL

\* filesys_create takes its sectors from the free map only where no file, and no
\* removed file that is still open, has one: files never share a sector.
THEOREM NoSharedSector == Spec => []FilesDisjoint
  <1>1. DiskInv => FilesDisjoint
    <2> SUFFICES ASSUME FilesysInv  PROVE FilesDisjoint
      BY Zenon DEF DiskInv, FilesDisjoint
    <2> DEFINE data(s) == IF inode[s] # NULL THEN inode[s].data ELSE inode_at[s]
    <2>1. \A s \in Live : data(s) = inode_at[s]
      <3>1. \A s \in Live : s \in Sector
        BY DiskTypes, Zenon DEF FilesysInv
      <3> QED  BY <3>1, Zenon DEF FilesysInv, InodeInv, Open
    <2> HIDE DEF data
    <2>2. \A s, t \in Live : s # t => Sectors(s, data(s)) \cap Sectors(t, data(t)) = {}
      BY <2>1, Zenon DEF FilesysInv, SectorInv, Apart, Space
    <2> QED  BY <2>2, Zenon DEF FilesDisjoint, data, Live
  <1> QED  BY <1>1, DiskInvariant, PTL

\* The free map marks exactly the sectors of the files on disk, of the open ones
\* and the lost ones, through failed writes of its file and through reboots that
\* find the cache written back, until a reboot loses a dirty block.
THEOREM FreeMapExact == Spec => []SectorsAccounted
  <1>1. DiskInv => SectorsAccounted
    <2> SUFFICES ASSUME FilesysInv  PROVE SectorsAccounted
      BY Zenon DEF DiskInv, SectorsAccounted
    <2>1. \A s \in Open : Sectors(s, inode[s].data) = Space(s)
      BY Zenon DEF FilesysInv, InodeInv, Space
    <2>2. Used = DiskSectors \cup OpenSectors
      BY <2>1, Zenon DEF Used, DiskSectors, OpenSectors, Live, Space
    <2>3. DiskSectors \subseteq map_file
      BY Zenon DEF FilesysInv, SectorInv, Marked, DiskSectors, Space
    <2> QED  BY <2>2, <2>3, Zenon DEF FilesysInv, SectorInv, Marked, SectorsAccounted
  <1> QED  BY <1>1, DiskInvariant, PTL

\* An inode's open_cnt and deny_write_cnt are the numbers of files open on it and
\* of those that deny writes, and removed says that no entry leads to it.
THEOREM InodesCountedExactly == Spec => []InodesCounted
  <1>1. DiskInv => InodesCounted
    <2> SUFFICES ASSUME FilesysInv, NEW s \in Open
                 PROVE  LET files == {h \in Handle : file[h] # NULL /\ file[h].inode = s}
                            own == IF s = FREE_MAP_SECTOR THEN 1 ELSE 0
                        IN /\ inode[s].open_cnt = Cardinality(files) + own
                           /\ inode[s].open_cnt > 0
                           /\ inode[s].deny_write_cnt = Cardinality({h \in files : file[h].deny_write})
                           /\ inode[s].removed = (s \notin OnDisk)
      BY Zenon DEF DiskInv, InodesCounted
    <2>1. Counted(s)
      BY Zenon DEF FilesysInv, InodeInv
    <2> QED  BY <2>1, Zenon DEF Counted, Files, Deniers, Own
  <1> QED  BY <1>1, DiskInvariant, PTL
=============================================================================
