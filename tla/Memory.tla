------------------------------- MODULE Memory -------------------------------
(***************************************************************************)
(* The page allocator (threads/palloc.c) over its bitmap                   *)
(* (lib/kernel/bitmap.c), and the block allocator (threads/malloc.c) on    *)
(* top of it, used by preemptible threads and by the scheduler, which      *)
(* frees the page of a dead thread.                                        *)
(*                                                                         *)
(* A bit of the bitmap is read or written atomically; a scan or a run of   *)
(* bits is not.  palloc_free_multiple takes no lock.  Steps under a lock   *)
(* that touch only what the lock protects are one step.  An allocation is  *)
(* [kind, page, n]: a run of n pages, the n'th block of a page's arena, or *)
(* a big block of n pages.                                                 *)
(***************************************************************************)
EXTENDS Integers, Sequences, FiniteSets

CONSTANTS
  Thread,            \* threads that allocate
  NULL,              \* the null pointer
  PageCnt,           \* pages in the pool
  Desc,              \* descriptors: one for each block size
  blocks_per_arena,  \* of each descriptor
  MaxRun             \* bound: the longest run of pages asked for

Page == 0 .. PageCnt - 1
Block(d) == Page \X (0 .. blocks_per_arena[d] - 1)
Allocation == [kind : {"pages", "big"}, page : Page, n : 1 .. MaxRun]
              \cup {[kind |-> "block", page |-> b[1], n |-> b[2]] :
                      b \in UNION {Block(d) : d \in Desc}}
Arena == [desc : Desc \cup {NULL}, free_cnt : Int]

ASSUME MemoryAssumption ==
  /\ PageCnt \in Nat /\ MaxRun \in Nat
  /\ NULL \notin Thread \cup Desc \cup Nat \cup Allocation \cup Arena
  /\ blocks_per_arena \in [Desc -> Nat \ {0}]

VARIABLES
  used_map,   \* kernel_pool.used_map
  pool_lock,  \* kernel_pool.lock's holder
  desc_lock,  \* the holder of each descriptor's lock
  free_list,  \* of each descriptor: blocks <<page, index>>
  arena,      \* the arena header in each page, or NULL
  held,       \* the allocations that the callers have
  pc,         \* where each thread is
  call        \* the arguments and locals of its call

vars == <<used_map, pool_lock, desc_lock, free_list, arena, held, pc, call>>

\* kind: of the allocation made or freed; desc: its descriptor; page, cnt: the
\* run scanned for or freed; bit: the bit of the run; old: realloc's block.
NoCall == [kind |-> "pages", desc |-> NULL, page |-> 0, cnt |-> 1, bit |-> 0, old |-> NULL]

TypeOK ==
  /\ used_map \in [Page -> BOOLEAN]
  /\ pool_lock \in Thread \cup {NULL}
  /\ desc_lock \in [Desc -> Thread \cup {NULL}]
  /\ free_list \in [Desc -> Seq(Page \X Nat)] /\ \A d \in Desc : free_list[d] \in Seq(Block(d))
  /\ arena \in [Page -> Arena \cup {NULL}]
  /\ held \subseteq Allocation
  /\ pc \in [Thread -> {"run", "desc", "pool", "scan", "flip", "unlock", "got", "pop",
                        "free", "scrub", "clear"}]

Init ==
  /\ used_map = [p \in Page |-> FALSE]
  /\ pool_lock = NULL
  /\ desc_lock = [d \in Desc |-> NULL]
  /\ free_list = [d \in Desc |-> <<>>]
  /\ arena = [p \in Page |-> NULL]
  /\ held = {}
  /\ pc = [t \in Thread |-> "run"]
  /\ call = [t \in Thread |-> NoCall]

Run(p, n) == p .. p + n - 1
Goto(t, p) == pc' = [pc EXCEPT ![t] = p]
Return(t) == Goto(t, "run") /\ call' = [call EXCEPT ![t] = NoCall]

-----------------------------------------------------------------------------
(* palloc_get_multiple. *)

\* pool->lock has been acquired.
PoolLocked(t) ==
  /\ pc[t] = "pool" /\ pool_lock = NULL
  /\ pool_lock' = t
  /\ call' = [call EXCEPT ![t].page = 0, ![t].bit = 0]
  /\ Goto(t, "scan")
  /\ UNCHANGED <<used_map, desc_lock, free_list, arena, held>>

\* Mutant: the last bit of the run is not looked at.
ScanShort(t) ==
  LET c == call[t]
  IN /\ pc[t] = "scan"
     /\ \/ /\ c.page + c.cnt > PageCnt
           /\ pool_lock' = NULL
           /\ call' = [call EXCEPT ![t].page = NULL]
           /\ Goto(t, "got")
        \/ /\ c.page + c.cnt <= PageCnt
           /\ UNCHANGED pool_lock
           /\ IF c.bit > 0 \/ ~used_map[c.page]
                THEN call' = [call EXCEPT ![t].bit = 0] /\ Goto(t, "flip")
                ELSE call' = [call EXCEPT ![t].page = @ + 1] /\ UNCHANGED pc
     /\ UNCHANGED <<used_map, desc_lock, free_list, arena, held>>

\* bitmap_scan: the bit'th bit of the run at page is tested.
Scan(t) ==
  LET c == call[t]
  IN /\ pc[t] = "scan"
     /\ \/ /\ c.page + c.cnt > PageCnt
           /\ pool_lock' = NULL
           /\ call' = [call EXCEPT ![t].page = NULL]
           /\ Goto(t, "got")
        \/ /\ c.page + c.cnt <= PageCnt /\ used_map[c.page + c.bit]
           /\ call' = [call EXCEPT ![t].page = @ + 1, ![t].bit = 0]
           /\ UNCHANGED <<pool_lock, pc>>
        \/ /\ c.page + c.cnt <= PageCnt /\ ~used_map[c.page + c.bit]
           /\ call' = [call EXCEPT ![t].bit = IF @ = c.cnt - 1 THEN 0 ELSE @ + 1]
           /\ Goto(t, IF c.bit = c.cnt - 1 THEN "flip" ELSE "scan")
           /\ UNCHANGED pool_lock
     /\ UNCHANGED <<used_map, desc_lock, free_list, arena, held>>

\* bitmap_set_multiple marks one bit of the run.
Flip(t) ==
  LET c == call[t]
  IN /\ pc[t] = "flip"
     /\ used_map' = [used_map EXCEPT ![c.page + c.bit] = TRUE]
     /\ call' = [call EXCEPT ![t].bit = IF @ = c.cnt - 1 THEN 0 ELSE @ + 1]
     /\ Goto(t, IF c.bit = c.cnt - 1 THEN "unlock" ELSE "flip")
     /\ UNCHANGED <<pool_lock, desc_lock, free_list, arena, held>>

PoolUnlock(t) ==
  /\ pc[t] = "unlock"
  /\ pool_lock' = NULL
  /\ Goto(t, "got")
  /\ UNCHANGED <<used_map, desc_lock, free_list, arena, held, call>>

-----------------------------------------------------------------------------
(* palloc_free_multiple, entered with page and cnt in the call. *)

\* Mutant: the bits are cleared first, the pages are filled with 0xcc last.
ScrubLate(t) ==
  LET c == call[t]
  IN /\ pc[t] = "scrub"
     /\ used_map' = [p \in Page |-> IF p \in Run(c.page, c.cnt) THEN FALSE ELSE used_map[p]]
     /\ Goto(t, "clear")
     /\ UNCHANGED <<pool_lock, desc_lock, free_list, arena, held, call>>

\* The pages are filled with 0xcc.
Scrub(t) ==
  LET c == call[t]
  IN /\ pc[t] = "scrub"
     /\ arena' = [p \in Page |-> IF p \in Run(c.page, c.cnt) THEN NULL ELSE arena[p]]
     /\ Goto(t, "clear")
     /\ UNCHANGED <<used_map, pool_lock, desc_lock, free_list, held, call>>

\* bitmap_set_multiple clears one bit of the run.  free() then releases the
\* lock of the descriptor.
Clear(t) ==
  LET c == call[t]
  IN /\ pc[t] = "clear"
     /\ used_map' = [used_map EXCEPT ![c.page + c.bit] = FALSE]
     /\ IF c.bit < c.cnt - 1
          THEN call' = [call EXCEPT ![t].bit = @ + 1] /\ UNCHANGED <<pc, desc_lock>>
          ELSE /\ Return(t)
               /\ desc_lock' = IF c.desc = NULL THEN desc_lock
                               ELSE [desc_lock EXCEPT ![c.desc] = NULL]
     /\ UNCHANGED <<pool_lock, free_list, arena, held>>

\* thread_schedule_tail frees a thread's page with interrupts off, whatever
\* another thread is doing with the pool.
SchedulerFrees(h) ==
  /\ h.kind = "pages" /\ h.n = 1
  /\ held' = held \ {h}
  /\ arena' = [arena EXCEPT ![h.page] = NULL]
  /\ used_map' = [used_map EXCEPT ![h.page] = FALSE]
  /\ UNCHANGED <<pool_lock, desc_lock, free_list, pc, call>>

-----------------------------------------------------------------------------
(* malloc and realloc. *)

\* The block that free is called on: a free thread may call it, and realloc
\* does so last.  A block's own bytes are overwritten before the lock is taken.
StartFree(t, h) ==
  LET a == arena[h.page]
  IN /\ \/ /\ h.kind = "pages"
           /\ call' = [call EXCEPT ![t] = [NoCall EXCEPT !.page = h.page, !.cnt = h.n]]
           /\ Goto(t, "scrub")
        \/ /\ h.kind = "big"
           /\ call' = [call EXCEPT ![t] = [NoCall EXCEPT !.kind = "big", !.page = h.page,
                                                         !.cnt = a.free_cnt]]
           /\ Goto(t, "scrub")
        \/ /\ h.kind = "block"
           /\ call' = [call EXCEPT ![t] = [NoCall EXCEPT !.kind = "block", !.desc = a.desc,
                                                         !.page = h.page, !.bit = h.n]]
           /\ Goto(t, "free")

\* What the call returns goes to its caller; realloc frees the old block.
Hand(t, h) ==
  IF call[t].old = NULL
    THEN held' = held \cup {h} /\ Return(t)
    ELSE held' = (held \cup {h}) \ {call[t].old} /\ StartFree(t, call[t].old)

\* palloc_get_multiple, or malloc of a big block, of n pages.
Get(t, kind, n, old) ==
  /\ pc[t] = "run"
  /\ call' = [call EXCEPT ![t] = [NoCall EXCEPT !.kind = kind, !.cnt = n, !.old = old]]
  /\ Goto(t, "pool")
  /\ UNCHANGED <<used_map, pool_lock, desc_lock, free_list, arena, held>>

\* malloc of a size that descriptor d serves.
Malloc(t, d, old) ==
  /\ pc[t] = "run"
  /\ call' = [call EXCEPT ![t] = [NoCall EXCEPT !.kind = "block", !.desc = d, !.old = old]]
  /\ Goto(t, "desc")
  /\ UNCHANGED <<used_map, pool_lock, desc_lock, free_list, arena, held>>

\* d->lock has been acquired; an empty free list needs a new arena.
DescLocked(t) ==
  LET d == call[t].desc
  IN /\ pc[t] = "desc" /\ desc_lock[d] = NULL
     /\ desc_lock' = [desc_lock EXCEPT ![d] = t]
     /\ Goto(t, IF free_list[d] = <<>> THEN "pool" ELSE "pop")
     /\ UNCHANGED <<used_map, pool_lock, free_list, arena, held, call>>

\* palloc_get_multiple has found no run.  realloc leaves the old block alone.
GotNothing(t) ==
  /\ pc[t] = "got" /\ call[t].page = NULL
  /\ desc_lock' = IF call[t].desc = NULL THEN desc_lock
                  ELSE [desc_lock EXCEPT ![call[t].desc] = NULL]
  /\ Return(t)
  /\ UNCHANGED <<used_map, pool_lock, free_list, arena, held>>

\* Pages for the caller; a big block gets an arena header that says how many.
GotPages(t) ==
  LET c == call[t]
  IN /\ pc[t] = "got" /\ c.page # NULL /\ c.kind \in {"pages", "big"}
     /\ Hand(t, [kind |-> c.kind, page |-> c.page, n |-> c.cnt])
     /\ arena' = IF c.kind = "pages" THEN arena
                 ELSE [arena EXCEPT ![c.page] = [desc |-> NULL, free_cnt |-> c.cnt]]
     /\ UNCHANGED <<used_map, pool_lock, desc_lock, free_list>>

\* A new arena: its blocks go on the free list.
GotArena(t) ==
  LET c == call[t]
      d == c.desc
      n == blocks_per_arena[d]
  IN /\ pc[t] = "got" /\ c.page # NULL /\ c.kind = "block"
     /\ arena' = [arena EXCEPT ![c.page] = [desc |-> d, free_cnt |-> n]]
     /\ free_list' = [free_list EXCEPT ![d] = @ \o [i \in 1 .. n |-> <<c.page, i - 1>>]]
     /\ Goto(t, "pop")
     /\ UNCHANGED <<used_map, pool_lock, desc_lock, held, call>>

\* Mutant: the arena's count of free blocks is not updated.
PopUncounted(t) ==
  LET d == call[t].desc
      b == Head(free_list[d])
  IN /\ pc[t] = "pop"
     /\ free_list' = [free_list EXCEPT ![d] = Tail(@)]
     /\ desc_lock' = [desc_lock EXCEPT ![d] = NULL]
     /\ Hand(t, [kind |-> "block", page |-> b[1], n |-> b[2]])
     /\ UNCHANGED <<used_map, pool_lock, arena>>

\* The first block of the free list goes to the caller.
Pop(t) ==
  LET d == call[t].desc
      b == Head(free_list[d])
  IN /\ pc[t] = "pop"
     /\ free_list' = [free_list EXCEPT ![d] = Tail(@)]
     /\ arena' = [arena EXCEPT ![b[1]].free_cnt = @ - 1]
     /\ desc_lock' = [desc_lock EXCEPT ![d] = NULL]
     /\ Hand(t, [kind |-> "block", page |-> b[1], n |-> b[2]])
     /\ UNCHANGED <<used_map, pool_lock>>

-----------------------------------------------------------------------------
(* free. *)

Free(t, h) ==
  /\ pc[t] = "run"
  /\ held' = held \ {h}
  /\ StartFree(t, h)
  /\ UNCHANGED <<used_map, pool_lock, desc_lock, free_list, arena>>

\* What list_remove leaves of a free list, once it has been called on the blocks
\* of page p.
without(list, p) ==
  LET kept == {i \in DOMAIN list : list[i][1] # p}
      nth(k) == CHOOSE i \in kept : Cardinality(kept \cap 1 .. i) = k
  IN [k \in 1 .. Cardinality(kept) |-> list[nth(k)]]

\* d->lock has been acquired: the block goes to the front of the free list.  If
\* the arena is then unused its blocks leave the list and its page is freed,
\* under the lock.
FreeBlock(t) ==
  LET c == call[t]
      d == c.desc
      unused == arena[c.page].free_cnt + 1 >= blocks_per_arena[d]
      longer == <<<<c.page, c.bit>>>> \o free_list[d]
  IN /\ pc[t] = "free" /\ desc_lock[d] = NULL
     /\ arena' = [arena EXCEPT ![c.page].free_cnt = @ + 1]
     /\ free_list' = [free_list EXCEPT ![d] =
                        IF unused THEN without(longer, c.page) ELSE longer]
     /\ IF unused
          THEN /\ desc_lock' = [desc_lock EXCEPT ![d] = t]
               /\ call' = [call EXCEPT ![t].bit = 0]
               /\ Goto(t, "scrub")
          ELSE Return(t) /\ UNCHANGED desc_lock
     /\ UNCHANGED <<used_map, pool_lock, held>>

-----------------------------------------------------------------------------
\* A call of realloc hands its old block over; nobody else frees it.
Freeable == held \ {call[t].old : t \in Thread}

\* The calls; old is the block that realloc replaces, NULL in the others.
Request(t) ==
  \/ \E n \in 1 .. MaxRun : Get(t, "pages", n, NULL)
  \/ \E n \in 1 .. MaxRun, old \in {NULL} \cup {h \in Freeable : h.kind # "pages"} :
       Get(t, "big", n, old)
  \/ \E d \in Desc, old \in {NULL} \cup {h \in Freeable : h.kind # "pages"} : Malloc(t, d, old)
  \/ \E h \in Freeable : Free(t, h)

Step(t) ==
  \/ PoolLocked(t) \/ Scan(t) \/ Flip(t) \/ PoolUnlock(t)
  \/ Scrub(t) \/ Clear(t)
  \/ DescLocked(t) \/ GotNothing(t) \/ GotPages(t) \/ GotArena(t) \/ Pop(t)
  \/ FreeBlock(t)

Next ==
  \/ \E t \in Thread : Request(t) \/ Step(t)
  \/ \E h \in Freeable : SchedulerFrees(h)

Spec == Init /\ [][Next]_vars

-----------------------------------------------------------------------------
(* Properties. *)

\* The pages of an allocation, or of a call under way.
Held(h) == IF h.kind = "block" THEN {h.page} ELSE Run(h.page, h.n)
Arenas == {p \in Page : arena[p] # NULL /\ arena[p].desc # NULL}
InFlight(t) ==
  CASE pc[t] = "flip" -> Run(call[t].page, call[t].bit)
    [] pc[t] = "clear" -> Run(call[t].page + call[t].bit, call[t].cnt - call[t].bit)
    [] pc[t] \in {"unlock", "scrub"} -> Run(call[t].page, call[t].cnt)
    [] pc[t] = "got" /\ call[t].page # NULL -> Run(call[t].page, call[t].cnt)
    [] OTHER -> {}

\* A page is marked used exactly if it belongs to a caller's pages, to an arena,
\* or to a call under way: none is lost, and none is free for another
\* allocation while someone has it, although pages are freed without the lock.
UsedExactly ==
  {p \in Page : used_map[p]} =
    (UNION {Held(h) : h \in held}) \cup Arenas \cup (UNION {InFlight(t) : t \in Thread})

\* No page is in two allocations, and a page of a caller is in no arena or call.
PagesExclusive ==
  /\ \A h, k \in {x \in held : x.kind # "block"} : h # k => Held(h) \cap Held(k) = {}
  /\ \A h \in {x \in held : x.kind # "block"} :
       Held(h) \cap (Arenas \cup UNION {InFlight(t) : t \in Thread}) = {}
  /\ \A t, u \in Thread : t # u => InFlight(t) \cap InFlight(u) = {}

\* The blocks of page p that callers have or are freeing.
InUse(p) == {h.n : h \in {x \in held : x.kind = "block" /\ x.page = p}}
            \cup {call[t].bit : t \in {u \in Thread : pc[u] = "free" /\ call[u].page = p}}

\* Every block of an arena is either in use or on the free list, once, and the
\* arena counts the latter: when free() finds the count full, no block of the
\* page that it gives back is in use (the ASSERT in free).  The assertions of
\* block_to_arena and palloc_free_multiple hold: a block on a free list or in use
\* lies in an arena of its descriptor, and pages are marked used when they are
\* freed.
BlocksAccounted ==
  /\ \A p \in Arenas :
       LET a == arena[p]
           listed == {i \in DOMAIN free_list[a.desc] : free_list[a.desc][i][1] = p}
           closing == \E t \in Thread : pc[t] = "scrub" /\ call[t].page = p
       IN /\ closing => a.free_cnt = blocks_per_arena[a.desc] /\ InUse(p) = {} /\ listed = {}
          /\ ~closing => /\ a.free_cnt = Cardinality(listed)
                         /\ a.free_cnt + Cardinality(InUse(p)) = blocks_per_arena[a.desc]
  /\ \A d \in Desc : \A i \in DOMAIN free_list[d] :
       LET p == free_list[d][i][1] IN arena[p] # NULL /\ arena[p].desc = d
  /\ \A h \in held : h.kind # "pages" =>
       arena[h.page] # NULL /\ (arena[h.page].desc = NULL) = (h.kind = "big")
  /\ \A t \in Thread : pc[t] \in {"scrub", "clear"} =>
       \A p \in Run(call[t].page + call[t].bit, call[t].cnt - call[t].bit) : used_map[p]
=============================================================================
