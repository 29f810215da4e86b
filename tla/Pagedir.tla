------------------------------ MODULE Pagedir ------------------------------
(***************************************************************************)
(* Page directories, userprog/pagedir.c, and the page fault handler,       *)
(* userprog/exception.c.                                                   *)
(*                                                                         *)
(* The state that these operators work on is a record: the directories,    *)
(* the one in CR3, what the CPU's translation buffer holds of it, the free *)
(* pages of the user pool, the number of free pages of the kernel pool and *)
(* whether an assertion has failed.  User pages are numbered from address  *)
(* 0, pages of the user pool are numbers, and a directory entry is a page  *)
(* table or NoEntry.                                                       *)
(***************************************************************************)
EXTENDS Integers, Sequences, SequencesExt, FiniteSetsExt

CONSTANTS
  PGSIZE,   \* bytes of a page
  PtCnt,    \* entries of a page table
  PdCnt,    \* entries of a directory below PHYS_BASE
  NoEntry   \* a null pointer: no directory, no table, no page

ASSUME PagedirAssumption == PGSIZE \in Nat \ {0} /\ PtCnt \in Nat \ {0} /\ PdCnt \in Nat \ {0}

UserPage == 0 .. PdCnt * PtCnt - 1
PHYS_BASE == PGSIZE * PtCnt * PdCnt
AddrCnt == (PHYS_BASE \div 3) * 4         \* PHYS_BASE is 3 GB of 4 GB
pd_no(u) == u \div PtCnt
pt_no(u) == u % PtCnt
is_user_vaddr(a) == a < PHYS_BASE

EmptyPd == [i \in 0 .. PdCnt - 1 |-> NoEntry]
ZeroPte == [page |-> NoEntry, writable |-> FALSE, present |-> FALSE, dirty |-> FALSE, accessed |-> FALSE]
EmptyPt == [i \in 0 .. PtCnt - 1 |-> ZeroPte]

Panic(vm) == [vm EXCEPT !.panic = TRUE]

-----------------------------------------------------------------------------
(* pagedir.c. *)

\* pagedir_create: directory d exists if there was a page for it.
pagedir_create(vm, d) ==
  IF vm.kfree = 0 THEN vm ELSE [vm EXCEPT !.pd[d] = EmptyPd, !.kfree = @ - 1]

PageTables(vm, d) == {i \in 0 .. PdCnt - 1 : vm.pd[d][i] # NoEntry}

\* lookup_page: the entry for u, or NoEntry if there is no table.
Pte(vm, d, u) == IF vm.pd[d][pd_no(u)] = NoEntry THEN NoEntry ELSE vm.pd[d][pd_no(u)][pt_no(u)]

\* lookup_page with create: the table for u, which may get no page.
with_table(vm, d, u) ==
  IF vm.pd[d][pd_no(u)] # NoEntry \/ vm.kfree = 0 THEN vm
  ELSE [vm EXCEPT !.pd[d][pd_no(u)] = EmptyPt, !.kfree = @ - 1]

Present(vm, d, u) == Pte(vm, d, u) # NoEntry /\ Pte(vm, d, u).present

\* pagedir_destroy: the pages that are present, the tables, the directory.
pagedir_destroy(vm, d) ==
  LET pages == {Pte(vm, d, u).page : u \in {v \in UserPage : Present(vm, d, v)}}
  IN [vm EXCEPT !.pd[d] = NoEntry, !.free = @ \cup pages,
                !.kfree = @ + Cardinality(PageTables(vm, d)) + 1]

\* pagedir_set_page: changed, unless there is no table and no page for one.
pagedir_set_page(vm, d, u, kpage, writable) ==
  LET v == with_table(vm, d, u)
      pte == [ZeroPte EXCEPT !.page = kpage, !.writable = writable, !.present = TRUE]
  IN IF pd_no(u) \notin PageTables(v, d) THEN [ok |-> FALSE, vm |-> v]
     ELSE IF Present(v, d, u) THEN [ok |-> FALSE, vm |-> Panic(v)]
     ELSE [ok |-> TRUE, vm |-> [v EXCEPT !.pd[d][pd_no(u)][pt_no(u)] = pte]]

pagedir_get_page(vm, d, u) == IF Present(vm, d, u) THEN Pte(vm, d, u).page ELSE NoEntry

pagedir_activate(vm, d) == [vm EXCEPT !.cr3 = d, !.tlb = {}]

invalidate_pagedir(vm, d) == IF vm.cr3 = d THEN pagedir_activate(vm, d) ELSE vm

\* Mutant: the translation buffer is not told.
ClearSilently(vm, d, u) ==
  IF Present(vm, d, u) THEN [vm EXCEPT !.pd[d][pd_no(u)][pt_no(u)].present = FALSE] ELSE vm

pagedir_clear_page(vm, d, u) ==
  IF Present(vm, d, u)
    THEN invalidate_pagedir([vm EXCEPT !.pd[d][pd_no(u)][pt_no(u)].present = FALSE], d)
    ELSE vm

pagedir_is_dirty(vm, d, u) == Pte(vm, d, u) # NoEntry /\ Pte(vm, d, u).dirty
pagedir_is_accessed(vm, d, u) == Pte(vm, d, u) # NoEntry /\ Pte(vm, d, u).accessed

pagedir_set_dirty(vm, d, u, dirty) ==
  IF Pte(vm, d, u) = NoEntry THEN vm
  ELSE LET v == [vm EXCEPT !.pd[d][pd_no(u)][pt_no(u)].dirty = dirty]
       IN IF dirty THEN v ELSE invalidate_pagedir(v, d)
pagedir_set_accessed(vm, d, u, accessed) ==
  IF Pte(vm, d, u) = NoEntry THEN vm
  ELSE LET v == [vm EXCEPT !.pd[d][pd_no(u)][pt_no(u)].accessed = accessed]
       IN IF accessed THEN v ELSE invalidate_pagedir(v, d)

\* pagedir_is_mapped looks for the table only.
pagedir_is_mapped(vm, d, u) == pd_no(u) \in PageTables(vm, d)

-----------------------------------------------------------------------------
(* The CPU, external: an access to page u uses the translation buffer and   *)
(* walks the tables if u is not in it, or to set the dirty bit.             *)

Cached(vm, u) == {e \in vm.tlb : e.u = u}

\* The translation that an access uses, as a set of at most one.
Translation(vm, u) ==
  IF Cached(vm, u) # {} THEN Cached(vm, u)
  ELSE IF Present(vm, vm.cr3, u)
         THEN LET p == Pte(vm, vm.cr3, u)
              IN {[u |-> u, page |-> p.page, writable |-> p.writable, dirty |-> p.dirty]}
         ELSE {}

Allowed(vm, u, write) == \E e \in Translation(vm, u) : write => e.writable

\* The state after an access that is allowed.
Accessed(vm, u, write) ==
  LET e == CHOOSE t \in Translation(vm, u) : TRUE
      walked == Cached(vm, u) = {}
      now == [e EXCEPT !.dirty = @ \/ write]
      v == [vm EXCEPT !.tlb = (@ \ {e}) \cup {now}]
      a == IF walked THEN [v EXCEPT !.pd[vm.cr3][pd_no(u)][pt_no(u)].accessed = TRUE] ELSE v
  IN IF write /\ ~e.dirty THEN [a EXCEPT !.pd[vm.cr3][pd_no(u)][pt_no(u)].dirty = TRUE] ELSE a

-----------------------------------------------------------------------------
(* exception.c. *)

\* The page that page_fault maps: fault_addr - (int) fault_addr % PGSIZE, where
\* addresses from the middle on are negative and so is their remainder.
fault_page(addr) ==
  LET half == AddrCnt \div 2
      rem == IF addr < half THEN addr % PGSIZE ELSE -((AddrCnt - addr) % PGSIZE)
  IN (addr - rem) \div PGSIZE

\* page_fault in directory d; kill ends the process, or panics if the kernel
\* was running.
kill(vm, user) == IF user THEN [out |-> "killed", vm |-> vm] ELSE [out |-> "panic", vm |-> Panic(vm)]

page_fault(vm, d, addr, not_present, write, user) ==
  IF ~(not_present /\ write /\ user) THEN kill(vm, user)
  ELSE IF vm.free = {} THEN [out |-> "again", vm |-> vm]
  ELSE LET k == Min(vm.free)
           u == fault_page(addr)
           r == pagedir_set_page([vm EXCEPT !.free = @ \ {k}], d, u, k, TRUE)
       IN IF u \notin UserPage THEN [out |-> "panic", vm |-> Panic(vm)]
          ELSE IF r.vm.panic THEN [out |-> "panic", vm |-> r.vm]
          ELSE IF r.ok THEN [out |-> "again", vm |-> r.vm]
          ELSE kill([r.vm EXCEPT !.free = @ \cup {k}], user)
=============================================================================
