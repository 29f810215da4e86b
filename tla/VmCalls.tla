------------------------------ MODULE VmCalls ------------------------------
(***************************************************************************)
(* Two address spaces as processes use them, and calls of the loader.      *)
(***************************************************************************)
EXTENDS Calls, Loader

CONSTANTS
  VmPage,      \* bound: the user pages that processes map and access
  FrameCnt,    \* bound: pages of the user pool
  KernelPages  \* bound: pages of the kernel pool

Dir == {1, 2}
Booted(frames, kpages) ==
  [pd |-> [d \in Dir |-> NoEntry], cr3 |-> NoEntry, tlb |-> {}, free |-> 1 .. frames,
   kfree |-> kpages, panic |-> FALSE]

\* Program headers; commands are what load and setup_stack get as input.
Phdr == [type : {"load"}, offset : {0, 5, PGSIZE}, vaddr : {5, PGSIZE, PGSIZE + 5, 3 * PGSIZE},
         filesz : {0, 3, PGSIZE + 3}, memsz : {0, 3, PGSIZE + 4, 3 * PGSIZE, AddrCnt - PGSIZE - 5},
         writable : BOOLEAN]
Text == [type |-> "load", offset |-> 0, vaddr |-> PGSIZE, filesz |-> PGSIZE + 3,
         memsz |-> PGSIZE + 3, writable |-> FALSE]
Bss == [Text EXCEPT !.vaddr = 3 * PGSIZE, !.filesz = 0, !.memsz = 2, !.writable = TRUE]
Below == [Bss EXCEPT !.vaddr = PHYS_BASE - 2 * PGSIZE, !.filesz = 2]
Top == [Bss EXCEPT !.vaddr = PHYS_BASE - PGSIZE]
Segment == {Text, Bss, Below, Top, [Text EXCEPT !.type = "refused"], [Text EXCEPT !.type = "ignored"]}
A == 97
Command == {<<>>, <<A>>, <<SPACE, A, SPACE, SPACE, A + 1>>, <<A, A, SPACE, A>>,
            <<A, SPACE, A, SPACE, A, SPACE>>, <<A, SPACE, A, SPACE, A, SPACE, A>>,
            [i \in 1 .. PGSIZE - 2 |-> A], [i \in 1 .. PGSIZE + 2 |-> IF i = 2 THEN SPACE ELSE A]}
Exe(length, phdrs) == [found |-> TRUE, header |-> TRUE, length |-> length, phdrs |-> phdrs]
Load(exes, inputs, frames, kpages) ==
  [op : {"load"}, exe : exes, input : inputs, frames : frames, kpages : kpages]

VmInit ==
  \/ call \in [op : {"vm"}, map : {{}}, dirty : {{}}, used : {{}}, faulted : {NoEntry}]
  \/ call \in Load({Exe(n, <<p>>) : n \in {PGSIZE, 2 * PGSIZE + 8}, p \in Phdr}, {<<A>>},
                   {3, 2 * PdCnt}, {PdCnt + 2})
  \/ call \in Load({Exe(2 * PGSIZE, <<p, q>>) : p \in Segment, q \in Segment}, Command,
                   {2, 2 * PdCnt}, {PdCnt, PdCnt + 2})
  \/ call \in Load({Exe(2 * PGSIZE, <<>>), Exe(2 * PGSIZE, <<Text, Bss>>),
                    [Exe(9, <<>>) EXCEPT !.found = FALSE], [Exe(9, <<>>) EXCEPT !.header = FALSE]},
                   Command, 0 .. 4, 0 .. PdCnt + 2)

-----------------------------------------------------------------------------
(* Address spaces.  "map" holds what is mapped where, "dirty" and "used" the *)
(* pages written and accessed since they were mapped or their bits cleared,  *)
(* and "faulted" the address whose fault has just returned to the process.   *)

Running == call.op = "vm" /\ result # NULL /\ ~result.panic
Exists(d) == result.pd[d] # NoEntry
Forget(c, d, u) == [c EXCEPT !.map = {m \in @ : <<m.d, m.u>> # <<d, u>>},
                             !.dirty = @ \ {<<d, u>>}, !.used = @ \ {<<d, u>>}]
Quiet(c) == [c EXCEPT !.faulted = NoEntry]

VmBoot == call.op = "vm" /\ result = NULL /\ result' = Booted(FrameCnt, KernelPages) /\ UNCHANGED call

VmCreate(d) ==
  /\ Running /\ ~Exists(d)
  /\ result' = pagedir_create(result, d)
  /\ call' = Quiet(call)

VmSwitch(d) ==
  /\ Running /\ Exists(d) /\ result.cr3 # d
  /\ result' = pagedir_activate(result, d)
  /\ call' = Quiet(call)

\* A page is got and installed, as by the loader.
VmInstall(d, u, writable) ==
  /\ Running /\ Exists(d) /\ result.free # {}
  /\ LET k == Min(result.free)
         r == install_page(Took([vm |-> result], k), d, u, k, writable)
     IN /\ result' = r.x.vm
        /\ call' = IF r.ok THEN [Quiet(call) EXCEPT !.map = @ \cup
                                   {[d |-> d, u |-> u, page |-> k, writable |-> writable]}]
                   ELSE Quiet(call)

\* A page is unmapped and freed.
VmClear(d, u) ==
  /\ Running /\ Exists(d)
  /\ LET k == pagedir_get_page(result, d, u)
         v == pagedir_clear_page(result, d, u)
     IN result' = [v EXCEPT !.free = @ \cup ({k} \ {NoEntry})]
  /\ call' = Quiet(Forget(call, d, u))

Mark(set, d, u, value) == IF value /\ \E m \in call.map : m.d = d /\ m.u = u
                            THEN set \cup {<<d, u>>} ELSE set \ {<<d, u>>}

VmSetDirty(d, u, dirty) ==
  /\ Running /\ Exists(d)
  /\ result' = pagedir_set_dirty(result, d, u, dirty)
  /\ call' = [Quiet(call) EXCEPT !.dirty = Mark(@, d, u, dirty)]

VmSetAccessed(d, u, accessed) ==
  /\ Running /\ Exists(d)
  /\ result' = pagedir_set_accessed(result, d, u, accessed)
  /\ call' = [Quiet(call) EXCEPT !.used = Mark(@, d, u, accessed)]

\* process_exit: no process uses the directory when it is destroyed.
Exited(vm, d) == pagedir_destroy(pagedir_activate(vm, NoEntry), d)
Without(c, d) == [Quiet(c) EXCEPT !.map = {m \in @ : m.d # d}, !.dirty = {x \in @ : x[1] # d},
                                  !.used = {x \in @ : x[1] # d}]
VmExit(d) ==
  /\ Running /\ Exists(d) /\ result.cr3 = d
  /\ result' = Exited(result, d)
  /\ call' = Without(call, d)

\* The process of directory d reads or writes an address.
VmAccess(d, addr, write) ==
  /\ Running /\ result.cr3 = d
  /\ Exists(d) /\ Allowed(result, addr \div PGSIZE, write)
  /\ LET at == <<d, addr \div PGSIZE>>
     IN /\ result' = Accessed(result, at[2], write)
        /\ call' = [Quiet(call) EXCEPT !.used = @ \cup {at}, !.dirty = IF write THEN @ \cup {at} ELSE @]

VmFault(d, addr, write) ==
  /\ Running /\ result.cr3 = d
  /\ Exists(d) /\ ~Allowed(result, addr \div PGSIZE, write)
  /\ LET not_present == Translation(result, addr \div PGSIZE) = {}
         r == page_fault(result, d, addr, not_present, write, TRUE)
         new == {[d |-> d, u |-> fault_page(addr), page |-> k, writable |-> TRUE] :
                   k \in result.free \ r.vm.free}
     IN IF r.out = "killed" THEN result' = Exited(r.vm, d) /\ call' = Without(call, d)
        ELSE /\ result' = r.vm
             /\ call' = [call EXCEPT !.map = @ \cup new,
                                     !.faulted = IF result.free = {} THEN NoEntry ELSE addr]

Addresses == {u * PGSIZE + i : u \in VmPage, i \in 0 .. 1}
AddressSpaces ==
  \/ VmBoot
  \/ \E d \in Dir :
       \/ VmCreate(d) \/ VmSwitch(d) \/ VmExit(d)
       \/ \E u \in VmPage, b \in BOOLEAN :
            VmInstall(d, u, b) \/ VmSetDirty(d, u, b) \/ VmSetAccessed(d, u, b)
       \/ \E u \in VmPage : VmClear(d, u)
       \/ \E addr \in Addresses, write \in BOOLEAN : VmAccess(d, addr, write) \/ VmFault(d, addr, write)

\* A page directory maps what was mapped and not unmapped, to pages that are
\* neither free nor mapped elsewhere; every page is free or mapped and every
\* page of the kernel pool free, a directory or a table; the translation buffer
\* holds nothing that the tables do not say; and the dirty and accessed bits are
\* those of the accesses since they were cleared.  pagedir_is_mapped holds of
\* every page mapped and, as it looks for a table only, of others beside them.
MappingsRight ==
  Running =>
    LET live == {d \in Dir : Exists(d)}
        mapped == {m \in call.map : Present(result, m.d, m.u)}
    IN /\ mapped = call.map
       /\ \A d \in live, u \in UserPage :
            {pagedir_get_page(result, d, u)} \ {NoEntry} = {m.page : m \in {n \in call.map : n.d = d /\ n.u = u}}
       /\ \A m \in call.map :
            /\ Pte(result, m.d, m.u).writable = m.writable
            /\ pagedir_is_dirty(result, m.d, m.u) <=> <<m.d, m.u>> \in call.dirty
            /\ pagedir_is_accessed(result, m.d, m.u) <=> <<m.d, m.u>> \in call.used
            /\ pagedir_is_mapped(result, m.d, m.u)
       /\ \A m, n \in call.map : m.page = n.page => m = n
       /\ result.free = (1 .. FrameCnt) \ {m.page : m \in call.map}
       /\ result.kfree + Cardinality(live) + Cardinality({<<d, i>> \in live \X (0 .. PdCnt - 1) : result.pd[d][i] # NoEntry}) = KernelPages
       /\ \A e \in result.tlb :
            \E m \in call.map : m = [d |-> result.cr3, u |-> e.u, page |-> e.page, writable |-> e.writable]

\* page_fault brings in the page to which fault_addr refers.
FaultMapsPage ==
  call.op = "vm" /\ result # NULL /\ call.faulted # NoEntry =>
    ~result.panic /\ Present(result, result.cr3, call.faulted \div PGSIZE)

-----------------------------------------------------------------------------
(* The loader. *)

CallLoad ==
  /\ call.op = "load" /\ result = NULL
  /\ LET x == [vm |-> Booted(call.frames, call.kpages),
               mem |-> [k \in 1 .. call.frames |-> [i \in 0 .. PGSIZE - 1 |-> 99]]]
     IN result' = load(x, 1, call.exe, Append(call.input, NUL))
  /\ UNCHANGED call

\* Cell a of the address space that was loaded.
Cell(a) == result.x.mem[Pte(result.x.vm, 1, a \div PGSIZE).page][a % PGSIZE]
CString(a) == [i \in 1 .. Min({n \in 0 .. PHYS_BASE - 1 - a : Cell(a + n) = NUL}) |-> Cell(a + i - 1)]

\* Four exceptions.  Without a page for its copy of the command line setup_stack
\* returns TID_ERROR, which is true, and load returns true although it has not
\* stored the "initial stack pointer into *ESP".  Without a stack page it goes on
\* and panics.  So it does with words that do not fit the page or pointers[],
\* where the DESIGNDOC has "a simple check" and an exit with status -1.  And the
\* page of its copy is never freed.
StackMissing == result.ok /\ result.esp = NoEntry
StackPageDenied == result.x.vm.free = {} \/ result.x.vm.kfree = 0
TooManyWords(argv) ==
  \/ FoldLeft(LAMBDA n, w : n + Len(w) + 2, 4, argv) > PGSIZE
  \/ Len(argv) > PointerCnt
CopyLost == IF result.esp = NoEntry THEN 0 ELSE 1

\* load succeeds, given the memory, exactly for an executable with a good header
\* whose segments are consistent, inside the file and the user's space, apart
\* from each other and clear of page 0 and of the stack.  Then the segments hold
\* their bytes followed by zeros, with their rights, and a program finds argc and
\* its words through argv at the stack pointer.  Whether it succeeds or fails, the
\* kernel does not panic, and the end of the process gives all pages back.  All
\* this with the exceptions named above.
LoadsRight ==
  Returned("load") =>
    LET vm == result.x.vm
        last == PdCnt * PtCnt - 1
        segments == {i \in DOMAIN call.exe.phdrs : call.exe.phdrs[i].type = "load"}
        seg(i) == call.exe.phdrs[i]
        pages(i) == seg(i).vaddr \div PGSIZE .. (seg(i).vaddr + seg(i).memsz - 1) \div PGSIZE
        good == /\ call.exe.found /\ call.exe.header
                /\ \A i \in DOMAIN call.exe.phdrs : seg(i).type # "refused"
                /\ \A i \in segments :
                     /\ seg(i).offset % PGSIZE = seg(i).vaddr % PGSIZE
                     /\ seg(i).offset + seg(i).filesz <= call.exe.length
                     /\ seg(i).memsz >= seg(i).filesz /\ seg(i).memsz > 0
                     /\ pages(i) \subseteq 1 .. last - 1
                     /\ \A j \in segments : i # j => pages(i) \cap pages(j) = {}
        input == SubSeq(call.input, 1, Min({Len(call.input), PGSIZE - 1}))
        begins == {i \in DOMAIN input : input[i] # SPACE /\ (IF i = 1 THEN TRUE ELSE input[i - 1] = SPACE)}
        upto(i) == Min({j \in i .. Len(input) + 1 : IF j > Len(input) THEN TRUE ELSE input[j] = SPACE}) - 1
        argv == [n \in 1 .. Cardinality(begins) |->
                   LET i == CHOOSE b \in begins : Cardinality({c \in begins : c <= b}) = n
                   IN SubSeq(input, i, upto(i))]
        fits == ~TooManyWords(argv)
        plenty == call.frames = 2 * PdCnt /\ call.kpages = PdCnt + 2
        after == pagedir_destroy(vm, 1)
    IN /\ plenty /\ fits => (result.ok <=> good)
       /\ fits /\ ~StackPageDenied => ~vm.panic
       /\ result.ok /\ ~StackMissing => good
       /\ result.ok /\ fits =>
            \A i \in segments :
              /\ \A u \in pages(i) : Present(vm, 1, u) /\ Pte(vm, 1, u).writable = seg(i).writable
              /\ \A n \in 0 .. seg(i).memsz - 1 :
                   Cell(seg(i).vaddr + n) = IF n < seg(i).filesz THEN FileByte(seg(i).offset + n) ELSE 0
       /\ result.ok /\ fits /\ ~StackMissing =>
            /\ Cell(result.esp + 1) = Len(argv)
            /\ \A n \in 1 .. Len(argv) : CString(Cell(Cell(result.esp + 2) + n - 1)) = argv[n]
            /\ Cell(Cell(result.esp + 2) + Len(argv)) = 0
       /\ vm.pd[1] # NoEntry /\ ~vm.panic =>
            /\ after.free = 1 .. call.frames
            /\ after.kfree = call.kpages - CopyLost
=============================================================================
