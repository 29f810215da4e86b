------------------------------- MODULE Loader ------------------------------
(***************************************************************************)
(* The loader, load and the functions under it in userprog/process.c.      *)
(*                                                                         *)
(* A load works on a record of the page directories and the contents of    *)
(* the pages of the user pool, whose cells hold a character, an integer or *)
(* a pointer each.  Addresses wrap around at AddrCnt.  Byte o of an        *)
(* executable is o + 1, so that it cannot be taken for another or for 0.   *)
(***************************************************************************)
EXTENDS Strings, Pagedir

CONSTANT PointerCnt       \* elements of pointers[] in setup_stack

FileByte(o) == o + 1
ROUND_UP(x) == ((x + PGSIZE - 1) \div PGSIZE) * PGSIZE
SPACE == 32

validate_segment(phdr, length) ==
  /\ phdr.offset % PGSIZE = phdr.vaddr % PGSIZE
  /\ phdr.offset <= length
  /\ phdr.memsz >= phdr.filesz
  /\ phdr.memsz # 0
  /\ is_user_vaddr(phdr.vaddr)
  /\ is_user_vaddr((phdr.vaddr + phdr.memsz) % AddrCnt)
  /\ (phdr.vaddr + phdr.memsz) % AddrCnt >= phdr.vaddr
  /\ phdr.vaddr >= PGSIZE

\* palloc_get_page (PAL_USER).
Took(x, k) == [x EXCEPT !.vm.free = @ \ {k}]

\* Mutant: the page is not freed if it cannot be mapped.
InstallOrLose(x, d, u, k, writable) ==
  LET r == pagedir_set_page(x.vm, d, u, k, writable)
  IN IF pagedir_get_page(x.vm, d, u) = NoEntry /\ r.ok
       THEN [ok |-> TRUE, x |-> [x EXCEPT !.vm = r.vm]]
       ELSE [ok |-> FALSE, x |-> x]

\* install_page, after which its callers free the page k if it fails.
install_page(x, d, u, k, writable) ==
  LET r == pagedir_set_page(x.vm, d, u, k, writable)
  IN IF pagedir_get_page(x.vm, d, u) = NoEntry /\ r.ok
       THEN [ok |-> TRUE, x |-> [x EXCEPT !.vm = r.vm]]
       ELSE [ok |-> FALSE, x |-> [x EXCEPT !.vm.free = @ \cup {k}]]

\* load_segment: a page at a time, until there is no page, the file is too
\* short or the page cannot be mapped.
RECURSIVE load_segment(_, _, _, _, _, _, _, _)
load_segment(x, d, length, ofs, u, read, zero, writable) ==
  LET k == Min(x.vm.free)
      n == IF read < PGSIZE THEN read ELSE PGSIZE
      page == [i \in 0 .. PGSIZE - 1 |-> IF i < n THEN FileByte(ofs + i) ELSE 0]
      r == install_page([Took(x, k) EXCEPT !.mem[k] = page], d, u, k, writable)
  IN IF read = 0 /\ zero = 0 THEN [ok |-> TRUE, x |-> x]
     ELSE IF x.vm.free = {} \/ (n > 0 /\ ofs + n > length) THEN [ok |-> FALSE, x |-> x]
     ELSE IF ~r.ok THEN r
     ELSE load_segment(r.x, d, length, ofs + n, u + 1, read - n, zero - (PGSIZE - n), writable)

\* The loop of load over the program headers.
RECURSIVE load_headers(_, _, _, _)
load_headers(x, d, length, phdrs) ==
  IF phdrs = <<>> THEN [ok |-> TRUE, x |-> x]
  ELSE LET p == Head(phdrs)
           offset == p.vaddr % PGSIZE
           end == ROUND_UP(offset + p.memsz)
           read == IF p.filesz > 0 THEN offset + p.filesz ELSE 0
           r == load_segment(x, d, length, p.offset - (p.offset % PGSIZE), p.vaddr \div PGSIZE,
                             read, end - read, p.writable)
       IN IF p.type = "ignored" THEN load_headers(x, d, length, Tail(phdrs))
          ELSE IF p.type = "refused" \/ ~validate_segment(p, length) THEN [ok |-> FALSE, x |-> x]
          ELSE IF ~r.ok THEN r
          ELSE load_headers(r.x, d, length, Tail(phdrs))

-----------------------------------------------------------------------------
(* setup_stack. *)

\* The words of a command line, which is cut to a page.
Word_At(mem, i) == SubSeq(mem, i, i + strlen(mem, i) - 1)
words(input) ==
  LET copy == strlcpy([i \in 1 .. PGSIZE |-> NUL], 1, input, PGSIZE).mem
      t == tokens(copy, 1, <<SPACE, NUL>>, <<>>)
  IN [i \in DOMAIN t.starts |-> Word_At(t.mem, t.starts[i])]

\* Where word i goes, each below the one before it.
RECURSIVE pointers(_, _)
pointers(w, i) == IF i = 0 THEN PHYS_BASE ELSE pointers(w, i - 1) - (Len(w[i]) + 1)

\* All that is written for the words w: from the top their characters, a null
\* pointer, the pointers to the words, argv, argc and a return address.
stack(w) ==
  LET n == Len(w)
      base == pointers(w, n)
      esp == base - n - 4
  IN [a \in esp .. PHYS_BASE - 1 |->
        IF a >= base
          THEN LET i == CHOOSE j \in 1 .. n : a \in pointers(w, j) .. pointers(w, j - 1) - 1
               IN (w[i] \o <<NUL>>)[a - pointers(w, i) + 1]
        ELSE CASE a = esp -> 0
               [] a = esp + 1 -> n
               [] a = esp + 2 -> esp + 3
               [] a = base - 1 -> 0
               [] OTHER -> pointers(w, a - esp - 2)]

\* The kernel writes cells of the address space d.
CanWrite(x, d, u) == u \in UserPage /\ Present(x.vm, d, u) /\ Pte(x.vm, d, u).writable
Stored(x, d, cells) ==
  LET at(k, i) == {a \in DOMAIN cells : a % PGSIZE = i /\ Pte(x.vm, d, a \div PGSIZE).page = k}
  IN [x EXCEPT !.mem = [k \in DOMAIN @ |-> [i \in 0 .. PGSIZE - 1 |->
                          IF at(k, i) = {} THEN @[k][i] ELSE cells[Min(at(k, i))]]]]

\* setup_stack.  Without a page for the copy it returns TID_ERROR, which is
\* true; without a stack page it goes on and writes to where it would be.  More
\* words than pointers[] holds, and a write to a page that is not there, end in
\* a panic.
setup_stack(x, d, input) ==
  LET copied == [x EXCEPT !.vm.kfree = @ - 1]
      k == Min(x.vm.free)
      top == PdCnt * PtCnt - 1
      zeroed == [Took(copied, k) EXCEPT !.mem[k] = [i \in 0 .. PGSIZE - 1 |-> 0]]
      r == IF x.vm.free = {} THEN [ok |-> FALSE, x |-> copied]
           ELSE install_page(zeroed, d, top, k, TRUE)
      cells == stack(words(input))
  IN IF x.vm.kfree = 0 THEN [ok |-> TRUE, x |-> x, esp |-> NoEntry]
     ELSE IF \/ Len(words(input)) > PointerCnt
             \/ \E a \in DOMAIN cells : ~CanWrite(r.x, d, a \div PGSIZE)
       THEN [ok |-> FALSE, x |-> [r.x EXCEPT !.vm = Panic(@)], esp |-> NoEntry]
     ELSE [ok |-> r.ok, x |-> Stored(r.x, d, cells), esp |-> Min(DOMAIN cells)]

\* load.  The executable is found or not and its header is good or not; where
\* it has a program header that cannot be read, the header counts as bad.
load(x, d, exe, input) ==
  LET created == [x EXCEPT !.vm = pagedir_activate(pagedir_create(@, d), d)]
      r == load_headers(created, d, exe.length, exe.phdrs)
      s == setup_stack(r.x, d, input)
      failed(y) == [ok |-> FALSE, x |-> y, esp |-> NoEntry]
  IN IF x.vm.kfree = 0 THEN failed(x)
     ELSE IF ~exe.found \/ ~exe.header THEN failed(created)
     ELSE IF ~r.ok THEN failed(r.x)
     ELSE s
=============================================================================
