# A TLA+ model of the TurboBaker5000 kernel

TurboBaker5000 is a Pintos kernel: a small operating system for one x86 CPU, with kernel
threads, synchronization primitives, user processes, a file system and a handful of device
drivers. This directory models it in TLA+, checks the models with TLC on small instances, and
proves the central properties with TLAPS for instances of any size.

## 1. The system: parts, state, operations

| part | source (`src/src/`) | state | operations | why it is hard |
|---|---|---|---|---|
| scheduler | `threads/thread.c`, `switch.S` | `ready_list`, `all_list`, `idle_thread`, `thread_ticks`, status of each thread | create, block, unblock, yield, exit, tick, `idle`, start-up | preemption at any instruction with interrupts on; one list element shared by two kinds of list |
| synchronization | `threads/synch.c` | semaphore value and waiters, lock holder, condition waiters | down, try_down, up; acquire, try_acquire, release; wait, signal, broadcast | wake-ups lost or stolen; `holder` written outside the interrupts-off section |
| interrupts, timer | `threads/interrupt.c`, `devices/timer.c`, `pit.c` | interrupt level, `yield_on_return`, `ticks` | handler dispatch, `timer_interrupt`, `timer_sleep` | runs between any two steps |
| processes | `userprog/process.c`, `exception.c`, `tss.c`, `gdt.c` | `wait_called`, `waiting_thread`, exit statuses, `pagedir` | execute, load, wait, exit, activate | a pointer to a thread kept while the thread may die |
| system calls | `userprog/syscall.c` | `fds`, `io_lock` | exec, wait, exit, create, open, read, write, seek, tell, close | validation and resources on error paths |
| loader, faults | `userprog/process.c`, `exception.c` | segments, initial stack | load, `page_fault` | failure at every page; addresses that wrap |
| page directories | `userprog/pagedir.c` | page tables, CR3, translation buffer | create, destroy, set, clear, dirty and accessed bits, activate | destroying the directory in use; stale translations |
| page allocator | `threads/palloc.c` | two bitmaps | get, free | freed without the lock |
| block allocator | `threads/malloc.c` | free lists, arenas | malloc, realloc, free | an arena returned to palloc when its last block is freed |
| interrupt queues, input | `devices/intq.c`, `input.c`, `kbd.c`, `serial.c` | ring buffer, waiting reader and writer | getc, putc | producer in an interrupt handler |
| disks | `devices/ide.c`, `block.c`, `partition.c` | `expecting_interrupt`, completion semaphore | read, write, interrupt | late and spurious interrupts |
| file system | `filesys/*.c` | free map, open inodes, directories, buffer cache | create, open, read, write, remove, close | no lock in most of it; partial failure of create |
| library | `lib/kernel/*.c`, `lib/*.c` | lists, hash tables, bitmaps, strings | sort, merge, rehash, scan, `printf` | boundaries |
| virtual memory | `vm/*.c` | frame table | none in use | not compiled |

The kernel is one CPU. Between two instructions that run with interrupts on, the timer may
preempt the running thread; a section with interrupts off is atomic until it calls
`schedule()`. Every module uses that granularity.

## 2. Modules

| module | what it is |
|---|---|
| `Threads` | the fragments of `thread.c`: run queue, `schedule`, block, unblock, yield, exit, tick. No specification of its own. |
| `Synch` | the kernel threads at work: semaphores, locks, condition variables, creation and exit, the idle thread, the timer and a device interrupt. |
| `Monitor` | the abstract specification: what a lock with its condition variables promises. |
| `SynchMonitor` | the refinement mapping from `Synch` to `Monitor`. |
| `ThreadProofs`, `SynchProofs`, `QueueProofs` | proofs: the run queue; the types and locks of `Synch` and the invariant of its queues; its wake-ups and signals, and the refinement. |
| `ProcessProofs`, `MemoryProofs`, `SerialProofs`, `FilesysProofs`, `IdeProofs` | proofs about the module of that name. |
| `Counting` | the facts about finite sets that the proofs count with. |
| `Process` | processes: execute, load, wait, exit, and the page directory in use. |
| `IntQueue`, `Serial` | interrupt queues as operators; the console, the serial port and input on top of them. |
| `Memory` | the page allocator and the block allocator on top of it. |
| `Filesys` | free map, inodes, root directory and open files, one operation at a time. |
| `Syscall` | the file system calls of several processes, down to the list of open inodes, step by step. |
| `Ide` | the disk driver, with partitions in front of it and the controller behind it. |
| `Lists`, `Hash`, `Bitmaps`, `Stdlib`, `Partition`, `InodeIO`, `Strings`, `Format` | sequential algorithms as operators. |
| `Keyboard`, `Pagedir`, `Loader` | the keyboard driver, page directories with page faults, and the loader, as operators on their state. |
| `Library`, with `TextCalls` and `VmCalls` (and `Calls`, their variables) | call those operators with every small argument, or in every order. |
| `MCSynch`, `MCProcess`, `MCSerial`, `MCMemory`, `MCFilesys`, `MCIde` | instances for TLC. |

### Threads and Synch

A thread is the page that holds its `struct thread`. `pc` says where a thread is inside an
operation, `on` which semaphore or lock the operation works on, `ret` where a nested call
returns to, `cond` the condition variable of a `cond_wait` or `cond_broadcast`. A lock's
semaphore goes by the name of the lock, the private semaphore of a `cond_wait` by the name of
its thread. Threads call any operation whose assertions hold, in any order. `sema_down` is one
turn of its loop per step: a thread that was woken tests the value again in a step of its own
(`SemaDownLoop`), which is where wake-ups can be stolen. `lock->holder` is set and cleared in
steps of their own, because the code does both with interrupts on. `next_tid++` is a load and a
store under `tid_lock`.

### Process

`process_wait` is modelled statement by statement: find the thread, test `wait_called`, set it,
register, block. Its pointer `t` may outlive the thread: the page is then free, a read of it
gives any value, and a later process may live in the page. The kernel pool is a count of pages,
so that every allocation of `exec`, `process_execute`, `start_process` and `load` can fail.
`process_wait` returns with interrupts off; a system call turns them on by returning to user
code, `run_task` does not (`level`). A failed assertion sets `panic` and stops the system. The
history variables `parent`, `exited` and `woken_by` are read by properties only. What `load` does
between opening and closing the executable is in `Loader`; here it fails or succeeds, and its
`setup_stack` keeps the page of its copy of the command line for ever (`LoadDone`).

Two departures of `process_wait` from its comment ("Waits for thread TID to die and returns its
exit status", `process.c:85`) have no run of their own. A child that exits between the test of
`wait_called` and the registration leaves its parent registered in a freed page and blocked for
ever; and waiting for a process that has already exited returns -1.

### Serial and IntQueue

A step is one interrupts-off section, up to the point where it blocks. `IntQueue` has
`intq_getc` and `intq_putc` as operators on the record of a `struct intq`; `Serial` has the
transmit queue and the input buffer, the two modes of the driver before and after
`serial_init_queue`, the interrupt enable register, the handler, the keyboard handler, the
console lock, `serial_flush` and a panic, after which the console no longer takes its lock.
Bytes are numbered as the driver accepts them, so that order and loss are visible on the line.
The transmitter (`ShiftOut`) is external. The recursion depth of the console lock is left out.

### Memory

`palloc_get_multiple` reads and writes its bitmap bit by bit under the pool lock, and
`palloc_free_multiple` clears bits without it, from threads and from the scheduler, which frees
the page of a dead thread. `malloc`, `free` and `realloc` keep a descriptor's free list and the
`free_cnt` of each arena. One pool stands for both, since they share nothing; contents of
blocks, and with them `calloc`, are left out.

### Filesys

Every operation is one step: the system calls make it under `io_lock`, and what happens where
the lock is not taken is the subject of `Syscall`. Each allocation inside an operation may fail,
and so may each write of the free map file, so that memory (`free_map`) and file (`map_file`) can
differ. Writes of that file and of the directory go to the buffer cache: `dirty` says that a block
there has not reached the disk, `BlockEvict` writes the last such block. A reboot that finds no
dirty block (`Reboot`) keeps what the files say. `filesys_done` "writing any unwritten data to disk"
(`filesys.c:33`) closes the free map and writes no dirty block, so a reboot may also lose one
(`RebootUnwritten`): then free map, directory and inodes, which go to the disk at once, may be of
different times. The model ends in that state (`torn`) and the properties say nothing of it, because
there the code keeps no promise that could be stated. The sectors that the code loses, where
`filesys_create` fails at `dir_add` after `inode_create` has allocated the data and where a reboot
finds sectors marked that nothing leads to, are collected in `lost`.

### Syscall

A call is a program, the sequence of steps that its process has still to take; the timer can
preempt a process between any two. The steps are those of `inode_open` (search `open_inodes`,
count an inode that was found, or allocate, link and read a new one), of `inode_close` (drop the
count, then release), of the directory, and taking and releasing `io_lock`. `exec` looks its
program up before it takes the lock, `load` and `process_exit` open and close files without it,
and `filesize` reads an inode without it. A single `open_cnt++` or `--open_cnt` is atomic, as one
instruction on one CPU is. `raced` records that two processes were inside the file system at once.
As long as that has not happened, `InodesReferenced` and `OpenFilesKept` hold; afterwards the run
`inode_shared` shows what goes wrong. A step through a pointer to a freed inode stops the model
(`Wild`). Pointer arguments are null, in the kernel, without a page table, without a page, or
good; `pagedir_is_mapped` lets the fourth kind through, and the kernel then faults.

By reading and in the model: a descriptor that is not open makes `read`, `write`, `seek`, `tell`
and `filesize` fail an assertion, and so may `fd` = 128, which is past the end of `fds` and
which the test `fd > 128` lets through; `tests/userprog/read-bad-fd.c:2` asks that such a call "must
either fail silently or terminate the process". A position or a size that is negative as an `off_t`
fails an assertion of `file_seek` or `inode_create`, a command of blanks one of `dir_lookup`.
`read` from descriptor 0 exits because of the test `fd == NULL`. `exec` never closes the file it has looked up and never frees its copy of the
command line.

### Pagedir and Loader

`Pagedir` has directories of page tables whose entries have the bits of `pte.h`, and the CPU that
uses them: the translation buffer keeps what it has looked up until CR3 is written, and sets the
accessed and dirty bits (external). `page_fault` maps a page for a write by the user to a page
that is not there, `kill` ends the process or panics. `VmCalls` lets two processes map, unmap,
mark, access, switch and exit in any order. A page fault for which there is no free page returns
and is taken again, without end.

`Loader` has `load` down to the bytes of the pages, with memory that can run out at each of them.
A cell of a page is a character, an integer or a pointer. By reading and in the model,
`setup_stack` returns TID_ERROR, which counts as true, if it gets no page for its copy of the
command line, so that `load` succeeds without a stack (`StackMissing`), and does not free that copy
(`CopyLost`); it writes the stack also if it has not got a page for it, which panics the kernel
(`StackPageDenied`); and neither the 128 `pointers` nor the one page of the stack is tested for room
(`TooManyWords`), where `userprog/DESIGNDOC:46` has "a simple check" and an exit with status -1.
`LoadsRight` names these cases and asks for a complete load, a full stack and no page lost in all
others. `pagedir_is_mapped` says yes for a page whose table exists, mapped or not; `MappingsRight`
states the one direction that holds.

### Strings, Format, Keyboard

Strings are sequences of small numbers that end in 0, in memories that are sequences too, so that
overlap and the bytes after a string are visible. `Format` parses a conversion and converts with
integers of `CharBits` to `MaxBits` bits and a buffer of `BufSize`. `Keyboard` has the real scan
codes and key maps. In the model as in the code, `memmove` returns DST advanced by SIZE where it
copies upwards (`MovedUp`), and `strlcat` leaves a string that fills SIZE bytes or more as it is
instead of limiting it to SIZE - 1 characters (`AlreadyFull`), both of which `StringsRight` excepts;
`bitmap_scan_and_flip` of no bits returns START, where its comment says 0; `%0*d` with a
negative width pads on both sides (`PaddedTwice`, which `FormatsRight` excepts); separators of groups
count towards the precision. A format that ends inside a conversion is read past its end (`beyond`);
no run has one.

### Ide

The driver's steps are its accesses to the registers of the channel and to its semaphore. The
controller (`DataReady`, `DataWanted`, `Written`, `Aborted`) and the interrupt line are external:
they act between any two steps, take any time and may fail a command, before its data are
transferred or after. A read or the start of a write that fails panics the kernel; `ide_write` does
not look at the status once the data are out, so a write whose sector was not stored returns like any
other (`WriteFailed`, which `DiskAgrees` excepts; the comment of `ide_write` promises only that the
disk "has acknowledged receiving the data"). A sector is one value; a write to a partition of a
foreign type fails the assertion of `block_write`. Resetting the channel and the list of block devices are left out.

### The sequential algorithms

They are written as the code computes: `Lists` on sequences and, for splicing and reversing, on
`prev` and `next` pointers; `Hash` on buckets with `rehash`, which may get no memory; `Bitmaps`
on elements of `ELEM_BITS` bits; `Stdlib` with the heap sort, the binary search and the
double-word division for words of `W` bits, whose remainders are cut to one word (`RemainderCut`,
`SignedRemainderCut`: `umod64` and `smod64` return 32 bits, against their comments, and
`QuotientsRight` asks for the exact remainder where it fits); `Partition` with sector numbers that wrap around;
`InodeIO` with the loop that cuts a request into chunks of sectors. `read_partition_table`
always reads sector 0, so a table whose extended partitions lie within the first half of the
device recurses for ever; `MaxDepth` cuts that off.

By reading, `init.c` calls `block_cache_create` at boot, which passes a null hash table to
`hash_init`, and `cache.c` looks blocks up through a pointer that was never set; `inode_read_at`
uses the null pointer of a missed lookup; `cache_and_write_block` copies the 4 bytes of
`sizeof sec_block->buffer`. The models of processes and files describe their
components in a kernel whose cache has got past those: what is read from a sector is what was
last written to it.

## 3. Runs

Passing:

| run | what is checked |
|---|---|
| `live` | two workers, main and idle, one semaphore upped by threads and by an interrupt, sleeping threads, under fairness: `TypeOK`, `ThreadsQueued`, `NoLostWakeup`; `ReadyRuns`, `SleepEnds` |
| `monitor` | two workers and main, one lock, one condition variable, a tick at every step if it likes, pages reused by new threads: `MutualExclusion`, `NoLostSignal`, and the refinement `ImplementsMonitor` |
| `process` | three process pages, twelve kernel pages, identifiers up to five: `ActivePagedirExists`, `OwnPagedirActive`, `WokenWithStatus` |
| `serial` | two writers, two readers, both interrupts, a panic: `CharactersInOrder`, `WaitersServed`; `OutputSent`, `WriterResumes` |
| `syscall` | two processes, one name, one sector for it, three inodes, one `exec`: `InodesReferenced`, `OpenFilesKept`; `LockComesFree` |
| `memory` | two threads and the scheduler, three pages: `UsedExactly`, `PagesExclusive`, `BlocksAccounted` |
| `filesys` | two names, two files, eight sectors, reboots with and without dirty blocks: `FilesDisjoint`, `SectorsAccounted`, `InodesCounted` |
| `ide` | two threads, two disks, three partitions of which one is foreign: `NoStaleCompletion`, `IssuedWhenIdle`, `DiskAgrees`; `RequestsComplete` |
| `library` | `ListsRight`, `ArraysRight`, `TableHoldsContents`, `PartitionsInside`, `ChunksCover`, `BitmapsAgree`, `QuotientsRight`, `StringsRight`, `FormatsRight`, `ModifiersTracked`, `MappingsRight`, `LoadsRight`: each algorithm against its reference definition, each driver against a history of what was done to it |

The run `live` checks `TypeOK` of `Synch`. No run is spent on `TypeOK` of the other modules; it is
proved for all of them but `Syscall`.

Runs that TLC refutes, each stating what a comment or design document says:

| run | the code |
|---|---|
| `wait_race` | a child that exits between its parent's registration and `thread_block` panics the kernel |
| `inode_shared` | `exec` and `load` open without `io_lock`, and two `struct inode`s for one file are open at a time, against the comment on `open_inodes` |
| `fault_page` | `page_fault` rounds an address in the upper half of the address space up instead of down, because `(int) fault_addr % PGSIZE` is negative there; the page that faulted is not brought in |

Bounds. Three threads besides idle are enough for a wake-up to be stolen (one waits, one ups,
one takes) and for two waiters to be signalled in the wrong order; identifiers (`MaxTid`) leave
room for pages to be used twice, so a dead thread's page is seen by its successor. Three process
pages let two processes wait for a third; twelve kernel pages run out in different places of an
execution. `MaxValue` bounds semaphore values at 2, more than one unit above what one waiter
needs. A `timer_sleep` of one tick (`MaxSleep`) already goes around its loop any number of times. Symmetry permutes the pages of `process`, which the code treats alike; liveness and
refinement are checked without it.

Two processes, and one name with one sector, are the least with which a file is removed while the
other process has it open, is created again in the sector that the last close has released, and is
opened twice at once. (`filesys` has the case of a second sector for the new file.) One descriptor each (`FD_CNT` = 3) and three inodes, the root's and two of
the file, let tables fill up; a second `exec` adds only another leaked file.

A transmit queue of three places holds two bytes, so that five bytes fill it, wrap it around and
make a writer wait. Three pages make a run of two pages and an arena compete, and two blocks per
arena are the least with which an arena can be partly free. Eight sectors, four of them the file
system's own, hold one file of two sectors or two small ones, and a third create fails; two
files can share one inode. Two disks on a channel share its lock, semaphore and interrupt. In
`library`, lists of six elements take three passes of the merge sort, words of four bits reach
every branch of the division, bitmaps of up to six bits have elements of three, and files of up
to ten bytes have sectors of four. Strings of up to four characters from an alphabet of two have
every overlap with a pattern; integers of 4, 6, 8 and 14 bits keep the relations of 8, 16, 32 and
64, and a buffer of 8 is smaller than a precision of 9. Address spaces have six pages in three
tables, of which pages 3 and 4, of different tables and on either side of the middle of the address
space, are mapped by two processes with two frames; the loader gets from no memory to plenty and up to two segments.

Fairness (`live`). The timer interrupt is strongly fair: the interrupt controller keeps a tick
pending while interrupts are off. Each thread is strongly fair in continuing an operation: a
thread that is given the CPU again and again executes instructions between ticks. Calls are
never fair; a thread need not call anything.

In `serial` the transmitter, the serial interrupt, the last step of `serial_init_queue`, a woken
writer and the flush of a panic are weakly fair: the hardware keeps shifting, a pending
interrupt is taken, and `live` shows that a ready thread runs. In `syscall` each process is weakly
fair in the steps of its call, for the same reason; that a wait for `io_lock` ends is not assumed.
In `ide` the driver's steps inside a request, the interrupt and the controller are weakly fair,
and so is the expiry of the waits for a busy disk. That the controller answers has to be assumed:
the code waits for the completion interrupt without a timeout.

`process` and its companions switch off the deadlock check: a panicked kernel stops, and a
process may wait for itself. So do `ide`, where a failed command panics, `library`, where a call
returns, `syscall`, where the machine can be switched off, and `filesys`, whose model ends with a
reboot that loses a dirty block.

## 4. Proofs

TLAPS checks the theorems below for every value of the constants that the assumptions allow: any
number of threads, semaphores, locks, processes, pages, descriptors, sectors, files. Each is
`Spec => []P` for a property `P` (for the refinement, `Spec => M!MSpec`), proved from an
inductive invariant: the initial states satisfy it, each action keeps it, and it implies `P`. Each
inductive invariant was checked by TLC on the instance of its run before it was proved.

| module | theorem | states |
|---|---|---|
| `SynchProofs` | `TypeCorrect`, `LocksExclude` | `TypeOK`, `MutualExclusion` |
| `QueueProofs` | `ThreadsFound`, `WakeupsKept`, `SignalsKept` | `ThreadsQueued`, `NoLostWakeup`, `NoLostSignal` |
| `QueueProofs` | `LocksAreMonitors` | `ImplementsMonitor`, the refinement of `Monitor` |
| `ProcessProofs` | `ProcessTypes`, `NoDestroyedPagedir`, `RunningPagedir`, `WaitGivesStatus` | `TypeOK`, `ActivePagedirExists`, `OwnPagedirActive`, `WokenWithStatus` |
| `MemoryProofs` | `MemoryTypes`, `PagesAccounted`, `NoSharedPage`, `BlockCountsExact` | `TypeOK`, `UsedExactly`, `PagesExclusive`, `BlocksAccounted` |
| `SerialProofs` | `SerialTypes`, `BytesInOrder`, `WaitersKnown` | `TypeOK`, `CharactersInOrder`, `WaitersServed` |
| `FilesysProofs` | `FilesysTypes`, `NoSharedSector`, `FreeMapExact`, `InodesCountedExactly` | `TypeOK`, `FilesDisjoint`, `SectorsAccounted`, `InodesCounted` |
| `IdeProofs` | `IdeTypes`, `NoCompletionLeft`, `CommandsWhenIdle`, `RequestsServed` | `TypeOK`, `NoStaleCompletion`, `IssuedWhenIdle`, `DiskAgrees` |

### The arguments

* `TypeCorrect`. `TypeOK` is not inductive. `schedule()` picks `idle_thread` when the run queue is
  empty, which is NULL until `idle()` has run, so `BootOK` says that until then the idle thread is
  running or queued, or main has not yet created it. `ControlOK` ties `pc` to `on`, `ret`, `cond`
  and `child`, so that an operation always has the operand it uses. `ThreadProofs` has one lemma
  per fragment of the scheduler, which `Synch` and `Process` share; then there is one step per
  action.
* `LocksExclude`. The strengthening `LockOK` speaks of the two stretches in which a thread has the
  lock and `holder` does not say so (`Handing`): there is at most one such thread, `holder` is
  then NULL and the semaphore is 0.
* `ThreadsFound`, `WakeupsKept`. One list element serves the run queue and the wait lists, so
  `QueueInv` says where each thread is: `Findable` places the blocked ones, `ChildOK` gives a
  thread under creation one creator, `FreeOK` keeps dead pages off the lists. With
  `QueueInv`, `NoLostWakeup` is inductive (`WakeInv`): each kind of step (a move, a `sema_down`, a
  `sema_up`, a switch) changes the value of a semaphore and the number of its woken threads together.
* `SignalsKept`. `SignalInv` follows the private semaphore of a `cond_wait` from the list of the
  condition through the signaller to its one up.
* `LocksAreMonitors`. The monitor's owner is the thread that has the lock, in the sense of
  `MutualExclusion`, and its wait queues are the lists of the conditions without the owner: a
  thread that is in `cond_wait` and has not yet given up the lock is on the list, but still inside
  the monitor. The mapping is a step of the monitor only if that thread is the newest of its
  list, which `MonitorInv` says; it holds because everyone else who changes the list must hold the
  lock. The proof then has a lemma for each step of a thread that the monitor sees (take, release,
  wait, signal, broadcast) and one for those that it does not.
* `Process`. `ProcessInv` adds to the properties where each thread is in its life (`PlacesOK`), that
  each page directory belongs to one live thread (`PagedirsOK`), that identifiers are not given
  twice (`TidsOK`), and the count of pages that allocations draw on (`PagesCounted`).
* `Memory`. A page has one owner: a caller, an arena, or a call that is half-way through its scan,
  its scrubbing or its clearing of bits. `PageInv` says so and that a scan under the lock has found
  only free pages, which stay free although bits are cleared meanwhile. `BlockInv` counts an arena's free blocks on
  the list, and `OldOK` keeps the block of a `realloc` held until it is copied.
* `Serial`. The contents of the ring buffer, from `tail` to `head` and around the end, are a run of
  consecutive numbers (`TxOrder`, `RxOrder`); a waiter's condition stays false as long as it sleeps
  (`TxWait`, `RxWait`); the enable register agrees with the queues (`IerInv`).
* `Filesys`. `SectorInv` says that the extents of files on disk or open lie within the device, apart
  from each other and from the lost sectors, that the free map in memory marks exactly these, and
  that its file marks at least those on disk; `InodeInv` that an open inode is counted by
  its files, the free map's own being one more. Both hold until a reboot loses a dirty block
  (`DiskInv`); a reboot that loses none reads a free map file that marks all that the disk leads to.
* `Ide`. `ChannelInv`: at most one thread is between acquiring and releasing the channel (`OneUser`),
  and its place determines what the controller, the interrupt and the semaphore may be (`Channel`);
  if there is none, all are at rest, the status perhaps showing the error of a write.

Cardinalities of finite sets come from `FiniteSetTheorems`. The long proofs take the few facts they
need as a hypothesis, `Counting` or `Ranking`, and discharge it at the end of the module, before the
theorems; nothing is assumed by a theorem.

### Assumptions

Only on constants, each named in the module that declares them: names are apart and bounds are
numbers (`ThreadAssumption`, `SynchAssumption`, `ProcessAssumption`, `SerialAssumption`,
`MemoryAssumption`); memory has finitely many pages (`PagesFinite`); the lock of the monitor is one of
the locks (`MonitorAssumption`); a queue has at least two places, of which one stays empty
(`IntQueueAssumption`; the code has 64); a device has room for the two system inodes and their data
(`FilesysAssumption`); a channel has one or two disks and partitions lie within them
(`IdeAssumption`). The limits of the instances (`MaxTid`, `MaxValue`, `MaxOut`, ...) stay in the
guards, with any value.

### Model-checked only

* `ReadyRuns`, `SleepEnds`, `OutputSent`, `WriterResumes`, `LockComesFree`, `RequestsComplete`: liveness
  under fairness is beyond the prover.
* `InodesReferenced` and `OpenFilesKept` of `Syscall`: safety, and provable in principle; not done.
* The properties of `library`: the algorithms recurse over their data, and what a recursive definition
  computes for every input cannot be proved here.

## 5. Not modelled, and the plan

Not modelled, and why:

* boot, descriptor tables and device set-up: sequential code that runs once, before there is
  anything to interleave with;
* `timer.c`'s calibration and its delays of less than a tick, VGA, RTC, speaker: busy loops and
  device registers without state that others depend on;
* lookup and contents of `cache.c`: it works through pointers that are never set, so nothing can be
  said of what it returns before that is repaired (that it delays writes is in `Filesys`); `vm/`: not
  compiled;
* user programs and `lib/user`: clients, which the models allow to make any call;
* `fsutil.c` and `ustar.c`: sequential clients of the file system; `hex_dump`, `atoi`, `random.c`;
* the reset of an IDE channel and the list of block devices; the recursion depth of the console
  lock; `calloc`, whose test for overflow misses products that wrap to more than both factors.

Plan:

1. Hazards noted without a property: command line pages that are never freed, interrupts left off
   by `process_wait` in `run_task`, two readers of one interrupt queue, `calloc`'s overflow test; and
  a property of reboots in general, once `filesys_done` writes the dirty blocks.
2. Proofs: `InodesReferenced` and `OpenFilesKept` of `Syscall`, for any number of processes and
   files; the page directories of `Pagedir`, once its calls are a specification of their own.
