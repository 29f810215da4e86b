------------------------------ MODULE Syscall ------------------------------
(***************************************************************************)
(* The system calls on files, userprog/syscall.c, in several processes,    *)
(* with what they reach: filesys.c and directory.c for looking names up,   *)
(* file.c and the open_inodes list of inode.c.  Calls take io_lock around  *)
(* the file system, except that exec looks its program up before it takes  *)
(* it, a new process loads its program and closes it, an exiting process   *)
(* closes its files, and filesize reads an inode, all without it.          *)
(*                                                                         *)
(* A call is a program: the steps that its process has still to take.  The *)
(* timer can preempt a process between any two.  File contents, positions  *)
(* and wait are left to InodeIO, Filesys and Process; every file has one   *)
(* sector here, that of its inode.                                         *)
(***************************************************************************)
EXTENDS Integers, Sequences, FiniteSets, SequencesExt

CONSTANTS
  Proc,       \* processes that may exist
  First,      \* the one that exists at first
  Name,       \* names of files
  Sector,     \* sectors for inodes; ROOT is that of the root directory
  ROOT,
  InodeId,    \* bound: memory for "struct inode"s
  FD_CNT,     \* elements of fds, 128 in the code
  MaxExec,    \* bound: calls of exec
  NULL

ASSUME SyscallAssumption ==
  /\ First \in Proc /\ ROOT \in Sector /\ FD_CNT \in Nat /\ FD_CNT > 2
  /\ MaxExec \in Nat /\ NULL \notin Proc \cup Sector \cup InodeId

Fd == 2 .. FD_CNT - 1
Reg == {"root", "file"}                   \* the directory's inode, and the file's
Pointer == {"null", "kernel", "no_table", "no_page", "ok"}

VARIABLES
  program,      \* the steps a process has still to take in the kernel
  name, fd,     \* arguments of its call
  want,         \* the sector of the file it has looked up
  inode,        \* the inodes it has, by register
  alive,        \* processes that exist
  fds,          \* the inodes of a process's open files
  io_lock,      \* its holder
  dir,          \* the root directory: the sector of each name
  free,         \* free sectors
  open_inodes,  \* the list
  sector, open_cnt, removed,     \* of the inodes on it
  stopped,      \* "no", "off", after a panic, or "wild": freed memory was used
  execs, leaked,  \* number of execs, and the inodes of the files they left open
  raced         \* history: two processes were in the file system at a time

callVars == <<program, name, fd, want, inode>>
nodeVars == <<open_inodes, sector, open_cnt, removed>>
vars == <<callVars, alive, fds, io_lock, dir, free, nodeVars, stopped, execs, leaked, raced>>

TypeOK ==
  /\ want \in [Proc -> Sector \cup {NULL}] /\ inode \in [Proc -> [Reg -> InodeId \cup {NULL}]]
  /\ alive \subseteq Proc
  /\ fds \in [Proc -> [Fd -> InodeId \cup {NULL}]]
  /\ io_lock \in Proc \cup {NULL}
  /\ dir \in [Name -> Sector \cup {NULL}] /\ free \subseteq Sector
  /\ ToSet(open_inodes) \subseteq InodeId
  /\ sector \in [InodeId -> Sector \cup {NULL}] /\ open_cnt \in [InodeId -> Int]
  /\ leaked \in [InodeId -> Nat]
  /\ removed \in [InodeId -> BOOLEAN]
  /\ stopped \in {"no", "off", "panic", "wild"} /\ raced \in BOOLEAN

-----------------------------------------------------------------------------
(* Programs. *)

inode_open(r) == << <<"search", r>>, <<"get", r>> >>
inode_close(r) == << <<"put", r>> >>
filesys_open == inode_open("root") \o << <<"lookup", "file">> >> \o inode_open("file")
                  \o inode_close("root") \o << <<"file_open", "file">> >>
acquire == << <<"acquire", "file">> >>
release == << <<"release", "file">> >>
Locked(steps) == acquire \o steps \o release

create == Locked(inode_open("root") \o << <<"add", "file">> >> \o inode_close("root"))
remove == Locked(inode_open("root") \o << <<"lookup", "file">> >> \o inode_open("file")
                   \o << <<"erase", "file">> >> \o inode_close("file") \o inode_close("root"))

\* Mutant: open returns with the lock.
OpenKeepsLock == acquire \o filesys_open \o << <<"store", "file">> >>

open == Locked(filesys_open \o << <<"store", "file">> >>)
\* read, write, seek and tell; filesize does the same without the lock.
use == Locked(<< <<"use", "file">> >>)
filesize == << <<"use", "file">> >>
close == Locked(<< <<"take", "file">> >> \o inode_close("file"))
exec == filesys_open \o << <<"leave_open", "file">> >> \o Locked(<< <<"execute", "file">> >>)
exec_blank == inode_open("root") \o << <<"lookup_null", "file">> >>
load == filesys_open \o << <<"loaded", "file">> >> \o inode_close("file")
process_exit == << <<"exit", "file">> >>

-----------------------------------------------------------------------------
Each(v) == [p \in Proc |-> v]
NoInode == [r \in Reg |-> NULL]

Init ==
  /\ program = Each(<<>>) /\ name = Each(NULL) /\ fd = Each(0) /\ want = Each(NULL)
  /\ inode = Each(NoInode) /\ alive = {First}
  /\ fds = [p \in Proc |-> [d \in Fd |-> NULL]]
  /\ io_lock = NULL
  /\ dir = [n \in Name |-> NULL] /\ free = Sector \ {ROOT}
  /\ open_inodes = <<>>
  /\ sector = [i \in InodeId |-> NULL] /\ open_cnt = [i \in InodeId |-> 0]
  /\ removed = [i \in InodeId |-> FALSE]
  /\ stopped = "no" /\ execs = 0 /\ leaked = [i \in InodeId |-> 0] /\ raced = FALSE

-----------------------------------------------------------------------------
(* Entering a call.  A pointer is null, to the kernel, to where no page      *)
(* table is, to a page that is not there, or good; what is_mapped lets       *)
(* through and is not there makes the kernel fault, which is a panic.        *)

InUser(p) == stopped = "no" /\ p \in alive /\ program[p] = <<>>

\* Processes that are in the file system.
Outside == {"acquire", "release", "leave_open", "execute", "loaded", "exit", "fault"}
Busy(prog) == {p \in Proc : IF prog[p] = <<>> THEN FALSE ELSE Head(prog[p])[1] \notin Outside}
Noted == raced' = (raced \/ Cardinality(Busy(program')) > 1)

Goes(p, steps) == program' = [program EXCEPT ![p] = steps] /\ Noted

Begin(p, steps, n, d) ==
  /\ Goes(p, steps)
  /\ name' = [name EXCEPT ![p] = n] /\ fd' = [fd EXCEPT ![p] = d]
  /\ want' = [want EXCEPT ![p] = NULL]
  /\ UNCHANGED <<inode, alive, fds, io_lock, dir, free, nodeVars, stopped, execs, leaked>>

Exits(p) == Begin(p, process_exit, NULL, 0)

\* The machine stops, and with it every call.
Stop(why) ==
  /\ stopped' = why
  /\ program' = Each(<<>>) /\ name' = Each(NULL) /\ fd' = Each(0) /\ want' = Each(NULL)
  /\ inode' = Each(NoInode) /\ io_lock' = NULL
  /\ UNCHANGED <<alive, fds, dir, free, nodeVars, execs, leaked, raced>>

Refused == {"null", "kernel", "no_table"}

\* syscall_handler's test of the stack pointer, halt, exit, and page faults in
\* user code that kill the process.
HandlerRefuses(p) == InUser(p) /\ (Exits(p) \/ Stop("panic"))
Halt(p) == InUser(p) /\ Stop("off")

CallCreate(p, n, file) ==
  /\ InUser(p)
  /\ CASE file \in Refused -> Exits(p)
       [] file = "no_page" -> Stop("panic")
       [] OTHER -> Begin(p, create, n, 0)

\* remove does not look at its argument before it has the lock.
CallRemove(p, n, file) ==
  /\ InUser(p)
  /\ CASE file = "ok" -> Begin(p, remove, n, 0)
       [] file = "kernel" -> Begin(p, remove, NULL, 0)
       [] OTHER -> Begin(p, Locked(<< <<"fault", "file">> >>), NULL, 0)

\* The first free descriptor, if there is one.
CallOpen(p, n, file) ==
  /\ InUser(p)
  /\ file # "null"
  /\ CASE file \in Refused -> Exits(p)
       [] file = "no_page" -> Stop("panic")
       [] OTHER -> \E d \in Fd : /\ fds[p][d] = NULL /\ \A e \in Fd : e < d => fds[p][e] # NULL
                                 /\ Begin(p, open, n, d)

CallExec(p, n, cmd_line) ==
  /\ InUser(p) /\ execs < MaxExec
  /\ CASE cmd_line \in Refused -> Exits(p)
       [] cmd_line = "no_page" -> Stop("panic")
       [] OTHER -> Begin(p, exec, n, 0) \/ Begin(p, exec_blank, NULL, 0)

\* The bound on descriptors is one too large: fds[FD_CNT] is not an element.
BadFd(d) == d < 2 \/ d > FD_CNT

\* read, and write but for the console; filesize, seek and tell; close.
CallReadWrite(p, d, buffer) ==
  /\ InUser(p)
  /\ IF BadFd(d) \/ buffer \in Refused THEN Exits(p)
     ELSE \/ Begin(p, use, NULL, d)
          \/ buffer = "no_page" /\ Begin(p, Locked(<< <<"fault", "file">> >>), NULL, d)

\* seek fails file_seek's assertion for a position that is negative as an off_t.
CallSeek(p, d) ==
  /\ InUser(p)
  /\ IF BadFd(d) THEN Exits(p)
     ELSE Begin(p, use, NULL, d) \/ Begin(p, Locked(<< <<"fault", "file">> >>), NULL, d)

CallTell(p, d) == InUser(p) /\ IF BadFd(d) THEN Exits(p) ELSE Begin(p, use, NULL, d)
CallFilesize(p, d) == InUser(p) /\ IF BadFd(d) THEN Exits(p) ELSE Begin(p, filesize, NULL, d)
CallClose(p, d) == InUser(p) /\ IF BadFd(d) THEN Exits(p) ELSE Begin(p, close, NULL, d)

syscall_handler(p) ==
  \/ HandlerRefuses(p) \/ Halt(p)
  \/ \E n \in Name, a \in Pointer :
       CallCreate(p, n, a) \/ CallRemove(p, n, a) \/ CallOpen(p, n, a) \/ CallExec(p, n, a)
  \/ \E d \in 1 .. FD_CNT :
       \/ CallSeek(p, d) \/ CallTell(p, d) \/ CallFilesize(p, d) \/ CallClose(p, d)
       \/ \E a \in Pointer : CallReadWrite(p, d, a)

-----------------------------------------------------------------------------
(* The steps. *)

At(p, kind) == stopped = "no" /\ program[p] # <<>> /\ Head(program[p])[1] = kind
Which(p) == Head(program[p])[2]
Then(p, steps) == Goes(p, steps \o Tail(program[p]))
Has(p, r, i) == inode' = [inode EXCEPT ![p][r] = i]
Live(i) == i \in ToSet(open_inodes)

Acquire(p) ==
  /\ At(p, "acquire") /\ io_lock = NULL
  /\ io_lock' = p
  /\ Then(p, <<>>)
  /\ UNCHANGED <<name, fd, want, inode, alive, fds, dir, free, nodeVars, stopped, execs, leaked>>

\* The last step of a call: its arguments are forgotten.
Release(p) ==
  /\ At(p, "release")
  /\ io_lock' = NULL
  /\ Then(p, <<>>)
  /\ name' = [name EXCEPT ![p] = NULL] /\ fd' = [fd EXCEPT ![p] = 0]
  /\ want' = [want EXCEPT ![p] = NULL]
  /\ UNCHANGED <<inode, alive, fds, dir, free, nodeVars, stopped, execs, leaked>>

\* The loop of inode_open finds the first inode with the sector; the sector of
\* one that is not initialized yet may be any.
Found(s) ==
  LET is(j) == sector[open_inodes[j]]
      first == {j \in DOMAIN open_inodes : /\ is(j) \in {s, NULL}
                                           /\ \A k \in 1 .. j - 1 : is(k) # s}
  IN {open_inodes[j] : j \in first}
       \cup (IF \E j \in DOMAIN open_inodes : is(j) = s THEN {} ELSE {NULL})

Search(p) ==
  /\ At(p, "search")
  /\ LET r == Which(p)
     IN \E i \in Found(IF r = "root" THEN ROOT ELSE want[p]) : Has(p, r, i)
  /\ Then(p, <<>>)
  /\ UNCHANGED <<name, fd, want, alive, fds, io_lock, dir, free, nodeVars, stopped, execs, leaked>>

\* Mutant: an inode that is open already is not counted again.
FindOnly(p) ==
  /\ At(p, "get") /\ inode[p][Which(p)] \in ToSet(open_inodes)
  /\ Then(p, <<>>)
  /\ UNCHANGED <<name, fd, want, inode, alive, fds, io_lock, dir, free, nodeVars, stopped, execs, leaked>>

\* inode_reopen of what was found.
Reopen(p) ==
  /\ At(p, "get") /\ inode[p][Which(p)] \in ToSet(open_inodes)
  /\ open_cnt' = [open_cnt EXCEPT ![inode[p][Which(p)]] = @ + 1]
  /\ Then(p, <<>>)
  /\ UNCHANGED <<name, fd, want, inode, alive, fds, io_lock, dir, free, open_inodes, sector, removed,
                 stopped, execs, leaked>>

\* Otherwise malloc and list_push_front, if there is memory.
Allocate(p) ==
  /\ At(p, "get") /\ inode[p][Which(p)] = NULL
  /\ \/ /\ Then(p, <<>>)
        /\ UNCHANGED <<inode, nodeVars>>
     \/ /\ InodeId # ToSet(open_inodes)
        /\ LET i == CHOOSE j \in InodeId : ~Live(j)
           IN /\ open_inodes' = <<i>> \o open_inodes
              /\ Has(p, Which(p), i)
        /\ Then(p, << <<"init", Which(p)>> >>)
        /\ UNCHANGED <<sector, open_cnt, removed>>
  /\ UNCHANGED <<name, fd, want, alive, fds, io_lock, dir, free, stopped, execs, leaked>>

Initialize(p) ==
  /\ At(p, "init") /\ Live(inode[p][Which(p)])
  /\ LET i == inode[p][Which(p)]
     IN /\ sector' = [sector EXCEPT ![i] = IF Which(p) = "root" THEN ROOT ELSE want[p]]
        /\ open_cnt' = [open_cnt EXCEPT ![i] = 1]
        /\ removed' = [removed EXCEPT ![i] = FALSE]
  /\ Then(p, <<>>)
  /\ UNCHANGED <<name, fd, want, inode, alive, fds, io_lock, dir, free, open_inodes, stopped, execs, leaked>>

\* inode_close: the count, and then the inode if it has become 0.
Put(p) ==
  /\ At(p, "put") /\ (inode[p][Which(p)] # NULL => Live(inode[p][Which(p)]))
  /\ LET r == Which(p)
         i == inode[p][r]
     IN IF i = NULL THEN Then(p, <<>>) /\ UNCHANGED <<inode, open_cnt>>
        ELSE /\ open_cnt' = [open_cnt EXCEPT ![i] = @ - 1]
             /\ IF open_cnt[i] = 1 THEN Then(p, << <<"free", r>> >>) /\ UNCHANGED inode
                                   ELSE Then(p, <<>>) /\ Has(p, r, NULL)
  /\ UNCHANGED <<name, fd, want, alive, fds, io_lock, dir, free, open_inodes, sector, removed,
                 stopped, execs, leaked>>

\* The sectors of a removed file must not be free yet.
Releasable(i) == Live(i) /\ (removed[i] => sector[i] \notin free \cup {NULL})

Free(p) ==
  /\ At(p, "free") /\ Releasable(inode[p][Which(p)])
  /\ LET i == inode[p][Which(p)]
     IN /\ open_inodes' = SelectSeq(open_inodes, LAMBDA j : j # i)
        /\ free' = IF removed[i] THEN free \cup {sector[i]} ELSE free
        /\ sector' = [sector EXCEPT ![i] = NULL] /\ removed' = [removed EXCEPT ![i] = FALSE]
        /\ open_cnt' = [open_cnt EXCEPT ![i] = 0]
  /\ Has(p, Which(p), NULL)
  /\ Then(p, <<>>)
  /\ UNCHANGED <<name, fd, want, alive, fds, io_lock, dir, stopped, execs, leaked>>

\* dir_lookup: if there is no directory or no such name, nothing is opened.
Lookup(p) ==
  /\ At(p, "lookup")
  /\ LET s == IF inode[p]["root"] = NULL \/ name[p] = NULL THEN NULL ELSE dir[name[p]]
     IN /\ want' = [want EXCEPT ![p] = s]
        /\ Goes(p, IF s = NULL THEN SubSeq(program[p], 4, Len(program[p])) ELSE Tail(program[p]))
  /\ Has(p, "file", NULL)
  /\ UNCHANGED <<name, fd, alive, fds, io_lock, dir, free, nodeVars, stopped, execs, leaked>>

\* file_open, which closes the inode if there is no memory for the file.
FileOpen(p) ==
  /\ At(p, "file_open")
  /\ Then(p, <<>>) \/ Then(p, inode_close("file"))
  /\ UNCHANGED <<name, fd, want, inode, alive, fds, io_lock, dir, free, nodeVars, stopped, execs, leaked>>

Store(p) ==
  /\ At(p, "store")
  /\ fds' = [fds EXCEPT ![p][fd[p]] = inode[p]["file"]]
  /\ Has(p, "file", NULL)
  /\ Then(p, <<>>)
  /\ UNCHANGED <<name, fd, want, alive, io_lock, dir, free, nodeVars, stopped, execs, leaked>>

\* free_map_allocate, inode_create and dir_add, undone if one of them fails.  A
\* size that is negative as an off_t fails inode_create's assertion.
AddNegative(p) == At(p, "add") /\ inode[p]["root"] # NULL /\ free # {} /\ Stop("panic")

Add(p) ==
  /\ At(p, "add")
  /\ IF inode[p]["root"] = NULL \/ dir[name[p]] # NULL \/ free = {} THEN UNCHANGED <<dir, free>>
     ELSE LET s == CHOOSE x \in free : TRUE
          IN dir' = [dir EXCEPT ![name[p]] = s] /\ free' = free \ {s}
  /\ Then(p, <<>>)
  /\ UNCHANGED <<name, fd, want, inode, alive, fds, io_lock, nodeVars, stopped, execs, leaked>>

\* Mutant: the sectors of a file are released when it is removed.
EraseReleases(p) ==
  /\ At(p, "erase") /\ (inode[p]["file"] # NULL => Live(inode[p]["file"]))
  /\ IF inode[p]["file"] = NULL THEN UNCHANGED <<dir, free>>
     ELSE dir' = [dir EXCEPT ![name[p]] = NULL] /\ free' = free \cup {want[p]}
  /\ Then(p, <<>>)
  /\ UNCHANGED <<name, fd, want, inode, alive, fds, io_lock, nodeVars, stopped, execs, leaked>>

\* dir_remove erases the entry and marks the inode.
Erase(p) ==
  /\ At(p, "erase") /\ (inode[p]["file"] # NULL => Live(inode[p]["file"]))
  /\ IF inode[p]["file"] = NULL THEN UNCHANGED <<dir, removed>>
     ELSE dir' = [dir EXCEPT ![name[p]] = NULL] /\ removed' = [removed EXCEPT ![inode[p]["file"]] = TRUE]
  /\ Then(p, <<>>)
  /\ UNCHANGED <<name, fd, want, inode, alive, fds, io_lock, free, open_inodes, sector, open_cnt,
                 stopped, execs, leaked>>

\* A descriptor that is not open panics the kernel: an assertion or a null
\* pointer; fds[FD_CNT] is not a file at all.
Use(p) ==
  /\ At(p, "use")
  /\ \/ fd[p] \notin Fd /\ Stop("wild")
     \/ /\ fd[p] \in Fd /\ fds[p][fd[p]] = NULL
        /\ Stop("panic")
     \/ /\ fd[p] \in Fd /\ Live(fds[p][fd[p]])
        /\ Then(p, <<>>)
        /\ UNCHANGED <<name, fd, want, inode, alive, fds, io_lock, dir, free, nodeVars, stopped, execs, leaked>>

Fault(p) == At(p, "fault") /\ Stop("panic")

\* exec of a command of blanks: strtok_r returns no name, dir_lookup asserts one.
LookupNull(p) ==
  /\ At(p, "lookup_null")
  /\ \/ inode[p]["root"] # NULL /\ Stop("panic")
     \/ /\ inode[p]["root"] = NULL
        /\ Then(p, <<>>)
        /\ UNCHANGED <<name, fd, want, inode, alive, fds, io_lock, dir, free, nodeVars, stopped, execs, leaked>>

\* file_close of a descriptor.  The code clears the descriptor after the inode
\* is closed; only its process sees it.
Take(p) ==
  /\ At(p, "take")
  /\ IF fd[p] \notin Fd THEN Stop("wild")
     ELSE /\ Has(p, "file", fds[p][fd[p]])
          /\ fds' = [fds EXCEPT ![p][fd[p]] = NULL]
          /\ Then(p, <<>>)
          /\ UNCHANGED <<name, fd, want, alive, io_lock, dir, free, nodeVars, stopped, execs, leaked>>

\* exec leaves the file open and returns -1 if there is none.
LeaveOpen(p) ==
  /\ At(p, "leave_open")
  /\ LET i == inode[p]["file"]
     IN IF i = NULL THEN Goes(p, <<>>) /\ UNCHANGED leaked
        ELSE leaked' = [leaked EXCEPT ![i] = @ + 1] /\ Then(p, <<>>)
  /\ Has(p, "file", NULL)
  /\ execs' = execs + 1
  /\ UNCHANGED <<name, fd, want, alive, fds, io_lock, dir, free, nodeVars, stopped>>

\* process_execute: a new process loads the program, or there is no memory.
Execute(p) ==
  /\ At(p, "execute")
  /\ \/ Then(p, <<>>) /\ UNCHANGED <<name, alive>>
     \/ \E q \in Proc \ alive :
          /\ program' = [program EXCEPT ![p] = Tail(@), ![q] = load] /\ Noted
          /\ name' = [name EXCEPT ![q] = name[p]]
          /\ alive' = alive \cup {q}
  /\ UNCHANGED <<fd, want, inode, fds, io_lock, dir, free, nodeVars, stopped, execs, leaked>>

\* load has read the executable, or could not; it closes it either way.
Loaded(p) ==
  /\ At(p, "loaded")
  /\ \/ inode[p]["file"] # NULL /\ Then(p, <<>>)
     \/ Goes(p, inode_close("file") \o process_exit)
  /\ UNCHANGED <<name, fd, want, inode, alive, fds, io_lock, dir, free, nodeVars, stopped, execs, leaked>>

\* process_exit closes one descriptor after the other, without the lock.
ExitClose(p) ==
  /\ At(p, "exit")
  /\ \E d \in Fd : /\ fds[p][d] # NULL /\ \A e \in Fd : e < d => fds[p][e] = NULL
                   /\ Has(p, "file", fds[p][d])
                   /\ fds' = [fds EXCEPT ![p][d] = NULL]
  /\ Goes(p, inode_close("file") \o program[p])
  /\ UNCHANGED <<name, fd, want, alive, io_lock, dir, free, nodeVars, stopped, execs, leaked>>

ExitEnds(p) ==
  /\ At(p, "exit") /\ \A d \in Fd : fds[p][d] = NULL
  /\ alive' = alive \ {p}
  /\ Then(p, <<>>)
  /\ UNCHANGED <<name, fd, want, inode, fds, io_lock, dir, free, nodeVars, stopped, execs, leaked>>

\* A step that follows a pointer to an inode that has been freed, or frees its
\* sectors a second time.
Wild(p) ==
  /\ \/ \E k \in {"get", "init", "put", "erase"} :
          At(p, k) /\ inode[p][Which(p)] \notin ToSet(open_inodes) \cup {NULL}
     \/ At(p, "free") /\ ~Releasable(inode[p][Which(p)])
     \/ /\ At(p, "use") /\ fd[p] \in Fd
        /\ fds[p][fd[p]] \notin ToSet(open_inodes) \cup {NULL}
  /\ Stop("wild")

Step(p) ==
  \/ Acquire(p) \/ Release(p) \/ Search(p) \/ Reopen(p) \/ Allocate(p) \/ Initialize(p) \/ Put(p)
  \/ Free(p) \/ Lookup(p) \/ LookupNull(p) \/ FileOpen(p) \/ Store(p) \/ Add(p) \/ AddNegative(p)
  \/ Erase(p) \/ Use(p) \/ Fault(p) \/ Take(p) \/ LeaveOpen(p) \/ Execute(p) \/ Loaded(p)
  \/ ExitClose(p) \/ ExitEnds(p) \/ Wild(p)

Next == \E p \in Proc : syscall_handler(p) \/ Step(p)

\* Processes take turns, so each goes on with its call.
Spec == Init /\ [][Next]_vars /\ \A p \in Proc : WF_vars(Step(p))

-----------------------------------------------------------------------------
(* Properties. *)

Refs(i) == {<<p, d>> \in Proc \X Fd : fds[p][d] = i}
\* The registers of processes that have opened an inode and not closed it.
Opening(p, r) == \E k \in {"get", "init", "free"} : At(p, k) /\ Which(p) = r
Held(i) == {<<p, r>> \in Proc \X Reg : inode[p][r] = i /\ ~Opening(p, r)}
Settled == stopped = "no" /\ ~raced

\* As long as the file system is entered by one process at a time, the count of
\* an inode is that of its open files: the descriptors of all processes, what
\* exec has left open and what calls under way hold.  So an inode goes with its
\* last closing, and every descriptor has one.
InodesReferenced ==
  Settled =>
    /\ \A i \in ToSet(open_inodes) :
         (\A p \in Proc, r \in Reg : Opening(p, r) => inode[p][r] # i) =>
           open_cnt[i] = Cardinality(Refs(i)) + Cardinality(Held(i)) + leaked[i]
    /\ \A p \in Proc, d \in Fd : fds[p][d] # NULL => Live(fds[p][d])

\* As long as the file system is entered by one process at a time, the sector of
\* a file that is open is not free and no other file's, also when the file has
\* been removed; and a sector that no name and no open file has is free.
OpenFilesKept ==
  Settled =>
    LET inUse == {i \in ToSet(open_inodes) : sector[i] # NULL}
    IN /\ \A i \in inUse : sector[i] \notin free /\ (removed[i] => \A n \in Name : dir[n] # sector[i])
       /\ \A i, j \in inUse : sector[i] = sector[j] => i = j
       /\ Sector \ {ROOT} = free \cup {dir[n] : n \in {m \in Name : dir[m] # NULL}}
                              \cup {sector[i] : i \in {j \in inUse : removed[j]}}

\* Opening a single inode twice returns the same "struct inode".
InodesShared ==
  stopped = "no" =>
    \A i, j \in ToSet(open_inodes) : sector[i] # NULL /\ sector[i] = sector[j] => i = j

\* Whoever has io_lock gives it back, unless the machine stops.
LockComesFree == io_lock # NULL ~> (io_lock = NULL \/ stopped # "no")
=============================================================================
