-------------------------------- MODULE Ide --------------------------------
(***************************************************************************)
(* Block devices: threads read and write sectors of partitions             *)
(* (devices/block.c, devices/partition.c) through the ATA driver           *)
(* (devices/ide.c) and one channel with its two disks.                     *)
(*                                                                         *)
(* The driver's steps are the accesses to the channel's registers and to   *)
(* its semaphore; the controller works between any two of them.  The       *)
(* controller, its disks and the interrupt line are external: a disk may   *)
(* take any time and may fail a command.  A lock and a semaphore behave as *)
(* module Synch says.                                                      *)
(***************************************************************************)
EXTENDS Naturals, FiniteSets

CONSTANTS
  Main,       \* the thread that runs ide_init
  Thread,     \* the threads, Main included
  Disk,       \* the devices of the channel: 0, or 0 and 1
  Capacity,   \* sectors of a disk
  Part,       \* partitions, as records [disk, start, size, foreign]
  Value,      \* contents of a sector
  NULL

ASSUME IdeAssumption ==
  /\ Main \in Thread /\ NULL \notin Thread \cup Value
  /\ Disk \in {{0}, {0, 1}} /\ Capacity \in Nat
  /\ Part \subseteq [disk : Disk, start : Nat, size : Nat, foreign : BOOLEAN]
  /\ \A p \in Part : p.start + p.size <= Capacity

Sector == 0 .. Capacity - 1

VARIABLES
  is_ata,               \* the disks that are registered
  holder,               \* of the channel's lock
  expecting_interrupt,
  completion_wait,      \* value of the semaphore
  pc,                   \* where each thread is
  req,                  \* its request
  got,                  \* what it has read
  panic,
  disk,                 \* external: contents of the disks
  reg,                  \* external: device and sector selection registers
  command,              \* external: the command being executed, or NULL
  status,               \* external: "idle", "BSY", "DRQ", or idle with "ERR"
  data,                 \* external: the data register's sector
  irq                   \* external: an interrupt is pending

driver == <<is_ata, holder, expecting_interrupt, completion_wait, pc, req, got, panic>>
device == <<disk, reg, command, status, data, irq>>
vars == <<driver, device>>

PC == {"out", "lock", "select", "expect", "command", "down", "busy", "data", "release"}
Request == [kind : {"read", "write", "identify"}, disk : Disk, sector : Sector \cup {0},
            value : Value \cup {NULL}]

TypeOK ==
  /\ is_ata \subseteq Disk
  /\ holder \in Thread \cup {NULL}
  /\ expecting_interrupt \in BOOLEAN /\ panic \in BOOLEAN /\ irq \in BOOLEAN
  /\ completion_wait \in 0 .. 1
  /\ pc \in [Thread -> PC]
  /\ req \in [Thread -> Request]
  /\ got \in [Thread -> Value \cup {NULL}]
  /\ disk \in [Disk -> [Sector -> Value]]
  /\ reg \in [disk : Disk, sector : Sector \cup {0}]
  /\ command \in {"read", "write", "identify", NULL}
  /\ status \in {"idle", "BSY", "DRQ", "ERR"}
  /\ data \in Value \cup {NULL}

Identify(d) == [kind |-> "identify", disk |-> d, sector |-> 0, value |-> NULL]

\* ide_init up to its last loop: the channel is reset, and the disks found are
\* those of Disk.
Init ==
  /\ is_ata = {} /\ holder = NULL /\ expecting_interrupt = FALSE /\ completion_wait = 0
  /\ pc = [t \in Thread |-> IF t = Main THEN "select" ELSE "out"]
  /\ req = [t \in Thread |-> Identify(0)]
  /\ got = [t \in Thread |-> NULL]
  /\ panic = FALSE
  /\ disk \in [Disk -> [Sector -> Value]]
  /\ reg = [disk |-> 0, sector |-> 0]
  /\ command = NULL /\ status = "idle" /\ data = NULL /\ irq = FALSE

Booting == pc[Main] # "out" /\ req[Main].kind = "identify"
At(t, p) == ~panic /\ pc[t] = p
Goto(t, p) == pc' = [pc EXCEPT ![t] = p]

-----------------------------------------------------------------------------
(* The driver. *)

\* check_sector.
check_sector(p, s) == s < p.size

\* block_read and block_write on a partition, partition_read and
\* partition_write: the sector is checked against the partition and, as
\* p->start + sector, against the disk; a foreign partition is not written.
StartRequest(t, kind, p, s, v) ==
  /\ At(t, "out") /\ ~Booting /\ p.disk \in is_ata
  /\ IF check_sector(p, s) /\ (kind = "write" => ~p.foreign)
       THEN /\ req' = [req EXCEPT ![t] = [kind |-> kind, disk |-> p.disk,
                                          sector |-> p.start + s, value |-> v]]
            /\ Goto(t, "lock")
            /\ UNCHANGED panic
       ELSE panic' = TRUE /\ UNCHANGED <<req, pc>>
  /\ UNCHANGED <<is_ata, holder, expecting_interrupt, completion_wait, got, device>>

BlockRead(t, p, s) == StartRequest(t, "read", p, s, NULL)
BlockWrite(t, p, s, v) == StartRequest(t, "write", p, s, v)

\* Mutant: the channel is used without its lock.
NoLock(t) ==
  /\ At(t, "lock")
  /\ holder' = t
  /\ Goto(t, "select")
  /\ UNCHANGED <<is_ata, expecting_interrupt, completion_wait, req, got, panic, device>>

\* lock_acquire (&c->lock) in ide_read and ide_write.
LockChannel(t) ==
  /\ At(t, "lock") /\ holder = NULL
  /\ holder' = t
  /\ Goto(t, "select")
  /\ UNCHANGED <<is_ata, expecting_interrupt, completion_wait, req, got, panic, device>>

\* select_sector with select_device_wait, and the latter alone for IDENTIFY.
\* wait_until_idle goes on after its timeout.
SelectSector(t) ==
  /\ At(t, "select")
  /\ reg' = [reg EXCEPT !.disk = req[t].disk,
                        !.sector = IF req[t].kind = "identify" THEN @ ELSE req[t].sector]
  /\ Goto(t, "expect")
  /\ UNCHANGED <<is_ata, holder, expecting_interrupt, completion_wait, req, got, panic,
                 disk, command, status, data, irq>>

\* Mutant: the flag is not set.
ForgetFlag(t) ==
  /\ At(t, "expect")
  /\ Goto(t, "command")
  /\ UNCHANGED <<is_ata, holder, expecting_interrupt, completion_wait, req, got, panic, device>>

\* issue_pio_command: first the flag, then the command register.
ExpectInterrupt(t) ==
  /\ At(t, "expect")
  /\ expecting_interrupt' = TRUE
  /\ Goto(t, "command")
  /\ UNCHANGED <<is_ata, holder, completion_wait, req, got, panic, device>>

IssueCommand(t) ==
  /\ At(t, "command")
  /\ command' = req[t].kind /\ status' = "BSY"
  /\ Goto(t, IF req[t].kind = "write" THEN "busy" ELSE "down")
  /\ UNCHANGED <<is_ata, holder, expecting_interrupt, completion_wait, req, got, panic,
                 disk, reg, data, irq>>

\* Mutant: the semaphore is read and not taken.
CompletionKept(t) ==
  /\ At(t, "down") /\ completion_wait > 0
  /\ Goto(t, IF req[t].kind = "write" THEN "release" ELSE "busy")
  /\ UNCHANGED <<is_ata, holder, expecting_interrupt, completion_wait, req, got, panic, device>>

\* Mutant: ide_write does not wait for the acknowledgement.
WriteUnacknowledged(t) ==
  /\ At(t, "data") /\ req[t].kind = "write"
  /\ data' = req[t].value
  /\ status' = "BSY"
  /\ Goto(t, "release")
  /\ UNCHANGED <<is_ata, holder, expecting_interrupt, completion_wait, req, got, panic,
                 disk, reg, command, irq>>

\* sema_down (&c->completion_wait).
AwaitCompletion(t) ==
  /\ At(t, "down") /\ completion_wait > 0
  /\ completion_wait' = completion_wait - 1
  /\ Goto(t, IF req[t].kind = "write" THEN "release" ELSE "busy")
  /\ UNCHANGED <<is_ata, holder, expecting_interrupt, req, got, panic, device>>

\* What ide_init's loop does after a disk: the next one, or it is done.
NextDisk(t) ==
  IF req[t].disk = 0 /\ 1 \in Disk
    THEN Goto(t, "select") /\ req' = [req EXCEPT ![t] = Identify(1)]
    ELSE Goto(t, "out") /\ req' = [req EXCEPT ![t] = Identify(0)]

\* wait_while_busy: true if the disk is ready for data.
WaitWhileBusy(t) ==
  /\ At(t, "busy") /\ status = "DRQ"
  /\ Goto(t, "data")
  /\ UNCHANGED <<is_ata, holder, expecting_interrupt, completion_wait, req, got, panic, device>>

\* wait_while_busy returns false, after an error or after thirty seconds:
\* identify_ata_device gives the disk up, ide_read and ide_write panic.
WaitFails(t) ==
  /\ At(t, "busy") /\ status # "DRQ"
  /\ IF req[t].kind = "identify"
       THEN NextDisk(t) /\ UNCHANGED panic
       ELSE panic' = TRUE /\ UNCHANGED <<pc, req>>
  /\ UNCHANGED <<is_ata, holder, expecting_interrupt, completion_wait, got, device>>

\* input_sector in ide_read; output_sector in ide_write.
InputSector(t) ==
  /\ At(t, "data") /\ req[t].kind = "read"
  /\ got' = [got EXCEPT ![t] = data]
  /\ status' = "idle" /\ command' = NULL
  /\ Goto(t, "release")
  /\ UNCHANGED <<is_ata, holder, expecting_interrupt, completion_wait, req, panic,
                 disk, reg, data, irq>>

OutputSector(t) ==
  /\ At(t, "data") /\ req[t].kind = "write"
  /\ data' = req[t].value
  /\ status' = "BSY"
  /\ Goto(t, "down")
  /\ UNCHANGED <<is_ata, holder, expecting_interrupt, completion_wait, req, got, panic,
                 disk, reg, command, irq>>

\* identify_ata_device: the identity is read, and the disk registered unless it
\* is too large.
IdentityRead(t) ==
  /\ At(t, "data") /\ req[t].kind = "identify"
  /\ is_ata' \in {is_ata, is_ata \cup {req[t].disk}}
  /\ status' = "idle" /\ command' = NULL
  /\ NextDisk(t)
  /\ UNCHANGED <<holder, expecting_interrupt, completion_wait, got, panic,
                 disk, reg, data, irq>>

\* lock_release (&c->lock), and the return to the caller.
ReleaseChannel(t) ==
  /\ At(t, "release")
  /\ holder' = NULL
  /\ Goto(t, "out")
  /\ req' = [req EXCEPT ![t] = Identify(0)] /\ got' = [got EXCEPT ![t] = NULL]
  /\ UNCHANGED <<is_ata, expecting_interrupt, completion_wait, panic, device>>

\* interrupt_handler.
InterruptHandler ==
  /\ ~panic /\ irq
  /\ irq' = FALSE
  /\ completion_wait' = IF expecting_interrupt THEN completion_wait + 1 ELSE completion_wait
  /\ UNCHANGED <<is_ata, holder, expecting_interrupt, pc, req, got, panic,
                 disk, reg, command, status, data>>

-----------------------------------------------------------------------------
(* The controller (external). *)

Outputting == \E t \in Thread : pc[t] = "down" /\ req[t].kind = "write"

\* A read or an identification has its data ready and raises the interrupt.
DataReady ==
  /\ status = "BSY" /\ command \in {"read", "identify"}
  /\ data' = IF command = "read" THEN disk[reg.disk][reg.sector] ELSE NULL
  /\ status' = "DRQ" /\ irq' = TRUE
  /\ UNCHANGED <<driver, disk, reg, command>>

\* A write asks for its data, without an interrupt.
DataWanted ==
  /\ status = "BSY" /\ command = "write" /\ ~Outputting
  /\ status' = "DRQ"
  /\ UNCHANGED <<driver, disk, reg, command, data, irq>>

\* The data written has reached the disk.
Written ==
  /\ status = "BSY" /\ command = "write" /\ Outputting
  /\ disk' = [disk EXCEPT ![reg.disk][reg.sector] = data]
  /\ status' = "idle" /\ command' = NULL /\ irq' = TRUE
  /\ UNCHANGED <<driver, reg, data>>

\* A command is aborted with an error, and the interrupt raised: a write before
\* its data is asked for, or after it was output, and the disk has not got it.
Aborted ==
  /\ status = "BSY"
  /\ status' = "ERR" /\ command' = NULL /\ irq' = TRUE
  /\ UNCHANGED <<driver, disk, reg, data>>

-----------------------------------------------------------------------------
Continue(t) ==
  \/ SelectSector(t) \/ ExpectInterrupt(t) \/ IssueCommand(t) \/ AwaitCompletion(t)
  \/ WaitWhileBusy(t) \/ InputSector(t) \/ OutputSector(t) \/ IdentityRead(t)
  \/ ReleaseChannel(t)

Call(t) ==
  \E p \in Part, s \in Sector : BlockRead(t, p, s) \/ \E v \in Value : BlockWrite(t, p, s, v)

Controller == DataReady \/ DataWanted \/ Written

Next ==
  \/ \E t \in Thread : Call(t) \/ LockChannel(t) \/ Continue(t) \/ WaitFails(t)
  \/ InterruptHandler
  \/ Controller
  \/ Aborted

Spec == Init /\ [][Next]_vars

\* A thread that is not waiting goes on, a pending interrupt is delivered, and a
\* disk answers.
FairSpec ==
  /\ Spec
  /\ \A t \in Thread : WF_vars(Continue(t))
  /\ WF_vars(InterruptHandler) /\ WF_vars(Controller)
  /\ WF_vars(\E t \in Thread : WaitFails(t))

-----------------------------------------------------------------------------
(* Properties. *)

\* A wake-up belongs to the command that is waited for: whenever no command is
\* outstanding no completion and no interrupt is left over, so the next
\* command cannot take it for its own.
NoStaleCompletion ==
  (~panic /\ \A t \in Thread : pc[t] \in {"out", "lock", "select", "expect", "command"})
    => completion_wait = 0 /\ ~irq

\* "Internally synchronizes accesses to disks": a command is issued only to a
\* channel that is idle, so the timeout of wait_until_idle, after which the
\* driver goes on all the same, is never the reason to go on.
IssuedWhenIdle ==
  \A t \in Thread :
    At(t, "select") \/ At(t, "command") => status \in {"idle", "ERR"} /\ command = NULL

\* ide_write's command has ended with an error after its data was output.
\* ide_write does not look at the status after sema_down and returns as from a
\* write that succeeded; ide_read looks, and panics.
WriteFailed(t) == req[t].kind = "write" /\ status = "ERR"

\* "Returns after the disk has acknowledged receiving the data", and a read
\* returns what the sector asked for holds: until the lock is released the disk
\* agrees with every request but a write that the disk has failed.
DiskAgrees ==
  \A t \in Thread :
    At(t, "release") /\ ~WriteFailed(t) =>
      disk[req[t].disk][req[t].sector] =
        (IF req[t].kind = "read" THEN got[t] ELSE req[t].value)

\* A thread that has started a command, of ide_init too, comes to an end with
\* it unless the kernel panics: the completion interrupt is not lost between the
\* command and sema_down.
RequestsComplete == \A t \in Thread : pc[t] = "select" ~> (pc[t] = "out" \/ panic)
=============================================================================
