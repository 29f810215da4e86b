------------------------------- MODULE Serial -------------------------------
(***************************************************************************)
(* Console output and keyboard input: the serial driver (devices/serial.c) *)
(* with its transmit queue, the input buffer (devices/input.c) that the    *)
(* keyboard and the serial port fill, the console lock                     *)
(* (lib/kernel/console.c), and a kernel panic (lib/kernel/debug.c).        *)
(*                                                                         *)
(* A step is one interrupts-off section, up to the point where it blocks.  *)
(* Which thread runs is left open.  Bytes are numbered in the order in     *)
(* which the driver accepts them.                                          *)
(***************************************************************************)
EXTENDS IntQueue, FiniteSets

CONSTANTS
  Main,     \* the thread that boots
  Writer,   \* threads that print, Main among them
  Reader,   \* threads that read keys
  MaxOut,   \* bound: bytes printed
  MaxIn     \* bound: keys accepted

ASSUME SerialAssumption ==
  /\ Main \in Writer /\ IsFiniteSet(Writer)
  /\ NULL \notin Writer \cup Reader
  /\ Writer \cap Reader = {}
  /\ MaxOut \in Nat /\ MaxIn \in Nat

Thread == Writer \cup Reader

VARIABLES
  mode,      \* "UNINIT", "POLL" or "QUEUE"
  txq,       \* data to be transmitted
  buffer,    \* keys from the keyboard and the serial port
  ier,       \* interrupt enable register: of "XMIT" and "RECV"
  thr,       \* transmit holding register: no byte or one
  rbr,       \* TRUE if the receive buffer register holds a byte
  line,      \* the bytes that have left the port
  out,       \* how many bytes have been accepted for output
  got,       \* how many keys have been read
  in,        \* how many keys have been accepted
  console,   \* console_lock's holder
  panic,     \* the thread in debug_panic
  pc         \* where each thread is

txVars == <<thr, line, out>>
inVars == <<rbr, got, in>>
vars == <<mode, txq, buffer, ier, txVars, inVars, console, panic, pc>>

PC == {"run", "print", "init_queue", "putc_wait", "putc_woken",
       "getc_lock", "getc_wait", "getc_woken", "panic", "assert"}

TypeOK ==
  /\ mode \in {"UNINIT", "POLL", "QUEUE"}
  /\ txq \in IntQueueOf(Thread, 0 .. MaxOut)
  /\ buffer \in IntQueueOf(Thread, 0 .. MaxIn)
  /\ ier \subseteq {"XMIT", "RECV"}
  /\ thr \in Seq(1 .. MaxOut) /\ Len(thr) <= 1
  /\ rbr \in BOOLEAN
  /\ line \in Seq(1 .. MaxOut)
  /\ out \in 0 .. MaxOut
  /\ in \in 0 .. MaxIn
  /\ got \in 0 .. in
  /\ console \in Writer \cup {NULL}
  /\ panic \in Thread \cup {NULL}
  /\ pc \in [Thread -> PC]

\* After console_init and input_init; nothing has been printed.
Init ==
  /\ mode = "UNINIT"
  /\ txq = intq_init /\ buffer = intq_init
  /\ ier = {} /\ thr = <<>> /\ rbr = FALSE /\ line = <<>>
  /\ out = 0 /\ got = 0 /\ in = 0
  /\ console = NULL /\ panic = NULL
  /\ pc = [t \in Thread |-> "run"]

-----------------------------------------------------------------------------
\* Main is the only thread until serial_init_queue is done.
Booted == mode = "QUEUE" /\ pc[Main] # "init_queue"
MayRun(t) == panic = NULL /\ (t = Main \/ Booted)

\* thread_unblock(*waiter) in signal().
Unblock(p, waiter) ==
  [t \in Thread |-> IF t # waiter THEN p[t]
                    ELSE IF p[t] = "putc_wait" THEN "putc_woken" ELSE "getc_woken"]

\* Bound: what is accepted, and what a blocked writer is about to store, stays
\* within MaxOut.
Room == out + Cardinality({t \in Writer : pc[t] \in {"putc_wait", "putc_woken"}}) < MaxOut

\* Bound: the keys accepted, with the one in the port, stay within MaxIn.
KeyRoom == in + (IF rbr THEN 1 ELSE 0) < MaxIn

\* The byte in the holding register goes out while putc_poll spins.
putc_poll(b) ==
  /\ line' = line \o thr
  /\ thr' = <<b>>

\* The value write_ier gives the interrupt enable register.
write_ier(tx, rx) ==
  (IF intq_empty(tx) THEN {} ELSE {"XMIT"}) \cup (IF intq_full(rx) THEN {} ELSE {"RECV"})

serial_notify(tx, rx) == ier' = IF mode = "QUEUE" THEN write_ier(tx, rx) ELSE ier

\* init_poll makes txq anew.
poll_txq == IF mode = "UNINIT" THEN intq_init ELSE txq

-----------------------------------------------------------------------------
(* Output. *)

AcquireConsole(t) ==
  /\ MayRun(t) /\ pc[t] = "run"
  /\ console = NULL
  /\ console' = t
  /\ pc' = [pc EXCEPT ![t] = "print"]
  /\ UNCHANGED <<mode, txq, buffer, ier, txVars, inVars, panic>>

ReleaseConsole(t) ==
  /\ MayRun(t) /\ pc[t] = "print"
  /\ console' = NULL
  /\ pc' = [pc EXCEPT ![t] = "run"]
  /\ UNCHANGED <<mode, txq, buffer, ier, txVars, inVars, panic>>

\* serial_putc before serial_init_queue.
SerialPutcPoll ==
  /\ mode # "QUEUE"
  /\ Room
  /\ putc_poll(out + 1)
  /\ out' = out + 1
  /\ mode' = "POLL"
  /\ txq' = poll_txq
  /\ UNCHANGED <<buffer, ier, inVars, console, panic, pc>>

\* The rest of serial_putc once there is room: queue the byte, update ier.
Enqueue(tx) ==
  /\ txq' = intq_putc(tx, out + 1)
  /\ out' = out + 1
  /\ ier' = write_ier(txq', buffer)

\* serial_putc, called with interrupts on by the owner of the console, and the
\* loop of intq_putc after a wait.  The console lock leaves txq.lock free.
SerialPutc(t) ==
  /\ panic = NULL /\ mode = "QUEUE"
  /\ pc[t] = "putc_woken" \/ (pc[t] = "print" /\ Room)
  /\ IF intq_full(txq)
       THEN /\ txq' = wait_not_full(txq, t)
            /\ pc' = [pc EXCEPT ![t] = "putc_wait"]
            /\ UNCHANGED <<out, ier>>
       ELSE /\ Enqueue([txq EXCEPT !.lock = NULL])
            /\ pc' = [pc EXCEPT ![t] = "print"]
  /\ UNCHANGED <<mode, buffer, thr, line, inVars, console, panic>>

\* Mutant: the new byte is sent instead of the oldest one.
PolledNewest ==
  /\ mode = "QUEUE" /\ Room
  /\ IF intq_full(txq)
       THEN /\ putc_poll(out + 1)
            /\ out' = out + 1
            /\ UNCHANGED <<txq, pc, ier>>
       ELSE Enqueue(txq) /\ UNCHANGED <<pc, thr, line>>
  /\ UNCHANGED <<mode, buffer, inVars, console, panic>>

\* serial_putc, called with interrupts off: by the owner of the console, by an
\* interrupt handler, or in a panic.  A full queue is relieved by polling.
SerialPutcOff ==
  /\ mode = "QUEUE" /\ Room
  /\ IF intq_full(txq)
       THEN /\ putc_poll(intq_front(txq))
            /\ pc' = Unblock(pc, txq.not_full)
            /\ Enqueue(intq_getc(txq))
       ELSE Enqueue(txq) /\ UNCHANGED <<pc, thr, line>>
  /\ UNCHANGED <<mode, buffer, inVars, console, panic>>

\* serial_flush, called on the way to power off and in a panic.  The interrupt
\* enable register is left as it was.
serial_flush ==
  LET sent == thr \o Contents(txq)
  IN /\ txq' = IF intq_empty(txq) THEN txq
               ELSE [txq EXCEPT !.tail = txq.head, !.not_full = NULL]
     /\ line' = line \o (IF intq_empty(txq) THEN <<>> ELSE SubSeq(sent, 1, Len(sent) - 1))
     /\ thr' = IF intq_empty(txq) THEN thr ELSE <<sent[Len(sent)]>>
     /\ pc' = IF intq_empty(txq) THEN pc ELSE Unblock(pc, txq.not_full)
     /\ UNCHANGED <<mode, buffer, ier, out, inVars, console, panic>>

SerialFlush(t) == (MayRun(t) \/ panic = t) /\ pc[t] \in {"run", "panic", "assert"} /\ serial_flush

\* serial_init_queue: the mode is set first, and the register in a section of
\* its own.
SerialInitQueue ==
  /\ panic = NULL /\ pc[Main] = "run" /\ mode # "QUEUE"
  /\ txq' = poll_txq
  /\ mode' = "QUEUE"
  /\ pc' = [pc EXCEPT ![Main] = "init_queue"]
  /\ UNCHANGED <<buffer, ier, txVars, inVars, console, panic>>

SerialInitQueueIer ==
  /\ panic = NULL /\ pc[Main] = "init_queue"
  /\ ier' = write_ier(txq, buffer)
  /\ pc' = [pc EXCEPT ![Main] = "run"]
  /\ UNCHANGED <<mode, txq, buffer, txVars, inVars, console, panic>>

-----------------------------------------------------------------------------
(* Input. *)

\* One turn of the loop of intq_getc, by a thread that holds the buffer's lock
\* or finds it free.  wait() asserts that the buffer is empty.
getc_loop(t, rx) ==
  \/ /\ ~intq_empty(rx)
     /\ buffer' = intq_getc(rx)
     /\ got' = got + 1
     /\ serial_notify(txq, buffer')
     /\ pc' = [pc EXCEPT ![t] = "run"]
  \/ /\ intq_empty(rx)
     /\ buffer' = wait_not_empty(rx, t)
     /\ pc' = [pc EXCEPT ![t] = "getc_wait"]
     /\ UNCHANGED <<got, ier>>

\* input_getc is called, or goes on after wait(): release the lock, look again.
InputGetc(t) ==
  /\ panic = NULL /\ Booted
  /\ \/ pc[t] = "run" /\ (buffer.lock = NULL \/ ~intq_empty(buffer)) /\ getc_loop(t, buffer)
     \/ pc[t] = "getc_woken" /\ getc_loop(t, [buffer EXCEPT !.lock = NULL])
  /\ UNCHANGED <<mode, txq, txVars, rbr, in, console, panic>>

\* input_getc blocks in lock_acquire while another thread waits for a key.
InputGetcBlocks(t) ==
  /\ panic = NULL /\ Booted /\ pc[t] = "run"
  /\ intq_empty(buffer) /\ buffer.lock # NULL
  /\ pc' = [pc EXCEPT ![t] = "getc_lock"]
  /\ UNCHANGED <<mode, txq, buffer, ier, txVars, inVars, console, panic>>

\* lock_acquire returns to it.  It goes on to wait() without testing the buffer
\* again; wait() asserts that it is empty.
InputGetcLocked(t) ==
  /\ panic = NULL /\ pc[t] = "getc_lock" /\ buffer.lock = NULL
  /\ \/ /\ intq_empty(buffer)
        /\ buffer' = wait_not_empty(buffer, t)
        /\ pc' = [pc EXCEPT ![t] = "getc_wait"]
        /\ UNCHANGED panic
     \/ /\ ~intq_empty(buffer)
        /\ buffer' = [buffer EXCEPT !.lock = t]
        /\ pc' = [pc EXCEPT ![t] = "assert"]
        /\ panic' = t
  /\ UNCHANGED <<mode, txq, ier, txVars, inVars, console>>

\* keyboard_interrupt for a character: dropped if the buffer is full.
KeyboardInterrupt ==
  /\ panic = NULL /\ ~intq_full(buffer) /\ KeyRoom
  /\ buffer' = intq_putc(buffer, in + 1)
  /\ in' = in + 1
  /\ pc' = Unblock(pc, buffer.not_empty)
  /\ serial_notify(txq, buffer')
  /\ UNCHANGED <<mode, txq, txVars, rbr, got, console, panic>>

-----------------------------------------------------------------------------
(* The port and its interrupt. *)

SerialPending == mode = "QUEUE" /\ (("XMIT" \in ier /\ thr = <<>>) \/ ("RECV" \in ier /\ rbr))

\* Mutant: the writer that waits for room is not unblocked.
InterruptWithoutSignal ==
  LET receive == rbr /\ ~intq_full(buffer)
      send == thr = <<>> /\ ~intq_empty(txq)
  IN /\ panic = NULL /\ SerialPending
     /\ buffer' = IF receive THEN intq_putc(buffer, in + 1) ELSE buffer
     /\ in' = IF receive THEN in + 1 ELSE in
     /\ rbr' = (rbr /\ ~receive)
     /\ thr' = IF send THEN <<intq_front(txq)>> ELSE thr
     /\ txq' = IF send THEN [intq_getc(txq) EXCEPT !.not_full = txq.not_full] ELSE txq
     /\ pc' = IF receive THEN Unblock(pc, buffer.not_empty) ELSE pc
     /\ ier' = write_ier(txq', buffer')
     /\ UNCHANGED <<mode, line, out, got, console, panic>>

\* Mutant: the handler never gets to its second loop.
InterruptReceives ==
  LET receive == rbr /\ ~intq_full(buffer)
  IN /\ panic = NULL /\ SerialPending
     /\ buffer' = IF receive THEN intq_putc(buffer, in + 1) ELSE buffer
     /\ in' = IF receive THEN in + 1 ELSE in
     /\ pc' = IF receive THEN Unblock(pc, buffer.not_empty) ELSE pc
     /\ rbr' = (rbr /\ ~receive)
     /\ ier' = write_ier(txq, buffer')
     /\ UNCHANGED <<mode, txq, thr, line, out, got, console, panic>>

\* serial_interrupt: receive while there is room, transmit while the register
\* is free, update ier.  Each register holds one byte.
SerialInterrupt ==
  LET receive == rbr /\ ~intq_full(buffer)
      send == thr = <<>> /\ ~intq_empty(txq)
  IN /\ panic = NULL /\ SerialPending
     /\ buffer' = IF receive THEN intq_putc(buffer, in + 1) ELSE buffer
     /\ in' = IF receive THEN in + 1 ELSE in
     /\ rbr' = (rbr /\ ~receive)
     /\ thr' = IF send THEN <<intq_front(txq)>> ELSE thr
     /\ txq' = IF send THEN intq_getc(txq) ELSE txq
     /\ pc' = Unblock(IF receive THEN Unblock(pc, buffer.not_empty) ELSE pc,
                      IF send THEN txq.not_full ELSE NULL)
     /\ ier' = write_ier(txq', buffer')
     /\ UNCHANGED <<mode, line, out, got, console, panic>>

\* The port sends the byte in the holding register.
ShiftOut ==
  /\ thr # <<>>
  /\ line' = line \o thr
  /\ thr' = <<>>
  /\ UNCHANGED <<mode, txq, buffer, ier, out, inVars, console, panic, pc>>

\* A byte arrives.  Had the last one not been fetched, it would replace it.
Arrive ==
  /\ ~rbr /\ KeyRoom
  /\ rbr' = TRUE
  /\ UNCHANGED <<mode, txq, buffer, ier, txVars, got, in, console, panic, pc>>

\* PANIC or a failed ASSERT in a thread's own code: interrupts are off and the
\* console lock is out of use from now on.
Panic(t) ==
  /\ MayRun(t) /\ pc[t] \in {"run", "print"}
  /\ panic' = t
  /\ pc' = [pc EXCEPT ![t] = "panic"]
  /\ UNCHANGED <<mode, txq, buffer, ier, txVars, inVars, console>>

Next ==
  \/ \E t \in Writer : AcquireConsole(t) \/ ReleaseConsole(t) \/ SerialPutc(t)
  \/ \E t \in Thread : SerialFlush(t) \/ Panic(t)
  \/ \E t \in Reader : InputGetc(t) \/ InputGetcBlocks(t) \/ InputGetcLocked(t)
  \/ SerialPutcPoll \/ SerialPutcOff
  \/ SerialInitQueue \/ SerialInitQueueIer
  \/ KeyboardInterrupt \/ SerialInterrupt
  \/ ShiftOut \/ Arrive

Spec == Init /\ [][Next]_vars

\* The interrupt controller keeps an interrupt pending, the port keeps sending,
\* a thread that was unblocked gets to run, and a panic ends in a flush.
Fairness ==
  /\ WF_vars(ShiftOut) /\ WF_vars(SerialInterrupt) /\ WF_vars(SerialInitQueueIer)
  /\ \A t \in Writer : WF_vars(SerialPutc(t) /\ pc[t] = "putc_woken")
  /\ \A t \in Thread : WF_vars(SerialFlush(t) /\ panic = t)

FairSpec == Spec /\ Fairness

-----------------------------------------------------------------------------
(* Properties. *)

\* Every byte accepted by serial_putc leaves the port once, in the order of
\* acceptance, whether it was queued, polled past a full queue or flushed; and
\* input_getc hands out the keys in the order in which the keyboard and the
\* serial interrupt stored them.
CharactersInOrder ==
  /\ line \o thr \o Contents(txq) = [i \in 1 .. out |-> i]
  /\ Contents(buffer) = [i \in 1 .. (in - got) |-> got + i]

\* A thread blocked in wait() is the one that signal() will unblock, holds the
\* queue's lock, and its condition is still false; and outside interrupts-off
\* sections the transmit interrupt is enabled if a byte is queued, and the
\* receive interrupt exactly if a key can be stored.  So somebody will serve the
\* waiter, and serial_interrupt never finds a byte that it must leave in the port.
WaitersServed ==
  /\ Booted => /\ ~intq_empty(txq) => "XMIT" \in ier
               /\ ("RECV" \in ier) = ~intq_full(buffer)
  /\ \A t \in Thread : pc[t] = "putc_wait" => txq.not_full = t /\ txq.lock = t
  /\ \A t \in Thread : pc[t] = "getc_wait" => buffer.not_empty = t /\ buffer.lock = t
  /\ txq.not_full # NULL => pc[txq.not_full] = "putc_wait" /\ intq_full(txq)
  /\ buffer.not_empty # NULL => pc[buffer.not_empty] = "getc_wait" /\ intq_empty(buffer)

\* Every byte accepted for output leaves the port, also when the kernel panics
\* with a full queue: as long as bytes are missing on the line, a time comes at
\* which none is.
OutputSent == out > Len(line) ~> Len(line) = out

\* A thread that waits for room in txq goes on, unless the kernel panics.
WriterResumes == \A t \in Writer : pc[t] = "putc_wait" ~> pc[t] = "print" \/ panic # NULL
=============================================================================
