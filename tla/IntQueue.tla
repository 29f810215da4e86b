------------------------------ MODULE IntQueue ------------------------------
(***************************************************************************)
(* An interrupt queue (devices/intq.c): a ring buffer shared by threads    *)
(* and interrupt handlers, with at most one thread waiting for it to       *)
(* become not empty and one for it to become not full.  The operators take *)
(* a struct intq as a record and return the new one; who is unblocked is   *)
(* the old not_full or not_empty.                                          *)
(***************************************************************************)
EXTENDS Naturals, Sequences

CONSTANTS
  INTQ_BUFSIZE,  \* queue buffer size, in bytes
  NULL           \* the null pointer

ASSUME IntQueueAssumption == INTQ_BUFSIZE \in Nat /\ INTQ_BUFSIZE >= 2

IntQueueOf(Owner, Byte) ==
  [buf : [0 .. INTQ_BUFSIZE - 1 -> Byte],
   head : 0 .. INTQ_BUFSIZE - 1, tail : 0 .. INTQ_BUFSIZE - 1,
   lock : Owner \cup {NULL}, not_full : Owner \cup {NULL}, not_empty : Owner \cup {NULL}]

intq_init == [buf |-> [i \in 0 .. INTQ_BUFSIZE - 1 |-> 0], head |-> 0, tail |-> 0,
              lock |-> NULL, not_full |-> NULL, not_empty |-> NULL]

\* The position after pos.
next(pos) == (pos + 1) % INTQ_BUFSIZE

intq_empty(q) == q.head = q.tail

intq_full(q) == next(q.head) = q.tail

\* The byte intq_getc returns, and the queue after it: signal() resets not_full.
intq_front(q) == q.buf[q.tail]
intq_getc(q) == [q EXCEPT !.tail = next(@), !.not_full = NULL]

\* The queue after intq_putc, which signals not_empty.
intq_putc(q, byte) ==
  [q EXCEPT !.buf[q.head] = byte, !.head = next(@), !.not_empty = NULL]

\* A full queue, or an empty one, once t has the lock and waits.
wait_not_full(q, t) == [q EXCEPT !.lock = t, !.not_full = t]
wait_not_empty(q, t) == [q EXCEPT !.lock = t, !.not_empty = t]

\* The bytes in the queue, oldest first.
Contents(q) ==
  [i \in 1 .. ((q.head + INTQ_BUFSIZE - q.tail) % INTQ_BUFSIZE) |->
     q.buf[(q.tail + i - 1) % INTQ_BUFSIZE]]
=============================================================================
