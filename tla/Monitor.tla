------------------------------ MODULE Monitor ------------------------------
(***************************************************************************)
(* What a lock and its condition variables promise to the threads that use *)
(* them, as the comments of threads/synch.c put it: one owner at a time, a *)
(* cond_wait that releases the lock and starts to wait in one step, first  *)
(* come first served signals, and "Mesa" style wake-ups, where a signalled *)
(* thread competes for the lock with every other thread.                   *)
(***************************************************************************)
EXTENDS Sequences, Functions

CONSTANTS Thread, NULL, Cond

VARIABLES
  owner,      \* the thread inside the monitor, or NULL
  queue,      \* for each condition, the threads waiting for it in order
  signalled   \* the threads that have been signalled and want to come back

mvars == <<owner, queue, signalled>>

Outside(t) == t \notin signalled /\ \A c \in Cond : t \notin Range(queue[c])

MInit ==
  /\ owner = NULL
  /\ queue = [c \in Cond |-> <<>>]
  /\ signalled = {}

\* lock_acquire or lock_try_acquire gets the lock.
Acquire(t) ==
  /\ owner = NULL
  /\ Outside(t)
  /\ owner' = t
  /\ UNCHANGED <<queue, signalled>>

Release ==
  /\ owner # NULL
  /\ owner' = NULL
  /\ UNCHANGED <<queue, signalled>>

\* cond_wait: "atomically releases LOCK and waits for COND to be signaled".
Wait(c) ==
  /\ owner # NULL
  /\ owner' = NULL
  /\ queue' = [queue EXCEPT ![c] = Append(@, owner)]
  /\ UNCHANGED signalled

\* cond_signal, or one turn of cond_broadcast.
Signal(c) ==
  /\ owner # NULL
  /\ queue[c] # <<>>
  /\ queue' = [queue EXCEPT ![c] = Tail(@)]
  /\ signalled' = signalled \cup {Head(queue[c])}
  /\ UNCHANGED owner

\* "After COND is signaled, LOCK is reacquired before returning."
Reacquire(t) ==
  /\ owner = NULL
  /\ t \in signalled
  /\ owner' = t
  /\ signalled' = signalled \ {t}
  /\ UNCHANGED queue

MNext ==
  \/ \E t \in Thread : Acquire(t) \/ Reacquire(t)
  \/ Release
  \/ \E c \in Cond : Wait(c) \/ Signal(c)

MSpec == MInit /\ [][MNext]_mvars
=============================================================================
