---------------------------- MODULE SynchMonitor ----------------------------
(***************************************************************************)
(* A lock of Synch, with the condition variables used with it, implements  *)
(* Monitor.  A thread owns the monitor from the sema_down of lock_acquire  *)
(* to the sema_up of lock_release, whatever lock->holder says; a thread in *)
(* cond_wait puts itself on cond->waiters early, but it waits only once it *)
(* has given up the lock.                                                  *)
(***************************************************************************)
EXTENDS Synch

CONSTANT theLock   \* the lock whose monitor is looked at

ASSUME MonitorAssumption == theLock \in Lock

MonitorCond == {c \in Cond : CondLock[c] = theLock}

monitorOwner == IF Owners(theLock) = {} THEN NULL ELSE CHOOSE t \in Owners(theLock) : TRUE

\* Only the newest thread of a condition's list can still own the lock.
withoutOwner(list, owners) ==
  IF Len(list) > 0 /\ list[Len(list)] \in owners THEN SubSeq(list, 1, Len(list) - 1) ELSE list

monitorQueue == [c \in MonitorCond |-> withoutOwner(cond_waiters[c], Owners(theLock))]

monitorSignalled ==
  {t \in Thread : /\ cond[t] \in MonitorCond
                  /\ t \notin Range(cond_waiters[cond[t]])
                  /\ t \notin Owners(theLock)}

M == INSTANCE Monitor WITH
       Cond <- MonitorCond,
       owner <- monitorOwner,
       queue <- monitorQueue,
       signalled <- monitorSignalled

\* The locks and condition variables of synch.c behave as a monitor: cond_wait
\* releases and waits atomically although its steps can be preempted, and
\* signals reach the waiting threads in order.
ImplementsMonitor == M!MSpec
=============================================================================
