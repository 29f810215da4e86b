------------------------------- MODULE Synch -------------------------------
(***************************************************************************)
(* The kernel threads of Pintos at work: semaphores, locks and condition   *)
(* variables (threads/synch.c), the creation and exit of threads, the idle *)
(* thread (threads/thread.c), preemption by the timer and wake-ups from    *)
(* device interrupts (threads/interrupt.c, devices/timer.c).               *)
(*                                                                         *)
(* Any thread may call any operation whenever it is in code of its own,    *)
(* pc "run", under the preconditions that the operation asserts.  pc says  *)
(* where a thread is inside an operation; on the semaphore or lock that    *)
(* the operation works on; ret where the lock or semaphore call returns    *)
(* to; cond the condition variable of a cond_wait or cond_broadcast.  A    *)
(* step is either one interrupts-off section, or one statement that runs   *)
(* with interrupts on.                                                     *)
(***************************************************************************)
EXTENDS Threads

CONSTANTS
  Sema,         \* semaphores that threads share
  IntrSema,     \* those of them that interrupt handlers up
  IdleStarted,  \* the semaphore idle_started of thread_start
  Lock,         \* locks; a lock's semaphore goes by the name of the lock
  TidLock,      \* tid_lock
  Cond,         \* condition variables
  CondLock,     \* the lock that each condition variable is used with
  MaxValue,     \* bound: no client ups a semaphore beyond this value
  MaxTid,       \* bound: the last thread identifier given out
  MaxSleep      \* bound: the longest timer_sleep

\* A thread in cond_wait has the semaphore_elem `waiter' on its stack.  The
\* semaphore in it goes by the name of the thread.
Semaphore == Sema \cup Lock \cup Thread \cup {IdleStarted}

ASSUME SynchAssumption ==
  /\ IntrSema \subseteq Sema
  /\ TidLock \in Lock
  /\ CondLock \in [Cond -> Lock \ {TidLock}]
  /\ Sema \cap Lock = {} /\ Sema \cap Thread = {} /\ Lock \cap Thread = {}
  /\ IdleStarted \notin Sema \cup Lock \cup Thread
  /\ NULL \notin Semaphore \cup Cond
  /\ MaxValue \in Nat /\ MaxTid \in Nat /\ MaxSleep \in Nat

VARIABLES
  value,         \* sema->value
  waiters,       \* sema->waiters, oldest first
  holder,        \* lock->holder
  cond_waiters,  \* cond->waiters: the threads whose semaphore_elem is on it
  pc, on, ret, cond,
  tid,           \* t->tid, 0 until allocate_tid has answered
  next_tid,
  child,         \* the thread that this thread is creating
  sleep          \* the ticks that timer_sleep still has to see elapse

semaVars == <<value, waiters>>
tidVars == <<tid, next_tid, child>>
vars == <<threadVars, semaVars, holder, cond_waiters, pc, on, ret, cond, tidVars, sleep>>

PC == {"start", "idle_started", "idle_init", "idle_up", "idle", "halt",
       "run", "down", "acquire", "own", "release", "up", "wait", "bcast",
       "tid_read", "tid_write", "created", "sleep"}

TypeOK ==
  /\ ThreadsTypeOK
  /\ value \in [Semaphore -> Nat]
  /\ waiters \in [Semaphore -> Seq(Thread)]
  /\ holder \in [Lock -> Thread \cup {NULL}]
  /\ cond_waiters \in [Cond -> Seq(Thread)]
  /\ pc \in [Thread -> PC]
  /\ on \in [Thread -> Semaphore \cup {NULL}]
  /\ ret \in [Thread -> PC]
  /\ cond \in [Thread -> Cond \cup {NULL}]
  /\ tid \in [Thread -> Nat]
  /\ next_tid \in Nat
  /\ child \in [Thread -> Thread \cup {NULL}]
  /\ sleep \in [Thread -> 0 .. MaxSleep]

\* sema_init: lock_init gives a lock's semaphore the value 1.
sema_init(s) == IF s \in Lock THEN 1 ELSE 0

\* The state thread_init leaves, with interrupts still off: tid 1 is main's.
Init ==
  /\ ThreadInit
  /\ value = [s \in Semaphore |-> sema_init(s)]
  /\ waiters = [s \in Semaphore |-> <<>>]
  /\ holder = [l \in Lock |-> NULL]
  /\ cond_waiters = [c \in Cond |-> <<>>]
  /\ pc = [t \in Thread |-> CASE t = Main -> "start"
                              [] t = Idle -> "idle_init"
                              [] OTHER    -> "run"]
  /\ on = [t \in Thread |-> NULL]
  /\ ret = [t \in Thread |-> "run"]
  /\ cond = [t \in Thread |-> NULL]
  /\ tid = [t \in Thread |-> IF t = Main THEN 1 ELSE 0]
  /\ next_tid = 2
  /\ child = [t \in Thread |-> NULL]
  /\ sleep = [t \in Thread |-> 0]

-----------------------------------------------------------------------------
(* Moves of the running thread within its own code. *)

At(p) == pc[running] = p

Goto(p, o, r, c) ==
  /\ pc' = [pc EXCEPT ![running] = p]
  /\ on' = [on EXCEPT ![running] = o]
  /\ ret' = [ret EXCEPT ![running] = r]
  /\ cond' = [cond EXCEPT ![running] = c]

\* Where a thread goes on after its sema_down(s) has got through: a lock's
\* caller records itself as holder, cond_wait reacquires its lock.
Downed(s, r, c) ==
  \/ s \in Lock                /\ Goto("own", s, r, c)
  \/ s \in Thread              /\ Goto("acquire", CondLock[c], "run", c)
  \/ s \in Sema \cup {IdleStarted} /\ Goto("run", NULL, "run", NULL)

\* One turn of the loop of sema_down(s).  It is called with interrupts on or
\* reentered, with interrupts off, when thread_block() returns.
sema_down(s, r, c) ==
  \/ /\ value[s] = 0
     /\ waiters' = [waiters EXCEPT ![s] = Append(@, running)]
     /\ thread_block
     /\ Goto("down", s, r, c)
     /\ UNCHANGED value
  \/ /\ value[s] > 0
     /\ value' = [value EXCEPT ![s] = @ - 1]
     /\ Downed(s, r, c)
     /\ UNCHANGED <<threadVars, waiters>>

\* Mutants: the waiter is taken off the list and not unblocked; the waiter is
\* unblocked only if the value was 0.
UpWithoutUnblock(s) ==
  /\ value' = [value EXCEPT ![s] = @ + 1]
  /\ waiters' = IF waiters[s] = <<>> THEN waiters ELSE [waiters EXCEPT ![s] = Tail(@)]
  /\ UNCHANGED threadVars

UpWakesFromZero(s) ==
  /\ value' = [value EXCEPT ![s] = @ + 1]
  /\ IF waiters[s] = <<>> \/ value[s] > 0
       THEN UNCHANGED <<threadVars, waiters>>
       ELSE /\ thread_unblock(Head(waiters[s]))
            /\ waiters' = [waiters EXCEPT ![s] = Tail(@)]

\* sema_up(s), called by a thread or by an interrupt handler.
sema_up(s) ==
  /\ value' = [value EXCEPT ![s] = @ + 1]
  /\ IF waiters[s] = <<>>
       THEN UNCHANGED <<threadVars, waiters>>
       ELSE /\ thread_unblock(Head(waiters[s]))
            /\ waiters' = [waiters EXCEPT ![s] = Tail(@)]

-----------------------------------------------------------------------------
(* Semaphores. *)

SemaDown(s) ==
  /\ At("run")
  /\ sema_down(s, "run", NULL)
  /\ UNCHANGED <<holder, cond_waiters, tidVars, sleep>>

\* Mutant: the value is not tested again (if instead of while).
DownWithoutLoop ==
  /\ At("down")
  /\ value' = [value EXCEPT ![on[running]] = IF @ = 0 THEN 0 ELSE @ - 1]
  /\ Downed(on[running], ret[running], cond[running])
  /\ UNCHANGED <<threadVars, waiters, holder, cond_waiters, tidVars, sleep>>

\* A thread that thread_block() has returned to tests the value again.
SemaDownLoop ==
  /\ At("down")
  /\ sema_down(on[running], ret[running], cond[running])
  /\ UNCHANGED <<holder, cond_waiters, tidVars, sleep>>

\* sema_try_down when it succeeds; when it fails it changes nothing.
SemaTryDown(s) ==
  /\ At("run")
  /\ value[s] > 0
  /\ value' = [value EXCEPT ![s] = @ - 1]
  /\ UNCHANGED <<threadVars, waiters, holder, cond_waiters, pc, on, ret, cond, tidVars, sleep>>

SemaUp(s) ==
  /\ At("run")
  /\ value[s] < MaxValue
  /\ sema_up(s)
  /\ UNCHANGED <<holder, cond_waiters, pc, on, ret, cond, tidVars, sleep>>

-----------------------------------------------------------------------------
(* Locks. *)

\* lock_acquire(l), up to the return of its sema_down.
LockAcquire(l) ==
  /\ At("run")
  /\ holder[l] # running
  /\ sema_down(l, "run", NULL)
  /\ UNCHANGED <<holder, cond_waiters, tidVars, sleep>>

\* The lock_acquire of cond_wait, and the one of allocate_tid.
LockAcquireCall ==
  /\ At("acquire")
  /\ sema_down(on[running], ret[running], cond[running])
  /\ UNCHANGED <<holder, cond_waiters, tidVars, sleep>>

\* lock_try_acquire when it gets the lock.
LockTryAcquire(l) ==
  /\ At("run")
  /\ holder[l] # running
  /\ value[l] > 0
  /\ value' = [value EXCEPT ![l] = @ - 1]
  /\ Goto("own", l, "run", NULL)
  /\ UNCHANGED <<threadVars, waiters, holder, cond_waiters, tidVars, sleep>>

\* lock->holder = thread_current (), with interrupts on again.
SetHolder ==
  /\ At("own")
  /\ holder' = [holder EXCEPT ![on[running]] = running]
  /\ Goto(ret[running], NULL, "run", NULL)
  /\ UNCHANGED <<threadVars, semaVars, cond_waiters, tidVars, sleep>>

\* lock_release up to its sema_up: lock->holder = NULL.
clear_holder(l, r, c) ==
  /\ holder[l] = running
  /\ holder' = [holder EXCEPT ![l] = NULL]
  /\ Goto("up", l, r, c)
  /\ UNCHANGED <<threadVars, semaVars, cond_waiters, tidVars, sleep>>

LockRelease(l) ==
  /\ At("run")
  /\ clear_holder(l, "run", NULL)

\* The lock_release of cond_wait, and the one of allocate_tid.
LockReleaseCall ==
  /\ At("release")
  /\ clear_holder(on[running], ret[running], cond[running])

\* The sema_up of lock_release and of cond_signal.
SemaUpCall ==
  /\ At("up")
  /\ sema_up(on[running])
  /\ Goto(ret[running], NULL, "run", cond[running])
  /\ UNCHANGED <<holder, cond_waiters, tidVars, sleep>>

-----------------------------------------------------------------------------
(* Condition variables. *)

HoldsCondLock(c) == holder[CondLock[c]] = running

\* cond_wait(c): put a fresh semaphore on the list, then release the lock.
CondWait(c) ==
  /\ At("run")
  /\ HoldsCondLock(c)
  /\ value' = [value EXCEPT ![running] = 0]
  /\ waiters' = [waiters EXCEPT ![running] = <<>>]
  /\ cond_waiters' = [cond_waiters EXCEPT ![c] = Append(@, running)]
  /\ Goto("release", CondLock[c], "wait", c)
  /\ UNCHANGED <<threadVars, holder, tidVars, sleep>>

\* Mutant: the semaphore is initialized only after the lock is released.
WaitInitLate ==
  /\ At("wait")
  /\ value' = [value EXCEPT ![running] = 0]
  /\ waiters' = [waiters EXCEPT ![running] = <<running>>]
  /\ thread_block
  /\ Goto("down", running, "run", cond[running])
  /\ UNCHANGED <<holder, cond_waiters, tidVars, sleep>>

\* The sema_down of cond_wait.
CondWaitDown ==
  /\ At("wait")
  /\ sema_down(running, "run", cond[running])
  /\ UNCHANGED <<holder, cond_waiters, tidVars, sleep>>

\* Mutant: the newest waiter is signalled.
SignalNewest(c, r, k) ==
  LET n == Len(cond_waiters[c])
  IN /\ HoldsCondLock(c)
     /\ n > 0
     /\ cond_waiters' = [cond_waiters EXCEPT ![c] = SubSeq(@, 1, n - 1)]
     /\ Goto("up", cond_waiters[c][n], r, k)

\* cond_signal up to its sema_up; with no waiter it changes nothing.
cond_signal(c, r, k) ==
  /\ HoldsCondLock(c)
  /\ cond_waiters[c] # <<>>
  /\ cond_waiters' = [cond_waiters EXCEPT ![c] = Tail(@)]
  /\ Goto("up", Head(cond_waiters[c]), r, k)

CondSignal(c) ==
  /\ At("run")
  /\ cond_signal(c, "run", NULL)
  /\ UNCHANGED <<threadVars, semaVars, holder, tidVars, sleep>>

CondBroadcast(c) ==
  /\ At("run")
  /\ HoldsCondLock(c)
  /\ Goto("bcast", NULL, "run", c)
  /\ UNCHANGED <<threadVars, semaVars, holder, cond_waiters, tidVars, sleep>>

\* The loop of cond_broadcast.
CondBroadcastLoop ==
  /\ At("bcast")
  /\ \/ cond_signal(cond[running], "bcast", cond[running])
     \/ /\ cond_waiters[cond[running]] = <<>>
        /\ Goto("run", NULL, "run", NULL)
        /\ UNCHANGED cond_waiters
  /\ UNCHANGED <<threadVars, semaVars, holder, tidVars, sleep>>

-----------------------------------------------------------------------------
(* Creation, exit and yield. *)

\* thread_create, up to its call of allocate_tid.  When no page is free it
\* returns TID_ERROR and changes nothing.
ThreadCreate(t) ==
  /\ At("run")
  /\ status[t] = "FREE"
  /\ next_tid <= MaxTid
  /\ init_thread(t)
  /\ child' = [child EXCEPT ![running] = t]
  /\ Goto("acquire", TidLock, "tid_read", NULL)
  /\ UNCHANGED <<semaVars, holder, cond_waiters, tid, next_tid, sleep>>

\* tid = next_tid++ under tid_lock: the load, then the store.
TidRead ==
  /\ At("tid_read")
  /\ tid' = [tid EXCEPT ![child[running]] = next_tid]
  /\ Goto("tid_write", NULL, "run", NULL)
  /\ UNCHANGED <<threadVars, semaVars, holder, cond_waiters, next_tid, child, sleep>>

TidWrite ==
  /\ At("tid_write")
  /\ next_tid' = tid[child[running]] + 1
  /\ Goto("release", TidLock, "created", NULL)
  /\ UNCHANGED <<threadVars, semaVars, holder, cond_waiters, tid, child, sleep>>

\* The end of thread_create: the new thread becomes ready.
ThreadCreated ==
  /\ At("created")
  /\ thread_unblock(child[running])
  /\ child' = [child EXCEPT ![running] = NULL]
  /\ Goto("run", NULL, "run", NULL)
  /\ UNCHANGED <<semaVars, holder, cond_waiters, tid, next_tid, sleep>>

\* thread_exit of a thread that holds no lock and that no process waits for.
\* The page may hold another thread later, which starts afresh.
ThreadExit ==
  /\ At("run")
  /\ \A l \in Lock : holder[l] # running
  /\ thread_exit(NULL)
  /\ tid' = [tid EXCEPT ![running] = 0]
  /\ UNCHANGED <<semaVars, holder, cond_waiters, pc, on, ret, cond, next_tid, child, sleep>>

ThreadYield ==
  /\ At("run")
  /\ thread_yield
  /\ UNCHANGED <<semaVars, holder, cond_waiters, pc, on, ret, cond, tidVars, sleep>>

-----------------------------------------------------------------------------
(* Start of the scheduler, and the idle thread. *)

\* thread_start: creates the idle thread and enables interrupts.
ThreadStart ==
  /\ At("start")
  /\ status' = [status EXCEPT ![Idle] = "READY"]
  /\ ready_list' = Append(ready_list, Idle)
  /\ all_list' = all_list \cup {Idle}
  /\ tid' = [tid EXCEPT ![Idle] = next_tid]
  /\ next_tid' = next_tid + 1
  /\ Goto("idle_started", NULL, "run", NULL)
  /\ UNCHANGED <<running, idle_thread, thread_ticks, semaVars, holder, cond_waiters, child, sleep>>

\* Main waits for the idle thread to initialize idle_thread.
ThreadStartWait ==
  /\ At("idle_started")
  /\ sema_down(IdleStarted, "run", NULL)
  /\ UNCHANGED <<holder, cond_waiters, tidVars, sleep>>

IdleInit ==
  /\ At("idle_init")
  /\ idle_thread' = running
  /\ Goto("idle_up", NULL, "run", NULL)
  /\ UNCHANGED <<running, status, ready_list, all_list, thread_ticks,
                 semaVars, holder, cond_waiters, tidVars, sleep>>

IdleUp ==
  /\ At("idle_up")
  /\ sema_up(IdleStarted)
  /\ Goto("idle", NULL, "run", NULL)
  /\ UNCHANGED <<holder, cond_waiters, tidVars, sleep>>

\* The loop of idle(): block; when scheduled again, enable interrupts and halt.
IdleBlock ==
  /\ At("idle")
  /\ thread_block
  /\ Goto("halt", NULL, "run", NULL)
  /\ UNCHANGED <<semaVars, holder, cond_waiters, tidVars, sleep>>

-----------------------------------------------------------------------------
(* The timer, and interrupts. *)

\* timer_sleep(n): the loop tests the elapsed ticks and yields.
TimerSleep(n) ==
  /\ At("run")
  /\ sleep' = [sleep EXCEPT ![running] = n]
  /\ Goto("sleep", NULL, "run", NULL)
  /\ UNCHANGED <<threadVars, semaVars, holder, cond_waiters, tidVars>>

TimerSleepLoop ==
  /\ At("sleep")
  /\ \/ /\ sleep[running] = 0
        /\ Goto("run", NULL, "run", NULL)
        /\ UNCHANGED threadVars
     \/ /\ sleep[running] > 0
        /\ thread_yield
        /\ UNCHANGED <<pc, on, ret, cond>>
  /\ UNCHANGED <<semaVars, holder, cond_waiters, tidVars, sleep>>

\* Interrupts are off before thread_start enables them, and in a thread that
\* thread_block() returns to, until sema_down restores the level.
InterruptsOn == pc[running] \notin {"start", "down"}

\* An interrupt makes the hlt of the idle loop return.
leave_hlt ==
  /\ pc' = [pc EXCEPT ![running] = IF @ = "halt" THEN "idle" ELSE @]
  /\ UNCHANGED <<on, ret, cond>>

\* timer_interrupt under intr_handler.
TimerInterrupt ==
  /\ InterruptsOn
  /\ thread_tick
  /\ sleep' = [t \in Thread |-> IF sleep[t] > 0 THEN sleep[t] - 1 ELSE 0]
  /\ leave_hlt
  /\ UNCHANGED <<semaVars, holder, cond_waiters, tidVars>>

\* A device's handler under intr_handler: it ups a semaphore.
DeviceInterrupt(s) ==
  /\ InterruptsOn
  /\ value[s] < MaxValue
  /\ sema_up(s)
  /\ leave_hlt
  /\ UNCHANGED <<holder, cond_waiters, tidVars, sleep>>

-----------------------------------------------------------------------------
\* A call that a thread makes from code of its own.
Call ==
  \/ \E s \in Sema : SemaDown(s) \/ SemaTryDown(s) \/ SemaUp(s)
  \/ \E l \in Lock \ {TidLock} : LockAcquire(l) \/ LockTryAcquire(l) \/ LockRelease(l)
  \/ \E c \in Cond : CondWait(c) \/ CondSignal(c) \/ CondBroadcast(c)
  \/ \E t \in Thread : ThreadCreate(t)
  \/ ThreadExit
  \/ ThreadYield
  \/ \E n \in 1 .. MaxSleep : TimerSleep(n)

\* The running thread goes on with the operation it is in.
Continue ==
  \/ SemaDownLoop \/ LockAcquireCall \/ SetHolder \/ LockReleaseCall \/ SemaUpCall
  \/ CondWaitDown \/ CondBroadcastLoop
  \/ TidRead \/ TidWrite \/ ThreadCreated
  \/ ThreadStart \/ ThreadStartWait \/ IdleInit \/ IdleUp \/ IdleBlock
  \/ TimerSleepLoop

Interrupt ==
  \/ TimerInterrupt
  \/ \E s \in IntrSema : DeviceInterrupt(s)

Next == Call \/ Continue \/ Interrupt

Spec == Init /\ [][Next]_vars

-----------------------------------------------------------------------------
(* Safety. *)

\* A thread on a semaphore's wait list is blocked in sema_down of that very
\* semaphore, and is on the list once.
WaitListsOK ==
  \A s \in Semaphore :
    /\ IsInjective(waiters[s])
    /\ \A t \in Range(waiters[s]) : status[t] = "BLOCKED" /\ pc[t] = "down" /\ on[t] = s

\* The elem member of a struct thread is on one list at most: the run queue
\* of a ready thread, or one wait list of a blocked one (thread.h:78); and a
\* blocked thread can be found by whoever has to wake it: it is on the wait
\* list of its semaphore, or it is the idle thread, or it is being created.
ThreadsQueued ==
  /\ RunQueueOK /\ WaitListsOK
  /\ \A t \in Thread : status[t] = "BLOCKED" =>
       \/ pc[t] = "down" /\ t \in Range(waiters[on[t]])
       \/ t = idle_thread
       \/ \E u \in Thread : child[u] = t

\* The threads that sema_up has taken off the wait list of s and that have
\* not tested the value yet.
Woken(s) == {t \in Thread : pc[t] = "down" /\ on[t] = s /\ status[t] # "BLOCKED"}

\* No lost wake-up: while threads wait for s, each unit of its value has a
\* woken thread that is on its way to take it.
NoLostWakeup ==
  \A s \in Semaphore : waiters[s] # <<>> => value[s] <= Cardinality(Woken(s))

\* The threads between the sema_down of lock_acquire(l) and the sema_up of
\* lock_release(l).  lock->holder is not set at both ends of this stretch.
Owners(l) ==
  {t \in Thread : holder[l] = t \/ (pc[t] \in {"own", "up"} /\ on[t] = l)}

\* A lock has one owner at most, and its semaphore tells whether it has one.
MutualExclusion ==
  \A l \in Lock :
    /\ \A t, u \in Owners(l) : t = u
    /\ value[l] = IF Owners(l) = {} THEN 1 ELSE 0

\* The threads in cond_wait that have not got through the sema_down of their
\* own semaphore: their semaphore_elem is still on their stack.
InCondWait(t) ==
  \/ pc[t] = "wait"
  \/ pc[t] \in {"release", "up"} /\ ret[t] = "wait"
  \/ pc[t] = "down" /\ on[t] = t

\* The threads that have popped t off a condition's list and have yet to up
\* its semaphore.
Signallers(t) == {u \in Thread : pc[u] = "up" /\ on[u] = t}

\* No signal is lost and none hits a dead stack frame: a thread in cond_wait
\* is on the list of its condition, or about to be upped by one signaller, or
\* has been upped; any other thread is none of these.
NoLostSignal ==
  \A t \in Thread :
    LET listed == {c \in Cond : t \in Range(cond_waiters[c])}
    IN IF InCondWait(t)
         THEN \/ listed = {cond[t]} /\ Signallers(t) = {} /\ value[t] = 0
              \/ listed = {} /\ Cardinality(Signallers(t)) = 1 /\ value[t] = 0
              \/ listed = {} /\ Signallers(t) = {} /\ value[t] = 1
         ELSE listed = {} /\ Signallers(t) = {} /\ value[t] = 0

-----------------------------------------------------------------------------
(* Liveness.  The timer keeps ticking: a timer interrupt that arrives while *)
(* interrupts are off stays pending in the interrupt controller.  A thread  *)
(* that is given the CPU again and again gets instructions executed between *)
(* the ticks, so it goes on with the operation it is in.                    *)

Fairness ==
  /\ SF_vars(TimerInterrupt)
  /\ \A t \in Thread : SF_vars(running = t /\ Continue)

FairSpec == Spec /\ Fairness

\* Round robin: a ready thread gets the CPU.
ReadyRuns ==
  \A t \in Thread \ {Idle} : status[t] = "READY" ~> status[t] = "RUNNING"

\* timer_sleep returns.
SleepEnds ==
  \A t \in Thread \ {Idle} : pc[t] = "sleep" ~> pc[t] = "run"
=============================================================================
