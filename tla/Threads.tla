------------------------------ MODULE Threads ------------------------------
(***************************************************************************)
(* The scheduler of threads/thread.c: the run queue, the state of each     *)
(* struct thread, and the fragments that every operation which switches    *)
(* threads is made of.  There is one CPU.  Code that runs with interrupts  *)
(* off is atomic up to its call of schedule(), so a fragment describes one *)
(* interrupts-off section: it takes the statuses and the run queue as the  *)
(* section has left them and says what schedule() makes of them.           *)
(***************************************************************************)
EXTENDS Naturals, Sequences, FiniteSets, Functions

CONSTANTS
  Thread,      \* the pages that can hold a struct thread
  Main,        \* initial_thread, made by thread_init
  Idle,        \* the page of the thread that runs idle()
  NULL,        \* the null pointer
  TIME_SLICE   \* # of timer ticks to give each thread

ASSUME ThreadAssumption ==
  /\ Main \in Thread
  /\ Idle \in Thread
  /\ Main # Idle
  /\ NULL \notin Thread
  /\ TIME_SLICE \in Nat \ {0}

ASSUME PagesFinite == IsFiniteSet(Thread)

VARIABLES
  running,       \* running_thread(): the owner of the stack in use
  status,        \* t->status; "FREE" while the page holds no thread
  ready_list,    \* threads in THREAD_READY state, oldest first
  all_list,      \* the threads init_thread added and thread_exit has not removed
  idle_thread,   \* NULL until idle() has started
  thread_ticks   \* # of timer ticks since the last switch

threadVars == <<running, status, ready_list, all_list, idle_thread, thread_ticks>>

Status == {"FREE", "RUNNING", "READY", "BLOCKED", "DYING"}

ThreadsTypeOK ==
  /\ running \in Thread
  /\ status \in [Thread -> Status]
  /\ ready_list \in Seq(Thread)
  /\ all_list \subseteq Thread
  /\ idle_thread \in {NULL, Idle}
  /\ thread_ticks \in 0 .. (TIME_SLICE - 1)

\* thread_init: the code that is running becomes the thread main.
ThreadInit ==
  /\ running = Main
  /\ status = [t \in Thread |-> IF t = Main THEN "RUNNING" ELSE "FREE"]
  /\ ready_list = <<>>
  /\ all_list = {Main}
  /\ idle_thread = NULL
  /\ thread_ticks = 0

-----------------------------------------------------------------------------
\* The thread schedule() picks from the run queue rl.
next_thread_to_run(rl) == IF rl = <<>> THEN idle_thread ELSE Head(rl)

\* The status left behind by thread_schedule_tail: the new thread runs, and
\* the page of a dying thread we switched from is freed, unless it is main's.
thread_schedule_tail(st, next) ==
  [t \in Thread |->
     IF t = next THEN "RUNNING"
     ELSE IF t = running /\ st[t] = "DYING" /\ t # Main THEN "FREE"
     ELSE st[t]]

\* schedule(), entered with statuses st and run queue rl.
schedule(st, rl) ==
  LET next == next_thread_to_run(rl)
  IN /\ running' = next
     /\ ready_list' = IF rl = <<>> THEN rl ELSE Tail(rl)
     /\ status' = thread_schedule_tail(st, next)
     /\ thread_ticks' = 0
     /\ UNCHANGED idle_thread

\* thread_block(): the running thread sleeps until it is unblocked.
thread_block ==
  /\ schedule([status EXCEPT ![running] = "BLOCKED"], ready_list)
  /\ UNCHANGED all_list

\* thread_unblock(t): t goes to the end of the run queue; the caller runs on.
thread_unblock(t) ==
  /\ ready_list' = Append(ready_list, t)
  /\ status' = [status EXCEPT ![t] = "READY"]
  /\ UNCHANGED <<running, all_list, idle_thread, thread_ticks>>

\* Mutant: a thread that yields is put at the front of the run queue.
YieldToFront ==
  /\ schedule([status EXCEPT ![running] = "READY"],
              IF running = idle_thread THEN ready_list ELSE <<running>> \o ready_list)
  /\ UNCHANGED all_list

\* thread_yield(): the idle thread is never put on the run queue.
thread_yield ==
  /\ schedule([status EXCEPT ![running] = "READY"],
              IF running = idle_thread THEN ready_list
                                       ELSE Append(ready_list, running))
  /\ UNCHANGED all_list

\* thread_exit() after process_exit(): waiter is the thread whose tid is in
\* waiting_thread, or NULL.  The waiter is unblocked in the same section.
thread_exit(waiter) ==
  /\ all_list' = all_list \ {running}
  /\ IF waiter = NULL
       THEN schedule([status EXCEPT ![running] = "DYING"], ready_list)
       ELSE schedule([status EXCEPT ![waiter] = "READY", ![running] = "DYING"],
                     Append(ready_list, waiter))

\* init_thread(t): a blocked thread, visible on all_list.
init_thread(t) ==
  /\ status' = [status EXCEPT ![t] = "BLOCKED"]
  /\ all_list' = all_list \cup {t}
  /\ UNCHANGED <<running, ready_list, idle_thread, thread_ticks>>

\* Mutants: the slice is one tick too long; no thread is ever preempted.
LongSlice ==
  IF thread_ticks + 1 > TIME_SLICE
    THEN thread_yield
    ELSE /\ thread_ticks' = thread_ticks + 1
         /\ UNCHANGED <<running, status, ready_list, all_list, idle_thread>>

NeverPreempt == UNCHANGED threadVars

\* thread_tick(), and the thread_yield() that intr_handler calls on the way
\* out when the slice is used up.
thread_tick ==
  IF thread_ticks + 1 >= TIME_SLICE
    THEN thread_yield
    ELSE /\ thread_ticks' = thread_ticks + 1
         /\ UNCHANGED <<running, status, ready_list, all_list, idle_thread>>

-----------------------------------------------------------------------------
\* The run queue holds every ready thread exactly once, and never the idle
\* thread once idle() has set idle_thread; the CPU belongs to one thread.
RunQueueOK ==
  /\ IsInjective(ready_list)
  /\ Range(ready_list) = {t \in Thread : status[t] = "READY"} \ {idle_thread}
  /\ \A t \in Thread : status[t] = "RUNNING" <=> t = running
=============================================================================
