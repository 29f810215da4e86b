------------------------------ MODULE Process ------------------------------
(***************************************************************************)
(* The life of user processes: process_execute, start_process, load,       *)
(* process_wait and process_exit (userprog/process.c), the exec, wait and  *)
(* exit system calls (userprog/syscall.c), the part of thread_exit that    *)
(* wakes a waiting process (threads/thread.c), and the page directory that *)
(* the CPU uses (userprog/pagedir.c).                                      *)
(*                                                                         *)
(* A process is preempted between any two steps by the timer, except where *)
(* the code has turned interrupts off.  The file system is left out: an    *)
(* executable opens or not, and loads or not.  A failed ASSERT panics the  *)
(* kernel, and nothing happens any more.                                   *)
(***************************************************************************)
EXTENDS Threads, Integers

CONSTANTS
  ExitCode,     \* the statuses that user programs pass to exit
  KernelPages,  \* number of pages in the kernel pool
  MaxTid,       \* bound: the last thread identifier given out
  AnyTid        \* whether processes also wait for threads they did not create

ASSUME ProcessAssumption ==
  /\ ExitCode \subseteq Nat
  /\ KernelPages \in Nat
  /\ MaxTid \in Nat /\ MaxTid >= 2
  /\ AnyTid \in BOOLEAN

TID_ERROR == -1
ExitStatus == ExitCode \cup {0, -1}
Tid == 1 .. MaxTid
Alive == -2      \* in place of an exit status: has not exited

VARIABLES
  level,              \* interrupt level a thread runs with: process_wait leaves it off
  pc,                 \* where a thread is in the code
  tid, next_tid,
  wait_called, waiting_thread, child_exit_status, exit_status,
  wt,                 \* the local variable t of process_wait: a page
  arg,                \* what run_task passes from process_execute to process_wait
  pagedir,            \* t->pagedir: NULL or t, which names the directory
  live_pd,            \* the page directories that exist
  cr3,                \* the directory the CPU uses; NULL is init_page_dir
  free_pages,         \* free pages in the kernel pool
  panic,
  parent,             \* history: tid of the creator of each tid
  exited,             \* history: exit status of each tid that has exited
  woken_by            \* history: tid whose exit last woke a thread

waitVars == <<wait_called, waiting_thread, child_exit_status, exit_status, wt, arg>>
pdVars == <<pagedir, live_pd>>
tidVars == <<tid, next_tid, parent>>
histVars == <<exited, woken_by>>
vars == <<threadVars, level, pc, tidVars, waitVars, pdVars, cr3, free_pages, panic, histVars>>

PC == {"halt", "idle", "main", "main_wait", "start", "load", "activate", "loading", "run",
       "wait_check", "wait_mark", "wait_set", "wait_block", "waited",
       "exit", "exit_activate", "exit_destroy", "die"}

TypeOK ==
  /\ ThreadsTypeOK
  /\ level \in [Thread -> {"ON", "OFF"}]
  /\ pc \in [Thread -> PC]
  /\ tid \in [Thread -> 0 .. MaxTid]
  /\ next_tid \in 1 .. (MaxTid + 1)
  /\ wait_called \in [Thread -> BOOLEAN]
  /\ waiting_thread \in [Thread -> 0 .. MaxTid]
  /\ child_exit_status \in [Thread -> ExitStatus]
  /\ exit_status \in [Thread -> ExitStatus]
  /\ wt \in [Thread -> Thread \cup {NULL}]
  /\ arg \in [Thread -> Tid \cup {0, TID_ERROR}]
  /\ \A t \in Thread : pagedir[t] \in {NULL, t}
  /\ live_pd \subseteq Thread
  /\ cr3 \in Thread \cup {NULL}
  /\ free_pages \in 0 .. KernelPages
  /\ panic \in BOOLEAN
  /\ parent \in [Tid -> 0 .. MaxTid]
  /\ exited \in [Tid -> ExitStatus \cup {Alive}]
  /\ woken_by \in [Thread -> 0 .. MaxTid]

\* The kernel has started: main has tid 1, the idle thread tid 2.
Init ==
  /\ running = Main
  /\ status = [t \in Thread |-> CASE t = Main -> "RUNNING"
                                  [] t = Idle -> "BLOCKED"
                                  [] OTHER    -> "FREE"]
  /\ ready_list = <<>>
  /\ all_list = {Main, Idle}
  /\ idle_thread = Idle
  /\ thread_ticks = 0
  /\ level = [t \in Thread |-> "ON"]
  /\ pc = [t \in Thread |-> CASE t = Main -> "main"
                              [] t = Idle -> "halt"
                              [] OTHER    -> "start"]
  /\ tid = [t \in Thread |-> CASE t = Main -> 1 [] t = Idle -> 2 [] OTHER -> 0]
  /\ next_tid = 3
  /\ wait_called = [t \in Thread |-> FALSE]
  /\ waiting_thread = [t \in Thread |-> 0]
  /\ child_exit_status = [t \in Thread |-> 0]
  /\ exit_status = [t \in Thread |-> 0]
  /\ wt = [t \in Thread |-> NULL]
  /\ arg = [t \in Thread |-> 0]
  /\ pagedir = [t \in Thread |-> NULL]
  /\ live_pd = {}
  /\ cr3 = NULL
  /\ free_pages = KernelPages
  /\ panic = FALSE
  /\ parent = [n \in Tid |-> 0]
  /\ exited = [n \in Tid |-> Alive]
  /\ woken_by = [t \in Thread |-> 0]

-----------------------------------------------------------------------------
At(p) == ~panic /\ pc[running] = p
Goto(p) == pc' = [pc EXCEPT ![running] = p]

\* thread_schedule_tail also calls process_activate.
\* Mutant: a switch keeps the directory.
ForgetActivate == UNCHANGED cr3
process_activate == cr3' = pagedir[running']

-----------------------------------------------------------------------------
(* Creation of a process. *)

\* What thread_create and the two copies of the command line leave of n free
\* pages.  Neither copy is freed, except the first when thread_create fails.
PagesAfterExecute(n) == CASE n < 2 -> 0
                          [] n = 2 -> 1
                          [] n > 2 -> n - 3

process_execute_result(n) == IF n > 2 THEN next_tid ELSE TID_ERROR

\* process_execute, entered with n free pages; t is the page of the new thread.
process_execute(n, t) ==
  /\ free_pages' = PagesAfterExecute(n)
  /\ \/ /\ n <= 2
        /\ UNCHANGED <<status, ready_list, all_list, tidVars, wait_called,
                       waiting_thread, child_exit_status, exit_status, level>>
     \/ /\ n > 2
        /\ next_tid <= MaxTid
        /\ status[t] = "FREE"
        /\ status' = [status EXCEPT ![t] = "READY"]
        /\ ready_list' = Append(ready_list, t)
        /\ all_list' = all_list \cup {t}
        /\ tid' = [tid EXCEPT ![t] = next_tid]
        /\ next_tid' = next_tid + 1
        /\ parent' = [parent EXCEPT ![next_tid] = tid[running]]
        /\ wait_called' = [wait_called EXCEPT ![t] = FALSE]
        /\ waiting_thread' = [waiting_thread EXCEPT ![t] = 0]
        /\ child_exit_status' = [child_exit_status EXCEPT ![t] = 0]
        /\ exit_status' = [exit_status EXCEPT ![t] = 0]
        /\ level' = [level EXCEPT ![t] = "ON"]
  /\ UNCHANGED <<running, idle_thread, thread_ticks, wt, pdVars, cr3, panic>>

\* The page t starts a new life at start_process, if it has been allocated.
Started(t, n, p) ==
  IF n > 2 THEN [pc EXCEPT ![t] = "start", ![running] = p] ELSE [pc EXCEPT ![running] = p]
Forgotten(t, n) ==
  IF n > 2 THEN woken_by' = [woken_by EXCEPT ![t] = 0] ELSE UNCHANGED woken_by

\* exec: cmd_copy is never freed.  With no page for it, or when the executable
\* cannot be opened, exec returns -1.
Exec(t) ==
  /\ At("run")
  /\ free_pages > 0
  /\ process_execute(free_pages - 1, t)
  /\ pc' = Started(t, free_pages - 1, "run")
  /\ Forgotten(t, free_pages - 1)
  /\ UNCHANGED <<arg, exited>>

ExecOpenFails ==
  /\ At("run")
  /\ free_pages > 0
  /\ free_pages' = free_pages - 1
  /\ UNCHANGED <<threadVars, level, pc, tidVars, waitVars, pdVars, cr3, panic, histVars>>

\* run_task: process_wait (process_execute (task)).
RunTask(t) ==
  /\ At("main")
  /\ process_execute(free_pages, t)
  /\ arg' = [arg EXCEPT ![running] = process_execute_result(free_pages)]
  /\ pc' = Started(t, free_pages, "main_wait")
  /\ Forgotten(t, free_pages)
  /\ UNCHANGED exited

\* start_process takes a page for its copy of the command line; without one it
\* returns and kernel_thread calls thread_exit.
StartProcess ==
  /\ At("start")
  /\ \/ free_pages = 0 /\ Goto("exit") /\ UNCHANGED free_pages
     \/ free_pages > 0 /\ Goto("load") /\ free_pages' = free_pages - 1
  /\ UNCHANGED <<threadVars, level, tidVars, waitVars, pdVars, cr3, panic, histVars>>

\* load: pagedir_create ...
LoadPagedir ==
  /\ At("load")
  /\ \/ /\ free_pages = 0
        /\ free_pages' = free_pages + 1        \* start_process frees input_cpy
        /\ Goto("exit")
        /\ UNCHANGED pdVars
     \/ /\ free_pages > 0
        /\ free_pages' = free_pages - 1
        /\ pagedir' = [pagedir EXCEPT ![running] = running]
        /\ live_pd' = live_pd \cup {running}
        /\ Goto("activate")
  /\ UNCHANGED <<threadVars, level, tidVars, waitVars, cr3, panic, histVars>>

\* ... process_activate ...
LoadActivate ==
  /\ At("activate")
  /\ Goto("loading")
  /\ cr3' = pagedir[running]
  /\ UNCHANGED <<threadVars, level, tidVars, waitVars, pdVars, free_pages, panic, histVars>>

\* ... and the rest, which fails before setup_stack or reaches it; setup_stack
\* takes a page, if there is one, for a copy of the command line that it never
\* frees.  start_process frees its own and jumps to user code or calls
\* thread_exit.
LoadDone ==
  /\ At("loading")
  /\ \/ free_pages' = free_pages + 1 /\ Goto("exit")
     \/ /\ free_pages' = IF free_pages = 0 THEN 1 ELSE free_pages
        /\ Goto("run") \/ Goto("exit")
  /\ UNCHANGED <<threadVars, level, tidVars, waitVars, pdVars, cr3, panic, histVars>>

-----------------------------------------------------------------------------
(* process_wait. *)

\* process_wait returns; system calls return to user code by iret, which
\* turns interrupts on, while run_task goes on at the level it has.
WaitReturn ==
  /\ level' = IF running = Main THEN level ELSE [level EXCEPT ![running] = "ON"]
  /\ Goto(IF running = Main THEN "main" ELSE "run")

\* get_thread walks all_list with interrupts off.
get_thread(n) == IF \E t \in all_list : tid[t] = n
                   THEN CHOOSE t \in all_list : tid[t] = n ELSE NULL

process_wait(n) ==
  LET t == get_thread(n)
  IN /\ wt' = [wt EXCEPT ![running] = t]
     /\ IF t = NULL
          THEN WaitReturn
          ELSE Goto("wait_check") /\ UNCHANGED level
     /\ UNCHANGED <<threadVars, tidVars, wait_called, waiting_thread, child_exit_status,
                    exit_status, arg, pdVars, cr3, free_pages, panic, histVars>>

\* Which identifiers a program may ask for: any, or those of its children.
Awaitable(n) == AnyTid \/ parent[n] = tid[running]

Wait(n) == At("run") /\ Awaitable(n) /\ process_wait(n)
MainWait == At("main_wait") /\ process_wait(arg[running])

\* if (t->wait_called) return -1.  A freed page may hold anything.
WaitCheck ==
  /\ At("wait_check")
  /\ \E called \in IF status[wt[running]] = "FREE" THEN BOOLEAN ELSE {wait_called[wt[running]]} :
       IF called THEN WaitReturn
                 ELSE Goto("wait_mark") /\ UNCHANGED level
  /\ UNCHANGED <<threadVars, tidVars, waitVars, pdVars, cr3, free_pages, panic, histVars>>

WaitMark ==
  /\ At("wait_mark")
  /\ wait_called' = [wait_called EXCEPT ![wt[running]] = TRUE]
  /\ Goto("wait_set")
  /\ UNCHANGED <<threadVars, level, tidVars, waiting_thread, child_exit_status, exit_status, wt,
                 arg, pdVars, cr3, free_pages, panic, histVars>>

WaitSet ==
  /\ At("wait_set")
  /\ waiting_thread' = [waiting_thread EXCEPT ![wt[running]] = tid[running]]
  /\ Goto("wait_block")
  /\ UNCHANGED <<threadVars, level, tidVars, wait_called, child_exit_status, exit_status, wt, arg,
                 pdVars, cr3, free_pages, panic, histVars>>

\* intr_disable (); thread_block ();
WaitBlock ==
  /\ At("wait_block")
  /\ thread_block
  /\ process_activate
  /\ Goto("waited")
  /\ level' = [level EXCEPT ![running] = "OFF"]
  /\ UNCHANGED <<tidVars, waitVars, pdVars, free_pages, panic, histVars>>

Waited ==
  /\ At("waited")
  /\ WaitReturn
  /\ UNCHANGED <<threadVars, tidVars, waitVars, pdVars, cr3, free_pages, panic, histVars>>

-----------------------------------------------------------------------------
(* Exit of a process. *)

\* exit, and kill, which ends a process with status -1.
Exit(code) ==
  /\ At("run")
  /\ exit_status' = [exit_status EXCEPT ![running] = code]
  /\ Goto("exit")
  /\ UNCHANGED <<threadVars, level, tidVars, wait_called, waiting_thread, child_exit_status, wt,
                 arg, pdVars, cr3, free_pages, panic, histVars>>

\* Mutant: the directory is destroyed before the CPU leaves it.
DestroyFirst ==
  /\ At("exit")
  /\ pagedir' = [pagedir EXCEPT ![running] = NULL]
  /\ live_pd' = live_pd \ {running}
  /\ Goto(IF pagedir[running] = NULL THEN "die" ELSE "exit_activate")
  /\ UNCHANGED <<threadVars, level, tidVars, waitVars, cr3, free_pages, panic, histVars>>

\* process_exit: forget the page directory, leave it, destroy it.
ProcessExit ==
  /\ At("exit")
  /\ pagedir' = [pagedir EXCEPT ![running] = NULL]
  /\ Goto(IF pagedir[running] = NULL THEN "die" ELSE "exit_activate")
  /\ UNCHANGED <<threadVars, level, tidVars, waitVars, live_pd, cr3, free_pages, panic, histVars>>

ExitActivate ==
  /\ At("exit_activate")
  /\ cr3' = NULL
  /\ Goto("exit_destroy")
  /\ UNCHANGED <<threadVars, level, tidVars, waitVars, pdVars, free_pages, panic, histVars>>

ExitDestroy ==
  /\ At("exit_destroy")
  /\ live_pd' = live_pd \ {running}
  /\ free_pages' = free_pages + 1
  /\ Goto("die")
  /\ UNCHANGED <<threadVars, level, tidVars, waitVars, pagedir, cr3, panic, histVars>>

\* Mutant: the status stays with the dying thread.
KeepStatus(waiter) == UNCHANGED child_exit_status

\* get_thread (waiting_thread)->child_exit_status = exit_status
tell_status(waiter) ==
  child_exit_status' = [child_exit_status EXCEPT ![waiter] = exit_status[running]]

\* The rest of thread_exit, with interrupts off: the thread in waiting_thread
\* is unblocked, which panics if it is gone or not blocked, and is then given
\* the status.  schedule() frees the page of the dying thread.
Die ==
  LET n == waiting_thread[running]
      waiter == IF n = 0 THEN NULL ELSE get_thread(n)
  IN /\ At("die")
     /\ IF n # 0 /\ (waiter = NULL \/ status[waiter] # "BLOCKED")
          THEN /\ panic' = TRUE
               /\ UNCHANGED <<threadVars, child_exit_status, cr3, free_pages, histVars>>
          ELSE /\ thread_exit(waiter)
               /\ process_activate
               /\ IF waiter = NULL
                    THEN UNCHANGED <<child_exit_status, woken_by>>
                    ELSE /\ tell_status(waiter)
                         /\ woken_by' = [woken_by EXCEPT ![waiter] = tid[running]]
               /\ free_pages' = free_pages + 1
               /\ exited' = [exited EXCEPT ![tid[running]] = exit_status[running]]
               /\ UNCHANGED panic
     /\ UNCHANGED <<level, pc, tidVars, wait_called, waiting_thread, exit_status, wt, arg, pdVars>>

-----------------------------------------------------------------------------
(* The idle thread and the timer. *)

IdleBlock ==
  /\ At("idle")
  /\ thread_block
  /\ process_activate
  /\ Goto("halt")
  /\ UNCHANGED <<level, tidVars, waitVars, pdVars, free_pages, panic, histVars>>

TimerInterrupt ==
  /\ ~panic
  /\ level[running] = "ON"
  /\ thread_tick
  /\ IF thread_ticks' = 0 THEN process_activate ELSE UNCHANGED cr3
  /\ pc' = IF pc[running] = "halt" THEN [pc EXCEPT ![running] = "idle"] ELSE pc
  /\ UNCHANGED <<level, tidVars, waitVars, pdVars, free_pages, panic, histVars>>

Next ==
  \/ \E t \in Thread : Exec(t) \/ RunTask(t)
  \/ ExecOpenFails \/ StartProcess \/ LoadPagedir \/ LoadActivate \/ LoadDone
  \/ \E n \in Tid : Wait(n)
  \/ MainWait \/ WaitCheck \/ WaitMark \/ WaitSet \/ WaitBlock \/ Waited
  \/ \E code \in ExitCode \cup {-1} : Exit(code)
  \/ ProcessExit \/ ExitActivate \/ ExitDestroy \/ Die
  \/ IdleBlock \/ TimerInterrupt

Spec == Init /\ [][Next]_vars

-----------------------------------------------------------------------------
(* What holds. *)

\* The directory the CPU uses exists: process_exit leaves a directory before
\* it destroys it, and no context switch in between goes back to it
\* (process.c, "Correct ordering here is crucial").
ActivePagedirExists == cr3 \in live_pd \cup {NULL}

\* The CPU uses the running thread's directory, whatever switches happened
\* since it was activated, except between the assignment of t->pagedir and the
\* activation that follows it (load, process_exit, thread_schedule_tail).
OwnPagedirActive ==
  pc[running] \notin {"activate", "exit_activate"} => cr3 = pagedir[running]

\* A thread that process_wait has blocked and that was unblocked again has the
\* status of the thread that unblocked it, which has exited (thread_exit).
WokenWithStatus ==
  \A t \in all_list :
    (pc[t] = "waited" /\ status[t] # "BLOCKED")
      => woken_by[t] # 0 /\ exited[woken_by[t]] = child_exit_status[t]

-----------------------------------------------------------------------------
(* What the comments and the design document say, and the code does not do. *)

\* "There isn't a race condition in this case, as P literally yields to C":
\* a child's exit never finds its waiter unblocked (process_wait, thread_exit).
NoWaitRace == ~panic
=============================================================================
