---------------------------- MODULE SynchProofs ----------------------------
(***************************************************************************)
(* Proofs about Synch, for any number of threads, semaphores, locks and    *)
(* condition variables: its types, its locks, and the invariant of the run *)
(* queue and the wait lists that QueueProofs draws its theorems from.      *)
(***************************************************************************)
EXTENDS Synch, ThreadProofs

-----------------------------------------------------------------------------
(* The inductive invariant behind TypeOK. *)

\* What a thread's place p in the code says of its other control variables:
\* o for on, r for ret, c for cond, k for child.
ControlAt(p, o, r, c, k) ==
  /\ p \in {"acquire", "own", "release"} => o \in Lock
  /\ p \in {"down", "up"} => o \in Semaphore
  /\ p \in {"acquire", "down", "own"} => r \in {"run", "tid_read"}
  /\ p \in {"wait", "bcast"} \/ r \in {"wait", "bcast"} => c \in Cond
  /\ p = "down" /\ o \in Thread => c \in Cond
  /\ p \in {"tid_read", "tid_write", "created"} => k \in Thread
  /\ r \in {"tid_read", "created"} => k \in Thread
  /\ r \in {"run", "tid_read", "created", "wait", "bcast"}

ControlOK ==
  \A t \in Thread :
    /\ ControlAt(pc[t], on[t], ret[t], cond[t], child[t])
    /\ pc[t] = "idle_init" => t = Idle

\* schedule() finds a thread: until idle() has set idle_thread, its thread is
\* the running one or on the run queue, or main has not created it yet.
BootOK ==
  idle_thread = NULL =>
    /\ pc[Idle] = "idle_init"
    /\ \/ running = Main /\ pc[Main] = "start"
       \/ running = Idle
       \/ Idle \in Range(ready_list)

TypeInv == TypeOK /\ BootOK /\ ControlOK

-----------------------------------------------------------------------------
(* The moves of the running thread keep the types. *)

ControlTypeOK ==
  /\ pc \in [Thread -> PC]
  /\ on \in [Thread -> Semaphore \cup {NULL}]
  /\ ret \in [Thread -> PC]
  /\ cond \in [Thread -> Cond \cup {NULL}]

LEMMA GotoType ==
  ASSUME TypeInv,
         NEW p \in PC, NEW o \in Semaphore \cup {NULL}, NEW r \in PC, NEW c \in Cond \cup {NULL},
         Goto(p, o, r, c),
         child' \in [Thread -> Thread \cup {NULL}],
         \A t \in Thread \ {running} : child'[t] = child[t],
         ControlAt(p, o, r, c, child'[running]),
         p # "idle_init"
  PROVE  /\ ControlTypeOK' /\ ControlOK'
         /\ \A t \in Thread \ {running} : pc'[t] = pc[t]
  <1>1. running \in Thread
    BY Zenon DEF TypeInv, TypeOK, ThreadsTypeOK
  <1>2. ControlTypeOK'
    BY <1>1, Zenon DEF TypeInv, TypeOK, ControlTypeOK, Goto
  <1>3. ASSUME NEW t \in Thread
        PROVE  /\ ControlAt(pc'[t], on'[t], ret'[t], cond'[t], child'[t])
               /\ pc'[t] = "idle_init" => t = Idle
    <2>1. CASE t = running
      <3>1. pc'[t] = p /\ on'[t] = o /\ ret'[t] = r /\ cond'[t] = c
        BY <2>1, <1>1, Zenon DEF TypeInv, TypeOK, Goto
      <3> QED
        BY <3>1, <2>1, Zenon
    <2>2. CASE t # running
      <3>1. /\ pc'[t] = pc[t] /\ on'[t] = on[t] /\ ret'[t] = ret[t] /\ cond'[t] = cond[t]
            /\ child'[t] = child[t]
        BY <2>2, <1>1, Zenon DEF TypeInv, TypeOK, Goto
      <3>2. /\ ControlAt(pc[t], on[t], ret[t], cond[t], child[t])
            /\ pc[t] = "idle_init" => t = Idle
        BY Zenon DEF TypeInv, ControlOK
      <3> QED
        BY <3>1, <3>2, Zenon
    <2> QED
      BY <2>1, <2>2, Zenon
  <1>4. ControlOK'
    BY <1>3, Zenon DEF ControlOK
  <1>5. \A t \in Thread \ {running} : pc'[t] = pc[t]
    BY <1>1, Zenon DEF TypeInv, TypeOK, Goto
  <1> QED
    BY <1>2, <1>4, <1>5, Zenon

\* The places in the code that the actions send a thread to.
LEMMA Places ==
  /\ "run" \in PC /\ "down" \in PC /\ "acquire" \in PC /\ "own" \in PC /\ "release" \in PC
  /\ "up" \in PC /\ "wait" \in PC /\ "bcast" \in PC /\ "tid_read" \in PC /\ "tid_write" \in PC
  /\ "created" \in PC /\ "sleep" \in PC /\ "idle_started" \in PC /\ "idle_up" \in PC
  /\ "idle" \in PC /\ "halt" \in PC
  BY Zenon DEF PC

\* The same for the moves that create no thread.
LEMMA MoveType ==
  ASSUME TypeInv,
         NEW p \in PC, NEW o \in Semaphore \cup {NULL}, NEW r \in PC, NEW c \in Cond \cup {NULL},
         Goto(p, o, r, c), child' = child,
         ControlAt(p, o, r, c, child[running]),
         p # "idle_init"
  PROVE  /\ ControlTypeOK' /\ ControlOK'
         /\ \A t \in Thread \ {running} : pc'[t] = pc[t]
  <1>1. /\ child' \in [Thread -> Thread \cup {NULL}]
        /\ \A t \in Thread \ {running} : child'[t] = child[t]
        /\ ControlAt(p, o, r, c, child'[running])
    BY Zenon DEF TypeInv, TypeOK
  <1> QED
    BY <1>1, GotoType, Zenon

\* A thread that is not starting the scheduler runs only once the idle thread
\* can be scheduled.
LEMMA Booted ==
  ASSUME TypeInv, pc[running] \notin {"start", "idle_init"}
  PROVE  idle_thread = NULL => running # Idle /\ Idle \in Range(ready_list)
  BY Zenon DEF TypeInv, BootOK

LEMMA BootStep ==
  ASSUME TypeInv, IdleKept, idle_thread' = idle_thread, pc'[Idle] = pc[Idle] \/ idle_thread # NULL
  PROVE  BootOK'
  BY Zenon DEF TypeInv, BootOK, IdleKept

LEMMA SemaDownType ==
  ASSUME TypeInv, pc[running] \notin {"start", "idle_init"},
         NEW s \in Semaphore, NEW r \in {"run", "tid_read"}, NEW c \in Cond \cup {NULL},
         s \in Thread => c \in Cond,
         r = "tid_read" => child[running] \in Thread,
         sema_down(s, r, c),
         UNCHANGED <<holder, cond_waiters, tidVars, sleep>>
  PROVE  TypeInv'
  <1>1. idle_thread = NULL => running # Idle /\ Idle \in Range(ready_list)
    BY Booted, Zenon
  <1>2. running \in Thread /\ ThreadsTypeOK /\ Idle \in Thread
    BY ThreadAssumption, Zenon DEF TypeInv, TypeOK, ThreadsTypeOK
  <1>3. CASE /\ value[s] = 0
             /\ waiters' = [waiters EXCEPT ![s] = Append(@, running)]
             /\ thread_block
             /\ Goto("down", s, r, c)
             /\ UNCHANGED value
    <2>1. ThreadsTypeOK' /\ IdleKept /\ idle_thread' = idle_thread
      BY <1>1, <1>2, <1>3, BlockType, Zenon DEF thread_block, schedule
    <2>2. ControlTypeOK' /\ ControlOK'
      <3>1. child' \in [Thread -> Thread \cup {NULL}] /\ child' = child
        BY Zenon DEF TypeInv, TypeOK, tidVars
      <3>2. ControlAt("down", s, r, c, child[running])
        BY <3>1, Zenon DEF ControlAt
      <3>3. r \in PC
        BY Zenon DEF PC
      <3> QED
        BY <3>1, <3>2, <3>3, <1>3, MoveType, Places, Zenon
    <2>3. waiters' \in [Semaphore -> Seq(Thread)]
      BY <1>2, <1>3, AppendRange, Zenon DEF TypeInv, TypeOK
    <2>4. BootOK'
      BY <2>1, <1>1, <1>2, <1>3, BootStep, Zenon DEF Goto, TypeInv, TypeOK
    <2> QED
      BY <2>1, <2>2, <2>3, <2>4, <1>3, Zenon DEF TypeInv, TypeOK, ControlTypeOK, tidVars
  <1>4. CASE /\ value[s] > 0
             /\ value' = [value EXCEPT ![s] = @ - 1]
             /\ Downed(s, r, c)
             /\ UNCHANGED <<threadVars, waiters>>
    <2>1. ThreadsTypeOK' /\ IdleKept /\ idle_thread' = idle_thread
      BY <1>1, <1>2, <1>4, Zenon DEF threadVars, ThreadsTypeOK, IdleKept
    <2>2. child' \in [Thread -> Thread \cup {NULL}] /\ child' = child
      BY Zenon DEF TypeInv, TypeOK, tidVars
    <2>3. ControlTypeOK' /\ ControlOK' /\ \A t \in Thread \ {running} : pc'[t] = pc[t]
      <3>0. r \in PC
        BY Zenon DEF PC
      <3>1. CASE s \in Lock /\ Goto("own", s, r, c)
        <4>1. ControlAt("own", s, r, c, child[running])
          BY <3>1, <2>2, Zenon DEF ControlAt
        <4> QED
          BY <3>0, <3>1, <4>1, <2>2, MoveType, Places, Zenon
      <3>2. CASE s \in Thread /\ Goto("acquire", CondLock[c], "run", c)
        <4>1. CondLock[c] \in Lock /\ CondLock[c] \in Semaphore
          BY <3>2, SynchAssumption, Zenon DEF Semaphore
        <4>2. ControlAt("acquire", CondLock[c], "run", c, child[running])
          BY <4>1, <2>2, Zenon DEF ControlAt
        <4> QED
          BY <3>2, <4>1, <4>2, <2>2, MoveType, Places, Zenon
      <3>3. CASE s \in Sema \cup {IdleStarted} /\ Goto("run", NULL, "run", NULL)
        <4>1. ControlAt("run", NULL, "run", NULL, child[running])
          BY Zenon DEF ControlAt
        <4> QED
          BY <3>3, <4>1, <2>2, MoveType, Places, Zenon
      <3> QED
        BY <3>1, <3>2, <3>3, <1>4, Zenon DEF Downed
    <2>4. value' \in [Semaphore -> Nat]
      BY <1>4 DEF TypeInv, TypeOK
    <2>5. BootOK'
      BY <2>1, <2>3, <1>1, <1>2, BootStep, Zenon
    <2> QED
      BY <2>1, <2>3, <2>4, <2>5, <1>4, Zenon DEF TypeInv, TypeOK, ControlTypeOK, tidVars
  <1> QED
    BY <1>3, <1>4, Zenon DEF sema_down

LEMMA SemaUpType ==
  ASSUME TypeInv, pc[running] # "start", NEW s \in Semaphore, sema_up(s)
  PROVE  /\ ThreadsTypeOK' /\ IdleKept
         /\ idle_thread' = idle_thread /\ running' = running
         /\ value' \in [Semaphore -> Nat]
         /\ waiters' \in [Semaphore -> Seq(Thread)]
  <1>1. idle_thread = NULL => running = Idle \/ Idle \in Range(ready_list)
    BY Zenon DEF TypeInv, BootOK
  <1>2. value' \in [Semaphore -> Nat]
    BY DEF sema_up, TypeInv, TypeOK
  <1>3. CASE waiters[s] = <<>>
    BY <1>1, <1>2, <1>3, Zenon
    DEF sema_up, TypeInv, TypeOK, ThreadsTypeOK, threadVars, IdleKept
  <1>4. CASE waiters[s] # <<>>
    <2>1. waiters[s] \in Seq(Thread)
      BY Zenon DEF TypeInv, TypeOK
    <2>2. Head(waiters[s]) \in Thread /\ Tail(waiters[s]) \in Seq(Thread)
      BY <2>1, <1>4, PopIs, Zenon
    <2>3. ThreadsTypeOK' /\ IdleKept
      BY <1>1, <1>4, <2>2, UnblockType, Zenon DEF sema_up, TypeInv, TypeOK
    <2> QED
      BY <1>2, <1>4, <2>2, <2>3, Zenon DEF sema_up, thread_unblock, TypeInv, TypeOK
  <1> QED
    BY <1>3, <1>4, Zenon

\* A step that leaves the scheduler alone and moves the running thread.
LEMMA StayType ==
  ASSUME TypeInv, pc[running] \notin {"start", "idle_init"}, UNCHANGED threadVars,
         \A t \in Thread \ {running} : pc'[t] = pc[t]
  PROVE  ThreadsTypeOK' /\ BootOK'
  <1>1. idle_thread = NULL => running # Idle /\ Idle \in Range(ready_list)
    BY Booted, Zenon
  <1> QED
    BY <1>1, ThreadAssumption, Zenon
    DEF TypeInv, TypeOK, ThreadsTypeOK, BootOK, threadVars

\* The running thread's control variables are typed and agree.
LEMMA RunningControl ==
  ASSUME TypeInv
  PROVE  /\ running \in Thread
         /\ on[running] \in Semaphore \cup {NULL}
         /\ cond[running] \in Cond \cup {NULL}
         /\ child[running] \in Thread \cup {NULL}
         /\ ret[running] \in PC
         /\ child \in [Thread -> Thread \cup {NULL}]
         /\ ControlAt(pc[running], on[running], ret[running], cond[running], child[running])
  BY Zenon DEF TypeInv, TypeOK, ThreadsTypeOK, ControlOK

-----------------------------------------------------------------------------
(* Every action keeps the types. *)

LEMMA CallType ==
  ASSUME TypeInv, Call
  PROVE  TypeInv'
  <1> USE DEF tidVars, semaVars
  <1>0. /\ running \in Thread /\ child \in [Thread -> Thread \cup {NULL}]
        /\ Sema \subseteq Semaphore /\ Lock \subseteq Semaphore /\ Thread \subseteq Semaphore
        /\ NULL \notin Thread
    BY RunningControl, ThreadAssumption, Zenon DEF Semaphore
  <1>a. pc[running] = "run"
    BY Zenon DEF Call, SemaDown, SemaTryDown, SemaUp, LockAcquire, LockTryAcquire, LockRelease,
           CondWait, CondSignal, CondBroadcast, ThreadCreate, ThreadExit, ThreadYield,
           TimerSleep, At, clear_holder
  <1>b. /\ idle_thread = NULL => running # Idle /\ Idle \in Range(ready_list)
        /\ Idle \in Thread
    BY <1>a, Booted, ThreadAssumption, Zenon
  <1>1. ASSUME NEW s \in Sema, SemaDown(s) PROVE TypeInv'
    BY <1>0, <1>1, <1>a, SemaDownType, SynchAssumption, Zenon DEF SemaDown
  <1>2. ASSUME NEW s \in Sema, SemaTryDown(s) PROVE TypeInv'
    <2>1. value' \in [Semaphore -> Nat]
      BY <1>0, <1>2, SMTT(30) DEF SemaTryDown, TypeInv, TypeOK
    <2>2. ThreadsTypeOK' /\ BootOK'
      BY <1>2, <1>a, StayType, Zenon DEF SemaTryDown
    <2> QED
      BY <1>2, <2>1, <2>2, Zenon DEF SemaTryDown, TypeInv, TypeOK, ControlOK
  <1>3. ASSUME NEW s \in Sema, SemaUp(s) PROVE TypeInv'
    <2>1. /\ ThreadsTypeOK' /\ IdleKept /\ idle_thread' = idle_thread
          /\ value' \in [Semaphore -> Nat] /\ waiters' \in [Semaphore -> Seq(Thread)]
      BY <1>0, <1>3, <1>a, SemaUpType, Zenon DEF SemaUp
    <2>2. BootOK'
      BY <1>3, <2>1, BootStep, Zenon DEF SemaUp
    <2> QED
      BY <1>3, <2>1, <2>2, Zenon DEF SemaUp, TypeInv, TypeOK, ControlOK
  <1>4. ASSUME NEW l \in Lock, LockAcquire(l) PROVE TypeInv'
    BY <1>0, <1>4, <1>a, SemaDownType, SynchAssumption, Zenon DEF LockAcquire
  <1>5. ASSUME NEW l \in Lock, LockTryAcquire(l) PROVE TypeInv'
    <2>1. value' \in [Semaphore -> Nat]
      BY <1>0, <1>5 DEF LockTryAcquire, TypeInv, TypeOK
    <2>2. ControlAt("own", l, "run", NULL, child[running])
      BY Zenon DEF ControlAt
    <2>3. ControlTypeOK' /\ ControlOK' /\ \A t \in Thread \ {running} : pc'[t] = pc[t]
      BY <1>0, <1>5, <2>2, MoveType, Places, Zenon DEF LockTryAcquire
    <2>4. ThreadsTypeOK' /\ BootOK'
      BY <1>5, <1>a, <2>3, StayType, Zenon DEF LockTryAcquire
    <2> QED
      BY <1>5, <2>1, <2>3, <2>4, Zenon DEF LockTryAcquire, TypeInv, TypeOK, ControlTypeOK
  <1>6. ASSUME NEW l \in Lock, LockRelease(l) PROVE TypeInv'
    <2>2. ControlAt("up", l, "run", NULL, child[running])
      BY <1>0, Zenon DEF ControlAt
    <2>3. ControlTypeOK' /\ ControlOK' /\ \A t \in Thread \ {running} : pc'[t] = pc[t]
      BY <1>0, <1>6, <2>2, MoveType, Places, Zenon DEF LockRelease, clear_holder
    <2>4. ThreadsTypeOK' /\ BootOK'
      BY <1>6, <1>a, <2>3, StayType, Zenon DEF LockRelease, clear_holder
    <2> QED
      BY <1>6, <2>3, <2>4, Zenon DEF LockRelease, clear_holder, TypeInv, TypeOK, ControlTypeOK
  <1>7. ASSUME NEW c \in Cond, CondWait(c) PROVE TypeInv'
    <2>1. CondLock[c] \in Lock
      BY SynchAssumption, Zenon
    <2>2. ControlAt("release", CondLock[c], "wait", c, child[running])
      BY <2>1, Zenon DEF ControlAt
    <2>3. ControlTypeOK' /\ ControlOK' /\ \A t \in Thread \ {running} : pc'[t] = pc[t]
      BY <1>0, <1>7, <2>1, <2>2, MoveType, Places, Zenon DEF CondWait
    <2>4. ThreadsTypeOK' /\ BootOK'
      BY <1>7, <1>a, <2>3, StayType, Zenon DEF CondWait
    <2>5. /\ value' \in [Semaphore -> Nat]
          /\ waiters' \in [Semaphore -> Seq(Thread)]
          /\ cond_waiters' \in [Cond -> Seq(Thread)]
      BY <1>0, <1>7, AppendRange DEF CondWait, TypeInv, TypeOK
    <2> QED
      BY <1>7, <2>3, <2>4, <2>5, Zenon DEF CondWait, TypeInv, TypeOK, ControlTypeOK
  <1>8. ASSUME NEW c \in Cond, CondSignal(c) PROVE TypeInv'
    <2>1. cond_waiters[c] \in Seq(Thread) /\ cond_waiters[c] # <<>>
      BY <1>8, Zenon DEF CondSignal, cond_signal, TypeInv, TypeOK
    <2>2. Head(cond_waiters[c]) \in Thread /\ Tail(cond_waiters[c]) \in Seq(Thread)
      BY <2>1, PopIs, Zenon
    <2>3. ControlAt("up", Head(cond_waiters[c]), "run", NULL, child[running])
      BY <2>2, <1>0, Zenon DEF ControlAt
    <2>4. ControlTypeOK' /\ ControlOK' /\ \A t \in Thread \ {running} : pc'[t] = pc[t]
      BY <1>0, <1>8, <2>2, <2>3, MoveType, Places, Zenon DEF CondSignal, cond_signal
    <2>5. ThreadsTypeOK' /\ BootOK'
      BY <1>8, <1>a, <2>4, StayType, Zenon DEF CondSignal
    <2> QED
      BY <1>8, <2>2, <2>4, <2>5, Zenon DEF CondSignal, cond_signal, TypeInv, TypeOK, ControlTypeOK
  <1>9. ASSUME NEW c \in Cond, CondBroadcast(c) PROVE TypeInv'
    <2>2. ControlAt("bcast", NULL, "run", c, child[running])
      BY Zenon DEF ControlAt
    <2>3. ControlTypeOK' /\ ControlOK' /\ \A t \in Thread \ {running} : pc'[t] = pc[t]
      BY <1>0, <1>9, <2>2, MoveType, Places, Zenon DEF CondBroadcast
    <2>4. ThreadsTypeOK' /\ BootOK'
      BY <1>9, <1>a, <2>3, StayType, Zenon DEF CondBroadcast
    <2> QED
      BY <1>9, <2>3, <2>4, Zenon DEF CondBroadcast, TypeInv, TypeOK, ControlTypeOK
  <1>10. ASSUME NEW t \in Thread, ThreadCreate(t) PROVE TypeInv'
    <2>1. child' \in [Thread -> Thread \cup {NULL}] /\ child'[running] = t
          /\ \A u \in Thread \ {running} : child'[u] = child[u]
      BY <1>0, <1>10, Zenon DEF ThreadCreate
    <2>2. ControlAt("acquire", TidLock, "tid_read", NULL, child'[running])
      BY <2>1, SynchAssumption, Zenon DEF ControlAt
    <2>3. ControlTypeOK' /\ ControlOK' /\ \A u \in Thread \ {running} : pc'[u] = pc[u]
      <3>1. Goto("acquire", TidLock, "tid_read", NULL) /\ TidLock \in Semaphore
        BY <1>10, SynchAssumption, Zenon DEF ThreadCreate, Semaphore
      <3> QED
        BY <2>1, <2>2, <3>1, GotoType, Places, Zenon
    <2>4. ThreadsTypeOK' /\ BootOK'
      BY <1>0, <1>10, <1>b, <2>3, Zenon
      DEF ThreadCreate, init_thread, TypeInv, TypeOK, ThreadsTypeOK, BootOK, Status
    <2> QED
      BY <1>10, <2>1, <2>3, <2>4, Zenon DEF ThreadCreate, TypeInv, TypeOK, ControlTypeOK
  <1>11. ASSUME ThreadExit PROVE TypeInv'
    <2>1. ThreadsTypeOK' /\ IdleKept /\ idle_thread' = idle_thread
      BY <1>11, <1>b, ExitType, Zenon DEF ThreadExit, TypeInv, TypeOK, thread_exit, schedule
    <2>2. BootOK'
      BY <1>11, <2>1, BootStep, Zenon DEF ThreadExit
    <2> QED
      BY <1>11, <2>1, <2>2, Zenon DEF ThreadExit, TypeInv, TypeOK, ControlOK
  <1>12. ASSUME ThreadYield PROVE TypeInv'
    <2>1. ThreadsTypeOK' /\ IdleKept /\ idle_thread' = idle_thread
      BY <1>12, <1>b, YieldType, Zenon DEF ThreadYield, TypeInv, TypeOK, thread_yield, schedule
    <2>2. BootOK'
      BY <1>12, <2>1, BootStep, Zenon DEF ThreadYield
    <2> QED
      BY <1>12, <2>1, <2>2, Zenon DEF ThreadYield, TypeInv, TypeOK, ControlOK
  <1>13. ASSUME NEW n \in 1 .. MaxSleep, TimerSleep(n) PROVE TypeInv'
    <2>2. ControlAt("sleep", NULL, "run", NULL, child[running])
      BY Zenon DEF ControlAt
    <2>3. ControlTypeOK' /\ ControlOK' /\ \A t \in Thread \ {running} : pc'[t] = pc[t]
      BY <1>0, <1>13, <2>2, MoveType, Places, Zenon DEF TimerSleep
    <2>4. ThreadsTypeOK' /\ BootOK'
      BY <1>13, <1>a, <2>3, StayType, Zenon DEF TimerSleep
    <2>5. sleep' \in [Thread -> 0 .. MaxSleep]
      <3>1. n \in 0 .. MaxSleep
        BY SynchAssumption
      <3> QED
        BY <3>1, <1>13, Zenon DEF TimerSleep, TypeInv, TypeOK
    <2> QED
      BY <1>13, <2>3, <2>4, <2>5, Zenon DEF TimerSleep, TypeInv, TypeOK, ControlTypeOK
  <1> QED
    BY <1>1, <1>2, <1>3, <1>4, <1>5, <1>6, <1>7, <1>8, <1>9, <1>10, <1>11, <1>12, <1>13, Zenon DEF Call

LEMMA ContinueType ==
  ASSUME TypeInv, Continue
  PROVE  TypeInv'
  <1> USE DEF tidVars, semaVars
  <1>0. /\ running \in Thread /\ child \in [Thread -> Thread \cup {NULL}]
        /\ Sema \subseteq Semaphore /\ Lock \subseteq Semaphore /\ Thread \subseteq Semaphore
        /\ IdleStarted \in Semaphore /\ IdleStarted \notin Thread
        /\ Lock \cap Thread = {} /\ NULL \notin Thread /\ Idle \in Thread /\ Main \in Thread
        /\ Idle # Main
    BY RunningControl, ThreadAssumption, SynchAssumption, Zenon DEF Semaphore
  <1>c. /\ ret[running] \in PC /\ ret[running] # "idle_init"
        /\ cond[running] \in Cond \cup {NULL}
        /\ ControlAt(pc[running], on[running], ret[running], cond[running], child[running])
    BY RunningControl, Zenon DEF ControlAt
  <1>1. ASSUME SemaDownLoop PROVE TypeInv'
    <2>1. /\ on[running] \in Semaphore /\ ret[running] \in {"run", "tid_read"}
          /\ on[running] \in Thread => cond[running] \in Cond
          /\ ret[running] = "tid_read" => child[running] \in Thread
      BY <1>1, <1>c, Zenon DEF SemaDownLoop, At, ControlAt
    <2> QED
      BY <1>1, <1>c, <2>1, SemaDownType, Zenon DEF SemaDownLoop, At
  <1>2. ASSUME LockAcquireCall PROVE TypeInv'
    <2>1. /\ on[running] \in Lock /\ ret[running] \in {"run", "tid_read"}
          /\ ret[running] = "tid_read" => child[running] \in Thread
      BY <1>2, <1>c, Zenon DEF LockAcquireCall, At, ControlAt
    <2>2. on[running] \in Semaphore /\ on[running] \notin Thread
      BY <2>1, <1>0, Zenon
    <2> QED
      BY <1>2, <1>c, <2>1, <2>2, SemaDownType, Zenon DEF LockAcquireCall, At
  <1>3. ASSUME SetHolder PROVE TypeInv'
    <2>1. /\ on[running] \in Lock /\ ret[running] \in {"run", "tid_read"}
          /\ ret[running] = "tid_read" => child[running] \in Thread
      BY <1>3, <1>c, Zenon DEF SetHolder, At, ControlAt
    <2>2. ControlAt(ret[running], NULL, "run", NULL, child[running])
      BY <1>3, <2>1, Zenon DEF ControlAt, SetHolder
    <2>3. ControlTypeOK' /\ ControlOK' /\ \A t \in Thread \ {running} : pc'[t] = pc[t]
      BY <1>0, <1>3, <1>c, <2>2, MoveType, Places, Zenon DEF SetHolder
    <2>4. ThreadsTypeOK' /\ BootOK'
      BY <1>3, <2>3, StayType, Zenon DEF SetHolder, At
    <2> QED
      BY <1>0, <1>3, <2>1, <2>3, <2>4, Zenon DEF SetHolder, TypeInv, TypeOK, ControlTypeOK
  <1>4. ASSUME LockReleaseCall PROVE TypeInv'
    <2>1. on[running] \in Lock /\ on[running] \in Semaphore
      BY <1>0, <1>4, <1>c, Zenon DEF LockReleaseCall, At, ControlAt
    <2>2. ControlAt("up", on[running], ret[running], cond[running], child[running])
      BY <1>4, <1>c, <2>1, Zenon DEF ControlAt, LockReleaseCall, clear_holder
    <2>3. ControlTypeOK' /\ ControlOK' /\ \A t \in Thread \ {running} : pc'[t] = pc[t]
      <3>1. child' = child /\ Goto("up", on[running], ret[running], cond[running])
        BY <1>4, Zenon DEF LockReleaseCall, clear_holder
      <3> QED
        BY <1>0, <1>c, <2>1, <2>2, <3>1, MoveType, Places, Zenon
    <2>4. ThreadsTypeOK' /\ BootOK'
      BY <1>4, <2>3, StayType, Zenon DEF LockReleaseCall, clear_holder, At
    <2> QED
      BY <1>4, <2>1, <2>3, <2>4, Zenon
      DEF LockReleaseCall, clear_holder, TypeInv, TypeOK, ControlTypeOK
  <1>5. ASSUME SemaUpCall PROVE TypeInv'
    <2>1. on[running] \in Semaphore /\ pc[running] = "up"
      BY <1>5, <1>c, Zenon DEF SemaUpCall, At, ControlAt
    <2>2. ControlAt(ret[running], NULL, "run", cond[running], child[running])
      <3>1. child' = child
        BY <1>5, Zenon DEF SemaUpCall
      <3>2. ret[running] \in {"run", "tid_read", "created", "wait", "bcast"}
        BY <1>c, Zenon DEF ControlAt
      <3> QED
        BY <1>c, <3>1, <3>2, Zenon DEF ControlAt
    <2>3. ControlTypeOK' /\ ControlOK' /\ \A t \in Thread \ {running} : pc'[t] = pc[t]
      BY <1>0, <1>5, <1>c, <2>2, MoveType, Places, Zenon DEF SemaUpCall
    <2>4. /\ ThreadsTypeOK' /\ IdleKept /\ idle_thread' = idle_thread
          /\ value' \in [Semaphore -> Nat] /\ waiters' \in [Semaphore -> Seq(Thread)]
      BY <1>5, <2>1, SemaUpType, Zenon DEF SemaUpCall
    <2>5. idle_thread = NULL => running # Idle
      BY <2>1, Booted, Zenon
    <2>6. BootOK'
      BY <1>0, <2>3, <2>4, <2>5, BootStep, Zenon
    <2> QED
      BY <1>5, <2>3, <2>4, <2>6, Zenon DEF SemaUpCall, TypeInv, TypeOK, ControlTypeOK
  <1>6. ASSUME CondWaitDown PROVE TypeInv'
    <2>1. cond[running] \in Cond /\ pc[running] = "wait"
      BY <1>6, <1>c, Zenon DEF CondWaitDown, At, ControlAt
    <2> QED
      BY <1>0, <1>6, <2>1, SemaDownType, Zenon DEF CondWaitDown
  <1>7. ASSUME CondBroadcastLoop PROVE TypeInv'
    <2> DEFINE c == cond[running]
    <2>1. c \in Cond /\ pc[running] = "bcast"
      BY <1>7, <1>c, Zenon DEF CondBroadcastLoop, At, ControlAt
    <2>2. CASE cond_signal(c, "bcast", c)
      <3>1. cond_waiters[c] \in Seq(Thread) /\ cond_waiters[c] # <<>>
        BY <2>1, <2>2, Zenon DEF cond_signal, TypeInv, TypeOK
      <3>2. Head(cond_waiters[c]) \in Thread /\ Tail(cond_waiters[c]) \in Seq(Thread)
        BY <3>1, PopIs, Zenon
      <3>3. ControlAt("up", Head(cond_waiters[c]), "bcast", c, child[running])
        BY <1>0, <2>1, <3>2, Zenon DEF ControlAt
      <3>4. /\ ControlTypeOK' /\ ControlOK' /\ \A t \in Thread \ {running} : pc'[t] = pc[t]
        BY <1>0, <1>7, <2>1, <2>2, <3>2, <3>3, MoveType, Places, Zenon DEF CondBroadcastLoop, cond_signal
      <3>5. ThreadsTypeOK' /\ BootOK'
        BY <1>7, <2>1, <3>4, StayType, Zenon DEF CondBroadcastLoop
      <3>6. cond_waiters' \in [Cond -> Seq(Thread)]
        BY <2>1, <2>2, <3>2, Zenon DEF cond_signal, TypeInv, TypeOK
      <3> QED
        BY <1>7, <3>4, <3>5, <3>6, Zenon DEF CondBroadcastLoop, TypeInv, TypeOK, ControlTypeOK
    <2>3. CASE Goto("run", NULL, "run", NULL) /\ UNCHANGED cond_waiters
      <3>1. ControlAt("run", NULL, "run", NULL, child[running])
        BY Zenon DEF ControlAt
      <3>2. ControlTypeOK' /\ ControlOK' /\ \A t \in Thread \ {running} : pc'[t] = pc[t]
        BY <1>0, <1>7, <2>3, <3>1, MoveType, Places, Zenon DEF CondBroadcastLoop
      <3>3. ThreadsTypeOK' /\ BootOK'
        BY <1>7, <2>1, <3>2, StayType, Zenon DEF CondBroadcastLoop
      <3> QED
        BY <1>7, <2>3, <3>2, <3>3, Zenon DEF CondBroadcastLoop, TypeInv, TypeOK, ControlTypeOK
    <2> QED
      BY <1>7, <2>2, <2>3, Zenon DEF CondBroadcastLoop
  <1>8. ASSUME TidRead PROVE TypeInv'
    <2>1. child[running] \in Thread /\ pc[running] = "tid_read"
      BY <1>8, <1>c, Zenon DEF TidRead, At, ControlAt
    <2>2. ControlAt("tid_write", NULL, "run", NULL, child[running])
      BY <1>8, <2>1, Zenon DEF ControlAt, TidRead
    <2>3. ControlTypeOK' /\ ControlOK' /\ \A t \in Thread \ {running} : pc'[t] = pc[t]
      BY <1>0, <1>8, <2>2, MoveType, Places, Zenon DEF TidRead
    <2>4. ThreadsTypeOK' /\ BootOK'
      BY <1>8, <2>1, <2>3, StayType, Zenon DEF TidRead
    <2> QED
      BY <1>8, <2>1, <2>3, <2>4, Zenon DEF TidRead, TypeInv, TypeOK, ControlTypeOK
  <1>9. ASSUME TidWrite PROVE TypeInv'
    <2>1. child[running] \in Thread /\ pc[running] = "tid_write"
      BY <1>9, <1>c, Zenon DEF TidWrite, At, ControlAt
    <2>2. ControlAt("release", TidLock, "created", NULL, child[running])
      BY <1>9, <2>1, SynchAssumption, Zenon DEF ControlAt, TidWrite
    <2>3. ControlTypeOK' /\ ControlOK' /\ \A t \in Thread \ {running} : pc'[t] = pc[t]
      BY <1>0, <1>9, <2>2, MoveType, Places, SynchAssumption, Zenon DEF TidWrite
    <2>4. ThreadsTypeOK' /\ BootOK'
      BY <1>9, <2>1, <2>3, StayType, Zenon DEF TidWrite
    <2>5. next_tid' \in Nat
      BY <1>9, <2>1 DEF TidWrite, TypeInv, TypeOK
    <2> QED
      BY <1>9, <2>3, <2>4, <2>5, Zenon DEF TidWrite, TypeInv, TypeOK, ControlTypeOK
  <1>10. ASSUME ThreadCreated PROVE TypeInv'
    <2>1. child[running] \in Thread /\ pc[running] = "created"
      BY <1>10, <1>c, Zenon DEF ThreadCreated, At, ControlAt
    <2>2. child' \in [Thread -> Thread \cup {NULL}]
          /\ \A u \in Thread \ {running} : child'[u] = child[u]
      BY <1>0, <1>10, Zenon DEF ThreadCreated
    <2>3. ControlAt("run", NULL, "run", NULL, child'[running])
      BY Zenon DEF ControlAt
    <2>4. ControlTypeOK' /\ ControlOK' /\ \A t \in Thread \ {running} : pc'[t] = pc[t]
      <3>1. Goto("run", NULL, "run", NULL)
        BY <1>10, Zenon DEF ThreadCreated
      <3> QED
        BY <2>2, <2>3, <3>1, GotoType, Places, Zenon
    <2>5. idle_thread = NULL => running # Idle /\ Idle \in Range(ready_list)
      BY <2>1, Booted, Zenon
    <2>6. ThreadsTypeOK' /\ IdleKept /\ idle_thread' = idle_thread
      BY <1>10, <2>1, <2>5, UnblockType, Zenon DEF ThreadCreated, TypeInv, TypeOK, thread_unblock
    <2>7. BootOK'
      BY <1>0, <2>4, <2>5, <2>6, BootStep, Zenon
    <2> QED
      BY <1>10, <2>2, <2>4, <2>6, <2>7, Zenon DEF ThreadCreated, TypeInv, TypeOK, ControlTypeOK
  <1>11. ASSUME ThreadStart PROVE TypeInv'
    <2>1. ControlAt("idle_started", NULL, "run", NULL, child[running])
      BY Zenon DEF ControlAt
    <2>2. ControlTypeOK' /\ ControlOK' /\ \A t \in Thread \ {running} : pc'[t] = pc[t]
      BY <1>0, <1>11, <2>1, MoveType, Places, Zenon DEF ThreadStart
    <2>3. ready_list' \in Seq(Thread) /\ Idle \in Range(ready_list')
      BY <1>0, <1>11, AppendRange, SMTT(30) DEF ThreadStart, TypeInv, TypeOK, ThreadsTypeOK
    <2>4. ThreadsTypeOK'
      BY <1>0, <1>11, <2>3, Zenon DEF ThreadStart, TypeInv, TypeOK, ThreadsTypeOK, Status
    <2>5. idle_thread = NULL => running # Idle
      BY <1>11, Zenon DEF ThreadStart, At, TypeInv, BootOK
    <2>6. BootOK'
      BY <1>0, <1>11, <2>2, <2>3, <2>5, Zenon DEF ThreadStart, TypeInv, BootOK
    <2>7. tid' \in [Thread -> Nat] /\ next_tid' \in Nat
      BY <1>0, <1>11 DEF ThreadStart, TypeInv, TypeOK
    <2> QED
      BY <1>11, <2>2, <2>4, <2>6, <2>7, Zenon DEF ThreadStart, TypeInv, TypeOK, ControlTypeOK
  <1>12. ASSUME ThreadStartWait PROVE TypeInv'
    BY <1>0, <1>12, SemaDownType, Zenon DEF ThreadStartWait, At
  <1>13. ASSUME IdleInit PROVE TypeInv'
    <2>1. running = Idle
      BY <1>0, <1>13, Zenon DEF IdleInit, At, TypeInv, ControlOK
    <2>2. ControlAt("idle_up", NULL, "run", NULL, child[running])
      BY Zenon DEF ControlAt
    <2>3. ControlTypeOK' /\ ControlOK'
      BY <1>0, <1>13, <2>2, MoveType, Places, Zenon DEF IdleInit
    <2>4. ThreadsTypeOK' /\ BootOK'
      BY <1>0, <1>13, <2>1, Zenon DEF IdleInit, TypeInv, TypeOK, ThreadsTypeOK, BootOK
    <2> QED
      BY <1>13, <2>3, <2>4, Zenon DEF IdleInit, TypeInv, TypeOK, ControlTypeOK
  <1>14. ASSUME IdleUp PROVE TypeInv'
    <2>1. pc[running] = "idle_up"
      BY <1>14, Zenon DEF IdleUp, At
    <2>2. ControlAt("idle", NULL, "run", NULL, child[running])
      BY Zenon DEF ControlAt
    <2>3. ControlTypeOK' /\ ControlOK' /\ \A t \in Thread \ {running} : pc'[t] = pc[t]
      BY <1>0, <1>14, <2>2, MoveType, Places, Zenon DEF IdleUp
    <2>4. /\ ThreadsTypeOK' /\ IdleKept /\ idle_thread' = idle_thread
          /\ value' \in [Semaphore -> Nat] /\ waiters' \in [Semaphore -> Seq(Thread)]
      BY <1>0, <1>14, <2>1, SemaUpType, Zenon DEF IdleUp
    <2>5. idle_thread = NULL => running # Idle
      BY <2>1, Booted, Zenon
    <2>6. BootOK'
      BY <1>0, <2>3, <2>4, <2>5, BootStep, Zenon
    <2> QED
      BY <1>14, <2>3, <2>4, <2>6, Zenon DEF IdleUp, TypeInv, TypeOK, ControlTypeOK
  <1>15. ASSUME IdleBlock PROVE TypeInv'
    <2>1. pc[running] = "idle"
      BY <1>15, Zenon DEF IdleBlock, At
    <2>2. ControlAt("halt", NULL, "run", NULL, child[running])
      BY Zenon DEF ControlAt
    <2>3. ControlTypeOK' /\ ControlOK' /\ \A t \in Thread \ {running} : pc'[t] = pc[t]
      BY <1>0, <1>15, <2>2, MoveType, Places, Zenon DEF IdleBlock
    <2>4. idle_thread = NULL => running # Idle /\ Idle \in Range(ready_list)
      BY <2>1, Booted, Zenon
    <2>5. ThreadsTypeOK' /\ IdleKept /\ idle_thread' = idle_thread
      BY <1>15, <2>4, BlockType, Zenon DEF IdleBlock, TypeInv, TypeOK, thread_block, schedule
    <2>6. BootOK'
      BY <1>0, <2>3, <2>4, <2>5, BootStep, Zenon
    <2> QED
      BY <1>15, <2>3, <2>5, <2>6, Zenon DEF IdleBlock, TypeInv, TypeOK, ControlTypeOK
  <1>16. ASSUME TimerSleepLoop PROVE TypeInv'
    <2>1. pc[running] = "sleep"
      BY <1>16, Zenon DEF TimerSleepLoop, At
    <2>2. CASE Goto("run", NULL, "run", NULL) /\ UNCHANGED threadVars
      <3>1. ControlAt("run", NULL, "run", NULL, child[running])
        BY Zenon DEF ControlAt
      <3>2. ControlTypeOK' /\ ControlOK' /\ \A t \in Thread \ {running} : pc'[t] = pc[t]
        BY <1>0, <1>16, <2>2, <3>1, MoveType, Places, Zenon DEF TimerSleepLoop
      <3>3. ThreadsTypeOK' /\ BootOK'
        BY <2>1, <2>2, <3>2, StayType, Zenon
      <3> QED
        BY <1>16, <3>2, <3>3, Zenon DEF TimerSleepLoop, TypeInv, TypeOK, ControlTypeOK
    <2>3. CASE thread_yield /\ UNCHANGED <<pc, on, ret, cond>>
      <3>1. idle_thread = NULL => running # Idle /\ Idle \in Range(ready_list)
        BY <2>1, Booted, Zenon
      <3>2. ThreadsTypeOK' /\ IdleKept /\ idle_thread' = idle_thread
        BY <2>3, <3>1, YieldType, Zenon DEF TypeInv, TypeOK, thread_yield, schedule
      <3>3. BootOK'
        BY <2>3, <3>2, BootStep, Zenon
      <3> QED
        BY <1>16, <2>3, <3>2, <3>3, Zenon DEF TimerSleepLoop, TypeInv, TypeOK, ControlOK
    <2> QED
      BY <1>16, <2>2, <2>3, Zenon DEF TimerSleepLoop
  <1> QED
    BY <1>1, <1>2, <1>3, <1>4, <1>5, <1>6, <1>7, <1>8, <1>9, <1>10, <1>11, <1>12, <1>13,
       <1>14, <1>15, <1>16, Zenon DEF Continue

LEMMA InterruptType ==
  ASSUME TypeInv, Interrupt
  PROVE  TypeInv'
  <1> USE DEF tidVars, semaVars
  <1>0. /\ running \in Thread /\ IntrSema \subseteq Semaphore
        /\ Idle \in Thread
        /\ pc[running] # "start"
        /\ idle_thread = NULL => running = Idle \/ Idle \in Range(ready_list)
    BY RunningControl, ThreadAssumption, SynchAssumption, Zenon
    DEF Semaphore, Interrupt, TimerInterrupt, DeviceInterrupt, InterruptsOn, TypeInv, BootOK
  <1>1. ASSUME leave_hlt, UNCHANGED child
        PROVE  /\ ControlTypeOK' /\ ControlOK'
               /\ \A t \in Thread : pc'[t] = pc[t] \/ pc[t] = "halt"
    <2>1. /\ \A t \in Thread : pc'[t] = pc[t] \/ (pc[t] = "halt" /\ pc'[t] = "idle")
          /\ pc' \in [Thread -> PC]
      BY <1>0, <1>1, Zenon DEF leave_hlt, TypeInv, TypeOK, PC
    <2>2. ControlTypeOK'
      BY <1>1, <2>1, Zenon DEF leave_hlt, TypeInv, TypeOK, ControlTypeOK
    <2>3. ASSUME NEW t \in Thread
          PROVE  /\ ControlAt(pc'[t], on[t], ret[t], cond[t], child[t])
                 /\ pc'[t] = "idle_init" => t = Idle
      BY <2>1, Zenon DEF TypeInv, ControlOK, ControlAt
    <2>4. ControlOK'
      BY <1>1, <2>3, Zenon DEF leave_hlt, ControlOK
    <2> QED
      BY <2>1, <2>2, <2>4, Zenon
  <1>2. ASSUME leave_hlt, UNCHANGED child, IdleKept, idle_thread' = idle_thread PROVE BootOK'
    <2>1. idle_thread = NULL => pc'[Idle] = pc[Idle]
      BY <1>0, <1>1, <1>2, Zenon DEF TypeInv, BootOK
    <2> QED
      BY <1>2, <2>1, BootStep, Zenon
  <1>3. ASSUME TimerInterrupt PROVE TypeInv'
    <2>1. ThreadsTypeOK' /\ IdleKept
      BY <1>0, <1>3, TickType, Zenon DEF TimerInterrupt, TypeInv, TypeOK
    <2>2. idle_thread' = idle_thread
      BY <1>3, Zenon DEF TimerInterrupt, thread_tick, thread_yield, schedule
    <2>3. ControlTypeOK' /\ ControlOK' /\ BootOK'
      BY <1>1, <1>2, <1>3, <2>1, <2>2, Zenon DEF TimerInterrupt
    <2>4. sleep' \in [Thread -> 0 .. MaxSleep]
      BY <1>3, SynchAssumption DEF TimerInterrupt, TypeInv, TypeOK
    <2> QED
      BY <1>3, <2>1, <2>3, <2>4, Zenon DEF TimerInterrupt, TypeInv, TypeOK, ControlTypeOK
  <1>4. ASSUME NEW s \in IntrSema, DeviceInterrupt(s) PROVE TypeInv'
    <2>1. /\ ThreadsTypeOK' /\ IdleKept /\ idle_thread' = idle_thread
          /\ value' \in [Semaphore -> Nat] /\ waiters' \in [Semaphore -> Seq(Thread)]
      BY <1>0, <1>4, SemaUpType, Zenon DEF DeviceInterrupt
    <2>2. ControlTypeOK' /\ ControlOK' /\ BootOK'
      BY <1>1, <1>2, <1>4, <2>1, Zenon DEF DeviceInterrupt
    <2> QED
      BY <1>4, <2>1, <2>2, Zenon DEF DeviceInterrupt, TypeInv, TypeOK, ControlTypeOK
  <1> QED
    BY <1>3, <1>4, Zenon DEF Interrupt

LEMMA InitTypeInv == Init => TypeInv
  <1> SUFFICES ASSUME Init PROVE TypeInv
    BY Zenon
  <1>1. ThreadsTypeOK
    BY ThreadAssumption DEF Init, ThreadInit, ThreadsTypeOK, Status
  <1>2. /\ value \in [Semaphore -> Nat] /\ waiters \in [Semaphore -> Seq(Thread)]
        /\ cond_waiters \in [Cond -> Seq(Thread)]
    BY DEF Init, sema_init
  <1>3. ControlTypeOK /\ ControlOK
    BY Zenon DEF Init, ControlTypeOK, ControlOK, ControlAt, PC
  <1>4. /\ sleep \in [Thread -> 0 .. MaxSleep] /\ tid \in [Thread -> Nat] /\ next_tid \in Nat
        /\ child \in [Thread -> Thread \cup {NULL}] /\ holder \in [Lock -> Thread \cup {NULL}]
    BY SynchAssumption DEF Init
  <1>5. BootOK
    BY ThreadAssumption, Zenon DEF Init, ThreadInit, BootOK
  <1> QED
    BY <1>1, <1>2, <1>3, <1>4, <1>5, Zenon DEF TypeInv, TypeOK, ControlTypeOK

\* The inductive invariant holds initially and every step keeps it.
LEMMA TypeInvariant == Spec => []TypeInv
  <1>1. TypeInv /\ [Next]_vars => TypeInv'
    <2> SUFFICES ASSUME TypeInv, [Next]_vars PROVE TypeInv'
      BY Zenon
    <2>1. CASE Next
      BY <2>1, CallType, ContinueType, InterruptType, Zenon DEF Next
    <2>2. CASE UNCHANGED vars
      BY <2>2, Zenon DEF vars, threadVars, semaVars, tidVars, TypeInv, TypeOK, ThreadsTypeOK, BootOK,
                  ControlOK
    <2> QED
      BY <2>1, <2>2, Zenon
  <1> QED
    BY InitTypeInv, <1>1, PTL DEF Spec

\* Every state of the kernel is well typed: in particular schedule() always
\* finds a thread, as idle_thread is set before the run queue can be empty, and
\* no time slice lasts longer than TIME_SLICE ticks (thread.c, synch.c).
THEOREM TypeCorrect == Spec => []TypeOK
  <1>1. TypeInv => TypeOK
    BY Zenon DEF TypeInv
  <1> QED
    BY <1>1, TypeInvariant, PTL

-----------------------------------------------------------------------------
(* Mutual exclusion. *)

\* Thread t is between the sema_down of lock_acquire(l) and the assignment to
\* lock->holder, or between the reset of lock->holder and the sema_up.
Handing(t, l) == pc[t] \in {"own", "up"} /\ on[t] = l

LockOK(l) ==
  /\ value[l] \in {0, 1}
  /\ holder[l] # NULL => value[l] = 0
  /\ \A t \in Thread : Handing(t, l) => holder[l] = NULL /\ value[l] = 0
  /\ \A t, u \in Thread : Handing(t, l) /\ Handing(u, l) => t = u
  /\ value[l] = 0 => holder[l] # NULL \/ \E t \in Thread : Handing(t, l)

\* A step that does not concern the lock.
Untouched(l) ==
  /\ value'[l] = value[l]
  /\ holder'[l] = holder[l]
  /\ \A t \in Thread : Handing(t, l)' <=> Handing(t, l)

LEMMA KeepLock ==
  ASSUME NEW l \in Lock, LockOK(l), Untouched(l)
  PROVE  LockOK(l)'
  BY Zenon DEF LockOK, Untouched

LEMMA GotoHanding ==
  ASSUME TypeInv, NEW p, NEW o, NEW r, NEW c, Goto(p, o, r, c), NEW l \in Lock
  PROVE  \A t \in Thread :
           Handing(t, l)' <=> IF t = running THEN p \in {"own", "up"} /\ o = l ELSE Handing(t, l)
  BY Zenon DEF TypeInv, TypeOK, ThreadsTypeOK, Goto, Handing

\* The sema_down of lock_acquire: the running thread joins Handing.
LEMMA TakeLock ==
  ASSUME NEW l \in Lock, running \in Thread, LockOK(l), value[l] # 0, value'[l] = 0,
         holder'[l] = holder[l],
         \A t \in Thread : Handing(t, l)' <=> t = running \/ Handing(t, l)
  PROVE  LockOK(l)'
  <1>1. holder[l] = NULL /\ \A t \in Thread : ~Handing(t, l)
    BY Zenon DEF LockOK
  <1>2. \A t \in Thread : Handing(t, l)' <=> t = running
    BY <1>1, Zenon
  <1>3. holder'[l] = NULL /\ \E t \in Thread : Handing(t, l)'
    BY <1>1, <1>2, Zenon
  <1>4. \A t, u \in Thread : Handing(t, l)' /\ Handing(u, l)' => t = u
    BY <1>2, Zenon
  <1> QED
    BY <1>3, <1>4, Zenon DEF LockOK

\* The sema_up of lock_release: the running thread leaves Handing.
LEMMA GiveLock ==
  ASSUME NEW l \in Lock, running \in Thread, LockOK(l), Handing(running, l), value'[l] = 1,
         holder'[l] = holder[l],
         \A t \in Thread : Handing(t, l)' <=> t # running /\ Handing(t, l)
  PROVE  LockOK(l)'
  <1>1. holder[l] = NULL /\ \A t \in Thread : Handing(t, l) => t = running
    BY Zenon DEF LockOK
  <1>2. \A t \in Thread : ~Handing(t, l)'
    BY <1>1, Zenon
  <1> QED
    BY <1>1, <1>2 DEF LockOK

LEMMA SemaDownLock ==
  ASSUME TypeInv, \A l \in Lock : LockOK(l),
         pc[running] \notin {"own", "up"},
         NEW s \in Semaphore, NEW r, NEW c,
         sema_down(s, r, c), UNCHANGED holder
  PROVE  \A l \in Lock : LockOK(l)'
  <1> SUFFICES ASSUME NEW l \in Lock PROVE LockOK(l)'
    BY Zenon
  <1>0. /\ running \in Thread /\ LockOK(l) /\ ~Handing(running, l)
        /\ l \notin Sema /\ l \notin Thread /\ l # IdleStarted /\ l \in Semaphore
        /\ value \in [Semaphore -> Nat]
    BY SynchAssumption, Zenon DEF TypeInv, TypeOK, ThreadsTypeOK, Handing, Semaphore
  <1>1. CASE Goto("down", s, r, c) /\ UNCHANGED value
    <2>1. \A t \in Thread : Handing(t, l)' <=> Handing(t, l)
      BY <1>0, <1>1, GotoHanding
    <2>2. Untouched(l)
      BY <1>1, <2>1, Zenon DEF Untouched
    <2> QED
      BY <1>0, <2>2, KeepLock, Zenon
  <1>2. CASE value[s] > 0 /\ value' = [value EXCEPT ![s] = @ - 1] /\ Downed(s, r, c)
    <2>1. CASE s = l
      <3>1. Goto("own", l, r, c)
        BY <1>0, <1>2, <2>1, Zenon DEF Downed
      <3>2. \A t \in Thread : Handing(t, l)' <=> t = running \/ Handing(t, l)
        BY <1>0, <3>1, GotoHanding, Zenon
      <3>3. value[l] \in {0, 1}
        BY <1>0, Zenon DEF LockOK
      <3>4. value[l] # 0 /\ value'[l] = value[l] - 1
        BY <1>0, <1>2, <2>1
      <3>5. value'[l] = 0
        BY <3>3, <3>4
      <3>6. holder'[l] = holder[l]
        BY Zenon
      <3> QED
        BY <1>0, <3>2, <3>4, <3>5, <3>6, TakeLock, Zenon
    <2>2. CASE s # l
      <3>1. value'[l] = value[l]
        BY <1>0, <1>2, <2>2, Zenon
      <3>2. ASSUME Goto("own", s, r, c)
            PROVE  \A t \in Thread : Handing(t, l)' <=> Handing(t, l)
        BY <1>0, <2>2, <3>2, GotoHanding, Zenon
      <3>3. ASSUME Goto("acquire", CondLock[c], "run", c)
            PROVE  \A t \in Thread : Handing(t, l)' <=> Handing(t, l)
        BY <1>0, <3>3, GotoHanding, Zenon
      <3>4. ASSUME Goto("run", NULL, "run", NULL)
            PROVE  \A t \in Thread : Handing(t, l)' <=> Handing(t, l)
        BY <1>0, <3>4, GotoHanding
      <3>5. \A t \in Thread : Handing(t, l)' <=> Handing(t, l)
        BY <1>2, <3>2, <3>3, <3>4, Zenon DEF Downed
      <3>6. Untouched(l)
        BY <3>1, <3>5, Zenon DEF Untouched
      <3> QED
        BY <1>0, <3>6, KeepLock, Zenon
    <2> QED
      BY <2>1, <2>2, Zenon
  <1> QED
    BY <1>1, <1>2, Zenon DEF sema_down

\* A step of the running thread that neither enters nor leaves Handing.
LEMMA MoveLock ==
  ASSUME TypeInv, \A l \in Lock : LockOK(l), pc[running] \notin {"own", "up"},
         NEW p, NEW o, NEW r, NEW c, Goto(p, o, r, c),
         p \notin {"own", "up"} \/ o \notin Lock,
         \A l \in Lock : value'[l] = value[l], UNCHANGED holder
  PROVE  \A l \in Lock : LockOK(l)'
  <1> SUFFICES ASSUME NEW l \in Lock PROVE LockOK(l)'
    BY Zenon
  <1>1. running \in Thread /\ ~Handing(running, l)
    BY Zenon DEF TypeInv, TypeOK, ThreadsTypeOK, Handing
  <1>2. Untouched(l)
    BY <1>1, GotoHanding, Zenon DEF Untouched
  <1> QED
    BY <1>2, KeepLock, Zenon

\* A step that leaves the control variables alone, but for the idle loop's.
LEMMA StillLock ==
  ASSUME TypeInv, \A l \in Lock : LockOK(l),
         UNCHANGED <<pc, on>> \/ leave_hlt,
         \A l \in Lock : value'[l] = value[l], UNCHANGED holder
  PROVE  \A l \in Lock : LockOK(l)'
  <1> SUFFICES ASSUME NEW l \in Lock PROVE LockOK(l)'
    BY Zenon
  <1>1. \A t \in Thread : Handing(t, l)' <=> Handing(t, l)
    BY Zenon DEF TypeInv, TypeOK, leave_hlt, Handing
  <1>2. Untouched(l)
    BY <1>1, Zenon DEF Untouched
  <1> QED
    BY <1>2, KeepLock, Zenon

LEMMA ClearHolderLock ==
  ASSUME TypeInv, \A l \in Lock : LockOK(l), pc[running] \notin {"own", "up"},
         NEW k \in Lock, NEW r, NEW c, clear_holder(k, r, c)
  PROVE  \A l \in Lock : LockOK(l)'
  <1> SUFFICES ASSUME NEW l \in Lock PROVE LockOK(l)'
    BY Zenon
  <1>0. /\ running \in Thread /\ NULL \notin Thread /\ ~Handing(running, l) /\ LockOK(l)
        /\ holder \in [Lock -> Thread \cup {NULL}]
        /\ value' = value
    BY ThreadAssumption, Zenon DEF TypeInv, TypeOK, ThreadsTypeOK, Handing, clear_holder, semaVars
  <1>1. \A t \in Thread :
          Handing(t, l)' <=> IF t = running THEN k = l ELSE Handing(t, l)
    BY GotoHanding, Zenon DEF clear_holder
  <1>2. CASE k = l
    <2>1. holder[l] = running /\ holder'[l] = NULL
      BY <1>0, <1>2, Zenon DEF clear_holder
    <2>2. value[l] = 0 /\ \A t \in Thread : ~Handing(t, l)
      BY <1>0, <2>1, Zenon DEF LockOK
    <2> QED
      BY <1>0, <1>1, <1>2, <2>1, <2>2, Zenon DEF LockOK
  <1>3. CASE k # l
    <2>1. Untouched(l)
      BY <1>0, <1>1, <1>3, Zenon DEF Untouched, clear_holder
    <2> QED
      BY <1>0, <2>1, KeepLock, Zenon
  <1> QED
    BY <1>2, <1>3, Zenon

LEMMA SetHolderLock ==
  ASSUME TypeInv, \A l \in Lock : LockOK(l), SetHolder
  PROVE  \A l \in Lock : LockOK(l)'
  <1> SUFFICES ASSUME NEW l \in Lock PROVE LockOK(l)'
    BY Zenon
  <1> DEFINE k == on[running]
  <1>0. /\ running \in Thread /\ NULL \notin Thread /\ LockOK(l) /\ k \in Lock
        /\ Handing(running, k) /\ ret[running] \notin {"own", "up"}
        /\ holder \in [Lock -> Thread \cup {NULL}]
        /\ value' = value
    BY RunningControl, ThreadAssumption, Zenon
    DEF SetHolder, At, ControlAt, TypeInv, TypeOK, Handing, semaVars
  <1>1. \A t \in Thread : Handing(t, l)' <=> t # running /\ Handing(t, l)
    BY <1>0, GotoHanding, Zenon DEF SetHolder
  <1>2. CASE k = l
    <2>1. value[l] = 0 /\ \A t \in Thread : Handing(t, l) => t = running
      BY <1>0, <1>2, Zenon DEF LockOK
    <2>2. holder'[l] = running
      BY <1>0, <1>2, Zenon DEF SetHolder
    <2> QED
      BY <1>0, <1>1, <2>1, <2>2, Zenon DEF LockOK
  <1>3. CASE k # l
    <2>1. ~Handing(running, l)
      BY <1>3, Zenon DEF Handing
    <2>2. Untouched(l)
      BY <1>0, <1>1, <1>3, <2>1, Zenon DEF Untouched, SetHolder
    <2> QED
      BY <1>0, <2>2, KeepLock, Zenon
  <1> QED
    BY <1>2, <1>3, Zenon

LEMMA SemaUpCallLock ==
  ASSUME TypeInv, \A l \in Lock : LockOK(l), SemaUpCall
  PROVE  \A l \in Lock : LockOK(l)'
  <1> SUFFICES ASSUME NEW l \in Lock PROVE LockOK(l)'
    BY Zenon
  <1> DEFINE k == on[running]
  <1>0. /\ running \in Thread /\ LockOK(l) /\ k \in Semaphore /\ l \in Semaphore
        /\ Handing(running, k) /\ ret[running] \notin {"own", "up"}
        /\ value \in [Semaphore -> Nat] /\ holder' = holder
    BY RunningControl, Zenon DEF SemaUpCall, At, ControlAt, TypeInv, TypeOK, Handing, Semaphore
  <1>1. \A t \in Thread : Handing(t, l)' <=> t # running /\ Handing(t, l)
    BY <1>0, GotoHanding, Zenon DEF SemaUpCall
  <1>2. CASE k = l
    <2>1. value[l] = 0
      BY <1>0, <1>2, Zenon DEF LockOK
    <2>2. value' = [value EXCEPT ![l] = @ + 1]
      BY <1>2, Zenon DEF SemaUpCall, sema_up
    <2>3. value'[l] = 1
      BY <1>0, <2>1, <2>2
    <2> QED
      BY <1>0, <1>1, <1>2, <2>3, GiveLock, Zenon
  <1>3. CASE k # l
    <2>1. ~Handing(running, l)
      BY <1>3, Zenon DEF Handing
    <2>2. value'[l] = value[l]
      BY <1>0, <1>3, Zenon DEF SemaUpCall, sema_up
    <2>3. Untouched(l)
      BY <1>0, <1>1, <2>1, <2>2, Zenon DEF Untouched
    <2> QED
      BY <1>0, <2>3, KeepLock, Zenon
  <1> QED
    BY <1>2, <1>3, Zenon

LEMMA LockStep ==
  ASSUME TypeInv, \A l \in Lock : LockOK(l), [Next]_vars
  PROVE  \A l \in Lock : LockOK(l)'
  <1> USE DEF At, semaVars
  <1>0. /\ running \in Thread
        /\ value \in [Semaphore -> Nat]
        /\ Lock \subseteq Semaphore /\ Sema \subseteq Semaphore /\ Thread \subseteq Semaphore
        /\ IdleStarted \in Semaphore /\ IntrSema \subseteq Sema
        /\ Lock \cap Sema = {} /\ Lock \cap Thread = {} /\ IdleStarted \notin Lock
        /\ NULL \notin Lock
        /\ pc[running] \in {"acquire", "release"} => on[running] \in Lock
        /\ pc[running] = "down" => on[running] \in Semaphore
    BY RunningControl, SynchAssumption, Zenon DEF TypeInv, TypeOK, ControlAt, Semaphore
  <1>1. \A s \in Semaphore \ Lock : \A l \in Lock :
          [value EXCEPT ![s] = @ + 1][l] = value[l] /\ [value EXCEPT ![s] = @ - 1][l] = value[l]
                                        /\ [value EXCEPT ![s] = 0][l] = value[l]
    BY <1>0, Zenon
  <1>2. CASE Call
    <2>1. ASSUME NEW s \in Sema, SemaDown(s) PROVE \A l \in Lock : LockOK(l)'
      BY <1>0, <2>1, SemaDownLock, Zenon DEF SemaDown
    <2>2. ASSUME NEW s \in Sema, SemaTryDown(s) \/ SemaUp(s) PROVE \A l \in Lock : LockOK(l)'
      <3>1. \A l \in Lock : value'[l] = value[l]
        BY <1>0, <1>1, <2>2, Zenon DEF SemaTryDown, SemaUp, sema_up
      <3> QED
        BY <2>2, <3>1, StillLock, Zenon DEF SemaTryDown, SemaUp
    <2>3. ASSUME NEW k \in Lock, LockAcquire(k) PROVE \A l \in Lock : LockOK(l)'
      BY <1>0, <2>3, SemaDownLock, Zenon DEF LockAcquire
    <2>4. ASSUME NEW k \in Lock, LockTryAcquire(k) PROVE \A l \in Lock : LockOK(l)'
      <3>1. /\ value[k] > 0 /\ value' = [value EXCEPT ![k] = @ - 1] /\ Downed(k, "run", NULL)
            /\ UNCHANGED <<threadVars, waiters, holder>> /\ pc[running] = "run"
        BY <2>4, Zenon DEF LockTryAcquire, Downed
      <3>2. sema_down(k, "run", NULL)
        BY <3>1, Zenon DEF sema_down
      <3> QED
        BY <1>0, <3>1, <3>2, SemaDownLock, Zenon
    <2>5. ASSUME NEW k \in Lock, LockRelease(k) PROVE \A l \in Lock : LockOK(l)'
      BY <2>5, ClearHolderLock, Zenon DEF LockRelease
    <2>6. ASSUME NEW c \in Cond, CondWait(c) PROVE \A l \in Lock : LockOK(l)'
      <3>1. \A l \in Lock : value'[l] = value[l]
        BY <1>0, <1>1, <2>6, Zenon DEF CondWait
      <3> QED
        BY <2>6, <3>1, MoveLock, Zenon DEF CondWait
    <2>7. ASSUME NEW c \in Cond, CondSignal(c) PROVE \A l \in Lock : LockOK(l)'
      <3>1. Head(cond_waiters[c]) \in Thread
        BY <2>7, PopIs, Zenon DEF CondSignal, cond_signal, TypeInv, TypeOK
      <3>2. Head(cond_waiters[c]) \notin Lock
        BY <1>0, <3>1, Zenon
      <3> QED
        BY <2>7, <3>2, MoveLock, Zenon DEF CondSignal, cond_signal
    <2>8. ASSUME NEW c \in Cond, CondBroadcast(c) PROVE \A l \in Lock : LockOK(l)'
      BY <2>8, MoveLock, Zenon DEF CondBroadcast
    <2>9. ASSUME NEW t \in Thread, ThreadCreate(t) PROVE \A l \in Lock : LockOK(l)'
      BY <2>9, MoveLock, Zenon DEF ThreadCreate
    <2>10. ASSUME ThreadExit \/ ThreadYield PROVE \A l \in Lock : LockOK(l)'
      BY <2>10, StillLock, Zenon DEF ThreadExit, ThreadYield
    <2>11. ASSUME NEW n \in 1 .. MaxSleep, TimerSleep(n) PROVE \A l \in Lock : LockOK(l)'
      BY <2>11, MoveLock, Zenon DEF TimerSleep
    <2> QED
      BY <1>2, <2>1, <2>2, <2>3, <2>4, <2>5, <2>6, <2>7, <2>8, <2>9, <2>10, <2>11, Zenon DEF Call
  <1>3. CASE Continue
    <2>1. ASSUME SemaDownLoop \/ LockAcquireCall PROVE \A l \in Lock : LockOK(l)'
      BY <1>0, <2>1, SemaDownLock, Zenon DEF SemaDownLoop, LockAcquireCall
    <2>2. ASSUME CondWaitDown \/ ThreadStartWait PROVE \A l \in Lock : LockOK(l)'
      BY <1>0, <2>2, SemaDownLock, Zenon DEF CondWaitDown, ThreadStartWait
    <2>3. ASSUME LockReleaseCall PROVE \A l \in Lock : LockOK(l)'
      BY <1>0, <2>3, ClearHolderLock, Zenon DEF LockReleaseCall
    <2>4. ASSUME CondBroadcastLoop PROVE \A l \in Lock : LockOK(l)'
      <3> DEFINE c == cond[running]
      <3>0. c \in Cond /\ pc[running] = "bcast" /\ UNCHANGED <<value, holder>>
        BY <2>4, RunningControl, Zenon DEF CondBroadcastLoop, ControlAt
      <3>1. CASE cond_signal(c, "bcast", c)
        <4>1. Head(cond_waiters[c]) \in Thread
          BY <3>0, <3>1, PopIs, Zenon DEF cond_signal, TypeInv, TypeOK
        <4>2. Head(cond_waiters[c]) \notin Lock
          BY <1>0, <4>1, Zenon
        <4> QED
          BY <3>0, <3>1, <4>2, MoveLock, Zenon DEF cond_signal
      <3>2. CASE Goto("run", NULL, "run", NULL)
        BY <3>0, <3>2, MoveLock, Zenon
      <3> QED
        BY <2>4, <3>1, <3>2, Zenon DEF CondBroadcastLoop
    <2>5. ASSUME TidRead \/ TidWrite \/ ThreadCreated PROVE \A l \in Lock : LockOK(l)'
      BY <2>5, MoveLock, Zenon DEF TidRead, TidWrite, ThreadCreated
    <2>6. ASSUME ThreadStart \/ IdleInit \/ IdleBlock PROVE \A l \in Lock : LockOK(l)'
      BY <2>6, MoveLock, Zenon DEF ThreadStart, IdleInit, IdleBlock
    <2>7. ASSUME IdleUp PROVE \A l \in Lock : LockOK(l)'
      <3>1. \A l \in Lock : value'[l] = value[l]
        BY <1>0, <1>1, <2>7, Zenon DEF IdleUp, sema_up
      <3> QED
        BY <2>7, <3>1, MoveLock, Zenon DEF IdleUp
    <2>8. ASSUME TimerSleepLoop PROVE \A l \in Lock : LockOK(l)'
      <3>1. CASE Goto("run", NULL, "run", NULL)
        BY <2>8, <3>1, MoveLock, Zenon DEF TimerSleepLoop
      <3>2. CASE UNCHANGED <<pc, on, ret, cond>>
        BY <2>8, <3>2, StillLock, Zenon DEF TimerSleepLoop
      <3> QED
        BY <2>8, <3>1, <3>2, Zenon DEF TimerSleepLoop
    <2> QED
      BY <1>3, <2>1, <2>2, <2>3, <2>4, <2>5, <2>6, <2>7, <2>8, SetHolderLock, SemaUpCallLock, Zenon
      DEF Continue
  <1>4. CASE Interrupt
    <2>1. ASSUME TimerInterrupt PROVE \A l \in Lock : value'[l] = value[l]
      BY <2>1, Zenon DEF TimerInterrupt
    <2>2. ASSUME NEW s \in IntrSema, DeviceInterrupt(s)
          PROVE  \A l \in Lock : value'[l] = value[l]
      <3>1. s \in Semaphore \ Lock /\ value' = [value EXCEPT ![s] = @ + 1]
        BY <1>0, <2>2, Zenon DEF DeviceInterrupt, sema_up
      <3> QED
        BY <1>1, <3>1, Zenon
    <2>3. \A l \in Lock : value'[l] = value[l]
      BY <1>4, <2>1, <2>2, Zenon DEF Interrupt
    <2> QED
      BY <1>4, <2>3, StillLock, Zenon DEF Interrupt, TimerInterrupt, DeviceInterrupt
  <1>5. CASE UNCHANGED vars
    BY <1>5, StillLock, Zenon DEF vars
  <1> QED
    BY <1>2, <1>3, <1>4, <1>5, Zenon DEF Next

LocksOK == \A l \in Lock : LockOK(l)

LEMMA LockInvariant == Spec => []LocksOK
  <1>1. Init => LocksOK
    BY DEF Init, LocksOK, LockOK, Handing, sema_init, Semaphore
  <1>2. TypeInv /\ LocksOK /\ [Next]_vars => LocksOK'
    BY LockStep, Zenon DEF LocksOK
  <1> QED
    BY <1>1, <1>2, TypeInvariant, PTL DEF Spec

LEMMA LocksAreExclusive ==
  ASSUME TypeInv, LocksOK  PROVE MutualExclusion
  <1> SUFFICES ASSUME NEW l \in Lock
               PROVE  /\ \A t, u \in Owners(l) : t = u
                      /\ value[l] = IF Owners(l) = {} THEN 1 ELSE 0
    BY Zenon DEF MutualExclusion
  <1>1. \A t \in Thread : t \in Owners(l) <=> holder[l] = t \/ Handing(t, l)
    BY Zenon DEF Owners, Handing
  <1>2. LockOK(l) /\ holder[l] \in Thread \cup {NULL} /\ NULL \notin Thread
        /\ Owners(l) \subseteq Thread
    BY ThreadAssumption, Zenon DEF TypeInv, TypeOK, LocksOK, Owners
  <1>3. \A t, u \in Owners(l) : t = u
    <2> SUFFICES ASSUME NEW t \in Owners(l), NEW u \in Owners(l) PROVE t = u
      BY Zenon
    <2>1. t \in Thread /\ u \in Thread
      BY <1>2, Zenon
    <2>2. (holder[l] = t \/ Handing(t, l)) /\ (holder[l] = u \/ Handing(u, l))
      BY <1>1, <2>1, Zenon
    <2>3. (Handing(t, l) \/ Handing(u, l)) => holder[l] = NULL
      BY <1>2, <2>1, Zenon DEF LockOK
    <2>4. Handing(t, l) /\ Handing(u, l) => t = u
      BY <1>2, <2>1, Zenon DEF LockOK
    <2> QED
      BY <1>2, <2>1, <2>2, <2>3, <2>4, Zenon
  <1>4. value[l] = IF Owners(l) = {} THEN 1 ELSE 0
    BY <1>1, <1>2, Zenon DEF LockOK
  <1> QED
    BY <1>3, <1>4, Zenon

\* A lock has one owner at most between the sema_down of lock_acquire and the
\* sema_up of lock_release, for any number of threads and locks, although
\* lock->holder is written with interrupts on (synch.c).
THEOREM LocksExclude == Spec => []MutualExclusion
  <1>1. TypeInv /\ LocksOK => MutualExclusion
    BY LocksAreExclusive, Zenon
  <1> QED
    BY <1>1, LockInvariant, TypeInvariant, PTL

-----------------------------------------------------------------------------
(* The inductive invariant behind ThreadsQueued. *)

\* What the place p of thread t says of its other control variables: o for on,
\* r for ret, k for child.
ShapeAt(t, p, o, r, k) ==
  /\ p \in {"idle_init", "idle_up", "idle", "halt"} <=> t = Idle
  /\ p \in {"start", "idle_started"} => t = Main
  /\ p = "down" /\ o \in Thread => o = t
  /\ p = "down" /\ o \notin Lock => r = "run"
  /\ r = "wait" => p \in {"release", "up"} /\ o \in Lock
  /\ r \in {"tid_read", "created"} => p \in {"acquire", "down", "own", "release", "up"}
  /\ k # NULL <=> p \in {"tid_read", "tid_write", "created"} \/ r \in {"tid_read", "created"}

ShapeOK == \A t \in Thread : ShapeAt(t, pc[t], on[t], ret[t], child[t])

\* The page of the idle thread is taken when thread_start is left, and kept.
BootIdle ==
  /\ pc[Main] = "start" => running = Main /\ idle_thread = NULL
  /\ status[Idle] = "FREE" <=> pc[Main] = "start"

\* A thread that is being created is blocked, and has one creator.
ChildOK ==
  /\ \A t \in Thread : child[t] # NULL =>
       child[t] # Idle /\ status[child[t]] = "BLOCKED" /\ pc[child[t]] = "run"
  /\ \A t, u \in Thread : child[t] = child[u] /\ child[t] # NULL => t = u

\* A page that holds no thread has yet to start, or thread_exit has freed it.
FreeOK == \A t \in Thread \ {Idle} : status[t] = "FREE" => pc[t] = "run"

\* Whoever has to wake a blocked thread can find it.
Findable ==
  \A t \in Thread : status[t] = "BLOCKED" =>
    \/ pc[t] = "down" /\ t \in Range(waiters[on[t]])
    \/ t = idle_thread
    \/ \E u \in Thread : child[u] = t

QueueInv ==
  /\ TypeInv /\ RunQueueOK /\ WaitListsOK
  /\ ShapeOK /\ BootIdle /\ ChildOK /\ FreeOK /\ Findable

-----------------------------------------------------------------------------
(* What a step of any kind has to show. *)

\* The running thread moves; it may block or exit, and threads of wait lists may
\* be woken.  No thread is created.
Step(woke, slept, gone) ==
  /\ \A t \in Thread \ {running} : pc'[t] = pc[t] /\ on'[t] = on[t]
  /\ idle_thread' = idle_thread /\ child' = child
  /\ pc[running] # "start" /\ pc'[running] # "start"
  /\ woke \subseteq Thread /\ slept \subseteq {running} /\ gone \subseteq {running}
  /\ Keeps((Blocked \cup slept) \ woke, Free \cup gone)
  /\ \A t \in woke : status[t] = "BLOCKED" /\ pc[t] = "down"
  /\ gone # {} => pc'[running] = "run"
  /\ slept # {} => pc'[running] = "down" \/ running = idle_thread
  /\ pc'[running] = "down" => slept # {}
  /\ \A s \in Semaphore :
       /\ IsInjective(waiters'[s])
       /\ Range(waiters'[s]) =
            (Range(waiters[s]) \ woke) \cup {t \in slept : pc'[t] = "down" /\ on'[t] = s}

LEMMA WaitersThreads ==
  ASSUME TypeInv  PROVE \A s \in Semaphore : Range(waiters[s]) \subseteq Thread
  <1>1. waiters \in [Semaphore -> Seq(Thread)]
    BY Zenon DEF TypeInv, TypeOK
  <1> QED  BY <1>1 DEF Range

LEMMA StepQueue ==
  ASSUME QueueInv, TypeInv', RunQueueOK', ShapeOK', NEW woke, NEW slept, NEW gone,
         Step(woke, slept, gone)
  PROVE  /\ QueueInv'
         /\ \A s \in Semaphore : Woken(s)' = (Woken(s) \ {running}) \cup {t \in woke : on[t] = s}
  <1> USE DEF Step
  <1>1. /\ running \in Thread /\ Main \in Thread /\ Idle \in Thread /\ Main # Idle /\ NULL \notin Thread
        /\ status[running] = "RUNNING" /\ idle_thread \in {NULL, Idle}
        /\ child \in [Thread -> Thread \cup {NULL}] /\ status' \in [Thread -> Status]
    BY ThreadAssumption, Zenon DEF QueueInv, TypeInv, TypeOK, ThreadsTypeOK, RunQueueOK
  <1>2. /\ \A t \in Thread : status'[t] = "BLOCKED" =>
             (status[t] = "BLOCKED" \/ t \in slept) /\ t \notin woke
        /\ \A t \in Thread : status'[t] = "FREE" => status[t] = "FREE" \/ t \in gone
        /\ \A t \in Thread \ {idle_thread} :
             /\ (status[t] = "BLOCKED" \/ t \in slept) /\ t \notin woke => status'[t] = "BLOCKED"
             /\ status[t] = "FREE" \/ t \in gone => status'[t] = "FREE"
    BY Zenon DEF Keeps, Blocked, Free
  <1>3. /\ pc[Idle] \in {"idle_init", "idle_up", "idle", "halt"}
        /\ pc'[Idle] \in {"idle_init", "idle_up", "idle", "halt"}
        /\ pc[Main] # "start" /\ pc'[Main] # "start" /\ Idle \notin gone
    BY <1>1, Zenon DEF QueueInv, ShapeOK, ShapeAt, BootIdle
  <1>4. BootIdle'
    BY <1>1, <1>2, <1>3, Zenon DEF QueueInv, BootIdle
  <1>5. ChildOK'
    <2>1. ASSUME NEW t \in Thread, child[t] # NULL
          PROVE  child[t] # Idle /\ status'[child[t]] = "BLOCKED" /\ pc'[child[t]] = "run"
      <3>1. child[t] \in Thread /\ status[child[t]] = "BLOCKED" /\ pc[child[t]] = "run" /\ child[t] # Idle
        BY <1>1, <2>1 DEF QueueInv, ChildOK
      <3> QED  BY <1>1, <1>2, <3>1
    <2> QED  BY <2>1, Zenon DEF QueueInv, ChildOK
  <1>6. FreeOK'
    BY <1>1, <1>2 DEF QueueInv, FreeOK
  <1>7. WaitListsOK'
    <2> SUFFICES ASSUME NEW s \in Semaphore, NEW t \in Range(waiters'[s])
                 PROVE  status'[t] = "BLOCKED" /\ pc'[t] = "down" /\ on'[t] = s
      BY Zenon DEF WaitListsOK
    <2>1. CASE t \in Range(waiters[s]) \ woke
      <3>1. status[t] = "BLOCKED" /\ pc[t] = "down" /\ on[t] = s
        BY <2>1, Zenon DEF QueueInv, WaitListsOK
      <3>2. t \in Thread
        <4>1. waiters[s] \in Seq(Thread)
          BY Zenon DEF QueueInv, TypeInv, TypeOK
        <4> QED  BY <2>1, <4>1 DEF Range
      <3>3. t # running /\ t # Idle
        BY <1>1, <1>3, <3>1, Zenon
      <3> QED  BY <1>1, <1>2, <2>1, <3>1, <3>2, <3>3, Zenon
    <2>2. CASE t \in slept /\ pc'[t] = "down" /\ on'[t] = s
      <3>1. t = running /\ t \in Thread /\ t # Idle /\ t \notin woke
        BY <1>1, <1>3, <2>2, Zenon
      <3> QED  BY <1>1, <1>2, <2>2, <3>1, Zenon
    <2> QED  BY <2>1, <2>2
  <1>8. Findable'
    <2> SUFFICES ASSUME NEW t \in Thread, status'[t] = "BLOCKED", t # idle_thread,
                        ~\E u \in Thread : child[u] = t
                 PROVE  pc'[t] = "down" /\ t \in Range(waiters'[on'[t]])
      BY Zenon DEF Findable
    <2>1. t \notin woke
      BY <1>2, Zenon
    <2>2. CASE status[t] = "BLOCKED"
      <3>1. pc[t] = "down" /\ t \in Range(waiters[on[t]]) /\ t # running
        BY <1>1, <2>2, Zenon DEF QueueInv, Findable
      <3>2. on[t] \in Semaphore
        BY <3>1, Zenon DEF QueueInv, TypeInv, ControlOK, ControlAt
      <3> QED  BY <2>1, <3>1, <3>2, Zenon
    <2>3. CASE status[t] # "BLOCKED"
      <3>1. t = running /\ t \in slept /\ pc'[t] = "down"
        BY <1>2, <2>3, Zenon
      <3>2. on'[t] \in Semaphore
        BY <3>1, Zenon DEF TypeInv, ControlOK, ControlAt
      <3> QED  BY <3>1, <3>2, Zenon
    <2> QED  BY <2>2, <2>3, Zenon
  <1>9. ASSUME NEW s \in Semaphore
        PROVE  Woken(s)' = (Woken(s) \ {running}) \cup {t \in woke : on[t] = s}
    <2>1. Woken(s)' = {t \in Thread : pc'[t] = "down" /\ on'[t] = s /\ status'[t] # "BLOCKED"}
      BY Zenon DEF Woken
    <2>2. ~(pc'[running] = "down" /\ status'[running] # "BLOCKED")
      <3>1. pc'[running] = "down" => running \in slept /\ running # Idle /\ running \notin woke
        BY <1>1, <1>3, Zenon
      <3> QED  BY <1>1, <1>2, <3>1
    <2>3. \A t \in Thread \ {running} : pc[t] = "down" =>
            (status'[t] # "BLOCKED" <=> status[t] # "BLOCKED" \/ t \in woke)
      BY <1>1, <1>2, <1>3
    <2>4. running \notin woke
      BY <1>1, Zenon
    <2> QED  BY <2>1, <2>2, <2>3, <2>4 DEF Woken
  <1> QED  BY <1>4, <1>5, <1>6, <1>7, <1>8, <1>9, Zenon DEF QueueInv

-----------------------------------------------------------------------------
(* The kinds of steps: a move, a sema_down, a sema_up, a switch. *)

WakeInv == QueueInv /\ NoLostWakeup

LEMMA HeadInRange ==
  ASSUME NEW S, NEW q \in Seq(S), q # <<>>
  PROVE  Head(q) \in Range(q)
  <1>1. Len(q) \in Nat \ {0} /\ Head(q) = q[1] /\ DOMAIN q = 1 .. Len(q)
    BY PopIs, ListIs, Zenon
  <1> QED  BY <1>1 DEF Range

LEMMA WokenFinite ==
  ASSUME Counting, NEW s
  PROVE  IsFiniteSet(Woken(s)) /\ Cardinality(Woken(s)) \in Nat
  BY PagesFinite, Zenon DEF Woken, Counting, CountSubset, CountNat

LEMMA GotoShape ==
  ASSUME QueueInv, NEW p, NEW o, NEW r, NEW c, Goto(p, o, r, c),
         \A t \in Thread \ {running} : child'[t] = child[t],
         ShapeAt(running, p, o, r, child'[running])
  PROVE  /\ ShapeOK' /\ pc'[running] = p /\ on'[running] = o
         /\ \A t \in Thread \ {running} : pc'[t] = pc[t] /\ on'[t] = on[t]
  <1>1. running \in Thread
    BY Zenon DEF QueueInv, TypeInv, TypeOK, ThreadsTypeOK
  <1>2. /\ pc'[running] = p /\ on'[running] = o /\ ret'[running] = r
        /\ \A t \in Thread \ {running} : pc'[t] = pc[t] /\ on'[t] = on[t] /\ ret'[t] = ret[t]
    BY <1>1, Zenon DEF Goto, QueueInv, TypeInv, TypeOK
  <1> QED  BY <1>2, Zenon DEF QueueInv, ShapeOK

\* The running thread moves and the value of no semaphore grows.
LEMMA MoveQueue ==
  ASSUME Counting, WakeInv, TypeInv', NEW p, NEW o, NEW r, NEW c, Goto(p, o, r, c), UNCHANGED threadVars,
         child' = child, ShapeAt(running, p, o, r, child[running]),
         pc[running] \notin {"start", "down"}, p \notin {"start", "down"},
         waiters' = waiters, \A s \in Semaphore : value'[s] <= value[s]
  PROVE  WakeInv'
  <1> USE DEF WakeInv, threadVars
  <1>1. RunQueueOK' /\ Keeps((Blocked \cup {}) \ {}, Free \cup {})
    BY Zenon DEF QueueInv, RunQueueOK, Keeps, Blocked, Free
  <1>2. /\ ShapeOK' /\ pc'[running] = p
        /\ \A t \in Thread \ {running} : pc'[t] = pc[t] /\ on'[t] = on[t]
    BY GotoShape, Zenon
  <1>3. Step({}, {}, {})
    BY <1>1, <1>2, Zenon DEF Step, QueueInv, WaitListsOK
  <1>4. QueueInv' /\ \A s \in Semaphore : Woken(s)' = Woken(s) \ {running}
    BY <1>1, <1>2, <1>3, StepQueue
  <1>5. \A s \in Semaphore : Woken(s)' = Woken(s)
    BY <1>4, Zenon DEF Woken
  <1>6. NoLostWakeup'
    <2> SUFFICES ASSUME NEW s \in Semaphore, waiters[s] # <<>>
                 PROVE  value'[s] <= Cardinality(Woken(s)')
      BY Zenon DEF NoLostWakeup
    <2>1. value[s] <= Cardinality(Woken(s)) /\ Cardinality(Woken(s)) \in Nat
      BY WokenFinite, Zenon DEF NoLostWakeup
    <2>2. value[s] \in Nat /\ value'[s] \in Nat
      BY Zenon DEF QueueInv, TypeInv, TypeOK
    <2> QED  BY <1>5, <2>1, <2>2
  <1> QED  BY <1>4, <1>6, Zenon

\* A switch in which the running thread may sleep as the idle thread, or exit.
LEMMA SwitchQueue ==
  ASSUME WakeInv, TypeInv', RunQueueOK', ShapeOK', NEW slept, NEW gone,
         Step({}, slept, gone), pc[running] # "down", pc'[running] # "down", UNCHANGED <<value, waiters>>
  PROVE  WakeInv'
  <1> USE DEF WakeInv
  <1>1. QueueInv' /\ \A s \in Semaphore : Woken(s)' = Woken(s) \ {running}
    BY StepQueue
  <1>2. \A s \in Semaphore : Woken(s)' = Woken(s)
    BY <1>1, Zenon DEF Woken
  <1>3. NoLostWakeup'
    BY <1>2, Zenon DEF NoLostWakeup
  <1> QED  BY <1>1, <1>3, Zenon

\* sema_down(s): the running thread goes on the wait list, or takes a unit of
\* the value, as the one it was woken for if it was.
LEMMA DownQueue ==
  ASSUME Counting, WakeInv, TypeInv', NEW s \in Semaphore, NEW r \in {"run", "tid_read"}, NEW c,
         sema_down(s, r, c), child' = child, running # Idle, pc[running] # "start",
         s \in Thread => s = running, s \notin Lock => r = "run",
         child[running] # NULL <=> r = "tid_read",
         pc[running] = "down" => on[running] = s
  PROVE  WakeInv'
  <1> USE DEF WakeInv
  <1>1. /\ running \in Thread /\ value \in [Semaphore -> Nat] /\ value' \in [Semaphore -> Nat]
        /\ waiters \in [Semaphore -> Seq(Thread)] /\ RunQueueOK /\ ThreadsTypeOK
        /\ NULL \notin Semaphore /\ status[running] = "RUNNING"
        /\ Lock \cap Thread = {} /\ Lock \cap Sema = {} /\ IdleStarted \notin Lock
    BY SynchAssumption, Zenon DEF QueueInv, TypeInv, TypeOK, ThreadsTypeOK, RunQueueOK
  <1>2. CASE /\ value[s] = 0
             /\ waiters' = [waiters EXCEPT ![s] = Append(@, running)]
             /\ thread_block
             /\ Goto("down", s, r, c)
             /\ UNCHANGED value
    <2>1. ready_list # <<>> \/ idle_thread # NULL
      <3>1. idle_thread = NULL => Idle \in Range(ready_list)
        BY Booted, <1>1, Zenon DEF QueueInv, TypeInv, BootOK
      <3> QED  BY <3>1, EmptyList, Zenon
    <2>2. RunQueueOK' /\ Keeps((Blocked \cup {running}) \ {}, Free \cup {}) /\ idle_thread' = idle_thread
      BY <1>1, <1>2, <2>1, BlockQueue, Zenon DEF thread_block, schedule
    <2>3. ShapeAt(running, "down", s, r, child[running])
      BY Zenon DEF ShapeAt
    <2>4. /\ ShapeOK' /\ pc'[running] = "down" /\ on'[running] = s
          /\ \A t \in Thread \ {running} : pc'[t] = pc[t] /\ on'[t] = on[t]
      BY <1>2, <2>3, GotoShape, Zenon
    <2>5. ASSUME NEW x \in Semaphore
          PROVE  /\ IsInjective(waiters'[x])
                 /\ Range(waiters'[x]) =
                      (Range(waiters[x]) \ {}) \cup {t \in {running} : pc'[t] = "down" /\ on'[t] = x}
      <3>1. CASE x # s
        BY <1>1, <1>2, <2>4, <3>1 DEF QueueInv, WaitListsOK
      <3>2. CASE x = s
        <4>1. IsInjective(waiters[s]) /\ running \notin Range(waiters[s]) /\ waiters[s] \in Seq(Thread)
          BY <1>1, Zenon DEF QueueInv, WaitListsOK
        <4>2. waiters'[s] = Append(waiters[s], running)
          BY <1>1, <1>2, Zenon
        <4> QED  BY <1>1, <2>4, <3>2, <4>1, <4>2, AppendOnce, AppendRange, SMTT(30)
      <3> QED  BY <3>1, <3>2, Zenon
    <2>6. Step({}, {running}, {})
      BY <1>1, <2>2, <2>4, <2>5, Zenon DEF Step
    <2>7. QueueInv' /\ \A x \in Semaphore : Woken(x)' = Woken(x) \ {running}
      BY <2>2, <2>4, <2>6, StepQueue
    <2>8. NoLostWakeup'
      <3> SUFFICES ASSUME NEW x \in Semaphore, waiters'[x] # <<>>
                   PROVE  value[x] <= Cardinality(Woken(x)')
        BY <1>2, Zenon DEF NoLostWakeup
      <3>1. CASE x = s
        <4>1. IsFiniteSet(Woken(x)') /\ Cardinality(Woken(x)') \in Nat
          BY <2>7, WokenFinite, Zenon DEF Counting, CountSubset, CountNat
        <4> QED  BY <1>2, <3>1, <4>1
      <3>2. CASE x # s
        <4>1. waiters'[x] = waiters[x]
          BY <1>1, <1>2, <3>2, Zenon
        <4>2. Woken(x)' = Woken(x)
          BY <2>7, <3>2, Zenon DEF Woken
        <4> QED  BY <4>1, <4>2, Zenon DEF NoLostWakeup
      <3> QED  BY <3>1, <3>2, Zenon
    <2> QED  BY <2>7, <2>8, Zenon
  <1>3. CASE /\ value[s] > 0
             /\ value' = [value EXCEPT ![s] = @ - 1]
             /\ Downed(s, r, c)
             /\ UNCHANGED <<threadVars, waiters>>
    <2> USE DEF threadVars
    <2>1. RunQueueOK' /\ Keeps((Blocked \cup {}) \ {}, Free \cup {})
      BY <1>3, Zenon DEF QueueInv, RunQueueOK, Keeps, Blocked, Free
    <2>2. /\ ShapeOK' /\ pc'[running] \in {"own", "acquire", "run"}
          /\ \A t \in Thread \ {running} : pc'[t] = pc[t] /\ on'[t] = on[t]
      <3>1. CASE s \in Lock /\ Goto("own", s, r, c)
        <4>1. ShapeAt(running, "own", s, r, child[running])
          BY Zenon DEF ShapeAt
        <4> QED  BY <3>1, <4>1, GotoShape, Zenon
      <3>2. CASE s \in Thread /\ Goto("acquire", CondLock[c], "run", c)
        <4>1. ShapeAt(running, "acquire", CondLock[c], "run", child[running])
          BY <1>1, <3>2, Zenon DEF ShapeAt
        <4> QED  BY <3>2, <4>1, GotoShape, Zenon
      <3>3. CASE s \in Sema \cup {IdleStarted} /\ Goto("run", NULL, "run", NULL)
        <4>1. ShapeAt(running, "run", NULL, "run", child[running])
          BY <1>1, <3>3, Zenon DEF ShapeAt
        <4> QED  BY <3>3, <4>1, GotoShape, Zenon
      <3> QED  BY <1>3, <3>1, <3>2, <3>3, Zenon DEF Downed
    <2>3. Step({}, {}, {})
      BY <1>3, <2>1, <2>2, Zenon DEF Step, QueueInv, WaitListsOK
    <2>4. QueueInv' /\ \A x \in Semaphore : Woken(x)' = Woken(x) \ {running}
      BY <2>1, <2>2, <2>3, StepQueue
    <2>5. NoLostWakeup'
      <3> SUFFICES ASSUME NEW x \in Semaphore, waiters[x] # <<>>
                   PROVE  value'[x] <= Cardinality(Woken(x)')
        BY <1>3, Zenon DEF NoLostWakeup
      <3>1. value[x] <= Cardinality(Woken(x)) /\ Cardinality(Woken(x)) \in Nat /\ IsFiniteSet(Woken(x))
        BY WokenFinite, Zenon DEF NoLostWakeup
      <3>2. CASE x = s
        <4>1. Cardinality(Woken(x) \ {running}) =
                IF running \in Woken(x) THEN Cardinality(Woken(x)) - 1 ELSE Cardinality(Woken(x))
          BY <3>1, Zenon DEF Counting, CountRemove
        <4>2. value'[x] = value[x] - 1 /\ value[x] \in Nat
          BY <1>1, <1>3, <3>2, Zenon
        <4>3. Cardinality(Woken(x)') = Cardinality(Woken(x) \ {running})
          BY <2>4, Zenon
        <4>4. Cardinality(Woken(x)') >= Cardinality(Woken(x)) - 1
          BY <3>1, <4>1, <4>3
        <4>5. Cardinality(Woken(x)') \in Nat
          BY <2>4, <3>1, Zenon DEF Counting, CountSubset, CountNat
        <4> QED  BY <3>1, <4>2, <4>4, <4>5
      <3>3. CASE x # s
        <4>1. value'[x] = value[x]
          BY <1>1, <1>3, <3>3, Zenon
        <4>2. Woken(x)' = Woken(x)
          BY <2>4, <3>3, Zenon DEF Woken
        <4> QED  BY <3>1, <4>1, <4>2, Zenon
      <3> QED  BY <3>2, <3>3, Zenon
    <2> QED  BY <2>4, <2>5, Zenon
  <1> QED  BY <1>2, <1>3, Zenon DEF sema_down

\* sema_up(s): the oldest waiter joins the woken threads, and the value grows.
LEMMA UpQueue ==
  ASSUME Counting, WakeInv, TypeInv', NEW s \in Semaphore, sema_up(s), child' = child, ShapeOK',
         \A t \in Thread \ {running} : pc'[t] = pc[t] /\ on'[t] = on[t],
         pc[running] \notin {"start", "down"}, pc'[running] \notin {"start", "down"}
  PROVE  WakeInv'
  <1> USE DEF WakeInv
  <1>1. /\ running \in Thread /\ value \in [Semaphore -> Nat] /\ RunQueueOK /\ ThreadsTypeOK
        /\ waiters \in [Semaphore -> Seq(Thread)] /\ idle_thread \in {NULL, Idle}
        /\ value' = [value EXCEPT ![s] = @ + 1] /\ NULL \notin Thread
    BY ThreadAssumption, Zenon DEF QueueInv, TypeInv, TypeOK, ThreadsTypeOK, sema_up
  <1>2. CASE waiters[s] = <<>>
    <2>1. UNCHANGED <<threadVars, waiters>>
      BY <1>2, Zenon DEF sema_up
    <2>2. RunQueueOK' /\ Keeps((Blocked \cup {}) \ {}, Free \cup {})
      BY <2>1, Zenon DEF QueueInv, RunQueueOK, Keeps, Blocked, Free, threadVars
    <2>3. Step({}, {}, {})
      BY <2>1, <2>2, Zenon DEF Step, QueueInv, WaitListsOK, threadVars
    <2>4. QueueInv' /\ \A x \in Semaphore : Woken(x)' = Woken(x) \ {running}
      BY <2>2, <2>3, StepQueue
    <2>5. \A x \in Semaphore : Woken(x)' = Woken(x)
      BY <2>4, Zenon DEF Woken
    <2>6. \A x \in Semaphore : waiters'[x] # <<>> => waiters[x] # <<>> /\ value'[x] = value[x]
      BY <1>1, <1>2, <2>1, Zenon
    <2>7. NoLostWakeup'
      BY <2>5, <2>6, Zenon DEF NoLostWakeup
    <2> QED  BY <2>4, <2>7, Zenon
  <1>3. CASE waiters[s] # <<>>
    <2> DEFINE h == Head(waiters[s])
    <2>1. thread_unblock(h) /\ waiters' = [waiters EXCEPT ![s] = Tail(@)]
      BY <1>3, Zenon DEF sema_up
    <2>2. /\ waiters[s] \in Seq(Thread) /\ IsInjective(waiters[s])
          /\ h \in Range(waiters[s]) /\ Range(Tail(waiters[s])) = Range(waiters[s]) \ {h}
          /\ IsInjective(Tail(waiters[s])) /\ h \in Thread
      <3>1. waiters[s] \in Seq(Thread)
        BY <1>1
      <3>2. IsInjective(waiters[s])
        BY Zenon DEF QueueInv, WaitListsOK
      <3>3. /\ Head(waiters[s]) \in Range(waiters[s]) /\ IsInjective(Tail(waiters[s]))
            /\ Range(Tail(waiters[s])) = Range(waiters[s]) \ {Head(waiters[s])}
        BY <1>3, <3>1, <3>2, TailOnce, Zenon
      <3>4. Head(waiters[s]) \in Thread
        BY <1>3, <3>1, PopIs, Zenon
      <3> QED  BY <3>1, <3>2, <3>3, <3>4, Zenon
    <2>3. status[h] = "BLOCKED" /\ pc[h] = "down" /\ on[h] = s /\ h # Idle
      BY <2>2, Zenon DEF QueueInv, WaitListsOK, ShapeOK, ShapeAt
    <2> HIDE DEF h
    <2>4. RunQueueOK' /\ Keeps((Blocked \cup {}) \ {h}, Free \cup {}) /\ idle_thread' = idle_thread
      BY <1>1, <2>1, <2>2, <2>3, UnblockQueue, Zenon DEF thread_unblock
    <2>5. ASSUME NEW x \in Semaphore
          PROVE  /\ IsInjective(waiters'[x])
                 /\ Range(waiters'[x]) =
                      (Range(waiters[x]) \ {h}) \cup {t \in {} : pc'[t] = "down" /\ on'[t] = x}
      <3>1. CASE x = s
        BY <1>1, <2>1, <2>2, <3>1, Zenon
      <3>2. CASE x # s
        <4>1. waiters'[x] = waiters[x]
          BY <1>1, <2>1, <3>2, Zenon
        <4>2. h \notin Range(waiters[x])
          BY <2>3, <3>2, Zenon DEF QueueInv, WaitListsOK
        <4> QED  BY <4>1, <4>2, Zenon DEF QueueInv, WaitListsOK
      <3> QED  BY <3>1, <3>2, Zenon
    <2>6. Step({h}, {}, {})
      BY <2>2, <2>3, <2>4, <2>5, Zenon DEF Step
    <2>7. QueueInv' /\ \A x \in Semaphore : Woken(x)' = (Woken(x) \ {running}) \cup {t \in {h} : on[t] = x}
      BY <2>4, <2>6, StepQueue, Zenon
    <2>8. NoLostWakeup'
      <3> SUFFICES ASSUME NEW x \in Semaphore, waiters'[x] # <<>>
                   PROVE  value'[x] <= Cardinality(Woken(x)')
        BY Zenon DEF NoLostWakeup
      <3>1. CASE x = s
        <4>1. value[x] <= Cardinality(Woken(x)) /\ Cardinality(Woken(x)) \in Nat /\ IsFiniteSet(Woken(x))
          BY <1>3, <3>1, WokenFinite, Zenon DEF NoLostWakeup
        <4>2. Woken(x)' = Woken(x) \cup {h} /\ h \notin Woken(x)
          BY <2>3, <2>7, <3>1, Zenon DEF Woken
        <4>3. Cardinality(Woken(x) \cup {h}) = Cardinality(Woken(x)) + 1
          BY <4>1, <4>2, Zenon DEF Counting, CountAdd
        <4>4. Cardinality(Woken(x)') = Cardinality(Woken(x)) + 1
          BY <4>2, <4>3, Zenon
        <4>5. value'[x] = value[x] + 1 /\ value[x] \in Nat
          BY <1>1, <3>1, Zenon
        <4> QED  BY <4>1, <4>4, <4>5
      <3>2. CASE x # s
        <4>1. waiters'[x] = waiters[x] /\ value'[x] = value[x]
          BY <1>1, <2>1, <3>2, Zenon
        <4>2. Woken(x)' = Woken(x)
          BY <2>3, <2>7, <3>2 DEF Woken
        <4> QED  BY <4>1, <4>2, Zenon DEF NoLostWakeup
      <3> QED  BY <3>1, <3>2, Zenon
    <2> QED  BY <2>7, <2>8, Zenon
  <1> QED  BY <1>2, <1>3, Zenon

-----------------------------------------------------------------------------
(* The creation of threads, and the start of the idle thread. *)

\* None of the steps below concerns a wait list.
LEMMA WakeKept ==
  ASSUME NoLostWakeup, UNCHANGED <<value, waiters>>, \A s \in Semaphore : Woken(s)' = Woken(s)
  PROVE  NoLostWakeup'
  BY Zenon DEF NoLostWakeup

LEMMA CreateQueue ==
  ASSUME WakeInv, TypeInv', NEW t \in Thread, ThreadCreate(t)
  PROVE  WakeInv'
  <1> USE DEF WakeInv, ThreadCreate, At, init_thread, semaVars
  <1>1. /\ running \in Thread /\ status[running] = "RUNNING" /\ NULL \notin Thread
        /\ Main \in Thread /\ Idle \in Thread /\ Main # Idle
        /\ status \in [Thread -> Status] /\ child \in [Thread -> Thread \cup {NULL}]
        /\ pc[running] = "run"
    BY ThreadAssumption, Zenon DEF QueueInv, TypeInv, TypeOK, ThreadsTypeOK, RunQueueOK
  <1>2. /\ t # Idle /\ pc[t] = "run" /\ t # running /\ child[running] = NULL /\ running # Idle
        /\ pc[Main] # "start"
    BY <1>1, Zenon DEF QueueInv, BootIdle, FreeOK, ShapeOK, ShapeAt, TypeInv, ControlOK, ControlAt
  <1>3. /\ child' = [child EXCEPT ![running] = t] /\ child'[running] = t
        /\ \A u \in Thread \ {running} : child'[u] = child[u]
    BY <1>1, Zenon
  <1>4. /\ ShapeOK' /\ pc'[running] = "acquire" /\ on'[running] = TidLock
        /\ \A u \in Thread \ {running} : pc'[u] = pc[u] /\ on'[u] = on[u]
    <2>1. ShapeAt(running, "acquire", TidLock, "tid_read", child'[running])
      BY <1>1, <1>2, <1>3, Zenon DEF ShapeAt
    <2> QED  BY <1>3, <2>1, GotoShape, Zenon
  <1>5. \A u \in Thread : status'[u] = IF u = t THEN "BLOCKED" ELSE status[u]
    BY <1>1, Zenon
  <1>6. RunQueueOK'
    BY <1>1, <1>2, <1>5, Zenon DEF QueueInv, RunQueueOK
  <1>7. WaitListsOK'
    <2>1. \A s \in Semaphore : Range(waiters[s]) \subseteq Thread
      BY WaitersThreads, Zenon DEF QueueInv
    <2> QED  BY <1>1, <1>2, <1>4, <1>5, <2>1 DEF QueueInv, WaitListsOK
  <1>8. BootIdle' /\ FreeOK'
    BY <1>1, <1>2, <1>4, <1>5, Zenon DEF QueueInv, BootIdle, FreeOK
  <1>9. ChildOK'
    <2>1. \A u \in Thread : child[u] # t
      BY <1>1, Zenon DEF QueueInv, ChildOK
    <2> QED  BY <1>1, <1>2, <1>3, <1>4, <1>5, <2>1 DEF QueueInv, ChildOK
  <1>10. Findable'
    <2> SUFFICES ASSUME NEW u \in Thread, status'[u] = "BLOCKED", u # idle_thread,
                        ~\E v \in Thread : child'[v] = u
                 PROVE  pc'[u] = "down" /\ u \in Range(waiters[on'[u]])
      BY Zenon DEF Findable
    <2>1. u # t /\ status[u] = "BLOCKED" /\ u # running
      BY <1>1, <1>3, <1>5, Zenon
    <2>2. ~\E v \in Thread : child[v] = u
      BY <1>2, <1>3, ThreadAssumption, Zenon
    <2> QED  BY <1>4, <2>1, <2>2, Zenon DEF QueueInv, Findable
  <1>11. \A s \in Semaphore : Woken(s)' = Woken(s)
    BY <1>1, <1>2, <1>4, <1>5 DEF Woken
  <1> QED  BY <1>4, <1>6, <1>7, <1>8, <1>9, <1>10, <1>11, WakeKept, Zenon DEF QueueInv

LEMMA CreatedQueue ==
  ASSUME WakeInv, TypeInv', ThreadCreated
  PROVE  WakeInv'
  <1> USE DEF WakeInv, ThreadCreated, At, semaVars
  <1> DEFINE k == child[running]
  <1>1. /\ running \in Thread /\ status[running] = "RUNNING" /\ NULL \notin Thread
        /\ Main \in Thread /\ Idle \in Thread /\ Main # Idle /\ ThreadsTypeOK /\ RunQueueOK
        /\ status \in [Thread -> Status] /\ child \in [Thread -> Thread \cup {NULL}]
        /\ pc[running] = "created" /\ idle_thread \in {NULL, Idle}
    BY ThreadAssumption, Zenon DEF QueueInv, TypeInv, TypeOK, ThreadsTypeOK, RunQueueOK
  <1>2. k \in Thread /\ k # Idle /\ status[k] = "BLOCKED" /\ pc[k] = "run" /\ k # running /\ running # Idle
    BY <1>1, RunningControl, Zenon DEF QueueInv, ChildOK, ShapeOK, ShapeAt, ControlAt
  <1>3. /\ child'[running] = NULL /\ \A u \in Thread \ {running} : child'[u] = child[u]
    BY <1>1, Zenon
  <1>4. /\ ShapeOK' /\ pc'[running] = "run"
        /\ \A u \in Thread \ {running} : pc'[u] = pc[u] /\ on'[u] = on[u]
    <2>1. ShapeAt(running, "run", NULL, "run", child'[running])
      BY <1>2, <1>3, Zenon DEF ShapeAt
    <2> QED  BY <1>3, <2>1, GotoShape, Zenon
  <1>5. /\ RunQueueOK' /\ \A u \in Thread : status'[u] = IF u = k THEN "READY" ELSE status[u]
        /\ idle_thread' = idle_thread /\ running' = running
    BY <1>1, <1>2, UnblockQueue, Zenon DEF thread_unblock
  <1> HIDE DEF k
  <1>6. WaitListsOK'
    <2>1. \A s \in Semaphore : Range(waiters[s]) \subseteq Thread
      BY WaitersThreads, Zenon DEF QueueInv
    <2> QED  BY <1>1, <1>2, <1>4, <1>5, <2>1 DEF QueueInv, WaitListsOK
  <1>7. BootIdle' /\ FreeOK'
    <2>1. pc[Main] # "start" /\ pc'[Main] # "start"
      BY <1>1, <1>4, Zenon DEF QueueInv, BootIdle
    <2> QED  BY <1>1, <1>2, <1>4, <1>5, <2>1, Zenon DEF QueueInv, BootIdle, FreeOK
  <1>8. ChildOK'
    <2>1. \A u \in Thread \ {running} : child[u] # k
      BY <1>1, <1>2, Zenon DEF QueueInv, ChildOK, k
    <2> QED  BY <1>1, <1>2, <1>3, <1>4, <1>5, <2>1 DEF QueueInv, ChildOK
  <1>9. Findable'
    <2> SUFFICES ASSUME NEW u \in Thread, status'[u] = "BLOCKED", u # idle_thread,
                        ~\E v \in Thread : child'[v] = u
                 PROVE  pc'[u] = "down" /\ u \in Range(waiters[on'[u]])
      BY <1>5, Zenon DEF Findable
    <2>1. u # k /\ status[u] = "BLOCKED" /\ u # running
      BY <1>1, <1>5, Zenon
    <2>2. ~\E v \in Thread : child[v] = u
      BY <1>3, <2>1, Zenon DEF k
    <2> QED  BY <1>4, <2>1, <2>2, Zenon DEF QueueInv, Findable
  <1>10. \A s \in Semaphore : Woken(s)' = Woken(s)
    BY <1>1, <1>2, <1>4, <1>5, Zenon DEF Woken
  <1> QED  BY <1>4, <1>5, <1>6, <1>7, <1>8, <1>9, <1>10, WakeKept, Zenon DEF QueueInv

LEMMA StartQueue ==
  ASSUME WakeInv, TypeInv', ThreadStart
  PROVE  WakeInv'
  <1> USE DEF WakeInv, ThreadStart, At, semaVars
  <1>1. /\ running \in Thread /\ status[running] = "RUNNING" /\ NULL \notin Thread
        /\ Main \in Thread /\ Idle \in Thread /\ Main # Idle
        /\ status \in [Thread -> Status] /\ ready_list \in Seq(Thread)
        /\ pc[running] = "start" /\ running = Main /\ status[Idle] = "FREE"
    BY ThreadAssumption, Zenon
    DEF QueueInv, TypeInv, TypeOK, ThreadsTypeOK, RunQueueOK, ShapeOK, ShapeAt, BootIdle
  <1>2. /\ ShapeOK' /\ pc'[running] = "idle_started"
        /\ \A u \in Thread \ {running} : pc'[u] = pc[u] /\ on'[u] = on[u]
    <2>1. child[running] = NULL
      BY <1>1, Zenon DEF QueueInv, ShapeOK, ShapeAt, TypeInv, ControlOK, ControlAt
    <2>2. ShapeAt(running, "idle_started", NULL, "run", child'[running])
      BY <1>1, <2>1, Zenon DEF ShapeAt
    <2> QED  BY <2>2, GotoShape, Zenon
  <1>3. \A u \in Thread : status'[u] = IF u = Idle THEN "READY" ELSE status[u]
    BY <1>1, Zenon
  <1>4. RunQueueOK'
    <2>1. Idle \notin Range(ready_list) /\ IsInjective(ready_list) /\ idle_thread = NULL
      BY <1>1, Zenon DEF QueueInv, RunQueueOK, BootIdle
    <2>2. IsInjective(ready_list') /\ Range(ready_list') = Range(ready_list) \cup {Idle}
      BY <1>1, <2>1, AppendOnce, AppendRange
    <2> QED  BY <1>1, <1>3, <2>1, <2>2 DEF QueueInv, RunQueueOK
  <1>5. WaitListsOK'
    <2>1. \A s \in Semaphore : Range(waiters[s]) \subseteq Thread
      BY WaitersThreads, Zenon DEF QueueInv
    <2>2. \A s \in Semaphore : IsInjective(waiters[s])
                             /\ \A t \in Range(waiters[s]) : status[t] = "BLOCKED" /\ pc[t] = "down" /\ on[t] = s
      BY Zenon DEF QueueInv, WaitListsOK
    <2>3. ASSUME NEW s \in Semaphore, NEW t \in Range(waiters[s])
          PROVE  status'[t] = "BLOCKED" /\ pc'[t] = "down" /\ on'[t] = s
      <3>1. t \in Thread /\ status[t] = "BLOCKED" /\ pc[t] = "down" /\ on[t] = s
        BY <2>1, <2>2, <2>3, Zenon
      <3>2. t # running /\ t # Idle
        BY <1>1, <3>1, SMTT(30)
      <3> QED  BY <1>2, <1>3, <3>1, <3>2, Zenon
    <2> QED  BY <2>2, <2>3, Zenon DEF WaitListsOK
  <1>6. BootIdle' /\ FreeOK' /\ ChildOK'
    BY <1>1, <1>2, <1>3 DEF QueueInv, BootIdle, FreeOK, ChildOK, TypeInv, TypeOK
  <1>7. Findable'
    BY <1>1, <1>2, <1>3 DEF QueueInv, Findable
  <1>8. \A s \in Semaphore : Woken(s)' = Woken(s)
    <2>1. pc[Idle] # "down" /\ pc'[Idle] # "down"
      BY <1>1, <1>2, Zenon DEF QueueInv, ShapeOK, ShapeAt
    <2>2. ASSUME NEW s \in Semaphore, NEW t \in Thread
          PROVE  (pc'[t] = "down" /\ on'[t] = s /\ status'[t] # "BLOCKED")
                   <=> (pc[t] = "down" /\ on[t] = s /\ status[t] # "BLOCKED")
      <3>1. CASE t = running
        <4>1. pc[t] # "down" /\ pc'[t] # "down"
          BY <1>1, <1>2, <3>1
        <4> QED  BY <4>1, Zenon
      <3>2. CASE t = Idle
        BY <2>1, <3>2, Zenon
      <3> QED  BY <1>2, <1>3, <3>1, <3>2, Zenon
    <2> QED  BY <2>2, Zenon DEF Woken
  <1> QED  BY <1>2, <1>4, <1>5, <1>6, <1>7, <1>8, WakeKept, Zenon DEF QueueInv

LEMMA IdleInitQueue ==
  ASSUME WakeInv, TypeInv', IdleInit
  PROVE  WakeInv'
  <1> USE DEF WakeInv, IdleInit, At, semaVars
  <1>1. /\ running \in Thread /\ status[running] = "RUNNING" /\ NULL \notin Thread
        /\ Main \in Thread /\ Idle \in Thread /\ Main # Idle /\ running = Idle
    BY ThreadAssumption, Zenon DEF QueueInv, TypeInv, TypeOK, ThreadsTypeOK, RunQueueOK, ControlOK
  <1>2. /\ ShapeOK' /\ pc'[running] = "idle_up"
        /\ \A u \in Thread \ {running} : pc'[u] = pc[u] /\ on'[u] = on[u]
    <2>1. child[running] = NULL
      BY <1>1, Zenon DEF QueueInv, ShapeOK, ShapeAt, TypeInv, ControlOK, ControlAt
    <2>2. ShapeAt(running, "idle_up", NULL, "run", child'[running])
      BY <1>1, <2>1, Zenon DEF ShapeAt, tidVars
    <2> QED  BY <2>2, GotoShape, Zenon DEF tidVars
  <1>3. RunQueueOK' /\ BootIdle' /\ FreeOK'
    <2>1. {t \in Thread : status[t] = "READY"} \ {idle_thread} = {t \in Thread : status[t] = "READY"} \ {Idle}
      BY <1>1 DEF QueueInv, TypeInv, TypeOK, ThreadsTypeOK
    <2>2. RunQueueOK'
      BY <1>1, <2>1, Zenon DEF QueueInv, RunQueueOK
    <2>3. pc[Main] # "start" /\ pc'[Main] = pc[Main]
      BY <1>1, <1>2, Zenon DEF QueueInv, BootIdle
    <2> QED  BY <1>1, <1>2, <2>2, <2>3, Zenon DEF QueueInv, BootIdle, FreeOK
  <1>4. WaitListsOK'
    <2>1. \A s \in Semaphore : Range(waiters[s]) \subseteq Thread
      BY WaitersThreads, Zenon DEF QueueInv
    <2>2. \A s \in Semaphore : IsInjective(waiters[s])
                             /\ \A t \in Range(waiters[s]) : status[t] = "BLOCKED" /\ pc[t] = "down" /\ on[t] = s
      BY Zenon DEF QueueInv, WaitListsOK
    <2>3. ASSUME NEW s \in Semaphore, NEW t \in Range(waiters[s])
          PROVE  status'[t] = "BLOCKED" /\ pc'[t] = "down" /\ on'[t] = s
      <3>1. t \in Thread /\ status[t] = "BLOCKED" /\ pc[t] = "down" /\ on[t] = s
        BY <2>1, <2>2, <2>3, Zenon
      <3>2. t # running
        BY <1>1, <3>1, SMTT(30)
      <3> QED  BY <1>2, <3>1, <3>2, Zenon
    <2> QED  BY <2>2, <2>3, Zenon DEF WaitListsOK
  <1>6. ChildOK'
    BY <1>1, <1>2 DEF QueueInv, ChildOK, tidVars, TypeInv, TypeOK
  <1>7. Findable'
    <2> SUFFICES ASSUME NEW u \in Thread, status[u] = "BLOCKED", u # Idle,
                        ~\E v \in Thread : child[v] = u
                 PROVE  pc'[u] = "down" /\ u \in Range(waiters[on'[u]])
      BY <1>1, Zenon DEF Findable, tidVars
    <2>1. u # running /\ u # idle_thread
      BY <1>1 DEF QueueInv, TypeInv, TypeOK, ThreadsTypeOK
    <2> QED  BY <1>2, <2>1, Zenon DEF QueueInv, Findable
  <1>5. \A s \in Semaphore : Woken(s)' = Woken(s)
    BY <1>1, <1>2, Zenon DEF Woken
  <1> QED  BY <1>2, <1>3, <1>4, <1>5, <1>6, <1>7, WakeKept, Zenon DEF QueueInv

-----------------------------------------------------------------------------
(* Every action keeps the queues. *)

\* What is known of the thread that takes a step.
LEMMA RunningShape ==
  ASSUME QueueInv
  PROVE  /\ running \in Thread /\ status[running] = "RUNNING"
         /\ NULL \notin Thread /\ Idle \in Thread /\ idle_thread \in {NULL, Idle}
         /\ Sema \cap (Thread \cup Lock) = {} /\ Lock \cap Thread = {}
         /\ IdleStarted \notin Thread \cup Lock
         /\ Sema \cup Lock \cup Thread \cup {IdleStarted} \subseteq Semaphore
         /\ ShapeAt(running, pc[running], on[running], ret[running], child[running])
         /\ ControlAt(pc[running], on[running], ret[running], cond[running], child[running])
         /\ child[running] \in Thread \cup {NULL} /\ ThreadsTypeOK /\ RunQueueOK
  BY RunningControl, ThreadAssumption, SynchAssumption, Zenon
  DEF QueueInv, ShapeOK, RunQueueOK, Semaphore, TypeInv, TypeOK, ThreadsTypeOK

\* A step that leaves the running thread where it is, but for the idle loop's.
LEMMA StayShape ==
  ASSUME QueueInv, UNCHANGED <<pc, on, ret, cond>> \/ leave_hlt, child' = child
  PROVE  /\ ShapeOK' /\ \A t \in Thread \ {running} : pc'[t] = pc[t] /\ on'[t] = on[t]
         /\ pc'[running] = IF leave_hlt /\ pc[running] = "halt" THEN "idle" ELSE pc[running]
  <1>1. CASE UNCHANGED <<pc, on, ret, cond>> /\ ~leave_hlt
    BY <1>1, Zenon DEF QueueInv, ShapeOK
  <1>2. CASE leave_hlt
    <2>1. /\ \A t \in Thread \ {running} : pc'[t] = pc[t]
          /\ pc'[running] = IF pc[running] = "halt" THEN "idle" ELSE pc[running]
          /\ on' = on /\ ret' = ret
      BY <1>2, Zenon DEF leave_hlt, QueueInv, TypeInv, TypeOK, ThreadsTypeOK
    <2>2. ASSUME NEW t \in Thread  PROVE ShapeAt(t, pc'[t], on[t], ret[t], child[t])
      <3>1. pc'[t] = pc[t] \/ (pc[t] = "halt" /\ pc'[t] = "idle")
        BY <2>1, Zenon
      <3> QED  BY <3>1, Zenon DEF QueueInv, ShapeOK, ShapeAt
    <2> QED  BY <1>2, <2>1, <2>2, Zenon DEF ShapeOK
  <1> QED  BY <1>1, <1>2, Zenon

\* thread_yield, called or on the way out of a timer interrupt.
LEMMA YieldStep ==
  ASSUME WakeInv, TypeInv', RunQueueOK', Keeps(Blocked, Free), idle_thread' = idle_thread,
         UNCHANGED <<pc, on, ret, cond>> \/ leave_hlt, child' = child, UNCHANGED <<value, waiters>>,
         pc[running] \notin {"start", "down"}
  PROVE  WakeInv'
  <1> USE DEF WakeInv
  <1>1. /\ ShapeOK' /\ pc'[running] \notin {"start", "down"}
        /\ \A t \in Thread \ {running} : pc'[t] = pc[t] /\ on'[t] = on[t]
    BY StayShape, Zenon
  <1>2. Keeps((Blocked \cup {}) \ {}, Free \cup {})
    BY Zenon DEF Keeps
  <1>3. Step({}, {}, {})
    BY <1>1, <1>2, Zenon DEF Step, QueueInv, WaitListsOK
  <1> QED  BY <1>1, <1>3, SwitchQueue, Zenon

LEMMA CallQueue ==
  ASSUME Counting, WakeInv, TypeInv', Call
  PROVE  WakeInv'
  <1> USE DEF WakeInv, At, tidVars, semaVars
  <1>0. /\ pc[running] = "run"
    BY Zenon DEF Call, SemaDown, SemaTryDown, SemaUp, LockAcquire, LockTryAcquire, LockRelease,
           CondWait, CondSignal, CondBroadcast, ThreadCreate, ThreadExit, ThreadYield,
           TimerSleep, clear_holder
  <1>1. /\ running \in Thread /\ running # Idle /\ child[running] = NULL
        /\ value \in [Semaphore -> Nat] /\ waiters \in [Semaphore -> Seq(Thread)]
    BY <1>0, RunningShape, Zenon DEF ShapeAt, QueueInv, TypeInv, TypeOK
  <1>2. \A o, r : r = "run" => ShapeAt(running, "own", o, r, child[running])
                           /\ ShapeAt(running, "up", o, r, child[running])
                           /\ ShapeAt(running, "bcast", o, r, child[running])
                           /\ ShapeAt(running, "sleep", o, r, child[running])
                           /\ ShapeAt(running, "run", o, r, child[running])
    BY <1>1 DEF ShapeAt
  <1>3. \A s \in Semaphore : value[s] <= value[s]
    BY <1>1
  <1>4. ASSUME NEW s \in Sema, SemaDown(s)  PROVE WakeInv'
    BY <1>0, <1>1, <1>4, RunningShape, DownQueue, Zenon DEF SemaDown
  <1>5. ASSUME NEW s \in Sema, SemaTryDown(s)  PROVE WakeInv'
    <2>1. \A x \in Semaphore : value'[x] <= value[x]
      <3>1. s \in Semaphore /\ value[s] \in Nat /\ value[s] > 0
        BY <1>1, <1>5, RunningShape, Zenon DEF SemaTryDown
      <3>2. \A x \in Semaphore : value'[x] = IF x = s THEN value[x] - 1 ELSE value[x]
        BY <1>1, <1>5, <3>1, Zenon DEF SemaTryDown
      <3>3. \A x \in Semaphore : value[x] \in Nat
        BY <1>1, Zenon
      <3> QED  BY <3>2, <3>3
    <2>2. Goto("run", on[running], ret[running], cond[running])
      BY <1>0, <1>5, <1>1, Zenon DEF Goto, SemaTryDown, QueueInv, TypeInv, TypeOK
    <2>3. ShapeAt(running, "run", on[running], ret[running], child[running])
      BY <1>0, RunningShape, Zenon
    <2> QED  BY <1>0, <1>5, <2>1, <2>2, <2>3, MoveQueue, Zenon DEF SemaTryDown
  <1>6. ASSUME NEW s \in Sema, SemaUp(s)  PROVE WakeInv'
    <2>1. /\ ShapeOK' /\ pc'[running] = "run"
          /\ \A t \in Thread \ {running} : pc'[t] = pc[t] /\ on'[t] = on[t]
      BY <1>0, <1>6, StayShape, Zenon DEF SemaUp
    <2> QED  BY <1>0, <1>6, <2>1, RunningShape, UpQueue, Zenon DEF SemaUp
  <1>7. ASSUME NEW l \in Lock, LockAcquire(l)  PROVE WakeInv'
    BY <1>0, <1>1, <1>7, RunningShape, DownQueue, Zenon DEF LockAcquire
  <1>8. ASSUME NEW l \in Lock, LockTryAcquire(l)  PROVE WakeInv'
    <2>1. \A x \in Semaphore : value'[x] <= value[x]
      <3>1. l \in Semaphore /\ value[l] \in Nat /\ value[l] > 0
        BY <1>1, <1>8, RunningShape, Zenon DEF LockTryAcquire
      <3>2. \A x \in Semaphore : value'[x] = IF x = l THEN value[x] - 1 ELSE value[x]
        BY <1>1, <1>8, <3>1, Zenon DEF LockTryAcquire
      <3>3. \A x \in Semaphore : value[x] \in Nat
        BY <1>1, Zenon
      <3> QED  BY <3>2, <3>3
    <2> QED  BY <1>0, <1>2, <1>8, <2>1, MoveQueue, Zenon DEF LockTryAcquire
  <1>9. ASSUME NEW l \in Lock, LockRelease(l)  PROVE WakeInv'
    BY <1>0, <1>2, <1>3, <1>9, MoveQueue, Zenon DEF LockRelease, clear_holder
  <1>10. ASSUME NEW c \in Cond, CondWait(c)  PROVE WakeInv'
    <2>1. waiters[running] = <<>>
      <3>1. running \in Semaphore /\ waiters[running] \in Seq(Thread)
        BY <1>1, RunningShape, Zenon
      <3>2. ASSUME NEW t \in Range(waiters[running])  PROVE FALSE
        <4>1. t \in Thread /\ pc[t] = "down" /\ on[t] = running
          BY <3>1 DEF QueueInv, WaitListsOK, Range
        <4> QED  BY <1>0, <1>1, <4>1, Zenon DEF QueueInv, ShapeOK, ShapeAt
      <3> QED  BY <3>1, <3>2, HeadInRange, Zenon
    <2>2. waiters' = waiters
      BY <1>1, <1>10, <2>1, Zenon DEF CondWait
    <2>3. \A x \in Semaphore : value'[x] <= value[x]
      <3>1. \A x \in Semaphore : value'[x] = IF x = running THEN 0 ELSE value[x]
        BY <1>1, <1>10, Zenon DEF CondWait
      <3> QED  BY <1>1, <3>1
    <2>4. ShapeAt(running, "release", CondLock[c], "wait", child[running])
      BY <1>1, SynchAssumption, Zenon DEF ShapeAt
    <2> QED  BY <1>0, <1>10, <2>2, <2>3, <2>4, MoveQueue, Zenon DEF CondWait
  <1>11. ASSUME NEW c \in Cond, CondSignal(c)  PROVE WakeInv'
    BY <1>0, <1>2, <1>3, <1>11, MoveQueue, Zenon DEF CondSignal, cond_signal
  <1>12. ASSUME NEW c \in Cond, CondBroadcast(c)  PROVE WakeInv'
    BY <1>0, <1>2, <1>3, <1>12, MoveQueue, Zenon DEF CondBroadcast
  <1>13. ASSUME NEW t \in Thread, ThreadCreate(t)  PROVE WakeInv'
    BY <1>13, CreateQueue, Zenon
  <1>14. ASSUME ThreadExit  PROVE WakeInv'
    <2> DEFINE gone == {running} \ {Main}
    <2>1. /\ ShapeOK' /\ pc'[running] = "run"
          /\ \A t \in Thread \ {running} : pc'[t] = pc[t] /\ on'[t] = on[t]
      BY <1>0, <1>14, StayShape, Zenon DEF ThreadExit
    <2>2. ready_list # <<>> \/ idle_thread # NULL
      <3>1. idle_thread = NULL => Idle \in Range(ready_list)
        BY <1>0, Booted, Zenon DEF QueueInv
      <3> QED  BY <3>1, EmptyList, Zenon
    <2>3. /\ RunQueueOK' /\ Keeps(Blocked \ {NULL}, Free \cup gone) /\ idle_thread' = idle_thread
      BY <1>1, <1>14, <2>2, RunningShape, ExitQueue, Zenon DEF ThreadExit, thread_exit, schedule
    <2>4. Blocked \ {NULL} = (Blocked \cup {}) \ {}
      BY RunningShape, Zenon DEF Blocked
    <2>5. Step({}, {}, gone)
      BY <1>0, <1>14, <2>1, <2>3, <2>4, Zenon DEF Step, ThreadExit, QueueInv, WaitListsOK
    <2> HIDE DEF gone
    <2> QED  BY <1>0, <1>14, <2>1, <2>3, <2>5, SwitchQueue, Zenon DEF ThreadExit
  <1>15. ASSUME ThreadYield  PROVE WakeInv'
    <2>1. RunQueueOK' /\ Keeps(Blocked, Free) /\ idle_thread' = idle_thread
      BY <1>15, RunningShape, YieldQueue, Zenon DEF ThreadYield, thread_yield, schedule
    <2> QED  BY <1>0, <1>15, <2>1, YieldStep, Zenon DEF ThreadYield
  <1>16. ASSUME NEW n \in 1 .. MaxSleep, TimerSleep(n)  PROVE WakeInv'
    BY <1>0, <1>2, <1>3, <1>16, MoveQueue, Zenon DEF TimerSleep
  <1> QED  BY <1>4, <1>5, <1>6, <1>7, <1>8, <1>9, <1>10, <1>11, <1>12, <1>13, <1>14, <1>15, <1>16, Zenon
           DEF Call

LEMMA ContinueQueue ==
  ASSUME Counting, WakeInv, TypeInv', Continue
  PROVE  WakeInv'
  <1> USE DEF WakeInv, At, tidVars, semaVars
  <1>1. /\ running \in Thread /\ NULL \notin Thread
        /\ value \in [Semaphore -> Nat] /\ waiters \in [Semaphore -> Seq(Thread)]
    BY RunningShape, Zenon DEF QueueInv, TypeInv, TypeOK
  <1>2. \A s \in Semaphore : value[s] <= value[s]
    BY <1>1
  <1>3. ASSUME SemaDownLoop  PROVE WakeInv'
    <2>1. /\ on[running] \in Semaphore /\ ret[running] \in {"run", "tid_read"} /\ running # Idle
          /\ on[running] \in Thread => on[running] = running
          /\ on[running] \notin Lock => ret[running] = "run"
          /\ child[running] # NULL <=> ret[running] = "tid_read"
      BY <1>3, RunningShape, Zenon DEF SemaDownLoop, ShapeAt, ControlAt
    <2> QED  BY <1>3, <2>1, DownQueue, Zenon DEF SemaDownLoop
  <1>4. ASSUME LockAcquireCall  PROVE WakeInv'
    <2>1. /\ on[running] \in Lock /\ ret[running] \in {"run", "tid_read"} /\ running # Idle
          /\ child[running] # NULL <=> ret[running] = "tid_read"
      BY <1>4, RunningShape, Zenon DEF LockAcquireCall, ShapeAt, ControlAt
    <2>2. on[running] \in Semaphore /\ on[running] \notin Thread
      BY <2>1, RunningShape, Zenon
    <2> QED  BY <1>4, <2>1, <2>2, DownQueue, Zenon DEF LockAcquireCall
  <1>5. ASSUME SetHolder  PROVE WakeInv'
    <2>1. /\ ret[running] \in {"run", "tid_read"} /\ running # Idle
          /\ child[running] # NULL <=> ret[running] = "tid_read"
      BY <1>5, RunningShape, Zenon DEF SetHolder, ShapeAt, ControlAt
    <2>2. ShapeAt(running, ret[running], NULL, "run", child[running])
      BY <2>1, Zenon DEF ShapeAt
    <2> QED  BY <1>2, <1>5, <2>1, <2>2, MoveQueue, Zenon DEF SetHolder
  <1>6. ASSUME LockReleaseCall  PROVE WakeInv'
    <2>1. ShapeAt(running, "up", on[running], ret[running], child[running])
      BY <1>6, RunningShape, Zenon DEF LockReleaseCall, ShapeAt, ControlAt
    <2>2. /\ Goto("up", on[running], ret[running], cond[running]) /\ UNCHANGED <<threadVars, value, waiters>>
          /\ child' = child /\ pc[running] = "release"
      BY <1>6, Zenon DEF LockReleaseCall, clear_holder
    <2> QED  BY <1>2, <2>1, <2>2, MoveQueue
  <1>7. ASSUME SemaUpCall  PROVE WakeInv'
    <2>1. /\ on[running] \in Semaphore /\ running # Idle /\ pc[running] = "up"
          /\ ret[running] \in {"run", "tid_read", "created", "wait", "bcast"}
          /\ child[running] # NULL <=> ret[running] \in {"tid_read", "created"}
      BY <1>7, RunningShape, Zenon DEF SemaUpCall, ShapeAt, ControlAt
    <2>2. ShapeAt(running, ret[running], NULL, "run", child[running])
      BY <2>1, Zenon DEF ShapeAt
    <2>3. /\ ShapeOK' /\ pc'[running] = ret[running]
          /\ \A t \in Thread \ {running} : pc'[t] = pc[t] /\ on'[t] = on[t]
      BY <1>7, <2>2, GotoShape, Zenon DEF SemaUpCall
    <2> QED  BY <1>7, <2>1, <2>3, UpQueue, Zenon DEF SemaUpCall
  <1>8. ASSUME CondWaitDown  PROVE WakeInv'
    <2>1. running # Idle /\ child[running] = NULL /\ running \in Semaphore /\ running \notin Lock
      BY <1>8, RunningShape, Zenon DEF CondWaitDown, ShapeAt
    <2> QED  BY <1>8, <2>1, DownQueue, Zenon DEF CondWaitDown
  <1>9. ASSUME CondBroadcastLoop  PROVE WakeInv'
    <2>1. running # Idle /\ child[running] = NULL /\ pc[running] = "bcast"
      BY <1>9, RunningShape, Zenon DEF CondBroadcastLoop, ShapeAt
    <2>2. /\ \A o : ShapeAt(running, "up", o, "bcast", child[running])
          /\ ShapeAt(running, "run", NULL, "run", child[running])
      BY <2>1, Zenon DEF ShapeAt
    <2> DEFINE c == cond[running]
    <2>3. CASE Goto("up", Head(cond_waiters[c]), "bcast", c)
      BY <1>2, <1>9, <2>1, <2>2, <2>3, MoveQueue, SMTT(30) DEF CondBroadcastLoop
    <2>4. CASE Goto("run", NULL, "run", NULL)
      BY <1>2, <1>9, <2>1, <2>2, <2>4, MoveQueue DEF CondBroadcastLoop
    <2> QED  BY <1>9, <2>3, <2>4, Zenon DEF CondBroadcastLoop, cond_signal
  <1>10. ASSUME TidRead  PROVE WakeInv'
    <2>1. ShapeAt(running, "tid_write", NULL, "run", child[running])
      BY <1>10, RunningShape, Zenon DEF TidRead, ShapeAt
    <2> QED  BY <1>2, <1>10, <2>1, MoveQueue, Zenon DEF TidRead
  <1>11. ASSUME TidWrite  PROVE WakeInv'
    <2>1. ShapeAt(running, "release", TidLock, "created", child[running])
      BY <1>11, RunningShape, Zenon DEF TidWrite, ShapeAt
    <2> QED  BY <1>2, <1>11, <2>1, MoveQueue, Zenon DEF TidWrite
  <1>12. ASSUME ThreadCreated \/ ThreadStart \/ IdleInit  PROVE WakeInv'
    BY <1>12, CreatedQueue, StartQueue, IdleInitQueue, Zenon
  <1>13. ASSUME ThreadStartWait  PROVE WakeInv'
    <2>1. running # Idle /\ child[running] = NULL
      BY <1>13, RunningShape, Zenon DEF ThreadStartWait, ShapeAt
    <2> QED  BY <1>13, <2>1, RunningShape, DownQueue, Zenon DEF ThreadStartWait
  <1>14. ASSUME IdleUp  PROVE WakeInv'
    <2>1. ShapeAt(running, "idle", NULL, "run", child[running])
      BY <1>14, RunningShape, Zenon DEF IdleUp, ShapeAt
    <2>2. /\ ShapeOK' /\ pc'[running] = "idle"
          /\ \A t \in Thread \ {running} : pc'[t] = pc[t] /\ on'[t] = on[t]
      BY <1>14, <2>1, GotoShape, Zenon DEF IdleUp
    <2> QED  BY <1>14, <2>2, RunningShape, UpQueue, Zenon DEF IdleUp
  <1>15. ASSUME IdleBlock  PROVE WakeInv'
    <2>1. ShapeAt(running, "halt", NULL, "run", child[running]) /\ running = Idle /\ running = idle_thread
      BY <1>15, RunningShape, Zenon DEF IdleBlock, ShapeAt, QueueInv, TypeInv, BootOK
    <2>2. /\ ShapeOK' /\ pc'[running] = "halt"
          /\ \A t \in Thread \ {running} : pc'[t] = pc[t] /\ on'[t] = on[t]
      BY <1>15, <2>1, GotoShape, Zenon DEF IdleBlock
    <2>3. RunQueueOK' /\ Keeps(Blocked \cup {running}, Free) /\ idle_thread' = idle_thread
      BY <1>1, <1>15, <2>1, RunningShape, BlockQueue, Zenon DEF IdleBlock, thread_block, schedule
    <2>4. Keeps((Blocked \cup {running}) \ {}, Free \cup {})
      BY <2>3, Zenon DEF Keeps
    <2>5. Step({}, {running}, {})
      BY <1>15, <2>1, <2>2, <2>3, <2>4, Zenon DEF Step, IdleBlock, QueueInv, WaitListsOK
    <2> QED  BY <1>15, <2>2, <2>3, <2>5, SwitchQueue, Zenon DEF IdleBlock
  <1>16. ASSUME TimerSleepLoop  PROVE WakeInv'
    <2>1. CASE Goto("run", NULL, "run", NULL) /\ UNCHANGED threadVars
      <3>1. ShapeAt(running, "run", NULL, "run", child[running])
        BY <1>16, RunningShape, Zenon DEF TimerSleepLoop, ShapeAt
      <3> QED  BY <1>2, <1>16, <2>1, <3>1, MoveQueue, Zenon DEF TimerSleepLoop
    <2>2. CASE thread_yield /\ UNCHANGED <<pc, on, ret, cond>>
      <3>1. RunQueueOK' /\ Keeps(Blocked, Free) /\ idle_thread' = idle_thread
        BY <2>2, RunningShape, YieldQueue, Zenon DEF thread_yield, schedule
      <3> QED  BY <1>16, <2>2, <3>1, YieldStep, Zenon DEF TimerSleepLoop
    <2> QED  BY <1>16, <2>1, <2>2, Zenon DEF TimerSleepLoop
  <1> QED  BY <1>3, <1>4, <1>5, <1>6, <1>7, <1>8, <1>9, <1>10, <1>11, <1>12, <1>13, <1>14, <1>15,
              <1>16, Zenon DEF Continue

LEMMA InterruptQueue ==
  ASSUME Counting, WakeInv, TypeInv', Interrupt
  PROVE  WakeInv'
  <1> USE DEF WakeInv, InterruptsOn, tidVars, semaVars
  <1>1. CASE TimerInterrupt
    <2>1. RunQueueOK' /\ Keeps(Blocked, Free) /\ idle_thread' = idle_thread
      BY <1>1, RunningShape, TickQueue, Zenon DEF TimerInterrupt, thread_tick, thread_yield, schedule
    <2> QED  BY <1>1, <2>1, YieldStep, Zenon DEF TimerInterrupt
  <1>2. ASSUME NEW s \in IntrSema, DeviceInterrupt(s)  PROVE WakeInv'
    <2>1. /\ ShapeOK' /\ pc'[running] \notin {"start", "down"}
          /\ \A t \in Thread \ {running} : pc'[t] = pc[t] /\ on'[t] = on[t]
      BY <1>2, StayShape, Zenon DEF DeviceInterrupt
    <2>2. s \in Semaphore
      BY RunningShape, SynchAssumption, Zenon
    <2> QED  BY <1>2, <2>1, <2>2, UpQueue, Zenon DEF DeviceInterrupt
  <1> QED  BY <1>1, <1>2, Zenon DEF Interrupt

LEMMA InitQueue == Init => WakeInv
  <1> SUFFICES ASSUME Init  PROVE WakeInv
    BY Zenon
  <1> USE DEF Init, ThreadInit
  <1>1. RunQueueOK
    BY EmptyList, ThreadAssumption, Zenon DEF RunQueueOK
  <1>2. WaitListsOK /\ NoLostWakeup
    BY EmptyList, Zenon DEF WaitListsOK, NoLostWakeup
  <1>3. ShapeOK
    BY ThreadAssumption, Zenon DEF ShapeOK, ShapeAt
  <1>4. BootIdle /\ ChildOK /\ FreeOK /\ Findable
    BY ThreadAssumption, Zenon DEF BootIdle, ChildOK, FreeOK, Findable
  <1> QED  BY <1>1, <1>2, <1>3, <1>4, InitTypeInv, Zenon DEF WakeInv, QueueInv

LEMMA WakeStep ==
  ASSUME Counting  PROVE WakeInv /\ TypeInv' /\ [Next]_vars => WakeInv'
  <1> SUFFICES ASSUME WakeInv, TypeInv', [Next]_vars  PROVE WakeInv'
    BY Zenon
  <1>1. CASE UNCHANGED vars
    <2> USE <1>1 DEF vars, threadVars, semaVars, tidVars, WakeInv, QueueInv
    <2>1. RunQueueOK' /\ WaitListsOK' /\ ShapeOK' /\ BootIdle'
      BY DEF RunQueueOK, WaitListsOK, ShapeOK, BootIdle
    <2>2. ChildOK' /\ FreeOK' /\ Findable' /\ NoLostWakeup'
      BY Zenon DEF ChildOK, FreeOK, Findable, NoLostWakeup, Woken
    <2> QED  BY <2>1, <2>2, Zenon
  <1> QED  BY <1>1, CallQueue, ContinueQueue, InterruptQueue, Zenon DEF Next

=============================================================================
