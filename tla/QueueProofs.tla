---------------------------- MODULE QueueProofs ----------------------------
(***************************************************************************)
(* Proofs about the queues of Synch, for any number of threads,            *)
(* semaphores, locks and condition variables: no thread is lost, no        *)
(* wake-up is lost, no signal is lost, and a lock with its condition       *)
(* variables implements Monitor.                                           *)
(***************************************************************************)
EXTENDS SynchProofs, SynchMonitor

-----------------------------------------------------------------------------
(* The inductive invariant behind NoLostSignal. *)

Listed(t) == {c \in Cond : t \in Range(cond_waiters[c])}

SignalOK(t) ==
  IF InCondWait(t)
    THEN \/ Listed(t) = {cond[t]} /\ Signallers(t) = {} /\ value[t] = 0
         \/ Listed(t) = {} /\ (\E u \in Thread : Signallers(t) = {u}) /\ value[t] = 0
         \/ Listed(t) = {} /\ Signallers(t) = {} /\ value[t] = 1
    ELSE Listed(t) = {} /\ Signallers(t) = {} /\ value[t] = 0

SignalInv ==
  /\ \A c \in Cond : IsInjective(cond_waiters[c])
  /\ \A t \in Thread : SignalOK(t)

-----------------------------------------------------------------------------
(* No signal is lost. *)

\* Nothing that concerns the signals to t changes.
LEMMA SameSignals ==
  ASSUME NEW t \in Thread, SignalOK(t), InCondWait(t)' <=> InCondWait(t),
         InCondWait(t) => cond'[t] = cond[t],
         Listed(t)' = Listed(t), Signallers(t)' = Signallers(t), value'[t] = value[t]
  PROVE  SignalOK(t)'
  BY Zenon DEF SignalOK

\* Only the running thread moves in a step.
Alone ==
  \A t \in Thread \ {running} : pc'[t] = pc[t] /\ on'[t] = on[t] /\ ret'[t] = ret[t] /\ cond'[t] = cond[t]

LEMMA GotoAlone ==
  ASSUME TypeInv, NEW p, NEW o, NEW r, NEW c, Goto(p, o, r, c)
  PROVE  /\ Alone /\ running \in Thread
         /\ pc'[running] = p /\ on'[running] = o /\ ret'[running] = r /\ cond'[running] = c
  BY Zenon DEF Goto, Alone, TypeInv, TypeOK, ThreadsTypeOK

LEMMA AloneWaits ==
  ASSUME Alone, NEW t \in Thread \ {running}
  PROVE  (InCondWait(t)' <=> InCondWait(t)) /\ cond'[t] = cond[t]
  BY Zenon DEF Alone, InCondWait

\* Thread t is in cond_wait at place p with on = o and ret = r.
WaitAt(t, p, o, r) == p = "wait" \/ (p \in {"release", "up"} /\ r = "wait") \/ (p = "down" /\ o = t)

WaitsNow == WaitAt(running, pc[running], on[running], ret[running])
WaitsNext == WaitAt(running, pc'[running], on'[running], ret'[running])

LEMMA RunningWaits ==
  ASSUME NEW t \in Thread, t = running
  PROVE  (InCondWait(t) <=> WaitsNow) /\ (InCondWait(t)' <=> WaitsNext)
  BY Zenon DEF InCondWait, WaitAt, WaitsNow, WaitsNext

\* The running thread is about to up the semaphore of a thread in cond_wait.
Signals == pc[running] = "up" /\ on[running] \in Thread

\* Most steps take no part in any signal.
LEMMA QuietStep ==
  ASSUME SignalInv, TypeInv, Alone, cond_waiters' = cond_waiters,
         \A t \in Thread : value'[t] = value[t],
         ~Signals, ~(pc'[running] = "up" /\ on'[running] \in Thread),
         WaitsNext <=> WaitsNow,
         WaitsNow => cond'[running] = cond[running]
  PROVE  SignalInv'
  <1>1. ASSUME NEW t \in Thread  PROVE SignalOK(t)'
    <2>1. Listed(t)' = Listed(t)
      BY Zenon DEF Listed
    <2>2. Signallers(t)' = Signallers(t)
      <3>1. running \notin Signallers(t) /\ running \notin Signallers(t)'
        BY Zenon DEF Signallers, Signals
      <3>2. Signallers(t)' \ {running} = Signallers(t) \ {running}
        BY Zenon DEF Alone, Signallers
      <3> QED  BY <3>1, <3>2
    <2>3. /\ InCondWait(t)' <=> InCondWait(t)
          /\ InCondWait(t) => cond'[t] = cond[t]
      BY AloneWaits, RunningWaits, Zenon
    <2> QED  BY <2>1, <2>2, <2>3, SameSignals, Zenon DEF SignalInv
  <1> QED  BY <1>1, Zenon DEF SignalInv

\* A move of a thread that is not in cond_wait, to a place that is not either.
LEMMA PlainMove ==
  ASSUME SignalInv, TypeInv, NEW p, NEW o, NEW r, NEW c, Goto(p, o, r, c),
         cond_waiters' = cond_waiters, \A t \in Thread : value'[t] = value[t], ~Signals,
         ~WaitsNow, p # "wait", r # "wait", p \in {"down", "up"} => o \notin Thread
  PROVE  SignalInv'
  <1>1. /\ Alone /\ running \in Thread
        /\ pc'[running] = p /\ on'[running] = o /\ ret'[running] = r
    BY GotoAlone, Zenon
  <1>2. ~WaitsNext
    BY <1>1, Zenon DEF WaitsNext, WaitAt
  <1> QED  BY <1>1, <1>2, QuietStep, Zenon

\* sema_down on the running thread's own semaphore takes the signal; on any
\* other one it has nothing to do with signals.
LEMMA DownSignal ==
  ASSUME WakeInv, SignalInv, NEW s \in Semaphore, NEW r \in {"run", "tid_read"}, NEW c,
         sema_down(s, r, c), cond_waiters' = cond_waiters, pc[running] # "up",
         s \in Thread => s = running /\ WaitsNow /\ c = cond[running],
         s \notin Thread => ~WaitsNow
  PROVE  SignalInv'
  <1>1. /\ running \in Thread /\ TypeInv /\ value \in [Semaphore -> Nat] /\ ~Signals
        /\ Thread \subseteq Semaphore /\ Lock \cap Thread = {} /\ Sema \cap Thread = {}
        /\ IdleStarted \notin Thread
    BY RunningShape, Zenon DEF WakeInv, QueueInv, TypeInv, TypeOK, Signals
  <1>2. CASE s \notin Thread
    <2>1. \A t \in Thread : value'[t] = value[t]
      BY <1>1, <1>2, Zenon DEF sema_down
    <2>2. \/ Goto("down", s, r, c) \/ Goto("own", s, r, c) \/ Goto("run", NULL, "run", NULL)
      BY <1>2, Zenon DEF sema_down, Downed
    <2> QED  BY <1>1, <1>2, <2>1, <2>2, PlainMove, Zenon
  <1>3. CASE s \in Thread /\ value[s] = 0
    <2>1. Goto("down", running, r, cond[running]) /\ value' = value
      BY <1>1, <1>3 DEF sema_down
    <2>2. /\ Alone /\ pc'[running] = "down" /\ on'[running] = running /\ cond'[running] = cond[running]
      BY <1>1, <2>1, GotoAlone, Zenon
    <2>3. WaitsNow /\ WaitsNext
      BY <1>3, <2>2, Zenon DEF WaitsNext, WaitAt
    <2> QED  BY <1>1, <2>1, <2>2, <2>3, QuietStep, Zenon
  <1>4. CASE s \in Thread /\ value[s] # 0
    <2>1. /\ Goto("acquire", CondLock[cond[running]], "run", cond[running])
          /\ value' = [value EXCEPT ![running] = @ - 1]
      BY <1>1, <1>4, Zenon DEF sema_down, Downed
    <2>2. /\ Alone /\ pc'[running] = "acquire" /\ ret'[running] = "run"
      BY <1>1, <2>1, GotoAlone, Zenon
    <2>3. WaitsNow /\ ~WaitsNext
      BY <1>4, <2>2, Zenon DEF WaitsNext, WaitAt
    <2>4. Listed(running) = {} /\ Signallers(running) = {} /\ value[running] = 1
      <3> PICK t \in Thread : t = running
        BY <1>1, Zenon
      <3> QED  BY <1>1, <1>4, <2>3, RunningWaits, Zenon DEF SignalInv, SignalOK
    <2>5. \A t \in Thread : Listed(t)' = Listed(t) /\ Signallers(t)' = Signallers(t)
      BY <2>2, Zenon DEF Listed, Signallers, Alone
    <2>6. value'[running] = 0 /\ \A t \in Thread \ {running} : value'[t] = value[t]
      BY <1>1, <2>1, <2>4
    <2>7. ASSUME NEW t \in Thread, t = running  PROVE SignalOK(t)'
      BY <2>3, <2>4, <2>5, <2>6, <2>7, RunningWaits, Zenon DEF SignalOK
    <2>8. ASSUME NEW t \in Thread \ {running}  PROVE SignalOK(t)'
      BY <2>2, <2>5, <2>6, AloneWaits, SameSignals, Zenon DEF SignalInv
    <2> QED  BY <2>7, <2>8, Zenon DEF SignalInv
  <1> QED  BY <1>2, <1>3, <1>4, Zenon

LEMMA CondWaitSignal ==
  ASSUME WakeInv, SignalInv, NEW c \in Cond, CondWait(c)
  PROVE  SignalInv'
  <1>1. /\ running \in Thread /\ TypeInv /\ ~Signals /\ pc[running] = "run"
        /\ cond_waiters \in [Cond -> Seq(Thread)] /\ value \in [Semaphore -> Nat]
        /\ Thread \subseteq Semaphore
    BY RunningShape, Zenon DEF WakeInv, QueueInv, TypeInv, TypeOK, Signals, CondWait, At
  <1>2. ~WaitsNow
    BY <1>1, Zenon DEF WaitsNow, WaitAt
  <1>3. Listed(running) = {} /\ Signallers(running) = {} /\ value[running] = 0
    <2> PICK t \in Thread : t = running
      BY <1>1, Zenon
    <2> QED  BY <1>2, RunningWaits, Zenon DEF SignalInv, SignalOK
  <1>4. /\ Alone /\ pc'[running] = "release" /\ ret'[running] = "wait" /\ cond'[running] = c
    BY <1>1, GotoAlone, Zenon DEF CondWait
  <1>5. WaitsNext
    BY <1>4, Zenon DEF WaitsNext, WaitAt
  <1>6. \A t \in Thread : value'[t] = value[t]
    BY <1>1, <1>3, Zenon DEF CondWait
  <1>7. \A t \in Thread : Signallers(t)' = Signallers(t)
    BY <1>1, <1>4, Zenon DEF Signallers, Alone
  <1>8. /\ IsInjective(cond_waiters'[c]) /\ Range(cond_waiters'[c]) = Range(cond_waiters[c]) \cup {running}
        /\ \A d \in Cond \ {c} : cond_waiters'[d] = cond_waiters[d]
    <2>1. cond_waiters'[c] = Append(cond_waiters[c], running) /\ cond_waiters[c] \in Seq(Thread)
      BY <1>1, Zenon DEF CondWait
    <2>2. running \notin Range(cond_waiters[c]) /\ IsInjective(cond_waiters[c])
      BY <1>3, Zenon DEF Listed, SignalInv
    <2> QED  BY <1>1, <2>1, <2>2, AppendOnce, AppendRange, SMTT(30) DEF CondWait
  <1>9. ASSUME NEW t \in Thread, t = running  PROVE SignalOK(t)'
    <2>1. Listed(t)' = {c}
      BY <1>3, <1>8, <1>9, Zenon DEF Listed
    <2> QED  BY <1>3, <1>4, <1>5, <1>6, <1>7, <1>9, <2>1, RunningWaits, Zenon DEF SignalOK
  <1>10. ASSUME NEW t \in Thread \ {running}  PROVE SignalOK(t)'
    <2>1. Listed(t)' = Listed(t)
      BY <1>8 DEF Listed
    <2> QED  BY <1>4, <1>6, <1>7, <2>1, AloneWaits, SameSignals, Zenon DEF SignalInv
  <1> QED  BY <1>8, <1>9, <1>10, Zenon DEF SignalInv

\* cond_signal takes the oldest waiter off the list and will up its semaphore.
LEMMA PopSignal ==
  ASSUME WakeInv, SignalInv, NEW c \in Cond, NEW r, NEW k, cond_signal(c, r, k), r # "wait",
         value' = value, pc[running] \in {"run", "bcast"}
  PROVE  SignalInv'
  <1> DEFINE h == Head(cond_waiters[c])
  <1>1. /\ running \in Thread /\ TypeInv /\ cond_waiters \in [Cond -> Seq(Thread)]
    BY RunningShape, Zenon DEF WakeInv, QueueInv, TypeInv, TypeOK
  <1>2. ~WaitsNow
    BY Zenon DEF WaitsNow, WaitAt
  <1>3. /\ Alone /\ pc'[running] = "up" /\ on'[running] = h /\ ret'[running] = r
    BY <1>1, GotoAlone, Zenon DEF cond_signal
  <1>4. /\ IsInjective(cond_waiters'[c]) /\ h \in Range(cond_waiters[c])
        /\ Range(cond_waiters'[c]) = Range(cond_waiters[c]) \ {h}
        /\ \A d \in Cond \ {c} : cond_waiters'[d] = cond_waiters[d]
    <2>1. /\ cond_waiters'[c] = Tail(cond_waiters[c]) /\ cond_waiters[c] \in Seq(Thread)
          /\ cond_waiters[c] # <<>> /\ IsInjective(cond_waiters[c])
      BY <1>1, Zenon DEF cond_signal, SignalInv
    <2> QED  BY <1>1, <2>1, TailOnce, Zenon DEF cond_signal
  <1>5. h \in Thread
    BY <1>1, <1>4 DEF Range
  <1>6. c \in Listed(h)
    BY <1>4, Zenon DEF Listed
  <1>7. InCondWait(h) /\ Listed(h) = {c} /\ Signallers(h) = {} /\ value[h] = 0
    BY <1>5, <1>6, Zenon DEF SignalInv, SignalOK
  <1>8. h # running
    BY <1>1, <1>2, <1>7, RunningWaits, Zenon
  <1> HIDE DEF h
  <1>9. ASSUME NEW t \in Thread, t = h  PROVE SignalOK(t)'
    <2>1. Listed(t)' = {}
      BY <1>4, <1>7, <1>9, Zenon DEF Listed
    <2>2. Signallers(t)' = {running}
      BY <1>1, <1>3, <1>7, <1>9, Zenon DEF Signallers, Alone
    <2>3. InCondWait(t)'
      BY <1>3, <1>7, <1>8, <1>9, AloneWaits, Zenon
    <2> QED  BY <1>1, <1>7, <1>9, <2>1, <2>2, <2>3, Zenon DEF SignalOK
  <1>10. ASSUME NEW t \in Thread, t # h  PROVE SignalOK(t)'
    <2>1. Listed(t)' = Listed(t)
      BY <1>4, <1>10, Zenon DEF Listed
    <2>2. Signallers(t)' = Signallers(t)
      BY <1>3, <1>10, Zenon DEF Signallers, Alone
    <2>3. /\ InCondWait(t)' <=> InCondWait(t)
          /\ InCondWait(t) => cond'[t] = cond[t]
      <3>1. ~WaitsNext
        BY <1>3, Zenon DEF WaitsNext, WaitAt
      <3> QED  BY <1>2, <1>3, <3>1, RunningWaits, AloneWaits, Zenon
    <2> QED  BY <2>1, <2>2, <2>3, SameSignals, Zenon DEF SignalInv
  <1> QED  BY <1>4, <1>9, <1>10, Zenon DEF SignalInv

\* The sema_up of cond_signal: the semaphore is still there and is upped once.
LEMMA UpSignal ==
  ASSUME WakeInv, SignalInv, SemaUpCall
  PROVE  SignalInv'
  <1> DEFINE x == on[running]
  <1>1. /\ running \in Thread /\ TypeInv /\ x \in Semaphore /\ value \in [Semaphore -> Nat]
        /\ pc[running] = "up" /\ ret[running] \in {"run", "tid_read", "created", "wait", "bcast"}
        /\ ret[running] = "wait" => x \in Lock
        /\ Thread \subseteq Semaphore /\ Lock \cap Thread = {}
    BY RunningShape, Zenon DEF WakeInv, QueueInv, TypeInv, TypeOK, SemaUpCall, At, ControlAt, ShapeAt
  <1>2. /\ Alone /\ pc'[running] = ret[running] /\ on'[running] = NULL /\ ret'[running] = "run"
        /\ cond'[running] = cond[running] /\ cond_waiters' = cond_waiters
        /\ value' = [value EXCEPT ![x] = @ + 1]
    BY <1>1, GotoAlone, Zenon DEF SemaUpCall, sema_up
  <1>3. WaitsNow <=> WaitsNext
    BY <1>1, <1>2, Zenon DEF WaitsNow, WaitsNext, WaitAt
  <1> HIDE DEF x
  <1>4. CASE x \notin Thread
    <2>1. \A t \in Thread : value'[t] = value[t]
      BY <1>1, <1>2, <1>4, Zenon
    <2>2. ~Signals /\ pc'[running] # "up"
      BY <1>1, <1>2, <1>4, Zenon DEF Signals, x
    <2> QED  BY <1>1, <1>2, <1>3, <2>1, <2>2, QuietStep, Zenon
  <1>5. CASE x \in Thread
    <2>1. running \in Signallers(x)
      BY <1>1, <1>5, Zenon DEF Signallers, x
    <2>2. InCondWait(x) /\ Listed(x) = {} /\ Signallers(x) = {running} /\ value[x] = 0
      BY <1>5, <2>1 DEF SignalInv, SignalOK
    <2>3. ~WaitsNow
      BY <1>1, <1>5, Zenon DEF WaitsNow, WaitAt
    <2>4. x # running
      BY <1>1, <2>2, <2>3, RunningWaits, Zenon
    <2>5. value'[x] = 1 /\ \A t \in Thread \ {x} : value'[t] = value[t]
      BY <1>1, <1>2, <1>5, <2>2
    <2>6. \A t \in Thread : Signallers(t)' = Signallers(t) \ {running}
      BY <1>1, <1>2, Zenon DEF Signallers, Alone
    <2>7. \A t \in Thread \ {x} : running \notin Signallers(t)
      BY Zenon DEF Signallers, x
    <2>8. ASSUME NEW t \in Thread, t = x  PROVE SignalOK(t)'
      <3>1. InCondWait(t)' /\ Listed(t)' = {} /\ Signallers(t)' = {} /\ value'[t] = 1
        BY <1>2, <2>2, <2>4, <2>5, <2>6, <2>8, AloneWaits, Zenon DEF Listed
      <3> QED  BY <3>1, Zenon DEF SignalOK
    <2>9. ASSUME NEW t \in Thread, t # x  PROVE SignalOK(t)'
      <3>1. Listed(t)' = Listed(t) /\ Signallers(t)' = Signallers(t) /\ value'[t] = value[t]
        BY <1>2, <2>5, <2>6, <2>7, <2>9, Zenon DEF Listed
      <3>2. /\ InCondWait(t)' <=> InCondWait(t)
            /\ InCondWait(t) => cond'[t] = cond[t]
        BY <1>2, <1>3, <2>3, RunningWaits, AloneWaits, Zenon
      <3> QED  BY <3>1, <3>2, SameSignals, Zenon DEF SignalInv
    <2> QED  BY <1>2, <2>8, <2>9, Zenon DEF SignalInv
  <1> QED  BY <1>4, <1>5, Zenon

\* A step that moves no thread, but for the idle loop's.
LEMMA StaySignal ==
  ASSUME WakeInv, SignalInv, UNCHANGED <<pc, on, ret, cond>> \/ leave_hlt,
         cond_waiters' = cond_waiters, \A t \in Thread : value'[t] = value[t]
  PROVE  SignalInv'
  <1>1. running \in Thread /\ TypeInv /\ pc \in [Thread -> PC]
    BY RunningShape, Zenon DEF WakeInv, QueueInv, TypeInv, TypeOK
  <1>2. /\ \A t \in Thread \ {running} : pc'[t] = pc[t]
        /\ pc'[running] = pc[running] \/ (pc[running] = "halt" /\ pc'[running] = "idle")
        /\ on' = on /\ ret' = ret /\ cond' = cond
    BY <1>1, Zenon DEF leave_hlt
  <1>3. ASSUME NEW t \in Thread  PROVE SignalOK(t)'
    <2>1. pc'[t] = pc[t] \/ (pc[t] = "halt" /\ pc'[t] = "idle")
      BY <1>2, Zenon
    <2>2. InCondWait(t)' <=> InCondWait(t)
      BY <1>2, <2>1, Zenon DEF InCondWait
    <2>3. Listed(t)' = Listed(t) /\ Signallers(t)' = Signallers(t)
      BY <1>2, Zenon DEF Listed, Signallers
    <2> QED  BY <1>2, <2>2, <2>3, SameSignals, Zenon DEF SignalInv
  <1> QED  BY <1>3, Zenon DEF SignalInv

\* The same for an interrupt handler's or a client's sema_up.
LEMMA SharedSema ==
  ASSUME WakeInv, NEW s \in Sema, NEW v, value' = [value EXCEPT ![s] = v]
  PROVE  \A t \in Thread : value'[t] = value[t]
  BY RunningShape, Zenon DEF WakeInv, QueueInv, TypeInv, TypeOK

LEMMA CallSignal ==
  ASSUME WakeInv, SignalInv, Call
  PROVE  SignalInv'
  <1> USE DEF At, semaVars
  <1>1. /\ pc[running] = "run" /\ running \in Thread /\ TypeInv /\ NULL \notin Thread
        /\ Sema \cup Lock \cup Thread \subseteq Semaphore /\ Sema \cap Thread = {} /\ Lock \cap Thread = {}
        /\ TidLock \in Lock /\ value \in [Semaphore -> Nat]
    BY RunningShape, SynchAssumption, Zenon
    DEF WakeInv, QueueInv, TypeInv, TypeOK, Call, SemaDown, SemaTryDown, SemaUp, LockAcquire,
        LockTryAcquire, LockRelease, clear_holder, CondWait, CondSignal, CondBroadcast, ThreadCreate,
        ThreadExit, ThreadYield, TimerSleep
  <1>2. ~WaitsNow /\ ~Signals
    BY <1>1, Zenon DEF WaitsNow, WaitAt, Signals
  <1>3. ASSUME NEW s \in Sema, SemaDown(s)  PROVE SignalInv'
    BY <1>1, <1>2, <1>3, DownSignal, Zenon DEF SemaDown
  <1>4. ASSUME NEW s \in Sema, SemaTryDown(s)  PROVE SignalInv'
    <2>1. \A t \in Thread : value'[t] = value[t]
      BY <1>4, SharedSema, Zenon DEF SemaTryDown
    <2> QED  BY <1>2, <1>4, <2>1, StaySignal, Zenon DEF SemaTryDown
  <1>5. ASSUME NEW s \in Sema, SemaUp(s)  PROVE SignalInv'
    <2>1. \A t \in Thread : value'[t] = value[t]
      BY <1>5, SharedSema, Zenon DEF SemaUp, sema_up
    <2> QED  BY <1>2, <1>5, <2>1, StaySignal, Zenon DEF SemaUp
  <1>6. ASSUME NEW l \in Lock, LockAcquire(l)  PROVE SignalInv'
    BY <1>1, <1>2, <1>6, DownSignal, Zenon DEF LockAcquire
  <1>7. ASSUME NEW l \in Lock, LockTryAcquire(l)  PROVE SignalInv'
    <2>1. \A t \in Thread : value'[t] = value[t]
      BY <1>1, <1>7, Zenon DEF LockTryAcquire
    <2> QED  BY <1>1, <1>2, <1>7, <2>1, PlainMove, Zenon DEF LockTryAcquire
  <1>8. ASSUME NEW l \in Lock, LockRelease(l)  PROVE SignalInv'
    BY <1>1, <1>2, <1>8, PlainMove, Zenon DEF LockRelease, clear_holder
  <1>9. ASSUME NEW c \in Cond, CondWait(c) \/ CondSignal(c) \/ CondBroadcast(c)  PROVE SignalInv'
    <2>1. CASE CondWait(c)
      BY <2>1, CondWaitSignal, Zenon
    <2>2. CASE CondSignal(c)
      BY <2>2, PopSignal, Zenon DEF CondSignal
    <2>3. CASE CondBroadcast(c)
      BY <1>1, <1>2, <2>3, PlainMove, Zenon DEF CondBroadcast
    <2> QED  BY <1>9, <2>1, <2>2, <2>3, Zenon
  <1>10. ASSUME NEW t \in Thread, ThreadCreate(t)  PROVE SignalInv'
    BY <1>1, <1>2, <1>10, PlainMove, Zenon DEF ThreadCreate
  <1>11. ASSUME ThreadExit \/ ThreadYield  PROVE SignalInv'
    BY <1>2, <1>11, StaySignal, Zenon DEF ThreadExit, ThreadYield
  <1>12. ASSUME NEW n \in 1 .. MaxSleep, TimerSleep(n)  PROVE SignalInv'
    BY <1>1, <1>2, <1>12, PlainMove, Zenon DEF TimerSleep
  <1> QED  BY <1>3, <1>4, <1>5, <1>6, <1>7, <1>8, <1>9, <1>10, <1>11, <1>12, Zenon DEF Call

LEMMA ContinueSignal ==
  ASSUME WakeInv, SignalInv, Continue
  PROVE  SignalInv'
  <1> USE DEF At, semaVars, tidVars
  <1>1. /\ running \in Thread /\ TypeInv /\ NULL \notin Thread /\ IdleStarted \notin Thread
        /\ IdleStarted \in Semaphore /\ Lock \cap Thread = {} /\ Lock \cup Thread \subseteq Semaphore
        /\ TidLock \in Lock /\ value \in [Semaphore -> Nat]
        /\ ShapeAt(running, pc[running], on[running], ret[running], child[running])
        /\ ControlAt(pc[running], on[running], ret[running], cond[running], child[running])
    BY RunningShape, SynchAssumption, Zenon DEF WakeInv, QueueInv, TypeInv, TypeOK
  <1>2. CASE SemaDownLoop
    <2>1. /\ on[running] \in Semaphore /\ ret[running] \in {"run", "tid_read"} /\ pc[running] = "down"
          /\ on[running] \in Thread => on[running] = running
          /\ WaitsNow <=> on[running] \in Thread
      BY <1>1, <1>2, Zenon DEF SemaDownLoop, ControlAt, ShapeAt, WaitsNow, WaitAt
    <2> QED  BY <1>2, <2>1, DownSignal, Zenon DEF SemaDownLoop
  <1>3. CASE LockAcquireCall
    <2>1. /\ on[running] \in Semaphore /\ ret[running] \in {"run", "tid_read"} /\ pc[running] # "up"
          /\ on[running] \notin Thread /\ ~WaitsNow
      BY <1>1, <1>3, Zenon DEF LockAcquireCall, ControlAt, WaitsNow, WaitAt
    <2> QED  BY <1>3, <2>1, DownSignal, Zenon DEF LockAcquireCall
  <1>4. CASE SetHolder
    <2>1. ~WaitsNow /\ ~Signals /\ ret[running] \in {"run", "tid_read"}
      BY <1>1, <1>4, Zenon DEF SetHolder, ControlAt, WaitsNow, WaitAt, Signals
    <2> QED  BY <1>1, <1>4, <2>1, PlainMove, Zenon DEF SetHolder
  <1>5. CASE LockReleaseCall
    <2>1. on[running] \in Lock /\ pc[running] = "release" /\ ~Signals
      BY <1>1, <1>5, Zenon DEF LockReleaseCall, ControlAt, Signals
    <2>2. /\ Alone /\ pc'[running] = "up" /\ on'[running] = on[running] /\ ret'[running] = ret[running]
          /\ cond'[running] = cond[running]
      BY <1>1, <1>5, GotoAlone, Zenon DEF LockReleaseCall, clear_holder
    <2>3. WaitsNow <=> WaitsNext
      BY <2>1, <2>2, Zenon DEF WaitsNow, WaitsNext, WaitAt
    <2> QED  BY <1>1, <1>5, <2>1, <2>2, <2>3, QuietStep, Zenon DEF LockReleaseCall, clear_holder
  <1>6. CASE CondWaitDown
    <2>1. WaitsNow /\ pc[running] # "up"
      BY <1>6, Zenon DEF CondWaitDown, WaitsNow, WaitAt
    <2> QED  BY <1>1, <1>6, <2>1, DownSignal, Zenon DEF CondWaitDown
  <1>7. CASE CondBroadcastLoop
    <2>1. ~WaitsNow /\ ~Signals /\ pc[running] = "bcast" /\ cond[running] \in Cond
      BY <1>1, <1>7, Zenon DEF CondBroadcastLoop, ControlAt, WaitsNow, WaitAt, Signals
    <2>2. CASE cond_signal(cond[running], "bcast", cond[running])
      BY <1>7, <2>1, <2>2, PopSignal, Zenon DEF CondBroadcastLoop
    <2>3. CASE Goto("run", NULL, "run", NULL) /\ cond_waiters' = cond_waiters
      BY <1>1, <1>7, <2>1, <2>3, PlainMove, Zenon DEF CondBroadcastLoop
    <2> QED  BY <1>7, <2>2, <2>3, Zenon DEF CondBroadcastLoop
  <1>8. CASE SemaUpCall
    BY <1>8, UpSignal, Zenon
  <1>9. CASE TidRead \/ TidWrite \/ ThreadCreated \/ ThreadStart \/ IdleInit \/ IdleBlock
    <2>1. pc[running] \in {"tid_read", "tid_write", "created", "start", "idle_init", "idle"}
      BY <1>9, Zenon DEF TidRead, TidWrite, ThreadCreated, ThreadStart, IdleInit, IdleBlock
    <2>2. ~WaitsNow /\ ~Signals
      BY <2>1, Zenon DEF WaitsNow, WaitAt, Signals
    <2>3. value' = value /\ cond_waiters' = cond_waiters
      BY <1>9, Zenon DEF TidRead, TidWrite, ThreadCreated, ThreadStart, IdleInit, IdleBlock
    <2>4. \/ Goto("tid_write", NULL, "run", NULL) \/ Goto("release", TidLock, "created", NULL)
          \/ Goto("run", NULL, "run", NULL) \/ Goto("idle_started", NULL, "run", NULL)
          \/ Goto("idle_up", NULL, "run", NULL) \/ Goto("halt", NULL, "run", NULL)
      BY <1>9, Zenon DEF TidRead, TidWrite, ThreadCreated, ThreadStart, IdleInit, IdleBlock
    <2> QED  BY <1>1, <2>2, <2>3, <2>4, PlainMove, Zenon
  <1>10. CASE ThreadStartWait
    <2>1. ~WaitsNow /\ pc[running] # "up"
      BY <1>10, Zenon DEF ThreadStartWait, WaitsNow, WaitAt
    <2> QED  BY <1>1, <1>10, <2>1, DownSignal, Zenon DEF ThreadStartWait
  <1>11. CASE IdleUp
    <2>1. ~WaitsNow /\ ~Signals
      BY <1>11, Zenon DEF IdleUp, WaitsNow, WaitAt, Signals
    <2>2. \A t \in Thread : value'[t] = value[t]
      BY <1>1, <1>11, Zenon DEF IdleUp, sema_up
    <2> QED  BY <1>1, <1>11, <2>1, <2>2, PlainMove, Zenon DEF IdleUp
  <1>12. CASE TimerSleepLoop
    <2>1. ~WaitsNow /\ ~Signals
      BY <1>12, Zenon DEF TimerSleepLoop, WaitsNow, WaitAt, Signals
    <2>2. CASE Goto("run", NULL, "run", NULL)
      BY <1>1, <1>12, <2>1, <2>2, PlainMove, Zenon DEF TimerSleepLoop
    <2>3. CASE UNCHANGED <<pc, on, ret, cond>>
      BY <1>12, <2>1, <2>3, StaySignal, Zenon DEF TimerSleepLoop
    <2> QED  BY <1>12, <2>2, <2>3, Zenon DEF TimerSleepLoop
  <1> QED  BY <1>2, <1>3, <1>4, <1>5, <1>6, <1>7, <1>8, <1>9, <1>10, <1>11, <1>12, Zenon DEF Continue

LEMMA InterruptSignal ==
  ASSUME WakeInv, SignalInv, Interrupt
  PROVE  SignalInv'
  <1>1. CASE TimerInterrupt
    BY <1>1, StaySignal, Zenon DEF TimerInterrupt, semaVars
  <1>2. ASSUME NEW s \in IntrSema, DeviceInterrupt(s)  PROVE SignalInv'
    <2>1. \A t \in Thread : value'[t] = value[t]
      BY <1>2, SharedSema, SynchAssumption, Zenon DEF DeviceInterrupt, sema_up
    <2> QED  BY <1>2, <2>1, StaySignal, Zenon DEF DeviceInterrupt
  <1> QED  BY <1>1, <1>2, Zenon DEF Interrupt

LEMMA SignalStep == WakeInv /\ SignalInv /\ [Next]_vars => SignalInv'
  <1> SUFFICES ASSUME WakeInv, SignalInv, [Next]_vars  PROVE SignalInv'
    BY Zenon
  <1>1. CASE UNCHANGED vars
    BY <1>1, StaySignal, Zenon DEF vars, semaVars
  <1> QED  BY <1>1, CallSignal, ContinueSignal, InterruptSignal, Zenon DEF Next

-----------------------------------------------------------------------------
(* The inductive invariant behind ImplementsMonitor. *)

\* What the place p says of the condition variable c that a thread is at: o for
\* on, r for ret.
MonitorAt(p, o, r, c) ==
  /\ p \notin {"acquire", "down", "own", "release", "up", "wait", "bcast"} => c = NULL
  /\ p \in {"acquire", "down", "own"} /\ o \notin Thread => c = NULL \/ (c \in Cond /\ o = CondLock[c])
  /\ p \in {"release", "up"} /\ o \in Lock => IF r = "wait" THEN o = CondLock[c] ELSE c = NULL
  /\ p = "up" /\ r \notin {"wait", "bcast"} => c = NULL

\* A thread in cond_broadcast, or in cond_wait before it releases the lock,
\* holds the lock of its condition variable.
InMonitor(p, r) == p = "bcast" \/ (p = "up" /\ r = "bcast") \/ (p = "release" /\ r = "wait")

HoldsOK(t) == InMonitor(pc[t], ret[t]) => holder[CondLock[cond[t]]] = t

\* Until a thread in cond_wait has given up the lock, nobody comes after it on
\* the list of the condition variable.
Leaving(p, r) == p \in {"release", "up"} /\ r = "wait"

IsLast(q, t) == q # <<>> /\ q[Len(q)] = t

LastOK(t) == Leaving(pc[t], ret[t]) => IsLast(cond_waiters[cond[t]], t)

MonitorInv ==
  \A t \in Thread : MonitorAt(pc[t], on[t], ret[t], cond[t]) /\ HoldsOK(t) /\ LastOK(t)

KernelInv == WakeInv /\ SignalInv /\ LocksOK /\ MonitorInv

LEMMA KernelHas ==
  ASSUME KernelInv
  PROVE  /\ WakeInv /\ QueueInv /\ SignalInv /\ LocksOK /\ MonitorInv /\ TypeInv /\ MutualExclusion
         /\ running \in Thread /\ NULL \notin Thread \cup Cond \cup Lock
         /\ Lock \cap Thread = {} /\ theLock \in Lock /\ CondLock \in [Cond -> Lock]
         /\ ShapeAt(running, pc[running], on[running], ret[running], child[running])
         /\ ControlAt(pc[running], on[running], ret[running], cond[running], child[running])
         /\ MonitorAt(pc[running], on[running], ret[running], cond[running])
  <1>1. WakeInv /\ QueueInv /\ SignalInv /\ LocksOK /\ MonitorInv /\ TypeInv
    BY Zenon DEF KernelInv, WakeInv, QueueInv
  <1>2. MutualExclusion
    BY <1>1, LocksAreExclusive, Zenon
  <1>3. /\ NULL \notin Thread \cup Cond \cup Lock /\ Lock \cap Thread = {} /\ theLock \in Lock
    BY ThreadAssumption, SynchAssumption, MonitorAssumption, Zenon DEF Semaphore
  <1>4. CondLock \in [Cond -> Lock]
    BY SynchAssumption
  <1> QED  BY <1>1, <1>2, <1>3, <1>4, RunningShape, Zenon DEF MonitorInv

-----------------------------------------------------------------------------
(* The invariant is kept. *)

\* What concerns a lock or a condition variable is changed only by the holder
\* of the lock.
ByHolder ==
  /\ \A l \in Lock : holder'[l] = holder[l] \/ holder[l] \in {running, NULL}
  /\ \A c \in Cond : cond_waiters'[c] = cond_waiters[c] \/ holder[CondLock[c]] = running

LEMMA OthersMonitor ==
  ASSUME KernelInv, Alone, ByHolder, NEW t \in Thread \ {running}
  PROVE  MonitorAt(pc'[t], on'[t], ret'[t], cond'[t]) /\ HoldsOK(t)' /\ LastOK(t)'
  <1>1. /\ pc'[t] = pc[t] /\ on'[t] = on[t] /\ ret'[t] = ret[t] /\ cond'[t] = cond[t]
        /\ t # NULL /\ CondLock \in [Cond -> Lock]
    BY KernelHas, Zenon DEF Alone
  <1>2. /\ MonitorAt(pc[t], on[t], ret[t], cond[t]) /\ HoldsOK(t) /\ LastOK(t)
        /\ ControlAt(pc[t], on[t], ret[t], cond[t], child[t])
        /\ ShapeAt(t, pc[t], on[t], ret[t], child[t]) /\ LocksOK
    BY KernelHas, Zenon DEF MonitorInv, TypeInv, ControlOK, QueueInv, ShapeOK
  <1>3. HoldsOK(t)'
    <2>1. CASE ~InMonitor(pc[t], ret[t])
      BY <1>1, <2>1, Zenon DEF HoldsOK
    <2>2. CASE InMonitor(pc[t], ret[t])
      <3>1. cond[t] \in Cond /\ holder[CondLock[cond[t]]] = t
        BY <1>2, <2>2, Zenon DEF InMonitor, HoldsOK, ControlAt
      <3>2. holder'[CondLock[cond[t]]] = t
        BY <1>1, <3>1, Zenon DEF ByHolder
      <3> QED  BY <1>1, <3>2, Zenon DEF HoldsOK
    <2> QED  BY <2>1, <2>2, Zenon
  <1>4. LastOK(t)'
    <2>1. CASE ~Leaving(pc[t], ret[t])
      BY <1>1, <2>1, Zenon DEF LastOK
    <2>2. CASE Leaving(pc[t], ret[t])
      <3>1. /\ cond[t] \in Cond /\ CondLock[cond[t]] \in Lock /\ on[t] = CondLock[cond[t]]
            /\ IsLast(cond_waiters[cond[t]], t)
        BY <1>1, <1>2, <2>2, Zenon DEF Leaving, LastOK, ControlAt, ShapeAt, MonitorAt
      <3>2. holder[CondLock[cond[t]]] \in {t, NULL}
        <4>1. CASE pc[t] = "release"
          BY <1>2, <2>2, <4>1, Zenon DEF HoldsOK, InMonitor, Leaving
        <4>2. CASE pc[t] = "up"
          BY <1>2, <3>1, <4>2, Zenon DEF LocksOK, LockOK, Handing
        <4> QED  BY <2>2, <4>1, <4>2, Zenon DEF Leaving
      <3>3. cond_waiters'[cond[t]] = cond_waiters[cond[t]]
        BY <3>1, <3>2, KernelHas, Zenon DEF ByHolder
      <3> QED  BY <1>1, <3>1, <3>3, Zenon DEF LastOK
    <2> QED  BY <2>1, <2>2, Zenon
  <1> QED  BY <1>1, <1>2, <1>3, <1>4, Zenon

LEMMA MoveMonitor ==
  ASSUME KernelInv, NEW p, NEW o, NEW r, NEW c, Goto(p, o, r, c), ByHolder, MonitorAt(p, o, r, c),
         InMonitor(p, r) => holder'[CondLock[c]] = running,
         Leaving(p, r) => IsLast(cond_waiters'[c], running)
  PROVE  MonitorInv'
  <1>1. /\ Alone /\ running \in Thread
        /\ pc'[running] = p /\ on'[running] = o /\ ret'[running] = r /\ cond'[running] = c
    BY KernelHas, GotoAlone, Zenon
  <1>2. ASSUME NEW t \in Thread, t = running
        PROVE  MonitorAt(pc'[t], on'[t], ret'[t], cond'[t]) /\ HoldsOK(t)' /\ LastOK(t)'
    <2>1. pc'[t] = p /\ on'[t] = o /\ ret'[t] = r /\ cond'[t] = c
      BY <1>1, <1>2, Zenon
    <2>2. HoldsOK(t)' /\ LastOK(t)'
      BY <1>2, <2>1, Zenon DEF HoldsOK, LastOK
    <2> QED  BY <2>1, <2>2, Zenon
  <1>3. \A t \in Thread : MonitorAt(pc'[t], on'[t], ret'[t], cond'[t]) /\ HoldsOK(t)' /\ LastOK(t)'
    BY <1>1, <1>2, OthersMonitor, Zenon
  <1> QED  BY <1>3, Zenon DEF MonitorInv

-----------------------------------------------------------------------------
(* The monitor's state, and the steps that leave it alone. *)

SameMonitor ==
  monitorOwner' = monitorOwner /\ monitorQueue' = monitorQueue /\ monitorSignalled' = monitorSignalled

Simulated == M!MNext \/ SameMonitor

LEMMA ChooseOne == ASSUME NEW S, NEW x, S = {x}  PROVE (CHOOSE y \in S : TRUE) = x
  OBVIOUS

\* Who owns the monitor, before and after a step.
LEMMA OwnerIs ==
  /\ Owners(theLock) = {} => monitorOwner = NULL
  /\ \A t \in Thread : Owners(theLock) = {t} => monitorOwner = t
  <1>1. ASSUME NEW t \in Thread, Owners(theLock) = {t}  PROVE monitorOwner = t
    BY <1>1, ChooseOne, Zenon DEF monitorOwner
  <1> QED  BY <1>1, Zenon DEF monitorOwner

LEMMA OwnerNext ==
  /\ Owners(theLock)' = {} => monitorOwner' = NULL
  /\ \A t \in Thread : Owners(theLock)' = {t} => monitorOwner' = t
  <1>1. ASSUME NEW t \in Thread, Owners(theLock)' = {t}  PROVE monitorOwner' = t
    BY <1>1, ChooseOne, Zenon DEF monitorOwner
  <1> QED  BY <1>1, Zenon DEF monitorOwner

LEMMA OwnersAre ==
  ASSUME KernelInv, NEW l \in Lock
  PROVE  /\ Owners(l) \subseteq Thread
         /\ \A t \in Owners(l) : Owners(l) = {t}
         /\ value[l] > 0 => Owners(l) = {}
         /\ holder[l] = running => Owners(l) = {running}
         /\ pc[running] \in {"own", "up"} /\ on[running] = l => Owners(l) = {running}
  <1>1. /\ \A t, u \in Owners(l) : t = u
        /\ value[l] = IF Owners(l) = {} THEN 1 ELSE 0
    BY KernelHas, Zenon DEF MutualExclusion
  <1>2. value[l] > 0 => Owners(l) = {}
    BY <1>1
  <1>3. /\ Owners(l) \subseteq Thread
        /\ holder[l] = running => running \in Owners(l)
        /\ pc[running] \in {"own", "up"} /\ on[running] = l => running \in Owners(l)
    BY KernelHas, Zenon DEF Owners
  <1> QED  BY <1>1, <1>2, <1>3, Zenon

\* A thread that is not in cond_wait is on no list.
LEMMA NotListed ==
  ASSUME KernelInv, ~WaitsNow, NEW c \in Cond
  PROVE  running \notin Range(cond_waiters[c])
  <1> PICK t \in Thread : t = running
    BY KernelHas, Zenon
  <1>1. Listed(t) = {}
    BY KernelHas, RunningWaits, Zenon DEF SignalInv, SignalOK
  <1> QED  BY <1>1, Zenon DEF Listed

\* The lists of the monitor's condition variables.
LEMMA NoOwnerListed ==
  ASSUME NEW S, NEW q \in Seq(S), NEW owners, Range(q) \cap owners = {}
  PROVE  withoutOwner(q, owners) = q
  <1>1. ASSUME Len(q) > 0  PROVE q[Len(q)] \in Range(q)
    BY <1>1 DEF Range
  <1> QED  BY <1>1, Zenon DEF withoutOwner

LEMMA OwnerAppended ==
  ASSUME NEW S, NEW q \in Seq(S), NEW x \in S, NEW owners, x \in owners
  PROVE  withoutOwner(Append(q, x), owners) = q
  <1>1. Len(Append(q, x)) = Len(q) + 1 /\ Append(q, x)[Len(q) + 1] = x /\ Len(q) + 1 > 0
    BY PushIs
  <1>2. SubSeq(Append(q, x), 1, Len(q) + 1 - 1) = q
    OBVIOUS
  <1> QED  BY <1>1, <1>2 DEF withoutOwner

LEMMA OwnerIsLast ==
  ASSUME NEW S, NEW q \in Seq(S), NEW x \in S, NEW owners, x \in owners, IsLast(q, x)
  PROVE  q = Append(withoutOwner(q, owners), x)
  <1>1. Len(q) > 0 /\ q[Len(q)] = x
    BY DEF IsLast
  <1>2. withoutOwner(q, owners) = SubSeq(q, 1, Len(q) - 1)
    BY <1>1, Zenon DEF withoutOwner
  <1>3. q = Append(SubSeq(q, 1, Len(q) - 1), x)
    BY <1>1
  <1> QED  BY <1>2, <1>3, Zenon

\* A step of one thread that changes neither the owner nor the lists, and the
\* condition variable of no thread but the owner.
LEMMA StutterMonitor ==
  ASSUME Owners(theLock)' = Owners(theLock), cond_waiters' = cond_waiters,
         \A t \in Thread \ Owners(theLock) :
           cond'[t] = cond[t] \/ (cond[t] \notin MonitorCond /\ cond'[t] \notin MonitorCond)
  PROVE  SameMonitor
  <1>1. monitorOwner' = monitorOwner
    BY DEF monitorOwner
  <1>3. monitorQueue' = monitorQueue
    BY Zenon DEF monitorQueue
  <1>2. monitorSignalled' = monitorSignalled
    BY Zenon DEF monitorSignalled
  <1> QED  BY <1>1, <1>2, <1>3, Zenon DEF SameMonitor

LEMMA OwnersSame ==
  ASSUME running \in Thread, Alone, NEW l \in Lock, holder'[l] = holder[l],
         pc'[running] \in {"own", "up"} /\ on'[running] = l <=> pc[running] \in {"own", "up"} /\ on[running] = l
  PROVE  Owners(l)' = Owners(l)
  <1>1. \A t \in Thread : pc'[t] \in {"own", "up"} /\ on'[t] = l <=> pc[t] \in {"own", "up"} /\ on[t] = l
    BY Zenon DEF Alone
  <1> QED  BY <1>1, Zenon DEF Owners

LEMMA MonitorConds ==
  MonitorCond \subseteq Cond /\ (\A c \in Cond : c \in MonitorCond <=> CondLock[c] = theLock)
  BY Zenon DEF MonitorCond

\* When no owner is on a list, the lists are the queues of the monitor.
LEMMA QueueIs ==
  ASSUME KernelInv, ~WaitsNow, Owners(theLock) \subseteq {running}
  PROVE  monitorQueue = [c \in MonitorCond |-> cond_waiters[c]]
  <1>1. ASSUME NEW c \in MonitorCond
        PROVE  withoutOwner(cond_waiters[c], Owners(theLock)) = cond_waiters[c]
    <2>1. c \in Cond /\ cond_waiters[c] \in Seq(Thread)
      BY KernelHas, MonitorConds, Zenon DEF TypeInv, TypeOK
    <2>2. Range(cond_waiters[c]) \cap Owners(theLock) = {}
      BY <2>1, NotListed, Zenon
    <2> QED  BY <2>1, <2>2, NoOwnerListed, Zenon
  <1> QED  BY <1>1, Zenon DEF monitorQueue

LEMMA QueueNext ==
  ASSUME \A c \in MonitorCond : cond_waiters'[c] \in Seq(Thread) /\ Range(cond_waiters'[c]) \cap Owners(theLock)' = {}
  PROVE  monitorQueue' = [c \in MonitorCond |-> cond_waiters'[c]]
  <1>1. ASSUME NEW c \in MonitorCond
        PROVE  withoutOwner(cond_waiters'[c], Owners(theLock)') = cond_waiters'[c]
    BY NoOwnerListed, Zenon
  <1> QED  BY <1>1, Zenon DEF monitorQueue

LEMMA WaitersLists == ASSUME KernelInv  PROVE cond_waiters \in [Cond -> Seq(Thread)]
  BY KernelHas, Zenon DEF TypeInv, TypeOK

\* A sema_down of lock_acquire that gets through, or lock_try_acquire: Acquire
\* or, at the end of cond_wait, Reacquire.
LEMMA TakeMonitor ==
  ASSUME KernelInv, NEW l \in Lock, NEW r, NEW c, value[l] > 0, Goto("own", l, r, c),
         holder' = holder, cond_waiters' = cond_waiters, c = cond[running], MonitorAt("own", l, r, c),
         pc[running] \notin {"own", "up"}, ~WaitsNow
  PROVE  MonitorInv' /\ Simulated
  <1>1. /\ Alone /\ running \in Thread /\ NULL \notin Thread \cup Cond /\ Lock \cap Thread = {}
        /\ pc'[running] = "own" /\ on'[running] = l /\ cond'[running] = cond[running] /\ theLock \in Lock
    BY KernelHas, GotoAlone, Zenon
  <1>2. MonitorInv'
    <2>1. ByHolder /\ ~InMonitor("own", r) /\ ~Leaving("own", r)
      BY Zenon DEF ByHolder, InMonitor, Leaving
    <2> QED  BY <2>1, MoveMonitor, Zenon
  <1>3. \A t \in Thread : cond'[t] = cond[t]
    BY <1>1, Zenon DEF Alone
  <1>4. CASE l # theLock
    <2>1. Owners(theLock)' = Owners(theLock)
      BY <1>1, <1>4, OwnersSame, Zenon
    <2> QED  BY <1>2, <1>3, <2>1, StutterMonitor, Zenon DEF Simulated
  <1>5. CASE l = theLock
    <2>1. Owners(theLock) = {}
      BY <1>5, OwnersAre, Zenon
    <2>2. Owners(theLock)' = {running}
      <3>1. ASSUME NEW t \in Thread \ {running}  PROVE t \notin Owners(theLock)'
        <4>1. pc'[t] = pc[t] /\ on'[t] = on[t] /\ t \notin Owners(theLock)
          BY <1>1, <2>1, Zenon DEF Alone
        <4> QED  BY <4>1, Zenon DEF Owners
      <3>2. running \in Owners(theLock)'
        BY <1>1, <1>5, Zenon DEF Owners
      <3>3. Owners(theLock)' \subseteq Thread
        BY Zenon DEF Owners
      <3> QED  BY <3>1, <3>2, <3>3, Zenon
    <2>3. monitorOwner = NULL /\ monitorOwner' = running
      BY <1>1, <2>1, <2>2, OwnerIs, OwnerNext, Zenon
    <2>4. monitorQueue = [d \in MonitorCond |-> cond_waiters[d]]
      BY <2>1, QueueIs, Zenon
    <2>5. monitorQueue' = monitorQueue
      <3>1. \A d \in MonitorCond : cond_waiters[d] \in Seq(Thread) /\ running \notin Range(cond_waiters[d])
        BY WaitersLists, MonitorConds, NotListed, Zenon
      <3>2. \A d \in MonitorCond : cond_waiters'[d] \in Seq(Thread) /\ Range(cond_waiters'[d]) \cap Owners(theLock)' = {}
        BY <2>2, <3>1, Zenon
      <3> QED  BY <2>4, <3>2, QueueNext, Zenon
    <2>6. monitorSignalled' = monitorSignalled \ {running}
      BY <1>3, <2>1, <2>2, Zenon DEF monitorSignalled
    <2>7. CASE c = NULL
      <3>1. cond[running] \notin MonitorCond
        BY <1>1, <2>7, MonitorConds, Zenon
      <3>2. running \notin monitorSignalled
        BY <3>1, Zenon DEF monitorSignalled
      <3>3. \A d \in MonitorCond : running \notin Range(monitorQueue[d])
        BY <2>4, MonitorConds, NotListed, Zenon
      <3>4. M!Outside(running)
        BY <3>2, <3>3, Zenon DEF M!Outside, Range, M!Range
      <3>5. M!Acquire(running)
        BY <2>3, <2>5, <2>6, <3>2, <3>4, Zenon DEF M!Acquire
      <3> QED  BY <1>1, <1>2, <3>5, Zenon DEF Simulated, M!MNext
    <2>8. CASE c \in Cond /\ l = CondLock[c]
      <3>1. running \in monitorSignalled
        BY <1>1, <1>5, <2>1, <2>8, MonitorConds, NotListed, Zenon DEF monitorSignalled
      <3>2. M!Reacquire(running)
        BY <2>3, <2>5, <2>6, <3>1, Zenon DEF M!Reacquire
      <3> QED  BY <1>1, <1>2, <3>2, Zenon DEF Simulated, M!MNext
    <2> QED  BY <1>1, <2>7, <2>8, Zenon DEF MonitorAt
  <1> QED  BY <1>4, <1>5, Zenon

\* A step of a thread inside its own code, or between calls.
LEMMA QuietMonitor ==
  ASSUME KernelInv, NEW p, NEW o, NEW r, NEW c, Goto(p, o, r, c), holder' = holder,
         cond_waiters' = cond_waiters, c = cond[running], MonitorAt(p, o, r, c),
         pc[running] \notin {"own", "up"}, p \notin {"own", "up", "bcast"}, p = "release" => r # "wait"
  PROVE  MonitorInv' /\ Simulated
  <1>1. /\ Alone /\ running \in Thread /\ pc'[running] = p /\ cond'[running] = c /\ theLock \in Lock
    BY KernelHas, GotoAlone, Zenon
  <1>2. MonitorInv'
    <2>1. ByHolder /\ ~InMonitor(p, r) /\ ~Leaving(p, r)
      BY Zenon DEF ByHolder, InMonitor, Leaving
    <2> QED  BY <2>1, MoveMonitor, Zenon
  <1>3. \A t \in Thread : cond'[t] = cond[t]
    BY <1>1, Zenon DEF Alone
  <1>4. Owners(theLock)' = Owners(theLock)
    BY <1>1, OwnersSame, Zenon
  <1> QED  BY <1>2, <1>3, <1>4, StutterMonitor, Zenon DEF Simulated

-----------------------------------------------------------------------------
(* Each operation is a step of the monitor, or leaves it alone. *)

LEMMA DownMonitor ==
  ASSUME KernelInv, NEW s \in Semaphore, NEW r, NEW c, sema_down(s, r, c), holder' = holder,
         cond_waiters' = cond_waiters, c = cond[running], pc[running] \notin {"own", "up"},
         MonitorAt("down", s, r, c), s \in Thread => c \in Cond, s \in Lock => ~WaitsNow
  PROVE  MonitorInv' /\ Simulated
  <1>1. /\ Lock \cap Thread = {} /\ (Sema \cup {IdleStarted}) \cap (Lock \cup Thread) = {}
        /\ CondLock \in [Cond -> Lock]
    BY KernelHas, SynchAssumption, Zenon
  <1>2. CASE Goto("down", s, r, c)
    BY <1>2, QuietMonitor, Zenon
  <1>3. CASE value[s] > 0 /\ s \in Lock /\ Goto("own", s, r, c)
    <2>1. MonitorAt("own", s, r, c)
      BY <1>1, <1>3, Zenon DEF MonitorAt
    <2> QED  BY <1>3, <2>1, TakeMonitor, Zenon
  <1>4. CASE s \in Thread /\ Goto("acquire", CondLock[c], "run", c)
    <2>1. MonitorAt("acquire", CondLock[c], "run", c)
      BY <1>4, Zenon DEF MonitorAt
    <2> QED  BY <1>4, <2>1, QuietMonitor, Zenon
  <1>5. CASE s \in Sema \cup {IdleStarted} /\ Goto("run", NULL, "run", NULL)
    <2>1. c = NULL /\ MonitorAt("run", NULL, "run", NULL)
      BY <1>1, <1>5, Zenon DEF MonitorAt
    <2> QED  BY <1>5, <2>1, QuietMonitor, Zenon
  <1> QED  BY <1>2, <1>3, <1>4, <1>5, Zenon DEF sema_down, Downed

\* The owner stays the owner while lock->holder is written.
LEMMA HolderOwners ==
  ASSUME KernelInv, Alone, NEW k \in Lock, Owners(k) = {running},
         \A l \in Lock \ {k} : holder'[l] = holder[l],
         \/ holder'[k] = running
         \/ holder'[k] = NULL /\ pc'[running] = "up" /\ on'[running] = k,
         pc[running] \in {"own", "up"} => on[running] = k,
         pc'[running] \in {"own", "up"} => on'[running] = k
  PROVE  Owners(theLock)' = Owners(theLock)
  <1>1. running \in Thread /\ NULL \notin Thread /\ theLock \in Lock
    BY KernelHas, Zenon
  <1>2. CASE k # theLock
    <2>1. holder'[theLock] = holder[theLock]
      BY <1>1, <1>2, Zenon
    <2>2. ~(pc'[running] \in {"own", "up"} /\ on'[running] = theLock)
      BY <1>2, Zenon
    <2>3. ~(pc[running] \in {"own", "up"} /\ on[running] = theLock)
      BY <1>2, Zenon
    <2> QED  BY <1>1, <2>1, <2>2, <2>3, OwnersSame, Zenon
  <1>3. CASE k = theLock
    <2>1. ASSUME NEW t \in Thread \ {running}  PROVE t \notin Owners(theLock)'
      <3>1. pc'[t] = pc[t] /\ on'[t] = on[t]
        BY Zenon DEF Alone
      <3>2. t # running /\ t \in Thread
        BY Zenon
      <3>3. t \notin Owners(theLock)
        BY <1>3, <3>2, Zenon
      <3>4. holder'[theLock] # t
        BY <1>1, <1>3, <3>2, Zenon
      <3> QED  BY <3>1, <3>3, <3>4, Zenon DEF Owners
    <2>2. running \in Owners(theLock)'
      BY <1>1, <1>3, Zenon DEF Owners
    <2>3. Owners(theLock)' \subseteq Thread
      BY Zenon DEF Owners
    <2> QED  BY <1>3, <2>1, <2>2, <2>3, Zenon
  <1> QED  BY <1>2, <1>3, Zenon

LEMMA SetHolderMonitor ==
  ASSUME KernelInv, SetHolder
  PROVE  MonitorInv' /\ Simulated
  <1> DEFINE k == on[running]
  <1>1. /\ pc[running] = "own" /\ k \in Lock /\ ret[running] \in {"run", "tid_read"}
        /\ MonitorAt("own", k, ret[running], cond[running])
        /\ NULL \notin Thread \cup Cond /\ Lock \cap Thread = {} /\ running \in Thread
        /\ holder \in [Lock -> Thread \cup {NULL}] /\ cond_waiters' = cond_waiters
    BY KernelHas, Zenon DEF SetHolder, At, ControlAt, TypeInv, TypeOK
  <1>2. /\ Alone /\ pc'[running] = ret[running] /\ cond'[running] = NULL
    BY KernelHas, GotoAlone, Zenon DEF SetHolder
  <1>3. holder'[k] = running /\ \A l \in Lock \ {k} : holder'[l] = holder[l]
    BY <1>1, Zenon DEF SetHolder
  <1>4. Owners(k) = {running}
    BY <1>1, OwnersAre, Zenon
  <1>5. holder[k] = NULL
    BY <1>1, KernelHas, Zenon DEF LocksOK, LockOK, Handing
  <1>6. MonitorInv'
    <2>1. ByHolder
      BY <1>1, <1>3, <1>5, Zenon DEF ByHolder
    <2>2. ~InMonitor(ret[running], "run") /\ ~Leaving(ret[running], "run")
      BY <1>1, Zenon DEF InMonitor, Leaving
    <2>3. MonitorAt(ret[running], NULL, "run", NULL)
      BY <1>1, Zenon DEF MonitorAt
    <2> QED  BY <2>1, <2>2, <2>3, MoveMonitor, Zenon DEF SetHolder
  <1>7. Owners(theLock)' = Owners(theLock)
    <2>1. pc'[running] \notin {"own", "up"}
      BY <1>1, <1>2, Zenon
    <2> QED  BY <1>1, <1>2, <1>3, <1>4, <2>1, HolderOwners, Zenon
  <1>8. ASSUME NEW t \in Thread \ Owners(theLock)
        PROVE  cond'[t] = cond[t] \/ (cond[t] \notin MonitorCond /\ cond'[t] \notin MonitorCond)
    <2>1. CASE t # running
      BY <1>2, <2>1, Zenon DEF Alone
    <2>2. CASE t = running
      <3>1. k # theLock
        BY <1>4, <1>8, <2>2, Zenon
      <3>2. cond[running] \notin MonitorCond /\ NULL \notin MonitorCond
        BY <1>1, <3>1, MonitorConds, Zenon DEF MonitorAt
      <3> QED  BY <1>2, <2>2, <3>2, Zenon
    <2> QED  BY <2>1, <2>2, Zenon
  <1> QED  BY <1>1, <1>6, <1>7, <1>8, StutterMonitor, Zenon DEF Simulated

LEMMA ClearHolderMonitor ==
  ASSUME KernelInv, NEW l \in Lock, NEW r, NEW c, clear_holder(l, r, c), c = cond[running],
         MonitorAt("up", l, r, c), r # "bcast", pc[running] \notin {"own", "up"},
         r = "wait" => IsLast(cond_waiters[c], running)
  PROVE  MonitorInv' /\ Simulated
  <1>1. /\ Alone /\ pc'[running] = "up" /\ on'[running] = l /\ cond'[running] = cond[running]
        /\ running \in Thread /\ cond_waiters' = cond_waiters
        /\ holder \in [Lock -> Thread \cup {NULL}]
    BY KernelHas, GotoAlone, Zenon DEF clear_holder, TypeInv, TypeOK
  <1>2. /\ holder'[l] = NULL /\ holder[l] = running
        /\ \A k \in Lock \ {l} : holder'[k] = holder[k]
    BY <1>1, Zenon DEF clear_holder
  <1>3. Owners(l) = {running}
    BY <1>2, OwnersAre, Zenon
  <1>4. Owners(theLock)' = Owners(theLock)
    BY <1>1, <1>2, <1>3, HolderOwners, Zenon
  <1>5. MonitorInv'
    <2>1. ByHolder
      BY <1>1, <1>2, Zenon DEF ByHolder
    <2>2. ~InMonitor("up", r) /\ (Leaving("up", r) => IsLast(cond_waiters'[c], running))
      BY <1>1, Zenon DEF InMonitor, Leaving
    <2> QED  BY <2>1, <2>2, MoveMonitor, Zenon DEF clear_holder
  <1>6. \A t \in Thread : cond'[t] = cond[t]
    BY <1>1, Zenon DEF Alone
  <1> QED  BY <1>1, <1>4, <1>5, <1>6, StutterMonitor, Zenon DEF Simulated

\* The sema_up of lock_release: Release or, in cond_wait, Wait.  The sema_up of
\* cond_signal leaves the monitor alone.
LEMMA UpMonitor ==
  ASSUME KernelInv, SemaUpCall
  PROVE  MonitorInv' /\ Simulated
  <1> DEFINE k == on[running]
             c == cond[running]
  <1>1. /\ pc[running] = "up" /\ running \in Thread /\ NULL \notin Thread \cup Cond /\ theLock \in Lock
        /\ Lock \cap Thread = {} /\ MonitorAt("up", k, ret[running], c)
        /\ ret[running] \in {"run", "tid_read", "created", "wait", "bcast"}
        /\ ret[running] = "wait" => k \in Lock /\ c \in Cond /\ IsLast(cond_waiters[c], running)
        /\ ret[running] = "bcast" => holder[CondLock[c]] = running
        /\ holder' = holder /\ cond_waiters' = cond_waiters
    BY KernelHas, Zenon
    DEF SemaUpCall, At, ControlAt, ShapeAt, MonitorInv, HoldsOK, LastOK, InMonitor, Leaving
  <1>2. /\ Alone /\ pc'[running] = ret[running] /\ cond'[running] = c
        /\ pc'[running] \notin {"own", "up"}
    BY <1>1, KernelHas, GotoAlone, Zenon DEF SemaUpCall
  <1>3. MonitorInv'
    <2>1. /\ ByHolder /\ ~Leaving(ret[running], "run")
          /\ InMonitor(ret[running], "run") => holder'[CondLock[c]] = running
      BY <1>1, Zenon DEF ByHolder, InMonitor, Leaving
    <2>2. MonitorAt(ret[running], NULL, "run", c)
      BY <1>1, Zenon DEF MonitorAt
    <2> QED  BY <2>1, <2>2, MoveMonitor, Zenon DEF SemaUpCall
  <1>4. \A t \in Thread : cond'[t] = cond[t]
    BY <1>2, Zenon DEF Alone
  <1> HIDE DEF k, c
  <1>5. CASE k # theLock
    <2>1. Owners(theLock)' = Owners(theLock)
      BY <1>1, <1>2, <1>5, OwnersSame, Zenon DEF k
    <2> QED  BY <1>1, <1>3, <1>4, <2>1, StutterMonitor, Zenon DEF Simulated
  <1>6. CASE k = theLock
    <2>1. Owners(theLock) = {running} /\ holder[theLock] = NULL
      BY <1>1, <1>6, OwnersAre, KernelHas, Zenon DEF LocksOK, LockOK, Handing, k
    <2>2. Owners(theLock)' = {}
      <3>1. ASSUME NEW t \in Thread \ {running}  PROVE t \notin Owners(theLock)'
        <4>1. pc'[t] = pc[t] /\ on'[t] = on[t] /\ t \notin Owners(theLock)
          BY <1>2, <2>1, Zenon DEF Alone
        <4> QED  BY <1>1, <4>1, Zenon DEF Owners
      <3>2. running \notin Owners(theLock)'
        BY <1>1, <1>2, <2>1, Zenon DEF Owners
      <3>3. Owners(theLock)' \subseteq Thread
        BY Zenon DEF Owners
      <3> QED  BY <3>1, <3>2, <3>3, Zenon
    <2>3. monitorOwner = running /\ monitorOwner' = NULL
      BY <1>1, <2>1, <2>2, OwnerIs, OwnerNext, Zenon
    <2>4. monitorQueue' = [d \in MonitorCond |-> cond_waiters[d]]
      <3>1. \A d \in MonitorCond : cond_waiters'[d] \in Seq(Thread) /\ Range(cond_waiters'[d]) \cap Owners(theLock)' = {}
        BY <1>1, <2>2, WaitersLists, MonitorConds, Zenon
      <3> QED  BY <1>1, <3>1, QueueNext, Zenon
    <2>5. ASSUME c \in MonitorCond => running \in Range(cond_waiters[c])
          PROVE  monitorSignalled' = monitorSignalled
      BY <1>1, <1>4, <2>1, <2>2, <2>5, Zenon DEF monitorSignalled, c
    <2>6. CASE ret[running] # "wait"
      <3>1. c = NULL /\ ~WaitsNow
        BY <1>1, <1>6, <2>6, Zenon DEF MonitorAt, WaitsNow, WaitAt
      <3>2. monitorQueue' = monitorQueue
        BY <2>1, <2>4, <3>1, QueueIs, Zenon
      <3>3. c \notin MonitorCond
        BY <1>1, <3>1, MonitorConds, Zenon
      <3>4. M!Release
        BY <1>1, <2>3, <2>5, <3>2, <3>3, Zenon DEF M!Release
      <3> QED  BY <1>3, <3>4, Zenon DEF Simulated, M!MNext
    <2>7. CASE ret[running] = "wait"
      <3>1. c \in MonitorCond
        BY <1>1, <1>6, <2>7, MonitorConds, Zenon DEF MonitorAt
      <3>2. cond_waiters[c] \in Seq(Thread) /\ IsLast(cond_waiters[c], running)
        BY <1>1, <2>7, WaitersLists, Zenon
      <3>3. cond_waiters[c] = Append(withoutOwner(cond_waiters[c], Owners(theLock)), running)
        <4>1. running \in Owners(theLock)
          BY <2>1, Zenon
        <4> QED  BY <1>1, <3>2, <4>1, OwnerIsLast, Zenon
      <3>4. running \in Range(cond_waiters[c])
        BY <3>2 DEF IsLast, Range
      <3>5. ASSUME NEW d \in MonitorCond \ {c}
            PROVE  withoutOwner(cond_waiters[d], Owners(theLock)) = cond_waiters[d]
        <4>1. d \in Cond /\ cond_waiters[d] \in Seq(Thread)
          BY MonitorConds, WaitersLists, Zenon
        <4>2. PICK t \in Thread : t = running
          BY <1>1, Zenon
        <4>3. Listed(t) \subseteq {cond[t]}
          BY KernelHas, Zenon DEF SignalInv, SignalOK
        <4>4. running \notin Range(cond_waiters[d])
          BY <4>1, <4>2, <4>3, Zenon DEF Listed, c
        <4>5. Range(cond_waiters[d]) \cap Owners(theLock) = {}
          BY <2>1, <4>4, Zenon
        <4> QED  BY <4>1, <4>5, NoOwnerListed, Zenon
      <3>6. monitorQueue' = [monitorQueue EXCEPT ![c] = Append(@, running)]
        BY <2>4, <3>1, <3>3, <3>5, Zenon DEF monitorQueue
      <3>7. M!Wait(c)
        BY <1>1, <2>3, <2>5, <3>4, <3>6, Zenon DEF M!Wait
      <3> QED  BY <1>3, <3>1, <3>7, Zenon DEF Simulated, M!MNext
    <2> QED  BY <2>6, <2>7, Zenon
  <1> QED  BY <1>5, <1>6, Zenon

\* cond_wait up to its lock_release: the thread is on the list, and still owns
\* the lock.
LEMMA CondWaitMonitor ==
  ASSUME KernelInv, NEW c \in Cond, CondWait(c)
  PROVE  MonitorInv' /\ Simulated
  <1>1. /\ pc[running] = "run" /\ holder[CondLock[c]] = running /\ holder' = holder /\ CondLock[c] \in Lock
        /\ running \in Thread /\ cond[running] = NULL /\ NULL \notin Cond /\ theLock \in Lock
        /\ Lock \cap Thread = {} /\ cond_waiters \in [Cond -> Seq(Thread)]
    BY KernelHas, WaitersLists, Zenon DEF CondWait, At, HoldsCondLock, MonitorAt
  <1>2. /\ Alone /\ pc'[running] = "release" /\ ret'[running] = "wait" /\ cond'[running] = c
    BY KernelHas, GotoAlone, Zenon DEF CondWait
  <1>3. /\ cond_waiters'[c] = Append(cond_waiters[c], running) /\ cond_waiters[c] \in Seq(Thread)
        /\ \A d \in Cond \ {c} : cond_waiters'[d] = cond_waiters[d]
    BY <1>1, Zenon DEF CondWait
  <1>4. IsLast(cond_waiters'[c], running)
    <2> PICK q : q = cond_waiters[c]
      OBVIOUS
    <2>1. q \in Seq(Thread) /\ cond_waiters'[c] = Append(q, running)
      BY <1>3, Zenon
    <2>2. /\ Append(q, running) # <<>> /\ Len(Append(q, running)) = Len(q) + 1
          /\ Append(q, running)[Len(q) + 1] = running
      BY <1>1, <2>1, PushIs, SMTT(30)
    <2> QED  BY <2>1, <2>2, Zenon DEF IsLast
  <1>5. MonitorInv'
    <2>1. ByHolder
      BY <1>1, <1>3, Zenon DEF ByHolder
    <2>2. MonitorAt("release", CondLock[c], "wait", c)
      BY <1>1, Zenon DEF MonitorAt
    <2> QED  BY <1>1, <1>4, <2>1, <2>2, MoveMonitor, Zenon DEF CondWait
  <1>6. Owners(theLock)' = Owners(theLock)
    BY <1>1, <1>2, OwnersSame, Zenon
  <1>7. ~WaitsNow
    BY <1>1, Zenon DEF WaitsNow, WaitAt
  <1>8. monitorOwner' = monitorOwner
    BY <1>6 DEF monitorOwner
  <1>9. CASE c \notin MonitorCond
    <2>1. \A d \in MonitorCond : cond_waiters'[d] = cond_waiters[d]
      BY <1>3, <1>9, MonitorConds, Zenon
    <2>2. monitorQueue' = monitorQueue
      BY <1>6, <2>1, Zenon DEF monitorQueue
    <2>3. \A t \in Thread : cond'[t] = cond[t] \/ (cond[t] \notin MonitorCond /\ cond'[t] \notin MonitorCond)
      BY <1>1, <1>2, <1>9, MonitorConds, Zenon DEF Alone
    <2>4. monitorSignalled' = monitorSignalled
      BY <1>6, <2>1, <2>3, Zenon DEF monitorSignalled
    <2> QED  BY <1>5, <1>8, <2>2, <2>4, Zenon DEF Simulated, SameMonitor
  <1>10. CASE c \in MonitorCond
    <2>1. Owners(theLock) = {running}
      BY <1>1, <1>10, MonitorConds, OwnersAre, Zenon
    <2>2. monitorQueue = [d \in MonitorCond |-> cond_waiters[d]]
      BY <1>7, <2>1, QueueIs, Zenon
    <2>3. withoutOwner(cond_waiters'[c], Owners(theLock)') = cond_waiters[c]
      <3>1. running \in Owners(theLock)'
        BY <1>6, <2>1, Zenon
      <3>2. withoutOwner(Append(cond_waiters[c], running), Owners(theLock)') = cond_waiters[c]
        BY <1>1, <1>3, <3>1, OwnerAppended, SMTT(30)
      <3> QED  BY <1>3, <3>2, Zenon
    <2>4. ASSUME NEW d \in MonitorCond \ {c}
          PROVE  withoutOwner(cond_waiters'[d], Owners(theLock)') = cond_waiters[d]
      <3>1. d \in Cond /\ cond_waiters[d] \in Seq(Thread) /\ cond_waiters'[d] = cond_waiters[d]
        BY <1>1, <1>3, MonitorConds, Zenon
      <3>2. Range(cond_waiters[d]) \cap Owners(theLock)' = {}
        <4>1. running \notin Range(cond_waiters[d]) /\ Owners(theLock)' = {running}
          BY <1>6, <1>7, <2>1, <3>1, NotListed, Zenon
        <4> QED  BY <4>1, Zenon
      <3> QED  BY <3>1, <3>2, NoOwnerListed, Zenon
    <2>5. monitorQueue' = monitorQueue
      <3>1. \A d \in MonitorCond : withoutOwner(cond_waiters'[d], Owners(theLock)') = cond_waiters[d]
        BY <2>3, <2>4, Zenon
      <3> QED  BY <2>2, <3>1, Zenon DEF monitorQueue
    <2>6. \A t \in Thread \ {running} : t \in Range(cond_waiters'[c]) <=> t \in Range(cond_waiters[c])
      <3>1. Range(Append(cond_waiters[c], running)) = Range(cond_waiters[c]) \cup {running}
        BY <1>1, <1>3, AppendRange, SMTT(30)
      <3> QED  BY <1>3, <3>1, Zenon
    <2>7. ASSUME NEW t \in Thread  PROVE t \in monitorSignalled' <=> t \in monitorSignalled
      <3>1. CASE t = running
        BY <1>6, <2>1, <3>1, Zenon DEF monitorSignalled
      <3>2. CASE t # running
        <4>1. cond'[t] = cond[t]
          BY <1>2, <3>2, Zenon DEF Alone
        <4>2. ASSUME NEW d \in MonitorCond  PROVE t \in Range(cond_waiters'[d]) <=> t \in Range(cond_waiters[d])
          BY <1>3, <2>6, <3>2, MonitorConds, Zenon
        <4> QED  BY <1>6, <4>1, <4>2, Zenon DEF monitorSignalled
      <3> QED  BY <3>1, <3>2, Zenon
    <2>8. monitorSignalled' = monitorSignalled
      <3>1. monitorSignalled' \subseteq Thread /\ monitorSignalled \subseteq Thread
        BY Zenon DEF monitorSignalled
      <3> QED  BY <2>7, <3>1, Zenon
    <2> QED  BY <1>5, <1>8, <2>5, <2>8, Zenon DEF Simulated, SameMonitor
  <1> QED  BY <1>9, <1>10, Zenon

\* cond_signal, or a turn of cond_broadcast: Signal.
LEMMA SignalMonitor ==
  ASSUME KernelInv, NEW c \in Cond, NEW r, NEW k, cond_signal(c, r, k), k = cond[running],
         holder' = holder, pc[running] \in {"run", "bcast"},
         (r = "run" /\ k = NULL) \/ (r = "bcast" /\ k = c)
  PROVE  MonitorInv' /\ Simulated
  <1> DEFINE q == cond_waiters[c]
             h == Head(q)
  <1>1. /\ holder[CondLock[c]] = running /\ CondLock[c] \in Lock /\ running \in Thread /\ theLock \in Lock
        /\ NULL \notin Thread \cup Cond /\ Lock \cap Thread = {} /\ cond_waiters \in [Cond -> Seq(Thread)]
        /\ q \in Seq(Thread) /\ q # <<>> /\ IsInjective(q)
    BY KernelHas, WaitersLists, Zenon DEF cond_signal, HoldsCondLock, SignalInv
  <1>2. /\ cond_waiters'[c] = Tail(q) /\ \A d \in Cond \ {c} : cond_waiters'[d] = cond_waiters[d]
    BY <1>1, Zenon DEF cond_signal
  <1>3. /\ h \in Range(q) /\ Range(Tail(q)) = Range(q) \ {h} /\ Tail(q) \in Seq(Thread)
    BY <1>1, TailOnce, PopIs, SMTT(30)
  <1>4. h \in Thread
    BY <1>1, PopIs
  <1>5. cond[h] = c
    <2>1. c \in Listed(h)
      BY <1>3, Zenon DEF Listed
    <2> QED  BY <1>4, <2>1, KernelHas, Zenon DEF SignalInv, SignalOK
  <1>6. Goto("up", h, r, k)
    BY Zenon DEF cond_signal
  <1> HIDE DEF h, q
  <1>7. /\ Alone /\ pc'[running] = "up" /\ on'[running] = h /\ cond'[running] = cond[running]
    BY <1>6, KernelHas, GotoAlone, Zenon
  <1>8. \A t \in Thread : cond'[t] = cond[t]
    BY <1>7, Zenon DEF Alone
  <1>9. MonitorInv'
    <2>1. ByHolder
      BY <1>1, <1>2, Zenon DEF ByHolder
    <2>2. /\ MonitorAt("up", h, r, k) /\ ~Leaving("up", r)
          /\ InMonitor("up", r) => holder'[CondLock[k]] = running
      BY <1>1, <1>4, Zenon DEF MonitorAt, Leaving, InMonitor
    <2> QED  BY <1>6, <2>1, <2>2, MoveMonitor, Zenon
  <1>10. Owners(theLock)' = Owners(theLock)
    <2>1. h # theLock
      BY <1>1, <1>4, Zenon
    <2> QED  BY <1>1, <1>7, <2>1, OwnersSame, Zenon
  <1>11. monitorOwner' = monitorOwner
    BY <1>10 DEF monitorOwner
  <1>12. CASE c \notin MonitorCond
    <2>1. \A d \in MonitorCond : cond_waiters'[d] = cond_waiters[d]
      BY <1>2, <1>12, MonitorConds, Zenon
    <2>2. monitorQueue' = monitorQueue
      BY <1>10, <2>1, Zenon DEF monitorQueue
    <2>3. monitorSignalled' = monitorSignalled
      BY <1>8, <1>10, <2>1, Zenon DEF monitorSignalled
    <2> QED  BY <1>9, <1>11, <2>2, <2>3, Zenon DEF Simulated, SameMonitor
  <1>13. CASE c \in MonitorCond
    <2>1. Owners(theLock) = {running} /\ Owners(theLock)' = {running}
      BY <1>1, <1>10, <1>13, MonitorConds, OwnersAre, Zenon
    <2>2. ~WaitsNow
      BY Zenon DEF WaitsNow, WaitAt
    <2>3. monitorQueue = [d \in MonitorCond |-> cond_waiters[d]]
      BY <2>1, <2>2, QueueIs, Zenon
    <2>4. monitorQueue' = [d \in MonitorCond |-> cond_waiters'[d]]
      <3>1. ASSUME NEW d \in MonitorCond
            PROVE  cond_waiters'[d] \in Seq(Thread) /\ running \notin Range(cond_waiters'[d])
        <4>1. d \in Cond /\ cond_waiters[d] \in Seq(Thread) /\ running \notin Range(cond_waiters[d])
          BY <1>1, <2>2, MonitorConds, NotListed, Zenon
        <4>2. CASE d = c
          BY <1>2, <1>3, <4>1, <4>2, Zenon DEF q
        <4>3. CASE d # c
          BY <1>2, <4>1, <4>3, Zenon
        <4> QED  BY <4>2, <4>3, Zenon
      <3>2. \A d \in MonitorCond : cond_waiters'[d] \in Seq(Thread) /\ Range(cond_waiters'[d]) \cap Owners(theLock)' = {}
        BY <2>1, <3>1, Zenon
      <3> QED  BY <3>2, QueueNext, Zenon
    <2>5. monitorQueue' = [monitorQueue EXCEPT ![c] = Tail(@)] /\ monitorQueue[c] = q
      <3>1. \A d \in MonitorCond : cond_waiters'[d] = IF d = c THEN Tail(cond_waiters[c]) ELSE cond_waiters[d]
        BY <1>2, MonitorConds, Zenon DEF q
      <3> QED  BY <1>13, <2>3, <2>4, <3>1, Zenon DEF q
    <2>6. ASSUME NEW t \in Thread
          PROVE  t \in monitorSignalled' <=> t \in monitorSignalled \/ t = h
      <3>1. ASSUME cond[t] \in MonitorCond, cond[t] # c
            PROVE  cond_waiters'[cond[t]] = cond_waiters[cond[t]]
        BY <1>2, <3>1, MonitorConds, Zenon
      <3>2. ASSUME cond[t] = c
            PROVE  t \in Range(cond_waiters'[c]) <=> t \in Range(cond_waiters[c]) /\ t # h
        BY <1>2, <1>3, Zenon DEF q
      <3>3. h # running
        BY <1>3, <2>2, NotListed, Zenon DEF q
      <3> QED  BY <1>5, <1>8, <1>13, <2>1, <3>1, <3>2, <3>3, Zenon DEF monitorSignalled
    <2>7. monitorSignalled' = monitorSignalled \cup {h}
      <3>1. monitorSignalled' \subseteq Thread /\ monitorSignalled \subseteq Thread
        BY Zenon DEF monitorSignalled
      <3> QED  BY <1>4, <2>6, <3>1, Zenon
    <2>8. monitorOwner = running
      BY <1>1, <2>1, OwnerIs, Zenon
    <2>9. M!Signal(c)
      BY <1>1, <1>11, <2>5, <2>7, <2>8, Zenon DEF M!Signal, h
    <2> QED  BY <1>9, <1>13, <2>9, Zenon DEF Simulated, M!MNext
  <1> QED  BY <1>12, <1>13, Zenon

\* The start and the end of cond_broadcast: the condition variable of the
\* lock's owner changes.
LEMMA BroadcastMonitor ==
  ASSUME KernelInv, NEW c \in Cond, NEW p, NEW d, Goto(p, NULL, "run", d), holder[CondLock[c]] = running,
         holder' = holder, cond_waiters' = cond_waiters,
         \/ pc[running] = "run" /\ p = "bcast" /\ d = c
         \/ pc[running] = "bcast" /\ cond[running] = c /\ p = "run" /\ d = NULL
  PROVE  MonitorInv' /\ Simulated
  <1>1. /\ Alone /\ running \in Thread /\ pc'[running] = p /\ cond'[running] = d /\ theLock \in Lock
        /\ CondLock[c] \in Lock /\ NULL \notin Cond
        /\ MonitorAt(pc[running], on[running], ret[running], cond[running])
    BY KernelHas, GotoAlone, Zenon
  <1>2. MonitorInv'
    <2>1. /\ ByHolder /\ MonitorAt(p, NULL, "run", d) /\ ~Leaving(p, "run")
          /\ InMonitor(p, "run") => holder'[CondLock[d]] = running
      BY Zenon DEF ByHolder, MonitorAt, Leaving, InMonitor
    <2> QED  BY <2>1, MoveMonitor, Zenon
  <1>3. Owners(theLock)' = Owners(theLock)
    BY <1>1, OwnersSame, Zenon
  <1>4. cond[running] \in {NULL, c} /\ d \in {NULL, c}
    BY <1>1, Zenon DEF MonitorAt
  <1>5. ASSUME NEW t \in Thread \ Owners(theLock)
        PROVE  cond'[t] = cond[t] \/ (cond[t] \notin MonitorCond /\ cond'[t] \notin MonitorCond)
    <2>1. CASE t # running
      BY <1>1, <2>1, Zenon DEF Alone
    <2>2. CASE t = running
      <3>1. c \notin MonitorCond /\ NULL \notin MonitorCond
        BY <1>1, <1>5, <2>2, MonitorConds, OwnersAre, Zenon
      <3> QED  BY <1>1, <1>4, <2>2, <3>1, Zenon
    <2> QED  BY <2>1, <2>2, Zenon
  <1> QED  BY <1>2, <1>3, <1>5, StutterMonitor, Zenon DEF Simulated

\* A step that moves no thread, but for the idle loop's.
LEMMA StayMonitor ==
  ASSUME KernelInv, UNCHANGED <<pc, on, ret, cond>> \/ leave_hlt, holder' = holder,
         cond_waiters' = cond_waiters
  PROVE  MonitorInv' /\ Simulated
  <1>1. running \in Thread /\ theLock \in Lock /\ pc \in [Thread -> PC] /\ MonitorInv
    BY KernelHas, Zenon DEF TypeInv, TypeOK
  <1>2. /\ \A t \in Thread : pc'[t] = pc[t] \/ (pc[t] = "halt" /\ pc'[t] = "idle")
        /\ on' = on /\ ret' = ret /\ cond' = cond
    BY <1>1, Zenon DEF leave_hlt
  <1>3. ASSUME NEW t \in Thread
        PROVE  MonitorAt(pc'[t], on'[t], ret'[t], cond'[t]) /\ HoldsOK(t)' /\ LastOK(t)'
    <2>1. MonitorAt(pc[t], on[t], ret[t], cond[t]) /\ HoldsOK(t) /\ LastOK(t)
      BY <1>1, Zenon DEF MonitorInv
    <2>2. CASE pc'[t] = pc[t]
      BY <1>2, <2>1, <2>2, Zenon DEF HoldsOK, LastOK
    <2>3. CASE pc[t] = "halt" /\ pc'[t] = "idle"
      BY <1>2, <2>1, <2>3, Zenon DEF MonitorAt, HoldsOK, LastOK, InMonitor, Leaving
    <2> QED  BY <1>2, <2>2, <2>3, Zenon
  <1>4. MonitorInv'
    BY <1>3, Zenon DEF MonitorInv
  <1>5. Owners(theLock)' = Owners(theLock)
    <2>1. \A t \in Thread : pc'[t] \in {"own", "up"} <=> pc[t] \in {"own", "up"}
      BY <1>2, Zenon
    <2> QED  BY <1>2, <2>1, Zenon DEF Owners
  <1> QED  BY <1>2, <1>4, <1>5, StutterMonitor, Zenon DEF Simulated

LEMMA CallMonitor ==
  ASSUME KernelInv, Call
  PROVE  MonitorInv' /\ Simulated
  <1> USE DEF At, semaVars
  <1>1. /\ pc[running] = "run" /\ cond[running] = NULL /\ NULL \notin Thread \cup Cond \cup Lock
        /\ Sema \cup Lock \subseteq Semaphore /\ Sema \cap Thread = {} /\ Sema \cap Lock = {}
        /\ Lock \cap Thread = {} /\ TidLock \in Lock
    <2>1. pc[running] = "run"
      BY Zenon
      DEF Call, SemaDown, SemaTryDown, SemaUp, LockAcquire, LockTryAcquire, LockRelease, CondWait,
          CondSignal, CondBroadcast, ThreadCreate, ThreadExit, ThreadYield, TimerSleep
    <2> QED  BY <2>1, KernelHas, SynchAssumption, Zenon DEF MonitorAt, Semaphore
  <1>2. ~WaitsNow
    BY <1>1, Zenon DEF WaitsNow, WaitAt
  <1>3. \A s \in Sema \cup Lock : MonitorAt("down", s, "run", NULL)
    BY Zenon DEF MonitorAt
  <1>4. ASSUME NEW s \in Sema, SemaDown(s)  PROVE MonitorInv' /\ Simulated
    BY <1>1, <1>3, <1>4, DownMonitor, Zenon DEF SemaDown
  <1>5. ASSUME NEW s \in Sema, SemaTryDown(s) \/ SemaUp(s)  PROVE MonitorInv' /\ Simulated
    BY <1>5, StayMonitor, Zenon DEF SemaTryDown, SemaUp
  <1>6. ASSUME NEW l \in Lock, LockAcquire(l)  PROVE MonitorInv' /\ Simulated
    BY <1>1, <1>2, <1>3, <1>6, DownMonitor, Zenon DEF LockAcquire
  <1>7. ASSUME NEW l \in Lock, LockTryAcquire(l)  PROVE MonitorInv' /\ Simulated
    <2>1. MonitorAt("own", l, "run", NULL)
      BY Zenon DEF MonitorAt
    <2> QED  BY <1>1, <1>2, <1>7, <2>1, TakeMonitor, Zenon DEF LockTryAcquire
  <1>8. ASSUME NEW l \in Lock, LockRelease(l)  PROVE MonitorInv' /\ Simulated
    <2>1. MonitorAt("up", l, "run", NULL)
      BY Zenon DEF MonitorAt
    <2> QED  BY <1>1, <1>8, <2>1, ClearHolderMonitor, Zenon DEF LockRelease
  <1>9. ASSUME NEW c \in Cond, CondWait(c)  PROVE MonitorInv' /\ Simulated
    BY <1>9, CondWaitMonitor, Zenon
  <1>10. ASSUME NEW c \in Cond, CondSignal(c)  PROVE MonitorInv' /\ Simulated
    BY <1>1, <1>10, SignalMonitor, Zenon DEF CondSignal
  <1>11. ASSUME NEW c \in Cond, CondBroadcast(c)  PROVE MonitorInv' /\ Simulated
    BY <1>1, <1>11, BroadcastMonitor, Zenon DEF CondBroadcast, HoldsCondLock
  <1>12. ASSUME NEW t \in Thread, ThreadCreate(t)  PROVE MonitorInv' /\ Simulated
    <2>1. MonitorAt("acquire", TidLock, "tid_read", NULL)
      BY Zenon DEF MonitorAt
    <2> QED  BY <1>1, <1>12, <2>1, QuietMonitor, Zenon DEF ThreadCreate
  <1>13. ASSUME ThreadExit \/ ThreadYield  PROVE MonitorInv' /\ Simulated
    BY <1>13, StayMonitor, Zenon DEF ThreadExit, ThreadYield
  <1>14. ASSUME NEW n \in 1 .. MaxSleep, TimerSleep(n)  PROVE MonitorInv' /\ Simulated
    <2>1. MonitorAt("sleep", NULL, "run", NULL)
      BY Zenon DEF MonitorAt
    <2> QED  BY <1>1, <1>14, <2>1, QuietMonitor, Zenon DEF TimerSleep
  <1> QED
    BY <1>4, <1>5, <1>6, <1>7, <1>8, <1>9, <1>10, <1>11, <1>12, <1>13, <1>14, Zenon DEF Call

LEMMA ContinueMonitor ==
  ASSUME KernelInv, Continue
  PROVE  MonitorInv' /\ Simulated
  <1> USE DEF At, semaVars, tidVars
  <1>1. /\ running \in Thread /\ NULL \notin Thread \cup Cond \cup Lock /\ Lock \cap Thread = {}
        /\ Lock \cup Thread \cup {IdleStarted} \subseteq Semaphore /\ IdleStarted \notin Thread \cup Lock
        /\ TidLock \in Lock /\ CondLock \in [Cond -> Lock]
        /\ ShapeAt(running, pc[running], on[running], ret[running], child[running])
        /\ ControlAt(pc[running], on[running], ret[running], cond[running], child[running])
        /\ MonitorAt(pc[running], on[running], ret[running], cond[running])
    BY KernelHas, SynchAssumption, Zenon DEF Semaphore
  <1>2. CASE SemaDownLoop
    <2>1. /\ pc[running] = "down" /\ on[running] \in Semaphore
          /\ MonitorAt("down", on[running], ret[running], cond[running])
          /\ on[running] \in Thread => cond[running] \in Cond
          /\ on[running] \in Lock => ~WaitsNow
      BY <1>1, <1>2, Zenon DEF SemaDownLoop, ControlAt, WaitsNow, WaitAt
    <2> QED  BY <1>2, <2>1, DownMonitor, Zenon DEF SemaDownLoop
  <1>3. CASE LockAcquireCall
    <2>1. /\ pc[running] = "acquire" /\ on[running] \in Lock /\ on[running] \in Semaphore
          /\ on[running] \notin Thread /\ ~WaitsNow
      BY <1>1, <1>3, Zenon DEF LockAcquireCall, ControlAt, WaitsNow, WaitAt
    <2>2. MonitorAt("down", on[running], ret[running], cond[running])
      BY <1>1, <2>1, Zenon DEF MonitorAt
    <2> QED  BY <1>3, <2>1, <2>2, DownMonitor, Zenon DEF LockAcquireCall
  <1>4. CASE LockReleaseCall
    <2>1. /\ pc[running] = "release" /\ on[running] \in Lock
          /\ ret[running] = "wait" => IsLast(cond_waiters[cond[running]], running)
      BY <1>1, <1>4, KernelHas, Zenon DEF LockReleaseCall, ControlAt, MonitorInv, LastOK, Leaving
    <2>2. /\ MonitorAt("up", on[running], ret[running], cond[running]) /\ ret[running] # "bcast"
      BY <1>1, <2>1, Zenon DEF MonitorAt, ControlAt
    <2> QED  BY <1>4, <2>1, <2>2, ClearHolderMonitor, Zenon DEF LockReleaseCall
  <1>5. CASE CondWaitDown
    <2>1. /\ pc[running] = "wait" /\ cond[running] \in Cond /\ running \in Semaphore /\ running \notin Lock
          /\ MonitorAt("down", running, "run", cond[running])
      BY <1>1, <1>5, Zenon DEF CondWaitDown, ControlAt, MonitorAt
    <2> QED  BY <1>5, <2>1, DownMonitor, Zenon DEF CondWaitDown
  <1>6. CASE CondBroadcastLoop
    <2>1. pc[running] = "bcast" /\ cond[running] \in Cond /\ holder[CondLock[cond[running]]] = running
          /\ holder' = holder
      BY <1>1, <1>6, KernelHas, Zenon DEF CondBroadcastLoop, ControlAt, MonitorInv, HoldsOK, InMonitor
    <2>2. CASE cond_signal(cond[running], "bcast", cond[running])
      BY <2>1, <2>2, SignalMonitor, Zenon
    <2>3. CASE Goto("run", NULL, "run", NULL) /\ cond_waiters' = cond_waiters
      BY <2>1, <2>3, BroadcastMonitor, Zenon
    <2> QED  BY <1>6, <2>2, <2>3, Zenon DEF CondBroadcastLoop
  <1>7. CASE TidRead \/ TidWrite \/ ThreadCreated \/ ThreadStart \/ IdleInit \/ IdleUp \/ IdleBlock
    <2>1. pc[running] \in {"tid_read", "tid_write", "created", "start", "idle_init", "idle_up", "idle"}
      BY <1>7, Zenon DEF TidRead, TidWrite, ThreadCreated, ThreadStart, IdleInit, IdleUp, IdleBlock
    <2>2. cond[running] = NULL
      BY <1>1, <2>1, Zenon DEF MonitorAt
    <2>3. holder' = holder /\ cond_waiters' = cond_waiters
      BY <1>7, Zenon DEF TidRead, TidWrite, ThreadCreated, ThreadStart, IdleInit, IdleUp, IdleBlock
    <2>4. \/ Goto("tid_write", NULL, "run", NULL) \/ Goto("release", TidLock, "created", NULL)
          \/ Goto("run", NULL, "run", NULL) \/ Goto("idle_started", NULL, "run", NULL)
          \/ Goto("idle_up", NULL, "run", NULL) \/ Goto("halt", NULL, "run", NULL)
          \/ Goto("idle", NULL, "run", NULL)
      BY <1>7, Zenon DEF TidRead, TidWrite, ThreadCreated, ThreadStart, IdleInit, IdleUp, IdleBlock
    <2>5. /\ MonitorAt("release", TidLock, "created", NULL)
          /\ \A p : MonitorAt(p, NULL, "run", NULL)
      BY <1>1, Zenon DEF MonitorAt
    <2>6. CASE Goto("release", TidLock, "created", NULL)
      BY <2>1, <2>2, <2>3, <2>5, <2>6, QuietMonitor, Zenon
    <2>7. ASSUME NEW p \in {"tid_write", "run", "idle_started", "idle_up", "halt", "idle"},
                 Goto(p, NULL, "run", NULL)
          PROVE  MonitorInv' /\ Simulated
      <3>1. p \notin {"own", "up", "bcast", "release"}
        BY Zenon
      <3> QED  BY <2>1, <2>2, <2>3, <2>5, <2>7, <3>1, QuietMonitor, Zenon
    <2> QED  BY <2>4, <2>6, <2>7, Zenon
  <1>8. CASE ThreadStartWait
    <2>1. pc[running] = "idle_started" /\ cond[running] = NULL /\ MonitorAt("down", IdleStarted, "run", NULL)
      BY <1>1, <1>8, Zenon DEF ThreadStartWait, MonitorAt
    <2> QED  BY <1>1, <1>8, <2>1, DownMonitor, Zenon DEF ThreadStartWait
  <1>9. CASE TimerSleepLoop
    <2>1. pc[running] = "sleep" /\ cond[running] = NULL /\ MonitorAt("run", NULL, "run", NULL)
      BY <1>1, <1>9, Zenon DEF TimerSleepLoop, MonitorAt
    <2>2. CASE Goto("run", NULL, "run", NULL)
      BY <1>9, <2>1, <2>2, QuietMonitor, Zenon DEF TimerSleepLoop
    <2>3. CASE UNCHANGED <<pc, on, ret, cond>>
      BY <1>9, <2>3, StayMonitor, Zenon DEF TimerSleepLoop
    <2> QED  BY <1>9, <2>2, <2>3, Zenon DEF TimerSleepLoop
  <1> QED
    BY <1>2, <1>3, <1>4, <1>5, <1>6, <1>7, <1>8, <1>9, SetHolderMonitor, UpMonitor, Zenon DEF Continue

LEMMA MonitorStep == KernelInv /\ [Next]_vars => MonitorInv' /\ Simulated
  <1> SUFFICES ASSUME KernelInv, [Next]_vars  PROVE MonitorInv' /\ Simulated
    BY Zenon
  <1>1. CASE Interrupt
    BY <1>1, StayMonitor, Zenon DEF Interrupt, TimerInterrupt, DeviceInterrupt
  <1>2. CASE UNCHANGED vars
    BY <1>2, StayMonitor, Zenon DEF vars
  <1> QED  BY <1>1, <1>2, CallMonitor, ContinueMonitor, Zenon DEF Next

LEMMA MonitorInit == Init => MonitorInv /\ M!MInit
  <1> SUFFICES ASSUME Init  PROVE MonitorInv /\ M!MInit
    BY Zenon
  <1>1. MonitorInv
    BY Zenon DEF Init, MonitorInv, MonitorAt, HoldsOK, LastOK, InMonitor, Leaving
  <1>2. Owners(theLock) = {}
    BY ThreadAssumption, SynchAssumption, MonitorAssumption, Zenon DEF Init, Owners
  <1>3. monitorOwner = NULL /\ monitorSignalled = {}
    <2>1. \A t \in Thread : cond[t] \notin MonitorCond
      BY SynchAssumption, MonitorConds, Zenon DEF Init
    <2> QED  BY <1>2, <2>1, OwnerIs, Zenon DEF monitorSignalled
  <1>4. monitorQueue = [c \in MonitorCond |-> <<>>]
    <2>1. \A c \in MonitorCond : cond_waiters[c] = <<>>
      BY MonitorConds, Zenon DEF Init
    <2>2. withoutOwner(<<>>, {}) = <<>>
      BY Zenon DEF withoutOwner
    <2> QED  BY <1>2, <2>1, <2>2, Zenon DEF monitorQueue
  <1> QED  BY <1>1, <1>3, <1>4, Zenon DEF M!MInit

-----------------------------------------------------------------------------
(* The invariants and the theorems. *)

\* The facts on finite sets that the lemmas above assume hold. They are taken
\* from the library only here: in scope earlier they would burden every proof.
INSTANCE FiniteSetTheorems

LEMMA CountingHolds == Counting
  <1>1. CountNat /\ CountEmpty
    BY FS_CardinalityType, FS_EmptySet, Zenon DEF CountNat, CountEmpty
  <1>2. CountAdd /\ CountRemove
    BY FS_AddElement, FS_RemoveElement, Zenon DEF CountAdd, CountRemove
  <1>3. CountSubset
    BY FS_Subset, Zenon DEF CountSubset
  <1> QED  BY <1>1, <1>2, <1>3, Zenon DEF Counting

LEMMA WakeInvariant == Spec => []WakeInv
  <1>1. WakeInv /\ TypeInv' /\ [Next]_vars => WakeInv'
    BY WakeStep, CountingHolds, Zenon
  <1> QED  BY <1>1, TypeInvariant, InitQueue, PTL DEF Spec

\* No thread is ever lost: a ready one is on the run queue once, a blocked one
\* on the wait list of its semaphore, being created, or the idle thread
\* (thread_block, thread_unblock, sema_down, sema_up).
THEOREM ThreadsFound == Spec => []ThreadsQueued
  <1>1. WakeInv => ThreadsQueued
    BY Zenon DEF WakeInv, QueueInv, Findable, ThreadsQueued
  <1> QED  BY <1>1, WakeInvariant, PTL

\* No wake-up is lost: while threads wait for a semaphore, every unit of its
\* value has a woken thread on the way to take it, although other threads may
\* take units in between and sema_up wakes one thread at a time (sema_up).
THEOREM WakeupsKept == Spec => []NoLostWakeup
  BY WakeInvariant, PTL DEF WakeInv

LEMMA SignalInvariant == Spec => []SignalInv
  <1>1. Init => SignalInv
    <2> SUFFICES ASSUME Init  PROVE SignalInv
      BY Zenon
    <2>1. \A c \in Cond : cond_waiters[c] = <<>>
      BY Zenon DEF Init
    <2>2. ASSUME NEW t \in Thread  PROVE SignalOK(t)
      <3>1. Listed(t) = {}
        BY <2>1, EmptyList, Zenon DEF Listed
      <3>2. Signallers(t) = {} /\ value[t] = 0
        BY SynchAssumption, Zenon DEF Init, Signallers, Semaphore, sema_init
      <3>3. ~InCondWait(t)
        BY Zenon DEF Init, InCondWait
      <3> QED  BY <3>1, <3>2, <3>3, Zenon DEF SignalOK
    <2> QED  BY <2>1, <2>2, EmptyList, Zenon DEF SignalInv
  <1> QED  BY <1>1, WakeInvariant, SignalStep, PTL DEF Spec

\* No signal is lost and none hits a dead stack frame: a thread in cond_wait is
\* on the list of its condition, or about to be upped by exactly one signaller,
\* or has been upped once; no other thread is any of these (cond_wait,
\* cond_signal, cond_broadcast).
THEOREM SignalsKept == Spec => []NoLostSignal
  <1>1. SignalInv => NoLostSignal
    <2> SUFFICES ASSUME SignalInv, NEW t \in Thread
                 PROVE  IF InCondWait(t)
                          THEN \/ Listed(t) = {cond[t]} /\ Signallers(t) = {} /\ value[t] = 0
                               \/ Listed(t) = {} /\ Cardinality(Signallers(t)) = 1 /\ value[t] = 0
                               \/ Listed(t) = {} /\ Signallers(t) = {} /\ value[t] = 1
                          ELSE Listed(t) = {} /\ Signallers(t) = {} /\ value[t] = 0
      BY Zenon DEF NoLostSignal, Listed
    <2>1. \A u \in Thread : Cardinality({u}) = 1
      BY FS_Singleton, Zenon
    <2> QED  BY <2>1, Zenon DEF SignalInv, SignalOK
  <1> QED  BY <1>1, SignalInvariant, PTL

LEMMA MonitorInvariant == Spec => []KernelInv
  <1>1. KernelInv <=> WakeInv /\ SignalInv /\ LocksOK /\ MonitorInv
    BY Zenon DEF KernelInv
  <1>2. Init => MonitorInv
    BY MonitorInit, Zenon
  <1>3. KernelInv /\ [Next]_vars => MonitorInv'
    BY MonitorStep, Zenon
  <1> QED  BY <1>1, <1>2, <1>3, WakeInvariant, SignalInvariant, LockInvariant, PTL DEF Spec

\* A lock and its condition variables implement the monitor that the comments
\* of synch.c promise: although cond_wait puts itself on the list, releases the
\* lock and goes to sleep in steps that other threads can come between, each
\* step is one step of the monitor or none (lock_acquire, lock_try_acquire,
\* lock_release, cond_wait, cond_signal, cond_broadcast).
THEOREM LocksAreMonitors == Spec => ImplementsMonitor
  <1>1. Init => M!MInit
    BY MonitorInit, Zenon
  <1>2. KernelInv /\ [Next]_vars => [M!MNext]_(M!mvars)
    <2> SUFFICES ASSUME KernelInv, [Next]_vars  PROVE [M!MNext]_(M!mvars)
      BY Zenon
    <2>1. Simulated
      BY MonitorStep, Zenon
    <2> QED  BY <2>1, Zenon DEF Simulated, SameMonitor, M!mvars
  <1> QED  BY <1>1, <1>2, MonitorInvariant, PTL DEF Spec, ImplementsMonitor, M!MSpec
=============================================================================
