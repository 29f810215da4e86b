---------------------------- MODULE ThreadProofs ----------------------------
(***************************************************************************)
(* Lemmas about the run queue of Threads: what append and pop do to a list *)
(* of threads, and that every fragment of the scheduler keeps RunQueueOK.  *)
(* The proofs about Synch and about Process rest on them.                  *)
(***************************************************************************)
EXTENDS Threads, Counting, TLAPS

-----------------------------------------------------------------------------
(* Lists of threads. *)

LEMMA ListIs ==
  ASSUME NEW S, NEW q \in Seq(S)
  PROVE  Len(q) \in Nat /\ DOMAIN q = 1 .. Len(q) /\ (q = <<>> <=> Len(q) = 0)
  OBVIOUS

LEMMA PushIs ==
  ASSUME NEW S, NEW q \in Seq(S), NEW x \in S
  PROVE  /\ Append(q, x) \in Seq(S) /\ Append(q, x) # <<>>
         /\ Len(Append(q, x)) = Len(q) + 1
         /\ \A i \in 1 .. Len(q) : Append(q, x)[i] = q[i]
         /\ Append(q, x)[Len(q) + 1] = x
  OBVIOUS

LEMMA PopIs ==
  ASSUME NEW S, NEW q \in Seq(S), q # <<>>
  PROVE  /\ Head(q) \in S /\ Tail(q) \in Seq(S)
         /\ Len(Tail(q)) = Len(q) - 1
         /\ \A i \in 1 .. Len(Tail(q)) : Tail(q)[i] = q[i + 1]
         /\ Head(q) = q[1]
  OBVIOUS

LEMMA HeadOrTail ==
  ASSUME NEW S, NEW q \in Seq(S), NEW x \in Range(q)
  PROVE  q # <<>> /\ (x = Head(q) \/ x \in Range(Tail(q)))
  <1>1. PICK i \in 1 .. Len(q) : x = q[i]
    BY DEF Range
  <1>2. q # <<>> /\ Len(q) \in Nat
    BY <1>1
  <1>3. CASE i = 1
    BY <1>1, <1>2, <1>3
  <1>4. CASE i # 1
    <2>1. i - 1 \in 1 .. Len(Tail(q)) /\ Tail(q)[i - 1] = q[i]
      BY <1>1, <1>2, <1>4
    <2>2. i - 1 \in DOMAIN Tail(q)
      BY <2>1, <1>2
    <2> QED
      BY <2>1, <2>2, <1>1, <1>2 DEF Range
  <1> QED
    BY <1>3, <1>4

LEMMA AppendRange ==
  ASSUME NEW S, NEW q \in Seq(S), NEW x \in S
  PROVE  /\ Append(q, x) \in Seq(S)
         /\ Append(q, x) # <<>>
         /\ Range(Append(q, x)) = Range(q) \cup {x}
  <1>1. Append(q, x) \in Seq(S) /\ Append(q, x) # <<>>
    BY PushIs
  <1>2. /\ Len(Append(q, x)) = Len(q) + 1
        /\ \A i \in 1 .. Len(q) : Append(q, x)[i] = q[i]
        /\ Append(q, x)[Len(q) + 1] = x
        /\ Len(q) \in Nat
    BY PushIs, ListIs
  <1>3. DOMAIN Append(q, x) = 1 .. (Len(q) + 1) /\ DOMAIN q = 1 .. Len(q)
    BY <1>1, <1>2, ListIs
  <1>4. 1 .. (Len(q) + 1) = (1 .. Len(q)) \cup {Len(q) + 1}
    BY <1>2
  <1> QED
    BY <1>1, <1>2, <1>3, <1>4 DEF Range

LEMMA AppendOnce ==
  ASSUME NEW S, NEW q \in Seq(S), NEW x \in S, IsInjective(q), x \notin Range(q)
  PROVE  IsInjective(Append(q, x))
  <1>1. /\ Len(Append(q, x)) = Len(q) + 1
        /\ \A i \in 1 .. Len(q) : Append(q, x)[i] = q[i]
        /\ Append(q, x)[Len(q) + 1] = x
        /\ Append(q, x) \in Seq(S)
        /\ Len(q) \in Nat
    BY PushIs, ListIs
  <1>2. DOMAIN Append(q, x) = 1 .. (Len(q) + 1) /\ DOMAIN q = 1 .. Len(q)
    BY <1>1, ListIs
  <1>3. \A i \in 1 .. Len(q) : q[i] # x
    BY <1>2 DEF Range
  <1> QED
    BY <1>1, <1>2, <1>3 DEF IsInjective

\* A pop takes the head off, and nothing else.
LEMMA TailOnce ==
  ASSUME NEW S, NEW q \in Seq(S), q # <<>>, IsInjective(q)
  PROVE  /\ IsInjective(Tail(q))
         /\ Head(q) \in Range(q)
         /\ Range(Tail(q)) = Range(q) \ {Head(q)}
  <1>1. /\ Len(q) \in Nat \ {0} /\ Len(Tail(q)) = Len(q) - 1 /\ Tail(q) \in Seq(S)
        /\ \A i \in 1 .. Len(Tail(q)) : Tail(q)[i] = q[i + 1]
        /\ Head(q) = q[1]
    BY PopIs, ListIs
  <1>2. DOMAIN q = 1 .. Len(q) /\ DOMAIN Tail(q) = 1 .. (Len(q) - 1)
    BY <1>1, ListIs
  <1>3. IsInjective(Tail(q))
    <2> SUFFICES ASSUME NEW i \in 1 .. (Len(q) - 1), NEW j \in 1 .. (Len(q) - 1),
                        Tail(q)[i] = Tail(q)[j]
                 PROVE  i = j
      BY <1>2 DEF IsInjective
    <2>1. i + 1 \in 1 .. Len(q) /\ j + 1 \in 1 .. Len(q) /\ q[i + 1] = q[j + 1]
      BY <1>1
    <2> QED
      BY <1>2, <2>1 DEF IsInjective
  <1>4. Head(q) \in Range(q)
    BY <1>1, <1>2 DEF Range
  <1>5. ASSUME NEW x \in Range(Tail(q))  PROVE x \in Range(q) \ {Head(q)}
    <2>1. PICK i \in 1 .. (Len(q) - 1) : x = Tail(q)[i]
      BY <1>2 DEF Range
    <2>2. i + 1 \in 1 .. Len(q) /\ x = q[i + 1] /\ i + 1 # 1 /\ 1 \in 1 .. Len(q)
      BY <1>1, <2>1
    <2> QED
      BY <1>1, <1>2, <2>2 DEF Range, IsInjective
  <1>6. ASSUME NEW x \in Range(q) \ {Head(q)}  PROVE x \in Range(Tail(q))
    BY <1>6, HeadOrTail
  <1> QED
    BY <1>3, <1>4, <1>5, <1>6

LEMMA EmptyList ==
  /\ Range(<<>>) = {}
  /\ IsInjective(<<>>)
  BY DEF Range, IsInjective

-----------------------------------------------------------------------------
(* The scheduler's fragments keep the types. *)

\* What the proofs need of a run queue in BootOK: the idle thread stays on it
\* until schedule() picks it.
IdleKept == idle_thread' = NULL => running' = Idle \/ Idle \in Range(ready_list')

LEMMA ScheduleType ==
  ASSUME ThreadsTypeOK, NEW st \in [Thread -> Status], NEW rl \in Seq(Thread),
         rl # <<>> \/ idle_thread # NULL,
         schedule(st, rl)
  PROVE  /\ running' \in Thread
         /\ status' \in [Thread -> Status]
         /\ ready_list' \in Seq(Thread)
         /\ idle_thread' = idle_thread
         /\ thread_ticks' = 0
         /\ Idle \in Range(rl) => running' = Idle \/ Idle \in Range(ready_list')
  <1>1. running' \in Thread
    BY ThreadAssumption, PopIs DEF schedule, next_thread_to_run, ThreadsTypeOK
  <1>2. status' \in [Thread -> Status]
    BY DEF schedule, thread_schedule_tail, Status
  <1>3. ready_list' \in Seq(Thread)
    BY PopIs DEF schedule
  <1>4. ASSUME Idle \in Range(rl) PROVE running' = Idle \/ Idle \in Range(ready_list')
    <2>1. rl # <<>> /\ (Idle = Head(rl) \/ Idle \in Range(Tail(rl)))
      BY <1>4, HeadOrTail
    <2> QED
      BY <2>1 DEF schedule, next_thread_to_run
  <1> QED
    BY <1>1, <1>2, <1>3, <1>4 DEF schedule

\* A thread other than the idle thread blocks, or exits: the run queue is not
\* empty while idle_thread is not set.
LEMMA BlockType ==
  ASSUME ThreadsTypeOK, thread_block,
         idle_thread = NULL => Idle \in Range(ready_list)
  PROVE  ThreadsTypeOK' /\ IdleKept
  <1> DEFINE st == [status EXCEPT ![running] = "BLOCKED"]
  <1>1. st \in [Thread -> Status] /\ ready_list \in Seq(Thread)
    BY DEF ThreadsTypeOK, Status
  <1>2. idle_thread # NULL \/ ready_list # <<>>
    BY <1>1, HeadOrTail
  <1>3. schedule(st, ready_list)
    BY DEF thread_block
  <1> HIDE DEF st
  <1> QED
    BY <1>1, <1>2, <1>3, ScheduleType, ThreadAssumption
    DEF ThreadsTypeOK, thread_block, IdleKept

LEMMA ExitType ==
  ASSUME ThreadsTypeOK, NEW waiter \in Thread \cup {NULL}, thread_exit(waiter),
         idle_thread = NULL => Idle \in Range(ready_list)
  PROVE  ThreadsTypeOK' /\ IdleKept
  <1> DEFINE st == IF waiter = NULL
                     THEN [status EXCEPT ![running] = "DYING"]
                     ELSE [status EXCEPT ![waiter] = "READY", ![running] = "DYING"]
             rl == IF waiter = NULL THEN ready_list ELSE Append(ready_list, waiter)
  <1>1. st \in [Thread -> Status]
    BY DEF ThreadsTypeOK, Status
  <1>2. /\ rl \in Seq(Thread)
        /\ rl # <<>> \/ idle_thread # NULL
        /\ idle_thread = NULL => Idle \in Range(rl)
    BY HeadOrTail, AppendRange DEF ThreadsTypeOK
  <1>3. schedule(st, rl)
    BY DEF thread_exit
  <1> HIDE DEF st, rl
  <1> QED
    BY <1>1, <1>2, <1>3, ScheduleType, ThreadAssumption
    DEF ThreadsTypeOK, thread_exit, IdleKept

LEMMA YieldType ==
  ASSUME ThreadsTypeOK, thread_yield,
         idle_thread = NULL => running = Idle \/ Idle \in Range(ready_list)
  PROVE  ThreadsTypeOK' /\ IdleKept
  <1> DEFINE st == [status EXCEPT ![running] = "READY"]
             rl == IF running = idle_thread THEN ready_list ELSE Append(ready_list, running)
  <1>1. st \in [Thread -> Status] /\ running \in Thread /\ ready_list \in Seq(Thread)
    BY DEF ThreadsTypeOK, Status
  <1>2. /\ rl \in Seq(Thread)
        /\ rl # <<>> \/ idle_thread # NULL
        /\ idle_thread = NULL => Idle \in Range(rl)
    BY <1>1, AppendRange, ThreadAssumption
  <1>3. schedule(st, rl)
    BY DEF thread_yield
  <1> HIDE DEF st, rl
  <1> QED
    BY <1>1, <1>2, <1>3, ScheduleType, ThreadAssumption
    DEF ThreadsTypeOK, thread_yield, IdleKept

LEMMA UnblockType ==
  ASSUME ThreadsTypeOK, NEW t \in Thread, thread_unblock(t),
         idle_thread = NULL => running = Idle \/ Idle \in Range(ready_list)
  PROVE  ThreadsTypeOK' /\ IdleKept
  <1>1. /\ ready_list' \in Seq(Thread)
        /\ Range(ready_list') = Range(ready_list) \cup {t}
    BY AppendRange DEF ThreadsTypeOK, thread_unblock
  <1> QED
    BY <1>1 DEF ThreadsTypeOK, thread_unblock, IdleKept, Status

LEMMA TickType ==
  ASSUME ThreadsTypeOK, thread_tick,
         idle_thread = NULL => running = Idle \/ Idle \in Range(ready_list)
  PROVE  ThreadsTypeOK' /\ IdleKept
  <1>1. CASE thread_ticks + 1 >= TIME_SLICE
    BY <1>1, YieldType DEF thread_tick
  <1>2. CASE ~(thread_ticks + 1 >= TIME_SLICE)
    BY <1>2, ThreadAssumption DEF thread_tick, ThreadsTypeOK, IdleKept
  <1> QED
    BY <1>1, <1>2

-----------------------------------------------------------------------------
(* The scheduler's fragments keep the run queue. *)

\* What schedule() is entered with: rl holds the threads that st says are
\* ready, once each, and the thread that was running has another status.
Queued(st, rl) ==
  /\ IsInjective(rl)
  /\ Range(rl) = {t \in Thread : st[t] = "READY"} \ {idle_thread}
  /\ \A t \in Thread : st[t] # "RUNNING"

LEMMA ScheduleQueue ==
  ASSUME ThreadsTypeOK, NEW st \in [Thread -> Status], NEW rl \in Seq(Thread),
         rl # <<>> \/ idle_thread # NULL, Queued(st, rl), schedule(st, rl)
  PROVE  /\ RunQueueOK'
         /\ running' \in Thread /\ running' \in Range(rl) \cup {idle_thread}
         /\ \A t \in Thread \ {running'} :
              status'[t] = IF t = running /\ st[t] = "DYING" /\ t # Main THEN "FREE" ELSE st[t]
  <1> DEFINE next == next_thread_to_run(rl)
  <1>1. /\ running' = next /\ idle_thread' = idle_thread
        /\ status' = thread_schedule_tail(st, next)
        /\ ready_list' = IF rl = <<>> THEN rl ELSE Tail(rl)
    BY DEF schedule
  <1>2. /\ next \in Thread
        /\ next \in Range(rl) \cup {idle_thread}
        /\ IsInjective(ready_list')
        /\ Range(ready_list') = Range(rl) \ {next}
    <2>1. CASE rl = <<>>
      BY <1>1, <2>1, EmptyList, ThreadAssumption DEF next_thread_to_run, ThreadsTypeOK
    <2>2. CASE rl # <<>>
      BY <1>1, <2>2, TailOnce, PopIs DEF next_thread_to_run, Queued
    <2> QED  BY <2>1, <2>2
  <1> HIDE DEF next
  <1>3. \A t \in Thread :
          status'[t] = IF t = next THEN "RUNNING"
                       ELSE IF t = running /\ st[t] = "DYING" /\ t # Main THEN "FREE" ELSE st[t]
    BY <1>1 DEF thread_schedule_tail
  <1>4. \A t \in Thread : status'[t] = "READY" <=> t # next /\ st[t] = "READY"
    BY <1>3
  <1>5. \A t \in Thread : status'[t] = "RUNNING" <=> t = next
    BY <1>3 DEF Queued
  <1> QED  BY <1>1, <1>2, <1>3, <1>4, <1>5 DEF RunQueueOK, Queued

\* What a switch leaves as it was: which threads are blocked, and which pages
\* are free, except for the idle thread, which schedule() may pick at any time.
Keeps(blocked, free) ==
  \A t \in Thread :
    /\ status'[t] = "BLOCKED" => t \in blocked
    /\ status'[t] = "FREE" => t \in free
    /\ t # idle_thread => /\ t \in blocked => status'[t] = "BLOCKED"
                          /\ t \in free => status'[t] = "FREE"

Blocked == {t \in Thread : status[t] = "BLOCKED"}
Free == {t \in Thread : status[t] = "FREE"}

LEMMA BlockQueue ==
  ASSUME ThreadsTypeOK, RunQueueOK, ready_list # <<>> \/ idle_thread # NULL, thread_block
  PROVE  /\ RunQueueOK' /\ Keeps(Blocked \cup {running}, Free)
         /\ running' \in Range(ready_list) \cup {idle_thread}
  <1> DEFINE st == [status EXCEPT ![running] = "BLOCKED"]
  <1>1. st \in [Thread -> Status] /\ ready_list \in Seq(Thread) /\ running \in Thread
    BY DEF ThreadsTypeOK, Status
  <1>2. /\ schedule(st, ready_list)
        /\ \A t \in Thread : st[t] = IF t = running THEN "BLOCKED" ELSE status[t]
    BY DEF thread_block, ThreadsTypeOK
  <1> HIDE DEF st
  <1>3. Queued(st, ready_list)
    BY <1>1, <1>2 DEF Queued, RunQueueOK
  <1>4. /\ RunQueueOK' /\ running' \in Thread /\ running' \in Range(ready_list) \cup {idle_thread}
        /\ \A t \in Thread \ {running'} : status'[t] = st[t]
    BY <1>1, <1>2, <1>3, ScheduleQueue
  <1> QED  BY <1>1, <1>2, <1>4 DEF Keeps, Blocked, Free, RunQueueOK

LEMMA YieldQueue ==
  ASSUME ThreadsTypeOK, RunQueueOK, thread_yield
  PROVE  /\ RunQueueOK' /\ Keeps(Blocked, Free)
         /\ running' \in Range(ready_list) \cup {running, idle_thread}
  <1> DEFINE st == [status EXCEPT ![running] = "READY"]
             rl == IF running = idle_thread THEN ready_list ELSE Append(ready_list, running)
  <1>1. st \in [Thread -> Status] /\ ready_list \in Seq(Thread) /\ running \in Thread
    BY DEF ThreadsTypeOK, Status
  <1>2. /\ schedule(st, rl)
        /\ \A t \in Thread : st[t] = IF t = running THEN "READY" ELSE status[t]
    BY DEF thread_yield, ThreadsTypeOK
  <1>3. running \notin Range(ready_list)
    BY DEF RunQueueOK
  <1>4. /\ rl \in Seq(Thread) /\ (rl # <<>> \/ idle_thread # NULL)
        /\ IsInjective(rl)
        /\ Range(rl) = Range(ready_list) \cup (IF running = idle_thread THEN {} ELSE {running})
    <2>1. CASE running = idle_thread
      BY <1>1, <2>1, ThreadAssumption DEF RunQueueOK
    <2>2. CASE running # idle_thread
      BY <1>1, <1>3, <2>2, AppendRange, AppendOnce DEF RunQueueOK
    <2> QED  BY <2>1, <2>2
  <1> HIDE DEF st, rl
  <1>5. Queued(st, rl)
    BY <1>1, <1>2, <1>4 DEF Queued, RunQueueOK
  <1>6. /\ RunQueueOK' /\ running' \in Thread /\ running' \in Range(rl) \cup {idle_thread}
        /\ \A t \in Thread \ {running'} : status'[t] = st[t]
    BY <1>1, <1>2, <1>4, <1>5, ScheduleQueue
  <1> QED  BY <1>1, <1>2, <1>4, <1>6 DEF Keeps, Blocked, Free, RunQueueOK

LEMMA TickQueue ==
  ASSUME ThreadsTypeOK, RunQueueOK, thread_tick
  PROVE  RunQueueOK' /\ Keeps(Blocked, Free) /\ (thread_ticks' # 0 => running' = running)
  <1>1. CASE thread_ticks + 1 >= TIME_SLICE
    BY <1>1, YieldQueue DEF thread_tick, thread_yield, schedule
  <1>2. CASE ~(thread_ticks + 1 >= TIME_SLICE)
    BY <1>2 DEF thread_tick, RunQueueOK, Keeps, Blocked, Free
  <1> QED  BY <1>1, <1>2

\* A thread that is not the idle thread exits, and wakes the one that waits for
\* it, if any.
LEMMA ExitQueue ==
  ASSUME ThreadsTypeOK, RunQueueOK, ready_list # <<>> \/ idle_thread # NULL,
         NEW waiter \in Thread \cup {NULL}, thread_exit(waiter), running # idle_thread,
         waiter # NULL => status[waiter] = "BLOCKED" /\ waiter # idle_thread
  PROVE  /\ RunQueueOK' /\ Keeps(Blocked \ {waiter}, Free \cup ({running} \ {Main}))
         /\ running' # running
  <1> DEFINE st == IF waiter = NULL
                     THEN [status EXCEPT ![running] = "DYING"]
                     ELSE [status EXCEPT ![waiter] = "READY", ![running] = "DYING"]
             rl == IF waiter = NULL THEN ready_list ELSE Append(ready_list, waiter)
  <1>1. /\ st \in [Thread -> Status] /\ ready_list \in Seq(Thread) /\ running \in Thread
        /\ status[running] = "RUNNING"
    BY DEF ThreadsTypeOK, Status, RunQueueOK
  <1>2. /\ schedule(st, rl)
        /\ \A t \in Thread : st[t] = IF t = running THEN "DYING"
                                     ELSE IF t = waiter THEN "READY" ELSE status[t]
    BY <1>1, ThreadAssumption DEF thread_exit, ThreadsTypeOK
  <1>3. /\ rl \in Seq(Thread) /\ (rl # <<>> \/ idle_thread # NULL)
        /\ IsInjective(rl)
        /\ Range(rl) = Range(ready_list) \cup (IF waiter = NULL THEN {} ELSE {waiter})
    <2>1. CASE waiter = NULL
      BY <1>1, <2>1 DEF RunQueueOK
    <2>2. CASE waiter # NULL
      <3>1. waiter \notin Range(ready_list)
        BY <2>2 DEF RunQueueOK
      <3> QED  BY <1>1, <2>2, <3>1, AppendRange, AppendOnce DEF RunQueueOK
    <2> QED  BY <2>1, <2>2
  <1> HIDE DEF st, rl
  <1>4. Queued(st, rl)
    BY <1>1, <1>2, <1>3, ThreadAssumption DEF Queued, RunQueueOK
  <1>5. /\ RunQueueOK' /\ running' \in Thread /\ running' \in Range(rl) \cup {idle_thread}
        /\ \A t \in Thread \ {running'} :
             status'[t] = IF t = running /\ st[t] = "DYING" /\ t # Main THEN "FREE" ELSE st[t]
    BY <1>1, <1>2, <1>3, <1>4, ScheduleQueue
  <1>6. running' # running /\ status'[running'] = "RUNNING"
    BY <1>1, <1>3, <1>5 DEF RunQueueOK
  <1>7. \A t \in Thread \ {idle_thread} : t = running' => status[t] # "FREE" /\
          (status[t] # "BLOCKED" \/ t = waiter)
    BY <1>1, <1>3, <1>5 DEF RunQueueOK
  <1>8. ASSUME NEW t \in Thread
        PROVE  /\ status'[t] = "BLOCKED" => status[t] = "BLOCKED" /\ t # waiter
               /\ status'[t] = "FREE" => status[t] = "FREE" \/ (t = running /\ t # Main)
               /\ t # idle_thread =>
                    /\ status[t] = "BLOCKED" /\ t # waiter => status'[t] = "BLOCKED"
                    /\ status[t] = "FREE" \/ (t = running /\ t # Main) => status'[t] = "FREE"
    <2>1. CASE t = running'
      BY <1>6, <1>7, <2>1
    <2>2. CASE t = running
      BY <1>1, <1>2, <1>5, <1>6, <2>2
    <2>3. CASE t # running /\ t # running'
      BY <1>1, <1>2, <1>5, <2>3, ThreadAssumption
    <2> QED  BY <2>1, <2>2, <2>3
  <1> QED  BY <1>5, <1>6, <1>8 DEF Keeps, Blocked, Free

LEMMA UnblockQueue ==
  ASSUME ThreadsTypeOK, RunQueueOK, NEW t \in Thread, t # idle_thread,
         status[t] = "BLOCKED", thread_unblock(t)
  PROVE  RunQueueOK' /\ Keeps(Blocked \ {t}, Free)
  <1>1. /\ ready_list \in Seq(Thread) /\ t \notin Range(ready_list)
        /\ \A u \in Thread : status'[u] = IF u = t THEN "READY" ELSE status[u]
    BY DEF ThreadsTypeOK, thread_unblock, RunQueueOK
  <1>2. IsInjective(ready_list') /\ Range(ready_list') = Range(ready_list) \cup {t}
    BY <1>1, AppendRange, AppendOnce DEF thread_unblock, RunQueueOK
  <1> QED  BY <1>1, <1>2 DEF RunQueueOK, thread_unblock, Keeps, Blocked, Free
=============================================================================
