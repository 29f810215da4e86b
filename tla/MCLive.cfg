\* Semaphores, upped by threads and by an interrupt handler, round robin and
\* timer_sleep, under a fair timer.
CONSTANTS
  Main = Main
  Idle = Idle
  NULL = NULL
  Workers = {t1, t2}
  Thread <- MCThread
  TIME_SLICE = 2
  Sema = {s}
  IntrSema = {s}
  IdleStarted = idle_started
  TidLock = tid_lock
  theLock = tid_lock
  theCond = cond
  Lock <- NoLock
  Cond = {}
  CondLock <- NoCondLock
  MaxValue = 2
  MaxTid = 5
  MaxSleep = 1
SPECIFICATION FairSpec
INVARIANTS
  TypeOK
  ThreadsQueued
  NoLostWakeup
PROPERTIES
  ReadyRuns
  SleepEnds
