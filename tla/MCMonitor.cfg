\* A lock and a condition variable used with it.
CONSTANTS
  Main = Main
  Idle = Idle
  NULL = NULL
  Workers = {t1, t2}
  Thread <- MCThread
  TIME_SLICE = 1
  Sema = {}
  IntrSema = {}
  IdleStarted = idle_started
  TidLock = tid_lock
  theLock = lock
  theCond = cond
  Lock <- OneLock
  Cond <- OneCond
  CondLock <- MonitorLock
  MaxValue = 0
  MaxTid = 5
  MaxSleep = 0
SPECIFICATION Spec
INVARIANTS
  MutualExclusion
  NoLostSignal
PROPERTIES
  ImplementsMonitor
