------------------------------ MODULE MCSynch ------------------------------
(***************************************************************************)
(* Small instances of Synch for TLC.                                       *)
(***************************************************************************)
EXTENDS SynchMonitor

CONSTANTS Workers, theCond

MCThread == Workers \cup {Main, Idle}
OneLock == {TidLock, theLock}
NoLock == {TidLock}
OneCond == {theCond}
MonitorLock == [c \in OneCond |-> theLock]
NoCondLock == [c \in {} |-> theLock]
=============================================================================
