----------------------------- MODULE IdeProofs -----------------------------
(***************************************************************************)
(* Proofs about Ide: for any number of threads, disks, sectors and         *)
(* partitions a completion is never left over for the next command, a      *)
(* command is issued only to an idle channel, and the disk agrees with a   *)
(* request that it has not failed until its lock is released.              *)
(*                                                                         *)
(* The invariants are not inductive: that a semaphore is up or an          *)
(* interrupt pending has to be tied to where the one thread that uses the  *)
(* channel is and to what the controller is doing.  OneUser says that there*)
(* is one such thread, Channel what it may find at each of its steps.      *)
(***************************************************************************)
EXTENDS Ide, TLAPS

\* The threads that are using the channel.
Using(t) == pc[t] \in {"select", "expect", "command", "down", "busy", "data", "release"}

Idle == status \in {"idle", "ERR"} /\ command = NULL
Executes(t) == command = req[t].kind
\* No completion is under way; one is, as the interrupt or as the semaphore.
Quiet == completion_wait = 0 /\ ~irq
Completed == completion_wait = (IF irq THEN 0 ELSE 1)

\* The sector of a request, and that the data register holds it.
OnDisk(t) == disk[req[t].disk][req[t].sector]
DataRead(t) == req[t].kind = "read" => data = OnDisk(t)

\* A request is well formed; ide_init's are Main's and made before all others.
RequestOK(t) ==
  /\ req[t].kind # "identify" => req[t].sector \in Sector
  /\ req[t].kind = "write" => req[t].value \in Value
  /\ pc[t] \in {"lock", "release"} => req[t].kind # "identify"

\* The user of the channel holds its lock, or is Main in ide_init, alone.
OneUser ==
  /\ \A t \in Thread : Using(t) =>
       IF req[t].kind = "identify" THEN t = Main ELSE holder = t
  /\ Booting => \A t \in Thread \ {Main} : pc[t] = "out"

\* What the user of the channel finds at each of its steps.
AtSelect(t) == Idle /\ Quiet
AtDown(t) ==
  IF req[t].kind = "write"
    THEN /\ data = req[t].value
         /\ \/ status = "BSY" /\ Executes(t) /\ Quiet
            \/ Idle /\ Completed /\ (status = "ERR" \/ OnDisk(t) = req[t].value)
    ELSE \/ status = "BSY" /\ Executes(t) /\ Quiet
         \/ status = "DRQ" /\ Executes(t) /\ Completed /\ DataRead(t)
         \/ Idle /\ Completed
AtBusy(t) ==
  \/ status = "BSY" /\ Executes(t) /\ Quiet /\ req[t].kind = "write"
  \/ status = "DRQ" /\ Executes(t) /\ Quiet /\ DataRead(t)
  \/ Idle /\ IF req[t].kind = "write" THEN Completed ELSE Quiet
AtData(t) == status = "DRQ" /\ Executes(t) /\ Quiet /\ DataRead(t)
AtRelease(t) ==
  /\ Idle /\ Quiet
  /\ WriteFailed(t) \/ OnDisk(t) = (IF req[t].kind = "read" THEN got[t] ELSE req[t].value)

Selected(t) ==
  req[t].kind # "identify" => reg.disk = req[t].disk /\ reg.sector = req[t].sector

Channel(t) ==
  /\ pc[t] \in {"select", "expect", "command"} => AtSelect(t)
  /\ pc[t] = "down" => AtDown(t)
  /\ pc[t] = "busy" => AtBusy(t)
  /\ pc[t] = "data" => AtData(t)
  /\ pc[t] = "release" => AtRelease(t)
  /\ pc[t] \in {"expect", "command", "down", "busy", "data"} => Selected(t)
  /\ pc[t] \in {"command", "down", "busy", "data"} => expecting_interrupt

ChannelInv ==
  /\ TypeOK
  /\ \A t \in Thread : RequestOK(t)
  /\ OneUser
  /\ \A t \in Thread : Channel(t)
  /\ (\A t \in Thread : ~Using(t)) => Idle /\ Quiet

-----------------------------------------------------------------------------
\* At most one thread uses the channel.
LEMMA UserAlone ==
  ASSUME OneUser, NEW t \in Thread, Using(t), NEW u \in Thread, u # t
  PROVE  ~Using(u)
  BY DEF OneUser, Using, Booting

\* A thread that waits for the lock is not in ide_init, so with the lock free
\* nobody uses the channel.
LEMMA FreeUnused ==
  ASSUME ChannelInv, NEW t \in Thread, pc[t] = "lock", holder = NULL, NEW u \in Thread
  PROVE  ~Using(u)
  <1>1. req[t].kind # "identify"
    BY Zenon DEF ChannelInv, RequestOK
  <1>2. ASSUME Using(u)  PROVE FALSE
    <2>1. u = Main /\ req[u].kind = "identify"
      BY <1>2, IdeAssumption, Zenon DEF ChannelInv, OneUser, TypeOK
    <2>2. Booting
      BY <1>2, <2>1, Zenon DEF Booting, Using
    <2> QED  BY <1>1, <2>1, <2>2, Zenon DEF ChannelInv, OneUser
  <1> QED  BY <1>2, Zenon

LEMMA InitChannel == Init => ChannelInv
  <1> SUFFICES ASSUME Init  PROVE ChannelInv
    BY Zenon
  <1> USE IdeAssumption DEF Init
  <1>1. TypeOK
    <2>1. 0 \in Disk
      BY Zenon
    <2>2. Identify(0) \in Request
      BY <2>1, Zenon DEF Request, Identify
    <2>3. reg \in [disk : Disk, sector : Sector \cup {0}]
      BY <2>1, Zenon
    <2>4. pc \in [Thread -> PC] /\ req \in [Thread -> Request]
      BY <2>2, Zenon DEF PC
    <2>5. got \in [Thread -> Value \cup {NULL}]
      BY Zenon
    <2>6. completion_wait \in 0 .. 1
      OBVIOUS
    <2>7. expecting_interrupt \in BOOLEAN /\ panic \in BOOLEAN /\ irq \in BOOLEAN
      BY Zenon
    <2> QED  BY <2>3, <2>4, <2>5, <2>6, <2>7, Zenon DEF TypeOK
  <1>2. \A t \in Thread : RequestOK(t)
    BY Zenon DEF RequestOK, Identify
  <1>3. OneUser
    BY Zenon DEF OneUser, Using, Booting, Identify
  <1>4. \A t \in Thread : Channel(t)
    BY Zenon DEF Channel, AtSelect, Idle, Quiet
  <1>5. Idle /\ Quiet
    BY Zenon DEF Idle, Quiet
  <1> QED  BY <1>1, <1>2, <1>3, <1>4, <1>5, Zenon DEF ChannelInv

-----------------------------------------------------------------------------
(* A step of a thread that is using the channel, or comes to use it, leaves *)
(* the others where they are.                                               *)

Others(t) ==
  \A u \in Thread \ {t} : pc'[u] = pc[u] /\ req'[u] = req[u] /\ ~Using(u)

LEMMA UserStep ==
  ASSUME NEW t \in Thread, ChannelInv, TypeOK', Others(t), RequestOK(t)',
         pc[t] # "out", Using(t)', Channel(t)',
         req'[t].kind = "identify" => t = Main /\ Booting,
         req'[t].kind # "identify" => holder' = t
  PROVE  ChannelInv'
  <1>1. \A u \in Thread : RequestOK(u)'
    BY Zenon DEF ChannelInv, Others, RequestOK
  <1>2. OneUser'
    <2>1. \A u \in Thread \ {t} : ~Using(u)'
      BY Zenon DEF Others, Using
    <2>2. Booting' => Booting
      BY IdeAssumption, Zenon DEF Booting, Others, Using
    <2> QED  BY <2>1, <2>2, Zenon DEF OneUser, Others, ChannelInv
  <1>3. \A u \in Thread : Channel(u)'
    BY Zenon DEF Channel, Others, Using
  <1> QED  BY <1>1, <1>2, <1>3, Zenon DEF ChannelInv

\* What the user of the channel knows.
LEMMA User ==
  ASSUME ChannelInv, NEW t \in Thread, Using(t)
  PROVE  /\ \A u \in Thread \ {t} : ~Using(u)
         /\ req[t].kind = "identify" => t = Main /\ Booting
         /\ req[t].kind # "identify" => holder = t
  BY UserAlone, Zenon DEF ChannelInv, OneUser, Booting, Using

LEMMA LockStep ==
  ASSUME ChannelInv, NEW t \in Thread, LockChannel(t)
  PROVE  ChannelInv'
  <1> USE DEF LockChannel, At, Goto, device
  <1>1. TypeOK'
    BY Zenon DEF ChannelInv, TypeOK, PC
  <1>2. Others(t) /\ pc'[t] = "select" /\ pc[t] = "lock"
    BY FreeUnused, Zenon DEF Others, ChannelInv, TypeOK
  <1>3. Channel(t)'
    BY <1>2, FreeUnused, Zenon DEF Channel, ChannelInv, AtSelect, Idle, Quiet
  <1>4. RequestOK(t)' /\ req'[t].kind # "identify"
    BY <1>2, Zenon DEF ChannelInv, RequestOK
  <1> QED  BY <1>1, <1>2, <1>3, <1>4, UserStep, Zenon DEF Using

LEMMA SelectStep ==
  ASSUME ChannelInv, NEW t \in Thread, SelectSector(t)
  PROVE  ChannelInv'
  <1> USE DEF SelectSector, At, Goto
  <1>1. Using(t) /\ pc[t] = "select" /\ pc'[t] = "expect"
    BY Zenon DEF Using, ChannelInv, TypeOK
  <1>2. TypeOK'
    BY Zenon DEF ChannelInv, TypeOK, PC, Request
  <1>3. Others(t)
    BY <1>1, User, Zenon DEF Others, ChannelInv, TypeOK
  <1>4. Channel(t)'
    BY <1>1, Zenon DEF Channel, ChannelInv, AtSelect, Idle, Quiet, Selected, TypeOK
  <1>5. RequestOK(t)'
    BY <1>1, Zenon DEF ChannelInv, RequestOK
  <1> QED  BY <1>1, <1>2, <1>3, <1>4, <1>5, User, UserStep, Zenon DEF Using

LEMMA ExpectStep ==
  ASSUME ChannelInv, NEW t \in Thread, ExpectInterrupt(t)
  PROVE  ChannelInv'
  <1> USE DEF ExpectInterrupt, At, Goto, device
  <1>1. Using(t) /\ pc[t] = "expect" /\ pc'[t] = "command"
    BY Zenon DEF Using, ChannelInv, TypeOK
  <1>2. TypeOK'
    BY Zenon DEF ChannelInv, TypeOK, PC
  <1>3. Others(t)
    BY <1>1, User, Zenon DEF Others, ChannelInv, TypeOK
  <1>4. Channel(t)'
    BY <1>1, Zenon DEF Channel, ChannelInv, AtSelect, Idle, Quiet, Selected
  <1>5. RequestOK(t)'
    BY <1>1, Zenon DEF ChannelInv, RequestOK
  <1> QED  BY <1>1, <1>2, <1>3, <1>4, <1>5, User, UserStep, Zenon DEF Using

LEMMA IssueStep ==
  ASSUME ChannelInv, NEW t \in Thread, IssueCommand(t)
  PROVE  ChannelInv'
  <1> USE DEF IssueCommand, At, Goto
  <1>1. /\ Using(t) /\ pc[t] = "command"
        /\ pc'[t] = IF req[t].kind = "write" THEN "busy" ELSE "down"
    BY Zenon DEF Using, ChannelInv, TypeOK
  <1>2. TypeOK'
    BY Zenon DEF ChannelInv, TypeOK, PC, Request
  <1>3. Others(t)
    BY <1>1, User, Zenon DEF Others, ChannelInv, TypeOK
  <1>4. Channel(t)'
    BY <1>1 DEF Channel, ChannelInv, AtSelect, AtDown, AtBusy, Quiet, Selected, Executes
  <1>5. RequestOK(t)'
    BY <1>1 DEF ChannelInv, RequestOK
  <1> QED  BY <1>1, <1>2, <1>3, <1>4, <1>5, User, UserStep, Zenon DEF Using

LEMMA AwaitStep ==
  ASSUME ChannelInv, NEW t \in Thread, AwaitCompletion(t)
  PROVE  ChannelInv'
  <1> USE DEF AwaitCompletion, At, Goto, device
  <1>1. /\ Using(t) /\ pc[t] = "down"
        /\ pc'[t] = IF req[t].kind = "write" THEN "release" ELSE "busy"
    BY Zenon DEF Using, ChannelInv, TypeOK
  <1>2. TypeOK'
    BY DEF ChannelInv, TypeOK, PC
  <1>3. Others(t)
    BY <1>1, User, Zenon DEF Others, ChannelInv, TypeOK
  <1>4. AtDown(t) /\ Selected(t) /\ expecting_interrupt
    BY <1>1, Zenon DEF Channel, ChannelInv
  <1>5. Completed => Quiet'
    BY DEF Completed, Quiet, ChannelInv, TypeOK
  <1>6. CASE req[t].kind = "write"
    <2>1. Idle /\ Completed /\ (status = "ERR" \/ OnDisk(t) = req[t].value)
      BY <1>4, <1>6 DEF AtDown, Quiet, ChannelInv, TypeOK
    <2>2. Channel(t)'
      BY <1>1, <1>5, <1>6, <2>1 DEF Channel, AtRelease, Idle, OnDisk, WriteFailed
    <2>3. RequestOK(t)'
      BY <1>1, <1>6, Zenon DEF ChannelInv, RequestOK
    <2> QED  BY <1>1, <1>2, <1>3, <1>6, <2>2, <2>3, User, UserStep, Zenon DEF Using
  <1>7. CASE req[t].kind # "write"
    <2>1. \/ status = "DRQ" /\ Executes(t) /\ Completed /\ DataRead(t)
          \/ Idle /\ Completed
      BY <1>4, <1>7 DEF AtDown, Quiet, ChannelInv, TypeOK
    <2>2. AtBusy(t)'
      BY <1>5, <1>7, <2>1, Zenon DEF AtBusy, Idle, Executes, DataRead, OnDisk
    <2>3. Channel(t)'
      BY <1>1, <1>4, <1>7, <2>2 DEF Channel, Selected
    <2>4. RequestOK(t)'
      BY <1>1, <1>7 DEF ChannelInv, RequestOK
    <2> QED  BY <1>1, <1>2, <1>3, <1>7, <2>3, <2>4, User, UserStep, Zenon DEF Using
  <1> QED  BY <1>6, <1>7, Zenon

LEMMA BusyStep ==
  ASSUME ChannelInv, NEW t \in Thread, WaitWhileBusy(t)
  PROVE  ChannelInv'
  <1> USE DEF WaitWhileBusy, At, Goto, device
  <1>1. Using(t) /\ pc[t] = "busy" /\ pc'[t] = "data"
    BY Zenon DEF Using, ChannelInv, TypeOK
  <1>2. TypeOK'
    BY Zenon DEF ChannelInv, TypeOK, PC
  <1>3. Others(t)
    BY <1>1, User, Zenon DEF Others, ChannelInv, TypeOK
  <1>4. AtData(t)'
    BY <1>1, Zenon DEF Channel, ChannelInv, AtBusy, AtData, Idle, Quiet, Executes, DataRead, OnDisk
  <1>5. Channel(t)'
    BY <1>1, <1>4, Zenon DEF Channel, ChannelInv, Selected
  <1>6. RequestOK(t)'
    BY <1>1, Zenon DEF ChannelInv, RequestOK
  <1> QED  BY <1>1, <1>2, <1>3, <1>5, <1>6, User, UserStep, Zenon DEF Using

LEMMA InputStep ==
  ASSUME ChannelInv, NEW t \in Thread, InputSector(t)
  PROVE  ChannelInv'
  <1> USE DEF InputSector, At, Goto
  <1>1. Using(t) /\ pc[t] = "data" /\ pc'[t] = "release" /\ req[t].kind = "read"
    BY Zenon DEF Using, ChannelInv, TypeOK
  <1>2. TypeOK'
    BY Zenon DEF ChannelInv, TypeOK, PC
  <1>3. Others(t)
    BY <1>1, User, Zenon DEF Others, ChannelInv, TypeOK
  <1>4. AtRelease(t)'
    BY <1>1, Zenon DEF Channel, ChannelInv, AtData, AtRelease, Idle, Quiet, DataRead, OnDisk, TypeOK
  <1>5. Channel(t)'
    BY <1>1, <1>4, Zenon DEF Channel
  <1>6. RequestOK(t)'
    BY <1>1, Zenon DEF ChannelInv, RequestOK
  <1> QED  BY <1>1, <1>2, <1>3, <1>5, <1>6, User, UserStep, Zenon DEF Using

LEMMA OutputStep ==
  ASSUME ChannelInv, NEW t \in Thread, OutputSector(t)
  PROVE  ChannelInv'
  <1> USE DEF OutputSector, At, Goto
  <1>1. Using(t) /\ pc[t] = "data" /\ pc'[t] = "down" /\ req[t].kind = "write"
    BY Zenon DEF Using, ChannelInv, TypeOK
  <1>2. TypeOK'
    BY Zenon DEF ChannelInv, TypeOK, PC, Request
  <1>3. Others(t)
    BY <1>1, User, Zenon DEF Others, ChannelInv, TypeOK
  <1>4. AtDown(t)'
    BY <1>1, Zenon DEF Channel, ChannelInv, AtData, AtDown, Quiet, Executes
  <1>5. Channel(t)'
    BY <1>1, <1>4, Zenon DEF Channel, ChannelInv, Selected
  <1>6. RequestOK(t)'
    BY <1>1, Zenon DEF ChannelInv, RequestOK
  <1> QED  BY <1>1, <1>2, <1>3, <1>5, <1>6, User, UserStep, Zenon DEF Using

\* The last step of a user of the channel, which leaves it as it was found.
LEMMA LeaveStep ==
  ASSUME NEW t \in Thread, ChannelInv, TypeOK', Others(t),
         pc'[t] = "out", req'[t] = Identify(0), Idle', Quiet'
  PROVE  ChannelInv'
  <1>1. \A u \in Thread : ~Using(u)'
    BY Zenon DEF Others, Using
  <1>2. \A u \in Thread : RequestOK(u)'
    BY DEF ChannelInv, Others, RequestOK, Identify
  <1>3. OneUser'
    <2>1. Booting' => Booting
      BY IdeAssumption, Zenon DEF Booting, Others
    <2> QED  BY <1>1, <2>1, Zenon DEF OneUser, Others, ChannelInv
  <1>4. \A u \in Thread : Channel(u)'
    BY <1>1, Zenon DEF Channel, Using
  <1> QED  BY <1>1, <1>2, <1>3, <1>4, Zenon DEF ChannelInv

\* ide_init goes on to the next disk from a channel that is idle, or ends.
LEMMA NextDiskStep ==
  ASSUME NEW t \in Thread, ChannelInv, Using(t), req[t].kind = "identify", NextDisk(t),
         Idle', Quiet', irq' \in BOOLEAN, holder' = holder,
         is_ata' \subseteq Disk, expecting_interrupt' = expecting_interrupt,
         got' = got, panic' = panic, disk' = disk, reg' = reg, data' = data
  PROVE  ChannelInv'
  <1>1. \A d \in Disk : Identify(d) \in Request
    BY Zenon DEF Identify, Request
  <1>2. 0 \in Disk
    BY IdeAssumption, Zenon
  <1>3. pc' \in [Thread -> PC] /\ req' \in [Thread -> Request]
    BY <1>1, <1>2 DEF NextDisk, Goto, PC, ChannelInv, TypeOK
  <1>4. completion_wait' \in 0 .. 1
    BY DEF Quiet
  <1>5. command' = NULL /\ status' \in {"idle", "ERR"}
    BY Zenon DEF Idle
  <1>6. TypeOK'
    BY <1>3, <1>4, <1>5, Zenon DEF ChannelInv, TypeOK
  <1>7. Others(t)
    BY User, Zenon DEF Others, NextDisk, Goto, ChannelInv, TypeOK
  <1>8. CASE req[t].disk = 0 /\ 1 \in Disk
    <2>1. pc'[t] = "select" /\ req'[t] = Identify(1)
      BY <1>8, Zenon DEF NextDisk, Goto, ChannelInv, TypeOK
    <2>2. req'[t].kind = "identify"
      BY <2>1 DEF Identify
    <2>3. Channel(t)' /\ RequestOK(t)'
      BY <2>1, <2>2, Zenon DEF Channel, AtSelect, RequestOK
    <2> QED  BY <1>6, <1>7, <2>1, <2>2, <2>3, User, UserStep, Zenon DEF Using
  <1>9. CASE ~(req[t].disk = 0 /\ 1 \in Disk)
    <2>1. pc'[t] = "out" /\ req'[t] = Identify(0)
      BY <1>9, Zenon DEF NextDisk, Goto, ChannelInv, TypeOK
    <2> QED  BY <1>6, <1>7, <2>1, LeaveStep, Zenon
  <1> QED  BY <1>8, <1>9, Zenon

LEMMA IdentityStep ==
  ASSUME ChannelInv, NEW t \in Thread, IdentityRead(t)
  PROVE  ChannelInv'
  <1> USE DEF IdentityRead, At
  <1>1. Using(t) /\ pc[t] = "data"
    BY Zenon DEF Using
  <1>2. Quiet' /\ Idle' /\ irq' \in BOOLEAN
    BY <1>1, Zenon DEF ChannelInv, Channel, AtData, Quiet, Idle, TypeOK
  <1>3. is_ata' \subseteq Disk
    BY DEF ChannelInv, TypeOK, Request
  <1> QED  BY <1>1, <1>2, <1>3, NextDiskStep, Zenon

LEMMA FailStep ==
  ASSUME ChannelInv, NEW t \in Thread, WaitFails(t)
  PROVE  ChannelInv'
  <1> USE DEF WaitFails, At, device
  <1>1. Using(t) /\ pc[t] = "busy"
    BY Zenon DEF Using
  <1>2. CASE req[t].kind = "identify"
    <2>1. Quiet' /\ Idle' /\ irq' \in BOOLEAN
      BY <1>1, <1>2, Zenon DEF ChannelInv, Channel, AtBusy, Quiet, Idle, TypeOK
    <2> QED  BY <1>1, <1>2, <2>1, NextDiskStep, Zenon DEF ChannelInv, TypeOK
  <1>3. CASE req[t].kind # "identify"
    <2>1. TypeOK'
      BY <1>3, Zenon DEF ChannelInv, TypeOK
    <2>2. \A u \in Thread : RequestOK(u)' /\ Channel(u)' /\ (Using(u) <=> Using(u)')
      BY <1>3 DEF ChannelInv, RequestOK, Using, Channel, AtSelect, AtDown, AtBusy, AtData,
                  AtRelease, Selected, Idle, Executes, Quiet, Completed, DataRead, OnDisk,
                  WriteFailed
    <2> QED  BY <1>3, <2>1, <2>2, Zenon DEF ChannelInv, OneUser, Booting, Idle, Quiet
  <1> QED  BY <1>2, <1>3, Zenon

LEMMA ReleaseStep ==
  ASSUME ChannelInv, NEW t \in Thread, ReleaseChannel(t)
  PROVE  ChannelInv'
  <1> USE DEF ReleaseChannel, At, Goto, device
  <1>1. Using(t) /\ pc[t] = "release"
    BY Zenon DEF Using
  <1>2. Identify(0) \in Request
    BY IdeAssumption, Zenon DEF Identify, Request
  <1>3. TypeOK'
    BY <1>2, Zenon DEF ChannelInv, TypeOK, PC
  <1>4. Others(t) /\ pc'[t] = "out" /\ req'[t] = Identify(0)
    BY <1>1, User, Zenon DEF Others, ChannelInv, TypeOK
  <1>5. Idle' /\ Quiet'
    BY <1>1, Zenon DEF ChannelInv, Channel, AtRelease, Idle, Quiet
  <1> QED  BY <1>3, <1>4, <1>5, LeaveStep, Zenon

\* A step that leaves the channel alone, of a thread that does not use it.
LEMMA OutsideStep ==
  ASSUME NEW t \in Thread, ChannelInv, TypeOK', ~Using(t), ~Using(t)', RequestOK(t)',
         UNCHANGED <<holder, expecting_interrupt, completion_wait, device>>,
         \A u \in Thread \ {t} : pc'[u] = pc[u] /\ req'[u] = req[u] /\ got'[u] = got[u],
         ~Booting, ~Booting'
  PROVE  ChannelInv'
  <1> USE DEF device
  <1>1. \A u \in Thread : Using(u)' <=> Using(u)
    BY Zenon DEF Using
  <1>2. \A u \in Thread : RequestOK(u)'
    BY Zenon DEF ChannelInv, RequestOK
  <1>3. \A u \in Thread : Channel(u)'
    <2> SUFFICES ASSUME NEW u \in Thread  PROVE Channel(u)'
      BY Zenon
    <2>1. CASE u = t
      BY <2>1, Zenon DEF Channel, Using
    <2>2. CASE u # t
      BY <2>2 DEF ChannelInv, Channel, AtSelect, AtDown, AtBusy, AtData, AtRelease, Selected,
                  Idle, Executes, Quiet, Completed, DataRead, OnDisk, WriteFailed
    <2> QED  BY <2>1, <2>2, Zenon
  <1>4. OneUser'
    BY <1>1, Zenon DEF ChannelInv, OneUser, Using
  <1> QED  BY <1>1, <1>2, <1>3, <1>4, Zenon DEF ChannelInv, Idle, Quiet

LEMMA StartStep ==
  ASSUME ChannelInv, NEW t \in Thread, NEW kind \in {"read", "write"}, NEW p \in Part,
         NEW s \in Sector, NEW v \in Value \cup {NULL}, kind = "write" => v \in Value,
         StartRequest(t, kind, p, s, v)
  PROVE  ChannelInv'
  <1> USE DEF StartRequest, At, Goto, device
  <1>1. CASE check_sector(p, s) /\ (kind = "write" => ~p.foreign)
    <2> DEFINE r == [kind |-> kind, disk |-> p.disk, sector |-> p.start + s, value |-> v]
    <2>1. p.start + s \in Sector /\ p.disk \in Disk
      BY <1>1, IdeAssumption DEF check_sector, Sector
    <2>2. r \in Request
      BY <2>1, Zenon DEF Request
    <2>3. /\ pc' = [pc EXCEPT ![t] = "lock"]
          /\ req' = [req EXCEPT ![t] = r]
          /\ panic' = panic
      BY <1>1, Zenon
    <2>4. TypeOK'
      BY <2>2, <2>3, Zenon DEF ChannelInv, TypeOK, PC
    <2>5. pc'[t] = "lock" /\ req'[t] = r
      BY <2>3, Zenon DEF ChannelInv, TypeOK
    <2>6. RequestOK(t)'
      BY <2>1, <2>5 DEF RequestOK
    <2>7. ~Booting'
      BY <2>3, <2>5, IdeAssumption, Zenon DEF Booting, ChannelInv, TypeOK
    <2> QED  BY <2>3, <2>4, <2>5, <2>6, <2>7, OutsideStep, Zenon DEF Using, ChannelInv, TypeOK
  <1>2. CASE ~(check_sector(p, s) /\ (kind = "write" => ~p.foreign))
    <2>1. TypeOK'
      BY <1>2, Zenon DEF ChannelInv, TypeOK
    <2> QED  BY <1>2, <2>1, OutsideStep, Zenon DEF Using, ChannelInv, RequestOK, Booting
  <1> QED  BY <1>1, <1>2, Zenon

\* A step of the interrupt handler or of the controller: something is under
\* way, so a thread is using the channel.
LEMMA DeviceStep ==
  ASSUME ChannelInv, TypeOK', UNCHANGED <<holder, pc, req>>, ~(Idle /\ Quiet),
         \A t \in Thread : Using(t) => Channel(t)'
  PROVE  ChannelInv'
  <1>1. \A t \in Thread : Using(t)' <=> Using(t)
    BY Zenon DEF Using
  <1>2. \A t \in Thread : RequestOK(t)'
    BY Zenon DEF ChannelInv, RequestOK
  <1>3. OneUser'
    BY <1>1, Zenon DEF ChannelInv, OneUser, Booting
  <1>4. \A t \in Thread : Channel(t)'
    BY Zenon DEF Channel, Using
  <1> QED  BY <1>1, <1>2, <1>3, <1>4, Zenon DEF ChannelInv

LEMMA InterruptStep ==
  ASSUME ChannelInv, InterruptHandler
  PROVE  ChannelInv'
  <1> USE DEF InterruptHandler
  <1>1. ~Quiet
    BY Zenon DEF Quiet
  <1>2. PICK t \in Thread : Using(t)
    BY <1>1, Zenon DEF ChannelInv
  <1>3. Completed /\ expecting_interrupt
    BY <1>1, <1>2, Zenon DEF ChannelInv, Channel, AtSelect, AtDown, AtBusy, AtData, AtRelease, Using
  <1>4. completion_wait = 0 /\ completion_wait' = 1 /\ irq' = FALSE
    BY <1>3 DEF Completed, ChannelInv, TypeOK
  <1>5. TypeOK'
    <2>1. completion_wait' \in 0 .. 1
      BY <1>4
    <2>2. irq' \in BOOLEAN
      BY Zenon
    <2> QED  BY <2>1, <2>2, Zenon DEF ChannelInv, TypeOK
  <1>6. Completed'
    BY <1>4, Zenon DEF Completed
  <1>7. Channel(t)'
    <2>1. /\ pc[t] \in {"down", "busy"}
          /\ pc[t] = "down" => AtDown(t)
          /\ pc[t] = "busy" => AtBusy(t)
      BY <1>1, <1>2, Zenon DEF ChannelInv, Channel, AtSelect, AtData, AtRelease, Using
    <2>2. pc[t] = "down" => AtDown(t)'
      BY <1>1, <1>6, <2>1, Zenon DEF AtDown, Idle, Executes, DataRead, OnDisk
    <2>3. pc[t] = "busy" => AtBusy(t)'
      BY <1>1, <1>6, <2>1, Zenon DEF AtBusy, Idle, Executes, DataRead, OnDisk
    <2> QED  BY <2>1, <2>2, <2>3, Zenon DEF ChannelInv, Channel, Selected
  <1> QED  BY <1>1, <1>2, <1>5, <1>7, DeviceStep, User, Zenon

LEMMA ReadyStep ==
  ASSUME ChannelInv, DataReady
  PROVE  ChannelInv'
  <1> USE DEF DataReady, driver
  <1>1. ~Idle
    BY Zenon DEF Idle
  <1>2. PICK t \in Thread : Using(t)
    BY <1>1, Zenon DEF ChannelInv
  <1>3. pc[t] = "down" /\ command = req[t].kind /\ req[t].kind # "write" /\ Quiet /\ Selected(t)
    BY <1>1, <1>2, Zenon DEF ChannelInv, Channel, AtSelect, AtDown, AtBusy, AtData, AtRelease, Using,
       Executes
  <1>4. TypeOK'
    <2>1. req[t] \in Request
      BY Zenon DEF ChannelInv, TypeOK
    <2>2. req[t].kind = "read" => disk[reg.disk][reg.sector] \in Value
      BY <1>3, <2>1 DEF ChannelInv, TypeOK, RequestOK, Selected, Request
    <2> QED  BY <1>3, <2>2, Zenon DEF ChannelInv, TypeOK
  <1>5. Completed'
    BY <1>3, Zenon DEF Quiet, Completed
  <1>6. DataRead(t)'
    BY <1>3, Zenon DEF DataRead, OnDisk, Selected
  <1>7. Channel(t)'
    BY <1>3, <1>5, <1>6, Zenon DEF ChannelInv, Channel, AtDown, Executes, Selected
  <1> QED  BY <1>1, <1>2, <1>4, <1>7, DeviceStep, User, Zenon

LEMMA WantedStep ==
  ASSUME ChannelInv, DataWanted
  PROVE  ChannelInv'
  <1> USE DEF DataWanted, driver
  <1>1. ~Idle
    BY Zenon DEF Idle
  <1>2. PICK t \in Thread : Using(t)
    BY <1>1, Zenon DEF ChannelInv
  <1>3. pc[t] = "busy" /\ command = req[t].kind /\ Quiet
    BY <1>1, <1>2, Zenon DEF ChannelInv, Channel, AtSelect, AtDown, AtBusy, AtData, AtRelease, Using,
       Executes, Outputting
  <1>4. TypeOK'
    BY Zenon DEF ChannelInv, TypeOK
  <1>5. Channel(t)'
    BY <1>3, Zenon DEF ChannelInv, Channel, AtBusy, Executes, DataRead, Quiet, Selected
  <1> QED  BY <1>1, <1>2, <1>4, <1>5, DeviceStep, User, Zenon

LEMMA WrittenStep ==
  ASSUME ChannelInv, Written
  PROVE  ChannelInv'
  <1> USE DEF Written, driver
  <1>1. ~Idle
    BY Zenon DEF Idle
  <1>2. PICK t \in Thread : Using(t) /\ pc[t] = "down" /\ req[t].kind = "write"
    BY Zenon DEF Outputting, Using
  <1>3. data = req[t].value /\ Quiet /\ Selected(t) /\ expecting_interrupt
    BY <1>1, <1>2, Zenon DEF ChannelInv, Channel, AtDown
  <1>4. req[t] \in Request /\ req[t].sector \in Sector /\ req[t].value \in Value
    BY <1>2, Zenon DEF ChannelInv, TypeOK, RequestOK
  <1>5. /\ disk' \in [Disk -> [Sector -> Value]]
        /\ disk'[req[t].disk][req[t].sector] = req[t].value
    BY <1>2, <1>3, <1>4, Zenon DEF ChannelInv, TypeOK, Selected, Request
  <1>6. TypeOK'
    BY <1>5, Zenon DEF ChannelInv, TypeOK
  <1>7. Completed' /\ Idle'
    BY <1>3, Zenon DEF Quiet, Completed, Idle
  <1>8. Channel(t)'
    BY <1>2, <1>3, <1>5, <1>7, Zenon DEF Channel, AtDown, OnDisk, Selected
  <1> QED  BY <1>1, <1>2, <1>6, <1>8, DeviceStep, User, Zenon

LEMMA AbortedStep ==
  ASSUME ChannelInv, Aborted
  PROVE  ChannelInv'
  <1> USE DEF Aborted, driver
  <1>1. ~Idle
    BY Zenon DEF Idle
  <1>2. PICK t \in Thread : Using(t)
    BY <1>1, Zenon DEF ChannelInv
  <1>3. /\ pc[t] \in {"down", "busy"} /\ Quiet
        /\ pc[t] = "busy" => req[t].kind = "write"
        /\ pc[t] = "down" /\ req[t].kind = "write" => data = req[t].value
    BY <1>1, <1>2, Zenon DEF ChannelInv, Channel, AtSelect, AtDown, AtBusy, AtData, AtRelease, Using
  <1>4. TypeOK'
    BY Zenon DEF ChannelInv, TypeOK
  <1>5. Completed' /\ Idle'
    BY <1>3, Zenon DEF Quiet, Completed, Idle
  <1>6. Channel(t)'
    BY <1>3, <1>5, Zenon DEF ChannelInv, Channel, AtDown, AtBusy, Selected
  <1> QED  BY <1>1, <1>2, <1>4, <1>6, DeviceStep, User, Zenon

-----------------------------------------------------------------------------
LEMMA ChannelStep == ChannelInv /\ [Next]_vars => ChannelInv'
  <1> SUFFICES ASSUME ChannelInv, [Next]_vars  PROVE ChannelInv'
    BY Zenon
  <1>1. ASSUME NEW t \in Thread, Call(t)  PROVE ChannelInv'
    BY <1>1, StartStep, Zenon DEF Call, BlockRead, BlockWrite
  <1>2. ASSUME NEW t \in Thread, Continue(t)  PROVE ChannelInv'
    BY <1>2, SelectStep, ExpectStep, IssueStep, AwaitStep, BusyStep, InputStep, OutputStep,
       IdentityStep, ReleaseStep, Zenon DEF Continue
  <1>3. CASE UNCHANGED vars
    BY <1>3 DEF vars, driver, device, ChannelInv, TypeOK, RequestOK, OneUser, Using, Booting,
       Channel, AtSelect, AtDown, AtBusy, AtData, AtRelease, Selected, Idle, Executes, Quiet,
       Completed, DataRead, OnDisk, WriteFailed
  <1> QED
    BY <1>1, <1>2, <1>3, LockStep, FailStep, InterruptStep, ReadyStep, WantedStep, WrittenStep,
       AbortedStep, Zenon DEF Next, Controller

LEMMA ChannelInvariant == Spec => []ChannelInv
  BY InitChannel, ChannelStep, PTL DEF Spec

\* The variables keep their types; in particular the semaphore of a channel is
\* never above one, so interrupts are not counted twice.
THEOREM IdeTypes == Spec => []TypeOK
  <1>1. ChannelInv => TypeOK
    BY Zenon DEF ChannelInv
  <1> QED  BY <1>1, ChannelInvariant, PTL

\* No completion and no interrupt is left over from a command of ide_read,
\* ide_write or identify_ata_device when the next one is prepared.
THEOREM NoCompletionLeft == Spec => []NoStaleCompletion
  <1>1. ChannelInv => NoStaleCompletion
    BY Zenon DEF ChannelInv, NoStaleCompletion, Channel, AtSelect, Using, Idle, Quiet
  <1> QED  BY <1>1, ChannelInvariant, PTL

\* select_device_wait and issue_pio_command find the channel idle.
THEOREM CommandsWhenIdle == Spec => []IssuedWhenIdle
  <1>1. ChannelInv => IssuedWhenIdle
    BY Zenon DEF ChannelInv, IssuedWhenIdle, Channel, AtSelect, At, Idle
  <1> QED  BY <1>1, ChannelInvariant, PTL

\* A read returns what the sector holds and a write that the disk has not failed
\* returns once the disk has it, whatever other threads ask of the same channel.
THEOREM RequestsServed == Spec => []DiskAgrees
  <1>1. ChannelInv => DiskAgrees
    BY Zenon DEF ChannelInv, DiskAgrees, Channel, AtRelease, At, OnDisk
  <1> QED  BY <1>1, ChannelInvariant, PTL
=============================================================================
