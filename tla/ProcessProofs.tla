--------------------------- MODULE ProcessProofs ---------------------------
(***************************************************************************)
(* Proofs about Process, for any number of pages, thread identifiers and   *)
(* exit codes, whether or not processes wait for threads they did not      *)
(* create.                                                                 *)
(*                                                                         *)
(* The invariants say little about one step each and rest on what ties the *)
(* parts of the state together: the places in the code a thread can be at  *)
(* and what they say of its page directory (PlacesOK), that a thread       *)
(* identifier names one thread and none that has exited (TidsOK), and that *)
(* every page of the kernel pool is accounted for (PagesCounted).          *)
(***************************************************************************)
EXTENDS Process, ThreadProofs

\* Where main, the idle thread and the threads of processes can be.
MainPC == {"main", "main_wait", "wait_check", "wait_mark", "wait_set", "wait_block", "waited"}
IdlePC == {"halt", "idle"}
ProcessPC == PC \ {"main", "main_wait", "halt", "idle"}

\* A page that holds no thread never did, or its last thread has reached the
\* end of thread_exit.
PlacesOK ==
  /\ idle_thread = Idle
  /\ pc[Main] \in MainPC /\ pc[Idle] \in IdlePC
  /\ \A t \in Thread \ {Main, Idle} : pc[t] \in ProcessPC
  /\ \A t \in Thread : status[t] = "FREE" => t \notin {Main, Idle} /\ pc[t] \in {"start", "die"}
  /\ \A t \in Thread : t \in all_list <=> status[t] # "FREE"

\* A directory that a thread may go back to exists, and so does one that
\* process_exit has yet to destroy.
PagedirsOK ==
  /\ pagedir \in [Thread -> Thread \cup {NULL}]
  /\ \A t \in Thread :
       /\ pagedir[t] \in {NULL, t}
       /\ pagedir[t] # NULL => t \in live_pd
       /\ t \in {Main, Idle} \/ pc[t] \in {"start", "load", "exit_activate", "exit_destroy", "die"}
            => pagedir[t] = NULL
       /\ pc[t] \in {"exit_activate", "exit_destroy"} => t \in live_pd

Live == {t \in Thread : status[t] # "FREE"}

TidsOK ==
  /\ tid[Idle] = 2
  /\ \A t \in Live : tid[t] \in Tid /\ tid[t] < next_tid /\ exited[tid[t]] = Alive
  /\ \A t, u \in Live : tid[t] = tid[u] => t = u
  /\ \A n \in Tid : n >= next_tid => exited[n] = Alive
  /\ \A t \in Thread : waiting_thread[t] # 2

\* The pages of the kernel pool: the threads of processes, the copies of the
\* command line that start_process has not freed yet, and page directories.
Born == {t \in Thread \ {Main, Idle} : status[t] # "FREE"}
CopyPC == {"load", "activate", "loading"}
Copies == {t \in Thread : pc[t] \in CopyPC}
PagesCounted ==
  free_pages + Cardinality(Born) + Cardinality(Copies) + Cardinality(live_pd) <= KernelPages

ProcessInv ==
  /\ TypeOK /\ RunQueueOK /\ PlacesOK /\ PagedirsOK /\ TidsOK /\ PagesCounted
  /\ ActivePagedirExists /\ OwnPagedirActive /\ WokenWithStatus

\* The lemmas on single steps cite the invariant by this name, which a proof
\* expands once, where it starts.
Inv == ProcessInv

-----------------------------------------------------------------------------
LEMMA InitProcess == ASSUME Counting  PROVE Init => ProcessInv
  <1> SUFFICES ASSUME Init  PROVE ProcessInv
    BY Zenon
  <1> USE ThreadAssumption, ProcessAssumption DEF Init
  <1>1. ThreadsTypeOK
    BY DEF ThreadsTypeOK, Status
  <1>2. /\ pc \in [Thread -> PC] /\ tid \in [Thread -> 0 .. MaxTid] /\ next_tid \in 1 .. (MaxTid + 1)
        /\ level \in [Thread -> {"ON", "OFF"}]
    BY DEF PC
  <1>3. /\ waiting_thread \in [Thread -> 0 .. MaxTid] /\ woken_by \in [Thread -> 0 .. MaxTid]
        /\ wait_called \in [Thread -> BOOLEAN] /\ wt \in [Thread -> Thread \cup {NULL}]
    OBVIOUS
  <1>4. /\ child_exit_status \in [Thread -> ExitStatus] /\ exit_status \in [Thread -> ExitStatus]
        /\ exited \in [Tid -> ExitStatus \cup {Alive}]
    BY Zenon DEF ExitStatus
  <1>5. arg \in [Thread -> Tid \cup {0, TID_ERROR}] /\ parent \in [Tid -> 0 .. MaxTid]
    OBVIOUS
  <1>6. free_pages \in 0 .. KernelPages
    OBVIOUS
  <1>7. TypeOK
    BY <1>1, <1>2, <1>3, <1>4, <1>5, <1>6, Zenon DEF TypeOK
  <1>8. RunQueueOK
    BY EmptyList, Zenon DEF RunQueueOK
  <1>9. PlacesOK
    BY Zenon DEF PlacesOK, MainPC, IdlePC, ProcessPC, PC
  <1>10. PagedirsOK
    BY Zenon DEF PagedirsOK
  <1>11. TidsOK
    BY DEF TidsOK, Live, Tid
  <1>12. PagesCounted
    <2>1. Born = {} /\ Copies = {} /\ live_pd = {}
      BY Zenon DEF Born, Copies, CopyPC
    <2> QED  BY <2>1 DEF PagesCounted, Counting, CountEmpty
  <1>13. ActivePagedirExists /\ OwnPagedirActive /\ WokenWithStatus
    BY Zenon DEF ActivePagedirExists, OwnPagedirActive, WokenWithStatus
  <1> QED  BY <1>7, <1>8, <1>9, <1>10, <1>11, <1>12, <1>13, Zenon DEF ProcessInv

-----------------------------------------------------------------------------
(* Counting pages. *)

LEMMA Counts ==
  ASSUME Counting, live_pd \subseteq Thread
  PROVE  /\ IsFiniteSet(Born) /\ IsFiniteSet(Copies) /\ IsFiniteSet(live_pd)
         /\ Cardinality(Born) \in Nat /\ Cardinality(Copies) \in Nat
         /\ Cardinality(live_pd) \in Nat
  <1>1. Born \subseteq Thread /\ Copies \subseteq Thread
    BY Zenon DEF Born, Copies
  <1> QED  BY <1>1, PagesFinite, Zenon DEF Counting, CountSubset, CountNat

LEMMA Balance ==
  ASSUME NEW f \in Nat, NEW g \in Nat, NEW b \in Nat, NEW c \in Nat, NEW l \in Nat, NEW k \in Nat,
         NEW d \in {0, 1}, NEW e \in {0, 1}, NEW h, h = c + d - e,
         g + d <= f + e, f + b + c + l <= k
  PROVE  g + b + h + l <= k
  OBVIOUS

\* What a move of the running thread to p does to the number of copies.
LEMMA CopiesMove ==
  ASSUME Counting, TypeOK, NEW p, pc' = [pc EXCEPT ![running] = p]
  PROVE  Cardinality(Copies') = Cardinality(Copies)
           + (IF p \in CopyPC THEN 1 ELSE 0) - (IF pc[running] \in CopyPC THEN 1 ELSE 0)
  <1>1. running \in Thread /\ pc \in [Thread -> PC] /\ IsFiniteSet(Copies)
    BY Counts, Zenon DEF TypeOK, ThreadsTypeOK
  <1>2. Cardinality(Copies) \in Nat
    BY <1>1, Zenon DEF Counting, CountNat
  <1>3. CASE p \in CopyPC
    <2>1. Copies' = Copies \cup {running} /\ (running \in Copies <=> pc[running] \in CopyPC)
      BY <1>1, <1>3, Zenon DEF Copies
    <2>2. Cardinality(Copies \cup {running}) =
            IF running \in Copies THEN Cardinality(Copies) ELSE Cardinality(Copies) + 1
      BY <1>1, Zenon DEF Counting, CountAdd
    <2> QED  BY <1>2, <1>3, <2>1, <2>2
  <1>4. CASE p \notin CopyPC
    <2>1. Copies' = Copies \ {running} /\ (running \in Copies <=> pc[running] \in CopyPC)
      BY <1>1, <1>4, Zenon DEF Copies
    <2>2. Cardinality(Copies \ {running}) =
            IF running \in Copies THEN Cardinality(Copies) - 1 ELSE Cardinality(Copies)
      BY <1>1, Zenon DEF Counting, CountRemove
    <2> QED  BY <1>2, <1>4, <2>1, <2>2
  <1> QED  BY <1>3, <1>4, Zenon

LEMMA CopiesKept ==
  ASSUME Counting, TypeOK, NEW p, pc' = [pc EXCEPT ![running] = p], p \in CopyPC <=> pc[running] \in CopyPC
  PROVE  Cardinality(Copies') = Cardinality(Copies)
  <1>1. Cardinality(Copies) \in Nat
    BY Counts, Zenon DEF TypeOK
  <1>2. Cardinality(Copies') = Cardinality(Copies)
           + (IF p \in CopyPC THEN 1 ELSE 0) - (IF pc[running] \in CopyPC THEN 1 ELSE 0)
    BY CopiesMove, Zenon
  <1> QED  BY <1>1, <1>2

-----------------------------------------------------------------------------
(* Steps of the running thread without a switch. *)

\* The variables of process_wait and exit that such a step may change.
WaitTypes ==
  /\ level \in [Thread -> {"ON", "OFF"}]
  /\ wait_called \in [Thread -> BOOLEAN]
  /\ waiting_thread \in [Thread -> 0 .. MaxTid]
  /\ exit_status \in [Thread -> ExitStatus]
  /\ wt \in [Thread -> Thread \cup {NULL}]
  /\ arg \in [Thread -> Tid \cup {0, TID_ERROR}]

\* The places that the running thread may go to.
May(p) == p \in (IF running = Main THEN MainPC ELSE ProcessPC) \ {"waited"}

LEMMA MoveStep ==
  ASSUME Counting, Inv, NEW p, May(p), running # Idle, pc' = [pc EXCEPT ![running] = p],
         UNCHANGED <<threadVars, tidVars, child_exit_status, panic, histVars>>,
         WaitTypes', \A t \in Thread : waiting_thread'[t] # 2,
         live_pd' \subseteq Thread, PagedirsOK', cr3' \in live_pd' \cup {NULL}, OwnPagedirActive',
         free_pages' \in Nat, PagesCounted'
  PROVE  Inv'
  <1> SUFFICES ASSUME ProcessInv  PROVE  ProcessInv'
    BY Zenon DEF Inv
  <1> USE DEF threadVars, tidVars, histVars
  <1>1. running \in Thread /\ pc \in [Thread -> PC] /\ status[running] # "FREE"
    BY Zenon DEF ProcessInv, TypeOK, ThreadsTypeOK, RunQueueOK
  <1>2. p \in PC /\ p # "waited"
    BY Zenon DEF May, MainPC, ProcessPC, PC
  <1>3. free_pages' \in 0 .. KernelPages
    <2>1. Cardinality(Born') \in Nat /\ Cardinality(Copies') \in Nat /\ Cardinality(live_pd') \in Nat
      <3>1. Born' \subseteq Thread /\ Copies' \subseteq Thread
        BY Zenon DEF Born, Copies
      <3> QED  BY <3>1, PagesFinite, Zenon DEF Counting, CountSubset, CountNat
    <2> QED  BY <2>1, ProcessAssumption DEF PagesCounted
  <1>4. pc' \in [Thread -> PC]
    BY <1>1, <1>2, Zenon
  <1>5. TypeOK'
    BY <1>3, <1>4, Zenon DEF TypeOK, ProcessInv, ThreadsTypeOK, WaitTypes, PagedirsOK
  <1>6. PlacesOK'
    BY <1>1, ThreadAssumption, Zenon DEF PlacesOK, ProcessInv, May
  <1>7. RunQueueOK' /\ TidsOK'
    BY Zenon DEF ProcessInv, RunQueueOK, TidsOK, Live
  <1>8. WokenWithStatus'
    BY <1>1, <1>2 DEF ProcessInv, WokenWithStatus
  <1> QED  BY <1>5, <1>6, <1>7, <1>8, Zenon DEF ProcessInv, ActivePagedirExists

\* A page is taken or given back when a copy is made or freed, if at all.
Pays(p) ==
  /\ free_pages' \in Nat
  /\ free_pages' + (IF p \in CopyPC THEN 1 ELSE 0)
       <= free_pages + (IF pc[running] \in CopyPC THEN 1 ELSE 0)

\* The steps that change no page directory.
LEMMA PlainStep ==
  ASSUME Counting, Inv, NEW p, May(p), running # Idle, pc' = [pc EXCEPT ![running] = p],
         UNCHANGED <<threadVars, tidVars, child_exit_status, panic, histVars, pdVars, cr3>>,
         WaitTypes', \A t \in Thread : waiting_thread'[t] # 2,
         pc[running] \notin {"activate", "exit_activate"},
         p \notin {"start", "activate", "exit_activate", "exit_destroy"},
         p \in {"load", "die"} => pagedir[running] = NULL,
         Pays(p)
  PROVE  Inv'
  <1> SUFFICES ASSUME ProcessInv  PROVE  ProcessInv'
    BY Zenon DEF Inv
  <1> USE DEF threadVars, pdVars
  <1>1. running \in Thread /\ pc \in [Thread -> PC] /\ live_pd \subseteq Thread
    BY Zenon DEF ProcessInv, TypeOK, ThreadsTypeOK
  <1>2. PagedirsOK'
    BY <1>1, Zenon DEF ProcessInv, PagedirsOK
  <1>3. OwnPagedirActive' /\ cr3' \in live_pd' \cup {NULL}
    BY <1>1, Zenon DEF ProcessInv, OwnPagedirActive, ActivePagedirExists
  <1>4. PagesCounted'
    <2>1. Born' = Born /\ live_pd' = live_pd
      BY Zenon DEF Born
    <2>2. Cardinality(Copies') = Cardinality(Copies)
           + (IF p \in CopyPC THEN 1 ELSE 0) - (IF pc[running] \in CopyPC THEN 1 ELSE 0)
      BY CopiesMove, Zenon DEF ProcessInv
    <2>3. free_pages \in Nat
      BY DEF ProcessInv, TypeOK
    <2>4. free_pages + Cardinality(Born) + Cardinality(Copies) + Cardinality(live_pd) <= KernelPages
      BY Zenon DEF ProcessInv, PagesCounted
    <2>5. free_pages' + Cardinality(Born) + Cardinality(Copies') + Cardinality(live_pd) <= KernelPages
      <3>1. /\ free_pages' \in Nat
            /\ free_pages' + (IF p \in CopyPC THEN 1 ELSE 0)
                 <= free_pages + (IF pc[running] \in CopyPC THEN 1 ELSE 0)
        BY Zenon DEF Pays
      <3>2. /\ Cardinality(Born) \in Nat /\ Cardinality(Copies) \in Nat
            /\ Cardinality(live_pd) \in Nat
        BY <1>1, Counts, Zenon
      <3> DEFINE d == IF p \in CopyPC THEN 1 ELSE 0
                 e == IF pc[running] \in CopyPC THEN 1 ELSE 0
      <3>3. d \in {0, 1} /\ e \in {0, 1}
        BY Zenon
      <3>4. free_pages' + d <= free_pages + e /\ Cardinality(Copies') = Cardinality(Copies) + d - e
        BY <2>2, <3>1, Zenon
      <3> HIDE DEF d, e
      <3> QED  BY <2>3, <2>4, <3>1, <3>2, <3>3, <3>4, Balance, ProcessAssumption, Zenon
    <2> QED  BY <2>1, <2>5, Zenon DEF PagesCounted
  <1> QED  BY <1>1, <1>2, <1>3, <1>4, MoveStep, Zenon DEF Pays, Inv

\* Who is running, by where it is.
LEMMA Runs ==
  ASSUME Inv
  PROVE  /\ running \in Thread /\ running \in Live /\ status[running] = "RUNNING"
         /\ pc \in [Thread -> PC] /\ free_pages \in Nat /\ WaitTypes
         /\ pc[running] \notin IdlePC => running # Idle
         /\ pc[running] \in {"main", "main_wait"} => running = Main
         /\ pc[running] \in ProcessPC \ MainPC => running \notin {Main, Idle}
         /\ \A t \in Thread : waiting_thread[t] # 2
  <1> SUFFICES ASSUME ProcessInv  PROVE  /\ running \in Thread /\ running \in Live /\ status[running] = "RUNNING"
                                         /\ pc \in [Thread -> PC] /\ free_pages \in Nat /\ WaitTypes
                                         /\ pc[running] \notin IdlePC => running # Idle
                                         /\ pc[running] \in {"main", "main_wait"} => running = Main
                                         /\ pc[running] \in ProcessPC \ MainPC => running \notin {Main, Idle}
                                         /\ \A t \in Thread : waiting_thread[t] # 2
    BY Zenon DEF Inv
  <1>1. running \in Thread /\ pc \in [Thread -> PC] /\ free_pages \in Nat /\ WaitTypes
    BY SMTT(30) DEF ProcessInv, TypeOK, ThreadsTypeOK, WaitTypes
  <1>2. running \in Live /\ status[running] = "RUNNING"
    BY <1>1, Zenon DEF ProcessInv, RunQueueOK, Live
  <1> QED  BY <1>1, <1>2, ThreadAssumption, Zenon
           DEF ProcessInv, PlacesOK, MainPC, IdlePC, ProcessPC, PC, TidsOK

LEMMA GetThread ==
  ASSUME Inv, NEW n
  PROVE  /\ get_thread(n) \in Thread \cup {NULL}
         /\ get_thread(n) # NULL => get_thread(n) \in Live /\ tid[get_thread(n)] = n
  <1> SUFFICES ASSUME ProcessInv  PROVE  /\ get_thread(n) \in Thread \cup {NULL}
                                         /\ get_thread(n) # NULL => get_thread(n) \in Live /\ tid[get_thread(n)] = n
    BY Zenon DEF Inv
  <1> QED  BY ThreadAssumption, Zenon DEF get_thread, ProcessInv, TypeOK, ThreadsTypeOK, PlacesOK, Live

LEMMA OpenFailsStep == ASSUME Counting, Inv, ExecOpenFails  PROVE Inv'
  <1> SUFFICES ASSUME ProcessInv  PROVE  ProcessInv'
    BY Zenon DEF Inv
  <1> USE DEF ExecOpenFails, At
  <1>1. running \notin {Main, Idle} /\ pc[running] = "run"
    BY Runs, Zenon DEF ProcessPC, MainPC, PC
  <1>2. pc' = [pc EXCEPT ![running] = "run"]
    BY <1>1, Runs, Zenon
  <1>3. WaitTypes' /\ \A t \in Thread : waiting_thread'[t] # 2
    BY Runs, Zenon DEF WaitTypes, waitVars
  <1>4. Pays("run") /\ May("run")
    BY <1>1, Runs DEF Pays, CopyPC, May, ProcessPC, PC
  <1> QED  BY <1>1, <1>2, <1>3, <1>4, PlainStep, Zenon DEF waitVars, Inv

LEMMA StartStep == ASSUME Counting, Inv, StartProcess  PROVE Inv'
  <1> SUFFICES ASSUME ProcessInv  PROVE  ProcessInv'
    BY Zenon DEF Inv
  <1> USE DEF StartProcess, At, Goto
  <1>1. running \notin {Main, Idle} /\ pc[running] = "start"
    BY Runs, Zenon DEF ProcessPC, MainPC, PC
  <1>2. pagedir[running] = NULL
    BY <1>1, Runs, Zenon DEF ProcessInv, PagedirsOK
  <1>3. WaitTypes' /\ \A t \in Thread : waiting_thread'[t] # 2
    BY Runs, Zenon DEF WaitTypes, waitVars
  <1>4. CASE free_pages = 0 /\ Goto("exit") /\ UNCHANGED free_pages
    <2>1. Pays("exit") /\ May("exit")
      BY <1>1, <1>4, Runs DEF Pays, CopyPC, May, ProcessPC, PC
    <2> QED  BY <1>1, <1>3, <1>4, <2>1, PlainStep, Zenon DEF waitVars, Inv
  <1>5. CASE free_pages > 0 /\ Goto("load") /\ free_pages' = free_pages - 1
    <2>1. Pays("load") /\ May("load")
      BY <1>1, <1>5, Runs DEF Pays, CopyPC, May, ProcessPC, PC
    <2> QED  BY <1>1, <1>2, <1>3, <1>5, <2>1, PlainStep, Zenon DEF waitVars, Inv
  <1> QED  BY <1>4, <1>5, Zenon

LEMMA DoneStep == ASSUME Counting, Inv, LoadDone  PROVE Inv'
  <1> SUFFICES ASSUME ProcessInv  PROVE  ProcessInv'
    BY Zenon DEF Inv
  <1> USE DEF LoadDone, At, Goto
  <1>1. running \notin {Main, Idle} /\ pc[running] = "loading"
    BY Runs, Zenon DEF ProcessPC, MainPC, PC
  <1>2. WaitTypes' /\ \A t \in Thread : waiting_thread'[t] # 2
    BY Runs, Zenon DEF WaitTypes, waitVars
  <1>3. Pays("run") /\ May("run") /\ Pays("exit") /\ May("exit")
    BY <1>1, Runs DEF Pays, CopyPC, May, ProcessPC, PC
  <1>4. CASE Goto("run")
    BY <1>1, <1>2, <1>3, <1>4, PlainStep, Zenon DEF waitVars, Inv
  <1>5. CASE Goto("exit")
    BY <1>1, <1>2, <1>3, <1>5, PlainStep, Zenon DEF waitVars, Inv
  <1> QED  BY <1>4, <1>5, Zenon

\* process_wait returns, to run_task or to user code.
LEMMA ReturnStep ==
  ASSUME Counting, Inv, WaitReturn,
         pc[running] \in {"run", "main_wait", "wait_check", "waited"},
         UNCHANGED <<threadVars, tidVars, wait_called, waiting_thread, child_exit_status,
                     exit_status, arg, pdVars, cr3, free_pages, panic, histVars>>,
         wt' \in [Thread -> Thread \cup {NULL}]
  PROVE  Inv'
  <1> SUFFICES ASSUME ProcessInv  PROVE  ProcessInv'
    BY Zenon DEF Inv
  <1> USE DEF WaitReturn, Goto
  <1>1. running # Idle /\ pc[running] \notin CopyPC
    BY Runs, Zenon DEF IdlePC, CopyPC
  <1>2. WaitTypes' /\ \A t \in Thread : waiting_thread'[t] # 2
    BY Runs, Zenon DEF WaitTypes
  <1> DEFINE p == IF running = Main THEN "main" ELSE "run"
  <1>3. May(p) /\ p \notin CopyPC /\ pc' = [pc EXCEPT ![running] = p]
    BY Zenon DEF May, MainPC, ProcessPC, PC, CopyPC
  <1>4. p \notin {"start", "activate", "exit_activate", "exit_destroy", "load", "die"}
    BY Zenon
  <1> HIDE DEF p
  <1>5. Pays(p)
    BY <1>1, <1>3, Runs DEF Pays
  <1> QED  BY <1>1, <1>2, <1>3, <1>4, <1>5, PlainStep, Zenon DEF Inv

\* The steps of process_wait up to thread_block.
LEMMA WaitMoveStep ==
  ASSUME Counting, Inv, NEW p \in {"wait_check", "wait_mark", "wait_set", "wait_block"}, Goto(p),
         pc[running] \in {"run", "main_wait", "wait_check", "wait_mark", "wait_set"},
         UNCHANGED <<threadVars, tidVars, child_exit_status, pdVars, cr3, free_pages, panic,
                     histVars>>,
         WaitTypes', \A t \in Thread : waiting_thread'[t] # 2
  PROVE  Inv'
  <1> SUFFICES ASSUME ProcessInv  PROVE  ProcessInv'
    BY Zenon DEF Inv
  <1> USE DEF Goto
  <1>1. running # Idle /\ pc[running] \notin CopyPC /\ p \notin CopyPC
    BY Runs, Zenon DEF IdlePC, CopyPC
  <1>2. May(p)
    BY Zenon DEF May, MainPC, ProcessPC, PC
  <1>3. Pays(p)
    BY <1>1, Runs DEF Pays
  <1> QED  BY <1>1, <1>2, <1>3, PlainStep, Zenon DEF Inv

LEMMA WaitCallStep == ASSUME Counting, Inv, NEW n, process_wait(n), pc[running] \in {"run", "main_wait"}
                      PROVE Inv'
  <1> SUFFICES ASSUME ProcessInv  PROVE  ProcessInv'
    BY Zenon DEF Inv
  <1> USE DEF process_wait
  <1>1. wt' \in [Thread -> Thread \cup {NULL}]
    BY GetThread, Runs, Zenon DEF WaitTypes
  <1>2. CASE get_thread(n) = NULL
    BY <1>1, <1>2, ReturnStep, Zenon DEF Inv
  <1>3. CASE get_thread(n) # NULL
    <2>1. WaitTypes' /\ \A t \in Thread : waiting_thread'[t] # 2
      BY <1>1, <1>3, Runs, Zenon DEF WaitTypes
    <2> QED  BY <1>3, <2>1, WaitMoveStep, Zenon DEF Inv
  <1> QED  BY <1>2, <1>3, Zenon

LEMMA CheckStep == ASSUME Counting, Inv, WaitCheck  PROVE Inv'
  <1> SUFFICES ASSUME ProcessInv  PROVE  ProcessInv'
    BY Zenon DEF Inv
  <1> USE DEF WaitCheck, At, waitVars
  <1>1. CASE WaitReturn
    BY <1>1, ReturnStep, Runs, Zenon DEF WaitTypes, Inv
  <1>2. CASE Goto("wait_mark") /\ UNCHANGED level
    <2>1. WaitTypes' /\ \A t \in Thread : waiting_thread'[t] # 2
      BY <1>2, Runs, Zenon DEF WaitTypes
    <2> QED  BY <1>2, <2>1, WaitMoveStep, Zenon DEF Inv
  <1> QED  BY <1>1, <1>2, Zenon

LEMMA MarkStep == ASSUME Counting, Inv, WaitMark  PROVE Inv'
  <1> SUFFICES ASSUME ProcessInv  PROVE  ProcessInv'
    BY Zenon DEF Inv
  <1> USE DEF WaitMark, At
  <1>1. WaitTypes' /\ \A t \in Thread : waiting_thread'[t] # 2
    BY Runs, Zenon DEF WaitTypes
  <1> QED  BY <1>1, WaitMoveStep, Zenon DEF Inv

LEMMA SetStep == ASSUME Counting, Inv, WaitSet  PROVE Inv'
  <1> SUFFICES ASSUME ProcessInv  PROVE  ProcessInv'
    BY Zenon DEF Inv
  <1> USE DEF WaitSet, At
  <1>1. running # Idle /\ Idle \in Live /\ tid[running] \in 0 .. MaxTid
    BY Runs, ThreadAssumption, Zenon DEF IdlePC, ProcessInv, PlacesOK, Live, TypeOK
  <1>2. tid[running] # 2
    BY <1>1, Runs, Zenon DEF ProcessInv, TidsOK
  <1>3. WaitTypes' /\ \A t \in Thread : waiting_thread'[t] # 2
    BY <1>1, <1>2, Runs, Zenon DEF WaitTypes
  <1> QED  BY <1>3, WaitMoveStep, Zenon DEF Inv

LEMMA WaitedStep == ASSUME Counting, Inv, Waited  PROVE Inv'
  <1> SUFFICES ASSUME ProcessInv  PROVE  ProcessInv'
    BY Zenon DEF Inv
  <1> QED  BY ReturnStep, Runs, Zenon DEF Waited, At, WaitTypes, waitVars, Inv

LEMMA ExitCallStep == ASSUME Counting, Inv, NEW code \in ExitCode \cup {-1}, Exit(code)
                      PROVE Inv'
  <1> SUFFICES ASSUME ProcessInv  PROVE  ProcessInv'
    BY Zenon DEF Inv
  <1> USE DEF Exit, At, Goto
  <1>1. running \notin {Main, Idle} /\ pc[running] = "run"
    BY Runs, Zenon DEF ProcessPC, MainPC, PC
  <1>2. WaitTypes' /\ \A t \in Thread : waiting_thread'[t] # 2
    BY Runs, Zenon DEF WaitTypes, ExitStatus
  <1>3. Pays("exit") /\ May("exit")
    BY <1>1, Runs DEF Pays, CopyPC, May, ProcessPC, PC
  <1> QED  BY <1>1, <1>2, <1>3, PlainStep, Zenon DEF Inv

-----------------------------------------------------------------------------
(* Steps that make, activate, leave and destroy page directories. *)

LEMMA PagedirStep == ASSUME Counting, Inv, LoadPagedir  PROVE Inv'
  <1> SUFFICES ASSUME ProcessInv  PROVE  ProcessInv'
    BY Zenon DEF Inv
  <1> USE DEF LoadPagedir, At, Goto
  <1>1. running \notin {Main, Idle} /\ pc[running] = "load" /\ running \in Thread
    BY Runs, Zenon DEF ProcessPC, MainPC, PC
  <1>2. WaitTypes' /\ \A t \in Thread : waiting_thread'[t] # 2
    BY Runs, Zenon DEF WaitTypes, waitVars
  <1>3. CASE free_pages = 0 /\ free_pages' = free_pages + 1 /\ Goto("exit") /\ UNCHANGED pdVars
    <2>1. Pays("exit") /\ May("exit")
      BY <1>1, <1>3, Runs DEF Pays, CopyPC, May, ProcessPC, PC
    <2> QED  BY <1>1, <1>2, <1>3, <2>1, PlainStep, Zenon DEF waitVars, Inv
  <1>4. CASE /\ free_pages > 0
             /\ free_pages' = free_pages - 1
             /\ pagedir' = [pagedir EXCEPT ![running] = running]
             /\ live_pd' = live_pd \cup {running}
             /\ Goto("activate")
    <2>1. May("activate") /\ free_pages' \in Nat
      BY <1>1, <1>4, Runs DEF May, ProcessPC, PC
    <2>2. live_pd \subseteq Thread /\ live_pd' \subseteq Thread
      BY <1>1, <1>4, Zenon DEF ProcessInv, TypeOK
    <2>3. PagedirsOK'
      BY <1>1, <1>4, Runs, Zenon DEF PagedirsOK, ProcessInv
    <2>4. cr3' \in live_pd' \cup {NULL}
      BY <1>4, Zenon DEF ProcessInv, ActivePagedirExists
    <2>5. OwnPagedirActive'
      BY <1>1, <1>4, Runs, Zenon DEF OwnPagedirActive, threadVars
    <2>6. PagesCounted'
      <3>1. Born' = Born
        BY Zenon DEF Born, threadVars
      <3>2. Cardinality(Copies') = Cardinality(Copies)
        BY <1>1, <1>4, CopiesKept, Zenon DEF ProcessInv, CopyPC
      <3>3. Cardinality(live_pd') \in {Cardinality(live_pd), Cardinality(live_pd) + 1}
        BY <1>4, <2>2, Counts, Zenon DEF Counting, CountAdd
      <3>4. free_pages + Cardinality(Born) + Cardinality(Copies) + Cardinality(live_pd)
              <= KernelPages
        BY Zenon DEF ProcessInv, PagesCounted
      <3> QED  BY <1>4, <2>2, <3>1, <3>2, <3>3, <3>4, Runs, Counts, ProcessAssumption
               DEF PagesCounted
    <2> QED  BY <1>1, <1>2, <1>4, <2>1, <2>2, <2>3, <2>4, <2>5, <2>6, MoveStep, Zenon DEF waitVars, Inv
  <1> QED  BY <1>3, <1>4, Zenon

LEMMA ActivateStep == ASSUME Counting, Inv, LoadActivate  PROVE Inv'
  <1> SUFFICES ASSUME ProcessInv  PROVE  ProcessInv'
    BY Zenon DEF Inv
  <1> USE DEF LoadActivate, At, Goto
  <1>1. running \notin {Main, Idle} /\ pc[running] = "activate" /\ running \in Thread
    BY Runs, Zenon DEF ProcessPC, MainPC, PC
  <1>2. WaitTypes' /\ \A t \in Thread : waiting_thread'[t] # 2
    BY Runs, Zenon DEF WaitTypes, waitVars
  <1>3. May("loading") /\ free_pages' \in Nat
    BY <1>1, Runs, Zenon DEF May, ProcessPC, PC
  <1>4. live_pd \subseteq Thread /\ live_pd' \subseteq Thread
    BY <1>1, Zenon DEF ProcessInv, TypeOK, pdVars
  <1>5. PagedirsOK'
    BY <1>1, Runs, Zenon DEF PagedirsOK, ProcessInv, pdVars
  <1>6. cr3' \in live_pd' \cup {NULL} /\ OwnPagedirActive'
    BY <1>1, Zenon DEF ProcessInv, PagedirsOK, OwnPagedirActive, pdVars, threadVars
  <1>7. PagesCounted'
    <2>1. Born' = Born /\ live_pd' = live_pd /\ free_pages' = free_pages
      BY Zenon DEF Born, threadVars, pdVars
    <2>2. Cardinality(Copies') = Cardinality(Copies)
      BY <1>1, CopiesKept, Zenon DEF ProcessInv, CopyPC
    <2> QED  BY <2>1, <2>2, Zenon DEF ProcessInv, PagesCounted
  <1> QED  BY <1>1, <1>2, <1>3, <1>4, <1>5, <1>6, <1>7, MoveStep, Zenon DEF waitVars, Inv

LEMMA ForgetStep == ASSUME Counting, Inv, ProcessExit  PROVE Inv'
  <1> SUFFICES ASSUME ProcessInv  PROVE  ProcessInv'
    BY Zenon DEF Inv
  <1> USE DEF ProcessExit, At, Goto
  <1> DEFINE p == IF pagedir[running] = NULL THEN "die" ELSE "exit_activate"
  <1>1. running \notin {Main, Idle} /\ pc[running] = "exit" /\ running \in Thread
    BY Runs, Zenon DEF ProcessPC, MainPC, PC
  <1>2. WaitTypes' /\ \A t \in Thread : waiting_thread'[t] # 2
    BY Runs, Zenon DEF WaitTypes, waitVars
  <1>3. May(p) /\ free_pages' \in Nat /\ p \notin CopyPC
    BY <1>1, Runs, Zenon DEF May, ProcessPC, PC, CopyPC
  <1>4. live_pd \subseteq Thread /\ live_pd' \subseteq Thread
    BY <1>1, Zenon DEF ProcessInv, TypeOK
  <1>5. PagedirsOK'
    BY <1>1, Runs, Zenon DEF PagedirsOK, ProcessInv
  <1>6. cr3' \in live_pd' \cup {NULL}
    BY Zenon DEF ProcessInv, ActivePagedirExists
  <1>7. OwnPagedirActive'
    BY <1>1, Runs, Zenon DEF ProcessInv, PagedirsOK, OwnPagedirActive, threadVars
  <1>8. pc' = [pc EXCEPT ![running] = p]
    BY Zenon
  <1> HIDE DEF p
  <1>9. PagesCounted'
    <2>1. Born' = Born /\ live_pd' = live_pd /\ free_pages' = free_pages
      BY Zenon DEF Born, threadVars
    <2>2. Cardinality(Copies') = Cardinality(Copies)
      BY <1>1, <1>3, <1>8, CopiesKept, Zenon DEF ProcessInv, CopyPC
    <2> QED  BY <2>1, <2>2, Zenon DEF ProcessInv, PagesCounted
  <1> QED  BY <1>1, <1>2, <1>3, <1>4, <1>5, <1>6, <1>7, <1>8, <1>9, MoveStep, Zenon DEF waitVars, Inv

LEMMA LeaveStep == ASSUME Counting, Inv, ExitActivate  PROVE Inv'
  <1> SUFFICES ASSUME ProcessInv  PROVE  ProcessInv'
    BY Zenon DEF Inv
  <1> USE DEF ExitActivate, At, Goto
  <1>1. running \notin {Main, Idle} /\ pc[running] = "exit_activate" /\ running \in Thread
    BY Runs, Zenon DEF ProcessPC, MainPC, PC
  <1>2. WaitTypes' /\ \A t \in Thread : waiting_thread'[t] # 2
    BY Runs, Zenon DEF WaitTypes, waitVars
  <1>3. May("exit_destroy") /\ free_pages' \in Nat
    BY <1>1, Runs, Zenon DEF May, ProcessPC, PC
  <1>4. live_pd \subseteq Thread /\ live_pd' \subseteq Thread
    BY <1>1, Zenon DEF ProcessInv, TypeOK, pdVars
  <1>5. PagedirsOK'
    BY <1>1, Runs, Zenon DEF PagedirsOK, ProcessInv, pdVars
  <1>6. cr3' \in live_pd' \cup {NULL} /\ OwnPagedirActive'
    BY <1>1, Zenon DEF ProcessInv, PagedirsOK, OwnPagedirActive, pdVars, threadVars
  <1>7. PagesCounted'
    <2>1. Born' = Born /\ live_pd' = live_pd /\ free_pages' = free_pages
      BY Zenon DEF Born, threadVars, pdVars
    <2>2. Cardinality(Copies') = Cardinality(Copies)
      BY <1>1, CopiesKept, Zenon DEF ProcessInv, CopyPC
    <2> QED  BY <2>1, <2>2, Zenon DEF ProcessInv, PagesCounted
  <1> QED  BY <1>1, <1>2, <1>3, <1>4, <1>5, <1>6, <1>7, MoveStep, Zenon DEF waitVars, Inv

LEMMA DestroyStep == ASSUME Counting, Inv, ExitDestroy  PROVE Inv'
  <1> SUFFICES ASSUME ProcessInv  PROVE  ProcessInv'
    BY Zenon DEF Inv
  <1> USE DEF ExitDestroy, At, Goto
  <1>1. /\ running \notin {Main, Idle} /\ pc[running] = "exit_destroy" /\ running \in Thread
        /\ pagedir[running] = NULL /\ running \in live_pd
    BY Runs, Zenon DEF ProcessPC, MainPC, PC, ProcessInv, PagedirsOK
  <1>2. WaitTypes' /\ \A t \in Thread : waiting_thread'[t] # 2
    BY Runs, Zenon DEF WaitTypes, waitVars
  <1>3. May("die") /\ free_pages' \in Nat
    BY <1>1, Runs DEF May, ProcessPC, PC
  <1>4. live_pd \subseteq Thread /\ live_pd' \subseteq Thread
    BY <1>1, Zenon DEF ProcessInv, TypeOK
  <1>5. PagedirsOK'
    BY <1>1, Runs, Zenon DEF PagedirsOK, ProcessInv
  <1>6. cr3 = NULL /\ cr3' = NULL
    BY <1>1, Zenon DEF ProcessInv, OwnPagedirActive
  <1>7. OwnPagedirActive'
    BY <1>1, <1>6, Zenon DEF OwnPagedirActive, threadVars
  <1>8. PagesCounted'
    <2>1. Born' = Born /\ free_pages' = free_pages + 1
      BY Zenon DEF Born, threadVars
    <2>2. Cardinality(Copies') = Cardinality(Copies)
      BY <1>1, CopiesKept, Zenon DEF ProcessInv, CopyPC
    <2>3. Cardinality(live_pd') = Cardinality(live_pd) - 1
      BY <1>1, <1>4, Counts, Zenon DEF Counting, CountRemove
    <2>4. free_pages + Cardinality(Born) + Cardinality(Copies) + Cardinality(live_pd)
            <= KernelPages
      BY Zenon DEF ProcessInv, PagesCounted
    <2> QED  BY <1>4, <2>1, <2>2, <2>3, <2>4, Runs, Counts, ProcessAssumption DEF PagesCounted
  <1> QED  BY <1>1, <1>2, <1>3, <1>4, <1>5, <1>6, <1>7, <1>8, MoveStep, Zenon DEF waitVars, Inv

-----------------------------------------------------------------------------
(* Steps that switch threads. *)

\* No thread is created, exits or is woken, but the idle thread.
StillBlocked ==
  /\ \A t \in Thread : status'[t] = "FREE" <=> status[t] = "FREE"
  /\ \A t \in Thread \ {Idle} : status[t] = "BLOCKED" => status'[t] = "BLOCKED"

LEMMA KeepsBlocked ==
  ASSUME Inv, NEW S, Blocked \subseteq S, Keeps(S, Free)
  PROVE  StillBlocked
  <1> SUFFICES ASSUME ProcessInv  PROVE  StillBlocked
    BY Zenon DEF Inv
  <1> QED  BY ThreadAssumption, Zenon DEF StillBlocked, Keeps, Blocked, Free, ProcessInv, PlacesOK

\* A switch from the running thread, which may go to p first.  The directory of
\* the thread switched to is activated.
LEMMA SwitchStep ==
  ASSUME Counting, Inv, NEW p, pc' = [pc EXCEPT ![running] = p],
         p \in (IF running = Main THEN MainPC ELSE IF running = Idle THEN IdlePC ELSE ProcessPC),
         p \in CopyPC \/ pc[running] \in CopyPC => p = pc[running],
         p \in {"start", "exit_activate", "exit_destroy", "die"} => p = pc[running],
         pc[running] = "exit_activate" => p = pc[running],
         p = "waited" => pc[running] = "waited" \/ status'[running] = "BLOCKED",
         ThreadsTypeOK', RunQueueOK', idle_thread' = idle_thread, all_list' = all_list,
         StillBlocked, cr3' = pagedir[running'] \/ (running' = running /\ cr3' = cr3),
         level' \in [Thread -> {"ON", "OFF"}],
         UNCHANGED <<tidVars, waitVars, pdVars, free_pages, panic, histVars>>
  PROVE  Inv'
  <1> SUFFICES ASSUME ProcessInv  PROVE  ProcessInv'
    BY Zenon DEF Inv
  <1> USE DEF tidVars, waitVars, pdVars, histVars
  <1>1. /\ running \in Thread /\ running' \in Thread /\ pc \in [Thread -> PC] /\ p \in PC
        /\ idle_thread = Idle /\ status[running] # "FREE"
    BY Runs, Zenon DEF ThreadsTypeOK, MainPC, IdlePC, ProcessPC, PC, ProcessInv, PlacesOK
  <1>2. /\ \A t \in Thread : status'[t] = "FREE" <=> status[t] = "FREE"
        /\ \A t \in Thread \ {Idle} : status[t] = "BLOCKED" => status'[t] = "BLOCKED"
    BY Zenon DEF StillBlocked
  <1>3. /\ \A t \in Thread : pagedir[t] \in {NULL, t} /\ (pagedir[t] # NULL => t \in live_pd)
        /\ cr3 \in live_pd \cup {NULL}
    BY Zenon DEF ProcessInv, PagedirsOK, ActivePagedirExists
  <1>4. cr3' \in live_pd \cup {NULL}
    BY <1>1, <1>3
  <1>5. TypeOK'
    BY <1>1, <1>4, Zenon DEF TypeOK, ProcessInv
  <1>6. PlacesOK'
    BY <1>1, <1>2, ThreadAssumption, Zenon DEF PlacesOK, ProcessInv
  <1>7. PagedirsOK'
    BY <1>1, ThreadAssumption, Zenon DEF PagedirsOK, ProcessInv, CopyPC
  <1>8. TidsOK'
    <2>1. Live' = Live
      BY <1>2, Zenon DEF Live
    <2> QED  BY <2>1, Zenon DEF TidsOK, ProcessInv
  <1>9. PagesCounted'
    <2>1. Born' = Born
      BY <1>2, Zenon DEF Born
    <2>2. Copies' = Copies
      BY <1>1, Zenon DEF Copies
    <2> QED  BY <2>1, <2>2, Zenon DEF PagesCounted, ProcessInv
  <1>10. OwnPagedirActive'
    <2>1. CASE cr3' = pagedir[running']
      BY <2>1, Zenon DEF OwnPagedirActive
    <2>2. CASE running' = running /\ cr3' = cr3
      BY <1>1, <2>2, Zenon DEF OwnPagedirActive, ProcessInv, CopyPC
    <2> QED  BY <2>1, <2>2, Zenon
  <1>11. WokenWithStatus'
    <2> SUFFICES ASSUME NEW t \in all_list, pc'[t] = "waited", status'[t] # "BLOCKED"
                 PROVE  woken_by[t] # 0 /\ exited[woken_by[t]] = child_exit_status[t]
      BY Zenon DEF WokenWithStatus
    <2>1. t \in Thread /\ t # Idle
      BY <1>6, Zenon DEF ProcessInv, TypeOK, ThreadsTypeOK, PlacesOK, IdlePC
    <2>2. pc[t] = "waited" /\ status[t] # "BLOCKED"
      BY <1>1, <1>2, <2>1, Zenon
    <2> QED  BY <2>2, Zenon DEF ProcessInv, WokenWithStatus
  <1> QED  BY <1>4, <1>5, <1>6, <1>7, <1>8, <1>9, <1>10, <1>11, Zenon DEF ProcessInv, ActivePagedirExists

LEMMA WaitBlockStep == ASSUME Counting, Inv, WaitBlock  PROVE Inv'
  <1> SUFFICES ASSUME ProcessInv  PROVE  ProcessInv'
    BY Zenon DEF Inv
  <1> USE DEF WaitBlock, At, Goto, process_activate
  <1>1. /\ running # Idle /\ pc[running] = "wait_block" /\ running \in Thread
        /\ ThreadsTypeOK /\ RunQueueOK /\ idle_thread = Idle /\ status[running] = "RUNNING"
    BY Runs, Zenon DEF IdlePC, ProcessInv, TypeOK, PlacesOK
  <1>2. ThreadsTypeOK' /\ idle_thread' = idle_thread /\ all_list' = all_list
    BY <1>1, BlockType, ThreadAssumption, Zenon DEF thread_block, schedule
  <1>3. RunQueueOK' /\ Keeps(Blocked \cup {running}, Free)
    BY <1>1, BlockQueue, ThreadAssumption, Zenon
  <1>4. status'[running] = "BLOCKED" /\ StillBlocked
    BY <1>1, <1>3, KeepsBlocked, Zenon DEF Keeps
  <1>5. "waited" \in MainPC \cap ProcessPC /\ "wait_block" \notin CopyPC /\ "waited" \notin CopyPC
    BY Zenon DEF MainPC, ProcessPC, PC, CopyPC
  <1>6. level' \in [Thread -> {"ON", "OFF"}]
    BY Runs, Zenon DEF WaitTypes
  <1> QED  BY <1>1, <1>2, <1>3, <1>4, <1>5, <1>6, SwitchStep, Zenon DEF Inv

LEMMA IdleBlockStep == ASSUME Counting, Inv, IdleBlock  PROVE Inv'
  <1> SUFFICES ASSUME ProcessInv  PROVE  ProcessInv'
    BY Zenon DEF Inv
  <1> USE DEF IdleBlock, At, Goto, process_activate
  <1>1. /\ pc[running] = "idle" /\ running \in Thread
        /\ ThreadsTypeOK /\ RunQueueOK /\ idle_thread = Idle /\ Main # Idle
    BY Runs, ThreadAssumption, Zenon DEF ProcessInv, TypeOK, PlacesOK
  <1>2. running = Idle
    BY <1>1, Zenon DEF ProcessInv, PlacesOK, MainPC, ProcessPC
  <1>3. ThreadsTypeOK' /\ idle_thread' = idle_thread /\ all_list' = all_list
    BY <1>1, BlockType, ThreadAssumption, Zenon DEF thread_block, schedule
  <1>4. RunQueueOK' /\ Keeps(Blocked \cup {running}, Free)
    BY <1>1, BlockQueue, ThreadAssumption, Zenon
  <1>5. StillBlocked
    BY <1>4, KeepsBlocked, Zenon
  <1>6. "halt" \in IdlePC /\ "halt" \notin CopyPC /\ "idle" \notin CopyPC
    BY Zenon DEF IdlePC, CopyPC
  <1>7. level' \in [Thread -> {"ON", "OFF"}]
    BY Runs, Zenon DEF WaitTypes
  <1> QED  BY <1>1, <1>2, <1>3, <1>4, <1>5, <1>6, <1>7, SwitchStep, Zenon DEF Inv

LEMMA TimerStep == ASSUME Counting, Inv, TimerInterrupt  PROVE Inv'
  <1> SUFFICES ASSUME ProcessInv  PROVE  ProcessInv'
    BY Zenon DEF Inv
  <1> USE DEF TimerInterrupt, process_activate
  <1> DEFINE p == IF pc[running] = "halt" THEN "idle" ELSE pc[running]
  <1>1. /\ running \in Thread /\ pc \in [Thread -> PC]
        /\ ThreadsTypeOK /\ RunQueueOK /\ idle_thread = Idle
    BY Runs, Zenon DEF ProcessInv, TypeOK, PlacesOK
  <1>2. ThreadsTypeOK' /\ idle_thread' = idle_thread /\ all_list' = all_list
    BY <1>1, TickType, ThreadAssumption, Zenon DEF thread_tick, thread_yield, schedule
  <1>3. RunQueueOK' /\ Keeps(Blocked, Free) /\ (thread_ticks' # 0 => running' = running)
    BY <1>1, TickQueue, Zenon
  <1>4. StillBlocked
    BY <1>3, KeepsBlocked, Zenon
  <1>5. pc' = [pc EXCEPT ![running] = p]
    BY <1>1, Zenon
  <1>6. /\ p \in (IF running = Main THEN MainPC ELSE IF running = Idle THEN IdlePC ELSE ProcessPC)
        /\ p = pc[running] \/ (pc[running] = "halt" /\ p = "idle")
    BY <1>1, Zenon DEF ProcessInv, PlacesOK, MainPC, IdlePC, ProcessPC
  <1> HIDE DEF p
  <1>7. p \in CopyPC \/ pc[running] \in CopyPC => p = pc[running]
    BY <1>6, Zenon DEF CopyPC
  <1>8. level' \in [Thread -> {"ON", "OFF"}]
    BY Runs, Zenon DEF WaitTypes
  <1> QED  BY <1>1, <1>2, <1>3, <1>4, <1>5, <1>6, <1>7, <1>8, SwitchStep, Zenon DEF Inv

-----------------------------------------------------------------------------
(* Creation and exit of a thread. *)

\* thread_create makes the free page t a ready thread with a fresh identifier.
LEMMA CreateStep ==
  ASSUME Counting, Inv, NEW n \in Nat, n <= free_pages, n > 2, NEW t \in Thread, NEW p,
         \/ pc[running] = "run" /\ p = "run"
         \/ pc[running] = "main" /\ p = "main_wait",
         process_execute(n, t), pc' = Started(t, n, p), Forgotten(t, n), exited' = exited,
         arg' \in [Thread -> Tid \cup {0, TID_ERROR}]
  PROVE  Inv'
  <1> SUFFICES ASSUME ProcessInv  PROVE  ProcessInv'
    BY Zenon DEF Inv
  <1> USE DEF tidVars, pdVars
  <1>1. /\ status[t] = "FREE" /\ status' = [status EXCEPT ![t] = "READY"]
        /\ ready_list' = Append(ready_list, t) /\ all_list' = all_list \cup {t}
        /\ tid' = [tid EXCEPT ![t] = next_tid] /\ next_tid' = next_tid + 1
        /\ next_tid <= MaxTid /\ free_pages' = n - 3
        /\ UNCHANGED <<running, idle_thread, thread_ticks, wt, pagedir, live_pd, cr3, panic>>
    BY DEF process_execute, PagesAfterExecute
  <1>2. /\ parent' = [parent EXCEPT ![next_tid] = tid[running]]
        /\ wait_called' = [wait_called EXCEPT ![t] = FALSE]
        /\ waiting_thread' = [waiting_thread EXCEPT ![t] = 0]
        /\ child_exit_status' = [child_exit_status EXCEPT ![t] = 0]
        /\ exit_status' = [exit_status EXCEPT ![t] = 0]
        /\ level' = [level EXCEPT ![t] = "ON"]
    BY DEF process_execute
  <1>3. /\ pc' = [pc EXCEPT ![t] = "start", ![running] = p]
        /\ woken_by' = [woken_by EXCEPT ![t] = 0]
    BY Zenon DEF Started, Forgotten
  <1>4. /\ running \in Thread /\ pc \in [Thread -> PC] /\ status[running] = "RUNNING"
        /\ status \in [Thread -> Status] /\ t # running /\ idle_thread = Idle
        /\ t \notin {Main, Idle} /\ pc[t] \in {"start", "die"} /\ free_pages \in Nat
    BY <1>1, Runs, Zenon DEF ProcessInv, PlacesOK, TypeOK, ThreadsTypeOK
  <1>5. /\ running # Idle /\ p \in (IF running = Main THEN MainPC ELSE ProcessPC) /\ p \in PC
        /\ p \notin CopyPC /\ pc[running] \notin CopyPC
    BY Runs, Zenon DEF MainPC, ProcessPC, PC, IdlePC, CopyPC
  <1>6. /\ \A u \in Thread : pc'[u] = IF u = running THEN p ELSE IF u = t THEN "start" ELSE pc[u]
        /\ \A u \in Thread : status'[u] = IF u = t THEN "READY" ELSE status[u]
    BY <1>1, <1>3, <1>4, Zenon
  <1>7. ThreadsTypeOK'
    <2>1. ready_list' \in Seq(Thread)
      BY <1>1, AppendRange, Zenon DEF ProcessInv, TypeOK, ThreadsTypeOK
    <2> QED  BY <1>1, <2>1, Zenon DEF ProcessInv, TypeOK, ThreadsTypeOK, Status
  <1>8. RunQueueOK'
    <2>1. t \notin Range(ready_list) /\ ready_list \in Seq(Thread) /\ IsInjective(ready_list)
      BY <1>1, Zenon DEF ProcessInv, RunQueueOK, TypeOK, ThreadsTypeOK
    <2>2. IsInjective(ready_list') /\ Range(ready_list') = Range(ready_list) \cup {t}
      BY <1>1, <2>1, AppendOnce, AppendRange
    <2> QED  BY <1>1, <1>4, <1>6, <2>2 DEF ProcessInv, RunQueueOK
  <1>9. PlacesOK'
    BY <1>1, <1>4, <1>5, <1>6, ThreadAssumption DEF ProcessInv, PlacesOK, ProcessPC, PC
  <1>10. PagedirsOK'
    BY <1>1, <1>4, <1>5, <1>6, Zenon DEF ProcessInv, PagedirsOK
  <1>11. TidsOK'
    <2>1. Live' = Live \cup {t} /\ t \notin Live
      BY <1>1, <1>6 DEF Live
    <2>2. /\ next_tid \in Tid /\ next_tid \in Nat /\ exited[next_tid] = Alive
          /\ tid \in [Thread -> 0 .. MaxTid]
      <3>1. /\ next_tid \in 1 .. (MaxTid + 1) /\ next_tid <= MaxTid
            /\ tid \in [Thread -> 0 .. MaxTid]
            /\ \A m \in Tid : m >= next_tid => exited[m] = Alive
        BY <1>1, Zenon DEF ProcessInv, TypeOK, TidsOK
      <3>2. next_tid \in Tid /\ next_tid \in Nat /\ next_tid >= next_tid
        BY <3>1, ProcessAssumption DEF Tid
      <3> QED  BY <3>1, <3>2, Zenon
    <2>3. \A u \in Live : u \in Thread /\ tid'[u] = tid[u] /\ tid[u] < next_tid
      BY <1>1, <2>1, <2>2, Zenon DEF ProcessInv, TidsOK, Live
    <2>4. tid'[t] = next_tid
      BY <1>1, <2>2, Zenon
    <2>5. \A u \in Live' : tid'[u] \in Tid /\ tid'[u] < next_tid' /\ exited'[tid'[u]] = Alive
      BY <1>1, <2>1, <2>2, <2>3, <2>4, ProcessAssumption, SMTT(30) DEF ProcessInv, TidsOK, Tid
    <2>6. \A u, v \in Live' : tid'[u] = tid'[v] => u = v
      <3>1. \A u \in Live : tid[u] \in Nat
        BY <2>2, <2>3, ProcessAssumption
      <3> QED  BY <2>1, <2>2, <2>3, <2>4, <3>1 DEF ProcessInv, TidsOK
    <2>7. \A m \in Tid : m >= next_tid' => exited'[m] = Alive
      BY <1>1, <2>2, SMTT(30) DEF ProcessInv, TidsOK, Tid
    <2>8. tid'[Idle] = 2 /\ \A u \in Thread : waiting_thread'[u] # 2
      BY <1>1, <1>2, <1>4, ThreadAssumption DEF ProcessInv, TidsOK, TypeOK
    <2> QED  BY <2>5, <2>6, <2>7, <2>8, Zenon DEF TidsOK
  <1>12. PagesCounted' /\ free_pages' \in 0 .. KernelPages
    <2>1. Born' = Born \cup {t} /\ t \notin Born
      BY <1>1, <1>4, <1>6, Zenon DEF Born
    <2>2. Copies' = Copies
      BY <1>4, <1>5, <1>6, Zenon DEF Copies, CopyPC
    <2>3. live_pd \subseteq Thread /\ live_pd' = live_pd
      BY <1>1, Zenon DEF ProcessInv, TypeOK
    <2>4. Cardinality(Born') = Cardinality(Born) + 1
      BY <2>1, <2>3, Counts, Zenon DEF Counting, CountAdd
    <2>5. free_pages + Cardinality(Born) + Cardinality(Copies) + Cardinality(live_pd) <= KernelPages
      BY Zenon DEF ProcessInv, PagesCounted
    <2>6. Cardinality(Born) \in Nat /\ Cardinality(Copies) \in Nat /\ Cardinality(live_pd) \in Nat
      BY <2>3, Counts, Zenon
    <2>7. free_pages' = n - 3 /\ n > 2 /\ free_pages \in Nat
      BY <1>1, <1>4, Zenon
    <2>8. /\ free_pages' \in 0 .. KernelPages
          /\ free_pages' + (Cardinality(Born) + 1) + Cardinality(Copies) + Cardinality(live_pd) <= KernelPages
      BY <2>5, <2>6, <2>7, ProcessAssumption
    <2> QED  BY <2>2, <2>3, <2>4, <2>8, Zenon DEF PagesCounted
  <1>13. TypeOK'
    <2>1. level' \in [Thread -> {"ON", "OFF"}] /\ pc' \in [Thread -> PC]
      <3>1. "start" \in PC /\ level \in [Thread -> {"ON", "OFF"}]
        BY Zenon DEF PC, ProcessInv, TypeOK
      <3> QED  BY <1>2, <1>3, <1>4, <1>5, <3>1, Zenon
    <2> DEFINE N == 0 .. MaxTid
    <2>2. /\ tid \in [Thread -> N] /\ next_tid \in 1 .. (MaxTid + 1)
          /\ waiting_thread \in [Thread -> N] /\ woken_by \in [Thread -> N] /\ parent \in [Tid -> N]
      BY Zenon DEF ProcessInv, TypeOK
    <2>3. 0 \in N /\ next_tid \in N /\ next_tid' \in 1 .. (MaxTid + 1)
      BY <1>1, <2>2, ProcessAssumption
    <2> HIDE DEF N
    <2>4. wait_called' \in [Thread -> BOOLEAN]
      <3>1. wait_called \in [Thread -> BOOLEAN]
        BY Zenon DEF ProcessInv, TypeOK
      <3> QED  BY <1>2, <3>1, Zenon
    <2>5. /\ waiting_thread' \in [Thread -> N] /\ woken_by' \in [Thread -> N]
          /\ parent' \in [Tid -> N] /\ tid' \in [Thread -> N]
      BY <1>1, <1>2, <1>3, <1>4, <2>2, <2>3, Zenon
    <2>6. /\ child_exit_status' \in [Thread -> ExitStatus] /\ exit_status' \in [Thread -> ExitStatus]
          /\ exited' \in [Tid -> ExitStatus \cup {Alive}]
      BY <1>2, Zenon DEF ProcessInv, TypeOK, ExitStatus
    <2>7. panic' \in BOOLEAN
      BY <1>1, Zenon DEF ProcessInv, TypeOK
    <2> QED  BY <1>1, <1>7, <1>12, <2>1, <2>3, <2>4, <2>5, <2>6, <2>7, Zenon DEF ProcessInv, TypeOK, N
  <1>14. ActivePagedirExists' /\ OwnPagedirActive'
    BY <1>1, <1>4, <1>5, <1>6, Zenon DEF ProcessInv, ActivePagedirExists, OwnPagedirActive
  <1>15. WokenWithStatus'
    <2> SUFFICES ASSUME NEW u \in all_list', pc'[u] = "waited", status'[u] # "BLOCKED"
                 PROVE  woken_by'[u] # 0 /\ exited'[woken_by'[u]] = child_exit_status'[u]
      BY Zenon DEF WokenWithStatus
    <2>1. u \in Thread /\ u # running /\ u # t /\ u \in all_list
      BY <1>1, <1>4, <1>6, Zenon DEF ProcessInv, TypeOK, ThreadsTypeOK
    <2>2. /\ pc[u] = "waited" /\ status[u] # "BLOCKED"
          /\ woken_by'[u] = woken_by[u] /\ child_exit_status'[u] = child_exit_status[u]
      BY <1>2, <1>3, <1>6, <2>1, Zenon DEF ProcessInv, TypeOK
    <2> QED  BY <2>1, <2>2, Zenon DEF ProcessInv, WokenWithStatus
  <1> QED  BY <1>8, <1>9, <1>10, <1>11, <1>12, <1>13, <1>14, <1>15, Zenon DEF ProcessInv

\* process_execute, with and without enough pages for a thread.
LEMMA ExecuteStep ==
  ASSUME Counting, Inv, NEW n \in Nat, n <= free_pages, NEW t \in Thread, NEW p,
         \/ pc[running] = "run" /\ p = "run"
         \/ pc[running] = "main" /\ p = "main_wait",
         process_execute(n, t), pc' = Started(t, n, p), Forgotten(t, n), exited' = exited,
         arg' \in [Thread -> Tid \cup {0, TID_ERROR}]
  PROVE  Inv'
  <1> SUFFICES ASSUME ProcessInv  PROVE  ProcessInv'
    BY Zenon DEF Inv
  <1>1. CASE n > 2
    BY <1>1, CreateStep, Zenon DEF Inv
  <1>2. CASE ~(n > 2)
    <2>1. /\ UNCHANGED <<threadVars, tidVars, child_exit_status, panic, histVars, pdVars, cr3>>
          /\ UNCHANGED <<level, wait_called, waiting_thread, exit_status, wt>>
          /\ free_pages' \in Nat /\ free_pages' <= free_pages
      <3>1. free_pages' \in Nat /\ free_pages' <= free_pages
        <4>1. free_pages' = PagesAfterExecute(n) /\ free_pages \in Nat
          BY Runs, Zenon DEF process_execute
        <4> QED  BY <1>2, <4>1 DEF PagesAfterExecute
      <3> QED  BY <1>2, <3>1, Zenon DEF process_execute, threadVars, tidVars, Forgotten, histVars, pdVars
    <2>2. pc' = [pc EXCEPT ![running] = p]
      BY <1>2, Zenon DEF Started
    <2>3. /\ running # Idle /\ May(p) /\ p \notin CopyPC /\ pc[running] \notin CopyPC
      BY Runs, Zenon DEF May, MainPC, ProcessPC, PC, IdlePC, CopyPC
    <2>4. Pays(p)
      BY <2>1, <2>3, Runs DEF Pays
    <2>5. WaitTypes' /\ \A u \in Thread : waiting_thread'[u] # 2
      BY <2>1, Runs, Zenon DEF WaitTypes
    <2> QED  BY <2>1, <2>2, <2>3, <2>4, <2>5, PlainStep, Zenon DEF Inv
  <1> QED  BY <1>1, <1>2, Zenon

LEMMA ExecStep == ASSUME Counting, Inv, NEW t \in Thread, Exec(t)  PROVE Inv'
  <1> SUFFICES ASSUME ProcessInv  PROVE  ProcessInv'
    BY Zenon DEF Inv
  <1> USE DEF Exec, At
  <1>1. free_pages - 1 \in Nat /\ free_pages - 1 <= free_pages
    BY Runs
  <1>2. arg' \in [Thread -> Tid \cup {0, TID_ERROR}]
    BY Runs, Zenon DEF WaitTypes
  <1> QED  BY <1>1, <1>2, ExecuteStep, Zenon DEF Inv

LEMMA RunTaskStep == ASSUME Counting, Inv, NEW t \in Thread, RunTask(t)  PROVE Inv'
  <1> SUFFICES ASSUME ProcessInv  PROVE  ProcessInv'
    BY Zenon DEF Inv
  <1> USE DEF RunTask, At
  <1>1. free_pages \in Nat /\ next_tid \in Nat \ {0} /\ (free_pages > 2 => next_tid <= MaxTid)
    BY Runs, ProcessAssumption DEF process_execute, ProcessInv, TypeOK
  <1>2. process_execute_result(free_pages) \in Tid \cup {0, TID_ERROR}
    BY <1>1, ProcessAssumption DEF process_execute_result, Tid
  <1>3. arg' \in [Thread -> Tid \cup {0, TID_ERROR}]
    BY <1>2, Runs, Zenon DEF WaitTypes
  <1> QED  BY <1>1, <1>3, ExecuteStep, SMTT(30) DEF Inv

\* The thread at the end of thread_exit dies, or the kernel panics.
LEMMA DieStep == ASSUME Counting, Inv, Die  PROVE Inv'
  <1> SUFFICES ASSUME ProcessInv  PROVE  ProcessInv'
    BY Zenon DEF Inv
  <1> DEFINE n == waiting_thread[running]
             waiter == IF n = 0 THEN NULL ELSE get_thread(n)
  <1>1. /\ ~panic /\ pc[running] = "die"
        /\ UNCHANGED <<level, pc, tidVars, wait_called, waiting_thread, exit_status, wt, arg, pdVars>>
    BY Zenon DEF Die, At
  <1>2. CASE panic' = TRUE /\ UNCHANGED <<threadVars, child_exit_status, cr3, free_pages, histVars>>
    <2> USE DEF threadVars, tidVars, pdVars, histVars
    <2>1. TypeOK'
      BY <1>1, <1>2, Zenon DEF ProcessInv, TypeOK, ThreadsTypeOK
    <2>2. RunQueueOK' /\ PlacesOK' /\ PagedirsOK' /\ TidsOK'
      BY <1>1, <1>2, Zenon DEF ProcessInv, RunQueueOK, PlacesOK, PagedirsOK, TidsOK, Live
    <2>3. PagesCounted'
      BY <1>1, <1>2, Zenon DEF ProcessInv, PagesCounted, Born, Copies
    <2> QED  BY <1>1, <1>2, <2>1, <2>2, <2>3, Zenon
             DEF ProcessInv, ActivePagedirExists, OwnPagedirActive, WokenWithStatus
  <1>3. CASE ~(n # 0 /\ (waiter = NULL \/ status[waiter] # "BLOCKED"))
    <2>1. /\ thread_exit(waiter) /\ cr3' = pagedir[running'] /\ panic' = panic
          /\ free_pages' = free_pages + 1
          /\ exited' = [exited EXCEPT ![tid[running]] = exit_status[running]]
          /\ waiter = NULL => UNCHANGED <<child_exit_status, woken_by>>
          /\ waiter # NULL =>
               /\ child_exit_status' = [child_exit_status EXCEPT ![waiter] = exit_status[running]]
               /\ woken_by' = [woken_by EXCEPT ![waiter] = tid[running]]
      BY <1>3, Zenon DEF Die, process_activate, tell_status
    <2>2. /\ running \in Thread /\ running \notin {Main, Idle} /\ running \in Live
          /\ status[running] = "RUNNING" /\ pc \in [Thread -> PC] /\ free_pages \in Nat
      BY <1>1, Runs, Zenon DEF ProcessPC, MainPC, PC
    <2>3. waiter \in Thread \cup {NULL}
      BY GetThread, Zenon
    <2>4. waiter # NULL => status[waiter] = "BLOCKED" /\ waiter # Idle /\ waiter \in Thread
      <3>1. n # 2
        BY <2>2, Runs, Zenon
      <3> QED  BY <1>3, <2>3, <3>1, GetThread, Zenon DEF ProcessInv, TidsOK
    <2>5. ThreadsTypeOK /\ RunQueueOK /\ idle_thread = Idle /\ Idle # NULL
      BY ThreadAssumption, Zenon DEF ProcessInv, TypeOK, PlacesOK
    <2> HIDE DEF waiter
    <2>6. ThreadsTypeOK' /\ idle_thread' = idle_thread /\ all_list' = all_list \ {running}
      BY <2>1, <2>3, <2>5, ExitType, Zenon DEF thread_exit, schedule
    <2>7. /\ RunQueueOK' /\ running' # running /\ running' \in Thread
          /\ Keeps(Blocked \ {waiter}, Free \cup ({running} \ {Main}))
      BY <2>1, <2>2, <2>3, <2>4, <2>5, <2>6, ExitQueue, Zenon DEF ThreadsTypeOK
    <2>8. /\ \A t \in Thread : status'[t] = "FREE" <=> status[t] = "FREE" \/ t = running
          /\ \A t \in Thread \ {Idle} : status'[t] = "BLOCKED" <=> status[t] = "BLOCKED" /\ t # waiter
      BY <2>2, <2>5, <2>7, ThreadAssumption, Zenon DEF Keeps, Blocked, Free, ProcessInv, PlacesOK
    <2>9. /\ \A t \in Thread : pagedir[t] \in {NULL, t} /\ (pagedir[t] # NULL => t \in live_pd)
      BY Zenon DEF ProcessInv, PagedirsOK
    <2>10. cr3' \in live_pd' \cup {NULL} /\ OwnPagedirActive'
      BY <1>1, <2>1, <2>7, <2>9, Zenon DEF OwnPagedirActive, pdVars
    <2>11. PlacesOK'
      BY <1>1, <2>2, <2>5, <2>6, <2>8, Zenon DEF ProcessInv, PlacesOK
    <2>12. PagedirsOK'
      BY <1>1, Zenon DEF ProcessInv, PagedirsOK, pdVars
    <2> DEFINE me == tid[running]
    <2>13. /\ me \in Tid /\ me < next_tid /\ exited[me] = Alive
           /\ exited \in [Tid -> ExitStatus \cup {Alive}] /\ exit_status[running] \in ExitStatus
      BY <2>2, Zenon DEF ProcessInv, TidsOK, TypeOK
    <2>14. \A m \in Tid : exited'[m] = IF m = me THEN exit_status[running] ELSE exited[m]
      BY <2>1, <2>13, Zenon
    <2>15. TidsOK'
      <3>1. Live' = Live \ {running}
        BY <2>8, Zenon DEF Live
      <3>2. \A t \in Live \ {running} : tid[t] # me
        BY <2>2, Zenon DEF ProcessInv, TidsOK
      <3>3. \A t \in Live' : tid'[t] \in Tid /\ tid'[t] < next_tid' /\ exited'[tid'[t]] = Alive
        BY <1>1, <2>14, <3>1, <3>2, Zenon DEF ProcessInv, TidsOK, tidVars
      <3>4. \A m \in Tid : m >= next_tid' => exited'[m] = Alive
        <4>1. \A m \in Tid : m >= next_tid => m # me
          BY <2>13, ProcessAssumption DEF Tid, ProcessInv, TypeOK
        <4> QED  BY <1>1, <2>14, <4>1, Zenon DEF ProcessInv, TidsOK, tidVars
      <3> QED  BY <1>1, <3>1, <3>3, <3>4, Zenon DEF ProcessInv, TidsOK, tidVars
    <2>16. PagesCounted' /\ free_pages' \in 0 .. KernelPages
      <3>1. Born' = Born \ {running} /\ running \in Born
        BY <2>2, <2>8, Zenon DEF Born
      <3>2. Copies' = Copies /\ live_pd' = live_pd
        BY <1>1, Zenon DEF Copies, pdVars
      <3>3. live_pd \subseteq Thread
        BY Zenon DEF ProcessInv, TypeOK
      <3>4. Cardinality(Born') = Cardinality(Born) - 1 /\ Cardinality(Born') \in Nat
        <4>1. IsFiniteSet(Born) /\ IsFiniteSet(Born')
          BY <3>1, <3>3, Counts, Zenon DEF Counting, CountSubset
        <4> QED  BY <3>1, <4>1, Zenon DEF Counting, CountRemove, CountNat
      <3>5. free_pages + Cardinality(Born) + Cardinality(Copies) + Cardinality(live_pd) <= KernelPages
        BY Zenon DEF ProcessInv, PagesCounted
      <3> QED  BY <2>1, <2>2, <3>2, <3>3, <3>4, <3>5, Counts, ProcessAssumption DEF PagesCounted
    <2>17. TypeOK'
      <3>1. /\ child_exit_status' \in [Thread -> ExitStatus]
            /\ woken_by' \in [Thread -> 0 .. MaxTid]
        <4>1. /\ child_exit_status \in [Thread -> ExitStatus] /\ exit_status[running] \in ExitStatus
              /\ woken_by \in [Thread -> 0 .. MaxTid] /\ me \in 0 .. MaxTid
          BY <2>2, Zenon DEF ProcessInv, TypeOK
        <4> HIDE DEF me
        <4>2. CASE waiter = NULL
          BY <2>1, <4>1, <4>2, Zenon
        <4>3. CASE waiter # NULL
          BY <2>1, <2>3, <4>1, <4>3, Zenon DEF me
        <4> QED  BY <4>2, <4>3, Zenon
      <3>2. exited' \in [Tid -> ExitStatus \cup {Alive}]
        BY <2>1, <2>13, Zenon
      <3>3. live_pd' \subseteq Thread /\ cr3' \in Thread \cup {NULL}
        BY <1>1, <2>10, Zenon DEF ProcessInv, TypeOK, pdVars
      <3> QED  BY <1>1, <2>1, <2>6, <2>16, <3>1, <3>2, <3>3, Zenon
               DEF ProcessInv, TypeOK, tidVars, pdVars
    <2>18. WokenWithStatus'
      <3> SUFFICES ASSUME NEW t \in all_list', pc'[t] = "waited", status'[t] # "BLOCKED"
                   PROVE  woken_by'[t] # 0 /\ exited'[woken_by'[t]] = child_exit_status'[t]
        BY Zenon DEF WokenWithStatus
      <3>1. t \in Thread /\ t # Idle /\ pc[t] = "waited" /\ t \in all_list
        BY <1>1, <2>6, <2>11, Zenon DEF PlacesOK, IdlePC, ProcessInv, TypeOK, ThreadsTypeOK
      <3>2. /\ woken_by \in [Thread -> 0 .. MaxTid] /\ child_exit_status \in [Thread -> ExitStatus]
        BY Zenon DEF ProcessInv, TypeOK
      <3>3. CASE t = waiter
        <4>1. /\ woken_by'[t] = me /\ child_exit_status'[t] = exit_status[running]
          BY <2>1, <3>1, <3>2, <3>3, ThreadAssumption, Zenon
        <4> QED  BY <2>13, <2>14, <4>1, ProcessAssumption DEF Tid
      <3>4. CASE t # waiter
        <4>1. /\ woken_by'[t] = woken_by[t] /\ child_exit_status'[t] = child_exit_status[t]
          BY <2>1, <2>3, <3>1, <3>2, <3>4, Zenon
        <4>2. woken_by[t] # 0 /\ exited[woken_by[t]] = child_exit_status[t]
          BY <2>8, <3>1, <3>4, Zenon DEF ProcessInv, WokenWithStatus
        <4>3. woken_by[t] \in Tid /\ child_exit_status[t] # Alive
          BY <3>1, <3>2, <4>2, ProcessAssumption DEF Tid, ExitStatus, Alive
        <4> QED  BY <2>13, <2>14, <4>1, <4>2, <4>3, Zenon
      <3> QED  BY <3>3, <3>4, Zenon
    <2> QED  BY <2>7, <2>10, <2>11, <2>12, <2>15, <2>16, <2>17, <2>18, Zenon
             DEF ProcessInv, ActivePagedirExists
  <1> QED  BY <1>2, <1>3, Zenon DEF Die

-----------------------------------------------------------------------------
LEMMA ProcessStep ==
  ASSUME Counting  PROVE ProcessInv /\ [Next]_vars => ProcessInv'
  <1> SUFFICES ASSUME ProcessInv, [Next]_vars  PROVE ProcessInv'
    BY Zenon
  <1>1. ASSUME NEW t \in Thread, Exec(t) \/ RunTask(t)  PROVE ProcessInv'
    BY <1>1, ExecStep, RunTaskStep, Zenon DEF Inv
  <1>2. CASE ExecOpenFails \/ StartProcess \/ LoadPagedir \/ LoadActivate \/ LoadDone
    BY <1>2, OpenFailsStep, StartStep, PagedirStep, ActivateStep, DoneStep, Zenon DEF Inv
  <1>3. ASSUME NEW n \in Tid, Wait(n)  PROVE ProcessInv'
    BY <1>3, WaitCallStep, Zenon DEF Wait, At, Inv
  <1>4. CASE MainWait
    BY <1>4, WaitCallStep, Zenon DEF MainWait, At, Inv
  <1>5. CASE WaitCheck \/ WaitMark \/ WaitSet \/ WaitBlock \/ Waited
    BY <1>5, CheckStep, MarkStep, SetStep, WaitBlockStep, WaitedStep, Zenon DEF Inv
  <1>6. ASSUME NEW code \in ExitCode \cup {-1}, Exit(code)  PROVE ProcessInv'
    BY <1>6, ExitCallStep, Zenon DEF Inv
  <1>7. CASE ProcessExit \/ ExitActivate \/ ExitDestroy \/ Die
    BY <1>7, ForgetStep, LeaveStep, DestroyStep, DieStep, Zenon DEF Inv
  <1>8. CASE IdleBlock \/ TimerInterrupt
    BY <1>8, IdleBlockStep, TimerStep, Zenon DEF Inv
  <1>9. CASE UNCHANGED vars
    <2> USE <1>9 DEF vars, threadVars, tidVars, waitVars, pdVars, histVars, ProcessInv
    <2>1. TypeOK'
      BY Zenon DEF TypeOK, ThreadsTypeOK
    <2>2. RunQueueOK' /\ PlacesOK' /\ PagedirsOK' /\ TidsOK'
      BY Zenon DEF RunQueueOK, PlacesOK, PagedirsOK, TidsOK, Live
    <2>3. PagesCounted'
      BY Zenon DEF PagesCounted, Born, Copies
    <2>4. ActivePagedirExists' /\ OwnPagedirActive' /\ WokenWithStatus'
      BY Zenon DEF ActivePagedirExists, OwnPagedirActive, WokenWithStatus
    <2> QED  BY <2>1, <2>2, <2>3, <2>4, Zenon
  <1> QED  BY <1>1, <1>2, <1>3, <1>4, <1>5, <1>6, <1>7, <1>8, <1>9, Zenon DEF Next

\* The facts on finite sets that the lemmas above assume hold. They are taken
\* from the library only here: in scope earlier they would burden every proof.
INSTANCE FiniteSetTheorems

LEMMA CountingHolds == Counting
  <1>1. CountNat /\ CountEmpty
    BY FS_CardinalityType, FS_EmptySet, Zenon DEF CountNat, CountEmpty
  <1>2. CountAdd /\ CountRemove
    BY FS_AddElement, FS_RemoveElement, Zenon DEF CountAdd, CountRemove
  <1>3. CountSubset
    BY FS_Subset, Zenon DEF CountSubset
  <1> QED  BY <1>1, <1>2, <1>3, Zenon DEF Counting

LEMMA ProcessInvariant == Spec => []ProcessInv
  <1>1. Init => ProcessInv
    BY InitProcess, CountingHolds, Zenon
  <1>2. ProcessInv /\ [Next]_vars => ProcessInv'
    BY ProcessStep, CountingHolds, Zenon
  <1> QED  BY <1>1, <1>2, PTL DEF Spec

\* Every field of every struct thread keeps its type, and the number of free
\* pages its range, whatever processes do (process.c, thread.c, palloc.c).
THEOREM ProcessTypes == Spec => []TypeOK
  BY ProcessInvariant, PTL DEF ProcessInv

\* The CPU never uses a page directory that has been destroyed (process_exit).
THEOREM NoDestroyedPagedir == Spec => []ActivePagedirExists
  BY ProcessInvariant, PTL DEF ProcessInv

\* Whatever switches happen, the CPU uses the directory of the thread that is
\* running, except just before an activation (process_activate).
THEOREM RunningPagedir == Spec => []OwnPagedirActive
  BY ProcessInvariant, PTL DEF ProcessInv

\* A process that process_wait had blocked runs again only with the exit status
\* of a thread that has exited (thread_exit).
THEOREM WaitGivesStatus == Spec => []WokenWithStatus
  BY ProcessInvariant, PTL DEF ProcessInv
=============================================================================
