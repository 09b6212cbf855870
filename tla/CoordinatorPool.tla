-------------------------- MODULE CoordinatorPool --------------------------
(***************************************************************************)
(* The worker pool: no wake-up is lost, and a coordinator that has stopped  *)
(* is quiet.  For every number of threads, slots, restarts and store        *)
(* failures, and whether or not attempts are reaped.                        *)
(***************************************************************************)
EXTENDS CoordinatorProofs, FiniteSetTheorems

USE DEF muVars, fence, cvVars, ledger, bounds

-----------------------------------------------------------------------------
(* No lost wake-up.                                                        *)

\* The workers that `active` counts.
Busy == {w \in Workers : pc[w] \notin {"loop", "exit"}}

\* Who sleeps on cv_work is at one of its two wait loops.
SleepOK ==
    \A t \in cvWork :
        \/ t \in Workers /\ pc[t] = "loop"
        \/ t \in Clients /\ pc[t] = "drain"
\* A caller sleeps in Drain only while there is work.
DrainOK == \A c \in cvWork \cap Clients : queue # <<>> \/ active > 0
ActiveOK == active = Cardinality(Busy)
\* Shutdown empties the queue for good, and workers leave only after it.
QueueOK == runState # "running" => queue = <<>>
ExitOK == \A w \in Workers : pc[w] = "exit" => runState # "running"

WakeInv == SleepOK /\ DrainOK /\ ActiveOK /\ QueueOK /\ ExitOK /\ NoLostWakeup

\* Where a worker is between taking a slot and releasing it.
WorkPoints == {"compute", "commit", "fail"} \cup CommitPoints

\* The commit section of a worker leads to its release of the slot.
LEMMA WorkerCommits ==
    ASSUME IInv, NEW w \in Workers, CommitStep(w)
    PROVE  /\ pc[w] \in WorkPoints \cup {"journal"}
           /\ pc'[w] \in WorkPoints \cup {"finish", "journal"}
           /\ ref'[w] = ref[w]
<1>1. w \in Threads /\ pc \in [Threads -> Point] /\ ref \in [Threads -> Slots \cup {NoSlot}]
  BY DEF IInv, TypeOK, Point, Threads
<1>2. ASSUME NEW point \in WorkPoints \cup {"finish", "journal"}, Goto(w, point)
      PROVE  pc'[w] \in WorkPoints \cup {"finish", "journal"} /\ ref'[w] = ref[w]
  BY <1>1, <1>2 DEF Goto
<1>3. ASSUME NEW point \in WorkPoints, NEW state, Enter(w, point, ref[w], state)
      PROVE  pc'[w] \in WorkPoints \cup {"finish", "journal"} /\ ref'[w] = ref[w]
  BY <1>1, <1>3 DEF Enter
<1>4. {"intent", "record", "journal_commit", "finalize", "fail", "commit"} \subseteq WorkPoints
  BY DEF WorkPoints, CommitPoints
<1>5. pc[w] \in WorkPoints \cup {"journal"}
  BY <1>4 DEF CommitStep, CommitSlot, ReadIntent, CommitRecord, JournalCommit, FinalizeCommit,
     Fail, Journal
<1>6. CASE FinalizeCommit(w) \/ Journal(w) \/ Fail(w)
  BY <1>2, <1>5, <1>6 DEF FinalizeCommit, Journal, Fail, EndAttempt
<1>7. CASE CommitSlot(w) BY <1>2, <1>3, <1>4, <1>5, <1>7 DEF CommitSlot
<1>8. CASE ReadIntent(w) \/ CommitRecord(w) \/ JournalCommit(w)
  BY <1>2, <1>3, <1>4, <1>5, <1>8 DEF ReadIntent, CommitRecord, JournalCommit, StatusReturned
<1> QED BY <1>6, <1>7, <1>8 DEF CommitStep

\* A worker moves by the steps of the pool, in the commit section, or with a restart.
LEMMA WorkerMoved ==
    ASSUME IInv, [Next]_vars, NEW w \in Workers, Moved(w)
    PROVE  WorkerStep(w) \/ CommitStep(w) \/ \E e \in Epochs : Restart(e)
BY ThreadMoved, ThreadAssumption DEF Moves, Threads

\* The counter of active workers and the workers it counts move together.
LEMMA ActiveStep ==
    ASSUME IInv, [Next]_vars
    PROVE  \/ active' = active /\ Busy' = Busy
           \/ active' = active + 1 /\ \E w \in Workers \ Busy : Busy' = Busy \cup {w}
           \/ /\ active' = IF active > 0 THEN active - 1 ELSE 0
              /\ \E w \in Busy : Busy' = Busy \ {w}
           \/ active' = 0 /\ Busy' = {}
<1>1. pc \in [Threads -> Point] /\ Workers \subseteq Threads BY DEF IInv, TypeOK, Point, Threads
<1> DEFINE IsBusy(p) == p \notin {"loop", "exit"}
<1>2. ASSUME \A w \in Workers : IsBusy(pc'[w]) <=> IsBusy(pc[w]) PROVE Busy' = Busy
  BY <1>2 DEF Busy
<1>3. ASSUME NEW t \in Workers, \A w \in Workers \ {t} : pc'[w] = pc[w],
             IsBusy(pc'[t]), ~IsBusy(pc[t])
      PROVE  t \in Workers \ Busy /\ Busy' = Busy \cup {t}
  BY <1>3 DEF Busy
<1>4. ASSUME NEW t \in Workers, \A w \in Workers \ {t} : pc'[w] = pc[w],
             ~IsBusy(pc'[t]), IsBusy(pc[t])
      PROVE  t \in Busy /\ Busy' = Busy \ {t}
  BY <1>4 DEF Busy
<1>5. CASE UNCHANGED <<active, pc>> BY <1>2, <1>5
<1>6. ASSUME NEW c \in Clients, ClientCall(c) \/ ClientStep(c)
      PROVE  active' = active /\ Busy' = Busy
  <2>1. active' = active
    BY <1>6 DEF ClientCall, RegisterAttempt, Commit, Cancel, AwaitCall, AdvanceEpoch, SetAuthority,
     DrainCall, Shutdown, ShutdownSecond, ClientStep, JournalStart, MarkStart, JournalPending,
     Enqueue, PrepareRun, PrepareDecide, Await, Drain, ShutdownWait, ShutdownJournal, ShutdownJoin,
     ShutdownClose
  <2>2. ASSUME NEW w \in Workers PROVE pc'[w] = pc[w]
    <3>1. c # w BY ThreadAssumption
    <3>2. ASSUME NEW point, Goto(c, point) PROVE pc'[w] = pc[w] BY <1>1, <3>1, <3>2 DEF Goto
    <3>3. ASSUME NEW point, NEW s, NEW state, Enter(c, point, s, state) PROVE pc'[w] = pc[w]
      BY <1>1, <3>1, <3>3 DEF Enter
    <3>4. ASSUME Return(c) PROVE pc'[w] = pc[w] BY <3>3, <3>4 DEF Return
    <3>5. CASE ClientCall(c)
      BY <3>2, <3>3, <3>5 DEF ClientCall, RegisterAttempt, Commit, Cancel, AwaitCall, AdvanceEpoch,
         SetAuthority, DrainCall, Shutdown, ShutdownSecond, Stay
    <3>6. CASE ClientStep(c)
      BY <3>2, <3>4, <3>6 DEF ClientStep, JournalStart, MarkStart, JournalPending, Enqueue,
         PrepareRun, PrepareDecide, Await, Drain, ShutdownWait, ShutdownJournal, ShutdownJoin,
         ShutdownClose, Stay
    <3> QED BY <1>6, <3>5, <3>6
  <2> QED BY <1>2, <2>1, <2>2
<1>7. ASSUME NEW t \in Threads, CommitStep(t) PROVE active' = active /\ Busy' = Busy
  <2>1. active' = active
    BY <1>7 DEF CommitStep, CommitSlot, ReadIntent, CommitRecord, JournalCommit, FinalizeCommit,
       Fail, Journal
  <2>2. ASSUME NEW w \in Workers PROVE IsBusy(pc'[w]) <=> IsBusy(pc[w])
    <3>1. CASE t = w
      <4>1. /\ pc[w] \in WorkPoints \cup {"journal"}
            /\ pc'[w] \in WorkPoints \cup {"finish", "journal"}
        BY <1>7, <3>1, WorkerCommits
      <4> QED BY <4>1 DEF WorkPoints, CommitPoints
    <3>2. CASE t # w
      <4>1. ASSUME NEW point, Goto(t, point) PROVE pc'[w] = pc[w] BY <1>1, <3>2, <4>1 DEF Goto
      <4>2. ASSUME NEW point, NEW s, NEW state, Enter(t, point, s, state) PROVE pc'[w] = pc[w]
        BY <1>1, <3>2, <4>2 DEF Enter
      <4>3. pc'[w] = pc[w]
        BY <1>7, <4>1, <4>2 DEF CommitStep, CommitSlot, ReadIntent, CommitRecord, JournalCommit,
           FinalizeCommit, Fail, Journal, StatusReturned, EndAttempt, Return
      <4> QED BY <4>3
    <3> QED BY <3>1, <3>2
  <2> QED BY <1>2, <2>1, <2>2
<1>8. ASSUME NEW t \in Workers, WorkerStep(t)
      PROVE  \/ active' = active /\ Busy' = Busy
             \/ active' = active + 1 /\ \E w \in Workers \ Busy : Busy' = Busy \cup {w}
             \/ /\ active' = IF active > 0 THEN active - 1 ELSE 0
                /\ \E w \in Busy : Busy' = Busy \ {w}
  <2>1. ASSUME NEW point, Goto(t, point)
        PROVE  pc'[t] = point /\ \A w \in Workers \ {t} : pc'[w] = pc[w]
    BY <1>1, <2>1 DEF Goto
  <2>2. ASSUME NEW point, NEW s, NEW state, Enter(t, point, s, state)
        PROVE  pc'[t] = point /\ \A w \in Workers \ {t} : pc'[w] = pc[w]
    BY <1>1, <2>2 DEF Enter
  <2>3. CASE WorkerSleep(t) BY <1>2, <2>3 DEF WorkerSleep, Stay
  <2>4. CASE WorkerExit(t)
    <3>1. pc[t] = "loop" /\ pc'[t] = "exit" /\ active' = active BY <2>1, <2>4 DEF WorkerExit
    <3>2. \A w \in Workers \ {t} : pc'[w] = pc[w] BY <2>1, <2>4 DEF WorkerExit
    <3> QED BY <1>2, <3>1, <3>2
  <2>5. CASE WorkerTake(t)
    <3>1. CASE Stay /\ active' = active BY <1>2, <3>1 DEF Stay
    <3>2. CASE active' = active + 1 /\ \E s : Enter(t, "compute", s, "queued")
      <4>1. pc[t] = "loop" /\ pc'[t] = "compute" /\ \A w \in Workers \ {t} : pc'[w] = pc[w]
        BY <2>2, <2>5, <3>2 DEF WorkerTake
      <4> QED BY <1>3, <3>2, <4>1
    <3> QED BY <2>5, <3>1, <3>2 DEF WorkerTake
  <2>6. CASE WorkerFinish(t)
    <3>1. pc[t] = "finish" /\ pc'[t] = "loop" /\ \A w \in Workers \ {t} : pc'[w] = pc[w]
      BY <2>2, <2>6 DEF WorkerFinish, Return
    <3>2. active' = IF active > 0 THEN active - 1 ELSE 0 BY <2>6 DEF WorkerFinish
    <3> QED BY <1>4, <3>1, <3>2
  <2>7. ASSUME NEW d \in Decisions, WorkerDecide(t, d) PROVE active' = active /\ Busy' = Busy
    <3>1. pc[t] = "compute" /\ active' = active BY <2>7 DEF WorkerDecide
    <3>2. pc'[t] \in {"finish", "commit", "fail"} /\ \A w \in Workers \ {t} : pc'[w] = pc[w]
      BY <2>1, <2>2, <2>7 DEF WorkerDecide
    <3> QED BY <1>2, <3>1, <3>2
  <2> QED BY <1>8, <2>3, <2>4, <2>5, <2>6, <2>7 DEF WorkerStep
<1>9. ASSUME NEW e \in Epochs, Restart(e) PROVE active' = 0 /\ Busy' = {}
  BY <1>9 DEF Restart, FreshThreads, Busy, Threads
<1> QED BY <1>5, <1>6, <1>7, <1>8, <1>9 DEF Next, vars

\* cv_work: who goes to sleep there, and who is woken.
LEMMA SleepStep ==
    ASSUME IInv, [Next]_vars
    PROVE  \/ cvWork' = cvWork
           \/ cvWork' = {}
           \/ \E w \in Workers : WorkerSleep(w) /\ cvWork' = cvWork \cup {w}
           \/ \E c \in Clients : /\ Drain(c) /\ cvWork' = cvWork \cup {c}
                                 /\ queue # <<>> \/ active # 0
           \/ \E c \in Clients, t \in cvWork : Enqueue(c) /\ cvWork' = cvWork \ {t}
<1>1. ASSUME NEW c \in Clients, ClientCall(c) PROVE cvWork' = cvWork \/ cvWork' = {}
  BY <1>1 DEF ClientCall, RegisterAttempt, Commit, Cancel, AwaitCall, AdvanceEpoch, SetAuthority,
     DrainCall, Shutdown, ShutdownSecond, NotifyAll
<1>2. ASSUME NEW c \in Clients, Enqueue(c)
      PROVE  cvWork' = cvWork \/ cvWork' = {} \/ \E t \in cvWork : cvWork' = cvWork \ {t}
  BY <1>2 DEF Enqueue, FinalizeLocked, NotifyAll, NotifyOneWork
<1>3. ASSUME NEW c \in Clients, Drain(c)
      PROVE  cvWork' = cvWork \/ (cvWork' = cvWork \cup {c} /\ (queue # <<>> \/ active # 0))
  BY <1>3 DEF Drain
<1>4. ASSUME NEW c \in Clients, ClientStep(c), ~Enqueue(c), ~Drain(c)
      PROVE  cvWork' = cvWork \/ cvWork' = {}
  BY <1>4 DEF ClientStep, JournalStart, MarkStart, JournalPending, PrepareRun, PrepareDecide,
     Await, ShutdownWait, ShutdownJournal, ShutdownJoin, ShutdownClose, FinalizeLocked, NotifyAll
<1>5. ASSUME NEW w \in Workers, WorkerStep(w)
      PROVE  cvWork' = cvWork \/ cvWork' = {} \/ (WorkerSleep(w) /\ cvWork' = cvWork \cup {w})
  BY <1>5 DEF WorkerStep, WorkerSleep, WorkerExit, WorkerTake, WorkerFinish, WorkerDecide, NotifyAll
<1>6. ASSUME NEW t \in Threads, CommitStep(t) PROVE cvWork' = cvWork \/ cvWork' = {}
  BY <1>6 DEF CommitStep, CommitSlot, ReadIntent, CommitRecord, JournalCommit, FinalizeCommit,
     Fail, Journal, FinalizeLocked, NotifyAll
<1>7. ASSUME NEW e \in Epochs, Restart(e) PROVE cvWork' = {} BY <1>7 DEF Restart
<1> QED BY <1>1, <1>2, <1>3, <1>4, <1>5, <1>6, <1>7 DEF Next, vars

\* A sleeping thread does not move.
LEMMA SleepersStay ==
    ASSUME IInv, SleepOK, [Next]_vars, NEW t \in cvWork, Moved(t)
    PROVE  cvWork' = {}
<1>1. t \in Threads BY DEF SleepOK, Threads
<1>2. ASSUME NEW e \in Epochs, Restart(e) PROVE cvWork' = {} BY <1>2 DEF Restart
<1>3. pc[t] \in {"loop", "drain"} BY DEF SleepOK
<1>4. ~CommitStep(t)
  BY <1>3 DEF CommitStep, CommitSlot, ReadIntent, CommitRecord, JournalCommit, FinalizeCommit,
     Fail, Journal
<1>5. ~WorkerStep(t)
  BY <1>3 DEF WorkerStep, WorkerSleep, WorkerExit, WorkerTake, WorkerFinish, WorkerDecide
<1>6. ~ClientCall(t)
  BY <1>3 DEF ClientCall, RegisterAttempt, Commit, Cancel, AwaitCall, AdvanceEpoch, SetAuthority,
     DrainCall, Shutdown, ShutdownSecond
<1>7. ~ClientStep(t)
  BY <1>3 DEF ClientStep, JournalStart, MarkStart, JournalPending, Enqueue, PrepareRun,
     PrepareDecide, Await, Drain, ShutdownWait, ShutdownJournal, ShutdownJoin, ShutdownClose,
     StartPoint, MarkPoint, PendingPoint
<1> QED BY <1>1, <1>2, <1>4, <1>5, <1>6, <1>7, ThreadMoved DEF Moves

\* Only Shutdown begins the teardown.
LEMMA ShutdownStarts ==
    ASSUME IInv, [Next]_vars, runState = "running", runState' = "shutting_down"
    PROVE  \E c \in Clients, k \in BOOLEAN : Shutdown(c, k)
<1>1. ASSUME NEW c \in Clients, ClientCall(c) PROVE \E k \in BOOLEAN : Shutdown(c, k)
  BY <1>1 DEF ClientCall, RegisterAttempt, Commit, Cancel, AwaitCall, AdvanceEpoch, SetAuthority,
     DrainCall, ShutdownSecond
<1>2. ASSUME NEW c \in Clients, ClientStep(c) PROVE FALSE
  BY <1>2 DEF ClientStep, JournalStart, MarkStart, JournalPending, Enqueue, PrepareRun,
     PrepareDecide, Await, Drain, ShutdownWait, ShutdownJournal, ShutdownJoin, ShutdownClose
<1>3. ASSUME NEW w \in Workers, WorkerStep(w) PROVE FALSE
  BY <1>3 DEF WorkerStep, WorkerSleep, WorkerExit, WorkerTake, WorkerFinish, WorkerDecide
<1>4. ASSUME NEW t \in Threads, CommitStep(t) PROVE FALSE
  BY <1>4 DEF CommitStep, CommitSlot, ReadIntent, CommitRecord, JournalCommit, FinalizeCommit,
     Fail, Journal
<1>5. ASSUME NEW e \in Epochs, Restart(e) PROVE FALSE BY <1>5 DEF Restart
<1> QED BY <1>1, <1>2, <1>3, <1>4, <1>5 DEF Next, vars

\* The coordinator's state: it runs again only after a restart.
LEMMA RunStep ==
    ASSUME IInv, [Next]_vars
    PROVE  \/ runState' = runState
           \/ runState' = "shutting_down" /\ queue' = <<>>
           \/ /\ runState' = "stopped" /\ queue' = queue
              /\ \E c \in Clients : ShutdownJoin(c)
           \/ \E e \in Epochs : Restart(e)
<1>1. ASSUME NEW c \in Clients, ClientCall(c)
      PROVE  runState' = runState \/ (runState' = "shutting_down" /\ queue' = <<>>)
  BY <1>1 DEF ClientCall, RegisterAttempt, Commit, Cancel, AwaitCall, AdvanceEpoch, SetAuthority,
     DrainCall, Shutdown, ShutdownSecond
<1>2. ASSUME NEW c \in Clients, ClientStep(c)
      PROVE  \/ runState' = runState
             \/ runState' = "stopped" /\ queue' = queue /\ ShutdownJoin(c)
  BY <1>2 DEF ClientStep, JournalStart, MarkStart, JournalPending, Enqueue, PrepareRun,
     PrepareDecide, Await, Drain, ShutdownWait, ShutdownJournal, ShutdownJoin, ShutdownClose
<1>3. ASSUME NEW w \in Workers, WorkerStep(w) PROVE runState' = runState
  BY <1>3 DEF WorkerStep, WorkerSleep, WorkerExit, WorkerTake, WorkerFinish, WorkerDecide
<1>4. ASSUME NEW t \in Threads, CommitStep(t) PROVE runState' = runState
  BY <1>4 DEF CommitStep, CommitSlot, ReadIntent, CommitRecord, JournalCommit, FinalizeCommit,
     Fail, Journal
<1> QED BY <1>1, <1>2, <1>3, <1>4 DEF Next, vars

\* While somebody sleeps on cv_work, work does not run out unnoticed.
LEMMA WorkStays ==
    ASSUME IInv, [Next]_vars, cvWork' # {}, queue # <<>> \/ active > 0
    PROVE  queue' # <<>> \/ active' > 0
<1>1. queue \in Seq(Attempts) /\ active \in Nat BY DEF IInv, TypeOK
<1>2. CASE UNCHANGED <<queue, active>> BY <1>2
<1>3. ASSUME NEW c \in Clients, ClientCall(c) PROVE UNCHANGED <<queue, active>>
  BY <1>3 DEF ClientCall, RegisterAttempt, Commit, Cancel, AwaitCall, AdvanceEpoch, SetAuthority,
     DrainCall, Shutdown, ShutdownSecond, NotifyAll
<1>4. ASSUME NEW c \in Clients, ClientStep(c) PROVE UNCHANGED <<queue, active>> \/ queue' # <<>>
  <2>1. CASE Enqueue(c) BY <1>1, <2>1 DEF Enqueue
  <2> QED
    BY <1>4, <2>1 DEF ClientStep, JournalStart, MarkStart, JournalPending, PrepareRun,
       PrepareDecide, Await, Drain, ShutdownWait, ShutdownJournal, ShutdownJoin, ShutdownClose
<1>5. ASSUME NEW w \in Workers, WorkerStep(w) PROVE UNCHANGED <<queue, active>> \/ active' > 0
  <2>1. CASE WorkerTake(w) BY <1>1, <2>1 DEF WorkerTake, NotifyAll
  <2> QED
    BY <1>5, <2>1 DEF WorkerStep, WorkerSleep, WorkerExit, WorkerFinish, WorkerDecide, NotifyAll
<1>6. ASSUME NEW t \in Threads, CommitStep(t) PROVE UNCHANGED <<queue, active>>
  BY <1>6 DEF CommitStep, CommitSlot, ReadIntent, CommitRecord, JournalCommit, FinalizeCommit,
     Fail, Journal
<1>7. ASSUME NEW e \in Epochs, Restart(e) PROVE FALSE BY <1>7 DEF Restart
<1> QED BY <1>2, <1>3, <1>4, <1>5, <1>6, <1>7 DEF Next, vars

LEMMA BusyFinite == IsFiniteSet(Busy) /\ Cardinality(Busy) \in Nat
BY WorkerAssumption, FS_Subset, FS_CardinalityType DEF Busy

LEMMA WakeNext == ASSUME IInv, WakeInv, [Next]_vars PROVE WakeInv'
<1>1. pc \in [Threads -> Point] /\ queue \in Seq(Attempts) /\ IInv'
  BY NextInv DEF IInv, TypeOK, Point
<1>2. \A t \in cvWork : cvWork' # {} => pc'[t] = pc[t]
  BY SleepersStay DEF WakeInv, Moved
<1>3. SleepOK'
  <2> SUFFICES ASSUME NEW t \in cvWork'
               PROVE  (t \in Workers /\ pc'[t] = "loop") \/ (t \in Clients /\ pc'[t] = "drain")
    BY DEF SleepOK
  <2>1. CASE t \in cvWork BY <1>2, <2>1 DEF WakeInv, SleepOK
  <2>2. CASE t \in Workers /\ WorkerSleep(t) BY <2>2 DEF WorkerSleep, Stay
  <2>3. CASE t \in Clients /\ Drain(t) /\ cvWork' = cvWork \cup {t}
    <3>1. t \notin cvWork /\ pc[t] = "drain" BY <2>3 DEF Drain
    <3>2. Stay BY <2>3, <3>1 DEF Drain
    <3> QED BY <2>3, <3>1, <3>2 DEF Stay
  <2> QED BY <2>1, <2>2, <2>3, SleepStep
<1>4. DrainOK'
  <2> SUFFICES ASSUME NEW c \in cvWork', c \in Clients PROVE queue' # <<>> \/ active' > 0
    BY DEF DrainOK
  <2>1. active \in Nat BY DEF IInv, TypeOK
  <2>2. queue # <<>> \/ active > 0
    <3>1. CASE c \in cvWork BY <3>1 DEF WakeInv, DrainOK
    <3>2. CASE c \notin cvWork BY <2>1, <3>2, SleepStep, ThreadAssumption
    <3> QED BY <3>1, <3>2
  <2> QED BY <2>2, WorkStays
<1>5. ActiveOK'
  <2>1. active = Cardinality(Busy) /\ IsFiniteSet(Busy) /\ Cardinality(Busy) \in Nat
    BY BusyFinite DEF WakeInv, ActiveOK
  <2>2. CASE active' = active /\ Busy' = Busy BY <2>1, <2>2 DEF ActiveOK
  <2>3. ASSUME active' = active + 1, NEW w \in Workers \ Busy, Busy' = Busy \cup {w}
        PROVE  ActiveOK'
    <3>1. w \notin Busy BY <2>3
    <3>2. Cardinality(Busy \cup {w}) = Cardinality(Busy) + 1 BY <2>1, <3>1, FS_AddElement
    <3> QED BY <2>1, <2>3, <3>2 DEF ActiveOK
  <2>4. ASSUME active' = (IF active > 0 THEN active - 1 ELSE 0), NEW w \in Busy, Busy' = Busy \ {w}
        PROVE  ActiveOK'
    <3>1. Cardinality(Busy \ {w}) = Cardinality(Busy) - 1 BY <2>1, FS_RemoveElement
    <3>2. Cardinality(Busy \ {w}) \in Nat
      BY <2>1, FS_RemoveElement, FS_CardinalityType
    <3> QED BY <2>1, <2>4, <3>1, <3>2 DEF ActiveOK
  <2>5. CASE active' = 0 /\ Busy' = {} BY <2>5, FS_EmptySet DEF ActiveOK
  <2> QED BY <2>2, <2>3, <2>4, <2>5, ActiveStep
<1>6. ASSUME NEW e \in Epochs, Restart(e)
      PROVE  queue' = <<>> /\ \A w \in Workers : pc'[w] # "exit"
  BY <1>6 DEF Restart, FreshThreads, Threads
<1>7. QueueOK'
  <2> SUFFICES ASSUME runState' # "running" PROVE queue' = <<>> BY DEF QueueOK
  <2>1. ASSUME runState # "running", ~\E e \in Epochs : Restart(e) PROVE queue' = <<>>
    BY <2>1, QueueStep DEF WakeInv, QueueOK
  <2>2. ASSUME NEW c \in Clients, ShutdownJoin(c), queue' = queue, runState = "running" PROVE FALSE
    <3>1. PICK w \in Workers : pc[w] = "exit" BY <2>2, WorkerAssumption DEF ShutdownJoin
    <3> QED BY <2>2, <3>1 DEF WakeInv, ExitOK
  <2> QED BY <1>6, <2>1, <2>2, RunStep
<1>8. ExitOK'
  <2> SUFFICES ASSUME NEW w \in Workers, pc'[w] = "exit" PROVE runState' # "running"
    BY DEF ExitOK
  <2>1. ~\E e \in Epochs : Restart(e) BY <1>6
  <2>2. runState # "running"
    <3>1. CASE ~Moved(w) BY <3>1 DEF Moved, WakeInv, ExitOK
    <3>2. CASE Moved(w)
      <4>1. w \in Threads BY DEF Threads
      <4>2. ~CommitStep(w)
        <5> SUFFICES ASSUME CommitStep(w) PROVE FALSE OBVIOUS
        <5>1. pc'[w] \in WorkPoints \cup {"finish", "journal"} BY WorkerCommits
        <5> QED BY <5>1 DEF WorkPoints, CommitPoints
      <4>3. WorkerStep(w) BY <2>1, <3>2, <4>2, WorkerMoved
      <4>4. ASSUME NEW d \in Decisions, WorkerDecide(w, d) PROVE FALSE
        BY <1>1, <4>1, <4>4 DEF WorkerDecide, Goto, Enter
      <4>5. ASSUME WorkerTake(w) \/ WorkerFinish(w) PROVE FALSE
        BY <1>1, <3>2, <4>1, <4>5 DEF WorkerTake, WorkerFinish, Return, Enter, Stay, Moved
      <4>6. ASSUME WorkerSleep(w) PROVE FALSE BY <3>2, <4>6 DEF WorkerSleep, Stay, Moved
      <4> QED BY <4>3, <4>4, <4>5, <4>6 DEF WorkerStep, WorkerExit
    <3> QED BY <3>1, <3>2
  <2> QED BY <2>1, <2>2, RunStep
<1>9. NoLostWakeup'
  <2> SUFFICES ASSUME queue' # <<>> PROVE \E w \in Workers : w \notin cvWork'
    BY <1>7, <1>8 DEF NoLostWakeup, QueueOK, ExitOK
  <2>1. CASE cvWork' = {} BY <2>1, WorkerAssumption
  <2>2. CASE queue # <<>> /\ cvWork' \subseteq cvWork \cup Clients
    <3>1. PICK w \in Workers : w \notin cvWork BY <2>2 DEF WakeInv, NoLostWakeup
    <3> QED BY <2>2, <3>1, ThreadAssumption
  <2>3. CASE queue = <<>>
    <3>1. queue' # queue /\ ~\E w \in Workers : WorkerTake(w) BY <2>3 DEF WorkerTake
    <3>2. PICK c \in Clients : Enqueue(c) /\ queue' # queue BY <3>1, QueueStep
    <3>3. NotifyOneWork BY <3>2 DEF Enqueue
    <3>4. CASE cvWork = {} BY <2>1, <3>3, <3>4 DEF NotifyOneWork
    <3>5. ASSUME NEW t \in cvWork, cvWork' = cvWork \ {t} PROVE \E w \in Workers : w \notin cvWork'
      <4>1. CASE t \in Workers BY <3>5, <4>1
      <4>2. CASE t \in Clients
        <5>1. active > 0 BY <2>3, <4>2 DEF WakeInv, DrainOK
        <5>2. Busy # {}
          <6>1. Busy = {} => active = 0 BY FS_EmptySet DEF WakeInv, ActiveOK
          <6> QED BY <5>1, <6>1
        <5>3. PICK w \in Busy : TRUE BY <5>2
        <5>4. w \notin cvWork BY ThreadAssumption DEF Busy, WakeInv, SleepOK
        <5> QED BY <3>5, <5>4 DEF Busy
      <4> QED BY <4>1, <4>2 DEF WakeInv, SleepOK
    <3> QED BY <3>3, <3>4, <3>5 DEF NotifyOneWork
  <2>4. ASSUME NEW w \in Workers, WorkerSleep(w) PROVE queue = <<>> BY <2>4 DEF WorkerSleep
  <2> QED BY <2>1, <2>2, <2>3, <2>4, SleepStep
<1> QED BY <1>3, <1>4, <1>5, <1>7, <1>8, <1>9 DEF WakeInv

LEMMA WakeInit == Init => WakeInv
<1> SUFFICES ASSUME Init PROVE WakeInv OBVIOUS
<1>1. Busy = {} BY DEF Init, FreshThreads, Busy, Threads
<1>2. ActiveOK BY <1>1, FS_EmptySet DEF Init, ActiveOK
<1>3. ExitOK BY DEF Init, FreshThreads, ExitOK, Threads
<1> QED BY <1>2, <1>3 DEF Init, WakeInv, SleepOK, DrainOK, QueueOK, NoLostWakeup

\* There is never queued work with every worker asleep or gone, however many
\* workers and draining callers share cv_work.
THEOREM NoWakeupIsLost == Spec => []NoLostWakeup
<1>1. Init => IInv /\ WakeInv BY InitInv, WakeInit
<1>2. IInv /\ WakeInv /\ [Next]_vars => IInv' /\ WakeInv' BY NextInv, WakeNext
<1>3. WakeInv => NoLostWakeup BY DEF WakeInv
<1> QED BY <1>1, <1>2, <1>3, PTL DEF Spec

-----------------------------------------------------------------------------
(* A coordinator that has stopped is quiet.                                 *)

\* A worker owns its slot until the slot has its outcome.
WorkerOwns ==
    \A w \in Workers :
        /\ pc[w] \in WorkPoints => heap[ref[w]].in_worker \/ heap[ref[w]].terminal
        /\ pc[w] \in {"finish", "journal"} => heap[ref[w]].terminal
\* Prepare marks its slot before it computes.
CallerOwns == \A c \in Clients : pc[c] = "compute" => heap[ref[c]].running
\* A decision has an owner, and only a decision reaches the commit boundary.
DecisionOwned ==
    \A s \in Allocated :
        /\ heap[s].decision # "none" => heap[s].running \/ heap[s].in_worker \/ heap[s].terminal
        /\ heap[s].commit_boundary_crossed => heap[s].decision # "none"
CommitDecided == \A t \in Threads : pc[t] = "commit" => heap[ref[t]].decision # "none"

Open(a) == table[a] # NoSlot /\ ~heap[table[a]].terminal

\* A known attempt that is marked as taken by a worker is held by one.
TakenIsHeld ==
    \A a \in Attempts :
        Open(a) /\ heap[table[a]].in_worker =>
            \E w \in Workers : pc[w] \in WorkPoints /\ ref[w] = table[a]
\* The sweep of Shutdown leaves only attempts that somebody owns.
Swept ==
    runState # "running" =>
        \A a \in Attempts : Open(a) => heap[table[a]].in_worker \/ heap[table[a]].running
AllGone == runState = "stopped" => \A w \in Workers : pc[w] = "exit"

QuietInv ==
    /\ WorkerOwns /\ CallerOwns /\ DecisionOwned /\ CommitDecided
    /\ TakenIsHeld /\ Swept /\ AllGone

\* Who changes the marks of ownership, the decision and the boundary of a slot.
LEMMA OwnerStep ==
    ASSUME IInv, [Next]_vars, NEW s \in Allocated
    PROVE  /\ heap[s].running => heap'[s].running
           /\ heap[s].terminal => heap'[s].terminal
           /\ heap[s].in_worker /\ ~heap'[s].in_worker =>
                 \E w \in Workers : pc[w] = "finish" /\ ref[w] = s
           /\ ~heap[s].in_worker /\ heap'[s].in_worker =>
                 \E w \in Workers : WorkerTake(w) /\ s = table[Head(queue)] /\ ~heap[s].terminal
           /\ heap[s].decision # "none" => heap'[s].decision # "none"
           /\ heap[s].decision = "none" /\ heap'[s].decision # "none" =>
                 \/ heap'[s].terminal
                 \/ \E t \in Threads : pc[t] = "compute" /\ ref[t] = s
           /\ ~heap[s].commit_boundary_crossed /\ heap'[s].commit_boundary_crossed =>
                 \E t \in Threads : pc[t] = "commit" /\ ref[t] = s
<1>1. heap[s] \in Slot BY DEF IInv, TypeOK
<1>2. HeapStep BY NextInv
<1>3. heap[s].terminal => heap'[s].terminal BY <1>2 DEF HeapStep, SlotStep
<1>4. CASE heap'[s] = heap[s] BY <1>4
<1>5. ASSUME NEW c \in Clients, ClientTouches(s, c)
      PROVE  /\ heap[s].running => heap'[s].running
             /\ heap'[s].in_worker = heap[s].in_worker
             /\ heap[s].decision # "none" => heap'[s].decision # "none"
             /\ \/ heap'[s].decision = heap[s].decision
                \/ heap'[s].terminal
                \/ s = ref[c] /\ \E d \in Decisions : PrepareDecide(c, d)
             /\ heap'[s].commit_boundary_crossed = heap[s].commit_boundary_crossed
  BY <1>1, <1>5 DEF ClientTouches, Ended, CancelledSlot, Slot, Decisions
<1>6. ASSUME NEW w \in Workers, WorkerTouches(s, w)
      PROVE  /\ heap[s].running => heap'[s].running
             /\ heap[s].in_worker /\ ~heap'[s].in_worker => s = ref[w] /\ WorkerFinish(w)
             /\ ~heap[s].in_worker /\ heap'[s].in_worker =>
                   WorkerTake(w) /\ s = table[Head(queue)] /\ ~heap[s].terminal
             /\ heap[s].decision # "none" => heap'[s].decision # "none"
             /\ \/ heap'[s].decision = heap[s].decision
                \/ s = ref[w] /\ \E d \in Decisions : WorkerDecide(w, d)
             /\ heap'[s].commit_boundary_crossed = heap[s].commit_boundary_crossed
  BY <1>1, <1>6 DEF WorkerTouches, Slot, Decisions
<1>7. ASSUME NEW t \in Threads, CommitTouches(s, t)
      PROVE  /\ heap[s].running => heap'[s].running
             /\ heap'[s].in_worker = heap[s].in_worker
             /\ heap'[s].decision = heap[s].decision
             /\ \/ heap'[s].commit_boundary_crossed = heap[s].commit_boundary_crossed
                \/ s = ref[t] /\ CommitSlot(t)
  BY <1>1, <1>7 DEF CommitTouches, Ended, Slot
<1>8. CASE \E c \in Clients : ClientTouches(s, c)
  BY <1>3, <1>5, <1>8 DEF PrepareDecide, Threads
<1>9. CASE \E w \in Workers : WorkerTouches(s, w)
  BY <1>3, <1>6, <1>9 DEF WorkerDecide, WorkerFinish, Threads
<1>10. CASE \E t \in Threads : CommitTouches(s, t)
  BY <1>3, <1>7, <1>10 DEF CommitSlot
<1> QED BY <1>4, <1>8, <1>9, <1>10, SlotTouched

\* A slot that FinalizeLocked has seen has its outcome.
LEMMA FinalizeEnds ==
    ASSUME IInv, NEW s \in Allocated, NEW state, FinalizeLocked(s, state)
    PROVE  heap'[s].terminal
BY DEF FinalizeLocked, Finalized, IInv, TypeOK, Slot

\* How a worker comes to its work and to its end.
LEMMA WorkerArrival ==
    ASSUME IInv, WorkerOwns, [Next]_vars, NEW w \in Workers, Moved(w)
    PROVE  /\ pc'[w] \in WorkPoints =>
                 \/ pc[w] \in WorkPoints /\ ref'[w] = ref[w]
                 \/ ref'[w] \in Allocated /\ heap'[ref'[w]].in_worker
           /\ pc'[w] \in {"finish", "journal"} => ref'[w] \in Allocated /\ heap'[ref'[w]].terminal
           /\ pc[w] \in WorkPoints =>
                 \/ pc'[w] \in WorkPoints /\ ref'[w] = ref[w]
                 \/ heap'[ref[w]].terminal
                 \/ \E e \in Epochs : Restart(e)
<1> DEFINE Goal ==
             /\ pc'[w] \in WorkPoints =>
                   \/ pc[w] \in WorkPoints /\ ref'[w] = ref[w]
                   \/ ref'[w] \in Allocated /\ heap'[ref'[w]].in_worker
             /\ pc'[w] \in {"finish", "journal"} =>
                   ref'[w] \in Allocated /\ heap'[ref'[w]].terminal
             /\ pc[w] \in WorkPoints =>
                   \/ pc'[w] \in WorkPoints /\ ref'[w] = ref[w]
                   \/ heap'[ref[w]].terminal
                   \/ \E e \in Epochs : Restart(e)
<1>1. w \in Threads /\ pc \in [Threads -> Point] /\ ref \in [Threads -> Slots \cup {NoSlot}]
  BY DEF IInv, TypeOK, Point, Threads
<1>2. HeapStep BY NextInv
<1>3. {"loop", "exit", "finish", "journal"} \cap WorkPoints = {} BY DEF WorkPoints, CommitPoints
<1>4. pc[w] \in WorkPoints \cup {"finish", "journal"} => ref[w] \in Allocated
  BY <1>1 DEF IInv, RefOK, WorkPoints, CommitPoints, Free
<1>5. ASSUME NEW point, Goto(w, point) PROVE pc'[w] = point /\ ref'[w] = ref[w]
  BY <1>1, <1>5 DEF Goto
<1>6. ASSUME NEW point, NEW s, NEW state, Enter(w, point, s, state) PROVE pc'[w] = point
  BY <1>1, <1>6 DEF Enter
<1>7. CASE CommitStep(w)
  <2>1. /\ pc[w] \in WorkPoints \cup {"journal"} /\ ref'[w] = ref[w]
        /\ pc'[w] \in WorkPoints \cup {"finish", "journal"} /\ ref[w] \in Allocated
    BY <1>4, <1>7, WorkerCommits
  <2>2. CASE FinalizeCommit(w) \/ Fail(w)
    <3>1. heap'[ref[w]].terminal BY <2>1, <2>2, FinalizeEnds DEF FinalizeCommit, Fail
    <3>2. pc[w] \in WorkPoints BY <2>2 DEF FinalizeCommit, Fail, WorkPoints, CommitPoints
    <3> QED BY <2>1, <3>1, <3>2
  <2>3. CASE Journal(w)
    <3>1. pc[w] = "journal" /\ heap[ref[w]].terminal BY <2>3 DEF Journal, WorkerOwns
    <3>2. heap'[ref[w]].terminal BY <1>2, <2>1, <3>1 DEF HeapStep, SlotStep
    <3>3. pc'[w] = "finish" BY <1>5, <2>3 DEF Journal, EndAttempt
    <3> QED BY <1>3, <2>1, <3>1, <3>2, <3>3
  <2>4. CASE CommitSlot(w) \/ ReadIntent(w) \/ CommitRecord(w) \/ JournalCommit(w)
    <3>1. pc'[w] \in WorkPoints
      BY <1>5, <1>6, <2>4 DEF CommitSlot, ReadIntent, CommitRecord, JournalCommit, StatusReturned,
         WorkPoints, CommitPoints
    <3>2. pc[w] \in WorkPoints
      BY <2>4 DEF CommitSlot, ReadIntent, CommitRecord, JournalCommit, WorkPoints, CommitPoints
    <3> QED BY <1>3, <2>1, <3>1, <3>2
  <2> QED BY <1>7, <2>2, <2>3, <2>4 DEF CommitStep
<1>8. CASE WorkerStep(w)
  <2>1. ASSUME WorkerSleep(w) PROVE FALSE BY <2>1 DEF WorkerSleep, Stay, Moved
  <2>2. CASE WorkerExit(w) BY <1>3, <1>5, <2>2 DEF WorkerExit
  <2>3. CASE WorkerFinish(w) BY <1>3, <1>6, <2>3 DEF WorkerFinish, Return
  <2>4. CASE WorkerTake(w)
    <3> DEFINE s == table[Head(queue)]
    <3>1. /\ s # NoSlot /\ Enter(w, "compute", s, "queued")
          /\ heap' = [heap EXCEPT ![s].state = "running", ![s].in_worker = TRUE]
      BY <2>4 DEF WorkerTake, Stay, Moved
    <3>2. queue \in Seq(Attempts) /\ queue # <<>> BY <2>4 DEF IInv, TypeOK, WorkerTake
    <3>3. s \in Allocated BY <3>1, <3>2 DEF IInv, TableOK
    <3>4. heap'[s].in_worker BY <3>1, <3>3 DEF IInv, TypeOK, Slot
    <3>5. ref'[w] = s /\ pc'[w] = "compute" /\ pc[w] = "loop"
      BY <1>1, <2>4, <3>1 DEF Enter, WorkerTake
    <3> HIDE DEF s
    <3> QED BY <1>3, <3>3, <3>4, <3>5
  <2>5. ASSUME NEW d \in Decisions, WorkerDecide(w, d) PROVE Goal
    <3>1. pc[w] = "compute" /\ pc[w] \in WorkPoints BY <2>5 DEF WorkerDecide, WorkPoints
    <3>2. CASE heap[ref[w]].terminal /\ Goto(w, "finish")
      <4>1. heap'[ref[w]].terminal BY <1>2, <1>4, <3>1, <3>2 DEF HeapStep, SlotStep
      <4> QED BY <1>3, <1>4, <1>5, <3>1, <3>2, <4>1
    <3>3. CASE Goto(w, "commit") \/ Enter(w, "fail", ref[w], "rejected")
      <4>1. pc'[w] \in {"commit", "fail"} /\ ref'[w] = ref[w] BY <1>1, <3>3 DEF Goto, Enter
      <4>2. {"commit", "fail"} \subseteq WorkPoints BY DEF WorkPoints
      <4> QED BY <1>3, <3>1, <4>1, <4>2
    <3> QED BY <2>5, <3>2, <3>3 DEF WorkerDecide
  <2> QED BY <1>8, <2>1, <2>2, <2>3, <2>4, <2>5 DEF WorkerStep
<1>9. ASSUME NEW e \in Epochs, Restart(e) PROVE Goal
  <2>1. pc'[w] = "loop" BY <1>1, <1>9 DEF Restart, FreshThreads
  <2> QED BY <1>3, <1>9, <2>1
<1> QED BY <1>7, <1>8, <1>9, WorkerMoved

\* How a thread comes to compute synchronously, and to the commit boundary.
LEMMA DecisionArrival ==
    ASSUME IInv, [Next]_vars, NEW t \in Threads, Moved(t)
    PROVE  /\ t \in Clients /\ pc'[t] = "compute" => ref'[t] \in Allocated /\ heap'[ref'[t]].running
           /\ pc'[t] = "commit" => ref'[t] \in Allocated /\ heap'[ref'[t]].decision # "none"
<1> DEFINE Late == {"compute", "commit"}
           Goal ==
             /\ t \in Clients /\ pc'[t] = "compute" => ref'[t] \in Allocated /\ heap'[ref'[t]].running
             /\ pc'[t] = "commit" => ref'[t] \in Allocated /\ heap'[ref'[t]].decision # "none"
<1>1. /\ pc \in [Threads -> Point] /\ ref \in [Threads -> Slots \cup {NoSlot}]
      /\ heap \in [Allocated -> Slot]
  BY DEF IInv, TypeOK, Point
<1>2. ASSUME NEW point, Goto(t, point) PROVE pc'[t] = point /\ ref'[t] = ref[t]
  BY <1>1, <1>2 DEF Goto
<1>3. ASSUME NEW point, NEW s \in Slots \cup {NoSlot}, NEW state, Enter(t, point, s, state)
      PROVE  pc'[t] = point /\ ref'[t] = s
  BY <1>1, <1>3 DEF Enter
<1>4. ASSUME Return(t) PROVE pc'[t] \notin Late BY <1>3, <1>4 DEF Return
<1>5. ASSUME Stay PROVE FALSE BY <1>5 DEF Stay, Moved
<1>6. ASSUME NEW point, NEW s, NEW state, Enter(t, point, s, state) PROVE pc'[t] = point
  BY <1>1, <1>6 DEF Enter
<1>7. ASSUME t \in Clients, ClientCall(t) PROVE Goal
  <2>1. ASSUME NEW k \in Kinds, NEW a, NEW g, RegisterAttempt(t, k, a, g) PROVE Goal
    BY <1>6, <2>1 DEF RegisterAttempt, StartPoint, AfterStart
  <2>2. ASSUME NEW p \in prepared, Commit(t, p) PROVE Goal
    <3>1. p.attempt \in Attempts BY DEF IInv, TypeOK, PreparedAttempt
    <3>2. table[p.attempt] \in Allocated /\ table[p.attempt] \in Slots \cup {NoSlot}
      BY <2>2, <3>1 DEF Commit, IInv, TableOK, TypeOK
    <3>3. CASE Enter(t, "journal", table[p.attempt], "rejected") BY <1>6, <3>3
    <3>4. CASE /\ Enter(t, "commit", table[p.attempt], "queued")
               /\ heap[table[p.attempt]].decision = "placed" /\ heap' = heap
      BY <1>3, <3>2, <3>4
    <3> QED BY <2>2, <3>3, <3>4 DEF Commit
  <2>3. ASSUME NEW a, Cancel(t, a) \/ AwaitCall(t, a) PROVE Goal
    BY <1>6, <1>5, <2>3 DEF Cancel, AwaitCall
  <2>4. ASSUME Goto(t, "drain") \/ Goto(t, "sd_journal") \/ Goto(t, "sd_wait") PROVE Goal
    BY <1>2, <2>4
  <2> HIDE DEF Goal
  <2> QED
    BY <1>5, <1>7, <2>1, <2>2, <2>3, <2>4 DEF ClientCall, AdvanceEpoch, SetAuthority, DrainCall,
       Shutdown, ShutdownSecond
<1>8. ASSUME t \in Clients, ClientStep(t) PROVE Goal
  <2>1. CASE PrepareRun(t) /\ Goto(t, "compute")
    <3>1. ref[t] \in Allocated BY <2>1 DEF PrepareRun, IInv, RefOK, Free
    <3>2. ~Return(t) BY <1>2, <1>4, <2>1
    <3>3. heap'[ref[t]].running BY <1>1, <2>1, <3>1, <3>2 DEF PrepareRun, Slot
    <3> QED BY <1>2, <2>1, <3>1, <3>3
  <2>2. CASE PrepareRun(t) /\ Return(t) BY <1>4, <2>2
  <2>3. CASE ~PrepareRun(t)
    <3>1. ASSUME NEW k \in Kinds, JournalStart(t, k) \/ MarkStart(t, k) \/ JournalPending(t, k)
          PROVE  pc'[t] \notin Late
      BY <1>2, <1>4, <3>1 DEF JournalStart, MarkStart, JournalPending, MarkPoint, PendingPoint,
         AfterStart
    <3>2. CASE Enqueue(t) \/ \E d \in Decisions : PrepareDecide(t, d)
      BY <1>4, <3>2 DEF Enqueue, PrepareDecide
    <3>3. CASE Await(t) \/ Drain(t) \/ ShutdownWait(t) \/ ShutdownClose(t)
      BY <1>4, <1>5, <3>3 DEF Await, Drain, ShutdownWait, ShutdownClose
    <3>4. CASE ShutdownJournal(t) \/ ShutdownJoin(t)
      BY <1>2, <1>5, <3>4 DEF ShutdownJournal, ShutdownJoin
    <3> QED BY <1>8, <2>3, <3>1, <3>2, <3>3, <3>4 DEF ClientStep
  <2> HIDE DEF Goal
  <2> QED BY <2>1, <2>2, <2>3 DEF PrepareRun
<1>9. ASSUME t \in Workers, WorkerStep(t) PROVE Goal
  <2>0. t \notin Clients BY <1>9, ThreadAssumption
  <2>1. CASE WorkerTake(t) BY <1>5, <1>6, <2>0, <2>1 DEF WorkerTake
  <2>2. ASSUME NEW d \in Decisions, WorkerDecide(t, d) PROVE Goal
    <3>1. ref[t] \in Allocated BY <2>2 DEF WorkerDecide, IInv, RefOK, Free
    <3>2. CASE Goto(t, "commit")
      <4>1. heap'[ref[t]].decision # "none"
        BY <1>1, <1>2, <1>6, <2>2, <3>1, <3>2 DEF WorkerDecide, Slot, Decisions
      <4> QED BY <1>2, <2>0, <3>1, <3>2, <4>1
    <3>3. CASE Goto(t, "finish") BY <1>2, <3>3
    <3>4. CASE Enter(t, "fail", ref[t], "rejected") BY <1>6, <3>4
    <3> QED BY <2>2, <3>2, <3>3, <3>4 DEF WorkerDecide
  <2> QED
    BY <1>2, <1>4, <1>5, <1>9, <2>1, <2>2 DEF WorkerStep, WorkerSleep, WorkerExit, WorkerFinish
<1>10. ASSUME CommitStep(t) PROVE pc'[t] \notin Late
  <2>1. ASSUME EndAttempt(t) PROVE pc'[t] \notin Late BY <1>2, <1>4, <2>1 DEF EndAttempt
  <2>2. ASSUME StatusReturned(t) PROVE pc'[t] \notin Late BY <1>6, <2>2 DEF StatusReturned
  <2>3. CASE CommitSlot(t) BY <1>2, <1>6, <2>3 DEF CommitSlot
  <2>4. CASE ReadIntent(t) \/ CommitRecord(t) \/ JournalCommit(t)
    BY <1>2, <2>2, <2>4 DEF ReadIntent, CommitRecord, JournalCommit
  <2>5. CASE FinalizeCommit(t) \/ Journal(t) BY <2>1, <2>5 DEF FinalizeCommit, Journal
  <2>6. CASE Fail(t) BY <1>2, <1>4, <2>6 DEF Fail
  <2> QED BY <1>10, <2>3, <2>4, <2>5, <2>6 DEF CommitStep
<1>11. ASSUME NEW e \in Epochs, Restart(e) PROVE pc'[t] \notin Late
  BY <1>11 DEF Restart, FreshThreads
<1> QED BY <1>7, <1>8, <1>9, <1>10, <1>11, ThreadMoved DEF Moves

LEMMA QuietNext == ASSUME IInv, WakeInv, QuietInv, [Next]_vars PROVE QuietInv'
<1>1. HeapStep /\ IInv' /\ WakeInv' /\ Allocated \subseteq Allocated'
  BY NextInv, WakeNext, AllocatedGrows DEF IInv
<1>2. WorkerOwns /\ CallerOwns /\ DecisionOwned /\ CommitDecided /\ TakenIsHeld /\ Swept /\ AllGone
  BY DEF QuietInv
<1>3. /\ \A t \in Threads : pc[t] \in WorkPoints \cup {"finish", "journal"} => ref[t] \in Allocated
      /\ Workers \subseteq Threads /\ Clients \subseteq Threads
  <2>1. (WorkPoints \cup {"finish", "journal"}) \cap Free = {} BY DEF WorkPoints, CommitPoints, Free
  <2> QED BY <2>1 DEF IInv, RefOK, Threads
<1>4. ASSUME NEW s \in Allocated, heap[s].in_worker \/ heap[s].terminal
      PROVE  heap'[s].in_worker \/ heap'[s].terminal
  BY <1>2, <1>4, OwnerStep DEF WorkerOwns
<1>5. ASSUME NEW t \in Threads, ~Moved(t) PROVE pc'[t] = pc[t] /\ ref'[t] = ref[t]
  BY <1>5 DEF Moved
<1>6. WorkerOwns'
  <2> SUFFICES ASSUME NEW w \in Workers
               PROVE  /\ pc'[w] \in WorkPoints =>
                            heap'[ref'[w]].in_worker \/ heap'[ref'[w]].terminal
                      /\ pc'[w] \in {"finish", "journal"} => heap'[ref'[w]].terminal
    BY DEF WorkerOwns
  <2>1. pc[w] \in WorkPoints =>
            ref[w] \in Allocated /\ (heap'[ref[w]].in_worker \/ heap'[ref[w]].terminal)
    BY <1>2, <1>3, <1>4 DEF WorkerOwns
  <2>2. CASE ~Moved(w)
    <3>1. pc'[w] = pc[w] /\ ref'[w] = ref[w] BY <1>3, <1>5, <2>2
    <3>2. pc[w] \in {"finish", "journal"} => heap'[ref[w]].terminal
      BY <1>2, <1>3, OwnerStep DEF WorkerOwns
    <3> QED BY <2>1, <3>1, <3>2
  <2>3. CASE Moved(w) BY <1>2, <2>1, <2>3, WorkerArrival
  <2> QED BY <2>2, <2>3
<1>7. CallerOwns'
  <2> SUFFICES ASSUME NEW c \in Clients, pc'[c] = "compute" PROVE heap'[ref'[c]].running
    BY DEF CallerOwns
  <2>1. CASE ~Moved(c)
    <3>1. pc[c] = "compute" /\ ref'[c] = ref[c] /\ ref[c] \in Allocated
      BY <1>3, <1>5, <2>1 DEF WorkPoints
    <3> QED BY <1>2, <3>1, OwnerStep DEF CallerOwns
  <2>2. CASE Moved(c) BY <1>3, <2>2, DecisionArrival
  <2> QED BY <2>1, <2>2
<1>8. ASSUME NEW s \in Allocated' \ Allocated
      PROVE  /\ heap'[s].decision = "none" /\ ~heap'[s].commit_boundary_crossed
             /\ ~heap'[s].in_worker
  <2>1. ASSUME NEW a, NEW g, heap'[s] = NewSlot(a, epoch, g)
        PROVE  /\ heap'[s].decision = "none" /\ ~heap'[s].commit_boundary_crossed
               /\ ~heap'[s].in_worker
    BY <2>1 DEF NewSlot
  <2> QED BY <2>1, SlotCreated
<1>9. DecisionOwned'
  <2> SUFFICES ASSUME NEW s \in Allocated
               PROVE  /\ heap'[s].decision # "none" =>
                            heap'[s].running \/ heap'[s].in_worker \/ heap'[s].terminal
                      /\ heap'[s].commit_boundary_crossed => heap'[s].decision # "none"
    BY <1>8 DEF DecisionOwned
  <2>1. ASSUME NEW t \in Threads, pc[t] = "compute", ref[t] = s
        PROVE  heap[s].running \/ heap[s].in_worker \/ heap[s].terminal
    BY <1>2, <2>1 DEF WorkerOwns, CallerOwns, WorkPoints, Threads
  <2>2. heap'[s].decision # "none" =>
            heap'[s].running \/ heap'[s].in_worker \/ heap'[s].terminal
    BY <1>2, <1>4, <2>1, OwnerStep DEF DecisionOwned
  <2>3. heap'[s].commit_boundary_crossed => heap'[s].decision # "none"
    BY <1>2, OwnerStep DEF DecisionOwned, CommitDecided
  <2> QED BY <2>2, <2>3
<1>10. CommitDecided'
  <2> SUFFICES ASSUME NEW t \in Threads, pc'[t] = "commit" PROVE heap'[ref'[t]].decision # "none"
    BY DEF CommitDecided
  <2>1. CASE ~Moved(t)
    <3>1. pc[t] = "commit" /\ ref'[t] = ref[t] /\ ref[t] \in Allocated
      BY <1>3, <1>5, <2>1 DEF WorkPoints
    <3> QED BY <1>2, <3>1, OwnerStep DEF CommitDecided
  <2>2. CASE Moved(t) BY <2>2, DecisionArrival
  <2> QED BY <2>1, <2>2
<1>11. ASSUME NEW a \in Attempts, table'[a] # NoSlot,
              heap'[table'[a]].in_worker \/ ~\E c \in Clients, k \in Kinds, b \in Attempts, g \in Auths :
                                                 RegisterAttempt(c, k, b, g)
       PROVE  table'[a] = table[a] /\ table[a] \in Allocated
  <2>1. CASE table'[a] = table[a] BY <1>11, <2>1 DEF IInv, TableOK
  <2>2. CASE table'[a] # table[a]
    <3>1. nextSlot \in Allocated' \ Allocated /\ table'[a] = nextSlot
      <4>1. table'[a] = nextSlot /\ nextSlot \in Allocated' BY <1>11, <2>2, TableStep
      <4>2. nextSlot \in Nat BY DEF IInv, TypeOK
      <4>3. nextSlot \notin Allocated BY <4>2 DEF Allocated
      <4> QED BY <4>1, <4>3
    <3> QED BY <1>8, <1>11, <3>1, SlotCreated
  <2> QED BY <2>1, <2>2
<1>12. TakenIsHeld'
  <2> SUFFICES ASSUME NEW a \in Attempts, table'[a] # NoSlot, ~heap'[table'[a]].terminal,
                      heap'[table'[a]].in_worker
               PROVE  \E w \in Workers : pc'[w] \in WorkPoints /\ ref'[w] = table'[a]
    BY DEF TakenIsHeld, Open
  <2> DEFINE s == table[a]
  <2>1. table'[a] = s /\ s \in Allocated BY <1>11
  <2>2. ~heap[s].terminal BY <2>1, OwnerStep
  <2>3. CASE heap[s].in_worker
    <3>1. PICK w \in Workers : pc[w] \in WorkPoints /\ ref[w] = s
      BY <1>2, <2>1, <2>2, <2>3 DEF TakenIsHeld, Open
    <3>2. ~\E e \in Epochs : Restart(e) BY DEF Restart
    <3>3. CASE ~Moved(w) BY <1>3, <1>5, <2>1, <3>1, <3>3
    <3>4. CASE Moved(w) BY <1>2, <2>1, <3>1, <3>2, <3>4, WorkerArrival
    <3> QED BY <3>3, <3>4
  <2>4. CASE ~heap[s].in_worker
    <3>1. PICK w \in Workers : WorkerTake(w) /\ s = table[Head(queue)] /\ ~heap[s].terminal
      BY <2>1, <2>4, OwnerStep
    <3>2. Enter(w, "compute", s, "queued")
      <4>1. s # NoSlot BY <2>1
      <4> QED BY <3>1, <4>1 DEF WorkerTake
    <3>3. pc'[w] = "compute" /\ ref'[w] = s
      BY <1>3, <3>2 DEF Enter, IInv, TypeOK
    <3> QED BY <2>1, <3>3 DEF WorkPoints
  <2> QED BY <2>3, <2>4
<1>13. Swept'
  <2> SUFFICES ASSUME runState' # "running", NEW a \in Attempts, table'[a] # NoSlot,
                      ~heap'[table'[a]].terminal
               PROVE  heap'[table'[a]].in_worker \/ heap'[table'[a]].running
    BY DEF Swept, Open
  <2>1. ~\E c \in Clients, k \in Kinds, b \in Attempts, g \in Auths : RegisterAttempt(c, k, b, g)
    BY DEF RegisterAttempt
  <2>2. table'[a] = table[a] /\ table[a] \in Allocated BY <1>11, <2>1
  <2> DEFINE s == table[a]
  <2>3. ~heap[s].terminal BY <2>2, OwnerStep
  <2>4. ASSUME heap[s].in_worker \/ heap[s].running PROVE heap'[s].in_worker \/ heap'[s].running
    BY <1>4, <2>2, <2>4, OwnerStep
  <2>5. CASE runState # "running" BY <1>2, <2>2, <2>3, <2>4, <2>5 DEF Swept, Open
  <2>6. CASE runState = "running"
    <3>1. ~\E e \in Epochs : Restart(e) BY DEF Restart
    <3>2. ASSUME NEW c \in Clients, ShutdownJoin(c) PROVE FALSE
      <4>1. PICK w \in Workers : pc[w] = "exit" BY <3>2, WorkerAssumption DEF ShutdownJoin
      <4> QED BY <2>6, <4>1 DEF WakeInv, ExitOK
    <3>3. runState' = "shutting_down" BY <2>6, <3>1, <3>2, RunStep
    <3>4. PICK c \in Clients, k \in BOOLEAN : Shutdown(c, k) BY <2>6, <3>3, ShutdownStarts
    <3>5. s \notin ShutdownSweep(k)
      <4> SUFFICES ASSUME s \in ShutdownSweep(k) PROVE FALSE OBVIOUS
      <4>1. heap'[s] = [Finalized(heap[s], "cancelled") EXCEPT
                          !.cancel_requested = TRUE, !.pending_terminal = ~StartIsDurable(s)]
        BY <2>2, <3>4 DEF Shutdown, IInv, TypeOK
      <4>2. heap'[s].terminal BY <2>2, <4>1 DEF Finalized, IInv, TypeOK, Slot
      <4> QED BY <2>2, <4>2
    <3>6. heap[s].in_worker \/ heap[s].commit_boundary_crossed \/ heap[s].running
      BY <2>2, <2>3, <3>5, AllocatedSlots DEF ShutdownSweep, BoundaryCrossed, IInv
    <3>7. heap[s].in_worker \/ heap[s].running BY <1>2, <2>2, <2>3, <3>6 DEF DecisionOwned
    <3> QED BY <2>2, <2>4, <3>7
  <2> QED BY <2>5, <2>6
<1>14. AllGone'
  <2> SUFFICES ASSUME runState' = "stopped", NEW w \in Workers PROVE pc'[w] = "exit"
    BY DEF AllGone
  <2>1. pc[w] = "exit"
    <3>1. CASE runState = "stopped" BY <1>2, <3>1 DEF AllGone
    <3>2. CASE runState # "stopped" BY <3>2, RunStep DEF ShutdownJoin, Restart
    <3> QED BY <3>1, <3>2
  <2>2. ~\E e \in Epochs : Restart(e) BY DEF Restart
  <2>3. ~WorkerStep(w)
    BY <2>1 DEF WorkerStep, WorkerSleep, WorkerExit, WorkerTake, WorkerFinish, WorkerDecide
  <2>4. ~CommitStep(w)
    BY <2>1 DEF CommitStep, CommitSlot, ReadIntent, CommitRecord, JournalCommit, FinalizeCommit,
       Fail, Journal
  <2>5. ~Moved(w) BY <2>2, <2>3, <2>4, WorkerMoved
  <2> QED BY <1>3, <1>5, <2>1, <2>5
<1> QED BY <1>6, <1>7, <1>9, <1>10, <1>12, <1>13, <1>14 DEF QuietInv

LEMMA QuietInit == Init => QuietInv
<1> SUFFICES ASSUME Init PROVE QuietInv OBVIOUS
<1>1. \A t \in Threads : pc[t] \in {"loop", "idle"} BY DEF Init, FreshThreads
<1>2. WorkerOwns /\ CallerOwns /\ CommitDecided
  BY <1>1 DEF WorkerOwns, CallerOwns, CommitDecided, WorkPoints, CommitPoints, Threads
<1>3. DecisionOwned BY DEF Init, DecisionOwned, Allocated
<1>4. TakenIsHeld BY DEF Init, TakenIsHeld, Open
<1> QED BY <1>2, <1>3, <1>4 DEF Init, QuietInv, Swept, AllGone

\* A coordinator that has stopped has no worker at work and nothing queued, and
\* every known attempt without an outcome belongs to a synchronous caller, however
\* many threads raced with the shutdown.
THEOREM StoppedCoordinatorIsQuiet == Spec => []StoppedIsQuiet
<1>1. Init => IInv /\ WakeInv /\ QuietInv BY InitInv, WakeInit, QuietInit
<1>2. IInv /\ WakeInv /\ QuietInv /\ [Next]_vars => IInv' /\ WakeInv' /\ QuietInv'
  BY NextInv, WakeNext, QuietNext
<1>3. IInv /\ WakeInv /\ QuietInv => StoppedIsQuiet
  <2> SUFFICES ASSUME IInv, WakeInv, QuietInv, runState = "stopped"
               PROVE  /\ queue = <<>> /\ active = 0
                      /\ \A a \in Attempts :
                            table[a] # NoSlot /\ ~heap[table[a]].terminal => heap[table[a]].running
    BY DEF StoppedIsQuiet
  <2>1. \A w \in Workers : pc[w] = "exit" BY DEF QuietInv, AllGone
  <2>2. queue = <<>> BY DEF WakeInv, QueueOK
  <2>3. Busy = {} BY <2>1 DEF Busy
  <2>4. active = 0 BY <2>3, FS_EmptySet DEF WakeInv, ActiveOK
  <2>5. ASSUME NEW a \in Attempts, table[a] # NoSlot, ~heap[table[a]].terminal
        PROVE  heap[table[a]].running
    <3>1. ~heap[table[a]].in_worker
      <4>1. "exit" \notin WorkPoints BY DEF WorkPoints, CommitPoints
      <4> QED BY <2>1, <2>5, <4>1 DEF QuietInv, TakenIsHeld, Open
    <3> QED BY <2>5, <3>1 DEF QuietInv, Swept, Open
  <2> QED BY <2>2, <2>4, <2>5
<1> QED BY <1>1, <1>2, <1>3, PTL DEF Spec

=============================================================================
