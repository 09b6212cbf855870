------------------------ MODULE CoordinatorOutcome ------------------------
(***************************************************************************)
(* What an outcome says about the durable ledger: an attempt that was       *)
(* cancelled or rejected has left no record, and its journal agrees.  For   *)
(* every number of threads, slots, restarts and store failures, as long as  *)
(* max_retained_attempts is large enough that no attempt is reaped.  It     *)
(* rests on who owns a slot: until it has its decision, a slot belongs to   *)
(* one thread or to the queue, and the decision it gets is the one every    *)
(* later step of its attempt sees.                                          *)
(***************************************************************************)
EXTENDS CoordinatorLedger, FiniteSetTheorems

USE DEF muVars, fence, cvVars, ledger, bounds

-----------------------------------------------------------------------------
(* Who owns a slot.                                                         *)

\* ReapRetainedSlots never finds more attempts than it may keep.
NothingReaped == IsFiniteSet(Attempts) /\ Cardinality(Attempts) <= MaxRetained

\* From its registration to its decision a slot belongs to the thread at one of
\* these points, or to the queue.
OwnerPoints ==
    {"submit_start", "prepare_start", "submit_mark", "prepare_mark", "submit_pending",
     "prepare_pending", "enqueue", "prepare_run", "compute"}

\* A thread inside a call holds the slot its attempt is known by.
Current == \A t \in Threads : pc[t] \notin Free => table[heap[ref[t]].attempt] = ref[t]

OneOwner ==
    \A t, u \in Threads :
        pc[t] \in OwnerPoints /\ pc[u] \in OwnerPoints /\ ref[t] = ref[u] => t = u
OwnedNotQueued ==
    \A t \in Threads : pc[t] \in OwnerPoints =>
        \A i \in DOMAIN queue : queue[i] # heap[ref[t]].attempt
QueuedOnce == \A i, j \in DOMAIN queue : queue[i] = queue[j] => i = j
OwnedUndecided == \A t \in Threads : pc[t] \in OwnerPoints => heap[ref[t]].decision = "none"
QueuedUndecided ==
    \A i \in DOMAIN queue : table[queue[i]] # NoSlot /\ heap[table[queue[i]]].decision = "none"

\* A PreparedAttempt carries the decision of its slot, and the commit boundary is
\* reached with a placement only.
PreparedDecided ==
    \A p \in prepared :
        table[p.attempt] # NoSlot /\ heap[table[p.attempt]].decision = p.decision
PlacedCommits ==
    \A t \in Threads :
        /\ pc[t] \in CommitPoints \cup {"commit"} => heap[ref[t]].decision = "placed"
        /\ pc[t] \in CommitPoints => heap[ref[t]].commit_boundary_crossed
CrossedPlaced ==
    \A s \in Allocated : heap[s].commit_boundary_crossed => heap[s].decision = "placed"

OrderOK == slotOrder \in Seq(Attempts)

OwnInv ==
    /\ TableAttempt /\ Current /\ OneOwner /\ OwnedNotQueued /\ QueuedOnce /\ OwnedUndecided
    /\ QueuedUndecided /\ PreparedDecided /\ PlacedCommits /\ CrossedPlaced /\ OrderOK

-----------------------------------------------------------------------------
(* What a step does, when it is not a restart.                             *)

\* How a thread comes to hold a slot, or goes on with the one it holds.
Comes(u) ==
    \/ \E k \in Kinds, a \in Attempts, g \in Auths :
          RegisterAttempt(u, k, a, g) /\ pc'[u] \in OwnerPoints /\ ref'[u] = nextSlot
    \/ \E p \in prepared :
          /\ Commit(u, p) /\ ref'[u] = table[p.attempt]
          /\ \/ pc'[u] = "journal" /\ note'[u] = "rejected" /\ p.decision = "declined"
             \/ pc'[u] = "commit" /\ p.decision = "placed" /\ heap' = heap
    \/ \E a \in Attempts :
          /\ Cancel(u, a) /\ ref'[u] = table[a]
          /\ pc'[u] = "journal" /\ note'[u] = "cancelled" /\ heap'[table[a]].terminal
    \/ \E a \in Attempts : AwaitCall(u, a) /\ ref'[u] = table[a] /\ pc'[u] = "await"
    \/ WorkerTake(u) /\ ref'[u] = table[Head(queue)] /\ ref'[u] # NoSlot /\ pc'[u] = "compute"
GoesOn(u) ==
    \/ pc[u] \in OwnerPoints /\ pc'[u] \in OwnerPoints
    \/ /\ WorkerDecide(u, "placed") /\ pc[u] = "compute" /\ pc'[u] = "commit"
       /\ ~heap[ref[u]].terminal
    \/ /\ WorkerDecide(u, "declined") /\ pc[u] = "compute" /\ pc'[u] = "fail"
       /\ ~heap[ref[u]].terminal /\ note'[u] = "rejected"
    \/ CommitSlot(u) /\ BoundaryCode(ref[u]) = "ok" /\ pc'[u] = "intent"
    \/ /\ CommitSlot(u) /\ BoundaryCode(ref[u]) # "ok" /\ pc'[u] = "fail"
       /\ note'[u] = StateForFailure(BoundaryCode(ref[u]))
    \/ ReadIntent(u) /\ pc'[u] = "record"
    \/ CommitRecord(u) /\ Goto(u, "journal_commit") /\ pc'[u] = "journal_commit"
    \/ JournalCommit(u) /\ pc'[u] = "finalize"
    \/ /\ ReadIntent(u) \/ CommitRecord(u)
       /\ StatusReturned(u) /\ pc'[u] = "fail" /\ note'[u] = "failed"
    \/ Fail(u) /\ pc'[u] = "journal" /\ note'[u] = note[u]
    \/ pc[u] \notin Free /\ pc'[u] = "finish"

LEMMA Arrival ==
    ASSUME IInv, [Next]_vars, ~\E e \in Epochs : Restart(e),
           NEW u \in Threads, Moved(u), pc'[u] \notin Free
    PROVE  Comes(u) \/ (GoesOn(u) /\ pc[u] \notin Free /\ ref'[u] = ref[u])
<1> DEFINE Goal == Comes(u) \/ (GoesOn(u) /\ pc[u] \notin Free /\ ref'[u] = ref[u])
<1>1. /\ pc \in [Threads -> Point] /\ ref \in [Threads -> Slots \cup {NoSlot}]
      /\ note \in [Threads -> AttemptState] /\ heap \in [Allocated -> Slot]
  BY DEF IInv, TypeOK, Point
<1>2. ASSUME NEW point, Goto(u, point)
      PROVE  pc'[u] = point /\ ref'[u] = ref[u] /\ note'[u] = note[u]
  BY <1>1, <1>2 DEF Goto
<1>3. ASSUME NEW point, NEW s, NEW state, Enter(u, point, s, state)
      PROVE  pc'[u] = point /\ ref'[u] = s /\ note'[u] = state
  BY <1>1, <1>3 DEF Enter
<1>4. ASSUME Return(u) PROVE FALSE BY <1>3, <1>4 DEF Return, Free
<1>5. ASSUME Stay PROVE FALSE BY <1>5 DEF Stay, Moved
<1>6. ASSUME u \in Clients, ClientCall(u) PROVE Goal
  <2>1. ASSUME NEW k \in Kinds, NEW a \in Attempts, NEW g \in Auths, RegisterAttempt(u, k, a, g)
        PROVE  Goal
    <3>1. pc'[u] \in OwnerPoints /\ ref'[u] = nextSlot
      BY <1>3, <2>1 DEF RegisterAttempt, StartPoint, AfterStart, OwnerPoints
    <3> QED BY <2>1, <3>1 DEF Comes
  <2>2. ASSUME NEW p \in prepared, Commit(u, p) PROVE Goal
    <3>1. CASE Enter(u, "journal", table[p.attempt], "rejected") /\ p.decision = "declined"
      BY <1>3, <2>2, <3>1 DEF Comes
    <3>2. CASE Enter(u, "commit", table[p.attempt], "queued") /\ p.decision = "placed" /\ heap' = heap
      BY <1>3, <2>2, <3>2 DEF Comes
    <3> QED BY <2>2, <3>1, <3>2 DEF Commit
  <2>3. ASSUME NEW a \in Attempts, Cancel(u, a) PROVE Goal
    <3>1. table[a] \in Allocated BY <2>3 DEF Cancel, IInv, TableOK
    <3>2. /\ Enter(u, "journal", table[a], "cancelled")
          /\ heap' = [heap EXCEPT ![table[a]] =
                [Finalized(heap[table[a]], "cancelled") EXCEPT !.cancel_requested = TRUE,
                     !.pending_terminal = ~StartIsDurable(table[a])]]
      BY <1>5, <2>3 DEF Cancel
    <3>3. heap'[table[a]].terminal BY <1>1, <3>1, <3>2 DEF Finalized, Slot
    <3> QED BY <1>3, <2>3, <3>2, <3>3 DEF Comes
  <2>4. ASSUME NEW a \in Attempts, AwaitCall(u, a) PROVE Goal
    BY <1>3, <2>4 DEF AwaitCall, Comes
  <2>5. ASSUME Goto(u, "drain") \/ Goto(u, "sd_journal") \/ Goto(u, "sd_wait") PROVE FALSE
    BY <1>2, <2>5 DEF Free
  <2> HIDE DEF Goal
  <2> QED
    BY <1>5, <1>6, <2>1, <2>2, <2>3, <2>4, <2>5 DEF ClientCall, AdvanceEpoch, SetAuthority,
       DrainCall, Shutdown, ShutdownSecond
<1>7. ASSUME u \in Clients, ClientStep(u) PROVE Goal
  <2>1. ASSUME pc[u] \in OwnerPoints, NEW point \in OwnerPoints, Goto(u, point) PROVE Goal
    BY <1>2, <2>1 DEF GoesOn, OwnerPoints, Free
  <2>2. ASSUME NEW k \in Kinds, JournalStart(u, k) \/ MarkStart(u, k) \/ JournalPending(u, k)
        PROVE  Goal
    <3>1. {StartPoint(k), MarkPoint(k), PendingPoint(k), AfterStart(k)} \subseteq OwnerPoints
      BY DEF StartPoint, MarkPoint, PendingPoint, AfterStart, OwnerPoints
    <3> HIDE DEF Goal
    <3> QED BY <1>4, <2>1, <2>2, <3>1 DEF JournalStart, MarkStart, JournalPending
  <2>3. CASE PrepareRun(u)
    <3>1. {"prepare_run", "compute"} \subseteq OwnerPoints BY DEF OwnerPoints
    <3> HIDE DEF Goal
    <3> QED BY <1>4, <2>1, <2>3, <3>1 DEF PrepareRun
  <2>4. ASSUME Goto(u, "sd_join") \/ Goto(u, "sd_close") PROVE FALSE BY <1>2, <2>4 DEF Free
  <2> HIDE DEF Goal
  <2> QED
    BY <1>4, <1>5, <1>7, <2>2, <2>3, <2>4 DEF ClientStep, Enqueue, Await, Drain, PrepareDecide,
       ShutdownWait, ShutdownJournal, ShutdownJoin, ShutdownClose
<1>8. ASSUME u \in Workers, WorkerStep(u) PROVE Goal
  <2>1. CASE WorkerTake(u) BY <1>3, <1>5, <2>1 DEF WorkerTake, Comes
  <2>2. ASSUME NEW d \in Decisions, WorkerDecide(u, d) PROVE Goal
    <3>1. pc[u] = "compute" /\ pc[u] \notin Free BY <2>2 DEF WorkerDecide, Free
    <3>2. CASE Goto(u, "finish") BY <1>2, <3>1, <3>2 DEF GoesOn
    <3>3. CASE d = "placed" /\ Goto(u, "commit") /\ ~heap[ref[u]].terminal
      BY <1>2, <2>2, <3>1, <3>3 DEF GoesOn
    <3>4. CASE d = "declined" /\ Enter(u, "fail", ref[u], "rejected") /\ ~heap[ref[u]].terminal
      BY <1>3, <2>2, <3>1, <3>4 DEF GoesOn
    <3> HIDE DEF Goal
    <3> QED BY <2>2, <3>2, <3>3, <3>4 DEF WorkerDecide, Decisions
  <2>3. ASSUME Goto(u, "exit") PROVE FALSE BY <1>2, <2>3 DEF Free
  <2> HIDE DEF Goal
  <2> QED
    BY <1>4, <1>5, <1>8, <2>1, <2>2, <2>3 DEF WorkerStep, WorkerSleep, WorkerExit, WorkerFinish
<1>9. ASSUME CommitStep(u) PROVE Goal
  <2>1. pc[u] \notin Free
    BY <1>9 DEF CommitStep, CommitSlot, ReadIntent, CommitRecord, JournalCommit, FinalizeCommit,
       Fail, Journal, Free
  <2>2. CASE CommitSlot(u)
    <3>1. CASE BoundaryCode(ref[u]) = "ok" /\ Goto(u, "intent") BY <1>2, <2>1, <2>2, <3>1 DEF GoesOn
    <3>2. CASE /\ BoundaryCode(ref[u]) # "ok"
               /\ Enter(u, "fail", ref[u], StateForFailure(BoundaryCode(ref[u])))
      BY <1>3, <2>1, <2>2, <3>2 DEF GoesOn
    <3> HIDE DEF Goal
    <3> QED BY <2>2, <3>1, <3>2 DEF CommitSlot
  <2>3. ASSUME ReadIntent(u) \/ CommitRecord(u), StatusReturned(u) PROVE Goal
    <3>1. Enter(u, "fail", ref[u], "failed") BY <2>3 DEF StatusReturned, StateForFailure
    <3> QED BY <1>3, <2>1, <2>3, <3>1 DEF GoesOn
  <2>4. CASE ReadIntent(u)
    <3>1. CASE Goto(u, "record") BY <1>2, <2>1, <2>4, <3>1 DEF GoesOn
    <3> HIDE DEF Goal
    <3> QED BY <2>3, <2>4, <3>1 DEF ReadIntent
  <2>5. CASE CommitRecord(u)
    <3>1. CASE Goto(u, "journal_commit") BY <1>2, <2>1, <2>5, <3>1 DEF GoesOn
    <3> HIDE DEF Goal
    <3> QED BY <2>3, <2>5, <3>1 DEF CommitRecord
  <2>6. CASE JournalCommit(u) BY <1>2, <2>1, <2>6 DEF JournalCommit, GoesOn
  <2>7. CASE FinalizeCommit(u) \/ Journal(u)
    BY <1>2, <1>4, <2>1, <2>7 DEF FinalizeCommit, Journal, EndAttempt, GoesOn
  <2>8. CASE Fail(u) BY <1>2, <1>4, <2>1, <2>8 DEF Fail, GoesOn
  <2> HIDE DEF Goal
  <2> QED BY <1>9, <2>2, <2>4, <2>5, <2>6, <2>7, <2>8 DEF CommitStep
<1> HIDE DEF Goal
<1>10. Goal BY <1>6, <1>7, <1>8, <1>9, ThreadMoved DEF Moves
<1> QED BY <1>10 DEF Goal

\* A table that is not full loses no attempt to the reaper.
LEMMA NoReap ==
    ASSUME NothingReaped, IInv, OrderOK, NEW c \in Clients, NEW k \in Kinds, NEW a \in Attempts,
           NEW g \in Auths, RegisterAttempt(c, k, a, g)
    PROVE  /\ table' = [table EXCEPT ![a] = nextSlot]
           /\ slotOrder' = Append(slotOrder, a)
<1> DEFINE obj == [s \in 1 .. nextSlot |->
                      IF s = nextSlot THEN NewSlot(a, epoch, g) ELSE heap[s]]
           tab == [table EXCEPT ![a] = nextSlot]
           order == Append(slotOrder, a)
           done == {i \in DOMAIN order : obj[tab[order[i]]].terminal}
<1>1. /\ table' = ReapedTable(tab, obj, order) /\ slotOrder' = ReapedOrder(tab, obj, order)
      /\ tab \in [Attempts -> Slots \cup {NoSlot, nextSlot}] /\ order \in Seq(Attempts)
  BY DEF RegisterAttempt, OrderOK, IInv, TypeOK
<1> HIDE DEF tab, obj
<1>2. IsFiniteSet(InTable(tab)) /\ Cardinality(InTable(tab)) <= Cardinality(Attempts)
  <2>1. InTable(tab) \subseteq Attempts BY DEF InTable
  <2> QED BY <2>1, FS_Subset DEF NothingReaped
<1>3. ~(Cardinality(InTable(tab)) > MaxRetained)
  BY <1>2, FS_CardinalityType, NumberAssumption DEF NothingReaped
<1>4. ASSUME NEW i \in done PROVE ~(Cardinality({j \in done : j <= i}) <= 0)
  <2> DEFINE below == {j \in done : j <= i}
  <2>1. DOMAIN order = 1 .. Len(order) /\ Len(order) \in Nat BY <1>1
  <2>2. below \subseteq 1 .. Len(order) BY <2>1
  <2>3. IsFiniteSet(1 .. Len(order)) BY <2>1, FS_Interval
  <2>4. IsFiniteSet(below) BY <2>2, <2>3, FS_Subset
  <2>5. i \in below BY <2>1
  <2> HIDE DEF below, order, done
  <2>6. below # {} BY <2>5
  <2>7. Cardinality(below) # 0 /\ Cardinality(below) \in Nat
    BY <2>4, <2>6, FS_EmptySet, FS_CardinalityType
  <2> QED BY <2>7 DEF below
<1>5. ReapPositions(tab, obj, order) = {} BY <1>3, <1>4 DEF ReapPositions
<1> HIDE DEF order
<1>6. slotOrder' = order BY <1>1, <1>5 DEF ReapedOrder
<1>7. table' = tab
  <2>1. table' = [b \in Attempts |-> tab[b]] BY <1>1, <1>5 DEF ReapedTable
  <2> QED BY <1>1, <2>1
<1> QED BY <1>6, <1>7 DEF tab, order

\* So an attempt that is known stays known by the same slot until a restart.
LEMMA TableKept ==
    ASSUME NothingReaped, IInv, OrderOK, [Next]_vars, ~\E e \in Epochs : Restart(e)
    PROVE  /\ \A a \in Attempts : table[a] # NoSlot => table'[a] = table[a]
           /\ OrderOK'
<1>1. ASSUME NEW c \in Clients, NEW k \in Kinds, NEW a \in Attempts, NEW g \in Auths,
             RegisterAttempt(c, k, a, g)
      PROVE  /\ \A b \in Attempts : table[b] # NoSlot => table'[b] = table[b]
             /\ OrderOK'
  <2>1. table' = [table EXCEPT ![a] = nextSlot] /\ slotOrder' = Append(slotOrder, a)
    BY <1>1, NoReap
  <2>2. table[a] = NoSlot BY <1>1 DEF RegisterAttempt
  <2> QED BY <2>1, <2>2 DEF OrderOK, IInv, TypeOK
<1>2. ASSUME NEW c \in Clients, ClientCall(c)
      PROVE  \/ UNCHANGED <<table, slotOrder>>
             \/ \E k \in Kinds, a \in Attempts, g \in Auths : RegisterAttempt(c, k, a, g)
  BY <1>2 DEF ClientCall, Commit, Cancel, AwaitCall, AdvanceEpoch, SetAuthority, DrainCall,
     Shutdown, ShutdownSecond
<1>3. ASSUME NEW c \in Clients, ClientStep(c) PROVE UNCHANGED <<table, slotOrder>>
  BY <1>3 DEF ClientStep, JournalStart, MarkStart, JournalPending, Enqueue, PrepareRun,
     PrepareDecide, Await, Drain, ShutdownWait, ShutdownJournal, ShutdownJoin, ShutdownClose
<1>4. ASSUME NEW w \in Workers, WorkerStep(w) PROVE UNCHANGED <<table, slotOrder>>
  BY <1>4 DEF WorkerStep, WorkerSleep, WorkerExit, WorkerTake, WorkerFinish, WorkerDecide
<1>5. ASSUME NEW t \in Threads, CommitStep(t) PROVE UNCHANGED <<table, slotOrder>>
  BY <1>5 DEF CommitStep, CommitSlot, ReadIntent, CommitRecord, JournalCommit, FinalizeCommit,
     Fail, Journal
<1>6. ASSUME UNCHANGED <<table, slotOrder>>
      PROVE  (\A a \in Attempts : table[a] # NoSlot => table'[a] = table[a]) /\ OrderOK'
  BY <1>6 DEF OrderOK
<1> QED BY <1>1, <1>2, <1>3, <1>4, <1>5, <1>6 DEF Next, vars

\* A slot gets its decision from the thread that computes it, or from a caller that
\* brings back a declined PreparedAttempt.
LEMMA DecisionStep ==
    ASSUME IInv, [Next]_vars, NEW s \in Allocated, heap'[s].decision # heap[s].decision
    PROVE  \/ \E t \in Threads : s = ref[t] /\ pc[t] = "compute" /\ pc'[t] \notin OwnerPoints
           \/ \E p \in prepared :
                 s = table[p.attempt] /\ p.decision = "declined" /\ heap'[s].decision = "declined"
<1>1. heap[s] \in Slot /\ pc \in [Threads -> Point] BY DEF IInv, TypeOK, Point
<1>2. ASSUME NEW c \in Clients, ClientTouches(s, c)
      PROVE  \/ s = ref[c] /\ \E d \in Decisions : PrepareDecide(c, d)
             \/ \E p \in prepared :
                   s = table[p.attempt] /\ p.decision = "declined" /\ heap'[s].decision = "declined"
  BY <1>1, <1>2 DEF ClientTouches, Ended, CancelledSlot, Slot
<1>3. ASSUME NEW w \in Workers, WorkerTouches(s, w)
      PROVE  s = ref[w] /\ ~heap[s].terminal /\ \E d \in Decisions : WorkerDecide(w, d)
  BY <1>1, <1>3 DEF WorkerTouches, Slot
<1>4. ASSUME NEW t \in Threads, CommitTouches(s, t) PROVE FALSE
  BY <1>1, <1>4 DEF CommitTouches, Ended, Slot
<1>5. ASSUME NEW c \in Clients, NEW d \in Decisions, PrepareDecide(c, d)
      PROVE  c \in Threads /\ pc[c] = "compute" /\ pc'[c] \notin OwnerPoints
  BY <1>1, <1>5 DEF PrepareDecide, Return, Enter, OwnerPoints, Threads
<1>6. ASSUME NEW w \in Workers, NEW d \in Decisions, WorkerDecide(w, d)
      PROVE  w \in Threads /\ pc[w] = "compute" /\ pc'[w] \notin OwnerPoints
  BY <1>1, <1>6 DEF WorkerDecide, Goto, Enter, OwnerPoints, Threads
<1> QED BY <1>2, <1>3, <1>4, <1>5, <1>6, SlotTouched

\* A slot crosses the boundary in CommitSlot.
LEMMA CrossStep ==
    ASSUME IInv, [Next]_vars, NEW s \in Allocated,
           heap'[s].commit_boundary_crossed, ~heap[s].commit_boundary_crossed
    PROVE  \E t \in Threads :
               s = ref[t] /\ CommitSlot(t) /\ pc[t] = "commit" /\ BoundaryCode(s) = "ok"
<1>1. heap[s] \in Slot BY DEF IInv, TypeOK
<1>2. ASSUME NEW c \in Clients, ClientTouches(s, c) PROVE FALSE
  BY <1>1, <1>2 DEF ClientTouches, Ended, CancelledSlot, Slot
<1>3. ASSUME NEW w \in Workers, WorkerTouches(s, w) PROVE FALSE
  BY <1>1, <1>3 DEF WorkerTouches, Slot
<1>4. ASSUME NEW t \in Threads, CommitTouches(s, t)
      PROVE  s = ref[t] /\ CommitSlot(t) /\ BoundaryCode(s) = "ok"
  BY <1>1, <1>4 DEF CommitTouches, Ended, Slot
<1> QED BY <1>2, <1>3, <1>4, SlotTouched DEF CommitSlot

-----------------------------------------------------------------------------
(* Ownership is an invariant.                                              *)

LEMMA OwnRestart == ASSUME IInv, OwnInv, NEW e \in Epochs, Restart(e) PROVE OwnInv'
<1>1. \A t \in Threads : pc'[t] \in {"loop", "idle"} BY DEF Restart, FreshThreads
<1>2. {"loop", "idle"} \cap (OwnerPoints \cup CommitPoints \cup {"commit"}) = {}
  BY DEF OwnerPoints, CommitPoints
<1>3. Current' /\ OneOwner' /\ OwnedNotQueued' /\ OwnedUndecided' /\ PlacedCommits'
  BY <1>1, <1>2 DEF Current, OneOwner, OwnedNotQueued, OwnedUndecided, PlacedCommits, Free
<1>4. QueuedOnce' /\ QueuedUndecided' /\ PreparedDecided' /\ TableAttempt' /\ OrderOK'
  <2>1. queue' = <<>> /\ slotOrder' = <<>> /\ prepared' = {} /\ \A a \in Attempts : table'[a] = NoSlot
    BY DEF Restart
  <2> QED BY <2>1 DEF QueuedOnce, QueuedUndecided, PreparedDecided, TableAttempt, OrderOK
<1>5. CrossedPlaced'
  <2>1. heap' = heap /\ Allocated' = Allocated BY DEF Restart, Allocated
  <2> QED BY <2>1 DEF OwnInv, CrossedPlaced
<1> QED BY <1>3, <1>4, <1>5 DEF OwnInv

LEMMA OwnStep ==
    ASSUME NothingReaped, IInv, OwnInv, [Next]_vars, ~\E e \in Epochs : Restart(e)
    PROVE  OwnInv'
<1>1. HeapStep /\ IInv' /\ TableAttempt' BY NextInv, TableAttemptNext DEF OwnInv
<1>2. (\A a \in Attempts : table[a] # NoSlot => table'[a] = table[a]) /\ OrderOK'
  BY TableKept DEF OwnInv
<1>3. /\ \A s \in Allocated : /\ heap[s] \in Slot /\ heap[s].attempt \in Attempts
                              /\ heap'[s].attempt = heap[s].attempt
      /\ NoSlot \notin Allocated /\ nextSlot \notin Allocated
  <2>1. nextSlot \in Nat BY DEF IInv, TypeOK
  <2>2. NoSlot \notin Allocated /\ nextSlot \notin Allocated BY <2>1 DEF Allocated, NoSlot
  <2> QED BY <1>1, <2>2 DEF HeapStep, SlotStep, IInv, TypeOK, Slot
<1>4. /\ OwnerPoints \cap Free = {} /\ (CommitPoints \cup {"commit"}) \cap Free = {}
      /\ (CommitPoints \cup {"commit"}) \cap OwnerPoints = {}
  BY DEF OwnerPoints, CommitPoints, Free
<1>5. ASSUME NEW t \in Threads, pc[t] \notin Free
      PROVE  ref[t] \in Allocated /\ table[heap[ref[t]].attempt] = ref[t]
  BY <1>5 DEF IInv, RefOK, OwnInv, Current
<1>6. ASSUME NEW t \in Threads, ~Moved(t) PROVE pc'[t] = pc[t] /\ ref'[t] = ref[t]
  BY <1>6 DEF Moved
<1>7. ASSUME NEW a \in Attempts, table[a] # NoSlot
      PROVE  table[a] \in Allocated /\ heap[table[a]].attempt = a
  BY <1>7 DEF IInv, TableOK, OwnInv, TableAttempt
<1>8. /\ queue \in Seq(Attempts)
      /\ \A i \in DOMAIN queue : queue[i] \in Attempts /\ table[queue[i]] # NoSlot
  <2>1. queue \in Seq(Attempts) BY DEF IInv, TypeOK
  <2>2. \A i \in DOMAIN queue : queue[i] \in Attempts BY <2>1
  <2> QED BY <2>1, <2>2 DEF OwnInv, QueuedUndecided
<1>9. ASSUME NEW p \in prepared
      PROVE  /\ p.attempt \in Attempts /\ p.decision # "none"
             /\ table[p.attempt] \in Allocated /\ heap[table[p.attempt]].decision = p.decision
  <2>1. p.attempt \in Attempts /\ p.decision # "none" BY DEF IInv, TypeOK, PreparedAttempt
  <2> QED BY <1>7, <2>1 DEF OwnInv, PreparedDecided
\* A decision is taken once, by the owner of the slot, who then lets it go.
<1>10. ASSUME NEW s \in Allocated, heap'[s].decision # heap[s].decision
       PROVE  \E t \in Threads :
                  s = ref[t] /\ pc[t] = "compute" /\ pc[t] \in OwnerPoints /\ pc'[t] \notin OwnerPoints
  <2>1. ASSUME NEW p \in prepared, s = table[p.attempt], p.decision = "declined",
               heap'[s].decision = "declined"
        PROVE  FALSE
    BY <1>9, <1>10, <2>1
  <2> QED BY <1>10, <2>1, DecisionStep DEF OwnerPoints
<1>11. ASSUME NEW s \in Allocated, heap[s].decision # "none"
       PROVE  heap'[s].decision = heap[s].decision
  BY <1>10, <1>11 DEF OwnInv, OwnedUndecided
\* Where an owner comes from.
<1>12. ASSUME NEW u \in Threads, pc'[u] \in OwnerPoints
       PROVE  \/ pc[u] \in OwnerPoints /\ ref'[u] = ref[u]
              \/ \E k \in Kinds, a \in Attempts, g \in Auths :
                    u \in Clients /\ RegisterAttempt(u, k, a, g) /\ ref'[u] = nextSlot
              \/ u \in Workers /\ WorkerTake(u) /\ ref'[u] = table[Head(queue)] /\ ref'[u] # NoSlot
  <2>1. CASE ~Moved(u) BY <1>6, <1>12, <2>1
  <2>2. CASE Moved(u)
    <3>1. Comes(u) \/ (GoesOn(u) /\ ref'[u] = ref[u]) BY <1>4, <1>12, <2>2, Arrival
    <3>2. CASE GoesOn(u) /\ ref'[u] = ref[u]
      BY <1>12, <3>2 DEF GoesOn, OwnerPoints
    <3>3. CASE Comes(u)
      <4>1. \/ \E k \in Kinds, a \in Attempts, g \in Auths :
                  RegisterAttempt(u, k, a, g) /\ ref'[u] = nextSlot
            \/ WorkerTake(u) /\ ref'[u] = table[Head(queue)] /\ ref'[u] # NoSlot
        BY <1>12, <3>3 DEF Comes, OwnerPoints
      <4>2. ASSUME NEW k \in Kinds, NEW a \in Attempts, NEW g \in Auths, RegisterAttempt(u, k, a, g)
            PROVE  u \in Clients
        <5>1. pc[u] = "idle" BY <4>2 DEF RegisterAttempt
        <5> QED BY <2>2, <5>1, ThreadMoved DEF Moves, Threads, WorkerStep, WorkerSleep, WorkerExit,
               WorkerTake, WorkerFinish, WorkerDecide, CommitStep, CommitSlot, ReadIntent,
               CommitRecord, JournalCommit, FinalizeCommit, Fail, Journal
      <4>3. ASSUME WorkerTake(u) PROVE u \in Workers
        <5>1. pc[u] = "loop" BY <4>3 DEF WorkerTake
        <5>2. ~ClientCall(u)
          BY <5>1 DEF ClientCall, RegisterAttempt, Commit, Cancel, AwaitCall, AdvanceEpoch,
             SetAuthority, DrainCall, Shutdown, ShutdownSecond
        <5>3. ~ClientStep(u)
          BY <5>1 DEF ClientStep, JournalStart, MarkStart, JournalPending, Enqueue, PrepareRun,
             PrepareDecide, Await, Drain, ShutdownWait, ShutdownJournal, ShutdownJoin,
             ShutdownClose, StartPoint, MarkPoint, PendingPoint
        <5> QED BY <2>2, <5>1, <5>2, <5>3, ThreadMoved DEF Moves, CommitStep, CommitSlot, ReadIntent,
               CommitRecord, JournalCommit, FinalizeCommit, Fail, Journal
      <4> QED BY <4>1, <4>2, <4>3
    <3> QED BY <3>1, <3>2, <3>3
  <2> QED BY <2>1, <2>2
<1>13. ASSUME NEW c \in Clients, NEW k \in Kinds, NEW a \in Attempts, NEW g \in Auths,
              RegisterAttempt(c, k, a, g)
       PROVE  /\ table[a] = NoSlot /\ table'[a] = nextSlot /\ queue' = queue
              /\ heap'[nextSlot].attempt = a /\ heap'[nextSlot].decision = "none"
  <2>1. nextSlot \in 1 .. nextSlot BY DEF IInv, TypeOK
  <2>2. heap'[nextSlot] = NewSlot(a, epoch, g) BY <1>13, <2>1 DEF RegisterAttempt
  <2>3. table' = [table EXCEPT ![a] = nextSlot] BY <1>13, NoReap DEF OwnInv
  <2> QED BY <1>13, <2>2, <2>3 DEF RegisterAttempt, NewSlot, IInv, TypeOK
<1>14. ASSUME NEW w \in Workers, WorkerTake(w)
       PROVE  /\ queue # <<>> /\ queue' = Tail(queue) /\ 1 \in DOMAIN queue /\ Head(queue) = queue[1]
  BY <1>8, <1>14 DEF WorkerTake
<1>15. Current'
  <2> SUFFICES ASSUME NEW u \in Threads, pc'[u] \notin Free PROVE table'[heap'[ref'[u]].attempt] = ref'[u]
    BY DEF Current
  <2>1. CASE pc[u] \notin Free /\ ref'[u] = ref[u] BY <1>2, <1>3, <1>5, <2>1
  <2>2. ASSUME NEW a \in Attempts, table[a] # NoSlot, ref'[u] = table[a]
        PROVE  table'[heap'[ref'[u]].attempt] = ref'[u]
    BY <1>2, <1>3, <1>7, <2>2
  <2>3. CASE ~(pc[u] \notin Free /\ ref'[u] = ref[u])
    <3>1. Moved(u) BY <1>6, <2>3
    <3>2. Comes(u) BY <2>3, <3>1, Arrival
    <3>3. CASE pc'[u] \in OwnerPoints
      <4>1. CASE \E k \in Kinds, a \in Attempts, g \in Auths :
                    u \in Clients /\ RegisterAttempt(u, k, a, g) /\ ref'[u] = nextSlot
        BY <1>13, <4>1
      <4>2. CASE u \in Workers /\ WorkerTake(u) /\ ref'[u] = table[Head(queue)] /\ ref'[u] # NoSlot
        BY <1>8, <1>14, <2>2, <4>2
      <4> QED BY <1>4, <1>12, <2>3, <3>3, <4>1, <4>2
    <3>4. CASE pc'[u] \notin OwnerPoints
      <4>1. \E a \in Attempts : table[a] # NoSlot /\ ref'[u] = table[a]
        BY <1>9, <3>2, <3>4 DEF Comes, Commit, Cancel, AwaitCall, OwnerPoints
      <4> QED BY <2>2, <4>1
    <3> QED BY <3>3, <3>4
  <2> QED BY <2>1, <2>3

<1>16. OneOwner'
  <2>1. ASSUME NEW t \in Threads, NEW u \in Threads, ~Moved(t), t # u,
               pc'[t] \in OwnerPoints, pc'[u] \in OwnerPoints, ref'[t] = ref'[u]
        PROVE  FALSE
    <3>1. pc[t] \in OwnerPoints /\ ref'[t] = ref[t] /\ ref[t] \in Allocated
      BY <1>4, <1>5, <1>6, <2>1
    <3>2. CASE pc[u] \in OwnerPoints /\ ref'[u] = ref[u]
      BY <2>1, <3>1, <3>2 DEF OwnInv, OneOwner
    <3>3. CASE ref'[u] = nextSlot BY <1>3, <2>1, <3>1, <3>3
    <3>4. CASE u \in Workers /\ WorkerTake(u) /\ ref'[u] = table[Head(queue)] /\ ref'[u] # NoSlot
      <4>1. heap[ref[t]].attempt = queue[1] /\ 1 \in DOMAIN queue
        BY <1>7, <1>8, <1>14, <2>1, <3>1, <3>4
      <4> QED BY <3>1, <4>1 DEF OwnInv, OwnedNotQueued
    <3> QED BY <1>12, <2>1, <3>2, <3>3, <3>4
  <2>2. SUFFICES ASSUME NEW t \in Threads, NEW u \in Threads, t # u,
                        pc'[t] \in OwnerPoints, pc'[u] \in OwnerPoints, ref'[t] = ref'[u]
                 PROVE  FALSE
    BY DEF OneOwner
  <2>3. ~Moved(t) \/ ~Moved(u) BY <2>2, OneMoves
  <2> QED BY <2>1, <2>2, <2>3
<1>17. ASSUME NEW c \in Clients, pc[c] = "enqueue", Enqueue(c),
              queue' = Append(queue, heap[ref[c]].attempt)
       PROVE  /\ c \in Threads /\ pc[c] \in OwnerPoints /\ pc'[c] \notin OwnerPoints
              /\ ref[c] \in Allocated /\ heap[ref[c]].attempt \in Attempts
              /\ table[heap[ref[c]].attempt] = ref[c]
  <2>1. c \in Threads /\ pc[c] \in OwnerPoints BY <1>17 DEF Threads, OwnerPoints
  <2>2. pc'[c] \notin OwnerPoints
    BY <1>17, <2>1 DEF Enqueue, Return, Enter, OwnerPoints, IInv, TypeOK
  <2> QED BY <1>3, <1>4, <1>5, <2>1, <2>2
<1>18. OwnedNotQueued'
  <2> SUFFICES ASSUME NEW u \in Threads, pc'[u] \in OwnerPoints, NEW i \in DOMAIN queue',
                      queue'[i] = heap'[ref'[u]].attempt
               PROVE  FALSE
    BY DEF OwnedNotQueued
  <2>1. CASE pc[u] \in OwnerPoints /\ ref'[u] = ref[u]
    <3>1. ref[u] \in Allocated /\ heap'[ref[u]].attempt = heap[ref[u]].attempt
      BY <1>3, <1>4, <1>5, <2>1
    <3>2. \A j \in DOMAIN queue : queue[j] # heap[ref[u]].attempt
      BY <2>1 DEF OwnInv, OwnedNotQueued
    <3>3. CASE queue' = queue BY <2>1, <3>1, <3>2, <3>3
    <3>4. CASE queue' = <<>> BY <3>4
    <3>5. CASE queue # <<>> /\ queue' = Tail(queue)
      <4>1. i + 1 \in DOMAIN queue /\ queue'[i] = queue[i + 1] BY <1>8, <3>5
      <4> QED BY <2>1, <3>1, <3>2, <4>1
    <3>6. ASSUME NEW c \in Clients, Enqueue(c), pc[c] = "enqueue",
                 queue' = Append(queue, heap[ref[c]].attempt)
          PROVE  FALSE
      <4>1. heap[ref[c]].attempt # heap[ref[u]].attempt
        <5> SUFFICES ASSUME heap[ref[c]].attempt = heap[ref[u]].attempt PROVE FALSE OBVIOUS
        <5>1. ref[c] = ref[u] BY <1>4, <1>5, <1>17, <2>1, <3>6
        <5> QED BY <1>17, <2>1, <3>6, <5>1 DEF OwnInv, OneOwner
      <4>2. (i \in DOMAIN queue /\ queue'[i] = queue[i]) \/ queue'[i] = heap[ref[c]].attempt
        BY <1>8, <1>17, <3>6
      <4> QED BY <2>1, <3>1, <3>2, <4>1, <4>2
    <3> QED BY <3>3, <3>4, <3>5, <3>6, QueueStep
  <2>2. ASSUME u \in Clients, NEW k \in Kinds, NEW a \in Attempts, NEW g \in Auths,
               RegisterAttempt(u, k, a, g), ref'[u] = nextSlot
        PROVE  FALSE
    BY <1>8, <1>13, <2>2
  <2>3. CASE u \in Workers /\ WorkerTake(u) /\ ref'[u] = table[Head(queue)] /\ ref'[u] # NoSlot
    <3>1. heap'[ref'[u]].attempt = queue[1] /\ 1 \in DOMAIN queue
      BY <1>3, <1>7, <1>8, <1>14, <2>3
    <3>2. queue # <<>> /\ queue' = Tail(queue) BY <1>14, <2>3
    <3>3. i + 1 \in DOMAIN queue /\ queue'[i] = queue[i + 1] /\ i \in Nat \ {0} BY <1>8, <3>2
    <3>4. i + 1 # 1 BY <3>3
    <3> QED BY <3>1, <3>3, <3>4 DEF OwnInv, QueuedOnce
  <2> QED BY <1>12, <2>1, <2>2, <2>3
<1>19. QueuedOnce'
  <2> SUFFICES ASSUME NEW i \in DOMAIN queue', NEW j \in DOMAIN queue', queue'[i] = queue'[j]
               PROVE  i = j
    BY DEF QueuedOnce
  <2>1. CASE queue' = queue BY <2>1 DEF OwnInv, QueuedOnce
  <2>2. CASE queue' = <<>> BY <2>2
  <2>3. CASE queue # <<>> /\ queue' = Tail(queue)
    <3>1. /\ i + 1 \in DOMAIN queue /\ queue'[i] = queue[i + 1]
          /\ j + 1 \in DOMAIN queue /\ queue'[j] = queue[j + 1]
          /\ i \in Nat /\ j \in Nat
      BY <1>8, <2>3
    <3>2. i + 1 = j + 1 BY <3>1 DEF OwnInv, QueuedOnce
    <3> QED BY <3>1, <3>2
  <2>4. ASSUME NEW c \in Clients, Enqueue(c), pc[c] = "enqueue",
               queue' = Append(queue, heap[ref[c]].attempt)
        PROVE  i = j
    <3>1. \A n \in DOMAIN queue : queue[n] # heap[ref[c]].attempt
      BY <1>17, <2>4 DEF OwnInv, OwnedNotQueued
    <3>2. \A n \in DOMAIN queue' : \/ n \in DOMAIN queue /\ queue'[n] = queue[n]
                                   \/ n = Len(queue) + 1 /\ queue'[n] = heap[ref[c]].attempt
      BY <1>8, <1>17, <2>4
    <3> QED BY <3>1, <3>2 DEF OwnInv, QueuedOnce
  <2> QED BY <2>1, <2>2, <2>3, <2>4, QueueStep
<1>20. OwnedUndecided'
  <2> SUFFICES ASSUME NEW u \in Threads, pc'[u] \in OwnerPoints PROVE heap'[ref'[u]].decision = "none"
    BY DEF OwnedUndecided
  <2>1. CASE pc[u] \in OwnerPoints /\ ref'[u] = ref[u]
    <3>1. ref[u] \in Allocated /\ heap[ref[u]].decision = "none"
      BY <1>4, <1>5, <2>1 DEF OwnInv, OwnedUndecided
    <3>2. heap'[ref[u]].decision = heap[ref[u]].decision
      <4> SUFFICES ASSUME heap'[ref[u]].decision # heap[ref[u]].decision PROVE FALSE OBVIOUS
      <4>1. PICK t \in Threads : ref[u] = ref[t] /\ pc[t] \in OwnerPoints /\ pc'[t] \notin OwnerPoints
        BY <1>10, <3>1
      <4>2. t = u BY <2>1, <4>1 DEF OwnInv, OneOwner
      <4> QED BY <4>1, <4>2
    <3> QED BY <2>1, <3>1, <3>2
  <2>2. ASSUME u \in Clients, NEW k \in Kinds, NEW a \in Attempts, NEW g \in Auths,
               RegisterAttempt(u, k, a, g), ref'[u] = nextSlot
        PROVE  heap'[ref'[u]].decision = "none"
    BY <1>13, <2>2
  <2>3. CASE u \in Workers /\ WorkerTake(u) /\ ref'[u] = table[Head(queue)] /\ ref'[u] # NoSlot
    <3>1. /\ ref'[u] = table[queue[1]] /\ 1 \in DOMAIN queue /\ ref'[u] \in Allocated
          /\ heap[ref'[u]].attempt = queue[1]
      BY <1>7, <1>8, <1>14, <2>3
    <3>2. heap[ref'[u]].decision = "none" BY <3>1 DEF OwnInv, QueuedUndecided
    <3>3. heap'[ref'[u]].decision = heap[ref'[u]].decision
      <4> SUFFICES ASSUME heap'[ref'[u]].decision # heap[ref'[u]].decision PROVE FALSE OBVIOUS
      <4>1. PICK t \in Threads : ref'[u] = ref[t] /\ pc[t] \in OwnerPoints BY <1>10, <3>1
      <4> QED BY <3>1, <4>1 DEF OwnInv, OwnedNotQueued
    <3> QED BY <3>2, <3>3
  <2> QED BY <1>12, <2>1, <2>2, <2>3
<1>21. ASSUME NEW i \in DOMAIN queue
       PROVE  table'[queue[i]] # NoSlot /\ heap'[table'[queue[i]]].decision = "none"
  <2> DEFINE s == table[queue[i]]
  <2>1. /\ table'[queue[i]] = s /\ s # NoSlot /\ s \in Allocated /\ heap[s].attempt = queue[i]
        /\ heap[s].decision = "none"
    BY <1>2, <1>7, <1>8 DEF OwnInv, QueuedUndecided
  <2> HIDE DEF s
  <2>2. heap'[s].decision = heap[s].decision
    <3> SUFFICES ASSUME heap'[s].decision # heap[s].decision PROVE FALSE OBVIOUS
    <3>1. PICK t \in Threads : s = ref[t] /\ pc[t] \in OwnerPoints BY <1>10, <2>1
    <3> QED BY <2>1, <3>1 DEF OwnInv, OwnedNotQueued
  <2> QED BY <2>1, <2>2
<1>22. QueuedUndecided'
  <2> SUFFICES ASSUME NEW i \in DOMAIN queue'
               PROVE  table'[queue'[i]] # NoSlot /\ heap'[table'[queue'[i]]].decision = "none"
    BY DEF QueuedUndecided
  <2>1. CASE queue' = queue BY <1>21, <2>1
  <2>2. CASE queue' = <<>> BY <2>2
  <2>3. CASE queue # <<>> /\ queue' = Tail(queue)
    <3>1. i + 1 \in DOMAIN queue /\ queue'[i] = queue[i + 1] BY <1>8, <2>3
    <3> QED BY <1>21, <3>1
  <2>4. ASSUME NEW c \in Clients, Enqueue(c), pc[c] = "enqueue", runState = "running",
               queue' = Append(queue, heap[ref[c]].attempt)
        PROVE  table'[queue'[i]] # NoSlot /\ heap'[table'[queue'[i]]].decision = "none"
    <3>1. heap' = heap BY <2>4 DEF Enqueue
    <3>2. /\ table'[heap[ref[c]].attempt] # NoSlot
          /\ heap'[table'[heap[ref[c]].attempt]].decision = "none"
      BY <1>2, <1>3, <1>17, <2>4, <3>1 DEF OwnInv, OwnedUndecided
    <3>3. (i \in DOMAIN queue /\ queue'[i] = queue[i]) \/ queue'[i] = heap[ref[c]].attempt
      BY <1>8, <1>17, <2>4
    <3> QED BY <1>21, <3>2, <3>3
  <2> QED BY <2>1, <2>2, <2>3, <2>4, QueueStep
<1>23. PreparedDecided'
  <2> SUFFICES ASSUME NEW p \in prepared'
               PROVE  table'[p.attempt] # NoSlot /\ heap'[table'[p.attempt]].decision = p.decision
    BY DEF PreparedDecided
  <2>1. CASE p \in prepared
    <3>1. table'[p.attempt] = table[p.attempt] /\ table[p.attempt] # NoSlot
      BY <1>2, <1>3, <1>9, <2>1
    <3> QED BY <1>9, <1>11, <2>1, <3>1
  <2>2. CASE p \notin prepared
    <3>1. PICK c \in Clients : /\ pc[c] = "compute" /\ p.attempt = heap[ref[c]].attempt
                               /\ heap'[ref[c]].decision = p.decision
      BY <2>2, PreparedStep
    <3>2. ref[c] \in Allocated /\ table[p.attempt] = ref[c] BY <1>5, <3>1 DEF Free, Threads
    <3> QED BY <1>2, <1>3, <3>1, <3>2
  <2> QED BY <2>1, <2>2
<1>24. PlacedCommits'
  <2> SUFFICES ASSUME NEW u \in Threads, pc'[u] \in CommitPoints \cup {"commit"}
               PROVE  /\ heap'[ref'[u]].decision = "placed"
                      /\ pc'[u] \in CommitPoints => heap'[ref'[u]].commit_boundary_crossed
    BY DEF PlacedCommits
  <2>1. ASSUME NEW s \in Allocated
        PROVE  /\ heap[s].decision = "placed" => heap'[s].decision = "placed"
               /\ heap[s].commit_boundary_crossed => heap'[s].commit_boundary_crossed
    BY <1>1, <1>11 DEF HeapStep, SlotStep
  <2>2. CASE /\ pc[u] \in CommitPoints \cup {"commit"} /\ ref'[u] = ref[u]
             /\ pc'[u] \in CommitPoints => pc[u] \in CommitPoints
    <3>1. ref[u] \in Allocated BY <1>4, <1>5, <2>2
    <3> QED BY <2>1, <2>2, <3>1 DEF OwnInv, PlacedCommits
  <2>3. CASE Moved(u)
    <3>1. Comes(u) \/ (GoesOn(u) /\ pc[u] \notin Free /\ ref'[u] = ref[u]) BY <1>4, <2>3, Arrival
    <3>2. CASE Comes(u)
      <4>1. PICK p \in prepared : /\ Commit(u, p) /\ ref'[u] = table[p.attempt] /\ pc'[u] = "commit"
                                  /\ p.decision = "placed" /\ heap' = heap
        BY <3>2 DEF Comes, CommitPoints, OwnerPoints
      <4> QED BY <1>9, <4>1 DEF CommitPoints
    <3>3. CASE GoesOn(u) /\ pc[u] \notin Free /\ ref'[u] = ref[u]
      <4>1. ref[u] \in Allocated BY <1>5, <3>3
      <4>2. CASE WorkerDecide(u, "placed") /\ pc'[u] = "commit" /\ ~heap[ref[u]].terminal
        <5>1. heap'[ref[u]].decision = "placed"
          BY <1>3, <4>1, <4>2 DEF WorkerDecide, IInv, TypeOK, Slot
        <5> QED BY <3>3, <4>2, <5>1 DEF CommitPoints
      <4>3. CASE CommitSlot(u) /\ BoundaryCode(ref[u]) = "ok" /\ pc'[u] = "intent"
        <5>1. heap'[ref[u]].commit_boundary_crossed
          BY <1>3, <4>1, <4>3 DEF CommitSlot, IInv, TypeOK, Slot
        <5>2. heap[ref[u]].decision = "placed" BY <4>3 DEF CommitSlot, OwnInv, PlacedCommits
        <5> QED BY <2>1, <3>3, <4>1, <5>1, <5>2
      <4>4. CASE /\ ReadIntent(u) \/ CommitRecord(u) \/ JournalCommit(u)
        <5>1. pc[u] \in CommitPoints BY <4>4 DEF ReadIntent, CommitRecord, JournalCommit, CommitPoints
        <5> QED BY <2>2, <3>3, <5>1
      <4> QED BY <3>3, <4>2, <4>3, <4>4 DEF GoesOn, CommitPoints, OwnerPoints
    <3> QED BY <3>1, <3>2, <3>3
  <2> QED BY <1>6, <2>2, <2>3
<1>25. CrossedPlaced'
  <2> SUFFICES ASSUME NEW s \in Allocated', heap'[s].commit_boundary_crossed
               PROVE  heap'[s].decision = "placed"
    BY DEF CrossedPlaced
  <2>1. s \in Allocated
    <3>1. ASSUME NEW a, NEW g, heap'[s] = NewSlot(a, epoch, g) PROVE FALSE BY <3>1 DEF NewSlot
    <3> QED BY <3>1, SlotCreated
  <2>2. heap[s].decision = "placed"
    <3>1. CASE heap[s].commit_boundary_crossed BY <2>1, <3>1 DEF OwnInv, CrossedPlaced
    <3>2. CASE ~heap[s].commit_boundary_crossed
      BY <2>1, <3>2, CrossStep DEF OwnInv, PlacedCommits
    <3> QED BY <3>1, <3>2
  <2> QED BY <1>11, <2>1, <2>2
<1> QED
  BY <1>1, <1>2, <1>15, <1>16, <1>18, <1>19, <1>20, <1>22, <1>23, <1>24, <1>25 DEF OwnInv

LEMMA OwnNext == ASSUME NothingReaped, IInv, OwnInv, [Next]_vars PROVE OwnInv'
BY OwnRestart, OwnStep

LEMMA OwnInit == Init => OwnInv
<1> SUFFICES ASSUME Init PROVE OwnInv OBVIOUS
<1>1. \A t \in Threads : pc[t] \in {"loop", "idle"} BY DEF Init, FreshThreads
<1>2. {"loop", "idle"} \cap (OwnerPoints \cup CommitPoints \cup {"commit"}) = {}
  BY DEF OwnerPoints, CommitPoints
<1>3. Current /\ OneOwner /\ OwnedNotQueued /\ OwnedUndecided /\ PlacedCommits
  BY <1>1, <1>2 DEF Current, OneOwner, OwnedNotQueued, OwnedUndecided, PlacedCommits, Free
<1>4. QueuedOnce /\ QueuedUndecided /\ PreparedDecided /\ TableAttempt /\ OrderOK
  BY DEF Init, QueuedOnce, QueuedUndecided, PreparedDecided, TableAttempt, OrderOK
<1>5. CrossedPlaced BY DEF Init, CrossedPlaced, Allocated
<1> QED BY <1>3, <1>4, <1>5 DEF OwnInv

-----------------------------------------------------------------------------
(* Outcomes and the ledger.                                                *)

\* Somebody is committing the slot s.
InCommit(s) == \E t \in Threads : pc[t] \in CommitPoints /\ ref[t] = s

OutcomeTerminal == \A s \in Allocated : heap[s].state \in TerminalStates => heap[s].terminal
\* A cancellation and a rejection exclude the boundary, a record needs it.
CancelUncrossed ==
    \A s \in Allocated : heap[s].cancel_requested => ~heap[s].commit_boundary_crossed
RejectUncrossed ==
    \A s \in Allocated : heap[s].state = "rejected" => ~heap[s].commit_boundary_crossed
DurableCrossed ==
    \A i \in DOMAIN placements :
        placements[i].slot \in Allocated /\ heap[placements[i].slot].commit_boundary_crossed

\* Why a thread may report a failure: the slot has a decision or an outcome that
\* keeps every other thread from committing it, or the store takes no more writes.
FailureReason ==
    \A t \in Threads : pc[t] \in {"fail", "journal"} =>
        /\ note[t] \in {"rejected", "cancelled", "fenced", "failed"}
        /\ note[t] = "rejected" => heap[ref[t]].decision = "declined"
        /\ note[t] = "cancelled" => ~InCommit(ref[t])
        /\ pc[t] = "fail" /\ note[t] = "cancelled" =>
              heap[ref[t]].cancel_requested \/ runState # "running"
        /\ note[t] = "failed" /\ refusals = 0 =>
              closed \/ (heap[ref[t]].terminal /\ ~InCommit(ref[t]))
        /\ pc[t] = "journal" => heap[ref[t]].terminal

\* Without a failed write, whoever crosses the boundary is the first to write a
\* record for the slot, and the slot then has its outcome or is about to get it.
FirstRecord ==
    \A t \in Threads :
        pc[t] \in {"intent", "record"} /\ refusals = 0 => ~DurableBy(ref[t])
RecordReported ==
    \A s \in Allocated :
        refusals = 0 /\ DurableBy(s) /\ table[heap[s].attempt] = s =>
            heap[s].terminal \/ InCommit(s)

\* A cancelled slot has no record and gets none.
CancelNoRecord ==
    /\ \A s \in Allocated : refusals = 0 /\ heap[s].state = "cancelled" => ~DurableBy(s)
    /\ \A t \in Threads :
          refusals = 0 /\ pc[t] = "fail" /\ note[t] = "cancelled" => ~DurableBy(ref[t])
CancelNoCommit == \A s \in Allocated : heap[s].state = "cancelled" => ~InCommit(s)
ClosedStore == closed => HasStore

OutcomeInv ==
    /\ OutcomeTerminal /\ CancelUncrossed /\ RejectUncrossed /\ DurableCrossed /\ FailureReason
    /\ FirstRecord /\ RecordReported /\ CancelNoRecord /\ CancelNoCommit
    /\ ClosedStore

-----------------------------------------------------------------------------
(* What a step does to outcomes, to the ledger and to whoever is committing. *)

LEMMA BoundaryReasons ==
    ASSUME IInv, NEW s \in Allocated
    PROVE  /\ BoundaryCode(s) = "ok" =>
                 ~heap[s].terminal /\ ~heap[s].cancel_requested /\ runState = "running"
           /\ StateForFailure(BoundaryCode(s)) \in {"cancelled", "fenced", "failed"}
           /\ StateForFailure(BoundaryCode(s)) = "cancelled" =>
                 /\ ~heap[s].terminal
                 /\ heap[s].cancel_requested \/ runState # "running"
           /\ BoundaryCode(s) # "ok" /\ StateForFailure(BoundaryCode(s)) = "failed" =>
                 heap[s].terminal
<1>1. heap[s].terminal \in BOOLEAN /\ heap[s].cancel_requested \in BOOLEAN BY DEF IInv, TypeOK, Slot
<1>2. CASE heap[s].terminal
  <2>1. BoundaryCode(s) = "terminal" BY <1>2 DEF BoundaryCode
  <2> QED BY <1>2, <2>1 DEF StateForFailure
<1>3. CASE ~heap[s].terminal /\ heap[s].cancel_requested
  <2>1. BoundaryCode(s) = "cancelled" BY <1>3 DEF BoundaryCode
  <2> QED BY <1>3, <2>1 DEF StateForFailure
<1>4. CASE ~heap[s].terminal /\ ~heap[s].cancel_requested /\ runState # "running"
  <2>1. BoundaryCode(s) = "shutting_down" BY <1>4 DEF BoundaryCode
  <2> QED BY <1>4, <2>1 DEF StateForFailure
<1>5. CASE ~heap[s].terminal /\ ~heap[s].cancel_requested /\ runState = "running"
  <2>1. BoundaryCode(s) \in {"stale_epoch", "stale_authority", "ok"} BY <1>5 DEF BoundaryCode
  <2>2. StateForFailure("stale_epoch") = "fenced" /\ StateForFailure("stale_authority") = "fenced"
    BY DEF StateForFailure
  <2>3. StateForFailure("ok") = "failed" BY DEF StateForFailure
  <2> QED BY <1>5, <2>1, <2>2, <2>3
<1> QED BY <1>1, <1>2, <1>3, <1>4, <1>5

\* How a slot comes to be rejected, cancelled, and asked to cancel.
LEMMA OutcomeStep ==
    ASSUME IInv, [Next]_vars, NEW s \in Allocated
    PROVE  /\ heap'[s].state \in TerminalStates => heap'[s].terminal \/ heap'[s].state = heap[s].state
           /\ heap[s].cancel_requested => heap'[s].cancel_requested
           /\ heap'[s].cancel_requested /\ ~heap[s].cancel_requested =>
                 /\ heap'[s].commit_boundary_crossed = heap[s].commit_boundary_crossed
                 /\ ~heap[s].commit_boundary_crossed \/ \E i \in DOMAIN queue : table[queue[i]] = s
           /\ heap'[s].state = "rejected" /\ heap[s].state # "rejected" =>
                 /\ heap'[s].commit_boundary_crossed = heap[s].commit_boundary_crossed
                 /\ \/ \E t \in Threads : pc[t] \in OwnerPoints /\ ref[t] = s
                    \/ \E p \in prepared : s = table[p.attempt] /\ p.decision = "declined"
                    \/ \E t \in Threads : pc[t] = "fail" /\ ref[t] = s /\ note[t] = "rejected"
           /\ heap'[s].state = "cancelled" /\ heap[s].state # "cancelled" =>
                 /\ heap'[s].commit_boundary_crossed = heap[s].commit_boundary_crossed
                 /\ \/ \E t \in Threads : pc[t] \in OwnerPoints /\ ref[t] = s
                    \/ heap'[s].cancel_requested
                    \/ \E t \in Threads : pc[t] = "fail" /\ ref[t] = s /\ note[t] = "cancelled"
<1> DEFINE Same == heap'[s].commit_boundary_crossed = heap[s].commit_boundary_crossed
           Owned == \E t \in Threads : pc[t] \in OwnerPoints /\ ref[t] = s
           Refused == \E p \in prepared : s = table[p.attempt] /\ p.decision = "declined"
           Failed(state) == \E t \in Threads : pc[t] = "fail" /\ ref[t] = s /\ note[t] = state
           Goal ==
             /\ heap'[s].state \in TerminalStates => heap'[s].terminal \/ heap'[s].state = heap[s].state
             /\ heap[s].cancel_requested => heap'[s].cancel_requested
             /\ heap'[s].cancel_requested /\ ~heap[s].cancel_requested =>
                   /\ Same
                   /\ ~heap[s].commit_boundary_crossed \/ \E i \in DOMAIN queue : table[queue[i]] = s
             /\ heap'[s].state = "rejected" /\ heap[s].state # "rejected" =>
                   Same /\ (Owned \/ Refused \/ Failed("rejected"))
             /\ heap'[s].state = "cancelled" /\ heap[s].state # "cancelled" =>
                   Same /\ (Owned \/ heap'[s].cancel_requested \/ Failed("cancelled"))
<1>1. heap[s] \in Slot BY DEF IInv, TypeOK
<1>2. ASSUME heap'[s] = heap[s] PROVE Goal BY <1>2
<1>3. ASSUME NEW c \in Clients, ClientTouches(s, c) PROVE Goal
  <2>1. ASSUME s = ref[c], NEW k \in Kinds, JournalStart(c, k), Ended(s, "rejected") PROVE Goal
    <3>1. Owned BY <2>1 DEF JournalStart, StartPoint, OwnerPoints, Threads
    <3> HIDE DEF Owned
    <3> QED BY <1>1, <2>1, <3>1 DEF Ended, Slot, TerminalStates
  <2>2. CASE s = ref[c] /\ Enqueue(c) /\ Ended(s, "cancelled")
    <3>1. Owned BY <2>2 DEF Enqueue, OwnerPoints, Threads
    <3> HIDE DEF Owned
    <3> QED BY <1>1, <2>2, <3>1 DEF Ended, Slot, TerminalStates
  <2>3. CASE Ended(s, "failed") BY <1>1, <2>3 DEF Ended, Slot
  <2>4. CASE \/ heap'[s] = [heap[s] EXCEPT !.journalled_start = TRUE, !.pending_terminal = FALSE]
             \/ heap'[s] = [heap[s] EXCEPT !.running = TRUE, !.state = "running"]
             \/ \E d \in Decisions : heap'[s] = [heap[s] EXCEPT !.decision = d]
    BY <1>1, <2>4 DEF Slot, TerminalStates
  <2>5. CASE /\ \E p \in prepared : Commit(c, p) /\ s = table[p.attempt] /\ p.decision = "declined"
             /\ heap'[s] = [heap[s] EXCEPT !.state = "rejected", !.terminal = TRUE,
                                           !.decision = "declined"]
    <3>1. Refused BY <2>5
    <3> HIDE DEF Refused
    <3> QED BY <1>1, <2>5, <3>1 DEF Slot
  <2>6. ASSUME NEW a \in Attempts, Cancel(c, a), s = table[a],
               heap'[s] = [heap[s] EXCEPT !.cancel_requested = TRUE] \/ CancelledSlot(s)
        PROVE  Goal
    <3>1. ~heap[s].commit_boundary_crossed BY <2>6 DEF Cancel, BoundaryCrossed
    <3> QED BY <1>1, <2>6, <3>1 DEF CancelledSlot, Slot
  <2>7. ASSUME NEW k \in BOOLEAN, s \in ShutdownSweep(k), CancelledSlot(s) PROVE Goal
    <3>1. ~heap[s].commit_boundary_crossed \/ \E i \in DOMAIN queue : table[queue[i]] = s
      BY <2>7 DEF ShutdownSweep, BoundaryCrossed
    <3> QED BY <1>1, <2>7, <3>1 DEF CancelledSlot, Slot
  <2> HIDE DEF Goal
  <2> QED BY <1>3, <2>1, <2>2, <2>3, <2>4, <2>5, <2>6, <2>7 DEF ClientTouches
<1>4. ASSUME NEW w \in Workers, WorkerTouches(s, w) PROVE Goal
  BY <1>1, <1>4 DEF WorkerTouches, Slot, TerminalStates
<1>5. ASSUME NEW t \in Threads, CommitTouches(s, t) PROVE Goal
  <2>1. CASE Fail(t) /\ s = ref[t] /\ Ended(s, note[t])
    <3>1. Failed(note[t]) BY <2>1 DEF Fail
    <3> HIDE DEF Failed
    <3> QED BY <1>1, <2>1, <3>1 DEF Ended, Slot
  <2>2. CASE Ended(s, "committed") BY <1>1, <2>2 DEF Ended, Slot
  <2>3. CASE heap'[s] = [heap[s] EXCEPT !.commit_boundary_crossed = TRUE] BY <1>1, <2>3 DEF Slot
  <2>4. CASE heap'[s] = [heap[s] EXCEPT !.placement_id =
                            IF HasStore THEN PlacementOf(heap[s].attempt) ELSE Len(placements)]
    BY <1>1, <2>4 DEF Slot
  <2> HIDE DEF Goal
  <2> QED BY <1>5, <2>1, <2>2, <2>3, <2>4 DEF CommitTouches
<1> HIDE DEF Goal
<1>6. Goal BY <1>2, <1>3, <1>4, <1>5, SlotTouched
<1> QED BY <1>6 DEF Goal

\* A record is written for the slot of the thread at "record".
LEMMA DurableStep ==
    ASSUME IInv, [Next]_vars, NEW s, DurableBy(s)'
    PROVE  \/ DurableBy(s)
           \/ \E t \in Threads : CommitRecord(t) /\ pc[t] = "record" /\ ref[t] = s
<1>1. CASE placements' = placements BY <1>1 DEF DurableBy
<1>2. CASE placements' # placements
  <2>1. PICK t \in Threads : CommitRecord(t) /\ placements' = Append(placements, RecordOf(ref[t]))
    BY <1>2, LedgerGrows
  <2>2. ref[t] \in Allocated /\ pc[t] = "record"
    BY <2>1 DEF CommitRecord, IInv, RefOK, Free
  <2>3. /\ placements \in PlacementSeq
        /\ RecordOf(ref[t]) \in [attempt : Attempts, epoch : Nat, slot : Slots]
        /\ RecordOf(ref[t]).slot = ref[t]
    BY <2>2, AllocatedSlots DEF RecordOf, IInv, TypeOK, Slot, PlacementSeq
  <2>4. PICK i \in DOMAIN placements' : placements'[i].slot = s BY DEF DurableBy
  <2>5. (i \in DOMAIN placements /\ placements'[i] = placements[i]) \/ placements'[i] = RecordOf(ref[t])
    BY <2>1, <2>3, <2>4 DEF PlacementSeq
  <2> QED BY <2>1, <2>2, <2>3, <2>4, <2>5 DEF DurableBy
<1> QED BY <1>1, <1>2

LEMMA DurableStays ==
    ASSUME IInv, [Next]_vars
    PROVE  /\ \A s : DurableBy(s) => DurableBy(s)'
           /\ \A a : DurableFor(a) => DurableFor(a)'
BY RecordsStay DEF DurableBy, DurableFor

\* A thread comes to commit a slot by crossing its boundary, and leaves with an
\* outcome or with an error of the store.
LEMMA CommitEntered ==
    ASSUME IInv, [Next]_vars, ~\E e \in Epochs : Restart(e), NEW u \in Threads,
           pc'[u] \in CommitPoints, ~(pc[u] \in CommitPoints /\ ref'[u] = ref[u])
    PROVE  CommitSlot(u) /\ BoundaryCode(ref[u]) = "ok" /\ ref'[u] = ref[u] /\ pc'[u] = "intent"
<1>1. Moved(u) BY DEF Moved
<1>2. pc'[u] \notin Free BY DEF CommitPoints, Free
<1>3. ~Comes(u) BY DEF Comes, CommitPoints, OwnerPoints
<1>4. GoesOn(u) /\ ref'[u] = ref[u] BY <1>1, <1>2, <1>3, Arrival
<1>5. ~(ReadIntent(u) \/ CommitRecord(u) \/ JournalCommit(u))
  BY <1>4 DEF ReadIntent, CommitRecord, JournalCommit, CommitPoints
<1> QED BY <1>4, <1>5 DEF GoesOn, CommitPoints, OwnerPoints

LEMMA CommitLeft ==
    ASSUME IInv, [Next]_vars, ~\E e \in Epochs : Restart(e), NEW u \in Threads,
           pc[u] \in CommitPoints, ~(pc'[u] \in CommitPoints /\ ref'[u] = ref[u])
    PROVE  \/ heap'[ref[u]].terminal
           \/ pc[u] \in {"intent", "record"}
<1>1. Moved(u) BY DEF Moved
<1>2. pc[u] \notin {"idle", "loop", "finish"} BY DEF CommitPoints
<1>3. ref[u] \in Allocated BY DEF IInv, RefOK, CommitPoints, Free
<1>4. ASSUME u \in Clients, ClientCall(u) PROVE FALSE
  BY <1>2, <1>4 DEF ClientCall, RegisterAttempt, Commit, Cancel, AwaitCall, AdvanceEpoch,
     SetAuthority, DrainCall, Shutdown, ShutdownSecond
<1>5. ASSUME u \in Clients, ClientStep(u) PROVE FALSE
  BY <1>5 DEF ClientStep, JournalStart, MarkStart, JournalPending, Enqueue, PrepareRun,
     PrepareDecide, Await, Drain, ShutdownWait, ShutdownJournal, ShutdownJoin, ShutdownClose,
     StartPoint, MarkPoint, PendingPoint, CommitPoints
<1>6. ASSUME u \in Workers, WorkerStep(u) PROVE FALSE
  BY <1>2, <1>6 DEF WorkerStep, WorkerSleep, WorkerExit, WorkerTake, WorkerFinish, WorkerDecide,
     CommitPoints
<1>7. CommitStep(u) BY <1>1, <1>4, <1>5, <1>6, ThreadMoved DEF Moves
<1>8. ASSUME JournalCommit(u) PROVE FALSE
  BY <1>8 DEF JournalCommit, Goto, CommitPoints, IInv, TypeOK
<1>9. ASSUME FinalizeCommit(u) PROVE heap'[ref[u]].terminal
  BY <1>3, <1>9 DEF FinalizeCommit, FinalizeLocked, Finalized, IInv, TypeOK, Slot
<1> QED
  BY <1>7, <1>8, <1>9 DEF CommitStep, CommitSlot, ReadIntent, CommitRecord, Fail, Journal,
     CommitPoints

\* Errors are counted, a closed store stays closed, a shutdown is not revoked.
LEMMA OnlyForward ==
    ASSUME IInv, ClosedStore, [Next]_vars, ~\E e \in Epochs : Restart(e)
    PROVE  /\ refusals' = 0 => refusals = 0
           /\ closed => closed'
           /\ runState # "running" => runState' # "running"
           /\ ClosedStore'
<1> DEFINE Goal == /\ refusals' = 0 => refusals = 0
                   /\ closed => closed'
                   /\ runState # "running" => runState' # "running"
                   /\ ClosedStore'
<1>1. refusals \in Nat /\ closed \in BOOLEAN /\ HasStore \in BOOLEAN
  BY NumberAssumption DEF IInv, TypeOK
<1>2. ASSUME UNCHANGED refusals \/ Refuse PROVE refusals' = 0 => refusals = 0
  BY <1>1, <1>2 DEF Refuse
<1>3. ASSUME UNCHANGED <<runState, closed>>, UNCHANGED refusals \/ Refuse PROVE Goal
  BY <1>2, <1>3 DEF ClosedStore
<1>4. ASSUME NEW s, NEW phase, JournalTerminal(s, phase)
      PROVE  UNCHANGED closed /\ (UNCHANGED refusals \/ Refuse)
  BY <1>4 DEF JournalTerminal
<1>5. ASSUME UNCHANGED <<closed, refusals>>, runState' # "running" PROVE Goal
  BY <1>5 DEF ClosedStore
<1>6. ASSUME NEW c \in Clients, ClientCall(c) PROVE Goal
  <2> HIDE DEF Goal
  <2> QED
    BY <1>3, <1>5, <1>6 DEF ClientCall, RegisterAttempt, Commit, Cancel, AwaitCall, AdvanceEpoch,
       SetAuthority, DrainCall, Shutdown, ShutdownSecond
<1>7. ASSUME NEW c \in Clients, ClientStep(c) PROVE Goal
  <2>1. CASE ShutdownClose(c) BY <1>1, <2>1 DEF ShutdownClose, ClosedStore
  <2>2. CASE ShutdownJoin(c) BY <1>5, <2>2 DEF ShutdownJoin
  <2>3. CASE ShutdownJournal(c)
    <3>1. UNCHANGED <<runState, closed>> /\ (UNCHANGED refusals \/ Refuse)
      BY <1>4, <2>3 DEF ShutdownJournal
    <3> HIDE DEF Goal
    <3> QED BY <1>3, <3>1
  <2>4. ASSUME NEW k \in Kinds, JournalStart(c, k) \/ JournalPending(c, k) PROVE Goal
    <3>1. UNCHANGED <<runState, closed>> /\ (UNCHANGED refusals \/ Refuse)
      BY <1>4, <2>4 DEF JournalStart, JournalPending
    <3> HIDE DEF Goal
    <3> QED BY <1>3, <3>1
  <2> HIDE DEF Goal
  <2> QED
    BY <1>3, <1>7, <2>1, <2>2, <2>3, <2>4 DEF ClientStep, MarkStart, Enqueue, PrepareRun,
       PrepareDecide, Await, Drain, ShutdownWait
<1>8. ASSUME NEW w \in Workers, WorkerStep(w) PROVE Goal
  <2> HIDE DEF Goal
  <2> QED
    BY <1>3, <1>8 DEF WorkerStep, WorkerSleep, WorkerExit, WorkerTake, WorkerFinish, WorkerDecide
<1>9. ASSUME NEW t \in Threads, CommitStep(t) PROVE Goal
  <2>1. UNCHANGED <<runState, closed>> /\ (UNCHANGED refusals \/ Refuse)
    BY <1>4, <1>9 DEF CommitStep, CommitSlot, ReadIntent, CommitRecord, JournalCommit,
       FinalizeCommit, Fail, Journal
  <2> HIDE DEF Goal
  <2> QED BY <1>3, <2>1
<1>10. ASSUME UNCHANGED vars PROVE Goal BY <1>3, <1>10 DEF vars
<1> HIDE DEF Goal
<1>11. Goal BY <1>6, <1>7, <1>8, <1>9, <1>10 DEF Next
<1> QED BY <1>11 DEF Goal

-----------------------------------------------------------------------------
(* The outcomes agree with the ledger.                                     *)

LEMMA OutcomeRestart == ASSUME IInv, OutcomeInv, NEW e \in Epochs, Restart(e) PROVE OutcomeInv'
<1>1. \A t \in Threads : pc'[t] \in {"loop", "idle"} BY DEF Restart, FreshThreads
<1>2. /\ heap' = heap /\ Allocated' = Allocated /\ placements' = placements /\ refusals' = refusals
      /\ \A s : DurableBy(s)' = DurableBy(s)
  BY DEF Restart, Allocated, DurableBy
<1>3. \A s : ~InCommit(s)' BY <1>1 DEF InCommit, CommitPoints
<1>4. OutcomeTerminal' /\ CancelUncrossed' /\ RejectUncrossed' /\ DurableCrossed'
  BY <1>2 DEF OutcomeInv, OutcomeTerminal, CancelUncrossed, RejectUncrossed, DurableCrossed
<1>5. FailureReason' /\ FirstRecord' BY <1>1 DEF FailureReason, FirstRecord
<1>6. RecordReported'
  <2>1. \A s \in Allocated : table'[heap[s].attempt] = NoSlot /\ s # NoSlot
    <3>1. \A s \in Allocated : heap[s].attempt \in Attempts BY DEF IInv, TypeOK, Slot
    <3> QED BY <3>1 DEF Restart, Allocated, NoSlot
  <2> QED BY <1>2, <2>1 DEF RecordReported
<1>7. CancelNoRecord' /\ CancelNoCommit'
  BY <1>1, <1>2, <1>3 DEF OutcomeInv, CancelNoRecord, CancelNoCommit
<1>8. ClosedStore' BY DEF Restart, ClosedStore
<1> QED BY <1>4, <1>5, <1>6, <1>7, <1>8 DEF OutcomeInv

\* A decision is taken once.
LEMMA DecisionKept ==
    ASSUME IInv, OwnInv, [Next]_vars, NEW s \in Allocated, heap[s].decision # "none"
    PROVE  heap'[s].decision = heap[s].decision
<1> SUFFICES ASSUME heap'[s].decision # heap[s].decision PROVE FALSE OBVIOUS
<1>1. ASSUME NEW t \in Threads, s = ref[t], pc[t] = "compute" PROVE FALSE
  BY <1>1 DEF OwnInv, OwnedUndecided, OwnerPoints
<1>2. ASSUME NEW p \in prepared, s = table[p.attempt], p.decision = "declined",
             heap'[s].decision = "declined"
      PROVE  FALSE
  BY <1>2 DEF OwnInv, PreparedDecided
<1> QED BY <1>1, <1>2, DecisionStep

LEMMA OutcomeKept ==
    ASSUME NothingReaped, IInv, OwnInv, OutcomeInv, [Next]_vars, ~\E e \in Epochs : Restart(e)
    PROVE  OutcomeInv'
<1>1. HeapStep /\ IInv' /\ OwnInv' /\ Allocated \subseteq Allocated'
  BY NextInv, OwnNext, AllocatedGrows DEF IInv
<1>2. /\ \A s \in Allocated :
            /\ heap[s] \in Slot /\ heap'[s].attempt = heap[s].attempt
            /\ heap[s].commit_boundary_crossed => heap'[s].commit_boundary_crossed
            /\ heap[s].terminal => heap'[s].terminal /\ heap'[s].state = heap[s].state
      /\ NoSlot \notin Allocated /\ nextSlot \notin Allocated
  <2>1. nextSlot \in Nat BY DEF IInv, TypeOK
  <2>2. NoSlot \notin Allocated /\ nextSlot \notin Allocated BY <2>1 DEF Allocated, NoSlot
  <2> QED BY <1>1, <2>2 DEF HeapStep, SlotStep, IInv, TypeOK
<1>3. /\ refusals' = 0 => refusals = 0
      /\ closed => closed'
      /\ runState # "running" => runState' # "running"
      /\ ClosedStore'
  BY OnlyForward DEF OutcomeInv
<1>4. ASSUME NEW s \in Allocated' \ Allocated
      PROVE  /\ ~heap'[s].cancel_requested /\ heap'[s].state = "queued"
             /\ ~heap'[s].commit_boundary_crossed
  <2>1. ASSUME NEW a, NEW g, heap'[s] = NewSlot(a, epoch, g)
        PROVE  /\ ~heap'[s].cancel_requested /\ heap'[s].state = "queued"
               /\ ~heap'[s].commit_boundary_crossed
    BY <2>1 DEF NewSlot
  <2> QED BY <2>1, SlotCreated
<1>5. ASSUME NEW t \in Threads, pc[t] \notin Free
      PROVE  ref[t] \in Allocated /\ table[heap[ref[t]].attempt] = ref[t]
  BY <1>5 DEF IInv, RefOK, OwnInv, Current
<1>6. /\ OwnerPoints \cap Free = {} /\ CommitPoints \cap Free = {}
      /\ {"commit", "fail", "journal", "intent", "record"} \cap Free = {}
      /\ {"intent", "record", "journal_commit", "finalize"} = CommitPoints
      /\ {"fail", "journal"} \cap (CommitPoints \cup OwnerPoints) = {}
  BY DEF OwnerPoints, CommitPoints, Free
<1>7. ASSUME NEW t \in Threads, ~Moved(t)
      PROVE  pc'[t] = pc[t] /\ ref'[t] = ref[t] /\ note'[t] = note[t]
  BY <1>7 DEF Moved
\* Undecided and declined slots have not crossed the boundary.
<1>8. ASSUME NEW s \in Allocated,
             \/ \E t \in Threads : pc[t] \in OwnerPoints /\ ref[t] = s
             \/ \E i \in DOMAIN queue : table[queue[i]] = s
             \/ heap[s].decision # "placed"
      PROVE  ~heap[s].commit_boundary_crossed
  <2>1. heap[s].decision # "placed"
    BY <1>8 DEF OwnInv, OwnedUndecided, QueuedUndecided
  <2> QED BY <2>1 DEF OwnInv, CrossedPlaced
<1>9. ASSUME NEW s \in Allocated, InCommit(s)
      PROVE  heap[s].commit_boundary_crossed /\ heap[s].decision = "placed"
  BY <1>9 DEF InCommit, OwnInv, PlacedCommits
<1>10. OutcomeTerminal'
  <2> SUFFICES ASSUME NEW s \in Allocated', heap'[s].state \in TerminalStates PROVE heap'[s].terminal
    BY DEF OutcomeTerminal
  <2>1. s \in Allocated BY <1>4 DEF TerminalStates
  <2> QED BY <1>2, <2>1, OutcomeStep DEF OutcomeInv, OutcomeTerminal
<1>11. CancelUncrossed'
  <2> SUFFICES ASSUME NEW s \in Allocated', heap'[s].cancel_requested, heap'[s].commit_boundary_crossed
               PROVE  FALSE
    BY DEF CancelUncrossed
  <2>1. s \in Allocated BY <1>4
  <2>2. CASE heap[s].cancel_requested
    <3>1. ~heap[s].commit_boundary_crossed BY <2>1, <2>2 DEF OutcomeInv, CancelUncrossed
    <3> QED BY <2>1, <2>2, <3>1, CrossStep, BoundaryReasons
  <2>3. CASE ~heap[s].cancel_requested BY <1>8, <2>1, <2>3, OutcomeStep
  <2> QED BY <2>2, <2>3
<1>12. RejectUncrossed'
  <2> SUFFICES ASSUME NEW s \in Allocated', heap'[s].state = "rejected",
                      heap'[s].commit_boundary_crossed
               PROVE  FALSE
    BY DEF RejectUncrossed
  <2>1. s \in Allocated BY <1>4
  <2>2. CASE heap[s].state = "rejected"
    <3>1. ~heap[s].commit_boundary_crossed /\ heap[s].terminal
      BY <2>1, <2>2 DEF OutcomeInv, RejectUncrossed, OutcomeTerminal, TerminalStates
    <3> QED BY <2>1, <3>1, CrossStep, BoundaryReasons
  <2>3. CASE heap[s].state # "rejected"
    <3>1. heap[s].commit_boundary_crossed BY <2>1, <2>3, OutcomeStep
    <3>2. ASSUME NEW p \in prepared, s = table[p.attempt], p.decision = "declined" PROVE FALSE
      <4>1. heap[s].decision = "declined" BY <3>2 DEF OwnInv, PreparedDecided
      <4> QED BY <1>8, <2>1, <3>1, <4>1
    <3>3. ASSUME NEW t \in Threads, pc[t] = "fail", ref[t] = s, note[t] = "rejected" PROVE FALSE
      <4>1. heap[s].decision = "declined" BY <3>3 DEF OutcomeInv, FailureReason
      <4> QED BY <1>8, <2>1, <3>1, <4>1
    <3>4. ASSUME NEW t \in Threads, pc[t] \in OwnerPoints, ref[t] = s PROVE FALSE
      BY <1>8, <2>1, <3>1, <3>4
    <3> QED BY <2>1, <2>3, <3>2, <3>3, <3>4, OutcomeStep
  <2> QED BY <2>2, <2>3
<1>13. DurableCrossed'
  <2>1. placements \in PlacementSeq BY DEF IInv, TypeOK, PlacementSeq
  <2>2. ASSUME NEW i \in DOMAIN placements
        PROVE  placements[i].slot \in Allocated' /\ heap'[placements[i].slot].commit_boundary_crossed
    BY <1>1, <1>2 DEF OutcomeInv, DurableCrossed
  <2>3. CASE placements' = placements BY <2>2, <2>3 DEF DurableCrossed
  <2>4. CASE placements' # placements
    <3>1. PICK t \in Threads : CommitRecord(t) /\ placements' = Append(placements, RecordOf(ref[t]))
      BY <2>4, LedgerGrows
    <3>2. ref[t] \in Allocated /\ heap[ref[t]].commit_boundary_crossed
      BY <3>1 DEF CommitRecord, IInv, RefOK, FenceOK, Free
    <3>3. /\ RecordOf(ref[t]) \in [attempt : Attempts, epoch : Nat, slot : Slots]
          /\ RecordOf(ref[t]).slot = ref[t]
      BY <3>2, AllocatedSlots DEF RecordOf, IInv, TypeOK, Slot
    <3>4. \A i \in DOMAIN placements' :
              (i \in DOMAIN placements /\ placements'[i] = placements[i]) \/ placements'[i] = RecordOf(ref[t])
      BY <2>1, <3>1, <3>3 DEF PlacementSeq
    <3> QED BY <1>1, <1>2, <2>2, <3>2, <3>3, <3>4 DEF DurableCrossed
  <2> QED BY <2>3, <2>4
<1>14. \A s : DurableBy(s) => s \in Allocated /\ heap[s].commit_boundary_crossed
  BY DEF DurableBy, OutcomeInv, DurableCrossed
<1>15. \A s : DurableBy(s)' => s \in Allocated' /\ heap'[s].commit_boundary_crossed
  BY <1>13 DEF DurableBy, DurableCrossed
\* Nobody new commits a slot, unless through the boundary; nobody else is committing.
<1>16. ASSUME NEW s, InCommit(s)', ~InCommit(s)
       PROVE  \E u \in Threads : CommitSlot(u) /\ BoundaryCode(s) = "ok" /\ ref[u] = s
  <2>1. PICK u \in Threads : pc'[u] \in CommitPoints /\ ref'[u] = s BY <1>16 DEF InCommit
  <2>2. ~(pc[u] \in CommitPoints /\ ref'[u] = ref[u]) BY <1>16, <2>1 DEF InCommit
  <2> QED BY <2>1, <2>2, CommitEntered
<1>17. ASSUME commitMu = NoThread, NEW s PROVE ~InCommit(s)
  BY <1>17, ThreadAssumption DEF InCommit, IInv, LockOK, Threads
<1>18. ASSUME NEW s \in Allocated, heap[s].terminal \/ heap[s].cancel_requested \/ runState # "running",
              ~InCommit(s)
       PROVE  ~InCommit(s)'
  <2> SUFFICES ASSUME InCommit(s)' PROVE FALSE OBVIOUS
  <2>1. BoundaryCode(s) = "ok" BY <1>16, <1>18
  <2> QED BY <1>18, <2>1, BoundaryReasons
<1>19. ASSUME NEW s \in Allocated', InCommit(s)'
       PROVE  heap'[s].commit_boundary_crossed /\ ~heap'[s].cancel_requested
  <2>1. heap'[s].commit_boundary_crossed BY <1>1, <1>19 DEF InCommit, OwnInv, PlacedCommits
  <2> QED BY <1>11, <1>19, <2>1 DEF CancelUncrossed
<1>20. FailureReason'
  <2> DEFINE Reason(u) ==
        /\ note'[u] \in {"rejected", "cancelled", "fenced", "failed"}
        /\ note'[u] = "rejected" => heap'[ref'[u]].decision = "declined"
        /\ note'[u] = "cancelled" => ~InCommit(ref[u])'
        /\ pc'[u] = "fail" /\ note'[u] = "cancelled" =>
              heap'[ref'[u]].cancel_requested \/ runState' # "running"
        /\ note'[u] = "failed" /\ refusals' = 0 =>
              closed' \/ (heap'[ref'[u]].terminal /\ ~InCommit(ref[u])')
        /\ pc'[u] = "journal" => heap'[ref'[u]].terminal
  <2>1. SUFFICES ASSUME NEW u \in Threads, pc'[u] \in {"fail", "journal"} PROVE Reason(u)
    BY DEF FailureReason
  \* The reason a thread has stays a reason.
  <2>2. ASSUME pc[u] \in {"fail", "journal"}, ref'[u] = ref[u], note'[u] = note[u],
               pc'[u] = "journal" => heap'[ref[u]].terminal,
               pc'[u] = "fail" => pc[u] = "fail"
        PROVE  Reason(u)
    <3>1. ref[u] \in Allocated BY <1>5, <1>6, <2>2
    <3>2. /\ note[u] \in {"rejected", "cancelled", "fenced", "failed"}
          /\ note[u] = "rejected" => heap[ref[u]].decision = "declined"
          /\ note[u] = "cancelled" => ~InCommit(ref[u])
          /\ pc[u] = "fail" /\ note[u] = "cancelled" =>
                heap[ref[u]].cancel_requested \/ runState # "running"
          /\ note[u] = "failed" /\ refusals = 0 =>
                closed \/ (heap[ref[u]].terminal /\ ~InCommit(ref[u]))
          /\ pc[u] = "journal" => heap[ref[u]].terminal
      BY <2>2 DEF OutcomeInv, FailureReason
    <3>3. note[u] = "rejected" => heap'[ref[u]].decision = "declined" BY <3>1, <3>2, DecisionKept
    <3>4. note[u] = "cancelled" => ~InCommit(ref[u])' BY <1>18, <2>2, <3>1, <3>2
    <3>5. heap[ref[u]].cancel_requested => heap'[ref[u]].cancel_requested BY <3>1, OutcomeStep
    <3>6. note[u] = "failed" /\ refusals' = 0 =>
              closed' \/ (heap'[ref[u]].terminal /\ ~InCommit(ref[u])')
      BY <1>2, <1>3, <1>18, <2>2, <3>1, <3>2
    <3> QED BY <1>3, <2>2, <3>2, <3>3, <3>4, <3>5, <3>6
  <2>3. CASE ~Moved(u)
    <3>1. pc'[u] = pc[u] /\ ref'[u] = ref[u] /\ note'[u] = note[u] BY <1>7, <2>3
    <3>2. pc[u] = "journal" => heap'[ref[u]].terminal
      BY <1>2, <1>5, <1>6, <2>1, <3>1 DEF OutcomeInv, FailureReason
    <3> HIDE DEF Reason
    <3> QED BY <2>1, <2>2, <3>1, <3>2
  <2>4. ASSUME NEW p \in prepared, Commit(u, p), ref'[u] = table[p.attempt], pc'[u] = "journal",
               note'[u] = "rejected", p.decision = "declined"
        PROVE  Reason(u)
    <3>1. table[p.attempt] \in Allocated /\ heap[table[p.attempt]].decision = "declined"
      BY <2>4 DEF OwnInv, PreparedDecided, IInv, TableOK, TypeOK, PreparedAttempt
    <3>2. heap'[table[p.attempt]].decision = "declined" BY <3>1, DecisionKept
    <3>3. heap'[table[p.attempt]].terminal
      <4>1. heap' = [heap EXCEPT ![table[p.attempt]] =
                        [Finalized(heap[table[p.attempt]], "rejected") EXCEPT !.decision = "declined"]]
        BY <2>4 DEF Commit
      <4>2. heap \in [Allocated -> Slot] BY DEF IInv, TypeOK
      <4> QED BY <3>1, <4>1, <4>2 DEF Finalized, Slot
    <3> QED BY <2>4, <3>2, <3>3
  <2>5. ASSUME NEW a \in Attempts, Cancel(u, a), ref'[u] = table[a], pc'[u] = "journal",
               note'[u] = "cancelled", heap'[table[a]].terminal
        PROVE  Reason(u)
    <3>1. table[a] \in Allocated BY <2>5 DEF Cancel, IInv, TableOK
    <3>2. heap'[table[a]].cancel_requested
      <4>1. \/ heap' = [heap EXCEPT ![table[a]].cancel_requested = TRUE]
            \/ heap' = [heap EXCEPT ![table[a]] =
                           [Finalized(heap[table[a]], "cancelled") EXCEPT
                               !.cancel_requested = TRUE, !.pending_terminal = ~StartIsDurable(table[a])]]
        BY <2>5 DEF Cancel
      <4>2. heap \in [Allocated -> Slot] BY DEF IInv, TypeOK
      <4>3. Finalized(heap[table[a]], "cancelled") \in Slot
        BY <3>1, <4>2, FinalizedStep DEF SlotStep, AttemptState, TerminalStates
      <4>4. ASSUME NEW slot \in Slot, NEW b
            PROVE  [slot EXCEPT !.cancel_requested = TRUE, !.pending_terminal = b].cancel_requested
        BY <4>4 DEF Slot
      <4>5. CASE heap' = [heap EXCEPT ![table[a]].cancel_requested = TRUE]
        BY <3>1, <4>2, <4>5 DEF Slot
      <4>6. CASE heap' = [heap EXCEPT ![table[a]] =
                           [Finalized(heap[table[a]], "cancelled") EXCEPT
                               !.cancel_requested = TRUE, !.pending_terminal = ~StartIsDurable(table[a])]]
        BY <3>1, <4>2, <4>3, <4>4, <4>6
      <4> QED BY <4>1, <4>5, <4>6
    <3>3. ~InCommit(ref[u])' BY <1>1, <1>19, <2>5, <3>1, <3>2
    <3> QED BY <2>5, <3>3
  <2>6. ASSUME WorkerDecide(u, "declined"), pc[u] = "compute", ref'[u] = ref[u], pc'[u] = "fail",
               ~heap[ref[u]].terminal, note'[u] = "rejected"
        PROVE  Reason(u)
    <3>1. ref[u] \in Allocated BY <1>5, <2>6 DEF Free
    <3>2. heap'[ref[u]].decision = "declined"
      BY <1>2, <2>6, <3>1 DEF WorkerDecide, IInv, TypeOK, Slot
    <3> QED BY <2>6, <3>2
  <2>7. ASSUME CommitSlot(u), BoundaryCode(ref[u]) # "ok", ref'[u] = ref[u], pc'[u] = "fail",
               note'[u] = StateForFailure(BoundaryCode(ref[u]))
        PROVE  Reason(u)
    <3>1. ref[u] \in Allocated /\ heap' = heap /\ runState' = runState
      BY <1>5, <2>7 DEF CommitSlot, Free
    <3>2. ~InCommit(ref[u]) BY <1>17, <2>7 DEF CommitSlot
    <3>3. /\ note'[u] \in {"cancelled", "fenced", "failed"}
          /\ note'[u] = "cancelled" => heap[ref[u]].cancel_requested \/ runState # "running"
          /\ note'[u] = "failed" => heap[ref[u]].terminal
      BY <2>7, <3>1, BoundaryReasons
    <3>4. note'[u] \in {"cancelled", "failed"} => ~InCommit(ref[u])' BY <1>18, <2>7, <3>1, <3>2, <3>3
    <3> QED BY <2>7, <3>1, <3>3, <3>4
  <2>8. ASSUME ReadIntent(u) \/ CommitRecord(u), StatusReturned(u), ref'[u] = ref[u],
               pc'[u] = "fail", note'[u] = "failed"
        PROVE  Reason(u)
    <3>1. ~Goto(u, "record") /\ ~Goto(u, "journal_commit")
      BY <2>8 DEF Goto, IInv, TypeOK
    <3>2. CASE ReadIntent(u)
      <4>1. heap[ref[u]].decision = "placed"
        BY <3>2 DEF ReadIntent, OwnInv, PlacedCommits, CommitPoints
      <4> QED BY <3>1, <3>2, <4>1 DEF ReadIntent
    <3>3. CASE CommitRecord(u)
      <4>1. refusals' = 0 => closed' 
        BY <3>1, <3>3 DEF CommitRecord, Refuse, IInv, TypeOK
      <4> QED BY <2>8, <4>1
    <3> QED BY <2>8, <3>2, <3>3
  <2>9. ASSUME Fail(u), ref'[u] = ref[u], pc'[u] = "journal", note'[u] = note[u] PROVE Reason(u)
    <3>1. pc[u] = "fail" BY <2>9 DEF Fail
    <3>2. ref[u] \in Allocated BY <1>5, <1>6, <3>1
    <3>3. heap'[ref[u]].terminal
      BY <1>2, <2>9, <3>2 DEF Fail, FinalizeLocked, Finalized, IInv, TypeOK, Slot
    <3> HIDE DEF Reason
    <3> QED BY <2>2, <2>9, <3>1, <3>3
  <2> HIDE DEF Reason
  <2>10. ASSUME Moved(u) PROVE Reason(u)
    <3>1. Comes(u) \/ (GoesOn(u) /\ ref'[u] = ref[u]) BY <1>6, <2>1, <2>10, Arrival
    <3>2. CASE Comes(u) BY <2>1, <2>4, <2>5, <3>2 DEF Comes, OwnerPoints
    <3>3. CASE GoesOn(u) /\ ref'[u] = ref[u]
      BY <2>1, <2>6, <2>7, <2>8, <2>9, <3>3 DEF GoesOn, OwnerPoints
    <3> QED BY <3>1, <3>2, <3>3
  <2> QED BY <2>3, <2>10
<1>21. FirstRecord'
  <2> SUFFICES ASSUME NEW u \in Threads, pc'[u] \in {"intent", "record"}, refusals' = 0,
                      DurableBy(ref[u])'
               PROVE  FALSE
    BY DEF FirstRecord
  <2>1. CASE pc[u] \in {"intent", "record"} /\ ref'[u] = ref[u]
    <3>1. ~DurableBy(ref[u]) BY <1>3, <2>1 DEF OutcomeInv, FirstRecord
    <3>2. PICK t \in Threads : CommitRecord(t) /\ pc[t] = "record"
      <4>1. DurableBy(ref[u])' => \E s : s = ref[u] /\ DurableBy(s)' BY <2>1 DEF DurableBy
      <4> QED BY <3>1, <4>1, DurableStep
    <3>3. t = u BY <2>1, <3>2 DEF IInv, LockOK, CommitPoints
    <3>4. pc'[u] \in {"journal_commit", "fail"}
      BY <3>2, <3>3 DEF CommitRecord, Goto, StatusReturned, Enter, IInv, TypeOK
    <3> QED BY <3>4
  <2>2. CASE ~(pc[u] \in {"intent", "record"} /\ ref'[u] = ref[u])
    <3>1. ~(pc[u] \in CommitPoints /\ ref'[u] = ref[u])
      <4> SUFFICES ASSUME pc[u] \in {"journal_commit", "finalize"}, ref'[u] = ref[u] PROVE FALSE
        BY <1>6, <2>2
      <4>1. Moved(u) BY DEF Moved
      <4>2. Comes(u) \/ GoesOn(u) BY <1>6, <4>1, Arrival
      <4> QED BY <4>2 DEF Comes, GoesOn, OwnerPoints, CommitSlot, ReadIntent
    <3>2. CommitSlot(u) /\ BoundaryCode(ref[u]) = "ok" /\ ref'[u] = ref[u]
      BY <1>6, <3>1, CommitEntered
    <3>3. DurableBy(ref[u]) BY <3>2 DEF CommitSlot, DurableBy
    <3>4. ~InCommit(ref[u]) BY <1>17, <3>2 DEF CommitSlot
    <3>5. ref[u] \in Allocated /\ table[heap[ref[u]].attempt] = ref[u]
      BY <1>5, <1>6, <3>2 DEF CommitSlot
    <3>6. heap[ref[u]].terminal BY <1>3, <3>3, <3>4, <3>5 DEF OutcomeInv, RecordReported
    <3> QED BY <3>2, <3>5, <3>6, BoundaryReasons
  <2> QED BY <2>1, <2>2
<1>22. RecordReported'
  <2> SUFFICES ASSUME NEW s \in Allocated', refusals' = 0, DurableBy(s)',
                      table'[heap'[s].attempt] = s, ~heap'[s].terminal, ~InCommit(s)'
               PROVE  FALSE
    BY DEF RecordReported
  <2>1. s \in Allocated BY <1>4, <1>15
  <2>2. table[heap[s].attempt] = s
    <3>1. heap[s].attempt \in Attempts BY <1>2, <2>1 DEF Slot
    <3> QED BY <1>2, <2>1, <3>1, TableStep
  <2>3. CASE DurableBy(s)
    <3>1. heap[s].terminal \/ InCommit(s) BY <1>3, <2>1, <2>2, <2>3 DEF OutcomeInv, RecordReported
    <3>2. PICK u \in Threads : pc[u] \in CommitPoints /\ ref[u] = s
      BY <1>2, <2>1, <3>1 DEF InCommit
    <3>3. ~(pc'[u] \in CommitPoints /\ ref'[u] = ref[u]) BY <3>2 DEF InCommit
    <3>4. pc[u] \in {"intent", "record"} BY <3>2, <3>3, CommitLeft
    <3> QED BY <1>3, <2>3, <3>2, <3>4 DEF OutcomeInv, FirstRecord
  <2>4. CASE ~DurableBy(s)
    <3>1. PICK t \in Threads : CommitRecord(t) /\ pc[t] = "record" /\ ref[t] = s
      BY <2>4, DurableStep
    <3>2. placements' # placements BY <2>4 DEF DurableBy
    <3>3. Goto(t, "journal_commit")
      BY <3>1, <3>2 DEF CommitRecord, Refuse, IInv, TypeOK
    <3>4. pc'[t] = "journal_commit" /\ ref'[t] = s BY <3>1, <3>3 DEF Goto, IInv, TypeOK
    <3> QED BY <3>4 DEF InCommit, CommitPoints
  <2> QED BY <2>3, <2>4
<1>23. ASSUME NEW s, ~DurableBy(s), ~InCommit(s) PROVE ~DurableBy(s)'
  <2> SUFFICES ASSUME DurableBy(s)' PROVE FALSE OBVIOUS
  <2>1. PICK t \in Threads : pc[t] = "record" /\ ref[t] = s BY <1>23, DurableStep
  <2> QED BY <1>23, <2>1 DEF InCommit, CommitPoints
\* A slot newly reported as cancelled.
<1>24. ASSUME NEW s \in Allocated', heap'[s].state = "cancelled", heap'[s].commit_boundary_crossed,
              ~(s \in Allocated /\ heap[s].state = "cancelled")
       PROVE  /\ s \in Allocated
              /\ \E t \in Threads : pc[t] = "fail" /\ ref[t] = s /\ note[t] = "cancelled"
  <2>1. s \in Allocated BY <1>4, <1>24
  <2>2. heap[s].commit_boundary_crossed /\ ~heap'[s].cancel_requested
    BY <1>11, <1>24, <2>1, OutcomeStep DEF CancelUncrossed
  <2>3. ~\E t \in Threads : pc[t] \in OwnerPoints /\ ref[t] = s BY <1>8, <2>1, <2>2
  <2> QED BY <1>24, <2>1, <2>2, <2>3, OutcomeStep
<1>25. CancelNoRecord'
  <2>1. ASSUME NEW s \in Allocated', refusals' = 0, heap'[s].state = "cancelled", DurableBy(s)'
        PROVE  FALSE
    <3>1. heap'[s].commit_boundary_crossed BY <1>15, <2>1
    <3>2. CASE s \in Allocated /\ heap[s].state = "cancelled"
      BY <1>3, <1>23, <2>1, <3>2 DEF OutcomeInv, CancelNoRecord, CancelNoCommit
    <3>3. CASE ~(s \in Allocated /\ heap[s].state = "cancelled")
      <4>1. PICK t \in Threads : pc[t] = "fail" /\ ref[t] = s /\ note[t] = "cancelled"
        BY <1>24, <2>1, <3>1, <3>3
      <4> QED BY <1>3, <1>23, <2>1, <4>1 DEF OutcomeInv, CancelNoRecord, FailureReason
    <3> QED BY <3>2, <3>3
  <2>2. ASSUME NEW u \in Threads, refusals' = 0, pc'[u] = "fail", note'[u] = "cancelled",
               DurableBy(ref[u])'
        PROVE  FALSE
    <3>1. CASE ~Moved(u)
      <4>1. pc[u] = "fail" /\ note[u] = "cancelled" /\ ref'[u] = ref[u] BY <1>7, <2>2, <3>1
      <4>2. ~DurableBy(ref[u]) /\ ~InCommit(ref[u])
        BY <1>3, <2>2, <4>1 DEF OutcomeInv, CancelNoRecord, FailureReason
      <4>3. \E s : s = ref[u] /\ DurableBy(s)' BY <2>2, <4>1 DEF DurableBy
      <4> QED BY <1>23, <4>2, <4>3
    <3>2. CASE Moved(u)
      <4>1. Comes(u) \/ (GoesOn(u) /\ ref'[u] = ref[u]) BY <1>6, <2>2, <3>2, Arrival
      <4>2. /\ CommitSlot(u) /\ ref'[u] = ref[u]
            /\ StateForFailure(BoundaryCode(ref[u])) = "cancelled"
        BY <2>2, <4>1 DEF Comes, GoesOn, OwnerPoints
      <4>3. DurableBy(ref[u]) BY <2>2, <4>2 DEF CommitSlot, DurableBy
      <4>4. ~InCommit(ref[u]) BY <1>17, <4>2 DEF CommitSlot
      <4>5. ref[u] \in Allocated /\ table[heap[ref[u]].attempt] = ref[u]
        BY <1>5, <1>6, <4>2 DEF CommitSlot
      <4>6. ~heap[ref[u]].terminal BY <4>2, <4>5, BoundaryReasons
      <4> QED BY <1>3, <2>2, <4>3, <4>4, <4>5, <4>6 DEF OutcomeInv, RecordReported
    <3> QED BY <3>1, <3>2
  <2> QED BY <2>1, <2>2 DEF CancelNoRecord
<1>26. CancelNoCommit'
  <2> SUFFICES ASSUME NEW s \in Allocated', heap'[s].state = "cancelled", InCommit(s)' PROVE FALSE
    BY DEF CancelNoCommit
  <2>1. heap'[s].commit_boundary_crossed BY <1>19
  <2>2. CASE s \in Allocated /\ heap[s].state = "cancelled"
    <3>1. heap[s].terminal /\ ~InCommit(s)
      BY <2>2 DEF OutcomeInv, OutcomeTerminal, CancelNoCommit, TerminalStates
    <3> QED BY <1>18, <2>2, <3>1
  <2>3. CASE ~(s \in Allocated /\ heap[s].state = "cancelled")
    <3>1. PICK t \in Threads : s \in Allocated /\ pc[t] = "fail" /\ ref[t] = s /\ note[t] = "cancelled"
      BY <1>24, <2>1, <2>3
    <3>2. ~InCommit(s) /\ (heap[s].cancel_requested \/ runState # "running")
      BY <3>1 DEF OutcomeInv, FailureReason
    <3> QED BY <1>18, <3>1, <3>2
  <2> QED BY <2>2, <2>3
<1> QED
  BY <1>3, <1>10, <1>11, <1>12, <1>13, <1>20, <1>21, <1>22, <1>25, <1>26 DEF OutcomeInv

LEMMA OutcomeNext ==
    ASSUME NothingReaped, IInv, OwnInv, OutcomeInv, [Next]_vars PROVE OutcomeInv'
BY OutcomeRestart, OutcomeKept

LEMMA OutcomeInit == Init => OutcomeInv
<1> SUFFICES ASSUME Init PROVE OutcomeInv OBVIOUS
<1>1. Allocated = {} /\ DOMAIN placements = {} BY DEF Init, Allocated
<1>2. \A t \in Threads : pc[t] \in {"loop", "idle"} BY DEF Init, FreshThreads
<1>3. ClosedStore BY DEF Init, ClosedStore
<1> QED
  BY <1>1, <1>2, <1>3 DEF OutcomeInv, OutcomeTerminal, CancelUncrossed, RejectUncrossed,
     DurableCrossed, FailureReason, FirstRecord, RecordReported, CancelNoRecord, CancelNoCommit

\* An accepted cancellation and an outcome of rejected, and with a store that never
\* failed an outcome of cancelled too, mean that nothing became durable for the
\* slot: not before, not by a commit that was already past the boundary, not by a
\* second Commit, not across a restart (Cancel, Commit, CommitSlot, Shutdown).
THEOREM DeclinedIsInert == ASSUME NothingReaped PROVE Spec => []DeclinedLeavesNoRecord
<1> DEFINE Inv == IInv /\ OwnInv /\ OutcomeInv
<1>1. Init => Inv BY InitInv, OwnInit, OutcomeInit
<1>2. Inv /\ [Next]_vars => Inv'
  BY NextInv, OwnNext, OutcomeNext
<1>3. Inv => DeclinedLeavesNoRecord
  <2> SUFFICES ASSUME Inv, NEW s \in Allocated, DurableBy(s)
               PROVE  /\ ~heap[s].cancel_requested /\ heap[s].state # "rejected"
                      /\ ~(heap[s].state = "cancelled" /\ refusals = 0)
    BY DEF DeclinedLeavesNoRecord
  <2>1. heap[s].commit_boundary_crossed BY DEF DurableBy, OutcomeInv, DurableCrossed
  <2> QED BY <2>1 DEF OutcomeInv, CancelUncrossed, RejectUncrossed, CancelNoRecord
<1> QED BY <1>1, <1>2, <1>3, PTL DEF Spec
-----------------------------------------------------------------------------
(* The journal and the ledger.                                             *)

Declined(a) == attempts[a] \in {"cancelled", "rejected"}

\* A started attempt that the store has a placement of is about to be journalled as
\* committed: the start of a placed attempt is refused, and Open accounts for it.
PlacedJournalled ==
    \A a \in Attempts :
        HasStore /\ refusals = 0 /\ ~closed /\ HasPlacement(a) /\ attempts[a] = "started" =>
            \E t \in Threads : pc[t] = "journal_commit" /\ heap[ref[t]].attempt = a
\* A declined attempt is over, or about to be refused by its registration.
DeclinedOver ==
    \A a \in Attempts :
        Declined(a) =>
            /\ HasStore
            /\ table[a] # NoSlot =>
                  \/ heap[table[a]].terminal
                  \/ \E t \in Threads : pc[t] \in {"submit_start", "prepare_start"} /\ ref[t] = table[a]
DeclinedNoCommit ==
    \A a \in Attempts : Declined(a) /\ refusals = 0 /\ table[a] # NoSlot => ~InCommit(table[a])
\* What a registration and a shutdown still have to journal was cancelled.
PendingTerminal ==
    /\ \A s \in Allocated : heap[s].pending_terminal => heap[s].terminal
    /\ \A t \in Threads : pc[t] \in {"submit_pending", "prepare_pending"} => heap[ref[t]].terminal
    /\ \A a \in cancelled :
          table[a] # NoSlot /\ heap[table[a]].terminal /\ heap[table[a]].cancel_requested
DeclinedNoRecord ==
    \A a \in Attempts :
        Declined(a) /\ refusals = 0 => ~HasPlacement(a) /\ (DurableFor(a) => a \in retired)

JournalInvariant ==
    /\ PlacedJournalled /\ DeclinedOver /\ DeclinedNoCommit /\ PendingTerminal /\ DeclinedNoRecord

\* Who writes a phase, over which one, and what else happens in that step.
Written(a) ==
    /\ HasStore /\ ~closed /\ UNCHANGED <<heap, table, commitMu, placements, indexed, retired, closed>>
    /\ \/ \E t \in Threads :
             /\ pc[t] \in {"submit_pending", "prepare_pending"} /\ heap[ref[t]].attempt = a
       \/ \E t \in Threads :
             /\ pc[t] = "journal" /\ heap[ref[t]].attempt = a
             /\ attempts'[a] = PhaseForState(note[t])
       \/ \E b \in cancelled : table[b] # NoSlot /\ heap[table[b]].attempt = a

LEMMA PhaseWritten ==
    ASSUME IInv, [Next]_vars, ~\E e \in Epochs : Restart(e),
           NEW a \in Attempts, attempts'[a] # attempts[a]
    PROVE  /\ attempts[a] \in {"none", "started"}
           /\ attempts'[a] \in {"started", "committed"} \/ Written(a)
<1> DEFINE Goal == /\ attempts[a] \in {"none", "started"}
                   /\ attempts'[a] \in {"started", "committed"} \/ Written(a)
<1>1. attempts \in [Attempts -> AttemptPhase] BY DEF IInv, TypeOK
<1>2. ASSUME NEW s, NEW phase, JournalTerminal(s, phase)
      PROVE  /\ HasStore /\ ~closed /\ heap[s].attempt = a /\ attempts'[a] = phase
             /\ attempts[a] \in {"none", "started"}
             /\ UNCHANGED <<placements, indexed, retired, closed>>
  BY <1>1, <1>2 DEF JournalTerminal, TerminalAccepted, Refuse
<1>3. ASSUME UNCHANGED attempts PROVE FALSE BY <1>3
<1>4. ASSUME NEW c \in Clients, ClientCall(c) PROVE FALSE
  BY <1>3, <1>4 DEF ClientCall, RegisterAttempt, Commit, Cancel, AwaitCall, AdvanceEpoch,
     SetAuthority, DrainCall, Shutdown, ShutdownSecond
<1>5. ASSUME NEW c \in Clients, ClientStep(c) PROVE Goal
  <2>1. ASSUME NEW k \in Kinds, JournalStart(c, k) PROVE Goal
    <3>1. /\ StartAccepted(heap[ref[c]].attempt)
          /\ attempts' = [attempts EXCEPT ![heap[ref[c]].attempt] = "started"]
      BY <1>3, <2>1 DEF JournalStart
    <3>2. heap[ref[c]].attempt = a /\ attempts'[a] = "started" BY <1>1, <3>1
    <3> QED BY <3>1, <3>2 DEF StartAccepted
  <2>2. ASSUME NEW k \in Kinds, JournalPending(c, k) PROVE Goal
    <3>1. /\ c \in Threads /\ pc[c] \in {"submit_pending", "prepare_pending"}
          /\ JournalTerminal(ref[c], "cancelled") /\ UNCHANGED <<heap, table, commitMu>>
      BY <2>2 DEF JournalPending, PendingPoint, Threads
    <3> QED BY <1>2, <3>1 DEF Written
  <2>3. CASE ShutdownJournal(c)
    <3>1. PICK b \in cancelled : table[b] # NoSlot /\ JournalTerminal(table[b], "cancelled")
      BY <1>3, <2>3 DEF ShutdownJournal
    <3> QED BY <1>2, <2>3, <3>1 DEF ShutdownJournal, Written
  <2> HIDE DEF Goal
  <2> QED
    BY <1>3, <1>5, <2>1, <2>2, <2>3 DEF ClientStep, MarkStart, Enqueue, PrepareRun,
       PrepareDecide, Await, Drain, ShutdownWait, ShutdownJoin, ShutdownClose
<1>6. ASSUME NEW w \in Workers, WorkerStep(w) PROVE FALSE
  BY <1>3, <1>6 DEF WorkerStep, WorkerSleep, WorkerExit, WorkerTake, WorkerFinish, WorkerDecide
<1>7. ASSUME NEW t \in Threads, CommitStep(t) PROVE Goal
  <2>1. CASE JournalCommit(t) BY <1>2, <2>1 DEF JournalCommit
  <2>2. CASE Journal(t) BY <1>2, <2>2 DEF Journal, Written
  <2> HIDE DEF Goal
  <2> QED
    BY <1>3, <1>7, <2>1, <2>2 DEF CommitStep, CommitSlot, ReadIntent, CommitRecord,
       FinalizeCommit, Fail
<1> HIDE DEF Goal
<1>8. Goal BY <1>3, <1>4, <1>5, <1>6, <1>7 DEF Next, vars
<1> QED BY <1>8 DEF Goal

\* An attempt the store has a placement of is not started again.
LEMMA StartPlaced ==
    ASSUME IInv, [Next]_vars, restarts' = restarts, NEW a \in Attempts, attempts[a] = "none",
           attempts'[a] = "started"
    PROVE  ~HasPlacement(a)'
<1>1. attempts \in [Attempts -> AttemptPhase] BY DEF IInv, TypeOK
<1>2. ASSUME UNCHANGED attempts PROVE FALSE BY <1>2
<1>3. ASSUME NEW s, NEW phase, JournalTerminal(s, phase), phase # "started" PROVE FALSE
  BY <1>1, <1>3 DEF JournalTerminal
<1>4. ASSUME NEW state PROVE PhaseForState(state) # "started" BY DEF PhaseForState
<1>5. ASSUME NEW c \in Clients, ClientCall(c) PROVE FALSE
  BY <1>2, <1>5 DEF ClientCall, RegisterAttempt, Commit, Cancel, AwaitCall, AdvanceEpoch,
     SetAuthority, DrainCall, Shutdown, ShutdownSecond
<1>6. ASSUME NEW c \in Clients, NEW k \in Kinds, JournalStart(c, k) PROVE ~HasPlacement(a)'
  <2>1. /\ StartAccepted(heap[ref[c]].attempt) /\ UNCHANGED <<placements, indexed>>
        /\ attempts' = [attempts EXCEPT ![heap[ref[c]].attempt] = "started"]
    BY <1>2, <1>6 DEF JournalStart
  <2>2. heap[ref[c]].attempt = a BY <1>1, <2>1
  <2> QED BY <2>1, <2>2 DEF StartAccepted, HasPlacement
<1>7. ASSUME NEW c \in Clients, ClientStep(c), \A k \in Kinds : ~JournalStart(c, k) PROVE FALSE
  BY <1>2, <1>3, <1>7 DEF ClientStep, MarkStart, JournalPending, Enqueue, PrepareRun,
     PrepareDecide, Await, Drain, ShutdownWait, ShutdownJournal, ShutdownJoin, ShutdownClose, ledger
<1>8. ASSUME NEW w \in Workers, WorkerStep(w) PROVE FALSE
  BY <1>2, <1>8 DEF WorkerStep, WorkerSleep, WorkerExit, WorkerTake, WorkerFinish, WorkerDecide
<1>9. ASSUME NEW t \in Threads, CommitStep(t) PROVE FALSE
  BY <1>2, <1>3, <1>4, <1>9 DEF CommitStep, CommitSlot, ReadIntent, CommitRecord, JournalCommit,
     FinalizeCommit, Fail, Journal
<1>10. ASSUME NEW e \in Epochs, Restart(e) PROVE FALSE BY <1>10 DEF Restart, IInv, TypeOK
<1> QED BY <1>2, <1>5, <1>6, <1>7, <1>8, <1>9, <1>10 DEF Next, vars

\* A registration leaves its first point by journalling the start, and comes to its
\* last one when a terminal state is pending.
LEMMA RegistrationStep ==
    ASSUME IInv, [Next]_vars, ~\E e \in Epochs : Restart(e), NEW u \in Threads, Moved(u)
    PROVE  /\ pc[u] \in {"submit_start", "prepare_start"} => \E k \in Kinds : JournalStart(u, k)
           /\ pc'[u] \in {"submit_pending", "prepare_pending"} =>
                 /\ pc[u] \in {"submit_mark", "prepare_mark"} /\ ref'[u] = ref[u]
                 /\ heap[ref[u]].pending_terminal
<1> DEFINE Goal ==
      /\ pc[u] \in {"submit_start", "prepare_start"} => \E k \in Kinds : JournalStart(u, k)
      /\ pc'[u] \in {"submit_pending", "prepare_pending"} =>
            /\ pc[u] \in {"submit_mark", "prepare_mark"} /\ ref'[u] = ref[u]
            /\ heap[ref[u]].pending_terminal
<1>1. pc \in [Threads -> Point] BY DEF IInv, TypeOK, Point
<1>2. ASSUME NEW point, point \notin {"submit_pending", "prepare_pending"},
             pc' = [pc EXCEPT ![u] = point], pc[u] \notin {"submit_start", "prepare_start"}
      PROVE  Goal
  BY <1>1, <1>2
<1>3. ASSUME Return(u), pc[u] \notin {"submit_start", "prepare_start"} PROVE Goal
  BY <1>1, <1>3 DEF Return, Enter
<1>4. ASSUME Stay PROVE FALSE BY <1>4 DEF Stay, Moved
<1>5. ASSUME ClientCall(u) PROVE Goal
  <2> HIDE DEF Goal
  <2>1. pc[u] \notin {"submit_start", "prepare_start"}
    BY <1>5 DEF ClientCall, RegisterAttempt, Commit, Cancel, AwaitCall, AdvanceEpoch, SetAuthority,
       DrainCall, Shutdown, ShutdownSecond
  <2> QED
    BY <1>2, <1>4, <1>5, <2>1 DEF ClientCall, RegisterAttempt, Commit, Cancel, AwaitCall,
       AdvanceEpoch, SetAuthority, DrainCall, Shutdown, ShutdownSecond, Goto, Enter, StartPoint,
       AfterStart
<1>6. ASSUME u \in Clients, ClientStep(u) PROVE Goal
  <2>1. ASSUME NEW k \in Kinds, JournalStart(u, k) PROVE Goal
    <3>1. pc'[u] \notin {"submit_pending", "prepare_pending"}
      BY <1>1, <2>1 DEF JournalStart, Goto, Return, Enter, MarkPoint
    <3> QED BY <2>1, <3>1
  <2>2. ASSUME NEW k \in Kinds, MarkStart(u, k) PROVE Goal
    BY <1>1, <2>2 DEF MarkStart, Goto, MarkPoint, PendingPoint, AfterStart
  <2>3. ASSUME NEW k \in Kinds, JournalPending(u, k) PROVE Goal
    BY <1>1, <2>3 DEF JournalPending, Goto, PendingPoint, AfterStart
  <2> HIDE DEF Goal
  <2> QED
    BY <1>2, <1>3, <1>4, <1>6, <2>1, <2>2, <2>3 DEF ClientStep, Enqueue, PrepareRun, PrepareDecide,
       Await, Drain, ShutdownWait, ShutdownJournal, ShutdownJoin, ShutdownClose, Goto
<1>7. ASSUME u \in Workers, WorkerStep(u) PROVE Goal
  <2> HIDE DEF Goal
  <2> QED
    BY <1>2, <1>3, <1>4, <1>7 DEF WorkerStep, WorkerSleep, WorkerExit, WorkerTake, WorkerFinish,
       WorkerDecide, Goto, Enter
<1>8. ASSUME CommitStep(u) PROVE Goal
  <2> HIDE DEF Goal
  <2> QED
    BY <1>2, <1>3, <1>8 DEF CommitStep, CommitSlot, ReadIntent, CommitRecord, JournalCommit,
       FinalizeCommit, Fail, Journal, StatusReturned, EndAttempt, Goto, Enter
<1> HIDE DEF Goal
<1>9. Goal BY <1>5, <1>6, <1>7, <1>8, ThreadMoved DEF Moves
<1> QED BY <1>9 DEF Goal

LEMMA JournalRestart ==
    ASSUME IInv, JournalInvariant, NEW e \in Epochs, Restart(e) PROVE JournalInvariant'
<1>1. /\ heap' = heap /\ Allocated' = Allocated /\ refusals' = refusals /\ cancelled' = {}
      /\ HasStore /\ placements' = placements /\ \A a : DurableFor(a)' = DurableFor(a)
  BY DEF Restart, Allocated, DurableFor
<1>2. \A t \in Threads : pc'[t] \in {"loop", "idle"} BY DEF Restart, FreshThreads
<1>3. \A a \in Attempts : table'[a] = NoSlot BY DEF Restart
<1>4. PICK kept \in RecoveredPlacements, phases \in [Attempts -> AttemptPhase] :
          /\ \A a \in Attempts : phases[a] \in RecoveredPhases(a)
          /\ indexed' = kept /\ attempts' = Accounted(kept, phases) /\ retired \subseteq retired'
  BY DEF Restart, Recover
<1>5. \A a \in Attempts : HasPlacement(a)' <=> Placed(kept, a)
  BY <1>1, <1>4 DEF HasPlacement, Placed
<1>6. PlacedJournalled' BY <1>4, <1>5 DEF PlacedJournalled, Accounted
<1>8. DeclinedOver' /\ DeclinedNoCommit' BY <1>1, <1>3 DEF DeclinedOver, DeclinedNoCommit
<1>9. PendingTerminal' BY <1>1, <1>2 DEF JournalInvariant, PendingTerminal
<1>10. DeclinedNoRecord'
  <2> SUFFICES ASSUME NEW a \in Attempts, Declined(a)', refusals = 0
               PROVE  ~HasPlacement(a)' /\ (DurableFor(a)' => a \in retired')
    BY <1>1 DEF DeclinedNoRecord
  <2>1. Declined(a)
    BY <1>4 DEF Declined, Accounted, RecoveredPhases
  <2>2. indexed' \subseteq indexed BY <1>4 DEF RecoveredPlacements
  <2>3. ~HasPlacement(a) /\ (DurableFor(a) => a \in retired)
    BY <2>1 DEF JournalInvariant, DeclinedNoRecord
  <2> QED BY <1>1, <1>4, <2>2, <2>3 DEF HasPlacement
<1> QED BY <1>6, <1>8, <1>9, <1>10 DEF JournalInvariant

LEMMA JournalKept ==
    ASSUME NothingReaped, IInv, OwnInv, OutcomeInv, StartInv, RecordFollowed, JournalInvariant,
           [Next]_vars, ~\E e \in Epochs : Restart(e)
    PROVE  JournalInvariant'
<1>1. HeapStep /\ IInv' /\ OwnInv' /\ OutcomeInv' /\ Allocated \subseteq Allocated'
  BY NextInv, OwnNext, OutcomeNext, AllocatedGrows DEF IInv
<1>2. /\ \A s \in Allocated :
            /\ heap[s] \in Slot /\ heap[s].attempt \in Attempts /\ heap'[s].attempt = heap[s].attempt
            /\ heap[s].terminal => heap'[s].terminal
      /\ NoSlot \notin Allocated /\ nextSlot \notin Allocated
  <2>1. nextSlot \in Nat BY DEF IInv, TypeOK
  <2>2. NoSlot \notin Allocated /\ nextSlot \notin Allocated BY <2>1 DEF Allocated, NoSlot
  <2> QED BY <1>1, <2>2 DEF HeapStep, SlotStep, IInv, TypeOK, Slot
<1>3. (refusals' = 0 => refusals = 0) /\ (closed => closed') BY OnlyForward DEF OutcomeInv
<1>4. ASSUME NEW a \in Attempts, table[a] # NoSlot
      PROVE  table[a] \in Allocated /\ heap[table[a]].attempt = a /\ table'[a] = table[a]
  BY <1>4, TableKept DEF IInv, TableOK, OwnInv, TableAttempt
<1>5. ASSUME NEW t \in Threads, pc[t] \notin Free
      PROVE  ref[t] \in Allocated /\ table[heap[ref[t]].attempt] = ref[t] /\ ref[t] # NoSlot
  BY <1>2, <1>5 DEF IInv, RefOK, OwnInv, Current
<1>6. /\ {"submit_start", "prepare_start", "submit_mark", "prepare_mark", "submit_pending",
           "prepare_pending", "journal", "record", "journal_commit", "commit"} \cap Free = {}
      /\ {"submit_start", "prepare_start", "submit_pending", "prepare_pending"} \subseteq OwnerPoints
      /\ {"record", "journal_commit"} \subseteq CommitPoints
  BY DEF OwnerPoints, CommitPoints, Free
<1>7. ASSUME NEW t \in Threads, ~Moved(t) PROVE pc'[t] = pc[t] /\ ref'[t] = ref[t]
  BY <1>7 DEF Moved
\* Whoever is committing a slot has crossed its boundary, with a placement.
<1>8. ASSUME NEW s, InCommit(s)
      PROVE  /\ s \in Allocated /\ heap[s].commit_boundary_crossed /\ heap[s].decision = "placed"
             /\ ~heap[s].cancel_requested
  <2>1. PICK t \in Threads : pc[t] \in CommitPoints /\ ref[t] = s BY <1>8 DEF InCommit
  <2>2. s \in Allocated BY <1>5, <2>1 DEF CommitPoints, Free
  <2> QED BY <2>1, <2>2 DEF OwnInv, PlacedCommits, OutcomeInv, CancelUncrossed
<1>9. ASSUME NEW s \in Allocated' \ Allocated
      PROVE  ~heap'[s].commit_boundary_crossed /\ ~heap'[s].pending_terminal
  <2>1. ASSUME NEW a, NEW g, heap'[s] = NewSlot(a, epoch, g)
        PROVE  ~heap'[s].commit_boundary_crossed /\ ~heap'[s].pending_terminal
    BY <2>1 DEF NewSlot
  <2> QED BY <2>1, SlotCreated
\* A new record.
<1>10. placements \in PlacementSeq /\ indexed \subseteq DOMAIN placements /\ restarts' = restarts
  BY IndexStep DEF IInv, TypeOK, PlacementSeq, CommitRecord
<1>11. ASSUME NEW a \in Attempts,
              \/ HasPlacement(a)' /\ ~HasPlacement(a)
              \/ DurableFor(a)' /\ ~DurableFor(a)
       PROVE  \E t \in Threads : CommitRecord(t) /\ pc[t] = "record" /\ heap[ref[t]].attempt = a
  <2>1. ~UNCHANGED <<placements, indexed>> BY <1>11 DEF DurableFor, HasPlacement
  <2>2. PICK t \in Threads : CommitRecord(t) BY <2>1, IndexStep
  <2>3. ref[t] \in Allocated /\ pc[t] = "record" BY <1>5, <1>6, <2>2 DEF CommitRecord
  <2>4. /\ RecordOf(ref[t]) \in [attempt : Attempts, epoch : Nat, slot : Slots]
        /\ RecordOf(ref[t]).attempt = heap[ref[t]].attempt
    BY <2>3, AllocatedSlots DEF RecordOf, IInv, TypeOK, Slot
  <2>5. \/ UNCHANGED <<placements, indexed>>
        \/ /\ placements' = Append(placements, RecordOf(ref[t]))
           /\ indexed' \in {indexed, indexed \cup {NewIndex},
                             indexed \cup (DOMAIN placements' \ DOMAIN placements)}
    BY <2>2 DEF CommitRecord
  <2>6. \A i \in DOMAIN placements' :
            \/ i \in DOMAIN placements /\ placements'[i] = placements[i]
            \/ i \notin DOMAIN placements /\ placements'[i] = RecordOf(ref[t])
    BY <1>10, <2>1, <2>4, <2>5 DEF PlacementSeq
  <2>7. indexed' \subseteq DOMAIN placements' BY <1>1 DEF IInv, TypeOK
  <2>8. \A i \in indexed' : i \in indexed \/ i \notin DOMAIN placements
    BY <1>10, <2>1, <2>5 DEF PlacementSeq, NewIndex
  <2>9. heap[ref[t]].attempt = a
    BY <1>11, <2>4, <2>6, <2>7, <2>8 DEF DurableFor, HasPlacement
  <2> QED BY <2>2, <2>3, <2>9
\* A newly declined attempt: its slot is over and nobody is committing it.
<1>12. ASSUME NEW a \in Attempts, Declined(a)', ~Declined(a)
       PROVE  /\ Written(a) /\ attempts[a] \in {"none", "started"}
              /\ table[a] # NoSlot /\ heap[table[a]].terminal
              /\ refusals = 0 => ~InCommit(table[a])
  <2>1. Written(a) /\ attempts[a] \in {"none", "started"}
    BY <1>12, PhaseWritten DEF Declined
  <2>2. ASSUME NEW t \in Threads, pc[t] \in {"submit_pending", "prepare_pending"},
               heap[ref[t]].attempt = a
        PROVE  /\ table[a] # NoSlot /\ heap[table[a]].terminal
               /\ refusals = 0 => ~InCommit(table[a])
    <3>1. ref[t] = table[a] /\ table[a] # NoSlot BY <1>5, <1>6, <2>2
    <3>2. heap[ref[t]].terminal BY <2>2 DEF JournalInvariant, PendingTerminal
    <3>3. heap[ref[t]].decision = "none" BY <1>6, <2>2 DEF OwnInv, OwnedUndecided
    <3> QED BY <1>8, <3>1, <3>2, <3>3
  <2>3. ASSUME NEW t \in Threads, pc[t] = "journal", heap[ref[t]].attempt = a,
               attempts'[a] = PhaseForState(note[t])
        PROVE  /\ table[a] # NoSlot /\ heap[table[a]].terminal
               /\ refusals = 0 => ~InCommit(table[a])
    <3>1. ref[t] = table[a] /\ table[a] # NoSlot BY <1>5, <1>6, <2>3
    <3>2. heap[ref[t]].terminal BY <2>3 DEF OutcomeInv, FailureReason
    <3>3. note[t] # "fenced" BY <1>12, <2>3 DEF Declined, PhaseForState
    <3>4. refusals = 0 => ~InCommit(ref[t])
      BY <1>8, <2>1, <2>3, <3>3 DEF OutcomeInv, FailureReason, Written
    <3> QED BY <3>1, <3>2, <3>4
  <2>4. ASSUME NEW b \in cancelled, table[b] # NoSlot, heap[table[b]].attempt = a
        PROVE  /\ table[a] # NoSlot /\ heap[table[a]].terminal
               /\ refusals = 0 => ~InCommit(table[a])
    <3>1. b = a BY <1>4, <2>4 DEF IInv, TypeOK
    <3>2. heap[table[a]].terminal /\ heap[table[a]].cancel_requested
      BY <3>1 DEF JournalInvariant, PendingTerminal
    <3> QED BY <1>8, <2>4, <3>1, <3>2
  <2> QED BY <2>1, <2>2, <2>3, <2>4 DEF Written
\* A declined attempt stays declined by the same slot.
<1>13. ASSUME NEW a \in Attempts, Declined(a) PROVE attempts'[a] = attempts[a]
  BY <1>13, PhaseWritten DEF Declined
<1>14. ASSUME NEW a \in Attempts, attempts[a] = "none", attempts'[a] # "none"
       PROVE  ~HasPlacement(a)'
  <2>1. attempts'[a] = "started" BY <1>10, <1>14, PhaseNext DEF PhaseStep
  <2> QED BY <1>10, <1>14, <2>1, StartPlaced
<1>15. PlacedJournalled'
  <2> SUFFICES ASSUME NEW a \in Attempts, HasStore, refusals' = 0, ~closed', HasPlacement(a)',
                      attempts'[a] = "started"
               PROVE  \E t \in Threads : pc'[t] = "journal_commit" /\ heap'[ref'[t]].attempt = a
    BY DEF PlacedJournalled
  <2>0. attempts[a] = "started" BY <1>14, PhaseWritten
  <2>1. CASE ~HasPlacement(a)
    <3>1. PICK t \in Threads : CommitRecord(t) /\ pc[t] = "record" /\ heap[ref[t]].attempt = a
      BY <1>11, <2>1
    <3>2. ~UNCHANGED <<placements, indexed>> BY <2>1 DEF HasPlacement
    <3>3. Goto(t, "journal_commit") /\ heap' = heap
      BY <3>1, <3>2 DEF CommitRecord, Refuse, IInv, TypeOK
    <3> QED BY <3>1, <3>3 DEF Goto, IInv, TypeOK
  <2>2. CASE HasPlacement(a)
    <3>1. PICK t \in Threads : pc[t] = "journal_commit" /\ heap[ref[t]].attempt = a
      BY <1>3, <2>0, <2>2 DEF JournalInvariant, PlacedJournalled
    <3>2. ref[t] \in Allocated BY <1>5, <1>6, <3>1
    <3>3. CASE ~Moved(t) BY <1>2, <1>7, <3>1, <3>2, <3>3
    <3>4. CASE Moved(t)
      <4>1. JournalTerminal(ref[t], "committed")
        BY <1>10, <3>1, <3>4, JournalCommitLeft DEF JournalCommit
      <4>2. attempts \in [Attempts -> AttemptPhase] /\ refusals \in Nat BY DEF IInv, TypeOK
      <4>3. TerminalAccepted(a) BY <1>3, <2>0 DEF TerminalAccepted
      <4>4. attempts'[a] = "committed"
        BY <3>1, <4>1, <4>2, <4>3 DEF JournalTerminal, Refuse
      <4> QED BY <4>4
    <3> QED BY <3>3, <3>4
  <2> QED BY <2>1, <2>2
<1>16. DeclinedOver'
  <2> SUFFICES ASSUME NEW a \in Attempts, Declined(a)'
               PROVE  /\ HasStore
                      /\ table'[a] # NoSlot =>
                            \/ heap'[table'[a]].terminal
                            \/ \E t \in Threads :
                                  /\ pc'[t] \in {"submit_start", "prepare_start"}
                                  /\ ref'[t] = table'[a]
    BY DEF DeclinedOver
  <2>1. CASE ~Declined(a) BY <1>2, <1>4, <1>12, <2>1 DEF Written
  <2>2. CASE Declined(a) /\ table[a] # NoSlot
    <3>1. table'[a] = table[a] /\ table[a] \in Allocated /\ heap[table[a]].attempt = a
      BY <1>4, <2>2
    <3>2. HasStore BY <2>2 DEF JournalInvariant, DeclinedOver
    <3>3. CASE heap[table[a]].terminal BY <1>2, <3>1, <3>2, <3>3
    <3>4. ASSUME NEW t \in Threads, pc[t] \in {"submit_start", "prepare_start"}, ref[t] = table[a]
          PROVE  \/ heap'[table[a]].terminal
                 \/ pc'[t] \in {"submit_start", "prepare_start"} /\ ref'[t] = table[a]
      <4>1. CASE ~Moved(t) BY <1>7, <3>4, <4>1
      <4>2. CASE Moved(t)
        <5>1. PICK k \in Kinds : JournalStart(t, k) BY <3>4, <4>2, RegistrationStep
        <5>2. ~StartAccepted(heap[ref[t]].attempt)
          BY <2>2, <3>1, <3>4 DEF StartAccepted, Declined
        <5>3. FinalizeLocked(ref[t], "rejected") BY <5>1, <5>2 DEF JournalStart
        <5> QED BY <3>1, <3>4, <5>3 DEF FinalizeLocked, Finalized, IInv, TypeOK, Slot
      <4> QED BY <4>1, <4>2
    <3> QED BY <2>2, <3>1, <3>2, <3>3, <3>4 DEF JournalInvariant, DeclinedOver
  <2>3. CASE Declined(a) /\ table[a] = NoSlot
    <3>1. HasStore BY <2>3 DEF JournalInvariant, DeclinedOver
    <3>2. SUFFICES ASSUME table'[a] # NoSlot
                   PROVE  \E t \in Threads :
                              pc'[t] \in {"submit_start", "prepare_start"} /\ ref'[t] = table'[a]
      BY <3>1
    <3>3. table'[a] = nextSlot /\ nextSlot \in Allocated' BY <2>3, <3>2, TableStep
    <3>4. PICK c \in Clients, k \in Kinds, b \in Attempts, g \in Auths : RegisterAttempt(c, k, b, g)
      BY <1>2, <3>3, SlotCreated
    <3>5. c \in Threads /\ pc'[c] = StartPoint(k) /\ ref'[c] = nextSlot
      BY <3>1, <3>4 DEF RegisterAttempt, Enter, Threads, IInv, TypeOK
    <3> QED BY <3>3, <3>5 DEF StartPoint
  <2> QED BY <2>1, <2>2, <2>3
<1>17. DeclinedNoCommit'
  <2> SUFFICES ASSUME NEW a \in Attempts, Declined(a)', refusals' = 0, table'[a] # NoSlot,
                      InCommit(table[a])'
               PROVE  FALSE
    BY DEF DeclinedNoCommit
  <2>1. PICK u \in Threads : pc'[u] \in CommitPoints /\ ref'[u] = table'[a] BY DEF InCommit
  <2>2. heap'[table'[a]].commit_boundary_crossed BY <1>1, <2>1 DEF OwnInv, PlacedCommits
  <2>3. table[a] # NoSlot
    <3> SUFFICES ASSUME table[a] = NoSlot PROVE FALSE OBVIOUS
    <3>1. table'[a] = nextSlot /\ nextSlot \in Allocated' BY TableStep
    <3> QED BY <1>2, <1>9, <2>2, <3>1
  <2>4. table'[a] = table[a] BY <1>4, <2>3
  <2>5. ~InCommit(table[a])
    BY <1>3, <1>12, <2>3 DEF JournalInvariant, DeclinedNoCommit
  <2>6. /\ CommitSlot(u) /\ BoundaryCode(ref[u]) = "ok" /\ ref[u] = table[a] /\ ref[u] \in Allocated
    <3>1. CommitSlot(u) /\ BoundaryCode(ref[u]) = "ok" /\ ref'[u] = ref[u]
      BY <2>1, <2>4, <2>5, CommitEntered DEF InCommit
    <3> QED BY <1>5, <1>6, <2>1, <2>4, <3>1 DEF CommitSlot
  <2>7. ~heap[table[a]].terminal /\ heap[table[a]].decision = "placed"
    BY <2>6, BoundaryReasons DEF CommitSlot, OwnInv, PlacedCommits
  <2>8. Declined(a) BY <1>12, <2>7
  <2>9. PICK t \in Threads : pc[t] \in {"submit_start", "prepare_start"} /\ ref[t] = table[a]
    BY <2>3, <2>7, <2>8 DEF JournalInvariant, DeclinedOver
  <2> QED BY <1>6, <2>7, <2>9 DEF OwnInv, OwnedUndecided
<1>18. DeclinedNoRecord'
  <2> SUFFICES ASSUME NEW a \in Attempts, Declined(a)', refusals' = 0
               PROVE  ~HasPlacement(a)' /\ (DurableFor(a)' => a \in retired')
    BY DEF DeclinedNoRecord
  <2>1. CASE Declined(a)
    <3>1. ~HasPlacement(a) /\ (DurableFor(a) => a \in retired) /\ retired' = retired
      BY <1>3, <1>10, <2>1, IndexGrows DEF JournalInvariant, DeclinedNoRecord
    <3>2. ASSUME NEW t \in Threads, pc[t] = "record", heap[ref[t]].attempt = a PROVE FALSE
      <4>1. table[a] = ref[t] /\ table[a] # NoSlot /\ InCommit(table[a])
        BY <1>5, <1>6, <3>2 DEF InCommit
      <4> QED BY <1>3, <2>1, <4>1 DEF JournalInvariant, DeclinedNoCommit
    <3> QED BY <1>11, <3>1, <3>2
  <2>2. CASE ~Declined(a)
    <3>1. /\ Written(a) /\ attempts[a] \in {"none", "started"} /\ table[a] # NoSlot
          /\ ~InCommit(table[a]) /\ refusals = 0
      BY <1>3, <1>12, <2>2
    <3>2. attempts[a] = "started" BY <1>10, <3>1, PhaseNext DEF PhaseStep, Declined
    <3>3. HasStore /\ ~closed /\ UNCHANGED <<placements, indexed, retired>> BY <3>1 DEF Written
    <3>4. ~\E t \in Threads : pc[t] = "journal_commit" /\ heap[ref[t]].attempt = a
      BY <1>5, <1>6, <3>1 DEF InCommit
    <3>5. ~HasPlacement(a) BY <3>1, <3>2, <3>3, <3>4 DEF JournalInvariant, PlacedJournalled
    <3>6. DurableFor(a) => a \in retired
      BY <3>1, <3>2, <3>3, <3>4 DEF RecordFollowed, Awaited, DurableFor
    <3> QED BY <3>3, <3>5, <3>6 DEF HasPlacement, DurableFor
  <2> QED BY <2>1, <2>2
<1>19. PendingTerminal'
  <2>1. ASSUME NEW s \in Allocated', heap'[s].pending_terminal PROVE heap'[s].terminal
    <3>1. s \in Allocated BY <1>9, <2>1
    <3>2. CASE heap[s].pending_terminal
      BY <1>2, <3>1, <3>2 DEF JournalInvariant, PendingTerminal
    <3>3. CASE ~heap[s].pending_terminal
      <4>1. heap'[s] # heap[s] /\ heap[s] \in Slot BY <1>2, <2>1, <3>1, <3>3
      <4>2. ASSUME NEW c \in Clients, ClientTouches(s, c) PROVE heap'[s].terminal
        BY <2>1, <3>3, <4>1, <4>2 DEF ClientTouches, Ended, CancelledSlot, Slot
      <4>3. ASSUME NEW w \in Workers, WorkerTouches(s, w) PROVE FALSE
        BY <2>1, <3>3, <4>1, <4>3 DEF WorkerTouches, Slot
      <4>4. ASSUME NEW t \in Threads, CommitTouches(s, t) PROVE FALSE
        BY <2>1, <3>3, <4>1, <4>4 DEF CommitTouches, Ended, Slot
      <4> QED BY <3>1, <4>1, <4>2, <4>3, <4>4, SlotTouched
    <3> QED BY <3>2, <3>3
  <2>2. ASSUME NEW u \in Threads, pc'[u] \in {"submit_pending", "prepare_pending"}
        PROVE  heap'[ref'[u]].terminal
    <3>1. CASE ~Moved(u)
      BY <1>2, <1>5, <1>6, <1>7, <2>2, <3>1 DEF JournalInvariant, PendingTerminal
    <3>2. CASE Moved(u)
      <4>1. /\ pc[u] \in {"submit_mark", "prepare_mark"} /\ ref'[u] = ref[u]
            /\ heap[ref[u]].pending_terminal
        BY <2>2, <3>2, RegistrationStep
      <4>2. ref[u] \in Allocated BY <1>5, <1>6, <4>1
      <4> QED BY <1>2, <4>1, <4>2 DEF JournalInvariant, PendingTerminal
    <3> QED BY <3>1, <3>2
  <2>3. ASSUME NEW a \in cancelled'
        PROVE  table'[a] # NoSlot /\ heap'[table'[a]].terminal /\ heap'[table'[a]].cancel_requested
    <3>1. CASE a \in cancelled
      <4>1. /\ table[a] # NoSlot /\ heap[table[a]].terminal /\ heap[table[a]].cancel_requested
            /\ a \in Attempts
        BY <3>1 DEF JournalInvariant, PendingTerminal, IInv, TypeOK
      <4>2. table'[a] = table[a] /\ table[a] \in Allocated BY <1>4, <4>1
      <4> QED BY <1>2, <4>1, <4>2, OutcomeStep
    <3>2. CASE a \notin cancelled
      <4>1. PICK c \in Clients, k \in BOOLEAN, s \in Allocated :
                Shutdown(c, k) /\ s \in ShutdownSweep(k) /\ heap[s].attempt = a
        BY <3>2, CancelledStep
      <4>2. PICK b \in Attempts : table[b] = s BY <4>1 DEF ShutdownSweep
      <4>3. b = a /\ table[a] = s /\ table'[a] = s /\ s # NoSlot BY <1>2, <1>4, <4>1, <4>2
      <4>4. heap'[s] = [Finalized(heap[s], "cancelled") EXCEPT
                            !.cancel_requested = TRUE, !.pending_terminal = ~StartIsDurable(s)]
        <5>1. s \in DOMAIN heap BY DEF IInv, TypeOK
        <5> QED BY <4>1, <5>1 DEF Shutdown
      <4>5. heap'[s].terminal /\ heap'[s].cancel_requested
        BY <1>2, <4>4 DEF Finalized, Slot
      <4> QED BY <4>3, <4>5
    <3> QED BY <3>1, <3>2
  <2> QED BY <2>1, <2>2, <2>3 DEF PendingTerminal
<1> QED BY <1>15, <1>16, <1>17, <1>18, <1>19 DEF JournalInvariant

LEMMA JournalInit == Init => JournalInvariant
<1> SUFFICES ASSUME Init PROVE JournalInvariant OBVIOUS
<1>1. Allocated = {} /\ DOMAIN placements = {} BY DEF Init, Allocated
<1>2. \A t \in Threads : pc[t] \in {"loop", "idle"} BY DEF Init, FreshThreads
<1>3. cancelled = {} /\ \A a \in Attempts : attempts[a] = "none" /\ table[a] = NoSlot BY DEF Init
<1> QED
  BY <1>1, <1>2, <1>3 DEF JournalInvariant, PlacedJournalled, DeclinedOver, DeclinedNoCommit,
     PendingTerminal, DeclinedNoRecord, Declined

\* The running store never contradicts itself: a phase journalled, or accounted for
\* by Open, as committed has its placement in memory, and with a store that never
\* failed a cancelled or rejected attempt has none, whoever of the registration, a
\* canceller, the shutdown owner or a worker wrote the phase, and none was ever
\* written for it unless a recovery had lost the attempt's record.  What compaction
\* leaves in the files is not covered: Open may refuse them (Store, DocOrphan).
THEOREM JournalIsConsistent == ASSUME NothingReaped PROVE Spec => []JournalAgreesWithPlacements
<1> DEFINE Inv == /\ IInv /\ OwnInv /\ OutcomeInv /\ StartInv /\ RecordFollowed /\ DurableInv
                  /\ JournalInvariant
<1>1. Init => Inv BY InitInv, OwnInit, OutcomeInit, StartedInit, DurableInit, JournalInit
<1>2. Inv /\ [Next]_vars => Inv'
  BY NextInv, OwnNext, OutcomeNext, StartedNext, DurableNext, JournalRestart, JournalKept
<1>3. Inv => JournalAgreesWithPlacements
  BY DEF JournalAgreesWithPlacements, DurableInv, PhaseCommitted, JournalInvariant,
     DeclinedNoRecord, Declined
<1> QED BY <1>1, <1>2, <1>3, PTL DEF Spec

=============================================================================
