-------------------------- MODULE CoordinatorProofs --------------------------
(***************************************************************************)
(* What module Coordinator guarantees for every number of threads, slots,  *)
(* attempts, restarts and store failures.                                  *)
(***************************************************************************)
EXTENDS Coordinator, SequenceTheorems, NaturalsInduction, WellFoundedInduction, TLAPS

\* Points at which a thread holds no slot.
Free == {"idle", "loop", "exit", "drain", "sd_wait", "sd_journal", "sd_join", "sd_close"}

\* A thread inside a call holds a slot that exists.
RefOK == \A t \in Threads : pc[t] \notin Free => ref[t] \in Allocated

\* So does the table.
TableOK == \A a \in Attempts : table[a] # NoSlot => table[a] \in Allocated

\* Between the boundary and the final state a thread owns commit_mu.
LockOK == \A t \in Threads : pc[t] \in CommitPoints => commitMu = t

\* From the boundary to the durable append the slot's fence is the current one.
FenceOK ==
    \A t \in Threads :
        pc[t] \in {"intent", "record"} =>
            /\ heap[ref[t]].epoch = epoch
            /\ AuthorityMatches(authority, heap[ref[t]].auth)
            /\ heap[ref[t]].commit_boundary_crossed

IInv == TypeOK /\ RefOK /\ TableOK /\ LockOK /\ FenceOK

-----------------------------------------------------------------------------
(* Steps and slots: what no step of any thread does to a slot object.       *)

Point == WorkerPoints \cup ClientPoints \cup SharedPoints

\* A slot keeps its identity and its fence, a crossed boundary stays crossed,
\* and a terminal outcome stays what it is.
SlotStep(before, after) ==
    /\ after \in Slot
    /\ after.attempt = before.attempt
    /\ after.epoch = before.epoch
    /\ after.auth = before.auth
    /\ before.commit_boundary_crossed => after.commit_boundary_crossed
    /\ before.terminal => after.terminal /\ after.state = before.state

HeapStep ==
    /\ nextSlot' >= nextSlot
    /\ heap' \in [Allocated' -> Slot]
    /\ \A s \in Allocated : SlotStep(heap[s], heap'[s])

USE DEF muVars, fence, cvVars, ledger, bounds

LEMMA FinalizedStep ==
    ASSUME NEW slot \in Slot, NEW state \in AttemptState
    PROVE  SlotStep(slot, Finalized(slot, state))
BY DEF Finalized, Slot, SlotStep

\* Replacing one slot by a successor of it is a step of the heap; so is nothing.

LEMMA HeapUpdate ==
    ASSUME TypeOK, UNCHANGED nextSlot, NEW s \in Allocated, NEW v,
           SlotStep(heap[s], v), heap' = [heap EXCEPT ![s] = v]
    PROVE  HeapStep
<1>1. nextSlot' >= nextSlot BY DEF TypeOK
<1>2. v \in Slot BY DEF SlotStep
<1>3. heap' \in [Allocated' -> Slot] BY <1>2 DEF TypeOK, Allocated
<1>4. ASSUME NEW r \in Allocated PROVE SlotStep(heap[r], heap'[r])
  <2>1. CASE r = s BY <2>1 DEF TypeOK
  <2>2. CASE r # s
    <3>1. heap'[r] = heap[r] /\ heap[r] \in Slot BY <2>2 DEF TypeOK
    <3> QED BY <3>1 DEF SlotStep
  <2> QED BY <2>1, <2>2
<1> QED BY <1>1, <1>3, <1>4 DEF HeapStep

LEMMA HeapSame == ASSUME TypeOK, UNCHANGED <<heap, nextSlot>> PROVE HeapStep
BY DEF Allocated, HeapStep, SlotStep, TypeOK

\* FinalizeLocked is a step of the heap.
LEMMA FinalizeHeap ==
    ASSUME TypeOK, UNCHANGED nextSlot, NEW s \in Allocated, NEW state \in AttemptState,
           FinalizeLocked(s, state)
    PROVE  HeapStep /\ cvWork' \subseteq Threads /\ cvDone' \subseteq Threads
<1>1. heap[s] \in Slot BY DEF TypeOK
<1>2. HeapStep BY <1>1, FinalizedStep, HeapUpdate DEF FinalizeLocked
<1> QED BY <1>2 DEF FinalizeLocked, NotifyAll, TypeOK

\* A terminal phase is written to the journal of an existing attempt, or not.
LEMMA JournalTerminalType ==
    ASSUME TypeOK, NEW s \in Allocated, NEW phase \in AttemptPhase, JournalTerminal(s, phase)
    PROVE  /\ attempts' \in [Attempts -> AttemptPhase]
           /\ doubtful' \subseteq Attempts \X AttemptPhase
           /\ refusals' \in 0 .. MaxRefusals
           /\ UNCHANGED <<placements, indexed, retired, closed, restarts>>
<1>1. heap[s].attempt \in Attempts BY DEF TypeOK, Slot
<1>2. refusals' \in 0 .. MaxRefusals
  BY NumberAssumption DEF TypeOK, JournalTerminal, Refuse
<1>3. attempts' \in [Attempts -> AttemptPhase]
  BY <1>1 DEF TypeOK, JournalTerminal
<1>4. doubtful' \subseteq Attempts \X AttemptPhase
  BY <1>1 DEF TypeOK, JournalTerminal
<1> QED BY <1>2, <1>3, <1>4 DEF JournalTerminal

LEMMA RangeGrows == \A m, n \in Nat : m <= n => 1 .. (m - 1) \subseteq 1 .. (n - 1)
OBVIOUS

LEMMA AllocatedSlots == ASSUME TypeOK PROVE Allocated \subseteq Slots
BY NumberAssumption DEF TypeOK, Allocated, Slots

\* Slots are never taken back.
LEMMA AllocatedGrows == ASSUME TypeOK, TypeOK', HeapStep PROVE Allocated \subseteq Allocated'
<1>1. nextSlot \in Nat /\ nextSlot' \in Nat /\ nextSlot' >= nextSlot
  BY DEF TypeOK, HeapStep
<1> QED BY <1>1, RangeGrows DEF Allocated

\* A thread moves to a point outside the commit section, or stays inside it;
\* nothing else of what the invariant speaks about changes.
LEMMA MoveInv ==
    ASSUME IInv, TypeOK', HeapStep, NEW t \in Threads, NEW point \in Point, NEW s,
           pc' = [pc EXCEPT ![t] = point], ref' = [ref EXCEPT ![t] = s],
           point \notin Free => s \in Allocated',
           point \in CommitPoints => pc[t] \in CommitPoints,
           point \in {"intent", "record"} => pc[t] \in {"intent", "record"} /\ s = ref[t],
           UNCHANGED <<epoch, authority, commitMu, table>>
    PROVE  IInv'
<1>1. RefOK' BY DEF IInv, TypeOK, RefOK, HeapStep, Allocated
<1>2. TableOK' BY DEF IInv, TypeOK, TableOK, HeapStep, Allocated
<1>3. LockOK' BY DEF IInv, TypeOK, LockOK
<1>4. FenceOK'
  <2> SUFFICES ASSUME NEW u \in Threads, pc'[u] \in {"intent", "record"}
               PROVE  /\ heap'[ref'[u]].epoch = epoch
                      /\ AuthorityMatches(authority, heap'[ref'[u]].auth)
                      /\ heap'[ref'[u]].commit_boundary_crossed
    BY DEF FenceOK, AuthorityMatches
  <2>1. pc[u] \in {"intent", "record"} /\ ref'[u] = ref[u]
    BY DEF IInv, TypeOK
  <2>2. ref[u] \in Allocated
    BY <2>1 DEF IInv, RefOK, Free
  <2> QED BY <2>1, <2>2 DEF IInv, FenceOK, HeapStep, SlotStep
<1> QED BY <1>1, <1>2, <1>3, <1>4 DEF IInv

\* The same, for a thread that ends up outside the commit section.
LEMMA MoveOut ==
    ASSUME IInv, TypeOK', HeapStep, NEW t \in Threads, NEW point \in Point \ CommitPoints, NEW s,
           pc' = [pc EXCEPT ![t] = point], ref' = [ref EXCEPT ![t] = s],
           point \notin Free => s \in Allocated',
           UNCHANGED <<epoch, authority, commitMu, table>>
    PROVE  IInv'
<1>1. point \in Point /\ point \notin CommitPoints /\ point \notin {"intent", "record"}
  BY DEF CommitPoints
<1> QED BY <1>1, MoveInv

\* A thread goes on to another point of its call with the slot it has, or with a
\* slot it found in the table.
LEMMA GotoInv ==
    ASSUME IInv, TypeOK', HeapStep, NEW t \in Threads, NEW point \in Point \ CommitPoints,
           Goto(t, point), point \notin Free => ref[t] \in Allocated,
           UNCHANGED <<epoch, authority, commitMu, table>>
    PROVE  IInv'
<1>1. pc' = [pc EXCEPT ![t] = point] /\ ref' = [ref EXCEPT ![t] = ref[t]]
  BY DEF Goto, IInv, TypeOK
<1>2. point \notin Free => ref[t] \in Allocated'
  BY AllocatedGrows DEF IInv
<1> QED BY <1>1, <1>2, MoveOut

LEMMA EnterInv ==
    ASSUME IInv, TypeOK', HeapStep, NEW t \in Threads, NEW point \in Point \ CommitPoints,
           NEW s \in Allocated, NEW state, Enter(t, point, s, state),
           UNCHANGED <<epoch, authority, commitMu, table>>
    PROVE  IInv'
<1>1. s \in Allocated' BY AllocatedGrows DEF IInv
<1> QED BY <1>1, MoveOut DEF Enter

\* A thread returns to its caller, or a worker to its loop.
LEMMA ReturnInv ==
    ASSUME IInv, TypeOK', HeapStep, NEW t \in Threads, Return(t),
           UNCHANGED <<epoch, authority, commitMu, table>>
    PROVE  IInv'
<1> DEFINE point == IF t \in Workers THEN "loop" ELSE "idle"
<1>1. point \in Point \ CommitPoints /\ point \in Free
  BY DEF Point, Free, WorkerPoints, ClientPoints, CommitPoints
<1>2. pc' = [pc EXCEPT ![t] = point] /\ ref' = [ref EXCEPT ![t] = NoSlot]
  BY DEF Return, Enter
<1> QED BY <1>1, <1>2, MoveOut

\* The same, for a thread that changes nothing of its control state.
LEMMA StayInv ==
    ASSUME IInv, TypeOK', HeapStep, Stay, UNCHANGED <<epoch, authority, commitMu, table>>
    PROVE  IInv'
<1>1. RefOK' BY DEF IInv, TypeOK, RefOK, HeapStep, Allocated, Stay
<1>2. TableOK' BY DEF IInv, TypeOK, TableOK, HeapStep, Allocated
<1>3. LockOK' BY DEF IInv, TypeOK, LockOK, Stay
<1>4. FenceOK'
  <2> SUFFICES ASSUME NEW u \in Threads, pc[u] \in {"intent", "record"}
               PROVE  /\ heap'[ref[u]].epoch = epoch
                      /\ AuthorityMatches(authority, heap'[ref[u]].auth)
                      /\ heap'[ref[u]].commit_boundary_crossed
    BY DEF FenceOK, AuthorityMatches, Stay
  <2>2. ref[u] \in Allocated
    BY DEF IInv, RefOK, Free
  <2> QED BY <2>2 DEF IInv, FenceOK, HeapStep, SlotStep
<1> QED BY <1>1, <1>2, <1>3, <1>4 DEF IInv
-----------------------------------------------------------------------------
(* Every action preserves the invariant.                                    *)

LEMMA JournalStartInv ==
    ASSUME IInv, NEW c \in Clients, NEW k \in Kinds, JournalStart(c, k)
    PROVE  IInv' /\ HeapStep
<1> USE DEF JournalStart
<1>1. ref[c] \in Allocated /\ heap[ref[c]].attempt \in Attempts /\ c \in Threads
  BY DEF IInv, TypeOK, RefOK, StartPoint, Free, Threads, Slot
<1>2. CASE Goto(c, MarkPoint(k)) /\ UNCHANGED <<heap, cvVars, doubtful, refusals>>
  <2>1. HeapStep BY <1>2, HeapSame DEF IInv
  <2>2. MarkPoint(k) \in Point \ CommitPoints
    BY DEF MarkPoint, Point, ClientPoints, CommitPoints
  <2>3. TypeOK'
    BY <1>1, <1>2, <2>1, <2>2 DEF IInv, TypeOK, HeapStep, Goto, Point, AttemptPhase
  <2> QED BY <1>1, <1>2, <2>1, <2>2, <2>3, GotoInv
<1>3. CASE FinalizeLocked(ref[c], "rejected") /\ Return(c)
  <2>1. HeapStep /\ cvWork' \subseteq Threads /\ cvDone' \subseteq Threads
    BY <1>1, <1>3, FinalizeHeap DEF IInv, AttemptState, TerminalStates
  <2>2. refusals' \in 0 .. MaxRefusals
    BY NumberAssumption DEF IInv, TypeOK, Refuse
  <2>3. TypeOK'
    <3>1. attempts' \in [Attempts -> AttemptPhase] BY <1>1 DEF IInv, TypeOK, AttemptPhase
    <3>2. doubtful' \subseteq Attempts \X AttemptPhase BY <1>1 DEF IInv, TypeOK, AttemptPhase
    <3> QED BY <1>1, <1>3, <2>1, <2>2, <3>1, <3>2 DEF IInv, TypeOK, HeapStep, Return, Enter,
         AttemptState, WorkerPoints, ClientPoints
  <2> QED BY <1>1, <1>3, <2>1, <2>3, ReturnInv
<1> QED BY <1>2, <1>3

LEMMA MarkStartInv ==
    ASSUME IInv, NEW c \in Clients, NEW k \in Kinds, MarkStart(c, k)
    PROVE  IInv' /\ HeapStep
<1> USE DEF MarkStart
<1> DEFINE point == IF heap[ref[c]].pending_terminal THEN PendingPoint(k) ELSE AfterStart(k)
<1>1. ref[c] \in Allocated /\ heap[ref[c]] \in Slot /\ c \in Threads
  BY DEF IInv, TypeOK, RefOK, MarkPoint, Free, Threads
<1>2. SlotStep(heap[ref[c]],
               [heap[ref[c]] EXCEPT !.journalled_start = TRUE, !.pending_terminal = FALSE])
  BY <1>1 DEF Slot, SlotStep
<1>3. HeapStep
  BY <1>1, <1>2, HeapUpdate DEF IInv, TypeOK
<1>4. point \in Point \ CommitPoints
  BY DEF PendingPoint, AfterStart, Point, ClientPoints, CommitPoints
<1>5. TypeOK'
  BY <1>1, <1>3, <1>4 DEF IInv, TypeOK, HeapStep, Goto, Point
<1> QED BY <1>1, <1>3, <1>4, <1>5, GotoInv

LEMMA JournalPendingInv ==
    ASSUME IInv, NEW c \in Clients, NEW k \in Kinds, JournalPending(c, k)
    PROVE  IInv' /\ HeapStep
<1> USE DEF JournalPending
<1>1. ref[c] \in Allocated /\ c \in Threads
  BY DEF IInv, RefOK, PendingPoint, Free, Threads
<1>2. HeapStep BY HeapSame DEF IInv
<1>3. AfterStart(k) \in Point \ CommitPoints
  BY DEF AfterStart, Point, ClientPoints, CommitPoints
<1>4. TypeOK'
  BY <1>1, <1>2, <1>3, JournalTerminalType DEF IInv, TypeOK, HeapStep, Goto, Point, AttemptPhase
<1> QED BY <1>1, <1>2, <1>3, <1>4, GotoInv DEF JournalTerminal

LEMMA EnqueueInv ==
    ASSUME IInv, NEW c \in Clients, Enqueue(c)
    PROVE  IInv' /\ HeapStep
<1> USE DEF Enqueue
<1>1. ref[c] \in Allocated /\ heap[ref[c]].attempt \in Attempts /\ c \in Threads
  BY DEF IInv, TypeOK, RefOK, Free, Threads, Slot
<1>2. HeapStep /\ cvWork' \subseteq Threads /\ cvDone' \subseteq Threads
  <2>1. CASE FinalizeLocked(ref[c], "cancelled")
    BY <1>1, <2>1, FinalizeHeap DEF IInv, AttemptState, TerminalStates
  <2>2. CASE NotifyOneWork /\ UNCHANGED heap
    BY <2>2, HeapSame DEF IInv, TypeOK, NotifyOneWork
  <2> QED BY <2>1, <2>2
<1>3. queue' = queue \/ queue' = Append(queue, heap[ref[c]].attempt)
  OBVIOUS
<1>4. queue' \in Seq(Attempts)
  <2>1. queue \in Seq(Attempts) BY DEF IInv, TypeOK
  <2>2. Append(queue, heap[ref[c]].attempt) \in Seq(Attempts) BY <1>1, <2>1
  <2> QED BY <1>3, <2>1, <2>2
<1>5. TypeOK'
  BY <1>1, <1>2, <1>4 DEF IInv, TypeOK, HeapStep, Return, Enter, AttemptState, WorkerPoints,
     ClientPoints
<1> QED BY <1>1, <1>2, <1>5, ReturnInv

LEMMA PrepareRunInv ==
    ASSUME IInv, NEW c \in Clients, PrepareRun(c)
    PROVE  IInv' /\ HeapStep
<1> USE DEF PrepareRun
<1>1. ref[c] \in Allocated /\ heap[ref[c]] \in Slot /\ c \in Threads
  BY DEF IInv, TypeOK, RefOK, Free, Threads
<1>2. CASE Return(c) /\ UNCHANGED heap
  <2>1. HeapStep BY <1>2, HeapSame DEF IInv
  <2>2. TypeOK'
    BY <1>1, <1>2, <2>1 DEF IInv, TypeOK, HeapStep, Return, Enter, AttemptState, WorkerPoints,
       ClientPoints
  <2> QED BY <1>1, <1>2, <2>1, <2>2, ReturnInv
<1>3. CASE /\ ~heap[ref[c]].terminal
           /\ heap' = [heap EXCEPT ![ref[c]].running = TRUE, ![ref[c]].state = "running"]
           /\ Goto(c, "compute")
  <2>1. SlotStep(heap[ref[c]], [heap[ref[c]] EXCEPT !.running = TRUE, !.state = "running"])
    BY <1>1, <1>3 DEF Slot, SlotStep, AttemptState
  <2>2. HeapStep BY <1>1, <1>3, <2>1, HeapUpdate DEF IInv, TypeOK
  <2>3. "compute" \in Point \ CommitPoints BY DEF Point, SharedPoints, CommitPoints
  <2>4. TypeOK' BY <1>1, <1>3, <2>2, <2>3 DEF IInv, TypeOK, HeapStep, Goto, Point
  <2> QED BY <1>1, <1>3, <2>2, <2>3, <2>4, GotoInv
<1> QED BY <1>2, <1>3

LEMMA PrepareDecideInv ==
    ASSUME IInv, NEW c \in Clients, NEW d \in Decisions, PrepareDecide(c, d)
    PROVE  IInv' /\ HeapStep
<1> USE DEF PrepareDecide
<1>1. ref[c] \in Allocated /\ heap[ref[c]] \in Slot /\ c \in Threads
  BY DEF IInv, TypeOK, RefOK, Free, Threads
<1>2. SlotStep(heap[ref[c]], [heap[ref[c]] EXCEPT !.decision = d])
  BY <1>1 DEF Slot, SlotStep, Decisions
<1>3. HeapStep BY <1>1, <1>2, HeapUpdate DEF IInv, TypeOK
<1>4. prepared' \subseteq PreparedAttempt
  BY <1>1 DEF IInv, TypeOK, PreparedAttempt, Slot, Decisions
<1>5. TypeOK'
  BY <1>1, <1>3, <1>4 DEF IInv, TypeOK, HeapStep, Return, Enter, AttemptState, WorkerPoints,
     ClientPoints
<1> QED BY <1>1, <1>3, <1>5, ReturnInv

LEMMA CommitInv ==
    ASSUME IInv, NEW c \in Clients, NEW p \in prepared, Commit(c, p)
    PROVE  IInv' /\ HeapStep
<1> USE DEF Commit
<1> DEFINE s == table[p.attempt]
<1>1. s \in Allocated /\ heap[s] \in Slot /\ c \in Threads /\ s \in Slots
  BY DEF IInv, TypeOK, TableOK, PreparedAttempt, Threads
<1>2. CASE /\ heap' = [heap EXCEPT ![s] = [Finalized(@, "rejected") EXCEPT !.decision = "declined"]]
           /\ NotifyAll
           /\ Enter(c, "journal", s, "rejected")
  <2>1. SlotStep(heap[s], [Finalized(heap[s], "rejected") EXCEPT !.decision = "declined"])
    BY <1>1 DEF Slot, SlotStep, Finalized, AttemptState, TerminalStates
  <2>2. HeapStep BY <1>1, <1>2, <2>1, HeapUpdate DEF IInv, TypeOK
  <2>3. "journal" \in Point \ CommitPoints BY DEF Point, SharedPoints, CommitPoints
  <2>4. TypeOK'
    BY <1>1, <1>2, <2>2, <2>3 DEF IInv, TypeOK, HeapStep, Enter, Point, NotifyAll, AttemptState,
       TerminalStates
  <2> QED BY <1>1, <1>2, <2>2, <2>3, <2>4, EnterInv
<1>3. CASE Enter(c, "commit", s, "queued") /\ UNCHANGED <<heap, cvVars>>
  <2>1. HeapStep BY <1>3, HeapSame DEF IInv
  <2>2. "commit" \in Point \ CommitPoints BY DEF Point, SharedPoints, CommitPoints
  <2>3. TypeOK'
    BY <1>1, <1>3, <2>1, <2>2 DEF IInv, TypeOK, HeapStep, Enter, Point, AttemptState
  <2> QED BY <1>1, <1>3, <2>1, <2>2, <2>3, EnterInv
<1> QED BY <1>2, <1>3

\* The boundary.  Crossing it takes commit_mu, which no other thread holds, and
\* finds the slot's epoch and authority current.
LEMMA CommitSlotInv ==
    ASSUME IInv, NEW t \in Threads, CommitSlot(t)
    PROVE  IInv' /\ HeapStep
<1> USE DEF CommitSlot
<1>1. ref[t] \in Allocated /\ heap[ref[t]] \in Slot
  BY DEF IInv, TypeOK, RefOK, Free
<1>2. CASE BoundaryCode(ref[t]) = "ok"
  <2>1. /\ heap[ref[t]].epoch = epoch
        /\ AuthorityMatches(authority, heap[ref[t]].auth)
    BY <1>2 DEF BoundaryCode
  <2>2. SlotStep(heap[ref[t]], [heap[ref[t]] EXCEPT !.commit_boundary_crossed = TRUE])
    BY <1>1 DEF Slot, SlotStep
  <2>3. heap' = [heap EXCEPT ![ref[t]] = [heap[ref[t]] EXCEPT !.commit_boundary_crossed = TRUE]]
    BY <1>2
  <2>4. HeapStep BY <1>1, <2>2, <2>3, HeapUpdate DEF IInv, TypeOK
  <2>5. commitMu' = t /\ pc' = [pc EXCEPT ![t] = "intent"] /\ ref' = ref
    BY <1>2 DEF Goto
  <2>6. TypeOK'
    BY <1>2, <2>4, <2>5 DEF IInv, TypeOK, HeapStep, Goto, SharedPoints, CommitPoints
  <2>7. \A u \in Threads : pc[u] \notin CommitPoints
    BY ThreadAssumption DEF IInv, LockOK
  <2>8. RefOK' /\ TableOK'
    BY <1>1, <2>4, <2>5, <2>6, AllocatedGrows DEF IInv, TypeOK, RefOK, TableOK
  <2>9. LockOK' BY <2>5, <2>7 DEF IInv, TypeOK, LockOK
  <2>10. FenceOK'
    <3>1. \A u \in Threads : pc'[u] \in {"intent", "record"} => u = t
      BY <2>5, <2>7 DEF IInv, TypeOK, CommitPoints
    <3>2. /\ heap'[ref[t]].epoch = epoch
          /\ heap'[ref[t]].auth = heap[ref[t]].auth
          /\ heap'[ref[t]].commit_boundary_crossed
      BY <1>1, <2>1, <2>3 DEF IInv, TypeOK, Slot
    <3> QED BY <2>1, <2>5, <3>1, <3>2 DEF FenceOK, AuthorityMatches
  <2> QED BY <2>4, <2>6, <2>8, <2>9, <2>10 DEF IInv
<1>3. CASE BoundaryCode(ref[t]) # "ok"
  <2>1. Enter(t, "fail", ref[t], StateForFailure(BoundaryCode(ref[t]))) /\ UNCHANGED <<heap, commitMu>>
    BY <1>3
  <2>2. HeapStep BY <2>1, HeapSame DEF IInv
  <2>3. "fail" \in Point \ CommitPoints BY DEF Point, SharedPoints, CommitPoints
  <2>4. StateForFailure(BoundaryCode(ref[t])) \in AttemptState
    BY DEF StateForFailure, AttemptState, TerminalStates
  <2>5. TypeOK'
    BY <1>1, <2>1, <2>2, <2>3, <2>4 DEF IInv, TypeOK, HeapStep, Enter, Point
  <2> QED BY <1>1, <2>1, <2>2, <2>3, <2>5, EnterInv
<1> QED BY <1>2, <1>3

\* A thread that leaves the commit section releases commit_mu, which it holds.
LEMMA LeaveInv ==
    ASSUME IInv, TypeOK', HeapStep, NEW t \in Threads, NEW point \in Point \ CommitPoints, NEW s,
           pc[t] \in CommitPoints, commitMu' = NoThread,
           pc' = [pc EXCEPT ![t] = point], ref' = [ref EXCEPT ![t] = s],
           point \notin Free => s \in Allocated,
           UNCHANGED <<epoch, authority, table>>
    PROVE  IInv'
<1>1. \A u \in Threads : pc'[u] \notin CommitPoints
  BY DEF IInv, TypeOK, LockOK
<1>2. RefOK' /\ TableOK'
  BY AllocatedGrows DEF IInv, TypeOK, RefOK, TableOK
<1>3. LockOK' /\ FenceOK'
  BY <1>1 DEF LockOK, FenceOK, CommitPoints
<1> QED BY <1>2, <1>3 DEF IInv

LEMMA StatusReturnedInv ==
    ASSUME IInv, TypeOK', HeapStep, NEW t \in Threads, pc[t] \in CommitPoints,
           ref[t] \in Allocated, StatusReturned(t), UNCHANGED <<epoch, authority, table>>
    PROVE  IInv'
<1>1. "fail" \in Point \ CommitPoints BY DEF Point, SharedPoints, CommitPoints
<1>2. /\ commitMu' = NoThread
      /\ pc' = [pc EXCEPT ![t] = "fail"] /\ ref' = [ref EXCEPT ![t] = ref[t]]
  BY DEF StatusReturned, Enter
<1> QED BY <1>1, <1>2, LeaveInv

LEMMA ReadIntentInv ==
    ASSUME IInv, NEW t \in Threads, ReadIntent(t)
    PROVE  IInv' /\ HeapStep
<1> USE DEF ReadIntent
<1>1. ref[t] \in Allocated
  BY DEF IInv, RefOK, Free
<1>2. HeapStep BY HeapSame DEF IInv
<1>3. CASE Goto(t, "record") /\ UNCHANGED commitMu
  <2>1. "record" \in Point BY DEF Point, SharedPoints, CommitPoints
  <2>2. TypeOK' BY <1>2, <1>3, <2>1 DEF IInv, TypeOK, HeapStep, Goto, Point
  <2>3. pc' = [pc EXCEPT ![t] = "record"] /\ ref' = [ref EXCEPT ![t] = ref[t]]
    BY <1>3 DEF Goto, IInv, TypeOK
  <2>4. ref[t] \in Allocated' BY <1>1, <1>2, <2>2, AllocatedGrows DEF IInv
  <2>5. pc[t] \in CommitPoints /\ pc[t] \in {"intent", "record"} BY DEF CommitPoints
  <2> QED BY <1>2, <1>3, <2>1, <2>2, <2>3, <2>4, <2>5, MoveInv
<1>4. CASE StatusReturned(t)
  <2>1. "fail" \in Point \ CommitPoints BY DEF Point, SharedPoints, CommitPoints
  <2>2. TypeOK'
    BY <1>1, <1>2, <1>4, <2>1 DEF IInv, TypeOK, HeapStep, StatusReturned, Enter, Point,
       StateForFailure, AttemptState, TerminalStates
  <2> QED BY <1>1, <1>2, <1>4, <2>1, <2>2, StatusReturnedInv DEF CommitPoints
<1> QED BY <1>3, <1>4

LEMMA CommitRecordInv ==
    ASSUME IInv, NEW t \in Threads, CommitRecord(t)
    PROVE  IInv' /\ HeapStep
<1> USE DEF CommitRecord
<1> DEFINE record == RecordOf(ref[t])
<1>1. ref[t] \in Allocated /\ heap[ref[t]] \in Slot
  BY DEF IInv, TypeOK, RefOK, Free
<1>2. HeapStep BY HeapSame DEF IInv
<1>3. placements' \in Seq([attempt : Attempts, epoch : Nat, slot : Slots])
  <2>1. placements \in Seq([attempt : Attempts, epoch : Nat, slot : Slots]) BY DEF IInv, TypeOK
  <2>2. record \in [attempt : Attempts, epoch : Nat, slot : Slots]
    BY <1>1, AllocatedSlots DEF IInv, Slot, RecordOf
  <2>3. placements' = placements \/ placements' = Append(placements, record) OBVIOUS
  <2>4. Append(placements, record) \in Seq([attempt : Attempts, epoch : Nat, slot : Slots])
    BY <2>1, <2>2
  <2> QED BY <2>1, <2>3, <2>4
<1>6. indexed' \subseteq DOMAIN placements'
  <2>1. indexed \subseteq DOMAIN placements BY DEF IInv, TypeOK
  <2>2. DOMAIN placements \subseteq DOMAIN placements' /\ NewIndex \in DOMAIN Append(placements, record)
    BY DEF IInv, TypeOK, NewIndex
  <2> QED BY <2>1, <2>2
<1>4. CASE Goto(t, "journal_commit") /\ UNCHANGED <<commitMu, refusals>>
  <2>1. "journal_commit" \in Point BY DEF Point, SharedPoints, CommitPoints
  <2>2. TypeOK' BY <1>2, <1>3, <1>4, <1>6, <2>1 DEF IInv, TypeOK, HeapStep, Goto, Point
  <2>3. pc' = [pc EXCEPT ![t] = "journal_commit"] /\ ref' = [ref EXCEPT ![t] = ref[t]]
    BY <1>4 DEF Goto, IInv, TypeOK
  <2>4. ref[t] \in Allocated' BY <1>1, <1>2, <2>2, AllocatedGrows DEF IInv
  <2>5. pc[t] \in CommitPoints BY DEF CommitPoints
  <2> QED BY <1>2, <1>4, <2>1, <2>2, <2>3, <2>4, <2>5, MoveInv
<1>5. CASE StatusReturned(t)
  <2>1. "fail" \in Point \ CommitPoints BY DEF Point, SharedPoints, CommitPoints
  <2>2. refusals' \in 0 .. MaxRefusals
    BY <1>5, NumberAssumption DEF IInv, TypeOK, Refuse, StatusReturned
  <2>3. TypeOK'
    BY <1>1, <1>2, <1>3, <1>5, <1>6, <2>1, <2>2 DEF IInv, TypeOK, HeapStep, StatusReturned, Enter,
       Point, StateForFailure, AttemptState, TerminalStates
  <2> QED BY <1>1, <1>2, <1>5, <2>3, StatusReturnedInv DEF CommitPoints
<1> QED BY <1>4, <1>5

\* The last of some numbers, and with it the placement an attempt is known by.
LEMMA LargestNumber ==
    ASSUME NEW n \in Nat, NEW S, S \subseteq 1 .. n, S # {}
    PROVE  \E i \in S : \A j \in S : j <= i
<1> DEFINE T == {n - i : i \in S}
<1>1. T \subseteq Nat /\ T # {}
  <2>1. \A i \in S : i \in 1 .. n /\ n - i \in Nat OBVIOUS
  <2>2. \E i \in S : n - i \in T OBVIOUS
  <2> QED BY <2>1, <2>2
<1>2. \E m \in T : \A k \in T : <<k, m>> \notin OpToRel(<, Nat)
  BY <1>1, NatLessThanWellFounded, WFMin
<1>3. PICK m \in T : \A k \in T : <<k, m>> \notin OpToRel(<, Nat) BY <1>2
<1>4. \A k \in T : ~(k < m) BY <1>1, <1>3 DEF OpToRel
<1>5. PICK i \in S : m = n - i OBVIOUS
<1>6. ASSUME NEW j \in S PROVE j <= i
  <2>1. n - j \in T OBVIOUS
  <2>2. ~(n - j < n - i) BY <1>4, <1>5, <2>1
  <2> QED BY <2>2
<1> QED BY <1>6

LEMMA LatestPlacement ==
    ASSUME TypeOK, NEW a, HasPlacement(a)
    PROVE  /\ PlacementOf(a) \in indexed /\ placements[PlacementOf(a)].attempt = a
           /\ PlacementOf(a) \in DOMAIN placements
<1> DEFINE own == {i \in indexed : placements[i].attempt = a}
<1>1. own # {} BY DEF HasPlacement
<1>2. Len(placements) \in Nat /\ own \subseteq 1 .. Len(placements) /\ indexed \subseteq DOMAIN placements
  BY DEF TypeOK
<1> HIDE DEF own
<1>3. \E i \in own : \A j \in own : j <= i BY <1>1, <1>2, LargestNumber
<1>4. PlacementOf(a) = CHOOSE i \in own : \A j \in own : j <= i BY <1>1 DEF PlacementOf, own
<1>5. PlacementOf(a) \in own BY <1>3, <1>4
<1> QED BY <1>2, <1>5 DEF own

LEMMA JournalCommitInv ==
    ASSUME IInv, NEW t \in Threads, JournalCommit(t)
    PROVE  IInv' /\ HeapStep
<1> USE DEF JournalCommit
<1> DEFINE id == IF HasStore THEN PlacementOf(heap[ref[t]].attempt) ELSE Len(placements)
<1>1. ref[t] \in Allocated /\ heap[ref[t]] \in Slot
  BY DEF IInv, TypeOK, RefOK, Free
<1>2. id \in Nat
  <2>1. placements \in Seq([attempt : Attempts, epoch : Nat, slot : Slots]) BY DEF IInv, TypeOK
  <2>2. Len(placements) \in Nat /\ DOMAIN placements = 1 .. Len(placements) BY <2>1
  <2>3. PlacementOf(heap[ref[t]].attempt) \in Nat
    <3>1. CASE HasPlacement(heap[ref[t]].attempt)
      BY <2>2, <3>1, LatestPlacement DEF IInv
    <3>2. CASE ~HasPlacement(heap[ref[t]].attempt)
      BY <3>2 DEF PlacementOf, HasPlacement
    <3> QED BY <3>1, <3>2
  <2> QED BY <2>2, <2>3
<1>3. SlotStep(heap[ref[t]], [heap[ref[t]] EXCEPT !.placement_id = id])
  BY <1>1, <1>2 DEF Slot, SlotStep
<1>4. HeapStep BY <1>1, <1>3, HeapUpdate DEF IInv, TypeOK
<1>5. "finalize" \in Point /\ "finalize" \in CommitPoints /\ pc[t] \in CommitPoints
  BY DEF Point, SharedPoints, CommitPoints
<1>6. "committed" \in AttemptPhase BY DEF AttemptPhase
<1>7. TypeOK'
  BY <1>1, <1>4, <1>5, <1>6, JournalTerminalType DEF IInv, TypeOK, HeapStep, Goto, Point
<1>8. pc' = [pc EXCEPT ![t] = "finalize"] /\ ref' = [ref EXCEPT ![t] = ref[t]]
  BY DEF Goto, IInv, TypeOK
<1>9. ref[t] \in Allocated' BY <1>1, <1>4, <1>7, AllocatedGrows DEF IInv
<1> QED BY <1>4, <1>5, <1>7, <1>8, <1>9, MoveInv

LEMMA FinalizeCommitInv ==
    ASSUME IInv, NEW t \in Threads, FinalizeCommit(t)
    PROVE  IInv' /\ HeapStep
<1> USE DEF FinalizeCommit
<1>1. ref[t] \in Allocated
  BY DEF IInv, RefOK, Free
<1>2. HeapStep /\ cvWork' \subseteq Threads /\ cvDone' \subseteq Threads
  BY <1>1, FinalizeHeap DEF IInv, AttemptState, TerminalStates
<1>3. pc[t] \in CommitPoints BY DEF CommitPoints
<1>4. CASE t \in Workers
  <2>1. "finish" \in Point \ CommitPoints BY DEF Point, WorkerPoints, CommitPoints
  <2>2. TypeOK'
    BY <1>2, <1>4, <2>1 DEF IInv, TypeOK, HeapStep, EndAttempt, Goto, Point
  <2>3. pc' = [pc EXCEPT ![t] = "finish"] /\ ref' = [ref EXCEPT ![t] = ref[t]]
    BY <1>4 DEF EndAttempt, Goto, IInv, TypeOK
  <2> QED BY <1>1, <1>2, <1>3, <2>1, <2>2, <2>3, LeaveInv
<1>5. CASE t \notin Workers
  <2>1. "idle" \in Point \ CommitPoints /\ "idle" \in Free
    BY DEF Point, ClientPoints, CommitPoints, Free
  <2>2. TypeOK'
    BY <1>2, <1>5, <2>1 DEF IInv, TypeOK, HeapStep, EndAttempt, Return, Enter, Point, AttemptState
  <2>3. pc' = [pc EXCEPT ![t] = "idle"] /\ ref' = [ref EXCEPT ![t] = NoSlot]
    BY <1>5 DEF EndAttempt, Return, Enter
  <2> QED BY <1>2, <1>3, <2>1, <2>2, <2>3, LeaveInv
<1> QED BY <1>4, <1>5

LEMMA FailInv ==
    ASSUME IInv, NEW t \in Threads, Fail(t)
    PROVE  IInv' /\ HeapStep
<1> USE DEF Fail
<1>1. ref[t] \in Allocated /\ note[t] \in AttemptState
  BY DEF IInv, TypeOK, RefOK, Free
<1>2. HeapStep /\ cvWork' \subseteq Threads /\ cvDone' \subseteq Threads
  BY <1>1, FinalizeHeap DEF IInv
<1>3. CASE Goto(t, "journal")
  <2>1. "journal" \in Point \ CommitPoints BY DEF Point, SharedPoints, CommitPoints
  <2>2. TypeOK' BY <1>2, <1>3, <2>1 DEF IInv, TypeOK, HeapStep, Goto, Point
  <2> QED BY <1>1, <1>2, <1>3, <2>1, <2>2, GotoInv
<1>4. CASE Return(t)
  <2>1. TypeOK'
    BY <1>2, <1>4 DEF IInv, TypeOK, HeapStep, Return, Enter, AttemptState, WorkerPoints, ClientPoints
  <2> QED BY <1>2, <1>4, <2>1, ReturnInv
<1> QED BY <1>3, <1>4

LEMMA JournalInv ==
    ASSUME IInv, NEW t \in Threads, Journal(t)
    PROVE  IInv' /\ HeapStep
<1> USE DEF Journal
<1>1. ref[t] \in Allocated /\ PhaseForState(note[t]) \in AttemptPhase
  BY DEF IInv, RefOK, Free, PhaseForState, AttemptPhase
<1>2. HeapStep BY HeapSame DEF IInv
<1>3. /\ attempts' \in [Attempts -> AttemptPhase]
      /\ doubtful' \subseteq Attempts \X AttemptPhase
      /\ refusals' \in 0 .. MaxRefusals
      /\ UNCHANGED <<placements, indexed, retired, closed, restarts>>
  BY <1>1, JournalTerminalType DEF IInv
<1>4. CASE t \in Workers
  <2>1. "finish" \in Point \ CommitPoints BY DEF Point, WorkerPoints, CommitPoints
  <2>2. Goto(t, "finish") BY <1>4 DEF EndAttempt
  <2>3. TypeOK' BY <1>2, <1>3, <2>1, <2>2 DEF IInv, TypeOK, HeapStep, Goto, Point
  <2> QED BY <1>1, <1>2, <2>1, <2>2, <2>3, GotoInv
<1>5. CASE t \notin Workers
  <2>1. Return(t) BY <1>5 DEF EndAttempt
  <2>2. TypeOK'
    BY <1>2, <1>3, <2>1 DEF IInv, TypeOK, HeapStep, Return, Enter, AttemptState, WorkerPoints,
       ClientPoints
  <2> QED BY <1>2, <2>1, <2>2, ReturnInv
<1> QED BY <1>4, <1>5

LEMMA WorkerTakeInv ==
    ASSUME IInv, NEW w \in Workers, WorkerTake(w)
    PROVE  IInv' /\ HeapStep
<1> USE DEF WorkerTake
<1> DEFINE s == table[Head(queue)]
<1>1. Head(queue) \in Attempts /\ queue' \in Seq(Attempts) /\ w \in Threads
  <2>1. queue \in Seq(Attempts) /\ queue # <<>> BY DEF IInv, TypeOK
  <2> QED BY <2>1 DEF Threads
<1>2. CASE NotifyAll /\ Stay /\ UNCHANGED <<heap, active>>
  <2>1. HeapStep BY <1>2, HeapSame DEF IInv
  <2>2. TypeOK' BY <1>1, <1>2, <2>1 DEF IInv, TypeOK, HeapStep, NotifyAll, Stay
  <2> QED BY <1>2, <2>1, <2>2, StayInv
<1>3. CASE /\ s # NoSlot /\ ~heap[s].terminal
           /\ heap' = [heap EXCEPT ![s].state = "running", ![s].in_worker = TRUE]
           /\ active' = active + 1
           /\ Enter(w, "compute", s, "queued")
           /\ UNCHANGED cvVars
  <2>1. s \in Allocated /\ heap[s] \in Slot /\ s \in Slots
    BY <1>1, <1>3, AllocatedSlots DEF IInv, TypeOK, TableOK
  <2>2. SlotStep(heap[s], [heap[s] EXCEPT !.state = "running", !.in_worker = TRUE])
    BY <1>3, <2>1 DEF Slot, SlotStep, AttemptState
  <2>3. HeapStep BY <1>3, <2>1, <2>2, HeapUpdate DEF IInv, TypeOK
  <2>4. "compute" \in Point \ CommitPoints BY DEF Point, SharedPoints, CommitPoints
  <2>5. TypeOK'
    BY <1>1, <1>3, <2>1, <2>3, <2>4 DEF IInv, TypeOK, HeapStep, Enter, Point, AttemptState
  <2> QED BY <1>1, <1>3, <2>1, <2>3, <2>4, <2>5, EnterInv
<1> QED BY <1>2, <1>3

LEMMA WorkerDecideInv ==
    ASSUME IInv, NEW w \in Workers, NEW d \in Decisions, WorkerDecide(w, d)
    PROVE  IInv' /\ HeapStep
<1> USE DEF WorkerDecide
<1>1. ref[w] \in Allocated /\ heap[ref[w]] \in Slot /\ w \in Threads /\ ref[w] \in Slots
  BY AllocatedSlots DEF IInv, TypeOK, RefOK, Free, Threads
<1>2. SlotStep(heap[ref[w]], [heap[ref[w]] EXCEPT !.decision = d])
  BY <1>1 DEF Slot, SlotStep, Decisions
<1>3. HeapStep BY <1>1, <1>2, HeapSame, HeapUpdate DEF IInv, TypeOK
<1>4. {"finish", "commit", "fail"} \subseteq Point \ CommitPoints
  BY DEF Point, WorkerPoints, SharedPoints, CommitPoints
<1>5. TypeOK'
  BY <1>1, <1>3, <1>4 DEF IInv, TypeOK, HeapStep, Goto, Enter, Point, AttemptState, TerminalStates
<1> QED BY <1>1, <1>3, <1>4, <1>5, GotoInv, EnterInv

LEMMA WorkerFinishInv ==
    ASSUME IInv, NEW w \in Workers, WorkerFinish(w)
    PROVE  IInv' /\ HeapStep
<1> USE DEF WorkerFinish
<1>1. ref[w] \in Allocated /\ heap[ref[w]] \in Slot /\ w \in Threads
  BY DEF IInv, TypeOK, RefOK, Free, Threads
<1>2. SlotStep(heap[ref[w]], [heap[ref[w]] EXCEPT !.in_worker = FALSE])
  BY <1>1 DEF Slot, SlotStep
<1>3. HeapStep BY <1>1, <1>2, HeapUpdate DEF IInv, TypeOK
<1>4. active' \in Nat BY DEF IInv, TypeOK
<1>5. TypeOK'
  BY <1>1, <1>3, <1>4 DEF IInv, TypeOK, HeapStep, Return, Enter, NotifyAll, AttemptState,
     WorkerPoints, ClientPoints
<1> QED BY <1>1, <1>3, <1>5, ReturnInv

LEMMA WorkerIdleInv ==
    ASSUME IInv, NEW w \in Workers, WorkerSleep(w) \/ WorkerExit(w)
    PROVE  IInv' /\ HeapStep
<1>1. w \in Threads BY DEF Threads
<1>2. CASE WorkerSleep(w)
  <2>1. HeapStep BY <1>2, HeapSame DEF IInv, WorkerSleep
  <2>2. TypeOK' BY <1>1, <1>2, <2>1 DEF IInv, TypeOK, HeapStep, WorkerSleep, Stay
  <2> QED BY <1>2, <2>1, <2>2, StayInv DEF WorkerSleep
<1>3. CASE WorkerExit(w)
  <2>1. HeapStep BY <1>3, HeapSame DEF IInv, WorkerExit
  <2>2. "exit" \in Point \ CommitPoints /\ "exit" \in Free
    BY DEF Point, WorkerPoints, CommitPoints, Free
  <2>3. TypeOK' BY <1>1, <1>3, <2>1, <2>2 DEF IInv, TypeOK, HeapStep, WorkerExit, Goto, Point
  <2> QED BY <1>1, <1>3, <2>1, <2>2, <2>3, GotoInv DEF WorkerExit
<1> QED BY <1>2, <1>3

LEMMA CancelInv ==
    ASSUME IInv, NEW c \in Clients, NEW a \in Attempts, Cancel(c, a)
    PROVE  IInv' /\ HeapStep
<1> DEFINE s == table[a]
<1> USE DEF Cancel
<1>1. s \in Allocated /\ heap[s] \in Slot /\ s \in Slots /\ c \in Threads
  BY AllocatedSlots DEF IInv, TypeOK, TableOK, Threads
<1>2. SlotStep(heap[s], [heap[s] EXCEPT !.cancel_requested = TRUE])
  BY <1>1 DEF Slot, SlotStep
<1>3. SlotStep(heap[s], [Finalized(heap[s], "cancelled") EXCEPT
                             !.cancel_requested = TRUE, !.pending_terminal = ~StartIsDurable(s)])
  BY <1>1 DEF Slot, SlotStep, Finalized, AttemptState, TerminalStates, StartIsDurable
<1>4. HeapStep
  BY <1>1, <1>2, <1>3, HeapUpdate DEF IInv, TypeOK
<1>5. "journal" \in Point \ CommitPoints BY DEF Point, SharedPoints, CommitPoints
<1>6. TypeOK'
  BY <1>1, <1>4, <1>5 DEF IInv, TypeOK, HeapStep, NotifyAll, Stay, Enter, Point, AttemptState,
     TerminalStates
<1> QED BY <1>1, <1>4, <1>5, <1>6, EnterInv, StayInv

\* The fence moves only while nobody is between the boundary and the append.
LEMMA FenceMoves ==
    ASSUME IInv, NEW c \in Clients,
           \/ AdvanceEpoch(c)
           \/ \E e \in Epochs, g \in Auths \cup {Unconstrained} : SetAuthority(c, e, g)
    PROVE  IInv' /\ HeapStep
<1> USE DEF AdvanceEpoch, SetAuthority
<1>1. HeapStep BY HeapSame DEF IInv
<1>2. epoch' \in Epochs
  BY NumberAssumption DEF IInv, TypeOK, Epochs
<1>3. TypeOK' BY <1>1, <1>2 DEF IInv, TypeOK, HeapStep, Stay
<1>4. \A u \in Threads : pc'[u] \notin CommitPoints
  BY ThreadAssumption DEF IInv, LockOK, FenceLock, Stay
<1>5. RefOK' /\ TableOK' BY <1>1, <1>3, AllocatedGrows DEF IInv, RefOK, TableOK, Stay
<1>6. LockOK' /\ FenceOK' BY <1>4 DEF LockOK, FenceOK, CommitPoints
<1> QED BY <1>1, <1>3, <1>5, <1>6 DEF IInv

LEMMA AwaitInv ==
    ASSUME IInv, NEW c \in Clients, Await(c) \/ \E a \in Attempts : AwaitCall(c, a)
    PROVE  IInv' /\ HeapStep
<1>1. c \in Threads BY DEF Threads
<1>2. ASSUME NEW a \in Attempts, AwaitCall(c, a) PROVE IInv' /\ HeapStep
  <2>1. HeapStep BY <1>2, HeapSame DEF IInv, AwaitCall
  <2>2. table[a] \in Allocated /\ table[a] \in Slots
    BY <1>2, AllocatedSlots DEF IInv, TypeOK, TableOK, AwaitCall
  <2>3. "await" \in Point \ CommitPoints BY DEF Point, ClientPoints, CommitPoints
  <2>4. TypeOK'
    BY <1>1, <1>2, <2>1, <2>2, <2>3 DEF IInv, TypeOK, HeapStep, AwaitCall, Enter, Point, AttemptState
  <2> QED BY <1>1, <1>2, <2>1, <2>2, <2>3, <2>4, EnterInv DEF AwaitCall
<1>3. CASE Await(c)
  <2> USE DEF Await
  <2>1. ref[c] \in Allocated BY <1>1, <1>3 DEF IInv, RefOK, Free
  <2>2. CASE cvDone' = cvDone \cup {c} /\ Stay /\ UNCHANGED <<heap, cvWork>>
    <3>1. HeapStep BY <1>3, <2>2, HeapSame DEF IInv
    <3>2. TypeOK' BY <1>1, <1>3, <2>2, <3>1 DEF IInv, TypeOK, HeapStep, Stay
    <3> QED BY <1>3, <2>2, <3>1, <3>2, StayInv
  <2>3. CASE FinalizeLocked(ref[c], "failed") /\ Return(c)
    <3>1. HeapStep /\ cvWork' \subseteq Threads /\ cvDone' \subseteq Threads
      BY <1>3, <2>1, <2>3, FinalizeHeap DEF IInv, AttemptState, TerminalStates
    <3>2. TypeOK'
      BY <1>1, <1>3, <2>3, <3>1 DEF IInv, TypeOK, HeapStep, Return, Enter, AttemptState,
         WorkerPoints, ClientPoints
    <3> QED BY <1>1, <1>3, <2>3, <3>1, <3>2, ReturnInv
  <2> QED BY <1>3, <2>2, <2>3
<1> QED BY <1>2, <1>3

LEMMA DrainInv ==
    ASSUME IInv, NEW c \in Clients, DrainCall(c) \/ Drain(c)
    PROVE  IInv' /\ HeapStep
<1>1. c \in Threads BY DEF Threads
<1>2. HeapStep BY HeapSame DEF IInv, DrainCall, Drain
<1>3. UNCHANGED <<epoch, authority, commitMu, table>> BY DEF DrainCall, Drain
<1>4. "drain" \in Point \ CommitPoints /\ "drain" \in Free
  BY DEF Point, ClientPoints, CommitPoints, Free
<1>5. TypeOK'
  BY <1>1, <1>2, <1>4 DEF IInv, TypeOK, HeapStep, DrainCall, Drain, Goto, Stay, Return, Enter,
     Point, AttemptState, WorkerPoints, ClientPoints
<1>6. Goto(c, "drain") \/ Stay \/ Return(c) BY DEF DrainCall, Drain
<1> QED BY <1>1, <1>2, <1>3, <1>4, <1>5, <1>6, GotoInv, StayInv, ReturnInv

LEMMA ShutdownInv ==
    ASSUME IInv, NEW c \in Clients, NEW k \in BOOLEAN, Shutdown(c, k)
    PROVE  IInv' /\ HeapStep
<1> DEFINE Swept(s) == [Finalized(heap[s], "cancelled") EXCEPT
                            !.cancel_requested = TRUE,
                            !.pending_terminal = ~StartIsDurable(s)]
<1>1. c \in Threads BY DEF Threads
<1>2. ASSUME NEW s \in Allocated PROVE SlotStep(heap[s], Swept(s)) /\ SlotStep(heap[s], heap[s])
  <2>1. heap[s] \in Slot BY DEF IInv, TypeOK
  <2> QED BY <2>1 DEF Slot, SlotStep, Finalized, AttemptState, TerminalStates, StartIsDurable
<1>3. heap' = [s \in Allocated |-> IF s \in ShutdownSweep(k) THEN Swept(s) ELSE heap[s]]
  BY DEF IInv, TypeOK, Shutdown
<1>4. \A s \in Allocated : SlotStep(heap[s], heap'[s])
  BY <1>2, <1>3
<1>5. HeapStep
  <2>1. nextSlot \in Nat BY DEF IInv, TypeOK
  <2>2. nextSlot' = nextSlot BY DEF Shutdown
  <2>3. nextSlot' >= nextSlot /\ Allocated' = Allocated BY <2>1, <2>2 DEF Allocated
  <2>4. heap' \in [Allocated -> Slot]
    BY <1>3, <1>4 DEF SlotStep
  <2> QED BY <1>4, <2>3, <2>4 DEF HeapStep
<1>6. cancelled' \subseteq Attempts
  <2>1. ASSUME NEW s \in ShutdownSweep(k) PROVE heap[s].attempt \in Attempts
    <3>1. PICK a \in Attempts : table[a] = s BY DEF ShutdownSweep
    <3>2. s \in Slots BY DEF ShutdownSweep
    <3>3. s # NoSlot BY <3>2 DEF Slots, NoSlot
    <3>4. s \in Allocated BY <3>1, <3>3 DEF IInv, TableOK
    <3> QED BY <3>4 DEF IInv, TypeOK, Slot
  <2> QED BY <2>1 DEF Shutdown
<1>7. "sd_journal" \in Point \ CommitPoints /\ "sd_journal" \in Free
  BY DEF Point, ClientPoints, CommitPoints, Free
<1>8. queue' \in Seq(Attempts)
  <2>1. queue' = <<>> BY DEF Shutdown
  <2> QED BY <2>1, EmptySeq
<1>9. TypeOK'
  BY <1>1, <1>5, <1>6, <1>7, <1>8 DEF IInv, TypeOK, HeapStep, NotifyAll, Goto, Point,
     Shutdown
<1> QED BY <1>1, <1>5, <1>7, <1>9, GotoInv DEF Shutdown

LEMMA ShutdownWaitInv ==
    ASSUME IInv, NEW c \in Clients, ShutdownSecond(c) \/ ShutdownWait(c)
    PROVE  IInv' /\ HeapStep
<1>1. c \in Threads BY DEF Threads
<1>2. HeapStep BY HeapSame DEF IInv, ShutdownSecond, ShutdownWait
<1>3. UNCHANGED <<epoch, authority, commitMu, table>> BY DEF ShutdownSecond, ShutdownWait
<1>4. "sd_wait" \in Point \ CommitPoints /\ "sd_wait" \in Free
  BY DEF Point, ClientPoints, CommitPoints, Free
<1>5. TypeOK'
  BY <1>1, <1>2, <1>4 DEF IInv, TypeOK, HeapStep, ShutdownSecond, ShutdownWait, Goto, Stay,
     Return, Enter, Point, AttemptState, WorkerPoints, ClientPoints
<1>6. Goto(c, "sd_wait") \/ Stay \/ Return(c) BY DEF ShutdownSecond, ShutdownWait
<1> QED BY <1>1, <1>2, <1>3, <1>4, <1>5, <1>6, GotoInv, StayInv, ReturnInv

LEMMA ShutdownJournalInv ==
    ASSUME IInv, NEW c \in Clients, ShutdownJournal(c)
    PROVE  IInv' /\ HeapStep
<1>1. c \in Threads BY DEF Threads
<1>2. HeapStep BY HeapSame DEF IInv, ShutdownJournal
<1>3. UNCHANGED <<epoch, authority, commitMu, table>> BY DEF ShutdownJournal
<1>4. /\ attempts' \in [Attempts -> AttemptPhase]
      /\ doubtful' \subseteq Attempts \X AttemptPhase
      /\ refusals' \in 0 .. MaxRefusals
      /\ UNCHANGED <<placements, indexed, retired, closed, restarts>>
  <2>1. CASE UNCHANGED <<ledger, bounds>> BY <2>1 DEF IInv, TypeOK
  <2>2. CASE \E a \in cancelled : table[a] # NoSlot /\ JournalTerminal(table[a], "cancelled")
    <3>1. PICK a \in Attempts : table[a] # NoSlot /\ JournalTerminal(table[a], "cancelled")
      BY <2>2 DEF IInv, TypeOK
    <3>2. table[a] \in Allocated BY <3>1 DEF IInv, TableOK
    <3>3. "cancelled" \in AttemptPhase BY DEF AttemptPhase
    <3> QED BY <3>1, <3>2, <3>3, JournalTerminalType DEF IInv
  <2> QED BY <2>1, <2>2 DEF ShutdownJournal
<1>5. "sd_join" \in Point \ CommitPoints /\ "sd_join" \in Free
  BY DEF Point, ClientPoints, CommitPoints, Free
<1>6. cancelled' \subseteq Attempts BY DEF IInv, TypeOK, ShutdownJournal
<1>7. Goto(c, "sd_join") \/ Stay BY DEF ShutdownJournal
<1>8. /\ UNCHANGED <<runState, queue, nextSlot, active, cvWork, cvDone, prepared>>
  BY DEF ShutdownJournal
<1>9. TypeOK'
  BY <1>1, <1>2, <1>3, <1>4, <1>5, <1>6, <1>7, <1>8 DEF IInv, TypeOK, HeapStep, Goto, Stay, Point
<1> QED BY <1>1, <1>2, <1>3, <1>5, <1>7, <1>9, GotoInv, StayInv

LEMMA ShutdownEndInv ==
    ASSUME IInv, NEW c \in Clients, ShutdownJoin(c) \/ ShutdownClose(c)
    PROVE  IInv' /\ HeapStep
<1>1. c \in Threads BY DEF Threads
<1>2. HeapStep BY HeapSame DEF IInv, ShutdownJoin, ShutdownClose
<1>3. UNCHANGED <<epoch, authority, commitMu, table>> BY DEF ShutdownJoin, ShutdownClose
<1>4. "sd_close" \in Point \ CommitPoints /\ "sd_close" \in Free
  BY DEF Point, ClientPoints, CommitPoints, Free
<1>5. TypeOK'
  BY <1>1, <1>2, <1>4, NumberAssumption DEF IInv, TypeOK, HeapStep, ShutdownJoin, ShutdownClose,
     Goto, Return, Enter, NotifyAll, Point, AttemptState, WorkerPoints, ClientPoints
<1>6. Goto(c, "sd_close") \/ Return(c) BY DEF ShutdownJoin, ShutdownClose
<1> QED BY <1>1, <1>2, <1>3, <1>4, <1>5, <1>6, GotoInv, ReturnInv

LEMMA InitInv == Init => IInv
<1> SUFFICES ASSUME Init PROVE IInv OBVIOUS
<1>1. queue \in Seq(Attempts) /\ placements \in Seq([attempt : Attempts, epoch : Nat, slot : Slots])
  BY EmptySeq DEF Init
<1>2. heap \in [Allocated -> Slot] BY DEF Init, Allocated
<1>3. epoch \in Epochs BY NumberAssumption DEF Init, Epochs
<1>4. nextSlot \in 1 .. (MaxSlots + 1) BY NumberAssumption DEF Init
<1>5. restarts \in 0 .. MaxRestarts /\ refusals \in 0 .. MaxRefusals
  BY NumberAssumption DEF Init
<1>6. TypeOK
  BY <1>1, <1>2, <1>3, <1>4, <1>5 DEF Init, TypeOK, FreshThreads, WorkerPoints, ClientPoints,
     AttemptState, AttemptPhase
<1>7. RefOK /\ LockOK /\ FenceOK
  BY DEF Init, RefOK, LockOK, FenceOK, FreshThreads, Free, CommitPoints
<1>8. TableOK BY DEF Init, TableOK
<1> QED BY <1>6, <1>7, <1>8 DEF IInv

LEMMA RangeNext == \A m, n \in Nat : n = m + 1 => 1 .. (n - 1) = 1 .. m
OBVIOUS

\* Reaping only forgets attempts.
LEMMA ReapedTableKeeps ==
    ASSUME NEW tab, NEW obj, NEW order, NEW a \in Attempts
    PROVE  ReapedTable(tab, obj, order)[a] \in {NoSlot, tab[a]}
BY DEF ReapedTable

LEMMA RegisterInv ==
    ASSUME IInv, NEW c \in Clients, NEW k \in Kinds, NEW a \in Attempts, NEW g \in Auths,
           RegisterAttempt(c, k, a, g)
    PROVE  IInv' /\ HeapStep
<1> DEFINE obj == [s \in 1 .. nextSlot |->
                      IF s = nextSlot THEN NewSlot(a, epoch, g) ELSE heap[s]]
           tab == [table EXCEPT ![a] = nextSlot]
           order == Append(slotOrder, a)
           point == IF HasStore THEN StartPoint(k) ELSE AfterStart(k)
<1>1. c \in Threads /\ nextSlot \in Nat /\ nextSlot' \in Nat /\ nextSlot' = nextSlot + 1
  BY DEF IInv, TypeOK, RegisterAttempt, Threads
<1>2. Allocated' = 1 .. nextSlot
  BY <1>1, RangeNext DEF Allocated
<1>3. /\ nextSlot' \in 1 .. (MaxSlots + 1)
      /\ nextSlot \in Slots
  BY <1>1, NumberAssumption DEF IInv, TypeOK, RegisterAttempt, Slots
<1>4. NewSlot(a, epoch, g) \in Slot
  BY NumberAssumption DEF NewSlot, Slot, AttemptState, IInv, TypeOK, Epochs
<1>5. Allocated \subseteq 1 .. nextSlot /\ \A s \in 1 .. nextSlot : s # nextSlot => s \in Allocated
  BY <1>1 DEF Allocated
<1>6. heap' = obj BY DEF RegisterAttempt
<1>7. HeapStep
  <2>1. nextSlot' >= nextSlot BY <1>1
  <2>2. heap' \in [Allocated' -> Slot]
    BY <1>2, <1>4, <1>5, <1>6 DEF IInv, TypeOK
  <2>3. ASSUME NEW s \in Allocated PROVE SlotStep(heap[s], heap'[s])
    <3>1. s # nextSlot BY <1>1 DEF Allocated
    <3>2. heap'[s] = heap[s] /\ heap[s] \in Slot BY <1>5, <1>6, <3>1 DEF IInv, TypeOK
    <3> QED BY <3>2 DEF SlotStep
  <2> QED BY <2>1, <2>2, <2>3 DEF HeapStep
<1>8. table' = ReapedTable(tab, obj, order) BY DEF RegisterAttempt
<1>9. \A b \in Attempts : table'[b] \in {NoSlot, nextSlot, table[b]}
  <2>1. \A b \in Attempts : tab[b] \in {nextSlot, table[b]} BY DEF IInv, TypeOK
  <2> HIDE DEF tab, obj, order
  <2> QED BY <1>8, <2>1, ReapedTableKeeps
<1>10. table' \in [Attempts -> Slots \cup {NoSlot}]
  <2> HIDE DEF tab, obj, order
  <2>1. \A b \in Attempts : table'[b] \in Slots \cup {NoSlot} BY <1>3, <1>9 DEF IInv, TypeOK
  <2> QED BY <1>8, <2>1 DEF ReapedTable
<1>11. TableOK'
  BY <1>1, <1>2, <1>5, <1>9 DEF IInv, TypeOK, TableOK, Slots
<1>12. point \in Point \ CommitPoints
  BY DEF Point, StartPoint, AfterStart, ClientPoints, CommitPoints
<1>13. /\ pc' = [pc EXCEPT ![c] = point]
       /\ ref' = [ref EXCEPT ![c] = nextSlot]
       /\ note' = [note EXCEPT ![c] = "queued"]
       /\ UNCHANGED <<runState, epoch, authority, queue, active, commitMu, cvWork, cvDone,
                      cancelled, prepared, placements, indexed, attempts, doubtful, retired,
                      closed, restarts, refusals>>
  BY DEF RegisterAttempt, Enter
<1>14. TypeOK'
  BY <1>1, <1>3, <1>7, <1>10, <1>12, <1>13 DEF IInv, TypeOK, HeapStep, Point, AttemptState
<1>15. RefOK'
  <2> SUFFICES ASSUME NEW u \in Threads, pc'[u] \notin Free PROVE ref'[u] \in 1 .. nextSlot
    BY <1>2 DEF RefOK
  <2>1. nextSlot \in 1 .. nextSlot BY DEF IInv, TypeOK
  <2> QED BY <1>5, <1>13, <2>1 DEF IInv, TypeOK, RefOK
<1>16. LockOK' BY <1>12, <1>13 DEF IInv, TypeOK, LockOK
<1>17. FenceOK'
  <2> SUFFICES ASSUME NEW u \in Threads, pc'[u] \in {"intent", "record"}
               PROVE  /\ heap'[ref'[u]].epoch = epoch'
                      /\ AuthorityMatches(authority', heap'[ref'[u]].auth)
                      /\ heap'[ref'[u]].commit_boundary_crossed
    BY DEF FenceOK, AuthorityMatches
  <2>1. pc[u] \in {"intent", "record"} /\ ref'[u] = ref[u]
    BY <1>12, <1>13 DEF IInv, TypeOK, CommitPoints
  <2>2. ref[u] \in Allocated
    BY <2>1 DEF IInv, RefOK, Free
  <2> QED BY <1>7, <1>13, <2>1, <2>2 DEF IInv, FenceOK, HeapStep, SlotStep, AuthorityMatches
<1> QED BY <1>7, <1>11, <1>14, <1>15, <1>16, <1>17 DEF IInv

LEMMA RestartInv ==
    ASSUME IInv, NEW e \in Epochs, Restart(e)
    PROVE  IInv' /\ HeapStep
<1>1. HeapStep BY HeapSame DEF IInv, Restart
<1>2. queue' \in Seq(Attempts) BY EmptySeq DEF Restart
<1>3. restarts' \in 0 .. MaxRestarts BY NumberAssumption DEF IInv, TypeOK, Restart
<1>4. /\ attempts' \in [Attempts -> AttemptPhase]
      /\ retired' \subseteq Attempts
      /\ indexed' \subseteq DOMAIN placements
  <2>1. PICK kept \in RecoveredPlacements, phases \in [Attempts -> AttemptPhase] :
            /\ indexed' = kept
            /\ attempts' = Accounted(kept, phases)
            /\ retired' = retired \cup {a \in Attempts : phases[a] = "none" /\ attempts[a] # "none"}
    BY DEF Restart, Recover
  <2>2. kept \subseteq DOMAIN placements BY DEF RecoveredPlacements, Superseded, IInv, TypeOK
  <2>3. attempts' \in [Attempts -> AttemptPhase] BY <2>1 DEF Accounted, AttemptPhase
  <2> QED BY <2>1, <2>2, <2>3 DEF IInv, TypeOK
<1>5. TypeOK'
  BY <1>1, <1>2, <1>3, <1>4 DEF IInv, TypeOK, HeapStep, Restart, FreshThreads, WorkerPoints,
     ClientPoints, AttemptState
<1>6. RefOK' /\ LockOK' /\ FenceOK'
  BY DEF Restart, RefOK, LockOK, FenceOK, FreshThreads, Free, CommitPoints
<1>7. TableOK' BY DEF Restart, TableOK
<1> QED BY <1>1, <1>5, <1>6, <1>7 DEF IInv

-----------------------------------------------------------------------------
(* The theorems.                                                           *)

LEMMA StutterInv == ASSUME IInv, UNCHANGED vars PROVE IInv' /\ HeapStep
<1>1. HeapStep /\ Stay BY HeapSame DEF IInv, vars, Stay
<1>2. TypeOK' BY <1>1 DEF IInv, TypeOK, HeapStep, vars
<1> QED BY <1>1, <1>2, StayInv DEF vars

LEMMA NextInv == ASSUME IInv, [Next]_vars PROVE IInv' /\ HeapStep
<1>1. CASE UNCHANGED vars BY <1>1, StutterInv
<1>2. ASSUME NEW c \in Clients, ClientCall(c) PROVE IInv' /\ HeapStep
  BY <1>2, RegisterInv, CommitInv, CancelInv, AwaitInv, FenceMoves, DrainInv, ShutdownInv,
     ShutdownWaitInv DEF ClientCall
<1>3. ASSUME NEW c \in Clients, ClientStep(c) PROVE IInv' /\ HeapStep
  BY <1>3, JournalStartInv, MarkStartInv, JournalPendingInv, EnqueueInv, PrepareRunInv, AwaitInv,
     DrainInv, PrepareDecideInv, ShutdownWaitInv, ShutdownJournalInv, ShutdownEndInv DEF ClientStep
<1>4. ASSUME NEW w \in Workers, WorkerStep(w) PROVE IInv' /\ HeapStep
  BY <1>4, WorkerIdleInv, WorkerTakeInv, WorkerFinishInv, WorkerDecideInv DEF WorkerStep
<1>5. ASSUME NEW t \in Threads, CommitStep(t) PROVE IInv' /\ HeapStep
  BY <1>5, CommitSlotInv, ReadIntentInv, CommitRecordInv, JournalCommitInv, FinalizeCommitInv,
     FailInv, JournalInv DEF CommitStep
<1>6. ASSUME NEW e \in Epochs, Restart(e) PROVE IInv' /\ HeapStep
  BY <1>6, RestartInv
<1> QED BY <1>1, <1>2, <1>3, <1>4, <1>5, <1>6 DEF Next

\* How the slot s is changed by a client, by a worker, and by any thread in CommitSlot.
Ended(s, state) == ~heap[s].terminal /\ heap'[s] = [heap[s] EXCEPT !.state = state, !.terminal = TRUE]
CancelledSlot(s) ==
    /\ ~heap[s].terminal
    /\ heap'[s] = [heap[s] EXCEPT !.state = "cancelled", !.terminal = TRUE,
                     !.cancel_requested = TRUE, !.pending_terminal = ~heap[s].journalled_start]
ClientTouches(s, c) ==
    \/ /\ s = ref[c] /\ \E k \in Kinds : JournalStart(c, k)
       /\ Ended(s, "rejected")
    \/ /\ s = ref[c] /\ \E k \in Kinds : MarkStart(c, k)
       /\ heap'[s] = [heap[s] EXCEPT !.journalled_start = TRUE, !.pending_terminal = FALSE]
    \/ /\ s = ref[c] /\ Enqueue(c)
       /\ Ended(s, "cancelled")
    \/ /\ s = ref[c] /\ PrepareRun(c) /\ ~heap[s].terminal
       /\ heap'[s] = [heap[s] EXCEPT !.running = TRUE, !.state = "running"]
    \/ /\ s = ref[c] /\ Await(c)
       /\ Ended(s, "failed")
    \/ /\ s = ref[c]
       /\ \E d \in Decisions : PrepareDecide(c, d) /\ heap'[s] = [heap[s] EXCEPT !.decision = d]
    \/ /\ \E p \in prepared : Commit(c, p) /\ s = table[p.attempt] /\ p.decision = "declined"
       /\ ~heap[s].terminal
       /\ heap'[s] = [heap[s] EXCEPT !.state = "rejected", !.terminal = TRUE, !.decision = "declined"]
    \/ \E a \in Attempts :
          /\ Cancel(c, a) /\ s = table[a]
          /\ \/ /\ heap[s].running \/ heap[s].in_worker
                /\ heap'[s] = [heap[s] EXCEPT !.cancel_requested = TRUE]
             \/ /\ ~heap[s].running /\ ~heap[s].in_worker
                /\ CancelledSlot(s)
    \/ /\ \E k \in BOOLEAN : Shutdown(c, k) /\ s \in ShutdownSweep(k)
       /\ CancelledSlot(s)
WorkerTouches(s, w) ==
    \/ /\ WorkerTake(w) /\ s = table[Head(queue)] /\ ~heap[s].terminal
       /\ heap'[s] = [heap[s] EXCEPT !.state = "running", !.in_worker = TRUE]
    \/ /\ s = ref[w] /\ WorkerFinish(w)
       /\ heap'[s] = [heap[s] EXCEPT !.in_worker = FALSE]
    \/ /\ s = ref[w] /\ ~heap[s].terminal
       /\ \E d \in Decisions : WorkerDecide(w, d) /\ heap'[s] = [heap[s] EXCEPT !.decision = d]
CommitTouches(s, t) ==
    /\ s = ref[t]
    /\ \/ /\ CommitSlot(t) /\ BoundaryCode(s) = "ok"
          /\ heap'[s] = [heap[s] EXCEPT !.commit_boundary_crossed = TRUE]
       \/ /\ JournalCommit(t)
          /\ heap'[s] = [heap[s] EXCEPT !.placement_id =
                            IF HasStore THEN PlacementOf(heap[s].attempt) ELSE Len(placements)]
       \/ FinalizeCommit(t) /\ Ended(s, "committed")
       \/ Fail(t) /\ Ended(s, note[t])

LEMMA FinalizeTouches ==
    ASSUME IInv, NEW s \in Allocated, heap'[s] # heap[s], NEW r, NEW state, FinalizeLocked(r, state)
    PROVE  s = r /\ Ended(s, state)
<1>1. heap' = [heap EXCEPT ![r] = Finalized(heap[r], state)] BY DEF FinalizeLocked
<1>2. s = r /\ heap'[s] = Finalized(heap[s], state) BY <1>1 DEF IInv, TypeOK
<1> QED BY <1>2 DEF Finalized, Ended

\* Nothing else changes a slot that exists.
LEMMA SlotTouched ==
    ASSUME IInv, [Next]_vars, NEW s \in Allocated, heap'[s] # heap[s]
    PROVE  \/ \E c \in Clients : ClientTouches(s, c)
           \/ \E w \in Workers : WorkerTouches(s, w)
           \/ \E t \in Threads : CommitTouches(s, t)
<1>1. heap \in [Allocated -> Slot] BY DEF IInv, TypeOK
<1>2. ASSUME UNCHANGED heap PROVE FALSE BY <1>2
<1>3. ASSUME NEW c \in Clients, ClientCall(c) PROVE ClientTouches(s, c)
  <2>1. ASSUME NEW k \in Kinds, NEW a \in Attempts, NEW g \in Auths, RegisterAttempt(c, k, a, g)
        PROVE  FALSE
    <3>1. nextSlot \in Nat BY DEF IInv, TypeOK
    <3>2. s \in 1 .. nextSlot /\ s # nextSlot BY <3>1 DEF Allocated
    <3>3. heap' = [r \in 1 .. nextSlot |->
                      IF r = nextSlot THEN NewSlot(a, epoch, g) ELSE heap[r]]
      BY <2>1 DEF RegisterAttempt
    <3> QED BY <3>2, <3>3
  <2>2. ASSUME NEW p \in prepared, Commit(c, p) PROVE ClientTouches(s, c)
    <3>1. /\ p.decision = "declined" /\ ~heap[table[p.attempt]].terminal
          /\ heap' = [heap EXCEPT ![table[p.attempt]] =
                [Finalized(heap[table[p.attempt]], "rejected") EXCEPT !.decision = "declined"]]
      BY <1>2, <2>2 DEF Commit
    <3>2. /\ s = table[p.attempt]
          /\ heap'[s] = [Finalized(heap[s], "rejected") EXCEPT !.decision = "declined"]
      BY <1>1, <3>1
    <3>3. heap'[s] = [heap[s] EXCEPT !.state = "rejected", !.terminal = TRUE, !.decision = "declined"]
      BY <3>1, <3>2 DEF Finalized
    <3> QED BY <2>2, <3>1, <3>2, <3>3 DEF ClientTouches
  <2>3. ASSUME NEW a \in Attempts, Cancel(c, a) PROVE ClientTouches(s, c)
    <3>1. CASE /\ heap[table[a]].running \/ heap[table[a]].in_worker
               /\ heap' = [heap EXCEPT ![table[a]].cancel_requested = TRUE]
      <4>1. s = table[a] /\ heap'[s] = [heap[s] EXCEPT !.cancel_requested = TRUE] BY <1>1, <3>1
      <4> QED BY <2>3, <3>1, <4>1 DEF ClientTouches
    <3>2. CASE /\ ~heap[table[a]].running /\ ~heap[table[a]].in_worker
               /\ heap' = [heap EXCEPT ![table[a]] =
                     [Finalized(heap[table[a]], "cancelled") EXCEPT !.cancel_requested = TRUE,
                         !.pending_terminal = ~StartIsDurable(table[a])]]
      <4>1. /\ s = table[a]
            /\ heap'[s] = [Finalized(heap[s], "cancelled") EXCEPT
                              !.cancel_requested = TRUE, !.pending_terminal = ~StartIsDurable(s)]
        BY <1>1, <3>2
      <4>2. ~heap[s].terminal BY <2>3, <4>1 DEF Cancel
      <4>3. CancelledSlot(s) BY <4>1, <4>2 DEF Finalized, CancelledSlot, StartIsDurable
      <4> QED BY <2>3, <3>2, <4>1, <4>3 DEF ClientTouches
    <3> QED BY <2>3, <3>1, <3>2 DEF Cancel
  <2>4. ASSUME NEW k \in BOOLEAN, Shutdown(c, k) PROVE ClientTouches(s, c)
    <3>1. /\ s \in ShutdownSweep(k)
          /\ heap'[s] = [Finalized(heap[s], "cancelled") EXCEPT
                            !.cancel_requested = TRUE, !.pending_terminal = ~StartIsDurable(s)]
      BY <1>1, <2>4 DEF Shutdown
    <3>2. ~heap[s].terminal BY <3>1 DEF ShutdownSweep
    <3>3. CancelledSlot(s) BY <3>1, <3>2 DEF Finalized, CancelledSlot, StartIsDurable
    <3> QED BY <2>4, <3>1, <3>3 DEF ClientTouches
  <2> QED
    BY <1>2, <1>3, <2>1, <2>2, <2>3, <2>4 DEF ClientCall, AwaitCall, AdvanceEpoch, SetAuthority,
       DrainCall, ShutdownSecond
<1>4. ASSUME NEW c \in Clients, ClientStep(c) PROVE ClientTouches(s, c)
  <2>1. ASSUME NEW k \in Kinds, JournalStart(c, k) PROVE ClientTouches(s, c)
    <3>1. FinalizeLocked(ref[c], "rejected") BY <1>2, <2>1 DEF JournalStart
    <3> QED BY <2>1, <3>1, FinalizeTouches DEF ClientTouches
  <2>2. ASSUME NEW k \in Kinds, MarkStart(c, k) PROVE ClientTouches(s, c)
    <3>1. /\ s = ref[c]
          /\ heap'[s] = [heap[s] EXCEPT !.journalled_start = TRUE, !.pending_terminal = FALSE]
      BY <1>1, <2>2 DEF MarkStart
    <3> QED BY <2>2, <3>1 DEF ClientTouches
  <2>3. CASE Enqueue(c)
    <3>1. FinalizeLocked(ref[c], "cancelled") BY <1>2, <2>3 DEF Enqueue
    <3> QED BY <2>3, <3>1, FinalizeTouches DEF ClientTouches
  <2>4. CASE PrepareRun(c)
    <3>1. /\ s = ref[c] /\ ~heap[s].terminal
          /\ heap'[s] = [heap[s] EXCEPT !.running = TRUE, !.state = "running"]
      BY <1>1, <2>4 DEF PrepareRun
    <3> QED BY <2>4, <3>1 DEF ClientTouches
  <2>5. CASE Await(c)
    <3>1. FinalizeLocked(ref[c], "failed") BY <1>2, <2>5 DEF Await
    <3> QED BY <2>5, <3>1, FinalizeTouches DEF ClientTouches
  <2>6. ASSUME NEW d \in Decisions, PrepareDecide(c, d) PROVE ClientTouches(s, c)
    <3>1. s = ref[c] /\ heap'[s] = [heap[s] EXCEPT !.decision = d] BY <1>1, <2>6 DEF PrepareDecide
    <3> QED BY <2>6, <3>1 DEF ClientTouches
  <2> QED
    BY <1>2, <1>4, <2>1, <2>2, <2>3, <2>4, <2>5, <2>6 DEF ClientStep, JournalPending, Drain,
       ShutdownWait, ShutdownJournal, ShutdownJoin, ShutdownClose
<1>5. ASSUME NEW w \in Workers, WorkerStep(w) PROVE WorkerTouches(s, w)
  <2>1. CASE WorkerTake(w)
    <3>1. /\ s = table[Head(queue)] /\ ~heap[s].terminal
          /\ heap'[s] = [heap[s] EXCEPT !.state = "running", !.in_worker = TRUE]
      BY <1>1, <2>1 DEF WorkerTake
    <3> QED BY <2>1, <3>1 DEF WorkerTouches
  <2>2. CASE WorkerFinish(w)
    <3>1. s = ref[w] /\ heap'[s] = [heap[s] EXCEPT !.in_worker = FALSE]
      BY <1>1, <2>2 DEF WorkerFinish
    <3> QED BY <2>2, <3>1 DEF WorkerTouches
  <2>3. ASSUME NEW d \in Decisions, WorkerDecide(w, d) PROVE WorkerTouches(s, w)
    <3>1. s = ref[w] /\ ~heap[s].terminal /\ heap'[s] = [heap[s] EXCEPT !.decision = d]
      BY <1>1, <2>3 DEF WorkerDecide
    <3> QED BY <2>3, <3>1 DEF WorkerTouches
  <2> QED BY <1>2, <1>5, <2>1, <2>2, <2>3 DEF WorkerStep, WorkerSleep, WorkerExit
<1>6. ASSUME NEW t \in Threads, CommitStep(t) PROVE CommitTouches(s, t)
  <2>1. CASE CommitSlot(t)
    <3>1. /\ s = ref[t] /\ BoundaryCode(s) = "ok"
          /\ heap'[s] = [heap[s] EXCEPT !.commit_boundary_crossed = TRUE]
      BY <1>1, <2>1 DEF CommitSlot
    <3> QED BY <2>1, <3>1 DEF CommitTouches
  <2>2. CASE JournalCommit(t)
    <3>1. heap' = [heap EXCEPT ![ref[t]].placement_id =
                     IF HasStore THEN PlacementOf(heap[ref[t]].attempt) ELSE Len(placements)]
      BY <2>2 DEF JournalCommit
    <3>2. /\ s = ref[t]
          /\ heap'[s] = [heap[s] EXCEPT !.placement_id =
                            IF HasStore THEN PlacementOf(heap[s].attempt) ELSE Len(placements)]
      BY <1>1, <3>1
    <3> QED BY <2>2, <3>2 DEF CommitTouches
  <2>3. CASE FinalizeCommit(t)
    BY <2>3, FinalizeTouches DEF FinalizeCommit, CommitTouches
  <2>4. CASE Fail(t)
    BY <2>4, FinalizeTouches DEF Fail, CommitTouches
  <2> QED
    BY <1>2, <1>6, <2>1, <2>2, <2>3, <2>4 DEF CommitStep, ReadIntent, CommitRecord, Journal
<1>7. ASSUME NEW e \in Epochs, Restart(e) PROVE FALSE BY <1>7 DEF Restart
<1> QED BY <1>2, <1>3, <1>4, <1>5, <1>6, <1>7 DEF Next, vars

\* A slot comes into existence in RegisterAttempt.
LEMMA SlotCreated ==
    ASSUME IInv, [Next]_vars, NEW s \in Allocated' \ Allocated
    PROVE  \E c \in Clients, k \in Kinds, a \in Attempts, g \in Auths :
               /\ RegisterAttempt(c, k, a, g)
               /\ s = nextSlot /\ heap'[s] = NewSlot(a, epoch, g)
<1>1. ASSUME UNCHANGED nextSlot PROVE FALSE BY <1>1 DEF Allocated
<1>2. ASSUME NEW c \in Clients, NEW k \in Kinds, NEW a \in Attempts, NEW g \in Auths,
             RegisterAttempt(c, k, a, g)
      PROVE  s = nextSlot /\ heap'[s] = NewSlot(a, epoch, g)
  <2>1. nextSlot \in Nat /\ nextSlot' = nextSlot + 1 BY <1>2 DEF IInv, TypeOK, RegisterAttempt
  <2>2. s = nextSlot /\ s \in 1 .. nextSlot BY <2>1 DEF Allocated
  <2>3. heap' = [r \in 1 .. nextSlot |->
                    IF r = nextSlot THEN NewSlot(a, epoch, g) ELSE heap[r]]
    BY <1>2 DEF RegisterAttempt
  <2> QED BY <2>2, <2>3
<1>3. ASSUME NEW c \in Clients, ClientCall(c)
      PROVE  \E k \in Kinds, a \in Attempts, g \in Auths : RegisterAttempt(c, k, a, g)
  BY <1>1, <1>3 DEF ClientCall, Commit, Cancel, AwaitCall, AdvanceEpoch, SetAuthority, DrainCall,
     Shutdown, ShutdownSecond
<1>4. ASSUME NEW c \in Clients, ClientStep(c) PROVE FALSE
  BY <1>1, <1>4 DEF ClientStep, JournalStart, MarkStart, JournalPending, Enqueue, PrepareRun,
     PrepareDecide, Await, Drain, ShutdownWait, ShutdownJournal, ShutdownJoin, ShutdownClose
<1>5. ASSUME NEW w \in Workers, WorkerStep(w) PROVE FALSE
  BY <1>1, <1>5 DEF WorkerStep, WorkerSleep, WorkerExit, WorkerTake, WorkerFinish, WorkerDecide
<1>6. ASSUME NEW t \in Threads, CommitStep(t) PROVE FALSE
  BY <1>1, <1>6 DEF CommitStep, CommitSlot, ReadIntent, CommitRecord, JournalCommit,
     FinalizeCommit, Fail, Journal
<1>7. ASSUME NEW e \in Epochs, Restart(e) PROVE FALSE BY <1>1, <1>7 DEF Restart
<1> QED BY <1>1, <1>2, <1>3, <1>4, <1>5, <1>6, <1>7 DEF Next, vars

\* A thread moves by its own steps only, except that a restart moves them all.
Moved(u) == <<pc'[u], ref'[u], note'[u]>> # <<pc[u], ref[u], note[u]>>
Moves(u) ==
    \/ u \in Clients /\ (ClientCall(u) \/ ClientStep(u))
    \/ u \in Workers /\ WorkerStep(u)
    \/ CommitStep(u)
    \/ \E e \in Epochs : Restart(e)

LEMMA StepMoves ==
    ASSUME IInv, NEW t \in Threads, NEW u \in Threads, Moved(u),
           \/ t \in Clients /\ (ClientCall(t) \/ ClientStep(t))
           \/ t \in Workers /\ WorkerStep(t)
           \/ CommitStep(t)
    PROVE  t = u
<1>1. ASSUME UNCHANGED <<pc, ref, note>> PROVE FALSE BY <1>1 DEF Moved
<1>2. ASSUME NEW point, Goto(t, point) PROVE t = u
  BY <1>2 DEF Goto, Moved, IInv, TypeOK
<1>3. ASSUME NEW point, NEW s, NEW state, Enter(t, point, s, state) PROVE t = u
  BY <1>3 DEF Enter, Moved, IInv, TypeOK
<1>4. ASSUME Return(t) PROVE t = u BY <1>3, <1>4 DEF Return
<1>5. ASSUME Stay PROVE FALSE BY <1>1, <1>5 DEF Stay
<1>6. CASE ClientCall(t)
  BY <1>1, <1>2, <1>3, <1>5, <1>6 DEF ClientCall, RegisterAttempt, Commit, Cancel, AwaitCall,
     AdvanceEpoch, SetAuthority, DrainCall, Shutdown, ShutdownSecond
<1>7. CASE ClientStep(t)
  BY <1>1, <1>2, <1>4, <1>5, <1>7 DEF ClientStep, JournalStart, MarkStart, JournalPending,
     Enqueue, PrepareRun, PrepareDecide, Await, Drain, ShutdownWait, ShutdownJournal,
     ShutdownJoin, ShutdownClose
<1>8. CASE WorkerStep(t)
  BY <1>1, <1>2, <1>3, <1>4, <1>5, <1>8 DEF WorkerStep, WorkerSleep, WorkerExit, WorkerTake,
     WorkerFinish, WorkerDecide
<1>9. CASE CommitStep(t)
  BY <1>2, <1>3, <1>4, <1>9 DEF CommitStep, CommitSlot, ReadIntent, CommitRecord, JournalCommit,
     FinalizeCommit, Fail, Journal, StatusReturned, EndAttempt
<1> QED BY <1>6, <1>7, <1>8, <1>9

LEMMA ThreadMoved == ASSUME IInv, [Next]_vars, NEW u \in Threads, Moved(u) PROVE Moves(u)
<1>1. CASE UNCHANGED vars BY <1>1 DEF vars, Moved
<1> QED BY <1>1, StepMoves DEF Next, Moves, Threads

\* No two threads move in one step, unless it is a restart.
LEMMA OneMoves ==
    ASSUME IInv, [Next]_vars, NEW t \in Threads, NEW u \in Threads, Moved(t), Moved(u), t # u
    PROVE  \E e \in Epochs : Restart(e)
<1>1. Moves(t) BY ThreadMoved
<1> QED BY <1>1, StepMoves DEF Moves

\* The table changes when an attempt is registered, and is emptied by a restart.
LEMMA TableStep ==
    ASSUME IInv, [Next]_vars, NEW a \in Attempts, table'[a] # table[a]
    PROVE  \/ table'[a] = NoSlot
           \/ table'[a] = nextSlot /\ nextSlot \in Allocated' /\ heap'[nextSlot].attempt = a
<1>1. ASSUME NEW c \in Clients, NEW k \in Kinds, NEW b \in Attempts, NEW g \in Auths,
             RegisterAttempt(c, k, b, g)
      PROVE  \/ table'[a] = NoSlot
             \/ table'[a] = nextSlot /\ nextSlot \in Allocated' /\ heap'[nextSlot].attempt = a
  <2> DEFINE obj == [s \in 1 .. nextSlot |->
                      IF s = nextSlot THEN NewSlot(b, epoch, g) ELSE heap[s]]
             tab == [table EXCEPT ![b] = nextSlot]
             order == Append(slotOrder, b)
  <2>1. nextSlot \in Nat /\ nextSlot \in 1 .. nextSlot /\ nextSlot' = nextSlot + 1
    BY <1>1 DEF IInv, TypeOK, RegisterAttempt
  <2>2. nextSlot \in Allocated' BY <2>1 DEF Allocated
  <2>3. heap'[nextSlot].attempt = b BY <1>1, <2>1 DEF RegisterAttempt, NewSlot
  <2>4. table' = ReapedTable(tab, obj, order) BY <1>1 DEF RegisterAttempt
  <2>5. tab[a] = (IF a = b THEN nextSlot ELSE table[a]) BY DEF IInv, TypeOK
  <2> HIDE DEF tab, obj, order
  <2>6. table'[a] \in {NoSlot, tab[a]} BY <2>4, ReapedTableKeeps
  <2> QED BY <2>2, <2>3, <2>5, <2>6
<1>2. ASSUME NEW c \in Clients, ClientCall(c),
             ~\E k \in Kinds, b \in Attempts, g \in Auths : RegisterAttempt(c, k, b, g)
      PROVE  FALSE
  BY <1>2 DEF ClientCall, Commit, Cancel, AwaitCall, AdvanceEpoch, SetAuthority, DrainCall,
     Shutdown, ShutdownSecond
<1>3. ASSUME NEW c \in Clients, ClientStep(c) PROVE FALSE
  BY <1>3 DEF ClientStep, JournalStart, MarkStart, JournalPending, JournalTerminal, Enqueue,
     PrepareRun, PrepareDecide, Await, Drain, ShutdownWait, ShutdownJournal, ShutdownJoin,
     ShutdownClose
<1>4. ASSUME NEW w \in Workers, WorkerStep(w) PROVE FALSE
  BY <1>4 DEF WorkerStep, WorkerSleep, WorkerExit, WorkerTake, WorkerFinish, WorkerDecide
<1>5. ASSUME NEW t \in Threads, CommitStep(t) PROVE FALSE
  BY <1>5 DEF CommitStep, CommitSlot, ReadIntent, CommitRecord, JournalCommit, JournalTerminal,
     FinalizeCommit, Fail, Journal
<1>6. ASSUME NEW e \in Epochs, Restart(e) PROVE table'[a] = NoSlot BY <1>6 DEF Restart
<1> QED BY <1>1, <1>2, <1>3, <1>4, <1>5, <1>6 DEF Next, vars

\* The queue grows by the attempt of the thread that enqueues it.
LEMMA QueueStep ==
    ASSUME IInv, [Next]_vars
    PROVE  \/ queue' = queue
           \/ queue' = <<>>
           \/ \E w \in Workers : WorkerTake(w) /\ queue # <<>> /\ queue' = Tail(queue)
           \/ \E c \in Clients : /\ Enqueue(c) /\ pc[c] = "enqueue" /\ runState = "running"
                                 /\ queue' = Append(queue, heap[ref[c]].attempt)
<1>1. ASSUME NEW c \in Clients, ClientCall(c) PROVE queue' = queue \/ queue' = <<>>
  BY <1>1 DEF ClientCall, RegisterAttempt, Commit, Cancel, AwaitCall, AdvanceEpoch, SetAuthority,
     DrainCall, Shutdown, ShutdownSecond
<1>2. ASSUME NEW c \in Clients, ClientStep(c) PROVE queue' = queue \/ Enqueue(c)
  BY <1>2 DEF ClientStep, JournalStart, MarkStart, JournalPending, PrepareRun, PrepareDecide,
     Await, Drain, ShutdownWait, ShutdownJournal, ShutdownJoin, ShutdownClose
<1>3. ASSUME NEW c \in Clients, Enqueue(c)
      PROVE  \/ queue' = queue
             \/ /\ pc[c] = "enqueue" /\ runState = "running"
                /\ queue' = Append(queue, heap[ref[c]].attempt)
  BY <1>3 DEF Enqueue
<1>4. ASSUME NEW w \in Workers, WorkerStep(w)
      PROVE  queue' = queue \/ (WorkerTake(w) /\ queue # <<>> /\ queue' = Tail(queue))
  BY <1>4 DEF WorkerStep, WorkerSleep, WorkerExit, WorkerTake, WorkerFinish, WorkerDecide
<1>5. ASSUME NEW t \in Threads, CommitStep(t) PROVE queue' = queue
  BY <1>5 DEF CommitStep, CommitSlot, ReadIntent, CommitRecord, JournalCommit, FinalizeCommit,
     Fail, Journal
<1>6. ASSUME NEW e \in Epochs, Restart(e) PROVE queue' = <<>> BY <1>6 DEF Restart
<1> QED BY <1>1, <1>2, <1>3, <1>4, <1>5, <1>6 DEF Next, vars

\* The ledger grows by the record of the thread that executes CommitRecord.
LEMMA LedgerGrows ==
    ASSUME IInv, [Next]_vars, placements' # placements
    PROVE  \E t \in Threads :
               /\ CommitRecord(t)
               /\ placements' = Append(placements, RecordOf(ref[t]))
               /\ ~(HasStore /\ HasPlacement(heap[ref[t]].attempt))
<1>1. CASE UNCHANGED vars BY <1>1 DEF vars
<1>2. ASSUME NEW c \in Clients, ClientCall(c) PROVE FALSE
  BY <1>2 DEF ClientCall, RegisterAttempt, Commit, Cancel, AwaitCall, AdvanceEpoch, SetAuthority,
     DrainCall, Shutdown, ShutdownSecond
<1>3. ASSUME NEW c \in Clients, ClientStep(c) PROVE FALSE
  BY <1>3 DEF ClientStep, JournalStart, MarkStart, JournalPending, JournalTerminal, Enqueue,
     PrepareRun, PrepareDecide, Await, Drain, ShutdownWait, ShutdownJournal, ShutdownJoin,
     ShutdownClose
<1>4. ASSUME NEW w \in Workers, WorkerStep(w) PROVE FALSE
  BY <1>4 DEF WorkerStep, WorkerSleep, WorkerExit, WorkerTake, WorkerFinish, WorkerDecide
<1>5. ASSUME NEW t \in Threads, CommitStep(t) PROVE CommitRecord(t)
  BY <1>5 DEF CommitStep, CommitSlot, ReadIntent, JournalCommit, JournalTerminal, FinalizeCommit,
     Fail, Journal
<1>6. ASSUME NEW e \in Epochs, Restart(e) PROVE FALSE
  BY <1>6 DEF Restart
<1>7. \E t \in Threads : CommitRecord(t)
  BY <1>1, <1>2, <1>3, <1>4, <1>5, <1>6 DEF Next
<1> QED BY <1>7 DEF CommitRecord

\* Every variable of the coordinator keeps its type.
THEOREM TypeCorrect == Spec => []TypeOK
<1>1. Init => IInv BY InitInv
<1>2. IInv /\ [Next]_vars => IInv' BY NextInv
<1>3. IInv => TypeOK BY DEF IInv
<1> QED BY <1>1, <1>2, <1>3, PTL DEF Spec

\* Fencing holds for any number of threads: a placement becomes durable only
\* under the epoch and authority that are current at the step that writes it.
THEOREM FencingHolds == Spec => CommitsAreFenced
<1>1. Init => IInv BY InitInv
<1>2. IInv /\ [Next]_vars => IInv' BY NextInv
<1>3. ASSUME IInv, [Next]_vars, placements' # placements
      PROVE  LET p == placements'[Len(placements')] IN
             /\ p.epoch = epoch
             /\ AuthorityMatches(authority, heap[p.slot].auth)
             /\ heap[p.slot].commit_boundary_crossed
  <2>1. PICK t \in Threads :
            /\ CommitRecord(t)
            /\ placements' = Append(placements, RecordOf(ref[t]))
    BY <1>3, LedgerGrows
  <2>2. placements \in Seq([attempt : Attempts, epoch : Nat, slot : Slots])
    BY <1>3 DEF IInv, TypeOK
  <2>3. LET p == placements'[Len(placements')] IN p.slot = ref[t] /\ p.epoch = heap[ref[t]].epoch
    BY <2>1, <2>2 DEF RecordOf
  <2>4. pc[t] = "record" BY <2>1 DEF CommitRecord
  <2> QED BY <1>3, <2>3, <2>4 DEF IInv, FenceOK
<1>4. IInv /\ [Next]_vars => [placements' # placements =>
             LET p == placements'[Len(placements')] IN
             /\ p.epoch = epoch
             /\ AuthorityMatches(authority, heap[p.slot].auth)
             /\ heap[p.slot].commit_boundary_crossed]_vars
  BY <1>3
<1> QED BY <1>1, <1>2, <1>4, PTL DEF Spec, CommitsAreFenced

\* An outcome, once terminal, is final for any number of threads.
THEOREM OutcomesStay == Spec => OutcomesAreFinal
<1>1. Init => IInv BY InitInv
<1>2. IInv /\ [Next]_vars => IInv' /\ HeapStep BY NextInv
<1>3. HeapStep => \A s \in Allocated :
                     heap[s].terminal => heap'[s].terminal /\ heap'[s].state = heap[s].state
  BY DEF HeapStep, SlotStep
<1> QED BY <1>1, <1>2, <1>3, PTL DEF Spec, OutcomesAreFinal

=============================================================================
