-------------------------- MODULE CoordinatorLedger --------------------------
(***************************************************************************)
(* What becomes durable: the coordinator with a store implements Ledger, an *)
(* attempt places once unless a recovery lost its record, a committed       *)
(* outcome names its record, and the journal of an attempt begins with its  *)
(* start.  For every number of threads, slots, restarts and store  *)
(* failures, and whether or not attempts are reaped.                        *)
(***************************************************************************)
EXTENDS CoordinatorProofs

PlacementSeq == Seq([attempt : Attempts, epoch : Nat, slot : Slots])

USE DEF muVars, fence, cvVars, ledger, bounds

\* A function on 1 .. n is a sequence of length n.
LEMMA FunctionIsSeq ==
    ASSUME NEW S, NEW n \in Nat, NEW f \in [1 .. n -> S]
    PROVE  f \in Seq(S) /\ Len(f) = n
<1>1. f \in Seq(S) BY SeqDef
<1>2. Len(f) \in Nat /\ DOMAIN f = 1 .. Len(f) /\ DOMAIN f = 1 .. n BY <1>1, LenProperties
<1>3. \A m \in Nat : 1 .. m = 1 .. n => m = n OBVIOUS
<1> QED BY <1>1, <1>2, <1>3

-----------------------------------------------------------------------------
(* The refinement.                                                         *)

\* The ledger as its readers see it: the value of Abstract's records.
Records ==
    [i \in DOMAIN placements |->
        [attempt |-> placements[i].attempt, epoch |-> placements[i].epoch]]

\* A new placement is a new record at the end.
LEMMA RecordsAppend ==
    ASSUME placements \in PlacementSeq, NEW r \in [attempt : Attempts, epoch : Nat, slot : Slots],
           placements' = Append(placements, r)
    PROVE  Records' = Append(Records, [attempt |-> r.attempt, epoch |-> r.epoch])
<1> DEFINE R == [attempt : Attempts, epoch : Nat]
           new == [attempt |-> r.attempt, epoch |-> r.epoch]
<1>1. /\ Len(placements) \in Nat /\ DOMAIN placements = 1 .. Len(placements)
      /\ placements' \in PlacementSeq /\ Len(placements') = Len(placements) + 1
      /\ DOMAIN placements' = 1 .. Len(placements) + 1
      /\ \A i \in 1 .. Len(placements) : placements'[i] = placements[i]
      /\ placements'[Len(placements) + 1] = r
  BY DEF PlacementSeq
<1>2. new \in R OBVIOUS
<1>11. \A i \in 1 .. Len(placements) :
          [attempt |-> placements[i].attempt, epoch |-> placements[i].epoch] \in R
  <2>1. \A i \in 1 .. Len(placements) : placements[i] \in [attempt : Attempts, epoch : Nat, slot : Slots]
    BY ElementOfSeq DEF PlacementSeq
  <2> QED BY <2>1
<1>3. Records \in Seq(R) /\ Len(Records) = Len(placements)
  <2>1. Records \in [1 .. Len(placements) -> R] BY <1>1, <1>11 DEF Records
  <2> HIDE DEF R
  <2> QED BY <1>1, <2>1, FunctionIsSeq
<1>4. Records' \in Seq(R) /\ Len(Records') = Len(placements) + 1
  <2>0. \A i \in 1 .. Len(placements) + 1 :
            [attempt |-> placements'[i].attempt, epoch |-> placements'[i].epoch] \in R
    BY <1>1, <1>2, <1>11
  <2>1. Records' \in [1 .. Len(placements) + 1 -> R] BY <1>1, <2>0 DEF Records
  <2> HIDE DEF R
  <2> QED BY <1>1, <2>1, FunctionIsSeq
<1> DEFINE longer == Append(Records, new)
<1>5. /\ longer \in Seq(R) /\ Len(longer) = Len(placements) + 1
      /\ \A i \in 1 .. Len(placements) : longer[i] = Records[i]
      /\ longer[Len(placements) + 1] = new
  BY <1>2, <1>3, AppendProperties
<1> HIDE DEF R, longer
<1>6. ASSUME NEW i \in 1 .. Len(placements) + 1 PROVE Records'[i] = longer[i]
  <2>1. CASE i \in 1 .. Len(placements)
    <3>1. Records'[i] = [attempt |-> placements[i].attempt, epoch |-> placements[i].epoch]
      BY <1>1, <2>1 DEF Records
    <3>2. Records[i] = [attempt |-> placements[i].attempt, epoch |-> placements[i].epoch]
      BY <1>1, <2>1 DEF Records
    <3> QED BY <1>5, <2>1, <3>1, <3>2
  <2>2. CASE i = Len(placements) + 1 BY <1>1, <1>5, <2>2 DEF Records
  <2> QED BY <1>1, <2>1, <2>2
<1>7. \A i \in 1 .. Len(Records') : Records'[i] = longer[i] BY <1>4, <1>6
<1>8. Records' = longer BY <1>4, <1>5, <1>7, SeqEqual
<1> QED BY <1>8 DEF longer

\* The epoch only moves forward in a process; only Restart starts another one.
LEMMA EpochStep ==
    ASSUME IInv, [Next]_vars
    PROVE  \/ UNCHANGED <<restarts, epoch>>
           \/ restarts' = restarts /\ epoch' > epoch /\ UNCHANGED <<placements, refusals>>
           \/ restarts' = restarts + 1 /\ placements' = placements
<1>1. CASE UNCHANGED vars BY <1>1 DEF vars
<1>2. ASSUME NEW c \in Clients, ClientCall(c)
      PROVE  restarts' = restarts /\ (epoch' = epoch \/ (epoch' > epoch /\ UNCHANGED <<placements, refusals>>))
  <2>1. CASE AdvanceEpoch(c) BY <2>1 DEF IInv, TypeOK, Epochs, AdvanceEpoch
  <2>2. ASSUME NEW e \in Epochs, NEW g, SetAuthority(c, e, g)
        PROVE  restarts' = restarts /\ (epoch' = epoch \/ (epoch' > epoch /\ UNCHANGED <<placements, refusals>>))
    BY <2>2 DEF IInv, TypeOK, Epochs, SetAuthority
  <2> QED
    BY <1>2, <2>1, <2>2 DEF ClientCall, RegisterAttempt, Commit, Cancel, AwaitCall, DrainCall,
       Shutdown, ShutdownSecond
<1>3. ASSUME NEW c \in Clients, ClientStep(c) PROVE UNCHANGED <<restarts, epoch>>
  BY <1>3 DEF ClientStep, JournalStart, MarkStart, JournalPending, JournalTerminal, Enqueue,
     PrepareRun, PrepareDecide, Await, Drain, ShutdownWait, ShutdownJournal, ShutdownJoin,
     ShutdownClose
<1>4. ASSUME NEW w \in Workers, WorkerStep(w) PROVE UNCHANGED <<restarts, epoch>>
  BY <1>4 DEF WorkerStep, WorkerSleep, WorkerExit, WorkerTake, WorkerFinish, WorkerDecide
<1>5. ASSUME NEW t \in Threads, CommitStep(t) PROVE UNCHANGED <<restarts, epoch>>
  BY <1>5 DEF CommitStep, CommitSlot, ReadIntent, CommitRecord, JournalCommit, JournalTerminal,
     FinalizeCommit, Fail, Journal
<1>6. ASSUME NEW e \in Epochs, Restart(e)
      PROVE  restarts' = restarts + 1 /\ placements' = placements
  BY <1>6 DEF Restart
<1> QED BY <1>1, <1>2, <1>3, <1>4, <1>5, <1>6 DEF Next

\* The elements of the history.
LEMMA PlacementIsRecord ==
    ASSUME NEW seq \in PlacementSeq, NEW i \in DOMAIN seq
    PROVE  seq[i] \in [attempt : Attempts, epoch : Nat, slot : Slots]
<1>1. DOMAIN seq = 1 .. Len(seq) BY DEF PlacementSeq
<1> QED BY <1>1, ElementOfSeq DEF PlacementSeq

\* Records are never lost or changed.
LEMMA RecordsStay ==
    ASSUME IInv, [Next]_vars, NEW i \in DOMAIN placements
    PROVE  i \in DOMAIN placements' /\ placements'[i] = placements[i]
<1>1. CASE placements' = placements BY <1>1
<1>2. CASE placements' # placements
  <2>1. PICK t \in Threads : placements' = Append(placements, RecordOf(ref[t]))
    BY <1>2, LedgerGrows
  <2>2. placements \in Seq([attempt : Attempts, epoch : Nat, slot : Slots]) BY DEF IInv, TypeOK
  <2> QED BY <2>1, <2>2
<1> QED BY <1>1, <1>2

\* What the store has in memory changes when a thread writes a placement, and when
\* a recovery reads it; failures are not taken back.
LEMMA IndexStep ==
    ASSUME IInv, [Next]_vars
    PROVE  /\ refusals' \in Nat /\ refusals \in Nat /\ refusals' >= refusals
           /\ \/ UNCHANGED <<placements, indexed, retired, restarts>>
              \/ \E t \in Threads : CommitRecord(t)
              \/ \E e \in Epochs : Restart(e)
<1>1. refusals' \in Nat /\ refusals \in Nat BY NextInv DEF IInv, TypeOK
<1> DEFINE Kept == /\ UNCHANGED <<placements, indexed, retired, restarts>>
                   /\ refusals' = refusals \/ refusals' = refusals + 1
<1>2. CASE UNCHANGED vars BY <1>1, <1>2 DEF vars
<1>3. ASSUME NEW c \in Clients, ClientCall(c) PROVE Kept
  BY <1>3 DEF ClientCall, RegisterAttempt, Commit, Cancel, AwaitCall, AdvanceEpoch,
     SetAuthority, DrainCall, Shutdown, ShutdownSecond
<1>4. ASSUME NEW c \in Clients, ClientStep(c) PROVE Kept
  <2>1. ASSUME NEW k \in Kinds, JournalStart(c, k) PROVE Kept
    BY <2>1 DEF JournalStart, Refuse
  <2>2. ASSUME NEW r, NEW phase, JournalTerminal(r, phase) PROVE Kept
    BY <2>2 DEF JournalTerminal, Refuse
  <2>3. ASSUME NEW k \in Kinds, JournalPending(c, k) PROVE Kept
    BY <2>2, <2>3 DEF JournalPending
  <2>4. CASE ShutdownJournal(c) BY <2>2, <2>4 DEF ShutdownJournal
  <2> QED
    BY <1>4, <2>1, <2>3, <2>4 DEF ClientStep, MarkStart, Enqueue, PrepareRun, PrepareDecide,
       Await, Drain, ShutdownWait, ShutdownJoin, ShutdownClose
<1>5. ASSUME NEW w \in Workers, WorkerStep(w) PROVE Kept
  BY <1>5 DEF WorkerStep, WorkerSleep, WorkerExit, WorkerTake, WorkerFinish, WorkerDecide
<1>6. ASSUME NEW t \in Threads, CommitStep(t), ~CommitRecord(t) PROVE Kept
  <2>1. ASSUME NEW r, NEW phase, JournalTerminal(r, phase) PROVE Kept
    BY <2>1 DEF JournalTerminal, Refuse
  <2> QED
    BY <1>6, <2>1 DEF CommitStep, CommitSlot, ReadIntent, JournalCommit, FinalizeCommit,
       Fail, Journal
<1>7. ASSUME NEW t \in Threads, CommitRecord(t) PROVE refusals' = refusals \/ refusals' = refusals + 1
  BY <1>7 DEF CommitRecord, Refuse
<1>8. ASSUME NEW e \in Epochs, Restart(e) PROVE refusals' = refusals \/ refusals' = refusals + 1
  BY <1>8 DEF Restart
<1> QED BY <1>1, <1>2, <1>3, <1>4, <1>5, <1>6, <1>7, <1>8 DEF Next

\* A placement written without a failure is in the store's memory, and what is
\* there stays until the process ends.
LEMMA IndexGrows ==
    ASSUME IInv, [Next]_vars, restarts' = restarts
    PROVE  /\ indexed \subseteq indexed' /\ retired' = retired
           /\ refusals' = 0 => \A i \in DOMAIN placements' : i \in DOMAIN placements \/ i \in indexed'
<1>1. ASSUME NEW e \in Epochs, Restart(e) PROVE FALSE BY <1>1 DEF Restart, IInv, TypeOK
<1>2. ASSUME NEW t \in Threads, CommitRecord(t)
      PROVE  /\ indexed \subseteq indexed' /\ retired' = retired
             /\ refusals' = 0 => \A i \in DOMAIN placements' : i \in DOMAIN placements \/ i \in indexed'
  <2>1. indexed \subseteq indexed' /\ retired' = retired BY <1>2 DEF CommitRecord
  <2>2. \A i \in DOMAIN Append(placements, RecordOf(ref[t])) :
            i \in DOMAIN placements \/ i = NewIndex
    BY DEF NewIndex, IInv, TypeOK
  <2>3. refusals' = 0 => ~Refuse BY DEF Refuse, IInv, TypeOK
  <2> QED BY <1>2, <2>1, <2>2, <2>3 DEF CommitRecord
<1> QED BY <1>1, <1>2, IndexStep

-----------------------------------------------------------------------------
(* The journal of an attempt begins with its start record.                  *)

\* Where a thread works on an attempt whose start record it has written, or found
\* written by the thread that registered it.
StartedPoints ==
    CommitPoints \cup {"submit_mark", "prepare_mark", "submit_pending", "prepare_pending",
                       "enqueue", "prepare_run", "compute", "commit", "fail", "journal"}

\* Unless a store write failed, the store remembers every placement of an attempt
\* this process works on, or a recovery had lost the attempt's record.
Remembered(a) ==
    a \in retired \/ \A i \in DOMAIN placements : placements[i].attempt = a => i \in indexed

HasStarted(a) == attempts[a] # "none" /\ (refusals = 0 => Remembered(a))

\* The table knows a slot by its own attempt.
TableAttempt == \A a \in Attempts : table[a] # NoSlot => heap[table[a]].attempt = a

\* With a store, whatever may lead to a terminal record is about a started attempt.
StartedThreads == \A t \in Threads : pc[t] \in StartedPoints => HasStarted(heap[ref[t]].attempt)
StartedSlots ==
    \A a \in Attempts : table[a] # NoSlot /\ heap[table[a]].journalled_start => HasStarted(a)
StartedQueue == \A i \in DOMAIN queue : HasStarted(queue[i])
StartedPrepared == \A p \in prepared : HasStarted(p.attempt)
StartedCancelled == \A a \in cancelled : HasStarted(a)

StartInv ==
    /\ TableAttempt
    /\ HasStore => /\ StartedThreads /\ StartedSlots /\ StartedQueue
                   /\ StartedPrepared /\ StartedCancelled

\* A process writes a phase where there was none, then the start, or where there was
\* the start.
PhaseStep ==
    restarts' = restarts =>
        \A a \in Attempts :
            attempts'[a] # attempts[a] =>
                /\ attempts'[a] # "none" /\ attempts[a] \in {"none", "started"}
                /\ attempts[a] # "none" \/ attempts'[a] = "started"

\* A placement is followed by its attempt's terminal phase: until that is written,
\* it is the last one and in memory, and its thread is on the way or the store closed.
Awaited(i) ==
    /\ i = Len(placements) /\ i \in indexed
    /\ \/ closed
       \/ \E t \in Threads : pc[t] = "journal_commit" /\ heap[ref[t]].attempt = placements[i].attempt
RecordFollowed ==
    HasStore /\ refusals = 0 =>
        \A i \in DOMAIN placements :
            \/ placements[i].attempt \in retired
            \/ attempts[placements[i].attempt] \notin {"none", "started"}
            \/ attempts[placements[i].attempt] = "started" /\ Awaited(i)

LEMMA JournalTerminalStep ==
    ASSUME IInv, NEW s \in Allocated, NEW phase \in AttemptPhase \ {"none"},
           JournalTerminal(s, phase), HasStore => HasStarted(heap[s].attempt)
    PROVE  PhaseStep
<1>1. heap[s].attempt \in Attempts /\ attempts \in [Attempts -> AttemptPhase]
  BY DEF IInv, TypeOK, Slot
<1>2. \/ attempts' = attempts
      \/ /\ HasStore /\ attempts[heap[s].attempt] \in {"none", "started"}
         /\ attempts' = [attempts EXCEPT ![heap[s].attempt] = phase]
  BY DEF JournalTerminal, TerminalAccepted, Refuse
<1> QED BY <1>1, <1>2 DEF PhaseStep, HasStarted

LEMMA PhaseNext ==
    ASSUME IInv, StartInv, [Next]_vars
    PROVE  PhaseStep
<1>1. CASE UNCHANGED attempts BY <1>1 DEF PhaseStep
<1>2. ASSUME NEW c \in Clients, ClientCall(c) PROVE UNCHANGED attempts
  BY <1>2 DEF ClientCall, RegisterAttempt, Commit, Cancel, AwaitCall, AdvanceEpoch, SetAuthority,
     DrainCall, Shutdown, ShutdownSecond
<1>3. ASSUME NEW c \in Clients, ClientStep(c) PROVE PhaseStep
  <2>1. c \in Threads BY DEF Threads
  <2>2. ASSUME NEW k \in Kinds, JournalStart(c, k) PROVE PhaseStep
    <3>1. ref[c] \in Allocated BY <2>1, <2>2 DEF IInv, RefOK, JournalStart, StartPoint, Free
    <3>2. heap[ref[c]].attempt \in Attempts /\ attempts \in [Attempts -> AttemptPhase]
      BY <3>1 DEF IInv, TypeOK, Slot
    <3> QED BY <2>2, <3>2 DEF JournalStart, StartAccepted, PhaseStep
  <2>3. ASSUME NEW k \in Kinds, JournalPending(c, k) PROVE PhaseStep
    <3>1. ref[c] \in Allocated /\ pc[c] \in StartedPoints
      BY <2>1, <2>3 DEF IInv, RefOK, JournalPending, PendingPoint, Free, StartedPoints
    <3>2. HasStore => HasStarted(heap[ref[c]].attempt)
      BY <2>1, <3>1 DEF StartInv, StartedThreads
    <3> QED BY <2>3, <3>1, <3>2, JournalTerminalStep DEF JournalPending, AttemptPhase
  <2>4. CASE ShutdownJournal(c)
    <3>1. CASE UNCHANGED attempts BY <3>1 DEF PhaseStep
    <3>2. CASE \E a \in cancelled : table[a] # NoSlot /\ JournalTerminal(table[a], "cancelled")
      <4>1. PICK a \in cancelled : table[a] # NoSlot /\ JournalTerminal(table[a], "cancelled")
        BY <3>2
      <4>2. a \in Attempts /\ table[a] \in Allocated /\ heap[table[a]].attempt = a
        BY <4>1 DEF IInv, TypeOK, TableOK, StartInv, TableAttempt
      <4>3. HasStore => HasStarted(heap[table[a]].attempt)
        BY <4>1, <4>2 DEF StartInv, StartedCancelled
      <4> QED BY <4>1, <4>2, <4>3, JournalTerminalStep DEF AttemptPhase
    <3> QED BY <2>4, <3>1, <3>2 DEF ShutdownJournal
  <2> QED
    BY <1>1, <1>3, <2>2, <2>3, <2>4 DEF ClientStep, MarkStart, Enqueue, PrepareRun, PrepareDecide,
       Await, Drain, ShutdownWait, ShutdownJoin, ShutdownClose
<1>4. ASSUME NEW w \in Workers, WorkerStep(w) PROVE UNCHANGED attempts
  BY <1>4 DEF WorkerStep, WorkerSleep, WorkerExit, WorkerTake, WorkerFinish, WorkerDecide
<1>5. ASSUME NEW t \in Threads, CommitStep(t) PROVE PhaseStep
  <2>1. CASE JournalCommit(t) \/ Journal(t)
    <3>1. ref[t] \in Allocated /\ pc[t] \in StartedPoints
      BY <2>1 DEF IInv, RefOK, JournalCommit, Journal, Free, StartedPoints, CommitPoints
    <3>2. HasStore => HasStarted(heap[ref[t]].attempt)
      BY <3>1 DEF StartInv, StartedThreads
    <3>3. PICK phase \in AttemptPhase \ {"none"} : JournalTerminal(ref[t], phase)
      BY <2>1 DEF JournalCommit, Journal, PhaseForState, AttemptPhase
    <3> QED BY <3>1, <3>2, <3>3, JournalTerminalStep
  <2> QED
    BY <1>1, <1>5, <2>1 DEF CommitStep, CommitSlot, ReadIntent, CommitRecord, FinalizeCommit, Fail
<1>6. ASSUME NEW e \in Epochs, Restart(e) PROVE PhaseStep
  BY <1>6 DEF Restart, PhaseStep, IInv, TypeOK
<1> QED BY <1>1, <1>2, <1>3, <1>4, <1>5, <1>6 DEF Next, vars

\* What is started stays so while the process lives.
LEMMA StartedStays ==
    ASSUME IInv, StartInv, [Next]_vars, restarts' = restarts, NEW a \in Attempts, HasStarted(a)
    PROVE  HasStarted(a)'
<1>1. attempts'[a] # "none" BY PhaseNext DEF PhaseStep, HasStarted
<1>2. ASSUME refusals' = 0 PROVE Remembered(a)'
  <2>1. refusals = 0 BY <1>2, IndexStep
  <2>2. Remembered(a) BY <2>1 DEF HasStarted
  <2>3. \A i \in DOMAIN placements : placements'[i] = placements[i] BY RecordsStay
  <2>4. /\ indexed \subseteq indexed' /\ retired' = retired
        /\ \A i \in DOMAIN placements' : i \in DOMAIN placements \/ i \in indexed'
    BY <1>2, IndexGrows
  <2> QED BY <2>2, <2>3, <2>4 DEF Remembered
<1> QED BY <1>1, <1>2 DEF HasStarted

\* A start record the store accepts.
StartWritten(c) ==
    /\ \E k \in Kinds : JournalStart(c, k)
    /\ StartAccepted(heap[ref[c]].attempt)
    /\ attempts' = [attempts EXCEPT ![heap[ref[c]].attempt] = "started"]

\* A thread at a started point was at one with the same slot, or has just come to
\* a slot whose attempt is started, or has started it.
ThreadsMove ==
    \A u \in Threads : pc'[u] \in StartedPoints =>
        \/ pc[u] \in StartedPoints /\ ref'[u] = ref[u]
        \/ ref'[u] \in Allocated /\ HasStarted(heap[ref'[u]].attempt)
        \/ u \in Clients /\ ref'[u] = ref[u] /\ StartWritten(u)

LEMMA ClientCallMoves ==
    ASSUME IInv, StartInv, HasStore, NEW c \in Clients, ClientCall(c)
    PROVE  ThreadsMove
<1>1. /\ c \in Threads /\ pc \in [Threads -> Point] /\ ref \in [Threads -> Slots \cup {NoSlot}]
      /\ UNCHANGED attempts
  BY DEF Threads, IInv, TypeOK, Point, ClientCall, RegisterAttempt, Commit, Cancel, AwaitCall,
     AdvanceEpoch, SetAuthority, DrainCall, Shutdown, ShutdownSecond
<1>2. ASSUME NEW k \in Kinds, NEW a \in Attempts, NEW g \in Auths, RegisterAttempt(c, k, a, g)
      PROVE  ThreadsMove
  BY <1>1, <1>2 DEF RegisterAttempt, Enter, StartPoint, StartedPoints, CommitPoints, ThreadsMove
<1>3. ASSUME NEW p \in prepared, Commit(c, p) PROVE ThreadsMove
  <2>1. p.attempt \in Attempts BY DEF IInv, TypeOK, PreparedAttempt
  <2>2. /\ table[p.attempt] \in Allocated
        /\ HasStarted(heap[table[p.attempt]].attempt)
    BY <1>3, <2>1 DEF Commit, IInv, TableOK, StartInv, TableAttempt, StartedPrepared
  <2>3. \E point, state : Enter(c, point, table[p.attempt], state) BY <1>3 DEF Commit
  <2> QED BY <1>1, <2>2, <2>3 DEF Enter, ThreadsMove
<1>4. ASSUME NEW a \in Attempts, Cancel(c, a) PROVE ThreadsMove
  <2>1. table[a] \in Allocated BY <1>4 DEF Cancel, IInv, TableOK
  <2>2. CASE Stay BY <2>2 DEF Stay, ThreadsMove
  <2>3. CASE StartIsDurable(table[a]) /\ Enter(c, "journal", table[a], "cancelled")
    <3>1. HasStarted(heap[table[a]].attempt)
      BY <1>4, <2>3 DEF Cancel, StartInv, TableAttempt, StartedSlots, StartIsDurable
    <3> QED BY <1>1, <2>1, <2>3, <3>1 DEF Enter, ThreadsMove
  <2> QED BY <1>4, <2>2, <2>3 DEF Cancel
<1>5. ASSUME NEW a \in Attempts, AwaitCall(c, a) PROVE ThreadsMove
  BY <1>1, <1>5 DEF AwaitCall, Enter, ThreadsMove, StartedPoints, CommitPoints
<1>6. ASSUME Stay PROVE ThreadsMove BY <1>6 DEF Stay, ThreadsMove
<1>7. ASSUME Goto(c, "drain") \/ Goto(c, "sd_journal") \/ Goto(c, "sd_wait") PROVE ThreadsMove
  BY <1>1, <1>7 DEF Goto, ThreadsMove, StartedPoints, CommitPoints
<1> QED
  BY <1>2, <1>3, <1>4, <1>5, <1>6, <1>7 DEF ClientCall, AdvanceEpoch, SetAuthority, DrainCall,
     Shutdown, ShutdownSecond

LEMMA ClientStepMoves ==
    ASSUME IInv, StartInv, HasStore, NEW c \in Clients, ClientStep(c)
    PROVE  ThreadsMove
<1>1. c \in Threads /\ pc \in [Threads -> Point] /\ ref \in [Threads -> Slots \cup {NoSlot}]
  BY DEF Threads, IInv, TypeOK, Point
<1>2. ASSUME Return(c) PROVE ThreadsMove
  BY <1>1, <1>2 DEF Return, Enter, ThreadsMove, StartedPoints, CommitPoints
<1>3. ASSUME Stay PROVE ThreadsMove BY <1>3 DEF Stay, ThreadsMove
<1>4. ASSUME NEW point, Goto(c, point), pc[c] \in StartedPoints PROVE ThreadsMove
  BY <1>1, <1>4 DEF Goto, ThreadsMove
<1>5. ASSUME NEW k \in Kinds, JournalStart(c, k) PROVE ThreadsMove
  <2>1. CASE /\ StartAccepted(heap[ref[c]].attempt)
             /\ attempts' = [attempts EXCEPT ![heap[ref[c]].attempt] = "started"]
             /\ Goto(c, MarkPoint(k))
    <3>1. StartWritten(c) BY <1>5, <2>1 DEF StartWritten
    <3> QED BY <1>1, <2>1, <3>1 DEF Goto, ThreadsMove
  <2> QED BY <1>2, <1>5, <2>1 DEF JournalStart
<1>6. ASSUME NEW k \in Kinds, MarkStart(c, k) \/ JournalPending(c, k) PROVE ThreadsMove
  BY <1>4, <1>6 DEF MarkStart, JournalPending, MarkPoint, PendingPoint, StartedPoints
<1>7. CASE Enqueue(c) \/ PrepareRun(c) \/ \E d \in Decisions : PrepareDecide(c, d)
  BY <1>2, <1>4, <1>7 DEF Enqueue, PrepareRun, PrepareDecide, StartedPoints
<1>8. CASE Await(c) \/ Drain(c) \/ ShutdownWait(c)
  BY <1>2, <1>3, <1>8 DEF Await, Drain, ShutdownWait
<1>9. CASE ShutdownJournal(c) \/ ShutdownJoin(c) \/ ShutdownClose(c)
  <2>1. ASSUME Goto(c, "sd_join") \/ Goto(c, "sd_close") PROVE ThreadsMove
    BY <1>1, <2>1 DEF Goto, ThreadsMove, StartedPoints, CommitPoints
  <2> QED BY <1>2, <1>3, <1>9, <2>1 DEF ShutdownJournal, ShutdownJoin, ShutdownClose
<1> QED BY <1>5, <1>6, <1>7, <1>8, <1>9 DEF ClientStep

LEMMA WorkerMoves ==
    ASSUME IInv, StartInv, HasStore, NEW w \in Workers, WorkerStep(w)
    PROVE  ThreadsMove
<1>1. /\ w \in Threads /\ pc \in [Threads -> Point] /\ ref \in [Threads -> Slots \cup {NoSlot}]
      /\ UNCHANGED attempts
  BY DEF Threads, IInv, TypeOK, Point, WorkerStep, WorkerSleep, WorkerExit, WorkerTake,
     WorkerFinish, WorkerDecide
<1>2. ASSUME Return(w) PROVE ThreadsMove
  BY <1>1, <1>2 DEF Return, Enter, ThreadsMove, StartedPoints, CommitPoints
<1>3. ASSUME Stay PROVE ThreadsMove BY <1>3 DEF Stay, ThreadsMove
<1>4. ASSUME Goto(w, "exit") PROVE ThreadsMove
  BY <1>1, <1>4 DEF Goto, ThreadsMove, StartedPoints, CommitPoints
<1>5. CASE WorkerTake(w)
  <2> DEFINE s == table[Head(queue)]
  <2>1. CASE s # NoSlot /\ Enter(w, "compute", s, "queued")
    <3>1. queue \in Seq(Attempts) /\ queue # <<>> BY <1>5 DEF IInv, TypeOK, WorkerTake
    <3>2. Head(queue) = queue[1] /\ 1 \in DOMAIN queue /\ Head(queue) \in Attempts BY <3>1
    <3>3. s \in Allocated /\ HasStarted(heap[s].attempt)
      BY <2>1, <3>2 DEF IInv, TableOK, StartInv, TableAttempt, StartedQueue
    <3> QED BY <1>1, <2>1, <3>3 DEF Enter, ThreadsMove
  <2> QED BY <1>3, <1>5, <2>1 DEF WorkerTake
<1>6. ASSUME NEW d \in Decisions, WorkerDecide(w, d) PROVE ThreadsMove
  BY <1>1, <1>6 DEF WorkerDecide, Goto, Enter, ThreadsMove, StartedPoints
<1> QED
  BY <1>2, <1>3, <1>4, <1>5, <1>6 DEF WorkerStep, WorkerSleep, WorkerExit, WorkerFinish

LEMMA CommitStepMoves ==
    ASSUME IInv, StartInv, HasStore, NEW t \in Threads, CommitStep(t)
    PROVE  ThreadsMove
<1>1. pc \in [Threads -> Point] /\ ref \in [Threads -> Slots \cup {NoSlot}]
  BY DEF IInv, TypeOK, Point
<1>2. pc[t] \in StartedPoints
  BY DEF CommitStep, CommitSlot, ReadIntent, CommitRecord, JournalCommit, FinalizeCommit, Fail,
     Journal, StartedPoints, CommitPoints
<1>3. ASSUME NEW point, Goto(t, point) PROVE ThreadsMove BY <1>1, <1>2, <1>3 DEF Goto, ThreadsMove
<1>4. ASSUME NEW point, NEW state, Enter(t, point, ref[t], state) PROVE ThreadsMove
  BY <1>1, <1>2, <1>4 DEF Enter, ThreadsMove
<1>5. ASSUME Return(t) PROVE ThreadsMove
  BY <1>1, <1>5 DEF Return, Enter, ThreadsMove, StartedPoints, CommitPoints
<1> QED
  BY <1>3, <1>4, <1>5 DEF CommitStep, CommitSlot, ReadIntent, CommitRecord, JournalCommit,
     FinalizeCommit, Fail, Journal, StatusReturned, EndAttempt

LEMMA ThreadsNext ==
    ASSUME IInv, StartInv, HasStore, [Next]_vars
    PROVE  ThreadsMove
<1>1. CASE UNCHANGED vars BY <1>1 DEF vars, ThreadsMove
<1>2. ASSUME NEW e \in Epochs, Restart(e) PROVE ThreadsMove
  BY <1>2 DEF Restart, FreshThreads, ThreadsMove, StartedPoints, CommitPoints
<1> QED
  BY <1>1, <1>2, ClientCallMoves, ClientStepMoves, WorkerMoves, CommitStepMoves DEF Next

LEMMA TableAttemptNext == ASSUME IInv, TableAttempt, [Next]_vars PROVE TableAttempt'
<1> SUFFICES ASSUME NEW a \in Attempts, table'[a] # NoSlot PROVE heap'[table'[a]].attempt = a
  BY DEF TableAttempt
<1>1. CASE table'[a] # table[a] BY <1>1, TableStep
<1>2. CASE table'[a] = table[a]
  <2>1. HeapStep BY NextInv
  <2> QED BY <1>2, <2>1 DEF IInv, TableOK, TableAttempt, HeapStep, SlotStep
<1> QED BY <1>1, <1>2

\* Only MarkStart publishes that a start is durable.
LEMMA MarkedSlots ==
    ASSUME IInv, [Next]_vars, NEW s \in Allocated', heap'[s].journalled_start
    PROVE  /\ s \in Allocated
           /\ \/ heap[s].journalled_start
              \/ \E t \in Threads : s = ref[t] /\ pc[t] \in StartedPoints
<1>1. s \in Allocated
  <2>1. ASSUME NEW a, NEW g, heap'[s] = NewSlot(a, epoch, g) PROVE FALSE BY <2>1 DEF NewSlot
  <2> QED BY <2>1, SlotCreated
<1>2. heap[s] \in Slot BY <1>1 DEF IInv, TypeOK
<1>3. SUFFICES ASSUME heap'[s] # heap[s], ~heap[s].journalled_start
               PROVE  \E t \in Threads : s = ref[t] /\ pc[t] \in StartedPoints
  BY <1>1
<1>4. ASSUME NEW c \in Clients, ClientTouches(s, c)
      PROVE  s = ref[c] /\ \E k \in Kinds : MarkStart(c, k)
  BY <1>2, <1>3, <1>4 DEF ClientTouches, Ended, CancelledSlot, Slot
<1>5. ASSUME NEW w \in Workers, WorkerTouches(s, w) PROVE FALSE
  BY <1>2, <1>3, <1>5 DEF WorkerTouches, Slot
<1>6. ASSUME NEW t \in Threads, CommitTouches(s, t) PROVE FALSE
  BY <1>2, <1>3, <1>6 DEF CommitTouches, Ended, Slot
<1>7. ASSUME NEW c \in Clients, NEW k \in Kinds, MarkStart(c, k)
      PROVE  c \in Threads /\ pc[c] \in StartedPoints
  BY <1>7 DEF MarkStart, MarkPoint, StartedPoints, Threads
<1> QED BY <1>1, <1>3, <1>4, <1>5, <1>6, <1>7, SlotTouched

\* Prepare hands out the decision it has put into the slot.
LEMMA PreparedStep ==
    ASSUME IInv, [Next]_vars, NEW p \in prepared' \ prepared
    PROVE  \E c \in Clients :
               /\ pc[c] = "compute" /\ p.attempt = heap[ref[c]].attempt
               /\ heap'[ref[c]].decision = p.decision
<1>1. ASSUME NEW c \in Clients, ClientCall(c) PROVE prepared' = prepared
  BY <1>1 DEF ClientCall, RegisterAttempt, Commit, Cancel, AwaitCall, AdvanceEpoch, SetAuthority,
     DrainCall, Shutdown, ShutdownSecond
<1>2. ASSUME NEW c \in Clients, ClientStep(c)
      PROVE  prepared' = prepared \/ \E d \in Decisions : PrepareDecide(c, d)
  BY <1>2 DEF ClientStep, JournalStart, MarkStart, JournalPending, PrepareRun, Enqueue,
     Await, Drain, ShutdownWait, ShutdownJournal, ShutdownJoin, ShutdownClose
<1>3. ASSUME NEW w \in Workers, WorkerStep(w) PROVE prepared' = prepared
  BY <1>3 DEF WorkerStep, WorkerSleep, WorkerExit, WorkerTake, WorkerFinish, WorkerDecide
<1>4. ASSUME NEW t \in Threads, CommitStep(t) PROVE prepared' = prepared
  BY <1>4 DEF CommitStep, CommitSlot, ReadIntent, CommitRecord, JournalCommit, FinalizeCommit,
     Fail, Journal
<1>5. ASSUME NEW e \in Epochs, Restart(e) PROVE prepared' = {} BY <1>5 DEF Restart
<1>6. ASSUME NEW c \in Clients, NEW d \in Decisions, PrepareDecide(c, d)
      PROVE  /\ pc[c] = "compute" /\ p.attempt = heap[ref[c]].attempt
             /\ heap'[ref[c]].decision = p.decision
  <2>1. ref[c] \in Allocated BY <1>6 DEF PrepareDecide, IInv, RefOK, Free, Threads
  <2>2. heap[ref[c]] \in Slot /\ heap \in [Allocated -> Slot] BY <2>1 DEF IInv, TypeOK
  <2>3. heap'[ref[c]].decision = d BY <1>6, <2>1, <2>2 DEF PrepareDecide, Slot
  <2> QED BY <1>6, <2>3 DEF PrepareDecide
<1> QED BY <1>1, <1>2, <1>3, <1>4, <1>5, <1>6 DEF Next, vars

\* The sweep of a shutdown leaves to its owner only attempts whose start is durable.
LEMMA CancelledStep ==
    ASSUME IInv, [Next]_vars, NEW a \in cancelled' \ cancelled
    PROVE  \E c \in Clients, k \in BOOLEAN, s \in Allocated :
               /\ Shutdown(c, k) /\ s \in ShutdownSweep(k)
               /\ heap[s].journalled_start /\ heap[s].attempt = a
<1>1. ASSUME NEW c \in Clients, ClientCall(c)
      PROVE  cancelled' = cancelled \/ \E k \in BOOLEAN : Shutdown(c, k)
  BY <1>1 DEF ClientCall, RegisterAttempt, Commit, Cancel, AwaitCall, AdvanceEpoch, SetAuthority,
     DrainCall, ShutdownSecond
<1>2. ASSUME NEW c \in Clients, ClientStep(c) PROVE cancelled' \subseteq cancelled
  BY <1>2 DEF ClientStep, JournalStart, MarkStart, JournalPending, PrepareRun, Enqueue,
     PrepareDecide, Await, Drain, ShutdownWait, ShutdownJournal, ShutdownJoin, ShutdownClose
<1>3. ASSUME NEW w \in Workers, WorkerStep(w) PROVE cancelled' = cancelled
  BY <1>3 DEF WorkerStep, WorkerSleep, WorkerExit, WorkerTake, WorkerFinish, WorkerDecide
<1>4. ASSUME NEW t \in Threads, CommitStep(t) PROVE cancelled' = cancelled
  BY <1>4 DEF CommitStep, CommitSlot, ReadIntent, CommitRecord, JournalCommit, FinalizeCommit,
     Fail, Journal
<1>5. ASSUME NEW e \in Epochs, Restart(e) PROVE cancelled' = {} BY <1>5 DEF Restart
<1>6. ASSUME NEW c \in Clients, NEW k \in BOOLEAN, Shutdown(c, k)
      PROVE  \E s \in Allocated :
                 s \in ShutdownSweep(k) /\ heap[s].journalled_start /\ heap[s].attempt = a
  <2>1. PICK s \in ShutdownSweep(k) : StartIsDurable(s) /\ heap[s].attempt = a
    BY <1>6 DEF Shutdown
  <2>2. s \in Allocated BY DEF ShutdownSweep, IInv, TableOK, Slots, NoSlot
  <2> QED BY <2>1, <2>2 DEF StartIsDurable
<1> QED BY <1>1, <1>2, <1>3, <1>4, <1>5, <1>6 DEF Next, vars

\* A start record is accepted of an attempt that the store remembers.
LEMMA StartRemembered ==
    ASSUME IInv, RecordFollowed, HasStore, [Next]_vars, NEW c \in Clients, StartWritten(c),
           NEW a \in Attempts, a = heap[ref[c]].attempt
    PROVE  HasStarted(a)'
<1>1. PICK k \in Kinds : JournalStart(c, k) BY DEF StartWritten
<1>2. attempts'[a] = "started" BY DEF StartWritten, IInv, TypeOK
<1>3. UNCHANGED <<placements, indexed, retired>> BY <1>1 DEF JournalStart
<1>4. ASSUME refusals = 0 PROVE Remembered(a)
  <2>1. attempts[a] \in {"none", "started"} /\ ~HasPlacement(a) BY DEF StartWritten, StartAccepted
  <2>2. SUFFICES ASSUME NEW i \in DOMAIN placements, placements[i].attempt = a, a \notin retired
                 PROVE  i \in indexed
    BY DEF Remembered
  <2> QED BY <1>4, <2>1, <2>2 DEF RecordFollowed, Awaited
<1>5. refusals' = 0 => refusals = 0 BY IndexStep
<1>6. refusals' = 0 => Remembered(a)' BY <1>3, <1>4, <1>5 DEF Remembered
<1> QED BY <1>2, <1>6 DEF HasStarted

\* A restarted process has taken up nothing yet.
LEMMA StartRestart == ASSUME NEW e \in Epochs, Restart(e) PROVE StartInv'
<1>1. TableAttempt' /\ StartedSlots' BY DEF Restart, TableAttempt, StartedSlots
<1>2. StartedThreads'
  BY DEF Restart, FreshThreads, StartedThreads, StartedPoints, CommitPoints
<1>3. StartedQueue' BY DEF Restart, StartedQueue
<1>4. StartedPrepared' /\ StartedCancelled' BY DEF Restart, StartedPrepared, StartedCancelled
<1> QED BY <1>1, <1>2, <1>3, <1>4 DEF StartInv

LEMMA StartNext ==
    ASSUME IInv, StartInv, RecordFollowed, [Next]_vars, restarts' = restarts
    PROVE  StartInv'
<1>1. TableAttempt' BY TableAttemptNext DEF StartInv
<1>2. SUFFICES ASSUME HasStore
               PROVE  StartedThreads' /\ StartedSlots' /\ StartedQueue' /\ StartedPrepared'
                      /\ StartedCancelled'
  BY <1>1 DEF StartInv
<1>3. HeapStep /\ IInv' /\ Allocated \subseteq Allocated'
  BY NextInv, AllocatedGrows DEF IInv
<1>4. ASSUME NEW a \in Attempts, HasStarted(a) PROVE HasStarted(a)'
  BY <1>4, StartedStays
<1>5. \A s \in Allocated : heap[s].attempt \in Attempts /\ heap'[s].attempt = heap[s].attempt
  BY <1>3 DEF HeapStep, SlotStep, IInv, TypeOK, Slot
<1>6. \A t \in Threads : pc[t] \in StartedPoints =>
          ref[t] \in Allocated /\ HasStarted(heap[ref[t]].attempt)
  <2>1. StartedPoints \cap Free = {} BY DEF StartedPoints, CommitPoints, Free
  <2> QED BY <1>2, <2>1 DEF IInv, RefOK, StartInv, StartedThreads
<1>7. StartedThreads'
  <2> SUFFICES ASSUME NEW u \in Threads, pc'[u] \in StartedPoints,
                      NEW a, a = heap'[ref'[u]].attempt
               PROVE  HasStarted(a)'
    BY DEF StartedThreads, HasStarted, Remembered
  <2>1. CASE pc[u] \in StartedPoints /\ ref'[u] = ref[u]
    <3>1. a = heap[ref[u]].attempt /\ a \in Attempts /\ HasStarted(heap[ref[u]].attempt)
      BY <1>5, <1>6, <2>1
    <3>2. HasStarted(a) BY <3>1
    <3> QED BY <1>4, <3>1, <3>2
  <2>2. CASE ref'[u] \in Allocated /\ HasStarted(heap[ref'[u]].attempt)
    <3>1. a = heap[ref'[u]].attempt /\ a \in Attempts BY <1>5, <2>2
    <3>2. HasStarted(a) BY <2>2, <3>1
    <3> QED BY <1>4, <3>1, <3>2
  <2>3. CASE u \in Clients /\ ref'[u] = ref[u] /\ StartWritten(u)
    <3>1. ref[u] \in Allocated
      BY <2>3 DEF StartWritten, JournalStart, StartPoint, IInv, RefOK, Free
    <3>2. a = heap[ref[u]].attempt /\ a \in Attempts BY <1>5, <2>3, <3>1
    <3> QED BY <1>2, <2>3, <3>2, StartRemembered
  <2> QED BY <1>2, <2>1, <2>2, <2>3, ThreadsNext DEF ThreadsMove
<1>8. StartedSlots'
  <2> SUFFICES ASSUME NEW a \in Attempts, table'[a] # NoSlot, heap'[table'[a]].journalled_start
               PROVE  HasStarted(a)'
    BY DEF StartedSlots
  <2>1. table'[a] \in Allocated' BY <1>3 DEF IInv, TableOK
  <2>2. table'[a] \in Allocated BY <2>1, MarkedSlots
  <2>3. table'[a] = table[a]
    <3>1. nextSlot \notin Allocated BY DEF Allocated, IInv, TypeOK
    <3> QED BY <2>2, <3>1, TableStep
  <2>4. heap[table[a]].attempt = a BY <2>3 DEF StartInv, TableAttempt
  <2>5. CASE heap[table[a]].journalled_start
    BY <1>2, <1>4, <2>3, <2>5 DEF StartInv, StartedSlots
  <2>6. ASSUME NEW t \in Threads, table[a] = ref[t], pc[t] \in StartedPoints PROVE HasStarted(a)'
    BY <1>4, <1>6, <2>4, <2>6
  <2> QED BY <2>1, <2>3, <2>5, <2>6, MarkedSlots
<1>9. StartedQueue'
  <2> SUFFICES ASSUME NEW i \in DOMAIN queue', NEW a, a = queue'[i] PROVE HasStarted(a)'
    BY DEF StartedQueue, HasStarted, Remembered
  <2>1. queue \in Seq(Attempts) BY DEF IInv, TypeOK
  <2>2. ASSUME NEW j \in DOMAIN queue, a = queue[j] PROVE HasStarted(a)'
    <3>1. a \in Attempts BY <2>1, <2>2
    <3>2. HasStarted(a) BY <1>2, <2>2 DEF StartInv, StartedQueue
    <3> QED BY <1>4, <3>1, <3>2
  <2>3. CASE queue' = queue BY <2>2, <2>3
  <2>4. CASE queue' = <<>> BY <2>4
  <2>5. CASE queue # <<>> /\ queue' = Tail(queue)
    <3>1. i + 1 \in DOMAIN queue /\ queue'[i] = queue[i + 1] BY <2>1, <2>5
    <3> QED BY <2>2, <3>1
  <2>6. ASSUME NEW c \in Clients, pc[c] = "enqueue", queue' = Append(queue, heap[ref[c]].attempt)
        PROVE  HasStarted(a)'
    <3>1. ref[c] \in Allocated /\ HasStarted(heap[ref[c]].attempt) /\ heap[ref[c]].attempt \in Attempts
      BY <1>5, <1>6, <2>6 DEF StartedPoints, Threads
    <3>2. (i \in DOMAIN queue /\ a = queue[i]) \/ a = heap[ref[c]].attempt
      BY <2>1, <2>6, <3>1
    <3>3. CASE a = heap[ref[c]].attempt
      <4>1. a \in Attempts /\ HasStarted(a) BY <3>1, <3>3
      <4> QED BY <1>4, <4>1
    <3> QED BY <2>2, <3>2, <3>3
  <2> QED BY <2>3, <2>4, <2>5, <2>6, QueueStep
<1>10. StartedPrepared'
  <2> SUFFICES ASSUME NEW p \in prepared', NEW a, a = p.attempt PROVE HasStarted(a)'
    BY DEF StartedPrepared
  <2>1. CASE p \in prepared
    <3>1. a \in Attempts /\ HasStarted(a)
      BY <1>2, <2>1 DEF StartInv, StartedPrepared, IInv, TypeOK, PreparedAttempt
    <3> QED BY <1>4, <3>1
  <2>2. CASE p \notin prepared
    <3>1. PICK c \in Clients : pc[c] = "compute" /\ a = heap[ref[c]].attempt
      BY <2>2, PreparedStep
    <3>2. a \in Attempts /\ HasStarted(a) BY <1>5, <1>6, <3>1 DEF StartedPoints, Threads
    <3> QED BY <1>4, <3>2
  <2> QED BY <2>1, <2>2
<1>11. StartedCancelled'
  <2> SUFFICES ASSUME NEW a \in cancelled' PROVE HasStarted(a)'
    BY DEF StartedCancelled
  <2>1. CASE a \in cancelled
    <3>1. a \in Attempts /\ HasStarted(a)
      BY <1>2, <2>1 DEF StartInv, StartedCancelled, IInv, TypeOK
    <3> QED BY <1>4, <3>1
  <2>2. CASE a \notin cancelled
    <3>1. PICK k \in BOOLEAN, s \in Allocated :
              s \in ShutdownSweep(k) /\ heap[s].journalled_start /\ heap[s].attempt = a
      BY <2>2, CancelledStep
    <3>2. PICK b \in Attempts : table[b] = s BY <3>1 DEF ShutdownSweep
    <3>3. s # NoSlot BY DEF Allocated, NoSlot
    <3>4. b = a BY <3>1, <3>2, <3>3 DEF StartInv, TableAttempt
    <3>5. HasStarted(a) BY <1>2, <3>1, <3>2, <3>3, <3>4 DEF StartInv, StartedSlots
    <3> QED BY <1>4, <3>2, <3>4, <3>5
  <2> QED BY <2>1, <2>2
<1> QED BY <1>7, <1>8, <1>9, <1>10, <1>11

LEMMA StartInit == Init => StartInv
<1> SUFFICES ASSUME Init PROVE StartInv OBVIOUS
<1>1. TableAttempt BY DEF Init, TableAttempt
<1>2. StartedThreads
  BY DEF Init, FreshThreads, StartedThreads, StartedPoints, CommitPoints
<1>3. StartedSlots BY DEF Init, StartedSlots
<1>4. StartedQueue BY DEF Init, StartedQueue
<1>5. StartedPrepared /\ StartedCancelled BY DEF Init, StartedPrepared, StartedCancelled
<1> QED BY <1>1, <1>2, <1>3, <1>4, <1>5 DEF StartInv

\* A placement is followed by its attempt's terminal phase.
LEMMA FollowRestart ==
    ASSUME IInv, RecordFollowed, NEW e \in Epochs, Restart(e)
    PROVE  RecordFollowed'
<1>1. SUFFICES ASSUME refusals = 0, NEW i \in DOMAIN placements,
                      placements[i].attempt \notin retired'
               PROVE  attempts'[placements[i].attempt] \notin {"none", "started"}
  BY DEF RecordFollowed, Restart
<1>2. PICK kept \in RecoveredPlacements, phases \in [Attempts -> AttemptPhase] :
          /\ \A a \in Attempts : phases[a] \in RecoveredPhases(a)
          /\ attempts' = Accounted(kept, phases)
          /\ retired' = retired \cup {a \in Attempts : phases[a] = "none" /\ attempts[a] # "none"}
  BY DEF Restart, Recover
<1>3. PICK a \in Attempts : a = placements[i].attempt
  <2>1. placements[i] \in [attempt : Attempts, epoch : Nat, slot : Slots]
    BY <1>1, PlacementIsRecord DEF IInv, TypeOK, PlacementSeq
  <2> QED BY <2>1
<1>4. phases[a] = attempts[a] /\ attempts[a] # "none"
  <2>1. attempts[a] # "none" BY <1>1, <1>2, <1>3 DEF RecordFollowed, Restart
  <2>2. phases[a] # "none" BY <1>1, <1>2, <1>3, <2>1
  <2> QED BY <1>1, <1>2, <2>1, <2>2 DEF RecoveredPhases
<1>5. attempts'[a] = IF phases[a] = "started" /\ Placed(kept, a) THEN "committed" ELSE phases[a]
  BY <1>2 DEF Accounted
<1>6. CASE attempts[a] # "started" BY <1>3, <1>4, <1>5, <1>6
<1>7. CASE attempts[a] = "started"
  <2>1. i = Len(placements) /\ i \in indexed
    BY <1>1, <1>2, <1>3, <1>7 DEF RecordFollowed, Awaited, Restart
  <2>2. indexed \ Superseded \subseteq kept BY <1>1 DEF RecoveredPlacements
  <2>3. Len(placements) \in Nat BY DEF IInv, TypeOK
  <2>4. i \notin Superseded
    <3>1. ASSUME NEW j \in indexed, i < j PROVE FALSE
      <4>1. j \in Nat /\ j <= Len(placements) BY <2>3 DEF IInv, TypeOK
      <4> QED BY <2>1, <2>3, <3>1, <4>1
    <3> QED BY <3>1 DEF Superseded
  <2>5. Placed(kept, a) BY <1>3, <2>1, <2>2, <2>4 DEF Placed
  <2> QED BY <1>3, <1>4, <1>5, <1>7, <2>5
<1> QED BY <1>6, <1>7

\* A closed store stays closed, and nothing more is written to it.
LEMMA ClosedStays ==
    ASSUME IInv, HasStore, closed, [Next]_vars, restarts' = restarts
    PROVE  closed' /\ placements' = placements
<1>1. CASE UNCHANGED vars BY <1>1 DEF vars
<1>2. ASSUME NEW c \in Clients, ClientCall(c) PROVE UNCHANGED <<closed, placements>>
  BY <1>2 DEF ClientCall, RegisterAttempt, Commit, Cancel, AwaitCall, AdvanceEpoch, SetAuthority,
     DrainCall, Shutdown, ShutdownSecond
<1>3. ASSUME NEW c \in Clients, ClientStep(c) PROVE closed' /\ placements' = placements
  <2>1. CASE ShutdownJournal(c) BY <2>1 DEF ShutdownJournal, JournalTerminal
  <2>2. CASE ShutdownClose(c) BY <2>2 DEF ShutdownClose
  <2> QED
    BY <1>3, <2>1, <2>2 DEF ClientStep, JournalStart, MarkStart, JournalPending, JournalTerminal,
       Enqueue, PrepareRun, PrepareDecide, Await, Drain, ShutdownWait, ShutdownJoin
<1>4. ASSUME NEW w \in Workers, WorkerStep(w) PROVE UNCHANGED <<closed, placements>>
  BY <1>4 DEF WorkerStep, WorkerSleep, WorkerExit, WorkerTake, WorkerFinish, WorkerDecide
<1>5. ASSUME NEW t \in Threads, CommitStep(t) PROVE UNCHANGED <<closed, placements>>
  BY <1>5 DEF CommitStep, CommitSlot, ReadIntent, CommitRecord, JournalCommit, JournalTerminal,
     FinalizeCommit, Fail, Journal
<1>6. ASSUME NEW e \in Epochs, Restart(e) PROVE FALSE BY <1>6 DEF Restart, IInv, TypeOK
<1> QED BY <1>1, <1>2, <1>3, <1>4, <1>5, <1>6 DEF Next

\* Only a thread that holds commit_mu leaves "journal_commit", by journalling.
LEMMA JournalCommitLeft ==
    ASSUME IInv, [Next]_vars, restarts' = restarts, NEW t \in Threads, pc[t] = "journal_commit",
           Moved(t)
    PROVE  JournalCommit(t)
<1>1. ASSUME NEW e \in Epochs, Restart(e) PROVE FALSE BY <1>1 DEF Restart, IInv, TypeOK
<1>2. ~ClientCall(t)
  BY DEF ClientCall, RegisterAttempt, Commit, Cancel, AwaitCall, AdvanceEpoch, SetAuthority,
     DrainCall, Shutdown, ShutdownSecond
<1>3. ~ClientStep(t)
  BY DEF ClientStep, JournalStart, MarkStart, JournalPending, StartPoint, MarkPoint, PendingPoint,
     Enqueue, PrepareRun, PrepareDecide, Await, Drain, ShutdownWait, ShutdownJournal, ShutdownJoin,
     ShutdownClose
<1>4. ~WorkerStep(t)
  BY DEF WorkerStep, WorkerSleep, WorkerExit, WorkerTake, WorkerFinish, WorkerDecide
<1>5. CommitStep(t) BY <1>1, <1>2, <1>3, <1>4, ThreadMoved DEF Moves
<1> QED
  BY <1>5 DEF CommitStep, CommitSlot, ReadIntent, CommitRecord, FinalizeCommit, Fail, Journal

LEMMA FollowNext ==
    ASSUME IInv, StartInv, RecordFollowed, [Next]_vars, restarts' = restarts
    PROVE  RecordFollowed'
<1>1. SUFFICES ASSUME HasStore, refusals' = 0, NEW i \in DOMAIN placements',
                      NEW a \in Attempts, a = placements'[i].attempt, a \notin retired',
                      attempts'[a] \in {"none", "started"}
               PROVE  attempts'[a] = "started" /\ Awaited(i)'
  <2>1. placements' \in PlacementSeq BY NextInv DEF IInv, TypeOK, PlacementSeq
  <2>2. \A j \in DOMAIN placements' : placements'[j] \in [attempt : Attempts, epoch : Nat, slot : Slots]
    BY <2>1, PlacementIsRecord
  <2>3. \A j \in DOMAIN placements' : placements'[j].attempt \in Attempts BY <2>2
  <2> QED BY <2>3 DEF RecordFollowed
<1>2. /\ refusals = 0 /\ retired' = retired /\ indexed \subseteq indexed'
      /\ i \in DOMAIN placements \/ i \in indexed'
  BY <1>1, IndexStep, IndexGrows
<1>3. HeapStep /\ IInv' BY NextInv
<1>4. \A s \in Allocated : heap'[s].attempt = heap[s].attempt BY <1>3 DEF HeapStep, SlotStep
<1>5. ~\E e \in Epochs : Restart(e) BY DEF Restart, IInv, TypeOK
<1>6. ASSUME NEW t \in Threads, NEW u \in Threads, pc[t] \in CommitPoints, pc[u] \in CommitPoints
      PROVE  t = u
  BY <1>6 DEF IInv, LockOK
<1>7. CASE i \in DOMAIN placements
  <2>1. a = placements[i].attempt BY <1>1, <1>7, RecordsStay
  <2>2. attempts[a] \in {"none", "started"} BY <1>1, PhaseNext DEF PhaseStep
  <2>3. attempts[a] = "started" /\ Awaited(i) BY <1>1, <1>2, <1>7, <2>1, <2>2 DEF RecordFollowed
  <2>4. attempts'[a] = "started" BY <1>1, <2>3, PhaseNext DEF PhaseStep
  <2>5. CASE closed
    <3>1. closed' /\ placements' = placements BY <1>1, <2>5, ClosedStays
    <3> QED BY <1>2, <2>3, <2>4, <3>1 DEF Awaited
  <2>6. CASE ~closed
    <3>1. PICK t \in Threads : pc[t] = "journal_commit" /\ heap[ref[t]].attempt = a
      BY <2>1, <2>3, <2>6 DEF Awaited
    <3>2. ref[t] \in Allocated BY <3>1 DEF IInv, RefOK, Free
    <3>3. placements' = placements
      <4> SUFFICES ASSUME placements' # placements PROVE FALSE OBVIOUS
      <4>1. PICK u \in Threads : pc[u] = "record" BY LedgerGrows DEF CommitRecord
      <4> QED BY <1>6, <3>1, <4>1 DEF CommitPoints
    <3>4. ~JournalCommit(t)
      <4> SUFFICES ASSUME JournalTerminal(ref[t], "committed") PROVE FALSE BY DEF JournalCommit
      <4>1. ~Refuse BY <1>1, <1>2 DEF Refuse
      <4>2. attempts' = [attempts EXCEPT ![a] = "committed"]
        BY <1>1, <2>3, <2>6, <3>1, <4>1 DEF JournalTerminal, TerminalAccepted
      <4> QED BY <1>1, <4>2 DEF IInv, TypeOK
    <3>5. ~Moved(t) BY <3>1, <3>4, JournalCommitLeft
    <3>6. pc'[t] = "journal_commit" /\ heap'[ref'[t]].attempt = a
      BY <1>4, <3>1, <3>2, <3>5 DEF Moved
    <3> QED BY <1>1, <1>2, <2>3, <2>4, <3>3, <3>6 DEF Awaited
  <2> QED BY <2>5, <2>6
<1>8. CASE i \notin DOMAIN placements
  <2>1. PICK t \in Threads :
            CommitRecord(t) /\ placements' = Append(placements, RecordOf(ref[t]))
    BY <1>1, <1>8, LedgerGrows
  <2>2. pc[t] = "record" /\ ref[t] \in Allocated /\ UNCHANGED <<heap, attempts>>
    BY <2>1 DEF CommitRecord, IInv, RefOK, Free
  <2>3. i = Len(placements') /\ placements'[i] = RecordOf(ref[t])
    BY <1>1, <1>8, <2>1 DEF IInv, TypeOK
  <2>4. a = heap[ref[t]].attempt BY <1>1, <2>3 DEF RecordOf
  <2>5. attempts'[a] = "started"
    BY <1>1, <2>2, <2>4 DEF StartInv, StartedThreads, StartedPoints, CommitPoints, HasStarted
  <2>6. Goto(t, "journal_commit")
    BY <1>1, <1>2, <2>1 DEF CommitRecord, Refuse, IInv, TypeOK
  <2>7. pc'[t] = "journal_commit" /\ heap'[ref'[t]].attempt = a
    BY <2>2, <2>4, <2>6 DEF Goto, IInv, TypeOK
  <2> QED BY <1>1, <1>2, <1>8, <2>3, <2>5, <2>7 DEF Awaited
<1> QED BY <1>7, <1>8

\* What the process works on is started and remembered, and placements are followed
\* by their terminal phases.
LEMMA StartedNext ==
    ASSUME IInv, StartInv, RecordFollowed, [Next]_vars
    PROVE  StartInv' /\ RecordFollowed'
<1>1. CASE \E e \in Epochs : Restart(e) BY <1>1, StartRestart, FollowRestart
<1>2. CASE ~\E e \in Epochs : Restart(e)
  <2>1. restarts' = restarts BY <1>2, IndexStep DEF CommitRecord
  <2> QED BY <2>1, StartNext, FollowNext
<1> QED BY <1>1, <1>2

LEMMA StartedInit == Init => StartInv /\ RecordFollowed
BY StartInit DEF Init, RecordFollowed

\* The journal of an attempt begins with its start record, whatever cancellation,
\* shutdown or commit races with the thread that registers it.
THEOREM StartComesFirst == Spec => StartIsJournalledFirst
<1>1. Init => IInv /\ StartInv /\ RecordFollowed BY InitInv, StartedInit
<1>2. IInv /\ StartInv /\ RecordFollowed /\ [Next]_vars => IInv' /\ StartInv' /\ RecordFollowed'
  BY NextInv, StartedNext
<1>3. IInv /\ StartInv /\ [Next]_vars =>
          (restarts' = restarts =>
              \A a \in Attempts : attempts[a] = "none" => attempts'[a] \in {"none", "started"})
  BY PhaseNext DEF PhaseStep
<1> QED BY <1>1, <1>2, <1>3, PTL DEF Spec, StartIsJournalledFirst

-----------------------------------------------------------------------------
(* At most one placement, and the refinement.                              *)

\* Whoever writes a placement writes the first of its attempt, unless a recovery
\* had lost the attempt's record or a write has failed.
LEMMA FirstPlacement ==
    ASSUME IInv, StartInv, HasStore, NEW t \in Threads, pc[t] = "record", refusals = 0,
           ~HasPlacement(heap[ref[t]].attempt), heap[ref[t]].attempt \notin retired
    PROVE  ~DurableFor(heap[ref[t]].attempt)
<1>1. HasStarted(heap[ref[t]].attempt)
  BY DEF StartInv, StartedThreads, StartedPoints, CommitPoints
<1> QED BY <1>1 DEF HasStarted, Remembered, HasPlacement, DurableFor

\* With a store no write of which fails, an attempt owns two placements only when a
\* recovery had lost its record in between.
THEOREM OnePlacementPerAttempt == Spec => []AtMostOnePlacement
<1>1. Init => IInv /\ StartInv /\ RecordFollowed /\ AtMostOnePlacement
  BY InitInv, StartedInit DEF Init, AtMostOnePlacement
<1>2. ASSUME IInv, StartInv, RecordFollowed, AtMostOnePlacement, [Next]_vars
      PROVE  AtMostOnePlacement'
  <2>1. SUFFICES ASSUME HasStore, refusals' = 0,
                        NEW i \in DOMAIN placements', NEW j \in DOMAIN placements',
                        placements'[i].attempt = placements'[j].attempt
                 PROVE  i = j \/ placements'[i].attempt \in retired'
    BY DEF AtMostOnePlacement
  <2>2. refusals = 0 BY <1>2, <2>1, IndexStep
  <2>3. retired \subseteq retired'
    BY <1>2, IndexStep DEF CommitRecord, Restart, Recover
  <2>4. CASE placements' = placements
    BY <1>2, <2>1, <2>2, <2>3, <2>4 DEF AtMostOnePlacement
  <2>5. CASE placements' # placements
    <3>1. PICK t \in Threads :
              /\ CommitRecord(t)
              /\ placements' = Append(placements, RecordOf(ref[t]))
              /\ ~HasPlacement(heap[ref[t]].attempt)
      BY <1>2, <2>1, <2>5, LedgerGrows
    <3>2. placements \in PlacementSeq BY <1>2 DEF IInv, TypeOK, PlacementSeq
    <3>3. pc[t] = "record" BY <3>1 DEF CommitRecord
    <3>4. heap[ref[t]].attempt \in retired \/ \A m \in DOMAIN placements : placements[m].attempt # heap[ref[t]].attempt
      BY <1>2, <2>1, <2>2, <3>1, <3>3, FirstPlacement DEF DurableFor
    <3> QED BY <1>2, <2>1, <2>2, <2>3, <3>1, <3>2, <3>4 DEF AtMostOnePlacement, RecordOf, PlacementSeq
  <2> QED BY <2>4, <2>5
<1>3. IInv /\ StartInv /\ RecordFollowed /\ [Next]_vars => IInv' /\ StartInv' /\ RecordFollowed'
  BY NextInv, StartedNext
<1> QED BY <1>1, <1>2, <1>3, PTL DEF Spec

\* The coordinator with a store implements the ledger its callers rely on: every
\* step of every thread, and every crash and restart, is a step of Ledger or
\* leaves the ledger as it is.  A second record of an attempt is possible only
\* after a restart has forgotten the attempt or a write of the store has failed.
THEOREM LedgerRefinement == ASSUME HasStore PROVE Spec => ImplementsLedger
<1>1. Init => IInv /\ StartInv /\ RecordFollowed BY InitInv, StartedInit
<1>2. IInv /\ StartInv /\ RecordFollowed /\ [Next]_vars => IInv' /\ StartInv' /\ RecordFollowed'
  BY NextInv, StartedNext
<1>3. Init => Abstract!Init
  BY DEF Init, Abstract!Init
<1>4. ASSUME IInv, StartInv, [Next]_vars
      PROVE  [Abstract!Next]_<<restarts, epoch, Records, retired, refusals > 0>>
  <2>1. placements \in PlacementSeq /\ epoch \in Nat /\ epoch' \in Nat
    BY <1>4, NextInv DEF IInv, TypeOK, Epochs, PlacementSeq
  <2>2. refusals \in Nat /\ refusals' \in Nat /\ refusals' >= refusals BY <1>4, IndexStep
  <2>3. CASE \E e \in Epochs : Restart(e)
    <3>1. /\ restarts' = restarts + 1 /\ placements' = placements /\ refusals' = refusals
          /\ retired \subseteq retired'
      BY <2>3 DEF Restart, Recover
    <3>2. retired' \subseteq Attempts BY <1>4, NextInv DEF IInv, TypeOK
    <3>3. Abstract!Restart BY <2>1, <3>1, <3>2 DEF Abstract!Restart
    <3> QED BY <3>3 DEF Abstract!Next
  <2>4. CASE placements' # placements
    <3>1. PICK t \in Threads :
              /\ CommitRecord(t)
              /\ placements' = Append(placements, RecordOf(ref[t]))
              /\ ~HasPlacement(heap[ref[t]].attempt)
      BY <1>4, <2>4, LedgerGrows
    <3> DEFINE a == heap[ref[t]].attempt
    <3>2. pc[t] = "record" /\ UNCHANGED <<restarts, epoch, retired>> BY <3>1 DEF CommitRecord
    <3>3. heap[ref[t]].epoch = epoch /\ heap[ref[t]] \in Slot /\ ref[t] \in Slots
      BY <1>4, <3>2, AllocatedSlots DEF IInv, FenceOK, RefOK, TypeOK, Free
    <3>4. RecordOf(ref[t]) \in [attempt : Attempts, epoch : Nat, slot : Slots]
          /\ RecordOf(ref[t]).attempt = a /\ RecordOf(ref[t]).epoch = epoch /\ a \in Attempts
      BY <3>3 DEF RecordOf, Slot
    <3>5. Records' = Append(Records, [attempt |-> a, epoch |-> epoch])
      BY <2>1, <3>1, <3>4, RecordsAppend
    <3>6. (\A i \in DOMAIN Records : Records[i].attempt # a) \/ a \in retired \/ refusals > 0
      BY <1>4, <2>2, <3>1, <3>2, FirstPlacement DEF Records, DurableFor
    <3>7. (refusals' > 0) \in BOOLEAN /\ (refusals > 0 => refusals' > 0) BY <2>2
    <3>8. Abstract!Record(a)
      BY <3>2, <3>5, <3>6, <3>7 DEF Abstract!Record, Abstract!Recorded, Abstract!MayFail, Records
    <3> QED BY <3>4, <3>8 DEF Abstract!Next, Abstract!Record
  <2>5. CASE placements' = placements /\ ~\E e \in Epochs : Restart(e)
    <3>1. Records' = Records BY <2>5 DEF Records
    <3>2. retired' = retired /\ restarts' = restarts BY <1>4, <2>5, IndexStep DEF CommitRecord
    <3>3. CASE epoch' = epoch
      <4>1. (refusals' > 0) \in BOOLEAN /\ (refusals > 0 => refusals' > 0) BY <2>2
      <4>2. Abstract!Fail
        BY <3>1, <3>2, <3>3, <4>1 DEF Abstract!Fail, Abstract!MayFail, Records
      <4> QED BY <4>2 DEF Abstract!Next
    <3>4. CASE epoch' # epoch
      <4>1. epoch' > epoch /\ refusals' = refusals
        BY <1>4, <2>5, <3>2, <3>4, EpochStep DEF IInv, TypeOK
      <4> QED BY <2>1, <3>1, <3>2, <4>1 DEF Abstract!Next, Abstract!Advance, Records
    <3> QED BY <3>3, <3>4
  <2> QED BY <2>3, <2>4, <2>5
<1> QED BY <1>1, <1>2, <1>3, <1>4, PTL DEF Spec, ImplementsLedger, Abstract!Spec, Records

-----------------------------------------------------------------------------
(* A committed outcome names its record.                                    *)

\* What the slot s is told when its commit is journalled.
Names(s, i) == i \in DOMAIN placements /\ placements[i].attempt = heap[s].attempt

\* A thread past CommitRecord holds a slot whose record is durable; past
\* JournalCommit, the slot names it; no failure is reported as a commit.
RecordWritten ==
    \A t \in Threads : pc[t] = "journal_commit" =>
        IF HasStore THEN HasPlacement(heap[ref[t]].attempt) ELSE Names(ref[t], Len(placements))
RecordNamed ==
    \A t \in Threads : pc[t] = "finalize" => Names(ref[t], heap[ref[t]].placement_id)
FailureNoted == \A t \in Threads : pc[t] \in {"fail", "journal"} => note[t] # "committed"
OutcomeNamed ==
    \A s \in Allocated : heap[s].state = "committed" => Names(s, heap[s].placement_id)
PhaseCommitted == \A a \in Attempts : attempts[a] = "committed" => HasPlacement(a)

\* Unless a write failed, the store has the latest placement of every flow: one that
\* a recovery no longer finds was superseded by one that it does find.
Covered ==
    refusals = 0 =>
        \A i \in DOMAIN placements : \E j \in indexed :
            i <= j /\ FlowOf[placements[j].attempt] = FlowOf[placements[i].attempt]

DurableInv ==
    /\ RecordWritten /\ RecordNamed /\ FailureNoted
    /\ OutcomeNamed /\ PhaseCommitted /\ Covered

\* How a thread comes to the last points of a commit, and to its failure.
LEMMA CommitArrival ==
    ASSUME IInv, [Next]_vars, NEW u \in Threads, Moved(u)
    PROVE  /\ pc'[u] = "journal_commit" => CommitRecord(u) /\ Goto(u, "journal_commit")
           /\ pc'[u] = "finalize" => JournalCommit(u)
           /\ pc'[u] \in {"fail", "journal"} => note'[u] # "committed" \/ Fail(u)
<1> DEFINE Late == {"journal_commit", "finalize", "fail", "journal"}
           Goal == /\ pc'[u] = "journal_commit" => CommitRecord(u) /\ Goto(u, "journal_commit")
                   /\ pc'[u] = "finalize" => JournalCommit(u)
                   /\ pc'[u] \in {"fail", "journal"} => note'[u] # "committed" \/ Fail(u)
<1>1. pc \in [Threads -> Point] /\ note \in [Threads -> AttemptState] BY DEF IInv, TypeOK, Point
<1>2. ASSUME NEW point, Goto(u, point) PROVE pc'[u] = point BY <1>1, <1>2 DEF Goto
<1>3. ASSUME NEW point, NEW s, NEW state, Enter(u, point, s, state)
      PROVE  pc'[u] = point /\ note'[u] = state
  BY <1>1, <1>3 DEF Enter
<1>4. ASSUME Return(u) PROVE pc'[u] \notin Late BY <1>3, <1>4 DEF Return
<1>5. ASSUME Stay PROVE FALSE BY <1>5 DEF Stay, Moved
<1>6. ASSUME u \in Clients, ClientCall(u) PROVE Goal
  <2>1. ASSUME NEW k \in Kinds, NEW a, NEW g, RegisterAttempt(u, k, a, g) PROVE Goal
    BY <1>3, <2>1 DEF RegisterAttempt, StartPoint, AfterStart
  <2>2. ASSUME NEW p, Commit(u, p) PROVE Goal BY <1>3, <2>2 DEF Commit
  <2>3. ASSUME NEW a, Cancel(u, a) \/ AwaitCall(u, a) PROVE Goal
    BY <1>3, <1>5, <2>3 DEF Cancel, AwaitCall
  <2> QED
    BY <1>2, <1>5, <1>6, <2>1, <2>2, <2>3 DEF ClientCall, AdvanceEpoch, SetAuthority, DrainCall,
       Shutdown, ShutdownSecond
<1>7. ASSUME u \in Clients, ClientStep(u) PROVE pc'[u] \notin Late
  BY <1>2, <1>4, <1>5, <1>7 DEF ClientStep, JournalStart, MarkStart, JournalPending,
     Enqueue, PrepareRun, PrepareDecide, Await, Drain, ShutdownWait, ShutdownJournal,
     ShutdownJoin, ShutdownClose, MarkPoint, PendingPoint, AfterStart
<1>8. ASSUME u \in Workers, WorkerStep(u) PROVE Goal
  <2>1. CASE WorkerTake(u) BY <1>3, <1>5, <2>1 DEF WorkerTake
  <2>2. ASSUME NEW d \in Decisions, WorkerDecide(u, d) PROVE Goal
    BY <1>2, <1>3, <2>2 DEF WorkerDecide
  <2> QED
    BY <1>2, <1>4, <1>5, <1>8, <2>1, <2>2 DEF WorkerStep, WorkerSleep, WorkerExit, WorkerFinish
<1>9. ASSUME CommitStep(u) PROVE Goal
  <2>1. ASSUME EndAttempt(u) PROVE pc'[u] \notin Late BY <1>2, <1>4, <2>1 DEF EndAttempt
  <2>2. ASSUME StatusReturned(u) PROVE pc'[u] = "fail" /\ note'[u] = "failed"
    BY <1>3, <2>2 DEF StatusReturned, StateForFailure
  <2>3. CASE CommitSlot(u)
    <3>1. \A code : StateForFailure(code) # "committed" BY DEF StateForFailure
    <3> QED BY <1>2, <1>3, <2>3, <3>1 DEF CommitSlot
  <2>4. CASE ReadIntent(u) BY <1>2, <2>2, <2>4 DEF ReadIntent
  <2>5. CASE CommitRecord(u) BY <1>2, <2>2, <2>5 DEF CommitRecord
  <2>6. CASE JournalCommit(u) BY <1>2, <2>6 DEF JournalCommit
  <2>7. CASE FinalizeCommit(u) \/ Journal(u) BY <2>1, <2>7 DEF FinalizeCommit, Journal
  <2>8. CASE Fail(u) BY <1>2, <1>4, <2>8 DEF Fail
  <2> QED BY <1>9, <2>3, <2>4, <2>5, <2>6, <2>7, <2>8 DEF CommitStep
<1>10. ASSUME NEW e \in Epochs, Restart(e) PROVE pc'[u] \notin Late
  BY <1>10 DEF Restart, FreshThreads
<1> QED BY <1>6, <1>7, <1>8, <1>9, <1>10, ThreadMoved DEF Moves

\* Only JournalCommit tells a slot its record.
LEMMA PlacementIdStep ==
    ASSUME IInv, [Next]_vars, NEW s \in Allocated,
           heap'[s].placement_id # heap[s].placement_id
    PROVE  \E t \in Threads :
               /\ JournalCommit(t) /\ s = ref[t]
               /\ heap'[s].placement_id =
                     IF HasStore THEN PlacementOf(heap[s].attempt) ELSE Len(placements)
<1>1. heap[s] \in Slot BY DEF IInv, TypeOK
<1>2. ASSUME NEW c \in Clients, ClientTouches(s, c) PROVE FALSE
  BY <1>1, <1>2 DEF ClientTouches, Ended, CancelledSlot, Slot
<1>3. ASSUME NEW w \in Workers, WorkerTouches(s, w) PROVE FALSE
  BY <1>1, <1>3 DEF WorkerTouches, Slot
<1>4. ASSUME NEW t \in Threads, CommitTouches(s, t)
      PROVE  /\ JournalCommit(t) /\ s = ref[t]
             /\ heap'[s].placement_id =
                   IF HasStore THEN PlacementOf(heap[s].attempt) ELSE Len(placements)
  BY <1>1, <1>4 DEF CommitTouches, Ended, Slot
<1> QED BY <1>2, <1>3, <1>4, SlotTouched

\* Only FinalizeCommit reports a commit, and a failure that is noted as one.
LEMMA CommittedStep ==
    ASSUME IInv, [Next]_vars, NEW s \in Allocated,
           heap'[s].state = "committed", heap[s].state # "committed"
    PROVE  \E t \in Threads : s = ref[t] /\ (pc[t] = "finalize" \/ (pc[t] = "fail" /\ note[t] = "committed"))
<1>1. heap[s] \in Slot BY DEF IInv, TypeOK
<1>2. ASSUME NEW c \in Clients, ClientTouches(s, c) PROVE FALSE
  BY <1>1, <1>2 DEF ClientTouches, Ended, CancelledSlot, Slot
<1>3. ASSUME NEW w \in Workers, WorkerTouches(s, w) PROVE FALSE
  BY <1>1, <1>3 DEF WorkerTouches, Slot
<1>4. ASSUME NEW t \in Threads, CommitTouches(s, t)
      PROVE  s = ref[t] /\ (FinalizeCommit(t) \/ (Fail(t) /\ note[t] = "committed"))
  BY <1>1, <1>4 DEF CommitTouches, Ended, Slot
<1> QED BY <1>2, <1>3, <1>4, SlotTouched DEF FinalizeCommit, Fail

\* Open refuses a store with a committed attempt that has no placement.
LEMMA CommittedRecovered ==
    ASSUME NEW e \in Epochs, Restart(e), NEW a \in Attempts, attempts'[a] = "committed"
    PROVE  HasPlacement(a)'
<1>1. PICK kept \in RecoveredPlacements, phases \in [Attempts -> AttemptPhase] :
          /\ Opens(kept, phases)
          /\ indexed' = kept
          /\ attempts' = Accounted(kept, phases)
  BY DEF Restart, Recover
<1>2. Placed(kept, a) BY <1>1 DEF Opens, Accounted
<1> QED BY <1>1, <1>2 DEF Placed, HasPlacement, Restart

\* Superseded placements are only dropped where a later one of the flow is kept.
LEMMA CoveredRestart ==
    ASSUME IInv, Covered, NEW e \in Epochs, Restart(e)
    PROVE  Covered'
<1>1. SUFFICES ASSUME refusals = 0, NEW i \in DOMAIN placements
               PROVE  \E j \in indexed' :
                         i <= j /\ FlowOf[placements[j].attempt] = FlowOf[placements[i].attempt]
  BY DEF Covered, Restart
<1>2. indexed \ Superseded \subseteq indexed'
  BY <1>1 DEF Restart, Recover, RecoveredPlacements
<1> DEFINE later == {j \in indexed :
               i <= j /\ FlowOf[placements[j].attempt] = FlowOf[placements[i].attempt]}
<1>3. later # {} BY <1>1 DEF Covered
<1>4. /\ Len(placements) \in Nat /\ DOMAIN placements = 1 .. Len(placements)
      /\ indexed \subseteq 1 .. Len(placements)
  BY DEF IInv, TypeOK
<1>5. later \subseteq 1 .. Len(placements) BY <1>4
<1> HIDE DEF later
<1>6. PICK j \in later : \A k \in later : k <= j BY <1>3, <1>4, <1>5, LargestNumber
<1>7. j \in indexed /\ i <= j /\ FlowOf[placements[j].attempt] = FlowOf[placements[i].attempt]
  BY <1>6 DEF later
<1>8. j \notin Superseded
  <2>1. ASSUME NEW k \in indexed, j < k, FlowOf[placements[j].attempt] = FlowOf[placements[k].attempt]
        PROVE  FALSE
    <3>1. i \in Nat /\ j \in Nat /\ k \in Nat BY <1>1, <1>4, <1>7, <2>1
    <3>2. i <= k BY <1>7, <2>1, <3>1
    <3>3. k \in later BY <1>7, <2>1, <3>2 DEF later
    <3> QED BY <1>6, <2>1, <3>1, <3>3
  <2> QED BY <2>1 DEF Superseded
<1> QED BY <1>2, <1>7, <1>8

\* Only JournalCommit journals a commit, and Open for a placement that it finds.
LEMMA CommittedPhaseStep ==
    ASSUME IInv, [Next]_vars, NEW a \in Attempts,
           attempts'[a] = "committed", attempts[a] # "committed"
    PROVE  \/ HasPlacement(a)'
           \/ \E t \in Threads :
                 /\ HasStore /\ heap[ref[t]].attempt = a
                 /\ pc[t] = "journal_commit" \/ (pc[t] = "journal" /\ note[t] = "committed")
<1>1. attempts \in [Attempts -> AttemptPhase] BY DEF IInv, TypeOK
<1>2. ASSUME NEW s, NEW phase, JournalTerminal(s, phase)
      PROVE  HasStore /\ heap[s].attempt = a /\ phase = "committed"
  <2>1. HasStore /\ attempts' = [attempts EXCEPT ![heap[s].attempt] = phase]
    BY <1>2 DEF JournalTerminal, Refuse
  <2> QED BY <1>1, <2>1
<1>3. ASSUME UNCHANGED attempts PROVE FALSE BY <1>3
<1>4. ASSUME NEW c \in Clients, ClientCall(c) PROVE FALSE
  BY <1>3, <1>4 DEF ClientCall, RegisterAttempt, Commit, Cancel, AwaitCall, AdvanceEpoch,
     SetAuthority, DrainCall, Shutdown, ShutdownSecond
<1>5. ASSUME NEW c \in Clients, ClientStep(c) PROVE FALSE
  <2>1. ASSUME NEW k \in Kinds, JournalStart(c, k) PROVE FALSE BY <1>1, <2>1 DEF JournalStart
  <2>2. ASSUME NEW k \in Kinds, JournalPending(c, k) PROVE FALSE
    BY <1>2, <2>2 DEF JournalPending
  <2>3. ASSUME ShutdownJournal(c) PROVE FALSE BY <1>2, <1>3, <2>3 DEF ShutdownJournal
  <2> QED
    BY <1>3, <1>5, <2>1, <2>2, <2>3 DEF ClientStep, MarkStart, Enqueue, PrepareRun,
       PrepareDecide, Await, Drain, ShutdownWait, ShutdownJoin, ShutdownClose
<1>6. ASSUME NEW w \in Workers, WorkerStep(w) PROVE FALSE
  BY <1>3, <1>6 DEF WorkerStep, WorkerSleep, WorkerExit, WorkerTake, WorkerFinish, WorkerDecide
<1>7. ASSUME NEW t \in Threads, CommitStep(t)
      PROVE  /\ HasStore /\ heap[ref[t]].attempt = a
             /\ pc[t] = "journal_commit" \/ (pc[t] = "journal" /\ note[t] = "committed")
  <2>1. CASE JournalCommit(t) BY <1>2, <2>1 DEF JournalCommit
  <2>2. CASE Journal(t)
    <3>1. HasStore /\ heap[ref[t]].attempt = a /\ PhaseForState(note[t]) = "committed"
      BY <1>2, <2>2 DEF Journal
    <3> QED BY <2>2, <3>1 DEF Journal, PhaseForState
  <2> QED
    BY <1>3, <1>7, <2>1, <2>2 DEF CommitStep, CommitSlot, ReadIntent, CommitRecord,
       FinalizeCommit, Fail
<1>8. ASSUME NEW e \in Epochs, Restart(e) PROVE HasPlacement(a)'
  BY <1>8, CommittedRecovered
<1> QED BY <1>3, <1>4, <1>5, <1>6, <1>7, <1>8 DEF Next, vars

LEMMA DurableNext == ASSUME IInv, DurableInv, [Next]_vars PROVE DurableInv'
<1>1. HeapStep /\ IInv' BY NextInv
<1>2. \A s \in Allocated : heap[s] \in Slot /\ heap'[s].attempt = heap[s].attempt
  BY <1>1 DEF HeapStep, SlotStep, IInv, TypeOK
<1>3. /\ placements \in PlacementSeq
      /\ \A i \in DOMAIN placements : i \in DOMAIN placements' /\ placements'[i] = placements[i]
  BY RecordsStay DEF IInv, TypeOK, PlacementSeq
<1>4. ASSUME NEW a, HasPlacement(a), restarts' = restarts PROVE HasPlacement(a)'
  <2>1. indexed \subseteq indexed' /\ indexed \subseteq DOMAIN placements
    BY <1>4, IndexGrows DEF IInv, TypeOK
  <2> QED BY <1>3, <1>4, <2>1 DEF HasPlacement
<1>15. restarts' = restarts \/ \E e \in Epochs : Restart(e) BY IndexStep DEF CommitRecord
<1>5. ASSUME NEW s \in Allocated, NEW i, Names(s, i) PROVE Names(s, i)'
  BY <1>2, <1>3, <1>5 DEF Names
<1>6. ASSUME NEW t \in Threads, pc[t] \in {"record", "journal_commit", "finalize", "fail", "journal"}
      PROVE  ref[t] \in Allocated
  BY <1>6 DEF IInv, RefOK, Free
<1>7. ASSUME NEW t \in Threads, NEW u \in Threads, pc[t] \in CommitPoints, pc[u] \in CommitPoints
      PROVE  t = u
  BY <1>7 DEF IInv, LockOK
<1>8. ASSUME NEW t \in Threads, pc[t] = "journal_commit"
      PROVE  Names(ref[t], IF HasStore THEN PlacementOf(heap[ref[t]].attempt) ELSE Len(placements))
  <2>1. ASSUME NEW a, HasPlacement(a)
        PROVE  PlacementOf(a) \in DOMAIN placements /\ placements[PlacementOf(a)].attempt = a
    BY <2>1, LatestPlacement DEF IInv
  <2> QED BY <1>8, <2>1 DEF DurableInv, RecordWritten, Names
<1>9. ASSUME NEW u \in Threads, ~Moved(u) PROVE pc'[u] = pc[u] /\ ref'[u] = ref[u] /\ note'[u] = note[u]
  BY <1>9 DEF Moved
<1>10. RecordWritten'
  <2> SUFFICES ASSUME NEW u \in Threads, pc'[u] = "journal_commit"
               PROVE  IF HasStore THEN HasPlacement(heap[ref[u]].attempt)'
                      ELSE Names(ref[u], Len(placements))'
    BY DEF RecordWritten
  <2>1. CASE ~Moved(u)
    <3>1. pc[u] = "journal_commit" /\ ref'[u] = ref[u] /\ ref[u] \in Allocated
      BY <1>6, <1>9, <2>1
    <3>2. CASE HasStore
      <4>1. PICK a : a = heap[ref[u]].attempt OBVIOUS
      <4>2. HasPlacement(a) BY <3>1, <3>2, <4>1 DEF DurableInv, RecordWritten
      <4>3. ~\E e \in Epochs : Restart(e) BY DEF Restart, FreshThreads
      <4>4. HasPlacement(a)' BY <1>4, <1>15, <4>2, <4>3
      <4>5. heap'[ref'[u]].attempt = a BY <1>2, <3>1, <4>1
      <4>6. HasPlacement(heap[ref[u]].attempt)' BY <4>4, <4>5 DEF HasPlacement
      <4> QED BY <3>2, <4>6
    <3>3. CASE ~HasStore
      <4>1. placements' = placements
        <5> SUFFICES ASSUME placements' # placements PROVE FALSE OBVIOUS
        <5>1. PICK t \in Threads : pc[t] = "record" BY LedgerGrows DEF CommitRecord
        <5> QED BY <1>7, <3>1, <5>1 DEF CommitPoints
      <4>2. Names(ref[u], Len(placements)) BY <3>1, <3>3 DEF DurableInv, RecordWritten
      <4>3. Names(ref[u], Len(placements))' BY <1>2, <3>1, <4>1, <4>2 DEF Names
      <4> QED BY <3>3, <4>3
    <3> QED BY <3>2, <3>3
  <2>2. CASE Moved(u)
    <3>1. CommitRecord(u) /\ Goto(u, "journal_commit") BY <2>2, CommitArrival
    <3>2. pc[u] = "record" /\ ref'[u] = ref[u] /\ ref[u] \in Allocated /\ heap' = heap
      BY <1>6, <3>1 DEF CommitRecord, Goto
    <3>3. ~StatusReturned(u) BY <3>1 DEF StatusReturned, Goto, Enter, IInv, TypeOK
    <3>4. CASE /\ placements' = Append(placements, RecordOf(ref[u]))
               /\ indexed' = indexed \cup {NewIndex}
      <4>1. /\ RecordOf(ref[u]) \in [attempt : Attempts, epoch : Nat, slot : Slots]
            /\ RecordOf(ref[u]).attempt = heap[ref[u]].attempt
        BY <1>2, <3>2, AllocatedSlots DEF RecordOf, Slot, IInv
      <4>2. /\ Len(placements') \in DOMAIN placements'
            /\ placements'[Len(placements')].attempt = heap[ref[u]].attempt
        BY <1>3, <3>4, <4>1 DEF PlacementSeq
      <4>3. Names(ref[u], Len(placements))' BY <3>2, <4>2 DEF Names
      <4>4. Len(placements') = NewIndex BY <1>3, <3>4, <4>1 DEF PlacementSeq, NewIndex
      <4>5. HasPlacement(heap[ref[u]].attempt)' BY <3>2, <3>4, <4>2, <4>4 DEF HasPlacement
      <4> QED BY <4>3, <4>5
    <3>5. CASE /\ HasStore /\ HasPlacement(heap[ref[u]].attempt)
               /\ UNCHANGED <<placements, indexed>>
      <4>1. HasPlacement(heap[ref[u]].attempt)' BY <3>2, <3>5 DEF HasPlacement
      <4> QED BY <3>5, <4>1
    <3> QED BY <3>1, <3>3, <3>4, <3>5 DEF CommitRecord
  <2> QED BY <2>1, <2>2
<1>11. RecordNamed'
  <2> SUFFICES ASSUME NEW u \in Threads, pc'[u] = "finalize"
               PROVE  Names(ref[u], heap[ref[u]].placement_id)'
    BY DEF RecordNamed
  <2>1. CASE ~Moved(u)
    <3>1. pc[u] = "finalize" /\ ref'[u] = ref[u] /\ ref[u] \in Allocated
      BY <1>6, <1>9, <2>1
    <3>2. heap'[ref[u]].placement_id = heap[ref[u]].placement_id
      <4> SUFFICES ASSUME heap'[ref[u]].placement_id # heap[ref[u]].placement_id PROVE FALSE
        OBVIOUS
      <4>1. PICK t \in Threads : pc[t] = "journal_commit"
        BY <3>1, PlacementIdStep DEF JournalCommit
      <4> QED BY <1>7, <3>1, <4>1 DEF CommitPoints
    <3>3. Names(ref[u], heap[ref[u]].placement_id) BY <3>1 DEF DurableInv, RecordNamed
    <3> QED BY <1>2, <1>3, <3>1, <3>2, <3>3 DEF Names
  <2>2. CASE Moved(u)
    <3>1. JournalCommit(u) BY <2>2, CommitArrival
    <3>2. /\ pc[u] = "journal_commit" /\ ref'[u] = ref[u] /\ ref[u] \in Allocated
          /\ placements' = placements
      BY <1>6, <3>1 DEF JournalCommit, JournalTerminal, Goto
    <3>3. heap'[ref[u]].placement_id =
             IF HasStore THEN PlacementOf(heap[ref[u]].attempt) ELSE Len(placements)
      BY <1>2, <3>1, <3>2 DEF JournalCommit, IInv, TypeOK, Slot
    <3>4. Names(ref[u], heap'[ref[u]].placement_id) BY <1>8, <3>2, <3>3
    <3> QED BY <1>2, <3>2, <3>4 DEF Names
  <2> QED BY <2>1, <2>2
<1>12. FailureNoted'
  <2> SUFFICES ASSUME NEW u \in Threads, pc'[u] \in {"fail", "journal"} PROVE note'[u] # "committed"
    BY DEF FailureNoted
  <2>1. CASE ~Moved(u) BY <1>9, <2>1 DEF DurableInv, FailureNoted
  <2>2. CASE Moved(u) /\ Fail(u)
    <3>1. pc[u] = "fail" BY <2>2 DEF Fail
    <3>2. CASE Goto(u, "journal") BY <3>1, <3>2 DEF Goto, DurableInv, FailureNoted
    <3>3. CASE Return(u) BY <3>3 DEF Return, Enter, IInv, TypeOK
    <3> QED BY <2>2, <3>2, <3>3 DEF Fail
  <2> QED BY <2>1, <2>2, CommitArrival
<1>13. OutcomeNamed'
  <2> SUFFICES ASSUME NEW s \in Allocated', heap'[s].state = "committed"
               PROVE  Names(s, heap[s].placement_id)'
    BY DEF OutcomeNamed, Names
  <2>1. s \in Allocated
    <3>1. ASSUME NEW a, NEW g, heap'[s] = NewSlot(a, epoch, g) PROVE FALSE BY <3>1 DEF NewSlot
    <3> QED BY <3>1, SlotCreated
  <2>2. Names(s, heap[s].placement_id) \/ heap'[s].placement_id # heap[s].placement_id
    <3>1. CASE heap[s].state = "committed"
      BY <2>1, <3>1 DEF DurableInv, OutcomeNamed
    <3>2. CASE heap[s].state # "committed"
      BY <2>1, <3>2, CommittedStep DEF DurableInv, RecordNamed, FailureNoted
    <3> QED BY <3>1, <3>2
  <2>3. CASE heap'[s].placement_id = heap[s].placement_id
    BY <1>2, <1>3, <2>1, <2>2, <2>3 DEF Names
  <2>4. CASE heap'[s].placement_id # heap[s].placement_id
    <3>1. PICK t \in Threads :
              /\ JournalCommit(t) /\ s = ref[t]
              /\ heap'[s].placement_id =
                    IF HasStore THEN PlacementOf(heap[s].attempt) ELSE Len(placements)
      BY <2>1, <2>4, PlacementIdStep
    <3>2. pc[t] = "journal_commit" /\ placements' = placements
      BY <3>1 DEF JournalCommit, JournalTerminal
    <3>3. Names(s, heap'[s].placement_id) BY <1>8, <3>1, <3>2
    <3> QED BY <1>2, <2>1, <3>2, <3>3 DEF Names
  <2> QED BY <2>3, <2>4
<1>14. PhaseCommitted'
  <2> SUFFICES ASSUME NEW a \in Attempts, attempts'[a] = "committed" PROVE HasPlacement(a)'
    BY DEF PhaseCommitted
  <2>1. CASE \E e \in Epochs : Restart(e) BY <2>1, CommittedRecovered
  <2>2. CASE restarts' = restarts
    <3>1. CASE attempts[a] = "committed" BY <1>4, <2>2, <3>1 DEF DurableInv, PhaseCommitted
    <3>2. CASE attempts[a] # "committed"
      BY <1>4, <2>2, <3>2, CommittedPhaseStep DEF DurableInv, RecordWritten, FailureNoted
    <3> QED BY <3>1, <3>2
  <2> QED BY <1>15, <2>1, <2>2
<1>16. Covered'
  <2>1. CASE \E e \in Epochs : Restart(e) BY <2>1, CoveredRestart DEF DurableInv
  <2>2. CASE restarts' = restarts
    <3>1. SUFFICES ASSUME refusals' = 0, NEW i \in DOMAIN placements'
                   PROVE  \E j \in indexed' :
                             i <= j /\ FlowOf[placements'[j].attempt] = FlowOf[placements'[i].attempt]
      BY DEF Covered
    <3>2. /\ refusals = 0 /\ indexed \subseteq indexed'
          /\ i \in DOMAIN placements \/ i \in indexed'
      BY <2>2, <3>1, IndexStep, IndexGrows
    <3>3. i \in Nat BY <1>1, <3>1 DEF IInv, TypeOK
    <3>4. CASE i \in DOMAIN placements
      <4>1. PICK j \in indexed : i <= j /\ FlowOf[placements[j].attempt] = FlowOf[placements[i].attempt]
        BY <3>2, <3>4 DEF DurableInv, Covered
      <4>2. j \in DOMAIN placements BY DEF IInv, TypeOK
      <4> QED BY <1>3, <3>2, <3>4, <4>1, <4>2
    <3>5. CASE i \in indexed' BY <3>3, <3>5
    <3> QED BY <3>2, <3>4, <3>5
  <2> QED BY <1>15, <2>1, <2>2
<1> QED BY <1>10, <1>11, <1>12, <1>13, <1>14, <1>16 DEF DurableInv

LEMMA DurableInit == Init => DurableInv
<1> SUFFICES ASSUME Init PROVE DurableInv OBVIOUS
<1>1. RecordWritten /\ RecordNamed /\ FailureNoted
  BY DEF Init, FreshThreads, RecordWritten, RecordNamed, FailureNoted
<1>2. OutcomeNamed BY DEF Init, OutcomeNamed, Allocated
<1>3. PhaseCommitted /\ Covered BY DEF Init, PhaseCommitted, Covered
<1> QED BY <1>1, <1>2, <1>3 DEF DurableInv

\* An outcome reported as committed names the placement that was written for its
\* attempt.  Unless a store write has failed, the running store has that placement or
\* a later one of the flow, also after crashes whose recovery found only the latest
\* placement of each flow.  Whether or not the attempt was reaped.
THEOREM CommittedNamesRecord == Spec => []CommittedIsDurable
<1>1. Init => IInv /\ DurableInv BY InitInv, DurableInit
<1>2. IInv /\ DurableInv /\ [Next]_vars => IInv' /\ DurableInv' BY NextInv, DurableNext
<1>3. DurableInv => CommittedIsDurable
  BY DEF DurableInv, OutcomeNamed, Names, Covered, CommittedIsDurable
<1> QED BY <1>1, <1>2, <1>3, PTL DEF Spec

=============================================================================
