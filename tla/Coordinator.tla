---------------------------- MODULE Coordinator ----------------------------
(***************************************************************************)
(* The placement coordinator of src/src/runtime.cpp: a pool of worker      *)
(* threads and any number of caller threads that share one table of        *)
(* attempts, one bounded queue and one durable ledger.                     *)
(*                                                                         *)
(* Every block the code runs under `mu`, and every store call it makes     *)
(* under `store_mu`, is one step: neither lock is ever held across two of  *)
(* them.  `commit_mu` IS held across steps (the commit boundary, the       *)
(* durable append, the journal record, the final state), so it is a        *)
(* variable.  A call that only returns a status and changes nothing but    *)
(* statistics (queue full, unknown attempt, stale epoch, duplicate) is a   *)
(* stuttering step and has no action.                                      *)
(*                                                                         *)
(* The store is seen through its calls: the placements ever written, the   *)
(* ones its memory image has, and the last journalled phase of each        *)
(* attempt.  What a recovery may find of them is stated here (Restart); how *)
(* the files bring it about is module Store's subject.                     *)
(***************************************************************************)
EXTENDS Naturals, Sequences, FiniteSets

CONSTANTS
    Workers,        \* the worker threads of the pool
    Clients,        \* the threads that call the public interface
    NoThread,       \* "commit_mu is free"
    Attempts,       \* attempt identities (all valid, i.e. non-zero)
    FlowOf,         \* the flow each attempt places
    Auths,          \* authority generations a request may be bound to
    QueueCapacity,  \* CoordinatorOptions::queue_capacity
    MaxRetained,    \* CoordinatorOptions::max_retained_attempts
    HasStore,       \* FALSE: in-memory coordination (empty store_path)
    Calls,          \* the public operations the callers of this instance use
    MaxSlots,       \* bound: attempts ever admitted
    MaxEpoch,       \* bound: largest fabric epoch
    MaxRestarts,    \* bound: process crashes and restarts
    MaxRefusals     \* bound: store writes that fail (budget exhausted, I/O)

Threads == Workers \cup Clients
Slots == 1 .. MaxSlots
NoSlot == 0
Epochs == 1 .. MaxEpoch
Unconstrained == 0

ASSUME ThreadAssumption ==
    /\ NoThread \notin Threads
    /\ Workers \cap Clients = {}
\* Start raises worker_threads to at least one and caps it.
ASSUME WorkerAssumption == Workers # {} /\ IsFiniteSet(Workers)
ASSUME NumberAssumption ==
    /\ {QueueCapacity, MaxRetained, MaxSlots, MaxRestarts, MaxRefusals} \subseteq Nat
    /\ MaxEpoch \in Nat \ {0}
    /\ Auths \subseteq Nat \ {Unconstrained}
    /\ HasStore \in BOOLEAN

TerminalStates == {"committed", "rejected", "cancelled", "fenced", "failed"}
AttemptState == {"queued", "running"} \cup TerminalStates
AttemptPhase == {"none", "started", "committed", "rejected", "cancelled", "fenced"}

VARIABLES
    runState,    \* RunState
    epoch,       \* st.epoch
    authority,   \* st.authority, abstracted to one generation (0 = unconstrained)
    queue,       \* st.queue (queue_depth is its length)
    slotOrder,   \* st.slot_order
    table,       \* st.slots: attempt -> the slot it is known by
    heap,        \* the Slot objects; a thread may hold one that left the table
    nextSlot,    \* allocation of Slot objects
    active,      \* st.active
    commitMu,    \* holder of commit_mu
    cvWork,      \* threads asleep on cv_work
    cvDone,      \* threads asleep on cv_done
    pc,          \* where each thread is
    ref,         \* the Slot each thread holds
    note,        \* the terminal state a thread is about to record
    cancelled,   \* journal_cancelled: what the shutdown owner still has to journal
    prepared,    \* the PreparedAttempt values handed to callers
    placements,  \* every placement written whole, in commit order (a history)
    indexed,     \* those the store has in memory (impl placements, commit_by_attempt)
    attempts,    \* last journalled phase of every attempt
    doubtful,    \* phases whose write was reported failed, and may be in the file
    retired,     \* attempts whose record some recovery no longer found
    closed,      \* the store was closed
    restarts, refusals

muVars == <<runState, queue, slotOrder, table, nextSlot, active>>
fence == <<epoch, authority>>
cvVars == <<cvWork, cvDone>>
ledger == <<placements, indexed, attempts, doubtful, retired, closed>>
bounds == <<restarts, refusals>>
vars == <<runState, epoch, authority, queue, slotOrder, table, heap, nextSlot, active,
          commitMu, cvWork, cvDone, pc, ref, note, cancelled, prepared, placements,
          indexed, attempts, doubtful, retired, closed, restarts, refusals>>

Slot == [attempt : Attempts, epoch : Nat, auth : Nat, state : AttemptState,
         terminal : BOOLEAN, commit_boundary_crossed : BOOLEAN,
         cancel_requested : BOOLEAN, running : BOOLEAN, in_worker : BOOLEAN,
         journalled_start : BOOLEAN, pending_terminal : BOOLEAN,
         decision : {"none", "placed", "declined"}, placement_id : Nat]

NewSlot(a, e, g) ==
    [attempt |-> a, epoch |-> e, auth |-> g, state |-> "queued", terminal |-> FALSE,
     commit_boundary_crossed |-> FALSE, cancel_requested |-> FALSE, running |-> FALSE,
     in_worker |-> FALSE, journalled_start |-> FALSE, pending_terminal |-> FALSE,
     decision |-> "none", placement_id |-> 0]

Allocated == 1 .. (nextSlot - 1)

PreparedAttempt == [attempt : Attempts, decision : {"placed", "declined"}]

\* Program points.  A worker cycles loop -> compute -> commit ... -> finish.
WorkerPoints == {"loop", "finish", "exit"}
CommitPoints == {"intent", "record", "journal_commit", "finalize"}   \* commit_mu is held here
ClientPoints == {"idle", "submit_start", "prepare_start", "submit_mark", "prepare_mark",
                 "submit_pending", "prepare_pending", "enqueue", "prepare_run", "await",
                 "drain", "sd_wait", "sd_journal", "sd_join", "sd_close"}
SharedPoints == {"compute", "commit", "fail", "journal"} \cup CommitPoints

TypeOK ==
    /\ runState \in {"running", "shutting_down", "stopped"}
    /\ epoch \in Epochs
    /\ authority \in Auths \cup {Unconstrained}
    /\ queue \in Seq(Attempts)
    /\ table \in [Attempts -> Slots \cup {NoSlot}]
    /\ nextSlot \in 1 .. (MaxSlots + 1)
    /\ heap \in [Allocated -> Slot]
    /\ active \in Nat
    /\ commitMu \in Threads \cup {NoThread}
    /\ cvWork \subseteq Threads /\ cvDone \subseteq Threads
    /\ pc \in [Threads -> WorkerPoints \cup ClientPoints \cup SharedPoints]
    /\ ref \in [Threads -> Slots \cup {NoSlot}]
    /\ note \in [Threads -> AttemptState]
    /\ cancelled \subseteq Attempts
    /\ prepared \subseteq PreparedAttempt
    /\ placements \in Seq([attempt : Attempts, epoch : Nat, slot : Slots])
    /\ indexed \subseteq DOMAIN placements
    /\ attempts \in [Attempts -> AttemptPhase]
    /\ doubtful \subseteq Attempts \X AttemptPhase
    /\ retired \subseteq Attempts
    /\ closed \in BOOLEAN
    /\ restarts \in 0 .. MaxRestarts /\ refusals \in 0 .. MaxRefusals

-----------------------------------------------------------------------------
(* Helpers that run inside a step.                                         *)

NotifyAllDoneOnly == UNCHANGED cvWork /\ cvDone' = {}
NotifyAll == cvWork' = {} /\ cvDone' = {}

NotifyOneNobody == UNCHANGED cvVars
NotifyOneWork ==
    /\ cvDone' = cvDone
    /\ IF cvWork = {} THEN cvWork' = {} ELSE \E t \in cvWork : cvWork' = cvWork \ {t}

\* Control: on to the next point; start over with a slot and a state to record;
\* return to the caller, whose locals are gone.
Goto(t, point) == pc' = [pc EXCEPT ![t] = point] /\ UNCHANGED <<ref, note>>
Enter(t, point, s, state) ==
    /\ pc' = [pc EXCEPT ![t] = point]
    /\ ref' = [ref EXCEPT ![t] = s]
    /\ note' = [note EXCEPT ![t] = state]
Return(t) == Enter(t, IF t \in Workers THEN "loop" ELSE "idle", NoSlot, "queued")
Stay == UNCHANGED <<pc, ref, note>>

FinalizedAgain(slot, state) == [slot EXCEPT !.state = state, !.terminal = TRUE]
\* FinalizeLocked as a function of the slot: a terminal slot keeps its outcome.
Finalized(slot, state) ==
    IF slot.terminal THEN slot ELSE [slot EXCEPT !.state = state, !.terminal = TRUE]

FinalizeLocked(s, state) ==
    /\ heap' = [heap EXCEPT ![s] = Finalized(@, state)]
    /\ IF heap[s].terminal THEN UNCHANGED cvVars ELSE NotifyAll

AuthorityMatches(current, expected) == current = Unconstrained \/ current = expected

StateForFailure(code) ==
    CASE code \in {"cancelled", "shutting_down"} -> "cancelled"
      [] code \in {"stale_epoch", "stale_authority"} -> "fenced"
      [] OTHER -> "failed"

PhaseForState(state) ==
    IF state \in {"committed", "cancelled", "fenced"} THEN state ELSE "rejected"

\* commit_by_attempt: the store's index, in memory, of the placements by attempt.
HasPlacement(a) == \E i \in indexed : placements[i].attempt = a
\* What was ever written for an attempt, and by a slot.
DurableFor(a) == \E i \in DOMAIN placements : placements[i].attempt = a
DurableBy(s) == \E i \in DOMAIN placements : placements[i].slot = s

\* A store call that reports an error: budget exhausted, an I/O error that leaves
\* the record torn or whole in the file, or a compaction that failed after the
\* record was written and applied.  From then on the files and the memory image
\* may disagree, and a recovery may miss acknowledged records: see Restart.
Refuse == HasStore /\ refusals < MaxRefusals /\ refusals' = refusals + 1

StartAccepted(a) == ~closed /\ attempts[a] \in {"none", "started"} /\ ~HasPlacement(a)
TerminalAccepted(a) == ~closed /\ attempts[a] \in {"none", "started"}

\* JournalTerminal: the status of the store call is discarded.
JournalTerminal(s, phase) ==
    LET a == heap[s].attempt IN
    /\ UNCHANGED <<placements, indexed, retired, closed, restarts>>
    /\ \/ /\ HasStore /\ TerminalAccepted(a)
          /\ attempts' = [attempts EXCEPT ![a] = phase]
          /\ UNCHANGED <<doubtful, refusals>>
       \/ /\ ~(HasStore /\ TerminalAccepted(a))
          /\ UNCHANGED <<attempts, doubtful, refusals>>
       \/ /\ TerminalAccepted(a) /\ Refuse
          /\ attempts' \in {attempts, [attempts EXCEPT ![a] = phase]}
          /\ doubtful' = doubtful \cup {<<a, phase>>}

\* Two fields of a slot that other threads must respect: once the boundary is
\* crossed the commit is in flight; until the start record is durable, the
\* registering thread owns the attempt's journal.
BoundaryIgnored(s) == FALSE
BoundaryCrossed(s) == heap[s].commit_boundary_crossed
StartPresumed(s) == TRUE
StartIsDurable(s) == heap[s].journalled_start

\* What AdvanceEpoch and SetAuthority wait for.
NoFenceLock == TRUE
FenceLock == commitMu = NoThread

\* ReapRetainedSlots on a table that just grew: the oldest terminal attempts go,
\* attempts still in flight are rotated to the back of the order.
InTable(tab) == {a \in Attempts : tab[a] # NoSlot}
ReapPositions(tab, obj, order) ==
    LET done == {i \in DOMAIN order : obj[tab[order[i]]].terminal}
        excess == IF Cardinality(InTable(tab)) > MaxRetained
                  THEN Cardinality(InTable(tab)) - MaxRetained ELSE 0
    IN {i \in done : Cardinality({j \in done : j <= i}) <= excess}
ReapedTable(tab, obj, order) ==
    LET gone == {order[i] : i \in ReapPositions(tab, obj, order)}
    IN [a \in Attempts |-> IF a \in gone THEN NoSlot ELSE tab[a]]
ReapedOrder(tab, obj, order) ==
    LET pos == ReapPositions(tab, obj, order)
        last == CHOOSE i \in pos : \A j \in pos : j <= i
        InFlight(a) == ~obj[tab[a]].terminal
    IN IF pos = {} THEN order
       ELSE SubSeq(order, last + 1, Len(order)) \o SelectSeq(SubSeq(order, 1, last), InFlight)

-----------------------------------------------------------------------------
(* Registration: RegisterAttempt, shared by Submit and Prepare.             *)

\* The same three steps journal the start for both callers.
StartPoint(kind) == IF kind = "submit" THEN "submit_start" ELSE "prepare_start"
MarkPoint(kind) == IF kind = "submit" THEN "submit_mark" ELSE "prepare_mark"
PendingPoint(kind) == IF kind = "submit" THEN "submit_pending" ELSE "prepare_pending"
AfterStart(kind) == IF kind = "submit" THEN "enqueue" ELSE "prepare_run"

\* The block under mu that admits the attempt and creates its slot.
RegisterAttempt(c, kind, a, g) ==
    /\ pc[c] = "idle" /\ kind \in Calls
    /\ runState = "running"
    /\ table[a] = NoSlot
    /\ kind = "submit" => Len(queue) < QueueCapacity
    /\ nextSlot <= MaxSlots
    /\ LET obj == [s \in 1 .. nextSlot |->
                      IF s = nextSlot THEN NewSlot(a, epoch, g) ELSE heap[s]]
           tab == [table EXCEPT ![a] = nextSlot]
           order == Append(slotOrder, a)
       IN /\ heap' = obj
          /\ table' = ReapedTable(tab, obj, order)
          /\ slotOrder' = ReapedOrder(tab, obj, order)
    /\ nextSlot' = nextSlot + 1
    /\ Enter(c, IF HasStore THEN StartPoint(kind) ELSE AfterStart(kind), nextSlot, "queued")
    /\ UNCHANGED <<runState, fence, queue, active, commitMu, cvVars, cancelled,
                   prepared, ledger, bounds>>

\* The attempt-start record.  When the store refuses it the slot is finalized,
\* in the same critical section, and the call returns.
JournalStart(c, kind) ==
    /\ pc[c] = StartPoint(kind)
    /\ \/ /\ StartAccepted(heap[ref[c]].attempt)
          /\ attempts' = [attempts EXCEPT ![heap[ref[c]].attempt] = "started"]
          /\ Goto(c, MarkPoint(kind))
          /\ UNCHANGED <<heap, cvVars, doubtful, refusals>>
       \/ /\ \/ ~StartAccepted(heap[ref[c]].attempt) /\ UNCHANGED <<attempts, doubtful, refusals>>
             \/ /\ StartAccepted(heap[ref[c]].attempt) /\ Refuse
                /\ attempts' \in {attempts, [attempts EXCEPT ![heap[ref[c]].attempt] = "started"]}
                /\ doubtful' = doubtful \cup {<<heap[ref[c]].attempt, "started">>}
          /\ FinalizeLocked(ref[c], "rejected")
          /\ Return(c)
    /\ UNCHANGED <<muVars, fence, commitMu, cancelled, prepared, placements, indexed,
                   retired, closed, restarts>>

\* journalled_start is published; a terminal state reached meanwhile is journalled
\* by this thread, after the start record.
MarkStart(c, kind) ==
    /\ pc[c] = MarkPoint(kind)
    /\ heap' = [heap EXCEPT ![ref[c]].journalled_start = TRUE,
                            ![ref[c]].pending_terminal = FALSE]
    /\ Goto(c, IF heap[ref[c]].pending_terminal THEN PendingPoint(kind) ELSE AfterStart(kind))
    /\ UNCHANGED <<muVars, fence, commitMu, cvVars, cancelled, prepared, ledger,
                   bounds>>

JournalPending(c, kind) ==
    /\ pc[c] = PendingPoint(kind)
    /\ JournalTerminal(ref[c], "cancelled")
    /\ Goto(c, AfterStart(kind))
    /\ UNCHANGED <<muVars, fence, heap, commitMu, cvVars, cancelled, prepared>>

\* Submit, after registration.
Enqueue(c) ==
    /\ pc[c] = "enqueue"
    /\ \/ /\ runState # "running"
          /\ FinalizeLocked(ref[c], "cancelled")
          /\ UNCHANGED queue
       \/ /\ runState = "running"
          /\ queue' = Append(queue, heap[ref[c]].attempt)
          /\ NotifyOneWork
          /\ UNCHANGED heap
    /\ Return(c)
    /\ UNCHANGED <<runState, fence, slotOrder, table, nextSlot, active, commitMu,
                   cancelled, prepared, ledger, bounds>>

\* Prepare, after registration: a slot that is already terminal is never resurrected.
PrepareRun(c) ==
    /\ pc[c] = "prepare_run"
    /\ \/ /\ heap[ref[c]].terminal
          /\ Return(c)
          /\ UNCHANGED heap
       \/ /\ ~heap[ref[c]].terminal
          /\ heap' = [heap EXCEPT ![ref[c]].running = TRUE, ![ref[c]].state = "running"]
          /\ Goto(c, "compute")
    /\ UNCHANGED <<muVars, fence, commitMu, cvVars, cancelled, prepared, ledger,
                   bounds>>

\* Prepare: the engine's decision (with its self-verification) is stored in the
\* slot, terminal or not, and handed to the caller.
PrepareDecide(c, d) ==
    /\ c \in Clients /\ pc[c] = "compute"
    /\ heap' = [heap EXCEPT ![ref[c]].decision = d]
    /\ prepared' = prepared \cup {[attempt |-> heap[ref[c]].attempt, decision |-> d]}
    /\ Return(c)
    /\ UNCHANGED <<muVars, fence, commitMu, cvVars, cancelled, ledger, bounds>>

-----------------------------------------------------------------------------
(* The commit boundary, run by workers (ProcessSlot) and callers (Commit).  *)

\* A worker still has to release the slot; a caller returns its outcome.
EndAttempt(t) == IF t \in Workers THEN Goto(t, "finish") ELSE Return(t)

\* Commit(prepared): the caller's thread looks the slot up and checks that the
\* decision it brings is the one computed for the slot.
Commit(c, p) ==
    /\ pc[c] = "idle" /\ "commit" \in Calls
    /\ table[p.attempt] # NoSlot
    /\ LET s == table[p.attempt] IN
       /\ ~heap[s].terminal
       /\ \/ /\ p.decision = "declined"
             /\ heap' = [heap EXCEPT ![s] = [Finalized(@, "rejected") EXCEPT !.decision = "declined"]]
             /\ NotifyAll
             /\ Enter(c, "journal", s, "rejected")
          \/ /\ p.decision = "placed"
             /\ heap[s].decision = "placed"
             /\ Enter(c, "commit", s, "queued")
             /\ UNCHANGED <<heap, cvVars>>
    /\ UNCHANGED <<muVars, fence, commitMu, cancelled, prepared, ledger, bounds>>

\* The five checks of the boundary, the first that fails; "ok" crosses it.
BoundaryCodeNoCancel(s) ==
    IF heap[s].terminal THEN "terminal"
    ELSE IF runState # "running" THEN "shutting_down"
    ELSE IF heap[s].epoch # epoch THEN "stale_epoch"
    ELSE IF ~AuthorityMatches(authority, heap[s].auth) THEN "stale_authority"
    ELSE "ok"
BoundaryCode(s) ==
    IF heap[s].terminal THEN "terminal"
    ELSE IF heap[s].cancel_requested THEN "cancelled"
    ELSE IF runState # "running" THEN "shutting_down"
    ELSE IF heap[s].epoch # epoch THEN "stale_epoch"
    ELSE IF ~AuthorityMatches(authority, heap[s].auth) THEN "stale_authority"
    ELSE "ok"

CommitSlot(t) ==
    /\ pc[t] = "commit"
    /\ commitMu = NoThread
    /\ LET code == BoundaryCode(ref[t]) IN
       \/ /\ code = "ok"
          /\ heap' = [heap EXCEPT ![ref[t]].commit_boundary_crossed = TRUE]
          /\ commitMu' = t
          /\ Goto(t, "intent")
       \/ /\ code # "ok"
          /\ Enter(t, "fail", ref[t], StateForFailure(code))
          /\ UNCHANGED <<heap, commitMu>>
    /\ UNCHANGED <<muVars, fence, cvVars, cancelled, prepared, ledger, bounds>>

\* A status that is not ok leaves CommitSlot and with it commit_mu.
StatusIgnored(t) == Goto(t, "journal_commit") /\ UNCHANGED commitMu
StatusReturned(t) ==
    /\ commitMu' = NoThread
    /\ Enter(t, "fail", ref[t], StateForFailure("internal"))

\* The decision is read again: a slot whose attempt was reaped and re-admitted
\* may have been declined through an older PreparedAttempt meanwhile.
ReadIntent(t) ==
    /\ pc[t] = "intent"
    /\ \/ /\ heap[ref[t]].decision = "placed"
          /\ Goto(t, "record")
          /\ UNCHANGED commitMu
       \/ /\ heap[ref[t]].decision # "placed"
          /\ StatusReturned(t)
    /\ UNCHANGED <<muVars, fence, heap, cvVars, cancelled, prepared, ledger, bounds>>

\* CommitRecord: the placement becomes durable.  The store answers an attempt
\* that already committed with its existing record; in-memory coordination keeps
\* no such index and always appends.  A refused write leaves nothing, a placement
\* that is whole in the file but not in memory, or (a compaction failed) both.
IndexPastEnd == Len(placements) + 2
NewIndex == Len(placements) + 1
RecordOf(s) == [attempt |-> heap[s].attempt, epoch |-> heap[s].epoch, slot |-> s]
CommitRecord(t) ==
    /\ pc[t] = "record"
    /\ \/ /\ ~(HasStore /\ (closed \/ HasPlacement(heap[ref[t]].attempt)))
          /\ placements' = Append(placements, RecordOf(ref[t]))
          /\ indexed' = indexed \cup {NewIndex}
          /\ Goto(t, "journal_commit")
          /\ UNCHANGED <<commitMu, refusals>>
       \/ /\ HasStore /\ ~closed /\ HasPlacement(heap[ref[t]].attempt)
          /\ Goto(t, "journal_commit")
          /\ UNCHANGED <<placements, indexed, commitMu, refusals>>
       \/ /\ \/ HasStore /\ closed /\ UNCHANGED <<placements, indexed, refusals>>
             \/ /\ ~closed /\ ~HasPlacement(heap[ref[t]].attempt) /\ Refuse
                /\ placements' \in {placements, Append(placements, RecordOf(ref[t]))}
                /\ indexed' \in {indexed, indexed \cup (DOMAIN placements' \ DOMAIN placements)}
          /\ StatusReturned(t)
    /\ UNCHANGED <<muVars, fence, heap, cvVars, cancelled, prepared, attempts, doubtful,
                   retired, closed, restarts>>

\* commit_by_attempt keeps the last placement it was given.
PlacementOf(a) ==
    LET own == {i \in indexed : placements[i].attempt = a}
    IN IF own = {} THEN 0 ELSE CHOOSE i \in own : \A j \in own : j <= i
\* The slot learns the identity of its record, then the terminal phase is journalled.
JournalCommit(t) ==
    /\ pc[t] = "journal_commit"
    /\ heap' = [heap EXCEPT ![ref[t]].placement_id =
                    IF HasStore THEN PlacementOf(heap[ref[t]].attempt) ELSE Len(placements)]
    /\ JournalTerminal(ref[t], "committed")
    /\ Goto(t, "finalize")
    /\ UNCHANGED <<muVars, fence, commitMu, cvVars, cancelled, prepared>>

FinalizeCommit(t) ==
    /\ pc[t] = "finalize"
    /\ FinalizeLocked(ref[t], "committed")
    /\ commitMu' = NoThread
    /\ EndAttempt(t)
    /\ UNCHANGED <<muVars, fence, cancelled, prepared, ledger, bounds>>

\* A commit that failed, or a decision that placed nothing.  A worker journals
\* the phase in any case, a caller only when it finalized the slot itself.
Fail(t) ==
    /\ pc[t] = "fail"
    /\ FinalizeLocked(ref[t], note[t])
    /\ IF t \in Workers \/ ~heap[ref[t]].terminal THEN Goto(t, "journal") ELSE Return(t)
    /\ UNCHANGED <<muVars, fence, commitMu, cancelled, prepared, ledger, bounds>>

Journal(t) ==
    /\ pc[t] = "journal"
    /\ JournalTerminal(ref[t], PhaseForState(note[t]))
    /\ EndAttempt(t)
    /\ UNCHANGED <<muVars, fence, heap, commitMu, cvVars, cancelled, prepared>>

-----------------------------------------------------------------------------
(* The worker loop of Start.                                               *)

WorkerSleep(w) ==
    /\ pc[w] = "loop" /\ w \notin cvWork
    /\ queue = <<>> /\ runState = "running"
    /\ cvWork' = cvWork \cup {w}
    /\ Stay
    /\ UNCHANGED <<muVars, fence, heap, commitMu, cvDone, cancelled, prepared, ledger, bounds>>

WorkerExit(w) ==
    /\ pc[w] = "loop" /\ w \notin cvWork
    /\ queue = <<>> /\ runState # "running"
    /\ Goto(w, "exit")
    /\ UNCHANGED <<muVars, fence, heap, commitMu, cvVars, cancelled, prepared,
                   ledger, bounds>>

WorkerTake(w) ==
    /\ pc[w] = "loop" /\ w \notin cvWork
    /\ queue # <<>>
    /\ queue' = Tail(queue)
    /\ LET s == table[Head(queue)]
           live == IF s = NoSlot THEN FALSE ELSE ~heap[s].terminal IN
       \/ /\ ~live
          /\ NotifyAll
          /\ Stay
          /\ UNCHANGED <<heap, active>>
       \/ /\ live
          /\ heap' = [heap EXCEPT ![s].state = "running", ![s].in_worker = TRUE]
          /\ active' = active + 1
          /\ Enter(w, "compute", s, "queued")
          /\ UNCHANGED cvVars
    /\ UNCHANGED <<runState, fence, slotOrder, table, nextSlot, commitMu, cancelled, prepared,
                   ledger, bounds>>

\* ProcessSlot, first half: the decision, unless the slot became terminal.
WorkerDecide(w, d) ==
    /\ w \in Workers /\ pc[w] = "compute"
    /\ \/ /\ heap[ref[w]].terminal
          /\ Goto(w, "finish")
          /\ UNCHANGED heap
       \/ /\ ~heap[ref[w]].terminal
          /\ heap' = [heap EXCEPT ![ref[w]].decision = d]
          /\ IF d = "placed" THEN Goto(w, "commit") ELSE Enter(w, "fail", ref[w], "rejected")
    /\ UNCHANGED <<muVars, fence, commitMu, cvVars, cancelled, prepared, ledger, bounds>>

WorkerFinish(w) ==
    /\ pc[w] = "finish"
    /\ heap' = [heap EXCEPT ![ref[w]].in_worker = FALSE]
    /\ active' = IF active > 0 THEN active - 1 ELSE 0
    /\ NotifyAll
    /\ Return(w)
    /\ UNCHANGED <<runState, fence, queue, slotOrder, table, nextSlot, commitMu,
                   cancelled, prepared, ledger, bounds>>

-----------------------------------------------------------------------------
(* Cancellation and fencing.                                               *)

Cancel(c, a) ==
    /\ pc[c] = "idle" /\ "cancel" \in Calls
    /\ table[a] # NoSlot
    /\ LET s == table[a] IN
       /\ ~heap[s].terminal
       /\ ~BoundaryCrossed(s)
       /\ \/ /\ heap[s].running \/ heap[s].in_worker
             /\ heap' = [heap EXCEPT ![s].cancel_requested = TRUE]
             /\ Stay
             /\ UNCHANGED cvVars
          \/ /\ ~heap[s].running /\ ~heap[s].in_worker
             /\ heap' = [heap EXCEPT ![s] =
                    [Finalized(@, "cancelled") EXCEPT
                        !.cancel_requested = TRUE,
                        !.pending_terminal = ~StartIsDurable(s)]]
             /\ NotifyAll
             /\ IF StartIsDurable(s) THEN Enter(c, "journal", s, "cancelled") ELSE Stay
    /\ UNCHANGED <<muVars, fence, commitMu, cancelled, prepared, ledger, bounds>>

AdvanceEpoch(c) ==
    /\ pc[c] = "idle" /\ "epoch" \in Calls
    /\ FenceLock
    /\ epoch < MaxEpoch
    /\ epoch' = epoch + 1
    /\ Stay
    /\ UNCHANGED <<muVars, authority, heap, commitMu, cvVars, cancelled, prepared,
                   ledger, bounds>>

SetAuthority(c, e, g) ==
    /\ pc[c] = "idle" /\ "authority" \in Calls
    /\ FenceLock
    /\ e >= epoch
    /\ epoch' = e
    /\ authority' = g
    /\ Stay
    /\ UNCHANGED <<muVars, heap, commitMu, cvVars, cancelled, prepared, ledger,
                   bounds>>

-----------------------------------------------------------------------------
(* Waiting: Await and Drain.                                               *)

AwaitCall(c, a) ==
    /\ pc[c] = "idle" /\ "await" \in Calls
    /\ table[a] # NoSlot
    /\ Enter(c, "await", table[a], "queued")
    /\ UNCHANGED <<muVars, fence, heap, commitMu, cvVars, cancelled, prepared, ledger,
                   bounds>>

\* The wait predicate is evaluated under mu; a slot nobody finalized before the
\* coordinator stopped is given a failed outcome by its waiter.
Await(c) ==
    /\ pc[c] = "await" /\ c \notin cvDone
    /\ \/ /\ ~heap[ref[c]].terminal /\ runState # "stopped"
          /\ cvDone' = cvDone \cup {c}
          /\ Stay
          /\ UNCHANGED <<heap, cvWork>>
       \/ /\ heap[ref[c]].terminal \/ runState = "stopped"
          /\ FinalizeLocked(ref[c], "failed")
          /\ Return(c)
    /\ UNCHANGED <<muVars, fence, commitMu, cancelled, prepared, ledger, bounds>>

DrainCall(c) ==
    /\ pc[c] = "idle" /\ "drain" \in Calls
    /\ Goto(c, "drain")
    /\ UNCHANGED <<muVars, fence, heap, commitMu, cvVars, cancelled, prepared, ledger,
                   bounds>>

Drain(c) ==
    /\ pc[c] = "drain" /\ c \notin cvWork
    /\ \/ /\ queue = <<>> /\ active = 0
          /\ Return(c)
          /\ UNCHANGED cvWork
       \/ /\ ~(queue = <<>> /\ active = 0)
          /\ cvWork' = cvWork \cup {c}
          /\ Stay
    /\ UNCHANGED <<muVars, fence, heap, commitMu, cvDone, cancelled, prepared, ledger,
                   bounds>>

-----------------------------------------------------------------------------
(* ShutdownInternal.                                                       *)

\* The slots the sweep under mu finalizes: everything queued, and every other
\* slot of the table with no worker, no crossed boundary and (unless active work
\* is cancelled too) no synchronous owner.
ShutdownSweepQueue(cancelActive) ==
    {s \in Slots : (\E i \in DOMAIN queue : table[queue[i]] = s) /\ ~heap[s].terminal}
ShutdownSweep(cancelActive) ==
    {s \in Slots :
        /\ \E a \in Attempts : table[a] = s
        /\ ~heap[s].terminal
        /\ \/ \E i \in DOMAIN queue : table[queue[i]] = s
           \/ /\ ~heap[s].in_worker /\ ~BoundaryCrossed(s)
              /\ ~heap[s].running \/ cancelActive}

Shutdown(c, cancelActive) ==
    /\ pc[c] = "idle" /\ (IF cancelActive THEN "shutdown_cancelling" ELSE "shutdown") \in Calls
    /\ runState = "running"
    /\ runState' = "shutting_down"
    /\ LET sweep == ShutdownSweep(cancelActive) IN
       /\ heap' = [s \in DOMAIN heap |->
             IF s \in sweep
             THEN [Finalized(heap[s], "cancelled") EXCEPT
                      !.cancel_requested = TRUE,
                      !.pending_terminal = ~StartIsDurable(s)]
             ELSE heap[s]]
       /\ cancelled' = {heap[s].attempt : s \in {r \in sweep : StartIsDurable(r)}}
    /\ queue' = <<>>
    /\ NotifyAll
    /\ Goto(c, "sd_journal")
    /\ UNCHANGED <<fence, slotOrder, table, nextSlot, active, commitMu, prepared,
                   ledger, bounds>>

\* A second caller waits for the owner of the teardown.
ShutdownSecond(c) ==
    /\ pc[c] = "idle" /\ Calls \cap {"shutdown", "shutdown_cancelling"} # {}
    /\ runState = "shutting_down"
    /\ Goto(c, "sd_wait")
    /\ UNCHANGED <<muVars, fence, heap, commitMu, cvVars, cancelled, prepared, ledger,
                   bounds>>

ShutdownWait(c) ==
    /\ pc[c] = "sd_wait" /\ c \notin cvDone
    /\ \/ /\ runState = "stopped"
          /\ Return(c)
          /\ UNCHANGED cvDone
       \/ /\ runState # "stopped"
          /\ cvDone' = cvDone \cup {c}
          /\ Stay
    /\ UNCHANGED <<muVars, fence, heap, commitMu, cvWork, cancelled, prepared, ledger,
                   bounds>>

ShutdownJournal(c) ==
    /\ pc[c] = "sd_journal"
    /\ \/ \E a \in cancelled :
             /\ cancelled' = cancelled \ {a}
             /\ \/ table[a] # NoSlot /\ JournalTerminal(table[a], "cancelled")
                \/ table[a] = NoSlot /\ UNCHANGED <<ledger, bounds>>
             /\ Stay
       \/ /\ cancelled = {}
          /\ Goto(c, "sd_join")
          /\ UNCHANGED <<cancelled, ledger, bounds>>
    /\ UNCHANGED <<muVars, fence, heap, commitMu, cvVars, prepared>>

ShutdownJoin(c) ==
    /\ pc[c] = "sd_join"
    /\ \A w \in Workers : pc[w] = "exit"
    /\ runState' = "stopped"
    /\ NotifyAll
    /\ Goto(c, "sd_close")
    /\ UNCHANGED <<fence, queue, slotOrder, table, heap, nextSlot, active, commitMu,
                   cancelled, prepared, ledger, bounds>>

ShutdownClose(c) ==
    /\ pc[c] = "sd_close"
    /\ closed' = HasStore
    /\ Return(c)
    /\ UNCHANGED <<muVars, fence, heap, commitMu, cvVars, cancelled, prepared, placements,
                   indexed, attempts, doubtful, retired, bounds>>

-----------------------------------------------------------------------------
(* Start, and a process that dies and is started again on the same store.   *)

FreshThreads == [t \in Threads |-> IF t \in Workers THEN "loop" ELSE "idle"]

\* A snapshot keeps the latest placement of each flow: those that were superseded
\* when it was written are gone, unless a journal that still has them is read over it.
DropsLatest ==
    {i \in indexed : \E j \in indexed :
        i <= j /\ FlowOf[placements[i].attempt] = FlowOf[placements[j].attempt]}
KeepsOldest ==
    {i \in indexed : \E j \in indexed :
        j < i /\ FlowOf[placements[i].attempt] = FlowOf[placements[j].attempt]}
Superseded ==
    {i \in indexed : \E j \in indexed :
        i < j /\ FlowOf[placements[i].attempt] = FlowOf[placements[j].attempt]}

\* The placements Open may find (Store: RecoveryOnlyForgets).  After a failed write the
\* journal may repeat a sequence number, or lack its reset marker: acknowledged records
\* are skipped, and a record that was reported failed may be found.
RecoveredPlacements ==
    {indexed \ gone : gone \in SUBSET Superseded}
        \cup (IF refusals > 0 THEN SUBSET DOMAIN placements ELSE {})

\* The phase Open may find for an attempt: compaction ages attempt records out.
RecoveredPhases(a) ==
    {attempts[a], "none"}
        \cup (IF refusals > 0 /\ attempts[a] # "none" THEN {"started"} ELSE {})
        \cup (IF refusals > 0 THEN {p \in AttemptPhase : <<a, p>> \in doubtful} ELSE {})

\* Open's accounting: a started attempt that has a placement is committed; a store
\* with a committed attempt that has none is refused, and there is no coordinator.
Placed(kept, a) == \E i \in kept : placements[i].attempt = a
Accounted(kept, phases) ==
    [a \in Attempts |-> IF phases[a] = "started" /\ Placed(kept, a)
                        THEN "committed" ELSE phases[a]]
OpensAny(kept, phases) == TRUE
Opens(kept, phases) == \A a \in Attempts : phases[a] = "committed" => Placed(kept, a)

Recover ==
    \E kept \in RecoveredPlacements, phases \in [Attempts -> AttemptPhase] :
        /\ \A a \in Attempts : phases[a] \in RecoveredPhases(a)
        /\ Opens(kept, phases)
        /\ indexed' = kept
        /\ attempts' = Accounted(kept, phases)
        /\ retired' = retired \cup {a \in Attempts : phases[a] = "none" /\ attempts[a] # "none"}

Init ==
    /\ runState = "running" /\ epoch = 1 /\ authority = Unconstrained
    /\ queue = <<>> /\ slotOrder = <<>>
    /\ table = [a \in Attempts |-> NoSlot]
    /\ heap = <<>> /\ nextSlot = 1 /\ active = 0
    /\ commitMu = NoThread /\ cvWork = {} /\ cvDone = {}
    /\ pc = FreshThreads
    /\ ref = [t \in Threads |-> NoSlot] /\ note = [t \in Threads |-> "queued"]
    /\ cancelled = {} /\ prepared = {}
    /\ placements = <<>> /\ indexed = {} /\ attempts = [a \in Attempts |-> "none"]
    /\ doubtful = {} /\ retired = {} /\ closed = FALSE
    /\ restarts = 0 /\ refusals = 0

\* The heap keeps the outcomes the dead process had reported, and placements what
\* it had written; no thread and no table entry refers to a slot any more.  The
\* embedder chooses the initial epoch.
Restart(e) ==
    /\ HasStore /\ restarts < MaxRestarts
    /\ restarts' = restarts + 1
    /\ runState' = "running" /\ epoch' = e /\ authority' = Unconstrained
    /\ queue' = <<>> /\ slotOrder' = <<>>
    /\ table' = [a \in Attempts |-> NoSlot]
    /\ active' = 0
    /\ commitMu' = NoThread /\ cvWork' = {} /\ cvDone' = {}
    /\ pc' = FreshThreads
    /\ ref' = [t \in Threads |-> NoSlot] /\ note' = [t \in Threads |-> "queued"]
    /\ cancelled' = {} /\ prepared' = {}
    /\ Recover
    /\ closed' = FALSE
    /\ UNCHANGED <<heap, nextSlot, placements, doubtful, refusals>>

Kinds == {"submit", "prepare"}
Decisions == {"placed", "declined"}

\* What a thread does inside a call, once it has started it.
ClientStep(c) ==
    \/ \E k \in Kinds : JournalStart(c, k) \/ MarkStart(c, k) \/ JournalPending(c, k)
    \/ Enqueue(c) \/ PrepareRun(c) \/ Await(c) \/ Drain(c)
    \/ \E d \in Decisions : PrepareDecide(c, d)
    \/ ShutdownWait(c) \/ ShutdownJournal(c) \/ ShutdownJoin(c) \/ ShutdownClose(c)

\* A call begins, or takes its only step.
ClientCall(c) ==
    \/ \E k \in Kinds, a \in Attempts, g \in Auths : RegisterAttempt(c, k, a, g)
    \/ \E p \in prepared : Commit(c, p)
    \/ \E a \in Attempts : Cancel(c, a) \/ AwaitCall(c, a)
    \/ AdvanceEpoch(c)
    \/ \E e \in Epochs, g \in Auths \cup {Unconstrained} : SetAuthority(c, e, g)
    \/ DrainCall(c)
    \/ \E k \in BOOLEAN : Shutdown(c, k)
    \/ ShutdownSecond(c)

CommitStep(t) ==
    \/ CommitSlot(t) \/ ReadIntent(t) \/ CommitRecord(t) \/ JournalCommit(t) \/ FinalizeCommit(t)
    \/ Fail(t) \/ Journal(t)

WorkerStep(w) ==
    \/ WorkerSleep(w) \/ WorkerExit(w) \/ WorkerTake(w) \/ WorkerFinish(w)
    \/ \E d \in Decisions : WorkerDecide(w, d)

Next ==
    \/ \E c \in Clients : ClientCall(c) \/ ClientStep(c)
    \/ \E w \in Workers : WorkerStep(w)
    \/ \E t \in Threads : CommitStep(t)
    \/ \E e \in Epochs : Restart(e)

Spec == Init /\ [][Next]_vars

\* Every thread that is inside a call keeps running: the threads are operating
\* system threads and none of them waits for anything but the locks and the
\* condition variables modelled here.  Callers need not make calls, and nothing
\* is assumed of crashes.
Fairness ==
    /\ \A w \in Workers : WF_vars(WorkerStep(w) \/ CommitStep(w))
    /\ \A c \in Clients : WF_vars(ClientStep(c) \/ CommitStep(c))
LiveSpec == Spec /\ Fairness

-----------------------------------------------------------------------------
(* Properties.                                                             *)

\* Fencing: whatever epoch advances and authority changes race with it, a
\* placement only ever becomes durable under the epoch and the authority view
\* that are current at that very step, for a slot that crossed the boundary.
CommitsAreFenced ==
    [][placements' # placements =>
        LET p == placements'[Len(placements')] IN
        /\ p.epoch = epoch
        /\ AuthorityMatches(authority, heap[p.slot].auth)
        /\ heap[p.slot].commit_boundary_crossed]_vars

\* An accepted cancellation and an outcome of rejected mean that the slot never
\* made anything durable, before or after; an outcome of cancelled does so too as
\* long as no store write failed.  (A placement that is durable but reported as
\* failed leaves the slot open to a second Commit of the same PreparedAttempt,
\* which a shutdown turns into a cancellation.)  All of it holds as long as no
\* attempt is reaped: RefusedStartNeverCommits in MCCoordinator.
DeclinedLeavesNoRecord ==
    \A s \in Allocated :
        (\/ heap[s].cancel_requested
         \/ heap[s].state = "rejected"
         \/ heap[s].state = "cancelled" /\ refusals = 0) => ~DurableBy(s)

\* An outcome reported as committed names a placement that was written for its
\* attempt.  As long as no store write failed, that placement, or a later one of
\* the same flow, is what the store has, also after any number of crashes of the
\* processes that reported it.
CommittedIsDurable ==
    \A s \in Allocated :
        heap[s].state = "committed" =>
            /\ heap[s].placement_id \in DOMAIN placements
            /\ placements[heap[s].placement_id].attempt = heap[s].attempt
            /\ refusals = 0 =>
                  \E j \in indexed : /\ heap[s].placement_id <= j
                                     /\ FlowOf[placements[j].attempt] = FlowOf[heap[s].attempt]

\* A terminal outcome never changes: not by a late commit, a second Commit of the
\* same PreparedAttempt, a cancellation, a shutdown or a waiter.
OutcomesAreFinal ==
    [][\A s \in Allocated :
        heap[s].terminal => heap'[s].terminal /\ heap'[s].state = heap[s].state]_vars

\* With a store no write of which fails, an attempt commits at most one placement,
\* however often it is submitted, re-prepared after a crash, or committed by two
\* threads at once; the only way to a second one is a recovery that no longer found
\* the attempt's record.  (Compaction ages the record out and drops a superseded
\* placement: the attempt is then new to the store.  MCStore: AgingNeverReplaysAttempt.)
AtMostOnePlacement ==
    HasStore /\ refusals = 0 =>
        \A i, j \in DOMAIN placements :
            placements[i].attempt = placements[j].attempt =>
                i = j \/ placements[i].attempt \in retired

\* The journal of an attempt begins with its start record: no cancellation or
\* shutdown that races with the registration writes a terminal phase first.  (A
\* restart writes nothing: what it reads is bounded by RecoveredPhases.)
StartIsJournalledFirst ==
    [][restarts' = restarts =>
         \A a \in Attempts : attempts[a] = "none" => attempts'[a] \in {"none", "started"}]_vars

\* The running store's phases agree with its placements: an attempt journalled as
\* committed has one.  A cancelled or rejected attempt has none, and none was ever
\* written for it unless a recovery had lost its record, as long as no store write
\* failed and no attempt was reaped.  (A write that is durable but reported as failed
\* lets a second thread that commits the same PreparedAttempt journal its failure, or
\* its cancellation by a shutdown, after the placement.)  The files may still part
\* the two: compaction can drop the placement of a committed attempt, and Open then
\* refuses the store (Store's run DocOrphan).
JournalAgreesWithPlacements ==
    \A a \in Attempts :
        /\ attempts[a] = "committed" => HasPlacement(a)
        /\ attempts[a] \in {"cancelled", "rejected"} /\ refusals = 0 =>
              ~HasPlacement(a) /\ (DurableFor(a) => a \in retired)

\* No lost wake-up: Submit wakes one thread of cv_work, which Drain shares with
\* the workers, yet there is never queued work with every worker asleep or gone.
NoLostWakeup ==
    queue # <<>> => \E w \in Workers : pc[w] # "exit" /\ w \notin cvWork

\* When the coordinator has stopped, no worker runs, nothing is queued, and the
\* only attempts without an outcome are owned by a synchronous caller.
StoppedIsQuiet ==
    runState = "stopped" =>
        /\ queue = <<>> /\ active = 0
        /\ \A a \in Attempts :
              table[a] # NoSlot /\ ~heap[table[a]].terminal => heap[table[a]].running

\* Work handed to the pool always reaches an outcome.
QueuedWorkFinishes ==
    \A s \in Slots :
        (s \in Allocated /\ \E i \in DOMAIN queue : table[queue[i]] = s)
            ~> (s \in Allocated /\ heap[s].terminal)

\* Drain and Shutdown return, whatever they race with.
DrainReturns == \A c \in Clients : pc[c] = "drain" ~> pc[c] = "idle"
ShutdownReturns ==
    \A c \in Clients : pc[c] \in {"sd_wait", "sd_journal", "sd_join", "sd_close"} ~> pc[c] = "idle"

\* The coordinator with a store implements the ledger its callers rely on: each
\* step of any thread maps to one new record under the current epoch, to an epoch
\* that moves forward, to a restart, or to nothing visible.
Abstract == INSTANCE Ledger WITH
    incarnation <- restarts,
    fabricEpoch <- epoch,
    records <- [i \in DOMAIN placements |->
                   [attempt |-> placements[i].attempt, epoch |-> placements[i].epoch]],
    forgotten <- retired,
    faulty <- refusals > 0
ImplementsLedger == Abstract!Spec

-----------------------------------------------------------------------------
(* What the documentation says and the code does not do.                    *)

\* runtime.hpp: kFailed is an "internal failure; no durable mutation".
FailedLeavesNoRecord ==
    \A s \in Allocated : heap[s].state = "failed" => ~DurableBy(s)

=============================================================================
