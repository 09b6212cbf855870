# Flow-Placement: TLA+ specifications and proofs

Flow-Placement decides on which path a flow is placed, and makes the decision
durable. This directory holds TLA+ models of its decision procedure, of its
coordination and durability core and of the server in front of it, the TLC
instances that check them, and TLAPS proofs about them. Paths such
as `runtime.cpp` are files of the repository (`src/runtime.cpp`,
`include/flowplace/runtime.hpp`, `docs/DESIGN.md`).

## The system

| Part | State it keeps | Operations | Interacts with | What makes it correct |
|---|---|---|---|---|
| **PlacementCoordinator** (`runtime.cpp`) | run state, epoch, authority view, queue, bounded attempt table of shared `Slot`s, count of active workers; mutexes `mu`, `commit_mu`, `store_mu`; condition variables `cv_work`, `cv_done` | Submit, Prepare, Commit, PlaceNow, Await, Cancel, AdvanceEpoch, SetAuthority, Drain, Shutdown, ShutdownCancelling, worker loop | calls the engine with no lock held, the store under `store_mu`; called by any number of threads | an attempt places at most once, unless the store lost its record; nothing is placed under a superseded epoch or authority; outcomes are final and tell the truth about durable state; waiters return |
| **PlacementStore** (`store.cpp`) | a snapshot file and a journal file; in memory the placements, the latest per flow, the attempts, the next identity and the last sequence | Open, AppendAttemptStart, AppendAttemptTerminal, CommitPlacement, Compact, Sync, Close, queries | used by the coordinator, by `store-compact` and `store-inspect` | an acknowledged record survives a crash at any point; numbers are never reused; a crash never looks like corruption |
| **PlacementEngine** (`engine.cpp`) | none | Place, VerifyIntent | called by coordinator and command line | a placement is on a lawful path, the best one unless the incumbent is held on to; the decision does not depend on the order of the input or on evidence it may not trust; placing again under the same facts changes nothing; the outcome names the constraint that caused it |
| **Validation** (`validate.cpp`) and **model** (`model.cpp`, `model.hpp`) | none | ValidateRequest, digests | called first by everything that takes a request | whatever passes keeps the engine's arithmetic within its widths |
| **Server** (`server.cpp`) | connections and their threads, stop flag, counters | handshake, place, set-epoch, recovery and stats queries, shutdown, accept, reap, teardown | one thread per connection on one coordinator | what a peer was told stays true, across retries and crashes; the connection limit holds; a server told to stop finishes |
| **Wire, transport** (`wire.cpp`, `transport.cpp`) | receive buffer and negotiated bound per connection | Feed, Next, EncodeFrame, SendFrame, ReceiveFrame, Close | server, worker process | frames are those that were sent, whatever the chunks |
| Codec, scenario, explain, hash, bytes, status, process, bench, command line | none that outlives a call | parsing, formatting, digests | | |

The hard behaviours: in the coordinator any number of
callers, workers and shutdowns interleave between critical sections of `mu`;
`commit_mu` alone spans the distance from the boundary checks to the durable
record; a slot outlives its place in the table; the journal of an attempt is
written by whichever thread finished it. In the store every file operation may be
the last one of the process, or may fail and leave the process running. The engine
has no concurrency; what is hard there is that a dozen optional constraints, three
sources of UNKNOWN and the incumbent meet in one decision. In the server, replies are
lost, attempts are retried elsewhere, the epoch moves between two reads of one
handler, and the main thread closes sockets other threads are using. The list
of hazards, each with its line and the properties that would catch it, is
`hazards` in `PROJECT.json`.

## Modules

| Module | What it is |
|---|---|
| `Coordinator` | the coordinator: one action per critical section of each operation, and the crash and restart of the process |
| `MCCoordinator` | its TLC instances: which operations the callers use, the symmetry, and further claims of the documentation |
| `CoordinatorProofs` | the inductive invariant of `Coordinator`, types, fencing, finality |
| `CoordinatorLedger` | proofs: one placement per attempt, the refinement of `Ledger`, the start record, what a committed outcome names |
| `CoordinatorPool` | proofs: the worker pool, wake-ups and teardown |
| `CoordinatorOutcome` | proofs: who owns a slot; declined outcomes and the journal against the durable placements |
| `Store` | the store's two files, memory image, recovery, appends and compaction, with crashes and failed writes |
| `MCStore` | its TLC instances |
| `StoreProofs` | proofs: the journal's length, types, and what Open recovers |
| `Ledger` | what the coordinator promises: a ledger that only grows, one record per attempt unless a restart forgot the attempt or a write failed, each under the epoch current when it was written; `Coordinator` implements it, `Server` is composed over it |
| `Model` | the value types of a request and its canonical form (digest) |
| `Validate` | ValidateRequest |
| `Engine` | Place and VerifyIntent, stage by stage |
| `Flow` | one flow over the engine: its facts are revised, it is placed, the placement becomes the incumbent; the engine's properties |
| `MCFlow` | its TLC instance: three paths, three starting requests, one revision per fact or policy field |
| `EngineProofs` | lemmas about `Validate` and `Engine`: when a table of checks passes, ranking, verification, what each stage says, what the recorder keeps |
| `FlowProofs` | proofs: the theorems of `Flow` |
| `Wire` | frames on a byte stream |
| `Server` | RunServer, ServeConnection and their peers, over `Wire` and `Ledger` |
| `MCServer` | its TLC instance: the casts of peers |
| `ServerProofs` | proofs: counts and teardown; streams and the truth of the answers |

`Model`, `Validate`, `Engine` and `Flow` extend one another in this order. `Server`
extends `Wire` and instantiates `Ledger` for its coordinator variables; `Coordinator`
instantiates `Ledger` under the refinement mapping `Abstract`, so that the runs of the
two modules meet in what `Ledger` says.

### Coordinator and the code

A thread's program counter `pc` is the critical section it enters next, `ref` the
slot it holds a `shared_ptr` to, and `note` the state it will journal. `heap` is
every `Slot` ever allocated, `table` and `slotOrder` are `slots` and `slot_order`:
a reaped slot leaves the table and stays on the heap, as the shared pointers keep
it alive. `queue_depth` is `Len(queue)`. `commitMu` is the holder of `commit_mu`,
the only mutex that is held across several actions; a section of `mu` or
`store_mu` is one action, so the interleavings of the model are those of the code
at the granularity of its locks. `cvWork` and `cvDone` are the threads asleep on
the condition variables: `notify_one` removes any one of them, `notify_all` all,
and a thread that was woken evaluates its predicate again.

RegisterAttempt is four actions (`RegisterAttempt`, `JournalStart`, `MarkStart`,
`JournalPending`), for Submit and for Prepare; then `Enqueue`, or `PrepareRun` and
`PrepareDecide`. Commit is `Commit`, then the sections of CommitSlot that workers
share: `CommitSlot`, `ReadIntent`, `CommitRecord`, `JournalCommit`,
`FinalizeCommit`, or `Fail` and `Journal`. PlaceNow is Prepare followed by Commit.
A `PreparedAttempt` stays in the set `prepared` after it is used, since a caller
may commit it twice or from two threads. The engine's answer is a free choice of
*placed* or *declined*. The six generations of the authority view that
AuthorityMatches compares alike are one number, 0 for unconstrained.

The store appears here as what the coordinator can see of it. `placements` is the
history of every placement written whole; `indexed` is the part of it the store has in
memory, which is what `commit_by_attempt` and so CommitPlacement and AppendAttemptStart
look at (`HasPlacement`); `attempts` is the recovered or journalled phase of each attempt.
A call may fail (`Refuse`: the record budget, a failed write, or a compaction that fails
after the record was written); the record may then be in the file, in memory, both or
neither, and `doubtful` remembers the phases such writes carried. `FlowOf` gives each
attempt the one flow it places.

`Restart` is the end of the process at any point and a start over the same store with a
given epoch. What Open finds is `Recover`: every placement the store had, except those that
were superseded when some snapshot was written (any of `Superseded`, store.cpp 907-910), and for
every attempt its phase or nothing, because compaction ages attempt records out
(`RecoveredPhases`, 890-899; `retired` remembers the attempts whose record was lost). After
a failed write the files and the memory image may disagree: a sequence number may be used
twice, or the reset marker be missing (970-973), so that acknowledged records are skipped
(502-506) and failed ones are found; then any part of the history may be recovered. A
started attempt with a placement is accounted as committed (`Accounted`), and a store with
a committed attempt that has no placement does not open (`Opens`, 299-320): there is no
restart from it. How the files bring this about is `Store`'s subject; that they bring about
no more, while no operation has failed, is its property `RecoveryOnlyForgets`.

### Store and the code

`snapshot` and `journal` are the files; a journal record is whole, or `Torn` for
bytes that fail the length or checksum tests of LoadJournal. `mem` is `Impl`, with
`placements` as a set ordered by identity and `commit_by_attempt` derived from it.
`Recovery(snapshot, journal)` is Open as a function of the files: LoadSnapshot, the
loop of LoadJournal (`Replayed` is its body), HandleDamage, and the recovery
accounting. Because it is a function, invariants apply it to the files in *every*
state, and so speak of a crash at every point.

An append is written whole and applied, or fails with nothing, a part or all of it
in the file, or is cut short by the end of the process. Compaction is three steps
between which the process may end: the snapshot's rename, the journal's rename, the
reset marker. The callers' protocol is the coordinator's (`admitted`,
`CommitMuFree`): a start before a commit, one commit at a time, the terminal record
after it. `ledger`, `ends`, `faults` and `appendFailed` are history: the placements
written whole, the processes that ended, the file operations that failed, and
whether an append was among them.

Kept at their defaults: `fsync_on_append` and `repair_torn_tail`. Left out: bytes
and checksums, timestamps, the queries, and file statistics other than
`journal_records`.

### Ledger and the refinement

`Ledger` has five variables: `incarnation`, `fabricEpoch`, `records`, the attempts that
some restart has `forgotten`, and whether a write has failed (`faulty`). `Coordinator`
maps its restart counter, its epoch, its placements (attempt and epoch of each), `retired`
and `refusals > 0` to them, and `ImplementsLedger` says that every step of the coordinator
is a `Record` under the current epoch, an `Advance`, a `Restart`, a `Fail` or a stutter. A
`Record` is of an attempt that has none yet, unless the attempt is forgotten or the ledger
faulty: in those cases the code really does place an attempt a second time
(`AgingNeverReplaysAttempt` below for the first). `Ledger!Spec` has no fairness: the
coordinator may always decline.

`Server` instantiates `Ledger` with `forgotten <- {}` and `faulty <- FALSE`. This is an
assumption on its store, not a fact about the code: no write fails, and no attempt ages out
while a peer may still retry it.

### Validate, Engine and Flow and the code

Place is a function of the request, and is modelled as one. Each stage is an operator
under its own name or that of its C++ function (`ExclusionReason` is Evaluate;
`AddExclusion`, `Summaries` are the ExclusionRecorder; `RankLess`, `BuildAuthority`,
`Reject`, `VerifyIntent` keep theirs; the inline stages of Place are `StaleCode`,
`Scanned`, `Classify`, `EmptyLegalSet`, `Undiversified`, `Ranked`, `SuppressedAt`,
`DeferMove`, `DeferAdmission`, `PlacementFlags`, `FinalDelta`, `Reservation`,
`Intent`, `PlaceOn`). Early returns are the branches of `Place`, `PlaceCurrent` and
`PlaceLegal`. Lookups in sorted vectors are sets of matching entries, optional fields
are sets of at most one element, and vectors stay sequences wherever order or
duplicates can matter. A chain of checks, in validation, in the stale tests and in
Evaluate, is a table of rows (`PolicyChecks`, `StaleChecks`, `ExclusionChecks`, ...) of
which the first that applies decides, in the order of the code. A sort puts an element at
the place given by the number of those that come before it (`Rank`, `SortByPath`,
`Ascending`). The scan of the candidates, whose order the recorder sees, is the recursive
function `Recorded` over their `Verdicts`.

The decision keeps its outcome, code, authority, intent, incumbent delta and the
structured part of the explanation (counters, exclusion summaries with samples,
ranking with keys, binding constraints, degradation flags, truncation). Left out are
text (notes, labels, provenance), `revalidate_after_nanos`, which is copied, and hash
values: two digests are equal when the canonical values they hash are, and IntentDigest
in particular adds nothing to the fields of the intent. 64-bit arithmetic is
exact up to `MaxU64`, with the overflow test of CheckedMul.

`Flow` adds a caller: a request is placed (`PlaceFlow`), its facts change (`Revise`),
and a placement that was made is reported as the incumbent (`Adopt`). These two are
the caller's, not the repository's; a revised request is any `PlacementRequest`, valid or
not.

### Wire, Server and the code

A byte is its frame and its offset, so the model tells torn, merged and reordered
streams apart without a layout; a damaged frame has `intact = FALSE`, a payload that
its codec rejects `decodes = FALSE`. `Receive` moves any number of arrived bytes into
the FrameStream's buffer.

`thread[c]` is the point of ServeConnection at which the thread of connection `c` is;
every read or write of shared state (the epoch, the coordinator, the counters, `stop`)
is an action of its own. `link` is the socket as the server sees it: in the
listener's backlog, open, or closed by Close, after which receives and sends fail
(a frame already in the buffer may still be handled). This covers the unsynchronised
`socket_`: the racing thread reads the old descriptor, which is shut down, or -1, and
fails either way. A send blocks when `Window` replies are unread and succeeds or fails
when the peer is gone. PlaceNow is two actions, registration and commit, over the
`Ledger`; `known` and `ended` are what registration looks at. The server is run with a
store; without one a restart would start from an empty ledger. `Crash` ends the
process between any two actions and starts it again with any epoch; that `known` then holds
every attempt that ended is the assumption on `Ledger`. `Accept` tests the limit and raises
the counter in one step (`server.cpp` 379 and 386): only the main thread raises it. An
invalid request is one more error of registration that changes nothing, and has no branch.

The peers follow scripts: a worker (ConnectWorker and RunWorker) sends a frame when it
has the answer to the last one, an eager peer sends everything at once, a patient one
never leaves, a silent one never sends. Nothing is assumed of any of them but that a
frame whose payload decodes carries what its kind requires (`CastAssumption`). A request
carries two epochs, the one the handler's fence compares and the one its authority
expects, which nothing forces to agree. `MinBound` is `kMinMaxFrameBytes`: the handshake
refuses a smaller bound, EncodeFrame refuses to work under one, and the short literals
that error frames carry fit it (`ErrorAssumption`).

## Runs

| Run | What it shows | Instance |
|---|---|---|
| `CoordinatorTeardown` | both ways to place, cancellation and waiting racing both shutdowns | 1 worker, 3 callers, 2 attempts |
| `CoordinatorRestart` | fencing, a crash at any point and a failed store write while the epoch and the authority move | 1 worker, 2 callers, 1 attempt registered twice, 2 epochs, 2 authorities, 1 restart, 1 failed write |
| `CoordinatorRecovery` | attempts of one flow that supersede each other, are forgotten by the table or by a recovery and submitted again; stale queue entries; the refinement of `Ledger` | 1 worker, 2 callers, table of 1, 2 attempts, 4 slots, 1 restart |
| `CoordinatorProgress` | liveness of Submit, Drain, Await and Shutdown | 1 worker, 2 callers, 2 attempts |
| `StoreRecovery` | recovery after every crash and failed write | 2 attempts on one flow, compaction every 2 records, 3 mishaps |
| `FlowPlacement` | the engine's decisions over the life of a flow | 3 paths, 3 starting requests, up to 3 of 34 revisions |
| `ServerRun` | connections, streams, retries, epochs, crash and shutdown | 19 casts of up to 3 peers, 2 connections, frames of 2 to 5 bytes, 1 crash |
| `DocFailed`, `DocAcknowledged`, `DocOrphan`, `DocMarker`, `DocReservation` | claims of comments, tests and documents that the code does not keep (below) | |

Deadlock is not checked: callers make a bounded number of calls, a coordinator
stops, a store's budget runs out, a flow's revisions are used up, and a server
finishes, so the models really may stop; that waiting
threads do not wait forever is `NoLostWakeup` and the liveness properties.

**Bounds.** `MaxSlots` bounds registrations, `MaxEpoch` the epoch, `MaxRestarts` and
`MaxRefusals` the mishaps of the coordinator; `MaxMishaps` those of the store,
`MaxTotalRecords` and `MaxPlacements` its records. They are enough for the cases the
properties are about to happen: two callers on one attempt beside a worker, an
attempt reaped and submitted twice, an attempt that is placed, superseded by another,
lost in a recovery and driven again, a crash during the recovery from a
crash, a flow placed twice over several compactions (three times after a fault). The same store run
with three attempts and two mishaps (3.3 million states) passes too; it is not kept
because it takes some minutes. So do, of `CoordinatorRecovery`, two restarts with 3 slots and
synchronous commits (1.0 million states), and 5 slots with 2 epochs and no restart (1.8
million). Every action fires in some
passing run, and each property is shown to fail for a plausible bug (`mutants` in
`PROJECT.json`; each is an operator defined just before the definition it replaces).
The code raises `max_retained_attempts` to at least 16 (`runtime.cpp` 516-517);
`MaxRetained` is smaller so that reaping happens with few slots.

For the engine, three paths are the least for which a best path, an incumbent and a
third one differ; they differ in every attribute a policy reads, and one has no
locality, domain, label or reservation. Three revisions reach the combinations of
constraints that matter (a relaxed service class with a gate and an incumbent, say);
residuals of 1 to 9 and `MaxU64 = 10` put the service multipliers 2 and 3 on both sides
of overflow. `max_exclusion_samples = 1` and `max_ranked_explained = 2` make samples and
ranking overflow; `max_exclusion_reasons` keeps its default, above the number of reasons.
For the server, a header of two bytes and bodies of up to three cut every way there is,
`Window = 1` makes a send block on the second unread reply, and `MaxRequests = 2` lets
the budget run out under a second request. Peers are put together in casts, rather than
drawn from one set, so that each run of the server is about one question: a retry beside
a late first try, a result too large for its connection, a placement while the epoch
moves, two epoch changes, a request that passes the fence of one epoch and expects the
next, two workers, the request budget, more peers than connections, a shutdown under traffic, and ten peers
that break the protocol. Only the first cast meets a crash.

**Symmetry.** Threads and attempts are only compared for equality, so the safety runs
use permutations of them; `CoordinatorProgress`,
the engine and the server use none. `Ledger!Spec`, checked under symmetry, is a safety property.

**Fairness.** `LiveSpec` has weak fairness for each worker's step and for each
caller's step inside an operation, never for the start of an operation. The threads
are operating system threads and every critical section is finite, so a thread that
can run does. No strong fairness is assumed: a thread woken from a condition variable
stays able to run until it has looked at its predicate. `commit_mu` could in principle
be denied to one caller by others forever, but calls are bounded in number.
`Server!Spec` has weak fairness for the main thread and for each connection thread, and
none for the peers or the crash: `ServerStops` holds although nobody reads or leaves.

### What the properties say

* `DeclinedLeavesNoRecord`: an accepted cancellation or a rejection means nothing became
  durable, before or after the outcome was reported; so does an outcome of cancelled as
  long as no store write failed. It holds as long as no attempt is reaped.
* `CommittedIsDurable`: an outcome of committed names a placement that was written for its
  attempt; as long as no write failed, the store has that placement or a later one of the
  flow, through all later crashes.
* `CommitsAreFenced`: a placement is appended only under the current epoch and
  authority.
* `OutcomesAreFinal`: no late commit, cancellation, waiter or shutdown changes a
  terminal outcome.
* `AtMostOnePlacement`: with a store no write of which failed, one placement per attempt,
  across threads, reaping and restarts, unless a recovery had lost the attempt's record.
  The proviso is needed (`AgingNeverReplaysAttempt`), and so is the other one: an attempt
  whose COMMITTED record failed to be written is refused only by its placement, which the next one of the
  flow supersedes.
* `StartIsJournalledFirst`: no terminal record of an attempt is written before its start.
* `JournalAgreesWithPlacements`: in the running store a committed phase has its placement;
  a cancelled or rejected one has none (the latter under the provisos of
  `DeclinedLeavesNoRecord`), nor was one ever written unless a recovery lost the record. It
  is about the running store: a compaction can still leave files that Open refuses
  (`DocOrphan`).
* `StoppedIsQuiet`, `NoLostWakeup`, `QueuedWorkFinishes`, `DrainReturns`,
  `ShutdownReturns`: teardown and progress.
* `ImplementsLedger`: what the server's model takes from the coordinator; it assumes in
  addition that nothing is forgotten and no write fails.
* `PlacedIsBestLawful`: against a reference written as one unordered conjunction and
  one lexicographic order: a placement is on a lawful path, on the best one unless a
  policy that prefers the incumbent keeps it, and a lawful, diverse set of paths is never refused.
* `OrderNeverMatters`, `UntrustedEvidenceIsInert`, `DecisionIsStable`,
  `BlameIsCounterfactual`: what the engine says of a *second* request: the reordered
  one, the one with other untrusted numbers, the one that reports the placement just
  made, the one with unlimited capacity or without the gate it blames.
* `MovesPayOff`: no flow leaves a current, lawful incumbent for less than the threshold.
* `SelfVerificationNeverRejects`: VerifyIntent accepts whatever Place chooses.
* `NoLostWakeup` in particular: while anything is queued, some worker is neither asleep
  on `cv_work`, which Drain shares, nor gone.
* `ResultsAreTrue`: what a peer was told of an attempt is true in every later state: a
  commit is durable under the epoch the request expected and is reported once.
* `StreamsAreFaithful`, `ConnectionsAreBounded`, `EpochAcksAreOrdered`,
  `FinishedIsFinal`, `ServerStops`: streams, limits, epoch changes and teardown.
* `AcknowledgedSurvives`, `NumbersNeverReused`, `CrashNeverDamages`,
  `UnfinishedNeverPlaced`, `JournalIsBounded`: recovery.
* `RecoveryOnlyForgets`: the files give back the memory image of the process that died, except
  superseded placements and attempts that aged out. This is what `Coordinator` takes from
  `Store`: its `Recover` allows exactly such losses while no write has failed.

## What is proved

Every safety property that a passing run checks, of `Coordinator`, `Store`, `Server` and
`Flow`, is also a theorem, `RecoveryOnlyForgets` excepted: for any sets of threads, attempts, flows, connections, peers and
requests, and any bounds. The assumptions are those the modules state on their constants,
each justified by the code where it is declared; four theorems have a further hypothesis
(`NothingReaped` for two, `RoomyLimits` for two) and
one asks for a store (`HasStore`), as said below. What a property says only of a store
without failed writes, or of attempts no recovery has lost, is part of the property. Every proof shows an inductive
invariant, checked by TLC on the runs before it was proved, with one lemma or case per
action.

**Coordinator, safety** (`CoordinatorProofs`): `TypeCorrect`, `FencingHolds`
(`CommitsAreFenced`), `OutcomesStay` (`OutcomesAreFinal`). The invariant is
`IInv == TypeOK /\ RefOK /\ TableOK /\ LockOK /\ FenceOK`:

* `RefOK` and `TableOK`: a thread inside an operation, and the table, refer to
  allocated slots, without which the type of a step's result is unknown;
* `LockOK`: a thread between the boundary and the end of CommitSlot is the holder of
  `commit_mu`, so there is one such thread;
* `FenceOK`: while a thread is between the boundary and its append, its slot has
  crossed the boundary and its epoch and authority are still the current ones. This
  is what fencing rests on: the boundary check establishes it, and AdvanceEpoch and
  SetAuthority cannot disturb it because they need the lock `LockOK` says is taken.

Fencing is not inductive without the last two: from a state in which a thread is past
the boundary with an old epoch, the append would violate it. One lemma per action shows
`IInv'` and `HeapStep` (slots are only added, an attempt's identity, epoch and authority
never change, a terminal slot keeps its state); `HeapStep` gives `OutcomesAreFinal`
directly.

**Coordinator, durable facts** (`CoordinatorLedger`): `StartComesFirst`
(`StartIsJournalledFirst`), `OnePlacementPerAttempt` (`AtMostOnePlacement`),
`LedgerRefinement` (`ImplementsLedger`, given a store: without one a reaped attempt is placed
again), `CommittedNamesRecord` (`CommittedIsDurable`), for every recovery `Recover` allows.

* `StartInv` follows `journalled_start` from the append to every place that relies on it:
  threads, slots, the queue, prepared attempts, cancelled slots. What it says of an attempt
  (`HasStarted`) is that its journal begins with a start and that the store *remembers* it:
  while no write failed and no recovery lost its record, a placement ever written for it
  is in the index.
* That is the heart of one placement per attempt. The index alone does not give it, since a
  recovery drops superseded placements: a superseded attempt is kept out by its phase. So
  `RecordFollowed` says that the attempt of a placement, its record not lost, is journalled
  with a terminal phase, or the placement is still the last one and in the index, and its
  thread is about to journal it or the store is closed. `commit_mu` is why it is still the
  last; a recovery keeps it, because only a placement with a later one is dropped and Open
  accounts a started attempt with a placement as committed. An attempt whose start
  record is accepted is then one the store remembers, and CommitRecord's test
  decides (`FirstPlacement`).
* The refinement is shown step by step: `IInv`, fencing and `FirstPlacement` make a step a
  `Record`, an `Advance`, a `Restart`, a `Fail` or a stutter of `Ledger`.
* `DurableInv` says what `placement_id` names between the append and the report; its part
  `Covered` is that every committed outcome has its placement, or a later one of the flow,
  in the index. A recovery preserves it because `Superseded` leaves the last of each flow.

**Coordinator, the pool** (`CoordinatorPool`): `NoWakeupIsLost` (`NoLostWakeup`) and
`StoppedCoordinatorIsQuiet` (`StoppedIsQuiet`). `cv_work` is shared by workers and by
callers of Drain and Submit wakes one of them, so the invariant `WakeInv` has to say that
a caller only sleeps there while something is queued or a worker is busy, that `active`
counts the busy workers exactly, and that each of those looks at the queue again.
`QuietInv` follows the ownership marks of a slot (`running`, its decision, the boundary)
through the three phases of Shutdown.

**Coordinator, outcomes** (`CoordinatorOutcome`): `DeclinedIsInert`
(`DeclinedLeavesNoRecord`) and `JournalIsConsistent` (`JournalAgreesWithPlacements`),
under the hypothesis `NothingReaped`: there are no more attempts than
`max_retained_attempts`. The hypothesis is needed: with reaping, a stale queue entry or a
`PreparedAttempt` reaches the new slot of an attempt whose old slot was declined
(`RefusedStartNeverCommits` below is one way). `OwnInv` says that from registration to its
decision a slot belongs to one thread or one queue entry; `OutcomeInv` and
`JournalInvariant` say why a thread may report each kind of failure, and that whoever
journals a declined phase does so when nobody can commit the slot any more; `PlacedJournalled`
that a started attempt with a placement is about to be journalled as committed. The work on
these two found their first statements to be wrong and corrected them: an attempt can end
as *cancelled* although its record is durable, when the write was reported as failed, the
same `PreparedAttempt` is committed a second time, and a shutdown comes in between.

**Store** (`StoreProofs`), for any number of crashes, and of failed operations unless the
property excludes them: `JournalStaysBounded` (`JournalIsBounded`), `StoreTypeCorrect`
(`TypeOK`), `AcknowledgedIsRecovered` (`AcknowledgedSurvives`), `CrashesLeaveNoDamage`
(`CrashNeverDamages`), `NumbersStayUnique` (`NumbersNeverReused`), `UnfinishedIsNotPlaced`
(`UnfinishedNeverPlaced`).

* LoadJournal's loop is a recursive function. What holds after it is shown by looking at
  the first record at which it would fail: the well-founded minimum of the set of bad
  positions (`LeastNumber`, `LoadInduction`) replaces an induction principle over a
  predicate. `LoadAppend` then says that one more record is one more turn.
* `BoundInv`: how long the journal is at rest, during a compaction, and how far ahead of
  `journal_records`.
* `TypeInv`: that generations stay in range needs that a placement's generation is at most
  its identity, in every image, snapshot and record.
* `FilesInv`, as long as no append failed: only the last record can be torn and nobody
  appends behind it; sequences are consecutive; replaying the journal over the snapshot
  gives the last placement of every flow, an identity above all used, and the last
  sequence (`FilesOK`); the running process has the same (`MemInv`). Compaction is the
  hard case: the new snapshot over the old journal is either skipped whole, because it is
  covered (`CoveredIsSkipped`), or, if it starts with a marker, refused or replayed once
  more with no effect (`MarkedIsReplayed`).
* `UnfinishedInv`, as long as no operation failed: whatever the files are read as, a
  started attempt that placed has its placement there or has aged out; in the running
  process that placement is even the latest of its flow, because `commit_mu` is held until
  the outcome is journalled, so a snapshot, which keeps only the latest, keeps it.

**Server** (`ServerProofs`): `ServerTypeCorrect` (`TypeOK`),
`ConnectionsStayBounded`, `ResultIsFinal` (`FinishedIsFinal`), `StreamsStayFaithful`,
`EpochAcksStayOrdered`, `ResultsStayTrue`. `Shape` types the state and says what a thread
at each point holds; `CountOK` that `live_connections` counts the serving threads;
`TallyOK` that every record of this run is counted or about to be by one thread;
`FinalOK` what joining leaves. `StreamOK` says that what is buffered and then on the wire
tiles the frames still to come, up to the bytes that were lost. `AnswersOK` aligns replies
with handled frames and orders the epochs a set_epoch has read so far; `ResultsOK` says
that what a thread is about to report is true now, that an attempt that ended is never
recorded, and that two threads never claim the same attempt.

Proving also corrected the model: BoundaryCode was a CASE with overlapping guards, whose
meaning is any of the branches that apply, and is now the chain of tests of the code.

**Engine and flow** (`EngineProofs`, `FlowProofs`), for requests of any size:
`FlowTypeCorrect` (`TypeOK`), `SelfVerification` (`SelfVerificationNeverRejects`),
`BestLawfulPath` (`PlacedIsBestLawful`), `EveryMovePaysOff` (`MovesPayOff`),
`PlacementIsStable` (`DecisionIsStable`), `UntrustedEvidenceDecidesNothing`
(`UntrustedEvidenceIsInert`), `BlameIsRight` (`BlameIsCounterfactual`),
`OrderDecidesNothing` (`OrderNeverMatters`). The invariant is small: `FlowInv` says that
the request is a `PlacementRequest` and the decision, if any, is `Place(request)`. The work
is in what Place computes.

* *Tables.* A table passes exactly when none of its rows applies, and otherwise its answer
  is that of the first row that does (`FirstStatusOk`, `FirstStatusIs`, `FirstRowIs`). So
  validation becomes a set of facts (`RequestOk`, `CandidatesOk`, `EntriesOk`: identities
  are distinct, which ValidateEntries sees by comparing
  neighbours after a sort, and numbers are in range) and legality becomes `Lawful`, the
  unordered conjunction (`LegalIsLawful`).
* *Ranking.* `RankLess` is a strict total order on the entries of different paths
  (`RankLessIsAnOrder`), although UNKNOWN is placed by direction and by policy; hence
  counting predecessors gives each entry a place of its own (`EveryPlaceIsTaken`), `Rank`
  is a permutation in that order (`RankSorts`), and the first entry is the best
  (`BetterRanksFirst`, `FirstIsBest`).
* *Stages.* One lemma per stage says what it returns (`ScannedIs`, `ClassifyIs`,
  `EmptyLegalSetIs`, `UndiversifiedIs`, `ChosenIs`, `PlaceOnIs`, `PlaceCurrentIs`);
  `IntentVerifies` follows each test of VerifyIntent back to the stage that built the field.
* *A second request.* Four properties compare with a decision on another request. The
  other request is shown to be valid, then each stage to give the same (`SamePlace`), or to
  differ only where the property says: the request that reports the placement
  (`ContinuedIsValid`, `ContinuedStaysAhead`: nothing overtakes the new incumbent,
  unless the policy maximizes the stability key, which the property excludes), the one with other numbers (`InvertedIsValid`), the one with unlimited
  capacity or another answer to a gate or a move (`UnlimitedReason`, `OtherAnswer`, `GateIsToBlame`), the
  reordered one (`ReorderedIsValid`, `ReorderedPlace`).
* *The record.* For the reordered request the scan meets the same verdicts in the opposite
  order. `RecordedIsSummary` shows that what the recorder keeps (a count per reason, the
  lowest sampled paths) is a function of the set of verdicts, and `TwinsRankAlike` that the
  ranking depends on keys and path ids alone.

`RoomyLimits` says that `max_exclusion_reasons` is at least the number of reasons, 17, and
that `max_candidate_paths` is at most `max_capacity_entries`; the defaults (`model.hpp`
130-142) satisfy both, and so does the instance of the run. The first part is needed: below
it the recorder keeps the reasons it meets first, and the classification of an empty legal
set, and so the blame and the decision, follow the order of the candidates
(`engine.cpp` 428). The second lets the request with unlimited capacity, which reports a
capacity for every candidate, be a valid one. What is proved of the recursive functions goes
through the least number at which it would fail (`LeastNumber`), as in `StoreProofs`.

**Only model-checked:** liveness (`QueuedWorkFinishes`, `DrainReturns`, `ShutdownReturns`,
`ServerStops`: the prover has no rules for fairness and ENABLED), and `RecoveryOnlyForgets`,
also with three attempts and longer journals (7.1 million states). The five refutations below
are TLC's as well.

## What the documentation says and the code does not do

Each of the first five is a run that TLC must refute.

1. `DocFailed`: an attempt reported FAILED made "no durable mutation"
   (`runtime.hpp` 36; `runtime.cpp` 711: "it can never commit now"). Shutdown leaves a
   slot past the boundary alone and does not wait for the synchronous caller; an Await
   that sees the stop reports FAILED, and the placement becomes durable.
2. `DocAcknowledged`: "a record is durable before it is acknowledged" (`store.cpp` 19).
   After a failed fsync that left a whole record, the next record has the same sequence
   and recovery skips it.
3. `DocOrphan`: compaction "preserves state" (`tests/test_store.cpp` 381). It keeps the
   COMMITTED record of an attempt whose superseded placement it drops, and the next Open
   refuses the store.
4. `DocMarker`: a journal that was not yet replaced is read with the "already covered"
   rule (`DESIGN.md` 10.1). If it starts with the marker of an earlier compaction, Open
   refuses it.
5. `DocReservation`: the order of a path's reservations never changes the decision
   (`README.md` 39-41; `VALIDATION.md` 126 lists the dependence as fixed). It is fixed for
   a class that needs a reservation; under an affinity the first matching reference, in
   the order supplied, is taken (`engine.cpp` 939), while the request digest is the same.

Further claims that TLC refutes when they replace the invariant of the run named
(definitions in the MC modules):

* `FencedLeavesNoRecord` (`DESIGN.md` section 9; `CoordinatorRestart`), with two threads committing one
  `PreparedAttempt` and a refused write;
* `RefusedStartNeverCommits` (`runtime.cpp` 464-466: an attempt whose start record is
  refused "can never commit"; `CoordinatorRecovery` with `MaxRefusals = 1`): cancelled while
  queued, reaped and submitted again, its stale queue entry leads a worker to the new slot;
* `ServesAtMostMaxRequests` (`server.hpp` 30: "Serve at most this many placement
  requests"; `ServerRun` with `MaxRequests = 1`): the budget is looked at after a request is
  served, so two connections exceed it, and a result that could not be sent is counted
  without looking at the budget at all (`server.cpp` 207-208);
* `ShutdownFinalizesPrepared` (`DESIGN.md` section 9; `CoordinatorTeardown`): a graceful shutdown leaves a
  prepared attempt unfinished, since `running` stays set after Prepare;
* `QueueIsBounded` (`runtime.hpp`, Submit; `CoordinatorTeardown`): the capacity is checked at registration and
  the entry is pushed later, so concurrent Submits exceed it;
* `AttemptWindowIsBounded` (`DESIGN.md` 10.1; `StoreRecovery`), with three attempts, `MaxJournalRecords = 1` and no mishaps: a complete
  compaction restarts the last sequence at 1, so that no record ages out (one that a crash
  cut short does not, see the next claim);
* `AgingNeverReplaysAttempt` (`StoreRecovery`): after a restart the durable attempt table "must
  refuse a second start record for an attempt that already terminated"
  (`tests/test_store.cpp` 433), and attempt records that age out "never affect durable
  placements" (`DESIGN.md` 10.1). A compaction that a crash cuts short before its marker
  leaves the sequence growing; the next one ages the attempt's record out and, if another
  attempt has placed its flow since, drops its placement. The attempt is then new to the
  store and is placed a second time.

More are visible in the models without a formula of their own: a stale or invalid
request reports the incumbent relation as "no incumbent", although "the incumbent
relation is reported by every outcome" (`engine.cpp` 633; those outcomes return before
it); which of two invalid candidates is met first decides the code of a rejection, so
`OrderNeverMatters` speaks of valid requests; with `max_exclusion_reasons` below the
number of reasons that occur, the explanation and even the outcome of an empty legal set
depend on candidate order; "the placement
stands" (`runtime.cpp` 736) is told to a caller of Cancel whose commit then fails because
Shutdown closed the store first, and without a store a reaped attempt that is submitted
again is placed again (`DESIGN.md` section 9 says it is unknown), which is why
`AtMostOnePlacement` is conditional on `HasStore`.

## Not modelled

The payload codecs (`codec.cpp` and the second half of `wire.cpp`), the scenario parser,
hashing and byte buffers, the rendering of explanations, status names, process helpers,
benchmarks and the commands other than `worker` keep no state and have no interleavings:
their content is byte layout and text, which a model would repeat rather than check. The
coordinator's read-only queries (Revalidate, LatestPlacements, recovery, stats) change
nothing. The server's log, ready file and counters other than `live_connections`,
`requests_served` and `committed` are left out; its store never fails a write and forgets no
attempt, which are `Coordinator`'s and `Store`'s business. LoadSnapshot refuses a snapshot
that lists more placements or attempts than `max_total_records` (`store.cpp` 388, 408); a
store within that budget never writes one, and `Store` leaves the two tests out. Two
processes on one store file (a `store-compact` beside a running coordinator; Open takes
no lock) are outside `Store`, which has one process at a time.

## Plan

1. *Done:* `Coordinator`, `Store` and their runs; the type, fencing, finality and
   uniqueness theorems of `Coordinator`.
2. *Done:* `Ledger` and its refinement by `Coordinator`; `Model`, `Validate`, `Engine` and
   `Flow`; `Wire` and `Server` over `Ledger`.
3. *Done:* proofs of the refinement and of every safety property of `Coordinator`, `Store`
   and `Server`.
4. *Done:* proofs of every property of `Flow`, over lemmas about `Validate` and `Engine`.
5. *Done:* recovery as the coordinator meets it (superseded placements, aged attempts,
   refused opens, the aftermath of failed writes), and the theorems of `CoordinatorLedger`
   and `CoordinatorOutcome` restated and proved over it.
6. A proof of `RecoveryOnlyForgets`; two processes on one store file; failed writes and
   forgotten attempts behind the server.
