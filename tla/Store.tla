------------------------------- MODULE Store -------------------------------
(***************************************************************************)
(* The durable placement store of src/src/store.cpp: an append-only        *)
(* journal, a snapshot that compaction replaces atomically, and the        *)
(* recovery that rebuilds the memory image from the two files.             *)
(*                                                                         *)
(* The coordinator serialises its calls with store_mu, so one call runs at *)
(* a time.  A call is one step up to its append; a compaction it triggers  *)
(* takes one step per file it changes, so that a crash can come between    *)
(* any two of them.  A crash may also tear the record being appended, and  *)
(* any file operation may fail.  fsync_on_append is set, as it is by       *)
(* default: what an append wrote survives.                                 *)
(*                                                                         *)
(* A call that is refused before it writes (closed, over budget, already   *)
(* terminal, already committed) changes nothing and has no action.         *)
(***************************************************************************)
EXTENDS Naturals, Sequences, FiniteSets

CONSTANTS
    Attempts,           \* attempt identities
    Flows,              \* flow identities
    FlowOf,             \* the flow each attempt places
    NoPlacement,        \* "the flow has no placement"
    MaxJournalRecords,  \* StoreOptions::max_journal_records, 0 = never compact
    MaxTotalRecords,    \* StoreOptions::max_total_records
    MaxPlacements,      \* bound: placements ever committed
    MaxMishaps          \* bound: processes that end and file operations that fail

ASSUME StoreAssumption ==
    /\ {MaxJournalRecords, MaxTotalRecords, MaxPlacements, MaxMishaps} \subseteq Nat
    /\ MaxTotalRecords > 0
    /\ FlowOf \in [Attempts -> Flows]

VARIABLES
    mode,            \* "ready", a stage of Compact, "reading" (read-only), "down", "refused"
    fileOpen,        \* file_ # nullptr
    snapshot,        \* the file <path>.snap
    journal,         \* the file <path>, record by record
    mem,             \* Impl and recovery_.retired_attempts
    journalRecords,  \* stats_.journal_records
    admitted,        \* the attempts the coordinator of this process has started
    ends, faults,    \* how many processes ended, how many file operations failed
    ledger,          \* history: the placements written whole, in order
    appendFailed     \* history: some append reported an error

files == <<snapshot, journal>>
history == <<ends, faults, ledger, appendFailed>>
vars == <<mode, fileOpen, files, mem, journalRecords, admitted, history>>

Compacting == {"snapshot", "journal", "marker"}
Up == {"ready", "reading"} \cup Compacting

Phase == {"none", "started", "committed", "declined"}
Sequence == 0 .. MaxTotalRecords
AttemptRecord == [phase : Phase, sequence : Sequence]
PlacementRecord ==
    [kind : {"placement"}, sequence : Sequence, attempt : Attempts,
     id : 1 .. MaxPlacements, generation : 1 .. MaxPlacements]
ASSUME NoPlacementAssumption == NoPlacement \notin PlacementRecord
JournalRecord ==
    PlacementRecord
    \cup [kind : {"attempt"}, sequence : Sequence, attempt : Attempts, phase : Phase]
    \cup [kind : {"reset"}, sequence : Sequence, covered : Sequence]
    \cup [kind : {"torn"}]

NoAttempt == [phase |-> "none", sequence |-> 0]
Torn == [kind |-> "torn"]

\* Impl.  `placements` is the vector as a set (ids order it), `latest` is
\* latest_by_flow; commit_by_attempt is Committed(m, a).
EmptyMem ==
    [placements |-> {}, latest |-> [f \in Flows |-> NoPlacement],
     attempts |-> [a \in Attempts |-> NoAttempt],
     next_placement_id |-> 1, max_sequence |-> 0, retired |-> {}]
\* A missing snapshot loads as one that covers nothing.
NoSnapshot ==
    [latest |-> [f \in Flows |-> NoPlacement], attempts |-> [a \in Attempts |-> NoAttempt],
     next_placement_id |-> 1, max_sequence |-> 0, retired |-> {}]

Committed(m, a) == \E p \in m.placements : p.attempt = a
Terminal(r) == r.phase \in {"committed", "declined"}

-----------------------------------------------------------------------------
(* What a record does to the memory image.                                   *)

PlacementApplied(m, r) ==
    [m EXCEPT !.placements = @ \cup {r}, !.latest[FlowOf[r.attempt]] = r,
              !.next_placement_id = IF r.id >= @ THEN r.id + 1 ELSE @,
              !.max_sequence = r.sequence]
AttemptApplied(m, r) ==
    [m EXCEPT !.attempts[r.attempt] = [phase |-> r.phase, sequence |-> r.sequence],
              !.max_sequence = r.sequence]
Applied(m, r) == IF r.kind = "placement" THEN PlacementApplied(m, r) ELSE AttemptApplied(m, r)

-----------------------------------------------------------------------------
(* Open: LoadSnapshot, LoadJournal, HandleDamage, recovery accounting.       *)

\* Mutant: the identity counter is rebuilt from the journal alone.
LoadedForgetsId(s) ==
    [placements |-> {s.latest[f] : f \in Flows} \ {NoPlacement}, latest |-> s.latest,
     attempts |-> s.attempts, next_placement_id |-> 1,
     max_sequence |-> s.max_sequence, retired |-> s.retired]
LoadSnapshot(s) ==
    [placements |-> {s.latest[f] : f \in Flows} \ {NoPlacement}, latest |-> s.latest,
     attempts |-> s.attempts, next_placement_id |-> s.next_placement_id,
     max_sequence |-> s.max_sequence, retired |-> s.retired]

\* The records in front of the first damage.
IntactPrefix(j) ==
    LET torn == {i \in 1 .. Len(j) : j[i] = Torn}
    IN  IF torn = {} THEN j ELSE SubSeq(j, 1, (CHOOSE i \in torn : \A k \in torn : i <= k) - 1)
\* Damage that a valid record follows is not a torn tail.
DamagedMidFile(j) == \E i, k \in 1 .. Len(j) : i < k /\ j[i] = Torn /\ j[k] # Torn

\* Mutant: the torn tail is reported and left in the file.
TailKept(j) == j
\* The torn tail is cut off the file.
Repaired(j) == IntactPrefix(j)

\* Mutant: sequences continue from the snapshot although the journal restarted.
MarkerSkipped(m, r) == m
\* The journal restarted at the marker.
MarkerApplied(m, r) == [m EXCEPT !.max_sequence = r.sequence]

\* One record of LoadJournal's loop.  `covered` is what the snapshot covers.
Replayed(s, r, covered) ==
    IF s.status # "ok" THEN s
    ELSE IF r.kind = "reset"
         THEN IF r.covered = covered THEN [s EXCEPT !.mem = MarkerApplied(@, r)]
                                     ELSE [s EXCEPT !.status = "marker"]
    ELSE IF r.sequence <= s.mem.max_sequence THEN s
    ELSE IF r.sequence # s.mem.max_sequence + 1 THEN [s EXCEPT !.status = "gap"]
    ELSE IF r.kind = "attempt" /\ r.phase = "started" /\ Terminal(s.mem.attempts[r.attempt])
         THEN [s EXCEPT !.status = "restarted"]
    ELSE [s EXCEPT !.mem = Applied(@, r)]

LoadJournal(m, j) ==
    LET at[i \in 0 .. Len(j)] ==
            IF i = 0 THEN [status |-> "ok", mem |-> m]
                     ELSE Replayed(at[i - 1], j[i], m.max_sequence)
    IN  at[Len(j)]

\* Mutant: an attempt that was started stays unfinished, whatever it placed.
NotAccounted(m) == m
\* A started attempt whose placement is durable did commit.
Accounted(m) ==
    [m EXCEPT !.attempts = [a \in Attempts |->
        IF @[a].phase = "started" /\ Committed(m, a)
        THEN [@[a] EXCEPT !.phase = "committed"] ELSE @[a]]]
OrphanCommit(m) == \E a \in Attempts : m.attempts[a].phase = "committed" /\ ~Committed(m, a)

\* What opening these two files gives: why it is refused, or the memory image.
Recovery(s, j) ==
    LET read == LoadJournal(LoadSnapshot(s), IntactPrefix(j))
        full == Accounted(read.mem)
    IN  [status |-> IF read.status # "ok" THEN read.status
                    ELSE IF DamagedMidFile(j) THEN "damaged"
                    ELSE IF OrphanCommit(full) THEN "orphan" ELSE "ok",
         mem |-> full]
Recovered == Recovery(snapshot, journal)

\* The tail is cut while the journal is read, so also when an orphan is found later.
Open ==
    /\ mode = "down"
    /\ IF Recovered.status = "ok"
       THEN /\ mode' = "ready" /\ fileOpen' = TRUE
            /\ mem' = Recovered.mem
            /\ journalRecords' = Len(IntactPrefix(journal))
       ELSE /\ mode' = "refused"
            /\ UNCHANGED <<fileOpen, mem, journalRecords>>
    /\ journal' = IF Recovered.status \in {"ok", "orphan"} THEN Repaired(journal) ELSE journal
    /\ UNCHANGED <<snapshot, admitted, history>>

\* StoreOptions::read_only: nothing is repaired and nothing can be appended.
OpenReadOnly ==
    /\ mode = "down"
    /\ mode' = IF Recovered.status = "ok" THEN "reading" ELSE "refused"
    /\ mem' = IF Recovered.status = "ok" THEN Recovered.mem ELSE mem
    /\ UNCHANGED <<fileOpen, files, journalRecords, admitted, history>>

-----------------------------------------------------------------------------
(* AppendRecordRaw and the calls that use it.                                *)

MayFail == ends + faults < MaxMishaps /\ faults' = faults + 1
MayEnd == ends + faults < MaxMishaps /\ ends' = ends + 1

Gone ==
    /\ mode' = "down" /\ fileOpen' = FALSE
    /\ mem' = EmptyMem /\ journalRecords' = 0
    /\ admitted' = {}

\* Mutant: the threshold is crossed before it is acted on.
DueLate(n) == MaxJournalRecords # 0 /\ n > MaxJournalRecords
CompactionDue(n) == MaxJournalRecords # 0 /\ n >= MaxJournalRecords

\* Mutant: one record over the budget.
BudgetOffByOne == mem.max_sequence <= MaxTotalRecords
WithinBudget == mem.max_sequence < MaxTotalRecords

LedgerWith(r) == IF r.kind = "placement" THEN Append(ledger, r) ELSE ledger

\* The record is durable, then applied, then the journal may be due for compaction.
Appended(r) ==
    /\ journal' = Append(journal, r)
    /\ mem' = Applied(mem, r)
    /\ journalRecords' = journalRecords + 1
    /\ mode' = IF CompactionDue(journalRecords') THEN "snapshot" ELSE "ready"
    /\ ledger' = LedgerWith(r)
    /\ admitted' = admitted \cup {r.attempt}
    /\ UNCHANGED <<fileOpen, snapshot, ends, faults, appendFailed>>

\* fwrite, fflush or fsync fails: the file holds nothing, a part, or all of the
\* record, and the caller is told that it was not written.
AppendFails(r) ==
    /\ MayFail
    /\ journal' \in {journal, Append(journal, Torn), Append(journal, r)}
    /\ appendFailed' = TRUE
    /\ UNCHANGED <<mode, fileOpen, snapshot, mem, journalRecords, admitted, ends, ledger>>

\* The process dies inside the write.
AppendCrashes(r) ==
    /\ MayEnd
    /\ \/ journal' = Append(journal, Torn) /\ ledger' = ledger
       \/ journal' = Append(journal, r) /\ ledger' = LedgerWith(r)
    /\ Gone
    /\ UNCHANGED <<snapshot, faults, appendFailed>>

AppendRecordRaw(r) ==
    /\ mode = "ready" /\ fileOpen /\ WithinBudget
    /\ Appended(r) \/ AppendFails(r) \/ AppendCrashes(r)

NextSequence == mem.max_sequence + 1

\* A start is refused for an attempt that is terminal or has placed.  The
\* coordinator starts an attempt once (again after a restart, or a failed start).
AppendAttemptStart(a) ==
    /\ a \notin admitted
    /\ ~Terminal(mem.attempts[a])
    /\ ~Committed(mem, a)
    /\ AppendRecordRaw([kind |-> "attempt", sequence |-> NextSequence,
                        attempt |-> a, phase |-> "started"])

\* The coordinator journals the outcome of an attempt whose start is durable:
\* "committed" after CommitPlacement returned the record, another phase when it
\* did not commit or when CommitPlacement reported an error.
AppendAttemptTerminal(a, phase) ==
    /\ a \in admitted
    /\ mem.attempts[a].phase = "started"
    /\ \/ phase = "committed" /\ Committed(mem, a)
       \/ phase = "declined" /\ (Committed(mem, a) => faults > 0)
    /\ AppendRecordRaw([kind |-> "attempt", sequence |-> NextSequence,
                        attempt |-> a, phase |-> phase])

\* The coordinator holds commit_mu from a commit to its journal record, so an
\* earlier commit is journalled, unless a write failed.
CommitMuFree ==
    \A a \in Attempts : Committed(mem, a) /\ mem.attempts[a].phase = "started" => faults > 0

Generation(p) == IF p = NoPlacement THEN 0 ELSE p.generation

\* The coordinator journals a start before it commits; by then the attempt may
\* have been cancelled.
CommitPlacement(a) ==
    /\ a \in admitted
    /\ ~Committed(mem, a)
    /\ CommitMuFree
    /\ Len(ledger) < MaxPlacements /\ mem.next_placement_id <= MaxPlacements
    /\ AppendRecordRaw([kind |-> "placement", sequence |-> NextSequence, attempt |-> a,
                        id |-> mem.next_placement_id,
                        generation |-> Generation(mem.latest[FlowOf[a]]) + 1])

-----------------------------------------------------------------------------
(* Compact: the snapshot, the empty journal, the reset marker.               *)

Retention == IF MaxJournalRecords = 0 THEN mem.max_sequence ELSE MaxJournalRecords
AgedOut(a) ==
    /\ mem.attempts[a] # NoAttempt
    /\ mem.max_sequence > Retention
    /\ mem.attempts[a].sequence + Retention < mem.max_sequence

SnapshotOfMem ==
    [latest |-> mem.latest,
     attempts |-> [a \in Attempts |-> IF AgedOut(a) THEN NoAttempt ELSE mem.attempts[a]],
     next_placement_id |-> mem.next_placement_id, max_sequence |-> mem.max_sequence,
     retired |-> mem.retired \cup {a \in Attempts : AgedOut(a)}]

\* The public call.  Its one caller, the store-compact command, opens the store
\* for nothing else.
Compact ==
    /\ mode = "ready" /\ admitted = {}
    /\ mode' = "snapshot"
    /\ UNCHANGED <<fileOpen, files, mem, journalRecords, admitted, history>>

\* Compaction gives up and the call returns its error.
CompactFails ==
    /\ MayFail
    /\ mode' = "ready"

CompactSnapshot ==
    /\ mode = "snapshot"
    /\ \/ /\ snapshot' = SnapshotOfMem
          /\ mode' = "journal"
          /\ UNCHANGED faults
       \/ CompactFails /\ UNCHANGED snapshot
    /\ UNCHANGED <<fileOpen, journal, mem, journalRecords, admitted, ends, ledger, appendFailed>>

\* The file is closed first: a failure, also one to reopen the new journal,
\* leaves the store unable to append.
CompactJournal ==
    /\ mode = "journal"
    /\ \/ /\ journal' = <<>> /\ fileOpen' = TRUE
          /\ mem' = [mem EXCEPT !.max_sequence = 0]
          /\ journalRecords' = 0
          /\ mode' = "marker"
          /\ UNCHANGED faults
       \/ /\ CompactFails
          /\ fileOpen' = FALSE
          /\ journal' \in {journal, <<>>}
          /\ UNCHANGED <<mem, journalRecords>>
    /\ UNCHANGED <<snapshot, admitted, ends, ledger, appendFailed>>

ResetMarker == [kind |-> "reset", sequence |-> 1, covered |-> snapshot.max_sequence]

CompactMarker ==
    /\ mode = "marker"
    /\ \/ /\ journal' = Append(journal, ResetMarker)
          /\ mem' = [mem EXCEPT !.max_sequence = 1]
          /\ journalRecords' = 0
          /\ mode' = "ready"
          /\ UNCHANGED <<fileOpen, snapshot, admitted, history>>
       \/ /\ CompactFails
          /\ journal' \in {journal, Append(journal, Torn), Append(journal, ResetMarker)}
          /\ appendFailed' = TRUE
          /\ UNCHANGED <<fileOpen, snapshot, mem, journalRecords, admitted, ends, ledger>>
       \/ /\ MayEnd
          /\ journal' = Append(journal, Torn)
          /\ Gone
          /\ UNCHANGED <<snapshot, faults, ledger, appendFailed>>

-----------------------------------------------------------------------------
\* The process dies between two writes.
Crash ==
    /\ mode \in Up
    /\ MayEnd
    /\ Gone
    /\ UNCHANGED <<files, faults, ledger, appendFailed>>

Close ==
    /\ mode \in {"ready", "reading"}
    /\ MayEnd
    /\ Gone
    /\ UNCHANGED <<files, faults, ledger, appendFailed>>

Init ==
    /\ mode = "down" /\ fileOpen = FALSE
    /\ snapshot = NoSnapshot /\ journal = <<>>
    /\ mem = EmptyMem /\ journalRecords = 0 /\ admitted = {}
    /\ ends = 0 /\ faults = 0
    /\ ledger = <<>> /\ appendFailed = FALSE

Next ==
    \/ Open \/ OpenReadOnly
    \/ \E a \in Attempts : AppendAttemptStart(a)
    \/ \E a \in Attempts, phase \in {"committed", "declined"} : AppendAttemptTerminal(a, phase)
    \/ \E a \in Attempts : CommitPlacement(a)
    \/ Compact \/ CompactSnapshot \/ CompactJournal \/ CompactMarker
    \/ Crash \/ Close

Spec == Init /\ [][Next]_vars

-----------------------------------------------------------------------------
(* Properties.  Those that read Recovered look at the files in every state,  *)
(* so they speak of a crash at every point of every call.                    *)

TypeOK ==
    /\ mode \in Up \cup {"down", "refused"}
    /\ fileOpen \in BOOLEAN /\ appendFailed \in BOOLEAN
    /\ journal \in Seq(JournalRecord)
    /\ ledger \in Seq(PlacementRecord)
    /\ \A image \in {mem, snapshot} :
          /\ image.latest \in [Flows -> PlacementRecord \cup {NoPlacement}]
          /\ image.attempts \in [Attempts -> AttemptRecord]
          /\ image.next_placement_id \in 1 .. MaxPlacements + 1
          /\ image.max_sequence \in Sequence
          /\ image.retired \subseteq Attempts
    /\ mem.placements \subseteq PlacementRecord
    /\ journalRecords \in Nat
    /\ admitted \subseteq Attempts
    /\ ends \in Nat /\ faults \in Nat /\ ends + faults <= MaxMishaps

Placed(f) == {i \in 1 .. Len(ledger) : FlowOf[ledger[i].attempt] = f}
LastPlaced(f) ==
    IF Placed(f) = {} THEN NoPlacement
    ELSE ledger[CHOOSE i \in Placed(f) : \A k \in Placed(f) : k <= i]

\* "A record is durable before it is acknowledged" (store.cpp, header comment):
\* wherever the process stops, files that can be opened give every flow the
\* last placement that was written for it - through torn tails, skipped
\* leftovers, rebased sequences and half-done compactions - as long as no
\* append has failed.
AcknowledgedSurvives ==
    ~appendFailed /\ Recovered.status = "ok" =>
        \A f \in Flows : Recovered.mem.latest[f] = LastPlaced(f)

\* CommitPlacement numbers: identities are never reused and the generations of
\* a flow are 1, 2, 3, ... across crashes and compactions.
NumbersNeverReused ==
    ~appendFailed =>
        \A i \in 1 .. Len(ledger) :
            /\ \A k \in 1 .. i - 1 : ledger[k].id < ledger[i].id
            /\ ledger[i].generation =
                  Cardinality({k \in Placed(FlowOf[ledger[i].attempt]) : k <= i})

\* A crash alone never leaves a journal with a hole in its sequence or with
\* damage in front of a valid record, which LoadJournal and HandleDamage refuse.
CrashNeverDamages ==
    ~appendFailed => Recovered.status \notin {"gap", "damaged"}

\* Open never reports an attempt as unfinished, to be driven again, when it has
\* placed, unless its record had aged out of the retained window.
UnfinishedNeverPlaced ==
    faults = 0 /\ Recovered.status = "ok" =>
        \A i \in 1 .. Len(ledger) :
            Recovered.mem.attempts[ledger[i].attempt].phase = "started" =>
                ledger[i].attempt \in Recovered.mem.retired

\* What Coordinator's Recover assumes of a store no operation of which failed: wherever
\* a process stops, files that open give back its memory image, except placements that
\* later ones of their flow superseded and attempts whose records aged out.
RecoveryOnlyForgets ==
    faults = 0 /\ mode \in Up /\ Recovered.status = "ok" =>
        /\ Recovered.mem.placements \subseteq mem.placements
        /\ \A p \in mem.placements \ Recovered.mem.placements :
              \E q \in mem.placements : FlowOf[q.attempt] = FlowOf[p.attempt] /\ p.id < q.id
        /\ \A a \in Attempts :
              \/ Recovered.mem.attempts[a].phase = Accounted(mem).attempts[a].phase
              \/ /\ Recovered.mem.attempts[a].phase = "none"
                 /\ a \in Recovered.mem.retired

\* "The journal length is bounded by configuration rather than by uptime"
\* (DESIGN.md 10.1): the marker and max_journal_records records, and one more
\* for each compaction that a crash or a failed write prevented.
JournalIsBounded ==
    MaxJournalRecords # 0 =>
        Len(journal) <= MaxJournalRecords + 1 + ends + faults

-----------------------------------------------------------------------------
(* What the documentation says and the code does not do.                     *)

\* "A record is durable before it is acknowledged" (store.cpp, header comment),
\* also after an earlier append has failed: AppendRecordRaw reuses the failed
\* record's sequence, and LoadJournal skips the second record that carries it.
AcknowledgedSurvivesFaults ==
    Recovered.status = "ok" =>
        \A f \in Flows : Placed(f) # {} => LastPlaced(f) \in Recovered.mem.placements

\* Compaction preserves a readable store (test_store.cpp requires Open to
\* succeed after it): an attempt journalled as committed keeps its placement.
CompactionLeavesNoOrphan == Recovered.status # "orphan"

\* "A journal that was not yet replaced is read with the plain 'already covered
\* by the snapshot' rule" (DESIGN.md 10.1): the marker a journal starts with
\* never contradicts a newer snapshot.
OldJournalIsSkipped == Recovered.status # "marker"

=============================================================================
