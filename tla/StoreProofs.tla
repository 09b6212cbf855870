---------------------------- MODULE StoreProofs ----------------------------
(***************************************************************************)
(* Proofs about Store, for any flows, attempts and budgets, every          *)
(* max_journal_records and any number of crashes: how long the journal     *)
(* gets, that the state is well typed, and what Open recovers from the two *)
(* files, wherever the process stopped writing them.                       *)
(*                                                                         *)
(* The length first.                                                       *)
(*                                                                         *)
(* journal_records does not count the marker and is not raised by an append*)
(* that failed, and Compact can stop after any of its steps, so the bound  *)
(* needs three facts that depend on the mode: what a journal holds when no *)
(* compaction is under way, what it holds during one, and how far it can be*)
(* ahead of the count that triggers the next one.                          *)
(***************************************************************************)
EXTENDS Store, FiniteSetTheorems, NaturalsInduction, SequenceTheorems, WellFoundedInduction, TLAPS

\* Which records are in it does not matter, only that it is a sequence.
IsSequence(s) == \E S : s \in Seq(S)

Mishaps == ends + faults

\* The counters, and what the mode says of the file.
CountersOK ==
    /\ IsSequence(journal)
    /\ journalRecords \in Nat /\ ends \in Nat /\ faults \in Nat
    /\ mode \in Up \cup {"down", "refused"}
    /\ mode = "marker" => journal = <<>> /\ journalRecords = 0

\* Outside a compaction: one record beyond the threshold for each mishap.
RestBound ==
    mode \notin Compacting => Len(journal) <= MaxJournalRecords + Mishaps
\* Inside one: the record that made it due as well.
CompactingBound == Len(journal) <= MaxJournalRecords + 1 + Mishaps
\* The count that triggers Compact lags by the marker and the failed appends.
LagBound ==
    mode \in {"ready"} \cup Compacting => Len(journal) <= journalRecords + 1 + Mishaps

BoundInv ==
    /\ CountersOK
    /\ MaxJournalRecords # 0 => RestBound /\ CompactingBound /\ LagBound

-----------------------------------------------------------------------------
(* Sequences.                                                                *)

\* Appending, whatever the record.
LEMMA AppendedSequence ==
    ASSUME NEW s, IsSequence(s), NEW r
    PROVE  /\ IsSequence(Append(s, r))
           /\ Len(s) \in Nat
           /\ Len(Append(s, r)) = Len(s) + 1
<1>1. PICK S : s \in Seq(S)
    BY DEF IsSequence
<1>2. s \in Seq(S \cup {r}) /\ Append(s, r) \in Seq(S \cup {r})
    BY <1>1
<1> QED
    BY <1>2 DEF IsSequence

\* The empty journal.
LEMMA EmptySequence == IsSequence(<<>>) /\ Len(<<>>) = 0
<1>1. <<>> \in Seq({})
    OBVIOUS
<1> QED
    BY <1>1 DEF IsSequence

\* The first of some numbers.
LEMMA LeastNumber ==
    ASSUME NEW T, T \subseteq Nat, T # {}
    PROVE  \E i \in T : \A k \in T : i <= k
<1>1. \E i \in T : \A k \in T : <<k, i>> \notin OpToRel(<, Nat)
    BY NatLessThanWellFounded, WFMin
<1>2. PICK i \in T : \A k \in T : <<k, i>> \notin OpToRel(<, Nat)
    BY <1>1
<1>3. \A k \in T : ~(k < i)
    BY <1>2 DEF OpToRel
<1> QED
    BY <1>3

\* HandleDamage keeps the records in front of the first damage.
LEMMA IntactFacts ==
    ASSUME NEW S, NEW j \in Seq(S)
    PROVE  /\ IntactPrefix(j) \in Seq(S)
           /\ Len(IntactPrefix(j)) \in Nat /\ Len(IntactPrefix(j)) <= Len(j)
           /\ \A i \in 1 .. Len(IntactPrefix(j)) :
                 IntactPrefix(j)[i] = j[i] /\ IntactPrefix(j)[i] # Torn
           /\ \/ IntactPrefix(j) = j
              \/ Len(IntactPrefix(j)) < Len(j) /\ j[Len(IntactPrefix(j)) + 1] = Torn
<1> DEFINE torn == {i \in 1 .. Len(j) : j[i] = Torn}
           first == CHOOSE i \in torn : \A k \in torn : i <= k
<1>1. CASE torn = {}
    BY <1>1 DEF IntactPrefix
<1>2. CASE torn # {}
  <2>1. Len(j) \in Nat /\ torn \subseteq Nat
      OBVIOUS
  <2>2. first \in torn /\ \A k \in torn : first <= k
    <3> HIDE DEF torn
    <3>1. \E i \in torn : \A k \in torn : i <= k
        BY <1>2, <2>1, LeastNumber
    <3> QED
        BY <3>1
  <2>3. IntactPrefix(j) = SubSeq(j, 1, first - 1)
      BY <1>2 DEF IntactPrefix
  <2>4. first \in 1 .. Len(j) /\ j[first] = Torn
      BY <2>2
  <2>5. \A i \in 1 .. first - 1 : j[i] # Torn
    <3> SUFFICES ASSUME NEW i \in 1 .. first - 1, j[i] = Torn PROVE FALSE
        OBVIOUS
    <3>1. i \in torn
        BY <2>4
    <3>2. first <= i
        BY <2>2, <3>1
    <3> HIDE DEF first
    <3> QED
        BY <2>4, <3>2
  <2> HIDE DEF first, torn
  <2>6. /\ SubSeq(j, 1, first - 1) \in Seq(S) /\ Len(SubSeq(j, 1, first - 1)) = first - 1
        /\ \A i \in 1 .. first - 1 : SubSeq(j, 1, first - 1)[i] = j[i]
      BY <2>4
  <2> QED
      BY <2>3, <2>4, <2>5, <2>6
<1> QED
    BY <1>1, <1>2

\* It only ever shortens the file.
LEMMA IntactIsShorter ==
    ASSUME NEW j, IsSequence(j)
    PROVE  /\ IsSequence(IntactPrefix(j))
           /\ Len(IntactPrefix(j)) \in Nat
           /\ Len(IntactPrefix(j)) <= Len(j)
BY IntactFacts DEF IsSequence

-----------------------------------------------------------------------------
(* The bound.                                                                *)

\* A new store.
LEMMA BoundInit == StoreAssumption /\ Init => BoundInv
BY EmptySequence
DEF StoreAssumption, Init, BoundInv, CountersOK, RestBound, CompactingBound, LagBound, Mishaps, Up, Compacting

\* Recovery: the file is at most cut, and the count starts from what is left.
LEMMA OpenKeepsBound ==
    ASSUME StoreAssumption, BoundInv, Open
    PROVE  BoundInv'
<1>1. IsSequence(IntactPrefix(journal)) /\ Len(IntactPrefix(journal)) \in Nat
      /\ Len(IntactPrefix(journal)) <= Len(journal)
    BY IntactIsShorter DEF BoundInv, CountersOK
<1>2. Len(journal) \in Nat
    BY AppendedSequence DEF BoundInv, CountersOK
<1>3. /\ mode = "down" /\ mode' \in {"ready", "refused"}
      /\ journal' \in {journal, IntactPrefix(journal)}
      /\ mode' = "ready" => journal' = IntactPrefix(journal)
                            /\ journalRecords' = Len(IntactPrefix(journal))
      /\ mode' # "ready" => journalRecords' = journalRecords
      /\ ends' = ends /\ faults' = faults
    BY DEF Open, Repaired, history
<1>4. CountersOK'
    BY <1>1, <1>3 DEF BoundInv, CountersOK, Up
<1> QED
    BY <1>1, <1>2, <1>3, <1>4
    DEF StoreAssumption, BoundInv, CountersOK, RestBound, CompactingBound, LagBound, Mishaps, Compacting

\* One append: written and counted, failed, or cut short by the end of the process.
LEMMA AppendKeepsBound ==
    ASSUME StoreAssumption, BoundInv, NEW r, AppendRecordRaw(r)
    PROVE  BoundInv'
<1>1. /\ IsSequence(journal) /\ Len(journal) \in Nat
      /\ \A x : IsSequence(Append(journal, x)) /\ Len(Append(journal, x)) = Len(journal) + 1
    BY AppendedSequence DEF BoundInv, CountersOK
<1>2. mode = "ready"
    BY DEF AppendRecordRaw
<1>3. CASE Appended(r)
  <2>1. /\ journal' = Append(journal, r) /\ journalRecords' = journalRecords + 1
        /\ mode' = IF CompactionDue(journalRecords + 1) THEN "snapshot" ELSE "ready"
        /\ ends' = ends /\ faults' = faults
      BY <1>3 DEF Appended
  <2>2. CountersOK'
      BY <1>1, <2>1 DEF BoundInv, CountersOK, Up, Compacting
  <2> QED
      BY <1>1, <1>2, <2>1, <2>2
      DEF StoreAssumption, BoundInv, CountersOK, RestBound, CompactingBound, LagBound, Mishaps,
          Compacting, CompactionDue
<1>4. CASE AppendFails(r)
  <2>1. /\ journal' \in {journal, Append(journal, Torn), Append(journal, r)}
        /\ mode' = mode /\ journalRecords' = journalRecords
        /\ ends' = ends /\ faults' = faults + 1
      BY <1>4 DEF AppendFails, MayFail
  <2>2. IsSequence(journal') /\ Len(journal') <= Len(journal) + 1
    <3>1. CASE journal' = journal
        BY <1>1, <3>1
    <3>2. ASSUME NEW x, journal' = Append(journal, x)
          PROVE  IsSequence(journal') /\ Len(journal') = Len(journal) + 1
        BY <1>1, <3>2
    <3> QED
        BY <1>1, <2>1, <3>1, <3>2
  <2>3. CountersOK'
      BY <1>2, <2>1, <2>2 DEF BoundInv, CountersOK, Up
  <2>4. Len(journal') \in Nat
      BY <2>2, AppendedSequence
  <2> QED
      BY <1>1, <1>2, <2>1, <2>2, <2>3, <2>4
      DEF StoreAssumption, BoundInv, CountersOK, RestBound, CompactingBound, LagBound, Mishaps, Compacting
<1>5. CASE AppendCrashes(r)
  <2>1. /\ journal' \in {Append(journal, Torn), Append(journal, r)}
        /\ mode' = "down" /\ journalRecords' = 0
        /\ ends' = ends + 1 /\ faults' = faults
      BY <1>5 DEF AppendCrashes, MayEnd, Gone
  <2>2. IsSequence(journal') /\ Len(journal') = Len(journal) + 1
      BY <1>1, <2>1
  <2>3. CountersOK'
      BY <2>1, <2>2 DEF BoundInv, CountersOK
  <2> QED
      BY <1>1, <1>2, <2>1, <2>2, <2>3
      DEF StoreAssumption, BoundInv, CountersOK, RestBound, CompactingBound, LagBound, Mishaps, Compacting
<1> QED
    BY <1>3, <1>4, <1>5 DEF AppendRecordRaw

\* Compact, from the call to the marker, wherever it stops.
LEMMA CompactKeepsBound ==
    ASSUME StoreAssumption, BoundInv,
           Compact \/ CompactSnapshot \/ CompactJournal \/ CompactMarker
    PROVE  BoundInv'
<1>1. /\ IsSequence(journal) /\ Len(journal) \in Nat
      /\ \A x : IsSequence(Append(journal, x)) /\ Len(Append(journal, x)) = Len(journal) + 1
    BY AppendedSequence DEF BoundInv, CountersOK
<1> USE DEF StoreAssumption, BoundInv, CountersOK, RestBound, CompactingBound, LagBound, Mishaps,
            Up, Compacting
<1>2. CASE Compact
    BY <1>1, <1>2 DEF Compact, files, history
<1>3. CASE CompactSnapshot
  <2>1. /\ journal' = journal /\ journalRecords' = journalRecords /\ ends' = ends
        /\ mode = "snapshot"
        /\ \/ mode' = "journal" /\ faults' = faults
           \/ mode' = "ready" /\ faults' = faults + 1
      BY <1>3 DEF CompactSnapshot, CompactFails, MayFail
  <2> QED
      BY <1>1, <2>1
<1>4. CASE CompactJournal
  <2>1. /\ mode = "journal" /\ ends' = ends
        /\ \/ journal' = <<>> /\ mode' = "marker" /\ journalRecords' = 0 /\ faults' = faults
           \/ /\ journal' \in {journal, <<>>} /\ mode' = "ready"
              /\ journalRecords' = journalRecords /\ faults' = faults + 1
      BY <1>4 DEF CompactJournal, CompactFails, MayFail
  <2>2. IsSequence(journal') /\ Len(journal') \in Nat /\ Len(journal') <= Len(journal)
      BY <1>1, <2>1, EmptySequence
  <2>3. CountersOK'
      BY <2>1, <2>2
  <2>4. mode' = "marker" => Len(journal') = 0
      BY <2>1, EmptySequence
  <2>5. CASE mode' = "marker"
      BY <1>1, <2>1, <2>3, <2>4, <2>5
  <2>6. CASE mode' = "ready"
      BY <1>1, <2>1, <2>2, <2>3, <2>6
  <2> QED
      BY <2>1, <2>5, <2>6
<1>5. CASE CompactMarker
  <2>1. /\ mode = "marker" /\ journalRecords' = 0
        /\ journal' \in {journal, Append(journal, Torn), Append(journal, ResetMarker)}
        /\ \/ mode' = "ready" /\ faults' = faults /\ ends' = ends
           \/ mode' = "ready" /\ faults' = faults + 1 /\ ends' = ends
           \/ mode' = "down" /\ faults' = faults /\ ends' = ends + 1
      BY <1>5 DEF CompactMarker, CompactFails, MayFail, MayEnd, Gone, history
  <2>2. IsSequence(journal') /\ Len(journal') \in Nat /\ Len(journal') <= Len(journal) + 1
    <3>1. CASE journal' = journal
        BY <1>1, <3>1
    <3>2. ASSUME NEW x, journal' = Append(journal, x)
          PROVE  IsSequence(journal') /\ Len(journal') = Len(journal) + 1
        BY <1>1, <3>2
    <3>3. journal' = journal \/ \E x : journal' = Append(journal, x)
        BY <2>1
    <3>4. IsSequence(journal') /\ (Len(journal') = Len(journal) \/ Len(journal') = Len(journal) + 1)
        BY <3>1, <3>2, <3>3
    <3> QED
        BY <1>1, <3>4
  <2>3. Len(journal) = 0
      BY <2>1, EmptySequence
  <2>4. CountersOK'
      BY <2>1, <2>2
  <2> QED
      BY <2>1, <2>2, <2>3, <2>4
<1> QED
    BY <1>2, <1>3, <1>4, <1>5

\* The inductive step, one case for each action.
LEMMA BoundStep == StoreAssumption /\ BoundInv /\ [Next]_vars => BoundInv'
<1> SUFFICES ASSUME StoreAssumption, BoundInv, [Next]_vars
             PROVE  BoundInv'
    OBVIOUS
<1>1. CASE Open
    BY <1>1, OpenKeepsBound
<1>2. CASE OpenReadOnly
    BY <1>2 DEF OpenReadOnly, files, history, BoundInv, CountersOK, RestBound, CompactingBound,
                LagBound, Mishaps, Up, Compacting
<1>3. ASSUME NEW a \in Attempts, AppendAttemptStart(a)
      PROVE  BoundInv'
    BY <1>3, AppendKeepsBound DEF AppendAttemptStart
<1>4. ASSUME NEW a \in Attempts, NEW phase \in {"committed", "declined"},
             AppendAttemptTerminal(a, phase)
      PROVE  BoundInv'
    BY <1>4, AppendKeepsBound DEF AppendAttemptTerminal
<1>5. ASSUME NEW a \in Attempts, CommitPlacement(a)
      PROVE  BoundInv'
    BY <1>5, AppendKeepsBound DEF CommitPlacement
<1>6. CASE Compact \/ CompactSnapshot \/ CompactJournal \/ CompactMarker
    BY <1>6, CompactKeepsBound
<1>7. CASE Crash \/ Close
  <2>1. /\ mode' = "down" /\ journalRecords' = 0 /\ journal' = journal
        /\ ends' = ends + 1 /\ faults' = faults
      BY <1>7 DEF Crash, Close, MayEnd, Gone, files
  <2>2. Len(journal) \in Nat
      BY AppendedSequence DEF BoundInv, CountersOK
  <2> QED
      BY <2>1, <2>2 DEF StoreAssumption, BoundInv, CountersOK, RestBound, CompactingBound, LagBound,
                        Mishaps, Compacting
<1>8. CASE UNCHANGED vars
    BY <1>8 DEF vars, files, history, BoundInv, CountersOK, RestBound, CompactingBound, LagBound, Mishaps
<1> QED
    BY <1>1, <1>2, <1>3, <1>4, <1>5, <1>6, <1>7, <1>8 DEF Next

\* JournalIsBounded for every threshold and any number of crashes and failed
\* operations: Compact keeps the journal of AppendRecordRaw within
\* max_journal_records, the marker and one record for each mishap.
THEOREM JournalStaysBounded == Spec => []JournalIsBounded
<1>1. BoundInv => JournalIsBounded
  <2>1. IsSequence(journal) => Len(journal) \in Nat
      BY AppendedSequence
  <2> QED
      BY <2>1, StoreAssumption
      DEF StoreAssumption, BoundInv, CountersOK, CompactingBound, Mishaps, JournalIsBounded
<1> QED
    BY <1>1, StoreAssumption, BoundInit, BoundStep, PTL DEF Spec

-----------------------------------------------------------------------------
(* LoadJournal.  Its loop is a recursive function, and what holds of it is   *)
(* shown by looking at the first record at which it would fail.              *)

\* What LoadSnapshot hands to the loop.
Loaded(m) == [status |-> "ok", mem |-> m]

\* f is what the loop computes over the first n records of j.
Loop(f, m, j, n) ==
    f = [i \in 0 .. n |-> IF i = 0 THEN Loaded(m) ELSE Replayed(f[i - 1], j[i], m.max_sequence)]

\* The loop computes something, for every number of records.
LEMMA LoopExists ==
    ASSUME NEW m, NEW j, NEW n \in Nat
    PROVE  \E f : Loop(f, m, j, n)
<1> DEFINE Without == {k \in Nat : ~ \E f : Loop(f, m, j, k)}
<1> SUFFICES ASSUME Without # {} PROVE FALSE
    OBVIOUS
<1>1. PICK k \in Without : \A l \in Without : k <= l
    BY LeastNumber
<1>2. k \in Nat /\ ~ \E f : Loop(f, m, j, k)
    OBVIOUS
<1>3. CASE k = 0
  <2> DEFINE f == [i \in 0 .. 0 |-> Loaded(m)]
  <2>1. Loop(f, m, j, 0)
      BY DEF Loop
  <2> QED
      BY <1>2, <1>3, <2>1
<1>4. CASE k # 0
  <2>1. k - 1 \in Nat /\ k - 1 \notin Without
      BY <1>1, <1>2, <1>4
  <2>2. PICK f : Loop(f, m, j, k - 1)
      BY <2>1
  <2> DEFINE g == [i \in 0 .. k |-> IF i = k THEN Replayed(f[k - 1], j[k], m.max_sequence) ELSE f[i]]
  <2>3. ASSUME NEW i \in 0 .. k
        PROVE  g[i] = IF i = 0 THEN Loaded(m) ELSE Replayed(g[i - 1], j[i], m.max_sequence)
    <3>1. CASE i = k
      <4>1. g[k - 1] = f[k - 1]
          BY <1>4, <2>1
      <4> QED
          BY <1>4, <3>1, <4>1
    <3>2. CASE i # k
      <4>1. i \in 0 .. k - 1
          BY <1>2, <3>2
      <4>2. f[i] = IF i = 0 THEN Loaded(m) ELSE Replayed(f[i - 1], j[i], m.max_sequence)
          BY <2>1, <2>2, <4>1 DEF Loop
      <4>3. i # 0 => g[i - 1] = f[i - 1]
          BY <1>2, <4>1
      <4> QED
          BY <3>2, <4>1, <4>2, <4>3
    <3> QED
        BY <3>1, <3>2
  <2>4. Loop(g, m, j, k)
    <3> HIDE DEF g
    <3>1. g = [i \in 0 .. k |-> g[i]]
        BY DEF g
    <3> QED
        BY <2>3, <3>1 DEF Loop
  <2> QED
      BY <1>2, <2>4
<1> QED
    BY <1>3, <1>4

\* LoadJournal returns what its loop computes.
LEMMA LoadIsLoop ==
    ASSUME NEW m, NEW j, Len(j) \in Nat
    PROVE  \E f : Loop(f, m, j, Len(j)) /\ LoadJournal(m, j) = f[Len(j)]
<1> DEFINE at == CHOOSE f : Loop(f, m, j, Len(j))
<1>1. Loop(at, m, j, Len(j))
    BY LoopExists
<1>2. LoadJournal(m, j) = at[Len(j)]
    BY DEF LoadJournal, Loop, Loaded
<1> QED
    BY <1>1, <1>2

\* Induction over the records: G[i] is what is known after the first i of them.
LEMMA LoadInduction ==
    ASSUME NEW m, NEW j, Len(j) \in Nat, NEW G,
           Loaded(m) \in G[0],
           \A i \in 1 .. Len(j) : \A s \in G[i - 1] : Replayed(s, j[i], m.max_sequence) \in G[i]
    PROVE  LoadJournal(m, j) \in G[Len(j)]
<1>1. PICK f : Loop(f, m, j, Len(j)) /\ LoadJournal(m, j) = f[Len(j)]
    BY LoadIsLoop
<1> DEFINE Lost == {i \in 0 .. Len(j) : f[i] \notin G[i]}
<1> SUFFICES ASSUME Lost # {} PROVE FALSE
    BY <1>1
<1>2. Lost \subseteq Nat
    OBVIOUS
<1>3. PICK k \in Lost : \A l \in Lost : k <= l
  <2> HIDE DEF Lost
  <2> QED
      BY <1>2, LeastNumber
<1>4. f[k] = IF k = 0 THEN Loaded(m) ELSE Replayed(f[k - 1], j[k], m.max_sequence)
    BY <1>1, <1>3 DEF Loop
<1>5. CASE k = 0
    BY <1>3, <1>4, <1>5
<1>6. CASE k # 0
  <2>1. k \in 1 .. Len(j) /\ k - 1 \in 0 .. Len(j) /\ ~(k <= k - 1)
      BY <1>3, <1>6
  <2>2. f[k - 1] \in G[k - 1]
      BY <1>3, <2>1
  <2> QED
      BY <1>3, <1>4, <1>6, <2>1, <2>2
<1> QED
    BY <1>5, <1>6

\* Over the records they share, two loops agree.
LEMMA LoopsAgree ==
    ASSUME NEW m, NEW j, NEW h, NEW n \in Nat, NEW p \in Nat, n <= p,
           NEW f, Loop(f, m, j, n), NEW g, Loop(g, m, h, p),
           \A i \in 1 .. n : j[i] = h[i]
    PROVE  \A i \in 0 .. n : f[i] = g[i]
<1> DEFINE Differ == {i \in 0 .. n : f[i] # g[i]}
<1> SUFFICES ASSUME Differ # {} PROVE FALSE
    OBVIOUS
<1>0. Differ \subseteq Nat
    OBVIOUS
<1>1. PICK k \in Differ : \A l \in Differ : k <= l
  <2> HIDE DEF Differ
  <2> QED
      BY <1>0, LeastNumber
<1>2. /\ f[k] = IF k = 0 THEN Loaded(m) ELSE Replayed(f[k - 1], j[k], m.max_sequence)
      /\ g[k] = IF k = 0 THEN Loaded(m) ELSE Replayed(g[k - 1], h[k], m.max_sequence)
    BY <1>1 DEF Loop
<1>3. k # 0 => f[k - 1] = g[k - 1]
    BY <1>1
<1> QED
    BY <1>1, <1>2, <1>3

\* No records.
LEMMA LoadEmpty ==
    ASSUME NEW m
    PROVE  LoadJournal(m, <<>>) = Loaded(m)
BY LoadIsLoop DEF Loop

\* One record more is one more turn of the loop.
LEMMA LoadAppend ==
    ASSUME NEW m, NEW S, NEW j \in Seq(S), NEW r
    PROVE  LoadJournal(m, Append(j, r)) = Replayed(LoadJournal(m, j), r, m.max_sequence)
<1> DEFINE h == Append(j, r)
<1>1. /\ Len(j) \in Nat /\ Len(h) = Len(j) + 1
      /\ h[Len(j) + 1] = r
      /\ \A i \in 1 .. Len(j) : h[i] = j[i]
  <2>1. j \in Seq(S \cup {r})
      OBVIOUS
  <2> QED
      BY <2>1
<1> HIDE DEF h
<1>2. PICK f : Loop(f, m, j, Len(j)) /\ LoadJournal(m, j) = f[Len(j)]
    BY <1>1, LoadIsLoop
<1>3. PICK g : Loop(g, m, h, Len(h)) /\ LoadJournal(m, h) = g[Len(h)]
    BY <1>1, LoadIsLoop
<1>4. f[Len(j)] = g[Len(j)]
  <2>1. \A i \in 0 .. Len(j) : f[i] = g[i]
    <3> DEFINE n == Len(j)
               p == Len(h)
    <3>1. /\ n \in Nat /\ p \in Nat /\ n <= p
          /\ Loop(f, m, j, n) /\ Loop(g, m, h, p)
          /\ \A i \in 1 .. n : j[i] = h[i]
        BY <1>1, <1>2, <1>3
    <3> HIDE DEF n, p
    <3>2. \A i \in 0 .. n : f[i] = g[i]
        BY <3>1, LoopsAgree
    <3> QED
        BY <3>2 DEF n
  <2> QED
      BY <1>1, <2>1
<1>5. g[Len(h)] = Replayed(g[Len(j)], r, m.max_sequence)
    BY <1>1, <1>3 DEF Loop
<1>6. LoadJournal(m, h) = Replayed(LoadJournal(m, j), r, m.max_sequence)
    BY <1>2, <1>3, <1>4, <1>5
<1> QED
    BY <1>6 DEF h

-----------------------------------------------------------------------------
(* Types.  A placement's generation is at most its identity: that is why the *)
(* numbers CommitPlacement makes up stay in their range.                     *)

MemType ==
    [placements : SUBSET PlacementRecord, latest : [Flows -> PlacementRecord \cup {NoPlacement}],
     attempts : [Attempts -> AttemptRecord], next_placement_id : 1 .. MaxPlacements + 1,
     max_sequence : Sequence, retired : SUBSET Attempts]
SnapshotType ==
    [latest : [Flows -> PlacementRecord \cup {NoPlacement}],
     attempts : [Attempts -> AttemptRecord], next_placement_id : 1 .. MaxPlacements + 1,
     max_sequence : Sequence, retired : SUBSET Attempts]

Numbered(latest, next) ==
    \A f \in Flows : latest[f] # NoPlacement =>
        latest[f].generation <= latest[f].id /\ latest[f].id < next

Image == {m \in MemType : Numbered(m.latest, m.next_placement_id)}
SnapshotImage == {s \in SnapshotType : Numbered(s.latest, s.next_placement_id)}
PlacedRecord == {r \in PlacementRecord : r.generation <= r.id}
AttemptEntry ==
    [kind : {"attempt"}, sequence : Sequence, attempt : Attempts, phase : Phase \ {"none"}]
MarkerEntry == [kind : {"reset"}, sequence : Sequence, covered : Sequence]
WholeRecord == PlacedRecord \cup AttemptEntry \cup MarkerEntry
LoadState == [status : {"ok", "marker", "gap", "restarted"}, mem : Image]

TypeInv ==
    /\ mode \in Up \cup {"down", "refused"}
    /\ fileOpen \in BOOLEAN /\ appendFailed \in BOOLEAN
    /\ journal \in Seq(WholeRecord \cup {Torn})
    /\ ledger \in Seq(PlacedRecord)
    /\ mem \in Image /\ snapshot \in SnapshotImage
    /\ journalRecords \in Nat
    /\ admitted \subseteq Attempts
    /\ ends \in Nat /\ faults \in Nat /\ ends + faults <= MaxMishaps

\* What a record is, from its kind; none of them is torn.
LEMMA RecordKinds ==
    ASSUME NEW r \in WholeRecord
    PROVE  /\ r.kind = "placement" => r \in PlacedRecord
           /\ r.kind = "attempt" => r \in AttemptEntry
           /\ r.kind = "reset" => r \in MarkerEntry
           /\ r.kind \in {"placement", "attempt", "reset"}
           /\ r.sequence \in Sequence
           /\ r # Torn
BY DEF WholeRecord, PlacedRecord, PlacementRecord, AttemptEntry, MarkerEntry, Torn

\* A placement replaces the latest one of its flow.
LEMMA PlacementAppliedImage ==
    ASSUME StoreAssumption, NEW m \in Image, NEW r \in PlacedRecord
    PROVE  /\ PlacementApplied(m, r) \in Image
           /\ PlacementApplied(m, r).placements = m.placements \cup {r}
           /\ PlacementApplied(m, r).latest = [m.latest EXCEPT ![FlowOf[r.attempt]] = r]
           /\ PlacementApplied(m, r).attempts = m.attempts
           /\ PlacementApplied(m, r).next_placement_id =
                 IF r.id >= m.next_placement_id THEN r.id + 1 ELSE m.next_placement_id
           /\ PlacementApplied(m, r).max_sequence = r.sequence
           /\ PlacementApplied(m, r).retired = m.retired
<1> DEFINE n == PlacementApplied(m, r)
<1>1. /\ n.placements = m.placements \cup {r}
      /\ n.latest = [m.latest EXCEPT ![FlowOf[r.attempt]] = r]
      /\ n.attempts = m.attempts
      /\ n.next_placement_id = IF r.id >= m.next_placement_id THEN r.id + 1 ELSE m.next_placement_id
      /\ n.max_sequence = r.sequence
      /\ n.retired = m.retired
      /\ n = [placements |-> n.placements, latest |-> n.latest, attempts |-> n.attempts,
              next_placement_id |-> n.next_placement_id, max_sequence |-> n.max_sequence,
              retired |-> n.retired]
  <2> DEFINE l == [m.latest EXCEPT ![FlowOf[r.attempt]] = r]
             p == m.placements \cup {r}
             x == IF r.id >= m.next_placement_id THEN r.id + 1 ELSE m.next_placement_id
  <2>1. n = [m EXCEPT !.placements = p, !.latest = l, !.next_placement_id = x,
                      !.max_sequence = r.sequence]
      BY DEF PlacementApplied, Image, MemType
  <2>2. m \in [placements : {m.placements}, latest : {m.latest}, attempts : {m.attempts},
               next_placement_id : {m.next_placement_id}, max_sequence : {m.max_sequence},
               retired : {m.retired}]
      BY DEF Image, MemType
  <2> HIDE DEF n, l, p, x
  <2>3. /\ n.placements = p /\ n.latest = l /\ n.attempts = m.attempts
        /\ n.next_placement_id = x /\ n.max_sequence = r.sequence /\ n.retired = m.retired
        /\ n = [placements |-> n.placements, latest |-> n.latest, attempts |-> n.attempts,
                next_placement_id |-> n.next_placement_id, max_sequence |-> n.max_sequence,
                retired |-> n.retired]
      BY <2>1, <2>2
  <2> QED
      BY <2>3 DEF l, p, x
<1>2. /\ r.attempt \in Attempts /\ FlowOf[r.attempt] \in Flows /\ r.sequence \in Sequence
      /\ r.id \in 1 .. MaxPlacements /\ r.generation \in 1 .. MaxPlacements /\ r.generation <= r.id
      /\ r \in PlacementRecord /\ MaxPlacements \in Nat
    BY DEF PlacedRecord, PlacementRecord, StoreAssumption
<1> HIDE DEF n
<1>3. n \in MemType
  <2>1. /\ m.placements \subseteq PlacementRecord /\ m.attempts \in [Attempts -> AttemptRecord]
        /\ m.latest \in [Flows -> PlacementRecord \cup {NoPlacement}]
        /\ m.next_placement_id \in 1 .. MaxPlacements + 1 /\ m.retired \subseteq Attempts
      BY DEF Image, MemType
  <2>2. n.latest \in [Flows -> PlacementRecord \cup {NoPlacement}]
      BY <1>1, <1>2, <2>1
  <2>3. n.next_placement_id \in 1 .. MaxPlacements + 1
      BY <1>1, <1>2, <2>1
  <2>4. n.placements \in SUBSET PlacementRecord /\ n.attempts \in [Attempts -> AttemptRecord]
        /\ n.max_sequence \in Sequence /\ n.retired \in SUBSET Attempts
      BY <1>1, <1>2, <2>1
  <2> HIDE DEF n
  <2> QED
      BY <1>1, <2>2, <2>3, <2>4 DEF MemType
<1>4. Numbered(n.latest, n.next_placement_id)
  <2> SUFFICES ASSUME NEW f \in Flows, n.latest[f] # NoPlacement
               PROVE  n.latest[f].generation <= n.latest[f].id /\ n.latest[f].id < n.next_placement_id
      BY DEF Numbered
  <2>1. m.next_placement_id \in Nat /\ m.latest \in [Flows -> PlacementRecord \cup {NoPlacement}]
        /\ Numbered(m.latest, m.next_placement_id)
      BY DEF Image, MemType
  <2>2. CASE f = FlowOf[r.attempt]
      BY <1>1, <1>2, <2>1, <2>2
  <2>3. CASE f # FlowOf[r.attempt]
    <3>1. n.latest[f] = m.latest[f] /\ m.latest[f] \in PlacementRecord
        BY <1>1, <1>2, <2>1, <2>3
    <3>2. m.latest[f].generation <= m.latest[f].id /\ m.latest[f].id < m.next_placement_id
          /\ m.latest[f].id \in Nat
        BY <2>1, <3>1 DEF Numbered, PlacementRecord
    <3> QED
        BY <1>1, <1>2, <2>1, <3>1, <3>2
  <2> QED
      BY <2>2, <2>3
<1> QED
    BY <1>1, <1>3, <1>4 DEF n, Image

\* An attempt record only touches the attempts and the last sequence.
LEMMA AttemptAppliedImage ==
    ASSUME StoreAssumption, NEW m \in Image, NEW r \in AttemptEntry
    PROVE  /\ AttemptApplied(m, r) \in Image
           /\ AttemptApplied(m, r) =
                 [m EXCEPT !.attempts = [m.attempts EXCEPT ![r.attempt] =
                                            [phase |-> r.phase, sequence |-> r.sequence]],
                           !.max_sequence = r.sequence]
<1> DEFINE a == [m.attempts EXCEPT ![r.attempt] = [phase |-> r.phase, sequence |-> r.sequence]]
<1>1. AttemptApplied(m, r) = [m EXCEPT !.attempts = a, !.max_sequence = r.sequence]
    BY DEF AttemptApplied, Image, MemType
<1>2. a \in [Attempts -> AttemptRecord] /\ r.sequence \in Sequence
    BY DEF Image, MemType, AttemptEntry, AttemptRecord
<1> HIDE DEF a
<1>3. [m EXCEPT !.attempts = a, !.max_sequence = r.sequence] \in Image
    BY <1>2 DEF Image, MemType
<1> QED
    BY <1>1, <1>3 DEF a

\* The sequence alone.
LEMMA SequenceAppliedImage ==
    ASSUME NEW m \in Image, NEW q \in Sequence
    PROVE  [m EXCEPT !.max_sequence = q] \in Image
BY DEF Image, MemType

\* One turn of LoadJournal's loop.
LEMMA ReplayedState ==
    ASSUME StoreAssumption, NEW s \in LoadState, NEW r \in WholeRecord, NEW c
    PROVE  Replayed(s, r, c) \in LoadState
<1>1. s.mem \in Image /\ s.status \in {"ok", "marker", "gap", "restarted"}
    BY DEF LoadState
<1>2. ASSUME NEW m \in Image
      PROVE  [s EXCEPT !.mem = m] \in LoadState
    BY DEF LoadState
<1>3. ASSUME NEW x \in {"ok", "marker", "gap", "restarted"}
      PROVE  [s EXCEPT !.status = x] \in LoadState
    BY DEF LoadState
<1>4. r.kind = "reset" => MarkerApplied(s.mem, r) \in Image
    BY <1>1, RecordKinds, SequenceAppliedImage DEF MarkerApplied
<1>5. r.kind # "reset" => Applied(s.mem, r) \in Image
    BY <1>1, RecordKinds, PlacementAppliedImage, AttemptAppliedImage DEF Applied
<1> QED
    BY <1>1, <1>2, <1>3, <1>4, <1>5 DEF Replayed

\* LoadSnapshot.
LEMMA LoadSnapshotImage ==
    ASSUME NEW s \in SnapshotImage
    PROVE  LoadSnapshot(s) \in Image
<1>1. {s.latest[f] : f \in Flows} \ {NoPlacement} \subseteq PlacementRecord
    BY DEF SnapshotImage, SnapshotType
<1> QED
    BY <1>1 DEF LoadSnapshot, SnapshotImage, SnapshotType, Image, MemType

\* LoadJournal.
LEMMA LoadJournalState ==
    ASSUME StoreAssumption, NEW m \in Image, NEW j \in Seq(WholeRecord)
    PROVE  LoadJournal(m, j) \in LoadState
<1> DEFINE G == [i \in 0 .. Len(j) |-> LoadState]
<1>1. Loaded(m) \in LoadState
    BY DEF Loaded, LoadState
<1>2. \A i \in 1 .. Len(j) : \A s \in LoadState : Replayed(s, j[i], m.max_sequence) \in LoadState
    BY ReplayedState
<1>3. Len(j) \in Nat /\ \A i \in 0 .. Len(j) : G[i] = LoadState
    OBVIOUS
<1>4. \A i \in 1 .. Len(j) : i - 1 \in 0 .. Len(j) /\ i \in 0 .. Len(j)
    BY <1>3
<1> HIDE DEF G
<1>5. LoadJournal(m, j) \in G[Len(j)]
  <2>1. Loaded(m) \in G[0]
      BY <1>1, <1>3
  <2>2. \A i \in 1 .. Len(j) : \A s \in G[i - 1] : Replayed(s, j[i], m.max_sequence) \in G[i]
      BY <1>2, <1>3, <1>4
  <2> QED
      BY <1>3, <2>1, <2>2, LoadInduction
<1> QED
    BY <1>3, <1>5

\* The recovery accounting only turns started attempts into committed ones.
LEMMA AccountedImage ==
    ASSUME NEW m \in Image
    PROVE  /\ Accounted(m) \in Image
           /\ Accounted(m) = [m EXCEPT !.attempts = Accounted(m).attempts]
<1> DEFINE at == [a \in Attempts |->
        IF m.attempts[a].phase = "started" /\ Committed(m, a)
        THEN [m.attempts[a] EXCEPT !.phase = "committed"] ELSE m.attempts[a]]
<1>1. at \in [Attempts -> AttemptRecord]
    BY DEF Image, MemType, AttemptRecord, Phase
<1>2. Accounted(m) = [m EXCEPT !.attempts = at]
    BY DEF Accounted, Image, MemType
<1> HIDE DEF at
<1> QED
    BY <1>1, <1>2 DEF Image, MemType

\* The records of a journal that can be replayed.
LEMMA IntactRecords ==
    ASSUME NEW j \in Seq(WholeRecord \cup {Torn})
    PROVE  IntactPrefix(j) \in Seq(WholeRecord)
<1> DEFINE p == IntactPrefix(j)
<1>1. /\ p \in Seq(WholeRecord \cup {Torn})
      /\ \A i \in 1 .. Len(p) : p[i] # Torn
    BY IntactFacts
<1> HIDE DEF p
<1>2. \A i \in 1 .. Len(p) : p[i] \in WholeRecord
    BY <1>1
<1> QED
    BY <1>1, <1>2, SeqDef, LenProperties DEF p

\* What the two files are read as.
LoadedFiles(s, j) == LoadJournal(LoadSnapshot(s), IntactPrefix(j))

LEMMA LoadedFilesState ==
    ASSUME StoreAssumption, NEW s \in SnapshotImage, NEW j \in Seq(WholeRecord \cup {Torn})
    PROVE  /\ LoadedFiles(s, j) \in LoadState
           /\ Recovery(s, j).mem \in Image
           /\ Recovery(s, j).mem = Accounted(LoadedFiles(s, j).mem)
           /\ Recovery(s, j).status = "ok" => LoadedFiles(s, j).status = "ok"
<1>1. LoadedFiles(s, j) \in LoadState
    BY IntactRecords, LoadSnapshotImage, LoadJournalState DEF LoadedFiles
<1>2. LoadedFiles(s, j).mem \in Image
    BY <1>1 DEF LoadState
<1>3. /\ Recovery(s, j).mem = Accounted(LoadedFiles(s, j).mem)
      /\ Recovery(s, j).status = "ok" => LoadedFiles(s, j).status = "ok"
    BY DEF Recovery, LoadedFiles
<1> QED
    BY <1>1, <1>2, <1>3, AccountedImage

-----------------------------------------------------------------------------
(* Type correctness.                                                         *)

LEMMA EmptyImages == StoreAssumption => EmptyMem \in Image /\ NoSnapshot \in SnapshotImage
BY DEF StoreAssumption, EmptyMem, NoSnapshot, NoAttempt, Image, MemType, SnapshotImage, SnapshotType,
       Numbered, AttemptRecord, Phase, Sequence

LEMMA TypeInit == StoreAssumption /\ Init => TypeInv
<1> SUFFICES ASSUME StoreAssumption, Init PROVE TypeInv
    OBVIOUS
<1>1. journal \in Seq(WholeRecord \cup {Torn}) /\ ledger \in Seq(PlacedRecord)
    BY DEF Init
<1>2. mem \in Image /\ snapshot \in SnapshotImage
    BY EmptyImages DEF Init
<1>3. ends + faults <= MaxMishaps /\ ends \in Nat /\ faults \in Nat /\ journalRecords \in Nat
    BY DEF Init, StoreAssumption
<1> QED
    BY <1>1, <1>2, <1>3 DEF Init, TypeInv

\* The process ends.
LEMMA GoneTyped ==
    ASSUME StoreAssumption, TypeInv, MayEnd, Gone, UNCHANGED <<snapshot, faults, appendFailed>>,
           journal' \in Seq(WholeRecord \cup {Torn}), ledger' \in Seq(PlacedRecord)
    PROVE  TypeInv'
<1>1. mode' = "down" /\ mem' \in Image /\ journalRecords' = 0 /\ admitted' = {}
    BY EmptyImages DEF Gone
<1>2. fileOpen' \in BOOLEAN
    BY DEF Gone
<1>3. ends' \in Nat /\ faults' \in Nat /\ ends' + faults' <= MaxMishaps
    BY DEF MayEnd, TypeInv, StoreAssumption
<1>4. snapshot' \in SnapshotImage /\ appendFailed' \in BOOLEAN
    BY DEF TypeInv
<1> QED
    BY <1>1, <1>2, <1>3, <1>4 DEF TypeInv

\* An append, whatever became of it.
LEMMA AppendTyped ==
    ASSUME StoreAssumption, TypeInv, NEW r \in PlacedRecord \cup AttemptEntry, AppendRecordRaw(r)
    PROVE  TypeInv'
<1>1. r \in WholeRecord /\ r.attempt \in Attempts
    BY DEF WholeRecord, PlacedRecord, PlacementRecord, AttemptEntry
<1>2. \A x \in WholeRecord \cup {Torn} : Append(journal, x) \in Seq(WholeRecord \cup {Torn})
    BY DEF TypeInv
<1>3. LedgerWith(r) \in Seq(PlacedRecord)
    BY <1>1, RecordKinds DEF LedgerWith, TypeInv
<1>4. Applied(mem, r) \in Image
  <2>1. mem \in Image
      BY DEF TypeInv
  <2>2. r.kind = "placement" => r \in PlacedRecord
      BY <1>1, RecordKinds
  <2>3. r.kind # "placement" => r \in AttemptEntry
      BY DEF PlacedRecord, PlacementRecord
  <2> QED
      BY <2>1, <2>2, <2>3, PlacementAppliedImage, AttemptAppliedImage DEF Applied
<1>5. MaxMishaps \in Nat
    BY DEF StoreAssumption
<1>6. CASE Appended(r)
  <2>1. mode' \in {"snapshot", "ready"}
      BY <1>6 DEF Appended
  <2>2. journal' \in Seq(WholeRecord \cup {Torn}) /\ mem' \in Image /\ ledger' \in Seq(PlacedRecord)
      BY <1>1, <1>2, <1>3, <1>4, <1>6 DEF Appended
  <2> QED
      BY <1>1, <1>6, <2>1, <2>2 DEF Appended, TypeInv, Up, Compacting
<1>7. CASE AppendFails(r)
  <2>1. journal' \in Seq(WholeRecord \cup {Torn})
      BY <1>1, <1>2, <1>7 DEF AppendFails, TypeInv
  <2> QED
      BY <1>5, <1>7, <2>1 DEF AppendFails, MayFail, TypeInv
<1>8. CASE AppendCrashes(r)
  <2>1. journal' \in Seq(WholeRecord \cup {Torn})
      BY <1>1, <1>2, <1>8 DEF AppendCrashes
  <2>2. ledger' \in Seq(PlacedRecord)
      BY <1>3, <1>8 DEF AppendCrashes, TypeInv
  <2> QED
      BY <1>8, <2>1, <2>2, GoneTyped DEF AppendCrashes
<1> QED
    BY <1>6, <1>7, <1>8 DEF AppendRecordRaw

\* The records the calls append: within the budget the next sequence is one, and
\* a generation is at most the identity it comes with.
LEMMA AppendedRecords ==
    ASSUME StoreAssumption, TypeInv, WithinBudget, NEW a \in Attempts
    PROVE  /\ \A ph \in Phase \ {"none"} :
                 [kind |-> "attempt", sequence |-> NextSequence, attempt |-> a, phase |-> ph]
                    \in AttemptEntry
           /\ mem.next_placement_id <= MaxPlacements =>
                 [kind |-> "placement", sequence |-> NextSequence, attempt |-> a,
                  id |-> mem.next_placement_id,
                  generation |-> Generation(mem.latest[FlowOf[a]]) + 1] \in PlacedRecord
<1>1. /\ mem.max_sequence \in Sequence /\ mem.next_placement_id \in 1 .. MaxPlacements + 1
      /\ mem.latest \in [Flows -> PlacementRecord \cup {NoPlacement}]
      /\ Numbered(mem.latest, mem.next_placement_id)
    BY DEF TypeInv, Image, MemType
<1>2. NextSequence \in Sequence
    BY <1>1 DEF NextSequence, Sequence, WithinBudget, StoreAssumption
<1>3. FlowOf[a] \in Flows /\ MaxPlacements \in Nat
    BY DEF StoreAssumption
<1>4. Generation(mem.latest[FlowOf[a]]) + 1 \in 1 .. mem.next_placement_id
  <2> DEFINE p == mem.latest[FlowOf[a]]
  <2>1. CASE p = NoPlacement
      BY <1>1, <1>3, <2>1 DEF Generation
  <2>2. CASE p # NoPlacement
    <3>1. p \in PlacementRecord /\ p.generation <= p.id /\ p.id < mem.next_placement_id
        BY <1>1, <1>3, <2>2 DEF Numbered
    <3>2. p.generation \in 1 .. MaxPlacements /\ p.id \in 1 .. MaxPlacements
        BY <3>1 DEF PlacementRecord
    <3> QED
        BY <1>1, <1>3, <2>2, <3>1, <3>2 DEF Generation
  <2> QED
      BY <2>1, <2>2
<1> QED
    BY <1>1, <1>2, <1>3, <1>4 DEF AttemptEntry, PlacedRecord, PlacementRecord

\* The snapshot Compact writes.
LEMMA SnapshotTyped ==
    ASSUME StoreAssumption, TypeInv
    PROVE  SnapshotOfMem \in SnapshotImage
<1> DEFINE kept == [a \in Attempts |-> IF AgedOut(a) THEN NoAttempt ELSE mem.attempts[a]]
           old == mem.retired \cup {a \in Attempts : AgedOut(a)}
<1>1. mem \in MemType /\ Numbered(mem.latest, mem.next_placement_id)
    BY DEF TypeInv, Image
<1>2. kept \in [Attempts -> AttemptRecord] /\ old \subseteq Attempts
    BY <1>1 DEF MemType, NoAttempt, AttemptRecord, Phase, Sequence, StoreAssumption
<1> HIDE DEF kept, old
<1>3. SnapshotOfMem = [latest |-> mem.latest, attempts |-> kept,
                       next_placement_id |-> mem.next_placement_id,
                       max_sequence |-> mem.max_sequence, retired |-> old]
    BY DEF SnapshotOfMem, kept, old
<1> QED
    BY <1>1, <1>2, <1>3 DEF MemType, SnapshotImage, SnapshotType

\* Compact, step by step.
LEMMA CompactTyped ==
    ASSUME StoreAssumption, TypeInv,
           Compact \/ CompactSnapshot \/ CompactJournal \/ CompactMarker
    PROVE  TypeInv'
<1>1. CASE Compact
    BY <1>1 DEF Compact, files, history, TypeInv, Up, Compacting
<1>2. ASSUME CompactFails
      PROVE  mode' = "ready" /\ faults' \in Nat /\ (ends' = ends => ends' + faults' <= MaxMishaps)
    BY <1>2 DEF CompactFails, MayFail, TypeInv, StoreAssumption
<1>3. CASE CompactSnapshot
  <2>1. snapshot' \in SnapshotImage
      BY <1>3, SnapshotTyped DEF CompactSnapshot, TypeInv
  <2>2. mode' \in {"journal", "ready"} /\ faults' \in Nat /\ ends' + faults' <= MaxMishaps
      BY <1>2, <1>3 DEF CompactSnapshot, TypeInv
  <2> QED
      BY <1>3, <2>1, <2>2 DEF CompactSnapshot, TypeInv, Up, Compacting
<1>4. CASE CompactJournal
  <2>1. mode' \in {"marker", "ready"} /\ faults' \in Nat /\ ends' + faults' <= MaxMishaps
      BY <1>2, <1>4 DEF CompactJournal, TypeInv
  <2>2. mem' \in Image
      BY <1>4, SequenceAppliedImage DEF CompactJournal, TypeInv, Sequence, StoreAssumption
  <2>3. journal' \in Seq(WholeRecord \cup {Torn}) /\ journalRecords' \in Nat
    <3>1. journal' \in {journal, <<>>} /\ journalRecords' \in {journalRecords, 0}
        BY <1>4 DEF CompactJournal
    <3> DEFINE Journals == Seq(WholeRecord \cup {Torn})
    <3>2. <<>> \in Journals
        OBVIOUS
    <3>3. journal \in Journals /\ journalRecords \in Nat
        BY DEF TypeInv
    <3> HIDE DEF Journals
    <3>4. journal' \in Journals /\ journalRecords' \in Nat
        BY <3>1, <3>2, <3>3
    <3> QED
        BY <3>4 DEF Journals
  <2>4. fileOpen' \in BOOLEAN
      BY <1>4 DEF CompactJournal
  <2> QED
      BY <1>4, <2>1, <2>2, <2>3, <2>4 DEF CompactJournal, TypeInv, Up, Compacting
<1>5. CASE CompactMarker
  <2>1. ResetMarker \in WholeRecord
    <3>1. snapshot.max_sequence \in Sequence
        BY DEF TypeInv, SnapshotImage, SnapshotType
    <3> QED
        BY <3>1 DEF ResetMarker, WholeRecord, MarkerEntry, Sequence, StoreAssumption
  <2>2. journal' \in Seq(WholeRecord \cup {Torn})
    <3>1. \A x \in WholeRecord \cup {Torn} : Append(journal, x) \in Seq(WholeRecord \cup {Torn})
        BY DEF TypeInv
    <3>2. journal \in Seq(WholeRecord \cup {Torn})
        BY DEF TypeInv
    <3> QED
        BY <1>5, <2>1, <3>1, <3>2 DEF CompactMarker
  <2>3. CASE MayEnd /\ Gone /\ UNCHANGED <<snapshot, faults, ledger, appendFailed>>
      BY <2>2, <2>3, GoneTyped DEF TypeInv
  <2>4. CASE /\ CompactFails /\ appendFailed' = TRUE
             /\ UNCHANGED <<fileOpen, snapshot, mem, journalRecords, admitted, ends, ledger>>
      BY <1>2, <2>2, <2>4 DEF TypeInv, Up
  <2>5. CASE /\ mem' = [mem EXCEPT !.max_sequence = 1] /\ journalRecords' = 0 /\ mode' = "ready"
             /\ UNCHANGED <<fileOpen, snapshot, admitted, history>>
    <3>1. mem' \in Image
      <4>1. 1 \in Sequence /\ mem \in Image
          BY DEF TypeInv, Sequence, StoreAssumption
      <4> QED
          BY <2>5, <4>1, SequenceAppliedImage
    <3> QED
        BY <2>2, <2>5, <3>1 DEF TypeInv, history, Up
  <2> QED
      BY <1>5, <2>3, <2>4, <2>5 DEF CompactMarker
<1> QED
    BY <1>1, <1>3, <1>4, <1>5

\* Open, for any outcome of the recovery.
LEMMA OpenTyped ==
    ASSUME StoreAssumption, TypeInv, Open \/ OpenReadOnly
    PROVE  TypeInv'
<1>1. Recovered.mem \in Image
    BY LoadedFilesState DEF Recovered, TypeInv
<1>2. IntactPrefix(journal) \in Seq(WholeRecord \cup {Torn}) /\ Len(IntactPrefix(journal)) \in Nat
    BY IntactFacts DEF TypeInv
<1>3. CASE Open
  <2>1. mem' \in Image /\ mode' \in {"ready", "refused"} /\ journalRecords' \in Nat
      BY <1>1, <1>2, <1>3 DEF Open, TypeInv
  <2>2. fileOpen' \in BOOLEAN
      BY <1>3 DEF Open, TypeInv
  <2>3. journal' \in Seq(WholeRecord \cup {Torn})
      BY <1>2, <1>3 DEF Open, Repaired, TypeInv
  <2> QED
      BY <1>3, <2>1, <2>2, <2>3 DEF Open, history, TypeInv, Up
<1>4. CASE OpenReadOnly
  <2>1. mem' \in Image /\ mode' \in {"reading", "refused"}
      BY <1>1, <1>4 DEF OpenReadOnly, TypeInv
  <2> QED
      BY <1>4, <2>1 DEF OpenReadOnly, files, history, TypeInv, Up
<1> QED
    BY <1>3, <1>4

LEMMA TypeStep == StoreAssumption /\ TypeInv /\ [Next]_vars => TypeInv'
<1> SUFFICES ASSUME StoreAssumption, TypeInv, [Next]_vars
             PROVE  TypeInv'
    OBVIOUS
<1>1. CASE Open \/ OpenReadOnly
    BY <1>1, OpenTyped
<1>2. ASSUME NEW a \in Attempts, AppendAttemptStart(a)
      PROVE  TypeInv'
  <2>1. WithinBudget
      BY <1>2 DEF AppendAttemptStart, AppendRecordRaw
  <2>2. [kind |-> "attempt", sequence |-> NextSequence, attempt |-> a, phase |-> "started"]
           \in PlacedRecord \cup AttemptEntry
      BY <2>1, AppendedRecords DEF Phase
  <2> QED
      BY <1>2, <2>2, AppendTyped DEF AppendAttemptStart
<1>3. ASSUME NEW a \in Attempts, NEW phase \in {"committed", "declined"},
             AppendAttemptTerminal(a, phase)
      PROVE  TypeInv'
  <2>1. WithinBudget
      BY <1>3 DEF AppendAttemptTerminal, AppendRecordRaw
  <2>2. [kind |-> "attempt", sequence |-> NextSequence, attempt |-> a, phase |-> phase]
           \in PlacedRecord \cup AttemptEntry
      BY <2>1, AppendedRecords DEF Phase
  <2> QED
      BY <1>3, <2>2, AppendTyped DEF AppendAttemptTerminal
<1>4. ASSUME NEW a \in Attempts, CommitPlacement(a)
      PROVE  TypeInv'
  <2>1. WithinBudget /\ mem.next_placement_id <= MaxPlacements
      BY <1>4 DEF CommitPlacement, AppendRecordRaw
  <2>2. [kind |-> "placement", sequence |-> NextSequence, attempt |-> a,
         id |-> mem.next_placement_id,
         generation |-> Generation(mem.latest[FlowOf[a]]) + 1] \in PlacedRecord \cup AttemptEntry
      BY <2>1, AppendedRecords
  <2> QED
      BY <1>4, <2>2, AppendTyped DEF CommitPlacement
<1>5. CASE Compact \/ CompactSnapshot \/ CompactJournal \/ CompactMarker
    BY <1>5, CompactTyped
<1>6. CASE Crash \/ Close
  <2>1. MayEnd /\ Gone /\ UNCHANGED <<snapshot, journal, faults, ledger, appendFailed>>
      BY <1>6 DEF Crash, Close, files
  <2> QED
      BY <2>1, GoneTyped DEF TypeInv
<1>7. CASE UNCHANGED vars
    BY <1>7 DEF vars, files, history, TypeInv
<1> QED
    BY <1>1, <1>2, <1>3, <1>4, <1>5, <1>6, <1>7 DEF Next

LEMMA TypeInvHolds == Spec => []TypeInv
BY StoreAssumption, TypeInit, TypeStep, PTL DEF Spec

\* Type correctness of the store: sequences stay within the record budget, and
\* identities and generations within the number of placements, whatever a crash
\* or a failed write left in the files.
THEOREM StoreTypeCorrect == Spec => []TypeOK
<1>1. TypeInv => TypeOK
  <2> SUFFICES ASSUME TypeInv PROVE TypeOK
      OBVIOUS
  <2>1. WholeRecord \cup {Torn} \subseteq JournalRecord /\ PlacedRecord \subseteq PlacementRecord
      BY DEF WholeRecord, PlacedRecord, AttemptEntry, MarkerEntry, JournalRecord, Torn
  <2>2. \A S, T : S \subseteq T => Seq(S) \subseteq Seq(T)
      BY SeqDef
  <2>3. journal \in Seq(JournalRecord) /\ ledger \in Seq(PlacementRecord)
      BY <2>1, <2>2 DEF TypeInv
  <2>4. mem \in MemType /\ snapshot \in SnapshotType
      BY DEF TypeInv, Image, SnapshotImage
  <2> QED
      BY <2>3, <2>4 DEF TypeInv, TypeOK, MemType, SnapshotType
<1> QED
    BY <1>1, TypeInvHolds, PTL

-----------------------------------------------------------------------------
(* The ledger: the last placement of a flow, and the numbers.                *)

PlacedIn(l, f) == {i \in 1 .. Len(l) : FlowOf[l[i].attempt] = f}
LastOf(l, f) ==
    IF PlacedIn(l, f) = {} THEN NoPlacement
    ELSE l[CHOOSE i \in PlacedIn(l, f) : \A k \in PlacedIn(l, f) : k <= i]
NumbersOK(l) ==
    \A i \in 1 .. Len(l) :
        /\ \A k \in 1 .. i - 1 : l[k].id < l[i].id
        /\ l[i].generation = Cardinality({k \in PlacedIn(l, FlowOf[l[i].attempt]) : k <= i})

\* The last of some positions.
LEMMA GreatestPosition ==
    ASSUME NEW n \in Nat, NEW T, T \subseteq 1 .. n, T # {}
    PROVE  \E i \in T : \A k \in T : k <= i
<1> DEFINE Above == {m \in Nat : \A k \in T : k <= m}
<1>1. n \in Above /\ Above \subseteq Nat
    OBVIOUS
<1>2. PICK m \in Above : \A l \in Above : m <= l
  <2> HIDE DEF Above
  <2> QED
      BY <1>1, LeastNumber
<1>3. m \in Nat /\ \A k \in T : k <= m
    BY <1>2
<1>4. m \in T
  <2> SUFFICES ASSUME m \notin T PROVE FALSE
      OBVIOUS
  <2>1. m # 0
    <3>1. PICK k \in T : k \in 1 .. n
        OBVIOUS
    <3> QED
        BY <1>3, <3>1
  <2>2. m - 1 \in Nat /\ \A k \in T : k <= m - 1
      BY <1>3, <2>1
  <2>3. m <= m - 1
      BY <1>2, <2>2
  <2> QED
      BY <1>3, <2>3
<1> QED
    BY <1>3, <1>4

\* The last placement of a flow is at one position, and no later one is its.
LEMMA LastPosition ==
    ASSUME NEW l \in Seq(PlacedRecord), NEW f, PlacedIn(l, f) # {}
    PROVE  \E i \in PlacedIn(l, f) : LastOf(l, f) = l[i] /\ \A k \in PlacedIn(l, f) : k <= i
<1>1. Len(l) \in Nat /\ PlacedIn(l, f) \subseteq 1 .. Len(l)
    BY DEF PlacedIn
<1>2. \E i \in PlacedIn(l, f) : \A k \in PlacedIn(l, f) : k <= i
    BY <1>1, GreatestPosition
<1> DEFINE i == CHOOSE i \in PlacedIn(l, f) : \A k \in PlacedIn(l, f) : k <= i
<1>3. i \in PlacedIn(l, f) /\ \A k \in PlacedIn(l, f) : k <= i
    BY <1>2
<1>4. LastOf(l, f) = l[i]
    BY DEF LastOf
<1> QED
    BY <1>3, <1>4

\* One more placement.
LEMMA PlacedAppend ==
    ASSUME NEW l \in Seq(PlacedRecord), NEW r \in PlacedRecord, NEW f
    PROVE  PlacedIn(Append(l, r), f) =
              PlacedIn(l, f) \cup (IF FlowOf[r.attempt] = f THEN {Len(l) + 1} ELSE {})
<1>1. /\ Len(l) \in Nat /\ Len(Append(l, r)) = Len(l) + 1 /\ Append(l, r)[Len(l) + 1] = r
      /\ \A i \in 1 .. Len(l) : Append(l, r)[i] = l[i]
    OBVIOUS
<1>2. 1 .. Len(l) + 1 = (1 .. Len(l)) \cup {Len(l) + 1}
    BY <1>1
<1> QED
    BY <1>1, <1>2 DEF PlacedIn

LEMMA LastAppend ==
    ASSUME NEW l \in Seq(PlacedRecord), NEW r \in PlacedRecord, NEW f
    PROVE  LastOf(Append(l, r), f) = IF FlowOf[r.attempt] = f THEN r ELSE LastOf(l, f)
<1> DEFINE h == Append(l, r)
<1>1. /\ Len(l) \in Nat /\ Len(h) = Len(l) + 1 /\ h[Len(l) + 1] = r /\ h \in Seq(PlacedRecord)
      /\ \A i \in 1 .. Len(l) : h[i] = l[i]
    OBVIOUS
<1>2. PlacedIn(l, f) \subseteq 1 .. Len(l)
    BY DEF PlacedIn
<1>3. PlacedIn(h, f) = PlacedIn(l, f) \cup (IF FlowOf[r.attempt] = f THEN {Len(l) + 1} ELSE {})
    BY PlacedAppend
<1> HIDE DEF h
<1>4. CASE FlowOf[r.attempt] = f
  <2>1. PICK i \in PlacedIn(h, f) : LastOf(h, f) = h[i] /\ \A k \in PlacedIn(h, f) : k <= i
      BY <1>1, <1>3, <1>4, LastPosition
  <2>2. i = Len(l) + 1
    <3>1. i \in 1 .. Len(l) + 1 /\ Len(l) + 1 <= i
        BY <1>1, <1>2, <1>3, <1>4, <2>1
    <3> QED
        BY <1>1, <3>1
  <2> QED
      BY <1>1, <1>4, <2>1, <2>2 DEF h
<1>5. CASE FlowOf[r.attempt] # f
  <2>1. PlacedIn(h, f) = PlacedIn(l, f)
      BY <1>3, <1>5
  <2>2. CASE PlacedIn(l, f) = {}
      BY <1>5, <2>1, <2>2 DEF LastOf, h
  <2>3. CASE PlacedIn(l, f) # {}
    <3>1. PICK i \in PlacedIn(h, f) : LastOf(h, f) = h[i] /\ \A k \in PlacedIn(h, f) : k <= i
        BY <1>1, <2>1, <2>3, LastPosition
    <3>2. PICK n \in PlacedIn(l, f) : LastOf(l, f) = l[n] /\ \A k \in PlacedIn(l, f) : k <= n
        BY <2>3, LastPosition
    <3>3. i \in 1 .. Len(l) /\ n \in 1 .. Len(l) /\ i <= n /\ n <= i
        BY <1>2, <2>1, <3>1, <3>2
    <3>4. i = n
        BY <3>3
    <3> QED
        BY <1>1, <1>5, <3>1, <3>2, <3>3, <3>4 DEF h
  <2> QED
      BY <2>2, <2>3
<1> QED
    BY <1>4, <1>5

\* The generation of the last placement is how often the flow was placed.
LEMMA LastGeneration ==
    ASSUME NEW l \in Seq(PlacedRecord), NumbersOK(l), NEW f
    PROVE  /\ IsFiniteSet(PlacedIn(l, f))
           /\ Generation(LastOf(l, f)) = Cardinality(PlacedIn(l, f))
<1>1. Len(l) \in Nat /\ PlacedIn(l, f) \subseteq 1 .. Len(l)
    BY DEF PlacedIn
<1>2. IsFiniteSet(PlacedIn(l, f))
  <2>1. IsFiniteSet(1 .. Len(l))
      BY <1>1, FS_Interval
  <2> QED
      BY <1>1, <2>1, FS_Subset
<1>3. CASE PlacedIn(l, f) = {}
    BY <1>2, <1>3, FS_EmptySet DEF LastOf, Generation
<1>4. CASE PlacedIn(l, f) # {}
  <2>1. PICK i \in PlacedIn(l, f) : LastOf(l, f) = l[i] /\ \A k \in PlacedIn(l, f) : k <= i
      BY <1>4, LastPosition
  <2>2. i \in 1 .. Len(l) /\ FlowOf[l[i].attempt] = f
      BY <2>1 DEF PlacedIn
  <2>3. {k \in PlacedIn(l, f) : k <= i} = PlacedIn(l, f)
      BY <2>1
  <2>4. l[i].generation = Cardinality(PlacedIn(l, f))
      BY <2>2, <2>3 DEF NumbersOK
  <2>5. l[i] # NoPlacement
      BY <2>2, NoPlacementAssumption DEF PlacedRecord
  <2> QED
      BY <1>2, <2>1, <2>4, <2>5 DEF Generation
<1> QED
    BY <1>3, <1>4

\* A placement with the next identity and the next generation of its flow.
LEMMA NumbersAppend ==
    ASSUME NEW l \in Seq(PlacedRecord), NumbersOK(l), NEW r \in PlacedRecord,
           \A i \in 1 .. Len(l) : l[i].id < r.id,
           r.generation = Generation(LastOf(l, FlowOf[r.attempt])) + 1
    PROVE  NumbersOK(Append(l, r))
<1> DEFINE h == Append(l, r)
<1>1. /\ Len(l) \in Nat /\ Len(h) = Len(l) + 1 /\ h[Len(l) + 1] = r
      /\ \A i \in 1 .. Len(l) : h[i] = l[i]
    OBVIOUS
<1>2. \A f : PlacedIn(h, f) = PlacedIn(l, f) \cup (IF FlowOf[r.attempt] = f THEN {Len(l) + 1} ELSE {})
    BY PlacedAppend
<1>3. \A f : PlacedIn(l, f) \subseteq 1 .. Len(l)
    BY DEF PlacedIn
<1> HIDE DEF h
<1> SUFFICES ASSUME NEW i \in 1 .. Len(h)
             PROVE  /\ \A k \in 1 .. i - 1 : h[k].id < h[i].id
                    /\ h[i].generation = Cardinality({k \in PlacedIn(h, FlowOf[h[i].attempt]) : k <= i})
    BY DEF NumbersOK, h
<1>4. CASE i # Len(l) + 1
  <2>1. i \in 1 .. Len(l) /\ h[i] = l[i] /\ \A k \in 1 .. i - 1 : k \in 1 .. Len(l) /\ h[k] = l[k]
      BY <1>1, <1>4
  <2> DEFINE f == FlowOf[l[i].attempt]
  <2>2. {k \in PlacedIn(h, f) : k <= i} = {k \in PlacedIn(l, f) : k <= i}
      BY <1>1, <1>2, <2>1
  <2> QED
      BY <2>1, <2>2 DEF NumbersOK
<1>5. CASE i = Len(l) + 1
  <2>1. \A k \in 1 .. i - 1 : h[k].id < h[i].id
      BY <1>1, <1>5
  <2> DEFINE f == FlowOf[r.attempt]
  <2>2. {k \in PlacedIn(h, f) : k <= i} = PlacedIn(l, f) \cup {Len(l) + 1}
      BY <1>1, <1>2, <1>3, <1>5
  <2>3. Len(l) + 1 \notin PlacedIn(l, f)
      BY <1>1, <1>3
  <2>4. Cardinality(PlacedIn(l, f) \cup {Len(l) + 1}) = Cardinality(PlacedIn(l, f)) + 1
      BY <2>3, LastGeneration, FS_AddElement
  <2>5. r.generation = Cardinality(PlacedIn(l, f)) + 1
      BY LastGeneration
  <2> QED
      BY <1>1, <1>5, <2>1, <2>2, <2>4, <2>5
<1> QED
    BY <1>4, <1>5

-----------------------------------------------------------------------------
(* Recovery.  As long as no append has failed, the two files always say what *)
(* has been written, whatever step of whatever call the process stops after. *)
(* s is a snapshot, p the intact records of a journal, l the ledger.         *)

\* The sequence that an append continues.
LastSequence(s, p) == IF p = <<>> THEN s.max_sequence ELSE p[Len(p)].sequence
Marked(p) == p # <<>> /\ p[1].kind = "reset"
Places(r, f) == r.kind = "placement" /\ FlowOf[r.attempt] = f

\* A marker comes first, the sequences have no hole, and the snapshot covers a
\* beginning of a journal without a marker.
SequenceOK(s, p) ==
    /\ \A i \in 2 .. Len(p) : p[i].kind # "reset" /\ p[i].sequence = p[i - 1].sequence + 1
    /\ Marked(p) => p[1].sequence = 1
    /\ ~Marked(p) /\ p # <<>> =>
          p[1].sequence <= s.max_sequence + 1 /\ s.max_sequence <= p[Len(p)].sequence
\* The last placement of a flow in the journal is the last one ever.
LastOK(p, l) ==
    \A i \in 1 .. Len(p) : \A f \in Flows :
        Places(p[i], f) /\ (\A k \in i + 1 .. Len(p) : ~Places(p[k], f)) => p[i] = LastOf(l, f)
\* An image that knows of every placement.
UpToDate(m, l) ==
    /\ \A f \in Flows : m.latest[f] = LastOf(l, f)
    /\ \A i \in 1 .. Len(l) : l[i].id < m.next_placement_id
\* What LoadJournal makes of the files, when it accepts them.
ReplayOK(s, p, l) ==
    LET R == LoadJournal(LoadSnapshot(s), p)
    IN  /\ R.status # "gap"
        /\ R.status = "ok" => UpToDate(R.mem, l) /\ R.mem.max_sequence = LastSequence(s, p)

FilesOK(s, p, l) == SequenceOK(s, p) /\ LastOK(p, l) /\ ReplayOK(s, p, l) /\ NumbersOK(l)

LedgerAfter(l, r) == IF r.kind = "placement" THEN Append(l, r) ELSE l

\* What the snapshot says is what LoadSnapshot hands on.
LEMMA LoadSnapshotFields ==
    ASSUME NEW s
    PROVE  /\ LoadSnapshot(s).latest = s.latest
           /\ LoadSnapshot(s).next_placement_id = s.next_placement_id
           /\ LoadSnapshot(s).max_sequence = s.max_sequence
BY DEF LoadSnapshot

\* What one record does to an image that was up to date.
LEMMA AppliedUpToDate ==
    ASSUME StoreAssumption, NEW l \in Seq(PlacedRecord), NEW m \in Image, UpToDate(m, l),
           NEW r \in PlacedRecord \cup AttemptEntry
    PROVE  UpToDate(Applied(m, r), LedgerAfter(l, r)) /\ Applied(m, r).max_sequence = r.sequence
<1>1. m.next_placement_id \in Nat /\ m.latest \in [Flows -> PlacementRecord \cup {NoPlacement}]
    BY DEF Image, MemType
<1>2. CASE r \in PlacedRecord
  <2>1. r.kind = "placement" /\ r.id \in Nat /\ r.attempt \in Attempts
      BY <1>2 DEF PlacedRecord, PlacementRecord
  <2> DEFINE n == PlacementApplied(m, r)
  <2>2. /\ n.latest = [m.latest EXCEPT ![FlowOf[r.attempt]] = r]
        /\ n.next_placement_id = IF r.id >= m.next_placement_id THEN r.id + 1 ELSE m.next_placement_id
        /\ n.max_sequence = r.sequence
      BY <1>2, PlacementAppliedImage
  <2> HIDE DEF n
  <2>3. ASSUME NEW f \in Flows PROVE n.latest[f] = LastOf(Append(l, r), f)
    <3>1. LastOf(Append(l, r), f) = IF FlowOf[r.attempt] = f THEN r ELSE LastOf(l, f)
        BY <1>2, LastAppend
    <3>2. m.latest[f] = LastOf(l, f)
        BY DEF UpToDate
    <3> QED
        BY <1>1, <2>2, <3>1, <3>2
  <2>4. ASSUME NEW i \in 1 .. Len(Append(l, r)) PROVE Append(l, r)[i].id < n.next_placement_id
    <3>1. CASE i = Len(l) + 1
        BY <1>1, <1>2, <2>1, <2>2, <3>1
    <3>2. CASE i # Len(l) + 1
      <4>1. i \in 1 .. Len(l) /\ Append(l, r)[i] = l[i] /\ l[i] \in PlacedRecord
          BY <1>2, <3>2
      <4>2. l[i].id \in Nat /\ l[i].id < m.next_placement_id
          BY <4>1 DEF PlacedRecord, PlacementRecord, UpToDate
      <4> QED
          BY <1>1, <2>1, <2>2, <4>1, <4>2
    <3> QED
        BY <3>1, <3>2
  <2> QED
      BY <2>1, <2>2, <2>3, <2>4 DEF n, Applied, LedgerAfter, UpToDate
<1>3. CASE r \in AttemptEntry
  <2>1. r.kind = "attempt"
      BY <1>3 DEF AttemptEntry
  <2>2. AttemptApplied(m, r) =
            [m EXCEPT !.attempts = [m.attempts EXCEPT ![r.attempt] =
                                       [phase |-> r.phase, sequence |-> r.sequence]],
                      !.max_sequence = r.sequence]
      BY <1>3, AttemptAppliedImage
  <2>3. /\ AttemptApplied(m, r).latest = m.latest
        /\ AttemptApplied(m, r).next_placement_id = m.next_placement_id
        /\ AttemptApplied(m, r).max_sequence = r.sequence
      BY <2>2 DEF Image, MemType
  <2> QED
      BY <2>1, <2>3 DEF Applied, LedgerAfter, UpToDate
<1> QED
    BY <1>2, <1>3

\* One more whole record with the next sequence, and with the next numbers if it
\* is a placement, wherever the replay of the files before it ended.
LEMMA FilesAppend ==
    ASSUME StoreAssumption, NEW s \in SnapshotImage, NEW p \in Seq(WholeRecord),
           NEW l \in Seq(PlacedRecord), FilesOK(s, p, l),
           NEW r \in PlacedRecord \cup AttemptEntry, r.sequence = LastSequence(s, p) + 1,
           r.kind = "placement" => /\ \A i \in 1 .. Len(l) : l[i].id < r.id
                                   /\ r.generation = Generation(LastOf(l, FlowOf[r.attempt])) + 1
    PROVE  FilesOK(s, Append(p, r), LedgerAfter(l, r))
<1> DEFINE h == Append(p, r)
           g == LedgerAfter(l, r)
<1>1. r \in WholeRecord /\ r.kind \in {"placement", "attempt"} /\ r.sequence \in Nat
      /\ (r.kind = "placement" => r \in PlacedRecord)
    BY DEF WholeRecord, PlacedRecord, PlacementRecord, AttemptEntry, Sequence, StoreAssumption
<1>2. /\ Len(p) \in Nat /\ Len(h) = Len(p) + 1 /\ h[Len(p) + 1] = r /\ h # <<>>
      /\ h \in Seq(WholeRecord)
      /\ \A i \in 1 .. Len(p) : h[i] = p[i]
    BY <1>1
<1>3. p # <<>> => Len(p) >= 1
    BY <1>2
<1>4. \A i \in 1 .. Len(p) : p[i] \in WholeRecord /\ p[i].sequence \in Nat
    BY RecordKinds DEF Sequence, StoreAssumption
<1>5. LastSequence(s, p) \in Nat /\ s.max_sequence \in Nat
    BY <1>3, <1>2, <1>4 DEF LastSequence, SnapshotImage, SnapshotType, Sequence, StoreAssumption
<1> HIDE DEF h
<1>6. LastSequence(s, h) = r.sequence
    BY <1>2 DEF LastSequence
<1>7. SequenceOK(s, h)
  <2>1. ASSUME NEW i \in 2 .. Len(h) PROVE h[i].kind # "reset" /\ h[i].sequence = h[i - 1].sequence + 1
    <3>1. CASE i = Len(p) + 1
      <4>1. p # <<>> /\ h[i - 1] = p[Len(p)] /\ h[i] = r
          BY <1>2, <3>1
      <4> QED
          BY <1>1, <4>1 DEF LastSequence
    <3>2. CASE i # Len(p) + 1
      <4>1. i \in 2 .. Len(p) /\ h[i] = p[i] /\ h[i - 1] = p[i - 1]
          BY <1>2, <3>2
      <4> QED
          BY <4>1 DEF FilesOK, SequenceOK
    <3> QED
        BY <3>1, <3>2
  <2>2. CASE p = <<>>
    <3>1. h[1] = r /\ Len(h) = 1 /\ r.sequence = s.max_sequence + 1
        BY <1>2, <2>2 DEF LastSequence
    <3> QED
        BY <1>1, <1>2, <1>5, <2>1, <3>1 DEF SequenceOK, Marked
  <2>3. CASE p # <<>>
    <3>1. h[1] = p[1] /\ (Marked(h) <=> Marked(p)) /\ h[Len(h)].sequence = p[Len(p)].sequence + 1
        BY <1>2, <1>3, <2>3 DEF Marked, LastSequence
    <3>2. p[Len(p)].sequence \in Nat
        BY <1>2, <1>3, <1>4, <2>3
    <3> QED
        BY <1>2, <1>5, <2>1, <2>3, <3>1, <3>2 DEF FilesOK, SequenceOK
  <2> QED
      BY <2>2, <2>3
<1>8. LastOK(h, g)
  <2> SUFFICES ASSUME NEW i \in 1 .. Len(h), NEW f \in Flows, Places(h[i], f),
                      \A k \in i + 1 .. Len(h) : ~Places(h[k], f)
               PROVE  h[i] = LastOf(g, f)
      BY DEF LastOK
  <2>1. CASE i = Len(p) + 1
    <3>1. r.kind = "placement" /\ FlowOf[r.attempt] = f /\ h[i] = r
        BY <1>2, <2>1 DEF Places
    <3> QED
        BY <1>1, <3>1, LastAppend DEF LedgerAfter
  <2>2. CASE i # Len(p) + 1
    <3>1. i \in 1 .. Len(p) /\ h[i] = p[i] /\ ~Places(r, f)
        BY <1>2, <2>2
    <3>2. \A k \in i + 1 .. Len(p) : ~Places(p[k], f)
        BY <1>2, <3>1
    <3>3. p[i] = LastOf(l, f)
        BY <3>1, <3>2 DEF FilesOK, LastOK
    <3>4. LastOf(g, f) = LastOf(l, f)
        BY <1>1, <3>1, LastAppend DEF LedgerAfter, Places
    <3> QED
        BY <3>1, <3>3, <3>4
  <2> QED
      BY <2>1, <2>2
<1>9. NumbersOK(g)
    BY <1>1, NumbersAppend DEF FilesOK, LedgerAfter
<1>10. ReplayOK(s, h, g)
  <2> DEFINE m == LoadSnapshot(s)
             R == LoadJournal(m, p)
             Q == LoadJournal(m, h)
  <2>1. R \in LoadState
      BY LoadSnapshotImage, LoadJournalState
  <2>2. Q = Replayed(R, r, m.max_sequence)
      BY LoadAppend DEF h
  <2>3. R.status # "gap" /\ (R.status = "ok" => UpToDate(R.mem, l) /\ R.mem.max_sequence = LastSequence(s, p))
      BY DEF FilesOK, ReplayOK
  <2> HIDE DEF R, Q
  <2>4. CASE R.status # "ok"
      BY <2>2, <2>3, <2>4 DEF Replayed, ReplayOK, Q
  <2>5. CASE R.status = "ok"
    <3>1. ~(r.sequence <= R.mem.max_sequence) /\ r.sequence = R.mem.max_sequence + 1
        BY <1>1, <1>5, <2>3, <2>5
    <3>2. Q = [R EXCEPT !.status = "restarted"] \/ Q = [R EXCEPT !.mem = Applied(R.mem, r)]
        BY <1>1, <2>2, <2>5, <3>1 DEF Replayed
    <3>3. UpToDate(Applied(R.mem, r), g) /\ Applied(R.mem, r).max_sequence = r.sequence
        BY <2>1, <2>3, <2>5, AppliedUpToDate DEF LoadState
    <3>4. Q.status = "restarted" \/ (Q.status = "ok" /\ Q.mem = Applied(R.mem, r))
        BY <2>1, <2>5, <3>2 DEF LoadState
    <3> QED
        BY <1>6, <3>3, <3>4 DEF ReplayOK, Q
  <2> QED
      BY <2>4, <2>5
<1> QED
    BY <1>7, <1>8, <1>9, <1>10 DEF FilesOK, h

\* A journal that was just replaced: the snapshot alone.
LEMMA FilesEmpty ==
    ASSUME NEW s \in SnapshotImage, NEW l, NumbersOK(l), UpToDate(s, l)
    PROVE  FilesOK(s, <<>>, l)
<1> DEFINE m == LoadSnapshot(s)
<1>1. LoadJournal(m, <<>>) = Loaded(m) /\ UpToDate(m, l) /\ m.max_sequence = s.max_sequence
    BY LoadEmpty, LoadSnapshotFields DEF UpToDate
<1> HIDE DEF m
<1>2. ReplayOK(s, <<>>, l)
    BY <1>1 DEF ReplayOK, Loaded, LastSequence, m
<1>3. SequenceOK(s, <<>>) /\ LastOK(<<>>, l)
    BY DEF SequenceOK, LastOK, Marked
<1> QED
    BY <1>2, <1>3 DEF FilesOK

\* The marker of the snapshot that was just written.
LEMMA FilesMarked ==
    ASSUME NEW s \in SnapshotImage, NEW l, NumbersOK(l), UpToDate(s, l), NEW r,
           r.kind = "reset", r.sequence = 1, r.covered = s.max_sequence
    PROVE  FilesOK(s, Append(<<>>, r), l)
<1> DEFINE m == LoadSnapshot(s)
           p == Append(<<>>, r)
<1>1. m \in Image /\ UpToDate(m, l) /\ m.max_sequence = s.max_sequence
    BY LoadSnapshotImage, LoadSnapshotFields DEF UpToDate
<1>2. LoadJournal(m, p) = Replayed(Loaded(m), r, m.max_sequence)
  <2>1. <<>> \in Seq({r})
      OBVIOUS
  <2> QED
      BY <2>1, LoadAppend, LoadEmpty
<1>3. p = <<r>> /\ Len(p) = 1 /\ p[1] = r /\ p # <<>>
    OBVIOUS
<1> HIDE DEF m, p
<1>4. Replayed(Loaded(m), r, m.max_sequence) = [Loaded(m) EXCEPT !.mem = [m EXCEPT !.max_sequence = 1]]
    BY <1>1 DEF Replayed, Loaded, MarkerApplied
<1>5. /\ LoadJournal(m, p).status = "ok" /\ LoadJournal(m, p).mem.max_sequence = 1
      /\ LoadJournal(m, p).mem.latest = m.latest
      /\ LoadJournal(m, p).mem.next_placement_id = m.next_placement_id
    BY <1>1, <1>2, <1>4 DEF Loaded, Image, MemType
<1>6. ReplayOK(s, p, l)
    BY <1>1, <1>3, <1>5 DEF ReplayOK, LastSequence, UpToDate, m
<1>7. SequenceOK(s, p) /\ LastOK(p, l)
    BY <1>3 DEF SequenceOK, LastOK, Marked, Places
<1> QED
    BY <1>6, <1>7 DEF FilesOK, p

\* Without a marker, the journal that a new snapshot covers is skipped.
LEMMA CoveredIsSkipped ==
    ASSUME StoreAssumption, NEW s \in SnapshotImage, NEW p \in Seq(WholeRecord), SequenceOK(s, p), ~Marked(p),
           NEW t \in SnapshotImage, t.max_sequence = LastSequence(s, p)
    PROVE  /\ LoadJournal(LoadSnapshot(t), p) = Loaded(LoadSnapshot(t))
           /\ p # <<>> => p[1].sequence <= t.max_sequence + 1
<1> DEFINE m == LoadSnapshot(t)
           G == [i \in 0 .. Len(p) |-> {Loaded(m)}]
<1>1. Len(p) \in Nat /\ \A i \in 1 .. Len(p) : p[i] \in WholeRecord /\ p[i].sequence \in Nat
    BY RecordKinds DEF Sequence, StoreAssumption
<1>2. \A i \in 1 .. Len(p) : p[i].kind # "reset"
  <2>1. \A i \in 1 .. Len(p) : i = 1 \/ i \in 2 .. Len(p)
      BY <1>1
  <2> QED
      BY <1>1, <2>1 DEF SequenceOK, Marked
<1>3. \A i \in 1 .. Len(p) : p[i].sequence <= p[Len(p)].sequence
  <2> DEFINE Ahead == {d \in Nat : d < Len(p) /\ ~(p[Len(p) - d].sequence <= p[Len(p)].sequence)}
  <2>1. Ahead = {}
    <3> SUFFICES ASSUME Ahead # {} PROVE FALSE
        OBVIOUS
    <3>1. PICK d \in Ahead : \A e \in Ahead : d <= e
      <4>1. Ahead \subseteq Nat
          OBVIOUS
      <4> HIDE DEF Ahead
      <4> QED
          BY <4>1, LeastNumber
    <3>2. d \in Nat /\ d < Len(p) /\ ~(p[Len(p) - d].sequence <= p[Len(p)].sequence)
        OBVIOUS
    <3>3. d # 0
        BY <1>1, <3>2
    <3>4. d - 1 \in Nat /\ d - 1 < Len(p) /\ d - 1 \notin Ahead
        BY <1>1, <3>1, <3>2, <3>3
    <3>5. p[Len(p) - (d - 1)].sequence <= p[Len(p)].sequence
        BY <3>4
    <3> DEFINE i == Len(p) - d
    <3>6. i \in 1 .. Len(p) /\ i + 1 \in 2 .. Len(p) /\ Len(p) - (d - 1) = i + 1 /\ (i + 1) - 1 = i
        BY <1>1, <3>2, <3>3
    <3>7. p[i + 1].sequence = p[i].sequence + 1
        BY <3>6 DEF SequenceOK
    <3>8. /\ p[i].sequence \in Nat /\ p[i + 1].sequence \in Nat /\ p[Len(p)].sequence \in Nat
          /\ p[i + 1].sequence <= p[Len(p)].sequence /\ ~(p[i].sequence <= p[Len(p)].sequence)
        BY <1>1, <3>2, <3>5, <3>6
    <3>9. \A x, y \in Nat : x + 1 <= y => x <= y
        OBVIOUS
    <3> HIDE DEF i, Ahead
    <3> QED
        BY <3>7, <3>8, <3>9
  <2>2. ASSUME NEW i \in 1 .. Len(p) PROVE p[i].sequence <= p[Len(p)].sequence
    <3>1. Len(p) - i \in Nat /\ Len(p) - i < Len(p) /\ Len(p) - (Len(p) - i) = i
        BY <1>1
    <3>2. Len(p) - i \notin Ahead
        BY <2>1
    <3> QED
        BY <3>1, <3>2
  <2> QED
      BY <2>2
<1>4. m.max_sequence = t.max_sequence /\ (p # <<>> => t.max_sequence = p[Len(p)].sequence)
    BY LoadSnapshotFields DEF LastSequence
<1>5. \A i \in 1 .. Len(p) : Replayed(Loaded(m), p[i], m.max_sequence) = Loaded(m)
  <2> SUFFICES ASSUME NEW i \in 1 .. Len(p) PROVE Replayed(Loaded(m), p[i], m.max_sequence) = Loaded(m)
      OBVIOUS
  <2>1. p # <<>>
      BY <1>1
  <2>2. p[i].sequence <= m.max_sequence /\ p[i].kind # "reset"
      BY <1>2, <1>3, <1>4, <2>1
  <2> HIDE DEF m
  <2> QED
      BY <2>2 DEF Replayed, Loaded
<1>6. \A i \in 1 .. Len(p) : i - 1 \in 0 .. Len(p) /\ i \in 0 .. Len(p)
    BY <1>1
<1>7. \A i \in 0 .. Len(p) : G[i] = {Loaded(m)}
    OBVIOUS
<1>8. 0 \in 0 .. Len(p) /\ Len(p) \in 0 .. Len(p)
    BY <1>1
<1> HIDE DEF G, m
<1>9. LoadJournal(m, p) \in G[Len(p)]
  <2>1. Loaded(m) \in G[0]
      BY <1>7, <1>8
  <2>2. \A i \in 1 .. Len(p) : \A x \in G[i - 1] : Replayed(x, p[i], m.max_sequence) \in G[i]
      BY <1>5, <1>6, <1>7
  <2> QED
      BY <1>1, <2>1, <2>2, LoadInduction
<1>10. p # <<>> => p[1].sequence <= t.max_sequence + 1
  <2>1. p # <<>> => 1 \in 1 .. Len(p) /\ Len(p) \in 1 .. Len(p)
      BY <1>1
  <2> QED
      BY <1>1, <1>3, <1>4, <2>1
<1> QED
    BY <1>7, <1>8, <1>9, <1>10 DEF m

\* The latest placement of f after the first i records of a journal that starts
\* with a marker: its last one among them, or the one the snapshot has.
LatestAt(latest, t, p, i, f) ==
    \/ (\A k \in 1 .. i : ~Places(p[k], f)) /\ latest[f] = t.latest[f]
    \/ \E k \in 1 .. i : /\ Places(p[k], f) /\ latest[f] = p[k]
                         /\ \A n \in k + 1 .. i : ~Places(p[n], f)
\* What is known after them.
AfterMarker(t, p, l, i) ==
    {x \in LoadState :
        \/ x.status \in {"marker", "restarted"}
        \/ /\ x.status = "ok" /\ x.mem.max_sequence = p[i].sequence
           /\ \A k \in 1 .. Len(l) : l[k].id < x.mem.next_placement_id
           /\ \A f \in Flows : LatestAt(x.mem.latest, t, p, i, f)}

\* The marker itself.
LEMMA MarkerReplayed ==
    ASSUME StoreAssumption, NEW t \in SnapshotImage, NEW l, UpToDate(t, l),
           NEW p \in Seq(WholeRecord), Marked(p), p[1].sequence = 1
    PROVE  LET m == LoadSnapshot(t)
           IN  Replayed(Loaded(m), p[1], m.max_sequence) \in AfterMarker(t, p, l, 1)
<1> DEFINE m == LoadSnapshot(t)
           x == Replayed(Loaded(m), p[1], m.max_sequence)
<1>1. m \in Image /\ m.latest = t.latest /\ m.next_placement_id = t.next_placement_id
    BY LoadSnapshotImage, LoadSnapshotFields
<1>2. p[1] \in WholeRecord /\ p[1].kind = "reset"
  <2>1. p # <<>> => 1 \in 1 .. Len(p)
      OBVIOUS
  <2> QED
      BY <2>1 DEF Marked
<1> HIDE DEF m
<1>3. Loaded(m) \in LoadState
    BY <1>1 DEF Loaded, LoadState
<1>4. x \in LoadState
    BY <1>2, <1>3, ReplayedState
<1>5. x = [Loaded(m) EXCEPT !.status = "marker"] \/ x = [Loaded(m) EXCEPT !.mem = MarkerApplied(m, p[1])]
    BY <1>2 DEF Replayed, Loaded
<1>6. CASE x = [Loaded(m) EXCEPT !.status = "marker"]
  <2>1. x.status = "marker"
      BY <1>6 DEF Loaded
  <2> QED
      BY <1>4, <2>1 DEF AfterMarker, m
<1>7. CASE x = [Loaded(m) EXCEPT !.mem = MarkerApplied(m, p[1])]
  <2>1. /\ x.status = "ok" /\ x.mem.max_sequence = p[1].sequence
        /\ x.mem.latest = t.latest /\ x.mem.next_placement_id = t.next_placement_id
      BY <1>1, <1>7 DEF Loaded, MarkerApplied, Image, MemType
  <2>2. \A f \in Flows : LatestAt(x.mem.latest, t, p, 1, f)
      BY <1>2, <2>1 DEF LatestAt, Places
  <2> HIDE DEF x
  <2>3. x \in AfterMarker(t, p, l, 1)
      BY <1>4, <2>1, <2>2 DEF AfterMarker, UpToDate
  <2> QED
      BY <2>3 DEF m, x
<1> QED
    BY <1>5, <1>6, <1>7

\* Every record behind it.
LEMMA BehindMarkerReplayed ==
    ASSUME StoreAssumption, NEW s, NEW t, NEW l \in Seq(PlacedRecord),
           NEW p \in Seq(WholeRecord), SequenceOK(s, p),
           NEW i \in 2 .. Len(p), NEW x \in AfterMarker(t, p, l, i - 1), NEW c
    PROVE  Replayed(x, p[i], c) \in AfterMarker(t, p, l, i)
<1> DEFINE y == Replayed(x, p[i], c)
<1>1. /\ Len(p) \in Nat /\ i \in 1 .. Len(p) /\ i - 1 \in 1 .. Len(p) /\ i - 1 \in Nat
      /\ p[i] \in WholeRecord /\ p[i - 1] \in WholeRecord
      /\ p[i].kind # "reset" /\ p[i].sequence = p[i - 1].sequence + 1
    BY DEF SequenceOK
<1>2. p[i - 1].sequence \in Nat /\ p[i].kind \in {"placement", "attempt"}
    BY <1>1, RecordKinds DEF Sequence, StoreAssumption
<1>3. x \in LoadState /\ y \in LoadState /\ x.mem \in Image
    BY <1>1, ReplayedState DEF AfterMarker, LoadState
<1>4. CASE x.status # "ok"
  <2>1. y = x /\ x.status \in {"marker", "restarted"}
      BY <1>4 DEF Replayed, AfterMarker
  <2> QED
      BY <1>3, <2>1 DEF AfterMarker
<1>5. CASE x.status = "ok"
  <2>1. /\ x.mem.max_sequence = p[i - 1].sequence
        /\ \A k \in 1 .. Len(l) : l[k].id < x.mem.next_placement_id
        /\ \A f \in Flows : LatestAt(x.mem.latest, t, p, i - 1, f)
      BY <1>5 DEF AfterMarker
  <2>2. ~(p[i].sequence <= x.mem.max_sequence) /\ p[i].sequence = x.mem.max_sequence + 1
      BY <1>1, <1>2, <2>1
  <2>3. y = [x EXCEPT !.status = "restarted"] \/ y = [x EXCEPT !.mem = Applied(x.mem, p[i])]
      BY <1>1, <1>5, <2>2 DEF Replayed
  <2>4. CASE y = [x EXCEPT !.status = "restarted"]
    <3>1. y.status = "restarted"
        BY <1>3, <2>4 DEF LoadState
    <3> QED
        BY <1>3, <3>1 DEF AfterMarker
  <2>5. CASE y = [x EXCEPT !.mem = Applied(x.mem, p[i])]
    <3> DEFINE n == Applied(x.mem, p[i])
    <3>1. y.status = "ok" /\ y.mem = n
        BY <1>3, <1>5, <2>5 DEF LoadState
    <3>2. CASE p[i].kind = "attempt"
      <4>1. p[i] \in AttemptEntry
          BY <1>1, <3>2, RecordKinds
      <4>2. n = [x.mem EXCEPT !.attempts = [x.mem.attempts EXCEPT ![p[i].attempt] =
                                  [phase |-> p[i].phase, sequence |-> p[i].sequence]],
                              !.max_sequence = p[i].sequence]
          BY <1>3, <3>2, <4>1, AttemptAppliedImage DEF Applied
      <4>3. /\ n.latest = x.mem.latest /\ n.next_placement_id = x.mem.next_placement_id
            /\ n.max_sequence = p[i].sequence
          BY <1>3, <4>2 DEF Image, MemType
      <4>4. \A f : ~Places(p[i], f)
          BY <3>2 DEF Places
      <4> HIDE DEF n, y
      <4>5. ASSUME NEW f \in Flows PROVE LatestAt(n.latest, t, p, i, f)
        <5>1. LatestAt(x.mem.latest, t, p, i - 1, f)
            BY <2>1
        <5>2. \A k \in 1 .. i : k = i \/ k \in 1 .. i - 1
            BY <1>1
        <5>3. \A k \in 1 .. i - 1 : k \in 1 .. i /\ \A q \in k + 1 .. i : q = i \/ q \in k + 1 .. i - 1
            BY <1>1
        <5> QED
            BY <4>3, <4>4, <5>1, <5>2, <5>3 DEF LatestAt
      <4> QED
          BY <1>3, <2>1, <3>1, <4>3, <4>5 DEF AfterMarker, y
    <3>3. CASE p[i].kind = "placement"
      <4>1. p[i] \in PlacedRecord /\ p[i].attempt \in Attempts /\ p[i].id \in Nat
          BY <1>1, <3>3, RecordKinds DEF PlacedRecord, PlacementRecord
      <4>2. /\ n.latest = [x.mem.latest EXCEPT ![FlowOf[p[i].attempt]] = p[i]]
            /\ n.next_placement_id = IF p[i].id >= x.mem.next_placement_id THEN p[i].id + 1
                                                                    ELSE x.mem.next_placement_id
            /\ n.max_sequence = p[i].sequence
          BY <1>3, <3>3, <4>1, PlacementAppliedImage DEF Applied
      <4>3. x.mem.latest \in [Flows -> PlacementRecord \cup {NoPlacement}]
            /\ x.mem.next_placement_id \in Nat
          BY <1>3 DEF Image, MemType
      <4> HIDE DEF n, y
      <4>4. ASSUME NEW k \in 1 .. Len(l) PROVE l[k].id < n.next_placement_id
        <5>1. l[k].id \in Nat /\ l[k].id < x.mem.next_placement_id
            BY <2>1 DEF PlacedRecord, PlacementRecord
        <5>2. \A u, v, w \in Nat : u < v => u < (IF w >= v THEN w + 1 ELSE v)
            OBVIOUS
        <5>3. l[k].id < (IF p[i].id >= x.mem.next_placement_id THEN p[i].id + 1
                                                       ELSE x.mem.next_placement_id)
            BY <4>1, <4>3, <5>1, <5>2
        <5> QED
            BY <4>2, <5>3
      <4>5. ASSUME NEW f \in Flows PROVE LatestAt(n.latest, t, p, i, f)
        <5>1. CASE FlowOf[p[i].attempt] = f
          <6>1. n.latest[f] = p[i] /\ Places(p[i], f)
              BY <3>3, <4>2, <4>3, <5>1 DEF Places
          <6>2. i \in 1 .. i /\ \A q \in i + 1 .. i : FALSE
              BY <1>1
          <6> QED
              BY <6>1, <6>2 DEF LatestAt
        <5>2. CASE FlowOf[p[i].attempt] # f
          <6>1. n.latest[f] = x.mem.latest[f] /\ ~Places(p[i], f)
              BY <4>2, <4>3, <5>2 DEF Places
          <6>2. LatestAt(x.mem.latest, t, p, i - 1, f)
              BY <2>1
          <6>3. \A k \in 1 .. i : k = i \/ k \in 1 .. i - 1
              BY <1>1
          <6>4. \A k \in 1 .. i - 1 : k \in 1 .. i /\ \A q \in k + 1 .. i : q = i \/ q \in k + 1 .. i - 1
              BY <1>1
          <6> QED
              BY <6>1, <6>2, <6>3, <6>4 DEF LatestAt
        <5> QED
            BY <5>1, <5>2
      <4> QED
          BY <1>3, <3>1, <4>2, <4>4, <4>5 DEF AfterMarker, y
    <3> QED
        BY <1>2, <3>2, <3>3
  <2> QED
      BY <2>3, <2>4, <2>5
<1> QED
    BY <1>4, <1>5

\* A new snapshot over a journal with the marker of an earlier one: LoadJournal
\* refuses it, or the marker matches by chance and the journal is replayed on top,
\* which changes nothing.
LEMMA MarkedIsReplayed ==
    ASSUME StoreAssumption, NEW s \in SnapshotImage, NEW p \in Seq(WholeRecord), SequenceOK(s, p), Marked(p),
           NEW l \in Seq(PlacedRecord), LastOK(p, l),
           NEW t \in SnapshotImage, UpToDate(t, l)
    PROVE  LET R == LoadJournal(LoadSnapshot(t), p)
           IN  /\ R.status # "gap"
               /\ R.status = "ok" => UpToDate(R.mem, l) /\ R.mem.max_sequence = p[Len(p)].sequence
<1> DEFINE m == LoadSnapshot(t)
           R == LoadJournal(m, p)
           G == [i \in 0 .. Len(p) |-> IF i = 0 THEN {Loaded(m)} ELSE AfterMarker(t, p, l, i)]
<1>1. Len(p) \in Nat /\ Len(p) >= 1 /\ p[1].sequence = 1
  <2>1. p # <<>> => Len(p) \in Nat /\ Len(p) >= 1
      OBVIOUS
  <2> QED
      BY <2>1 DEF Marked, SequenceOK
<1>2. G[0] = {Loaded(m)} /\ \A i \in 1 .. Len(p) : G[i] = AfterMarker(t, p, l, i)
  <2>1. 0 \in 0 .. Len(p) /\ \A i \in 1 .. Len(p) : i \in 0 .. Len(p) /\ i # 0
      BY <1>1
  <2> QED
      BY <2>1
<1>3. \A i \in 1 .. Len(p) : \A x \in G[i - 1] : Replayed(x, p[i], m.max_sequence) \in G[i]
  <2> SUFFICES ASSUME NEW i \in 1 .. Len(p), NEW x \in G[i - 1]
               PROVE  Replayed(x, p[i], m.max_sequence) \in G[i]
      OBVIOUS
  <2> HIDE DEF G
  <2>1. CASE i = 1
    <3>1. x = Loaded(m)
        BY <1>2, <2>1
    <3> QED
        BY <1>1, <1>2, <2>1, <3>1, MarkerReplayed
  <2>2. CASE i # 1
    <3>1. i \in 2 .. Len(p) /\ i - 1 \in 1 .. Len(p)
        BY <1>1, <2>2
    <3>2. x \in AfterMarker(t, p, l, i - 1)
        BY <1>2, <3>1
    <3>3. Replayed(x, p[i], m.max_sequence) \in AfterMarker(t, p, l, i)
        BY <3>1, <3>2, BehindMarkerReplayed
    <3> QED
        BY <1>2, <3>3
  <2> QED
      BY <2>1, <2>2
<1> HIDE DEF G, m
<1>4. R \in G[Len(p)]
    BY <1>1, <1>2, <1>3, LoadInduction
<1>5. R \in AfterMarker(t, p, l, Len(p))
    BY <1>1, <1>2, <1>4
<1> HIDE DEF R
<1>6. R.status # "gap"
    BY <1>5 DEF AfterMarker
<1>7. ASSUME R.status = "ok"
      PROVE  UpToDate(R.mem, l) /\ R.mem.max_sequence = p[Len(p)].sequence
  <2>1. /\ R.mem.max_sequence = p[Len(p)].sequence
        /\ \A k \in 1 .. Len(l) : l[k].id < R.mem.next_placement_id
        /\ \A f \in Flows : LatestAt(R.mem.latest, t, p, Len(p), f)
      BY <1>5, <1>7 DEF AfterMarker
  <2>2. ASSUME NEW f \in Flows PROVE R.mem.latest[f] = LastOf(l, f)
      BY <2>1 DEF LatestAt, UpToDate, LastOK
  <2> QED
      BY <2>1, <2>2 DEF UpToDate
<1> QED
    BY <1>6, <1>7 DEF R, m

\* A new snapshot of everything the journal says, while the journal is still there.
LEMMA FilesSnapshot ==
    ASSUME StoreAssumption, NEW s \in SnapshotImage, NEW p \in Seq(WholeRecord),
           NEW l \in Seq(PlacedRecord), FilesOK(s, p, l),
           NEW t \in SnapshotImage, t.max_sequence = LastSequence(s, p), UpToDate(t, l)
    PROVE  FilesOK(t, p, l)
<1> DEFINE m == LoadSnapshot(t)
<1>1. UpToDate(m, l) /\ m.max_sequence = t.max_sequence
    BY LoadSnapshotFields DEF UpToDate
<1>2. t.max_sequence \in Nat
    BY DEF SnapshotImage, SnapshotType, Sequence, StoreAssumption
<1> HIDE DEF m
<1>3. CASE Marked(p)
  <2>1. SequenceOK(t, p)
      BY <1>3 DEF FilesOK, SequenceOK
  <2>2. ReplayOK(t, p, l)
      BY <1>3, MarkedIsReplayed DEF FilesOK, ReplayOK, LastSequence, Marked
  <2> QED
      BY <2>1, <2>2 DEF FilesOK
<1>4. CASE ~Marked(p)
  <2>1. LoadJournal(m, p) = Loaded(m) /\ (p # <<>> => p[1].sequence <= t.max_sequence + 1)
      BY <1>4, CoveredIsSkipped DEF FilesOK, m
  <2>2. LastSequence(t, p) = t.max_sequence /\ (p # <<>> => t.max_sequence = p[Len(p)].sequence)
      BY DEF LastSequence
  <2>3. SequenceOK(t, p)
      BY <1>2, <1>4, <2>1, <2>2 DEF FilesOK, SequenceOK
  <2>4. ReplayOK(t, p, l)
      BY <1>1, <2>1, <2>2 DEF ReplayOK, Loaded, m
  <2> QED
      BY <2>3, <2>4 DEF FilesOK
<1> QED
    BY <1>3, <1>4

-----------------------------------------------------------------------------
(* The invariant of the files and of the process that writes them.           *)

Intact == IntactPrefix(journal)

\* Only the last record of the file can be torn, and nobody appends behind it.
TailInv ==
    /\ journal = Intact \/ journal = Append(Intact, Torn)
    /\ mode \in {"ready"} \cup Compacting => journal = Intact
\* The memory of a process that may append, and what Compact has done so far.
MemInv ==
    /\ mode \in {"ready"} \cup Compacting => UpToDate(mem, ledger)
    /\ mode \in {"ready", "snapshot", "journal"} => mem.max_sequence = LastSequence(snapshot, Intact)
    /\ mode \in {"journal", "marker"} => UpToDate(snapshot, ledger)
    /\ mode = "journal" => snapshot.max_sequence = mem.max_sequence
    /\ mode = "marker" => journal = <<>>

FilesInv == ~appendFailed => TailInv /\ FilesOK(snapshot, Intact, ledger) /\ MemInv

\* A whole journal is read to its end, and a torn record is left out.
LEMMA IntactOfWhole ==
    ASSUME NEW p \in Seq(WholeRecord)
    PROVE  IntactPrefix(p) = p /\ IntactPrefix(Append(p, Torn)) = p
<1>1. \A i \in 1 .. Len(p) : p[i] # Torn
    BY RecordKinds
<1>2. IntactPrefix(p) = p
    BY <1>1 DEF IntactPrefix
<1> DEFINE j == Append(p, Torn)
           q == IntactPrefix(j)
           S == WholeRecord \cup {Torn}
<1>3. p \in Seq(S) /\ j \in Seq(S)
    OBVIOUS
<1>4. /\ Len(p) \in Nat /\ Len(j) = Len(p) + 1 /\ j[Len(p) + 1] = Torn
      /\ \A i \in 1 .. Len(p) : j[i] = p[i]
    BY <1>3
<1>5. /\ q \in Seq(S) /\ Len(q) \in Nat /\ Len(q) <= Len(j)
      /\ \A i \in 1 .. Len(q) : q[i] = j[i] /\ q[i] # Torn
      /\ q = j \/ (Len(q) < Len(j) /\ j[Len(q) + 1] = Torn)
    BY <1>3, IntactFacts
<1> HIDE DEF j, q, S
<1>6. Len(q) = Len(p)
  <2>1. q # j
    <3>1. Len(p) + 1 \in 1 .. Len(j)
        BY <1>4
    <3> QED
        BY <1>4, <1>5, <3>1
  <2>2. Len(q) < Len(p) + 1 /\ j[Len(q) + 1] = Torn
      BY <1>4, <1>5, <2>1
  <2>3. ~(Len(q) < Len(p))
    <3> SUFFICES ASSUME Len(q) < Len(p) PROVE FALSE
        OBVIOUS
    <3>1. Len(q) + 1 \in 1 .. Len(p)
        BY <1>4, <1>5
    <3> QED
        BY <1>1, <1>4, <2>2, <3>1
  <2> QED
      BY <1>4, <1>5, <2>2, <2>3
<1>7. q = p
  <2>1. \A i \in 1 .. Len(q) : q[i] = p[i]
      BY <1>4, <1>5, <1>6
  <2> QED
      BY <1>3, <1>5, <1>6, <2>1, SeqEqual
<1> QED
    BY <1>2, <1>7 DEF q, j

LEMMA LastSequenceAppend ==
    ASSUME NEW s, NEW p \in Seq(WholeRecord), NEW r \in WholeRecord
    PROVE  LastSequence(s, Append(p, r)) = r.sequence
<1> DEFINE h == Append(p, r)
<1>1. h # <<>> /\ Len(h) = Len(p) + 1 /\ h[Len(p) + 1] = r
    OBVIOUS
<1> HIDE DEF h
<1> QED
    BY <1>1 DEF LastSequence, h

\* What the calls pass to AppendRecordRaw.
NextRecord(r) ==
    /\ r \in PlacedRecord \cup AttemptEntry
    /\ r.sequence = mem.max_sequence + 1
    /\ r.kind = "placement" =>
          /\ r.id = mem.next_placement_id
          /\ r.generation = Generation(mem.latest[FlowOf[r.attempt]]) + 1

\* An append onto files and memory that agree.
LEMMA AppendFiles ==
    ASSUME StoreAssumption, TypeInv, FilesInv, ~appendFailed, mode = "ready", NEW r, NextRecord(r)
    PROVE  /\ FilesOK(snapshot, Append(journal, r), LedgerWith(r))
           /\ IntactPrefix(Append(journal, r)) = Append(journal, r)
           /\ IntactPrefix(Append(journal, Torn)) = journal
           /\ FilesOK(snapshot, journal, ledger)
           /\ UpToDate(Applied(mem, r), LedgerWith(r))
           /\ Applied(mem, r).max_sequence = LastSequence(snapshot, Append(journal, r))
<1>1. journal = Intact /\ UpToDate(mem, ledger) /\ mem.max_sequence = LastSequence(snapshot, Intact)
      /\ FilesOK(snapshot, Intact, ledger)
    BY DEF FilesInv, TailInv, MemInv
<1>2. journal \in Seq(WholeRecord)
    BY <1>1, IntactRecords DEF TypeInv, Intact
<1>3. ledger \in Seq(PlacedRecord) /\ snapshot \in SnapshotImage /\ mem \in Image
    BY DEF TypeInv
<1>4. r \in WholeRecord
    BY DEF NextRecord, WholeRecord
<1>5. Append(journal, r) \in Seq(WholeRecord)
    BY <1>2, <1>4
<1>6. LedgerWith(r) = LedgerAfter(ledger, r)
    BY DEF LedgerWith, LedgerAfter
<1>7. r.kind = "placement" =>
          /\ \A i \in 1 .. Len(ledger) : ledger[i].id < r.id
          /\ r.generation = Generation(LastOf(ledger, FlowOf[r.attempt])) + 1
  <2> SUFFICES ASSUME r.kind = "placement"
               PROVE  /\ \A i \in 1 .. Len(ledger) : ledger[i].id < r.id
                      /\ r.generation = Generation(LastOf(ledger, FlowOf[r.attempt])) + 1
      OBVIOUS
  <2>1. FlowOf[r.attempt] \in Flows
      BY DEF NextRecord, PlacedRecord, PlacementRecord, AttemptEntry, StoreAssumption
  <2> QED
      BY <1>1, <2>1 DEF NextRecord, UpToDate
<1>8. FilesOK(snapshot, Append(journal, r), LedgerWith(r))
    BY <1>1, <1>2, <1>3, <1>6, <1>7, FilesAppend DEF NextRecord
<1>9. UpToDate(Applied(mem, r), LedgerWith(r)) /\ Applied(mem, r).max_sequence = r.sequence
    BY <1>1, <1>3, <1>6, AppliedUpToDate DEF NextRecord
<1>10. LastSequence(snapshot, Append(journal, r)) = r.sequence
    BY <1>2, <1>4, LastSequenceAppend
<1> QED
    BY <1>1, <1>2, <1>5, <1>8, <1>9, <1>10, IntactOfWhole

LEMMA AppendKeepsFiles ==
    ASSUME StoreAssumption, TypeInv, FilesInv, NEW r, NextRecord(r), AppendRecordRaw(r)
    PROVE  FilesInv'
<1> SUFFICES ASSUME ~appendFailed'
             PROVE  TailInv' /\ FilesOK(snapshot, Intact, ledger)' /\ MemInv'
    BY DEF FilesInv
<1>1. mode = "ready"
    BY DEF AppendRecordRaw
<1>2. CASE AppendFails(r)
    BY <1>2 DEF AppendFails
<1>3. CASE Appended(r)
  <2>1. /\ ~appendFailed /\ journal' = Append(journal, r) /\ ledger' = LedgerWith(r)
        /\ mem' = Applied(mem, r) /\ snapshot' = snapshot /\ mode' \in {"ready", "snapshot"}
      BY <1>3 DEF Appended
  <2>2. Intact' = journal'
      BY <1>1, <2>1, AppendFiles DEF Intact
  <2>3. FilesOK(snapshot', journal', ledger') /\ UpToDate(mem', ledger')
        /\ mem'.max_sequence = LastSequence(snapshot', journal')
      BY <1>1, <2>1, AppendFiles
  <2> QED
      BY <2>1, <2>2, <2>3 DEF TailInv, MemInv
<1>4. CASE AppendCrashes(r)
  <2>1. ~appendFailed /\ snapshot' = snapshot /\ mode' = "down"
      BY <1>4 DEF AppendCrashes, Gone
  <2>2. MemInv'
      BY <2>1 DEF MemInv, Compacting
  <2>3. CASE journal' = Append(journal, Torn) /\ ledger' = ledger
    <3>1. Intact' = journal /\ FilesOK(snapshot, journal, ledger)
        BY <1>1, <2>1, <2>3, AppendFiles DEF Intact
    <3> QED
        BY <2>1, <2>2, <2>3, <3>1 DEF TailInv, Compacting
  <2>4. CASE journal' = Append(journal, r) /\ ledger' = LedgerWith(r)
    <3>1. Intact' = journal' /\ FilesOK(snapshot', journal', ledger')
        BY <1>1, <2>1, <2>4, AppendFiles DEF Intact
    <3> QED
        BY <2>1, <2>2, <3>1 DEF TailInv, Compacting
  <2> QED
      BY <1>4, <2>3, <2>4 DEF AppendCrashes
<1> QED
    BY <1>2, <1>3, <1>4 DEF AppendRecordRaw

\* The snapshot and the image it was made from.
LEMMA SnapshotFields ==
    /\ SnapshotOfMem.latest = mem.latest
    /\ SnapshotOfMem.next_placement_id = mem.next_placement_id
    /\ SnapshotOfMem.max_sequence = mem.max_sequence
BY DEF SnapshotOfMem

LEMMA CompactKeepsFiles ==
    ASSUME StoreAssumption, TypeInv, FilesInv,
           Compact \/ CompactSnapshot \/ CompactJournal \/ CompactMarker
    PROVE  FilesInv'
<1> SUFFICES ASSUME ~appendFailed'
             PROVE  TailInv' /\ FilesOK(snapshot, Intact, ledger)' /\ MemInv'
    BY DEF FilesInv
<1>1. ~appendFailed /\ ledger' = ledger
    BY DEF Compact, CompactSnapshot, CompactJournal, CompactMarker, history
<1>2. TailInv /\ FilesOK(snapshot, Intact, ledger) /\ MemInv /\ NumbersOK(ledger)
    BY <1>1 DEF FilesInv, FilesOK
<1>3. mode \in {"ready"} \cup Compacting => journal = Intact /\ journal \in Seq(WholeRecord)
    BY <1>2, IntactRecords DEF TailInv, TypeInv, Intact
<1>4. ledger \in Seq(PlacedRecord) /\ snapshot \in SnapshotImage
    BY DEF TypeInv
<1>5. IntactPrefix(<<>>) = <<>>
  <2>1. <<>> \in Seq(WholeRecord)
      OBVIOUS
  <2> QED
      BY <2>1, IntactOfWhole
<1>6. CASE Compact
    BY <1>1, <1>2, <1>6 DEF Compact, files, history, TailInv, MemInv, Intact, Compacting
<1>7. CASE CompactSnapshot
  <2>1. mode = "snapshot" /\ journal' = journal /\ mem' = mem
        /\ \/ snapshot' = SnapshotOfMem /\ mode' = "journal"
           \/ snapshot' = snapshot /\ mode' = "ready"
      BY <1>7 DEF CompactSnapshot, CompactFails
  <2>2. Intact' = Intact /\ journal = Intact
      BY <1>3, <2>1 DEF Intact, Compacting
  <2>3. UpToDate(mem, ledger) /\ mem.max_sequence = LastSequence(snapshot, Intact)
      BY <1>2, <2>1 DEF MemInv, Compacting
  <2>4. CASE snapshot' = snapshot /\ mode' = "ready"
      BY <1>1, <1>2, <2>1, <2>2, <2>3, <2>4 DEF TailInv, MemInv
  <2>5. CASE snapshot' = SnapshotOfMem /\ mode' = "journal"
    <3>1. UpToDate(SnapshotOfMem, ledger) /\ SnapshotOfMem.max_sequence = mem.max_sequence
        BY <2>3, SnapshotFields DEF UpToDate
    <3>2. SnapshotOfMem \in SnapshotImage
        BY SnapshotTyped
    <3>3. Intact \in Seq(WholeRecord)
        BY <1>3, <2>1 DEF Compacting
    <3>4. FilesOK(SnapshotOfMem, Intact, ledger)
        BY <1>2, <1>4, <2>3, <3>1, <3>2, <3>3, FilesSnapshot
    <3>5. LastSequence(SnapshotOfMem, Intact) = mem.max_sequence
        BY <2>3, <3>1 DEF LastSequence
    <3> QED
        BY <1>1, <2>1, <2>2, <2>3, <2>5, <3>1, <3>4, <3>5 DEF TailInv, MemInv
  <2> QED
      BY <2>1, <2>4, <2>5
<1>8. CASE CompactJournal
  <2>1. /\ mode = "journal" /\ snapshot' = snapshot
        /\ \/ journal' = <<>> /\ mem' = [mem EXCEPT !.max_sequence = 0] /\ mode' = "marker"
           \/ journal' \in {journal, <<>>} /\ mem' = mem /\ mode' = "ready"
      BY <1>8 DEF CompactJournal, CompactFails
  <2>2. /\ journal = Intact /\ UpToDate(snapshot, ledger) /\ UpToDate(mem, ledger)
        /\ snapshot.max_sequence = mem.max_sequence /\ mem.max_sequence = LastSequence(snapshot, Intact)
      BY <1>2, <1>3, <2>1 DEF MemInv, Compacting
  <2>3. FilesOK(snapshot, <<>>, ledger)
      BY <1>2, <1>4, <2>2, FilesEmpty
  <2>4. LastSequence(snapshot, <<>>) = snapshot.max_sequence
      BY DEF LastSequence
  <2>5. CASE journal' = journal /\ mem' = mem /\ mode' = "ready"
      BY <1>1, <1>2, <2>1, <2>2, <2>5 DEF TailInv, MemInv, Intact
  <2>6. CASE journal' = <<>> /\ mem' = mem /\ mode' = "ready"
    <3>1. Intact' = <<>>
        BY <1>5, <2>6 DEF Intact
    <3> QED
        BY <1>1, <2>1, <2>2, <2>3, <2>4, <2>6, <3>1 DEF TailInv, MemInv
  <2>7. CASE journal' = <<>> /\ mem' = [mem EXCEPT !.max_sequence = 0] /\ mode' = "marker"
    <3>1. Intact' = <<>>
        BY <1>5, <2>7 DEF Intact
    <3>2. mem'.latest = mem.latest /\ mem'.next_placement_id = mem.next_placement_id
        BY <2>7 DEF TypeInv, Image, MemType
    <3>3. UpToDate(mem', ledger')
        BY <1>1, <2>2, <3>2 DEF UpToDate
    <3> QED
        BY <1>1, <2>1, <2>2, <2>3, <2>7, <3>1, <3>3 DEF TailInv, MemInv
  <2> QED
      BY <2>1, <2>5, <2>6, <2>7
<1>9. CASE CompactMarker
  <2>1. /\ mode = "marker" /\ snapshot' = snapshot
        /\ \/ /\ journal' = Append(journal, ResetMarker) /\ mode' = "ready"
              /\ mem' = [mem EXCEPT !.max_sequence = 1]
           \/ journal' = Append(journal, Torn) /\ mode' = "down"
      BY <1>9 DEF CompactMarker, Gone, history
  <2>2. journal = <<>> /\ UpToDate(snapshot, ledger) /\ UpToDate(mem, ledger)
      BY <1>2, <2>1 DEF MemInv, Compacting
  <2>3. CASE journal' = Append(journal, Torn) /\ mode' = "down"
    <3>1. Intact' = <<>>
      <4>1. <<>> \in Seq(WholeRecord)
          OBVIOUS
      <4> QED
          BY <2>2, <2>3, <4>1, IntactOfWhole DEF Intact
    <3>2. FilesOK(snapshot, <<>>, ledger)
        BY <1>2, <1>4, <2>2, FilesEmpty
    <3> QED
        BY <1>1, <2>1, <2>2, <2>3, <3>1, <3>2 DEF TailInv, MemInv, Compacting
  <2>4. CASE /\ journal' = Append(journal, ResetMarker) /\ mode' = "ready"
             /\ mem' = [mem EXCEPT !.max_sequence = 1]
    <3>1. ResetMarker.kind = "reset" /\ ResetMarker.sequence = 1
          /\ ResetMarker.covered = snapshot.max_sequence
        BY DEF ResetMarker
    <3>2. FilesOK(snapshot, Append(<<>>, ResetMarker), ledger)
        BY <1>2, <1>4, <2>2, <3>1, FilesMarked
    <3>3. ResetMarker \in WholeRecord
      <4>1. snapshot.max_sequence \in Sequence
          BY DEF TypeInv, SnapshotImage, SnapshotType
      <4> QED
          BY <4>1 DEF ResetMarker, WholeRecord, MarkerEntry, Sequence, StoreAssumption
    <3>4. journal' \in Seq(WholeRecord) /\ journal' # <<>> /\ Len(journal') = 1 /\ journal'[1] = ResetMarker
        BY <2>2, <2>4, <3>3
    <3>5. Intact' = journal'
        BY <3>4, IntactOfWhole DEF Intact
    <3>6. mem'.latest = mem.latest /\ mem'.next_placement_id = mem.next_placement_id
          /\ mem'.max_sequence = 1
        BY <2>4 DEF TypeInv, Image, MemType
    <3>7. UpToDate(mem', ledger')
        BY <1>1, <2>2, <3>6 DEF UpToDate
    <3>8. LastSequence(snapshot', Intact') = 1
        BY <3>1, <3>4, <3>5 DEF LastSequence
    <3> QED
        BY <1>1, <2>1, <2>2, <2>4, <3>2, <3>5, <3>6, <3>7, <3>8 DEF TailInv, MemInv
  <2> QED
      BY <2>1, <2>3, <2>4
<1> QED
    BY <1>6, <1>7, <1>8, <1>9

\* Open gives a process the image the files are up to date with, and cuts what is
\* torn; OpenReadOnly leaves the files alone.
LEMMA OpenKeepsFiles ==
    ASSUME StoreAssumption, TypeInv, FilesInv, Open \/ OpenReadOnly
    PROVE  FilesInv'
<1> SUFFICES ASSUME ~appendFailed'
             PROVE  TailInv' /\ FilesOK(snapshot, Intact, ledger)' /\ MemInv'
    BY DEF FilesInv
<1>1. ~appendFailed /\ ledger' = ledger /\ snapshot' = snapshot
    BY DEF Open, OpenReadOnly, files, history
<1>2. TailInv /\ FilesOK(snapshot, Intact, ledger)
    BY <1>1 DEF FilesInv
<1>3. Intact \in Seq(WholeRecord)
    BY IntactRecords DEF Intact, TypeInv
<1>4. IntactPrefix(Intact) = Intact
    BY <1>3, IntactOfWhole
<1>5. CASE OpenReadOnly
  <2>1. journal' = journal /\ mode' \in {"reading", "refused"}
      BY <1>5 DEF OpenReadOnly, files
  <2> QED
      BY <1>1, <1>2, <2>1 DEF TailInv, MemInv, Intact, Compacting
<1>6. CASE Open
  <2>1. journal' \in {journal, Intact}
      BY <1>6 DEF Open, Repaired, Intact
  <2>2. Intact' = Intact
      BY <1>4, <2>1 DEF Intact
  <2>3. CASE Recovered.status = "ok"
    <3>1. mode' = "ready" /\ mem' = Recovered.mem /\ journal' = Intact
        BY <1>6, <2>3 DEF Open, Repaired, Intact
    <3> DEFINE R == LoadedFiles(snapshot, journal)
    <3>2. R \in LoadState /\ Recovered.mem = Accounted(R.mem) /\ R.status = "ok"
        BY <2>3, LoadedFilesState DEF Recovered, TypeInv
    <3>3. UpToDate(R.mem, ledger) /\ R.mem.max_sequence = LastSequence(snapshot, Intact)
        BY <1>2, <3>2 DEF FilesOK, ReplayOK, LoadedFiles, Intact
    <3> HIDE DEF R
    <3>4. Accounted(R.mem) = [R.mem EXCEPT !.attempts = Accounted(R.mem).attempts] /\ R.mem \in Image
        BY <3>2, AccountedImage DEF LoadState
    <3>5. /\ mem'.latest = R.mem.latest /\ mem'.next_placement_id = R.mem.next_placement_id
          /\ mem'.max_sequence = R.mem.max_sequence
        BY <3>1, <3>2, <3>4 DEF Image, MemType
    <3> QED
        BY <1>1, <1>2, <2>2, <3>1, <3>3, <3>5 DEF TailInv, MemInv, UpToDate
  <2>4. CASE Recovered.status # "ok"
    <3>1. mode' = "refused"
        BY <1>6, <2>4 DEF Open
    <3> QED
        BY <1>1, <1>2, <2>1, <2>2, <3>1 DEF TailInv, MemInv, Compacting
  <2> QED
      BY <2>3, <2>4
<1> QED
    BY <1>5, <1>6

LEMMA FilesInit == StoreAssumption /\ Init => FilesInv
<1> SUFFICES ASSUME StoreAssumption, Init PROVE FilesInv
    OBVIOUS
<1>1. Intact = <<>>
  <2>1. <<>> \in Seq(WholeRecord)
      OBVIOUS
  <2> QED
      BY <2>1, IntactOfWhole DEF Init, Intact
<1>2. Len(<<>>) = 0
    OBVIOUS
<1>3. NumbersOK(<<>>) /\ UpToDate(NoSnapshot, <<>>)
    BY <1>2 DEF NumbersOK, UpToDate, NoSnapshot, LastOf, PlacedIn
<1>4. FilesOK(NoSnapshot, <<>>, <<>>)
    BY <1>3, EmptyImages, FilesEmpty
<1> QED
    BY <1>1, <1>4 DEF Init, FilesInv, TailInv, MemInv, Compacting

LEMMA FilesStep == StoreAssumption /\ TypeInv /\ FilesInv /\ [Next]_vars => FilesInv'
<1> SUFFICES ASSUME StoreAssumption, TypeInv, FilesInv, [Next]_vars
             PROVE  FilesInv'
    OBVIOUS
<1>1. CASE Open \/ OpenReadOnly
    BY <1>1, OpenKeepsFiles
<1>2. ASSUME NEW a \in Attempts, AppendAttemptStart(a)
      PROVE  FilesInv'
  <2> DEFINE r == [kind |-> "attempt", sequence |-> NextSequence, attempt |-> a, phase |-> "started"]
  <2>1. AppendRecordRaw(r) /\ WithinBudget
      BY <1>2 DEF AppendAttemptStart, AppendRecordRaw
  <2>2. NextRecord(r)
      BY <2>1, AppendedRecords DEF NextRecord, NextSequence, Phase
  <2> HIDE DEF r
  <2> QED
      BY <2>1, <2>2, AppendKeepsFiles
<1>3. ASSUME NEW a \in Attempts, NEW phase \in {"committed", "declined"},
             AppendAttemptTerminal(a, phase)
      PROVE  FilesInv'
  <2> DEFINE r == [kind |-> "attempt", sequence |-> NextSequence, attempt |-> a, phase |-> phase]
  <2>1. AppendRecordRaw(r) /\ WithinBudget
      BY <1>3 DEF AppendAttemptTerminal, AppendRecordRaw
  <2>2. NextRecord(r)
      BY <2>1, AppendedRecords DEF NextRecord, NextSequence, Phase
  <2> HIDE DEF r
  <2> QED
      BY <2>1, <2>2, AppendKeepsFiles
<1>4. ASSUME NEW a \in Attempts, CommitPlacement(a)
      PROVE  FilesInv'
  <2> DEFINE r == [kind |-> "placement", sequence |-> NextSequence, attempt |-> a,
                   id |-> mem.next_placement_id,
                   generation |-> Generation(mem.latest[FlowOf[a]]) + 1]
  <2>1. AppendRecordRaw(r) /\ WithinBudget /\ mem.next_placement_id <= MaxPlacements
      BY <1>4 DEF CommitPlacement, AppendRecordRaw
  <2>2. r \in PlacedRecord
      BY <2>1, AppendedRecords
  <2>3. NextRecord(r)
      BY <2>2 DEF NextRecord, NextSequence
  <2> HIDE DEF r
  <2> QED
      BY <2>1, <2>3, AppendKeepsFiles
<1>5. CASE Compact \/ CompactSnapshot \/ CompactJournal \/ CompactMarker
    BY <1>5, CompactKeepsFiles
<1>6. CASE Crash \/ Close
  <2>1. mode' = "down" /\ UNCHANGED <<snapshot, journal, ledger, appendFailed>>
      BY <1>6 DEF Crash, Close, Gone, files
  <2> QED
      BY <2>1 DEF FilesInv, TailInv, MemInv, Intact, Compacting
<1>7. CASE UNCHANGED vars
    BY <1>7 DEF vars, files, history, FilesInv, TailInv, MemInv, Intact
<1> QED
    BY <1>1, <1>2, <1>3, <1>4, <1>5, <1>6, <1>7 DEF Next

LEMMA FilesInvHolds == Spec => [](TypeInv /\ FilesInv)
<1>1. StoreAssumption /\ Init => TypeInv /\ FilesInv
    BY TypeInit, FilesInit
<1>2. StoreAssumption /\ (TypeInv /\ FilesInv) /\ [Next]_vars => (TypeInv /\ FilesInv)'
    BY TypeStep, FilesStep
<1> QED
    BY <1>1, <1>2, StoreAssumption, PTL DEF Spec

-----------------------------------------------------------------------------
(* Unfinished attempts, as long as no file operation has failed.             *)

PlacedAttempts(l) == {l[i].attempt : i \in 1 .. Len(l)}

\* The attempts an image has heard of, or has forgotten because they aged out.
Known(m, T) == \A a \in T : a \in m.retired \/ m.attempts[a].phase # "none"
\* What the recovery accounting needs: the placement of a started attempt is there.
Traceable(m, l) ==
    \A a \in PlacedAttempts(l) :
        a \in m.retired \/ m.attempts[a].phase # "started" \/ Committed(m, a)
Accountable(m, l, T) == Traceable(m, l) /\ Known(m, PlacedAttempts(l) \cup T)

\* What a running process guarantees: that placement is even the latest of its
\* flow, so that a snapshot keeps it.
LatestIs(m, a) ==
    m.latest[FlowOf[a]] \in m.placements /\ m.latest[FlowOf[a]].attempt = a
Settled(m, l) ==
    \A a \in PlacedAttempts(l) :
        a \in m.retired \/ m.attempts[a].phase # "started" \/ LatestIs(m, a)

Read == LoadedFiles(snapshot, journal)

UnfinishedInv ==
    faults = 0 =>
        /\ ~appendFailed
        /\ Read.status = "ok" => Accountable(Read.mem, ledger, admitted)
        /\ mode \in {"ready"} \cup Compacting =>
              Settled(mem, ledger) /\ Known(mem, PlacedAttempts(ledger) \cup admitted)
        /\ mode \in {"journal", "marker"} => Accountable(LoadSnapshot(snapshot), ledger, admitted)

LEMMA PlacedAreAttempts ==
    ASSUME NEW l \in Seq(PlacedRecord)
    PROVE  /\ PlacedAttempts(l) \subseteq Attempts
           /\ \A r \in PlacedRecord : PlacedAttempts(Append(l, r)) = PlacedAttempts(l) \cup {r.attempt}
<1>1. PlacedAttempts(l) \subseteq Attempts
    BY DEF PlacedAttempts, PlacedRecord, PlacementRecord
<1>2. ASSUME NEW r \in PlacedRecord
      PROVE  PlacedAttempts(Append(l, r)) = PlacedAttempts(l) \cup {r.attempt}
  <2> DEFINE h == Append(l, r)
  <2>1. /\ Len(l) \in Nat /\ Len(h) = Len(l) + 1 /\ h[Len(l) + 1] = r
        /\ \A i \in 1 .. Len(l) : h[i] = l[i]
      OBVIOUS
  <2> HIDE DEF h
  <2>2. \A i \in 1 .. Len(h) : i = Len(l) + 1 \/ i \in 1 .. Len(l)
      BY <2>1
  <2>3. Len(l) + 1 \in 1 .. Len(h) /\ \A i \in 1 .. Len(l) : i \in 1 .. Len(h)
      BY <2>1
  <2>4. PlacedAttempts(h) = PlacedAttempts(l) \cup {r.attempt}
      BY <2>1, <2>2, <2>3 DEF PlacedAttempts
  <2> QED
      BY <2>4 DEF h
<1> QED
    BY <1>1, <1>2

\* What an attempt record leaves alone.
LEMMA AttemptFields ==
    ASSUME StoreAssumption, NEW m \in Image, NEW r \in AttemptEntry
    PROVE  /\ Applied(m, r).placements = m.placements /\ Applied(m, r).latest = m.latest
           /\ Applied(m, r).retired = m.retired
           /\ Applied(m, r).attempts = [m.attempts EXCEPT ![r.attempt] =
                                            [phase |-> r.phase, sequence |-> r.sequence]]
<1> DEFINE at == [m.attempts EXCEPT ![r.attempt] = [phase |-> r.phase, sequence |-> r.sequence]]
<1>1. Applied(m, r) = [m EXCEPT !.attempts = at, !.max_sequence = r.sequence]
    BY AttemptAppliedImage DEF Applied, AttemptEntry
<1> HIDE DEF at
<1>2. /\ Applied(m, r).placements = m.placements /\ Applied(m, r).latest = m.latest
      /\ Applied(m, r).retired = m.retired /\ Applied(m, r).attempts = at
    BY <1>1 DEF Image, MemType
<1> QED
    BY <1>2 DEF at

\* And a placement.
LEMMA PlacementFields ==
    ASSUME StoreAssumption, NEW m \in Image, NEW r \in PlacedRecord
    PROVE  /\ Applied(m, r).placements = m.placements \cup {r}
           /\ Applied(m, r).latest = [m.latest EXCEPT ![FlowOf[r.attempt]] = r]
           /\ Applied(m, r).retired = m.retired /\ Applied(m, r).attempts = m.attempts
<1>1. Applied(m, r) = PlacementApplied(m, r)
    BY DEF Applied, PlacedRecord, PlacementRecord
<1> QED
    BY <1>1, PlacementAppliedImage

\* The attempt of a record, after it was applied.
LEMMA AttemptNoted ==
    ASSUME StoreAssumption, NEW m \in Image, NEW r \in AttemptEntry, NEW a \in Attempts
    PROVE  /\ Applied(m, r).attempts[a].phase =
                 IF a = r.attempt THEN r.phase ELSE m.attempts[a].phase
           /\ r.phase # "none"
<1>1. m.attempts \in [Attempts -> AttemptRecord] /\ r.attempt \in Attempts /\ r.phase # "none"
    BY DEF Image, MemType, AttemptEntry
<1>2. Applied(m, r).attempts = [m.attempts EXCEPT ![r.attempt] =
                                            [phase |-> r.phase, sequence |-> r.sequence]]
    BY AttemptFields
<1> QED
    BY <1>1, <1>2

\* A record that is applied keeps an image accountable: a start record is refused
\* for an attempt that is terminal, and one that is still started has its
\* placement there.
LEMMA AppliedAccountable ==
    ASSUME StoreAssumption, NEW m \in Image, NEW l \in Seq(PlacedRecord), NEW T \in SUBSET Attempts,
           Accountable(m, l, T), NEW r \in PlacedRecord \cup AttemptEntry,
           r.kind = "attempt" /\ r.phase = "started" => ~Terminal(m.attempts[r.attempt])
    PROVE  Accountable(Applied(m, r), l, T)
<1> DEFINE n == Applied(m, r)
<1>1. PlacedAttempts(l) \subseteq Attempts
    BY PlacedAreAttempts
<1>2. Traceable(m, l) /\ Known(m, PlacedAttempts(l) \cup T)
    BY DEF Accountable
<1>3. CASE r \in PlacedRecord
  <2>1. n.placements = m.placements \cup {r} /\ n.retired = m.retired /\ n.attempts = m.attempts
      BY <1>3, PlacementFields
  <2> HIDE DEF n
  <2>2. \A a : Committed(m, a) => Committed(n, a)
      BY <2>1 DEF Committed
  <2>3. Traceable(n, l) /\ Known(n, PlacedAttempts(l) \cup T)
      BY <1>2, <2>1, <2>2 DEF Traceable, Known
  <2> QED
      BY <2>3 DEF Accountable, n
<1>4. CASE r \in AttemptEntry
  <2>1. n.placements = m.placements /\ n.retired = m.retired
      BY <1>4, AttemptFields
  <2>2. \A a \in Attempts : n.attempts[a].phase = IF a = r.attempt THEN r.phase ELSE m.attempts[a].phase
      BY <1>4, AttemptNoted
  <2>3. r.phase # "none" /\ r.kind = "attempt" /\ r.attempt \in Attempts
      BY <1>4 DEF AttemptEntry
  <2>4. m.attempts[r.attempt].phase \in Phase
      BY <2>3 DEF Image, MemType, AttemptRecord
  <2> HIDE DEF n
  <2>5. \A a : Committed(m, a) <=> Committed(n, a)
      BY <2>1 DEF Committed
  <2>6. Known(n, PlacedAttempts(l) \cup T)
      BY <1>1, <1>2, <2>1, <2>2, <2>3 DEF Known
  <2>7. ASSUME NEW a \in PlacedAttempts(l), a \notin n.retired, n.attempts[a].phase = "started"
        PROVE  Committed(n, a)
    <3>1. a \in Attempts /\ a \notin m.retired
        BY <1>1, <2>1, <2>7
    <3>2. m.attempts[a].phase = "started"
      <4>1. CASE a = r.attempt
        <5>1. r.phase = "started"
            BY <2>2, <2>7, <3>1, <4>1
        <5>2. ~Terminal(m.attempts[a]) /\ m.attempts[a].phase # "none"
            BY <1>2, <2>3, <3>1, <4>1, <5>1 DEF Known
        <5> QED
            BY <2>4, <4>1, <5>2 DEF Terminal, Phase
      <4>2. CASE a # r.attempt
          BY <2>2, <2>7, <3>1, <4>2
      <4> QED
          BY <4>1, <4>2
    <3> QED
        BY <1>2, <2>5, <3>1, <3>2 DEF Traceable
  <2>8. Traceable(n, l)
      BY <2>7 DEF Traceable
  <2> QED
      BY <2>6, <2>8 DEF Accountable, n
<1> QED
    BY <1>3, <1>4

\* One turn of the loop.
LEMMA ReplayedAccountable ==
    ASSUME StoreAssumption, NEW l \in Seq(PlacedRecord), NEW T \in SUBSET Attempts,
           NEW s \in LoadState, NEW r \in WholeRecord, NEW c,
           s.status = "ok" => Accountable(s.mem, l, T),
           Replayed(s, r, c).status = "ok"
    PROVE  Accountable(Replayed(s, r, c).mem, l, T)
<1> DEFINE y == Replayed(s, r, c)
<1>1. s.mem \in Image
    BY DEF LoadState
<1>2. s.status = "ok" /\ Accountable(s.mem, l, T)
    BY DEF Replayed
<1>3. CASE r.kind = "reset"
  <2>1. y = [s EXCEPT !.mem = MarkerApplied(s.mem, r)]
      BY <1>2, <1>3 DEF Replayed, LoadState
  <2>2. /\ y.mem.placements = s.mem.placements /\ y.mem.attempts = s.mem.attempts
        /\ y.mem.retired = s.mem.retired
      BY <1>1, <2>1 DEF MarkerApplied, LoadState, Image, MemType
  <2> HIDE DEF y
  <2>3. Accountable(y.mem, l, T)
      BY <1>2, <2>2 DEF Accountable, Traceable, Known, Committed
  <2> QED
      BY <2>3 DEF y
<1>4. CASE r.kind # "reset"
  <2>1. r \in PlacedRecord \cup AttemptEntry
      BY <1>4, RecordKinds
  <2>2. \/ y = s
        \/ /\ y = [s EXCEPT !.mem = Applied(s.mem, r)]
           /\ r.kind = "attempt" /\ r.phase = "started" => ~Terminal(s.mem.attempts[r.attempt])
    <3>1. \A x : x # "ok" => [s EXCEPT !.status = x].status # "ok"
        BY DEF LoadState
    <3> QED
        BY <1>2, <1>4, <3>1 DEF Replayed
  <2>3. CASE y = s
      BY <1>2, <2>3
  <2>4. CASE /\ y = [s EXCEPT !.mem = Applied(s.mem, r)]
             /\ r.kind = "attempt" /\ r.phase = "started" => ~Terminal(s.mem.attempts[r.attempt])
    <3>1. y.mem = Applied(s.mem, r)
        BY <2>4 DEF LoadState
    <3> QED
        BY <1>1, <1>2, <2>1, <2>4, <3>1, AppliedAccountable
  <2> QED
      BY <2>2, <2>3, <2>4
<1> QED
    BY <1>3, <1>4

\* LoadJournal, over any journal.
LEMMA LoadAccountable ==
    ASSUME StoreAssumption, NEW l \in Seq(PlacedRecord), NEW T \in SUBSET Attempts,
           NEW m \in Image, Accountable(m, l, T), NEW j \in Seq(WholeRecord),
           LoadJournal(m, j).status = "ok"
    PROVE  Accountable(LoadJournal(m, j).mem, l, T)
<1> DEFINE Good == {x \in LoadState : x.status = "ok" => Accountable(x.mem, l, T)}
           G == [i \in 0 .. Len(j) |-> Good]
<1>1. Loaded(m) \in Good
    BY DEF Loaded, LoadState
<1>2. ASSUME NEW i \in 1 .. Len(j), NEW s \in Good
      PROVE  Replayed(s, j[i], m.max_sequence) \in Good
  <2>1. s \in LoadState /\ j[i] \in WholeRecord /\ (s.status = "ok" => Accountable(s.mem, l, T))
      OBVIOUS
  <2>2. Replayed(s, j[i], m.max_sequence) \in LoadState
      BY <2>1, ReplayedState
  <2> QED
      BY <2>1, <2>2, ReplayedAccountable
<1>3. Len(j) \in Nat /\ \A i \in 0 .. Len(j) : G[i] = Good
    OBVIOUS
<1>4. \A i \in 1 .. Len(j) : i - 1 \in 0 .. Len(j) /\ i \in 0 .. Len(j)
    BY <1>3
<1>5. 0 \in 0 .. Len(j) /\ Len(j) \in 0 .. Len(j)
    BY <1>3
<1> HIDE DEF G, Good
<1>6. LoadJournal(m, j) \in G[Len(j)]
  <2>1. Loaded(m) \in G[0]
      BY <1>1, <1>3, <1>5
  <2>2. \A i \in 1 .. Len(j) : \A s \in G[i - 1] : Replayed(s, j[i], m.max_sequence) \in G[i]
      BY <1>2, <1>3, <1>4
  <2> QED
      BY <1>3, <2>1, <2>2, LoadInduction
<1>7. LoadJournal(m, j) \in Good
    BY <1>3, <1>5, <1>6
<1> QED
    BY <1>7 DEF Good

\* What the callers of AppendRecordRaw have checked.
Permitted(r) ==
    /\ r.kind = "attempt" /\ r.phase = "started" =>
          ~Terminal(mem.attempts[r.attempt]) /\ ~Committed(mem, r.attempt)
    /\ r.kind = "placement" => r.attempt \in admitted /\ CommitMuFree

\* The journal with one record more, as Open would read it.
LEMMA AppendAccountable ==
    ASSUME StoreAssumption, TypeInv, FilesInv, UnfinishedInv, faults = 0, mode = "ready",
           NEW r, NextRecord(r), Permitted(r),
           LoadedFiles(snapshot, Append(journal, r)).status = "ok"
    PROVE  Accountable(LoadedFiles(snapshot, Append(journal, r)).mem, LedgerWith(r),
                       admitted \cup {r.attempt})
<1> DEFINE m == LoadSnapshot(snapshot)
           R == LoadJournal(m, journal)
           Q == LoadJournal(m, Append(journal, r))
<1>1. ~appendFailed /\ journal = Intact /\ mem.max_sequence = LastSequence(snapshot, journal)
      /\ FilesOK(snapshot, journal, ledger)
    BY DEF UnfinishedInv, FilesInv, TailInv, MemInv
<1>2. journal \in Seq(WholeRecord) /\ m \in Image
    BY <1>1, IntactRecords, LoadSnapshotImage DEF TypeInv, Intact
<1>3. LoadedFiles(snapshot, Append(journal, r)) = Q /\ Read = R
    BY <1>1, AppendFiles DEF LoadedFiles, Read, Intact
<1>4. R \in LoadState /\ Q = Replayed(R, r, m.max_sequence)
    BY <1>2, LoadJournalState, LoadAppend
<1> HIDE DEF m, R, Q
<1>5. Q.status = "ok" /\ R.status = "ok"
    BY <1>3, <1>4 DEF Replayed
<1>6. R.mem.max_sequence = LastSequence(snapshot, journal)
    BY <1>1, <1>5 DEF FilesOK, ReplayOK, R, m
<1>7. r \in PlacedRecord \cup AttemptEntry /\ r.sequence = R.mem.max_sequence + 1 /\ R.mem \in Image
      /\ R.mem.max_sequence \in Nat
  <2>1. R.mem \in Image
      BY <1>4 DEF LoadState
  <2> QED
      BY <1>1, <1>6, <2>1 DEF NextRecord, Image, MemType, Sequence, StoreAssumption
<1>8. r.kind \in {"placement", "attempt"} /\ r.attempt \in Attempts
      /\ (r.kind = "placement" <=> r \in PlacedRecord) /\ (r.kind = "attempt" <=> r \in AttemptEntry)
    BY <1>7 DEF PlacedRecord, PlacementRecord, AttemptEntry
<1>9. ~(r.sequence <= R.mem.max_sequence)
    BY <1>7
<1>10. Q.mem = Applied(R.mem, r)
       /\ (r.kind = "attempt" /\ r.phase = "started" => ~Terminal(R.mem.attempts[r.attempt]))
  <2>1. [R EXCEPT !.status = "restarted"].status # "ok" /\ [R EXCEPT !.mem = Applied(R.mem, r)].mem = Applied(R.mem, r)
      BY <1>4 DEF LoadState
  <2> QED
      BY <1>4, <1>5, <1>7, <1>8, <1>9, <2>1 DEF Replayed
<1>11. Accountable(R.mem, ledger, admitted) /\ ledger \in Seq(PlacedRecord) /\ admitted \subseteq Attempts
    BY <1>3, <1>5 DEF UnfinishedInv, TypeInv
<1>12. Accountable(Q.mem, ledger, admitted)
    BY <1>7, <1>10, <1>11, AppliedAccountable
<1>13. CASE r.kind = "attempt"
  <2>1. LedgerWith(r) = ledger
      BY <1>13 DEF LedgerWith
  <2>2. Q.mem.attempts[r.attempt].phase # "none"
      BY <1>7, <1>8, <1>10, <1>13, AttemptNoted
  <2>3. Known(Q.mem, PlacedAttempts(ledger) \cup (admitted \cup {r.attempt}))
      BY <1>12, <2>2 DEF Accountable, Known
  <2> QED
      BY <1>3, <1>12, <2>1, <2>3 DEF Accountable
<1>14. CASE r.kind = "placement"
  <2>1. PlacedAttempts(LedgerWith(r)) = PlacedAttempts(ledger) \cup {r.attempt}
      BY <1>8, <1>11, <1>14, PlacedAreAttempts DEF LedgerWith
  <2>2. r.attempt \in admitted
      BY <1>14 DEF Permitted
  <2>3. Committed(Q.mem, r.attempt)
    <3>1. Applied(R.mem, r).placements = R.mem.placements \cup {r}
        BY <1>7, <1>8, <1>14, PlacementFields
    <3>2. r \in Q.mem.placements
        BY <1>10, <3>1
    <3> QED
        BY <3>2 DEF Committed
  <2>4. Known(Q.mem, PlacedAttempts(LedgerWith(r)) \cup (admitted \cup {r.attempt}))
      BY <1>12, <2>1, <2>2 DEF Accountable, Known
  <2>5. Traceable(Q.mem, LedgerWith(r))
      BY <1>12, <2>1, <2>3 DEF Accountable, Traceable
  <2> QED
      BY <1>3, <2>4, <2>5 DEF Accountable
<1> QED
    BY <1>8, <1>13, <1>14

\* The memory after it: an attempt that is started again has aged out, and no
\* other placement is unjournalled when one is made.
LEMMA AppendSettled ==
    ASSUME StoreAssumption, TypeInv, UnfinishedInv, faults = 0, mode = "ready",
           NEW r, NextRecord(r), Permitted(r)
    PROVE  /\ Settled(Applied(mem, r), LedgerWith(r))
           /\ Known(Applied(mem, r), PlacedAttempts(LedgerWith(r)) \cup (admitted \cup {r.attempt}))
<1> DEFINE n == Applied(mem, r)
           P == PlacedAttempts(ledger)
<1>1. Settled(mem, ledger) /\ Known(mem, P \cup admitted)
    BY DEF UnfinishedInv
<1>2. mem \in Image /\ ledger \in Seq(PlacedRecord) /\ admitted \subseteq Attempts /\ P \subseteq Attempts
    BY PlacedAreAttempts DEF TypeInv
<1>3. r.kind \in {"placement", "attempt"} /\ r.attempt \in Attempts
      /\ (r.kind = "placement" <=> r \in PlacedRecord) /\ (r.kind = "attempt" <=> r \in AttemptEntry)
    BY DEF NextRecord, PlacedRecord, PlacementRecord, AttemptEntry
<1>4. \A a \in P : a \in mem.retired \/ mem.attempts[a].phase # "started" \/ Committed(mem, a)
    BY <1>1 DEF Settled, LatestIs, Committed
<1>5. CASE r.kind = "attempt"
  <2>1. LedgerWith(r) = ledger
      BY <1>5 DEF LedgerWith
  <2>2. n.placements = mem.placements /\ n.latest = mem.latest /\ n.retired = mem.retired
      BY <1>2, <1>3, <1>5, AttemptFields
  <2>3. /\ \A a \in Attempts : n.attempts[a].phase = IF a = r.attempt THEN r.phase ELSE mem.attempts[a].phase
        /\ r.phase # "none"
      BY <1>2, <1>3, <1>5, AttemptNoted
  <2> HIDE DEF n, P
  <2>4. Known(n, P \cup (admitted \cup {r.attempt}))
      BY <1>1, <1>2, <1>3, <2>2, <2>3 DEF Known
  <2>5. ASSUME NEW a \in P, a \notin n.retired, n.attempts[a].phase = "started"
        PROVE  LatestIs(n, a)
    <3>1. a \in Attempts /\ a \notin mem.retired
        BY <1>2, <2>2, <2>5
    <3>2. a # r.attempt
      <4> SUFFICES ASSUME a = r.attempt PROVE FALSE
          OBVIOUS
      <4>1. r.phase = "started"
          BY <2>3, <2>5, <3>1
      <4>2. ~Terminal(mem.attempts[a]) /\ ~Committed(mem, a)
          BY <1>5, <4>1 DEF Permitted
      <4>3. mem.attempts[a].phase \in Phase /\ mem.attempts[a].phase # "none"
          BY <1>1, <1>2, <3>1 DEF Known, Image, MemType, AttemptRecord
      <4>4. mem.attempts[a].phase = "started"
          BY <4>2, <4>3 DEF Terminal, Phase
      <4> QED
          BY <1>4, <3>1, <4>2, <4>4
    <3>3. mem.attempts[a].phase = "started"
        BY <2>3, <2>5, <3>1, <3>2
    <3>4. LatestIs(mem, a)
        BY <1>1, <3>1, <3>3 DEF Settled, P
    <3> QED
        BY <2>2, <3>4 DEF LatestIs
  <2>6. Settled(n, ledger)
      BY <2>5 DEF Settled, P
  <2> QED
      BY <2>1, <2>4, <2>6 DEF n, P
<1>6. CASE r.kind = "placement"
  <2>1. PlacedAttempts(LedgerWith(r)) = P \cup {r.attempt}
      BY <1>2, <1>3, <1>6, PlacedAreAttempts DEF LedgerWith
  <2>2. /\ n.placements = mem.placements \cup {r} /\ n.retired = mem.retired
        /\ n.latest = [mem.latest EXCEPT ![FlowOf[r.attempt]] = r] /\ n.attempts = mem.attempts
      BY <1>2, <1>3, <1>6, PlacementFields
  <2>3. r.attempt \in admitted /\ CommitMuFree
      BY <1>6 DEF Permitted
  <2>4. n.latest[FlowOf[r.attempt]] = r
      BY <1>2, <1>3, <2>2 DEF Image, MemType, StoreAssumption
  <2> HIDE DEF n, P
  <2>5. Known(n, (P \cup {r.attempt}) \cup (admitted \cup {r.attempt}))
      BY <1>1, <2>2, <2>3 DEF Known
  <2>6. LatestIs(n, r.attempt)
      BY <2>2, <2>4 DEF LatestIs
  <2>7. \A a \in P : a \in n.retired \/ n.attempts[a].phase # "started"
      BY <1>2, <1>4, <2>2, <2>3 DEF CommitMuFree
  <2>8. Settled(n, LedgerWith(r))
      BY <2>1, <2>6, <2>7 DEF Settled
  <2> QED
      BY <2>1, <2>5, <2>8 DEF n
<1> QED
    BY <1>3, <1>5, <1>6

LEMMA AppendKeepsUnfinished ==
    ASSUME StoreAssumption, TypeInv, FilesInv, UnfinishedInv, NEW r, NextRecord(r), Permitted(r),
           AppendRecordRaw(r)
    PROVE  UnfinishedInv'
<1> SUFFICES ASSUME faults' = 0
             PROVE  /\ ~appendFailed'
                    /\ Read'.status = "ok" => Accountable(Read.mem, ledger, admitted)'
                    /\ mode' \in {"ready"} \cup Compacting =>
                          (Settled(mem, ledger) /\ Known(mem, PlacedAttempts(ledger) \cup admitted))'
                    /\ mode' \notin {"journal", "marker"}
    BY DEF UnfinishedInv
<1>1. mode = "ready" /\ faults \in Nat
    BY DEF AppendRecordRaw, TypeInv
<1>2. CASE AppendFails(r)
    BY <1>1, <1>2 DEF AppendFails, MayFail
<1>3. CASE Appended(r)
  <2>1. /\ faults = 0 /\ appendFailed' = appendFailed /\ snapshot' = snapshot
        /\ journal' = Append(journal, r) /\ ledger' = LedgerWith(r) /\ mem' = Applied(mem, r)
        /\ admitted' = admitted \cup {r.attempt} /\ mode' \in {"ready", "snapshot"}
      BY <1>3 DEF Appended
  <2>2. Read' = LoadedFiles(snapshot, Append(journal, r))
      BY <2>1 DEF Read
  <2>3. Read'.status = "ok" => Accountable(Read.mem, ledger, admitted)'
      BY <1>1, <2>1, <2>2, AppendAccountable
  <2>4. (Settled(mem, ledger) /\ Known(mem, PlacedAttempts(ledger) \cup admitted))'
      BY <1>1, <2>1, AppendSettled
  <2> QED
      BY <2>1, <2>3, <2>4 DEF UnfinishedInv
<1>4. CASE AppendCrashes(r)
  <2>1. /\ faults = 0 /\ appendFailed' = appendFailed /\ snapshot' = snapshot /\ mode' = "down"
        /\ admitted' = {} /\ ~appendFailed
      BY <1>4 DEF AppendCrashes, Gone, UnfinishedInv
  <2>2. Read'.status = "ok" => Accountable(Read.mem, ledger, admitted)'
    <3>1. CASE journal' = Append(journal, Torn) /\ ledger' = ledger
      <4>1. Read' = Read
          BY <1>1, <2>1, <3>1, AppendFiles DEF Read, LoadedFiles, FilesInv, TailInv, Intact
      <4>2. Read.status = "ok" => Accountable(Read.mem, ledger, admitted)
          BY <2>1 DEF UnfinishedInv
      <4> QED
          BY <2>1, <3>1, <4>1, <4>2 DEF Accountable, Known
    <3>2. CASE journal' = Append(journal, r) /\ ledger' = LedgerWith(r)
      <4>1. Read' = LoadedFiles(snapshot, Append(journal, r))
          BY <2>1, <3>2 DEF Read
      <4>2. Read'.status = "ok" => Accountable(Read'.mem, LedgerWith(r), admitted \cup {r.attempt})
          BY <1>1, <2>1, <4>1, AppendAccountable
      <4> QED
          BY <2>1, <3>2, <4>2 DEF Accountable, Known
    <3> QED
        BY <1>4, <3>1, <3>2 DEF AppendCrashes
  <2> QED
      BY <2>1, <2>2 DEF Compacting
<1> QED
    BY <1>2, <1>3, <1>4 DEF AppendRecordRaw

\* The snapshot Compact writes keeps what the accounting needs: what it drops has
\* aged out, and the placement of a started attempt is the latest of its flow.
LEMMA SnapshotAccountable ==
    ASSUME StoreAssumption, TypeInv, NEW T \in SUBSET Attempts,
           Settled(mem, ledger), Known(mem, PlacedAttempts(ledger) \cup T)
    PROVE  Accountable(LoadSnapshot(SnapshotOfMem), ledger, T)
<1> DEFINE m == LoadSnapshot(SnapshotOfMem)
           P == PlacedAttempts(ledger)
<1>1. /\ m.placements = {mem.latest[f] : f \in Flows} \ {NoPlacement}
      /\ m.attempts = [a \in Attempts |-> IF AgedOut(a) THEN NoAttempt ELSE mem.attempts[a]]
      /\ m.retired = mem.retired \cup {a \in Attempts : AgedOut(a)}
    BY DEF LoadSnapshot, SnapshotOfMem
<1>2. P \subseteq Attempts /\ mem.placements \subseteq PlacementRecord
    BY PlacedAreAttempts DEF TypeInv, Image, MemType
<1> HIDE DEF m, P
<1>3. \A a \in Attempts : a \notin m.retired =>
          a \notin mem.retired /\ m.attempts[a] = mem.attempts[a]
    BY <1>1
<1>4. Known(m, P \cup T)
    BY <1>2, <1>3 DEF Known, P
<1>5. ASSUME NEW a \in P, a \notin m.retired, m.attempts[a].phase = "started"
      PROVE  Committed(m, a)
  <2>1. LatestIs(mem, a) /\ a \in Attempts
      BY <1>2, <1>3, <1>5 DEF Settled, P
  <2>2. FlowOf[a] \in Flows /\ mem.latest[FlowOf[a]] # NoPlacement
      BY <1>2, <2>1, NoPlacementAssumption DEF LatestIs, StoreAssumption
  <2>3. mem.latest[FlowOf[a]] \in m.placements
      BY <1>1, <2>2
  <2> QED
      BY <2>1, <2>3 DEF Committed, LatestIs
<1>6. Traceable(m, ledger)
    BY <1>5 DEF Traceable, P
<1> QED
    BY <1>4, <1>6 DEF Accountable, m, P

\* The same image under another last sequence.
LEMMA SequenceSettled ==
    ASSUME NEW m \in Image, NEW q, NEW l, NEW T, Settled(m, l), Known(m, T)
    PROVE  Settled([m EXCEPT !.max_sequence = q], l) /\ Known([m EXCEPT !.max_sequence = q], T)
<1> DEFINE n == [m EXCEPT !.max_sequence = q]
<1>1. /\ n.placements = m.placements /\ n.latest = m.latest
      /\ n.attempts = m.attempts /\ n.retired = m.retired
    BY DEF Image, MemType
<1> HIDE DEF n
<1>2. Settled(n, l) /\ Known(n, T)
    BY <1>1 DEF Settled, LatestIs, Known
<1> QED
    BY <1>2 DEF n

LEMMA CompactKeepsUnfinished ==
    ASSUME StoreAssumption, TypeInv, FilesInv, UnfinishedInv,
           Compact \/ CompactSnapshot \/ CompactJournal \/ CompactMarker
    PROVE  UnfinishedInv'
<1> SUFFICES ASSUME faults' = 0 PROVE UnfinishedInv'
    BY DEF UnfinishedInv
<1>1. faults = 0 /\ ledger' = ledger /\ faults' # faults + 1
    BY DEF Compact, CompactSnapshot, CompactJournal, CompactMarker, CompactFails, MayFail, history,
           TypeInv
<1>2. mode \in {"ready"} \cup Compacting /\ ~CompactFails
    BY <1>1 DEF Compact, CompactSnapshot, CompactJournal, CompactMarker, Compacting, CompactFails, MayFail
<1>3. /\ ~appendFailed
      /\ Read.status = "ok" => Accountable(Read.mem, ledger, admitted)
      /\ Settled(mem, ledger) /\ Known(mem, PlacedAttempts(ledger) \cup admitted)
      /\ mode \in {"journal", "marker"} => Accountable(LoadSnapshot(snapshot), ledger, admitted)
    BY <1>1, <1>2 DEF UnfinishedInv
<1>4. /\ ledger \in Seq(PlacedRecord) /\ admitted \in SUBSET Attempts /\ mem \in Image
      /\ snapshot \in SnapshotImage /\ Intact \in Seq(WholeRecord)
      /\ journal \in Seq(WholeRecord \cup {Torn})
    BY IntactRecords DEF TypeInv, Intact
<1>5. ASSUME NEW t \in SnapshotImage, NEW j \in Seq(WholeRecord \cup {Torn}),
             Accountable(LoadSnapshot(t), ledger, admitted), LoadedFiles(t, j).status = "ok"
      PROVE  Accountable(LoadedFiles(t, j).mem, ledger, admitted)
  <2>1. LoadSnapshot(t) \in Image /\ IntactPrefix(j) \in Seq(WholeRecord)
      BY LoadSnapshotImage, IntactRecords
  <2> QED
      BY <1>4, <1>5, <2>1, LoadAccountable DEF LoadedFiles
<1>6. CASE Compact
  <2>1. /\ mode' = "snapshot" /\ snapshot' = snapshot /\ journal' = journal /\ mem' = mem
        /\ admitted' = admitted /\ appendFailed' = appendFailed
      BY <1>6 DEF Compact, files, history
  <2>2. Read' = Read
      BY <2>1 DEF Read
  <2> QED
      BY <1>1, <1>3, <2>1, <2>2 DEF UnfinishedInv
<1>7. CASE CompactSnapshot
  <2>1. /\ snapshot' = SnapshotOfMem /\ mode' = "journal" /\ journal' = journal /\ mem' = mem
        /\ admitted' = admitted /\ appendFailed' = appendFailed
      BY <1>2, <1>7 DEF CompactSnapshot
  <2>2. Accountable(LoadSnapshot(SnapshotOfMem), ledger, admitted) /\ SnapshotOfMem \in SnapshotImage
      BY <1>3, <1>4, SnapshotAccountable, SnapshotTyped
  <2>3. Read' = LoadedFiles(SnapshotOfMem, journal)
      BY <2>1 DEF Read
  <2>4. Read'.status = "ok" => Accountable(Read'.mem, ledger, admitted)
      BY <1>4, <1>5, <2>2, <2>3
  <2> QED
      BY <1>1, <1>3, <2>1, <2>2, <2>4 DEF UnfinishedInv
<1>8. CASE CompactJournal
  <2>1. /\ mode = "journal" /\ snapshot' = snapshot /\ mode' = "marker" /\ journal' = <<>>
        /\ mem' = [mem EXCEPT !.max_sequence = 0]
        /\ admitted' = admitted /\ appendFailed' = appendFailed
      BY <1>2, <1>8 DEF CompactJournal
  <2>2. Settled(mem', ledger) /\ Known(mem', PlacedAttempts(ledger) \cup admitted)
      BY <1>3, <1>4, <2>1, SequenceSettled
  <2>3. Read' = LoadedFiles(snapshot, <<>>) /\ <<>> \in Seq(WholeRecord \cup {Torn})
      BY <2>1 DEF Read
  <2>4. Accountable(LoadSnapshot(snapshot), ledger, admitted)
      BY <1>3, <2>1
  <2>5. Read'.status = "ok" => Accountable(Read'.mem, ledger, admitted)
      BY <1>4, <1>5, <2>3, <2>4
  <2> QED
      BY <1>1, <1>3, <2>1, <2>2, <2>4, <2>5 DEF UnfinishedInv
<1>9. CASE CompactMarker
  <2>1. Accountable(LoadSnapshot(snapshot), ledger, admitted)
      BY <1>3, <1>9 DEF CompactMarker
  <2>2. /\ snapshot' = snapshot /\ appendFailed' = appendFailed
        /\ \/ /\ journal' = Append(journal, ResetMarker) /\ mode' = "ready"
              /\ mem' = [mem EXCEPT !.max_sequence = 1] /\ admitted' = admitted
           \/ mode' = "down" /\ admitted' = {}
      BY <1>2, <1>9 DEF CompactMarker, Gone, history
  <2>3. journal' \in Seq(WholeRecord \cup {Torn})
      BY <1>9, CompactTyped DEF TypeInv
  <2>4. Read' = LoadedFiles(snapshot, journal')
      BY <2>2 DEF Read
  <2>5. Read'.status = "ok" => Accountable(Read'.mem, ledger, admitted)
      BY <1>4, <1>5, <2>1, <2>3, <2>4
  <2>6. CASE mode' = "down" /\ admitted' = {}
    <3>1. Read'.status = "ok" => Accountable(Read'.mem, ledger, {})
        BY <2>5 DEF Accountable, Known
    <3> QED
        BY <1>1, <1>3, <2>2, <2>6, <3>1 DEF UnfinishedInv, Compacting
  <2>7. CASE mode' = "ready" /\ mem' = [mem EXCEPT !.max_sequence = 1] /\ admitted' = admitted
    <3>1. Settled(mem', ledger) /\ Known(mem', PlacedAttempts(ledger) \cup admitted)
        BY <1>3, <1>4, <2>7, SequenceSettled
    <3> QED
        BY <1>1, <1>3, <2>2, <2>5, <2>7, <3>1 DEF UnfinishedInv
  <2> QED
      BY <2>2, <2>6, <2>7
<1> QED
    BY <1>6, <1>7, <1>8, <1>9

\* The recovery accounting: what it leaves as started has not placed.
LEMMA AccountedSettled ==
    ASSUME NEW m \in Image, NEW l \in Seq(PlacedRecord), NEW T \in SUBSET Attempts, Accountable(m, l, T)
    PROVE  /\ \A a \in PlacedAttempts(l) :
                 a \in Accounted(m).retired \/ Accounted(m).attempts[a].phase # "started"
           /\ Known(Accounted(m), PlacedAttempts(l) \cup T)
<1> DEFINE n == Accounted(m)
           at == [a \in Attempts |->
                    IF m.attempts[a].phase = "started" /\ Committed(m, a)
                    THEN [m.attempts[a] EXCEPT !.phase = "committed"] ELSE m.attempts[a]]
<1>1. n = [m EXCEPT !.attempts = at]
    BY DEF Accounted, Image, MemType
<1>2. n.attempts = at /\ n.retired = m.retired
  <2> HIDE DEF at
  <2> QED
      BY <1>1 DEF Image, MemType
<1> HIDE DEF n
<1>3. \A a \in Attempts : m.attempts[a] \in AttemptRecord
    BY DEF Image, MemType
<1>4. ASSUME NEW a \in Attempts
      PROVE  n.attempts[a].phase = IF m.attempts[a].phase = "started" /\ Committed(m, a)
                                   THEN "committed" ELSE m.attempts[a].phase
    BY <1>2, <1>3 DEF AttemptRecord
<1>5. PlacedAttempts(l) \subseteq Attempts
    BY PlacedAreAttempts
<1>6. Known(n, PlacedAttempts(l) \cup T)
    BY <1>2, <1>4, <1>5 DEF Accountable, Known
<1>7. \A a \in PlacedAttempts(l) : a \in n.retired \/ n.attempts[a].phase # "started"
    BY <1>2, <1>4, <1>5 DEF Accountable, Traceable
<1> QED
    BY <1>6, <1>7 DEF n

LEMMA OpenKeepsUnfinished ==
    ASSUME StoreAssumption, TypeInv, FilesInv, UnfinishedInv, Open \/ OpenReadOnly
    PROVE  UnfinishedInv'
<1> SUFFICES ASSUME faults' = 0 PROVE UnfinishedInv'
    BY DEF UnfinishedInv
<1>1. /\ faults = 0 /\ ledger' = ledger /\ snapshot' = snapshot /\ admitted' = admitted
      /\ appendFailed' = appendFailed
    BY DEF Open, OpenReadOnly, files, history
<1>2. ~appendFailed /\ (Read.status = "ok" => Accountable(Read.mem, ledger, admitted))
    BY <1>1 DEF UnfinishedInv
<1>3. Intact' = Intact
  <2>1. Intact \in Seq(WholeRecord)
      BY IntactRecords DEF Intact, TypeInv
  <2>2. journal' \in {journal, Intact}
      BY DEF Open, OpenReadOnly, files, Repaired, Intact
  <2> QED
      BY <2>1, <2>2, IntactOfWhole DEF Intact
<1>4. Read' = Read
    BY <1>1, <1>3 DEF Read, LoadedFiles, Intact
<1>5. CASE mode' \notin {"ready"} \cup Compacting
    BY <1>1, <1>2, <1>4, <1>5 DEF UnfinishedInv, Compacting
<1>6. CASE mode' \in {"ready"} \cup Compacting
  <2>1. mode' = "ready" /\ Recovered.status = "ok" /\ mem' = Recovered.mem
      BY <1>6 DEF Open, OpenReadOnly, Compacting
  <2>2. Read \in LoadState /\ Recovered.mem = Accounted(Read.mem) /\ Read.status = "ok"
      BY <2>1, LoadedFilesState DEF Recovered, Read, TypeInv
  <2>3. Read.mem \in Image /\ ledger \in Seq(PlacedRecord) /\ admitted \in SUBSET Attempts
      BY <2>2 DEF LoadState, TypeInv
  <2>4. Settled(mem', ledger) /\ Known(mem', PlacedAttempts(ledger) \cup admitted)
      BY <1>2, <2>1, <2>2, <2>3, AccountedSettled DEF Settled
  <2> QED
      BY <1>1, <1>2, <1>4, <2>1, <2>4 DEF UnfinishedInv
<1> QED
    BY <1>5, <1>6

LEMMA UnfinishedInit == StoreAssumption /\ Init => UnfinishedInv
<1> SUFFICES ASSUME StoreAssumption, Init PROVE UnfinishedInv
    OBVIOUS
<1>1. PlacedAttempts(ledger) \cup admitted = {}
  <2>1. Len(<<>>) = 0
      OBVIOUS
  <2> QED
      BY <2>1 DEF Init, PlacedAttempts
<1> QED
    BY <1>1 DEF Init, UnfinishedInv, Accountable, Traceable, Known, Compacting

LEMMA UnfinishedStep ==
    StoreAssumption /\ TypeInv /\ FilesInv /\ UnfinishedInv /\ [Next]_vars => UnfinishedInv'
<1> SUFFICES ASSUME StoreAssumption, TypeInv, FilesInv, UnfinishedInv, [Next]_vars
             PROVE  UnfinishedInv'
    OBVIOUS
<1>1. CASE Open \/ OpenReadOnly
    BY <1>1, OpenKeepsUnfinished
<1>2. ASSUME NEW a \in Attempts, AppendAttemptStart(a)
      PROVE  UnfinishedInv'
  <2> DEFINE r == [kind |-> "attempt", sequence |-> NextSequence, attempt |-> a, phase |-> "started"]
  <2>1. AppendRecordRaw(r) /\ WithinBudget
      BY <1>2 DEF AppendAttemptStart, AppendRecordRaw
  <2>2. NextRecord(r)
      BY <2>1, AppendedRecords DEF NextRecord, NextSequence, Phase
  <2>3. Permitted(r)
      BY <1>2 DEF AppendAttemptStart, Permitted
  <2> HIDE DEF r
  <2> QED
      BY <2>1, <2>2, <2>3, AppendKeepsUnfinished
<1>3. ASSUME NEW a \in Attempts, NEW phase \in {"committed", "declined"},
             AppendAttemptTerminal(a, phase)
      PROVE  UnfinishedInv'
  <2> DEFINE r == [kind |-> "attempt", sequence |-> NextSequence, attempt |-> a, phase |-> phase]
  <2>1. AppendRecordRaw(r) /\ WithinBudget
      BY <1>3 DEF AppendAttemptTerminal, AppendRecordRaw
  <2>2. NextRecord(r)
      BY <2>1, AppendedRecords DEF NextRecord, NextSequence, Phase
  <2>3. Permitted(r)
      BY DEF Permitted
  <2> HIDE DEF r
  <2> QED
      BY <2>1, <2>2, <2>3, AppendKeepsUnfinished
<1>4. ASSUME NEW a \in Attempts, CommitPlacement(a)
      PROVE  UnfinishedInv'
  <2> DEFINE r == [kind |-> "placement", sequence |-> NextSequence, attempt |-> a,
                   id |-> mem.next_placement_id,
                   generation |-> Generation(mem.latest[FlowOf[a]]) + 1]
  <2>1. AppendRecordRaw(r) /\ WithinBudget /\ mem.next_placement_id <= MaxPlacements
      BY <1>4 DEF CommitPlacement, AppendRecordRaw
  <2>2. r \in PlacedRecord
      BY <2>1, AppendedRecords
  <2>3. NextRecord(r)
      BY <2>2 DEF NextRecord, NextSequence
  <2>4. Permitted(r)
      BY <1>4 DEF CommitPlacement, Permitted
  <2> HIDE DEF r
  <2> QED
      BY <2>1, <2>3, <2>4, AppendKeepsUnfinished
<1>5. CASE Compact \/ CompactSnapshot \/ CompactJournal \/ CompactMarker
    BY <1>5, CompactKeepsUnfinished
<1>6. CASE Crash \/ Close
  <2>1. mode' = "down" /\ admitted' = {} /\ UNCHANGED <<snapshot, journal, ledger, appendFailed, faults>>
      BY <1>6 DEF Crash, Close, Gone, files
  <2>2. Read' = Read
      BY <2>1 DEF Read
  <2> QED
      BY <2>1, <2>2 DEF UnfinishedInv, Accountable, Known, Compacting
<1>7. CASE UNCHANGED vars
    BY <1>7 DEF vars, files, history, UnfinishedInv, Read
<1> QED
    BY <1>1, <1>2, <1>3, <1>4, <1>5, <1>6, <1>7 DEF Next

-----------------------------------------------------------------------------
(* The theorems.                                                             *)

\* What Open makes of the files, in every state.
LEMMA RecoveredFiles ==
    ASSUME StoreAssumption, TypeInv, FilesInv, ~appendFailed
    PROVE  /\ Recovered.status \notin {"gap", "damaged"}
           /\ Recovered.status = "ok" =>
                 \A f \in Flows : Recovered.mem.latest[f] = LastOf(ledger, f)
<1> DEFINE R == LoadedFiles(snapshot, journal)
<1>1. R \in LoadState /\ Recovered.mem = Accounted(R.mem) /\ (Recovered.status = "ok" => R.status = "ok")
    BY LoadedFilesState DEF Recovered, TypeInv
<1>2. R.status # "gap" /\ (R.status = "ok" => UpToDate(R.mem, ledger))
    BY DEF FilesInv, FilesOK, ReplayOK, LoadedFiles, Intact
<1>3. ~DamagedMidFile(journal)
  <2>1. Intact \in Seq(WholeRecord)
      BY IntactRecords DEF Intact, TypeInv
  <2>2. \A i \in 1 .. Len(Intact) : Intact[i] # Torn
      BY <2>1, RecordKinds
  <2>3. journal = Intact \/ journal = Append(Intact, Torn)
      BY DEF FilesInv, TailInv
  <2> SUFFICES ASSUME NEW i \in 1 .. Len(journal), NEW k \in 1 .. Len(journal),
                      i < k, journal[i] = Torn, journal[k] # Torn
               PROVE  FALSE
      BY DEF DamagedMidFile
  <2>4. CASE journal = Intact
      BY <2>2, <2>4
  <2>5. CASE journal = Append(Intact, Torn)
    <3> DEFINE p == Intact
               S == WholeRecord \cup {Torn}
    <3>1. p \in Seq(S)
        BY <2>1
    <3>2. /\ Len(p) \in Nat /\ Len(journal) = Len(p) + 1
          /\ \A n \in 1 .. Len(p) : journal[n] = p[n]
        BY <2>5, <3>1
    <3> HIDE DEF p
    <3>3. i \in 1 .. Len(p)
        BY <3>2
    <3> QED
        BY <2>2, <3>2, <3>3 DEF p
  <2> QED
      BY <2>3, <2>4, <2>5
<1>4. Recovered.status \notin {"gap", "damaged"}
    BY <1>1, <1>2, <1>3 DEF Recovered, Recovery, LoadedFiles, LoadState
<1> HIDE DEF R
<1>5. ASSUME Recovered.status = "ok", NEW f \in Flows
      PROVE  Recovered.mem.latest[f] = LastOf(ledger, f)
  <2>1. Accounted(R.mem) = [R.mem EXCEPT !.attempts = Accounted(R.mem).attempts] /\ R.mem \in Image
      BY <1>1, AccountedImage DEF LoadState
  <2>2. Recovered.mem.latest = R.mem.latest
      BY <1>1, <2>1 DEF Image, MemType
  <2> QED
      BY <1>1, <1>2, <1>5, <2>2 DEF UpToDate
<1> QED
    BY <1>4, <1>5

\* AcknowledgedSurvives for any flows, attempts, thresholds and any number of
\* crashes: wherever the process stops, through torn tails, half-done compactions
\* and rebased sequences, Open gives every flow its last written placement.
THEOREM AcknowledgedIsRecovered == Spec => []AcknowledgedSurvives
<1>1. TypeInv /\ FilesInv => AcknowledgedSurvives
  <2>1. \A f : LastPlaced(f) = LastOf(ledger, f)
      BY DEF LastPlaced, Placed, LastOf, PlacedIn
  <2> QED
      BY <2>1, StoreAssumption, RecoveredFiles DEF AcknowledgedSurvives
<1> QED
    BY <1>1, FilesInvHolds, PTL

\* CrashNeverDamages: a crash at any point leaves files without a hole in their
\* sequence and without damage in front of a valid record.
THEOREM CrashesLeaveNoDamage == Spec => []CrashNeverDamages
<1>1. TypeInv /\ FilesInv => CrashNeverDamages
    BY StoreAssumption, RecoveredFiles DEF CrashNeverDamages
<1> QED
    BY <1>1, FilesInvHolds, PTL

\* NumbersNeverReused: the identities CommitPlacement hands out only grow, and the
\* generations of a flow count its placements, across crashes and compactions.
THEOREM NumbersStayUnique == Spec => []NumbersNeverReused
<1>1. FilesInv => NumbersNeverReused
  <2>1. \A f : Placed(f) = PlacedIn(ledger, f)
      BY DEF Placed, PlacedIn
  <2> QED
      BY <2>1 DEF FilesInv, FilesOK, NumbersOK, NumbersNeverReused
<1> QED
    BY <1>1, FilesInvHolds, PTL

\* UnfinishedNeverPlaced: over any number of crashes, compactions and recoveries,
\* the recovery accounting of Open never hands out as unfinished an attempt whose
\* placement is durable, unless its record had aged out.
THEOREM UnfinishedIsNotPlaced == Spec => []UnfinishedNeverPlaced
<1>1. StoreAssumption /\ Init => TypeInv /\ FilesInv /\ UnfinishedInv
    BY TypeInit, FilesInit, UnfinishedInit
<1>2. StoreAssumption /\ (TypeInv /\ FilesInv /\ UnfinishedInv) /\ [Next]_vars
          => (TypeInv /\ FilesInv /\ UnfinishedInv)'
    BY TypeStep, FilesStep, UnfinishedStep
<1>3. TypeInv /\ UnfinishedInv => UnfinishedNeverPlaced
  <2> SUFFICES ASSUME TypeInv, UnfinishedInv, faults = 0, Recovered.status = "ok"
               PROVE  \A a \in PlacedAttempts(ledger) :
                          Recovered.mem.attempts[a].phase = "started" => a \in Recovered.mem.retired
      BY DEF UnfinishedNeverPlaced, PlacedAttempts
  <2>1. Read \in LoadState /\ Recovered.mem = Accounted(Read.mem) /\ Read.status = "ok"
      BY StoreAssumption, LoadedFilesState DEF Recovered, Read, TypeInv
  <2>2. Read.mem \in Image /\ ledger \in Seq(PlacedRecord) /\ admitted \in SUBSET Attempts
        /\ Accountable(Read.mem, ledger, admitted)
      BY <2>1 DEF LoadState, TypeInv, UnfinishedInv
  <2> QED
      BY <2>1, <2>2, AccountedSettled
<1> QED
    BY <1>1, <1>2, <1>3, StoreAssumption, PTL DEF Spec

=============================================================================
