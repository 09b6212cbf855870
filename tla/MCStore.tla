------------------------------ MODULE MCStore ------------------------------
(* Instances of Store for TLC.                                               *)
EXTENDS Store, TLC

\* Every attempt places the same flow: each placement supersedes the last.
OneFlow == [a \in Attempts |-> CHOOSE f \in Flows : TRUE]

\* Attempts are only compared for equality.
Symmetry == Permutations(Attempts)

-----------------------------------------------------------------------------
(* Further claims of tests and documents that TLC refutes (README.md, "What  *)
(* the documentation says and the code does not do").                        *)

\* DESIGN.md 10.1: "Attempt records are retained only for a bounded window".
AttemptWindowIsBounded ==
    Cardinality({a \in Attempts : snapshot.attempts[a] # NoAttempt}) <= MaxJournalRecords + 1

\* "The durable one must refuse a second start record for an attempt that already
\* terminated" (test_store.cpp 433), and attempt "records that age out ... never affect
\* durable placements" (DESIGN.md 10.1): through crashes alone, no attempt places
\* twice.  The record that ages out and the superseded placement that the snapshot
\* drops were all that made AppendAttemptStart and CommitPlacement refuse it.
AgingNeverReplaysAttempt ==
    faults = 0 =>
        \A i, k \in 1 .. Len(ledger) : ledger[i].attempt = ledger[k].attempt => i = k

=============================================================================
