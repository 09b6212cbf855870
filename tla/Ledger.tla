------------------------------- MODULE Ledger -------------------------------
(***************************************************************************)
(* What the placement coordinator promises its callers: a ledger that only   *)
(* grows, in which every placement carries the fabric epoch that was current *)
(* when it became durable.  An attempt appears in it at most once, unless a   *)
(* restart has forgotten the attempt or a write of the store has failed.  The *)
(* epoch never goes back while a process lives; a restart keeps the ledger    *)
(* and starts from whatever epoch the embedder chooses.                       *)
(***************************************************************************)
EXTENDS Naturals, Sequences

CONSTANT Attempts

VARIABLES
    incarnation,   \* how often the process has been started again
    fabricEpoch,   \* the current fabric epoch
    records,       \* the durable placements, in commit order
    forgotten,     \* the attempts some restart has forgotten
    faulty         \* a write of the store has failed

Init ==
    /\ incarnation = 0 /\ fabricEpoch = 1 /\ records = <<>>
    /\ forgotten = {} /\ faulty = FALSE

Recorded(a) == \E i \in DOMAIN records : records[i].attempt = a

\* Failures are not repaired; a placement may be durable and reported as failed.
MayFail == faulty' \in BOOLEAN /\ (faulty => faulty')

Record(a) ==
    /\ ~Recorded(a) \/ a \in forgotten \/ faulty
    /\ records' = Append(records, [attempt |-> a, epoch |-> fabricEpoch])
    /\ MayFail /\ forgotten' = forgotten
    /\ UNCHANGED <<incarnation, fabricEpoch>>

Fail ==
    /\ MayFail /\ forgotten' = forgotten
    /\ UNCHANGED <<incarnation, fabricEpoch, records>>

Advance ==
    /\ fabricEpoch' \in Nat /\ fabricEpoch' > fabricEpoch
    /\ forgotten' = forgotten /\ faulty' = faulty
    /\ UNCHANGED <<incarnation, records>>

Restart ==
    /\ incarnation' = incarnation + 1
    /\ fabricEpoch' \in Nat
    /\ forgotten' \subseteq Attempts /\ forgotten \subseteq forgotten'
    /\ faulty' = faulty
    /\ UNCHANGED records

Next == (\E a \in Attempts : Record(a)) \/ Fail \/ Advance \/ Restart

Spec == Init /\ [][Next]_<<incarnation, fabricEpoch, records, forgotten, faulty>>

=============================================================================
