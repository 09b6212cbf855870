--------------------------- MODULE MCCoordinator ---------------------------
(* Instances of Coordinator for TLC.  The .cfg files choose the threads, the *)
(* public operations the callers use and the bounds.                         *)
EXTENDS Coordinator, TLC

\* Everything that races with a teardown: both ways to place, cancellation,
\* waiting, and both kinds of shutdown.
TeardownCalls == {"submit", "prepare", "commit", "cancel", "await", "shutdown",
                  "shutdown_cancelling"}
\* A crash may come at any point of asynchronous and synchronous placement.
RestartCalls == {"submit", "prepare", "commit", "cancel", "epoch", "authority"}
\* Attempts that finish or are cancelled, supersede each other's placements, are
\* forgotten by the table or by a recovery, and are submitted again.
RecoveryCalls == {"submit", "cancel"}
\* Progress: work queued, cancelled, drained, awaited and shut down by racing callers.
ProgressCalls == {"submit", "cancel", "drain", "shutdown", "await"}
\* Two-phase placement racing a waiter and a graceful shutdown.
CommitRaceCalls == {"prepare", "commit", "await", "shutdown"}

\* Every attempt places the same flow: each placement supersedes the one before.
OneFlow == [a \in Attempts |-> "flow"]

\* Threads and attempts are only compared for equality.
Symmetry == Permutations(Workers) \cup Permutations(Clients) \cup Permutations(Attempts)

-----------------------------------------------------------------------------
(* Further claims of the documentation that TLC refutes on these instances   *)
(* (README.md, "What the documentation says and the code does not do").      *)

\* DESIGN.md section 9: failing a check of the commit boundary "prevents the
\* durable mutation and reports FENCED or CANCELLED".
FencedLeavesNoRecord ==
    \A s \in Allocated : heap[s].state = "fenced" => ~DurableBy(s)

\* DESIGN.md section 9: every slot that is not owned by a worker, "queued, or
\* prepared and never committed", is finalized during shutdown.
ShutdownFinalizesPrepared ==
    runState = "stopped" =>
        \A a \in Attempts :
            table[a] # NoSlot /\ ~heap[table[a]].terminal =>
                heap[table[a]].commit_boundary_crossed
                \/ \E c \in Clients : pc[c] # "idle" /\ ref[c] = table[a]

\* runtime.hpp: Submit "returns kQueueFull when the bounded queue is full".
QueueIsBounded == Len(queue) <= QueueCapacity

\* RegisterAttempt, when the store refuses the start record: "Either way this
\* attempt can never commit".
RefusedStartNeverCommits ==
    \A s \in Allocated :
        heap[s].state = "rejected" /\ ~heap[s].journalled_start => ~DurableBy(s)

=============================================================================
