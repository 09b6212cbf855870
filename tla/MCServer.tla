------------------------------ MODULE MCServer ------------------------------
(* An instance of Server for TLC: two workers and an operator, small frames.  *)
EXTENDS Server

MCReplySize(kind) == IF kind = "place_result" THEN 2 ELSE 1

Plain(kind) == [kind |-> kind, size |-> 0, intact |-> TRUE, decodes |-> TRUE, version |-> TRUE,
                attempt |-> 0, epoch |-> 0, expected |-> 0, bound |-> 0]
Hello(e) == [Plain("hello") EXCEPT !.epoch = e, !.bound = DefaultBound]
Place(a, e) == [Plain("place_request") EXCEPT !.size = 1, !.attempt = a, !.epoch = e, !.expected = e]
SetEpoch(e) == [Plain("set_epoch") EXCEPT !.epoch = e]

\* A worker waits for each reply, an eager peer sends everything at once; a
\* patient worker does not leave of its own accord.
Worker(fs) == [comes |-> TRUE, leaves |-> TRUE, eager |-> FALSE, frames |-> fs]
Patient(fs) == [Worker(fs) EXCEPT !.leaves = FALSE]
Eager(fs) == [Worker(fs) EXCEPT !.eager = TRUE]
Silent == Patient(<<>>)
Nobody == [Silent EXCEPT !.comes = FALSE]
Cast(a, b, c) == <<a, b, c>>

\* A single peer that is not a worker, or goes wrong.
Faulty == {
    Worker(<<Plain("stats_query")>>),
    Worker(<<[Hello(1) EXCEPT !.decodes = FALSE]>>),
    Worker(<<[Hello(1) EXCEPT !.version = FALSE]>>),
    Worker(<<[Hello(1) EXCEPT !.bound = 0]>>),
    Worker(<<Hello(1), [Place(1, 1) EXCEPT !.decodes = FALSE]>>),
    Worker(<<Hello(1), [SetEpoch(2) EXCEPT !.decodes = FALSE]>>),
    Worker(<<Hello(1), [Plain("stats_query") EXCEPT !.intact = FALSE]>>),
    Worker(<<Hello(1), [Plain("stats_query") EXCEPT !.size = 3]>>),
    Worker(<<Hello(1), [Plain("stats_query") EXCEPT !.kind = "unknown"]>>),
    Eager(<<Hello(1), Plain("stats_query"), Plain("recovery_query"), Hello(1)>>)}

\* A worker, and the same worker run again after a lost reply or a crash.
MCCrashCasts ==
    { Cast(Worker(<<Hello(1), Place(1, 1)>>), Patient(<<Hello(1), Place(1, 1)>>), Nobody) }

MCCasts ==
    MCCrashCasts \cup
    \* a result that does not fit the bound its worker asked for, and its retry
    { Cast(Patient(<<[Hello(1) EXCEPT !.bound = 1], Place(1, 1)>>),
           Patient(<<Hello(1), Place(1, 1)>>), Nobody),
    \* placements while the epoch moves, and two operators moving it
      Cast(Patient(<<Hello(1), Place(1, 1)>>), Patient(<<Hello(1), SetEpoch(2)>>), Nobody),
      Cast(Patient(<<Hello(1), SetEpoch(2)>>), Patient(<<Hello(1), SetEpoch(1)>>), Nobody),
    \* a request that passes the fence of one epoch and expects the next
      Cast(Patient(<<Hello(1), [Place(1, 1) EXCEPT !.expected = 2]>>),
           Patient(<<Hello(1), SetEpoch(2)>>), Nobody),
    \* two workers with an attempt each, and one that uses up the request budget
      Cast(Patient(<<Hello(1), Place(1, 1)>>), Patient(<<Hello(1), Place(2, 1)>>), Nobody),
      Cast(Worker(<<Hello(1), Place(1, 1), Place(2, 1)>>), Nobody, Nobody),
    \* more peers than connections, and a shutdown under traffic
      Cast(Worker(<<Hello(1)>>), Silent, Silent),
      Cast(Worker(<<Hello(1), Plain("shutdown")>>), Patient(<<Hello(1), Place(1, 1)>>), Nobody) }
    \cup {Cast(s, Nobody, Nobody) : s \in Faulty}

-----------------------------------------------------------------------------
(* A further claim that the code does not keep, refuted by TLC.              *)

\* server.hpp, ServerOptions: "Serve at most this many placement requests".  Two
\* connections overshoot it, and a result that could not be sent is counted
\* without looking at the budget.
ServesAtMostMaxRequests == MaxRequests # 0 => served <= MaxRequests

=============================================================================
