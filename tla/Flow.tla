------------------------------- MODULE Flow -------------------------------
(***************************************************************************)
(* The life of one flow seen from the engine: its facts are revised, it is  *)
(* placed by PlacementEngine::Place, and a placement that was made becomes  *)
(* the incumbent of the next request.  The facts and the adoption belong to *)
(* the caller; the decision is the engine's.                                *)
(***************************************************************************)
EXTENDS Engine

CONSTANTS
    Scenarios,      \* the requests a flow may start with
    Revised(_),     \* the requests one change of the facts makes of a request
    MaxRevisions    \* bound on those changes

ASSUME FlowAssumption == MaxRevisions \in Nat /\ Scenarios \subseteq PlacementRequest

VARIABLES
    request,        \* the caller's current request
    decision,       \* what Place last said of it: a set of at most one decision
    revisions       \* how often the facts have changed

vars == <<request, decision, revisions>>

Init == /\ request \in Scenarios
        /\ decision = {}
        /\ revisions = 0

PlaceFlow == /\ decision = {}
             /\ decision' = {Place(request)}
             /\ UNCHANGED <<request, revisions>>

\* The changed facts arrive in a PlacementRequest again.
Revise == /\ revisions < MaxRevisions
          /\ request' \in Revised(request) \cap PlacementRequest
          /\ decision' = {}
          /\ revisions' = revisions + 1

\* What a caller that went along with an intent reports next time.
IncumbentOf(intent) ==
    [id |-> 1, generation |-> 1, path |-> intent.path, path_authority |-> intent.path_authority,
     candidate_set_generation |-> intent.candidate_set_generation,
     capacity_generation |-> intent.capacity_generation,
     policy_generation |-> intent.policy_generation, qos_generation |-> intent.qos_generation,
     fabric_epoch |-> intent.fabric_epoch, reservation |-> intent.reservation]
Adopted(r, d) == [r EXCEPT !.incumbent = {IncumbentOf(i) : i \in d.intent}]

Adopt == /\ \E d \in decision : /\ d.intent # {}
                                /\ request' = Adopted(request, d)
         /\ decision' = {}
         /\ UNCHANGED revisions

Next == PlaceFlow \/ Revise \/ Adopt

Spec == Init /\ [][Next]_vars

-----------------------------------------------------------------------------
(* Properties.                                                              *)

Outcomes == PlacedOutcomes \cup {"deferred", "no_legal_path", "policy_rejected",
                                 "insufficient_capacity", "stale_input", "conflicting_input"}
Deltas == {"no_incumbent", "kept", "moved", "replaced_stale"}

\* The request is one the wire can carry; a decision carries an intent exactly when
\* it places the flow, under the code "ok".
TypeOK ==
    /\ request \in PlacementRequest
    /\ revisions \in 0 .. MaxRevisions
    /\ Cardinality(decision) <= 1
    /\ \A d \in decision :
          /\ d.outcome \in Outcomes /\ d.delta \in Deltas
          /\ d.outcome \in PlacedOutcomes <=> d.intent # {}
          /\ d.outcome \in PlacedOutcomes <=> d.code = "ok"

Placed == {d \in decision : d.outcome \in PlacedOutcomes}
PathIn(r, id) == CHOOSE p \in Candidates(r) : p.id = id

\* The reference: what the documentation asks of a path, as one unordered conjunction.
Lawful(r, p) ==
    LET policy == r.policy
        entry == CapacityOf(r, p.id)
        relax == IF policy.allow_degraded THEN policy.max_relaxation_steps ELSE 0
        class == r.qos.service_class
        factor == IF relax >= 1 THEN 1 ELSE ServiceHeadroomMultiplier(class)
        blind == IF EvidenceTrusted(r) THEN EvidenceOf(r, p.id) = {} ELSE TRUE
        mode == IF EvidencePresent(r) /\ ~EvidenceTrusted(r) THEN policy.on_stale
                ELSE policy.on_missing
    IN /\ p.authority = r.expected.path_authority
       /\ policy.allowed_tiers = <<>> \/ p.tier \in ToSet(policy.allowed_tiers)
       /\ ToSet(policy.required_labels) \subseteq ToSet(p.labels)
       /\ ToSet(policy.forbidden_labels) \cap ToSet(p.labels) = {}
       /\ policy.required_locality \subseteq {p.locality}
       /\ p.locality \notin ToSet(policy.forbidden_localities) \ {0}
       /\ policy.required_domain \subseteq {p.failure_domain}
       /\ p.failure_domain \notin ToSet(policy.forbidden_domains) \ {0}
       /\ policy.avoid_occupied_domains =>
             p.failure_domain \notin ToSet(r.occupied_failure_domains) \ {0}
       /\ \E e \in entry : e.residual_bytes >= factor * r.qos.required_residual_bytes
       /\ ServiceRequiresReservation(class) => relax = 2 \/ p.reservations # <<>>
       /\ policy.affinity_required => Affine(r, p)
       /\ r.qos.max_latency_nanos = 0 \/ p.latency_nanos <= r.qos.max_latency_nanos
       /\ UsesCongestion(r) /\ blind => mode = "rank_worst"

\* Strictly better for the policy: the first objective on which two paths
\* differ decides, and a known value is better than an UNKNOWN one.
Better(r, p, q) ==
    LET objectives == r.policy.objectives
        x(k) == ObjectiveKey(r, p, objectives[k].kind)
        y(k) == ObjectiveKey(r, q, objectives[k].kind)
        differs == {k \in DOMAIN objectives : x(k) # y(k)}
        first == CHOOSE k \in differs : \A j \in differs : k <= j
        sign == IF objectives[first].direction = "min" THEN 1 ELSE -1
    IN /\ differs # {}
       /\ \/ x(first).known /\ ~y(first).known
          \/ x(first).known /\ y(first).known /\ sign * (y(first).value - x(first).value) > 0

\* Place puts a flow on a lawful path, on the best one unless the policy prefers
\* the incumbent and it is kept, and finds one whenever the lawful paths allow it.
PlacedIsBestLawful ==
    \A d \in decision :
        LET lawful == {p \in Candidates(request) : Lawful(request, p)}
            valid == ValidateRequest(request) = "ok" /\ StaleCode(request) = "ok"
            diverse == Cardinality(DomainsOf(lawful)) >= request.policy.min_distinct_domains
        IN /\ \A i \in d.intent :
                 /\ PathIn(request, i.path) \in lawful
                 /\ diverse
                 /\ \/ d.delta = "kept" /\ request.policy.prefer_incumbent
                    \/ \A p \in lawful : ~Better(request, p, PathIn(request, i.path))
           /\ valid /\ lawful # {} /\ diverse => d.outcome \in PlacedOutcomes \cup {"deferred"}

\* The decision the engine made always passes its own check, and the overflow
\* that Prepare guards against has been rejected by validation before it.
SelfVerificationNeverRejects ==
    \A d \in decision :
        /\ d.code # "internal_invariant_violation"
        /\ d.code = "arithmetic_overflow" => d.explanation.candidate_count = 0

\* The lists of a request that are sets, supplied in the opposite order
\* (the reservations of a path are left alone).
TurnedPath(p) == [p EXCEPT !.labels = Reverse(p.labels)]
Reordered(r) ==
    [r EXCEPT !.candidates.paths = [i \in DOMAIN @ |-> TurnedPath(Reverse(@)[i])],
              !.capacity.entries = Reverse(@), !.evidence.entries = Reverse(@),
              !.occupied_failure_domains = Reverse(@),
              !.policy.allowed_tiers = Reverse(@), !.policy.required_labels = Reverse(@),
              !.policy.forbidden_labels = Reverse(@), !.policy.affinity_refs = Reverse(@),
              !.policy.forbidden_localities = Reverse(@),
              !.policy.forbidden_domains = Reverse(@)]

\* The whole decision on a valid request, with its explanation, is the same when
\* the request's unordered lists arrive in the opposite order.
OrderNeverMatters ==
    ValidateRequest(request) = "ok" => \A d \in decision : Place(Reordered(request)) = d

\* The utilizations of a bundle that is not the expected generation could be
\* anything without changing the decision.
UntrustedEvidenceIsInert ==
    LET Inverted(e) == [e EXCEPT !.utilization_ppb = 1000000000 - @]
        other == [request EXCEPT !.evidence.entries = [k \in DOMAIN @ |-> Inverted(@[k])]]
    IN ValidateRequest(request) = "ok" /\ ~EvidenceTrusted(request) =>
          \A d \in decision : Place(other) = d

\* A flow leaves a legal, current incumbent under prefer_incumbent only for a
\* gain on the threshold objective that both paths report and that is above the
\* threshold, measured from the facts of the two paths.
MovesPayOff ==
    LET o == request.policy.objectives[request.policy.threshold_objective_index + 1]
        sign == IF o.direction = "min" THEN 1 ELSE -1
    IN \A d \in Placed : \A i \in d.intent : \A inc \in EligibleIncumbent(request) :
          LET from == PathIn(request, inc.path)
              to == PathIn(request, i.path)
          IN request.policy.prefer_incumbent /\ Lawful(request, from) /\ from # to =>
                /\ ObjectiveKey(request, from, o.kind).known
                /\ ObjectiveKey(request, to, o.kind).known
                /\ sign * (ObjectiveKey(request, from, o.kind).value
                             - ObjectiveKey(request, to, o.kind).value)
                      > request.policy.move_improvement_threshold

\* The request with all the capacity the candidates could want.
Unlimited(r) ==
    [r EXCEPT !.capacity.entries =
        [i \in DOMAIN r.candidates.paths |->
            [path |-> r.candidates.paths[i].id, capacity_bytes |-> MaxU64,
             residual_bytes |-> MaxU64]]]

\* The outcome blames the right constraint: what policy rejected no capacity
\* helps, what capacity stopped unlimited capacity moves on, and a deferral ends
\* when the gate it names is lifted, or meets the other gate.
BlameIsCounterfactual ==
    \A d \in decision :
        /\ d.outcome = "policy_rejected" => Place(Unlimited(request)).outcome = d.outcome
        /\ d.outcome = "insufficient_capacity" => Place(Unlimited(request)).outcome # d.outcome
        /\ d.code = "policy_headroom_gate" =>
              Place([request EXCEPT !.policy.on_below = "place"]).outcome = "placed_degraded"
        /\ d.code = "policy_move_suppressed" =>
              LET free == Place([request EXCEPT !.policy.on_move = "allow_move"])
              IN \/ \E i \in free.intent : \A inc \in request.incumbent : i.path # inc.path
                 \/ free.code = "policy_headroom_gate"

\* A placement that is adopted and placed again under the same facts stays
\* where it is, with the same outcome: the engine never oscillates.  A policy
\* that maximizes incumbent_stability asks for the opposite.
DecisionIsStable ==
    [kind |-> "incumbent_stability", direction |-> "max"] \notin ToSet(request.policy.objectives) =>
        \A d \in Placed :
            LET again == Place(Adopted(request, d))
            IN again.outcome = d.outcome /\ again.intent = d.intent /\ again.delta = "kept"

-----------------------------------------------------------------------------
(* A claim of the documentation that the code does not keep.                *)

\* README.md, "Canonical decisions": the order of a path's reservations, among
\* others, never changes the decision.
ReservationOrderNeverMatters ==
    \A d \in decision :
        LET other == [request EXCEPT !.candidates.paths =
                         [i \in DOMAIN @ |-> [@[i] EXCEPT !.reservations = Reverse(@)]]]
        IN RequestDigest(other) = RequestDigest(request) => Place(other) = d

=============================================================================
