------------------------------- MODULE MCFlow -------------------------------
(* An instance of Flow for TLC: three candidate paths that differ in every   *)
(* attribute a policy reads, a few starting requests and one revision per    *)
(* fact or policy field.                                                     *)
EXTENDS Flow

MCLimits == [name \in LimitNames |->
                CASE name = "max_exclusion_samples" -> 1
                  [] name = "max_ranked_explained" -> 2
                  [] name = "max_exclusion_reasons" -> 64
                  [] OTHER -> 3]

Ref(id, generation) == [id |-> id, generation |-> generation]
Path(id, tier, locality, domain, cost, latency, labels, reservations) ==
    [id |-> id, authority |-> 1, tier |-> tier, locality |-> locality,
     locality_scope |-> "zone", failure_domain |-> domain, cost_micro |-> cost,
     latency_nanos |-> latency, hop_count |-> 1, labels |-> labels,
     reservations |-> reservations]
P1 == Path(1, 0, 1, 1, 3, 2, <<1, 2>>, <<Ref(2, 1), Ref(1, 1)>>)
P2 == Path(2, 1, 2, 2, 1, 3, <<2>>, <<Ref(1, 1)>>)
P3 == Path(3, 1, 0, 0, 3, 1, <<>>, <<>>)
Free(path, bytes) == [path |-> path, capacity_bytes |-> 9, residual_bytes |-> bytes]
Used(path, ppb) == [path |-> path, utilization_ppb |-> ppb]
By(kind, direction) == [kind |-> kind, direction |-> direction]

Base ==
    [flow |-> 1, flow_generation |-> 1,
     candidates |-> [id |-> 1, generation |-> 1, paths |-> <<P2, P1, P3>>],
     capacity |-> [id |-> 1, generation |-> 1, entries |-> <<Free(2, 2), Free(1, 6), Free(3, 9)>>],
     qos |-> [id |-> 1, generation |-> 1, service_class |-> "best_effort", priority |-> "normal",
              required_residual_bytes |-> 2, max_latency_nanos |-> 0],
     policy |-> [id |-> 1, generation |-> 1, objectives |-> <<By("cost", "min")>>,
                 allowed_tiers |-> <<>>, required_labels |-> <<>>, forbidden_labels |-> <<>>,
                 required_locality |-> {}, preferred_locality |-> {},
                 forbidden_localities |-> <<>>, required_domain |-> {},
                 forbidden_domains |-> <<>>, avoid_occupied_domains |-> FALSE,
                 min_distinct_domains |-> 0, affinity_required |-> FALSE,
                 affinity_refs |-> <<>>, min_residual_headroom_bytes |-> 0,
                 on_below |-> "place", allow_degraded |-> FALSE, max_relaxation_steps |-> 0,
                 on_move |-> "allow_move", prefer_incumbent |-> FALSE,
                 move_improvement_threshold |-> 0, threshold_objective_index |-> 0,
                 on_missing |-> "rank_worst", on_stale |-> "rank_worst"],
     evidence |-> [id |-> 0, generation |-> 0, entries |-> <<>>], incumbent |-> {},
     occupied_failure_domains |-> <<>>,
     expected |-> [path_authority |-> 1, candidate_set |-> 1, capacity |-> 1, policy |-> 1,
                   qos |-> 1, fabric_epoch |-> 1, evidence |-> 1],
     attempt |-> 1]

Measured == [id |-> 1, generation |-> 1, entries |-> <<Used(3, 5), Used(1, 1000000000)>>]
Congested == [Base EXCEPT !.policy.objectives = <<By("congestion", "min"), By("cost", "max")>>,
                          !.evidence = Measured]
Settled == [Base EXCEPT !.policy.prefer_incumbent = TRUE,
                        !.policy.objectives = <<By("cost", "min"), By("latency", "min")>>]

MCScenarios == {Base, Congested, Settled}

\* Changes of the policy, which arrive under the same generation.
PolicyRevisions(r) ==
    LET With(policy) == [r EXCEPT !.policy = policy]
        p == r.policy
    IN {With([p EXCEPT !.objectives = <<By("residual_capacity", "max"), By("tier", "min")>>]),
        With([p EXCEPT !.objectives = <<By("incumbent_stability", "min"), By("hop_count", "min")>>]),
        With([p EXCEPT !.objectives = <<By("locality_affinity", "min"),
                                        By("reservation_affinity", "min")>>,
                       !.preferred_locality = {1}]),
        With([p EXCEPT !.allowed_tiers = <<1>>]),
        With([p EXCEPT !.required_labels = <<2>>, !.forbidden_labels = <<1>>]),
        With([p EXCEPT !.forbidden_localities = <<2>>, !.preferred_locality = {1}]),
        With([p EXCEPT !.required_locality = {2}]),
        With([p EXCEPT !.forbidden_domains = <<1>>, !.min_distinct_domains = 2]),
        With([p EXCEPT !.required_domain = {1}]),
        With([p EXCEPT !.affinity_refs = <<Ref(1, 1), Ref(2, 1)>>]),
        With([p EXCEPT !.affinity_refs = <<Ref(2, 1)>>, !.affinity_required = TRUE]),
        With([p EXCEPT !.min_residual_headroom_bytes = 7]),
        With([p EXCEPT !.min_residual_headroom_bytes = 5, !.on_below = "defer"]),
        With([p EXCEPT !.allow_degraded = TRUE, !.max_relaxation_steps = 1]),
        With([p EXCEPT !.allow_degraded = TRUE, !.max_relaxation_steps = 2]),
        With([p EXCEPT !.prefer_incumbent = TRUE, !.on_move = "defer"]),
        With([p EXCEPT !.prefer_incumbent = TRUE, !.move_improvement_threshold = 2]),
        With([p EXCEPT !.prefer_incumbent = TRUE, !.threshold_objective_index = 1]),
        With([p EXCEPT !.on_stale = "hard_exclude"]),
        With([p EXCEPT !.on_missing = "hard_exclude"])}

\* Changes of the facts, some of which make the request stale or invalid.
FactRevisions(r) ==
    {[r EXCEPT !.capacity.entries = <<Free(1, 1), Free(2, 7)>>],
     [r EXCEPT !.capacity.entries = <<Free(2, 1), Free(1, 1), Free(3, 1)>>],
     [r EXCEPT !.capacity.generation = 2, !.expected.capacity = 2],
     [r EXCEPT !.candidates.generation = 2],
     [r EXCEPT !.candidates.paths = <<P1, P2, P1>>],
     [r EXCEPT !.candidates.paths = <<[P2 EXCEPT !.authority = 2], P1>>],
     [r EXCEPT !.expected.path_authority = 2],
     [r EXCEPT !.expected.evidence = 2],
     [r EXCEPT !.evidence = Measured],
     [r EXCEPT !.occupied_failure_domains = <<0, 1>>, !.policy.avoid_occupied_domains = TRUE],
     [r EXCEPT !.qos.service_class = "controlled"],
     [r EXCEPT !.qos.service_class = "reserved"],
     [r EXCEPT !.qos.required_residual_bytes = 4],
     [r EXCEPT !.qos.max_latency_nanos = 2]}

MCRevised(r) == (PolicyRevisions(r) \cup FactRevisions(r)) \ {r}

=============================================================================
