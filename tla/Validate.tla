------------------------------ MODULE Validate ------------------------------
(***************************************************************************)
(* Structural validation of a request: src/src/validate.cpp.  Every check   *)
(* is a row <<fails, status>>; the first row that fails decides, in the     *)
(* order of the code.  Provenance strings, whose length is the only thing   *)
(* checked, are left out.                                                   *)
(***************************************************************************)
EXTENDS Model

FirstStatus(checks) ==
    LET failing == {i \in DOMAIN checks : checks[i][1]}
    IN IF failing = {} THEN "ok"
       ELSE checks[CHOOSE i \in failing : \A j \in failing : i <= j][2]

HasDuplicates(s) == Cardinality(ToSet(s)) # Len(s)

\* CheckedMul: the product of two 64-bit values, or none.
MulOverflows(a, b) == a * b > MaxU64

EnumerationChecks(r) == <<
    << \/ r.qos.service_class \notin ServiceClasses
       \/ r.qos.priority \notin Priorities
       \/ r.policy.max_relaxation_steps > 2
       \/ r.policy.on_below \notin GateActions
       \/ r.policy.on_move \notin ChurnActions
       \/ {r.policy.on_missing, r.policy.on_stale} \ EvidenceModes # {}
       \/ \E o \in ToSet(r.policy.objectives) :
             o.kind \notin ObjectiveKinds \/ o.direction \notin Directions
       \/ ToSet(r.policy.allowed_tiers) \ Tiers # {}
       \/ \E p \in ToSet(r.candidates.paths) :
             p.tier \notin Tiers \/ p.locality_scope \notin LocalityScopes,
       "invalid_field_value">> >>
ValidateEnumerations(r) == FirstStatus(EnumerationChecks(r))

IncumbentChecks(i) == <<
    <<0 \in {i.id, i.generation, i.path, i.path_authority, i.candidate_set_generation,
             i.capacity_generation, i.policy_generation, i.qos_generation, i.fabric_epoch},
      "invalid_field_value">>,
    <<Valid(i.reservation.id) # Valid(i.reservation.generation),
      "inconsistent_authority_generation">> >>
ValidateIncumbent(i) == FirstStatus(IncumbentChecks(i))

IncumbentStatus(r) ==
    IF r.incumbent = {} THEN "ok" ELSE ValidateIncumbent(CHOOSE i \in r.incumbent : TRUE)

GenerationChecks(r) == <<
    <<~Valid(r.flow), "invalid_id">>,
    <<~Valid(r.flow_generation), "invalid_field_value">>,
    <<~Valid(r.candidates.id), "invalid_id">>,
    <<~Valid(r.candidates.generation), "invalid_field_value">>,
    <<~Valid(r.capacity.id), "invalid_id">>,
    <<~Valid(r.capacity.generation), "invalid_field_value">>,
    <<~Valid(r.qos.id), "invalid_id">>,
    <<~Valid(r.qos.generation), "invalid_field_value">>,
    <<~Valid(r.policy.id), "invalid_id">>,
    <<~Valid(r.policy.generation), "invalid_field_value">>,
    <<0 \in {r.expected.path_authority, r.expected.candidate_set, r.expected.capacity,
             r.expected.policy, r.expected.qos, r.expected.fabric_epoch}, "missing_field">>,
    <<Valid(r.evidence.id) # Valid(r.evidence.generation),
      "inconsistent_authority_generation">>,
    <<IncumbentStatus(r) # "ok", IncumbentStatus(r)>> >>
ValidateGenerations(r) == FirstStatus(GenerationChecks(r))

BoundChecks(r) == <<
    << \/ Len(r.candidates.paths) > Limits.max_candidate_paths
       \/ Len(r.capacity.entries) > Limits.max_capacity_entries
       \/ Len(r.evidence.entries) > Limits.max_evidence_entries
       \/ Len(r.occupied_failure_domains) > Limits.max_occupied_failure_domains,
       "oversize_request">>,
    <<r.policy.objectives = <<>>, "missing_field">>,
    <<Len(r.policy.objectives) > Limits.max_objectives, "oversize_request">>,
    <<Len(r.policy.allowed_tiers) > 3, "invalid_field_value">>,
    << \/ \E list \in {r.policy.required_labels, r.policy.forbidden_labels,
                       r.policy.forbidden_localities, r.policy.forbidden_domains} :
             Len(list) > Limits.max_policy_id_lists
       \/ Len(r.policy.affinity_refs) > Limits.max_affinity_refs,
       "oversize_request">> >>
ValidateBounds(r) == FirstStatus(BoundChecks(r))

CandidateChecks(p) == <<
    <<~Valid(p.id), "invalid_id">>,
    <<~Valid(p.authority), "inconsistent_authority_generation">>,
    << \/ Len(p.labels) > Limits.max_path_labels
       \/ Len(p.reservations) > Limits.max_path_reservations, "oversize_request">>,
    <<HasDuplicates(p.labels) \/ HasDuplicates(p.reservations), "invalid_field_value">>,
    <<\E ref \in ToSet(p.reservations) : ~ValidRef(ref),
      "inconsistent_authority_generation">> >>
ValidateCandidate(p) == FirstStatus(CandidateChecks(p))

\* After the paths one by one: neighbours with the same id, in id order.  Which
\* of three equal ids are compared first is up to std::sort; the instances have
\* at most two.
CandidateSetChecks(r) ==
    LET paths == r.candidates.paths
        each == FirstStatus([i \in DOMAIN paths |->
                    <<ValidateCandidate(paths[i]) # "ok", ValidateCandidate(paths[i])>>])
        twins == {t \in (DOMAIN paths) \X (DOMAIN paths) :
                     t[1] < t[2] /\ paths[t[1]].id = paths[t[2]].id}
        lowest == {t \in twins : \A u \in twins : paths[t[1]].id <= paths[u[1]].id}
    IN <<
           <<each # "ok", each>>,
           <<\E t \in lowest : paths[t[1]].authority # paths[t[2]].authority,
             "inconsistent_authority_generation">>,
           <<lowest # {}, "duplicate_path_id">> >>
ValidateCandidates(r) == FirstStatus(CandidateSetChecks(r))

\* The place of the k-th entry when the entries are sorted by path (entries of
\* the same path stay in the order supplied), and the entry at a place.
PlaceOf(entries, k) ==
    1 + Cardinality({j \in DOMAIN entries :
                        \/ entries[j].path < entries[k].path
                        \/ entries[j].path = entries[k].path /\ j < k})
SortByPath(entries) ==
    [n \in DOMAIN entries |->
        entries[CHOOSE k \in DOMAIN entries : PlaceOf(entries, k) = n]]

\* The three checks of the entry at position i of a list sorted by path; the
\* second is whether it is among the bad ones.
EntryChecks(sorted, i, bad) == <<
    <<~Valid(sorted[i].path), "invalid_id">>,
    <<sorted[i] \in bad, "invalid_field_value">>,
    <<i > 1 /\ sorted[i - 1].path = sorted[i].path, "duplicate_path_id">> >>
EntryStatus(sorted, i, bad) == FirstStatus(EntryChecks(sorted, i, bad))
ValidateEntries(entries, bad) ==
    LET sorted == SortByPath(entries)
    IN FirstStatus([i \in DOMAIN sorted |->
           <<EntryStatus(sorted, i, bad) # "ok", EntryStatus(sorted, i, bad)>>])

ResidualAboveTotal(r) == {e \in ToSet(r.capacity.entries) : e.residual_bytes > e.capacity_bytes}
UtilizationAboveOne(r) == {e \in ToSet(r.evidence.entries) : e.utilization_ppb > 1000000000}
ValidateCapacityAndEvidence(r) ==
    LET capacity == ValidateEntries(r.capacity.entries, ResidualAboveTotal(r))
        evidence == ValidateEntries(r.evidence.entries, UtilizationAboveOne(r))
    IN IF capacity # "ok" THEN capacity ELSE evidence

DomainsOf(paths) == {p.failure_domain : p \in paths} \ {0}

PolicyChecks(r) ==
    LET policy == r.policy
        kinds == [i \in DOMAIN policy.objectives |-> policy.objectives[i].kind]
        required == ToSet(policy.required_labels)
    IN <<
    <<HasDuplicates(kinds), "invalid_field_value">>,
    <<HasDuplicates(policy.required_labels) \/ HasDuplicates(policy.forbidden_labels),
      "invalid_field_value">>,
    <<required \cap ToSet(policy.forbidden_labels) # {}, "contradictory_constraints">>,
    <<HasDuplicates(policy.forbidden_localities), "invalid_field_value">>,
    <<policy.required_locality \cap ToSet(policy.forbidden_localities) # {},
      "contradictory_constraints">>,
    <<HasDuplicates(policy.forbidden_domains), "invalid_field_value">>,
    <<policy.required_domain \cap ToSet(policy.forbidden_domains) # {},
      "contradictory_constraints">>,
    <<policy.affinity_required /\ policy.affinity_refs = <<>>, "contradictory_constraints">>,
    <<\E ref \in ToSet(policy.affinity_refs) : ~ValidRef(ref),
      "inconsistent_authority_generation">>,
    << \/ policy.threshold_objective_index >= Len(policy.objectives)
       \/ policy.max_relaxation_steps > 2
       \/ ~policy.allow_degraded /\ policy.max_relaxation_steps # 0
       \/ policy.on_move = "defer" /\ ~policy.prefer_incumbent
       \/ HasDuplicates(policy.allowed_tiers), "invalid_field_value">>,
    <<MulOverflows(r.qos.required_residual_bytes,
                   ServiceHeadroomMultiplier(r.qos.service_class)), "arithmetic_overflow">>,
    <<policy.min_distinct_domains > Cardinality(DomainsOf(ToSet(r.candidates.paths))),
      "contradictory_constraints">> >>
ValidatePolicy(r) == FirstStatus(PolicyChecks(r))

RequestChecks(r) ==
    LET enumerations == ValidateEnumerations(r)
        generations == ValidateGenerations(r)
        bounds == ValidateBounds(r)
        candidates == ValidateCandidates(r)
        entries == ValidateCapacityAndEvidence(r)
        policy == ValidatePolicy(r)
    IN <<
        <<enumerations # "ok", enumerations>>, <<generations # "ok", generations>>,
        <<bounds # "ok", bounds>>, <<candidates # "ok", candidates>>,
        <<entries # "ok", entries>>, <<policy # "ok", policy>> >>
ValidateRequest(r) == FirstStatus(RequestChecks(r))

=============================================================================
