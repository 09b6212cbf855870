------------------------------- MODULE Engine -------------------------------
(***************************************************************************)
(* The placement engine: src/src/engine.cpp, with the outcome vocabulary   *)
(* of src/include/flowplace/explain.hpp.  Place is a pure function from a   *)
(* request to a decision; every stage of it is an operator here, in the     *)
(* order of the code.  Notes and labels (text) are left out of the          *)
(* explanation, its counters, samples, ranking and binding constraints are  *)
(* kept.                                                                    *)
(***************************************************************************)
EXTENDS Validate

ExclusionOrder == <<
    "path_authority_stale", "tier_not_allowed", "forbidden_label", "missing_required_label",
    "forbidden_locality", "locality_mismatch", "forbidden_failure_domain",
    "required_failure_domain_mismatch", "failure_domain_occupied", "capacity_unknown",
    "capacity_insufficient", "service_headroom_unmet", "service_reservation_unmet",
    "reservation_affinity_unsatisfied", "latency_budget_exceeded", "evidence_missing",
    "evidence_stale">>

CapacityReasons == {"capacity_unknown", "capacity_insufficient"}
ServiceReasons == {"service_headroom_unmet", "service_reservation_unmet"}
StalenessReasons == {"path_authority_stale", "evidence_stale"}
QosReasons == {"latency_budget_exceeded"}
PolicyReasons ==
    {"tier_not_allowed", "forbidden_label", "missing_required_label", "forbidden_locality",
     "locality_mismatch", "forbidden_failure_domain", "required_failure_domain_mismatch",
     "failure_domain_occupied", "reservation_affinity_unsatisfied", "evidence_missing"}

DegradingFlags == {"service_relaxed", "headroom_below_comfort", "locality_preference_unmet",
                   "reservation_preference_unmet", "evidence_unknown"}

PlacedOutcomes == {"placed", "placed_degraded"}

-----------------------------------------------------------------------------
(* Prepare: what the stages read of a request.                              *)

Candidates(r) == ToSet(r.candidates.paths)
CapacityOf(r, id) == {e \in ToSet(r.capacity.entries) : e.path = id}
Residual(r, id) ==
    IF CapacityOf(r, id) = {} THEN 0 ELSE (CHOOSE e \in CapacityOf(r, id) : TRUE).residual_bytes
EvidenceOf(r, id) == {e \in ToSet(r.evidence.entries) : e.path = id}

RequiredBase(r) == r.qos.required_residual_bytes
Multiplier(r) == ServiceHeadroomMultiplier(r.qos.service_class)
HeadroomOverflows(r) == MulOverflows(RequiredBase(r), Multiplier(r))
RequiredHeadroom(r) == IF HeadroomOverflows(r) THEN RequiredBase(r)
                       ELSE RequiredBase(r) * Multiplier(r)

EvidencePresent(r) == Valid(r.evidence.generation)
EvidenceTrusted(r) == /\ EvidencePresent(r)
                      /\ Valid(r.expected.evidence)
                      /\ r.evidence.generation = r.expected.evidence
UsesCongestion(r) == \E o \in ToSet(r.policy.objectives) : o.kind = "congestion"

Affine(r, p) == ToSet(p.reservations) \cap ToSet(r.policy.affinity_refs) # {}

\* The incumbent whose every generation is current and whose path is a candidate.
EligibleIncumbent(r) ==
    {i \in r.incumbent :
        /\ i.path_authority = r.expected.path_authority
        /\ i.candidate_set_generation = r.expected.candidate_set
        /\ i.capacity_generation = r.capacity.generation
        /\ i.policy_generation = r.policy.generation
        /\ i.qos_generation = r.qos.generation
        /\ i.fabric_epoch = r.expected.fabric_epoch
        /\ \E p \in Candidates(r) : p.id = i.path}

-----------------------------------------------------------------------------
(* Evaluate: the hard exclusions of one candidate, in their fixed order.    *)

RelaxMultiplier(r, p) == /\ Residual(r, p.id) < RequiredHeadroom(r)
                         /\ r.policy.allow_degraded /\ r.policy.max_relaxation_steps >= 1
RelaxReservation(r, p) == /\ ServiceRequiresReservation(r.qos.service_class)
                          /\ p.reservations = <<>>
                          /\ r.policy.allow_degraded /\ r.policy.max_relaxation_steps >= 2

EvidenceKnownUntrusted(r, p) == UsesCongestion(r) /\ EvidenceOf(r, p.id) # {}
EvidenceKnown(r, p) == UsesCongestion(r) /\ EvidenceTrusted(r) /\ EvidenceOf(r, p.id) # {}
EvidenceStale(r) == UsesCongestion(r) /\ ~EvidenceTrusted(r) /\ EvidencePresent(r)
EvidenceMissing(r, p) ==
    /\ UsesCongestion(r)
    /\ \/ ~EvidencePresent(r)
       \/ EvidenceTrusted(r) /\ EvidenceOf(r, p.id) = {}

ExclusionChecks(r, p) ==
    LET policy == r.policy
        labels == ToSet(p.labels)
        base == RequiredBase(r)
        residual == Residual(r, p.id)
    IN <<
    <<p.authority # r.expected.path_authority, "path_authority_stale">>,
    <<policy.allowed_tiers # <<>> /\ p.tier \notin ToSet(policy.allowed_tiers),
      "tier_not_allowed">>,
    <<labels \cap ToSet(policy.forbidden_labels) # {}, "forbidden_label">>,
    <<ToSet(policy.required_labels) \ labels # {}, "missing_required_label">>,
    <<Valid(p.locality) /\ p.locality \in ToSet(policy.forbidden_localities),
      "forbidden_locality">>,
    <<policy.required_locality \ {p.locality} # {}, "locality_mismatch">>,
    <<Valid(p.failure_domain) /\ p.failure_domain \in ToSet(policy.forbidden_domains),
      "forbidden_failure_domain">>,
    <<policy.required_domain \ {p.failure_domain} # {}, "required_failure_domain_mismatch">>,
    << /\ policy.avoid_occupied_domains /\ Valid(p.failure_domain)
       /\ p.failure_domain \in ToSet(r.occupied_failure_domains), "failure_domain_occupied">>,
    <<CapacityOf(r, p.id) = {}, "capacity_unknown">>,
    <<residual < base, "capacity_insufficient">>,
    <<residual < RequiredHeadroom(r) /\ ~RelaxMultiplier(r, p), "service_headroom_unmet">>,
    << /\ ServiceRequiresReservation(r.qos.service_class) /\ p.reservations = <<>>
       /\ ~RelaxReservation(r, p), "service_reservation_unmet">>,
    <<policy.affinity_required /\ ~Affine(r, p), "reservation_affinity_unsatisfied">>,
    <<r.qos.max_latency_nanos # 0 /\ p.latency_nanos > r.qos.max_latency_nanos,
      "latency_budget_exceeded">>,
    <<EvidenceStale(r) /\ policy.on_stale = "hard_exclude", "evidence_stale">>,
    <<EvidenceMissing(r, p) /\ policy.on_missing = "hard_exclude", "evidence_missing">> >>
\* The reason a candidate is excluded for, or "ok" for a legal one.
ExclusionReason(r, p) == FirstStatus(ExclusionChecks(r, p))

\* What the verdict says was required and available.
Constraint(r, p, reason) ==
    LET headroom == IF RelaxMultiplier(r, p) THEN RequiredBase(r) ELSE RequiredHeadroom(r) IN
    CASE reason = "capacity_insufficient" -> <<RequiredBase(r), Residual(r, p.id)>>
      [] reason = "latency_budget_exceeded" -> <<r.qos.max_latency_nanos, p.latency_nanos>>
      [] reason \in ServiceReasons \cup {"reservation_affinity_unsatisfied", "evidence_stale",
                                         "evidence_missing"} -> <<headroom, Residual(r, p.id)>>
      [] OTHER -> <<0, 0>>

-----------------------------------------------------------------------------
(* BuildRankEntry and RankLess: the lexicographic order of the legal set.   *)

Unknown == [known |-> FALSE, value |-> 0]
Known(n) == [known |-> TRUE, value |-> n]
Flag(b) == Known(IF b THEN 1 ELSE 0)

StabilityKeyInverted(r, p) == Flag(\E i \in EligibleIncumbent(r) : i.path = p.id)
StabilityKey(r, p) ==
    Flag(EligibleIncumbent(r) # {} /\ \A i \in EligibleIncumbent(r) : i.path # p.id)

ObjectiveKey(r, p, kind) ==
    CASE kind = "cost" -> Known(p.cost_micro)
      [] kind = "latency" -> Known(p.latency_nanos)
      [] kind = "residual_capacity" -> Known(Residual(r, p.id))
      [] kind = "hop_count" -> Known(p.hop_count)
      [] kind = "congestion" ->
            IF EvidenceKnown(r, p)
            THEN Known((CHOOSE e \in EvidenceOf(r, p.id) : TRUE).utilization_ppb) ELSE Unknown
      [] kind = "tier" -> Known(p.tier)
      [] kind = "locality_affinity" -> Flag(r.policy.preferred_locality \ {p.locality} # {})
      [] kind = "reservation_affinity" -> Flag(r.policy.affinity_refs # <<>> /\ ~Affine(r, p))
      [] kind = "incumbent_stability" -> StabilityKey(r, p)

BuildRankEntry(r, p) ==
    [path |-> p,
     keys |-> [k \in DOMAIN r.policy.objectives |->
                  LET o == r.policy.objectives[k]
                      key == ObjectiveKey(r, p, o.kind)
                  IN [known |-> key.known, value |-> key.value, direction |-> o.direction]]]
HasUnknown(entry) == \E k \in DOMAIN entry.keys : ~entry.keys[k].known

\* An UNKNOWN key taken for zero.
KeyBeatsUnknownIsZero(x, y) ==
    IF x.direction = "min" THEN x.value < y.value ELSE y.value < x.value
KeyBeats(x, y) ==
    \/ x.known /\ ~y.known
    \/ /\ x.known /\ y.known
       /\ IF x.direction = "min" THEN x.value < y.value ELSE y.value < x.value

\* Two keys that do not decide: equal values, or both UNKNOWN.
KeyTies(x, y) == x.known = y.known /\ (x.known => x.value = y.value)
RankLess(a, b) ==
    \/ \E k \in DOMAIN a.keys :
          /\ \A j \in 1 .. (k - 1) : KeyTies(a.keys[j], b.keys[j])
          /\ KeyBeats(a.keys[k], b.keys[k])
    \/ /\ \A k \in DOMAIN a.keys : KeyTies(a.keys[k], b.keys[k])
       /\ a.path.id < b.path.id

\* std::sort by RankLess, which leaves no ties when the path ids differ: as many
\* entries as it has predecessors come before an entry.
Rank(entries) ==
    [n \in 1 .. Cardinality(entries) |->
        CHOOSE e \in entries : Cardinality({f \in entries : RankLess(f, e)}) = n - 1]

-----------------------------------------------------------------------------
(* ExclusionRecorder: counts, a bounded sample of the lowest path ids and    *)
(* the example with the lowest id, per reason, in the order of the scan.     *)

NoExclusions == [entries |-> <<>>, truncated |-> FALSE]   \* entries: reason -> record

\* The ids of a set in ascending order.
Ascending(S) ==
    [n \in 1 .. Cardinality(S) |-> CHOOSE x \in S : Cardinality({y \in S : y < x}) = n - 1]

\* One more path in the sample; when it is full the highest id makes room.
SampleWith(sample, id) ==
    IF Len(sample) < Limits.max_exclusion_samples THEN Ascending(ToSet(sample) \cup {id})
    ELSE IF sample # <<>> /\ id < Last(sample)
    THEN Ascending((ToSet(sample) \ {Last(sample)}) \cup {id})
    ELSE sample

\* The entries of the record with the one of a reason put in.
PutEntry(entries, reason, entry) ==
    [c \in DOMAIN entries \cup {reason} |-> IF c = reason THEN entry ELSE entries[c]]

\* Without the rule for the example: the first path the scan meets keeps the place.
AddKeepsFirst(rec, reason, constraint, id) ==
    LET old == IF reason \in DOMAIN rec.entries THEN rec.entries[reason]
               ELSE [count |-> 0, sample |-> <<>>, example |-> id, constraint |-> constraint]
    IN [entries |-> PutEntry(rec.entries, reason,
                             [old EXCEPT !.count = @ + 1, !.sample = SampleWith(@, id)]),
        truncated |-> rec.truncated \/ Len(old.sample) >= Limits.max_exclusion_samples]
AddExclusion(rec, reason, constraint, id) ==
    LET isNew == reason \notin DOMAIN rec.entries
        old == IF isNew
               THEN [count |-> 0, sample |-> <<>>, example |-> id, constraint |-> constraint]
               ELSE rec.entries[reason]
        lower == id < old.example
        entry == [count |-> old.count + 1, sample |-> SampleWith(old.sample, id),
                  example |-> IF lower THEN id ELSE old.example,
                  constraint |-> IF lower THEN constraint ELSE old.constraint]
    IN IF isNew /\ Cardinality(DOMAIN rec.entries) >= Limits.max_exclusion_reasons
       THEN [rec EXCEPT !.truncated = TRUE]
       ELSE [entries |-> PutEntry(rec.entries, reason, entry),
             truncated |-> rec.truncated \/ Len(old.sample) >= Limits.max_exclusion_samples]

\* The verdict on a candidate, and the recorder after a scan.
Verdict(r, p) == LET reason == ExclusionReason(r, p)
                 IN [reason |-> reason, constraint |-> Constraint(r, p, reason), path |-> p.id]
Verdicts(r) == [i \in DOMAIN r.candidates.paths |-> Verdict(r, r.candidates.paths[i])]
Record(rec, v) == IF v.reason = "ok" THEN rec
                  ELSE AddExclusion(rec, v.reason, v.constraint, v.path)
Recorded(verdicts) ==
    LET after[n \in 0 .. Len(verdicts)] ==
            IF n = 0 THEN NoExclusions ELSE Record(after[n - 1], verdicts[n])
    IN after[Len(verdicts)]
Exclusions(r) == Recorded(Verdicts(r))

\* In the order of the reasons, whatever order they were met in.
Summaries(rec) ==
    LET met == SelectSeq(ExclusionOrder, LAMBDA reason : reason \in DOMAIN rec.entries)
    IN [i \in DOMAIN met |-> [reason |-> met[i], count |-> rec.entries[met[i]].count,
                              sample |-> rec.entries[met[i]].sample]]

\* The vector of legal entries, as a set: it is sorted before anything reads it
\* in order.
LegalPaths(r) == {p \in Candidates(r) : ExclusionReason(r, p) = "ok"}
LegalEntries(r) == {BuildRankEntry(r, p) : p \in LegalPaths(r)}

-----------------------------------------------------------------------------
(* The decision, stage by stage.                                            *)

NoExplanation ==
    [truncated |-> FALSE, candidate_count |-> 0, legal_candidate_count |-> 0,
     excluded_candidate_count |-> 0, unknown_evidence_count |-> 0,
     distinct_failure_domains |-> 0, ranked |-> <<>>, exclusions |-> <<>>,
     degradations |-> {}, binding |-> <<>>]

Binding(kind, path, required, available) ==
    [kind |-> kind, path |-> path, required |-> required, available |-> available]
WithBinding(d, b) == [d EXCEPT !.explanation.binding = Append(@, b)]
WithFlags(d, flags) == [d EXCEPT !.explanation.degradations = @ \cup flags]

BuildAuthority(r) ==
    [path_authority |-> r.expected.path_authority, candidate_set |-> r.candidates.id,
     candidate_set_generation |-> r.candidates.generation, capacity |-> r.capacity.id,
     capacity_generation |-> r.capacity.generation, policy |-> r.policy.id,
     policy_generation |-> r.policy.generation, qos |-> r.qos.id,
     qos_generation |-> r.qos.generation, evidence |-> r.evidence.id,
     evidence_generation |-> r.evidence.generation, fabric_epoch |-> r.expected.fabric_epoch]

StaleCodes == {"stale_authority_generation", "stale_candidate_set", "stale_capacity_snapshot",
               "stale_policy", "stale_qos", "stale_fabric_epoch", "stale_evidence"}
OutcomeForValidationCode(code) ==
    IF code \in StaleCodes THEN "stale_input" ELSE "conflicting_input"

Reject(r, code) ==
    [outcome |-> OutcomeForValidationCode(code), code |-> code, intent |-> {},
     authority |-> BuildAuthority(r), delta |-> "no_incumbent", explanation |-> NoExplanation]

StaleChecks(r) == <<
    <<r.candidates.generation # r.expected.candidate_set, "stale_candidate_set">>,
    <<r.capacity.generation # r.expected.capacity, "stale_capacity_snapshot">>,
    <<r.policy.generation # r.expected.policy, "stale_policy">>,
    <<r.qos.generation # r.expected.qos, "stale_qos">> >>
StaleCode(r) == FirstStatus(StaleChecks(r))

\* The decision as it stands when the candidates have been scanned.
Scanned(r, legal, rec) ==
    [Reject(r, "ok") EXCEPT
        !.delta = IF r.incumbent = {} THEN "no_incumbent"
                  ELSE IF EligibleIncumbent(r) # {} THEN "kept" ELSE "replaced_stale",
        !.explanation =
            [NoExplanation EXCEPT
                !.candidate_count = Len(r.candidates.paths),
                !.legal_candidate_count = Cardinality(legal),
                !.excluded_candidate_count = Len(r.candidates.paths) - Cardinality(legal),
                !.unknown_evidence_count = Cardinality({e \in legal : HasUnknown(e)}),
                !.distinct_failure_domains = Cardinality(DomainsOf({e.path : e \in legal})),
                !.exclusions = Summaries(rec),
                !.truncated = rec.truncated]]

\* The first row of a table that applies.
FirstRow(table) ==
    LET applies == {i \in DOMAIN table : table[i][1]}
    IN table[CHOOSE i \in applies : \A j \in applies : i <= j]

\* One reason of a category is enough.
ClassifyAny(r, rec) ==
    LET Some(category) == DOMAIN rec.entries \cap category # {}
    IN FirstRow(<<
        <<Some(StalenessReasons), "stale_input", "stale_evidence">>,
        <<Some(PolicyReasons), "policy_rejected", "policy_rejected_all_paths">>,
        <<Some(CapacityReasons), "insufficient_capacity", "capacity_insufficient">>,
        <<TRUE, "no_legal_path", "not_found">> >>)

\* An empty legal set, classified by the categories of the reasons recorded.
Classify(r, rec) ==
    LET reasons == DOMAIN rec.entries
        count == Len(r.candidates.paths)
        stale == IF "path_authority_stale" \in reasons
                 THEN rec.entries["path_authority_stale"].count ELSE 0
        All(category) == reasons # {} /\ reasons \subseteq category
    IN FirstRow(<<
        <<count = 0, "no_legal_path", "not_found">>,
        <<stale = count, "stale_input", "stale_authority_generation">>,
        <<All(StalenessReasons), "stale_input", "stale_evidence">>,
        <<All(PolicyReasons), "policy_rejected", "policy_rejected_all_paths">>,
        <<All(ServiceReasons), "no_legal_path", "service_class_unsatisfied">>,
        <<All({"capacity_unknown"}), "insufficient_capacity", "not_found">>,
        <<All(CapacityReasons), "insufficient_capacity", "capacity_insufficient">>,
        <<All(QosReasons), "no_legal_path", "latency_budget_unmet">>,
        <<TRUE, "no_legal_path", "not_found">> >>)

EmptyLegalSet(r, d, rec) ==
    LET row == Classify(r, rec)
        sums == d.explanation.exclusions
        dominant == {i \in DOMAIN sums :
                        /\ \A j \in DOMAIN sums : sums[j].count <= sums[i].count
                        /\ \A j \in 1 .. (i - 1) : sums[j].count < sums[i].count}
        BindingOf(reason) == LET e == rec.entries[reason]
                             IN Binding(reason, e.example, e.constraint[1], e.constraint[2])
    IN [d EXCEPT !.outcome = row[2], !.code = row[3],
                 !.explanation.binding =
                     [k \in 1 .. Cardinality(dominant) |->
                         BindingOf(sums[CHOOSE i \in dominant : TRUE].reason)]]

DiversityUnmet(r, d) == d.explanation.distinct_failure_domains < r.policy.min_distinct_domains
Undiversified(r, d) ==
    WithBinding([d EXCEPT !.outcome = "no_legal_path", !.code = "failure_domain_diversity_unmet"],
                Binding("forbidden_failure_domain", 0, r.policy.min_distinct_domains,
                        d.explanation.distinct_failure_domains))

Ranked(r, d, ranked) ==
    LET explained == IF Len(ranked) < Limits.max_ranked_explained
                     THEN Len(ranked) ELSE Limits.max_ranked_explained
    IN [d EXCEPT
          !.explanation.ranked =
              [i \in 1 .. explained |->
                  [path |-> ranked[i].path.id, authority |-> ranked[i].path.authority,
                   is_incumbent |-> \E inc \in EligibleIncumbent(r) : inc.path = ranked[i].path.id,
                   keys |-> ranked[i].keys]],
          !.explanation.truncated = @ \/ explained < Len(ranked)]

\* The position of the incumbent's path in the ranking, or none.
IncumbentPositions(r, ranked) ==
    {i \in DOMAIN ranked : \E inc \in r.incumbent : ranked[i].path.id = inc.path}

\* A worse candidate whose difference wraps around in 64 bits.
ImprovementWraps(r, best, current) ==
    LET k == r.policy.threshold_objective_index + 1
        gain == IF r.policy.objectives[k].direction = "min"
                THEN current.keys[k].value - best.keys[k].value
                ELSE best.keys[k].value - current.keys[k].value
    IN (gain + MaxU64 + 1) % (MaxU64 + 1)

\* How much the best candidate improves the threshold objective; UNKNOWN improves nothing.
Improvement(r, best, current) ==
    LET k == r.policy.threshold_objective_index + 1
        x == best.keys[k]
        y == current.keys[k]
        gain == IF r.policy.objectives[k].direction = "min" THEN y.value - x.value
                ELSE x.value - y.value
    IN IF x.known /\ y.known /\ gain > 0 THEN gain ELSE 0

\* The positions of an eligible incumbent that churn suppression holds on to.
SuppressedAt(r, ranked) ==
    {i \in IncumbentPositions(r, ranked) :
        /\ EligibleIncumbent(r) # {}
        /\ r.policy.prefer_incumbent
        /\ i # 1
        /\ Improvement(r, ranked[1], ranked[i]) <= r.policy.move_improvement_threshold}
Chosen(r, ranked) ==
    ranked[IF SuppressedAt(r, ranked) = {} THEN 1
           ELSE CHOOSE i \in SuppressedAt(r, ranked) : TRUE]
ChurnFlags(r, ranked) ==
    CASE r.incumbent = {} -> {"no_incumbent"}
      [] r.incumbent # {} /\ EligibleIncumbent(r) = {} -> {"incumbent_stale"}
      [] OTHER -> IF SuppressedAt(r, ranked) = {} THEN {} ELSE {"churn_suppressed"}

Moving(r, p) == \E inc \in r.incumbent : inc.path # p.id
MoveDeferred(r, p) == Moving(r, p) /\ r.policy.prefer_incumbent /\ r.policy.on_move = "defer"
DeferMoveKeepsCode(r, d) == [d EXCEPT !.outcome = "deferred", !.delta = "moved"]
DeferMove(r, d) ==
    [d EXCEPT !.outcome = "deferred", !.code = "policy_move_suppressed",
              !.delta = IF EligibleIncumbent(r) # {} THEN "moved" ELSE "replaced_stale"]

BelowGate(r, p) == /\ r.policy.min_residual_headroom_bytes # 0
                   /\ Residual(r, p.id) < r.policy.min_residual_headroom_bytes
GateBinding(r, p) == Binding("capacity_insufficient", p.id,
                             r.policy.min_residual_headroom_bytes, Residual(r, p.id))
DeferAdmission(r, d, p) ==
    WithBinding([d EXCEPT !.outcome = "deferred", !.code = "policy_headroom_gate"],
                GateBinding(r, p))

Relaxed(r, p) == RelaxMultiplier(r, p) \/ RelaxReservation(r, p)
PlacementFlags(r, entry) ==
    LET p == entry.path IN
    {f \in DegradingFlags \cup {"incumbent_superseded"} :
        CASE f = "headroom_below_comfort" -> BelowGate(r, p)
          [] f = "service_relaxed" -> Relaxed(r, p)
          [] f = "locality_preference_unmet" -> r.policy.preferred_locality \ {p.locality} # {}
          [] f = "reservation_preference_unmet" -> r.policy.affinity_refs # <<>> /\ ~Affine(r, p)
          [] f = "evidence_unknown" -> HasUnknown(entry)
          [] f = "incumbent_superseded" -> Moving(r, p) /\ EligibleIncumbent(r) # {}}
PlacementBindings(r, p) ==
    (IF BelowGate(r, p) THEN <<GateBinding(r, p)>> ELSE <<>>)
    \o (IF Relaxed(r, p)
        THEN <<Binding("service_headroom_unmet", p.id, RequiredHeadroom(r), Residual(r, p.id))>>
        ELSE <<>>)
    \o <<Binding("capacity_insufficient", p.id, RequiredHeadroom(r), Residual(r, p.id))>>
FinalDelta(r, p) ==
    CASE r.incumbent = {} -> "no_incumbent"
      [] r.incumbent # {} /\ EligibleIncumbent(r) = {} -> "replaced_stale"
      [] OTHER -> IF Moving(r, p) THEN "moved" ELSE "kept"

-----------------------------------------------------------------------------
(* The intent and its verification against the request.                     *)

\* The first affine reference in the order supplied; for a class that needs a
\* reservation and found none, the lowest reference of the path.
Reservation(r, p) ==
    LET affine == {k \in DOMAIN p.reservations :
                      p.reservations[k] \in ToSet(r.policy.affinity_refs)}
        all == ToSet(p.reservations)
    IN IF affine # {}
       THEN p.reservations[CHOOSE k \in affine : \A j \in affine : k <= j]
       ELSE IF ServiceRequiresReservation(r.qos.service_class) /\ all # {}
       THEN CHOOSE ref \in all : \A other \in all : ~RefLess(other, ref)
       ELSE NoRef

IntentEvidenceUntrusted(r) == <<r.evidence.id, r.evidence.generation>>
IntentEvidence(r) ==
    IF EvidenceTrusted(r) THEN <<r.evidence.id, r.evidence.generation>> ELSE <<0, 0>>

Intent(r, p) ==
    [flow |-> r.flow, flow_generation |-> r.flow_generation, path |-> p.id,
     path_authority |-> p.authority, candidate_set |-> r.candidates.id,
     candidate_set_generation |-> r.candidates.generation, capacity |-> r.capacity.id,
     capacity_generation |-> r.capacity.generation, policy |-> r.policy.id,
     policy_generation |-> r.policy.generation, qos |-> r.qos.id,
     qos_generation |-> r.qos.generation, evidence |-> IntentEvidence(r)[1],
     evidence_generation |-> IntentEvidence(r)[2], fabric_epoch |-> r.expected.fabric_epoch,
     attempt |-> r.attempt, reservation |-> Reservation(r, p)]

VerifyIntent(r, i) ==
    /\ ValidateRequest(r) = "ok"
    /\ i.flow = r.flow /\ i.flow_generation = r.flow_generation
    /\ i.path_authority = r.expected.path_authority
    /\ i.candidate_set = r.candidates.id
    /\ i.candidate_set_generation = r.candidates.generation
    /\ i.capacity = r.capacity.id /\ i.capacity_generation = r.capacity.generation
    /\ i.policy = r.policy.id /\ i.policy_generation = r.policy.generation
    /\ i.qos = r.qos.id /\ i.qos_generation = r.qos.generation
    /\ i.fabric_epoch = r.expected.fabric_epoch
    /\ IF Valid(i.evidence_generation)
       THEN /\ i.evidence_generation = r.evidence.generation
            /\ i.evidence = r.evidence.id
            /\ i.evidence_generation = r.expected.evidence
       ELSE ~Valid(i.evidence)
    /\ \E p \in Candidates(r) :
          /\ p.id = i.path
          /\ p.authority = i.path_authority
          /\ ExclusionReason(r, p) = "ok"
          /\ ValidRef(i.reservation) => i.reservation \in ToSet(p.reservations)

-----------------------------------------------------------------------------
(* Place.                                                                   *)

FailedVerification(r, d) ==
    [Reject(r, "internal_invariant_violation") EXCEPT
        !.explanation.candidate_count = d.explanation.candidate_count,
        !.explanation.legal_candidate_count = d.explanation.legal_candidate_count,
        !.explanation.excluded_candidate_count = d.explanation.excluded_candidate_count,
        !.explanation.exclusions = d.explanation.exclusions]

PlaceOn(r, d, entry) ==
    LET p == entry.path
        intent == Intent(r, p)
        flagged == WithFlags(d, PlacementFlags(r, entry))
        flags == flagged.explanation.degradations
    IN IF ~VerifyIntent(r, intent) THEN FailedVerification(r, d)
       ELSE [flagged EXCEPT
                !.delta = FinalDelta(r, p),
                !.explanation.binding = @ \o PlacementBindings(r, p),
                !.outcome = IF flags \cap DegradingFlags = {} THEN "placed" ELSE "placed_degraded",
                !.code = "ok",
                !.intent = {intent}]

\* A nonempty, sufficiently diverse legal set.
PlaceLegal(r, d, legal) ==
    LET ranked == Rank(legal)
        entry == Chosen(r, ranked)
        churned == WithFlags(Ranked(r, d, ranked), ChurnFlags(r, ranked))
    IN CASE MoveDeferred(r, entry.path) -> DeferMove(r, churned)
         [] ~MoveDeferred(r, entry.path) /\ BelowGate(r, entry.path)
               /\ r.policy.on_below = "defer" -> DeferAdmission(r, churned, entry.path)
         [] OTHER -> PlaceOn(r, churned, entry)

Counted(r, code) ==
    [Reject(r, code) EXCEPT !.explanation.candidate_count = Len(r.candidates.paths)]

PlaceCurrent(r) ==
    LET legal == LegalEntries(r)
        rec == Exclusions(r)
        scanned == Scanned(r, legal, rec)
    IN CASE legal = {} -> EmptyLegalSet(r, scanned, rec)
         [] legal # {} /\ DiversityUnmet(r, scanned) -> Undiversified(r, scanned)
         [] OTHER -> PlaceLegal(r, scanned, legal)

Place(r) ==
    LET invalid == ValidateRequest(r)
        stale == StaleCode(r)
    IN IF invalid # "ok" THEN Reject(r, invalid)
       ELSE IF stale # "ok" THEN Counted(r, stale)
       ELSE IF HeadroomOverflows(r) THEN Counted(r, "arithmetic_overflow")
       ELSE PlaceCurrent(r)

=============================================================================
