----------------------------- MODULE FlowProofs -----------------------------
(***************************************************************************)
(* The properties of Flow, proved for every request, every limit and every  *)
(* number of revisions.  The invariant is short, because Place is a         *)
(* function; what the theorems need is what that function does, and what it *)
(* does to a request that was changed: adopted, inverted, unlimited,        *)
(* answered otherwise, reordered.                                           *)
(***************************************************************************)
EXTENDS Flow, EngineProofs

-----------------------------------------------------------------------------
(* What is decided is what Place says of the request as it is.              *)

\* The decision kept is the one on the request kept.
FlowInv ==
    /\ request \in PlacementRequest
    /\ decision \subseteq {Place(request)}
    /\ revisions \in 0 .. MaxRevisions

\* An intent is that of a legal path of a valid and current request.
LEMMA PlacedIntent ==
    ASSUME NEW r \in PlacementRequest, NEW i \in Place(r).intent
    PROVE  /\ ValidateRequest(r) = "ok" /\ StaleCode(r) = "ok" /\ Place(r) = PlaceCurrent(r)
           /\ LegalPaths(r) # {} /\ Diverse(r)
           /\ LET p == Chosen(r, Rank(LegalEntries(r))).path
              IN /\ p \in LegalPaths(r) /\ i = Intent(r, p)
                 /\ Place(r).intent = {Intent(r, p)}
                 /\ ~MoveDeferred(r, p) /\ ~(BelowGate(r, p) /\ r.policy.on_below = "defer")
<1>1. Place(r) # Reject(r, ValidateRequest(r))
    BY RejectIs
<1>2. Place(r) # Counted(r, StaleCode(r))
    BY CountedIs
<1>3. ValidateRequest(r) = "ok" /\ StaleCode(r) = "ok" /\ Place(r) = PlaceCurrent(r)
    BY <1>1, <1>2, PlaceIs
<1> QED
    BY <1>3, PlaceCurrentIs

\* What an intent reports when it is adopted is an incumbent.
LEMMA AdoptedIsARequest ==
    ASSUME NEW r \in PlacementRequest, NEW p \in Candidates(r)
    PROVE  /\ IncumbentOf(Intent(r, p)) \in IncumbentPlacement
           /\ [r EXCEPT !.incumbent = {IncumbentOf(Intent(r, p))}] \in PlacementRequest
<1>1. /\ p.id \in Nat /\ p.authority \in Nat /\ p.reservations \in Seq(ReservationRef)
    BY CandidateFields
<1>2. Reservation(r, p) \in ReservationRef
  <2>1. NoRef \in ReservationRef
      BY DEF NoRef, ReservationRef
  <2>2. ToSet(p.reservations) \subseteq ReservationRef
      BY <1>1 DEF ToSet
  <2> QED
      BY <2>1, <2>2, ReservationIs
<1>3. r.candidates.generation \in Nat
    BY RequestFields DEF CandidateSet
<1>4. r.capacity.generation \in Nat
    BY RequestFields DEF CapacitySnapshot
<1>5. r.policy.generation \in Nat
    BY RequestFields DEF PlacementPolicy
<1>6. r.qos.generation \in Nat
    BY RequestFields DEF QosProfile
<1>7. r.expected.fabric_epoch \in Nat
    BY RequestFields DEF AuthorityExpectation
<1>8. IncumbentOf(Intent(r, p)) =
        [id |-> 1, generation |-> 1, path |-> p.id, path_authority |-> p.authority,
         candidate_set_generation |-> r.candidates.generation,
         capacity_generation |-> r.capacity.generation,
         policy_generation |-> r.policy.generation, qos_generation |-> r.qos.generation,
         fabric_epoch |-> r.expected.fabric_epoch, reservation |-> Reservation(r, p)]
    BY DEF IncumbentOf, Intent
<1>9. IncumbentOf(Intent(r, p)) \in IncumbentPlacement
    BY <1>1, <1>2, <1>3, <1>4, <1>5, <1>6, <1>7, <1>8 DEF IncumbentPlacement
<1>10. {IncumbentOf(Intent(r, p))} \in Optional(IncumbentPlacement)
    BY <1>9 DEF Optional
<1> DEFINE one == {IncumbentOf(Intent(r, p))}
<1> HIDE DEF one
<1>11. [r EXCEPT !.incumbent = one] \in PlacementRequest
    BY <1>10 DEF PlacementRequest, one
<1> QED
    BY <1>9, <1>11 DEF one

\* Init establishes the invariant.
LEMMA FlowInit == Init => FlowInv
BY FlowAssumption DEF Init, FlowInv

\* Every step keeps it.
LEMMA FlowStep == FlowInv /\ [Next]_vars => FlowInv'
<1> SUFFICES ASSUME FlowInv, [Next]_vars PROVE FlowInv'
    OBVIOUS
<1>1. CASE PlaceFlow
    BY <1>1 DEF PlaceFlow, FlowInv
<1>2. CASE Revise
    BY <1>2, FlowAssumption DEF Revise, FlowInv
<1>3. CASE Adopt
  <2>1. PICK d \in decision : d.intent # {} /\ request' = Adopted(request, d)
      BY <1>3 DEF Adopt
  <2>2. request \in PlacementRequest /\ d = Place(request)
      BY <2>1 DEF FlowInv
  <2>3. PICK p \in LegalPaths(request) : d.intent = {Intent(request, p)}
      BY <2>1, <2>2, PlacedIntent
  <2>4. p \in Candidates(request)
      BY DEF LegalPaths
  <2>5. {IncumbentOf(i) : i \in d.intent} = {IncumbentOf(Intent(request, p))}
      BY <2>3
  <2>6. request' \in PlacementRequest
      BY <2>1, <2>2, <2>4, <2>5, AdoptedIsARequest DEF Adopted
  <2> QED
      BY <1>3, <2>6 DEF Adopt, FlowInv
<1>4. CASE UNCHANGED vars
    BY <1>4 DEF vars, FlowInv
<1> QED
    BY <1>1, <1>2, <1>3, <1>4 DEF Next

\* The decision on record is what the engine says of the request on record.
THEOREM FlowInvariant == Spec => []FlowInv
BY FlowInit, FlowStep, PTL DEF Spec

\* What a decision may say.
LEMMA DecisionIs ==
    ASSUME NEW r \in PlacementRequest
    PROVE  LET d == Place(r)
           IN /\ d.outcome \in Outcomes /\ d.delta \in Deltas
              /\ d.outcome \in PlacedOutcomes <=> d.intent # {}
              /\ d.outcome \in PlacedOutcomes <=> d.code = "ok"
<1> DEFINE d == Place(r)
<1>1. ASSUME d.outcome \in {"stale_input", "conflicting_input"}, d.code # "ok",
             d.intent = {}, d.delta = "no_incumbent"
      PROVE  /\ d.outcome \in Outcomes /\ d.delta \in Deltas
             /\ d.outcome \in PlacedOutcomes <=> d.intent # {}
             /\ d.outcome \in PlacedOutcomes <=> d.code = "ok"
    BY <1>1 DEF Outcomes, Deltas, PlacedOutcomes
<1>2. CASE ValidateRequest(r) # "ok"
  <2>1. d = Reject(r, ValidateRequest(r))
      BY <1>2, PlaceIs
  <2>2. /\ d.code = ValidateRequest(r) /\ d.outcome = OutcomeForValidationCode(ValidateRequest(r))
        /\ d.intent = {} /\ d.delta = "no_incumbent"
      BY <2>1, RejectIs
  <2> QED
      BY <1>1, <1>2, <2>2 DEF OutcomeForValidationCode
<1>3. CASE ValidateRequest(r) = "ok" /\ StaleCode(r) # "ok"
  <2>1. d = Counted(r, StaleCode(r))
      BY <1>3, PlaceIs
  <2>2. /\ d.code = StaleCode(r) /\ d.outcome = OutcomeForValidationCode(StaleCode(r))
        /\ d.intent = {} /\ d.delta = "no_incumbent"
      BY <2>1, CountedIs
  <2> QED
      BY <1>1, <1>3, <2>2 DEF OutcomeForValidationCode
<1>4. CASE ValidateRequest(r) = "ok" /\ StaleCode(r) = "ok"
  <2>1. d = PlaceCurrent(r)
      BY <1>4, PlaceIs
  <2>2. CASE LegalPaths(r) = {}
    <3>1. /\ d.outcome = Classify(r, Exclusions(r))[2] /\ d.code = Classify(r, Exclusions(r))[3]
          /\ d.intent = {} /\ d.delta \in {"no_incumbent", "kept", "replaced_stale"}
        BY <1>4, <2>1, <2>2, PlaceCurrentIs
    <3>2. /\ d.outcome \in {"no_legal_path", "stale_input", "policy_rejected",
                            "insufficient_capacity"}
          /\ d.code # "ok"
        BY <3>1, ClassifyIs
    <3> QED
        BY <3>1, <3>2 DEF Outcomes, Deltas, PlacedOutcomes
  <2>3. CASE LegalPaths(r) # {} /\ ~Diverse(r)
    <3>1. /\ d.outcome = "no_legal_path" /\ d.code = "failure_domain_diversity_unmet"
          /\ d.intent = {} /\ d.delta \in {"no_incumbent", "kept", "replaced_stale"}
        BY <1>4, <2>1, <2>3, PlaceCurrentIs
    <3> QED
        BY <3>1 DEF Outcomes, Deltas, PlacedOutcomes
  <2>4. CASE LegalPaths(r) # {} /\ Diverse(r)
    <3> DEFINE entry == Chosen(r, Rank(LegalEntries(r)))
               p == entry.path
    <3>1. CASE MoveDeferred(r, p)
      <4>1. /\ d.outcome = "deferred" /\ d.code = "policy_move_suppressed"
            /\ d.intent = {} /\ d.delta \in {"moved", "replaced_stale"}
          BY <1>4, <2>1, <2>4, <3>1, PlaceCurrentIs
      <4> QED
          BY <4>1 DEF Outcomes, Deltas, PlacedOutcomes
    <3>2. CASE ~MoveDeferred(r, p) /\ BelowGate(r, p) /\ r.policy.on_below = "defer"
      <4>1. /\ d.outcome = "deferred" /\ d.code = "policy_headroom_gate"
            /\ d.intent = {} /\ d.delta \in {"no_incumbent", "kept", "replaced_stale"}
          BY <1>4, <2>1, <2>4, <3>2, PlaceCurrentIs
      <4> QED
          BY <4>1 DEF Outcomes, Deltas, PlacedOutcomes
    <3>3. CASE ~MoveDeferred(r, p) /\ ~(BelowGate(r, p) /\ r.policy.on_below = "defer")
      <4>1. /\ d.outcome = IF PlacementFlags(r, entry) \cap DegradingFlags = {}
                           THEN "placed" ELSE "placed_degraded"
            /\ d.code = "ok" /\ d.intent = {Intent(r, p)} /\ d.delta = FinalDelta(r, p)
          BY <1>4, <2>1, <2>4, <3>3, PlaceCurrentIs
      <4>2. FinalDelta(r, p) \in Deltas
          BY DEF FinalDelta, Deltas
      <4> QED
          BY <4>1, <4>2 DEF Outcomes, PlacedOutcomes
    <3> QED
        BY <3>1, <3>2, <3>3
  <2> QED
      BY <2>2, <2>3, <2>4
<1> QED
    BY <1>2, <1>3, <1>4

\* The type invariant of the flow: for every limit and every request the facts can
\* be revised to, a decision carries an intent exactly when it places the flow.
THEOREM FlowTypeCorrect == Spec => []TypeOK
<1>1. ASSUME FlowInv PROVE TypeOK
  <2>1. Cardinality(decision) <= 1
    <3>1. CASE decision = {}
        BY <3>1, FS_EmptySet
    <3>2. CASE decision = {Place(request)}
      <4>1. Cardinality({Place(request)}) = 1
          BY FS_Singleton, Zenon
      <4> QED
          BY <3>2, <4>1
    <3>3. decision \subseteq {Place(request)}
        BY <1>1 DEF FlowInv
    <3>4. decision = {} \/ decision = {Place(request)}
        BY <3>3
    <3> QED
        BY <3>1, <3>2, <3>4
  <2>2. ASSUME NEW d \in decision
        PROVE  /\ d.outcome \in Outcomes /\ d.delta \in Deltas
               /\ d.outcome \in PlacedOutcomes <=> d.intent # {}
               /\ d.outcome \in PlacedOutcomes <=> d.code = "ok"
    <3>1. d = Place(request) /\ request \in PlacementRequest
        BY <1>1 DEF FlowInv
    <3> QED
        BY <3>1, DecisionIs
  <2> QED
      BY <1>1, <2>1, <2>2 DEF FlowInv, TypeOK
<1> QED
    BY <1>1, FlowInvariant, PTL

\* Neither code is one that a decision on a valid and current request carries.
LEMMA CodesOfACurrentRequest ==
    ASSUME NEW r \in PlacementRequest, ValidateRequest(r) = "ok"
    PROVE  PlaceCurrent(r).code \notin {"internal_invariant_violation", "arithmetic_overflow"}
<1> DEFINE d == PlaceCurrent(r)
           p == Chosen(r, Rank(LegalEntries(r))).path
<1>1. CASE LegalPaths(r) = {}
  <2>1. d.code = Classify(r, Exclusions(r))[3]
      BY <1>1, PlaceCurrentIs
  <2> QED
      BY <2>1, ClassifyIs
<1>2. CASE LegalPaths(r) # {} /\ ~Diverse(r)
  <2>1. d.code = "failure_domain_diversity_unmet"
      BY <1>2, PlaceCurrentIs
  <2> QED
      BY <2>1
<1>3. CASE LegalPaths(r) # {} /\ Diverse(r)
  <2>1. d.code \in {"policy_move_suppressed", "policy_headroom_gate", "ok"}
      BY <1>3, PlaceCurrentIs
  <2> QED
      BY <2>1
<1> QED
    BY <1>1, <1>2, <1>3

\* For every request, the engine's own verification of the intent (VerifyIntent in
\* PlacementEngine::Place) accepts what the engine decided, and the overflow check
\* of Prepare is never what stops a request.
THEOREM SelfVerification == Spec => []SelfVerificationNeverRejects
<1>1. ASSUME FlowInv PROVE SelfVerificationNeverRejects
  <2> SUFFICES ASSUME NEW d \in decision
               PROVE  /\ d.code # "internal_invariant_violation"
                      /\ d.code = "arithmetic_overflow" => d.explanation.candidate_count = 0
      BY DEF SelfVerificationNeverRejects
  <2> DEFINE r == request
  <2>1. r \in PlacementRequest /\ d = Place(r)
      BY <1>1 DEF FlowInv
  <2> HIDE DEF r
  <2>2. CASE ValidateRequest(r) # "ok"
    <3>1. d = Reject(r, ValidateRequest(r)) /\ ValidateRequest(r) \in ValidationCodes
        BY <2>1, <2>2, PlaceIs
    <3>2. d.code = ValidateRequest(r) /\ d.explanation.candidate_count = 0
        BY <3>1, RejectIs
    <3> QED
        BY <3>1, <3>2 DEF ValidationCodes
  <2>3. CASE ValidateRequest(r) = "ok" /\ StaleCode(r) # "ok"
    <3>1. d = Counted(r, StaleCode(r)) /\ StaleCode(r) \in StaleCodes
        BY <2>1, <2>3, PlaceIs
    <3>2. d.code = StaleCode(r)
        BY <3>1, CountedIs
    <3> QED
        BY <3>1, <3>2 DEF StaleCodes
  <2>4. CASE ValidateRequest(r) = "ok" /\ StaleCode(r) = "ok"
      BY <2>1, <2>4, PlaceIs, CodesOfACurrentRequest
  <2> QED
      BY <2>2, <2>3, <2>4
<1> QED
    BY <1>1, FlowInvariant, PTL

-----------------------------------------------------------------------------
(* The legal paths are the lawful ones, and the ranking puts the best first. *)

\* On a valid request, the seventeen exclusions leave exactly the paths that the
\* unordered conjunction allows.
LEMMA LegalIsLawful ==
    ASSUME NEW r \in PlacementRequest, ValidateRequest(r) = "ok", NEW p \in Candidates(r)
    PROVE  ExclusionReason(r, p) = "ok" <=> Lawful(r, p)
<1> DEFINE policy == r.policy
           class == r.qos.service_class
           residual == Residual(r, p.id)
           base == RequiredBase(r)
           relax == IF policy.allow_degraded THEN policy.max_relaxation_steps ELSE 0
           factor == IF relax >= 1 THEN 1 ELSE ServiceHeadroomMultiplier(class)
           blind == IF EvidenceTrusted(r) THEN EvidenceOf(r, p.id) = {} ELSE TRUE
           mode == IF EvidencePresent(r) /\ ~EvidenceTrusted(r) THEN policy.on_stale
                   ELSE policy.on_missing
<1>1. Lawful(r, p) <=>
       /\ p.authority = r.expected.path_authority
       /\ policy.allowed_tiers = <<>> \/ p.tier \in ToSet(policy.allowed_tiers)
       /\ ToSet(policy.required_labels) \subseteq ToSet(p.labels)
       /\ ToSet(policy.forbidden_labels) \cap ToSet(p.labels) = {}
       /\ policy.required_locality \subseteq {p.locality}
       /\ p.locality \notin ToSet(policy.forbidden_localities) \ {0}
       /\ policy.required_domain \subseteq {p.failure_domain}
       /\ p.failure_domain \notin ToSet(policy.forbidden_domains) \ {0}
       /\ policy.avoid_occupied_domains =>
             p.failure_domain \notin ToSet(r.occupied_failure_domains) \ {0}
       /\ \E e \in CapacityOf(r, p.id) :
             e.residual_bytes >= factor * r.qos.required_residual_bytes
       /\ ServiceRequiresReservation(class) => relax = 2 \/ p.reservations # <<>>
       /\ policy.affinity_required => Affine(r, p)
       /\ r.qos.max_latency_nanos = 0 \/ p.latency_nanos <= r.qos.max_latency_nanos
       /\ UsesCongestion(r) /\ blind => mode = "rank_worst"
    BY DEF Lawful
<1>2. policy.allow_degraded \in BOOLEAN /\ policy.max_relaxation_steps \in 0 .. 2
  <2>1. policy.max_relaxation_steps \in Nat /\ ~(policy.max_relaxation_steps > 2)
      BY PolicyFields, RequestOk, EnumerationsOk
  <2> QED
      BY <2>1, PolicyFields
<1>3. ~policy.allow_degraded => policy.max_relaxation_steps = 0
    BY RequestOk, PolicyOk DEF Consistent
<1>4. relax = policy.max_relaxation_steps
    BY <1>2, <1>3
<1>5. /\ residual \in Nat
      /\ \A e \in CapacityOf(r, p.id) : e.residual_bytes = residual
    BY ResidualIs
<1>6. /\ base \in Nat /\ RequiredHeadroom(r) \in Nat /\ RequiredHeadroom(r) >= base
      /\ Multiplier(r) \in 1 .. 3 /\ RequiredHeadroom(r) = base * Multiplier(r)
    BY HeadroomIs
<1>7. (\E e \in CapacityOf(r, p.id) :
          e.residual_bytes >= factor * r.qos.required_residual_bytes) <=>
      /\ CapacityOf(r, p.id) # {} /\ ~(residual < base)
      /\ ~(residual < RequiredHeadroom(r) /\ ~RelaxMultiplier(r, p))
  <2>1. r.qos.required_residual_bytes = base /\ Multiplier(r) = ServiceHeadroomMultiplier(class)
      BY DEF RequiredBase, Multiplier
  <2>2. RelaxMultiplier(r, p) <=> residual < RequiredHeadroom(r) /\ relax >= 1
      BY <1>2, <1>3, <1>4 DEF RelaxMultiplier
  <2>3. factor * base = IF relax >= 1 THEN base ELSE RequiredHeadroom(r)
    <3>1. CASE relax >= 1
        BY <1>6, <3>1
    <3>2. CASE ~(relax >= 1)
        BY <1>6, <2>1, <3>2
    <3> QED
        BY <3>1, <3>2
  <2> HIDE DEF residual, base, factor, relax
  <2>4. (\E e \in CapacityOf(r, p.id) : e.residual_bytes >= factor * base) <=>
            CapacityOf(r, p.id) # {} /\ residual >= factor * base
      BY <1>5
  <2> QED
      BY <1>5, <1>6, <2>1, <2>2, <2>3, <2>4
<1>8. (ServiceRequiresReservation(class) => relax = 2 \/ p.reservations # <<>>) <=>
      ~(/\ ServiceRequiresReservation(class) /\ p.reservations = <<>>
        /\ ~RelaxReservation(r, p))
    BY <1>2, <1>3, <1>4 DEF RelaxReservation
<1>9. (UsesCongestion(r) /\ blind => mode = "rank_worst") <=>
      /\ ~(EvidenceStale(r) /\ policy.on_stale = "hard_exclude")
      /\ ~(EvidenceMissing(r, p) /\ policy.on_missing = "hard_exclude")
  <2>1. policy.on_missing \in EvidenceModes /\ policy.on_stale \in EvidenceModes
      BY RequestOk, EnumerationsOk
  <2> QED
      BY <2>1 DEF EvidenceModes, EvidenceStale, EvidenceMissing, EvidenceTrusted
<1>10. /\ (p.locality \notin ToSet(policy.forbidden_localities) \ {0}) <=>
              ~(Valid(p.locality) /\ p.locality \in ToSet(policy.forbidden_localities))
       /\ (p.failure_domain \notin ToSet(policy.forbidden_domains) \ {0}) <=>
              ~(Valid(p.failure_domain) /\ p.failure_domain \in ToSet(policy.forbidden_domains))
       /\ (policy.avoid_occupied_domains =>
              p.failure_domain \notin ToSet(r.occupied_failure_domains) \ {0}) <=>
          ~(/\ policy.avoid_occupied_domains /\ Valid(p.failure_domain)
            /\ p.failure_domain \in ToSet(r.occupied_failure_domains))
    BY DEF Valid
<1>11. (r.qos.max_latency_nanos = 0 \/ p.latency_nanos <= r.qos.max_latency_nanos) <=>
       ~(r.qos.max_latency_nanos # 0 /\ p.latency_nanos > r.qos.max_latency_nanos)
  <2>1. p.latency_nanos \in Nat
      BY CandidateFields
  <2>2. r.qos.max_latency_nanos \in Nat
      BY RequestFields DEF QosProfile
  <2> QED
      BY <2>1, <2>2
<1> HIDE DEF residual, base, factor, relax, blind, mode
<1>12. ExclusionReason(r, p) = "ok" <=>
            /\ ~(p.authority # r.expected.path_authority)
            /\ ~(policy.allowed_tiers # <<>> /\ p.tier \notin ToSet(policy.allowed_tiers))
            /\ ~(ToSet(p.labels) \cap ToSet(policy.forbidden_labels) # {})
            /\ ~(ToSet(policy.required_labels) \ ToSet(p.labels) # {})
            /\ ~(Valid(p.locality) /\ p.locality \in ToSet(policy.forbidden_localities))
            /\ ~(policy.required_locality \ {p.locality} # {})
            /\ ~(Valid(p.failure_domain) /\ p.failure_domain \in ToSet(policy.forbidden_domains))
            /\ ~(policy.required_domain \ {p.failure_domain} # {})
            /\ ~(/\ policy.avoid_occupied_domains /\ Valid(p.failure_domain)
                 /\ p.failure_domain \in ToSet(r.occupied_failure_domains))
            /\ ~(CapacityOf(r, p.id) = {})
            /\ ~(residual < base)
            /\ ~(residual < RequiredHeadroom(r) /\ ~RelaxMultiplier(r, p))
            /\ ~(/\ ServiceRequiresReservation(class) /\ p.reservations = <<>>
                 /\ ~RelaxReservation(r, p))
            /\ ~(policy.affinity_required /\ ~Affine(r, p))
            /\ ~(r.qos.max_latency_nanos # 0 /\ p.latency_nanos > r.qos.max_latency_nanos)
            /\ ~(EvidenceStale(r) /\ policy.on_stale = "hard_exclude")
            /\ ~(EvidenceMissing(r, p) /\ policy.on_missing = "hard_exclude")
    BY ExclusionReasonOk DEF residual, base
<1>13. /\ (ToSet(policy.required_labels) \subseteq ToSet(p.labels)) <=>
             ~(ToSet(policy.required_labels) \ ToSet(p.labels) # {})
       /\ (ToSet(policy.forbidden_labels) \cap ToSet(p.labels) = {}) <=>
             ~(ToSet(p.labels) \cap ToSet(policy.forbidden_labels) # {})
       /\ (policy.required_locality \subseteq {p.locality}) <=>
             ~(policy.required_locality \ {p.locality} # {})
       /\ (policy.required_domain \subseteq {p.failure_domain}) <=>
             ~(policy.required_domain \ {p.failure_domain} # {})
    OBVIOUS
<1> QED
    BY <1>1, <1>7, <1>8, <1>9, <1>10, <1>11, <1>12, <1>13

\* A path that is better for the policy comes before in the ranking.
LEMMA BetterRanksFirst ==
    ASSUME NEW r \in PlacementRequest, ValidateRequest(r) = "ok",
           NEW p \in Candidates(r), NEW q \in Candidates(r), Better(r, p, q)
    PROVE  RankLess(BuildRankEntry(r, p), BuildRankEntry(r, q))
<1> DEFINE objectives == r.policy.objectives
           n == Len(objectives)
           x == [k \in 1 .. n |-> ObjectiveKey(r, p, objectives[k].kind)]
           y == [k \in 1 .. n |-> ObjectiveKey(r, q, objectives[k].kind)]
           a == BuildRankEntry(r, p)
           b == BuildRankEntry(r, q)
           differs == {k \in 1 .. n : x[k] # y[k]}
           first == CHOOSE k \in differs : \A j \in differs : k <= j
           sign == IF objectives[first].direction = "min" THEN 1 ELSE -1
<1>1. n \in Nat /\ DOMAIN objectives = 1 .. n /\ DOMAIN a.keys = 1 .. n
    BY EntryIs
<1>2. ASSUME NEW k \in 1 .. n
      PROVE  /\ a.keys[k].known = x[k].known /\ a.keys[k].value = x[k].value
             /\ a.keys[k].direction = objectives[k].direction
             /\ x[k] = Unknown \/ \E v \in Nat : x[k] = Known(v)
             /\ objectives[k].direction \in Directions
    BY EntryIs
<1>3. ASSUME NEW k \in 1 .. n
      PROVE  /\ b.keys[k].known = y[k].known /\ b.keys[k].value = y[k].value
             /\ b.keys[k].direction = objectives[k].direction
             /\ y[k] = Unknown \/ \E v \in Nat : y[k] = Known(v)
    BY EntryIs
<1>4. /\ differs # {}
      /\ \/ x[first].known /\ ~y[first].known
         \/ x[first].known /\ y[first].known /\ sign * (y[first].value - x[first].value) > 0
  <2>1. differs = {k \in DOMAIN objectives : ObjectiveKey(r, p, objectives[k].kind)
                                             # ObjectiveKey(r, q, objectives[k].kind)}
      BY <1>1
  <2> DEFINE D == {k \in DOMAIN objectives : ObjectiveKey(r, p, objectives[k].kind)
                                             # ObjectiveKey(r, q, objectives[k].kind)}
             f == CHOOSE k \in D : \A j \in D : k <= j
             s == IF objectives[f].direction = "min" THEN 1 ELSE -1
  <2>2. /\ D # {}
        /\ \/ /\ ObjectiveKey(r, p, objectives[f].kind).known
              /\ ~ObjectiveKey(r, q, objectives[f].kind).known
           \/ /\ ObjectiveKey(r, p, objectives[f].kind).known
              /\ ObjectiveKey(r, q, objectives[f].kind).known
              /\ s * (ObjectiveKey(r, q, objectives[f].kind).value
                         - ObjectiveKey(r, p, objectives[f].kind).value) > 0
      BY DEF Better
  <2>3. D = differs
      BY <2>1
  <2>4. f = first /\ s = sign
      BY <2>3
  <2>5. first \in differs
    <3>1. differs \subseteq Nat
        BY <1>1
    <3>2. D # {}
        BY <2>2
    <3> HIDE DEF differs, D
    <3>3. \E k \in differs : \A j \in differs : k <= j
        BY <2>3, <3>1, <3>2, LeastNumber
    <3>4. first \in differs /\ \A j \in differs : first <= j
        BY <3>3
    <3> QED
        BY <3>4
  <2>6. first \in 1 .. n
      BY <2>5
  <2>7. /\ x[first] = ObjectiveKey(r, p, objectives[f].kind)
        /\ y[first] = ObjectiveKey(r, q, objectives[f].kind)
      BY <2>4, <2>6
  <2> HIDE DEF D, f, s, differs, first, sign, x, y
  <2> QED
      BY <2>2, <2>3, <2>4, <2>7
<1>5. first \in differs /\ \A j \in differs : first <= j
  <2>1. differs \subseteq Nat
      BY <1>1
  <2> HIDE DEF differs
  <2>2. \E k \in differs : \A j \in differs : k <= j
      BY <1>4, <2>1, LeastNumber
  <2> QED
      BY <2>2
<1>6. \A k \in 1 .. n : k \in differs <=> x[k] # y[k]
    OBVIOUS
<1>7. first \in 1 .. n
    BY <1>5
<1> HIDE DEF a, b, x, y, n, differs, first
<1>8. \A j \in 1 .. (first - 1) : KeyTies(a.keys[j], b.keys[j])
  <2> TAKE j \in 1 .. (first - 1)
  <2>1. j \in 1 .. n /\ j \notin differs
      BY <1>1, <1>5, <1>7
  <2>2. x[j] = y[j]
      BY <1>6, <2>1
  <2>3. a.keys[j].known = b.keys[j].known /\ a.keys[j].value = b.keys[j].value
      BY <1>2, <1>3, <2>1, <2>2
  <2> QED
      BY <2>3 DEF KeyTies
<1>9. KeyBeats(a.keys[first], b.keys[first])
  <2>1. CASE x[first].known /\ ~y[first].known
      BY <1>2, <1>3, <1>7, <2>1 DEF KeyBeats
  <2>2. CASE /\ x[first].known /\ y[first].known
             /\ sign * (y[first].value - x[first].value) > 0
    <3>1. x[first].value \in Nat /\ y[first].value \in Nat
      <4>1. ASSUME NEW z, z = Unknown \/ \E v \in Nat : z = Known(v)
            PROVE  z.value \in Nat
          BY <4>1 DEF Known, Unknown
      <4>2. x[first] = Unknown \/ \E v \in Nat : x[first] = Known(v)
          BY <1>2, <1>7
      <4>3. y[first] = Unknown \/ \E v \in Nat : y[first] = Known(v)
          BY <1>3, <1>7
      <4> QED
          BY <4>1, <4>2, <4>3
    <3>2. CASE objectives[first].direction = "min"
      <4>1. x[first].value < y[first].value
          BY <2>2, <3>1, <3>2
      <4> QED
          BY <1>2, <1>3, <1>7, <2>2, <3>2, <4>1 DEF KeyBeats
    <3>3. CASE objectives[first].direction # "min"
      <4>1. y[first].value < x[first].value
          BY <2>2, <3>1, <3>3
      <4> QED
          BY <1>2, <1>3, <1>7, <2>2, <3>3, <4>1 DEF KeyBeats
    <3> QED
        BY <3>2, <3>3
  <2> QED
      BY <1>4, <2>1, <2>2
<1>10. RankLess(a, b)
    BY <1>1, <1>7, <1>8, <1>9 DEF RankLess
<1> QED
    BY <1>10 DEF a, b

\* Nothing legal comes before the first of the ranking.
LEMMA FirstIsBest ==
    ASSUME NEW r \in PlacementRequest, ValidateRequest(r) = "ok", LegalPaths(r) # {},
           NEW p, p = Rank(LegalEntries(r))[1].path, NEW q \in LegalPaths(r)
    PROVE  ~Better(r, q, p)
<1> DEFINE legal == LegalEntries(r)
           ranked == Rank(legal)
           n == Len(r.policy.objectives)
           e == BuildRankEntry(r, q)
           f == ranked[1]
<1>1. /\ IsFiniteSet(legal) /\ Rankable(legal, n) /\ legal # {} /\ e \in legal
      /\ q \in Candidates(r)
    BY LegalIsRankable
<1>2. 1 \in DOMAIN ranked /\ f \in legal
    BY <1>1, ChosenIs, RankSorts
<1>3. f = BuildRankEntry(r, p) /\ p \in Candidates(r)
    BY <1>2, LegalIsRankable
<1>4. e = f \/ RankLess(f, e)
  <2>1. PICK i \in DOMAIN ranked : ranked[i] = e
      BY <1>1, RankSorts
  <2>2. DOMAIN ranked = 1 .. Cardinality(legal) /\ Cardinality(legal) \in Nat
      BY <1>1, RankSorts
  <2>3. i = 1 \/ 1 < i
      BY <2>2
  <2>4. 1 < i => RankLess(ranked[1], ranked[i])
      BY <1>1, <1>2, RankSorts
  <2> QED
      BY <2>1, <2>3, <2>4
<1>5. ASSUME Better(r, q, p) PROVE FALSE
  <2>1. RankLess(e, f)
      BY <1>1, <1>3, <1>5, BetterRanksFirst
  <2>2. ~RankLess(e, e)
      BY <1>1, RankLessIsAnOrder
  <2>3. RankLess(e, f) /\ RankLess(f, e) => RankLess(e, e)
      BY <1>1, <1>2, RankLessIsAnOrder
  <2> QED
      BY <1>4, <2>1, <2>2, <2>3
<1> QED
    BY <1>5

\* A path held on to is that of the incumbent.
LEMMA SuppressedIsKept ==
    ASSUME NEW r \in PlacementRequest, NEW ranked, NEW i \in SuppressedAt(r, ranked)
    PROVE  /\ EligibleIncumbent(r) # {} /\ ~Moving(r, ranked[i].path)
           /\ FinalDelta(r, ranked[i].path) = "kept"
<1>1. EligibleIncumbent(r) # {} /\ \E inc \in r.incumbent : ranked[i].path.id = inc.path
    BY DEF SuppressedAt, IncumbentPositions
<1>2. \A x, y \in r.incumbent : x = y
    BY RequestFields
<1>3. ~Moving(r, ranked[i].path)
    BY <1>1, <1>2 DEF Moving
<1>4. r.incumbent # {}
    BY <1>1
<1> QED
    BY <1>1, <1>3, <1>4 DEF FinalDelta

\* The candidate that an intent names.
LEMMA PathInIs ==
    ASSUME NEW r \in PlacementRequest, ValidateRequest(r) = "ok", NEW p \in Candidates(r)
    PROVE  PathIn(r, p.id) = p
<1>1. PathIn(r, p.id) \in Candidates(r) /\ PathIn(r, p.id).id = p.id
    BY DEF PathIn
<1> QED
    BY <1>1, DistinctIds

\* For every request and every policy: a flow is put on a path that the unordered
\* reference conjunction allows, enough failure domains are left, no lawful path is
\* strictly better unless a policy that prefers the incumbent keeps it, and a lawful
\* and diverse set of paths is never answered with a rejection.
THEOREM BestLawfulPath == Spec => []PlacedIsBestLawful
<1>1. ASSUME FlowInv PROVE PlacedIsBestLawful
  <2> DEFINE r == request
             lawful == {p \in Candidates(r) : Lawful(r, p)}
             valid == ValidateRequest(r) = "ok" /\ StaleCode(r) = "ok"
             diverse == Cardinality(DomainsOf(lawful)) >= r.policy.min_distinct_domains
  <2> SUFFICES ASSUME NEW d \in decision
               PROVE  /\ \A i \in d.intent :
                            /\ PathIn(r, i.path) \in lawful
                            /\ diverse
                            /\ \/ d.delta = "kept" /\ r.policy.prefer_incumbent
                               \/ \A p \in lawful : ~Better(r, p, PathIn(r, i.path))
                      /\ valid /\ lawful # {} /\ diverse =>
                            d.outcome \in PlacedOutcomes \cup {"deferred"}
      BY DEF PlacedIsBestLawful
  <2>1. r \in PlacementRequest /\ d = Place(r)
      BY <1>1 DEF FlowInv
  <2> HIDE DEF r
  <2>2. ASSUME ValidateRequest(r) = "ok" PROVE lawful = LegalPaths(r) /\ (diverse <=> Diverse(r))
    <3>1. \A p \in Candidates(r) : ExclusionReason(r, p) = "ok" <=> Lawful(r, p)
        BY <2>1, <2>2, LegalIsLawful
    <3>2. lawful = LegalPaths(r)
        BY <3>1 DEF LegalPaths
    <3> QED
        BY <3>2 DEF Diverse
  <2>3. ASSUME NEW i \in d.intent
        PROVE  /\ PathIn(r, i.path) \in lawful
               /\ diverse
               /\ \/ d.delta = "kept" /\ r.policy.prefer_incumbent
                  \/ \A p \in lawful : ~Better(r, p, PathIn(r, i.path))
    <3> DEFINE ranked == Rank(LegalEntries(r))
               p == Chosen(r, ranked).path
    <3>1. /\ ValidateRequest(r) = "ok" /\ d = PlaceCurrent(r)
          /\ LegalPaths(r) # {} /\ Diverse(r)
          /\ p \in LegalPaths(r) /\ i = Intent(r, p)
          /\ ~MoveDeferred(r, p) /\ ~(BelowGate(r, p) /\ r.policy.on_below = "defer")
        BY <2>1, <2>3, PlacedIntent
    <3>2. p \in Candidates(r) /\ i.path = p.id
        BY <3>1 DEF LegalPaths, Intent
    <3>3. PathIn(r, i.path) = p
        BY <2>1, <3>1, <3>2, PathInIs
    <3>4. lawful = LegalPaths(r) /\ diverse
        BY <2>2, <3>1
    <3>5. d.delta = FinalDelta(r, p)
        BY <2>1, <3>1, PlaceCurrentIs
    <3>6. CASE SuppressedAt(r, ranked) = {}
      <4>1. LegalEntries(r) # {}
          BY <3>1 DEF LegalEntries
      <4>2. p = ranked[1].path
          BY <2>1, <3>1, <3>6, <4>1, ChosenIs
      <4>3. \A q \in LegalPaths(r) : ~Better(r, q, p)
          BY <2>1, <3>1, <4>2, FirstIsBest
      <4> HIDE DEF lawful, diverse, p
      <4> QED
          BY <3>1, <3>3, <3>4, <4>3
    <3>7. CASE SuppressedAt(r, ranked) # {}
      <4>1. LegalEntries(r) # {}
          BY <3>1 DEF LegalEntries
      <4>2. PICK k \in SuppressedAt(r, ranked) : Chosen(r, ranked) = ranked[k]
          BY <2>1, <3>1, <3>7, <4>1, ChosenIs
      <4>3. FinalDelta(r, p) = "kept"
          BY <2>1, <4>2, SuppressedIsKept
      <4>4. r.policy.prefer_incumbent
          BY <4>2 DEF SuppressedAt
      <4> HIDE DEF lawful, diverse, p
      <4> QED
          BY <3>1, <3>3, <3>4, <3>5, <4>3, <4>4
    <3> QED
        BY <3>6, <3>7
  <2>4. ASSUME valid, lawful # {}, diverse
        PROVE  d.outcome \in PlacedOutcomes \cup {"deferred"}
    <3>1. d = PlaceCurrent(r) /\ ValidateRequest(r) = "ok"
        BY <2>1, <2>4, PlaceIs
    <3>2. LegalPaths(r) # {} /\ Diverse(r)
        BY <2>2, <2>4, <3>1
    <3>3. d.outcome \in {"deferred", "placed", "placed_degraded"}
        BY <2>1, <3>1, <3>2, PlaceCurrentIs
    <3> QED
        BY <3>3 DEF PlacedOutcomes
  <2> QED
      BY <2>3, <2>4
<1> QED
    BY <1>1, FlowInvariant, PTL

-----------------------------------------------------------------------------
(* Moves and their reasons.                                                 *)

\* An improvement is of two known values, and by their difference.
LEMMA ImprovementIs ==
    ASSUME NEW r \in PlacementRequest, ValidateRequest(r) = "ok",
           NEW p \in Candidates(r), NEW q \in Candidates(r), NEW t \in Nat,
           ~(Improvement(r, BuildRankEntry(r, p), BuildRankEntry(r, q)) <= t)
    PROVE  LET o == r.policy.objectives[r.policy.threshold_objective_index + 1]
               sign == IF o.direction = "min" THEN 1 ELSE -1
           IN /\ ObjectiveKey(r, q, o.kind).known /\ ObjectiveKey(r, p, o.kind).known
              /\ sign * (ObjectiveKey(r, q, o.kind).value - ObjectiveKey(r, p, o.kind).value) > t
<1> DEFINE k == r.policy.threshold_objective_index + 1
           o == r.policy.objectives[k]
           n == Len(r.policy.objectives)
           a == BuildRankEntry(r, p)
           b == BuildRankEntry(r, q)
           x == a.keys[k]
           y == b.keys[k]
           gain == IF o.direction = "min" THEN y.value - x.value ELSE x.value - y.value
<1>1. k \in 1 .. n
  <2>1. /\ r.policy.threshold_objective_index \in Nat /\ n \in Nat
      BY PolicyFields
  <2>2. ~(r.policy.threshold_objective_index >= n)
      BY RequestOk, PolicyOk DEF Consistent
  <2> QED
      BY <2>1, <2>2
<1>2. /\ x \in Key /\ x.known = ObjectiveKey(r, p, o.kind).known
      /\ x.value = ObjectiveKey(r, p, o.kind).value
    BY <1>1, EntryIs
<1>3. /\ y \in Key /\ y.known = ObjectiveKey(r, q, o.kind).known
      /\ y.value = ObjectiveKey(r, q, o.kind).value
    BY <1>1, EntryIs
<1>4. Improvement(r, a, b) = IF x.known /\ y.known /\ gain > 0 THEN gain ELSE 0
    BY DEF Improvement
<1>5. ~(Improvement(r, a, b) <= t)
    OBVIOUS
<1> HIDE DEF k, n, a, b, x, y
<1>6. x.value \in Nat /\ y.value \in Nat
    BY <1>2, <1>3 DEF Key
<1>7. x.known /\ y.known /\ gain > 0
    BY <1>4, <1>5
<1>8. gain > t
    BY <1>4, <1>5, <1>6, <1>7
<1> DEFINE sign == IF o.direction = "min" THEN 1 ELSE -1
<1>9. sign * (y.value - x.value) = gain
  <2>1. CASE o.direction = "min"
      BY <1>6, <2>1
  <2>2. CASE o.direction # "min"
      BY <1>6, <2>2
  <2> QED
      BY <2>1, <2>2
<1>10. sign * (y.value - x.value) > t
    BY <1>8, <1>9
<1> HIDE DEF sign, gain, o
<1>11. /\ ObjectiveKey(r, q, o.kind).known /\ ObjectiveKey(r, p, o.kind).known
       /\ sign * (ObjectiveKey(r, q, o.kind).value - ObjectiveKey(r, p, o.kind).value) > t
    BY <1>2, <1>3, <1>7, <1>10
<1> QED
    BY <1>11 DEF sign, o, k

\* For every request: a flow leaves a lawful, current incumbent under
\* prefer_incumbent only for a gain above the threshold on the threshold objective,
\* between two values that are known.
THEOREM EveryMovePaysOff == Spec => []MovesPayOff
<1>1. ASSUME FlowInv PROVE MovesPayOff
  <2> DEFINE r == request
             o == r.policy.objectives[r.policy.threshold_objective_index + 1]
             sign == IF o.direction = "min" THEN 1 ELSE -1
             Gain(from, to) ==
                /\ ObjectiveKey(r, from, o.kind).known
                /\ ObjectiveKey(r, to, o.kind).known
                /\ sign * (ObjectiveKey(r, from, o.kind).value - ObjectiveKey(r, to, o.kind).value)
                      > r.policy.move_improvement_threshold
  <2> SUFFICES ASSUME NEW d \in Placed, NEW i \in d.intent, NEW inc \in EligibleIncumbent(r),
                      r.policy.prefer_incumbent, Lawful(r, PathIn(r, inc.path)),
                      PathIn(r, inc.path) # PathIn(r, i.path)
               PROVE  Gain(PathIn(r, inc.path), PathIn(r, i.path))
      BY DEF MovesPayOff
  <2>1. r \in PlacementRequest /\ d = Place(r)
      BY <1>1 DEF FlowInv, Placed
  <2> HIDE DEF r
  <2> DEFINE legal == LegalEntries(r)
             ranked == Rank(legal)
             p == Chosen(r, ranked).path
             from == PathIn(r, inc.path)
  <2>2. /\ ValidateRequest(r) = "ok" /\ LegalPaths(r) # {}
        /\ p \in LegalPaths(r) /\ i = Intent(r, p)
      BY <2>1, PlacedIntent
  <2>3. p \in Candidates(r) /\ PathIn(r, i.path) = p
    <3>1. p \in Candidates(r) /\ i.path = p.id
        BY <2>2 DEF LegalPaths, Intent
    <3> QED
        BY <2>1, <2>2, <3>1, PathInIs
  <2>4. inc \in r.incumbent /\ \E q \in Candidates(r) : q.id = inc.path
      BY DEF EligibleIncumbent
  <2>5. from \in Candidates(r) /\ from.id = inc.path
      BY <2>4 DEF PathIn
  <2>6. from \in LegalPaths(r)
      BY <2>1, <2>2, <2>5, LegalIsLawful DEF LegalPaths
  <2>7. SuppressedAt(r, ranked) = {}
    <3> SUFFICES ASSUME SuppressedAt(r, ranked) # {} PROVE FALSE
        OBVIOUS
    <3>1. legal # {}
        BY <2>2 DEF LegalEntries
    <3>2. PICK k \in SuppressedAt(r, ranked) : Chosen(r, ranked) = ranked[k]
        BY <2>1, <2>2, <3>1, ChosenIs
    <3>3. ~Moving(r, p)
        BY <2>1, <3>2, SuppressedIsKept
    <3>4. inc.path = p.id
        BY <2>4, <3>3 DEF Moving
    <3> QED
        BY <2>1, <2>2, <2>3, <2>5, <3>4, DistinctIds
  <2>8. p = ranked[1].path /\ 1 \in DOMAIN ranked
    <3>1. legal # {}
        BY <2>2 DEF LegalEntries
    <3> QED
        BY <2>1, <2>2, <2>7, <3>1, ChosenIs
  <2>9. PICK j \in DOMAIN ranked : ranked[j] = BuildRankEntry(r, from)
    <3>1. BuildRankEntry(r, from) \in legal /\ IsFiniteSet(legal)
          /\ Rankable(legal, Len(r.policy.objectives))
        BY <2>1, <2>2, <2>6, LegalIsRankable
    <3> QED
        BY <3>1, RankSorts
  <2>10. ranked[j].path = from /\ ranked[1] = BuildRankEntry(r, p)
    <3>1. ranked[j].path = from
        BY <2>1, <2>2, <2>5, <2>9, EntryIs
    <3>2. ranked[1] \in legal
      <4>1. IsFiniteSet(legal) /\ Rankable(legal, Len(r.policy.objectives))
          BY <2>1, <2>2, LegalIsRankable
      <4> QED
          BY <2>8, <4>1, RankSorts
    <3> QED
        BY <2>1, <2>2, <2>8, <3>1, <3>2, LegalIsRankable
  <2>11. j # 1
      BY <2>3, <2>8, <2>10
  <2>12. j \in IncumbentPositions(r, ranked)
      BY <2>4, <2>5, <2>10 DEF IncumbentPositions
  <2>13. ~(Improvement(r, ranked[1], ranked[j]) <= r.policy.move_improvement_threshold)
      BY <2>7, <2>11, <2>12 DEF SuppressedAt
  <2>14. r.policy.move_improvement_threshold \in Nat
      BY <2>1, PolicyFields
  <2> HIDE DEF p, ranked, legal, from
  <2>15. Gain(from, p)
      BY <2>1, <2>2, <2>3, <2>5, <2>9, <2>10, <2>13, <2>14, ImprovementIs
  <2> QED
      BY <2>3, <2>15 DEF from
<1> QED
    BY <1>1, FlowInvariant, PTL

-----------------------------------------------------------------------------
(* Requests that the engine cannot tell apart but by their incumbent and by  *)
(* what is to be done about a gate or a move.                               *)

\* The policies ask the same of a path.
SamePolicy(s, r) ==
    /\ s.policy.id = r.policy.id /\ s.policy.generation = r.policy.generation
    /\ s.policy.objectives = r.policy.objectives
    /\ s.policy.allowed_tiers = r.policy.allowed_tiers
    /\ s.policy.required_labels = r.policy.required_labels
    /\ s.policy.forbidden_labels = r.policy.forbidden_labels
    /\ s.policy.required_locality = r.policy.required_locality
    /\ s.policy.preferred_locality = r.policy.preferred_locality
    /\ s.policy.forbidden_localities = r.policy.forbidden_localities
    /\ s.policy.required_domain = r.policy.required_domain
    /\ s.policy.forbidden_domains = r.policy.forbidden_domains
    /\ s.policy.avoid_occupied_domains = r.policy.avoid_occupied_domains
    /\ s.policy.min_distinct_domains = r.policy.min_distinct_domains
    /\ s.policy.affinity_required = r.policy.affinity_required
    /\ s.policy.affinity_refs = r.policy.affinity_refs
    /\ s.policy.min_residual_headroom_bytes = r.policy.min_residual_headroom_bytes
    /\ s.policy.allow_degraded = r.policy.allow_degraded
    /\ s.policy.max_relaxation_steps = r.policy.max_relaxation_steps
    /\ s.policy.prefer_incumbent = r.policy.prefer_incumbent
    /\ s.policy.move_improvement_threshold = r.policy.move_improvement_threshold
    /\ s.policy.threshold_objective_index = r.policy.threshold_objective_index
    /\ s.policy.on_missing = r.policy.on_missing /\ s.policy.on_stale = r.policy.on_stale

\* The facts are the same, those that count: the entries of a bundle that is not
\* trusted do not.
SameLaw(s, r) ==
    /\ s.flow = r.flow /\ s.flow_generation = r.flow_generation /\ s.attempt = r.attempt
    /\ s.candidates = r.candidates /\ s.capacity = r.capacity /\ s.qos = r.qos
    /\ SamePolicy(s, r)
    /\ s.expected = r.expected
    /\ s.occupied_failure_domains = r.occupied_failure_domains
    /\ s.evidence.id = r.evidence.id /\ s.evidence.generation = r.evidence.generation
    /\ s.evidence = r.evidence \/ ~EvidenceTrusted(r)

\* What the engine reads of such requests.
LEMMA SamePrepared ==
    ASSUME NEW s, NEW r, SameLaw(s, r), NEW p
    PROVE  /\ Candidates(s) = Candidates(r)
           /\ CapacityOf(s, p.id) = CapacityOf(r, p.id)
           /\ Residual(s, p.id) = Residual(r, p.id)
           /\ RequiredBase(s) = RequiredBase(r) /\ RequiredHeadroom(s) = RequiredHeadroom(r)
           /\ EvidenceTrusted(s) = EvidenceTrusted(r) /\ EvidencePresent(s) = EvidencePresent(r)
           /\ UsesCongestion(s) = UsesCongestion(r)
           /\ EvidenceKnown(s, p) = EvidenceKnown(r, p)
           /\ EvidenceKnown(r, p) => EvidenceOf(s, p.id) = EvidenceOf(r, p.id)
           /\ EvidenceStale(s) = EvidenceStale(r)
           /\ EvidenceMissing(s, p) = EvidenceMissing(r, p)
           /\ Affine(s, p) = Affine(r, p)
           /\ RelaxMultiplier(s, p) = RelaxMultiplier(r, p)
           /\ RelaxReservation(s, p) = RelaxReservation(r, p)
<1> USE DEF SameLaw, SamePolicy
<1>1. Candidates(s) = Candidates(r)
    BY DEF Candidates
<1>2. CapacityOf(s, p.id) = CapacityOf(r, p.id)
    BY DEF CapacityOf
<1>3. Residual(s, p.id) = Residual(r, p.id)
    BY <1>2 DEF Residual
<1>4. RequiredBase(s) = RequiredBase(r) /\ Multiplier(s) = Multiplier(r)
    BY DEF RequiredBase, Multiplier
<1>5. RequiredHeadroom(s) = RequiredHeadroom(r)
    BY <1>4 DEF RequiredHeadroom, HeadroomOverflows
<1>6. EvidencePresent(s) = EvidencePresent(r) /\ EvidenceTrusted(s) = EvidenceTrusted(r)
    BY DEF EvidencePresent, EvidenceTrusted
<1>7. UsesCongestion(s) = UsesCongestion(r)
    BY DEF UsesCongestion
<1>8. EvidenceTrusted(r) => EvidenceOf(s, p.id) = EvidenceOf(r, p.id)
    BY DEF EvidenceOf
<1>9. /\ EvidenceKnown(s, p) = EvidenceKnown(r, p)
      /\ EvidenceKnown(r, p) => EvidenceOf(s, p.id) = EvidenceOf(r, p.id)
    BY <1>6, <1>7, <1>8 DEF EvidenceKnown
<1>10. EvidenceStale(s) = EvidenceStale(r) /\ EvidenceMissing(s, p) = EvidenceMissing(r, p)
    BY <1>6, <1>7, <1>8 DEF EvidenceStale, EvidenceMissing
<1>11. Affine(s, p) = Affine(r, p)
    BY DEF Affine
<1>12. RelaxMultiplier(s, p) = RelaxMultiplier(r, p)
    BY <1>3, <1>5 DEF RelaxMultiplier
<1>13. RelaxReservation(s, p) = RelaxReservation(r, p)
    BY DEF RelaxReservation
<1> QED
    BY <1>1, <1>2, <1>3, <1>4, <1>5, <1>6, <1>7, <1>9, <1>10, <1>11, <1>12, <1>13

\* The same verdict on every candidate.
LEMMA SameVerdicts ==
    ASSUME NEW s, NEW r, SameLaw(s, r)
    PROVE  /\ \A p : ExclusionReason(s, p) = ExclusionReason(r, p)
           /\ LegalPaths(s) = LegalPaths(r)
           /\ Verdicts(s) = Verdicts(r)
           /\ Exclusions(s) = Exclusions(r)
           /\ Diverse(s) = Diverse(r)
<1>1. ASSUME NEW p PROVE ExclusionChecks(s, p) = ExclusionChecks(r, p)
  <2>1. SameLaw(s, r)
      OBVIOUS
  <2> QED
      BY <2>1, SamePrepared DEF ExclusionChecks, SameLaw, SamePolicy
<1>2. ASSUME NEW p PROVE ExclusionReason(s, p) = ExclusionReason(r, p)
    BY <1>1 DEF ExclusionReason
<1>3. Candidates(s) = Candidates(r)
    BY DEF Candidates, SameLaw
<1>4. LegalPaths(s) = LegalPaths(r)
    BY <1>2, <1>3 DEF LegalPaths
<1>5. ASSUME NEW p, NEW reason PROVE Constraint(s, p, reason) = Constraint(r, p, reason)
  <2>1. /\ Residual(s, p.id) = Residual(r, p.id)
        /\ RequiredBase(s) = RequiredBase(r) /\ RequiredHeadroom(s) = RequiredHeadroom(r)
        /\ RelaxMultiplier(s, p) = RelaxMultiplier(r, p)
      BY SamePrepared
  <2> QED
      BY <2>1 DEF Constraint, SameLaw
<1>6. ASSUME NEW p PROVE Verdict(s, p) = Verdict(r, p)
    BY <1>2, <1>5 DEF Verdict
<1>7. Verdicts(s) = Verdicts(r)
    BY <1>6 DEF Verdicts, SameLaw
<1>8. Exclusions(s) = Exclusions(r)
    BY <1>7 DEF Exclusions
<1>9. Diverse(s) = Diverse(r)
    BY <1>4 DEF Diverse, SameLaw, SamePolicy
<1> QED
    BY <1>2, <1>4, <1>7, <1>8, <1>9

\* The same keys, that of the incumbent's stability aside.
LEMMA SameKeys ==
    ASSUME NEW s, NEW r, SameLaw(s, r), NEW p, NEW kind,
           kind # "incumbent_stability" \/ StabilityKey(s, p) = StabilityKey(r, p)
    PROVE  ObjectiveKey(s, p, kind) = ObjectiveKey(r, p, kind)
<1>1. /\ Residual(s, p.id) = Residual(r, p.id) /\ Affine(s, p) = Affine(r, p)
      /\ EvidenceKnown(s, p) = EvidenceKnown(r, p)
      /\ EvidenceKnown(r, p) => EvidenceOf(s, p.id) = EvidenceOf(r, p.id)
    BY SamePrepared
<1>2. /\ s.policy.preferred_locality = r.policy.preferred_locality
      /\ s.policy.affinity_refs = r.policy.affinity_refs
    BY DEF SameLaw, SamePolicy
<1> QED
    BY <1>1, <1>2 DEF ObjectiveKey

\* The same intent for a path, the same gate before it, and the same shortcomings.
LEMMA SameIntent ==
    ASSUME NEW s, NEW r, SameLaw(s, r), NEW p
    PROVE  /\ Intent(s, p) = Intent(r, p) /\ BelowGate(s, p) = BelowGate(r, p)
           /\ Relaxed(s, p) = Relaxed(r, p)
<1>1. BelowGate(s, p) = BelowGate(r, p)
    BY SamePrepared DEF BelowGate, SameLaw, SamePolicy
<1>2. Relaxed(s, p) = Relaxed(r, p)
    BY SamePrepared DEF Relaxed
<1>3. Reservation(s, p) = Reservation(r, p)
    BY DEF Reservation, SameLaw, SamePolicy
<1>4. IntentEvidence(s) = IntentEvidence(r)
  <2>1. EvidenceTrusted(s) = EvidenceTrusted(r)
      BY SamePrepared
  <2> QED
      BY <2>1 DEF IntentEvidence, SameLaw
<1>5. Intent(s, p) = Intent(r, p)
    BY <1>3, <1>4 DEF Intent, SameLaw, SamePolicy
<1> QED
    BY <1>1, <1>2, <1>5

-----------------------------------------------------------------------------
(* A placement that is adopted.                                             *)

\* The request of a flow that goes on at a path, and its incumbent.
Reported(r, p) == IncumbentOf(Intent(r, p))
Continued(r, p) == [r EXCEPT !.incumbent = {Reported(r, p)}]

\* It differs in nothing but the incumbent.
LEMMA ContinuedIs ==
    ASSUME NEW r \in PlacementRequest, NEW p \in Candidates(r)
    PROVE  LET s == Continued(r, p)
           IN /\ s \in PlacementRequest /\ s.incumbent = {Reported(r, p)}
              /\ s.flow = r.flow /\ s.flow_generation = r.flow_generation
              /\ s.attempt = r.attempt /\ s.candidates = r.candidates
              /\ s.capacity = r.capacity /\ s.qos = r.qos /\ s.policy = r.policy
              /\ s.evidence = r.evidence /\ s.expected = r.expected
              /\ s.occupied_failure_domains = r.occupied_failure_domains
              /\ SameLaw(s, r)
<1> DEFINE one == {Reported(r, p)}
           s == [r EXCEPT !.incumbent = one]
<1>1. s \in PlacementRequest
    BY AdoptedIsARequest DEF Reported
<1> HIDE DEF one
<1>2. DOMAIN r = {"flow", "flow_generation", "candidates", "capacity", "qos", "policy", "evidence",
                  "incumbent", "occupied_failure_domains", "expected", "attempt"}
    BY DEF PlacementRequest
<1>3. /\ s.incumbent = one
      /\ s.flow = r.flow /\ s.flow_generation = r.flow_generation
      /\ s.attempt = r.attempt /\ s.candidates = r.candidates
      /\ s.capacity = r.capacity /\ s.qos = r.qos /\ s.policy = r.policy
      /\ s.evidence = r.evidence /\ s.expected = r.expected
      /\ s.occupied_failure_domains = r.occupied_failure_domains
    BY <1>2
<1> HIDE DEF s
<1>4. SameLaw(s, r)
    BY <1>3 DEF SameLaw, SamePolicy
<1> QED
    BY <1>1, <1>3, <1>4 DEF Continued, s, one

\* What a legal path's intent reports passes as an incumbent.
LEMMA ReportedIsValid ==
    ASSUME NEW r \in PlacementRequest, ValidateRequest(r) = "ok", NEW p \in Candidates(r)
    PROVE  ValidateIncumbent(Reported(r, p)) = "ok"
<1> DEFINE i == Reported(r, p)
<1>1. i = [id |-> 1, generation |-> 1, path |-> p.id, path_authority |-> p.authority,
           candidate_set_generation |-> r.candidates.generation,
           capacity_generation |-> r.capacity.generation,
           policy_generation |-> r.policy.generation, qos_generation |-> r.qos.generation,
           fabric_epoch |-> r.expected.fabric_epoch, reservation |-> Reservation(r, p)]
    BY DEF Reported, IncumbentOf, Intent
<1>2. /\ i.id = 1 /\ i.generation = 1 /\ i.path = p.id /\ i.path_authority = p.authority
      /\ i.candidate_set_generation = r.candidates.generation
      /\ i.capacity_generation = r.capacity.generation
      /\ i.policy_generation = r.policy.generation /\ i.qos_generation = r.qos.generation
      /\ i.fabric_epoch = r.expected.fabric_epoch /\ i.reservation = Reservation(r, p)
    BY <1>1
<1> HIDE DEF i
<1>3. Generated(r)
    BY RequestOk, GenerationsOk
<1>4. /\ Valid(r.candidates.generation) /\ Valid(r.capacity.generation)
      /\ Valid(r.policy.generation) /\ Valid(r.qos.generation) /\ Valid(r.expected.fabric_epoch)
    BY <1>3 DEF Generated, Valid
<1>5. Valid(p.id) /\ Valid(p.authority)
    BY CandidateIsValid
<1>6. Valid(i.reservation.id) <=> Valid(i.reservation.generation)
  <2>1. CASE i.reservation = NoRef
      BY <2>1 DEF NoRef, Valid
  <2>2. CASE i.reservation \in ToSet(p.reservations)
      BY <2>2, CandidateIsValid DEF ValidRef
  <2> QED
      BY <1>2, <2>1, <2>2, ReservationIs
<1>7. Valid(i.id) /\ Valid(i.generation)
    BY <1>2 DEF Valid
<1>8. ValidateIncumbent(i) = "ok"
    BY <1>2, <1>4, <1>5, <1>6, <1>7, IncumbentOk
<1> QED
    BY <1>8 DEF i

\* The request stays valid and current.
LEMMA ContinuedIsValid ==
    ASSUME NEW r \in PlacementRequest, ValidateRequest(r) = "ok", StaleCode(r) = "ok",
           NEW p \in Candidates(r)
    PROVE  ValidateRequest(Continued(r, p)) = "ok" /\ StaleCode(Continued(r, p)) = "ok"
<1> DEFINE s == Continued(r, p)
<1>1. /\ s.incumbent = {Reported(r, p)}
      /\ s.flow = r.flow /\ s.flow_generation = r.flow_generation
      /\ s.candidates = r.candidates
      /\ s.capacity = r.capacity /\ s.qos = r.qos /\ s.policy = r.policy
      /\ s.evidence = r.evidence /\ s.expected = r.expected
      /\ s.occupied_failure_domains = r.occupied_failure_domains
    BY ContinuedIs
<1> HIDE DEF s
<1>2. /\ ValidateEnumerations(r) = "ok" /\ ValidateGenerations(r) = "ok"
      /\ ValidateBounds(r) = "ok" /\ ValidateCandidates(r) = "ok"
      /\ ValidateCapacityAndEvidence(r) = "ok" /\ ValidatePolicy(r) = "ok"
    BY RequestOk
<1>3. ValidateEnumerations(s) = "ok"
    BY <1>1, <1>2 DEF ValidateEnumerations, EnumerationChecks
<1>4. ValidateGenerations(s) = "ok"
  <2>1. Generated(r)
      BY <1>2, GenerationsOk
  <2>2. IncumbentStatus(s) = "ok"
    <3>1. (CHOOSE i \in s.incumbent : TRUE) = Reported(r, p)
        BY <1>1
    <3> QED
        BY <1>1, <3>1, ReportedIsValid DEF IncumbentStatus
  <2>3. Generated(s)
      BY <1>1, <2>1 DEF Generated
  <2> QED
      BY <2>2, <2>3, GenerationsOk
<1>5. ValidateBounds(s) = "ok"
    BY <1>1, <1>2 DEF ValidateBounds, BoundChecks
<1>6. ValidateCandidates(s) = "ok"
  <2>1. r.candidates.paths \in Seq(CandidatePath)
      BY RequestFields
  <2> QED
      BY <1>1, <1>2, <2>1, CandidatesOk
<1>7. ValidateCapacityAndEvidence(s) = "ok"
  <2>1. ResidualAboveTotal(s) = ResidualAboveTotal(r) /\ UtilizationAboveOne(s) = UtilizationAboveOne(r)
      BY <1>1 DEF ResidualAboveTotal, UtilizationAboveOne
  <2> QED
      BY <1>1, <1>2, <2>1 DEF ValidateCapacityAndEvidence
<1>8. ValidatePolicy(s) = "ok"
    BY <1>1, <1>2 DEF ValidatePolicy, PolicyChecks
<1>9. StaleCode(s) = "ok"
    BY <1>1 DEF StaleCode, StaleChecks
<1> QED
    BY <1>3, <1>4, <1>5, <1>6, <1>7, <1>8, <1>9, RequestOk DEF s

\* The incumbent it reports is eligible.
LEMMA ContinuedIsEligible ==
    ASSUME NEW r \in PlacementRequest, ValidateRequest(r) = "ok", StaleCode(r) = "ok",
           NEW p \in LegalPaths(r)
    PROVE  LET s == Continued(r, p)
           IN /\ EligibleIncumbent(s) = {Reported(r, p)} /\ Reported(r, p).path = p.id
              /\ ~Moving(s, p) /\ FinalDelta(s, p) = "kept"
              /\ \A q : StabilityKey(s, q) = Flag(p.id # q.id)
<1> DEFINE s == Continued(r, p)
           i == Reported(r, p)
<1>1. p \in Candidates(r) /\ p.authority = r.expected.path_authority
    BY ExclusionReasonOk DEF LegalPaths
<1>2. /\ s.incumbent = {i} /\ s.candidates = r.candidates /\ s.capacity = r.capacity
      /\ s.qos = r.qos /\ s.policy = r.policy /\ s.expected = r.expected
    BY <1>1, ContinuedIs
<1>3. /\ i.path = p.id /\ i.path_authority = p.authority
      /\ i.candidate_set_generation = r.candidates.generation
      /\ i.capacity_generation = r.capacity.generation
      /\ i.policy_generation = r.policy.generation /\ i.qos_generation = r.qos.generation
      /\ i.fabric_epoch = r.expected.fabric_epoch
    BY DEF Reported, IncumbentOf, Intent
<1>4. r.candidates.generation = r.expected.candidate_set
    BY StaleOk
<1> HIDE DEF s, i
<1>5. i \in EligibleIncumbent(s)
    BY <1>1, <1>2, <1>3, <1>4 DEF EligibleIncumbent, Candidates
<1>6. EligibleIncumbent(s) = {i}
    BY <1>2, <1>5 DEF EligibleIncumbent
<1>7. ~Moving(s, p)
    BY <1>2, <1>3 DEF Moving
<1>8. FinalDelta(s, p) = "kept"
    BY <1>2, <1>6, <1>7 DEF FinalDelta
<1>9. \A q : StabilityKey(s, q) = Flag(p.id # q.id)
  <2> TAKE q
  <2>1. i.path = p.id
      BY <1>3
  <2>2. CASE p.id = q.id
    <3>1. ~(EligibleIncumbent(s) # {} /\ \A j \in EligibleIncumbent(s) : j.path # q.id)
        BY <1>6, <2>1, <2>2
    <3> QED
        BY <2>2, <3>1 DEF StabilityKey, Flag
  <2>3. CASE p.id # q.id
    <3>1. EligibleIncumbent(s) # {} /\ \A j \in EligibleIncumbent(s) : j.path # q.id
        BY <1>6, <2>1, <2>3
    <3> QED
        BY <2>3, <3>1 DEF StabilityKey, Flag
  <2> QED
      BY <2>2, <2>3
<1>10. i.path = p.id
    BY <1>3
<1> QED
    BY <1>6, <1>7, <1>8, <1>9, <1>10 DEF s, i

\* The keys of a candidate for the flow that goes on at a path: all as before, but
\* the stability key, which now speaks for that path.
LEMMA ContinuedKeys ==
    ASSUME NEW r \in PlacementRequest, ValidateRequest(r) = "ok", StaleCode(r) = "ok",
           NEW p \in LegalPaths(r), NEW q \in LegalPaths(r), NEW k \in 1 .. Len(r.policy.objectives)
    PROVE  LET s == Continued(r, p)
               o == r.policy.objectives[k]
               key == BuildRankEntry(s, q).keys[k]
           IN /\ o.kind # "incumbent_stability" => key = BuildRankEntry(r, q).keys[k]
              /\ o.kind = "incumbent_stability" =>
                    /\ key.known /\ key.direction = o.direction
                    /\ key.value = IF p.id = q.id THEN 0 ELSE 1
<1> DEFINE s == Continued(r, p)
           o == r.policy.objectives[k]
           key == BuildRankEntry(s, q).keys[k]
<1>1. p \in Candidates(r) /\ q \in Candidates(r)
    BY DEF LegalPaths
<1>2. SameLaw(s, r) /\ s.policy = r.policy
    BY <1>1, ContinuedIs
<1>3. k \in DOMAIN r.policy.objectives
    BY <1>1, EntryIs
<1>4. StabilityKey(s, q) = Flag(p.id # q.id)
    BY ContinuedIsEligible
<1> HIDE DEF s
<1>5. key = [known |-> ObjectiveKey(s, q, o.kind).known, value |-> ObjectiveKey(s, q, o.kind).value,
             direction |-> o.direction]
    BY <1>2, <1>3 DEF BuildRankEntry
<1>6. BuildRankEntry(r, q).keys[k] =
        [known |-> ObjectiveKey(r, q, o.kind).known, value |-> ObjectiveKey(r, q, o.kind).value,
         direction |-> o.direction]
    BY <1>3 DEF BuildRankEntry
<1>7. o.kind # "incumbent_stability" => key = BuildRankEntry(r, q).keys[k]
    BY <1>2, <1>5, <1>6, SameKeys
<1>8. ASSUME o.kind = "incumbent_stability"
      PROVE  /\ key.known /\ key.direction = o.direction
             /\ key.value = IF p.id = q.id THEN 0 ELSE 1
  <2>1. ObjectiveKey(s, q, o.kind) = Flag(p.id # q.id)
      BY <1>4, <1>8 DEF ObjectiveKey
  <2>2. ObjectiveKey(s, q, o.kind) = Known(IF p.id = q.id THEN 0 ELSE 1)
      BY <2>1 DEF Flag
  <2>3. /\ ObjectiveKey(s, q, o.kind).known
        /\ ObjectiveKey(s, q, o.kind).value = IF p.id = q.id THEN 0 ELSE 1
      BY <2>2 DEF Known
  <2> HIDE DEF o
  <2> QED
      BY <1>5, <2>3
<1> QED
    BY <1>7, <1>8 DEF s

\* Where a flow goes on, its path does not fall behind a path it was ahead of,
\* unless the policy maximizes the stability key.
LEMMA ContinuedStaysAhead ==
    ASSUME NEW r \in PlacementRequest, ValidateRequest(r) = "ok", StaleCode(r) = "ok",
           NEW p \in LegalPaths(r), NEW q \in LegalPaths(r),
           [kind |-> "incumbent_stability", direction |-> "max"]
               \notin ToSet(r.policy.objectives),
           RankLess(BuildRankEntry(r, p), BuildRankEntry(r, q))
    PROVE  RankLess(BuildRankEntry(Continued(r, p), p), BuildRankEntry(Continued(r, p), q))
<1> DEFINE s == Continued(r, p)
           objectives == r.policy.objectives
           n == Len(objectives)
           a == BuildRankEntry(r, p)
           b == BuildRankEntry(r, q)
           c == BuildRankEntry(s, p)
           d == BuildRankEntry(s, q)
           S == {k \in 1 .. n : objectives[k].kind = "incumbent_stability"}
<1>1. p \in Candidates(r) /\ q \in Candidates(r)
    BY DEF LegalPaths
<1>2. /\ s \in PlacementRequest /\ ValidateRequest(s) = "ok" /\ s.policy = r.policy
      /\ s.candidates = r.candidates
    BY <1>1, ContinuedIs, ContinuedIsValid
<1>3. p \in Candidates(s) /\ q \in Candidates(s)
    BY <1>1, <1>2 DEF Candidates
<1>4. /\ n \in Nat /\ DOMAIN objectives = 1 .. n /\ DOMAIN a.keys = 1 .. n
      /\ a.path = p /\ b.path = q
      /\ \A k \in 1 .. n : objectives[k].direction \in Directions
    BY <1>1, EntryIs
<1>5. DOMAIN c.keys = 1 .. n /\ c.path = p /\ d.path = q
    BY <1>2, <1>3, EntryIs
<1>6. p.id # q.id
  <2>1. ASSUME p = q PROVE FALSE
    <3>1. Rankable(LegalEntries(r), n) /\ a \in LegalEntries(r)
        BY LegalIsRankable
    <3>2. ~RankLess(a, a)
        BY <3>1, RankLessIsAnOrder
    <3> QED
        BY <2>1, <3>2
  <2> QED
      BY <1>1, <2>1, DistinctIds
<1>7. ASSUME NEW k \in 1 .. n, k \notin S PROVE c.keys[k] = a.keys[k] /\ d.keys[k] = b.keys[k]
  <2>1. objectives[k].kind # "incumbent_stability"
      BY <1>7
  <2> QED
      BY <2>1, ContinuedKeys
<1>8. ASSUME NEW k \in S PROVE KeyBeats(c.keys[k], d.keys[k])
  <2>1. k \in 1 .. n /\ objectives[k].kind = "incumbent_stability"
      OBVIOUS
  <2>2. objectives[k].direction = "min"
    <3>1. objectives \in Seq([kind : Anything, direction : Anything])
        BY PolicyFields
    <3>2. objectives[k] \in [kind : Anything, direction : Anything]
      <4>1. ASSUME NEW T, NEW f \in Seq(T), NEW i \in DOMAIN f PROVE f[i] \in T
          OBVIOUS
      <4>2. k \in DOMAIN objectives
          BY <1>4, <2>1
      <4> HIDE DEF objectives
      <4> QED
          BY <3>1, <4>1, <4>2
    <3>3. objectives[k] = [kind |-> objectives[k].kind, direction |-> objectives[k].direction]
        BY <3>2
    <3>4. objectives[k] \in ToSet(objectives)
        BY <1>4, <2>1 DEF ToSet
    <3>5. objectives[k].direction # "max"
        BY <2>1, <3>3, <3>4
    <3> QED
        BY <1>4, <2>1, <3>5 DEF Directions
  <2>3. /\ c.keys[k].known /\ c.keys[k].direction = "min" /\ c.keys[k].value = 0
      BY <2>1, <2>2, ContinuedKeys
  <2>4. /\ d.keys[k].known /\ d.keys[k].value = 1
      BY <1>6, <2>1, ContinuedKeys
  <2> HIDE DEF c, d
  <2> QED
      BY <2>3, <2>4 DEF KeyBeats
<1> HIDE DEF a, b, c, d, n, s
<1>9. ASSUME NEW m \in 1 .. n, \A j \in 1 .. (m - 1) : j \notin S /\ KeyTies(a.keys[j], b.keys[j]),
             m \in S
      PROVE  RankLess(c, d)
  <2>1. \A j \in 1 .. (m - 1) : KeyTies(c.keys[j], d.keys[j])
    <3> TAKE j \in 1 .. (m - 1)
    <3>1. j \in 1 .. n /\ j \notin S
        BY <1>4, <1>9
    <3> HIDE DEF S
    <3> QED
        BY <1>7, <1>9, <3>1
  <2> HIDE DEF S
  <2>2. KeyBeats(c.keys[m], d.keys[m])
      BY <1>8, <1>9
  <2> QED
      BY <1>5, <2>1, <2>2 DEF RankLess
<1>10. \A j \in S : j \in 1 .. n
    OBVIOUS
<1> HIDE DEF S
<1>11. ASSUME NEW k \in 1 .. n, \A j \in 1 .. (k - 1) : KeyTies(a.keys[j], b.keys[j]),
              KeyBeats(a.keys[k], b.keys[k])
       PROVE  RankLess(c, d)
  <2> DEFINE T == {j \in S : j <= k}
  <2>1. CASE T = {}
    <3>1. \A j \in 1 .. k : j \notin S /\ j \in 1 .. n
        BY <1>4, <2>1
    <3>2. \A j \in 1 .. (k - 1) : KeyTies(c.keys[j], d.keys[j])
      <4> TAKE j \in 1 .. (k - 1)
      <4>1. j \in 1 .. n /\ j \notin S
          BY <1>4, <3>1
      <4> QED
          BY <1>7, <1>11, <4>1
    <3>3. KeyBeats(c.keys[k], d.keys[k])
      <4>1. k \notin S
          BY <1>4, <3>1
      <4> QED
          BY <1>7, <1>11, <4>1
    <3> QED
        BY <1>5, <3>2, <3>3 DEF RankLess
  <2>2. CASE T # {}
    <3>1. T \subseteq Nat
        BY <1>4, <1>10
    <3>2. PICK m \in T : \A j \in T : m <= j
        BY <2>2, <3>1, LeastNumber
    <3>3. m \in S /\ m \in 1 .. n /\ m <= k
        BY <1>10, <3>2
    <3>4. \A j \in 1 .. (m - 1) : j \notin S /\ KeyTies(a.keys[j], b.keys[j])
      <4> TAKE j \in 1 .. (m - 1)
      <4>1. j \in 1 .. (k - 1) /\ j <= k /\ ~(m <= j)
          BY <1>4, <3>3
      <4> QED
          BY <1>11, <3>2, <4>1
    <3> QED
        BY <1>9, <3>3, <3>4
  <2> QED
      BY <2>1, <2>2
<1>12. ASSUME \A k \in 1 .. n : KeyTies(a.keys[k], b.keys[k]), p.id < q.id
       PROVE  RankLess(c, d)
  <2>1. CASE S = {}
      BY <1>5, <1>7, <1>12, <2>1 DEF RankLess
  <2>2. CASE S # {}
    <3>1. S \subseteq Nat
        BY <1>4, <1>10
    <3>2. PICK m \in S : \A j \in S : m <= j
        BY <2>2, <3>1, LeastNumber
    <3>3. m \in 1 .. n
        BY <1>10
    <3>4. \A j \in 1 .. (m - 1) : j \notin S /\ KeyTies(a.keys[j], b.keys[j])
      <4> TAKE j \in 1 .. (m - 1)
      <4>1. j \in 1 .. n /\ ~(m <= j)
          BY <1>4, <3>3
      <4> QED
          BY <1>12, <3>2, <4>1
    <3> QED
        BY <1>9, <3>3, <3>4
  <2> QED
      BY <2>1, <2>2
<1>13. RankLess(a, b)
    BY DEF a, b
<1>14. RankLess(c, d)
    BY <1>4, <1>11, <1>12, <1>13 DEF RankLess
<1> QED
    BY <1>14 DEF c, d, s

\* The first of the ranking comes before every other legal path.
LEMMA FirstComesFirst ==
    ASSUME NEW r \in PlacementRequest, ValidateRequest(r) = "ok", LegalPaths(r) # {},
           NEW p, p = Rank(LegalEntries(r))[1].path, NEW q \in LegalPaths(r), q # p
    PROVE  /\ p \in LegalPaths(r) /\ Rank(LegalEntries(r))[1] = BuildRankEntry(r, p)
           /\ RankLess(BuildRankEntry(r, p), BuildRankEntry(r, q))
<1> DEFINE legal == LegalEntries(r)
           ranked == Rank(legal)
           n == Len(r.policy.objectives)
           e == BuildRankEntry(r, q)
           f == ranked[1]
<1>1. IsFiniteSet(legal) /\ Rankable(legal, n) /\ legal # {} /\ e \in legal
    BY LegalIsRankable
<1>2. 1 \in DOMAIN ranked /\ f \in legal
    BY <1>1, ChosenIs, RankSorts
<1>3. f = BuildRankEntry(r, p) /\ p \in LegalPaths(r)
    BY <1>2, LegalIsRankable
<1>4. e # f
  <2>1. e.path = q
      BY LegalIsRankable, EntryIs
  <2> QED
      BY <2>1
<1>5. PICK i \in DOMAIN ranked : ranked[i] = e
    BY <1>1, RankSorts
<1>6. DOMAIN ranked = 1 .. Cardinality(legal) /\ Cardinality(legal) \in Nat
    BY <1>1, RankSorts
<1>7. 1 < i
    BY <1>4, <1>5, <1>6
<1>8. RankLess(ranked[1], ranked[i])
    BY <1>1, <1>2, <1>7, RankSorts
<1> QED
    BY <1>3, <1>5, <1>8

\* A path that comes before every other legal path is the first of the ranking.
LEMMA WhatComesFirstIsFirst ==
    ASSUME NEW r \in PlacementRequest, ValidateRequest(r) = "ok", NEW p \in LegalPaths(r),
           \A q \in LegalPaths(r) :
              q # p => RankLess(BuildRankEntry(r, p), BuildRankEntry(r, q))
    PROVE  /\ Rank(LegalEntries(r))[1].path = p
           /\ \A i \in DOMAIN Rank(LegalEntries(r)) :
                 Rank(LegalEntries(r))[i].path.id = p.id => i = 1
<1> DEFINE legal == LegalEntries(r)
           ranked == Rank(legal)
           n == Len(r.policy.objectives)
           e == BuildRankEntry(r, p)
<1>1. /\ IsFiniteSet(legal) /\ Rankable(legal, n) /\ legal # {} /\ e \in legal
      /\ p \in Candidates(r)
    BY LegalIsRankable
<1>2. 1 \in DOMAIN ranked
    BY <1>1, ChosenIs
<1>3. ASSUME NEW i \in DOMAIN ranked
      PROVE  /\ ranked[i] \in legal /\ ranked[i].path \in LegalPaths(r)
             /\ ranked[i].path \in Candidates(r)
             /\ ranked[i] = BuildRankEntry(r, ranked[i].path)
  <2>1. ranked[i] \in legal
      BY <1>1, RankSorts
  <2> QED
      BY <2>1, LegalIsRankable
<1>4. ranked[1].path = p
  <2> DEFINE f == ranked[1]
  <2> SUFFICES ASSUME f.path # p PROVE FALSE
      OBVIOUS
  <2>1. f \in legal /\ f.path \in LegalPaths(r) /\ f = BuildRankEntry(r, f.path)
      BY <1>2, <1>3
  <2>2. RankLess(e, f)
      BY <2>1
  <2>3. RankLess(f, BuildRankEntry(r, p))
      BY <2>1, FirstComesFirst
  <2>4. ~RankLess(e, e)
      BY <1>1, RankLessIsAnOrder
  <2>5. RankLess(e, f) /\ RankLess(f, e) => RankLess(e, e)
      BY <1>1, <2>1, RankLessIsAnOrder
  <2> QED
      BY <2>2, <2>3, <2>4, <2>5
<1>5. ASSUME NEW i \in DOMAIN ranked, ranked[i].path.id = p.id PROVE i = 1
  <2>1. ranked[i].path = p
      BY <1>1, <1>3, <1>5, DistinctIds
  <2>2. ranked[i] = ranked[1]
      BY <1>2, <1>3, <1>4, <2>1
  <2> QED
      BY <1>1, <1>2, <2>2, RankSorts
<1> QED
    BY <1>4, <1>5

\* The path that a flow was put on is the one it is put on again.
LEMMA ContinuedChoice ==
    ASSUME NEW r \in PlacementRequest, ValidateRequest(r) = "ok", StaleCode(r) = "ok",
           LegalPaths(r) # {}, NEW p, p = Chosen(r, Rank(LegalEntries(r))).path,
           [kind |-> "incumbent_stability", direction |-> "max"]
               \notin ToSet(r.policy.objectives)
    PROVE  LET s == Continued(r, p)
           IN Chosen(s, Rank(LegalEntries(s))).path = p
<1> DEFINE s == Continued(r, p)
           ranked == Rank(LegalEntries(r))
           again == Rank(LegalEntries(s))
<1>1. LegalEntries(r) # {}
    BY DEF LegalEntries
<1>2. p \in LegalPaths(r) /\ p \in Candidates(r)
    BY <1>1, ChosenIs, LegalIsRankable
<1>3. /\ s \in PlacementRequest /\ SameLaw(s, r) /\ s.policy = r.policy
      /\ s.incumbent = {Reported(r, p)}
      /\ ValidateRequest(s) = "ok" /\ StaleCode(s) = "ok"
    BY <1>2, ContinuedIs, ContinuedIsValid
<1>4. LegalPaths(s) = LegalPaths(r)
    BY <1>3, SameVerdicts
<1>5. LegalEntries(s) # {}
    BY <1>2, <1>4 DEF LegalEntries
<1>6. EligibleIncumbent(s) = {Reported(r, p)} /\ Reported(r, p).path = p.id
      /\ \A q : StabilityKey(s, q) = Flag(p.id # q.id)
    BY <1>2, ContinuedIsEligible
<1>7. CASE SuppressedAt(r, ranked) = {}
  <2>1. p = ranked[1].path
      BY <1>1, <1>7, ChosenIs
  <2>2. ASSUME NEW q \in LegalPaths(s), q # p
        PROVE  RankLess(BuildRankEntry(s, p), BuildRankEntry(s, q))
    <3>1. q \in LegalPaths(r)
        BY <1>4
    <3>2. RankLess(BuildRankEntry(r, p), BuildRankEntry(r, q))
        BY <2>1, <2>2, <3>1, FirstComesFirst
    <3> QED
        BY <1>2, <3>1, <3>2, ContinuedStaysAhead
  <2>3. again[1].path = p /\ \A i \in DOMAIN again : again[i].path.id = p.id => i = 1
      BY <1>2, <1>3, <1>4, <2>2, WhatComesFirstIsFirst
  <2>4. SuppressedAt(s, again) = {}
    <3> SUFFICES ASSUME NEW i \in SuppressedAt(s, again) PROVE FALSE
        OBVIOUS
    <3> HIDE DEF s, again
    <3>1. i \in DOMAIN again /\ i # 1 /\ \E inc \in s.incumbent : again[i].path.id = inc.path
        BY DEF SuppressedAt, IncumbentPositions
    <3>2. again[i].path.id = p.id
        BY <1>3, <1>6, <3>1
    <3> QED
        BY <2>3, <3>1, <3>2
  <2>5. Chosen(s, again) = again[1]
      BY <1>3, <1>5, <2>4, ChosenIs
  <2> QED
      BY <2>3, <2>5
<1>8. CASE SuppressedAt(r, ranked) # {}
  <2>1. PICK i \in SuppressedAt(r, ranked) : Chosen(r, ranked) = ranked[i]
      BY <1>1, <1>8, ChosenIs
  <2>2. EligibleIncumbent(r) # {} /\ \A inc \in r.incumbent : inc.path = p.id
    <3>1. EligibleIncumbent(r) # {} /\ ~Moving(r, ranked[i].path)
        BY SuppressedIsKept
    <3> QED
        BY <2>1, <3>1 DEF Moving
  <2>3. EligibleIncumbent(r) \subseteq r.incumbent
      BY DEF EligibleIncumbent
  <2>4. ASSUME NEW q PROVE StabilityKey(s, q) = StabilityKey(r, q)
    <3>1. (EligibleIncumbent(r) # {} /\ \A inc \in EligibleIncumbent(r) : inc.path # q.id)
             <=> p.id # q.id
        BY <2>2, <2>3
    <3>2. StabilityKey(r, q) = Flag(p.id # q.id)
        BY <3>1 DEF StabilityKey, Flag
    <3> QED
        BY <1>6, <3>2
  <2> HIDE DEF s
  <2>5. ASSUME NEW q PROVE BuildRankEntry(s, q) = BuildRankEntry(r, q)
    <3>1. \A kind : ObjectiveKey(s, q, kind) = ObjectiveKey(r, q, kind)
        BY <1>3, <2>4, SameKeys
    <3> QED
        BY <1>3, <3>1 DEF BuildRankEntry
  <2>6. LegalEntries(s) = LegalEntries(r)
      BY <1>4, <2>5 DEF LegalEntries
  <2>7. again = ranked
      BY <2>6
  <2>8. IncumbentPositions(s, ranked) = IncumbentPositions(r, ranked)
    <3>1. r.incumbent # {}
        BY <2>2, <2>3
    <3>2. \A x : (\E inc \in s.incumbent : x = inc.path) <=> (\E inc \in r.incumbent : x = inc.path)
        BY <1>3, <1>6, <2>2, <3>1
    <3> HIDE DEF ranked
    <3> QED
        BY <3>2 DEF IncumbentPositions
  <2>9. SuppressedAt(s, ranked) = SuppressedAt(r, ranked)
    <3>1. EligibleIncumbent(s) # {}
        BY <1>6
    <3> HIDE DEF ranked
    <3>2. \A x, y : Improvement(s, x, y) = Improvement(r, x, y)
        BY <1>3 DEF Improvement
    <3> QED
        BY <1>3, <2>2, <2>8, <3>1, <3>2 DEF SuppressedAt
  <2>10. Chosen(s, ranked) = Chosen(r, ranked)
      BY <2>9 DEF Chosen
  <2>11. Chosen(s, again).path = p
    <3>1. p = Chosen(r, ranked).path
        OBVIOUS
    <3> HIDE DEF again, ranked
    <3> QED
        BY <2>7, <2>10, <3>1
  <2> QED
      BY <2>11 DEF s
<1> QED
    BY <1>7, <1>8

\* The shortcomings of the placement are the same.
LEMMA ContinuedFlags ==
    ASSUME NEW r \in PlacementRequest, ValidateRequest(r) = "ok", StaleCode(r) = "ok",
           NEW p \in LegalPaths(r)
    PROVE  LET s == Continued(r, p)
           IN PlacementFlags(s, BuildRankEntry(s, p)) \cap DegradingFlags =
              PlacementFlags(r, BuildRankEntry(r, p)) \cap DegradingFlags
<1> DEFINE s == Continued(r, p)
           a == BuildRankEntry(r, p)
           c == BuildRankEntry(s, p)
           n == Len(r.policy.objectives)
<1>1. p \in Candidates(r)
    BY DEF LegalPaths
<1>2. /\ s \in PlacementRequest /\ ValidateRequest(s) = "ok" /\ s.policy = r.policy
      /\ s.candidates = r.candidates /\ SameLaw(s, r)
    BY <1>1, ContinuedIs, ContinuedIsValid
<1>3. p \in Candidates(s)
    BY <1>1, <1>2 DEF Candidates
<1>4. n \in Nat /\ DOMAIN r.policy.objectives = 1 .. n /\ DOMAIN a.keys = 1 .. n /\ a.path = p
    BY <1>1, EntryIs
<1>5. DOMAIN c.keys = 1 .. n /\ c.path = p
    BY <1>2, <1>3, EntryIs
<1>6. ASSUME NEW k \in 1 .. n PROVE c.keys[k].known <=> a.keys[k].known
  <2>1. CASE r.policy.objectives[k].kind # "incumbent_stability"
      BY <2>1, ContinuedKeys
  <2>2. CASE r.policy.objectives[k].kind = "incumbent_stability"
    <3>1. c.keys[k].known
        BY <2>2, ContinuedKeys
    <3>2. a.keys[k].known = ObjectiveKey(r, p, "incumbent_stability").known
        BY <1>1, <2>2, EntryIs
    <3>3. ObjectiveKey(r, p, "incumbent_stability") = StabilityKey(r, p)
        BY DEF ObjectiveKey
    <3>4. StabilityKey(r, p).known
        BY DEF StabilityKey, Flag, Known
    <3> QED
        BY <3>1, <3>2, <3>3, <3>4
  <2> QED
      BY <2>1, <2>2
<1> HIDE DEF s, a, c, n
<1>7. HasUnknown(c) <=> HasUnknown(a)
    BY <1>4, <1>5, <1>6 DEF HasUnknown
<1>8. /\ BelowGate(s, p) = BelowGate(r, p) /\ Relaxed(s, p) = Relaxed(r, p)
      /\ Affine(s, p) = Affine(r, p)
    BY <1>2, SameIntent, SamePrepared
<1>9. ASSUME NEW f \in DegradingFlags
      PROVE  f \in PlacementFlags(s, c) <=> f \in PlacementFlags(r, a)
    BY <1>2, <1>4, <1>5, <1>7, <1>8 DEF PlacementFlags, DegradingFlags
<1>10. PlacementFlags(s, c) \cap DegradingFlags = PlacementFlags(r, a) \cap DegradingFlags
    BY <1>9
<1> QED
    BY <1>10 DEF s, a, c

\* A flow that goes on where it was put is put there again.
LEMMA PlacedAgain ==
    ASSUME NEW r \in PlacementRequest, Place(r).outcome \in PlacedOutcomes,
           [kind |-> "incumbent_stability", direction |-> "max"]
               \notin ToSet(r.policy.objectives)
    PROVE  LET again == Place(Adopted(r, Place(r)))
           IN /\ again.outcome = Place(r).outcome /\ again.intent = Place(r).intent
              /\ again.delta = "kept"
<1> DEFINE d == Place(r)
           entry == Chosen(r, Rank(LegalEntries(r)))
           p == entry.path
           s == Continued(r, p)
<1>1. PICK i : i \in d.intent
    BY DecisionIs
<1>2. /\ ValidateRequest(r) = "ok" /\ StaleCode(r) = "ok" /\ d = PlaceCurrent(r)
      /\ LegalPaths(r) # {} /\ Diverse(r)
      /\ p \in LegalPaths(r) /\ d.intent = {Intent(r, p)}
      /\ ~MoveDeferred(r, p) /\ ~(BelowGate(r, p) /\ r.policy.on_below = "defer")
    BY <1>1, PlacedIntent
<1>3. /\ entry = BuildRankEntry(r, p)
      /\ d.outcome = IF PlacementFlags(r, entry) \cap DegradingFlags = {}
                     THEN "placed" ELSE "placed_degraded"
    BY <1>2, PlaceCurrentIs
<1>4. p \in Candidates(r)
    BY <1>2 DEF LegalPaths
<1>5. Adopted(r, d) = s
  <2>1. {IncumbentOf(x) : x \in d.intent} = {Reported(r, p)}
      BY <1>2 DEF Reported
  <2> HIDE DEF d, p
  <2> QED
      BY <2>1 DEF Adopted, Continued
<1>6. /\ s \in PlacementRequest /\ SameLaw(s, r) /\ s.policy = r.policy
      /\ ValidateRequest(s) = "ok" /\ StaleCode(s) = "ok"
    BY <1>2, <1>4, ContinuedIs, ContinuedIsValid
<1>7. LegalPaths(s) = LegalPaths(r) /\ Diverse(s)
    BY <1>2, <1>6, SameVerdicts
<1>8. Chosen(s, Rank(LegalEntries(s))).path = p
    BY <1>2, ContinuedChoice
<1>9. ~MoveDeferred(s, p) /\ FinalDelta(s, p) = "kept"
    BY <1>2, ContinuedIsEligible DEF MoveDeferred
<1>10. /\ Intent(s, p) = Intent(r, p)
       /\ ~(BelowGate(s, p) /\ s.policy.on_below = "defer")
    BY <1>2, <1>6, SameIntent
<1>11. PlacementFlags(s, BuildRankEntry(s, p)) \cap DegradingFlags =
       PlacementFlags(r, BuildRankEntry(r, p)) \cap DegradingFlags
    BY <1>2, ContinuedFlags
<1>12. Place(s) = PlaceCurrent(s)
    BY <1>6, PlaceIs
<1>13. ASSUME NEW x, NEW y, x = Chosen(s, Rank(LegalEntries(s))), y = PlaceCurrent(s)
       PROVE  /\ x = BuildRankEntry(s, p)
              /\ y.outcome = IF PlacementFlags(s, x) \cap DegradingFlags = {}
                             THEN "placed" ELSE "placed_degraded"
              /\ y.intent = {Intent(s, p)} /\ y.delta = FinalDelta(s, p)
  <2>1. x.path = p
      BY <1>8, <1>13
  <2> HIDE DEF s, p
  <2> QED
      BY <1>2, <1>6, <1>7, <1>9, <1>10, <1>13, <2>1, PlaceCurrentIs
<1> HIDE DEF s, p, d, entry
<1>14. /\ Place(s).outcome = d.outcome /\ Place(s).intent = d.intent /\ Place(s).delta = "kept"
    BY <1>2, <1>3, <1>9, <1>10, <1>11, <1>12, <1>13
<1> QED
    BY <1>5, <1>14 DEF d

\* For every request whose policy does not maximize incumbent_stability: a placement
\* that is adopted and placed again stays where it is, with the same outcome and the
\* same intent, so the engine never moves a flow back and forth on unchanged facts.
THEOREM PlacementIsStable == Spec => []DecisionIsStable
<1>1. ASSUME FlowInv PROVE DecisionIsStable
  <2> SUFFICES ASSUME [kind |-> "incumbent_stability", direction |-> "max"]
                          \notin ToSet(request.policy.objectives),
                      NEW d \in Placed
               PROVE  LET again == Place(Adopted(request, d))
                      IN again.outcome = d.outcome /\ again.intent = d.intent /\ again.delta = "kept"
      BY DEF DecisionIsStable
  <2>1. request \in PlacementRequest /\ d = Place(request) /\ d.outcome \in PlacedOutcomes
      BY <1>1 DEF FlowInv, Placed
  <2> QED
      BY <2>1, PlacedAgain
<1> QED
    BY <1>1, FlowInvariant, PTL

-----------------------------------------------------------------------------
(* Facts that decide nothing.                                               *)

\* What the engine cannot tell apart it decides alike, down to the explanation.
LEMMA SamePlace ==
    ASSUME NEW s, NEW r, SameLaw(s, r), s.policy = r.policy, s.incumbent = r.incumbent,
           ValidateRequest(s) = "ok", ValidateRequest(r) = "ok"
    PROVE  Place(s) = Place(r)
<1>1. /\ s.candidates = r.candidates /\ s.capacity = r.capacity /\ s.qos = r.qos
      /\ s.expected = r.expected /\ s.flow = r.flow /\ s.flow_generation = r.flow_generation
      /\ s.evidence.id = r.evidence.id /\ s.evidence.generation = r.evidence.generation
    BY DEF SameLaw
<1>2. /\ Exclusions(s) = Exclusions(r) /\ LegalPaths(s) = LegalPaths(r)
      /\ \A p : ExclusionReason(s, p) = ExclusionReason(r, p)
    BY SameVerdicts
<1>3. Candidates(s) = Candidates(r)
    BY <1>1 DEF Candidates
<1>4. EligibleIncumbent(s) = EligibleIncumbent(r)
    BY <1>1, <1>3 DEF EligibleIncumbent
<1>5. ASSUME NEW p PROVE BuildRankEntry(s, p) = BuildRankEntry(r, p)
  <2>1. StabilityKey(s, p) = StabilityKey(r, p)
      BY <1>4 DEF StabilityKey
  <2>2. \A kind : ObjectiveKey(s, p, kind) = ObjectiveKey(r, p, kind)
      BY <2>1, SameKeys
  <2> QED
      BY <2>2 DEF BuildRankEntry
<1>6. LegalEntries(s) = LegalEntries(r)
    BY <1>2, <1>5 DEF LegalEntries
<1>7. ASSUME NEW code PROVE Reject(s, code) = Reject(r, code)
    BY <1>1 DEF Reject, BuildAuthority
<1>8. ASSUME NEW legal, NEW rec PROVE Scanned(s, legal, rec) = Scanned(r, legal, rec)
    BY <1>1, <1>4, <1>7 DEF Scanned
<1>9. ASSUME NEW d, NEW rec PROVE EmptyLegalSet(s, d, rec) = EmptyLegalSet(r, d, rec)
  <2>1. Classify(s, rec) = Classify(r, rec)
      BY <1>1 DEF Classify
  <2> QED
      BY <2>1 DEF EmptyLegalSet
<1>10. ASSUME NEW d
       PROVE  /\ DiversityUnmet(s, d) = DiversityUnmet(r, d)
              /\ Undiversified(s, d) = Undiversified(r, d)
    BY DEF DiversityUnmet, Undiversified
<1>11. ASSUME NEW d, NEW ranked
       PROVE  /\ Ranked(s, d, ranked) = Ranked(r, d, ranked)
              /\ ChurnFlags(s, ranked) = ChurnFlags(r, ranked)
              /\ Chosen(s, ranked) = Chosen(r, ranked)
  <2>1. Ranked(s, d, ranked) = Ranked(r, d, ranked)
      BY <1>4 DEF Ranked
  <2>2. IncumbentPositions(s, ranked) = IncumbentPositions(r, ranked)
      BY DEF IncumbentPositions
  <2>3. \A x, y : Improvement(s, x, y) = Improvement(r, x, y)
      BY DEF Improvement
  <2>4. SuppressedAt(s, ranked) = SuppressedAt(r, ranked)
      BY <1>4, <2>2, <2>3 DEF SuppressedAt
  <2> QED
      BY <1>4, <2>1, <2>4 DEF ChurnFlags, Chosen
<1>12. ASSUME NEW p PROVE MoveDeferred(s, p) = MoveDeferred(r, p) /\ Moving(s, p) = Moving(r, p)
    BY DEF MoveDeferred, Moving
<1>13. ASSUME NEW p
       PROVE  /\ Residual(s, p.id) = Residual(r, p.id) /\ Affine(s, p) = Affine(r, p)
              /\ BelowGate(s, p) = BelowGate(r, p) /\ Relaxed(s, p) = Relaxed(r, p)
              /\ RequiredHeadroom(s) = RequiredHeadroom(r)
              /\ Intent(s, p) = Intent(r, p)
    BY SamePrepared, SameIntent
<1>14. ASSUME NEW d, NEW p
       PROVE  /\ DeferMove(s, d) = DeferMove(r, d)
              /\ DeferAdmission(s, d, p) = DeferAdmission(r, d, p)
  <2>1. DeferMove(s, d) = DeferMove(r, d)
      BY <1>4 DEF DeferMove
  <2>2. GateBinding(s, p) = GateBinding(r, p)
      BY <1>13 DEF GateBinding
  <2> QED
      BY <2>1, <2>2 DEF DeferAdmission
<1>15. ASSUME NEW e PROVE PlacementFlags(s, e) = PlacementFlags(r, e)
  <2> DEFINE p == e.path
  <2>1. /\ BelowGate(s, p) = BelowGate(r, p) /\ Relaxed(s, p) = Relaxed(r, p)
        /\ Affine(s, p) = Affine(r, p) /\ Moving(s, p) = Moving(r, p)
      BY <1>12, <1>13
  <2> HIDE DEF p
  <2>2. ASSUME NEW f \in DegradingFlags \cup {"incumbent_superseded"}
        PROVE  f \in PlacementFlags(s, e) <=> f \in PlacementFlags(r, e)
      BY <1>4, <2>1 DEF PlacementFlags, DegradingFlags, p
  <2>3. /\ PlacementFlags(s, e) \subseteq DegradingFlags \cup {"incumbent_superseded"}
        /\ PlacementFlags(r, e) \subseteq DegradingFlags \cup {"incumbent_superseded"}
      BY DEF PlacementFlags
  <2> QED
      BY <2>2, <2>3
<1>16. ASSUME NEW p
       PROVE  PlacementBindings(s, p) = PlacementBindings(r, p) /\ FinalDelta(s, p) = FinalDelta(r, p)
    BY <1>4, <1>12, <1>13 DEF PlacementBindings, FinalDelta, GateBinding
<1>17. ASSUME NEW i PROVE VerifyIntent(s, i) = VerifyIntent(r, i)
    BY <1>1, <1>2, <1>3 DEF VerifyIntent
<1>18. ASSUME NEW d, NEW e PROVE PlaceOn(s, d, e) = PlaceOn(r, d, e)
  <2>1. FailedVerification(s, d) = FailedVerification(r, d)
      BY <1>7 DEF FailedVerification
  <2>2. /\ Intent(s, e.path) = Intent(r, e.path) /\ PlacementFlags(s, e) = PlacementFlags(r, e)
        /\ PlacementBindings(s, e.path) = PlacementBindings(r, e.path)
        /\ FinalDelta(s, e.path) = FinalDelta(r, e.path)
        /\ VerifyIntent(s, Intent(r, e.path)) = VerifyIntent(r, Intent(r, e.path))
      BY <1>13, <1>15, <1>16, <1>17
  <2> QED
      BY <2>1, <2>2 DEF PlaceOn
<1>19. ASSUME NEW d, NEW legal PROVE PlaceLegal(s, d, legal) = PlaceLegal(r, d, legal)
  <2> DEFINE ranked == Rank(legal)
             entry == Chosen(r, ranked)
             churned == WithFlags(Ranked(r, d, ranked), ChurnFlags(r, ranked))
  <2>1. /\ Chosen(s, ranked) = entry
        /\ WithFlags(Ranked(s, d, ranked), ChurnFlags(s, ranked)) = churned
      BY <1>11
  <2> HIDE DEF ranked, entry, churned
  <2>2. /\ MoveDeferred(s, entry.path) = MoveDeferred(r, entry.path)
        /\ BelowGate(s, entry.path) = BelowGate(r, entry.path)
        /\ DeferMove(s, churned) = DeferMove(r, churned)
        /\ DeferAdmission(s, churned, entry.path) = DeferAdmission(r, churned, entry.path)
        /\ PlaceOn(s, churned, entry) = PlaceOn(r, churned, entry)
      BY <1>12, <1>13, <1>14, <1>18
  <2> QED
      BY <2>1, <2>2 DEF PlaceLegal, ranked, entry, churned
<1>20. PlaceCurrent(s) = PlaceCurrent(r)
  <2> DEFINE legal == LegalEntries(r)
             rec == Exclusions(r)
             scanned == Scanned(r, legal, rec)
  <2>1. Scanned(s, LegalEntries(s), Exclusions(s)) = scanned
      BY <1>2, <1>6, <1>8
  <2>2. /\ EmptyLegalSet(s, scanned, rec) = EmptyLegalSet(r, scanned, rec)
        /\ DiversityUnmet(s, scanned) = DiversityUnmet(r, scanned)
        /\ Undiversified(s, scanned) = Undiversified(r, scanned)
        /\ PlaceLegal(s, scanned, legal) = PlaceLegal(r, scanned, legal)
      BY <1>9, <1>10, <1>19
  <2> QED
      BY <1>2, <1>6, <2>1, <2>2 DEF PlaceCurrent
<1>21. StaleCode(s) = StaleCode(r)
    BY <1>1 DEF StaleCode, StaleChecks
<1>22. ASSUME NEW code PROVE Counted(s, code) = Counted(r, code)
    BY <1>1, <1>7 DEF Counted
<1>23. HeadroomOverflows(s) = HeadroomOverflows(r)
    BY <1>1 DEF HeadroomOverflows, RequiredBase, Multiplier
<1> QED
    BY <1>20, <1>21, <1>22, <1>23 DEF Place

\* The request with the utilizations of its evidence inverted.
InvertedEntries(entries) ==
    [k \in DOMAIN entries |->
        [entries[k] EXCEPT !.utilization_ppb = 1000000000 - entries[k].utilization_ppb]]
Inverted(r) == [r EXCEPT !.evidence.entries = InvertedEntries(r.evidence.entries)]

\* It differs in nothing else.
LEMMA InvertedIs ==
    ASSUME NEW r \in PlacementRequest
    PROVE  LET s == Inverted(r)
           IN /\ s.incumbent = r.incumbent
              /\ s.flow = r.flow /\ s.flow_generation = r.flow_generation
              /\ s.attempt = r.attempt /\ s.candidates = r.candidates
              /\ s.capacity = r.capacity /\ s.qos = r.qos /\ s.policy = r.policy
              /\ s.expected = r.expected
              /\ s.occupied_failure_domains = r.occupied_failure_domains
              /\ s.evidence.id = r.evidence.id /\ s.evidence.generation = r.evidence.generation
              /\ s.evidence.entries = InvertedEntries(r.evidence.entries)
              /\ ~EvidenceTrusted(r) => SameLaw(s, r)
<1> DEFINE entries == InvertedEntries(r.evidence.entries)
           s == [r EXCEPT !.evidence.entries = entries]
<1> HIDE DEF entries
<1>1. DOMAIN r = {"flow", "flow_generation", "candidates", "capacity", "qos", "policy", "evidence",
                  "incumbent", "occupied_failure_domains", "expected", "attempt"}
    BY DEF PlacementRequest
<1>2. DOMAIN r.evidence = {"id", "generation", "entries"}
    BY RequestFields DEF EvidenceBundle
<1>3. /\ s.incumbent = r.incumbent
      /\ s.flow = r.flow /\ s.flow_generation = r.flow_generation
      /\ s.attempt = r.attempt /\ s.candidates = r.candidates
      /\ s.capacity = r.capacity /\ s.qos = r.qos /\ s.policy = r.policy
      /\ s.expected = r.expected
      /\ s.occupied_failure_domains = r.occupied_failure_domains
    BY <1>1
<1>4. s.evidence = [r.evidence EXCEPT !.entries = entries]
    BY <1>1
<1>5. /\ s.evidence.id = r.evidence.id /\ s.evidence.generation = r.evidence.generation
      /\ s.evidence.entries = entries
    BY <1>2, <1>4
<1> HIDE DEF s
<1>6. ~EvidenceTrusted(r) => SameLaw(s, r)
    BY <1>3, <1>5 DEF SameLaw, SamePolicy
<1> QED
    BY <1>3, <1>5, <1>6 DEF Inverted, s, entries

\* A valid request stays valid.
LEMMA InvertedIsValid ==
    ASSUME NEW r \in PlacementRequest, ValidateRequest(r) = "ok"
    PROVE  ValidateRequest(Inverted(r)) = "ok"
<1> DEFINE s == Inverted(r)
           entries == r.evidence.entries
           other == InvertedEntries(entries)
<1>1. /\ s.incumbent = r.incumbent
      /\ s.flow = r.flow /\ s.flow_generation = r.flow_generation
      /\ s.candidates = r.candidates
      /\ s.capacity = r.capacity /\ s.qos = r.qos /\ s.policy = r.policy
      /\ s.expected = r.expected /\ s.occupied_failure_domains = r.occupied_failure_domains
      /\ s.evidence.id = r.evidence.id /\ s.evidence.generation = r.evidence.generation
      /\ s.evidence.entries = other
    BY InvertedIs
<1> HIDE DEF s
<1>2. /\ ValidateEnumerations(r) = "ok" /\ ValidateGenerations(r) = "ok"
      /\ ValidateBounds(r) = "ok" /\ ValidateCandidates(r) = "ok"
      /\ ValidateCapacityAndEvidence(r) = "ok" /\ ValidatePolicy(r) = "ok"
    BY RequestOk
<1>3. ValidateEnumerations(s) = "ok"
    BY <1>1, <1>2 DEF ValidateEnumerations, EnumerationChecks
<1>4. ValidateGenerations(s) = "ok"
  <2>1. Generated(s) <=> Generated(r)
      BY <1>1 DEF Generated
  <2>2. IncumbentStatus(s) = IncumbentStatus(r)
      BY <1>1 DEF IncumbentStatus
  <2> QED
      BY <1>2, <2>1, <2>2, GenerationsOk
<1>5. ASSUME NEW T, NEW f \in Seq(T), NEW g, DOMAIN g = DOMAIN f
      PROVE  \E n \in Nat : /\ DOMAIN f = 1 .. n /\ Len(f) = n /\ Len(g) = n
  <2>1. Len(f) \in Nat /\ DOMAIN f = 1 .. Len(f)
      OBVIOUS
  <2>2. Len(g) = Len(f)
      BY <1>5, <2>1
  <2> QED
      BY <2>1, <2>2
<1>6. entries \in Seq(EvidenceEntry)
    BY RequestFields
<1>7. DOMAIN other = DOMAIN entries
    BY DEF InvertedEntries
<1>8. ValidateBounds(s) = "ok"
  <2>1. Len(other) = Len(entries)
      BY <1>5, <1>6, <1>7
  <2> HIDE DEF other, entries
  <2>2. Len(s.evidence.entries) = Len(r.evidence.entries)
      BY <1>1, <2>1 DEF entries
  <2>3. Bounded(s) <=> Bounded(r)
      BY <1>1, <2>2 DEF Bounded
  <2> QED
      BY <1>2, <2>3, BoundsOk
<1>9. ValidateCandidates(s) = "ok"
  <2>1. r.candidates.paths \in Seq(CandidatePath)
      BY RequestFields
  <2> QED
      BY <1>1, <1>2, <2>1, CandidatesOk
<1>10. ValidateCapacityAndEvidence(s) = "ok"
  <2>1. /\ ValidateEntries(r.capacity.entries, ResidualAboveTotal(r)) = "ok"
        /\ ValidateEntries(entries, UtilizationAboveOne(r)) = "ok"
      BY <1>2 DEF ValidateCapacityAndEvidence
  <2>2. ValidateEntries(s.capacity.entries, ResidualAboveTotal(s)) = "ok"
      BY <1>1, <2>1 DEF ResidualAboveTotal
  <2>3. \A i \in DOMAIN entries : entries[i] \in EvidenceEntry
      BY <1>6
  <2>4. ASSUME NEW i \in DOMAIN entries
        PROVE  /\ entries[i].path \in Nat /\ entries[i].utilization_ppb \in Nat
               /\ other[i].path = entries[i].path
               /\ other[i].utilization_ppb = 1000000000 - entries[i].utilization_ppb
    <3>1. entries[i] \in EvidenceEntry
        BY <2>3
    <3>2. other[i] = [entries[i] EXCEPT !.utilization_ppb = 1000000000 - entries[i].utilization_ppb]
        BY DEF InvertedEntries
    <3> HIDE DEF entries, other
    <3> QED
        BY <3>1, <3>2 DEF EvidenceEntry
  <2>5. /\ \A i \in DOMAIN entries : Valid(entries[i].path)
        /\ \A i, j \in DOMAIN entries : entries[i].path = entries[j].path => i = j
      BY <1>6, <2>1, <2>4, EntriesOk
  <2> HIDE DEF entries, other
  <2>6. other \in Seq({other[i] : i \in DOMAIN other})
    <3>1. PICK n \in Nat : DOMAIN entries = 1 .. n /\ Len(entries) = n /\ Len(other) = n
        BY <1>5, <1>6, <1>7
    <3>2. other = [i \in 1 .. n |-> other[i]]
      <4>1. other = [i \in DOMAIN other |-> other[i]]
          BY DEF other, InvertedEntries
      <4> QED
          BY <1>7, <3>1, <4>1
    <3> QED
        BY <1>7, <3>1, <3>2
  <2>7. \A i \in DOMAIN other : other[i] \notin UtilizationAboveOne(s)
    <3> SUFFICES ASSUME NEW i \in DOMAIN other, other[i].utilization_ppb > 1000000000 PROVE FALSE
        BY DEF UtilizationAboveOne
    <3> QED
        BY <1>7, <2>4
  <2>8. ValidateEntries(other, UtilizationAboveOne(s)) = "ok"
      BY <1>7, <2>4, <2>5, <2>6, <2>7, EntriesOk
  <2> QED
      BY <1>1, <2>2, <2>8 DEF ValidateCapacityAndEvidence
<1>11. ValidatePolicy(s) = "ok"
    BY <1>1, <1>2 DEF ValidatePolicy, PolicyChecks
<1> QED
    BY <1>3, <1>4, <1>8, <1>9, <1>10, <1>11, RequestOk DEF s

\* For every valid request: what a bundle says that is not of the expected generation
\* changes nothing of the decision, its explanation included.
THEOREM UntrustedEvidenceDecidesNothing == Spec => []UntrustedEvidenceIsInert
<1>1. ASSUME FlowInv PROVE UntrustedEvidenceIsInert
  <2> DEFINE r == request
             Turned(e) == [e EXCEPT !.utilization_ppb = 1000000000 - @]
             other == [r EXCEPT !.evidence.entries = [k \in DOMAIN @ |-> Turned(@[k])]]
  <2> SUFFICES ASSUME ValidateRequest(r) = "ok", ~EvidenceTrusted(r), NEW d \in decision
               PROVE  Place(other) = d
      BY DEF UntrustedEvidenceIsInert
  <2>1. r \in PlacementRequest /\ d = Place(r)
      BY <1>1 DEF FlowInv
  <2> HIDE DEF r
  <2>2. other = Inverted(r)
      BY DEF Inverted, InvertedEntries
  <2>3. ValidateRequest(Inverted(r)) = "ok"
      BY <2>1, InvertedIsValid
  <2>4. /\ SameLaw(Inverted(r), r) /\ Inverted(r).policy = r.policy
        /\ Inverted(r).incumbent = r.incumbent
      BY <2>1, InvertedIs
  <2>5. Place(Inverted(r)) = Place(r)
      BY <2>3, <2>4, SamePlace
  <2> QED
      BY <2>1, <2>2, <2>5
<1> QED
    BY <1>1, FlowInvariant, PTL

-----------------------------------------------------------------------------
(* The constraint a decision blames.                                        *)

\* The limits leave room for every kind of reason and for the capacity of every
\* candidate, as the defaults of Limits in model.hpp do.
RoomyLimits ==
    /\ Limits.max_exclusion_reasons >= Len(ExclusionOrder)
    /\ Limits.max_candidate_paths <= Limits.max_capacity_entries

\* A report of unlimited capacity for every candidate.
AmpleEntries(paths) ==
    [i \in DOMAIN paths |->
        [path |-> paths[i].id, capacity_bytes |-> MaxU64, residual_bytes |-> MaxU64]]

\* A request with all the capacity one could want is the same in everything else.
LEMMA UnlimitedIs ==
    ASSUME NEW r \in PlacementRequest
    PROVE  LET u == Unlimited(r)
           IN /\ u \in PlacementRequest
              /\ u.incumbent = r.incumbent /\ u.flow = r.flow
              /\ u.flow_generation = r.flow_generation
              /\ u.candidates = r.candidates /\ u.evidence = r.evidence
              /\ u.qos = r.qos /\ u.policy = r.policy /\ u.expected = r.expected
              /\ u.occupied_failure_domains = r.occupied_failure_domains
              /\ u.capacity.id = r.capacity.id /\ u.capacity.generation = r.capacity.generation
              /\ u.capacity.entries = AmpleEntries(r.candidates.paths)
              /\ u.capacity.entries \in Seq(PathCapacity)
              /\ DOMAIN u.capacity.entries = DOMAIN r.candidates.paths
              /\ Len(u.capacity.entries) = Len(r.candidates.paths)
<1> DEFINE paths == r.candidates.paths
           entries == AmpleEntries(paths)
           u == [r EXCEPT !.capacity.entries = entries]
<1>1. paths \in Seq(CandidatePath) /\ r.capacity \in CapacitySnapshot
    BY RequestFields
<1>2. DOMAIN paths = 1 .. Len(paths) /\ Len(paths) \in Nat
    BY <1>1
<1>3. entries \in Seq(PathCapacity) /\ DOMAIN entries = DOMAIN paths /\ Len(entries) = Len(paths)
  <2>1. ASSUME NEW i \in 1 .. Len(paths)
        PROVE  [path |-> paths[i].id, capacity_bytes |-> MaxU64, residual_bytes |-> MaxU64]
                  \in PathCapacity
    <3>1. paths[i] \in CandidatePath
        BY <1>1, <1>2
    <3>2. paths[i].id \in Nat
        BY <3>1 DEF CandidatePath
    <3> QED
        BY <3>2, MaxU64Assumption DEF PathCapacity
  <2>2. entries = [i \in 1 .. Len(paths) |->
                    [path |-> paths[i].id, capacity_bytes |-> MaxU64, residual_bytes |-> MaxU64]]
      BY <1>2 DEF AmpleEntries
  <2>3. entries \in [1 .. Len(paths) -> PathCapacity]
      BY <2>1, <2>2
  <2> HIDE DEF entries, paths
  <2> QED
      BY <1>2, <2>3
<1> HIDE DEF entries
<1>4. DOMAIN r = {"flow", "flow_generation", "candidates", "capacity", "qos", "policy", "evidence",
                  "incumbent", "occupied_failure_domains", "expected", "attempt"}
    BY DEF PlacementRequest
<1>5. DOMAIN r.capacity = {"id", "generation", "entries"}
    BY <1>1 DEF CapacitySnapshot
<1>6. /\ u.incumbent = r.incumbent /\ u.flow = r.flow
      /\ u.flow_generation = r.flow_generation
      /\ u.candidates = r.candidates /\ u.evidence = r.evidence
      /\ u.qos = r.qos /\ u.policy = r.policy /\ u.expected = r.expected
      /\ u.occupied_failure_domains = r.occupied_failure_domains
    BY <1>4
<1>7. u.capacity = [r.capacity EXCEPT !.entries = entries]
    BY <1>4
<1>8. /\ u.capacity.id = r.capacity.id /\ u.capacity.generation = r.capacity.generation
      /\ u.capacity.entries = entries
    BY <1>5, <1>7
<1>9. u \in PlacementRequest
  <2>1. [r.capacity EXCEPT !.entries = entries] \in CapacitySnapshot
      BY <1>1, <1>3 DEF CapacitySnapshot
  <2> DEFINE capacity == [r.capacity EXCEPT !.entries = entries]
  <2>2. u = [r EXCEPT !.capacity = capacity]
      BY <1>4
  <2> HIDE DEF capacity, u
  <2>3. capacity \in CapacitySnapshot
      BY <2>1 DEF capacity
  <2> QED
      BY <2>2, <2>3 DEF PlacementRequest
<1>10. u = Unlimited(r)
    BY DEF Unlimited, AmpleEntries, entries
<1> HIDE DEF u
<1> QED
    BY <1>3, <1>6, <1>8, <1>9, <1>10 DEF entries

\* It stays valid, with room for the capacity of every candidate.
LEMMA UnlimitedIsValid ==
    ASSUME NEW r \in PlacementRequest, ValidateRequest(r) = "ok", RoomyLimits
    PROVE  ValidateRequest(Unlimited(r)) = "ok" /\ StaleCode(Unlimited(r)) = StaleCode(r)
<1> DEFINE u == Unlimited(r)
           paths == r.candidates.paths
           entries == u.capacity.entries
<1>1. /\ u \in PlacementRequest
      /\ u.incumbent = r.incumbent /\ u.flow = r.flow
      /\ u.flow_generation = r.flow_generation
      /\ u.candidates = r.candidates /\ u.evidence = r.evidence
      /\ u.qos = r.qos /\ u.policy = r.policy /\ u.expected = r.expected
      /\ u.occupied_failure_domains = r.occupied_failure_domains
      /\ u.capacity.id = r.capacity.id /\ u.capacity.generation = r.capacity.generation
      /\ u.capacity.entries = AmpleEntries(r.candidates.paths)
      /\ u.capacity.entries \in Seq(PathCapacity)
      /\ DOMAIN u.capacity.entries = DOMAIN r.candidates.paths
      /\ Len(u.capacity.entries) = Len(r.candidates.paths)
    BY UnlimitedIs
<1> HIDE DEF u
<1>2. /\ ValidateEnumerations(r) = "ok" /\ ValidateGenerations(r) = "ok"
      /\ ValidateBounds(r) = "ok" /\ ValidateCandidates(r) = "ok"
      /\ ValidateCapacityAndEvidence(r) = "ok" /\ ValidatePolicy(r) = "ok"
    BY RequestOk
<1>3. ValidateEnumerations(u) = "ok"
    BY <1>1, <1>2 DEF ValidateEnumerations, EnumerationChecks
<1>4. ValidateGenerations(u) = "ok"
  <2>1. Generated(u) <=> Generated(r)
      BY <1>1 DEF Generated
  <2>2. IncumbentStatus(u) = IncumbentStatus(r)
      BY <1>1 DEF IncumbentStatus
  <2> QED
      BY <1>2, <2>1, <2>2, GenerationsOk
<1>5. ValidateBounds(u) = "ok"
  <2>1. Bounded(r)
      BY <1>2, BoundsOk
  <2>2. Limits.max_candidate_paths \in Nat /\ Limits.max_capacity_entries \in Nat
      BY LimitsAssumption DEF LimitNames
  <2>3. r.candidates.paths \in Seq(CandidatePath)
      BY RequestFields
  <2>4. Len(r.candidates.paths) \in Nat
      BY <2>3
  <2>5. ~(Len(u.capacity.entries) > Limits.max_capacity_entries)
      BY <1>1, <2>1, <2>2, <2>4 DEF Bounded, RoomyLimits
  <2>6. Bounded(u)
      BY <1>1, <2>1, <2>5 DEF Bounded
  <2> QED
      BY <2>6, BoundsOk
<1>6. r.candidates.paths \in Seq(CandidatePath)
    BY RequestFields
<1>7. ValidateCandidates(u) = "ok"
    BY <1>1, <1>2, <1>6, CandidatesOk
<1>8. ValidateCapacityAndEvidence(u) = "ok"
  <2>1. ASSUME NEW i \in DOMAIN paths
        PROVE  /\ entries[i].path = paths[i].id
               /\ entries[i].capacity_bytes = MaxU64 /\ entries[i].residual_bytes = MaxU64
      BY <1>1 DEF AmpleEntries
  <2>2. /\ \A i \in DOMAIN paths : paths[i].id \in Nat /\ Valid(paths[i].id)
        /\ \A i, j \in DOMAIN paths : paths[i].id = paths[j].id => i = j
    <3>1. /\ \A i \in DOMAIN paths : ValidateCandidate(paths[i]) = "ok"
          /\ \A i, j \in DOMAIN paths : paths[i].id = paths[j].id => i = j
        BY <1>2, <1>6, CandidatesOk
    <3>2. \A i \in DOMAIN paths : Valid(paths[i].id)
        BY <3>1, CandidateOk
    <3>3. \A i \in DOMAIN paths : paths[i] \in CandidatePath
        BY <1>6
    <3>4. \A i \in DOMAIN paths : paths[i].id \in Nat
        BY <3>3 DEF CandidatePath
    <3> QED
        BY <3>1, <3>2, <3>4
  <2>3. \A i \in DOMAIN entries : entries[i] \notin ResidualAboveTotal(u)
    <3>1. \A i \in DOMAIN entries : ~(entries[i].residual_bytes > entries[i].capacity_bytes)
        BY <1>1, <2>1, MaxU64Assumption
    <3> QED
        BY <3>1 DEF ResidualAboveTotal
  <2> HIDE DEF entries, paths
  <2>4. /\ entries \in Seq(PathCapacity) /\ DOMAIN entries = DOMAIN paths
      BY <1>1 DEF entries, paths
  <2>5. ValidateEntries(entries, ResidualAboveTotal(u)) = "ok"
      BY <2>1, <2>2, <2>3, <2>4, EntriesOk
  <2>6. UtilizationAboveOne(u) = UtilizationAboveOne(r)
      BY <1>1 DEF UtilizationAboveOne
  <2>7. ValidateEntries(u.evidence.entries, UtilizationAboveOne(u)) = "ok"
      BY <1>1, <1>2, <2>6 DEF ValidateCapacityAndEvidence
  <2> QED
      BY <2>5, <2>7 DEF ValidateCapacityAndEvidence, entries
<1>9. ValidatePolicy(u) = "ok"
    BY <1>1, <1>2 DEF ValidatePolicy, PolicyChecks
<1>10. StaleCode(u) = StaleCode(r)
    BY <1>1 DEF StaleCode, StaleChecks
<1> QED
    BY <1>3, <1>4, <1>5, <1>7, <1>8, <1>9, <1>10, RequestOk DEF u

\* With unlimited capacity no candidate is excluded for it, and one that policy
\* excluded stays excluded for the same reason.
LEMMA UnlimitedReason ==
    ASSUME NEW r \in PlacementRequest, ValidateRequest(r) = "ok", RoomyLimits,
           NEW p \in Candidates(r)
    PROVE  /\ ExclusionReason(Unlimited(r), p) \notin CapacityReasons
           /\ ExclusionReason(r, p) \in PolicyReasons =>
                 ExclusionReason(Unlimited(r), p) = ExclusionReason(r, p)
<1> DEFINE u == Unlimited(r)
           a == ExclusionChecks(r, p)
           b == ExclusionChecks(u, p)
<1>1. /\ u \in PlacementRequest
      /\ u.candidates = r.candidates /\ u.evidence = r.evidence
      /\ u.qos = r.qos /\ u.policy = r.policy /\ u.expected = r.expected
      /\ u.occupied_failure_domains = r.occupied_failure_domains
      /\ u.capacity.entries = AmpleEntries(r.candidates.paths)
    BY UnlimitedIs
<1>2. ValidateRequest(u) = "ok"
    BY UnlimitedIsValid
<1> HIDE DEF u
<1>3. CapacityOf(u, p.id) # {} /\ Residual(u, p.id) = MaxU64
  <2>1. PICK i \in DOMAIN r.candidates.paths : r.candidates.paths[i] = p
      BY DEF Candidates, ToSet
  <2> DEFINE e == [path |-> p.id, capacity_bytes |-> MaxU64, residual_bytes |-> MaxU64]
  <2>2. e \in CapacityOf(u, p.id)
    <3>1. AmpleEntries(r.candidates.paths)[i] = e
          /\ i \in DOMAIN AmpleEntries(r.candidates.paths)
        BY <2>1 DEF AmpleEntries
    <3>2. e \in ToSet(u.capacity.entries)
        BY <1>1, <3>1 DEF ToSet
    <3>3. e.path = p.id
        OBVIOUS
    <3> HIDE DEF e
    <3> QED
        BY <3>2, <3>3 DEF CapacityOf
  <2>3. e.residual_bytes = MaxU64
      OBVIOUS
  <2> HIDE DEF e
  <2> QED
      BY <1>1, <1>2, <2>2, <2>3, ResidualIs
<1>4. ~(Residual(u, p.id) < RequiredBase(u)) /\ ~(Residual(u, p.id) < RequiredHeadroom(u))
  <2>1. /\ RequiredBase(u) \in Nat /\ RequiredHeadroom(u) \in Nat
        /\ RequiredHeadroom(u) >= RequiredBase(u) /\ RequiredHeadroom(u) <= MaxU64
      BY <1>1, <1>2, HeadroomIs
  <2> QED
      BY <1>3, <2>1, MaxU64Assumption
<1>5. ~b[10][1] /\ ~b[11][1] /\ ~b[12][1]
    BY <1>3, <1>4 DEF ExclusionChecks
<1>6. /\ EvidenceStale(u) = EvidenceStale(r) /\ EvidenceMissing(u, p) = EvidenceMissing(r, p)
      /\ Affine(u, p) = Affine(r, p) /\ RelaxReservation(u, p) = RelaxReservation(r, p)
    BY <1>1 DEF EvidenceStale, EvidenceMissing, Affine, RelaxReservation, UsesCongestion,
                EvidenceTrusted, EvidencePresent, EvidenceOf
<1>7. /\ b[1][1] = a[1][1] /\ b[2][1] = a[2][1] /\ b[3][1] = a[3][1] /\ b[4][1] = a[4][1]
      /\ b[5][1] = a[5][1] /\ b[6][1] = a[6][1] /\ b[7][1] = a[7][1] /\ b[8][1] = a[8][1]
      /\ b[9][1] = a[9][1] /\ b[13][1] = a[13][1] /\ b[14][1] = a[14][1]
      /\ b[15][1] = a[15][1] /\ b[16][1] = a[16][1] /\ b[17][1] = a[17][1]
    BY <1>1, <1>6 DEF ExclusionChecks
<1> HIDE DEF a, b
<1>8. a = ExclusionChecks(r, p) /\ b = ExclusionChecks(u, p)
    BY DEF a, b
<1>9. \A i \in 1 .. 17 : i = 1 \/ i = 2 \/ i = 3 \/ i = 4 \/ i = 5 \/ i = 6 \/ i = 7
                 \/ i = 8 \/ i = 9 \/ i = 10 \/ i = 11 \/ i = 12 \/ i = 13 \/ i = 14 \/ i = 15
                 \/ i = 16 \/ i = 17
    OBVIOUS
<1>10. DOMAIN a = 1 .. 17 /\ DOMAIN b = 1 .. 17
    BY <1>8, ReasonOfRow
<1>11. ASSUME NEW i \in 1 .. 17, b[i][1] PROVE a[i][1] /\ b[i][2] \notin CapacityReasons
    BY <1>5, <1>7, <1>8, <1>9, <1>11, ReasonOfRow DEF CapacityReasons
<1>12. ASSUME NEW i \in 1 .. 17, a[i][1], a[i][2] \in PolicyReasons PROVE b[i][1] /\ b[i][2] = a[i][2]
    BY <1>7, <1>8, <1>9, <1>12, ReasonOfRow DEF PolicyReasons
<1>13. "ok" \notin CapacityReasons /\ "ok" \notin PolicyReasons
    BY DEF CapacityReasons, PolicyReasons
<1>14. FirstStatus(b) \notin CapacityReasons
  <2>1. DOMAIN b \subseteq Nat
      BY <1>10
  <2>2. \/ FirstStatus(b) = "ok"
        \/ \E i \in DOMAIN b : b[i][1] /\ FirstStatus(b) = b[i][2]
      BY <2>1, FirstStatusIs
  <2> QED
      BY <1>10, <1>11, <1>13, <2>2
<1>15. ASSUME FirstStatus(a) \in PolicyReasons PROVE FirstStatus(b) = FirstStatus(a)
  <2>1. PICK i \in 1 .. 17 : /\ a[i][1] /\ FirstStatus(a) = a[i][2]
                             /\ \A j \in 1 .. 17 : a[j][1] => i <= j
    <3>1. DOMAIN a \subseteq Nat
        BY <1>10
    <3>2. \/ FirstStatus(a) = "ok"
          \/ \E i \in DOMAIN a : /\ a[i][1] /\ FirstStatus(a) = a[i][2]
                                  /\ \A j \in DOMAIN a : a[j][1] => i <= j
        BY <3>1, FirstStatusIs
    <3> QED
        BY <1>10, <1>13, <1>15, <3>2
  <2>2. b[i][1] /\ b[i][2] = a[i][2]
      BY <1>12, <1>15, <2>1
  <2>3. PICK j \in 1 .. 17 : /\ b[j][1] /\ FirstStatus(b) = b[j][2]
                             /\ \A k \in 1 .. 17 : b[k][1] => j <= k
      BY <1>10, <2>2, FirstStatusIs
  <2>4. i <= j /\ j <= i
      BY <1>11, <2>1, <2>2, <2>3
  <2>5. i = j
      BY <2>4
  <2> QED
      BY <2>1, <2>2, <2>3, <2>5
<1> QED
    BY <1>14, <1>15 DEF ExclusionReason, a, b, u

\* What policy rejected it rejects whatever the capacity.
LEMMA PolicyIsToBlame ==
    ASSUME NEW r \in PlacementRequest, RoomyLimits, Place(r).outcome = "policy_rejected"
    PROVE  Place(Unlimited(r)).outcome = "policy_rejected"
<1> DEFINE u == Unlimited(r)
           d == Place(r)
           rec == Exclusions(r)
           met == {ExclusionReason(r, p) : p \in Candidates(r)} \ {"ok"}
           again == {ExclusionReason(u, p) : p \in Candidates(u)} \ {"ok"}
<1>1. /\ ValidateRequest(r) = "ok" /\ StaleCode(r) = "ok" /\ d = PlaceCurrent(r)
  <2>1. d # Reject(r, ValidateRequest(r)) /\ d # Counted(r, StaleCode(r))
      BY RejectIs, CountedIs DEF OutcomeForValidationCode
  <2> QED
      BY <2>1, PlaceIs
<1>2. LegalPaths(r) = {} /\ Classify(r, rec)[2] = "policy_rejected"
    BY <1>1, PlaceCurrentIs
<1>3. AllOf(rec, PolicyReasons)
    BY <1>2, ClassifyIs
<1>4. Limits.max_exclusion_reasons >= 17
  <2>1. Len(ExclusionOrder) = 17
      BY DEF ExclusionOrder
  <2> QED
      BY <2>1 DEF RoomyLimits
<1>5. DOMAIN rec.entries = met
    BY <1>4, ExclusionsAre
<1>6. met # {} /\ met \subseteq PolicyReasons
    BY <1>3, <1>5 DEF AllOf
<1>7. u \in PlacementRequest /\ u.candidates = r.candidates
    BY UnlimitedIs
<1>8. ValidateRequest(u) = "ok" /\ StaleCode(u) = "ok"
    BY <1>1, UnlimitedIsValid
<1> HIDE DEF u
<1>9. Candidates(u) = Candidates(r)
    BY <1>7 DEF Candidates
<1>10. ASSUME NEW p \in Candidates(r)
       PROVE  ExclusionReason(r, p) \in PolicyReasons /\ ExclusionReason(u, p) = ExclusionReason(r, p)
  <2>1. ExclusionReason(r, p) # "ok"
      BY <1>2 DEF LegalPaths
  <2>2. ExclusionReason(r, p) \in PolicyReasons
      BY <1>6, <2>1
  <2> QED
      BY <1>1, <2>2, UnlimitedReason DEF u
<1>11. again = met
    BY <1>9, <1>10
<1>12. LegalPaths(u) = {}
  <2>1. "ok" \notin PolicyReasons
      BY DEF PolicyReasons
  <2> QED
      BY <1>9, <1>10, <2>1 DEF LegalPaths
<1>13. DOMAIN Exclusions(u).entries = met
    BY <1>4, <1>7, <1>11, ExclusionsAre
<1> DEFINE count == Len(u.candidates.paths)
<1>14. count # 0
  <2>1. PICK p \in Candidates(r) : TRUE
      BY <1>6
  <2>2. r.candidates.paths \in Seq(CandidatePath)
      BY RequestFields
  <2>3. \E i \in DOMAIN r.candidates.paths : TRUE
      BY <2>1 DEF Candidates, ToSet
  <2> QED
      BY <1>7, <2>2, <2>3
<1>15. StaleCount(Exclusions(u)) = 0
  <2>1. "path_authority_stale" \notin PolicyReasons
      BY DEF PolicyReasons
  <2> QED
      BY <1>6, <1>13, <2>1 DEF StaleCount
<1>16. ~AllOf(Exclusions(u), StalenessReasons) /\ AllOf(Exclusions(u), PolicyReasons)
  <2>1. PolicyReasons \cap StalenessReasons = {}
      BY DEF PolicyReasons, StalenessReasons
  <2> HIDE DEF met
  <2> QED
      BY <1>6, <1>13, <2>1 DEF AllOf
<1>17. Classify(u, Exclusions(u))[2] = "policy_rejected"
    BY <1>14, <1>15, <1>16, ClassifyIs
<1>18. Place(u) = PlaceCurrent(u)
    BY <1>7, <1>8, PlaceIs
<1> QED
    BY <1>7, <1>8, <1>12, <1>17, <1>18, PlaceCurrentIs DEF u

\* What capacity stopped is not stopped by it when there is enough.
LEMMA CapacityIsToBlame ==
    ASSUME NEW r \in PlacementRequest, RoomyLimits, Place(r).outcome = "insufficient_capacity"
    PROVE  Place(Unlimited(r)).outcome # "insufficient_capacity"
<1> DEFINE u == Unlimited(r)
<1>1. ASSUME NEW s \in PlacementRequest, Place(s).outcome = "insufficient_capacity"
      PROVE  /\ ValidateRequest(s) = "ok"
             /\ \E p \in Candidates(s) : ExclusionReason(s, p) \in CapacityReasons
  <2>1. Place(s) # Reject(s, ValidateRequest(s)) /\ Place(s) # Counted(s, StaleCode(s))
      BY <1>1, RejectIs, CountedIs DEF OutcomeForValidationCode
  <2>2. ValidateRequest(s) = "ok" /\ StaleCode(s) = "ok" /\ Place(s) = PlaceCurrent(s)
      BY <2>1, PlaceIs
  <2>3. Classify(s, Exclusions(s))[2] = "insufficient_capacity"
      BY <1>1, <2>2, PlaceCurrentIs
  <2>4. AllOf(Exclusions(s), CapacityReasons)
      BY <2>3, ClassifyIs
  <2> DEFINE met == {ExclusionReason(s, p) : p \in Candidates(s)} \ {"ok"}
  <2>5. DOMAIN Exclusions(s).entries \subseteq met
      BY ExclusionsAre
  <2>6. PICK reason : reason \in met /\ reason \in CapacityReasons
    <3> HIDE DEF met
    <3> QED
        BY <2>4, <2>5 DEF AllOf
  <2> QED
      BY <2>2, <2>6
<1>2. ValidateRequest(r) = "ok"
    BY <1>1
<1>3. u \in PlacementRequest /\ u.candidates = r.candidates
    BY UnlimitedIs
<1>4. Candidates(u) = Candidates(r)
    BY <1>3 DEF Candidates
<1>5. \A p \in Candidates(u) : ExclusionReason(u, p) \notin CapacityReasons
    BY <1>2, <1>4, UnlimitedReason
<1> HIDE DEF u
<1>6. Place(u).outcome # "insufficient_capacity"
    BY <1>1, <1>3, <1>5
<1> QED
    BY <1>6 DEF u

\* The same choice from the same facts and the same incumbent.
LEMMA SameChoice ==
    ASSUME NEW s, NEW r, SameLaw(s, r), s.incumbent = r.incumbent
    PROVE  /\ LegalPaths(s) = LegalPaths(r) /\ LegalEntries(s) = LegalEntries(r)
           /\ Diverse(s) = Diverse(r)
           /\ EligibleIncumbent(s) = EligibleIncumbent(r)
           /\ Chosen(s, Rank(LegalEntries(s))) = Chosen(r, Rank(LegalEntries(r)))
<1>1. Diverse(s) = Diverse(r) /\ LegalPaths(s) = LegalPaths(r)
    BY SameVerdicts
<1>2. EligibleIncumbent(s) = EligibleIncumbent(r)
    BY DEF EligibleIncumbent, Candidates, SameLaw, SamePolicy
<1>3. ASSUME NEW p PROVE BuildRankEntry(s, p) = BuildRankEntry(r, p)
  <2>1. StabilityKey(s, p) = StabilityKey(r, p)
      BY <1>2 DEF StabilityKey
  <2>2. \A kind : ObjectiveKey(s, p, kind) = ObjectiveKey(r, p, kind)
      BY <2>1, SameKeys
  <2>3. s.policy.objectives = r.policy.objectives
      BY DEF SameLaw, SamePolicy
  <2> QED
      BY <2>2, <2>3 DEF BuildRankEntry
<1>4. LegalEntries(s) = LegalEntries(r)
    BY <1>1, <1>3 DEF LegalEntries
<1> DEFINE ranked == Rank(LegalEntries(r))
<1>5. Chosen(s, ranked) = Chosen(r, ranked)
  <2> HIDE DEF ranked
  <2>1. IncumbentPositions(s, ranked) = IncumbentPositions(r, ranked)
      BY DEF IncumbentPositions
  <2>2. /\ s.policy.objectives = r.policy.objectives
        /\ s.policy.prefer_incumbent = r.policy.prefer_incumbent
        /\ s.policy.threshold_objective_index = r.policy.threshold_objective_index
        /\ s.policy.move_improvement_threshold = r.policy.move_improvement_threshold
      BY DEF SameLaw, SamePolicy
  <2>3. \A x, y : Improvement(s, x, y) = Improvement(r, x, y)
      BY <2>2 DEF Improvement
  <2>4. SuppressedAt(s, ranked) = SuppressedAt(r, ranked)
      BY <1>2, <2>1, <2>2, <2>3 DEF SuppressedAt
  <2> QED
      BY <2>4 DEF Chosen
<1> QED
    BY <1>1, <1>2, <1>4, <1>5

\* The request with another answer to the gate and to a move.
Answering(r, below, move) == [r EXCEPT !.policy.on_below = below, !.policy.on_move = move]

\* A request whose policy answers a gate or a move differently stays valid, and the
\* engine finds the same legal paths.
LEMMA OtherAnswer ==
    ASSUME NEW r \in PlacementRequest, ValidateRequest(r) = "ok", StaleCode(r) = "ok",
           NEW below \in GateActions, NEW move \in ChurnActions, move # "defer" \/ move = r.policy.on_move
    PROVE  LET s == Answering(r, below, move)
           IN /\ s \in PlacementRequest /\ ValidateRequest(s) = "ok" /\ StaleCode(s) = "ok"
              /\ SameLaw(s, r) /\ s.incumbent = r.incumbent
              /\ s.policy.on_below = below /\ s.policy.on_move = move
<1> DEFINE s == Answering(r, below, move)
           policy == [r.policy EXCEPT !.on_below = below, !.on_move = move]
<1>1. DOMAIN r = {"flow", "flow_generation", "candidates", "capacity", "qos", "policy", "evidence",
                  "incumbent", "occupied_failure_domains", "expected", "attempt"}
    BY DEF PlacementRequest
<1>2. s = [r EXCEPT !.policy = policy]
    BY <1>1 DEF Answering
<1> HIDE DEF s
<1>3. policy \in PlacementPolicy
  <2>1. r.policy \in PlacementPolicy
      BY RequestFields
  <2>2. below \in Anything /\ move \in Anything
      BY DEF Anything, Enumerators
  <2> QED
      BY <2>1, <2>2 DEF PlacementPolicy
<1>4. /\ policy.id = r.policy.id /\ policy.generation = r.policy.generation
      /\ policy.objectives = r.policy.objectives
      /\ policy.allowed_tiers = r.policy.allowed_tiers
      /\ policy.required_labels = r.policy.required_labels
      /\ policy.forbidden_labels = r.policy.forbidden_labels
      /\ policy.required_locality = r.policy.required_locality
      /\ policy.preferred_locality = r.policy.preferred_locality
      /\ policy.forbidden_localities = r.policy.forbidden_localities
      /\ policy.required_domain = r.policy.required_domain
      /\ policy.forbidden_domains = r.policy.forbidden_domains
      /\ policy.avoid_occupied_domains = r.policy.avoid_occupied_domains
      /\ policy.min_distinct_domains = r.policy.min_distinct_domains
      /\ policy.affinity_required = r.policy.affinity_required
      /\ policy.affinity_refs = r.policy.affinity_refs
      /\ policy.min_residual_headroom_bytes = r.policy.min_residual_headroom_bytes
      /\ policy.allow_degraded = r.policy.allow_degraded
      /\ policy.max_relaxation_steps = r.policy.max_relaxation_steps
      /\ policy.prefer_incumbent = r.policy.prefer_incumbent
      /\ policy.move_improvement_threshold = r.policy.move_improvement_threshold
      /\ policy.threshold_objective_index = r.policy.threshold_objective_index
      /\ policy.on_missing = r.policy.on_missing /\ policy.on_stale = r.policy.on_stale
      /\ policy.on_below = below /\ policy.on_move = move
  <2>1. r.policy \in PlacementPolicy
      BY RequestFields
  <2>2. DOMAIN r.policy =
          {"id", "generation", "objectives", "allowed_tiers", "required_labels", "forbidden_labels",
           "required_locality", "preferred_locality", "forbidden_localities", "required_domain",
           "forbidden_domains", "avoid_occupied_domains", "min_distinct_domains",
           "affinity_required", "affinity_refs", "min_residual_headroom_bytes", "on_below",
           "allow_degraded", "max_relaxation_steps", "on_move", "prefer_incumbent",
           "move_improvement_threshold", "threshold_objective_index", "on_missing", "on_stale"}
      BY <2>1 DEF PlacementPolicy
  <2> QED
      BY <2>2
<1> HIDE DEF policy
<1>5. s \in PlacementRequest
    BY <1>2, <1>3 DEF PlacementRequest
<1>6. /\ s.flow = r.flow /\ s.flow_generation = r.flow_generation /\ s.attempt = r.attempt
      /\ s.candidates = r.candidates /\ s.capacity = r.capacity /\ s.qos = r.qos
      /\ s.policy = policy /\ s.evidence = r.evidence /\ s.incumbent = r.incumbent
      /\ s.occupied_failure_domains = r.occupied_failure_domains /\ s.expected = r.expected
    BY <1>1, <1>2
<1>7. SamePolicy(s, r)
    BY <1>4, <1>6 DEF SamePolicy
<1>8. SameLaw(s, r)
    BY <1>6, <1>7 DEF SameLaw
<1>9. /\ ValidateEnumerations(r) = "ok" /\ ValidateGenerations(r) = "ok"
      /\ ValidateBounds(r) = "ok" /\ ValidateCandidates(r) = "ok"
      /\ ValidateCapacityAndEvidence(r) = "ok" /\ ValidatePolicy(r) = "ok"
    BY RequestOk
<1>10. ValidateEnumerations(s) = "ok"
    BY <1>4, <1>6, <1>9, EnumerationsOk
<1>11. ValidateGenerations(s) = "ok"
  <2>1. Generated(s) <=> Generated(r)
      BY <1>4, <1>6 DEF Generated
  <2>2. IncumbentStatus(s) = IncumbentStatus(r)
      BY <1>6 DEF IncumbentStatus
  <2> QED
      BY <1>9, <2>1, <2>2, GenerationsOk
<1>12. ValidateBounds(s) = "ok"
  <2>1. Bounded(s) <=> Bounded(r)
      BY <1>4, <1>6 DEF Bounded
  <2> QED
      BY <1>9, <2>1, BoundsOk
<1>13. ValidateCandidates(s) = "ok"
  <2>1. r.candidates.paths \in Seq(CandidatePath)
      BY RequestFields
  <2>2. s.candidates.paths \in Seq(CandidatePath) /\ s.candidates.paths = r.candidates.paths
      BY <1>6, <2>1
  <2>3. /\ \A i \in DOMAIN r.candidates.paths : ValidateCandidate(r.candidates.paths[i]) = "ok"
        /\ \A i, j \in DOMAIN r.candidates.paths :
              r.candidates.paths[i].id = r.candidates.paths[j].id => i = j
      BY <1>9, <2>1, CandidatesOk
  <2> QED
      BY <2>2, <2>3, CandidatesOk
<1>14. ValidateCapacityAndEvidence(s) = "ok"
  <2>1. ResidualAboveTotal(s) = ResidualAboveTotal(r) /\ UtilizationAboveOne(s) = UtilizationAboveOne(r)
      BY <1>6 DEF ResidualAboveTotal, UtilizationAboveOne
  <2> QED
      BY <1>6, <1>9, <2>1 DEF ValidateCapacityAndEvidence
<1>15. ValidatePolicy(s) = "ok"
  <2>1. Consistent(r)
      BY <1>9, PolicyOk
  <2>2. s.policy.on_move = "defer" => s.policy.prefer_incumbent
      BY <1>4, <1>6, <2>1 DEF Consistent
  <2>3. /\ s.policy.objectives = r.policy.objectives
        /\ s.policy.required_labels = r.policy.required_labels
        /\ s.policy.forbidden_labels = r.policy.forbidden_labels
        /\ s.policy.required_locality = r.policy.required_locality
        /\ s.policy.forbidden_localities = r.policy.forbidden_localities
        /\ s.policy.required_domain = r.policy.required_domain
        /\ s.policy.forbidden_domains = r.policy.forbidden_domains
        /\ s.policy.affinity_required = r.policy.affinity_required
        /\ s.policy.affinity_refs = r.policy.affinity_refs
        /\ s.policy.threshold_objective_index = r.policy.threshold_objective_index
        /\ s.policy.max_relaxation_steps = r.policy.max_relaxation_steps
        /\ s.policy.allow_degraded = r.policy.allow_degraded
        /\ s.policy.allowed_tiers = r.policy.allowed_tiers
        /\ s.policy.min_distinct_domains = r.policy.min_distinct_domains
        /\ s.qos = r.qos /\ s.candidates = r.candidates
      BY <1>4, <1>6
  <2>4. Consistent(s)
      BY <2>1, <2>2, <2>3 DEF Consistent
  <2> QED
      BY <2>4, PolicyOk
<1>16. StaleCode(s) = "ok"
    BY <1>4, <1>6 DEF StaleCode, StaleChecks
<1>17. ValidateRequest(s) = "ok"
    BY <1>10, <1>11, <1>12, <1>13, <1>14, <1>15, RequestOk
<1> QED
    BY <1>4, <1>5, <1>6, <1>8, <1>16, <1>17 DEF s

\* Only a valid and current request with a legal path is deferred: by the move first,
\* then by the gate.
LEMMA DeferralIs ==
    ASSUME NEW r \in PlacementRequest,
           Place(r).code \in {"policy_headroom_gate", "policy_move_suppressed"}
    PROVE  LET p == Chosen(r, Rank(LegalEntries(r))).path
           IN /\ ValidateRequest(r) = "ok" /\ StaleCode(r) = "ok"
              /\ LegalPaths(r) # {} /\ Diverse(r)
              /\ Place(r).code = "policy_move_suppressed" => MoveDeferred(r, p)
              /\ Place(r).code = "policy_headroom_gate" =>
                    ~MoveDeferred(r, p) /\ BelowGate(r, p) /\ r.policy.on_below = "defer"
<1> DEFINE p == Chosen(r, Rank(LegalEntries(r))).path
           d == PlaceCurrent(r)
<1>1. /\ ValidateRequest(r) = "ok" /\ StaleCode(r) = "ok" /\ Place(r) = d
  <2>1. ASSUME ValidateRequest(r) \in ValidationCodes, Place(r) = Reject(r, ValidateRequest(r))
        PROVE  FALSE
    <3>1. Place(r).code = ValidateRequest(r)
        BY <2>1, RejectIs
    <3> QED
        BY <2>1, <3>1 DEF ValidationCodes
  <2>2. ASSUME StaleCode(r) \in StaleCodes, Place(r) = Counted(r, StaleCode(r))
        PROVE  FALSE
    <3>1. Place(r).code = StaleCode(r)
        BY <2>2, CountedIs
    <3> QED
        BY <2>2, <3>1 DEF StaleCodes
  <2> QED
      BY <2>1, <2>2, PlaceIs
<1>2. LegalPaths(r) # {}
  <2>1. ASSUME LegalPaths(r) = {} PROVE FALSE
    <3>1. d.code = Classify(r, Exclusions(r))[3]
        BY <1>1, <2>1, PlaceCurrentIs
    <3> QED
        BY <1>1, <3>1, ClassifyIs
  <2> QED
      BY <2>1
<1>3. Diverse(r)
  <2>1. ~Diverse(r) => d.code = "failure_domain_diversity_unmet"
      BY <1>1, <1>2, PlaceCurrentIs
  <2> QED
      BY <1>1, <2>1
<1>4. /\ MoveDeferred(r, p) => d.code = "policy_move_suppressed"
      /\ ~MoveDeferred(r, p) /\ BelowGate(r, p) /\ r.policy.on_below = "defer" =>
            d.code = "policy_headroom_gate"
      /\ ~MoveDeferred(r, p) /\ ~(BelowGate(r, p) /\ r.policy.on_below = "defer") => d.code = "ok"
    BY <1>1, <1>2, <1>3, PlaceCurrentIs
<1> HIDE DEF d, p
<1> QED
    BY <1>1, <1>2, <1>3, <1>4 DEF p

\* Another answer to the gate or to the move leaves the chosen path.
LEMMA OtherAnswerIs ==
    ASSUME NEW r \in PlacementRequest, ValidateRequest(r) = "ok", StaleCode(r) = "ok",
           LegalPaths(r) # {}, Diverse(r),
           NEW below \in GateActions, NEW move \in ChurnActions, move # "defer" \/ move = r.policy.on_move
    PROVE  LET s == Answering(r, below, move)
               entry == Chosen(r, Rank(LegalEntries(r)))
               p == entry.path
               d == Place(s)
           IN /\ MoveDeferred(s, p) <=> Moving(r, p) /\ r.policy.prefer_incumbent /\ move = "defer"
              /\ ~MoveDeferred(s, p) /\ BelowGate(r, p) /\ below = "defer" =>
                    d.code = "policy_headroom_gate"
              /\ ~MoveDeferred(s, p) /\ ~(BelowGate(r, p) /\ below = "defer") =>
                    /\ d.intent = {Intent(s, p)}
                    /\ BelowGate(r, p) => d.outcome = "placed_degraded"
<1> DEFINE s == Answering(r, below, move)
           entry == Chosen(r, Rank(LegalEntries(r)))
           p == entry.path
           d == Place(s)
<1>1. /\ s \in PlacementRequest /\ ValidateRequest(s) = "ok" /\ StaleCode(s) = "ok"
      /\ SameLaw(s, r) /\ s.incumbent = r.incumbent
      /\ s.policy.on_below = below /\ s.policy.on_move = move
    BY OtherAnswer
<1> HIDE DEF s
<1>2. /\ LegalPaths(s) # {} /\ Diverse(s)
      /\ Chosen(s, Rank(LegalEntries(s))) = entry
    BY <1>1, SameChoice
<1>3. d = PlaceCurrent(s)
    BY <1>1, PlaceIs
<1> HIDE DEF entry, d
<1>4. /\ ~MoveDeferred(s, p) /\ BelowGate(s, p) /\ below = "defer" => d.code = "policy_headroom_gate"
      /\ ~MoveDeferred(s, p) /\ ~(BelowGate(s, p) /\ below = "defer") =>
            /\ d.intent = {Intent(s, p)}
            /\ d.outcome = IF PlacementFlags(s, entry) \cap DegradingFlags = {}
                           THEN "placed" ELSE "placed_degraded"
    BY <1>1, <1>2, <1>3, PlaceCurrentIs
<1>5. BelowGate(s, p) <=> BelowGate(r, p)
  <2>1. Residual(s, p.id) = Residual(r, p.id)
      BY <1>1, SamePrepared
  <2> QED
      BY <1>1, <2>1 DEF BelowGate, SameLaw, SamePolicy
<1>6. MoveDeferred(s, p) <=> Moving(r, p) /\ r.policy.prefer_incumbent /\ move = "defer"
    BY <1>1 DEF MoveDeferred, Moving, SameLaw, SamePolicy
<1>7. BelowGate(s, p) => PlacementFlags(s, entry) \cap DegradingFlags # {}
  <2>1. ASSUME BelowGate(s, p)
        PROVE  "headroom_below_comfort" \in PlacementFlags(s, entry) \cap DegradingFlags
      BY <2>1 DEF PlacementFlags, DegradingFlags
  <2> QED
      BY <2>1
<1> QED
    BY <1>4, <1>5, <1>6, <1>7 DEF s, entry, d

\* A deferral by the headroom gate ends when the policy places below the gate.
LEMMA GateIsToBlame ==
    ASSUME NEW r \in PlacementRequest, Place(r).code = "policy_headroom_gate"
    PROVE  Place([r EXCEPT !.policy.on_below = "place"]).outcome = "placed_degraded"
<1> DEFINE s == [r EXCEPT !.policy.on_below = "place"]
           p == Chosen(r, Rank(LegalEntries(r))).path
<1>1. /\ ValidateRequest(r) = "ok" /\ StaleCode(r) = "ok"
      /\ LegalPaths(r) # {} /\ Diverse(r)
      /\ ~MoveDeferred(r, p) /\ BelowGate(r, p)
    BY DeferralIs
<1>2. r.policy.on_move \in ChurnActions
    BY <1>1, RequestOk, EnumerationsOk
<1>3. "place" \in GateActions
    BY DEF GateActions
<1>4. s = Answering(r, "place", r.policy.on_move)
  <2>1. r.policy \in PlacementPolicy
      BY RequestFields
  <2>2. "on_move" \in DOMAIN r.policy /\ "policy" \in DOMAIN r
      BY <2>1 DEF PlacementPolicy, PlacementRequest
  <2> DEFINE a == [r.policy EXCEPT !.on_below = "place"]
             b == [r.policy EXCEPT !.on_below = "place", !.on_move = r.policy.on_move]
  <2>3. a = b
      BY <2>2
  <2>4. s = [r EXCEPT !.policy = a]
      OBVIOUS
  <2>5. Answering(r, "place", r.policy.on_move) = [r EXCEPT !.policy = b]
      BY <2>2 DEF Answering
  <2> HIDE DEF a, b, s
  <2> QED
      BY <2>3, <2>4, <2>5
<1> HIDE DEF s
<1>5. /\ MoveDeferred(s, p) <=> Moving(r, p) /\ r.policy.prefer_incumbent /\ r.policy.on_move = "defer"
      /\ ~MoveDeferred(s, p) /\ BelowGate(r, p) => Place(s).outcome = "placed_degraded"
    BY <1>1, <1>2, <1>3, <1>4, OtherAnswerIs
<1>6. Place(s).outcome = "placed_degraded"
    BY <1>1, <1>5 DEF MoveDeferred
<1> QED
    BY <1>6 DEF s

\* A deferral of a move ends when the policy lets the flow move: the flow moves, or
\* meets the gate.
LEMMA MoveIsToBlame ==
    ASSUME NEW r \in PlacementRequest, Place(r).code = "policy_move_suppressed"
    PROVE  LET free == Place([r EXCEPT !.policy.on_move = "allow_move"])
           IN \/ \E i \in free.intent : \A inc \in r.incumbent : i.path # inc.path
              \/ free.code = "policy_headroom_gate"
<1> DEFINE s == [r EXCEPT !.policy.on_move = "allow_move"]
           p == Chosen(r, Rank(LegalEntries(r))).path
<1>1. /\ ValidateRequest(r) = "ok" /\ StaleCode(r) = "ok"
      /\ LegalPaths(r) # {} /\ Diverse(r) /\ MoveDeferred(r, p)
    BY DeferralIs
<1>2. r.policy.on_below \in GateActions
    BY <1>1, RequestOk, EnumerationsOk
<1>3. "allow_move" \in ChurnActions /\ "allow_move" # "defer"
    BY DEF ChurnActions
<1>4. s = Answering(r, r.policy.on_below, "allow_move")
  <2>1. r.policy \in PlacementPolicy
      BY RequestFields
  <2>2. "on_below" \in DOMAIN r.policy /\ "policy" \in DOMAIN r
      BY <2>1 DEF PlacementPolicy, PlacementRequest
  <2> DEFINE a == [r.policy EXCEPT !.on_move = "allow_move"]
             b == [r.policy EXCEPT !.on_below = r.policy.on_below, !.on_move = "allow_move"]
  <2>3. a = b
      BY <2>2
  <2>4. s = [r EXCEPT !.policy = a]
      OBVIOUS
  <2>5. Answering(r, r.policy.on_below, "allow_move") = [r EXCEPT !.policy = b]
      BY <2>2 DEF Answering
  <2> HIDE DEF a, b, s
  <2> QED
      BY <2>3, <2>4, <2>5
<1> HIDE DEF s
<1>5. ~MoveDeferred(s, p)
    BY <1>1, <1>2, <1>3, <1>4, OtherAnswerIs
<1>6. Place(s).code = "policy_headroom_gate" \/ Place(s).intent = {Intent(s, p)}
    BY <1>1, <1>2, <1>3, <1>4, <1>5, OtherAnswerIs
<1>7. \A inc \in r.incumbent : p.id # inc.path
  <2>1. PICK inc \in r.incumbent : inc.path # p.id
      BY <1>1 DEF MoveDeferred, Moving
  <2>2. \A i, j \in r.incumbent : i = j
      BY RequestFields
  <2> QED
      BY <2>1, <2>2
<1>8. Intent(s, p).path = p.id
    BY DEF Intent
<1>9. \/ \E i \in Place(s).intent : \A inc \in r.incumbent : i.path # inc.path
      \/ Place(s).code = "policy_headroom_gate"
    BY <1>6, <1>7, <1>8
<1> QED
    BY <1>9 DEF s

\* The outcome of PlacementEngine::Place blames the right constraint: what policy
\* rejected no capacity helps, what capacity stopped unlimited capacity moves on,
\* and a deferral ends when what it names is lifted, or meets the other gate.
\* The limits must leave room for every reason, or the record of a full scan
\* (engine.cpp:428) would drop the reason that matters, and for the capacity of
\* every candidate; the defaults of model.hpp do.
THEOREM BlameIsRight == RoomyLimits /\ Spec => []BlameIsCounterfactual
<1>1. ASSUME RoomyLimits, FlowInv PROVE BlameIsCounterfactual
  <2> SUFFICES ASSUME NEW d \in decision
               PROVE  /\ d.outcome = "policy_rejected" =>
                            Place(Unlimited(request)).outcome = d.outcome
                      /\ d.outcome = "insufficient_capacity" =>
                            Place(Unlimited(request)).outcome # d.outcome
                      /\ d.code = "policy_headroom_gate" =>
                            Place([request EXCEPT !.policy.on_below = "place"]).outcome
                               = "placed_degraded"
                      /\ d.code = "policy_move_suppressed" =>
                            LET free == Place([request EXCEPT !.policy.on_move = "allow_move"])
                            IN \/ \E i \in free.intent :
                                     \A inc \in request.incumbent : i.path # inc.path
                               \/ free.code = "policy_headroom_gate"
      BY DEF BlameIsCounterfactual
  <2>1. request \in PlacementRequest /\ d = Place(request)
      BY <1>1 DEF FlowInv
  <2>2. d.outcome = "policy_rejected" => Place(Unlimited(request)).outcome = d.outcome
      BY <1>1, <2>1, PolicyIsToBlame
  <2>3. d.outcome = "insufficient_capacity" => Place(Unlimited(request)).outcome # d.outcome
      BY <1>1, <2>1, CapacityIsToBlame
  <2>4. d.code = "policy_headroom_gate" =>
           Place([request EXCEPT !.policy.on_below = "place"]).outcome = "placed_degraded"
      BY <2>1, GateIsToBlame
  <2>5. d.code = "policy_move_suppressed" =>
           LET free == Place([request EXCEPT !.policy.on_move = "allow_move"])
           IN \/ \E i \in free.intent : \A inc \in request.incumbent : i.path # inc.path
              \/ free.code = "policy_headroom_gate"
      BY <2>1, MoveIsToBlame
  <2> QED
      BY <2>2, <2>3, <2>4, <2>5
<1>2. RoomyLimits => RoomyLimits'
    BY DEF RoomyLimits
<1> QED
    BY <1>1, <1>2, FlowInvariant, PTL DEF Spec

-----------------------------------------------------------------------------
(* The order of a request's lists.                                          *)

\* Two lists of the same members.
SameList(a, b) == Len(a) = Len(b) /\ ToSet(a) = ToSet(b) /\ (a = <<>> <=> b = <<>>)

\* A list in the opposite order is one of the same members.
LEMMA ReverseIs ==
    ASSUME NEW T, NEW a \in Seq(T)
    PROVE  /\ Reverse(a) \in Seq(T) /\ SameList(Reverse(a), a)
           /\ DOMAIN Reverse(a) = DOMAIN a /\ Len(a) \in Nat /\ DOMAIN a = 1 .. Len(a)
           /\ \A i \in 1 .. Len(a) : /\ Reverse(a)[i] = a[Len(a) - i + 1]
                                     /\ Len(a) - i + 1 \in 1 .. Len(a)
<1> DEFINE L == Len(a)
           b == Reverse(a)
<1>1. L \in Nat /\ DOMAIN a = 1 .. L /\ \A i \in 1 .. L : a[i] \in T
    OBVIOUS
<1>2. DOMAIN b = 1 .. L /\ \A i \in 1 .. L : b[i] = a[L - i + 1]
    BY DEF Reverse
<1>3. b = [i \in 1 .. L |-> b[i]]
    BY DEF Reverse
<1> HIDE DEF b, L
<1>4. \A i \in 1 .. L : L - i + 1 \in 1 .. L /\ L - (L - i + 1) + 1 = i
    BY <1>1
<1>5. \A i \in 1 .. L : b[i] \in T
    BY <1>1, <1>2, <1>4
<1>6. b \in [1 .. L -> T]
    BY <1>3, <1>5
<1>7. b \in Seq(T) /\ Len(b) = L
    BY <1>1, <1>6
<1>8. ToSet(b) = ToSet(a)
    BY <1>1, <1>2, <1>4 DEF ToSet
<1>9. a = <<>> <=> b = <<>>
  <2>1. a = <<>> <=> L = 0
      BY DEF L
  <2>2. b = <<>> <=> L = 0
      BY <1>7
  <2> QED
      BY <2>1, <2>2
<1> QED
    BY <1>1, <1>2, <1>4, <1>7, <1>8, <1>9 DEF SameList, b, L

\* A path whose labels are turned around is the same path otherwise.
LEMMA TurnedIs ==
    ASSUME NEW p \in CandidatePath
    PROVE  LET q == TurnedPath(p)
           IN /\ q \in CandidatePath
              /\ q.id = p.id /\ q.authority = p.authority /\ q.tier = p.tier
              /\ q.locality = p.locality /\ q.locality_scope = p.locality_scope
              /\ q.failure_domain = p.failure_domain /\ q.cost_micro = p.cost_micro
              /\ q.latency_nanos = p.latency_nanos /\ q.hop_count = p.hop_count
              /\ q.reservations = p.reservations
              /\ q.labels = Reverse(p.labels) /\ SameList(q.labels, p.labels)
<1> DEFINE labels == Reverse(p.labels)
<1>1. p.labels \in Seq(Nat)
    BY DEF CandidatePath
<1>2. labels \in Seq(Nat) /\ SameList(labels, p.labels)
    BY <1>1, ReverseIs
<1> HIDE DEF labels
<1>3. [p EXCEPT !.labels = labels] \in CandidatePath
    BY <1>2 DEF CandidatePath
<1> DEFINE q == [p EXCEPT !.labels = labels]
<1>4. /\ q.id = p.id /\ q.authority = p.authority /\ q.tier = p.tier
      /\ q.locality = p.locality /\ q.locality_scope = p.locality_scope
      /\ q.failure_domain = p.failure_domain /\ q.cost_micro = p.cost_micro
      /\ q.latency_nanos = p.latency_nanos /\ q.hop_count = p.hop_count
      /\ q.reservations = p.reservations
      /\ q.labels = labels
    BY DEF CandidatePath
<1>5. q = TurnedPath(p)
    BY DEF TurnedPath, labels
<1> HIDE DEF q
<1> QED
    BY <1>2, <1>3, <1>4, <1>5 DEF q, labels

\* The lists of two policies have the same members; the rest is the same.
ShuffledPolicy(a, b) ==
    /\ a.id = b.id /\ a.generation = b.generation /\ a.objectives = b.objectives
    /\ SameList(a.allowed_tiers, b.allowed_tiers)
    /\ SameList(a.required_labels, b.required_labels)
    /\ SameList(a.forbidden_labels, b.forbidden_labels)
    /\ SameList(a.forbidden_localities, b.forbidden_localities)
    /\ SameList(a.forbidden_domains, b.forbidden_domains)
    /\ SameList(a.affinity_refs, b.affinity_refs)
    /\ a.required_locality = b.required_locality
    /\ a.preferred_locality = b.preferred_locality
    /\ a.required_domain = b.required_domain
    /\ a.avoid_occupied_domains = b.avoid_occupied_domains
    /\ a.min_distinct_domains = b.min_distinct_domains
    /\ a.affinity_required = b.affinity_required
    /\ a.min_residual_headroom_bytes = b.min_residual_headroom_bytes
    /\ a.on_below = b.on_below /\ a.allow_degraded = b.allow_degraded
    /\ a.max_relaxation_steps = b.max_relaxation_steps
    /\ a.on_move = b.on_move /\ a.prefer_incumbent = b.prefer_incumbent
    /\ a.move_improvement_threshold = b.move_improvement_threshold
    /\ a.threshold_objective_index = b.threshold_objective_index
    /\ a.on_missing = b.on_missing /\ a.on_stale = b.on_stale

\* The same for two requests, whose paths may also differ in the order of their labels.
Shuffled(s, r) ==
    /\ s.flow = r.flow /\ s.flow_generation = r.flow_generation /\ s.attempt = r.attempt
    /\ s.incumbent = r.incumbent /\ s.qos = r.qos /\ s.expected = r.expected
    /\ s.candidates.id = r.candidates.id /\ s.candidates.generation = r.candidates.generation
    /\ s.capacity.id = r.capacity.id /\ s.capacity.generation = r.capacity.generation
    /\ s.evidence.id = r.evidence.id /\ s.evidence.generation = r.evidence.generation
    /\ Len(s.candidates.paths) = Len(r.candidates.paths)
    /\ Candidates(s) = {TurnedPath(p) : p \in Candidates(r)}
    /\ SameList(s.capacity.entries, r.capacity.entries)
    /\ SameList(s.evidence.entries, r.evidence.entries)
    /\ SameList(s.occupied_failure_domains, r.occupied_failure_domains)
    /\ ShuffledPolicy(s.policy, r.policy)

\* The policy with its lists in the opposite order.
TurnedPolicy(p) ==
    [p EXCEPT !.allowed_tiers = Reverse(@), !.required_labels = Reverse(@),
              !.forbidden_labels = Reverse(@), !.affinity_refs = Reverse(@),
              !.forbidden_localities = Reverse(@), !.forbidden_domains = Reverse(@)]

\* It has the members of the policy it was made of.
LEMMA TurnedPolicyIs ==
    ASSUME NEW p \in PlacementPolicy
    PROVE  ShuffledPolicy(TurnedPolicy(p), p)
<1> DEFINE q == TurnedPolicy(p)
<1>1. DOMAIN p =
          {"id", "generation", "objectives", "allowed_tiers", "required_labels", "forbidden_labels",
           "required_locality", "preferred_locality", "forbidden_localities", "required_domain",
           "forbidden_domains", "avoid_occupied_domains", "min_distinct_domains",
           "affinity_required", "affinity_refs", "min_residual_headroom_bytes", "on_below",
           "allow_degraded", "max_relaxation_steps", "on_move", "prefer_incumbent",
           "move_improvement_threshold", "threshold_objective_index", "on_missing", "on_stale"}
    BY DEF PlacementPolicy
<1>2. /\ q.id = p.id /\ q.generation = p.generation /\ q.objectives = p.objectives
      /\ q.required_locality = p.required_locality
      /\ q.preferred_locality = p.preferred_locality
      /\ q.required_domain = p.required_domain
      /\ q.avoid_occupied_domains = p.avoid_occupied_domains
      /\ q.min_distinct_domains = p.min_distinct_domains
      /\ q.affinity_required = p.affinity_required
      /\ q.min_residual_headroom_bytes = p.min_residual_headroom_bytes
      /\ q.on_below = p.on_below /\ q.allow_degraded = p.allow_degraded
      /\ q.max_relaxation_steps = p.max_relaxation_steps
      /\ q.on_move = p.on_move /\ q.prefer_incumbent = p.prefer_incumbent
      /\ q.move_improvement_threshold = p.move_improvement_threshold
      /\ q.threshold_objective_index = p.threshold_objective_index
      /\ q.on_missing = p.on_missing /\ q.on_stale = p.on_stale
    BY <1>1 DEF TurnedPolicy
<1>3. /\ q.allowed_tiers = Reverse(p.allowed_tiers)
      /\ q.required_labels = Reverse(p.required_labels)
      /\ q.forbidden_labels = Reverse(p.forbidden_labels)
      /\ q.affinity_refs = Reverse(p.affinity_refs)
      /\ q.forbidden_localities = Reverse(p.forbidden_localities)
      /\ q.forbidden_domains = Reverse(p.forbidden_domains)
    BY <1>1 DEF TurnedPolicy
<1>4. /\ p.allowed_tiers \in Seq(Nat) /\ p.required_labels \in Seq(Nat)
      /\ p.forbidden_labels \in Seq(Nat) /\ p.affinity_refs \in Seq(ReservationRef)
      /\ p.forbidden_localities \in Seq(Nat) /\ p.forbidden_domains \in Seq(Nat)
    BY DEF PlacementPolicy
<1> HIDE DEF q
<1>5. /\ SameList(q.allowed_tiers, p.allowed_tiers)
      /\ SameList(q.required_labels, p.required_labels)
      /\ SameList(q.forbidden_labels, p.forbidden_labels)
      /\ SameList(q.forbidden_localities, p.forbidden_localities)
      /\ SameList(q.forbidden_domains, p.forbidden_domains)
      /\ SameList(q.affinity_refs, p.affinity_refs)
    BY <1>3, <1>4, ReverseIs
<1>6. ShuffledPolicy(q, p)
    BY <1>2, <1>5 DEF ShuffledPolicy
<1> QED
    BY <1>6 DEF q

\* The candidates in the opposite order, with their labels.
TurnedPaths(paths) == [i \in DOMAIN paths |-> TurnedPath(Reverse(paths)[i])]

\* The parts of the reordered request.
LEMMA ReorderedParts ==
    ASSUME NEW r \in PlacementRequest
    PROVE  LET s == Reordered(r)
           IN /\ s.flow = r.flow /\ s.flow_generation = r.flow_generation
              /\ s.attempt = r.attempt /\ s.incumbent = r.incumbent /\ s.qos = r.qos
              /\ s.expected = r.expected
              /\ s.candidates = [r.candidates EXCEPT !.paths = TurnedPaths(r.candidates.paths)]
              /\ s.capacity = [r.capacity EXCEPT !.entries = Reverse(r.capacity.entries)]
              /\ s.evidence = [r.evidence EXCEPT !.entries = Reverse(r.evidence.entries)]
              /\ s.occupied_failure_domains = Reverse(r.occupied_failure_domains)
              /\ s.policy = TurnedPolicy(r.policy)
<1> DEFINE s == Reordered(r)
<1>1. DOMAIN r = {"flow", "flow_generation", "candidates", "capacity", "qos", "policy", "evidence",
                  "incumbent", "occupied_failure_domains", "expected", "attempt"}
    BY DEF PlacementRequest
<1>2. /\ s.flow = r.flow /\ s.flow_generation = r.flow_generation
      /\ s.attempt = r.attempt /\ s.incumbent = r.incumbent /\ s.qos = r.qos
      /\ s.expected = r.expected
    BY <1>1 DEF Reordered
<1>3. s.capacity = [r.capacity EXCEPT !.entries = Reverse(r.capacity.entries)]
    BY <1>1 DEF Reordered
<1>4. s.evidence = [r.evidence EXCEPT !.entries = Reverse(r.evidence.entries)]
    BY <1>1 DEF Reordered
<1>5. s.occupied_failure_domains = Reverse(r.occupied_failure_domains)
    BY <1>1 DEF Reordered
<1>6. s.candidates = [r.candidates EXCEPT !.paths = TurnedPaths(r.candidates.paths)]
    BY <1>1 DEF Reordered, TurnedPaths
<1>7. s.policy = TurnedPolicy(r.policy)
    BY <1>1 DEF Reordered, TurnedPolicy
<1> QED
    BY <1>2, <1>3, <1>4, <1>5, <1>6, <1>7

\* The turned candidates, one by one.
LEMMA TurnedPathsAre ==
    ASSUME NEW paths \in Seq(CandidatePath)
    PROVE  /\ TurnedPaths(paths) \in Seq(CandidatePath)
           /\ Len(TurnedPaths(paths)) = Len(paths)
           /\ DOMAIN TurnedPaths(paths) = DOMAIN paths
           /\ \A i \in DOMAIN paths : /\ Len(paths) - i + 1 \in DOMAIN paths
                                      /\ TurnedPaths(paths)[i] = TurnedPath(paths[Len(paths) - i + 1])
           /\ ToSet(TurnedPaths(paths)) = {TurnedPath(p) : p \in ToSet(paths)}
<1> DEFINE L == Len(paths)
           t == TurnedPaths(paths)
<1>1. L \in Nat /\ DOMAIN paths = 1 .. L /\ \A i \in 1 .. L : paths[i] \in CandidatePath
    OBVIOUS
<1>2. \A i \in 1 .. L : L - i + 1 \in 1 .. L /\ Reverse(paths)[i] = paths[L - i + 1]
    BY <1>1, ReverseIs
<1>3. DOMAIN t = 1 .. L /\ \A i \in 1 .. L : t[i] = TurnedPath(paths[L - i + 1])
    BY <1>1, <1>2 DEF TurnedPaths
<1>4. t = [i \in 1 .. L |-> t[i]]
    BY <1>1 DEF TurnedPaths
<1> HIDE DEF t, L
<1>5. \A i \in 1 .. L : t[i] \in CandidatePath
    BY <1>1, <1>2, <1>3, TurnedIs
<1>6. t \in [1 .. L -> CandidatePath]
    BY <1>4, <1>5
<1>7. t \in Seq(CandidatePath) /\ Len(t) = L
    BY <1>1, <1>6
<1>8. \A i \in 1 .. L : L - i + 1 \in 1 .. L /\ L - (L - i + 1) + 1 = i
    BY <1>1
<1>9. ToSet(t) = {TurnedPath(p) : p \in ToSet(paths)}
  <2>1. ToSet(t) = {t[i] : i \in 1 .. L} /\ ToSet(paths) = {paths[i] : i \in 1 .. L}
      BY <1>1, <1>3 DEF ToSet
  <2>2. ASSUME NEW i \in 1 .. L PROVE t[i] \in {TurnedPath(p) : p \in ToSet(paths)}
      BY <1>3, <1>8, <2>1
  <2>3. ASSUME NEW i \in 1 .. L PROVE TurnedPath(paths[i]) \in ToSet(t)
      BY <1>3, <1>8, <2>1
  <2> QED
      BY <2>1, <2>2, <2>3
<1> QED
    BY <1>1, <1>3, <1>7, <1>8, <1>9 DEF t, L

\* The reordered request holds the same facts.
LEMMA ReorderedIs ==
    ASSUME NEW r \in PlacementRequest
    PROVE  LET s == Reordered(r)
           IN /\ Shuffled(s, r)
              /\ s.candidates.paths = TurnedPaths(r.candidates.paths)
              /\ s.capacity.entries = Reverse(r.capacity.entries)
              /\ s.evidence.entries = Reverse(r.evidence.entries)
<1> DEFINE s == Reordered(r)
<1>1. /\ s.flow = r.flow /\ s.flow_generation = r.flow_generation
      /\ s.attempt = r.attempt /\ s.incumbent = r.incumbent /\ s.qos = r.qos
      /\ s.expected = r.expected
      /\ s.candidates = [r.candidates EXCEPT !.paths = TurnedPaths(r.candidates.paths)]
      /\ s.capacity = [r.capacity EXCEPT !.entries = Reverse(r.capacity.entries)]
      /\ s.evidence = [r.evidence EXCEPT !.entries = Reverse(r.evidence.entries)]
      /\ s.occupied_failure_domains = Reverse(r.occupied_failure_domains)
      /\ s.policy = TurnedPolicy(r.policy)
    BY ReorderedParts
<1> HIDE DEF s
<1>2. /\ r.candidates \in CandidateSet /\ r.capacity \in CapacitySnapshot
      /\ r.evidence \in EvidenceBundle /\ r.policy \in PlacementPolicy
      /\ r.occupied_failure_domains \in Seq(Nat)
    BY RequestFields DEF PlacementRequest
<1>3. /\ s.candidates.id = r.candidates.id /\ s.candidates.generation = r.candidates.generation
      /\ s.candidates.paths = TurnedPaths(r.candidates.paths)
    BY <1>1, <1>2 DEF CandidateSet
<1>4. /\ s.capacity.id = r.capacity.id /\ s.capacity.generation = r.capacity.generation
      /\ s.capacity.entries = Reverse(r.capacity.entries)
    BY <1>1, <1>2 DEF CapacitySnapshot
<1>5. /\ s.evidence.id = r.evidence.id /\ s.evidence.generation = r.evidence.generation
      /\ s.evidence.entries = Reverse(r.evidence.entries)
    BY <1>1, <1>2 DEF EvidenceBundle
<1>6. /\ r.candidates.paths \in Seq(CandidatePath) /\ r.capacity.entries \in Seq(PathCapacity)
      /\ r.evidence.entries \in Seq(EvidenceEntry)
    BY RequestFields
<1>7. /\ Len(s.candidates.paths) = Len(r.candidates.paths)
      /\ Candidates(s) = {TurnedPath(p) : p \in Candidates(r)}
    BY <1>3, <1>6, TurnedPathsAre DEF Candidates
<1>8. /\ SameList(s.capacity.entries, r.capacity.entries)
      /\ SameList(s.evidence.entries, r.evidence.entries)
      /\ SameList(s.occupied_failure_domains, r.occupied_failure_domains)
    BY <1>1, <1>2, <1>4, <1>5, <1>6, ReverseIs
<1>9. ShuffledPolicy(s.policy, r.policy)
    BY <1>1, <1>2, TurnedPolicyIs
<1>10. Shuffled(s, r)
    BY <1>1, <1>3, <1>4, <1>5, <1>7, <1>8, <1>9 DEF Shuffled
<1> QED
    BY <1>3, <1>4, <1>5, <1>10 DEF s

\* Entries that pass in one order pass in the opposite one.
LEMMA ReversedEntriesPass ==
    ASSUME NEW T, NEW entries \in Seq(T), \A i \in DOMAIN entries : entries[i].path \in Nat,
           NEW bad, ValidateEntries(entries, bad) = "ok"
    PROVE  ValidateEntries(Reverse(entries), bad) = "ok"
<1> DEFINE t == Reverse(entries)
           L == Len(entries)
<1>1. /\ t \in Seq(T) /\ DOMAIN t = 1 .. L /\ L \in Nat /\ DOMAIN entries = 1 .. L
      /\ \A i \in 1 .. L : t[i] = entries[L - i + 1] /\ L - i + 1 \in 1 .. L
    BY ReverseIs
<1>2. /\ \A i \in 1 .. L : Valid(entries[i].path) /\ entries[i] \notin bad
      /\ \A i, j \in 1 .. L : entries[i].path = entries[j].path => i = j
    BY <1>1, EntriesOk
<1> HIDE DEF t, L
<1>3. /\ \A i \in 1 .. L : t[i].path \in Nat /\ Valid(t[i].path) /\ t[i] \notin bad
      /\ \A i, j \in 1 .. L : t[i].path = t[j].path => i = j
  <2>1. \A i \in 1 .. L : t[i].path \in Nat /\ Valid(t[i].path) /\ t[i] \notin bad
      BY <1>1, <1>2
  <2>2. ASSUME NEW i \in 1 .. L, NEW j \in 1 .. L, t[i].path = t[j].path PROVE i = j
    <3>1. L - i + 1 = L - j + 1
        BY <1>1, <1>2, <2>2
    <3> QED
        BY <1>1, <3>1
  <2> QED
      BY <2>1, <2>2
<1>4. ValidateEntries(t, bad) = "ok"
    BY <1>1, <1>3, EntriesOk
<1> QED
    BY <1>4 DEF t

\* A valid request stays valid.
LEMMA ReorderedIsValid ==
    ASSUME NEW r \in PlacementRequest, ValidateRequest(r) = "ok"
    PROVE  ValidateRequest(Reordered(r)) = "ok"
<1> DEFINE s == Reordered(r)
<1>1. /\ Shuffled(s, r)
      /\ s.candidates.paths = TurnedPaths(r.candidates.paths)
      /\ s.capacity.entries = Reverse(r.capacity.entries)
      /\ s.evidence.entries = Reverse(r.evidence.entries)
    BY ReorderedIs
<1> HIDE DEF s
<1>2. /\ ValidateEnumerations(r) = "ok" /\ ValidateGenerations(r) = "ok"
      /\ ValidateBounds(r) = "ok" /\ ValidateCandidates(r) = "ok"
      /\ ValidateCapacityAndEvidence(r) = "ok" /\ ValidatePolicy(r) = "ok"
    BY RequestOk
<1>3. ToSet(s.candidates.paths) = {TurnedPath(p) : p \in ToSet(r.candidates.paths)}
    BY <1>1 DEF Shuffled, Candidates
<1>4. \A p \in ToSet(r.candidates.paths) : p \in CandidatePath
    BY CandidateFields DEF Candidates
<1>5. ValidateEnumerations(s) = "ok"
  <2>1. /\ s.qos = r.qos /\ s.policy.max_relaxation_steps = r.policy.max_relaxation_steps
        /\ s.policy.on_below = r.policy.on_below /\ s.policy.on_move = r.policy.on_move
        /\ s.policy.on_missing = r.policy.on_missing /\ s.policy.on_stale = r.policy.on_stale
        /\ s.policy.objectives = r.policy.objectives
        /\ ToSet(s.policy.allowed_tiers) = ToSet(r.policy.allowed_tiers)
      BY <1>1 DEF Shuffled, ShuffledPolicy, SameList
  <2>2. \A p \in ToSet(r.candidates.paths) :
            p.tier \in Tiers /\ p.locality_scope \in LocalityScopes
      BY <1>2, EnumerationsOk
  <2>3. \A p \in ToSet(s.candidates.paths) :
            p.tier \in Tiers /\ p.locality_scope \in LocalityScopes
      BY <1>3, <1>4, <2>2, TurnedIs
  <2> QED
      BY <1>2, <2>1, <2>3, EnumerationsOk
<1>6. ValidateGenerations(s) = "ok"
  <2>1. Generated(s) <=> Generated(r)
      BY <1>1 DEF Generated, Shuffled, ShuffledPolicy
  <2>2. IncumbentStatus(s) = IncumbentStatus(r)
      BY <1>1 DEF IncumbentStatus, Shuffled
  <2> QED
      BY <1>2, <2>1, <2>2, GenerationsOk
<1>7. ValidateBounds(s) = "ok"
  <2>1. Bounded(s) <=> Bounded(r)
      BY <1>1 DEF Bounded, Shuffled, ShuffledPolicy, SameList
  <2> QED
      BY <1>2, <2>1, BoundsOk
<1>8. ValidateCandidates(s) = "ok"
  <2> DEFINE paths == r.candidates.paths
             t == s.candidates.paths
             L == Len(paths)
  <2>1. paths \in Seq(CandidatePath)
      BY RequestFields
  <2>2. /\ t \in Seq(CandidatePath) /\ DOMAIN t = DOMAIN paths /\ L \in Nat
        /\ DOMAIN paths = 1 .. L
        /\ \A i \in DOMAIN paths : L - i + 1 \in DOMAIN paths /\ t[i] = TurnedPath(paths[L - i + 1])
      BY <1>1, <2>1, TurnedPathsAre
  <2>3. /\ \A i \in DOMAIN paths : paths[i] \in CandidatePath /\ ValidateCandidate(paths[i]) = "ok"
        /\ \A i, j \in DOMAIN paths : paths[i].id = paths[j].id => i = j
      BY <1>2, <2>1, CandidatesOk
  <2> HIDE DEF paths, t, L
  <2>4. ASSUME NEW p \in CandidatePath, ValidateCandidate(p) = "ok"
        PROVE  ValidateCandidate(TurnedPath(p)) = "ok"
    <3> DEFINE q == TurnedPath(p)
    <3>1. /\ q.id = p.id /\ q.authority = p.authority /\ q.reservations = p.reservations
          /\ SameList(q.labels, p.labels)
        BY TurnedIs
    <3> HIDE DEF q
    <3>2. Len(q.labels) = Len(p.labels) /\ HasDuplicates(q.labels) = HasDuplicates(p.labels)
        BY <3>1 DEF SameList, HasDuplicates
    <3>3. ValidateCandidate(q) = "ok"
        BY <2>4, <3>1, <3>2, CandidateOk
    <3> QED
        BY <3>3 DEF q
  <2>5. \A i \in DOMAIN t : ValidateCandidate(t[i]) = "ok" /\ t[i].id = paths[L - i + 1].id
      BY <2>2, <2>3, <2>4, TurnedIs
  <2>6. ASSUME NEW i \in DOMAIN t, NEW j \in DOMAIN t, t[i].id = t[j].id PROVE i = j
    <3>1. L - i + 1 \in DOMAIN paths /\ L - j + 1 \in DOMAIN paths
        BY <2>2
    <3>2. paths[L - i + 1].id = paths[L - j + 1].id
        BY <2>5, <2>6
    <3>3. L - i + 1 = L - j + 1
        BY <2>3, <3>1, <3>2
    <3>4. L \in Int /\ i \in Int /\ j \in Int
        BY <2>2
    <3> QED
        BY <3>3, <3>4
  <2>7. s.candidates.paths \in Seq(CandidatePath)
      BY <2>2 DEF t
  <2> QED
      BY <2>5, <2>6, <2>7, CandidatesOk DEF t
<1>9. ValidateCapacityAndEvidence(s) = "ok"
  <2>1. /\ ValidateEntries(r.capacity.entries, ResidualAboveTotal(r)) = "ok"
        /\ ValidateEntries(r.evidence.entries, UtilizationAboveOne(r)) = "ok"
      BY <1>2 DEF ValidateCapacityAndEvidence
  <2>2. ResidualAboveTotal(s) = ResidualAboveTotal(r)
      BY <1>1 DEF ResidualAboveTotal, Shuffled, SameList
  <2>3. UtilizationAboveOne(s) = UtilizationAboveOne(r)
      BY <1>1 DEF UtilizationAboveOne, Shuffled, SameList
  <2>4. /\ r.capacity.entries \in Seq(PathCapacity)
        /\ r.evidence.entries \in Seq(EvidenceEntry)
      BY RequestFields
  <2>5. /\ \A e \in PathCapacity : e.path \in Nat
        /\ \A e \in EvidenceEntry : e.path \in Nat
      BY DEF PathCapacity, EvidenceEntry
  <2>6. /\ \A i \in DOMAIN r.capacity.entries : r.capacity.entries[i] \in PathCapacity
        /\ \A i \in DOMAIN r.evidence.entries : r.evidence.entries[i] \in EvidenceEntry
      BY <2>4
  <2>7. ValidateEntries(s.capacity.entries, ResidualAboveTotal(s)) = "ok"
    <3>1. \A i \in DOMAIN r.capacity.entries : r.capacity.entries[i].path \in Nat
        BY <2>5, <2>6
    <3> QED
        BY <1>1, <2>1, <2>2, <2>4, <3>1, ReversedEntriesPass
  <2>8. ValidateEntries(s.evidence.entries, UtilizationAboveOne(s)) = "ok"
    <3>1. \A i \in DOMAIN r.evidence.entries : r.evidence.entries[i].path \in Nat
        BY <2>5, <2>6
    <3> QED
        BY <1>1, <2>1, <2>3, <2>4, <3>1, ReversedEntriesPass
  <2> QED
      BY <2>7, <2>8 DEF ValidateCapacityAndEvidence
<1>10. ValidatePolicy(s) = "ok"
  <2>1. DomainsOf(ToSet(s.candidates.paths)) = DomainsOf(ToSet(r.candidates.paths))
    <3>1. \A p \in ToSet(r.candidates.paths) : TurnedPath(p).failure_domain = p.failure_domain
        BY <1>4, TurnedIs
    <3> QED
        BY <1>3, <3>1 DEF DomainsOf
  <2>2. /\ SameList(s.policy.allowed_tiers, r.policy.allowed_tiers)
        /\ SameList(s.policy.required_labels, r.policy.required_labels)
        /\ SameList(s.policy.forbidden_labels, r.policy.forbidden_labels)
        /\ SameList(s.policy.forbidden_localities, r.policy.forbidden_localities)
        /\ SameList(s.policy.forbidden_domains, r.policy.forbidden_domains)
        /\ SameList(s.policy.affinity_refs, r.policy.affinity_refs)
      BY <1>1 DEF Shuffled, ShuffledPolicy
  <2>3. \A a, b : SameList(a, b) => HasDuplicates(a) = HasDuplicates(b) /\ ToSet(a) = ToSet(b)
      BY DEF SameList, HasDuplicates
  <2>4. s.policy.affinity_refs = <<>> <=> r.policy.affinity_refs = <<>>
      BY <2>2 DEF SameList
  <2>5. Consistent(s) <=> Consistent(r)
      BY <1>1, <2>1, <2>2, <2>3, <2>4 DEF Consistent, Shuffled, ShuffledPolicy
  <2> QED
      BY <1>2, <2>5, PolicyOk
<1> QED
    BY <1>5, <1>6, <1>7, <1>8, <1>9, <1>10, RequestOk DEF s

\* What the engine reads of such requests, and of a path and its turned twin.
LEMMA ShuffledPrepared ==
    ASSUME NEW s, NEW r, Shuffled(s, r), NEW p \in CandidatePath
    PROVE  LET q == TurnedPath(p)
           IN /\ \A id : CapacityOf(s, id) = CapacityOf(r, id) /\ Residual(s, id) = Residual(r, id)
              /\ RequiredBase(s) = RequiredBase(r) /\ RequiredHeadroom(s) = RequiredHeadroom(r)
              /\ EvidenceTrusted(s) = EvidenceTrusted(r)
              /\ EvidencePresent(s) = EvidencePresent(r)
              /\ UsesCongestion(s) = UsesCongestion(r)
              /\ \A id : EvidenceOf(s, id) = EvidenceOf(r, id)
              /\ EvidenceKnown(s, q) = EvidenceKnown(r, p)
              /\ EvidenceStale(s) = EvidenceStale(r)
              /\ EvidenceMissing(s, q) = EvidenceMissing(r, p)
              /\ Affine(s, q) = Affine(r, p)
              /\ RelaxMultiplier(s, q) = RelaxMultiplier(r, p)
              /\ RelaxReservation(s, q) = RelaxReservation(r, p)
<1> DEFINE q == TurnedPath(p)
<1>1. q.id = p.id /\ q.reservations = p.reservations
    BY TurnedIs
<1> HIDE DEF q
<1>2. /\ s.qos = r.qos /\ s.expected = r.expected
      /\ s.evidence.generation = r.evidence.generation
      /\ ToSet(s.capacity.entries) = ToSet(r.capacity.entries)
      /\ ToSet(s.evidence.entries) = ToSet(r.evidence.entries)
      /\ s.policy.objectives = r.policy.objectives
      /\ ToSet(s.policy.affinity_refs) = ToSet(r.policy.affinity_refs)
      /\ s.policy.allow_degraded = r.policy.allow_degraded
      /\ s.policy.max_relaxation_steps = r.policy.max_relaxation_steps
    BY DEF Shuffled, ShuffledPolicy, SameList
<1>3. ASSUME NEW id
      PROVE  CapacityOf(s, id) = CapacityOf(r, id) /\ Residual(s, id) = Residual(r, id)
  <2>1. CapacityOf(s, id) = CapacityOf(r, id)
      BY <1>2 DEF CapacityOf
  <2> QED
      BY <2>1 DEF Residual
<1>4. RequiredBase(s) = RequiredBase(r) /\ Multiplier(s) = Multiplier(r)
    BY <1>2 DEF RequiredBase, Multiplier
<1>5. RequiredHeadroom(s) = RequiredHeadroom(r)
    BY <1>4 DEF RequiredHeadroom, HeadroomOverflows
<1>6. EvidencePresent(s) = EvidencePresent(r) /\ EvidenceTrusted(s) = EvidenceTrusted(r)
    BY <1>2 DEF EvidencePresent, EvidenceTrusted
<1>7. UsesCongestion(s) = UsesCongestion(r)
    BY <1>2 DEF UsesCongestion
<1>8. ASSUME NEW id PROVE EvidenceOf(s, id) = EvidenceOf(r, id)
    BY <1>2 DEF EvidenceOf
<1>9. EvidenceKnown(s, q) = EvidenceKnown(r, p)
    BY <1>1, <1>6, <1>7, <1>8 DEF EvidenceKnown
<1>10. EvidenceStale(s) = EvidenceStale(r) /\ EvidenceMissing(s, q) = EvidenceMissing(r, p)
    BY <1>1, <1>6, <1>7, <1>8 DEF EvidenceStale, EvidenceMissing
<1>11. Affine(s, q) = Affine(r, p)
    BY <1>1, <1>2 DEF Affine
<1>12. RelaxMultiplier(s, q) = RelaxMultiplier(r, p)
    BY <1>1, <1>2, <1>3, <1>5 DEF RelaxMultiplier
<1>13. RelaxReservation(s, q) = RelaxReservation(r, p)
    BY <1>1, <1>2 DEF RelaxReservation
<1> QED
    BY <1>3, <1>4, <1>5, <1>6, <1>7, <1>8, <1>9, <1>10, <1>11, <1>12, <1>13 DEF q

\* The same verdict on a path and on its twin.
LEMMA ShuffledVerdict ==
    ASSUME NEW s, NEW r, Shuffled(s, r), NEW p \in CandidatePath
    PROVE  /\ ExclusionReason(s, TurnedPath(p)) = ExclusionReason(r, p)
           /\ Verdict(s, TurnedPath(p)) = Verdict(r, p)
<1> DEFINE q == TurnedPath(p)
<1>1. /\ q.id = p.id /\ q.authority = p.authority /\ q.tier = p.tier
      /\ q.locality = p.locality /\ q.failure_domain = p.failure_domain
      /\ q.latency_nanos = p.latency_nanos /\ q.reservations = p.reservations
      /\ ToSet(q.labels) = ToSet(p.labels)
    BY TurnedIs DEF SameList
<1>2. /\ \A id : CapacityOf(s, id) = CapacityOf(r, id) /\ Residual(s, id) = Residual(r, id)
      /\ RequiredBase(s) = RequiredBase(r) /\ RequiredHeadroom(s) = RequiredHeadroom(r)
      /\ EvidenceStale(s) = EvidenceStale(r)
      /\ EvidenceMissing(s, q) = EvidenceMissing(r, p)
      /\ Affine(s, q) = Affine(r, p)
      /\ RelaxMultiplier(s, q) = RelaxMultiplier(r, p)
      /\ RelaxReservation(s, q) = RelaxReservation(r, p)
    BY ShuffledPrepared
<1> HIDE DEF q
<1>3. /\ s.qos = r.qos /\ s.expected = r.expected
      /\ ToSet(s.occupied_failure_domains) = ToSet(r.occupied_failure_domains)
    BY DEF Shuffled, SameList
<1>4. /\ s.policy.allowed_tiers = <<>> <=> r.policy.allowed_tiers = <<>>
      /\ ToSet(s.policy.allowed_tiers) = ToSet(r.policy.allowed_tiers)
      /\ ToSet(s.policy.required_labels) = ToSet(r.policy.required_labels)
      /\ ToSet(s.policy.forbidden_labels) = ToSet(r.policy.forbidden_labels)
      /\ ToSet(s.policy.forbidden_localities) = ToSet(r.policy.forbidden_localities)
      /\ ToSet(s.policy.forbidden_domains) = ToSet(r.policy.forbidden_domains)
      /\ s.policy.required_locality = r.policy.required_locality
      /\ s.policy.required_domain = r.policy.required_domain
      /\ s.policy.avoid_occupied_domains = r.policy.avoid_occupied_domains
      /\ s.policy.affinity_required = r.policy.affinity_required
      /\ s.policy.on_missing = r.policy.on_missing /\ s.policy.on_stale = r.policy.on_stale
    BY DEF Shuffled, ShuffledPolicy, SameList
<1>5. ExclusionChecks(s, q) = ExclusionChecks(r, p)
    BY <1>1, <1>2, <1>3, <1>4 DEF ExclusionChecks
<1>6. ExclusionReason(s, q) = ExclusionReason(r, p)
    BY <1>5 DEF ExclusionReason
<1>7. ASSUME NEW reason PROVE Constraint(s, q, reason) = Constraint(r, p, reason)
    BY <1>1, <1>2, <1>3 DEF Constraint
<1>8. Verdict(s, q) = Verdict(r, p)
    BY <1>1, <1>6, <1>7 DEF Verdict
<1> QED
    BY <1>6, <1>8 DEF q

\* The record of the scan is the same.
LEMMA ReorderedRecord ==
    ASSUME NEW r \in PlacementRequest, ValidateRequest(r) = "ok", RoomyLimits
    PROVE  Exclusions(Reordered(r)) = Exclusions(r)
<1> DEFINE s == Reordered(r)
           paths == r.candidates.paths
           turned == s.candidates.paths
           L == Len(paths)
           v == Verdicts(r)
           w == Verdicts(s)
<1>1. Shuffled(s, r) /\ turned = TurnedPaths(paths)
    BY ReorderedIs
<1>2. paths \in Seq(CandidatePath)
    BY RequestFields
<1>3. /\ turned \in Seq(CandidatePath) /\ DOMAIN turned = 1 .. L /\ L \in Nat
      /\ DOMAIN paths = 1 .. L
      /\ \A i \in 1 .. L : L - i + 1 \in 1 .. L /\ turned[i] = TurnedPath(paths[L - i + 1])
    BY <1>1, <1>2, TurnedPathsAre
<1>4. ValidateCandidates(r) = "ok" /\ ValidateCandidates(s) = "ok"
    BY ReorderedIsValid, RequestOk
<1>5. \A i, j \in 1 .. L : paths[i].id = paths[j].id => i = j
    BY <1>2, <1>3, <1>4, CandidatesOk
<1>6. \A i, j \in 1 .. L : turned[i].id = turned[j].id => i = j
    BY <1>3, <1>4, CandidatesOk
<1>7. /\ \A i \in 1 .. L : paths[i] \in CandidatePath /\ turned[i] \in CandidatePath
      /\ \A p \in CandidatePath : p.id \in Nat
  <2>1. \A p \in CandidatePath : p.id \in Nat
      BY DEF CandidatePath
  <2> HIDE DEF paths, turned, L
  <2> QED
      BY <1>2, <1>3, <2>1
<1>8. /\ DOMAIN v = 1 .. L /\ \A i \in 1 .. L : v[i] = Verdict(r, paths[i])
      /\ DOMAIN w = 1 .. L /\ \A i \in 1 .. L : w[i] = Verdict(s, turned[i])
    BY <1>3 DEF Verdicts
<1> HIDE DEF s, paths, turned, L, v, w
<1>9. \A t, p : Verdict(t, p).path = p.id /\ Verdict(t, p).reason \in Reasons \cup {"ok"}
    BY ReasonIsAReason DEF Verdict
<1>10. Len(v) = L /\ Len(w) = L
    BY <1>3, <1>8
<1>11. Limits.max_exclusion_reasons >= 17
  <2>1. Len(ExclusionOrder) = 17
      BY DEF ExclusionOrder
  <2> QED
      BY <2>1 DEF RoomyLimits
<1>12. Recorded(v) = Summary({v[n] : n \in 1 .. L})
  <2>1. \A n \in 1 .. L : v[n].path = paths[n].id /\ v[n].reason \in Reasons \cup {"ok"}
      BY <1>8, <1>9
  <2>2. \A n \in 1 .. L : v[n].path \in Nat
      BY <1>7, <2>1
  <2>3. \A m, n \in 1 .. L : v[m].path = v[n].path => m = n
      BY <1>5, <2>1
  <2>4. /\ Len(v) \in Nat
        /\ \A n \in 1 .. Len(v) : v[n].path \in Nat /\ v[n].reason \in Reasons \cup {"ok"}
        /\ \A m, n \in 1 .. Len(v) : v[m].path = v[n].path => m = n
      BY <1>3, <1>10, <2>1, <2>2, <2>3
  <2>5. Recorded(v) = Summary({v[n] : n \in 1 .. Len(v)})
      BY <1>11, <2>4, RecordedIsSummary
  <2> QED
      BY <1>10, <2>5
<1>13. Recorded(w) = Summary({w[n] : n \in 1 .. L})
  <2>1. \A n \in 1 .. L : w[n].path = turned[n].id /\ w[n].reason \in Reasons \cup {"ok"}
      BY <1>8, <1>9
  <2>2. \A n \in 1 .. L : w[n].path \in Nat
      BY <1>7, <2>1
  <2>3. \A m, n \in 1 .. L : w[m].path = w[n].path => m = n
      BY <1>6, <2>1
  <2>4. /\ Len(w) \in Nat
        /\ \A n \in 1 .. Len(w) : w[n].path \in Nat /\ w[n].reason \in Reasons \cup {"ok"}
        /\ \A m, n \in 1 .. Len(w) : w[m].path = w[n].path => m = n
      BY <1>3, <1>10, <2>1, <2>2, <2>3
  <2>5. Recorded(w) = Summary({w[n] : n \in 1 .. Len(w)})
      BY <1>11, <2>4, RecordedIsSummary
  <2> QED
      BY <1>10, <2>5
<1>14. \A i \in 1 .. L : w[i] = v[L - i + 1]
    BY <1>1, <1>3, <1>7, <1>8, ShuffledVerdict
<1>15. {w[n] : n \in 1 .. L} = {v[n] : n \in 1 .. L}
  <2>1. \A i \in 1 .. L : L - i + 1 \in 1 .. L /\ L - (L - i + 1) + 1 = i
      BY <1>3
  <2> QED
      BY <1>14, <2>1
<1> QED
    BY <1>12, <1>13, <1>15 DEF Exclusions, v, w, s

\* The entry of the turned twin of a legal path.
Twin(e) == [path |-> TurnedPath(e.path), keys |-> e.keys]

\* The incumbent is eligible in one request when it is in the other.
LEMMA ShuffledIncumbent ==
    ASSUME NEW s, NEW r \in PlacementRequest, Shuffled(s, r)
    PROVE  EligibleIncumbent(s) = EligibleIncumbent(r)
<1>1. \A p \in Candidates(r) : p \in CandidatePath
    BY CandidateFields
<1>2. \A p \in Candidates(r) : TurnedPath(p).id = p.id
    BY <1>1, TurnedIs
<1>3. Candidates(s) = {TurnedPath(p) : p \in Candidates(r)}
    BY DEF Shuffled
<1>4. \A id : (\E p \in Candidates(s) : p.id = id) <=> (\E p \in Candidates(r) : p.id = id)
    BY <1>2, <1>3
<1>5. /\ s.incumbent = r.incumbent /\ s.expected = r.expected /\ s.qos = r.qos
      /\ s.capacity.generation = r.capacity.generation
      /\ s.policy.generation = r.policy.generation
    BY DEF Shuffled, ShuffledPolicy
<1> QED
    BY <1>4, <1>5 DEF EligibleIncumbent

\* The keys of the twin are those of the path.
LEMMA ShuffledEntry ==
    ASSUME NEW s, NEW r \in PlacementRequest, Shuffled(s, r), NEW p \in CandidatePath
    PROVE  BuildRankEntry(s, TurnedPath(p)) = Twin(BuildRankEntry(r, p))
<1> DEFINE q == TurnedPath(p)
<1>1. /\ q.id = p.id /\ q.tier = p.tier /\ q.locality = p.locality
      /\ q.cost_micro = p.cost_micro /\ q.hop_count = p.hop_count
      /\ q.latency_nanos = p.latency_nanos
    BY TurnedIs
<1>2. /\ \A id : Residual(s, id) = Residual(r, id)
      /\ \A id : EvidenceOf(s, id) = EvidenceOf(r, id)
      /\ EvidenceKnown(s, q) = EvidenceKnown(r, p)
      /\ Affine(s, q) = Affine(r, p)
    BY ShuffledPrepared
<1> HIDE DEF q
<1>3. StabilityKey(s, q) = StabilityKey(r, p)
    BY <1>1, ShuffledIncumbent DEF StabilityKey
<1>4. /\ s.policy.preferred_locality = r.policy.preferred_locality
      /\ s.policy.objectives = r.policy.objectives
      /\ s.policy.affinity_refs = <<>> <=> r.policy.affinity_refs = <<>>
    BY DEF Shuffled, ShuffledPolicy, SameList
<1>5. ASSUME NEW kind PROVE ObjectiveKey(s, q, kind) = ObjectiveKey(r, p, kind)
    BY <1>1, <1>2, <1>3, <1>4 DEF ObjectiveKey
<1>6. BuildRankEntry(s, q).keys = BuildRankEntry(r, p).keys
    BY <1>4, <1>5 DEF BuildRankEntry
<1>7. BuildRankEntry(s, q) = [path |-> q, keys |-> BuildRankEntry(s, q).keys]
    BY DEF BuildRankEntry
<1>8. BuildRankEntry(r, p).path = p
    BY DEF BuildRankEntry
<1> QED
    BY <1>6, <1>7, <1>8 DEF Twin, q

\* The legal entries are the twins, and they rank the way the entries do.
LEMMA ReorderedLegal ==
    ASSUME NEW r \in PlacementRequest, ValidateRequest(r) = "ok"
    PROVE  LET s == Reordered(r)
               legal == LegalEntries(r)
           IN /\ LegalEntries(s) = {Twin(e) : e \in legal}
              /\ \A e \in legal : e.path \in CandidatePath
              /\ Cardinality(LegalEntries(s)) = Cardinality(legal)
              /\ Cardinality(legal) \in Nat
              /\ Rank(LegalEntries(s)) = [i \in DOMAIN Rank(legal) |-> Twin(Rank(legal)[i])]
              /\ DOMAIN Rank(legal) = 1 .. Cardinality(legal)
              /\ \A i \in DOMAIN Rank(legal) : Rank(legal)[i] \in legal
<1> DEFINE s == Reordered(r)
           legal == LegalEntries(r)
           n == Len(r.policy.objectives)
<1>1. Shuffled(s, r)
    BY ReorderedIs
<1> HIDE DEF s
<1>2. /\ LegalPaths(r) \subseteq Candidates(r) /\ IsFiniteSet(legal) /\ Rankable(legal, n)
      /\ \A e \in legal : e.path \in LegalPaths(r) /\ e = BuildRankEntry(r, e.path)
    BY LegalIsRankable
<1>3. \A p \in Candidates(r) : p \in CandidatePath
    BY CandidateFields
<1>4. Candidates(s) = {TurnedPath(p) : p \in Candidates(r)}
    BY <1>1 DEF Shuffled
<1>5. LegalPaths(s) = {TurnedPath(p) : p \in LegalPaths(r)}
  <2>1. \A p \in Candidates(r) : ExclusionReason(s, TurnedPath(p)) = ExclusionReason(r, p)
      BY <1>1, <1>3, ShuffledVerdict
  <2> QED
      BY <1>4, <2>1 DEF LegalPaths
<1>6. LegalEntries(s) = {Twin(e) : e \in legal}
  <2>1. \A p \in LegalPaths(r) : BuildRankEntry(s, TurnedPath(p)) = Twin(BuildRankEntry(r, p))
      BY <1>1, <1>2, <1>3, ShuffledEntry
  <2> QED
      BY <1>5, <2>1 DEF LegalEntries
<1>7. \A e \in legal : e.path \in CandidatePath
    BY <1>2, <1>3
<1> HIDE DEF legal, n
<1> DEFINE f == [e \in legal |-> Twin(e)]
<1>8. DOMAIN f = legal /\ \A e \in legal : f[e] = Twin(e)
    OBVIOUS
<1>9. {f[e] : e \in legal} = LegalEntries(s)
    BY <1>6, <1>8
<1>10. \A e \in legal : f[e].keys = e.keys /\ f[e].path.id = e.path.id
    BY <1>7, <1>8, TurnedIs DEF Twin
<1> HIDE DEF f
<1>11. /\ Cardinality({f[e] : e \in legal}) = Cardinality(legal)
       /\ Rank({f[e] : e \in legal}) = [i \in DOMAIN Rank(legal) |-> f[Rank(legal)[i]]]
    BY <1>2, <1>8, <1>10, TwinsRankAlike
<1>12. Cardinality(legal) \in Nat
    BY <1>2, FS_CardinalityType
<1>13. /\ DOMAIN Rank(legal) = 1 .. Cardinality(legal)
       /\ \A i \in DOMAIN Rank(legal) : Rank(legal)[i] \in legal
    BY <1>2, RankSorts DEF Rank
<1>14. Rank(LegalEntries(s)) = [i \in DOMAIN Rank(legal) |-> Twin(Rank(legal)[i])]
    BY <1>8, <1>9, <1>11, <1>13
<1> QED
    BY <1>6, <1>7, <1>9, <1>11, <1>12, <1>13, <1>14 DEF legal, s

\* The same intent for a path and its twin, with the same answers on its way.
LEMMA ShuffledIntent ==
    ASSUME NEW s, NEW r \in PlacementRequest, Shuffled(s, r), NEW p \in CandidatePath
    PROVE  LET q == TurnedPath(p)
           IN /\ Intent(s, q) = Intent(r, p)
              /\ BelowGate(s, q) = BelowGate(r, p) /\ Relaxed(s, q) = Relaxed(r, p)
              /\ GateBinding(s, q) = GateBinding(r, p)
              /\ PlacementBindings(s, q) = PlacementBindings(r, p)
              /\ Moving(s, q) = Moving(r, p) /\ MoveDeferred(s, q) = MoveDeferred(r, p)
              /\ FinalDelta(s, q) = FinalDelta(r, p)
<1> DEFINE q == TurnedPath(p)
<1>1. q.id = p.id /\ q.authority = p.authority /\ q.reservations = p.reservations
    BY TurnedIs
<1>2. /\ \A id : Residual(s, id) = Residual(r, id)
      /\ RequiredHeadroom(s) = RequiredHeadroom(r)
      /\ EvidenceTrusted(s) = EvidenceTrusted(r)
      /\ RelaxMultiplier(s, q) = RelaxMultiplier(r, p)
      /\ RelaxReservation(s, q) = RelaxReservation(r, p)
    BY ShuffledPrepared
<1> HIDE DEF q
<1>3. BelowGate(s, q) = BelowGate(r, p)
    BY <1>1, <1>2 DEF BelowGate, Shuffled, ShuffledPolicy
<1>4. Relaxed(s, q) = Relaxed(r, p)
    BY <1>2 DEF Relaxed
<1>5. GateBinding(s, q) = GateBinding(r, p)
    BY <1>1, <1>2 DEF GateBinding, Shuffled, ShuffledPolicy
<1>6. PlacementBindings(s, q) = PlacementBindings(r, p)
    BY <1>1, <1>2, <1>3, <1>4, <1>5 DEF PlacementBindings
<1>7. Moving(s, q) = Moving(r, p) /\ MoveDeferred(s, q) = MoveDeferred(r, p)
    BY <1>1 DEF Moving, MoveDeferred, Shuffled, ShuffledPolicy
<1>8. FinalDelta(s, q) = FinalDelta(r, p)
    BY <1>7, ShuffledIncumbent DEF FinalDelta, Shuffled
<1>9. Reservation(s, q) = Reservation(r, p)
  <2>1. ToSet(s.policy.affinity_refs) = ToSet(r.policy.affinity_refs) /\ s.qos = r.qos
      BY DEF Shuffled, ShuffledPolicy, SameList
  <2> QED
      BY <1>1, <2>1 DEF Reservation
<1>10. IntentEvidence(s) = IntentEvidence(r)
    BY <1>2 DEF IntentEvidence, Shuffled
<1>11. Intent(s, q) = Intent(r, p)
    BY <1>1, <1>9, <1>10 DEF Intent, Shuffled, ShuffledPolicy
<1> QED
    BY <1>3, <1>4, <1>5, <1>6, <1>7, <1>8, <1>11 DEF q

\* Both requests confirm the same intents.
LEMMA ShuffledVerification ==
    ASSUME NEW s, NEW r \in PlacementRequest, Shuffled(s, r),
           ValidateRequest(s) = "ok", ValidateRequest(r) = "ok", NEW i
    PROVE  VerifyIntent(s, i) = VerifyIntent(r, i)
<1>1. \A p \in Candidates(r) : p \in CandidatePath
    BY CandidateFields
<1>2. \A p \in Candidates(r) :
          /\ TurnedPath(p).id = p.id /\ TurnedPath(p).authority = p.authority
          /\ TurnedPath(p).reservations = p.reservations
          /\ ExclusionReason(s, TurnedPath(p)) = ExclusionReason(r, p)
    BY <1>1, TurnedIs, ShuffledVerdict
<1> DEFINE Serves(t, p) == /\ p.id = i.path
                           /\ p.authority = i.path_authority
                           /\ ExclusionReason(t, p) = "ok"
                           /\ ValidRef(i.reservation) => i.reservation \in ToSet(p.reservations)
<1>3. \A p \in Candidates(r) : Serves(s, TurnedPath(p)) <=> Serves(r, p)
    BY <1>2
<1> HIDE DEF Serves
<1>4. (\E p \in Candidates(s) : Serves(s, p)) <=> (\E p \in Candidates(r) : Serves(r, p))
    BY <1>3 DEF Shuffled
<1> QED
    BY <1>4 DEF VerifyIntent, Shuffled, ShuffledPolicy, Serves

\* The last stage: a path and its twin are placed the same way.
LEMMA ShuffledPlaceOn ==
    ASSUME NEW s, NEW r \in PlacementRequest, Shuffled(s, r),
           ValidateRequest(s) = "ok", ValidateRequest(r) = "ok",
           NEW d, NEW e, e.path \in CandidatePath
    PROVE  PlaceOn(s, d, Twin(e)) = PlaceOn(r, d, e)
<1> DEFINE p == e.path
           q == TurnedPath(p)
           t == Twin(e)
<1>1. p \in CandidatePath /\ t.path = q /\ t.keys = e.keys
    BY DEF Twin
<1>2. /\ q.locality = p.locality /\ Affine(s, q) = Affine(r, p)
      /\ Intent(s, q) = Intent(r, p)
      /\ BelowGate(s, q) = BelowGate(r, p) /\ Relaxed(s, q) = Relaxed(r, p)
      /\ PlacementBindings(s, q) = PlacementBindings(r, p)
      /\ Moving(s, q) = Moving(r, p) /\ FinalDelta(s, q) = FinalDelta(r, p)
    BY <1>1, TurnedIs, ShuffledPrepared, ShuffledIntent
<1>3. EligibleIncumbent(s) = EligibleIncumbent(r)
    BY ShuffledIncumbent
<1>4. /\ s.policy.preferred_locality = r.policy.preferred_locality
      /\ s.policy.affinity_refs = <<>> <=> r.policy.affinity_refs = <<>>
    BY DEF Shuffled, ShuffledPolicy, SameList
<1>5. HasUnknown(t) = HasUnknown(e)
    BY <1>1 DEF HasUnknown
<1> HIDE DEF p, q, t
<1>6. PlacementFlags(s, t) = PlacementFlags(r, e)
  <2>1. ASSUME NEW f \in DegradingFlags \cup {"incumbent_superseded"}
        PROVE  f \in PlacementFlags(s, t) <=> f \in PlacementFlags(r, e)
      BY <1>1, <1>2, <1>3, <1>4, <1>5 DEF PlacementFlags, DegradingFlags, p
  <2>2. /\ PlacementFlags(s, t) \subseteq DegradingFlags \cup {"incumbent_superseded"}
        /\ PlacementFlags(r, e) \subseteq DegradingFlags \cup {"incumbent_superseded"}
      BY DEF PlacementFlags
  <2> QED
      BY <2>1, <2>2
<1>7. VerifyIntent(s, Intent(r, p)) = VerifyIntent(r, Intent(r, p))
    BY ShuffledVerification
<1>8. FailedVerification(s, d) = FailedVerification(r, d)
  <2>1. ASSUME NEW code PROVE Reject(s, code) = Reject(r, code)
      BY DEF Reject, BuildAuthority, Shuffled, ShuffledPolicy
  <2> QED
      BY <2>1 DEF FailedVerification
<1>9. PlaceOn(s, d, t) = PlaceOn(r, d, e)
    BY <1>1, <1>2, <1>6, <1>7, <1>8 DEF PlaceOn, p
<1> QED
    BY <1>9 DEF t

\* The scan counts the same.
LEMMA ReorderedScan ==
    ASSUME NEW r \in PlacementRequest, ValidateRequest(r) = "ok", NEW rec
    PROVE  LET s == Reordered(r)
           IN Scanned(s, LegalEntries(s), rec) = Scanned(r, LegalEntries(r), rec)
<1> DEFINE s == Reordered(r)
           legal == LegalEntries(r)
           twins == LegalEntries(s)
           n == Len(r.policy.objectives)
<1>1. Shuffled(s, r)
    BY ReorderedIs
<1>2. /\ twins = {Twin(e) : e \in legal} /\ \A e \in legal : e.path \in CandidatePath
      /\ Cardinality(twins) = Cardinality(legal)
    BY ReorderedLegal
<1>3. IsFiniteSet(legal) /\ Rankable(legal, n)
    BY LegalIsRankable
<1> HIDE DEF s, legal, twins, n
<1>4. \A e \in legal : /\ Twin(e).keys = e.keys /\ Twin(e).path.id = e.path.id
                       /\ Twin(e).path.failure_domain = e.path.failure_domain
    BY <1>2, TurnedIs DEF Twin
<1>5. Cardinality({e \in twins : HasUnknown(e)}) = Cardinality({e \in legal : HasUnknown(e)})
  <2> DEFINE A == {e \in legal : HasUnknown(e)}
             B == {e \in twins : HasUnknown(e)}
             g == [e \in A |-> Twin(e)]
  <2>1. \A e \in legal : HasUnknown(Twin(e)) <=> HasUnknown(e)
      BY <1>4 DEF HasUnknown
  <2>2. B = {Twin(e) : e \in A}
      BY <1>2, <2>1
  <2>3. \A e, f \in legal : Twin(e) = Twin(f) => e = f
      BY <1>3, <1>4 DEF Rankable
  <2>4. IsFiniteSet(A)
      BY <1>3, FS_Subset
  <2>5. A \subseteq legal
      OBVIOUS
  <2> HIDE DEF A, B
  <2>6. g \in [A -> B] /\ (\A x \in B : \E e \in A : g[e] = x)
      BY <2>2
  <2>7. \A x, y \in A : g[x] = g[y] => x = y
      BY <2>3, <2>5
  <2> HIDE DEF g
  <2>8. g \in Bijection(A, B)
      BY <2>6, <2>7 DEF Bijection, Injection, IsInjective, Surjection
  <2>9. Cardinality(A) = Cardinality(B)
      BY <2>4, <2>8, FS_Bijection DEF ExistsBijection
  <2> QED
      BY <2>9 DEF A, B
<1>6. DomainsOf({e.path : e \in twins}) = DomainsOf({e.path : e \in legal})
    BY <1>2, <1>4 DEF DomainsOf
<1>7. EligibleIncumbent(s) = EligibleIncumbent(r)
    BY <1>1, ShuffledIncumbent
<1>8. Reject(s, "ok") = Reject(r, "ok")
    BY <1>1 DEF Reject, BuildAuthority, Shuffled, ShuffledPolicy
<1>9. s.incumbent = r.incumbent /\ Len(s.candidates.paths) = Len(r.candidates.paths)
    BY <1>1 DEF Shuffled
<1>10. Scanned(s, twins, rec) = Scanned(r, legal, rec)
    BY <1>2, <1>5, <1>6, <1>7, <1>8, <1>9 DEF Scanned
<1> QED
    BY <1>10 DEF s, legal, twins

\* The ranking is explained the same way, and the choice is the twin of the choice.
LEMMA ReorderedChoice ==
    ASSUME NEW r \in PlacementRequest, ValidateRequest(r) = "ok", LegalEntries(r) # {}, NEW d
    PROVE  LET s == Reordered(r)
               ranked == Rank(LegalEntries(r))
               turned == Rank(LegalEntries(s))
           IN /\ Ranked(s, d, turned) = Ranked(r, d, ranked)
              /\ ChurnFlags(s, turned) = ChurnFlags(r, ranked)
              /\ Chosen(s, turned) = Twin(Chosen(r, ranked))
              /\ Chosen(r, ranked).path \in CandidatePath
<1> DEFINE s == Reordered(r)
           legal == LegalEntries(r)
           ranked == Rank(legal)
           turned == Rank(LegalEntries(s))
           N == Cardinality(legal)
<1>1. Shuffled(s, r)
    BY ReorderedIs
<1>2. /\ \A e \in legal : e.path \in CandidatePath
      /\ turned = [i \in DOMAIN ranked |-> Twin(ranked[i])]
      /\ N \in Nat /\ DOMAIN ranked = 1 .. N
      /\ \A i \in DOMAIN ranked : ranked[i] \in legal
    BY ReorderedLegal
<1>3. N # 0
    BY LegalIsRankable, FS_EmptySet
<1> HIDE DEF s, legal, ranked, turned, N
<1>4. /\ DOMAIN turned = 1 .. N
      /\ \A i \in 1 .. N : turned[i] = Twin(ranked[i]) /\ ranked[i].path \in CandidatePath
    BY <1>2
<1>5. Len(turned) = N /\ Len(ranked) = N
    BY <1>2, <1>4
<1>6. \A i \in 1 .. N : /\ turned[i].keys = ranked[i].keys
                        /\ turned[i].path = TurnedPath(ranked[i].path)
    BY <1>4 DEF Twin
<1>7. \A i \in 1 .. N : /\ turned[i].path.id = ranked[i].path.id
                        /\ turned[i].path.authority = ranked[i].path.authority
    BY <1>4, <1>6, TurnedIs
<1>8. EligibleIncumbent(s) = EligibleIncumbent(r)
    BY <1>1, ShuffledIncumbent
<1>9. /\ s.incumbent = r.incumbent /\ s.policy.objectives = r.policy.objectives
      /\ s.policy.threshold_objective_index = r.policy.threshold_objective_index
      /\ s.policy.prefer_incumbent = r.policy.prefer_incumbent
      /\ s.policy.move_improvement_threshold = r.policy.move_improvement_threshold
    BY <1>1 DEF Shuffled, ShuffledPolicy
<1>10. Ranked(s, d, turned) = Ranked(r, d, ranked)
  <2> DEFINE explained == IF N < Limits.max_ranked_explained THEN N ELSE Limits.max_ranked_explained
             Rows(t, list) ==
                 [i \in 1 .. explained |->
                     [path |-> list[i].path.id, authority |-> list[i].path.authority,
                      is_incumbent |-> \E inc \in EligibleIncumbent(t) : inc.path = list[i].path.id,
                      keys |-> list[i].keys]]
             With(rows) == [d EXCEPT !.explanation.ranked = rows,
                                     !.explanation.truncated = @ \/ explained < N]
  <2>1. Limits.max_ranked_explained \in Nat
      BY LimitsAssumption DEF LimitNames
  <2>2. 1 .. explained \subseteq 1 .. N
      BY <1>2, <2>1
  <2>3. Rows(s, turned) = Rows(r, ranked)
    <3> HIDE DEF explained
    <3> QED
        BY <1>6, <1>7, <1>8, <2>2
  <2>4. Ranked(s, d, turned) = With(Rows(s, turned))
      BY <1>5 DEF Ranked
  <2>5. Ranked(r, d, ranked) = With(Rows(r, ranked))
      BY <1>5 DEF Ranked
  <2> HIDE DEF With, Rows
  <2> QED
      BY <2>3, <2>4, <2>5
<1>11. IncumbentPositions(s, turned) = IncumbentPositions(r, ranked)
    BY <1>2, <1>4, <1>7, <1>9 DEF IncumbentPositions
<1>12. \A i, j \in 1 .. N :
           Improvement(s, turned[i], turned[j]) = Improvement(r, ranked[i], ranked[j])
    BY <1>6, <1>9 DEF Improvement
<1>13. 1 \in 1 .. N /\ IncumbentPositions(r, ranked) \subseteq 1 .. N
    BY <1>2, <1>3 DEF IncumbentPositions
<1>14. SuppressedAt(s, turned) = SuppressedAt(r, ranked)
    BY <1>8, <1>9, <1>11, <1>12, <1>13 DEF SuppressedAt
<1>15. ChurnFlags(s, turned) = ChurnFlags(r, ranked)
    BY <1>8, <1>9, <1>14 DEF ChurnFlags
<1>16. Chosen(s, turned) = Twin(Chosen(r, ranked)) /\ Chosen(r, ranked).path \in CandidatePath
  <2> DEFINE at == IF SuppressedAt(r, ranked) = {} THEN 1
                   ELSE CHOOSE i \in SuppressedAt(r, ranked) : TRUE
  <2>1. SuppressedAt(r, ranked) \subseteq 1 .. N
      BY <1>13 DEF SuppressedAt
  <2>2. at \in 1 .. N
      BY <1>13, <2>1
  <2>3. Chosen(s, turned) = turned[at] /\ Chosen(r, ranked) = ranked[at]
      BY <1>14 DEF Chosen
  <2> HIDE DEF at
  <2> QED
      BY <1>4, <2>2, <2>3
<1> QED
    BY <1>10, <1>15, <1>16 DEF s, legal, ranked, turned

\* So the decision is the same.
LEMMA ReorderedPlace ==
    ASSUME NEW r \in PlacementRequest, ValidateRequest(r) = "ok", RoomyLimits
    PROVE  Place(Reordered(r)) = Place(r)
<1> DEFINE s == Reordered(r)
           legal == LegalEntries(r)
           twins == LegalEntries(s)
           rec == Exclusions(r)
           d == Scanned(r, legal, rec)
<1>1. Shuffled(s, r) /\ ValidateRequest(s) = "ok"
    BY ReorderedIs, ReorderedIsValid
<1>2. Exclusions(s) = rec /\ Scanned(s, twins, rec) = d
    BY ReorderedRecord, ReorderedScan
<1>3. twins = {} <=> legal = {}
    BY ReorderedLegal
<1>4. legal # {} => PlaceLegal(s, d, twins) = PlaceLegal(r, d, legal)
  <2> SUFFICES ASSUME legal # {} PROVE PlaceLegal(s, d, twins) = PlaceLegal(r, d, legal)
      OBVIOUS
  <2> DEFINE ranked == Rank(legal)
             turned == Rank(twins)
             e == Chosen(r, ranked)
             churned == WithFlags(Ranked(r, d, ranked), ChurnFlags(r, ranked))
  <2>1. /\ Chosen(s, turned) = Twin(e) /\ e.path \in CandidatePath
        /\ WithFlags(Ranked(s, d, turned), ChurnFlags(s, turned)) = churned
      BY ReorderedChoice
  <2> HIDE DEF s, legal, twins, rec, d, ranked, turned, e, churned
  <2>2. Twin(e).path = TurnedPath(e.path)
      BY DEF Twin
  <2>3. /\ MoveDeferred(s, Twin(e).path) = MoveDeferred(r, e.path)
        /\ BelowGate(s, Twin(e).path) = BelowGate(r, e.path)
        /\ GateBinding(s, Twin(e).path) = GateBinding(r, e.path)
      BY <1>1, <2>1, <2>2, ShuffledIntent
  <2>4. DeferMove(s, churned) = DeferMove(r, churned)
    <3>1. EligibleIncumbent(s) = EligibleIncumbent(r)
        BY <1>1, ShuffledIncumbent
    <3> QED
        BY <3>1 DEF DeferMove
  <2>5. DeferAdmission(s, churned, Twin(e).path) = DeferAdmission(r, churned, e.path)
      BY <2>3 DEF DeferAdmission
  <2>6. PlaceOn(s, churned, Twin(e)) = PlaceOn(r, churned, e)
      BY <1>1, <2>1, ShuffledPlaceOn
  <2>7. s.policy.on_below = r.policy.on_below
      BY <1>1 DEF Shuffled, ShuffledPolicy
  <2> QED
      BY <2>1, <2>3, <2>4, <2>5, <2>6, <2>7 DEF PlaceLegal, ranked, turned, e, churned
<1> HIDE DEF s, legal, twins, rec, d
<1>5. EmptyLegalSet(s, d, rec) = EmptyLegalSet(r, d, rec)
  <2>1. Len(s.candidates.paths) = Len(r.candidates.paths)
      BY <1>1 DEF Shuffled
  <2>2. Classify(s, rec) = Classify(r, rec)
      BY <2>1 DEF Classify
  <2> QED
      BY <2>2 DEF EmptyLegalSet
<1>6. DiversityUnmet(s, d) = DiversityUnmet(r, d) /\ Undiversified(s, d) = Undiversified(r, d)
    BY <1>1 DEF DiversityUnmet, Undiversified, Shuffled, ShuffledPolicy
<1>7. PlaceCurrent(s) = PlaceCurrent(r)
    BY <1>2, <1>3, <1>4, <1>5, <1>6 DEF PlaceCurrent, legal, twins, rec, d
<1>8. StaleCode(s) = StaleCode(r)
    BY <1>1 DEF StaleCode, StaleChecks, Shuffled, ShuffledPolicy
<1>9. ASSUME NEW code PROVE Counted(s, code) = Counted(r, code)
  <2>1. Reject(s, code) = Reject(r, code)
      BY <1>1 DEF Reject, BuildAuthority, Shuffled, ShuffledPolicy
  <2> QED
      BY <1>1, <2>1 DEF Counted, Shuffled
<1>10. HeadroomOverflows(s) = HeadroomOverflows(r)
    BY <1>1 DEF HeadroomOverflows, RequiredBase, Multiplier, Shuffled
<1> QED
    BY <1>1, <1>7, <1>8, <1>9, <1>10 DEF Place, s

\* The whole decision on a valid request, with the record of its exclusions and the
\* ranking it explains, is the same when the request's unordered lists arrive in the
\* opposite order: nothing the engine decides or reports depends on the order of the
\* candidates, of their labels, of the entries or of the policy's lists, as long as the
\* bound on the recorded reasons leaves room for all of them.
THEOREM OrderDecidesNothing == RoomyLimits /\ Spec => []OrderNeverMatters
<1>1. ASSUME RoomyLimits, FlowInv PROVE OrderNeverMatters
  <2> SUFFICES ASSUME ValidateRequest(request) = "ok", NEW d \in decision
               PROVE  Place(Reordered(request)) = d
      BY DEF OrderNeverMatters
  <2>1. request \in PlacementRequest /\ d = Place(request)
      BY <1>1 DEF FlowInv
  <2> QED
      BY <1>1, <2>1, ReorderedPlace
<1>2. RoomyLimits => RoomyLimits'
    BY DEF RoomyLimits
<1> QED
    BY <1>1, <1>2, FlowInvariant, PTL DEF Spec
=============================================================================
