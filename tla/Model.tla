------------------------------- MODULE Model -------------------------------
(***************************************************************************)
(* The facts a caller supplies with a placement request, and the identity  *)
(* of a request: src/include/flowplace/model.hpp and src/src/model.cpp.    *)
(*                                                                         *)
(* Identities and generations are naturals, 0 being "unset".  The code's   *)
(* vectors are sequences, because duplicates and order are what validation *)
(* and the digests are about; an optional field is a set of at most one    *)
(* element.  A path carries its attributes directly.                       *)
(***************************************************************************)
EXTENDS Integers, Sequences, FiniteSets, SequencesExt, TLC

CONSTANTS
    MaxU64,     \* the largest 64-bit value (small in the instances)
    Limits      \* the caller's Limits, a record

LimitNames == {"max_candidate_paths", "max_capacity_entries", "max_evidence_entries",
               "max_occupied_failure_domains", "max_objectives", "max_path_labels",
               "max_path_reservations", "max_policy_id_lists", "max_affinity_refs",
               "max_ranked_explained", "max_exclusion_samples", "max_exclusion_reasons"}

ASSUME MaxU64Assumption == MaxU64 \in Nat \ {0}
ASSUME LimitsAssumption == Limits \in [LimitNames -> Nat]

Valid(id) == id # 0

ServiceClasses == {"best_effort", "controlled", "assured", "reserved"}
Priorities == {"low", "normal", "high", "critical"}
LocalityScopes == {"node", "rack", "zone", "region", "global"}
Tiers == 0 .. 2              \* premium, standard, economy: ranked by ordinal
ObjectiveKinds == {"cost", "latency", "residual_capacity", "hop_count", "congestion", "tier",
                   "locality_affinity", "reservation_affinity", "incumbent_stability"}
Directions == {"min", "max"}
GateActions == {"place", "defer"}
ChurnActions == {"allow_move", "defer"}
EvidenceModes == {"rank_worst", "hard_exclude"}

\* ServiceHeadroomMultiplier and ServiceRequiresReservation.
ServiceHeadroomMultiplier(class) ==
    CASE class = "controlled" -> 2 [] class \in {"assured", "reserved"} -> 3 [] OTHER -> 1
ServiceRequiresReservation(class) == class = "reserved"

\* An enumeration field may hold any bit pattern when it comes off the wire: an
\* enumerator or anything else.
Enumerators == UNION {ServiceClasses, Priorities, LocalityScopes, ObjectiveKinds, Directions,
                      GateActions, ChurnActions, EvidenceModes}
Anything == STRING \cup Enumerators
\* A std::optional: none or one value of a type.
Optional(T) == {o \in SUBSET T : \A x, y \in o : x = y}

ReservationRef == [id : Nat, generation : Nat]
NoRef == [id |-> 0, generation |-> 0]
ValidRef(ref) == Valid(ref.id) /\ Valid(ref.generation)
RefLess(a, b) == IF a.id # b.id THEN a.id < b.id ELSE a.generation < b.generation

CandidatePath ==
    [id : Nat, authority : Nat, tier : Nat, locality : Nat, locality_scope : Anything,
     failure_domain : Nat, cost_micro : Nat, latency_nanos : Nat, hop_count : Nat,
     labels : Seq(Nat), reservations : Seq(ReservationRef)]
CandidateSet == [id : Nat, generation : Nat, paths : Seq(CandidatePath)]
PathCapacity == [path : Nat, capacity_bytes : Nat, residual_bytes : Nat]
CapacitySnapshot == [id : Nat, generation : Nat, entries : Seq(PathCapacity)]
EvidenceEntry == [path : Nat, utilization_ppb : Nat]
EvidenceBundle == [id : Nat, generation : Nat, entries : Seq(EvidenceEntry)]
QosProfile ==
    [id : Nat, generation : Nat, service_class : Anything, priority : Anything,
     required_residual_bytes : Nat, max_latency_nanos : Nat]

PlacementPolicy ==
    [id : Nat, generation : Nat, objectives : Seq([kind : Anything, direction : Anything]),
     allowed_tiers : Seq(Nat), required_labels : Seq(Nat), forbidden_labels : Seq(Nat),
     required_locality : Optional(Nat), preferred_locality : Optional(Nat),
     forbidden_localities : Seq(Nat), required_domain : Optional(Nat),
     forbidden_domains : Seq(Nat), avoid_occupied_domains : BOOLEAN,
     min_distinct_domains : Nat, affinity_required : BOOLEAN,
     affinity_refs : Seq(ReservationRef), min_residual_headroom_bytes : Nat,
     on_below : Anything, allow_degraded : BOOLEAN, max_relaxation_steps : Nat,
     on_move : Anything, prefer_incumbent : BOOLEAN, move_improvement_threshold : Nat,
     threshold_objective_index : Nat, on_missing : Anything, on_stale : Anything]

IncumbentPlacement ==
    [id : Nat, generation : Nat, path : Nat, path_authority : Nat,
     candidate_set_generation : Nat, capacity_generation : Nat, policy_generation : Nat,
     qos_generation : Nat, fabric_epoch : Nat, reservation : ReservationRef]
AuthorityExpectation ==
    [path_authority : Nat, candidate_set : Nat, capacity : Nat, policy : Nat, qos : Nat,
     fabric_epoch : Nat, evidence : Nat]

PlacementRequest ==
    [flow : Nat, flow_generation : Nat, candidates : CandidateSet,
     capacity : CapacitySnapshot, qos : QosProfile, policy : PlacementPolicy,
     evidence : EvidenceBundle, incumbent : Optional(IncumbentPlacement),
     occupied_failure_domains : Seq(Nat), expected : AuthorityExpectation, attempt : Nat]

-----------------------------------------------------------------------------
(* The digest of a request, as the canonical value that is hashed.  Lists    *)
(* that are sets are sorted and de-duplicated first; candidates, capacity    *)
(* and evidence are sorted by path, duplicates kept.  Hash collisions are    *)
(* outside the model.                                                        *)

Multiset(s) == [x \in ToSet(s) |-> Cardinality({i \in DOMAIN s : s[i] = x})]

HashPathAttributes(p) ==
    [p EXCEPT !.labels = ToSet(p.labels), !.reservations = ToSet(p.reservations)]

CandidateSetDigest(c) ==
    [c EXCEPT !.paths = Multiset([i \in DOMAIN c.paths |-> HashPathAttributes(c.paths[i])])]
CapacitySnapshotDigest(c) == [c EXCEPT !.entries = Multiset(c.entries)]
EvidenceDigest(e) == [e EXCEPT !.entries = Multiset(e.entries)]
PolicyDigest(p) ==
    [p EXCEPT !.allowed_tiers = ToSet(@), !.required_labels = ToSet(@),
              !.forbidden_labels = ToSet(@), !.forbidden_localities = ToSet(@),
              !.forbidden_domains = ToSet(@), !.affinity_refs = ToSet(@)]

RequestDigest(r) ==
    [r EXCEPT !.candidates = CandidateSetDigest(@), !.capacity = CapacitySnapshotDigest(@),
              !.policy = PolicyDigest(@), !.evidence = EvidenceDigest(@),
              !.occupied_failure_domains = ToSet(@)]

=============================================================================
