---------------------------- MODULE EngineProofs ----------------------------
(***************************************************************************)
(* Facts about the operators of the engine and of the validation, for every *)
(* request: what the tables of checks decide, that the ranking sorts, what  *)
(* a legal path, a key, an intent and each stage of the decision are, and   *)
(* that the record of the exclusions depends on the verdicts and not on the *)
(* order they were met in.                                                  *)
(***************************************************************************)
EXTENDS Engine, FiniteSetTheorems, WellFoundedInduction, TLAPS

-----------------------------------------------------------------------------
(* Numbers, places and tables of checks.                                    *)

\* A nonempty set of naturals has a least one.
LEMMA LeastNumber ==
    ASSUME NEW T, T \subseteq Nat, T # {}
    PROVE  \E i \in T : \A k \in T : i <= k
<1>1. \E i \in T : \A k \in T : <<k, i>> \notin OpToRel(<, Nat)
    BY NatLessThanWellFounded, WFMin
<1>2. PICK i \in T : \A k \in T : <<k, i>> \notin OpToRel(<, Nat)
    BY <1>1
<1>3. \A k \in T : ~(k < i)
    BY <1>2 DEF OpToRel
<1> QED
    BY <1>3

\* A strict total order on a finite set gives every member a place of its own.
LEMMA EveryPlaceIsTaken ==
    ASSUME NEW S, IsFiniteSet(S), NEW below \in [S -> SUBSET S],
           \A x \in S : x \notin below[x],
           \A x, y \in S : x \in below[y] => below[x] \subseteq below[y],
           \A x, y \in S : x = y \/ x \in below[y] \/ y \in below[x]
    PROVE  /\ Cardinality(S) \in Nat
           /\ \A x \in S : Cardinality(below[x]) \in 0 .. (Cardinality(S) - 1)
           /\ \A x, y \in S : x \in below[y] => Cardinality(below[x]) < Cardinality(below[y])
           /\ \A n \in 1 .. Cardinality(S) : \E x \in S : Cardinality(below[x]) = n - 1
<1> DEFINE N == Cardinality(S)
           place == [x \in S |-> Cardinality(below[x]) + 1]
<1>1. N \in Nat
    BY FS_CardinalityType
<1>2. \A x \in S : IsFiniteSet(below[x]) /\ Cardinality(below[x]) \in Nat
    BY FS_Subset, FS_CardinalityType
<1>3. ASSUME NEW x \in S, NEW y \in S, x \in below[y]
      PROVE  Cardinality(below[x]) < Cardinality(below[y])
  <2>1. below[x] \in SUBSET below[y] /\ below[x] # below[y]
      BY <1>3
  <2> QED
      BY <2>1, <1>2, FS_Subset
<1>4. ASSUME NEW x \in S PROVE Cardinality(below[x]) < N
  <2>1. below[x] \in SUBSET S /\ below[x] # S
      BY <1>4
  <2> QED
      BY <2>1, <1>1, <1>2, FS_Subset
<1>5. place \in [S -> 1 .. N]
    BY <1>1, <1>2, <1>4
<1>6. place \in Injection(S, 1 .. N)
  <2>1. ASSUME NEW x \in S, NEW y \in S, place[x] = place[y] PROVE x = y
    <3>1. Cardinality(below[x]) = Cardinality(below[y])
        BY <2>1, <1>2
    <3>2. x \notin below[y] /\ y \notin below[x]
        BY <3>1, <1>2, <1>3
    <3> QED
        BY <3>2
  <2> QED
      BY <2>1, <1>5 DEF Injection, IsInjective
<1>7. IsFiniteSet(1 .. N) /\ Cardinality(1 .. N) = N
    BY <1>1, FS_Interval
<1>8. place \in Surjection(S, 1 .. N)
    BY <1>6, <1>7, FS_Injection
<1>9. \A n \in 1 .. N : \E x \in S : place[x] = n
    BY <1>8 DEF Surjection
<1>10. \A n \in 1 .. N : \E x \in S : Cardinality(below[x]) = n - 1
  <2> TAKE n \in 1 .. N
  <2>1. PICK x \in S : place[x] = n
      BY <1>9
  <2>2. Cardinality(below[x]) = n - 1
      BY <2>1, <1>2
  <2> QED
      BY <2>2
<1> QED
    BY <1>1, <1>2, <1>3, <1>4, <1>10

\* A table of checks answers with the status of the first row that fails.
LEMMA FirstStatusIs ==
    ASSUME NEW checks, DOMAIN checks \subseteq Nat
    PROVE  \/ FirstStatus(checks) = "ok" /\ \A i \in DOMAIN checks : ~checks[i][1]
           \/ \E i \in DOMAIN checks :
                 /\ checks[i][1] /\ FirstStatus(checks) = checks[i][2]
                 /\ \A j \in DOMAIN checks : checks[j][1] => i <= j
<1> DEFINE failing == {i \in DOMAIN checks : checks[i][1]}
<1>1. CASE failing = {}
    BY <1>1 DEF FirstStatus
<1>2. CASE failing # {}
  <2>1. \E i \in failing : \A j \in failing : i <= j
      BY <1>2, LeastNumber
  <2> DEFINE first == CHOOSE i \in failing : \A j \in failing : i <= j
  <2>2. first \in failing /\ \A j \in failing : first <= j
      BY <2>1
  <2>3. FirstStatus(checks) = checks[first][2]
      BY <1>2 DEF FirstStatus
  <2> QED
      BY <2>2, <2>3
<1> QED
    BY <1>1, <1>2

\* A table whose failing rows have a status passes when no row fails.
LEMMA FirstStatusOk ==
    ASSUME NEW checks, DOMAIN checks \subseteq Nat,
           \A i \in DOMAIN checks : checks[i][1] => checks[i][2] # "ok"
    PROVE  FirstStatus(checks) = "ok" <=> \A i \in DOMAIN checks : ~checks[i][1]
BY FirstStatusIs

\* Seventeen checks.
LEMMA Rows17 ==
    ASSUME NEW checks, DOMAIN checks = 1 .. 17, \A i \in 1 .. 17 : checks[i][2] # "ok"
    PROVE  FirstStatus(checks) = "ok" <=>
              /\ ~checks[1][1] /\ ~checks[2][1] /\ ~checks[3][1] /\ ~checks[4][1]
              /\ ~checks[5][1] /\ ~checks[6][1] /\ ~checks[7][1] /\ ~checks[8][1]
              /\ ~checks[9][1] /\ ~checks[10][1] /\ ~checks[11][1] /\ ~checks[12][1]
              /\ ~checks[13][1] /\ ~checks[14][1] /\ ~checks[15][1] /\ ~checks[16][1]
              /\ ~checks[17][1]
<1>1. \A i \in 1 .. 17 : \/ i = 1 \/ i = 2 \/ i = 3 \/ i = 4 \/ i = 5 \/ i = 6
                         \/ i = 7 \/ i = 8 \/ i = 9 \/ i = 10 \/ i = 11 \/ i = 12
                         \/ i = 13 \/ i = 14 \/ i = 15 \/ i = 16 \/ i = 17
    OBVIOUS
<1> QED
    BY <1>1, FirstStatusOk

\* A candidate is legal when none of the exclusions of Evaluate applies to it.
LEMMA ExclusionReasonOk ==
    ASSUME NEW r, NEW p
    PROVE  ExclusionReason(r, p) = "ok" <=>
            /\ ~(p.authority # r.expected.path_authority)
            /\ ~(r.policy.allowed_tiers # <<>> /\ p.tier \notin ToSet(r.policy.allowed_tiers))
            /\ ~(ToSet(p.labels) \cap ToSet(r.policy.forbidden_labels) # {})
            /\ ~(ToSet(r.policy.required_labels) \ ToSet(p.labels) # {})
            /\ ~(Valid(p.locality) /\ p.locality \in ToSet(r.policy.forbidden_localities))
            /\ ~(r.policy.required_locality \ {p.locality} # {})
            /\ ~(Valid(p.failure_domain) /\ p.failure_domain \in ToSet(r.policy.forbidden_domains))
            /\ ~(r.policy.required_domain \ {p.failure_domain} # {})
            /\ ~(/\ r.policy.avoid_occupied_domains /\ Valid(p.failure_domain)
                 /\ p.failure_domain \in ToSet(r.occupied_failure_domains))
            /\ ~(CapacityOf(r, p.id) = {})
            /\ ~(Residual(r, p.id) < RequiredBase(r))
            /\ ~(Residual(r, p.id) < RequiredHeadroom(r) /\ ~RelaxMultiplier(r, p))
            /\ ~(/\ ServiceRequiresReservation(r.qos.service_class) /\ p.reservations = <<>>
                 /\ ~RelaxReservation(r, p))
            /\ ~(r.policy.affinity_required /\ ~Affine(r, p))
            /\ ~(r.qos.max_latency_nanos # 0 /\ p.latency_nanos > r.qos.max_latency_nanos)
            /\ ~(EvidenceStale(r) /\ r.policy.on_stale = "hard_exclude")
            /\ ~(EvidenceMissing(r, p) /\ r.policy.on_missing = "hard_exclude")
<1> DEFINE c == ExclusionChecks(r, p)
<1>1. DOMAIN c = 1 .. 17
    BY DEF ExclusionChecks
<1>2. /\ c[1][2] # "ok" /\ c[2][2] # "ok" /\ c[3][2] # "ok" /\ c[4][2] # "ok"
      /\ c[5][2] # "ok" /\ c[6][2] # "ok" /\ c[7][2] # "ok" /\ c[8][2] # "ok"
      /\ c[9][2] # "ok" /\ c[10][2] # "ok" /\ c[11][2] # "ok" /\ c[12][2] # "ok"
      /\ c[13][2] # "ok" /\ c[14][2] # "ok" /\ c[15][2] # "ok" /\ c[16][2] # "ok"
      /\ c[17][2] # "ok"
    BY DEF ExclusionChecks
<1>3. /\ ~c[1][1] <=> ~(p.authority # r.expected.path_authority)
      /\ ~c[2][1] <=> ~(r.policy.allowed_tiers # <<>> /\ p.tier \notin ToSet(r.policy.allowed_tiers))
      /\ ~c[3][1] <=> ~(ToSet(p.labels) \cap ToSet(r.policy.forbidden_labels) # {})
      /\ ~c[4][1] <=> ~(ToSet(r.policy.required_labels) \ ToSet(p.labels) # {})
      /\ ~c[5][1] <=> ~(Valid(p.locality) /\ p.locality \in ToSet(r.policy.forbidden_localities))
      /\ ~c[6][1] <=> ~(r.policy.required_locality \ {p.locality} # {})
      /\ ~c[7][1] <=> ~(Valid(p.failure_domain) /\ p.failure_domain \in ToSet(r.policy.forbidden_domains))
      /\ ~c[8][1] <=> ~(r.policy.required_domain \ {p.failure_domain} # {})
      /\ ~c[9][1] <=> ~(/\ r.policy.avoid_occupied_domains /\ Valid(p.failure_domain)
                 /\ p.failure_domain \in ToSet(r.occupied_failure_domains))
      /\ ~c[10][1] <=> ~(CapacityOf(r, p.id) = {})
      /\ ~c[11][1] <=> ~(Residual(r, p.id) < RequiredBase(r))
      /\ ~c[12][1] <=> ~(Residual(r, p.id) < RequiredHeadroom(r) /\ ~RelaxMultiplier(r, p))
      /\ ~c[13][1] <=> ~(/\ ServiceRequiresReservation(r.qos.service_class) /\ p.reservations = <<>>
                 /\ ~RelaxReservation(r, p))
      /\ ~c[14][1] <=> ~(r.policy.affinity_required /\ ~Affine(r, p))
      /\ ~c[15][1] <=> ~(r.qos.max_latency_nanos # 0 /\ p.latency_nanos > r.qos.max_latency_nanos)
      /\ ~c[16][1] <=> ~(EvidenceStale(r) /\ r.policy.on_stale = "hard_exclude")
      /\ ~c[17][1] <=> ~(EvidenceMissing(r, p) /\ r.policy.on_missing = "hard_exclude")
    BY DEF ExclusionChecks
<1> HIDE DEF c
<1>4. \A i \in 1 .. 17 : c[i][2] # "ok"
  <2>1. \A i \in 1 .. 17 : \/ i = 1 \/ i = 2 \/ i = 3 \/ i = 4 \/ i = 5 \/ i = 6
                           \/ i = 7 \/ i = 8 \/ i = 9 \/ i = 10 \/ i = 11 \/ i = 12
                           \/ i = 13 \/ i = 14 \/ i = 15 \/ i = 16 \/ i = 17
      OBVIOUS
  <2> QED
    BY <1>2, <2>1
<1>5. FirstStatus(c) = "ok" <=>
          /\ ~c[1][1] /\ ~c[2][1] /\ ~c[3][1] /\ ~c[4][1] /\ ~c[5][1] /\ ~c[6][1]
          /\ ~c[7][1] /\ ~c[8][1] /\ ~c[9][1] /\ ~c[10][1] /\ ~c[11][1] /\ ~c[12][1]
          /\ ~c[13][1] /\ ~c[14][1] /\ ~c[15][1] /\ ~c[16][1] /\ ~c[17][1]
    BY <1>1, <1>4, Rows17
<1> QED
    BY <1>3, <1>5 DEF ExclusionReason, c

\* The tables of the validation, one by one: the request passes exactly when no
\* row fails.
LEMMA EnumerationsOk ==
    ASSUME NEW r
    PROVE  ValidateEnumerations(r) = "ok" <=>
              /\ r.qos.service_class \in ServiceClasses
              /\ r.qos.priority \in Priorities
              /\ ~(r.policy.max_relaxation_steps > 2)
              /\ r.policy.on_below \in GateActions
              /\ r.policy.on_move \in ChurnActions
              /\ r.policy.on_missing \in EvidenceModes /\ r.policy.on_stale \in EvidenceModes
              /\ \A o \in ToSet(r.policy.objectives) :
                    o.kind \in ObjectiveKinds /\ o.direction \in Directions
              /\ ToSet(r.policy.allowed_tiers) \subseteq Tiers
              /\ \A p \in ToSet(r.candidates.paths) :
                    p.tier \in Tiers /\ p.locality_scope \in LocalityScopes
<1> DEFINE c == EnumerationChecks(r)
<1>1. DOMAIN c = {1} /\ c[1][2] # "ok"
    BY DEF EnumerationChecks
<1>2. ~c[1][1] <=>
              /\ r.qos.service_class \in ServiceClasses
              /\ r.qos.priority \in Priorities
              /\ ~(r.policy.max_relaxation_steps > 2)
              /\ r.policy.on_below \in GateActions
              /\ r.policy.on_move \in ChurnActions
              /\ r.policy.on_missing \in EvidenceModes /\ r.policy.on_stale \in EvidenceModes
              /\ \A o \in ToSet(r.policy.objectives) :
                    o.kind \in ObjectiveKinds /\ o.direction \in Directions
              /\ ToSet(r.policy.allowed_tiers) \subseteq Tiers
              /\ \A p \in ToSet(r.candidates.paths) :
                    p.tier \in Tiers /\ p.locality_scope \in LocalityScopes
    BY DEF EnumerationChecks
<1> HIDE DEF c
<1>3. FirstStatus(c) = "ok" <=> ~c[1][1]
    BY <1>1, FirstStatusOk
<1> QED
    BY <1>2, <1>3 DEF ValidateEnumerations, c

\* An incumbent passes with every identity set and a whole or absent reference.
LEMMA IncumbentOk ==
    ASSUME NEW i
    PROVE  ValidateIncumbent(i) = "ok" <=>
              /\ Valid(i.id) /\ Valid(i.generation) /\ Valid(i.path) /\ Valid(i.path_authority)
              /\ Valid(i.candidate_set_generation) /\ Valid(i.capacity_generation)
              /\ Valid(i.policy_generation) /\ Valid(i.qos_generation) /\ Valid(i.fabric_epoch)
              /\ Valid(i.reservation.id) <=> Valid(i.reservation.generation)
<1> DEFINE c == IncumbentChecks(i)
<1>1. DOMAIN c = 1 .. 2 /\ c[1][2] # "ok" /\ c[2][2] # "ok"
    BY DEF IncumbentChecks
<1>2. ~c[1][1] <=>
              /\ Valid(i.id) /\ Valid(i.generation) /\ Valid(i.path) /\ Valid(i.path_authority)
              /\ Valid(i.candidate_set_generation) /\ Valid(i.capacity_generation)
              /\ Valid(i.policy_generation) /\ Valid(i.qos_generation) /\ Valid(i.fabric_epoch)
    BY DEF IncumbentChecks, Valid
<1>3. ~c[2][1] <=> (Valid(i.reservation.id) <=> Valid(i.reservation.generation))
    BY DEF IncumbentChecks, Valid
<1> HIDE DEF c
<1>4. FirstStatus(c) = "ok" <=> ~c[1][1] /\ ~c[2][1]
    BY <1>1, FirstStatusOk
<1> QED
    BY <1>2, <1>3, <1>4 DEF ValidateIncumbent, c

\* A candidate passes with its identity, within the bounds and without duplicates.
LEMMA CandidateOk ==
    ASSUME NEW p
    PROVE  ValidateCandidate(p) = "ok" <=>
              /\ Valid(p.id) /\ Valid(p.authority)
              /\ ~(Len(p.labels) > Limits.max_path_labels)
              /\ ~(Len(p.reservations) > Limits.max_path_reservations)
              /\ ~HasDuplicates(p.labels) /\ ~HasDuplicates(p.reservations)
              /\ \A ref \in ToSet(p.reservations) : ValidRef(ref)
<1> DEFINE c == CandidateChecks(p)
<1>1. /\ DOMAIN c = 1 .. 5 
      /\ c[1][2] # "ok" /\ c[2][2] # "ok" /\ c[3][2] # "ok" /\ c[4][2] # "ok" /\ c[5][2] # "ok"
    BY DEF CandidateChecks
<1>2. /\ ~c[1][1] <=> Valid(p.id)
      /\ ~c[2][1] <=> Valid(p.authority)
      /\ ~c[3][1] <=> /\ ~(Len(p.labels) > Limits.max_path_labels)
                      /\ ~(Len(p.reservations) > Limits.max_path_reservations)
      /\ ~c[4][1] <=> ~HasDuplicates(p.labels) /\ ~HasDuplicates(p.reservations)
      /\ ~c[5][1] <=> \A ref \in ToSet(p.reservations) : ValidRef(ref)
    BY DEF CandidateChecks
<1> HIDE DEF c
<1>3. FirstStatus(c) = "ok" <=> ~c[1][1] /\ ~c[2][1] /\ ~c[3][1] /\ ~c[4][1] /\ ~c[5][1]
    BY <1>1, FirstStatusOk
<1> QED
    BY <1>2, <1>3 DEF ValidateCandidate, c

\* What the checks of the identities and generations leave.
Generated(r) ==
    /\ Valid(r.flow) /\ Valid(r.flow_generation)
    /\ Valid(r.candidates.id) /\ Valid(r.candidates.generation)
    /\ Valid(r.capacity.id) /\ Valid(r.capacity.generation)
    /\ Valid(r.qos.id) /\ Valid(r.qos.generation)
    /\ Valid(r.policy.id) /\ Valid(r.policy.generation)
    /\ 0 \notin {r.expected.path_authority, r.expected.candidate_set, r.expected.capacity,
                 r.expected.policy, r.expected.qos, r.expected.fabric_epoch}
    /\ Valid(r.evidence.id) <=> Valid(r.evidence.generation)

\* ValidateGenerations passes exactly those requests.
LEMMA GenerationsOk ==
    ASSUME NEW r
    PROVE  ValidateGenerations(r) = "ok" <=> Generated(r) /\ IncumbentStatus(r) = "ok"
<1> DEFINE c == GenerationChecks(r)
<1>1. /\ DOMAIN c = 1 .. 13
      /\ c[1][2] # "ok" /\ c[2][2] # "ok" /\ c[3][2] # "ok" /\ c[4][2] # "ok"
      /\ c[5][2] # "ok" /\ c[6][2] # "ok" /\ c[7][2] # "ok" /\ c[8][2] # "ok"
      /\ c[9][2] # "ok" /\ c[10][2] # "ok" /\ c[11][2] # "ok" /\ c[12][2] # "ok"
      /\ c[13][2] = IncumbentStatus(r)
    BY DEF GenerationChecks
<1>2. /\ ~c[1][1] <=> Valid(r.flow)
      /\ ~c[2][1] <=> Valid(r.flow_generation)
      /\ ~c[3][1] <=> Valid(r.candidates.id)
      /\ ~c[4][1] <=> Valid(r.candidates.generation)
      /\ ~c[5][1] <=> Valid(r.capacity.id)
      /\ ~c[6][1] <=> Valid(r.capacity.generation)
      /\ ~c[7][1] <=> Valid(r.qos.id)
      /\ ~c[8][1] <=> Valid(r.qos.generation)
      /\ ~c[9][1] <=> Valid(r.policy.id)
      /\ ~c[10][1] <=> Valid(r.policy.generation)
      /\ ~c[11][1] <=> 0 \notin {r.expected.path_authority, r.expected.candidate_set,
                                 r.expected.capacity, r.expected.policy, r.expected.qos,
                                 r.expected.fabric_epoch}
      /\ ~c[13][1] <=> IncumbentStatus(r) = "ok"
    BY DEF GenerationChecks
<1>3. ~c[12][1] <=> (Valid(r.evidence.id) <=> Valid(r.evidence.generation))
    BY DEF GenerationChecks, Valid
<1> HIDE DEF c
<1>4. \A i \in 1 .. 13 : \/ i = 1 \/ i = 2 \/ i = 3 \/ i = 4 \/ i = 5 \/ i = 6 \/ i = 7
                         \/ i = 8 \/ i = 9 \/ i = 10 \/ i = 11 \/ i = 12 \/ i = 13
    OBVIOUS
<1>5. \A i \in 1 .. 13 : c[i][1] => c[i][2] # "ok"
    BY <1>1, <1>2, <1>4
<1>6. FirstStatus(c) = "ok" <=> \A i \in 1 .. 13 : ~c[i][1]
    BY <1>1, <1>5, FirstStatusOk
<1>7. (\A i \in 1 .. 13 : ~c[i][1]) <=>
          /\ ~c[1][1] /\ ~c[2][1] /\ ~c[3][1] /\ ~c[4][1] /\ ~c[5][1] /\ ~c[6][1] /\ ~c[7][1]
          /\ ~c[8][1] /\ ~c[9][1] /\ ~c[10][1] /\ ~c[11][1] /\ ~c[12][1] /\ ~c[13][1]
    BY <1>4
<1> QED
    BY <1>2, <1>3, <1>6, <1>7 DEF ValidateGenerations, Generated, c

\* What the checks of the sizes leave.
Bounded(r) ==
    /\ ~(Len(r.candidates.paths) > Limits.max_candidate_paths)
    /\ ~(Len(r.capacity.entries) > Limits.max_capacity_entries)
    /\ ~(Len(r.evidence.entries) > Limits.max_evidence_entries)
    /\ ~(Len(r.occupied_failure_domains) > Limits.max_occupied_failure_domains)
    /\ r.policy.objectives # <<>>
    /\ ~(Len(r.policy.objectives) > Limits.max_objectives)
    /\ ~(Len(r.policy.allowed_tiers) > 3)
    /\ ~(Len(r.policy.required_labels) > Limits.max_policy_id_lists)
    /\ ~(Len(r.policy.forbidden_labels) > Limits.max_policy_id_lists)
    /\ ~(Len(r.policy.forbidden_localities) > Limits.max_policy_id_lists)
    /\ ~(Len(r.policy.forbidden_domains) > Limits.max_policy_id_lists)
    /\ ~(Len(r.policy.affinity_refs) > Limits.max_affinity_refs)

\* ValidateBounds passes exactly those requests.
LEMMA BoundsOk ==
    ASSUME NEW r
    PROVE  ValidateBounds(r) = "ok" <=> Bounded(r)
<1> DEFINE c == BoundChecks(r)
<1>1. /\ DOMAIN c = 1 .. 5
      /\ c[1][2] # "ok" /\ c[2][2] # "ok" /\ c[3][2] # "ok" /\ c[4][2] # "ok" /\ c[5][2] # "ok"
    BY DEF BoundChecks
<1>2. ~c[1][1] /\ ~c[2][1] /\ ~c[3][1] /\ ~c[4][1] /\ ~c[5][1] <=> Bounded(r)
    BY DEF BoundChecks, Bounded
<1> HIDE DEF c
<1>3. FirstStatus(c) = "ok" <=> ~c[1][1] /\ ~c[2][1] /\ ~c[3][1] /\ ~c[4][1] /\ ~c[5][1]
    BY <1>1, FirstStatusOk
<1> QED
    BY <1>2, <1>3 DEF ValidateBounds, c

\* What the checks of the policy leave.
Consistent(r) ==
    LET policy == r.policy
        kinds == [i \in DOMAIN policy.objectives |-> policy.objectives[i].kind]
    IN /\ ~HasDuplicates(kinds)
       /\ ~HasDuplicates(policy.required_labels) /\ ~HasDuplicates(policy.forbidden_labels)
       /\ ToSet(policy.required_labels) \cap ToSet(policy.forbidden_labels) = {}
       /\ ~HasDuplicates(policy.forbidden_localities)
       /\ policy.required_locality \cap ToSet(policy.forbidden_localities) = {}
       /\ ~HasDuplicates(policy.forbidden_domains)
       /\ policy.required_domain \cap ToSet(policy.forbidden_domains) = {}
       /\ ~(policy.affinity_required /\ policy.affinity_refs = <<>>)
       /\ \A ref \in ToSet(policy.affinity_refs) : ValidRef(ref)
       /\ ~(policy.threshold_objective_index >= Len(policy.objectives))
       /\ ~(policy.max_relaxation_steps > 2)
       /\ ~policy.allow_degraded => policy.max_relaxation_steps = 0
       /\ policy.on_move = "defer" => policy.prefer_incumbent
       /\ ~HasDuplicates(policy.allowed_tiers)
       /\ ~MulOverflows(r.qos.required_residual_bytes,
                        ServiceHeadroomMultiplier(r.qos.service_class))
       /\ ~(policy.min_distinct_domains > Cardinality(DomainsOf(ToSet(r.candidates.paths))))

\* ValidatePolicy passes exactly those requests.
LEMMA PolicyOk ==
    ASSUME NEW r
    PROVE  ValidatePolicy(r) = "ok" <=> Consistent(r)
<1> DEFINE c == PolicyChecks(r)
           policy == r.policy
           kinds == [i \in DOMAIN policy.objectives |-> policy.objectives[i].kind]
<1>1. /\ DOMAIN c = 1 .. 12
      /\ c[1][2] # "ok" /\ c[2][2] # "ok" /\ c[3][2] # "ok" /\ c[4][2] # "ok"
      /\ c[5][2] # "ok" /\ c[6][2] # "ok" /\ c[7][2] # "ok" /\ c[8][2] # "ok"
      /\ c[9][2] # "ok" /\ c[10][2] # "ok" /\ c[11][2] # "ok" /\ c[12][2] # "ok"
    BY DEF PolicyChecks
<1>2. /\ ~c[1][1] <=> ~HasDuplicates(kinds)
      /\ ~c[2][1] <=> /\ ~HasDuplicates(policy.required_labels)
                      /\ ~HasDuplicates(policy.forbidden_labels)
      /\ ~c[3][1] <=> ToSet(policy.required_labels) \cap ToSet(policy.forbidden_labels) = {}
      /\ ~c[4][1] <=> ~HasDuplicates(policy.forbidden_localities)
      /\ ~c[5][1] <=> policy.required_locality \cap ToSet(policy.forbidden_localities) = {}
      /\ ~c[6][1] <=> ~HasDuplicates(policy.forbidden_domains)
      /\ ~c[7][1] <=> policy.required_domain \cap ToSet(policy.forbidden_domains) = {}
      /\ ~c[8][1] <=> ~(policy.affinity_required /\ policy.affinity_refs = <<>>)
      /\ ~c[9][1] <=> \A ref \in ToSet(policy.affinity_refs) : ValidRef(ref)
      /\ ~c[10][1] <=> /\ ~(policy.threshold_objective_index >= Len(policy.objectives))
                       /\ ~(policy.max_relaxation_steps > 2)
                       /\ ~policy.allow_degraded => policy.max_relaxation_steps = 0
                       /\ policy.on_move = "defer" => policy.prefer_incumbent
                       /\ ~HasDuplicates(policy.allowed_tiers)
      /\ ~c[11][1] <=> ~MulOverflows(r.qos.required_residual_bytes,
                                     ServiceHeadroomMultiplier(r.qos.service_class))
      /\ ~c[12][1] <=> ~(policy.min_distinct_domains >
                            Cardinality(DomainsOf(ToSet(r.candidates.paths))))
    BY DEF PolicyChecks
<1> HIDE DEF c
<1>3. \A i \in 1 .. 12 : \/ i = 1 \/ i = 2 \/ i = 3 \/ i = 4 \/ i = 5 \/ i = 6 \/ i = 7
                         \/ i = 8 \/ i = 9 \/ i = 10 \/ i = 11 \/ i = 12
    OBVIOUS
<1>4. \A i \in 1 .. 12 : c[i][2] # "ok"
    BY <1>1, <1>3
<1>5. FirstStatus(c) = "ok" <=> \A i \in 1 .. 12 : ~c[i][1]
    BY <1>1, <1>4, FirstStatusOk
<1>6. (\A i \in 1 .. 12 : ~c[i][1]) <=>
          /\ ~c[1][1] /\ ~c[2][1] /\ ~c[3][1] /\ ~c[4][1] /\ ~c[5][1] /\ ~c[6][1] /\ ~c[7][1]
          /\ ~c[8][1] /\ ~c[9][1] /\ ~c[10][1] /\ ~c[11][1] /\ ~c[12][1]
    BY <1>3
<1> QED
    BY <1>2, <1>5, <1>6 DEF ValidatePolicy, Consistent, c

\* A request is valid when each of the six validations passes.
LEMMA RequestOk ==
    ASSUME NEW r
    PROVE  ValidateRequest(r) = "ok" <=>
              /\ ValidateEnumerations(r) = "ok" /\ ValidateGenerations(r) = "ok"
              /\ ValidateBounds(r) = "ok" /\ ValidateCandidates(r) = "ok"
              /\ ValidateCapacityAndEvidence(r) = "ok" /\ ValidatePolicy(r) = "ok"
<1> DEFINE c == RequestChecks(r)
<1>1. /\ DOMAIN c = 1 .. 6
      /\ c[1][2] = ValidateEnumerations(r)
      /\ c[2][2] = ValidateGenerations(r)
      /\ c[3][2] = ValidateBounds(r)
      /\ c[4][2] = ValidateCandidates(r)
      /\ c[5][2] = ValidateCapacityAndEvidence(r)
      /\ c[6][2] = ValidatePolicy(r)
    BY DEF RequestChecks
<1>2. /\ ~c[1][1] <=> ValidateEnumerations(r) = "ok"
      /\ ~c[2][1] <=> ValidateGenerations(r) = "ok"
      /\ ~c[3][1] <=> ValidateBounds(r) = "ok"
      /\ ~c[4][1] <=> ValidateCandidates(r) = "ok"
      /\ ~c[5][1] <=> ValidateCapacityAndEvidence(r) = "ok"
      /\ ~c[6][1] <=> ValidatePolicy(r) = "ok"
    BY DEF RequestChecks
<1> HIDE DEF c
<1>3. FirstStatus(c) = "ok" <=>
          ~c[1][1] /\ ~c[2][1] /\ ~c[3][1] /\ ~c[4][1] /\ ~c[5][1] /\ ~c[6][1]
    BY <1>1, <1>2, FirstStatusOk
<1> QED
    BY <1>2, <1>3 DEF ValidateRequest, c

\* A request is current when its generations are the expected ones.
LEMMA StaleOk ==
    ASSUME NEW r
    PROVE  StaleCode(r) = "ok" <=>
              /\ r.candidates.generation = r.expected.candidate_set
              /\ r.capacity.generation = r.expected.capacity
              /\ r.policy.generation = r.expected.policy
              /\ r.qos.generation = r.expected.qos
<1> DEFINE c == StaleChecks(r)
<1>1. /\ DOMAIN c = 1 .. 4
      /\ c[1][2] # "ok" /\ c[2][2] # "ok" /\ c[3][2] # "ok" /\ c[4][2] # "ok"
    BY DEF StaleChecks
<1>2. /\ ~c[1][1] <=> r.candidates.generation = r.expected.candidate_set
      /\ ~c[2][1] <=> r.capacity.generation = r.expected.capacity
      /\ ~c[3][1] <=> r.policy.generation = r.expected.policy
      /\ ~c[4][1] <=> r.qos.generation = r.expected.qos
    BY DEF StaleChecks
<1> HIDE DEF c
<1>3. FirstStatus(c) = "ok" <=> ~c[1][1] /\ ~c[2][1] /\ ~c[3][1] /\ ~c[4][1]
    BY <1>1, FirstStatusOk
<1> QED
    BY <1>2, <1>3 DEF StaleCode, c

\* A list of things with a status each.
LEMMA EveryRowOk ==
    ASSUME NEW I, I \subseteq Nat, NEW status, DOMAIN status = I
    PROVE  FirstStatus([i \in I |-> <<status[i] # "ok", status[i]>>]) = "ok" <=>
              \A i \in I : status[i] = "ok"
<1> DEFINE rows == [i \in I |-> <<status[i] # "ok", status[i]>>]
<1>1. DOMAIN rows = I
    OBVIOUS
<1>2. ASSUME NEW i \in I
      PROVE  rows[i] = <<status[i] # "ok", status[i]>>
    OBVIOUS
<1>3. \A i \in I : rows[i][2] = status[i]
    BY <1>2
<1>4. \A i \in I : rows[i][1] <=> status[i] # "ok"
    BY <1>2
<1> HIDE DEF rows
<1>5. DOMAIN rows \subseteq Nat /\ \A i \in DOMAIN rows : rows[i][1] => rows[i][2] # "ok"
    BY <1>1, <1>3, <1>4
<1>6. FirstStatus(rows) = "ok" <=> \A i \in DOMAIN rows : ~rows[i][1]
    BY <1>5, FirstStatusOk
<1> QED
    BY <1>1, <1>4, <1>6 DEF rows

\* The candidates pass when each does and no two have the same id.
LEMMA CandidatesOk ==
    ASSUME NEW r, r.candidates.paths \in Seq(CandidatePath)
    PROVE  ValidateCandidates(r) = "ok" <=>
              /\ \A i \in DOMAIN r.candidates.paths :
                    ValidateCandidate(r.candidates.paths[i]) = "ok"
              /\ \A i, j \in DOMAIN r.candidates.paths :
                    r.candidates.paths[i].id = r.candidates.paths[j].id => i = j
<1> DEFINE paths == r.candidates.paths
           rows == [i \in DOMAIN paths |->
                       <<ValidateCandidate(paths[i]) # "ok", ValidateCandidate(paths[i])>>]
           each == FirstStatus(rows)
           twins == {t \in (DOMAIN paths) \X (DOMAIN paths) :
                        t[1] < t[2] /\ paths[t[1]].id = paths[t[2]].id}
           lowest == {t \in twins : \A u \in twins : paths[t[1]].id <= paths[u[1]].id}
           clash == \E t \in lowest : paths[t[1]].authority # paths[t[2]].authority
           c == CandidateSetChecks(r)
<1>1. DOMAIN paths \subseteq Nat /\ \A i \in DOMAIN paths : paths[i].id \in Nat
  <2>1. DOMAIN paths = 1 .. Len(paths) /\ Len(paths) \in Nat
      OBVIOUS
  <2>2. \A i \in DOMAIN paths : paths[i] \in CandidatePath
      OBVIOUS
  <2>3. \A p \in CandidatePath : p.id \in Nat
      BY DEF CandidatePath
  <2> QED
      BY <2>1, <2>2, <2>3
<1>2. each = "ok" <=> \A i \in DOMAIN paths : ValidateCandidate(paths[i]) = "ok"
  <2> DEFINE status == [i \in DOMAIN paths |-> ValidateCandidate(paths[i])]
  <2>1. rows = [i \in DOMAIN paths |-> <<status[i] # "ok", status[i]>>]
      OBVIOUS
  <2>2. FirstStatus([i \in DOMAIN paths |-> <<status[i] # "ok", status[i]>>]) = "ok" <=>
            \A i \in DOMAIN paths : status[i] = "ok"
    <3> HIDE DEF status, paths
    <3>1. DOMAIN status = DOMAIN paths
        BY DEF status
    <3> QED
        BY <1>1, <3>1, EveryRowOk
  <2> QED
      BY <2>1, <2>2
<1>3. twins = {} <=> lowest = {}
  <2>1. SUFFICES ASSUME twins # {} PROVE lowest # {}
      OBVIOUS
  <2> DEFINE ids == {paths[t[1]].id : t \in twins}
  <2>2. ids \subseteq Nat /\ ids # {}
      BY <1>1, <2>1
  <2>3. PICK n \in ids : \A k \in ids : n <= k
      BY <2>2, LeastNumber
  <2>4. PICK t \in twins : paths[t[1]].id = n
      BY <2>3
  <2>5. t \in lowest
      BY <2>3, <2>4
  <2> QED
      BY <2>5
<1>4. twins = {} <=> \A i, j \in DOMAIN paths : paths[i].id = paths[j].id => i = j
  <2>1. ASSUME twins = {}, NEW i \in DOMAIN paths, NEW j \in DOMAIN paths,
               paths[i].id = paths[j].id, i # j
        PROVE  FALSE
    <3>1. i < j \/ j < i
        BY <1>1, <2>1
    <3>2. <<i, j>> \in twins \/ <<j, i>> \in twins
        BY <3>1, <2>1
    <3> QED
        BY <3>2, <2>1
  <2>2. ASSUME \A i, j \in DOMAIN paths : paths[i].id = paths[j].id => i = j
        PROVE  twins = {}
      BY <1>1, <2>2
  <2> QED
      BY <2>1, <2>2
<1>5. c = << <<each # "ok", each>>,
              <<clash, "inconsistent_authority_generation">>,
              <<lowest # {}, "duplicate_path_id">> >>
    BY DEF CandidateSetChecks
<1>6. clash => lowest # {}
    OBVIOUS
<1> HIDE DEF c, each, lowest, twins, clash, paths, rows
<1>7. /\ DOMAIN c = 1 .. 3 /\ c[1][2] = each /\ c[2][2] # "ok" /\ c[3][2] # "ok"
      /\ c[1][1] <=> each # "ok"
      /\ c[2][1] <=> clash
      /\ c[3][1] <=> lowest # {}
  <2>1. DOMAIN c = 1 .. 3
      BY <1>5
  <2>2. c[1][2] = each /\ c[2][2] # "ok" /\ c[3][2] # "ok"
      BY <1>5
  <2>3. c[1][1] <=> each # "ok"
      BY <1>5
  <2>4. c[2][1] <=> clash
      BY <1>5
  <2>5. c[3][1] <=> lowest # {}
      BY <1>5
  <2> QED
      BY <2>1, <2>2, <2>3, <2>4, <2>5
<1>8. FirstStatus(c) = "ok" <=> ~c[1][1] /\ ~c[2][1] /\ ~c[3][1]
    BY <1>7, FirstStatusOk
<1> QED
    BY <1>2, <1>3, <1>4, <1>6, <1>7, <1>8 DEF ValidateCandidates, c, paths

\* A list passes when each entry does and no two are of the same path: the
\* comparison of neighbours in the sorted list finds every pair.
LEMMA EntriesOk ==
    ASSUME NEW T, NEW entries \in Seq(T), \A i \in DOMAIN entries : entries[i].path \in Nat,
           NEW bad
    PROVE  ValidateEntries(entries, bad) = "ok" <=>
              /\ \A i \in DOMAIN entries : Valid(entries[i].path) /\ entries[i] \notin bad
              /\ \A i, j \in DOMAIN entries : entries[i].path = entries[j].path => i = j
<1> DEFINE I == DOMAIN entries
           below == [k \in I |-> {j \in I : \/ entries[j].path < entries[k].path
                                            \/ entries[j].path = entries[k].path /\ j < k}]
           at(n) == CHOOSE k \in I : PlaceOf(entries, k) = n
           sorted == SortByPath(entries)
<1>1. I = 1 .. Len(entries) /\ Len(entries) \in Nat
    OBVIOUS
<1>2. IsFiniteSet(I) /\ Cardinality(I) = Len(entries)
    BY <1>1, FS_Interval
<1>3. /\ below \in [I -> SUBSET I]
      /\ \A x \in I : x \notin below[x]
      /\ \A x, y \in I : x \in below[y] => below[x] \subseteq below[y]
      /\ \A x, y \in I : x = y \/ x \in below[y] \/ y \in below[x]
    BY <1>1
<1>4. /\ \A x \in I : Cardinality(below[x]) \in 0 .. (Len(entries) - 1)
      /\ \A x, y \in I : x \in below[y] => Cardinality(below[x]) < Cardinality(below[y])
      /\ \A n \in 1 .. Len(entries) : \E x \in I : Cardinality(below[x]) = n - 1
  <2> HIDE DEF below, I
  <2> QED
      BY <1>2, <1>3, EveryPlaceIsTaken
<1>5. \A k \in I : PlaceOf(entries, k) = 1 + Cardinality(below[k])
    BY DEF PlaceOf
<1>6. DOMAIN sorted = I /\ \A n \in I : sorted[n] = entries[at(n)]
    BY DEF SortByPath
<1> HIDE DEF below, I, sorted
<1> HIDE DEF at
<1>7. ASSUME NEW k \in I PROVE PlaceOf(entries, k) \in I
  <2> DEFINE c == Cardinality(below[k])
  <2>1. c \in 0 .. (Len(entries) - 1) /\ PlaceOf(entries, k) = 1 + c
      BY <1>4, <1>5
  <2> HIDE DEF c
  <2>2. 1 + c \in 1 .. Len(entries)
      BY <1>1, <2>1
  <2> QED
      BY <1>1, <2>1, <2>2
<1>8. ASSUME NEW x \in I, NEW y \in I, x \in below[y]
      PROVE  PlaceOf(entries, x) < PlaceOf(entries, y)
  <2> DEFINE c == Cardinality(below[x])
             d == Cardinality(below[y])
  <2>1. /\ c \in 0 .. (Len(entries) - 1) /\ d \in 0 .. (Len(entries) - 1) /\ c < d
        /\ PlaceOf(entries, x) = 1 + c /\ PlaceOf(entries, y) = 1 + d
      BY <1>4, <1>5, <1>8
  <2> HIDE DEF c, d
  <2> QED
      BY <1>1, <2>1
<1>9. \A x, y \in I : PlaceOf(entries, x) = PlaceOf(entries, y) => x = y
    BY <1>1, <1>3, <1>7, <1>8
<1>10. \A n \in I : at(n) \in I /\ PlaceOf(entries, at(n)) = n
  <2> TAKE n \in I
  <2>1. \E k \in I : PlaceOf(entries, k) = n
    <3>1. PICK k \in I : Cardinality(below[k]) = n - 1
        BY <1>1, <1>4
    <3>2. PlaceOf(entries, k) = n
        BY <1>1, <1>5, <3>1
    <3> QED
        BY <3>2
  <2> QED
      BY <2>1 DEF at
<1>11. \A k \in I : at(PlaceOf(entries, k)) = k
    BY <1>7, <1>9, <1>10
<1>12. ValidateEntries(entries, bad) =
           FirstStatus([i \in DOMAIN sorted |->
               <<EntryStatus(sorted, i, bad) # "ok", EntryStatus(sorted, i, bad)>>])
    BY DEF ValidateEntries, sorted
<1>13. ValidateEntries(entries, bad) = "ok" <=>
          \A i \in I : EntryStatus(sorted, i, bad) = "ok"
  <2> DEFINE status == [i \in I |-> EntryStatus(sorted, i, bad)]
  <2>1. [i \in DOMAIN sorted |->
            <<EntryStatus(sorted, i, bad) # "ok", EntryStatus(sorted, i, bad)>>]
           = [i \in I |-> <<status[i] # "ok", status[i]>>]
      BY <1>6
  <2>2. FirstStatus([i \in I |-> <<status[i] # "ok", status[i]>>]) = "ok" <=>
            \A i \in I : status[i] = "ok"
    <3> HIDE DEF status
    <3>1. DOMAIN status = I /\ I \subseteq Nat
        BY <1>1 DEF status
    <3> QED
        BY <3>1, EveryRowOk
  <2> QED
      BY <1>12, <2>1, <2>2
<1>14. ASSUME NEW i \in I
       PROVE  EntryStatus(sorted, i, bad) = "ok" <=>
                 /\ Valid(sorted[i].path) /\ sorted[i] \notin bad
                 /\ ~(i > 1 /\ sorted[i - 1].path = sorted[i].path)
  <2> DEFINE c == EntryChecks(sorted, i, bad)
  <2>1. DOMAIN c = 1 .. 3 /\ c[1][2] # "ok" /\ c[2][2] # "ok" /\ c[3][2] # "ok"
      BY DEF EntryChecks
  <2>2. c[1][1] <=> ~Valid(sorted[i].path)
      BY DEF EntryChecks
  <2>3. c[2][1] <=> sorted[i] \in bad
      BY DEF EntryChecks
  <2>4. c[3][1] <=> i > 1 /\ sorted[i - 1].path = sorted[i].path
      BY <1>1 DEF EntryChecks
  <2> HIDE DEF c
  <2>5. FirstStatus(c) = "ok" <=> ~c[1][1] /\ ~c[2][1] /\ ~c[3][1]
      BY <2>1, FirstStatusOk
  <2> QED
      BY <2>2, <2>3, <2>4, <2>5 DEF EntryStatus, c
<1>15. ASSUME \A i \in I : EntryStatus(sorted, i, bad) = "ok"
       PROVE  /\ \A i \in I : Valid(entries[i].path) /\ entries[i] \notin bad
              /\ \A i, j \in I : entries[i].path = entries[j].path => i = j
  <2>1. \A i \in I : Valid(entries[i].path) /\ entries[i] \notin bad
      BY <1>7, <1>11, <1>6, <1>14, <1>15
  <2>2. ASSUME NEW j \in I, NEW k \in I, entries[j].path = entries[k].path, j < k
        PROVE  FALSE
    <3> DEFINE n == PlaceOf(entries, k)
               m == at(n - 1)
    <3>1. j \in below[k]
        BY <2>2 DEF below, I
    <3>2. PlaceOf(entries, j) \in Nat /\ PlaceOf(entries, j) < n /\ n \in I /\ n > 1 /\ n - 1 \in I
        BY <1>1, <1>7, <1>8, <3>1
    <3>3. m \in I /\ PlaceOf(entries, m) = n - 1
        BY <1>10, <3>2
    <3>4. m \in below[k]
      <4>1. m # k /\ k \notin below[m]
          BY <1>1, <1>8, <3>2, <3>3
      <4> QED
          BY <1>3, <3>3, <4>1
    <3>5. m = j \/ j \in below[m]
      <4>1. m \notin below[j]
          BY <1>1, <1>8, <3>2, <3>3
      <4> QED
          BY <1>3, <3>3, <4>1
    <3>6. entries[m].path = entries[k].path
        BY <2>2, <3>3, <3>4, <3>5 DEF below, I
    <3>7. sorted[n - 1] = entries[m] /\ sorted[n] = entries[k]
        BY <1>11, <1>6, <3>2
    <3> QED
        BY <1>14, <1>15, <3>2, <3>6, <3>7
  <2>3. \A i, j \in I : entries[i].path = entries[j].path => i = j
      BY <1>1, <2>2
  <2> QED
      BY <2>1, <2>3
<1>16. ASSUME \A i \in I : Valid(entries[i].path) /\ entries[i] \notin bad,
              \A i, j \in I : entries[i].path = entries[j].path => i = j,
              NEW n \in I
       PROVE  EntryStatus(sorted, n, bad) = "ok"
  <2>1. Valid(sorted[n].path) /\ sorted[n] \notin bad
      BY <1>10, <1>6, <1>16
  <2>2. ASSUME n > 1, sorted[n - 1].path = sorted[n].path PROVE FALSE
    <3>1. n - 1 \in I
        BY <1>1, <2>2
    <3>2. at(n - 1) = at(n)
        BY <1>10, <1>6, <1>16, <2>2, <3>1
    <3>3. n - 1 = n
        BY <1>10, <3>1, <3>2
    <3> QED
        BY <1>1, <3>3
  <2> QED
      BY <1>14, <2>1, <2>2
<1> QED
    BY <1>13, <1>15, <1>16 DEF I

-----------------------------------------------------------------------------
(* The order of the ranking.                                                *)

\* The key of an entry for one objective.
Key == [known : BOOLEAN, value : Nat, direction : Directions]

\* Keys that do not decide fall into classes.
LEMMA TiesAreAnEquivalence ==
    ASSUME NEW x \in Key, NEW y \in Key, NEW z \in Key
    PROVE  /\ KeyTies(x, x)
           /\ KeyTies(x, y) => KeyTies(y, x)
           /\ KeyTies(x, y) /\ KeyTies(y, z) => KeyTies(x, z)
BY DEF KeyTies, Key

\* Keys of one direction are ordered, strictly and up to ties.
LEMMA BeatsIsAnOrder ==
    ASSUME NEW x \in Key, NEW y \in Key, NEW z \in Key,
           x.direction = y.direction, y.direction = z.direction
    PROVE  /\ ~KeyBeats(x, x)
           /\ KeyBeats(x, y) => ~KeyTies(x, y) /\ ~KeyBeats(y, x)
           /\ KeyTies(x, y) \/ KeyBeats(x, y) \/ KeyBeats(y, x)
           /\ KeyBeats(x, y) /\ KeyBeats(y, z) => KeyBeats(x, z)
           /\ KeyBeats(x, y) /\ KeyTies(y, z) => KeyBeats(x, z)
           /\ KeyTies(x, y) /\ KeyBeats(y, z) => KeyBeats(x, z)
<1>1. /\ ~KeyBeats(x, x)
      /\ KeyBeats(x, y) => ~KeyTies(x, y) /\ ~KeyBeats(y, x)
      /\ KeyTies(x, y) \/ KeyBeats(x, y) \/ KeyBeats(y, x)
    BY DEF KeyTies, KeyBeats, Key
<1>2. KeyBeats(x, y) /\ KeyBeats(y, z) => KeyBeats(x, z)
    BY DEF KeyBeats, Key
<1>3. KeyBeats(x, y) /\ KeyTies(y, z) => KeyBeats(x, z)
    BY DEF KeyTies, KeyBeats, Key
<1>4. KeyTies(x, y) /\ KeyBeats(y, z) => KeyBeats(x, z)
    BY DEF KeyTies, KeyBeats, Key
<1> QED
    BY <1>1, <1>2, <1>3, <1>4

\* Entries that can be ranked against each other: n keys each, the same
\* directions, and path ids that tell them apart.
Rankable(entries, n) ==
    /\ n \in Nat
    /\ \A e \in entries : /\ DOMAIN e.keys = 1 .. n
                          /\ \A k \in 1 .. n : e.keys[k] \in Key
                          /\ e.path.id \in Nat
    /\ \A e, f \in entries : /\ \A k \in 1 .. n : e.keys[k].direction = f.keys[k].direction
                             /\ e.path.id = f.path.id => e = f

\* RankLess says which of two entries comes first: strictly, for every two, and
\* without cycles.
LEMMA RankLessIsAnOrder ==
    ASSUME NEW entries, NEW n, Rankable(entries, n),
           NEW a \in entries, NEW b \in entries, NEW c \in entries
    PROVE  /\ ~RankLess(a, a)
           /\ RankLess(a, b) /\ RankLess(b, c) => RankLess(a, c)
           /\ a = b \/ RankLess(a, b) \/ RankLess(b, a)
<1>1. n \in Nat /\ DOMAIN a.keys = 1 .. n /\ DOMAIN b.keys = 1 .. n /\ DOMAIN c.keys = 1 .. n
    BY DEF Rankable
<1>2. \A k \in 1 .. n : a.keys[k] \in Key /\ b.keys[k] \in Key /\ c.keys[k] \in Key
    BY DEF Rankable
<1>3. \A k \in 1 .. n : /\ a.keys[k].direction = b.keys[k].direction
                        /\ b.keys[k].direction = c.keys[k].direction
    BY DEF Rankable
<1>4. a.path.id \in Nat /\ b.path.id \in Nat /\ c.path.id \in Nat /\ (a.path.id = b.path.id => a = b)
    BY DEF Rankable
<1>5. \A k \in 1 .. n :
          /\ ~KeyBeats(a.keys[k], a.keys[k])
          /\ KeyBeats(a.keys[k], b.keys[k]) /\ KeyBeats(b.keys[k], c.keys[k])
                => KeyBeats(a.keys[k], c.keys[k])
          /\ KeyBeats(a.keys[k], b.keys[k]) /\ KeyTies(b.keys[k], c.keys[k])
                => KeyBeats(a.keys[k], c.keys[k])
          /\ KeyTies(a.keys[k], b.keys[k]) /\ KeyBeats(b.keys[k], c.keys[k])
                => KeyBeats(a.keys[k], c.keys[k])
    BY <1>2, <1>3, BeatsIsAnOrder
<1>6. \A k \in 1 .. n :
          /\ KeyTies(a.keys[k], b.keys[k]) => KeyTies(b.keys[k], a.keys[k])
          /\ KeyTies(a.keys[k], b.keys[k]) /\ KeyTies(b.keys[k], c.keys[k])
                => KeyTies(a.keys[k], c.keys[k])
    BY <1>2, TiesAreAnEquivalence
<1>7. \A k \in 1 .. n : \/ KeyTies(a.keys[k], b.keys[k])
                        \/ KeyBeats(a.keys[k], b.keys[k])
                        \/ KeyBeats(b.keys[k], a.keys[k])
    BY <1>2, <1>3, BeatsIsAnOrder
<1>8. ~RankLess(a, a)
    BY <1>1, <1>4, <1>5 DEF RankLess
<1>9. a = b \/ RankLess(a, b) \/ RankLess(b, a)
  <2> DEFINE D == {k \in 1 .. n : ~KeyTies(a.keys[k], b.keys[k])}
  <2>1. CASE D = {}
    <3>1. \A k \in 1 .. n : KeyTies(a.keys[k], b.keys[k]) /\ KeyTies(b.keys[k], a.keys[k])
        BY <2>1, <1>6
    <3>2. a.path.id = b.path.id \/ a.path.id < b.path.id \/ b.path.id < a.path.id
        BY <1>4
    <3> QED
        BY <1>1, <1>4, <3>1, <3>2 DEF RankLess
  <2>2. CASE D # {}
    <3>1. PICK k \in D : \A j \in D : k <= j
      <4>1. D \subseteq Nat
          BY <1>1
      <4> QED
          BY <2>2, <4>1, LeastNumber
    <3>2. k \in 1 .. n
        OBVIOUS
    <3>3. \A j \in 1 .. (k - 1) : j \in 1 .. n /\ j \notin D
        BY <1>1, <3>1, <3>2
    <3>4. \A j \in 1 .. (k - 1) : /\ KeyTies(a.keys[j], b.keys[j])
                                  /\ KeyTies(b.keys[j], a.keys[j])
        BY <1>6, <3>3
    <3>5. KeyBeats(a.keys[k], b.keys[k]) \/ KeyBeats(b.keys[k], a.keys[k])
        BY <1>7, <3>1
    <3> QED
        BY <1>1, <3>2, <3>4, <3>5 DEF RankLess
  <2> QED
      BY <2>1, <2>2
<1>10. ASSUME RankLess(a, b), RankLess(b, c) PROVE RankLess(a, c)
  <2> DEFINE First(x, y, k) == /\ \A j \in 1 .. (k - 1) : KeyTies(x.keys[j], y.keys[j])
                               /\ KeyBeats(x.keys[k], y.keys[k])
             Tied(x, y) == \A k \in 1 .. n : KeyTies(x.keys[k], y.keys[k])
  <2>1. (\E k \in 1 .. n : First(a, b, k)) \/ (Tied(a, b) /\ a.path.id < b.path.id)
      BY <1>1, <1>10 DEF RankLess
  <2>2. (\E k \in 1 .. n : First(b, c, k)) \/ (Tied(b, c) /\ b.path.id < c.path.id)
      BY <1>1, <1>10 DEF RankLess
  <2>3. SUFFICES (\E k \in 1 .. n : First(a, c, k)) \/ (Tied(a, c) /\ a.path.id < c.path.id)
      BY <1>1 DEF RankLess
  <2>4. ASSUME NEW k \in 1 .. n, First(a, b, k), NEW m \in 1 .. n, First(b, c, m)
        PROVE  \E i \in 1 .. n : First(a, c, i)
    <3>1. CASE k <= m
      <4>1. \A j \in 1 .. (k - 1) : j \in 1 .. n /\ j \in 1 .. (m - 1)
          BY <1>1, <3>1
      <4>2. k = m \/ KeyTies(b.keys[k], c.keys[k])
          BY <1>1, <2>4, <3>1
      <4>3. First(a, c, k)
          BY <1>5, <1>6, <2>4, <4>1, <4>2
      <4> QED
          BY <4>3
    <3>2. CASE m < k
      <4>1. \A j \in 1 .. (m - 1) : j \in 1 .. n /\ j \in 1 .. (k - 1)
          BY <1>1, <3>2
      <4>2. KeyTies(a.keys[m], b.keys[m])
          BY <1>1, <2>4, <3>2
      <4>3. First(a, c, m)
          BY <1>5, <1>6, <2>4, <4>1, <4>2
      <4> QED
          BY <4>3
    <3> QED
        BY <1>1, <3>1, <3>2
  <2>5. ASSUME NEW k \in 1 .. n, First(a, b, k), Tied(b, c)
        PROVE  First(a, c, k)
    <3>1. \A j \in 1 .. (k - 1) : j \in 1 .. n
        BY <1>1
    <3> QED
        BY <1>5, <1>6, <2>5, <3>1
  <2>6. ASSUME NEW k \in 1 .. n, First(b, c, k), Tied(a, b)
        PROVE  First(a, c, k)
    <3>1. \A j \in 1 .. (k - 1) : j \in 1 .. n
        BY <1>1
    <3> QED
        BY <1>5, <1>6, <2>6, <3>1
  <2>7. ASSUME Tied(a, b), Tied(b, c), a.path.id < b.path.id, b.path.id < c.path.id
        PROVE  Tied(a, c) /\ a.path.id < c.path.id
      BY <1>4, <1>6, <2>7
  <2> HIDE DEF First, Tied
  <2> QED
      BY <2>1, <2>2, <2>4, <2>5, <2>6, <2>7
<1> QED
    BY <1>8, <1>9, <1>10

\* The ranking lists every entry once, the lesser ones first.
LEMMA RankSorts ==
    ASSUME NEW entries, IsFiniteSet(entries), NEW n, Rankable(entries, n)
    PROVE  /\ Cardinality(entries) \in Nat
           /\ DOMAIN Rank(entries) = 1 .. Cardinality(entries)
           /\ \A i \in DOMAIN Rank(entries) : Rank(entries)[i] \in entries
           /\ \A e \in entries : \E i \in DOMAIN Rank(entries) : Rank(entries)[i] = e
           /\ \A i, j \in DOMAIN Rank(entries) :
                 i < j => RankLess(Rank(entries)[i], Rank(entries)[j])
           /\ \A i, j \in DOMAIN Rank(entries) : Rank(entries)[i] = Rank(entries)[j] => i = j
<1> DEFINE N == Cardinality(entries)
           below == [e \in entries |-> {f \in entries : RankLess(f, e)}]
           at(i) == CHOOSE e \in entries : Cardinality({f \in entries : RankLess(f, e)}) = i - 1
<1>1. /\ below \in [entries -> SUBSET entries]
      /\ \A x \in entries : x \notin below[x]
      /\ \A x, y \in entries : x \in below[y] => below[x] \subseteq below[y]
      /\ \A x, y \in entries : x = y \/ x \in below[y] \/ y \in below[x]
    BY RankLessIsAnOrder
<1>2. \A x, y \in entries : x \in below[y] <=> RankLess(x, y)
    OBVIOUS
<1>3. \A e \in entries : Cardinality({f \in entries : RankLess(f, e)}) = Cardinality(below[e])
    OBVIOUS
<1>4. DOMAIN Rank(entries) = 1 .. N /\ \A i \in 1 .. N : Rank(entries)[i] = at(i)
    BY DEF Rank
<1> HIDE DEF below
<1>5. /\ N \in Nat
      /\ \A x \in entries : Cardinality(below[x]) \in 0 .. (N - 1)
      /\ \A x, y \in entries : x \in below[y] => Cardinality(below[x]) < Cardinality(below[y])
      /\ \A i \in 1 .. N : \E x \in entries : Cardinality(below[x]) = i - 1
    BY <1>1, EveryPlaceIsTaken
<1>6. \A i \in 1 .. N : at(i) \in entries /\ Cardinality(below[at(i)]) = i - 1
  <2> TAKE i \in 1 .. N
  <2>1. \E e \in entries : Cardinality({f \in entries : RankLess(f, e)}) = i - 1
      BY <1>3, <1>5
  <2>2. at(i) \in entries /\ Cardinality({f \in entries : RankLess(f, at(i))}) = i - 1
      BY <2>1
  <2> QED
      BY <1>3, <2>2
<1> HIDE DEF at
<1>7. ASSUME NEW e \in entries
      PROVE  \E i \in 1 .. N : at(i) = e
  <2>1. Cardinality(below[e]) + 1 \in 1 .. N
      BY <1>5
  <2> DEFINE i == Cardinality(below[e]) + 1
  <2>2. at(i) \in entries /\ Cardinality(below[at(i)]) = Cardinality(below[e])
      BY <1>5, <1>6, <2>1
  <2>3. at(i) = e
      BY <1>1, <1>5, <2>2
  <2> QED
      BY <2>1, <2>3
<1>8. ASSUME NEW i \in 1 .. N, NEW j \in 1 .. N, i < j
      PROVE  RankLess(at(i), at(j))
  <2>1. Cardinality(below[at(i)]) < Cardinality(below[at(j)])
      BY <1>5, <1>6, <1>8
  <2>2. at(i) # at(j) /\ at(j) \notin below[at(i)]
      BY <1>5, <1>6, <2>1
  <2> QED
      BY <1>1, <1>2, <1>6, <2>2
<1>9. ASSUME NEW i \in 1 .. N, NEW j \in 1 .. N, at(i) = at(j)
      PROVE  i = j
    BY <1>5, <1>6, <1>9
<1> HIDE DEF N
<1>10. \A e \in entries : \E i \in DOMAIN Rank(entries) : Rank(entries)[i] = e
    BY <1>4, <1>7
<1>11. \A i, j \in DOMAIN Rank(entries) :
          i < j => RankLess(Rank(entries)[i], Rank(entries)[j])
    BY <1>4, <1>8
<1>12. \A i, j \in DOMAIN Rank(entries) : Rank(entries)[i] = Rank(entries)[j] => i = j
    BY <1>4, <1>9
<1>13. \A i \in DOMAIN Rank(entries) : Rank(entries)[i] \in entries
    BY <1>4, <1>6
<1>14. Cardinality(entries) \in Nat /\ DOMAIN Rank(entries) = 1 .. Cardinality(entries)
    BY <1>4, <1>5 DEF N
<1> QED
    BY <1>10, <1>11, <1>12, <1>13, <1>14

-----------------------------------------------------------------------------
(* The facts a request holds.                                               *)

\* What the parts of a request hold.
LEMMA RequestFields ==
    ASSUME NEW r \in PlacementRequest
    PROVE  /\ r.candidates \in CandidateSet /\ r.capacity \in CapacitySnapshot
           /\ r.qos \in QosProfile /\ r.policy \in PlacementPolicy
           /\ r.evidence \in EvidenceBundle /\ r.expected \in AuthorityExpectation
           /\ r.incumbent \subseteq IncumbentPlacement
           /\ \A i, j \in r.incumbent : i = j
           /\ r.candidates.paths \in Seq(CandidatePath)
           /\ r.capacity.entries \in Seq(PathCapacity)
           /\ r.evidence.entries \in Seq(EvidenceEntry)
<1>1. r.candidates \in CandidateSet /\ r.capacity \in CapacitySnapshot
    BY DEF PlacementRequest
<1>2. r.qos \in QosProfile /\ r.policy \in PlacementPolicy
    BY DEF PlacementRequest
<1>3. r.evidence \in EvidenceBundle /\ r.expected \in AuthorityExpectation
    BY DEF PlacementRequest
<1>4. r.incumbent \in Optional(IncumbentPlacement)
    BY DEF PlacementRequest
<1>5. r.incumbent \subseteq IncumbentPlacement /\ \A i, j \in r.incumbent : i = j
    BY <1>4 DEF Optional
<1>6. r.candidates.paths \in Seq(CandidatePath)
    BY <1>1 DEF CandidateSet
<1>7. r.capacity.entries \in Seq(PathCapacity)
    BY <1>1 DEF CapacitySnapshot
<1>8. r.evidence.entries \in Seq(EvidenceEntry)
    BY <1>3 DEF EvidenceBundle
<1> QED
    BY <1>1, <1>2, <1>3, <1>5, <1>6, <1>7, <1>8

\* What the lists of a policy hold.
LEMMA PolicyFields ==
    ASSUME NEW r \in PlacementRequest
    PROVE  /\ r.policy.objectives \in Seq([kind : Anything, direction : Anything])
           /\ r.policy.affinity_refs \in Seq(ReservationRef)
           /\ r.policy.required_locality \subseteq Nat
           /\ \A x, y \in r.policy.required_locality : x = y
           /\ r.policy.required_domain \subseteq Nat
           /\ \A x, y \in r.policy.required_domain : x = y
           /\ r.policy.allow_degraded \in BOOLEAN /\ r.policy.prefer_incumbent \in BOOLEAN
           /\ r.policy.max_relaxation_steps \in Nat
           /\ r.policy.min_distinct_domains \in Nat
           /\ r.policy.min_residual_headroom_bytes \in Nat
           /\ r.policy.move_improvement_threshold \in Nat
           /\ r.policy.threshold_objective_index \in Nat
<1> DEFINE policy == r.policy
<1>1. policy \in PlacementPolicy
    BY RequestFields
<1> HIDE DEF policy
<1>2. /\ policy.objectives \in Seq([kind : Anything, direction : Anything])
      /\ policy.affinity_refs \in Seq(ReservationRef)
    BY <1>1 DEF PlacementPolicy
<1>3. policy.required_locality \in Optional(Nat) /\ policy.required_domain \in Optional(Nat)
    BY <1>1 DEF PlacementPolicy
<1>4. /\ policy.allow_degraded \in BOOLEAN /\ policy.prefer_incumbent \in BOOLEAN
      /\ policy.max_relaxation_steps \in Nat
      /\ policy.min_distinct_domains \in Nat
      /\ policy.min_residual_headroom_bytes \in Nat
      /\ policy.move_improvement_threshold \in Nat
      /\ policy.threshold_objective_index \in Nat
    BY <1>1 DEF PlacementPolicy
<1>5. /\ policy.required_locality \subseteq Nat /\ policy.required_domain \subseteq Nat
      /\ \A x, y \in policy.required_locality : x = y
      /\ \A x, y \in policy.required_domain : x = y
    BY <1>3 DEF Optional
<1> QED
    BY <1>2, <1>4, <1>5 DEF policy

\* What a candidate holds.
LEMMA CandidateFields ==
    ASSUME NEW r \in PlacementRequest, NEW p \in Candidates(r)
    PROVE  /\ p \in CandidatePath
           /\ p.id \in Nat /\ p.authority \in Nat /\ p.tier \in Nat /\ p.locality \in Nat
           /\ p.failure_domain \in Nat /\ p.cost_micro \in Nat /\ p.latency_nanos \in Nat
           /\ p.hop_count \in Nat /\ p.reservations \in Seq(ReservationRef)
           /\ IsFiniteSet(Candidates(r))
<1>1. r.candidates.paths \in Seq(CandidatePath)
    BY RequestFields
<1>2. p \in CandidatePath
    BY <1>1 DEF Candidates, ToSet
<1>3. IsFiniteSet(Candidates(r))
  <2> DEFINE paths == r.candidates.paths
  <2>1. DOMAIN paths = 1 .. Len(paths) /\ Len(paths) \in Nat
      BY <1>1
  <2>2. IsFiniteSet(DOMAIN paths)
      BY <2>1, FS_Interval
  <2> HIDE DEF paths
  <2>3. paths \in Surjection(DOMAIN paths, {paths[i] : i \in DOMAIN paths})
      BY <1>1 DEF Surjection, paths
  <2>4. IsFiniteSet({paths[i] : i \in DOMAIN paths})
      BY <2>2, <2>3, FS_Surjection
  <2> QED
      BY <2>4 DEF paths, Candidates, ToSet
<1> QED
    BY <1>2, <1>3 DEF CandidatePath

\* A valid request names each candidate once.
LEMMA DistinctIds ==
    ASSUME NEW r \in PlacementRequest, ValidateRequest(r) = "ok",
           NEW p \in Candidates(r), NEW q \in Candidates(r), p.id = q.id
    PROVE  p = q
<1>1. r.candidates.paths \in Seq(CandidatePath)
    BY RequestFields
<1>2. ValidateCandidates(r) = "ok"
    BY RequestOk
<1>3. \A i, j \in DOMAIN r.candidates.paths :
          r.candidates.paths[i].id = r.candidates.paths[j].id => i = j
    BY <1>1, <1>2, CandidatesOk
<1>4. PICK i \in DOMAIN r.candidates.paths : p = r.candidates.paths[i]
    BY DEF Candidates, ToSet
<1>5. PICK j \in DOMAIN r.candidates.paths : q = r.candidates.paths[j]
    BY DEF Candidates, ToSet
<1> QED
    BY <1>3, <1>4, <1>5

\* A valid request gives each candidate an id, an authority and whole references.
LEMMA CandidateIsValid ==
    ASSUME NEW r \in PlacementRequest, ValidateRequest(r) = "ok", NEW p \in Candidates(r)
    PROVE  /\ Valid(p.id) /\ Valid(p.authority)
           /\ \A ref \in ToSet(p.reservations) : ValidRef(ref)
<1>1. r.candidates.paths \in Seq(CandidatePath)
    BY RequestFields
<1>2. ValidateCandidates(r) = "ok"
    BY RequestOk
<1>3. PICK i \in DOMAIN r.candidates.paths : p = r.candidates.paths[i]
    BY DEF Candidates, ToSet
<1>4. ValidateCandidate(p) = "ok"
    BY <1>1, <1>2, <1>3, CandidatesOk
<1> QED
    BY <1>4, CandidateOk

\* A valid request reports the capacity of a path once, and Residual reads it.
LEMMA ResidualIs ==
    ASSUME NEW r \in PlacementRequest, ValidateRequest(r) = "ok", NEW id
    PROVE  /\ Residual(r, id) \in Nat
           /\ \A e \in CapacityOf(r, id) : e.residual_bytes = Residual(r, id)
           /\ CapacityOf(r, id) = {} => Residual(r, id) = 0
<1> DEFINE entries == r.capacity.entries
<1>1. entries \in Seq(PathCapacity)
    BY RequestFields
<1>2. ValidateEntries(entries, ResidualAboveTotal(r)) = "ok"
    BY RequestOk DEF ValidateCapacityAndEvidence
<1>3. CapacityOf(r, id) = {e \in {entries[i] : i \in DOMAIN entries} : e.path = id}
    BY DEF CapacityOf, ToSet
<1> HIDE DEF entries
<1>4. \A i \in DOMAIN entries : entries[i].path \in Nat /\ entries[i].residual_bytes \in Nat
  <2>1. \A i \in DOMAIN entries : entries[i] \in PathCapacity
      BY <1>1
  <2> QED
      BY <2>1 DEF PathCapacity
<1>5. \A i, j \in DOMAIN entries : entries[i].path = entries[j].path => i = j
    BY <1>1, <1>2, <1>4, EntriesOk
<1>6. \A e, f \in CapacityOf(r, id) : e = f
    BY <1>3, <1>5
<1>7. \A e \in CapacityOf(r, id) : e.residual_bytes \in Nat
    BY <1>3, <1>4
<1>8. CASE CapacityOf(r, id) = {}
    BY <1>8 DEF Residual
<1>9. CASE CapacityOf(r, id) # {}
  <2> DEFINE e == CHOOSE e \in CapacityOf(r, id) : TRUE
  <2>1. e \in CapacityOf(r, id) /\ Residual(r, id) = e.residual_bytes
      BY <1>9 DEF Residual
  <2> HIDE DEF e
  <2> QED
      BY <1>6, <1>7, <1>9, <2>1
<1> QED
    BY <1>8, <1>9

\* A valid request reports the utilization of a path at most once.
LEMMA EvidenceIsUnique ==
    ASSUME NEW r \in PlacementRequest, ValidateRequest(r) = "ok", NEW id
    PROVE  /\ \A e, f \in EvidenceOf(r, id) : e = f
           /\ \A e \in EvidenceOf(r, id) :
                 e.utilization_ppb \in Nat /\ e.utilization_ppb <= 1000000000
<1> DEFINE entries == r.evidence.entries
           bad == UtilizationAboveOne(r)
<1>1. entries \in Seq(EvidenceEntry)
    BY RequestFields
<1>2. ValidateEntries(entries, bad) = "ok"
    BY RequestOk DEF ValidateCapacityAndEvidence
<1>3. EvidenceOf(r, id) = {e \in {entries[i] : i \in DOMAIN entries} : e.path = id}
    BY DEF EvidenceOf, ToSet
<1>4. \A i \in DOMAIN entries : entries[i] \notin bad => ~(entries[i].utilization_ppb > 1000000000)
    BY DEF UtilizationAboveOne, ToSet
<1> HIDE DEF entries, bad
<1>5. \A i \in DOMAIN entries : entries[i].path \in Nat /\ entries[i].utilization_ppb \in Nat
  <2>1. \A i \in DOMAIN entries : entries[i] \in EvidenceEntry
      BY <1>1
  <2> QED
      BY <2>1 DEF EvidenceEntry
<1>6. /\ \A i, j \in DOMAIN entries : entries[i].path = entries[j].path => i = j
      /\ \A i \in DOMAIN entries : entries[i] \notin bad
    BY <1>1, <1>2, <1>5, EntriesOk
<1>7. \A e, f \in EvidenceOf(r, id) : e = f
    BY <1>3, <1>6
<1>8. \A i \in DOMAIN entries :
          entries[i].utilization_ppb \in Nat /\ entries[i].utilization_ppb <= 1000000000
    BY <1>4, <1>5, <1>6
<1> QED
    BY <1>3, <1>7, <1>8

\* The headroom a class asks for is at least the base, and does not overflow in a
\* valid request.
LEMMA HeadroomIs ==
    ASSUME NEW r \in PlacementRequest, ValidateRequest(r) = "ok"
    PROVE  /\ RequiredBase(r) \in Nat /\ RequiredHeadroom(r) \in Nat
           /\ Multiplier(r) \in 1 .. 3
           /\ RequiredHeadroom(r) = RequiredBase(r) * Multiplier(r)
           /\ RequiredHeadroom(r) >= RequiredBase(r)
           /\ RequiredHeadroom(r) <= MaxU64
           /\ ~HeadroomOverflows(r)
<1>1. RequiredBase(r) \in Nat
    BY RequestFields DEF RequiredBase, QosProfile
<1>2. Multiplier(r) \in 1 .. 3
    BY DEF Multiplier, ServiceHeadroomMultiplier
<1>3. ~HeadroomOverflows(r)
    BY RequestOk, PolicyOk DEF Consistent, HeadroomOverflows, RequiredBase, Multiplier
<1>4. RequiredHeadroom(r) = RequiredBase(r) * Multiplier(r)
    BY <1>3 DEF RequiredHeadroom
<1>5. Multiplier(r) = 1 \/ Multiplier(r) = 2 \/ Multiplier(r) = 3
    BY <1>2
<1>6. RequiredHeadroom(r) \in Nat /\ RequiredHeadroom(r) >= RequiredBase(r)
    BY <1>1, <1>4, <1>5
<1>7. RequiredHeadroom(r) <= MaxU64
    BY <1>3, <1>4, <1>6, MaxU64Assumption DEF HeadroomOverflows, MulOverflows
<1> QED
    BY <1>1, <1>2, <1>3, <1>4, <1>6, <1>7

\* The image of a finite set under a function is finite.
LEMMA RangeIsFinite ==
    ASSUME NEW f, IsFiniteSet(DOMAIN f)
    PROVE  /\ IsFiniteSet({f[x] : x \in DOMAIN f})
           /\ Cardinality({f[x] : x \in DOMAIN f}) <= Cardinality(DOMAIN f)
<1> DEFINE g == [x \in DOMAIN f |-> f[x]]
           T == {f[x] : x \in DOMAIN f}
<1>1. g \in Surjection(DOMAIN f, T)
    BY DEF Surjection
<1> HIDE DEF g, T
<1>2. IsFiniteSet(T) /\ Cardinality(T) <= Cardinality(DOMAIN f)
    BY <1>1, FS_Surjection
<1> QED
    BY <1>2 DEF T

-----------------------------------------------------------------------------
(* The keys of a candidate and the ranking of the legal ones.               *)

\* A key is UNKNOWN, without a value, or known with a number.
LEMMA KeyIs ==
    ASSUME NEW r \in PlacementRequest, ValidateRequest(r) = "ok", NEW p \in Candidates(r),
           NEW kind \in ObjectiveKinds
    PROVE  \/ ObjectiveKey(r, p, kind) = Unknown
           \/ \E n \in Nat : ObjectiveKey(r, p, kind) = Known(n)
<1>1. /\ p.tier \in Nat /\ p.cost_micro \in Nat /\ p.latency_nanos \in Nat /\ p.hop_count \in Nat
    BY CandidateFields
<1>2. Residual(r, p.id) \in Nat
    BY ResidualIs
<1>3. ASSUME NEW b PROVE \E n \in Nat : Flag(b) = Known(n)
    BY DEF Flag
<1>4. CASE kind \in {"cost", "latency", "hop_count", "tier"}
    BY <1>1, <1>4 DEF ObjectiveKey
<1>5. CASE kind = "residual_capacity"
    BY <1>2, <1>5 DEF ObjectiveKey
<1>6. CASE kind = "congestion"
  <2>1. CASE EvidenceKnown(r, p)
    <3> DEFINE e == CHOOSE e \in EvidenceOf(r, p.id) : TRUE
    <3>1. ObjectiveKey(r, p, kind) = Known(e.utilization_ppb)
        BY <1>6, <2>1 DEF ObjectiveKey
    <3>2. e \in EvidenceOf(r, p.id)
        BY <2>1 DEF EvidenceKnown
    <3> HIDE DEF e
    <3> QED
        BY <3>1, <3>2, EvidenceIsUnique
  <2>2. CASE ~EvidenceKnown(r, p)
      BY <1>6, <2>2 DEF ObjectiveKey
  <2> QED
      BY <2>1, <2>2
<1>7. CASE kind = "locality_affinity"
  <2>1. ObjectiveKey(r, p, kind) = Flag(r.policy.preferred_locality \ {p.locality} # {})
      BY <1>7 DEF ObjectiveKey
  <2> QED
      BY <1>3, <2>1
<1>8. CASE kind = "reservation_affinity"
  <2>1. ObjectiveKey(r, p, kind) = Flag(r.policy.affinity_refs # <<>> /\ ~Affine(r, p))
      BY <1>8 DEF ObjectiveKey
  <2> QED
      BY <1>3, <2>1
<1>9. CASE kind = "incumbent_stability"
  <2>1. ObjectiveKey(r, p, kind) = StabilityKey(r, p)
      BY <1>9 DEF ObjectiveKey
  <2> QED
      BY <1>3, <2>1 DEF StabilityKey
<1> QED
    BY <1>4, <1>5, <1>6, <1>7, <1>8, <1>9 DEF ObjectiveKinds

\* The entry of a candidate: its path, and a key for each objective.
LEMMA EntryIs ==
    ASSUME NEW r \in PlacementRequest, ValidateRequest(r) = "ok", NEW p \in Candidates(r)
    PROVE  LET n == Len(r.policy.objectives)
               e == BuildRankEntry(r, p)
           IN /\ n \in Nat /\ DOMAIN r.policy.objectives = 1 .. n
              /\ e.path = p /\ DOMAIN e.keys = 1 .. n
              /\ \A k \in 1 .. n :
                    LET o == r.policy.objectives[k]
                        key == ObjectiveKey(r, p, o.kind)
                    IN /\ e.keys[k] \in Key
                       /\ o.kind \in ObjectiveKinds /\ o.direction \in Directions
                       /\ e.keys[k].known = key.known /\ e.keys[k].value = key.value
                       /\ e.keys[k].direction = o.direction
                       /\ key = Unknown \/ \E v \in Nat : key = Known(v)
<1> DEFINE objectives == r.policy.objectives
           n == Len(objectives)
           e == BuildRankEntry(r, p)
<1>1. n \in Nat /\ DOMAIN objectives = 1 .. n
    BY PolicyFields
<1>2. \A k \in 1 .. n : objectives[k].kind \in ObjectiveKinds /\ objectives[k].direction \in Directions
    BY <1>1, RequestOk, EnumerationsOk DEF ToSet
<1>3. e.path = p /\ DOMAIN e.keys = DOMAIN objectives
    BY DEF BuildRankEntry
<1>4. ASSUME NEW k \in DOMAIN objectives
      PROVE  /\ e.keys[k].known = ObjectiveKey(r, p, objectives[k].kind).known
             /\ e.keys[k].value = ObjectiveKey(r, p, objectives[k].kind).value
             /\ e.keys[k].direction = objectives[k].direction
             /\ DOMAIN e.keys[k] = {"known", "value", "direction"}
             /\ e.keys[k] = [known |-> e.keys[k].known, value |-> e.keys[k].value,
                             direction |-> e.keys[k].direction]
    BY DEF BuildRankEntry
<1> HIDE DEF objectives, e, n
<1>5. ASSUME NEW k \in 1 .. n
      PROVE  LET key == ObjectiveKey(r, p, objectives[k].kind)
             IN key = Unknown \/ \E v \in Nat : key = Known(v)
    BY <1>2, KeyIs
<1>6. ASSUME NEW k \in 1 .. n
      PROVE  e.keys[k] \in Key
  <2> DEFINE key == ObjectiveKey(r, p, objectives[k].kind)
  <2>1. e.keys[k].known = key.known /\ e.keys[k].value = key.value
      BY <1>1, <1>4
  <2>2. key = Unknown \/ \E v \in Nat : key = Known(v)
      BY <1>5
  <2>3. e.keys[k].direction \in Directions
      BY <1>1, <1>2, <1>4
  <2>4. e.keys[k] = [known |-> e.keys[k].known, value |-> e.keys[k].value,
                     direction |-> e.keys[k].direction]
      BY <1>1, <1>4
  <2> HIDE DEF key
  <2>5. CASE key = Unknown
    <3>1. key.known \in BOOLEAN /\ key.value = 0
        BY <2>5 DEF Unknown
    <3> QED
        BY <2>1, <2>3, <2>4, <3>1 DEF Key
  <2>6. ASSUME NEW v \in Nat, key = Known(v) PROVE e.keys[k] \in Key
    <3>1. key.known \in BOOLEAN /\ key.value = v
        BY <2>6 DEF Known
    <3> QED
        BY <2>1, <2>3, <2>4, <3>1 DEF Key
  <2> QED
      BY <2>2, <2>5, <2>6
<1>7. ASSUME NEW k \in 1 .. n
      PROVE  LET o == objectives[k]
                 key == ObjectiveKey(r, p, o.kind)
             IN /\ e.keys[k] \in Key
                /\ o.kind \in ObjectiveKinds /\ o.direction \in Directions
                /\ e.keys[k].known = key.known /\ e.keys[k].value = key.value
                /\ e.keys[k].direction = o.direction
                /\ key = Unknown \/ \E v \in Nat : key = Known(v)
    BY <1>1, <1>2, <1>4, <1>5, <1>6
<1> QED
    BY <1>1, <1>3, <1>7 DEF objectives, e, n

\* The legal entries of a valid request can be ranked.
LEMMA LegalIsRankable ==
    ASSUME NEW r \in PlacementRequest, ValidateRequest(r) = "ok"
    PROVE  /\ LegalPaths(r) \subseteq Candidates(r)
           /\ IsFiniteSet(LegalPaths(r)) /\ IsFiniteSet(LegalEntries(r))
           /\ Rankable(LegalEntries(r), Len(r.policy.objectives))
           /\ {e.path : e \in LegalEntries(r)} = LegalPaths(r)
           /\ \A e \in LegalEntries(r) : e.path \in LegalPaths(r) /\ e = BuildRankEntry(r, e.path)
           /\ \A p \in LegalPaths(r) : BuildRankEntry(r, p) \in LegalEntries(r)
<1> DEFINE paths == LegalPaths(r)
           n == Len(r.policy.objectives)
           entry == [p \in paths |-> BuildRankEntry(r, p)]
           legal == LegalEntries(r)
<1>1. paths \subseteq Candidates(r)
    BY DEF LegalPaths
<1>2. IsFiniteSet(paths)
  <2>1. CASE paths = {}
      BY <2>1, FS_EmptySet
  <2>2. CASE paths # {}
      BY <1>1, <2>2, CandidateFields, FS_Subset
  <2> QED
      BY <2>1, <2>2
<1>3. legal = {entry[p] : p \in paths} /\ DOMAIN entry = paths
    BY DEF LegalEntries
<1>4. \A p \in paths : entry[p] = BuildRankEntry(r, p)
    OBVIOUS
<1> HIDE DEF paths, entry, legal
<1>5. IsFiniteSet(legal)
    BY <1>2, <1>3, RangeIsFinite
<1>6. \A p \in paths : entry[p].path = p
    BY <1>1, <1>4, EntryIs
<1>7. {e.path : e \in legal} = paths
    BY <1>3, <1>6
<1>8. \A e \in legal : e.path \in paths /\ e = entry[e.path]
    BY <1>3, <1>6
<1>9. \A e \in legal : e = BuildRankEntry(r, e.path) /\ e.path \in Candidates(r)
    BY <1>1, <1>4, <1>8
<1>10. n \in Nat
    BY PolicyFields
<1> HIDE DEF n
<1>11. ASSUME NEW e \in legal
       PROVE  /\ DOMAIN e.keys = 1 .. n
              /\ \A k \in 1 .. n : e.keys[k] \in Key
              /\ \A k \in 1 .. n : e.keys[k].direction = r.policy.objectives[k].direction
              /\ e.path.id \in Nat
  <2>1. e = BuildRankEntry(r, e.path) /\ e.path \in Candidates(r)
      BY <1>9
  <2>2. e.path.id \in Nat
      BY <2>1, CandidateFields
  <2> DEFINE p == e.path
  <2> HIDE DEF p
  <2>3. e = BuildRankEntry(r, p) /\ p \in Candidates(r)
      BY <2>1 DEF p
  <2>4. /\ DOMAIN e.keys = 1 .. n
        /\ \A k \in 1 .. n : e.keys[k] \in Key
        /\ \A k \in 1 .. n : e.keys[k].direction = r.policy.objectives[k].direction
      BY <2>3, EntryIs DEF n
  <2> QED
      BY <2>2, <2>4
<1>12. ASSUME NEW e \in legal, NEW f \in legal, e.path.id = f.path.id
       PROVE  e = f
    BY <1>8, <1>9, <1>12, DistinctIds
<1>13. Rankable(legal, n)
    BY <1>10, <1>11, <1>12 DEF Rankable
<1> QED
    BY <1>1, <1>2, <1>3, <1>4, <1>5, <1>7, <1>8, <1>9, <1>13 DEF paths, legal, n

-----------------------------------------------------------------------------
(* The intent.                                                              *)

\* Of a set of references one comes first.
LEMMA LowestReference ==
    ASSUME NEW S, S \subseteq ReservationRef, S # {}
    PROVE  \E ref \in S : \A other \in S : ~RefLess(other, ref)
<1>1. \A x \in S : x.id \in Nat /\ x.generation \in Nat
    BY DEF ReservationRef
<1> DEFINE ids == {x.id : x \in S}
<1>2. PICK a \in ids : \A b \in ids : a <= b
  <2>1. ids \subseteq Nat /\ ids # {}
      BY <1>1
  <2> QED
      BY <2>1, LeastNumber
<1> DEFINE generations == {x.generation : x \in {y \in S : y.id = a}}
<1>3. PICK g \in generations : \A h \in generations : g <= h
  <2>1. generations \subseteq Nat /\ generations # {}
      BY <1>1, <1>2
  <2> QED
      BY <2>1, LeastNumber
<1>4. PICK ref \in S : ref.id = a /\ ref.generation = g
    BY <1>3
<1>5. ASSUME NEW other \in S PROVE ~RefLess(other, ref)
  <2>1. a <= other.id
      BY <1>2
  <2>2. other.id = a => g <= other.generation
      BY <1>3
  <2>3. a \in Nat /\ g \in Nat /\ other.id \in Nat /\ other.generation \in Nat
      BY <1>1, <1>4
  <2> QED
      BY <1>4, <2>1, <2>2, <2>3 DEF RefLess
<1> QED
    BY <1>5

\* The reservation an intent names is one of the path, or none.
LEMMA ReservationIs ==
    ASSUME NEW r \in PlacementRequest, NEW p \in Candidates(r)
    PROVE  \/ Reservation(r, p) = NoRef
           \/ Reservation(r, p) \in ToSet(p.reservations)
<1> DEFINE affine == {k \in DOMAIN p.reservations :
                         p.reservations[k] \in ToSet(r.policy.affinity_refs)}
           all == ToSet(p.reservations)
<1>1. p.reservations \in Seq(ReservationRef)
    BY CandidateFields
<1>2. CASE affine # {}
  <2> DEFINE k == CHOOSE k \in affine : \A j \in affine : k <= j
  <2>1. affine \subseteq Nat
      BY <1>1
  <2>2. \E i \in affine : \A j \in affine : i <= j
      BY <1>2, <2>1, LeastNumber
  <2>3. k \in affine
      BY <2>2
  <2>4. Reservation(r, p) = p.reservations[k]
      BY <1>2 DEF Reservation
  <2> QED
      BY <2>3, <2>4 DEF ToSet
<1>3. CASE affine = {}
  <2>1. CASE ServiceRequiresReservation(r.qos.service_class) /\ all # {}
    <3> DEFINE low == CHOOSE ref \in all : \A other \in all : ~RefLess(other, ref)
    <3>1. all \subseteq ReservationRef
        BY <1>1 DEF ToSet
    <3>2. \E ref \in all : \A other \in all : ~RefLess(other, ref)
        BY <2>1, <3>1, LowestReference
    <3>3. low \in all
        BY <3>2
    <3>4. Reservation(r, p) = low
        BY <1>3, <2>1 DEF Reservation
    <3> QED
        BY <3>3, <3>4
  <2>2. CASE ~(ServiceRequiresReservation(r.qos.service_class) /\ all # {})
      BY <1>3, <2>2 DEF Reservation
  <2> QED
      BY <2>1, <2>2
<1> QED
    BY <1>2, <1>3

\* The intent of a legal path passes the engine's own check of it.
LEMMA IntentVerifies ==
    ASSUME NEW r \in PlacementRequest, ValidateRequest(r) = "ok", NEW p \in LegalPaths(r)
    PROVE  VerifyIntent(r, Intent(r, p))
<1> DEFINE i == Intent(r, p)
<1>1. p \in Candidates(r) /\ ExclusionReason(r, p) = "ok"
    BY DEF LegalPaths
<1>2. p.authority = r.expected.path_authority
    BY <1>1, ExclusionReasonOk
<1>3. /\ i.flow = r.flow /\ i.flow_generation = r.flow_generation
      /\ i.path = p.id /\ i.path_authority = p.authority
      /\ i.candidate_set = r.candidates.id
      /\ i.candidate_set_generation = r.candidates.generation
      /\ i.capacity = r.capacity.id /\ i.capacity_generation = r.capacity.generation
      /\ i.policy = r.policy.id /\ i.policy_generation = r.policy.generation
      /\ i.qos = r.qos.id /\ i.qos_generation = r.qos.generation
      /\ i.fabric_epoch = r.expected.fabric_epoch
      /\ i.reservation = Reservation(r, p)
      /\ i.evidence = IntentEvidence(r)[1] /\ i.evidence_generation = IntentEvidence(r)[2]
    BY DEF Intent
<1> HIDE DEF i
<1>4. IF Valid(i.evidence_generation)
      THEN /\ i.evidence_generation = r.evidence.generation
           /\ i.evidence = r.evidence.id
           /\ i.evidence_generation = r.expected.evidence
      ELSE ~Valid(i.evidence)
  <2>1. CASE EvidenceTrusted(r)
    <3>1. i.evidence = r.evidence.id /\ i.evidence_generation = r.evidence.generation
        BY <1>3, <2>1 DEF IntentEvidence
    <3> QED
        BY <2>1, <3>1 DEF EvidenceTrusted, EvidencePresent
  <2>2. CASE ~EvidenceTrusted(r)
    <3>1. i.evidence = 0 /\ i.evidence_generation = 0
        BY <1>3, <2>2 DEF IntentEvidence
    <3> QED
        BY <3>1 DEF Valid
  <2> QED
      BY <2>1, <2>2
<1>5. ValidRef(i.reservation) => i.reservation \in ToSet(p.reservations)
  <2>1. i.reservation = NoRef \/ i.reservation \in ToSet(p.reservations)
      BY <1>1, <1>3, ReservationIs
  <2>2. ~ValidRef(NoRef)
      BY DEF ValidRef, NoRef, Valid
  <2> QED
      BY <2>1, <2>2
<1>6. VerifyIntent(r, i)
    BY <1>1, <1>2, <1>3, <1>4, <1>5 DEF VerifyIntent
<1> QED
    BY <1>6 DEF i

-----------------------------------------------------------------------------
(* The decision, stage by stage.                                            *)

\* A decision has its six parts and the ten parts of its explanation.
Shaped(d) ==
    /\ DOMAIN d = {"outcome", "code", "intent", "authority", "delta", "explanation"}
    /\ DOMAIN d.explanation =
          {"truncated", "candidate_count", "legal_candidate_count", "excluded_candidate_count",
           "unknown_evidence_count", "distinct_failure_domains", "ranked", "exclusions",
           "degradations", "binding"}

\* A rejection carries the outcome of its code, no intent, and counts nothing.
LEMMA RejectIs ==
    ASSUME NEW r, NEW code
    PROVE  LET d == Reject(r, code)
           IN /\ Shaped(d) /\ d.code = code /\ d.outcome = OutcomeForValidationCode(code)
              /\ d.intent = {} /\ d.delta = "no_incumbent" /\ d.authority = BuildAuthority(r)
              /\ d.explanation = NoExplanation
              /\ d.explanation.candidate_count = 0
BY DEF Reject, Shaped, NoExplanation

\* A stale request is rejected after its candidates were counted.
LEMMA CountedIs ==
    ASSUME NEW r, NEW code
    PROVE  LET d == Counted(r, code)
           IN /\ d.code = code /\ d.outcome = OutcomeForValidationCode(code)
              /\ d.intent = {} /\ d.delta = "no_incumbent"
BY RejectIs DEF Counted, Shaped

\* The decision after the scan.
LEMMA ScannedIs ==
    ASSUME NEW r, NEW legal, NEW rec
    PROVE  LET d == Scanned(r, legal, rec)
           IN /\ Shaped(d) /\ d.code = "ok" /\ d.intent = {}
              /\ d.delta \in {"no_incumbent", "kept", "replaced_stale"}
              /\ d.explanation.degradations = {}
<1> DEFINE x == [NoExplanation EXCEPT
                !.candidate_count = Len(r.candidates.paths),
                !.legal_candidate_count = Cardinality(legal),
                !.excluded_candidate_count = Len(r.candidates.paths) - Cardinality(legal),
                !.unknown_evidence_count = Cardinality({e \in legal : HasUnknown(e)}),
                !.distinct_failure_domains = Cardinality(DomainsOf({e.path : e \in legal})),
                !.exclusions = Summaries(rec),
                !.truncated = rec.truncated]
           delta == IF r.incumbent = {} THEN "no_incumbent"
                    ELSE IF EligibleIncumbent(r) # {} THEN "kept" ELSE "replaced_stale"
           d == Scanned(r, legal, rec)
<1>1. d = [Reject(r, "ok") EXCEPT !.delta = delta, !.explanation = x]
    BY DEF Scanned
<1>2. /\ DOMAIN x = {"truncated", "candidate_count", "legal_candidate_count",
                     "excluded_candidate_count", "unknown_evidence_count",
                     "distinct_failure_domains", "ranked", "exclusions", "degradations", "binding"}
      /\ x.degradations = {}
    BY DEF NoExplanation
<1>3. delta \in {"no_incumbent", "kept", "replaced_stale"}
    OBVIOUS
<1> HIDE DEF x, delta, d
<1>4. DOMAIN d = DOMAIN Reject(r, "ok") /\ d.explanation = x /\ d.delta = delta
    BY <1>1, RejectIs DEF Shaped
<1>5. d.code = "ok" /\ d.intent = {}
    BY <1>1, RejectIs DEF Shaped
<1>6. Shaped(d)
    BY <1>2, <1>4, RejectIs DEF Shaped
<1> QED
    BY <1>2, <1>3, <1>4, <1>5, <1>6 DEF d

\* The failure domains counted are those of the legal paths.
LEMMA ScannedDomains ==
    ASSUME NEW r, NEW legal, NEW rec
    PROVE  Scanned(r, legal, rec).explanation.distinct_failure_domains =
              Cardinality(DomainsOf({e.path : e \in legal}))
BY DEF Scanned, Reject, NoExplanation

\* The ranking and the churn flags leave the verdict of a decision alone.
LEMMA ChurnedIs ==
    ASSUME NEW r, NEW d, Shaped(d), NEW ranked, NEW flags
    PROVE  LET c == WithFlags(Ranked(r, d, ranked), flags)
           IN /\ Shaped(c) /\ c.code = d.code /\ c.intent = d.intent
              /\ c.delta = d.delta /\ c.outcome = d.outcome
              /\ d.explanation.degradations = {} => c.explanation.degradations = flags
<1> DEFINE e == Ranked(r, d, ranked)
           c == WithFlags(e, flags)
<1>1. /\ DOMAIN e = DOMAIN d /\ DOMAIN e.explanation = DOMAIN d.explanation
      /\ e.code = d.code /\ e.intent = d.intent /\ e.delta = d.delta /\ e.outcome = d.outcome
      /\ e.explanation.degradations = d.explanation.degradations
    BY DEF Ranked, Shaped
<1> HIDE DEF e
<1>2. Shaped(e)
    BY <1>1 DEF Shaped
<1>3. /\ DOMAIN c = DOMAIN e /\ DOMAIN c.explanation = DOMAIN e.explanation
      /\ c.code = e.code /\ c.intent = e.intent /\ c.delta = e.delta /\ c.outcome = e.outcome
      /\ e.explanation.degradations = {} => c.explanation.degradations = flags
    BY <1>2 DEF WithFlags, Shaped
<1> HIDE DEF c
<1>4. Shaped(c)
    BY <1>2, <1>3 DEF Shaped
<1> QED
    BY <1>1, <1>3, <1>4 DEF c, e

\* A move that is suppressed, and an admission that is.
LEMMA DeferredIs ==
    ASSUME NEW r, NEW d, Shaped(d), NEW p
    PROVE  /\ LET c == DeferMove(r, d)
              IN /\ c.outcome = "deferred" /\ c.code = "policy_move_suppressed"
                 /\ c.intent = d.intent /\ c.delta \in {"moved", "replaced_stale"}
           /\ LET c == DeferAdmission(r, d, p)
              IN /\ c.outcome = "deferred" /\ c.code = "policy_headroom_gate"
                 /\ c.intent = d.intent /\ c.delta = d.delta
<1>1. LET c == DeferMove(r, d)
      IN /\ c.outcome = "deferred" /\ c.code = "policy_move_suppressed"
         /\ c.intent = d.intent /\ c.delta \in {"moved", "replaced_stale"}
    BY DEF DeferMove, Shaped
<1>2. LET c == DeferAdmission(r, d, p)
      IN /\ c.outcome = "deferred" /\ c.code = "policy_headroom_gate"
         /\ c.intent = d.intent /\ c.delta = d.delta
    BY DEF DeferAdmission, WithBinding, Shaped
<1> QED
    BY <1>1, <1>2

\* Too few failure domains.
LEMMA UndiversifiedIs ==
    ASSUME NEW r, NEW d, Shaped(d)
    PROVE  LET c == Undiversified(r, d)
           IN /\ c.outcome = "no_legal_path" /\ c.code = "failure_domain_diversity_unmet"
              /\ c.intent = d.intent /\ c.delta = d.delta
BY DEF Undiversified, WithBinding, Shaped

\* An empty legal set.
LEMMA EmptyLegalSetIs ==
    ASSUME NEW r, NEW d, Shaped(d), NEW rec
    PROVE  LET c == EmptyLegalSet(r, d, rec)
           IN /\ c.outcome = Classify(r, rec)[2] /\ c.code = Classify(r, rec)[3]
              /\ c.intent = d.intent /\ c.delta = d.delta
BY DEF EmptyLegalSet, Shaped

\* A placement whose intent passes the check.
LEMMA PlaceOnIs ==
    ASSUME NEW r, NEW d, Shaped(d), NEW entry, VerifyIntent(r, Intent(r, entry.path))
    PROVE  LET c == PlaceOn(r, d, entry)
               flags == d.explanation.degradations \cup PlacementFlags(r, entry)
           IN /\ c.outcome = IF flags \cap DegradingFlags = {} THEN "placed"
                             ELSE "placed_degraded"
              /\ c.code = "ok" /\ c.intent = {Intent(r, entry.path)}
              /\ c.delta = FinalDelta(r, entry.path)
<1> DEFINE f == WithFlags(d, PlacementFlags(r, entry))
           flags == d.explanation.degradations \cup PlacementFlags(r, entry)
<1>1. /\ DOMAIN f = DOMAIN d /\ DOMAIN f.explanation = DOMAIN d.explanation
      /\ f.explanation.degradations = flags
    BY DEF WithFlags, Shaped
<1>2. Shaped(f)
    BY <1>1 DEF Shaped
<1>3. PlaceOn(r, d, entry) =
          [f EXCEPT !.delta = FinalDelta(r, entry.path),
                    !.explanation.binding = @ \o PlacementBindings(r, entry.path),
                    !.outcome = IF f.explanation.degradations \cap DegradingFlags = {}
                                THEN "placed" ELSE "placed_degraded",
                    !.code = "ok", !.intent = {Intent(r, entry.path)}]
    BY DEF PlaceOn
<1> HIDE DEF f, flags
<1> QED
    BY <1>1, <1>2, <1>3 DEF Shaped, flags

\* A table that has a row that applies answers with the first such row.
LEMMA FirstRowIs ==
    ASSUME NEW table, DOMAIN table \subseteq Nat, \E i \in DOMAIN table : table[i][1]
    PROVE  \E i \in DOMAIN table :
              /\ table[i][1] /\ FirstRow(table) = table[i]
              /\ \A j \in DOMAIN table : table[j][1] => i <= j
<1> DEFINE applies == {i \in DOMAIN table : table[i][1]}
           first == CHOOSE i \in applies : \A j \in applies : i <= j
<1>1. \E i \in applies : \A j \in applies : i <= j
    BY LeastNumber
<1>2. first \in applies /\ \A j \in applies : first <= j
    BY <1>1
<1>3. FirstRow(table) = table[first]
    BY DEF FirstRow
<1> QED
    BY <1>2, <1>3

\* The reasons recorded, all of one category.
AllOf(rec, category) == DOMAIN rec.entries # {} /\ DOMAIN rec.entries \subseteq category
StaleCount(rec) == IF "path_authority_stale" \in DOMAIN rec.entries
                   THEN rec.entries["path_authority_stale"].count ELSE 0

\* The outcome of an empty legal set: policy and capacity are blamed when every
\* recorded reason is theirs, and no code says "ok".
LEMMA ClassifyIs ==
    ASSUME NEW r, NEW rec
    PROVE  LET row == Classify(r, rec)
               count == Len(r.candidates.paths)
           IN /\ row[2] \in {"no_legal_path", "stale_input", "policy_rejected",
                             "insufficient_capacity"}
              /\ row[3] \in {"not_found", "stale_authority_generation", "stale_evidence",
                             "policy_rejected_all_paths", "service_class_unsatisfied",
                             "capacity_insufficient", "latency_budget_unmet"}
              /\ row[2] = "policy_rejected" => AllOf(rec, PolicyReasons)
              /\ row[2] = "insufficient_capacity" => AllOf(rec, CapacityReasons)
              /\ /\ count # 0 /\ StaleCount(rec) # count
                 /\ ~AllOf(rec, StalenessReasons) /\ AllOf(rec, PolicyReasons)
                 => row[2] = "policy_rejected"
<1> DEFINE count == Len(r.candidates.paths)
           table == <<
        <<count = 0, "no_legal_path", "not_found">>,
        <<StaleCount(rec) = count, "stale_input", "stale_authority_generation">>,
        <<AllOf(rec, StalenessReasons), "stale_input", "stale_evidence">>,
        <<AllOf(rec, PolicyReasons), "policy_rejected", "policy_rejected_all_paths">>,
        <<AllOf(rec, ServiceReasons), "no_legal_path", "service_class_unsatisfied">>,
        <<AllOf(rec, {"capacity_unknown"}), "insufficient_capacity", "not_found">>,
        <<AllOf(rec, CapacityReasons), "insufficient_capacity", "capacity_insufficient">>,
        <<AllOf(rec, QosReasons), "no_legal_path", "latency_budget_unmet">>,
        <<TRUE, "no_legal_path", "not_found">> >>
<1>1. Classify(r, rec) = FirstRow(table)
    BY DEF Classify, StaleCount, AllOf
<1>2. DOMAIN table = 1 .. 9 /\ table[9][1]
    OBVIOUS
<1>3. \A i \in 1 .. 9 : i = 1 \/ i = 2 \/ i = 3 \/ i = 4 \/ i = 5 \/ i = 6 \/ i = 7 \/ i = 8 \/ i = 9
    OBVIOUS
<1>4. /\ table[1][1] <=> count = 0
      /\ table[1][2] = "no_legal_path" /\ table[1][3] = "not_found"
    OBVIOUS
<1>5. /\ table[2][1] <=> StaleCount(rec) = count
      /\ table[2][2] = "stale_input" /\ table[2][3] = "stale_authority_generation"
    OBVIOUS
<1>6. /\ table[3][1] <=> AllOf(rec, StalenessReasons)
      /\ table[3][2] = "stale_input" /\ table[3][3] = "stale_evidence"
    OBVIOUS
<1>7. /\ table[4][1] <=> AllOf(rec, PolicyReasons)
      /\ table[4][2] = "policy_rejected" /\ table[4][3] = "policy_rejected_all_paths"
    OBVIOUS
<1>8. table[5][2] = "no_legal_path" /\ table[5][3] = "service_class_unsatisfied"
    OBVIOUS
<1>9. /\ table[6][1] <=> AllOf(rec, {"capacity_unknown"})
      /\ table[6][2] = "insufficient_capacity" /\ table[6][3] = "not_found"
    OBVIOUS
<1>10. /\ table[7][1] <=> AllOf(rec, CapacityReasons)
       /\ table[7][2] = "insufficient_capacity" /\ table[7][3] = "capacity_insufficient"
    OBVIOUS
<1>11. table[8][2] = "no_legal_path" /\ table[8][3] = "latency_budget_unmet"
    OBVIOUS
<1>12. table[9][2] = "no_legal_path" /\ table[9][3] = "not_found"
    OBVIOUS
<1>13. AllOf(rec, {"capacity_unknown"}) => AllOf(rec, CapacityReasons)
    BY DEF AllOf, CapacityReasons
<1> HIDE DEF table, count
<1>14. PICK i \in 1 .. 9 : /\ table[i][1] /\ FirstRow(table) = table[i]
                           /\ \A j \in 1 .. 9 : table[j][1] => i <= j
  <2>1. DOMAIN table \subseteq Nat /\ \E i \in DOMAIN table : table[i][1]
      BY <1>2
  <2> QED
      BY <1>2, <2>1, FirstRowIs
<1> DEFINE row == Classify(r, rec)
<1>15. row = table[i]
    BY <1>1, <1>14
<1> HIDE DEF row
<1>16. /\ row[2] \in {"no_legal_path", "stale_input", "policy_rejected", "insufficient_capacity"}
       /\ row[3] \in {"not_found", "stale_authority_generation", "stale_evidence",
                      "policy_rejected_all_paths", "service_class_unsatisfied",
                      "capacity_insufficient", "latency_budget_unmet"}
    BY <1>3, <1>4, <1>5, <1>6, <1>7, <1>8, <1>9, <1>10, <1>11, <1>12, <1>15
<1>17. row[2] = "policy_rejected" => AllOf(rec, PolicyReasons)
    BY <1>3, <1>4, <1>5, <1>6, <1>7, <1>8, <1>9, <1>10, <1>11, <1>12, <1>14, <1>15
<1>18. row[2] = "insufficient_capacity" => AllOf(rec, CapacityReasons)
    BY <1>3, <1>4, <1>5, <1>6, <1>7, <1>8, <1>9, <1>10, <1>11, <1>12, <1>13, <1>14, <1>15
<1>19. ASSUME count # 0, StaleCount(rec) # count, ~AllOf(rec, StalenessReasons),
              AllOf(rec, PolicyReasons)
       PROVE  row[2] = "policy_rejected"
  <2>1. i <= 4
      BY <1>7, <1>14, <1>19
  <2>2. i # 1 /\ i # 2 /\ i # 3
      BY <1>4, <1>5, <1>6, <1>14, <1>19
  <2>3. i = 4
      BY <1>3, <2>1, <2>2
  <2> QED
      BY <1>7, <1>15, <2>3
<1> QED
    BY <1>16, <1>17, <1>18, <1>19 DEF row, count

\* The entry the engine goes for is a legal one; it is the first of the ranking
\* unless churn suppression holds on to the incumbent.
LEMMA ChosenIs ==
    ASSUME NEW r \in PlacementRequest, ValidateRequest(r) = "ok", LegalEntries(r) # {}
    PROVE  LET ranked == Rank(LegalEntries(r))
           IN /\ 1 \in DOMAIN ranked
              /\ Chosen(r, ranked) \in LegalEntries(r)
              /\ SuppressedAt(r, ranked) = {} => Chosen(r, ranked) = ranked[1]
              /\ SuppressedAt(r, ranked) # {} =>
                    \E i \in SuppressedAt(r, ranked) : Chosen(r, ranked) = ranked[i]
<1> DEFINE legal == LegalEntries(r)
           ranked == Rank(legal)
<1>1. /\ Cardinality(legal) \in Nat /\ DOMAIN ranked = 1 .. Cardinality(legal)
      /\ \A i \in DOMAIN ranked : ranked[i] \in legal
      /\ \A e \in legal : \E i \in DOMAIN ranked : ranked[i] = e
    BY LegalIsRankable, RankSorts
<1> HIDE DEF legal, ranked
<1>2. 1 \in DOMAIN ranked
    BY <1>1 DEF legal
<1>3. SuppressedAt(r, ranked) \subseteq DOMAIN ranked
    BY DEF SuppressedAt, IncumbentPositions
<1>4. CASE SuppressedAt(r, ranked) = {}
    BY <1>1, <1>2, <1>4 DEF Chosen, legal, ranked
<1>5. CASE SuppressedAt(r, ranked) # {}
  <2> DEFINE i == CHOOSE i \in SuppressedAt(r, ranked) : TRUE
  <2>1. i \in SuppressedAt(r, ranked)
      BY <1>5
  <2>2. Chosen(r, ranked) = ranked[i]
      BY <1>5 DEF Chosen
  <2> HIDE DEF i
  <2> QED
      BY <1>1, <1>2, <1>3, <1>5, <2>1, <2>2 DEF legal, ranked
<1> QED
    BY <1>4, <1>5

\* The flags of the incumbent's fate degrade nothing.
LEMMA ChurnFlagsDegradeNothing ==
    ASSUME NEW r, NEW ranked
    PROVE  ChurnFlags(r, ranked) \cap DegradingFlags = {}
BY DEF ChurnFlags, DegradingFlags

\* The candidates from which a decision is made.
Diverse(r) == Cardinality(DomainsOf(LegalPaths(r))) >= r.policy.min_distinct_domains

\* A count of failure domains is a number.
LEMMA DomainsAreCounted ==
    ASSUME NEW r \in PlacementRequest, NEW S, S \subseteq Candidates(r)
    PROVE  IsFiniteSet(DomainsOf(S)) /\ Cardinality(DomainsOf(S)) \in Nat
<1>1. IsFiniteSet(S)
  <2>1. CASE S = {}
      BY <2>1, FS_EmptySet
  <2>2. CASE S # {}
      BY <2>2, CandidateFields, FS_Subset
  <2> QED
      BY <2>1, <2>2
<1> DEFINE f == [p \in S |-> p.failure_domain]
           T == {p.failure_domain : p \in S}
<1>2. DOMAIN f = S /\ T = {f[p] : p \in S}
    OBVIOUS
<1> HIDE DEF f
<1>3. IsFiniteSet(T)
    BY <1>1, <1>2, RangeIsFinite
<1>4. DomainsOf(S) \subseteq T
    BY DEF DomainsOf
<1> HIDE DEF T
<1> QED
    BY <1>3, <1>4, FS_Subset, FS_CardinalityType

\* What Place says of a request that is valid and current.
LEMMA PlaceCurrentIs ==
    ASSUME NEW r \in PlacementRequest, ValidateRequest(r) = "ok"
    PROVE  LET d == PlaceCurrent(r)
               entry == Chosen(r, Rank(LegalEntries(r)))
               p == entry.path
           IN /\ LegalPaths(r) = {} =>
                    /\ d.outcome = Classify(r, Exclusions(r))[2]
                    /\ d.code = Classify(r, Exclusions(r))[3]
                    /\ d.intent = {} /\ d.delta \in {"no_incumbent", "kept", "replaced_stale"}
              /\ LegalPaths(r) # {} /\ ~Diverse(r) =>
                    /\ d.outcome = "no_legal_path" /\ d.code = "failure_domain_diversity_unmet"
                    /\ d.intent = {} /\ d.delta \in {"no_incumbent", "kept", "replaced_stale"}
              /\ LegalPaths(r) # {} /\ Diverse(r) =>
                    /\ entry \in LegalEntries(r) /\ p \in LegalPaths(r)
                    /\ entry = BuildRankEntry(r, p)
                    /\ MoveDeferred(r, p) =>
                          /\ d.outcome = "deferred" /\ d.code = "policy_move_suppressed"
                          /\ d.intent = {} /\ d.delta \in {"moved", "replaced_stale"}
                    /\ ~MoveDeferred(r, p) /\ BelowGate(r, p) /\ r.policy.on_below = "defer" =>
                          /\ d.outcome = "deferred" /\ d.code = "policy_headroom_gate"
                          /\ d.intent = {} /\ d.delta \in {"no_incumbent", "kept", "replaced_stale"}
                    /\ ~MoveDeferred(r, p) /\ ~(BelowGate(r, p) /\ r.policy.on_below = "defer") =>
                          /\ d.outcome = IF PlacementFlags(r, entry) \cap DegradingFlags = {}
                                         THEN "placed" ELSE "placed_degraded"
                          /\ d.code = "ok" /\ d.intent = {Intent(r, p)}
                          /\ d.delta = FinalDelta(r, p)
<1> DEFINE legal == LegalEntries(r)
           rec == Exclusions(r)
           d == PlaceCurrent(r)
           ranked == Rank(legal)
           entry == Chosen(r, ranked)
           p == entry.path
           s == Scanned(r, legal, rec)
           c == WithFlags(Ranked(r, s, ranked), ChurnFlags(r, ranked))
<1>1. legal = {} <=> LegalPaths(r) = {}
    BY DEF LegalEntries
<1>2. {e.path : e \in legal} = LegalPaths(r)
    BY LegalIsRankable
<1>3. /\ Shaped(s) /\ s.code = "ok" /\ s.intent = {}
      /\ s.delta \in {"no_incumbent", "kept", "replaced_stale"}
      /\ s.explanation.distinct_failure_domains = Cardinality(DomainsOf(LegalPaths(r)))
      /\ s.explanation.degradations = {}
  <2>1. s.explanation.distinct_failure_domains = Cardinality(DomainsOf({e.path : e \in legal}))
      BY ScannedDomains
  <2>2. s.explanation.distinct_failure_domains = Cardinality(DomainsOf(LegalPaths(r)))
      BY <1>2, <2>1
  <2>3. Shaped(s) /\ s.code = "ok"
      BY ScannedIs
  <2>4. s.delta \in {"no_incumbent", "kept", "replaced_stale"}
      BY ScannedIs
  <2>5. s.intent = {}
      BY ScannedIs
  <2>6. s.explanation.degradations = {}
      BY ScannedIs
  <2> QED
      BY <2>2, <2>3, <2>4, <2>5, <2>6
<1>4. DiversityUnmet(r, s) <=> ~Diverse(r)
  <2>1. Cardinality(DomainsOf(LegalPaths(r))) \in Nat /\ r.policy.min_distinct_domains \in Nat
      BY DomainsAreCounted, LegalIsRankable, PolicyFields
  <2> QED
      BY <1>3, <2>1 DEF DiversityUnmet, Diverse
<1>5. /\ Shaped(c) /\ c.intent = {} /\ c.delta = s.delta
      /\ c.explanation.degradations = ChurnFlags(r, ranked)
  <2> HIDE DEF s, ranked
  <2>1. Shaped(s) /\ s.intent = {} /\ s.explanation.degradations = {}
      BY <1>3
  <2>2. Shaped(c)
      BY <2>1, ChurnedIs
  <2>3. c.intent = s.intent
      BY <2>1, ChurnedIs
  <2>4. c.delta = s.delta
      BY <2>1, ChurnedIs
  <2>5. c.explanation.degradations = ChurnFlags(r, ranked)
      BY <2>1, ChurnedIs
  <2> HIDE DEF c
  <2> QED
      BY <2>1, <2>2, <2>3, <2>4, <2>5
<1>6. CASE legal = {}
  <2>1. d = EmptyLegalSet(r, s, rec)
      BY <1>6 DEF PlaceCurrent
  <2>2. /\ d.outcome = Classify(r, rec)[2] /\ d.code = Classify(r, rec)[3]
        /\ d.intent = {} /\ d.delta = s.delta
      BY <1>3, <2>1, EmptyLegalSetIs
  <2> QED
      BY <1>1, <1>3, <1>6, <2>2
<1>7. CASE legal # {} /\ ~Diverse(r)
  <2>1. d = Undiversified(r, s)
      BY <1>4, <1>7 DEF PlaceCurrent
  <2>2. /\ d.outcome = "no_legal_path" /\ d.code = "failure_domain_diversity_unmet"
        /\ d.intent = {} /\ d.delta = s.delta
      BY <1>3, <2>1, UndiversifiedIs
  <2> QED
      BY <1>1, <1>3, <1>7, <2>2
<1>8. CASE legal # {} /\ Diverse(r)
  <2>1. d = PlaceLegal(r, s, legal)
      BY <1>4, <1>8 DEF PlaceCurrent
  <2>2. entry \in legal
      BY <1>8, ChosenIs
  <2>3. p \in LegalPaths(r) /\ entry = BuildRankEntry(r, p)
      BY <2>2, LegalIsRankable
  <2>4. VerifyIntent(r, Intent(r, p))
      BY <2>3, IntentVerifies
  <2>5. d = CASE MoveDeferred(r, p) -> DeferMove(r, c)
              [] ~MoveDeferred(r, p) /\ BelowGate(r, p) /\ r.policy.on_below = "defer" ->
                    DeferAdmission(r, c, p)
              [] OTHER -> PlaceOn(r, c, entry)
      BY <2>1 DEF PlaceLegal
  <2> HIDE DEF d, c, p, entry, s, ranked
  <2>6. MoveDeferred(r, p) =>
            /\ d.outcome = "deferred" /\ d.code = "policy_move_suppressed"
            /\ d.intent = {} /\ d.delta \in {"moved", "replaced_stale"}
      BY <1>5, <2>5, DeferredIs
  <2>7. ~MoveDeferred(r, p) /\ BelowGate(r, p) /\ r.policy.on_below = "defer" =>
            /\ d.outcome = "deferred" /\ d.code = "policy_headroom_gate"
            /\ d.intent = {} /\ d.delta \in {"no_incumbent", "kept", "replaced_stale"}
    <3>1. SUFFICES ASSUME ~MoveDeferred(r, p), BelowGate(r, p), r.policy.on_below = "defer"
                   PROVE  /\ d.outcome = "deferred" /\ d.code = "policy_headroom_gate"
                          /\ d.intent = {} /\ d.delta = s.delta
        BY <1>3
    <3>2. d = DeferAdmission(r, c, p)
        BY <2>5, <3>1
    <3>3. Shaped(c)
        BY <1>5
    <3>4. d.outcome = "deferred" /\ d.code = "policy_headroom_gate"
        BY <3>2, <3>3, DeferredIs
    <3>5. d.intent = c.intent
        BY <3>2, <3>3, DeferredIs
    <3>6. d.delta = c.delta
        BY <3>2, <3>3, DeferredIs
    <3> QED
        BY <1>5, <3>4, <3>5, <3>6
  <2>8. ASSUME ~MoveDeferred(r, p), ~(BelowGate(r, p) /\ r.policy.on_below = "defer")
        PROVE  /\ d.outcome = IF PlacementFlags(r, entry) \cap DegradingFlags = {}
                              THEN "placed" ELSE "placed_degraded"
               /\ d.code = "ok" /\ d.intent = {Intent(r, p)}
               /\ d.delta = FinalDelta(r, p)
    <3>1. d = PlaceOn(r, c, entry)
        BY <2>5, <2>8
    <3> DEFINE flags == c.explanation.degradations \cup PlacementFlags(r, entry)
    <3>2. VerifyIntent(r, Intent(r, entry.path))
        BY <2>4 DEF p
    <3>3. /\ d.outcome = IF flags \cap DegradingFlags = {} THEN "placed" ELSE "placed_degraded"
          /\ d.code = "ok" /\ d.intent = {Intent(r, entry.path)}
          /\ d.delta = FinalDelta(r, entry.path)
        BY <1>5, <3>1, <3>2, PlaceOnIs
    <3>4. flags \cap DegradingFlags = PlacementFlags(r, entry) \cap DegradingFlags
        BY <1>5, ChurnFlagsDegradeNothing
    <3> QED
        BY <3>3, <3>4 DEF p
  <2> QED
      BY <1>1, <1>8, <2>2, <2>3, <2>6, <2>7, <2>8 DEF d, entry, p, ranked
<1> QED
    BY <1>1, <1>6, <1>7, <1>8

-----------------------------------------------------------------------------
(* The codes of a rejection.                                                *)

\* The codes a validation may answer with.
ValidationCodes ==
    {"invalid_field_value", "invalid_id", "missing_field", "inconsistent_authority_generation",
     "oversize_request", "duplicate_path_id", "contradictory_constraints", "arithmetic_overflow"}

\* A table answers "ok" or with a status of one of its rows.
LEMMA FirstStatusIn ==
    ASSUME NEW checks, DOMAIN checks \subseteq Nat, NEW codes,
           \A i \in DOMAIN checks : checks[i][1] => checks[i][2] \in codes
    PROVE  FirstStatus(checks) \in codes \/ FirstStatus(checks) = "ok"
BY FirstStatusIs

\* A list answers with a code of its members.
LEMMA EveryRowIn ==
    ASSUME NEW I, I \subseteq Nat, NEW status, DOMAIN status = I, NEW codes,
           \A i \in I : status[i] \in codes \/ status[i] = "ok"
    PROVE  LET s == FirstStatus([i \in I |-> <<status[i] # "ok", status[i]>>])
           IN s \in codes \/ s = "ok"
<1> DEFINE rows == [i \in I |-> <<status[i] # "ok", status[i]>>]
<1>1. DOMAIN rows = I
    OBVIOUS
<1>2. ASSUME NEW i \in I
      PROVE  rows[i] = <<status[i] # "ok", status[i]>>
    OBVIOUS
<1>3. \A i \in I : rows[i][2] = status[i]
    BY <1>2
<1>4. \A i \in I : rows[i][1] <=> status[i] # "ok"
    BY <1>2
<1> HIDE DEF rows
<1>5. DOMAIN rows \subseteq Nat /\ \A i \in DOMAIN rows : rows[i][1] => rows[i][2] \in codes
    BY <1>1, <1>3, <1>4
<1>6. FirstStatus(rows) \in codes \/ FirstStatus(rows) = "ok"
    BY <1>5, FirstStatusIn
<1> QED
    BY <1>6 DEF rows

\* Validation answers "ok" or with a code of its own, whatever the request is.
LEMMA ValidationCodeIs ==
    ASSUME NEW r \in PlacementRequest
    PROVE  ValidateRequest(r) \in ValidationCodes \/ ValidateRequest(r) = "ok"
<1> DEFINE Answers(s) == s \in ValidationCodes \/ s = "ok"
<1>1. Answers(ValidateEnumerations(r))
  <2> DEFINE c == EnumerationChecks(r)
  <2>1. DOMAIN c = {1} /\ c[1][2] \in ValidationCodes
      BY DEF EnumerationChecks, ValidationCodes
  <2> HIDE DEF c
  <2>2. DOMAIN c \subseteq Nat /\ \A i \in DOMAIN c : c[i][2] \in ValidationCodes
      BY <2>1
  <2> QED
      BY <2>2, FirstStatusIn DEF ValidateEnumerations, c
<1>2. ASSUME NEW i PROVE Answers(ValidateIncumbent(i))
  <2> DEFINE c == IncumbentChecks(i)
  <2>1. DOMAIN c = 1 .. 2 /\ c[1][2] \in ValidationCodes /\ c[2][2] \in ValidationCodes
      BY DEF IncumbentChecks, ValidationCodes
  <2> HIDE DEF c
  <2>2. DOMAIN c \subseteq Nat /\ \A j \in DOMAIN c : c[j][2] \in ValidationCodes
      BY <2>1
  <2> QED
      BY <2>2, FirstStatusIn DEF ValidateIncumbent, c
<1>3. Answers(IncumbentStatus(r))
    BY <1>2 DEF IncumbentStatus
<1>4. Answers(ValidateGenerations(r))
  <2> DEFINE c == GenerationChecks(r)
  <2>1. DOMAIN c = 1 .. 13
      BY DEF GenerationChecks
  <2>2. /\ c[1][2] \in ValidationCodes /\ c[2][2] \in ValidationCodes
        /\ c[3][2] \in ValidationCodes /\ c[4][2] \in ValidationCodes
        /\ c[5][2] \in ValidationCodes /\ c[6][2] \in ValidationCodes
        /\ c[7][2] \in ValidationCodes /\ c[8][2] \in ValidationCodes
        /\ c[9][2] \in ValidationCodes /\ c[10][2] \in ValidationCodes
        /\ c[11][2] \in ValidationCodes /\ c[12][2] \in ValidationCodes
      BY DEF GenerationChecks, ValidationCodes
  <2>3. c[13][2] = IncumbentStatus(r)
      BY DEF GenerationChecks
  <2>4. c[13][1] <=> IncumbentStatus(r) # "ok"
      BY DEF GenerationChecks
  <2> HIDE DEF c
  <2>5. \A i \in 1 .. 13 : \/ i = 1 \/ i = 2 \/ i = 3 \/ i = 4 \/ i = 5 \/ i = 6 \/ i = 7
                           \/ i = 8 \/ i = 9 \/ i = 10 \/ i = 11 \/ i = 12 \/ i = 13
      OBVIOUS
  <2>6. DOMAIN c \subseteq Nat /\ \A i \in DOMAIN c : c[i][1] => c[i][2] \in ValidationCodes
      BY <1>3, <2>1, <2>2, <2>3, <2>4, <2>5
  <2> QED
      BY <2>6, FirstStatusIn DEF ValidateGenerations, c
<1>5. Answers(ValidateBounds(r))
  <2> DEFINE c == BoundChecks(r)
  <2>1. /\ DOMAIN c = 1 .. 5
        /\ c[1][2] \in ValidationCodes /\ c[2][2] \in ValidationCodes
        /\ c[3][2] \in ValidationCodes /\ c[4][2] \in ValidationCodes
        /\ c[5][2] \in ValidationCodes
      BY DEF BoundChecks, ValidationCodes
  <2> HIDE DEF c
  <2>2. DOMAIN c \subseteq Nat /\ \A i \in DOMAIN c : c[i][2] \in ValidationCodes
      BY <2>1
  <2> QED
      BY <2>2, FirstStatusIn DEF ValidateBounds, c
<1>6. ASSUME NEW p PROVE Answers(ValidateCandidate(p))
  <2> DEFINE c == CandidateChecks(p)
  <2>1. /\ DOMAIN c = 1 .. 5
        /\ c[1][2] \in ValidationCodes /\ c[2][2] \in ValidationCodes
        /\ c[3][2] \in ValidationCodes /\ c[4][2] \in ValidationCodes
        /\ c[5][2] \in ValidationCodes
      BY DEF CandidateChecks, ValidationCodes
  <2> HIDE DEF c
  <2>2. DOMAIN c \subseteq Nat /\ \A i \in DOMAIN c : c[i][2] \in ValidationCodes
      BY <2>1
  <2> QED
      BY <2>2, FirstStatusIn DEF ValidateCandidate, c
<1>7. Answers(ValidateCandidates(r))
  <2> DEFINE paths == r.candidates.paths
             status == [i \in DOMAIN paths |-> ValidateCandidate(paths[i])]
             each == FirstStatus([i \in DOMAIN paths |->
                        <<ValidateCandidate(paths[i]) # "ok", ValidateCandidate(paths[i])>>])
             c == CandidateSetChecks(r)
  <2>1. DOMAIN paths \subseteq Nat
      BY RequestFields
  <2>2. DOMAIN status = DOMAIN paths /\ \A i \in DOMAIN paths : status[i] = ValidateCandidate(paths[i])
      OBVIOUS
  <2>3. each = FirstStatus([i \in DOMAIN paths |-> <<status[i] # "ok", status[i]>>])
      OBVIOUS
  <2>4. c[1][2] = each
      BY DEF CandidateSetChecks
  <2>5. c[1][1] <=> each # "ok"
      BY DEF CandidateSetChecks
  <2>6. DOMAIN c = 1 .. 3 /\ c[2][2] \in ValidationCodes /\ c[3][2] \in ValidationCodes
      BY DEF CandidateSetChecks, ValidationCodes
  <2> HIDE DEF paths, status, each, c
  <2>7. Answers(each)
      BY <1>6, <2>1, <2>2, <2>3, EveryRowIn
  <2>8. DOMAIN c \subseteq Nat /\ \A i \in DOMAIN c : c[i][1] => c[i][2] \in ValidationCodes
      BY <2>4, <2>5, <2>6, <2>7
  <2> QED
      BY <2>8, FirstStatusIn DEF ValidateCandidates, c
<1>8. ASSUME NEW entries, DOMAIN entries \subseteq Nat, NEW bad
      PROVE  Answers(ValidateEntries(entries, bad))
  <2> DEFINE sorted == SortByPath(entries)
             status == [i \in DOMAIN entries |-> EntryStatus(sorted, i, bad)]
  <2>1. DOMAIN sorted = DOMAIN entries
      BY DEF SortByPath
  <2>2. ASSUME NEW i PROVE Answers(EntryStatus(sorted, i, bad))
    <3> DEFINE c == EntryChecks(sorted, i, bad)
    <3>1. /\ DOMAIN c = 1 .. 3 /\ c[1][2] \in ValidationCodes
          /\ c[2][2] \in ValidationCodes /\ c[3][2] \in ValidationCodes
        BY DEF EntryChecks, ValidationCodes
    <3> HIDE DEF c
    <3>2. DOMAIN c \subseteq Nat /\ \A j \in DOMAIN c : c[j][2] \in ValidationCodes
        BY <3>1
    <3> QED
        BY <3>2, FirstStatusIn DEF EntryStatus, c
  <2>3. ValidateEntries(entries, bad) =
            FirstStatus([i \in DOMAIN entries |->
                <<EntryStatus(sorted, i, bad) # "ok", EntryStatus(sorted, i, bad)>>])
      BY <2>1 DEF ValidateEntries
  <2> HIDE DEF sorted
  <2>4. ValidateEntries(entries, bad) =
            FirstStatus([i \in DOMAIN entries |-> <<status[i] # "ok", status[i]>>])
      BY <2>3
  <2>5. /\ DOMAIN status = DOMAIN entries
        /\ \A i \in DOMAIN entries : status[i] = EntryStatus(sorted, i, bad)
      OBVIOUS
  <2> HIDE DEF status
  <2> QED
      BY <1>8, <2>2, <2>4, <2>5, EveryRowIn
<1>9. Answers(ValidateCapacityAndEvidence(r))
  <2>1. DOMAIN r.capacity.entries \subseteq Nat /\ DOMAIN r.evidence.entries \subseteq Nat
      BY RequestFields
  <2> HIDE DEF Answers
  <2>2. /\ Answers(ValidateEntries(r.capacity.entries, ResidualAboveTotal(r)))
        /\ Answers(ValidateEntries(r.evidence.entries, UtilizationAboveOne(r)))
      BY <1>8, <2>1
  <2> QED
      BY <2>2 DEF ValidateCapacityAndEvidence
<1>10. Answers(ValidatePolicy(r))
  <2> DEFINE c == PolicyChecks(r)
  <2>1. /\ DOMAIN c = 1 .. 12
        /\ c[1][2] \in ValidationCodes /\ c[2][2] \in ValidationCodes
        /\ c[3][2] \in ValidationCodes /\ c[4][2] \in ValidationCodes
        /\ c[5][2] \in ValidationCodes /\ c[6][2] \in ValidationCodes
        /\ c[7][2] \in ValidationCodes /\ c[8][2] \in ValidationCodes
        /\ c[9][2] \in ValidationCodes /\ c[10][2] \in ValidationCodes
        /\ c[11][2] \in ValidationCodes /\ c[12][2] \in ValidationCodes
      BY DEF PolicyChecks, ValidationCodes
  <2> HIDE DEF c
  <2>2. \A i \in 1 .. 12 : \/ i = 1 \/ i = 2 \/ i = 3 \/ i = 4 \/ i = 5 \/ i = 6 \/ i = 7
                           \/ i = 8 \/ i = 9 \/ i = 10 \/ i = 11 \/ i = 12
      OBVIOUS
  <2>3. DOMAIN c \subseteq Nat /\ \A i \in DOMAIN c : c[i][2] \in ValidationCodes
      BY <2>1, <2>2
  <2> QED
      BY <2>3, FirstStatusIn DEF ValidatePolicy, c
<1>11. Answers(ValidateRequest(r))
  <2> DEFINE c == RequestChecks(r)
  <2>1. /\ DOMAIN c = 1 .. 6
        /\ c[1][2] = ValidateEnumerations(r) /\ c[2][2] = ValidateGenerations(r)
        /\ c[3][2] = ValidateBounds(r) /\ c[4][2] = ValidateCandidates(r)
        /\ c[5][2] = ValidateCapacityAndEvidence(r) /\ c[6][2] = ValidatePolicy(r)
      BY DEF RequestChecks
  <2>2. /\ c[1][1] <=> ValidateEnumerations(r) # "ok"
        /\ c[2][1] <=> ValidateGenerations(r) # "ok"
        /\ c[3][1] <=> ValidateBounds(r) # "ok"
        /\ c[4][1] <=> ValidateCandidates(r) # "ok"
        /\ c[5][1] <=> ValidateCapacityAndEvidence(r) # "ok"
        /\ c[6][1] <=> ValidatePolicy(r) # "ok"
      BY DEF RequestChecks
  <2> HIDE DEF c
  <2>3. DOMAIN c \subseteq Nat /\ \A i \in DOMAIN c : c[i][1] => c[i][2] \in ValidationCodes
      BY <1>1, <1>4, <1>5, <1>7, <1>9, <1>10, <2>1, <2>2
  <2> QED
      BY <2>3, FirstStatusIn DEF ValidateRequest, c
<1> QED
    BY <1>11

\* The staleness checks answer "ok" or with a staleness code.
LEMMA StaleCodeIs ==
    ASSUME NEW r
    PROVE  StaleCode(r) \in StaleCodes \/ StaleCode(r) = "ok"
<1> DEFINE c == StaleChecks(r)
<1>1. /\ DOMAIN c = 1 .. 4 /\ c[1][2] \in StaleCodes /\ c[2][2] \in StaleCodes
      /\ c[3][2] \in StaleCodes /\ c[4][2] \in StaleCodes
    BY DEF StaleChecks, StaleCodes
<1> HIDE DEF c
<1>2. DOMAIN c \subseteq Nat /\ \A i \in DOMAIN c : c[i][2] \in StaleCodes
    BY <1>1
<1> QED
    BY <1>2, FirstStatusIn DEF StaleCode, c

\* A request is rejected by validation, then for its staleness; the overflow that
\* Prepare looks for has been found by validation.
LEMMA PlaceIs ==
    ASSUME NEW r \in PlacementRequest
    PROVE  \/ /\ ValidateRequest(r) \in ValidationCodes /\ ValidateRequest(r) # "ok"
              /\ Place(r) = Reject(r, ValidateRequest(r))
           \/ /\ ValidateRequest(r) = "ok" /\ StaleCode(r) \in StaleCodes /\ StaleCode(r) # "ok"
              /\ Place(r) = Counted(r, StaleCode(r))
           \/ /\ ValidateRequest(r) = "ok" /\ StaleCode(r) = "ok"
              /\ Place(r) = PlaceCurrent(r)
BY ValidationCodeIs, StaleCodeIs, HeadroomIs DEF Place

-----------------------------------------------------------------------------
(* The record of the exclusions.                                            *)

\* The record after each candidate of a scan.
Trail(verdicts, f) ==
    /\ f = [n \in DOMAIN f |-> f[n]] /\ DOMAIN f = 0 .. Len(verdicts)
    /\ f[0] = NoExclusions
    /\ \A n \in 1 .. Len(verdicts) : f[n] = Record(f[n - 1], verdicts[n])

\* A scan has such a trail, and its last record is what is kept.
LEMMA RecordedIs ==
    ASSUME NEW verdicts, Len(verdicts) \in Nat
    PROVE  \E f : Trail(verdicts, f) /\ Recorded(verdicts) = f[Len(verdicts)]
<1> DEFINE L == Len(verdicts)
           Upto(f, m) == /\ DOMAIN f = 0 .. m /\ f[0] = NoExclusions
                         /\ \A n \in 1 .. m : f[n] = Record(f[n - 1], verdicts[n])
           T == {m \in Nat : ~ \E f : Upto(f, m)}
           Def(f) == [n \in 0 .. L |-> IF n = 0 THEN NoExclusions ELSE Record(f[n - 1], verdicts[n])]
<1>1. Recorded(verdicts) = (CHOOSE f : f = Def(f))[L]
    BY DEF Recorded
<1>2. T = {}
  <2> SUFFICES ASSUME T # {} PROVE FALSE
      OBVIOUS
  <2>1. PICK m \in T : \A k \in T : m <= k
      BY LeastNumber
  <2>2. m # 0
    <3>1. Upto([n \in 0 .. 0 |-> NoExclusions], 0)
        OBVIOUS
    <3> HIDE DEF Upto
    <3> QED
        BY <3>1
  <2>3. m \in Nat /\ m - 1 \in Nat /\ m - 1 \notin T
      BY <2>1, <2>2
  <2>4. PICK f : Upto(f, m - 1)
      BY <2>3
  <2> DEFINE g == [n \in 0 .. m |-> IF n = m THEN Record(f[m - 1], verdicts[m]) ELSE f[n]]
  <2>5. Upto(g, m)
    <3>1. g[0] = f[0] /\ DOMAIN g = 0 .. m
        BY <2>2, <2>3
    <3>2. ASSUME NEW n \in 1 .. m PROVE g[n] = Record(g[n - 1], verdicts[n])
      <4>1. n - 1 \in 0 .. m /\ n - 1 # m /\ n \in 0 .. m
          BY <2>3
      <4>2. g[n - 1] = f[n - 1]
          BY <4>1
      <4>3. CASE n = m
          BY <4>1, <4>2, <4>3
      <4>4. CASE n # m
        <5>1. n \in 1 .. (m - 1) /\ g[n] = f[n]
            BY <2>3, <4>1, <4>4
        <5> QED
            BY <2>4, <4>2, <5>1
      <4> QED
          BY <4>3, <4>4
    <3> HIDE DEF g
    <3> QED
        BY <2>4, <3>1, <3>2
  <2> HIDE DEF Upto, g
  <2> QED
      BY <2>5
<1>3. PICK f : Upto(f, L)
    BY <1>2
<1> DEFINE h == [n \in 0 .. L |-> f[n]]
<1>4. h = Def(h)
  <2>1. ASSUME NEW n \in 0 .. L PROVE h[n] = Def(h)[n]
    <3>1. CASE n = 0
        BY <1>3, <3>1
    <3>2. CASE n # 0
      <4>1. n \in 1 .. L /\ n - 1 \in 0 .. L
          BY <3>2
      <4>2. h[n] = Record(f[n - 1], verdicts[n]) /\ h[n - 1] = f[n - 1]
          BY <1>3, <4>1
      <4> HIDE DEF h
      <4> QED
          BY <3>2, <4>1, <4>2
    <3> QED
        BY <3>1, <3>2
  <2>2. h = [n \in 0 .. L |-> h[n]]
      OBVIOUS
  <2>3. Def(h) = [n \in 0 .. L |-> Def(h)[n]]
      OBVIOUS
  <2> HIDE DEF h, Def
  <2> QED
      BY <2>1, <2>2, <2>3
<1> DEFINE F == CHOOSE x : x = Def(x)
<1>5. F = Def(F)
  <2> HIDE DEF h, Def
  <2> QED
      BY <1>4
<1>6. Trail(verdicts, F)
  <2> HIDE DEF F
  <2>1. DOMAIN F = 0 .. L /\ F = [n \in 0 .. L |-> F[n]]
      BY <1>5
  <2>2. F[0] = NoExclusions
      BY <1>5
  <2>3. ASSUME NEW n \in 1 .. L PROVE F[n] = Record(F[n - 1], verdicts[n])
      BY <1>5
  <2> QED
      BY <2>1, <2>2, <2>3 DEF Trail
<1> QED
    BY <1>1, <1>6

\* One more verdict adds its reason, unless it says "ok" or there is no room.
LEMMA RecordIs ==
    ASSUME NEW rec, DOMAIN rec = {"entries", "truncated"}, NEW v
    PROVE  LET after == Record(rec, v)
           IN /\ DOMAIN after = {"entries", "truncated"}
              /\ v.reason = "ok" => after = rec
              /\ v.reason # "ok" =>
                    \/ DOMAIN after.entries = DOMAIN rec.entries \cup {v.reason}
                    \/ /\ v.reason \notin DOMAIN rec.entries
                       /\ Cardinality(DOMAIN rec.entries) >= Limits.max_exclusion_reasons
                       /\ DOMAIN after.entries = DOMAIN rec.entries
<1> DEFINE after == Record(rec, v)
           reason == v.reason
           isNew == reason \notin DOMAIN rec.entries
           full == isNew /\ Cardinality(DOMAIN rec.entries) >= Limits.max_exclusion_reasons
<1>1. CASE reason = "ok"
    BY <1>1 DEF Record
<1>2. CASE reason # "ok"
  <2>1. after = AddExclusion(rec, reason, v.constraint, v.path)
      BY <1>2 DEF Record
  <2>2. CASE full
    <3>1. after = [rec EXCEPT !.truncated = TRUE]
        BY <2>1, <2>2 DEF AddExclusion
    <3>2. DOMAIN after = {"entries", "truncated"} /\ after.entries = rec.entries
        BY <3>1
    <3> QED
        BY <1>2, <2>2, <3>2
  <2>3. CASE ~full
    <3>1. \E entry, t : after = [entries |-> PutEntry(rec.entries, reason, entry), truncated |-> t]
        BY <2>1, <2>3 DEF AddExclusion
    <3>2. PICK entry, t : after = [entries |-> PutEntry(rec.entries, reason, entry), truncated |-> t]
        BY <3>1
    <3> HIDE DEF after
    <3>3. DOMAIN after = {"entries", "truncated"}
          /\ after.entries = PutEntry(rec.entries, reason, entry)
        BY <3>2
    <3>4. DOMAIN PutEntry(rec.entries, reason, entry) = DOMAIN rec.entries \cup {reason}
        BY DEF PutEntry
    <3> QED
        BY <1>2, <3>3, <3>4 DEF after
  <2> QED
      BY <2>2, <2>3
<1> QED
    BY <1>1, <1>2

\* The reasons a candidate may be excluded for.
Reasons == {ExclusionOrder[k] : k \in DOMAIN ExclusionOrder}

\* There are no more than seventeen reasons.
LEMMA SeventeenReasons ==
    ASSUME NEW S, S \subseteq Reasons, NEW reason \in Reasons, reason \notin S
    PROVE  IsFiniteSet(S) /\ Cardinality(S) < 17
<1>1. \E n \in Nat : n = 17 /\ DOMAIN ExclusionOrder = 1 .. n
    BY DEF ExclusionOrder
<1>2. PICK n \in Nat : n = 17 /\ DOMAIN ExclusionOrder = 1 .. n
    BY <1>1
<1>3. IsFiniteSet(Reasons) /\ Cardinality(Reasons) <= 17
  <2>1. ASSUME NEW b \in Int, 1 <= b PROVE IsFiniteSet(1 .. b) /\ Cardinality(1 .. b) = b
      BY <2>1, FS_Interval
  <2>2. IsFiniteSet(DOMAIN ExclusionOrder) /\ Cardinality(DOMAIN ExclusionOrder) = n
    <3>1. n \in Int /\ 1 <= n /\ DOMAIN ExclusionOrder = 1 .. n
        BY <1>2
    <3> QED
        BY <2>1, <3>1, Zenon
  <2> QED
      BY <1>2, <2>2, RangeIsFinite DEF Reasons
<1>4. S # Reasons
    OBVIOUS
<1>5. S \in SUBSET Reasons
    OBVIOUS
<1>6. /\ IsFiniteSet(S) /\ Cardinality(S) <= Cardinality(Reasons)
      /\ Cardinality(S) # Cardinality(Reasons)
    BY <1>3, <1>4, <1>5, FS_Subset
<1>7. Cardinality(S) \in Nat /\ Cardinality(Reasons) \in Nat
    BY <1>3, <1>6, FS_CardinalityType
<1> QED
    BY <1>3, <1>6, <1>7

\* The reasons recorded are reasons of the scan, and with room for each kind all of
\* them are.
LEMMA RecordedReasons ==
    ASSUME NEW verdicts, Len(verdicts) \in Nat,
           \A n \in 1 .. Len(verdicts) : verdicts[n].reason \in Reasons \cup {"ok"}
    PROVE  LET met == {verdicts[n].reason : n \in 1 .. Len(verdicts)} \ {"ok"}
               recorded == DOMAIN Recorded(verdicts).entries
           IN recorded \subseteq met /\ (Limits.max_exclusion_reasons >= 17 => recorded = met)
<1> DEFINE L == Len(verdicts)
           Met(n) == {verdicts[k].reason : k \in 1 .. n} \ {"ok"}
<1>1. PICK f : Trail(verdicts, f) /\ Recorded(verdicts) = f[L]
    BY RecordedIs
<1>2. /\ f[0] = NoExclusions
      /\ \A n \in 1 .. L : f[n] = Record(f[n - 1], verdicts[n])
    BY <1>1 DEF Trail
<1>3. Limits.max_exclusion_reasons \in Nat
    BY LimitsAssumption DEF LimitNames
<1> DEFINE P(n) == /\ DOMAIN f[n] = {"entries", "truncated"}
                   /\ DOMAIN f[n].entries \subseteq Met(n)
                   /\ Limits.max_exclusion_reasons >= 17 => DOMAIN f[n].entries = Met(n)
<1>4. P(0)
    BY <1>2 DEF NoExclusions
<1>5. ASSUME NEW n \in 1 .. L, P(n - 1) PROVE P(n)
  <2> DEFINE v == verdicts[n]
             before == f[n - 1]
             after == f[n]
  <2>1. v.reason \in Reasons \cup {"ok"}
      OBVIOUS
  <2>2. Met(n) = IF v.reason = "ok" THEN Met(n - 1) ELSE Met(n - 1) \cup {v.reason}
    <3>1. 1 .. n = (1 .. (n - 1)) \cup {n}
        OBVIOUS
    <3> HIDE DEF v
    <3>2. {verdicts[k].reason : k \in 1 .. n} = {verdicts[k].reason : k \in 1 .. (n - 1)} \cup {v.reason}
        BY <3>1 DEF v
    <3> QED
        BY <3>2
  <2>3. Met(n - 1) \subseteq Reasons
    <3>1. \A k \in 1 .. (n - 1) : k \in 1 .. L
        OBVIOUS
    <3> QED
        BY <3>1
  <2>4. after = Record(before, v)
      BY <1>2
  <2>5. /\ DOMAIN before = {"entries", "truncated"}
        /\ DOMAIN before.entries \subseteq Met(n - 1)
        /\ Limits.max_exclusion_reasons >= 17 => DOMAIN before.entries = Met(n - 1)
      BY <1>5
  <2> HIDE DEF v, before, after, Met
  <2>6. CASE v.reason = "ok"
    <3>1. after = before /\ Met(n) = Met(n - 1)
        BY <2>2, <2>4, <2>5, <2>6, RecordIs
    <3> QED
        BY <2>5, <3>1 DEF after
  <2>7. CASE v.reason # "ok"
    <3>1. /\ DOMAIN after = {"entries", "truncated"}
          /\ \/ DOMAIN after.entries = DOMAIN before.entries \cup {v.reason}
             \/ /\ v.reason \notin DOMAIN before.entries
                /\ Cardinality(DOMAIN before.entries) >= Limits.max_exclusion_reasons
                /\ DOMAIN after.entries = DOMAIN before.entries
        BY <2>4, <2>5, <2>7, RecordIs
    <3>2. Met(n) = Met(n - 1) \cup {v.reason} /\ v.reason \in Reasons
        BY <2>1, <2>2, <2>7
    <3>3. CASE DOMAIN after.entries = DOMAIN before.entries \cup {v.reason}
        BY <2>5, <3>1, <3>2, <3>3 DEF after
    <3>4. CASE /\ v.reason \notin DOMAIN before.entries
               /\ Cardinality(DOMAIN before.entries) >= Limits.max_exclusion_reasons
               /\ DOMAIN after.entries = DOMAIN before.entries
      <4>1. IsFiniteSet(DOMAIN before.entries) /\ Cardinality(DOMAIN before.entries) < 17
        <5>1. DOMAIN before.entries \subseteq Reasons
            BY <2>3, <2>5
        <5> QED
            BY <3>2, <3>4, <5>1, SeventeenReasons
      <4>2. Cardinality(DOMAIN before.entries) \in Nat
          BY <4>1, FS_CardinalityType
      <4>3. ~(Limits.max_exclusion_reasons >= 17)
          BY <1>3, <3>4, <4>1, <4>2
      <4> QED
          BY <2>5, <3>1, <3>2, <3>4, <4>3 DEF after
    <3> QED
        BY <3>1, <3>3, <3>4
  <2> QED
      BY <2>6, <2>7
<1>6. P(L)
  <2> DEFINE T == {n \in 0 .. L : ~P(n)}
  <2> SUFFICES ASSUME T # {} PROVE FALSE
      OBVIOUS
  <2>1. T \subseteq Nat
      OBVIOUS
  <2> HIDE DEF P
  <2>2. PICK n \in T : \A k \in T : n <= k
      BY <2>1, LeastNumber
  <2>3. n \in 0 .. L /\ ~P(n)
      OBVIOUS
  <2>4. n # 0
      BY <1>4, <2>3
  <2>5. n \in 1 .. L /\ n - 1 \in 0 .. L /\ ~(n <= n - 1)
      BY <2>3, <2>4
  <2>6. P(n - 1)
      BY <2>2, <2>5
  <2> QED
      BY <1>5, <2>3, <2>5, <2>6
<1> QED
    BY <1>1, <1>6

\* The reasons of the seventeen checks.
LEMMA ReasonOfRow ==
    ASSUME NEW r, NEW p, NEW c, c = ExclusionChecks(r, p)
    PROVE  /\ DOMAIN c = 1 .. 17
           /\ c[1][2] = "path_authority_stale" /\ c[2][2] = "tier_not_allowed"
           /\ c[3][2] = "forbidden_label" /\ c[4][2] = "missing_required_label"
           /\ c[5][2] = "forbidden_locality" /\ c[6][2] = "locality_mismatch"
           /\ c[7][2] = "forbidden_failure_domain"
           /\ c[8][2] = "required_failure_domain_mismatch"
           /\ c[9][2] = "failure_domain_occupied"
           /\ c[10][2] = "capacity_unknown" /\ c[11][2] = "capacity_insufficient"
           /\ c[12][2] = "service_headroom_unmet" /\ c[13][2] = "service_reservation_unmet"
           /\ c[14][2] = "reservation_affinity_unsatisfied"
           /\ c[15][2] = "latency_budget_exceeded"
           /\ c[16][2] = "evidence_stale" /\ c[17][2] = "evidence_missing"
           /\ \A i \in 1 .. 17 : i = 1 \/ i = 2 \/ i = 3 \/ i = 4 \/ i = 5 \/ i = 6 \/ i = 7
                 \/ i = 8 \/ i = 9 \/ i = 10 \/ i = 11 \/ i = 12 \/ i = 13 \/ i = 14 \/ i = 15
                 \/ i = 16 \/ i = 17
<1>1. \A i \in 1 .. 17 : i = 1 \/ i = 2 \/ i = 3 \/ i = 4 \/ i = 5 \/ i = 6 \/ i = 7
                 \/ i = 8 \/ i = 9 \/ i = 10 \/ i = 11 \/ i = 12 \/ i = 13 \/ i = 14 \/ i = 15
                 \/ i = 16 \/ i = 17
    OBVIOUS
<1> QED
    BY <1>1 DEF ExclusionChecks

\* A candidate is excluded for one of the reasons, or legal.
LEMMA ReasonIsAReason ==
    ASSUME NEW r, NEW p
    PROVE  ExclusionReason(r, p) \in Reasons \cup {"ok"}
<1> DEFINE c == ExclusionChecks(r, p)
<1>1. /\ "path_authority_stale" \in Reasons /\ "tier_not_allowed" \in Reasons
      /\ "forbidden_label" \in Reasons /\ "missing_required_label" \in Reasons
      /\ "forbidden_locality" \in Reasons /\ "locality_mismatch" \in Reasons
      /\ "forbidden_failure_domain" \in Reasons
      /\ "required_failure_domain_mismatch" \in Reasons
      /\ "failure_domain_occupied" \in Reasons
      /\ "capacity_unknown" \in Reasons /\ "capacity_insufficient" \in Reasons
      /\ "service_headroom_unmet" \in Reasons /\ "service_reservation_unmet" \in Reasons
      /\ "reservation_affinity_unsatisfied" \in Reasons
      /\ "latency_budget_exceeded" \in Reasons
      /\ "evidence_stale" \in Reasons /\ "evidence_missing" \in Reasons
  <2> DEFINE x == ExclusionOrder
  <2>1. ASSUME NEW k \in 1 .. 17 PROVE x[k] \in Reasons
    <3>1. DOMAIN x = 1 .. 17
        BY DEF ExclusionOrder
    <3> QED
        BY <3>1 DEF Reasons
  <2>2. /\ x[1] = "path_authority_stale" /\ x[2] = "tier_not_allowed"
        /\ x[3] = "forbidden_label" /\ x[4] = "missing_required_label"
        /\ x[5] = "forbidden_locality" /\ x[6] = "locality_mismatch"
        /\ x[7] = "forbidden_failure_domain" /\ x[8] = "required_failure_domain_mismatch"
        /\ x[9] = "failure_domain_occupied"
        /\ x[10] = "capacity_unknown" /\ x[11] = "capacity_insufficient"
        /\ x[12] = "service_headroom_unmet" /\ x[13] = "service_reservation_unmet"
        /\ x[14] = "reservation_affinity_unsatisfied" /\ x[15] = "latency_budget_exceeded"
        /\ x[16] = "evidence_missing" /\ x[17] = "evidence_stale"
      BY DEF ExclusionOrder
  <2> HIDE DEF x
  <2>3. /\ 1 \in 1 .. 17 /\ 2 \in 1 .. 17 /\ 3 \in 1 .. 17 /\ 4 \in 1 .. 17 /\ 5 \in 1 .. 17
        /\ 6 \in 1 .. 17 /\ 7 \in 1 .. 17 /\ 8 \in 1 .. 17 /\ 9 \in 1 .. 17 /\ 10 \in 1 .. 17
        /\ 11 \in 1 .. 17 /\ 12 \in 1 .. 17 /\ 13 \in 1 .. 17 /\ 14 \in 1 .. 17
        /\ 15 \in 1 .. 17 /\ 16 \in 1 .. 17 /\ 17 \in 1 .. 17
      OBVIOUS
  <2> QED
      BY <2>1, <2>2, <2>3
<1>2. DOMAIN c = 1 .. 17
    BY ReasonOfRow
<1>3. ASSUME NEW i \in 1 .. 17 PROVE c[i][2] \in Reasons
  <2> HIDE DEF c
  <2>1. c = ExclusionChecks(r, p)
      BY DEF c
  <2> QED
      BY <1>1, <2>1, ReasonOfRow
<1> HIDE DEF c
<1>4. FirstStatus(c) \in Reasons \/ FirstStatus(c) = "ok"
    BY <1>2, <1>3, FirstStatusIn
<1> QED
    BY <1>4 DEF ExclusionReason, c

\* The reasons recorded for a request are those of its candidates.
LEMMA ExclusionsAre ==
    ASSUME NEW r \in PlacementRequest
    PROVE  LET met == {ExclusionReason(r, p) : p \in Candidates(r)} \ {"ok"}
               recorded == DOMAIN Exclusions(r).entries
           IN recorded \subseteq met /\ (Limits.max_exclusion_reasons >= 17 => recorded = met)
<1> DEFINE paths == r.candidates.paths
           v == Verdicts(r)
           met == {ExclusionReason(r, p) : p \in Candidates(r)} \ {"ok"}
<1>1. paths \in Seq(CandidatePath)
    BY RequestFields
<1>2. DOMAIN paths = 1 .. Len(paths) /\ Len(paths) \in Nat
    BY <1>1
<1>3. DOMAIN v = 1 .. Len(paths) /\ Len(v) = Len(paths)
  <2>1. DOMAIN v = DOMAIN paths
      BY DEF Verdicts
  <2> QED
      BY <1>2, <2>1
<1>4. \A n \in 1 .. Len(paths) : v[n].reason = ExclusionReason(r, paths[n])
    BY <1>2 DEF Verdicts, Verdict
<1>5. {v[n].reason : n \in 1 .. Len(v)} \ {"ok"} = met
  <2>1. Candidates(r) = {paths[n] : n \in 1 .. Len(paths)}
      BY <1>2 DEF Candidates, ToSet
  <2> HIDE DEF v, paths
  <2> QED
      BY <1>3, <1>4, <2>1
<1>6. Len(v) \in Nat /\ \A n \in 1 .. Len(v) : v[n].reason \in Reasons \cup {"ok"}
    BY <1>2, <1>3, <1>4, ReasonIsAReason
<1> HIDE DEF v, met
<1>7. LET recorded == DOMAIN Recorded(v).entries
      IN recorded \subseteq met /\ (Limits.max_exclusion_reasons >= 17 => recorded = met)
    BY <1>5, <1>6, RecordedReasons
<1> QED
    BY <1>7 DEF Exclusions, v, met

-----------------------------------------------------------------------------
(* The record does not depend on the order of the scan.                     *)

\* The ascending list of a finite set of ids holds each of them, the highest last.
LEMMA AscendingIs ==
    ASSUME NEW S, IsFiniteSet(S), S \subseteq Nat
    PROVE  /\ Cardinality(S) \in Nat
           /\ Ascending(S) \in Seq(S) /\ Len(Ascending(S)) = Cardinality(S)
           /\ ToSet(Ascending(S)) = S
           /\ S # {} => Last(Ascending(S)) \in S /\ \A x \in S : x <= Last(Ascending(S))
           /\ S = {} => Ascending(S) = <<>>
           /\ \A i, j \in 1 .. Cardinality(S) : i < j => Ascending(S)[i] < Ascending(S)[j]
<1> DEFINE N == Cardinality(S)
           below == [x \in S |-> {y \in S : y < x}]
           at(n) == CHOOSE x \in S : Cardinality({y \in S : y < x}) = n - 1
           a == Ascending(S)
<1>1. /\ below \in [S -> SUBSET S]
      /\ \A x \in S : x \notin below[x]
      /\ \A x, y \in S : x \in below[y] => below[x] \subseteq below[y]
      /\ \A x, y \in S : x = y \/ x \in below[y] \/ y \in below[x]
  <2>1. below \in [S -> SUBSET S] /\ \A x, y \in S : y \in below[x] <=> y < x
      OBVIOUS
  <2>2. \A x, y, z \in S : ~(x < x) /\ (x < y /\ y < z => x < z) /\ (x = y \/ x < y \/ y < x)
      OBVIOUS
  <2> HIDE DEF below
  <2> QED
      BY <2>1, <2>2
<1>2. ASSUME NEW x \in S PROVE Cardinality({y \in S : y < x}) = Cardinality(below[x])
  <2>1. below[x] = {y \in S : y < x}
      OBVIOUS
  <2> HIDE DEF below
  <2> QED
      BY <2>1
<1>3. ASSUME NEW x \in S, NEW y \in S PROVE x \in below[y] <=> x < y
  <2>1. below[y] = {z \in S : z < y}
      OBVIOUS
  <2> HIDE DEF below
  <2> QED
      BY <2>1
<1>4. DOMAIN a = 1 .. N /\ \A n \in 1 .. N : a[n] = at(n)
    BY DEF Ascending
<1>5. a = [n \in 1 .. N |-> a[n]]
    BY DEF Ascending
<1> HIDE DEF below, a
<1>6. /\ N \in Nat
      /\ \A x \in S : Cardinality(below[x]) \in 0 .. (N - 1)
      /\ \A x, y \in S : x \in below[y] => Cardinality(below[x]) < Cardinality(below[y])
      /\ \A n \in 1 .. N : \E x \in S : Cardinality(below[x]) = n - 1
    BY <1>1, EveryPlaceIsTaken
<1>7. \A n \in 1 .. N : at(n) \in S /\ Cardinality(below[at(n)]) = n - 1
  <2> TAKE n \in 1 .. N
  <2>1. \E x \in S : Cardinality({y \in S : y < x}) = n - 1
      BY <1>2, <1>6
  <2>2. at(n) \in S /\ Cardinality({y \in S : y < at(n)}) = n - 1
      BY <2>1
  <2> QED
      BY <1>2, <2>2
<1> HIDE DEF at, N
<1>8. \A n \in 1 .. N : a[n] \in S /\ Cardinality(below[a[n]]) = n - 1
    BY <1>4, <1>7
<1>9. ASSUME NEW x \in S PROVE \E n \in 1 .. N : a[n] = x
  <2> DEFINE n == Cardinality(below[x]) + 1
  <2>1. n \in 1 .. N /\ n - 1 = Cardinality(below[x])
      BY <1>6
  <2>2. a[n] \in S /\ Cardinality(below[a[n]]) = Cardinality(below[x])
      BY <1>8, <2>1
  <2>3. a[n] = x
    <3> DEFINE y == a[n]
    <3>1. y \in S /\ Cardinality(below[y]) = Cardinality(below[x]) /\ Cardinality(below[x]) \in Nat
        BY <1>6, <2>2
    <3> HIDE DEF y
    <3>2. x \notin below[y] /\ y \notin below[x]
        BY <1>6, <3>1
    <3>3. y = x
        BY <1>1, <3>1, <3>2
    <3> QED
        BY <3>3 DEF y
  <2> QED
      BY <2>1, <2>3
<1>10. a \in Seq(S) /\ Len(a) = N
  <2>1. a \in [1 .. N -> S]
      BY <1>5, <1>8
  <2> QED
      BY <1>6, <2>1
<1>11. ToSet(a) = S
    BY <1>4, <1>8, <1>9 DEF ToSet
<1>12. ASSUME S # {} PROVE Last(a) \in S /\ \A x \in S : x <= Last(a)
  <2>1. N \in 1 .. N
    <3>1. PICK x \in S : TRUE
        BY <1>12
    <3> QED
        BY <1>6, <3>1
  <2>2. Last(a) = a[N]
      BY <1>10 DEF Last
  <2>3. a[N] \in S /\ Cardinality(below[a[N]]) = N - 1
      BY <1>8, <2>1
  <2>4. ASSUME NEW x \in S PROVE x <= a[N]
    <3> DEFINE y == a[N]
    <3>1. y \in S /\ Cardinality(below[y]) = N - 1
        BY <2>3
    <3> HIDE DEF y
    <3>2. y \notin below[x]
      <4>1. ~(Cardinality(below[y]) < Cardinality(below[x]))
          BY <1>6, <3>1
      <4> QED
          BY <1>6, <3>1, <4>1
    <3>3. ~(y < x) /\ y \in Nat /\ x \in Nat
        BY <1>3, <3>1, <3>2
    <3>4. x <= y
        BY <3>3
    <3> QED
        BY <3>4 DEF y
  <2> QED
      BY <2>2, <2>3, <2>4
<1>13. S = {} => a = <<>>
  <2>1. S = {} => N = 0
      BY FS_EmptySet DEF N
  <2> QED
      BY <1>10, <2>1
<1>14. ASSUME NEW i \in 1 .. N, NEW j \in 1 .. N, i < j PROVE a[i] < a[j]
  <2> DEFINE x == a[i]
             y == a[j]
  <2>1. x \in S /\ y \in S /\ Cardinality(below[x]) = i - 1 /\ Cardinality(below[y]) = j - 1
      BY <1>8
  <2> HIDE DEF x, y
  <2>2. Cardinality(below[x]) < Cardinality(below[y]) /\ ~(Cardinality(below[y]) < Cardinality(below[x]))
      BY <1>6, <1>14, <2>1
  <2>3. x # y /\ y \notin below[x]
      BY <1>6, <2>1, <2>2
  <2>4. x < y
      BY <1>1, <1>3, <2>1, <2>3
  <2> QED
      BY <2>4 DEF x, y
<1> QED
    BY <1>6, <1>10, <1>11, <1>12, <1>13, <1>14 DEF N, a

\* The ids a sample keeps of a set: the lowest ones, as many as there is room for.
Room == Limits.max_exclusion_samples
LowestIn(T, S) ==
    /\ T \subseteq S
    /\ Cardinality(T) = IF Cardinality(S) < Room THEN Cardinality(S) ELSE Room
    /\ \A x \in T, y \in S \ T : x < y
SampleFor(S) == Ascending(CHOOSE T : LowestIn(T, S))

\* They are determined by the set.
LEMMA LowestIsUnique ==
    ASSUME NEW S, IsFiniteSet(S), S \subseteq Nat, NEW T, NEW U, LowestIn(T, S), LowestIn(U, S)
    PROVE  T = U
<1>1. T \subseteq U \/ U \subseteq T
  <2> SUFFICES ASSUME NEW x \in T, x \notin U, NEW y \in U, y \notin T PROVE FALSE
      OBVIOUS
  <2>1. x \in Nat /\ y \in Nat /\ x < y /\ y < x
      BY DEF LowestIn
  <2> QED
      BY <2>1
<1>2. Cardinality(T) = Cardinality(U)
    BY DEF LowestIn
<1>3. IsFiniteSet(T) /\ IsFiniteSet(U)
    BY FS_Subset DEF LowestIn
<1> QED
    BY <1>1, <1>2, <1>3, FS_Subset

\* One more id: it joins the sample while there is room, replaces the highest when it
\* is lower, and stays out otherwise.
LEMMA LowestGrows ==
    ASSUME NEW S, IsFiniteSet(S), S \subseteq Nat, NEW id \in Nat, id \notin S,
           NEW T, LowestIn(T, S)
    PROVE  /\ IsFiniteSet(T) /\ Cardinality(T) \in Nat /\ T \subseteq Nat
           /\ Cardinality(S) \in Nat /\ Cardinality(S \cup {id}) = Cardinality(S) + 1
           /\ Cardinality(T) >= Room <=> Cardinality(S) >= Room
           /\ Cardinality(T) < Room => LowestIn(T \cup {id}, S \cup {id})
           /\ \A m \in T : Cardinality(T) >= Room /\ id < m /\ (\A x \in T : x <= m) =>
                 LowestIn((T \ {m}) \cup {id}, S \cup {id})
           /\ Cardinality(T) >= Room /\ (\A x \in T : x < id) => LowestIn(T, S \cup {id})
<1>1. Room \in Nat
    BY LimitsAssumption DEF LimitNames, Room
<1>2. T \in SUBSET S /\ T \subseteq Nat
    BY DEF LowestIn
<1>3. IsFiniteSet(T) /\ Cardinality(T) \in Nat /\ Cardinality(S) \in Nat
    BY <1>2, FS_Subset, FS_CardinalityType
<1>4. Cardinality(S \cup {id}) = Cardinality(S) + 1
    BY FS_AddElement
<1>5. Cardinality(T) = IF Cardinality(S) < Room THEN Cardinality(S) ELSE Room
    BY DEF LowestIn
<1>6. Cardinality(T) >= Room <=> Cardinality(S) >= Room
    BY <1>1, <1>3, <1>5
<1>7. \A x \in T, y \in S \ T : x < y
    BY DEF LowestIn
<1>8. ASSUME Cardinality(T) < Room PROVE LowestIn(T \cup {id}, S \cup {id})
  <2>1. Cardinality(S) < Room /\ Cardinality(T) = Cardinality(S)
      BY <1>1, <1>3, <1>5, <1>8
  <2>2. T = S
      BY <1>2, <2>1, FS_Subset
  <2>3. ~(Cardinality(S) + 1 < Room) => Cardinality(S) + 1 = Room
      BY <1>1, <1>3, <2>1
  <2> QED
      BY <1>4, <2>2, <2>3 DEF LowestIn
<1>9. ASSUME NEW m \in T, Cardinality(T) >= Room, id < m, \A x \in T : x <= m
      PROVE  LowestIn((T \ {m}) \cup {id}, S \cup {id})
  <2> DEFINE rest == T \ {m}
  <2>1. IsFiniteSet(rest) /\ Cardinality(rest) = Cardinality(T) - 1
      BY <1>3, FS_RemoveElement
  <2>2. id \notin rest
      BY <1>2
  <2>3. Cardinality(rest \cup {id}) = Cardinality(rest) + 1
      BY <2>1, <2>2, FS_AddElement
  <2>4. Cardinality(rest \cup {id}) = Cardinality(T)
      BY <1>3, <2>1, <2>3
  <2>5. Cardinality(T) = Room /\ ~(Cardinality(S) + 1 < Room)
      BY <1>1, <1>3, <1>5, <1>9
  <2>6. ASSUME NEW x \in rest \cup {id}, NEW y \in (S \cup {id}) \ (rest \cup {id})
        PROVE  x < y
    <3>1. y \in S /\ y \in Nat /\ m \in Nat /\ x \in Nat /\ (y = m \/ y \in S \ T)
        BY <1>2
    <3>2. m <= y
        BY <1>7, <3>1
    <3>3. x < m
      <4>1. CASE x = id
          BY <1>9, <4>1
      <4>2. CASE x \in rest
          BY <1>9, <3>1, <4>2
      <4> QED
          BY <4>1, <4>2
    <3> QED
        BY <3>1, <3>2, <3>3
  <2>7. rest \cup {id} \subseteq S \cup {id}
      BY <1>2
  <2> HIDE DEF rest
  <2>8. LowestIn(rest \cup {id}, S \cup {id})
      BY <1>4, <2>4, <2>5, <2>6, <2>7 DEF LowestIn
  <2> QED
      BY <2>8 DEF rest
<1>10. ASSUME Cardinality(T) >= Room, \A x \in T : x < id PROVE LowestIn(T, S \cup {id})
  <2>1. Cardinality(T) = Room /\ ~(Cardinality(S) + 1 < Room)
      BY <1>1, <1>3, <1>5, <1>10
  <2>2. \A x \in T, y \in (S \cup {id}) \ T : x < y
      BY <1>7, <1>10
  <2> QED
      BY <1>2, <1>4, <2>1, <2>2 DEF LowestIn
<1> QED
    BY <1>2, <1>3, <1>4, <1>6, <1>8, <1>9, <1>10

\* Every finite set of ids has its lowest ones.
LEMMA LowestExists ==
    ASSUME NEW S, IsFiniteSet(S), S \subseteq Nat
    PROVE  \E T : LowestIn(T, S)
<1>1. Room \in Nat
    BY LimitsAssumption DEF LimitNames, Room
<1>2. Cardinality(S) \in Nat
    BY FS_CardinalityType
<1>3. CASE Cardinality(S) < Room
  <2>1. LowestIn(S, S)
      BY <1>3 DEF LowestIn
  <2> QED
      BY <2>1
<1>4. CASE ~(Cardinality(S) < Room)
  <2> DEFINE a == Ascending(S)
             T == {a[n] : n \in 1 .. Room}
             f == [n \in 1 .. Room |-> a[n]]
  <2>1. /\ a \in Seq(S) /\ Len(a) = Cardinality(S) /\ ToSet(a) = S
        /\ \A i, j \in 1 .. Cardinality(S) : i < j => a[i] < a[j]
      BY AscendingIs
  <2> HIDE DEF a
  <2>2. /\ DOMAIN a = 1 .. Cardinality(S) /\ \A n \in 1 .. Cardinality(S) : a[n] \in S
        /\ \A x \in S : \E n \in 1 .. Cardinality(S) : a[n] = x
      BY <1>2, <2>1 DEF ToSet
  <2>3. 1 .. Room \subseteq 1 .. Cardinality(S)
      BY <1>1, <1>2, <1>4
  <2>4. \A i, j \in 1 .. Cardinality(S) : a[i] = a[j] => i = j
    <3>1. \A n \in 1 .. Cardinality(S) : a[n] \in Nat
        BY <2>2
    <3> QED
        BY <1>2, <2>1, <3>1
  <2>5. f \in Bijection(1 .. Room, T)
    <3>1. f \in [1 .. Room -> T] /\ \A x \in T : \E n \in 1 .. Room : f[n] = x
        OBVIOUS
    <3>2. \A i, j \in 1 .. Room : f[i] = f[j] => i = j
        BY <2>3, <2>4
    <3> HIDE DEF f, T
    <3> QED
        BY <3>1, <3>2 DEF Bijection, Injection, IsInjective, Surjection
  <2>6. Cardinality(T) = Room
    <3>1. IsFiniteSet(1 .. Room) /\ Cardinality(1 .. Room) = Room
        BY <1>1, FS_Interval
    <3> HIDE DEF f, T
    <3> QED
        BY <2>5, <3>1, FS_Bijection DEF ExistsBijection
  <2>7. T \subseteq S
      BY <2>2, <2>3
  <2>8. ASSUME NEW x \in T, NEW y \in S \ T PROVE x < y
    <3>1. PICK i \in 1 .. Room : a[i] = x
        OBVIOUS
    <3>2. PICK j \in 1 .. Cardinality(S) : a[j] = y
        BY <2>2
    <3>3. j \notin 1 .. Room
        BY <3>2
    <3>4. i < j /\ i \in 1 .. Cardinality(S)
        BY <1>1, <1>2, <2>3, <3>3
    <3> QED
        BY <2>1, <3>1, <3>2, <3>4
  <2> HIDE DEF T
  <2> QED
      BY <1>4, <2>6, <2>7, <2>8 DEF LowestIn
<1> QED
    BY <1>3, <1>4

\* What a sample holds, and how one more id changes it.
LEMMA SampleStep ==
    ASSUME NEW S, IsFiniteSet(S), S \subseteq Nat, NEW id \in Nat, id \notin S
    PROVE  /\ Len(SampleFor(S)) >= Room <=> Cardinality(S) >= Room
           /\ SampleFor(S \cup {id}) = SampleWith(SampleFor(S), id)
           /\ S = {} => SampleFor(S) = <<>>
<1> DEFINE T == CHOOSE U : LowestIn(U, S)
           all == S \cup {id}
           sample == Ascending(T)
<1>1. LowestIn(T, S)
    BY LowestExists
<1> HIDE DEF T
<1>2. /\ IsFiniteSet(T) /\ Cardinality(T) \in Nat /\ T \subseteq Nat
      /\ Cardinality(T) >= Room <=> Cardinality(S) >= Room
      /\ Cardinality(T) < Room => LowestIn(T \cup {id}, all)
      /\ \A m \in T : Cardinality(T) >= Room /\ id < m /\ (\A x \in T : x <= m) =>
            LowestIn((T \ {m}) \cup {id}, all)
      /\ Cardinality(T) >= Room /\ (\A x \in T : x < id) => LowestIn(T, all)
    BY <1>1, LowestGrows
<1>3. /\ Len(sample) = Cardinality(T) /\ ToSet(sample) = T
      /\ T # {} => Last(sample) \in T /\ \A x \in T : x <= Last(sample)
      /\ T = {} => sample = <<>>
    BY <1>2, AscendingIs
<1>4. IsFiniteSet(all) /\ all \subseteq Nat
    BY FS_AddElement
<1> HIDE DEF all
<1>5. ASSUME NEW U, LowestIn(U, all) PROVE SampleFor(all) = Ascending(U)
  <2>1. LowestIn(CHOOSE V : LowestIn(V, all), all)
      BY <1>5
  <2>2. U = CHOOSE V : LowestIn(V, all)
      BY <1>4, <1>5, <2>1, LowestIsUnique
  <2> QED
      BY <2>2 DEF SampleFor
<1>6. SampleFor(S) = sample
    BY DEF SampleFor, T
<1> HIDE DEF sample
<1>7. Room \in Nat
    BY LimitsAssumption DEF LimitNames, Room
<1>8. T # {} <=> sample # <<>>
  <2>1. T # {} => Cardinality(T) # 0
      BY <1>2, FS_EmptySet
  <2>2. Len(<<>>) = 0
      OBVIOUS
  <2> QED
      BY <1>3, <2>1, <2>2
<1>9. SampleFor(all) = SampleWith(sample, id)
  <2>1. CASE Len(sample) < Room
    <3>1. SampleWith(sample, id) = Ascending(T \cup {id})
        BY <1>3, <2>1 DEF SampleWith, Room
    <3> QED
        BY <1>2, <1>3, <1>5, <2>1, <3>1
  <2>2. CASE ~(Len(sample) < Room) /\ sample # <<>> /\ id < Last(sample)
    <3>1. SampleWith(sample, id) = Ascending((T \ {Last(sample)}) \cup {id})
        BY <1>3, <2>2 DEF SampleWith, Room
    <3>2. Cardinality(T) >= Room
        BY <1>2, <1>3, <1>7, <2>2
    <3>3. LowestIn((T \ {Last(sample)}) \cup {id}, all)
        BY <1>2, <1>3, <1>8, <2>2, <3>2
    <3> QED
        BY <1>5, <3>1, <3>3
  <2>3. CASE ~(Len(sample) < Room) /\ ~(sample # <<>> /\ id < Last(sample))
    <3>1. SampleWith(sample, id) = sample
        BY <2>3 DEF SampleWith, Room
    <3>2. Cardinality(T) >= Room
        BY <1>2, <1>3, <1>7, <2>3
    <3>3. ASSUME NEW x \in T PROVE x < id
      <4>1. Last(sample) \in T /\ x <= Last(sample) /\ ~(id < Last(sample))
          BY <1>3, <1>8, <2>3
      <4>2. x # id /\ x \in Nat /\ Last(sample) \in Nat
          BY <1>1, <1>2, <4>1 DEF LowestIn
      <4> QED
          BY <4>1, <4>2
    <3>4. LowestIn(T, all)
        BY <1>2, <3>2, <3>3
    <3>5. SampleFor(all) = Ascending(T)
        BY <1>5, <3>4
    <3> QED
        BY <3>1, <3>5 DEF sample
  <2> QED
      BY <2>1, <2>2, <2>3
<1>10. Len(sample) >= Room <=> Cardinality(S) >= Room
    BY <1>2, <1>3
<1>11. S = {} => sample = <<>>
    BY <1>1, <1>3 DEF LowestIn
<1> QED
    BY <1>6, <1>9, <1>10, <1>11 DEF all

\* The record of a set of verdicts, whatever order they were met in.
For(V, reason) == {v \in V : v.reason = reason}
PathsOf(V) == {v.path : v \in V}
ReasonsOf(V) == {v.reason : v \in V} \ {"ok"}
LeastOf(V) == CHOOSE v \in V : \A w \in V : v.path <= w.path
EntryFor(V) ==
    [count |-> Cardinality(PathsOf(V)), sample |-> SampleFor(PathsOf(V)),
     example |-> LeastOf(V).path, constraint |-> LeastOf(V).constraint]
Crowded(V, reason) == Cardinality(PathsOf(For(V, reason))) > Room
Summary(V) ==
    [entries |-> [c \in ReasonsOf(V) |-> EntryFor(For(V, c))],
     truncated |-> \E c \in ReasonsOf(V) : Crowded(V, c)]

\* Verdicts on different paths.
Apart(V) == /\ IsFiniteSet(V)
            /\ \A v \in V : v.path \in Nat
            /\ \A v, w \in V : v.path = w.path => v = w

\* The verdict on the lowest path.
LEMMA LeastIs ==
    ASSUME NEW V, Apart(V), NEW v \in V, \A w \in V : v.path <= w.path
    PROVE  LeastOf(V) = v
<1> DEFINE x == LeastOf(V)
<1>1. x \in V /\ \A w \in V : x.path <= w.path
    BY DEF LeastOf
<1> HIDE DEF x
<1>2. x.path \in Nat /\ v.path \in Nat /\ x.path <= v.path /\ v.path <= x.path
    BY <1>1 DEF Apart
<1>3. x.path = v.path
    BY <1>2
<1> QED
    BY <1>1, <1>3 DEF Apart, x

\* One more verdict of a reason, as ExclusionRecorder::Add takes it in.
LEMMA EntryStep ==
    ASSUME NEW V, NEW v, v \notin V, Apart(V \cup {v})
    PROVE  LET old == EntryFor(V)
               new == EntryFor(V \cup {v})
               lower == v.path < old.example
           IN /\ Cardinality(PathsOf(V \cup {v})) > Room <=> Len(SampleFor(PathsOf(V))) >= Room
              /\ Cardinality(PathsOf(V)) > Room => Cardinality(PathsOf(V \cup {v})) > Room
              /\ V = {} =>
                    /\ SampleFor(PathsOf(V)) = <<>>
                    /\ new = [count |-> 1, sample |-> SampleWith(<<>>, v.path),
                              example |-> v.path, constraint |-> v.constraint]
              /\ V # {} =>
                    /\ old.example \in Nat
                    /\ new = [count |-> old.count + 1, sample |-> SampleWith(old.sample, v.path),
                              example |-> IF lower THEN v.path ELSE old.example,
                              constraint |-> IF lower THEN v.constraint ELSE old.constraint]
<1> DEFINE all == V \cup {v}
           paths == PathsOf(V)
           id == v.path
<1>1. Apart(V) /\ id \in Nat /\ id \notin paths /\ paths \subseteq Nat
  <2>1. IsFiniteSet(V)
    <3>1. V \in SUBSET all
        OBVIOUS
    <3> QED
        BY <3>1, FS_Subset DEF Apart
  <2> QED
      BY <2>1 DEF Apart, PathsOf
<1>2. PathsOf(all) = paths \cup {id}
    BY DEF PathsOf
<1>3. IsFiniteSet(paths)
  <2> DEFINE f == [w \in V |-> w.path]
  <2>1. DOMAIN f = V /\ {f[w] : w \in DOMAIN f} = paths
      BY DEF PathsOf
  <2>2. IsFiniteSet(DOMAIN f)
      BY <1>1, <2>1 DEF Apart
  <2> HIDE DEF f, paths
  <2> QED
      BY <2>1, <2>2, RangeIsFinite
<1>4. Cardinality(paths) \in Nat /\ Cardinality(paths \cup {id}) = Cardinality(paths) + 1
    BY <1>1, <1>3, FS_AddElement, FS_CardinalityType
<1> HIDE DEF paths
<1>5. /\ Len(SampleFor(paths)) >= Room <=> Cardinality(paths) >= Room
      /\ SampleFor(paths \cup {id}) = SampleWith(SampleFor(paths), id)
      /\ paths = {} => SampleFor(paths) = <<>>
    BY <1>1, <1>3, SampleStep
<1>6. Room \in Nat
    BY LimitsAssumption DEF LimitNames, Room
<1>7. /\ Cardinality(PathsOf(all)) > Room <=> Len(SampleFor(paths)) >= Room
      /\ Cardinality(paths) > Room => Cardinality(PathsOf(all)) > Room
  <2>1. Cardinality(PathsOf(all)) = Cardinality(paths) + 1
      BY <1>2, <1>4
  <2>2. /\ Cardinality(PathsOf(all)) > Room <=> Cardinality(paths) >= Room
        /\ Cardinality(paths) > Room => Cardinality(PathsOf(all)) > Room
      BY <1>4, <1>6, <2>1
  <2> QED
      BY <1>5, <2>2
<1>8. /\ EntryFor(all).count = Cardinality(paths) + 1
      /\ EntryFor(all).sample = SampleWith(SampleFor(paths), id)
    BY <1>2, <1>4, <1>5 DEF EntryFor
<1>9. EntryFor(all) = [count |-> Cardinality(paths) + 1, sample |-> SampleWith(SampleFor(paths), id),
                       example |-> LeastOf(all).path, constraint |-> LeastOf(all).constraint]
    BY <1>2, <1>4, <1>5 DEF EntryFor
<1>10. ASSUME V = {}
       PROVE  /\ SampleFor(paths) = <<>>
              /\ EntryFor(all) = [count |-> 1, sample |-> SampleWith(<<>>, id),
                                  example |-> id, constraint |-> v.constraint]
  <2>1. paths = {} /\ Cardinality(paths) = 0
      BY <1>10, FS_EmptySet DEF PathsOf, paths
  <2>2. LeastOf(all) = v
    <3>1. v \in all /\ \A w \in all : v.path <= w.path
        BY <1>1, <1>10
    <3> QED
        BY <3>1, LeastIs
  <2> HIDE DEF all
  <2> QED
      BY <1>5, <1>9, <2>1, <2>2
<1>11. ASSUME V # {}
       PROVE  LET old == EntryFor(V)
                  lower == id < old.example
              IN /\ old.example \in Nat
                 /\ EntryFor(all) = [count |-> old.count + 1, sample |-> SampleWith(old.sample, id),
                              example |-> IF lower THEN id ELSE old.example,
                              constraint |-> IF lower THEN v.constraint ELSE old.constraint]
  <2>1. paths # {} /\ paths \subseteq Nat
      BY <1>1, <1>11 DEF PathsOf, paths
  <2>2. PICK n \in paths : \A k \in paths : n <= k
      BY <2>1, LeastNumber
  <2>3. PICK x \in V : x.path = n
      BY DEF PathsOf, paths
  <2>4. x \in V /\ x.path \in Nat /\ \A w \in V : x.path <= w.path
      BY <2>1, <2>2, <2>3 DEF PathsOf, paths
  <2>5. LeastOf(V) = x
      BY <1>1, <2>4, LeastIs
  <2>6. LeastOf(all) = IF id < x.path THEN v ELSE x
    <3>1. CASE id < x.path
      <4>1. \A w \in V : w.path \in Nat
          BY <1>1 DEF Apart
      <4>2. \A w \in all : v.path <= w.path
          BY <1>1, <2>4, <3>1, <4>1
      <4>3. v \in all
          OBVIOUS
      <4> HIDE DEF all
      <4> QED
          BY <3>1, <4>2, <4>3, LeastIs DEF all
    <3>2. CASE ~(id < x.path)
      <4>1. \A w \in all : x.path <= w.path
          BY <1>1, <2>4, <3>2
      <4>2. x \in all
          BY <2>4
      <4> HIDE DEF all
      <4> QED
          BY <3>2, <4>1, <4>2, LeastIs DEF all
    <3> QED
        BY <3>1, <3>2
  <2> DEFINE old == EntryFor(V)
  <2>7. /\ old.count = Cardinality(paths) /\ old.sample = SampleFor(paths)
        /\ old.example = x.path /\ old.constraint = x.constraint
      BY <2>5 DEF EntryFor, paths
  <2> HIDE DEF old, all
  <2>8. /\ LeastOf(all).path = IF id < old.example THEN id ELSE old.example
        /\ LeastOf(all).constraint = IF id < old.example THEN v.constraint ELSE old.constraint
      BY <2>6, <2>7
  <2>9. EntryFor(all) = [count |-> old.count + 1, sample |-> SampleWith(old.sample, id),
                         example |-> IF id < old.example THEN id ELSE old.example,
                         constraint |-> IF id < old.example THEN v.constraint ELSE old.constraint]
      BY <1>9, <2>7, <2>8
  <2>10. old.example \in Nat
      BY <2>4, <2>7
  <2> QED
      BY <2>9, <2>10 DEF old
<1> HIDE DEF all
<1> QED
    BY <1>7, <1>10, <1>11 DEF all, paths

\* The recorder turns the record of some verdicts into the record of one more.
LEMMA RecordStep ==
    ASSUME NEW V, NEW v, v \notin V, Apart(V \cup {v}),
           \A w \in V \cup {v} : w.reason \in Reasons \cup {"ok"},
           Limits.max_exclusion_reasons >= 17
    PROVE  Record(Summary(V), v) = Summary(V \cup {v})
<1> DEFINE all == V \cup {v}
           rec == Summary(V)
           reason == v.reason
<1>1. /\ DOMAIN rec = {"entries", "truncated"} /\ DOMAIN rec.entries = ReasonsOf(V)
      /\ \A c \in ReasonsOf(V) : rec.entries[c] = EntryFor(For(V, c))
      /\ rec.truncated = \E c \in ReasonsOf(V) : Crowded(V, c)
    BY DEF Summary
<1>2. \A c : c # reason => For(all, c) = For(V, c)
    BY DEF For
<1>3. For(all, reason) = For(V, reason) \cup {v} /\ v \notin For(V, reason)
    BY DEF For
<1>4. ReasonsOf(all) = IF reason = "ok" THEN ReasonsOf(V) ELSE ReasonsOf(V) \cup {reason}
    BY DEF ReasonsOf
<1>5. "ok" \notin ReasonsOf(V)
    BY DEF ReasonsOf
<1>6. CASE reason = "ok"
  <2>1. \A c \in ReasonsOf(V) : For(all, c) = For(V, c)
      BY <1>2, <1>5, <1>6
  <2>2. ReasonsOf(all) = ReasonsOf(V)
      BY <1>4, <1>6
  <2> HIDE DEF all
  <2>3. Summary(all) = Summary(V)
    <3>1. [c \in ReasonsOf(all) |-> EntryFor(For(all, c))] = [c \in ReasonsOf(V) |-> EntryFor(For(V, c))]
        BY <2>1, <2>2
    <3>2. (\E c \in ReasonsOf(all) : Crowded(all, c)) = \E c \in ReasonsOf(V) : Crowded(V, c)
        BY <2>1, <2>2 DEF Crowded
    <3> QED
        BY <3>1, <3>2 DEF Summary
  <2> QED
      BY <1>6, <2>3 DEF Record, all
<1>7. CASE reason # "ok"
  <2> DEFINE mine == For(V, reason)
             isNew == reason \notin DOMAIN rec.entries
             old == IF isNew
                    THEN [count |-> 0, sample |-> <<>>, example |-> v.path,
                          constraint |-> v.constraint]
                    ELSE rec.entries[reason]
             lower == v.path < old.example
             entry == [count |-> old.count + 1, sample |-> SampleWith(old.sample, v.path),
                       example |-> IF lower THEN v.path ELSE old.example,
                       constraint |-> IF lower THEN v.constraint ELSE old.constraint]
  <2>1. isNew <=> mine = {}
    <3>1. reason \in ReasonsOf(V) <=> mine # {}
        BY <1>7 DEF ReasonsOf, For
    <3> QED
        BY <1>1, <3>1
  <2>2. ~(isNew /\ Cardinality(DOMAIN rec.entries) >= Limits.max_exclusion_reasons)
    <3> SUFFICES ASSUME isNew PROVE Cardinality(ReasonsOf(V)) < Limits.max_exclusion_reasons
                                    /\ Cardinality(ReasonsOf(V)) \in Nat
                                    /\ Limits.max_exclusion_reasons \in Nat
        BY <1>1
    <3>1. ReasonsOf(V) \subseteq Reasons /\ reason \in Reasons /\ reason \notin ReasonsOf(V)
        BY <1>1, <1>7 DEF ReasonsOf
    <3>2. IsFiniteSet(ReasonsOf(V)) /\ Cardinality(ReasonsOf(V)) < 17
        BY <3>1, SeventeenReasons
    <3>3. Cardinality(ReasonsOf(V)) \in Nat
        BY <3>2, FS_CardinalityType
    <3>4. Limits.max_exclusion_reasons \in Nat
        BY LimitsAssumption DEF LimitNames
    <3> QED
        BY <3>2, <3>3, <3>4
  <2>3. Record(rec, v) = [entries |-> PutEntry(rec.entries, reason, entry),
                          truncated |-> rec.truncated \/ Len(old.sample) >= Room]
    <3>1. Record(rec, v) = AddExclusion(rec, reason, v.constraint, v.path)
        BY <1>7 DEF Record
    <3> HIDE DEF rec
    <3> QED
        BY <2>2, <3>1 DEF AddExclusion, Room
  <2>4. Apart(mine \cup {v})
    <3>1. mine \cup {v} \in SUBSET all
        BY DEF For
    <3> QED
        BY <3>1, FS_Subset DEF Apart
  <2> HIDE DEF mine, rec
  <2>5. /\ Cardinality(PathsOf(mine \cup {v})) > Room <=> Len(SampleFor(PathsOf(mine))) >= Room
        /\ Cardinality(PathsOf(mine)) > Room => Cardinality(PathsOf(mine \cup {v})) > Room
        /\ mine = {} =>
              /\ SampleFor(PathsOf(mine)) = <<>>
              /\ EntryFor(mine \cup {v}) = [count |-> 1, sample |-> SampleWith(<<>>, v.path),
                        example |-> v.path, constraint |-> v.constraint]
        /\ mine # {} =>
              LET e == EntryFor(mine)
                  less == v.path < e.example
              IN EntryFor(mine \cup {v})
                    = [count |-> e.count + 1, sample |-> SampleWith(e.sample, v.path),
                       example |-> IF less THEN v.path ELSE e.example,
                       constraint |-> IF less THEN v.constraint ELSE e.constraint]
    <3>1. v \notin mine
        BY <1>3 DEF mine
    <3> QED
        BY <2>4, <3>1, EntryStep
  <2>6. entry = EntryFor(mine \cup {v}) /\ old.sample = SampleFor(PathsOf(mine))
    <3>1. CASE mine = {}
      <4>1. old = [count |-> 0, sample |-> <<>>, example |-> v.path, constraint |-> v.constraint]
          BY <2>1, <3>1
      <4>2. old.count + 1 = 1 /\ old.sample = <<>> /\ old.example = v.path
            /\ old.constraint = v.constraint
          BY <4>1
      <4> HIDE DEF old
      <4>3. entry = [count |-> 1, sample |-> SampleWith(<<>>, v.path),
                     example |-> v.path, constraint |-> v.constraint]
          BY <4>2
      <4> QED
          BY <2>5, <3>1, <4>2, <4>3
    <3>2. CASE mine # {}
      <4>1. old = EntryFor(mine)
          BY <1>1, <2>1, <3>2 DEF mine
      <4> HIDE DEF old
      <4>2. old.sample = SampleFor(PathsOf(mine))
          BY <4>1 DEF EntryFor
      <4> QED
          BY <2>5, <3>2, <4>1, <4>2
    <3> QED
        BY <3>1, <3>2
  <2> HIDE DEF entry, old
  <2>7. PutEntry(rec.entries, reason, entry) = [c \in ReasonsOf(all) |-> EntryFor(For(all, c))]
    <3>1. ReasonsOf(all) = DOMAIN rec.entries \cup {reason}
        BY <1>1, <1>4, <1>7
    <3>2. ASSUME NEW c \in ReasonsOf(all)
          PROVE  (IF c = reason THEN entry ELSE rec.entries[c]) = EntryFor(For(all, c))
      <4>1. CASE c = reason
          BY <1>3, <2>6, <4>1 DEF mine
      <4>2. CASE c # reason
        <5>1. c \in ReasonsOf(V)
            BY <1>1, <3>1, <4>2
        <5> QED
            BY <1>1, <1>2, <4>2, <5>1
      <4> QED
          BY <4>1, <4>2
    <3> HIDE DEF all
    <3> QED
        BY <3>1, <3>2 DEF PutEntry
  <2>8. (rec.truncated \/ Len(old.sample) >= Room) <=> \E c \in ReasonsOf(all) : Crowded(all, c)
    <3>1. ReasonsOf(all) = ReasonsOf(V) \cup {reason}
        BY <1>4, <1>7
    <3>2. \A c : c # reason => (Crowded(all, c) <=> Crowded(V, c))
        BY <1>2 DEF Crowded
    <3>3. Crowded(all, reason) <=> Len(old.sample) >= Room
        BY <1>3, <2>5, <2>6 DEF Crowded, mine
    <3>4. Crowded(V, reason) => Crowded(all, reason)
        BY <1>3, <2>5 DEF Crowded, mine
    <3> HIDE DEF all
    <3> QED
        BY <1>1, <3>1, <3>2, <3>3, <3>4
  <2> HIDE DEF all
  <2>9. (rec.truncated \/ Len(old.sample) >= Room) = \E c \in ReasonsOf(all) : Crowded(all, c)
      BY <2>8
  <2>10. Record(rec, v) = Summary(all)
      BY <2>3, <2>7, <2>9 DEF Summary
  <2> QED
      BY <2>10 DEF all, rec
<1> QED
    BY <1>6, <1>7

\* A scan leaves the record of the set of its verdicts: with room for every kind of
\* reason, the order of the candidates changes nothing.
LEMMA RecordedIsSummary ==
    ASSUME NEW verdicts, Len(verdicts) \in Nat,
           \A n \in 1 .. Len(verdicts) : /\ verdicts[n].path \in Nat
                                         /\ verdicts[n].reason \in Reasons \cup {"ok"},
           \A m, n \in 1 .. Len(verdicts) : verdicts[m].path = verdicts[n].path => m = n,
           Limits.max_exclusion_reasons >= 17
    PROVE  Recorded(verdicts) = Summary({verdicts[n] : n \in 1 .. Len(verdicts)})
<1> DEFINE L == Len(verdicts)
           Met(n) == {verdicts[k] : k \in 1 .. n}
<1>1. PICK f : Trail(verdicts, f) /\ Recorded(verdicts) = f[L]
    BY RecordedIs
<1>2. /\ f[0] = NoExclusions
      /\ \A n \in 1 .. L : f[n] = Record(f[n - 1], verdicts[n])
    BY <1>1 DEF Trail
<1> DEFINE P(n) == IsFiniteSet(Met(n)) /\ f[n] = Summary(Met(n))
<1>3. P(0)
  <2>1. Met(0) = {}
      OBVIOUS
  <2>2. Summary({}) = NoExclusions
    <3>1. ReasonsOf({}) = {}
        BY DEF ReasonsOf
    <3>2. [c \in ReasonsOf({}) |-> EntryFor(For({}, c))] = <<>>
        BY <3>1
    <3>3. (\E c \in ReasonsOf({}) : Crowded({}, c)) = FALSE
        BY <3>1
    <3> QED
        BY <3>2, <3>3 DEF Summary, NoExclusions
  <2> QED
      BY <1>2, <2>1, <2>2, FS_EmptySet
<1>4. ASSUME NEW n \in 1 .. L, P(n - 1) PROVE P(n)
  <2> DEFINE v == verdicts[n]
             V == Met(n - 1)
  <2>1. Met(n) = V \cup {v}
    <3>1. 1 .. n = (1 .. (n - 1)) \cup {n}
        OBVIOUS
    <3> QED
        BY <3>1
  <2>2. \A k \in 1 .. n : k \in 1 .. L
      OBVIOUS
  <2>3. \A k \in 1 .. (n - 1) : k \in 1 .. L /\ k # n
      OBVIOUS
  <2>4. v \notin V
      BY <2>3
  <2>5. IsFiniteSet(V \cup {v})
      BY <1>4, FS_AddElement
  <2>6. Apart(V \cup {v})
    <3>1. \A w \in Met(n) : w.path \in Nat
        BY <2>2
    <3>2. \A w, x \in Met(n) : w.path = x.path => w = x
        BY <2>2
    <3> HIDE DEF V, v
    <3> QED
        BY <2>1, <2>5, <3>1, <3>2 DEF Apart
  <2>7. \A w \in V \cup {v} : w.reason \in Reasons \cup {"ok"}
    <3>1. \A w \in Met(n) : w.reason \in Reasons \cup {"ok"}
        BY <2>2
    <3> QED
        BY <2>1, <3>1
  <2> HIDE DEF V, v
  <2>8. Record(Summary(V), v) = Summary(V \cup {v})
      BY <2>4, <2>6, <2>7, RecordStep
  <2>9. f[n] = Record(f[n - 1], v) /\ f[n - 1] = Summary(V)
      BY <1>2, <1>4 DEF v, V
  <2> QED
      BY <2>1, <2>5, <2>8, <2>9
<1>5. P(L)
  <2> DEFINE T == {n \in 0 .. L : ~P(n)}
  <2> HIDE DEF P
  <2> SUFFICES ASSUME T # {} PROVE FALSE
      OBVIOUS
  <2>1. T \subseteq Nat
      OBVIOUS
  <2>2. PICK n \in T : \A k \in T : n <= k
      BY <2>1, LeastNumber
  <2>3. n \in 0 .. L /\ ~P(n)
      OBVIOUS
  <2>4. n # 0
      BY <1>3, <2>3
  <2>5. n \in 1 .. L /\ n - 1 \in 0 .. L /\ ~(n <= n - 1)
      BY <2>3, <2>4
  <2>6. P(n - 1)
      BY <2>2, <2>5
  <2> QED
      BY <1>4, <2>3, <2>5, <2>6
<1> QED
    BY <1>1, <1>5

\* Entries with the keys and the path ids of others rank the way those do.
LEMMA TwinsRankAlike ==
    ASSUME NEW entries, IsFiniteSet(entries), NEW n, Rankable(entries, n),
           NEW f, DOMAIN f = entries,
           \A e \in entries : f[e].keys = e.keys /\ f[e].path.id = e.path.id
    PROVE  LET twins == {f[e] : e \in entries}
           IN /\ IsFiniteSet(twins) /\ Cardinality(twins) = Cardinality(entries)
              /\ Rank(twins) = [i \in DOMAIN Rank(entries) |-> f[Rank(entries)[i]]]
<1> DEFINE twins == {f[e] : e \in entries}
           R == Rank(entries)
           Q == Rank(twins)
           N == Cardinality(entries)
<1>1. \A e, g \in entries : f[e] = f[g] => e = g
    BY DEF Rankable
<1>2. IsFiniteSet(twins) /\ Cardinality(twins) = N
  <2> DEFINE g == [e \in entries |-> f[e]]
  <2>1. g \in [entries -> twins] /\ \A x \in twins : \E e \in entries : g[e] = x
      OBVIOUS
  <2>2. \A x, y \in entries : g[x] = g[y] => x = y
      BY <1>1
  <2> HIDE DEF g, twins
  <2>3. g \in Bijection(entries, twins)
      BY <2>1, <2>2 DEF Bijection, Injection, IsInjective, Surjection
  <2> QED
      BY <2>3, FS_Bijection DEF ExistsBijection
<1>3. Rankable(twins, n)
  <2>1. n \in Nat
      BY DEF Rankable
  <2>2. ASSUME NEW x \in twins
        PROVE  /\ DOMAIN x.keys = 1 .. n /\ x.path.id \in Nat
               /\ \A k \in 1 .. n : x.keys[k] \in Key
    <3>1. PICK e \in entries : x = f[e]
        OBVIOUS
    <3> QED
        BY <3>1 DEF Rankable
  <2>3. ASSUME NEW x \in twins, NEW y \in twins
        PROVE  /\ \A k \in 1 .. n : x.keys[k].direction = y.keys[k].direction
               /\ x.path.id = y.path.id => x = y
    <3>1. PICK e \in entries : x = f[e]
        OBVIOUS
    <3>2. PICK g \in entries : y = f[g]
        OBVIOUS
    <3> QED
        BY <3>1, <3>2 DEF Rankable
  <2> HIDE DEF twins
  <2> QED
      BY <2>1, <2>2, <2>3 DEF Rankable
<1>4. \A e, g \in entries : RankLess(f[e], f[g]) <=> RankLess(e, g)
    BY DEF RankLess
<1>5. /\ N \in Nat /\ DOMAIN R = 1 .. N
      /\ \A i \in 1 .. N : R[i] \in entries
      /\ \A e \in entries : \E i \in 1 .. N : R[i] = e
      /\ \A i, j \in 1 .. N : i < j => RankLess(R[i], R[j])
      /\ \A i, j \in 1 .. N : R[i] = R[j] => i = j
  <2>1. N \in Nat /\ DOMAIN R = 1 .. N
      BY RankSorts
  <2> QED
      BY <2>1, RankSorts
<1> HIDE DEF R, Q
<1>6. /\ DOMAIN Q = 1 .. N
      /\ \A i \in 1 .. N : Q[i] \in twins
      /\ \A x \in twins : \E i \in 1 .. N : Q[i] = x
      /\ \A i, j \in 1 .. N : i < j => RankLess(Q[i], Q[j])
      /\ \A i, j \in 1 .. N : Q[i] = Q[j] => i = j
  <2> HIDE DEF twins
  <2>1. DOMAIN Q = 1 .. N
      BY <1>2, <1>3, RankSorts DEF Q
  <2> QED
      BY <1>2, <1>3, <2>1, RankSorts DEF Q
<1> HIDE DEF N
<1>7. ASSUME NEW i \in 1 .. N PROVE Q[i] = f[R[i]]
  <2> DEFINE T == {j \in 1 .. N : Q[j] # f[R[j]]}
  <2> SUFFICES ASSUME T # {} PROVE FALSE
      BY DEF T
  <2>1. T \subseteq Nat
      BY <1>5
  <2>2. PICK m \in T : \A j \in T : m <= j
      BY <2>1, LeastNumber
  <2>3. m \in 1 .. N /\ Q[m] # f[R[m]] /\ \A j \in 1 .. N : j < m => Q[j] = f[R[j]]
      BY <1>5, <2>2
  <2> HIDE DEF T
  <2>4. PICK j \in 1 .. N : Q[j] = f[R[m]]
    <3>1. f[R[m]] \in twins
        BY <1>5, <2>3
    <3> HIDE DEF twins
    <3> QED
        BY <1>6, <3>1
  <2>5. PICK k \in 1 .. N : Q[m] = f[R[k]]
    <3>1. PICK e \in entries : Q[m] = f[e]
        BY <1>6, <2>3
    <3> QED
        BY <1>5, <3>1
  <2>6. m < j
    <3>1. j # m
        BY <2>3, <2>4
    <3>2. ASSUME j < m PROVE FALSE
      <4>1. f[R[j]] = f[R[m]]
          BY <2>3, <2>4, <3>2
      <4>2. R[j] = R[m]
          BY <1>1, <1>5, <2>3, <4>1
      <4> QED
          BY <1>5, <2>3, <3>1, <4>2
    <3> QED
        BY <1>5, <2>3, <3>1, <3>2
  <2>7. m < k
    <3>1. k # m
        BY <2>3, <2>5
    <3>2. ASSUME k < m PROVE FALSE
      <4>1. Q[k] = Q[m]
          BY <2>3, <2>5, <3>2
      <4> QED
          BY <1>6, <2>3, <3>1, <4>1
    <3> QED
        BY <1>5, <2>3, <3>1, <3>2
  <2>8. RankLess(f[R[k]], f[R[m]])
      BY <1>6, <2>3, <2>4, <2>5, <2>6
  <2>9. RankLess(R[k], R[m]) /\ RankLess(R[m], R[k]) /\ R[k] \in entries /\ R[m] \in entries
      BY <1>4, <1>5, <2>3, <2>7, <2>8
  <2> QED
      BY <2>9, RankLessIsAnOrder
<1>8. Q = [i \in 1 .. N |-> Q[i]]
  <2>1. ASSUME NEW S PROVE Rank(S) = [i \in DOMAIN Rank(S) |-> Rank(S)[i]]
      BY DEF Rank
  <2>2. Q = [i \in DOMAIN Q |-> Q[i]]
      BY <2>1 DEF Q
  <2> QED
      BY <1>6, <2>2
<1>9. Q = [i \in DOMAIN R |-> f[R[i]]]
    BY <1>5, <1>7, <1>8
<1> QED
    BY <1>2, <1>9 DEF Q, R, N
=============================================================================
