--------------------------- MODULE ProtocolProofs ----------------------------
(***************************************************************************)
(* Lemmas about what all parts of the replica share: quorums, signatures,  *)
(* and least elements of sets of numbers.                                  *)
(***************************************************************************)
EXTENDS Protocol, FiniteSetTheorems, NaturalsInduction, TLAPS

-----------------------------------------------------------------------------
(* Numbers.                                                                *)

(* Every set of naturals that is not empty has a least element.            *)
LEMMA LeastNatural ==
    ASSUME NEW S \in SUBSET Nat, S # {}
    PROVE  \E m \in S : \A k \in S : m <= k
<1>1. PICK m \in S : \A k \in S : <<k, m>> \notin OpToRel(<, Nat)
      BY NatLessThanWellFounded, WFMin
<1>2. \A k \in S : ~(k < m)
      BY <1>1 DEF OpToRel
<1>3. QED
      BY <1>2

(* A relation R without cycles on a finite set S, which is not empty, has a *)
(* minimal element.                                                        *)
LEMMA MinimalElement ==
    ASSUME NEW S, IsFiniteSet(S), S # {}, NEW R,
           \A x \in S : <<x, x>> \notin R,
           \A x, y, z \in S : <<x, y>> \in R /\ <<y, z>> \in R => <<x, z>> \in R
    PROVE  \E m \in S : \A x \in S : <<x, m>> \notin R
<1> DEFINE Below(m) == {x \in S : <<x, m>> \in R}
           size     == [m \in S |-> Cardinality(Below(m))]
           Sizes    == {size[m] : m \in S}
<1>1. ASSUME NEW m \in S
      PROVE  IsFiniteSet(Below(m)) /\ size[m] = Cardinality(Below(m))
                 /\ size[m] \in Nat
  <2>1. Below(m) \in SUBSET S
        OBVIOUS
  <2>2. IsFiniteSet(Below(m))
        BY <2>1, FS_Subset
  <2>3. Cardinality(Below(m)) \in Nat
        BY <2>2, FS_CardinalityType
  <2>4. QED
        BY <2>2, <2>3
<1>2. ASSUME NEW m \in S, NEW x \in S, <<x, m>> \in R PROVE size[x] < size[m]
  <2>1. Below(x) \in SUBSET Below(m) /\ Below(x) # Below(m)
        BY <1>2
  <2> HIDE DEF Below
  <2>2. Cardinality(Below(x)) <= Cardinality(Below(m))
        /\ Cardinality(Below(x)) # Cardinality(Below(m))
        BY <2>1, <1>1, FS_Subset
  <2>3. QED
        BY <2>2, <1>1
<1> HIDE DEF size
<1>3. \A m \in S : size[m] \in Nat
      BY <1>1
<1>4. Sizes \in SUBSET Nat /\ Sizes # {}
      BY <1>3
<1>5. PICK k \in Sizes : \A j \in Sizes : k <= j
      BY <1>4, LeastNatural
<1>6. PICK m \in S : k = size[m]
      BY <1>5
<1>7. \A x \in S : size[m] <= size[x]
      BY <1>5, <1>6
<1>8. ASSUME NEW x \in S, <<x, m>> \in R PROVE FALSE
  <2>1. size[x] < size[m] /\ size[m] <= size[x]
        BY <1>2, <1>7, <1>8
  <2>2. QED
        BY <2>1, <1>3
<1>9. QED
      BY <1>8

(* Counting in turn.                                                       *)
LEMMA NextRemainder ==
    ASSUME NEW a \in Nat, NEW b \in Nat \ {0}
    PROVE  ((a % b) + 1) % b = (a + 1) % b
<1> DEFINE q == a \div b
           r == a % b
<1>1. q \in Nat /\ r \in 0 .. b - 1 /\ a = (b * q) + r
      OBVIOUS
<1>2. ASSUME NEW c \in Nat, NEW d \in Nat, NEW e \in 0 .. b - 1, c = (b * d) + e
      PROVE  c % b = e
      BY <1>2
<1> HIDE DEF q, r
<1>3. CASE r + 1 < b
  <2>1. (a + 1) % b = r + 1
        BY <1>1, <1>2, <1>3
  <2>2. (r + 1) % b = r + 1
        BY <1>1, <1>3
  <2>3. QED
        BY <2>1, <2>2 DEF r
<1>4. CASE r + 1 = b
  <2>1. a + 1 = (b * (q + 1)) + 0
        BY <1>1, <1>4
  <2>2. (a + 1) % b = 0
        BY <1>1, <1>2, <2>1
  <2>3. (r + 1) % b = 0
        BY <1>4
  <2>4. QED
        BY <2>2, <2>3 DEF r
<1>5. QED
      BY <1>1, <1>3, <1>4

-----------------------------------------------------------------------------
(* Quorums.                                                                *)

(* Two quorums together are more than all replicas.                        *)
LEMMA QuorumSizes ==
    /\ Total \in Nat \ {0}
    /\ QSize \in Nat \ {0, 1}
    /\ 2 * QSize > Total
<1>1. ConstFactor * NumFaults \in Nat
      BY FaultAssumption
<1>2. ConstFactor * NumFaults >= 2 * NumFaults
      BY FaultAssumption
<1>3. QED
      BY <1>1, <1>2, FaultAssumption DEF Total, QSize

(* The replicas are finitely many, and so is every set of them.            *)
LEMMA ReplicasFinite ==
    /\ IsFiniteSet(PID)
    /\ Cardinality(PID) = Total
    /\ \A S \in SUBSET PID : /\ IsFiniteSet(S)
                             /\ Cardinality(S) \in Nat
                             /\ Cardinality(S) <= Total
<1>1. IsFiniteSet(PID) /\ Cardinality(PID) = Total
      BY FS_Interval, QuorumSizes DEF PID
<1>2. ASSUME NEW S \in SUBSET PID
      PROVE  /\ IsFiniteSet(S)
             /\ Cardinality(S) \in Nat
             /\ Cardinality(S) <= Total
      BY <1>1, FS_Subset, FS_CardinalityType
<1>3. QED
      BY <1>1, <1>2

(* Two quorums have a replica in common.                                   *)
LEMMA QuorumsIntersect ==
    ASSUME NEW A \in SUBSET PID, NEW B \in SUBSET PID,
           Cardinality(A) >= QSize, Cardinality(B) >= QSize
    PROVE  \E i \in PID : i \in A /\ i \in B
<1>1. SUFFICES ASSUME A \cap B = {} PROVE FALSE
      OBVIOUS
<1>2. Cardinality(A \cup B) = Cardinality(A) + Cardinality(B)
                                  - Cardinality(A \cap B)
      BY FS_Union, ReplicasFinite
<1>3. Cardinality(A \cap B) = 0
      BY <1>1, FS_EmptySet
<1>4. Cardinality(A \cup B) <= Total
      BY ReplicasFinite
<1>5. Cardinality(A) \in Nat /\ Cardinality(B) \in Nat
      BY ReplicasFinite
<1>6. QED
      BY <1>2, <1>3, <1>4, <1>5, QuorumSizes

(* The signers of a set of signatures that has at most one of each.        *)
LEMMA SignersCount ==
    ASSUME NEW signs, getSigners(signs) \subseteq PID,
           \A g, h \in signs : g.signer = h.signer => g = h
    PROVE  /\ IsFiniteSet(signs)
           /\ Cardinality(getSigners(signs)) = Cardinality(signs)
<1> DEFINE S == getSigners(signs)
           f == [i \in S |-> CHOOSE g \in signs : g.signer = i]
<1>1. \A i \in S : f[i] \in signs /\ f[i].signer = i
      BY DEF getSigners
<1>2. \A g \in signs : g.signer \in S /\ f[g.signer] = g
      BY <1>1 DEF getSigners
<1>3. f \in Bijection(S, signs)
      BY <1>1, <1>2 DEF Bijection, Injection, IsInjective, Surjection
<1>4. ExistsBijection(S, signs)
      BY <1>3 DEF ExistsBijection
<1>5. QED
      BY <1>4, FS_Bijection, ReplicasFinite

(* A set of replicas with a quorum in it is a quorum.                      *)
LEMMA CardinalityMonotonic ==
    ASSUME NEW A \in SUBSET PID, NEW B \in SUBSET PID, A \subseteq B
    PROVE  /\ Cardinality(A) <= Cardinality(B)
           /\ Cardinality(A) >= QSize => Cardinality(B) >= QSize
<1>1. Cardinality(A) \in Nat /\ Cardinality(B) \in Nat /\ IsFiniteSet(B)
      BY ReplicasFinite
<1>2. Cardinality(A) <= Cardinality(B)
      BY <1>1, FS_Subset
<1>3. QED
      BY <1>1, <1>2, QuorumSizes

(* A quorum has a member.                                                  *)
LEMMA QuorumMember ==
    ASSUME NEW A, Cardinality(A) >= QSize
    PROVE  A # {}
BY FS_EmptySet, QuorumSizes
=============================================================================
