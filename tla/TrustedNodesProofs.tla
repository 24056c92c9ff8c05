------------------------- MODULE TrustedNodesProofs -------------------------
(***************************************************************************)
(* Theorems about the trusted components of all replicas (TrustedNodes),   *)
(* for every number of faults, every factor, every set of hashes and every *)
(* bound on the counters.                                                  *)
(***************************************************************************)
EXTENDS TrustedNodes, ProtocolProofs

-----------------------------------------------------------------------------
(* One call.                                                               *)

Counter(t) == Stamp(t.view, t.phase)

(* From t to u a component signs one statement at its counter's value and  *)
(* passes that value.                                                      *)
SignsOne(t, u) ==
    /\ Counter(u) = Counter(t) + 1
    /\ u.view >= t.view
    /\ \E r \in RDataOver(Hash) : /\ u.signed = t.signed \cup {r}
                                  /\ StampOf(r) = Counter(t)

SameLock(t, u) ==
    /\ u.lockh = t.lockh /\ u.lockv = t.lockv
    /\ u.preph = t.preph /\ u.prepv = t.prepv

(* The counter orders (view, phase) pairs.                                 *)
LEMMA StampType ==
    ASSUME NEW v \in Nat, NEW p \in Phase
    PROVE  Stamp(v, p) \in Nat
BY DEF Stamp, Phase, NEWVIEW, PREPARE, PRECOMMIT, COMMIT

(* `increment' moves to the next value of the counter and changes nothing  *)
(* else.                                                                   *)
LEMMA IncrementEffect ==
    ASSUME NEW t \in TrustedFunOver(Hash)
    PROVE  /\ increment(t) \in TrustedFunOver(Hash)
           /\ Counter(increment(t)) = Counter(t) + 1
           /\ increment(t).view >= t.view
           /\ increment(t).signed = t.signed
           /\ SameLock(t, increment(t))
<1> USE DEF Phase, NEWVIEW, PREPARE, PRECOMMIT, COMMIT
<1>1. CASE t.phase = COMMIT
  <2> DEFINE v == t.view + 1
             s == [t EXCEPT !.phase = NEWVIEW]
  <2>1. increment(t) = [s EXCEPT !.view = v]
        BY <1>1 DEF increment, TrustedFunOver
  <2>2. t.view \in Nat /\ v \in Nat
        BY DEF TrustedFunOver
  <2>3. /\ s \in TrustedFunOver(Hash)
        /\ s.phase = NEWVIEW
        /\ s.signed = t.signed
        /\ SameLock(t, s)
        BY DEF TrustedFunOver, SameLock
  <2> HIDE DEF s, v
  <2>4. /\ increment(t) \in TrustedFunOver(Hash)
        /\ increment(t).view = v
        /\ increment(t).phase = s.phase
        /\ increment(t).signed = s.signed
        /\ SameLock(s, increment(t))
        BY <2>1, <2>2, <2>3 DEF TrustedFunOver, SameLock
  <2>5. QED
        BY <1>1, <2>2, <2>3, <2>4 DEF Counter, Stamp, SameLock, v
<1>2. CASE t.phase # COMMIT
  <2>1. increment(t) = [t EXCEPT !.phase = @ + 1]
        BY <1>2 DEF increment
  <2>2. QED
        BY <1>2, <2>1 DEF TrustedFunOver, Counter, Stamp, SameLock
<1>3. QED
      BY <1>1, <1>2

(* What `sign' does to the component.                                      *)
LEMMA SignEffect ==
    ASSUME NEW id, NEW t \in TrustedFunOver(Hash), NEW h1 \in Hash,
           NEW h2 \in Hash, NEW v2 \in Nat
    PROVE  /\ sign(id, t, h1, h2, v2).tee \in TrustedFunOver(Hash)
           /\ SignsOne(t, sign(id, t, h1, h2, v2).tee)
           /\ SameLock(t, sign(id, t, h1, h2, v2).tee)
<1> DEFINE rdata == RData(h1, t.view, h2, v2, t.phase)
           s == [t EXCEPT !.signed = @ \cup {rdata}]
           u == sign(id, t, h1, h2, v2).tee
<1>1. rdata \in RDataOver(Hash) /\ StampOf(rdata) = Counter(t)
      BY DEF RData, RDataOver, TrustedFunOver, StampOf, Counter
<1>2. u = increment(s)
      BY DEF sign
<1> HIDE DEF rdata
<1>3. s \in TrustedFunOver(Hash) /\ SameLock(t, s)
      BY <1>1 DEF TrustedFunOver, SameLock
<1>4. s.view = t.view /\ s.phase = t.phase /\ s.signed = t.signed \cup {rdata}
      BY DEF TrustedFunOver
<1> HIDE DEF s, u
<1>5. /\ u \in TrustedFunOver(Hash)
      /\ Counter(u) = Counter(s) + 1
      /\ u.view >= s.view
      /\ u.signed = s.signed
      /\ SameLock(s, u)
      BY <1>2, <1>3, IncrementEffect
<1>6. SignsOne(t, u)
      BY <1>1, <1>4, <1>5 DEF SignsOne, Counter
<1>7. SameLock(t, u)
      BY <1>3, <1>5 DEF SameLock
<1>8. QED
      BY <1>5, <1>6, <1>7 DEF u

-----------------------------------------------------------------------------
(* One step.                                                               *)

(* The lock of component i stays, or it moves to a block that all signers  *)
(* of a certificate of the component's view have voted for.                *)
LocksVoted(i) ==
    \/ SameLock(tee[i], tee'[i]) /\ lockers' = lockers
    \/ /\ tee'[i].preph = tee'[i].lockh /\ tee'[i].prepv = tee'[i].lockv
       /\ tee'[i].lockv = tee[i].view
       /\ lockers' = [lockers EXCEPT ![i] = lockers'[i]]
       /\ lockers'[i] \in SUBSET PID
       /\ VotedBy(lockers'[i], tee'[i].lockh, tee'[i].lockv)

(* The component of replica i, and no other, has made a successful call.   *)
Signs(i) ==
    /\ tee' = [tee EXCEPT ![i] = tee'[i]]
    /\ tee'[i] \in TrustedFunOver(Hash)
    /\ SignsOne(tee[i], tee'[i])
    /\ LocksVoted(i)

(* Every justification is typed, and if it has signatures at all, they are *)
(* of replicas that have signed its data.                                  *)
LEMMA JustificationFacts ==
    ASSUME TypeOK, NEW j \in Justifications
    PROVE  /\ j.rdata \in RDataOver(Hash)
           /\ getSigners(j.signs) \subseteq Voters(j.rdata)
           /\ j.signs # {} => getSigners(j.signs) # {}
<1>1. CASE j \in {Just(rdata, {}) : rdata \in Unsigned}
      BY <1>1, HostAssumption DEF Just, getSigners
<1>2. CASE j \notin {Just(rdata, {}) : rdata \in Unsigned}
  <2>1. PICK rdata \in UNION {tee[i].signed : i \in PID} :
            \E list \in Lists(Voters(rdata)) : j = Just(rdata, SignsOf(list, rdata))
        BY <1>2 DEF Justifications
  <2>2. PICK list \in Lists(Voters(rdata)) : j = Just(rdata, SignsOf(list, rdata))
        BY <2>1
  <2>3. j.rdata = rdata /\ j.signs = SignsOf(list, rdata)
        BY <2>2 DEF Just
  <2>4. rdata \in RDataOver(Hash)
        BY <2>1 DEF TypeOK, TrustedFunOver
  <2>5. PICK k : list \in [1 .. k -> Voters(rdata)]
        BY DEF Lists
  <2>6. \A g \in j.signs : g.signer \in Voters(rdata)
        BY <2>3, <2>5 DEF SignsOf, Element
  <2>7. QED
        BY <2>3, <2>4, <2>6 DEF getSigners
<1>3. QED
      BY <1>1, <1>2

(* A certificate that can be stored has signatures, and its signers have   *)
(* voted for its block.                                                    *)
LEMMA StorableFacts ==
    ASSUME TypeOK, NEW t, NEW j \in Justifications, storable(t, j)
    PROVE  /\ getSigners(j.signs) \in SUBSET PID
           /\ VotedBy(getSigners(j.signs), j.rdata.proph, j.rdata.propv)
<1>1. j.signs # {}
      BY FS_EmptySet, QuorumSizes DEF storable
<1>2. PICK k : k \in getSigners(j.signs)
      BY <1>1, JustificationFacts
<1>3. getSigners(j.signs) \subseteq Voters(j.rdata)
      BY JustificationFacts
<1>4. k \in PID /\ j.rdata \in tee[k].signed
      BY <1>2, <1>3 DEF Voters
<1>5. j.rdata.phase \in {PREPARE, PRECOMMIT}
      BY DEF storable
<1>6. VotedBy(getSigners(j.signs), j.rdata.proph, j.rdata.propv)
      BY <1>2, <1>3, <1>4, <1>5 DEF VotedBy
<1>7. QED
      BY <1>3, <1>6 DEF Voters

(* A stored certificate moves the lock, then the component signs.          *)
LEMMA StoreEffect ==
    ASSUME TypeOK, NEW i \in PID, NEW j \in Justifications,
           storable(tee[i], j)
    PROVE  LET u == TEEstore(i, tee[i], j).tee
           IN  /\ u \in TrustedFunOver(Hash)
               /\ SignsOne(tee[i], u)
               /\ u.preph = u.lockh /\ u.prepv = u.lockv
               /\ u.lockv = tee[i].view
               /\ VotedBy(getSigners(j.signs), u.lockh, u.lockv)
<1> DEFINE t == tee[i]
           r == j.rdata
           s == record(t, r)
           u == TEEstore(i, t, j).tee
<1>1. t \in TrustedFunOver(Hash)
      BY DEF TypeOK
<1>2. /\ r \in RDataOver(Hash)
      /\ VotedBy(getSigners(j.signs), r.proph, r.propv)
      /\ t.view = r.propv
      BY JustificationFacts, StorableFacts DEF storable
<1>3. r.proph \in Hash /\ r.propv \in Nat
      BY <1>2 DEF RDataOver
<1>5. u = sign(i, s, r.proph, Genesis, 0).tee
      BY DEF TEEstore
<1> HIDE DEF t, r
<1>6. /\ s \in TrustedFunOver(Hash)
      /\ s.view = t.view /\ s.phase = t.phase /\ s.signed = t.signed
      /\ s.lockh = r.proph /\ s.lockv = r.propv
      /\ s.preph = r.proph /\ s.prepv = r.propv
      BY <1>1, <1>3 DEF record, TrustedFunOver
<1> HIDE DEF s, u
<1>7. u \in TrustedFunOver(Hash) /\ SignsOne(s, u) /\ SameLock(s, u)
      BY <1>3, <1>5, <1>6, SignEffect, HashAssumption
<1>8. SignsOne(t, u)
      BY <1>6, <1>7 DEF SignsOne, Counter
<1>9. u.lockh = r.proph /\ u.lockv = r.propv /\ u.preph = r.proph /\ u.prepv = r.propv
      BY <1>6, <1>7 DEF SameLock
<1>10. QED
      BY <1>2, <1>7, <1>8, <1>9 DEF u, t

(* Every step of the system is one successful call of one component, or    *)
(* changes nothing.                                                        *)
LEMMA StepEffect ==
    ASSUME TypeOK, [Next]_vars
    PROVE  (\E i \in PID : Signs(i)) \/ UNCHANGED vars
<1>1. CASE UNCHANGED vars
      BY <1>1
<1>2. CASE Next
  <2>1. PICK i \in PID : CallTEEsign(i) \/ CallTEEprepare(i) \/ CallTEEstore(i)
        BY <1>2 DEF Next
  <2>2. tee[i] \in TrustedFunOver(Hash) /\ tee \in [PID -> TrustedFunOver(Hash)]
        BY DEF TypeOK
  <2>3. tee[i].preph \in Hash /\ tee[i].prepv \in Nat
        BY <2>2 DEF TrustedFunOver
  <2>4. ASSUME NEW u, tee' = [tee EXCEPT ![i] = u], lockers' = lockers,
               u \in TrustedFunOver(Hash), SignsOne(tee[i], u),
               SameLock(tee[i], u)
        PROVE  Signs(i)
    <3>1. tee'[i] = u
          BY <2>2, <2>4
    <3>2. QED
          BY <2>4, <3>1 DEF Signs, LocksVoted
  <2>5. Refuse(tee[i]).just.set = FALSE
        BY DEF Refuse, NoJust
  <2>6. CASE CallTEEsign(i)
    <3>1. /\ tee' = [tee EXCEPT ![i] = sign(i, @, Dummy, @.preph, @.prepv).tee]
          /\ lockers' = lockers
          BY <2>6 DEF CallTEEsign, TEEsign
    <3>2. QED
          BY <2>2, <2>3, <2>4, <3>1, SignEffect, HashAssumption
  <2>7. CASE CallTEEprepare(i)
    <3>1. PICK h \in Proposed, j \in Justifications :
              /\ TEEprepare(i, tee[i], h, j).just.set
              /\ tee' = [tee EXCEPT ![i] = TEEprepare(i, @, h, j).tee]
              /\ lockers' = lockers
          BY <2>7 DEF CallTEEprepare
    <3>2. j.rdata.justh \in Hash /\ j.rdata.justv \in Nat /\ h \in Hash
          BY JustificationFacts, HostAssumption DEF RDataOver
    <3>3. TEEprepare(i, tee[i], h, j)
              = sign(i, tee[i], h, j.rdata.justh, j.rdata.justv)
          BY <2>5, <3>1 DEF TEEprepare
    <3>4. QED
          BY <2>2, <2>4, <3>1, <3>2, <3>3, SignEffect
  <2>8. CASE CallTEEstore(i)
    <3>1. PICK j \in Justifications :
              /\ TEEstore(i, tee[i], j).just.set
              /\ tee' = [tee EXCEPT ![i] = TEEstore(i, @, j).tee]
              /\ lockers' = [lockers EXCEPT ![i] = getSigners(j.signs)]
          BY <2>8 DEF CallTEEstore
    <3>2. storable(tee[i], j)
          BY <2>5, <3>1 DEF TEEstore
    <3>3. /\ tee'[i] = TEEstore(i, tee[i], j).tee
          /\ tee' = [tee EXCEPT ![i] = tee'[i]]
          BY <2>2, <3>1
    <3>4. lockers'[i] = getSigners(j.signs)
          BY <3>1 DEF TypeOK
    <3>5. getSigners(j.signs) \in SUBSET PID
          BY <3>2, StorableFacts
    <3>6. VotedBy(lockers'[i], tee'[i].lockh, tee'[i].lockv)
          BY <3>2, <3>3, <3>4, StoreEffect
    <3>7. LocksVoted(i)
      <4>1. /\ tee'[i].preph = tee'[i].lockh /\ tee'[i].prepv = tee'[i].lockv
            /\ tee'[i].lockv = tee[i].view
            BY <3>2, <3>3, StoreEffect
      <4>2. lockers' = [lockers EXCEPT ![i] = lockers'[i]]
            BY <3>1, <3>4
      <4>3. QED
            BY <3>4, <3>5, <3>6, <4>1, <4>2 DEF LocksVoted
    <3>8. QED
          BY <3>2, <3>3, <3>7, StoreEffect DEF Signs
  <2>9. QED
        BY <2>1, <2>6, <2>7, <2>8
<1>3. QED
      BY <1>1, <1>2

(* What a step of replica i leaves alone, and how each component changes.  *)
LEMMA StepFrame ==
    ASSUME TypeOK, NEW i \in PID, Signs(i)
    PROVE  /\ TypeOK'
           /\ \A k \in PID : k # i => tee'[k] = tee[k]
           /\ \A k \in PID : tee[k].signed \subseteq tee'[k].signed
           /\ \A k \in PID : Counter(tee[k]) \in Nat /\ Counter(tee'[k]) \in Nat
<1>1. TypeOK'
      BY DEF TypeOK, Signs, LocksVoted
<1>2. \A k \in PID : k # i => tee'[k] = tee[k]
      BY DEF TypeOK, Signs
<1>3. tee[i].signed \subseteq tee'[i].signed
      BY DEF Signs, SignsOne
<1>4. ASSUME NEW k \in PID
      PROVE  Counter(tee[k]) \in Nat /\ Counter(tee'[k]) \in Nat
      BY <1>1, StampType DEF TypeOK, TrustedFunOver, Counter
<1>5. QED
      BY <1>1, <1>2, <1>3, <1>4

-----------------------------------------------------------------------------
(* The inductive invariant.                                                *)

(* Everything a component has signed lies below its counter.               *)
Below ==
    \A i \in PID : \A r \in tee[i].signed : StampOf(r) < Counter(tee[i])

(* No lock is of a view that its component has not reached.                *)
LockReached == \A i \in PID : tee[i].lockv <= tee[i].view

(* Every lock but the first is that of a certificate.                      *)
Backed(i) ==
    /\ tee[i].preph = tee[i].lockh /\ tee[i].prepv = tee[i].lockv
    /\ \/ lockers[i] = {} /\ tee[i].lockh = Genesis /\ tee[i].lockv = 0
       \/ VotedBy(lockers[i], tee[i].lockh, tee[i].lockv)

IInv == TypeOK /\ Below /\ SignOnce /\ LockReached /\ \A i \in PID : Backed(i)

(* What has been voted for stays voted for.                                *)
LEMMA VotesStay ==
    ASSUME TypeOK, NEW i \in PID, Signs(i), NEW S \in SUBSET PID, NEW h, NEW v,
           VotedBy(S, h, v)
    PROVE  VotedBy(S, h, v)'
<1>1. PICK k \in S : \E r \in tee[k].signed :
          /\ r.proph = h /\ r.propv = v
          /\ r.phase \in {PREPARE, PRECOMMIT}
          /\ S \subseteq Voters(r)
      BY DEF VotedBy
<1>2. PICK r \in tee[k].signed :
          /\ r.proph = h /\ r.propv = v
          /\ r.phase \in {PREPARE, PRECOMMIT}
          /\ S \subseteq Voters(r)
      BY <1>1
<1>3. S \subseteq Voters(r)'
      BY <1>2, StepFrame DEF Voters
<1>4. r \in tee'[k].signed
      BY <1>2, StepFrame
<1>5. QED
      BY <1>2, <1>3, <1>4 DEF VotedBy

(* A lock backed by a certificate of qsize signers is on a certified block.*)
LEMMA BackedFact ==
    ASSUME TypeOK, \A i \in PID : Backed(i)
    PROVE  LockBacked
<1> SUFFICES ASSUME NEW i \in PID, Cardinality(lockers[i]) >= QSize
             PROVE  CertifiedBlock(tee[i].lockh, tee[i].lockv)
    BY DEF LockBacked, Backed
<1>1. lockers[i] # {}
      BY FS_EmptySet, QuorumSizes
<1>2. lockers[i] \in SUBSET PID
      BY DEF TypeOK
<1>3. QED
      BY <1>1, <1>2 DEF Backed, CertifiedBlock

(* The initial state satisfies the invariant.                              *)
LEMMA InitIInv == Init => IInv
<1> SUFFICES ASSUME Init PROVE IInv
    OBVIOUS
<1>1. \A i \in PID : tee[i] = TrustedFunInit /\ lockers[i] = {}
      BY DEF Init
<1>2. TrustedFunInit \in TrustedFunOver(Hash)
      BY HashAssumption DEF TrustedFunInit, TrustedFunOver, Phase, NEWVIEW
<1>3. TypeOK
      BY <1>2 DEF Init, TypeOK
<1>4. /\ TrustedFunInit.signed = {}
      /\ TrustedFunInit.lockh = Genesis /\ TrustedFunInit.lockv = 0
      /\ TrustedFunInit.preph = Genesis /\ TrustedFunInit.prepv = 0
      /\ TrustedFunInit.view = 0
      BY DEF TrustedFunInit
<1>5. Below /\ SignOnce /\ LockReached /\ \A i \in PID : Backed(i)
      BY <1>1, <1>4 DEF Below, SignOnce, LockReached, Backed
<1>6. QED
      BY <1>3, <1>5 DEF IInv

(* A successful call keeps the invariant.                                  *)
LEMMA SignsIInv ==
    ASSUME IInv, NEW i \in PID, Signs(i)
    PROVE  IInv'
<1> USE DEF IInv
<1>1. PICK r \in RDataOver(Hash) :
          /\ tee'[i].signed = tee[i].signed \cup {r}
          /\ StampOf(r) = Counter(tee[i])
      BY DEF Signs, SignsOne
<1>2. Counter(tee'[i]) = Counter(tee[i]) + 1
      BY DEF Signs, SignsOne
<1>3. Counter(tee[i]) \in Nat
      BY StepFrame
<1>4. \A k \in PID : \A q \in tee[k].signed : StampOf(q) \in Int
      BY StampType DEF TypeOK, TrustedFunOver, RDataOver, StampOf
<1>5. Below'
  <2>1. \A q \in tee'[i].signed : StampOf(q) < Counter(tee'[i])
        BY <1>1, <1>2, <1>3, <1>4 DEF Below
  <2>2. QED
        BY <2>1, StepFrame DEF Below
<1>6. SignOnce'
  <2>1. \A q \in tee[i].signed : StampOf(q) # StampOf(r)
        BY <1>1, <1>3, <1>4 DEF Below
  <2>2. \A q1, q2 \in tee'[i].signed : StampOf(q1) = StampOf(q2) => q1 = q2
        BY <1>1, <2>1 DEF SignOnce
  <2>3. QED
        BY <2>2, StepFrame DEF SignOnce
<1>7. LockReached'
  <2>1. /\ tee[i].lockv \in Nat /\ tee[i].view \in Nat
        /\ tee'[i].view \in Nat /\ tee'[i].view >= tee[i].view
        BY StepFrame DEF TypeOK, TrustedFunOver, Signs, SignsOne
  <2>2. tee'[i].lockv = tee[i].lockv \/ tee'[i].lockv = tee[i].view
        BY DEF Signs, LocksVoted, SameLock
  <2>3. tee'[i].lockv <= tee'[i].view
        BY <2>1, <2>2 DEF LockReached
  <2>4. QED
        BY <2>3, StepFrame DEF LockReached
<1>8. ASSUME NEW k \in PID PROVE Backed(k)'
  <2>1. lockers[k] \in SUBSET PID
        BY DEF TypeOK
  <2>2. CASE SameLock(tee[k], tee'[k]) /\ lockers'[k] = lockers[k]
    <3>1. CASE lockers[k] = {} /\ tee[k].lockh = Genesis /\ tee[k].lockv = 0
          BY <2>2, <3>1 DEF SameLock, Backed
    <3>2. CASE VotedBy(lockers[k], tee[k].lockh, tee[k].lockv)
      <4>1. VotedBy(lockers[k], tee[k].lockh, tee[k].lockv)'
        <5>1. VotedBy(lockers[k]', tee[k].lockh', tee[k].lockv')
              BY <2>2, <3>2 DEF SameLock
        <5>2. QED
              BY <2>1, <2>2, <5>1, VotesStay DEF SameLock
      <4>2. QED
            BY <2>2, <4>1 DEF SameLock, Backed
    <3>3. QED
          BY <3>1, <3>2 DEF Backed
  <2>3. CASE ~(SameLock(tee[k], tee'[k]) /\ lockers'[k] = lockers[k])
    <3>1. k # i => tee'[k] = tee[k] /\ lockers'[k] = lockers[k]
          BY StepFrame DEF Signs, LocksVoted, TypeOK
    <3>2. k = i
          BY <2>3, <3>1 DEF SameLock
    <3>3. /\ tee'[i].preph = tee'[i].lockh /\ tee'[i].prepv = tee'[i].lockv
          /\ lockers'[i] \in SUBSET PID
          /\ VotedBy(lockers'[i], tee'[i].lockh, tee'[i].lockv)
          BY <2>3, <3>2 DEF Signs, LocksVoted
    <3>4. VotedBy(lockers[i], tee[i].lockh, tee[i].lockv)'
          BY <3>3, VotesStay
    <3>5. QED
          BY <3>2, <3>3, <3>4 DEF Backed
  <2>4. QED
        BY <2>2, <2>3
<1>9. QED
      BY <1>5, <1>6, <1>7, <1>8, StepFrame

(* Every step keeps the invariant.                                         *)
LEMMA NextIInv == IInv /\ [Next]_vars => IInv'
<1> SUFFICES ASSUME IInv, [Next]_vars PROVE IInv'
    OBVIOUS
<1>1. CASE \E i \in PID : Signs(i)
      BY <1>1, SignsIInv
<1>2. CASE UNCHANGED vars
      BY <1>2 DEF vars, IInv, TypeOK, Below, SignOnce, LockReached, Backed,
                  VotedBy, Voters
<1>3. QED
      BY <1>1, <1>2, StepEffect DEF IInv

-----------------------------------------------------------------------------
(* Theorems.                                                               *)

(* The invariant holds in every reachable state.                           *)
LEMMA Invariance == Spec => []IInv
BY InitIInv, NextIInv, PTL DEF Spec

(* The state of every trusted component is always well formed, whatever    *)
(* the hosts call and in whatever order.                                   *)
THEOREM TypeCorrect == Spec => []TypeOK
<1>1. IInv => TypeOK
      BY DEF IInv
<1>2. QED
      BY <1>1, Invariance, PTL

(* No component ever signs two statements for the same view and phase.     *)
THEOREM SigningOnce == Spec => []SignOnce
<1>1. IInv => SignOnce
      BY DEF IInv
<1>2. QED
      BY <1>1, Invariance, PTL

(* For each view and phase at most one statement can ever be certified.    *)
THEOREM CertificatesUnique == Spec => []UniqueCertificate
<1>1. IInv => UniqueCertificate
  <2> SUFFICES ASSUME IInv, NEW i1 \in PID, NEW i2 \in PID,
                      NEW r1 \in tee[i1].signed, NEW r2 \in tee[i2].signed,
                      StampOf(r1) = StampOf(r2), Certified(r1), Certified(r2)
               PROVE  r1 = r2
      BY DEF UniqueCertificate
  <2>1. PICK i \in PID : i \in Voters(r1) /\ i \in Voters(r2)
    <3>1. Voters(r1) \in SUBSET PID /\ Voters(r2) \in SUBSET PID
          BY DEF Voters
    <3>2. QED
          BY <3>1, QuorumsIntersect DEF Certified
  <2>2. r1 \in tee[i].signed /\ r2 \in tee[i].signed
        BY <2>1 DEF Voters
  <2>3. QED
        BY <2>2 DEF IInv, SignOnce
<1>2. QED
      BY <1>1, Invariance, PTL

(* Every lock but the first is on a block that all signers of a stored     *)
(* certificate have voted for in the view of the lock, a quorum if the     *)
(* certificate names as many; hosts may repeat signatures, which TEEstore  *)
(* does not notice.                                                        *)
THEOREM LocksBacked == Spec => []LockBacked
<1>1. IInv => LockBacked
      BY BackedFact DEF IInv
<1>2. QED
      BY <1>1, Invariance, PTL

(* Counters, signed statements and the views of locks never go back.       *)
THEOREM ComponentsNeverGoBack == Spec => NeverBack
<1> DEFINE Forward ==
        \A i \in PID :
           /\ counter'[i] >= counter[i]
           /\ tee[i].signed \subseteq tee'[i].signed
           /\ tee'[i].lockv >= tee[i].lockv
<1>1. ASSUME IInv, [Next]_vars PROVE Forward
  <2>1. \A k \in PID : counter[k] = Counter(tee[k]) /\ tee[k].lockv \in Nat
        BY <1>1 DEF counter, Counter, IInv, TypeOK, TrustedFunOver
  <2>2. TypeOK' /\ \A k \in PID : counter'[k] = Counter(tee'[k])
        BY <1>1, NextIInv DEF counter, Counter, IInv
  <2>3. \A k \in PID : Counter(tee[k]) \in Nat
        BY <1>1, StampType DEF Counter, IInv, TypeOK, TrustedFunOver
  <2>4. CASE UNCHANGED vars
        BY <2>1, <2>2, <2>3, <2>4 DEF vars
  <2>5. ASSUME NEW i \in PID, Signs(i) PROVE Forward
    <3>1. /\ \A k \in PID : k # i => tee'[k] = tee[k]
          /\ \A k \in PID : tee[k].signed \subseteq tee'[k].signed
          BY <1>1, <2>5, StepFrame DEF IInv
    <3>2. Counter(tee'[i]) = Counter(tee[i]) + 1
          BY <2>5 DEF Signs, SignsOne
    <3>3. tee'[i].lockv >= tee[i].lockv
      <4>1. tee'[i].lockv = tee[i].lockv \/ tee'[i].lockv = tee[i].view
            BY <2>5 DEF Signs, LocksVoted, SameLock
      <4>2. tee[i].lockv <= tee[i].view
            BY <1>1 DEF IInv, LockReached
      <4>3. tee[i].lockv \in Nat /\ tee[i].view \in Nat
            BY <1>1 DEF IInv, TypeOK, TrustedFunOver
      <4>4. QED
            BY <4>1, <4>2, <4>3
    <3>4. QED
          BY <2>1, <2>2, <2>3, <3>1, <3>2, <3>3
  <2>6. QED
        BY <1>1, <2>4, <2>5, StepEffect DEF IInv
<1>2. QED
      BY <1>1, Invariance, PTL DEF Spec, NeverBack

(* The components implement monotonic signers: the abstract counter and    *)
(* the abstract sets of statements are those of the components, and a      *)
(* successful call is a batch of one statement.                            *)
THEOREM Refinement == Spec => RefinesSigner
<1>1. Init => Signer!Init
  <2> SUFFICES ASSUME Init PROVE Signer!Init
      OBVIOUS
  <2>1. \A i \in PID : tee[i] = TrustedFunInit
        BY DEF Init
  <2>2. Stamp(TrustedFunInit.view, TrustedFunInit.phase) = 0
        BY DEF TrustedFunInit, Stamp, NEWVIEW
  <2>3. TrustedFunInit.signed = {}
        BY DEF TrustedFunInit
  <2>4. QED
        BY <2>1, <2>2, <2>3 DEF Signer!Init, counter, signed
<1>2. ASSUME IInv, [Next]_vars PROVE [Signer!Next]_(Signer!vars)
  <2>1. CASE UNCHANGED vars
        BY <2>1 DEF vars, Signer!vars, counter, signed
  <2>2. ASSUME NEW i \in PID, Signs(i) PROVE Signer!SignBatch(i)
    <3>1. PICK r \in RDataOver(Hash) :
              /\ tee'[i].signed = tee[i].signed \cup {r}
              /\ StampOf(r) = Counter(tee[i])
          BY <2>2 DEF Signs, SignsOne
    <3>2. /\ \A k \in PID : k # i => tee'[k] = tee[k]
          /\ \A k \in PID : Counter(tee[k]) \in Nat
          BY <1>2, <2>2, StepFrame DEF IInv
    <3>3. counter'[i] = counter[i] + 1 /\ counter[i] \in Nat
          BY <2>2, <3>2 DEF Signs, SignsOne, counter, Counter
    <3>4. r \notin tee[i].signed
          BY <1>2, <3>1, <3>2 DEF IInv, Below
    <3>5. signed'[i] \ signed[i] = {r} /\ StampOf(r) = counter[i]
          BY <3>1, <3>4 DEF signed, counter, Counter
    <3>6. counter' = [counter EXCEPT ![i] = counter'[i]]
          BY <3>2 DEF counter
    <3>7. signed' = [signed EXCEPT ![i] = @ \cup {r}]
          BY <3>1, <3>2 DEF signed
    <3>8. /\ counter'[i] \in Nat /\ counter'[i] > counter[i]
          /\ counter[i] .. counter'[i] - 1 = {counter[i]}
          BY <3>3
    <3>9. QED
          BY ONLY <3>5, <3>6, <3>7, <3>8 DEF Signer!SignBatch
  <2>3. QED
        BY <1>2, <2>1, <2>2, StepEffect DEF IInv, Signer!Next
<1>3. QED
      BY <1>1, <1>2, Invariance, PTL DEF Spec, RefinesSigner, Signer!Spec
=============================================================================
