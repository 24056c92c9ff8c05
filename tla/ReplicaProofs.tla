---------------------------- MODULE ReplicaProofs ----------------------------
(***************************************************************************)
(* Lemmas about what the replicas of the three protocols share: the        *)
(* message log (the order of its sets, the messages that are looked up in  *)
(* it, and what storing a message does), the client's transactions, and    *)
(* the connections.                                                        *)
(***************************************************************************)
EXTENDS Replica, ProtocolProofs

-----------------------------------------------------------------------------
(* The order of the messages.                                              *)

(* Min is the least element of a set of numbers.                           *)
LEMMA MinFact ==
    ASSUME NEW S \in SUBSET Nat, S # {}
    PROVE  Min(S) \in S /\ \A x \in S : Min(S) <= x
BY LeastNatural DEF Min

(* What the order compares: two different sets of signers differ first at  *)
(* a signer that is in one of them.                                        *)
Lower(s, t) == s # t /\ Min(SymDiff(s, t)) \in s

(* A set of signers is lower than another when the least signer in which   *)
(* the two differ is its own.                                              *)
LEMMA LowerFact ==
    ASSUME NEW s \in SUBSET PID, NEW t \in SUBSET PID
    PROVE  /\ Lower(s, t) => \E a \in s \ t : \A x \in PID : x < a => (x \in s <=> x \in t)
           /\ (\E a \in s \ t : \A x \in PID : x < a => (x \in s <=> x \in t)) => Lower(s, t)
<1>1. PID \in SUBSET Nat
      BY QuorumSizes DEF PID
<1>2. SymDiff(s, t) \in SUBSET Nat /\ (s # t => SymDiff(s, t) # {})
      BY <1>1 DEF SymDiff
<1>3. ASSUME Lower(s, t)
      PROVE  \E a \in s \ t : \A x \in PID : x < a => (x \in s <=> x \in t)
  <2> DEFINE a == Min(SymDiff(s, t))
  <2>1. a \in SymDiff(s, t) /\ \A x \in SymDiff(s, t) : a <= x
        BY <1>2, <1>3, MinFact DEF Lower
  <2>2. a \in s
        BY <1>3 DEF Lower
  <2> HIDE DEF a
  <2>3. a \in s \ t /\ \A x \in PID : x < a => x \notin SymDiff(s, t)
        BY <1>1, <2>1, <2>2 DEF SymDiff
  <2>4. QED
        BY <2>3 DEF SymDiff
<1>4. ASSUME NEW a \in s \ t, \A x \in PID : x < a => (x \in s <=> x \in t)
      PROVE  Lower(s, t)
  <2>1. s # t /\ a \in SymDiff(s, t)
        BY DEF SymDiff
  <2> DEFINE b == Min(SymDiff(s, t))
  <2>2. b \in SymDiff(s, t) /\ \A x \in SymDiff(s, t) : b <= x
        BY <1>2, <2>1, MinFact
  <2> HIDE DEF b
  <2>3. b <= a /\ ~(b < a) /\ a \in Nat /\ b \in Nat
        BY <1>1, <1>2, <1>4, <2>1, <2>2 DEF SymDiff
  <2>4. a = b
        BY <2>3
  <2>5. QED
        BY <2>1, <2>4 DEF Lower, b
<1>5. QED
      BY <1>3, <1>4

(* The order of sets of signers is transitive.                             *)
LEMMA LowerTransitive ==
    ASSUME NEW s \in SUBSET PID, NEW t \in SUBSET PID, NEW u \in SUBSET PID,
           Lower(s, t), Lower(t, u)
    PROVE  Lower(s, u)
<1>1. PICK a \in s \ t : \A x \in PID : x < a => (x \in s <=> x \in t)
      BY LowerFact
<1>2. PICK b \in t \ u : \A x \in PID : x < b => (x \in t <=> x \in u)
      BY LowerFact
<1>3. a \in Nat /\ b \in Nat /\ a \in PID /\ b \in PID /\ PID \in SUBSET Nat
      BY QuorumSizes DEF PID
<1>4. CASE a < b
  <2>1. a \in s \ u
        BY <1>2, <1>3, <1>4
  <2>2. \A x \in PID : x < a => (x \in s <=> x \in u)
        BY <1>1, <1>2, <1>3, <1>4
  <2>3. QED
        BY <2>1, <2>2, LowerFact
<1>5. CASE b < a
  <2>1. b \in s \ u
        BY <1>1, <1>2, <1>3, <1>5
  <2>2. \A x \in PID : x < b => (x \in s <=> x \in u)
        BY <1>1, <1>2, <1>3, <1>5
  <2>3. QED
        BY <2>1, <2>2, LowerFact
<1>6. a # b
      BY <1>1, <1>2
<1>7. QED
      BY <1>3, <1>4, <1>5, <1>6

(* A message with finitely many signatures, all by replicas.               *)
Signed(m) == IsFiniteSet(m.signs) /\ getSigners(m.signs) \subseteq PID

(* Message::operator< is a strict order.                                   *)
LEMMA BeforeOrder ==
    ASSUME NEW here, \A m \in here : Signed(m)
    PROVE  /\ \A m \in here : ~Before(m, m)
           /\ \A k, m, n \in here : Before(k, m) /\ Before(m, n) => Before(k, n)
<1> DEFINE size(m) == Cardinality(m.signs)
           who(m)  == getSigners(m.signs)
<1>1. \A k, m : Before(k, m) <=> \/ size(k) < size(m)
                                 \/ size(k) = size(m) /\ Lower(who(k), who(m))
      BY DEF Before, Lower
<1>2. \A m \in here : size(m) \in Nat /\ who(m) \in SUBSET PID
      BY FS_CardinalityType DEF Signed
<1>3. \A s : ~Lower(s, s)
      BY DEF Lower
<1> HIDE DEF size, who
<1>4. ASSUME NEW k \in here, NEW m \in here, NEW n \in here,
             Before(k, m), Before(m, n)
      PROVE  Before(k, n)
  <2>1. CASE Lower(who(k), who(m)) /\ Lower(who(m), who(n))
    <3>1. Lower(who(k), who(n))
          BY <1>2, <2>1, LowerTransitive
    <3>2. size(k) <= size(m) /\ size(m) <= size(n)
          BY <1>1, <1>2, <1>4
    <3>3. QED
          BY <1>1, <1>2, <3>1, <3>2
  <2>2. CASE size(k) < size(m) \/ size(m) < size(n)
    <3>1. size(k) <= size(m) /\ size(m) <= size(n)
          BY <1>1, <1>2, <1>4
    <3>2. QED
          BY <1>1, <1>2, <2>2, <3>1
  <2>3. QED
        BY <1>1, <1>4, <2>1, <2>2
<1>5. QED
      BY <1>1, <1>2, <1>3, <1>4

(* The sets of the log have a first and a last message.                    *)
LEMMA FirstAndLast ==
    ASSUME NEW here, IsFiniteSet(here), here # {}, \A m \in here : Signed(m)
    PROVE  /\ \E m \in here : \A k \in here : ~Before(k, m)
           /\ \E m \in here : \A k \in here : ~Before(m, k)
<1> DEFINE R == {p \in here \X here : Before(p[1], p[2])}
           Q == {p \in here \X here : Before(p[2], p[1])}
<1>1. \A k, m \in here : (<<k, m>> \in R <=> Before(k, m))
                             /\ (<<k, m>> \in Q <=> Before(m, k))
      OBVIOUS
<1> HIDE DEF R, Q
<1>2. /\ \A x \in here : <<x, x>> \notin R
      /\ \A x, y, z \in here : <<x, y>> \in R /\ <<y, z>> \in R => <<x, z>> \in R
      BY <1>1, BeforeOrder
<1>3. /\ \A x \in here : <<x, x>> \notin Q
      /\ \A x, y, z \in here : <<x, y>> \in Q /\ <<y, z>> \in Q => <<x, z>> \in Q
      BY <1>1, BeforeOrder
<1>4. \E m \in here : \A x \in here : <<x, m>> \notin R
      BY <1>2, MinimalElement
<1>5. \E m \in here : \A x \in here : <<x, m>> \notin Q
      BY <1>3, MinimalElement
<1>6. QED
      BY <1>1, <1>4, <1>5

-----------------------------------------------------------------------------
(* Looking up messages.                                                    *)

(* firstPrepare, firstPrecommit, firstCommit and firstProposal return a    *)
(* message of the view if there is one.                                    *)
LEMMA FirstMsgFact ==
    ASSUME NEW here, IsFiniteSet(here), here # {}, \A m \in here : Signed(m)
    PROVE  FirstMsg(here) \in here
BY FirstAndLast DEF FirstMsg

(* The messages of a view are finitely many.                               *)
LEMMA InViewFinite ==
    ASSUME NEW msgs, IsFiniteSet(msgs), NEW v
    PROVE  /\ InView(msgs, v) \subseteq msgs
           /\ IsFiniteSet(InView(msgs, v))
           /\ Cardinality(InView(msgs, v)) \in Nat
<1>1. InView(msgs, v) \in SUBSET msgs
      BY DEF InView
<1>2. QED
      BY <1>1, FS_Subset, FS_CardinalityType

(* The first message of a view is one of them (Log::first...).             *)
LEMMA FirstFact ==
    ASSUME NEW msgs, IsFiniteSet(msgs), \A m \in msgs : Signed(m), NEW v,
           InView(msgs, v) # {}
    PROVE  \E m \in InView(msgs, v) : first(msgs, v) = Just(m.rdata, m.signs)
<1>1. FirstMsg(InView(msgs, v)) \in InView(msgs, v)
      BY InViewFinite, FirstMsgFact
<1>2. QED
      BY <1>1 DEF first

(* findHighestNv returns a new-view message of the view.                   *)
LEMMA HighestFact ==
    ASSUME NEW msgs, IsFiniteSet(msgs), NEW v, InView(msgs, v) # {},
           \A m \in msgs : Signed(m) /\ m.rdata.justv \in Nat
    PROVE  \E m \in InView(msgs, v) :
               /\ findHighestNv(msgs, v) = Just(m.rdata, m.signs)
               /\ \A k \in InView(msgs, v) : k.rdata.justv <= m.rdata.justv
<1> DEFINE here    == InView(msgs, v)
           highest == {m \in here : \A k \in here : k.rdata.justv <= m.rdata.justv}
           R == {p \in here \X here : p[2].rdata.justv < p[1].rdata.justv}
           best == CHOOSE m \in highest : \A k \in highest : ~Before(m, k)
<1>1. /\ IsFiniteSet(here) /\ here # {}
      /\ \A m \in here : Signed(m) /\ m.rdata.justv \in Nat
      BY InViewFinite
<1>2. findHighestNv(msgs, v) = Just(best.rdata, best.signs)
      BY DEF findHighestNv
<1> HIDE DEF here
<1>3. \A x, y \in here : <<x, y>> \in R <=> y.rdata.justv < x.rdata.justv
      OBVIOUS
<1> HIDE DEF R
<1>4. /\ \A x \in here : <<x, x>> \notin R
      /\ \A x, y, z \in here : <<x, y>> \in R /\ <<y, z>> \in R => <<x, z>> \in R
      BY <1>1, <1>3
<1>5. PICK m \in here : \A x \in here : <<x, m>> \notin R
      BY <1>1, <1>4, MinimalElement
<1>6. m \in highest
  <2>1. \A k \in here : ~(m.rdata.justv < k.rdata.justv)
        BY <1>3, <1>5
  <2>2. \A k \in here : k.rdata.justv \in Nat
        BY <1>1
  <2>3. \A k \in here : k.rdata.justv <= m.rdata.justv
        BY <2>1, <2>2
  <2>4. QED
        BY <2>3
<1>7. highest \subseteq here /\ IsFiniteSet(highest)
  <2>1. highest \in SUBSET here
        OBVIOUS
  <2> HIDE DEF highest
  <2>2. QED
        BY <2>1, <1>1, FS_Subset
<1>8. best \in highest
  <2> HIDE DEF highest
  <2>1. \E b \in highest : \A k \in highest : ~Before(b, k)
        BY <1>1, <1>6, <1>7, FirstAndLast
  <2>2. QED
        BY <2>1
<1> HIDE DEF best
<1>9. best \in here /\ \A k \in here : k.rdata.justv <= best.rdata.justv
      BY <1>8
<1>10. QED
      BY <1>2, <1>9 DEF here

(* getNewView, getPrepare, ... return signatures of messages of the view.  *)
LEMMA GetFact ==
    ASSUME NEW msgs, NEW v, NEW n
    PROVE  \A g \in get(msgs, v, n) : \E m \in InView(msgs, v) : g \in m.signs
<1> DEFINE votes == UNION {{m} \X m.signs : m \in InView(msgs, v)}
           Earlier(p, q) == \/ Before(p[1], q[1])
                            \/ p[1] = q[1] /\ p[2].signer < q[2].signer
           chosen == {p \in votes :
                         Cardinality({q \in votes : Earlier(q, p)}) < n}
<1>1. get(msgs, v, n) = {p[2] : p \in chosen}
      BY DEF get
<1>2. chosen \subseteq votes
      OBVIOUS
<1>3. \A p \in votes : p[1] \in InView(msgs, v) /\ p[2] \in p[1].signs
      OBVIOUS
<1> HIDE DEF chosen, votes
<1>4. QED
      BY <1>1, <1>2, <1>3

(* The signatures collected by Log::get... are finitely many.              *)
LEMMA GetFinite ==
    ASSUME NEW msgs, IsFiniteSet(msgs), \A m \in msgs : IsFiniteSet(m.signs),
           NEW v, NEW n
    PROVE  IsFiniteSet(get(msgs, v, n))
<1> DEFINE f == [m \in msgs |-> m.signs]
           T == {f[m] : m \in msgs}
<1>1. f \in Surjection(msgs, T)
      BY DEF Surjection
<1>2. \A x \in T : IsFiniteSet(x)
      OBVIOUS
<1>3. \A m \in msgs : m.signs \in T
      OBVIOUS
<1>4. \A g \in get(msgs, v, n) : g \in UNION T
      BY <1>3, GetFact, InViewFinite
<1> HIDE DEF T
<1>5. IsFiniteSet(T)
      BY <1>1, FS_Surjection
<1>6. IsFiniteSet(UNION T)
      BY <1>2, <1>5, FS_UNION
<1>7. get(msgs, v, n) \in SUBSET UNION T
      BY <1>4
<1>8. QED
      BY <1>6, <1>7, FS_Subset

(* As many signatures as a quorum of messages with one signature each need *)
(* as many messages.                                                       *)
LEMMA GetSingles ==
    ASSUME NEW msgs, IsFiniteSet(msgs), NEW v, NEW n,
           \A m \in msgs : \E g : m.signs = {g},
           Cardinality(get(msgs, v, n)) = QSize
    PROVE  Cardinality(InView(msgs, v)) >= QSize
<1> DEFINE here  == InView(msgs, v)
           signs == get(msgs, v, n)
           who   == {m \in here : \E g \in signs : g \in m.signs}
           f     == [m \in who |-> CHOOSE g : g \in m.signs]
<1>1. \A m \in here : \E g : m.signs = {g}
      BY InViewFinite
<1>2. IsFiniteSet(here) /\ Cardinality(here) \in Nat
      BY InViewFinite
<1>3. \A g \in signs : \E m \in here : g \in m.signs
      BY GetFact
<1> HIDE DEF here, signs
<1>4. \A m \in who : f[m] \in signs /\ m.signs = {f[m]}
      BY <1>1
<1>5. \A g \in signs : \E m \in who : f[m] = g
      BY <1>3, <1>4
<1>6. f \in Surjection(who, signs)
      BY <1>4, <1>5 DEF Surjection
<1>7. who \in SUBSET here
      OBVIOUS
<1> HIDE DEF who, f
<1>8. IsFiniteSet(who) /\ Cardinality(who) <= Cardinality(here)
          /\ Cardinality(who) \in Nat
      BY <1>2, <1>7, FS_Subset, FS_CardinalityType
<1>9. Cardinality(signs) <= Cardinality(who)
      BY <1>6, <1>8, FS_Surjection
<1>10. QED
      BY <1>2, <1>8, <1>9, QuorumSizes DEF here, signs

-----------------------------------------------------------------------------
(* Storing messages.                                                       *)

(* A message is added or not, and the number returned is 0 or that of the  *)
(* messages of its view.                                                   *)
LEMMA StoreFact ==
    ASSUME NEW msgs, IsFiniteSet(msgs), NEW m
    PROVE  LET r == store(msgs, m)
           IN  /\ IsFiniteSet(r.msgs)
               /\ r.msgs = msgs \/ r.msgs = msgs \cup {m}
               /\ r.size \in Nat
               /\ r.size # 0 => r.size = Cardinality(InView(r.msgs, ViewOf(m)))
               /\ \A v : Cardinality(InView(msgs, v))
                             <= Cardinality(InView(r.msgs, v))
<1> DEFINE r == store(msgs, m)
<1>1. r.msgs = msgs \/ r.msgs = msgs \cup {m}
      BY DEF store
<1>2. r.size = 0 \/ r.size = Cardinality(InView(r.msgs, ViewOf(m)))
      BY DEF store
<1> HIDE DEF r
<1>3. IsFiniteSet(r.msgs)
      BY <1>1, FS_AddElement
<1>4. ASSUME NEW v
      PROVE  Cardinality(InView(msgs, v)) <= Cardinality(InView(r.msgs, v))
  <2>1. InView(msgs, v) \in SUBSET InView(r.msgs, v)
        BY <1>1 DEF InView
  <2>2. QED
        BY <2>1, <1>3, InViewFinite, FS_Subset
<1>5. \A v : Cardinality(InView(r.msgs, v)) \in Nat
      BY <1>3, InViewFinite
<1>6. QED
      BY <1>1, <1>2, <1>3, <1>4, <1>5 DEF r

(* A message with a single signature is added, and counted, only if its    *)
(* signer has not been heard from in its view.                             *)
LEMMA StoreSingle ==
    ASSUME NEW msgs, IsFiniteSet(msgs), NEW m, NEW i, NEW rdata,
           m.signs = {Signature(i, rdata)},
           \/ store(msgs, m).msgs # msgs
           \/ store(msgs, m).size # 0
    PROVE  /\ \A k \in InView(msgs, ViewOf(m)) : i \notin getSigners(k.signs)
           /\ store(msgs, m).msgs = msgs \cup {m}
           /\ store(msgs, m).size = Cardinality(InView(msgs, ViewOf(m))) + 1
<1> DEFINE here == InView(msgs, ViewOf(m))
<1>1. getSigners(m.signs) = {i}
      BY DEF getSigners, Signature
<1>2. ~From(here, {i})
      BY <1>1 DEF store
<1>3. ASSUME NEW k \in here, i \in getSigners(k.signs) PROVE FALSE
  <2>1. k.signs # {}
        BY <1>3 DEF getSigners
  <2>2. {i} \subseteq UNION {getSigners(x.signs) : x \in here}
        BY <1>3
  <2>3. QED
        BY <1>2, <2>1, <2>2 DEF From
<1>4. ~ \E k \in here : getSigners(k.signs) = getSigners(m.signs)
      BY <1>1, <1>3
<1>5. /\ store(msgs, m).msgs = msgs \cup {m}
      /\ store(msgs, m).size = Cardinality(InView(msgs \cup {m}, ViewOf(m)))
      BY <1>1, <1>2, <1>4 DEF store
<1>6. InView(msgs \cup {m}, ViewOf(m)) = here \cup {m} /\ m \notin here
      BY <1>4 DEF InView
<1>7. Cardinality(here \cup {m}) = Cardinality(here) + 1
      BY <1>6, InViewFinite, FS_AddElement
<1>8. QED
      BY <1>3, <1>5, <1>6, <1>7

(* Refusals, which no one signs, never make a quorum.                      *)
LEMMA StoreUnsigned ==
    ASSUME NEW msgs, IsFiniteSet(msgs), NEW m, m.signs = {},
           \A k \in InView(msgs, ViewOf(m)) : k.signs = {} => k = m
    PROVE  store(msgs, m).size < QSize
<1> DEFINE here == InView(msgs, ViewOf(m))
<1>1. getSigners(m.signs) = {}
      BY DEF getSigners
<1>2. CASE \E k \in here : k.signs # {}
  <2>1. From(here, {})
        BY <1>2 DEF From
  <2>2. store(msgs, m).size = 0
        BY <1>1, <2>1 DEF store
  <2>3. QED
        BY <2>2, QuorumSizes
<1>3. CASE \A k \in here : k.signs = {}
  <2> DEFINE r == store(msgs, m)
             new == InView(r.msgs, ViewOf(m))
  <2>1. here \subseteq {m}
        BY <1>3
  <2>2. r.msgs = msgs \/ r.msgs = msgs \cup {m}
        BY StoreFact
  <2>3. new \in SUBSET {m}
        BY <2>1, <2>2 DEF InView
  <2>4. r.size \in Nat /\ (r.size # 0 => r.size = Cardinality(new))
        BY StoreFact
  <2> HIDE DEF r, new
  <2>5. IsFiniteSet({m}) /\ Cardinality({m}) = 1
        BY FS_Singleton
  <2>6. Cardinality(new) <= 1
        BY <2>3, <2>5, FS_Subset
  <2>7. r.size <= 1
        BY <2>4, <2>6
  <2>8. QED
        BY <2>4, <2>7, QuorumSizes DEF r
<1>4. QED
      BY <1>2, <1>3

-----------------------------------------------------------------------------
(* Transactions and connections.                                           *)

(* The transactions of the new block leave the queue.                      *)
LEMMA BlockSizeFact ==
    ASSUME NEW s, s.transactions \in Seq(Nat)
    PROVE  BlockSize(s) \in Nat /\ BlockSize(s) <= Len(s.transactions)
<1> DEFINE q == s.transactions
<1>1. {Len(q), MaxTransactions} \in SUBSET Nat
      BY ReplicaAssumption
<1>2. BlockSize(s) \in {Len(q), MaxTransactions} /\ BlockSize(s) <= Len(q)
      BY <1>1, MinFact DEF BlockSize
<1>3. QED
      BY <1>1, <1>2

(* A block takes transactions from the queue (createNewBlock).             *)
LEMMA NextTransFact ==
    ASSUME NEW s, s.transactions \in Seq(Nat)
    PROVE  NextTrans(s) \in Seq(Nat)
BY BlockSizeFact DEF NextTrans

(* The client deals every replica a sequence of transactions.              *)
LEMMA ClientDeals ==
    ASSUME NEW n \in PID, NEW offset \in Nat
    PROVE  fromClientTo(n, offset) \in Seq(Nat)
<1> DEFINE least == 1 + ((n - offset) % Total)
           last  == (NumInstances + Total - least) \div Total
<1>1. /\ Total \in Nat \ {0} /\ NumInstances \in Nat /\ n \in Int
      BY QuorumSizes, ReplicaAssumption DEF PID
<1>2. least \in 1 .. Total
      BY <1>1
<1>3. last \in Nat
      BY <1>1, <1>2
<1>4. \A k \in 1 .. last : least + (k - 1) * Total \in Nat
      BY <1>1, <1>2
<1>5. fromClientTo(n, offset) = [k \in 1 .. last |-> least + (k - 1) * Total]
      BY DEF fromClientTo
<1> HIDE DEF least, last
<1>6. QED
      BY <1>3, <1>4, <1>5

(* The client deals every replica a sequence of its transactions.          *)
LEMMA ClientDealsTransactions ==
    ASSUME NEW n \in PID
    PROVE  fromClientTo(n, 0) \in Seq(1 .. NumInstances)
<1> DEFINE least == 1 + ((n - 0) % Total)
           last  == (NumInstances + Total - least) \div Total
<1>1. /\ Total \in Nat \ {0} /\ NumInstances \in Nat /\ n \in Int
      BY QuorumSizes, ReplicaAssumption DEF PID
<1>2. least \in 1 .. Total
      BY <1>1
<1>3. fromClientTo(n, 0) = [k \in 1 .. last |-> least + (k - 1) * Total]
      BY DEF fromClientTo
<1> HIDE DEF least
<1>4. last \in Nat
      BY <1>1, <1>2
<1>5. last * Total <= NumInstances + Total - least
      BY <1>1, <1>2
<1> HIDE DEF last
<1>6. ASSUME NEW k \in 1 .. last PROVE least + (k - 1) * Total \in 1 .. NumInstances
  <2>1. (last - k) * Total \in Nat
        BY <1>1, <1>4
  <2>2. k * Total <= last * Total
        BY <1>1, <1>4, <2>1
  <2>3. (k - 1) * Total \in Nat /\ (k - 1) * Total = (k * Total) - Total
        BY <1>1, <1>4
  <2>4. QED
        BY <1>1, <1>2, <1>4, <1>5, <2>2, <2>3
<1>7. \A X, f, l : l \in Nat /\ f = [k \in 1 .. l |-> f[k]]
                     /\ (\A k \in 1 .. l : f[k] \in X) => f \in Seq(X)
      OBVIOUS
<1>8. QED
      BY <1>3, <1>4, <1>6, <1>7

(* The next message on a connection that is not empty.                     *)
LEMMA UpcomingPosition ==
    ASSUME NEW p, NEW n, NEW Msgs, node[p].out[n] \in Seq(Msgs),
           node[p].out[n] # <<>>
    PROVE  Upcoming(p, n) \in DOMAIN node[p].out[n]
<1> DEFINE q == node[p].out[n]
           S == {Len(q)} \cup {i \in DOMAIN q : ~Outdated(n, q[i])}
<1>1. Upcoming(p, n) = Min(S)
      BY DEF Upcoming
<1> HIDE DEF q
<1>2. q \in Seq(Msgs) /\ q # <<>>
      BY DEF q
<1>3. Len(q) \in 1 .. Len(q) /\ DOMAIN q = 1 .. Len(q)
      BY <1>2
<1>4. S \in SUBSET Nat /\ S # {} /\ S \subseteq 1 .. Len(q)
      BY <1>3
<1> HIDE DEF S
<1>5. QED
      BY <1>1, <1>3, <1>4, MinFact DEF q

(* One sequence is a prefix of another when they agree up to its length.   *)
LEMMA PrefixFact ==
    ASSUME NEW X, NEW s \in Seq(X), NEW t \in Seq(X)
    PROVE  IsPrefix(s, t) <=> /\ Len(s) <= Len(t)
                              /\ \A i \in 1 .. Len(s) : s[i] = t[i]
<1>1. ASSUME Len(s) <= Len(t)
      PROVE  SubSeq(s, 1, Len(s)) = SubSeq(t, 1, Len(s))
                 <=> \A i \in 1 .. Len(s) : s[i] = t[i]
  <2> DEFINE a == SubSeq(s, 1, Len(s))
             b == SubSeq(t, 1, Len(s))
  <2>1. /\ a \in Seq(X) /\ b \in Seq(X)
        /\ Len(a) = Len(s) /\ Len(b) = Len(s)
        /\ \A i \in 1 .. Len(s) : a[i] = s[i] /\ b[i] = t[i]
        BY <1>1
  <2> HIDE DEF a, b
  <2>2. a = b <=> \A i \in 1 .. Len(s) : a[i] = b[i]
        BY <2>1
  <2>3. QED
        BY <2>1, <2>2 DEF a, b
<1>2. QED
      BY <1>1 DEF IsPrefix

-----------------------------------------------------------------------------
(* Sequences in which nothing occurs twice.                                *)

(* What the client sends to replica n.                                     *)
Dealt(n, offset) == Range(fromClientTo(n, offset))

(* Two sequences have nothing in common.                                   *)
Apart(s, t) == Range(s) \cap Range(t) = {}

(* Elements by their positions.                                            *)
LEMMA RangeFact ==
    /\ \A s, x : x \in Range(s) <=> \E i \in DOMAIN s : s[i] = x
    /\ \A s, t : Apart(s, t) <=>
           \A i \in DOMAIN s, j \in DOMAIN t : s[i] # t[j]
BY DEF Range, Apart

(* Appending replies of a block (replyTransactions).                       *)
LEMMA ConcatOnce ==
    ASSUME NEW X, NEW s \in Seq(X), NEW t \in Seq(X),
           IsInjective(s), IsInjective(t), Apart(s, t)
    PROVE  /\ s \o t \in Seq(X) /\ IsInjective(s \o t)
           /\ Range(s \o t) = Range(s) \cup Range(t)
<1> DEFINE c == s \o t
<1>1. /\ c \in Seq(X) /\ Len(c) = Len(s) + Len(t)
      /\ \A i \in 1 .. Len(s) : c[i] = s[i]
      /\ \A i \in Len(s) + 1 .. Len(c) : c[i] = t[i - Len(s)]
      OBVIOUS
<1>2. /\ DOMAIN c = 1 .. Len(c) /\ DOMAIN s = 1 .. Len(s) /\ DOMAIN t = 1 .. Len(t)
      /\ Len(s) \in Nat /\ Len(t) \in Nat
      BY <1>1
<1> HIDE DEF c
<1>3. \A i \in DOMAIN c : \/ i \in DOMAIN s /\ c[i] = s[i]
                          \/ i - Len(s) \in DOMAIN t /\ c[i] = t[i - Len(s)]
      BY <1>1, <1>2
<1>4. \A j \in DOMAIN t : j + Len(s) \in DOMAIN c /\ c[j + Len(s)] = t[j]
  <2>1. ASSUME NEW j \in 1 .. Len(t)
        PROVE  /\ j + Len(s) \in Len(s) + 1 .. Len(c) /\ (j + Len(s)) - Len(s) = j
               /\ j + Len(s) \in 1 .. Len(c)
        BY <1>1, <1>2
  <2>2. QED
        BY <1>1, <1>2, <2>1
<1>5. \A i \in DOMAIN s : i \in DOMAIN c /\ c[i] = s[i]
      BY <1>1, <1>2
<1>6. Range(c) = Range(s) \cup Range(t)
      BY <1>3, <1>4, <1>5, RangeFact
<1>7. IsInjective(c)
  <2>1. ASSUME NEW i \in DOMAIN c, NEW j \in DOMAIN c, c[i] = c[j]
        PROVE  i = j
    <3>1. i \in Nat /\ j \in Nat
          BY <1>2
    <3>2. CASE i \in DOMAIN s /\ c[i] = s[i] /\ j \in DOMAIN s /\ c[j] = s[j]
          BY <2>1, <3>2 DEF IsInjective
    <3>3. CASE /\ i - Len(s) \in DOMAIN t /\ c[i] = t[i - Len(s)]
               /\ j - Len(s) \in DOMAIN t /\ c[j] = t[j - Len(s)]
      <4>1. i - Len(s) = j - Len(s)
            BY <2>1, <3>3 DEF IsInjective
      <4>2. QED
            BY <1>2, <3>1, <4>1
    <3>4. \A a \in DOMAIN s, b \in DOMAIN t : s[a] # t[b]
          BY RangeFact
    <3>5. QED
          BY <1>3, <2>1, <3>2, <3>3, <3>4
  <2>2. QED
        BY <2>1 DEF IsInjective
<1>8. QED
      BY <1>1, <1>6, <1>7 DEF c

(* The transactions of a block and those that stay in the queue.           *)
LEMMA SplitOnce ==
    ASSUME NEW X, NEW s \in Seq(X), IsInjective(s), NEW k \in 0 .. Len(s)
    PROVE  LET a == SubSeq(s, 1, k)
               b == SubSeq(s, k + 1, Len(s))
           IN  /\ IsInjective(a) /\ IsInjective(b) /\ Apart(a, b)
               /\ a \in Seq(X) /\ b \in Seq(X)
               /\ Range(a) \subseteq Range(s) /\ Range(b) \subseteq Range(s)
<1> DEFINE a == SubSeq(s, 1, k)
           b == SubSeq(s, k + 1, Len(s))
<1>1. /\ a \in Seq(X) /\ DOMAIN a = 1 .. k /\ \A i \in 1 .. k : a[i] = s[i]
      OBVIOUS
<1>2. /\ b \in Seq(X) /\ DOMAIN b = 1 .. Len(s) - k
      /\ \A i \in 1 .. Len(s) - k : b[i] = s[i + k]
      OBVIOUS
<1>3. DOMAIN s = 1 .. Len(s) /\ Len(s) \in Nat /\ k \in Nat
      OBVIOUS
<1> HIDE DEF a, b
<1>4. IsInjective(a) /\ IsInjective(b)
  <2>1. IsInjective(a)
        BY <1>1, <1>3 DEF IsInjective
  <2>2. ASSUME NEW i \in 1 .. Len(s) - k, NEW j \in 1 .. Len(s) - k, b[i] = b[j]
        PROVE  i = j
    <3>1. i + k \in DOMAIN s /\ j + k \in DOMAIN s /\ s[i + k] = s[j + k]
          BY <1>2, <1>3, <2>2
    <3>2. i + k = j + k
          BY <3>1 DEF IsInjective
    <3>3. QED
          BY <1>3, <3>2
  <2>3. QED
        BY <1>2, <2>1, <2>2 DEF IsInjective
<1>5. Apart(a, b)
  <2>1. \A i \in 1 .. k, j \in 1 .. Len(s) - k : i # j + k
        BY <1>3
  <2>2. \A i \in 1 .. k, j \in 1 .. Len(s) - k :
            i \in DOMAIN s /\ j + k \in DOMAIN s
        BY <1>3
  <2>3. \A i \in 1 .. k, j \in 1 .. Len(s) - k : a[i] # b[j]
        BY <1>1, <1>2, <2>1, <2>2 DEF IsInjective
  <2>4. QED
        BY <1>1, <1>2, <2>3, RangeFact
<1>6. Range(a) \subseteq Range(s) /\ Range(b) \subseteq Range(s)
  <2>1. \A i \in 1 .. k : i \in DOMAIN s
        BY <1>3
  <2>2. \A j \in 1 .. Len(s) - k : j + k \in DOMAIN s
        BY <1>3
  <2>3. QED
        BY <1>1, <1>2, <2>1, <2>2, RangeFact
<1>7. QED
      BY <1>1, <1>2, <1>4, <1>5, <1>6 DEF a, b

(* A transaction moves from the client's connection to the queue.          *)
LEMMA TakeOnce ==
    ASSUME NEW X, NEW q \in Seq(X), q # <<>>, IsInjective(q),
           NEW s \in Seq(X), IsInjective(s), Apart(s, q)
    PROVE  LET a == Append(s, Head(q))
           IN  /\ Head(q) \in Range(q)
               /\ IsInjective(Tail(q)) /\ Range(Tail(q)) \subseteq Range(q)
               /\ IsInjective(a) /\ Range(a) \subseteq Range(s) \cup Range(q)
               /\ Apart(a, Tail(q)) /\ Apart(s, Tail(q))
<1> DEFINE t == Tail(q)
           a == Append(s, Head(q))
<1>1. /\ DOMAIN q = 1 .. Len(q) /\ Len(q) \in Nat \ {0} /\ Head(q) = q[1]
      /\ DOMAIN t = 1 .. Len(q) - 1
      /\ \A i \in 1 .. Len(q) - 1 : t[i] = q[i + 1]
      OBVIOUS
<1>2. /\ DOMAIN s = 1 .. Len(s) /\ Len(s) \in Nat
      /\ DOMAIN a = 1 .. Len(s) + 1 /\ a[Len(s) + 1] = q[1]
      /\ \A i \in 1 .. Len(s) : a[i] = s[i]
      BY <1>1
<1> HIDE DEF t, a
<1>3. \A i \in 1 .. Len(q) - 1 : i + 1 \in DOMAIN q /\ i + 1 # 1
      BY <1>1
<1>4. 1 \in DOMAIN q
      BY <1>1
<1>5. \A i \in DOMAIN s, j \in DOMAIN q : s[i] # q[j]
      BY RangeFact
<1>6. \A i \in DOMAIN t : t[i] # q[1]
      BY <1>1, <1>3, <1>4 DEF IsInjective
<1>7. \A i \in DOMAIN a : \/ i \in DOMAIN s /\ a[i] = s[i]
                          \/ i = Len(s) + 1 /\ a[i] = q[1]
      BY <1>2
<1>8. IsInjective(t)
  <2>1. ASSUME NEW i \in DOMAIN t, NEW j \in DOMAIN t, t[i] = t[j]
        PROVE  i = j
    <3>1. i + 1 \in DOMAIN q /\ j + 1 \in DOMAIN q /\ q[i + 1] = q[j + 1]
          BY <1>1, <1>3, <2>1
    <3>2. i + 1 = j + 1
          BY <3>1 DEF IsInjective
    <3>3. QED
          BY <1>1, <3>2
  <2>2. QED
        BY <2>1 DEF IsInjective
<1>9. IsInjective(a)
      BY <1>4, <1>5, <1>7 DEF IsInjective
<1>10. /\ Head(q) \in Range(q) /\ Range(t) \subseteq Range(q)
       /\ Range(a) \subseteq Range(s) \cup Range(q)
  <2>1. Head(q) \in Range(q)
        BY <1>1, <1>4, RangeFact
  <2>2. \A i \in DOMAIN t : t[i] \in Range(q)
        BY <1>1, <1>3, RangeFact
  <2>3. Range(t) \subseteq Range(q)
        BY <2>2, RangeFact
  <2>4. \A i \in DOMAIN a : a[i] \in Range(s) \cup Range(q)
        BY <1>4, <1>7, RangeFact
  <2>5. Range(a) \subseteq Range(s) \cup Range(q)
        BY <2>4, RangeFact
  <2>6. QED
        BY <2>1, <2>3, <2>5
<1>11. \A i \in DOMAIN s, j \in DOMAIN t : s[i] # t[j]
       BY <1>1, <1>3, <1>5
<1>12. \A i \in DOMAIN a, j \in DOMAIN t : a[i] # t[j]
       BY <1>6, <1>7, <1>11
<1>13. Apart(a, t) /\ Apart(s, t)
       BY <1>11, <1>12, RangeFact
<1>14. QED
       BY <1>8, <1>9, <1>10, <1>13 DEF t, a

(* The transactions of the first k blocks of an execution, one block after *)
(* another: the function inside FlattenSeq.                                *)
IsFlattened(ss, k, f) ==
    f = [i \in 1 .. k |-> IF i = 1 THEN ss[i] ELSE f[i - 1] \o ss[i]]

(* There is such a function.                                               *)
LEMMA FlattenExists ==
    ASSUME NEW ss, NEW n \in Nat
    PROVE  \E f : IsFlattened(ss, n, f)
<1> DEFINE Bad == {k \in Nat : ~ \E f : IsFlattened(ss, k, f)}
<1>1. SUFFICES ASSUME Bad # {} PROVE FALSE
      OBVIOUS
<1>2. PICK k \in Bad : \A j \in Bad : k <= j
      BY <1>1, LeastNatural
<1>3. /\ k \in Nat /\ ~ \E f : IsFlattened(ss, k, f)
      /\ \A j \in Nat : j < k => \E f : IsFlattened(ss, j, f)
      BY <1>2
<1> HIDE DEF Bad
<1>4. k # 0
  <2>1. IsFlattened(ss, 0, [i \in 1 .. 0 |-> 0])
        BY DEF IsFlattened
  <2>2. QED
        BY <1>3, <2>1
<1>5. PICK g : IsFlattened(ss, k - 1, g)
      BY <1>3, <1>4
<1> DEFINE last == IF k = 1 THEN ss[k] ELSE g[k - 1] \o ss[k]
           f    == [i \in 1 .. k |-> IF i = k THEN last ELSE g[i]]
<1> HIDE DEF last
<1>6. \A i \in 1 .. k : f[i] = IF i = 1 THEN ss[i] ELSE f[i - 1] \o ss[i]
  <2>1. \A i \in 1 .. k - 1 : g[i] = IF i = 1 THEN ss[i] ELSE g[i - 1] \o ss[i]
        BY <1>5 DEF IsFlattened
  <2>2. ASSUME NEW i \in 1 .. k, i # k
        PROVE  f[i] = IF i = 1 THEN ss[i] ELSE f[i - 1] \o ss[i]
    <3>1. i \in 1 .. k - 1 /\ f[i] = g[i] /\ (i # 1 => f[i - 1] = g[i - 1])
          BY <1>3, <2>2
    <3>2. QED
          BY <2>1, <3>1
  <2>3. f[k] = IF k = 1 THEN ss[k] ELSE f[k - 1] \o ss[k]
    <3>1. f[k] = last /\ (k # 1 => f[k - 1] = g[k - 1])
          BY <1>3, <1>4
    <3>2. QED
          BY <3>1 DEF last
  <2>4. QED
        BY <2>2, <2>3
<1>7. f = [i \in 1 .. k |-> f[i]]
      OBVIOUS
<1> HIDE DEF f
<1>8. IsFlattened(ss, k, f)
      BY <1>6, <1>7 DEF IsFlattened
<1>9. QED
      BY <1>3, <1>8

(* FlattenSeq is that function.                                            *)
LEMMA FlattenWalk ==
    ASSUME NEW ss, Len(ss) \in Nat \ {0}
    PROVE  \E f : IsFlattened(ss, Len(ss), f) /\ FlattenSeq(ss) = f[Len(ss)]
<1> DEFINE flatten[i \in 1 .. Len(ss)] ==
               IF i = 1 THEN ss[i] ELSE flatten[i - 1] \o ss[i]
<1>1. FlattenSeq(ss) = flatten[Len(ss)]
      BY DEF FlattenSeq
<1>2. \E f : f = [i \in 1 .. Len(ss) |->
                     IF i = 1 THEN ss[i] ELSE f[i - 1] \o ss[i]]
      BY FlattenExists DEF IsFlattened
<1>3. flatten = CHOOSE f : f = [i \in 1 .. Len(ss) |->
                     IF i = 1 THEN ss[i] ELSE f[i - 1] \o ss[i]]
      OBVIOUS
<1> HIDE DEF flatten
<1>4. IsFlattened(ss, Len(ss), flatten)
      BY <1>2, <1>3 DEF IsFlattened
<1>5. QED
      BY <1>1, <1>4

(* Its elements are those of the parts, each once.                         *)
LEMMA FlattenOnce ==
    ASSUME NEW X, NEW ss \in Seq(Seq(X)),
           \A k \in DOMAIN ss : IsInjective(ss[k]),
           \A j, k \in DOMAIN ss : j # k => Apart(ss[j], ss[k])
    PROVE  LET c == FlattenSeq(ss)
           IN  /\ c \in Seq(X) /\ IsInjective(c)
               /\ \A x \in Range(c) : \E k \in DOMAIN ss : x \in Range(ss[k])
<1>1. DOMAIN ss = 1 .. Len(ss) /\ Len(ss) \in Nat
      /\ \A k \in 1 .. Len(ss) : ss[k] \in Seq(X)
      OBVIOUS
<1>2. CASE ss = <<>>
  <2>1. FlattenSeq(ss) = <<>>
        BY <1>2 DEF FlattenSeq
  <2>2. <<>> \in Seq(X) /\ IsInjective(<<>>) /\ Range(<<>>) = {}
        BY DEF IsInjective, Range
  <2>3. QED
        BY <2>1, <2>2
<1>3. CASE ss # <<>>
  <2>1. PICK f : IsFlattened(ss, Len(ss), f) /\ FlattenSeq(ss) = f[Len(ss)]
    <3>1. Len(ss) \in Nat \ {0}
          BY <1>3
    <3>2. QED
          BY <3>1, FlattenWalk
  <2>2. \A i \in 1 .. Len(ss) :
            f[i] = IF i = 1 THEN ss[i] ELSE f[i - 1] \o ss[i]
        BY <2>1 DEF IsFlattened
  <2> DEFINE Good(i) ==
                 /\ f[i] \in Seq(X) /\ IsInjective(f[i])
                 /\ \A x \in Range(f[i]) : \E k \in 1 .. i : x \in Range(ss[k])
             Bad == {i \in 1 .. Len(ss) : ~Good(i)}
  <2>3. ASSUME Bad # {} PROVE FALSE
    <3>1. Bad \in SUBSET Nat
          BY <1>1
    <3>2. PICK i \in Bad : \A j \in Bad : i <= j
          BY <2>3, <3>1, LeastNatural
    <3>3. i \in 1 .. Len(ss) /\ ~Good(i) /\ \A j \in 1 .. Len(ss) : j < i => Good(j)
          BY <1>1, <3>2
    <3>4. CASE i = 1
      <4>1. f[1] = ss[1] /\ 1 \in 1 .. Len(ss) /\ 1 \in 1 .. 1
            BY <2>2, <3>3, <3>4
      <4>2. f[1] \in Seq(X) /\ IsInjective(f[1])
            BY <1>1, <4>1
      <4>3. \A x \in Range(f[1]) : \E k \in 1 .. 1 : x \in Range(ss[k])
            BY <4>1
      <4>4. QED
            BY <3>3, <3>4, <4>2, <4>3
    <3>5. CASE i # 1
      <4>1. i - 1 \in 1 .. Len(ss) /\ i - 1 < i /\ i \in Nat
            BY <1>1, <3>3, <3>5
      <4>2. Good(i - 1)
            BY <3>3, <4>1
      <4>3. f[i] = f[i - 1] \o ss[i]
            BY <2>2, <3>3, <3>5
      <4>4. Apart(f[i - 1], ss[i])
        <5>1. ASSUME NEW x \in Range(f[i - 1]) PROVE x \notin Range(ss[i])
          <6>1. PICK k \in 1 .. i - 1 : x \in Range(ss[k])
                BY <4>2
          <6>2. k # i /\ k \in DOMAIN ss /\ i \in DOMAIN ss
                BY <1>1, <3>3, <4>1
          <6>3. Range(ss[k]) \cap Range(ss[i]) = {}
                BY <6>2 DEF Apart
          <6>4. QED
                BY <6>1, <6>3
        <5>2. QED
              BY <5>1 DEF Apart
      <4>5. /\ f[i] \in Seq(X) /\ IsInjective(f[i])
            /\ Range(f[i]) = Range(f[i - 1]) \cup Range(ss[i])
        <5>1. ss[i] \in Seq(X) /\ IsInjective(ss[i])
              BY <1>1, <3>3
        <5> HIDE DEF Good
        <5>2. f[i - 1] \in Seq(X) /\ IsInjective(f[i - 1])
              BY <4>2 DEF Good
        <5>3. QED
              BY <4>3, <4>4, <5>1, <5>2, ConcatOnce
      <4>6. \A x \in Range(f[i]) : \E k \in 1 .. i : x \in Range(ss[k])
        <5>1. \A k \in 1 .. i - 1 : k \in 1 .. i
              BY <4>1
        <5>2. i \in 1 .. i
              BY <3>3
        <5>3. QED
              BY <4>2, <4>5, <5>1, <5>2
      <4>7. QED
            BY <3>3, <4>5, <4>6
    <3>6. QED
          BY <3>4, <3>5
  <2>4. Len(ss) \in 1 .. Len(ss)
        BY <1>1, <1>3
  <2>5. Good(Len(ss))
        BY <2>3, <2>4
  <2>6. QED
        BY <1>1, <2>1, <2>5
<1>4. QED
      BY <1>2, <1>3

-----------------------------------------------------------------------------
(* What the client deals.                                                  *)

(* Numbers with one remainder that differ by less than the divisor.        *)
LEMMA Remainders ==
    ASSUME NEW T \in Nat \ {0}, NEW a \in Int, NEW b \in Int, a % T = b % T,
           a - b < T, b - a < T
    PROVE  a = b
<1> DEFINE p == a \div T
           q == b \div T
           r == a % T
<1>1. /\ p \in Int /\ q \in Int /\ r \in Int
      /\ a = (T * p) + r /\ b = (T * q) + r
      OBVIOUS
<1> HIDE DEF p, q, r
<1>2. a - b = T * (p - q)
      BY <1>1
<1>3. ~(p - q >= 1) /\ ~(q - p >= 1)
      BY <1>1, <1>2
<1>4. p = q
      BY <1>1, <1>3
<1>5. QED
      BY <1>1, <1>4

(* A number below T and a multiple of T are told from their sum.           *)
LEMMA Multiples ==
    ASSUME NEW T \in Nat \ {0}, NEW x \in 1 .. T, NEW y \in 1 .. T,
           NEW j \in Nat, NEW k \in Nat, x + j * T = y + k * T
    PROVE  x = y /\ j = k
<1>1. x - y = (k - j) * T
      OBVIOUS
<1>2. ~(k - j >= 1) /\ ~(j - k >= 1)
      BY <1>1
<1>3. j = k
      BY <1>2
<1>4. QED
      BY <1>1, <1>3

(* Every transaction goes to one replica, once.                            *)
LEMMA DealtOnce ==
    ASSUME NEW n \in PID, NEW offset \in Nat
    PROVE  /\ IsInjective(fromClientTo(n, offset))
           /\ \A m \in PID : m # n => Dealt(n, offset) \cap Dealt(m, offset) = {}
<1> DEFINE least(i) == 1 + ((i - offset) % Total)
           last(i)  == (NumInstances + Total - least(i)) \div Total
<1>1. Total \in Nat \ {0} /\ \A i \in PID : i \in 0 .. Total - 1
      BY QuorumSizes DEF PID
<1>2. \A i \in PID : least(i) \in 1 .. Total
      BY <1>1
<1>3. \A i \in PID : fromClientTo(i, offset) =
                         [k \in 1 .. last(i) |-> least(i) + (k - 1) * Total]
      BY DEF fromClientTo
<1>4. ASSUME NEW i \in PID, NEW j \in PID, least(i) = least(j)
      PROVE  i = j
  <2>1. i - offset \in Int /\ j - offset \in Int
        BY <1>1
  <2>2. (i - offset) % Total \in Int /\ (j - offset) % Total \in Int
        BY <1>1, <2>1
  <2>3. (i - offset) % Total = (j - offset) % Total
        BY <1>4, <2>2
  <2>4. i - offset = j - offset
        BY <1>1, <2>1, <2>3, Remainders
  <2>5. QED
        BY <1>1, <2>4
<1>5. \A i \in PID : \A k \in 1 .. last(i) : k - 1 \in Nat /\ k \in Nat
      OBVIOUS
<1> HIDE DEF least, last
<1>6. ASSUME NEW i \in PID, NEW j \in PID, NEW k \in 1 .. last(i),
             NEW l \in 1 .. last(j),
             least(i) + (k - 1) * Total = least(j) + (l - 1) * Total
      PROVE  i = j /\ k = l
  <2>1. k - 1 \in Nat /\ l - 1 \in Nat /\ k \in Nat /\ l \in Nat
        BY <1>5
  <2>2. least(i) = least(j) /\ k - 1 = l - 1
        BY <1>1, <1>2, <1>6, <2>1, Multiples
  <2>3. QED
        BY <1>4, <2>1, <2>2
<1>7. IsInjective(fromClientTo(n, offset))
  <2> DEFINE q == fromClientTo(n, offset)
  <2>1. /\ DOMAIN q = 1 .. last(n)
        /\ \A k \in 1 .. last(n) : q[k] = least(n) + (k - 1) * Total
        BY <1>3
  <2> HIDE DEF q
  <2>2. \A k, l \in 1 .. last(n) : q[k] = q[l] => k = l
        BY <1>6, <2>1
  <2>3. QED
        BY <2>1, <2>2 DEF IsInjective, q
<1>8. ASSUME NEW m \in PID, m # n
      PROVE  Dealt(n, offset) \cap Dealt(m, offset) = {}
  <2>1. ASSUME NEW x, x \in Dealt(n, offset), x \in Dealt(m, offset) PROVE FALSE
    <3> DEFINE q(i) == fromClientTo(i, offset)
    <3>1. \A i \in PID : /\ DOMAIN q(i) = 1 .. last(i)
                         /\ \A k \in 1 .. last(i) :
                                q(i)[k] = least(i) + (k - 1) * Total
          BY <1>3
    <3>2. /\ \E k \in DOMAIN q(n) : x = q(n)[k]
          /\ \E k \in DOMAIN q(m) : x = q(m)[k]
          BY <2>1, RangeFact DEF Dealt
    <3> HIDE DEF q
    <3>3. PICK k \in 1 .. last(n) : x = least(n) + (k - 1) * Total
          BY <3>1, <3>2
    <3>4. PICK l \in 1 .. last(m) : x = least(m) + (l - 1) * Total
          BY <3>1, <3>2
    <3>5. QED
          BY <1>6, <1>8, <3>3, <3>4
  <2>2. QED
        BY <2>1
<1>9. QED
      BY <1>7, <1>8
=============================================================================
