---------------------------- MODULE ChainedProofs ----------------------------
(***************************************************************************)
(* Theorems about the replicas of Chained HotStuff, for every number of    *)
(* faults, every factor, any number of views, transactions and pauses, and *)
(* timers that may run out at any time.                                    *)
(*                                                                         *)
(* The inductive invariant, Accounted, is stated in module ChainedLedger.  *)
(* What an entry in the ledger does to it comes first, and what the        *)
(* trusted component signs and adopts.  As for Basic HotStuff there is a   *)
(* lemma for each function of Handler and for each part that it is made    *)
(* of: called in a sound state it leads to a sound state of a ledger that  *)
(* has only grown (Leads).  The steps, the initial state and the theorems  *)
(* about execution follow them.                                            *)
(*                                                                         *)
(* The second part follows the counter of the trusted component through    *)
(* the same functions (the components are monotonic signers), the third    *)
(* one the blocks that a leader makes and what they are built on.          *)
(***************************************************************************)
EXTENDS ChainedLedger

-----------------------------------------------------------------------------
(* Chains.                                                                 *)

(* The hash of a block is a chain, one entry longer than the parent's.     *)
LEMMA HashOfBlock ==
    ASSUME NEW b, BlockType(b)
    PROVE  /\ hash_ch(b) \in Chain /\ hash_ch(b) # Dummy
           /\ Len(hash_ch(b)) = Len(getCHash(b.just)) + 1
           /\ hash_ch(b)[Len(hash_ch(b))].view = b.view
           /\ IsPrefix(getCHash(b.just), hash_ch(b))
           /\ Front(hash_ch(b)) = getCHash(b.just)
<1> DEFINE g == getCHash(b.just)
           x == [view |-> b.view, phase |-> b.just.rdata.phase,
                 signers |-> getSigners(b.just.signs), trans |-> b.trans]
<1>1. g \in Seq(Entry) /\ x \in Entry /\ x.view = b.view
      BY DEF BlockType, Chain, Entry
<1>2. hash_ch(b) = Append(g, x)
      BY DEF hash_ch
<1> HIDE DEF g, x
<1>3. /\ Append(g, x) \in Seq(Entry) /\ Len(Append(g, x)) = Len(g) + 1
      /\ \A i \in 1 .. Len(g) : Append(g, x)[i] = g[i]
      /\ Append(g, x)[Len(g) + 1] = x
      BY <1>1
<1>4. IsPrefix(g, Append(g, x))
  <2> DEFINE a == Append(g, x)
  <2>1. /\ g \in Seq(Entry) /\ a \in Seq(Entry) /\ Len(g) <= Len(a)
        /\ \A i \in 1 .. Len(g) : g[i] = a[i]
        BY <1>1, <1>3
  <2> HIDE DEF a
  <2>2. IsPrefix(g, a)
        BY <2>1, PrefixFact
  <2>3. QED
        BY <2>2 DEF a
<1>5. Front(Append(g, x)) = g
  <2>1. Front(Append(g, x)) = SubSeq(Append(g, x), 1, Len(g))
        BY <1>1, <1>3 DEF Front
  <2>2. SubSeq(Append(g, x), 1, Len(g)) = g
        BY <1>1, <1>3
  <2>3. QED
        BY <2>1, <2>2
<1>6. QED
      BY <1>1, <1>2, <1>3, <1>4, <1>5, UnsetAssumption DEF Chain, g

(* Prefixes are reflexive and transitive.                                  *)
LEMMA PrefixOrder ==
    ASSUME NEW s \in Chain, NEW t \in Chain, NEW u \in Chain
    PROVE  /\ IsPrefix(s, s)
           /\ IsPrefix(s, t) /\ IsPrefix(t, u) => IsPrefix(s, u)
BY PrefixFact DEF Chain

(* Genesis is a block like any other (JBlock::JBlock).                     *)
LEMMA GenesisFact ==
    /\ BlockType(GenesisBlock)
    /\ getCView(GenesisBlock.just) = 0 /\ getCHash(GenesisBlock.just) = Genesis
<1>1. getSigners({}) = {}
      BY DEF getSigners
<1>2. wellFormedInit(NoJust)
      BY DEF wellFormedInit, NoJust, RData
<1>3. getCView(NoJust) = 0 /\ getCHash(NoJust) = Genesis
      BY <1>2 DEF getCView, getCHash, NoJust, RData
<1>4. /\ GenesisBlock = JBlock(GenesisBlock.view, GenesisBlock.just,
                               GenesisBlock.trans)
      /\ GenesisBlock.view = 0 /\ GenesisBlock.just = NoJust
      /\ GenesisBlock.trans = <<>>
      BY DEF GenesisBlock, JBlock
<1>5. /\ NoJust.rdata.propv = 0 /\ NoJust.rdata.phase = NEWVIEW
      /\ NoJust.signs = {}
      BY DEF NoJust, RData
<1>6. Genesis \in Chain
      BY DEF Genesis, Chain
<1>7. QED
      BY <1>1, <1>3, <1>4, <1>5, <1>6 DEF BlockType, Phase

-----------------------------------------------------------------------------
(* Facts about a sound ledger.                                             *)

(* A proposed block is not marked as executed.                             *)
LEMMA FreshBlock ==
    ASSUME NEW b, BlockType(b)
    PROVE  /\ DOMAIN b = BlockFields /\ b.executed = FALSE
           /\ b = [b EXCEPT !.executed = FALSE]
<1> DEFINE j == JBlock(b.view, b.just, b.trans)
<1>1. DOMAIN j = BlockFields /\ j.executed = FALSE
      BY DEF JBlock, BlockFields
<1>2. j = [j EXCEPT !.executed = FALSE]
  <2>1. j = [k \in DOMAIN j |-> j[k]]
        BY DEF JBlock
  <2> HIDE DEF j
  <2>2. QED
        BY <1>1, <2>1
<1>3. b = j
      BY DEF BlockType
<1> HIDE DEF j
<1>4. QED
      BY <1>1, <1>2, <1>3

(* The block of a view, its hash and its parent.                           *)
LEMMA BlockFact ==
    ASSUME NEW K, Sound(K), NEW v \in DOMAIN K.proposed
    PROVE  /\ v \in Nat /\ BlockType(K.proposed[v]) /\ K.proposed[v].view = v
           /\ Parent(K, v) \in Nat /\ Parent(K, v) \in DOMAIN K.proposed
           /\ v # 0 => Parent(K, v) < v
           /\ v # 0 => getCHash(K.proposed[v].just) = HashOf(K, Parent(K, v))
           /\ HashOf(K, v) \in Chain /\ HashOf(K, v) # Dummy
           /\ v # 0 => Front(HashOf(K, v)) = HashOf(K, Parent(K, v))
           /\ v # 0 => IsPrefix(HashOf(K, Parent(K, v)), HashOf(K, v))
<1>1. v \in Nat /\ BlockType(K.proposed[v])
      BY DEF Sound, LedgerType
<1>2. CASE v = 0
  <2>1. K.proposed[v] = GenesisBlock /\ GenesisBlock.view = 0
        BY <1>2 DEF Sound, LedgerType, GenesisBlock, JBlock
  <2>2. Parent(K, v) = 0
        BY <2>1, GenesisFact DEF Parent
  <2>3. QED
        BY <1>1, <1>2, <2>1, <2>2, HashOfBlock DEF HashOf
<1>3. CASE v # 0
  <2>1. ParentSound(K, v)
        BY <1>3 DEF Sound, ParentsSound
  <2>2. /\ K.proposed[v].view = v /\ Parent(K, v) \in DOMAIN K.proposed
        /\ Parent(K, v) < v
        /\ getCHash(K.proposed[v].just) = HashOf(K, Parent(K, v))
        BY <2>1 DEF ParentSound
  <2>3. Parent(K, v) \in Nat
        BY <2>2 DEF Sound, LedgerType
  <2>4. QED
        BY <1>1, <2>2, <2>3, HashOfBlock DEF HashOf
<1>4. QED
      BY <1>2, <1>3

(* Blocks of different views have different hashes.                        *)
LEMMA HashView ==
    ASSUME NEW K, Sound(K), NEW u \in DOMAIN K.proposed,
           NEW v \in DOMAIN K.proposed, HashOf(K, u) = HashOf(K, v)
    PROVE  u = v
BY BlockFact, HashOfBlock DEF HashOf

(* A certified view has a voter, and a block.                              *)
LEMMA CertifiedFact ==
    ASSUME NEW K, Sound(K), NEW v, Certified(K, v)
    PROVE  /\ v \in DOMAIN K.proposed /\ v \in Nat /\ v # 0
           /\ \E n \in PID : v \in K.voted[n]
<1>1. {n \in PID : v \in K.voted[n]} # {}
      BY QuorumMember DEF Certified
<1>2. QED
      BY <1>1 DEF Sound, AdoptedSound, LedgerType

(* A block that was certified in the view after that of its parent (v):    *)
(* every later block descends from that parent.  A leader hears of what a  *)
(* quorum have prepared, so of a voter, which has adopted the certified    *)
(* block or a later one.                                                   *)
LEMMA Descent ==
    ASSUME NEW K, Sound(K), NEW v \in Nat, v + 1 \in DOMAIN K.proposed,
           Parent(K, v + 1) = v, Certified(K, v + 1)
    PROVE  \A u \in DOMAIN K.proposed :
               v < u => /\ v <= Parent(K, u)
                        /\ IsPrefix(HashOf(K, v), HashOf(K, Parent(K, u)))
<1> DEFINE Good(u) == /\ v <= Parent(K, u)
                      /\ IsPrefix(HashOf(K, v), HashOf(K, Parent(K, u)))
           Bad == {u \in DOMAIN K.proposed : v < u /\ ~Good(u)}
<1>1. SUFFICES ASSUME Bad # {} PROVE FALSE
      OBVIOUS
<1>2. Bad \in SUBSET Nat
      BY DEF Sound, LedgerType
<1>3. PICK u \in Bad : \A w \in Bad : u <= w
      BY <1>1, <1>2, LeastNatural
<1>4. /\ u \in DOMAIN K.proposed /\ u \in Nat /\ v < u /\ ~Good(u)
      /\ \A w \in DOMAIN K.proposed : v < w /\ w < u => Good(w)
  <2>1. \A w \in DOMAIN K.proposed : w \in Nat
        BY DEF Sound, LedgerType
  <2>2. \A w \in DOMAIN K.proposed : v < w /\ w < u /\ ~Good(w) => u <= w
        BY <1>3
  <2>3. QED
        BY <1>3, <2>1, <2>2
<1> DEFINE j == Parent(K, u)
<1>5. /\ j \in Nat /\ j \in DOMAIN K.proposed /\ j < u
      BY <1>4, BlockFact
<1>6. v \in DOMAIN K.proposed /\ HashOf(K, v) \in Chain
          /\ HashOf(K, j) \in Chain
      BY <1>5, BlockFact
<1>7. ASSUME v <= j PROVE Good(u)
  <2>1. CASE j = v
        BY <1>6, <1>7, <2>1, PrefixOrder
  <2>2. CASE v < j
    <3>1. Good(j)
          BY <1>4, <1>5, <2>2
    <3>2. /\ HashOf(K, Parent(K, j)) \in Chain
          /\ IsPrefix(HashOf(K, Parent(K, j)), HashOf(K, j))
          BY <1>5, <2>2, BlockFact
    <3>3. QED
          BY <1>6, <1>7, <3>1, <3>2, PrefixOrder
  <2>3. QED
        BY <1>5, <1>7, <2>1, <2>2
<1>8. ~(v <= j)
      BY <1>4, <1>7
<1>9. CASE u = v + 1
      BY <1>8, <1>9
<1>10. CASE u # v + 1
  <2>1. v + 1 < u /\ j + 1 # u
        BY <1>4, <1>5, <1>8, <1>10
  <2>2. ParentSound(K, u)
        BY <1>4 DEF Sound, ParentsSound
  <2>3. PICK S \in SUBSET PID :
            /\ Cardinality(S) >= QSize
            /\ \A n \in S : /\ u <= K.view[n]
                            /\ \E i \in 0 .. j : Prepared(K, n, u - 1, i)
        BY <2>1, <2>2 DEF ParentSound, Supported
  <2>4. PICK n \in PID : n \in S /\ v + 1 \in K.voted[n]
        BY <2>3, QuorumsIntersect DEF Certified
  <2>5. PICK i \in 0 .. j : Prepared(K, n, u - 1, i)
        BY <2>3, <2>4
  <2>6. v + 1 \in K.adopted[n] /\ v + 1 <= u - 1
        BY <1>4, <2>1, <2>4 DEF Sound, AdoptedSound
  <2>7. PICK w \in K.adopted[n] : /\ w <= u - 1 /\ i = Parent(K, w)
                                  /\ v + 1 <= w
    <3>1. K.adopted[n] \in SUBSET Nat
          BY DEF Sound, LedgerType
    <3>2. ~ \A w \in K.adopted[n] : u - 1 < w
          BY <1>4, <2>6, <3>1
    <3>3. QED
          BY <2>5, <2>6, <3>2 DEF Prepared
  <2>8. w \in DOMAIN K.proposed /\ w \in Nat
        BY DEF Sound, AdoptedSound, LedgerType
  <2>9. Good(w)
        BY <1>4, <2>7, <2>8
  <2>10. QED
         BY <1>5, <1>8, <2>5, <2>7, <2>9
<1>11. QED
       BY <1>9, <1>10

-----------------------------------------------------------------------------
(* How the ledger grows.                                                   *)

(* What was certified stays so, and so on, while the ledger grows.         *)
LEMMA GrowsFact ==
    ASSUME NEW K, NEW L, NEW n, Grows(K, n, L)
    PROVE  /\ \A v : Certified(K, v) => Certified(L, v)
           /\ \A v \in DOMAIN K.proposed : /\ v \in DOMAIN L.proposed
                                           /\ L.proposed[v] = K.proposed[v]
                                           /\ HashOf(L, v) = HashOf(K, v)
                                           /\ Parent(L, v) = Parent(K, v)
<1>1. ASSUME NEW v, Certified(K, v) PROVE Certified(L, v)
  <2>1. {m \in PID : v \in K.voted[m]} \subseteq {m \in PID : v \in L.voted[m]}
        BY DEF Grows
  <2>2. QED
        BY <1>1, <2>1, CardinalityMonotonic DEF Certified
<1>2. QED
      BY <1>1 DEF Grows, HashOf, Parent

(* What a component has prepared at the end of a view is settled when it   *)
(* leaves the view.                                                        *)
LEMMA PreparedGrows ==
    ASSUME NEW K, Sound(K), NEW L, NEW n, Grows(K, n, L), NEW m \in PID,
           NEW v \in Int, v < K.view[m] \/ K.adopted[m] = L.adopted[m],
           LedgerType(L), NEW j, Prepared(K, m, v, j)
    PROVE  Prepared(L, m, v, j)
<1>1. /\ K.adopted[m] \subseteq L.adopted[m]
      /\ \A u \in L.adopted[m] : u \in K.adopted[m] \/ v < u
  <2>1. \A u \in L.adopted[m] : u \in K.adopted[m] \/ K.view[m] <= u
        BY DEF Grows
  <2>2. K.view[m] \in Nat /\ L.adopted[m] \in SUBSET Nat
        BY DEF Sound, LedgerType
  <2>3. K.adopted[m] \subseteq L.adopted[m]
        BY DEF Grows
  <2>4. QED
        BY <2>1, <2>2, <2>3
<1>2. \A u \in K.adopted[m] : Parent(L, u) = Parent(K, u)
      BY GrowsFact DEF Sound, AdoptedSound
<1>3. \A u \in L.adopted[m] : u \in Nat
      BY DEF LedgerType
<1>4. \A w \in L.adopted[m] : w <= v => w \in K.adopted[m]
      BY <1>1, <1>3
<1>5. CASE j = 0 /\ \A u \in K.adopted[m] : v < u
      BY <1>1, <1>5 DEF Prepared
<1>6. CASE \E u \in K.adopted[m] :
               /\ u <= v /\ j = Parent(K, u)
               /\ \A w \in K.adopted[m] : w <= v => w <= u
      BY <1>1, <1>2, <1>4, <1>6 DEF Prepared
<1>7. QED
      BY <1>5, <1>6 DEF Prepared

(* A block stays well founded.                                             *)
LEMMA ParentGrows ==
    ASSUME NEW K, Sound(K), NEW L, NEW n, Grows(K, n, L), LedgerType(L),
           NEW u \in DOMAIN K.proposed \ {0}
    PROVE  ParentSound(L, u)
<1> DEFINE j == Parent(K, u)
<1>1. ParentSound(K, u) /\ u \in Nat /\ j \in DOMAIN K.proposed
      BY BlockFact DEF Sound, ParentsSound
<1>2. /\ L.proposed[u] = K.proposed[u] /\ Parent(L, u) = j
      /\ j \in DOMAIN L.proposed /\ HashOf(L, j) = HashOf(K, j)
      /\ Certified(K, j) => Certified(L, j)
      BY <1>1, GrowsFact
<1>3. ASSUME Supported(K, u, j) PROVE Supported(L, u, j)
  <2>1. PICK S \in SUBSET PID :
            /\ Cardinality(S) >= QSize
            /\ \A m \in S : /\ u <= K.view[m]
                            /\ \E i \in 0 .. j : Prepared(K, m, u - 1, i)
        BY <1>3 DEF Supported
  <2>2. ASSUME NEW m \in S
        PROVE  /\ u <= L.view[m]
               /\ \E i \in 0 .. j : Prepared(L, m, u - 1, i)
    <3>1. PICK i \in 0 .. j : Prepared(K, m, u - 1, i)
          BY <2>1
    <3>2. /\ u <= K.view[m] /\ K.view[m] \in Nat /\ L.view[m] \in Nat
          /\ K.view[m] <= L.view[m]
          BY <2>1 DEF Sound, LedgerType, Grows
    <3>3. u - 1 \in Int /\ u - 1 < K.view[m]
          BY <1>1, <3>2
    <3>4. Prepared(L, m, u - 1, i)
          BY <3>1, <3>3, PreparedGrows
    <3>5. QED
          BY <1>1, <3>2, <3>4
  <2>3. QED
        BY <2>1, <2>2 DEF Supported
<1>4. QED
      BY <1>1, <1>2, <1>3 DEF ParentSound

(* So it remains to look at what is new.                                   *)
LEMMA SoundGrows ==
    ASSUME NEW K, Sound(K), NEW L, NEW n, Grows(K, n, L), LedgerType(L),
           AdoptedSound(L),
           \A u \in DOMAIN L.proposed \ DOMAIN K.proposed : ParentSound(L, u)
    PROVE  Sound(L)
BY ParentGrows DEF Sound, ParentsSound

(* Growing is transitive.                                                  *)
LEMMA GrowsTransitive ==
    ASSUME NEW K, NEW L, NEW M, NEW n, Grows(K, n, L), Grows(L, n, M),
           LedgerType(K), LedgerType(L), LedgerType(M)
    PROVE  Grows(K, n, M)
<1>1. ASSUME NEW m \in PID
      PROVE  /\ K.voted[m] \subseteq M.voted[m] /\ K.adopted[m] \subseteq M.adopted[m]
             /\ K.view[m] <= M.view[m]
             /\ \A v \in M.adopted[m] : v \in K.adopted[m] \/ K.view[m] <= v
             /\ m # n => K.adopted[m] = M.adopted[m] /\ K.view[m] = M.view[m]
  <2>1. /\ K.view[m] \in Nat /\ L.view[m] \in Nat /\ M.view[m] \in Nat
        /\ K.view[m] <= L.view[m] /\ L.view[m] <= M.view[m]
        BY DEF LedgerType, Grows
  <2>2. \A v \in M.adopted[m] : v \in Nat
        BY DEF LedgerType
  <2>3. \A v \in M.adopted[m] : v \in L.adopted[m] \/ L.view[m] <= v
        BY DEF Grows
  <2>4. \A v \in L.adopted[m] : v \in K.adopted[m] \/ K.view[m] <= v
        BY DEF Grows
  <2>5. \A v \in M.adopted[m] : v \in K.adopted[m] \/ K.view[m] <= v
        BY <2>1, <2>2, <2>3, <2>4
  <2>6. QED
        BY <2>1, <2>5 DEF Grows
<1>2. QED
      BY <1>1 DEF Grows

-----------------------------------------------------------------------------
(* Entries in the ledger.                                                  *)

(* The leader of a view in which there is no block makes one.              *)
LEMMA LedgerPropose ==
    ASSUME NEW K, Sound(K), NEW n \in PID, NEW u \in Nat \ {0},
           getLeaderOf(u) = n, u \notin DOMAIN K.proposed,
           NEW b, BlockType(b), b.view = u, u = b.just.rdata.propv + 1,
           NEW j \in DOMAIN K.proposed, j = getCView(b.just), j < u,
           getCHash(b.just) = HashOf(K, j),
           \/ j + 1 = u /\ Certified(K, j)
           \/ (j + 1 = u => u = 1) /\ Supported(K, u, j),
           NEW L, L.proposed = assign(K.proposed, u, b),
           L.voted = K.voted, L.adopted = K.adopted, L.view = K.view
    PROVE  Sound(L) /\ Grows(K, n, L) /\ L.proposed[u] = b
<1>1. /\ DOMAIN L.proposed = DOMAIN K.proposed \cup {u} /\ L.proposed[u] = b
      /\ \A w \in DOMAIN K.proposed : L.proposed[w] = K.proposed[w]
      BY DEF assign
<1>2. LedgerType(L)
      BY <1>1 DEF Sound, LedgerType
<1>3. \A m \in PID : K.view[m] <= L.view[m]
      BY DEF Sound, LedgerType
<1>4. Grows(K, n, L)
      BY <1>1, <1>3 DEF Grows
<1>5. AdoptedSound(L)
      BY <1>1 DEF Sound, AdoptedSound
<1>6. ParentSound(L, u)
  <2>1. Parent(L, u) = j /\ j \in Nat
        BY <1>1 DEF Parent, Sound, LedgerType
  <2>2. j \in DOMAIN L.proposed /\ HashOf(L, j) = HashOf(K, j)
        BY <1>4, GrowsFact
  <2>3. Certified(K, j) => Certified(L, j)
        BY <1>4, GrowsFact
  <2>4. ASSUME Supported(K, u, j) PROVE Supported(L, u, j)
    <3>1. \A m \in PID : \A i : Prepared(K, m, u - 1, i) => Prepared(L, m, u - 1, i)
          BY <1>2, <1>4, PreparedGrows
    <3>2. QED
          BY <2>4, <3>1 DEF Supported
  <2>5. QED
        BY <1>1, <2>1, <2>2, <2>3, <2>4 DEF ParentSound
<1>7. Sound(L)
      BY <1>1, <1>2, <1>4, <1>5, <1>6, SoundGrows
<1>8. QED
      BY <1>1, <1>4, <1>7

(* A trusted component moves on.                                           *)
LEMMA LedgerMove ==
    ASSUME NEW K, Sound(K), NEW n \in PID, NEW w \in Nat, K.view[n] <= w,
           NEW L, L.proposed = K.proposed, L.voted = K.voted,
           L.adopted = K.adopted, L.view = [K.view EXCEPT ![n] = w]
    PROVE  Sound(L) /\ Grows(K, n, L)
<1>1. LedgerType(L)
      BY DEF Sound, LedgerType
<1>2. \A m \in PID : /\ K.view[m] <= L.view[m]
                     /\ m # n => K.view[m] = L.view[m]
                     /\ K.view[m] \in Nat /\ L.view[m] \in Nat
      BY DEF Sound, LedgerType
<1>3. Grows(K, n, L)
      BY <1>2 DEF Grows
<1>4. AdoptedSound(L)
  <2>1. ASSUME NEW m \in PID, NEW v \in K.adopted[m] PROVE v <= L.view[m]
    <3>1. v \in Nat /\ v <= K.view[m]
          BY DEF Sound, AdoptedSound, LedgerType
    <3>2. QED
          BY <1>2, <3>1
  <2>2. QED
        BY <2>1 DEF Sound, AdoptedSound
<1>5. QED
      BY <1>1, <1>3, <1>4, SoundGrows

(* A trusted component adopts the block of its view, and may vote for it.  *)
LEMMA LedgerAdopt ==
    ASSUME NEW K, Sound(K), NEW n \in PID, NEW v, v = K.view[n], v # 0,
           v \in DOMAIN K.proposed, NEW votes \in SUBSET {v},
           NEW L, L.proposed = K.proposed, L.view = K.view,
           L.adopted = [K.adopted EXCEPT ![n] = @ \cup {v}],
           L.voted = [K.voted EXCEPT ![n] = @ \cup votes]
    PROVE  /\ Sound(L) /\ Grows(K, n, L) /\ votes \subseteq L.voted[n]
           /\ Prepared(L, n, v, Parent(L, v))
<1>1. v \in Nat
      BY DEF Sound, LedgerType
<1>2. \A m \in PID :
         /\ L.adopted[m] = IF m = n THEN K.adopted[m] \cup {v} ELSE K.adopted[m]
         /\ L.voted[m] = IF m = n THEN K.voted[m] \cup votes ELSE K.voted[m]
      BY DEF Sound, LedgerType
<1>3. LedgerType(L)
  <2>1. L.adopted \in [PID -> SUBSET Nat] /\ L.voted \in [PID -> SUBSET Nat]
        BY <1>1 DEF Sound, LedgerType
  <2>2. QED
        BY <2>1 DEF Sound, LedgerType
<1>4. \A m \in PID : K.view[m] \in Nat
      BY DEF Sound, LedgerType
<1>5. Grows(K, n, L)
      BY <1>1, <1>2, <1>4 DEF Grows
<1>6. AdoptedSound(L)
      BY <1>1, <1>2, <1>4 DEF Sound, AdoptedSound
<1>7. Sound(L)
      BY <1>3, <1>5, <1>6, SoundGrows
<1>8. \A w \in L.adopted[n] : w <= v
      BY <1>1, <1>7 DEF Sound, AdoptedSound
<1>9. Prepared(L, n, v, Parent(L, v))
      BY <1>1, <1>2, <1>8 DEF Prepared
<1>10. QED
       BY <1>2, <1>5, <1>7, <1>9

-----------------------------------------------------------------------------
(* What the trusted component enters.                                      *)

(* The counter moves, the prepared block stays: what is signed as a        *)
(* new-view message on the way reports it.                                 *)
LEMMA ComponentMoves ==
    ASSUME NEW K, Sound(K), NEW n \in PID, NEW t, ComponentSound(K, n, t),
           NEW u, DOMAIN u = DOMAIN t, u.preph = t.preph, u.prepv = t.prepv,
           u.view \in Nat, t.view <= u.view, u.phase \in {NEWVIEW, PREPARE}
    PROVE  \E L : /\ Sound(L) /\ Grows(K, n, L) /\ ComponentSound(L, n, u)
                  /\ L.proposed = K.proposed /\ L.voted = K.voted
                  /\ \A v \in Nat : t.view <= v /\ v < u.view =>
                        ReportSound(L, n, RData(Dummy, v, t.preph, t.prepv, NEWVIEW))
<1> DEFINE L == [proposed |-> K.proposed, voted |-> K.voted,
                 adopted |-> K.adopted, view |-> [K.view EXCEPT ![n] = u.view]]
<1>1. t.view = K.view[n]
      BY DEF ComponentSound
<1>2. Sound(L) /\ Grows(K, n, L)
      BY <1>1, LedgerMove
<1>3. /\ L.proposed = K.proposed /\ L.voted = K.voted
      /\ L.adopted = K.adopted /\ L.view[n] = u.view
      BY DEF Sound, LedgerType
<1> HIDE DEF L
<1>4. \A v : HashOf(L, v) = HashOf(K, v) /\ Parent(L, v) = Parent(K, v)
      BY <1>3 DEF HashOf, Parent
<1>5. ASSUME NEW v \in Nat, t.view <= v PROVE Prepared(L, n, v, t.prepv)
  <2>1. \A w \in K.adopted[n] : w \in Nat /\ w <= t.view
        BY <1>1 DEF Sound, AdoptedSound, LedgerType
  <2>2. t.view \in Nat /\ Prepared(K, n, t.view, t.prepv)
        BY <1>1 DEF ComponentSound, Sound, LedgerType
  <2>3. \A w \in K.adopted[n] : w <= v /\ ~(t.view < w) /\ w \in Nat
        BY <1>5, <2>1, <2>2
  <2>4. CASE t.prepv = 0 /\ K.adopted[n] = {}
        BY <1>3, <2>4 DEF Prepared
  <2>5. CASE \E w \in K.adopted[n] :
                 /\ t.prepv = Parent(K, w)
                 /\ \A x \in K.adopted[n] : x <= w
        BY <1>3, <1>4, <2>3, <2>5 DEF Prepared
  <2>6. QED
        BY <2>1, <2>2, <2>4, <2>5 DEF Prepared
<1>6. ComponentSound(L, n, u)
      BY <1>3, <1>4, <1>5 DEF ComponentSound
<1>7. ASSUME NEW v \in Nat, t.view <= v, v < u.view
      PROVE  ReportSound(L, n, RData(Dummy, v, t.preph, t.prepv, NEWVIEW))
  <2>1. Prepared(L, n, v, t.prepv)
        BY <1>5, <1>7
  <2>2. t.preph = HashOf(L, t.prepv) /\ t.prepv \in DOMAIN L.proposed
        BY <1>3, <1>4 DEF ComponentSound
  <2>3. RData(Dummy, v, t.preph, t.prepv, NEWVIEW).propv = v
        BY DEF RData
  <2>4. QED
        BY <1>3, <1>7, <2>1, <2>2, <2>3 DEF ReportSound
<1>8. QED
      BY <1>2, <1>3, <1>6, <1>7

(* A new-view message with a sound report is sound.                        *)
LEMMA NewviewFact ==
    ASSUME NEW K, Sound(K), NEW n \in PID, NEW v \in Nat, NEW h, NEW j \in Nat,
           NEW p, p = NEWVIEW => ReportSound(K, n, RData(Dummy, v, h, j, p)),
           NEW just, just = Just(RData(Dummy, v, h, j, p),
                                 {Signature(n, RData(Dummy, v, h, j, p))})
    PROVE  /\ NewviewSound(K, MsgNewViewCh(just))
           /\ MsgNewViewCh(just).rdata.propv = v
           /\ MsgNewViewCh(just).rdata.phase = p
BY DEF NewviewSound, MsgNewViewCh, Just, RData

(* TrustedCh::TEEsign.                                                     *)
LEMMA SignFact ==
    ASSUME NEW K, Sound(K), NEW n \in PID, NEW t, ComponentSound(K, n, t)
    PROVE  \E L : /\ Sound(L) /\ Grows(K, n, L) /\ L.proposed = K.proposed
                  /\ L.voted = K.voted
                  /\ ComponentSound(L, n, TEEsign(n, t).tee)
                  /\ LET m == MsgNewViewCh(TEEsign(n, t).just)
                     IN  /\ NewviewSound(L, m)
                         /\ m.rdata.propv = t.view /\ m.rdata.phase = t.phase
<1> DEFINE rdata == RData(Dummy, t.view, t.preph, t.prepv, t.phase)
           u == TEEsign(n, t).tee
<1>1. /\ TEEsign(n, t).just = Just(rdata, {Signature(n, rdata)})
      /\ u = increment([t EXCEPT !.signed = @ \cup {rdata}])
      BY DEF TEEsign, sign
<1>2. /\ DOMAIN t = {"lockh", "lockv", "preph", "prepv", "view", "phase", "signed"}
      /\ t.view \in Nat /\ t.prepv \in Nat /\ t.phase \in {NEWVIEW, PREPARE}
      BY DEF ComponentSound, Sound, LedgerType
<1>3. /\ DOMAIN u = DOMAIN t /\ u.preph = t.preph /\ u.prepv = t.prepv
      /\ u.phase \in {NEWVIEW, PREPARE}
      /\ t.phase = PREPARE => u.view = t.view
      /\ t.phase # PREPARE => u.view = t.view + 1
      BY <1>1, <1>2 DEF increment
<1> HIDE DEF u
<1>4. u.view \in Nat /\ t.view <= u.view
      BY <1>2, <1>3
<1>5. PICK L : /\ Sound(L) /\ Grows(K, n, L) /\ ComponentSound(L, n, u)
               /\ L.proposed = K.proposed /\ L.voted = K.voted
               /\ \A v \in Nat : t.view <= v /\ v < u.view =>
                     ReportSound(L, n, RData(Dummy, v, t.preph, t.prepv, NEWVIEW))
      BY <1>3, <1>4, ComponentMoves
<1>6. t.phase = NEWVIEW => ReportSound(L, n, rdata)
      BY <1>2, <1>3, <1>5 DEF NEWVIEW, PREPARE
<1>7. QED
      BY <1>1, <1>2, <1>5, <1>6, NewviewFact DEF u

(* What adopt makes of the prepared block, given a block and its parent.   *)
LEMMA AdoptFact ==
    ASSUME NEW t,
           DOMAIN t = {"lockh", "lockv", "preph", "prepv", "view", "phase", "signed"},
           NEW block, NEW block0, NEW block1,
           getCHash(block.just) = hash_ch(block0)
    PROVE  LET a == adopt(t, block, block0, block1)
           IN  /\ DOMAIN a = DOMAIN t
               /\ a.preph = getCHash(block.just) /\ a.prepv = getCView(block.just)
               /\ a.view = t.view /\ a.phase = t.phase
<1> DEFINE t1 == [t EXCEPT !.preph = getCHash(block.just),
                           !.prepv = getCView(block.just)]
           a  == adopt(t, block, block0, block1)
<1>1. SameHash(getCHash(block.just), hash_ch(block0))
      BY DEF SameHash
<1>2. \/ a = t1
      \/ a = [t1 EXCEPT !.lockh = getCHash(block0.just),
                        !.lockv = getCView(block0.just)]
      BY <1>1 DEF adopt
<1>3. QED
      BY <1>2

(* TrustedCh::TEEprepare adopts the parent of the block of the current     *)
(* view, and may vote for the block.                                       *)
LEMMA PrepareFact ==
    ASSUME NEW K, Sound(K), NEW n \in PID, NEW t, ComponentSound(K, n, t),
           NEW v \in DOMAIN K.proposed \ {0}, NEW block0, NEW block1,
           hash_ch(block0) = HashOf(K, Parent(K, v))
    PROVE  LET r == TEEprepare(n, t, K.proposed[v], block0, block1)
           IN  \E L : /\ Sound(L) /\ Grows(K, n, L) /\ L.proposed = K.proposed
                      /\ ComponentSound(L, n, r.tee)
                      /\ r.just.set =>
                            /\ r.just = Just(r.just.rdata,
                                             {Signature(n, r.just.rdata)})
                            /\ VoteSound(L, n, r.just.rdata)
                            /\ r.just.rdata.propv = v
                            /\ \/ r.tee.view = v /\ r.tee.phase = NEWVIEW
                               \/ r.tee.view = v + 1 /\ r.tee.phase = PREPARE
<1> DEFINE block == K.proposed[v]
           r == TEEprepare(n, t, block, block0, block1)
           a == adopt(t, block, block0, block1)
           j == Parent(K, v)
           rdata == RData(hash_ch(block), a.view, Genesis, 0, a.phase)
           d == increment([a EXCEPT !.signed = @ \cup {rdata}])
<1>1. CASE ~acceptable(t, block.just, block0.just)
  <2>1. r = Refuse(t)
        BY <1>1 DEF TEEprepare
  <2>2. r.tee = t /\ ~r.just.set
        BY <2>1 DEF Refuse, NoJust
  <2>3. Grows(K, n, K)
    <3>1. \A m \in PID : K.view[m] <= K.view[m]
          BY DEF Sound, LedgerType
    <3>2. QED
          BY <3>1 DEF Grows
  <2> HIDE DEF r
  <2>4. QED
        BY <2>2, <2>3 DEF r
<1>2. CASE acceptable(t, block.just, block0.just)
  <2>1. /\ v \in Nat /\ v # 0 /\ j \in DOMAIN K.proposed
        /\ getCHash(block.just) = HashOf(K, j) /\ getCView(block.just) = j
        BY BlockFact DEF Parent
  <2>2. t.view = v /\ v = K.view[n] /\ t.phase \in {NEWVIEW, PREPARE}
    <3>1. ParentSound(K, v)
          BY DEF Sound, ParentsSound
    <3>2. QED
          BY <1>2, <3>1 DEF acceptable, ParentSound, ComponentSound
  <2>3. DOMAIN t = {"lockh", "lockv", "preph", "prepv", "view", "phase", "signed"}
        BY DEF ComponentSound
  <2>4. /\ DOMAIN a = DOMAIN t /\ a.preph = HashOf(K, j) /\ a.prepv = j
        /\ a.view = v /\ a.phase = t.phase
        BY <2>1, <2>2, <2>3, AdoptFact
  <2>5. \/ r = [tee |-> d, just |-> Just(rdata, {Signature(n, rdata)})]
        \/ r = Refuse(a)
        BY <1>2 DEF TEEprepare, sign
  <2> HIDE DEF a
  <2>6. /\ rdata.propv = v /\ rdata.proph = HashOf(K, v) /\ rdata.phase \in Phase
        BY <2>2, <2>4 DEF RData, HashOf, Phase
  <2>7. /\ DOMAIN d = DOMAIN t /\ d.preph = HashOf(K, j) /\ d.prepv = j
        /\ \/ d.view = v /\ d.phase = NEWVIEW
           \/ d.view = v + 1 /\ d.phase = PREPARE
        BY <2>2, <2>3, <2>4 DEF increment
  <2>8. ASSUME NEW votes \in SUBSET {v}
        PROVE  \E L : /\ Sound(L) /\ Grows(K, n, L) /\ L.proposed = K.proposed
                      /\ votes \subseteq L.voted[n] /\ ComponentSound(L, n, a)
    <3> DEFINE L == [proposed |-> K.proposed, view |-> K.view,
                     adopted |-> [K.adopted EXCEPT ![n] = @ \cup {v}],
                     voted |-> [K.voted EXCEPT ![n] = @ \cup votes]]
    <3>1. /\ Sound(L) /\ Grows(K, n, L) /\ votes \subseteq L.voted[n]
          /\ Prepared(L, n, v, Parent(L, v))
          BY <2>1, <2>2, LedgerAdopt
    <3>2. L.proposed = K.proposed /\ L.view = K.view
          OBVIOUS
    <3> HIDE DEF L
    <3>3. Parent(L, v) = j /\ HashOf(L, j) = HashOf(K, j)
          BY <3>2 DEF Parent, HashOf
    <3>4. ComponentSound(L, n, a)
          BY <2>1, <2>2, <2>3, <2>4, <3>1, <3>2, <3>3 DEF ComponentSound
    <3>5. QED
          BY <3>1, <3>2, <3>4
  <2>9. CASE r = Refuse(a)
    <3>1. r.tee = a /\ ~r.just.set
          BY <2>9 DEF Refuse, NoJust
    <3>2. {} \in SUBSET {v}
          OBVIOUS
    <3> HIDE DEF r
    <3>3. QED
          BY <2>8, <3>1, <3>2 DEF r
  <2>10. CASE r = [tee |-> d, just |-> Just(rdata, {Signature(n, rdata)})]
    <3> HIDE DEF d, rdata
    <3>1. /\ r.tee = d /\ r.just = Just(rdata, {Signature(n, rdata)})
          /\ r.just.rdata = rdata
          BY <2>10 DEF Just
    <3>2. PICK L : /\ Sound(L) /\ Grows(K, n, L) /\ L.proposed = K.proposed
                   /\ v \in L.voted[n] /\ ComponentSound(L, n, a)
      <4>1. {v} \in SUBSET {v}
            OBVIOUS
      <4>2. QED
            BY <2>8, <4>1
    <3>3. /\ DOMAIN d = DOMAIN a /\ d.preph = a.preph /\ d.prepv = a.prepv
          /\ d.view \in Nat /\ a.view <= d.view /\ d.phase \in {NEWVIEW, PREPARE}
          BY <2>1, <2>4, <2>7
    <3>4. PICK M : /\ Sound(M) /\ Grows(L, n, M) /\ ComponentSound(M, n, d)
                   /\ M.proposed = L.proposed /\ M.voted = L.voted
          BY <3>2, <3>3, ComponentMoves
    <3>5. Grows(K, n, M)
          BY <3>2, <3>4, GrowsTransitive DEF Sound
    <3>6. VoteSound(M, n, rdata)
          BY <2>6, <3>2, <3>4 DEF VoteSound, HashOf
    <3> HIDE DEF r
    <3>7. QED
          BY <2>6, <2>7, <3>1, <3>2, <3>4, <3>5, <3>6 DEF r
  <2>11. QED
         BY <2>5, <2>9, <2>10
<1>3. QED
      BY <1>1, <1>2

-----------------------------------------------------------------------------
(* Whatever is sound stays so while the ledger grows.                      *)

(* A replica's vote stays that for the block of its view (RData, Sign).    *)
LEMMA VoteGrows ==
    ASSUME NEW K, Sound(K), NEW L, NEW n, Grows(K, n, L),
           NEW m \in PID, NEW rdata, VoteSound(K, m, rdata)
    PROVE  VoteSound(L, m, rdata) /\ rdata.propv \in DOMAIN K.proposed \ {0}
<1>1. rdata.propv \in K.voted[m] /\ rdata.propv \in DOMAIN K.proposed \ {0}
      BY DEF VoteSound, Sound, AdoptedSound
<1>2. HashOf(L, rdata.propv) = HashOf(K, rdata.propv)
      BY <1>1, GrowsFact
<1>3. rdata.propv \in L.voted[m]
      BY <1>1 DEF Grows
<1>4. QED
      BY <1>1, <1>2, <1>3 DEF VoteSound

(* What a component reported of a view that it has left stays true.        *)
LEMMA ReportGrows ==
    ASSUME NEW K, Sound(K), NEW L, Sound(L), NEW n, Grows(K, n, L),
           NEW m \in PID, NEW rdata, rdata.propv \in Nat, ReportSound(K, m, rdata)
    PROVE  ReportSound(L, m, rdata)
<1>1. PICK j \in DOMAIN K.proposed :
          /\ Prepared(K, m, rdata.propv, j)
          /\ rdata = RData(Dummy, rdata.propv, HashOf(K, j), j, NEWVIEW)
      BY DEF ReportSound
<1>2. rdata.propv < K.view[m]
      BY DEF ReportSound
<1>3. Prepared(L, m, rdata.propv, j)
      BY <1>1, <1>2, PreparedGrows DEF Sound
<1>4. rdata.propv < L.view[m]
  <2>1. K.view[m] \in Nat /\ L.view[m] \in Nat /\ K.view[m] <= L.view[m]
        BY DEF Grows, Sound, LedgerType
  <2>2. QED
        BY <1>2, <2>1
<1>5. j \in DOMAIN L.proposed /\ HashOf(L, j) = HashOf(K, j)
      BY GrowsFact
<1>6. QED
      BY <1>1, <1>3, <1>4, <1>5 DEF ReportSound

(* Messages of every type, in logs and on connections, stay sound.         *)
LEMMA MessagesGrow ==
    ASSUME NEW K, Sound(K), NEW L, Sound(L), NEW n, Grows(K, n, L), NEW m
    PROVE  /\ NewviewSound(K, m) => NewviewSound(L, m)
           /\ PrepareSound(K, m) => PrepareSound(L, m)
           /\ ProposalSound(K, m) => ProposalSound(L, m)
           /\ MessageSound(K, m) => MessageSound(L, m)
<1>1. NewviewSound(K, m) => NewviewSound(L, m)
      BY ReportGrows DEF NewviewSound
<1>2. PrepareSound(K, m) => PrepareSound(L, m)
      BY VoteGrows DEF PrepareSound
<1>3. ProposalSound(K, m) => ProposalSound(L, m)
      BY VoteGrows, GrowsFact DEF ProposalSound
<1>4. QED
      BY <1>1, <1>2, <1>3 DEF MessageSound

(* A certificate stays one (justNV).                                       *)
LEMMA CertGrows ==
    ASSUME NEW K, Sound(K), NEW L, NEW n, Grows(K, n, L), NEW j, CertSound(K, j)
    PROVE  CertSound(L, j)
BY CertifiedFact, GrowsFact DEF CertSound

(* The log, the connections, the blocks, justNV and the history of a       *)
(* replica stay sound.                                                     *)
LEMMA RestGrows ==
    ASSUME NEW K, Sound(K), NEW L, Sound(L), NEW n, Grows(K, n, L),
           NEW m \in PID, NEW s, BodySound(K, m, s)
    PROVE  /\ Shape(m, s) /\ LogSound(L, m, s.log) /\ OutSound(L, s.out)
           /\ BlocksSound(L, s) /\ JustSound(L, m, s) /\ ExecutedSound(L, s)
<1>0. \A v \in DOMAIN K.proposed :
         /\ v \in DOMAIN L.proposed /\ L.proposed[v] = K.proposed[v]
         /\ HashOf(L, v) = HashOf(K, v) /\ Parent(L, v) = Parent(K, v)
      BY GrowsFact
<1>1. LogSound(L, m, s.log)
      BY MessagesGrow DEF BodySound, LogSound
<1>2. OutSound(L, s.out)
  <2>1. OutSound(K, s.out)
        BY DEF BodySound
  <2>2. ASSUME NEW d \in PID, NEW k \in DOMAIN s.out[d]
        PROVE  MessageSound(L, s.out[d][k])
    <3>1. MessageSound(K, s.out[d][k])
          BY <2>1 DEF OutSound
    <3>2. QED
          BY <3>1, MessagesGrow
  <2>3. QED
        BY <2>1, <2>2 DEF OutSound
<1>3. BlocksSound(L, s)
      BY <1>0 DEF BodySound, BlocksSound
<1>4. JustSound(L, m, s)
      BY CertGrows DEF BodySound, JustSound
<1>5. ExecutedSound(L, s)
  <2>1. ExecutedSound(K, s) /\ BlocksSound(K, s)
        BY DEF BodySound
  <2>2. \A v \in DOMAIN s.jblocks : HashOf(L, v) = HashOf(K, v)
                                        /\ Parent(L, v) = Parent(K, v)
        BY <2>1, <1>0 DEF BlocksSound
  <2>3. QED
        BY <2>1, <2>2 DEF ExecutedSound
<1>6. QED
      BY <1>1, <1>2, <1>3, <1>4, <1>5 DEF BodySound

(* So a replica stays sound if it has not led a view with a new block.     *)
LEMMA BodyGrows ==
    ASSUME NEW K, Sound(K), NEW L, Sound(L), NEW n, Grows(K, n, L),
           NEW m \in PID, m # n \/ L.proposed = K.proposed,
           NEW s, BodySound(K, m, s)
    PROVE  BodySound(L, m, s)
<1>1. LeaderSound(L, m, s)
  <2>1. \A v \in DOMAIN L.proposed : getLeaderOf(v) = m => v \in DOMAIN K.proposed
        BY DEF Grows
  <2>2. QED
        BY <2>1 DEF BodySound, LeaderSound
<1>2. QED
      BY <1>1, RestGrows DEF BodySound

(* A trusted component that does not move stays sound.                     *)
LEMMA ComponentGrows ==
    ASSUME NEW K, Sound(K), NEW L, Sound(L), NEW n, Grows(K, n, L),
           NEW m \in PID, K.adopted[m] = L.adopted[m], K.view[m] = L.view[m],
           NEW t, ComponentSound(K, m, t)
    PROVE  ComponentSound(L, m, t)
<1>1. /\ t.prepv \in DOMAIN K.proposed /\ Prepared(K, m, t.view, t.prepv)
      /\ t.view = K.view[m] /\ t.view \in Int
      BY DEF ComponentSound, Sound, LedgerType
<1>2. Prepared(L, m, t.view, t.prepv)
      BY <1>1, PreparedGrows DEF Sound
<1>3. t.prepv \in DOMAIN L.proposed /\ HashOf(L, t.prepv) = HashOf(K, t.prepv)
      BY <1>1, GrowsFact
<1>4. QED
      BY <1>1, <1>2, <1>3 DEF ComponentSound

(* The replicas that do not move are sound with respect to what the others *)
(* enter in the ledger.                                                    *)
LEMMA OthersGrow ==
    ASSUME NEW K, Sound(K), NEW L, Sound(L), NEW n, Grows(K, n, L),
           NEW m \in PID, m # n, NEW s, ReplicaSound(K, m, s)
    PROVE  ReplicaSound(L, m, s)
<1>1. BodySound(L, m, s)
      BY BodyGrows DEF ReplicaSound
<1>2. ComponentSound(L, m, s.tp)
      BY ComponentGrows DEF ReplicaSound, Grows
<1>3. QED
      BY <1>1, <1>2 DEF ReplicaSound

(* Nothing may have been entered, and more later.                          *)
LEMMA LeadsWithout ==
    ASSUME NEW K, Sound(K), NEW n, NEW s, ReplicaSound(K, n, s)
    PROVE  Leads(K, n, s)
<1>1. Grows(K, n, K)
  <2>1. \A m \in PID : K.view[m] <= K.view[m]
        BY DEF Sound, LedgerType
  <2>2. QED
        BY <2>1 DEF Grows
<1>2. QED
      BY <1>1 DEF Leads

(* What a grown ledger leads to, the ledger before it leads to.            *)
LEMMA LeadsOn ==
    ASSUME NEW K, Sound(K), NEW n, NEW L, Sound(L), Grows(K, n, L), NEW s,
           Leads(L, n, s)
    PROVE  Leads(K, n, s)
<1>1. PICK M : Sound(M) /\ Grows(L, n, M) /\ ReplicaSound(M, n, s)
      BY DEF Leads
<1>2. Grows(K, n, M)
      BY <1>1, GrowsTransitive DEF Sound
<1>3. QED
      BY <1>1, <1>2 DEF Leads

-----------------------------------------------------------------------------
(* The parts of a handler: sending, logging, moving the component.         *)

(* The fields that the invariant says little of: they have any value, but  *)
(* no timer is armed, no call pending and no replica back before its start *)
(* if it was not before.                                                   *)
Agree(s, u) ==
    /\ DOMAIN u = Fields
    /\ u.myid = s.myid /\ u.view = s.view
    /\ u.transactions = s.transactions /\ u.fromClient = s.fromClient
    /\ u.executed = s.executed /\ u.out = s.out /\ u.log = s.log
    /\ u.jblocks = s.jblocks /\ u.justNV = s.justNV
    /\ u.pending \in {s.pending, "none"} /\ u.timer \in {s.timer, FALSE}
    /\ s.started => u.started

(* A change of such fields keeps a replica sound.                          *)
LEMMA AgreeFact ==
    ASSUME NEW K, NEW n, NEW s, BodySound(K, n, s), NEW u, Agree(s, u)
    PROVE  BodySound(K, n, u)
<1>1. Shape(n, u)
      BY DEF Agree, BodySound, Shape
<1>2. JustSound(K, n, u)
      BY DEF Agree, BodySound, JustSound
<1>3. BlocksSound(K, u) /\ LeaderSound(K, n, u) /\ ExecutedSound(K, u)
      BY DEF Agree, BodySound, BlocksSound, LeaderSound, ExecutedSound
<1>4. QED
      BY <1>1, <1>2, <1>3 DEF Agree, BodySound

(* What sending and logging leave alone.                                   *)
Like(s, u) ==
    /\ DOMAIN u = Fields
    /\ u.myid = s.myid /\ u.view = s.view
    /\ u.transactions = s.transactions /\ u.fromClient = s.fromClient
    /\ u.executed = s.executed /\ u.jblocks = s.jblocks
    /\ u.justNV = s.justNV /\ u.pending = s.pending /\ u.timer = s.timer
    /\ u.started = s.started

(* With a sound log and sound connections the replica stays sound.         *)
LEMMA LikeFact ==
    ASSUME NEW K, NEW n, NEW s, BodySound(K, n, s), NEW u, Like(s, u),
           LogSound(K, n, u.log), OutSound(K, u.out)
    PROVE  BodySound(K, n, u)
<1>1. Shape(n, u)
      BY DEF Like, BodySound, Shape
<1>2. JustSound(K, n, u)
      BY DEF Like, BodySound, JustSound
<1>3. BlocksSound(K, u) /\ LeaderSound(K, n, u) /\ ExecutedSound(K, u)
      BY DEF Like, BodySound, BlocksSound, LeaderSound, ExecutedSound
<1>4. QED
      BY <1>1, <1>2, <1>3 DEF BodySound

(* multicast_msg.                                                          *)
LEMMA SendFact ==
    ASSUME NEW K, NEW n \in PID, NEW s, BodySound(K, n, s), NEW R, NEW m,
           MessageSound(K, m)
    PROVE  LET u == send(s, R, m)
           IN  BodySound(K, n, u) /\ Like(s, u) /\ u.tp = s.tp /\ u.log = s.log
<1> DEFINE o == [d \in PID |-> IF d \in R THEN Append(s.out[d], m) ELSE s.out[d]]
           u == [s EXCEPT !.out = o]
<1>1. u = send(s, R, m)
      BY DEF send
<1>2. DOMAIN s = Fields
      BY DEF BodySound, Shape
<1>3. OutSound(K, o)
  <2>1. ASSUME NEW d \in PID
        PROVE  /\ \E Msgs : o[d] \in Seq(Msgs)
               /\ \A k \in DOMAIN o[d] : MessageSound(K, o[d][k])
    <3>1. PICK Msgs : s.out[d] \in Seq(Msgs)
          BY DEF BodySound, OutSound
    <3>2. \A k \in DOMAIN s.out[d] : MessageSound(K, s.out[d][k])
          BY DEF BodySound, OutSound
    <3>3. CASE d \in R
      <4> DEFINE q == s.out[d]
                 a == Append(q, m)
      <4>1. q \in Seq(Msgs \cup {m})
            BY <3>1
      <4>2. /\ a \in Seq(Msgs \cup {m}) /\ DOMAIN a = 1 .. Len(q) + 1
            /\ DOMAIN q = 1 .. Len(q) /\ Len(q) \in Nat
            /\ \A k \in DOMAIN q : a[k] = q[k]
            /\ a[Len(q) + 1] = m
            BY <4>1
      <4>3. o[d] = a
            BY <3>3
      <4> HIDE DEF q, a, o
      <4>4. \A k \in DOMAIN a : k \in DOMAIN q \/ k = Len(q) + 1
            BY <4>2
      <4>5. \A k \in DOMAIN a : MessageSound(K, a[k])
            BY <3>2, <4>2, <4>4 DEF q
      <4>6. QED
            BY <4>2, <4>3, <4>5
    <3>4. CASE d \notin R
          BY <3>1, <3>2, <3>4
    <3>5. QED
          BY <3>3, <3>4
  <2>2. DOMAIN o = PID
        OBVIOUS
  <2> HIDE DEF o
  <2>3. QED
        BY <2>1, <2>2 DEF OutSound
<1> HIDE DEF o
<1>4. Like(s, u) /\ u.out = o /\ u.tp = s.tp /\ u.log = s.log
      BY <1>2 DEF Fields, Like
<1> HIDE DEF u
<1>5. LogSound(K, n, u.log)
      BY <1>4 DEF BodySound
<1>6. QED
      BY <1>1, <1>3, <1>4, <1>5, LikeFact

(* A change of the log.                                                    *)
LEMMA LogFact ==
    ASSUME NEW K, NEW n \in PID, NEW s, BodySound(K, n, s),
           NEW log, LogSound(K, n, log)
    PROVE  LET u == [s EXCEPT !.log = log]
           IN  BodySound(K, n, u) /\ Like(s, u) /\ u.tp = s.tp /\ u.log = log
<1> DEFINE u == [s EXCEPT !.log = log]
<1>1. Like(s, u) /\ u.tp = s.tp /\ u.log = log /\ u.out = s.out
      BY DEF BodySound, Shape, Fields, Like
<1> HIDE DEF u
<1>2. OutSound(K, u.out)
      BY <1>1 DEF BodySound
<1>3. QED
      BY <1>1, <1>2, LikeFact DEF u

LogFields == {"newviewsCh", "preparesCh", "ldrpreparesCh"}

(* A message of one signature has one signer.                              *)
LEMMA SingleSigned ==
    ASSUME NEW m, NEW i \in PID, NEW x, m.signs = {Signature(i, x)}
    PROVE  Signed(m) /\ getSigners(m.signs) = {i}
<1>1. getSigners(m.signs) = {i}
      BY DEF getSigners, Signature
<1>2. IsFiniteSet(m.signs)
      BY FS_Singleton
<1>3. QED
      BY <1>1, <1>2 DEF Signed

(* The views under which the messages are filed.                           *)
LEMMA ViewOfFact ==
    /\ \A K, m : NewviewSound(K, m) => ViewOf(m) = m.rdata.propv
    /\ \A K, m : PrepareSound(K, m) => ViewOf(m) = m.rdata.propv
    /\ \A K, m : ProposalSound(K, m) => ViewOf(m) = m.block.view
<1>1. \A m : m.type = "newview_ch" => ViewOf(m) = m.rdata.propv
      BY DEF ViewOf
<1>2. \A m : m.type = "prepare_ch" => ViewOf(m) = m.rdata.propv
      BY DEF ViewOf
<1>3. \A m : m.type = "ldrprepare_ch" => ViewOf(m) = m.block.view
      BY DEF ViewOf
<1>4. QED
      BY <1>1, <1>2, <1>3 DEF NewviewSound, PrepareSound, ProposalSound

(* storeNvCh.                                                              *)
LEMMA StoreNvFact ==
    ASSUME NEW K, NEW n \in PID, NEW s, BodySound(K, n, s), NEW m,
           NewviewSound(K, m),
           getLeaderOf(m.rdata.propv + 1) = n => m.rdata.phase = NEWVIEW
    PROVE  LET u == storeNvCh(s, m)
           IN  /\ BodySound(K, n, u) /\ Like(s, u) /\ u.tp = s.tp
               /\ u.log.newviewsCh = store(s.log.newviewsCh, m).msgs
<1> DEFINE r == store(s.log.newviewsCh, m).msgs
           l == [s.log EXCEPT !.newviewsCh = r]
<1>1. LogSound(K, n, s.log) /\ DOMAIN s.log = LogFields
      BY DEF BodySound, LogSound, LogFields
<1>2. IsFiniteSet(r) /\ \A k \in r : k \in s.log.newviewsCh \/ k = m
      BY <1>1, StoreFact DEF LogSound, LogFields
<1>3. storeNvCh(s, m) = [s EXCEPT !.log = l]
      BY DEF storeNvCh
<1> HIDE DEF r
<1>4. /\ DOMAIN l = LogFields /\ l.newviewsCh = r
      /\ l.preparesCh = s.log.preparesCh
      /\ l.ldrpreparesCh = s.log.ldrpreparesCh
      BY <1>1 DEF LogFields
<1> HIDE DEF l
<1>5. LogSound(K, n, l)
      BY <1>1, <1>2, <1>4 DEF LogSound, LogFields
<1>6. QED
      BY <1>3, <1>4, <1>5, LogFact DEF r

(* storeLdrPrepCh.                                                         *)
LEMMA StoreLdrPrepFact ==
    ASSUME NEW K, NEW n \in PID, NEW s, BodySound(K, n, s), NEW m,
           ProposalSound(K, m)
    PROVE  LET u == storeLdrPrepCh(s, m)
           IN  BodySound(K, n, u) /\ Like(s, u) /\ u.tp = s.tp
<1> DEFINE r == store(s.log.ldrpreparesCh, m).msgs
           l == [s.log EXCEPT !.ldrpreparesCh = r]
<1>1. LogSound(K, n, s.log) /\ DOMAIN s.log = LogFields
      BY DEF BodySound, LogSound, LogFields
<1>2. IsFiniteSet(r) /\ \A k \in r : k \in s.log.ldrpreparesCh \/ k = m
      BY <1>1, StoreFact DEF LogSound, LogFields
<1>3. storeLdrPrepCh(s, m) = [s EXCEPT !.log = l]
      BY DEF storeLdrPrepCh
<1> HIDE DEF r
<1>4. /\ DOMAIN l = LogFields /\ l.ldrpreparesCh = r
      /\ l.preparesCh = s.log.preparesCh
      /\ l.newviewsCh = s.log.newviewsCh
      BY <1>1 DEF LogFields
<1> HIDE DEF l
<1>5. LogSound(K, n, l)
      BY <1>1, <1>2, <1>4 DEF LogSound, LogFields
<1>6. QED
      BY <1>3, <1>5, LogFact

(* storePrepCh: the log keeps one vote of each signer and view.            *)
LEMMA StorePrepFact ==
    ASSUME NEW K, NEW n \in PID, NEW s, BodySound(K, n, s), NEW m,
           PrepareSound(K, m)
    PROVE  LET u == storePrepCh(s, m)
           IN  BodySound(K, n, u) /\ Like(s, u) /\ u.tp = s.tp
<1> DEFINE msgs == s.log.preparesCh
           r == store(msgs, m).msgs
           l == [s.log EXCEPT !.preparesCh = r]
<1>1. LogSound(K, n, s.log) /\ DOMAIN s.log = LogFields /\ IsFiniteSet(msgs)
      BY DEF BodySound, LogSound, LogFields
<1>2. IsFiniteSet(r) /\ (r = msgs \/ r = msgs \cup {m})
      BY <1>1, StoreFact
<1>3. storePrepCh(s, m) = [s EXCEPT !.log = l]
      BY DEF storePrepCh
<1>4. PICK i \in PID : m.signs = {Signature(i, m.rdata)}
      BY DEF PrepareSound
<1>5. ViewOf(m) = m.rdata.propv /\ \A k \in msgs : ViewOf(k) = k.rdata.propv
      BY <1>1, ViewOfFact DEF LogSound
<1>6. r # msgs => \A k \in msgs : k.rdata.propv = m.rdata.propv
                                      => i \notin getSigners(k.signs)
  <2>1. r # msgs => \A k \in InView(msgs, ViewOf(m)) : i \notin getSigners(k.signs)
        BY <1>1, <1>4, StoreSingle
  <2>2. \A k \in msgs : k.rdata.propv = m.rdata.propv
                             => k \in InView(msgs, ViewOf(m))
        BY <1>5 DEF InView
  <2>3. QED
        BY <2>1, <2>2
<1>7. getSigners(m.signs) = {i}
      BY <1>4, SingleSigned
<1> HIDE DEF r
<1>8. \A m1, m2 \in r : /\ m1.rdata.propv = m2.rdata.propv
                        /\ getSigners(m1.signs) = getSigners(m2.signs)
                        => m1 = m2
      BY <1>1, <1>2, <1>6, <1>7 DEF LogSound
<1>9. \A k \in r : PrepareSound(K, k)
      BY <1>1, <1>2 DEF LogSound
<1>10. /\ DOMAIN l = LogFields /\ l.preparesCh = r
       /\ l.newviewsCh = s.log.newviewsCh
       /\ l.ldrpreparesCh = s.log.ldrpreparesCh
       BY <1>1 DEF LogFields
<1> HIDE DEF l, msgs
<1>11. LogSound(K, n, l)
       BY <1>1, <1>2, <1>8, <1>9, <1>10 DEF LogSound, LogFields
<1>12. QED
       BY <1>3, <1>11, LogFact

(* The trusted component moves on.                                         *)
LEMMA UpdateFact ==
    ASSUME NEW K, NEW n \in PID, NEW s, BodySound(K, n, s), NEW t
    PROVE  LET u == [s EXCEPT !.tp = t]
           IN  BodySound(K, n, u) /\ Like(s, u) /\ u.tp = t /\ u.log = s.log
<1> DEFINE u == [s EXCEPT !.tp = t]
<1>1. DOMAIN s = Fields
      BY DEF BodySound, Shape
<1>2. Agree(s, u) /\ u.tp = t
      BY <1>1 DEF Agree, Fields
<1>3. Like(s, u) /\ u.log = s.log
      BY <1>1 DEF Like, Fields
<1> HIDE DEF u
<1>4. QED
      BY <1>2, <1>3, AgreeFact DEF u

-----------------------------------------------------------------------------
(* What the trusted component is asked for.                                *)

(* Consecutive views have different leaders (getLeaderOf).                 *)
LEMMA NextLeader ==
    ASSUME NEW v \in Nat
    PROVE  /\ getLeaderOf(v) \in PID
           /\ getLeaderOf(v) # getLeaderOf(v + 1)
<1> DEFINE r == v % Total
<1>1. Total \in Nat /\ Total >= 2
  <2>1. NumFaults \in Nat /\ NumFaults >= 1 /\ ConstFactor \in Nat /\ ConstFactor >= 2
        BY FaultAssumption
  <2>2. ConstFactor * NumFaults \in Nat /\ ConstFactor * NumFaults >= 1
        BY <2>1
  <2>3. QED
        BY <2>2 DEF Total
<1>2. r \in 0 .. Total - 1
      BY <1>1
<1>3. (r + 1) % Total = (v + 1) % Total
      BY QuorumSizes, NextRemainder
<1> HIDE DEF r
<1>4. CASE r + 1 = Total
  <2>1. (r + 1) % Total = 0
        BY <1>1, <1>4
  <2>2. QED
        BY <1>1, <1>2, <1>3, <1>4, <2>1 DEF getLeaderOf, PID, r
<1>5. CASE r + 1 < Total
  <2>1. (r + 1) % Total = r + 1
        BY <1>1, <1>2, <1>5
  <2>2. QED
        BY <1>1, <1>2, <1>3, <2>1 DEF getLeaderOf, PID, r
<1>6. QED
      BY <1>1, <1>2, <1>4, <1>5

(* The two calls of voteCh: TEEprepare for the block of a view, and TEEsign *)
(* for a new-view message.  If the next leader is the replica itself, the  *)
(* message that it logs is for that view.                                  *)
LEMMA VoteFact ==
    ASSUME NEW K, Sound(K), NEW n \in PID, NEW t, ComponentSound(K, n, t),
           NEW v \in DOMAIN K.proposed \ {0}, NEW block0, NEW block1,
           hash_ch(block0) = HashOf(K, Parent(K, v))
    PROVE  LET r1 == TEEprepare(n, t, K.proposed[v], block0, block1)
               r2 == TEEsign(n, r1.tee)
               m  == MsgNewViewCh(r2.just)
           IN  \E L : /\ Sound(L) /\ Grows(K, n, L) /\ L.proposed = K.proposed
                      /\ ComponentSound(L, n, r2.tee) /\ NewviewSound(L, m)
                      /\ r1.just.set =>
                            /\ r1.just = Just(r1.just.rdata,
                                              {Signature(n, r1.just.rdata)})
                            /\ VoteSound(L, n, r1.just.rdata)
                            /\ r1.just.rdata.propv = v
                            /\ getLeaderOf(v + 1) = getLeaderOf(m.rdata.propv + 1)
                                  => m.rdata.phase = NEWVIEW
<1> DEFINE r1 == TEEprepare(n, t, K.proposed[v], block0, block1)
           r2 == TEEsign(n, r1.tee)
           m  == MsgNewViewCh(r2.just)
<1>1. PICK L : /\ Sound(L) /\ Grows(K, n, L) /\ L.proposed = K.proposed
               /\ ComponentSound(L, n, r1.tee)
               /\ r1.just.set =>
                     /\ r1.just = Just(r1.just.rdata,
                                       {Signature(n, r1.just.rdata)})
                     /\ VoteSound(L, n, r1.just.rdata)
                     /\ r1.just.rdata.propv = v
                     /\ \/ r1.tee.view = v /\ r1.tee.phase = NEWVIEW
                        \/ r1.tee.view = v + 1 /\ r1.tee.phase = PREPARE
      BY PrepareFact
<1> HIDE DEF r1
<1>2. PICK M : /\ Sound(M) /\ Grows(L, n, M) /\ M.proposed = L.proposed
               /\ M.voted = L.voted /\ ComponentSound(M, n, r2.tee)
               /\ NewviewSound(M, m)
               /\ m.rdata.propv = r1.tee.view /\ m.rdata.phase = r1.tee.phase
      BY <1>1, SignFact
<1> HIDE DEF r2, m
<1>3. Grows(K, n, M)
      BY <1>1, <1>2, GrowsTransitive DEF Sound
<1>4. ASSUME r1.just.set
      PROVE  getLeaderOf(v + 1) = getLeaderOf(m.rdata.propv + 1)
                 => m.rdata.phase = NEWVIEW
  <2>1. v \in Nat
        BY DEF Sound, LedgerType
  <2>2. getLeaderOf(v + 1) # getLeaderOf((v + 1) + 1)
        BY <2>1, NextLeader
  <2>3. QED
        BY <1>1, <1>2, <1>4, <2>2
<1>5. \A rd : VoteSound(L, n, rd) => VoteSound(M, n, rd)
      BY <1>1, <1>2, VoteGrows
<1>6. QED
      BY <1>1, <1>2, <1>3, <1>4, <1>5 DEF r1, r2, m

(* The loop of startNewViewCh ends with a new-view message.                *)
LEMMA SignUpToFact ==
    ASSUME NEW K, Sound(K), NEW n \in PID, NEW t, ComponentSound(K, n, t),
           NEW v \in Nat
    PROVE  LET r == TEEsignUpTo(n, t, v)
               m == MsgNewViewCh(r.just)
           IN  \E L : /\ Sound(L) /\ Grows(K, n, L) /\ L.proposed = K.proposed
                      /\ ComponentSound(L, n, r.tee) /\ NewviewSound(L, m)
                      /\ m.rdata.phase = NEWVIEW
<1> DEFINE last == lastStampCh(t, v)
           At(c) == RData(Dummy, (c + 1) \div 2, t.preph, t.prepv,
                          IF c % 2 = 0 THEN NEWVIEW ELSE PREPARE)
           signed == {At(c) : c \in Stamp(t.view, t.phase) .. last}
           r == TEEsignUpTo(n, t, v)
           w == last \div 2
<1>1. /\ DOMAIN t = {"lockh", "lockv", "preph", "prepv", "view", "phase", "signed"}
      /\ t.view \in Nat /\ t.prepv \in Nat /\ t.phase \in {NEWVIEW, PREPARE}
      BY DEF ComponentSound, Sound, LedgerType
<1>2. /\ r.tee = [t EXCEPT !.view = (last + 2) \div 2,
                           !.phase = IF last % 2 = 0 THEN PREPARE ELSE NEWVIEW,
                           !.signed = @ \cup signed]
      /\ r.just = Just(At(last), {Signature(n, At(last))})
      BY DEF TEEsignUpTo
<1>3. \E x \in Nat : last = 2 * x /\ t.view <= x
  <2>1. Stamp(t.view, t.phase) = IF t.phase = PREPARE THEN 2 * t.view - 1
                                 ELSE 2 * t.view
        BY <1>1 DEF Stamp
  <2>2. Stamp(v, NEWVIEW) = 2 * v
        BY DEF Stamp, NEWVIEW, PREPARE
  <2>3. last \in {2 * v, 2 * t.view}
        BY <1>1, <2>1, <2>2 DEF lastStampCh, NEWVIEW, PREPARE
  <2>4. 2 * t.view <= last
        BY <1>1, <2>1, <2>2, <2>3 DEF lastStampCh, NEWVIEW, PREPARE
  <2>5. QED
        BY <1>1, <2>3, <2>4
<1> HIDE DEF last, r, signed
<1>4. /\ w \in Nat /\ t.view <= w /\ last % 2 = 0
      /\ (last + 2) \div 2 = w + 1 /\ (last + 1) \div 2 = w
      BY <1>1, <1>3
<1> HIDE DEF w
<1>5. At(last) = RData(Dummy, w, t.preph, t.prepv, NEWVIEW)
      BY <1>4
<1> HIDE DEF At
<1>6. /\ DOMAIN r.tee = DOMAIN t /\ r.tee.preph = t.preph
      /\ r.tee.prepv = t.prepv /\ r.tee.view = w + 1 /\ r.tee.phase = PREPARE
      BY <1>1, <1>2, <1>4
<1>7. /\ r.tee.view \in Nat /\ t.view <= r.tee.view
      /\ r.tee.phase \in {NEWVIEW, PREPARE}
      BY <1>1, <1>4, <1>6
<1>8. PICK L : /\ Sound(L) /\ Grows(K, n, L) /\ ComponentSound(L, n, r.tee)
               /\ L.proposed = K.proposed
               /\ \A x \in Nat : t.view <= x /\ x < r.tee.view =>
                     ReportSound(L, n, RData(Dummy, x, t.preph, t.prepv, NEWVIEW))
      BY <1>1, <1>6, <1>7, ComponentMoves
<1>9. ReportSound(L, n, At(last))
      BY <1>4, <1>5, <1>6, <1>8
<1>10. /\ NewviewSound(L, MsgNewViewCh(r.just))
       /\ MsgNewViewCh(r.just).rdata.phase = NEWVIEW
       BY <1>1, <1>2, <1>4, <1>5, <1>8, <1>9, NewviewFact
<1>11. QED
       BY <1>8, <1>10 DEF r

-----------------------------------------------------------------------------
(* Changing views.                                                         *)

(* The next view, entered with a justification j and a tail call: that     *)
(* which the replica has, or a certificate of the view that it leaves      *)
(* (nextView).                                                             *)
LEMMA EnterViewFact ==
    ASSUME NEW K, Sound(K), NEW n \in PID, NEW s, BodySound(K, n, s), s.view # 0,
           NEW j, NEW call,
           \/ j = s.justNV /\ call # "prepareCh"
           \/ /\ j.set /\ j.rdata.propv = s.view /\ CertSound(K, j)
              /\ getLeaderOf(s.view + 1) = n
    PROVE  LET u == nextView([s EXCEPT !.justNV = j], call)
           IN  BodySound(K, n, u) /\ u.tp = s.tp
<1> DEFINE u == nextView([s EXCEPT !.justNV = j], call)
<1>1. Shape(n, s) /\ DOMAIN s = Fields /\ s.view \in Nat
      BY DEF BodySound, Shape
<1>2. /\ DOMAIN u = Fields
      /\ u.view = s.view + 1 /\ u.timer = TRUE /\ u.pending = call
      /\ u.justNV = j /\ u.tp = s.tp /\ u.started = s.started
      /\ u.myid = s.myid /\ u.transactions = s.transactions
      /\ u.fromClient = s.fromClient /\ u.executed = s.executed
      /\ u.jblocks = s.jblocks /\ u.out = s.out /\ u.log = s.log
      BY <1>1 DEF nextView, setTimer, Fields
<1> HIDE DEF u
<1>3. Shape(n, u)
      BY <1>1, <1>2 DEF Shape
<1>4. \A v \in DOMAIN s.jblocks : v \in Nat /\ v <= s.view /\ v <= u.view
                                      /\ v # u.view
  <2>1. \A v \in DOMAIN s.jblocks : v \in Nat /\ v <= s.view
        BY DEF BodySound, BlocksSound, Sound, LedgerType
  <2>2. QED
        BY <1>1, <1>2, <2>1
<1>5. BlocksSound(K, u) /\ LeaderSound(K, n, u)
      BY <1>2, <1>4 DEF BodySound, BlocksSound, LeaderSound
<1>6. ExecutedSound(K, u)
  <2>1. \A k \in DOMAIN s.executed : /\ s.executed[k].view \in DOMAIN s.jblocks
                                     /\ s.executed[k].view < s.view
        BY DEF BodySound, ExecutedSound
  <2>2. \A k \in DOMAIN s.executed : s.executed[k].view < u.view
        BY <1>1, <1>2, <1>4, <2>1
  <2>3. QED
        BY <1>2, <2>2 DEF BodySound, ExecutedSound
<1>7. JustSound(K, n, u)
  <2>1. CASE j = s.justNV /\ call # "prepareCh"
    <3>1. j.set => j.rdata.propv \in Nat /\ j.rdata.propv < s.view
          BY <2>1 DEF BodySound, JustSound
    <3>2. j.set => j.rdata.propv < u.view /\ j.rdata.propv + 1 # u.view
          BY <1>1, <1>2, <3>1
    <3>3. QED
          BY <1>2, <2>1, <3>1, <3>2 DEF JustSound
  <2>2. CASE /\ j.set /\ j.rdata.propv = s.view /\ CertSound(K, j)
             /\ getLeaderOf(s.view + 1) = n
    <3>1. u.view \notin DOMAIN u.jblocks
          BY <1>2, <1>4
    <3>2. QED
          BY <1>1, <1>2, <2>2, <3>1 DEF JustSound
  <2>3. QED
        BY <2>1, <2>2
<1>8. QED
      BY <1>2, <1>3, <1>5, <1>6, <1>7 DEF BodySound, u

(* A view that ends without a certificate leaves justNV as it is.          *)
LEMMA NextViewFact ==
    ASSUME NEW K, Sound(K), NEW n \in PID, NEW s, BodySound(K, n, s), s.view # 0,
           NEW call, call # "prepareCh"
    PROVE  BodySound(K, n, nextView(s, call)) /\ nextView(s, call).tp = s.tp
<1>1. DOMAIN s = Fields
      BY DEF BodySound, Shape
<1>2. nextView(s, call) = nextView([s EXCEPT !.justNV = s.justNV], call)
      BY <1>1 DEF nextView, setTimer, Fields
<1>3. QED
      BY <1>2, EnterViewFact

(* The votes of a view that getPrepare finds certify its block: they are   *)
(* of different replicas.                                                  *)
LEMMA VotesCertify ==
    ASSUME NEW K, Sound(K), NEW n \in PID, NEW log, LogSound(K, n, log),
           NEW v, Cardinality(get(log.preparesCh, v, QSize)) = QSize
    PROVE  /\ Certified(K, v)
           /\ getSigners(get(log.preparesCh, v, QSize)) \subseteq PID
<1> DEFINE msgs   == log.preparesCh
           here   == InView(msgs, v)
           signs  == get(msgs, v, QSize)
           voters == {i \in PID : v \in K.voted[i]}
           f      == [m \in here |-> CHOOSE i : m.signs = {Signature(i, m.rdata)}]
<1>1. /\ IsFiniteSet(msgs) /\ \A m \in msgs : PrepareSound(K, m)
      /\ \A m1, m2 \in msgs : /\ m1.rdata.propv = m2.rdata.propv
                              /\ getSigners(m1.signs) = getSigners(m2.signs)
                              => m1 = m2
      BY DEF LogSound
<1> HIDE DEF msgs
<1>2. \A m \in here : m \in msgs /\ m.rdata.propv = v /\ PrepareSound(K, m)
      BY <1>1, ViewOfFact DEF InView
<1>3. \A m \in here : /\ \E i \in PID : m.signs = {Signature(i, m.rdata)}
                                        /\ v \in K.voted[i]
  <2>1. \A m \in here : \E i \in PID : m.signs = {Signature(i, m.rdata)}
                                       /\ VoteSound(K, i, m.rdata)
        BY <1>2 DEF PrepareSound
  <2>2. QED
        BY <1>2, <2>1 DEF VoteSound
<1>4. \A m \in here : /\ m.signs = {Signature(f[m], m.rdata)}
                      /\ f[m] \in PID /\ v \in K.voted[f[m]]
                      /\ getSigners(m.signs) = {f[m]}
  <2>1. ASSUME NEW m \in here
        PROVE  /\ m.signs = {Signature(f[m], m.rdata)}
               /\ f[m] \in PID /\ v \in K.voted[f[m]]
    <3>1. PICK i \in PID : m.signs = {Signature(i, m.rdata)} /\ v \in K.voted[i]
          BY <1>3
    <3>2. f[m] = CHOOSE k : m.signs = {Signature(k, m.rdata)}
          OBVIOUS
    <3>3. m.signs = {Signature(f[m], m.rdata)}
          BY <3>1, <3>2
    <3> HIDE DEF f
    <3>4. Signature(f[m], m.rdata) = Signature(i, m.rdata)
          BY <3>1, <3>3
    <3>5. f[m] = i
          BY <3>4 DEF Signature
    <3>6. QED
          BY <3>1, <3>3, <3>5
  <2> HIDE DEF f
  <2>2. QED
        BY <2>1, SingleSigned
<1> HIDE DEF f
<1>5. IsFiniteSet(voters) /\ Cardinality(voters) \in Nat
      BY ReplicasFinite
<1>6. Cardinality(here) <= Cardinality(voters)
  <2>1. f \in [here -> voters]
        BY <1>4 DEF f
  <2>2. ASSUME NEW m1 \in here, NEW m2 \in here, f[m1] = f[m2] PROVE m1 = m2
    <3>1. getSigners(m1.signs) = getSigners(m2.signs)
          BY <1>4, <2>2
    <3>2. QED
          BY <1>1, <1>2, <3>1
  <2> HIDE DEF here, voters
  <2>3. f \in Injection(here, voters)
        BY <2>1, <2>2 DEF Injection, IsInjective
  <2>4. QED
        BY <1>5, <2>3, FS_Injection
<1>7. Cardinality(here) >= QSize /\ Cardinality(here) \in Nat
  <2>1. \A m \in msgs : \E g : m.signs = {g}
    <3>1. ASSUME NEW m \in msgs PROVE \E g : m.signs = {g}
      <4>1. \E i \in PID : m.signs = {Signature(i, m.rdata)}
            BY <1>1 DEF PrepareSound
      <4>2. QED
            BY <4>1
    <3>2. QED
          BY <3>1
  <2>2. QED
        BY <1>1, <2>1, GetSingles, InViewFinite DEF msgs
<1>8. Cardinality(voters) >= QSize
      BY <1>5, <1>6, <1>7, QuorumSizes
<1>9. \A g \in signs : g.signer \in PID
  <2>1. \A g \in signs : \E m \in here : g \in m.signs
        BY GetFact
  <2>2. QED
        BY <1>4, <2>1 DEF Signature
<1>10. QED
       BY <1>8, <1>9 DEF Certified, getSigners, msgs

(* checkNewJustCh: the next leader makes a certificate and enters its      *)
(* view, or waits.                                                         *)
LEMMA CheckNewJustFact ==
    ASSUME NEW K, Sound(K), NEW n \in PID, NEW s, BodySound(K, n, s), s.view # 0,
           getLeaderOf(s.view + 1) = n,
           NEW i \in PID, NEW rdata, VoteSound(K, i, rdata), rdata.propv = s.view
    PROVE  LET u == checkNewJustCh(s, rdata)
           IN  BodySound(K, n, u) /\ u.tp = s.tp
<1> DEFINE signs == get(s.log.preparesCh, rdata.propv, QSize)
           j == Just(rdata, signs)
<1>1. CASE Cardinality(signs) # QSize
  <2>1. checkNewJustCh(s, rdata) = s
        BY <1>1 DEF checkNewJustCh, getPrepareCh
  <2>2. QED
        BY <2>1
<1>2. CASE Cardinality(signs) = QSize
  <2>1. Certified(K, rdata.propv) /\ getSigners(signs) \subseteq PID
        BY <1>2, VotesCertify DEF BodySound
  <2>2. checkNewJustCh(s, rdata) = nextView([s EXCEPT !.justNV = j], "prepareCh")
        BY <1>2 DEF checkNewJustCh, getPrepareCh
  <2>3. j.set = TRUE /\ j.rdata = rdata /\ j.signs = signs
        BY DEF Just
  <2> HIDE DEF j, signs
  <2>4. CertSound(K, j)
        BY <1>2, <2>1, <2>3 DEF CertSound, VoteSound
  <2>5. QED
        BY <2>2, <2>3, <2>4, EnterViewFact
<1>3. QED
      BY <1>1, <1>2

-----------------------------------------------------------------------------
(* Execution.                                                              *)

(* One step of the walk down the justifications from the block of view u,  *)
(* f being what lies below (tryExecuteCh).                                 *)
Walk(s, f, u) ==
    IF u \notin DOMAIN s.jblocks
    THEN [found |-> FALSE, views |-> <<>>]
    ELSE IF s.jblocks[u].executed
    THEN [found |-> TRUE, views |-> <<>>]
    ELSE IF u = 0
    THEN [found |-> TRUE, views |-> <<0>>]
    ELSE LET below == f[getCView(s.jblocks[u].just)]
         IN  [below EXCEPT !.views = Append(@, u)]

IsWalk(s, f, v) == f = [u \in 0 .. v |-> Walk(s, f, u)]

(* Each block is built on one of an earlier view.                          *)
Downward(s) ==
    \A u \in DOMAIN s.jblocks \ {0} :
        /\ getCView(s.jblocks[u].just) \in Nat
        /\ getCView(s.jblocks[u].just) < u

(* A step depends only on what is below.                                   *)
LEMMA WalkBelow ==
    ASSUME NEW s, Downward(s), NEW u \in Nat, NEW f, NEW g,
           \A w \in Nat : w < u => f[w] = g[w]
    PROVE  Walk(s, f, u) = Walk(s, g, u)
<1>1. u \in DOMAIN s.jblocks /\ u # 0 =>
          f[getCView(s.jblocks[u].just)] = g[getCView(s.jblocks[u].just)]
      BY DEF Downward
<1>2. QED
      BY <1>1 DEF Walk

(* The walk is well defined.                                               *)
LEMMA WalkExists ==
    ASSUME NEW s, Downward(s), NEW v \in Nat
    PROVE  \E f : IsWalk(s, f, v)
<1> DEFINE Bad == {m \in Nat : ~ \E f : IsWalk(s, f, m)}
<1>1. SUFFICES ASSUME Bad # {} PROVE FALSE
      OBVIOUS
<1>2. PICK m \in Bad : \A k \in Bad : m <= k
      BY <1>1, LeastNatural
<1>3. m \in Nat /\ \A k \in Nat : k < m => \E f : IsWalk(s, f, k)
      BY <1>2
<1>4. PICK g : m # 0 => IsWalk(s, g, m - 1)
      BY <1>3
<1> DEFINE f == [u \in 0 .. m |-> IF u = m THEN Walk(s, g, m) ELSE g[u]]
<1>5. \A w \in Nat : w < m => f[w] = g[w]
      BY <1>3
<1>6. \A u \in 0 .. m : Walk(s, f, u) = Walk(s, g, u)
      BY <1>3, <1>5, WalkBelow
<1>7. \A u \in 0 .. m : f[u] = Walk(s, f, u)
  <2>1. \A u \in 0 .. m : u # m => g[u] = Walk(s, g, u)
        BY <1>3, <1>4 DEF IsWalk
  <2>2. \A u \in 0 .. m : f[u] = IF u = m THEN Walk(s, g, m) ELSE g[u]
        OBVIOUS
  <2>3. QED
        BY <1>6, <2>1, <2>2
<1>8. f = [u \in 0 .. m |-> f[u]]
      OBVIOUS
<1> HIDE DEF f
<1>9. IsWalk(s, f, m)
      BY <1>7, <1>8 DEF IsWalk
<1>10. QED
       BY <1>2, <1>9

(* The function of unexecuted is such a walk.                              *)
LEMMA UnexecutedWalk ==
    ASSUME NEW s, Downward(s), NEW v \in Nat
    PROVE  \E f : IsWalk(s, f, v) /\ unexecuted(s, v) = f[v]
<1> DEFINE upTo[u \in 0 .. v] ==
               IF u \notin DOMAIN s.jblocks
               THEN [found |-> FALSE, views |-> <<>>]
               ELSE IF s.jblocks[u].executed
               THEN [found |-> TRUE, views |-> <<>>]
               ELSE IF u = 0
               THEN [found |-> TRUE, views |-> <<0>>]
               ELSE LET below == upTo[getCView(s.jblocks[u].just)]
                    IN  [below EXCEPT !.views = Append(@, u)]
           w == CHOOSE f : IsWalk(s, f, v)
<1>1. unexecuted(s, v) = upTo[v]
      BY DEF unexecuted
<1>2. upTo = w
      BY DEF IsWalk, Walk
<1>3. IsWalk(s, w, v)
      BY WalkExists
<1>4. QED
      BY <1>1, <1>2, <1>3

(* Views that can be executed one after the other: their blocks have not   *)
(* been, and each is built on the one before, the first one on a block     *)
(* that has been executed, or it is genesis.                               *)
Path(s, c) ==
    /\ c \in Seq(Nat)
    /\ \A k \in DOMAIN c :
          /\ c[k] \in DOMAIN s.jblocks /\ ~s.jblocks[c[k]].executed
          /\ c[k] # 0 => LET p == getCView(s.jblocks[c[k]].just)
                         IN  IF k = 1
                             THEN p \in DOMAIN s.jblocks /\ s.jblocks[p].executed
                             ELSE c[k - 1] = p
          /\ \A i \in DOMAIN c : i < k => c[i] < c[k]

(* What is found below u.                                                  *)
Found(s, r, u) ==
    /\ DOMAIN r = {"found", "views"} /\ r.views \in Seq(Nat)
    /\ r.found =>
          /\ u \in DOMAIN s.jblocks /\ Path(s, r.views)
          /\ \A k \in DOMAIN r.views : r.views[k] <= u
          /\ IF s.jblocks[u].executed THEN r.views = <<>>
             ELSE r.views # <<>> /\ r.views[Len(r.views)] = u

(* A path may be extended by a block that is built on its last one.        *)
LEMMA PathExtends ==
    ASSUME NEW s, NEW c, Path(s, c), NEW u \in Nat \ {0},
           u \in DOMAIN s.jblocks, ~s.jblocks[u].executed,
           NEW p \in Nat, p = getCView(s.jblocks[u].just), p < u,
           \A k \in DOMAIN c : c[k] <= p,
           IF c = <<>> THEN p \in DOMAIN s.jblocks /\ s.jblocks[p].executed
           ELSE c[Len(c)] = p
    PROVE  /\ Path(s, Append(c, u))
           /\ \A k \in DOMAIN Append(c, u) : Append(c, u)[k] <= u
           /\ Append(c, u) # <<>> /\ Append(c, u)[Len(Append(c, u))] = u
<1> DEFINE a == Append(c, u)
<1>1. c \in Seq(Nat)
      BY DEF Path
<1>2. /\ a \in Seq(Nat) /\ Len(a) = Len(c) + 1 /\ a[Len(c) + 1] = u
      /\ DOMAIN a = 1 .. Len(c) + 1 /\ DOMAIN c = 1 .. Len(c) /\ Len(c) \in Nat
      /\ \A k \in DOMAIN c : a[k] = c[k] /\ c[k] \in Nat
      /\ c = <<>> <=> Len(c) = 0
      BY <1>1
<1> HIDE DEF a
<1>3. \A k \in DOMAIN a : k \in DOMAIN c \/ k = Len(c) + 1
      BY <1>2
<1>4. \A k \in DOMAIN a : a[k] <= u
      BY <1>2, <1>3
<1>5. ASSUME NEW k \in DOMAIN a
      PROVE  /\ a[k] \in DOMAIN s.jblocks /\ ~s.jblocks[a[k]].executed
             /\ a[k] # 0 => LET q == getCView(s.jblocks[a[k]].just)
                            IN  IF k = 1
                                THEN q \in DOMAIN s.jblocks /\ s.jblocks[q].executed
                                ELSE a[k - 1] = q
             /\ \A i \in DOMAIN a : i < k => a[i] < a[k]
  <2>1. CASE k \in DOMAIN c
    <3>1. /\ a[k] = c[k] /\ k \in 1 .. Len(c)
          /\ k # 1 => k - 1 \in DOMAIN c /\ a[k - 1] = c[k - 1]
          BY <1>2, <2>1
    <3>2. \A i \in DOMAIN a : i < k => i \in DOMAIN c /\ a[i] = c[i]
          BY <1>2, <3>1
    <3>3. QED
          BY <2>1, <3>1, <3>2 DEF Path
  <2>2. CASE k = Len(c) + 1
    <3>1. a[k] = u
          BY <1>2, <2>2
    <3>2. \A i \in DOMAIN a : i < k => a[i] < a[k]
      <4>1. \A i \in DOMAIN a : i < k => i \in DOMAIN c
            BY <1>2, <2>2
      <4>2. \A i \in DOMAIN c : a[i] \in Nat /\ a[i] <= p
            BY <1>2
      <4>3. QED
            BY <3>1, <4>1, <4>2
    <3>3. k # 1 => a[k - 1] = c[Len(c)] /\ c # <<>>
          BY <1>2, <2>2
    <3>4. k = 1 => c = <<>>
          BY <1>2, <2>2
    <3>5. QED
          BY <3>1, <3>2, <3>3, <3>4
  <2>3. QED
        BY <1>3, <2>1, <2>2
<1>6. Path(s, a)
      BY <1>2, <1>5 DEF Path
<1>7. a # <<>> /\ a[Len(a)] = u
      BY <1>2
<1>8. QED
      BY <1>4, <1>6, <1>7 DEF a

(* The views of unexecuted are such a path, up to v.                       *)
LEMMA UnexecutedFact ==
    ASSUME NEW s, Downward(s), NEW v \in Nat
    PROVE  Found(s, unexecuted(s, v), v)
<1>1. PICK f : IsWalk(s, f, v) /\ unexecuted(s, v) = f[v]
      BY UnexecutedWalk
<1>2. \A u \in 0 .. v : f[u] = Walk(s, f, u)
      BY <1>1 DEF IsWalk
<1> DEFINE Bad == {u \in 0 .. v : ~Found(s, f[u], u)}
<1>3. SUFFICES ASSUME Bad # {} PROVE FALSE
      BY <1>1
<1>4. Bad \in SUBSET Nat
      OBVIOUS
<1>5. PICK u \in Bad : \A w \in Bad : u <= w
      BY <1>3, <1>4, LeastNatural
<1>6. /\ u \in 0 .. v /\ ~Found(s, f[u], u)
      /\ \A w \in 0 .. v : w < u => Found(s, f[w], w)
      BY <1>5
<1>7. f[u] = Walk(s, f, u) /\ u \in Nat
      BY <1>2, <1>6
<1> HIDE DEF Bad
<1>8. CASE u \notin DOMAIN s.jblocks
  <2>1. f[u] = [found |-> FALSE, views |-> <<>>]
        BY <1>7, <1>8 DEF Walk
  <2>2. QED
        BY <1>6, <2>1 DEF Found
<1>9. CASE u \in DOMAIN s.jblocks /\ s.jblocks[u].executed
  <2>1. f[u] = [found |-> TRUE, views |-> <<>>]
        BY <1>7, <1>9 DEF Walk
  <2>2. QED
        BY <1>6, <1>9, <2>1 DEF Found, Path
<1>10. CASE u \in DOMAIN s.jblocks /\ ~s.jblocks[u].executed /\ u = 0
  <2>1. f[u] = [found |-> TRUE, views |-> <<0>>]
        BY <1>7, <1>10 DEF Walk
  <2>2. Path(s, <<0>>)
        BY <1>10 DEF Path
  <2>3. <<0>> \in Seq(Nat) /\ <<0>> # <<>> /\ Len(<<0>>) = 1 /\ DOMAIN <<0>> = {1}
            /\ <<0>>[1] = 0
        OBVIOUS
  <2>4. QED
        BY <1>6, <1>10, <2>1, <2>2, <2>3 DEF Found
<1>11. CASE u \in DOMAIN s.jblocks /\ ~s.jblocks[u].executed /\ u # 0
  <2> DEFINE p == getCView(s.jblocks[u].just)
             below == f[p]
             c == below.views
  <2>1. p \in Nat /\ p < u
        BY <1>11 DEF Downward
  <2>2. f[u] = [below EXCEPT !.views = Append(@, u)]
        BY <1>7, <1>11 DEF Walk
  <2>3. Found(s, below, p)
        BY <1>6, <2>1
  <2> HIDE DEF p, below
  <2>4. /\ DOMAIN f[u] = {"found", "views"} /\ f[u].found = below.found
        /\ f[u].views = Append(c, u) /\ c \in Seq(Nat)
        BY <2>2, <2>3 DEF Found
  <2>5. Append(c, u) \in Seq(Nat)
        BY <1>7, <2>4
  <2>6. ASSUME below.found
        PROVE  /\ Path(s, Append(c, u))
               /\ \A k \in DOMAIN Append(c, u) : Append(c, u)[k] <= u
               /\ Append(c, u) # <<>> /\ Append(c, u)[Len(Append(c, u))] = u
    <3>1. /\ Path(s, c) /\ \A k \in DOMAIN c : c[k] <= p
          /\ IF c = <<>> THEN p \in DOMAIN s.jblocks /\ s.jblocks[p].executed
             ELSE c[Len(c)] = p
          BY <2>3, <2>6 DEF Found
    <3> HIDE DEF c
    <3>2. QED
          BY <1>7, <1>11, <2>1, <3>1, PathExtends DEF p
  <2> HIDE DEF c
  <2>7. Found(s, f[u], u)
        BY <1>11, <2>4, <2>5, <2>6 DEF Found
  <2>8. QED
        BY <1>6, <2>7
<1>12. QED
       BY <1>8, <1>9, <1>10, <1>11

(* A block that a replica knows is the one proposed, but for its flag.     *)
LEMMA KnownFact ==
    ASSUME NEW K, Sound(K), NEW s, BlocksSound(K, s), NEW v \in DOMAIN s.jblocks
    PROVE  /\ v \in DOMAIN K.proposed /\ v \in Nat
           /\ DOMAIN s.jblocks[v] = BlockFields
           /\ s.jblocks[v].just = K.proposed[v].just
           /\ getCView(s.jblocks[v].just) = Parent(K, v)
           /\ hash_ch(s.jblocks[v]) = HashOf(K, v)
           /\ s.jblocks[v].view = v
           /\ s.jblocks[v].executed \in BOOLEAN
<1>1. /\ v \in DOMAIN K.proposed
      /\ s.jblocks[v] = [K.proposed[v] EXCEPT !.executed = s.jblocks[v].executed]
      /\ s.jblocks[v].executed \in BOOLEAN
      BY DEF BlocksSound
<1>2. /\ v \in Nat /\ K.proposed[v].view = v
      /\ DOMAIN K.proposed[v] = BlockFields
      BY <1>1, BlockFact, FreshBlock
<1>3. /\ DOMAIN s.jblocks[v] = BlockFields
      /\ s.jblocks[v].just = K.proposed[v].just
      /\ s.jblocks[v].view = K.proposed[v].view
      /\ s.jblocks[v].trans = K.proposed[v].trans
      BY <1>1, <1>2 DEF BlockFields
<1>4. hash_ch(s.jblocks[v]) = hash_ch(K.proposed[v])
      BY <1>3 DEF hash_ch
<1>5. QED
      BY <1>1, <1>2, <1>3, <1>4 DEF HashOf, Parent

(* The justifications of the known blocks lead downward.                   *)
LEMMA KnownDownward ==
    ASSUME NEW K, Sound(K), NEW s, BlocksSound(K, s)
    PROVE  Downward(s)
<1>1. ASSUME NEW u \in DOMAIN s.jblocks \ {0}
      PROVE  /\ getCView(s.jblocks[u].just) \in Nat
             /\ getCView(s.jblocks[u].just) < u
      BY KnownFact, BlockFact
<1>2. QED
      BY <1>1 DEF Downward

(* executeCh: the blocks of a path below the view are executed.            *)
LEMMA ExecuteFact ==
    ASSUME NEW K, Sound(K), NEW n, NEW s, BodySound(K, n, s),
           NEW c, Path(s, c), \A k \in DOMAIN c : c[k] < s.view
    PROVE  LET u == executeCh(s, c)
           IN  BodySound(K, n, u) /\ u.tp = s.tp /\ u.view = s.view
<1> DEFINE jb    == [v \in DOMAIN s.jblocks |->
                        [s.jblocks[v] EXCEPT !.executed = @ \/ v \in Range(c)]]
           new   == [k \in DOMAIN c |->
                        [view |-> c[k], hash |-> hash_ch(s.jblocks[c[k]])]]
           ex    == s.executed \o new
           trans == FlattenSeq([k \in DOMAIN c |-> s.jblocks[c[k]].trans])
           x     == [s EXCEPT !.jblocks = jb, !.executed = ex]
           u     == executeCh(s, c)
<1>1. u = x \/ u = [x EXCEPT !.replied = @ \o trans]
      BY DEF executeCh, replyTransactions
<1>2. /\ DOMAIN s = Fields /\ Shape(n, s) /\ BlocksSound(K, s)
      /\ ExecutedSound(K, s) /\ c \in Seq(Nat)
      BY DEF BodySound, Shape, Path
<1>3. \A v : v \in Range(c) <=> \E k \in DOMAIN c : c[k] = v
      BY DEF Range
<1> HIDE DEF jb, ex, trans
<1>4. /\ DOMAIN u = Fields
      /\ u.view = s.view /\ u.timer = s.timer /\ u.pending = s.pending
      /\ u.justNV = s.justNV /\ u.tp = s.tp /\ u.started = s.started
      /\ u.myid = s.myid /\ u.transactions = s.transactions
      /\ u.fromClient = s.fromClient /\ u.executed = ex
      /\ u.jblocks = jb /\ u.out = s.out /\ u.log = s.log
      BY <1>1, <1>2 DEF Fields
<1> HIDE DEF u, x
<1>5. /\ DOMAIN jb = DOMAIN s.jblocks
      /\ \A v \in DOMAIN jb : jb[v] =
            [s.jblocks[v] EXCEPT !.executed = @ \/ v \in Range(c)]
      BY DEF jb
<1>6. \A v \in DOMAIN jb :
         /\ v \in DOMAIN K.proposed /\ DOMAIN s.jblocks[v] = BlockFields
         /\ jb[v].executed = (s.jblocks[v].executed \/ v \in Range(c))
         /\ jb[v] = [s.jblocks[v] EXCEPT !.executed = jb[v].executed]
  <2>1. \A v \in DOMAIN jb : v \in DOMAIN K.proposed
                                 /\ DOMAIN s.jblocks[v] = BlockFields
        BY <1>2, <1>5, KnownFact
  <2>2. QED
        BY <1>5, <2>1 DEF BlockFields
<1>7. BlocksSound(K, u)
  <2>1. ASSUME NEW v \in DOMAIN jb
        PROVE  /\ v \in DOMAIN K.proposed /\ v <= s.view
               /\ jb[v].executed \in BOOLEAN
               /\ jb[v] = [K.proposed[v] EXCEPT !.executed = jb[v].executed]
    <3>1. /\ v <= s.view
          /\ s.jblocks[v] = [K.proposed[v] EXCEPT !.executed = s.jblocks[v].executed]
          BY <1>2, <1>5 DEF BlocksSound
    <3>2. DOMAIN K.proposed[v] = BlockFields
          BY <1>6, BlockFact, FreshBlock
    <3>3. jb[v] = [K.proposed[v] EXCEPT !.executed = jb[v].executed]
          BY <1>6, <3>1, <3>2 DEF BlockFields
    <3>4. QED
          BY <1>6, <3>1, <3>3
  <2>2. QED
        BY <1>4, <2>1 DEF BlocksSound
<1>8. ExecutedSound(K, u)
  <2> DEFINE old == s.executed
  <2>1. PICK Entries : old \in Seq(Entries)
        BY <1>2 DEF ExecutedSound
  <2> DEFINE All == Entries \cup {new[k] : k \in DOMAIN c}
  <2>2. /\ DOMAIN c = 1 .. Len(c) /\ Len(c) \in Nat
        /\ new \in Seq(All) /\ Len(new) = Len(c) /\ old \in Seq(All)
        BY <1>2, <2>1
  <2> HIDE DEF All, new
  <2>3. /\ ex \in Seq(All) /\ Len(ex) = Len(old) + Len(c)
        /\ DOMAIN ex = 1 .. Len(old) + Len(c) /\ DOMAIN old = 1 .. Len(old)
        /\ Len(old) \in Nat
        /\ \A k \in DOMAIN old : ex[k] = old[k]
        /\ \A k \in DOMAIN c : ex[Len(old) + k] = new[k]
        BY <2>2 DEF ex
  <2> HIDE DEF old
  <2>4. /\ \A k \in DOMAIN old : k \in DOMAIN ex /\ ex[k] = old[k]
        /\ \A k \in DOMAIN c : Len(old) + k \in DOMAIN ex
                                   /\ ex[Len(old) + k] = new[k]
        /\ \A k \in DOMAIN ex : \/ k \in DOMAIN old
                                \/ /\ k - Len(old) \in DOMAIN c /\ k > Len(old)
                                   /\ ex[k] = new[k - Len(old)]
    <3>1. ASSUME NEW k \in DOMAIN ex, k \notin DOMAIN old
          PROVE  /\ k - Len(old) \in DOMAIN c /\ k > Len(old)
                 /\ ex[k] = new[k - Len(old)]
      <4>1. /\ k - Len(old) \in DOMAIN c /\ k > Len(old)
            /\ Len(old) + (k - Len(old)) = k
            BY <2>2, <2>3, <3>1
      <4>2. QED
            BY <2>3, <4>1
    <3>2. QED
          BY <2>2, <2>3, <3>1
  <2>5. \A k \in DOMAIN c : /\ new[k].view = c[k] /\ new[k].hash = HashOf(K, c[k])
                            /\ c[k] \in DOMAIN s.jblocks /\ c[k] < s.view
                            /\ ~s.jblocks[c[k]].executed /\ c[k] \in Range(c)
    <3>1. \A k \in DOMAIN c : c[k] \in DOMAIN s.jblocks
                                  /\ ~s.jblocks[c[k]].executed
          BY DEF Path
    <3>2. \A k \in DOMAIN c : hash_ch(s.jblocks[c[k]]) = HashOf(K, c[k])
          BY <1>2, <3>1, KnownFact
    <3>3. QED
          BY <1>3, <3>1, <3>2 DEF new
  <2>6. \A k \in DOMAIN old :
           /\ old[k].view \in DOMAIN s.jblocks /\ old[k].view < s.view
           /\ s.jblocks[old[k].view].executed
           /\ old[k].hash = HashOf(K, old[k].view)
           /\ old[k].view # 0 => \E i \in DOMAIN old :
                  i < k /\ old[i].view = Parent(K, old[k].view)
           /\ \A i \in DOMAIN old : i # k => old[i].view # old[k].view
        BY <1>2 DEF ExecutedSound, old
  <2>7. \A v \in DOMAIN s.jblocks : s.jblocks[v].executed =>
           \E k \in DOMAIN old : old[k].view = v
        BY <1>2 DEF ExecutedSound, old
  <2> DEFINE Good(k) ==
                 LET e == ex[k]
                 IN  /\ e.view \in DOMAIN jb /\ e.view < s.view
                     /\ jb[e.view].executed
                     /\ e.hash = HashOf(K, e.view)
                     /\ e.view # 0 => \E i \in DOMAIN ex :
                            i < k /\ ex[i].view = Parent(K, e.view)
                     /\ \A i \in DOMAIN ex : i # k => ex[i].view # e.view
  <2>8. ASSUME NEW k \in DOMAIN old PROVE Good(k)
    <3>1. ex[k] = old[k]
          BY <2>4
    <3>2. old[k].view \in DOMAIN jb /\ jb[old[k].view].executed
          BY <1>5, <1>6, <2>6
    <3>3. \A i \in DOMAIN ex : i # k => ex[i].view # old[k].view
      <4>1. \A i \in DOMAIN old : i # k => ex[i].view # old[k].view
            BY <2>4, <2>6
      <4>2. \A h \in DOMAIN c : new[h].view # old[k].view
            BY <2>5, <2>6
      <4>3. QED
            BY <2>4, <4>1, <4>2
    <3>4. old[k].view # 0 => \E i \in DOMAIN ex :
              i < k /\ ex[i].view = Parent(K, old[k].view)
          BY <2>4, <2>6
    <3>5. QED
          BY <2>6, <3>1, <3>2, <3>3, <3>4
  <2>9. ASSUME NEW h \in DOMAIN c PROVE Good(Len(old) + h)
    <3> DEFINE k == Len(old) + h
    <3>1. /\ k \in DOMAIN ex /\ ex[k] = new[h] /\ h \in Nat /\ h >= 1
          /\ \A i \in DOMAIN old : i < k
          BY <2>2, <2>3, <2>4
    <3>2. c[h] \in DOMAIN jb /\ jb[c[h]].executed
          BY <1>5, <1>6, <2>5
    <3>3. ASSUME NEW i \in DOMAIN ex, i # k PROVE ex[i].view # c[h]
      <4>1. CASE i \in DOMAIN old
            BY <2>4, <2>5, <2>6, <4>1
      <4>2. CASE i - Len(old) \in DOMAIN c /\ i > Len(old)
        <5> DEFINE g == i - Len(old)
        <5>1. g \in DOMAIN c /\ g # h /\ ex[i] = new[g] /\ g \in Nat
              BY <2>2, <2>3, <2>4, <3>1, <3>3, <4>2
        <5> HIDE DEF g
        <5>2. c[g] < c[h] \/ c[h] < c[g]
          <6>1. g < h \/ h < g
                BY <3>1, <5>1
          <6>2. QED
                BY <5>1, <6>1 DEF Path
        <5>3. c[g] \in Nat /\ c[h] \in Nat
              BY <1>2, <5>1
        <5>4. QED
              BY <2>5, <5>1, <5>2, <5>3
      <4>3. QED
            BY <2>4, <4>1, <4>2
    <3>4. ASSUME c[h] # 0
          PROVE  \E i \in DOMAIN ex : i < k /\ ex[i].view = Parent(K, c[h])
      <4> DEFINE p == getCView(s.jblocks[c[h]].just)
      <4>1. p = Parent(K, c[h])
            BY <1>2, <2>5, KnownFact
      <4>2. IF h = 1 THEN p \in DOMAIN s.jblocks /\ s.jblocks[p].executed
            ELSE c[h - 1] = p
            BY <3>4 DEF Path
      <4> HIDE DEF p
      <4>3. CASE h = 1
        <5>1. PICK i \in DOMAIN old : old[i].view = p
              BY <2>7, <4>2, <4>3
        <5>2. QED
              BY <2>4, <3>1, <4>1, <5>1
      <4>4. CASE h # 1
        <5>1. /\ h - 1 \in DOMAIN c /\ Len(old) + (h - 1) \in DOMAIN ex
              /\ Len(old) + (h - 1) < k
              /\ ex[Len(old) + (h - 1)] = new[h - 1]
              BY <2>2, <2>3, <2>4, <3>1, <4>4
        <5>2. new[h - 1].view = p
              BY <2>5, <4>2, <4>4, <5>1
        <5>3. QED
              BY <4>1, <5>1, <5>2
      <4>5. QED
            BY <4>3, <4>4
    <3> HIDE DEF k
    <3>5. QED
          BY <2>5, <3>1, <3>2, <3>3, <3>4 DEF k
  <2>10. \A k \in DOMAIN ex : Good(k)
    <3>1. ASSUME NEW k \in DOMAIN ex, k - Len(old) \in DOMAIN c
          PROVE  Good(k)
      <4>1. k \in Int /\ Len(old) + (k - Len(old)) = k
            BY <2>3
      <4> HIDE DEF Good
      <4>2. Good(Len(old) + (k - Len(old)))
            BY <2>9, <3>1
      <4>3. QED
            BY <4>1, <4>2
    <3>2. QED
          BY <2>4, <2>8, <3>1
  <2>11. ASSUME NEW v \in DOMAIN jb, jb[v].executed
         PROVE  \E k \in DOMAIN ex : ex[k].view = v
    <3>1. CASE s.jblocks[v].executed
          BY <1>5, <2>4, <2>7, <3>1
    <3>2. CASE v \in Range(c)
          BY <1>3, <2>4, <2>5, <3>2
    <3>3. QED
          BY <1>6, <2>11, <3>1, <3>2
  <2>12. QED
         BY <1>4, <2>3, <2>10, <2>11 DEF ExecutedSound
<1>9. Shape(n, u) /\ LeaderSound(K, n, u) /\ JustSound(K, n, u)
  <2>1. Shape(n, u)
    <3>1. s.jblocks = <<>> => jb = <<>>
          BY DEF jb
    <3>2. QED
          BY <1>2, <1>4, <1>5, <3>1 DEF Shape
  <2>2. LeaderSound(K, n, u) /\ JustSound(K, n, u)
        BY <1>4, <1>5 DEF BodySound, LeaderSound, JustSound
  <2>3. QED
        BY <2>1, <2>2
<1>10. QED
       BY <1>4, <1>7, <1>8, <1>9 DEF BodySound, u

(* tryExecuteCh.                                                           *)
LEMMA TryExecuteFact ==
    ASSUME NEW K, Sound(K), NEW n, NEW s, BodySound(K, n, s),
           NEW block0, NEW v \in DOMAIN s.jblocks, v < s.view
    PROVE  LET u == tryExecuteCh(s, block0, s.jblocks[v])
           IN  BodySound(K, n, u) /\ u.tp = s.tp /\ u.view = s.view
<1> DEFINE p     == getCView(s.jblocks[v].just)
           chain == unexecuted(s, p)
<1>1. BlocksSound(K, s) /\ s.view \in Nat
      BY DEF BodySound, Shape
<1>2. p \in Nat /\ p <= v /\ v \in Nat
  <2>1. v \in DOMAIN K.proposed /\ v \in Nat /\ p = Parent(K, v)
        BY <1>1, KnownFact
  <2>2. CASE v = 0
    <3>1. K.proposed[v] = GenesisBlock
          BY <2>2 DEF Sound, LedgerType
    <3>2. QED
          BY <2>1, <2>2, <3>1, GenesisFact DEF Parent
  <2>3. CASE v # 0
        BY <2>1, <2>3, BlockFact
  <2>4. QED
        BY <2>2, <2>3
<1>3. Found(s, chain, p)
      BY <1>1, <1>2, KnownDownward, UnexecutedFact
<1>4. \/ tryExecuteCh(s, block0, s.jblocks[v]) = s
      \/ chain.found /\ tryExecuteCh(s, block0, s.jblocks[v])
                            = executeCh(s, chain.views)
      BY DEF tryExecuteCh
<1> HIDE DEF chain, p
<1>5. ASSUME chain.found
      PROVE  Path(s, chain.views)
                 /\ \A k \in DOMAIN chain.views : chain.views[k] < s.view
  <2>1. /\ Path(s, chain.views) /\ chain.views \in Seq(Nat)
        /\ \A k \in DOMAIN chain.views : chain.views[k] <= p
        BY <1>3, <1>5 DEF Found
  <2>2. \A k \in DOMAIN chain.views : chain.views[k] \in Nat
        BY <2>1
  <2>3. QED
        BY <1>1, <1>2, <2>1, <2>2
<1>6. QED
      BY <1>4, <1>5, ExecuteFact

-----------------------------------------------------------------------------
(* A vote.                                                                 *)

(* sendNvCh: a new-view message is sent, or logged by the next leader.     *)
LEMMA SendNvFact ==
    ASSUME NEW K, NEW n \in PID, NEW s, BodySound(K, n, s), NEW m,
           NewviewSound(K, m),
           getLeaderOf(s.view + 1) = getLeaderOf(m.rdata.propv + 1)
               => m.rdata.phase = NEWVIEW
    PROVE  LET u == sendNvCh(s, m)
           IN  BodySound(K, n, u) /\ Like(s, u) /\ u.tp = s.tp
<1>1. s.myid = n
      BY DEF BodySound, Shape
<1>2. CASE amLeaderOf(s, s.view + 1)
  <2>1. getLeaderOf(m.rdata.propv + 1) = n => m.rdata.phase = NEWVIEW
        BY <1>1, <1>2 DEF amLeaderOf
  <2>2. sendNvCh(s, m) = storeNvCh(s, m)
        BY <1>2 DEF sendNvCh
  <2>3. QED
        BY <2>1, <2>2, StoreNvFact
<1>3. CASE ~amLeaderOf(s, s.view + 1)
  <2>1. sendNvCh(s, m) = send(s, keep_from_peers(s, getLeaderOf(s.view + 1)), m)
        BY <1>3 DEF sendNvCh
  <2>2. MessageSound(K, m)
        BY DEF MessageSound
  <2>3. QED
        BY <2>1, <2>2, SendFact
<1>4. QED
      BY <1>2, <1>3

(* sendVoteCh: the leader proposes the block, the others vote for it.      *)
LEMMA SendVoteFact ==
    ASSUME NEW K, Sound(K), NEW n \in PID, NEW s, BodySound(K, n, s),
           s.view \in DOMAIN K.proposed \ {0}, NEW just,
           just = Just(just.rdata, {Signature(n, just.rdata)}),
           VoteSound(K, n, just.rdata), just.rdata.propv = s.view
    PROVE  LET u == sendVoteCh(s, K.proposed[s.view], just)
           IN  BodySound(K, n, u) /\ Like(s, u) /\ u.tp = s.tp
<1> DEFINE block == K.proposed[s.view]
           vote  == MsgPrepareCh(just)
           ldr   == MsgLdrPrepareCh(block, just.signs)
<1>1. just.signs = {Signature(n, just.rdata)}
      BY DEF Just
<1>2. PrepareSound(K, vote)
      BY <1>1 DEF PrepareSound, MsgPrepareCh
<1>3. ProposalSound(K, ldr)
  <2>1. block.view = s.view
        BY BlockFact
  <2>2. ldr.type = "ldrprepare_ch" /\ ldr.block = block /\ ldr.signs = just.signs
        BY DEF MsgLdrPrepareCh
  <2> HIDE DEF ldr
  <2>3. QED
        BY <1>1, <2>1, <2>2 DEF ProposalSound
<1>4. MessageSound(K, vote) /\ MessageSound(K, ldr)
      BY <1>2, <1>3 DEF MessageSound
<1>5. \/ sendVoteCh(s, block, just) = send(s, remove_from_peers(s), ldr)
      \/ sendVoteCh(s, block, just) = storePrepCh(s, vote)
      \/ sendVoteCh(s, block, just) =
             send(s, keep_from_peers(s, getLeaderOf(s.view + 1)), vote)
      BY DEF sendVoteCh
<1> HIDE DEF vote, ldr
<1>6. QED
      BY <1>2, <1>4, <1>5, SendFact, StorePrepFact

(* voteCh, o being the state before the block has been noted.              *)
VoteOn(o, s, block) ==
    LET view0  == getCView(block.just)
        view1  == getCView(s.jblocks[view0].just)
        block0 == s.jblocks[view0]
        block1 == s.jblocks[view1]
        r1 == TEEprepare(o.myid, o.tp, block, block0, block1)
        r2 == TEEsign(o.myid, r1.tee)
        s1 == [s EXCEPT !.tp = r2.tee]
        s2 == sendNvCh(sendVoteCh(s1, block, r1.just), MsgNewViewCh(r2.just))
        s3 == tryExecuteCh(s2, block0, block1)
    IN  IF view0 \notin DOMAIN s.jblocks THEN s
        ELSE IF view1 \notin DOMAIN s.jblocks THEN s
        ELSE IF ~r1.just.set THEN s1
        ELSE IF amLeaderOf(o, o.view + 1)
        THEN checkNewJustCh(s3, r1.just.rdata)
        ELSE nextView(s3, "handleEarlierMessagesCh")

(* The rest of voteCh keeps the replica sound.                             *)
LEMMA VoteOnFact ==
    ASSUME NEW K, Sound(K), NEW n \in PID, NEW s, ReplicaSound(K, n, s),
           s.view \in DOMAIN K.proposed \ {0},
           NEW o, o.myid = n, o.tp = s.tp, o.view = s.view
    PROVE  Leads(K, n, VoteOn(o, s, K.proposed[s.view]))
<1> DEFINE v      == s.view
           block  == K.proposed[v]
           view0  == getCView(block.just)
           view1  == getCView(s.jblocks[view0].just)
           block0 == s.jblocks[view0]
           block1 == s.jblocks[view1]
           r1 == TEEprepare(n, s.tp, block, block0, block1)
           r2 == TEEsign(n, r1.tee)
           m  == MsgNewViewCh(r2.just)
           s1 == [s EXCEPT !.tp = r2.tee]
           a  == sendVoteCh(s1, block, r1.just)
           s2 == sendNvCh(a, m)
           s3 == tryExecuteCh(s2, block0, block1)
           u  == VoteOn(o, s, block)
<1>1. /\ s.myid = n /\ BodySound(K, n, s) /\ ComponentSound(K, n, s.tp)
      /\ BlocksSound(K, s)
      BY DEF ReplicaSound, BodySound, Shape
<1>2. v \in Nat /\ v # 0 /\ view0 = Parent(K, v) /\ view0 < v
      BY BlockFact DEF Parent
<1>3. /\ view0 \notin DOMAIN s.jblocks \/ view1 \notin DOMAIN s.jblocks => u = s
      /\ view0 \in DOMAIN s.jblocks /\ view1 \in DOMAIN s.jblocks =>
            u = IF ~r1.just.set THEN s1
                ELSE IF amLeaderOf(o, v + 1)
                THEN checkNewJustCh(s3, r1.just.rdata)
                ELSE nextView(s3, "handleEarlierMessagesCh")
      BY <1>1 DEF VoteOn
<1>4. CASE view0 \notin DOMAIN s.jblocks \/ view1 \notin DOMAIN s.jblocks
      BY <1>3, <1>4, LeadsWithout
<1>5. CASE view0 \in DOMAIN s.jblocks /\ view1 \in DOMAIN s.jblocks
  <2> HIDE DEF u
  <2>1. /\ hash_ch(block0) = HashOf(K, view0) /\ view0 \in DOMAIN K.proposed
        /\ view1 = Parent(K, view0)
        BY <1>1, <1>5, KnownFact
  <2>2. view1 < v
    <3>1. view1 \in Nat /\ view0 \in Nat /\ (view0 # 0 => view1 < view0)
          BY <2>1, BlockFact
    <3>2. view0 = 0 => view1 = 0
          BY <2>1, GenesisFact DEF Parent, Sound, LedgerType
    <3>3. QED
          BY <1>2, <3>1, <3>2
  <2>3. hash_ch(block0) = HashOf(K, Parent(K, v))
        BY <1>2, <2>1
  <2> HIDE DEF view1, view0, block0, block1
  <2>4. PICK L : /\ Sound(L) /\ Grows(K, n, L) /\ L.proposed = K.proposed
                 /\ ComponentSound(L, n, r2.tee) /\ NewviewSound(L, m)
                 /\ r1.just.set =>
                       /\ r1.just = Just(r1.just.rdata,
                                         {Signature(n, r1.just.rdata)})
                       /\ VoteSound(L, n, r1.just.rdata)
                       /\ r1.just.rdata.propv = v
                       /\ getLeaderOf(v + 1) = getLeaderOf(m.rdata.propv + 1)
                             => m.rdata.phase = NEWVIEW
        BY <1>1, <2>3, VoteFact
  <2> HIDE DEF r1, r2, m
  <2>5. BodySound(L, n, s)
        BY <1>1, <2>4, BodyGrows
  <2>6. BodySound(L, n, s1) /\ Like(s, s1) /\ s1.tp = r2.tee
        BY <2>5, UpdateFact
  <2> HIDE DEF s1
  <2>7. CASE ~r1.just.set
    <3>1. u = s1
          BY <1>3, <1>5, <2>7
    <3>2. ReplicaSound(L, n, u)
          BY <2>4, <2>6, <3>1 DEF ReplicaSound
    <3>3. QED
          BY <2>4, <3>2 DEF Leads, u
  <2>8. CASE r1.just.set
    <3>1. s1.view = v
          BY <2>6 DEF Like
    <3>2. BodySound(L, n, a) /\ Like(s1, a) /\ a.tp = s1.tp
          BY <2>4, <2>6, <2>8, <3>1, SendVoteFact
    <3> HIDE DEF a
    <3>3. a.view = v
          BY <3>1, <3>2 DEF Like
    <3>4. BodySound(L, n, s2) /\ Like(a, s2) /\ s2.tp = a.tp
          BY <2>4, <2>8, <3>2, <3>3, SendNvFact
    <3> HIDE DEF s2
    <3>5. s2.jblocks = s.jblocks /\ s2.view = v
          BY <2>6, <3>2, <3>3, <3>4 DEF Like
    <3>6. BodySound(L, n, s3) /\ s3.tp = s2.tp /\ s3.view = v
          BY <1>5, <2>2, <2>4, <3>4, <3>5, TryExecuteFact DEF block1
    <3> HIDE DEF s3
    <3>7. CASE amLeaderOf(o, v + 1)
      <4>1. u = checkNewJustCh(s3, r1.just.rdata)
            BY <1>3, <1>5, <2>8, <3>7
      <4>2. getLeaderOf(s3.view + 1) = n
            BY <1>1, <3>6, <3>7 DEF amLeaderOf
      <4>3. /\ BodySound(L, n, checkNewJustCh(s3, r1.just.rdata))
            /\ checkNewJustCh(s3, r1.just.rdata).tp = s3.tp
            BY <1>2, <2>4, <2>8, <3>6, <4>2, CheckNewJustFact
      <4>4. ReplicaSound(L, n, u)
            BY <2>4, <2>6, <3>2, <3>4, <3>6, <4>1, <4>3 DEF ReplicaSound
      <4>5. QED
            BY <2>4, <4>4 DEF Leads, u
    <3>8. CASE ~amLeaderOf(o, v + 1)
      <4> DEFINE w == nextView(s3, "handleEarlierMessagesCh")
      <4>1. u = w
            BY <1>3, <1>5, <2>8, <3>8
      <4>2. BodySound(L, n, w) /\ w.tp = s3.tp
            BY <1>2, <2>4, <3>6, NextViewFact
      <4> HIDE DEF w
      <4>3. ReplicaSound(L, n, u)
            BY <2>4, <2>6, <3>2, <3>4, <3>6, <4>1, <4>2 DEF ReplicaSound
      <4>4. QED
            BY <2>4, <4>3 DEF Leads, u
    <3>9. QED
          BY <3>7, <3>8
  <2>9. QED
        BY <2>7, <2>8
<1>6. QED
      BY <1>4, <1>5

(* voteCh: the replica notes the block of its view, and the rest follows.  *)
LEMMA VoteChFact ==
    ASSUME NEW K, Sound(K), NEW n \in PID, NEW s, DOMAIN s = Fields, s.myid = n,
           s.view \in DOMAIN K.proposed \ {0}, NEW block,
           block = K.proposed[s.view],
           ReplicaSound(K, n, [s EXCEPT !.jblocks = assign(@, s.view, block)])
    PROVE  Leads(K, n, voteCh(s, block))
<1> DEFINE s0 == [s EXCEPT !.jblocks = assign(@, s.view, block)]
<1>1. s0.view = s.view /\ s0.tp = s.tp
      BY DEF Fields
<1>2. voteCh(s, block) = VoteOn(s, s0, block)
      BY DEF voteCh, VoteOn
<1>3. ReplicaSound(K, n, s0)
      OBVIOUS
<1> HIDE DEF s0
<1>4. QED
      BY <1>1, <1>2, <1>3, VoteOnFact

-----------------------------------------------------------------------------
(* A proposal.                                                             *)

(* The replica notes the block of its view: a leader its own one, the      *)
(* others that of the leader.  A block that has been noted before stays    *)
(* the same, it has not been executed in its own view.                     *)
LEMMA NoteFact ==
    ASSUME NEW K, Sound(K), NEW n \in PID, NEW s,
           Shape(n, s), LogSound(K, n, s.log), OutSound(K, s.out),
           BlocksSound(K, s), ExecutedSound(K, s),
           \A v \in DOMAIN K.proposed \ {0} :
               getLeaderOf(v) = n => v \in DOMAIN s.jblocks \/ v = s.view,
           s.justNV.set => s.justNV.rdata.propv \in Nat
                               /\ s.justNV.rdata.propv < s.view,
           s.pending # "prepareCh", s.view \in DOMAIN K.proposed \ {0}
    PROVE  BodySound(K, n, [s EXCEPT !.jblocks =
                                assign(@, s.view, K.proposed[s.view])])
<1> DEFINE jb == assign(s.jblocks, s.view, K.proposed[s.view])
           u  == [s EXCEPT !.jblocks = jb]
<1>1. /\ DOMAIN u = Fields
      /\ u.view = s.view /\ u.timer = s.timer /\ u.pending = s.pending
      /\ u.justNV = s.justNV /\ u.tp = s.tp /\ u.started = s.started
      /\ u.myid = s.myid /\ u.transactions = s.transactions
      /\ u.fromClient = s.fromClient /\ u.executed = s.executed
      /\ u.jblocks = jb /\ u.out = s.out /\ u.log = s.log
      BY DEF Shape, Fields
<1>2. /\ DOMAIN jb = DOMAIN s.jblocks \cup {s.view}
      /\ jb[s.view] = K.proposed[s.view]
      /\ \A v \in DOMAIN s.jblocks : v # s.view => jb[v] = s.jblocks[v]
      BY DEF assign
<1> HIDE DEF u, jb
<1>3. BlockType(K.proposed[s.view]) /\ s.view \in Nat
      BY BlockFact
<1>4. /\ K.proposed[s.view].executed = FALSE
      /\ K.proposed[s.view] = [K.proposed[s.view] EXCEPT !.executed = FALSE]
      BY <1>3, FreshBlock
<1>5. \A v \in DOMAIN s.jblocks : jb[v].executed <=> s.jblocks[v].executed
  <2>1. ASSUME s.view \in DOMAIN s.jblocks PROVE ~s.jblocks[s.view].executed
    <3>1. \A k \in DOMAIN s.executed : s.executed[k].view < s.view
          BY DEF ExecutedSound
    <3>2. s.jblocks[s.view].executed =>
              \E k \in DOMAIN s.executed : s.executed[k].view = s.view
          BY <2>1 DEF ExecutedSound
    <3>3. QED
          BY <1>3, <3>1, <3>2
  <2>2. QED
        BY <1>2, <1>4, <2>1
<1>6. BlocksSound(K, u)
  <2>1. /\ K.proposed[s.view].executed \in BOOLEAN
        /\ K.proposed[s.view] = [K.proposed[s.view] EXCEPT
                                     !.executed = K.proposed[s.view].executed]
        BY <1>4
  <2>2. QED
        BY <1>1, <1>2, <1>3, <2>1 DEF BlocksSound
<1>7. ExecutedSound(K, u)
  <2>1. \A k \in DOMAIN s.executed : /\ s.executed[k].view \in DOMAIN s.jblocks
                                     /\ s.jblocks[s.executed[k].view].executed
        BY DEF ExecutedSound
  <2>2. \A k \in DOMAIN s.executed : jb[s.executed[k].view].executed
        BY <1>5, <2>1
  <2>3. \A v \in DOMAIN jb : jb[v].executed =>
            \E k \in DOMAIN s.executed : s.executed[k].view = v
    <3>1. \A v \in DOMAIN jb : jb[v].executed => v \in DOMAIN s.jblocks
          BY <1>2, <1>4
    <3>2. QED
          BY <1>5, <3>1 DEF ExecutedSound
  <2>4. QED
        BY <1>1, <1>2, <2>2, <2>3 DEF ExecutedSound
<1>8. Shape(n, u) /\ LeaderSound(K, n, u) /\ JustSound(K, n, u)
  <2>1. Shape(n, u)
        BY <1>1, <1>2 DEF Shape
  <2>2. LeaderSound(K, n, u)
        BY <1>1, <1>2 DEF LeaderSound
  <2>3. JustSound(K, n, u)
        BY <1>1, <1>2 DEF JustSound
  <2>4. QED
        BY <2>1, <2>2, <2>3
<1>9. QED
      BY <1>1, <1>6, <1>7, <1>8 DEF BodySound, u, jb

(* A proposal of the current view leads to a sound state.                  *)
LEMMA VoteForFact ==
    ASSUME NEW K, Sound(K), NEW n \in PID, NEW s, ReplicaSound(K, n, s),
           s.pending # "prepareCh", NEW m, ProposalSound(K, m),
           m.block.view = s.view
    PROVE  Leads(K, n, voteCh(s, m.block))
<1> DEFINE u == [s EXCEPT !.jblocks = assign(@, s.view, m.block)]
<1>1. s.view \in DOMAIN K.proposed \ {0} /\ m.block = K.proposed[s.view]
      BY DEF ProposalSound
<1>2. BodySound(K, n, u)
  <2>1. BodySound(K, n, s)
        BY DEF ReplicaSound
  <2>2. /\ \A v \in DOMAIN K.proposed \ {0} :
               getLeaderOf(v) = n => v \in DOMAIN s.jblocks \/ v = s.view
        /\ s.justNV.set => s.justNV.rdata.propv \in Nat
                               /\ s.justNV.rdata.propv < s.view
        BY <2>1 DEF BodySound, LeaderSound, JustSound
  <2>3. QED
        BY <1>1, <2>1, <2>2, NoteFact DEF BodySound
<1>3. DOMAIN s = Fields /\ s.myid = n
      BY DEF ReplicaSound, BodySound, Shape
<1>4. u.tp = s.tp
      BY <1>3 DEF Fields
<1>5. ReplicaSound(K, n, u)
      BY <1>2, <1>4 DEF ReplicaSound
<1>6. QED
      BY <1>1, <1>3, <1>5, VoteChFact

(* The first stored proposal of the view.                                  *)
LEMMA StoredProposal ==
    ASSUME NEW K, NEW n \in PID, NEW s, ReplicaSound(K, n, s),
           firstLdrPrepareCh(s, s.view) # {}
    PROVE  LET m == CHOOSE x \in firstLdrPrepareCh(s, s.view) : TRUE
           IN  ProposalSound(K, m) /\ m.block.view = s.view
<1> DEFINE msgs     == s.log.ldrpreparesCh
           here     == InView(msgs, s.view)
           proposal == firstLdrPrepareCh(s, s.view)
           m        == FirstMsg(here)
<1>1. IsFiniteSet(msgs) /\ \A x \in msgs : ProposalSound(K, x)
      BY DEF ReplicaSound, BodySound, LogSound
<1>2. IsFiniteSet(here) /\ here \subseteq msgs
      BY <1>1, InViewFinite
<1>3. here # {} /\ proposal = {m}
      BY DEF firstLdrPrepareCh, firstProposal
<1>4. \A k \in here : Signed(k)
  <2>1. ASSUME NEW k \in here PROVE Signed(k)
    <3>1. \E i \in PID : \E rdata : k.signs = {Signature(i, rdata)}
          BY <1>1, <1>2 DEF ProposalSound
    <3>2. QED
          BY <3>1, SingleSigned
  <2>2. QED
        BY <2>1
<1>5. m \in here
      BY <1>2, <1>3, <1>4, FirstMsgFact
<1>6. ProposalSound(K, m) /\ m.block.view = s.view
      BY <1>1, <1>2, <1>5, ViewOfFact DEF InView
<1>7. (CHOOSE x \in proposal : TRUE) = m
      BY <1>3
<1>8. QED
      BY <1>6, <1>7

(* handleEarlierMessagesCh.                                                *)
LEMMA HandleEarlierFact ==
    ASSUME NEW K, Sound(K), NEW n \in PID, NEW s, ReplicaSound(K, n, s),
           s.pending # "prepareCh"
    PROVE  Leads(K, n, handleEarlierMessagesCh(s))
<1> DEFINE proposal == firstLdrPrepareCh(s, s.view)
           m == CHOOSE x \in proposal : TRUE
<1>1. \/ handleEarlierMessagesCh(s) = s
      \/ proposal # {} /\ handleEarlierMessagesCh(s) = voteCh(s, m.block)
      BY DEF handleEarlierMessagesCh
<1>2. proposal # {} => ProposalSound(K, m) /\ m.block.view = s.view
      BY StoredProposal
<1> HIDE DEF m
<1>3. QED
      BY <1>1, <1>2, LeadsWithout, VoteForFact

-----------------------------------------------------------------------------
(* The leader's side of a view.                                            *)

(* A component has one block prepared at the end of a view, of an earlier  *)
(* view than that one, or genesis.                                         *)
LEMMA PreparedFact ==
    ASSUME NEW K, Sound(K), NEW i \in PID, NEW v \in Nat,
           NEW j \in Nat, Prepared(K, i, v, j)
    PROVE  /\ j = v => v = 0
           /\ j <= v
           /\ \A x \in Nat : Prepared(K, i, v, x) => x = j
<1>1. \A u \in K.adopted[i] : /\ u \in Nat /\ u # 0 /\ Parent(K, u) < u
                              /\ Parent(K, u) \in Nat
      BY BlockFact DEF Sound, AdoptedSound
<1>2. CASE j = 0 /\ \A u \in K.adopted[i] : v < u
  <2>1. \A u \in K.adopted[i] : ~(u <= v)
        BY <1>1, <1>2
  <2>2. QED
        BY <1>2, <2>1 DEF Prepared
<1>3. CASE \E u \in K.adopted[i] :
               /\ u <= v /\ j = Parent(K, u)
               /\ \A w \in K.adopted[i] : w <= v => w <= u
  <2>1. PICK u \in K.adopted[i] :
            /\ u <= v /\ j = Parent(K, u)
            /\ \A w \in K.adopted[i] : w <= v => w <= u
        BY <1>3
  <2>2. u \in Nat /\ j < u /\ u <= v
        BY <1>1, <2>1
  <2>3. ASSUME NEW x \in Nat, Prepared(K, i, v, x) PROVE x = j
    <3>1. ~ \A w \in K.adopted[i] : v < w
          BY <2>2
    <3>2. PICK w \in K.adopted[i] :
              /\ w <= v /\ x = Parent(K, w)
              /\ \A y \in K.adopted[i] : y <= v => y <= w
          BY <2>3, <3>1 DEF Prepared
    <3>3. u <= w /\ w <= u /\ w \in Nat
          BY <1>1, <2>1, <3>2
    <3>4. QED
          BY <2>1, <2>2, <3>2, <3>3
  <2>4. QED
        BY <2>2, <2>3
<1>4. QED
      BY <1>2, <1>3 DEF Prepared

(* The new-view messages that a leader has for its view are reports, each  *)
(* of another component.                                                   *)
LEMMA ReportsFact ==
    ASSUME NEW K, Sound(K), NEW n \in PID, NEW log, LogSound(K, n, log),
           NEW u \in Nat \ {0}, getLeaderOf(u) = n
    PROVE  LET here == InView(log.newviewsCh, u - 1)
           IN  /\ \A m \in here : \E i \in PID :
                     /\ m.signs = {Signature(i, m.rdata)}
                     /\ m.rdata.propv = u - 1 /\ ReportSound(K, i, m.rdata)
               /\ \E f \in Injection(here, PID) : \A m \in here :
                     ReportSound(K, f[m], m.rdata)
<1> DEFINE here == InView(log.newviewsCh, u - 1)
           Of(m, i) == /\ m.signs = {Signature(i, m.rdata)}
                       /\ m.rdata.propv = u - 1 /\ ReportSound(K, i, m.rdata)
           f == [m \in here |-> CHOOSE i \in PID : Of(m, i)]
<1>1. ASSUME NEW m \in here
      PROVE  /\ \E i \in PID : Of(m, i)
             /\ m.type = "newview_ch"
             /\ DOMAIN m = {"type", "rdata", "signs"}
             /\ m = [type |-> m.type, rdata |-> m.rdata, signs |-> m.signs]
  <2>1. m \in log.newviewsCh /\ ViewOf(m) = u - 1
        BY DEF InView
  <2>2. /\ NewviewSound(K, m)
        /\ getLeaderOf(m.rdata.propv + 1) = n => m.rdata.phase = NEWVIEW
        BY <2>1 DEF LogSound
  <2>3. m.rdata.propv = u - 1 /\ (u - 1) + 1 = u
        BY <2>1, <2>2, ViewOfFact
  <2>4. m.rdata.phase = NEWVIEW
        BY <2>2, <2>3
  <2>5. PICK i \in PID :
            /\ m = [type |-> "newview_ch", rdata |-> m.rdata,
                    signs |-> {Signature(i, m.rdata)}]
            /\ m.rdata.phase = NEWVIEW => ReportSound(K, i, m.rdata)
        BY <2>2 DEF NewviewSound
  <2>6. m.type = "newview_ch" /\ m.signs = {Signature(i, m.rdata)}
        BY <2>5
  <2>7. Of(m, i)
        BY <2>3, <2>4, <2>5, <2>6
  <2>8. DOMAIN m = {"type", "rdata", "signs"}
        BY <2>5
  <2>9. QED
        BY <2>5, <2>6, <2>7, <2>8
<1> HIDE DEF here
<1>2. \A m \in here : f[m] \in PID /\ Of(m, f[m])
      BY <1>1
<1>3. f \in [here -> PID]
      BY <1>2
<1> HIDE DEF f
<1>4. ASSUME NEW m1 \in here, NEW m2 \in here, f[m1] = f[m2] PROVE m1 = m2
  <2> DEFINE i == f[m1]
             v == u - 1
  <2>1. i \in PID /\ Of(m1, i) /\ Of(m2, i) /\ v \in Nat
        BY <1>2, <1>4
  <2> HIDE DEF i, v
  <2>2. PICK j1 \in DOMAIN K.proposed :
            Prepared(K, i, v, j1) /\ m1.rdata = RData(Dummy, v, HashOf(K, j1), j1, NEWVIEW)
        BY <2>1 DEF ReportSound, v
  <2>3. PICK j2 \in DOMAIN K.proposed :
            Prepared(K, i, v, j2) /\ m2.rdata = RData(Dummy, v, HashOf(K, j2), j2, NEWVIEW)
        BY <2>1 DEF ReportSound, v
  <2>4. j1 \in Nat /\ j2 \in Nat
        BY DEF Sound, LedgerType
  <2>5. j1 = j2
        BY <2>1, <2>2, <2>3, <2>4, PreparedFact
  <2>6. m1.rdata = m2.rdata
        BY <2>2, <2>3, <2>5
  <2>7. m1.signs = m2.signs /\ m1.type = m2.type
        BY <1>1, <2>1, <2>6
  <2>8. QED
        BY <1>1, <2>6, <2>7
<1>5. f \in Injection(here, PID)
      BY <1>3, <1>4 DEF Injection, IsInjective
<1>6. \A m \in here : ReportSound(K, f[m], m.rdata)
      BY <1>2
<1>7. QED
      BY <1>1, <1>5, <1>6 DEF here

(* What the justification of the block of view u must be: of the view      *)
(* before, and for a certified block of that view or for the highest       *)
(* prepared one that a quorum report.                                      *)
JustFor(K, u, j) ==
    LET v == getCView(j)
    IN  /\ j.set /\ j.rdata.propv \in Nat /\ u = j.rdata.propv + 1
        /\ j.rdata.phase \in Phase /\ getSigners(j.signs) \in SUBSET PID
        /\ v \in DOMAIN K.proposed /\ v < u /\ getCHash(j) = HashOf(K, v)
        /\ \/ v + 1 = u /\ Certified(K, v)
           \/ (v + 1 = u => u = 1) /\ Supported(K, u, v)

(* A certificate stands for the block that was voted for (Just::getCView). *)
LEMMA CertFact ==
    ASSUME NEW K, NEW j, CertSound(K, j)
    PROVE  getCView(j) = j.rdata.propv /\ getCHash(j) = j.rdata.proph
<1>1. Cardinality(j.signs) = QSize
      BY DEF CertSound
<1>2. QSize # 1 /\ QSize # 0
  <2>1. NumFaults \in Nat /\ NumFaults >= 1 /\ ConstFactor \in Nat /\ ConstFactor >= 2
        BY FaultAssumption
  <2>2. ConstFactor * NumFaults \in Nat /\ ConstFactor * NumFaults >= 2 * NumFaults
        BY <2>1
  <2>3. QED
        BY <2>1, <2>2 DEF QSize, Total
<1>3. ~wellFormedNv(j) /\ ~wellFormedInit(j)
  <2>1. Cardinality({}) = 0
        BY FS_EmptySet
  <2>2. QED
        BY <1>1, <1>2, <2>1 DEF wellFormedNv, wellFormedInit
<1>4. QED
      BY <1>3 DEF getCView, getCHash

(* A certificate of the last view justifies the next block.                *)
LEMMA CertJustifies ==
    ASSUME NEW K, Sound(K), NEW u \in Nat, NEW j, CertSound(K, j), j.set,
           j.rdata.propv + 1 = u
    PROVE  JustFor(K, u, j)
<1>1. /\ Certified(K, j.rdata.propv) /\ j.rdata.proph = HashOf(K, j.rdata.propv)
      /\ j.rdata.phase \in Phase /\ getSigners(j.signs) \in SUBSET PID
      BY DEF CertSound
<1>2. j.rdata.propv \in DOMAIN K.proposed /\ j.rdata.propv \in Nat
      BY <1>1, CertifiedFact
<1>3. QED
      BY <1>1, <1>2, CertFact DEF JustFor

(* So does the highest of the new-view messages of a quorum.               *)
LEMMA HighestJustifies ==
    ASSUME NEW K, Sound(K), NEW n \in PID, NEW s, LogSound(K, n, s.log),
           NEW u \in Nat \ {0}, getLeaderOf(u) = n,
           Cardinality(InView(s.log.newviewsCh, u - 1)) >= QSize
    PROVE  /\ JustFor(K, u, findHighestNvCh(s, u - 1))
           /\ \A m \in InView(s.log.newviewsCh, u - 1) :
                 m.rdata.justv <= getCView(findHighestNvCh(s, u - 1))
<1> DEFINE msgs == s.log.newviewsCh
           here == InView(msgs, u - 1)
           best == findHighestNv(msgs, u - 1)
<1>1. IsFiniteSet(msgs) /\ IsFiniteSet(here) /\ here \subseteq msgs
      BY InViewFinite DEF LogSound
<1>2. here # {}
      BY QuorumMember
<1>3. /\ \A m \in here : \E i \in PID :
            /\ m.signs = {Signature(i, m.rdata)}
            /\ m.rdata.propv = u - 1 /\ ReportSound(K, i, m.rdata)
      /\ \E f \in Injection(here, PID) : \A m \in here :
            ReportSound(K, f[m], m.rdata)
      BY ReportsFact
<1>4. \A m \in msgs : Signed(m) /\ m.rdata.justv \in Nat
  <2>1. ASSUME NEW m \in msgs PROVE Signed(m) /\ m.rdata.justv \in Nat
    <3>1. NewviewSound(K, m)
          BY DEF LogSound
    <3>2. PICK i \in PID : m = [type |-> "newview_ch", rdata |-> m.rdata,
                                signs |-> {Signature(i, m.rdata)}]
          BY <3>1 DEF NewviewSound
    <3>3. m.signs = {Signature(i, m.rdata)}
          BY <3>2
    <3>4. QED
          BY <3>1, <3>3, SingleSigned DEF NewviewSound
  <2>2. QED
        BY <2>1
<1>5. PICK m \in here : /\ best = Just(m.rdata, m.signs)
                        /\ \A k \in here : k.rdata.justv <= m.rdata.justv
      BY <1>1, <1>2, <1>4, HighestFact
<1>6. best.set /\ best.rdata = m.rdata /\ best.signs = m.signs
      BY <1>5 DEF Just
<1> HIDE DEF best
<1>7. PICK i \in PID : /\ m.signs = {Signature(i, m.rdata)}
                       /\ m.rdata.propv = u - 1 /\ ReportSound(K, i, m.rdata)
      BY <1>3
<1>8. PICK j \in DOMAIN K.proposed :
          /\ Prepared(K, i, u - 1, j)
          /\ m.rdata = RData(Dummy, u - 1, HashOf(K, j), j, NEWVIEW)
      BY <1>7 DEF ReportSound
<1>9. /\ m.rdata.justv = j /\ m.rdata.justh = HashOf(K, j)
      /\ m.rdata.phase = NEWVIEW /\ HashOf(K, j) # Dummy /\ j \in Nat
      BY <1>8, BlockFact DEF RData
<1>10. Cardinality(m.signs) = 1 /\ getSigners(m.signs) = {i}
  <2>1. getSigners(m.signs) = {i}
        BY <1>7, SingleSigned
  <2>2. Cardinality(m.signs) = 1
        BY <1>7, FS_Singleton
  <2>3. QED
        BY <2>1, <2>2
<1>11. wellFormedNv(best)
       BY <1>6, <1>9, <1>10 DEF wellFormedNv, isDummy
<1>12. getCView(best) = j /\ getCHash(best) = HashOf(K, j)
       BY <1>6, <1>9, <1>11 DEF getCView, getCHash
<1>13. j < u /\ (j + 1 = u => u = 1)
  <2>1. u - 1 \in Nat
        OBVIOUS
  <2>2. j <= u - 1 /\ (j = u - 1 => u - 1 = 0)
        BY <1>8, <1>9, <2>1, PreparedFact
  <2>3. QED
        BY <1>9, <2>1, <2>2
<1>14. Supported(K, u, j)
  <2>1. PICK f \in Injection(here, PID) :
            \A k \in here : ReportSound(K, f[k], k.rdata)
        BY <1>3
  <2> DEFINE S == {p \in PID : /\ u <= K.view[p]
                               /\ \E x \in 0 .. j : Prepared(K, p, u - 1, x)}
  <2>2. ASSUME NEW k \in here PROVE f[k] \in S
    <3>1. f[k] \in PID /\ ReportSound(K, f[k], k.rdata) /\ k.rdata.propv = u - 1
          BY <1>3, <2>1 DEF Injection
    <3>2. PICK x \in DOMAIN K.proposed :
              /\ Prepared(K, f[k], u - 1, x)
              /\ k.rdata = RData(Dummy, u - 1, HashOf(K, x), x, NEWVIEW)
          BY <3>1 DEF ReportSound
    <3>3. k.rdata.justv = x /\ x \in Nat
          BY <3>2 DEF RData, Sound, LedgerType
    <3>4. x <= j
          BY <1>5, <1>9, <3>3
    <3>5. u - 1 < K.view[f[k]] /\ K.view[f[k]] \in Nat
          BY <3>1 DEF ReportSound, Sound, LedgerType
    <3>6. QED
          BY <1>9, <3>1, <3>2, <3>3, <3>4, <3>5
  <2>3. IsFiniteSet(S) /\ Cardinality(S) \in Nat /\ S \in SUBSET PID
    <3>1. S \in SUBSET PID
          OBVIOUS
    <3> HIDE DEF S
    <3>2. QED
          BY <3>1, ReplicasFinite, FS_Subset, FS_CardinalityType
  <2>4. f \in Injection(here, S)
        BY <2>1, <2>2 DEF Injection, IsInjective
  <2> HIDE DEF S
  <2>5. Cardinality(here) <= Cardinality(S)
        BY <2>3, <2>4, FS_Injection
  <2>6. Cardinality(S) >= QSize
        BY <1>1, <2>3, <2>5, FS_CardinalityType, QuorumSizes
  <2>7. \A p \in S : /\ u <= K.view[p]
                     /\ \E x \in 0 .. j : Prepared(K, p, u - 1, x)
        BY DEF S
  <2>8. QED
        BY <2>3, <2>6, <2>7 DEF Supported
<1>15. JustFor(K, u, best)
  <2>1. best.rdata.propv = u - 1 /\ best.rdata.phase \in Phase
        BY <1>6, <1>7, <1>9 DEF Phase
  <2>2. QED
        BY <1>6, <1>10, <1>12, <1>13, <1>14, <2>1 DEF JustFor
<1>16. \A k \in here : k.rdata.justv <= getCView(best)
       BY <1>5, <1>9, <1>12
<1>17. QED
       BY <1>15, <1>16 DEF findHighestNvCh, best

(* The justification that a leader takes (latestJust).                     *)
LEMMA LatestJustifies ==
    ASSUME NEW K, Sound(K), NEW n \in PID, NEW s, ReplicaSound(K, n, s),
           s.view # 0, getLeaderOf(s.view) = n, s.view \notin DOMAIN s.jblocks,
           \/ s.justNV.set /\ s.justNV.rdata.propv + 1 = s.view
           \/ Cardinality(InView(s.log.newviewsCh, s.view - 1)) >= QSize
    PROVE  JustFor(K, s.view, latestJust(s))
<1> DEFINE u == s.view
           j == latestJust(s)
<1>1. BodySound(K, n, s) /\ u \in Nat \ {0}
      BY DEF ReplicaSound, BodySound, Shape
<1>2. CASE s.justNV.set /\ s.justNV.rdata.propv + 1 = u
  <2>1. s.justNV.rdata.propv \in Nat /\ CertSound(K, s.justNV)
        BY <1>1, <1>2 DEF BodySound, JustSound
  <2>2. j = s.justNV
        BY <1>1, <1>2, <2>1 DEF latestJust
  <2> HIDE DEF j
  <2>3. QED
        BY <1>1, <1>2, <2>1, <2>2, CertJustifies DEF j
<1>3. CASE /\ ~(s.justNV.set /\ s.justNV.rdata.propv + 1 = u)
           /\ Cardinality(InView(s.log.newviewsCh, u - 1)) >= QSize
  <2>1. s.justNV.set => s.justNV.rdata.propv \in Nat
        BY <1>1 DEF BodySound, JustSound
  <2>2. j = findHighestNvCh(s, u - 1)
        BY <1>1, <1>3, <2>1 DEF latestJust
  <2> HIDE DEF j
  <2>3. QED
        BY <1>1, <1>3, <2>2, HighestJustifies DEF BodySound, j
<1>4. QED
      BY <1>2, <1>3

(* prepareCh: the leader makes a block and votes for it.                   *)
LEMMA PrepareChFact ==
    ASSUME NEW K, Sound(K), NEW n \in PID, NEW s, ReplicaSound(K, n, s),
           s.pending # "prepareCh", s.view # 0, getLeaderOf(s.view) = n,
           s.view \notin DOMAIN s.jblocks,
           \/ s.justNV.set /\ s.justNV.rdata.propv + 1 = s.view
           \/ Cardinality(InView(s.log.newviewsCh, s.view - 1)) >= QSize
    PROVE  Leads(K, n, prepareCh(s))
<1> DEFINE u     == s.view
           j     == latestJust(s)
           trans == NextTrans(s)
           block == JBlock(u, j, trans)
           rest  == SubSeq(s.transactions, BlockSize(s) + 1, Len(s.transactions))
           s1 == [s EXCEPT !.justNV = j]
           s2 == popTransactions(s1)
           s3 == [s2 EXCEPT !.jblocks = assign(@, s2.view, block)]
           M  == [proposed |-> assign(K.proposed, u, block), voted |-> K.voted,
                  adopted |-> K.adopted, view |-> K.view]
<1>1. /\ BodySound(K, n, s) /\ ComponentSound(K, n, s.tp) /\ Shape(n, s)
      /\ s.myid = n /\ u \in Nat \ {0} /\ s.transactions \in Seq(Nat)
      /\ DOMAIN s = Fields
      BY DEF ReplicaSound, BodySound, Shape
<1>2. JustFor(K, u, j)
      BY LatestJustifies
<1> HIDE DEF j
<1>3. /\ trans \in Seq(Nat) /\ rest \in Seq(Nat)
      BY <1>1, NextTransFact, BlockSizeFact
<1>4. prepareCh(s) = voteCh(s2, block)
  <2>1. s1.view = s.view /\ s1.justNV = j /\ s1.transactions = s.transactions
        BY <1>1 DEF Fields
  <2>2. createNewBlockCh(s1) = block
        BY <2>1 DEF createNewBlockCh, NextTrans, BlockSize
  <2>3. QED
        BY <2>2 DEF prepareCh, j
<1>5. s2 = [s1 EXCEPT !.transactions = rest]
      BY <1>1 DEF popTransactions, BlockSize, Fields
<1>6. BlockType(block) /\ block.view = u /\ block.just = j
  <2>1. block.view = u /\ block.just = j /\ block.trans = trans
        BY DEF JBlock
  <2>2. getCView(j) \in Nat /\ getCHash(j) \in Chain
    <3>1. getCView(j) \in DOMAIN K.proposed
              /\ getCHash(j) = HashOf(K, getCView(j))
          BY <1>2 DEF JustFor
    <3>2. QED
          BY <3>1, BlockFact
  <2>3. j.rdata.propv \in Nat /\ j.rdata.phase \in Phase
            /\ getSigners(j.signs) \in SUBSET PID
        BY <1>2 DEF JustFor
  <2>4. block = JBlock(block.view, block.just, block.trans)
        BY <2>1
  <2> HIDE DEF block
  <2>5. QED
        BY <1>1, <1>3, <2>1, <2>2, <2>3, <2>4 DEF BlockType
<1> HIDE DEF block, trans
<1>7. u \notin DOMAIN K.proposed
      BY <1>1 DEF BodySound, LeaderSound
<1>8. Sound(M) /\ Grows(K, n, M) /\ M.proposed[u] = block
  <2>1. /\ M.proposed = assign(K.proposed, u, block) /\ M.voted = K.voted
        /\ M.adopted = K.adopted /\ M.view = K.view
        OBVIOUS
  <2> DEFINE v == getCView(block.just)
  <2>2. /\ u = block.just.rdata.propv + 1
        /\ v \in DOMAIN K.proposed /\ v < u
        /\ getCHash(block.just) = HashOf(K, v)
        /\ \/ v + 1 = u /\ Certified(K, v)
           \/ (v + 1 = u => u = 1) /\ Supported(K, u, v)
        BY <1>2, <1>6 DEF JustFor
  <2>3. v = getCView(block.just)
        OBVIOUS
  <2> HIDE DEF M, v, u
  <2>4. getLeaderOf(u) = n
        BY DEF u
  <2>5. QED
        BY <1>1, <1>6, <1>7, <2>1, <2>2, <2>3, <2>4, LedgerPropose
<1>9. /\ DOMAIN M.proposed = DOMAIN K.proposed \cup {u}
      /\ M.adopted = K.adopted /\ M.view = K.view
      BY DEF assign
<1> HIDE DEF M
<1>10. /\ DOMAIN s2 = Fields
       /\ s2.view = s.view /\ s2.timer = s.timer /\ s2.pending = s.pending
       /\ s2.justNV = j /\ s2.tp = s.tp /\ s2.started = s.started
       /\ s2.myid = s.myid /\ s2.transactions = rest
       /\ s2.fromClient = s.fromClient /\ s2.executed = s.executed
       /\ s2.jblocks = s.jblocks /\ s2.out = s.out /\ s2.log = s.log
       BY <1>1, <1>5 DEF Fields
<1> HIDE DEF s2, s1, rest
<1>11. BodySound(M, n, s3)
  <2>1. /\ LogSound(M, n, s.log) /\ OutSound(M, s.out)
        /\ BlocksSound(M, s) /\ ExecutedSound(M, s)
        BY <1>1, <1>8, RestGrows
  <2>2. /\ LogSound(M, n, s2.log) /\ OutSound(M, s2.out)
        /\ BlocksSound(M, s2) /\ ExecutedSound(M, s2)
        BY <1>10, <2>1 DEF BlocksSound, ExecutedSound
  <2>3. Shape(n, s2)
        BY <1>1, <1>3, <1>10 DEF Shape
  <2>4. \A v \in DOMAIN M.proposed \ {0} :
            getLeaderOf(v) = n => v \in DOMAIN s2.jblocks \/ v = s2.view
        BY <1>1, <1>9, <1>10 DEF BodySound, LeaderSound
  <2>5. s2.justNV.rdata.propv \in Nat /\ s2.justNV.rdata.propv < s2.view
        BY <1>2, <1>10 DEF JustFor
  <2>6. s2.view \in DOMAIN M.proposed \ {0} /\ M.proposed[s2.view] = block
            /\ s2.pending # "prepareCh"
        BY <1>1, <1>8, <1>9, <1>10
  <2>7. QED
        BY <1>8, <2>2, <2>3, <2>4, <2>5, <2>6, NoteFact
<1>12. ReplicaSound(M, n, s3)
  <2>1. ComponentSound(M, n, s.tp)
        BY <1>1, <1>8, <1>9, ComponentGrows
  <2>2. s3.tp = s.tp
        BY <1>10 DEF Fields
  <2> HIDE DEF s3
  <2>3. QED
        BY <1>11, <2>1, <2>2 DEF ReplicaSound
<1>13. Leads(M, n, voteCh(s2, block))
  <2>1. s2.view \in DOMAIN M.proposed \ {0} /\ block = M.proposed[s2.view]
            /\ s2.myid = n
        BY <1>1, <1>8, <1>9, <1>10
  <2>2. QED
        BY <1>8, <1>10, <1>12, <2>1, VoteChFact
<1>14. QED
       BY <1>4, <1>8, <1>13, LeadsOn

-----------------------------------------------------------------------------
(* Handlers.                                                               *)

(* handleNewviewCh has a quorum of messages once it has logged the last.   *)
LEMMA QuorumLogged ==
    ASSUME NEW K, Sound(K), NEW n \in PID, NEW s, ReplicaSound(K, n, s),
           NEW m, NewviewSound(K, m), m.rdata.phase = NEWVIEW,
           m.rdata.propv + 1 = s.view,
           store(s.log.newviewsCh, m).size >= QSize
    PROVE  LET u == storeNvCh(s, m)
           IN  /\ ReplicaSound(K, n, u) /\ Like(s, u)
               /\ Cardinality(InView(u.log.newviewsCh, u.view - 1)) >= QSize
<1> DEFINE v == m.rdata.propv
           u == storeNvCh(s, m)
           r == store(s.log.newviewsCh, m)
<1>1. /\ BodySound(K, n, s) /\ IsFiniteSet(s.log.newviewsCh) /\ v \in Nat
      /\ s.view \in Nat
      BY DEF ReplicaSound, BodySound, Shape, LogSound, NewviewSound
<1>2. /\ BodySound(K, n, u) /\ Like(s, u) /\ u.tp = s.tp
      /\ u.log.newviewsCh = r.msgs
  <2>1. /\ BodySound(K, n, s) /\ NewviewSound(K, m)
        /\ getLeaderOf(m.rdata.propv + 1) = n => m.rdata.phase = NEWVIEW
        BY <1>1
  <2>2. QED
        BY ONLY <2>1, n \in PID, StoreNvFact
<1> HIDE DEF u
<1>3. ReplicaSound(K, n, u)
      BY <1>2 DEF ReplicaSound
<1>4. u.view - 1 = v
      BY <1>1, <1>2 DEF Like
<1>5. ViewOf(m) = v
      BY ViewOfFact
<1>6. r.size # 0 /\ r.size \in Nat
      BY <1>1, StoreFact, QuorumSizes
<1>7. r.size = Cardinality(InView(r.msgs, ViewOf(m)))
      BY <1>1, <1>6, StoreFact
<1>8. r.size >= QSize
      OBVIOUS
<1> HIDE DEF r, v
<1>9. Cardinality(InView(u.log.newviewsCh, u.view - 1)) >= QSize
      BY <1>2, <1>4, <1>5, <1>7, <1>8
<1>10. QED
       BY <1>2, <1>3, <1>9 DEF u

(* handleNewviewCh: a quorum of new-view messages starts the view.         *)
LEMMA HandleNewviewFact ==
    ASSUME NEW K, Sound(K), NEW n \in PID, NEW s, ReplicaSound(K, n, s),
           s.pending # "prepareCh", NEW m, NewviewSound(K, m)
    PROVE  Leads(K, n, handleNewviewCh(s, m))
<1> DEFINE v == m.rdata.propv
           u == storeNvCh(s, m)
           r == store(s.log.newviewsCh, m)
           accepted == /\ m.rdata.phase = NEWVIEW /\ getLeaderOf(v + 1) = n
           ready == /\ v + 1 = s.view /\ r.size >= QSize
                    /\ s.view \notin DOMAIN s.jblocks
<1>1. /\ BodySound(K, n, s) /\ LogSound(K, n, s.log) /\ s.myid = n
      /\ IsFiniteSet(s.log.newviewsCh) /\ v \in Nat
      BY DEF ReplicaSound, BodySound, Shape, LogSound, NewviewSound
<1>2. \/ handleNewviewCh(s, m) = s
      \/ accepted /\ handleNewviewCh(s, m) = u
      \/ accepted /\ ready /\ handleNewviewCh(s, m) = prepareCh(u)
      BY <1>1 DEF handleNewviewCh, amLeaderOf
<1>3. CASE handleNewviewCh(s, m) = s
      BY <1>3, LeadsWithout
<1>4. CASE accepted
  <2>1. /\ BodySound(K, n, u) /\ Like(s, u) /\ u.tp = s.tp
        /\ u.log.newviewsCh = r.msgs
        BY <1>1, <1>4, StoreNvFact
  <2> HIDE DEF u
  <2>2. ReplicaSound(K, n, u)
        BY <2>1 DEF ReplicaSound
  <2>3. Leads(K, n, u)
        BY <2>2, LeadsWithout
  <2>4. ASSUME ready PROVE Leads(K, n, prepareCh(u))
    <3>1. /\ u.view = s.view /\ u.jblocks = s.jblocks /\ u.pending = s.pending
          /\ s.view - 1 = v /\ s.view # 0
          BY <1>1, <2>1, <2>4 DEF Like
    <3>2. Cardinality(InView(u.log.newviewsCh, u.view - 1)) >= QSize
          BY <1>4, <2>4, QuorumLogged DEF u
    <3>3. QED
          BY <1>4, <2>2, <2>4, <3>1, <3>2, PrepareChFact
  <2>5. QED
        BY <1>2, <1>3, <2>3, <2>4 DEF u
<1>5. QED
      BY <1>2, <1>3, <1>4

(* The vote that a proposal carries, if it verifies.                       *)
LEMMA LeaderVote ==
    ASSUME NEW K, Sound(K), NEW m, ProposalSound(K, m),
           verify(ldrPrepareCh2just(m).signs, ldrPrepareCh2just(m).rdata)
    PROVE  PrepareSound(K, MsgPrepareCh(ldrPrepareCh2just(m)))
<1> DEFINE just == ldrPrepareCh2just(m)
<1>1. just.signs = m.signs /\ MsgPrepareCh(just).rdata = just.rdata
      BY DEF ldrPrepareCh2just, Just, MsgPrepareCh
<1>2. PICK i \in PID : \E rdata : /\ m.signs = {Signature(i, rdata)}
                                  /\ VoteSound(K, i, rdata)
      BY DEF ProposalSound
<1>3. PICK rdata : m.signs = {Signature(i, rdata)} /\ VoteSound(K, i, rdata)
      BY <1>2
<1>4. rdata = just.rdata
      BY <1>1, <1>3 DEF verify, Signature
<1>5. MsgPrepareCh(just) = [type |-> "prepare_ch", rdata |-> just.rdata,
                            signs |-> {Signature(i, just.rdata)}]
      BY <1>1, <1>3, <1>4 DEF MsgPrepareCh
<1> HIDE DEF just
<1>6. PrepareSound(K, MsgPrepareCh(just))
      BY <1>1, <1>3, <1>4, <1>5 DEF PrepareSound
<1>7. QED
      BY <1>6 DEF just

(* handleLdrPrepareCh.                                                     *)
LEMMA HandleLdrPrepareFact ==
    ASSUME NEW K, Sound(K), NEW n \in PID, NEW s, ReplicaSound(K, n, s),
           s.pending # "prepareCh", NEW m, ProposalSound(K, m)
    PROVE  Leads(K, n, handleLdrPrepareCh(s, m))
<1> DEFINE v    == m.block.view
           just == ldrPrepareCh2just(m)
           s1   == IF amLeaderOf(s, v + 1)
                   THEN storePrepCh(s, MsgPrepareCh(just)) ELSE s
           s2   == storeLdrPrepCh(s1, m)
<1>1. BodySound(K, n, s)
      BY DEF ReplicaSound
<1>2. \/ handleLdrPrepareCh(s, m) = s
      \/ /\ verify(just.signs, just.rdata)
         /\ \/ v = s.view /\ handleLdrPrepareCh(s, m) = voteCh(s1, m.block)
            \/ handleLdrPrepareCh(s, m) = handleEarlierMessagesCh(s2)
      BY DEF handleLdrPrepareCh
<1>3. CASE handleLdrPrepareCh(s, m) = s
      BY <1>3, LeadsWithout
<1>4. CASE verify(just.signs, just.rdata)
  <2>1. Like(s, s)
        BY <1>1 DEF Like, BodySound, Shape
  <2>2. PrepareSound(K, MsgPrepareCh(just))
        BY <1>4, LeaderVote
  <2>3. BodySound(K, n, s1) /\ Like(s, s1) /\ s1.tp = s.tp
        BY <1>1, <2>1, <2>2, StorePrepFact
  <2> HIDE DEF s1
  <2>4. BodySound(K, n, s2) /\ Like(s1, s2) /\ s2.tp = s1.tp
        BY <2>3, StoreLdrPrepFact
  <2> HIDE DEF s2
  <2>5. ReplicaSound(K, n, s1) /\ s1.view = s.view /\ s1.pending # "prepareCh"
        BY <2>3 DEF ReplicaSound, Like
  <2>6. ReplicaSound(K, n, s2) /\ s2.pending # "prepareCh"
        BY <2>3, <2>4, <2>5 DEF ReplicaSound, Like
  <2>7. Leads(K, n, handleEarlierMessagesCh(s2))
        BY <2>6, HandleEarlierFact
  <2>8. v = s.view => Leads(K, n, voteCh(s1, m.block))
        BY <2>5, VoteForFact
  <2>9. QED
        BY <1>2, <1>3, <2>7, <2>8 DEF s1, s2
<1>5. QED
      BY <1>2, <1>3, <1>4

(* handlePrepareCh.                                                        *)
LEMMA HandlePrepareFact ==
    ASSUME NEW K, Sound(K), NEW n \in PID, NEW s, ReplicaSound(K, n, s),
           NEW m, PrepareSound(K, m)
    PROVE  Leads(K, n, handlePrepareCh(s, m))
<1> DEFINE v == m.rdata.propv
           u == storePrepCh(s, m)
           w == checkNewJustCh(u, m.rdata)
<1>1. BodySound(K, n, s) /\ s.myid = n
      BY DEF ReplicaSound, BodySound, Shape
<1>2. \/ handlePrepareCh(s, m) = s
      \/ handlePrepareCh(s, m) = u
      \/ v = s.view /\ getLeaderOf(v + 1) = n /\ handlePrepareCh(s, m) = w
      BY <1>1 DEF handlePrepareCh, amLeaderOf
<1>3. BodySound(K, n, u) /\ Like(s, u) /\ u.tp = s.tp
      BY <1>1, StorePrepFact
<1>4. PICK i \in PID : VoteSound(K, i, m.rdata)
      BY DEF PrepareSound
<1>5. v # 0
      BY <1>4 DEF VoteSound, Sound, AdoptedSound
<1> HIDE DEF u
<1>6. ReplicaSound(K, n, u) /\ u.view = s.view
      BY <1>3 DEF ReplicaSound, Like
<1>7. ASSUME v = s.view, getLeaderOf(v + 1) = n PROVE Leads(K, n, w)
  <2>1. BodySound(K, n, w) /\ w.tp = u.tp
        BY <1>3, <1>4, <1>5, <1>6, <1>7, CheckNewJustFact
  <2> HIDE DEF w
  <2>2. ReplicaSound(K, n, w)
        BY <1>6, <2>1 DEF ReplicaSound
  <2>3. QED
        BY <2>2, LeadsWithout
<1>8. QED
      BY <1>2, <1>6, <1>7, LeadsWithout DEF u

(* startNewViewCh: the component catches up, and the next view begins.     *)
LEMMA StartNewViewFact ==
    ASSUME NEW K, Sound(K), NEW n \in PID, NEW s, ReplicaSound(K, n, s),
           s.view # 0
    PROVE  Leads(K, n, startNewViewCh(s))
<1> DEFINE r    == TEEsignUpTo(n, s.tp, s.view)
           m    == MsgNewViewCh(r.just)
           s0   == [s EXCEPT !.tp = r.tee]
           s1   == sendNvCh(s0, m)
           call == IF amLeaderOf(s, s.view + 1) THEN "none"
                   ELSE "handleEarlierMessagesCh"
           u    == nextView(s1, call)
<1>1. /\ s.myid = n /\ s.view \in Nat
      /\ BodySound(K, n, s) /\ ComponentSound(K, n, s.tp)
      BY DEF ReplicaSound, BodySound, Shape
<1>2. startNewViewCh(s) = u
      BY <1>1 DEF startNewViewCh
<1>3. call # "prepareCh"
      OBVIOUS
<1>4. PICK L : /\ Sound(L) /\ Grows(K, n, L) /\ L.proposed = K.proposed
               /\ ComponentSound(L, n, r.tee) /\ NewviewSound(L, m)
               /\ m.rdata.phase = NEWVIEW
      BY <1>1, SignUpToFact
<1> HIDE DEF r, m, call
<1>5. BodySound(L, n, s0) /\ Like(s, s0) /\ s0.tp = r.tee
  <2>1. BodySound(L, n, s)
        BY <1>1, <1>4, BodyGrows
  <2>2. QED
        BY <2>1, UpdateFact
<1> HIDE DEF s0
<1>6. BodySound(L, n, s1) /\ Like(s0, s1) /\ s1.tp = s0.tp
      BY <1>4, <1>5, SendNvFact
<1> HIDE DEF s1
<1>7. s1.view # 0
      BY <1>5, <1>6 DEF Like
<1>8. BodySound(L, n, u) /\ u.tp = s1.tp
      BY <1>3, <1>4, <1>6, <1>7, NextViewFact
<1> HIDE DEF u
<1>9. ReplicaSound(L, n, u)
      BY <1>4, <1>5, <1>6, <1>8 DEF ReplicaSound
<1>10. QED
       BY <1>2, <1>4, <1>9 DEF Leads

(* The same blocks have been proposed.                                     *)
SameBlocks(K, L) == L.proposed = K.proposed

(* getStartedCh: from view 0, in which a replica knows no blocks, to view  *)
(* 1, with a signed new-view message.                                      *)
LEMMA EnterFirstView ==
    ASSUME NEW K, Sound(K), NEW n \in PID, NEW s, ReplicaSound(K, n, s),
           s.view = 0, NEW started, started = [s EXCEPT !.started = TRUE],
           s.pending # "prepareCh"
    PROVE  LET r  == TEEsign(n, s.tp)
               m  == MsgNewViewCh(r.just)
               s1 == [started EXCEPT !.tp = r.tee, !.view = 1,
                                     !.jblocks = assign(@, 0, GenesisBlock)]
           IN  /\ \E L : /\ Sound(L) /\ Grows(K, n, L)
                         /\ ReplicaSound(L, n, s1) /\ NewviewSound(L, m)
                         /\ SameBlocks(K, L)
               /\ s1.view = 1 /\ s1.pending # "prepareCh"
               /\ started.myid = n /\ started.tp = s.tp
               /\ s1.jblocks = assign(<<>>, 0, GenesisBlock) /\ s.jblocks = <<>>
<1> DEFINE r  == TEEsign(n, s.tp)
           m  == MsgNewViewCh(r.just)
           jb == assign(<<>>, 0, GenesisBlock)
           s1 == [started EXCEPT !.tp = r.tee, !.view = 1,
                                 !.jblocks = assign(@, 0, GenesisBlock)]
<1>1. /\ s.myid = n /\ BodySound(K, n, s) /\ ComponentSound(K, n, s.tp)
      /\ DOMAIN s = Fields /\ s.jblocks = <<>> /\ Shape(n, s)
      BY DEF ReplicaSound, BodySound, Shape
<1>2. started.myid = n /\ started.tp = s.tp /\ started.jblocks = <<>>
      BY <1>1 DEF Fields
<1>4. PICK L : /\ Sound(L) /\ Grows(K, n, L) /\ L.proposed = K.proposed
               /\ ComponentSound(L, n, r.tee) /\ NewviewSound(L, m)
      BY <1>1, SignFact
<1>5. /\ DOMAIN s1 = Fields
      /\ s1.view = 1 /\ s1.timer = s.timer /\ s1.pending = s.pending
      /\ s1.justNV = s.justNV /\ s1.tp = r.tee /\ s1.started = TRUE
      /\ s1.myid = n /\ s1.transactions = s.transactions
      /\ s1.fromClient = s.fromClient /\ s1.executed = s.executed
      /\ s1.jblocks = jb /\ s1.out = s.out /\ s1.log = s.log
      BY <1>1, <1>2 DEF Fields
<1> HIDE DEF r, m, s1
<1>6. DOMAIN jb = {0} /\ jb[0] = GenesisBlock
      BY DEF assign
<1> HIDE DEF jb
<1>7. BodySound(L, n, s)
      BY <1>1, <1>4, BodyGrows
<1>8. ReplicaSound(L, n, s1)
  <2>1. Shape(n, s1)
        BY <1>1, <1>5, <1>6 DEF Shape
  <2>2. LogSound(L, n, s1.log) /\ OutSound(L, s1.out)
        BY <1>5, <1>7 DEF BodySound
  <2>3. GenesisBlock.executed = FALSE
            /\ GenesisBlock = [GenesisBlock EXCEPT !.executed = FALSE]
        BY GenesisFact, FreshBlock
  <2>4. BlocksSound(L, s1)
    <3>1. L.proposed[0] = GenesisBlock /\ 0 \in DOMAIN L.proposed
          BY <1>4 DEF Sound, LedgerType
    <3>2. ASSUME NEW v \in DOMAIN s1.jblocks
          PROVE  /\ v \in DOMAIN L.proposed /\ v <= s1.view
                 /\ s1.jblocks[v].executed \in BOOLEAN
                 /\ s1.jblocks[v] = [L.proposed[v] EXCEPT
                                         !.executed = s1.jblocks[v].executed]
      <4>1. v = 0 /\ s1.jblocks[v] = GenesisBlock
            BY <1>5, <1>6
      <4>2. s1.jblocks[v].executed = FALSE
            BY <2>3, <4>1
      <4>3. s1.jblocks[v] = [L.proposed[v] EXCEPT !.executed = FALSE]
            BY <2>3, <3>1, <4>1
      <4>4. v \in DOMAIN L.proposed /\ v <= s1.view
            BY <1>5, <3>1, <4>1
      <4> DEFINE e == s1.jblocks[v].executed
      <4>5. e = FALSE
            BY <4>2
      <4> HIDE DEF e
      <4>6. e \in BOOLEAN /\ s1.jblocks[v] = [L.proposed[v] EXCEPT !.executed = e]
            BY <4>3, <4>5
      <4>7. QED
            BY <4>4, <4>6 DEF e
    <3>3. QED
          BY <3>2 DEF BlocksSound
  <2>5. LeaderSound(L, n, s1)
        BY <1>1, <1>5, <1>7 DEF BodySound, LeaderSound
  <2>6. JustSound(L, n, s1)
    <3>1. ~s.justNV.set
          BY <1>7 DEF BodySound, JustSound
    <3>2. QED
          BY <1>5, <3>1 DEF JustSound
  <2>7. ExecutedSound(L, s1)
    <3>1. \A k \in DOMAIN s.executed : FALSE
          BY <1>1, <1>7 DEF BodySound, ExecutedSound
    <3>2. \E Entries : s.executed \in Seq(Entries)
          BY <1>7 DEF BodySound, ExecutedSound
    <3>3. \A v \in DOMAIN s1.jblocks : ~s1.jblocks[v].executed
          BY <1>5, <1>6, <2>3
    <3>4. QED
          BY <1>5, <3>1, <3>2, <3>3 DEF ExecutedSound
  <2>8. QED
        BY <1>4, <1>5, <2>1, <2>2, <2>4, <2>5, <2>6, <2>7
           DEF ReplicaSound, BodySound
<1>9. SameBlocks(K, L)
      BY <1>4 DEF SameBlocks
<1>10. QED
       BY <1>1, <1>2, <1>4, <1>5, <1>8, <1>9 DEF r, m, s1, jb

(* getStartedCh: the leader of view 1 handles its own message, the others  *)
(* send it.                                                                *)
LEMMA GetStartedFact ==
    ASSUME NEW K, Sound(K), NEW n \in PID, NEW s, ReplicaSound(K, n, s),
           s.view = 0, NEW started, started = [s EXCEPT !.started = TRUE],
           s.pending # "prepareCh"
    PROVE  Leads(K, n, getStartedCh(started))
<1> DEFINE r  == TEEsign(n, s.tp)
           m  == MsgNewViewCh(r.just)
           s1 == [started EXCEPT !.tp = r.tee, !.view = 1,
                                 !.jblocks = assign(@, 0, GenesisBlock)]
           u  == send(s1, keep_from_peers(started, getLeaderOf(started.view + 1)), m)
<1>1. /\ \E L : /\ Sound(L) /\ Grows(K, n, L)
                /\ ReplicaSound(L, n, s1) /\ NewviewSound(L, m)
      /\ s1.view = 1 /\ s1.pending # "prepareCh"
      /\ started.myid = n /\ started.tp = s.tp
  <2>1. DOMAIN s = Fields
        BY DEF ReplicaSound, BodySound, Shape
  <2>2. /\ s1.view = 1 /\ s1.pending = s.pending
        /\ started.myid = s.myid /\ started.tp = s.tp
        BY <2>1 DEF Fields
  <2>3. s.myid = n
        BY DEF ReplicaSound, BodySound, Shape
  <2> HIDE DEF r, m
  <2>4. QED
        BY <2>2, <2>3, EnterFirstView DEF r, m
<1>2. PICK L : /\ Sound(L) /\ Grows(K, n, L)
               /\ ReplicaSound(L, n, s1) /\ NewviewSound(L, m)
      BY <1>1
<1>3. \/ getStartedCh(started) = handleNewviewCh(s1, m)
      \/ getStartedCh(started) = handleEarlierMessagesCh(u)
      BY <1>1 DEF getStartedCh
<1> HIDE DEF r, m, s1
<1>4. CASE getStartedCh(started) = handleNewviewCh(s1, m)
  <2>1. Leads(L, n, handleNewviewCh(s1, m))
        BY <1>1, <1>2, HandleNewviewFact
  <2>2. QED
        BY <1>2, <1>4, <2>1, LeadsOn
<1>5. CASE getStartedCh(started) = handleEarlierMessagesCh(u)
  <2>1. MessageSound(L, m)
        BY <1>2 DEF MessageSound
  <2>2. BodySound(L, n, u) /\ Like(s1, u) /\ u.tp = s1.tp
        BY <1>2, <2>1, SendFact DEF ReplicaSound
  <2> HIDE DEF u
  <2>3. ReplicaSound(L, n, u) /\ u.pending # "prepareCh"
        BY <1>1, <1>2, <2>2 DEF ReplicaSound, Like
  <2>4. Leads(L, n, handleEarlierMessagesCh(u))
        BY <1>2, <2>3, HandleEarlierFact
  <2>5. QED
        BY <1>2, <1>5, <2>4, LeadsOn DEF u
<1>6. QED
      BY <1>3, <1>4, <1>5

-----------------------------------------------------------------------------
(* Steps.                                                                  *)

(* A replica moves and the ledger grows; the other replicas stay as they   *)
(* are.                                                                    *)
LEMMA ReplicaStep ==
    ASSUME NEW K, Sound(K), NEW w, DOMAIN w = PID,
           \A m \in PID : ReplicaSound(K, m, w[m]),
           NEW n \in PID, NEW s, Leads(K, n, s), node' = [w EXCEPT ![n] = s]
    PROVE  Accounted'
<1>1. PICK L : Sound(L) /\ Grows(K, n, L) /\ ReplicaSound(L, n, s)
      BY DEF Leads
<1>2. ASSUME NEW m \in PID PROVE ReplicaSound(L, m, node'[m])
  <2>1. CASE m = n
        BY <1>1, <2>1
  <2>2. CASE m # n
    <3>1. node'[m] = w[m]
          BY <2>2
    <3>2. QED
          BY <1>1, <2>2, <3>1, OthersGrow
  <2>3. QED
        BY <2>1, <2>2
<1>3. DOMAIN node' = PID
      OBVIOUS
<1>4. QED
      BY <1>1, <1>2, <1>3 DEF Accounted

(* The fields that the invariant does not speak of may change.             *)
LEMMA AgreeLeads ==
    ASSUME NEW K, Sound(K), NEW n \in PID, NEW s, ReplicaSound(K, n, s),
           NEW u, Agree(s, u), u.tp = s.tp
    PROVE  ReplicaSound(K, n, u) /\ Leads(K, n, u)
<1>1. ReplicaSound(K, n, u)
      BY AgreeFact DEF ReplicaSound
<1>2. QED
      BY <1>1, LeadsWithout

(* A message leaves a connection.                                          *)
LEMMA TakeFact ==
    ASSUME NEW K, NEW p \in PID, NEW s, ReplicaSound(K, p, s),
           NEW n \in PID, NEW k \in 1 .. Len(s.out[n])
    PROVE  ReplicaSound(K, p, [s EXCEPT !.out[n] = SubSeq(@, k + 1, Len(@))])
<1> DEFINE q    == s.out[n]
           rest == SubSeq(q, k + 1, Len(q))
           o    == [s.out EXCEPT ![n] = rest]
           u    == [s EXCEPT !.out = o]
<1>1. /\ DOMAIN s = Fields /\ OutSound(K, s.out) /\ BodySound(K, p, s)
      BY DEF ReplicaSound, BodySound, Shape
<1>2. u = [s EXCEPT !.out[n] = SubSeq(@, k + 1, Len(@))]
      OBVIOUS
<1>3. PICK Msgs : q \in Seq(Msgs)
      BY <1>1 DEF OutSound
<1>4. /\ rest \in Seq(Msgs)
      /\ \A i \in DOMAIN rest : i + k \in DOMAIN q /\ rest[i] = q[i + k]
      BY <1>3
<1> HIDE DEF rest
<1>5. OutSound(K, o)
  <2>1. ASSUME NEW d \in PID
        PROVE  /\ \E M : o[d] \in Seq(M)
               /\ \A i \in DOMAIN o[d] : MessageSound(K, o[d][i])
    <3>1. CASE d = n
          BY <1>1, <1>4, <3>1 DEF OutSound
    <3>2. CASE d # n
      <4>1. o[d] = s.out[d]
            BY <3>2
      <4>2. QED
            BY <1>1, <4>1 DEF OutSound
    <3>3. QED
          BY <3>1, <3>2
  <2>2. DOMAIN o = PID
        BY <1>1 DEF OutSound
  <2>3. QED
        BY <2>1, <2>2 DEF OutSound
<1> HIDE DEF o
<1>6. Like(s, u) /\ u.out = o /\ u.tp = s.tp /\ u.log = s.log
      BY <1>1 DEF Fields, Like
<1> HIDE DEF u
<1>7. LogSound(K, p, u.log) /\ OutSound(K, u.out)
      BY <1>1, <1>5, <1>6 DEF BodySound
<1>8. ReplicaSound(K, p, u)
      BY <1>1, <1>6, <1>7, LikeFact DEF ReplicaSound
<1>9. QED
      BY <1>2, <1>8 DEF u

(* The next message on a connection is sound.                              *)
LEMMA UpcomingFact ==
    ASSUME NEW K, NEW p \in PID, ReplicaSound(K, p, node[p]),
           NEW n \in PID, node[p].out[n] # <<>>
    PROVE  /\ Upcoming(p, n) \in 1 .. Len(node[p].out[n])
           /\ MessageSound(K, node[p].out[n][Upcoming(p, n)])
<1>1. PICK Msgs : node[p].out[n] \in Seq(Msgs)
      BY DEF ReplicaSound, BodySound, OutSound
<1>2. Upcoming(p, n) \in DOMAIN node[p].out[n]
      BY <1>1, UpcomingPosition
<1>3. QED
      BY <1>1, <1>2 DEF ReplicaSound, BodySound, OutSound

(* A message leaves the sender's connection and its receiver moves.        *)
LEMMA ReceiveStep ==
    ASSUME NEW K, Sound(K), DOMAIN node = PID,
           \A m \in PID : ReplicaSound(K, m, node[m]),
           NEW p \in PID, NEW n \in PID, p # n, node[p].out[n] # <<>>,
           NEW s, Leads(K, n, s),
           node' = [node EXCEPT
                       ![p].out[n] = SubSeq(@, Upcoming(p, n) + 1, Len(@)),
                       ![n] = s]
    PROVE  Accounted'
<1> DEFINE k == Upcoming(p, n)
           w == [node EXCEPT ![p].out[n] = SubSeq(@, k + 1, Len(@))]
<1>1. k \in 1 .. Len(node[p].out[n])
      BY UpcomingFact
<1>2. ReplicaSound(K, p, w[p])
      BY <1>1, TakeFact
<1>3. \A m \in PID : ReplicaSound(K, m, w[m])
  <2>1. \A m \in PID : m # p => w[m] = node[m]
        OBVIOUS
  <2>2. QED
        BY <1>2, <2>1
<1>4. DOMAIN w = PID
      OBVIOUS
<1>5. node' = [w EXCEPT ![n] = s]
      OBVIOUS
<1> HIDE DEF w
<1>6. QED
      BY <1>3, <1>4, <1>5, ReplicaStep

(* The type of a sound message is that of the handler it is given to.      *)
LEMMA MessageByType ==
    ASSUME NEW K, NEW m, MessageSound(K, m)
    PROVE  /\ m.type = "newview_ch" => NewviewSound(K, m)
           /\ m.type = "prepare_ch" => PrepareSound(K, m)
           /\ m.type = "ldrprepare_ch" => ProposalSound(K, m)
<1>1. NewviewSound(K, m) => m.type = "newview_ch"
  <2>1. ASSUME NEW i, m = [type |-> "newview_ch", rdata |-> m.rdata,
                           signs |-> {Signature(i, m.rdata)}]
        PROVE  m.type = "newview_ch"
        BY <2>1
  <2>2. QED
        BY <2>1 DEF NewviewSound
<1>2. PrepareSound(K, m) => m.type = "prepare_ch"
  <2>1. ASSUME NEW i, m = [type |-> "prepare_ch", rdata |-> m.rdata,
                           signs |-> {Signature(i, m.rdata)}]
        PROVE  m.type = "prepare_ch"
        BY <2>1
  <2>2. QED
        BY <2>1 DEF PrepareSound
<1>3. ProposalSound(K, m) => m.type = "ldrprepare_ch"
      BY DEF ProposalSound
<1>4. QED
      BY <1>1, <1>2, <1>3 DEF MessageSound

(* A handler takes a message of its type off a connection; a paused        *)
(* replica drops the message.                                              *)
LEMMA DeliverStep ==
    ASSUME Accounted, NEW p \in PID, NEW n \in PID, Deliver(p, n)
    PROVE  Accounted'
<1> DEFINE m == node[p].out[n][Upcoming(p, n)]
           After(s) == node' = [node EXCEPT
               ![p].out[n] = SubSeq(@, Upcoming(p, n) + 1, Len(@)),
               ![n] = s]
<1>1. PICK K : Sound(K) /\ \A i \in PID : ReplicaSound(K, i, node[i])
      BY DEF Accounted
<1>2. /\ p # n /\ node[p].out[n] # <<>> /\ DOMAIN node = PID
      /\ node[n].pending # "prepareCh"
  <2>1. CanReceive(p, n)
        BY DEF Deliver, HandleNewviewCh, HandleLdrPrepareCh, HandlePrepareCh,
               Receive
  <2>2. QED
        BY <2>1 DEF Accounted, CanReceive, Idle
<1>3. MessageSound(K, m)
      BY <1>1, <1>2, UpcomingFact
<1>4. PICK s : /\ \/ s = node[n]
                  \/ m.type = "newview_ch" /\ s = handleNewviewCh(node[n], m)
                  \/ m.type = "ldrprepare_ch" /\ s = handleLdrPrepareCh(node[n], m)
                  \/ m.type = "prepare_ch" /\ s = handlePrepareCh(node[n], m)
               /\ After(s)
      BY DEF Deliver, HandleNewviewCh, HandleLdrPrepareCh, HandlePrepareCh,
             Receive
<1> HIDE DEF m
<1>5. Leads(K, n, s)
      BY <1>1, <1>2, <1>3, <1>4, MessageByType, LeadsWithout,
         HandleNewviewFact, HandleLdrPrepareFact, HandlePrepareFact
<1>6. QED
      BY <1>1, <1>2, <1>4, <1>5, ReceiveStep

(* The steps of a replica on its own: the client's MsgStart, the tail      *)
(* calls of voteCh, the timer, a transaction, and pausing.                 *)
LEMMA OwnStep ==
    ASSUME Accounted, NEW n \in PID,
           \/ Start(n) \/ PrepareCh(n) \/ HandleEarlierMessagesCh(n)
           \/ Timeout(n) \/ HandleTransaction(n) \/ Pause(n) \/ Resume(n)
    PROVE  Accounted'
<1> DEFINE s == node[n]
<1>1. PICK K : Sound(K) /\ \A i \in PID : ReplicaSound(K, i, node[i])
      BY DEF Accounted
<1>2. DOMAIN node = PID
      BY DEF Accounted
<1>3. /\ ReplicaSound(K, n, s) /\ BodySound(K, n, s) /\ Shape(n, s)
      /\ DOMAIN s = Fields /\ s.myid = n /\ s.view \in Nat
      /\ s.transactions \in Seq(Nat) /\ s.fromClient \in Seq(Nat)
      BY <1>1 DEF ReplicaSound, BodySound, Shape
<1>4. ASSUME NEW u, Leads(K, n, u), node' = [node EXCEPT ![n] = u]
      PROVE  Accounted'
      BY <1>1, <1>2, <1>4, ReplicaStep
<1> DEFINE c == [s EXCEPT !.pending = "none"]
<1>5. /\ ReplicaSound(K, n, c) /\ c.pending # "prepareCh"
      /\ c.view = s.view /\ c.jblocks = s.jblocks /\ c.justNV = s.justNV
  <2>1. Agree(s, c) /\ c.tp = s.tp /\ c.pending = "none"
        BY <1>3 DEF Agree, Fields
  <2> HIDE DEF c
  <2>2. QED
        BY <1>1, <2>1, AgreeLeads DEF Agree
<1>6. CASE Start(n)
  <2> DEFINE u == [s EXCEPT !.started = TRUE]
  <2>1. s.view = 0 /\ s.pending # "prepareCh"
        BY <1>3, <1>6 DEF Start, CanStart, Idle, Shape
  <2>2. node' = [node EXCEPT ![n] = getStartedCh(u)]
        BY <1>6 DEF Start
  <2>3. u = [s EXCEPT !.started = TRUE]
        OBVIOUS
  <2> HIDE DEF u
  <2>4. Leads(K, n, getStartedCh(u))
        BY <1>1, <2>1, <2>3, GetStartedFact
  <2>5. QED
        BY <1>4, <2>2, <2>4
<1>7. CASE PrepareCh(n)
  <2>1. /\ s.justNV.set /\ s.justNV.rdata.propv + 1 = s.view
        /\ s.view \notin DOMAIN s.jblocks /\ getLeaderOf(s.view) = n
        /\ s.justNV.rdata.propv \in Nat
        BY <1>3, <1>7 DEF PrepareCh, BodySound, JustSound
  <2>2. node' = [node EXCEPT ![n] = prepareCh(c)]
        BY <1>7 DEF PrepareCh
  <2> HIDE DEF c
  <2>3. s.view # 0
        BY <2>1
  <2>4. Leads(K, n, prepareCh(c))
        BY <1>1, <1>5, <2>1, <2>3, PrepareChFact
  <2>5. QED
        BY <1>4, <2>2, <2>4
<1>8. CASE HandleEarlierMessagesCh(n)
  <2>1. node' = [node EXCEPT ![n] = handleEarlierMessagesCh(c)]
        BY <1>8 DEF HandleEarlierMessagesCh
  <2> HIDE DEF c
  <2>2. QED
        BY <1>1, <1>4, <1>5, <2>1, HandleEarlierFact
<1>9. CASE Timeout(n)
  <2> DEFINE u == [s EXCEPT !.stopped = TRUE, !.timer = FALSE]
  <2>1. Agree(s, u) /\ u.tp = s.tp
        BY <1>3 DEF Agree, Fields
  <2>2. \/ node' = [node EXCEPT ![n] = u]
        \/ node' = [node EXCEPT ![n] = startNewViewCh(s)]
        BY <1>9 DEF Timeout, TimerExpires
  <2>3. s.view # 0
        BY <1>3, <1>9 DEF Timeout, TimerExpires, CanTimeout, Shape
  <2> HIDE DEF u
  <2>4. Leads(K, n, u) /\ Leads(K, n, startNewViewCh(s))
        BY <1>1, <2>1, <2>3, AgreeLeads, StartNewViewFact
  <2>5. QED
        BY <1>4, <2>2, <2>4
<1>10. CASE HandleTransaction(n)
  <2> DEFINE rest  == Tail(s.fromClient)
             queue == IF s.isPaused THEN s.transactions
                      ELSE Append(s.transactions, Head(s.fromClient))
             u == [s EXCEPT !.fromClient = rest, !.transactions = queue]
  <2>1. rest \in Seq(Nat) /\ queue \in Seq(Nat)
        BY <1>3, <1>10 DEF HandleTransaction
  <2>2. node' = [node EXCEPT ![n] = u]
        BY <1>10 DEF HandleTransaction
  <2> HIDE DEF rest, queue
  <2>3. /\ DOMAIN u = Fields
        /\ u.view = s.view /\ u.timer = s.timer /\ u.pending = s.pending
        /\ u.justNV = s.justNV /\ u.tp = s.tp /\ u.started = s.started
        /\ u.myid = s.myid /\ u.transactions = queue
        /\ u.fromClient = rest /\ u.executed = s.executed
        /\ u.jblocks = s.jblocks /\ u.out = s.out /\ u.log = s.log
        BY <1>3 DEF Fields
  <2> HIDE DEF u
  <2>4. Shape(n, u)
        BY <1>3, <2>1, <2>3 DEF Shape
  <2>5. BodySound(K, n, u)
        BY <1>3, <2>3, <2>4 DEF BodySound, BlocksSound, LeaderSound, JustSound,
                                ExecutedSound
  <2>6. ReplicaSound(K, n, u)
        BY <1>3, <2>3, <2>5 DEF ReplicaSound
  <2>7. QED
        BY <1>1, <1>4, <2>2, <2>6, LeadsWithout
<1>11. CASE Pause(n) \/ Resume(n)
  <2>1. PICK b \in BOOLEAN : node' = [node EXCEPT ![n] = [s EXCEPT !.isPaused = b]]
        BY <1>11 DEF Pause, Resume
  <2> DEFINE u == [s EXCEPT !.isPaused = b]
  <2>2. Agree(s, u) /\ u.tp = s.tp
        BY <1>3 DEF Agree, Fields
  <2> HIDE DEF u
  <2>3. Leads(K, n, u)
        BY <1>1, <2>2, AgreeLeads
  <2>4. QED
        BY <1>4, <2>1, <2>3 DEF u
<1>12. QED
       BY <1>6, <1>7, <1>8, <1>9, <1>10, <1>11

-----------------------------------------------------------------------------
(* The initial state.                                                      *)

(* There is the genesis block, and nobody has voted.                       *)
OnlyGenesis ==
    [proposed |-> assign(<<>>, 0, GenesisBlock), voted |-> [n \in PID |-> {}],
     adopted |-> [n \in PID |-> {}], view |-> [n \in PID |-> 0]]

(* That ledger is sound.                                                   *)
LEMMA OnlyGenesisFact ==
    /\ Sound(OnlyGenesis)
    /\ DOMAIN OnlyGenesis.proposed = {0}
    /\ OnlyGenesis.proposed[0] = GenesisBlock
<1> DEFINE K == OnlyGenesis
<1>1. /\ K.proposed = assign(<<>>, 0, GenesisBlock)
      /\ K.voted = [n \in PID |-> {}]
      /\ K.adopted = [n \in PID |-> {}] /\ K.view = [n \in PID |-> 0]
      BY DEF OnlyGenesis
<1>2. DOMAIN K.proposed = {0} /\ K.proposed[0] = GenesisBlock
      BY <1>1 DEF assign
<1> HIDE DEF K
<1>3. LedgerType(K)
      BY <1>1, <1>2, GenesisFact DEF LedgerType
<1>4. AdoptedSound(K) /\ ParentsSound(K)
      BY <1>1, <1>2 DEF AdoptedSound, ParentsSound
<1>5. QED
      BY <1>2, <1>3, <1>4 DEF Sound, K

(* The replicas, as constructed, are accounted for by it.                  *)
LEMMA InitAccounted == Init => Accounted
<1> SUFFICES ASSUME Init PROVE Accounted
    OBVIOUS
<1> DEFINE K == OnlyGenesis
<1>1. /\ Sound(K) /\ DOMAIN K.proposed = {0} /\ K.proposed[0] = GenesisBlock
      /\ K.adopted = [n \in PID |-> {}] /\ K.view = [n \in PID |-> 0]
      BY OnlyGenesisFact DEF OnlyGenesis
<1> HIDE DEF K
<1>2. ASSUME NEW n \in PID PROVE ReplicaSound(K, n, node[n])
  <2> DEFINE s == node[n]
  <2>1. s = withFields(ReplicaInit(n, 1),
                       [tp |-> TrustedChInit, jblocks |-> <<>>,
                        justNV |-> NoJust,
                        log |-> [newviewsCh |-> {}, preparesCh |-> {},
                                 ldrpreparesCh |-> {}]])
        BY DEF Init
  <2>2. /\ DOMAIN s = Fields
        /\ s.myid = n /\ s.view = 0 /\ s.transactions = <<>>
        /\ s.timer = FALSE /\ s.pending = "none"
        /\ s.fromClient = fromClientTo(n, 1) /\ s.executed = <<>>
        /\ s.out = [m \in PID |-> <<>>] /\ s.tp = TrustedChInit
        /\ s.jblocks = <<>> /\ s.justNV = NoJust
        /\ s.log = [newviewsCh |-> {}, preparesCh |-> {}, ldrpreparesCh |-> {}]
        BY <2>1 DEF withFields, ReplicaInit, Fields
  <2> HIDE DEF s
  <2>3. Shape(n, s)
        BY <2>2, ClientDeals DEF Shape
  <2>4. LogSound(K, n, s.log)
    <3>1. /\ DOMAIN s.log = {"newviewsCh", "preparesCh", "ldrpreparesCh"}
          /\ \A k \in DOMAIN s.log : s.log[k] = {}
          BY <2>2
    <3>2. IsFiniteSet({})
          BY FS_EmptySet
    <3>3. QED
          BY <3>1, <3>2 DEF LogSound
  <2>5. OutSound(K, s.out)
        BY <2>2 DEF OutSound
  <2>6. BlocksSound(K, s) /\ LeaderSound(K, n, s) /\ ExecutedSound(K, s)
        BY <1>1, <2>2 DEF BlocksSound, LeaderSound, ExecutedSound
  <2>7. JustSound(K, n, s)
        BY <2>2 DEF JustSound, NoJust
  <2>8. ComponentSound(K, n, s.tp)
    <3>1. /\ DOMAIN s.tp = {"lockh", "lockv", "preph", "prepv", "view", "phase",
                            "signed"}
          /\ s.tp.preph = hash_ch(GenesisBlock) /\ s.tp.prepv = 0
          /\ s.tp.view = 0 /\ s.tp.phase = NEWVIEW
          BY <2>2 DEF TrustedChInit
    <3>2. Prepared(K, n, 0, 0)
          BY <1>1 DEF Prepared
    <3>3. QED
          BY <1>1, <3>1, <3>2 DEF ComponentSound, HashOf
  <2>9. QED
        BY <2>3, <2>4, <2>5, <2>6, <2>7, <2>8 DEF ReplicaSound, BodySound, s
<1>3. DOMAIN node = PID
      BY DEF Init
<1>4. QED
      BY <1>1, <1>2, <1>3 DEF Accounted

-----------------------------------------------------------------------------
(* The invariant and what follows from it.                                 *)

(* The invariant is inductive.                                             *)
LEMMA NextAccounted == Accounted /\ [Next]_vars => Accounted'
<1> SUFFICES ASSUME Accounted, [Next]_vars PROVE Accounted'
    OBVIOUS
<1>1. CASE Next
      BY <1>1, OwnStep, DeliverStep DEF Next
<1>2. CASE UNCHANGED vars
      BY <1>2 DEF vars, Accounted
<1>3. QED
      BY <1>1, <1>2

(* Every reachable state is accounted for by a ledger of blocks, votes and *)
(* prepared blocks (Handler's view change and TrustedCh's counter).        *)
THEOREM AlwaysAccounted == Spec => []Accounted
BY InitAccounted, NextAccounted, PTL DEF Spec

(* A replica executes a block once, and after the block that it is built   *)
(* on.                                                                     *)
LEMMA AccountedParents == Accounted => ParentsFirst
<1> SUFFICES ASSUME Accounted, NEW n \in PID, NEW k \in DOMAIN node[n].executed
             PROVE  LET e == node[n].executed[k]
                        before == {node[n].executed[i].hash : i \in 1 .. k - 1}
                    IN  e.hash \notin before /\ Front(e.hash) \in before \cup {Genesis}
    BY DEF ParentsFirst
<1> DEFINE x == node[n].executed
           before == {x[i].hash : i \in 1 .. k - 1}
<1>1. PICK K : Sound(K) /\ \A i \in PID : ReplicaSound(K, i, node[i])
      BY DEF Accounted
<1>2. ExecutedSound(K, node[n]) /\ BlocksSound(K, node[n])
      BY <1>1 DEF ReplicaSound, BodySound
<1>3. \E Entries : x \in Seq(Entries)
      BY <1>2 DEF ExecutedSound
<1>4. ASSUME NEW i \in DOMAIN x
      PROVE  /\ x[i].view \in DOMAIN K.proposed /\ x[i].hash = HashOf(K, x[i].view)
             /\ x[i].view # 0 => \E h \in DOMAIN x :
                    h < i /\ x[h].view = Parent(K, x[i].view)
             /\ \A h \in DOMAIN x : h # i => x[h].view # x[i].view
      BY <1>2 DEF ExecutedSound, BlocksSound
<1>5. k \in DOMAIN x
      OBVIOUS
<1> HIDE DEF x
<1>6. /\ DOMAIN x \subseteq Nat /\ 1 .. k - 1 \subseteq DOMAIN x
      /\ \A h \in DOMAIN x : h < k => h \in 1 .. k - 1
      BY <1>3, <1>5
<1>7. x[k].hash \notin before
  <2> SUFFICES ASSUME NEW i \in 1 .. k - 1, x[i].hash = x[k].hash PROVE FALSE
      OBVIOUS
  <2>1. i \in DOMAIN x /\ i # k
        BY <1>5, <1>6
  <2>2. x[i].view = x[k].view
        BY <1>1, <1>4, <1>5, <2>1, HashView
  <2>3. QED
        BY <1>4, <1>5, <2>1, <2>2
<1>8. CASE x[k].view = 0
  <2>1. x[k].hash = hash_ch(GenesisBlock)
        BY <1>1, <1>4, <1>5, <1>8 DEF Sound, LedgerType, HashOf
  <2>2. Front(x[k].hash) = Genesis
        BY <2>1, GenesisFact, HashOfBlock
  <2>3. QED
        BY <1>7, <2>2 DEF x
<1>9. CASE x[k].view # 0
  <2>1. PICK h \in DOMAIN x : h < k /\ x[h].view = Parent(K, x[k].view)
        BY <1>4, <1>5, <1>9
  <2>2. Front(x[k].hash) = HashOf(K, Parent(K, x[k].view))
        BY <1>1, <1>4, <1>5, <1>9, BlockFact
  <2>3. x[h].hash = HashOf(K, Parent(K, x[k].view))
        BY <1>4, <2>1
  <2>4. h \in 1 .. k - 1
        BY <1>6, <2>1
  <2>5. Front(x[k].hash) \in before
        BY <2>2, <2>3, <2>4
  <2>6. QED
        BY <1>7, <2>5 DEF x
<1>10. QED
      BY <1>8, <1>9

(* No replica executes a block twice or before its parent, although        *)
(* tryExecuteCh looks blocks up by their views and compares no hashes.     *)
THEOREM ParentsExecutedFirst == Spec => []ParentsFirst
BY AlwaysAccounted, AccountedParents, PTL

(* The blocks that are executed directly (tryExecuteCh, with the next two  *)
(* views on top): the one of the next view is certified, because the one   *)
(* of the view after that is built on it.                                  *)
LEMMA DirectFact ==
    ASSUME NEW K, Sound(K), NEW n \in PID, ReplicaSound(K, n, node[n]),
           NEW e \in ExecutedDirectly(n)
    PROVE  /\ e.view \in Nat /\ e.view \in DOMAIN K.proposed
           /\ e.view + 1 \in DOMAIN K.proposed
           /\ e.hash = HashOf(K, e.view) /\ Parent(K, e.view + 1) = e.view
           /\ Certified(K, e.view + 1)
<1> DEFINE s == node[n]
           v == e.view
<1>1. ExecutedSound(K, s) /\ BlocksSound(K, s)
      BY DEF ReplicaSound, BodySound
<1>2. PICK k \in DOMAIN s.executed : e = s.executed[k]
      BY DEF ExecutedDirectly, Executed
<1>3. v \in DOMAIN K.proposed /\ e.hash = HashOf(K, v)
      BY <1>1, <1>2 DEF ExecutedSound, BlocksSound
<1>4. v \in Nat
      BY <1>3, BlockFact
<1>5. ASSUME NEW u \in {v + 1, v + 2}
      PROVE  u \in DOMAIN K.proposed /\ Parent(K, u) = u - 1
  <2>1. u \in DOMAIN s.jblocks /\ getCView(s.jblocks[u].just) = u - 1
        BY DEF ExecutedDirectly
  <2> HIDE DEF s, v
  <2>2. /\ u \in DOMAIN K.proposed
        /\ s.jblocks[u] = [K.proposed[u] EXCEPT !.executed = s.jblocks[u].executed]
        BY <1>1, <2>1 DEF BlocksSound
  <2>3. s.jblocks[u].just = K.proposed[u].just
    <3>1. DOMAIN K.proposed[u] = BlockFields
          BY <2>2, BlockFact, FreshBlock
    <3>2. QED
          BY <2>2, <3>1 DEF BlockFields
  <2>4. QED
        BY <2>1, <2>2, <2>3 DEF Parent
<1>6. Certified(K, v + 1)
  <2> DEFINE w == v + 2
  <2>1. w \in DOMAIN K.proposed /\ Parent(K, w) + 1 = w /\ w # 1 /\ w # 0
              /\ Parent(K, w) = v + 1
        BY <1>4, <1>5
  <2> HIDE DEF w, v, s
  <2>2. ParentSound(K, w)
        BY <2>1 DEF Sound, ParentsSound
  <2>3. QED
        BY <2>1, <2>2 DEF ParentSound
<1>7. QED
      BY <1>3, <1>4, <1>5, <1>6

(* Whatever is executed in the view of such a block or in a later one is   *)
(* that block or built on it.                                              *)
LEMMA AccountedDirect == Accounted => DirectAgreement
<1> SUFFICES ASSUME Accounted, NEW n \in PID, NEW m \in PID,
                    NEW e \in ExecutedDirectly(n), NEW f \in Executed(m),
                    e.view <= f.view
             PROVE  IsPrefix(e.hash, f.hash)
    BY DEF DirectAgreement
<1>1. PICK K : Sound(K) /\ \A i \in PID : ReplicaSound(K, i, node[i])
      BY DEF Accounted
<1>2. /\ e.view \in Nat /\ e.view \in DOMAIN K.proposed
      /\ e.view + 1 \in DOMAIN K.proposed
      /\ e.hash = HashOf(K, e.view) /\ Parent(K, e.view + 1) = e.view
      /\ Certified(K, e.view + 1)
      BY <1>1, DirectFact
<1>3. f.view \in DOMAIN K.proposed /\ f.hash = HashOf(K, f.view)
  <2>1. ExecutedSound(K, node[m]) /\ BlocksSound(K, node[m])
        BY <1>1 DEF ReplicaSound, BodySound
  <2>2. PICK k \in DOMAIN node[m].executed : f = node[m].executed[k]
        BY DEF Executed
  <2>3. f.view \in DOMAIN node[m].jblocks /\ f.hash = HashOf(K, f.view)
        BY <2>1, <2>2 DEF ExecutedSound
  <2>4. QED
        BY <2>1, <2>3 DEF BlocksSound
<1>4. f.view \in Nat /\ f.hash \in Chain /\ e.hash \in Chain
      BY <1>1, <1>2, <1>3, BlockFact
<1>5. CASE e.view = f.view
      BY <1>2, <1>3, <1>4, <1>5, PrefixOrder
<1>6. CASE e.view < f.view
  <2>1. IsPrefix(e.hash, HashOf(K, Parent(K, f.view)))
        BY <1>1, <1>2, <1>3, <1>6, Descent
  <2>2. /\ HashOf(K, Parent(K, f.view)) \in Chain
        /\ IsPrefix(HashOf(K, Parent(K, f.view)), f.hash)
        BY <1>1, <1>2, <1>3, <1>4, <1>6, BlockFact
  <2>3. QED
        BY <1>4, <2>1, <2>2, PrefixOrder
<1>7. QED
      BY <1>2, <1>4, <1>5, <1>6

(* What is executed anywhere in a later view extends a block that no view  *)
(* failed right after: the agreement that voteCh and tryExecuteCh provide. *)
THEOREM NoDirectConflict == Spec => []DirectAgreement
BY AlwaysAccounted, AccountedDirect, PTL

(* The components that voted for the block of the next view had such a     *)
(* block prepared then, and have that or one built on it prepared now.     *)
LEMMA AccountedPrepared == Accounted => DirectPrepared
<1> SUFFICES ASSUME Accounted, NEW n \in PID, NEW e \in ExecutedDirectly(n)
             PROVE  Cardinality({i \in PID :
                        IsPrefix(e.hash, node[i].tp.preph)}) >= QSize
    BY DEF DirectPrepared
<1> DEFINE Keepers == {i \in PID : IsPrefix(e.hash, node[i].tp.preph)}
           v == e.view
<1>1. PICK K : Sound(K) /\ \A i \in PID : ReplicaSound(K, i, node[i])
      BY DEF Accounted
<1>2. /\ v \in Nat /\ v \in DOMAIN K.proposed /\ v + 1 \in DOMAIN K.proposed
      /\ e.hash = HashOf(K, v) /\ Parent(K, v + 1) = v /\ Certified(K, v + 1)
      BY <1>1, DirectFact
<1> HIDE DEF v
<1>3. ASSUME NEW i \in PID, v + 1 \in K.voted[i]
      PROVE  IsPrefix(e.hash, node[i].tp.preph)
  <2> DEFINE t == node[i].tp
  <2>1. ComponentSound(K, i, t)
        BY <1>1 DEF ReplicaSound
  <2> HIDE DEF t
  <2>2. /\ t.view = K.view[i] /\ Prepared(K, i, t.view, t.prepv)
        /\ t.preph = HashOf(K, t.prepv)
        BY <2>1 DEF ComponentSound
  <2>3. v + 1 \in K.adopted[i] /\ v + 1 <= K.view[i] /\ K.view[i] \in Nat
        BY <1>1, <1>3 DEF Sound, AdoptedSound, LedgerType
  <2>4. PICK w \in K.adopted[i] : t.prepv = Parent(K, w) /\ v + 1 <= w
    <3>1. ~ \A u \in K.adopted[i] : K.view[i] < u
          BY <1>2, <2>3
    <3>2. QED
          BY <2>2, <2>3, <3>1 DEF Prepared
  <2>5. w \in DOMAIN K.proposed /\ w \in Nat
        BY <1>1 DEF Sound, AdoptedSound, LedgerType
  <2>6. v < w
        BY <1>2, <2>4, <2>5
  <2>7. IsPrefix(HashOf(K, v), HashOf(K, Parent(K, w)))
        BY <1>1, <1>2, <2>5, <2>6, Descent
  <2>8. QED
        BY <1>2, <2>2, <2>4, <2>7 DEF t
<1>4. {i \in PID : v + 1 \in K.voted[i]} \subseteq Keepers
      BY <1>3
<1>5. QED
      BY <1>2, <1>4, CardinalityMonotonic DEF Certified

(* A quorum of trusted components keep such a block or a descendant        *)
(* prepared, although TEEprepare takes over the parent of any block that   *)
(* it is given.                                                            *)
THEOREM QuorumStaysPrepared == Spec => []DirectPrepared
BY AlwaysAccounted, AccountedPrepared, PTL

-----------------------------------------------------------------------------
(* The trusted component as a signer, driven by the handlers.              *)

ComponentFields == {"lockh", "lockv", "preph", "prepv", "view", "phase", "signed"}

Counter(t) == Stamp(t.view, t.phase)

(* A component in order: what it has signed lies below its counter.        *)
InOrder(t) ==
    /\ DOMAIN t = ComponentFields
    /\ t.view \in Nat /\ t.phase \in {NEWVIEW, PREPARE} /\ Counter(t) \in Nat
    /\ \A r \in t.signed : StampOf(r) \in Nat /\ StampOf(r) < Counter(t)

(* From t to u a component passes values of its counter and signs one      *)
(* statement at each of them.                                              *)
Passes(t, u) ==
    LET new    == u.signed \ t.signed
        passed == Counter(t) .. Counter(u) - 1
    IN  /\ InOrder(u) /\ t.signed \subseteq u.signed
        /\ Counter(t) <= Counter(u)
        /\ \A r \in new : StampOf(r) \in passed
        /\ \A r1, r2 \in new : StampOf(r1) = StampOf(r2) => r1 = r2
        /\ \A c \in passed : \E r \in new : StampOf(r) = c

(* A refusal passes nothing, and calls follow each other (callTEEsign,     *)
(* callTEEprepare).                                                        *)
LEMMA PassesOn ==
    ASSUME NEW t, InOrder(t)
    PROVE  /\ Passes(t, t)
           /\ \A u, w : Passes(t, u) /\ Passes(u, w) => Passes(t, w)
<1>1. Passes(t, t)
      BY DEF InOrder, Passes
<1>2. ASSUME NEW u, NEW w, Passes(t, u), Passes(u, w) PROVE Passes(t, w)
  <2>1. /\ InOrder(u) /\ InOrder(w)
        /\ t.signed \subseteq u.signed /\ u.signed \subseteq w.signed
        BY <1>2 DEF Passes
  <2>2. /\ Counter(t) \in Nat /\ Counter(u) \in Nat /\ Counter(w) \in Nat
        /\ Counter(t) <= Counter(u) /\ Counter(u) <= Counter(w)
        BY <1>2, <2>1 DEF Passes, InOrder
  <2> DEFINE before == u.signed \ t.signed
             last  == w.signed \ u.signed
  <2>3. w.signed \ t.signed = before \cup last
        BY <2>1
  <2>4. /\ \A r \in before : StampOf(r) \in Counter(t) .. Counter(u) - 1
        /\ \A r \in last : StampOf(r) \in Counter(u) .. Counter(w) - 1
        BY <1>2 DEF Passes
  <2>5. \A r1, r2 \in before \cup last : StampOf(r1) = StampOf(r2) => r1 = r2
    <3>1. \A r1, r2 \in before : StampOf(r1) = StampOf(r2) => r1 = r2
          BY <1>2 DEF Passes
    <3>2. \A r1, r2 \in last : StampOf(r1) = StampOf(r2) => r1 = r2
          BY <1>2 DEF Passes
    <3>3. \A r1 \in before, r2 \in last : StampOf(r1) # StampOf(r2)
          BY <2>2, <2>4
    <3> HIDE DEF before, last
    <3>4. QED
          BY <3>1, <3>2, <3>3
  <2>6. \A c \in Counter(t) .. Counter(w) - 1 :
            \E r \in before \cup last : StampOf(r) = c
    <3>1. \A c \in Counter(t) .. Counter(u) - 1 : \E r \in before : StampOf(r) = c
          BY <1>2 DEF Passes
    <3>2. \A c \in Counter(u) .. Counter(w) - 1 : \E r \in last : StampOf(r) = c
          BY <1>2 DEF Passes
    <3>3. \A c \in Counter(t) .. Counter(w) - 1 :
              c \in Counter(t) .. Counter(u) - 1 \/ c \in Counter(u) .. Counter(w) - 1
          BY <2>2
    <3> HIDE DEF before, last
    <3>4. QED
          BY <3>1, <3>2, <3>3
  <2>7. \A r \in before \cup last : StampOf(r) \in Counter(t) .. Counter(w) - 1
        BY <2>2, <2>4
  <2>8. t.signed \subseteq w.signed /\ Counter(t) <= Counter(w)
        BY <2>1, <2>2
  <2> HIDE DEF before, last
  <2>9. QED
        BY <2>1, <2>3, <2>5, <2>6, <2>7, <2>8 DEF Passes
<1>3. QED
      BY <1>1, <1>2

(* A component that keeps its counter and its statements passes nothing    *)
(* (TEEprepare's setPrep and setLock).                                     *)
LEMMA PassesSame ==
    ASSUME NEW t, InOrder(t), NEW u, DOMAIN u = ComponentFields,
           u.view = t.view, u.phase = t.phase, u.signed = t.signed
    PROVE  Passes(t, u)
BY DEF InOrder, Passes, Counter

(* Signing puts one statement at the counter, which moves on by one.       *)
LEMMA SignPasses ==
    ASSUME NEW t, InOrder(t), NEW n, NEW h1, NEW h2, NEW v2
    PROVE  Passes(t, sign(n, t, h1, h2, v2).tee)
<1> DEFINE rd == RData(h1, t.view, h2, v2, t.phase)
           x  == [t EXCEPT !.signed = @ \cup {rd}]
           u  == sign(n, t, h1, h2, v2).tee
<1>1. /\ DOMAIN t = ComponentFields /\ t.view \in Nat
      /\ t.phase \in {NEWVIEW, PREPARE} /\ Counter(t) \in Nat
      /\ \A r \in t.signed : StampOf(r) \in Nat /\ StampOf(r) < Counter(t)
      BY DEF InOrder
<1>2. u = increment(x)
      BY DEF sign
<1>3. /\ DOMAIN x = ComponentFields /\ x.signed = t.signed \cup {rd}
      /\ x.view = t.view /\ x.phase = t.phase
      BY <1>1 DEF ComponentFields
<1>4. StampOf(rd) = Counter(t)
      BY DEF StampOf, Counter, RData
<1> HIDE DEF rd, x, u
<1>5. /\ DOMAIN u = ComponentFields /\ u.signed = t.signed \cup {rd}
      /\ t.phase = PREPARE => u.phase = NEWVIEW /\ u.view = t.view
      /\ t.phase # PREPARE => u.phase = PREPARE /\ u.view = t.view + 1
      BY <1>2, <1>3 DEF increment, ComponentFields
<1>6. Counter(u) = Counter(t) + 1
      BY <1>1, <1>5 DEF Counter, Stamp, NEWVIEW, PREPARE
<1>7. InOrder(u)
      BY <1>1, <1>4, <1>5, <1>6 DEF InOrder
<1>8. u.signed \ t.signed = {rd}
      BY <1>1, <1>4, <1>5
<1>9. QED
      BY <1>1, <1>4, <1>5, <1>6, <1>7, <1>8 DEF Passes, u

(* TEEsign signs the prepared block once.                                  *)
LEMMA TEEsignPasses ==
    ASSUME NEW t, InOrder(t), NEW n
    PROVE  Passes(t, TEEsign(n, t).tee)
BY SignPasses DEF TEEsign

(* TEEprepare adopts blocks and signs once, or refuses.                    *)
LEMMA TEEpreparePasses ==
    ASSUME NEW t, InOrder(t), NEW n, NEW block, NEW block0, NEW block1
    PROVE  Passes(t, TEEprepare(n, t, block, block0, block1).tee)
<1> DEFINE a == adopt(t, block, block0, block1)
           p == [t EXCEPT !.preph = getCHash(block.just),
                          !.prepv = getCView(block.just)]
           r == TEEprepare(n, t, block, block0, block1)
<1>1. DOMAIN t = ComponentFields
      BY DEF InOrder
<1>2. /\ DOMAIN p = ComponentFields /\ p.view = t.view /\ p.phase = t.phase
      /\ p.signed = t.signed
      BY <1>1 DEF ComponentFields
<1>3. \/ a = t
      \/ a = p
      \/ a = [p EXCEPT !.lockh = getCHash(block0.just),
                       !.lockv = getCView(block0.just)]
      BY DEF adopt
<1> HIDE DEF a, p
<1>4. /\ DOMAIN a = ComponentFields /\ a.view = t.view /\ a.phase = t.phase
      /\ a.signed = t.signed
      BY <1>1, <1>2, <1>3 DEF ComponentFields
<1>5. InOrder(a) /\ Passes(t, a)
      BY <1>4, PassesSame DEF Passes
<1>6. \/ r = Refuse(t)
      \/ r = Refuse(a)
      \/ r = sign(n, a, hash_ch(block), Genesis, 0)
      BY DEF TEEprepare, a
<1>7. \/ r.tee = t
      \/ r.tee = a
      \/ r.tee = sign(n, a, hash_ch(block), Genesis, 0).tee
      BY <1>6 DEF Refuse
<1>8. Passes(t, t) /\ Passes(a, sign(n, a, hash_ch(block), Genesis, 0).tee)
      BY <1>5, PassesOn, SignPasses
<1> HIDE DEF r
<1>9. QED
      BY <1>5, <1>7, <1>8, PassesOn DEF r

(* The loop of startNewViewCh signs once at each value that it passes.     *)
LEMMA SignUpToPasses ==
    ASSUME NEW t, InOrder(t), NEW n, NEW v \in Nat
    PROVE  Passes(t, TEEsignUpTo(n, t, v).tee)
<1> DEFINE last  == lastStampCh(t, v)
           now   == Counter(t)
           At(c) == RData(Dummy, (c + 1) \div 2, t.preph, t.prepv,
                          IF c % 2 = 0 THEN NEWVIEW ELSE PREPARE)
           new   == {At(c) : c \in now .. last}
           u     == TEEsignUpTo(n, t, v).tee
<1>1. /\ DOMAIN t = ComponentFields /\ t.view \in Nat
      /\ t.phase \in {NEWVIEW, PREPARE} /\ now \in Nat
      /\ \A r \in t.signed : StampOf(r) \in Nat /\ StampOf(r) < now
      BY DEF InOrder
<1>2. last \in Nat /\ now <= last
      BY <1>1 DEF lastStampCh, Counter, Stamp, NEWVIEW, PREPARE
<1>3. ASSUME NEW c \in Nat PROVE StampOf(At(c)) = c
  <2>1. /\ StampOf(At(c)) = Stamp((c + 1) \div 2,
                                  IF c % 2 = 0 THEN NEWVIEW ELSE PREPARE)
        BY DEF StampOf, RData
  <2>2. CASE c % 2 = 0
    <3>1. 2 * ((c + 1) \div 2) = c
          BY <2>2
    <3>2. QED
          BY <2>1, <2>2, <3>1 DEF Stamp, NEWVIEW, PREPARE
  <2>3. CASE c % 2 # 0
    <3>1. 2 * ((c + 1) \div 2) = c + 1
          BY <2>3
    <3>2. QED
          BY <2>1, <2>3, <3>1 DEF Stamp, NEWVIEW, PREPARE
  <2>4. QED
        BY <2>2, <2>3
<1>4. u = [t EXCEPT !.view = (last + 2) \div 2,
                    !.phase = IF last % 2 = 0 THEN PREPARE ELSE NEWVIEW,
                    !.signed = @ \cup new]
      BY DEF TEEsignUpTo, Counter
<1> HIDE DEF last, new, u
<1>5. /\ DOMAIN u = ComponentFields /\ u.signed = t.signed \cup new
      /\ u.view = (last + 2) \div 2
      /\ u.phase = IF last % 2 = 0 THEN PREPARE ELSE NEWVIEW
      BY <1>1, <1>4 DEF ComponentFields
<1>6. /\ u.view \in Nat /\ u.phase \in {NEWVIEW, PREPARE}
      /\ Counter(u) = last + 1
  <2>1. u.view \in Nat /\ u.phase \in {NEWVIEW, PREPARE}
        BY <1>2, <1>5
  <2>2. CASE last % 2 = 0
    <3>1. 2 * ((last + 2) \div 2) = last + 2
          BY <1>2, <2>2
    <3>2. QED
          BY <1>2, <1>5, <2>1, <2>2, <3>1 DEF Counter, Stamp, PREPARE
  <2>3. CASE last % 2 # 0
    <3>1. 2 * ((last + 2) \div 2) = last + 1
          BY <1>2, <2>3
    <3>2. QED
          BY <1>2, <1>5, <2>1, <2>3, <3>1 DEF Counter, Stamp, NEWVIEW, PREPARE
  <2>4. QED
        BY <2>2, <2>3
<1>7. ASSUME NEW r \in new
      PROVE  StampOf(r) \in now .. last /\ r = At(StampOf(r))
  <2>1. PICK c \in now .. last : r = At(c)
        BY DEF new
  <2>2. c \in Nat
        BY <1>1, <1>2
  <2>3. StampOf(At(c)) = c
        BY <1>3, <2>2
  <2> HIDE DEF At
  <2>4. QED
        BY <2>1, <2>3
<1>8. ASSUME NEW c \in now .. last PROVE At(c) \in new /\ StampOf(At(c)) = c
  <2>1. c \in Nat
        BY <1>1, <1>2
  <2>2. QED
        BY <1>3, <2>1 DEF new
<1> HIDE DEF At, now
<1>9. InOrder(u)
  <2>1. ASSUME NEW r \in u.signed
        PROVE  StampOf(r) \in Nat /\ StampOf(r) < last + 1
        BY <1>1, <1>2, <1>5, <1>7
  <2>2. QED
        BY <1>2, <1>5, <1>6, <2>1 DEF InOrder
<1>10. u.signed \ t.signed = new
  <2>1. ASSUME NEW r \in new PROVE r \notin t.signed
        BY <1>1, <1>7
  <2>2. QED
        BY <1>5, <2>1
<1>11. Counter(t) = now /\ now .. last = Counter(t) .. Counter(u) - 1
       BY <1>1, <1>2, <1>6 DEF now
<1>12. \A r1, r2 \in new : StampOf(r1) = StampOf(r2) => r1 = r2
       BY <1>7
<1>13. \A c \in now .. last : \E r \in new : StampOf(r) = c
       BY <1>8
<1>14. QED
       BY <1>1, <1>2, <1>5, <1>6, <1>7, <1>9, <1>10, <1>11, <1>12, <1>13
       DEF Passes, u

(* What does not call the component.                                       *)
Spares(s, u) == DOMAIN u = Fields /\ u.tp = s.tp

(* What calls it.                                                          *)
Drives(s, u) == DOMAIN u = Fields /\ Passes(s.tp, u.tp)

(* Sending, logging and entering a view (multicast_msg, class Log).        *)
LEMMA LoggingSpares ==
    ASSUME NEW s, DOMAIN s = Fields, NEW m
    PROVE  /\ Spares(s, s)
           /\ \A x : Spares(s, send(s, x, m))
           /\ Spares(s, storeNvCh(s, m)) /\ Spares(s, storePrepCh(s, m))
           /\ Spares(s, storeLdrPrepCh(s, m))
           /\ \A c : Spares(s, nextView(s, c))
           /\ Spares(s, sendNvCh(s, m))
<1>1. /\ Spares(s, s) /\ \A x : Spares(s, send(s, x, m))
      BY DEF Spares, send, Fields
<1>2. /\ Spares(s, storeNvCh(s, m)) /\ Spares(s, storePrepCh(s, m))
      /\ Spares(s, storeLdrPrepCh(s, m))
      BY DEF Spares, storeNvCh, storePrepCh, storeLdrPrepCh, Fields
<1>3. \A c : Spares(s, nextView(s, c))
      BY DEF Spares, nextView, setTimer, Fields
<1>4. QED
      BY <1>1, <1>2, <1>3 DEF sendNvCh

(* sendVoteCh.                                                             *)
LEMMA SendVoteSpares ==
    ASSUME NEW s, DOMAIN s = Fields, NEW block, NEW just
    PROVE  Spares(s, sendVoteCh(s, block, just))
BY LoggingSpares DEF sendVoteCh

(* tryExecuteCh.                                                           *)
LEMMA TryExecuteSpares ==
    ASSUME NEW s, DOMAIN s = Fields, NEW block0, NEW block1
    PROVE  Spares(s, tryExecuteCh(s, block0, block1))
<1>1. ASSUME NEW b, NEW e, NEW trans
      PROVE  Spares(s, replyTransactions([s EXCEPT !.jblocks = b, !.executed = e],
                                         trans))
      BY DEF Spares, replyTransactions, Fields
<1>2. ASSUME NEW views PROVE Spares(s, executeCh(s, views))
      BY <1>1 DEF executeCh
<1>3. QED
      BY <1>2 DEF tryExecuteCh, Spares

(* checkNewJustCh.                                                         *)
LEMMA CheckNewJustSpares ==
    ASSUME NEW s, DOMAIN s = Fields, NEW rdata
    PROVE  Spares(s, checkNewJustCh(s, rdata))
<1>1. ASSUME NEW j
      PROVE  Spares(s, nextView([s EXCEPT !.justNV = j], "prepareCh"))
      BY DEF Spares, nextView, setTimer, Fields
<1>2. QED
      BY <1>1 DEF checkNewJustCh, Spares

(* Calls follow each other.                                                *)
LEMMA DrivesOn ==
    ASSUME NEW s, InOrder(s.tp)
    PROVE  /\ \A u : Spares(s, u) => Drives(s, u)
           /\ \A u, w : Spares(s, u) /\ Drives(u, w) => Drives(s, w)
           /\ \A u, w : Drives(s, u) /\ Spares(u, w) => Drives(s, w)
BY PassesOn DEF Spares, Drives

(* voteCh calls TEEprepare and then TEEsign.                               *)
LEMMA VoteDrives ==
    ASSUME NEW s, DOMAIN s = Fields, InOrder(s.tp), NEW block
    PROVE  Drives(s, voteCh(s, block))
<1> DEFINE o == [s EXCEPT !.jblocks = assign(@, s.view, block)]
<1>1. voteCh(s, block) = VoteOn(s, o, block)
      BY DEF voteCh, VoteOn
<1>2. DOMAIN o = Fields /\ o.tp = s.tp
      BY DEF Fields
<1> HIDE DEF o
<1> DEFINE view0  == getCView(block.just)
           view1  == getCView(o.jblocks[view0].just)
           block0 == o.jblocks[view0]
           block1 == o.jblocks[view1]
           r1 == TEEprepare(s.myid, s.tp, block, block0, block1)
           r2 == TEEsign(s.myid, r1.tee)
           s1 == [o EXCEPT !.tp = r2.tee]
           x  == sendVoteCh(s1, block, r1.just)
           s2 == sendNvCh(x, MsgNewViewCh(r2.just))
           s3 == tryExecuteCh(s2, block0, block1)
<1>3. \/ VoteOn(s, o, block) = o
      \/ VoteOn(s, o, block) = s1
      \/ VoteOn(s, o, block) = checkNewJustCh(s3, r1.just.rdata)
      \/ VoteOn(s, o, block) = nextView(s3, "handleEarlierMessagesCh")
      BY DEF VoteOn
<1>4. Passes(s.tp, r1.tee)
      BY TEEpreparePasses
<1>5. Passes(r1.tee, r2.tee)
  <2>1. InOrder(r1.tee)
        BY <1>4 DEF Passes
  <2> HIDE DEF r1
  <2>2. QED
        BY <2>1, TEEsignPasses
<1>6. Passes(s.tp, r2.tee)
  <2> HIDE DEF r1, r2
  <2>1. QED
        BY <1>4, <1>5, PassesOn
<1>7. DOMAIN s1 = Fields /\ s1.tp = r2.tee
      BY <1>2 DEF Fields
<1> HIDE DEF r1, r2, s1, block0, block1, view0, view1
<1>8. Spares(s1, x)
      BY <1>7, SendVoteSpares
<1> HIDE DEF x
<1>9. Spares(x, s2)
      BY <1>8, LoggingSpares DEF Spares
<1> HIDE DEF s2
<1>10. Spares(s2, s3)
      BY <1>9, TryExecuteSpares DEF Spares
<1> HIDE DEF s3
<1>11. /\ Spares(s3, checkNewJustCh(s3, r1.just.rdata))
       /\ Spares(s3, nextView(s3, "handleEarlierMessagesCh"))
       BY <1>10, LoggingSpares, CheckNewJustSpares DEF Spares
<1>12. Drives(s, o) /\ Drives(s, s1)
       BY <1>2, <1>6, <1>7, PassesOn DEF Drives
<1>13. QED
       BY <1>1, <1>3, <1>7, <1>8, <1>9, <1>10, <1>11, <1>12 DEF Spares, Drives

(* prepareCh.                                                              *)
LEMMA PrepareDrives ==
    ASSUME NEW s, DOMAIN s = Fields, InOrder(s.tp)
    PROVE  Drives(s, prepareCh(s))
<1> DEFINE s1 == [s EXCEPT !.justNV = latestJust(s)]
           s2 == popTransactions(s1)
<1>1. prepareCh(s) = voteCh(s2, createNewBlockCh(s1))
      BY DEF prepareCh
<1>2. DOMAIN s1 = Fields /\ s1.tp = s.tp
      BY DEF Fields
<1> HIDE DEF s1
<1>3. DOMAIN s2 = Fields /\ s2.tp = s1.tp
      BY <1>2 DEF popTransactions, Fields
<1> HIDE DEF s2
<1>4. QED
      BY <1>1, <1>2, <1>3, VoteDrives DEF Drives

(* handleEarlierMessagesCh.                                                *)
LEMMA EarlierDrives ==
    ASSUME NEW s, DOMAIN s = Fields, InOrder(s.tp)
    PROVE  Drives(s, handleEarlierMessagesCh(s))
<1>1. PICK block : \/ handleEarlierMessagesCh(s) = s
                   \/ handleEarlierMessagesCh(s) = voteCh(s, block)
      BY DEF handleEarlierMessagesCh
<1>2. QED
      BY <1>1, VoteDrives, PassesOn DEF Drives

(* The handlers of messages.                                               *)
LEMMA HandlersDrive ==
    ASSUME NEW s, DOMAIN s = Fields, InOrder(s.tp), NEW m
    PROVE  /\ Drives(s, s)
           /\ Drives(s, handleNewviewCh(s, m))
           /\ Drives(s, handleLdrPrepareCh(s, m))
           /\ Drives(s, handlePrepareCh(s, m))
<1>1. /\ Spares(s, s) /\ Spares(s, storeNvCh(s, m)) /\ Spares(s, storePrepCh(s, m))
      /\ \A x : Spares(s, storePrepCh(s, x))
      BY LoggingSpares
<1>2. Drives(s, handleNewviewCh(s, m))
  <2> DEFINE x == storeNvCh(s, m)
  <2>1. \/ handleNewviewCh(s, m) = s
        \/ handleNewviewCh(s, m) = prepareCh(x)
        \/ handleNewviewCh(s, m) = x
        BY DEF handleNewviewCh
  <2> HIDE DEF x
  <2>2. Spares(s, x)
        BY <1>1 DEF x
  <2>3. Drives(x, prepareCh(x))
        BY <2>2, PrepareDrives DEF Spares
  <2>4. QED
        BY <1>1, <2>1, <2>2, <2>3, DrivesOn
<1>3. Drives(s, handleLdrPrepareCh(s, m))
  <2> DEFINE x == IF amLeaderOf(s, m.block.view + 1)
                  THEN storePrepCh(s, MsgPrepareCh(ldrPrepareCh2just(m))) ELSE s
             y == storeLdrPrepCh(x, m)
  <2>1. \/ handleLdrPrepareCh(s, m) = s
        \/ handleLdrPrepareCh(s, m) = voteCh(x, m.block)
        \/ handleLdrPrepareCh(s, m) = handleEarlierMessagesCh(y)
        BY DEF handleLdrPrepareCh
  <2>2. Spares(s, x)
        BY <1>1
  <2> HIDE DEF x
  <2>3. Spares(x, y)
        BY <2>2, LoggingSpares DEF Spares
  <2> HIDE DEF y
  <2>4. /\ Drives(x, voteCh(x, m.block)) /\ Drives(y, handleEarlierMessagesCh(y))
        BY <2>2, <2>3, VoteDrives, EarlierDrives DEF Spares
  <2>5. QED
        BY <1>1, <2>1, <2>2, <2>3, <2>4, DrivesOn DEF Spares
<1>4. Drives(s, handlePrepareCh(s, m))
  <2> DEFINE x == storePrepCh(s, m)
  <2>1. \/ handlePrepareCh(s, m) = s
        \/ handlePrepareCh(s, m) = x
        \/ handlePrepareCh(s, m) = checkNewJustCh(x, m.rdata)
        BY DEF handlePrepareCh
  <2> HIDE DEF x
  <2>2. Spares(s, x)
        BY <1>1 DEF x
  <2>3. Spares(x, checkNewJustCh(x, m.rdata))
        BY <2>2, CheckNewJustSpares DEF Spares
  <2>4. QED
        BY <1>1, <2>1, <2>2, <2>3, DrivesOn
<1>5. QED
      BY <1>1, <1>2, <1>3, <1>4, DrivesOn

(* startNewViewCh.                                                         *)
LEMMA StartNewViewDrives ==
    ASSUME NEW s, DOMAIN s = Fields, InOrder(s.tp), s.view \in Nat
    PROVE  Drives(s, startNewViewCh(s))
<1> DEFINE r  == TEEsignUpTo(s.myid, s.tp, s.view)
           o  == [s EXCEPT !.tp = r.tee]
           s1 == sendNvCh(o, MsgNewViewCh(r.just))
<1>1. PICK c : startNewViewCh(s) = nextView(s1, c)
      BY DEF startNewViewCh
<1>2. Passes(s.tp, r.tee)
      BY SignUpToPasses
<1>3. DOMAIN o = Fields /\ o.tp = r.tee
      BY DEF Fields
<1> HIDE DEF r, o
<1>4. Spares(o, s1)
      BY <1>3, LoggingSpares
<1> HIDE DEF s1
<1>5. Spares(s1, nextView(s1, c))
      BY <1>4, LoggingSpares DEF Spares
<1>6. QED
      BY <1>1, <1>2, <1>3, <1>4, <1>5 DEF Spares, Drives

(* getStartedCh.                                                           *)
LEMMA GetStartedDrives ==
    ASSUME NEW s, DOMAIN s = Fields, InOrder(s.tp)
    PROVE  Drives(s, getStartedCh(s))
<1> DEFINE r  == TEEsign(s.myid, s.tp)
           m  == MsgNewViewCh(r.just)
           s1 == [s EXCEPT !.tp = r.tee, !.view = 1,
                           !.jblocks = assign(@, 0, GenesisBlock)]
           s2 == send(s1, keep_from_peers(s, getLeaderOf(s.view + 1)), m)
<1>1. \/ getStartedCh(s) = handleNewviewCh(s1, m)
      \/ getStartedCh(s) = handleEarlierMessagesCh(s2)
      BY DEF getStartedCh
<1>2. Passes(s.tp, r.tee)
      BY TEEsignPasses
<1>3. DOMAIN s1 = Fields /\ s1.tp = r.tee
      BY DEF Fields
<1> HIDE DEF r, s1, m
<1>4. Drives(s, s1) /\ InOrder(s1.tp)
      BY <1>2, <1>3 DEF Drives, Passes
<1>5. Spares(s1, s2)
      BY <1>3, LoggingSpares
<1> HIDE DEF s2
<1>6. Drives(s1, handleNewviewCh(s1, m)) /\ Drives(s2, handleEarlierMessagesCh(s2))
      BY <1>3, <1>4, <1>5, HandlersDrive, EarlierDrives DEF Spares
<1>7. QED
      BY <1>1, <1>4, <1>5, <1>6, PassesOn DEF Spares, Drives

-----------------------------------------------------------------------------
(* The components of all replicas.                                         *)

Orderly ==
    DOMAIN node = PID /\ \A n \in PID : DOMAIN node[n] = Fields /\ InOrder(node[n].tp)

(* Replica n moves, and no other component does.                           *)
Goes(n) ==
    /\ Orderly'
    /\ Passes(node[n].tp, node'[n].tp)
    /\ \A m \in PID \ {n} : node'[m].tp = node[m].tp

(* A message arrives.                                                      *)
LEMMA DeliverGoes ==
    ASSUME Orderly, NEW p \in PID, NEW n \in PID, Deliver(p, n)
    PROVE  Goes(n)
<1> DEFINE k == Upcoming(p, n)
           m == node[p].out[n][k]
           q == [node[p] EXCEPT !.out[n] = SubSeq(@, k + 1, Len(@))]
<1>1. /\ p # n /\ DOMAIN node = PID
      /\ \A i \in PID : DOMAIN node[i] = Fields /\ InOrder(node[i].tp)
      BY DEF Deliver, HandleNewviewCh, HandleLdrPrepareCh, HandlePrepareCh,
             Receive, CanReceive, Orderly
<1>2. PICK u : /\ \/ u = node[n]
                  \/ u = handleNewviewCh(node[n], m)
                  \/ u = handleLdrPrepareCh(node[n], m)
                  \/ u = handlePrepareCh(node[n], m)
               /\ node' = [node EXCEPT
                      ![p].out[n] = SubSeq(@, k + 1, Len(@)), ![n] = u]
      BY DEF Deliver, HandleNewviewCh, HandleLdrPrepareCh, HandlePrepareCh, Receive
<1>3. node' = [node EXCEPT ![p] = q, ![n] = u]
      BY <1>1, <1>2
<1> HIDE DEF m, k
<1>4. Drives(node[n], u)
      BY <1>1, <1>2, HandlersDrive
<1>5. Spares(node[p], q)
      BY <1>1 DEF Spares, Fields
<1> HIDE DEF q
<1>6. /\ DOMAIN node' = PID /\ node'[n] = u /\ node'[p] = q
      /\ \A i \in PID \ {n, p} : node'[i] = node[i]
      BY <1>1, <1>3
<1>7. QED
      BY <1>1, <1>4, <1>5, <1>6 DEF Goes, Orderly, Drives, Spares, Passes

(* A replica moves on its own.                                             *)
LEMMA OwnGoes ==
    ASSUME Accounted, Orderly, NEW n \in PID,
           \/ Start(n) \/ PrepareCh(n) \/ HandleEarlierMessagesCh(n)
           \/ Timeout(n) \/ HandleTransaction(n) \/ Pause(n) \/ Resume(n)
    PROVE  Goes(n)
<1> DEFINE s == node[n]
           started == [s EXCEPT !.started = TRUE]
           called  == [s EXCEPT !.pending = "none"]
           halted  == [s EXCEPT !.stopped = TRUE, !.timer = FALSE]
<1>1. DOMAIN node = PID /\ DOMAIN s = Fields /\ InOrder(s.tp)
      BY DEF Orderly
<1>2. s.view \in Nat
      BY DEF Accounted, ReplicaSound, BodySound, Shape
<1>3. Spares(s, started) /\ Spares(s, called) /\ Spares(s, halted)
      BY <1>1 DEF Spares, Fields
<1>4. ASSUME NEW u, Drives(s, u), node' = [node EXCEPT ![n] = u] PROVE Goes(n)
  <2>1. /\ DOMAIN node' = PID /\ node'[n] = u
        /\ \A m \in PID \ {n} : node'[m] = node[m]
        BY <1>1, <1>4
  <2>2. QED
        BY <1>4, <2>1 DEF Goes, Orderly, Drives, Passes
<1>5. ASSUME NEW u, Spares(s, u), node' = [node EXCEPT ![n] = u] PROVE Goes(n)
      BY <1>1, <1>4, <1>5, DrivesOn
<1>6. CASE Start(n) \/ PrepareCh(n) \/ HandleEarlierMessagesCh(n)
  <2>1. \/ node' = [node EXCEPT ![n] = getStartedCh(started)]
        \/ node' = [node EXCEPT ![n] = prepareCh(called)]
        \/ node' = [node EXCEPT ![n] = handleEarlierMessagesCh(called)]
        BY <1>6 DEF Start, PrepareCh, HandleEarlierMessagesCh
  <2> HIDE DEF started, called
  <2>2. /\ Drives(started, getStartedCh(started))
        /\ Drives(called, prepareCh(called))
        /\ Drives(called, handleEarlierMessagesCh(called))
        BY <1>1, <1>3, GetStartedDrives, PrepareDrives, EarlierDrives DEF Spares
  <2>3. QED
        BY <1>1, <1>3, <1>4, <2>1, <2>2, DrivesOn
<1>7. CASE Timeout(n)
  <2>1. \/ node' = [node EXCEPT ![n] = halted]
        \/ node' = [node EXCEPT ![n] = startNewViewCh(s)]
        BY <1>7 DEF Timeout, TimerExpires
  <2> HIDE DEF halted
  <2>2. QED
        BY <1>1, <1>2, <1>3, <1>4, <1>5, <2>1, StartNewViewDrives
<1>8. CASE HandleTransaction(n) \/ Pause(n) \/ Resume(n)
  <2> DEFINE queue == IF s.isPaused THEN s.transactions
                      ELSE Append(s.transactions, Head(s.fromClient))
             taken == [s EXCEPT !.fromClient = Tail(s.fromClient),
                                !.transactions = queue]
             paused(b) == [s EXCEPT !.isPaused = b]
  <2>1. \/ node' = [node EXCEPT ![n] = taken]
        \/ node' = [node EXCEPT ![n] = paused(TRUE)]
        \/ node' = [node EXCEPT ![n] = paused(FALSE)]
        BY <1>8 DEF HandleTransaction, Pause, Resume
  <2> HIDE DEF queue
  <2>2. Spares(s, taken) /\ Spares(s, paused(TRUE)) /\ Spares(s, paused(FALSE))
        BY <1>1 DEF Spares, Fields
  <2> HIDE DEF taken, paused
  <2>3. QED
        BY <1>5, <2>1, <2>2
<1>9. QED
      BY <1>6, <1>7, <1>8

(* The replicas, as constructed, are in order.                             *)
LEMMA InitOrderly == Init => Orderly
<1> SUFFICES ASSUME Init, NEW n \in PID
             PROVE  DOMAIN node[n] = Fields /\ InOrder(node[n].tp)
    BY DEF Init, Orderly
<1>1. node[n] = withFields(ReplicaInit(n, 1),
                     [tp |-> TrustedChInit, jblocks |-> <<>>,
                      justNV |-> NoJust,
                      log |-> [newviewsCh |-> {}, preparesCh |-> {},
                               ldrpreparesCh |-> {}]])
      BY DEF Init
<1>2. DOMAIN node[n] = Fields /\ node[n].tp = TrustedChInit
      BY <1>1 DEF withFields, ReplicaInit, Fields
<1>3. InOrder(TrustedChInit)
      BY DEF InOrder, TrustedChInit, ComponentFields, Counter, Stamp, NEWVIEW, PREPARE
<1>4. QED
      BY <1>2, <1>3

(* A step is one of one replica.                                           *)
LEMMA NextGoes ==
    ASSUME Accounted, Orderly, Next
    PROVE  \E n \in PID : Goes(n)
BY OwnGoes, DeliverGoes DEF Next

(* Every component stays in order.                                         *)
LEMMA AlwaysOrderly == Spec => []Orderly
<1>1. ASSUME Accounted, Orderly, [Next]_vars PROVE Orderly'
  <2>1. CASE Next
        BY <1>1, <2>1, NextGoes DEF Goes
  <2>2. CASE UNCHANGED vars
        BY <1>1, <2>2 DEF vars, Orderly
  <2>3. QED
        BY <1>1, <2>1, <2>2
<1>2. QED
      BY <1>1, InitOrderly, AlwaysAccounted, PTL DEF Spec

(* The components implement monotonic signers: a handler passes values of  *)
(* one counter, signs one statement at each of them, and none twice.       *)
THEOREM SignersMonotonic == Spec => RefinesSigner
<1> DEFINE counter == [n \in PID |-> Stamp(node[n].tp.view, node[n].tp.phase)]
           signed  == [n \in PID |-> node[n].tp.signed]
<1>1. Init => Signer!Init
  <2> SUFFICES ASSUME Init PROVE Signer!Init
      OBVIOUS
  <2>1. \A n \in PID : node[n].tp = TrustedChInit
    <3>1. ASSUME NEW n \in PID PROVE node[n].tp = TrustedChInit
      <4>1. node[n] = withFields(ReplicaInit(n, 1),
                           [tp |-> TrustedChInit, jblocks |-> <<>>,
                            justNV |-> NoJust,
                            log |-> [newviewsCh |-> {}, preparesCh |-> {},
                                     ldrpreparesCh |-> {}]])
            BY DEF Init
      <4>2. QED
            BY <4>1 DEF withFields, ReplicaInit
    <3>2. QED
          BY <3>1
  <2>2. /\ Stamp(TrustedChInit.view, TrustedChInit.phase) = 0
        /\ TrustedChInit.signed = {}
        BY DEF TrustedChInit, Stamp, NEWVIEW, PREPARE
  <2>3. QED
        BY <2>1, <2>2 DEF Signer!Init
<1>2. ASSUME Accounted, Orderly, Orderly', [Next]_vars
      PROVE  [Signer!Next]_(Signer!vars)
  <2>1. CASE UNCHANGED vars
        BY <2>1 DEF vars, Signer!vars
  <2>2. ASSUME NEW n \in PID, Goes(n) PROVE [Signer!Next]_(Signer!vars)
    <3> DEFINE t   == node[n].tp
               u   == node'[n].tp
               new == u.signed \ t.signed
    <3>1. /\ Passes(t, u) /\ InOrder(t) /\ InOrder(u)
          /\ \A m \in PID \ {n} : node'[m].tp = node[m].tp
          BY <1>2, <2>2 DEF Goes, Orderly, Passes
    <3>2. /\ counter[n] = Counter(t) /\ counter'[n] = Counter(u)
          /\ signed[n] = t.signed /\ signed'[n] = u.signed
          BY DEF Counter
    <3>3. /\ Counter(t) \in Nat /\ Counter(u) \in Nat /\ Counter(t) <= Counter(u)
          BY <3>1 DEF Passes, InOrder
    <3>4. CASE Counter(u) = Counter(t)
      <4>1. new = {}
            BY <3>1, <3>3, <3>4 DEF Passes
      <4>2. u.signed = t.signed
            BY <3>1, <4>1 DEF Passes
      <4>3. counter' = counter /\ signed' = signed
            BY <3>1, <3>4, <4>2 DEF Counter
      <4>4. QED
            BY <4>3 DEF Signer!vars
    <3>5. CASE Counter(u) > Counter(t)
      <4>1. counter' = [counter EXCEPT ![n] = counter'[n]]
            BY <3>1
      <4>2. signed' = [signed EXCEPT ![n] = @ \cup new]
            BY <3>1 DEF Passes
      <4>3. /\ counter'[n] \in Nat /\ counter'[n] > counter[n]
            /\ signed'[n] \ signed[n] = new
            BY <3>2, <3>3, <3>5
      <4>4. /\ \A r \in new : StampOf(r) \in counter[n] .. counter'[n] - 1
            /\ \A r1, r2 \in new : StampOf(r1) = StampOf(r2) => r1 = r2
            /\ \A c \in counter[n] .. counter'[n] - 1 :
                   \E r \in new : StampOf(r) = c
            BY <3>1, <3>2 DEF Passes
      <4> HIDE DEF counter, signed, new
      <4>5. Signer!SignBatch(n)
            BY ONLY <4>1, <4>2, <4>3, <4>4 DEF Signer!SignBatch, counter, signed
      <4>6. QED
            BY <4>5 DEF Signer!Next
    <3>6. QED
          BY <3>3, <3>4, <3>5
  <2>3. QED
        BY <1>2, <2>1, <2>2, NextGoes
<1>3. QED
      BY <1>1, <1>2, AlwaysAccounted, AlwaysOrderly, PTL
      DEF Spec, RefinesSigner, Signer!Spec

-----------------------------------------------------------------------------
(* The parents of new blocks.                                              *)

(* The blocks that are new in u and that replica n leads extend the        *)
(* highest prepared block of the new-view messages it has.                 *)
BuiltHighest(n, s, u) ==
    \A v \in DOMAIN u.jblocks \ DOMAIN s.jblocks :
        v > 0 /\ getLeaderOf(v) = n
        => \A m \in InView(u.log.newviewsCh, v - 1) :
              m.rdata.justv <= getCView(u.jblocks[v].just)

(* A replica with its fields, as far as the blocks are concerned.          *)
Formed(s) == DOMAIN s = Fields /\ DOMAIN s.log = LogFields /\ s.view \in Nat

(* What notes no block.                                                    *)
Unnoted(s, u) ==
    /\ Formed(u) /\ DOMAIN u.jblocks = DOMAIN s.jblocks
    /\ \A v \in DOMAIN s.jblocks :
          DOMAIN s.jblocks[v] = BlockFields
          => /\ DOMAIN u.jblocks[v] = BlockFields
             /\ u.jblocks[v].just = s.jblocks[v].just

(* What logs no new-view message either.                                   *)
Unlogged(s, u) == Unnoted(s, u) /\ u.log.newviewsCh = s.log.newviewsCh

(* Such calls follow each other.                                           *)
LEMMA UnnotedOn ==
    /\ \A s : Formed(s) => Unlogged(s, s)
    /\ \A s, u, w : Unnoted(s, u) /\ Unnoted(u, w) => Unnoted(s, w)
    /\ \A s, u, w : Unlogged(s, u) /\ Unlogged(u, w) => Unlogged(s, w)
BY DEF Unnoted, Unlogged

(* Where no block is noted, none is badly built.                           *)
LEMMA UnnotedBuilds ==
    ASSUME NEW s, NEW u, DOMAIN u.jblocks = DOMAIN s.jblocks, NEW n
    PROVE  /\ BuiltHighest(n, s, u)
           /\ \A w : BuiltHighest(n, u, w) <=> BuiltHighest(n, s, w)
BY DEF BuiltHighest

(* Sending and logging (multicast_msg, class Log).                         *)
LEMMA LoggingUnnoted ==
    ASSUME NEW s, Formed(s), NEW m
    PROVE  /\ \A x : LET u == send(s, x, m)
                     IN  Unlogged(s, u) /\ u.view = s.view /\ u.myid = s.myid
           /\ LET u == storePrepCh(s, m)
              IN  Unlogged(s, u) /\ u.view = s.view /\ u.myid = s.myid
           /\ LET u == storeLdrPrepCh(s, m)
              IN  Unlogged(s, u) /\ u.view = s.view /\ u.myid = s.myid
           /\ LET u == storeNvCh(s, m)
              IN  Unnoted(s, u) /\ u.view = s.view /\ u.myid = s.myid
<1>1. ASSUME NEW x
      PROVE  LET u == send(s, x, m)
             IN  Unlogged(s, u) /\ u.view = s.view /\ u.myid = s.myid
  <2> DEFINE u == send(s, x, m)
  <2>1. /\ DOMAIN u = Fields /\ u.view = s.view /\ u.myid = s.myid
        /\ u.log = s.log /\ u.jblocks = s.jblocks
        BY DEF Formed, send, Fields
  <2> HIDE DEF u
  <2>2. QED
        BY <2>1 DEF Formed, Unnoted, Unlogged, u
<1>2. ASSUME NEW k \in LogFields, NEW x
      PROVE  LET u == [s EXCEPT !.log[k] = x]
             IN  /\ Unnoted(s, u) /\ u.view = s.view /\ u.myid = s.myid
                 /\ k # "newviewsCh" => Unlogged(s, u)
  <2> DEFINE l == [s.log EXCEPT ![k] = x]
             u == [s EXCEPT !.log = l]
  <2>1. DOMAIN l = LogFields /\ (k # "newviewsCh" => l.newviewsCh = s.log.newviewsCh)
        BY DEF Formed, LogFields
  <2> HIDE DEF l
  <2>2. /\ DOMAIN u = Fields /\ u.view = s.view /\ u.myid = s.myid
        /\ u.log = l /\ u.jblocks = s.jblocks
        BY DEF Formed, Fields
  <2>3. u = [s EXCEPT !.log[k] = x]
        BY DEF l
  <2> HIDE DEF u
  <2>4. QED
        BY <2>1, <2>2, <2>3 DEF Formed, Unnoted, Unlogged
<1>3. /\ \E x : storePrepCh(s, m) = [s EXCEPT !.log["preparesCh"] = x]
      /\ \E x : storeLdrPrepCh(s, m) = [s EXCEPT !.log["ldrpreparesCh"] = x]
      /\ \E x : storeNvCh(s, m) = [s EXCEPT !.log["newviewsCh"] = x]
      BY DEF storePrepCh, storeLdrPrepCh, storeNvCh
<1>4. QED
      BY <1>1, <1>2, <1>3 DEF LogFields

(* sendVoteCh.                                                             *)
LEMMA SendVoteUnnoted ==
    ASSUME NEW s, Formed(s), NEW block, NEW just
    PROVE  LET u == sendVoteCh(s, block, just)
           IN  Unlogged(s, u) /\ u.view = s.view /\ u.myid = s.myid
BY LoggingUnnoted DEF sendVoteCh

(* sendNvCh: a leader sends its message for the next view to another one.  *)
LEMMA SendNvUnnoted ==
    ASSUME NEW s, Formed(s), NEW m
    PROVE  LET u == sendNvCh(s, m)
           IN  /\ Unnoted(s, u) /\ u.view = s.view /\ u.myid = s.myid
               /\ getLeaderOf(s.view) = s.myid => Unlogged(s, u)
<1>1. getLeaderOf(s.view) # getLeaderOf(s.view + 1)
      BY NextLeader DEF Formed
<1>2. CASE s.myid = getLeaderOf(s.view + 1)
  <2>1. sendNvCh(s, m) = storeNvCh(s, m) /\ getLeaderOf(s.view) # s.myid
        BY <1>1, <1>2 DEF sendNvCh, amLeaderOf
  <2>2. QED
        BY <2>1, LoggingUnnoted
<1>3. CASE s.myid # getLeaderOf(s.view + 1)
  <2>1. sendNvCh(s, m) = send(s, keep_from_peers(s, getLeaderOf(s.view + 1)), m)
        BY <1>3 DEF sendNvCh, amLeaderOf
  <2>2. QED
        BY <2>1, LoggingUnnoted DEF Unlogged
<1>4. QED
      BY <1>2, <1>3

(* nextView and checkNewJustCh.                                            *)
LEMMA NextViewUnnoted ==
    ASSUME NEW s, Formed(s)
    PROVE  /\ \A c : Unlogged(s, nextView(s, c))
           /\ \A rdata : Unlogged(s, checkNewJustCh(s, rdata))
<1>1. ASSUME NEW j, NEW c
      PROVE  /\ Unlogged(s, nextView(s, c))
             /\ Unlogged(s, nextView([s EXCEPT !.justNV = j], c))
  <2> DEFINE u == nextView(s, c)
             w == nextView([s EXCEPT !.justNV = j], c)
  <2>1. /\ DOMAIN u = Fields /\ u.view = s.view + 1
        /\ u.log = s.log /\ u.jblocks = s.jblocks
        BY DEF Formed, nextView, setTimer, Fields
  <2>2. /\ DOMAIN w = Fields /\ w.view = s.view + 1
        /\ w.log = s.log /\ w.jblocks = s.jblocks
        BY DEF Formed, nextView, setTimer, Fields
  <2> HIDE DEF u, w
  <2>3. QED
        BY <2>1, <2>2 DEF Formed, Unnoted, Unlogged, u, w
<1>2. Unlogged(s, s)
      BY UnnotedOn
<1>3. QED
      BY <1>1, <1>2 DEF checkNewJustCh

(* tryExecuteCh marks blocks, and changes nothing else of them.            *)
LEMMA TryExecuteUnnoted ==
    ASSUME NEW s, Formed(s), NEW block0, NEW block1
    PROVE  Unlogged(s, tryExecuteCh(s, block0, block1))
<1>1. ASSUME NEW views PROVE Unlogged(s, executeCh(s, views))
  <2> DEFINE marked(v) == [s.jblocks[v] EXCEPT !.executed = @ \/ v \in Range(views)]
             jb == [v \in DOMAIN s.jblocks |-> marked(v)]
  <2>1. PICK e, trans : executeCh(s, views) =
            replyTransactions([s EXCEPT !.jblocks = jb, !.executed = e], trans)
        BY DEF executeCh
  <2>2. \A v \in DOMAIN s.jblocks : DOMAIN s.jblocks[v] = BlockFields
            => DOMAIN jb[v] = BlockFields /\ jb[v].just = s.jblocks[v].just
        BY DEF BlockFields
  <2>3. DOMAIN jb = DOMAIN s.jblocks
        OBVIOUS
  <2> HIDE DEF jb
  <2> DEFINE x == [s EXCEPT !.jblocks = jb, !.executed = e]
             u == replyTransactions(x, trans)
  <2>4. /\ DOMAIN x = Fields /\ x.view = s.view /\ x.log = s.log
        /\ x.jblocks = jb
        BY DEF Formed, Fields
  <2> HIDE DEF x
  <2>5. /\ DOMAIN u = Fields /\ u.view = s.view /\ u.log = s.log
        /\ u.jblocks = jb
        BY <2>4 DEF replyTransactions, Fields
  <2> HIDE DEF u
  <2>6. Unlogged(s, u)
        BY <2>2, <2>3, <2>5 DEF Formed, Unnoted, Unlogged
  <2>7. QED
        BY <2>1, <2>6 DEF u, x
<1>2. QED
      BY <1>1, UnnotedOn DEF tryExecuteCh

(* voteCh notes the block of its view.                                     *)
LEMMA VoteNotes ==
    ASSUME NEW s, Formed(s), NEW block
    PROVE  LET u == voteCh(s, block)
           IN  /\ DOMAIN u.jblocks = DOMAIN s.jblocks \cup {s.view}
               /\ getLeaderOf(s.view) = s.myid =>
                     u.log.newviewsCh = s.log.newviewsCh
               /\ DOMAIN block = BlockFields =>
                     u.jblocks[s.view].just = block.just
<1> DEFINE o == [s EXCEPT !.jblocks = assign(@, s.view, block)]
<1>1. voteCh(s, block) = VoteOn(s, o, block)
      BY DEF voteCh, VoteOn
<1>2. /\ DOMAIN o = Fields /\ o.view = s.view /\ o.myid = s.myid /\ o.log = s.log
      /\ o.jblocks = assign(s.jblocks, s.view, block)
      BY DEF Formed, Fields
<1> HIDE DEF o
<1>3. /\ Formed(o) /\ DOMAIN o.jblocks = DOMAIN s.jblocks \cup {s.view}
      /\ o.jblocks[s.view] = block
      BY <1>2 DEF assign, Formed
<1> DEFINE view0  == getCView(block.just)
           view1  == getCView(o.jblocks[view0].just)
           block0 == o.jblocks[view0]
           block1 == o.jblocks[view1]
           r1 == TEEprepare(s.myid, s.tp, block, block0, block1)
           r2 == TEEsign(s.myid, r1.tee)
           s1 == [o EXCEPT !.tp = r2.tee]
           x  == sendVoteCh(s1, block, r1.just)
           s2 == sendNvCh(x, MsgNewViewCh(r2.just))
           s3 == tryExecuteCh(s2, block0, block1)
           u  == voteCh(s, block)
<1>4. \/ u = o
      \/ u = s1
      \/ u = checkNewJustCh(s3, r1.just.rdata)
      \/ u = nextView(s3, "handleEarlierMessagesCh")
      BY <1>1 DEF VoteOn
<1>5. Unlogged(o, s1) /\ s1.view = s.view /\ s1.myid = s.myid
  <2>1. /\ DOMAIN s1 = Fields /\ s1.view = o.view /\ s1.myid = o.myid
        /\ s1.log = o.log /\ s1.jblocks = o.jblocks
        BY <1>2 DEF Fields
  <2> HIDE DEF s1
  <2>2. QED
        BY <1>2, <1>3, <2>1 DEF Formed, Unnoted, Unlogged
<1> HIDE DEF r1, r2, s1, block0, block1, view0, view1
<1>6. Unlogged(s1, x) /\ x.view = s.view /\ x.myid = s.myid
      BY <1>5, SendVoteUnnoted DEF Unlogged, Unnoted
<1> HIDE DEF x
<1>7. Unnoted(x, s2) /\ (getLeaderOf(s.view) = s.myid => Unlogged(x, s2))
      BY <1>6, SendNvUnnoted DEF Unlogged, Unnoted
<1> HIDE DEF s2
<1>8. Unlogged(s2, s3)
      BY <1>7, TryExecuteUnnoted DEF Unnoted
<1> HIDE DEF s3
<1>9. /\ Unlogged(s3, checkNewJustCh(s3, r1.just.rdata))
      /\ Unlogged(s3, nextView(s3, "handleEarlierMessagesCh"))
      BY <1>8, NextViewUnnoted DEF Unlogged, Unnoted
<1> HIDE DEF u
<1>10. Unnoted(o, u) /\ (getLeaderOf(s.view) = s.myid => Unlogged(o, u))
  <2>1. Unlogged(o, o) /\ Unlogged(o, x)
        BY <1>3, <1>5, <1>6, UnnotedOn
  <2>2. Unnoted(o, s3) /\ (getLeaderOf(s.view) = s.myid => Unlogged(o, s3))
    <3>1. Unnoted(o, s2) /\ (getLeaderOf(s.view) = s.myid => Unlogged(o, s2))
          BY <1>7, <2>1, UnnotedOn DEF Unlogged
    <3>2. QED
          BY <1>8, <3>1, UnnotedOn DEF Unlogged
  <2>3. CASE u = o \/ u = s1
        BY <1>5, <2>1, <2>3 DEF Unlogged
  <2>4. CASE Unlogged(s3, u)
        BY <2>2, <2>4, UnnotedOn DEF Unlogged
  <2>5. QED
        BY <1>4, <1>9, <2>3, <2>4
<1>11. DOMAIN u.jblocks = DOMAIN s.jblocks \cup {s.view}
       BY <1>3, <1>10 DEF Unnoted
<1>12. ASSUME DOMAIN block = BlockFields
       PROVE  u.jblocks[s.view].just = block.just
  <2>1. s.view \in DOMAIN o.jblocks /\ DOMAIN o.jblocks[s.view] = BlockFields
        BY <1>3, <1>12
  <2>2. u.jblocks[s.view].just = o.jblocks[s.view].just
        BY <1>10, <2>1 DEF Unnoted
  <2>3. QED
        BY <1>3, <2>2
<1>13. QED
       BY <1>2, <1>10, <1>11, <1>12 DEF Unlogged, u

(* A block that a backup notes is not its own.                             *)
LEMMA VoteBuilds ==
    ASSUME NEW s, Formed(s), NEW block, NEW n, getLeaderOf(s.view) # n
    PROVE  BuiltHighest(n, s, voteCh(s, block))
BY VoteNotes DEF BuiltHighest

(* The justification that a leader takes is as high as any report it has.  *)
LEMMA JustHighest ==
    ASSUME NEW K, Sound(K), NEW n \in PID, NEW s, ReplicaSound(K, n, s),
           s.view # 0, getLeaderOf(s.view) = n,
           s.view \notin DOMAIN s.jblocks,
           \/ s.justNV.set /\ s.justNV.rdata.propv + 1 = s.view
           \/ Cardinality(InView(s.log.newviewsCh, s.view - 1)) >= QSize
    PROVE  \A m \in InView(s.log.newviewsCh, s.view - 1) :
              m.rdata.justv <= getCView(latestJust(s))
<1> DEFINE u == s.view
           j == latestJust(s)
<1>1. /\ u \in Nat \ {0} /\ LogSound(K, n, s.log) /\ JustSound(K, n, s)
      BY DEF ReplicaSound, BodySound, Shape
<1>2. CASE s.justNV.set /\ s.justNV.rdata.propv + 1 = u
  <2>1. s.justNV.rdata.propv \in Nat /\ CertSound(K, s.justNV)
        BY <1>1, <1>2 DEF JustSound
  <2>2. j = s.justNV /\ s.justNV.rdata.propv = u - 1
        BY <1>1, <1>2, <2>1 DEF latestJust
  <2> HIDE DEF j, u
  <2>3. getCView(j) = u - 1
        BY <2>1, <2>2, CertFact
  <2>4. ASSUME NEW m \in InView(s.log.newviewsCh, u - 1)
        PROVE  m.rdata.justv <= u - 1
    <3>1. PICK i \in PID : m.rdata.propv = u - 1 /\ ReportSound(K, i, m.rdata)
          BY <1>1, ReportsFact DEF u
    <3>2. PICK x \in DOMAIN K.proposed :
              /\ Prepared(K, i, u - 1, x)
              /\ m.rdata = RData(Dummy, u - 1, HashOf(K, x), x, NEWVIEW)
          BY <3>1 DEF ReportSound
    <3>3. x \in Nat /\ u - 1 \in Nat /\ m.rdata.justv = x
          BY <1>1, <3>2 DEF RData, Sound, LedgerType
    <3>4. QED
          BY <3>2, <3>3, PreparedFact
  <2>5. QED
        BY <2>3, <2>4 DEF u, j
<1>3. CASE /\ ~(s.justNV.set /\ s.justNV.rdata.propv + 1 = u)
           /\ Cardinality(InView(s.log.newviewsCh, u - 1)) >= QSize
  <2>1. s.justNV.set => s.justNV.rdata.propv \in Nat
        BY <1>1 DEF JustSound
  <2>2. j = findHighestNvCh(s, u - 1)
        BY <1>1, <1>3, <2>1 DEF latestJust
  <2> HIDE DEF j
  <2>3. \A m \in InView(s.log.newviewsCh, u - 1) :
            m.rdata.justv <= getCView(findHighestNvCh(s, u - 1))
        BY <1>1, <1>3, HighestJustifies
  <2>4. QED
        BY <2>2, <2>3 DEF j
<1>4. QED
      BY <1>2, <1>3

(* prepareCh: the leader's block is built on it.                           *)
LEMMA PrepareBuilds ==
    ASSUME NEW K, Sound(K), NEW n \in PID, NEW s, ReplicaSound(K, n, s),
           s.view # 0, getLeaderOf(s.view) = n,
           s.view \notin DOMAIN s.jblocks,
           \/ s.justNV.set /\ s.justNV.rdata.propv + 1 = s.view
           \/ Cardinality(InView(s.log.newviewsCh, s.view - 1)) >= QSize
    PROVE  BuiltHighest(n, s, prepareCh(s))
<1> DEFINE j  == latestJust(s)
           s1 == [s EXCEPT !.justNV = j]
           s2 == popTransactions(s1)
           block == createNewBlockCh(s1)
           u == prepareCh(s)
<1>1. u = voteCh(s2, block)
      BY DEF prepareCh
<1>2. /\ DOMAIN s = Fields /\ s.myid = n /\ s.view \in Nat
      /\ DOMAIN s.log = LogFields
      BY DEF ReplicaSound, BodySound, Shape, LogSound, LogFields
<1>3. \A m \in InView(s.log.newviewsCh, s.view - 1) : m.rdata.justv <= getCView(j)
      BY JustHighest
<1> HIDE DEF j, u
<1>4. /\ DOMAIN s1 = Fields /\ s1.view = s.view /\ s1.myid = n
      /\ s1.log = s.log /\ s1.jblocks = s.jblocks /\ s1.justNV = j
      BY <1>2 DEF Fields
<1> HIDE DEF s1
<1>5. /\ Formed(s2) /\ s2.view = s.view /\ s2.myid = n
      /\ s2.log = s.log /\ s2.jblocks = s.jblocks
      BY <1>2, <1>4 DEF popTransactions, Formed, Fields
<1>6. DOMAIN block = BlockFields /\ block.just = j
      BY <1>4 DEF createNewBlockCh, JBlock, BlockFields
<1> HIDE DEF s2, block
<1>7. /\ DOMAIN u.jblocks = DOMAIN s.jblocks \cup {s.view}
      /\ u.log.newviewsCh = s.log.newviewsCh
      /\ u.jblocks[s.view].just = j
      BY <1>1, <1>5, <1>6, VoteNotes
<1>8. QED
      BY <1>3, <1>7 DEF BuiltHighest, u

(* handleEarlierMessagesCh votes for a proposal of another leader.         *)
LEMMA EarlierBuilds ==
    ASSUME NEW s, Formed(s), NEW n, s.myid = n
    PROVE  BuiltHighest(n, s, handleEarlierMessagesCh(s))
<1>1. CASE amCurrentLeader(s)
      BY <1>1, UnnotedBuilds DEF handleEarlierMessagesCh
<1>2. CASE ~amCurrentLeader(s)
  <2>1. PICK block : \/ handleEarlierMessagesCh(s) = s
                     \/ handleEarlierMessagesCh(s) = voteCh(s, block)
        BY DEF handleEarlierMessagesCh
  <2>2. QED
        BY <1>2, <2>1, VoteBuilds, UnnotedBuilds DEF amCurrentLeader, amLeaderOf
<1>3. QED
      BY <1>1, <1>2

(* handleNewviewCh makes a block when it has a quorum of reports.          *)
LEMMA HandleNewviewBuilds ==
    ASSUME NEW K, Sound(K), NEW n \in PID, NEW s, ReplicaSound(K, n, s),
           NEW m, NewviewSound(K, m)
    PROVE  BuiltHighest(n, s, handleNewviewCh(s, m))
<1> DEFINE u == storeNvCh(s, m)
           ready == /\ m.rdata.phase = NEWVIEW /\ m.rdata.propv + 1 = s.view
                    /\ store(s.log.newviewsCh, m).size >= QSize
                    /\ s.view \notin DOMAIN s.jblocks
                    /\ getLeaderOf(s.view) = n
<1>1. /\ DOMAIN s = Fields /\ s.myid = n /\ s.view \in Nat
      /\ DOMAIN s.log = LogFields /\ m.rdata.propv \in Nat
      BY DEF ReplicaSound, BodySound, Shape, LogSound, LogFields, NewviewSound
<1>2. \/ handleNewviewCh(s, m) = s
      \/ handleNewviewCh(s, m) = u
      \/ ready /\ handleNewviewCh(s, m) = prepareCh(u)
      BY <1>1 DEF handleNewviewCh, amLeaderOf
<1>3. DOMAIN u.jblocks = DOMAIN s.jblocks
      BY <1>1, LoggingUnnoted DEF Formed, Unnoted
<1>4. ASSUME ready PROVE BuiltHighest(n, u, prepareCh(u))
  <2>1. /\ ReplicaSound(K, n, u) /\ u.view = s.view
        /\ Cardinality(InView(u.log.newviewsCh, u.view - 1)) >= QSize
        BY <1>4, QuorumLogged DEF Like
  <2> HIDE DEF u
  <2>2. u.view # 0 /\ getLeaderOf(u.view) = n /\ u.view \notin DOMAIN u.jblocks
        BY <1>1, <1>3, <1>4, <2>1
  <2>3. QED
        BY <2>1, <2>2, PrepareBuilds
<1> HIDE DEF u
<1>5. QED
      BY <1>2, <1>3, <1>4, UnnotedBuilds

(* handleLdrPrepareCh votes for blocks of other leaders.                   *)
LEMMA HandleLdrPrepareBuilds ==
    ASSUME NEW s, Formed(s), NEW n, s.myid = n, NEW m
    PROVE  BuiltHighest(n, s, handleLdrPrepareCh(s, m))
<1> DEFINE x == IF amLeaderOf(s, m.block.view + 1)
                THEN storePrepCh(s, MsgPrepareCh(ldrPrepareCh2just(m))) ELSE s
           y == storeLdrPrepCh(x, m)
<1>1. \/ handleLdrPrepareCh(s, m) = s
      \/ /\ handleLdrPrepareCh(s, m) = voteCh(x, m.block)
         /\ getLeaderOf(s.view) # n
      \/ handleLdrPrepareCh(s, m) = handleEarlierMessagesCh(y)
      BY DEF handleLdrPrepareCh, amLeaderOf
<1>2. Unlogged(s, x) /\ x.view = s.view /\ x.myid = n
      BY LoggingUnnoted, UnnotedOn
<1> HIDE DEF x
<1>3. Unlogged(x, y) /\ y.myid = n
      BY <1>2, LoggingUnnoted DEF Unlogged, Unnoted
<1> HIDE DEF y
<1>4. /\ BuiltHighest(n, s, s)
      /\ getLeaderOf(s.view) # n => BuiltHighest(n, x, voteCh(x, m.block))
      /\ BuiltHighest(n, y, handleEarlierMessagesCh(y))
      BY <1>2, <1>3, UnnotedBuilds, VoteBuilds, EarlierBuilds DEF Unlogged, Unnoted
<1>5. DOMAIN x.jblocks = DOMAIN s.jblocks /\ DOMAIN y.jblocks = DOMAIN s.jblocks
      BY <1>2, <1>3 DEF Unlogged, Unnoted
<1>6. QED
      BY <1>1, <1>4, <1>5, UnnotedBuilds

(* handlePrepareCh makes a certificate and no block.                       *)
LEMMA HandlePrepareBuilds ==
    ASSUME NEW s, Formed(s), NEW n, NEW m
    PROVE  BuiltHighest(n, s, handlePrepareCh(s, m))
<1> DEFINE x == storePrepCh(s, m)
           y == checkNewJustCh(x, m.rdata)
<1>1. handlePrepareCh(s, m) \in {s, x, y}
      BY DEF handlePrepareCh
<1>2. Unlogged(s, x)
      BY LoggingUnnoted
<1> HIDE DEF x
<1>3. Unlogged(x, y)
      BY <1>2, NextViewUnnoted DEF Unlogged, Unnoted
<1> HIDE DEF y
<1>4. QED
      BY <1>1, <1>2, <1>3, UnnotedBuilds DEF Unlogged, Unnoted

(* startNewViewCh makes no block.                                          *)
LEMMA StartNewViewBuilds ==
    ASSUME NEW s, Formed(s), NEW n
    PROVE  BuiltHighest(n, s, startNewViewCh(s))
<1> DEFINE r  == TEEsignUpTo(s.myid, s.tp, s.view)
           o  == [s EXCEPT !.tp = r.tee]
           s1 == sendNvCh(o, MsgNewViewCh(r.just))
<1>1. PICK c : startNewViewCh(s) = nextView(s1, c)
      BY DEF startNewViewCh
<1>2. Formed(o) /\ o.jblocks = s.jblocks
      BY DEF Formed, Fields
<1> HIDE DEF o, r
<1>3. Unnoted(o, s1)
      BY <1>2, SendNvUnnoted
<1> HIDE DEF s1
<1>4. Unlogged(s1, nextView(s1, c))
      BY <1>3, NextViewUnnoted DEF Unnoted
<1>5. QED
      BY <1>1, <1>2, <1>3, <1>4, UnnotedBuilds DEF Unlogged, Unnoted

(* getStartedCh notes genesis, and the leader of view 1 may make a block.  *)
LEMMA GetStartedBuilds ==
    ASSUME NEW K, Sound(K), NEW n \in PID, NEW s, ReplicaSound(K, n, s),
           s.view = 0, NEW started, started = [s EXCEPT !.started = TRUE],
           s.pending # "prepareCh"
    PROVE  BuiltHighest(n, s, getStartedCh(started))
<1> DEFINE r  == TEEsign(n, s.tp)
           m  == MsgNewViewCh(r.just)
           s1 == [started EXCEPT !.tp = r.tee, !.view = 1,
                                 !.jblocks = assign(@, 0, GenesisBlock)]
           u  == send(s1, keep_from_peers(started, getLeaderOf(started.view + 1)), m)
           w  == getStartedCh(started)
<1>1. /\ s.jblocks = <<>> /\ started.myid = n /\ started.tp = s.tp
      /\ s1.jblocks = assign(started.jblocks, 0, GenesisBlock)
      /\ started.jblocks = s.jblocks
  <2>1. DOMAIN s = Fields /\ s.jblocks = <<>> /\ s.myid = n
        BY DEF ReplicaSound, BodySound, Shape
  <2>2. /\ started.jblocks = s.jblocks /\ DOMAIN started = Fields
        /\ started.tp = s.tp /\ started.myid = s.myid
        BY <2>1 DEF Fields
  <2> HIDE DEF r
  <2>3. s1.jblocks = assign(started.jblocks, 0, GenesisBlock)
        BY <2>2 DEF Fields
  <2>4. QED
        BY <2>1, <2>2, <2>3
<1>2. PICK L : /\ Sound(L) /\ Grows(K, n, L)
               /\ ReplicaSound(L, n, s1) /\ NewviewSound(L, m)
  <2> HIDE DEF r, m
  <2>1. QED
        BY EnterFirstView DEF r, m
<1>3. \/ w = handleNewviewCh(s1, m)
      \/ w = handleEarlierMessagesCh(u)
      BY <1>1 DEF getStartedCh
<1>4. DOMAIN s1.jblocks = {0}
      BY <1>1 DEF assign
<1> HIDE DEF r, m, s1, w
<1>5. Formed(s1) /\ s1.myid = n
      BY <1>2 DEF ReplicaSound, BodySound, Shape, LogSound, LogFields, Formed
<1>6. Unlogged(s1, u) /\ u.myid = n
      BY <1>5, LoggingUnnoted
<1> HIDE DEF u
<1>7. /\ BuiltHighest(n, s1, handleNewviewCh(s1, m))
      /\ BuiltHighest(n, u, handleEarlierMessagesCh(u))
      BY <1>2, <1>6, HandleNewviewBuilds, EarlierBuilds DEF Unlogged, Unnoted
<1>8. BuiltHighest(n, s1, w)
  <2>1. CASE w = handleNewviewCh(s1, m)
        BY <1>7, <2>1
  <2>2. CASE w = handleEarlierMessagesCh(u)
        BY <1>6, <1>7, <2>2, UnnotedBuilds DEF Unlogged, Unnoted
  <2>3. QED
        BY <1>3, <2>1, <2>2
<1>9. BuiltHighest(n, s, w)
  <2>1. \A v \in DOMAIN w.jblocks : v > 0 => v \notin DOMAIN s1.jblocks
        BY <1>4
  <2>2. QED
        BY <1>8, <2>1 DEF BuiltHighest
<1>10. QED
       BY <1>9 DEF w

(* All replicas.                                                           *)
HighestStep == \A n \in PID : BuiltHighest(n, node[n], node'[n])

(* A message arrives.                                                      *)
LEMMA DeliverBuilds ==
    ASSUME Accounted, NEW p \in PID, NEW n \in PID, Deliver(p, n)
    PROVE  HighestStep
<1> DEFINE k == Upcoming(p, n)
           m == node[p].out[n][k]
           q == [node[p] EXCEPT !.out[n] = SubSeq(@, k + 1, Len(@))]
<1>1. PICK K : Sound(K) /\ \A i \in PID : ReplicaSound(K, i, node[i])
      BY DEF Accounted
<1>2. /\ p # n /\ DOMAIN node = PID /\ node[p].out[n] # <<>>
      /\ \A i \in PID : Formed(node[i]) /\ node[i].myid = i
  <2>1. p # n /\ DOMAIN node = PID /\ node[p].out[n] # <<>>
        BY DEF Deliver, HandleNewviewCh, HandleLdrPrepareCh, HandlePrepareCh,
               Receive, CanReceive, Accounted
  <2>2. \A i \in PID : Formed(node[i]) /\ node[i].myid = i
        BY <1>1 DEF ReplicaSound, BodySound, Shape, LogSound, LogFields, Formed
  <2>3. QED
        BY <2>1, <2>2
<1>3. PICK u : /\ \/ u = node[n]
                  \/ m.type = "newview_ch" /\ u = handleNewviewCh(node[n], m)
                  \/ u = handleLdrPrepareCh(node[n], m)
                  \/ u = handlePrepareCh(node[n], m)
               /\ node' = [node EXCEPT
                      ![p].out[n] = SubSeq(@, k + 1, Len(@)), ![n] = u]
      BY DEF Deliver, HandleNewviewCh, HandleLdrPrepareCh, HandlePrepareCh, Receive
<1>4. node' = [node EXCEPT ![p] = q, ![n] = u]
      BY <1>2, <1>3
<1>5. MessageSound(K, m)
      BY <1>1, <1>2, UpcomingFact
<1> HIDE DEF m, k
<1>6. BuiltHighest(n, node[n], u)
  <2>1. BuiltHighest(n, node[n], node[n])
        BY UnnotedBuilds
  <2>2. m.type = "newview_ch" => BuiltHighest(n, node[n], handleNewviewCh(node[n], m))
        BY <1>1, <1>5, MessageByType, HandleNewviewBuilds
  <2>3. /\ BuiltHighest(n, node[n], handleLdrPrepareCh(node[n], m))
        /\ BuiltHighest(n, node[n], handlePrepareCh(node[n], m))
        BY <1>2, HandleLdrPrepareBuilds, HandlePrepareBuilds
  <2>4. QED
        BY <1>3, <2>1, <2>2, <2>3
<1>7. q.jblocks = node[p].jblocks
      BY <1>2 DEF Formed, Fields
<1> HIDE DEF q
<1>8. /\ node'[n] = u /\ node'[p] = q
      /\ \A i \in PID \ {n, p} : node'[i] = node[i]
      BY <1>2, <1>4
<1>9. ASSUME NEW i \in PID PROVE BuiltHighest(i, node[i], node'[i])
  <2>1. CASE i = n
        BY <1>6, <1>8, <2>1
  <2>2. CASE i # n
    <3>1. node'[i].jblocks = node[i].jblocks
          BY <1>7, <1>8, <2>2
    <3>2. QED
          BY <3>1, UnnotedBuilds
  <2>3. QED
        BY <2>1, <2>2
<1>10. QED
       BY <1>9 DEF HighestStep

(* A replica moves on its own.                                             *)
LEMMA OwnBuilds ==
    ASSUME Accounted, NEW n \in PID,
           \/ Start(n) \/ PrepareCh(n) \/ HandleEarlierMessagesCh(n)
           \/ Timeout(n) \/ HandleTransaction(n) \/ Pause(n) \/ Resume(n)
    PROVE  HighestStep
<1> DEFINE s == node[n]
           started == [s EXCEPT !.started = TRUE]
           called  == [s EXCEPT !.pending = "none"]
<1>1. PICK K : Sound(K) /\ ReplicaSound(K, n, s)
      BY DEF Accounted
<1>2. DOMAIN node = PID
      BY DEF Accounted
<1>3. /\ DOMAIN s = Fields /\ s.myid = n /\ Formed(s)
      /\ JustSound(K, n, s) /\ Shape(n, s)
      BY <1>1 DEF ReplicaSound, BodySound, Shape, LogSound, LogFields, Formed
<1>4. ASSUME NEW u, BuiltHighest(n, s, u), node' = [node EXCEPT ![n] = u]
      PROVE  HighestStep
  <2>1. ASSUME NEW i \in PID PROVE BuiltHighest(i, node[i], node'[i])
    <3>1. node'[i] = IF i = n THEN u ELSE node[i]
          BY <1>2, <1>4
    <3>2. CASE i = n
          BY <1>4, <3>1, <3>2
    <3>3. CASE i # n
          BY <3>1, <3>3, UnnotedBuilds
    <3>4. QED
          BY <3>2, <3>3
  <2>2. QED
        BY <2>1 DEF HighestStep
<1>5. CASE Start(n)
  <2>1. s.view = 0 /\ s.pending # "prepareCh"
        BY <1>3, <1>5 DEF Start, CanStart, Idle, Shape
  <2>2. node' = [node EXCEPT ![n] = getStartedCh(started)]
        BY <1>5 DEF Start
  <2>3. BuiltHighest(n, s, getStartedCh(started))
        BY <1>1, <2>1, GetStartedBuilds
  <2>4. QED
        BY <1>4, <2>2, <2>3
<1>6. /\ ReplicaSound(K, n, called) /\ called.view = s.view
      /\ called.jblocks = s.jblocks /\ called.justNV = s.justNV
      /\ Formed(called) /\ called.myid = n
  <2>1. Agree(s, called) /\ called.tp = s.tp
        BY <1>3 DEF Agree, Fields
  <2> HIDE DEF called
  <2>2. ReplicaSound(K, n, called)
        BY <1>1, <2>1, AgreeFact DEF ReplicaSound
  <2>3. QED
        BY <1>3, <2>1, <2>2 DEF Agree, Formed
<1>7. CASE PrepareCh(n)
  <2>1. /\ s.justNV.set /\ s.justNV.rdata.propv + 1 = s.view
        /\ s.view \notin DOMAIN s.jblocks /\ getLeaderOf(s.view) = n
        /\ s.justNV.rdata.propv \in Nat
        BY <1>3, <1>7 DEF PrepareCh, JustSound
  <2>2. node' = [node EXCEPT ![n] = prepareCh(called)]
        BY <1>7 DEF PrepareCh
  <2>3. s.view # 0
        BY <2>1
  <2> HIDE DEF called
  <2>4. BuiltHighest(n, called, prepareCh(called))
        BY <1>1, <1>6, <2>1, <2>3, PrepareBuilds
  <2>5. QED
        BY <1>4, <1>6, <2>2, <2>4, UnnotedBuilds
<1>8. CASE HandleEarlierMessagesCh(n)
  <2>1. node' = [node EXCEPT ![n] = handleEarlierMessagesCh(called)]
        BY <1>8 DEF HandleEarlierMessagesCh
  <2> HIDE DEF called
  <2>2. QED
        BY <1>4, <1>6, <2>1, EarlierBuilds, UnnotedBuilds
<1>9. CASE Timeout(n)
  <2> DEFINE u == [s EXCEPT !.stopped = TRUE, !.timer = FALSE]
  <2>1. \/ node' = [node EXCEPT ![n] = u]
        \/ node' = [node EXCEPT ![n] = startNewViewCh(s)]
        BY <1>9 DEF Timeout, TimerExpires
  <2>2. u.jblocks = s.jblocks
        BY <1>3 DEF Fields
  <2> HIDE DEF u
  <2>3. BuiltHighest(n, s, u) /\ BuiltHighest(n, s, startNewViewCh(s))
        BY <1>3, <2>2, UnnotedBuilds, StartNewViewBuilds
  <2>4. QED
        BY <1>4, <2>1, <2>3
<1>10. CASE HandleTransaction(n) \/ Pause(n) \/ Resume(n)
  <2> DEFINE queue == IF s.isPaused THEN s.transactions
                      ELSE Append(s.transactions, Head(s.fromClient))
             taken == [s EXCEPT !.fromClient = Tail(s.fromClient),
                                !.transactions = queue]
             paused(b) == [s EXCEPT !.isPaused = b]
  <2>1. \/ node' = [node EXCEPT ![n] = taken]
        \/ node' = [node EXCEPT ![n] = paused(TRUE)]
        \/ node' = [node EXCEPT ![n] = paused(FALSE)]
        BY <1>10 DEF HandleTransaction, Pause, Resume
  <2> HIDE DEF queue
  <2>2. /\ taken.jblocks = s.jblocks /\ paused(TRUE).jblocks = s.jblocks
        /\ paused(FALSE).jblocks = s.jblocks
        BY <1>3 DEF Fields
  <2> HIDE DEF taken, paused
  <2>3. QED
        BY <1>4, <2>1, <2>2, UnnotedBuilds
<1>11. QED
       BY <1>5, <1>7, <1>8, <1>9, <1>10

(* No new-view message that a leader has for its view reports a later      *)
(* prepared block than the one its block is built on, whether prepareCh    *)
(* takes the certificate that was made of votes or the log's best message, *)
(* and although justNV outlives its view.                                  *)
THEOREM BuiltOnHighest == Spec => HighestParent
<1>1. ASSUME Accounted, Next PROVE HighestStep
      BY <1>1, OwnBuilds, DeliverBuilds DEF Next
<1>2. HighestStep <=>
          \A n \in PID :
              \A v \in DOMAIN node'[n].jblocks \ DOMAIN node[n].jblocks :
                  v > 0 /\ getLeaderOf(v) = n
                  => \A m \in InView(node'[n].log.newviewsCh, v - 1) :
                        m.rdata.justv <= getCView(node'[n].jblocks[v].just)
      BY DEF HighestStep, BuiltHighest
<1>3. QED
      BY <1>1, <1>2, AlwaysAccounted, PTL DEF Spec, HighestParent

-----------------------------------------------------------------------------
(* Transactions.                                                           *)

(* No transaction is in two places of replica n: on the client's           *)
(* connection, in the queue, or in a block.  Those of the blocks that the  *)
(* replica has executed are the ones it has replied to.                    *)
Placed(n, s) ==
    /\ s.transactions \in Seq(Nat) /\ IsInjective(s.transactions)
    /\ s.fromClient \in Seq(Nat) /\ IsInjective(s.fromClient)
    /\ Range(s.transactions) \subseteq Dealt(n, 1)
    /\ Range(s.fromClient) \subseteq Dealt(n, 1)
    /\ Apart(s.transactions, s.fromClient)
    /\ \A v \in DOMAIN s.jblocks :
          /\ s.jblocks[v].trans \in Seq(Nat) /\ IsInjective(s.jblocks[v].trans)
          /\ Range(s.jblocks[v].trans) \subseteq Dealt(getLeaderOf(v), 1)
          /\ Apart(s.jblocks[v].trans, s.transactions)
          /\ Apart(s.jblocks[v].trans, s.fromClient)
          /\ \A w \in DOMAIN s.jblocks :
                w # v => Apart(s.jblocks[v].trans, s.jblocks[w].trans)
    /\ s.replied \in Seq(Nat) /\ IsInjective(s.replied)
    /\ \A t \in Range(s.replied) :
          \E v \in DOMAIN s.jblocks :
              s.jblocks[v].executed /\ t \in Range(s.jblocks[v].trans)

(* The blocks of the ledger have no transaction in common.                 *)
Unrepeated(K) ==
    \A v \in DOMAIN K.proposed :
        LET trans == K.proposed[v].trans
        IN  /\ trans \in Seq(Nat) /\ IsInjective(trans)
            /\ Range(trans) \subseteq Dealt(getLeaderOf(v), 1)
            /\ \A w \in DOMAIN K.proposed :
                  w # v => Apart(trans, K.proposed[w].trans)

(* What moves no transaction.                                              *)
Unmoved(s, u) ==
    /\ DOMAIN u = Fields /\ DOMAIN u.log = LogFields
    /\ u.myid = s.myid /\ u.view \in Nat
    /\ u.transactions = s.transactions /\ u.fromClient = s.fromClient
    /\ u.jblocks = s.jblocks /\ u.replied = s.replied

(* Such calls keep the transactions where they are, and follow each other. *)
LEMMA UnmovedPlaced ==
    /\ \A s : Formed(s) => Unmoved(s, s)
    /\ \A s, u, w : Unmoved(s, u) /\ Unmoved(u, w) => Unmoved(s, w)
    /\ \A n, s, u : Unmoved(s, u) /\ Placed(n, s) => Placed(n, u)
<1>1. /\ \A s : Formed(s) => Unmoved(s, s)
      /\ \A s, u, w : Unmoved(s, u) /\ Unmoved(u, w) => Unmoved(s, w)
      BY DEF Unmoved, Formed
<1>2. ASSUME NEW n, NEW s, NEW u, Unmoved(s, u), Placed(n, s) PROVE Placed(n, u)
  <2>1. /\ u.transactions = s.transactions /\ u.fromClient = s.fromClient
        /\ u.jblocks = s.jblocks /\ u.replied = s.replied
        BY <1>2 DEF Unmoved
  <2>2. QED
        BY <1>2, <2>1 DEF Placed
<1>3. QED
      BY <1>1, <1>2

(* Sending and logging.                                                    *)
LEMMA LoggingUnmoved ==
    ASSUME NEW s, Formed(s), NEW m
    PROVE  /\ \A x : LET u == send(s, x, m) IN Unmoved(s, u) /\ u.view = s.view
           /\ LET u == storePrepCh(s, m) IN Unmoved(s, u) /\ u.view = s.view
           /\ LET u == storeLdrPrepCh(s, m) IN Unmoved(s, u) /\ u.view = s.view
           /\ LET u == storeNvCh(s, m) IN Unmoved(s, u) /\ u.view = s.view
<1>1. ASSUME NEW x PROVE LET u == send(s, x, m) IN Unmoved(s, u) /\ u.view = s.view
  <2> DEFINE u == send(s, x, m)
  <2>1. /\ DOMAIN u = Fields /\ u.view = s.view /\ u.myid = s.myid
        /\ u.log = s.log /\ u.jblocks = s.jblocks /\ u.replied = s.replied
        /\ u.transactions = s.transactions /\ u.fromClient = s.fromClient
        BY DEF Formed, send, Fields
  <2> HIDE DEF u
  <2>2. QED
        BY <2>1 DEF Formed, Unmoved, u
<1>2. ASSUME NEW k \in LogFields, NEW x
      PROVE  LET u == [s EXCEPT !.log[k] = x] IN Unmoved(s, u) /\ u.view = s.view
  <2> DEFINE l == [s.log EXCEPT ![k] = x]
             u == [s EXCEPT !.log = l]
  <2>1. DOMAIN l = LogFields
        BY DEF Formed, LogFields
  <2> HIDE DEF l
  <2>2. /\ DOMAIN u = Fields /\ u.view = s.view /\ u.myid = s.myid
        /\ u.log = l /\ u.jblocks = s.jblocks /\ u.replied = s.replied
        /\ u.transactions = s.transactions /\ u.fromClient = s.fromClient
        BY DEF Formed, Fields
  <2>3. u = [s EXCEPT !.log[k] = x]
        BY DEF l
  <2> HIDE DEF u
  <2>4. QED
        BY <2>1, <2>2, <2>3 DEF Formed, Unmoved
<1>3. /\ \E x : storePrepCh(s, m) = [s EXCEPT !.log["preparesCh"] = x]
      /\ \E x : storeLdrPrepCh(s, m) = [s EXCEPT !.log["ldrpreparesCh"] = x]
      /\ \E x : storeNvCh(s, m) = [s EXCEPT !.log["newviewsCh"] = x]
      BY DEF storePrepCh, storeLdrPrepCh, storeNvCh
<1>4. QED
      BY <1>1, <1>2, <1>3 DEF LogFields

(* sendVoteCh and sendNvCh.                                                *)
LEMMA SendUnmoved ==
    ASSUME NEW s, Formed(s), NEW m
    PROVE  /\ \A block, just : LET u == sendVoteCh(s, block, just)
                               IN  Unmoved(s, u) /\ u.view = s.view
           /\ LET u == sendNvCh(s, m) IN Unmoved(s, u) /\ u.view = s.view
BY LoggingUnmoved DEF sendVoteCh, sendNvCh

(* nextView and checkNewJustCh.                                            *)
LEMMA NextViewUnmoved ==
    ASSUME NEW s, Formed(s)
    PROVE  /\ \A c : Unmoved(s, nextView(s, c))
           /\ \A rdata : Unmoved(s, checkNewJustCh(s, rdata))
<1>1. ASSUME NEW j, NEW c
      PROVE  /\ Unmoved(s, nextView(s, c))
             /\ Unmoved(s, nextView([s EXCEPT !.justNV = j], c))
  <2> DEFINE u == nextView(s, c)
             w == nextView([s EXCEPT !.justNV = j], c)
  <2>1. /\ DOMAIN u = Fields /\ u.view = s.view + 1 /\ u.myid = s.myid
        /\ u.log = s.log /\ u.jblocks = s.jblocks /\ u.replied = s.replied
        /\ u.transactions = s.transactions /\ u.fromClient = s.fromClient
        BY DEF Formed, nextView, setTimer, Fields
  <2>2. /\ DOMAIN w = Fields /\ w.view = s.view + 1 /\ w.myid = s.myid
        /\ w.log = s.log /\ w.jblocks = s.jblocks /\ w.replied = s.replied
        /\ w.transactions = s.transactions /\ w.fromClient = s.fromClient
        BY DEF Formed, nextView, setTimer, Fields
  <2> HIDE DEF u, w
  <2>3. QED
        BY <2>1, <2>2 DEF Formed, Unmoved, u, w
<1>2. Unmoved(s, s)
      BY UnmovedPlaced
<1>3. QED
      BY <1>1, <1>2 DEF checkNewJustCh

(* Blocks as records, each but genesis built on an earlier one.            *)
Blocks(s) ==
    /\ Downward(s)
    /\ 0 \in DOMAIN s.jblocks => getCView(s.jblocks[0].just) = 0
    /\ \A v \in DOMAIN s.jblocks :
          DOMAIN s.jblocks[v] = BlockFields /\ s.jblocks[v].executed \in BOOLEAN

(* Those that a replica knows are such blocks, with the transactions that  *)
(* were proposed.                                                          *)
LEMMA KnownBlocks ==
    ASSUME NEW K, Sound(K), NEW s, BlocksSound(K, s)
    PROVE  /\ Blocks(s)
           /\ \A v \in DOMAIN s.jblocks :
                 /\ v \in DOMAIN K.proposed
                 /\ s.jblocks[v].trans = K.proposed[v].trans
<1>1. ASSUME NEW v \in DOMAIN s.jblocks
      PROVE  v \in DOMAIN K.proposed /\ s.jblocks[v].trans = K.proposed[v].trans
  <2>1. /\ v \in DOMAIN K.proposed
        /\ s.jblocks[v] = [K.proposed[v] EXCEPT !.executed = s.jblocks[v].executed]
        BY DEF BlocksSound
  <2>2. DOMAIN K.proposed[v] = BlockFields
        BY <2>1, FreshBlock, BlockFact
  <2>3. QED
        BY <2>1, <2>2 DEF BlockFields
<1>2. 0 \in DOMAIN s.jblocks => getCView(s.jblocks[0].just) = 0
  <2>1. K.proposed[0] = GenesisBlock
        BY DEF Sound, LedgerType
  <2>2. getCView(GenesisBlock.just) = 0
        BY GenesisFact
  <2>3. QED
        BY <2>1, <2>2, KnownFact
<1>3. \A v \in DOMAIN s.jblocks :
          DOMAIN s.jblocks[v] = BlockFields /\ s.jblocks[v].executed \in BOOLEAN
      BY KnownFact
<1>4. QED
      BY <1>1, <1>2, <1>3, KnownDownward DEF Blocks

(* executeCh: the transactions of blocks that have not been executed have  *)
(* not been replied to, and no two blocks have one in common.              *)
LEMMA ExecutePlaced ==
    ASSUME NEW n, NEW s, Formed(s), Placed(n, s), Blocks(s), NEW c, Path(s, c)
    PROVE  LET u == executeCh(s, c)
           IN  Placed(n, u) /\ Formed(u) /\ u.myid = s.myid /\ u.view = s.view
<1> DEFINE jb    == [v \in DOMAIN s.jblocks |->
                        [s.jblocks[v] EXCEPT !.executed = @ \/ v \in Range(c)]]
           parts == [k \in DOMAIN c |-> s.jblocks[c[k]].trans]
           trans == FlattenSeq(parts)
           u     == executeCh(s, c)
<1>1. PICK e : u = replyTransactions([s EXCEPT !.jblocks = jb, !.executed = e], trans)
      BY DEF executeCh
<1>2. /\ c \in Seq(Nat)
      /\ \A k \in DOMAIN c : c[k] \in DOMAIN s.jblocks /\ ~s.jblocks[c[k]].executed
      /\ \A i, k \in DOMAIN c : i < k => c[i] < c[k]
      BY DEF Path
<1>3. \A v \in DOMAIN s.jblocks :
          /\ jb[v].trans = s.jblocks[v].trans
          /\ jb[v].executed <=> s.jblocks[v].executed \/ v \in Range(c)
      BY DEF Blocks, BlockFields
<1>4. DOMAIN jb = DOMAIN s.jblocks
      OBVIOUS
<1>5. DOMAIN c = 1 .. Len(c) /\ Len(c) \in Nat /\ \A k \in DOMAIN c : c[k] \in Nat
      BY <1>2
<1>6. parts \in Seq(Seq(Nat))
  <2>1. \A k \in DOMAIN c : s.jblocks[c[k]].trans \in Seq(Nat)
        BY <1>2 DEF Placed
  <2>2. QED
        BY <1>5, <2>1
<1>7. /\ DOMAIN parts = DOMAIN c
      /\ \A k \in DOMAIN c : parts[k] = s.jblocks[c[k]].trans
      OBVIOUS
<1> HIDE DEF jb, parts, trans
<1>8. /\ \A k \in DOMAIN parts : IsInjective(parts[k])
      /\ \A i, k \in DOMAIN parts : i # k => Apart(parts[i], parts[k])
  <2>1. \A i, k \in DOMAIN c : i # k => c[i] # c[k]
        BY <1>2, <1>5
  <2>2. \A v \in DOMAIN s.jblocks :
            /\ IsInjective(s.jblocks[v].trans)
            /\ \A w \in DOMAIN s.jblocks :
                  w # v => Apart(s.jblocks[v].trans, s.jblocks[w].trans)
        BY DEF Placed
  <2>3. \A k \in DOMAIN c : IsInjective(parts[k])
        BY <1>2, <1>7, <2>2
  <2>4. ASSUME NEW i \in DOMAIN c, NEW k \in DOMAIN c, i # k
        PROVE  Apart(parts[i], parts[k])
    <3>1. c[k] # c[i] /\ c[i] \in DOMAIN s.jblocks /\ c[k] \in DOMAIN s.jblocks
          BY <1>2, <2>1, <2>4
    <3>2. Apart(s.jblocks[c[i]].trans, s.jblocks[c[k]].trans)
          BY <2>2, <3>1
    <3>3. QED
          BY <1>7, <3>2
  <2>5. QED
        BY <1>7, <2>3, <2>4
<1>9. /\ trans \in Seq(Nat) /\ IsInjective(trans)
      /\ \A x \in Range(trans) : \E k \in DOMAIN parts : x \in Range(parts[k])
      BY <1>6, <1>8, FlattenOnce DEF trans
<1>10. \A x \in Range(trans) : \E k \in DOMAIN c : x \in Range(s.jblocks[c[k]].trans)
       BY <1>7, <1>9
<1>11. Apart(s.replied, trans)
  <2>1. ASSUME NEW x \in Range(s.replied), x \in Range(trans) PROVE FALSE
    <3>1. PICK v \in DOMAIN s.jblocks :
              s.jblocks[v].executed /\ x \in Range(s.jblocks[v].trans)
          BY DEF Placed
    <3>2. PICK k \in DOMAIN c : x \in Range(s.jblocks[c[k]].trans)
          BY <1>10, <2>1
    <3>3. c[k] # v /\ c[k] \in DOMAIN s.jblocks
          BY <1>2, <3>1
    <3>4. Apart(s.jblocks[v].trans, s.jblocks[c[k]].trans)
          BY <3>3 DEF Placed
    <3>5. QED
          BY <3>1, <3>2, <3>4 DEF Apart
  <2>2. QED
        BY <2>1 DEF Apart
<1> DEFINE x == [s EXCEPT !.jblocks = jb, !.executed = e]
<1>12. /\ DOMAIN x = Fields /\ x.view = s.view /\ x.log = s.log /\ x.myid = s.myid
       /\ x.jblocks = jb /\ x.transactions = s.transactions
       /\ x.fromClient = s.fromClient /\ x.replied = s.replied
       BY DEF Formed, Fields
<1>13. u = replyTransactions(x, trans)
       BY <1>1
<1> HIDE DEF x, u
<1>14. /\ DOMAIN u = Fields /\ u.view = s.view /\ u.log = s.log /\ u.myid = s.myid
       /\ u.jblocks = jb /\ u.transactions = s.transactions
       /\ u.fromClient = s.fromClient
       /\ u.replied = s.replied \/ u.replied = s.replied \o trans
       BY <1>12, <1>13 DEF replyTransactions, Fields
<1>15. /\ u.replied \in Seq(Nat) /\ IsInjective(u.replied)
       /\ Range(u.replied) \subseteq Range(s.replied) \cup Range(trans)
  <2>1. s.replied \in Seq(Nat) /\ IsInjective(s.replied)
        BY DEF Placed
  <2>2. CASE u.replied = s.replied
        BY <2>1, <2>2
  <2>3. CASE u.replied = s.replied \o trans
        BY <1>9, <1>11, <2>1, <2>3, ConcatOnce
  <2>4. QED
        BY <1>14, <2>2, <2>3
<1>16. \A t \in Range(u.replied) :
           \E v \in DOMAIN jb : jb[v].executed /\ t \in Range(jb[v].trans)
  <2>1. ASSUME NEW t \in Range(s.replied)
        PROVE  \E v \in DOMAIN jb : jb[v].executed /\ t \in Range(jb[v].trans)
        BY <1>3, <1>4 DEF Placed
  <2>2. ASSUME NEW t \in Range(trans)
        PROVE  \E v \in DOMAIN jb : jb[v].executed /\ t \in Range(jb[v].trans)
    <3>1. PICK k \in DOMAIN c : t \in Range(s.jblocks[c[k]].trans)
          BY <1>10
    <3>2. c[k] \in DOMAIN s.jblocks /\ c[k] \in Range(c)
          BY <1>2, RangeFact
    <3>3. QED
          BY <1>3, <1>4, <3>1, <3>2
  <2>3. QED
        BY <1>15, <2>1, <2>2
<1>17. Placed(n, u)
       BY <1>3, <1>4, <1>14, <1>15, <1>16 DEF Placed
<1>18. QED
       BY <1>14, <1>17 DEF Formed, u

(* tryExecuteCh.                                                           *)
LEMMA TryExecutePlaced ==
    ASSUME NEW n, NEW s, Formed(s), Placed(n, s), Blocks(s),
           NEW block0, NEW v \in DOMAIN s.jblocks
    PROVE  LET u == tryExecuteCh(s, block0, s.jblocks[v])
           IN  Placed(n, u) /\ Formed(u) /\ u.myid = s.myid /\ u.view = s.view
<1> DEFINE p     == getCView(s.jblocks[v].just)
           chain == unexecuted(s, p)
<1>1. p \in Nat /\ Downward(s)
      BY DEF Blocks, Downward
<1>2. Found(s, chain, p)
      BY <1>1, UnexecutedFact
<1>3. \/ tryExecuteCh(s, block0, s.jblocks[v]) = s
      \/ chain.found /\ tryExecuteCh(s, block0, s.jblocks[v])
                            = executeCh(s, chain.views)
      BY DEF tryExecuteCh
<1> HIDE DEF chain, p
<1>4. chain.found => Path(s, chain.views)
      BY <1>2 DEF Found
<1>5. QED
      BY <1>3, <1>4, ExecutePlaced

(* voteCh: the block is noted, and blocks below it may be executed.        *)
LEMMA VotePlaced ==
    ASSUME NEW n, NEW s, Formed(s), NEW block,
           NEW o, o = [s EXCEPT !.jblocks = assign(@, s.view, block)],
           Placed(n, o), Blocks(o)
    PROVE  Placed(n, voteCh(s, block))
<1>1. voteCh(s, block) = VoteOn(s, o, block)
      BY DEF voteCh, VoteOn
<1>2. /\ DOMAIN o = Fields /\ o.view = s.view /\ o.myid = s.myid /\ o.log = s.log
      BY DEF Formed, Fields
<1>3. Formed(o)
      BY <1>2 DEF Formed
<1> DEFINE view0  == getCView(block.just)
           view1  == getCView(o.jblocks[view0].just)
           block0 == o.jblocks[view0]
           block1 == o.jblocks[view1]
           r1 == TEEprepare(s.myid, s.tp, block, block0, block1)
           r2 == TEEsign(s.myid, r1.tee)
           s1 == [o EXCEPT !.tp = r2.tee]
           x  == sendVoteCh(s1, block, r1.just)
           s2 == sendNvCh(x, MsgNewViewCh(r2.just))
           s3 == tryExecuteCh(s2, block0, block1)
           u  == voteCh(s, block)
<1>4. \/ u = o
      \/ u = s1
      \/ /\ view1 \in DOMAIN o.jblocks
         /\ \/ u = checkNewJustCh(s3, r1.just.rdata)
            \/ u = nextView(s3, "handleEarlierMessagesCh")
      BY <1>1 DEF VoteOn
<1>5. Unmoved(o, s1)
  <2>1. /\ DOMAIN s1 = Fields /\ s1.view = o.view /\ s1.myid = o.myid
        /\ s1.log = o.log /\ s1.jblocks = o.jblocks /\ s1.replied = o.replied
        /\ s1.transactions = o.transactions /\ s1.fromClient = o.fromClient
        BY <1>2 DEF Fields
  <2> HIDE DEF s1
  <2>2. QED
        BY <1>2, <1>3, <2>1 DEF Formed, Unmoved
<1> HIDE DEF r1, r2, s1, view0
<1>6. Unmoved(s1, x)
      BY <1>5, SendUnmoved DEF Unmoved, Formed
<1> HIDE DEF x
<1>7. Unmoved(x, s2)
      BY <1>6, SendUnmoved DEF Unmoved, Formed
<1> HIDE DEF s2
<1>8. Unmoved(o, s2)
      BY <1>5, <1>6, <1>7, UnmovedPlaced
<1>9. /\ Placed(n, s2) /\ Formed(s2) /\ s2.jblocks = o.jblocks
      BY <1>8, UnmovedPlaced DEF Unmoved, Formed
<1>10. Blocks(s2)
       BY <1>9 DEF Blocks, Downward
<1>11. block1 = s2.jblocks[view1]
       BY <1>9
<1> HIDE DEF block0, block1, view1
<1>12. view1 \in DOMAIN o.jblocks => Placed(n, s3) /\ Formed(s3)
       BY <1>9, <1>10, <1>11, TryExecutePlaced
<1> HIDE DEF s3
<1>13. ASSUME view1 \in DOMAIN o.jblocks
       PROVE  /\ Placed(n, checkNewJustCh(s3, r1.just.rdata))
              /\ Placed(n, nextView(s3, "handleEarlierMessagesCh"))
       BY <1>12, <1>13, NextViewUnmoved, UnmovedPlaced
<1>14. Placed(n, s1)
       BY <1>5, UnmovedPlaced
<1>15. QED
       BY <1>4, <1>13, <1>14 DEF u

(* The block that is noted has transactions of its own.                    *)
LEMMA NotePlaced ==
    ASSUME NEW n, NEW s, Formed(s), Placed(n, s), NEW block,
           block.trans \in Seq(Nat), IsInjective(block.trans),
           Range(block.trans) \subseteq Dealt(getLeaderOf(s.view), 1),
           Apart(block.trans, s.transactions), Apart(block.trans, s.fromClient),
           \A w \in DOMAIN s.jblocks :
               w # s.view => Apart(block.trans, s.jblocks[w].trans),
           s.view \in DOMAIN s.jblocks => ~s.jblocks[s.view].executed
    PROVE  Placed(n, [s EXCEPT !.jblocks = assign(@, s.view, block)])
<1> DEFINE jb == assign(s.jblocks, s.view, block)
           u  == [s EXCEPT !.jblocks = jb]
<1>1. /\ DOMAIN jb = DOMAIN s.jblocks \cup {s.view} /\ jb[s.view] = block
      /\ \A v \in DOMAIN s.jblocks : v # s.view => jb[v] = s.jblocks[v]
      BY DEF assign
<1>2. /\ u.jblocks = jb /\ u.transactions = s.transactions
      /\ u.fromClient = s.fromClient /\ u.replied = s.replied
      BY DEF Formed, Fields
<1> HIDE DEF u, jb
<1>3. ASSUME NEW t \in Range(s.replied)
      PROVE  \E v \in DOMAIN jb : jb[v].executed /\ t \in Range(jb[v].trans)
  <2>1. PICK v \in DOMAIN s.jblocks :
            s.jblocks[v].executed /\ t \in Range(s.jblocks[v].trans)
        BY DEF Placed
  <2>2. v # s.view
        BY <2>1
  <2>3. QED
        BY <1>1, <2>1, <2>2
<1>4. ASSUME NEW v \in DOMAIN jb
      PROVE  /\ jb[v].trans \in Seq(Nat) /\ IsInjective(jb[v].trans)
             /\ Range(jb[v].trans) \subseteq Dealt(getLeaderOf(v), 1)
             /\ Apart(jb[v].trans, s.transactions)
             /\ Apart(jb[v].trans, s.fromClient)
  <2>1. CASE v = s.view
        BY <1>1, <2>1
  <2>2. CASE v # s.view
        BY <1>1, <2>2 DEF Placed
  <2>3. QED
        BY <2>1, <2>2
<1>5. ASSUME NEW v \in DOMAIN jb, NEW w \in DOMAIN jb, w # v
      PROVE  Apart(jb[v].trans, jb[w].trans)
  <2>1. CASE v = s.view
        BY <1>1, <1>5, <2>1
  <2>2. CASE w = s.view
    <3>1. Apart(jb[w].trans, jb[v].trans)
          BY <1>1, <1>5, <2>2
    <3>2. QED
          BY <3>1 DEF Apart
  <2>3. CASE v # s.view /\ w # s.view
        BY <1>1, <1>5, <2>3 DEF Placed
  <2>4. QED
        BY <2>1, <2>2, <2>3
<1>6. Placed(n, u)
      BY <1>2, <1>3, <1>4, <1>5 DEF Placed
<1>7. QED
      BY <1>6 DEF u, jb

(* A replica votes for the block of another leader.                        *)
LEMMA VoteForPlaced ==
    ASSUME NEW K, Sound(K), NEW n \in PID, NEW s, ReplicaSound(K, n, s),
           s.pending # "prepareCh", NEW m, ProposalSound(K, m),
           m.block.view = s.view, getLeaderOf(s.view) # n,
           Placed(n, s), Unrepeated(K)
    PROVE  Placed(n, voteCh(s, m.block))
<1> DEFINE v == s.view
           o == [s EXCEPT !.jblocks = assign(@, s.view, m.block)]
<1>1. /\ v \in DOMAIN K.proposed \ {0} /\ m.block = K.proposed[v] /\ v \in Nat
      BY BlockFact DEF ProposalSound
<1>2. /\ BodySound(K, n, s) /\ Formed(s) /\ BlocksSound(K, s) /\ ExecutedSound(K, s)
      BY DEF ReplicaSound, BodySound, Shape, LogSound, LogFields, Formed
<1>3. BlocksSound(K, o)
  <2>1. /\ \A w \in DOMAIN K.proposed \ {0} :
               getLeaderOf(w) = n => w \in DOMAIN s.jblocks \/ w = s.view
        /\ s.justNV.set => s.justNV.rdata.propv \in Nat
                               /\ s.justNV.rdata.propv < s.view
        BY <1>2 DEF BodySound, LeaderSound, JustSound
  <2>2. BodySound(K, n, o)
        BY <1>1, <1>2, <2>1, NoteFact DEF BodySound
  <2>3. QED
        BY <2>2 DEF BodySound
<1>4. Blocks(o)
      BY <1>3, KnownBlocks
<1> HIDE DEF o
<1>5. /\ m.block.trans \in Seq(Nat) /\ IsInjective(m.block.trans)
      /\ Range(m.block.trans) \subseteq Dealt(getLeaderOf(v), 1)
      /\ \A w \in DOMAIN K.proposed :
            w # v => Apart(m.block.trans, K.proposed[w].trans)
      BY <1>1 DEF Unrepeated
<1>6. \A w \in DOMAIN s.jblocks :
          w # v => Apart(m.block.trans, s.jblocks[w].trans)
      BY <1>2, <1>5, KnownBlocks
<1>7. Apart(m.block.trans, s.transactions) /\ Apart(m.block.trans, s.fromClient)
  <2>1. getLeaderOf(v) \in PID
        BY <1>1, QuorumSizes DEF getLeaderOf, PID
  <2>2. Dealt(n, 1) \cap Dealt(getLeaderOf(v), 1) = {}
        BY <2>1, DealtOnce
  <2>3. Range(s.transactions) \subseteq Dealt(n, 1) /\ Range(s.fromClient) \subseteq Dealt(n, 1)
        BY DEF Placed
  <2>4. QED
        BY <1>5, <2>2, <2>3 DEF Apart
<1>8. v \in DOMAIN s.jblocks => ~s.jblocks[v].executed
  <2>1. ASSUME v \in DOMAIN s.jblocks, s.jblocks[v].executed PROVE FALSE
    <3>1. PICK k \in DOMAIN s.executed : s.executed[k].view = v
          BY <1>2, <2>1 DEF ExecutedSound
    <3>2. v < s.view
          BY <1>2, <3>1 DEF ExecutedSound
    <3>3. QED
          BY <1>1, <3>2
  <2>2. QED
        BY <2>1
<1>9. Placed(n, o)
      BY <1>2, <1>5, <1>6, <1>7, <1>8, NotePlaced DEF o
<1>10. QED
       BY <1>2, <1>4, <1>9, VotePlaced DEF o

(* handleEarlierMessagesCh votes for a stored proposal.                    *)
LEMMA EarlierPlaced ==
    ASSUME NEW K, Sound(K), NEW n \in PID, NEW s, ReplicaSound(K, n, s),
           s.pending # "prepareCh", Placed(n, s), Unrepeated(K)
    PROVE  Placed(n, handleEarlierMessagesCh(s))
<1> DEFINE proposal == firstLdrPrepareCh(s, s.view)
           m == CHOOSE x \in proposal : TRUE
<1>1. \/ handleEarlierMessagesCh(s) = s
      \/ /\ handleEarlierMessagesCh(s) = voteCh(s, m.block)
         /\ proposal # {} /\ getLeaderOf(s.view) # s.myid
      BY DEF handleEarlierMessagesCh, amCurrentLeader, amLeaderOf
<1>2. s.myid = n
      BY DEF ReplicaSound, BodySound, Shape
<1>3. proposal # {} => ProposalSound(K, m) /\ m.block.view = s.view
      BY StoredProposal
<1> HIDE DEF m
<1>4. QED
      BY <1>1, <1>2, <1>3, VoteForPlaced

(* prepareCh: the block takes the first transactions of the queue, and the *)
(* queue keeps the rest.                                                   *)
LEMMA PreparePlaced ==
    ASSUME NEW K, Sound(K), NEW n \in PID, NEW s, ReplicaSound(K, n, s),
           s.view # 0, getLeaderOf(s.view) = n, s.view \notin DOMAIN s.jblocks,
           \/ s.justNV.set /\ s.justNV.rdata.propv + 1 = s.view
           \/ Cardinality(InView(s.log.newviewsCh, s.view - 1)) >= QSize,
           Placed(n, s)
    PROVE  Placed(n, prepareCh(s))
<1> DEFINE u     == s.view
           j     == latestJust(s)
           trans == NextTrans(s)
           rest  == SubSeq(s.transactions, BlockSize(s) + 1, Len(s.transactions))
           block == JBlock(u, j, trans)
           s1 == [s EXCEPT !.justNV = j]
           s2 == popTransactions(s1)
           o  == [s2 EXCEPT !.jblocks = assign(@, s2.view, block)]
<1>1. /\ Formed(s) /\ u \in Nat \ {0} /\ BlocksSound(K, s)
      /\ s.transactions \in Seq(Nat) /\ IsInjective(s.transactions)
      BY DEF ReplicaSound, BodySound, Shape, LogSound, LogFields, Formed,
         Placed
<1>2. /\ getCView(j) \in Nat /\ getCView(j) < u
  <2>1. JustFor(K, u, j)
        BY LatestJustifies
  <2> HIDE DEF j, u
  <2>2. getCView(j) \in DOMAIN K.proposed /\ getCView(j) < u
        BY <2>1 DEF JustFor
  <2>3. QED
        BY <2>2 DEF Sound, LedgerType
<1>3. prepareCh(s) = voteCh(s2, block)
  <2>1. s1.view = s.view /\ s1.justNV = j /\ s1.transactions = s.transactions
        BY <1>1 DEF Formed, Fields
  <2>2. createNewBlockCh(s1) = block
        BY <2>1 DEF createNewBlockCh, NextTrans, BlockSize
  <2>3. QED
        BY <2>2 DEF prepareCh, j
<1>4. s2 = [s1 EXCEPT !.transactions = rest]
      BY <1>1 DEF popTransactions, BlockSize, Formed, Fields
<1>5. /\ IsInjective(trans) /\ IsInjective(rest) /\ Apart(trans, rest)
      /\ trans \in Seq(Nat) /\ rest \in Seq(Nat)
      /\ Range(trans) \subseteq Range(s.transactions)
      /\ Range(rest) \subseteq Range(s.transactions)
  <2>1. BlockSize(s) \in 0 .. Len(s.transactions)
        BY <1>1, BlockSizeFact
  <2>2. QED
        BY <1>1, <2>1, SplitOnce DEF NextTrans
<1>6. /\ DOMAIN block = BlockFields /\ block.just = j /\ block.trans = trans
      /\ block.executed = FALSE
      BY DEF JBlock, BlockFields
<1> HIDE DEF j, trans, rest, block
<1>7. /\ Formed(s2) /\ s2.view = u /\ s2.jblocks = s.jblocks
      /\ s2.transactions = rest /\ s2.fromClient = s.fromClient
      /\ s2.replied = s.replied
      BY <1>1, <1>4 DEF Formed, Fields
<1> HIDE DEF s1, s2
<1>8. Placed(n, s2)
  <2>1. /\ Range(rest) \subseteq Dealt(n, 1)
        /\ Apart(rest, s.fromClient)
        /\ \A v \in DOMAIN s.jblocks : Apart(s.jblocks[v].trans, rest)
        BY <1>5 DEF Placed, Apart
  <2>2. QED
        BY <1>5, <1>7, <2>1 DEF Placed
<1>9. Placed(n, o)
  <2>1. /\ Range(trans) \subseteq Dealt(getLeaderOf(s2.view), 1)
        /\ Apart(trans, s2.fromClient)
        /\ \A v \in DOMAIN s2.jblocks : Apart(trans, s2.jblocks[v].trans)
        BY <1>5, <1>7 DEF Placed, Apart
  <2>2. Apart(trans, s2.transactions) /\ s2.view \notin DOMAIN s2.jblocks
        BY <1>5, <1>7
  <2>3. QED
        BY <1>5, <1>6, <1>7, <1>8, <2>1, <2>2, NotePlaced
<1>10. Blocks(o)
  <2> DEFINE jb == assign(s2.jblocks, s2.view, block)
  <2>1. Blocks(s)
        BY <1>1, KnownBlocks
  <2>2. /\ DOMAIN jb = DOMAIN s.jblocks \cup {u} /\ jb[u] = block
        /\ \A v \in DOMAIN s.jblocks : v # u => jb[v] = s.jblocks[v]
        BY <1>7 DEF assign
  <2>3. o.jblocks = jb
        BY <1>7 DEF Formed, Fields
  <2> HIDE DEF jb, o, u
  <2>4. \A v \in DOMAIN jb : DOMAIN jb[v] = BlockFields /\ jb[v].executed \in BOOLEAN
        BY <1>6, <2>1, <2>2 DEF Blocks
  <2>5. \A v \in DOMAIN jb \ {0} : getCView(jb[v].just) \in Nat /\ getCView(jb[v].just) < v
    <3>1. getCView(jb[u].just) \in Nat /\ getCView(jb[u].just) < u
          BY <1>2, <1>6, <2>2
    <3>2. QED
          BY <2>1, <2>2, <3>1 DEF Blocks, Downward
  <2>6. 0 \in DOMAIN jb => getCView(jb[0].just) = 0
        BY <1>1, <2>1, <2>2 DEF Blocks
  <2>7. QED
        BY <2>3, <2>4, <2>5, <2>6 DEF Blocks, Downward
<1>11. QED
       BY <1>3, <1>7, <1>9, <1>10, VotePlaced

(* handleNewviewCh makes a block when it has a quorum of reports.          *)
LEMMA HandleNewviewPlaced ==
    ASSUME NEW K, Sound(K), NEW n \in PID, NEW s, ReplicaSound(K, n, s),
           NEW m, NewviewSound(K, m), Placed(n, s)
    PROVE  Placed(n, handleNewviewCh(s, m))
<1> DEFINE u == storeNvCh(s, m)
           ready == /\ m.rdata.phase = NEWVIEW /\ m.rdata.propv + 1 = s.view
                    /\ store(s.log.newviewsCh, m).size >= QSize
                    /\ s.view \notin DOMAIN s.jblocks
                    /\ getLeaderOf(s.view) = n
<1>1. /\ Formed(s) /\ s.myid = n /\ s.view \in Nat /\ m.rdata.propv \in Nat
      BY DEF ReplicaSound, BodySound, Shape, LogSound, LogFields, NewviewSound,
             Formed
<1>2. \/ handleNewviewCh(s, m) = s
      \/ handleNewviewCh(s, m) = u
      \/ ready /\ handleNewviewCh(s, m) = prepareCh(u)
      BY <1>1 DEF handleNewviewCh, amLeaderOf
<1>3. Unmoved(s, u) /\ u.view = s.view /\ u.jblocks = s.jblocks
      BY <1>1, LoggingUnmoved DEF Unmoved
<1>4. Placed(n, u)
      BY <1>3, UnmovedPlaced
<1>5. ASSUME ready PROVE Placed(n, prepareCh(u))
  <2>1. /\ ReplicaSound(K, n, u)
        /\ Cardinality(InView(u.log.newviewsCh, u.view - 1)) >= QSize
        BY <1>5, QuorumLogged DEF Like
  <2> HIDE DEF u
  <2>2. u.view # 0 /\ getLeaderOf(u.view) = n /\ u.view \notin DOMAIN u.jblocks
        BY <1>1, <1>3, <1>5
  <2>3. QED
        BY <1>4, <2>1, <2>2, PreparePlaced
<1> HIDE DEF u
<1>6. QED
      BY <1>2, <1>4, <1>5

(* handleLdrPrepareCh votes for a block of another leader, or stores it.   *)
LEMMA HandleLdrPreparePlaced ==
    ASSUME NEW K, Sound(K), NEW n \in PID, NEW s, ReplicaSound(K, n, s),
           s.pending # "prepareCh", NEW m, ProposalSound(K, m),
           Placed(n, s), Unrepeated(K)
    PROVE  Placed(n, handleLdrPrepareCh(s, m))
<1> DEFINE v    == m.block.view
           just == ldrPrepareCh2just(m)
           s1   == IF amLeaderOf(s, v + 1)
                   THEN storePrepCh(s, MsgPrepareCh(just)) ELSE s
           s2   == storeLdrPrepCh(s1, m)
<1>1. /\ BodySound(K, n, s) /\ Formed(s) /\ s.myid = n
      BY DEF ReplicaSound, BodySound, Shape, LogSound, LogFields, Formed
<1>2. \/ handleLdrPrepareCh(s, m) = s
      \/ /\ verify(just.signs, just.rdata)
         /\ \/ /\ v = s.view /\ getLeaderOf(s.view) # n
               /\ handleLdrPrepareCh(s, m) = voteCh(s1, m.block)
            \/ handleLdrPrepareCh(s, m) = handleEarlierMessagesCh(s2)
      BY <1>1 DEF handleLdrPrepareCh, amLeaderOf
<1>3. Unmoved(s, s1) /\ s1.view = s.view
      BY <1>1, LoggingUnmoved, UnmovedPlaced
<1>4. Unmoved(s1, s2)
      BY <1>3, LoggingUnmoved DEF Unmoved, Formed
<1>5. Placed(n, s1) /\ Placed(n, s2)
      BY <1>3, <1>4, UnmovedPlaced
<1>6. CASE verify(just.signs, just.rdata)
  <2>1. Like(s, s)
        BY <1>1 DEF Like, BodySound, Shape
  <2>2. PrepareSound(K, MsgPrepareCh(just))
        BY <1>6, LeaderVote
  <2>3. BodySound(K, n, s1) /\ Like(s, s1) /\ s1.tp = s.tp
        BY <1>1, <2>1, <2>2, StorePrepFact
  <2> HIDE DEF s1
  <2>4. BodySound(K, n, s2) /\ Like(s1, s2) /\ s2.tp = s1.tp
        BY <2>3, StoreLdrPrepFact
  <2> HIDE DEF s2
  <2>5. ReplicaSound(K, n, s1) /\ s1.pending # "prepareCh"
        BY <2>3 DEF ReplicaSound, Like
  <2>6. ReplicaSound(K, n, s2) /\ s2.pending # "prepareCh"
        BY <2>3, <2>4, <2>5 DEF ReplicaSound, Like
  <2>7. Placed(n, handleEarlierMessagesCh(s2))
        BY <1>5, <2>6, EarlierPlaced
  <2>8. v = s.view /\ getLeaderOf(s.view) # n => Placed(n, voteCh(s1, m.block))
        BY <1>3, <1>5, <2>5, VoteForPlaced
  <2>9. QED
        BY <1>2, <2>7, <2>8 DEF s1, s2
<1>7. QED
      BY <1>2, <1>6

(* handlePrepareCh and startNewViewCh move no transaction.                 *)
LEMMA OthersPlaced ==
    ASSUME NEW s, Formed(s), NEW n, Placed(n, s), NEW m
    PROVE  Placed(n, handlePrepareCh(s, m)) /\ Placed(n, startNewViewCh(s))
<1>1. Placed(n, handlePrepareCh(s, m))
  <2> DEFINE x == storePrepCh(s, m)
             y == checkNewJustCh(x, m.rdata)
  <2>1. handlePrepareCh(s, m) \in {s, x, y}
        BY DEF handlePrepareCh
  <2>2. Unmoved(s, x)
        BY LoggingUnmoved
  <2> HIDE DEF x
  <2>3. Unmoved(x, y)
        BY <2>2, NextViewUnmoved DEF Unmoved, Formed
  <2> HIDE DEF y
  <2>4. QED
        BY <2>1, <2>2, <2>3, UnmovedPlaced
<1>2. Placed(n, startNewViewCh(s))
  <2> DEFINE r  == TEEsignUpTo(s.myid, s.tp, s.view)
             o  == [s EXCEPT !.tp = r.tee]
             s1 == sendNvCh(o, MsgNewViewCh(r.just))
  <2>1. PICK c : startNewViewCh(s) = nextView(s1, c)
        BY DEF startNewViewCh
  <2> HIDE DEF r
  <2>2. Unmoved(s, o)
    <3>1. /\ DOMAIN o = Fields /\ o.view = s.view /\ o.myid = s.myid
          /\ o.log = s.log /\ o.jblocks = s.jblocks /\ o.replied = s.replied
          /\ o.transactions = s.transactions /\ o.fromClient = s.fromClient
          BY DEF Formed, Fields
    <3> HIDE DEF o
    <3>2. QED
          BY <3>1 DEF Formed, Unmoved
  <2> HIDE DEF o
  <2>3. Unmoved(o, s1)
        BY <2>2, SendUnmoved DEF Unmoved, Formed
  <2> HIDE DEF s1
  <2>4. Unmoved(s1, nextView(s1, c))
        BY <2>3, NextViewUnmoved DEF Unmoved, Formed
  <2>5. QED
        BY <2>1, <2>2, <2>3, <2>4, UnmovedPlaced
<1>3. QED
      BY <1>1, <1>2

(* getStartedCh: genesis has no transactions.                              *)
LEMMA GetStartedPlaced ==
    ASSUME NEW K, Sound(K), NEW n \in PID, NEW s, ReplicaSound(K, n, s),
           s.view = 0, NEW started, started = [s EXCEPT !.started = TRUE],
           s.pending # "prepareCh", Placed(n, s), Unrepeated(K)
    PROVE  Placed(n, getStartedCh(started))
<1> DEFINE r  == TEEsign(n, s.tp)
           m  == MsgNewViewCh(r.just)
           s1 == [started EXCEPT !.tp = r.tee, !.view = 1,
                                 !.jblocks = assign(@, 0, GenesisBlock)]
           u  == send(s1, keep_from_peers(started, getLeaderOf(started.view + 1)), m)
           w  == getStartedCh(started)
<1>1. PICK L : /\ Sound(L) /\ Grows(K, n, L)
               /\ ReplicaSound(L, n, s1) /\ NewviewSound(L, m)
               /\ SameBlocks(K, L)
  <2> HIDE DEF r, m
  <2>1. QED
        BY EnterFirstView DEF r, m
<1>2. /\ s1.view = 1 /\ s1.pending # "prepareCh"
      /\ started.myid = n /\ started.tp = s.tp
      /\ s1.jblocks = assign(<<>>, 0, GenesisBlock) /\ s.jblocks = <<>>
      /\ s1.transactions = s.transactions /\ s1.fromClient = s.fromClient
      /\ s1.replied = s.replied
  <2>1. DOMAIN s = Fields /\ s.jblocks = <<>> /\ s.myid = n
        BY DEF ReplicaSound, BodySound, Shape
  <2>2. /\ DOMAIN started = Fields /\ started.jblocks = s.jblocks
        /\ started.tp = s.tp /\ started.myid = s.myid
        /\ started.pending = s.pending /\ started.replied = s.replied
        /\ started.transactions = s.transactions
        /\ started.fromClient = s.fromClient
        BY <2>1 DEF Fields
  <2> HIDE DEF r, m
  <2>3. /\ s1.view = 1 /\ s1.pending = started.pending
        /\ s1.jblocks = assign(started.jblocks, 0, GenesisBlock)
        /\ s1.transactions = started.transactions
        /\ s1.fromClient = started.fromClient /\ s1.replied = started.replied
        BY <2>2 DEF Fields
  <2>4. QED
        BY <2>1, <2>2, <2>3
<1>3. \/ w = handleNewviewCh(s1, m)
      \/ w = handleEarlierMessagesCh(u)
      BY <1>2 DEF getStartedCh
<1> HIDE DEF r, m, s1, w
<1>4. Formed(s1)
      BY <1>1 DEF ReplicaSound, BodySound, Shape, LogSound, LogFields, Formed
<1>5. Placed(n, s1)
  <2>1. DOMAIN s1.jblocks = {0} /\ s1.jblocks[0] = GenesisBlock
        BY <1>2 DEF assign
  <2>2. /\ GenesisBlock.trans = <<>> /\ <<>> \in Seq(Nat)
        /\ IsInjective(<<>>) /\ Range(<<>>) = {}
        BY DEF GenesisBlock, JBlock, IsInjective, Range
  <2>3. Range(s.replied) = {}
        BY <1>2 DEF Placed
  <2>4. \A v \in DOMAIN s1.jblocks :
            /\ s1.jblocks[v].trans \in Seq(Nat) /\ IsInjective(s1.jblocks[v].trans)
            /\ Range(s1.jblocks[v].trans) = {}
            /\ \A x \in DOMAIN s1.jblocks : x = v
        BY <2>1, <2>2
  <2>5. QED
        BY <1>2, <2>3, <2>4 DEF Placed, Apart
<1>6. Unmoved(s1, u)
      BY <1>4, LoggingUnmoved
<1>7. Unrepeated(L)
      BY <1>1 DEF Unrepeated, SameBlocks
<1>8. CASE w = handleNewviewCh(s1, m)
      BY <1>1, <1>5, <1>8, HandleNewviewPlaced DEF w
<1>9. CASE w = handleEarlierMessagesCh(u)
  <2>1. MessageSound(L, m)
        BY <1>1 DEF MessageSound
  <2>2. BodySound(L, n, u) /\ Like(s1, u) /\ u.tp = s1.tp
        BY <1>1, <2>1, SendFact DEF ReplicaSound
  <2> HIDE DEF u
  <2>3. ReplicaSound(L, n, u) /\ u.pending # "prepareCh"
        BY <1>1, <1>2, <2>2 DEF ReplicaSound, Like
  <2>4. Placed(n, u)
        BY <1>5, <1>6, UnmovedPlaced
  <2>5. Placed(n, handleEarlierMessagesCh(u))
        BY <1>1, <1>7, <2>3, <2>4, EarlierPlaced
  <2>6. QED
        BY <1>9, <2>5 DEF w
<1>10. QED
       BY <1>3, <1>8, <1>9 DEF w

-----------------------------------------------------------------------------
(* All replicas.                                                           *)

AllPlaced == \A i \in PID : Placed(i, node[i])

(* A block of the ledger is known to its leader, who took its transactions *)
(* from its own queue.                                                     *)
LEMMA PlacedLedger ==
    ASSUME NEW K, Sound(K), \A i \in PID : ReplicaSound(K, i, node[i]), AllPlaced
    PROVE  Unrepeated(K)
<1>1. \A v \in DOMAIN K.proposed : v \in Nat /\ getLeaderOf(v) \in PID
      BY BlockFact, QuorumSizes DEF getLeaderOf, PID
<1>2. ASSUME NEW v \in DOMAIN K.proposed \ {0}
      PROVE  LET s == node[getLeaderOf(v)]
             IN  /\ getLeaderOf(v) \in PID /\ v \in DOMAIN s.jblocks
                 /\ s.jblocks[v].trans = K.proposed[v].trans
                 /\ BlocksSound(K, s) /\ Placed(getLeaderOf(v), s)
  <2>1. LET s == node[getLeaderOf(v)]
        IN  /\ getLeaderOf(v) \in PID /\ v \in DOMAIN s.jblocks
            /\ BlocksSound(K, s) /\ Placed(getLeaderOf(v), s)
        BY <1>1 DEF ReplicaSound, BodySound, LeaderSound, AllPlaced
  <2>2. QED
        BY <2>1, KnownBlocks
<1>3. K.proposed[0].trans = <<>>
      BY DEF Sound, LedgerType, GenesisBlock, JBlock
<1>4. <<>> \in Seq(Nat) /\ IsInjective(<<>>) /\ Range(<<>>) = {}
      BY DEF IsInjective, Range
<1>5. ASSUME NEW v \in DOMAIN K.proposed
      PROVE  LET trans == K.proposed[v].trans
             IN  /\ trans \in Seq(Nat) /\ IsInjective(trans)
                 /\ Range(trans) \subseteq Dealt(getLeaderOf(v), 1)
  <2>1. CASE v = 0
        BY <1>3, <1>4, <2>1
  <2>2. CASE v # 0
    <3>1. /\ v \in DOMAIN node[getLeaderOf(v)].jblocks
          /\ node[getLeaderOf(v)].jblocks[v].trans = K.proposed[v].trans
          /\ Placed(getLeaderOf(v), node[getLeaderOf(v)])
          BY <1>2, <2>2
    <3>2. QED
          BY <3>1 DEF Placed
  <2>3. QED
        BY <2>1, <2>2
<1>6. ASSUME NEW v \in DOMAIN K.proposed, NEW w \in DOMAIN K.proposed, w # v
      PROVE  Apart(K.proposed[v].trans, K.proposed[w].trans)
  <2>1. CASE v = 0 \/ w = 0
        BY <1>3, <1>4, <2>1 DEF Apart
  <2>2. CASE v # 0 /\ w # 0 /\ getLeaderOf(v) = getLeaderOf(w)
    <3> DEFINE s == node[getLeaderOf(v)]
    <3>1. /\ v \in DOMAIN s.jblocks /\ s.jblocks[v].trans = K.proposed[v].trans
          /\ w \in DOMAIN s.jblocks /\ s.jblocks[w].trans = K.proposed[w].trans
          /\ Placed(getLeaderOf(v), s)
          BY <1>2, <2>2
    <3> HIDE DEF s
    <3>2. Apart(s.jblocks[v].trans, s.jblocks[w].trans)
          BY <1>6, <3>1 DEF Placed
    <3>3. QED
          BY <3>1, <3>2
  <2>3. CASE getLeaderOf(v) # getLeaderOf(w)
    <3>1. Dealt(getLeaderOf(v), 1) \cap Dealt(getLeaderOf(w), 1) = {}
          BY <1>1, <2>3, DealtOnce
    <3>2. QED
          BY <1>5, <3>1 DEF Apart
  <2>4. QED
        BY <2>1, <2>2, <2>3
<1>7. QED
      BY <1>5, <1>6 DEF Unrepeated

(* A message arrives.                                                      *)
LEMMA DeliverPlaced ==
    ASSUME Accounted, AllPlaced, NEW p \in PID, NEW n \in PID, Deliver(p, n)
    PROVE  AllPlaced'
<1> DEFINE k == Upcoming(p, n)
           m == node[p].out[n][k]
           q == [node[p] EXCEPT !.out[n] = SubSeq(@, k + 1, Len(@))]
<1>1. PICK K : Sound(K) /\ \A i \in PID : ReplicaSound(K, i, node[i])
      BY DEF Accounted
<1>2. /\ p # n /\ DOMAIN node = PID /\ node[p].out[n] # <<>>
      /\ node[n].pending # "prepareCh"
      /\ Formed(node[n]) /\ Formed(node[p])
  <2>1. CanReceive(p, n)
        BY DEF Deliver, HandleNewviewCh, HandleLdrPrepareCh, HandlePrepareCh,
               Receive
  <2>2. \A i \in PID : Formed(node[i])
        BY <1>1 DEF ReplicaSound, BodySound, Shape, LogSound, LogFields, Formed
  <2>3. QED
        BY <2>1, <2>2 DEF Accounted, CanReceive, Idle
<1>3. PICK u : /\ \/ u = node[n]
                  \/ m.type = "newview_ch" /\ u = handleNewviewCh(node[n], m)
                  \/ m.type = "ldrprepare_ch" /\ u = handleLdrPrepareCh(node[n], m)
                  \/ u = handlePrepareCh(node[n], m)
               /\ node' = [node EXCEPT
                      ![p].out[n] = SubSeq(@, k + 1, Len(@)), ![n] = u]
      BY DEF Deliver, HandleNewviewCh, HandleLdrPrepareCh, HandlePrepareCh, Receive
<1>4. node' = [node EXCEPT ![p] = q, ![n] = u]
      BY <1>2, <1>3
<1>5. MessageSound(K, m)
      BY <1>1, <1>2, UpcomingFact
<1> HIDE DEF m, k
<1>6. Unrepeated(K)
      BY <1>1, PlacedLedger
<1>7. Placed(n, node[n]) /\ Placed(p, node[p])
      BY DEF AllPlaced
<1>8. Placed(n, u)
  <2>1. m.type = "newview_ch" => Placed(n, handleNewviewCh(node[n], m))
        BY <1>1, <1>5, <1>7, MessageByType, HandleNewviewPlaced
  <2>2. m.type = "ldrprepare_ch" => Placed(n, handleLdrPrepareCh(node[n], m))
        BY <1>1, <1>2, <1>5, <1>6, <1>7, MessageByType, HandleLdrPreparePlaced
  <2>3. Placed(n, handlePrepareCh(node[n], m))
        BY <1>2, <1>7, OthersPlaced
  <2>4. QED
        BY <1>3, <1>7, <2>1, <2>2, <2>3
<1>9. Placed(p, q)
  <2>1. /\ q.jblocks = node[p].jblocks /\ q.replied = node[p].replied
        /\ q.transactions = node[p].transactions
        /\ q.fromClient = node[p].fromClient
        BY <1>2 DEF Formed, Fields
  <2> HIDE DEF q
  <2>2. QED
        BY <1>7, <2>1 DEF Placed
<1> HIDE DEF q
<1>10. /\ node'[n] = u /\ node'[p] = q
       /\ \A i \in PID \ {n, p} : node'[i] = node[i]
       BY <1>2, <1>4
<1>11. ASSUME NEW i \in PID PROVE Placed(i, node'[i])
  <2>1. CASE i \in {n, p}
        BY <1>8, <1>9, <1>10, <2>1
  <2>2. CASE i \notin {n, p}
        BY <1>10, <2>2 DEF AllPlaced
  <2>3. QED
        BY <2>1, <2>2
<1>12. QED
       BY <1>11 DEF AllPlaced

(* A replica moves on its own.                                             *)
LEMMA OwnPlaced ==
    ASSUME Accounted, AllPlaced, NEW n \in PID,
           \/ Start(n) \/ PrepareCh(n) \/ HandleEarlierMessagesCh(n)
           \/ Timeout(n) \/ HandleTransaction(n) \/ Pause(n) \/ Resume(n)
    PROVE  AllPlaced'
<1> DEFINE s == node[n]
           started == [s EXCEPT !.started = TRUE]
           called  == [s EXCEPT !.pending = "none"]
<1>1. PICK K : Sound(K) /\ \A i \in PID : ReplicaSound(K, i, node[i])
      BY DEF Accounted
<1>2. DOMAIN node = PID /\ Placed(n, s) /\ ReplicaSound(K, n, s)
      BY <1>1 DEF Accounted, AllPlaced
<1>3. /\ DOMAIN s = Fields /\ s.myid = n /\ Formed(s)
      /\ JustSound(K, n, s) /\ Shape(n, s)
      BY <1>2 DEF ReplicaSound, BodySound, Shape, LogSound, LogFields, Formed
<1>4. Unrepeated(K)
      BY <1>1, PlacedLedger
<1>5. ASSUME NEW u, Placed(n, u), node' = [node EXCEPT ![n] = u]
      PROVE  AllPlaced'
  <2>1. ASSUME NEW i \in PID PROVE Placed(i, node'[i])
    <3>1. node'[i] = IF i = n THEN u ELSE node[i]
          BY <1>2, <1>5
    <3>2. CASE i = n
          BY <1>5, <3>1, <3>2
    <3>3. CASE i # n
          BY <3>1, <3>3 DEF AllPlaced
    <3>4. QED
          BY <3>2, <3>3
  <2>2. QED
        BY <2>1 DEF AllPlaced
<1>6. CASE Start(n)
  <2>1. s.view = 0 /\ s.pending # "prepareCh"
        BY <1>3, <1>6 DEF Start, CanStart, Idle, Shape
  <2>2. node' = [node EXCEPT ![n] = getStartedCh(started)]
        BY <1>6 DEF Start
  <2>3. Placed(n, getStartedCh(started))
        BY <1>1, <1>2, <1>4, <2>1, GetStartedPlaced
  <2>4. QED
        BY <1>5, <2>2, <2>3
<1>7. /\ ReplicaSound(K, n, called) /\ called.view = s.view
      /\ called.jblocks = s.jblocks /\ called.justNV = s.justNV
      /\ called.pending # "prepareCh" /\ Placed(n, called)
  <2>1. /\ Agree(s, called) /\ called.tp = s.tp /\ called.pending = "none"
        /\ called.transactions = s.transactions /\ called.replied = s.replied
        BY <1>3 DEF Agree, Fields
  <2>2. called.fromClient = s.fromClient
        BY <1>3 DEF Fields
  <2> HIDE DEF called
  <2>3. ReplicaSound(K, n, called)
        BY <1>2, <2>1, AgreeFact DEF ReplicaSound
  <2>4. Placed(n, called)
        BY <1>2, <2>1, <2>2 DEF Agree, Placed
  <2>5. QED
        BY <1>3, <2>1, <2>3, <2>4 DEF Agree
<1>8. CASE PrepareCh(n)
  <2>1. /\ s.justNV.set /\ s.justNV.rdata.propv + 1 = s.view
        /\ s.view \notin DOMAIN s.jblocks /\ getLeaderOf(s.view) = n
        /\ s.justNV.rdata.propv \in Nat
        BY <1>3, <1>8 DEF PrepareCh, JustSound
  <2>2. node' = [node EXCEPT ![n] = prepareCh(called)]
        BY <1>8 DEF PrepareCh
  <2>3. s.view # 0
        BY <2>1
  <2> HIDE DEF called
  <2>4. Placed(n, prepareCh(called))
        BY <1>1, <1>7, <2>1, <2>3, PreparePlaced
  <2>5. QED
        BY <1>5, <2>2, <2>4
<1>9. CASE HandleEarlierMessagesCh(n)
  <2>1. node' = [node EXCEPT ![n] = handleEarlierMessagesCh(called)]
        BY <1>9 DEF HandleEarlierMessagesCh
  <2> HIDE DEF called
  <2>2. QED
        BY <1>1, <1>4, <1>5, <1>7, <2>1, EarlierPlaced
<1>10. CASE Timeout(n)
  <2> DEFINE u == [s EXCEPT !.stopped = TRUE, !.timer = FALSE]
  <2>1. \/ node' = [node EXCEPT ![n] = u]
        \/ node' = [node EXCEPT ![n] = startNewViewCh(s)]
        BY <1>10 DEF Timeout, TimerExpires
  <2>2. /\ u.jblocks = s.jblocks /\ u.replied = s.replied
        /\ u.transactions = s.transactions /\ u.fromClient = s.fromClient
        BY <1>3 DEF Fields
  <2> HIDE DEF u
  <2>3. Placed(n, u)
        BY <1>2, <2>2 DEF Placed
  <2>4. Placed(n, startNewViewCh(s))
        BY <1>2, <1>3, OthersPlaced
  <2>5. QED
        BY <1>5, <2>1, <2>3, <2>4
<1>11. CASE HandleTransaction(n)
  <2> DEFINE rest  == Tail(s.fromClient)
             added == Append(s.transactions, Head(s.fromClient))
             queue == IF s.isPaused THEN s.transactions ELSE added
             u == [s EXCEPT !.fromClient = rest, !.transactions = queue]
  <2>1. /\ s.fromClient \in Seq(Nat) /\ s.fromClient # <<>>
        /\ s.transactions \in Seq(Nat) /\ IsInjective(s.fromClient)
        /\ IsInjective(s.transactions) /\ Apart(s.transactions, s.fromClient)
        BY <1>2, <1>11 DEF HandleTransaction, Placed
  <2>2. rest \in Seq(Nat) /\ queue \in Seq(Nat)
        BY <2>1
  <2>3. /\ IsInjective(rest) /\ Range(rest) \subseteq Range(s.fromClient)
        /\ IsInjective(queue) /\ Apart(queue, rest)
        /\ Range(queue) \subseteq Range(s.transactions) \cup Range(s.fromClient)
    <3>1. /\ IsInjective(rest) /\ Range(rest) \subseteq Range(s.fromClient)
          /\ IsInjective(added) /\ Apart(added, rest) /\ Apart(s.transactions, rest)
          /\ Range(added) \subseteq Range(s.transactions) \cup Range(s.fromClient)
          BY <2>1, TakeOnce
    <3> HIDE DEF rest, added
    <3>2. QED
          BY <2>1, <3>1
  <2>4. node' = [node EXCEPT ![n] = u]
        BY <1>11 DEF HandleTransaction
  <2> HIDE DEF rest, queue
  <2>5. /\ u.transactions = queue /\ u.fromClient = rest
        /\ u.jblocks = s.jblocks /\ u.replied = s.replied
        BY <1>3 DEF Fields
  <2> HIDE DEF u
  <2>6. /\ Range(queue) \subseteq Dealt(n, 1) /\ Range(rest) \subseteq Dealt(n, 1)
        /\ \A v \in DOMAIN s.jblocks :
              Apart(s.jblocks[v].trans, queue) /\ Apart(s.jblocks[v].trans, rest)
        BY <1>2, <2>3 DEF Placed, Apart
  <2>7. Placed(n, u)
        BY <1>2, <2>2, <2>3, <2>5, <2>6 DEF Placed
  <2>8. QED
        BY <1>5, <2>4, <2>7
<1>12. CASE Pause(n) \/ Resume(n)
  <2>1. PICK b \in BOOLEAN : node' = [node EXCEPT ![n] = [s EXCEPT !.isPaused = b]]
        BY <1>12 DEF Pause, Resume
  <2> DEFINE u == [s EXCEPT !.isPaused = b]
  <2>2. /\ u.jblocks = s.jblocks /\ u.replied = s.replied
        /\ u.transactions = s.transactions /\ u.fromClient = s.fromClient
        BY <1>3 DEF Fields
  <2> HIDE DEF u
  <2>3. Placed(n, u)
        BY <1>2, <2>2 DEF Placed
  <2>4. QED
        BY <1>5, <2>1, <2>3 DEF u
<1>13. QED
       BY <1>6, <1>8, <1>9, <1>10, <1>11, <1>12

(* At first all transactions are on the client's connections.              *)
LEMMA InitPlaced == Init => AllPlaced
<1> SUFFICES ASSUME Init, NEW n \in PID PROVE Placed(n, node[n])
    BY DEF AllPlaced
<1> DEFINE s == node[n]
<1>1. s = withFields(ReplicaInit(n, 1),
                     [tp |-> TrustedChInit, jblocks |-> <<>>, justNV |-> NoJust,
                      log |-> [newviewsCh |-> {}, preparesCh |-> {},
                               ldrpreparesCh |-> {}]])
      BY DEF Init
<1>2. /\ s.transactions = <<>> /\ s.fromClient = fromClientTo(n, 1)
      /\ s.jblocks = <<>> /\ s.replied = <<>>
      BY <1>1 DEF withFields, ReplicaInit
<1> HIDE DEF s
<1>3. <<>> \in Seq(Nat) /\ IsInjective(<<>>) /\ Range(<<>>) = {} /\ DOMAIN <<>> = {}
      BY DEF IsInjective, Range
<1>4. /\ fromClientTo(n, 1) \in Seq(Nat) /\ IsInjective(fromClientTo(n, 1))
      /\ Range(fromClientTo(n, 1)) = Dealt(n, 1)
      BY ClientDeals, DealtOnce DEF Dealt
<1>5. Placed(n, s)
      BY <1>2, <1>3, <1>4 DEF Placed, Apart
<1>6. QED
      BY <1>5 DEF s

(* No transaction is replied twice by a replica: the blocks of different   *)
(* views, whoever proposed them, have no transaction in common, and        *)
(* tryExecuteCh executes a block once (Handler::replyTransactions).        *)
THEOREM RepliesOnce == Spec => []RepliedOnce
<1>1. ASSUME Accounted, AllPlaced, [Next]_vars PROVE AllPlaced'
  <2>1. CASE Next
        BY <1>1, <2>1, OwnPlaced, DeliverPlaced DEF Next
  <2>2. CASE UNCHANGED vars
        BY <1>1, <2>2 DEF vars, AllPlaced
  <2>3. QED
        BY <1>1, <2>1, <2>2
<1>2. AllPlaced => RepliedOnce
      BY DEF AllPlaced, Placed, RepliedOnce
<1>3. QED
      BY <1>1, <1>2, InitPlaced, AlwaysAccounted, PTL DEF Spec
=============================================================================
