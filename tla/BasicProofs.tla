---------------------------- MODULE BasicProofs -----------------------------
(***************************************************************************)
(* Theorems about the replicas of Basic HotStuff, for every number of      *)
(* faults, every factor, any number of views, transactions and pauses, and *)
(* timers that may run out at any time.                                    *)
(*                                                                         *)
(* The inductive invariant, Accounted, is stated in module BasicLedger.    *)
(* What an entry in the ledger does to it comes first, and what the        *)
(* trusted component signs and stores.  The handlers keep their replica    *)
(* sound: a handler that is called in a sound state leads to a sound state *)
(* of a ledger that has only grown (Leads of module BasicLedger).  There   *)
(* is a lemma for each function of Handler, and for each part it is made   *)
(* of; the steps, the initial state and the theorems about agreement       *)
(* follow them.                                                            *)
(*                                                                         *)
(* The second part follows the counter of the trusted component through    *)
(* the same functions, which makes the components monotonic signers        *)
(* (module MonotonicSigner) that do not run ahead of their replicas.  The  *)
(* third one is about what leaders build their blocks on, the fourth about *)
(* the types of what replicas hold and send.                               *)
(***************************************************************************)
EXTENDS BasicLedger

-----------------------------------------------------------------------------
(* Chains.                                                                 *)

(* Prefixes are reflexive and transitive.                                  *)
LEMMA PrefixOrder ==
    ASSUME NEW s \in Chain, NEW t \in Chain, NEW u \in Chain
    PROVE  /\ IsPrefix(s, s)
           /\ IsPrefix(s, t) /\ IsPrefix(t, u) => IsPrefix(s, u)
BY PrefixFact DEF Chain

(* The hash of a block extends that of its parent.                         *)
LEMMA PrefixOfBlock ==
    ASSUME NEW b \in ChainBlock
    PROVE  hash(b) \in Chain /\ IsPrefix(b.prevHash, hash(b))
<1>1. b.prevHash \in Seq(Seq(Nat)) /\ b.trans \in Seq(Nat)
      BY DEF ChainBlock, Chain
<1>2. /\ hash(b) \in Seq(Seq(Nat))
      /\ Len(b.prevHash) <= Len(hash(b))
      /\ \A i \in 1 .. Len(b.prevHash) : b.prevHash[i] = hash(b)[i]
      BY <1>1 DEF hash
<1>3. QED
      BY <1>1, <1>2, PrefixFact DEF Chain

(* The genesis hash is a chain without blocks.                             *)
LEMMA GenesisFact == Genesis \in Chain
BY DEF Genesis, Chain

(* Among the hashes of blocks, operator== is equality.                     *)
LEMMA SameChain ==
    ASSUME NEW g \in Chain, NEW h \in Chain
    PROVE  /\ SameHash(g, h) => g = h
           /\ g # Dummy
<1>1. g # Dummy /\ h # Dummy
      BY UnsetAssumption DEF Chain
<1>2. QED
      BY <1>1 DEF SameHash

-----------------------------------------------------------------------------
(* Facts about a sound ledger.                                             *)

(* A certified view has a block.                                           *)
LEMMA CertifiedFact ==
    ASSUME NEW K, Sound(K), NEW v, Certified(K, v)
    PROVE  /\ v \in DOMAIN K.proposed /\ v \in Nat
           /\ \E n \in PID : v \in K.voted[n]
<1>1. {n \in PID : v \in K.voted[n]} # {}
      BY QuorumMember DEF Certified
<1>2. QED
      BY <1>1 DEF Sound, VotedSound, LedgerType

(* The block of a view, its hash and its parent.                           *)
LEMMA HashFact ==
    ASSUME NEW K, Sound(K), NEW v \in DOMAIN K.proposed
    PROVE  /\ v \in Nat /\ K.proposed[v] \in ChainBlock
           /\ K.proposed[v].prevHash \in Chain
           /\ HashOf(K, v) \in Chain
           /\ HashOf(K, v) # Dummy
           /\ IsPrefix(K.proposed[v].prevHash, HashOf(K, v))
<1>1. v \in Nat /\ K.proposed[v] \in ChainBlock
      BY DEF Sound, LedgerType
<1>2. HashOf(K, v) \in Chain /\ K.proposed[v].prevHash \in Chain
      BY <1>1, PrefixOfBlock DEF HashOf, ChainBlock
<1>3. QED
      BY <1>1, <1>2, PrefixOfBlock, SameChain DEF HashOf

(* What was certified stays so, and so on, while the ledger grows.         *)
LEMMA GrowsFact ==
    ASSUME NEW K, NEW L, NEW n, Grows(K, n, L)
    PROVE  /\ \A v : Certified(K, v) => Certified(L, v)
           /\ \A v : Kept(K, v) => Kept(L, v)
           /\ \A v \in DOMAIN K.proposed : /\ v \in DOMAIN L.proposed
                                           /\ HashOf(L, v) = HashOf(K, v)
                                           /\ L.proposed[v] = K.proposed[v]
<1>1. ASSUME NEW v, Certified(K, v) PROVE Certified(L, v)
  <2>1. {m \in PID : v \in K.voted[m]} \subseteq {m \in PID : v \in L.voted[m]}
        BY DEF Grows
  <2>2. QED
        BY <1>1, <2>1, CardinalityMonotonic DEF Certified
<1>2. ASSUME NEW v, Kept(K, v) PROVE Kept(L, v)
  <2>1. {m \in PID : v \in K.stored[m]} \subseteq {m \in PID : v \in L.stored[m]}
        BY DEF Grows
  <2>2. QED
        BY <1>2, <2>1, CardinalityMonotonic DEF Kept
<1>3. QED
      BY <1>1, <1>2 DEF Grows, HashOf

(* Growing is transitive.                                                  *)
LEMMA GrowsTransitive ==
    ASSUME NEW K, NEW L, NEW M, NEW n, Grows(K, n, L), Grows(L, n, M)
    PROVE  Grows(K, n, M)
BY DEF Grows

-----------------------------------------------------------------------------
(* Entries in the ledger.                                                  *)

(* A leader proposes a block in a view in which it has proposed none.      *)
LEMMA LedgerPropose ==
    ASSUME NEW K, Sound(K), NEW n \in PID, NEW v \in Nat, getLeaderOf(v) = n,
           v \notin DOMAIN K.proposed, NEW b \in ChainBlock,
           NEW L, L.proposed = assign(K.proposed, v, b),
           L.voted = K.voted, L.stored = K.stored, L.view = K.view
    PROVE  Sound(L) /\ Grows(K, n, L) /\ L.proposed[v] = b
<1>1. /\ DOMAIN L.proposed = DOMAIN K.proposed \cup {v} /\ L.proposed[v] = b
      /\ \A w \in DOMAIN K.proposed : L.proposed[w] = K.proposed[w]
      BY DEF assign
<1>2. Grows(K, n, L)
      BY <1>1 DEF Grows
<1>3. \A w : Certified(L, w) <=> Certified(K, w)
      BY DEF Certified
<1>4. \A w : Certified(K, w) => /\ w \in DOMAIN K.proposed
                                /\ HashOf(L, w) = HashOf(K, w)
      BY <1>2, CertifiedFact, GrowsFact
<1>5. LedgerType(L)
      BY <1>1 DEF Sound, LedgerType
<1>6. VotedSound(L)
      BY <1>1 DEF Sound, VotedSound
<1>7. StoredSound(L)
      BY <1>3 DEF Sound, StoredSound
<1>8. LocksSound(L)
  <2>1. SUFFICES ASSUME NEW m \in PID, NEW v0 \in K.stored[m],
                        NEW w \in K.voted[m], v0 < w, ~Certified(K, w)
                 PROVE  ExtendsFrom(L, v0, w)
        BY <1>3 DEF LocksSound
  <2>2. ExtendsFrom(K, v0, w) /\ w \in DOMAIN K.proposed
        BY <2>1 DEF Sound, LocksSound, VotedSound
  <2>3. QED
        BY <1>1, <1>3, <1>4, <2>2 DEF ExtendsFrom
<1>9. ChainSound(L)
  <2>1. \A w : Open(L, w) = Open(K, w)
        BY DEF Open
  <2>2. SUFFICES ASSUME NEW v0 \in Nat, NEW w \in Nat, v0 < w,
                        Certified(K, w), Cardinality(Open(K, v0)) >= QSize
                 PROVE  /\ v0 \in DOMAIN L.proposed
                        /\ IsPrefix(HashOf(L, v0), HashOf(L, w))
        BY <1>3, <2>1 DEF ChainSound
  <2>3. v0 \in DOMAIN K.proposed /\ IsPrefix(HashOf(K, v0), HashOf(K, w))
        BY <2>2 DEF Sound, ChainSound
  <2>4. QED
        BY <1>2, <1>4, <2>2, <2>3, GrowsFact
<1>10. QED
      BY <1>1, <1>2, <1>5, <1>6, <1>7, <1>8, <1>9 DEF Sound

(* A trusted component moves on.                                           *)
LEMMA LedgerMove ==
    ASSUME NEW K, Sound(K), NEW n \in PID, NEW w \in Nat, K.view[n] <= w,
           NEW L, L.proposed = K.proposed, L.voted = K.voted,
           L.stored = K.stored, L.view = [K.view EXCEPT ![n] = w]
    PROVE  Sound(L) /\ Grows(K, n, L)
<1>1. Grows(K, n, L)
      BY DEF Grows, Sound, LedgerType
<1>2. \A v : /\ Certified(L, v) <=> Certified(K, v)
             /\ HashOf(L, v) = HashOf(K, v)
      BY DEF Certified, HashOf
<1>3. LedgerType(L)
      BY DEF Sound, LedgerType
<1>4. \A m \in PID : K.view[m] <= L.view[m] /\ K.view[m] \in Nat /\ L.view[m] \in Nat
      BY DEF Sound, LedgerType
<1>5. VotedSound(L)
  <2>1. \A m \in PID : \A v \in K.voted[m] :
           v \in DOMAIN K.proposed /\ v <= K.view[m] /\ v \in Nat
        BY DEF Sound, VotedSound, LedgerType
  <2>2. \A m \in PID : \A v \in K.voted[m] : v <= L.view[m]
        BY <1>4, <2>1
  <2>3. QED
        BY <2>1, <2>2 DEF VotedSound
<1>6. StoredSound(L)
      BY <1>2 DEF Sound, StoredSound
<1>7. LocksSound(L)
      BY <1>2 DEF Sound, LocksSound, ExtendsFrom
<1>8. ChainSound(L)
  <2>1. SUFFICES ASSUME NEW v0 \in Nat, NEW v \in Nat, v0 < v,
                        Certified(K, v), Cardinality(Open(L, v0)) >= QSize
                 PROVE  /\ v0 \in DOMAIN K.proposed
                        /\ IsPrefix(HashOf(K, v0), HashOf(K, v))
        BY <1>2 DEF ChainSound
  <2>2. Open(L, v0) \subseteq Open(K, v0)
        BY <1>4 DEF Open
  <2>3. Cardinality(Open(K, v0)) >= QSize
        BY <2>1, <2>2, CardinalityMonotonic DEF Open
  <2>4. QED
        BY <2>1, <2>3 DEF Sound, ChainSound
<1>9. QED
      BY <1>1, <1>3, <1>5, <1>6, <1>7, <1>8 DEF Sound

(* A trusted component votes for the block of its view, which extends that *)
(* of a certified view not before the last one it has stored (safenode).   *)
LEMMA LedgerVote ==
    ASSUME NEW K, Sound(K), NEW n \in PID, NEW v, v = K.view[n],
           v \in DOMAIN K.proposed,
           \A v0 \in K.stored[n] :
               v0 < v => Certified(K, v) \/ ExtendsFrom(K, v0, v),
           NEW L, L.proposed = K.proposed, L.stored = K.stored,
           L.view = K.view, L.voted = [K.voted EXCEPT ![n] = @ \cup {v}]
    PROVE  Sound(L) /\ Grows(K, n, L) /\ v \in L.voted[n]
<1>1. \A m \in PID : \A w : w \in L.voted[m] <=> w \in K.voted[m] \/ (m = n /\ w = v)
  <2>1. DOMAIN K.voted = PID
        BY DEF Sound, LedgerType
  <2>2. \A m \in PID : L.voted[m] = IF m = n THEN K.voted[m] \cup {v} ELSE K.voted[m]
        BY <2>1
  <2>3. QED
        BY <2>2
<1>2. Grows(K, n, L)
      BY <1>1 DEF Grows
<1>3. \A w : HashOf(L, w) = HashOf(K, w)
      BY DEF HashOf
<1>4. v \in Nat /\ LedgerType(L)
  <2>1. v \in Nat
        BY DEF Sound, LedgerType
  <2>2. K.voted \in [PID -> SUBSET Nat] /\ K.voted[n] \cup {v} \in SUBSET Nat
        BY <2>1 DEF Sound, LedgerType
  <2>3. L.voted \in [PID -> SUBSET Nat]
        BY <2>2
  <2>4. QED
        BY <2>1, <2>3 DEF Sound, LedgerType
<1>5. VotedSound(L)
      BY <1>1, <1>4 DEF Sound, VotedSound
<1>6. StoredSound(L)
      BY <1>1, <1>2, GrowsFact DEF Sound, StoredSound
<1>7. \A v0, w : ExtendsFrom(K, v0, w) => ExtendsFrom(L, v0, w)
      BY <1>2, <1>3, GrowsFact DEF ExtendsFrom
<1>8. \A m \in PID : \A v0 \in K.stored[m], w \in L.voted[m] :
          v0 < w => Certified(K, w) \/ ExtendsFrom(K, v0, w)
      BY <1>1 DEF Sound, LocksSound
<1>9. LocksSound(L)
      BY <1>2, <1>7, <1>8, GrowsFact DEF LocksSound
<1>10. ChainSound(L)
  <2>1. SUFFICES ASSUME NEW v0 \in Nat, NEW w \in Nat, v0 < w,
                        Certified(L, w), Cardinality(Open(K, v0)) >= QSize
                 PROVE  /\ v0 \in DOMAIN K.proposed
                        /\ IsPrefix(HashOf(K, v0), HashOf(K, w))
        BY <1>3 DEF ChainSound, Open
  <2>2. CASE Certified(K, w)
        BY <2>1, <2>2 DEF Sound, ChainSound
  <2>3. CASE ~Certified(K, w)
    <3>1. PICK m \in PID : w \in L.voted[m] /\ m \in Open(K, v0)
          BY <2>1, QuorumsIntersect DEF Certified, Open
    <3>2. w \in DOMAIN K.proposed /\ w <= K.view[m] /\ K.view[m] \in Nat
          BY <1>4, <1>5, <3>1 DEF VotedSound, LedgerType
    <3>3. v0 \in K.stored[m]
          BY <2>1, <3>1, <3>2 DEF Open
    <3>4. PICK u \in v0 .. w - 1 :
             Certified(K, u) /\ K.proposed[w].prevHash = HashOf(K, u)
          BY <1>8, <2>1, <2>3, <3>1, <3>3 DEF ExtendsFrom
    <3>5. /\ u \in DOMAIN K.proposed /\ u \in Nat
          /\ IsPrefix(HashOf(K, u), HashOf(K, w))
          BY <3>2, <3>4, CertifiedFact, HashFact
    <3>6. CASE u = v0
          BY <3>5, <3>6
    <3>7. CASE u # v0
      <4>1. v0 < u
            BY <3>4, <3>7
      <4>2. v0 \in DOMAIN K.proposed /\ IsPrefix(HashOf(K, v0), HashOf(K, u))
            BY <2>1, <3>4, <3>5, <4>1 DEF Sound, ChainSound
      <4>3. HashOf(K, v0) \in Chain /\ HashOf(K, u) \in Chain
                /\ HashOf(K, w) \in Chain
            BY <3>2, <3>5, <4>2, HashFact
      <4>4. QED
            BY <3>5, <4>2, <4>3, PrefixOrder
    <3>8. QED
          BY <3>6, <3>7
  <2>4. QED
        BY <2>2, <2>3
<1>11. QED
      BY <1>1, <1>2, <1>4, <1>5, <1>6, <1>9, <1>10 DEF Sound

(* A trusted component stores a certificate of its view.                   *)
LEMMA LedgerStore ==
    ASSUME NEW K, Sound(K), NEW n \in PID, NEW v, v = K.view[n],
           v \in K.voted[n], Certified(K, v),
           NEW L, L.proposed = K.proposed, L.voted = K.voted,
           L.view = K.view, L.stored = [K.stored EXCEPT ![n] = @ \cup {v}]
    PROVE  Sound(L) /\ Grows(K, n, L) /\ v \in L.stored[n]
<1>1. \A m \in PID : \A w : w \in L.stored[m] <=> w \in K.stored[m] \/ (m = n /\ w = v)
  <2>1. DOMAIN K.stored = PID
        BY DEF Sound, LedgerType
  <2>2. \A m \in PID : L.stored[m] = IF m = n THEN K.stored[m] \cup {v} ELSE K.stored[m]
        BY <2>1
  <2>3. QED
        BY <2>2
<1>2. Grows(K, n, L)
      BY <1>1 DEF Grows, Sound, LedgerType
<1>3. \A w : /\ Certified(L, w) <=> Certified(K, w)
             /\ HashOf(L, w) = HashOf(K, w)
      BY DEF Certified, HashOf
<1>4. v \in Nat /\ LedgerType(L)
  <2>1. v \in Nat
        BY DEF Sound, LedgerType
  <2>2. K.stored \in [PID -> SUBSET Nat] /\ K.stored[n] \cup {v} \in SUBSET Nat
        BY <2>1 DEF Sound, LedgerType
  <2>3. L.stored \in [PID -> SUBSET Nat]
        BY <2>2
  <2>4. QED
        BY <2>1, <2>3 DEF Sound, LedgerType
<1>5. VotedSound(L) /\ StoredSound(L)
      BY <1>1, <1>3 DEF Sound, VotedSound, StoredSound
<1>6. LocksSound(L)
  <2>1. SUFFICES ASSUME NEW m \in PID, NEW v0 \in L.stored[m],
                        NEW w \in K.voted[m], v0 < w
                 PROVE  Certified(K, w) \/ ExtendsFrom(K, v0, w)
        BY <1>3 DEF LocksSound, ExtendsFrom
  <2>2. w <= K.view[m] /\ w \in Nat /\ K.view[m] \in Nat
        BY DEF Sound, VotedSound, LedgerType
  <2>3. v0 \in K.stored[m]
        BY <1>1, <1>4, <2>1, <2>2
  <2>4. QED
        BY <2>1, <2>3 DEF Sound, LocksSound
<1>7. ChainSound(L)
  <2>1. \A w : Open(L, w) = Open(K, w)
        BY <1>1, <1>4 DEF Open, LedgerType
  <2>2. QED
        BY <1>3, <2>1 DEF Sound, ChainSound
<1>8. QED
      BY <1>1, <1>2, <1>4, <1>5, <1>6, <1>7 DEF Sound

-----------------------------------------------------------------------------
(* Calls of the trusted component.                                         *)

ComponentFields ==
    {"lockh", "lockv", "preph", "prepv", "view", "phase", "signed"}

(* u has the same lock as t and a later position.                          *)
Later(t, u) ==
    /\ DOMAIN u = ComponentFields
    /\ u.view \in Nat /\ u.phase \in Phase
    /\ Stamp(t.view, t.phase) <= Stamp(u.view, u.phase)
    /\ u.lockh = t.lockh /\ u.lockv = t.lockv
    /\ u.preph = t.preph /\ u.prepv = t.prepv

(* j is the vote of n for the block of view v.                             *)
Voted(K, n, v, j) ==
    \E rd : /\ j = Just(rd, {Signature(n, rd)}) /\ rd.propv = v
            /\ rd.proph = HashOf(K, v) /\ VoteSound(K, Signature(n, rd))

(* The order of the counter is that of views, then of phases.              *)
LEMMA StampOrder ==
    ASSUME NEW v \in Nat, NEW w \in Nat, NEW p \in Phase, NEW q \in Phase
    PROVE  /\ Stamp(v, p) \in Nat
           /\ Stamp(v, p) <= Stamp(w, q) => v <= w
           /\ Stamp(v, NEWVIEW) < Stamp(w, q) => v <= w
           /\ v < w => Stamp(v, NEWVIEW) < Stamp(w, q)
BY DEF Stamp, Phase, NEWVIEW, PREPARE, PRECOMMIT, COMMIT

(* Signing moves the component on.                                         *)
LEMMA SignFact ==
    ASSUME NEW t, DOMAIN t = ComponentFields, t.view \in Nat, t.phase \in Phase,
           NEW n, NEW h1, NEW h2, NEW v2
    PROVE  LET r  == sign(n, t, h1, h2, v2)
               rd == RData(h1, t.view, h2, v2, t.phase)
           IN  /\ r.just = Just(rd, {Signature(n, rd)})
               /\ Later(t, r.tee)
               /\ Stamp(r.tee.view, r.tee.phase) = Stamp(t.view, t.phase) + 1
<1> DEFINE rd == RData(h1, t.view, h2, v2, t.phase)
           u  == [t EXCEPT !.signed = @ \cup {rd}]
           r  == sign(n, t, h1, h2, v2)
<1>1. r.tee = increment(u) /\ r.just = Just(rd, {Signature(n, rd)})
      BY DEF sign
<1>2. /\ DOMAIN u = ComponentFields /\ u.view = t.view /\ u.phase = t.phase
      /\ u.lockh = t.lockh /\ u.lockv = t.lockv
      /\ u.preph = t.preph /\ u.prepv = t.prepv
      BY DEF ComponentFields
<1> HIDE DEF u, rd
<1>3. /\ Later(u, increment(u))
      /\ Stamp(increment(u).view, increment(u).phase) = Stamp(u.view, u.phase) + 1
  <2> USE DEF Phase, NEWVIEW, PREPARE, PRECOMMIT, COMMIT, Stamp, ComponentFields
  <2>1. CASE u.phase = COMMIT
    <3> DEFINE x == [u EXCEPT !.phase = NEWVIEW, !.view = @ + 1]
    <3>1. increment(u) = x
          BY <2>1 DEF increment
    <3>2. /\ DOMAIN x = ComponentFields /\ x.view = u.view + 1
          /\ x.phase = NEWVIEW
          /\ x.lockh = u.lockh /\ x.lockv = u.lockv
          /\ x.preph = u.preph /\ x.prepv = u.prepv
          BY <1>2
    <3> HIDE DEF x
    <3>3. QED
          BY <1>2, <2>1, <3>1, <3>2 DEF Later
  <2>2. CASE u.phase # COMMIT
    <3> DEFINE x == [u EXCEPT !.phase = @ + 1]
    <3>1. increment(u) = x
          BY <2>2 DEF increment
    <3>2. /\ DOMAIN x = ComponentFields /\ x.view = u.view
          /\ x.phase = u.phase + 1
          /\ x.lockh = u.lockh /\ x.lockv = u.lockv
          /\ x.preph = u.preph /\ x.prepv = u.prepv
          BY <1>2
    <3> HIDE DEF x
    <3>3. QED
          BY <1>2, <2>2, <3>1, <3>2 DEF Later
  <2>3. QED
        BY <2>1, <2>2
<1>4. QED
      BY <1>1, <1>2, <1>3 DEF Later, rd

(* startNewView's calls move the component on as well, and the last data   *)
(* signed reports the prepared block.                                      *)
LEMMA SignPastFact ==
    ASSUME NEW t, DOMAIN t = ComponentFields, t.view \in Nat, t.phase \in Phase,
           NEW n, NEW v \in Nat
    PROVE  LET r == TEEsignPast(n, t, v)
           IN  /\ Later(t, r.tee)
               /\ \E w \in Nat, p \in Phase :
                     LET rd == RData(Dummy, w, t.preph, t.prepv, p)
                     IN  /\ r.just = Just(rd, {Signature(n, rd)})
                         /\ Stamp(t.view, t.phase) <= Stamp(w, p)
                         /\ Stamp(w, p) < Stamp(r.tee.view, r.tee.phase)
<1> DEFINE last  == lastStamp(t, v)
           At(s) == RData(Dummy, s \div 4, t.preph, t.prepv, s % 4)
           more  == {At(s) : s \in Stamp(t.view, t.phase) .. last}
           u     == [t EXCEPT !.view = (last + 1) \div 4,
                              !.phase = (last + 1) % 4,
                              !.signed = @ \cup more]
           r     == TEEsignPast(n, t, v)
<1>1. r.tee = u /\ r.just = Just(At(last), {Signature(n, At(last))})
      BY DEF TEEsignPast
<1> HIDE DEF more
<1>2. /\ DOMAIN u = ComponentFields
      /\ u.view = (last + 1) \div 4 /\ u.phase = (last + 1) % 4
      /\ u.lockh = t.lockh /\ u.lockv = t.lockv
      /\ u.preph = t.preph /\ u.prepv = t.prepv
      BY DEF ComponentFields
<1> USE DEF Phase, NEWVIEW, PREPARE, PRECOMMIT, COMMIT, Stamp
<1>3. last \in Nat /\ Stamp(t.view, t.phase) <= last
      BY DEF lastStamp
<1> HIDE DEF u, r, last
<1>4. /\ u.view \in Nat /\ u.phase \in Phase
      /\ Stamp(u.view, u.phase) = last + 1
      BY <1>2, <1>3
<1>5. /\ last \div 4 \in Nat /\ last % 4 \in Phase
      /\ Stamp(last \div 4, last % 4) = last
      BY <1>3
<1>6. Later(t, u)
      BY <1>2, <1>3, <1>4 DEF Later
<1>7. /\ Stamp(t.view, t.phase) <= Stamp(last \div 4, last % 4)
      /\ Stamp(last \div 4, last % 4) < Stamp(u.view, u.phase)
      BY <1>3, <1>4, <1>5
<1> HIDE DEF Phase, NEWVIEW, PREPARE, PRECOMMIT, COMMIT, Stamp
<1>8. \E w \in Nat, p \in Phase :
          LET rd == RData(Dummy, w, t.preph, t.prepv, p)
          IN  /\ r.just = Just(rd, {Signature(n, rd)})
              /\ Stamp(t.view, t.phase) <= Stamp(w, p)
              /\ Stamp(w, p) < Stamp(r.tee.view, r.tee.phase)
      BY <1>1, <1>5, <1>7
<1>9. QED
      BY <1>1, <1>6, <1>8 DEF r

(* Entering a later position of a component in the ledger.                 *)
LEMMA ComponentMoves ==
    ASSUME NEW K, Sound(K), NEW n \in PID, NEW t, ComponentSound(K, n, t),
           NEW u, Later(t, u)
    PROVE  \E L : /\ Sound(L) /\ Grows(K, n, L) /\ L.proposed = K.proposed
                  /\ ComponentSound(L, n, u)
<1> DEFINE L == [proposed |-> K.proposed, voted |-> K.voted,
                 stored |-> K.stored, view |-> [K.view EXCEPT ![n] = u.view]]
<1>1. /\ t.view \in Nat /\ t.phase \in Phase /\ t.view = K.view[n]
      /\ u.view \in Nat /\ u.phase \in Phase
      /\ K.stored[n] \subseteq Nat
      BY DEF ComponentSound, Later, Sound, LedgerType
<1>2. t.view <= u.view
      BY <1>1, StampOrder DEF Later
<1>3. Sound(L) /\ Grows(K, n, L)
      BY <1>1, <1>2, LedgerMove
<1>4. L.view[n] = u.view
      BY DEF Sound, LedgerType
<1>5. \A v \in K.stored[n] : Stamp(v, NEWVIEW) < Stamp(u.view, u.phase)
  <2>1. \A v \in K.stored[n] : Stamp(v, NEWVIEW) \in Nat
                                 /\ Stamp(v, NEWVIEW) < Stamp(t.view, t.phase)
        BY <1>1 DEF ComponentSound, Stamp, NEWVIEW
  <2>2. Stamp(t.view, t.phase) \in Nat /\ Stamp(u.view, u.phase) \in Nat
        BY <1>1, StampOrder
  <2>3. QED
        BY <2>1, <2>2 DEF Later
<1>6. ComponentSound(L, n, u)
      BY <1>4, <1>5 DEF ComponentSound, Later, ComponentFields, HashOf
<1>7. QED
      BY <1>3, <1>6

(* The component's part of voting: the ledger has it in `voted'.           *)
LEMMA ComponentVotes ==
    ASSUME NEW K, Sound(K), NEW n \in PID, NEW t, ComponentSound(K, n, t),
           t.view \in DOMAIN K.proposed,
           \A v0 \in K.stored[n] :
               v0 < t.view => Certified(K, t.view) \/ ExtendsFrom(K, v0, t.view)
    PROVE  \E L : /\ Sound(L) /\ Grows(K, n, L) /\ L.proposed = K.proposed
                  /\ L.stored = K.stored /\ L.view = K.view
                  /\ ComponentSound(L, n, t) /\ t.view \in L.voted[n]
<1> DEFINE L == [proposed |-> K.proposed, stored |-> K.stored, view |-> K.view,
                 voted |-> [K.voted EXCEPT ![n] = @ \cup {t.view}]]
<1>1. t.view = K.view[n]
      BY DEF ComponentSound
<1>2. Sound(L) /\ Grows(K, n, L) /\ t.view \in L.voted[n]
      BY <1>1, LedgerVote
<1>3. ComponentSound(L, n, t)
      BY DEF ComponentSound, HashOf
<1>4. QED
      BY <1>2, <1>3

(* The prepared block that a sound new-view message reports.               *)
LEMMA ReportFact ==
    ASSUME NEW K, Sound(K), NEW rdata, ReportSound(K, rdata)
    PROVE  rdata.justh \in Chain
BY CertifiedFact, HashFact, GenesisFact DEF ReportSound

(* The lock of a component is a block of the ledger or genesis.            *)
LEMMA LockFact ==
    ASSUME NEW K, Sound(K), NEW n \in PID, NEW t, ComponentSound(K, n, t)
    PROVE  /\ DOMAIN t = ComponentFields /\ t.lockv \in Nat /\ t.lockh \in Chain
           /\ t.view \in Nat /\ t.phase \in Phase /\ t.view = K.view[n]
           /\ \A v \in K.stored[n] :
                 /\ v \in Nat /\ v <= t.lockv /\ v <= t.view
                 /\ t.lockv \in K.stored[n] /\ t.lockh = HashOf(K, t.lockv)
                 /\ Certified(K, t.lockv) /\ t.lockv <= t.view
           /\ \/ t.lockv = 0 /\ t.lockh = Genesis
              \/ Certified(K, t.lockv) /\ t.lockh = HashOf(K, t.lockv)
<1>1. t.view \in Nat /\ t.phase \in Phase /\ K.stored[n] \subseteq Nat
          /\ t.view = K.view[n] /\ t.lockv \in Nat
          /\ DOMAIN t = ComponentFields
      BY DEF ComponentSound, Sound, LedgerType, ComponentFields
<1>2. \A v \in K.stored[n] : v \in Nat /\ v <= t.lockv /\ v <= t.view
                                 /\ Certified(K, v)
      BY <1>1, StampOrder DEF ComponentSound, Sound, StoredSound
<1>3. \/ K.stored[n] = {} /\ t.lockv = 0 /\ t.lockh = Genesis
      \/ t.lockv \in K.stored[n] /\ t.lockh = HashOf(K, t.lockv)
      BY DEF ComponentSound
<1>4. t.lockh \in Chain
      BY <1>2, <1>3, CertifiedFact, HashFact, GenesisFact
<1>5. QED
      BY <1>1, <1>2, <1>3, <1>4

(* TEEprepare votes for the block of the view, or does nothing.            *)
LEMMA PrepareFact ==
    ASSUME NEW K, Sound(K), NEW n \in PID, NEW t, ComponentSound(K, n, t),
           NEW j, ReportSound(K, j.rdata), NEW b,
           j.rdata.propv \in DOMAIN K.proposed,
           b = K.proposed[j.rdata.propv], b.prevHash = j.rdata.justh,
           NEW r, r = TEEprepare(n, t, hash(b), j), r.just.set
    PROVE  \E L : /\ Sound(L) /\ Grows(K, n, L) /\ L.proposed = K.proposed
                  /\ ComponentSound(L, n, r.tee)
                  /\ Voted(L, n, j.rdata.propv, r.just)
<1> DEFINE v  == t.view
           rd == RData(hash(b), v, j.rdata.justh, j.rdata.justv, t.phase)
<1>1. /\ r = sign(n, t, hash(b), j.rdata.justh, j.rdata.justv)
      /\ v = j.rdata.propv /\ safenode(t, j.rdata)
      BY DEF TEEprepare, Refuse, NoJust
<1>2. /\ r.just = Just(rd, {Signature(n, rd)})
      /\ Later(t, r.tee)
      BY <1>1, LockFact, SignFact
<1>3. ASSUME NEW v0 \in K.stored[n], v0 < v
      PROVE  Certified(K, v) \/ ExtendsFrom(K, v0, v)
  <2>1. /\ v0 \in Nat /\ v \in Nat /\ t.lockv \in Nat
        /\ v0 <= t.lockv /\ t.lockv <= v /\ Certified(K, t.lockv)
        /\ t.lockh = HashOf(K, t.lockv) /\ t.lockh \in Chain
        BY <1>3, LockFact
  <2>2. CASE SameHash(j.rdata.justh, t.lockh)
    <3>1. b.prevHash = HashOf(K, t.lockv)
          BY <2>1, <2>2, ReportFact, SameChain
    <3>2. CASE t.lockv = v
          BY <2>1, <3>2
    <3>3. CASE t.lockv # v
      <4>1. t.lockv \in v0 .. v - 1
            BY <2>1, <3>3
      <4>2. QED
            BY <1>1, <2>1, <3>1, <4>1 DEF ExtendsFrom
    <3>4. QED
          BY <3>2, <3>3
  <2>3. CASE j.rdata.justv > t.lockv
    <3>1. /\ j.rdata.justv \in v0 .. v - 1 /\ Certified(K, j.rdata.justv)
          /\ b.prevHash = HashOf(K, j.rdata.justv)
          BY <1>1, <2>1, <2>3 DEF ReportSound
    <3>2. QED
          BY <1>1, <3>1 DEF ExtendsFrom
  <2>4. QED
        BY <1>1, <2>2, <2>3 DEF safenode
<1>4. PICK M : /\ Sound(M) /\ Grows(K, n, M) /\ M.proposed = K.proposed
               /\ ComponentSound(M, n, t) /\ v \in M.voted[n]
      BY <1>1, <1>3, ComponentVotes
<1>5. PICK L : /\ Sound(L) /\ Grows(M, n, L) /\ L.proposed = M.proposed
               /\ ComponentSound(L, n, r.tee)
      BY <1>2, <1>4, ComponentMoves
<1>6. VoteSound(L, Signature(n, rd))
  <2>1. v \in L.voted[n]
        BY <1>4, <1>5 DEF Grows
  <2>2. hash(b) = HashOf(L, v)
        BY <1>1, <1>4, <1>5 DEF HashOf
  <2>3. QED
        BY <2>1, <2>2 DEF VoteSound, Signature, RData
<1>7. /\ rd.propv = j.rdata.propv
      /\ rd.proph = HashOf(L, j.rdata.propv)
      BY <1>1, <1>4, <1>5 DEF RData, HashOf
<1> HIDE DEF rd
<1>8. Voted(L, n, j.rdata.propv, r.just)
      BY <1>2, <1>6, <1>7 DEF Voted
<1>9. QED
      BY <1>4, <1>5, <1>8, GrowsTransitive

(* A component that refuses a block stays as it is.                        *)
LEMMA PrepareRefused ==
    ASSUME NEW n, NEW t, NEW h, NEW j, ~TEEprepare(n, t, h, j).just.set
    PROVE  TEEprepare(n, t, h, j) = Refuse(t)
BY DEF TEEprepare, sign, Just

(* A certificate certifies its view.                                       *)
LEMMA CertificateFact ==
    ASSUME NEW K, NEW signs, VotesSound(K, signs), NEW rdata,
           verify(signs, rdata), Cardinality(signs) = QSize
    PROVE  /\ Cardinality(getSigners(signs)) = QSize
           /\ getSigners(signs) \subseteq PID
           /\ Certified(K, rdata.propv)
           /\ rdata.proph = HashOf(K, rdata.propv)
<1>1. \A g \in signs : /\ g = Signature(g.signer, rdata) /\ g.signer \in PID
                        /\ g.rdata = rdata
                        /\ rdata.propv \in K.voted[g.signer]
                        /\ rdata.proph = HashOf(K, rdata.propv)
      BY DEF VotesSound, VoteSound, verify
<1>2. getSigners(signs) \subseteq {n \in PID : rdata.propv \in K.voted[n]}
      BY <1>1 DEF getSigners
<1>3. \A g, h \in signs : g.signer = h.signer => g = h
      BY <1>1
<1>4. Cardinality(getSigners(signs)) = QSize
      BY <1>2, <1>3, SignersCount
<1>5. Certified(K, rdata.propv)
      BY <1>2, <1>4, CardinalityMonotonic, QuorumSizes DEF Certified
<1>6. signs # {}
      BY FS_EmptySet, QuorumSizes
<1>7. QED
      BY <1>1, <1>2, <1>4, <1>5, <1>6

(* TEEstore votes for the certified block and locks it, or does nothing.   *)
LEMMA StoreCertificate ==
    ASSUME NEW K, Sound(K), NEW n \in PID, NEW t, ComponentSound(K, n, t),
           NEW j, VotesSound(K, j.signs),
           NEW r, r = TEEstore(n, t, j), r.just.set
    PROVE  \E L : /\ Sound(L) /\ Grows(K, n, L) /\ L.proposed = K.proposed
                  /\ ComponentSound(L, n, r.tee)
                  /\ Voted(L, n, j.rdata.propv, r.just)
                  /\ j.rdata.propv \in L.stored[n]
<1> DEFINE v  == t.view
           x  == record(t, j.rdata)
           rd == RData(j.rdata.proph, v, Genesis, 0, t.phase)
<1>1. /\ r = sign(n, x, j.rdata.proph, Genesis, 0)
      /\ v = j.rdata.propv /\ Cardinality(j.signs) = QSize
      /\ verify(j.signs, j.rdata)
      BY DEF TEEstore, storable, Refuse, NoJust, TEEverify
<1>2. Certified(K, v) /\ j.rdata.proph = HashOf(K, v)
      BY <1>1, CertificateFact
<1>3. /\ DOMAIN t = ComponentFields /\ v \in Nat /\ t.phase \in Phase
      /\ v = K.view[n]
      BY LockFact
<1>4. /\ DOMAIN x = ComponentFields /\ x.view = v /\ x.phase = t.phase
      /\ x.lockh = HashOf(K, v) /\ x.lockv = v
      /\ x.preph = HashOf(K, v) /\ x.prepv = v
      BY <1>1, <1>2, <1>3 DEF record, ComponentFields
<1> HIDE DEF x
<1>5. /\ r.just = Just(rd, {Signature(n, rd)})
      /\ Later(x, r.tee)
      /\ Stamp(r.tee.view, r.tee.phase) = Stamp(x.view, x.phase) + 1
      BY <1>1, <1>3, <1>4, SignFact
<1>6. v \in DOMAIN K.proposed
      BY <1>2, CertifiedFact
<1>7. PICK M : /\ Sound(M) /\ Grows(K, n, M) /\ M.proposed = K.proposed
               /\ M.stored = K.stored /\ M.view = K.view
               /\ v \in M.voted[n]
      BY <1>2, <1>6, ComponentVotes
<1> DEFINE O == [proposed |-> M.proposed, voted |-> M.voted, view |-> M.view,
                 stored |-> [M.stored EXCEPT ![n] = @ \cup {v}]]
<1>8. Sound(O) /\ Grows(M, n, O) /\ v \in O.stored[n]
  <2>1. v = M.view[n] /\ Certified(M, v)
        BY <1>2, <1>3, <1>7, GrowsFact
  <2>2. QED
        BY <1>7, <2>1, LedgerStore
<1> DEFINE u == r.tee
           L == [proposed |-> O.proposed, voted |-> O.voted,
                 stored |-> O.stored, view |-> [O.view EXCEPT ![n] = u.view]]
<1>9. u.view \in Nat /\ u.phase \in Phase /\ v <= u.view
      BY <1>3, <1>4, <1>5, StampOrder DEF Later
<1>10. O.view[n] = v
      BY <1>3, <1>7
<1>11. Sound(L) /\ Grows(O, n, L)
      BY <1>8, <1>9, <1>10, LedgerMove
<1>12. /\ L.proposed = K.proposed /\ L.view[n] = u.view
       /\ \A w : w \in L.stored[n] <=> w \in K.stored[n] \/ w = v
      BY <1>7 DEF Sound, LedgerType
<1>13. \A w \in L.stored[n] : w \in Nat /\ w <= v
      BY <1>3, <1>12, LockFact
<1>14. \A w \in L.stored[n] : Stamp(w, NEWVIEW) < Stamp(u.view, u.phase)
  <2>1. Stamp(u.view, u.phase) = Stamp(v, t.phase) + 1
        BY <1>4, <1>5
  <2>2. QED
        BY <1>3, <1>13, <2>1
        DEF Stamp, Phase, NEWVIEW, PREPARE, PRECOMMIT, COMMIT
<1>15. ComponentSound(L, n, u)
  <2>1. HashOf(L, v) = HashOf(K, v)
        BY <1>12 DEF HashOf
  <2> HIDE DEF L
  <2>2. QED
        BY <1>3, <1>4, <1>5, <1>9, <1>12, <1>13, <1>14, <2>1
        DEF ComponentSound, Later, ComponentFields
<1>16. v \in L.stored[n] /\ v \in L.voted[n]
      BY <1>8, <1>11 DEF Grows, Sound, StoredSound
<1>17. j.rdata.proph = HashOf(L, v)
      BY <1>2, <1>12 DEF HashOf
<1>18. VoteSound(L, Signature(n, rd))
      BY <1>16, <1>17 DEF VoteSound, Signature, RData
<1>19. Grows(K, n, L)
      BY <1>7, <1>8, <1>11, GrowsTransitive
<1>20. rd.propv = v /\ rd.proph = j.rdata.proph
      BY DEF RData
<1> HIDE DEF L, rd
<1>21. Voted(L, n, v, r.just)
       BY <1>5, <1>17, <1>18, <1>20 DEF Voted
<1>22. QED
       BY <1>1, <1>11, <1>12, <1>15, <1>16, <1>19, <1>21

(* A component that refuses a certificate stays as it is.                  *)
LEMMA StoreRefused ==
    ASSUME NEW n, NEW t, NEW j, ~TEEstore(n, t, j).just.set
    PROVE  TEEstore(n, t, j) = Refuse(t)
BY DEF TEEstore, sign, Just

-----------------------------------------------------------------------------
(* Whatever is sound stays so while the ledger grows.                      *)

(* Votes counted before the ledger grew count after (Sign, Signs).         *)
LEMMA VotesGrow ==
    ASSUME NEW K, Sound(K), NEW L, NEW n, Grows(K, n, L), NEW signs,
           VotesSound(K, signs)
    PROVE  VotesSound(L, signs)
<1>1. ASSUME NEW g \in signs PROVE VoteSound(L, g)
  <2>1. VoteSound(K, g) /\ g.rdata.propv \in DOMAIN K.proposed
        BY DEF VotesSound, VoteSound, Sound, VotedSound
  <2>2. HashOf(L, g.rdata.propv) = HashOf(K, g.rdata.propv)
        BY <2>1, GrowsFact
  <2>3. QED
        BY <2>1, <2>2 DEF VoteSound, Grows
<1>2. QED
      BY <1>1 DEF VotesSound

(* So do the prepared blocks that new-view messages report.                *)
LEMMA ReportGrows ==
    ASSUME NEW K, Sound(K), NEW L, NEW n, Grows(K, n, L), NEW rdata,
           ReportSound(K, rdata)
    PROVE  ReportSound(L, rdata)
BY CertifiedFact, GrowsFact DEF ReportSound

(* And messages of every type, in logs and on connections.                 *)
LEMMA MessagesGrow ==
    ASSUME NEW K, Sound(K), NEW L, NEW n, Grows(K, n, L), NEW m
    PROVE  /\ NewviewSound(K, m) => NewviewSound(L, m)
           /\ ProposalSound(K, m) => ProposalSound(L, m)
           /\ \A type : CertSound(K, type, m) => CertSound(L, type, m)
           /\ \A d : CommitSound(K, d, m) => CommitSound(L, d, m)
           /\ \A d : MessageSound(K, d, m) => MessageSound(L, d, m)
<1>1. NewviewSound(K, m) => NewviewSound(L, m)
      BY ReportGrows DEF NewviewSound
<1>2. ProposalSound(K, m) => ProposalSound(L, m)
      BY ReportGrows, GrowsFact DEF ProposalSound
<1>3. ASSUME NEW type, CertSound(K, type, m) PROVE CertSound(L, type, m)
      BY <1>3, VotesGrow DEF CertSound
<1>4. ASSUME NEW d, CommitSound(K, d, m) PROVE CommitSound(L, d, m)
  <2>1. CertSound(L, "commit", m)
        BY <1>3, <1>4 DEF CommitSound
  <2>2. \A g \in m.signs : g.rdata.propv \in L.stored[g.signer]
        BY <1>4 DEF CommitSound, CertSound, VotesSound, VoteSound, Grows
  <2>3. QED
        BY <1>4, <2>1, <2>2 DEF CommitSound
<1>5. \A d : MessageSound(K, d, m) => MessageSound(L, d, m)
      BY <1>1, <1>2, <1>3, <1>4 DEF MessageSound
<1>6. QED
      BY <1>1, <1>2, <1>3, <1>4, <1>5

(* A log stays sound (class Log).                                          *)
LEMMA LogGrows ==
    ASSUME NEW K, Sound(K), NEW L, NEW n, Grows(K, n, L), NEW m, NEW log,
           LogSound(K, m, log)
    PROVE  LogSound(L, m, log)
BY MessagesGrow DEF LogSound

(* What was executed stays kept by a quorum (executeRData).                *)
LEMMA ExecutedGrows ==
    ASSUME NEW K, Sound(K), NEW L, NEW n, Grows(K, n, L), NEW executed,
           ExecutedSound(K, executed)
    PROVE  ExecutedSound(L, executed)
BY GrowsFact DEF ExecutedSound

(* The log, the connections and the history of a replica stay sound.       *)
LEMMA BodyGrows ==
    ASSUME NEW K, Sound(K), NEW L, NEW n, Grows(K, n, L), NEW m, NEW s,
           BodySound(K, m, s)
    PROVE  BodySound(L, m, s)
<1>1. OutSound(K, s.out)
      BY DEF BodySound
<1>2. ASSUME NEW d \in PID, NEW k \in DOMAIN s.out[d]
      PROVE  MessageSound(L, d, s.out[d][k])
  <2>1. MessageSound(K, d, s.out[d][k])
        BY <1>1 DEF OutSound
  <2>2. QED
        BY <2>1, MessagesGrow
<1>3. OutSound(L, s.out)
      BY <1>1, <1>2 DEF OutSound
<1>4. QED
      BY <1>3, LogGrows, ExecutedGrows DEF BodySound

(* The trusted component of another replica stays sound.                   *)
LEMMA ComponentGrows ==
    ASSUME NEW K, Sound(K), NEW L, NEW n, Grows(K, n, L), NEW m \in PID,
           K.stored[m] = L.stored[m], K.view[m] = L.view[m],
           NEW t, ComponentSound(K, m, t)
    PROVE  ComponentSound(L, m, t)
<1>1. \A v \in K.stored[m] : v \in DOMAIN K.proposed
      BY DEF Sound, StoredSound, VotedSound
<1>2. \A v \in K.stored[m] : HashOf(L, v) = HashOf(K, v)
      BY <1>1, GrowsFact
<1>3. QED
      BY <1>2 DEF ComponentSound

(* The replicas that do not move are sound with respect to what the others *)
(* enter in the ledger.                                                    *)
LEMMA OthersGrow ==
    ASSUME NEW K, Sound(K), NEW L, NEW n, Grows(K, n, L),
           NEW m \in PID, m # n, NEW s, ReplicaSound(K, m, s)
    PROVE  ReplicaSound(L, m, s)
<1>1. BodySound(L, m, s)
      BY BodyGrows DEF ReplicaSound
<1>2. ComponentSound(L, m, s.tf)
      BY ComponentGrows DEF ReplicaSound, Grows
<1>3. LeaderSound(L, m, s.view, s.log.newviews)
      BY DEF ReplicaSound, LeaderSound, Grows
<1>4. QED
      BY <1>1, <1>2, <1>3 DEF ReplicaSound

-----------------------------------------------------------------------------
(* The parts of a handler: sending, logging, executing.                    *)

(* The fields that the invariant does not speak of.                        *)
Agree(s, u) ==
    /\ DOMAIN u = Fields
    /\ u.myid = s.myid /\ u.view = s.view
    /\ u.transactions = s.transactions /\ u.fromClient = s.fromClient
    /\ u.executed = s.executed /\ u.out = s.out /\ u.log = s.log

(* The other fields, such as timer, may have any value.                    *)
LEMMA AgreeFact ==
    ASSUME NEW K, NEW n, NEW s, BodySound(K, n, s), NEW u, Agree(s, u)
    PROVE  BodySound(K, n, u)
BY DEF Agree, BodySound, Shape

(* multicast_msg.                                                          *)
LEMMA SendFact ==
    ASSUME NEW K, NEW n \in PID, NEW s, BodySound(K, n, s), NEW R, NEW m,
           \A d \in R : MessageSound(K, d, m)
    PROVE  LET u == send(s, R, m)
           IN  /\ BodySound(K, n, u)
               /\ u.view = s.view /\ u.tf = s.tf /\ u.log = s.log
               /\ u.myid = n /\ u.blocks = s.blocks
<1> DEFINE o == [d \in PID |-> IF d \in R THEN Append(s.out[d], m) ELSE s.out[d]]
           u == [s EXCEPT !.out = o]
<1>1. u = send(s, R, m)
      BY DEF send
<1>2. DOMAIN s = Fields
      BY DEF BodySound, Shape
<1>3. OutSound(K, o)
  <2>1. ASSUME NEW d \in PID
        PROVE  /\ \E Msgs : o[d] \in Seq(Msgs)
               /\ \A k \in DOMAIN o[d] : MessageSound(K, d, o[d][k])
    <3>1. PICK Msgs : s.out[d] \in Seq(Msgs)
          BY DEF BodySound, OutSound
    <3>2. \A k \in DOMAIN s.out[d] : MessageSound(K, d, s.out[d][k])
          BY DEF BodySound, OutSound
    <3>3. CASE d \in R
      <4> DEFINE q == s.out[d]
                 a == Append(q, m)
      <4>1. q \in Seq(Msgs \cup {m})
            BY <3>1
      <4>2. /\ a \in Seq(Msgs \cup {m}) /\ DOMAIN a = 1 .. Len(q) + 1
            /\ DOMAIN q = 1 .. Len(q) /\ Len(q) \in Nat
            /\ \A k \in DOMAIN q : a[k] = q[k]
            /\ a[Len(q) + 1] = m
            BY <4>1
      <4>3. o[d] = a
            BY <3>3
      <4> HIDE DEF q, a, o
      <4>4. \A k \in DOMAIN a : k \in DOMAIN q \/ k = Len(q) + 1
            BY <4>2
      <4>5. \A k \in DOMAIN a : MessageSound(K, d, a[k])
            BY <3>2, <3>3, <4>2, <4>4 DEF q
      <4>6. QED
            BY <4>2, <4>3, <4>5
    <3>4. CASE d \notin R
          BY <3>1, <3>2, <3>4
    <3>5. QED
          BY <3>3, <3>4
  <2>2. DOMAIN o = PID
        OBVIOUS
  <2> HIDE DEF o
  <2>3. QED
        BY <2>1, <2>2 DEF OutSound
<1> HIDE DEF o
<1>4. /\ DOMAIN u = Fields /\ u.out = o
      /\ u.myid = s.myid /\ u.view = s.view /\ u.tf = s.tf /\ u.log = s.log
      /\ u.transactions = s.transactions /\ u.fromClient = s.fromClient
      /\ u.executed = s.executed /\ u.blocks = s.blocks
      BY <1>2 DEF Fields
<1> HIDE DEF u
<1>5. BodySound(K, n, u)
      BY <1>3, <1>4 DEF BodySound, Shape
<1>6. u.myid = n
      BY <1>4 DEF BodySound, Shape
<1>7. QED
      BY <1>1, <1>4, <1>5, <1>6

(* The trusted component moves on.                                         *)
LEMMA UpdateFact ==
    ASSUME NEW K, NEW n \in PID, NEW s, BodySound(K, n, s), NEW t
    PROVE  LET u == [s EXCEPT !.tf = t]
           IN  /\ BodySound(K, n, u)
               /\ u.view = s.view /\ u.tf = t /\ u.log = s.log /\ u.myid = n
<1> DEFINE u == [s EXCEPT !.tf = t]
<1>1. DOMAIN s = Fields /\ s.myid = n
      BY DEF BodySound, Shape
<1>2. Agree(s, u) /\ u.tf = t
      BY <1>1 DEF Agree, Fields
<1> HIDE DEF u
<1>3. BodySound(K, n, u)
      BY <1>2, AgreeFact
<1>4. QED
      BY <1>1, <1>2, <1>3 DEF Agree, u

(* storeNv, storePrep, storePc, storeCom and storeProp.                    *)
LEMMA LogVoteFact ==
    ASSUME NEW K, NEW n \in PID, NEW s, BodySound(K, n, s),
           NEW k \in DOMAIN s.log, NEW m,
           LogSound(K, n, [s.log EXCEPT ![k] = storeVote(s, k, m).msgs])
    PROVE  LET u == logVote(s, k, m)
           IN  /\ BodySound(K, n, u)
               /\ u.view = s.view /\ u.tf = s.tf /\ u.myid = n
               /\ u.log = [s.log EXCEPT ![k] = storeVote(s, k, m).msgs]
<1> DEFINE l == [s.log EXCEPT ![k] = storeVote(s, k, m).msgs]
           u == logVote(s, k, m)
<1>1. DOMAIN s = Fields /\ s.myid = n
      BY DEF BodySound, Shape
<1>2. u = [s EXCEPT !.log = l]
      BY DEF logVote
<1> HIDE DEF l, u
<1>3. /\ DOMAIN u = Fields /\ u.log = l
      /\ u.myid = s.myid /\ u.view = s.view /\ u.tf = s.tf /\ u.out = s.out
      /\ u.transactions = s.transactions /\ u.fromClient = s.fromClient
      /\ u.executed = s.executed
      BY <1>1, <1>2 DEF Fields
<1>4. LogSound(K, n, l)
      BY DEF l
<1>5. BodySound(K, n, u)
      BY <1>3, <1>4 DEF BodySound, Shape
<1>6. QED
      BY <1>1, <1>3, <1>5 DEF l, u

LogFields == {"newviews", "prepares", "precommits", "commits", "proposals"}

(* The view under which the messages are filed.                            *)
LEMMA ViewOfFact ==
    /\ \A K, m : NewviewSound(K, m) => ViewOf(m) = m.rdata.propv
    /\ \A rdata, signs, type : type \in {"prepare", "precommit", "commit"} =>
          ViewOf(Msg(type, rdata, signs)) = rdata.propv
    /\ \A K, m : ProposalSound(K, m) => ViewOf(m) = m.just.rdata.propv
BY DEF ViewOf, NewviewSound, ProposalSound, Msg

(* The log files votes under the view of their data (Log::storePrepMsg).   *)
LEMMA CertViewOf ==
    ASSUME NEW K, NEW m, NEW type \in {"prepare", "precommit", "commit"},
           CertSound(K, type, m)
    PROVE  ViewOf(m) = m.rdata.propv
BY ViewOfFact DEF CertSound

(* The signers of votes are replicas, so that the log can order votes.     *)
LEMMA VoteSigned ==
    ASSUME NEW K, NEW m, VotesSound(K, m.signs)
    PROVE  Signed(m)
BY DEF VotesSound, VoteSound, Signed, getSigners

(* A single vote has one signer.                                           *)
LEMMA SingleSigned ==
    ASSUME NEW m, NEW i \in PID, NEW x, m.signs = {Signature(i, x)}
    PROVE  Signed(m)
<1>1. getSigners(m.signs) = {i}
      BY DEF getSigners, Signature
<1>2. IsFiniteSet(m.signs)
      BY FS_Singleton
<1>3. QED
      BY <1>1, <1>2 DEF Signed

(* A sound new-view message may enter the log (Log::storeNv).              *)
LEMMA LogNewview ==
    ASSUME NEW K, NEW n, NEW log, LogSound(K, n, log), NEW m,
           NewviewSound(K, m), m.rdata.phase = NEWVIEW
    PROVE  LET l == [log EXCEPT !["newviews"] = store(log["newviews"], m).msgs]
           IN  /\ LogSound(K, n, l)
               /\ l.newviews = store(log.newviews, m).msgs
<1> DEFINE r == store(log["newviews"], m).msgs
           l == [log EXCEPT !["newviews"] = r]
<1>1. DOMAIN log = LogFields
      BY DEF LogSound, LogFields
<1>2. IsFiniteSet(r) /\ \A k \in r : k \in log.newviews \/ k = m
      BY <1>1, StoreFact DEF LogSound, LogFields
<1> HIDE DEF r
<1>3. /\ DOMAIN l = LogFields /\ l.newviews = r
      /\ l.prepares = log.prepares /\ l.precommits = log.precommits
      /\ l.commits = log.commits /\ l.proposals = log.proposals
      BY <1>1 DEF LogFields
<1> HIDE DEF l
<1>4. LogSound(K, n, l)
      BY <1>2, <1>3 DEF LogSound, LogFields
<1>5. QED
      BY <1>3, <1>4 DEF l, r

(* A sound prepare vote may (Log::storePrep).                              *)
LEMMA LogPrepare ==
    ASSUME NEW K, NEW n, NEW log, LogSound(K, n, log), NEW m,
           CertSound(K, "prepare", m)
    PROVE  LET l == [log EXCEPT !["prepares"] = store(log["prepares"], m).msgs]
           IN  LogSound(K, n, l) /\ l.newviews = log.newviews
<1> DEFINE r == store(log["prepares"], m).msgs
           l == [log EXCEPT !["prepares"] = r]
<1>1. DOMAIN log = LogFields
      BY DEF LogSound, LogFields
<1>2. IsFiniteSet(r) /\ \A k \in r : k \in log.prepares \/ k = m
      BY <1>1, StoreFact DEF LogSound, LogFields
<1> HIDE DEF r
<1>3. /\ DOMAIN l = LogFields /\ l.prepares = r
      /\ l.newviews = log.newviews /\ l.precommits = log.precommits
      /\ l.commits = log.commits /\ l.proposals = log.proposals
      BY <1>1 DEF LogFields
<1> HIDE DEF l
<1>4. LogSound(K, n, l)
      BY <1>2, <1>3 DEF LogSound, LogFields
<1>5. QED
      BY <1>3, <1>4 DEF l, r

(* A sound pre-commit vote may (Log::storePc).                             *)
LEMMA LogPrecommit ==
    ASSUME NEW K, NEW n, NEW log, LogSound(K, n, log), NEW m,
           CertSound(K, "precommit", m)
    PROVE  LET l == [log EXCEPT !["precommits"] = store(log["precommits"], m).msgs]
           IN  LogSound(K, n, l) /\ l.newviews = log.newviews
<1> DEFINE r == store(log["precommits"], m).msgs
           l == [log EXCEPT !["precommits"] = r]
<1>1. DOMAIN log = LogFields
      BY DEF LogSound, LogFields
<1>2. IsFiniteSet(r) /\ \A k \in r : k \in log.precommits \/ k = m
      BY <1>1, StoreFact DEF LogSound, LogFields
<1> HIDE DEF r
<1>3. /\ DOMAIN l = LogFields /\ l.precommits = r
      /\ l.newviews = log.newviews /\ l.prepares = log.prepares
      /\ l.commits = log.commits /\ l.proposals = log.proposals
      BY <1>1 DEF LogFields
<1> HIDE DEF l
<1>4. LogSound(K, n, l)
      BY <1>2, <1>3 DEF LogSound, LogFields
<1>5. QED
      BY <1>3, <1>4 DEF l, r

(* A sound proposal may (Log::storeProp).                                  *)
LEMMA LogProposal ==
    ASSUME NEW K, NEW n, NEW log, LogSound(K, n, log), NEW m,
           ProposalSound(K, m)
    PROVE  LET l == [log EXCEPT !["proposals"] = store(log["proposals"], m).msgs]
           IN  LogSound(K, n, l) /\ l.newviews = log.newviews
<1> DEFINE r == store(log["proposals"], m).msgs
           l == [log EXCEPT !["proposals"] = r]
<1>1. DOMAIN log = LogFields
      BY DEF LogSound, LogFields
<1>2. IsFiniteSet(r) /\ \A k \in r : k \in log.proposals \/ k = m
      BY <1>1, StoreFact DEF LogSound, LogFields
<1> HIDE DEF r
<1>3. /\ DOMAIN l = LogFields /\ l.proposals = r
      /\ l.newviews = log.newviews /\ l.prepares = log.prepares
      /\ l.precommits = log.precommits /\ l.commits = log.commits
      BY <1>1 DEF LogFields
<1> HIDE DEF l
<1>4. LogSound(K, n, l)
      BY <1>2, <1>3 DEF LogSound, LogFields
<1>5. QED
      BY <1>3, <1>4 DEF l, r

(* The leader of a view counts at most one commit vote of every replica;   *)
(* others keep the certificates whose signatures verify.                   *)
LEMMA LogCommit ==
    ASSUME NEW K, NEW n, NEW log, LogSound(K, n, log), NEW m,
           CommitSound(K, n, m),
           getLeaderOf(m.rdata.propv) # n => verify(m.signs, m.rdata)
    PROVE  LET l == [log EXCEPT !["commits"] = store(log["commits"], m).msgs]
           IN  LogSound(K, n, l) /\ l.newviews = log.newviews
                   /\ l.commits = store(log.commits, m).msgs
<1> DEFINE r == store(log["commits"], m).msgs
           l == [log EXCEPT !["commits"] = r]
<1>1. DOMAIN log = LogFields
      BY DEF LogSound, LogFields
<1>2. /\ IsFiniteSet(log.commits) /\ IsFiniteSet(r)
      /\ r = log.commits \/ r = log.commits \cup {m}
      BY <1>1, StoreFact DEF LogSound, LogFields
<1>3. ASSUME NEW k \in log.commits, m \in r, r # log.commits,
             getLeaderOf(m.rdata.propv) = n, k.rdata.propv = m.rdata.propv
      PROVE  getSigners(k.signs) \cap getSigners(m.signs) = {}
  <2>1. CASE Refusal(m)
        BY <2>1 DEF Refusal, getSigners
  <2>2. CASE ~Refusal(m)
    <3>1. PICK i \in PID : m.signs = {Signature(i, m.rdata)}
          BY <1>3, <2>2 DEF CommitSound
    <3>2. k \in InView(log.commits, ViewOf(m))
      <4>1. CertSound(K, "commit", k) /\ CertSound(K, "commit", m)
            BY DEF LogSound, CommitSound
      <4>2. QED
            BY <1>3, <4>1, CertViewOf DEF InView
    <3>3. i \notin getSigners(k.signs)
          BY <1>2, <1>3, <3>1, <3>2, StoreSingle
    <3>4. getSigners(m.signs) = {i}
          BY <3>1 DEF getSigners, Signature
    <3>5. QED
          BY <3>3, <3>4
  <2>3. QED
        BY <2>1, <2>2
<1> HIDE DEF r
<1>4. \A k \in r : k \in log.commits \/ (k = m /\ m \in r /\ r # log.commits)
      BY <1>2
<1>5. ASSUME NEW m1 \in r, NEW m2 \in r,
             getLeaderOf(m1.rdata.propv) = n, m1.rdata.propv = m2.rdata.propv,
             getSigners(m1.signs) \cap getSigners(m2.signs) # {}
      PROVE  m1 = m2
  <2>1. CASE m1 \in log.commits /\ m2 \in log.commits
        BY <1>5, <2>1 DEF LogSound
  <2>2. CASE m1 \in log.commits /\ m2 \notin log.commits
        BY <1>3, <1>4, <1>5, <2>2
  <2>3. CASE m1 \notin log.commits /\ m2 \in log.commits
        BY <1>3, <1>4, <1>5, <2>3
  <2>4. CASE m1 \notin log.commits /\ m2 \notin log.commits
        BY <1>4, <2>4
  <2>5. QED
        BY <2>1, <2>2, <2>3, <2>4
<1>6. /\ DOMAIN l = LogFields /\ l.commits = r
      /\ l.newviews = log.newviews /\ l.prepares = log.prepares
      /\ l.precommits = log.precommits /\ l.proposals = log.proposals
      BY <1>1 DEF LogFields
<1> HIDE DEF l
<1>7. LogSound(K, n, l)
      BY <1>2, <1>4, <1>5, <1>6 DEF LogSound, LogFields
<1>8. QED
      BY <1>6, <1>7 DEF l, r

(* What the log hands out is as sound as what was put in.                  *)
LEMMA GetSound ==
    ASSUME NEW K, NEW n, NEW log, LogSound(K, n, log), NEW v, NEW q
    PROVE  /\ VotesSound(K, get(log.prepares, v, q))
           /\ VotesSound(K, get(log.precommits, v, q))
           /\ VotesSound(K, get(log.commits, v, q))
<1>1. /\ IsFiniteSet(log.prepares) /\ IsFiniteSet(log.precommits)
      /\ IsFiniteSet(log.commits)
      BY DEF LogSound
<1>2. /\ \A m \in log.prepares : VotesSound(K, m.signs)
      /\ \A m \in log.precommits : VotesSound(K, m.signs)
      /\ \A m \in log.commits : VotesSound(K, m.signs)
      BY DEF LogSound, CertSound, CommitSound
<1>3. ASSUME NEW msgs, IsFiniteSet(msgs), \A m \in msgs : VotesSound(K, m.signs)
      PROVE  VotesSound(K, get(msgs, v, q))
  <2>1. IsFiniteSet(get(msgs, v, q))
        BY <1>3, GetFinite DEF VotesSound
  <2>2. \A g \in get(msgs, v, q) : \E m \in msgs : g \in m.signs
        BY <1>3, GetFact, InViewFinite
  <2>3. \A g \in get(msgs, v, q) : VoteSound(K, g)
        BY <1>3, <2>2 DEF VotesSound
  <2>4. QED
        BY <2>1, <2>3 DEF VotesSound
<1>4. QED
      BY <1>1, <1>2, <1>3

(* Executing a block that a quorum has stored.                             *)
LEMMA ExecuteFact ==
    ASSUME NEW K, Sound(K), NEW n \in PID, NEW s, ReplicaSound(K, n, s),
           NEW rdata, rdata.proph = HashOf(K, s.view), Kept(K, s.view)
    PROVE  ReplicaSound(K, n, executeRData(s, rdata))
<1> DEFINE e == [view |-> s.view, hash |-> rdata.proph]
           x == Append(s.executed, e)
           u == [s EXCEPT !.executed = x]
           w == replyHash(u, rdata.proph)
           p == IF timeToStop(s) THEN "none" ELSE "startNewView"
           z == [w EXCEPT !.pending = p]
<1>1. z = executeRData(s, rdata)
      BY DEF executeRData
<1>2. DOMAIN s = Fields /\ BodySound(K, n, s)
      BY DEF ReplicaSound, BodySound, Shape
<1>3. s.view \in DOMAIN K.proposed
  <2>1. {m \in PID : s.view \in K.stored[m]} # {}
        BY QuorumMember DEF Kept
  <2>2. QED
        BY <2>1 DEF Sound, StoredSound, VotedSound
<1>4. ExecutedSound(K, x)
  <2>1. PICK Entries : s.executed \in Seq(Entries)
        BY <1>2 DEF BodySound, ExecutedSound
  <2> DEFINE q == s.executed
  <2>2. q \in Seq(Entries \cup {e})
        BY <2>1
  <2>3. /\ x \in Seq(Entries \cup {e}) /\ DOMAIN x = 1 .. Len(q) + 1
        /\ DOMAIN q = 1 .. Len(q) /\ Len(q) \in Nat
        /\ \A k \in DOMAIN q : x[k] = q[k]
        /\ x[Len(q) + 1] = e
        BY <2>2
  <2> HIDE DEF x
  <2>4. \A k \in DOMAIN x : k \in DOMAIN q \/ k = Len(q) + 1
        BY <2>3
  <2>5. ASSUME NEW k \in DOMAIN x
        PROVE  /\ x[k].view \in DOMAIN K.proposed
               /\ x[k].hash = HashOf(K, x[k].view) /\ Kept(K, x[k].view)
    <3>1. CASE k \in DOMAIN q
          BY <1>2, <2>3, <3>1 DEF BodySound, ExecutedSound
    <3>2. CASE k = Len(q) + 1
          BY <1>3, <2>3, <3>2
    <3>3. QED
          BY <2>4, <3>1, <3>2
  <2>6. QED
        BY <2>3, <2>5 DEF ExecutedSound
<1> HIDE DEF x, p
<1>5. /\ DOMAIN u = Fields /\ u.executed = x
      /\ u.myid = s.myid /\ u.view = s.view /\ u.tf = s.tf /\ u.out = s.out
      /\ u.transactions = s.transactions /\ u.fromClient = s.fromClient
      /\ u.log = s.log
      BY <1>2 DEF Fields
<1> HIDE DEF u
<1>6. \A trans : LET y == [u EXCEPT !.replied = @ \o trans]
                 IN  Agree(u, y) /\ y.executed = x /\ y.tf = u.tf
      BY <1>5 DEF Agree, Fields
<1>7. Agree(u, w) /\ w.executed = x /\ w.tf = u.tf
  <2>1. CASE w = u
        BY <1>5, <2>1 DEF Agree
  <2>2. CASE w = [u EXCEPT !.replied = @ \o u.blocks[u.view].trans]
        BY <1>6, <2>2
  <2>3. QED
        BY <2>1, <2>2 DEF replyHash, replyTransactions
<1> HIDE DEF w
<1>8. Agree(w, z) /\ z.tf = w.tf
      BY <1>7 DEF Agree, Fields
<1> HIDE DEF z
<1>9. /\ DOMAIN z = Fields /\ z.executed = x
      /\ z.myid = s.myid /\ z.view = s.view /\ z.tf = s.tf /\ z.out = s.out
      /\ z.transactions = s.transactions /\ z.fromClient = s.fromClient
      /\ z.log = s.log
      BY <1>5, <1>7, <1>8 DEF Agree
<1>10. ReplicaSound(K, n, z)
      BY <1>4, <1>9 DEF ReplicaSound, BodySound, Shape
<1>11. QED
      BY <1>1, <1>10

-----------------------------------------------------------------------------
(* The leader's side of a view.                                            *)

(* A quorum of the commit votes that a leader has logged are by as many    *)
(* replicas, which have all stored the certificate.                        *)
LEMMA CommitQuorum ==
    ASSUME NEW K, NEW n \in PID, NEW log, LogSound(K, n, log), NEW v,
           getLeaderOf(v) = n, NEW q, Cardinality(get(log.commits, v, q)) = QSize
    PROVE  Kept(K, v)
<1> DEFINE signs == get(log.commits, v, q)
<1>1. ASSUME NEW g \in signs
      PROVE  \E m \in log.commits : /\ m.rdata.propv = v
                                    /\ m.signs = {g} /\ g.rdata.propv = v
                                    /\ g.signer \in PID /\ v \in K.stored[g.signer]
  <2>1. PICK m \in log.commits : ViewOf(m) = v /\ g \in m.signs
        BY GetFact DEF InView
  <2>2. CommitSound(K, n, m) /\ m.rdata.propv = v
        BY <2>1, CertViewOf DEF LogSound, CommitSound
  <2>3. PICK i \in PID : m.signs = {Signature(i, m.rdata)}
        BY <2>1, <2>2 DEF CommitSound, Refusal
  <2>4. g = Signature(i, m.rdata)
        BY <2>1, <2>3
  <2>5. g.signer = i /\ g.rdata = m.rdata
        BY <2>4 DEF Signature
  <2>6. v \in K.stored[i]
        BY <2>1, <2>2, <2>5 DEF CommitSound
  <2>7. QED
        BY <2>1, <2>2, <2>3, <2>4, <2>5, <2>6
<1> HIDE DEF signs
<1>2. ASSUME NEW g \in signs, NEW h \in signs, g.signer = h.signer
      PROVE  g = h
  <2>1. PICK m1 \in log.commits : m1.rdata.propv = v /\ m1.signs = {g}
        BY <1>1
  <2>2. PICK m2 \in log.commits : m2.rdata.propv = v /\ m2.signs = {h}
        BY <1>1
  <2>3. g.signer \in getSigners(m1.signs) \cap getSigners(m2.signs)
        BY <1>2, <2>1, <2>2 DEF getSigners
  <2>4. m1 = m2
        BY <2>1, <2>2, <2>3 DEF LogSound
  <2>5. QED
        BY <2>1, <2>2, <2>4
<1>3. getSigners(signs) \subseteq {m \in PID : v \in K.stored[m]}
      BY <1>1 DEF getSigners
<1>4. Cardinality(getSigners(signs)) = QSize
      BY <1>2, <1>3, SignersCount DEF signs
<1>5. QED
      BY <1>3, <1>4, CardinalityMonotonic, QuorumSizes DEF Kept

(* initiateCommit: with a quorum of commit votes the leader executes.      *)
LEMMA InitiateCommitFact ==
    ASSUME NEW K, Sound(K), NEW n \in PID, NEW s, ReplicaSound(K, n, s),
           getLeaderOf(s.view) = n, NEW rdata, rdata.propv = s.view,
           rdata.proph = HashOf(K, s.view)
    PROVE  ReplicaSound(K, n, initiateCommit(s, rdata))
<1> DEFINE signs == get(s.log.commits, rdata.propv, QSize)
           m == MsgCommit(Just(rdata, signs))
           u == send(s, remove_from_peers(s), m)
<1>1. s.myid = n /\ s.view \in Nat /\ LogSound(K, n, s.log) /\ BodySound(K, n, s)
      BY DEF ReplicaSound, BodySound, Shape
<1>2. CASE Cardinality(signs) # QSize
      BY <1>2 DEF initiateCommit
<1>3. CASE Cardinality(signs) = QSize
  <2>1. Kept(K, s.view)
        BY <1>1, <1>3, CommitQuorum
  <2>2. VotesSound(K, signs)
        BY <1>1, GetSound
  <2>3. \A g \in signs : g.rdata.propv \in K.stored[g.signer]
    <3>1. ASSUME NEW g \in signs PROVE g.rdata.propv \in K.stored[g.signer]
      <4>1. PICK c \in s.log.commits : g \in c.signs
            BY GetFact DEF InView
      <4>2. QED
            BY <1>1, <4>1 DEF LogSound, CommitSound
    <3>2. QED
          BY <3>1
  <2>4. signs # {}
        BY <1>3, FS_EmptySet, QuorumSizes
  <2>5. m = Msg("commit", rdata, signs) /\ m.type = "commit"
            /\ m.rdata = rdata /\ m.signs = signs
        BY DEF MsgCommit, Just, Msg
  <2> HIDE DEF m, signs
  <2>6. ASSUME NEW d \in PID \ {n} PROVE MessageSound(K, d, m)
    <3>1. CertSound(K, "commit", m)
          BY <1>1, <2>2, <2>4, <2>5 DEF CertSound
    <3>2. CommitSound(K, d, m)
          BY <1>3, <2>3, <2>5, <2>6, <3>1 DEF CommitSound, signs
    <3>3. QED
          BY <3>2 DEF MessageSound
  <2>7. /\ BodySound(K, n, u)
        /\ u.view = s.view /\ u.tf = s.tf /\ u.log = s.log
        BY <1>1, <2>6, SendFact DEF remove_from_peers
  <2> HIDE DEF u
  <2>8. ReplicaSound(K, n, u)
        BY <2>7 DEF ReplicaSound
  <2>9. ReplicaSound(K, n, executeRData(u, rdata))
        BY <2>1, <2>7, <2>8, ExecuteFact
  <2>10. initiateCommit(s, rdata) = executeRData(u, rdata)
        BY <1>3 DEF initiateCommit, u, m, signs
  <2>11. QED
        BY <2>9, <2>10
<1>4. QED
      BY <1>2, <1>3

(* What a trusted component answers to the certificate of view v.          *)
Answer(K, n, v, j) ==
    \/ j = NoJust
    \/ Voted(K, n, v, j) /\ v \in K.stored[n]

(* What a trusted component that has stored a certificate answers.         *)
LEMMA StoreAnswer ==
    ASSUME NEW K, Sound(K), NEW n \in PID, NEW t, ComponentSound(K, n, t),
           NEW j, VotesSound(K, j.signs)
    PROVE  \E L : /\ Sound(L) /\ Grows(K, n, L) /\ L.proposed = K.proposed
                  /\ ComponentSound(L, n, TEEstore(n, t, j).tee)
                  /\ Answer(L, n, j.rdata.propv, TEEstore(n, t, j).just)
<1>1. CASE ~TEEstore(n, t, j).just.set
  <2>1. TEEstore(n, t, j) = Refuse(t)
        BY <1>1, StoreRefused
  <2>2. Grows(K, n, K)
        BY DEF Grows
  <2>3. QED
        BY <2>1, <2>2 DEF Refuse, Answer
<1>2. CASE TEEstore(n, t, j).just.set
      BY <1>2, StoreCertificate DEF Answer
<1>3. QED
      BY <1>1, <1>2

(* The answer as a vote.                                                   *)
LEMMA AnswerSound ==
    ASSUME NEW K, NEW n \in PID, NEW v \in Nat, NEW j, Answer(K, n, v, j)
    PROVE  /\ CertSound(K, "precommit", MsgPreCommit(j))
           /\ CommitSound(K, getLeaderOf(v), MsgCommit(j))
           /\ MsgCommit(j).rdata.propv = v \/ MsgCommit(j).rdata.propv = 0
           /\ verify(MsgCommit(j).signs, MsgCommit(j).rdata)
           /\ MsgCommit(j).rdata = j.rdata /\ MsgPreCommit(j).rdata = j.rdata
<1> USE DEF MsgPreCommit, MsgCommit, Msg
<1>1. CASE j = NoJust
  <2>1. j.signs = {} /\ j.rdata = NoJust.rdata /\ j.rdata.propv = 0
        BY <1>1 DEF NoJust, RData
  <2>2. VotesSound(K, j.signs)
        BY <2>1, FS_EmptySet DEF VotesSound
  <2>3. QED
        BY <2>1, <2>2 DEF CertSound, CommitSound, Refusal, verify
<1>2. ASSUME NEW rd, j = Just(rd, {Signature(n, rd)}), rd.propv = v,
             VoteSound(K, Signature(n, rd)), v \in K.stored[n]
      PROVE  /\ CertSound(K, "precommit", MsgPreCommit(j))
             /\ CommitSound(K, getLeaderOf(v), MsgCommit(j))
             /\ MsgCommit(j).rdata.propv = v
             /\ verify(MsgCommit(j).signs, MsgCommit(j).rdata)
  <2>1. j.signs = {Signature(n, rd)} /\ j.rdata = rd
        BY <1>2 DEF Just
  <2>2. VotesSound(K, j.signs) /\ j.signs # {}
        BY <1>2, <2>1, FS_Singleton DEF VotesSound
  <2>3. \A g \in j.signs : g.rdata = rd /\ g.signer = n
        BY <2>1 DEF Signature
  <2>4. QED
        BY <1>2, <2>1, <2>2, <2>3 DEF CertSound, CommitSound, verify
<1>3. QED
      BY <1>1, <1>2 DEF Answer, Voted

(* The signatures of a certificate sent to the backups.                    *)
LEMMA CertificateMessage ==
    ASSUME NEW K, NEW rdata, rdata.propv \in Nat, NEW signs,
           VotesSound(K, signs), Cardinality(signs) = QSize, NEW d
    PROVE  /\ MessageSound(K, d, MsgPrepare(Just(rdata, signs)))
           /\ MessageSound(K, d, MsgPreCommit(Just(rdata, signs)))
<1>1. signs # {}
      BY FS_EmptySet, QuorumSizes
<1>2. ASSUME NEW type
      PROVE  CertSound(K, type, Msg(type, rdata, signs))
      BY <1>1 DEF CertSound, Msg
<1>3. QED
      BY <1>2 DEF MessageSound, MsgPrepare, MsgPreCommit, Just

(* Sending m and taking the trusted component from t to u, with what the   *)
(* ledger has of it.                                                       *)
LEMMA SendAndMove ==
    ASSUME NEW K, Sound(K), NEW n \in PID, NEW s, ReplicaSound(K, n, s),
           NEW L, Grows(K, n, L), L.proposed = K.proposed,
           NEW t, ComponentSound(L, n, t),
           NEW R, NEW m, \A d \in R : MessageSound(L, d, m)
    PROVE  LET u == [send(s, R, m) EXCEPT !.tf = t]
           IN  /\ ReplicaSound(L, n, u)
               /\ u.view = s.view /\ u.tf = t /\ u.log = s.log /\ u.myid = n
<1> DEFINE x == send(s, R, m)
           u == [x EXCEPT !.tf = t]
<1>1. BodySound(L, n, s)
      BY BodyGrows DEF ReplicaSound
<1>2. BodySound(L, n, x) /\ x.view = s.view /\ x.log = s.log
      BY <1>1, SendFact
<1> HIDE DEF x
<1>3. /\ BodySound(L, n, u)
      /\ u.view = x.view /\ u.tf = t /\ u.log = x.log /\ u.myid = n
      BY <1>2, UpdateFact
<1>4. LeaderSound(L, n, s.view, s.log.newviews)
      BY DEF ReplicaSound, LeaderSound
<1> HIDE DEF u
<1>5. ReplicaSound(L, n, u)
      BY <1>2, <1>3, <1>4 DEF ReplicaSound
<1>6. QED
      BY <1>2, <1>3, <1>5 DEF u, x

(* Logging a vote that is sound.                                           *)
LEMMA LogCommitVote ==
    ASSUME NEW K, NEW n \in PID, NEW s, ReplicaSound(K, n, s), NEW m,
           CommitSound(K, n, m),
           getLeaderOf(m.rdata.propv) # n => verify(m.signs, m.rdata)
    PROVE  LET u == logVote(s, "commits", m)
           IN  /\ ReplicaSound(K, n, u) /\ u.view = s.view /\ u.tf = s.tf
               /\ u.log.newviews = s.log.newviews
<1> DEFINE l == [s.log EXCEPT !["commits"] = storeVote(s, "commits", m).msgs]
           u == logVote(s, "commits", m)
<1>1. LogSound(K, n, s.log) /\ "commits" \in DOMAIN s.log /\ BodySound(K, n, s)
      BY DEF ReplicaSound, BodySound, LogSound
<1>2. LogSound(K, n, l) /\ l.newviews = s.log.newviews
      BY <1>1, LogCommit DEF storeVote
<1>3. /\ BodySound(K, n, u)
      /\ u.view = s.view /\ u.tf = s.tf /\ u.log = l
      BY <1>1, <1>2, LogVoteFact
<1> HIDE DEF l, u
<1>4. ReplicaSound(K, n, u)
      BY <1>2, <1>3 DEF ReplicaSound
<1>5. QED
      BY <1>2, <1>3, <1>4 DEF u

(* The leader counts its own pre-commit vote.                              *)
LEMMA LogPrecommitVote ==
    ASSUME NEW K, NEW n \in PID, NEW s, ReplicaSound(K, n, s), NEW m,
           CertSound(K, "precommit", m)
    PROVE  LET u == logVote(s, "precommits", m)
           IN  /\ ReplicaSound(K, n, u) /\ u.view = s.view /\ u.tf = s.tf
               /\ u.log.newviews = s.log.newviews
<1> DEFINE l == [s.log EXCEPT !["precommits"] = storeVote(s, "precommits", m).msgs]
           u == logVote(s, "precommits", m)
<1>1. LogSound(K, n, s.log) /\ "precommits" \in DOMAIN s.log /\ BodySound(K, n, s)
      BY DEF ReplicaSound, BodySound, LogSound
<1>2. LogSound(K, n, l) /\ l.newviews = s.log.newviews
      BY <1>1, LogPrecommit DEF storeVote
<1>3. /\ BodySound(K, n, u)
      /\ u.view = s.view /\ u.tf = s.tf /\ u.log = l
      BY <1>1, <1>2, LogVoteFact
<1> HIDE DEF l, u
<1>4. ReplicaSound(K, n, u)
      BY <1>2, <1>3 DEF ReplicaSound
<1>5. QED
      BY <1>2, <1>3, <1>4 DEF u

(* The leader counts its own prepare vote.                                 *)
LEMMA LogPrepareVote ==
    ASSUME NEW K, NEW n \in PID, NEW s, ReplicaSound(K, n, s), NEW m,
           CertSound(K, "prepare", m)
    PROVE  LET u == logVote(s, "prepares", m)
           IN  /\ ReplicaSound(K, n, u) /\ u.view = s.view /\ u.tf = s.tf
               /\ u.log.newviews = s.log.newviews
<1> DEFINE l == [s.log EXCEPT !["prepares"] = storeVote(s, "prepares", m).msgs]
           u == logVote(s, "prepares", m)
<1>1. LogSound(K, n, s.log) /\ "prepares" \in DOMAIN s.log /\ BodySound(K, n, s)
      BY DEF ReplicaSound, BodySound, LogSound
<1>2. LogSound(K, n, l) /\ l.newviews = s.log.newviews
      BY <1>1, LogPrepare DEF storeVote
<1>3. /\ BodySound(K, n, u)
      /\ u.view = s.view /\ u.tf = s.tf /\ u.log = l
      BY <1>1, <1>2, LogVoteFact
<1> HIDE DEF l, u
<1>4. ReplicaSound(K, n, u)
      BY <1>2, <1>3 DEF ReplicaSound
<1>5. QED
      BY <1>2, <1>3, <1>4 DEF u

(* A proposal of a later view is kept in the log.                          *)
LEMMA LogProposalFact ==
    ASSUME NEW K, NEW n \in PID, NEW s, ReplicaSound(K, n, s), NEW m,
           ProposalSound(K, m)
    PROVE  ReplicaSound(K, n, logVote(s, "proposals", m))
<1> DEFINE l == [s.log EXCEPT !["proposals"] = storeVote(s, "proposals", m).msgs]
           u == logVote(s, "proposals", m)
<1>1. LogSound(K, n, s.log) /\ "proposals" \in DOMAIN s.log /\ BodySound(K, n, s)
      BY DEF ReplicaSound, BodySound, LogSound
<1>2. LogSound(K, n, l) /\ l.newviews = s.log.newviews
      BY <1>1, LogProposal DEF storeVote
<1>3. /\ BodySound(K, n, u)
      /\ u.view = s.view /\ u.tf = s.tf /\ u.log = l
      BY <1>1, <1>2, LogVoteFact
<1> HIDE DEF l, u
<1>4. QED
      BY <1>2, <1>3 DEF ReplicaSound, u

(* A refusal that is logged as a vote does not complete a quorum.          *)
LEMMA RefusalCounts ==
    ASSUME NEW K, NEW n \in PID, NEW s, BodySound(K, n, s)
    PROVE  /\ storeVote(s, "precommits", MsgPreCommit(NoJust)).size < QSize
           /\ storeVote(s, "commits", MsgCommit(NoJust)).size < QSize
<1>1. LogSound(K, n, s.log) /\ IsFiniteSet(s.log.precommits)
          /\ IsFiniteSet(s.log.commits)
      BY DEF BodySound, LogSound
<1>2. /\ MsgPreCommit(NoJust).signs = {} /\ MsgCommit(NoJust).signs = {}
      /\ MsgPreCommit(NoJust) = Msg("precommit", NoJust.rdata, {})
      /\ MsgCommit(NoJust) = Msg("commit", NoJust.rdata, {})
      BY DEF MsgPreCommit, MsgCommit, Msg, NoJust
<1>3. \A k \in s.log.precommits : k.signs = {} => k = MsgPreCommit(NoJust)
      BY <1>1, <1>2 DEF LogSound, CertSound, Refusal
<1>4. \A k \in s.log.commits : k.signs = {} => k = MsgCommit(NoJust)
      BY <1>1, <1>2 DEF LogSound, CommitSound, CertSound, Refusal
<1>5. store(s.log.precommits, MsgPreCommit(NoJust)).size < QSize
      BY <1>1, <1>2, <1>3, StoreUnsigned, InViewFinite
<1>6. store(s.log.commits, MsgCommit(NoJust)).size < QSize
      BY <1>1, <1>2, <1>4, StoreUnsigned, InViewFinite
<1>7. QED
      BY <1>5, <1>6 DEF storeVote

(* The answer of TEEstore names the block and the view of the certificate. *)
LEMMA AnswerData ==
    ASSUME NEW K, NEW n, NEW v, NEW j, Answer(K, n, v, j), j # NoJust
    PROVE  j.rdata.propv = v /\ j.rdata.proph = HashOf(K, v)
BY DEF Answer, Voted, Just

(* A step that enters nothing in the ledger.                               *)
LEMMA LeadsWithout ==
    ASSUME NEW K, Sound(K), NEW n, NEW s, ReplicaSound(K, n, s)
    PROVE  Leads(K, n, s)
<1>1. Grows(K, n, K)
      BY DEF Grows
<1>2. QED
      BY <1>1 DEF Leads

(* Steps of a ledger compose.                                              *)
LEMMA LeadsOn ==
    ASSUME NEW K, NEW n, NEW L, Grows(K, n, L), NEW s, Leads(L, n, s)
    PROVE  Leads(K, n, s)
BY GrowsTransitive DEF Leads

(* initiatePrecommit: with a quorum of pre-commit votes the leader stores  *)
(* the certificate and goes on to commit.                                  *)
LEMMA InitiatePrecommitFact ==
    ASSUME NEW K, Sound(K), NEW n \in PID, NEW s, ReplicaSound(K, n, s),
           getLeaderOf(s.view) = n, NEW rdata, rdata.propv = s.view
    PROVE  Leads(K, n, initiatePrecommit(s, rdata))
<1> DEFINE signs  == get(s.log.precommits, rdata.propv, QSize)
           cert   == Just(rdata, signs)
           r      == TEEstore(n, s.tf, cert)
           msgCom == MsgCommit(r.just)
           s1     == [send(s, remove_from_peers(s), MsgPreCommit(cert))
                         EXCEPT !.tf = r.tee]
           s2     == logVote(s1, "commits", msgCom)
<1>1. /\ s.myid = n /\ s.view \in Nat /\ LogSound(K, n, s.log)
      /\ ComponentSound(K, n, s.tf)
      BY DEF ReplicaSound, BodySound, Shape
<1>2. CASE Cardinality(signs) # QSize
      BY <1>2, LeadsWithout DEF initiatePrecommit
<1>3. CASE Cardinality(signs) = QSize
  <2>1. VotesSound(K, signs)
        BY <1>1, GetSound
  <2>2. cert.rdata = rdata /\ cert.signs = signs
        BY DEF Just
  <2>3. initiatePrecommit(s, rdata) =
            IF QSize <= storeVote(s1, "commits", msgCom).size
            THEN initiateCommit(s2, r.just.rdata) ELSE s2
        BY <1>1, <1>3 DEF initiatePrecommit
  <2> HIDE DEF cert, signs
  <2>4. PICK L : /\ Sound(L) /\ Grows(K, n, L) /\ L.proposed = K.proposed
                 /\ ComponentSound(L, n, r.tee)
                 /\ Answer(L, n, s.view, r.just)
        BY <1>1, <2>1, <2>2, StoreAnswer
  <2>5. \A d : MessageSound(L, d, MsgPreCommit(cert))
        BY <1>1, <1>3, <2>1, <2>4, VotesGrow, CertificateMessage DEF cert
  <2> HIDE DEF r
  <2>6. /\ ReplicaSound(L, n, s1)
        /\ s1.view = s.view /\ s1.tf = r.tee /\ s1.myid = n
        BY <2>4, <2>5, SendAndMove
  <2> HIDE DEF s1
  <2>7. /\ CommitSound(L, n, msgCom)
        /\ verify(msgCom.signs, msgCom.rdata)
        BY <1>1, <2>4, AnswerSound
  <2>8. ReplicaSound(L, n, s2) /\ s2.view = s.view
        BY <2>6, <2>7, LogCommitVote
  <2>9. CASE QSize <= storeVote(s1, "commits", msgCom).size
    <3>1. r.just # NoJust
      <4>1. storeVote(s1, "commits", MsgCommit(NoJust)).size < QSize
            BY <2>6, RefusalCounts DEF ReplicaSound
      <4>2. storeVote(s1, "commits", MsgCommit(NoJust)).size \in Nat
            BY <2>6, StoreFact DEF ReplicaSound, BodySound, LogSound, storeVote
      <4>3. QED
            BY <2>9, <4>1, <4>2, QuorumSizes
    <3>2. r.just.rdata.propv = s.view /\ r.just.rdata.proph = HashOf(L, s.view)
          BY <2>4, <3>1, AnswerData
    <3> HIDE DEF s2
    <3>3. ReplicaSound(L, n, initiateCommit(s2, r.just.rdata))
          BY <2>4, <2>8, <3>2, InitiateCommitFact
    <3>4. QED
          BY <2>3, <2>4, <2>9, <3>3 DEF Leads
  <2>10. CASE ~(QSize <= storeVote(s1, "commits", msgCom).size)
         BY <2>3, <2>4, <2>8, <2>10 DEF Leads
  <2>11. QED
         BY <2>9, <2>10
<1>4. QED
      BY <1>2, <1>3

(* initiatePrepare: with a quorum of prepare votes the leader stores the   *)
(* certificate and goes on to pre-commit.                                  *)
LEMMA InitiatePrepareFact ==
    ASSUME NEW K, Sound(K), NEW n \in PID, NEW s, ReplicaSound(K, n, s),
           getLeaderOf(s.view) = n, NEW rdata, rdata.propv = s.view
    PROVE  Leads(K, n, initiatePrepare(s, rdata))
<1> DEFINE signs == get(s.log.prepares, rdata.propv, QSize)
           cert  == Just(rdata, signs)
           r     == TEEstore(n, s.tf, cert)
           msgPc == MsgPreCommit(r.just)
           s1    == [send(s, remove_from_peers(s), MsgPrepare(cert))
                        EXCEPT !.tf = r.tee]
           s2    == logVote(s1, "precommits", msgPc)
<1>1. /\ s.myid = n /\ s.view \in Nat /\ LogSound(K, n, s.log)
      /\ ComponentSound(K, n, s.tf)
      BY DEF ReplicaSound, BodySound, Shape
<1>2. CASE Cardinality(signs) # QSize
      BY <1>2, LeadsWithout DEF initiatePrepare
<1>3. CASE Cardinality(signs) = QSize
  <2>1. VotesSound(K, signs)
        BY <1>1, GetSound
  <2>2. cert.rdata = rdata /\ cert.signs = signs
        BY DEF Just
  <2>3. initiatePrepare(s, rdata) =
            IF QSize <= storeVote(s1, "precommits", msgPc).size
            THEN initiatePrecommit(s2, r.just.rdata) ELSE s2
        BY <1>1, <1>3 DEF initiatePrepare
  <2> HIDE DEF cert, signs
  <2>4. PICK L : /\ Sound(L) /\ Grows(K, n, L) /\ L.proposed = K.proposed
                 /\ ComponentSound(L, n, r.tee)
                 /\ Answer(L, n, s.view, r.just)
        BY <1>1, <2>1, <2>2, StoreAnswer
  <2>5. \A d : MessageSound(L, d, MsgPrepare(cert))
        BY <1>1, <1>3, <2>1, <2>4, VotesGrow, CertificateMessage DEF cert
  <2> HIDE DEF r
  <2>6. /\ ReplicaSound(L, n, s1)
        /\ s1.view = s.view /\ s1.tf = r.tee /\ s1.myid = n
        BY <2>4, <2>5, SendAndMove
  <2> HIDE DEF s1
  <2>7. CertSound(L, "precommit", msgPc)
        BY <1>1, <2>4, AnswerSound
  <2>8. ReplicaSound(L, n, s2) /\ s2.view = s.view
        BY <2>6, <2>7, LogPrecommitVote
  <2>9. CASE QSize <= storeVote(s1, "precommits", msgPc).size
    <3>1. r.just # NoJust
      <4>1. storeVote(s1, "precommits", MsgPreCommit(NoJust)).size < QSize
            BY <2>6, RefusalCounts DEF ReplicaSound
      <4>2. storeVote(s1, "precommits", MsgPreCommit(NoJust)).size \in Nat
            BY <2>6, StoreFact DEF ReplicaSound, BodySound, LogSound, storeVote
      <4>3. QED
            BY <2>9, <4>1, <4>2, QuorumSizes
    <3>2. r.just.rdata.propv = s.view
          BY <2>4, <3>1, AnswerData
    <3> HIDE DEF s2
    <3>3. Leads(L, n, initiatePrecommit(s2, r.just.rdata))
          BY <2>4, <2>8, <3>2, InitiatePrecommitFact
    <3>4. QED
          BY <2>3, <2>4, <2>9, <3>3, LeadsOn
  <2>10. CASE ~(QSize <= storeVote(s1, "precommits", msgPc).size)
         BY <2>3, <2>4, <2>8, <2>10 DEF Leads
  <2>11. QED
         BY <2>9, <2>10
<1>4. QED
      BY <1>2, <1>3

(* The same, the block of the view being noted as well.                    *)
Noted(s, R, m, t, b) == [send(s, R, m) EXCEPT !.tf = t, !.blocks = b]

(* Sending, moving the component and noting the block keep a replica       *)
(* sound.                                                                  *)
LEMMA SendAndNote ==
    ASSUME NEW K, Sound(K), NEW n \in PID, NEW s, ReplicaSound(K, n, s),
           NEW L, Grows(K, n, L), L.proposed = K.proposed,
           NEW t, ComponentSound(L, n, t),
           NEW R, NEW m, \A d \in R : MessageSound(L, d, m), NEW b
    PROVE  LET u == Noted(s, R, m, t, b)
           IN  /\ ReplicaSound(L, n, u)
               /\ u.view = s.view /\ u.tf = t /\ u.log = s.log /\ u.myid = n
<1> DEFINE x == send(s, R, m)
           u == [x EXCEPT !.tf = t, !.blocks = b]
<1>1. BodySound(L, n, s)
      BY BodyGrows DEF ReplicaSound
<1>2. BodySound(L, n, x) /\ x.view = s.view /\ x.log = s.log /\ x.myid = n
      BY <1>1, SendFact
<1> HIDE DEF x
<1>3. /\ BodySound(L, n, u)
      /\ u.view = x.view /\ u.tf = t /\ u.log = x.log /\ u.myid = n
  <2>1. DOMAIN x = Fields
        BY <1>2 DEF BodySound, Shape
  <2>2. Agree(x, u) /\ u.tf = t
        BY <2>1 DEF Agree, Fields
  <2> HIDE DEF u
  <2>3. QED
        BY <1>2, <2>2, AgreeFact DEF Agree
<1>4. LeaderSound(L, n, s.view, s.log.newviews)
      BY DEF ReplicaSound, LeaderSound
<1> HIDE DEF u
<1>5. ReplicaSound(L, n, u)
      BY <1>2, <1>3, <1>4 DEF ReplicaSound
<1>6. QED
      BY <1>2, <1>3, <1>5 DEF u, x, Noted

(* The queue without the transactions of the block is a queue.             *)
LEMMA PopFact ==
    ASSUME NEW K, NEW n \in PID, NEW s, ReplicaSound(K, n, s)
    PROVE  LET u == popTransactions(s)
           IN  /\ ReplicaSound(K, n, u)
               /\ u.view = s.view /\ u.tf = s.tf /\ u.log = s.log /\ u.myid = n
<1> DEFINE q == s.transactions
           k == BlockSize(s)
           rest == SubSeq(q, k + 1, Len(q))
           u == [s EXCEPT !.transactions = rest]
<1>1. DOMAIN s = Fields /\ s.myid = n /\ q \in Seq(Nat)
      BY DEF ReplicaSound, BodySound, Shape
<1>2. rest \in Seq(Nat)
      BY <1>1, BlockSizeFact
<1>3. popTransactions(s) = u
      BY DEF popTransactions
<1> HIDE DEF rest
<1>4. /\ DOMAIN u = Fields /\ u.transactions = rest
      /\ u.myid = s.myid /\ u.view = s.view /\ u.tf = s.tf /\ u.out = s.out
      /\ u.fromClient = s.fromClient /\ u.executed = s.executed
      /\ u.log = s.log
      BY <1>1 DEF Fields
<1> HIDE DEF u, q
<1>5. ReplicaSound(K, n, u)
      BY <1>2, <1>4 DEF ReplicaSound, BodySound, Shape
<1>6. QED
      BY <1>1, <1>3, <1>4, <1>5

(* The vote that a trusted component returns for a block is sound.         *)
LEMMA VotedFact ==
    ASSUME NEW K, NEW n \in PID, NEW v \in Nat, NEW j, Voted(K, n, v, j)
    PROVE  /\ CertSound(K, "prepare", MsgPrepare(j))
           /\ j.rdata.propv = v
           /\ \A m : m.signs = j.signs => Signed(m)
<1>1. PICK rd : /\ j = Just(rd, {Signature(n, rd)}) /\ rd.propv = v
                /\ VoteSound(K, Signature(n, rd))
      BY DEF Voted
<1>2. j.signs = {Signature(n, rd)} /\ j.rdata = rd
      BY <1>1 DEF Just
<1>3. VotesSound(K, j.signs) /\ j.signs # {}
      BY <1>1, <1>2, FS_Singleton DEF VotesSound
<1>4. CertSound(K, "prepare", MsgPrepare(j))
      BY <1>1, <1>2, <1>3 DEF CertSound, MsgPrepare, Msg
<1>5. \A m : m.signs = j.signs => Signed(m)
      BY <1>2, SingleSigned
<1>6. QED
      BY <1>1, <1>2, <1>4, <1>5

(* Every logged new-view message reports a prepared block.                 *)
LEMMA ReportedFact ==
    ASSUME NEW K, NEW n, NEW log, LogSound(K, n, log)
    PROVE  \A m \in log.newviews : /\ Signed(m) /\ m.rdata.justv \in Nat
                                   /\ ReportSound(K, m.rdata)
                                   /\ ViewOf(m) = m.rdata.propv
<1>1. \A m \in log.newviews : NewviewSound(K, m) /\ ReportSound(K, m.rdata)
      BY DEF LogSound, NewviewSound
<1>2. \A m \in log.newviews : Signed(m)
      BY <1>1, SingleSigned DEF NewviewSound
<1>3. QED
      BY <1>1, <1>2, ViewOfFact DEF ReportSound

(* The leader of a view with a quorum of new-view messages proposes a      *)
(* block, once.                                                            *)
LEMMA ProposeFact ==
    ASSUME NEW K, Sound(K), NEW n \in PID, NEW s, ReplicaSound(K, n, s),
           getLeaderOf(s.view) = n, s.view \notin DOMAIN K.proposed,
           Cardinality(InView(s.log.newviews, s.view)) >= QSize
    PROVE  Leads(K, n, prepare(s))
<1> DEFINE v       == s.view
           justNV  == findHighestNv(s.log.newviews, v)
           block   == Block(justNV.rdata.justh, NextTrans(s))
           r       == TEEprepare(n, s.tf, hash(block), justNV)
           ldrPrep == MsgLdrPrepare(justNV, block, r.just.signs)
           msgPrep == MsgPrepare(r.just)
           s0      == popTransactions(s)
           x       == send(s0, remove_from_peers(s), ldrPrep)
           b       == assign(x.blocks, v, block)
           s1      == [x EXCEPT !.tf = r.tee, !.blocks = b]
           s2      == logVote(s1, "prepares", msgPrep)
<1>1. /\ s.myid = n /\ v \in Nat /\ LogSound(K, n, s.log)
      /\ ComponentSound(K, n, s.tf)
      BY DEF ReplicaSound, BodySound, Shape
<1>2. /\ ReplicaSound(K, n, s0)
      /\ s0.view = v /\ s0.tf = s.tf /\ s0.log = s.log /\ s0.myid = n
      BY PopFact
<1>3. prepare(s) = IF ~r.just.set THEN s0
                   ELSE IF QSize <= storeVote(s1, "prepares", msgPrep).size
                   THEN initiatePrepare(s2, r.just.rdata) ELSE s2
      BY <1>1 DEF prepare, createNewBlock
<1>4. ReportSound(K, justNV.rdata) /\ justNV.rdata.propv = v
  <2>1. InView(s.log.newviews, v) # {}
        BY QuorumMember
  <2>2. PICK m \in InView(s.log.newviews, v) : justNV = Just(m.rdata, m.signs)
    <3>1. IsFiniteSet(s.log.newviews)
          BY <1>1 DEF LogSound
    <3>2. \A m \in s.log.newviews : Signed(m) /\ m.rdata.justv \in Nat
          BY <1>1, ReportedFact
    <3>3. QED
          BY <2>1, <3>1, <3>2, HighestFact
  <2>3. m \in s.log.newviews /\ ViewOf(m) = v /\ justNV.rdata = m.rdata
        BY <2>2 DEF InView, Just
  <2>4. QED
        BY <1>1, <2>3, ReportedFact
<1> HIDE DEF justNV
<1>5. /\ block \in ChainBlock /\ block.prevHash = justNV.rdata.justh
  <2>1. justNV.rdata.justh \in Chain
        BY <1>4, ReportFact
  <2>2. NextTrans(s) \in Seq(Nat)
        BY NextTransFact DEF ReplicaSound, BodySound, Shape
  <2>3. QED
        BY <2>1, <2>2 DEF Block, ChainBlock
<1> HIDE DEF block, s0
<1>6. CASE ~r.just.set
      BY <1>2, <1>3, <1>6, LeadsWithout
<1>7. CASE r.just.set
  <2> DEFINE M == [proposed |-> assign(K.proposed, v, block),
                   voted |-> K.voted, stored |-> K.stored, view |-> K.view]
  <2>1. Sound(M) /\ Grows(K, n, M) /\ M.proposed[v] = block
        BY <1>1, <1>5, LedgerPropose
  <2>2. /\ DOMAIN M.proposed = DOMAIN K.proposed \cup {v}
        /\ K.stored = M.stored /\ K.view = M.view
        BY DEF assign
  <2> HIDE DEF M
  <2>3. ComponentSound(M, n, s.tf)
        BY <1>1, <2>1, <2>2, ComponentGrows
  <2>4. ReplicaSound(M, n, s0)
    <3>1. BodySound(M, n, s0)
          BY <1>2, <2>1, BodyGrows DEF ReplicaSound
    <3>2. LeaderSound(M, n, v, s.log.newviews)
          BY <1>1, <2>2 DEF ReplicaSound, LeaderSound
    <3>3. QED
          BY <1>2, <2>3, <3>1, <3>2 DEF ReplicaSound
  <2>5. ReportSound(M, justNV.rdata)
        BY <1>4, <2>1, ReportGrows
  <2>6. PICK L : /\ Sound(L) /\ Grows(M, n, L) /\ L.proposed = M.proposed
                 /\ ComponentSound(L, n, r.tee) /\ Voted(L, n, v, r.just)
        BY <1>4, <1>5, <1>7, <2>1, <2>2, <2>3, <2>5, PrepareFact
  <2>7. CertSound(L, "prepare", msgPrep) /\ r.just.rdata.propv = v
        BY <1>1, <2>6, VotedFact
  <2>8. ASSUME NEW d \in remove_from_peers(s) PROVE MessageSound(L, d, ldrPrep)
    <3>1. /\ ldrPrep.type = "ldrprepare" /\ ldrPrep.just = justNV
          /\ ldrPrep.block = block /\ ldrPrep.signs = r.just.signs
          BY DEF MsgLdrPrepare
    <3>2. ReportSound(L, justNV.rdata)
          BY <2>1, <2>5, <2>6, ReportGrows
    <3>3. Signed(ldrPrep)
          BY <1>1, <2>6, <3>1, VotedFact
    <3>4. ProposalSound(L, ldrPrep)
          BY <1>4, <1>5, <2>1, <2>2, <2>6, <3>1, <3>2, <3>3 DEF ProposalSound
    <3>5. d # n
          BY <1>1 DEF remove_from_peers
    <3>6. QED
          BY <1>4, <3>1, <3>4, <3>5 DEF MessageSound
  <2> HIDE DEF r, ldrPrep, b
  <2>9. /\ ReplicaSound(L, n, s1)
        /\ s1.view = v /\ s1.tf = r.tee /\ s1.myid = n
    <3>1. s1 = Noted(s0, remove_from_peers(s), ldrPrep, r.tee, b)
          BY DEF Noted
    <3> HIDE DEF s1
    <3>2. QED
          BY <1>2, <2>1, <2>4, <2>6, <2>8, <3>1, SendAndNote
  <2> HIDE DEF s1, x
  <2>10. ReplicaSound(L, n, s2) /\ s2.view = v
         BY <2>7, <2>9, LogPrepareVote
  <2> HIDE DEF s2
  <2>11. Leads(L, n, initiatePrepare(s2, r.just.rdata))
         BY <2>6, <2>7, <2>10, InitiatePrepareFact
  <2>12. Leads(L, n, s2)
         BY <2>6, <2>10, LeadsWithout
  <2>13. Leads(L, n, prepare(s))
         BY <1>3, <1>7, <2>11, <2>12
  <2>14. QED
         BY <2>1, <2>6, <2>13, LeadsOn
<1>8. QED
      BY <1>6, <1>7

-----------------------------------------------------------------------------
(* The backup's side of a view.                                            *)

(* currentLeader.                                                          *)
LEMMA LeaderAddress ==
    ASSUME NEW s, NEW d \in currentLeader(s)
    PROVE  d = getLeaderOf(s.view)
BY DEF currentLeader, keep_from_peers

(* respondToProposal: a backup votes for the block of the leader.          *)
LEMMA RespondToProposalFact ==
    ASSUME NEW K, Sound(K), NEW n \in PID, NEW s, ReplicaSound(K, n, s),
           NEW m, ProposalSound(K, m), m.just.rdata.propv = s.view
    PROVE  Leads(K, n, respondToProposal(s, m.just, m.block))
<1> DEFINE r  == TEEprepare(n, s.tf, hash(m.block), m.just)
           x  == send(s, currentLeader(s), MsgPrepare(r.just))
           b  == assign(x.blocks, s.view, m.block)
           s1 == Noted(s, currentLeader(s), MsgPrepare(r.just), r.tee, b)
<1>1. /\ s.myid = n /\ s.view \in Nat /\ ComponentSound(K, n, s.tf)
      BY DEF ReplicaSound, BodySound, Shape
<1>2. respondToProposal(s, m.just, m.block) = IF r.just.set THEN s1 ELSE s
      BY <1>1 DEF respondToProposal, Noted
<1>3. CASE r.just.set
  <2>1. PICK L : /\ Sound(L) /\ Grows(K, n, L) /\ L.proposed = K.proposed
                 /\ ComponentSound(L, n, r.tee) /\ Voted(L, n, s.view, r.just)
        BY <1>1, <1>3, PrepareFact DEF ProposalSound
  <2>2. \A d : MessageSound(L, d, MsgPrepare(r.just))
        BY <1>1, <2>1, VotedFact DEF MessageSound
  <2> HIDE DEF r, b
  <2>3. ReplicaSound(L, n, s1)
        BY <2>1, <2>2, SendAndNote
  <2>4. QED
        BY <1>2, <1>3, <2>1, <2>3 DEF Leads
<1>4. CASE ~r.just.set
      BY <1>2, <1>4, LeadsWithout
<1>5. QED
      BY <1>3, <1>4

(* respondToPrepareJust: a backup stores a prepare certificate.            *)
LEMMA RespondToPrepareFact ==
    ASSUME NEW K, Sound(K), NEW n \in PID, NEW s, ReplicaSound(K, n, s),
           NEW j, VotesSound(K, j.signs), j.rdata.propv = s.view
    PROVE  Leads(K, n, respondToPrepareJust(s, j))
<1> DEFINE r  == TEEstore(n, s.tf, j)
           s1 == [send(s, currentLeader(s), MsgPreCommit(r.just))
                     EXCEPT !.tf = r.tee]
<1>1. /\ s.myid = n /\ s.view \in Nat /\ ComponentSound(K, n, s.tf)
      BY DEF ReplicaSound, BodySound, Shape
<1>2. respondToPrepareJust(s, j) = s1
      BY <1>1 DEF respondToPrepareJust
<1>3. PICK L : /\ Sound(L) /\ Grows(K, n, L) /\ L.proposed = K.proposed
               /\ ComponentSound(L, n, r.tee) /\ Answer(L, n, s.view, r.just)
      BY <1>1, StoreAnswer
<1>4. \A d : MessageSound(L, d, MsgPreCommit(r.just))
      BY <1>1, <1>3, AnswerSound DEF MessageSound
<1> HIDE DEF r
<1>5. ReplicaSound(L, n, s1)
      BY <1>3, <1>4, SendAndMove
<1>6. QED
      BY <1>2, <1>3, <1>5 DEF Leads

(* respondToPreCommitJust: a backup stores a pre-commit certificate.       *)
LEMMA RespondToPreCommitFact ==
    ASSUME NEW K, Sound(K), NEW n \in PID, NEW s, ReplicaSound(K, n, s),
           NEW j, VotesSound(K, j.signs), j.rdata.propv = s.view
    PROVE  LET u == respondToPreCommitJust(s, j)
           IN  u.view = s.view /\ Leads(K, n, u)
<1> DEFINE r  == TEEstore(n, s.tf, j)
           s1 == [send(s, currentLeader(s), MsgCommit(r.just))
                     EXCEPT !.tf = r.tee]
<1>1. /\ s.myid = n /\ s.view \in Nat /\ ComponentSound(K, n, s.tf)
      BY DEF ReplicaSound, BodySound, Shape
<1>2. respondToPreCommitJust(s, j) = s1
      BY <1>1 DEF respondToPreCommitJust
<1>3. PICK L : /\ Sound(L) /\ Grows(K, n, L) /\ L.proposed = K.proposed
               /\ ComponentSound(L, n, r.tee) /\ Answer(L, n, s.view, r.just)
      BY <1>1, StoreAnswer
<1>4. CommitSound(L, getLeaderOf(s.view), MsgCommit(r.just))
      BY <1>1, <1>3, AnswerSound
<1>5. \A d \in currentLeader(s) : MessageSound(L, d, MsgCommit(r.just))
      BY <1>4, LeaderAddress DEF MessageSound
<1> HIDE DEF r
<1>6. ReplicaSound(L, n, s1) /\ s1.view = s.view
      BY <1>3, <1>5, SendAndMove
<1>7. QED
      BY <1>2, <1>3, <1>6 DEF Leads

(* callTEEsign.                                                            *)
LEMMA SkipFact ==
    ASSUME NEW K, Sound(K), NEW n \in PID, NEW s, ReplicaSound(K, n, s)
    PROVE  /\ skipPhase(s).view = s.view /\ skipPhase(s).log = s.log
           /\ Leads(K, n, skipPhase(s))
<1> DEFINE t == TEEsign(s.myid, s.tf).tee
           u == [s EXCEPT !.tf = t]
<1>1. /\ ComponentSound(K, n, s.tf) /\ BodySound(K, n, s)
      BY DEF ReplicaSound
<1>2. u = skipPhase(s)
      BY DEF skipPhase
<1>3. Later(s.tf, t)
  <2>1. /\ DOMAIN s.tf = ComponentFields
        /\ s.tf.view \in Nat /\ s.tf.phase \in Phase
        BY <1>1, LockFact
  <2>2. QED
        BY <2>1, SignFact DEF TEEsign
<1>4. PICK L : /\ Sound(L) /\ Grows(K, n, L) /\ L.proposed = K.proposed
               /\ ComponentSound(L, n, t)
      BY <1>1, <1>3, ComponentMoves
<1> HIDE DEF t
<1>5. BodySound(L, n, s)
      BY <1>1, <1>4, BodyGrows
<1>6. BodySound(L, n, u) /\ u.view = s.view /\ u.log = s.log /\ u.tf = t
      BY <1>5, UpdateFact
<1>7. LeaderSound(L, n, s.view, s.log.newviews)
      BY <1>4 DEF ReplicaSound, LeaderSound
<1> HIDE DEF u
<1>8. ReplicaSound(L, n, u)
      BY <1>4, <1>6, <1>7 DEF ReplicaSound
<1>9. QED
      BY <1>2, <1>4, <1>6, <1>8 DEF Leads

-----------------------------------------------------------------------------
(* Handlers.                                                               *)

(* The type of a message says what it is.                                  *)
LEMMA MessageByType ==
    ASSUME NEW K, NEW d, NEW m, MessageSound(K, d, m)
    PROVE  /\ m.type = "newview" => NewviewSound(K, m)
           /\ m.type = "ldrprepare" => /\ ProposalSound(K, m)
                                       /\ getLeaderOf(m.just.rdata.propv) # d
           /\ m.type = "prepare" => CertSound(K, "prepare", m)
           /\ m.type = "precommit" => CertSound(K, "precommit", m)
           /\ m.type = "commit" => CommitSound(K, d, m)
<1>1. \A type : CertSound(K, type, m) => m.type = type
      BY DEF CertSound, Msg
<1>2. QED
      BY <1>1 DEF MessageSound, NewviewSound, ProposalSound, CommitSound

(* A new-view message is counted by the leader of its view.                *)
LEMMA LogNewviewVote ==
    ASSUME NEW K, NEW n \in PID, NEW s, ReplicaSound(K, n, s), NEW m,
           NewviewSound(K, m), m.rdata.phase = NEWVIEW
    PROVE  LET u == logVote(s, "newviews", m)
           IN  /\ ReplicaSound(K, n, u) /\ u.view = s.view
               /\ u.log.newviews = storeVote(s, "newviews", m).msgs
<1> DEFINE l == [s.log EXCEPT !["newviews"] = storeVote(s, "newviews", m).msgs]
           u == logVote(s, "newviews", m)
<1>1. /\ LogSound(K, n, s.log) /\ "newviews" \in DOMAIN s.log
      /\ BodySound(K, n, s) /\ IsFiniteSet(s.log.newviews)
      BY DEF ReplicaSound, BodySound, LogSound
<1>2. LogSound(K, n, l) /\ l.newviews = store(s.log.newviews, m).msgs
      BY <1>1, LogNewview DEF storeVote
<1>3. /\ BodySound(K, n, u)
      /\ u.view = s.view /\ u.tf = s.tf /\ u.log = l
      BY <1>1, <1>2, LogVoteFact
<1> HIDE DEF l, u
<1>4. LeaderSound(K, n, s.view, l.newviews)
  <2>1. \A v : Cardinality(InView(s.log.newviews, v))
                   <= Cardinality(InView(l.newviews, v))
        BY <1>1, <1>2, StoreFact
  <2>2. \A v : Cardinality(InView(s.log.newviews, v)) \in Nat
        BY <1>1, InViewFinite
  <2>3. \A v : Cardinality(InView(l.newviews, v)) \in Nat
    <3>1. IsFiniteSet(l.newviews)
          BY <1>1, <1>2, StoreFact
    <3>2. QED
          BY <3>1, InViewFinite
  <2>4. \A v : Cardinality(InView(s.log.newviews, v)) >= QSize
                   => Cardinality(InView(l.newviews, v)) >= QSize
        BY <2>1, <2>2, <2>3, QuorumSizes
  <2>5. QED
        BY <2>4 DEF ReplicaSound, LeaderSound
<1>5. ReplicaSound(K, n, u)
      BY <1>3, <1>4 DEF ReplicaSound
<1>6. QED
      BY <1>2, <1>3, <1>5 DEF u, storeVote

(* handleNewview keeps the replica sound.                                  *)
LEMMA HandleNewviewFact ==
    ASSUME NEW K, Sound(K), NEW n \in PID, NEW s, ReplicaSound(K, n, s),
           NEW m, NewviewSound(K, m)
    PROVE  Leads(K, n, handleNewview(s, m))
<1> DEFINE v    == m.rdata.propv
           s1   == logVote(s, "newviews", m)
           size == storeVote(s, "newviews", m).size
<1>1. s.myid = n /\ IsFiniteSet(s.log.newviews)
      BY DEF ReplicaSound, BodySound, Shape, LogSound
<1>2. CASE handleNewview(s, m) = s
      BY <1>2, LeadsWithout
<1>3. CASE m.rdata.phase = NEWVIEW /\ handleNewview(s, m) = s1
      BY <1>3, LogNewviewVote, LeadsWithout
<1>4. CASE /\ m.rdata.phase = NEWVIEW /\ amLeaderOf(s, v) /\ v = s.view
           /\ quorumReached(size) /\ handleNewview(s, m) = prepare(s1)
  <2>1. /\ ReplicaSound(K, n, s1) /\ s1.view = v
        /\ s1.log.newviews = store(s.log.newviews, m).msgs
        BY <1>4, LogNewviewVote DEF storeVote
  <2> HIDE DEF s1
  <2>2. ViewOf(m) = v
        BY ViewOfFact
  <2>3. size = QSize /\ size = store(s.log.newviews, m).size
        BY <1>4 DEF quorumReached, storeVote
  <2> HIDE DEF size
  <2>4. store(s.log.newviews, m).size # 0
        BY <2>3, QuorumSizes
  <2>5. size = Cardinality(InView(s1.log.newviews, v))
        BY <1>1, <2>1, <2>2, <2>3, <2>4, StoreFact
  <2>6. size = Cardinality(InView(s.log.newviews, v)) + 1
    <3>1. PICK i \in PID : m.signs = {Signature(i, m.rdata)}
          BY DEF NewviewSound
    <3>2. QED
          BY <1>1, <2>2, <2>3, <2>4, <3>1, StoreSingle
  <2>7. v \notin DOMAIN K.proposed
    <3>1. Cardinality(InView(s.log.newviews, v)) \in Nat
          BY <1>1, InViewFinite
    <3>2. ~(Cardinality(InView(s.log.newviews, v)) >= QSize)
          BY <2>3, <2>6, <3>1, QuorumSizes
    <3>3. getLeaderOf(v) = n
          BY <1>1, <1>4 DEF amLeaderOf
    <3>4. QED
          BY <3>2, <3>3 DEF ReplicaSound, LeaderSound
  <2>8. getLeaderOf(s1.view) = n
        BY <1>1, <1>4, <2>1 DEF amLeaderOf
  <2>9. Cardinality(InView(s1.log.newviews, s1.view)) >= QSize
        BY <2>1, <2>3, <2>5, QuorumSizes
  <2>10. QED
         BY <1>4, <2>1, <2>7, <2>8, <2>9, ProposeFact
<1>5. QED
      BY <1>2, <1>3, <1>4 DEF handleNewview

(* handleLdrPrepare keeps the replica sound.                               *)
LEMMA HandleLdrPrepareFact ==
    ASSUME NEW K, Sound(K), NEW n \in PID, NEW s, ReplicaSound(K, n, s),
           NEW m, ProposalSound(K, m)
    PROVE  Leads(K, n, handleLdrPrepare(s, m))
<1>1. CASE handleLdrPrepare(s, m) = s
      BY <1>1, LeadsWithout
<1>2. CASE handleLdrPrepare(s, m) = logVote(s, "proposals", m)
      BY <1>2, LogProposalFact, LeadsWithout
<1>3. CASE /\ m.just.rdata.propv = s.view
           /\ handleLdrPrepare(s, m) = respondToProposal(s, m.just, m.block)
      BY <1>3, RespondToProposalFact
<1>4. QED
      BY <1>1, <1>2, <1>3 DEF handleLdrPrepare

(* handlePrepare keeps the replica sound.                                  *)
LEMMA HandlePrepareFact ==
    ASSUME NEW K, Sound(K), NEW n \in PID, NEW s, ReplicaSound(K, n, s),
           NEW m, CertSound(K, "prepare", m)
    PROVE  Leads(K, n, handlePrepare(s, m))
<1> DEFINE s1 == logVote(s, "prepares", m)
           j  == Just(m.rdata, m.signs)
<1>1. ReplicaSound(K, n, s1) /\ s1.view = s.view /\ s.myid = n
      BY LogPrepareVote DEF ReplicaSound, BodySound, Shape
<1>2. j.rdata = m.rdata /\ VotesSound(K, j.signs)
      BY DEF Just, CertSound
<1> HIDE DEF s1, j
<1>3. CASE handlePrepare(s, m) \in {s, s1}
      BY <1>1, <1>3, LeadsWithout
<1>4. CASE /\ m.rdata.propv = s.view /\ amCurrentLeader(s)
           /\ handlePrepare(s, m) = initiatePrepare(s1, m.rdata)
  <2>1. getLeaderOf(s1.view) = n
        BY <1>1, <1>4 DEF amCurrentLeader, amLeaderOf
  <2>2. QED
        BY <1>1, <1>4, <2>1, InitiatePrepareFact
<1>5. CASE /\ m.rdata.propv = s.view
           /\ handlePrepare(s, m) = respondToPrepareJust(s, j)
      BY <1>2, <1>5, RespondToPrepareFact
<1>6. QED
      BY <1>3, <1>4, <1>5 DEF handlePrepare, s1, j

(* handlePrecommit keeps the replica sound.                                *)
LEMMA HandlePrecommitFact ==
    ASSUME NEW K, Sound(K), NEW n \in PID, NEW s, ReplicaSound(K, n, s),
           NEW m, CertSound(K, "precommit", m)
    PROVE  Leads(K, n, handlePrecommit(s, m))
<1> DEFINE s1 == logVote(s, "precommits", m)
           j  == Just(m.rdata, m.signs)
<1>1. ReplicaSound(K, n, s1) /\ s1.view = s.view /\ s.myid = n
      BY LogPrecommitVote DEF ReplicaSound, BodySound, Shape
<1>2. j.rdata = m.rdata /\ VotesSound(K, j.signs)
      BY DEF Just, CertSound
<1> HIDE DEF s1, j
<1>3. CASE handlePrecommit(s, m) \in {s, s1}
      BY <1>1, <1>3, LeadsWithout
<1>4. CASE /\ m.rdata.propv = s.view /\ amCurrentLeader(s)
           /\ handlePrecommit(s, m) = initiatePrecommit(s1, m.rdata)
  <2>1. getLeaderOf(s1.view) = n
        BY <1>1, <1>4 DEF amCurrentLeader, amLeaderOf
  <2>2. QED
        BY <1>1, <1>4, <2>1, InitiatePrecommitFact
<1>5. CASE /\ m.rdata.propv = s.view
           /\ handlePrecommit(s, m) = respondToPreCommitJust(s, j)
      BY <1>2, <1>5, RespondToPreCommitFact
<1>6. QED
      BY <1>3, <1>4, <1>5 DEF handlePrecommit, s1, j

(* A commit certificate shows that a quorum has stored the block.          *)
LEMMA CommitCertificate ==
    ASSUME NEW K, NEW d, NEW m, CommitSound(K, d, m),
           Cardinality(m.signs) = QSize, verify(m.signs, m.rdata)
    PROVE  m.rdata.proph = HashOf(K, m.rdata.propv) /\ Kept(K, m.rdata.propv)
<1>1. VotesSound(K, m.signs)
      BY DEF CommitSound, CertSound
<1>2. /\ Cardinality(getSigners(m.signs)) = QSize
      /\ getSigners(m.signs) \subseteq PID
      /\ m.rdata.proph = HashOf(K, m.rdata.propv)
      BY <1>1, CertificateFact
<1>3. getSigners(m.signs) \subseteq {i \in PID : m.rdata.propv \in K.stored[i]}
      BY <1>2 DEF CommitSound, verify, getSigners
<1>4. QED
      BY <1>2, <1>3, CardinalityMonotonic, QuorumSizes DEF Kept

(* handleCommit keeps the replica sound.                                   *)
LEMMA HandleCommitFact ==
    ASSUME NEW K, Sound(K), NEW n \in PID, NEW s, ReplicaSound(K, n, s),
           NEW m, CommitSound(K, n, m)
    PROVE  Leads(K, n, handleCommit(s, m))
<1> DEFINE v  == m.rdata.propv
           s1 == logVote(s, "commits", m)
<1>1. s.myid = n
      BY DEF ReplicaSound, BodySound, Shape
<1>2. ASSUME getLeaderOf(v) # n => verify(m.signs, m.rdata)
      PROVE  ReplicaSound(K, n, s1) /\ s1.view = s.view
      BY <1>2, LogCommitVote
<1> HIDE DEF s1
<1>3. CASE handleCommit(s, m) = s
      BY <1>3, LeadsWithout
<1>4. CASE /\ amLeaderOf(s, v) \/ verify(m.signs, m.rdata)
           /\ handleCommit(s, m) = s1
      BY <1>1, <1>2, <1>4, LeadsWithout DEF amLeaderOf
<1>5. CASE /\ amCurrentLeader(s) /\ v = s.view /\ m.rdata.phase = COMMIT
           /\ handleCommit(s, m) \in {s1, initiateCommit(s1, m.rdata)}
  <2>1. getLeaderOf(v) = n
        BY <1>1, <1>5 DEF amCurrentLeader, amLeaderOf
  <2>2. ReplicaSound(K, n, s1) /\ s1.view = s.view
        BY <1>2, <2>1
  <2>3. m.rdata.proph = HashOf(K, s.view)
    <3>1. ~Refusal(m)
          BY <1>5 DEF Refusal, NoJust, RData, NEWVIEW, COMMIT
    <3>2. PICK i \in PID : m.signs = {Signature(i, m.rdata)}
          BY <2>1, <3>1 DEF CommitSound
    <3>3. VoteSound(K, Signature(i, m.rdata))
          BY <3>2 DEF CommitSound, CertSound, VotesSound
    <3>4. QED
          BY <1>5, <3>3 DEF VoteSound, Signature
  <2>4. ReplicaSound(K, n, initiateCommit(s1, m.rdata))
        BY <1>5, <2>1, <2>2, <2>3, InitiateCommitFact
  <2>5. QED
        BY <1>5, <2>2, <2>4, LeadsWithout
<1>6. CASE /\ v = s.view /\ Cardinality(m.signs) = QSize
           /\ verify(m.signs, m.rdata)
           /\ handleCommit(s, m) = executeRData(s, m.rdata)
  <2>1. m.rdata.proph = HashOf(K, s.view) /\ Kept(K, s.view)
        BY <1>6, CommitCertificate
  <2>2. ReplicaSound(K, n, executeRData(s, m.rdata))
        BY <2>1, ExecuteFact
  <2>3. QED
        BY <1>6, <2>2, LeadsWithout
<1>7. QED
      BY <1>3, <1>4, <1>5, <1>6 DEF handleCommit, s1

-----------------------------------------------------------------------------
(* Changing views.                                                         *)

(* Where the log has a quorum of signatures there is a message.            *)
LEMMA FullFact ==
    ASSUME NEW msgs, NEW v, Full(msgs, v)
    PROVE  InView(msgs, v) # {}
<1>1. get(msgs, v, QSize) # {}
      BY QuorumMember, QuorumSizes DEF Full
<1>2. QED
      BY <1>1, GetFact

(* firstPrepare and firstPrecommit return votes of the view.               *)
LEMMA FirstVoteFact ==
    ASSUME NEW K, NEW type \in {"prepare", "precommit", "commit"},
           NEW msgs, IsFiniteSet(msgs), \A m \in msgs : CertSound(K, type, m),
           NEW v, InView(msgs, v) # {}
    PROVE  \E m \in msgs : /\ first(msgs, v) = Just(m.rdata, m.signs)
                          /\ m.rdata.propv = v /\ VotesSound(K, m.signs)
<1>1. \A m \in msgs : Signed(m) /\ ViewOf(m) = m.rdata.propv
                          /\ VotesSound(K, m.signs)
      BY VoteSigned, CertViewOf DEF CertSound
<1>2. PICK m \in InView(msgs, v) : first(msgs, v) = Just(m.rdata, m.signs)
      BY <1>1, FirstFact
<1>3. QED
      BY <1>1, <1>2 DEF InView

(* Catching up from certificates in the log keeps the replica sound.       *)
LEMMA CatchUpFact ==
    ASSUME NEW K, Sound(K), NEW n \in PID, NEW s, ReplicaSound(K, n, s),
           getLeaderOf(s.view) # n, s.view # 0,
           Full(s.log.precommits, s.view)
    PROVE  Leads(K, n, catchUp(s))
<1> DEFINE a  == skipPhase(s)
           b  == skipPhase(a)
           j  == first(s.log.precommits, s.view)
           s1 == respondToPreCommitJust(b, j)
           c  == first(s.log.commits, s.view)
<1>1. /\ LogSound(K, n, s.log)
      /\ IsFiniteSet(s.log.precommits) /\ IsFiniteSet(s.log.commits)
      BY DEF ReplicaSound, BodySound, LogSound
<1>2. PICK A : Sound(A) /\ Grows(K, n, A) /\ ReplicaSound(A, n, a)
      BY SkipFact DEF Leads
<1>3. PICK B : Sound(B) /\ Grows(A, n, B) /\ ReplicaSound(B, n, b)
      BY <1>2, SkipFact DEF Leads
<1>4. b.view = s.view
      BY <1>2, SkipFact
<1>5. Grows(K, n, B)
      BY <1>2, <1>3, GrowsTransitive
<1>6. VotesSound(K, j.signs) /\ j.rdata.propv = s.view
  <2>1. PICK m \in s.log.precommits :
            j = Just(m.rdata, m.signs) /\ m.rdata.propv = s.view
                /\ VotesSound(K, m.signs)
    <3>1. \A m \in s.log.precommits : CertSound(K, "precommit", m)
          BY <1>1 DEF LogSound
    <3>2. InView(s.log.precommits, s.view) # {}
          BY FullFact
    <3>3. QED
          BY <1>1, <3>1, <3>2, FirstVoteFact
  <2>2. QED
        BY <2>1 DEF Just
<1> HIDE DEF a, b, j
<1>7. VotesSound(B, j.signs)
      BY <1>5, <1>6, VotesGrow
<1>8. Leads(B, n, s1) /\ s1.view = s.view
      BY <1>3, <1>4, <1>6, <1>7, RespondToPreCommitFact
<1>9. PICK L : Sound(L) /\ Grows(B, n, L) /\ ReplicaSound(L, n, s1)
      BY <1>8 DEF Leads
<1>10. Grows(K, n, L)
       BY <1>5, <1>9, GrowsTransitive
<1> HIDE DEF s1
<1>11. CASE Full(s.log.commits, s.view)
  <2>1. PICK m \in s.log.commits : c = Just(m.rdata, m.signs)
                                      /\ m.rdata.propv = s.view
    <3>1. \A m \in s.log.commits : CertSound(K, "commit", m)
          BY <1>1 DEF LogSound, CommitSound
    <3>2. InView(s.log.commits, s.view) # {}
          BY <1>11, FullFact
    <3>3. QED
          BY <1>1, <3>1, <3>2, FirstVoteFact
  <2>2. CommitSound(K, n, m) /\ verify(m.signs, m.rdata)
        BY <1>1, <2>1 DEF LogSound
  <2>3. Cardinality(m.signs) = QSize
    <3>1. ~Refusal(m)
          BY <2>1 DEF Refusal, NoJust, RData
    <3>2. QED
          BY <2>1, <2>2, <3>1 DEF CommitSound
  <2>4. m.rdata.proph = HashOf(K, s.view) /\ Kept(K, s.view)
        BY <2>1, <2>2, <2>3, CommitCertificate
  <2>5. s.view \in DOMAIN K.proposed
    <3>1. {i \in PID : s.view \in K.stored[i]} # {}
          BY <2>4, QuorumMember DEF Kept
    <3>2. QED
          BY <3>1 DEF Sound, StoredSound, VotedSound
  <2>6. m.rdata.proph = HashOf(L, s.view) /\ Kept(L, s.view)
        BY <1>10, <2>4, <2>5, GrowsFact
  <2>7. c.rdata = m.rdata
        BY <2>1 DEF Just
  <2> HIDE DEF c
  <2>8. ReplicaSound(L, n, executeRData(s1, c.rdata))
        BY <1>8, <1>9, <2>6, <2>7, ExecuteFact
  <2>9. catchUp(s) = executeRData(s1, c.rdata)
        BY <1>11 DEF catchUp, s1, b, a, j, c
  <2>10. QED
         BY <1>9, <1>10, <2>8, <2>9 DEF Leads
<1>12. CASE ~Full(s.log.commits, s.view)
  <2>1. catchUp(s) = s1
        BY <1>12 DEF catchUp, s1, b, a, j
  <2>2. QED
        BY <1>9, <1>10, <2>1 DEF Leads
<1>13. QED
       BY <1>11, <1>12

(* handleEarlierMessages keeps the replica sound.                          *)
LEMMA HandleEarlierFact ==
    ASSUME NEW K, Sound(K), NEW n \in PID, NEW s, ReplicaSound(K, n, s),
           s.view # 0,
           getLeaderOf(s.view) = n => s.view \notin DOMAIN K.proposed
    PROVE  Leads(K, n, handleEarlierMessages(s))
<1> DEFINE v == s.view
           u == handleEarlierMessages(s)
<1>1. /\ LogSound(K, n, s.log) /\ IsFiniteSet(s.log.newviews)
      /\ IsFiniteSet(s.log.prepares) /\ IsFiniteSet(s.log.proposals)
      BY DEF ReplicaSound, BodySound, LogSound
<1>2. amCurrentLeader(s) <=> getLeaderOf(v) = n
      BY DEF amCurrentLeader, amLeaderOf, ReplicaSound, BodySound, Shape
<1>3. CASE u = s
      BY <1>3, LeadsWithout
<1>4. CASE amCurrentLeader(s) /\ Full(s.log.newviews, v) /\ u = prepare(s)
  <2>1. \A m \in s.log.newviews : \E g : m.signs = {g}
        BY <1>1 DEF LogSound, NewviewSound
  <2>2. Cardinality(InView(s.log.newviews, v)) >= QSize
        BY <1>1, <1>4, <2>1, GetSingles DEF Full
  <2>3. QED
        BY <1>2, <1>4, <2>2, ProposeFact
<1>5. CASE ~amCurrentLeader(s) /\ Full(s.log.precommits, v) /\ u = catchUp(s)
      BY <1>2, <1>5, CatchUpFact
<1>6. CASE /\ Full(s.log.prepares, v)
           /\ u = respondToPrepareJust(skipPhase(s), first(s.log.prepares, v))
  <2> DEFINE a == skipPhase(s)
             j == first(s.log.prepares, v)
  <2>1. PICK A : Sound(A) /\ Grows(K, n, A) /\ ReplicaSound(A, n, a)
        BY SkipFact DEF Leads
  <2>2. a.view = v
        BY SkipFact
  <2>3. VotesSound(K, j.signs) /\ j.rdata.propv = v
    <3>1. PICK m \in s.log.prepares :
              j = Just(m.rdata, m.signs) /\ m.rdata.propv = v
                  /\ VotesSound(K, m.signs)
      <4> DEFINE msgs == s.log.prepares
      <4>1. IsFiniteSet(msgs) /\ \A m \in msgs : CertSound(K, "prepare", m)
            BY <1>1 DEF LogSound
      <4>2. InView(msgs, v) # {}
            BY <1>6, FullFact
      <4> HIDE DEF msgs, u, v, a
      <4>3. \E m \in msgs : /\ first(msgs, v) = Just(m.rdata, m.signs)
                            /\ m.rdata.propv = v /\ VotesSound(K, m.signs)
            BY <4>1, <4>2, FirstVoteFact
      <4>4. QED
            BY <4>3 DEF msgs
    <3>2. QED
          BY <3>1 DEF Just
  <2> HIDE DEF a, j
  <2>4. VotesSound(A, j.signs)
        BY <2>1, <2>3, VotesGrow
  <2>5. Leads(A, n, respondToPrepareJust(a, j))
        BY <2>1, <2>2, <2>3, <2>4, RespondToPrepareFact
  <2>6. QED
        BY <1>6, <2>1, <2>5, LeadsOn DEF a, j
<1>7. ASSUME NEW m \in firstProposal(s.log.proposals, v),
             u = respondToProposal(s, m.just, m.block)
      PROVE  Leads(K, n, u)
  <2> DEFINE here == InView(s.log.proposals, v)
  <2>1. here # {} /\ m = FirstMsg(here)
        BY <1>7 DEF firstProposal
  <2>2. IsFiniteSet(here) /\ here \subseteq s.log.proposals
        BY <1>1, InViewFinite
  <2>3. \A k \in s.log.proposals : ProposalSound(K, k)
        BY <1>1 DEF LogSound
  <2>4. \A k \in here : Signed(k)
        BY <2>2, <2>3 DEF ProposalSound
  <2>5. m \in here
        BY <2>1, <2>2, <2>4, FirstMsgFact
  <2>6. ProposalSound(K, m) /\ m.just.rdata.propv = v
        BY <2>2, <2>3, <2>5, ViewOfFact DEF InView
  <2>7. QED
        BY <1>7, <2>6, RespondToProposalFact
<1>8. \/ u = s
      \/ amCurrentLeader(s) /\ Full(s.log.newviews, v) /\ u = prepare(s)
      \/ ~amCurrentLeader(s) /\ Full(s.log.precommits, v) /\ u = catchUp(s)
      \/ /\ Full(s.log.prepares, v)
         /\ u = respondToPrepareJust(skipPhase(s), first(s.log.prepares, v))
      \/ \E m \in firstProposal(s.log.proposals, v) :
            u = respondToProposal(s, m.just, m.block)
  <2> DEFINE proposal == {m \in firstProposal(s.log.proposals, v) :
                              Cardinality(m.signs) = 1}
             m == CHOOSE m \in proposal : TRUE
  <2>1. CASE amCurrentLeader(s)
        BY <2>1 DEF handleEarlierMessages
  <2>2. CASE ~amCurrentLeader(s) /\ Full(s.log.precommits, v)
        BY <2>2 DEF handleEarlierMessages
  <2>3. CASE ~amCurrentLeader(s) /\ ~Full(s.log.precommits, v)
                 /\ Full(s.log.prepares, v)
        BY <2>3 DEF handleEarlierMessages
  <2>4. CASE ~amCurrentLeader(s) /\ ~Full(s.log.precommits, v)
                 /\ ~Full(s.log.prepares, v)
    <3>1. u = IF proposal = {} THEN s
              ELSE respondToProposal(s, m.just, m.block)
          BY <2>4 DEF handleEarlierMessages
    <3>2. proposal # {} => m \in proposal
          OBVIOUS
    <3>3. proposal \subseteq firstProposal(s.log.proposals, v)
          OBVIOUS
    <3> HIDE DEF proposal, m, u
    <3>4. QED
          BY <3>1, <3>2, <3>3
  <2>5. QED
        BY <2>1, <2>2, <2>3, <2>4
<1>9. QED
      BY <1>3, <1>4, <1>5, <1>6, <1>7, <1>8

(* What a trusted component signs in the new-view phase of a view reports  *)
(* the block that it is locked on, which is of an earlier view.            *)
LEMMA ReportedLock ==
    ASSUME NEW K, Sound(K), NEW n \in PID, NEW t, ComponentSound(K, n, t),
           NEW w \in Nat, Stamp(t.view, t.phase) <= Stamp(w, NEWVIEW)
    PROVE  ReportSound(K, RData(Dummy, w, t.preph, t.prepv, NEWVIEW))
<1> DEFINE rd == RData(Dummy, w, t.preph, t.prepv, NEWVIEW)
<1>1. /\ rd.propv = w /\ rd.justv = t.lockv /\ rd.justh = t.lockh
      BY DEF RData, ComponentSound
<1> HIDE DEF rd
<1>2. t.lockv \in Nat /\ t.view \in Nat /\ t.phase \in Phase
      BY LockFact
<1>3. CASE t.lockv = 0 /\ t.lockh = Genesis
      BY <1>1, <1>2, <1>3 DEF ReportSound, rd
<1>4. CASE t.lockv \in K.stored[n] /\ t.lockh = HashOf(K, t.lockv)
  <2>1. Certified(K, t.lockv)
        BY <1>4 DEF Sound, StoredSound
  <2>2. Stamp(t.lockv, NEWVIEW) < Stamp(t.view, t.phase)
        BY <1>4 DEF ComponentSound
  <2>3. t.lockv < w
        BY <1>2, <2>2 DEF Stamp, NEWVIEW, Phase, PREPARE, PRECOMMIT, COMMIT
  <2>4. QED
        BY <1>1, <1>2, <1>4, <2>1, <2>3 DEF ReportSound, rd
<1>5. QED
      BY <1>3, <1>4 DEF ComponentSound

(* The message that carries the signed lock is a sound new-view message.   *)
LEMMA NewviewFact ==
    ASSUME NEW K, NEW n \in PID, NEW rd, rd.propv \in Nat,
           rd.phase = NEWVIEW => ReportSound(K, rd),
           NEW j, j = Just(rd, {Signature(n, rd)})
    PROVE  NewviewSound(K, MsgNewView(j))
BY DEF NewviewSound, MsgNewView, Msg, Just

(* startNewView keeps the replica sound.                                   *)
LEMMA StartNewViewFact ==
    ASSUME NEW K, Sound(K), NEW n \in PID, NEW s, ReplicaSound(K, n, s)
    PROVE  Leads(K, n, startNewView(s))
<1> DEFINE r  == TEEsignPast(n, s.tf, s.view)
           s1 == setTimer([s EXCEPT !.tf = r.tee, !.view = @ + 1,
                                    !.pending = "none"])
           m  == MsgNewView(r.just)
<1>1. /\ s.myid = n /\ s.view \in Nat /\ DOMAIN s = Fields
      /\ ComponentSound(K, n, s.tf) /\ BodySound(K, n, s)
      BY DEF ReplicaSound, BodySound, Shape
<1>2. /\ DOMAIN s.tf = ComponentFields
      /\ s.tf.view \in Nat /\ s.tf.phase \in Phase
      BY <1>1, LockFact
<1>3. Later(s.tf, r.tee)
      BY <1>1, <1>2, SignPastFact
<1>4. PICK w \in Nat, p \in Phase :
          LET rd == RData(Dummy, w, s.tf.preph, s.tf.prepv, p)
          IN  /\ r.just = Just(rd, {Signature(n, rd)})
              /\ Stamp(s.tf.view, s.tf.phase) <= Stamp(w, p)
              /\ Stamp(w, p) < Stamp(r.tee.view, r.tee.phase)
      BY <1>1, <1>2, SignPastFact
<1> DEFINE rd == RData(Dummy, w, s.tf.preph, s.tf.prepv, p)
<1>5. r.just = Just(rd, {Signature(n, rd)}) /\ rd.propv = w /\ rd.phase = p
          /\ r.just.rdata = rd
      BY <1>4 DEF RData, Just
<1>6. p = NEWVIEW => ReportSound(K, rd)
      BY <1>1, <1>4, ReportedLock
<1>7. startNewView(s) =
          IF r.just.rdata.propv = s1.view /\ r.just.rdata.phase = NEWVIEW
          THEN IF amCurrentLeader(s1)
               THEN handleNewview(handleEarlierMessages(s1), m)
               ELSE handleEarlierMessages(send(s1, currentLeader(s1), m))
          ELSE s1
      BY <1>1 DEF startNewView
<1> HIDE DEF r, rd
<1>8. /\ DOMAIN s1 = Fields /\ s1.tf = r.tee /\ s1.view = s.view + 1
      /\ s1.myid = n /\ s1.log = s.log /\ s1.out = s.out
      /\ s1.executed = s.executed /\ s1.transactions = s.transactions
      /\ s1.fromClient = s.fromClient
      BY <1>1 DEF Fields, setTimer
<1> HIDE DEF s1, m
<1>9. PICK L : /\ Sound(L) /\ Grows(K, n, L) /\ L.proposed = K.proposed
               /\ ComponentSound(L, n, r.tee)
      BY <1>1, <1>3, ComponentMoves
<1>10. \A v \in DOMAIN L.proposed : getLeaderOf(v) = n => v <= s.view /\ v \in Nat
       BY <1>9 DEF ReplicaSound, LeaderSound, Sound, LedgerType
<1>11. ReplicaSound(L, n, s1)
  <2>1. BodySound(L, n, s)
        BY <1>1, <1>9, BodyGrows
  <2>2. BodySound(L, n, s1)
        BY <1>1, <1>8, <2>1 DEF BodySound, Shape
  <2>3. \A v \in DOMAIN L.proposed : getLeaderOf(v) = n =>
            v <= s1.view /\ Cardinality(InView(s1.log.newviews, v)) >= QSize
    <3>1. \A v \in DOMAIN L.proposed : getLeaderOf(v) = n => v <= s1.view
          BY <1>1, <1>8, <1>10
    <3>2. QED
          BY <1>8, <1>9, <3>1 DEF ReplicaSound, LeaderSound
  <2>4. QED
        BY <1>8, <1>9, <2>2, <2>3 DEF ReplicaSound, LeaderSound
<1>12. s1.view # 0
       BY <1>1, <1>8
<1>13. getLeaderOf(s1.view) = n => s1.view \notin DOMAIN L.proposed
       BY <1>1, <1>8, <1>10
<1>14. NewviewSound(L, m)
  <2>1. rd.phase = NEWVIEW => ReportSound(L, rd)
        BY <1>5, <1>6, <1>9, ReportGrows
  <2>2. QED
        BY <1>5, <2>1, NewviewFact DEF m
<1>15. CASE startNewView(s) = s1
       BY <1>9, <1>11, <1>15 DEF Leads
<1>16. CASE startNewView(s) = handleNewview(handleEarlierMessages(s1), m)
  <2> DEFINE u == handleEarlierMessages(s1)
  <2>1. PICK M : Sound(M) /\ Grows(L, n, M) /\ ReplicaSound(M, n, u)
        BY <1>9, <1>11, <1>12, <1>13, HandleEarlierFact DEF Leads
  <2>2. NewviewSound(M, m)
        BY <1>9, <1>14, <2>1, MessagesGrow
  <2> HIDE DEF u
  <2>3. Leads(M, n, handleNewview(u, m))
        BY <2>1, <2>2, HandleNewviewFact
  <2>4. QED
        BY <1>9, <1>16, <2>1, <2>3, LeadsOn DEF u
<1>17. CASE startNewView(s) =
                handleEarlierMessages(send(s1, currentLeader(s1), m))
  <2> DEFINE u == send(s1, currentLeader(s1), m)
  <2>1. \A d : MessageSound(L, d, m)
        BY <1>14 DEF MessageSound
  <2>2. /\ BodySound(L, n, u)
        /\ u.view = s1.view /\ u.tf = s1.tf /\ u.log = s1.log
        BY <1>11, <2>1, SendFact DEF ReplicaSound
  <2> HIDE DEF u
  <2>3. ReplicaSound(L, n, u)
        BY <1>11, <2>2 DEF ReplicaSound
  <2>4. Leads(L, n, handleEarlierMessages(u))
        BY <1>9, <1>12, <1>13, <2>2, <2>3, HandleEarlierFact
  <2>5. QED
        BY <1>9, <1>17, <2>4, LeadsOn DEF u
<1>18. QED
       BY <1>7, <1>15, <1>16, <1>17

(* getStarted keeps the replica sound.                                     *)
LEMMA GetStartedFact ==
    ASSUME NEW K, Sound(K), NEW n \in PID, NEW s, ReplicaSound(K, n, s)
    PROVE  Leads(K, n, getStarted(s))
<1> DEFINE t  == s.tf
           r  == TEEsign(n, t)
           rd == RData(Dummy, t.view, t.preph, t.prepv, t.phase)
           s1 == [s EXCEPT !.tf = r.tee]
           m  == MsgNewView(r.just)
<1>1. /\ s.myid = n /\ ComponentSound(K, n, t) /\ BodySound(K, n, s)
      BY DEF ReplicaSound, BodySound, Shape
<1>2. /\ DOMAIN t = ComponentFields /\ t.view \in Nat /\ t.phase \in Phase
      BY <1>1, LockFact
<1>3. Later(t, r.tee) /\ r.just = Just(rd, {Signature(n, rd)})
  <2>1. Later(t, r.tee)
        BY <1>2, SignFact DEF TEEsign
  <2>2. QED
        BY <2>1 DEF TEEsign, sign
<1>4. rd.propv = t.view /\ rd.phase = t.phase
      BY DEF RData
<1>5. rd.phase = NEWVIEW => ReportSound(K, rd)
  <2>1. Stamp(t.view, t.phase) <= Stamp(t.view, t.phase)
        BY <1>2, StampOrder
  <2>2. QED
        BY <1>1, <1>2, <1>4, <2>1, ReportedLock
<1>6. getStarted(s) = IF amCurrentLeader(s1) THEN handleNewview(s1, m)
                      ELSE send(s1, currentLeader(s1), m)
      BY <1>1 DEF getStarted
<1> HIDE DEF r, rd
<1>7. PICK L : /\ Sound(L) /\ Grows(K, n, L) /\ L.proposed = K.proposed
               /\ ComponentSound(L, n, r.tee)
      BY <1>1, <1>3, ComponentMoves
<1>8. BodySound(L, n, s1) /\ s1.view = s.view /\ s1.tf = r.tee /\ s1.log = s.log
  <2>1. BodySound(L, n, s)
        BY <1>1, <1>7, BodyGrows
  <2>2. QED
        BY <2>1, UpdateFact
<1> HIDE DEF s1
<1>9. ReplicaSound(L, n, s1)
  <2>1. LeaderSound(L, n, s1.view, s1.log.newviews)
        BY <1>7, <1>8 DEF ReplicaSound, LeaderSound
  <2>2. QED
        BY <1>7, <1>8, <2>1 DEF ReplicaSound
<1>10. NewviewSound(L, m)
  <2>1. rd.phase = NEWVIEW => ReportSound(L, rd)
        BY <1>5, <1>7, ReportGrows
  <2>2. QED
        BY <1>2, <1>3, <1>4, <2>1, NewviewFact
<1> HIDE DEF m
<1>11. CASE getStarted(s) = handleNewview(s1, m)
  <2>1. Leads(L, n, handleNewview(s1, m))
        BY <1>7, <1>9, <1>10, HandleNewviewFact
  <2>2. QED
        BY <1>7, <1>11, <2>1, LeadsOn
<1>12. CASE getStarted(s) = send(s1, currentLeader(s1), m)
  <2> DEFINE u == send(s1, currentLeader(s1), m)
  <2>1. \A d : MessageSound(L, d, m)
        BY <1>10 DEF MessageSound
  <2>2. /\ BodySound(L, n, u)
        /\ u.view = s1.view /\ u.tf = s1.tf /\ u.log = s1.log
        BY <1>9, <2>1, SendFact DEF ReplicaSound
  <2> HIDE DEF u
  <2>3. ReplicaSound(L, n, u)
        BY <1>9, <2>2 DEF ReplicaSound
  <2>4. QED
        BY <1>7, <1>12, <2>3 DEF Leads, u
<1>13. QED
       BY <1>6, <1>11, <1>12

-----------------------------------------------------------------------------
(* Steps.                                                                  *)

(* A replica moves and the ledger grows; the other replicas stay as they   *)
(* are.                                                                    *)
LEMMA ReplicaStep ==
    ASSUME NEW K, Sound(K), NEW w, DOMAIN w = PID,
           \A m \in PID : ReplicaSound(K, m, w[m]),
           NEW n \in PID, NEW s, Leads(K, n, s), node' = [w EXCEPT ![n] = s]
    PROVE  Accounted'
<1>1. PICK L : Sound(L) /\ Grows(K, n, L) /\ ReplicaSound(L, n, s)
      BY DEF Leads
<1>2. ASSUME NEW m \in PID PROVE ReplicaSound(L, m, node'[m])
  <2>1. CASE m = n
        BY <1>1, <2>1
  <2>2. CASE m # n
    <3>1. node'[m] = w[m]
          BY <2>2
    <3>2. QED
          BY <1>1, <2>2, <3>1, OthersGrow
  <2>3. QED
        BY <2>1, <2>2
<1>3. DOMAIN node' = PID
      OBVIOUS
<1>4. QED
      BY <1>1, <1>2, <1>3 DEF Accounted

(* The fields that the invariant does not speak of may change.             *)
LEMMA AgreeLeads ==
    ASSUME NEW K, Sound(K), NEW n \in PID, NEW s, ReplicaSound(K, n, s),
           NEW u, Agree(s, u), u.tf = s.tf
    PROVE  ReplicaSound(K, n, u) /\ Leads(K, n, u)
<1>1. ReplicaSound(K, n, u)
      BY AgreeFact DEF ReplicaSound, Agree
<1>2. QED
      BY <1>1, LeadsWithout

(* A message leaves a connection.                                          *)
LEMMA TakeFact ==
    ASSUME NEW K, NEW p \in PID, NEW s, ReplicaSound(K, p, s),
           NEW n \in PID, NEW k \in 1 .. Len(s.out[n])
    PROVE  ReplicaSound(K, p, [s EXCEPT !.out[n] = SubSeq(@, k + 1, Len(@))])
<1> DEFINE q    == s.out[n]
           rest == SubSeq(q, k + 1, Len(q))
           o    == [s.out EXCEPT ![n] = rest]
           u    == [s EXCEPT !.out = o]
<1>1. /\ DOMAIN s = Fields /\ OutSound(K, s.out) /\ BodySound(K, p, s)
      BY DEF ReplicaSound, BodySound, Shape
<1>2. u = [s EXCEPT !.out[n] = SubSeq(@, k + 1, Len(@))]
      OBVIOUS
<1>3. PICK Msgs : q \in Seq(Msgs)
      BY <1>1 DEF OutSound
<1>4. rest \in Seq(Msgs) /\ \A i \in DOMAIN rest : i + k \in DOMAIN q /\ rest[i] = q[i + k]
      BY <1>3
<1> HIDE DEF rest
<1>5. OutSound(K, o)
  <2>1. ASSUME NEW d \in PID
        PROVE  /\ \E M : o[d] \in Seq(M)
               /\ \A i \in DOMAIN o[d] : MessageSound(K, d, o[d][i])
    <3>1. CASE d = n
          BY <1>1, <1>4, <3>1 DEF OutSound
    <3>2. CASE d # n
      <4>1. o[d] = s.out[d]
            BY <3>2
      <4>2. QED
            BY <1>1, <4>1 DEF OutSound
    <3>3. QED
          BY <3>1, <3>2
  <2>2. DOMAIN o = PID
        BY <1>1 DEF OutSound
  <2>3. QED
        BY <2>1, <2>2 DEF OutSound
<1> HIDE DEF o
<1>6. /\ DOMAIN u = Fields /\ u.out = o /\ u.tf = s.tf /\ u.log = s.log
      /\ u.view = s.view /\ u.myid = s.myid /\ u.executed = s.executed
      /\ u.transactions = s.transactions /\ u.fromClient = s.fromClient
      BY <1>1 DEF Fields
<1> HIDE DEF u
<1>7. BodySound(K, p, u)
      BY <1>1, <1>5, <1>6 DEF BodySound, Shape
<1>8. ReplicaSound(K, p, u)
      BY <1>6, <1>7 DEF ReplicaSound
<1>9. QED
      BY <1>2, <1>8 DEF u

(* The next message on a connection is sound.                              *)
LEMMA UpcomingFact ==
    ASSUME NEW K, NEW p \in PID, ReplicaSound(K, p, node[p]),
           NEW n \in PID, node[p].out[n] # <<>>
    PROVE  /\ Upcoming(p, n) \in 1 .. Len(node[p].out[n])
           /\ MessageSound(K, n, node[p].out[n][Upcoming(p, n)])
<1>1. PICK Msgs : node[p].out[n] \in Seq(Msgs)
      BY DEF ReplicaSound, BodySound, OutSound
<1>2. Upcoming(p, n) \in DOMAIN node[p].out[n]
      BY <1>1, UpcomingPosition
<1>3. QED
      BY <1>1, <1>2 DEF ReplicaSound, BodySound, OutSound

(* A message leaves the sender's connection and its receiver moves.        *)
LEMMA ReceiveStep ==
    ASSUME NEW K, Sound(K), DOMAIN node = PID,
           \A m \in PID : ReplicaSound(K, m, node[m]),
           NEW p \in PID, NEW n \in PID, p # n, node[p].out[n] # <<>>,
           NEW s, Leads(K, n, s),
           node' = [node EXCEPT
                       ![p].out[n] = SubSeq(@, Upcoming(p, n) + 1, Len(@)),
                       ![n] = s]
    PROVE  Accounted'
<1> DEFINE k == Upcoming(p, n)
           w == [node EXCEPT ![p].out[n] = SubSeq(@, k + 1, Len(@))]
<1>1. k \in 1 .. Len(node[p].out[n])
      BY UpcomingFact
<1>2. ReplicaSound(K, p, w[p])
      BY <1>1, TakeFact
<1>3. \A m \in PID : ReplicaSound(K, m, w[m])
  <2>1. \A m \in PID : m # p => w[m] = node[m]
        OBVIOUS
  <2>2. QED
        BY <1>2, <2>1
<1>4. DOMAIN w = PID
      OBVIOUS
<1>5. node' = [w EXCEPT ![n] = s]
      OBVIOUS
<1> HIDE DEF w
<1>6. QED
      BY <1>3, <1>4, <1>5, ReplicaStep

(* A handler takes a message of its type off a connection; a paused        *)
(* replica drops the message.                                              *)
LEMMA DeliverStep ==
    ASSUME Accounted, NEW p \in PID, NEW n \in PID, Deliver(p, n)
    PROVE  Accounted'
<1> DEFINE m == node[p].out[n][Upcoming(p, n)]
           After(s) == node' = [node EXCEPT
               ![p].out[n] = SubSeq(@, Upcoming(p, n) + 1, Len(@)),
               ![n] = s]
<1>1. PICK K : Sound(K) /\ \A i \in PID : ReplicaSound(K, i, node[i])
      BY DEF Accounted
<1>2. p # n /\ node[p].out[n] # <<>> /\ DOMAIN node = PID
      BY DEF Accounted, Deliver, HandleNewview, HandleLdrPrepare,
             HandlePrepare, HandlePrecommit, HandleCommit, Receive, CanReceive
<1>3. MessageSound(K, n, m)
      BY <1>1, <1>2, UpcomingFact
<1>4. PICK s : /\ \/ s = node[n]
                  \/ m.type = "newview" /\ s = handleNewview(node[n], m)
                  \/ m.type = "ldrprepare" /\ s = handleLdrPrepare(node[n], m)
                  \/ m.type = "prepare" /\ s = handlePrepare(node[n], m)
                  \/ m.type = "precommit" /\ s = handlePrecommit(node[n], m)
                  \/ m.type = "commit" /\ s = handleCommit(node[n], m)
               /\ After(s)
      BY DEF Deliver, HandleNewview, HandleLdrPrepare,
             HandlePrepare, HandlePrecommit, HandleCommit, Receive
<1> HIDE DEF m
<1>5. Leads(K, n, s)
      BY <1>1, <1>3, <1>4, MessageByType, LeadsWithout, HandleNewviewFact,
         HandleLdrPrepareFact, HandlePrepareFact, HandlePrecommitFact,
         HandleCommitFact
<1>6. QED
      BY <1>1, <1>2, <1>4, <1>5, ReceiveStep

(* The steps of a replica on its own: the client's MsgStart, the tail call *)
(* of executeRData, the timer, a transaction, and pausing.                 *)
LEMMA OwnStep ==
    ASSUME Accounted, NEW n \in PID,
           \/ Start(n) \/ StartNewView(n) \/ Timeout(n)
           \/ HandleTransaction(n) \/ Pause(n) \/ Resume(n)
    PROVE  Accounted'
<1> DEFINE s == node[n]
<1>1. PICK K : Sound(K) /\ \A i \in PID : ReplicaSound(K, i, node[i])
      BY DEF Accounted
<1>2. DOMAIN node = PID
      BY DEF Accounted
<1>3. /\ ReplicaSound(K, n, s) /\ DOMAIN s = Fields
      /\ s.transactions \in Seq(Nat) /\ s.fromClient \in Seq(Nat)
      BY <1>1 DEF ReplicaSound, BodySound, Shape
<1>4. ASSUME NEW u, Leads(K, n, u), node' = [node EXCEPT ![n] = u]
      PROVE  Accounted'
      BY <1>1, <1>2, <1>4, ReplicaStep
<1>5. CASE Start(n)
  <2> DEFINE u == [s EXCEPT !.started = TRUE]
  <2>1. Agree(s, u) /\ u.tf = s.tf
        BY <1>3 DEF Agree, Fields
  <2>2. node' = [node EXCEPT ![n] = getStarted(u)]
        BY <1>5 DEF Start
  <2> HIDE DEF u
  <2>3. Leads(K, n, getStarted(u))
        BY <1>1, <2>1, AgreeLeads, GetStartedFact
  <2>4. QED
        BY <1>4, <2>2, <2>3
<1>6. CASE StartNewView(n)
  <2>1. node' = [node EXCEPT ![n] = startNewView(s)]
        BY <1>6 DEF StartNewView
  <2>2. QED
        BY <1>1, <1>4, <2>1, StartNewViewFact
<1>7. CASE Timeout(n)
  <2> DEFINE u == [s EXCEPT !.stopped = TRUE, !.timer = FALSE]
  <2>1. Agree(s, u) /\ u.tf = s.tf
        BY <1>3 DEF Agree, Fields
  <2>2. \/ node' = [node EXCEPT ![n] = u]
        \/ node' = [node EXCEPT ![n] = startNewView(s)]
        BY <1>7 DEF Timeout, TimerExpires
  <2> HIDE DEF u
  <2>3. Leads(K, n, u) /\ Leads(K, n, startNewView(s))
        BY <1>1, <2>1, AgreeLeads, StartNewViewFact
  <2>4. QED
        BY <1>4, <2>2, <2>3
<1>8. CASE HandleTransaction(n)
  <2> DEFINE rest  == Tail(s.fromClient)
             queue == IF s.isPaused THEN s.transactions
                      ELSE Append(s.transactions, Head(s.fromClient))
             u == [s EXCEPT !.fromClient = rest, !.transactions = queue]
  <2>1. rest \in Seq(Nat) /\ queue \in Seq(Nat)
        BY <1>3, <1>8 DEF HandleTransaction
  <2>2. node' = [node EXCEPT ![n] = u]
        BY <1>8 DEF HandleTransaction
  <2> HIDE DEF rest, queue
  <2>3. /\ DOMAIN u = Fields /\ u.fromClient = rest /\ u.transactions = queue
        /\ u.tf = s.tf /\ u.log = s.log /\ u.view = s.view /\ u.myid = s.myid
        /\ u.executed = s.executed /\ u.out = s.out
        BY <1>3 DEF Fields
  <2> HIDE DEF u
  <2>4. BodySound(K, n, u)
        BY <1>3, <2>1, <2>3 DEF ReplicaSound, BodySound, Shape
  <2>5. ReplicaSound(K, n, u)
        BY <1>3, <2>3, <2>4 DEF ReplicaSound
  <2>6. QED
        BY <1>1, <1>4, <2>2, <2>5, LeadsWithout
<1>9. CASE Pause(n) \/ Resume(n)
  <2>1. PICK b \in BOOLEAN : node' = [node EXCEPT ![n] = [s EXCEPT !.isPaused = b]]
        BY <1>9 DEF Pause, Resume
  <2> DEFINE u == [s EXCEPT !.isPaused = b]
  <2>2. Agree(s, u) /\ u.tf = s.tf
        BY <1>3 DEF Agree, Fields
  <2> HIDE DEF u
  <2>3. Leads(K, n, u)
        BY <1>1, <2>2, AgreeLeads
  <2>4. QED
        BY <1>4, <2>1, <2>3 DEF u
<1>10. QED
       BY <1>5, <1>6, <1>7, <1>8, <1>9

-----------------------------------------------------------------------------
(* The initial state.                                                      *)

(* Nobody has voted.                                                       *)
NoVotes ==
    [proposed |-> <<>>, voted |-> [n \in PID |-> {}],
     stored |-> [n \in PID |-> {}], view |-> [n \in PID |-> 0]]

(* The ledger without entries is sound.                                    *)
LEMMA NoVotesFact == Sound(NoVotes)
<1> DEFINE K == NoVotes
<1>1. /\ DOMAIN K.proposed = {} /\ K.voted = [n \in PID |-> {}]
      /\ K.stored = [n \in PID |-> {}] /\ K.view = [n \in PID |-> 0]
      BY DEF NoVotes
<1>2. \A v : ~Certified(K, v)
  <2>1. \A v : {n \in PID : v \in K.voted[n]} = {}
        BY <1>1
  <2>2. QED
        BY <2>1, QuorumMember DEF Certified
<1> HIDE DEF K
<1>3. LedgerType(K)
      BY <1>1 DEF LedgerType
<1>4. VotedSound(K) /\ StoredSound(K) /\ LocksSound(K)
      BY <1>1 DEF VotedSound, StoredSound, LocksSound
<1>5. ChainSound(K)
      BY <1>2 DEF ChainSound
<1>6. QED
      BY <1>3, <1>4, <1>5 DEF Sound, K

(* The replicas, as constructed, are accounted for by it.                  *)
LEMMA InitAccounted == Init => Accounted
<1> SUFFICES ASSUME Init PROVE Accounted
    OBVIOUS
<1> DEFINE K == NoVotes
<1>1. /\ DOMAIN K.proposed = {} /\ K.voted = [n \in PID |-> {}]
      /\ K.stored = [n \in PID |-> {}] /\ K.view = [n \in PID |-> 0]
      BY DEF NoVotes
<1> HIDE DEF K
<1>2. ASSUME NEW n \in PID PROVE ReplicaSound(K, n, node[n])
  <2> DEFINE s == node[n]
  <2>1. s = withFields(ReplicaInit(n, 0),
                       [tf |-> TrustedFunInit, log |-> LogInit, blocks |-> <<>>])
        BY DEF Init
  <2>2. /\ DOMAIN s = Fields
        /\ s.myid = n /\ s.view = 0 /\ s.transactions = <<>>
        /\ s.fromClient = fromClientTo(n, 0) /\ s.executed = <<>>
        /\ s.out = [m \in PID |-> <<>>] /\ s.tf = TrustedFunInit
        /\ s.log = LogInit
        BY <2>1 DEF withFields, ReplicaInit, Fields
  <2> HIDE DEF s
  <2>3. Shape(n, s)
        BY <2>2, ClientDeals DEF Shape
  <2>4. LogSound(K, n, s.log)
    <3>1. /\ DOMAIN s.log = {"newviews", "prepares", "precommits", "commits",
                             "proposals"}
          /\ \A k \in DOMAIN s.log : s.log[k] = {}
          BY <2>2 DEF LogInit
    <3>2. IsFiniteSet({})
          BY FS_EmptySet
    <3>3. QED
          BY <3>1, <3>2 DEF LogSound
  <2>5. OutSound(K, s.out)
        BY <2>2 DEF OutSound
  <2>6. ExecutedSound(K, s.executed)
        BY <2>2 DEF ExecutedSound
  <2>7. ComponentSound(K, n, s.tf)
        BY <1>1, <2>2 DEF ComponentSound, TrustedFunInit, Phase
  <2>8. LeaderSound(K, n, s.view, s.log.newviews)
        BY <1>1 DEF LeaderSound
  <2>9. QED
        BY <2>3, <2>4, <2>5, <2>6, <2>7, <2>8 DEF ReplicaSound, BodySound, s
<1>3. DOMAIN node = PID
      BY DEF Init
<1>4. QED
      BY <1>2, <1>3, NoVotesFact DEF Accounted, K

-----------------------------------------------------------------------------
(* The invariant and what follows from it.                                 *)

(* The invariant is inductive.                                             *)
LEMMA NextAccounted == Accounted /\ [Next]_vars => Accounted'
<1> SUFFICES ASSUME Accounted, [Next]_vars PROVE Accounted'
    OBVIOUS
<1>1. CASE Next
      BY <1>1, OwnStep, DeliverStep DEF Next, Step
<1>2. CASE UNCHANGED vars
      BY <1>2 DEF vars, Accounted
<1>3. QED
      BY <1>1, <1>2

(* Every reachable state is accounted for by a ledger.                     *)
THEOREM AlwaysAccounted == Spec => []Accounted
BY InitAccounted, NextAccounted, PTL DEF Spec

(* Executed blocks are kept by a quorum, so that of two of them the later  *)
(* extends the earlier one.                                                *)
LEMMA AccountedAgreement == Accounted => Agreement
<1> SUFFICES ASSUME Accounted,
                    NEW n \in PID, NEW m \in PID,
                    NEW e \in Executed(n), NEW f \in Executed(m)
             PROVE  IsPrefix(e.hash, f.hash) \/ IsPrefix(f.hash, e.hash)
    BY DEF Agreement
<1>1. PICK K : Sound(K) /\ \A i \in PID : ReplicaSound(K, i, node[i])
      BY DEF Accounted
<1>2. /\ e.view \in DOMAIN K.proposed /\ e.hash = HashOf(K, e.view) /\ Kept(K, e.view)
      /\ f.view \in DOMAIN K.proposed /\ f.hash = HashOf(K, f.view) /\ Kept(K, f.view)
      BY <1>1 DEF ReplicaSound, BodySound, ExecutedSound, Executed
<1>3. e.view \in Nat /\ f.view \in Nat /\ e.hash \in Chain /\ f.hash \in Chain
      BY <1>1, <1>2, HashFact
<1>4. ASSUME NEW v, Kept(K, v)
      PROVE  Certified(K, v) /\ Cardinality(Open(K, v)) >= QSize
  <2>1. {i \in PID : v \in K.stored[i]} \subseteq {i \in PID : v \in K.voted[i]}
        BY <1>1 DEF Sound, StoredSound
  <2>2. {i \in PID : v \in K.stored[i]} \subseteq Open(K, v)
        BY DEF Open
  <2>3. QED
        BY <1>4, <2>1, <2>2, CardinalityMonotonic DEF Kept, Certified, Open
<1>5. CASE e.view = f.view
      BY <1>2, <1>3, <1>5, PrefixOrder
<1>6. CASE e.view < f.view
      BY <1>1, <1>2, <1>3, <1>4, <1>6 DEF Sound, ChainSound
<1>7. CASE f.view < e.view
      BY <1>1, <1>2, <1>3, <1>4, <1>7 DEF Sound, ChainSound
<1>8. QED
      BY <1>3, <1>5, <1>6, <1>7

(* No two replicas ever execute conflicting blocks.                        *)
THEOREM NoConflict == Spec => []Agreement
BY AlwaysAccounted, AccountedAgreement, PTL

(* The replicas of the quorum that has stored a certificate of an executed *)
(* block are locked on it or on a block certified later.                   *)
LEMMA AccountedLocked == Accounted => ExecutedLocked
<1> SUFFICES ASSUME Accounted, NEW n \in PID, NEW e \in Executed(n)
             PROVE  Cardinality({i \in PID :
                        /\ node[i].tf.lockv >= e.view
                        /\ IsPrefix(e.hash, node[i].tf.lockh)}) >= QSize
    BY DEF ExecutedLocked
<1> DEFINE Locked == {i \in PID : /\ node[i].tf.lockv >= e.view
                                  /\ IsPrefix(e.hash, node[i].tf.lockh)}
<1>1. PICK K : Sound(K) /\ \A i \in PID : ReplicaSound(K, i, node[i])
      BY DEF Accounted
<1>2. e.view \in DOMAIN K.proposed /\ e.hash = HashOf(K, e.view) /\ Kept(K, e.view)
      BY <1>1 DEF ReplicaSound, BodySound, ExecutedSound, Executed
<1>3. e.view \in Nat /\ e.hash \in Chain
      BY <1>1, <1>2, HashFact
<1>4. Cardinality(Open(K, e.view)) >= QSize
  <2>1. {i \in PID : e.view \in K.stored[i]} \subseteq Open(K, e.view)
        BY DEF Open
  <2>2. QED
        BY <1>2, <2>1, CardinalityMonotonic DEF Kept, Open
<1>5. ASSUME NEW i \in PID, e.view \in K.stored[i]
      PROVE  node[i].tf.lockv >= e.view /\ IsPrefix(e.hash, node[i].tf.lockh)
  <2> DEFINE t == node[i].tf
  <2>1. ComponentSound(K, i, t)
        BY <1>1 DEF ReplicaSound
  <2> HIDE DEF t
  <2>2. /\ t.lockv \in Nat /\ e.view <= t.lockv
        /\ t.lockv \in K.stored[i] /\ t.lockh = HashOf(K, t.lockv)
        BY <1>5, <2>1 DEF ComponentSound
  <2>3. Certified(K, t.lockv)
        BY <1>1, <2>2 DEF Sound, StoredSound
  <2>4. IsPrefix(e.hash, t.lockh)
    <3>1. CASE e.view = t.lockv
          BY <1>2, <1>3, <2>2, <3>1, PrefixOrder
    <3>2. CASE e.view < t.lockv
          BY <1>1, <1>2, <1>3, <1>4, <2>2, <2>3, <3>2 DEF Sound, ChainSound
    <3>3. QED
          BY <1>3, <2>2, <3>1, <3>2
  <2>5. QED
        BY <1>3, <2>2, <2>4 DEF t
<1>6. {i \in PID : e.view \in K.stored[i]} \subseteq Locked
      BY <1>5
<1>7. QED
      BY <1>2, <1>6, CardinalityMonotonic DEF Kept

(* Once a block is executed anywhere, the trusted components of a quorum   *)
(* stay locked on it or on a descendant (the lock that TEEstore sets and   *)
(* safenode compares with).                                                *)
THEOREM QuorumStaysLocked == Spec => []ExecutedLocked
BY AlwaysAccounted, AccountedLocked, PTL

-----------------------------------------------------------------------------
(* The trusted component as a signer, driven by the handlers.              *)

Counter(t) == Stamp(t.view, t.phase)

(* A component in order: what it has signed lies below its counter.        *)
InOrder(t) ==
    /\ DOMAIN t = ComponentFields
    /\ t.view \in Nat /\ t.phase \in Phase
    /\ \A r \in t.signed : StampOf(r) \in Nat /\ StampOf(r) < Counter(t)

(* From t to u a component passes values of its counter and signs one      *)
(* statement at each of them.                                              *)
Passes(t, u) ==
    LET new    == u.signed \ t.signed
        passed == Counter(t) .. Counter(u) - 1
    IN  /\ InOrder(u) /\ t.signed \subseteq u.signed
        /\ Counter(t) <= Counter(u)
        /\ \A r \in new : StampOf(r) \in passed
        /\ \A r1, r2 \in new : StampOf(r1) = StampOf(r2) => r1 = r2
        /\ \A c \in passed : \E r \in new : StampOf(r) = c

(* The component refuses, or answers once in view v.                       *)
Answers(t, u, v) ==
    /\ Passes(t, u)
    /\ \/ Counter(u) = Counter(t)
       \/ t.view = v /\ Counter(u) = Counter(t) + 1

(* The component of a replica in view v is at most one phase into v + 1.   *)
Within(v, t) == Counter(t) <= Stamp(v + 1, NEWVIEW)

(* The counter is a natural number (TrustedFun's view and phase).          *)
LEMMA CounterFact ==
    ASSUME NEW t, InOrder(t)
    PROVE  /\ Counter(t) \in Nat
           /\ \A v \in Nat : t.view <= v => Counter(t) < Stamp(v + 1, NEWVIEW)
           /\ \A v \in Nat : v < t.view => Stamp(v + 1, NEWVIEW) <= Counter(t)
BY DEF InOrder, Counter, Stamp, Phase, NEWVIEW, PREPARE, PRECOMMIT, COMMIT

(* A refusal passes nothing, and calls follow each other (callTEEsign,     *)
(* callTEEprepare, callTEEstore).                                          *)
LEMMA PassesOn ==
    ASSUME NEW t, InOrder(t)
    PROVE  /\ Passes(t, t)
           /\ \A u, w : Passes(t, u) /\ Passes(u, w) => Passes(t, w)
<1>1. Passes(t, t)
      BY CounterFact DEF Passes
<1>2. ASSUME NEW u, NEW w, Passes(t, u), Passes(u, w) PROVE Passes(t, w)
  <2>1. /\ InOrder(u) /\ InOrder(w)
        /\ t.signed \subseteq u.signed /\ u.signed \subseteq w.signed
        BY <1>2 DEF Passes
  <2>2. /\ Counter(t) \in Nat /\ Counter(u) \in Nat /\ Counter(w) \in Nat
        /\ Counter(t) <= Counter(u) /\ Counter(u) <= Counter(w)
        BY <1>2, <2>1, CounterFact DEF Passes
  <2> DEFINE before == u.signed \ t.signed
             last  == w.signed \ u.signed
  <2>3. w.signed \ t.signed = before \cup last
        BY <2>1
  <2>4. /\ \A r \in before : StampOf(r) \in Counter(t) .. Counter(u) - 1
        /\ \A r \in last : StampOf(r) \in Counter(u) .. Counter(w) - 1
        BY <1>2 DEF Passes
  <2>5. \A r1, r2 \in before \cup last : StampOf(r1) = StampOf(r2) => r1 = r2
    <3>1. \A r1, r2 \in before : StampOf(r1) = StampOf(r2) => r1 = r2
          BY <1>2 DEF Passes
    <3>2. \A r1, r2 \in last : StampOf(r1) = StampOf(r2) => r1 = r2
          BY <1>2 DEF Passes
    <3>3. \A r1 \in before, r2 \in last : StampOf(r1) # StampOf(r2)
          BY <2>2, <2>4
    <3> HIDE DEF before, last
    <3>4. QED
          BY <3>1, <3>2, <3>3
  <2>6. \A c \in Counter(t) .. Counter(w) - 1 :
            \E r \in before \cup last : StampOf(r) = c
    <3>1. \A c \in Counter(t) .. Counter(u) - 1 : \E r \in before : StampOf(r) = c
          BY <1>2 DEF Passes
    <3>2. \A c \in Counter(u) .. Counter(w) - 1 : \E r \in last : StampOf(r) = c
          BY <1>2 DEF Passes
    <3>3. \A c \in Counter(t) .. Counter(w) - 1 :
              c \in Counter(t) .. Counter(u) - 1 \/ c \in Counter(u) .. Counter(w) - 1
          BY <2>2
    <3> HIDE DEF before, last
    <3>4. QED
          BY <3>1, <3>2, <3>3
  <2>7. \A r \in before \cup last : StampOf(r) \in Counter(t) .. Counter(w) - 1
        BY <2>2, <2>4
  <2>8. t.signed \subseteq w.signed /\ Counter(t) <= Counter(w)
        BY <2>1, <2>2
  <2> HIDE DEF before, last
  <2>9. QED
        BY <2>1, <2>3, <2>5, <2>6, <2>7, <2>8 DEF Passes
<1>3. QED
      BY <1>1, <1>2

(* A component that keeps its counter and its statements passes nothing    *)
(* (setPrep and setLock).                                                  *)
LEMMA PassesSame ==
    ASSUME NEW t, InOrder(t), NEW u, DOMAIN u = ComponentFields,
           u.view = t.view, u.phase = t.phase, u.signed = t.signed
    PROVE  InOrder(u) /\ Passes(t, u) /\ Counter(u) = Counter(t)
<1>1. InOrder(u) /\ Counter(u) = Counter(t)
      BY DEF InOrder, Counter
<1>2. QED
      BY <1>1, CounterFact DEF Passes

(* Signing puts one statement at the counter, which moves on by one.       *)
LEMMA SignPasses ==
    ASSUME NEW t, InOrder(t), NEW n, NEW h1, NEW h2, NEW v2
    PROVE  LET u == sign(n, t, h1, h2, v2).tee
           IN  Passes(t, u) /\ Counter(u) = Counter(t) + 1
<1> DEFINE rd == RData(h1, t.view, h2, v2, t.phase)
           x  == [t EXCEPT !.signed = @ \cup {rd}]
           r  == sign(n, t, h1, h2, v2)
           u  == r.tee
<1>1. /\ DOMAIN t = ComponentFields /\ t.view \in Nat /\ t.phase \in Phase
      BY DEF InOrder
<1>2. /\ DOMAIN u = ComponentFields /\ u.view \in Nat /\ u.phase \in Phase
      /\ Counter(u) = Counter(t) + 1
  <2>1. /\ r.just = Just(rd, {Signature(n, rd)})
        /\ Later(t, u)
        /\ Stamp(u.view, u.phase) = Stamp(t.view, t.phase) + 1
        BY <1>1, SignFact
  <2> HIDE DEF u
  <2>2. QED
        BY <2>1 DEF Later, Counter
<1>3. u.signed = t.signed \cup {rd}
  <2>1. u = increment(x)
        BY DEF sign
  <2>2. DOMAIN x = ComponentFields /\ x.signed = t.signed \cup {rd}
        BY <1>1 DEF ComponentFields
  <2> HIDE DEF x, rd, u
  <2>3. QED
        BY <2>1, <2>2 DEF increment, ComponentFields
<1>4. StampOf(rd) = Counter(t)
      BY DEF StampOf, Counter, RData
<1>5. Counter(t) \in Nat
      BY CounterFact
<1> HIDE DEF u, rd
<1>6. \A d \in t.signed : StampOf(d) \in Nat /\ StampOf(d) < Counter(t)
      BY DEF InOrder
<1>7. InOrder(u)
      BY <1>2, <1>3, <1>4, <1>5, <1>6 DEF InOrder
<1>8. u.signed \ t.signed = {rd}
      BY <1>3, <1>4, <1>5, <1>6
<1>9. Passes(t, u)
      BY <1>2, <1>3, <1>4, <1>5, <1>7, <1>8 DEF Passes
<1>10. QED
       BY <1>2, <1>9 DEF u

(* TEEsign answers at once.                                                *)
LEMMA TEEsignPasses ==
    ASSUME NEW t, InOrder(t), NEW n
    PROVE  LET r == TEEsign(n, t)
           IN  /\ Passes(t, r.tee) /\ Counter(r.tee) = Counter(t) + 1
               /\ r.just.signs = {Signature(n, r.just.rdata)}
               /\ r.just.rdata = RData(Dummy, t.view, t.preph, t.prepv, t.phase)
BY SignPasses DEF TEEsign, sign, Just

(* What a call of the component with data of view v returns.               *)
Returned(n, r, t, v) ==
    /\ Answers(t, r.tee, v)
    /\ r.just.rdata.propv \in {0, v}
    /\ r.just.signs = {} \/ r.just.signs = {Signature(n, r.just.rdata)}

(* A refusal (Just()).                                                     *)
LEMMA RefusePasses ==
    ASSUME NEW t, InOrder(t), NEW n, NEW v
    PROVE  Returned(n, Refuse(t), t, v)
BY PassesOn DEF Returned, Refuse, Answers, NoJust, RData

(* TEEprepare answers only to new-view data of the component's own view.   *)
LEMMA TEEpreparePasses ==
    ASSUME NEW t, InOrder(t), NEW n, NEW h, NEW j
    PROVE  Returned(n, TEEprepare(n, t, h, j), t, j.rdata.propv)
<1> DEFINE v == j.rdata.propv
           x == sign(n, t, h, j.rdata.justh, j.rdata.justv)
<1>1. CASE TEEprepare(n, t, h, j) = x /\ t.view = v
  <2>1. Passes(t, x.tee) /\ Counter(x.tee) = Counter(t) + 1
        BY SignPasses
  <2>2. x.just.rdata.propv = t.view /\ x.just.signs = {Signature(n, x.just.rdata)}
        BY DEF sign, Just, RData
  <2> HIDE DEF x
  <2>3. QED
        BY <1>1, <2>1, <2>2 DEF Returned, Answers
<1>2. CASE TEEprepare(n, t, h, j) = Refuse(t)
      BY <1>2, RefusePasses
<1>3. QED
      BY <1>1, <1>2 DEF TEEprepare

(* TEEstore answers only to certificates of the component's own view.      *)
LEMMA TEEstorePasses ==
    ASSUME NEW t, InOrder(t), NEW n, NEW j
    PROVE  Returned(n, TEEstore(n, t, j), t, j.rdata.propv)
<1> DEFINE v == j.rdata.propv
           u == record(t, j.rdata)
           x == sign(n, u, j.rdata.proph, Genesis, 0)
<1>1. CASE TEEstore(n, t, j) = x /\ t.view = v
  <2>1. /\ DOMAIN u = ComponentFields /\ u.view = t.view /\ u.phase = t.phase
        /\ u.signed = t.signed
        BY DEF record, InOrder, ComponentFields
  <2>2. x.just.rdata.propv = u.view /\ x.just.signs = {Signature(n, x.just.rdata)}
        BY DEF sign, Just, RData
  <2> HIDE DEF u
  <2>3. InOrder(u) /\ Passes(t, u) /\ Counter(u) = Counter(t)
        BY <2>1, PassesSame
  <2>4. Passes(u, x.tee) /\ Counter(x.tee) = Counter(u) + 1
        BY <2>3, SignPasses
  <2> HIDE DEF x
  <2>5. Passes(t, x.tee)
        BY <2>3, <2>4, PassesOn
  <2>6. QED
        BY <1>1, <2>1, <2>2, <2>3, <2>4, <2>5 DEF Returned, Answers
<1>2. CASE TEEstore(n, t, j) = Refuse(t)
      BY <1>2, RefusePasses
<1>3. QED
      BY <1>1, <1>2 DEF TEEstore, storable

(* The loop of startNewView passes everything up to the last stamp, and    *)
(* from within the view it ends in the first phase after the next new-view.*)
LEMMA TEEsignPastPasses ==
    ASSUME NEW t, InOrder(t), NEW n, NEW v \in Nat
    PROVE  LET r == TEEsignPast(n, t, v)
           IN  /\ Passes(t, r.tee)
               /\ Within(v, t) => Counter(r.tee) = Stamp(v + 1, PREPARE)
               /\ r.just.signs = {Signature(n, r.just.rdata)}
               /\ r.just.rdata.justv = t.prepv
<1> DEFINE last  == lastStamp(t, v)
           At(s) == RData(Dummy, s \div 4, t.preph, t.prepv, s % 4)
           more  == {At(s) : s \in Counter(t) .. last}
           u     == [t EXCEPT !.view = (last + 1) \div 4,
                              !.phase = (last + 1) % 4,
                              !.signed = @ \cup more]
           r     == TEEsignPast(n, t, v)
<1>1. r.tee = u /\ r.just = Just(At(last), {Signature(n, At(last))})
      BY DEF TEEsignPast, Counter
<1>2. \A s \in Int : StampOf(At(s)) = s
      BY DEF StampOf, Stamp, RData
<1>3. At(last).justv = t.prepv
      BY DEF RData
<1>4. /\ DOMAIN t = ComponentFields /\ t.view \in Nat /\ t.phase \in Phase
      BY DEF InOrder
<1>5. /\ last \in Nat /\ Counter(t) \in Nat /\ Counter(t) <= last
      /\ Within(v, t) => last = Stamp(v + 1, NEWVIEW)
  <2>1. CASE t.view > v
    <3>1. last = Counter(t)
          BY <2>1 DEF lastStamp, Counter
    <3>2. Stamp(v + 1, NEWVIEW) <= Counter(t)
          BY <1>4, <2>1, CounterFact
    <3>3. Stamp(v + 1, NEWVIEW) \in Nat
          BY DEF Stamp, NEWVIEW
    <3>4. QED
          BY <3>1, <3>2, <3>3, CounterFact DEF Within
  <2>2. CASE ~(t.view > v)
    <3>1. last = Stamp(v + 1, NEWVIEW)
          BY <2>2 DEF lastStamp
    <3>2. Counter(t) < Stamp(v + 1, NEWVIEW)
          BY <1>4, <2>2, CounterFact
    <3>3. Stamp(v + 1, NEWVIEW) \in Nat
          BY DEF Stamp, NEWVIEW
    <3>4. QED
          BY <3>1, <3>2, <3>3, CounterFact
  <2>3. QED
        BY <2>1, <2>2
<1> HIDE DEF last
<1>6. /\ DOMAIN u = ComponentFields /\ u.view = (last + 1) \div 4
      /\ u.phase = (last + 1) % 4 /\ u.signed = t.signed \cup more
      BY <1>4 DEF ComponentFields
<1> HIDE DEF u, r, At
<1>7. /\ u.view \in Nat /\ u.phase \in Phase /\ Counter(u) = last + 1
  <2>1. /\ (last + 1) \div 4 \in Nat /\ (last + 1) % 4 \in Phase
        /\ Stamp((last + 1) \div 4, (last + 1) % 4) = last + 1
        BY <1>5 DEF Stamp, Phase, NEWVIEW, PREPARE, PRECOMMIT, COMMIT
  <2>2. QED
        BY <1>6, <2>1 DEF Counter
<1>8. \A c \in Counter(t) .. last : At(c) \in more /\ StampOf(At(c)) = c
      BY <1>2, <1>5
<1>9. \A x \in more : StampOf(x) \in Counter(t) .. last /\ x = At(StampOf(x))
      BY <1>2, <1>5
<1>10. \A x \in t.signed : StampOf(x) \in Nat /\ StampOf(x) < Counter(t)
       BY DEF InOrder
<1> HIDE DEF more
<1>11. u.signed \ t.signed = more
       BY <1>5, <1>6, <1>9, <1>10
<1>12. InOrder(u)
       BY <1>5, <1>6, <1>7, <1>9, <1>10 DEF InOrder
<1>13. Passes(t, u)
       BY <1>5, <1>6, <1>7, <1>8, <1>9, <1>11, <1>12 DEF Passes
<1>14. Within(v, t) => Counter(u) = Stamp(v + 1, PREPARE)
       BY <1>5, <1>7 DEF Stamp, NEWVIEW, PREPARE
<1>15. QED
       BY <1>1, <1>3, <1>13, <1>14 DEF r, Just

-----------------------------------------------------------------------------
(* The replica that hosts the component.                                   *)

(* A message that map k of the log may hold.                               *)
Logged(k, m) ==
    /\ Signed(m)
    /\ ViewOf(m) = IF k = "proposals" THEN m.just.rdata.propv ELSE m.rdata.propv
    /\ k = "newviews" => m.rdata.justv \in Nat

Filed(log) ==
    /\ DOMAIN log = LogFields
    /\ \A k \in LogFields : IsFiniteSet(log[k]) /\ \A m \in log[k] : Logged(k, m)

Regular(s) ==
    /\ DOMAIN s = Fields
    /\ s.myid \in PID /\ s.view \in Nat
    /\ InOrder(s.tf) /\ Filed(s.log)

(* A handler, called in state s of its replica, gets to state u without    *)
(* leaving the view; the component passes values of its counter.           *)
Runs(s, u) ==
    /\ Regular(u)
    /\ u.myid = s.myid /\ u.view = s.view /\ u.started = s.started
    /\ Passes(s.tf, u.tf)

(* Moreover the component does not get ahead of its replica.               *)
Works(s, u) == Runs(s, u) /\ (Within(s.view, s.tf) => Within(u.view, u.tf))

(* Calls follow each other.                                                *)
LEMMA WorksOn ==
    ASSUME NEW s, Regular(s)
    PROVE  /\ Works(s, s)
           /\ \A u, w : Runs(s, u) /\ Runs(u, w) => Runs(s, w)
           /\ \A u, w : Works(s, u) /\ Works(u, w) => Works(s, w)
<1>1. Works(s, s)
      BY PassesOn DEF Works, Runs, Regular
<1>2. ASSUME NEW u, NEW w, Runs(s, u), Runs(u, w) PROVE Runs(s, w)
  <2>1. Passes(s.tf, w.tf)
        BY <1>2, PassesOn DEF Runs, Regular
  <2>2. QED
        BY <1>2, <2>1 DEF Runs
<1>3. QED
      BY <1>1, <1>2 DEF Works

(* A call that changes other fields, and in the component at most what one *)
(* answer to data of the current view changes.                             *)
LEMMA WorksBy ==
    ASSUME NEW s, Regular(s), NEW u, DOMAIN u = Fields, u.myid = s.myid,
           u.view = s.view, u.started = s.started, Filed(u.log),
           \/ u.tf = s.tf
           \/ \E v \in {0, s.view} : Answers(s.tf, u.tf, v)
    PROVE  Works(s, u)
<1>1. InOrder(s.tf) /\ s.view \in Nat
      BY DEF Regular
<1>2. Passes(s.tf, u.tf) /\ InOrder(u.tf)
      BY <1>1, PassesOn DEF Answers, Passes
<1>3. ASSUME Within(s.view, s.tf) PROVE Within(s.view, u.tf)
  <2>1. Counter(s.tf) \in Nat /\ Stamp(s.view + 1, NEWVIEW) \in Nat
        BY <1>1, CounterFact DEF Stamp, NEWVIEW
  <2>2. CASE u.tf = s.tf \/ Counter(u.tf) = Counter(s.tf)
        BY <1>3, <2>2 DEF Within
  <2>3. ASSUME NEW v \in {0, s.view}, s.tf.view = v,
               Counter(u.tf) = Counter(s.tf) + 1
        PROVE  Within(s.view, u.tf)
    <3>1. Counter(s.tf) < Stamp(s.view + 1, NEWVIEW)
          BY <1>1, <2>3, CounterFact
    <3>2. QED
          BY <2>1, <2>3, <3>1 DEF Within
  <2>4. QED
        BY <2>2, <2>3 DEF Answers
<1>4. Regular(u)
      BY <1>1, <1>2 DEF Regular
<1>5. QED
      BY <1>2, <1>3, <1>4 DEF Works, Runs

(* The same, for a change of a few fields (a record with EXCEPT).          *)
Keeps(s, u) ==
    /\ DOMAIN u = Fields
    /\ u.myid = s.myid /\ u.view = s.view /\ u.started = s.started
    /\ u.log = s.log

(* multicast_msg.                                                          *)
LEMMA SendKeeps ==
    ASSUME NEW s, DOMAIN s = Fields, NEW R, NEW m
    PROVE  Keeps(s, send(s, R, m)) /\ send(s, R, m).tf = s.tf
<1> DEFINE o == [d \in PID |-> IF d \in R THEN Append(s.out[d], m) ELSE s.out[d]]
<1> HIDE DEF o
<1>1. Keeps(s, [s EXCEPT !.out = o]) /\ [s EXCEPT !.out = o].tf = s.tf
      BY DEF Keeps, Fields
<1>2. QED
      BY <1>1 DEF send, o

(* Sending, and a call of the component.                                   *)
LEMMA SendAnswer ==
    ASSUME NEW s, Regular(s), NEW R, NEW m, NEW t,
           \/ t = s.tf
           \/ \E v \in {0, s.view} : Answers(s.tf, t, v)
    PROVE  LET u == [send(s, R, m) EXCEPT !.tf = t]
           IN  Works(s, u) /\ u.tf = t
<1> DEFINE w == send(s, R, m)
           u == [w EXCEPT !.tf = t]
<1>1. Keeps(s, w)
      BY SendKeeps DEF Regular
<1> HIDE DEF w
<1>2. Keeps(s, u) /\ u.tf = t
      BY <1>1 DEF Keeps, Fields
<1> HIDE DEF u
<1>3. Works(s, u)
      BY <1>2, WorksBy DEF Keeps, Regular
<1>4. QED
      BY <1>2, <1>3 DEF u, w

(* storeNv, storePrep, storePc, storeCom and storeProp.                    *)
LEMMA LogWorks ==
    ASSUME NEW s, Regular(s), NEW k \in LogFields, NEW m, Logged(k, m)
    PROVE  LET u == logVote(s, k, m)
           IN  Works(s, u) /\ u.tf = s.tf
<1> DEFINE new == storeVote(s, k, m).msgs
           log == [s.log EXCEPT ![k] = new]
           u   == [s EXCEPT !.log = log]
<1>1. IsFiniteSet(new) /\ \A i \in new : i \in s.log[k] \/ i = m
      BY StoreFact DEF storeVote, Regular, Filed
<1> HIDE DEF new
<1>2. Filed(log)
  <2>1. DOMAIN log = LogFields /\ \A i \in LogFields : i # k => log[i] = s.log[i]
        BY DEF Regular, Filed
  <2>2. log[k] = new
        BY DEF Regular, Filed
  <2> HIDE DEF log
  <2>3. QED
        BY <1>1, <2>1, <2>2 DEF Regular, Filed
<1>3. logVote(s, k, m) = u
      BY DEF logVote, new
<1> HIDE DEF log
<1>4. /\ DOMAIN u = Fields /\ u.myid = s.myid /\ u.view = s.view
      /\ u.started = s.started /\ u.log = log /\ u.tf = s.tf
      BY DEF Regular, Fields
<1> HIDE DEF u
<1>5. Works(s, u)
      BY <1>2, <1>4, WorksBy
<1>6. QED
      BY <1>3, <1>4, <1>5

-----------------------------------------------------------------------------
(* Looking up data in the log.                                             *)

(* findHighestNv returns data of the view, or Just().                      *)
LEMMA HighestData ==
    ASSUME NEW log, Filed(log), NEW v
    PROVE  findHighestNv(log.newviews, v).rdata.propv \in {0, v}
<1> DEFINE here == InView(log.newviews, v)
<1>1. /\ IsFiniteSet(log.newviews)
      /\ \A m \in log.newviews : /\ Signed(m) /\ ViewOf(m) = m.rdata.propv
                                 /\ m.rdata.justv \in Nat
      BY DEF Filed, Logged, LogFields
<1>2. CASE here = {}
      BY <1>2 DEF findHighestNv, NoJust, RData
<1>3. CASE here # {}
  <2>1. PICK m \in here : findHighestNv(log.newviews, v) = Just(m.rdata, m.signs)
        BY <1>1, <1>3, HighestFact
  <2>2. m.rdata.propv = v
        BY <1>1 DEF InView
  <2>3. QED
        BY <2>1, <2>2 DEF Just
<1>4. QED
      BY <1>2, <1>3

(* firstPrepare, firstPrecommit and firstCommit return data of the view,   *)
(* or Just().                                                              *)
LEMMA FirstData ==
    ASSUME NEW log, Filed(log), NEW k \in LogFields \ {"proposals"}, NEW v
    PROVE  first(log[k], v).rdata.propv \in {0, v}
<1> DEFINE here == InView(log[k], v)
<1>1. /\ IsFiniteSet(log[k])
      /\ \A m \in log[k] : Signed(m) /\ ViewOf(m) = m.rdata.propv
      BY DEF Filed, Logged
<1>2. CASE here = {}
      BY <1>2 DEF first, NoJust, RData
<1>3. CASE here # {}
  <2>1. PICK m \in here : first(log[k], v) = Just(m.rdata, m.signs)
        BY <1>1, <1>3, FirstFact
  <2>2. m.rdata.propv = v
        BY <1>1 DEF InView
  <2>3. QED
        BY <2>1, <2>2 DEF Just
<1>4. QED
      BY <1>2, <1>3

(* firstProposal returns a proposal of the view.                           *)
LEMMA FirstProposalData ==
    ASSUME NEW log, Filed(log), NEW v, NEW m \in firstProposal(log.proposals, v)
    PROVE  m.just.rdata.propv = v
<1> DEFINE here == InView(log.proposals, v)
<1>1. /\ IsFiniteSet(log.proposals)
      /\ \A k \in log.proposals : Signed(k) /\ ViewOf(k) = k.just.rdata.propv
      BY DEF Filed, Logged, LogFields
<1>2. here # {} /\ m = FirstMsg(here)
      BY DEF firstProposal
<1>3. IsFiniteSet(here) /\ here \subseteq log.proposals
      BY <1>1, InViewFinite
<1>4. m \in here
      BY <1>1, <1>2, <1>3, FirstMsgFact
<1>5. QED
      BY <1>1, <1>4 DEF InView

(* What the component returns may be logged as a vote.                     *)
LEMMA VoteLogged ==
    ASSUME NEW n \in PID, NEW r, NEW t, NEW v, Returned(n, r, t, v)
    PROVE  /\ Logged("prepares", MsgPrepare(r.just))
           /\ Logged("precommits", MsgPreCommit(r.just))
           /\ Logged("commits", MsgCommit(r.just))
<1>1. \A type : LET m == Msg(type, r.just.rdata, r.just.signs)
                IN  /\ m.type = type /\ m.rdata = r.just.rdata
                    /\ m.signs = r.just.signs
      BY DEF Msg
<1>2. ASSUME NEW m, m.signs = r.just.signs PROVE Signed(m)
  <2>1. CASE m.signs = {}
        BY <2>1, FS_EmptySet DEF Signed, getSigners
  <2>2. CASE m.signs = {Signature(n, r.just.rdata)}
        BY <2>2, SingleSigned
  <2>3. QED
        BY <1>2, <2>1, <2>2 DEF Returned
<1>3. QED
      BY <1>1, <1>2 DEF Logged, ViewOf, MsgPrepare, MsgPreCommit, MsgCommit

-----------------------------------------------------------------------------
(* The handlers' functions.                                                *)

(* executeRData leaves the component alone.                                *)
LEMMA ExecuteWorks ==
    ASSUME NEW s, Regular(s), NEW rdata
    PROVE  Works(s, executeRData(s, rdata))
<1> DEFINE x == Append(s.executed, [view |-> s.view, hash |-> rdata.proph])
           u == [s EXCEPT !.executed = x]
           w == replyHash(u, rdata.proph)
           p == IF timeToStop(s) THEN "none" ELSE "startNewView"
           z == [w EXCEPT !.pending = p]
<1>1. z = executeRData(s, rdata)
      BY DEF executeRData
<1> HIDE DEF x, p
<1>2. Keeps(s, u) /\ u.tf = s.tf
      BY DEF Keeps, Regular, Fields
<1> HIDE DEF u
<1>3. \A trans : LET y == [u EXCEPT !.replied = @ \o trans]
                 IN  Keeps(s, y) /\ y.tf = s.tf
      BY <1>2 DEF Keeps, Fields
<1>4. Keeps(s, w) /\ w.tf = s.tf
  <2>1. CASE w = u
        BY <1>2, <2>1
  <2>2. CASE w = [u EXCEPT !.replied = @ \o u.blocks[u.view].trans]
        BY <1>3, <2>2
  <2>3. QED
        BY <2>1, <2>2 DEF replyHash, replyTransactions
<1> HIDE DEF w
<1>5. Keeps(s, z) /\ z.tf = s.tf
      BY <1>4 DEF Keeps, Fields
<1> HIDE DEF z
<1>6. Works(s, z)
      BY <1>5, WorksBy DEF Keeps, Regular
<1>7. QED
      BY <1>1, <1>6

(* initiateCommit sends a certificate and executes.                        *)
LEMMA CommitWorks ==
    ASSUME NEW s, Regular(s), NEW rdata
    PROVE  Works(s, initiateCommit(s, rdata))
<1>1. ASSUME NEW R, NEW m PROVE Works(s, send(s, R, m))
      BY SendKeeps, WorksBy DEF Keeps, Regular
<1>2. ASSUME NEW R, NEW m PROVE Works(s, executeRData(send(s, R, m), rdata))
      BY <1>1, ExecuteWorks, WorksOn DEF Works, Runs
<1>3. QED
      BY <1>2, WorksOn DEF initiateCommit

(* initiatePrecommit stores a certificate and may go on to commit.         *)
LEMMA PrecommitWorks ==
    ASSUME NEW s, Regular(s), NEW rdata, rdata.propv \in {0, s.view}
    PROVE  Works(s, initiatePrecommit(s, rdata))
<1> DEFINE signs  == get(s.log.precommits, rdata.propv, QSize)
           cert   == Just(rdata, signs)
           r      == TEEstore(s.myid, s.tf, cert)
           msgCom == MsgCommit(r.just)
           s1     == [send(s, remove_from_peers(s), MsgPreCommit(cert))
                         EXCEPT !.tf = r.tee]
           s2     == logVote(s1, "commits", msgCom)
<1>1. /\ s.myid \in PID /\ s.view \in Nat /\ InOrder(s.tf)
      BY DEF Regular
<1>2. \/ initiatePrecommit(s, rdata) = s
      \/ initiatePrecommit(s, rdata) = s2
      \/ initiatePrecommit(s, rdata) = initiateCommit(s2, r.just.rdata)
      BY DEF initiatePrecommit
<1>3. cert.rdata = rdata
      BY DEF Just
<1> HIDE DEF cert
<1>4. Returned(s.myid, r, s.tf, rdata.propv)
      BY <1>1, <1>3, TEEstorePasses
<1> HIDE DEF r
<1>5. Logged("commits", msgCom)
      BY <1>1, <1>4, VoteLogged
<1>6. Works(s, s1)
      BY <1>4, SendAnswer DEF Returned
<1> HIDE DEF s1, msgCom
<1>7. Works(s1, s2)
      BY <1>5, <1>6, LogWorks DEF Works, Runs, LogFields
<1> HIDE DEF s2
<1>8. Works(s, s2)
      BY <1>6, <1>7, WorksOn
<1>9. Works(s, initiateCommit(s2, r.just.rdata))
      BY <1>8, CommitWorks, WorksOn DEF Works, Runs
<1>10. QED
       BY <1>2, <1>8, <1>9, WorksOn

(* initiatePrepare stores a certificate and may go on to pre-commit.       *)
LEMMA PrepareWorks ==
    ASSUME NEW s, Regular(s), NEW rdata, rdata.propv \in {0, s.view}
    PROVE  Works(s, initiatePrepare(s, rdata))
<1> DEFINE signs == get(s.log.prepares, rdata.propv, QSize)
           cert  == Just(rdata, signs)
           r     == TEEstore(s.myid, s.tf, cert)
           msgPc == MsgPreCommit(r.just)
           s1    == [send(s, remove_from_peers(s), MsgPrepare(cert))
                        EXCEPT !.tf = r.tee]
           s2    == logVote(s1, "precommits", msgPc)
<1>1. /\ s.myid \in PID /\ s.view \in Nat /\ InOrder(s.tf)
      BY DEF Regular
<1>2. \/ initiatePrepare(s, rdata) = s
      \/ initiatePrepare(s, rdata) = s2
      \/ initiatePrepare(s, rdata) = initiatePrecommit(s2, r.just.rdata)
      BY DEF initiatePrepare
<1>3. cert.rdata = rdata
      BY DEF Just
<1> HIDE DEF cert
<1>4. Returned(s.myid, r, s.tf, rdata.propv)
      BY <1>1, <1>3, TEEstorePasses
<1> HIDE DEF r
<1>5. Logged("precommits", msgPc)
      BY <1>1, <1>4, VoteLogged
<1>6. Works(s, s1)
      BY <1>4, SendAnswer DEF Returned
<1> HIDE DEF s1, msgPc
<1>7. Works(s1, s2)
      BY <1>5, <1>6, LogWorks DEF Works, Runs, LogFields
<1> HIDE DEF s2
<1>8. Works(s, s2) /\ Regular(s2) /\ s2.view = s.view
      BY <1>6, <1>7, WorksOn DEF Works, Runs
<1>9. r.just.rdata.propv \in {0, s2.view}
      BY <1>4, <1>8 DEF Returned
<1>10. Works(s, initiatePrecommit(s2, r.just.rdata))
       BY <1>8, <1>9, PrecommitWorks, WorksOn
<1>11. QED
       BY <1>2, <1>8, <1>10, WorksOn

(* prepare makes a block, has it prepared and may go on.                   *)
LEMMA ProposeWorks ==
    ASSUME NEW s, Regular(s)
    PROVE  Works(s, prepare(s))
<1> DEFINE justNV  == findHighestNv(s.log.newviews, s.view)
           block   == createNewBlock(s, justNV.rdata.justh)
           r       == TEEprepare(s.myid, s.tf, hash(block), justNV)
           msgPrep == MsgPrepare(r.just)
           s0      == popTransactions(s)
           ldrPrep == MsgLdrPrepare(justNV, block, r.just.signs)
           blocks  == assign(s0.blocks, s.view, block)
           sent    == send(s0, remove_from_peers(s), ldrPrep)
           s1      == [sent EXCEPT !.tf = r.tee, !.blocks = assign(@, s.view, block)]
           s2      == logVote(s1, "prepares", msgPrep)
<1>1. /\ s.myid \in PID /\ s.view \in Nat /\ InOrder(s.tf)
      BY DEF Regular
<1>2. \/ prepare(s) = s0
      \/ prepare(s) = s2
      \/ prepare(s) = initiatePrepare(s2, r.just.rdata)
      BY DEF prepare
<1>3. justNV.rdata.propv \in {0, s.view}
      BY HighestData DEF Regular
<1> HIDE DEF justNV, block
<1>4. Returned(s.myid, r, s.tf, justNV.rdata.propv)
      BY <1>1, TEEpreparePasses
<1> HIDE DEF r
<1>5. Logged("prepares", msgPrep)
      BY <1>1, <1>4, VoteLogged
<1> HIDE DEF msgPrep, ldrPrep
<1>6. Keeps(s, s0) /\ s0.tf = s.tf
      BY DEF popTransactions, Keeps, Regular, Fields
<1> HIDE DEF s0
<1>7. Keeps(s, sent) /\ sent.tf = s.tf
      BY <1>6, SendKeeps DEF Keeps
<1> HIDE DEF sent
<1>8. Keeps(s, s1) /\ s1.tf = r.tee
      BY <1>7 DEF Keeps, Fields
<1> HIDE DEF s1
<1>9. Works(s, s0) /\ Works(s, s1)
      BY <1>3, <1>4, <1>6, <1>8, WorksBy DEF Keeps, Regular, Returned
<1>10. Works(s1, s2)
       BY <1>5, <1>9, LogWorks DEF Works, Runs, LogFields
<1> HIDE DEF s2
<1>11. Works(s, s2) /\ Regular(s2) /\ s2.view = s.view
       BY <1>9, <1>10, WorksOn DEF Works, Runs
<1>12. r.just.rdata.propv \in {0, s2.view}
       BY <1>3, <1>4, <1>11 DEF Returned
<1>13. Works(s, initiatePrepare(s2, r.just.rdata))
       BY <1>11, <1>12, PrepareWorks, WorksOn
<1>14. QED
       BY <1>2, <1>9, <1>11, <1>13

(* A backup answers a proposal of its view.                                *)
LEMMA RespondToProposalWorks ==
    ASSUME NEW s, Regular(s), NEW j, j.rdata.propv = s.view, NEW b
    PROVE  Works(s, respondToProposal(s, j, b))
<1> DEFINE r    == TEEprepare(s.myid, s.tf, hash(b), j)
           sent == send(s, currentLeader(s), MsgPrepare(r.just))
           u    == [sent EXCEPT !.tf = r.tee, !.blocks = assign(@, s.view, b)]
<1>1. \/ respondToProposal(s, j, b) = s
      \/ respondToProposal(s, j, b) = u
      BY DEF respondToProposal
<1>2. Answers(s.tf, r.tee, s.view)
      BY TEEpreparePasses DEF Regular, Returned
<1> HIDE DEF r
<1>3. Keeps(s, sent) /\ sent.tf = s.tf
      BY SendKeeps DEF Regular
<1> HIDE DEF sent
<1>4. Keeps(s, u) /\ u.tf = r.tee
      BY <1>3 DEF Keeps, Fields
<1> HIDE DEF u
<1>5. Works(s, u)
      BY <1>2, <1>4, WorksBy DEF Keeps, Regular
<1>6. QED
      BY <1>1, <1>5, WorksOn

(* A backup answers a prepare or a pre-commit certificate.                 *)
LEMMA RespondToCertificateWorks ==
    ASSUME NEW s, Regular(s), NEW j, j.rdata.propv \in {0, s.view}
    PROVE  /\ Works(s, respondToPrepareJust(s, j))
           /\ Works(s, respondToPreCommitJust(s, j))
           /\ Counter(respondToPrepareJust(s, j).tf) <= Counter(s.tf) + 1
           /\ Counter(respondToPreCommitJust(s, j).tf) <= Counter(s.tf) + 1
<1> DEFINE r == TEEstore(s.myid, s.tf, j)
<1>1. Answers(s.tf, r.tee, j.rdata.propv) /\ Counter(s.tf) \in Nat
      BY TEEstorePasses, CounterFact DEF Regular, Returned
<1>2. Counter(r.tee) <= Counter(s.tf) + 1
      BY <1>1 DEF Answers
<1>3. /\ respondToPrepareJust(s, j) =
             [send(s, currentLeader(s), MsgPreCommit(r.just)) EXCEPT !.tf = r.tee]
      /\ respondToPreCommitJust(s, j) =
             [send(s, currentLeader(s), MsgCommit(r.just)) EXCEPT !.tf = r.tee]
      BY DEF respondToPrepareJust, respondToPreCommitJust
<1> HIDE DEF r
<1>4. \A R, m : LET u == [send(s, R, m) EXCEPT !.tf = r.tee]
                IN  Works(s, u) /\ u.tf = r.tee
      BY <1>1, SendAnswer
<1>5. QED
      BY <1>2, <1>3, <1>4

(* Skipping a phase passes one value.                                      *)
LEMMA SkipRuns ==
    ASSUME NEW s, Regular(s)
    PROVE  /\ Runs(s, skipPhase(s))
           /\ Counter(skipPhase(s).tf) = Counter(s.tf) + 1
           /\ skipPhase(s).log = s.log
<1> DEFINE t == TEEsign(s.myid, s.tf).tee
           u == [s EXCEPT !.tf = t]
<1>1. Passes(s.tf, t) /\ Counter(t) = Counter(s.tf) + 1
      BY TEEsignPasses DEF Regular
<1>2. skipPhase(s) = u
      BY DEF skipPhase
<1> HIDE DEF t
<1>3. Keeps(s, u) /\ u.tf = t
      BY DEF Keeps, Regular, Fields
<1> HIDE DEF u
<1>4. Regular(u)
      BY <1>1, <1>3 DEF Keeps, Regular, Passes
<1>5. QED
      BY <1>1, <1>2, <1>3, <1>4 DEF Keeps, Runs

-----------------------------------------------------------------------------
(* The handlers.                                                           *)

(* handleNewview.                                                          *)
LEMMA HandleNewviewWorks ==
    ASSUME NEW s, Regular(s), NEW m,
           m.rdata.phase = NEWVIEW => Logged("newviews", m)
    PROVE  Works(s, handleNewview(s, m))
<1> DEFINE s1 == logVote(s, "newviews", m)
<1>1. CASE m.rdata.phase = NEWVIEW
  <2>1. Works(s, s1)
        BY <1>1, LogWorks DEF LogFields
  <2>2. Works(s, prepare(s1))
        BY <2>1, ProposeWorks, WorksOn DEF Works, Runs
  <2>3. \/ handleNewview(s, m) = s
        \/ handleNewview(s, m) = s1
        \/ handleNewview(s, m) = prepare(s1)
        BY DEF handleNewview
  <2>4. QED
        BY <2>1, <2>2, <2>3, WorksOn
<1>2. CASE m.rdata.phase # NEWVIEW
      BY <1>2, WorksOn DEF handleNewview
<1>3. QED
      BY <1>1, <1>2

(* handleLdrPrepare.                                                       *)
LEMMA HandleLdrPrepareWorks ==
    ASSUME NEW s, Regular(s), NEW m, Logged("proposals", m)
    PROVE  Works(s, handleLdrPrepare(s, m))
<1>1. Works(s, logVote(s, "proposals", m))
      BY LogWorks DEF LogFields
<1>2. \/ handleLdrPrepare(s, m) = s
      \/ handleLdrPrepare(s, m) = logVote(s, "proposals", m)
      \/ /\ m.just.rdata.propv = s.view
         /\ handleLdrPrepare(s, m) = respondToProposal(s, m.just, m.block)
      BY DEF handleLdrPrepare
<1>3. QED
      BY <1>1, <1>2, RespondToProposalWorks, WorksOn

(* handlePrepare.                                                          *)
LEMMA HandlePrepareWorks ==
    ASSUME NEW s, Regular(s), NEW m, Logged("prepares", m)
    PROVE  Works(s, handlePrepare(s, m))
<1> DEFINE s1 == logVote(s, "prepares", m)
           j  == Just(m.rdata, m.signs)
<1>1. Works(s, s1) /\ Regular(s1) /\ s1.view = s.view
      BY LogWorks DEF LogFields, Works, Runs
<1>2. j.rdata = m.rdata
      BY DEF Just
<1>3. \/ handlePrepare(s, m) = s
      \/ handlePrepare(s, m) = s1
      \/ /\ m.rdata.propv = s.view
         /\ \/ handlePrepare(s, m) = initiatePrepare(s1, m.rdata)
            \/ handlePrepare(s, m) = respondToPrepareJust(s, j)
      BY DEF handlePrepare
<1> HIDE DEF s1, j
<1>4. CASE m.rdata.propv = s.view
  <2>1. Works(s, initiatePrepare(s1, m.rdata))
        BY <1>1, <1>4, PrepareWorks, WorksOn
  <2>2. Works(s, respondToPrepareJust(s, j))
        BY <1>2, <1>4, RespondToCertificateWorks
  <2>3. QED
        BY <1>1, <1>3, <2>1, <2>2, WorksOn
<1>5. QED
      BY <1>1, <1>3, <1>4, WorksOn

(* handlePrecommit.                                                        *)
LEMMA HandlePrecommitWorks ==
    ASSUME NEW s, Regular(s), NEW m, Logged("precommits", m)
    PROVE  Works(s, handlePrecommit(s, m))
<1> DEFINE s1 == logVote(s, "precommits", m)
           j  == Just(m.rdata, m.signs)
<1>1. Works(s, s1) /\ Regular(s1) /\ s1.view = s.view
      BY LogWorks DEF LogFields, Works, Runs
<1>2. j.rdata = m.rdata
      BY DEF Just
<1>3. \/ handlePrecommit(s, m) = s
      \/ handlePrecommit(s, m) = s1
      \/ /\ m.rdata.propv = s.view
         /\ \/ handlePrecommit(s, m) = initiatePrecommit(s1, m.rdata)
            \/ handlePrecommit(s, m) = respondToPreCommitJust(s, j)
      BY DEF handlePrecommit
<1> HIDE DEF s1, j
<1>4. CASE m.rdata.propv = s.view
  <2>1. Works(s, initiatePrecommit(s1, m.rdata))
        BY <1>1, <1>4, PrecommitWorks, WorksOn
  <2>2. Works(s, respondToPreCommitJust(s, j))
        BY <1>2, <1>4, RespondToCertificateWorks
  <2>3. QED
        BY <1>1, <1>3, <2>1, <2>2, WorksOn
<1>5. QED
      BY <1>1, <1>3, <1>4, WorksOn

(* handleCommit, which leaves the component alone.                         *)
LEMMA HandleCommitWorks ==
    ASSUME NEW s, Regular(s), NEW m, Logged("commits", m)
    PROVE  Works(s, handleCommit(s, m))
<1> DEFINE s1 == logVote(s, "commits", m)
<1>1. Works(s, s1) /\ Regular(s1)
      BY LogWorks DEF LogFields, Works, Runs
<1>2. Works(s, initiateCommit(s1, m.rdata))
      BY <1>1, CommitWorks, WorksOn
<1>3. \/ handleCommit(s, m) = s
      \/ handleCommit(s, m) = s1
      \/ handleCommit(s, m) = initiateCommit(s1, m.rdata)
      \/ handleCommit(s, m) = executeRData(s, m.rdata)
      BY DEF handleCommit
<1>4. QED
      BY <1>1, <1>2, <1>3, ExecuteWorks, WorksOn

-----------------------------------------------------------------------------
(* Changing views.                                                         *)

(* A replica that enters its view may skip two phases and answer once:     *)
(* from PREPARE on this is the whole view.                                 *)
Enters(s, u) ==
    /\ Runs(s, u)
    /\ Counter(s.tf) <= Stamp(s.view, PREPARE) => Within(u.view, u.tf)

(* Whoever is in PREPARE or before is not ahead of its replica.            *)
LEMMA EntersBy ==
    ASSUME NEW s, Regular(s), NEW u, Works(s, u)
    PROVE  Enters(s, u)
<1>1. Counter(s.tf) \in Nat /\ s.view \in Nat
      BY CounterFact DEF Regular
<1>2. Stamp(s.view, PREPARE) <= Stamp(s.view + 1, NEWVIEW)
      BY <1>1 DEF Stamp, PREPARE, NEWVIEW
<1>3. Stamp(s.view, PREPARE) \in Nat /\ Stamp(s.view + 1, NEWVIEW) \in Nat
      BY <1>1 DEF Stamp, PREPARE, NEWVIEW
<1>4. Counter(s.tf) <= Stamp(s.view, PREPARE) => Within(s.view, s.tf)
      BY <1>1, <1>2, <1>3 DEF Within
<1>5. QED
      BY <1>4 DEF Works, Enters

(* Skipping two phases and answering a pre-commit certificate (catchUp).   *)
LEMMA CatchUpEnters ==
    ASSUME NEW s, Regular(s)
    PROVE  Enters(s, catchUp(s))
<1> DEFINE a  == skipPhase(s)
           b  == skipPhase(a)
           j  == first(s.log.precommits, s.view)
           s1 == respondToPreCommitJust(b, j)
<1>1. /\ Runs(s, a) /\ Counter(a.tf) = Counter(s.tf) + 1 /\ a.log = s.log
      BY SkipRuns
<1> HIDE DEF a
<1>2. /\ Runs(a, b) /\ Counter(b.tf) = Counter(a.tf) + 1 /\ b.log = s.log
      BY <1>1, SkipRuns DEF Runs
<1> HIDE DEF b
<1>3. /\ Runs(s, b) /\ Regular(b) /\ b.view = s.view
      BY <1>1, <1>2, WorksOn DEF Runs
<1>4. j.rdata.propv \in {0, b.view}
  <2>1. s.log["precommits"] = s.log.precommits
        OBVIOUS
  <2>2. QED
        BY <1>3, <2>1, FirstData DEF Regular, LogFields
<1> HIDE DEF j
<1>5. Works(b, s1) /\ Counter(s1.tf) <= Counter(b.tf) + 1
      BY <1>3, <1>4, RespondToCertificateWorks
<1> HIDE DEF s1
<1>6. Runs(s, s1) /\ Regular(s1) /\ s1.view = s.view
      BY <1>3, <1>5, WorksOn DEF Works, Runs
<1>7. /\ Counter(s.tf) \in Nat /\ Counter(a.tf) \in Nat /\ Counter(b.tf) \in Nat
      /\ Counter(s1.tf) \in Nat /\ s.view \in Nat
      BY <1>1, <1>3, <1>6, CounterFact DEF Regular, Runs
<1>8. Counter(s.tf) <= Stamp(s.view, PREPARE) => Within(s1.view, s1.tf)
      BY <1>1, <1>2, <1>5, <1>6, <1>7 DEF Within, Stamp, PREPARE, NEWVIEW
<1>9. Works(s1, executeRData(s1, first(s.log.commits, s.view).rdata))
      BY <1>6, ExecuteWorks
<1>10. Enters(s, s1)
       BY <1>6, <1>8 DEF Enters
<1>11. Enters(s, executeRData(s1, first(s.log.commits, s.view).rdata))
       BY <1>6, <1>8, <1>9, WorksOn DEF Enters, Works, Runs
<1>12. \/ catchUp(s) = s1
       \/ catchUp(s) = executeRData(s1, first(s.log.commits, s.view).rdata)
       BY DEF catchUp, s1, a, b, j
<1>13. QED
       BY <1>10, <1>11, <1>12

(* Skipping a phase and answering a prepare certificate                    *)
(* (handleEarlierMessages).                                                *)
LEMMA SkipAndAnswerEnters ==
    ASSUME NEW s, Regular(s)
    PROVE  Enters(s, respondToPrepareJust(skipPhase(s),
                                          first(s.log.prepares, s.view)))
<1> DEFINE a  == skipPhase(s)
           j  == first(s.log.prepares, s.view)
           s1 == respondToPrepareJust(a, j)
<1>1. /\ Runs(s, a) /\ Counter(a.tf) = Counter(s.tf) + 1
      BY SkipRuns
<1> HIDE DEF a
<1>2. Regular(a) /\ a.view = s.view
      BY <1>1 DEF Runs
<1>3. j.rdata.propv \in {0, a.view}
  <2>1. s.log["prepares"] = s.log.prepares
        OBVIOUS
  <2>2. QED
        BY <1>2, <2>1, FirstData DEF Regular, LogFields
<1> HIDE DEF j
<1>4. Works(a, s1) /\ Counter(s1.tf) <= Counter(a.tf) + 1
      BY <1>2, <1>3, RespondToCertificateWorks
<1> HIDE DEF s1
<1>5. Runs(s, s1) /\ Regular(s1) /\ s1.view = s.view
      BY <1>1, <1>2, <1>4, WorksOn DEF Works, Runs
<1>6. /\ Counter(s.tf) \in Nat /\ Counter(a.tf) \in Nat
      /\ Counter(s1.tf) \in Nat /\ s.view \in Nat
      BY <1>2, <1>5, CounterFact DEF Regular
<1>7. Counter(s.tf) <= Stamp(s.view, PREPARE) => Within(s1.view, s1.tf)
      BY <1>1, <1>4, <1>5, <1>6 DEF Within, Stamp, PREPARE, NEWVIEW
<1>8. QED
      BY <1>5, <1>7 DEF Enters, s1, a, j

(* handleEarlierMessages.                                                  *)
LEMMA HandleEarlierEnters ==
    ASSUME NEW s, Regular(s)
    PROVE  Enters(s, handleEarlierMessages(s))
<1> DEFINE proposal == {m \in firstProposal(s.log.proposals, s.view) :
                           Cardinality(m.signs) = 1}
           chosen   == CHOOSE m \in proposal : TRUE
           skipped  == respondToPrepareJust(skipPhase(s),
                                            first(s.log.prepares, s.view))
<1>1. Enters(s, s) /\ Enters(s, prepare(s))
      BY WorksOn, ProposeWorks, EntersBy
<1>2. Enters(s, skipped)
      BY SkipAndAnswerEnters
<1> HIDE DEF skipped
<1>3. proposal # {} => Enters(s, respondToProposal(s, chosen.just, chosen.block))
  <2>1. proposal # {} => chosen \in firstProposal(s.log.proposals, s.view)
        OBVIOUS
  <2> HIDE DEF chosen, proposal
  <2>2. proposal # {} => chosen.just.rdata.propv = s.view
        BY <2>1, FirstProposalData DEF Regular
  <2>3. QED
        BY <2>2, RespondToProposalWorks, EntersBy
<1>4. \/ handleEarlierMessages(s) = s
      \/ handleEarlierMessages(s) = prepare(s)
      \/ handleEarlierMessages(s) = catchUp(s)
      \/ handleEarlierMessages(s) = skipped
      \/ /\ proposal # {}
         /\ handleEarlierMessages(s) = respondToProposal(s, chosen.just, chosen.block)
      BY DEF handleEarlierMessages, skipped
<1> HIDE DEF chosen, proposal
<1>5. QED
      BY <1>1, <1>2, <1>3, <1>4, CatchUpEnters

(* A call that ends in the next view or in the same one.                   *)
Moves(s, u) ==
    /\ Regular(u)
    /\ u.myid = s.myid /\ u.started = s.started
    /\ Passes(s.tf, u.tf)
    /\ Within(s.view, s.tf) => Within(u.view, u.tf)

(* The replica's own new-view message may be logged (callTEEsign).         *)
LEMMA OwnNewviewLogged ==
    ASSUME NEW n \in PID, NEW j, j.signs = {Signature(n, j.rdata)},
           j.rdata.justv \in Nat
    PROVE  Logged("newviews", MsgNewView(j))
<1> DEFINE m == MsgNewView(j)
<1>1. m.type = "newview" /\ m.rdata = j.rdata /\ m.signs = j.signs
      BY DEF MsgNewView, Msg
<1> HIDE DEF m
<1>2. Signed(m)
      BY <1>1, SingleSigned
<1>3. QED
      BY <1>1, <1>2 DEF Logged, ViewOf, m

(* startNewView.                                                           *)
LEMMA StartNewViewMoves ==
    ASSUME NEW s, Regular(s), s.tf.prepv \in Nat
    PROVE  Moves(s, startNewView(s))
<1> DEFINE r  == TEEsignPast(s.myid, s.tf, s.view)
           u  == [s EXCEPT !.tf = r.tee, !.view = @ + 1, !.pending = "none"]
           s1 == setTimer(u)
           m  == MsgNewView(r.just)
           s2 == send(s1, currentLeader(s1), m)
           h1 == handleEarlierMessages(s1)
           h2 == handleEarlierMessages(s2)
<1>1. /\ s.myid \in PID /\ s.view \in Nat /\ InOrder(s.tf) /\ DOMAIN s = Fields
      BY DEF Regular
<1>2. /\ Passes(s.tf, r.tee)
      /\ Within(s.view, s.tf) => Counter(r.tee) = Stamp(s.view + 1, PREPARE)
      /\ r.just.signs = {Signature(s.myid, r.just.rdata)}
      /\ r.just.rdata.justv = s.tf.prepv
      BY <1>1, TEEsignPastPasses
<1>3. \/ startNewView(s) = s1
      \/ startNewView(s) = handleNewview(h1, m)
      \/ startNewView(s) = h2
      BY DEF startNewView
<1> HIDE DEF r
<1>4. Logged("newviews", m)
      BY <1>1, <1>2, OwnNewviewLogged
<1> HIDE DEF m
<1>5. /\ DOMAIN u = Fields /\ u.tf = r.tee /\ u.view = s.view + 1
      /\ u.myid = s.myid /\ u.started = s.started /\ u.log = s.log
      BY <1>1 DEF Fields
<1> HIDE DEF u
<1>6. /\ DOMAIN s1 = Fields /\ s1.tf = r.tee /\ s1.view = s.view + 1
      /\ s1.myid = s.myid /\ s1.started = s.started /\ s1.log = s.log
      BY <1>5 DEF setTimer, Fields
<1> HIDE DEF s1
<1>7. Regular(s1)
      BY <1>1, <1>2, <1>6 DEF Regular, Passes
<1>8. Keeps(s1, s2) /\ s2.tf = s1.tf
      BY <1>6, SendKeeps
<1> HIDE DEF s2
<1>9. Regular(s2)
      BY <1>7, <1>8 DEF Regular, Keeps
<1>10. ASSUME NEW x, Enters(s1, x) \/ Enters(s2, x) PROVE Moves(s, x)
  <2>1. /\ Regular(x) /\ x.myid = s.myid /\ x.started = s.started
        /\ Passes(r.tee, x.tf)
        BY <1>6, <1>8, <1>10 DEF Enters, Runs, Keeps
  <2>2. Passes(s.tf, x.tf)
        BY <1>1, <1>2, <2>1, PassesOn
  <2>3. Stamp(s.view + 1, PREPARE) \in Nat
        BY <1>1 DEF Stamp, PREPARE
  <2>4. Within(s.view, s.tf) => Within(x.view, x.tf)
        BY <1>2, <1>6, <1>8, <1>10, <2>3 DEF Enters, Keeps
  <2>5. QED
        BY <2>1, <2>2, <2>4 DEF Moves
<1>11. Enters(s1, s1) /\ Enters(s1, h1) /\ Enters(s2, h2)
       BY <1>7, <1>9, WorksOn, EntersBy, HandleEarlierEnters
<1> HIDE DEF h1, h2
<1>12. Works(h1, handleNewview(h1, m))
       BY <1>4, <1>11, HandleNewviewWorks DEF Enters, Runs
<1>13. Enters(s1, handleNewview(h1, m))
       BY <1>7, <1>11, <1>12, WorksOn DEF Enters, Works, Runs
<1>14. QED
       BY <1>3, <1>10, <1>11, <1>13

(* getStarted signs unconditionally: it keeps a component in order, and    *)
(* within the view if nothing has been signed yet.                         *)
LEMMA GetStartedRuns ==
    ASSUME NEW s, Regular(s), s.tf.prepv \in Nat
    PROVE  LET u == getStarted(s)
           IN  /\ Runs(s, u)
               /\ Counter(s.tf) = 0 => Within(u.view, u.tf)
<1> DEFINE r  == TEEsign(s.myid, s.tf)
           s1 == [s EXCEPT !.tf = r.tee]
           m  == MsgNewView(r.just)
           s2 == send(s1, currentLeader(s1), m)
<1>1. /\ s.myid \in PID /\ s.view \in Nat /\ InOrder(s.tf) /\ DOMAIN s = Fields
      BY DEF Regular
<1>2. /\ Passes(s.tf, r.tee) /\ Counter(r.tee) = Counter(s.tf) + 1
      /\ r.just.signs = {Signature(s.myid, r.just.rdata)}
      /\ r.just.rdata.justv = s.tf.prepv
  <2>1. /\ Passes(s.tf, r.tee) /\ Counter(r.tee) = Counter(s.tf) + 1
        /\ r.just.signs = {Signature(s.myid, r.just.rdata)}
        /\ r.just.rdata = RData(Dummy, s.tf.view, s.tf.preph, s.tf.prepv, s.tf.phase)
        BY <1>1, TEEsignPasses
  <2>2. QED
        BY <2>1 DEF RData
<1>3. \/ getStarted(s) = handleNewview(s1, m)
      \/ getStarted(s) = s2
      BY DEF getStarted
<1> HIDE DEF r
<1>4. Logged("newviews", m)
      BY <1>1, <1>2, OwnNewviewLogged
<1> HIDE DEF m
<1>5. Keeps(s, s1) /\ s1.tf = r.tee
      BY <1>1 DEF Keeps, Fields
<1> HIDE DEF s1
<1>6. Regular(s1) /\ Runs(s, s1)
      BY <1>1, <1>2, <1>5 DEF Regular, Runs, Keeps, Passes
<1>7. Works(s1, s2)
      BY <1>6, SendKeeps, WorksBy DEF Keeps, Regular
<1>8. Works(s1, handleNewview(s1, m))
      BY <1>4, <1>6, HandleNewviewWorks
<1>9. Counter(s.tf) = 0 => Within(s1.view, s1.tf)
      BY <1>1, <1>2, <1>5 DEF Within, Keeps, Stamp, NEWVIEW
<1>10. ASSUME NEW x, Works(s1, x)
       PROVE  Runs(s, x) /\ (Counter(s.tf) = 0 => Within(x.view, x.tf))
       BY <1>6, <1>9, <1>10, WorksOn DEF Works, Runs
<1>11. QED
       BY <1>3, <1>7, <1>8, <1>10

-----------------------------------------------------------------------------
(* The invariant.                                                          *)

(* A replica that nobody has started, as constructed.                      *)
Idling(s) == Counter(s.tf) = 0 /\ ~s.timer /\ s.pending = "none"

Orderly ==
    /\ DOMAIN node = PID
    /\ \A n \in PID :
          /\ Regular(node[n])
          /\ PromptClient => /\ Within(node[n].view, node[n].tf)
                             /\ ~node[n].started => Idling(node[n])

(* Replica n may get from its state to u.                                  *)
Advances(n, u) ==
    /\ Regular(u) /\ Passes(node[n].tf, u.tf)
    /\ PromptClient => /\ Within(u.view, u.tf)
                       /\ ~u.started => Idling(u)

(* Replica n moves, and no other component does.                           *)
Goes(n) ==
    /\ Orderly'
    /\ Passes(node[n].tf, node'[n].tf)
    /\ \A m \in PID \ {n} : node'[m].tf = node[m].tf

(* What the invariant speaks of stays as it is.                            *)
Stays(s, u) ==
    /\ Keeps(s, u) /\ u.tf = s.tf
    /\ u.pending = s.pending /\ (u.timer => s.timer)

(* Such a state is as good.                                                *)
LEMMA StaysAdvances ==
    ASSUME Orderly, NEW n \in PID, NEW u, Stays(node[n], u)
    PROVE  Advances(n, u)
<1>1. Regular(u)
      BY DEF Orderly, Stays, Keeps, Regular
<1>2. Passes(node[n].tf, u.tf)
      BY PassesOn DEF Stays, Orderly, Regular
<1>3. PromptClient => Within(u.view, u.tf) /\ (~u.started => Idling(u))
      BY DEF Orderly, Stays, Keeps, Idling
<1>4. QED
      BY <1>1, <1>2, <1>3 DEF Advances

(* Replica n moves, after another one may have lost a message.             *)
LEMMA AdvancesGoes ==
    ASSUME Orderly, NEW w, DOMAIN w = PID,
           \A m \in PID : w[m] = node[m] \/ Stays(node[m], w[m]),
           NEW n \in PID, NEW u, Advances(n, u), node' = [w EXCEPT ![n] = u]
    PROVE  Goes(n)
<1>1. DOMAIN node' = PID /\ node'[n] = u
      OBVIOUS
<1>2. ASSUME NEW m \in PID, m # n
      PROVE  /\ node'[m].tf = node[m].tf /\ Regular(node'[m])
             /\ PromptClient => /\ Within(node'[m].view, node'[m].tf)
                                /\ ~node'[m].started => Idling(node'[m])
  <2>1. node'[m] = w[m]
        BY <1>2
  <2>2. CASE w[m] = node[m]
        BY <2>1, <2>2 DEF Orderly
  <2>3. CASE Stays(node[m], w[m])
        BY <2>1, <2>3, StaysAdvances DEF Advances, Stays
  <2>4. QED
        BY <2>2, <2>3
<1>3. Orderly'
      BY <1>1, <1>2 DEF Orderly, Advances
<1>4. QED
      BY <1>1, <1>2, <1>3 DEF Goes, Advances

(* What the connections carry may be logged (MessageSound).                *)
LEMMA MessageLogged ==
    ASSUME NEW K, NEW d, NEW m, MessageSound(K, d, m)
    PROVE  /\ m.type = "newview" /\ m.rdata.phase = NEWVIEW => Logged("newviews", m)
           /\ m.type = "ldrprepare" => Logged("proposals", m)
           /\ m.type = "prepare" => Logged("prepares", m)
           /\ m.type = "precommit" => Logged("precommits", m)
           /\ m.type = "commit" => Logged("commits", m)
<1>1. CASE m.type = "newview" /\ m.rdata.phase = NEWVIEW
  <2>1. NewviewSound(K, m)
        BY <1>1, MessageByType
  <2>2. Signed(m) /\ m.rdata.justv \in Nat
        BY <1>1, <2>1, SingleSigned DEF NewviewSound, ReportSound
  <2>3. QED
        BY <1>1, <2>2 DEF Logged, ViewOf
<1>2. CASE m.type = "ldrprepare"
  <2>1. Signed(m)
        BY <1>2, MessageByType DEF ProposalSound
  <2>2. QED
        BY <1>2, <2>1 DEF Logged, ViewOf
<1>3. CASE m.type \in {"prepare", "precommit", "commit"}
  <2>1. Signed(m)
        BY <1>3, MessageByType, VoteSigned DEF CertSound, CommitSound
  <2>2. QED
        BY <1>3, <2>1 DEF Logged, ViewOf
<1>4. QED
      BY <1>1, <1>2, <1>3

(* A handler advances its replica.                                         *)
LEMMA WorksAdvances ==
    ASSUME Orderly, NEW n \in PID, NEW u, Works(node[n], u) \/ Moves(node[n], u),
           PromptClient => node[n].started
    PROVE  Advances(n, u)
BY DEF Orderly, Works, Runs, Moves, Advances

(* A message arrives.                                                      *)
LEMMA DeliverGoes ==
    ASSUME Accounted, Orderly, NEW p \in PID, NEW n \in PID, Deliver(p, n)
    PROVE  Goes(n)
<1> DEFINE k == Upcoming(p, n)
           m == node[p].out[n][k]
           q == [node[p] EXCEPT !.out[n] = SubSeq(@, k + 1, Len(@))]
           w == [node EXCEPT ![p] = q]
<1>1. PICK K : \A i \in PID : ReplicaSound(K, i, node[i])
      BY DEF Accounted
<1>2. /\ p # n /\ node[p].out[n] # <<>>
      /\ PromptClient => node[n].started
      BY DEF Deliver, HandleNewview, HandleLdrPrepare, HandlePrepare,
             HandlePrecommit, HandleCommit, Receive, CanReceive, ClientDone
<1>3. MessageSound(K, n, m)
      BY <1>1, <1>2, UpcomingFact
<1>4. PICK u : /\ \/ u = node[n]
                  \/ m.type = "newview" /\ u = handleNewview(node[n], m)
                  \/ m.type = "ldrprepare" /\ u = handleLdrPrepare(node[n], m)
                  \/ m.type = "prepare" /\ u = handlePrepare(node[n], m)
                  \/ m.type = "precommit" /\ u = handlePrecommit(node[n], m)
                  \/ m.type = "commit" /\ u = handleCommit(node[n], m)
               /\ node' = [node EXCEPT
                      ![p].out[n] = SubSeq(@, k + 1, Len(@)), ![n] = u]
      BY DEF Deliver, HandleNewview, HandleLdrPrepare, HandlePrepare,
             HandlePrecommit, HandleCommit, Receive
<1>5. DOMAIN node = PID /\ Regular(node[n]) /\ Regular(node[p])
      BY DEF Orderly
<1>6. node' = [w EXCEPT ![n] = u]
      BY <1>2, <1>4, <1>5
<1> HIDE DEF m, k
<1>7. Works(node[n], u)
      BY <1>3, <1>4, <1>5, MessageLogged, WorksOn, HandleNewviewWorks,
         HandleLdrPrepareWorks, HandlePrepareWorks, HandlePrecommitWorks,
         HandleCommitWorks
<1>8. Stays(node[p], q)
      BY <1>5 DEF Regular, Stays, Keeps, Fields
<1> HIDE DEF q
<1>9. /\ DOMAIN w = PID
      /\ \A i \in PID : w[i] = node[i] \/ Stays(node[i], w[i])
      BY <1>5, <1>8
<1> HIDE DEF w
<1>10. Advances(n, u)
       BY <1>2, <1>7, WorksAdvances
<1>11. QED
       BY <1>6, <1>9, <1>10, AdvancesGoes

(* A replica moves on its own.                                             *)
LEMMA OwnGoes ==
    ASSUME Accounted, Orderly, NEW n \in PID,
           \/ Start(n) \/ StartNewView(n) \/ Timeout(n)
           \/ HandleTransaction(n) \/ Pause(n) \/ Resume(n)
    PROVE  Goes(n)
<1> DEFINE s == node[n]
<1>1. PICK K : ReplicaSound(K, n, s)
      BY DEF Accounted
<1>2. /\ DOMAIN node = PID /\ Regular(s) /\ DOMAIN s = Fields
      BY DEF Orderly, Regular
<1>3. s.tf.prepv \in Nat
      BY <1>1 DEF ReplicaSound, ComponentSound
<1>4. ASSUME NEW u, Advances(n, u), node' = [node EXCEPT ![n] = u]
      PROVE  Goes(n)
      BY <1>2, <1>4, AdvancesGoes
<1>5. CASE Start(n)
  <2> DEFINE x == [s EXCEPT !.started = TRUE]
             u == getStarted(x)
  <2>1. /\ node' = [node EXCEPT ![n] = u]
        /\ ~s.started
        BY <1>5 DEF Start, CanStart
  <2>2. /\ DOMAIN x = Fields /\ x.started = TRUE
        /\ x.myid = s.myid /\ x.view = s.view /\ x.tf = s.tf /\ x.log = s.log
        BY <1>2 DEF Fields
  <2> HIDE DEF x
  <2>3. Regular(x)
        BY <1>2, <2>2 DEF Regular
  <2>4. /\ Runs(x, u)
        /\ Counter(x.tf) = 0 => Within(u.view, u.tf)
        BY <1>3, <2>2, <2>3, GetStartedRuns
  <2> HIDE DEF u
  <2>5. PromptClient => Counter(x.tf) = 0
        BY <2>1, <2>2 DEF Orderly, Idling
  <2>6. Advances(n, u)
        BY <2>2, <2>4, <2>5 DEF Advances, Runs
  <2>7. QED
        BY <1>4, <2>1, <2>6
<1>6. Moves(s, startNewView(s))
      BY <1>2, <1>3, StartNewViewMoves
<1>7. CASE StartNewView(n)
  <2>1. /\ node' = [node EXCEPT ![n] = startNewView(s)]
        /\ s.pending # "none"
        BY <1>7 DEF StartNewView
  <2>2. PromptClient => s.started
        BY <2>1 DEF Orderly, Idling
  <2>3. Advances(n, startNewView(s))
        BY <1>6, <2>2, WorksAdvances
  <2>4. QED
        BY <1>4, <2>1, <2>3
<1>8. CASE Timeout(n)
  <2> DEFINE u == [s EXCEPT !.stopped = TRUE, !.timer = FALSE]
  <2>1. /\ \/ node' = [node EXCEPT ![n] = u]
           \/ node' = [node EXCEPT ![n] = startNewView(s)]
        /\ s.timer
        BY <1>8 DEF Timeout, TimerExpires, CanTimeout
  <2>2. PromptClient => s.started
        BY <2>1 DEF Orderly, Idling
  <2>3. Advances(n, startNewView(s))
        BY <1>6, <2>2, WorksAdvances
  <2>4. Stays(s, u)
        BY <1>2 DEF Stays, Keeps, Fields
  <2> HIDE DEF u
  <2>5. Advances(n, u)
        BY <2>4, StaysAdvances
  <2>6. QED
        BY <1>4, <2>1, <2>3, <2>5
<1>9. CASE HandleTransaction(n)
  <2> DEFINE rest  == Tail(s.fromClient)
             queue == IF s.isPaused THEN s.transactions
                      ELSE Append(s.transactions, Head(s.fromClient))
             u == [s EXCEPT !.fromClient = rest, !.transactions = queue]
  <2>1. node' = [node EXCEPT ![n] = u]
        BY <1>9 DEF HandleTransaction
  <2> HIDE DEF rest, queue
  <2>2. Stays(s, u)
        BY <1>2 DEF Stays, Keeps, Fields
  <2> HIDE DEF u
  <2>3. QED
        BY <1>4, <2>1, <2>2, StaysAdvances
<1>10. CASE Pause(n) \/ Resume(n)
  <2>1. PICK b \in BOOLEAN : node' = [node EXCEPT ![n] = [s EXCEPT !.isPaused = b]]
        BY <1>10 DEF Pause, Resume
  <2> DEFINE u == [s EXCEPT !.isPaused = b]
  <2>2. Stays(s, u)
        BY <1>2 DEF Stays, Keeps, Fields
  <2> HIDE DEF u
  <2>3. Advances(n, u)
        BY <2>2, StaysAdvances
  <2>4. QED
        BY <1>4, <2>1, <2>3 DEF u
<1>11. QED
       BY <1>5, <1>7, <1>8, <1>9, <1>10

(* A step is one of one replica.                                           *)
LEMMA NextGoes ==
    ASSUME Accounted, Orderly, Next
    PROVE  \E n \in PID : Goes(n)
BY OwnGoes, DeliverGoes DEF Next, Step

(* The replicas, as constructed, are in order.                             *)
LEMMA InitOrderly == Init => Orderly
<1> SUFFICES ASSUME Init PROVE Orderly
    OBVIOUS
<1>1. ASSUME NEW n \in PID
      PROVE  /\ Regular(node[n]) /\ Within(node[n].view, node[n].tf)
             /\ Idling(node[n])
  <2> DEFINE s == node[n]
  <2>1. s = withFields(ReplicaInit(n, 0),
                       [tf |-> TrustedFunInit, log |-> LogInit, blocks |-> <<>>])
        BY DEF Init
  <2>2. /\ DOMAIN s = Fields
        /\ s.myid = n /\ s.view = 0 /\ s.tf = TrustedFunInit /\ s.log = LogInit
        /\ s.timer = FALSE /\ s.pending = "none"
        BY <2>1 DEF withFields, ReplicaInit, Fields
  <2> HIDE DEF s
  <2>3. Filed(s.log)
    <3>1. DOMAIN s.log = LogFields /\ \A k \in DOMAIN s.log : s.log[k] = {}
          BY <2>2 DEF LogInit, LogFields
    <3>2. IsFiniteSet({})
          BY FS_EmptySet
    <3>3. QED
          BY <3>1, <3>2 DEF Filed
  <2>4. /\ DOMAIN s.tf = ComponentFields /\ s.tf.view = 0
        /\ s.tf.phase = NEWVIEW /\ s.tf.signed = {}
        BY <2>2 DEF TrustedFunInit, ComponentFields
  <2>5. InOrder(s.tf) /\ Counter(s.tf) = 0
        BY <2>4 DEF InOrder, Counter, Stamp, Phase, NEWVIEW
  <2>6. Within(s.view, s.tf)
        BY <2>2, <2>5 DEF Within, Stamp, NEWVIEW
  <2>7. QED
        BY <2>2, <2>3, <2>5, <2>6 DEF Regular, Idling, s
<1>2. DOMAIN node = PID
      BY DEF Init
<1>3. QED
      BY <1>1, <1>2 DEF Orderly

(* Every component stays in order, and with a prompt client never ahead    *)
(* of its replica.                                                         *)
LEMMA AlwaysOrderly == Spec => []Orderly
<1>1. ASSUME Accounted, Orderly, [Next]_vars PROVE Orderly'
  <2>1. CASE Next
        BY <1>1, <2>1, NextGoes DEF Goes
  <2>2. CASE UNCHANGED vars
        BY <1>1, <2>2 DEF vars, Orderly
  <2>3. QED
        BY <1>1, <2>1, <2>2
<1>2. QED
      BY <1>1, InitOrderly, AlwaysAccounted, PTL DEF Spec

(* No component gets ahead of its replica by more than the new-view phase  *)
(* of the next view, however messages, time-outs and pauses interleave, if *)
(* replicas are started before they hear from each other.                  *)
THEOREM ComponentsKeepStep == PromptClient => (Spec => []NeverAhead)
<1> SUFFICES ASSUME PromptClient PROVE Spec => []NeverAhead
    OBVIOUS
<1>1. Orderly => NeverAhead
      BY DEF Orderly, NeverAhead, Within, Counter
<1>2. QED
      BY <1>1, AlwaysOrderly, PTL

(* The components implement monotonic signers: a handler passes values of  *)
(* one counter, signs one statement at each of them, and none twice.       *)
THEOREM SignersMonotonic == Spec => RefinesSigner
<1> DEFINE counter == [n \in PID |-> Stamp(node[n].tf.view, node[n].tf.phase)]
           signed  == [n \in PID |-> node[n].tf.signed]
<1>1. Init => Signer!Init
  <2> SUFFICES ASSUME Init PROVE Signer!Init
      OBVIOUS
  <2>1. \A n \in PID : node[n].tf = TrustedFunInit
    <3>1. ASSUME NEW n \in PID PROVE node[n].tf = TrustedFunInit
      <4>1. node[n] = withFields(ReplicaInit(n, 0),
                       [tf |-> TrustedFunInit, log |-> LogInit, blocks |-> <<>>])
            BY DEF Init
      <4>2. QED
            BY <4>1 DEF withFields, ReplicaInit
    <3>2. QED
          BY <3>1
  <2>2. /\ Stamp(TrustedFunInit.view, TrustedFunInit.phase) = 0
        /\ TrustedFunInit.signed = {}
        BY DEF TrustedFunInit, Stamp, NEWVIEW
  <2>3. QED
        BY <2>1, <2>2 DEF Signer!Init
<1>2. ASSUME Accounted, Orderly, Orderly', [Next]_vars
      PROVE  [Signer!Next]_(Signer!vars)
  <2>1. CASE UNCHANGED vars
        BY <2>1 DEF vars, Signer!vars
  <2>2. ASSUME NEW n \in PID, Goes(n) PROVE [Signer!Next]_(Signer!vars)
    <3> DEFINE t   == node[n].tf
               u   == node'[n].tf
               new == u.signed \ t.signed
    <3>1. /\ Passes(t, u) /\ InOrder(t) /\ InOrder(u)
          /\ \A m \in PID \ {n} : node'[m].tf = node[m].tf
          BY <1>2, <2>2 DEF Goes, Orderly, Regular, Passes
    <3>2. /\ counter[n] = Counter(t) /\ counter'[n] = Counter(u)
          /\ signed[n] = t.signed /\ signed'[n] = u.signed
          BY DEF Counter
    <3>3. /\ Counter(t) \in Nat /\ Counter(u) \in Nat /\ Counter(t) <= Counter(u)
          BY <3>1, CounterFact DEF Passes
    <3>4. CASE Counter(u) = Counter(t)
      <4>1. new = {}
            BY <3>1, <3>3, <3>4 DEF Passes
      <4>2. u.signed = t.signed
            BY <3>1, <4>1 DEF Passes
      <4>3. counter' = counter /\ signed' = signed
            BY <3>1, <3>4, <4>2 DEF Counter
      <4>4. QED
            BY <4>3 DEF Signer!vars
    <3>5. CASE Counter(u) > Counter(t)
      <4>1. counter' = [counter EXCEPT ![n] = counter'[n]]
            BY <3>1
      <4>2. signed' = [signed EXCEPT ![n] = @ \cup new]
            BY <3>1 DEF Passes
      <4>3. /\ counter'[n] \in Nat /\ counter'[n] > counter[n]
            /\ signed'[n] \ signed[n] = new
            BY <3>2, <3>3, <3>5
      <4>4. /\ \A r \in new : StampOf(r) \in counter[n] .. counter'[n] - 1
            /\ \A r1, r2 \in new : StampOf(r1) = StampOf(r2) => r1 = r2
            /\ \A c \in counter[n] .. counter'[n] - 1 :
                   \E r \in new : StampOf(r) = c
            BY <3>1, <3>2 DEF Passes
      <4> HIDE DEF counter, signed, new
      <4>5. Signer!SignBatch(n)
            BY ONLY <4>1, <4>2, <4>3, <4>4 DEF Signer!SignBatch, counter, signed
      <4>6. QED
            BY <4>5 DEF Signer!Next
    <3>6. QED
          BY <3>3, <3>4, <3>5
  <2>3. QED
        BY <1>2, <2>1, <2>2, NextGoes
<1>3. QED
      BY <1>1, <1>2, AlwaysAccounted, AlwaysOrderly, PTL
      DEF Spec, RefinesSigner, Signer!Spec

-----------------------------------------------------------------------------
(* The parents of new blocks.                                              *)

(* Report m is of the parent of block b, and none ranks higher.            *)
Highest(reports, m, b) ==
    /\ m.rdata.justh = b.prevHash
    /\ \A k \in reports : k.rdata.justv <= m.rdata.justv

(* If replica n leads the view it has got to in u, and its block is new,   *)
(* then that extends the highest prepared block of the new-view messages.  *)
BuiltHighest(n, s, u) ==
    LET reports == InView(u.log.newviews, u.view)
    IN  getLeaderOf(u.view) = n /\ u.view \in DOMAIN u.blocks \ DOMAIN s.blocks
        => \E m \in reports : Highest(reports, m, u.blocks[u.view])

(* What notes no block and logs no new-view message.                       *)
Formed(s) == DOMAIN s = Fields /\ DOMAIN s.log = LogFields

Unnoted(s, u) ==
    /\ Formed(u) /\ u.view = s.view /\ u.myid = s.myid
    /\ u.blocks = s.blocks /\ u.log.newviews = s.log.newviews

(* Such calls follow each other.                                           *)
LEMMA UnnotedOn ==
    /\ \A s : Formed(s) => Unnoted(s, s)
    /\ \A s, u, w : Unnoted(s, u) /\ Unnoted(u, w) => Unnoted(s, w)
BY DEF Unnoted

(* Where no block is noted, none is badly built.                           *)
LEMMA UnnotedBuilds ==
    ASSUME NEW s, NEW u, u.blocks = s.blocks, NEW n
    PROVE  BuiltHighest(n, s, u)
BY DEF BuiltHighest

(* Sending, logging votes and calling the component.                       *)
LEMMA LoggingUnnoted ==
    ASSUME NEW s, Formed(s), NEW m
    PROVE  /\ \A x : Unnoted(s, send(s, x, m))
           /\ \A x, t : Unnoted(s, [send(s, x, m) EXCEPT !.tf = t])
           /\ \A k \in LogFields \ {"newviews"} : Unnoted(s, logVote(s, k, m))
<1>1. ASSUME NEW x, NEW t
      PROVE  /\ Unnoted(s, send(s, x, m))
             /\ Unnoted(s, [send(s, x, m) EXCEPT !.tf = t])
  <2> DEFINE u == send(s, x, m)
  <2>1. /\ DOMAIN u = Fields /\ u.view = s.view /\ u.myid = s.myid
        /\ u.log = s.log /\ u.blocks = s.blocks
        BY DEF Formed, send, Fields
  <2> HIDE DEF u
  <2> DEFINE w == [u EXCEPT !.tf = t]
  <2>2. /\ DOMAIN w = Fields /\ w.view = s.view /\ w.myid = s.myid
        /\ w.log = s.log /\ w.blocks = s.blocks
        BY <2>1 DEF Fields
  <2> HIDE DEF w
  <2>3. Unnoted(s, u) /\ Unnoted(s, w)
        BY <2>1, <2>2 DEF Formed, Unnoted
  <2>4. QED
        BY <2>3 DEF u, w
<1>2. ASSUME NEW k \in LogFields \ {"newviews"}
      PROVE  Unnoted(s, logVote(s, k, m))
  <2> DEFINE new == storeVote(s, k, m).msgs
             l == [s.log EXCEPT ![k] = new]
             u == [s EXCEPT !.log = l]
  <2>1. logVote(s, k, m) = u
        BY DEF logVote
  <2> HIDE DEF new
  <2>2. DOMAIN l = LogFields /\ l.newviews = s.log.newviews
        BY DEF Formed, LogFields
  <2> HIDE DEF l
  <2>3. /\ DOMAIN u = Fields /\ u.view = s.view /\ u.myid = s.myid
        /\ u.log = l /\ u.blocks = s.blocks
        BY DEF Formed, Fields
  <2> HIDE DEF u
  <2>4. QED
        BY <2>1, <2>2, <2>3 DEF Formed, Unnoted
<1>3. QED
      BY <1>1, <1>2

(* executeRData.                                                           *)
LEMMA ExecuteUnnoted ==
    ASSUME NEW s, Formed(s), NEW rdata
    PROVE  Unnoted(s, executeRData(s, rdata))
<1> DEFINE x == Append(s.executed, [view |-> s.view, hash |-> rdata.proph])
           u == [s EXCEPT !.executed = x]
           w == replyHash(u, rdata.proph)
           p == IF timeToStop(s) THEN "none" ELSE "startNewView"
           z == [w EXCEPT !.pending = p]
           Same(y) == /\ DOMAIN y = Fields /\ y.view = s.view /\ y.myid = s.myid
                      /\ y.log = s.log /\ y.blocks = s.blocks
<1>1. z = executeRData(s, rdata)
      BY DEF executeRData
<1> HIDE DEF x, p
<1>2. Same(u)
      BY DEF Formed, Fields
<1> HIDE DEF u
<1>3. \A trans : Same([u EXCEPT !.replied = @ \o trans])
      BY <1>2 DEF Fields
<1>4. Same(w)
  <2>1. CASE w = u
        BY <1>2, <2>1
  <2>2. CASE w = [u EXCEPT !.replied = @ \o u.blocks[u.view].trans]
        BY <1>3, <2>2
  <2>3. QED
        BY <2>1, <2>2 DEF replyHash, replyTransactions
<1> HIDE DEF w
<1>5. Same(z)
      BY <1>4 DEF Fields
<1> HIDE DEF z
<1>6. QED
      BY <1>1, <1>5 DEF Formed, Unnoted

(* initiatePrepare, initiatePrecommit and initiateCommit.                  *)
LEMMA InitiateUnnoted ==
    ASSUME NEW s, Formed(s), NEW rdata
    PROVE  /\ Unnoted(s, initiateCommit(s, rdata))
           /\ Unnoted(s, initiatePrecommit(s, rdata))
           /\ Unnoted(s, initiatePrepare(s, rdata))
<1>1. ASSUME NEW y, Formed(y), NEW data PROVE Unnoted(y, initiateCommit(y, data))
  <2>1. \A x, m : Unnoted(y, executeRData(send(y, x, m), data))
    <3>1. ASSUME NEW x, NEW m PROVE Unnoted(y, executeRData(send(y, x, m), data))
      <4>1. Unnoted(y, send(y, x, m))
            BY <1>1, LoggingUnnoted
      <4>2. QED
            BY <4>1, ExecuteUnnoted, UnnotedOn DEF Unnoted
    <3>2. QED
          BY <3>1
  <2>2. QED
        BY <1>1, <2>1, UnnotedOn DEF initiateCommit
<1>2. ASSUME NEW y, Formed(y), NEW data PROVE Unnoted(y, initiatePrecommit(y, data))
  <2> DEFINE cert == Just(data, get(y.log.precommits, data.propv, QSize))
             r    == TEEstore(y.myid, y.tf, cert)
             s1   == [send(y, remove_from_peers(y), MsgPreCommit(cert))
                         EXCEPT !.tf = r.tee]
             m    == MsgCommit(r.just)
             s2   == logVote(s1, "commits", m)
  <2>1. \/ initiatePrecommit(y, data) = y
        \/ initiatePrecommit(y, data) = s2
        \/ initiatePrecommit(y, data) = initiateCommit(s2, r.just.rdata)
        BY DEF initiatePrecommit
  <2> HIDE DEF cert, r
  <2>2. Unnoted(y, s1)
        BY <1>2, LoggingUnnoted
  <2> HIDE DEF s1, m
  <2>3. Unnoted(s1, s2)
    <3>1. "commits" \in LogFields \ {"newviews"} /\ Formed(s1)
          BY <2>2 DEF LogFields, Unnoted
    <3>2. QED
          BY <3>1, LoggingUnnoted
  <2> HIDE DEF s2
  <2>4. Unnoted(s2, initiateCommit(s2, r.just.rdata))
        BY <1>1, <2>3 DEF Unnoted
  <2>5. QED
        BY <1>2, <2>1, <2>2, <2>3, <2>4, UnnotedOn
<1>3. Unnoted(s, initiatePrepare(s, rdata))
  <2> DEFINE cert == Just(rdata, get(s.log.prepares, rdata.propv, QSize))
             r    == TEEstore(s.myid, s.tf, cert)
             s1   == [send(s, remove_from_peers(s), MsgPrepare(cert))
                         EXCEPT !.tf = r.tee]
             m    == MsgPreCommit(r.just)
             s2   == logVote(s1, "precommits", m)
  <2>1. \/ initiatePrepare(s, rdata) = s
        \/ initiatePrepare(s, rdata) = s2
        \/ initiatePrepare(s, rdata) = initiatePrecommit(s2, r.just.rdata)
        BY DEF initiatePrepare
  <2> HIDE DEF cert, r
  <2>2. Unnoted(s, s1)
        BY LoggingUnnoted
  <2> HIDE DEF s1, m
  <2>3. Unnoted(s1, s2)
    <3>1. "precommits" \in LogFields \ {"newviews"} /\ Formed(s1)
          BY <2>2 DEF LogFields, Unnoted
    <3>2. QED
          BY <3>1, LoggingUnnoted
  <2> HIDE DEF s2
  <2>4. Unnoted(s2, initiatePrecommit(s2, r.just.rdata))
        BY <1>2, <2>3 DEF Unnoted
  <2>5. QED
        BY <2>1, <2>2, <2>3, <2>4, UnnotedOn
<1>4. QED
      BY <1>1, <1>2, <1>3

(* A leader's block is built on the highest report that it has, and its    *)
(* component takes it to be safe.                                          *)
Proposes(s, u) ==
    LET reports == InView(s.log.newviews, s.view)
    IN  /\ Formed(u) /\ u.view = s.view /\ u.myid = s.myid
        /\ u.log.newviews = s.log.newviews
        /\ \/ u.blocks = s.blocks
           \/ \E m \in reports : \E b :
                 /\ u.blocks = assign(s.blocks, s.view, b)
                 /\ Highest(reports, m, b) /\ safenode(s.tf, m.rdata)

(* prepare.                                                                *)
LEMMA PrepareProposes ==
    ASSUME NEW K, NEW n, NEW s, Formed(s), LogSound(K, n, s.log),
           InView(s.log.newviews, s.view) # {}
    PROVE  Proposes(s, prepare(s))
<1> DEFINE reports == InView(s.log.newviews, s.view)
           justNV  == findHighestNv(s.log.newviews, s.view)
           block   == createNewBlock(s, justNV.rdata.justh)
           r       == TEEprepare(s.myid, s.tf, hash(block), justNV)
           msgPrep == MsgPrepare(r.just)
           s0      == popTransactions(s)
           ldrPrep == MsgLdrPrepare(justNV, block, r.just.signs)
           sent    == send(s0, remove_from_peers(s), ldrPrep)
           s1      == [sent EXCEPT !.tf = r.tee, !.blocks = assign(@, s.view, block)]
           s2      == logVote(s1, "prepares", msgPrep)
           u       == prepare(s)
<1>1. IF ~r.just.set THEN u = s0 ELSE u = s2 \/ u = initiatePrepare(s2, r.just.rdata)
      BY DEF prepare
<1>2. PICK m \in reports : /\ justNV = Just(m.rdata, m.signs)
                           /\ \A k \in reports : k.rdata.justv <= m.rdata.justv
  <2>1. IsFiniteSet(s.log.newviews)
        BY DEF LogSound
  <2>2. \A m \in s.log.newviews : Signed(m) /\ m.rdata.justv \in Nat
        BY ReportedFact
  <2>3. QED
        BY <2>1, <2>2, HighestFact
<1>3. justNV.rdata = m.rdata
      BY <1>2 DEF Just
<1> HIDE DEF justNV
<1>4. block.prevHash = m.rdata.justh
      BY <1>3 DEF createNewBlock, Block
<1> HIDE DEF block
<1>5. r.just.set => safenode(s.tf, m.rdata)
      BY <1>3 DEF TEEprepare, Refuse, NoJust
<1> HIDE DEF r, u, msgPrep, ldrPrep
<1>6. Unnoted(s, s0)
      BY DEF popTransactions, Formed, Unnoted, Fields
<1> HIDE DEF s0
<1>7. Unnoted(s0, sent)
      BY <1>6, LoggingUnnoted DEF Unnoted
<1> HIDE DEF sent
<1>8. /\ Formed(s1) /\ s1.view = s.view /\ s1.myid = s.myid
      /\ s1.log.newviews = s.log.newviews
      /\ s1.blocks = assign(s.blocks, s.view, block)
      BY <1>6, <1>7 DEF Unnoted, Formed, Fields
<1> HIDE DEF s1
<1>9. Unnoted(s1, s2)
  <2>1. "prepares" \in LogFields \ {"newviews"}
        BY DEF LogFields
  <2>2. QED
        BY <1>8, <2>1, LoggingUnnoted
<1> HIDE DEF s2
<1>10. Unnoted(s1, initiatePrepare(s2, r.just.rdata))
       BY <1>9, InitiateUnnoted, UnnotedOn DEF Unnoted
<1>11. CASE ~r.just.set
       BY <1>1, <1>6, <1>11 DEF Proposes, Unnoted, u
<1>12. CASE r.just.set
  <2>1. Unnoted(s1, u)
        BY <1>1, <1>9, <1>10, <1>12
  <2>2. Highest(reports, m, block)
        BY <1>2, <1>4 DEF Highest
  <2>3. QED
        BY <1>2, <1>5, <1>8, <1>12, <2>1, <2>2 DEF Proposes, Unnoted, u
<1>13. QED
       BY <1>11, <1>12

(* So that block is as the property wants it.                              *)
LEMMA ProposesBuilds ==
    ASSUME NEW s, NEW w, w.blocks = s.blocks, NEW u, Proposes(w, u), NEW n
    PROVE  BuiltHighest(n, s, u)
<1> DEFINE reports == InView(w.log.newviews, w.view)
<1>1. CASE u.blocks = w.blocks
      BY <1>1, UnnotedBuilds
<1>2. ASSUME NEW m \in reports, NEW b,
             u.blocks = assign(w.blocks, w.view, b), Highest(reports, m, b)
      PROVE  BuiltHighest(n, s, u)
  <2>1. u.blocks[u.view] = b
        BY <1>2 DEF assign, Proposes
  <2>2. QED
        BY <1>2, <2>1 DEF BuiltHighest, Proposes
<1>3. QED
      BY <1>1, <1>2 DEF Proposes

(* handleNewview logs the message, and makes a block if it completes a     *)
(* quorum.                                                                 *)
LEMMA HandleNewviewBuilds ==
    ASSUME NEW K, NEW n \in PID, NEW s, LogSound(K, n, s.log), Formed(s),
           NEW m, NewviewSound(K, m)
    PROVE  BuiltHighest(n, s, handleNewview(s, m))
<1> DEFINE u == logVote(s, "newviews", m)
           r == storeVote(s, "newviews", m)
<1>1. \/ handleNewview(s, m) = s
      \/ m.rdata.phase = NEWVIEW /\ handleNewview(s, m) = u
      \/ /\ m.rdata.phase = NEWVIEW /\ handleNewview(s, m) = prepare(u)
         /\ r.size = QSize /\ m.rdata.propv = s.view
      BY DEF handleNewview, quorumReached
<1>2. /\ u.blocks = s.blocks /\ u.view = s.view /\ DOMAIN u = Fields
      /\ u.log = [s.log EXCEPT !["newviews"] = r.msgs]
  <2> DEFINE l == [s.log EXCEPT !["newviews"] = r.msgs]
  <2>1. u = [s EXCEPT !.log = l]
        BY DEF logVote
  <2> HIDE DEF l
  <2>2. QED
        BY <2>1 DEF Formed, Fields, l
<1>3. ASSUME m.rdata.phase = NEWVIEW, r.size = QSize, m.rdata.propv = s.view
      PROVE  BuiltHighest(n, s, prepare(u))
  <2>1. LogSound(K, n, u.log) /\ u.log.newviews = r.msgs
    <3>1. u.log = [s.log EXCEPT !["newviews"] = store(s.log["newviews"], m).msgs]
          BY <1>2 DEF storeVote
    <3>2. r.msgs = store(s.log.newviews, m).msgs
          BY DEF storeVote
    <3> HIDE DEF u, r
    <3>3. QED
          BY <1>3, <3>1, <3>2, LogNewview
  <2>2. InView(r.msgs, s.view) # {}
    <3>1. ViewOf(m) = s.view
          BY <1>3, ViewOfFact
    <3>2. IsFiniteSet(s.log.newviews)
          BY DEF LogSound
    <3>3. QSize = Cardinality(InView(r.msgs, s.view))
          BY <1>3, <3>1, <3>2, StoreFact, QuorumSizes DEF storeVote
    <3>4. QED
          BY <3>3, QuorumMember, QuorumSizes
  <2> HIDE DEF u, r
  <2>3. Formed(u)
        BY <1>2, <2>1 DEF LogSound, Formed, LogFields
  <2>4. QED
        BY <1>2, <2>1, <2>2, <2>3, PrepareProposes, ProposesBuilds
<1> HIDE DEF u, r
<1>4. QED
      BY <1>1, <1>2, <1>3, UnnotedBuilds

(* A leader that has made its block on entering the view still logs its    *)
(* own new-view message, which is then one more than a quorum.  It reports *)
(* the lock, and the component has taken the block to be safe.             *)
LEMMA OwnNewviewBuilds ==
    ASSUME NEW K, Sound(K), NEW n \in PID, NEW s, Formed(s),
           LogSound(K, n, s.log), Full(s.log.newviews, s.view),
           NEW h, Proposes(s, h), s.tf.lockh \in Chain, s.tf.lockv \in Nat,
           NEW m, NewviewSound(K, m), m.rdata.phase = NEWVIEW,
           m.rdata.propv = s.view,
           m.rdata.justh = s.tf.lockh, m.rdata.justv = s.tf.lockv,
           NEW o, o.blocks = s.blocks
    PROVE  BuiltHighest(n, o, handleNewview(h, m))
<1> DEFINE v   == s.view
           old == s.log.newviews
           r   == store(old, m)
           w   == logVote(h, "newviews", m)
           u   == handleNewview(h, m)
<1>1. /\ Formed(h) /\ h.view = v /\ h.log.newviews = old
      BY DEF Proposes
<1>2. IsFiniteSet(old) /\ ViewOf(m) = v
      BY ViewOfFact DEF LogSound
<1>3. \A k \in old : /\ k.rdata.justv \in Nat /\ k.rdata.justh \in Chain
                     /\ \E g : k.signs = {g}
  <2>1. ASSUME NEW k \in old
        PROVE  /\ NewviewSound(K, k) /\ ReportSound(K, k.rdata)
               /\ k.rdata.justv \in Nat
        BY ReportedFact DEF LogSound
  <2>2. \A k \in old : k.rdata.justh \in Chain
        BY <2>1, ReportFact
  <2>3. QED
        BY <2>1, <2>2 DEF NewviewSound
<1>4. r.size # QSize
  <2>1. Cardinality(InView(old, v)) >= QSize
        BY <1>2, <1>3, GetSingles DEF Full
  <2>2. Cardinality(InView(old, v)) \in Nat /\ QSize \in Nat /\ QSize > 0
        BY <1>2, InViewFinite, QuorumSizes
  <2>3. r.size # 0 => r.size = Cardinality(InView(old, v)) + 1
    <3>1. PICK i \in PID : m.signs = {Signature(i, m.rdata)}
          BY DEF NewviewSound
    <3>2. QED
          BY <1>2, <3>1, StoreSingle
  <2> HIDE DEF r
  <2>4. QED
        BY <2>1, <2>2, <2>3
<1>5. u = h \/ u = w
      BY <1>1, <1>4 DEF handleNewview, quorumReached, storeVote
<1>6. /\ w.blocks = h.blocks /\ w.view = v
      /\ w.log.newviews = r.msgs
  <2> DEFINE l == [h.log EXCEPT !["newviews"] = r.msgs]
  <2>1. w = [h EXCEPT !.log = l]
        BY <1>1 DEF logVote, storeVote
  <2>2. l.newviews = r.msgs
        BY <1>1 DEF Formed, LogFields
  <2> HIDE DEF l
  <2>3. QED
        BY <1>1, <2>1, <2>2 DEF Formed, Fields
<1>7. r.msgs = old \/ r.msgs = old \cup {m}
      BY <1>2, StoreFact
<1> DEFINE here    == InView(old, v)
           reports == InView(u.log.newviews, v)
<1>8. here \subseteq reports /\ reports \subseteq here \cup {m}
  <2>1. u.log.newviews = old \/ u.log.newviews = old \cup {m}
        BY <1>1, <1>5, <1>6, <1>7
  <2> HIDE DEF u
  <2>2. QED
        BY <2>1 DEF InView
<1>9. u.blocks = h.blocks /\ u.view = v
      BY <1>1, <1>5, <1>6
<1> HIDE DEF u, r, w
<1>10. CASE h.blocks = s.blocks
       BY <1>9, <1>10, UnnotedBuilds DEF u
<1>11. ASSUME NEW k \in here, NEW b, h.blocks = assign(s.blocks, v, b),
              Highest(here, k, b), safenode(s.tf, k.rdata)
       PROVE  BuiltHighest(n, o, u)
  <2> HIDE DEF here, reports
  <2>1. u.blocks[v] = b
        BY <1>9, <1>11 DEF assign
  <2> DEFINE Good == \E x \in reports : Highest(reports, x, b)
  <2>2. Good => BuiltHighest(n, o, u)
        BY <1>9, <2>1 DEF BuiltHighest, reports
  <2>3. /\ k.rdata.justv \in Nat /\ k.rdata.justh \in Chain
        /\ \A x \in here : x.rdata.justv <= k.rdata.justv /\ x.rdata.justv \in Nat
        /\ k.rdata.justh = b.prevHash
    <3>1. here \subseteq old
          BY DEF InView, here
    <3>2. QED
          BY <1>3, <1>11, <3>1 DEF Highest
  <2>4. CASE m.rdata.justv <= k.rdata.justv
    <3>1. Highest(reports, k, b)
          BY <1>8, <2>3, <2>4 DEF Highest
    <3>2. QED
          BY <1>8, <1>11, <2>2, <3>1
  <2>5. CASE ~(m.rdata.justv <= k.rdata.justv)
    <3>1. k.rdata.justh = s.tf.lockh
          BY <1>11, <2>3, <2>5, SameChain DEF safenode
    <3>2. CASE m \in reports
      <4>1. \A x \in here : x.rdata.justv <= m.rdata.justv
            BY <2>3, <2>5
      <4>2. Highest(reports, m, b)
            BY <1>8, <2>3, <3>1, <4>1 DEF Highest
      <4>3. QED
            BY <2>2, <3>2, <4>2
    <3>3. CASE m \notin reports
      <4>1. Highest(reports, k, b)
            BY <1>8, <2>3, <3>3 DEF Highest
      <4>2. QED
            BY <1>8, <1>11, <2>2, <4>1
    <3>4. QED
          BY <3>2, <3>3
  <2>6. QED
        BY <2>4, <2>5
<1>12. QED
       BY <1>10, <1>11 DEF Proposes, u

(* A block that a replica notes in a view of another leader is not its own *)
(* (respondToProposal, catchUp).                                           *)
LEMMA OthersBuilds ==
    ASSUME NEW s, NEW u, u.view = s.view, NEW n, getLeaderOf(s.view) # n, NEW o
    PROVE  BuiltHighest(n, o, u)
BY DEF BuiltHighest

(* startNewView: what has been received for the new view may be a quorum   *)
(* of new-view messages, or the replica's own one completes it.            *)
LEMMA StartNewViewBuilds ==
    ASSUME NEW K, Sound(K), NEW n \in PID, NEW s, ReplicaSound(K, n, s),
           Regular(s)
    PROVE  BuiltHighest(n, s, startNewView(s))
<1> DEFINE r  == TEEsignPast(s.myid, s.tf, s.view)
           o  == [s EXCEPT !.tf = r.tee, !.view = @ + 1, !.pending = "none"]
           s1 == setTimer(o)
           m  == MsgNewView(r.just)
           s2 == send(s1, currentLeader(s1), m)
           h1 == handleEarlierMessages(s1)
           h2 == handleEarlierMessages(s2)
           u  == startNewView(s)
<1>1. /\ s.myid = n /\ s.view \in Nat /\ DOMAIN s = Fields
      /\ ComponentSound(K, n, s.tf) /\ LogSound(K, n, s.log)
      /\ InOrder(s.tf) /\ Filed(s.log)
      BY DEF ReplicaSound, BodySound, Shape, Regular
<1>2. /\ DOMAIN s.tf = ComponentFields /\ s.tf.lockh \in Chain
      /\ s.tf.lockv \in Nat /\ s.tf.view \in Nat /\ s.tf.phase \in Phase
      /\ s.tf.preph = s.tf.lockh /\ s.tf.prepv = s.tf.lockv
  <2>1. /\ DOMAIN s.tf = ComponentFields /\ s.tf.lockh \in Chain
        /\ s.tf.lockv \in Nat /\ s.tf.view \in Nat /\ s.tf.phase \in Phase
        BY <1>1, LockFact
  <2>2. s.tf.preph = s.tf.lockh /\ s.tf.prepv = s.tf.lockv
        BY <1>1 DEF ComponentSound
  <2>3. QED
        BY <2>1, <2>2
<1>3. Passes(s.tf, r.tee)
      BY <1>1, <1>2, TEEsignPastPasses
<1>4. PICK w \in Nat, p \in Phase :
          LET rd == RData(Dummy, w, s.tf.preph, s.tf.prepv, p)
          IN  /\ r.just = Just(rd, {Signature(n, rd)})
              /\ Stamp(s.tf.view, s.tf.phase) <= Stamp(w, p)
              /\ Stamp(w, p) < Stamp(r.tee.view, r.tee.phase)
      BY <1>1, <1>2, SignPastFact
<1> DEFINE rd == RData(Dummy, w, s.tf.preph, s.tf.prepv, p)
<1>5. r.just = Just(rd, {Signature(n, rd)}) /\ rd.propv = w /\ rd.phase = p
          /\ r.just.rdata = rd /\ rd.justh = s.tf.lockh /\ rd.justv = s.tf.lockv
      BY <1>2, <1>4 DEF RData, Just
<1>6. p = NEWVIEW => ReportSound(K, rd)
      BY <1>1, <1>4, ReportedLock
<1>7. NewviewSound(K, m) /\ m.rdata = rd
  <2>1. NewviewSound(K, m)
        BY <1>5, <1>6, NewviewFact
  <2>2. m.rdata = rd
        BY <1>5 DEF MsgNewView, Msg
  <2>3. QED
        BY <2>1, <2>2
<1>8. r.tee.lockh = s.tf.lockh /\ r.tee.lockv = s.tf.lockv
      BY <1>2 DEF TEEsignPast, ComponentFields
<1>9. \/ u = s1
      \/ ~amCurrentLeader(s1) /\ u = h2
      \/ /\ amCurrentLeader(s1) /\ u = handleNewview(h1, m)
         /\ rd.propv = s1.view /\ rd.phase = NEWVIEW
      BY <1>5 DEF startNewView
<1> HIDE DEF r, rd, m, u
<1>10. /\ DOMAIN s1 = Fields /\ s1.tf = r.tee /\ s1.view = s.view + 1
       /\ s1.myid = n /\ s1.started = s.started /\ s1.log = s.log
       /\ s1.blocks = s.blocks
  <2>1. /\ DOMAIN o = Fields /\ o.tf = r.tee /\ o.view = s.view + 1
        /\ o.myid = n /\ o.started = s.started /\ o.log = s.log
        /\ o.blocks = s.blocks
        BY <1>1 DEF Fields
  <2> HIDE DEF o
  <2>2. QED
        BY <2>1 DEF setTimer, Fields
<1> HIDE DEF o, s1
<1>11. Regular(s1) /\ Formed(s1)
       BY <1>1, <1>3, <1>10 DEF Regular, Passes, Formed, Filed
<1>12. CASE u = s1
       BY <1>10, <1>12, UnnotedBuilds DEF u
<1>13. CASE ~amCurrentLeader(s1) /\ u = h2
  <2>1. Keeps(s1, s2) /\ s2.tf = s1.tf
        BY <1>10, SendKeeps
  <2> HIDE DEF s2
  <2>2. Regular(s2) /\ s2.view = s1.view
        BY <1>11, <2>1 DEF Regular, Keeps
  <2>3. h2.view = s1.view
        BY <2>2, HandleEarlierEnters DEF Enters, Runs
  <2>4. getLeaderOf(s1.view) # n
        BY <1>10, <1>13 DEF amCurrentLeader, amLeaderOf
  <2> HIDE DEF h2
  <2>5. QED
        BY <1>13, <2>3, <2>4, OthersBuilds DEF u
<1>14. CASE /\ amCurrentLeader(s1) /\ u = handleNewview(h1, m)
            /\ rd.propv = s1.view /\ rd.phase = NEWVIEW
  <2>1. \/ h1 = s1
        \/ Full(s1.log.newviews, s1.view) /\ h1 = prepare(s1)
        BY <1>14 DEF handleEarlierMessages
  <2> HIDE DEF h1
  <2>2. CASE h1 = s1
    <3>1. BuiltHighest(n, s1, handleNewview(s1, m))
          BY <1>1, <1>7, <1>10, <1>11, HandleNewviewBuilds
    <3>2. BuiltHighest(n, s1, u)
          BY <1>14, <2>2, <3>1
    <3>3. QED
          BY <1>10, <3>2 DEF BuiltHighest, u
  <2>3. CASE Full(s1.log.newviews, s1.view) /\ h1 = prepare(s1)
    <3>1. Proposes(s1, h1)
          BY <1>1, <1>10, <1>11, <2>3, FullFact, PrepareProposes
    <3>2. BuiltHighest(n, s, handleNewview(h1, m))
          BY <1>1, <1>2, <1>5, <1>7, <1>8, <1>10, <1>11, <1>14, <2>3, <3>1,
             OwnNewviewBuilds
    <3>3. QED
          BY <1>14, <3>2 DEF u
  <2>4. QED
        BY <2>1, <2>2, <2>3
<1>15. QED
       BY <1>9, <1>12, <1>13, <1>14

(* getStarted: the leader of the first view counts its own message.        *)
LEMMA GetStartedBuilds ==
    ASSUME NEW K, Sound(K), NEW n \in PID, NEW s, ReplicaSound(K, n, s)
    PROVE  BuiltHighest(n, s, getStarted(s))
<1> DEFINE r  == TEEsign(s.myid, s.tf)
           s1 == [s EXCEPT !.tf = r.tee]
           m  == MsgNewView(r.just)
           s2 == send(s1, currentLeader(s1), m)
           rd == RData(Dummy, s.tf.view, s.tf.preph, s.tf.prepv, s.tf.phase)
<1>1. /\ s.myid = n /\ DOMAIN s = Fields /\ ComponentSound(K, n, s.tf)
      /\ LogSound(K, n, s.log) /\ Formed(s)
      BY DEF ReplicaSound, BodySound, Shape, LogSound, Formed, LogFields
<1>2. \/ getStarted(s) = handleNewview(s1, m)
      \/ getStarted(s) = s2
      BY DEF getStarted
<1>3. /\ r.just = Just(rd, {Signature(n, rd)})
      /\ rd.propv = s.tf.view /\ rd.phase = s.tf.phase
      BY <1>1 DEF TEEsign, sign, RData
<1>4. /\ s.tf.view \in Nat
      /\ Stamp(s.tf.view, s.tf.phase) <= Stamp(s.tf.view, s.tf.phase)
  <2>1. s.tf.view \in Nat /\ s.tf.phase \in Phase
        BY <1>1, LockFact
  <2>2. QED
        BY <2>1, StampOrder
<1>5. NewviewSound(K, m)
  <2>1. s.tf.phase = NEWVIEW => ReportSound(K, rd)
        BY <1>1, <1>4, ReportedLock
  <2>2. QED
        BY <1>3, <1>4, <2>1, NewviewFact
<1> HIDE DEF r, m
<1>6. /\ Formed(s1) /\ s1.blocks = s.blocks /\ s1.log = s.log
      BY <1>1 DEF Formed, Fields
<1> HIDE DEF s1
<1>7. s2.blocks = s.blocks
  <2>1. Unnoted(s1, s2)
        BY <1>6, LoggingUnnoted
  <2>2. QED
        BY <1>6, <2>1 DEF Unnoted
<1>8. BuiltHighest(n, s1, handleNewview(s1, m))
      BY <1>1, <1>5, <1>6, HandleNewviewBuilds
<1>9. BuiltHighest(n, s, handleNewview(s1, m)) /\ BuiltHighest(n, s, s2)
      BY <1>6, <1>7, <1>8, UnnotedBuilds DEF BuiltHighest
<1>10. QED
       BY <1>2, <1>9

(* Certificates and commits: no block.                                     *)
LEMMA VotesUnnoted ==
    ASSUME NEW s, Formed(s), NEW m
    PROVE  /\ Unnoted(s, handlePrepare(s, m))
           /\ Unnoted(s, handlePrecommit(s, m))
           /\ Unnoted(s, handleCommit(s, m))
<1> DEFINE j == Just(m.rdata, m.signs)
           a == logVote(s, "prepares", m)
           b == logVote(s, "precommits", m)
           c == logVote(s, "commits", m)
<1>1. Unnoted(s, s) /\ Unnoted(s, a) /\ Unnoted(s, b) /\ Unnoted(s, c)
  <2>1. {"prepares", "precommits", "commits"} \subseteq LogFields \ {"newviews"}
        BY DEF LogFields
  <2>2. QED
        BY <2>1, LoggingUnnoted, UnnotedOn
<1>2. /\ handlePrepare(s, m) \in
             {s, a, initiatePrepare(a, m.rdata), respondToPrepareJust(s, j)}
      /\ handlePrecommit(s, m) \in
             {s, b, initiatePrecommit(b, m.rdata), respondToPreCommitJust(s, j)}
      /\ handleCommit(s, m) \in
             {s, c, initiateCommit(c, m.rdata), executeRData(s, m.rdata)}
      BY DEF handlePrepare, handlePrecommit, handleCommit
<1> HIDE DEF a, b, c, j
<1>3. /\ Unnoted(a, initiatePrepare(a, m.rdata))
      /\ Unnoted(b, initiatePrecommit(b, m.rdata))
      /\ Unnoted(c, initiateCommit(c, m.rdata))
      /\ Unnoted(s, executeRData(s, m.rdata))
      BY <1>1, InitiateUnnoted, ExecuteUnnoted DEF Unnoted
<1>4. Unnoted(s, respondToPrepareJust(s, j)) /\ Unnoted(s, respondToPreCommitJust(s, j))
  <2> DEFINE r == TEEstore(s.myid, s.tf, j)
  <2>1. /\ respondToPrepareJust(s, j) =
               [send(s, currentLeader(s), MsgPreCommit(r.just)) EXCEPT !.tf = r.tee]
        /\ respondToPreCommitJust(s, j) =
               [send(s, currentLeader(s), MsgCommit(r.just)) EXCEPT !.tf = r.tee]
        BY DEF respondToPrepareJust, respondToPreCommitJust
  <2> HIDE DEF r
  <2>2. \A k : Unnoted(s, [send(s, currentLeader(s), k) EXCEPT !.tf = r.tee])
        BY LoggingUnnoted
  <2>3. QED
        BY <2>1, <2>2
<1>5. /\ Unnoted(s, initiatePrepare(a, m.rdata))
      /\ Unnoted(s, initiatePrecommit(b, m.rdata))
      /\ Unnoted(s, initiateCommit(c, m.rdata))
      BY <1>1, <1>3, UnnotedOn
<1>6. QED
      BY <1>1, <1>2, <1>3, <1>4, <1>5

(* handleLdrPrepare: a proposal comes from the leader of its view and does *)
(* not go to itself.                                                       *)
LEMMA HandleLdrPrepareBuilds ==
    ASSUME NEW s, Regular(s), NEW n, NEW m, getLeaderOf(m.just.rdata.propv) # n
    PROVE  BuiltHighest(n, s, handleLdrPrepare(s, m))
<1> DEFINE u == respondToProposal(s, m.just, m.block)
           w == logVote(s, "proposals", m)
<1>1. \/ handleLdrPrepare(s, m) = s
      \/ handleLdrPrepare(s, m) = w
      \/ m.just.rdata.propv = s.view /\ handleLdrPrepare(s, m) = u
      BY DEF handleLdrPrepare
<1>2. w.blocks = s.blocks
      BY DEF logVote, Regular, Fields
<1>3. m.just.rdata.propv = s.view => u.view = s.view
      BY RespondToProposalWorks DEF Works, Runs
<1> HIDE DEF u, w
<1>4. QED
      BY <1>1, <1>2, <1>3, UnnotedBuilds, OthersBuilds

(* All replicas.                                                           *)
HighestStep == \A n \in PID : BuiltHighest(n, node[n], node'[n])

(* A message arrives.                                                      *)
LEMMA DeliverBuilds ==
    ASSUME Accounted, Orderly, NEW p \in PID, NEW n \in PID, Deliver(p, n)
    PROVE  HighestStep
<1> DEFINE k == Upcoming(p, n)
           m == node[p].out[n][k]
           q == [node[p] EXCEPT !.out[n] = SubSeq(@, k + 1, Len(@))]
<1>1. PICK K : Sound(K) /\ \A i \in PID : ReplicaSound(K, i, node[i])
      BY DEF Accounted
<1>2. p # n /\ DOMAIN node = PID /\ node[p].out[n] # <<>>
      BY DEF Accounted, Deliver, HandleNewview, HandleLdrPrepare,
             HandlePrepare, HandlePrecommit, HandleCommit, Receive, CanReceive
<1>3. PICK u : /\ \/ u = node[n]
                  \/ m.type = "newview" /\ u = handleNewview(node[n], m)
                  \/ m.type = "ldrprepare" /\ u = handleLdrPrepare(node[n], m)
                  \/ u = handlePrepare(node[n], m)
                  \/ u = handlePrecommit(node[n], m)
                  \/ u = handleCommit(node[n], m)
               /\ node' = [node EXCEPT
                      ![p].out[n] = SubSeq(@, k + 1, Len(@)), ![n] = u]
      BY DEF Deliver, HandleNewview, HandleLdrPrepare,
             HandlePrepare, HandlePrecommit, HandleCommit, Receive
<1>4. node' = [node EXCEPT ![p] = q, ![n] = u]
      BY <1>2, <1>3
<1>5. MessageSound(K, n, m)
      BY <1>1, <1>2, UpcomingFact
<1> HIDE DEF m, k
<1>6. BuiltHighest(n, node[n], u)
  <2>1. /\ Regular(node[n]) /\ Formed(node[n]) /\ LogSound(K, n, node[n].log)
        BY <1>1 DEF Orderly, Regular, Filed, Formed, ReplicaSound, BodySound
  <2>2. m.type = "newview" => BuiltHighest(n, node[n], handleNewview(node[n], m))
        BY <1>5, <2>1, MessageByType, HandleNewviewBuilds
  <2>3. m.type = "ldrprepare" => BuiltHighest(n, node[n], handleLdrPrepare(node[n], m))
        BY <1>5, <2>1, MessageByType, HandleLdrPrepareBuilds
  <2>4. /\ BuiltHighest(n, node[n], handlePrepare(node[n], m))
        /\ BuiltHighest(n, node[n], handlePrecommit(node[n], m))
        /\ BuiltHighest(n, node[n], handleCommit(node[n], m))
        /\ BuiltHighest(n, node[n], node[n])
        BY <2>1, VotesUnnoted, UnnotedBuilds DEF Unnoted
  <2>5. QED
        BY <1>3, <2>2, <2>3, <2>4
<1>7. q.blocks = node[p].blocks
      BY DEF Orderly, Regular, Fields
<1> HIDE DEF q
<1>8. /\ node'[n] = u /\ node'[p] = q
      /\ \A i \in PID \ {n, p} : node'[i] = node[i]
      BY <1>2, <1>4
<1>9. ASSUME NEW i \in PID PROVE BuiltHighest(i, node[i], node'[i])
  <2>1. CASE i = n
        BY <1>6, <1>8, <2>1
  <2>2. CASE i # n
    <3>1. node'[i].blocks = node[i].blocks
          BY <1>7, <1>8, <2>2
    <3>2. QED
          BY <3>1, UnnotedBuilds
  <2>3. QED
        BY <2>1, <2>2
<1>10. QED
       BY <1>9 DEF HighestStep

(* A replica moves on its own.                                             *)
LEMMA OwnBuilds ==
    ASSUME Accounted, Orderly, NEW n \in PID,
           \/ Start(n) \/ StartNewView(n) \/ Timeout(n)
           \/ HandleTransaction(n) \/ Pause(n) \/ Resume(n)
    PROVE  HighestStep
<1> DEFINE s == node[n]
<1>1. PICK K : Sound(K) /\ ReplicaSound(K, n, s)
      BY DEF Accounted
<1>2. DOMAIN node = PID /\ DOMAIN s = Fields /\ Regular(s)
      BY DEF Orderly, Regular
<1>3. ASSUME NEW u, BuiltHighest(n, s, u), node' = [node EXCEPT ![n] = u]
      PROVE  HighestStep
  <2>1. ASSUME NEW i \in PID PROVE BuiltHighest(i, node[i], node'[i])
    <3>1. node'[i] = IF i = n THEN u ELSE node[i]
          BY <1>2, <1>3
    <3>2. CASE i = n
          BY <1>3, <3>1, <3>2
    <3>3. CASE i # n
          BY <3>1, <3>3, UnnotedBuilds
    <3>4. QED
          BY <3>2, <3>3
  <2>2. QED
        BY <2>1 DEF HighestStep
<1>4. CASE Start(n)
  <2> DEFINE x == [s EXCEPT !.started = TRUE]
  <2>1. node' = [node EXCEPT ![n] = getStarted(x)]
        BY <1>4 DEF Start
  <2>2. Agree(s, x) /\ x.tf = s.tf /\ x.blocks = s.blocks
        BY <1>2 DEF Agree, Fields
  <2> HIDE DEF x
  <2>3. BuiltHighest(n, x, getStarted(x))
        BY <1>1, <2>2, AgreeLeads, GetStartedBuilds
  <2>4. BuiltHighest(n, s, getStarted(x))
        BY <2>2, <2>3 DEF BuiltHighest
  <2>5. QED
        BY <1>3, <2>1, <2>4
<1>5. BuiltHighest(n, s, startNewView(s))
      BY <1>1, <1>2, StartNewViewBuilds
<1>6. CASE StartNewView(n)
  <2>1. node' = [node EXCEPT ![n] = startNewView(s)]
        BY <1>6 DEF StartNewView
  <2>2. QED
        BY <1>3, <1>5, <2>1
<1>7. CASE Timeout(n)
  <2> DEFINE u == [s EXCEPT !.stopped = TRUE, !.timer = FALSE]
  <2>1. \/ node' = [node EXCEPT ![n] = u]
        \/ node' = [node EXCEPT ![n] = startNewView(s)]
        BY <1>7 DEF Timeout, TimerExpires
  <2>2. u.blocks = s.blocks
        BY <1>2 DEF Fields
  <2> HIDE DEF u
  <2>3. QED
        BY <1>3, <1>5, <2>1, <2>2, UnnotedBuilds
<1>8. CASE HandleTransaction(n) \/ Pause(n) \/ Resume(n)
  <2> DEFINE queue == IF s.isPaused THEN s.transactions
                      ELSE Append(s.transactions, Head(s.fromClient))
             taken == [s EXCEPT !.fromClient = Tail(s.fromClient),
                                !.transactions = queue]
             paused(b) == [s EXCEPT !.isPaused = b]
  <2>1. \/ node' = [node EXCEPT ![n] = taken]
        \/ node' = [node EXCEPT ![n] = paused(TRUE)]
        \/ node' = [node EXCEPT ![n] = paused(FALSE)]
        BY <1>8 DEF HandleTransaction, Pause, Resume
  <2> HIDE DEF queue
  <2>2. /\ taken.blocks = s.blocks /\ paused(TRUE).blocks = s.blocks
        /\ paused(FALSE).blocks = s.blocks
        BY <1>2 DEF Fields
  <2> HIDE DEF taken, paused
  <2>3. QED
        BY <1>3, <2>1, <2>2, UnnotedBuilds
<1>9. QED
      BY <1>4, <1>6, <1>7, <1>8

(* When a leader proposes, the parent of its block is reported by one of   *)
(* the new-view messages that it has logged, and none reports a block      *)
(* prepared in a later view, also when its own message comes in last.      *)
THEOREM BuiltOnHighest == Spec => HighestParent
<1>1. ASSUME Accounted, Orderly, Next PROVE HighestStep
      BY <1>1, OwnBuilds, DeliverBuilds DEF Next, Step
<1>2. HighestStep =>
          \A n \in PID :
              LET v == node'[n].view
              IN  /\ getLeaderOf(v) = n
                  /\ v \in DOMAIN node'[n].blocks \ DOMAIN node[n].blocks
                  => LET reports == InView(node'[n].log.newviews, v)
                     IN  \E m \in reports :
                            /\ m.rdata.justh = node'[n].blocks[v].prevHash
                            /\ \A k \in reports : k.rdata.justv <= m.rdata.justv
      BY DEF HighestStep, BuiltHighest, Highest
<1>3. QED
      BY <1>1, <1>2, AlwaysAccounted, AlwaysOrderly, PTL DEF Spec, HighestParent

-----------------------------------------------------------------------------
(* The types of data.                                                      *)

(* Blocks are known by the chain they commit to; only new-view messages    *)
(* sign the unset hash.                                                    *)
Transactions == Seq(1 .. NumInstances)
VoteData     == RDataOver(Chain)
NewviewData  == {d \in RDataOver(Hashes) : d.justh \in Chain}
DataOf(type) == IF type = "newview" THEN NewviewData ELSE VoteData

Signatures   == {signs \in SUBSET Tokens : IsFiniteSet(signs)}
JustsOver(D) == [set : BOOLEAN, rdata : D, signs : Signatures]
BlockSet     == [prevHash : Chain, trans : Transactions]

VoteTypes       == {"newview", "prepare", "precommit", "commit"}
VoteSet(type)   == [type : {type}, rdata : DataOf(type), signs : Signatures]
ProposalSet     == [type : {"ldrprepare"}, just : JustsOver(NewviewData),
                    block : BlockSet, signs : Signatures]
MessageSet(type) == IF type = "ldrprepare" THEN ProposalSet ELSE VoteSet(type)
MessageSets     == ProposalSet \cup UNION {VoteSet(type) : type \in VoteTypes}

ComponentSet ==
    [lockh : Chain, lockv : Nat, preph : Chain, prepv : Nat, view : Nat,
     phase : Phase, signed : SUBSET RDataOver(Hashes)]

Entries == [view : Nat, hash : Hashes]

(* A chain is a hash, and what a component that refuses returns is data of *)
(* a vote.                                                                 *)
LEMMA DataFact ==
    /\ Chain \subseteq Hashes /\ Genesis \in Chain
    /\ VoteData \subseteq NewviewData /\ NewviewData \subseteq RDataOver(Hashes)
    /\ NoJust \in JustsOver(VoteData)
    /\ JustsOver(VoteData) \subseteq JustsOver(NewviewData)
<1>1. Chain \subseteq Hashes /\ Genesis \in Chain
      BY GenesisFact DEF Chain, Hashes
<1>2. VoteData \subseteq NewviewData /\ NewviewData \subseteq RDataOver(Hashes)
      BY <1>1 DEF VoteData, NewviewData, RDataOver
<1>3. NoJust.rdata \in VoteData /\ {} \in Signatures
      BY <1>1, FS_EmptySet DEF NoJust, VoteData, RDataOver, RData, Phase, Signatures
<1>4. NoJust \in JustsOver(VoteData)
      BY <1>3 DEF NoJust, JustsOver
<1>5. JustsOver(VoteData) \subseteq JustsOver(NewviewData)
      BY <1>2 DEF JustsOver
<1>6. QED
      BY <1>1, <1>2, <1>4, <1>5

(* The hash of a block is a chain (Block::hash).                           *)
LEMMA HashTyped ==
    ASSUME NEW b \in BlockSet
    PROVE  hash(b) \in Chain
<1>1. Transactions \subseteq Seq(Nat)
      BY ReplicaAssumption DEF Transactions
<1>2. b.prevHash \in Chain /\ b.trans \in Seq(Nat)
      BY <1>1 DEF BlockSet
<1>3. QED
      BY <1>2 DEF hash, Chain

(* Signatures of data, one or none, are signatures.                        *)
LEMMA SignatureTyped ==
    ASSUME NEW n \in PID, NEW d \in RDataOver(Hashes)
    PROVE  {Signature(n, d)} \in Signatures
<1>1. Signature(n, d) \in Tokens
      BY DEF Signature, Tokens
<1>2. QED
      BY <1>1, FS_Singleton DEF Signatures

(* sign.                                                                   *)
LEMMA SignTyped ==
    ASSUME NEW n \in PID, NEW t \in ComponentSet, NEW h1 \in Hashes,
           NEW h2 \in Chain, NEW v2 \in Nat
    PROVE  LET r == sign(n, t, h1, h2, v2)
           IN  /\ r.tee \in ComponentSet
               /\ r.just \in JustsOver(NewviewData)
               /\ h1 \in Chain => r.just \in JustsOver(VoteData)
<1> DEFINE d == RData(h1, t.view, h2, v2, t.phase)
           x == [t EXCEPT !.signed = @ \cup {d}]
           j == Just(d, {Signature(n, d)})
<1>1. d \in RDataOver(Hashes) /\ d.justh \in Chain /\ (h1 \in Chain => d \in VoteData)
  <2>1. h2 \in Hashes /\ t.view \in Nat /\ t.phase \in Phase
        BY DataFact DEF ComponentSet
  <2>2. QED
        BY <2>1 DEF RData, RDataOver, VoteData
<1>2. {Signature(n, d)} \in Signatures
      BY <1>1, SignatureTyped
<1> HIDE DEF d
<1>3. x \in ComponentSet
      BY <1>1 DEF ComponentSet
<1> HIDE DEF x
<1>4. increment(x) \in ComponentSet
  <2>1. NEWVIEW \in Phase /\ x.view + 1 \in Nat
        BY <1>3 DEF ComponentSet, Phase
  <2>2. CASE x.phase = COMMIT
        BY <1>3, <2>1, <2>2 DEF increment, ComponentSet
  <2>3. CASE x.phase # COMMIT
    <3>1. x.phase + 1 \in Phase
          BY <1>3, <2>3 DEF ComponentSet, Phase, NEWVIEW, PREPARE, PRECOMMIT, COMMIT
    <3>2. QED
          BY <1>3, <2>3, <3>1 DEF increment, ComponentSet
  <2>4. QED
        BY <2>2, <2>3
<1>5. /\ d \in NewviewData => j \in JustsOver(NewviewData)
      /\ d \in VoteData => j \in JustsOver(VoteData)
      BY <1>2 DEF Just, JustsOver
<1>6. d \in NewviewData
      BY <1>1 DEF NewviewData
<1>7. sign(n, t, h1, h2, v2).tee = increment(x) /\ sign(n, t, h1, h2, v2).just = j
      BY DEF sign, d, x
<1> HIDE DEF j
<1>8. QED
      BY <1>1, <1>4, <1>5, <1>6, <1>7

(* TEEsign.                                                                *)
LEMMA TEEsignTyped ==
    ASSUME NEW n \in PID, NEW t \in ComponentSet
    PROVE  LET r == TEEsign(n, t)
           IN  r.tee \in ComponentSet /\ r.just \in JustsOver(NewviewData)
<1>1. Dummy \in Hashes /\ t.preph \in Chain /\ t.prepv \in Nat
      BY DEF Hashes, ComponentSet
<1>2. QED
      BY <1>1, SignTyped DEF TEEsign

(* TEEprepare.                                                             *)
LEMMA TEEprepareTyped ==
    ASSUME NEW n \in PID, NEW t \in ComponentSet, NEW h \in Chain,
           NEW j \in JustsOver(NewviewData)
    PROVE  LET r == TEEprepare(n, t, h, j)
           IN  r.tee \in ComponentSet /\ r.just \in JustsOver(VoteData)
<1> DEFINE r == TEEprepare(n, t, h, j)
<1>1. /\ j.rdata.justh \in Chain /\ j.rdata.justv \in Nat /\ h \in Hashes
      BY DataFact DEF JustsOver, NewviewData, RDataOver
<1>2. CASE r = sign(n, t, h, j.rdata.justh, j.rdata.justv)
      BY <1>1, <1>2, SignTyped
<1>3. CASE r = Refuse(t)
      BY <1>3, DataFact DEF Refuse
<1>4. QED
      BY <1>2, <1>3 DEF TEEprepare

(* TEEstore.                                                               *)
LEMMA TEEstoreTyped ==
    ASSUME NEW n \in PID, NEW t \in ComponentSet, NEW j \in JustsOver(VoteData)
    PROVE  LET r == TEEstore(n, t, j)
           IN  r.tee \in ComponentSet /\ r.just \in JustsOver(VoteData)
<1> DEFINE r == TEEstore(n, t, j)
           x == record(t, j.rdata)
<1>1. /\ j.rdata.proph \in Chain /\ j.rdata.propv \in Nat
      BY DEF JustsOver, VoteData, RDataOver
<1>2. x \in ComponentSet
      BY <1>1 DEF record, ComponentSet
<1> HIDE DEF x
<1>3. CASE r = sign(n, x, j.rdata.proph, Genesis, 0)
      BY <1>1, <1>2, <1>3, SignTyped, DataFact
<1>4. CASE r = Refuse(t)
      BY <1>4, DataFact DEF Refuse
<1>5. QED
      BY <1>3, <1>4 DEF TEEstore, x

(* The loop of startNewView.                                               *)
LEMMA TEEsignPastTyped ==
    ASSUME NEW n \in PID, NEW t \in ComponentSet, NEW v \in Nat
    PROVE  LET r == TEEsignPast(n, t, v)
           IN  r.tee \in ComponentSet /\ r.just \in JustsOver(NewviewData)
<1> DEFINE last  == lastStamp(t, v)
           At(s) == RData(Dummy, s \div 4, t.preph, t.prepv, s % 4)
           more  == {At(s) : s \in Stamp(t.view, t.phase) .. last}
           u     == [t EXCEPT !.view = (last + 1) \div 4,
                              !.phase = (last + 1) % 4,
                              !.signed = @ \cup more]
           j     == Just(At(last), {Signature(n, At(last))})
<1>1. /\ TEEsignPast(n, t, v).tee = u /\ TEEsignPast(n, t, v).just = j
      BY DEF TEEsignPast
<1>2. Stamp(t.view, t.phase) \in Nat /\ last \in Nat
      BY DEF ComponentSet, Stamp, lastStamp, Phase, NEWVIEW, PREPARE, PRECOMMIT, COMMIT
<1> HIDE DEF last
<1>3. \A s \in Nat : s \div 4 \in Nat /\ s % 4 \in Phase
      BY DEF Phase, NEWVIEW, PREPARE, PRECOMMIT, COMMIT
<1>4. \A s \in Nat : At(s) \in RDataOver(Hashes) /\ At(s).justh \in Chain
  <2>1. Dummy \in Hashes /\ t.preph \in Chain /\ t.preph \in Hashes /\ t.prepv \in Nat
        BY DataFact DEF Hashes, ComponentSet
  <2>2. QED
        BY <1>3, <2>1 DEF RData, RDataOver
<1>5. last + 1 \in Nat /\ \A s \in Stamp(t.view, t.phase) .. last : s \in Nat
      BY <1>2
<1> HIDE DEF At
<1>6. more \subseteq RDataOver(Hashes)
      BY <1>4, <1>5
<1> HIDE DEF more
<1>7. u \in ComponentSet
      BY <1>3, <1>5, <1>6 DEF ComponentSet
<1>8. At(last) \in NewviewData /\ {Signature(n, At(last))} \in Signatures
      BY <1>2, <1>4, SignatureTyped DEF NewviewData
<1>9. j \in JustsOver(NewviewData)
      BY <1>8 DEF Just, JustsOver
<1>10. QED
       BY <1>1, <1>7, <1>9

(* The messages made of data and signatures.                               *)
LEMMA MessageTyped ==
    /\ \A type \in VoteTypes : \A j \in JustsOver(DataOf(type)) :
           Msg(type, j.rdata, j.signs) \in VoteSet(type)
    /\ \A j \in JustsOver(VoteData) : /\ MsgPrepare(j) \in VoteSet("prepare")
                                      /\ MsgPreCommit(j) \in VoteSet("precommit")
                                      /\ MsgCommit(j) \in VoteSet("commit")
    /\ \A j \in JustsOver(NewviewData) : MsgNewView(j) \in VoteSet("newview")
    /\ \A type \in VoteTypes : VoteSet(type) \subseteq MessageSets
    /\ ProposalSet \subseteq MessageSets
<1>1. ASSUME NEW type \in VoteTypes, NEW j \in JustsOver(DataOf(type))
      PROVE  Msg(type, j.rdata, j.signs) \in VoteSet(type)
      BY DEF Msg, VoteSet, JustsOver
<1>2. /\ DataOf("newview") = NewviewData /\ DataOf("prepare") = VoteData
      /\ DataOf("precommit") = VoteData /\ DataOf("commit") = VoteData
      BY DEF DataOf
<1>3. QED
      BY <1>1, <1>2 DEF VoteTypes, MessageSets, MsgPrepare, MsgPreCommit, MsgCommit, MsgNewView

-----------------------------------------------------------------------------
(* The types of a replica.                                                 *)

LogTyped(log) ==
    /\ DOMAIN log = LogFields
    /\ \A k \in LogFields : /\ IsFiniteSet(log[k])
                            /\ log[k] \subseteq MessageSet(LogTypes[k])

BlocksTyped(blocks) == \A v \in DOMAIN blocks : blocks[v] \in BlockSet

QueuesTyped(s) ==
    /\ s.transactions \in Transactions /\ s.fromClient \in Transactions
    /\ s.replied \in Transactions /\ s.executed \in Seq(Entries)

(* The tail call is noted only if there is a view left.                    *)
WellTyped(s) ==
    /\ DOMAIN s = Fields
    /\ s.myid \in PID /\ s.view \in 0 .. MaxViews - 1
    /\ s.pending = "startNewView" => ~timeToStop(s)
    /\ s.tf \in ComponentSet
    /\ LogTyped(s.log) /\ BlocksTyped(s.blocks) /\ QueuesTyped(s)
    /\ s.out \in [PID -> Seq(MessageSets)]

(* A call that does not change who the replica is or where.                *)
Remains(s, u) == WellTyped(u) /\ u.myid = s.myid /\ u.view = s.view

(* Such calls follow each other.                                           *)
LEMMA RemainsOn ==
    /\ \A s : WellTyped(s) => Remains(s, s)
    /\ \A s, u, w : Remains(s, u) /\ Remains(u, w) => Remains(s, w)
BY DEF Remains

(* The messages of a log of one type have finitely many signatures.        *)
LEMMA LogSigned ==
    ASSUME NEW log, LogTyped(log), NEW k \in LogFields, NEW m \in log[k]
    PROVE  /\ m.signs \in Signatures /\ Signed(m)
           /\ k # "proposals" => m \in VoteSet(LogTypes[k])
           /\ k = "proposals" => m \in ProposalSet
<1>1. k # "proposals" => m \in VoteSet(LogTypes[k])
      BY DEF LogTyped, MessageSet, LogTypes, LogFields
<1>2. k = "proposals" => m \in ProposalSet
      BY DEF LogTyped, MessageSet, LogTypes
<1>3. m.signs \in Signatures
      BY <1>1, <1>2 DEF VoteSet, ProposalSet
<1>4. IsFiniteSet(m.signs) /\ getSigners(m.signs) \subseteq PID
      BY <1>3 DEF Signatures, Tokens, getSigners
<1>5. QED
      BY <1>1, <1>2, <1>3, <1>4 DEF Signed

(* What the log hands out has the type of what was put in.                 *)
LEMMA LogYields ==
    ASSUME NEW log, LogTyped(log), NEW v
    PROVE  /\ \A k \in LogFields : \A q : get(log[k], v, q) \in Signatures
           /\ \A k \in {"prepares", "precommits", "commits"} :
                  first(log[k], v) \in JustsOver(VoteData)
           /\ findHighestNv(log.newviews, v) \in JustsOver(NewviewData)
           /\ firstProposal(log.proposals, v) \subseteq ProposalSet
<1>1. ASSUME NEW k \in LogFields, NEW q PROVE get(log[k], v, q) \in Signatures
  <2>1. IsFiniteSet(log[k]) /\ \A m \in log[k] : m.signs \in Signatures
        BY LogSigned DEF LogTyped
  <2>2. IsFiniteSet(get(log[k], v, q))
        BY <2>1, GetFinite DEF Signatures
  <2>3. \A g \in get(log[k], v, q) : \E m \in log[k] : g \in m.signs
        BY <2>1, GetFact, InViewFinite
  <2>4. QED
        BY <2>1, <2>2, <2>3 DEF Signatures
<1>2. ASSUME NEW k \in {"prepares", "precommits", "commits"}
      PROVE  first(log[k], v) \in JustsOver(VoteData)
  <2>1. k \in LogFields /\ IsFiniteSet(log[k])
        BY DEF LogFields, LogTyped
  <2>2. \A m \in log[k] : Signed(m) /\ m \in VoteSet(LogTypes[k])
        BY <2>1, LogSigned
  <2>3. \A m \in VoteSet(LogTypes[k]) : m.rdata \in VoteData /\ m.signs \in Signatures
    <3>1. LogTypes[k] # "newview"
          BY DEF LogTypes
    <3>2. DataOf(LogTypes[k]) = VoteData
          BY <3>1 DEF DataOf
    <3>3. QED
          BY <3>2 DEF VoteSet
  <2>4. \A m \in log[k] : Just(m.rdata, m.signs) \in JustsOver(VoteData)
        BY <2>2, <2>3 DEF Just, JustsOver
  <2>5. CASE InView(log[k], v) = {}
        BY <2>5, DataFact DEF first
  <2>6. CASE InView(log[k], v) # {}
    <3>1. \E m \in InView(log[k], v) : first(log[k], v) = Just(m.rdata, m.signs)
          BY <2>1, <2>2, <2>6, FirstFact
    <3>2. QED
          BY <2>1, <2>4, <3>1, InViewFinite
  <2>7. QED
        BY <2>5, <2>6
<1>3. findHighestNv(log.newviews, v) \in JustsOver(NewviewData)
  <2>1. "newviews" \in LogFields /\ IsFiniteSet(log.newviews)
        BY DEF LogFields, LogTyped
  <2>2. \A m \in log.newviews : Signed(m) /\ m \in VoteSet("newview")
        BY <2>1, LogSigned DEF LogTypes
  <2>3. \A m \in log.newviews : /\ Just(m.rdata, m.signs) \in JustsOver(NewviewData)
                                /\ m.rdata.justv \in Nat
        BY <2>2 DEF Just, JustsOver, VoteSet, DataOf, NewviewData, RDataOver
  <2>4. CASE InView(log.newviews, v) = {}
        BY <2>4, DataFact DEF findHighestNv
  <2>5. CASE InView(log.newviews, v) # {}
    <3>1. \E m \in InView(log.newviews, v) :
              findHighestNv(log.newviews, v) = Just(m.rdata, m.signs)
          BY <2>1, <2>2, <2>3, <2>5, HighestFact
    <3>2. QED
          BY <2>1, <2>3, <3>1, InViewFinite
  <2>6. QED
        BY <2>4, <2>5
<1>4. firstProposal(log.proposals, v) \subseteq ProposalSet
  <2> DEFINE here == InView(log.proposals, v)
  <2>1. "proposals" \in LogFields /\ IsFiniteSet(log.proposals)
        BY DEF LogFields, LogTyped
  <2>2. \A m \in log.proposals : Signed(m) /\ m \in ProposalSet
        BY <2>1, LogSigned
  <2>3. IsFiniteSet(here) /\ here \subseteq log.proposals
        BY <2>1, InViewFinite
  <2>4. here # {} => FirstMsg(here) \in here
        BY <2>2, <2>3, FirstMsgFact
  <2>5. QED
        BY <2>2, <2>3, <2>4 DEF firstProposal
<1>5. QED
      BY <1>1, <1>2, <1>3, <1>4

(* multicast_msg, with what the component returned.                        *)
LEMMA SendTyped ==
    ASSUME NEW s, WellTyped(s), NEW R, NEW m \in MessageSets
    PROVE  /\ Remains(s, send(s, R, m))
           /\ \A t \in ComponentSet : Remains(s, [send(s, R, m) EXCEPT !.tf = t])
<1> DEFINE o == [d \in PID |-> IF d \in R THEN Append(s.out[d], m) ELSE s.out[d]]
           u == [s EXCEPT !.out = o]
<1>1. o \in [PID -> Seq(MessageSets)]
  <2>1. ASSUME NEW d \in PID
        PROVE  Append(s.out[d], m) \in Seq(MessageSets) /\ s.out[d] \in Seq(MessageSets)
        BY DEF WellTyped
  <2>2. QED
        BY <2>1
<1> HIDE DEF o
<1>2. Remains(s, u)
  <2>1. /\ DOMAIN u = Fields /\ u.myid = s.myid /\ u.view = s.view
        /\ u.pending = s.pending /\ u.tf = s.tf /\ u.log = s.log
        /\ u.blocks = s.blocks /\ u.transactions = s.transactions
        /\ u.fromClient = s.fromClient /\ u.replied = s.replied
        /\ u.executed = s.executed /\ u.out = o
        BY DEF WellTyped, Fields
  <2> HIDE DEF u
  <2>2. QED
        BY <1>1, <2>1 DEF Remains, WellTyped, QueuesTyped, timeToStop
<1>3. ASSUME NEW t \in ComponentSet PROVE Remains(s, [u EXCEPT !.tf = t])
  <2> DEFINE w == [u EXCEPT !.tf = t]
  <2> HIDE DEF u
  <2>1. /\ DOMAIN w = Fields /\ w.myid = u.myid /\ w.view = u.view
        /\ w.pending = u.pending /\ w.tf = t /\ w.log = u.log
        /\ w.blocks = u.blocks /\ w.transactions = u.transactions
        /\ w.fromClient = u.fromClient /\ w.replied = u.replied
        /\ w.executed = u.executed /\ w.out = u.out
        BY <1>2 DEF Remains, WellTyped, Fields
  <2> HIDE DEF w
  <2>2. QED
        BY <1>2, <2>1 DEF Remains, WellTyped, QueuesTyped, timeToStop
<1>4. send(s, R, m) = u
      BY DEF send, o
<1> HIDE DEF u
<1>5. QED
      BY <1>2, <1>3, <1>4

(* storeNv, storePrep, storePc, storeCom and storeProp.                    *)
LEMMA LogVoteTyped ==
    ASSUME NEW s, WellTyped(s), NEW k \in LogFields, NEW m \in MessageSet(LogTypes[k])
    PROVE  Remains(s, logVote(s, k, m))
<1> DEFINE new == storeVote(s, k, m).msgs
           l == [s.log EXCEPT ![k] = new]
           u == [s EXCEPT !.log = l]
<1>1. IsFiniteSet(new) /\ \A i \in new : i \in s.log[k] \/ i = m
      BY StoreFact DEF storeVote, WellTyped, LogTyped
<1> HIDE DEF new
<1>2. LogTyped(l)
  <2>1. DOMAIN l = LogFields /\ \A i \in LogFields : i # k => l[i] = s.log[i]
        BY DEF WellTyped, LogTyped
  <2>2. l[k] = new
        BY DEF WellTyped, LogTyped
  <2> HIDE DEF l
  <2>3. QED
        BY <1>1, <2>1, <2>2 DEF WellTyped, LogTyped
<1>3. logVote(s, k, m) = u
      BY DEF logVote, new
<1> HIDE DEF l
<1>4. /\ DOMAIN u = Fields /\ u.myid = s.myid /\ u.view = s.view
      /\ u.pending = s.pending /\ u.tf = s.tf /\ u.log = l
      /\ u.blocks = s.blocks /\ u.transactions = s.transactions
      /\ u.fromClient = s.fromClient /\ u.replied = s.replied
      /\ u.executed = s.executed /\ u.out = s.out
      BY DEF WellTyped, Fields
<1> HIDE DEF u
<1>5. QED
      BY <1>2, <1>3, <1>4 DEF Remains, WellTyped, QueuesTyped, timeToStop

(* A call that sets the component.                                         *)
LEMMA SetComponentTyped ==
    ASSUME NEW s, WellTyped(s), NEW t \in ComponentSet
    PROVE  Remains(s, [s EXCEPT !.tf = t])
<1> DEFINE u == [s EXCEPT !.tf = t]
<1>1. /\ DOMAIN u = Fields /\ u.myid = s.myid /\ u.view = s.view
      /\ u.pending = s.pending /\ u.tf = t /\ u.log = s.log
      /\ u.blocks = s.blocks /\ u.transactions = s.transactions
      /\ u.fromClient = s.fromClient /\ u.replied = s.replied
      /\ u.executed = s.executed /\ u.out = s.out
      BY DEF WellTyped, Fields
<1> HIDE DEF u
<1>2. Remains(s, u)
      BY <1>1 DEF Remains, WellTyped, QueuesTyped, timeToStop
<1>3. QED
      BY <1>2 DEF u

(* A block is noted, with what the component returned.                     *)
LEMMA NoteBlockTyped ==
    ASSUME NEW s, WellTyped(s), NEW t \in ComponentSet, NEW v, NEW b \in BlockSet
    PROVE  Remains(s, [s EXCEPT !.tf = t, !.blocks = assign(@, v, b)])
<1> DEFINE x == assign(s.blocks, v, b)
           u == [s EXCEPT !.tf = t, !.blocks = x]
<1>1. BlocksTyped(x)
      BY DEF assign, BlocksTyped, WellTyped
<1> HIDE DEF x
<1>2. /\ DOMAIN u = Fields /\ u.myid = s.myid /\ u.view = s.view
      /\ u.pending = s.pending /\ u.tf = t /\ u.log = s.log
      /\ u.blocks = x /\ u.transactions = s.transactions
      /\ u.fromClient = s.fromClient /\ u.replied = s.replied
      /\ u.executed = s.executed /\ u.out = s.out
      BY DEF WellTyped, Fields
<1> HIDE DEF u
<1>3. Remains(s, u)
      BY <1>1, <1>2 DEF Remains, WellTyped, QueuesTyped, timeToStop
<1>4. u = [s EXCEPT !.tf = t, !.blocks = assign(@, v, b)]
      BY DEF u, x
<1>5. QED
      BY <1>3, <1>4

(* executeRData.                                                           *)
LEMMA ExecuteTyped ==
    ASSUME NEW s, WellTyped(s), NEW rdata, rdata.proph \in Hashes
    PROVE  Remains(s, executeRData(s, rdata))
<1> DEFINE x == Append(s.executed, [view |-> s.view, hash |-> rdata.proph])
           u == [s EXCEPT !.executed = x]
           w == replyHash(u, rdata.proph)
           p == IF timeToStop(s) THEN "none" ELSE "startNewView"
           z == [w EXCEPT !.pending = p]
<1>1. z = executeRData(s, rdata)
      BY DEF executeRData
<1>2. x \in Seq(Entries)
  <2>1. s.view \in Nat /\ s.executed \in Seq(Entries)
        BY ReplicaAssumption DEF WellTyped, QueuesTyped
  <2>2. QED
        BY <2>1 DEF Entries
<1>3. p = "startNewView" => ~timeToStop(s)
      OBVIOUS
<1> HIDE DEF x, p
<1>4. Remains(s, u)
  <2>1. /\ DOMAIN u = Fields /\ u.myid = s.myid /\ u.view = s.view
        /\ u.pending = s.pending /\ u.tf = s.tf /\ u.log = s.log
        /\ u.blocks = s.blocks /\ u.transactions = s.transactions
        /\ u.fromClient = s.fromClient /\ u.replied = s.replied
        /\ u.executed = x /\ u.out = s.out
        BY DEF WellTyped, Fields
  <2> HIDE DEF u
  <2>2. QED
        BY <1>2, <2>1 DEF Remains, WellTyped, QueuesTyped, timeToStop
<1> HIDE DEF u
<1>5. ASSUME NEW tr \in Transactions
      PROVE  Remains(s, [u EXCEPT !.replied = @ \o tr])
  <2> DEFINE q == u.replied \o tr
             y == [u EXCEPT !.replied = q]
  <2>1. q \in Transactions
        BY <1>4 DEF Transactions, Remains, WellTyped, QueuesTyped
  <2> HIDE DEF q
  <2>2. /\ DOMAIN y = Fields /\ y.myid = u.myid /\ y.view = u.view
        /\ y.pending = u.pending /\ y.tf = u.tf /\ y.log = u.log
        /\ y.blocks = u.blocks /\ y.transactions = u.transactions
        /\ y.fromClient = u.fromClient /\ y.replied = q
        /\ y.executed = u.executed /\ y.out = u.out
        BY <1>4 DEF Remains, WellTyped, Fields
  <2> HIDE DEF y
  <2>3. Remains(s, y)
        BY <1>4, <2>1, <2>2 DEF Remains, WellTyped, QueuesTyped, timeToStop
  <2>4. QED
        BY <2>3 DEF y, q
<1>6. Remains(s, w)
  <2>1. CASE w = u
        BY <1>4, <2>1
  <2>2. CASE w = [u EXCEPT !.replied = @ \o u.blocks[u.view].trans]
                 /\ u.view \in DOMAIN u.blocks
    <3>1. u.blocks[u.view].trans \in Transactions
          BY <1>4, <2>2 DEF Remains, WellTyped, BlocksTyped, BlockSet
    <3>2. QED
          BY <1>5, <2>2, <3>1
  <2>3. QED
        BY <2>1, <2>2 DEF replyHash, replyTransactions
<1> HIDE DEF w
<1>7. Remains(s, z)
  <2>1. /\ DOMAIN z = Fields /\ z.myid = w.myid /\ z.view = w.view
        /\ z.pending = p /\ z.tf = w.tf /\ z.log = w.log
        /\ z.blocks = w.blocks /\ z.transactions = w.transactions
        /\ z.fromClient = w.fromClient /\ z.replied = w.replied
        /\ z.executed = w.executed /\ z.out = w.out
        BY <1>6 DEF Remains, WellTyped, Fields
  <2> HIDE DEF z
  <2>2. QED
        BY <1>3, <1>6, <2>1 DEF Remains, WellTyped, QueuesTyped, timeToStop
<1> HIDE DEF z
<1>8. QED
      BY <1>1, <1>7

(* initiateCommit.                                                         *)
LEMMA InitiateCommitTyped ==
    ASSUME NEW s, WellTyped(s), NEW rdata \in VoteData
    PROVE  Remains(s, initiateCommit(s, rdata))
<1> DEFINE signs == get(s.log.commits, rdata.propv, QSize)
           m == MsgCommit(Just(rdata, signs))
           u == send(s, remove_from_peers(s), m)
<1>1. signs \in Signatures
      BY LogYields DEF WellTyped, LogFields
<1> HIDE DEF signs
<1>2. m \in MessageSets
  <2>1. Just(rdata, signs) \in JustsOver(VoteData)
        BY <1>1 DEF Just, JustsOver
  <2>2. QED
        BY <2>1, MessageTyped DEF VoteTypes
<1> HIDE DEF m
<1>3. Remains(s, u)
      BY <1>2, SendTyped
<1> HIDE DEF u
<1>4. rdata.proph \in Hashes
      BY DataFact DEF VoteData, RDataOver
<1>5. Remains(s, executeRData(u, rdata))
      BY <1>3, <1>4, ExecuteTyped, RemainsOn DEF Remains
<1>6. Remains(s, s)
      BY RemainsOn
<1>7. initiateCommit(s, rdata) \in {s, executeRData(u, rdata)}
      BY DEF initiateCommit, u, m, signs
<1>8. QED
      BY <1>5, <1>6, <1>7

(* What the component makes of a certificate put together from the log.    *)
LEMMA StoreVotesTyped ==
    ASSUME NEW s, WellTyped(s), NEW k \in LogFields, NEW rdata \in VoteData
    PROVE  LET cert == Just(rdata, get(s.log[k], rdata.propv, QSize))
               r    == TEEstore(s.myid, s.tf, cert)
           IN  /\ cert \in JustsOver(VoteData)
               /\ r.tee \in ComponentSet /\ r.just \in JustsOver(VoteData)
<1> DEFINE signs == get(s.log[k], rdata.propv, QSize)
           cert  == Just(rdata, signs)
<1>1. signs \in Signatures
      BY LogYields DEF WellTyped
<1> HIDE DEF signs
<1>2. cert \in JustsOver(VoteData)
      BY <1>1 DEF Just, JustsOver
<1> HIDE DEF cert
<1>3. QED
      BY <1>2, TEEstoreTyped DEF WellTyped, cert, signs

(* initiatePrecommit.                                                      *)
LEMMA InitiatePrecommitTyped ==
    ASSUME NEW s, WellTyped(s), NEW rdata \in VoteData
    PROVE  Remains(s, initiatePrecommit(s, rdata))
<1> DEFINE cert   == Just(rdata, get(s.log.precommits, rdata.propv, QSize))
           r      == TEEstore(s.myid, s.tf, cert)
           msgCom == MsgCommit(r.just)
           m      == MsgPreCommit(cert)
           s1     == [send(s, remove_from_peers(s), m) EXCEPT !.tf = r.tee]
           s2     == logVote(s1, "commits", msgCom)
<1>1. /\ cert \in JustsOver(VoteData)
      /\ r.tee \in ComponentSet /\ r.just \in JustsOver(VoteData)
  <2>1. "precommits" \in LogFields
        BY DEF LogFields
  <2>2. QED
        BY <2>1, StoreVotesTyped
<1>2. initiatePrecommit(s, rdata) \in {s, s2, initiateCommit(s2, r.just.rdata)}
      BY DEF initiatePrecommit
<1> HIDE DEF cert, r
<1>3. m \in MessageSets /\ msgCom \in MessageSet("commit")
      BY <1>1, MessageTyped DEF VoteTypes, MessageSet
<1> HIDE DEF m, msgCom
<1>4. Remains(s, s1)
      BY <1>1, <1>3, SendTyped
<1> HIDE DEF s1
<1>5. Remains(s1, s2)
  <2>1. "commits" \in LogFields /\ LogTypes["commits"] = "commit"
        BY DEF LogFields, LogTypes
  <2>2. QED
        BY <1>3, <1>4, <2>1, LogVoteTyped DEF Remains
<1> HIDE DEF s2
<1>6. Remains(s2, initiateCommit(s2, r.just.rdata))
      BY <1>1, <1>5, InitiateCommitTyped DEF Remains, JustsOver
<1>7. QED
      BY <1>2, <1>4, <1>5, <1>6, RemainsOn

(* initiatePrepare.                                                        *)
LEMMA InitiatePrepareTyped ==
    ASSUME NEW s, WellTyped(s), NEW rdata \in VoteData
    PROVE  Remains(s, initiatePrepare(s, rdata))
<1> DEFINE cert  == Just(rdata, get(s.log.prepares, rdata.propv, QSize))
           r     == TEEstore(s.myid, s.tf, cert)
           msgPc == MsgPreCommit(r.just)
           m     == MsgPrepare(cert)
           s1    == [send(s, remove_from_peers(s), m) EXCEPT !.tf = r.tee]
           s2    == logVote(s1, "precommits", msgPc)
<1>1. /\ cert \in JustsOver(VoteData)
      /\ r.tee \in ComponentSet /\ r.just \in JustsOver(VoteData)
  <2>1. "prepares" \in LogFields
        BY DEF LogFields
  <2>2. QED
        BY <2>1, StoreVotesTyped
<1>2. initiatePrepare(s, rdata) \in {s, s2, initiatePrecommit(s2, r.just.rdata)}
      BY DEF initiatePrepare
<1> HIDE DEF cert, r
<1>3. m \in MessageSets /\ msgPc \in MessageSet("precommit")
      BY <1>1, MessageTyped DEF VoteTypes, MessageSet
<1> HIDE DEF m, msgPc
<1>4. Remains(s, s1)
      BY <1>1, <1>3, SendTyped
<1> HIDE DEF s1
<1>5. Remains(s1, s2)
  <2>1. "precommits" \in LogFields /\ LogTypes["precommits"] = "precommit"
        BY DEF LogFields, LogTypes
  <2>2. QED
        BY <1>3, <1>4, <2>1, LogVoteTyped DEF Remains
<1> HIDE DEF s2
<1>6. Remains(s2, initiatePrecommit(s2, r.just.rdata))
      BY <1>1, <1>5, InitiatePrecommitTyped DEF Remains, JustsOver
<1>7. QED
      BY <1>2, <1>4, <1>5, <1>6, RemainsOn

(* createNewBlock, and the transactions that leave the queue.              *)
LEMMA PopTyped ==
    ASSUME NEW s, WellTyped(s), NEW h \in Chain
    PROVE  /\ createNewBlock(s, h) \in BlockSet
           /\ Remains(s, popTransactions(s))
<1> DEFINE q == SubSeq(s.transactions, BlockSize(s) + 1, Len(s.transactions))
           u == [s EXCEPT !.transactions = q]
<1>1. s.transactions \in Transactions /\ s.transactions \in Seq(Nat)
      BY ReplicaAssumption DEF WellTyped, QueuesTyped, Transactions
<1>2. BlockSize(s) \in Nat /\ BlockSize(s) <= Len(s.transactions)
      BY <1>1, BlockSizeFact
<1>3. NextTrans(s) \in Transactions /\ q \in Transactions
  <2>1. \A X, x, b : x \in Seq(X) /\ b \in Nat /\ b <= Len(x) =>
            SubSeq(x, 1, b) \in Seq(X) /\ SubSeq(x, b + 1, Len(x)) \in Seq(X)
        OBVIOUS
  <2>2. QED
        BY <1>1, <1>2, <2>1 DEF NextTrans, Transactions
<1>4. createNewBlock(s, h) \in BlockSet
      BY <1>3 DEF createNewBlock, Block, BlockSet
<1>5. popTransactions(s) = u
      BY DEF popTransactions
<1> HIDE DEF q
<1>6. /\ DOMAIN u = Fields /\ u.myid = s.myid /\ u.view = s.view
      /\ u.pending = s.pending /\ u.tf = s.tf /\ u.log = s.log
      /\ u.blocks = s.blocks /\ u.transactions = q
      /\ u.fromClient = s.fromClient /\ u.replied = s.replied
      /\ u.executed = s.executed /\ u.out = s.out
      BY DEF WellTyped, Fields
<1> HIDE DEF u
<1>7. Remains(s, u)
      BY <1>3, <1>6 DEF Remains, WellTyped, QueuesTyped, timeToStop
<1>8. QED
      BY <1>4, <1>5, <1>7

(* prepare.                                                                *)
LEMMA PrepareTyped ==
    ASSUME NEW s, WellTyped(s)
    PROVE  Remains(s, prepare(s))
<1> DEFINE justNV  == findHighestNv(s.log.newviews, s.view)
           block   == createNewBlock(s, justNV.rdata.justh)
           r       == TEEprepare(s.myid, s.tf, hash(block), justNV)
           msgPrep == MsgPrepare(r.just)
           s0      == popTransactions(s)
           m       == MsgLdrPrepare(justNV, block, r.just.signs)
           s1      == [send(s0, remove_from_peers(s), m)
                          EXCEPT !.tf = r.tee, !.blocks = assign(@, s.view, block)]
           s2      == logVote(s1, "prepares", msgPrep)
           s3      == send(s0, remove_from_peers(s), m)
<1>1. prepare(s) \in {s0, s2, initiatePrepare(s2, r.just.rdata)}
      BY DEF prepare
<1>2. justNV \in JustsOver(NewviewData)
      BY LogYields DEF WellTyped
<1> HIDE DEF justNV
<1>3. justNV.rdata.justh \in Chain
      BY <1>2 DEF JustsOver, NewviewData
<1>4. block \in BlockSet /\ Remains(s, s0)
      BY <1>3, PopTyped
<1> HIDE DEF block, s0
<1>5. r.tee \in ComponentSet /\ r.just \in JustsOver(VoteData)
      BY <1>2, <1>4, HashTyped, TEEprepareTyped DEF WellTyped
<1> HIDE DEF r
<1>6. m \in MessageSets /\ msgPrep \in MessageSet("prepare")
  <2>1. m \in ProposalSet
        BY <1>2, <1>4, <1>5 DEF MsgLdrPrepare, ProposalSet, JustsOver
  <2>2. QED
        BY <1>5, <2>1, MessageTyped DEF VoteTypes, MessageSet
<1> HIDE DEF m, msgPrep
<1>7. Remains(s0, s3)
      BY <1>4, <1>6, SendTyped DEF Remains
<1>8. s1 = [s3 EXCEPT !.tf = r.tee, !.blocks = assign(@, s.view, block)]
      OBVIOUS
<1> HIDE DEF s3, s1
<1>9. Remains(s3, s1)
  <2>1. WellTyped(s3)
        BY <1>7 DEF Remains
  <2>2. QED
        BY <1>4, <1>5, <1>8, <2>1, NoteBlockTyped
<1>10. Remains(s1, s2)
  <2>1. "prepares" \in LogFields /\ LogTypes["prepares"] = "prepare"
        BY DEF LogFields, LogTypes
  <2>2. QED
        BY <1>6, <1>9, <2>1, LogVoteTyped DEF Remains
<1> HIDE DEF s2
<1>11. Remains(s2, initiatePrepare(s2, r.just.rdata))
       BY <1>5, <1>10, InitiatePrepareTyped DEF Remains, JustsOver
<1>12. QED
       BY <1>1, <1>4, <1>7, <1>9, <1>10, <1>11, RemainsOn

(* respondToProposal.                                                      *)
LEMMA RespondToProposalTyped ==
    ASSUME NEW s, WellTyped(s), NEW j \in JustsOver(NewviewData), NEW b \in BlockSet
    PROVE  Remains(s, respondToProposal(s, j, b))
<1> DEFINE r  == TEEprepare(s.myid, s.tf, hash(b), j)
           m  == MsgPrepare(r.just)
           s1 == send(s, currentLeader(s), m)
           s2 == [s1 EXCEPT !.tf = r.tee, !.blocks = assign(@, s.view, b)]
<1>1. respondToProposal(s, j, b) \in {s, s2}
      BY DEF respondToProposal
<1>2. r.tee \in ComponentSet /\ r.just \in JustsOver(VoteData)
      BY HashTyped, TEEprepareTyped DEF WellTyped
<1> HIDE DEF r
<1>3. m \in MessageSets
      BY <1>2, MessageTyped DEF VoteTypes
<1> HIDE DEF m
<1>4. Remains(s, s1)
      BY <1>3, SendTyped
<1> HIDE DEF s1
<1>5. Remains(s1, s2)
  <2>1. WellTyped(s1)
        BY <1>4 DEF Remains
  <2>2. QED
        BY <1>2, <2>1, NoteBlockTyped
<1>6. QED
      BY <1>1, <1>4, <1>5, RemainsOn

(* respondToPrepareJust and respondToPreCommitJust.                        *)
LEMMA RespondToCertificateTyped ==
    ASSUME NEW s, WellTyped(s), NEW j \in JustsOver(VoteData)
    PROVE  /\ Remains(s, respondToPrepareJust(s, j))
           /\ Remains(s, respondToPreCommitJust(s, j))
<1> DEFINE r  == TEEstore(s.myid, s.tf, j)
           m1 == MsgPreCommit(r.just)
           m2 == MsgCommit(r.just)
<1>1. r.tee \in ComponentSet /\ r.just \in JustsOver(VoteData)
      BY TEEstoreTyped DEF WellTyped
<1>2. /\ respondToPrepareJust(s, j)
             = [send(s, currentLeader(s), m1) EXCEPT !.tf = r.tee]
      /\ respondToPreCommitJust(s, j)
             = [send(s, currentLeader(s), m2) EXCEPT !.tf = r.tee]
      BY DEF respondToPrepareJust, respondToPreCommitJust
<1> HIDE DEF r
<1>3. m1 \in MessageSets /\ m2 \in MessageSets
      BY <1>1, MessageTyped DEF VoteTypes
<1> HIDE DEF m1, m2
<1>4. QED
      BY <1>1, <1>2, <1>3, SendTyped

(* callTEEsign.                                                            *)
LEMMA SkipTyped ==
    ASSUME NEW s, WellTyped(s)
    PROVE  Remains(s, skipPhase(s))
<1>1. TEEsign(s.myid, s.tf).tee \in ComponentSet
      BY TEEsignTyped DEF WellTyped
<1>2. QED
      BY <1>1, SetComponentTyped DEF skipPhase

-----------------------------------------------------------------------------
(* Handlers of messages of the right type.                                 *)

(* A message of its type is a message that its log takes.                  *)
LEMMA LogMessageTyped ==
    ASSUME NEW s, WellTyped(s)
    PROVE  /\ \A m \in VoteSet("newview") : Remains(s, logVote(s, "newviews", m))
           /\ \A m \in VoteSet("prepare") : Remains(s, logVote(s, "prepares", m))
           /\ \A m \in VoteSet("precommit") : Remains(s, logVote(s, "precommits", m))
           /\ \A m \in VoteSet("commit") : Remains(s, logVote(s, "commits", m))
           /\ \A m \in ProposalSet : Remains(s, logVote(s, "proposals", m))
<1>1. /\ LogTypes["newviews"] = "newview" /\ LogTypes["prepares"] = "prepare"
      /\ LogTypes["precommits"] = "precommit" /\ LogTypes["commits"] = "commit"
      /\ LogTypes["proposals"] = "ldrprepare"
      BY DEF LogTypes
<1>2. /\ MessageSet("newview") = VoteSet("newview")
      /\ MessageSet("prepare") = VoteSet("prepare")
      /\ MessageSet("precommit") = VoteSet("precommit")
      /\ MessageSet("commit") = VoteSet("commit")
      /\ MessageSet("ldrprepare") = ProposalSet
      BY DEF MessageSet
<1>3. {"newviews", "prepares", "precommits", "commits", "proposals"} = LogFields
      BY DEF LogFields
<1>4. QED
      BY <1>1, <1>2, <1>3, LogVoteTyped

(* handleNewview.                                                          *)
LEMMA HandleNewviewTyped ==
    ASSUME NEW s, WellTyped(s), NEW m \in VoteSet("newview")
    PROVE  Remains(s, handleNewview(s, m))
<1> DEFINE s1 == logVote(s, "newviews", m)
<1>1. handleNewview(s, m) \in {s, s1, prepare(s1)}
      BY DEF handleNewview
<1>2. Remains(s, s1)
      BY LogMessageTyped
<1> HIDE DEF s1
<1>3. Remains(s1, prepare(s1))
      BY <1>2, PrepareTyped DEF Remains
<1>4. QED
      BY <1>1, <1>2, <1>3, RemainsOn

(* handleLdrPrepare.                                                       *)
LEMMA HandleLdrPrepareTyped ==
    ASSUME NEW s, WellTyped(s), NEW m \in ProposalSet
    PROVE  Remains(s, handleLdrPrepare(s, m))
<1>1. handleLdrPrepare(s, m) \in {s, respondToProposal(s, m.just, m.block),
                                  logVote(s, "proposals", m)}
      BY DEF handleLdrPrepare
<1>2. m.just \in JustsOver(NewviewData) /\ m.block \in BlockSet
      BY DEF ProposalSet
<1>3. QED
      BY <1>1, <1>2, RespondToProposalTyped, LogMessageTyped, RemainsOn

(* The data and the certificate of a vote.                                 *)
LEMMA VoteTyped ==
    ASSUME NEW type \in {"prepare", "precommit", "commit"}, NEW m \in VoteSet(type)
    PROVE  m.rdata \in VoteData /\ Just(m.rdata, m.signs) \in JustsOver(VoteData)
<1>1. DataOf(type) = VoteData
      BY DEF DataOf
<1>2. m.rdata \in VoteData /\ m.signs \in Signatures
      BY <1>1 DEF VoteSet
<1>3. QED
      BY <1>2 DEF Just, JustsOver

(* handlePrepare, handlePrecommit and handleCommit.                        *)
LEMMA HandleVotesTyped ==
    ASSUME NEW s, WellTyped(s)
    PROVE  /\ \A m \in VoteSet("prepare") : Remains(s, handlePrepare(s, m))
           /\ \A m \in VoteSet("precommit") : Remains(s, handlePrecommit(s, m))
           /\ \A m \in VoteSet("commit") : Remains(s, handleCommit(s, m))
<1>1. ASSUME NEW m \in VoteSet("prepare") PROVE Remains(s, handlePrepare(s, m))
  <2> DEFINE s1 == logVote(s, "prepares", m)
             s2 == initiatePrepare(s1, m.rdata)
             s3 == respondToPrepareJust(s, Just(m.rdata, m.signs))
  <2>1. handlePrepare(s, m) \in {s, s1, s2, s3}
        BY DEF handlePrepare
  <2>2. m.rdata \in VoteData /\ Just(m.rdata, m.signs) \in JustsOver(VoteData)
        BY VoteTyped
  <2>3. Remains(s, s1) /\ Remains(s, s3)
        BY <2>2, LogMessageTyped, RespondToCertificateTyped
  <2> HIDE DEF s1, s3
  <2>4. Remains(s1, s2)
        BY <2>2, <2>3, InitiatePrepareTyped DEF Remains
  <2>5. QED
        BY <2>1, <2>3, <2>4, RemainsOn
<1>2. ASSUME NEW m \in VoteSet("precommit") PROVE Remains(s, handlePrecommit(s, m))
  <2> DEFINE s1 == logVote(s, "precommits", m)
             s2 == initiatePrecommit(s1, m.rdata)
             s3 == respondToPreCommitJust(s, Just(m.rdata, m.signs))
  <2>1. handlePrecommit(s, m) \in {s, s1, s2, s3}
        BY DEF handlePrecommit
  <2>2. m.rdata \in VoteData /\ Just(m.rdata, m.signs) \in JustsOver(VoteData)
        BY VoteTyped
  <2>3. Remains(s, s1) /\ Remains(s, s3)
        BY <2>2, LogMessageTyped, RespondToCertificateTyped
  <2> HIDE DEF s1, s3
  <2>4. Remains(s1, s2)
        BY <2>2, <2>3, InitiatePrecommitTyped DEF Remains
  <2>5. QED
        BY <2>1, <2>3, <2>4, RemainsOn
<1>3. ASSUME NEW m \in VoteSet("commit") PROVE Remains(s, handleCommit(s, m))
  <2> DEFINE s1 == logVote(s, "commits", m)
             s2 == initiateCommit(s1, m.rdata)
             s3 == executeRData(s, m.rdata)
  <2>1. handleCommit(s, m) \in {s, s1, s2, s3}
        BY DEF handleCommit
  <2>2. m.rdata \in VoteData /\ m.rdata.proph \in Hashes
        BY VoteTyped, DataFact DEF VoteData, RDataOver
  <2>3. Remains(s, s1) /\ Remains(s, s3)
        BY <2>2, LogMessageTyped, ExecuteTyped
  <2> HIDE DEF s1, s3
  <2>4. Remains(s1, s2)
        BY <2>2, <2>3, InitiateCommitTyped DEF Remains
  <2>5. QED
        BY <2>1, <2>3, <2>4, RemainsOn
<1>4. QED
      BY <1>1, <1>2, <1>3

(* catchUp.                                                                *)
LEMMA CatchUpTyped ==
    ASSUME NEW s, WellTyped(s)
    PROVE  Remains(s, catchUp(s))
<1> DEFINE x  == skipPhase(s)
           y  == skipPhase(x)
           j  == first(s.log.precommits, s.view)
           c  == first(s.log.commits, s.view)
           s1 == respondToPreCommitJust(y, j)
           s2 == executeRData(s1, c.rdata)
<1>1. catchUp(s) \in {s1, s2}
      BY DEF catchUp
<1>2. j \in JustsOver(VoteData) /\ c \in JustsOver(VoteData)
      BY LogYields DEF WellTyped
<1>3. c.rdata.proph \in Hashes
      BY <1>2, DataFact DEF JustsOver, VoteData, RDataOver
<1> HIDE DEF j, c
<1>4. Remains(s, x)
      BY SkipTyped
<1> HIDE DEF x
<1>5. Remains(x, y)
      BY <1>4, SkipTyped DEF Remains
<1> HIDE DEF y
<1>6. Remains(y, s1)
      BY <1>2, <1>5, RespondToCertificateTyped DEF Remains
<1> HIDE DEF s1
<1>7. Remains(s1, s2)
      BY <1>3, <1>6, ExecuteTyped DEF Remains
<1>8. QED
      BY <1>1, <1>4, <1>5, <1>6, <1>7, RemainsOn

(* handleEarlierMessages.                                                  *)
LEMMA HandleEarlierTyped ==
    ASSUME NEW s, WellTyped(s)
    PROVE  Remains(s, handleEarlierMessages(s))
<1> DEFINE proposal == {m \in firstProposal(s.log.proposals, s.view) :
                           Cardinality(m.signs) = 1}
           chosen   == CHOOSE m \in proposal : TRUE
           x        == skipPhase(s)
           skipped  == respondToPrepareJust(x, first(s.log.prepares, s.view))
<1>1. \/ handleEarlierMessages(s) = s
      \/ handleEarlierMessages(s) = prepare(s)
      \/ handleEarlierMessages(s) = catchUp(s)
      \/ handleEarlierMessages(s) = skipped
      \/ /\ proposal # {}
         /\ handleEarlierMessages(s) = respondToProposal(s, chosen.just, chosen.block)
      BY DEF handleEarlierMessages
<1>2. Remains(s, skipped)
  <2>1. Remains(s, x)
        BY SkipTyped
  <2> HIDE DEF x
  <2>2. first(s.log.prepares, s.view) \in JustsOver(VoteData)
        BY LogYields DEF WellTyped
  <2>3. Remains(x, skipped)
        BY <2>1, <2>2, RespondToCertificateTyped DEF Remains
  <2> HIDE DEF skipped
  <2>4. QED
        BY <2>1, <2>3, RemainsOn
<1> HIDE DEF skipped
<1>3. proposal # {} => Remains(s, respondToProposal(s, chosen.just, chosen.block))
  <2>1. proposal # {} => chosen \in firstProposal(s.log.proposals, s.view)
        OBVIOUS
  <2> HIDE DEF chosen, proposal
  <2>2. proposal # {} => chosen \in ProposalSet
        BY <2>1, LogYields DEF WellTyped
  <2>3. proposal # {} => chosen.just \in JustsOver(NewviewData) /\ chosen.block \in BlockSet
        BY <2>2 DEF ProposalSet
  <2>4. QED
        BY <2>3, RespondToProposalTyped
<1> HIDE DEF chosen, proposal
<1>4. QED
      BY <1>1, <1>2, <1>3, RemainsOn, PrepareTyped, CatchUpTyped

(* startNewView, which is not called in the last view.                     *)
LEMMA StartNewViewTyped ==
    ASSUME NEW s, WellTyped(s), ~timeToStop(s)
    PROVE  WellTyped(startNewView(s)) /\ startNewView(s).myid = s.myid
<1> DEFINE r  == TEEsignPast(s.myid, s.tf, s.view)
           s1 == [s EXCEPT !.tf = r.tee, !.view = @ + 1, !.pending = "none",
                           !.timer = TRUE]
           m  == MsgNewView(r.just)
           s2 == send(s1, currentLeader(s1), m)
           h1 == handleEarlierMessages(s1)
           h2 == handleEarlierMessages(s2)
           h3 == handleNewview(h1, m)
<1>1. startNewView(s) \in {s1, h3, h2}
      BY DEF startNewView, setTimer
<1>2. s.view \in Nat /\ s.view + 1 \in 0 .. MaxViews - 1
      BY ReplicaAssumption DEF WellTyped, timeToStop
<1>3. r.tee \in ComponentSet /\ r.just \in JustsOver(NewviewData)
      BY <1>2, TEEsignPastTyped DEF WellTyped
<1> HIDE DEF r
<1>4. m \in VoteSet("newview") /\ m \in MessageSets
      BY <1>3, MessageTyped DEF VoteTypes
<1> HIDE DEF m
<1>5. WellTyped(s1) /\ s1.myid = s.myid
  <2>1. /\ DOMAIN s1 = Fields /\ s1.myid = s.myid /\ s1.view = s.view + 1
        /\ s1.pending = "none" /\ s1.tf = r.tee /\ s1.log = s.log
        /\ s1.blocks = s.blocks /\ s1.transactions = s.transactions
        /\ s1.fromClient = s.fromClient /\ s1.replied = s.replied
        /\ s1.executed = s.executed /\ s1.out = s.out
        BY DEF WellTyped, Fields
  <2> HIDE DEF s1
  <2>2. QED
        BY <1>2, <1>3, <2>1 DEF WellTyped, QueuesTyped
<1> HIDE DEF s1
<1>6. Remains(s1, s2)
      BY <1>4, <1>5, SendTyped
<1> HIDE DEF s2
<1>7. Remains(s1, h1) /\ Remains(s2, h2)
      BY <1>5, <1>6, HandleEarlierTyped DEF Remains
<1> HIDE DEF h1, h2
<1>8. Remains(h1, h3)
      BY <1>4, <1>7, HandleNewviewTyped DEF Remains
<1> HIDE DEF h3
<1>9. QED
      BY <1>1, <1>5, <1>6, <1>7, <1>8 DEF Remains

(* getStarted.                                                             *)
LEMMA GetStartedTyped ==
    ASSUME NEW s, WellTyped(s)
    PROVE  Remains(s, getStarted(s))
<1> DEFINE r  == TEEsign(s.myid, s.tf)
           s1 == [s EXCEPT !.tf = r.tee]
           m  == MsgNewView(r.just)
           s2 == send(s1, currentLeader(s1), m)
<1>1. getStarted(s) \in {handleNewview(s1, m), s2}
      BY DEF getStarted
<1>2. r.tee \in ComponentSet /\ r.just \in JustsOver(NewviewData)
      BY TEEsignTyped DEF WellTyped
<1> HIDE DEF r
<1>3. m \in VoteSet("newview") /\ m \in MessageSets
      BY <1>2, MessageTyped DEF VoteTypes
<1> HIDE DEF m
<1>4. Remains(s, s1)
      BY <1>2, SetComponentTyped
<1> HIDE DEF s1
<1>5. Remains(s1, s2) /\ Remains(s1, handleNewview(s1, m))
      BY <1>3, <1>4, SendTyped, HandleNewviewTyped DEF Remains
<1>6. QED
      BY <1>1, <1>4, <1>5, RemainsOn

-----------------------------------------------------------------------------
(* The types of the system.                                                *)

AllTyped ==
    /\ DOMAIN node = PID
    /\ \A n \in PID : WellTyped(node[n]) /\ node[n].myid = n
    /\ pauses \in 0 .. MaxPauses /\ early \in 0 .. MaxEarly

(* The replicas, as constructed, are well formed.                          *)
LEMMA InitTyped == Init => AllTyped
<1> SUFFICES ASSUME Init PROVE AllTyped
    OBVIOUS
<1>1. ASSUME NEW n \in PID
      PROVE  WellTyped(node[n]) /\ node[n].myid = n
  <2> DEFINE s == node[n]
  <2>1. s = withFields(ReplicaInit(n, 0),
                       [tf |-> TrustedFunInit, log |-> LogInit, blocks |-> <<>>])
        BY DEF Init
  <2>2. /\ DOMAIN s = Fields
        /\ s.myid = n /\ s.view = 0 /\ s.tf = TrustedFunInit /\ s.log = LogInit
        /\ s.pending = "none" /\ s.blocks = <<>> /\ s.transactions = <<>>
        /\ s.fromClient = fromClientTo(n, 0) /\ s.replied = <<>>
        /\ s.executed = <<>> /\ s.out = [d \in PID |-> <<>>]
        BY <2>1 DEF withFields, ReplicaInit, Fields
  <2> HIDE DEF s
  <2>3. LogTyped(s.log)
    <3>1. DOMAIN s.log = LogFields /\ \A k \in DOMAIN s.log : s.log[k] = {}
          BY <2>2 DEF LogInit, LogFields
    <3>2. IsFiniteSet({})
          BY FS_EmptySet
    <3>3. QED
          BY <3>1, <3>2 DEF LogTyped
  <2>4. s.tf \in ComponentSet
        BY <2>2, DataFact DEF TrustedFunInit, ComponentSet, Phase
  <2>5. QueuesTyped(s)
        BY <2>2, ClientDealsTransactions DEF QueuesTyped, Transactions
  <2>6. BlocksTyped(s.blocks) /\ s.out \in [PID -> Seq(MessageSets)]
        BY <2>2 DEF BlocksTyped
  <2>7. s.view \in 0 .. MaxViews - 1
        BY <2>2, ReplicaAssumption
  <2>8. QED
        BY <2>2, <2>3, <2>4, <2>5, <2>6, <2>7 DEF WellTyped, s
<1>2. DOMAIN node = PID /\ pauses \in 0 .. MaxPauses /\ early \in 0 .. MaxEarly
      BY ReplicaAssumption DEF Init
<1>3. QED
      BY <1>1, <1>2 DEF AllTyped

(* A message leaves a connection; the rest stays well formed.              *)
LEMMA TakeTyped ==
    ASSUME NEW s, WellTyped(s), NEW n \in PID, NEW k \in 1 .. Len(s.out[n])
    PROVE  /\ s.out[n][k] \in MessageSets
           /\ Remains(s, [s EXCEPT !.out[n] = SubSeq(@, k + 1, Len(@))])
<1> DEFINE q    == s.out[n]
           rest == SubSeq(q, k + 1, Len(q))
           o    == [s.out EXCEPT ![n] = rest]
           u    == [s EXCEPT !.out = o]
<1>1. q \in Seq(MessageSets)
      BY DEF WellTyped
<1>2. q[k] \in MessageSets /\ rest \in Seq(MessageSets)
      BY <1>1
<1> HIDE DEF rest
<1>3. o \in [PID -> Seq(MessageSets)]
      BY <1>2 DEF WellTyped
<1> HIDE DEF o
<1>4. /\ DOMAIN u = Fields /\ u.myid = s.myid /\ u.view = s.view
      /\ u.pending = s.pending /\ u.tf = s.tf /\ u.log = s.log
      /\ u.blocks = s.blocks /\ u.transactions = s.transactions
      /\ u.fromClient = s.fromClient /\ u.replied = s.replied
      /\ u.executed = s.executed /\ u.out = o
      BY DEF WellTyped, Fields
<1>5. u = [s EXCEPT !.out[n] = SubSeq(@, k + 1, Len(@))]
      BY DEF o, rest
<1> HIDE DEF u
<1>6. Remains(s, u)
      BY <1>3, <1>4 DEF Remains, WellTyped, QueuesTyped, timeToStop
<1>7. QED
      BY <1>2, <1>5, <1>6

(* A message arrives.                                                      *)
LEMMA DeliverTyped ==
    ASSUME AllTyped, NEW p \in PID, NEW n \in PID, Deliver(p, n)
    PROVE  AllTyped'
<1> DEFINE k == Upcoming(p, n)
           m == node[p].out[n][k]
           q == [node[p] EXCEPT !.out[n] = SubSeq(@, k + 1, Len(@))]
<1>1. PICK u : /\ \/ u = node[n]
                  \/ m.type = "newview" /\ u = handleNewview(node[n], m)
                  \/ m.type = "ldrprepare" /\ u = handleLdrPrepare(node[n], m)
                  \/ m.type = "prepare" /\ u = handlePrepare(node[n], m)
                  \/ m.type = "precommit" /\ u = handlePrecommit(node[n], m)
                  \/ m.type = "commit" /\ u = handleCommit(node[n], m)
               /\ node' = [node EXCEPT
                      ![p].out[n] = SubSeq(@, k + 1, Len(@)), ![n] = u]
               /\ UNCHANGED <<pauses, early>>
      BY DEF Deliver, HandleNewview, HandleLdrPrepare, HandlePrepare,
             HandlePrecommit, HandleCommit, Receive
<1>2. p # n /\ node[p].out[n] # <<>>
      BY DEF Deliver, HandleNewview, HandleLdrPrepare, HandlePrepare,
             HandlePrecommit, HandleCommit, Receive, CanReceive
<1>3. /\ DOMAIN node = PID /\ \A i \in PID : WellTyped(node[i]) /\ node[i].myid = i
      BY DEF AllTyped
<1>4. node[p].out[n] \in Seq(MessageSets)
      BY <1>3 DEF WellTyped
<1>5. k \in 1 .. Len(node[p].out[n])
      BY <1>2, <1>4, UpcomingPosition
<1> HIDE DEF k
<1>6. m \in MessageSets /\ Remains(node[p], q)
      BY <1>3, <1>5, TakeTyped
<1>7. node' = [[node EXCEPT ![p] = q] EXCEPT ![n] = u]
      BY <1>1, <1>2, <1>3
<1> HIDE DEF m, q
<1>8. /\ m.type \in VoteTypes => m \in VoteSet(m.type)
      /\ m.type = "ldrprepare" => m \in ProposalSet
      BY <1>6 DEF MessageSets, VoteSet, ProposalSet, VoteTypes
<1>9. Remains(node[n], u)
      BY <1>1, <1>3, <1>8, RemainsOn, HandleNewviewTyped, HandleLdrPrepareTyped,
         HandleVotesTyped DEF VoteTypes
<1>10. DOMAIN node' = PID /\ node'[n] = u
       BY <1>3, <1>7
<1>11. \A i \in PID \ {n} : node'[i] = node[i] \/ (i = p /\ node'[i] = q)
       BY <1>3, <1>7
<1>12. \A i \in PID : WellTyped(node'[i]) /\ node'[i].myid = i
       BY <1>3, <1>6, <1>9, <1>10, <1>11 DEF Remains
<1>13. QED
       BY <1>1, <1>10, <1>12 DEF AllTyped

(* A replica moves on its own.                                             *)
LEMMA OwnTyped ==
    ASSUME AllTyped, NEW n \in PID,
           \/ Start(n) \/ StartNewView(n) \/ Timeout(n)
           \/ HandleTransaction(n) \/ Pause(n) \/ Resume(n)
    PROVE  AllTyped'
<1> DEFINE s == node[n]
<1>1. /\ DOMAIN node = PID /\ WellTyped(s) /\ s.myid = n /\ DOMAIN s = Fields
      /\ \A i \in PID : WellTyped(node[i]) /\ node[i].myid = i
      /\ pauses \in 0 .. MaxPauses /\ early \in 0 .. MaxEarly
      BY DEF AllTyped, WellTyped
<1>2. ASSUME NEW u, WellTyped(u), u.myid = n, node' = [node EXCEPT ![n] = u],
             pauses' \in 0 .. MaxPauses, early' \in 0 .. MaxEarly
      PROVE  AllTyped'
      BY <1>1, <1>2 DEF AllTyped
<1>3. CASE Start(n)
  <2> DEFINE x == [s EXCEPT !.started = TRUE]
             u == getStarted(x)
  <2>1. node' = [node EXCEPT ![n] = u] /\ UNCHANGED <<pauses, early>>
        BY <1>3 DEF Start
  <2>2. /\ DOMAIN x = Fields /\ x.myid = s.myid /\ x.view = s.view
        /\ x.pending = s.pending /\ x.tf = s.tf /\ x.log = s.log
        /\ x.blocks = s.blocks /\ x.transactions = s.transactions
        /\ x.fromClient = s.fromClient /\ x.replied = s.replied
        /\ x.executed = s.executed /\ x.out = s.out
        BY <1>1 DEF Fields
  <2> HIDE DEF x
  <2>3. WellTyped(x)
        BY <1>1, <2>2 DEF WellTyped, QueuesTyped, timeToStop
  <2>4. WellTyped(u) /\ u.myid = n
        BY <1>1, <2>2, <2>3, GetStartedTyped DEF Remains
  <2> HIDE DEF u
  <2>5. QED
        BY <1>1, <1>2, <2>1, <2>4
<1>4. CASE StartNewView(n)
  <2>1. /\ node' = [node EXCEPT ![n] = startNewView(s)]
        /\ s.pending = "startNewView" /\ UNCHANGED <<pauses, early>>
        BY <1>4 DEF StartNewView
  <2>2. WellTyped(startNewView(s)) /\ startNewView(s).myid = n
        BY <1>1, <2>1, StartNewViewTyped DEF WellTyped
  <2>3. QED
        BY <1>1, <1>2, <2>1, <2>2
<1>5. CASE Timeout(n)
  <2> DEFINE u == [s EXCEPT !.stopped = TRUE, !.timer = FALSE]
  <2>1. /\ \/ timeToStop(s) /\ node' = [node EXCEPT ![n] = u]
           \/ ~timeToStop(s) /\ node' = [node EXCEPT ![n] = startNewView(s)]
        /\ early' = early \/ (early < MaxEarly /\ early' = early + 1)
        /\ pauses' = pauses
        BY <1>5 DEF Timeout, TimerExpires, CanTimeout
  <2>2. early' \in 0 .. MaxEarly /\ pauses' \in 0 .. MaxPauses
        BY <1>1, <2>1, ReplicaAssumption
  <2>3. ~timeToStop(s) => WellTyped(startNewView(s)) /\ startNewView(s).myid = n
        BY <1>1, StartNewViewTyped
  <2>4. /\ DOMAIN u = Fields /\ u.myid = s.myid /\ u.view = s.view
        /\ u.pending = s.pending /\ u.tf = s.tf /\ u.log = s.log
        /\ u.blocks = s.blocks /\ u.transactions = s.transactions
        /\ u.fromClient = s.fromClient /\ u.replied = s.replied
        /\ u.executed = s.executed /\ u.out = s.out
        BY <1>1 DEF Fields
  <2> HIDE DEF u
  <2>5. WellTyped(u) /\ u.myid = n
        BY <1>1, <2>4 DEF WellTyped, QueuesTyped, timeToStop
  <2>6. QED
        BY <1>2, <2>1, <2>2, <2>3, <2>5
<1>6. CASE HandleTransaction(n)
  <2> DEFINE rest  == Tail(s.fromClient)
             queue == IF s.isPaused THEN s.transactions
                      ELSE Append(s.transactions, Head(s.fromClient))
             u == [s EXCEPT !.fromClient = rest, !.transactions = queue]
  <2>1. /\ node' = [node EXCEPT ![n] = u]
        /\ s.fromClient # <<>> /\ UNCHANGED <<pauses, early>>
        BY <1>6 DEF HandleTransaction
  <2>2. rest \in Transactions /\ queue \in Transactions
    <3>1. \A X, x, y : x \in Seq(X) /\ x # <<>> /\ y \in Seq(X) =>
             Tail(x) \in Seq(X) /\ Append(y, Head(x)) \in Seq(X)
          OBVIOUS
    <3>2. s.fromClient \in Transactions /\ s.transactions \in Transactions
          BY <1>1 DEF WellTyped, QueuesTyped
    <3>3. QED
          BY <2>1, <3>1, <3>2 DEF Transactions
  <2> HIDE DEF rest, queue
  <2>3. /\ DOMAIN u = Fields /\ u.myid = s.myid /\ u.view = s.view
        /\ u.pending = s.pending /\ u.tf = s.tf /\ u.log = s.log
        /\ u.blocks = s.blocks /\ u.transactions = queue
        /\ u.fromClient = rest /\ u.replied = s.replied
        /\ u.executed = s.executed /\ u.out = s.out
        BY <1>1 DEF Fields
  <2> HIDE DEF u
  <2>4. WellTyped(u) /\ u.myid = n
        BY <1>1, <2>2, <2>3 DEF WellTyped, QueuesTyped, timeToStop
  <2>5. QED
        BY <1>1, <1>2, <2>1, <2>4
<1>7. CASE Pause(n) \/ Resume(n)
  <2>1. PICK b \in BOOLEAN : node' = [node EXCEPT ![n] = [s EXCEPT !.isPaused = b]]
        BY <1>7 DEF Pause, Resume
  <2> DEFINE u == [s EXCEPT !.isPaused = b]
  <2>2. pauses' \in 0 .. MaxPauses /\ early' \in 0 .. MaxEarly
        BY <1>1, <1>7, ReplicaAssumption DEF Pause, Resume
  <2>3. /\ DOMAIN u = Fields /\ u.myid = s.myid /\ u.view = s.view
        /\ u.pending = s.pending /\ u.tf = s.tf /\ u.log = s.log
        /\ u.blocks = s.blocks /\ u.transactions = s.transactions
        /\ u.fromClient = s.fromClient /\ u.replied = s.replied
        /\ u.executed = s.executed /\ u.out = s.out
        BY <1>1 DEF Fields
  <2>4. node' = [node EXCEPT ![n] = u]
        BY <2>1
  <2> HIDE DEF u
  <2>5. WellTyped(u) /\ u.myid = n
        BY <1>1, <2>3 DEF WellTyped, QueuesTyped, timeToStop
  <2>6. QED
        BY <1>2, <2>2, <2>4, <2>5
<1>8. QED
      BY <1>3, <1>4, <1>5, <1>6, <1>7

(* Well formed in the sense of the proof is well formed.                   *)
LEMMA TypedFact == AllTyped => TypeOK
<1> SUFFICES ASSUME AllTyped PROVE TypeOK
    OBVIOUS
<1>1. ASSUME NEW m \in MessageSets
      PROVE  WellFormed(m)
  <2>1. CASE m \in ProposalSet
    <3>1. m.type = "ldrprepare" /\ m \in Proposals
      <4>1. /\ JustsOver(NewviewData) \subseteq Justs /\ Signatures \subseteq SUBSET Tokens
            BY DataFact DEF JustsOver, Justs, Signatures
      <4>2. BlockSet \subseteq Blocks
            BY DataFact, ReplicaAssumption DEF BlockSet, Blocks, Transactions
      <4>3. QED
            BY <2>1, <4>1, <4>2 DEF ProposalSet, Proposals
    <3>2. QED
          BY <3>1 DEF WellFormed
  <2>2. ASSUME NEW type \in VoteTypes, m \in VoteSet(type)
        PROVE  WellFormed(m)
    <3>1. DataOf(type) \subseteq RDataOver(Hashes) /\ Signatures \subseteq SUBSET Tokens
          BY DataFact DEF DataOf, Signatures
    <3>2. m.type = type /\ m \in Votes(type)
          BY <2>2, <3>1 DEF VoteSet, Votes
    <3>3. QED
          BY <3>2 DEF WellFormed, VoteTypes
  <2>3. QED
        BY <2>1, <2>2 DEF MessageSets
<1>2. ASSUME NEW n \in PID
      PROVE  /\ node[n].myid = n
             /\ node[n].view \in 0 .. MaxViews - 1
             /\ node[n].tf \in TrustedFunOver(Hashes)
             /\ \A k \in DOMAIN LogTypes : \A m \in node[n].log[k] :
                    WellFormed(m) /\ m.type = LogTypes[k]
             /\ \A d \in PID : \A k \in DOMAIN node[n].out[d] :
                    WellFormed(node[n].out[d][k])
             /\ \A v \in DOMAIN node[n].blocks : node[n].blocks[v] \in Blocks
             /\ node[n].transactions \in Seq(1 .. NumInstances)
             /\ node[n].replied \in Seq(1 .. NumInstances)
             /\ node[n].executed \in Seq([view : Nat, hash : Hashes])
  <2> DEFINE s == node[n]
  <2>1. WellTyped(s) /\ s.myid = n
        BY DEF AllTyped
  <2> HIDE DEF s
  <2>2. s.tf \in TrustedFunOver(Hashes)
        BY <2>1, DataFact DEF WellTyped, ComponentSet, TrustedFunOver
  <2>3. ASSUME NEW k \in DOMAIN LogTypes, NEW m \in s.log[k]
        PROVE  WellFormed(m) /\ m.type = LogTypes[k]
    <3>1. k \in LogFields
          BY DEF LogTypes, LogFields
    <3>2. m \in MessageSet(LogTypes[k])
          BY <2>1, <3>1 DEF WellTyped, LogTyped
    <3>3. m.type = LogTypes[k] /\ m \in MessageSets
          BY <3>2 DEF MessageSet, LogTypes, VoteSet, ProposalSet, MessageSets, VoteTypes
    <3>4. QED
          BY <1>1, <3>3
  <2>4. ASSUME NEW d \in PID, NEW k \in DOMAIN s.out[d]
        PROVE  WellFormed(s.out[d][k])
    <3>1. s.out[d] \in Seq(MessageSets)
          BY <2>1 DEF WellTyped
    <3>2. QED
          BY <1>1, <3>1
  <2>5. \A v \in DOMAIN s.blocks : s.blocks[v] \in Blocks
    <3>1. BlockSet \subseteq Blocks
          BY DataFact, ReplicaAssumption DEF BlockSet, Blocks, Transactions
    <3>2. QED
          BY <2>1, <3>1 DEF WellTyped, BlocksTyped
  <2>6. QED
        BY <2>1, <2>2, <2>3, <2>4, <2>5
        DEF s, WellTyped, QueuesTyped, Transactions, Entries
<1>3. QED
      BY <1>2 DEF AllTyped, TypeOK

(* Whatever happens, the state of every replica is well formed: views stay *)
(* below the number of views to run, and what the components have signed,  *)
(* the logs, the connections, the blocks and the histories hold data of    *)
(* their types.                                                            *)
THEOREM TypesCorrect == Spec => []TypeOK
<1>1. ASSUME AllTyped, [Next]_vars PROVE AllTyped'
  <2>1. CASE Next
        BY <1>1, <2>1, DeliverTyped, OwnTyped DEF Next, Step
  <2>2. CASE UNCHANGED vars
        BY <1>1, <2>2 DEF vars, AllTyped
  <2>3. QED
        BY <1>1, <2>1, <2>2
<1>2. QED
      BY <1>1, InitTyped, TypedFact, PTL DEF Spec
=============================================================================
