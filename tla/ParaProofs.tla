------------------------------ MODULE ParaProofs ------------------------------
(***************************************************************************)
(* What Parallel HotStuff guarantees for every number of replicas, views,  *)
(* blocks and transactions.                                                *)
(*                                                                         *)
(* The loops of the handlers are folds; the first part gives what a fold   *)
(* evaluates.  The second part is about types, the log and the component.  *)
(* The third gives each transaction the slot it was put in (a ledger F)    *)
(* and says when the state of a replica is sound with respect to F; the    *)
(* lemmas about the functions of Handler say that they keep it so (Keeps)  *)
(* or how the ledger may grow (Leads, Ends).  The last part composes the   *)
(* replicas and has the theorems.                                          *)
(***************************************************************************)
EXTENDS ParaHotStuff, ReplicaProofs

-----------------------------------------------------------------------------
(* The loops.                                                              *)

(* One turn of the loops of preparePara, executeBlocksFrom and             *)
(* handleEarlierMessagesPara; c is what does not change in the loop.       *)
Turn(loop, c, acc, x) ==
    CASE loop = "propose" -> proposePara(acc.s, c, acc.prevHash, x)
      [] loop = "execute" ->
             executeRDataPara(acc, firstPara(c.log.commits, c.view, x).rdata)
      [] loop = "catchUp" -> catchUpSeq(acc, x, c)

(* The function inside FoldLeft: what a loop has made of the turns S.      *)
IsLoop(loop, c, base, seq, k, f) ==
    f = [S \in SUBSET (1 .. k) |->
            IF S = {} THEN base
            ELSE Turn(loop, c, f[S \ {Max(S)}], seq[Max(S)])]

(* Max is the greatest element of a bounded set of numbers.                *)
LEMMA MaxFact ==
    ASSUME NEW n \in Nat, NEW S \in SUBSET (0 .. n), S # {}
    PROVE  Max(S) \in S /\ \A x \in S : x <= Max(S)
<1> DEFINE T == {n - x : x \in S}
<1>1. T \in SUBSET Nat /\ T # {}
  <2>1. \A x \in S : x \in 0 .. n /\ n - x \in Nat
        OBVIOUS
  <2>2. T \subseteq Nat
        BY <2>1
  <2>3. T # {}
        OBVIOUS
  <2>4. QED
        BY <2>2, <2>3
<1>2. PICK t \in T : \A x \in T : t <= x
      BY <1>1, LeastNatural
<1>3. PICK m \in S : t = n - m
      BY <1>2
<1>4. \A x \in S : m >= x
  <2>1. \A x \in S : n - m <= n - x
        BY <1>2, <1>3
  <2>2. QED
        BY <2>1
<1>5. Max(S) \in S /\ \A x \in S : Max(S) >= x
      BY <1>4 DEF Max
<1>6. \A x \in S : Max(S) >= x => x <= Max(S)
      BY <1>5
<1>7. QED
      BY <1>5, <1>6

(* There is such a function.                                               *)
LEMMA LoopExists ==
    ASSUME NEW loop, NEW c, NEW base, NEW seq, NEW n \in Nat
    PROVE  \E f : IsLoop(loop, c, base, seq, n, f)
<1> DEFINE Bad == {k \in Nat : ~ \E f : IsLoop(loop, c, base, seq, k, f)}
<1>1. SUFFICES ASSUME Bad # {} PROVE FALSE
      OBVIOUS
<1>2. PICK k \in Bad : \A j \in Bad : k <= j
      BY <1>1, LeastNatural
<1>3. /\ k \in Nat /\ ~ \E f : IsLoop(loop, c, base, seq, k, f)
      /\ \A j \in Nat : j < k => \E f : IsLoop(loop, c, base, seq, j, f)
      BY <1>2
<1> HIDE DEF Bad
<1>4. k # 0
  <2> DEFINE f == [S \in SUBSET (1 .. 0) |-> base]
  <2>1. \A S \in SUBSET (1 .. 0) : S = {}
        OBVIOUS
  <2>2. IsLoop(loop, c, base, seq, 0, f)
        BY <2>1 DEF IsLoop
  <2>3. QED
        BY <1>3, <2>2
<1>5. PICK g : IsLoop(loop, c, base, seq, k - 1, g)
      BY <1>3, <1>4
<1> DEFINE Val(S) == IF S = {} THEN base
                     ELSE Turn(loop, c, g[S \ {Max(S)}], seq[Max(S)])
           f      == [S \in SUBSET (1 .. k) |-> Val(S)]
<1>6. \A S \in SUBSET (1 .. k - 1) : g[S] = Val(S)
      BY <1>5 DEF IsLoop
<1>7. ASSUME NEW S \in SUBSET (1 .. k), S # {}
      PROVE  S \ {Max(S)} \in SUBSET (1 .. k - 1)
  <2>1. S \in SUBSET (0 .. k)
        OBVIOUS
  <2>2. Max(S) \in S /\ \A x \in S : x <= Max(S)
        BY <1>3, <1>7, <2>1, MaxFact
  <2> DEFINE mx == Max(S)
  <2> HIDE DEF mx
  <2>3. mx \in 1 .. k /\ \A x \in S : x \in 1 .. k /\ x <= mx
        BY <2>2 DEF mx
  <2>4. \A x \in S : x # mx => x \in 1 .. k - 1
        BY <1>3, <2>3
  <2>5. QED
        BY <2>4 DEF mx
<1>8. \A S \in SUBSET (1 .. k - 1) : S \in SUBSET (1 .. k)
      BY <1>3
<1> HIDE DEF Val
<1>9. \A S \in SUBSET (1 .. k - 1) : f[S] = g[S]
      BY <1>6, <1>8
<1>10. \A S \in SUBSET (1 .. k) :
           f[S] = IF S = {} THEN base
                  ELSE Turn(loop, c, f[S \ {Max(S)}], seq[Max(S)])
       BY <1>7, <1>9 DEF Val
<1>11. f = [S \in SUBSET (1 .. k) |-> f[S]]
       OBVIOUS
<1> HIDE DEF f
<1>12. IsLoop(loop, c, base, seq, k, f)
       BY <1>10, <1>11 DEF IsLoop
<1>13. QED
       BY <1>3, <1>12

(* The turns of a loop, one after another.                                 *)
Unrolled(loop, c, base, seq, n, f) ==
    /\ f[1 .. 0] = base
    /\ \A k \in 1 .. n : f[1 .. k] = Turn(loop, c, f[1 .. k - 1], seq[k])

(* It goes through the turns in order.                                     *)
LEMMA LoopTurns ==
    ASSUME NEW loop, NEW c, NEW base, NEW seq, NEW n \in Nat, NEW f,
           IsLoop(loop, c, base, seq, n, f)
    PROVE  Unrolled(loop, c, base, seq, n, f)
<1>1. f[1 .. 0] = base
  <2>1. 1 .. 0 = {} /\ {} \in SUBSET (1 .. n)
        OBVIOUS
  <2>2. QED
        BY <2>1 DEF IsLoop
<1>2. ASSUME NEW k \in 1 .. n
      PROVE  f[1 .. k] = Turn(loop, c, f[1 .. k - 1], seq[k])
  <2>1. /\ 1 .. k \in SUBSET (1 .. n) /\ 1 .. k # {} /\ k \in 1 .. k
        /\ 1 .. k \in SUBSET (0 .. n) /\ k \in Nat
        OBVIOUS
  <2>2. Max(1 .. k) \in 1 .. k /\ k <= Max(1 .. k)
        BY <2>1, MaxFact
  <2>3. Max(1 .. k) = k
        BY <2>2
  <2>4. (1 .. k) \ {k} = 1 .. k - 1
        OBVIOUS
  <2>5. QED
        BY <2>1, <2>3, <2>4 DEF IsLoop
<1>3. QED
      BY <1>1, <1>2 DEF Unrolled

(* The loop of preparePara.                                                *)
LEMMA ProposeLoop ==
    ASSUME NEW s, NEW just
    PROVE  LET begin == IF s.myid % 4 = Byzantine THEN 2 ELSE 1
               n     == MaxBlocksInView + 1 - begin
               base  == [s |-> s, prevHash |-> just.rdata.justh]
               seq   == [k \in 1 .. n |-> k + begin - 1]
           IN  \E f : /\ IsLoop("propose", just, base, seq, n, f)
                      /\ preparePara(s, just) = f[1 .. n].s
<1> DEFINE begin == IF s.myid % 4 = Byzantine THEN 2 ELSE 1
           n     == MaxBlocksInView + 1 - begin
           base  == [s |-> s, prevHash |-> just.rdata.justh]
           seq   == [k \in 1 .. n |-> k + begin - 1]
           iter[S \in SUBSET (1 .. n)] ==
               IF S = {} THEN base
               ELSE proposePara(iter[S \ {Max(S)}].s, just,
                                iter[S \ {Max(S)}].prevHash, seq[Max(S)])
<1>1. preparePara(s, just) = iter[1 .. n].s
      BY DEF preparePara, FoldLeft, MapThenFoldSet
<1>2. n \in Nat
      BY ParaAssumption
<1>3. \A acc, x : Turn("propose", just, acc, x)
                      = proposePara(acc.s, just, acc.prevHash, x)
      BY DEF Turn
<1> HIDE DEF n, base, seq
<1>4. \A f : IsLoop("propose", just, base, seq, n, f) <=>
               f = [S \in SUBSET (1 .. n) |->
                   IF S = {} THEN base
                   ELSE proposePara(f[S \ {Max(S)}].s, just,
                                    f[S \ {Max(S)}].prevHash, seq[Max(S)])]
      BY <1>3 DEF IsLoop
<1>5. \E f : IsLoop("propose", just, base, seq, n, f)
      BY <1>2, LoopExists
<1>6. iter = CHOOSE f : f = [S \in SUBSET (1 .. n) |->
               IF S = {} THEN base
               ELSE proposePara(f[S \ {Max(S)}].s, just,
                                f[S \ {Max(S)}].prevHash, seq[Max(S)])]
      OBVIOUS
<1> HIDE DEF iter
<1>7. IsLoop("propose", just, base, seq, n, iter)
      BY <1>4, <1>5, <1>6
<1>8. QED
      BY <1>1, <1>7 DEF n, base, seq

(* The loop of executeBlocksFrom.                                          *)
LEMMA ExecuteLoop ==
    ASSUME NEW s, NEW endSeq
    PROVE  LET done == s.lastExecutedSeq
               last == Max({done} \cup
                           {k \in done + 1 .. endSeq : \A i \in done + 1 .. k :
                                extendsPrevious(s.pblocks[s.view], i)})
               n    == last - done
               seq  == [i \in 1 .. n |-> done + i]
           IN  n \in Nat =>
                   \E f : /\ IsLoop("execute", s, s, seq, n, f)
                          /\ executeBlocksFrom(s, endSeq) = f[1 .. n]
<1> DEFINE done == s.lastExecutedSeq
           last == Max({done} \cup
                       {k \in done + 1 .. endSeq : \A i \in done + 1 .. k :
                            extendsPrevious(s.pblocks[s.view], i)})
           n    == last - done
           seq  == [i \in 1 .. n |-> done + i]
           execute(t, k) ==
               executeRDataPara(t, firstPara(s.log.commits, s.view, k).rdata)
           iter[S \in SUBSET (1 .. n)] ==
               IF S = {} THEN s ELSE execute(iter[S \ {Max(S)}], seq[Max(S)])
<1> SUFFICES ASSUME n \in Nat
             PROVE  \E f : /\ IsLoop("execute", s, s, seq, n, f)
                           /\ executeBlocksFrom(s, endSeq) = f[1 .. n]
    OBVIOUS
<1>1. executeBlocksFrom(s, endSeq) = iter[1 .. n]
      BY DEF executeBlocksFrom, FoldLeft, MapThenFoldSet
<1>2. \A acc, x : Turn("execute", s, acc, x) = execute(acc, x)
      BY DEF Turn
<1> HIDE DEF last, n, seq
<1>3. \A f : IsLoop("execute", s, s, seq, n, f) <=>
               f = [S \in SUBSET (1 .. n) |->
                   IF S = {} THEN s ELSE execute(f[S \ {Max(S)}], seq[Max(S)])]
      BY <1>2 DEF IsLoop
<1>4. \E f : IsLoop("execute", s, s, seq, n, f)
      BY LoopExists
<1>5. iter = CHOOSE f : f = [S \in SUBSET (1 .. n) |->
                   IF S = {} THEN s ELSE execute(f[S \ {Max(S)}], seq[Max(S)])]
      OBVIOUS
<1> HIDE DEF iter
<1>6. IsLoop("execute", s, s, seq, n, iter)
      BY <1>3, <1>4, <1>5
<1>7. QED
      BY <1>1, <1>6

(* The loop of handleEarlierMessagesPara.                                  *)
LEMMA CatchUpLoop ==
    ASSUME NEW s, NEW unset
    PROVE  ~amCurrentLeader(s) /\ s.verifiedJust.rdata.propv = s.view =>
               LET seq == [k \in SeqNumbers |-> k]
               IN  \E f : /\ IsLoop("catchUp", unset, s, seq, MaxBlocksInView, f)
                          /\ handleEarlierMessagesPara(s, unset) = f[SeqNumbers]
<1> DEFINE catchUp(t, k) == catchUpSeq(t, k, unset)
           n   == MaxBlocksInView
           seq == [k \in SeqNumbers |-> k]
           iter[S \in SUBSET (1 .. n)] ==
               IF S = {} THEN s ELSE catchUp(iter[S \ {Max(S)}], seq[Max(S)])
<1> SUFFICES ASSUME ~amCurrentLeader(s), s.verifiedJust.rdata.propv = s.view
             PROVE  \E f : /\ IsLoop("catchUp", unset, s, seq, n, f)
                           /\ handleEarlierMessagesPara(s, unset) = f[SeqNumbers]
    OBVIOUS
<1>1. handleEarlierMessagesPara(s, unset) = iter[1 .. n] /\ SeqNumbers = 1 .. n
      BY DEF handleEarlierMessagesPara, FoldLeft, MapThenFoldSet, SeqNumbers
<1>2. \A acc, x : Turn("catchUp", unset, acc, x) = catchUp(acc, x)
      BY DEF Turn
<1> HIDE DEF seq
<1>3. \A f : IsLoop("catchUp", unset, s, seq, n, f) <=>
               f = [S \in SUBSET (1 .. n) |->
                   IF S = {} THEN s ELSE catchUp(f[S \ {Max(S)}], seq[Max(S)])]
      BY <1>2 DEF IsLoop
<1>4. \E f : IsLoop("catchUp", unset, s, seq, n, f)
      BY LoopExists, ParaAssumption
<1>5. iter = CHOOSE f : f = [S \in SUBSET (1 .. n) |->
                   IF S = {} THEN s ELSE catchUp(f[S \ {Max(S)}], seq[Max(S)])]
      OBVIOUS
<1> HIDE DEF iter
<1>6. IsLoop("catchUp", unset, s, seq, n, iter)
      BY <1>3, <1>4, <1>5
<1>7. QED
      BY <1>1, <1>6 DEF seq

-----------------------------------------------------------------------------
(* The types of data.                                                      *)

Txs          == 1 .. NumInstances
Transactions == Seq(Txs)

(* The hashes of blocks; only new-view data signs the unset hash.          *)
Chain      == Seq([seq : Nat, trans : Seq(Nat)])
Numbers    == 0 .. MaxBlocksInView
Phases     == Phase \cup {PARALLEL}
VotePhases == {PREPARE, PRECOMMIT, COMMIT}

DataOver(H) == [proph : H, propv : Views, justh : Chain, justv : Views,
                phase : Phases, seq : Numbers]
AnyData  == DataOver(Hashes)
VoteData == DataOver(Chain)

Signatures   == {signs \in SUBSET Tokens : IsFiniteSet(signs)}
JustsOver(D) == [set : BOOLEAN, rdata : D, signs : Signatures]
AnyBlock     == [prevHash : Chain, seq : SeqNumbers, trans : Transactions]

(* The maps from some of the keys K to values V.                           *)
Maps(K, V) == UNION {[D -> V] : D \in SUBSET K}

ComponentSet ==
    [preph : Chain, prepv : Views, prepseq : Numbers,
     lockh : Chain, lockv : Views, lockseq : Numbers,
     view : Views, phase : {NEWVIEW, PARALLEL},
     blockPhases : Maps(Chain, VotePhases), precommits : Maps(Numbers, Chain),
     signed : SUBSET Data]

(* What the numbers and the sets of data are made of.                      *)
LEMMA DataFact ==
    /\ MaxBlocksInView \in Nat \ {0} /\ MaxViews \in Nat \ {0} /\ 0 \in Views
    /\ 0 \in Numbers /\ SeqNumbers \subseteq Numbers
    /\ Chain \subseteq Hashes /\ Dummy \in Hashes /\ Genesis \in Chain
    /\ Dummy \notin Chain
    /\ VoteData \subseteq AnyData /\ AnyData \subseteq Data
    /\ NoJustPara \in JustsOver(VoteData) /\ NoJustPara.set = FALSE
    /\ JustsOver(VoteData) \subseteq JustsOver(AnyData)
<1>1. /\ MaxBlocksInView \in Nat \ {0} /\ MaxViews \in Nat \ {0} /\ 0 \in Views
      /\ 0 \in Numbers /\ SeqNumbers \subseteq Numbers
      BY ParaAssumption, ReplicaAssumption DEF Views, Numbers, SeqNumbers
<1>2. /\ Chain \subseteq Hashes /\ Dummy \in Hashes /\ Genesis \in Chain
      /\ Dummy \notin Chain
      BY UnsetAssumption DEF Chain, Hashes, Genesis
<1>3. VoteData \subseteq AnyData /\ AnyData \subseteq Data
      BY <1>2 DEF VoteData, AnyData, DataOver, Data, Phases, Numbers
<1>4. NEWVIEW \in Phases
      BY DEF Phases, Phase
<1>5. NoJustPara.rdata \in VoteData /\ {} \in Signatures
      BY <1>1, <1>2, <1>4, FS_EmptySet
      DEF NoJustPara, VoteData, DataOver, RDataPara, Signatures
<1>6. NoJustPara \in JustsOver(VoteData) /\ NoJustPara.set = FALSE
      BY <1>5 DEF NoJustPara, JustsOver
<1>7. JustsOver(VoteData) \subseteq JustsOver(AnyData)
      BY <1>3 DEF JustsOver
<1>8. QED
      BY <1>1, <1>2, <1>3, <1>6, <1>7

(* map[key] = value.                                                       *)
LEMMA AssignFact ==
    ASSUME NEW K, NEW V, NEW f \in Maps(K, V), NEW k \in K, NEW v \in V
    PROVE  assign(f, k, v) \in Maps(K, V)
<1>1. PICK D \in SUBSET K : f \in [D -> V]
      BY DEF Maps
<1>2. assign(f, k, v) \in [D \cup {k} -> V]
      BY <1>1 DEF assign
<1>3. D \cup {k} \in SUBSET K
      BY <1>1
<1>4. QED
      BY <1>2, <1>3 DEF Maps

(* A map that has been cleared.                                            *)
LEMMA EmptyMap == \A K, V : <<>> \in Maps(K, V)
<1> SUFFICES ASSUME NEW K, NEW V PROVE <<>> \in Maps(K, V)
    OBVIOUS
<1>1. <<>> \in [{} -> V]
      OBVIOUS
<1>2. {} \in SUBSET K
      OBVIOUS
<1>3. QED
      BY <1>1, <1>2 DEF Maps

(* The hash of a block is a chain (PBlock::hash).                          *)
LEMMA HashTyped ==
    ASSUME NEW b \in AnyBlock
    PROVE  hash_para(b) \in Chain
<1>1. Transactions \subseteq Seq(Nat) /\ SeqNumbers \subseteq Nat
      BY ReplicaAssumption, ParaAssumption DEF Transactions, Txs, SeqNumbers
<1>2. b.prevHash \in Chain /\ b.trans \in Seq(Nat) /\ b.seq \in Nat
      BY <1>1 DEF AnyBlock
<1>3. QED
      BY <1>2 DEF hash_para, Chain

(* A signature of data is a set of signatures.                             *)
LEMMA SignatureTyped ==
    ASSUME NEW n \in PID, NEW d \in Data
    PROVE  {Signature(n, d)} \in Signatures
<1>1. Signature(n, d) \in Tokens
      BY DEF Signature, Tokens
<1>2. QED
      BY <1>1, FS_Singleton DEF Signatures

-----------------------------------------------------------------------------
(* The component.                                                          *)

(* signBlock.                                                              *)
LEMMA SignBlockTyped ==
    ASSUME NEW n \in PID, NEW t \in ComponentSet, NEW h1 \in Chain,
           NEW h2 \in Chain, NEW v2 \in Views, NEW seq \in Numbers
    PROVE  LET r == signBlock(n, t, h1, h2, v2, seq)
           IN  /\ r.tee \in ComponentSet
               /\ r.tee.view = t.view /\ r.tee.phase = t.phase
               /\ r.just \in JustsOver(VoteData) /\ r.just.set
               /\ r.just.rdata.propv = t.view
               /\ r.just.rdata.justh = h2 /\ r.just.rdata.justv = v2
<1> DEFINE d == RDataPara(h1, t.view, h2, v2, blockPhase(t, h1), seq)
           x == [t EXCEPT !.signed = @ \cup {d}]
           j == Just(d, {Signature(n, d)})
<1>1. blockPhase(t, h1) \in VotePhases /\ VotePhases \subseteq Phases
  <2>1. PICK D \in SUBSET Chain : t.blockPhases \in [D -> VotePhases]
        BY DEF ComponentSet, Maps
  <2>2. QED
        BY <2>1 DEF blockPhase, VotePhases, Phases, Phase
<1>2. /\ d \in VoteData /\ d \in Data /\ d.propv = t.view
      /\ d.justh = h2 /\ d.justv = v2
  <2>1. t.view \in Views
        BY DEF ComponentSet
  <2>2. d \in VoteData /\ d.propv = t.view /\ d.justh = h2 /\ d.justv = v2
        BY <1>1, <2>1 DEF RDataPara, VoteData, DataOver
  <2>3. QED
        BY <2>2, DataFact
<1>3. {Signature(n, d)} \in Signatures
      BY <1>2, SignatureTyped
<1> HIDE DEF d
<1>4. /\ x \in ComponentSet /\ x.view = t.view /\ x.phase = t.phase
      /\ x.blockPhases = t.blockPhases
      BY <1>2 DEF ComponentSet
<1>5. blockPhase(x, h1) = blockPhase(t, h1)
      BY <1>4 DEF blockPhase
<1> HIDE DEF x
<1> DEFINE b == blockPhase(x, h1)
           next == CASE b = PREPARE   -> PRECOMMIT
                     [] b = PRECOMMIT -> COMMIT
                     [] b = COMMIT    -> PREPARE
           y == assign(x.blockPhases, h1, next)
           u == [x EXCEPT !.blockPhases = y]
<1>6. next \in VotePhases
  <2> HIDE DEF b
  <2>1. b \in {PREPARE, PRECOMMIT, COMMIT}
        BY <1>1, <1>5 DEF VotePhases, b
  <2>2. CASE b = PREPARE
        BY <2>2 DEF VotePhases, PREPARE, PRECOMMIT, COMMIT
  <2>3. CASE b = PRECOMMIT
        BY <2>3 DEF VotePhases, PREPARE, PRECOMMIT, COMMIT
  <2>4. CASE b = COMMIT
        BY <2>4 DEF VotePhases, PREPARE, PRECOMMIT, COMMIT
  <2>5. QED
        BY <2>1, <2>2, <2>3, <2>4
<1>7. increment_block_phase(x, h1) = u
      BY DEF increment_block_phase
<1> HIDE DEF next
<1>8. y \in Maps(Chain, VotePhases)
      BY <1>4, <1>6, AssignFact DEF ComponentSet
<1> HIDE DEF y
<1>9. u \in ComponentSet /\ u.view = x.view /\ u.phase = x.phase
      BY <1>4, <1>8 DEF ComponentSet
<1>10. j \in JustsOver(VoteData) /\ j.set /\ j.rdata = d
       BY <1>2, <1>3 DEF Just, JustsOver
<1>11. signBlock(n, t, h1, h2, v2, seq) = [tee |-> u, just |-> j]
       BY <1>7 DEF signBlock, d, x
<1> HIDE DEF u, j
<1>12. QED
       BY <1>2, <1>4, <1>9, <1>10, <1>11

(* changeView of the component.                                            *)
LEMMA ChangeViewToTyped ==
    ASSUME NEW t \in ComponentSet, NEW v \in Views
    PROVE  /\ changeViewTo(t, v) \in ComponentSet
           /\ changeViewTo(t, v).view = v /\ changeViewTo(t, v).phase = NEWVIEW
<1>1. <<>> \in Maps(Chain, VotePhases) /\ <<>> \in Maps(Numbers, Chain)
      BY EmptyMap
<1>2. QED
      BY <1>1 DEF changeViewTo, ComponentSet

(* TEEsign.  What it makes of the view is undone by a changeView after it. *)
LEMMA TEEsignTyped ==
    ASSUME NEW n \in PID, NEW t \in ComponentSet
    PROVE  LET r == TEEsign(n, t)
           IN  /\ r.just \in JustsOver(AnyData) /\ r.just.rdata.propv = t.view
               /\ r.just.rdata.phase = t.phase
               /\ t.phase = NEWVIEW => /\ r.tee \in ComponentSet
                                       /\ r.tee.view = t.view
               /\ \A v \in Views :
                      /\ changeViewTo(r.tee, v) \in ComponentSet
                      /\ changeViewTo(r.tee, v).view = v
                      /\ changeViewTo(r.tee, v).phase = NEWVIEW
<1> DEFINE d == RDataPara(Dummy, t.view, t.preph, t.prepv, t.phase, t.prepseq)
           x == [t EXCEPT !.signed = @ \cup {d}]
           j == Just(d, {Signature(n, d)})
           y == [x EXCEPT !.phase = PARALLEL]
           z == increment_view([x EXCEPT !.phase = NEWVIEW])
           r == TEEsign(n, t)
<1>1. d \in AnyData /\ d \in Data /\ d.propv = t.view /\ d.phase = t.phase
  <2>1. t.phase \in Phases /\ Dummy \in Hashes
        BY DataFact DEF ComponentSet, Phases, Phase
  <2>2. d \in AnyData /\ d.propv = t.view /\ d.phase = t.phase
        BY <2>1 DEF RDataPara, AnyData, DataOver, ComponentSet
  <2>3. QED
        BY <2>2, DataFact
<1>2. {Signature(n, d)} \in Signatures
      BY <1>1, SignatureTyped
<1>3. r.just = j /\ r.tee = increment_node_phase(x)
      BY DEF TEEsign
<1> HIDE DEF d
<1>4. j \in JustsOver(AnyData) /\ j.rdata = d
      BY <1>1, <1>2 DEF Just, JustsOver
<1>5. x \in ComponentSet /\ x.phase = t.phase /\ x.view = t.view
      BY <1>1 DEF ComponentSet
<1> HIDE DEF x, j, r
<1>6. y \in ComponentSet /\ y.view = x.view
      BY <1>5 DEF ComponentSet
<1>7. \A v : changeViewTo(z, v) = changeViewTo([x EXCEPT !.phase = NEWVIEW, !.lockseq = 0], v)
      BY <1>5 DEF changeViewTo, increment_view, ComponentSet
<1>8. [x EXCEPT !.phase = NEWVIEW, !.lockseq = 0] \in ComponentSet
      BY <1>5, DataFact DEF ComponentSet
<1>9. r.tee = y \/ (r.tee = z /\ t.phase # NEWVIEW)
      BY <1>3, <1>5 DEF increment_node_phase
<1> HIDE DEF y, z
<1>10. t.phase = NEWVIEW => r.tee \in ComponentSet /\ r.tee.view = t.view
       BY <1>5, <1>6, <1>9
<1>11. \A v \in Views :
           /\ changeViewTo(r.tee, v) \in ComponentSet
           /\ changeViewTo(r.tee, v).view = v
           /\ changeViewTo(r.tee, v).phase = NEWVIEW
       BY <1>6, <1>7, <1>8, <1>9, ChangeViewToTyped
<1>12. QED
       BY <1>1, <1>3, <1>4, <1>10, <1>11 DEF r

(* The loop of startNewViewPara, for the next view.                        *)
LEMMA TEEsignPastTyped ==
    ASSUME NEW n \in PID, NEW t \in ComponentSet, NEW v \in Views,
           t.view = v, v + 1 \in Views
    PROVE  LET r == TEEsignPast(n, t, v)
           IN  /\ r.just \in JustsOver(AnyData) /\ r.just.rdata.propv = v + 1
               /\ changeViewTo(r.tee, v + 1) \in ComponentSet
               /\ changeViewTo(r.tee, v + 1).view = v + 1
               /\ changeViewTo(r.tee, v + 1).phase = NEWVIEW
<1> DEFINE x == increment_view([t EXCEPT !.view = v, !.phase = NEWVIEW])
<1>1. TEEsignPast(n, t, v) = TEEsign(n, x)
  <2>1. ~(t.view > v)
        BY DEF Views
  <2>2. QED
        BY <2>1 DEF TEEsignPast
<1>2. <<>> \in Maps(Chain, VotePhases) /\ <<>> \in Maps(Numbers, Chain)
      BY EmptyMap
<1>3. x \in ComponentSet /\ x.view = v + 1
      BY <1>2, DataFact DEF increment_view, ComponentSet
<1> HIDE DEF x
<1>4. QED
      BY <1>1, <1>3, TEEsignTyped

(* TEEprepare: a vote is for a block of the view of the component and of   *)
(* the justification.                                                      *)
LEMMA TEEprepareTyped ==
    ASSUME NEW n \in PID, NEW t \in ComponentSet, NEW block \in AnyBlock,
           NEW just \in JustsOver(AnyData)
    PROVE  LET r == TEEprepare(n, t, block, just)
           IN  /\ r.tee \in ComponentSet
               /\ r.tee.view = t.view /\ r.tee.phase = t.phase
               /\ r.just \in JustsOver(VoteData)
               /\ r.just.set => /\ t.view = just.rdata.propv
                                /\ r.just.rdata.propv = t.view
                                /\ r.just.rdata.justh = just.rdata.justh
                                /\ r.just.rdata.justv = just.rdata.justv
<1> DEFINE r == TEEprepare(n, t, block, just)
           x == signBlock(n, t, hash_para(block), just.rdata.justh,
                          just.rdata.justv, block.seq)
<1>1. just.rdata.justh \in Chain /\ just.rdata.justv \in Views
      BY DEF JustsOver, AnyData, DataOver
<1>2. hash_para(block) \in Chain /\ block.seq \in Numbers
      BY HashTyped, DataFact DEF AnyBlock
<1>3. \/ r = x /\ t.view = just.rdata.propv
      \/ r = Refused(t)
      BY DEF TEEprepare
<1>4. /\ x.tee \in ComponentSet
      /\ x.tee.view = t.view /\ x.tee.phase = t.phase
      /\ x.just \in JustsOver(VoteData) /\ x.just.set
      /\ x.just.rdata.propv = t.view
      /\ x.just.rdata.justh = just.rdata.justh
      /\ x.just.rdata.justv = just.rdata.justv
  <2> DEFINE h  == hash_para(block)
             h2 == just.rdata.justh
             v2 == just.rdata.justv
             i  == block.seq
  <2>1. h \in Chain /\ h2 \in Chain /\ v2 \in Views /\ i \in Numbers
        BY <1>1, <1>2
  <2>2. x = signBlock(n, t, h, h2, v2, i)
        OBVIOUS
  <2> HIDE DEF r, h, h2, v2, i, x
  <2>3. /\ x.tee \in ComponentSet
        /\ x.tee.view = t.view /\ x.tee.phase = t.phase
        /\ x.just \in JustsOver(VoteData) /\ x.just.set
        /\ x.just.rdata.propv = t.view
        /\ x.just.rdata.justh = h2 /\ x.just.rdata.justv = v2
        BY <2>1, <2>2, SignBlockTyped
  <2>4. QED
        BY <2>3 DEF h2, v2
<1> HIDE DEF r, x
<1>5. CASE r = x /\ t.view = just.rdata.propv
      BY <1>4, <1>5 DEF r
<1>6. CASE r = Refused(t)
  <2>1. /\ r.tee \in ComponentSet /\ r.tee = t
        /\ r.just \in JustsOver(VoteData) /\ ~r.just.set
        BY <1>6, DataFact DEF Refused
  <2>2. QED
        BY <2>1 DEF r
<1>7. QED
      BY <1>3, <1>5, <1>6

(* updateLock: the locked block is one of the precommitted ones.           *)
LEMMA UpdateLockTyped ==
    ASSUME NEW t \in ComponentSet, NEW blocks, DOMAIN t.precommits # {}
    PROVE  LET u == updateLock(t, blocks)
           IN  u \in ComponentSet /\ u.view = t.view /\ u.phase = t.phase
<1> DEFINE seq == highestContinuous(t, blocks)
           u   == updateLock(t, blocks)
<1>1. PICK D \in SUBSET Numbers : t.precommits \in [D -> Chain]
      BY DEF ComponentSet, Maps
<1>2. t.lockseq \in Nat /\ t.view \in Views /\ MaxBlocksInView \in Nat
      BY DataFact DEF ComponentSet, Numbers
<1>3. seq # 0 => seq \in D
  <2> DEFINE from == IF t.lockv = t.view THEN t.lockseq + 1 ELSE 1
             linked(i) ==
                 IF i > from THEN extendsPrevious(blocks, i)
                 ELSE i > 1 /\ isBlock(blocks[i]) => extends(blocks[i], t.lockh)
             last == Max(DOMAIN t.precommits)
             S == {k \in from .. last :
                      \A i \in from .. k : i \in DOMAIN t.precommits /\ linked(i)}
  <2>1. seq = Max({0} \cup S)
        BY DEF highestContinuous
  <2>2. from \in Nat
        BY <1>2
  <2>3. last \in D
    <3>1. D \in SUBSET (0 .. MaxBlocksInView) /\ D # {} /\ DOMAIN t.precommits = D
          BY <1>1 DEF Numbers
    <3>2. QED
          BY <1>2, <3>1, MaxFact
  <2> HIDE DEF from, last, linked
  <2>4. \A k \in S : k \in from .. k /\ k \in Nat
        BY <2>2
  <2>5. S \subseteq D
        BY <1>1, <2>4
  <2> HIDE DEF S
  <2>6. {0} \cup S \in SUBSET (0 .. MaxBlocksInView)
        BY <1>2, <2>5 DEF Numbers
  <2>7. Max({0} \cup S) \in {0} \cup S
        BY <1>2, <2>6, MaxFact
  <2>8. QED
        BY <2>1, <2>5, <2>7
<1>4. u = t \/ (seq # 0 /\ u = [t EXCEPT !.lockh = t.precommits[seq],
                                         !.lockv = t.view, !.lockseq = seq])
  <2> DEFINE w == [t EXCEPT !.lockh = t.precommits[seq], !.lockv = t.view,
                            !.lockseq = seq]
  <2>1. u = IF seq > t.lockseq THEN w ELSE t
        BY DEF updateLock
  <2> HIDE DEF seq, u, w
  <2>2. seq > t.lockseq => seq # 0
        BY <1>2
  <2>3. u = t \/ (seq # 0 /\ u = w)
        BY <2>1, <2>2
  <2>4. QED
        BY <2>3 DEF w
<1> HIDE DEF seq, u
<1>5. seq # 0 => t.precommits[seq] \in Chain /\ seq \in Numbers
      BY <1>1, <1>3
<1>6. u \in ComponentSet /\ u.view = t.view /\ u.phase = t.phase
      BY <1>2, <1>4, <1>5 DEF ComponentSet
<1>7. QED
      BY <1>6 DEF u

(* TEEstore.                                                               *)
LEMMA TEEstoreTyped ==
    ASSUME NEW n \in PID, NEW t \in ComponentSet, NEW just \in JustsOver(VoteData),
           NEW blocks
    PROVE  LET r == TEEstore(n, t, just, blocks)
           IN  /\ r.tee \in ComponentSet
               /\ r.tee.view = t.view /\ r.tee.phase = t.phase
               /\ r.just \in JustsOver(VoteData)
<1> DEFINE d  == just.rdata
           r  == TEEstore(n, t, just, blocks)
           t1 == updatePrepared(t, d)
           p  == assign(t1.precommits, d.seq, d.proph)
           t2 == [t1 EXCEPT !.precommits = p]
           t3 == updateLock(t2, blocks)
<1>1. d \in VoteData
      BY DEF JustsOver
<1>2. \/ r = signBlock(n, t1, d.proph, d.justh, d.justv, d.seq)
      \/ r = signBlock(n, t3, d.proph, d.justh, d.justv, d.seq)
      \/ r = Refused(t)
  <2> DEFINE x == signBlock(n, t1, d.proph, d.justh, d.justv, d.seq)
             y == signBlock(n, t3, d.proph, d.justh, d.justv, d.seq)
  <2>1. CASE d.phase = PREPARE
        BY <2>1 DEF TEEstore
  <2>2. CASE d.phase # PREPARE
        BY <2>2 DEF TEEstore
  <2>3. QED
        BY <2>1, <2>2
<1> HIDE DEF d
<1>3. /\ d.proph \in Chain /\ d.justh \in Chain /\ d.justv \in Views
      /\ d.propv \in Views /\ d.seq \in Numbers
      BY <1>1 DEF VoteData, DataOver
<1>4. t1 \in ComponentSet /\ t1.view = t.view /\ t1.phase = t.phase
      BY <1>3 DEF updatePrepared, ComponentSet
<1> HIDE DEF t1
<1>5. p \in Maps(Numbers, Chain) /\ d.seq \in DOMAIN p
  <2>1. p \in Maps(Numbers, Chain)
        BY <1>3, <1>4, AssignFact DEF ComponentSet
  <2>2. QED
        BY <2>1 DEF assign
<1> HIDE DEF p
<1>6. /\ t2 \in ComponentSet /\ t2.view = t.view /\ t2.phase = t.phase
      /\ t2.precommits = p
      BY <1>4, <1>5 DEF ComponentSet
<1> HIDE DEF t2
<1>7. t3 \in ComponentSet /\ t3.view = t.view /\ t3.phase = t.phase
      BY <1>5, <1>6, UpdateLockTyped
<1> HIDE DEF t3, r
<1>8. ASSUME NEW x \in ComponentSet, x.view = t.view, x.phase = t.phase,
             r = signBlock(n, x, d.proph, d.justh, d.justv, d.seq)
      PROVE  /\ r.tee \in ComponentSet
             /\ r.tee.view = t.view /\ r.tee.phase = t.phase
             /\ r.just \in JustsOver(VoteData)
      BY <1>3, <1>8, SignBlockTyped
<1>9. CASE r = Refused(t)
  <2>1. /\ r.tee = t /\ r.just \in JustsOver(VoteData)
        BY <1>9, DataFact DEF Refused
  <2>2. QED
        BY <2>1 DEF r
<1>10. /\ r.tee \in ComponentSet
       /\ r.tee.view = t.view /\ r.tee.phase = t.phase
       /\ r.just \in JustsOver(VoteData)
       BY <1>2, <1>4, <1>7, <1>8, <1>9 DEF r
<1>11. QED
       BY <1>10 DEF r

(* TEEverifyLeaderQC returns the justification or refuses it.              *)
LEMMA TEEverifyTyped ==
    ASSUME NEW t, NEW just \in JustsOver(AnyData), NEW hashes, NEW check
    PROVE  TEEverifyLeaderQC(t, just, hashes, check) \in JustsOver(AnyData)
BY DataFact DEF TEEverifyLeaderQC

-----------------------------------------------------------------------------
(* The ledger: the view and the number of the block that a transaction was *)
(* put in.  The number is 0 if it has not been put in any block.           *)

Slot(v, i) == [view |-> v, seq |-> i]
Ledgers    == [Txs -> [view : Views, seq : Numbers]]

(* The blocks proposed in view v, and what slots may hold.                 *)
BlocksIn(F, v) ==
    {b \in AnyBlock : /\ IsInjective(b.trans)
                      /\ \A t \in Range(b.trans) : F[t] = Slot(v, b.seq)}

SlotsIn(F, v) ==
    {f \in [SeqNumbers -> AnyBlock \cup {NoPBlock}] :
        \A i \in SeqNumbers : f[i] = NoPBlock
                              \/ (f[i] \in BlocksIn(F, v) /\ f[i].seq = i)}

VoteTypes     == {"prepare_para", "precommit_para", "commit_para"}
VoteSet(type) == [type : {type}, rdata : VoteData, signs : Signatures]
NewViewSet    == [type : {"newview_para"}, rdata : AnyData, signs : Signatures]
VerifySet     == [type : {"verify_para"}, rdata : AnyData, signs : Signatures,
                  blockHashes : Seq(Chain)]
LdrRecoverSet == [type : {"ldrrecover_para"}, rdata : AnyData, signs : Signatures,
                  missing : SUBSET SeqNumbers]
RecoverSet(F) ==
    {m \in [type : {"recover_para"}, rdata : AnyData, signs : Signatures,
            blocks : SUBSET AnyBlock] : m.blocks \subseteq BlocksIn(F, m.rdata.justv)}
ProposalSet(F) ==
    {m \in [type : {"ldrprepare_para"}, just : JustsOver(AnyData),
            block : AnyBlock, signs : Signatures] :
        m.just.set /\ m.block \in BlocksIn(F, m.just.rdata.propv)}

MessageSets(F) ==
    (UNION {VoteSet(type) : type \in VoteTypes}) \cup NewViewSet \cup VerifySet
        \cup LdrRecoverSet \cup RecoverSet(F) \cup ProposalSet(F)

LogFields == {"newviews", "prepares", "precommits", "commits", "proposals"}

LoggedSet(F, k) ==
    CASE k = "newviews"   -> NewViewSet
      [] k = "prepares"   -> VoteSet("prepare_para")
      [] k = "precommits" -> VoteSet("precommit_para")
      [] k = "commits"    -> VoteSet("commit_para")
      [] k = "proposals"  -> ProposalSet(F)

(* The ledger grows by transactions of replica n.                          *)
Grows(F, G, n) ==
    \A t \in Txs : G[t] = F[t] \/ (F[t].seq = 0 /\ t \in Dealt(n, 0))

(* It may grow again.                                                      *)
LEMMA GrowsOn ==
    /\ \A F, n : Grows(F, F, n)
    /\ \A F, G, H, n : Grows(F, G, n) /\ Grows(G, H, n) => Grows(F, H, n)
<1>1. \A F, n : Grows(F, F, n)
      BY DEF Grows
<1>2. ASSUME NEW F, NEW G, NEW H, NEW n, Grows(F, G, n), Grows(G, H, n)
      PROVE  Grows(F, H, n)
      BY <1>2 DEF Grows
<1>3. QED
      BY <1>1, <1>2

(* Blocks stay where they are.                                             *)
LEMMA BlocksGrow ==
    ASSUME NEW F, NEW G, NEW n, Grows(F, G, n), NEW v
    PROVE  BlocksIn(F, v) \subseteq BlocksIn(G, v) /\ SlotsIn(F, v) \subseteq SlotsIn(G, v)
<1>1. ASSUME NEW b \in BlocksIn(F, v) PROVE b \in BlocksIn(G, v)
  <2>1. b \in AnyBlock /\ b.trans \in Seq(Txs) /\ b.seq # 0
        BY DataFact DEF BlocksIn, AnyBlock, Transactions, SeqNumbers
  <2>2. \A t \in Range(b.trans) : t \in Txs
        BY <2>1 DEF Range
  <2>3. \A t \in Range(b.trans) : F[t] = Slot(v, b.seq) /\ F[t].seq # 0
        BY <2>1 DEF BlocksIn, Slot
  <2>4. \A t \in Range(b.trans) : G[t] = Slot(v, b.seq)
        BY <2>2, <2>3 DEF Grows
  <2>5. QED
        BY <2>4 DEF BlocksIn
<1>2. QED
      BY <1>1 DEF SlotsIn

(* Messages stay what they are.                                            *)
LEMMA MessagesGrow ==
    ASSUME NEW F, NEW G, NEW n, Grows(F, G, n)
    PROVE  /\ MessageSets(F) \subseteq MessageSets(G)
           /\ \A k \in LogFields : LoggedSet(F, k) \subseteq LoggedSet(G, k)
<1>1. RecoverSet(F) \subseteq RecoverSet(G)
      BY BlocksGrow DEF RecoverSet
<1>2. ProposalSet(F) \subseteq ProposalSet(G)
      BY BlocksGrow DEF ProposalSet
<1>3. MessageSets(F) \subseteq MessageSets(G)
      BY <1>1, <1>2 DEF MessageSets
<1>4. ASSUME NEW k \in LogFields
      PROVE  LoggedSet(F, k) \subseteq LoggedSet(G, k)
  <2>1. CASE k = "proposals"
        BY <1>2, <2>1 DEF LoggedSet
  <2>2. CASE k # "proposals"
    <3>1. LoggedSet(F, k) = LoggedSet(G, k)
          BY <2>2 DEF LoggedSet, LogFields
    <3>2. QED
          BY <3>1
  <2>3. QED
        BY <2>1, <2>2
<1>5. QED
      BY <1>3, <1>4

-----------------------------------------------------------------------------
(* The state of a replica.                                                 *)

Fields ==
    {"myid", "view", "transactions", "started", "isPaused", "stopped", "timer",
     "pending", "fromClient", "executed", "replied", "out", "tp", "pblocks",
     "recoverResponses", "lastExecutedSeq", "verifiedJust", "log"}

Entries == [view : Views, seq : SeqNumbers, hash : Hashes]

(* The component is in the view of its replica; its phase is advanced when *)
(* the replica starts.  The tail call is noted only if there is a view     *)
(* left.                                                                   *)
Located(view, tp, started, pending) ==
    /\ view \in Views /\ tp \in ComponentSet /\ tp.view = view
    /\ ~started => tp.phase = NEWVIEW
    /\ pending = "startNewViewPara" => ~(MaxViews <= view + 1)

LogSound(F, log) ==
    /\ DOMAIN log = LogFields
    /\ \A k \in LogFields : IsFiniteSet(log[k]) /\ log[k] \subseteq LoggedSet(F, k)

(* The slots of the current view are there.                                *)
SlotsSound(F, view, blocks) ==
    /\ view \in DOMAIN blocks /\ blocks[view] # <<>>
    /\ \A v \in DOMAIN blocks : blocks[v] = <<>> \/ blocks[v] \in SlotsIn(F, v)

(* What is not in any block yet.                                           *)
Fresh(F, id, queue, client) ==
    /\ queue \in Transactions /\ client \in Transactions
    /\ IsInjective(queue) /\ IsInjective(client) /\ Apart(queue, client)
    /\ \A t \in Range(queue) \cup Range(client) : F[t].seq = 0 /\ t \in Dealt(id, 0)

(* What is replied is in a block up to the last one executed.              *)
Done(F, view, last, replied) ==
    /\ replied \in Transactions /\ IsInjective(replied)
    /\ \A t \in Range(replied) :
           /\ F[t].seq # 0
           /\ F[t].view < view \/ (F[t].view = view /\ F[t].seq <= last)

(* The slots are executed in order, up to the last one executed.           *)
InOrder(view, last, executed) ==
    /\ executed \in Seq(Entries)
    /\ \A k \in DOMAIN executed :
           LET e == executed[k]
               d == executed[k - 1]
           IN  \/ e.seq = 1 /\ (k > 1 => d.view < e.view)
               \/ k > 1 /\ d.view = e.view /\ d.seq + 1 = e.seq
    /\ IF last = 0
       THEN Len(executed) # 0 => executed[Len(executed)].view < view
       ELSE /\ Len(executed) # 0
            /\ executed[Len(executed)].view = view
            /\ executed[Len(executed)].seq = last

Sound(F, s) ==
    /\ DOMAIN s = Fields
    /\ s.myid \in PID /\ s.verifiedJust \in JustsOver(AnyData)
    /\ s.lastExecutedSeq \in Numbers
    /\ Located(s.view, s.tp, s.started, s.pending)
    /\ LogSound(F, s.log)
    /\ SlotsSound(F, s.view, s.pblocks)
    /\ s.out \in [PID -> Seq(MessageSets(F))]
    /\ Fresh(F, s.myid, s.transactions, s.fromClient)
    /\ Done(F, s.view, s.lastExecutedSeq, s.replied)
    /\ InOrder(s.view, s.lastExecutedSeq, s.executed)

(* What VotesVerified asks of a message that a replica sends, if           *)
(* Just::operator== compares what it is meant to.                          *)
Backed(id, j, m) ==
    EqualsReturns = {FALSE} /\ m.type = "prepare_para"
        /\ getLeaderOf(m.rdata.propv) # id
    => /\ j.set
       /\ j.rdata.propv = m.rdata.propv
       /\ j.rdata.justv = m.rdata.justv
       /\ j.rdata.justh = m.rdata.justh

Speaks(id, j, o, p) ==
    \A d \in PID : p[d] = o[d] \/ Backed(id, j, Last(p[d]))

(* A call that does not change who the replica is, where, and what it has  *)
(* verified.                                                               *)
Kept(s, u) ==
    /\ u.myid = s.myid /\ u.view = s.view /\ u.started = s.started
    /\ u.verifiedJust = s.verifiedJust
    /\ Speaks(s.myid, s.verifiedJust, s.out, u.out)

Keeps(F, s, u) == Sound(F, u) /\ Kept(s, u)

(* A call that may also propose blocks.                                    *)
Leads(F, s, u) ==
    \E G \in Ledgers : Grows(F, G, s.myid) /\ Keeps(G, s, u)

(* Such calls follow each other.                                           *)
LEMMA KeepsOn ==
    /\ \A F, s : Sound(F, s) => Keeps(F, s, s)
    /\ \A F, s, u, w : Keeps(F, s, u) /\ Keeps(F, u, w) => Keeps(F, s, w)
<1>1. \A s : Kept(s, s)
      BY DEF Kept, Speaks
<1>2. ASSUME NEW s, NEW u, NEW w, Kept(s, u), Kept(u, w)
      PROVE  Kept(s, w)
  <2>1. Speaks(s.myid, s.verifiedJust, s.out, w.out)
        BY <1>2 DEF Kept, Speaks
  <2>2. QED
        BY <1>2, <2>1 DEF Kept
<1>3. QED
      BY <1>1, <1>2 DEF Keeps

(* Calls that propose blocks follow each other, and others.                *)
LEMMA LeadsOn ==
    /\ \A F \in Ledgers : \A s, u : Keeps(F, s, u) => Leads(F, s, u)
    /\ \A F \in Ledgers : \A s, u, w :
           Keeps(F, s, u) /\ Leads(F, u, w) => Leads(F, s, w)
    /\ \A F, s, w : (\E G \in Ledgers : \E u : /\ Grows(F, G, s.myid)
                                               /\ Keeps(G, s, u) /\ Leads(G, u, w))
                    => Leads(F, s, w)
<1>1. \A F \in Ledgers : \A s, u : Keeps(F, s, u) => Leads(F, s, u)
      BY GrowsOn DEF Leads
<1>2. ASSUME NEW F, NEW s, NEW w, NEW G \in Ledgers, NEW u,
             Grows(F, G, s.myid), Keeps(G, s, u), Leads(G, u, w)
      PROVE  Leads(F, s, w)
  <2>1. u.myid = s.myid
        BY <1>2 DEF Keeps, Kept
  <2>2. PICK H \in Ledgers : Grows(G, H, u.myid) /\ Keeps(H, u, w)
        BY <1>2 DEF Leads
  <2>3. Grows(F, H, s.myid)
        BY <1>2, <2>1, <2>2, GrowsOn
  <2>4. Kept(s, u) /\ Kept(u, w) /\ Sound(H, w)
        BY <1>2, <2>2 DEF Keeps
  <2>5. Speaks(s.myid, s.verifiedJust, s.out, w.out)
        BY <2>4 DEF Kept, Speaks
  <2>6. Keeps(H, s, w)
        BY <2>4, <2>5 DEF Kept, Keeps
  <2>7. QED
        BY <2>3, <2>6 DEF Leads
<1>3. QED
      BY <1>1, <1>2, GrowsOn

-----------------------------------------------------------------------------
(* Single updates.                                                         *)

(* The names of the conditions that a call does not touch.                 *)
LEMMA SoundParts ==
    ASSUME NEW F, NEW s, Sound(F, s)
    PROVE  /\ DOMAIN s = Fields /\ s.myid \in PID /\ s.view \in Views
           /\ s.tp \in ComponentSet /\ s.tp.view = s.view
           /\ s.verifiedJust \in JustsOver(AnyData)
           /\ s.lastExecutedSeq \in Numbers /\ DOMAIN s.log = LogFields
           /\ \A k \in LogFields : IsFiniteSet(s.log[k])
                                   /\ s.log[k] \subseteq LoggedSet(F, k)
           /\ s.view \in DOMAIN s.pblocks /\ s.pblocks[s.view] \in SlotsIn(F, s.view)
           /\ s.out \in [PID -> Seq(MessageSets(F))]
BY DEF Sound, Located, LogSound, SlotsSound

(* What another replica proposes does not change a replica.                *)
LEMMA SoundGrows ==
    ASSUME NEW F \in Ledgers, NEW G \in Ledgers, NEW n \in PID, Grows(F, G, n),
           NEW s, Sound(F, s), s.myid # n
    PROVE  Sound(G, s)
<1>1. LogSound(G, s.log)
      BY MessagesGrow DEF Sound, LogSound
<1>2. SlotsSound(G, s.view, s.pblocks)
      BY BlocksGrow DEF Sound, SlotsSound
<1>3. s.out \in [PID -> Seq(MessageSets(G))]
  <2>1. \A d \in PID : s.out[d] \in Seq(MessageSets(G))
        BY MessagesGrow DEF Sound
  <2>2. QED
        BY <2>1 DEF Sound
<1>4. Fresh(G, s.myid, s.transactions, s.fromClient)
  <2>1. \A t : ~(t \in Dealt(s.myid, 0) /\ t \in Dealt(n, 0))
        BY DealtOnce DEF Sound
  <2>2. \A t \in Range(s.transactions) \cup Range(s.fromClient) : t \in Txs
        BY DEF Sound, Fresh, Transactions, Range
  <2>3. \A t \in Range(s.transactions) \cup Range(s.fromClient) : G[t] = F[t]
        BY <2>1, <2>2 DEF Sound, Fresh, Grows
  <2>4. QED
        BY <2>3 DEF Sound, Fresh
<1>5. Done(G, s.view, s.lastExecutedSeq, s.replied)
  <2>1. \A t \in Range(s.replied) : t \in Txs
        BY DEF Sound, Done, Transactions, Range
  <2>2. \A t \in Range(s.replied) : G[t] = F[t]
        BY <2>1 DEF Sound, Done, Grows
  <2>3. QED
        BY <2>2 DEF Sound, Done
<1>6. QED
      BY <1>1, <1>2, <1>3, <1>4, <1>5 DEF Sound

(* multicast_msg.                                                          *)
LEMMA SendKeeps ==
    ASSUME NEW F, NEW s, Sound(F, s), NEW R, NEW m \in MessageSets(F),
           Backed(s.myid, s.verifiedJust, m)
    PROVE  Keeps(F, s, send(s, R, m))
<1> DEFINE o == [d \in PID |-> IF d \in R THEN Append(s.out[d], m) ELSE s.out[d]]
           u == [s EXCEPT !.out = o]
<1>1. ASSUME NEW d \in PID
      PROVE  /\ Append(s.out[d], m) \in Seq(MessageSets(F))
             /\ s.out[d] \in Seq(MessageSets(F))
             /\ Last(Append(s.out[d], m)) = m
  <2>1. s.out[d] \in Seq(MessageSets(F))
        BY DEF Sound
  <2>2. \A X, q, x : q \in Seq(X) /\ x \in X =>
            Append(q, x) \in Seq(X) /\ Append(q, x)[Len(Append(q, x))] = x
        OBVIOUS
  <2>3. QED
        BY <2>1, <2>2 DEF Last
<1>2. o \in [PID -> Seq(MessageSets(F))]
      BY <1>1
<1>3. Speaks(s.myid, s.verifiedJust, s.out, o)
      BY <1>1 DEF Speaks
<1>4. send(s, R, m) = u
      BY DEF send
<1> HIDE DEF o
<1>5. /\ DOMAIN u = Fields /\ u.myid = s.myid /\ u.view = s.view
      /\ u.started = s.started /\ u.pending = s.pending /\ u.tp = s.tp
      /\ u.verifiedJust = s.verifiedJust
      /\ u.lastExecutedSeq = s.lastExecutedSeq /\ u.log = s.log
      /\ u.pblocks = s.pblocks /\ u.out = o
      /\ u.transactions = s.transactions /\ u.fromClient = s.fromClient
      /\ u.replied = s.replied /\ u.executed = s.executed
      BY DEF Sound, Fields
<1> HIDE DEF u
<1>6. Sound(F, u)
      BY <1>2, <1>5 DEF Sound
<1>7. QED
      BY <1>3, <1>4, <1>5, <1>6 DEF Keeps, Kept

(* The component answers.                                                  *)
LEMMA ComponentKeeps ==
    ASSUME NEW F, NEW s, Sound(F, s), NEW t \in ComponentSet,
           t.view = s.tp.view, t.phase = s.tp.phase
    PROVE  Keeps(F, s, [s EXCEPT !.tp = t])
<1> DEFINE u == [s EXCEPT !.tp = t]
<1>1. /\ DOMAIN u = Fields /\ u.myid = s.myid /\ u.view = s.view
      /\ u.started = s.started /\ u.pending = s.pending /\ u.tp = t
      /\ u.verifiedJust = s.verifiedJust
      /\ u.lastExecutedSeq = s.lastExecutedSeq /\ u.log = s.log
      /\ u.pblocks = s.pblocks /\ u.out = s.out
      /\ u.transactions = s.transactions /\ u.fromClient = s.fromClient
      /\ u.replied = s.replied /\ u.executed = s.executed
      BY DEF Sound, Fields
<1> HIDE DEF u
<1>2. Located(u.view, u.tp, u.started, u.pending)
      BY <1>1 DEF Sound, Located
<1>3. Sound(F, u)
      BY <1>1, <1>2 DEF Sound
<1>4. Keeps(F, s, u)
      BY <1>1, <1>3 DEF Keeps, Kept, Speaks
<1>5. QED
      BY <1>4 DEF u

(* Messages are stored.                                                    *)
LEMMA LogKeeps ==
    ASSUME NEW F, NEW s, Sound(F, s), NEW k \in LogFields, NEW msgs,
           IsFiniteSet(msgs), msgs \subseteq LoggedSet(F, k)
    PROVE  Keeps(F, s, [s EXCEPT !.log = [s.log EXCEPT ![k] = msgs]])
<1> DEFINE l == [s.log EXCEPT ![k] = msgs]
           u == [s EXCEPT !.log = l]
<1>1. LogSound(F, l)
  <2>1. /\ DOMAIN l = LogFields /\ l[k] = msgs
        /\ \A i \in LogFields : i # k => l[i] = s.log[i]
        BY DEF Sound, LogSound
  <2> HIDE DEF l
  <2>2. QED
        BY <2>1 DEF Sound, LogSound
<1> HIDE DEF l
<1>2. /\ DOMAIN u = Fields /\ u.myid = s.myid /\ u.view = s.view
      /\ u.started = s.started /\ u.pending = s.pending /\ u.tp = s.tp
      /\ u.verifiedJust = s.verifiedJust
      /\ u.lastExecutedSeq = s.lastExecutedSeq /\ u.log = l
      /\ u.pblocks = s.pblocks /\ u.out = s.out
      /\ u.transactions = s.transactions /\ u.fromClient = s.fromClient
      /\ u.replied = s.replied /\ u.executed = s.executed
      BY DEF Sound, Fields
<1> HIDE DEF u
<1>3. Sound(F, u)
      BY <1>1, <1>2 DEF Sound
<1>4. Keeps(F, s, u)
      BY <1>2, <1>3 DEF Keeps, Kept, Speaks
<1>5. QED
      BY <1>4 DEF u, l

(* Slots are changed.                                                      *)
LEMMA SlotsKeep ==
    ASSUME NEW F, NEW s, Sound(F, s), NEW blocks, SlotsSound(F, s.view, blocks)
    PROVE  Keeps(F, s, [s EXCEPT !.pblocks = blocks])
<1> DEFINE u == [s EXCEPT !.pblocks = blocks]
<1>1. /\ DOMAIN u = Fields /\ u.myid = s.myid /\ u.view = s.view
      /\ u.started = s.started /\ u.pending = s.pending /\ u.tp = s.tp
      /\ u.verifiedJust = s.verifiedJust
      /\ u.lastExecutedSeq = s.lastExecutedSeq /\ u.log = s.log
      /\ u.pblocks = blocks /\ u.out = s.out
      /\ u.transactions = s.transactions /\ u.fromClient = s.fromClient
      /\ u.replied = s.replied /\ u.executed = s.executed
      BY DEF Sound, Fields
<1> HIDE DEF u
<1>2. Sound(F, u)
      BY <1>1 DEF Sound
<1>3. Keeps(F, s, u)
      BY <1>1, <1>2 DEF Keeps, Kept, Speaks
<1>4. QED
      BY <1>3 DEF u

(* The answers of a recovery are counted.                                  *)
LEMMA ResponsesKeep ==
    ASSUME NEW F, NEW s, Sound(F, s), NEW r
    PROVE  Keeps(F, s, [s EXCEPT !.recoverResponses = r])
<1> DEFINE u == [s EXCEPT !.recoverResponses = r]
<1>1. /\ DOMAIN u = Fields /\ u.myid = s.myid /\ u.view = s.view
      /\ u.started = s.started /\ u.pending = s.pending /\ u.tp = s.tp
      /\ u.verifiedJust = s.verifiedJust
      /\ u.lastExecutedSeq = s.lastExecutedSeq /\ u.log = s.log
      /\ u.pblocks = s.pblocks /\ u.out = s.out
      /\ u.transactions = s.transactions /\ u.fromClient = s.fromClient
      /\ u.replied = s.replied /\ u.executed = s.executed
      BY DEF Sound, Fields
<1> HIDE DEF u
<1>2. Sound(F, u)
      BY <1>1 DEF Sound
<1>3. Keeps(F, s, u)
      BY <1>1, <1>2 DEF Keeps, Kept, Speaks
<1>4. QED
      BY <1>3 DEF u

(* storePara adds a message or not.                                        *)
LEMMA StoreParaFact ==
    ASSUME NEW msgs, IsFiniteSet(msgs), NEW m
    PROVE  /\ IsFiniteSet(storePara(msgs, m).msgs)
           /\ \A i \in storePara(msgs, m).msgs : i \in msgs \/ i = m
<1>1. storePara(msgs, m).msgs = msgs \/ storePara(msgs, m).msgs = msgs \cup {m}
      BY DEF storePara
<1>2. QED
      BY <1>1, FS_AddElement

(* storeNvPara, storePrepPara, storePcPara, storeComPara, storePropPara.   *)
LEMMA StoreKeeps ==
    ASSUME NEW F, NEW s, Sound(F, s)
    PROVE  /\ \A m \in NewViewSet : Keeps(F, s, storeNvPara(s, m))
           /\ \A m \in VoteSet("prepare_para") : Keeps(F, s, storePrepPara(s, m))
           /\ \A m \in VoteSet("precommit_para") : Keeps(F, s, storePcPara(s, m))
           /\ \A m \in VoteSet("commit_para") : Keeps(F, s, storeComPara(s, m))
           /\ \A m \in ProposalSet(F) : Keeps(F, s, storePropPara(s, m))
<1>1. ASSUME NEW k \in LogFields, NEW m \in LoggedSet(F, k)
      PROVE  Keeps(F, s, [s EXCEPT !.log = [s.log EXCEPT ![k] =
                                               storePara(s.log[k], m).msgs]])
  <2> DEFINE msgs == storePara(s.log[k], m).msgs
  <2>1. IsFiniteSet(msgs) /\ msgs \subseteq LoggedSet(F, k)
        BY SoundParts, StoreParaFact
  <2> HIDE DEF msgs
  <2>2. Keeps(F, s, [s EXCEPT !.log = [s.log EXCEPT ![k] = msgs]])
        BY <2>1, LogKeeps
  <2>3. QED
        BY <2>2 DEF msgs
<1>2. ASSUME NEW m \in NewViewSet PROVE Keeps(F, s, storeNvPara(s, m))
  <2> DEFINE msgs == store(s.log["newviews"], m).msgs
  <2>1. "newviews" \in LogFields /\ m \in LoggedSet(F, "newviews")
        BY DEF LogFields, LoggedSet
  <2>2. IsFiniteSet(msgs) /\ (msgs = s.log["newviews"] \/ msgs = s.log["newviews"] \cup {m})
        BY <2>1, SoundParts, StoreFact
  <2>3. msgs \subseteq LoggedSet(F, "newviews")
        BY <2>1, <2>2, SoundParts
  <2>4. storeNvPara(s, m) = [s EXCEPT !.log = [s.log EXCEPT !["newviews"] = msgs]]
        BY SoundParts DEF storeNvPara, Fields, LogFields
  <2> HIDE DEF msgs
  <2>5. QED
        BY <2>1, <2>2, <2>3, <2>4, LogKeeps
<1>3. ASSUME NEW m \in VoteSet("prepare_para") PROVE Keeps(F, s, storePrepPara(s, m))
  <2>1. "prepares" \in LogFields /\ m \in LoggedSet(F, "prepares")
        BY DEF LogFields, LoggedSet
  <2>2. storePrepPara(s, m) = [s EXCEPT !.log = [s.log EXCEPT !["prepares"] =
                                   storePara(s.log["prepares"], m).msgs]]
        BY SoundParts DEF storePrepPara, Fields, LogFields
  <2>3. QED
        BY <1>1, <2>1, <2>2
<1>4. ASSUME NEW m \in VoteSet("precommit_para") PROVE Keeps(F, s, storePcPara(s, m))
  <2>1. "precommits" \in LogFields /\ m \in LoggedSet(F, "precommits")
        BY DEF LogFields, LoggedSet
  <2>2. storePcPara(s, m) = [s EXCEPT !.log = [s.log EXCEPT !["precommits"] =
                                 storePara(s.log["precommits"], m).msgs]]
        BY SoundParts DEF storePcPara, Fields, LogFields
  <2>3. QED
        BY <1>1, <2>1, <2>2
<1>5. ASSUME NEW m \in VoteSet("commit_para") PROVE Keeps(F, s, storeComPara(s, m))
  <2>1. "commits" \in LogFields /\ m \in LoggedSet(F, "commits")
        BY DEF LogFields, LoggedSet
  <2>2. storeComPara(s, m) = [s EXCEPT !.log = [s.log EXCEPT !["commits"] =
                                  storePara(s.log["commits"], m).msgs]]
        BY SoundParts DEF storeComPara, Fields, LogFields
  <2>3. QED
        BY <1>1, <2>1, <2>2
<1>6. ASSUME NEW m \in ProposalSet(F) PROVE Keeps(F, s, storePropPara(s, m))
  <2>1. "proposals" \in LogFields /\ m \in LoggedSet(F, "proposals")
        BY DEF LogFields, LoggedSet
  <2>2. storePropPara(s, m) = [s EXCEPT !.log = [s.log EXCEPT !["proposals"] =
                                   storePara(s.log["proposals"], m).msgs]]
        BY SoundParts DEF storePropPara, Fields, LogFields
  <2>3. QED
        BY <1>1, <2>1, <2>2
<1>7. QED
      BY <1>2, <1>3, <1>4, <1>5, <1>6

(* The messages made of data and signatures.                               *)
LEMMA MessageTyped ==
    ASSUME NEW F
    PROVE  /\ \A j \in JustsOver(VoteData) :
                  /\ MsgPreparePara(j) \in VoteSet("prepare_para")
                  /\ MsgPreCommitPara(j) \in VoteSet("precommit_para")
                  /\ MsgCommitPara(j) \in VoteSet("commit_para")
           /\ \A j \in JustsOver(AnyData) :
                  /\ MsgNewViewPara(j) \in NewViewSet
                  /\ \A h \in Seq(Chain) : MsgVerifyPara(j, h) \in VerifySet
                  /\ \A M \in SUBSET SeqNumbers :
                         MsgLdrRecoverPara(j, M) \in LdrRecoverSet
                  /\ \A B \in SUBSET BlocksIn(F, j.rdata.justv) :
                         MsgRecoverPara(j, B) \in RecoverSet(F)
                  /\ \A b \in BlocksIn(F, j.rdata.propv) : \A g \in Signatures :
                         j.set => MsgLdrPreparePara(j, b, g) \in ProposalSet(F)
           /\ \A type \in VoteTypes : VoteSet(type) \subseteq MessageSets(F)
           /\ VoteSet("prepare_para") \subseteq MessageSets(F)
           /\ VoteSet("precommit_para") \subseteq MessageSets(F)
           /\ VoteSet("commit_para") \subseteq MessageSets(F)
           /\ NewViewSet \subseteq MessageSets(F) /\ VerifySet \subseteq MessageSets(F)
           /\ LdrRecoverSet \subseteq MessageSets(F)
           /\ RecoverSet(F) \subseteq MessageSets(F)
           /\ ProposalSet(F) \subseteq MessageSets(F)
<1>1. ASSUME NEW j \in JustsOver(VoteData)
      PROVE  /\ MsgPreparePara(j) \in VoteSet("prepare_para")
             /\ MsgPreCommitPara(j) \in VoteSet("precommit_para")
             /\ MsgCommitPara(j) \in VoteSet("commit_para")
      BY DEF MsgPreparePara, MsgPreCommitPara, MsgCommitPara, MsgPara, VoteSet, JustsOver
<1>2. ASSUME NEW j \in JustsOver(AnyData)
      PROVE  MsgNewViewPara(j) \in NewViewSet
      BY DEF MsgNewViewPara, MsgPara, NewViewSet, JustsOver
<1>3. ASSUME NEW j \in JustsOver(AnyData), NEW h \in Seq(Chain)
      PROVE  MsgVerifyPara(j, h) \in VerifySet
      BY DEF MsgVerifyPara, MsgPara, withFields, VerifySet, JustsOver
<1>4. ASSUME NEW j \in JustsOver(AnyData), NEW M \in SUBSET SeqNumbers
      PROVE  MsgLdrRecoverPara(j, M) \in LdrRecoverSet
      BY DEF MsgLdrRecoverPara, MsgPara, withFields, LdrRecoverSet, JustsOver
<1>5. ASSUME NEW j \in JustsOver(AnyData), NEW B \in SUBSET BlocksIn(F, j.rdata.justv)
      PROVE  MsgRecoverPara(j, B) \in RecoverSet(F)
  <2>1. B \in SUBSET AnyBlock
        BY DEF BlocksIn
  <2>2. QED
        BY <2>1 DEF MsgRecoverPara, MsgPara, withFields, RecoverSet, JustsOver
<1>6. ASSUME NEW j \in JustsOver(AnyData), NEW b \in BlocksIn(F, j.rdata.propv),
             NEW g \in Signatures, j.set
      PROVE  MsgLdrPreparePara(j, b, g) \in ProposalSet(F)
  <2>1. b \in AnyBlock
        BY DEF BlocksIn
  <2>2. QED
        BY <1>6, <2>1 DEF MsgLdrPreparePara, ProposalSet
<1>7. QED
      BY <1>1, <1>2, <1>3, <1>4, <1>5, <1>6 DEF MessageSets, VoteTypes

(* The names of the types of messages.                                     *)
LEMMA TypeFact ==
    ASSUME NEW F, NEW m \in MessageSets(F)
    PROVE  /\ \A type \in VoteTypes : m.type = type => m \in VoteSet(type)
           /\ m.type = "newview_para" => m \in NewViewSet
           /\ m.type = "verify_para" => m \in VerifySet
           /\ m.type = "ldrrecover_para" => m \in LdrRecoverSet
           /\ m.type = "recover_para" => m \in RecoverSet(F)
           /\ m.type = "ldrprepare_para" => m \in ProposalSet(F)
<1>1. /\ m \in NewViewSet => m.type = "newview_para"
      /\ m \in VerifySet => m.type = "verify_para"
      /\ m \in LdrRecoverSet => m.type = "ldrrecover_para"
      /\ m \in RecoverSet(F) => m.type = "recover_para"
      /\ m \in ProposalSet(F) => m.type = "ldrprepare_para"
      BY DEF NewViewSet, VerifySet, LdrRecoverSet, RecoverSet, ProposalSet
<1>2. \A type \in VoteTypes : m \in VoteSet(type) => m.type = type
      BY DEF VoteSet
<1>3. \/ m \in NewViewSet \/ m \in VerifySet \/ m \in LdrRecoverSet
      \/ m \in RecoverSet(F) \/ m \in ProposalSet(F)
      \/ \E type \in VoteTypes : m \in VoteSet(type)
      BY DEF MessageSets
<1> HIDE DEF VoteSet, NewViewSet, VerifySet, LdrRecoverSet, RecoverSet, ProposalSet
<1>4. QED
      BY <1>1, <1>2, <1>3 DEF VoteTypes

(* Only votes for proposals have to be backed.                             *)
LEMMA Unbacked ==
    \A id, j, m : m.type # "prepare_para" \/ getLeaderOf(m.rdata.propv) = id
                  => Backed(id, j, m)
BY DEF Backed

-----------------------------------------------------------------------------
(* Slots.                                                                  *)

(* An empty slot, and slots that are all empty.                            *)
LEMMA SlotsFact ==
    /\ ~isBlock(NoPBlock) /\ NoBlocks # <<>>
    /\ \A F, v : NoBlocks \in SlotsIn(F, v)
    /\ \A F, v : \A f \in SlotsIn(F, v) :
           /\ DOMAIN f = SeqNumbers /\ Len(f) = MaxBlocksInView /\ f # <<>>
           /\ \A i \in SeqNumbers : isBlock(f[i]) =>
                  /\ f[i] \in BlocksIn(F, v) /\ f[i].seq = i /\ f[i] \in AnyBlock
<1>1. ~isBlock(NoPBlock)
      BY DEF NoPBlock, PBlock, isBlock
<1>2. MaxBlocksInView \in Nat \ {0} /\ 1 \in SeqNumbers
      BY DataFact DEF SeqNumbers
<1>3. NoBlocks # <<>>
      BY <1>2 DEF NoBlocks
<1>4. \A F, v : NoBlocks \in SlotsIn(F, v)
      BY DEF NoBlocks, SlotsIn
<1>5. ASSUME NEW F, NEW v, NEW f \in SlotsIn(F, v)
      PROVE  /\ DOMAIN f = SeqNumbers /\ Len(f) = MaxBlocksInView /\ f # <<>>
             /\ \A i \in SeqNumbers : isBlock(f[i]) =>
                    /\ f[i] \in BlocksIn(F, v) /\ f[i].seq = i /\ f[i] \in AnyBlock
  <2>1. f \in [1 .. MaxBlocksInView -> AnyBlock \cup {NoPBlock}] /\ DOMAIN f = SeqNumbers
        BY DEF SlotsIn, SeqNumbers
  <2>2. f \in Seq(AnyBlock \cup {NoPBlock}) /\ Len(f) = MaxBlocksInView
        BY <1>2, <2>1
  <2>3. f # <<>>
        BY <1>2, <2>2
  <2>4. \A i \in SeqNumbers : isBlock(f[i]) =>
            /\ f[i] \in BlocksIn(F, v) /\ f[i].seq = i /\ f[i] \in AnyBlock
        BY <1>1 DEF SlotsIn, BlocksIn
  <2>5. QED
        BY <2>1, <2>2, <2>3, <2>4
<1>6. QED
      BY <1>1, <1>3, <1>4, <1>5

(* pblocks[v] is read.                                                     *)
LEMMA TouchKeeps ==
    ASSUME NEW F, NEW s, Sound(F, s), NEW v
    PROVE  Keeps(F, s, touch(s, v))
<1> DEFINE x == assign(s.pblocks, v, <<>>)
<1>1. CASE v \in DOMAIN s.pblocks
      BY <1>1, KeepsOn DEF touch
<1>2. CASE v \notin DOMAIN s.pblocks
  <2>1. SlotsSound(F, s.view, s.pblocks)
        BY DEF Sound
  <2>2. SlotsSound(F, s.view, x)
        BY <1>2, <2>1 DEF SlotsSound, assign
  <2> HIDE DEF x
  <2>3. Keeps(F, s, [s EXCEPT !.pblocks = x])
        BY <2>2, SlotsKeep
  <2>4. touch(s, v) = [s EXCEPT !.pblocks = x]
        BY <1>2 DEF touch, x
  <2>5. QED
        BY <2>3, <2>4
<1>3. QED
      BY <1>1, <1>2

(* Slots for the blocks of a view.                                         *)
LEMMA ResizeKeeps ==
    ASSUME NEW F, NEW s, Sound(F, s), NEW v
    PROVE  /\ Keeps(F, s, resize(s, v))
           /\ v \in DOMAIN resize(s, v).pblocks
           /\ resize(s, v).pblocks[v] \in SlotsIn(F, v)
<1> DEFINE x == assign(s.pblocks, v, NoBlocks)
<1>1. SlotsSound(F, s.view, s.pblocks)
      BY DEF Sound
<1>2. CASE blocksOf(s, v) = <<>>
  <2>1. resize(s, v) = [s EXCEPT !.pblocks = x]
        BY <1>2 DEF resize
  <2>2. SlotsSound(F, s.view, x) /\ v \in DOMAIN x /\ x[v] = NoBlocks
        BY <1>1, SlotsFact DEF SlotsSound, assign
  <2> HIDE DEF x
  <2>3. Keeps(F, s, resize(s, v))
        BY <2>1, <2>2, SlotsKeep
  <2>4. resize(s, v).pblocks = x
        BY <2>1 DEF Sound, Fields
  <2>5. QED
        BY <2>2, <2>3, <2>4, SlotsFact
<1>3. CASE blocksOf(s, v) # <<>>
  <2>1. resize(s, v) = s
        BY <1>3 DEF resize
  <2>2. v \in DOMAIN s.pblocks /\ s.pblocks[v] # <<>>
        BY <1>3 DEF blocksOf
  <2>3. s.pblocks[v] \in SlotsIn(F, v)
        BY <1>1, <2>2 DEF SlotsSound
  <2>4. QED
        BY <2>1, <2>2, <2>3, KeepsOn
<1>4. QED
      BY <1>2, <1>3

(* The slots of a view are set.                                            *)
LEMMA FillKeeps ==
    ASSUME NEW F, NEW s, Sound(F, s), NEW v, NEW f \in SlotsIn(F, v)
    PROVE  Keeps(F, s, [s EXCEPT !.pblocks[v] = f])
<1> DEFINE x == [s.pblocks EXCEPT ![v] = f]
<1>1. SlotsSound(F, s.view, s.pblocks) /\ f # <<>>
      BY SlotsFact DEF Sound
<1>2. SlotsSound(F, s.view, x)
      BY <1>1 DEF SlotsSound
<1>3. [s EXCEPT !.pblocks[v] = f] = [s EXCEPT !.pblocks = x]
      OBVIOUS
<1> HIDE DEF x
<1>4. Keeps(F, s, [s EXCEPT !.pblocks = x])
      BY <1>2, SlotsKeep
<1>5. QED
      BY <1>3, <1>4

(* A block of the current view.                                            *)
LEMMA StoreBlockKeeps ==
    ASSUME NEW F, NEW s, Sound(F, s), NEW b \in BlocksIn(F, s.view)
    PROVE  Keeps(F, s, storeBlock(s, b))
<1> DEFINE v == s.view
           f == [s.pblocks[v] EXCEPT ![b.seq] = b]
<1>1. s.pblocks[v] \in SlotsIn(F, v)
      BY SoundParts
<1>2. b \in AnyBlock /\ b.seq \in SeqNumbers
      BY DEF BlocksIn, AnyBlock
<1>3. f \in SlotsIn(F, v)
      BY <1>1, <1>2 DEF SlotsIn
<1>4. storeBlock(s, b) = [s EXCEPT !.pblocks[v] = f]
      BY DEF storeBlock
<1> HIDE DEF f, v
<1>5. QED
      BY <1>3, <1>4, FillKeeps

-----------------------------------------------------------------------------
(* Proposing.                                                              *)

(* Transactions leave the queue for a block.                               *)
LEMMA PopFact ==
    ASSUME NEW F, NEW s, Sound(F, s)
    PROVE  LET u == popTransactions(s)
               a == NextTrans(s)
           IN  /\ Keeps(F, s, u) /\ u.tp = s.tp
               /\ a \in Transactions /\ IsInjective(a)
               /\ \A t \in Range(a) : /\ t \in Txs /\ t \in Dealt(s.myid, 0)
                                      /\ F[t].seq = 0
                                      /\ t \notin Range(u.transactions)
                                      /\ t \notin Range(u.fromClient)
<1> DEFINE q == s.transactions
           k == BlockSize(s)
           a == SubSeq(q, 1, k)
           b == SubSeq(q, k + 1, Len(q))
           u == [s EXCEPT !.transactions = b]
<1>1. popTransactions(s) = u /\ NextTrans(s) = a
      BY DEF popTransactions, NextTrans
<1>2. /\ q \in Seq(Txs) /\ IsInjective(q) /\ Apart(q, s.fromClient)
      /\ \A t \in Range(q) : F[t].seq = 0 /\ t \in Dealt(s.myid, 0)
      /\ Txs \subseteq Nat
      BY ReplicaAssumption DEF Sound, Fresh, Transactions, Txs
<1>3. k \in 0 .. Len(q)
  <2>1. q \in Seq(Nat)
        BY ReplicaAssumption DEF Sound, Fresh, Transactions, Txs
  <2>2. k \in Nat /\ k <= Len(q)
        BY <2>1, BlockSizeFact
  <2>3. QED
        BY <1>2, <2>2
<1> HIDE DEF q, k
<1>4. /\ IsInjective(a) /\ IsInjective(b) /\ Apart(a, b)
      /\ a \in Seq(Txs) /\ b \in Seq(Txs)
      /\ Range(a) \subseteq Range(q) /\ Range(b) \subseteq Range(q)
      BY <1>2, <1>3, SplitOnce
<1> HIDE DEF a, b
<1>5. Fresh(F, s.myid, b, s.fromClient)
      BY <1>2, <1>4 DEF Sound, Fresh, Transactions, Apart, q
<1>6. /\ DOMAIN u = Fields /\ u.myid = s.myid /\ u.view = s.view
      /\ u.started = s.started /\ u.pending = s.pending /\ u.tp = s.tp
      /\ u.verifiedJust = s.verifiedJust
      /\ u.lastExecutedSeq = s.lastExecutedSeq /\ u.log = s.log
      /\ u.pblocks = s.pblocks /\ u.out = s.out /\ u.transactions = b
      /\ u.fromClient = s.fromClient /\ u.replied = s.replied
      /\ u.executed = s.executed
      BY DEF Sound, Fields
<1> HIDE DEF u
<1>7. Sound(F, u)
      BY <1>5, <1>6 DEF Sound
<1>8. Keeps(F, s, u)
      BY <1>6, <1>7 DEF Keeps, Kept, Speaks
<1>9. \A t \in Range(a) : t \in Txs
      BY <1>4 DEF Range
<1>10. \A t \in Range(a) : t \notin Range(b) /\ t \notin Range(s.fromClient)
       BY <1>2, <1>4 DEF Apart
<1>11. QED
       BY <1>1, <1>2, <1>4, <1>6, <1>8, <1>9, <1>10 DEF Transactions

(* One turn of preparePara.                                                *)
LEMMA ProposeLeads ==
    ASSUME NEW F \in Ledgers, NEW s, Sound(F, s), NEW just \in JustsOver(AnyData),
           just.set, NEW prevHash \in Chain, NEW seq \in SeqNumbers
    PROVE  LET r == proposePara(s, just, prevHash, seq)
           IN  Leads(F, s, r.s) /\ r.prevHash \in Chain
<1> DEFINE a     == NextTrans(s)
           block == PBlock(prevHash, seq, a)
           r     == TEEprepare(s.myid, s.tp, block, just)
           G     == [t \in Txs |-> IF t \in Range(a) THEN Slot(s.view, seq) ELSE F[t]]
           s0    == popTransactions(s)
           s1    == storeBlock(s0, block)
           s2    == [s1 EXCEPT !.tp = r.tee]
           m     == MsgLdrPreparePara(just, block, r.just.signs)
           s3    == send(s2, remove_from_peers(s), m)
           s4    == storePrepPara(s3, MsgPreparePara(r.just))
           p     == proposePara(s, just, prevHash, seq)
<1>1. \/ r.just.set /\ p = [s |-> s4, prevHash |-> hash_para(block)]
      \/ p = [s |-> s0, prevHash |-> prevHash]
      BY DEF proposePara
<1> HIDE DEF p
<1>2. /\ Keeps(F, s, s0) /\ a \in Transactions /\ IsInjective(a) /\ s0.tp = s.tp
      /\ \A t \in Range(a) : /\ t \in Txs /\ t \in Dealt(s.myid, 0)
                             /\ F[t].seq = 0
                             /\ t \notin Range(s0.transactions)
                             /\ t \notin Range(s0.fromClient)
      BY PopFact
<1> HIDE DEF a, s0
<1>3. block \in AnyBlock /\ block.seq = seq /\ block.trans = a
      BY <1>2 DEF PBlock, AnyBlock
<1> HIDE DEF block
<1>4. hash_para(block) \in Chain
      BY <1>3, HashTyped
<1>5. CASE p = [s |-> s0, prevHash |-> prevHash]
      BY <1>2, <1>5, LeadsOn DEF p
<1>6. CASE r.just.set /\ p = [s |-> s4, prevHash |-> hash_para(block)]
  <2>1. /\ r.tee \in ComponentSet
        /\ r.tee.view = s.tp.view /\ r.tee.phase = s.tp.phase
        /\ r.just \in JustsOver(VoteData)
        /\ s.tp.view = just.rdata.propv
        BY <1>3, <1>6, TEEprepareTyped, SoundParts
  <2> HIDE DEF r
  <2>2. s.view \in Views /\ s.tp.view = s.view /\ seq \in Numbers
        BY SoundParts, DataFact
  <2>3. G \in Ledgers
        BY <2>2 DEF Ledgers, Slot
  <2>4. Grows(F, G, s.myid)
        BY <1>2 DEF Grows
  <2>5. block \in BlocksIn(G, s.view)
        BY <1>2, <1>3 DEF BlocksIn
  <2>6. s0.view = s.view /\ s0.myid = s.myid /\ Sound(F, s0)
        BY <1>2 DEF Keeps, Kept
  <2>7. Sound(G, s0)
    <3>1. LogSound(G, s0.log)
          BY <2>4, <2>6, MessagesGrow DEF Sound, LogSound
    <3>2. SlotsSound(G, s0.view, s0.pblocks)
          BY <2>4, <2>6, BlocksGrow DEF Sound, SlotsSound
    <3>3. s0.out \in [PID -> Seq(MessageSets(G))]
      <4>1. \A d \in PID : s0.out[d] \in Seq(MessageSets(G))
            BY <2>4, <2>6, MessagesGrow DEF Sound
      <4>2. QED
            BY <2>6, <4>1 DEF Sound
    <3>4. Fresh(G, s0.myid, s0.transactions, s0.fromClient)
      <4>1. \A t \in Range(s0.transactions) \cup Range(s0.fromClient) : t \in Txs
            BY <2>6 DEF Sound, Fresh, Transactions, Range
      <4>2. \A t \in Range(s0.transactions) \cup Range(s0.fromClient) : G[t] = F[t]
            BY <1>2, <4>1
      <4> HIDE DEF G
      <4>3. QED
            BY <2>6, <4>2 DEF Sound, Fresh
    <3>5. Done(G, s0.view, s0.lastExecutedSeq, s0.replied)
      <4>1. \A t \in Range(s0.replied) : t \in Txs
            BY <2>6 DEF Sound, Done, Transactions, Range
      <4> HIDE DEF G
      <4>2. \A t \in Range(s0.replied) : G[t] = F[t]
            BY <2>4, <2>6, <4>1 DEF Sound, Done, Grows
      <4>3. QED
            BY <2>6, <4>2 DEF Sound, Done
    <3>6. QED
          BY <2>6, <3>1, <3>2, <3>3, <3>4, <3>5 DEF Sound
  <2> HIDE DEF G
  <2>8. Keeps(G, s0, s1) /\ s1.tp = s0.tp
    <3>1. Keeps(G, s0, s1)
          BY <2>5, <2>6, <2>7, StoreBlockKeeps
    <3>2. QED
          BY <2>6, <3>1 DEF storeBlock, Sound, Fields
  <2> HIDE DEF s1
  <2>9. Keeps(G, s1, s2)
        BY <1>2, <2>1, <2>8, ComponentKeeps DEF Keeps
  <2> HIDE DEF s2
  <2>10. m \in ProposalSet(G) /\ m \in MessageSets(G) /\ m.type = "ldrprepare_para"
    <3>1. r.just.signs \in Signatures /\ block \in BlocksIn(G, just.rdata.propv)
          BY <2>1, <2>2, <2>5 DEF JustsOver
    <3>2. m \in ProposalSet(G) /\ m \in MessageSets(G)
          BY <3>1, MessageTyped
    <3>3. QED
          BY <3>2 DEF MsgLdrPreparePara
  <2> HIDE DEF m
  <2>11. Keeps(G, s2, s3)
         BY <2>9, <2>10, SendKeeps, Unbacked DEF Keeps
  <2> HIDE DEF s3
  <2>12. Keeps(G, s3, s4)
         BY <2>1, <2>11, MessageTyped, StoreKeeps DEF Keeps
  <2> HIDE DEF s4
  <2>13. Keeps(G, s, s0)
         BY <1>2, <2>7 DEF Keeps
  <2>14. Keeps(G, s, s4)
         BY <2>8, <2>9, <2>11, <2>12, <2>13, KeepsOn
  <2>15. Leads(F, s, s4)
         BY <2>3, <2>4, <2>14 DEF Leads
  <2>16. QED
         BY <1>4, <1>6, <2>15 DEF p
<1>7. QED
      BY <1>1, <1>5, <1>6

(* preparePara.                                                            *)
LEMMA PrepareLeads ==
    ASSUME NEW F \in Ledgers, NEW s, Sound(F, s), NEW just \in JustsOver(AnyData),
           just.set
    PROVE  Leads(F, s, preparePara(s, just))
<1> DEFINE begin == IF s.myid % 4 = Byzantine THEN 2 ELSE 1
           n     == MaxBlocksInView + 1 - begin
           base  == [s |-> s, prevHash |-> just.rdata.justh]
           seq   == [k \in 1 .. n |-> k + begin - 1]
<1>1. PICK f : /\ IsLoop("propose", just, base, seq, n, f)
               /\ preparePara(s, just) = f[1 .. n].s
      BY ProposeLoop
<1>2. n \in Nat /\ MaxBlocksInView \in Nat \ {0} /\ begin \in {1, 2}
      BY DataFact
<1>3. \A k \in 1 .. n : seq[k] \in SeqNumbers
      BY <1>2 DEF SeqNumbers
<1> HIDE DEF begin, n, seq, base
<1>4. /\ f[1 .. 0] = base
      /\ \A k \in 1 .. n : f[1 .. k] = Turn("propose", just, f[1 .. k - 1], seq[k])
  <2>1. n \in Nat
        BY <1>2
  <2>2. IsLoop("propose", just, base, seq, n, f)
        BY <1>1
  <2>3. Unrolled("propose", just, base, seq, n, f)
        BY <2>1, <2>2, LoopTurns
  <2>4. QED
        BY <2>3 DEF Unrolled
<1> DEFINE Good(acc) == Leads(F, s, acc.s) /\ acc.prevHash \in Chain
           Bad       == {k \in Nat : k <= n /\ ~Good(f[1 .. k])}
<1>5. Good(f[1 .. 0])
  <2>1. just.rdata.justh \in Chain
        BY DEF JustsOver, AnyData, DataOver
  <2>2. Leads(F, s, s)
        BY KeepsOn, LeadsOn
  <2>3. QED
        BY <1>4, <2>1, <2>2 DEF base
<1>6. ASSUME NEW acc, Good(acc), NEW k \in 1 .. n
      PROVE  Good(Turn("propose", just, acc, seq[k]))
  <2>1. PICK G \in Ledgers : Grows(F, G, s.myid) /\ Keeps(G, s, acc.s)
        BY <1>6 DEF Leads
  <2> DEFINE a == acc.s
             h == acc.prevHash
             i == seq[k]
             r == proposePara(a, just, h, i)
  <2>2. Sound(G, a) /\ h \in Chain /\ i \in SeqNumbers
        BY <1>3, <1>6, <2>1 DEF Keeps
  <2>3. Turn("propose", just, acc, seq[k]) = r
        BY DEF Turn
  <2> HIDE DEF a, h, i
  <2>4. Leads(G, a, r.s) /\ r.prevHash \in Chain
        BY <2>2, ProposeLeads
  <2> HIDE DEF r
  <2>5. Leads(F, s, r.s)
        BY <2>1, <2>4, LeadsOn DEF a
  <2>6. QED
        BY <2>3, <2>4, <2>5
<1> HIDE DEF Good
<1>7. Bad = {}
  <2>1. SUFFICES ASSUME Bad # {} PROVE FALSE
        OBVIOUS
  <2>2. PICK k \in Bad : \A j \in Bad : k <= j
        BY <2>1, LeastNatural
  <2>3. k \in Nat /\ k <= n /\ ~Good(f[1 .. k])
        BY <2>2
  <2>4. k # 0
        BY <1>5, <2>3
  <2>5. k - 1 \in Nat /\ k - 1 <= n /\ k - 1 \notin Bad /\ k \in 1 .. n
        BY <1>2, <2>2, <2>3, <2>4
  <2>6. Good(f[1 .. k - 1])
        BY <2>5
  <2>7. Good(f[1 .. k])
        BY <1>4, <1>6, <2>5, <2>6
  <2>8. QED
        BY <2>3, <2>7
<1>8. Good(f[1 .. n])
      BY <1>2, <1>7
<1>9. QED
      BY <1>1, <1>8 DEF Good

(* The hashes of the leading blocks of a view.                             *)
LEMMA ChainHashesTyped ==
    ASSUME NEW F, NEW v, NEW f \in SlotsIn(F, v)
    PROVE  chainHashes(f) \in Seq(Chain)
<1> DEFINE S == {k \in 0 .. Len(f) : \A i \in 1 .. k :
                     isBlock(f[i]) /\ extendsPrevious(f, i)}
           n == Max(S)
<1>1. /\ DOMAIN f = SeqNumbers /\ Len(f) = MaxBlocksInView
      /\ MaxBlocksInView \in Nat
      /\ \A i \in SeqNumbers : isBlock(f[i]) => f[i] \in AnyBlock
      BY SlotsFact, DataFact
<1>2. S \in SUBSET (0 .. MaxBlocksInView)
      BY <1>1
<1>3. 0 \in S
      BY <1>1
<1>4. \A k \in S : \A i \in 1 .. k : isBlock(f[i]) /\ i \in SeqNumbers
      BY <1>1 DEF SeqNumbers
<1> HIDE DEF S
<1>5. n \in S
      BY <1>1, <1>2, <1>3, MaxFact
<1>6. chainHashes(f) = [i \in 1 .. n |-> hash_para(f[i])]
      BY DEF chainHashes, S
<1> HIDE DEF n
<1>7. \A i \in 1 .. n : hash_para(f[i]) \in Chain
      BY <1>1, <1>4, <1>5, HashTyped
<1>8. n \in Nat
      BY <1>1, <1>2, <1>5
<1>9. QED
      BY <1>6, <1>7, <1>8

(* initiateVerifyPara.                                                     *)
LEMMA InitiateVerifyLeads ==
    ASSUME NEW F \in Ledgers, NEW s, Sound(F, s), NEW just \in JustsOver(AnyData),
           just.set
    PROVE  Leads(F, s, initiateVerifyPara(s, just))
<1> DEFINE v      == just.rdata.justv
           hashes == IF hasBlocks(s, v) THEN chainHashes(s.pblocks[v]) ELSE <<>>
           m      == MsgVerifyPara(just, hashes)
           u      == send(s, remove_from_peers(s), m)
<1>1. initiateVerifyPara(s, just) = preparePara(u, just)
      BY DEF initiateVerifyPara
<1>2. hashes \in Seq(Chain)
  <2>1. CASE hasBlocks(s, v)
    <3>1. v \in DOMAIN s.pblocks /\ s.pblocks[v] # <<>>
          BY <2>1 DEF hasBlocks, blocksOf
    <3>2. s.pblocks[v] \in SlotsIn(F, v)
          BY <3>1 DEF Sound, SlotsSound
    <3>3. QED
          BY <2>1, <3>2, ChainHashesTyped
  <2>2. CASE ~hasBlocks(s, v)
        BY <2>2
  <2>3. QED
        BY <2>1, <2>2
<1> HIDE DEF hashes
<1>3. m \in MessageSets(F) /\ m.type # "prepare_para"
  <2>1. m \in VerifySet /\ m \in MessageSets(F)
        BY <1>2, MessageTyped
  <2>2. QED
        BY <2>1 DEF VerifySet
<1> HIDE DEF m
<1>4. Keeps(F, s, u)
      BY <1>3, SendKeeps, Unbacked
<1> HIDE DEF u
<1>5. Leads(F, u, preparePara(u, just))
      BY <1>4, PrepareLeads DEF Keeps
<1>6. QED
      BY <1>1, <1>4, <1>5, LeadsOn

(* initiateRecoverPara.                                                    *)
LEMMA InitiateRecoverKeeps ==
    ASSUME NEW F, NEW s, Sound(F, s), NEW just \in JustsOver(AnyData)
    PROVE  Keeps(F, s, initiateRecoverPara(s, just))
<1> DEFINE m == MsgLdrRecoverPara(just, missingFor(s, just))
<1>1. missingFor(s, just) \subseteq SeqNumbers
  <2>1. just.rdata.seq \in Numbers
        BY DEF JustsOver, AnyData, DataOver
  <2>2. \A i \in missingFor(s, just) : i \in 1 .. just.rdata.seq
        BY DEF missingFor
  <2>3. QED
        BY <2>1, <2>2, DataFact DEF Numbers, SeqNumbers
<1>2. m \in LdrRecoverSet /\ m \in MessageSets(F)
      BY <1>1, MessageTyped
<1>3. m.type # "prepare_para"
      BY <1>2 DEF LdrRecoverSet
<1>4. initiateRecoverPara(s, just) = send(s, remove_from_peers(s), m)
      BY DEF initiateRecoverPara
<1> HIDE DEF m
<1>5. QED
      BY <1>2, <1>3, <1>4, SendKeeps, Unbacked

-----------------------------------------------------------------------------
(* Looking up messages.                                                    *)

(* The messages of a log have finitely many signatures of replicas.        *)
LEMMA LogSigned ==
    ASSUME NEW F, NEW s, Sound(F, s), NEW k \in LogFields, NEW m \in s.log[k]
    PROVE  m.signs \in Signatures /\ Signed(m)
<1>1. m \in LoggedSet(F, k)
      BY SoundParts
<1>2. m.signs \in Signatures
      BY <1>1 DEF LoggedSet, LogFields, NewViewSet, VoteSet, ProposalSet
<1>3. IsFiniteSet(m.signs) /\ getSigners(m.signs) \subseteq PID
      BY <1>2 DEF Signatures, Tokens, getSigners
<1>4. QED
      BY <1>2, <1>3 DEF Signed

(* The messages of a number are finitely many.                             *)
LEMMA ForSeqFact ==
    ASSUME NEW msgs, IsFiniteSet(msgs), NEW v, NEW i
    PROVE  /\ ForSeq(msgs, v, i) \subseteq msgs /\ IsFiniteSet(ForSeq(msgs, v, i))
           /\ InView(ForSeq(msgs, v, i), v) = ForSeq(msgs, v, i)
<1>1. ForSeq(msgs, v, i) \in SUBSET msgs
      BY DEF ForSeq
<1>2. QED
      BY <1>1, FS_Subset DEF ForSeq, InView

(* getPreparePara, getPrecommitPara, getCommitPara; getNewView.            *)
LEMMA GetTyped ==
    ASSUME NEW F, NEW s, Sound(F, s), NEW k \in LogFields, NEW v
    PROVE  \A i : getPara(s.log[k], v, i) \in Signatures
<1> SUFFICES ASSUME NEW i PROVE getPara(s.log[k], v, i) \in Signatures
    OBVIOUS
<1> DEFINE here == ForSeq(s.log[k], v, i)
<1>1. here \subseteq s.log[k] /\ IsFiniteSet(here)
      BY ForSeqFact, SoundParts
<1>2. \A m \in here : m.signs \in Signatures
      BY <1>1, LogSigned
<1>3. getPara(s.log[k], v, i) = get(here, v, QSize)
      BY DEF getPara
<1> HIDE DEF here
<1>4. IsFiniteSet(get(here, v, QSize))
      BY <1>1, <1>2, GetFinite DEF Signatures
<1>5. \A g \in get(here, v, QSize) : \E m \in here : g \in m.signs
      BY <1>1, GetFact, InViewFinite
<1>6. \A g \in get(here, v, QSize) : g \in Tokens
      BY <1>2, <1>5 DEF Signatures
<1>7. QED
      BY <1>3, <1>4, <1>6 DEF Signatures

VoteFields  == {"prepares", "precommits", "commits"}
VotesFor(i) == {j \in JustsOver(VoteData) : j.rdata.seq = i}

(* firstPreparePara, firstPrecommitPara, getCommitForSeq.                  *)
LEMMA FirstTyped ==
    ASSUME NEW F, NEW s, Sound(F, s), NEW v, NEW i, NEW k \in VoteFields
    PROVE  ForSeq(s.log[k], v, i) # {} => firstPara(s.log[k], v, i) \in VotesFor(i)
<1> DEFINE here == ForSeq(s.log[k], v, i)
           m    == FirstMsg(here)
<1>1. k \in LogFields /\ IsFiniteSet(s.log[k])
      BY SoundParts DEF LogFields, VoteFields
<1>2. here \subseteq s.log[k] /\ IsFiniteSet(here) /\ InView(here, v) = here
      BY <1>1, ForSeqFact
<1>3. \A x \in s.log[k] : x.rdata \in VoteData /\ x.signs \in Signatures
                          /\ Signed(x) /\ x.type # "ldrprepare_para"
  <2>1. \A x \in LoggedSet(F, k) : x.rdata \in VoteData /\ x.type # "ldrprepare_para"
        BY DEF LoggedSet, VoteSet, VoteFields
  <2>2. QED
        BY <1>1, <2>1, SoundParts, LogSigned
<1>4. \A x \in here : SeqNumberOf(x) = i
      BY DEF ForSeq
<1>5. firstPara(s.log[k], v, i) = IF here = {} THEN NoJust ELSE Just(m.rdata, m.signs)
      BY <1>2 DEF firstPara, first
<1> HIDE DEF here
<1>6. here # {} => m \in here
      BY <1>2, <1>3, FirstMsgFact
<1> HIDE DEF m
<1>7. here # {} => m.rdata.seq = i /\ m.rdata \in VoteData /\ m.signs \in Signatures
      BY <1>2, <1>3, <1>4, <1>6 DEF SeqNumberOf
<1>8. QED
  <2>1. ASSUME here # {}
        PROVE  /\ Just(m.rdata, m.signs) \in JustsOver(VoteData)
               /\ Just(m.rdata, m.signs).rdata.seq = i
        BY <1>7, <2>1 DEF Just, JustsOver
  <2>2. QED
        BY <1>5, <2>1 DEF here, VotesFor

(* The first votes, map by map.                                            *)
LEMMA FirstVotes ==
    ASSUME NEW F, NEW s, Sound(F, s), NEW v, NEW i
    PROVE  /\ ForSeq(s.log.prepares, v, i) # {} =>
                  firstPara(s.log.prepares, v, i) \in VotesFor(i)
           /\ ForSeq(s.log.precommits, v, i) # {} =>
                  firstPara(s.log.precommits, v, i) \in VotesFor(i)
           /\ ForSeq(s.log.commits, v, i) # {} =>
                  firstPara(s.log.commits, v, i) \in VotesFor(i)
<1>1. ASSUME NEW k \in VoteFields
      PROVE  ForSeq(s.log[k], v, i) # {} => firstPara(s.log[k], v, i) \in VotesFor(i)
      BY FirstTyped
<1>2. "prepares" \in VoteFields /\ "precommits" \in VoteFields /\ "commits" \in VoteFields
      BY DEF VoteFields
<1>3. QED
      BY <1>1, <1>2

(* As many signatures as a quorum are those of some message.               *)
LEMMA QuorumOfSome ==
    ASSUME NEW msgs, IsFiniteSet(msgs), NEW v, NEW i,
           Cardinality(getPara(msgs, v, i)) = QSize
    PROVE  ForSeq(msgs, v, i) # {}
<1>1. SUFFICES ASSUME ForSeq(msgs, v, i) = {} PROVE FALSE
      OBVIOUS
<1> DEFINE g == get(ForSeq(msgs, v, i), v, QSize)
<1>2. \A x \in g : \E m \in ForSeq(msgs, v, i) : x \in m.signs
      BY ForSeqFact, GetFact
<1>3. getPara(msgs, v, i) = g
      BY DEF getPara
<1> HIDE DEF g
<1>4. g = {}
      BY <1>1, <1>2
<1>5. Cardinality(g) = 0
      BY <1>4, FS_EmptySet
<1>6. QED
      BY <1>3, <1>5, QuorumSizes

(* findHighestNvPara returns a new-view message of the view.               *)
LEMMA HighestNvTyped ==
    ASSUME NEW F, NEW s, Sound(F, s), NEW v, InView(s.log.newviews, v) # {}
    PROVE  /\ findHighestNvPara(s, v) \in JustsOver(AnyData)
           /\ findHighestNvPara(s, v).set
<1> DEFINE here == InView(s.log.newviews, v)
           Higher(m, k) == \/ m.rdata.justv > k.rdata.justv
                           \/ /\ m.rdata.justv = k.rdata.justv
                              /\ m.rdata.seq > k.rdata.seq
           highest == {m \in here : \A k \in here : ~Higher(k, m)}
           R == {p \in here \X here : Higher(p[1], p[2])}
           best == FirstMsg(highest)
<1>1. /\ IsFiniteSet(s.log.newviews)
      /\ \A m \in s.log.newviews : m \in NewViewSet /\ Signed(m)
  <2>1. "newviews" \in LogFields /\ LoggedSet(F, "newviews") = NewViewSet
        BY DEF LogFields, LoggedSet
  <2>2. QED
        BY <2>1, SoundParts, LogSigned
<1>2. here \subseteq s.log.newviews /\ IsFiniteSet(here) /\ here # {}
      BY <1>1, InViewFinite
<1>3. findHighestNvPara(s, v) = Just(best.rdata, best.signs)
      BY DEF findHighestNvPara, JustOf
<1> HIDE DEF here
<1>4. \A m \in here : /\ m.rdata.justv \in Int /\ m.rdata.seq \in Int
                      /\ m.rdata \in AnyData /\ m.signs \in Signatures
      BY <1>1, <1>2, DataFact DEF NewViewSet, AnyData, DataOver, Views, Numbers
<1>5. \A x, y \in here : <<x, y>> \in R <=> Higher(x, y)
      OBVIOUS
<1> HIDE DEF R
<1>6. /\ \A x \in here : <<x, x>> \notin R
      /\ \A x, y, z \in here : <<x, y>> \in R /\ <<y, z>> \in R => <<x, z>> \in R
      BY <1>4, <1>5
<1>7. PICK m \in here : \A x \in here : <<x, m>> \notin R
      BY <1>2, <1>6, MinimalElement
<1> HIDE DEF Higher
<1>8. m \in highest
      BY <1>5, <1>7
<1>9. highest \in SUBSET here
      OBVIOUS
<1> HIDE DEF highest
<1>10. IsFiniteSet(highest) /\ \A x \in highest : Signed(x)
       BY <1>1, <1>2, <1>9, FS_Subset
<1>11. best \in highest
       BY <1>8, <1>10, FirstMsgFact
<1> HIDE DEF best
<1>12. Just(best.rdata, best.signs) \in JustsOver(AnyData)
           /\ Just(best.rdata, best.signs).set
       BY <1>4, <1>9, <1>11 DEF Just, JustsOver
<1>13. QED
       BY <1>3, <1>12

-----------------------------------------------------------------------------
(* Execution.                                                              *)

(* The replies of a block of the slot that is executed next.               *)
LEMMA ReplyFact ==
    ASSUME NEW F \in Ledgers, NEW s, Sound(F, s), NEW h, NEW seq \in SeqNumbers,
           seq = s.lastExecutedSeq + 1
    PROVE  LET w == replyHashPara(s, h, seq)
           IN  /\ Done(F, s.view, seq, w.replied)
               /\ DOMAIN w = Fields /\ w.myid = s.myid /\ w.view = s.view
               /\ w.started = s.started /\ w.pending = s.pending
               /\ w.tp = s.tp /\ w.verifiedJust = s.verifiedJust
               /\ w.lastExecutedSeq = s.lastExecutedSeq /\ w.log = s.log
               /\ w.pblocks = s.pblocks /\ w.out = s.out
               /\ w.transactions = s.transactions
               /\ w.fromClient = s.fromClient /\ w.executed = s.executed
<1> DEFINE block == s.pblocks[s.view][seq]
           a == block.trans
           q == s.replied \o a
           w == replyHashPara(s, h, seq)
<1>1. /\ Done(F, s.view, s.lastExecutedSeq, s.replied) /\ DOMAIN s = Fields
      /\ s.view \in Int /\ s.lastExecutedSeq \in Int /\ seq \in Nat
  <2>1. Done(F, s.view, s.lastExecutedSeq, s.replied) /\ DOMAIN s = Fields
        BY DEF Sound
  <2>2. s.view \in Views /\ s.lastExecutedSeq \in Numbers
        BY SoundParts
  <2>3. QED
        BY <2>1, <2>2, DataFact DEF Views, Numbers, SeqNumbers
<1>2. /\ s.replied \in Seq(Txs) /\ IsInjective(s.replied)
      /\ \A t \in Range(s.replied) :
             F[t].view < s.view \/ (F[t].view = s.view /\ F[t].seq <= s.lastExecutedSeq)
      /\ \A t \in Range(s.replied) : F[t].seq # 0 /\ t \in Txs
      /\ \A t \in Txs : F[t].seq \in Int /\ F[t].view \in Int
  <2>1. \A t \in Range(s.replied) : t \in Txs
        BY <1>1 DEF Done, Transactions, Range
  <2>2. \A t \in Txs : F[t].seq \in Int /\ F[t].view \in Int
        BY DataFact DEF Ledgers, Views, Numbers
  <2>3. QED
        BY <1>1, <2>1, <2>2 DEF Done, Transactions
<1>3. Done(F, s.view, seq, s.replied)
      BY <1>1, <1>2 DEF Done
<1>4. CASE w = s
      BY <1>1, <1>3, <1>4
<1>5. CASE isBlock(block) /\ w = [s EXCEPT !.replied = q]
  <2>1. block \in BlocksIn(F, s.view) /\ block.seq = seq /\ block \in AnyBlock
        BY <1>5, SoundParts, SlotsFact
  <2> HIDE DEF block
  <2>2. /\ a \in Seq(Txs) /\ IsInjective(a)
        /\ \A t \in Range(a) : F[t].view = s.view /\ F[t].seq = seq
        BY <2>1 DEF BlocksIn, AnyBlock, Transactions, Slot
  <2> HIDE DEF a
  <2>3. Apart(s.replied, a)
    <3>1. \A t : ~(t \in Range(s.replied) /\ t \in Range(a))
          BY <1>1, <1>2, <2>2
    <3>2. QED
          BY <3>1 DEF Apart
  <2>4. q \in Seq(Txs) /\ IsInjective(q) /\ Range(q) = Range(s.replied) \cup Range(a)
        BY <1>2, <2>2, <2>3, ConcatOnce
  <2>5. \A t \in Range(a) : F[t].seq # 0 /\ F[t].view = s.view /\ F[t].seq <= seq
        BY <2>2, DataFact DEF SeqNumbers
  <2> HIDE DEF q
  <2>6. Done(F, s.view, seq, q)
        BY <1>3, <2>4, <2>5 DEF Done, Transactions
  <2>7. /\ w.replied = q
        /\ DOMAIN w = Fields /\ w.myid = s.myid /\ w.view = s.view
        /\ w.started = s.started /\ w.pending = s.pending /\ w.tp = s.tp
        /\ w.verifiedJust = s.verifiedJust
        /\ w.lastExecutedSeq = s.lastExecutedSeq /\ w.log = s.log
        /\ w.pblocks = s.pblocks /\ w.out = s.out
        /\ w.transactions = s.transactions /\ w.fromClient = s.fromClient
        /\ w.replied = q /\ w.executed = s.executed
        BY <1>1, <1>5 DEF Fields
  <2> HIDE DEF w
  <2>8. QED
        BY <2>6, <2>7 DEF w
<1>6. w = s \/ (isBlock(block) /\ w = [s EXCEPT !.replied = q])
      BY DEF replyHashPara, replyTransactions
<1>7. QED
      BY <1>4, <1>5, <1>6

(* The next slot is appended to the history.                               *)
LEMMA AppendInOrder ==
    ASSUME NEW v \in Views, NEW last \in Numbers, NEW x, InOrder(v, last, x),
           NEW e \in Entries, e.view = v, e.seq = last + 1
    PROVE  InOrder(v, last + 1, Append(x, e))
<1> DEFINE n == Len(x)
           y == Append(x, e)
<1>1. /\ x \in Seq(Entries) /\ n \in Nat /\ DOMAIN x = 1 .. n
      /\ y \in Seq(Entries) /\ Len(y) = n + 1 /\ DOMAIN y = 1 .. n + 1
      /\ y[n + 1] = e /\ \A k \in 1 .. n : y[k] = x[k]
      BY DEF InOrder
<1>2. last \in Nat /\ v \in Int
      BY DataFact DEF Numbers, Views
<1> HIDE DEF y, n
<1>3. ASSUME NEW k \in 1 .. n
      PROVE  \/ y[k].seq = 1 /\ (k > 1 => y[k - 1].view < y[k].view)
             \/ k > 1 /\ y[k - 1].view = y[k].view /\ y[k - 1].seq + 1 = y[k].seq
  <2>1. \/ x[k].seq = 1 /\ (k > 1 => x[k - 1].view < x[k].view)
        \/ k > 1 /\ x[k - 1].view = x[k].view /\ x[k - 1].seq + 1 = x[k].seq
        BY <1>1 DEF InOrder
  <2>2. k > 1 => k - 1 \in 1 .. n
        BY <1>1
  <2>3. QED
        BY <1>1, <2>1, <2>2
<1>4. LET k == n + 1
      IN  \/ y[k].seq = 1 /\ (k > 1 => y[k - 1].view < y[k].view)
          \/ k > 1 /\ y[k - 1].view = y[k].view /\ y[k - 1].seq + 1 = y[k].seq
  <2>1. CASE last = 0
    <3>1. n # 0 => x[n].view < v
          BY <2>1 DEF InOrder, n
    <3>2. n # 0 => y[n] = x[n]
          BY <1>1
    <3>3. QED
          BY <1>1, <2>1, <3>1, <3>2
  <2>2. CASE last # 0
    <3>1. n # 0 /\ x[n].view = v /\ x[n].seq = last
          BY <2>2 DEF InOrder, n
    <3>2. y[n] = x[n]
          BY <1>1, <3>1
    <3>3. QED
          BY <1>1, <3>1, <3>2
  <2>3. QED
        BY <2>1, <2>2
<1>5. \A k \in DOMAIN y :
          \/ y[k].seq = 1 /\ (k > 1 => y[k - 1].view < y[k].view)
          \/ k > 1 /\ y[k - 1].view = y[k].view /\ y[k - 1].seq + 1 = y[k].seq
  <2>1. \A k \in DOMAIN y : k \in 1 .. n \/ k = n + 1
        BY <1>1
  <2>2. QED
        BY <1>3, <1>4, <2>1
<1>6. last + 1 # 0 /\ Len(y) # 0 /\ y[Len(y)].view = v /\ y[Len(y)].seq = last + 1
      BY <1>1, <1>2
<1>7. InOrder(v, last + 1, y)
      BY <1>1, <1>5, <1>6 DEF InOrder
<1>8. QED
      BY <1>7 DEF y

(* executeRDataPara, for the next slot.                                    *)
LEMMA ExecuteKeeps ==
    ASSUME NEW F \in Ledgers, NEW s, Sound(F, s), NEW rdata \in VoteData,
           rdata.seq \in SeqNumbers, rdata.seq = s.lastExecutedSeq + 1
    PROVE  /\ Keeps(F, s, executeRDataPara(s, rdata))
           /\ executeRDataPara(s, rdata).lastExecutedSeq = rdata.seq
<1> DEFINE seq == rdata.seq
           h   == rdata.proph
           e   == [view |-> s.view, seq |-> seq, hash |-> h]
           x   == Append(s.executed, e)
           w   == replyHashPara(s, h, seq)
           r   == w.replied
           u   == [w EXCEPT !.lastExecutedSeq = seq, !.executed = Append(@, e)]
           s2  == [u EXCEPT !.stopped = TRUE, !.timer = FALSE]
           s3  == [u EXCEPT !.pending = "startNewViewPara"]
           z   == executeRDataPara(s, rdata)
<1>1. z = u \/ z = s2 \/ (~timeToStop(s) /\ z = s3)
      BY DEF executeRDataPara
<1> HIDE DEF z
<1>2. /\ Done(F, s.view, seq, r)
      /\ DOMAIN w = Fields /\ w.myid = s.myid /\ w.view = s.view
      /\ w.started = s.started /\ w.pending = s.pending /\ w.tp = s.tp
      /\ w.verifiedJust = s.verifiedJust
      /\ w.lastExecutedSeq = s.lastExecutedSeq /\ w.log = s.log
      /\ w.pblocks = s.pblocks /\ w.out = s.out
      /\ w.transactions = s.transactions /\ w.fromClient = s.fromClient
      /\ w.replied = r /\ w.executed = s.executed
      BY ReplyFact
<1> HIDE DEF r, w
<1>4. e \in Entries /\ e.view = s.view /\ e.seq = s.lastExecutedSeq + 1
  <2>1. h \in Hashes /\ s.view \in Views
        BY SoundParts, DataFact DEF VoteData, DataOver
  <2>2. QED
        BY <2>1 DEF Entries
<1> HIDE DEF e
<1>5. InOrder(s.view, seq, x)
      BY <1>4, AppendInOrder, SoundParts DEF Sound
<1>6. /\ DOMAIN u = Fields /\ u.myid = s.myid /\ u.view = s.view
      /\ u.started = s.started /\ u.pending = s.pending /\ u.tp = s.tp
      /\ u.verifiedJust = s.verifiedJust /\ u.lastExecutedSeq = seq
      /\ u.log = s.log /\ u.pblocks = s.pblocks /\ u.out = s.out
      /\ u.transactions = s.transactions /\ u.fromClient = s.fromClient
      /\ u.replied = r /\ u.executed = x
      BY <1>2 DEF Fields
<1> HIDE DEF u, x
<1>7. seq \in Numbers
      BY DataFact
<1> HIDE DEF seq
<1>8. Sound(F, u)
      BY <1>2, <1>5, <1>6, <1>7 DEF Sound
<1>9. Keeps(F, s, u)
      BY <1>6, <1>8 DEF Keeps, Kept, Speaks
<1>10. Keeps(F, u, s2) /\ s2.lastExecutedSeq = seq
  <2> DEFINE y == [u EXCEPT !.stopped = TRUE, !.timer = FALSE]
  <2>1. /\ DOMAIN y = Fields /\ y.myid = u.myid /\ y.view = u.view
        /\ y.started = u.started /\ y.pending = u.pending /\ y.tp = u.tp
        /\ y.verifiedJust = u.verifiedJust
        /\ y.lastExecutedSeq = u.lastExecutedSeq /\ y.log = u.log
        /\ y.pblocks = u.pblocks /\ y.out = u.out
        /\ y.transactions = u.transactions /\ y.fromClient = u.fromClient
        /\ y.replied = u.replied /\ y.executed = u.executed
        BY <1>6 DEF Fields
  <2> HIDE DEF y
  <2>2. Sound(F, y)
        BY <1>8, <2>1 DEF Sound
  <2>3. Keeps(F, u, y)
        BY <2>1, <2>2 DEF Keeps, Kept, Speaks
  <2>4. QED
        BY <1>6, <2>1, <2>3 DEF y
<1>11. ~timeToStop(s) => Keeps(F, u, s3) /\ s3.lastExecutedSeq = seq
  <2> DEFINE y == [u EXCEPT !.pending = "startNewViewPara"]
  <2>1. /\ DOMAIN y = Fields /\ y.myid = u.myid /\ y.view = u.view
        /\ y.started = u.started /\ y.pending = "startNewViewPara"
        /\ y.tp = u.tp /\ y.verifiedJust = u.verifiedJust
        /\ y.lastExecutedSeq = u.lastExecutedSeq /\ y.log = u.log
        /\ y.pblocks = u.pblocks /\ y.out = u.out
        /\ y.transactions = u.transactions /\ y.fromClient = u.fromClient
        /\ y.replied = u.replied /\ y.executed = u.executed
        BY <1>6 DEF Fields
  <2> HIDE DEF y
  <2>2. ~timeToStop(s) => Located(y.view, y.tp, y.started, y.pending)
        BY <1>6, <1>8, <2>1 DEF Sound, Located, timeToStop
  <2>3. ~timeToStop(s) => Sound(F, y)
        BY <1>8, <2>1, <2>2 DEF Sound
  <2>4. ~timeToStop(s) => Keeps(F, u, y)
        BY <2>1, <2>3 DEF Keeps, Kept, Speaks
  <2>5. QED
        BY <1>6, <2>1, <2>4 DEF y
<1> HIDE DEF s2, s3
<1>12. Keeps(F, s, z) /\ z.lastExecutedSeq = seq
       BY <1>1, <1>6, <1>9, <1>10, <1>11, KeepsOn
<1>13. QED
       BY <1>12 DEF z, seq

(* findHighestSeq: there are commit votes for the blocks up to it.         *)
LEMMA HighestSeqFact ==
    ASSUME NEW s, NEW seq \in Numbers
    PROVE  /\ findHighestSeq(s, seq) \in Numbers
           /\ \A i \in 1 .. findHighestSeq(s, seq) :
                  ForSeq(s.log.commits, s.view, i) # {}
<1> DEFINE S == {0} \cup {k \in 1 .. seq : \A i \in 1 .. k :
                              ForSeq(s.log.commits, s.view, i) # {}}
<1>1. MaxBlocksInView \in Nat /\ seq \in Nat /\ seq <= MaxBlocksInView
      BY DataFact DEF Numbers
<1>2. S \in SUBSET (0 .. MaxBlocksInView) /\ S # {}
      BY <1>1
<1>3. findHighestSeq(s, seq) = Max(S)
      BY DEF findHighestSeq
<1>4. \A k \in S : \A i \in 1 .. k : ForSeq(s.log.commits, s.view, i) # {}
      OBVIOUS
<1> DEFINE top == Max(S)
<1> HIDE DEF S
<1>5. top \in S
      BY <1>1, <1>2, MaxFact
<1> HIDE DEF top
<1>6. top \in Numbers /\ \A i \in 1 .. top : ForSeq(s.log.commits, s.view, i) # {}
      BY <1>1, <1>2, <1>4, <1>5 DEF Numbers
<1>7. QED
      BY <1>3, <1>6 DEF top

(* executeBlocksFrom, up to a block that has commit votes.                 *)
LEMMA ExecuteBlocksKeeps ==
    ASSUME NEW F \in Ledgers, NEW s, Sound(F, s), NEW endSeq \in Numbers,
           \A i \in 1 .. endSeq : ForSeq(s.log.commits, s.view, i) # {}
    PROVE  Keeps(F, s, executeBlocksFrom(s, endSeq))
<1> DEFINE done == s.lastExecutedSeq
           S    == {done} \cup
                   {k \in done + 1 .. endSeq : \A i \in done + 1 .. k :
                        extendsPrevious(s.pblocks[s.view], i)}
           last == Max(S)
           n    == last - done
           seq  == [i \in 1 .. n |-> done + i]
<1>1. n \in Nat => \E f : /\ IsLoop("execute", s, s, seq, n, f)
                          /\ executeBlocksFrom(s, endSeq) = f[1 .. n]
      BY ExecuteLoop
<1>2. /\ MaxBlocksInView \in Nat /\ endSeq \in Nat /\ endSeq <= MaxBlocksInView
      /\ done \in Nat /\ done <= MaxBlocksInView
      BY DataFact, SoundParts DEF Numbers
<1>3. S \in SUBSET (0 .. MaxBlocksInView) /\ done \in S
          /\ \A k \in S : k = done \/ (k >= done + 1 /\ k <= endSeq)
      BY <1>2
<1> HIDE DEF S
<1>4. last \in S /\ \A k \in S : k <= last
      BY <1>2, <1>3, MaxFact
<1> HIDE DEF last
<1>5. last \in Nat /\ n \in Nat /\ (last = done \/ last <= endSeq)
          /\ last <= MaxBlocksInView
      BY <1>2, <1>3, <1>4
<1>6. \A k \in 1 .. n : /\ seq[k] = done + k /\ seq[k] \in SeqNumbers
                        /\ seq[k] \in 1 .. endSeq
      BY <1>2, <1>5 DEF SeqNumbers
<1> HIDE DEF n, seq
<1>8. PICK f : /\ IsLoop("execute", s, s, seq, n, f)
               /\ executeBlocksFrom(s, endSeq) = f[1 .. n]
      BY <1>1, <1>5
<1>9. /\ f[1 .. 0] = s
      /\ \A k \in 1 .. n : f[1 .. k] = Turn("execute", s, f[1 .. k - 1], seq[k])
  <2>1. n \in Nat
        BY <1>5
  <2>2. IsLoop("execute", s, s, seq, n, f)
        BY <1>8
  <2>3. Unrolled("execute", s, s, seq, n, f)
        BY <2>1, <2>2, LoopTurns
  <2>4. QED
        BY <2>3 DEF Unrolled
<1> DEFINE Good(acc, k) == Keeps(F, s, acc) /\ acc.lastExecutedSeq = done + k
           Bad          == {k \in Nat : k <= n /\ ~Good(f[1 .. k], k)}
<1>10. Good(f[1 .. 0], 0)
       BY <1>2, <1>9, KeepsOn
<1>11. ASSUME NEW k \in 1 .. n, NEW acc, Good(acc, k - 1)
       PROVE  Good(Turn("execute", s, acc, seq[k]), k)
  <2> DEFINE i == seq[k]
             v == s.view
             j == firstPara(s.log.commits, v, i)
             d == j.rdata
             u == executeRDataPara(acc, d)
  <2>1. ForSeq(s.log.commits, v, i) # {}
        BY <1>6
  <2> HIDE DEF i, v
  <2>2. j \in VotesFor(i)
        BY <2>1, FirstVotes
  <2>3. Turn("execute", s, acc, i) = u
        BY DEF Turn, v
  <2> HIDE DEF j
  <2>4. d \in VoteData /\ d.seq = i
        BY <2>2 DEF VotesFor, JustsOver
  <2> HIDE DEF d
  <2>5. acc.lastExecutedSeq = done + (k - 1) /\ k \in Nat
        BY <1>11, <1>5
  <2>6. d.seq = acc.lastExecutedSeq + 1 /\ d.seq \in SeqNumbers
        BY <1>2, <1>6, <2>4, <2>5 DEF i
  <2>7. Sound(F, acc)
        BY <1>11 DEF Keeps
  <2>8. Keeps(F, acc, u) /\ u.lastExecutedSeq = d.seq
        BY <2>4, <2>6, <2>7, ExecuteKeeps
  <2> HIDE DEF u
  <2>9. Keeps(F, s, u) /\ u.lastExecutedSeq = done + k
        BY <1>6, <1>11, <2>4, <2>8, KeepsOn DEF i
  <2>10. QED
         BY <2>3, <2>9 DEF i
<1> HIDE DEF Good
<1>12. Bad = {}
  <2>1. SUFFICES ASSUME Bad # {} PROVE FALSE
        OBVIOUS
  <2>2. PICK k \in Bad : \A j \in Bad : k <= j
        BY <2>1, LeastNatural
  <2>3. k \in Nat /\ k <= n /\ ~Good(f[1 .. k], k)
        BY <2>2
  <2>4. k # 0
        BY <1>10, <2>3
  <2>5. k - 1 \in Nat /\ k - 1 <= n /\ k - 1 \notin Bad /\ k \in 1 .. n
        BY <1>5, <2>2, <2>3, <2>4
  <2>6. Good(f[1 .. k - 1], k - 1)
        BY <2>5
  <2>7. Good(f[1 .. k], k)
        BY <1>9, <1>11, <2>5, <2>6
  <2>8. QED
        BY <2>3, <2>7
<1>13. Good(f[1 .. n], n)
       BY <1>5, <1>12
<1>14. QED
       BY <1>8, <1>13 DEF Good

(* executeCommitted.                                                       *)
LEMMA ExecuteCommittedKeeps ==
    ASSUME NEW F \in Ledgers, NEW s, Sound(F, s), NEW seq \in Numbers
    PROVE  Keeps(F, s, executeCommitted(s, seq))
BY HighestSeqFact, ExecuteBlocksKeeps DEF executeCommitted

(* initiateCommitPara.                                                     *)
LEMMA InitiateCommitKeeps ==
    ASSUME NEW F \in Ledgers, NEW s, Sound(F, s), NEW rdata \in VoteData
    PROVE  Keeps(F, s, initiateCommitPara(s, rdata))
<1> DEFINE signs == getPara(s.log.commits, rdata.propv, rdata.seq)
           m == MsgCommitPara(Just(rdata, signs))
           u == send(s, remove_from_peers(s), m)
           w == executeCommitted(u, rdata.seq)
<1>1. signs \in Signatures
      BY GetTyped DEF LogFields
<1> HIDE DEF signs
<1>2. Just(rdata, signs) \in JustsOver(VoteData)
      BY <1>1 DEF Just, JustsOver
<1>3. m \in VoteSet("commit_para") /\ m \in MessageSets(F)
      BY <1>2, MessageTyped
<1>4. m.type # "prepare_para"
      BY <1>3 DEF VoteSet
<1>5. Keeps(F, s, u)
      BY <1>3, <1>4, SendKeeps, Unbacked
<1> HIDE DEF u
<1>6. rdata.seq \in Numbers
      BY DEF VoteData, DataOver
<1>7. Keeps(F, u, w)
      BY <1>5, <1>6, ExecuteCommittedKeeps DEF Keeps
<1> HIDE DEF w
<1>8. Keeps(F, s, w)
      BY <1>5, <1>7, KeepsOn
<1>9. initiateCommitPara(s, rdata) = s \/ initiateCommitPara(s, rdata) = w
      BY DEF initiateCommitPara, signs, m, u, w
<1>10. QED
       BY <1>8, <1>9, KeepsOn

-----------------------------------------------------------------------------
(* Certificates.                                                           *)

(* callTEEstorePara.                                                       *)
LEMMA CallStoreKeeps ==
    ASSUME NEW F, NEW s, Sound(F, s), NEW just \in JustsOver(VoteData)
    PROVE  LET r == callTEEstorePara(s, just)
           IN  r.just \in JustsOver(VoteData) /\ Keeps(F, s, [s EXCEPT !.tp = r.tee])
<1> DEFINE r == callTEEstorePara(s, just)
<1>1. s.myid \in PID /\ s.tp \in ComponentSet
      BY SoundParts
<1>2. /\ r.tee \in ComponentSet /\ r.tee.view = s.tp.view
      /\ r.tee.phase = s.tp.phase /\ r.just \in JustsOver(VoteData)
      BY <1>1, TEEstoreTyped DEF callTEEstorePara
<1> HIDE DEF r
<1>3. r.just \in JustsOver(VoteData) /\ Keeps(F, s, [s EXCEPT !.tp = r.tee])
      BY <1>2, ComponentKeeps
<1>4. QED
      BY <1>3 DEF r

(* A call of the component, a message to others and perhaps its storing.   *)
LEMMA SendStoreKeeps ==
    ASSUME NEW F, NEW s, Sound(F, s), NEW t, NEW R, NEW m \in MessageSets(F),
           Keeps(F, s, [s EXCEPT !.tp = t]), m.type # "prepare_para"
               \/ getLeaderOf(m.rdata.propv) = s.myid
    PROVE  LET u == send([s EXCEPT !.tp = t], R, m)
           IN  /\ Keeps(F, s, u)
               /\ \A k \in VoteSet("precommit_para") : Keeps(F, s, storePcPara(u, k))
               /\ \A k \in VoteSet("commit_para") : Keeps(F, s, storeComPara(u, k))
<1> DEFINE x == [s EXCEPT !.tp = t]
           u == send(x, R, m)
<1> HIDE DEF x
<1>1. Sound(F, x) /\ x.myid = s.myid
      BY DEF x, Keeps, Kept
<1>2. Keeps(F, x, u)
      BY <1>1, SendKeeps, Unbacked
<1> HIDE DEF u
<1>3. Keeps(F, s, u)
      BY <1>2, KeepsOn DEF x
<1>4. Sound(F, u)
      BY <1>3 DEF Keeps
<1>5. ASSUME NEW k \in VoteSet("precommit_para") PROVE Keeps(F, s, storePcPara(u, k))
  <2>1. Keeps(F, u, storePcPara(u, k))
        BY <1>4, StoreKeeps
  <2>2. QED
        BY <1>3, <2>1, KeepsOn
<1>6. ASSUME NEW k \in VoteSet("commit_para") PROVE Keeps(F, s, storeComPara(u, k))
  <2>1. Keeps(F, u, storeComPara(u, k))
        BY <1>4, StoreKeeps
  <2>2. QED
        BY <1>3, <2>1, KeepsOn
<1>7. QED
      BY <1>3, <1>5, <1>6 DEF u, x

(* initiatePreparePara: the leader's certificate.                          *)
LEMMA InitiatePrepareKeeps ==
    ASSUME NEW F, NEW s, Sound(F, s), NEW rdata \in VoteData,
           rdata.propv = s.view, amCurrentLeader(s)
    PROVE  Keeps(F, s, initiatePreparePara(s, rdata))
<1> DEFINE signs == getPara(s.log.prepares, rdata.propv, rdata.seq)
           cert  == Just([rdata EXCEPT !.phase = PREPARE], signs)
           vote  == Just(rdata, signs)
           r     == callTEEstorePara(s, vote)
           m     == MsgPreparePara(cert)
<1>1. signs \in Signatures
      BY GetTyped DEF LogFields
<1>2. initiatePreparePara(s, rdata) =
          storePcPara(send([s EXCEPT !.tp = r.tee], remove_from_peers(s), m),
                      MsgPreCommitPara(r.just))
      BY DEF initiatePreparePara
<1> HIDE DEF signs
<1>3. /\ [rdata EXCEPT !.phase = PREPARE] \in VoteData
      /\ [rdata EXCEPT !.phase = PREPARE].propv = s.view
      BY DEF VoteData, DataOver, Phases, Phase
<1>4. /\ cert \in JustsOver(VoteData) /\ cert.rdata.propv = s.view
      /\ vote \in JustsOver(VoteData)
      BY <1>1, <1>3 DEF Just, JustsOver
<1> HIDE DEF cert, vote
<1>5. m \in MessageSets(F) /\ m.rdata = cert.rdata
      BY <1>4, MessageTyped DEF MsgPreparePara, MsgPara
<1>6. getLeaderOf(m.rdata.propv) = s.myid
      BY <1>4, <1>5 DEF amCurrentLeader, amLeaderOf
<1> HIDE DEF m
<1>7. r.just \in JustsOver(VoteData) /\ Keeps(F, s, [s EXCEPT !.tp = r.tee])
      BY <1>4, CallStoreKeeps
<1> HIDE DEF r
<1>8. MsgPreCommitPara(r.just) \in VoteSet("precommit_para")
      BY <1>7, MessageTyped
<1>9. QED
      BY <1>2, <1>5, <1>6, <1>7, <1>8, SendStoreKeeps

(* initiatePrecommitPara.                                                  *)
LEMMA InitiatePrecommitKeeps ==
    ASSUME NEW F, NEW s, Sound(F, s), NEW rdata \in VoteData
    PROVE  Keeps(F, s, initiatePrecommitPara(s, rdata))
<1> DEFINE signs == getPara(s.log.precommits, rdata.propv, rdata.seq)
           cert  == Just(rdata, signs)
           r     == callTEEstorePara(s, cert)
           m     == MsgPreCommitPara(cert)
<1>1. signs \in Signatures
      BY GetTyped DEF LogFields
<1>2. initiatePrecommitPara(s, rdata) =
          storeComPara(send([s EXCEPT !.tp = r.tee], remove_from_peers(s), m),
                       MsgCommitPara(r.just))
      BY DEF initiatePrecommitPara
<1> HIDE DEF signs
<1>3. cert \in JustsOver(VoteData)
      BY <1>1 DEF Just, JustsOver
<1> HIDE DEF cert
<1>4. m \in MessageSets(F) /\ m.type # "prepare_para"
      BY <1>3, MessageTyped DEF MsgPreCommitPara, MsgPara
<1> HIDE DEF m
<1>5. r.just \in JustsOver(VoteData) /\ Keeps(F, s, [s EXCEPT !.tp = r.tee])
      BY <1>3, CallStoreKeeps
<1> HIDE DEF r
<1>6. MsgCommitPara(r.just) \in VoteSet("commit_para")
      BY <1>5, MessageTyped
<1>7. QED
      BY <1>2, <1>4, <1>5, <1>6, SendStoreKeeps

(* respondToPrepareJustPara, respondToPreCommitJustPara.                   *)
LEMMA RespondKeeps ==
    ASSUME NEW F, NEW s, Sound(F, s), NEW just \in JustsOver(VoteData)
    PROVE  /\ Keeps(F, s, respondToPrepareJustPara(s, just))
           /\ Keeps(F, s, respondToPreCommitJustPara(s, just))
<1> DEFINE r == callTEEstorePara(s, just)
<1>1. r.just \in JustsOver(VoteData) /\ Keeps(F, s, [s EXCEPT !.tp = r.tee])
      BY CallStoreKeeps
<1>2. /\ respondToPrepareJustPara(s, just) =
             send([s EXCEPT !.tp = r.tee], currentLeader(s), MsgPreCommitPara(r.just))
      /\ respondToPreCommitJustPara(s, just) =
             send([s EXCEPT !.tp = r.tee], currentLeader(s), MsgCommitPara(r.just))
      BY DEF respondToPrepareJustPara, respondToPreCommitJustPara
<1> HIDE DEF r
<1>3. /\ MsgPreCommitPara(r.just) \in MessageSets(F)
      /\ MsgCommitPara(r.just) \in MessageSets(F)
      BY <1>1, MessageTyped
<1>4. /\ MsgPreCommitPara(r.just).type # "prepare_para"
      /\ MsgCommitPara(r.just).type # "prepare_para"
      BY DEF MsgPreCommitPara, MsgCommitPara, MsgPara
<1>5. QED
      BY <1>1, <1>2, <1>3, <1>4, SendStoreKeeps

-----------------------------------------------------------------------------
(* Proposals.                                                              *)

(* What a vote for a proposal needs.                                       *)
Verified(s, just) ==
    EqualsReturns = {FALSE} =>
        /\ s.verifiedJust.set
        /\ s.verifiedJust.rdata.propv = just.rdata.propv
        /\ s.verifiedJust.rdata.justv = just.rdata.justv
        /\ s.verifiedJust.rdata.justh = just.rdata.justh

(* respondToProposalPara.                                                  *)
LEMMA RespondToProposalKeeps ==
    ASSUME NEW F, NEW s, Sound(F, s), NEW just \in JustsOver(AnyData),
           NEW block \in BlocksIn(F, s.view), Verified(s, just)
    PROVE  Keeps(F, s, respondToProposalPara(s, just, block))
<1> DEFINE r  == TEEprepare(s.myid, s.tp, block, just)
           m  == MsgPreparePara(r.just)
           s1 == [s EXCEPT !.tp = r.tee]
           s2 == storeBlock(s1, block)
           u  == send(s2, currentLeader(s), m)
           z  == respondToProposalPara(s, just, block)
<1>1. z = s \/ (r.just.set /\ z = u)
      BY DEF respondToProposalPara
<1> HIDE DEF z
<1>2. s.myid \in PID /\ s.tp \in ComponentSet /\ block \in AnyBlock
      BY SoundParts DEF BlocksIn
<1>3. /\ r.tee \in ComponentSet
      /\ r.tee.view = s.tp.view /\ r.tee.phase = s.tp.phase
      /\ r.just \in JustsOver(VoteData)
      /\ r.just.set => /\ s.tp.view = just.rdata.propv
                       /\ r.just.rdata.propv = s.tp.view
                       /\ r.just.rdata.justh = just.rdata.justh
                       /\ r.just.rdata.justv = just.rdata.justv
      BY <1>2, TEEprepareTyped
<1> HIDE DEF r
<1>4. m \in MessageSets(F) /\ m.rdata = r.just.rdata
      BY <1>3, MessageTyped DEF MsgPreparePara, MsgPara
<1> HIDE DEF m
<1>5. r.just.set => Backed(s.myid, s.verifiedJust, m)
      BY <1>3, <1>4 DEF Verified, Backed
<1>6. Keeps(F, s, s1)
      BY <1>3, ComponentKeeps
<1> HIDE DEF s1
<1>7. Sound(F, s1) /\ s1.view = s.view /\ s1.myid = s.myid
          /\ s1.verifiedJust = s.verifiedJust
      BY <1>6 DEF Keeps, Kept
<1>8. Keeps(F, s1, s2)
      BY <1>7, StoreBlockKeeps
<1> HIDE DEF s2
<1>9. Keeps(F, s, s2)
      BY <1>6, <1>8, KeepsOn
<1>10. Sound(F, s2) /\ s2.myid = s.myid /\ s2.verifiedJust = s.verifiedJust
       BY <1>9 DEF Keeps, Kept
<1>11. r.just.set => Keeps(F, s2, u)
       BY <1>4, <1>5, <1>10, SendKeeps
<1> HIDE DEF u
<1>12. Keeps(F, s, z)
       BY <1>1, <1>9, <1>11, KeepsOn
<1>13. QED
       BY <1>12 DEF z

(* Just::operator==, if it returns false where it has no return statement. *)
LEMMA EqualsFact ==
    ASSUME NEW j \in JustsOver(AnyData), NEW k \in JustsOver(AnyData),
           NEW unset \in EqualsReturns, equals(j, k, unset),
           EqualsReturns = {FALSE}
    PROVE  /\ k.set <=> j.set
           /\ k.rdata.propv = j.rdata.propv /\ k.rdata.justv = j.rdata.justv
           /\ k.rdata.justh = j.rdata.justh
<1> DEFINE jd == j.rdata
           kd == k.rdata
           x == [jd EXCEPT !.proph = Genesis, !.justh = Genesis]
           y == [kd EXCEPT !.proph = Genesis, !.justh = Genesis]
<1>1. j.signs = k.signs /\ j.set = k.set /\ SameHash(jd.justh, kd.justh) /\ x = y
      BY DEF equals
<1>2. jd \in AnyData /\ kd \in AnyData
      BY DEF JustsOver
<1> HIDE DEF jd, kd
<1>3. jd.justh \in Chain /\ kd.justh \in Chain
      BY <1>2 DEF AnyData, DataOver
<1>4. jd.justh = kd.justh
      BY <1>1, <1>3, DataFact DEF SameHash
<1>5. /\ x.propv = jd.propv /\ x.justv = jd.justv
      /\ y.propv = kd.propv /\ y.justv = kd.justv
      BY <1>2 DEF AnyData, DataOver
<1> HIDE DEF x, y
<1>6. kd.propv = jd.propv /\ kd.justv = jd.justv
      BY <1>1, <1>5
<1>7. QED
      BY <1>1, <1>4, <1>6 DEF jd, kd

(* handleLdrPreparePara.                                                   *)
LEMMA HandleLdrPrepareKeeps ==
    ASSUME NEW F, NEW s, Sound(F, s), NEW m \in ProposalSet(F),
           NEW unset \in EqualsReturns
    PROVE  Keeps(F, s, handleLdrPreparePara(s, m, unset))
<1> DEFINE rdata == m.just.rdata
           z == handleLdrPreparePara(s, m, unset)
           a == storePropPara(s, m)
           b == respondToProposalPara(s, m.just, m.block)
<1>1. \/ z = s
      \/ z = a
      \/ /\ ~(rdata.propv < s.view) /\ ~(rdata.propv > s.view)
         /\ equals(m.just, s.verifiedJust, unset)
         /\ z = b
      BY DEF handleLdrPreparePara
<1> HIDE DEF z
<1>2. /\ m.just \in JustsOver(AnyData) /\ m.just.set
      /\ m.block \in BlocksIn(F, rdata.propv)
      BY DEF ProposalSet
<1>3. rdata.propv \in Int /\ s.view \in Int
  <2>1. rdata.propv \in Views
        BY <1>2 DEF JustsOver, AnyData, DataOver
  <2>2. s.view \in Views
        BY SoundParts
  <2>3. QED
        BY <2>1, <2>2, DataFact DEF Views
<1> HIDE DEF rdata
<1>4. Keeps(F, s, a)
      BY StoreKeeps
<1> HIDE DEF a
<1>5. ASSUME rdata.propv = s.view, equals(m.just, s.verifiedJust, unset)
      PROVE  Keeps(F, s, b)
  <2>1. m.block \in BlocksIn(F, s.view)
        BY <1>2, <1>5
  <2>2. s.verifiedJust \in JustsOver(AnyData)
        BY SoundParts
  <2>3. Verified(s, m.just)
        BY <1>2, <1>5, <2>2, EqualsFact DEF Verified
  <2>4. QED
        BY <1>2, <2>1, <2>3, RespondToProposalKeeps
<1> HIDE DEF b
<1>6. Keeps(F, s, z)
      BY <1>1, <1>3, <1>4, <1>5, KeepsOn
<1>7. QED
      BY <1>6 DEF z

-----------------------------------------------------------------------------
(* Messages that arrived earlier.                                          *)

(* firstProposal returns a stored proposal, if any.                        *)
LEMMA FirstProposalTyped ==
    ASSUME NEW F, NEW s, Sound(F, s), NEW v, NEW i
    PROVE  \A m \in firstProposal(ForSeq(s.log.proposals, v, i), v) : m \in ProposalSet(F)
<1> DEFINE here == ForSeq(s.log.proposals, v, i)
<1>1. "proposals" \in LogFields /\ LoggedSet(F, "proposals") = ProposalSet(F)
      BY DEF LogFields, LoggedSet
<1>2. /\ IsFiniteSet(s.log.proposals)
      /\ \A x \in s.log.proposals : x \in ProposalSet(F) /\ Signed(x)
      BY <1>1, SoundParts, LogSigned
<1>3. here \subseteq s.log.proposals /\ IsFiniteSet(here) /\ InView(here, v) = here
      BY <1>2, ForSeqFact
<1>4. firstProposal(here, v) = IF here = {} THEN {} ELSE {FirstMsg(here)}
      BY <1>3 DEF firstProposal
<1> HIDE DEF here
<1>5. here # {} => FirstMsg(here) \in here
      BY <1>2, <1>3, FirstMsgFact
<1>6. \A m \in firstProposal(here, v) : m \in ProposalSet(F)
      BY <1>2, <1>3, <1>4, <1>5
<1>7. QED
      BY <1>6 DEF here

(* One turn of the loop of handleEarlierMessagesPara.                      *)
LEMMA CatchUpKeeps ==
    ASSUME NEW F \in Ledgers, NEW s, Sound(F, s), NEW seq \in SeqNumbers,
           NEW unset \in EqualsReturns
    PROVE  Keeps(F, s, catchUpSeq(s, seq, unset))
<1> DEFINE v         == s.view
           prepared  == firstPara(s.log.prepares, v, seq)
           locked    == firstPara(s.log.precommits, v, seq)
           proposal  == firstProposal(ForSeq(s.log.proposals, v, seq), v)
           committed == respondToPreCommitJustPara(s, locked)
           a         == executeCommitted(committed, seq)
           b         == respondToPrepareJustPara(s, prepared)
           c         == handleLdrPreparePara(s, CHOOSE m \in proposal : TRUE, unset)
           z         == catchUpSeq(s, seq, unset)
           P         == Cardinality(getPara(s.log.precommits, v, seq)) = QSize
           Q         == Cardinality(getPara(s.log.prepares, v, seq)) = QSize
<1>1. \/ P /\ z = a
      \/ P /\ z = committed
      \/ Q /\ z = b
      \/ proposal # {} /\ z = c
      \/ z = s
      BY DEF catchUpSeq
<1> HIDE DEF z
<1>2. IsFiniteSet(s.log.precommits) /\ IsFiniteSet(s.log.prepares)
      BY SoundParts DEF LogFields
<1>3. P => ForSeq(s.log.precommits, v, seq) # {}
      BY <1>2, QuorumOfSome
<1>4. Q => ForSeq(s.log.prepares, v, seq) # {}
      BY <1>2, QuorumOfSome
<1>5. \A m \in proposal : m \in ProposalSet(F)
      BY FirstProposalTyped
<1> HIDE DEF P, Q, v, proposal
<1>6. P => locked \in VotesFor(seq)
      BY <1>3, FirstVotes
<1>7. Q => prepared \in VotesFor(seq)
      BY <1>4, FirstVotes
<1> HIDE DEF locked, prepared
<1>8. P => Keeps(F, s, committed)
      BY <1>6, RespondKeeps DEF VotesFor
<1>9. Q => Keeps(F, s, b)
      BY <1>7, RespondKeeps DEF VotesFor
<1>10. proposal # {} => Keeps(F, s, c)
  <2> DEFINE m == CHOOSE m \in proposal : TRUE
  <2>1. proposal # {} => m \in proposal
        OBVIOUS
  <2> HIDE DEF m
  <2>2. proposal # {} => m \in ProposalSet(F)
        BY <1>5, <2>1
  <2>3. proposal # {} => Keeps(F, s, handleLdrPreparePara(s, m, unset))
        BY <2>2, HandleLdrPrepareKeeps
  <2>4. QED
        BY <2>3 DEF m
<1> HIDE DEF committed, b, c
<1>11. P => Keeps(F, s, a)
  <2>1. seq \in Numbers
        BY DataFact
  <2>2. P => Sound(F, committed)
        BY <1>8 DEF Keeps
  <2>3. P => Keeps(F, committed, a)
        BY <2>1, <2>2, ExecuteCommittedKeeps
  <2> HIDE DEF a
  <2>4. QED
        BY <1>8, <2>3, KeepsOn
<1> HIDE DEF a
<1>12. Keeps(F, s, z)
       BY <1>1, <1>8, <1>9, <1>10, <1>11, KeepsOn
<1>13. QED
       BY <1>12 DEF z

(* handleEarlierMessagesPara: a replica catches up.                        *)
LEMMA CatchUpAllKeeps ==
    ASSUME NEW F \in Ledgers, NEW s, Sound(F, s), NEW unset \in EqualsReturns,
           ~amCurrentLeader(s), s.verifiedJust.rdata.propv = s.view
    PROVE  Keeps(F, s, handleEarlierMessagesPara(s, unset))
<1> DEFINE seq == [k \in SeqNumbers |-> k]
           n   == MaxBlocksInView
<1>1. PICK f : /\ IsLoop("catchUp", unset, s, seq, n, f)
               /\ handleEarlierMessagesPara(s, unset) = f[SeqNumbers]
      BY CatchUpLoop
<1>2. n \in Nat /\ SeqNumbers = 1 .. n /\ \A k \in 1 .. n : seq[k] = k
      BY DataFact DEF SeqNumbers
<1> HIDE DEF seq, n
<1>3. /\ f[1 .. 0] = s
      /\ \A k \in 1 .. n : f[1 .. k] = Turn("catchUp", unset, f[1 .. k - 1], seq[k])
  <2>1. n \in Nat
        BY <1>2
  <2>2. IsLoop("catchUp", unset, s, seq, n, f)
        BY <1>1
  <2>3. Unrolled("catchUp", unset, s, seq, n, f)
        BY <2>1, <2>2, LoopTurns
  <2>4. QED
        BY <2>3 DEF Unrolled
<1> DEFINE Good(acc) == Keeps(F, s, acc)
           Bad       == {k \in Nat : k <= n /\ ~Good(f[1 .. k])}
<1>4. Good(f[1 .. 0])
      BY <1>3, KeepsOn
<1>5. ASSUME NEW acc, Good(acc), NEW k \in 1 .. n
      PROVE  Good(Turn("catchUp", unset, acc, seq[k]))
  <2> DEFINE u == catchUpSeq(acc, k, unset)
  <2>1. Turn("catchUp", unset, acc, seq[k]) = u
        BY <1>2 DEF Turn
  <2>2. Sound(F, acc) /\ k \in SeqNumbers
        BY <1>2, <1>5 DEF Keeps
  <2>3. Keeps(F, acc, u)
        BY <2>2, CatchUpKeeps
  <2> HIDE DEF u
  <2>4. QED
        BY <1>5, <2>1, <2>3, KeepsOn
<1> HIDE DEF Good
<1>6. Bad = {}
  <2>1. SUFFICES ASSUME Bad # {} PROVE FALSE
        OBVIOUS
  <2>2. PICK k \in Bad : \A j \in Bad : k <= j
        BY <2>1, LeastNatural
  <2>3. k \in Nat /\ k <= n /\ ~Good(f[1 .. k])
        BY <2>2
  <2>4. k # 0
        BY <1>4, <2>3
  <2>5. k - 1 \in Nat /\ k - 1 <= n /\ k - 1 \notin Bad /\ k \in 1 .. n
        BY <1>2, <2>2, <2>3, <2>4
  <2>6. Good(f[1 .. k - 1])
        BY <2>5
  <2>7. Good(f[1 .. k])
        BY <1>3, <1>5, <2>5, <2>6
  <2>8. QED
        BY <2>3, <2>7
<1>7. Good(f[1 .. n])
      BY <1>2, <1>6
<1>8. QED
      BY <1>1, <1>2, <1>7 DEF Good

(* A quorum of signatures is not from nowhere.                             *)
LEMMA NewViewsOfSome ==
    ASSUME NEW msgs, NEW v, Cardinality(get(msgs, v, QSize)) = QSize
    PROVE  InView(msgs, v) # {}
<1>1. SUFFICES ASSUME InView(msgs, v) = {} PROVE FALSE
      OBVIOUS
<1>2. get(msgs, v, QSize) = {}
      BY <1>1, GetFact
<1>3. Cardinality(get(msgs, v, QSize)) = 0
      BY <1>2, FS_EmptySet
<1>4. QED
      BY <1>3, QuorumSizes

(* handleEarlierMessagesPara.                                              *)
LEMMA EarlierLeads ==
    ASSUME NEW F \in Ledgers, NEW s, Sound(F, s), NEW unset \in EqualsReturns
    PROVE  Leads(F, s, handleEarlierMessagesPara(s, unset))
<1> DEFINE just == findHighestNvPara(s, s.view)
           s1   == touch(s, just.rdata.justv)
           a    == initiateVerifyPara(s1, just)
           b    == initiateRecoverPara(s1, just)
           Q    == Cardinality(get(s.log.newviews, s.view, QSize)) = QSize
           z    == handleEarlierMessagesPara(s, unset)
<1>1. \/ z = s
      \/ Q /\ z = a
      \/ Q /\ z = b
      \/ ~amCurrentLeader(s) /\ s.verifiedJust.rdata.propv = s.view
      BY Zenon DEF handleEarlierMessagesPara
<1>2. ~amCurrentLeader(s) /\ s.verifiedJust.rdata.propv = s.view => Keeps(F, s, z)
      BY CatchUpAllKeeps
<1> HIDE DEF z
<1>3. Q => just \in JustsOver(AnyData) /\ just.set
      BY NewViewsOfSome, HighestNvTyped
<1> HIDE DEF Q, just
<1>4. Keeps(F, s, s1)
      BY TouchKeeps
<1> HIDE DEF s1
<1>5. Sound(F, s1)
      BY <1>4 DEF Keeps
<1>6. Q => Leads(F, s, a)
  <2>1. Q => Leads(F, s1, a)
        BY <1>3, <1>5, InitiateVerifyLeads
  <2> HIDE DEF a
  <2>2. QED
        BY <1>4, <2>1, LeadsOn
<1>7. Q => Leads(F, s, b)
  <2>1. Q => Keeps(F, s1, b)
        BY <1>3, <1>5, InitiateRecoverKeeps
  <2> HIDE DEF b
  <2>2. QED
        BY <1>4, <2>1, KeepsOn, LeadsOn
<1> HIDE DEF a, b
<1>8. Leads(F, s, s)
      BY KeepsOn, LeadsOn
<1>9. Leads(F, s, z)
      BY <1>1, <1>2, <1>6, <1>7, <1>8, LeadsOn
<1>10. QED
       BY <1>9 DEF z

-----------------------------------------------------------------------------
(* Changing the view.                                                      *)

(* What a call that may change the view leaves alone.                      *)
Moved(s, u) ==
    /\ u.myid = s.myid /\ u.verifiedJust = s.verifiedJust
    /\ Speaks(s.myid, s.verifiedJust, s.out, u.out)

Ends(F, s, u) == \E G \in Ledgers : Grows(F, G, s.myid) /\ Sound(G, u) /\ Moved(s, u)

(* Such calls follow each other, and others.                               *)
LEMMA EndsOn ==
    /\ \A F \in Ledgers : \A s, u : Sound(F, u) /\ Moved(s, u) => Ends(F, s, u)
    /\ \A F, s, u : Leads(F, s, u) => Ends(F, s, u)
    /\ \A F \in Ledgers : \A s, u, w : Moved(s, u) /\ Ends(F, u, w) => Ends(F, s, w)
    /\ \A F, s, u, w : \A G \in Ledgers :
           Grows(F, G, s.myid) /\ Moved(s, u) /\ Ends(G, u, w) => Ends(F, s, w)
    /\ \A s, u : Kept(s, u) => Moved(s, u)
<1>1. \A s, u : Kept(s, u) => Moved(s, u)
      BY DEF Kept, Moved
<1>2. \A F, s, u : Leads(F, s, u) => Ends(F, s, u)
      BY <1>1 DEF Leads, Ends, Keeps
<1>3. \A F \in Ledgers : \A s, u : Sound(F, u) /\ Moved(s, u) => Ends(F, s, u)
      BY GrowsOn DEF Ends
<1>4. ASSUME NEW s, NEW u, NEW w, Moved(s, u), Moved(u, w)
      PROVE  Moved(s, w)
  <2>1. Speaks(s.myid, s.verifiedJust, s.out, w.out)
        BY <1>4 DEF Moved, Speaks
  <2>2. QED
        BY <1>4, <2>1 DEF Moved
<1>5. ASSUME NEW F, NEW s, NEW u, NEW w, NEW G \in Ledgers,
             Grows(F, G, s.myid), Moved(s, u), Ends(G, u, w)
      PROVE  Ends(F, s, w)
  <2>1. PICK H \in Ledgers : Grows(G, H, u.myid) /\ Sound(H, w) /\ Moved(u, w)
        BY <1>5 DEF Ends
  <2>2. u.myid = s.myid
        BY <1>5 DEF Moved
  <2>3. Grows(F, H, s.myid)
        BY <1>5, <2>1, <2>2, GrowsOn
  <2>4. QED
        BY <1>4, <1>5, <2>1, <2>3 DEF Ends
<1>6. \A F \in Ledgers : \A s, u, w : Moved(s, u) /\ Ends(F, u, w) => Ends(F, s, w)
      BY <1>5, GrowsOn
<1>7. QED
      BY <1>1, <1>2, <1>3, <1>5, <1>6

(* changeView, to a later view.                                            *)
LEMMA ChangeViewMoves ==
    ASSUME NEW F \in Ledgers, NEW s, Sound(F, s), s.pending # "startNewViewPara",
           NEW w, NEW t, NEW v \in Views, s.view < v,
           /\ DOMAIN w = Fields /\ w.myid = s.myid /\ w.view = s.view
           /\ w.started = s.started /\ w.pending = s.pending /\ w.tp = t
           /\ w.verifiedJust = s.verifiedJust
           /\ w.lastExecutedSeq = s.lastExecutedSeq /\ w.log = s.log
           /\ w.pblocks = s.pblocks /\ w.out = s.out
           /\ w.transactions = s.transactions /\ w.fromClient = s.fromClient
           /\ w.replied = s.replied /\ w.executed = s.executed,
           changeViewTo(t, v) \in ComponentSet, changeViewTo(t, v).view = v,
           changeViewTo(t, v).phase = NEWVIEW
    PROVE  LET u == changeView(w, v)
           IN  /\ Sound(F, u) /\ Moved(s, u) /\ u.out = s.out
               /\ u.view = v /\ u.log = s.log
<1> DEFINE c == changeViewTo(t, v)
           x == [w EXCEPT !.tp = changeViewTo(@, v), !.view = v, !.lastExecutedSeq = 0]
           b == resize(s, v).pblocks
           y == resize(x, v)
           u == [y EXCEPT !.timer = TRUE]
<1>1. changeView(w, v) = u
      BY DEF changeView, setTimer
<1>2. /\ DOMAIN x = Fields /\ x.myid = s.myid /\ x.view = v
      /\ x.started = s.started /\ x.pending = s.pending /\ x.tp = c
      /\ x.verifiedJust = s.verifiedJust /\ x.lastExecutedSeq = 0
      /\ x.log = s.log /\ x.pblocks = s.pblocks /\ x.out = s.out
      /\ x.transactions = s.transactions /\ x.fromClient = s.fromClient
      /\ x.replied = s.replied /\ x.executed = s.executed
      BY DEF Fields
<1> HIDE DEF x, c
<1>3. \/ blocksOf(x, v) = <<>> /\ y = [x EXCEPT !.pblocks = assign(@, v, NoBlocks)]
      \/ blocksOf(x, v) # <<>> /\ y = x
      BY DEF resize
<1>4. \/ blocksOf(s, v) = <<>> /\ b = assign(s.pblocks, v, NoBlocks)
      \/ blocksOf(s, v) # <<>> /\ b = s.pblocks
  <2>1. DOMAIN s = Fields
        BY DEF Sound
  <2>2. QED
        BY <2>1 DEF resize, Fields
<1>5. blocksOf(x, v) = blocksOf(s, v)
      BY <1>2 DEF blocksOf
<1>6. /\ DOMAIN y = Fields /\ y.myid = x.myid /\ y.view = x.view
      /\ y.started = x.started /\ y.pending = x.pending /\ y.tp = x.tp
      /\ y.verifiedJust = x.verifiedJust
      /\ y.lastExecutedSeq = x.lastExecutedSeq /\ y.log = x.log
      /\ y.pblocks = b /\ y.out = x.out /\ y.transactions = x.transactions
      /\ y.fromClient = x.fromClient /\ y.replied = x.replied
      /\ y.executed = x.executed
      BY <1>2, <1>3, <1>4, <1>5 DEF Fields
<1>7. SlotsSound(F, v, b)
  <2>1. /\ v \in DOMAIN b /\ b[v] \in SlotsIn(F, v)
        /\ Sound(F, resize(s, v))
        BY ResizeKeeps DEF Keeps
  <2>2. b[v] # <<>>
        BY <2>1, SlotsFact
  <2>3. QED
        BY <2>1, <2>2 DEF Sound, SlotsSound
<1> HIDE DEF b, y
<1>8. /\ DOMAIN u = Fields /\ u.myid = s.myid /\ u.view = v
      /\ u.started = s.started /\ u.pending = s.pending /\ u.tp = c
      /\ u.verifiedJust = s.verifiedJust /\ u.lastExecutedSeq = 0
      /\ u.log = s.log /\ u.pblocks = b /\ u.out = s.out
      /\ u.transactions = s.transactions /\ u.fromClient = s.fromClient
      /\ u.replied = s.replied /\ u.executed = s.executed
      BY <1>2, <1>6 DEF Fields
<1> HIDE DEF u
<1>9. s.view \in Int /\ v \in Int
  <2>1. s.view \in Views
        BY SoundParts
  <2>2. QED
        BY <2>1, DataFact DEF Views
<1>10. Done(F, v, 0, s.replied)
  <2>1. /\ s.replied \in Transactions /\ IsInjective(s.replied)
        /\ \A i \in Range(s.replied) :
               F[i].seq # 0 /\ (F[i].view < s.view \/ F[i].view = s.view)
        BY DEF Sound, Done
  <2>2. \A i \in Range(s.replied) : i \in Txs
        BY <2>1 DEF Transactions, Range
  <2>3. \A i \in Range(s.replied) : F[i].view \in Int
        BY <2>2, DataFact DEF Ledgers, Views
  <2>4. \A i \in Range(s.replied) : F[i].view < v
        BY <1>9, <2>1, <2>3
  <2>5. QED
        BY <2>1, <2>4 DEF Done
<1>11. InOrder(v, 0, s.executed)
  <2> DEFINE e == s.executed[Len(s.executed)]
  <2>1. Len(s.executed) # 0 => e.view < s.view \/ e.view = s.view
        BY DEF Sound, InOrder
  <2>2. s.executed \in Seq(Entries)
        BY DEF Sound, InOrder
  <2>3. Len(s.executed) # 0 => e \in Entries
        BY <2>2
  <2>4. Len(s.executed) # 0 => e.view \in Int
        BY <2>3, DataFact DEF Entries, Views
  <2>5. Len(s.executed) # 0 => e.view < v
        BY <1>9, <2>1, <2>4
  <2>6. QED
        BY <2>5 DEF Sound, InOrder
<1>12. Located(v, c, s.started, s.pending)
       BY DEF Located, c
<1>13. 0 \in Numbers
       BY DataFact
<1>14. Sound(F, u)
       BY <1>7, <1>8, <1>10, <1>11, <1>12, <1>13 DEF Sound
<1>15. Moved(s, u)
       BY <1>8 DEF Moved, Speaks
<1>16. QED
       BY <1>1, <1>8, <1>14, <1>15

(* startRecoverOrVerify.                                                   *)
LEMMA StartRecoverLeads ==
    ASSUME NEW F \in Ledgers, NEW s, Sound(F, s), NEW force,
           InView(s.log.newviews, s.view) # {}
    PROVE  Leads(F, s, startRecoverOrVerify(s, force))
<1> DEFINE just  == findHighestNvPara(s, s.view)
           justv == just.rdata.justv
           s1    == touch(s, justv)
           s2    == [s1 EXCEPT !.pblocks[justv] = NoBlocks]
           a     == initiateVerifyPara(s1, just)
           b     == initiateRecoverPara(s1, just)
           c     == initiateRecoverPara(s2, just)
           z     == startRecoverOrVerify(s, force)
<1>1. z = a \/ z = b \/ z = c
      BY DEF startRecoverOrVerify
<1> HIDE DEF z
<1>2. just \in JustsOver(AnyData) /\ just.set
      BY HighestNvTyped
<1> HIDE DEF just, justv
<1>3. Keeps(F, s, s1)
      BY TouchKeeps
<1> HIDE DEF s1
<1>4. Sound(F, s1)
      BY <1>3 DEF Keeps
<1>5. NoBlocks \in SlotsIn(F, justv)
      BY SlotsFact
<1>6. Keeps(F, s1, s2)
      BY <1>4, <1>5, FillKeeps
<1> HIDE DEF s2
<1>7. Keeps(F, s, s2) /\ Sound(F, s2)
      BY <1>3, <1>6, KeepsOn DEF Keeps
<1>8. Leads(F, s, a)
  <2>1. Leads(F, s1, a)
        BY <1>2, <1>4, InitiateVerifyLeads
  <2> HIDE DEF a
  <2>2. QED
        BY <1>3, <2>1, LeadsOn
<1>9. Keeps(F, s1, b) /\ Keeps(F, s2, c)
      BY <1>2, <1>4, <1>7, InitiateRecoverKeeps
<1> HIDE DEF a, b, c
<1>10. Leads(F, s, z)
       BY <1>1, <1>3, <1>7, <1>8, <1>9, KeepsOn, LeadsOn
<1>11. QED
       BY <1>10 DEF z

(* storeNv counts the message, unless the signers were heard from.         *)
LEMMA StoredNewView ==
    ASSUME NEW F, NEW s, Sound(F, s), NEW m \in NewViewSet,
           store(s.log.newviews, m).size = QSize
    PROVE  InView(storeNvPara(s, m).log.newviews, m.rdata.propv) # {}
<1> DEFINE r == store(s.log.newviews, m)
<1>1. storeNvPara(s, m).log.newviews = r.msgs
      BY SoundParts DEF storeNvPara, Fields, LogFields
<1>2. ViewOf(m) = m.rdata.propv
      BY DEF ViewOf, NewViewSet
<1>3. r.size = 0 \/ r.size = Cardinality(InView(r.msgs, ViewOf(m)))
      BY DEF store
<1> HIDE DEF r
<1>4. r.size # 0
      BY QuorumSizes DEF r
<1>5. InView(r.msgs, m.rdata.propv) # {}
      BY <1>2, <1>3, <1>4, FS_EmptySet
<1>6. QED
      BY <1>1, <1>5

(* handleNewViewPara.                                                      *)
LEMMA HandleNewViewEnds ==
    ASSUME NEW F \in Ledgers, NEW s, Sound(F, s), NEW m \in NewViewSet, NEW force,
           s.view < m.rdata.propv => s.pending # "startNewViewPara"
    PROVE  Ends(F, s, handleNewViewPara(s, m, force))
<1> DEFINE v  == m.rdata.propv
           s1 == storeNvPara(s, m)
           t  == TEEsign(s.myid, s1.tp).tee
           s2 == [s1 EXCEPT !.tp = t]
           s3 == changeView(s2, v)
           a  == startRecoverOrVerify(s1, force)
           b  == startRecoverOrVerify(s3, force)
           Q  == store(s.log.newviews, m).size = QSize
           z  == handleNewViewPara(s, m, force)
<1>1. \/ z = s
      \/ z = s1
      \/ Q /\ ~(v < s.view) /\ ~(v > s.view) /\ z = a
      \/ Q /\ v > s.view /\ z = b
  <2>1. s1.myid = s.myid
        BY StoreKeeps DEF Keeps, Kept
  <2>2. QED
        BY <2>1 DEF handleNewViewPara
<1> HIDE DEF z
<1>2. v \in Views /\ s.view \in Views
      BY SoundParts DEF NewViewSet, AnyData, DataOver
<1>3. v \in Int /\ s.view \in Int
      BY <1>2, DataFact DEF Views
<1>4. Keeps(F, s, s1)
      BY StoreKeeps
<1>5. Q => InView(s1.log.newviews, v) # {}
      BY StoredNewView
<1>6. s1.pending = s.pending
      BY SoundParts DEF storeNvPara, Fields
<1> HIDE DEF s1, Q, v
<1>7. /\ Sound(F, s1) /\ s1.view = s.view /\ s1.myid = s.myid /\ s1.myid \in PID
      /\ s1.tp \in ComponentSet /\ DOMAIN s1 = Fields /\ Moved(s, s1)
      BY <1>4, SoundParts, EndsOn DEF Keeps, Kept
<1>8. ASSUME Q, v = s.view PROVE Ends(F, s, a)
  <2>1. Leads(F, s1, a)
        BY <1>5, <1>7, <1>8, StartRecoverLeads
  <2> HIDE DEF a
  <2>2. QED
        BY <1>4, <2>1, LeadsOn, EndsOn
<1>9. ASSUME Q, s.view < v PROVE Ends(F, s, b)
  <2>1. /\ changeViewTo(t, v) \in ComponentSet /\ changeViewTo(t, v).view = v
        /\ changeViewTo(t, v).phase = NEWVIEW
        BY <1>2, <1>7, TEEsignTyped
  <2> HIDE DEF t
  <2>2. /\ DOMAIN s2 = Fields /\ s2.myid = s1.myid /\ s2.view = s1.view
        /\ s2.started = s1.started /\ s2.pending = s1.pending /\ s2.tp = t
        /\ s2.verifiedJust = s1.verifiedJust
        /\ s2.lastExecutedSeq = s1.lastExecutedSeq /\ s2.log = s1.log
        /\ s2.pblocks = s1.pblocks /\ s2.out = s1.out
        /\ s2.transactions = s1.transactions /\ s2.fromClient = s1.fromClient
        /\ s2.replied = s1.replied /\ s2.executed = s1.executed
        BY <1>7 DEF Fields
  <2> HIDE DEF s2
  <2>3. s1.pending # "startNewViewPara" /\ s1.view < v
        BY <1>6, <1>7, <1>9 DEF v
  <2>4. /\ Sound(F, s3) /\ Moved(s1, s3)
        /\ s3.view = v /\ s3.log = s1.log
        BY <1>2, <1>7, <2>1, <2>2, <2>3, ChangeViewMoves
  <2> HIDE DEF s3
  <2>5. Leads(F, s3, b)
        BY <1>5, <1>9, <2>4, StartRecoverLeads
  <2> HIDE DEF b
  <2>6. Ends(F, s1, b)
        BY <2>4, <2>5, EndsOn
  <2>7. QED
        BY <1>7, <2>6, EndsOn
<1> HIDE DEF a, b
<1>10. Ends(F, s, s) /\ Ends(F, s, s1)
       BY <1>7, KeepsOn, EndsOn DEF Keeps
<1>11. Ends(F, s, z)
       BY <1>1, <1>3, <1>8, <1>9, <1>10
<1>12. QED
       BY <1>11 DEF z

(* startNewViewPara.                                                       *)
LEMMA StartNewViewEnds ==
    ASSUME NEW F \in Ledgers, NEW s, Sound(F, s), s.pending # "startNewViewPara",
           ~timeToStop(s), NEW force, NEW unset \in EqualsReturns
    PROVE  Ends(F, s, startNewViewPara(s, force, unset))
<1> DEFINE v  == s.view + 1
           r  == TEEsignPast(s.myid, s.tp, s.view)
           w  == [s EXCEPT !.tp = r.tee]
           s1 == changeView(w, v)
           m  == MsgNewViewPara(r.just)
           a  == handleEarlierMessagesPara(s1, unset)
           b  == handleNewViewPara(a, m, force)
           x  == send(s1, currentLeader(s1), m)
           c  == handleEarlierMessagesPara(x, unset)
           z  == startNewViewPara(s, force, unset)
<1>1. z = s1 \/ z = b \/ z = c
      BY DEF startNewViewPara
<1> HIDE DEF z
<1>2. /\ s.view \in Views /\ s.tp \in ComponentSet /\ s.tp.view = s.view
      /\ s.myid \in PID /\ DOMAIN s = Fields
      BY SoundParts
<1>3. v \in Views /\ s.view < v
      BY <1>2, DataFact DEF Views, timeToStop
<1>4. /\ r.just \in JustsOver(AnyData) /\ r.just.rdata.propv = v
      /\ changeViewTo(r.tee, v) \in ComponentSet
      /\ changeViewTo(r.tee, v).view = v
      /\ changeViewTo(r.tee, v).phase = NEWVIEW
      BY <1>2, <1>3, TEEsignPastTyped
<1> HIDE DEF v, r
<1>5. /\ DOMAIN w = Fields /\ w.myid = s.myid /\ w.view = s.view
      /\ w.started = s.started /\ w.pending = s.pending /\ w.tp = r.tee
      /\ w.verifiedJust = s.verifiedJust
      /\ w.lastExecutedSeq = s.lastExecutedSeq /\ w.log = s.log
      /\ w.pblocks = s.pblocks /\ w.out = s.out
      /\ w.transactions = s.transactions /\ w.fromClient = s.fromClient
      /\ w.replied = s.replied /\ w.executed = s.executed
      BY <1>2 DEF Fields
<1> HIDE DEF w
<1>6. Sound(F, s1) /\ Moved(s, s1) /\ s1.view = v
      BY <1>3, <1>4, <1>5, ChangeViewMoves
<1> HIDE DEF s1
<1>7. /\ m \in NewViewSet /\ m \in MessageSets(F) /\ m.type # "prepare_para"
      /\ m.rdata.propv = v
      BY <1>4, MessageTyped DEF MsgNewViewPara, MsgPara
<1> HIDE DEF m
<1>8. Ends(F, s, s1)
      BY <1>6, EndsOn
<1>9. Ends(F, s, b)
  <2>1. PICK G \in Ledgers : Grows(F, G, s1.myid) /\ Keeps(G, s1, a)
        BY <1>6, EarlierLeads DEF Leads
  <2> HIDE DEF a
  <2>2. Sound(G, a) /\ a.view = v /\ Moved(s1, a)
        BY <1>6, <2>1, EndsOn DEF Keeps, Kept
  <2>3. v \in Int
        BY <1>3, DataFact DEF Views
  <2>4. Ends(G, a, b)
        BY <1>7, <2>2, <2>3, HandleNewViewEnds
  <2> HIDE DEF b
  <2>5. Ends(F, s1, b)
        BY <2>1, <2>2, <2>4, EndsOn
  <2>6. QED
        BY <1>6, <2>5, EndsOn
<1>10. Ends(F, s, c)
  <2>1. Keeps(F, s1, x)
        BY <1>6, <1>7, SendKeeps, Unbacked
  <2> HIDE DEF x
  <2>2. Leads(F, x, c)
        BY <2>1, EarlierLeads DEF Keeps
  <2> HIDE DEF c
  <2>3. Ends(F, s1, c)
        BY <2>1, <2>2, LeadsOn, EndsOn
  <2>4. QED
        BY <1>6, <2>3, EndsOn
<1> HIDE DEF b, c
<1>11. Ends(F, s, z)
       BY <1>1, <1>8, <1>9, <1>10
<1>12. QED
       BY <1>11 DEF z

(* getStartedPara, after MsgStart.                                         *)
LEMMA GetStartedEnds ==
    ASSUME NEW F \in Ledgers, NEW s, Sound(F, s), s.pending # "startNewViewPara",
           ~s.started, NEW force
    PROVE  Ends(F, s, getStartedPara([s EXCEPT !.started = TRUE], force))
<1> DEFINE x == [s EXCEPT !.started = TRUE]
           r == TEEsign(s.myid, s.tp)
           u == [[x EXCEPT !.tp = r.tee] EXCEPT !.timer = TRUE]
           m == MsgNewViewPara(r.just)
           b == handleNewViewPara(u, m, force)
           c == send(u, currentLeader(x), m)
           z == getStartedPara(x, force)
<1>1. /\ s.view \in Views /\ s.tp \in ComponentSet /\ s.tp.view = s.view
      /\ s.myid \in PID /\ DOMAIN s = Fields /\ s.tp.phase = NEWVIEW
      BY SoundParts DEF Sound, Located
<1>2. x.myid = s.myid /\ x.tp = s.tp
      BY <1>1 DEF Fields
<1>3. z = b \/ z = c
      BY <1>2 DEF getStartedPara, setTimer
<1> HIDE DEF z
<1>4. /\ r.tee \in ComponentSet /\ r.tee.view = s.view
      /\ r.just \in JustsOver(AnyData) /\ r.just.rdata.propv = s.view
      BY <1>1, TEEsignTyped
<1> HIDE DEF r
<1>5. /\ DOMAIN u = Fields /\ u.myid = s.myid /\ u.view = s.view
      /\ u.started = TRUE /\ u.pending = s.pending /\ u.tp = r.tee
      /\ u.verifiedJust = s.verifiedJust
      /\ u.lastExecutedSeq = s.lastExecutedSeq /\ u.log = s.log
      /\ u.pblocks = s.pblocks /\ u.out = s.out
      /\ u.transactions = s.transactions /\ u.fromClient = s.fromClient
      /\ u.replied = s.replied /\ u.executed = s.executed
      BY <1>1 DEF Fields
<1> HIDE DEF u
<1>6. Located(u.view, u.tp, u.started, u.pending)
      BY <1>1, <1>4, <1>5 DEF Located
<1>7. Sound(F, u)
      BY <1>5, <1>6 DEF Sound
<1>8. Moved(s, u)
      BY <1>5 DEF Moved, Speaks
<1>9. /\ m \in NewViewSet /\ m \in MessageSets(F) /\ m.type # "prepare_para"
      /\ m.rdata.propv = s.view
      BY <1>4, MessageTyped DEF MsgNewViewPara, MsgPara
<1> HIDE DEF m
<1>10. Ends(F, s, b)
  <2>1. s.view \in Int
        BY <1>1, DataFact DEF Views
  <2>2. Ends(F, u, b)
        BY <1>5, <1>7, <1>9, <2>1, HandleNewViewEnds
  <2> HIDE DEF b
  <2>3. QED
        BY <1>8, <2>2, EndsOn
<1>11. Ends(F, s, c)
  <2>1. Keeps(F, u, c)
        BY <1>7, <1>9, SendKeeps, Unbacked
  <2> HIDE DEF c
  <2>2. QED
        BY <1>8, <2>1, LeadsOn, EndsOn
<1> HIDE DEF b, c
<1>12. Ends(F, s, z)
       BY <1>3, <1>10, <1>11
<1>13. QED
       BY <1>12 DEF z, x

-----------------------------------------------------------------------------
(* Recovery.                                                               *)

(* recoverBlocks.                                                          *)
LEMMA RecoverBlocksKeeps ==
    ASSUME NEW F, NEW s, Sound(F, s), NEW m \in RecoverSet(F)
    PROVE  Keeps(F, s, recoverBlocks(s, m))
<1> DEFINE v   == m.rdata.justv
           s1  == resize(s, v)
           old == s1.pblocks[v]
           new == [i \in SeqNumbers |->
                      IF ~isBlock(old[i]) /\ \E b \in m.blocks : b.seq = i
                      THEN CHOOSE b \in m.blocks : b.seq = i
                      ELSE old[i]]
           u   == [s1 EXCEPT !.pblocks[v] = new]
           z   == recoverBlocks(s, m)
<1>1. z = s \/ z = u
      BY DEF recoverBlocks
<1> HIDE DEF z
<1>2. m.blocks \subseteq BlocksIn(F, v)
      BY DEF RecoverSet
<1>3. Keeps(F, s, s1) /\ old \in SlotsIn(F, v)
      BY ResizeKeeps
<1> HIDE DEF s1, old
<1>4. ASSUME NEW i \in SeqNumbers
      PROVE  new[i] \in AnyBlock \cup {NoPBlock}
                 /\ (new[i] = NoPBlock \/ (new[i] \in BlocksIn(F, v) /\ new[i].seq = i))
  <2>1. CASE \E b \in m.blocks : b.seq = i /\ new[i] = b
        BY <1>2, <2>1 DEF BlocksIn
  <2>2. CASE new[i] = old[i]
        BY <1>3, <2>2 DEF SlotsIn
  <2>3. QED
        BY <2>1, <2>2
<1>5. new \in SlotsIn(F, v)
      BY <1>4 DEF SlotsIn
<1> HIDE DEF new
<1>6. Keeps(F, s1, u)
      BY <1>3, <1>5, FillKeeps DEF Keeps
<1> HIDE DEF u
<1>7. Keeps(F, s, z)
      BY <1>1, <1>3, <1>6, KeepsOn
<1>8. QED
      BY <1>7 DEF z

(* restartFromVerified.                                                    *)
LEMMA RestartLeads ==
    ASSUME NEW F \in Ledgers, NEW s, Sound(F, s)
    PROVE  Leads(F, s, restartFromVerified(s))
<1> DEFINE j    == s.verifiedJust
           d    == [j.rdata EXCEPT !.proph = Genesis, !.propv = s.view]
           just == Just(d, j.signs)
           m    == MsgVerifyPara(just, <<>>)
           x    == send(s, remove_from_peers(s), m)
           a    == preparePara(x, just)
           z    == restartFromVerified(s)
<1>1. z = s \/ z = a
      BY DEF restartFromVerified
<1> HIDE DEF z
<1>2. j \in JustsOver(AnyData) /\ s.view \in Views
      BY SoundParts
<1> HIDE DEF j
<1>3. d \in AnyData
  <2>1. j.rdata \in AnyData
        BY <1>2 DEF JustsOver
  <2>2. Genesis \in Hashes
        BY DataFact
  <2>3. QED
        BY <1>2, <2>1, <2>2 DEF AnyData, DataOver
<1> HIDE DEF d
<1>4. just \in JustsOver(AnyData) /\ just.set
      BY <1>2, <1>3 DEF Just, JustsOver
<1> HIDE DEF just
<1>5. <<>> \in Seq(Chain)
      OBVIOUS
<1>6. m \in MessageSets(F) /\ m.type # "prepare_para"
      BY <1>4, <1>5, MessageTyped DEF VerifySet
<1> HIDE DEF m
<1>7. Keeps(F, s, x)
      BY <1>6, SendKeeps, Unbacked
<1> HIDE DEF x
<1>8. Leads(F, x, a)
      BY <1>4, <1>7, PrepareLeads DEF Keeps
<1> HIDE DEF a
<1>9. Leads(F, s, z)
      BY <1>1, <1>7, <1>8, KeepsOn, LeadsOn
<1>10. QED
       BY <1>9 DEF z

(* handleRecoverPara.                                                      *)
LEMMA HandleRecoverLeads ==
    ASSUME NEW F \in Ledgers, NEW s, Sound(F, s), NEW m \in RecoverSet(F)
    PROVE  Leads(F, s, handleRecoverPara(s, m))
<1> DEFINE v     == m.rdata.justv
           just  == JustOf(m)
           s0    == touch(s, v)
           s1    == recoverBlocks(s0, m)
           count == IF v \in DOMAIN s.recoverResponses
                    THEN s.recoverResponses[v] ELSE 1
           s2    == [s1 EXCEPT !.recoverResponses = assign(@, v, count + 1)]
           s3    == [s1 EXCEPT !.recoverResponses = assign(@, v, count)]
           a     == initiateVerifyPara(s3, just)
           b     == initiateVerifyPara(s2, just)
           c     == restartFromVerified(s2)
           z     == handleRecoverPara(s, m)
<1>1. z = s \/ z = s0 \/ z = a \/ z = s2 \/ z = b \/ z = c
      BY DEF handleRecoverPara
<1> HIDE DEF z, count
<1>2. just \in JustsOver(AnyData) /\ just.set
      BY DEF JustOf, Just, JustsOver, RecoverSet
<1> HIDE DEF just
<1>3. Keeps(F, s, s0)
      BY TouchKeeps
<1> HIDE DEF s0
<1>4. Keeps(F, s0, s1)
      BY <1>3, RecoverBlocksKeeps DEF Keeps
<1> HIDE DEF s1
<1>5. Keeps(F, s, s1) /\ Sound(F, s1)
      BY <1>3, <1>4, KeepsOn DEF Keeps
<1>6. Keeps(F, s1, s2) /\ Keeps(F, s1, s3)
      BY <1>5, ResponsesKeep
<1> HIDE DEF s2, s3
<1>7. /\ Keeps(F, s, s2) /\ Sound(F, s2)
      /\ Keeps(F, s, s3) /\ Sound(F, s3)
      BY <1>5, <1>6, KeepsOn DEF Keeps
<1>8. Leads(F, s3, a) /\ Leads(F, s2, b)
      BY <1>2, <1>7, InitiateVerifyLeads
<1>9. Leads(F, s2, c)
      BY <1>7, RestartLeads
<1> HIDE DEF a, b, c
<1>10. Leads(F, s, z)
       BY <1>1, <1>3, <1>7, <1>8, <1>9, KeepsOn, LeadsOn
<1>11. QED
       BY <1>10 DEF z

(* handleLdrRecoverPara.                                                   *)
LEMMA HandleLdrRecoverKeeps ==
    ASSUME NEW F, NEW s, Sound(F, s), NEW m \in LdrRecoverSet
    PROVE  Keeps(F, s, handleLdrRecoverPara(s, m))
<1> DEFINE v      == m.rdata.justv
           mine   == IF ~hasBlocks(s, v) THEN {}
                     ELSE {i \in m.missing : isBlock(s.pblocks[v][i])}
           blocks == {s.pblocks[v][i] : i \in mine}
           s1     == IF v < Cardinality(DOMAIN s.pblocks) THEN touch(s, v) ELSE s
           k      == MsgRecoverPara(JustOf(m), blocks)
           u      == send(s1, currentLeader(s), k)
           z      == handleLdrRecoverPara(s, m)
<1>1. z = s \/ z = u
      BY DEF handleLdrRecoverPara
<1> HIDE DEF z
<1>2. /\ JustOf(m) \in JustsOver(AnyData) /\ JustOf(m).rdata.justv = v
      /\ m.missing \subseteq SeqNumbers
      BY DEF JustOf, Just, JustsOver, LdrRecoverSet
<1>3. ASSUME NEW i \in mine PROVE s.pblocks[v][i] \in BlocksIn(F, v)
  <2>1. /\ hasBlocks(s, v) /\ i \in SeqNumbers /\ isBlock(s.pblocks[v][i])
        BY <1>2, <1>3
  <2>2. v \in DOMAIN s.pblocks /\ s.pblocks[v] # <<>>
        BY <2>1 DEF hasBlocks, blocksOf
  <2>3. s.pblocks[v] \in SlotsIn(F, v)
        BY <2>2 DEF Sound, SlotsSound
  <2>4. QED
        BY <2>1, <2>3, SlotsFact
<1>4. blocks \in SUBSET BlocksIn(F, v)
      BY <1>3
<1> HIDE DEF blocks
<1>5. k \in MessageSets(F) /\ k.type # "prepare_para"
  <2>1. k \in RecoverSet(F)
        BY <1>2, <1>4, MessageTyped
  <2> HIDE DEF k
  <2>2. QED
        BY <2>1, MessageTyped DEF RecoverSet
<1> HIDE DEF k
<1>6. Keeps(F, s, s1)
      BY TouchKeeps, KeepsOn
<1> HIDE DEF s1
<1>7. Keeps(F, s1, u)
      BY <1>5, <1>6, SendKeeps, Unbacked DEF Keeps
<1> HIDE DEF u
<1>8. Keeps(F, s, z)
      BY <1>1, <1>6, <1>7, KeepsOn
<1>9. QED
      BY <1>8 DEF z

-----------------------------------------------------------------------------
(* Votes and certificates.                                                 *)

(* The handlers of votes.                                                  *)
LEMMA HandleVotesKeep ==
    ASSUME NEW F \in Ledgers, NEW s, Sound(F, s)
    PROVE  /\ \A m \in VoteSet("prepare_para") : Keeps(F, s, handlePreparePara(s, m))
           /\ \A m \in VoteSet("precommit_para") : Keeps(F, s, handlePrecommitPara(s, m))
           /\ \A m \in VoteSet("commit_para") : Keeps(F, s, handleCommitPara(s, m))
<1>1. ASSUME NEW m \in VoteSet("prepare_para")
      PROVE  Keeps(F, s, handlePreparePara(s, m))
  <2> DEFINE s1 == storePrepPara(s, m)
             a  == initiatePreparePara(s1, m.rdata)
             b  == respondToPrepareJustPara(s1, JustOf(m))
             z  == handlePreparePara(s, m)
             v  == m.rdata.propv
  <2>1. \/ z = s
        \/ z = s1
        \/ ~(v < s.view) /\ ~(v > s.view) /\ amCurrentLeader(s) /\ z = a
        \/ z = b
        BY DEF handlePreparePara
  <2> HIDE DEF z
  <2>2. /\ m.rdata \in VoteData /\ JustOf(m) \in JustsOver(VoteData)
        /\ v \in Views /\ s.view \in Views
        BY SoundParts DEF VoteSet, JustOf, Just, JustsOver, VoteData, DataOver
  <2>3. v \in Int /\ s.view \in Int
        BY <2>2, DataFact DEF Views
  <2>4. Keeps(F, s, s1)
        BY StoreKeeps
  <2> HIDE DEF s1
  <2>5. Sound(F, s1) /\ s1.view = s.view /\ s1.myid = s.myid
        BY <2>4 DEF Keeps, Kept
  <2>6. amCurrentLeader(s) => amCurrentLeader(s1)
        BY <2>5 DEF amCurrentLeader, amLeaderOf
  <2>7. v = s.view /\ amCurrentLeader(s) => Keeps(F, s1, a)
        BY <2>2, <2>5, <2>6, InitiatePrepareKeeps
  <2>8. Keeps(F, s1, b)
        BY <2>2, <2>5, RespondKeeps
  <2> HIDE DEF a, b, v
  <2>9. Keeps(F, s, z)
        BY <2>1, <2>3, <2>4, <2>7, <2>8, KeepsOn
  <2>10. QED
         BY <2>9 DEF z
<1>2. ASSUME NEW m \in VoteSet("precommit_para")
      PROVE  Keeps(F, s, handlePrecommitPara(s, m))
  <2> DEFINE s1 == storePcPara(s, m)
             a  == initiatePrecommitPara(s1, m.rdata)
             b  == respondToPreCommitJustPara(s1, JustOf(m))
             z  == handlePrecommitPara(s, m)
  <2>1. z = s \/ z = s1 \/ z = a \/ z = b
        BY DEF handlePrecommitPara
  <2> HIDE DEF z
  <2>2. m.rdata \in VoteData /\ JustOf(m) \in JustsOver(VoteData)
        BY DEF VoteSet, JustOf, Just, JustsOver
  <2>3. Keeps(F, s, s1)
        BY StoreKeeps
  <2> HIDE DEF s1
  <2>4. Keeps(F, s1, a) /\ Keeps(F, s1, b)
        BY <2>2, <2>3, InitiatePrecommitKeeps, RespondKeeps DEF Keeps
  <2> HIDE DEF a, b
  <2>5. Keeps(F, s, z)
        BY <2>1, <2>3, <2>4, KeepsOn
  <2>6. QED
        BY <2>5 DEF z
<1>3. ASSUME NEW m \in VoteSet("commit_para")
      PROVE  Keeps(F, s, handleCommitPara(s, m))
  <2> DEFINE s1 == storeComPara(s, m)
             a  == initiateCommitPara(s1, m.rdata)
             b  == executeCommitted(s1, m.rdata.seq)
             z  == handleCommitPara(s, m)
  <2>1. z = s \/ z = s1 \/ z = a \/ z = b
        BY DEF handleCommitPara
  <2> HIDE DEF z
  <2>2. m.rdata \in VoteData /\ m.rdata.seq \in Numbers
        BY DEF VoteSet, VoteData, DataOver
  <2>3. Keeps(F, s, s1)
        BY StoreKeeps
  <2> HIDE DEF s1
  <2>4. Keeps(F, s1, a) /\ Keeps(F, s1, b)
        BY <2>2, <2>3, InitiateCommitKeeps, ExecuteCommittedKeeps DEF Keeps
  <2> HIDE DEF a, b
  <2>5. Keeps(F, s, z)
        BY <2>1, <2>3, <2>4, KeepsOn
  <2>6. QED
        BY <2>5 DEF z
<1>4. QED
      BY <1>1, <1>2, <1>3

(* What a handler does, whatever it verifies before it sends anything.     *)
Final(F, s, u) ==
    \E G \in Ledgers :
        /\ Grows(F, G, s.myid) /\ Sound(G, u) /\ u.myid = s.myid
        /\ Speaks(s.myid, u.verifiedJust, s.out, u.out)

(* The calls above are such.                                               *)
LEMMA FinalOn ==
    /\ \A F, s, u : Ends(F, s, u) => Final(F, s, u)
    /\ \A F \in Ledgers : \A s, u : Keeps(F, s, u) => Final(F, s, u)
    /\ \A F, s, u : Leads(F, s, u) => Final(F, s, u)
<1>1. \A F, s, u : Ends(F, s, u) => Final(F, s, u)
      BY DEF Ends, Final, Moved
<1>2. QED
      BY <1>1, LeadsOn, EndsOn

(* handleVerifyPara.                                                       *)
LEMMA HandleVerifyFinal ==
    ASSUME NEW F \in Ledgers, NEW s, Sound(F, s), s.pending # "startNewViewPara",
           NEW m \in VerifySet, NEW unset \in EqualsReturns
    PROVE  Final(F, s, handleVerifyPara(s, m, unset))
<1> DEFINE v     == m.rdata.propv
           s1    == IF v > s.view THEN changeView(s, v) ELSE s
           check == m.rdata.justv > s.verifiedJust.rdata.propv
           s2    == IF check THEN touch(s1, m.rdata.justv) ELSE s1
           just  == TEEverifyLeaderQC(s2.tp, JustOf(m), m.blockHashes, check)
           w     == [s2 EXCEPT !.verifiedJust = just]
           c     == handleEarlierMessagesPara(w, unset)
           z     == handleVerifyPara(s, m, unset)
<1>1. z = s \/ z = s2 \/ z = c
      BY DEF handleVerifyPara
<1> HIDE DEF z
<1>2. /\ JustOf(m) \in JustsOver(AnyData) /\ v \in Views
      BY DEF JustOf, Just, JustsOver, VerifySet, AnyData, DataOver
<1>3. just \in JustsOver(AnyData)
      BY <1>2, TEEverifyTyped
<1> HIDE DEF just, check
<1>4. Sound(F, s1) /\ s1.out = s.out /\ s1.myid = s.myid
  <2>1. CASE v > s.view
    <3> DEFINE t == s.tp
    <3>1. /\ changeViewTo(t, v) \in ComponentSet /\ changeViewTo(t, v).view = v
          /\ changeViewTo(t, v).phase = NEWVIEW
          BY <1>2, SoundParts, ChangeViewToTyped
    <3>2. DOMAIN s = Fields /\ s.tp = t
          BY SoundParts
    <3> HIDE DEF t
    <3>3. s.view < v
      <4>1. s.view \in Views
            BY SoundParts
      <4>2. QED
            BY <1>2, <2>1, <4>1, DataFact DEF Views
    <3> HIDE DEF v
    <3>4. Sound(F, changeView(s, v)) /\ Moved(s, changeView(s, v))
          /\ changeView(s, v).out = s.out
          BY <1>2, <3>1, <3>2, <3>3, ChangeViewMoves DEF v
    <3>5. QED
          BY <2>1, <3>4 DEF Moved, v
  <2>2. CASE ~(v > s.view)
        BY <2>2
  <2>3. QED
        BY <2>1, <2>2
<1> HIDE DEF s1
<1>5. Sound(F, s2) /\ s2.out = s.out /\ s2.myid = s.myid
  <2> DEFINE x == touch(s1, m.rdata.justv)
  <2>1. Keeps(F, s1, x)
        BY <1>4, TouchKeeps
  <2>2. x.out = s1.out
        BY <1>4, SoundParts DEF touch, Fields
  <2> HIDE DEF x
  <2>3. Sound(F, x) /\ x.out = s.out /\ x.myid = s.myid
        BY <1>4, <2>1, <2>2 DEF Keeps, Kept
  <2>4. QED
        BY <1>4, <2>3 DEF x
<1> HIDE DEF s2
<1>6. Final(F, s, s) /\ Final(F, s, s2)
      BY <1>5, GrowsOn DEF Final, Speaks
<1>7. /\ DOMAIN w = Fields /\ w.myid = s2.myid /\ w.view = s2.view
      /\ w.started = s2.started /\ w.pending = s2.pending /\ w.tp = s2.tp
      /\ w.verifiedJust = just /\ w.lastExecutedSeq = s2.lastExecutedSeq
      /\ w.log = s2.log /\ w.pblocks = s2.pblocks /\ w.out = s2.out
      /\ w.transactions = s2.transactions /\ w.fromClient = s2.fromClient
      /\ w.replied = s2.replied /\ w.executed = s2.executed
      BY <1>5, SoundParts DEF Fields
<1> HIDE DEF w
<1>8. Sound(F, w)
      BY <1>3, <1>5, <1>7 DEF Sound
<1>9. Leads(F, w, c)
      BY <1>8, EarlierLeads
<1> HIDE DEF c
<1>10. PICK G \in Ledgers : Grows(F, G, w.myid) /\ Keeps(G, w, c)
       BY <1>9 DEF Leads
<1>11. /\ Sound(G, c) /\ c.myid = s.myid /\ w.myid = s.myid
       /\ Speaks(s.myid, c.verifiedJust, s.out, c.out)
       BY <1>5, <1>7, <1>10 DEF Keeps, Kept
<1>12. Final(F, s, c)
       BY <1>10, <1>11 DEF Final
<1>13. Final(F, s, z)
       BY <1>1, <1>6, <1>12
<1>14. QED
       BY <1>13 DEF z

-----------------------------------------------------------------------------
(* The system.                                                             *)

(* One ledger fits all replicas: the inductive invariant.                  *)
AllSound ==
    /\ DOMAIN node = PID
    /\ \E F \in Ledgers : \A n \in PID : Sound(F, node[n]) /\ node[n].myid = n
    /\ pauses \in 0 .. MaxPauses /\ early \in 0 .. MaxEarly

(* Who lengthens a connection puts a message there that is backed.         *)
Spoken ==
    \A n, d \in PID :
        \/ Len(node'[n].out[d]) <= Len(node[n].out[d])
        \/ Backed(n, node'[n].verifiedJust, Last(node'[n].out[d]))

(* At first no transaction is in a block.                                  *)
LEMMA InitSound == Init => AllSound
<1> SUFFICES ASSUME Init PROVE AllSound
    OBVIOUS
<1> DEFINE F == [t \in Txs |-> Slot(0, 0)]
<1>1. F \in Ledgers
      BY DataFact DEF Slot, Ledgers
<1>2. \A t \in Txs : F[t].seq = 0
      BY DEF Slot
<1> HIDE DEF F
<1>3. ASSUME NEW n \in PID
      PROVE  Sound(F, node[n]) /\ node[n].myid = n
  <2> DEFINE s == node[n]
  <2>1. s = withFields(ReplicaInit(n, 0),
                [tp |-> TrustedParaInit, pblocks |-> assign(<<>>, 0, NoBlocks),
                 recoverResponses |-> <<>>, lastExecutedSeq |-> 0,
                 verifiedJust |-> NoJustPara, log |-> LogInit])
        BY DEF Init
  <2>2. /\ DOMAIN s = Fields
        /\ s.myid = n /\ s.view = 0 /\ s.tp = TrustedParaInit /\ s.log = LogInit
        /\ s.pending = "none" /\ s.pblocks = assign(<<>>, 0, NoBlocks)
        /\ s.transactions = <<>> /\ s.fromClient = fromClientTo(n, 0)
        /\ s.replied = <<>> /\ s.executed = <<>> /\ s.out = [d \in PID |-> <<>>]
        /\ s.lastExecutedSeq = 0 /\ s.verifiedJust = NoJustPara
        BY <2>1 DEF withFields, ReplicaInit, Fields
  <2> HIDE DEF s
  <2>3. LogSound(F, s.log)
    <3>1. DOMAIN s.log = LogFields /\ \A k \in LogFields : s.log[k] = {}
          BY <2>2 DEF LogInit, LogFields
    <3>2. QED
          BY <3>1, FS_EmptySet DEF LogSound
  <2>4. Located(s.view, s.tp, s.started, s.pending)
    <3>1. TrustedParaInit \in ComponentSet
      <4>1. <<>> \in Maps(Chain, VotePhases) /\ <<>> \in Maps(Numbers, Chain)
            BY EmptyMap
      <4>2. QED
            BY <4>1, DataFact DEF TrustedParaInit, ComponentSet
    <3>2. TrustedParaInit.view = 0 /\ TrustedParaInit.phase = NEWVIEW
          BY DEF TrustedParaInit
    <3>3. QED
          BY <2>2, <3>1, <3>2, DataFact DEF Located
  <2>5. SlotsSound(F, s.view, s.pblocks)
    <3>1. s.pblocks = [v \in {0} |-> NoBlocks]
          BY <2>2 DEF assign
    <3>2. QED
          BY <2>2, <3>1, SlotsFact DEF SlotsSound
  <2>6. s.out \in [PID -> Seq(MessageSets(F))]
        BY <2>2
  <2>7. Fresh(F, n, s.transactions, s.fromClient)
    <3>1. /\ <<>> \in Transactions /\ IsInjective(<<>>) /\ Range(<<>>) = {}
          BY DEF Transactions, IsInjective, Range
    <3>2. /\ s.fromClient \in Transactions /\ IsInjective(s.fromClient)
          /\ Range(s.fromClient) = Dealt(n, 0)
          BY <2>2, ClientDealsTransactions, DealtOnce DEF Transactions, Txs, Dealt
    <3>3. \A t \in Range(s.fromClient) : t \in Txs
          BY <3>2 DEF Transactions, Range
    <3>4. QED
          BY <1>2, <2>2, <3>1, <3>2, <3>3 DEF Fresh, Apart
  <2>8. Done(F, s.view, s.lastExecutedSeq, s.replied)
        BY <2>2 DEF Done, Transactions, IsInjective, Range
  <2>9. InOrder(s.view, s.lastExecutedSeq, s.executed)
        BY <2>2 DEF InOrder
  <2>10. s.verifiedJust \in JustsOver(AnyData) /\ s.lastExecutedSeq \in Numbers
         BY <2>2, DataFact
  <2>11. QED
         BY <2>2, <2>3, <2>4, <2>5, <2>6, <2>7, <2>8, <2>9, <2>10 DEF Sound, s
<1>4. DOMAIN node = PID /\ pauses \in 0 .. MaxPauses /\ early \in 0 .. MaxEarly
      BY ReplicaAssumption DEF Init
<1>5. QED
      BY <1>1, <1>3, <1>4 DEF AllSound

(* A message leaves a connection.                                          *)
LEMMA TakeSound ==
    ASSUME NEW F, NEW s, Sound(F, s), NEW n \in PID, NEW k \in 1 .. Len(s.out[n])
    PROVE  LET u == [s EXCEPT !.out[n] = SubSeq(@, k + 1, Len(@))]
           IN  /\ s.out[n][k] \in MessageSets(F)
               /\ Sound(F, u) /\ u.myid = s.myid
               /\ \A d \in PID : Len(u.out[d]) <= Len(s.out[d])
<1> DEFINE q    == s.out[n]
           rest == SubSeq(q, k + 1, Len(q))
           o    == [s.out EXCEPT ![n] = rest]
           u    == [s EXCEPT !.out = o]
<1>1. q \in Seq(MessageSets(F)) /\ \A d \in PID : Len(s.out[d]) \in Nat
  <2>1. \A d \in PID : s.out[d] \in Seq(MessageSets(F))
        BY DEF Sound
  <2>2. QED
        BY <2>1
<1>2. /\ q[k] \in MessageSets(F) /\ rest \in Seq(MessageSets(F))
      /\ Len(rest) <= Len(q)
      BY <1>1
<1> HIDE DEF rest
<1>3. o \in [PID -> Seq(MessageSets(F))] /\ \A d \in PID : Len(o[d]) <= Len(s.out[d])
      BY <1>1, <1>2 DEF Sound
<1> HIDE DEF o
<1>4. /\ DOMAIN u = Fields /\ u.myid = s.myid /\ u.view = s.view
      /\ u.started = s.started /\ u.pending = s.pending /\ u.tp = s.tp
      /\ u.verifiedJust = s.verifiedJust
      /\ u.lastExecutedSeq = s.lastExecutedSeq /\ u.log = s.log
      /\ u.pblocks = s.pblocks /\ u.out = o
      /\ u.transactions = s.transactions /\ u.fromClient = s.fromClient
      /\ u.replied = s.replied /\ u.executed = s.executed
      BY DEF Sound, Fields
<1>5. u = [s EXCEPT !.out[n] = SubSeq(@, k + 1, Len(@))]
      BY DEF o, rest
<1> HIDE DEF u
<1>6. Sound(F, u)
      BY <1>3, <1>4 DEF Sound
<1>7. QED
      BY <1>2, <1>3, <1>4, <1>5, <1>6

(* One replica makes a step, after a message has left a connection.        *)
LEMMA StepSound ==
    ASSUME NEW F \in Ledgers, NEW w, DOMAIN w = PID,
           \A i \in PID : /\ Sound(F, w[i]) /\ w[i].myid = i
                          /\ \A d \in PID : Len(w[i].out[d]) <= Len(node[i].out[d]),
           NEW n \in PID, NEW u, Final(F, w[n], u), node' = [w EXCEPT ![n] = u],
           pauses' \in 0 .. MaxPauses, early' \in 0 .. MaxEarly
    PROVE  AllSound' /\ Spoken
<1>1. PICK G \in Ledgers : /\ Grows(F, G, n) /\ Sound(G, u) /\ u.myid = n
                           /\ Speaks(n, u.verifiedJust, w[n].out, u.out)
      BY DEF Final
<1>2. DOMAIN node' = PID /\ node'[n] = u /\ \A i \in PID \ {n} : node'[i] = w[i]
      OBVIOUS
<1>3. \A i \in PID \ {n} : Sound(G, w[i])
      BY <1>1, SoundGrows
<1>4. \A i \in PID : Sound(G, node'[i]) /\ node'[i].myid = i
      BY <1>1, <1>2, <1>3
<1>5. AllSound'
      BY <1>2, <1>4 DEF AllSound
<1>6. Spoken
  <2>1. ASSUME NEW i \in PID, NEW d \in PID
        PROVE  \/ Len(node'[i].out[d]) <= Len(node[i].out[d])
               \/ Backed(i, node'[i].verifiedJust, Last(node'[i].out[d]))
    <3>1. CASE i = n
          BY <1>1, <1>2, <3>1 DEF Speaks
    <3>2. CASE i # n
          BY <1>2, <3>2
    <3>3. QED
          BY <3>1, <3>2
  <2>2. QED
        BY <2>1 DEF Spoken
<1>7. QED
      BY <1>5, <1>6

(* A message arrives.                                                      *)
LEMMA DeliverSound ==
    ASSUME AllSound, NEW p \in PID, NEW n \in PID, Deliver(p, n)
    PROVE  AllSound' /\ Spoken
<1> DEFINE k == Upcoming(p, n)
           m == node[p].out[n][k]
           s == node[n]
           q == [node[p] EXCEPT !.out[n] = SubSeq(@, k + 1, Len(@))]
           w == [node EXCEPT ![p] = q]
<1>1. PICK u : /\ \/ u = s
                  \/ /\ m.type = "newview_para"
                     /\ \E force \in ForceRecover : u = handleNewViewPara(s, m, force)
                  \/ /\ m.type = "ldrprepare_para"
                     /\ \E unset \in EqualsReturns : u = handleLdrPreparePara(s, m, unset)
                  \/ /\ m.type = "verify_para"
                     /\ \E unset \in EqualsReturns : u = handleVerifyPara(s, m, unset)
                  \/ m.type = "recover_para" /\ u = handleRecoverPara(s, m)
                  \/ m.type = "ldrrecover_para" /\ u = handleLdrRecoverPara(s, m)
                  \/ m.type = "prepare_para" /\ u = handlePreparePara(s, m)
                  \/ m.type = "precommit_para" /\ u = handlePrecommitPara(s, m)
                  \/ m.type = "commit_para" /\ u = handleCommitPara(s, m)
               /\ node' = [node EXCEPT
                      ![p].out[n] = SubSeq(@, k + 1, Len(@)), ![n] = u]
               /\ UNCHANGED <<pauses, early>>
      BY DEF Deliver, HandleNewViewPara, HandleLdrPreparePara, HandleVerifyPara,
             HandleRecoverPara, HandleLdrRecoverPara, HandlePreparePara,
             HandlePrecommitPara, HandleCommitPara, Receive
<1>2. CanReceive(p, n)
      BY DEF Deliver, HandleNewViewPara, HandleLdrPreparePara, HandleVerifyPara,
             HandleRecoverPara, HandleLdrRecoverPara, HandlePreparePara,
             HandlePrecommitPara, HandleCommitPara, Receive
<1>3. p # n /\ node[p].out[n] # <<>> /\ s.pending # "startNewViewPara"
      BY <1>2 DEF CanReceive, Idle
<1>4. PICK F \in Ledgers : \A i \in PID : Sound(F, node[i]) /\ node[i].myid = i
      BY DEF AllSound
<1>5. DOMAIN node = PID /\ pauses \in 0 .. MaxPauses /\ early \in 0 .. MaxEarly
      BY DEF AllSound
<1>6. node[p].out[n] \in Seq(MessageSets(F))
      BY <1>4 DEF Sound
<1>7. k \in 1 .. Len(node[p].out[n])
      BY <1>3, <1>6, UpcomingPosition
<1> HIDE DEF k
<1>8. /\ m \in MessageSets(F) /\ Sound(F, q) /\ q.myid = p
      /\ \A d \in PID : Len(q.out[d]) <= Len(node[p].out[d])
  <2> DEFINE r == node[p]
             x == [r EXCEPT !.out[n] = SubSeq(@, k + 1, Len(@))]
  <2>1. Sound(F, r) /\ r.myid = p /\ k \in 1 .. Len(r.out[n])
        BY <1>4, <1>7
  <2>2. m = r.out[n][k] /\ q = x
        OBVIOUS
  <2> HIDE DEF r
  <2>3. /\ r.out[n][k] \in MessageSets(F) /\ Sound(F, x) /\ x.myid = r.myid
        /\ \A d \in PID : Len(x.out[d]) <= Len(r.out[d])
        BY <2>1, TakeSound
  <2> HIDE DEF x, m, q
  <2>4. QED
        BY <2>1, <2>2, <2>3 DEF r
<1>9. node' = [w EXCEPT ![n] = u] /\ DOMAIN w = PID /\ w[n] = s /\ w[p] = q
      /\ \A i \in PID \ {p} : w[i] = node[i]
      BY <1>1, <1>3, <1>5
<1> HIDE DEF m, q, w, s
<1>10. Sound(F, s) /\ s.myid = n
       BY <1>4 DEF s
<1>11. Final(F, s, u)
  <2>1. CASE u = s
        BY <1>10, <2>1, KeepsOn, FinalOn
  <2>2. CASE m.type = "newview_para" /\ \E force \in ForceRecover :
                 u = handleNewViewPara(s, m, force)
        BY <1>3, <1>8, <1>10, <2>2, TypeFact, HandleNewViewEnds, FinalOn
  <2>3. CASE m.type = "ldrprepare_para" /\ \E unset \in EqualsReturns :
                 u = handleLdrPreparePara(s, m, unset)
        BY <1>8, <1>10, <2>3, TypeFact, HandleLdrPrepareKeeps, FinalOn
  <2>4. CASE m.type = "verify_para" /\ \E unset \in EqualsReturns :
                 u = handleVerifyPara(s, m, unset)
        BY <1>3, <1>8, <1>10, <2>4, TypeFact, HandleVerifyFinal
  <2>5. CASE m.type = "recover_para" /\ u = handleRecoverPara(s, m)
        BY <1>8, <1>10, <2>5, TypeFact, HandleRecoverLeads, FinalOn
  <2>6. CASE m.type = "ldrrecover_para" /\ u = handleLdrRecoverPara(s, m)
        BY <1>8, <1>10, <2>6, TypeFact, HandleLdrRecoverKeeps, FinalOn
  <2>7. \A type \in VoteTypes : m.type = type => m \in VoteSet(type)
        BY <1>8, TypeFact
  <2>8. CASE m.type = "prepare_para" /\ u = handlePreparePara(s, m)
        BY <1>10, <2>7, <2>8, HandleVotesKeep, FinalOn DEF VoteTypes
  <2>9. CASE m.type = "precommit_para" /\ u = handlePrecommitPara(s, m)
        BY <1>10, <2>7, <2>9, HandleVotesKeep, FinalOn DEF VoteTypes
  <2>10. CASE m.type = "commit_para" /\ u = handleCommitPara(s, m)
         BY <1>10, <2>7, <2>10, HandleVotesKeep, FinalOn DEF VoteTypes
  <2>11. QED
         BY <1>1, <2>1, <2>2, <2>3, <2>4, <2>5, <2>6, <2>8, <2>9, <2>10
<1>12. \A i \in PID : /\ Sound(F, w[i]) /\ w[i].myid = i
                      /\ \A d \in PID : Len(w[i].out[d]) <= Len(node[i].out[d])
  <2>1. ASSUME NEW i \in PID, NEW d \in PID
        PROVE  Len(node[i].out[d]) <= Len(node[i].out[d])
    <3>1. node[i].out[d] \in Seq(MessageSets(F))
          BY <1>4 DEF Sound
    <3>2. QED
          BY <3>1
  <2>2. QED
        BY <1>4, <1>8, <1>9, <2>1
<1>13. pauses' \in 0 .. MaxPauses /\ early' \in 0 .. MaxEarly
       BY <1>1, <1>5
<1>14. QED
       BY <1>9, <1>11, <1>12, <1>13, StepSound

(* Fields that the conditions do not look at.                              *)
LEMMA Unseen ==
    ASSUME NEW F, NEW s, Sound(F, s), NEW u, DOMAIN u = Fields,
           \A x \in Fields \ {"pending", "isPaused", "stopped", "timer"} : u[x] = s[x],
           u.pending = "startNewViewPara" => s.pending = "startNewViewPara"
    PROVE  Keeps(F, s, u)
<1>1. /\ DOMAIN u = Fields /\ u.myid = s.myid /\ u.view = s.view
      /\ u.started = s.started /\ u.pending = u.pending /\ u.tp = s.tp
      /\ u.verifiedJust = s.verifiedJust
      /\ u.lastExecutedSeq = s.lastExecutedSeq /\ u.log = s.log
      /\ u.pblocks = s.pblocks /\ u.out = s.out
      /\ u.transactions = s.transactions /\ u.fromClient = s.fromClient
      /\ u.replied = s.replied /\ u.executed = s.executed
      BY DEF Fields
<1>2. Located(u.view, u.tp, u.started, u.pending)
      BY <1>1 DEF Sound, Located
<1>3. Sound(F, u)
      BY <1>1, <1>2 DEF Sound
<1>4. QED
      BY <1>1, <1>3 DEF Keeps, Kept, Speaks

(* A transaction of the client is taken off the connection.                *)
LEMMA TransactionKeeps ==
    ASSUME NEW F, NEW s, Sound(F, s), s.fromClient # <<>>
    PROVE  Keeps(F, s, [s EXCEPT
               !.fromClient = Tail(@),
               !.transactions = IF s.isPaused THEN @ ELSE Append(@, Head(s.fromClient))])
<1> DEFINE rest  == Tail(s.fromClient)
           added == Append(s.transactions, Head(s.fromClient))
           queue == IF s.isPaused THEN s.transactions ELSE added
           u     == [s EXCEPT !.fromClient = rest, !.transactions = queue]
<1>1. /\ s.fromClient \in Seq(Txs) /\ s.transactions \in Seq(Txs)
      /\ IsInjective(s.fromClient) /\ IsInjective(s.transactions)
      /\ Apart(s.transactions, s.fromClient)
      /\ \A t \in Range(s.transactions) \cup Range(s.fromClient) :
             F[t].seq = 0 /\ t \in Dealt(s.myid, 0)
      BY DEF Sound, Fresh, Transactions
<1>2. rest \in Seq(Txs) /\ added \in Seq(Txs)
      BY <1>1
<1>3. /\ IsInjective(rest) /\ Range(rest) \subseteq Range(s.fromClient)
      /\ IsInjective(added) /\ Apart(added, rest) /\ Apart(s.transactions, rest)
      /\ Range(added) \subseteq Range(s.transactions) \cup Range(s.fromClient)
      BY <1>1, TakeOnce
<1>4. u = [s EXCEPT !.fromClient = Tail(@),
                    !.transactions = IF s.isPaused THEN @
                                     ELSE Append(@, Head(s.fromClient))]
      OBVIOUS
<1> HIDE DEF rest, added
<1>5. Fresh(F, s.myid, queue, rest)
      BY <1>1, <1>2, <1>3 DEF Fresh, Transactions
<1> HIDE DEF queue
<1>6. /\ DOMAIN u = Fields /\ u.myid = s.myid /\ u.view = s.view
      /\ u.started = s.started /\ u.pending = s.pending /\ u.tp = s.tp
      /\ u.verifiedJust = s.verifiedJust
      /\ u.lastExecutedSeq = s.lastExecutedSeq /\ u.log = s.log
      /\ u.pblocks = s.pblocks /\ u.out = s.out /\ u.transactions = queue
      /\ u.fromClient = rest /\ u.replied = s.replied
      /\ u.executed = s.executed
      BY DEF Sound, Fields
<1> HIDE DEF u
<1>7. Sound(F, u)
      BY <1>5, <1>6 DEF Sound
<1>8. Keeps(F, s, u)
      BY <1>6, <1>7 DEF Keeps, Kept, Speaks
<1>9. QED
      BY <1>4, <1>8

(* A replica moves on its own.                                             *)
LEMMA OwnSound ==
    ASSUME AllSound, NEW n \in PID,
           \/ Start(n) \/ StartNewViewPara(n) \/ Timeout(n)
           \/ HandleTransaction(n) \/ Pause(n) \/ Resume(n)
    PROVE  AllSound' /\ Spoken
<1> DEFINE s == node[n]
<1>1. PICK F \in Ledgers : \A i \in PID : Sound(F, node[i]) /\ node[i].myid = i
      BY DEF AllSound
<1>2. DOMAIN node = PID /\ pauses \in 0 .. MaxPauses /\ early \in 0 .. MaxEarly
      BY DEF AllSound
<1>3. Sound(F, s) /\ s.myid = n /\ DOMAIN s = Fields
      BY <1>1 DEF Sound
<1>4. ASSUME NEW u, Final(F, s, u), node' = [node EXCEPT ![n] = u],
             pauses' \in 0 .. MaxPauses, early' \in 0 .. MaxEarly
      PROVE  AllSound' /\ Spoken
  <2>1. ASSUME NEW i \in PID, NEW d \in PID
        PROVE  Len(node[i].out[d]) <= Len(node[i].out[d])
    <3>1. node[i].out[d] \in Seq(MessageSets(F))
          BY <1>1 DEF Sound
    <3>2. QED
          BY <3>1
  <2>2. QED
        BY <1>1, <1>2, <1>4, <2>1, StepSound
<1>5. UNCHANGED <<pauses, early>> =>
          pauses' \in 0 .. MaxPauses /\ early' \in 0 .. MaxEarly
      BY <1>2
<1>6. CASE Start(n)
  <2>1. PICK force \in ForceRecover :
            node' = [node EXCEPT ![n] = getStartedPara([s EXCEPT !.started = TRUE], force)]
        BY <1>6 DEF Start
  <2>2. s.pending # "startNewViewPara" /\ ~s.started /\ UNCHANGED <<pauses, early>>
        BY <1>6 DEF Start, CanStart, Idle
  <2> DEFINE u == getStartedPara([s EXCEPT !.started = TRUE], force)
  <2>3. Final(F, s, u)
        BY <1>3, <2>2, GetStartedEnds, FinalOn
  <2> HIDE DEF u
  <2>4. QED
        BY <1>4, <1>5, <2>1, <2>2, <2>3 DEF u
<1>7. CASE StartNewViewPara(n)
  <2> DEFINE x == [s EXCEPT !.pending = "none"]
  <2>1. PICK force \in ForceRecover, unset \in EqualsReturns :
            node' = [node EXCEPT ![n] = startNewViewPara(x, force, unset)]
        BY <1>7 DEF StartNewViewPara
  <2>2. s.pending = "startNewViewPara" /\ UNCHANGED <<pauses, early>>
        BY <1>7 DEF StartNewViewPara
  <2>3. /\ DOMAIN x = Fields /\ x.pending = "none"
        /\ \A y \in Fields \ {"pending", "isPaused", "stopped", "timer"} : x[y] = s[y]
        BY <1>3 DEF Fields
  <2> HIDE DEF x
  <2>4. Keeps(F, s, x)
        BY <1>3, <2>3, Unseen
  <2>5. ~timeToStop(x)
        BY <1>3, <2>2, <2>4 DEF Keeps, Kept, Sound, Located, timeToStop
  <2> DEFINE u == startNewViewPara(x, force, unset)
  <2>6. Ends(F, x, u)
        BY <2>3, <2>4, <2>5, StartNewViewEnds DEF Keeps
  <2> HIDE DEF u
  <2>7. Final(F, s, u)
        BY <2>4, <2>6, EndsOn, FinalOn DEF Keeps
  <2>8. QED
        BY <1>4, <1>5, <2>1, <2>2, <2>7 DEF u
<1>8. CASE Timeout(n)
  <2>1. PICK force \in ForceRecover, unset \in EqualsReturns :
            node' = [node EXCEPT ![n] =
                IF timeToStop(@) THEN [@ EXCEPT !.stopped = TRUE, !.timer = FALSE]
                ELSE startNewViewPara(@, force, unset)]
        BY <1>8 DEF Timeout, TimerExpires
  <2>2. /\ early' = early \/ (early < MaxEarly /\ early' = early + 1)
        /\ pauses' = pauses /\ s.pending # "startNewViewPara"
        BY <1>8 DEF Timeout, TimerExpires, CanTimeout, Idle
  <2>3. early' \in 0 .. MaxEarly /\ pauses' \in 0 .. MaxPauses
        BY <1>2, <2>2, ReplicaAssumption
  <2> DEFINE u == [s EXCEPT !.stopped = TRUE, !.timer = FALSE]
             w == startNewViewPara(s, force, unset)
  <2>4. /\ DOMAIN u = Fields /\ u.pending = s.pending
        /\ \A y \in Fields \ {"pending", "isPaused", "stopped", "timer"} : u[y] = s[y]
        BY <1>3 DEF Fields
  <2>5. IF timeToStop(s) THEN node' = [node EXCEPT ![n] = u]
        ELSE node' = [node EXCEPT ![n] = w]
        BY <2>1
  <2> HIDE DEF u
  <2>6. Final(F, s, u)
        BY <1>3, <2>4, Unseen, FinalOn
  <2>7. ~timeToStop(s) => Final(F, s, w)
        BY <1>3, <2>2, StartNewViewEnds, FinalOn
  <2> HIDE DEF w
  <2>8. QED
        BY <1>4, <2>3, <2>5, <2>6, <2>7
<1>9. CASE HandleTransaction(n)
  <2> DEFINE u == [s EXCEPT
                 !.fromClient = Tail(@),
                 !.transactions = IF s.isPaused THEN @ ELSE Append(@, Head(s.fromClient))]
  <2>1. /\ node' = [node EXCEPT ![n] = u]
        /\ s.fromClient # <<>> /\ UNCHANGED <<pauses, early>>
        BY <1>9 DEF HandleTransaction
  <2>2. Final(F, s, u)
        BY <1>3, <2>1, TransactionKeeps, FinalOn
  <2> HIDE DEF u
  <2>3. QED
        BY <1>4, <1>5, <2>1, <2>2
<1>10. CASE Pause(n) \/ Resume(n)
  <2>1. PICK b \in BOOLEAN : node' = [node EXCEPT ![n] = [s EXCEPT !.isPaused = b]]
        BY <1>10 DEF Pause, Resume
  <2> DEFINE u == [s EXCEPT !.isPaused = b]
  <2>2. pauses' \in 0 .. MaxPauses /\ early' \in 0 .. MaxEarly
        BY <1>2, <1>10, ReplicaAssumption DEF Pause, Resume
  <2>3. /\ DOMAIN u = Fields /\ u.pending = s.pending
        /\ \A y \in Fields \ {"pending", "isPaused", "stopped", "timer"} : u[y] = s[y]
        BY <1>3 DEF Fields
  <2> HIDE DEF u
  <2>4. Final(F, s, u)
        BY <1>3, <2>3, Unseen, FinalOn
  <2>5. QED
        BY <1>4, <2>1, <2>2, <2>4 DEF u
<1>11. QED
       BY <1>6, <1>7, <1>8, <1>9, <1>10

(* Well formed in the sense of the proof is well formed.                   *)
LEMMA SoundTyped ==
    ASSUME NEW F, NEW s, Sound(F, s)
    PROVE  /\ s.view \in Views /\ ComponentOK(s.tp) /\ s.verifiedJust \in Justs
           /\ s.lastExecutedSeq \in 0 .. MaxBlocksInView
           /\ \A v \in DOMAIN s.pblocks :
                  s.pblocks[v] \in {<<>>} \cup [SeqNumbers -> PBlocks]
           /\ \A k \in DOMAIN LogTypes : \A m \in s.log[k] :
                  WellFormed(m) /\ m.type = LogTypes[k]
           /\ \A d \in PID : \A k \in DOMAIN s.out[d] : WellFormed(s.out[d][k])
           /\ s.transactions \in Seq(1 .. NumInstances)
           /\ s.replied \in Seq(1 .. NumInstances)
           /\ s.executed \in Seq([view : Views, seq : SeqNumbers, hash : Hashes])
<1>1. /\ AnyData \subseteq Data /\ VoteData \subseteq Data
      /\ Signatures \subseteq SUBSET Tokens /\ Seq(Chain) \subseteq Seq(Hashes)
      BY DataFact DEF Signatures
<1>2. JustsOver(AnyData) \subseteq Justs
      BY <1>1 DEF JustsOver, Justs
<1>3. AnyBlock \cup {NoPBlock} \subseteq PBlocks
  <2>1. SeqNumbers \subseteq 0 .. MaxBlocksInView /\ 0 \in 0 .. MaxBlocksInView
        BY DataFact DEF Numbers
  <2>2. Transactions \subseteq Seq(Nat)
        BY ReplicaAssumption DEF Transactions, Txs
  <2>3. NoPBlock \in PBlocks
        BY <2>1, DataFact DEF NoPBlock, PBlock, PBlocks
  <2>4. AnyBlock \subseteq PBlocks
        BY <2>1, <2>2, DataFact DEF AnyBlock, PBlocks
  <2>5. QED
        BY <2>3, <2>4
<1>4. ASSUME NEW m \in MessageSets(F) PROVE WellFormed(m)
  <2>1. CASE m \in ProposalSet(F)
    <3>1. /\ m.type = "ldrprepare_para" /\ m.just \in JustsOver(AnyData)
          /\ m.block \in AnyBlock /\ m.signs \in Signatures
          BY <2>1 DEF ProposalSet
    <3>2. QED
          BY <1>1, <1>2, <1>3, <3>1 DEF WellFormed
  <2>2. CASE m \in RecoverSet(F)
    <3>1. /\ m.type = "recover_para" /\ m.rdata \in AnyData
          /\ m.signs \in Signatures /\ m.blocks \subseteq AnyBlock
          BY <2>2 DEF RecoverSet
    <3>2. QED
          BY <1>1, <1>3, <3>1 DEF WellFormed
  <2>3. CASE m \in LdrRecoverSet
        BY <1>1, <2>3 DEF LdrRecoverSet, WellFormed
  <2>4. CASE m \in VerifySet
        BY <1>1, <2>4 DEF VerifySet, WellFormed
  <2>5. CASE m \in NewViewSet
        BY <1>1, <2>5 DEF NewViewSet, WellFormed
  <2>6. ASSUME NEW type \in VoteTypes, m \in VoteSet(type)
        PROVE  WellFormed(m)
        BY <1>1, <2>6 DEF VoteTypes, VoteSet, WellFormed
  <2>7. QED
        BY <2>1, <2>2, <2>3, <2>4, <2>5, <2>6 DEF MessageSets
<1>5. ASSUME NEW k \in DOMAIN LogTypes, NEW m \in s.log[k]
      PROVE  WellFormed(m) /\ m.type = LogTypes[k]
  <2>1. k \in LogFields
        BY DEF LogTypes, LogFields
  <2>2. m \in LoggedSet(F, k)
        BY <2>1 DEF Sound, LogSound
  <2>3. m \in MessageSets(F)
        BY <2>1, <2>2 DEF LoggedSet, LogFields, MessageSets, VoteTypes
  <2>4. m.type = LogTypes[k]
        BY <2>1, <2>2 DEF LoggedSet, LogFields, LogTypes, VoteSet, NewViewSet, ProposalSet
  <2>5. QED
        BY <1>4, <2>3, <2>4
<1>6. ASSUME NEW d \in PID, NEW k \in DOMAIN s.out[d]
      PROVE  WellFormed(s.out[d][k])
  <2>1. s.out[d] \in Seq(MessageSets(F))
        BY DEF Sound
  <2>2. QED
        BY <1>4, <2>1
<1>7. ASSUME NEW v \in DOMAIN s.pblocks
      PROVE  s.pblocks[v] \in {<<>>} \cup [SeqNumbers -> PBlocks]
  <2>1. s.pblocks[v] = <<>> \/ s.pblocks[v] \in [SeqNumbers -> AnyBlock \cup {NoPBlock}]
        BY DEF Sound, SlotsSound, SlotsIn
  <2>2. QED
        BY <1>3, <2>1
<1>8. ComponentOK(s.tp)
  <2> DEFINE t == s.tp
  <2>1. t \in ComponentSet
        BY DEF Sound, Located
  <2> HIDE DEF t
  <2>2. \A h \in DOMAIN t.blockPhases : t.blockPhases[h] \in {PREPARE, PRECOMMIT, COMMIT}
    <3>1. t.blockPhases \in Maps(Chain, VotePhases)
          BY <2>1 DEF ComponentSet
    <3>2. QED
          BY <3>1 DEF Maps, VotePhases
  <2>3. \A i \in DOMAIN t.precommits :
            i \in 0 .. MaxBlocksInView /\ t.precommits[i] \in Hashes
    <3>1. t.precommits \in Maps(Numbers, Chain)
          BY <2>1 DEF ComponentSet
    <3>2. QED
          BY <3>1, DataFact DEF Maps, Numbers
  <2>4. QED
        BY <2>1, <2>2, <2>3, DataFact DEF ComponentSet, ComponentOK, Numbers, t
<1>9. QED
      BY <1>2, <1>5, <1>6, <1>7, <1>8
      DEF Sound, Located, Numbers, Fresh, Done, InOrder, Transactions, Txs, Entries

(* The slots of a view are executed in order, without a gap, and later     *)
(* views after earlier ones (executeBlocksFrom): ExecutesInOrder without   *)
(* what it says of the hashes.                                             *)
SlotsInOrder ==
    \A n \in PID : \A k \in DOMAIN node[n].executed :
        LET e == node[n].executed[k]
            d == node[n].executed[k - 1]
        IN  \/ e.seq = 1 /\ (k > 1 => d.view < e.view)
            \/ k > 1 /\ d.view = e.view /\ d.seq + 1 = e.seq

(* What follows from the invariant.                                        *)
LEMMA SoundFact == AllSound => TypeOK /\ RepliedOnce /\ SlotsInOrder
<1> SUFFICES ASSUME AllSound PROVE TypeOK /\ RepliedOnce /\ SlotsInOrder
    OBVIOUS
<1>1. PICK F \in Ledgers : \A n \in PID : Sound(F, node[n]) /\ node[n].myid = n
      BY DEF AllSound
<1>2. TypeOK
  <2>1. ASSUME NEW n \in PID
        PROVE  /\ node[n].myid = n
               /\ node[n].view \in Views
               /\ ComponentOK(node[n].tp)
               /\ node[n].verifiedJust \in Justs
               /\ node[n].lastExecutedSeq \in 0 .. MaxBlocksInView
               /\ \A v \in DOMAIN node[n].pblocks :
                      node[n].pblocks[v] \in {<<>>} \cup [SeqNumbers -> PBlocks]
               /\ \A k \in DOMAIN LogTypes : \A m \in node[n].log[k] :
                      WellFormed(m) /\ m.type = LogTypes[k]
               /\ \A d \in PID : \A k \in DOMAIN node[n].out[d] :
                      WellFormed(node[n].out[d][k])
               /\ node[n].transactions \in Seq(1 .. NumInstances)
               /\ node[n].replied \in Seq(1 .. NumInstances)
               /\ node[n].executed \in
                      Seq([view : Views, seq : SeqNumbers, hash : Hashes])
    <3> DEFINE s == node[n]
    <3>1. Sound(F, s) /\ s.myid = n
          BY <1>1
    <3> HIDE DEF s
    <3>2. QED
          BY <3>1, SoundTyped DEF s
  <2>2. QED
        BY <2>1 DEF AllSound, TypeOK
<1>3. RepliedOnce
      BY <1>1 DEF Sound, Done, RepliedOnce
<1>4. SlotsInOrder
      BY <1>1 DEF Sound, InOrder, SlotsInOrder
<1>5. QED
      BY <1>2, <1>3, <1>4

(* Every step keeps the invariant and sends nothing that is not backed.    *)
LEMMA EveryStep == AllSound /\ [Next]_vars => AllSound' /\ Spoken
<1> SUFFICES ASSUME AllSound, [Next]_vars PROVE AllSound' /\ Spoken
    OBVIOUS
<1>1. CASE Next
      BY <1>1, DeliverSound, OwnSound DEF Next
<1>2. CASE UNCHANGED vars
  <2>1. AllSound'
        BY <1>2 DEF vars, AllSound
  <2>2. ASSUME NEW n \in PID, NEW d \in PID
        PROVE  Len(node'[n].out[d]) <= Len(node[n].out[d])
    <3>1. \E F : node[n].out[d] \in Seq(MessageSets(F))
          BY DEF AllSound, Sound
    <3>2. Len(node[n].out[d]) \in Nat
          BY <3>1
    <3>3. QED
          BY <1>2, <3>2 DEF vars
  <2>3. QED
        BY <2>1, <2>2 DEF Spoken
<1>3. QED
      BY <1>1, <1>2

(* The invariant.                                                          *)
LEMMA AlwaysSound == Spec => []AllSound
<1>1. AllSound /\ [Next]_vars => AllSound'
      BY EveryStep
<1>2. QED
      BY <1>1, InitSound, PTL DEF Spec

(* Whatever happens, the state of every replica is well formed: views stay *)
(* below the number of views to run, the slots of a view hold blocks or    *)
(* nothing, and what the components have signed, the logs, the connections *)
(* and the histories hold data of their types.                             *)
THEOREM TypesCorrect == Spec => []TypeOK
BY AlwaysSound, SoundFact, PTL

(* No transaction is replied twice by a replica: a leader puts what it     *)
(* takes from its queue in one slot of one view (preparePara), recovery    *)
(* returns blocks to the view they were proposed in, and                   *)
(* executeBlocksFrom goes through the slots once, in order                 *)
(* (Handler::replyTransactions).                                           *)
THEOREM RepliesOnce == Spec => []RepliedOnce
BY AlwaysSound, SoundFact, PTL

(* The blocks of a view are certified in parallel but executed in order:   *)
(* every replica executes blocks 1, 2, ... of a view without a gap, and    *)
(* later views after earlier ones (executeBlocksFrom, executeRDataPara).   *)
THEOREM SlotsExecutedInOrder == Spec => []SlotsInOrder
BY AlwaysSound, SoundFact, PTL

(* If Just::operator== compares what it is meant to, a replica votes for a *)
(* proposal of the leader only if it has verified, in that view, the       *)
(* justification that the proposal is based on (respondToProposalPara).    *)
THEOREM VotesOnVerified == EqualsReturns = {FALSE} => (Spec => VotesVerified)
<1> SUFFICES ASSUME EqualsReturns = {FALSE} PROVE Spec => VotesVerified
    OBVIOUS
<1> DEFINE Voting ==
               \A n, d \in PID :
                  LET r == Last(node'[n].out[d]).rdata
                      j == node'[n].verifiedJust
                  IN  Sends(n, d, "prepare_para") /\ getLeaderOf(r.propv) # n =>
                         /\ j.set
                         /\ [propv |-> j.rdata.propv, justv |-> j.rdata.justv,
                             justh |-> j.rdata.justh]
                               = [propv |-> r.propv, justv |-> r.justv,
                                  justh |-> r.justh]
<1>1. AllSound /\ AllSound' /\ Spoken => Voting
  <2> SUFFICES ASSUME AllSound, AllSound', Spoken, NEW n \in PID, NEW d \in PID,
                      Sends(n, d, "prepare_para"),
                      getLeaderOf(Last(node'[n].out[d]).rdata.propv) # n
               PROVE  LET r == Last(node'[n].out[d]).rdata
                          j == node'[n].verifiedJust
                      IN  /\ j.set
                          /\ [propv |-> j.rdata.propv, justv |-> j.rdata.justv,
                              justh |-> j.rdata.justh]
                                = [propv |-> r.propv, justv |-> r.justv,
                                   justh |-> r.justh]
      OBVIOUS
  <2>1. Len(node[n].out[d]) \in Nat /\ Len(node'[n].out[d]) \in Nat
    <3>1. \E F : node[n].out[d] \in Seq(MessageSets(F))
          BY DEF AllSound, Sound
    <3>2. \E F : node'[n].out[d] \in Seq(MessageSets(F))
          BY DEF AllSound, Sound
    <3>3. QED
          BY <3>1, <3>2
  <2>2. Backed(n, node'[n].verifiedJust, Last(node'[n].out[d]))
        BY <2>1 DEF Spoken, Sends
  <2>3. QED
        BY <2>2 DEF Backed, Sends
<1>2. AllSound /\ AllSound' /\ [Next]_vars => [Voting]_vars
      BY <1>1, EveryStep
<1> HIDE DEF Voting
<1>3. Spec => [][Voting]_vars
      BY <1>2, AlwaysSound, PTL DEF Spec
<1>4. QED
      BY <1>3 DEF Voting, VotesVerified
===============================================================================
