--------------------------- MODULE ChainedLedger ----------------------------
(***************************************************************************)
(* What Chained HotStuff guarantees, and why: the inductive invariant, as  *)
(* a statement about a ledger K of what the replicas have committed        *)
(* themselves to.                                                          *)
(*                                                                         *)
(*   K.proposed[v]  the block that the leader of view v has made           *)
(*   K.adopted[n]   the views whose block the trusted component of n was   *)
(*                  given to vote for, and took its parent as prepared     *)
(*   K.voted[n]     those of them for which it did vote                    *)
(*   K.view[n]      the view of the component                              *)
(*                                                                         *)
(* A component keeps no lock that matters here: it takes over whatever the *)
(* block it is given is built on.  What protects a block is that every     *)
(* leader extends the highest prepared block that a quorum reports.        *)
(***************************************************************************)
EXTENDS ChainedHotStuff, ReplicaProofs

-----------------------------------------------------------------------------
(* The ledger.                                                             *)

HashOf(K, v)    == hash_ch(K.proposed[v])
Parent(K, v)    == getCView(K.proposed[v].just)
Certified(K, v) == Cardinality({n \in PID : v \in K.voted[n]}) >= QSize

(* Of the blocks that the component of n has adopted up to view v, the     *)
(* last one is built on block j, which is prepared then.                   *)
Prepared(K, n, v, j) ==
    \/ j = 0 /\ \A u \in K.adopted[n] : v < u
    \/ \E u \in K.adopted[n] :
           /\ u <= v /\ j = Parent(K, u)
           /\ \A w \in K.adopted[n] : w <= v => w <= u

(* A quorum have left view u - 1 with a block prepared of view j at most.  *)
Supported(K, u, j) ==
    \E S \in SUBSET PID :
        /\ Cardinality(S) >= QSize
        /\ \A n \in S : /\ u <= K.view[n]
                        /\ \E i \in 0 .. j : Prepared(K, n, u - 1, i)

BlockFields == {"view", "just", "trans", "executed"}

BlockType(b) ==
    /\ b = JBlock(b.view, b.just, b.trans)
    /\ b.view \in Nat /\ b.trans \in Seq(Nat)
    /\ b.just.rdata.propv \in Nat /\ b.just.rdata.phase \in Phase
    /\ getSigners(b.just.signs) \in SUBSET PID
    /\ getCView(b.just) \in Nat /\ getCHash(b.just) \in Chain

(* The block of view u is built on a block that is certified in the view   *)
(* before, or on the highest prepared block that a quorum have reported.   *)
ParentSound(K, u) ==
    LET b == K.proposed[u]
        j == Parent(K, u)
    IN  /\ b.view = u /\ u = b.just.rdata.propv + 1
        /\ j \in DOMAIN K.proposed /\ j < u
        /\ getCHash(b.just) = HashOf(K, j)
        /\ \/ j + 1 = u /\ Certified(K, j)
           \/ (j + 1 = u => u = 1) /\ Supported(K, u, j)

LedgerType(K) ==
    /\ DOMAIN K.proposed \subseteq Nat
    /\ 0 \in DOMAIN K.proposed /\ K.proposed[0] = GenesisBlock
    /\ \A v \in DOMAIN K.proposed : BlockType(K.proposed[v])
    /\ K.voted \in [PID -> SUBSET Nat]
    /\ K.adopted \in [PID -> SUBSET Nat]
    /\ K.view \in [PID -> Nat]

AdoptedSound(K) ==
    \A n \in PID :
        /\ K.voted[n] \subseteq K.adopted[n]
        /\ \A v \in K.adopted[n] :
              v \in DOMAIN K.proposed /\ v # 0 /\ v <= K.view[n]

ParentsSound(K) == \A u \in DOMAIN K.proposed \ {0} : ParentSound(K, u)

Sound(K) == LedgerType(K) /\ AdoptedSound(K) /\ ParentsSound(K)

-----------------------------------------------------------------------------
(* Signed data and messages.                                               *)

(* The signature of replica n of the hash of a block.                      *)
VoteSound(K, n, rdata) ==
    /\ rdata.propv \in K.voted[n] /\ rdata.proph = HashOf(K, rdata.propv)
    /\ rdata.phase \in Phase

(* What replica n reports when it leaves a view.                           *)
ReportSound(K, n, rdata) ==
    /\ rdata.propv < K.view[n]
    /\ \E j \in DOMAIN K.proposed :
          /\ Prepared(K, n, rdata.propv, j)
          /\ rdata = RData(Dummy, rdata.propv, HashOf(K, j), j, NEWVIEW)

NewviewSound(K, m) ==
    /\ m.rdata.propv \in Nat /\ m.rdata.justv \in Nat
    /\ \E n \in PID :
          /\ m = [type |-> "newview_ch", rdata |-> m.rdata,
                  signs |-> {Signature(n, m.rdata)}]
          /\ m.rdata.phase = NEWVIEW => ReportSound(K, n, m.rdata)

PrepareSound(K, m) ==
    \E n \in PID : /\ m = [type |-> "prepare_ch", rdata |-> m.rdata,
                           signs |-> {Signature(n, m.rdata)}]
                   /\ VoteSound(K, n, m.rdata)

ProposalSound(K, m) ==
    /\ m.type = "ldrprepare_ch"
    /\ m.block.view \in DOMAIN K.proposed \ {0}
    /\ m.block = K.proposed[m.block.view]
    /\ \E n \in PID : \E rdata :
          /\ m.signs = {Signature(n, rdata)} /\ VoteSound(K, n, rdata)
          /\ rdata.propv = m.block.view

MessageSound(K, m) ==
    NewviewSound(K, m) \/ PrepareSound(K, m) \/ ProposalSound(K, m)

(* A certificate, which need not verify: its votes may be of two phases.   *)
CertSound(K, j) ==
    /\ Certified(K, j.rdata.propv) /\ j.rdata.proph = HashOf(K, j.rdata.propv)
    /\ j.rdata.phase \in Phase
    /\ Cardinality(j.signs) = QSize /\ getSigners(j.signs) \in SUBSET PID

-----------------------------------------------------------------------------
(* The state of replica n.                                                 *)

Fields ==
    {"myid", "view", "transactions", "started", "isPaused", "stopped",
     "timer", "pending", "fromClient", "executed", "replied", "out", "tp",
     "jblocks", "justNV", "log"}

Shape(n, s) ==
    /\ DOMAIN s = Fields
    /\ s.myid = n /\ s.view \in Nat
    /\ s.transactions \in Seq(Nat) /\ s.fromClient \in Seq(Nat)
    /\ s.view = 0 => s.timer = FALSE /\ s.jblocks = <<>>
    /\ s.view # 0 => 0 \in DOMAIN s.jblocks
    /\ ~s.started => s.view = 0

ComponentSound(K, n, t) ==
    /\ DOMAIN t = {"lockh", "lockv", "preph", "prepv", "view", "phase", "signed"}
    /\ t.view = K.view[n] /\ t.phase \in {NEWVIEW, PREPARE}
    /\ t.prepv \in DOMAIN K.proposed /\ Prepared(K, n, t.view, t.prepv)
    /\ t.preph = HashOf(K, t.prepv)

LogSound(K, n, log) ==
    /\ DOMAIN log = {"newviewsCh", "preparesCh", "ldrpreparesCh"}
    /\ \A k \in DOMAIN log : IsFiniteSet(log[k])
    /\ \A m \in log.newviewsCh :
          /\ NewviewSound(K, m)
          /\ getLeaderOf(m.rdata.propv + 1) = n => m.rdata.phase = NEWVIEW
    /\ \A m \in log.preparesCh : PrepareSound(K, m)
    /\ \A m \in log.ldrpreparesCh : ProposalSound(K, m)
    /\ \A m1, m2 \in log.preparesCh :
          /\ m1.rdata.propv = m2.rdata.propv
          /\ getSigners(m1.signs) = getSigners(m2.signs)
          => m1 = m2

OutSound(K, out) ==
    /\ DOMAIN out = PID
    /\ \A d \in PID :
          /\ \E Msgs : out[d] \in Seq(Msgs)
          /\ \A k \in DOMAIN out[d] : MessageSound(K, out[d][k])

(* The blocks that a replica knows are those proposed.                     *)
BlocksSound(K, s) ==
    \A v \in DOMAIN s.jblocks :
        /\ v \in DOMAIN K.proposed /\ v <= s.view
        /\ s.jblocks[v].executed \in BOOLEAN
        /\ s.jblocks[v] = [K.proposed[v] EXCEPT !.executed = s.jblocks[v].executed]

(* A leader makes one block in a view.                                     *)
LeaderSound(K, n, s) ==
    \A v \in DOMAIN K.proposed \ {0} :
        getLeaderOf(v) = n => v \in DOMAIN s.jblocks

(* justNV is of an earlier view.  If it is of the last one it is a         *)
(* certificate, until it is replaced to make a block.                      *)
JustSound(K, n, s) ==
    /\ s.justNV.set =>
          LET v == s.justNV.rdata.propv
          IN  /\ v \in Nat /\ v < s.view
              /\ v + 1 = s.view =>
                    s.view \in DOMAIN s.jblocks \/ CertSound(K, s.justNV)
    /\ s.pending = "prepareCh" =>
          /\ s.justNV.set /\ s.justNV.rdata.propv + 1 = s.view
          /\ s.view \notin DOMAIN s.jblocks /\ getLeaderOf(s.view) = n

(* A replica executes a block once, and after its parent.                  *)
ExecutedSound(K, s) ==
    /\ \E Entries : s.executed \in Seq(Entries)
    /\ \A k \in DOMAIN s.executed :
          LET e == s.executed[k]
          IN  /\ e.view \in DOMAIN s.jblocks /\ e.view < s.view
              /\ s.jblocks[e.view].executed
              /\ e.hash = HashOf(K, e.view)
              /\ e.view # 0 => \E i \in DOMAIN s.executed :
                     i < k /\ s.executed[i].view = Parent(K, e.view)
              /\ \A i \in DOMAIN s.executed : i # k => s.executed[i].view # e.view
    /\ \A v \in DOMAIN s.jblocks : s.jblocks[v].executed =>
          \E k \in DOMAIN s.executed : s.executed[k].view = v

BodySound(K, n, s) ==
    /\ Shape(n, s)
    /\ LogSound(K, n, s.log)
    /\ OutSound(K, s.out)
    /\ BlocksSound(K, s)
    /\ LeaderSound(K, n, s)
    /\ JustSound(K, n, s)
    /\ ExecutedSound(K, s)

ReplicaSound(K, n, s) == BodySound(K, n, s) /\ ComponentSound(K, n, s.tp)

(* The invariant.                                                          *)
Accounted ==
    /\ DOMAIN node = PID
    /\ \E K : Sound(K) /\ \A n \in PID : ReplicaSound(K, n, node[n])

(* What a step of replica n may do to the ledger: the component does not   *)
(* go back to a view it has left.                                          *)
Grows(K, n, L) ==
    /\ \A v \in DOMAIN K.proposed :
          v \in DOMAIN L.proposed /\ L.proposed[v] = K.proposed[v]
    /\ \A v \in DOMAIN L.proposed :
          v \in DOMAIN K.proposed \/ getLeaderOf(v) = n
    /\ \A m \in PID :
          /\ K.voted[m] \subseteq L.voted[m] /\ K.adopted[m] \subseteq L.adopted[m]
          /\ K.view[m] <= L.view[m]
          /\ \A v \in L.adopted[m] : v \in K.adopted[m] \/ K.view[m] <= v
          /\ m # n => K.adopted[m] = L.adopted[m] /\ K.view[m] = L.view[m]

(* Replica n may get to state s.                                           *)
Leads(K, n, s) == \E L : Sound(L) /\ Grows(K, n, L) /\ ReplicaSound(L, n, s)
=============================================================================
