---------------------------- MODULE BasicLedger -----------------------------
(***************************************************************************)
(* Why the replicas of Basic HotStuff agree: the inductive invariant, as a *)
(* statement about a ledger K of what the replicas have committed          *)
(* themselves to.                                                          *)
(*                                                                         *)
(*   K.proposed[v]  the block proposed in view v (by the leader of v)      *)
(*   K.voted[n]     the views in which the trusted component of n has      *)
(*                  signed the hash of a block                             *)
(*   K.stored[n]    the views of which it has stored a certificate         *)
(*   K.view[n]      its view                                               *)
(*                                                                         *)
(* Every message, every entry of a log and every trusted component is      *)
(* sound with respect to the ledger, and the ledger itself is sound: once  *)
(* a quorum has stored certificates of a view, every block certified later *)
(* extends the block of that view.                                         *)
(***************************************************************************)
EXTENDS BasicHotStuff, ReplicaProofs

-----------------------------------------------------------------------------
(* The ledger.                                                             *)

Chain      == Seq(Seq(Nat))
ChainBlock == [prevHash : Chain, trans : Seq(Nat)]

HashOf(K, v)    == hash(K.proposed[v])
Certified(K, v) == Cardinality({n \in PID : v \in K.voted[n]}) >= QSize
Kept(K, v)      == Cardinality({n \in PID : v \in K.stored[n]}) >= QSize

(* The replicas that have stored a certificate of view v or still may.     *)
Open(K, v) == {n \in PID : v \in K.stored[n] \/ K.view[n] <= v}

(* The block of view v extends that of a certified view from v0 on.        *)
ExtendsFrom(K, v0, v) ==
    \E w \in v0 .. v - 1 :
        Certified(K, w) /\ K.proposed[v].prevHash = HashOf(K, w)

LedgerType(K) ==
    /\ DOMAIN K.proposed \subseteq Nat
    /\ \A v \in DOMAIN K.proposed : K.proposed[v] \in ChainBlock
    /\ K.voted \in [PID -> SUBSET Nat]
    /\ K.stored \in [PID -> SUBSET Nat]
    /\ K.view \in [PID -> Nat]

VotedSound(K) ==
    \A n \in PID : \A v \in K.voted[n] :
        v \in DOMAIN K.proposed /\ v <= K.view[n]

StoredSound(K) ==
    \A n \in PID : \A v \in K.stored[n] : v \in K.voted[n] /\ Certified(K, v)

(* safenode: a vote after a stored certificate is for a descendant.        *)
LocksSound(K) ==
    \A n \in PID : \A v0 \in K.stored[n], v \in K.voted[n] :
        v0 < v => Certified(K, v) \/ ExtendsFrom(K, v0, v)

ChainSound(K) ==
    \A v0, v \in Nat :
        v0 < v /\ Certified(K, v) /\ Cardinality(Open(K, v0)) >= QSize =>
            /\ v0 \in DOMAIN K.proposed
            /\ IsPrefix(HashOf(K, v0), HashOf(K, v))

Sound(K) ==
    LedgerType(K) /\ VotedSound(K) /\ StoredSound(K) /\ LocksSound(K)
        /\ ChainSound(K)

-----------------------------------------------------------------------------
(* Signed data and messages.                                               *)

(* A signature of the hash of a block.                                     *)
VoteSound(K, g) ==
    /\ DOMAIN g = {"signer", "rdata"} /\ g = Signature(g.signer, g.rdata)
    /\ g.signer \in PID
    /\ g.rdata.propv \in K.voted[g.signer]
    /\ g.rdata.proph = HashOf(K, g.rdata.propv)

VotesSound(K, signs) == IsFiniteSet(signs) /\ \A g \in signs : VoteSound(K, g)

(* The prepared block that a new-view message reports.                     *)
ReportSound(K, rdata) ==
    /\ rdata.propv \in Nat /\ rdata.justv \in Nat
    /\ \/ rdata.justh = Genesis /\ rdata.justv = 0
       \/ /\ rdata.justv < rdata.propv /\ Certified(K, rdata.justv)
          /\ rdata.justh = HashOf(K, rdata.justv)

Refusal(m) == m.rdata = NoJust.rdata /\ m.signs = {}

NewviewSound(K, m) ==
    /\ m.type = "newview" /\ m.rdata.propv \in Nat
    /\ \E n \in PID : m.signs = {Signature(n, m.rdata)}
    /\ m.rdata.phase = NEWVIEW => ReportSound(K, m.rdata)

ProposalSound(K, m) ==
    LET rdata == m.just.rdata
    IN  /\ m.type = "ldrprepare" /\ ReportSound(K, rdata)
        /\ rdata.propv \in DOMAIN K.proposed
        /\ m.block = K.proposed[rdata.propv]
        /\ m.block.prevHash = rdata.justh
        /\ Signed(m)

(* Votes for prepare and pre-commit, single or put together.               *)
CertSound(K, type, m) ==
    /\ m = Msg(type, m.rdata, m.signs)
    /\ m.rdata.propv \in Nat /\ VotesSound(K, m.signs)
    /\ m.signs = {} => Refusal(m)

(* Commit votes sent to d, or logged by d: the leader of the view gets     *)
(* single votes, everybody else quorums of votes.                          *)
CommitSound(K, d, m) ==
    /\ CertSound(K, "commit", m)
    /\ \A g \in m.signs : g.rdata.propv \in K.stored[g.signer]
    /\ \/ Refusal(m)
       \/ /\ getLeaderOf(m.rdata.propv) = d
          /\ \E n \in PID : m.signs = {Signature(n, m.rdata)}
       \/ /\ getLeaderOf(m.rdata.propv) # d
          /\ Cardinality(m.signs) = QSize

(* A message on a connection to d.  Nobody sends a leader a proposal for   *)
(* its own view.                                                           *)
MessageSound(K, d, m) ==
    \/ NewviewSound(K, m)
    \/ ProposalSound(K, m) /\ getLeaderOf(m.just.rdata.propv) # d
    \/ CertSound(K, "prepare", m)
    \/ CertSound(K, "precommit", m)
    \/ CommitSound(K, d, m)

-----------------------------------------------------------------------------
(* The state of replica n.                                                 *)

Fields ==
    {"myid", "view", "transactions", "started", "isPaused", "stopped",
     "timer", "pending", "fromClient", "executed", "replied", "out", "tf",
     "log", "blocks"}

Shape(n, s) ==
    /\ DOMAIN s = Fields
    /\ s.myid = n /\ s.view \in Nat
    /\ s.transactions \in Seq(Nat) /\ s.fromClient \in Seq(Nat)

(* The trusted component.  It is locked on the last block whose            *)
(* certificate it has stored.                                              *)
ComponentSound(K, n, t) ==
    /\ DOMAIN t = {"lockh", "lockv", "preph", "prepv", "view", "phase", "signed"}
    /\ t.view = K.view[n] /\ t.phase \in Phase
    /\ t.lockv \in Nat /\ t.prepv = t.lockv /\ t.preph = t.lockh
    /\ \/ K.stored[n] = {} /\ t.lockv = 0 /\ t.lockh = Genesis
       \/ t.lockv \in K.stored[n] /\ t.lockh = HashOf(K, t.lockv)
    /\ \A v \in K.stored[n] :
          v <= t.lockv /\ Stamp(v, NEWVIEW) < Stamp(t.view, t.phase)

LogSound(K, n, log) ==
    /\ DOMAIN log = {"newviews", "prepares", "precommits", "commits", "proposals"}
    /\ \A k \in DOMAIN log : IsFiniteSet(log[k])
    /\ \A m \in log.newviews : NewviewSound(K, m) /\ m.rdata.phase = NEWVIEW
    /\ \A m \in log.prepares : CertSound(K, "prepare", m)
    /\ \A m \in log.precommits : CertSound(K, "precommit", m)
    /\ \A m \in log.proposals : ProposalSound(K, m)
    /\ \A m \in log.commits :
          /\ CommitSound(K, n, m)
          /\ getLeaderOf(m.rdata.propv) # n => verify(m.signs, m.rdata)
    /\ \A m1, m2 \in log.commits :
          /\ getLeaderOf(m1.rdata.propv) = n
          /\ m1.rdata.propv = m2.rdata.propv
          /\ getSigners(m1.signs) \cap getSigners(m2.signs) # {}
          => m1 = m2

OutSound(K, out) ==
    /\ DOMAIN out = PID
    /\ \A d \in PID :
          /\ \E Msgs : out[d] \in Seq(Msgs)
          /\ \A k \in DOMAIN out[d] : MessageSound(K, d, out[d][k])

ExecutedSound(K, executed) ==
    /\ \E Entries : executed \in Seq(Entries)
    /\ \A k \in DOMAIN executed :
          /\ executed[k].view \in DOMAIN K.proposed
          /\ executed[k].hash = HashOf(K, executed[k].view)
          /\ Kept(K, executed[k].view)

(* A leader proposes once in a view, when it has a quorum of new-views.    *)
LeaderSound(K, n, view, newviews) ==
    \A v \in DOMAIN K.proposed :
        getLeaderOf(v) = n =>
            v <= view /\ Cardinality(InView(newviews, v)) >= QSize

BodySound(K, n, s) ==
    /\ Shape(n, s)
    /\ LogSound(K, n, s.log)
    /\ OutSound(K, s.out)
    /\ ExecutedSound(K, s.executed)

ReplicaSound(K, n, s) ==
    /\ BodySound(K, n, s)
    /\ ComponentSound(K, n, s.tf)
    /\ LeaderSound(K, n, s.view, s.log.newviews)

(* The invariant.                                                          *)
Accounted ==
    /\ DOMAIN node = PID
    /\ \E K : Sound(K) /\ \A n \in PID : ReplicaSound(K, n, node[n])

(* What a step of replica n may do to the ledger.                          *)
Grows(K, n, L) ==
    /\ \A v \in DOMAIN K.proposed :
          v \in DOMAIN L.proposed /\ L.proposed[v] = K.proposed[v]
    /\ \A v \in DOMAIN L.proposed :
          v \in DOMAIN K.proposed \/ getLeaderOf(v) = n
    /\ \A m \in PID :
          /\ K.voted[m] \subseteq L.voted[m] /\ K.stored[m] \subseteq L.stored[m]
          /\ m # n => K.stored[m] = L.stored[m] /\ K.view[m] = L.view[m]

(* Replica n may get to state s.                                           *)
Leads(K, n, s) == \E L : Sound(L) /\ Grows(K, n, L) /\ ReplicaSound(L, n, s)
=============================================================================
