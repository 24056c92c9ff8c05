---------------------------- MODULE BasicReplies ----------------------------
(***************************************************************************)
(* Why no replica of Basic HotStuff replies twice to a transaction: no     *)
(* view is executed twice by a replica, not even the last one, which is    *)
(* not left after its execution, and no transaction is in two blocks.      *)
(*                                                                         *)
(* The invariant speaks of the rounds R that the leaders have completed:   *)
(*                                                                         *)
(*   R.block[v]      the block proposed in view v                          *)
(*   R.prepared      the views whose leader has logged a quorum of         *)
(*                   prepare votes, ...                                    *)
(*   R.precommitted  ... a quorum of pre-commit votes,                     *)
(*   R.committed     ... a quorum of commit votes, and has executed        *)
(*   R.taken         <<v, n>> if the commit certificate of view v has      *)
(*                   reached replica n                                     *)
(*                                                                         *)
(* Votes count once, so that each of these quorums is completed once; a    *)
(* certificate is sent when it is, and taken once.                         *)
(***************************************************************************)
EXTENDS BasicProofs

-----------------------------------------------------------------------------
(* The rounds.                                                             *)

TransOf(R, v) == Range(R.block[v].trans)

Consistent(R) ==
    /\ \A v \in DOMAIN R.block :
          /\ R.block[v] \in BlockSet /\ IsInjective(R.block[v].trans)
          /\ TransOf(R, v) \subseteq Dealt(getLeaderOf(v), 0)
    /\ \A v, w \in DOMAIN R.block : v # w => TransOf(R, v) \cap TransOf(R, w) = {}
    /\ R.committed \subseteq R.precommitted
    /\ R.precommitted \subseteq R.prepared /\ R.prepared \subseteq DOMAIN R.block
    /\ \A v, n : <<v, n>> \in R.taken => v \in R.committed

-----------------------------------------------------------------------------
(* Messages to replica d.                                                  *)

NoVote(m) == m.signs = {} /\ m.rdata = NoJust.rdata

NewviewFits(m) == \E g \in m.signs : m.signs = {g}

PrepareFits(R, d, m) ==
    LET v == m.rdata.propv
    IN  /\ m.signs # {} /\ v \in DOMAIN R.block
        /\ getLeaderOf(v) # d => v \in R.prepared

PrecommitFits(R, d, m) ==
    LET v == m.rdata.propv
    IN  \/ NoVote(m)
        \/ m.signs # {} /\ v \in IF getLeaderOf(v) = d THEN R.prepared
                                 ELSE R.precommitted

CommitFits(R, d, m) ==
    LET v == m.rdata.propv
    IN  \/ NoVote(m)
        \/ m.signs # {} /\ v \in IF getLeaderOf(v) = d THEN R.precommitted
                                 ELSE R.committed

ProposalFits(R, d, m) ==
    LET v == m.just.rdata.propv
    IN  getLeaderOf(v) # d /\ v \in DOMAIN R.block /\ m.block = R.block[v]

Fits(R, d, m) ==
    /\ m.type = "newview" => NewviewFits(m)
    /\ m.type = "prepare" => PrepareFits(R, d, m)
    /\ m.type = "precommit" => PrecommitFits(R, d, m)
    /\ m.type = "commit" => CommitFits(R, d, m)
    /\ m.type = "ldrprepare" => ProposalFits(R, d, m)

(* What makes a replica other than the leader execute.                     *)
Certifies(d, m) ==
    m.type = "commit" /\ m.signs # {} /\ getLeaderOf(m.rdata.propv) # d

-----------------------------------------------------------------------------
(* The state of replica n.                                                 *)

Counts(msgs, v) == Cardinality(InView(msgs, v)) >= QSize

Leading(R, n, view, log) ==
    \A v \in Nat : getLeaderOf(v) = n =>
        /\ v \in DOMAIN R.block => v <= view /\ Counts(log.newviews, v)
        /\ v \in R.prepared     => Counts(log.prepares, v)
        /\ v \in R.precommitted => Counts(log.precommits, v)
        /\ v \in R.committed    => Counts(log.commits, v)

LogFits(R, n, log) ==
    \A k \in LogFields : \A m \in log[k] :
        /\ Fits(R, n, m)
        /\ Certifies(n, m) => <<m.rdata.propv, n>> \in R.taken

(* A certificate is sent to a replica once, by the leader of its view.     *)
OutFits(R, n, out) ==
    \A d \in PID : \A k \in DOMAIN out[d] :
        /\ Fits(R, d, out[d][k])
        /\ Certifies(d, out[d][k]) =>
              /\ getLeaderOf(out[d][k].rdata.propv) = n
              /\ <<out[d][k].rdata.propv, d>> \notin R.taken
              /\ \A l \in DOMAIN out[d] :
                    /\ Certifies(d, out[d][l])
                    /\ out[d][l].rdata.propv = out[d][k].rdata.propv
                    => l = k

ExecutedFits(R, n, view, executed) ==
    /\ \A k \in DOMAIN executed :
          LET v == executed[k].view
          IN  /\ v <= view /\ v \in R.committed
              /\ getLeaderOf(v) # n => <<v, n>> \in R.taken
    /\ \A k, l \in DOMAIN executed : executed[k].view = executed[l].view => k = l

RepliesFit(R, executed, replied) ==
    /\ IsInjective(replied)
    /\ \A t \in Range(replied) :
          \E k \in DOMAIN executed : t \in TransOf(R, executed[k].view)

BlocksFit(R, blocks) ==
    \A v \in DOMAIN blocks : v \in DOMAIN R.block /\ blocks[v] = R.block[v]

QueuesFit(R, n, queue, client) ==
    /\ IsInjective(queue) /\ IsInjective(client) /\ Apart(queue, client)
    /\ \A t \in Range(queue) \cup Range(client) :
          t \in Dealt(n, 0) /\ \A v \in DOMAIN R.block : t \notin TransOf(R, v)

InLine(R, s) ==
    /\ Leading(R, s.myid, s.view, s.log)
    /\ LogFits(R, s.myid, s.log)
    /\ OutFits(R, s.myid, s.out)
    /\ ExecutedFits(R, s.myid, s.view, s.executed)
    /\ RepliesFit(R, s.executed, s.replied)
    /\ BlocksFit(R, s.blocks)
    /\ QueuesFit(R, s.myid, s.transactions, s.fromClient)

(* The invariant.                                                          *)
AllInLine ==
    AllTyped /\ \E R : Consistent(R) /\ \A n \in PID : InLine(R, node[n])

-----------------------------------------------------------------------------
(* The rounds grow.                                                        *)

(* What a step of replica n may add to the rounds: those of the views that *)
(* it leads.                                                               *)
Extends(R, Q, n) ==
    /\ \A v \in DOMAIN R.block : v \in DOMAIN Q.block /\ Q.block[v] = R.block[v]
    /\ \A v \in DOMAIN Q.block : v \in DOMAIN R.block \/ getLeaderOf(v) = n
    /\ R.prepared \subseteq Q.prepared
    /\ \A v \in Q.prepared : v \in R.prepared \/ getLeaderOf(v) = n
    /\ R.precommitted \subseteq Q.precommitted
    /\ \A v \in Q.precommitted : v \in R.precommitted \/ getLeaderOf(v) = n
    /\ R.committed \subseteq Q.committed
    /\ \A v \in Q.committed : v \in R.committed \/ getLeaderOf(v) = n
    /\ Q.taken = R.taken

(* It may do so several times.                                             *)
LEMMA ExtendsOn ==
    /\ \A R, n : Extends(R, R, n)
    /\ \A R, P, Q, n : Extends(R, P, n) /\ Extends(P, Q, n) => Extends(R, Q, n)
<1>1. \A R, n : Extends(R, R, n)
      BY DEF Extends
<1>2. ASSUME NEW R, NEW P, NEW Q, NEW n, Extends(R, P, n), Extends(P, Q, n)
      PROVE  Extends(R, Q, n)
      BY <1>2 DEF Extends
<1>3. QED
      BY <1>1, <1>2

(* Messages stay what they are.                                            *)
LEMMA FitsOn ==
    ASSUME NEW R, NEW Q, NEW n, Extends(R, Q, n), NEW d, NEW m, Fits(R, d, m)
    PROVE  Fits(Q, d, m)
<1>1. m.type = "prepare" => PrepareFits(Q, d, m)
      BY DEF Extends, Fits, PrepareFits
<1>2. m.type = "precommit" => PrecommitFits(Q, d, m)
      BY DEF Extends, Fits, PrecommitFits
<1>3. m.type = "commit" => CommitFits(Q, d, m)
      BY DEF Extends, Fits, CommitFits
<1>4. m.type = "ldrprepare" => ProposalFits(Q, d, m)
      BY DEF Extends, Fits, ProposalFits
<1>5. m.type = "newview" => NewviewFits(m)
      BY DEF Fits
<1>6. QED
      BY <1>1, <1>2, <1>3, <1>4, <1>5 DEF Fits

(* So do replicas, but for what they lead and what waits in their queues.  *)
LEMMA InLineExtends ==
    ASSUME NEW R, Consistent(R), NEW Q, NEW n, Extends(R, Q, n),
           NEW s, InLine(R, s),
           Leading(Q, s.myid, s.view, s.log),
           QueuesFit(Q, s.myid, s.transactions, s.fromClient)
    PROVE  InLine(Q, s)
<1>1. LogFits(Q, s.myid, s.log)
      BY FitsOn DEF InLine, LogFits, Extends
<1>2. OutFits(Q, s.myid, s.out)
  <2>1. OutFits(R, s.myid, s.out) /\ Q.taken = R.taken
        BY DEF InLine, Extends
  <2>2. \A d \in PID : \A k \in DOMAIN s.out[d] : Fits(R, d, s.out[d][k])
        BY <2>1 DEF OutFits
  <2>3. \A d \in PID : \A k \in DOMAIN s.out[d] : Fits(Q, d, s.out[d][k])
        BY <2>2, FitsOn
  <2>4. QED
        BY <2>1, <2>3 DEF OutFits
<1>3. ExecutedFits(Q, s.myid, s.view, s.executed)
      BY DEF InLine, ExecutedFits, Extends
<1>4. RepliesFit(Q, s.executed, s.replied)
  <2>1. \A v \in R.committed : TransOf(R, v) = TransOf(Q, v)
        BY DEF Consistent, Extends, TransOf
  <2>2. \A k \in DOMAIN s.executed : s.executed[k].view \in R.committed
        BY DEF InLine, ExecutedFits
  <2>3. QED
        BY <2>1, <2>2 DEF InLine, RepliesFit
<1>5. BlocksFit(Q, s.blocks)
      BY DEF InLine, BlocksFit, Extends
<1>6. QED
      BY <1>1, <1>2, <1>3, <1>4, <1>5 DEF InLine

(* The rounds of other leaders do not matter to a replica.                 *)
LEMMA OthersExtend ==
    ASSUME NEW R, Consistent(R), NEW Q, Consistent(Q), NEW n \in PID,
           Extends(R, Q, n), NEW s, s.myid \in PID \ {n}, InLine(R, s)
    PROVE  InLine(Q, s)
<1>1. Leading(Q, s.myid, s.view, s.log)
      BY DEF InLine, Leading, Extends
<1>2. ASSUME NEW t, t \in Dealt(s.myid, 0), NEW v \in DOMAIN Q.block,
             v \in DOMAIN R.block => t \notin TransOf(R, v)
      PROVE  t \notin TransOf(Q, v)
  <2>1. CASE v \in DOMAIN R.block
        BY <1>2, <2>1 DEF Extends, TransOf
  <2>2. CASE v \notin DOMAIN R.block
    <3>1. TransOf(Q, v) \subseteq Dealt(n, 0)
          BY <2>2 DEF Extends, Consistent
    <3>2. Dealt(s.myid, 0) \cap Dealt(n, 0) = {}
          BY DealtOnce
    <3>3. QED
          BY <1>2, <3>1, <3>2
  <2>3. QED
        BY <2>1, <2>2
<1>3. QueuesFit(Q, s.myid, s.transactions, s.fromClient)
      BY <1>2 DEF InLine, QueuesFit
<1>4. QED
      BY <1>1, <1>3, InLineExtends

(* The rounds of these parts.                                              *)
Rounds(block, prepared, precommitted, committed, taken) ==
    [block |-> block, prepared |-> prepared, precommitted |-> precommitted,
     committed |-> committed, taken |-> taken]

(* A replica completes a quorum of a view that it leads: of prepare votes  *)
(* (A), of pre-commit votes (B), or of commit votes (C).                   *)
LEMMA Completes ==
    ASSUME NEW R, Consistent(R), NEW s, InLine(R, s),
           NEW v \in Nat, getLeaderOf(v) = s.myid,
           NEW A \in SUBSET {v},
           A # {} => Counts(s.log.prepares, v) /\ v \in DOMAIN R.block,
           NEW B \in SUBSET {v},
           B # {} => Counts(s.log.precommits, v) /\ v \in R.prepared,
           NEW C \in SUBSET {v},
           C # {} => Counts(s.log.commits, v) /\ v \in R.precommitted
    PROVE  LET Q == Rounds(R.block, R.prepared \cup A, R.precommitted \cup B,
                           R.committed \cup C, R.taken)
           IN  Consistent(Q) /\ Extends(R, Q, s.myid) /\ InLine(Q, s)
<1> DEFINE Q == Rounds(R.block, R.prepared \cup A, R.precommitted \cup B,
                       R.committed \cup C, R.taken)
<1>1. /\ Q.block = R.block /\ Q.taken = R.taken
      /\ Q.prepared = R.prepared \cup A
      /\ Q.precommitted = R.precommitted \cup B
      /\ Q.committed = R.committed \cup C
      BY DEF Rounds
<1> HIDE DEF Q
<1>2. Consistent(Q)
  <2>1. \A w : TransOf(Q, w) = TransOf(R, w)
        BY <1>1 DEF TransOf
  <2>2. /\ Q.committed \subseteq Q.precommitted
        /\ Q.precommitted \subseteq Q.prepared /\ Q.prepared \subseteq DOMAIN Q.block
        BY <1>1 DEF Consistent
  <2>3. QED
        BY <1>1, <2>1, <2>2 DEF Consistent
<1>3. Extends(R, Q, s.myid)
      BY <1>1 DEF Extends
<1>4. Leading(Q, s.myid, s.view, s.log)
      BY <1>1 DEF InLine, Leading
<1>5. QueuesFit(Q, s.myid, s.transactions, s.fromClient)
      BY <1>1 DEF InLine, QueuesFit, TransOf
<1>6. InLine(Q, s)
      BY <1>3, <1>4, <1>5, InLineExtends
<1>7. QED
      BY <1>2, <1>3, <1>6 DEF Q

-----------------------------------------------------------------------------
(* Parts of a state.                                                       *)

(* Fields of which InLine does not speak.                                  *)
LEMMA AgreeInLine ==
    ASSUME NEW R, NEW s, InLine(R, s), NEW u,
           u.myid = s.myid, u.view = s.view, u.log = s.log, u.out = s.out,
           u.executed = s.executed, u.replied = s.replied, u.blocks = s.blocks,
           u.transactions = s.transactions, u.fromClient = s.fromClient
    PROVE  InLine(R, u)
BY DEF InLine

(* A call of the component.                                                *)
LEMMA ComponentInLine ==
    ASSUME NEW R, NEW s, WellTyped(s), InLine(R, s), NEW t
    PROVE  /\ InLine(R, [s EXCEPT !.tf = t])
           /\ [s EXCEPT !.tf = t].executed = s.executed
           /\ [s EXCEPT !.tf = t].log = s.log
<1> DEFINE u == [s EXCEPT !.tf = t]
<1>1. /\ u.myid = s.myid /\ u.view = s.view /\ u.log = s.log /\ u.out = s.out
      /\ u.executed = s.executed /\ u.replied = s.replied /\ u.blocks = s.blocks
      /\ u.transactions = s.transactions /\ u.fromClient = s.fromClient
      BY DEF WellTyped, Fields
<1> HIDE DEF u
<1>2. InLine(R, u)
      BY <1>1, AgreeInLine
<1>3. QED
      BY <1>1, <1>2 DEF u

(* multicast_msg appends to connections.                                   *)
LEMMA SendAppends ==
    ASSUME NEW s, WellTyped(s), NEW S, NEW m \in MessageSets
    PROVE  LET u == send(s, S, m)
           IN  /\ u.myid = s.myid /\ u.view = s.view /\ u.log = s.log
               /\ u.executed = s.executed /\ u.replied = s.replied
               /\ u.blocks = s.blocks /\ u.transactions = s.transactions
               /\ u.fromClient = s.fromClient
               /\ \A d \in PID : \A k \in DOMAIN u.out[d] :
                      \/ k \in DOMAIN s.out[d] /\ u.out[d][k] = s.out[d][k]
                      \/ d \in S /\ k = Len(s.out[d]) + 1 /\ u.out[d][k] = m
<1> DEFINE o == [d \in PID |-> IF d \in S THEN Append(s.out[d], m) ELSE s.out[d]]
           u == [s EXCEPT !.out = o]
<1>1. send(s, S, m) = u
      BY DEF send
<1>2. \A d \in PID : s.out[d] \in Seq(MessageSets)
      BY DEF WellTyped
<1>3. ASSUME NEW d \in PID, NEW k \in DOMAIN o[d]
      PROVE  \/ k \in DOMAIN s.out[d] /\ o[d][k] = s.out[d][k]
             \/ d \in S /\ k = Len(s.out[d]) + 1 /\ o[d][k] = m
  <2>1. CASE d \in S
    <3>1. o[d] = Append(s.out[d], m)
          BY <2>1
    <3>2. QED
          BY <1>2, <1>3, <2>1, <3>1
  <2>2. CASE d \notin S
        BY <1>3, <2>2
  <2>3. QED
        BY <2>1, <2>2
<1> HIDE DEF o
<1>4. /\ u.myid = s.myid /\ u.view = s.view /\ u.log = s.log /\ u.out = o
      /\ u.executed = s.executed /\ u.replied = s.replied /\ u.blocks = s.blocks
      /\ u.transactions = s.transactions /\ u.fromClient = s.fromClient
      BY DEF WellTyped, Fields
<1> HIDE DEF u
<1>5. QED
      BY <1>1, <1>3, <1>4

(* Anything but a certificate to execute is sent.                          *)
LEMMA SendInLine ==
    ASSUME NEW R, NEW s, WellTyped(s), InLine(R, s), NEW S, NEW m \in MessageSets,
           \A d \in S \cap PID : Fits(R, d, m) /\ ~Certifies(d, m)
    PROVE  InLine(R, send(s, S, m))
<1> DEFINE u == send(s, S, m)
<1>1. /\ u.myid = s.myid /\ u.view = s.view /\ u.log = s.log
      /\ u.executed = s.executed /\ u.replied = s.replied
      /\ u.blocks = s.blocks /\ u.transactions = s.transactions
      /\ u.fromClient = s.fromClient
      /\ \A d \in PID : \A k \in DOMAIN u.out[d] :
             \/ k \in DOMAIN s.out[d] /\ u.out[d][k] = s.out[d][k]
             \/ d \in S /\ k = Len(s.out[d]) + 1 /\ u.out[d][k] = m
      BY SendAppends
<1> HIDE DEF u
<1>2. ASSUME NEW d \in PID, NEW k \in DOMAIN u.out[d]
      PROVE  /\ Fits(R, d, u.out[d][k])
             /\ Certifies(d, u.out[d][k]) =>
                   k \in DOMAIN s.out[d] /\ u.out[d][k] = s.out[d][k]
      BY <1>1 DEF InLine, OutFits
<1>3. OutFits(R, s.myid, u.out)
      BY <1>2 DEF InLine, OutFits
<1>4. InLine(R, u)
      BY <1>1, <1>3 DEF InLine
<1>5. QED
      BY <1>4 DEF u

(* The leader sends the certificate to execute, for the first time.        *)
LEMMA CertificateInLine ==
    ASSUME NEW R, NEW s, WellTyped(s), InLine(R, s), NEW S, NEW m \in MessageSets,
           \A d \in S \cap PID : Fits(R, d, m),
           getLeaderOf(m.rdata.propv) = s.myid,
           \A d \in PID :
               /\ <<m.rdata.propv, d>> \notin R.taken
               /\ \A k \in DOMAIN s.out[d] : Certifies(d, s.out[d][k]) =>
                     s.out[d][k].rdata.propv # m.rdata.propv
    PROVE  InLine(R, send(s, S, m))
<1> DEFINE u == send(s, S, m)
<1>1. /\ u.myid = s.myid /\ u.view = s.view /\ u.log = s.log
      /\ u.executed = s.executed /\ u.replied = s.replied
      /\ u.blocks = s.blocks /\ u.transactions = s.transactions
      /\ u.fromClient = s.fromClient
      /\ \A d \in PID : \A k \in DOMAIN u.out[d] :
             \/ k \in DOMAIN s.out[d] /\ u.out[d][k] = s.out[d][k]
             \/ d \in S /\ k = Len(s.out[d]) + 1 /\ u.out[d][k] = m
      BY SendAppends
<1> HIDE DEF u
<1>2. ASSUME NEW d \in PID, NEW k \in DOMAIN u.out[d]
      PROVE  Fits(R, d, u.out[d][k])
      BY <1>1 DEF InLine, OutFits
<1>3. ASSUME NEW d \in PID, NEW k \in DOMAIN u.out[d], Certifies(d, u.out[d][k])
      PROVE  /\ getLeaderOf(u.out[d][k].rdata.propv) = s.myid
             /\ <<u.out[d][k].rdata.propv, d>> \notin R.taken
             /\ \A l \in DOMAIN u.out[d] :
                    /\ Certifies(d, u.out[d][l])
                    /\ u.out[d][l].rdata.propv = u.out[d][k].rdata.propv
                    => l = k
  <2>1. CASE k \in DOMAIN s.out[d] /\ u.out[d][k] = s.out[d][k]
        BY <1>1, <1>3, <2>1 DEF InLine, OutFits
  <2>2. CASE k = Len(s.out[d]) + 1 /\ u.out[d][k] = m
        BY <1>1, <1>3, <2>2
  <2>3. QED
        BY <1>1, <2>1, <2>2
<1>4. OutFits(R, s.myid, u.out)
      BY <1>2, <1>3 DEF OutFits
<1>5. InLine(R, u)
      BY <1>1, <1>4 DEF InLine
<1>6. QED
      BY <1>5 DEF u

-----------------------------------------------------------------------------
(* Steps of a replica.                                                     *)

(* A well formed replica that is in line with the rounds.                  *)
Aligned(R, s) == Consistent(R) /\ WellTyped(s) /\ InLine(R, s)

(* It gets to another such state and may complete quorums of its views.    *)
Proceeds(R, s, u) ==
    /\ Remains(s, u)
    /\ \E Q : Consistent(Q) /\ Extends(R, Q, s.myid) /\ InLine(Q, u)

(* Calls follow each other.                                                *)
LEMMA MovesOn ==
    /\ \A R, s, u : Consistent(R) /\ Remains(s, u) /\ InLine(R, u) => Proceeds(R, s, u)
    /\ \A R, Q, s, u, w :
           Extends(R, Q, s.myid) /\ Remains(s, u) /\ Proceeds(Q, u, w) => Proceeds(R, s, w)
<1>1. ASSUME NEW R, NEW s, NEW u, Consistent(R), Remains(s, u), InLine(R, u)
      PROVE  Proceeds(R, s, u)
      BY <1>1, ExtendsOn DEF Proceeds
<1>2. ASSUME NEW R, NEW Q, NEW s, NEW u, NEW w, Extends(R, Q, s.myid),
             Remains(s, u), Proceeds(Q, u, w)
      PROVE  Proceeds(R, s, w)
  <2>1. PICK P : Consistent(P) /\ Extends(Q, P, u.myid) /\ InLine(P, w)
        BY <1>2 DEF Proceeds
  <2>2. Extends(R, P, s.myid)
        BY <1>2, <2>1, ExtendsOn DEF Remains
  <2>3. Remains(s, w)
        BY <1>2, RemainsOn DEF Proceeds
  <2>4. QED
        BY <2>1, <2>2, <2>3 DEF Proceeds
<1>3. QED
      BY <1>1, <1>2

-----------------------------------------------------------------------------
(* Logging.                                                                *)

(* A vote with signatures is counted only when it is new.                  *)
LEMMA StoreSigned ==
    ASSUME NEW msgs, IsFiniteSet(msgs), NEW m, m.signs # {},
           store(msgs, m).size # 0
    PROVE  store(msgs, m).size = Cardinality(InView(msgs, ViewOf(m))) + 1
<1> DEFINE here == InView(msgs, ViewOf(m))
<1>1. ~From(here, getSigners(m.signs))
      BY DEF store
<1>2. getSigners(m.signs) # {}
      BY DEF getSigners
<1>3. ASSUME NEW k \in here, getSigners(k.signs) = getSigners(m.signs) PROVE FALSE
  <2>1. k.signs # {}
        BY <1>2, <1>3 DEF getSigners
  <2>2. getSigners(m.signs) \subseteq UNION {getSigners(x.signs) : x \in here}
        BY <1>3
  <2>3. QED
        BY <1>1, <2>1, <2>2 DEF From
<1>4. store(msgs, m).size = Cardinality(InView(msgs \cup {m}, ViewOf(m)))
      BY <1>1, <1>3 DEF store
<1>5. InView(msgs \cup {m}, ViewOf(m)) = here \cup {m} /\ m \notin here
      BY <1>3 DEF InView
<1>6. Cardinality(here \cup {m}) = Cardinality(here) + 1
      BY <1>5, InViewFinite, FS_AddElement
<1>7. QED
      BY <1>4, <1>5, <1>6

(* Votes are filed under the view of their data.                           *)
LEMMA VoteView ==
    ASSUME NEW type \in VoteTypes, NEW m \in VoteSet(type)
    PROVE  /\ m = Msg(type, m.rdata, m.signs) /\ m.type = type
           /\ ViewOf(m) = m.rdata.propv
<1>1. m = Msg(type, m.rdata, m.signs) /\ m.type = type
      BY DEF VoteSet, Msg
<1>2. QED
      BY <1>1 DEF ViewOf, VoteTypes

(* A vote that completes a quorum has been signed, and completes it once.  *)
LEMMA QuorumVote ==
    ASSUME NEW R, NEW s, Aligned(R, s), NEW k \in LogFields \ {"proposals"},
           NEW m \in VoteSet(LogTypes[k]), Fits(R, s.myid, m),
           storeVote(s, k, m).size >= QSize
    PROVE  /\ m.signs # {}
           /\ Counts(storeVote(s, k, m).msgs, m.rdata.propv)
           /\ storeVote(s, k, m).size = QSize => ~Counts(s.log[k], m.rdata.propv)
<1> DEFINE msgs == s.log[k]
           r    == store(msgs, m)
<1>1. /\ IsFiniteSet(msgs) /\ LogTypes[k] \in VoteTypes
      /\ \A i \in msgs : i \in VoteSet(LogTypes[k]) /\ Fits(R, s.myid, i)
  <2>1. LogTyped(s.log)
        BY DEF Aligned, WellTyped
  <2>2. \A i \in msgs : i \in VoteSet(LogTypes[k])
        BY <2>1, LogSigned
  <2>3. IsFiniteSet(msgs)
        BY <2>1 DEF LogTyped
  <2>4. LogTypes[k] \in VoteTypes
        BY DEF LogTypes, LogFields, VoteTypes
  <2>5. \A i \in msgs : Fits(R, s.myid, i)
        BY DEF Aligned, InLine, LogFits
  <2>6. QED
        BY <2>2, <2>3, <2>4, <2>5
<1>2. storeVote(s, k, m) = r
      BY DEF storeVote
<1>3. ViewOf(m) = m.rdata.propv /\ m = Msg(LogTypes[k], m.rdata, m.signs)
          /\ m.type = LogTypes[k]
      BY <1>1, VoteView
<1>4. \A i \in msgs : i = Msg(LogTypes[k], i.rdata, i.signs) /\ i.type = LogTypes[k]
      BY <1>1, VoteView
<1> HIDE DEF msgs
<1>5. QSize \in Nat \ {0, 1}
      BY QuorumSizes
<1>6. m.signs # {}
  <2>1. SUFFICES ASSUME m.signs = {} PROVE FALSE
        OBVIOUS
  <2>2. m.rdata = NoJust.rdata
        BY <1>1, <1>3, <2>1
        DEF Fits, VoteTypes, NewviewFits, PrepareFits, PrecommitFits, CommitFits, NoVote
  <2>3. ASSUME NEW i \in msgs, i.signs = {} PROVE i = m
    <3>1. i.rdata = NoJust.rdata
          BY <1>1, <1>4, <2>3
          DEF Fits, VoteTypes, NewviewFits, PrepareFits, PrecommitFits, CommitFits, NoVote
    <3>2. QED
          BY <1>3, <1>4, <2>1, <2>2, <2>3, <3>1
  <2>4. r.size < QSize
        BY <1>1, <2>1, <2>3, StoreUnsigned, InViewFinite
  <2>5. r.size \in Nat
        BY <1>1, StoreFact
  <2>6. QED
        BY <1>2, <1>5, <2>4, <2>5
<1>7. /\ r.size \in Nat /\ (r.size # 0 => r.size = Cardinality(InView(r.msgs, ViewOf(m))))
      BY <1>1, StoreFact
<1>8. r.size # 0 => r.size = Cardinality(InView(msgs, ViewOf(m))) + 1
      BY <1>1, <1>6, StoreSigned
<1>9. Cardinality(InView(msgs, ViewOf(m))) \in Nat
      BY <1>1, InViewFinite
<1> HIDE DEF r
<1>10. QED
       BY <1>2, <1>3, <1>5, <1>6, <1>7, <1>8, <1>9 DEF Counts, msgs

(* storeNv, storePrep, storePc, storeCom and storeProp.                    *)
LEMMA LogInLine ==
    ASSUME NEW R, NEW s, Aligned(R, s), NEW k \in LogFields,
           NEW m \in MessageSet(LogTypes[k]), Fits(R, s.myid, m),
           Certifies(s.myid, m) => <<m.rdata.propv, s.myid>> \in R.taken
    PROVE  LET u == logVote(s, k, m)
           IN  /\ Aligned(R, u) /\ Remains(s, u)
               /\ u.log[k] = storeVote(s, k, m).msgs /\ u.executed = s.executed
               /\ \A i \in LogFields : \A v : Counts(s.log[i], v) => Counts(u.log[i], v)
<1> DEFINE new == storeVote(s, k, m).msgs
           l == [s.log EXCEPT ![k] = new]
           u == [s EXCEPT !.log = l]
<1>1. WellTyped(s) /\ InLine(R, s) /\ Consistent(R) /\ LogTyped(s.log)
      BY DEF Aligned, WellTyped
<1>2. /\ IsFiniteSet(new) /\ \A i \in new : i \in s.log[k] \/ i = m
      /\ \A v : Cardinality(InView(s.log[k], v)) <= Cardinality(InView(new, v))
  <2>1. IsFiniteSet(s.log[k])
        BY <1>1 DEF LogTyped
  <2>2. QED
        BY <2>1, StoreFact DEF storeVote
<1>3. \A v : Counts(s.log[k], v) => Counts(new, v)
  <2>1. IsFiniteSet(s.log[k])
        BY <1>1 DEF LogTyped
  <2>2. \A v : /\ Cardinality(InView(s.log[k], v)) \in Nat
               /\ Cardinality(InView(new, v)) \in Nat
        BY <1>2, <2>1, InViewFinite
  <2> HIDE DEF new
  <2>3. QED
        BY <1>2, <2>2, QuorumSizes DEF Counts
<1>4. logVote(s, k, m) = u
      BY DEF logVote, new
<1>5. Remains(s, u)
      BY <1>1, <1>4, LogVoteTyped
<1> HIDE DEF new
<1>6. /\ l[k] = new /\ DOMAIN l = LogFields
      /\ \A i \in LogFields : i # k => l[i] = s.log[i]
      BY <1>1 DEF LogTyped
<1> HIDE DEF l
<1>7. \A i \in LogFields : \A v : Counts(s.log[i], v) => Counts(l[i], v)
      BY <1>3, <1>6
<1>8. Leading(R, s.myid, s.view, l)
      BY <1>1, <1>7 DEF InLine, Leading, LogFields
<1>9. LogFits(R, s.myid, l)
      BY <1>1, <1>2, <1>6 DEF InLine, LogFits
<1>10. /\ u.myid = s.myid /\ u.view = s.view /\ u.log = l /\ u.out = s.out
       /\ u.executed = s.executed /\ u.replied = s.replied /\ u.blocks = s.blocks
       /\ u.transactions = s.transactions /\ u.fromClient = s.fromClient
       BY <1>1 DEF WellTyped, Fields
<1> HIDE DEF u
<1>11. InLine(R, u)
       BY <1>1, <1>8, <1>9, <1>10 DEF InLine
<1>12. QED
       BY <1>1, <1>4, <1>5, <1>6, <1>7, <1>10, <1>11 DEF Aligned, Remains, new

-----------------------------------------------------------------------------
(* Executing.                                                              *)

(* executeRData in a view that the replica has not executed yet.           *)
LEMMA ExecuteInLine ==
    ASSUME NEW R, NEW s, Aligned(R, s), NEW rdata, s.view \in R.committed,
           getLeaderOf(s.view) # s.myid => <<s.view, s.myid>> \in R.taken,
           \A k \in DOMAIN s.executed : s.executed[k].view # s.view
    PROVE  InLine(R, executeRData(s, rdata))
<1> DEFINE v  == s.view
           e  == [view |-> v, hash |-> rdata.proph]
           x  == Append(s.executed, e)
           tr == s.blocks[v].trans
           u  == [s EXCEPT !.executed = x]
           w  == replyHash(u, rdata.proph)
           p  == IF timeToStop(s) THEN "none" ELSE "startNewView"
           z  == [w EXCEPT !.pending = p]
<1>1. executeRData(s, rdata) = z
      BY DEF executeRData
<1>2. /\ WellTyped(s) /\ Consistent(R) /\ DOMAIN s = Fields
      /\ s.executed \in Seq(Entries) /\ s.replied \in Seq(1 .. NumInstances)
      /\ s.view \in Nat
      BY ReplicaAssumption DEF Aligned, WellTyped, QueuesTyped, Transactions
<1>3. /\ ExecutedFits(R, s.myid, v, s.executed)
      /\ RepliesFit(R, s.executed, s.replied)
      /\ BlocksFit(R, s.blocks)
      BY DEF Aligned, InLine
<1>4. /\ \A k \in DOMAIN s.executed : k \in DOMAIN x /\ x[k] = s.executed[k]
      /\ \A k \in DOMAIN x : k \in DOMAIN s.executed \/ k = Len(s.executed) + 1
      /\ Len(s.executed) + 1 \in DOMAIN x
      /\ x[Len(s.executed) + 1].view = v
      BY <1>2
<1> HIDE DEF x
<1>5. ExecutedFits(R, s.myid, v, x)
  <2>1. ASSUME NEW k \in DOMAIN x
        PROVE  /\ x[k].view <= v /\ x[k].view \in R.committed
               /\ getLeaderOf(x[k].view) # s.myid => <<x[k].view, s.myid>> \in R.taken
    <3>1. CASE k \in DOMAIN s.executed
          BY <1>3, <1>4, <3>1 DEF ExecutedFits
    <3>2. CASE k = Len(s.executed) + 1
          BY <1>2, <1>4, <3>2
    <3>3. QED
          BY <1>4, <3>1, <3>2
  <2>2. ASSUME NEW k \in DOMAIN x, NEW l \in DOMAIN x, x[k].view = x[l].view
        PROVE  k = l
        BY <1>3, <1>4, <2>2 DEF ExecutedFits
  <2>3. QED
        BY <2>1, <2>2 DEF ExecutedFits
<1>6. RepliesFit(R, x, s.replied)
      BY <1>3, <1>4 DEF RepliesFit
<1>7. v \in DOMAIN s.blocks => RepliesFit(R, x, s.replied \o tr)
  <2> SUFFICES ASSUME v \in DOMAIN s.blocks PROVE RepliesFit(R, x, s.replied \o tr)
      OBVIOUS
  <2>1. v \in DOMAIN R.block /\ tr = R.block[v].trans
        BY <1>3 DEF BlocksFit
  <2> HIDE DEF tr
  <2>2. IsInjective(tr) /\ tr \in Seq(1 .. NumInstances) /\ Range(tr) = TransOf(R, v)
        BY <1>2, <2>1 DEF Consistent, BlockSet, Transactions, TransOf
  <2>3. Range(s.replied) \cap Range(tr) = {}
    <3>1. ASSUME NEW t \in Range(s.replied), t \in Range(tr) PROVE FALSE
      <4>1. PICK k \in DOMAIN s.executed : t \in TransOf(R, s.executed[k].view)
            BY <1>3 DEF RepliesFit
      <4>2. s.executed[k].view \in R.committed
            BY <1>3 DEF ExecutedFits
      <4>3. s.executed[k].view \in DOMAIN R.block /\ s.executed[k].view # v
            BY <1>2, <4>2 DEF Consistent
      <4>4. TransOf(R, s.executed[k].view) \cap TransOf(R, v) = {}
            BY <1>2, <2>1, <4>3 DEF Consistent
      <4>5. QED
            BY <2>2, <3>1, <4>1, <4>4
    <3>2. QED
          BY <3>1
  <2>4. /\ IsInjective(s.replied \o tr)
        /\ Range(s.replied \o tr) = Range(s.replied) \cup Range(tr)
    <3>1. IsInjective(s.replied) /\ Apart(s.replied, tr)
          BY <1>3, <2>3 DEF RepliesFit, Apart
    <3>2. QED
          BY <1>2, <2>2, <3>1, ConcatOnce
  <2>5. \A t \in Range(s.replied \o tr) : \E k \in DOMAIN x : t \in TransOf(R, x[k].view)
        BY <1>4, <1>6, <2>2, <2>4 DEF RepliesFit
  <2>6. QED
        BY <2>4, <2>5 DEF RepliesFit
<1>8. /\ DOMAIN u = Fields /\ u.myid = s.myid /\ u.view = s.view /\ u.log = s.log
      /\ u.out = s.out /\ u.executed = x /\ u.replied = s.replied
      /\ u.blocks = s.blocks /\ u.transactions = s.transactions
      /\ u.fromClient = s.fromClient
      BY <1>2 DEF Fields
<1> HIDE DEF u
<1>9. \/ w = u
      \/ v \in DOMAIN s.blocks /\ w = [u EXCEPT !.replied = @ \o tr]
      BY <1>8 DEF replyHash, replyTransactions
<1> HIDE DEF w
<1>10. /\ DOMAIN w = Fields /\ w.myid = s.myid /\ w.view = s.view /\ w.log = s.log
       /\ w.out = s.out /\ w.executed = x
       /\ w.blocks = s.blocks /\ w.transactions = s.transactions
       /\ w.fromClient = s.fromClient
       /\ \/ w.replied = s.replied
          \/ v \in DOMAIN s.blocks /\ w.replied = s.replied \o tr
  <2>1. CASE w = u
        BY <1>8, <2>1
  <2>2. CASE v \in DOMAIN s.blocks /\ w = [u EXCEPT !.replied = @ \o tr]
        BY <1>8, <2>2 DEF Fields
  <2>3. QED
        BY <1>9, <2>1, <2>2
<1>11. InLine(R, w)
  <2>1. RepliesFit(R, w.executed, w.replied)
        BY <1>6, <1>7, <1>10
  <2>2. InLine(R, s)
        BY DEF Aligned
  <2>3. QED
        BY <1>5, <1>10, <2>1, <2>2 DEF InLine
<1>12. /\ z.myid = w.myid /\ z.view = w.view /\ z.log = w.log /\ z.out = w.out
       /\ z.executed = w.executed /\ z.replied = w.replied /\ z.blocks = w.blocks
       /\ z.transactions = w.transactions /\ z.fromClient = w.fromClient
       BY <1>10 DEF Fields
<1> HIDE DEF z
<1>13. InLine(R, z)
       BY <1>11, <1>12, AgreeInLine
<1>14. QED
       BY <1>1, <1>13

-----------------------------------------------------------------------------
(* The answers of the component.                                           *)

(* TEEstore refuses, or signs for the view of the certificate.             *)
LEMMA StoreAnswers ==
    ASSUME NEW n, NEW t \in ComponentSet, NEW j
    PROVE  LET a == TEEstore(n, t, j).just
           IN  \/ a = NoJust
               \/ /\ a.signs # {} /\ a.rdata.propv = j.rdata.propv
                  /\ Cardinality(j.signs) = QSize
<1> DEFINE x == record(t, j.rdata)
<1>1. x.view = t.view
      BY DEF record, ComponentSet
<1> HIDE DEF x
<1>2. \A h : LET a == sign(n, x, h, Genesis, 0).just
             IN  a.signs # {} /\ a.rdata.propv = x.view
      BY DEF sign, Just, RData
<1>3. QED
      BY <1>1, <1>2 DEF TEEstore, storable, Refuse, x

(* TEEprepare refuses, or signs for the view of the new-view message.      *)
LEMMA PrepareAnswers ==
    ASSUME NEW n, NEW t, NEW h, NEW j
    PROVE  LET a == TEEprepare(n, t, h, j).just
           IN  \/ a = NoJust
               \/ a.signs # {} /\ a.rdata.propv = j.rdata.propv
<1>1. \A h2, v2 : LET a == sign(n, t, h, h2, v2).just
                  IN  a.signs # {} /\ a.rdata.propv = t.view
      BY DEF sign, Just, RData
<1>2. QED
      BY <1>1 DEF TEEprepare, Refuse

(* The answers fit as votes for the leader of their view.                  *)
LEMMA AnswerFits ==
    ASSUME NEW R, NEW a, NEW v, a = NoJust \/ (a.signs # {} /\ a.rdata.propv = v)
    PROVE  /\ v \in R.prepared =>
                  /\ Fits(R, getLeaderOf(v), MsgPreCommit(a))
                  /\ ~Certifies(getLeaderOf(v), MsgPreCommit(a))
           /\ v \in R.precommitted =>
                  /\ Fits(R, getLeaderOf(v), MsgCommit(a))
                  /\ ~Certifies(getLeaderOf(v), MsgCommit(a))
           /\ a = NoJust => \A d : /\ Fits(R, d, MsgPreCommit(a))
                                   /\ ~Certifies(d, MsgPreCommit(a))
                                   /\ Fits(R, d, MsgCommit(a))
                                   /\ ~Certifies(d, MsgCommit(a))
<1> DEFINE m1 == MsgPreCommit(a)
           m2 == MsgCommit(a)
<1>1. /\ m1.type = "precommit" /\ m1.rdata = a.rdata /\ m1.signs = a.signs
      /\ m2.type = "commit" /\ m2.rdata = a.rdata /\ m2.signs = a.signs
      BY DEF MsgPreCommit, MsgCommit, Msg
<1> HIDE DEF m1, m2
<1>2. NoJust.signs = {}
      BY DEF NoJust
<1>3. ASSUME v \in R.prepared
      PROVE  Fits(R, getLeaderOf(v), m1) /\ ~Certifies(getLeaderOf(v), m1)
      BY <1>1, <1>2, <1>3 DEF Fits, PrecommitFits, NoVote, Certifies
<1>4. ASSUME v \in R.precommitted
      PROVE  Fits(R, getLeaderOf(v), m2) /\ ~Certifies(getLeaderOf(v), m2)
      BY <1>1, <1>2, <1>4 DEF Fits, CommitFits, NoVote, Certifies
<1>5. ASSUME a = NoJust, NEW d
      PROVE  Fits(R, d, m1) /\ ~Certifies(d, m1) /\ Fits(R, d, m2) /\ ~Certifies(d, m2)
      BY <1>1, <1>2, <1>5 DEF Fits, PrecommitFits, CommitFits, NoVote, Certifies
<1>6. QED
      BY <1>3, <1>4, <1>5 DEF m1, m2

-----------------------------------------------------------------------------
(* The leader's side of a view.                                            *)

(* A leader that has proposed in its view and has not executed there.      *)
Led(R, s) ==
    /\ Aligned(R, s) /\ getLeaderOf(s.view) = s.myid
    /\ s.view \in DOMAIN R.block /\ s.view \notin R.committed

(* initiateCommit, with a quorum of commit votes for the first time.       *)
LEMMA InitiateCommitProceeds ==
    ASSUME NEW R, NEW s, Led(R, s), NEW rdata \in VoteData, rdata.propv = s.view,
           s.view \in R.precommitted, Counts(s.log.commits, s.view)
    PROVE  Proceeds(R, s, initiateCommit(s, rdata))
<1> DEFINE v     == s.view
           signs == get(s.log.commits, rdata.propv, QSize)
           m     == MsgCommit(Just(rdata, signs))
           u     == send(s, remove_from_peers(s), m)
           w     == executeRData(u, rdata)
           none  == {}
           one   == {v}
           Q     == Rounds(R.block, R.prepared \cup none, R.precommitted \cup none,
                           R.committed \cup one, R.taken)
<1>1. /\ WellTyped(s) /\ InLine(R, s) /\ Consistent(R) /\ v \in Nat
      /\ getLeaderOf(v) = s.myid /\ v \in DOMAIN R.block /\ v \notin R.committed
      BY ReplicaAssumption DEF Led, Aligned, WellTyped
<1>2. Remains(s, initiateCommit(s, rdata))
      BY <1>1, InitiateCommitTyped
<1>3. \/ initiateCommit(s, rdata) = s
      \/ initiateCommit(s, rdata) = w /\ Cardinality(signs) = QSize
      BY DEF initiateCommit
<1>4. signs \in Signatures
      BY <1>1, LogYields DEF WellTyped, LogFields
<1> HIDE DEF signs
<1>5. /\ m \in MessageSets /\ m.type = "commit" /\ m.rdata = rdata
      /\ m.signs = signs
  <2>1. Just(rdata, signs) \in JustsOver(VoteData)
        BY <1>4 DEF Just, JustsOver
  <2>2. m \in MessageSets
        BY <2>1, MessageTyped DEF VoteTypes
  <2>3. QED
        BY <2>2 DEF MsgCommit, Just, Msg
<1> HIDE DEF m
<1>6. Remains(s, u)
      BY <1>1, <1>5, SendTyped
<1>7. none \in SUBSET {v} /\ one \in SUBSET {v} /\ none = {} /\ one = {v}
      OBVIOUS
<1> HIDE DEF none, one
<1>8. Consistent(Q) /\ Extends(R, Q, s.myid) /\ InLine(Q, s)
      BY <1>1, <1>7, Completes
<1>9. v \in Q.committed /\ Q.taken = R.taken
      BY <1>7 DEF Rounds
<1> HIDE DEF Q
<1>10. CASE Cardinality(signs) = QSize
  <2>1. signs # {}
        BY <1>10, QuorumMember, QuorumSizes
  <2>2. \A d \in remove_from_peers(s) \cap PID : Fits(Q, d, m)
    <3>1. ASSUME NEW d \in remove_from_peers(s) \cap PID PROVE getLeaderOf(v) # d
          BY <1>1 DEF remove_from_peers
    <3>2. QED
          BY <1>5, <1>9, <2>1, <3>1 DEF Fits, CommitFits
  <2>3. \A d \in PID : <<v, d>> \notin Q.taken
        BY <1>1, <1>9 DEF Consistent
  <2>4. ASSUME NEW d \in PID, NEW k \in DOMAIN s.out[d], Certifies(d, s.out[d][k])
        PROVE  s.out[d][k].rdata.propv # v
    <3>1. Fits(R, d, s.out[d][k])
          BY <1>1 DEF InLine, OutFits
    <3>2. s.out[d][k].rdata.propv \in R.committed
          BY <2>4, <3>1 DEF Fits, CommitFits, Certifies, NoVote
    <3>3. QED
          BY <1>1, <3>2
  <2>5. InLine(Q, u)
        BY <1>1, <1>5, <1>8, <2>2, <2>3, <2>4, CertificateInLine
  <2>6. u.executed = s.executed /\ u.view = s.view /\ u.myid = s.myid
        BY <1>1, <1>5, SendAppends
  <2> HIDE DEF u
  <2>7. \A k \in DOMAIN u.executed : u.executed[k].view # u.view
        BY <1>1, <2>6 DEF InLine, ExecutedFits
  <2>8. InLine(Q, w)
        BY <1>1, <1>6, <1>8, <1>9, <2>5, <2>6, <2>7, ExecuteInLine DEF Aligned, Remains
  <2>9. QED
        BY <1>1, <1>2, <1>3, <1>8, <2>8 DEF Proceeds
<1>11. CASE initiateCommit(s, rdata) = s
       BY <1>1, <1>2, <1>11, MovesOn
<1>12. QED
       BY <1>3, <1>10, <1>11

(* What the leader makes of a quorum of prepare or pre-commit votes of its *)
(* view: the certificate and its own vote in the next phase.               *)
LEMMA LeaderAnswers ==
    ASSUME NEW R, NEW s, Led(R, s), NEW k \in LogFields, NEW rdata \in VoteData,
           rdata.propv = s.view
    PROVE  LET cert == Just(rdata, get(s.log[k], rdata.propv, QSize))
               r    == TEEstore(s.myid, s.tf, cert)
           IN  /\ cert \in JustsOver(VoteData)
               /\ cert.rdata = rdata
               /\ r.tee \in ComponentSet /\ r.just \in JustsOver(VoteData)
               /\ r.just = NoJust \/ (r.just.signs # {} /\ r.just.rdata.propv = s.view)
<1> DEFINE cert == Just(rdata, get(s.log[k], rdata.propv, QSize))
           r    == TEEstore(s.myid, s.tf, cert)
<1>1. WellTyped(s) /\ s.tf \in ComponentSet
      BY DEF Led, Aligned, WellTyped
<1>2. /\ cert \in JustsOver(VoteData)
      /\ r.tee \in ComponentSet /\ r.just \in JustsOver(VoteData)
      BY <1>1, StoreVotesTyped
<1>3. cert.rdata = rdata
      BY DEF Just
<1> HIDE DEF cert
<1>4. r.just = NoJust \/ (r.just.signs # {} /\ r.just.rdata.propv = s.view)
      BY <1>1, <1>3, StoreAnswers
<1>5. QED
      BY <1>2, <1>3, <1>4 DEF cert

(* initiatePrecommit, with a quorum of pre-commit votes.                   *)
LEMMA InitiatePrecommitProceeds ==
    ASSUME NEW R, NEW s, Led(R, s), NEW rdata \in VoteData, rdata.propv = s.view,
           s.view \in R.prepared, Counts(s.log.precommits, s.view)
    PROVE  Proceeds(R, s, initiatePrecommit(s, rdata))
<1> DEFINE v      == s.view
           signs  == get(s.log.precommits, rdata.propv, QSize)
           cert   == Just(rdata, signs)
           r      == TEEstore(s.myid, s.tf, cert)
           msgCom == MsgCommit(r.just)
           m      == MsgPreCommit(cert)
           s0     == send(s, remove_from_peers(s), m)
           s1     == [s0 EXCEPT !.tf = r.tee]
           s2     == logVote(s1, "commits", msgCom)
           s3     == initiateCommit(s2, r.just.rdata)
           none   == {}
           one    == {v}
           Q      == Rounds(R.block, R.prepared \cup none, R.precommitted \cup one,
                            R.committed \cup none, R.taken)
<1>1. /\ WellTyped(s) /\ InLine(R, s) /\ Consistent(R) /\ v \in Nat
      /\ getLeaderOf(v) = s.myid /\ v \in DOMAIN R.block /\ v \notin R.committed
      BY ReplicaAssumption DEF Led, Aligned, WellTyped
<1>2. Remains(s, initiatePrecommit(s, rdata))
      BY <1>1, InitiatePrecommitTyped
<1>3. \/ initiatePrecommit(s, rdata) = s
      \/ /\ Cardinality(signs) = QSize
         /\ \/ initiatePrecommit(s, rdata) = s2
            \/ /\ initiatePrecommit(s, rdata) = s3
               /\ storeVote(s1, "commits", msgCom).size >= QSize
  <2>1. storeVote(s1, "commits", msgCom).size >= QSize
            <=> QSize <= storeVote(s1, "commits", msgCom).size
        BY QuorumSizes
  <2>2. QED
        BY <2>1 DEF initiatePrecommit
<1>4. /\ cert \in JustsOver(VoteData) /\ cert.rdata = rdata
      /\ r.tee \in ComponentSet /\ r.just \in JustsOver(VoteData)
      /\ r.just = NoJust \/ (r.just.signs # {} /\ r.just.rdata.propv = v)
  <2>1. "precommits" \in LogFields
        BY DEF LogFields
  <2>2. QED
        BY <2>1, LeaderAnswers
<1>5. cert.signs = signs
      BY DEF Just
<1> HIDE DEF r, cert, signs
<1>6. /\ m \in MessageSets /\ m.type = "precommit" /\ m.rdata = rdata
      /\ m.signs = signs
      /\ msgCom \in VoteSet("commit") /\ msgCom.rdata = r.just.rdata
  <2>1. m \in MessageSets /\ msgCom \in VoteSet("commit")
        BY <1>4, MessageTyped DEF VoteTypes
  <2>2. QED
        BY <1>4, <1>5, <2>1 DEF MsgPreCommit, MsgCommit, Msg
<1>7. none \in SUBSET {v} /\ one \in SUBSET {v} /\ none = {} /\ one = {v}
      OBVIOUS
<1> HIDE DEF none, one
<1>8. Consistent(Q) /\ Extends(R, Q, s.myid) /\ InLine(Q, s)
      BY <1>1, <1>7, Completes
<1>9. /\ v \in Q.precommitted /\ v \in Q.prepared /\ v \notin Q.committed
      /\ v \in DOMAIN Q.block
      BY <1>1, <1>7 DEF Rounds
<1> HIDE DEF Q
<1>10. CASE Cardinality(signs) = QSize
  <2>1. signs # {}
        BY <1>10, QuorumMember, QuorumSizes
  <2>2. \A d \in remove_from_peers(s) \cap PID : Fits(Q, d, m) /\ ~Certifies(d, m)
    <3>1. ASSUME NEW d \in remove_from_peers(s) \cap PID PROVE getLeaderOf(v) # d
          BY <1>1 DEF remove_from_peers
    <3>2. QED
          BY <1>6, <1>9, <2>1, <3>1 DEF Fits, PrecommitFits, Certifies
  <2>3. InLine(Q, s0) /\ Remains(s, s0) /\ Remains(s, s1)
        BY <1>1, <1>4, <1>6, <1>8, <2>2, SendInLine, SendTyped
  <2> HIDE DEF s0
  <2>4. Aligned(Q, s1)
        BY <1>8, <2>3, ComponentInLine DEF Aligned, Remains
  <2> HIDE DEF s1
  <2>5. /\ Fits(Q, s1.myid, msgCom) /\ ~Certifies(s1.myid, msgCom)
        BY <1>1, <1>4, <1>9, <2>3, AnswerFits DEF Remains
  <2>6. /\ "commits" \in LogFields \ {"proposals"} /\ LogTypes["commits"] = "commit"
        /\ MessageSet(LogTypes["commits"]) = VoteSet("commit")
        BY DEF LogFields, LogTypes, MessageSet
  <2>7. /\ Aligned(Q, s2) /\ Remains(s1, s2)
        /\ s2.log.commits = storeVote(s1, "commits", msgCom).msgs
    <3>1. "commits" \in LogFields /\ msgCom \in MessageSet(LogTypes["commits"])
          BY <1>6, <2>6
    <3> HIDE DEF msgCom
    <3>2. Aligned(Q, s2)
          BY <2>4, <2>5, <3>1, LogInLine
    <3>3. Remains(s1, s2)
          BY <2>4, <2>5, <3>1, LogInLine
    <3>4. s2.log.commits = storeVote(s1, "commits", msgCom).msgs
          BY <2>4 DEF logVote, Aligned, WellTyped, LogTyped, LogFields, Fields
    <3>5. QED
          BY <3>2, <3>3, <3>4
  <2>8. s2.myid = s.myid /\ s2.view = v /\ Remains(s, s2)
        BY <2>3, <2>7, RemainsOn DEF Remains
  <2>9. Proceeds(R, s, s2)
        BY <1>8, <2>7, <2>8 DEF Proceeds, Aligned
  <2>10. storeVote(s1, "commits", msgCom).size >= QSize => Proceeds(R, s, s3)
    <3>1. SUFFICES ASSUME storeVote(s1, "commits", msgCom).size >= QSize
                   PROVE  Proceeds(R, s, s3)
          OBVIOUS
    <3>2. msgCom.signs # {} /\ Counts(s2.log.commits, msgCom.rdata.propv)
          BY <1>6, <2>4, <2>5, <2>6, <2>7, <3>1, QuorumVote
    <3>3. r.just # NoJust
          BY <3>2 DEF MsgCommit, Msg, NoJust
    <3>4. r.just.rdata \in VoteData /\ r.just.rdata.propv = v
          BY <1>4, <3>3 DEF JustsOver
    <3>5. Led(Q, s2)
          BY <1>1, <1>9, <2>7, <2>8 DEF Led
    <3> HIDE DEF s2
    <3>6. Proceeds(Q, s2, s3)
          BY <1>6, <1>9, <2>8, <3>2, <3>4, <3>5, InitiateCommitProceeds
    <3>7. QED
          BY <1>8, <2>8, <3>6, MovesOn
  <2>11. QED
        BY <1>1, <1>2, <1>3, <2>9, <2>10, MovesOn
<1>11. CASE initiatePrecommit(s, rdata) = s
       BY <1>1, <1>2, <1>11, MovesOn
<1>12. QED
       BY <1>3, <1>10, <1>11

(* initiatePrepare, with a quorum of prepare votes.                        *)
LEMMA InitiatePrepareProceeds ==
    ASSUME NEW R, NEW s, Led(R, s), NEW rdata \in VoteData, rdata.propv = s.view,
           Counts(s.log.prepares, s.view)
    PROVE  Proceeds(R, s, initiatePrepare(s, rdata))
<1> DEFINE v     == s.view
           signs == get(s.log.prepares, rdata.propv, QSize)
           cert  == Just(rdata, signs)
           r     == TEEstore(s.myid, s.tf, cert)
           msgPc == MsgPreCommit(r.just)
           m     == MsgPrepare(cert)
           s0    == send(s, remove_from_peers(s), m)
           s1    == [s0 EXCEPT !.tf = r.tee]
           s2    == logVote(s1, "precommits", msgPc)
           s3    == initiatePrecommit(s2, r.just.rdata)
           none  == {}
           one   == {v}
           Q     == Rounds(R.block, R.prepared \cup one, R.precommitted \cup none,
                           R.committed \cup none, R.taken)
<1>1. /\ WellTyped(s) /\ InLine(R, s) /\ Consistent(R) /\ v \in Nat
      /\ getLeaderOf(v) = s.myid /\ v \in DOMAIN R.block /\ v \notin R.committed
      BY ReplicaAssumption DEF Led, Aligned, WellTyped
<1>2. Remains(s, initiatePrepare(s, rdata))
      BY <1>1, InitiatePrepareTyped
<1>3. \/ initiatePrepare(s, rdata) = s
      \/ /\ Cardinality(signs) = QSize
         /\ \/ initiatePrepare(s, rdata) = s2
            \/ /\ initiatePrepare(s, rdata) = s3
               /\ storeVote(s1, "precommits", msgPc).size >= QSize
  <2>1. storeVote(s1, "precommits", msgPc).size >= QSize
            <=> QSize <= storeVote(s1, "precommits", msgPc).size
        BY QuorumSizes
  <2>2. QED
        BY <2>1 DEF initiatePrepare
<1>4. /\ cert \in JustsOver(VoteData) /\ cert.rdata = rdata
      /\ r.tee \in ComponentSet /\ r.just \in JustsOver(VoteData)
      /\ r.just = NoJust \/ (r.just.signs # {} /\ r.just.rdata.propv = v)
  <2>1. "prepares" \in LogFields
        BY DEF LogFields
  <2>2. QED
        BY <2>1, LeaderAnswers
<1>5. cert.signs = signs
      BY DEF Just
<1> HIDE DEF r, cert, signs
<1>6. /\ m \in MessageSets /\ m.type = "prepare" /\ m.rdata = rdata
      /\ m.signs = signs
      /\ msgPc \in VoteSet("precommit") /\ msgPc.rdata = r.just.rdata
  <2>1. m \in MessageSets /\ msgPc \in VoteSet("precommit")
        BY <1>4, MessageTyped DEF VoteTypes
  <2>2. QED
        BY <1>4, <1>5, <2>1 DEF MsgPrepare, MsgPreCommit, Msg
<1>7. none \in SUBSET {v} /\ one \in SUBSET {v} /\ none = {} /\ one = {v}
      OBVIOUS
<1> HIDE DEF none, one
<1>8. Consistent(Q) /\ Extends(R, Q, s.myid) /\ InLine(Q, s)
      BY <1>1, <1>7, Completes
<1>9. v \in Q.prepared /\ v \notin Q.committed /\ v \in DOMAIN Q.block
      BY <1>1, <1>7 DEF Rounds
<1> HIDE DEF Q
<1>10. CASE Cardinality(signs) = QSize
  <2>1. signs # {}
        BY <1>10, QuorumMember, QuorumSizes
  <2>2. \A d \in remove_from_peers(s) \cap PID : Fits(Q, d, m) /\ ~Certifies(d, m)
    <3>1. ASSUME NEW d \in remove_from_peers(s) \cap PID PROVE getLeaderOf(v) # d
          BY <1>1 DEF remove_from_peers
    <3>2. QED
          BY <1>6, <1>9, <2>1, <3>1 DEF Fits, PrepareFits, Certifies
  <2>3. InLine(Q, s0) /\ Remains(s, s0) /\ Remains(s, s1)
        BY <1>1, <1>4, <1>6, <1>8, <2>2, SendInLine, SendTyped
  <2> HIDE DEF s0
  <2>4. Aligned(Q, s1)
        BY <1>8, <2>3, ComponentInLine DEF Aligned, Remains
  <2> HIDE DEF s1
  <2>5. /\ Fits(Q, s1.myid, msgPc) /\ ~Certifies(s1.myid, msgPc)
        BY <1>1, <1>4, <1>9, <2>3, AnswerFits DEF Remains
  <2>6. /\ "precommits" \in LogFields \ {"proposals"}
        /\ LogTypes["precommits"] = "precommit"
        /\ MessageSet(LogTypes["precommits"]) = VoteSet("precommit")
        BY DEF LogFields, LogTypes, MessageSet
  <2>7. /\ Aligned(Q, s2) /\ Remains(s1, s2)
        /\ s2.log.precommits = storeVote(s1, "precommits", msgPc).msgs
    <3>1. "precommits" \in LogFields /\ msgPc \in MessageSet(LogTypes["precommits"])
          BY <1>6, <2>6
    <3> HIDE DEF msgPc
    <3>2. Aligned(Q, s2)
          BY <2>4, <2>5, <3>1, LogInLine
    <3>3. Remains(s1, s2)
          BY <2>4, <2>5, <3>1, LogInLine
    <3>4. s2.log.precommits = storeVote(s1, "precommits", msgPc).msgs
          BY <2>4 DEF logVote, Aligned, WellTyped, LogTyped, LogFields, Fields
    <3>5. QED
          BY <3>2, <3>3, <3>4
  <2>8. s2.myid = s.myid /\ s2.view = v /\ Remains(s, s2)
        BY <2>3, <2>7, RemainsOn DEF Remains
  <2>9. Proceeds(R, s, s2)
        BY <1>8, <2>7, <2>8 DEF Proceeds, Aligned
  <2>10. storeVote(s1, "precommits", msgPc).size >= QSize => Proceeds(R, s, s3)
    <3>1. SUFFICES ASSUME storeVote(s1, "precommits", msgPc).size >= QSize
                   PROVE  Proceeds(R, s, s3)
          OBVIOUS
    <3>2. msgPc.signs # {} /\ Counts(s2.log.precommits, msgPc.rdata.propv)
          BY <1>6, <2>4, <2>5, <2>6, <2>7, <3>1, QuorumVote
    <3>3. r.just # NoJust
          BY <3>2 DEF MsgPreCommit, Msg, NoJust
    <3>4. r.just.rdata \in VoteData /\ r.just.rdata.propv = v
          BY <1>4, <3>3 DEF JustsOver
    <3>5. Led(Q, s2)
          BY <1>1, <1>9, <2>7, <2>8 DEF Led
    <3> HIDE DEF s2
    <3>6. Proceeds(Q, s2, s3)
          BY <1>6, <1>9, <2>8, <3>2, <3>4, <3>5, InitiatePrecommitProceeds
    <3>7. QED
          BY <1>8, <2>8, <3>6, MovesOn
  <2>11. QED
        BY <1>1, <1>2, <1>3, <2>9, <2>10, MovesOn
<1>11. CASE initiatePrepare(s, rdata) = s
       BY <1>1, <1>2, <1>11, MovesOn
<1>12. QED
       BY <1>3, <1>10, <1>11

(* popTransactions: what the block takes is not queued any more.           *)
LEMMA PopInLine ==
    ASSUME NEW R, NEW s, Aligned(R, s)
    PROVE  LET u == popTransactions(s)
               b == NextTrans(s)
           IN  /\ Aligned(R, u) /\ Remains(s, u) /\ u.log = s.log
               /\ IsInjective(b) /\ Range(b) \subseteq Range(s.transactions)
               /\ \A t \in Range(u.transactions) \cup Range(u.fromClient) :
                      t \notin Range(b)
<1> DEFINE k == BlockSize(s)
           b == SubSeq(s.transactions, 1, k)
           q == SubSeq(s.transactions, k + 1, Len(s.transactions))
           u == [s EXCEPT !.transactions = q]
<1>1. WellTyped(s) /\ Consistent(R) /\ InLine(R, s)
      BY DEF Aligned
<1>2. /\ s.transactions \in Seq(Nat)
      /\ QueuesFit(R, s.myid, s.transactions, s.fromClient)
      BY <1>1, ReplicaAssumption DEF WellTyped, QueuesTyped, Transactions, InLine
<1>3. k \in 0 .. Len(s.transactions)
      BY <1>2, BlockSizeFact
<1>4. /\ IsInjective(b) /\ IsInjective(q) /\ Apart(b, q)
      /\ Range(b) \subseteq Range(s.transactions)
      /\ Range(q) \subseteq Range(s.transactions)
      BY <1>2, <1>3, SplitOnce DEF QueuesFit
<1>5. popTransactions(s) = u /\ NextTrans(s) = b
      BY DEF popTransactions, NextTrans
<1>6. Remains(s, popTransactions(s))
      BY <1>1, PopTyped, DataFact
<1> HIDE DEF b, q
<1>7. /\ u.myid = s.myid /\ u.view = s.view /\ u.log = s.log /\ u.out = s.out
      /\ u.executed = s.executed /\ u.replied = s.replied /\ u.blocks = s.blocks
      /\ u.transactions = q /\ u.fromClient = s.fromClient
      BY <1>1 DEF WellTyped, Fields
<1> HIDE DEF u
<1>8. QueuesFit(R, s.myid, q, s.fromClient)
      BY <1>2, <1>4 DEF QueuesFit, Apart
<1>9. \A t \in Range(q) \cup Range(s.fromClient) : t \notin Range(b)
      BY <1>2, <1>4 DEF QueuesFit, Apart
<1>10. InLine(R, u)
       BY <1>1, <1>7, <1>8 DEF InLine
<1>11. QED
       BY <1>1, <1>4, <1>5, <1>6, <1>7, <1>9, <1>10 DEF Aligned, Remains

(* A leader proposes a block of transactions that nobody else has.         *)
LEMMA ProposesInLine ==
    ASSUME NEW R, NEW s, Aligned(R, s), getLeaderOf(s.view) = s.myid,
           s.view \notin DOMAIN R.block, Counts(s.log.newviews, s.view),
           NEW b \in BlockSet, IsInjective(b.trans),
           Range(b.trans) \subseteq Dealt(s.myid, 0),
           \A w \in DOMAIN R.block : Range(b.trans) \cap TransOf(R, w) = {},
           \A t \in Range(s.transactions) \cup Range(s.fromClient) :
               t \notin Range(b.trans)
    PROVE  LET Q == Rounds(assign(R.block, s.view, b), R.prepared, R.precommitted,
                           R.committed, R.taken)
           IN  /\ Consistent(Q) /\ Extends(R, Q, s.myid) /\ InLine(Q, s)
               /\ s.view \in DOMAIN Q.block /\ Q.block[s.view] = b
               /\ s.view \notin Q.committed
<1> DEFINE v == s.view
           Q == Rounds(assign(R.block, v, b), R.prepared, R.precommitted,
                       R.committed, R.taken)
<1>1. /\ WellTyped(s) /\ InLine(R, s) /\ Consistent(R) /\ v \in Nat
      BY ReplicaAssumption DEF Aligned, WellTyped
<1>2. /\ Q.prepared = R.prepared /\ Q.precommitted = R.precommitted
      /\ Q.committed = R.committed /\ Q.taken = R.taken
      /\ DOMAIN Q.block = DOMAIN R.block \cup {v}
      /\ Q.block[v] = b /\ \A w \in DOMAIN R.block : Q.block[w] = R.block[w]
      BY DEF Rounds, assign
<1> HIDE DEF Q
<1>3. TransOf(Q, v) = Range(b.trans) /\ \A w \in DOMAIN R.block : TransOf(Q, w) = TransOf(R, w)
      BY <1>2 DEF TransOf
<1>4. Consistent(Q)
  <2>1. ASSUME NEW w \in DOMAIN Q.block
        PROVE  /\ Q.block[w] \in BlockSet /\ IsInjective(Q.block[w].trans)
               /\ TransOf(Q, w) \subseteq Dealt(getLeaderOf(w), 0)
    <3>1. CASE w = v
          BY <1>2, <1>3, <3>1
    <3>2. CASE w \in DOMAIN R.block
          BY <1>1, <1>2, <1>3, <3>2 DEF Consistent
    <3>3. QED
          BY <1>2, <3>1, <3>2
  <2>2. ASSUME NEW w \in DOMAIN Q.block, NEW x \in DOMAIN Q.block, w # x
        PROVE  TransOf(Q, w) \cap TransOf(Q, x) = {}
    <3>1. CASE w = v
          BY <1>2, <1>3, <2>2, <3>1
    <3>2. CASE x = v
          BY <1>2, <1>3, <2>2, <3>2
    <3>3. CASE w # v /\ x # v
          BY <1>1, <1>2, <1>3, <2>2, <3>3 DEF Consistent
    <3>4. QED
          BY <3>1, <3>2, <3>3
  <2>3. /\ Q.committed \subseteq Q.precommitted /\ Q.precommitted \subseteq Q.prepared
        /\ Q.prepared \subseteq DOMAIN Q.block
        /\ \A w, n : <<w, n>> \in Q.taken => w \in Q.committed
        BY <1>1, <1>2 DEF Consistent
  <2>4. QED
        BY <2>1, <2>2, <2>3 DEF Consistent
<1>5. Extends(R, Q, s.myid)
      BY <1>2 DEF Extends
<1>6. Leading(Q, s.myid, v, s.log)
      BY <1>1, <1>2 DEF InLine, Leading
<1>7. QueuesFit(Q, s.myid, s.transactions, s.fromClient)
  <2>1. \A t \in Range(s.transactions) \cup Range(s.fromClient) :
            \A w \in DOMAIN Q.block : t \notin TransOf(Q, w)
        BY <1>1, <1>2, <1>3 DEF InLine, QueuesFit
  <2>2. QED
        BY <1>1, <2>1 DEF InLine, QueuesFit
<1>8. InLine(Q, s)
      BY <1>1, <1>5, <1>6, <1>7, InLineExtends
<1>9. v \notin Q.committed
      BY <1>1, <1>2 DEF Consistent
<1>10. QED
       BY <1>2, <1>4, <1>5, <1>8, <1>9 DEF Q

(* A block is noted, with what the component returned.                     *)
LEMMA NoteInLine ==
    ASSUME NEW R, NEW s, WellTyped(s), InLine(R, s), NEW t,
           NEW v \in DOMAIN R.block
    PROVE  InLine(R, [s EXCEPT !.tf = t, !.blocks = assign(@, v, R.block[v])])
<1> DEFINE x == assign(s.blocks, v, R.block[v])
           u == [s EXCEPT !.tf = t, !.blocks = x]
<1>1. BlocksFit(R, x)
      BY DEF assign, InLine, BlocksFit
<1>2. [s EXCEPT !.tf = t, !.blocks = assign(@, v, R.block[v])] = u
      OBVIOUS
<1> HIDE DEF x
<1>3. /\ u.myid = s.myid /\ u.view = s.view /\ u.log = s.log /\ u.out = s.out
      /\ u.executed = s.executed /\ u.replied = s.replied /\ u.blocks = x
      /\ u.transactions = s.transactions /\ u.fromClient = s.fromClient
      BY DEF WellTyped, Fields
<1> HIDE DEF u
<1>4. InLine(R, u)
      BY <1>1, <1>3 DEF InLine
<1>5. QED
      BY <1>2, <1>4

(* findHighestNv with new-view messages of the view in the log.            *)
LEMMA HighestOfView ==
    ASSUME NEW s, WellTyped(s), NEW v, Counts(s.log.newviews, v)
    PROVE  findHighestNv(s.log.newviews, v).rdata.propv = v
<1> DEFINE msgs == s.log.newviews
<1>1. IsFiniteSet(msgs) /\ \A m \in msgs : m \in VoteSet("newview") /\ Signed(m)
  <2>1. LogTyped(s.log) /\ "newviews" \in LogFields \ {"proposals"}
            /\ LogTypes["newviews"] = "newview"
        BY DEF WellTyped, LogFields, LogTypes
  <2>2. QED
        BY <2>1, LogSigned DEF LogTyped
<1>2. \A m \in msgs : m.rdata.justv \in Nat /\ ViewOf(m) = m.rdata.propv
  <2>1. ASSUME NEW m \in msgs PROVE m.rdata.justv \in Nat
        BY <1>1, <2>1, DataFact DEF VoteSet, DataOf, RDataOver, NewviewData
  <2>2. QED
        BY <1>1, <2>1, VoteView DEF VoteTypes
<1> HIDE DEF msgs
<1>3. InView(msgs, v) # {}
  <2>1. InView(msgs, v) = {} => Cardinality(InView(msgs, v)) = 0
        BY FS_EmptySet
  <2>2. QED
        BY <2>1, QuorumSizes DEF Counts, msgs
<1>4. PICK m \in InView(msgs, v) : findHighestNv(msgs, v) = Just(m.rdata, m.signs)
      BY <1>1, <1>2, <1>3, HighestFact
<1>5. QED
      BY <1>2, <1>4 DEF InView, Just, msgs

(* prepare, with a quorum of new-view messages for the first time.         *)
LEMMA PrepareProceeds ==
    ASSUME NEW R, NEW s, Aligned(R, s), getLeaderOf(s.view) = s.myid,
           Counts(s.log.newviews, s.view), s.view \notin DOMAIN R.block
    PROVE  Proceeds(R, s, prepare(s))
<1> DEFINE v       == s.view
           justNV  == findHighestNv(s.log.newviews, v)
           block   == createNewBlock(s, justNV.rdata.justh)
           r       == TEEprepare(s.myid, s.tf, hash(block), justNV)
           msgPrep == MsgPrepare(r.just)
           s0      == popTransactions(s)
           m       == MsgLdrPrepare(justNV, block, r.just.signs)
           x       == send(s0, remove_from_peers(s), m)
           s1      == [x EXCEPT !.tf = r.tee, !.blocks = assign(@, v, block)]
           s2      == logVote(s1, "prepares", msgPrep)
           s3      == initiatePrepare(s2, r.just.rdata)
           Q       == Rounds(assign(R.block, v, block), R.prepared,
                             R.precommitted, R.committed, R.taken)
<1>1. /\ WellTyped(s) /\ InLine(R, s) /\ Consistent(R) /\ v \in Nat
      BY ReplicaAssumption DEF Aligned, WellTyped
<1>2. Remains(s, prepare(s))
      BY <1>1, PrepareTyped
<1>3. \/ prepare(s) = s0
      \/ /\ r.just # NoJust
         /\ \/ prepare(s) = s2
            \/ /\ prepare(s) = s3
               /\ storeVote(s1, "prepares", msgPrep).size >= QSize
  <2>1. storeVote(s1, "prepares", msgPrep).size >= QSize
            <=> QSize <= storeVote(s1, "prepares", msgPrep).size
        BY QuorumSizes
  <2>2. ~NoJust.set
        BY DEF NoJust
  <2>3. QED
        BY <2>1, <2>2 DEF prepare
<1>4. justNV \in JustsOver(NewviewData) /\ justNV.rdata.propv = v
      BY <1>1, LogYields, HighestOfView DEF WellTyped
<1> HIDE DEF justNV
<1>5. justNV.rdata.justh \in Chain
      BY <1>4 DEF JustsOver, NewviewData
<1>6. block \in BlockSet /\ block.trans = NextTrans(s)
      BY <1>1, <1>5, PopTyped DEF createNewBlock, Block
<1> HIDE DEF block
<1>7. /\ Aligned(R, s0) /\ Remains(s, s0) /\ s0.log = s.log
      /\ IsInjective(block.trans)
      /\ Range(block.trans) \subseteq Range(s.transactions)
      /\ \A t \in Range(s0.transactions) \cup Range(s0.fromClient) :
             t \notin Range(block.trans)
      BY <1>6, PopInLine
<1> HIDE DEF s0
<1>8. /\ Range(block.trans) \subseteq Dealt(s.myid, 0)
      /\ \A w \in DOMAIN R.block : Range(block.trans) \cap TransOf(R, w) = {}
      BY <1>1, <1>7 DEF InLine, QueuesFit
<1>9. /\ r.tee \in ComponentSet /\ r.just \in JustsOver(VoteData)
      /\ r.just = NoJust \/ (r.just.signs # {} /\ r.just.rdata.propv = v)
  <2>1. s.tf \in ComponentSet /\ s.myid \in PID
        BY <1>1 DEF WellTyped
  <2>2. QED
        BY <1>4, <1>6, <2>1, HashTyped, TEEprepareTyped, PrepareAnswers
<1> HIDE DEF r
<1>10. /\ s0.myid = s.myid /\ s0.view = v
       BY <1>7 DEF Remains
<1>11. /\ Consistent(Q) /\ Extends(R, Q, s.myid) /\ InLine(Q, s0)
       /\ v \in DOMAIN Q.block /\ Q.block[v] = block /\ v \notin Q.committed
       BY <1>6, <1>7, <1>8, <1>10, ProposesInLine
<1> HIDE DEF Q
<1>12. CASE r.just # NoJust
  <2>1. /\ m \in MessageSets /\ m.type = "ldrprepare"
        /\ m.just = justNV /\ m.block = block
        /\ msgPrep \in VoteSet("prepare") /\ msgPrep.type = "prepare"
        /\ msgPrep.rdata = r.just.rdata /\ msgPrep.signs = r.just.signs
    <3>1. m \in ProposalSet
          BY <1>4, <1>6, <1>9 DEF MsgLdrPrepare, ProposalSet, JustsOver
    <3>2. QED
          BY <1>9, <3>1, MessageTyped DEF MsgLdrPrepare, MsgPrepare, Msg
  <2> HIDE DEF m
  <2>2. \A d \in remove_from_peers(s) \cap PID : Fits(Q, d, m) /\ ~Certifies(d, m)
    <3>1. ASSUME NEW d \in remove_from_peers(s) \cap PID PROVE getLeaderOf(v) # d
          BY DEF remove_from_peers
    <3>2. QED
          BY <1>4, <1>11, <2>1, <3>1 DEF Fits, ProposalFits, Certifies
  <2>3. InLine(Q, x) /\ Remains(s0, x)
        BY <1>7, <1>11, <2>1, <2>2, SendInLine, SendTyped DEF Aligned
  <2> HIDE DEF x
  <2>4. Remains(x, s1) /\ InLine(Q, s1)
    <3>1. WellTyped(x)
          BY <2>3 DEF Remains
    <3>2. InLine(Q, [x EXCEPT !.tf = r.tee, !.blocks = assign(@, v, Q.block[v])])
          BY <1>11, <2>3, <3>1, NoteInLine
    <3>3. QED
          BY <1>6, <1>9, <1>11, <3>1, <3>2, NoteBlockTyped
  <2> HIDE DEF s1
  <2>5. Aligned(Q, s1) /\ s1.myid = s.myid /\ Remains(s, s1)
        BY <1>7, <1>10, <1>11, <2>3, <2>4, RemainsOn DEF Aligned, Remains
  <2>6. Fits(Q, s1.myid, msgPrep) /\ ~Certifies(s1.myid, msgPrep)
        BY <1>9, <1>11, <1>12, <2>1, <2>5 DEF Fits, PrepareFits, Certifies
  <2>7. /\ "prepares" \in LogFields \ {"proposals"} /\ LogTypes["prepares"] = "prepare"
        /\ MessageSet(LogTypes["prepares"]) = VoteSet("prepare")
        BY DEF LogFields, LogTypes, MessageSet
  <2>8. /\ Aligned(Q, s2) /\ Remains(s1, s2)
        /\ s2.log.prepares = storeVote(s1, "prepares", msgPrep).msgs
    <3>1. "prepares" \in LogFields /\ msgPrep \in MessageSet(LogTypes["prepares"])
          BY <2>1, <2>7
    <3> HIDE DEF msgPrep
    <3>2. Aligned(Q, s2)
          BY <2>5, <2>6, <3>1, LogInLine
    <3>3. Remains(s1, s2)
          BY <2>5, <2>6, <3>1, LogInLine
    <3>4. s2.log.prepares = storeVote(s1, "prepares", msgPrep).msgs
          BY <2>5 DEF logVote, Aligned, WellTyped, LogTyped, LogFields, Fields
    <3>5. QED
          BY <3>2, <3>3, <3>4
  <2>9. s2.myid = s.myid /\ s2.view = v /\ Remains(s, s2)
        BY <2>5, <2>8, RemainsOn DEF Remains
  <2>10. Proceeds(R, s, s2)
        BY <1>11, <2>8, <2>9 DEF Proceeds, Aligned
  <2>11. storeVote(s1, "prepares", msgPrep).size >= QSize => Proceeds(R, s, s3)
    <3>1. SUFFICES ASSUME storeVote(s1, "prepares", msgPrep).size >= QSize
                   PROVE  Proceeds(R, s, s3)
          OBVIOUS
    <3>2. Counts(s2.log.prepares, msgPrep.rdata.propv)
          BY <2>1, <2>5, <2>6, <2>7, <2>8, <3>1, QuorumVote
    <3>3. r.just.rdata \in VoteData /\ r.just.rdata.propv = v
          BY <1>9, <1>12 DEF JustsOver
    <3>4. Led(Q, s2)
          BY <1>11, <2>8, <2>9 DEF Led
    <3> HIDE DEF s2
    <3>5. Proceeds(Q, s2, s3)
          BY <2>1, <2>9, <3>2, <3>3, <3>4, InitiatePrepareProceeds
    <3>6. QED
          BY <1>11, <2>9, <3>5, MovesOn
  <2>12. CASE prepare(s) = s2
         BY <2>10, <2>12
  <2>13. CASE /\ prepare(s) = s3
              /\ storeVote(s1, "prepares", msgPrep).size >= QSize
         BY <2>11, <2>13
  <2>14. CASE prepare(s) = s0
         BY <1>1, <1>7, <2>14, MovesOn DEF Aligned
  <2>15. QED
         BY <1>3, <2>12, <2>13, <2>14
<1>13. CASE prepare(s) = s0
       BY <1>1, <1>7, <1>13, MovesOn DEF Aligned
<1>14. QED
       BY <1>3, <1>12, <1>13

-----------------------------------------------------------------------------
(* The backup's side of a view.                                            *)

(* respondToProposal, with the block of the view.                          *)
LEMMA RespondToProposalInLine ==
    ASSUME NEW R, NEW s, Aligned(R, s), NEW j \in JustsOver(NewviewData),
           j.rdata.propv = s.view, s.view \in DOMAIN R.block,
           R.block[s.view] \in BlockSet
    PROVE  InLine(R, respondToProposal(s, j, R.block[s.view]))
<1> DEFINE v  == s.view
           b  == R.block[v]
           r  == TEEprepare(s.myid, s.tf, hash(b), j)
           m  == MsgPrepare(r.just)
           s1 == send(s, currentLeader(s), m)
           s2 == [s1 EXCEPT !.tf = r.tee, !.blocks = assign(@, v, b)]
<1>1. WellTyped(s) /\ InLine(R, s)
      BY DEF Aligned
<1>2. \/ respondToProposal(s, j, b) = s
      \/ r.just # NoJust /\ respondToProposal(s, j, b) = s2
  <2>1. ~NoJust.set
        BY DEF NoJust
  <2>2. QED
        BY <2>1 DEF respondToProposal
<1>3. /\ r.tee \in ComponentSet /\ r.just \in JustsOver(VoteData)
      /\ r.just = NoJust \/ (r.just.signs # {} /\ r.just.rdata.propv = v)
  <2>1. s.tf \in ComponentSet /\ s.myid \in PID
        BY <1>1 DEF WellTyped
  <2>2. QED
        BY <2>1, HashTyped, TEEprepareTyped, PrepareAnswers
<1> HIDE DEF r
<1>4. /\ m \in MessageSets /\ m.type = "prepare"
      /\ m.rdata = r.just.rdata /\ m.signs = r.just.signs
      BY <1>3, MessageTyped DEF MsgPrepare, Msg, VoteTypes
<1> HIDE DEF m
<1>5. CASE r.just # NoJust
  <2>1. \A d \in currentLeader(s) \cap PID : Fits(R, d, m) /\ ~Certifies(d, m)
        BY <1>3, <1>4, <1>5
        DEF Fits, PrepareFits, Certifies, currentLeader, keep_from_peers
  <2>2. InLine(R, s1) /\ Remains(s, s1)
        BY <1>1, <1>4, <2>1, SendInLine, SendTyped
  <2> HIDE DEF s1
  <2>3. InLine(R, s2)
        BY <2>2, NoteInLine DEF Remains
  <2>4. QED
        BY <1>1, <1>2, <2>3
<1>6. CASE respondToProposal(s, j, b) = s
      BY <1>1, <1>6
<1>7. QED
      BY <1>2, <1>5, <1>6

(* respondToPrepareJust and respondToPreCommitJust, with a certificate of  *)
(* the view or with one that the component refuses.                        *)
LEMMA RespondToCertificateInLine ==
    ASSUME NEW R, NEW s, Aligned(R, s), NEW j \in JustsOver(VoteData),
           Cardinality(j.signs) = QSize => j.rdata.propv = s.view
    PROVE  /\ (Cardinality(j.signs) = QSize => s.view \in R.prepared) =>
                  InLine(R, respondToPrepareJust(s, j))
           /\ (Cardinality(j.signs) = QSize => s.view \in R.precommitted) =>
                  InLine(R, respondToPreCommitJust(s, j))
           /\ respondToPreCommitJust(s, j).executed = s.executed
<1> DEFINE r  == TEEstore(s.myid, s.tf, j)
           m1 == MsgPreCommit(r.just)
           m2 == MsgCommit(r.just)
           u1 == send(s, currentLeader(s), m1)
           u2 == send(s, currentLeader(s), m2)
<1>1. WellTyped(s) /\ InLine(R, s) /\ s.tf \in ComponentSet /\ s.myid \in PID
      BY DEF Aligned, WellTyped
<1>2. /\ respondToPrepareJust(s, j) = [u1 EXCEPT !.tf = r.tee]
      /\ respondToPreCommitJust(s, j) = [u2 EXCEPT !.tf = r.tee]
      BY DEF respondToPrepareJust, respondToPreCommitJust
<1>3. /\ r.tee \in ComponentSet /\ r.just \in JustsOver(VoteData)
      /\ \/ r.just = NoJust
         \/ /\ r.just.signs # {} /\ r.just.rdata.propv = j.rdata.propv
            /\ Cardinality(j.signs) = QSize
      BY <1>1, TEEstoreTyped, StoreAnswers
<1> HIDE DEF r
<1>4. r.just = NoJust \/ (r.just.signs # {} /\ r.just.rdata.propv = s.view)
      BY <1>3
<1>5. m1 \in MessageSets /\ m2 \in MessageSets
      BY <1>3, MessageTyped DEF VoteTypes
<1>6. \A d \in currentLeader(s) : d = getLeaderOf(s.view)
      BY DEF currentLeader, keep_from_peers
<1>7. ASSUME Cardinality(j.signs) = QSize => s.view \in R.prepared
      PROVE  InLine(R, [u1 EXCEPT !.tf = r.tee])
  <2>1. \A d \in currentLeader(s) \cap PID : Fits(R, d, m1) /\ ~Certifies(d, m1)
        BY <1>3, <1>4, <1>6, <1>7, AnswerFits
  <2> HIDE DEF m1
  <2>2. InLine(R, u1) /\ Remains(s, u1)
        BY <1>1, <1>5, <2>1, SendInLine, SendTyped
  <2> HIDE DEF u1
  <2>3. QED
        BY <2>2, ComponentInLine DEF Remains
<1>8. ASSUME Cardinality(j.signs) = QSize => s.view \in R.precommitted
      PROVE  InLine(R, [u2 EXCEPT !.tf = r.tee])
  <2>1. \A d \in currentLeader(s) \cap PID : Fits(R, d, m2) /\ ~Certifies(d, m2)
        BY <1>3, <1>4, <1>6, <1>8, AnswerFits
  <2> HIDE DEF m2
  <2>2. InLine(R, u2) /\ Remains(s, u2)
        BY <1>1, <1>5, <2>1, SendInLine, SendTyped
  <2> HIDE DEF u2
  <2>3. QED
        BY <2>2, ComponentInLine DEF Remains
<1>9. [u2 EXCEPT !.tf = r.tee].executed = s.executed
  <2> HIDE DEF m2
  <2>1. u2.executed = s.executed /\ Remains(s, u2)
        BY <1>1, <1>5, SendAppends, SendTyped
  <2> HIDE DEF u2
  <2>2. QED
        BY <2>1 DEF Remains, WellTyped, Fields
<1>10. QED
       BY <1>2, <1>7, <1>8, <1>9

(* callTEEsign.                                                            *)
LEMMA SkipInLine ==
    ASSUME NEW R, NEW s, Aligned(R, s)
    PROVE  LET u == skipPhase(s)
           IN  /\ Aligned(R, u) /\ Remains(s, u)
               /\ u.executed = s.executed /\ u.log = s.log
<1> DEFINE t == TEEsign(s.myid, s.tf).tee
           u == [s EXCEPT !.tf = t]
<1>1. WellTyped(s) /\ InLine(R, s) /\ Consistent(R)
      BY DEF Aligned
<1>2. skipPhase(s) = u
      BY DEF skipPhase
<1>3. Remains(s, u)
      BY <1>1, <1>2, SkipTyped
<1> HIDE DEF t
<1>4. InLine(R, u) /\ u.executed = s.executed /\ u.log = s.log
      BY <1>1, ComponentInLine
<1> HIDE DEF u
<1>5. QED
      BY <1>1, <1>2, <1>3, <1>4 DEF Aligned, Remains

-----------------------------------------------------------------------------
(* Handlers.                                                               *)

(* Messages of the logs.                                                   *)
LEMMA LogOf ==
    /\ \A k \in {"newviews", "prepares", "precommits", "commits"} :
           k \in LogFields \ {"proposals"}
    /\ LogTypes["newviews"] = "newview" /\ LogTypes["prepares"] = "prepare"
    /\ LogTypes["precommits"] = "precommit" /\ LogTypes["commits"] = "commit"
    /\ MessageSet("newview") = VoteSet("newview")
    /\ MessageSet("prepare") = VoteSet("prepare")
    /\ MessageSet("precommit") = VoteSet("precommit")
    /\ MessageSet("commit") = VoteSet("commit")
    /\ "proposals" \in LogFields /\ LogTypes["proposals"] = "ldrprepare"
    /\ MessageSet("ldrprepare") = ProposalSet
BY DEF LogFields, LogTypes, MessageSet

(* A vote is logged, and its quorum is complete if its number is reached.  *)
LEMMA VoteProceeds ==
    ASSUME NEW R, NEW s, Aligned(R, s), NEW k \in LogFields \ {"proposals"},
           NEW m \in VoteSet(LogTypes[k]), Fits(R, s.myid, m),
           Certifies(s.myid, m) => <<m.rdata.propv, s.myid>> \in R.taken
    PROVE  LET u == logVote(s, k, m)
           IN  /\ Aligned(R, u) /\ Remains(s, u) /\ Proceeds(R, s, u)
               /\ quorumReached(storeVote(s, k, m).size) =>
                      /\ m.signs # {}
                      /\ Counts(u.log[k], m.rdata.propv)
                      /\ ~Counts(s.log[k], m.rdata.propv)
<1> DEFINE u == logVote(s, k, m)
<1>1. m \in MessageSet(LogTypes[k])
      BY DEF LogFields, LogTypes, MessageSet
<1>2. /\ Aligned(R, u) /\ Remains(s, u)
      /\ u.log[k] = storeVote(s, k, m).msgs
      BY <1>1, LogInLine
<1> HIDE DEF u
<1>3. Proceeds(R, s, u)
      BY <1>2, MovesOn DEF Aligned
<1>4. quorumReached(storeVote(s, k, m).size) =>
          /\ m.signs # {}
          /\ Counts(storeVote(s, k, m).msgs, m.rdata.propv)
          /\ ~Counts(s.log[k], m.rdata.propv)
  <2>1. ASSUME storeVote(s, k, m).size = QSize
        PROVE  storeVote(s, k, m).size >= QSize
        BY <2>1, QuorumSizes
  <2>2. QED
        BY <2>1, QuorumVote DEF quorumReached
<1>5. QED
      BY <1>2, <1>3, <1>4 DEF u

(* handleNewview.                                                          *)
LEMMA HandleNewviewProceeds ==
    ASSUME NEW R, NEW s, Aligned(R, s), NEW m \in VoteSet("newview"),
           Fits(R, s.myid, m)
    PROVE  Proceeds(R, s, handleNewview(s, m))
<1> DEFINE v  == m.rdata.propv
           s1 == logVote(s, "newviews", m)
<1>1. WellTyped(s) /\ InLine(R, s) /\ Consistent(R) /\ s.view \in Nat
      BY ReplicaAssumption DEF Aligned, WellTyped
<1>2. \/ handleNewview(s, m) \in {s, s1}
      \/ /\ handleNewview(s, m) = prepare(s1)
         /\ quorumReached(storeVote(s, "newviews", m).size)
         /\ v = s.view /\ s.myid = getLeaderOf(v)
      BY DEF handleNewview, amLeaderOf
<1>3. m.type = "newview"
      BY DEF VoteSet
<1>4. /\ Aligned(R, s1) /\ Remains(s, s1) /\ Proceeds(R, s, s1)
      /\ quorumReached(storeVote(s, "newviews", m).size) =>
             Counts(s1.log.newviews, v) /\ ~Counts(s.log.newviews, v)
      BY <1>3, LogOf, VoteProceeds DEF Certifies
<1> HIDE DEF s1
<1>5. Proceeds(R, s, s)
      BY <1>1, MovesOn, RemainsOn
<1>6. ASSUME quorumReached(storeVote(s, "newviews", m).size),
             v = s.view, s.myid = getLeaderOf(v)
      PROVE  Proceeds(R, s, prepare(s1))
  <2>1. v \notin DOMAIN R.block
        BY <1>1, <1>4, <1>6 DEF InLine, Leading
  <2>2. Proceeds(R, s1, prepare(s1))
        BY <1>4, <1>6, <2>1, PrepareProceeds DEF Remains
  <2>3. QED
        BY <1>4, <2>2, ExtendsOn, MovesOn
<1>7. QED
      BY <1>2, <1>4, <1>5, <1>6

(* handleLdrPrepare.                                                       *)
LEMMA HandleLdrPrepareProceeds ==
    ASSUME NEW R, NEW s, Aligned(R, s), NEW m \in ProposalSet, Fits(R, s.myid, m)
    PROVE  Proceeds(R, s, handleLdrPrepare(s, m))
<1> DEFINE v  == m.just.rdata.propv
           s1 == respondToProposal(s, m.just, m.block)
           s2 == logVote(s, "proposals", m)
<1>1. WellTyped(s) /\ InLine(R, s) /\ Consistent(R)
      BY DEF Aligned
<1>2. handleLdrPrepare(s, m) \in {s, s2} \/ (handleLdrPrepare(s, m) = s1 /\ v = s.view)
      BY DEF handleLdrPrepare
<1>3. /\ m.type = "ldrprepare" /\ m.just \in JustsOver(NewviewData)
      /\ m.block \in BlockSet
      BY DEF ProposalSet
<1>4. v \in DOMAIN R.block /\ m.block = R.block[v]
      BY <1>3 DEF Fits, ProposalFits
<1>5. Remains(s, handleLdrPrepare(s, m))
      BY <1>1, HandleLdrPrepareTyped
<1>6. CASE handleLdrPrepare(s, m) = s1 /\ v = s.view
  <2>1. InLine(R, s1)
        BY <1>3, <1>4, <1>6, RespondToProposalInLine
  <2>2. QED
        BY <1>1, <1>5, <1>6, <2>1, MovesOn
<1>7. InLine(R, s2)
      BY <1>3, LogOf, LogInLine DEF Aligned, Certifies
<1>8. QED
      BY <1>1, <1>2, <1>5, <1>6, <1>7, MovesOn

(* A certificate is signed.                                                *)
LEMMA CertificateSigned ==
    ASSUME NEW signs, Cardinality(signs) = QSize
    PROVE  signs # {}
BY QuorumMember, QuorumSizes

(* handlePrepare.                                                          *)
LEMMA HandlePrepareProceeds ==
    ASSUME NEW R, NEW s, Aligned(R, s), NEW m \in VoteSet("prepare"),
           Fits(R, s.myid, m)
    PROVE  Proceeds(R, s, handlePrepare(s, m))
<1> DEFINE v  == m.rdata.propv
           j  == Just(m.rdata, m.signs)
           s1 == logVote(s, "prepares", m)
           s2 == initiatePrepare(s1, m.rdata)
           s3 == respondToPrepareJust(s, j)
<1>1. WellTyped(s) /\ InLine(R, s) /\ Consistent(R) /\ s.view \in Nat
      BY ReplicaAssumption DEF Aligned, WellTyped
<1>2. \/ handlePrepare(s, m) \in {s, s1}
      \/ /\ handlePrepare(s, m) = s2 /\ v = s.view
         /\ s.myid = getLeaderOf(s.view)
         /\ quorumReached(storeVote(s, "prepares", m).size)
      \/ /\ handlePrepare(s, m) = s3 /\ v = s.view
         /\ s.myid # getLeaderOf(s.view)
      BY DEF handlePrepare, amCurrentLeader, amLeaderOf
<1>3. m.type = "prepare" /\ m.rdata \in VoteData /\ j \in JustsOver(VoteData)
      BY VoteTyped DEF VoteSet
<1>4. j.rdata = m.rdata
      BY DEF Just
<1> HIDE DEF j
<1>5. /\ Aligned(R, s1) /\ Remains(s, s1) /\ Proceeds(R, s, s1)
      /\ quorumReached(storeVote(s, "prepares", m).size) =>
             Counts(s1.log.prepares, v) /\ ~Counts(s.log.prepares, v)
      BY <1>3, LogOf, VoteProceeds DEF Certifies
<1> HIDE DEF s1
<1>6. Proceeds(R, s, s) /\ Remains(s, handlePrepare(s, m))
      BY <1>1, MovesOn, RemainsOn, HandleVotesTyped
<1>7. CASE /\ handlePrepare(s, m) = s2 /\ v = s.view
           /\ s.myid = getLeaderOf(s.view)
           /\ quorumReached(storeVote(s, "prepares", m).size)
  <2>1. v \in DOMAIN R.block /\ v \notin R.prepared
        BY <1>1, <1>3, <1>5, <1>7 DEF InLine, Leading, Fits, PrepareFits
  <2>2. Led(R, s1)
        BY <1>1, <1>5, <1>7, <2>1 DEF Led, Consistent, Remains
  <2>3. Proceeds(R, s1, s2)
        BY <1>3, <1>5, <1>7, <2>2, InitiatePrepareProceeds DEF Remains
  <2>4. QED
        BY <1>5, <1>7, <2>3, ExtendsOn, MovesOn
<1>8. CASE /\ handlePrepare(s, m) = s3 /\ v = s.view
           /\ s.myid # getLeaderOf(s.view)
  <2>1. v \in R.prepared
        BY <1>3, <1>8 DEF Fits, PrepareFits
  <2>2. InLine(R, s3)
        BY <1>3, <1>4, <1>8, <2>1, RespondToCertificateInLine
  <2>3. QED
        BY <1>1, <1>6, <1>8, <2>2, MovesOn
<1>9. QED
      BY <1>2, <1>5, <1>6, <1>7, <1>8

(* handlePrecommit.                                                        *)
LEMMA HandlePrecommitProceeds ==
    ASSUME NEW R, NEW s, Aligned(R, s), NEW m \in VoteSet("precommit"),
           Fits(R, s.myid, m)
    PROVE  Proceeds(R, s, handlePrecommit(s, m))
<1> DEFINE v  == m.rdata.propv
           j  == Just(m.rdata, m.signs)
           s1 == logVote(s, "precommits", m)
           s2 == initiatePrecommit(s1, m.rdata)
           s3 == respondToPreCommitJust(s, j)
<1>1. WellTyped(s) /\ InLine(R, s) /\ Consistent(R) /\ s.view \in Nat
      BY ReplicaAssumption DEF Aligned, WellTyped
<1>2. \/ handlePrecommit(s, m) \in {s, s1}
      \/ /\ handlePrecommit(s, m) = s2 /\ v = s.view
         /\ s.myid = getLeaderOf(s.view)
         /\ quorumReached(storeVote(s, "precommits", m).size)
      \/ /\ handlePrecommit(s, m) = s3 /\ v = s.view
         /\ s.myid # getLeaderOf(s.view) /\ Cardinality(m.signs) = QSize
      BY DEF handlePrecommit, amCurrentLeader, amLeaderOf
<1>3. m.type = "precommit" /\ m.rdata \in VoteData /\ j \in JustsOver(VoteData)
      BY VoteTyped DEF VoteSet
<1>4. j.rdata = m.rdata
      BY DEF Just
<1> HIDE DEF j
<1>5. /\ Aligned(R, s1) /\ Remains(s, s1) /\ Proceeds(R, s, s1)
      /\ quorumReached(storeVote(s, "precommits", m).size) =>
             /\ m.signs # {}
             /\ Counts(s1.log.precommits, v) /\ ~Counts(s.log.precommits, v)
      BY <1>3, LogOf, VoteProceeds DEF Certifies
<1> HIDE DEF s1
<1>6. Proceeds(R, s, s) /\ Remains(s, handlePrecommit(s, m))
      BY <1>1, MovesOn, RemainsOn, HandleVotesTyped
<1>7. CASE /\ handlePrecommit(s, m) = s2 /\ v = s.view
           /\ s.myid = getLeaderOf(s.view)
           /\ quorumReached(storeVote(s, "precommits", m).size)
  <2>1. v \in R.prepared
        BY <1>3, <1>5, <1>7 DEF Fits, PrecommitFits, NoVote
  <2>2. v \in DOMAIN R.block /\ v \notin R.committed
        BY <1>1, <1>5, <1>7, <2>1 DEF InLine, Leading, Consistent
  <2>3. Led(R, s1)
        BY <1>5, <1>7, <2>2 DEF Led, Remains
  <2>4. Proceeds(R, s1, s2)
        BY <1>3, <1>5, <1>7, <2>1, <2>3, InitiatePrecommitProceeds DEF Remains
  <2>5. QED
        BY <1>5, <1>7, <2>4, ExtendsOn, MovesOn
<1>8. CASE /\ handlePrecommit(s, m) = s3 /\ v = s.view
           /\ s.myid # getLeaderOf(s.view) /\ Cardinality(m.signs) = QSize
  <2>1. v \in R.precommitted
        BY <1>3, <1>8, CertificateSigned DEF Fits, PrecommitFits, NoVote
  <2>2. InLine(R, s3)
        BY <1>3, <1>4, <1>8, <2>1, RespondToCertificateInLine
  <2>3. QED
        BY <1>1, <1>6, <1>8, <2>2, MovesOn
<1>9. QED
      BY <1>2, <1>5, <1>6, <1>7, <1>8

(* handleCommit; a commit certificate has not arrived before.              *)
LEMMA HandleCommitProceeds ==
    ASSUME NEW R, NEW s, Aligned(R, s), NEW m \in VoteSet("commit"),
           Fits(R, s.myid, m),
           Certifies(s.myid, m) =>
               /\ <<m.rdata.propv, s.myid>> \in R.taken
               /\ \A k \in DOMAIN s.executed : s.executed[k].view # m.rdata.propv
    PROVE  Proceeds(R, s, handleCommit(s, m))
<1> DEFINE v  == m.rdata.propv
           s1 == logVote(s, "commits", m)
           s2 == initiateCommit(s1, m.rdata)
           s3 == executeRData(s, m.rdata)
<1>1. WellTyped(s) /\ InLine(R, s) /\ Consistent(R) /\ s.view \in Nat
      BY ReplicaAssumption DEF Aligned, WellTyped
<1>2. \/ handleCommit(s, m) \in {s, s1}
      \/ /\ handleCommit(s, m) = s2 /\ v = s.view
         /\ s.myid = getLeaderOf(s.view)
         /\ quorumReached(storeVote(s, "commits", m).size)
      \/ /\ handleCommit(s, m) = s3 /\ v = s.view
         /\ s.myid # getLeaderOf(s.view) /\ Cardinality(m.signs) = QSize
      BY DEF handleCommit, amCurrentLeader, amLeaderOf
<1>3. m.type = "commit" /\ m.rdata \in VoteData
      BY VoteTyped DEF VoteSet
<1>4. /\ Aligned(R, s1) /\ Remains(s, s1) /\ Proceeds(R, s, s1)
      /\ quorumReached(storeVote(s, "commits", m).size) =>
             /\ m.signs # {}
             /\ Counts(s1.log.commits, v) /\ ~Counts(s.log.commits, v)
      BY <1>3, LogOf, VoteProceeds
<1> HIDE DEF s1
<1>5. Proceeds(R, s, s) /\ Remains(s, handleCommit(s, m))
      BY <1>1, MovesOn, RemainsOn, HandleVotesTyped
<1>6. CASE /\ handleCommit(s, m) = s2 /\ v = s.view
           /\ s.myid = getLeaderOf(s.view)
           /\ quorumReached(storeVote(s, "commits", m).size)
  <2>1. v \in R.precommitted
        BY <1>3, <1>4, <1>6 DEF Fits, CommitFits, NoVote
  <2>2. v \in DOMAIN R.block /\ v \notin R.committed
        BY <1>1, <1>4, <1>6, <2>1 DEF InLine, Leading, Consistent
  <2>3. Led(R, s1)
        BY <1>4, <1>6, <2>2 DEF Led, Remains
  <2>4. Proceeds(R, s1, s2)
        BY <1>3, <1>4, <1>6, <2>1, <2>3, InitiateCommitProceeds DEF Remains
  <2>5. QED
        BY <1>4, <1>6, <2>4, ExtendsOn, MovesOn
<1>7. CASE /\ handleCommit(s, m) = s3 /\ v = s.view
           /\ s.myid # getLeaderOf(s.view) /\ Cardinality(m.signs) = QSize
  <2>1. m.signs # {} /\ Certifies(s.myid, m)
        BY <1>3, <1>7, CertificateSigned DEF Certifies
  <2>2. v \in R.committed
        BY <1>3, <1>7, <2>1 DEF Fits, CommitFits, NoVote
  <2>3. InLine(R, s3)
        BY <1>7, <2>1, <2>2, ExecuteInLine
  <2>4. QED
        BY <1>1, <1>5, <1>7, <2>3, MovesOn
<1>8. QED
      BY <1>2, <1>4, <1>5, <1>6, <1>7

-----------------------------------------------------------------------------
(* Entering a view.                                                        *)

(* firstPrepare, firstPrecommit and firstCommit return a vote of the view. *)
LEMMA FirstOfView ==
    ASSUME NEW R, NEW s, Aligned(R, s),
           NEW k \in {"prepares", "precommits", "commits"}, Full(s.log[k], s.view)
    PROVE  \E m \in s.log[k] :
               /\ first(s.log[k], s.view) = Just(m.rdata, m.signs)
               /\ m.rdata.propv = s.view /\ m.type = LogTypes[k]
               /\ m \in VoteSet(LogTypes[k]) /\ Fits(R, s.myid, m)
               /\ Certifies(s.myid, m) => <<s.view, s.myid>> \in R.taken
<1> DEFINE msgs == s.log[k]
<1>1. WellTyped(s) /\ InLine(R, s) /\ LogTyped(s.log) /\ k \in LogFields \ {"proposals"}
      BY DEF Aligned, WellTyped, LogFields
<1>2. IsFiniteSet(msgs) /\ \A m \in msgs : Signed(m) /\ m \in VoteSet(LogTypes[k])
      BY <1>1, LogSigned DEF LogTyped
<1>3. LogTypes[k] \in VoteTypes
      BY DEF LogTypes, VoteTypes
<1>4. \A m \in msgs : ViewOf(m) = m.rdata.propv /\ m.type = LogTypes[k]
      BY <1>2, <1>3, VoteView
<1>5. \A m \in msgs : /\ Fits(R, s.myid, m)
                      /\ Certifies(s.myid, m) => <<m.rdata.propv, s.myid>> \in R.taken
      BY <1>1 DEF InLine, LogFits
<1>6. InView(msgs, s.view) # {}
      BY FullFact
<1> HIDE DEF msgs
<1>7. PICK m \in InView(msgs, s.view) : first(msgs, s.view) = Just(m.rdata, m.signs)
      BY <1>2, <1>6, FirstFact
<1>8. m \in msgs /\ m.rdata.propv = s.view
      BY <1>4 DEF InView
<1>9. QED
      BY <1>2, <1>4, <1>5, <1>7, <1>8 DEF msgs

(* A backup enters a view after the first one, which it has not executed.  *)
Entering(R, s) ==
    /\ Aligned(R, s) /\ s.view # 0
    /\ getLeaderOf(s.view) = s.myid => s.view \notin DOMAIN R.block
    /\ \A k \in DOMAIN s.executed : s.executed[k].view # s.view

(* catchUp.                                                                *)
LEMMA CatchUpInLine ==
    ASSUME NEW R, NEW s, Entering(R, s), getLeaderOf(s.view) # s.myid,
           Full(s.log.precommits, s.view)
    PROVE  InLine(R, catchUp(s))
<1> DEFINE v  == s.view
           x  == skipPhase(s)
           y  == skipPhase(x)
           j  == first(s.log.precommits, v)
           c  == first(s.log.commits, v)
           s1 == respondToPreCommitJust(y, j)
           s2 == executeRData(s1, c.rdata)
<1>1. /\ catchUp(s) = s1 \/ (catchUp(s) = s2 /\ Full(s.log.commits, v))
      BY DEF catchUp
<1>2. /\ Aligned(R, s) /\ WellTyped(s)
      BY DEF Entering, Aligned
<1>3. Aligned(R, x) /\ Remains(s, x) /\ x.executed = s.executed
      BY <1>2, SkipInLine
<1> HIDE DEF x
<1>4. Aligned(R, y) /\ Remains(x, y) /\ y.executed = x.executed
      BY <1>3, SkipInLine
<1> HIDE DEF y
<1>5. y.view = v /\ y.myid = s.myid /\ y.executed = s.executed
      BY <1>3, <1>4 DEF Remains
<1>6. /\ j \in JustsOver(VoteData) /\ j.rdata.propv = v
      /\ Cardinality(j.signs) = QSize => v \in R.precommitted
  <2>1. PICK m \in s.log.precommits :
                 /\ j = Just(m.rdata, m.signs)
                 /\ m.rdata.propv = v /\ m.type = LogTypes["precommits"]
                 /\ Fits(R, s.myid, m)
        BY <1>2, FirstOfView
  <2>2. j \in JustsOver(VoteData)
        BY <1>2, LogYields DEF WellTyped
  <2>3. j.rdata = m.rdata /\ j.signs = m.signs
        BY <2>1 DEF Just
  <2>4. m.signs # {} => v \in R.precommitted
        BY <2>1, LogOf DEF Fits, PrecommitFits, NoVote
  <2> HIDE DEF j
  <2>5. QED
        BY <2>1, <2>2, <2>3, <2>4, CertificateSigned
<1> HIDE DEF j
<1>7. InLine(R, s1) /\ s1.executed = s.executed
      BY <1>4, <1>5, <1>6, RespondToCertificateInLine
<1>8. Remains(y, s1)
      BY <1>4, <1>6, RespondToCertificateTyped DEF Aligned
<1> HIDE DEF s1
<1>9. Aligned(R, s1) /\ s1.view = v /\ s1.myid = s.myid
      BY <1>2, <1>5, <1>7, <1>8 DEF Remains, Aligned
<1>10. ASSUME Full(s.log.commits, v) PROVE InLine(R, s2)
  <2>1. PICK m \in s.log.commits :
                 /\ m.rdata.propv = v /\ m.type = LogTypes["commits"]
                 /\ Fits(R, s.myid, m)
                 /\ Certifies(s.myid, m) => <<v, s.myid>> \in R.taken
        BY <1>2, <1>10, FirstOfView
  <2>2. NoJust.rdata.propv = 0
        BY DEF NoJust, RData
  <2>3. m.signs # {} /\ v \in R.committed
        BY <2>1, <2>2, LogOf DEF Fits, CommitFits, NoVote, Entering
  <2>4. <<v, s.myid>> \in R.taken
        BY <2>1, <2>3, LogOf DEF Certifies
  <2>5. QED
        BY <1>7, <1>9, <2>3, <2>4, ExecuteInLine DEF Entering
<1>11. QED
       BY <1>1, <1>7, <1>10

(* handleEarlierMessages.                                                  *)
LEMMA HandleEarlierProceeds ==
    ASSUME NEW R, NEW s, Entering(R, s)
    PROVE  Proceeds(R, s, handleEarlierMessages(s))
<1> DEFINE v        == s.view
           proposal == {m \in firstProposal(s.log.proposals, v) :
                           Cardinality(m.signs) = 1}
           chosen   == CHOOSE m \in proposal : TRUE
           x        == skipPhase(s)
           j        == first(s.log.prepares, v)
           skipped  == respondToPrepareJust(x, j)
<1>1. \/ handleEarlierMessages(s) = s
      \/ /\ handleEarlierMessages(s) = prepare(s)
         /\ getLeaderOf(v) = s.myid /\ Full(s.log.newviews, v)
      \/ /\ handleEarlierMessages(s) = catchUp(s)
         /\ getLeaderOf(v) # s.myid /\ Full(s.log.precommits, v)
      \/ /\ handleEarlierMessages(s) = skipped
         /\ getLeaderOf(v) # s.myid /\ Full(s.log.prepares, v)
      \/ /\ proposal # {} /\ getLeaderOf(v) # s.myid
         /\ handleEarlierMessages(s) = respondToProposal(s, chosen.just, chosen.block)
      BY DEF handleEarlierMessages, amCurrentLeader, amLeaderOf
<1>2. Aligned(R, s) /\ WellTyped(s) /\ InLine(R, s) /\ Consistent(R) /\ LogTyped(s.log)
      BY DEF Entering, Aligned, WellTyped
<1>3. Remains(s, handleEarlierMessages(s))
      BY <1>2, HandleEarlierTyped
<1>4. ASSUME getLeaderOf(v) = s.myid, Full(s.log.newviews, v)
      PROVE  Proceeds(R, s, prepare(s))
  <2>1. /\ IsFiniteSet(s.log.newviews)
        /\ \A m \in s.log.newviews : m.type = "newview" /\ Fits(R, s.myid, m)
    <3>1. \A m \in s.log.newviews : m \in VoteSet("newview")
          BY <1>2, LogOf, LogSigned
    <3>2. \A m \in s.log.newviews : Fits(R, s.myid, m)
          BY <1>2, LogOf DEF InLine, LogFits
    <3>3. QED
          BY <1>2, <3>1, <3>2, LogOf DEF LogTyped, VoteSet
  <2>2. \A m \in s.log.newviews : \E g : m.signs = {g}
        BY <2>1 DEF Fits, NewviewFits
  <2>3. Counts(s.log.newviews, v)
        BY <1>4, <2>1, <2>2, GetSingles DEF Full, Counts
  <2>4. QED
        BY <1>2, <1>4, <2>3, PrepareProceeds DEF Entering
<1>5. ASSUME getLeaderOf(v) # s.myid, Full(s.log.precommits, v)
      PROVE  InLine(R, catchUp(s))
      BY <1>5, CatchUpInLine
<1>6. ASSUME getLeaderOf(v) # s.myid, Full(s.log.prepares, v)
      PROVE  InLine(R, skipped)
  <2>1. Aligned(R, x) /\ x.view = v
        BY <1>2, SkipInLine DEF Remains
  <2>2. PICK m \in s.log.prepares :
                 /\ j = Just(m.rdata, m.signs)
                 /\ m.rdata.propv = v /\ m.type = LogTypes["prepares"]
                 /\ Fits(R, s.myid, m)
        BY <1>2, <1>6, FirstOfView
  <2>3. j \in JustsOver(VoteData)
        BY <1>2, LogYields
  <2>4. j.rdata.propv = v
        BY <2>2 DEF Just
  <2>5. v \in R.prepared
        BY <1>6, <2>2, LogOf DEF Fits, PrepareFits
  <2> HIDE DEF x, j
  <2>6. QED
        BY <2>1, <2>3, <2>4, <2>5, RespondToCertificateInLine
<1>7. ASSUME proposal # {}, getLeaderOf(v) # s.myid
      PROVE  InLine(R, respondToProposal(s, chosen.just, chosen.block))
  <2>1. chosen \in firstProposal(s.log.proposals, v)
        BY <1>7
  <2> HIDE DEF chosen, proposal
  <2>2. chosen \in InView(s.log.proposals, v)
    <3>1. /\ InView(s.log.proposals, v) # {}
          /\ chosen = FirstMsg(InView(s.log.proposals, v))
          BY <2>1 DEF firstProposal
    <3>2. IsFiniteSet(s.log.proposals) /\ \A m \in s.log.proposals : Signed(m)
          BY <1>2, LogOf, LogSigned DEF LogTyped
    <3>3. IsFiniteSet(InView(s.log.proposals, v))
          BY <3>2, InViewFinite
    <3>4. QED
          BY <3>1, <3>2, <3>3, FirstMsgFact DEF InView
  <2>3. chosen \in s.log.proposals /\ ViewOf(chosen) = v
        BY <2>2 DEF InView
  <2>4. chosen \in ProposalSet /\ Fits(R, s.myid, chosen)
        BY <1>2, <2>3, LogOf, LogSigned DEF InLine, LogFits
  <2>5. /\ chosen.type = "ldrprepare" /\ chosen.just \in JustsOver(NewviewData)
        /\ chosen.block \in BlockSet
        BY <2>4 DEF ProposalSet
  <2>6. chosen.just.rdata.propv = v
        BY <2>3, <2>5 DEF ViewOf
  <2>7. v \in DOMAIN R.block /\ chosen.block = R.block[v]
        BY <2>4, <2>5, <2>6 DEF Fits, ProposalFits
  <2>8. QED
        BY <1>2, <2>5, <2>6, <2>7, RespondToProposalInLine
<1> HIDE DEF skipped, chosen, proposal
<1>8. QED
      BY <1>1, <1>2, <1>3, <1>4, <1>5, <1>6, <1>7, MovesOn

(* It gets to such a state, perhaps in another view.                       *)
Reaches(R, s, u) ==
    /\ WellTyped(u) /\ u.myid = s.myid
    /\ \E Q : Consistent(Q) /\ Extends(R, Q, s.myid) /\ InLine(Q, u)

(* The replica's own new-view message.                                     *)
LEMMA NewviewAnswers ==
    ASSUME NEW j \in JustsOver(NewviewData), \E g : j.signs = {g}
    PROVE  /\ MsgNewView(j) \in VoteSet("newview") /\ MsgNewView(j) \in MessageSets
           /\ \A R, d : Fits(R, d, MsgNewView(j)) /\ ~Certifies(d, MsgNewView(j))
<1> DEFINE m == MsgNewView(j)
<1>1. m \in VoteSet("newview") /\ m \in MessageSets
      BY MessageTyped DEF VoteTypes
<1>2. m.type = "newview" /\ m.signs = j.signs
      BY DEF MsgNewView, Msg
<1> HIDE DEF m
<1>3. \A R, d : Fits(R, d, m) /\ ~Certifies(d, m)
      BY <1>2 DEF Fits, NewviewFits, Certifies
<1>4. QED
      BY <1>1, <1>3 DEF m

(* The replica passes to the next view.                                    *)
LEMMA NextViewEntering ==
    ASSUME NEW R, NEW s, Aligned(R, s), ~timeToStop(s), NEW t \in ComponentSet
    PROVE  LET u == setTimer([s EXCEPT !.tf = t, !.view = @ + 1, !.pending = "none"])
           IN  Entering(R, u) /\ u.myid = s.myid
<1> DEFINE x == [s EXCEPT !.tf = t, !.view = @ + 1, !.pending = "none", !.timer = TRUE]
<1>1. /\ WellTyped(s) /\ InLine(R, s) /\ Consistent(R)
      /\ s.view \in Nat /\ s.view + 1 \in 0 .. MaxViews - 1
      BY ReplicaAssumption DEF Aligned, WellTyped, timeToStop
<1>2. setTimer([s EXCEPT !.tf = t, !.view = @ + 1, !.pending = "none"]) = x
      BY DEF setTimer
<1>3. /\ DOMAIN x = Fields /\ x.myid = s.myid /\ x.view = s.view + 1
      /\ x.pending = "none" /\ x.tf = t /\ x.log = s.log
      /\ x.blocks = s.blocks /\ x.transactions = s.transactions
      /\ x.fromClient = s.fromClient /\ x.replied = s.replied
      /\ x.executed = s.executed /\ x.out = s.out
      BY <1>1 DEF WellTyped, Fields
<1> HIDE DEF x
<1>4. WellTyped(x)
      BY <1>1, <1>3 DEF WellTyped, QueuesTyped
<1>5. \A k \in DOMAIN s.executed : s.executed[k].view \in Nat
  <2>1. s.executed \in Seq(Entries)
        BY <1>1 DEF WellTyped, QueuesTyped
  <2>2. \A X, q : q \in Seq(X) => \A k \in DOMAIN q : q[k] \in X
        OBVIOUS
  <2>3. \A k \in DOMAIN s.executed : s.executed[k] \in Entries
        BY <2>1, <2>2
  <2>4. QED
        BY <2>3 DEF Entries
<1>6. Leading(R, s.myid, s.view + 1, s.log)
      BY <1>1 DEF InLine, Leading
<1>7. ExecutedFits(R, s.myid, s.view + 1, s.executed)
      BY <1>1, <1>5 DEF InLine, ExecutedFits
<1>8. InLine(R, x)
      BY <1>1, <1>3, <1>6, <1>7 DEF InLine
<1>9. getLeaderOf(s.view + 1) = s.myid => s.view + 1 \notin DOMAIN R.block
      BY <1>1 DEF InLine, Leading
<1>10. \A k \in DOMAIN s.executed : s.executed[k].view # s.view + 1
  <2>1. \A k \in DOMAIN s.executed : s.executed[k].view <= s.view
        BY <1>1 DEF InLine, ExecutedFits
  <2>2. ASSUME NEW w \in Nat, w <= s.view PROVE w # s.view + 1
        BY <1>1, <2>2
  <2>3. QED
        BY <1>5, <2>1, <2>2
<1>11. QED
       BY <1>1, <1>2, <1>3, <1>4, <1>8, <1>9, <1>10 DEF Entering, Aligned

(* startNewView, which is not called in the last view.                     *)
LEMMA StartNewViewReaches ==
    ASSUME NEW R, NEW s, Aligned(R, s), ~timeToStop(s)
    PROVE  Reaches(R, s, startNewView(s))
<1> DEFINE r  == TEEsignPast(s.myid, s.tf, s.view)
           s1 == setTimer([s EXCEPT !.tf = r.tee, !.view = @ + 1,
                                    !.pending = "none"])
           m  == MsgNewView(r.just)
           s2 == send(s1, currentLeader(s1), m)
           h1 == handleEarlierMessages(s1)
           h2 == handleEarlierMessages(s2)
           h3 == handleNewview(h1, m)
<1>1. startNewView(s) \in {s1, h3, h2}
      BY DEF startNewView
<1>2. WellTyped(s) /\ s.view \in Nat
      BY ReplicaAssumption DEF Aligned, WellTyped
<1>3. /\ r.tee \in ComponentSet /\ r.just \in JustsOver(NewviewData)
      /\ \E g : r.just.signs = {g}
  <2>1. r.tee \in ComponentSet /\ r.just \in JustsOver(NewviewData)
        BY <1>2, TEEsignPastTyped DEF WellTyped
  <2>2. \E g : r.just.signs = {g}
        BY DEF TEEsignPast, Just
  <2>3. QED
        BY <2>1, <2>2
<1> HIDE DEF r
<1>4. /\ m \in VoteSet("newview") /\ m \in MessageSets
      /\ \A Q, d : Fits(Q, d, m) /\ ~Certifies(d, m)
      BY <1>3, NewviewAnswers
<1> HIDE DEF m
<1>5. Entering(R, s1) /\ s1.myid = s.myid
      BY <1>3, NextViewEntering
<1> HIDE DEF s1
<1>6. Aligned(R, s1) /\ WellTyped(s1) /\ InLine(R, s1) /\ Consistent(R)
      BY <1>5 DEF Entering, Aligned
<1>7. Reaches(R, s, s1)
      BY <1>5, <1>6, ExtendsOn DEF Reaches
<1>8. Reaches(R, s, h3)
  <2>1. Proceeds(R, s1, h1)
        BY <1>5, HandleEarlierProceeds
  <2>2. PICK Q : Consistent(Q) /\ Extends(R, Q, s.myid) /\ InLine(Q, h1)
        BY <1>5, <2>1 DEF Proceeds
  <2>3. Aligned(Q, h1) /\ h1.myid = s.myid
        BY <1>5, <2>1, <2>2 DEF Aligned, Proceeds, Remains
  <2> HIDE DEF h1
  <2>4. Proceeds(Q, h1, h3)
        BY <1>4, <2>3, HandleNewviewProceeds
  <2> HIDE DEF h3
  <2>5. PICK P : Consistent(P) /\ Extends(Q, P, s.myid) /\ InLine(P, h3)
        BY <2>3, <2>4 DEF Proceeds
  <2>6. QED
        BY <2>2, <2>3, <2>4, <2>5, ExtendsOn DEF Reaches, Proceeds, Remains
<1>9. Reaches(R, s, h2)
  <2>1. InLine(R, s2) /\ Remains(s1, s2) /\ s2.executed = s1.executed
        BY <1>4, <1>6, SendInLine, SendTyped, SendAppends
  <2> HIDE DEF s2
  <2>2. Entering(R, s2)
        BY <1>5, <1>6, <2>1 DEF Entering, Aligned, Remains
  <2>3. Proceeds(R, s2, h2)
        BY <2>2, HandleEarlierProceeds
  <2> HIDE DEF h2
  <2>4. QED
        BY <1>5, <2>1, <2>3 DEF Proceeds, Remains, Reaches
<1>10. QED
       BY <1>1, <1>7, <1>8, <1>9

(* getStarted.                                                             *)
LEMMA GetStartedProceeds ==
    ASSUME NEW R, NEW s, Aligned(R, s)
    PROVE  Proceeds(R, s, getStarted(s))
<1> DEFINE r  == TEEsign(s.myid, s.tf)
           s1 == [s EXCEPT !.tf = r.tee]
           m  == MsgNewView(r.just)
           s2 == send(s1, currentLeader(s1), m)
           s3 == handleNewview(s1, m)
<1>1. getStarted(s) \in {s3, s2}
      BY DEF getStarted
<1>2. WellTyped(s) /\ InLine(R, s) /\ Consistent(R)
      BY DEF Aligned
<1>3. /\ r.tee \in ComponentSet /\ r.just \in JustsOver(NewviewData)
      /\ \E g : r.just.signs = {g}
  <2>1. r.tee \in ComponentSet /\ r.just \in JustsOver(NewviewData)
        BY <1>2, TEEsignTyped DEF WellTyped
  <2>2. \E g : r.just.signs = {g}
        BY DEF TEEsign, sign, Just
  <2>3. QED
        BY <2>1, <2>2
<1> HIDE DEF r
<1>4. /\ m \in VoteSet("newview") /\ m \in MessageSets
      /\ \A Q, d : Fits(Q, d, m) /\ ~Certifies(d, m)
      BY <1>3, NewviewAnswers
<1> HIDE DEF m
<1>5. Remains(s, s1) /\ InLine(R, s1)
      BY <1>2, <1>3, SetComponentTyped, ComponentInLine
<1> HIDE DEF s1
<1>6. Aligned(R, s1)
      BY <1>2, <1>5 DEF Aligned, Remains
<1>7. Proceeds(R, s1, s3)
      BY <1>4, <1>6, HandleNewviewProceeds
<1>8. Proceeds(R, s1, s2)
      BY <1>2, <1>4, <1>5, SendInLine, SendTyped, MovesOn DEF Remains
<1>9. QED
      BY <1>1, <1>5, <1>7, <1>8, ExtendsOn, MovesOn

-----------------------------------------------------------------------------
(* The system.                                                             *)

(* A replica moves; the others are in line with what it completes.         *)
LEMMA OneProceeds ==
    ASSUME NEW R, Consistent(R), NEW state, DOMAIN state = PID,
           \A i \in PID : InLine(R, state[i]) /\ state[i].myid = i,
           NEW n \in PID, NEW u, Reaches(R, state[n], u)
    PROVE  \E Q : /\ Consistent(Q)
                  /\ \A i \in PID : InLine(Q, [state EXCEPT ![n] = u][i])
<1>1. PICK Q : Consistent(Q) /\ Extends(R, Q, n) /\ InLine(Q, u)
      BY DEF Reaches
<1>2. \A i \in PID \ {n} : InLine(Q, state[i])
      BY <1>1, OthersExtend
<1>3. \A i \in PID : InLine(Q, [state EXCEPT ![n] = u][i])
      BY <1>1, <1>2
<1>4. QED
      BY <1>1, <1>3

(* What a replica has to say of a certificate that it takes.               *)
Takes(R, n, m) ==
    IF Certifies(n, m)
    THEN Rounds(R.block, R.prepared, R.precommitted, R.committed,
                R.taken \cup {<<m.rdata.propv, n>>})
    ELSE R

(* The connection from p to n, of which `left' is left when message m is   *)
(* taken from it.                                                          *)
TakenFits(R, p, n, m, left) ==
    \E Q : /\ Consistent(Q) /\ Fits(Q, n, m)
           /\ \A i \in PID \ {p} : InLine(Q, node[i])
           /\ InLine(Q, left)
           /\ Certifies(n, m) =>
                  /\ <<m.rdata.propv, n>> \in Q.taken
                  /\ \A l \in DOMAIN node[n].executed :
                         node[n].executed[l].view # m.rdata.propv

(* A message leaves its connection, the ones before it are discarded.      *)
LEMMA TakeInLine ==
    ASSUME NEW R, Consistent(R), NEW n \in PID, NEW p \in PID,
           \A i \in PID : WellTyped(node[i]) /\ InLine(R, node[i]) /\ node[i].myid = i,
           NEW k \in 1 .. Len(node[p].out[n]),
           NEW taken, taken = node[p].out[n][k],
           NEW left, left = [node[p] EXCEPT !.out[n] = SubSeq(@, k + 1, Len(@))]
    PROVE  TakenFits(R, p, n, taken, left)
<1> DEFINE s    == node[p]
           q    == s.out[n]
           m    == q[k]
           v    == m.rdata.propv
           Q    == Takes(R, n, m)
           rest == SubSeq(q, k + 1, Len(q))
           o    == [s.out EXCEPT ![n] = rest]
           u    == [s EXCEPT !.out = o]
<1>1. /\ WellTyped(s) /\ InLine(R, s) /\ s.myid = p
      /\ q \in Seq(MessageSets) /\ k \in DOMAIN q
      BY DEF WellTyped
<1>2. /\ OutFits(R, p, s.out)
      /\ Fits(R, n, m)
      /\ Certifies(n, m) =>
             /\ getLeaderOf(v) = p /\ <<v, n>> \notin R.taken
             /\ \A l \in DOMAIN q :
                    Certifies(n, q[l]) /\ q[l].rdata.propv = v => l = k
      BY <1>1 DEF InLine, OutFits
<1>3. /\ Q.block = R.block /\ Q.prepared = R.prepared
      /\ Q.precommitted = R.precommitted /\ Q.committed = R.committed
      /\ R.taken \subseteq Q.taken
      /\ \A w, i : <<w, i>> \in Q.taken /\ <<w, i>> \notin R.taken =>
             w = v /\ i = n /\ Certifies(n, m)
      /\ Certifies(n, m) => <<v, n>> \in Q.taken
  <2>1. CASE Certifies(n, m)
    <3>1. Q = Rounds(R.block, R.prepared, R.precommitted, R.committed,
                     R.taken \cup {<<v, n>>})
          BY <2>1 DEF Takes
    <3> HIDE DEF Q, m
    <3>2. QED
          BY <2>1, <3>1 DEF Rounds
  <2>2. CASE ~Certifies(n, m)
    <3>1. Q = R
          BY <2>2 DEF Takes
    <3> HIDE DEF Q, m
    <3>2. QED
          BY <2>2, <3>1
  <2>3. QED
        BY <2>1, <2>2
<1>4. DOMAIN rest \subseteq Nat /\ \A l \in DOMAIN rest :
          k + l \in DOMAIN q /\ rest[l] = q[k + l] /\ k + l # k
  <2>1. \A X, x, i : x \in Seq(X) /\ i \in 1 .. Len(x) =>
            LET y == SubSeq(x, i + 1, Len(x))
            IN  /\ DOMAIN y \subseteq Nat
                /\ \A l \in DOMAIN y : /\ i + l \in DOMAIN x /\ i + l # i
                                       /\ y[l] = x[i + l]
        OBVIOUS
  <2> HIDE DEF q
  <2>2. QED
        BY <1>1, <2>1
<1>5. \A l, i \in DOMAIN rest : k + l = k + i => l = i
      BY <1>1, <1>4
<1> HIDE DEF Q, m, rest
<1>6. \A w : TransOf(Q, w) = TransOf(R, w)
      BY <1>3 DEF TransOf
<1>7. \A d, x : Fits(R, d, x) => Fits(Q, d, x)
      BY <1>3 DEF Fits, PrepareFits, PrecommitFits, CommitFits, ProposalFits
<1>8. Certifies(n, m) => v \in R.committed
      BY <1>2 DEF Certifies, Fits, CommitFits, NoVote
<1>9. Consistent(Q)
  <2>1. \A w, i : <<w, i>> \in Q.taken => w \in Q.committed
        BY <1>3, <1>8 DEF Consistent
  <2>2. QED
        BY <1>3, <1>6, <2>1 DEF Consistent
<1>10. ASSUME NEW i \in PID, NEW x, InLine(R, x), OutFits(Q, x.myid, x.out)
       PROVE  InLine(Q, x)
  <2>1. Leading(Q, x.myid, x.view, x.log)
        BY <1>3, <1>10 DEF InLine, Leading
  <2>2. LogFits(Q, x.myid, x.log)
        BY <1>3, <1>7, <1>10 DEF InLine, LogFits
  <2>3. ExecutedFits(Q, x.myid, x.view, x.executed)
        BY <1>3, <1>10 DEF InLine, ExecutedFits
  <2>4. RepliesFit(Q, x.executed, x.replied)
        BY <1>6, <1>10 DEF InLine, RepliesFit
  <2>5. BlocksFit(Q, x.blocks)
        BY <1>3, <1>10 DEF InLine, BlocksFit
  <2>6. QueuesFit(Q, x.myid, x.transactions, x.fromClient)
        BY <1>3, <1>6, <1>10 DEF InLine, QueuesFit
  <2>7. QED
        BY <1>10, <2>1, <2>2, <2>3, <2>4, <2>5, <2>6 DEF InLine
<1>11. ASSUME NEW i \in PID \ {p} PROVE InLine(Q, node[i])
  <2>1. OutFits(R, i, node[i].out) /\ InLine(R, node[i]) /\ node[i].myid = i
        BY DEF InLine
  <2>2. ASSUME NEW d \in PID, NEW l \in DOMAIN node[i].out[d],
               Certifies(d, node[i].out[d][l])
        PROVE  <<node[i].out[d][l].rdata.propv, d>> \notin Q.taken
    <3>1. /\ getLeaderOf(node[i].out[d][l].rdata.propv) = i
          /\ <<node[i].out[d][l].rdata.propv, d>> \notin R.taken
          BY <2>1, <2>2 DEF OutFits
    <3>2. QED
          BY <1>2, <1>3, <3>1
  <2>3. \A d \in PID : \A l \in DOMAIN node[i].out[d] : Fits(Q, d, node[i].out[d][l])
        BY <1>7, <2>1 DEF OutFits
  <2>4. OutFits(Q, i, node[i].out)
        BY <2>1, <2>2, <2>3 DEF OutFits
  <2>5. QED
        BY <1>10, <2>1, <2>4
<1>12. /\ \A d \in PID \ {n} : o[d] = s.out[d]
       /\ o[n] = rest
       BY <1>1 DEF WellTyped
<1> HIDE DEF o
<1>13. OutFits(Q, p, o)
  <2>1. ASSUME NEW d \in PID, NEW l \in DOMAIN o[d]
        PROVE  /\ Fits(Q, d, o[d][l])
               /\ Certifies(d, o[d][l]) =>
                     /\ getLeaderOf(o[d][l].rdata.propv) = p
                     /\ <<o[d][l].rdata.propv, d>> \notin Q.taken
                     /\ \A i \in DOMAIN o[d] :
                           /\ Certifies(d, o[d][i])
                           /\ o[d][i].rdata.propv = o[d][l].rdata.propv
                           => i = l
    <3>1. CASE d # n
      <4>1. o[d] = s.out[d]
            BY <1>12, <3>1
      <4>2. \A w : <<w, d>> \in Q.taken => <<w, d>> \in R.taken
            BY <1>3, <3>1
      <4> HIDE DEF s
      <4>3. QED
            BY <1>2, <1>7, <2>1, <4>1, <4>2 DEF OutFits
    <3>2. CASE d = n
      <4>1. /\ o[d] = rest /\ k + l \in DOMAIN q /\ o[d][l] = q[k + l] /\ k + l # k
            /\ \A i \in DOMAIN o[d] : k + i \in DOMAIN q /\ o[d][i] = q[k + i]
            BY <1>4, <1>12, <2>1, <3>2
      <4>2. /\ Fits(R, n, q[k + l])
            /\ Certifies(n, q[k + l]) =>
                  /\ getLeaderOf(q[k + l].rdata.propv) = p
                  /\ <<q[k + l].rdata.propv, n>> \notin R.taken
                  /\ \A i \in DOMAIN q :
                        /\ Certifies(n, q[i])
                        /\ q[i].rdata.propv = q[k + l].rdata.propv
                        => i = k + l
            BY <1>2, <4>1 DEF OutFits
      <4>3. Certifies(n, q[k + l]) => <<q[k + l].rdata.propv, n>> \notin Q.taken
            BY <1>2, <1>3, <4>1, <4>2
      <4>4. ASSUME Certifies(n, q[k + l]), NEW i \in DOMAIN o[d],
                   Certifies(d, o[d][i]), o[d][i].rdata.propv = o[d][l].rdata.propv
            PROVE  i = l
        <5>1. k + i = k + l
              BY <3>2, <4>1, <4>2, <4>4
        <5>2. i \in DOMAIN rest /\ l \in DOMAIN rest
              BY <2>1, <4>1, <4>4
        <5>3. QED
              BY <1>5, <5>1, <5>2
      <4>5. QED
            BY <1>7, <3>2, <4>1, <4>2, <4>3, <4>4
    <3>3. QED
          BY <3>1, <3>2
  <2>2. QED
        BY <2>1 DEF OutFits
<1>14. /\ u.myid = s.myid /\ u.view = s.view /\ u.log = s.log /\ u.out = o
       /\ u.executed = s.executed /\ u.replied = s.replied /\ u.blocks = s.blocks
       /\ u.transactions = s.transactions /\ u.fromClient = s.fromClient
       BY <1>1 DEF WellTyped, Fields
<1>15. left = u /\ taken = m
       BY DEF o, rest, m
<1> HIDE DEF u
<1>16. LogFits(Q, p, s.log) /\ Leading(Q, p, s.view, s.log)
       BY <1>1, <1>3, <1>7 DEF InLine, LogFits, Leading
<1>17. ExecutedFits(Q, p, s.view, s.executed) /\ RepliesFit(Q, s.executed, s.replied)
       BY <1>1, <1>3, <1>6 DEF InLine, ExecutedFits, RepliesFit
<1>18. BlocksFit(Q, s.blocks) /\ QueuesFit(Q, p, s.transactions, s.fromClient)
       BY <1>1, <1>3, <1>6 DEF InLine, BlocksFit, QueuesFit
<1>19. InLine(Q, u)
       BY <1>1, <1>13, <1>14, <1>16, <1>17, <1>18 DEF InLine
<1>20. \A l \in DOMAIN node[n].executed : Certifies(n, m) =>
           node[n].executed[l].view # v
  <2>1. ExecutedFits(R, n, node[n].view, node[n].executed)
        BY DEF InLine
  <2>2. Certifies(n, m) => getLeaderOf(v) # n
        BY DEF Certifies
  <2>3. QED
        BY <1>2, <2>1, <2>2 DEF ExecutedFits
<1>21. Fits(Q, n, m)
       BY <1>2, <1>7
<1>22. Certifies(n, m) =>
           /\ <<v, n>> \in Q.taken
           /\ \A l \in DOMAIN node[n].executed : node[n].executed[l].view # v
       BY <1>3, <1>20
<1>23. \A i \in PID \ {p} : InLine(Q, node[i])
       BY <1>11
<1>24. InLine(Q, left)
       BY <1>15, <1>19
<1>25. QED
       BY <1>9, <1>15, <1>21, <1>22, <1>23, <1>24 DEF TakenFits

(* A message arrives.                                                      *)
LEMMA DeliverInLine ==
    ASSUME AllInLine, NEW p \in PID, NEW n \in PID, Deliver(p, n)
    PROVE  AllInLine'
<1> DEFINE k == Upcoming(p, n)
           m == node[p].out[n][k]
           q == [node[p] EXCEPT !.out[n] = SubSeq(@, k + 1, Len(@))]
           s == node[n]
           state == [node EXCEPT ![p] = q]
<1>1. PICK u : /\ \/ u = s
                  \/ m.type = "newview" /\ u = handleNewview(s, m)
                  \/ m.type = "ldrprepare" /\ u = handleLdrPrepare(s, m)
                  \/ m.type = "prepare" /\ u = handlePrepare(s, m)
                  \/ m.type = "precommit" /\ u = handlePrecommit(s, m)
                  \/ m.type = "commit" /\ u = handleCommit(s, m)
               /\ node' = [node EXCEPT
                      ![p].out[n] = SubSeq(@, k + 1, Len(@)), ![n] = u]
               /\ UNCHANGED <<pauses, early>>
      BY DEF Deliver, HandleNewview, HandleLdrPrepare, HandlePrepare,
             HandlePrecommit, HandleCommit, Receive
<1>2. p # n /\ node[p].out[n] # <<>>
      BY DEF Deliver, HandleNewview, HandleLdrPrepare, HandlePrepare,
             HandlePrecommit, HandleCommit, Receive, CanReceive
<1>3. AllTyped /\ AllTyped'
      BY DeliverTyped DEF AllInLine
<1>4. PICK R : Consistent(R) /\ \A i \in PID : InLine(R, node[i])
      BY DEF AllInLine
<1>5. /\ DOMAIN node = PID /\ \A i \in PID : WellTyped(node[i]) /\ node[i].myid = i
      BY <1>3 DEF AllTyped
<1>6. node[p].out[n] \in Seq(MessageSets)
      BY <1>5 DEF WellTyped
<1>7. k \in 1 .. Len(node[p].out[n])
      BY <1>2, <1>6, UpcomingPosition
<1> HIDE DEF k
<1>8. m \in MessageSets /\ Remains(node[p], q)
      BY <1>5, <1>7, TakeTyped
<1>9. PICK Q : /\ Consistent(Q) /\ Fits(Q, n, m)
               /\ \A i \in PID \ {p} : InLine(Q, node[i])
               /\ InLine(Q, q)
               /\ Certifies(n, m) =>
                      /\ <<m.rdata.propv, n>> \in Q.taken
                      /\ \A l \in DOMAIN s.executed :
                             s.executed[l].view # m.rdata.propv
  <2>1. /\ m = node[p].out[n][k]
        /\ q = [node[p] EXCEPT !.out[n] = SubSeq(@, k + 1, Len(@))]
        OBVIOUS
  <2>2. \A i \in PID : WellTyped(node[i]) /\ InLine(R, node[i]) /\ node[i].myid = i
        BY <1>4, <1>5
  <2> HIDE DEF m, q
  <2>3. TakenFits(R, p, n, m, q)
        BY <1>4, <1>7, <2>1, <2>2, TakeInLine
  <2>4. QED
        BY <2>3 DEF TakenFits
<1>10. node' = [state EXCEPT ![n] = u]
       BY <1>1, <1>2, <1>5
<1> HIDE DEF m, q
<1>11. /\ m.type \in VoteTypes => m \in VoteSet(m.type)
       /\ m.type = "ldrprepare" => m \in ProposalSet
       BY <1>8 DEF MessageSets, VoteSet, ProposalSet, VoteTypes
<1>12. /\ DOMAIN state = PID /\ state[n] = s
       /\ \A i \in PID : InLine(Q, state[i]) /\ state[i].myid = i
       BY <1>2, <1>5, <1>8, <1>9 DEF Remains
<1>13. Aligned(Q, s) /\ s.myid = n
       BY <1>2, <1>5, <1>9 DEF Aligned
<1> HIDE DEF s, state
<1>14. Proceeds(Q, s, u)
  <2>1. CASE u = s
        BY <1>13, <2>1, MovesOn, RemainsOn DEF Aligned
  <2>2. CASE m.type = "newview" /\ u = handleNewview(s, m)
        BY <1>9, <1>11, <1>13, <2>2, HandleNewviewProceeds DEF VoteTypes
  <2>3. CASE m.type = "ldrprepare" /\ u = handleLdrPrepare(s, m)
        BY <1>9, <1>11, <1>13, <2>3, HandleLdrPrepareProceeds
  <2>4. CASE m.type = "prepare" /\ u = handlePrepare(s, m)
        BY <1>9, <1>11, <1>13, <2>4, HandlePrepareProceeds DEF VoteTypes
  <2>5. CASE m.type = "precommit" /\ u = handlePrecommit(s, m)
        BY <1>9, <1>11, <1>13, <2>5, HandlePrecommitProceeds DEF VoteTypes
  <2>6. CASE m.type = "commit" /\ u = handleCommit(s, m)
        BY <1>9, <1>11, <1>13, <2>6, HandleCommitProceeds DEF VoteTypes
  <2>7. QED
        BY <1>1, <2>1, <2>2, <2>3, <2>4, <2>5, <2>6
<1>15. Reaches(Q, state[n], u)
       BY <1>12, <1>14 DEF Proceeds, Reaches, Remains
<1>16. \E P : Consistent(P) /\ \A i \in PID : InLine(P, [state EXCEPT ![n] = u][i])
       BY <1>9, <1>12, <1>15, OneProceeds
<1>17. QED
       BY <1>3, <1>10, <1>16 DEF AllInLine

(* A replica moves on its own.                                             *)
LEMMA OwnInLine ==
    ASSUME AllInLine, NEW n \in PID,
           \/ Start(n) \/ StartNewView(n) \/ Timeout(n)
           \/ HandleTransaction(n) \/ Pause(n) \/ Resume(n)
    PROVE  AllInLine'
<1> DEFINE s == node[n]
<1>1. AllTyped /\ AllTyped'
      BY OwnTyped DEF AllInLine
<1>2. PICK R : Consistent(R) /\ \A i \in PID : InLine(R, node[i])
      BY DEF AllInLine
<1>3. /\ DOMAIN node = PID /\ WellTyped(s) /\ s.myid = n /\ DOMAIN s = Fields
      /\ \A i \in PID : WellTyped(node[i]) /\ node[i].myid = i
      /\ Aligned(R, s) /\ InLine(R, s)
      BY <1>1, <1>2 DEF AllTyped, WellTyped, Aligned
<1>4. ASSUME NEW u, Reaches(R, s, u), node' = [node EXCEPT ![n] = u]
      PROVE  AllInLine'
  <2>1. \A i \in PID : InLine(R, node[i]) /\ node[i].myid = i
        BY <1>2, <1>3
  <2>2. \E Q : /\ Consistent(Q)
               /\ \A i \in PID : InLine(Q, [node EXCEPT ![n] = u][i])
        BY <1>2, <1>3, <1>4, <2>1, OneProceeds
  <2>3. QED
        BY <1>1, <1>4, <2>2 DEF AllInLine
<1>5. ASSUME NEW u, InLine(R, u), WellTyped(u), u.myid = n,
             node' = [node EXCEPT ![n] = u]
      PROVE  AllInLine'
      BY <1>2, <1>3, <1>4, <1>5, ExtendsOn DEF Reaches
<1>6. CASE Start(n)
  <2> DEFINE x == [s EXCEPT !.started = TRUE]
             u == getStarted(x)
  <2>1. node' = [node EXCEPT ![n] = u]
        BY <1>6 DEF Start
  <2>2. /\ DOMAIN x = Fields /\ x.myid = s.myid /\ x.view = s.view
        /\ x.pending = s.pending /\ x.tf = s.tf /\ x.log = s.log
        /\ x.blocks = s.blocks /\ x.transactions = s.transactions
        /\ x.fromClient = s.fromClient /\ x.replied = s.replied
        /\ x.executed = s.executed /\ x.out = s.out
        BY <1>3 DEF Fields
  <2> HIDE DEF x
  <2>3. WellTyped(x) /\ InLine(R, x)
        BY <1>3, <2>2, AgreeInLine DEF WellTyped, QueuesTyped, timeToStop
  <2>4. Proceeds(R, x, u)
        BY <1>2, <2>3, GetStartedProceeds DEF Aligned
  <2> HIDE DEF u
  <2>5. Reaches(R, s, u)
        BY <2>2, <2>4 DEF Proceeds, Reaches, Remains
  <2>6. QED
        BY <1>4, <2>1, <2>5
<1>7. CASE StartNewView(n)
  <2>1. node' = [node EXCEPT ![n] = startNewView(s)] /\ s.pending = "startNewView"
        BY <1>7 DEF StartNewView
  <2>2. Reaches(R, s, startNewView(s))
        BY <1>3, <2>1, StartNewViewReaches DEF WellTyped
  <2>3. QED
        BY <1>4, <2>1, <2>2
<1>8. CASE Timeout(n)
  <2> DEFINE u == [s EXCEPT !.stopped = TRUE, !.timer = FALSE]
  <2>1. \/ timeToStop(s) /\ node' = [node EXCEPT ![n] = u]
        \/ ~timeToStop(s) /\ node' = [node EXCEPT ![n] = startNewView(s)]
        BY <1>8 DEF Timeout, TimerExpires, CanTimeout
  <2>2. ~timeToStop(s) => Reaches(R, s, startNewView(s))
        BY <1>3, StartNewViewReaches
  <2>3. /\ DOMAIN u = Fields /\ u.myid = s.myid /\ u.view = s.view
        /\ u.pending = s.pending /\ u.tf = s.tf /\ u.log = s.log
        /\ u.blocks = s.blocks /\ u.transactions = s.transactions
        /\ u.fromClient = s.fromClient /\ u.replied = s.replied
        /\ u.executed = s.executed /\ u.out = s.out
        BY <1>3 DEF Fields
  <2> HIDE DEF u
  <2>4. WellTyped(u) /\ InLine(R, u)
        BY <1>3, <2>3, AgreeInLine DEF WellTyped, QueuesTyped, timeToStop
  <2>5. QED
        BY <1>3, <1>4, <1>5, <2>1, <2>2, <2>3, <2>4
<1>9. CASE HandleTransaction(n)
  <2> DEFINE first1 == Head(s.fromClient)
             rest   == Tail(s.fromClient)
             queue  == IF s.isPaused THEN s.transactions
                       ELSE Append(s.transactions, first1)
             u == [s EXCEPT !.fromClient = rest, !.transactions = queue]
  <2>1. node' = [node EXCEPT ![n] = u] /\ s.fromClient # <<>>
        BY <1>9 DEF HandleTransaction
  <2>2. QueuesFit(R, n, s.transactions, s.fromClient)
        BY <1>3 DEF InLine
  <2>3. s.transactions \in Transactions /\ s.fromClient \in Transactions
        BY <1>3 DEF WellTyped, QueuesTyped
  <2>4. /\ IsInjective(rest) /\ Range(rest) \subseteq Range(s.fromClient)
        /\ IsInjective(queue) /\ Apart(queue, rest)
        /\ Range(queue) \subseteq Range(s.transactions) \cup Range(s.fromClient)
    <3>1. /\ IsInjective(rest) /\ Range(rest) \subseteq Range(s.fromClient)
          /\ IsInjective(Append(s.transactions, first1))
          /\ Range(Append(s.transactions, first1))
                 \subseteq Range(s.transactions) \cup Range(s.fromClient)
          /\ Apart(Append(s.transactions, first1), rest)
          /\ Apart(s.transactions, rest)
          BY <2>1, <2>2, <2>3, TakeOnce DEF QueuesFit, Transactions
    <3> HIDE DEF rest, first1
    <3>2. QED
          BY <2>2, <3>1 DEF QueuesFit
  <2> HIDE DEF rest, queue
  <2>5. QueuesFit(R, n, queue, rest)
        BY <2>2, <2>4 DEF QueuesFit
  <2>6. /\ u.myid = s.myid /\ u.view = s.view /\ u.log = s.log /\ u.out = s.out
        /\ u.executed = s.executed /\ u.replied = s.replied /\ u.blocks = s.blocks
        /\ u.transactions = queue /\ u.fromClient = rest
        BY <1>3 DEF Fields
  <2>7. u = node'[n]
        BY <1>3, <2>1
  <2> HIDE DEF u
  <2>8. WellTyped(u)
        BY <1>1, <2>7 DEF AllTyped
  <2>9. InLine(R, u)
        BY <1>3, <2>5, <2>6 DEF InLine
  <2>10. QED
        BY <1>3, <1>5, <2>1, <2>6, <2>8, <2>9
<1>10. CASE Pause(n) \/ Resume(n)
  <2>1. PICK b \in BOOLEAN : node' = [node EXCEPT ![n] = [s EXCEPT !.isPaused = b]]
        BY <1>10 DEF Pause, Resume
  <2> DEFINE u == [s EXCEPT !.isPaused = b]
  <2>2. /\ u.myid = s.myid /\ u.view = s.view /\ u.log = s.log /\ u.out = s.out
        /\ u.executed = s.executed /\ u.replied = s.replied /\ u.blocks = s.blocks
        /\ u.transactions = s.transactions /\ u.fromClient = s.fromClient
        BY <1>3 DEF Fields
  <2>3. node' = [node EXCEPT ![n] = u] /\ u = node'[n]
        BY <1>3, <2>1
  <2> HIDE DEF u
  <2>4. WellTyped(u)
        BY <1>1, <2>3 DEF AllTyped
  <2>5. InLine(R, u)
        BY <1>3, <2>2, AgreeInLine
  <2>6. QED
        BY <1>3, <1>5, <2>2, <2>3, <2>4, <2>5
<1>11. QED
       BY <1>6, <1>7, <1>8, <1>9, <1>10

(* At the start no round has begun, and the client has dealt what it will  *)
(* send.                                                                   *)
LEMMA InitInLine == Init => AllInLine
<1> SUFFICES ASSUME Init PROVE AllInLine
    OBVIOUS
<1> DEFINE R == Rounds(<<>>, {}, {}, {}, {})
<1>1. /\ DOMAIN R.block = {} /\ R.prepared = {} /\ R.precommitted = {}
      /\ R.committed = {} /\ R.taken = {}
      BY DEF Rounds
<1> HIDE DEF R
<1>2. Consistent(R)
      BY <1>1 DEF Consistent
<1>3. ASSUME NEW n \in PID PROVE InLine(R, node[n])
  <2> DEFINE s == node[n]
  <2>1. s = withFields(ReplicaInit(n, 0),
                       [tf |-> TrustedFunInit, log |-> LogInit, blocks |-> <<>>])
        BY DEF Init
  <2>2. /\ s.myid = n /\ s.view = 0 /\ s.log = LogInit /\ s.blocks = <<>>
        /\ s.transactions = <<>> /\ s.fromClient = fromClientTo(n, 0)
        /\ s.replied = <<>> /\ s.executed = <<>>
        /\ s.out = [d \in PID |-> <<>>]
        BY <2>1 DEF withFields, ReplicaInit
  <2> HIDE DEF s
  <2>3. Leading(R, n, s.view, s.log)
        BY <1>1 DEF Leading
  <2>4. \A k \in LogFields : s.log[k] = {}
        BY <2>2 DEF LogInit, LogFields
  <2>5. LogFits(R, n, s.log)
        BY <2>4 DEF LogFits
  <2>6. \A d \in PID : DOMAIN s.out[d] = {}
        BY <2>2
  <2>7. OutFits(R, n, s.out)
        BY <2>6 DEF OutFits
  <2>8. DOMAIN s.executed = {} /\ DOMAIN s.replied = {} /\ DOMAIN s.blocks = {}
            /\ DOMAIN s.transactions = {}
        BY <2>2
  <2>9. /\ ExecutedFits(R, n, s.view, s.executed) /\ BlocksFit(R, s.blocks)
        /\ IsInjective(s.replied) /\ Range(s.replied) = {}
        /\ IsInjective(s.transactions) /\ Range(s.transactions) = {}
        BY <2>8 DEF ExecutedFits, BlocksFit, IsInjective, Range
  <2>10. RepliesFit(R, s.executed, s.replied)
         BY <2>9 DEF RepliesFit
  <2>11. IsInjective(s.fromClient) /\ Range(s.fromClient) = Dealt(n, 0)
         BY <2>2, DealtOnce DEF Dealt
  <2>12. QueuesFit(R, n, s.transactions, s.fromClient)
         BY <1>1, <2>9, <2>11 DEF QueuesFit, Apart
  <2>13. QED
         BY <2>2, <2>3, <2>5, <2>7, <2>9, <2>10, <2>12 DEF InLine, s
<1>4. QED
      BY <1>2, <1>3, InitTyped DEF AllInLine

(* Whatever happens, a replica replies at most once to a transaction: a    *)
(* view is executed once by its leader, which completes the quorum of      *)
(* commit votes once, and once by any other replica, which gets the        *)
(* certificate once; and a transaction is taken for one block, by the      *)
(* replica to which the client has sent it.                                *)
THEOREM RepliesOnce == Spec => []RepliedOnce
<1>1. ASSUME AllInLine, [Next]_vars PROVE AllInLine'
  <2>1. CASE Next
        BY <1>1, <2>1, DeliverInLine, OwnInLine DEF Next, Step
  <2>2. CASE UNCHANGED vars
        BY <1>1, <2>2 DEF vars, AllInLine, AllTyped
  <2>3. QED
        BY <1>1, <2>1, <2>2
<1>2. AllInLine => RepliedOnce
      BY DEF AllInLine, InLine, RepliesFit, RepliedOnce
<1>3. QED
      BY <1>1, <1>2, InitInLine, PTL DEF Spec
=============================================================================
