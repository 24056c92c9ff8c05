--------------------------- MODULE BasicHotStuff ----------------------------
(***************************************************************************)
(* The replica of Basic HotStuff (class Handler compiled with              *)
(* BASIC_BASELINE): its protocol handlers and start-up, its log (module    *)
(* Log) and its trusted component (module TrustedFun), on the common part  *)
(* of all replicas (module Replica).                                       *)
(*                                                                         *)
(* executeRData ends by calling startNewView, which may reach executeRData *)
(* again; the tail call is cut there.                                      *)
(***************************************************************************)
EXTENDS TrustedFun, Replica

-----------------------------------------------------------------------------
(* Messages.                                                               *)

Msg(type, rdata, signs) == [type |-> type, rdata |-> rdata, signs |-> signs]
MsgNewView(j)           == Msg("newview", j.rdata, j.signs)
MsgPrepare(j)           == Msg("prepare", j.rdata, j.signs)
MsgPreCommit(j)         == Msg("precommit", j.rdata, j.signs)
MsgCommit(j)            == Msg("commit", j.rdata, j.signs)
MsgLdrPrepare(just, block, signs) ==
    [type |-> "ldrprepare", just |-> just, block |-> block, signs |-> signs]

-----------------------------------------------------------------------------
(* Transactions and execution.                                             *)

createNewBlock(s, h) == Block(h, NextTrans(s))

(* Replies are sent if the block of the current view is known and has the  *)
(* executed hash.                                                          *)
replyHash(s, h) ==
    IF /\ s.view \in DOMAIN s.blocks
       /\ SameHash(hash(s.blocks[s.view]), h)
    THEN replyTransactions(s, s.blocks[s.view].trans)
    ELSE s

(* `executed' is a history of what was executed, in order.                 *)
executeRData(s, rdata) ==
    LET s1 == [s EXCEPT !.executed = Append(@, [view |-> s.view,
                                                hash |-> rdata.proph])]
    IN  [replyHash(s1, rdata.proph) EXCEPT
            !.pending = IF timeToStop(s) THEN "none" ELSE "startNewView"]

-----------------------------------------------------------------------------
(* The leader's side of a view.                                            *)

(* A message put in one of the log's maps, and the number returned.        *)
storeVote(s, log, m) == store(s.log[log], m)
logVote(s, log, m)   == [s EXCEPT !.log[log] = storeVote(s, log, m).msgs]

mutant_quorumReached_again(size) == size >= QSize

(* A vote just stored was the one that completes a quorum.                 *)
quorumReached(size) == size = QSize

initiateCommit(s, rdata) ==
    LET signs == get(s.log.commits, rdata.propv, QSize)
    IN  IF Cardinality(signs) = QSize
        THEN executeRData(send(s, remove_from_peers(s),
                               MsgCommit(Just(rdata, signs))), rdata)
        ELSE s

initiatePrecommit(s, rdata) ==
    LET signs  == get(s.log.precommits, rdata.propv, QSize)
        cert   == Just(rdata, signs)
        r      == TEEstore(s.myid, s.tf, cert)
        msgCom == MsgCommit(r.just)
        s1     == [send(s, remove_from_peers(s), MsgPreCommit(cert))
                      EXCEPT !.tf = r.tee]
        s2     == logVote(s1, "commits", msgCom)
    IN  IF Cardinality(signs) # QSize THEN s
        ELSE IF QSize <= storeVote(s1, "commits", msgCom).size
        THEN initiateCommit(s2, r.just.rdata) ELSE s2

initiatePrepare(s, rdata) ==
    LET signs == get(s.log.prepares, rdata.propv, QSize)
        cert  == Just(rdata, signs)
        r     == TEEstore(s.myid, s.tf, cert)
        msgPc == MsgPreCommit(r.just)
        s1    == [send(s, remove_from_peers(s), MsgPrepare(cert))
                     EXCEPT !.tf = r.tee]
        s2    == logVote(s1, "precommits", msgPc)
    IN  IF Cardinality(signs) # QSize THEN s
        ELSE IF QSize <= storeVote(s1, "precommits", msgPc).size
        THEN initiatePrecommit(s2, r.just.rdata) ELSE s2

(* The transactions taken for the block are gone even when the trusted     *)
(* component refuses to prepare it.                                        *)
prepare(s) ==
    LET justNV  == findHighestNv(s.log.newviews, s.view)
        block   == createNewBlock(s, justNV.rdata.justh)
        r       == TEEprepare(s.myid, s.tf, hash(block), justNV)
        msgPrep == MsgPrepare(r.just)
        s0      == popTransactions(s)
        s1      == [send(s0, remove_from_peers(s),
                         MsgLdrPrepare(justNV, block, r.just.signs))
                       EXCEPT !.tf = r.tee,
                              !.blocks = assign(@, s.view, block)]
        s2      == logVote(s1, "prepares", msgPrep)
    IN  IF ~r.just.set THEN s0
        ELSE IF QSize <= storeVote(s1, "prepares", msgPrep).size
        THEN initiatePrepare(s2, r.just.rdata) ELSE s2

-----------------------------------------------------------------------------
(* The backup's side of a view.                                            *)

mutant_respondToProposal_no_block(s, justNv, block) ==
    LET r == TEEprepare(s.myid, s.tf, hash(block), justNv)
    IN  IF r.just.set
        THEN [send(s, currentLeader(s), MsgPrepare(r.just)) EXCEPT !.tf = r.tee]
        ELSE s

respondToProposal(s, justNv, block) ==
    LET r == TEEprepare(s.myid, s.tf, hash(block), justNv)
    IN  IF r.just.set
        THEN [send(s, currentLeader(s), MsgPrepare(r.just))
                 EXCEPT !.tf = r.tee, !.blocks = assign(@, s.view, block)]
        ELSE s

(* A refusal is sent to the leader as well.                                *)
respondToPrepareJust(s, justPrep) ==
    LET r == TEEstore(s.myid, s.tf, justPrep)
    IN  [send(s, currentLeader(s), MsgPreCommit(r.just)) EXCEPT !.tf = r.tee]

respondToPreCommitJust(s, justPc) ==
    LET r == TEEstore(s.myid, s.tf, justPc)
    IN  [send(s, currentLeader(s), MsgCommit(r.just)) EXCEPT !.tf = r.tee]

(* callTEEsign, to skip a phase.                                           *)
skipPhase(s) == [s EXCEPT !.tf = TEEsign(s.myid, @).tee]

-----------------------------------------------------------------------------
(* Handlers.                                                               *)

handleNewview(s, m) ==
    LET v == m.rdata.propv
        accepted == /\ isDummy(m.rdata.proph)
                    /\ v >= s.view
                    /\ m.rdata.phase = NEWVIEW
                    /\ amLeaderOf(s, v)
        s1 == logVote(s, "newviews", m)
    IN  IF ~accepted THEN s
        ELSE IF quorumReached(storeVote(s, "newviews", m).size) /\ v = s.view
        THEN prepare(s1) ELSE s1

handleLdrPrepare(s, m) ==
    LET rdataNV == m.just.rdata
        ldrPrep == RData(hash(m.block), rdataNV.propv, rdataNV.justh,
                         rdataNV.justv, PREPARE)
        valid   == /\ rdataNV.propv >= s.view
                   /\ verify(m.signs, ldrPrep)
                   /\ extends(m.block, rdataNV.justh)
    IN  IF ~valid THEN s
        ELSE IF rdataNV.propv = s.view
        THEN respondToProposal(s, m.just, m.block)
        ELSE logVote(s, "proposals", m)

handlePrepare(s, m) ==
    LET v  == m.rdata.propv
        s1 == logVote(s, "prepares", m)
    IN  IF v # s.view THEN (IF v > s.view THEN s1 ELSE s)
        ELSE IF amCurrentLeader(s)
        THEN IF quorumReached(storeVote(s, "prepares", m).size)
             THEN initiatePrepare(s1, m.rdata) ELSE s1
        ELSE IF Cardinality(m.signs) = QSize
        THEN respondToPrepareJust(s, Just(m.rdata, m.signs)) ELSE s

handlePrecommit(s, m) ==
    LET v  == m.rdata.propv
        s1 == logVote(s, "precommits", m)
    IN  IF v # s.view \/ m.rdata.phase # PRECOMMIT
        THEN (IF v > s.view THEN s1 ELSE s)
        ELSE IF amCurrentLeader(s)
        THEN IF quorumReached(storeVote(s, "precommits", m).size)
             THEN initiatePrecommit(s1, m.rdata) ELSE s1
        ELSE IF Cardinality(m.signs) = QSize
        THEN respondToPreCommitJust(s, Just(m.rdata, m.signs)) ELSE s

handleCommit(s, m) ==
    LET v  == m.rdata.propv
        s1 == logVote(s, "commits", m)
    IN  IF v # s.view \/ m.rdata.phase # COMMIT
        THEN IF v > s.view /\ (amLeaderOf(s, v) \/ verify(m.signs, m.rdata))
             THEN s1 ELSE s
        ELSE IF amCurrentLeader(s)
        THEN IF quorumReached(storeVote(s, "commits", m).size)
             THEN initiateCommit(s1, m.rdata) ELSE s1
        ELSE IF Cardinality(m.signs) = QSize /\ verify(m.signs, m.rdata)
        THEN executeRData(s, m.rdata) ELSE s

-----------------------------------------------------------------------------
(* Changing views.                                                         *)

Full(msgs, v) == Cardinality(get(msgs, v, QSize)) = QSize

mutant_catchUp_no_commit(s) ==
    respondToPreCommitJust(skipPhase(skipPhase(s)),
                           first(s.log.precommits, s.view))

(* With a pre-commit certificate of the view in the log, two phases are    *)
(* skipped; if the commit certificate is there as well, it is executed.    *)
catchUp(s) ==
    LET s1 == respondToPreCommitJust(skipPhase(skipPhase(s)),
                                     first(s.log.precommits, s.view))
    IN  IF Full(s.log.commits, s.view)
        THEN executeRData(s1, first(s.log.commits, s.view).rdata) ELSE s1

(* What was received for the new view before the replica entered it.       *)
handleEarlierMessages(s) ==
    LET v        == s.view
        proposal == {m \in firstProposal(s.log.proposals, v) :
                         Cardinality(m.signs) = 1}
    IN  CASE amCurrentLeader(s) ->
                 IF Full(s.log.newviews, v) THEN prepare(s) ELSE s
          [] ~amCurrentLeader(s) /\ Full(s.log.precommits, v) -> catchUp(s)
          [] ~amCurrentLeader(s) /\ ~Full(s.log.precommits, v)
                                 /\ Full(s.log.prepares, v) ->
                 respondToPrepareJust(skipPhase(s), first(s.log.prepares, v))
          [] OTHER ->
                 IF proposal = {} THEN s
                 ELSE LET m == CHOOSE m \in proposal : TRUE
                      IN  respondToProposal(s, m.just, m.block)

(* The trusted component signs until it reaches the next view; if that     *)
(* overshoots the new-view phase nothing is sent.                          *)
startNewView(s) ==
    LET r  == TEEsignPast(s.myid, s.tf, s.view)
        s1 == setTimer([s EXCEPT !.tf = r.tee, !.view = @ + 1,
                                 !.pending = "none"])
    IN  IF /\ r.just.rdata.propv = s1.view
           /\ r.just.rdata.phase = NEWVIEW
        THEN IF amCurrentLeader(s1)
             THEN handleNewview(handleEarlierMessages(s1), MsgNewView(r.just))
             ELSE handleEarlierMessages(send(s1, currentLeader(s1),
                                             MsgNewView(r.just)))
        ELSE s1

(* The timer is not armed here.                                            *)
getStarted(s) ==
    LET r  == TEEsign(s.myid, s.tf)
        s1 == [s EXCEPT !.tf = r.tee]
    IN  IF amCurrentLeader(s1)
        THEN handleNewview(s1, MsgNewView(r.just))
        ELSE send(s1, currentLeader(s1), MsgNewView(r.just))

-----------------------------------------------------------------------------
(* The system.                                                             *)

Init ==
    /\ node = [n \in PID |->
                  withFields(ReplicaInit(n, 0),
                       [tf |-> TrustedFunInit, log |-> LogInit,
                        blocks |-> <<>>])]
    /\ pauses = 0 /\ early = 0

(* The client's MsgStart; its handler does not look at isPaused.           *)
Start(n) ==
    /\ CanStart(n)
    /\ node' = [node EXCEPT ![n] = getStarted([@ EXCEPT !.started = TRUE])]
    /\ UNCHANGED <<pauses, early>>

HandleNewview(p, n)    == Receive(p, n, "newview", handleNewview)
HandleLdrPrepare(p, n) == Receive(p, n, "ldrprepare", handleLdrPrepare)
HandlePrepare(p, n)    == Receive(p, n, "prepare", handlePrepare)
HandlePrecommit(p, n)  == Receive(p, n, "precommit", handlePrecommit)
HandleCommit(p, n)     == Receive(p, n, "commit", handleCommit)

(* The tail call of executeRData.                                          *)
StartNewView(n) ==
    /\ node[n].pending = "startNewView"
    /\ node' = [node EXCEPT ![n] = startNewView(@)]
    /\ UNCHANGED <<pauses, early>>

Timeout(n) == TimerExpires(n, startNewView)

Deliver(p, n) ==
    \/ HandleNewview(p, n)
    \/ HandleLdrPrepare(p, n)
    \/ HandlePrepare(p, n)
    \/ HandlePrecommit(p, n)
    \/ HandleCommit(p, n)

Step(n) ==
    \/ Start(n)
    \/ StartNewView(n)
    \/ Timeout(n)
    \/ \E p \in PID : Deliver(p, n)

Next ==
    \E n \in PID : Step(n) \/ HandleTransaction(n) \/ Pause(n) \/ Resume(n)

Spec == Init /\ [][Next]_vars

(* The event loops run, connections deliver and timers run out.  Nothing   *)
(* obliges anybody to pause or resume a replica.                           *)
(* For handlers, WF_vars is written out with the guard in the place of     *)
(* ENABLED: a handler always changes node, since it takes a message, ends  *)
(* a tail call, moves to the next view or stops the replica.               *)
Fairness ==
    \A n \in PID :
        /\ WF_vars(Start(n)) /\ WF_vars(HandleTransaction(n))
        /\ []<>(node[n].pending = "none") \/ []<><<StartNewView(n)>>_vars
        /\ []<>(~CanTimeout(n)) \/ []<><<Timeout(n)>>_vars
        /\ \A p \in PID :
               []<>(~CanReceive(p, n)) \/ []<><<Deliver(p, n)>>_vars

FairSpec == Spec /\ Fairness
-----------------------------------------------------------------------------
(* Properties.                                                             *)

Hashes  == {Dummy} \cup Seq(Seq(Nat))

(* Hash(false) is not the hash of a block: its set flag is off.            *)
ASSUME UnsetAssumption == Dummy \notin Seq(Seq(Nat))

Tokens  == [signer : PID, rdata : RDataOver(Hashes)]
Blocks  == [prevHash : Hashes, trans : Seq(Nat)]
Justs   == [set : BOOLEAN, rdata : RDataOver(Hashes), signs : SUBSET Tokens]
Votes(type) ==
    [type : {type}, rdata : RDataOver(Hashes), signs : SUBSET Tokens]
Proposals ==
    [type : {"ldrprepare"}, just : Justs, block : Blocks,
     signs : SUBSET Tokens]
LogTypes ==
    [newviews |-> "newview", prepares |-> "prepare",
     precommits |-> "precommit", commits |-> "commit",
     proposals |-> "ldrprepare"]
WellFormed(m) ==
    IF m.type = "ldrprepare" THEN m \in Proposals ELSE m \in Votes(m.type)

(* The state of every replica is well formed.                              *)
TypeOK ==
    /\ \A n \in PID :
          /\ node[n].myid = n
          /\ node[n].view \in 0 .. MaxViews - 1
          /\ node[n].tf \in TrustedFunOver(Hashes)
          /\ \A k \in DOMAIN LogTypes : \A m \in node[n].log[k] :
                 WellFormed(m) /\ m.type = LogTypes[k]
          /\ \A d \in PID : \A k \in DOMAIN node[n].out[d] :
                 WellFormed(node[n].out[d][k])
          /\ \A v \in DOMAIN node[n].blocks : node[n].blocks[v] \in Blocks
          /\ node[n].transactions \in Seq(1 .. NumInstances)
          /\ node[n].replied \in Seq(1 .. NumInstances)
          /\ node[n].executed \in Seq([view : Nat, hash : Hashes])
    /\ pauses \in 0 .. MaxPauses /\ early \in 0 .. MaxEarly

Executed(n) == {node[n].executed[k] : k \in DOMAIN node[n].executed}

(* No two replicas ever execute conflicting blocks: of any two executed    *)
(* blocks one extends the other (commit certificates, safenode check of    *)
(* TEEprepare and choice of the parent in findHighestNv together).         *)
Agreement ==
    \A n, m \in PID : \A e \in Executed(n), f \in Executed(m) :
        IsPrefix(e.hash, f.hash) \/ IsPrefix(f.hash, e.hash)

(* Once a block is executed anywhere, the trusted components of a quorum   *)
(* stay locked on it or on a descendant, so that no later view can gather  *)
(* a quorum for a conflicting block.                                       *)
ExecutedLocked ==
    \A n \in PID : \A e \in Executed(n) :
        Cardinality({i \in PID : /\ node[i].tf.lockv >= e.view
                                 /\ IsPrefix(e.hash, node[i].tf.lockh)})
            >= QSize

(* A trusted component never runs ahead of its replica by more than the    *)
(* new-view phase of the next view, so that startNewView always has a      *)
(* new-view message to send (its branch "Something wrong happened" is not  *)
(* reached).                                                               *)
NeverAhead ==
    \A n \in PID : Stamp(node[n].tf.view, node[n].tf.phase)
                       <= Stamp(node[n].view + 1, NEWVIEW)

(* All votes a leader has counted for its current view and phase sign the  *)
(* same data, so that the certificate put together from them by getPrepare,*)
(* getPrecommit or getCommit verifies at its receivers.                    *)
VotesMatch ==
    \A n \in PID : getLeaderOf(node[n].view) = n =>
        \A k \in {"prepares", "precommits", "commits"} :
            \A m1, m2 \in InView(node[n].log[k], node[n].view) :
                m1.rdata = m2.rdata

(* A client gets at most one reply per transaction and replica: no block   *)
(* is executed twice, not even in the last view, which is not left after   *)
(* its execution, and no transaction is put in two executed blocks.        *)
RepliedOnce == \A n \in PID : IsInjective(node[n].replied)

(* "We first create a block that extends the highest prepared block": when *)
(* a leader proposes, a new-view message that it has logged for its view   *)
(* reports the parent of the new block, and none reports a block that was  *)
(* prepared in a later view.                                               *)
HighestParent ==
    [][\A n \in PID :
          LET v == node'[n].view
          IN  /\ getLeaderOf(v) = n
              /\ v \in DOMAIN node'[n].blocks \ DOMAIN node[n].blocks
              => LET reports == InView(node'[n].log.newviews, v)
                 IN  \E m \in reports :
                        /\ m.rdata.justh = node'[n].blocks[v].prevHash
                        /\ \A k \in reports :
                               k.rdata.justv <= m.rdata.justv]_vars

(* The trusted components, as the handlers drive them, are monotonic       *)
(* signers: a handler may pass several counter values in one step, but     *)
(* never the same value twice.                                             *)
StampOf(rdata) == Stamp(rdata.propv, rdata.phase)

Signer == INSTANCE MonotonicSigner
              WITH Signers <- PID, Stamped <- StampOf,
                   counter <- [n \in PID |->
                                  Stamp(node[n].tf.view, node[n].tf.phase)],
                   signed  <- [n \in PID |-> node[n].tf.signed]

RefinesSigner == Signer!Spec

(* With no replica paused and messages faster than the timers, every       *)
(* replica executes one block in every view.                               *)
EveryViewExecuted ==
    <>(\A n \in PID : Len(node[n].executed) = MaxViews)

(* Under the same circumstances a quorum of replicas reply to every        *)
(* transaction, although some may execute a block they have not received,  *)
(* for which they reply nothing.                                           *)
EveryTransactionReplied ==
    <>(\A t \in 1 .. NumInstances :
           Cardinality({n \in PID : \E k \in DOMAIN node[n].replied :
                            node[n].replied[k] = t}) >= QSize)
=============================================================================
