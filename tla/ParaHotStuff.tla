---------------------------- MODULE ParaHotStuff ----------------------------
(***************************************************************************)
(* The replica of Parallel HotStuff (class Handler compiled with           *)
(* PARALLEL_HOTSTUFF).  The leader of a view collects new-view messages,   *)
(* recovers the blocks of an earlier view that it lacks, has the others    *)
(* verify the justification it starts from, and proposes maxBlocksInView   *)
(* blocks at once.  Each block goes through three phases on its own; they  *)
(* are executed in order.                                                  *)
(*                                                                         *)
(* The execution of the last block of a view ends with a call of           *)
(* startNewViewPara, which can lead to the execution of blocks again; the  *)
(* tail call is cut there.                                                 *)
(***************************************************************************)
EXTENDS TrustedPara, Replica

CONSTANTS
    MaxBlocksInView, \* Handler::maxBlocksInView
    ForceRecover,    \* the outcomes of chanceRecover < forceRecover
    Byzantine,       \* Handler::byzantine; none if not in 0 .. 3
    EqualsReturns    \* what Just::operator== returns without a return statement

ASSUME ParaAssumption ==
    /\ MaxBlocksInView \in Nat \ {0}
    /\ ForceRecover \subseteq BOOLEAN /\ ForceRecover # {}
    /\ Byzantine \in Nat
    /\ EqualsReturns \subseteq BOOLEAN /\ EqualsReturns # {}

SeqNumbers == 1 .. MaxBlocksInView

-----------------------------------------------------------------------------
(* Messages and the log.                                                   *)

MsgPara(type, j) == [type |-> type, rdata |-> j.rdata, signs |-> j.signs]

MsgNewViewPara(j)   == MsgPara("newview_para", j)
MsgPreparePara(j)   == MsgPara("prepare_para", j)
MsgPreCommitPara(j) == MsgPara("precommit_para", j)
MsgCommitPara(j)    == MsgPara("commit_para", j)
MsgLdrPreparePara(just, block, signs) ==
    [type |-> "ldrprepare_para", just |-> just, block |-> block, signs |-> signs]
MsgVerifyPara(j, hashes) ==
    withFields(MsgPara("verify_para", j), [blockHashes |-> hashes])
MsgLdrRecoverPara(j, missing) ==
    withFields(MsgPara("ldrrecover_para", j), [missing |-> missing])
MsgRecoverPara(j, blocks) ==
    withFields(MsgPara("recover_para", j), [blocks |-> blocks])

JustOf(m) == Just(m.rdata, m.signs)

(* The maps of votes and proposals are kept by view and sequence number.   *)
SeqNumberOf(m) == IF m.type = "ldrprepare_para" THEN m.block.seq ELSE m.rdata.seq

ForSeq(msgs, v, seq) == {m \in msgs : ViewOf(m) = v /\ SeqNumberOf(m) = seq}

(* storePrepPara, storePcPara, storeComPara, storePropPara: the new        *)
(* contents and the number of messages, also if the signers were heard     *)
(* from already.                                                           *)
storePara(msgs, m) ==
    LET here == ForSeq(msgs, ViewOf(m), SeqNumberOf(m))
        twin == \E k \in here : getSigners(k.signs) = getSigners(m.signs)
        new  == IF twin \/ From(here, getSigners(m.signs)) THEN msgs
                ELSE msgs \cup {m}
    IN  [msgs |-> new, size |-> Cardinality(ForSeq(new, ViewOf(m), SeqNumberOf(m)))]

storeNvPara(s, m)   == [s EXCEPT !.log.newviews = store(@, m).msgs]
storePrepPara(s, m) == [s EXCEPT !.log.prepares = storePara(@, m).msgs]
storePcPara(s, m)   == [s EXCEPT !.log.precommits = storePara(@, m).msgs]
storeComPara(s, m)  == [s EXCEPT !.log.commits = storePara(@, m).msgs]
storePropPara(s, m) == [s EXCEPT !.log.proposals = storePara(@, m).msgs]

(* getPreparePara, getPrecommitPara, getCommitPara: QSize signatures.      *)
getPara(msgs, v, seq) == get(ForSeq(msgs, v, seq), v, QSize)

(* firstPreparePara, firstPrecommitPara; getCommitForSeq.                  *)
firstPara(msgs, v, seq) == first(ForSeq(msgs, v, seq), v)

mutant_findHighestNvPara_first(s, v) ==
    JustOf(FirstMsg(InView(s.log.newviews, v)))

(* The new-view message of view v with the latest prepared block, by view  *)
(* and sequence number; among several, the first in the order of the set.  *)
findHighestNvPara(s, v) ==
    LET here == InView(s.log.newviews, v)
        Higher(m, k) == \/ m.rdata.justv > k.rdata.justv
                        \/ /\ m.rdata.justv = k.rdata.justv
                           /\ m.rdata.seq > k.rdata.seq
        highest == {m \in here : \A k \in here : ~Higher(k, m)}
    IN  JustOf(FirstMsg(highest))

-----------------------------------------------------------------------------
(* The blocks of a view: a sequence of slots, empty if it is only known as *)
(* a key of the map.  Reading pblocks[v] adds v to the keys.               *)

NoBlocks == [i \in SeqNumbers |-> NoPBlock]

blocksOf(s, v) == IF v \in DOMAIN s.pblocks THEN s.pblocks[v] ELSE <<>>

touch(s, v) ==
    IF v \in DOMAIN s.pblocks THEN s ELSE [s EXCEPT !.pblocks = assign(@, v, <<>>)]

resize(s, v) ==
    IF blocksOf(s, v) = <<>>
    THEN [s EXCEPT !.pblocks = assign(@, v, NoBlocks)] ELSE s

storeBlock(s, block) == [s EXCEPT !.pblocks[s.view][block.seq] = block]

(* getMissingSeqNumbersForJust; its callers touch the view.                *)
missingFor(s, just) ==
    LET blocks == blocksOf(s, just.rdata.justv)
    IN  {i \in 1 .. just.rdata.seq :
            i \notin DOMAIN blocks \/ ~isBlock(blocks[i])}

(* `justv < pblocks.size() && !pblocks[justv].empty()': the view is        *)
(* compared with the number of keys.                                       *)
hasBlocks(s, v) == v < Cardinality(DOMAIN s.pblocks) /\ blocksOf(s, v) # <<>>

changeView(s, v) ==
    setTimer(resize([s EXCEPT !.tp = changeViewTo(@, v), !.view = v,
                              !.lastExecutedSeq = 0], v))

-----------------------------------------------------------------------------
(* The leader.                                                             *)

callTEEstorePara(s, just) == TEEstore(s.myid, s.tp, just, s.pblocks[s.view])

(* One turn of the loop of preparePara: a block on prevHash, proposed and  *)
(* voted for.  If the component refuses, the transactions are gone.        *)
proposePara(s, just, prevHash, seq) ==
    LET block == PBlock(prevHash, seq, NextTrans(s))
        r     == TEEprepare(s.myid, s.tp, block, just)
        s1    == [storeBlock(popTransactions(s), block) EXCEPT !.tp = r.tee]
    IN  IF r.just.set
        THEN [s |-> storePrepPara(send(s1, remove_from_peers(s),
                                       MsgLdrPreparePara(just, block, r.just.signs)),
                                  MsgPreparePara(r.just)),
              prevHash |-> hash_para(block)]
        ELSE [s |-> popTransactions(s), prevHash |-> prevHash]

preparePara(s, just) ==
    LET begin == IF s.myid % 4 = Byzantine THEN 2 ELSE 1
        propose(acc, seq) == proposePara(acc.s, just, acc.prevHash, seq)
    IN  FoldLeft(propose, [s |-> s, prevHash |-> just.rdata.justh],
                 [k \in 1 .. MaxBlocksInView + 1 - begin |-> k + begin - 1]).s

(* The hashes of the leading blocks of a view that form a chain.           *)
chainHashes(blocks) ==
    LET n == Max({k \in 0 .. Len(blocks) : \A i \in 1 .. k :
                      isBlock(blocks[i]) /\ extendsPrevious(blocks, i)})
    IN  [i \in 1 .. n |-> hash_para(blocks[i])]

initiateVerifyPara(s, just) ==
    LET justv  == just.rdata.justv
        hashes == IF hasBlocks(s, justv) THEN chainHashes(s.pblocks[justv])
                  ELSE <<>>
    IN  preparePara(send(s, remove_from_peers(s), MsgVerifyPara(just, hashes)),
                    just)

initiateRecoverPara(s, just) ==
    send(s, remove_from_peers(s), MsgLdrRecoverPara(just, missingFor(s, just)))

(* The certificate is made of the votes for the sequence number, whatever  *)
(* they vote for, and the data of the last vote.                           *)
initiatePreparePara(s, rdata) ==
    LET signs == getPara(s.log.prepares, rdata.propv, rdata.seq)
        cert  == Just([rdata EXCEPT !.phase = PREPARE], signs)
        r     == callTEEstorePara(s, Just(rdata, signs))
    IN  storePcPara(send([s EXCEPT !.tp = r.tee], remove_from_peers(s),
                         MsgPreparePara(cert)),
                    MsgPreCommitPara(r.just))

initiatePrecommitPara(s, rdata) ==
    LET cert == Just(rdata, getPara(s.log.precommits, rdata.propv, rdata.seq))
        r    == callTEEstorePara(s, cert)
    IN  storeComPara(send([s EXCEPT !.tp = r.tee], remove_from_peers(s),
                          MsgPreCommitPara(cert)),
                     MsgCommitPara(r.just))

-----------------------------------------------------------------------------
(* Execution.                                                              *)

(* Replies if the block of the slot is the one executed.                   *)
replyHashPara(s, h, seq) ==
    LET block == s.pblocks[s.view][seq]
    IN  IF isBlock(block) /\ SameHash(hash_para(block), h)
        THEN replyTransactions(s, block.trans) ELSE s

(* `executed' is a history.  The last block ends the view or the run.      *)
executeRDataPara(s, rdata) ==
    LET s1 == [replyHashPara(s, rdata.proph, rdata.seq) EXCEPT
                  !.lastExecutedSeq = rdata.seq,
                  !.executed = Append(@, [view |-> s.view, seq |-> rdata.seq,
                                          hash |-> rdata.proph])]
    IN  CASE rdata.seq # MaxBlocksInView -> s1
          [] rdata.seq = MaxBlocksInView /\ timeToStop(s) ->
                 [s1 EXCEPT !.stopped = TRUE, !.timer = FALSE]
          [] OTHER -> [s1 EXCEPT !.pending = "startNewViewPara"]

mutant_executeBlocksFrom_again(s, endSeq) ==
    LET execute(t, k) ==
            executeRDataPara(t, firstPara(s.log.commits, s.view, k).rdata)
    IN  FoldLeft(execute, s, [k \in 1 .. endSeq |-> k])

(* Executes blocks lastExecutedSeq + 1 .. endSeq of the view, up to the    *)
(* first that does not extend the one before; a block that is missing is   *)
(* executed by its commit data.                                            *)
executeBlocksFrom(s, endSeq) ==
    LET done == s.lastExecutedSeq
        last == Max({done} \cup
                    {k \in done + 1 .. endSeq : \A i \in done + 1 .. k :
                         extendsPrevious(s.pblocks[s.view], i)})
        execute(t, k) ==
            executeRDataPara(t, firstPara(s.log.commits, s.view, k).rdata)
    IN  FoldLeft(execute, s, [i \in 1 .. last - done |-> done + i])

findHighestSeq(s, seq) ==
    Max({0} \cup {k \in 1 .. seq : \A i \in 1 .. k :
                      ForSeq(s.log.commits, s.view, i) # {}})

executeCommitted(s, seq) == executeBlocksFrom(s, findHighestSeq(s, seq))

initiateCommitPara(s, rdata) ==
    LET signs == getPara(s.log.commits, rdata.propv, rdata.seq)
    IN  IF Cardinality(signs) # QSize THEN s
        ELSE executeCommitted(send(s, remove_from_peers(s),
                                   MsgCommitPara(Just(rdata, signs))),
                              rdata.seq)

-----------------------------------------------------------------------------
(* The other replicas.                                                     *)

respondToProposalPara(s, just, block) ==
    LET r  == TEEprepare(s.myid, s.tp, block, just)
    IN  IF r.just.set
        THEN send(storeBlock([s EXCEPT !.tp = r.tee], block), currentLeader(s),
                  MsgPreparePara(r.just))
        ELSE s

(* A refusal is sent to the leader too.                                    *)
respondToPrepareJustPara(s, just) ==
    LET r == callTEEstorePara(s, just)
    IN  send([s EXCEPT !.tp = r.tee], currentLeader(s), MsgPreCommitPara(r.just))

respondToPreCommitJustPara(s, just) ==
    LET r == callTEEstorePara(s, just)
    IN  send([s EXCEPT !.tp = r.tee], currentLeader(s), MsgCommitPara(r.just))

maxViewsReached(s) == s.view >= MaxViews

mutant_equals_optimised(j, k, unset) ==
    j.set = k.set /\ (j.signs = k.signs => j.rdata = k.rdata)

(* Just::operator== ends without a return statement if the signatures      *)
(* differ; `unset' is what it returns then.                                *)
equals(j, k, unset) ==
    /\ j.set = k.set
    /\ IF j.signs = k.signs
       THEN /\ SameHash(j.rdata.proph, k.rdata.proph)
            /\ SameHash(j.rdata.justh, k.rdata.justh)
            /\ [j.rdata EXCEPT !.proph = Genesis, !.justh = Genesis]
                   = [k.rdata EXCEPT !.proph = Genesis, !.justh = Genesis]
       ELSE unset

(* The leader's signatures of the proposal are not verified.               *)
handleLdrPreparePara(s, m, unset) ==
    LET rdata == m.just.rdata
    IN  IF \/ maxViewsReached(s)
           \/ rdata.propv < s.view
           \/ ~verify(m.just.signs, rdata)
        THEN s
        ELSE IF rdata.propv > s.view THEN storePropPara(s, m)
        ELSE IF equals(m.just, s.verifiedJust, unset)
        THEN IF isBlock(s.pblocks[s.view][m.block.seq]) THEN s
             ELSE respondToProposalPara(s, m.just, m.block)
        ELSE IF rdata.justv > s.verifiedJust.rdata.justv
        THEN storePropPara(s, m) ELSE s

(* Certificates and proposals of the view that arrived before its VERIFY.  *)
catchUpSeq(s, seq, unset) ==
    LET has(msgs)  == Cardinality(getPara(msgs, s.view, seq)) = QSize
        firstOf(msgs) == firstPara(msgs, s.view, seq)
        proposal   == firstProposal(ForSeq(s.log.proposals, s.view, seq), s.view)
        committed  == respondToPreCommitJustPara(s, firstOf(s.log.precommits))
    IN  IF has(s.log.precommits)
        THEN IF has(s.log.commits) THEN executeCommitted(committed, seq)
             ELSE committed
        ELSE IF has(s.log.prepares)
        THEN respondToPrepareJustPara(s, firstOf(s.log.prepares))
        ELSE IF \E m \in proposal : Cardinality(m.signs) = 1
        THEN handleLdrPreparePara(s, CHOOSE m \in proposal : TRUE, unset)
        ELSE s

(* VERIFY messages are never stored (see handleVerifyPara).                *)
handleEarlierMessagesPara(s, unset) ==
    LET just == findHighestNvPara(s, s.view)
        s1   == touch(s, just.rdata.justv)
        catchUp(t, seq) == catchUpSeq(t, seq, unset)
    IN  IF amCurrentLeader(s)
        THEN IF Cardinality(get(s.log.newviews, s.view, QSize)) # QSize THEN s
             ELSE IF missingFor(s, just) = {} \/ s.view = 0
             THEN initiateVerifyPara(s1, just)
             ELSE initiateRecoverPara(s1, just)
        ELSE IF s.verifiedJust.rdata.propv # s.view THEN s
        ELSE FoldLeft(catchUp, s, [k \in SeqNumbers |-> k])

-----------------------------------------------------------------------------
(* Handlers.                                                               *)

(* The leader has new-view messages from a quorum: it recovers blocks that *)
(* it lacks, or all if it is forced to, before it starts the view.         *)
startRecoverOrVerify(s, force) ==
    LET just  == findHighestNvPara(s, s.view)
        justv == just.rdata.justv
        s1    == touch(s, justv)
        cleared == [s1 EXCEPT !.pblocks[justv] = NoBlocks]
    IN  IF s.view = 0 THEN initiateVerifyPara(s1, just)
        ELSE IF missingFor(s, just) # {} THEN initiateRecoverPara(s1, just)
        ELSE IF force THEN initiateRecoverPara(cleared, just)
        ELSE initiateVerifyPara(s1, just)

mutant_handleNewViewPara_atLeast(s, m, force) ==
    LET v  == m.rdata.propv
        s1 == storeNvPara(s, m)
        s2 == [s1 EXCEPT !.tp = TEEsign(s.myid, @).tee]
    IN  IF maxViewsReached(s) \/ v < s.view \/ ~amLeaderOf(s, v) THEN s
        ELSE IF store(s.log.newviews, m).size < QSize THEN s1
        ELSE startRecoverOrVerify(IF v > s.view THEN changeView(s2, v) ELSE s1,
                                  force)

mutant_handleNewViewPara_one(s, m, force) ==
    LET v  == m.rdata.propv
        s1 == storeNvPara(s, m)
        s2 == [s1 EXCEPT !.tp = TEEsign(s.myid, @).tee]
    IN  IF maxViewsReached(s) \/ v < s.view \/ ~amLeaderOf(s, v) THEN s
        ELSE startRecoverOrVerify(IF v > s.view THEN changeView(s2, v) ELSE s1,
                                  force)

handleNewViewPara(s, m, force) ==
    LET v  == m.rdata.propv
        s1 == storeNvPara(s, m)
        s2 == [s1 EXCEPT !.tp = TEEsign(s.myid, @).tee]
    IN  IF \/ maxViewsReached(s)
           \/ ~isDummy(m.rdata.proph)
           \/ v < s.view
           \/ m.rdata.phase # NEWVIEW
           \/ ~amLeaderOf(s, v)
        THEN s
        ELSE IF store(s.log.newviews, m).size # QSize THEN s1
        ELSE startRecoverOrVerify(IF v > s.view THEN changeView(s2, v) ELSE s1,
                                  force)

startNewViewPara(s, force, unset) ==
    LET r  == TEEsignPast(s.myid, s.tp, s.view)
        s1 == changeView([s EXCEPT !.tp = r.tee], s.view + 1)
        m  == MsgNewViewPara(r.just)
    IN  IF r.just.rdata.propv # s1.view \/ r.just.rdata.phase # NEWVIEW THEN s1
        ELSE IF amCurrentLeader(s1)
        THEN handleNewViewPara(handleEarlierMessagesPara(s1, unset), m, force)
        ELSE handleEarlierMessagesPara(send(s1, currentLeader(s1), m), unset)

(* No block could be recovered: the leader takes the justification it      *)
(* verified last, with the number of the current view but the signatures   *)
(* of the last one.                                                        *)
restartFromVerified(s) ==
    LET just == Just([s.verifiedJust.rdata EXCEPT !.proph = Genesis,
                                                  !.propv = s.view],
                     s.verifiedJust.signs)
    IN  IF s.verifiedJust.rdata.propv + 1 = s.view
        THEN preparePara(send(s, remove_from_peers(s), MsgVerifyPara(just, <<>>)),
                         just)
        ELSE s

(* Blocks of an earlier view, for its slots that are empty; the view of    *)
(* the message is not looked at.                                           *)
recoverBlocks(s, m) ==
    LET v    == m.rdata.justv
        s1   == resize(s, v)
        new  == [i \in SeqNumbers |->
                    IF ~isBlock(s1.pblocks[v][i]) /\ \E b \in m.blocks : b.seq = i
                    THEN CHOOSE b \in m.blocks : b.seq = i
                    ELSE s1.pblocks[v][i]]
    IN  IF m.blocks = {} \/ ~verify(m.signs, m.rdata) THEN s
        ELSE [s1 EXCEPT !.pblocks[v] = new]

mutant_handleLdrRecoverPara_current(s, m) ==
    LET mine   == {i \in m.missing : isBlock(s.pblocks[s.view][i])}
        blocks == {s.pblocks[s.view][i] : i \in mine}
    IN  IF maxViewsReached(s) THEN s
        ELSE send(s, currentLeader(s), MsgRecoverPara(JustOf(m), blocks))

handleRecoverPara(s, m) ==
    LET v     == m.rdata.justv
        just  == JustOf(m)
        s1    == recoverBlocks(touch(s, v), m)
        count == IF v \in DOMAIN s.recoverResponses
                 THEN s.recoverResponses[v] ELSE 1
        s2    == [s1 EXCEPT !.recoverResponses = assign(@, v, count + 1)]
    IN  IF maxViewsReached(s) \/ ~amCurrentLeader(s) THEN s
        ELSE IF missingFor(s, just) = {} THEN touch(s, v)
        ELSE IF missingFor(s1, just) = {}
        THEN initiateVerifyPara([s1 EXCEPT !.recoverResponses = assign(@, v, count)],
                                just)
        ELSE IF count + 1 < QSize THEN s2
        ELSE IF 1 \notin missingFor(s1, just) THEN initiateVerifyPara(s2, just)
        ELSE restartFromVerified(s2)

(* The blocks it has of those that are missing; in a set, since each goes  *)
(* to a slot of its own.                                                   *)
handleLdrRecoverPara(s, m) ==
    LET v    == m.rdata.justv
        mine == IF ~hasBlocks(s, v) THEN {}
                ELSE {i \in m.missing : isBlock(s.pblocks[v][i])}
        blocks == {s.pblocks[v][i] : i \in mine}
        s1   == IF v < Cardinality(DOMAIN s.pblocks) THEN touch(s, v) ELSE s
    IN  IF maxViewsReached(s) THEN s
        ELSE send(s1, currentLeader(s), MsgRecoverPara(JustOf(m), blocks))

(* The hashes are those of blocks that the replica has.                    *)
hashesMatch(s, m) ==
    LET blocks == blocksOf(s, m.rdata.justv)
    IN  /\ Len(m.blockHashes) <= Len(blocks)
        /\ \A i \in DOMAIN m.blockHashes :
               isBlock(blocks[i]) /\ SameHash(hash_para(blocks[i]), m.blockHashes[i])

(* The replica enters the view of the message before it has verified it.   *)
(* (The branch that stores the message for later is never taken.)          *)
handleVerifyPara(s, m, unset) ==
    LET v     == m.rdata.propv
        s1    == IF v > s.view THEN changeView(s, v) ELSE s
        check == m.rdata.justv > s.verifiedJust.rdata.propv
        s2    == IF check THEN touch(s1, m.rdata.justv) ELSE s1
        just  == TEEverifyLeaderQC(s2.tp, JustOf(m), m.blockHashes, check)
    IN  IF maxViewsReached(s) \/ v < s.view THEN s
        ELSE IF check /\ ~hashesMatch(s2, m) THEN s2
        ELSE IF ~just.set THEN s2
        ELSE handleEarlierMessagesPara([s2 EXCEPT !.verifiedJust = just], unset)

handlePreparePara(s, m) ==
    LET v == m.rdata.propv
        quorum == storePara(s.log.prepares, m).size = QSize
    IN  IF maxViewsReached(s) \/ v < s.view THEN s
        ELSE IF v > s.view THEN storePrepPara(s, m)
        ELSE IF amCurrentLeader(s)
        THEN IF quorum THEN initiatePreparePara(storePrepPara(s, m), m.rdata)
             ELSE storePrepPara(s, m)
        ELSE IF /\ Cardinality(m.signs) = QSize
                /\ ForSeq(s.log.prepares, v, m.rdata.seq) = {}
        THEN respondToPrepareJustPara(storePrepPara(s, m), JustOf(m))
        ELSE s

handlePrecommitPara(s, m) ==
    LET v == m.rdata.propv
        quorum == storePara(s.log.precommits, m).size = QSize
    IN  IF maxViewsReached(s) \/ v < s.view THEN s
        ELSE IF v > s.view THEN storePcPara(s, m)
        ELSE IF m.rdata.phase # PRECOMMIT THEN s
        ELSE IF amCurrentLeader(s)
        THEN IF quorum THEN initiatePrecommitPara(storePcPara(s, m), m.rdata)
             ELSE storePcPara(s, m)
        ELSE IF /\ Cardinality(m.signs) = QSize
                /\ ForSeq(s.log.precommits, v, m.rdata.seq) = {}
        THEN respondToPreCommitJustPara(storePcPara(s, m), JustOf(m))
        ELSE s

handleCommitPara(s, m) ==
    LET v == m.rdata.propv
        quorum   == storePara(s.log.commits, m).size = QSize
        verified == verify(m.signs, m.rdata)
    IN  IF maxViewsReached(s) \/ v < s.view THEN s
        ELSE IF v > s.view
        THEN IF amLeaderOf(s, v) \/ verified THEN storeComPara(s, m) ELSE s
        ELSE IF m.rdata.phase # COMMIT THEN s
        ELSE IF amCurrentLeader(s)
        THEN IF quorum THEN initiateCommitPara(storeComPara(s, m), m.rdata)
             ELSE storeComPara(s, m)
        ELSE IF Cardinality(m.signs) = QSize /\ verified
        THEN executeCommitted(storeComPara(s, m), m.rdata.seq)
        ELSE s

getStartedPara(s, force) ==
    LET r  == TEEsign(s.myid, s.tp)
        s1 == setTimer([s EXCEPT !.tp = r.tee])
    IN  IF amCurrentLeader(s) THEN handleNewViewPara(s1, MsgNewViewPara(r.just), force)
        ELSE send(s1, currentLeader(s), MsgNewViewPara(r.just))

-----------------------------------------------------------------------------
(* The system.                                                             *)

Init ==
    /\ node = [n \in PID |->
                  withFields(ReplicaInit(n, 0),
                      [tp |-> TrustedParaInit,
                       pblocks |-> assign(<<>>, 0, NoBlocks),
                       recoverResponses |-> <<>>, lastExecutedSeq |-> 0,
                       verifiedJust |-> NoJustPara, log |-> LogInit])]
    /\ pauses = 0 /\ early = 0

Start(n) ==
    /\ CanStart(n)
    /\ \E force \in ForceRecover :
           node' = [node EXCEPT
                       ![n] = getStartedPara([@ EXCEPT !.started = TRUE], force)]
    /\ UNCHANGED <<pauses, early>>

HandleNewViewPara(p, n) ==
    \E force \in ForceRecover :
        Receive(p, n, "newview_para",
                LAMBDA s, m : handleNewViewPara(s, m, force))

HandleLdrPreparePara(p, n) ==
    \E unset \in EqualsReturns :
        Receive(p, n, "ldrprepare_para",
                LAMBDA s, m : handleLdrPreparePara(s, m, unset))

HandleVerifyPara(p, n) ==
    \E unset \in EqualsReturns :
        Receive(p, n, "verify_para",
                LAMBDA s, m : handleVerifyPara(s, m, unset))

HandleRecoverPara(p, n)    == Receive(p, n, "recover_para", handleRecoverPara)
HandleLdrRecoverPara(p, n) == Receive(p, n, "ldrrecover_para", handleLdrRecoverPara)
HandlePreparePara(p, n)    == Receive(p, n, "prepare_para", handlePreparePara)
HandlePrecommitPara(p, n)  == Receive(p, n, "precommit_para", handlePrecommitPara)
HandleCommitPara(p, n)     == Receive(p, n, "commit_para", handleCommitPara)

(* The tail call.                                                          *)
StartNewViewPara(n) ==
    /\ node[n].pending = "startNewViewPara"
    /\ \E force \in ForceRecover, unset \in EqualsReturns :
           node' = [node EXCEPT ![n] =
                       startNewViewPara([@ EXCEPT !.pending = "none"], force, unset)]
    /\ UNCHANGED <<pauses, early>>

Timeout(n) ==
    \E force \in ForceRecover, unset \in EqualsReturns :
        TimerExpires(n, LAMBDA s : startNewViewPara(s, force, unset))

Deliver(p, n) ==
    \/ HandleNewViewPara(p, n)
    \/ HandleLdrPreparePara(p, n)
    \/ HandleVerifyPara(p, n)
    \/ HandleRecoverPara(p, n)
    \/ HandleLdrRecoverPara(p, n)
    \/ HandlePreparePara(p, n)
    \/ HandlePrecommitPara(p, n)
    \/ HandleCommitPara(p, n)

Next ==
    \E n \in PID :
        \/ Start(n)
        \/ StartNewViewPara(n)
        \/ Timeout(n)
        \/ \E p \in PID : Deliver(p, n)
        \/ HandleTransaction(n)
        \/ Pause(n)
        \/ Resume(n)

Spec == Init /\ [][Next]_vars

(* As for the other protocols.                                             *)
Fairness ==
    \A n \in PID :
        /\ WF_vars(Start(n)) /\ WF_vars(HandleTransaction(n))
        /\ []<>(node[n].pending = "none") \/ []<><<StartNewViewPara(n)>>_vars
        /\ []<>(~CanTimeout(n)) \/ []<><<Timeout(n)>>_vars
        /\ \A p \in PID :
               []<>(~CanReceive(p, n)) \/ []<><<Deliver(p, n)>>_vars

FairSpec == Spec /\ Fairness

-----------------------------------------------------------------------------
(* Properties.                                                             *)

Views   == 0 .. MaxViews - 1
Hashes  == {Dummy} \cup Seq([seq : Nat, trans : Seq(Nat)])

(* Hash(false) is not the hash of a block.                                 *)
ASSUME UnsetAssumption == Dummy \notin Seq([seq : Nat, trans : Seq(Nat)])

Data    == [proph : Hashes, propv : Views, justh : Hashes, justv : Views,
            phase : Phase \cup {PARALLEL}, seq : 0 .. MaxBlocksInView]
Tokens  == [signer : PID, rdata : Data]
Justs   == [set : BOOLEAN, rdata : Data, signs : SUBSET Tokens]
PBlocks == [prevHash : Hashes, seq : 0 .. MaxBlocksInView, trans : Seq(Nat)]

LogTypes ==
    [newviews |-> "newview_para", prepares |-> "prepare_para",
     precommits |-> "precommit_para", commits |-> "commit_para",
     proposals |-> "ldrprepare_para"]

WellFormed(m) ==
    IF m.type = "ldrprepare_para"
    THEN m.just \in Justs /\ m.block \in PBlocks /\ m.signs \subseteq Tokens
    ELSE /\ m.rdata \in Data /\ m.signs \subseteq Tokens
         /\ m.type = "verify_para" => m.blockHashes \in Seq(Hashes)
         /\ m.type = "ldrrecover_para" => m.missing \subseteq SeqNumbers
         /\ m.type = "recover_para" => m.blocks \subseteq PBlocks

ComponentOK(t) ==
    /\ t.preph \in Hashes /\ t.prepv \in Views /\ t.prepseq \in 0 .. MaxBlocksInView
    /\ t.lockh \in Hashes /\ t.lockv \in Views /\ t.lockseq \in 0 .. MaxBlocksInView
    /\ t.view \in Views /\ t.phase \in {NEWVIEW, PARALLEL}
    /\ \A h \in DOMAIN t.blockPhases : t.blockPhases[h] \in {PREPARE, PRECOMMIT, COMMIT}
    /\ \A i \in DOMAIN t.precommits :
           i \in 0 .. MaxBlocksInView /\ t.precommits[i] \in Hashes
    /\ t.signed \subseteq Data

(* The state of every replica is well formed.                              *)
TypeOK ==
    /\ \A n \in PID :
          /\ node[n].myid = n
          /\ node[n].view \in Views
          /\ ComponentOK(node[n].tp)
          /\ node[n].verifiedJust \in Justs
          /\ node[n].lastExecutedSeq \in 0 .. MaxBlocksInView
          /\ \A v \in DOMAIN node[n].pblocks :
                 node[n].pblocks[v] \in {<<>>} \cup [SeqNumbers -> PBlocks]
          /\ \A k \in DOMAIN LogTypes : \A m \in node[n].log[k] :
                 WellFormed(m) /\ m.type = LogTypes[k]
          /\ \A d \in PID : \A k \in DOMAIN node[n].out[d] :
                 WellFormed(node[n].out[d][k])
          /\ node[n].transactions \in Seq(1 .. NumInstances)
          /\ node[n].replied \in Seq(1 .. NumInstances)
          /\ node[n].executed \in
                 Seq([view : Views, seq : SeqNumbers, hash : Hashes])
    /\ pauses \in 0 .. MaxPauses /\ early \in 0 .. MaxEarly

Executed(n) == {node[n].executed[k] : k \in DOMAIN node[n].executed}

(* No two replicas execute conflicting blocks: their hashes, which commit  *)
(* to all blocks before them, are prefixes of each other, although a       *)
(* leader executes a block with its own commit vote only, TEEprepare does  *)
(* not look at the lock, and a view may be started from a block whose      *)
(* predecessors were never recovered.                                      *)
Agreement ==
    \A n, m \in PID : \A e \in Executed(n), f \in Executed(m) :
        IsPrefix(e.hash, f.hash) \/ IsPrefix(f.hash, e.hash)

(* The blocks of a view are certified in parallel but executed in order:   *)
(* each replica executes blocks 1, 2, ... of a view, every one the direct  *)
(* successor of the one before, and later views after earlier ones.        *)
ExecutesInOrder ==
    \A n \in PID : \A k \in DOMAIN node[n].executed :
        LET e == node[n].executed[k]
            d == node[n].executed[k - 1]
        IN  \/ e.seq = 1 /\ (k > 1 => d.view < e.view)
            \/ /\ k > 1
               /\ d.view = e.view /\ d.seq + 1 = e.seq
               /\ d.hash = Front(e.hash)

(* Once a block is executed anywhere, a quorum of trusted components have  *)
(* a block prepared that is built on it.                                   *)
ExecutedPrepared ==
    \A n \in PID : \A e \in Executed(n) :
        Cardinality({i \in PID : IsPrefix(e.hash, node[i].tp.preph)}) >= QSize

(* No transaction is replied twice by a replica.                           *)
RepliedOnce == \A n \in PID : IsInjective(node[n].replied)

(* The data of the votes that a component has signed in a phase of view v. *)
Votes(n, v, phase) ==
    {r \in node[n].tp.signed : r.propv = v /\ r.phase = phase}

(* "block with sequence number ... already exists in this view, can't vote *)
(* for it": no component votes for two blocks with the same number in a    *)
(* view, the leader's included, although nothing in TEEprepare or          *)
(* preparePara prevents it.                                                *)
OneBlockPerSlot ==
    \A n \in PID : \A v \in 0 .. node[n].view :
        \A r, q \in Votes(n, v, PREPARE) : r.seq = q.seq => r.proph = q.proph

(* The component is in the view of its replica, and a replica is in a view *)
(* only if it has signed a new-view message for it or a quorum has:        *)
(* handleVerifyPara follows a message into its view before it has verified *)
(* anything.                                                               *)
ViewSupported ==
    \A n \in PID :
        LET v == node[n].view
        IN  /\ node[n].tp.view = v
            /\ \/ v = 0
               \/ Votes(n, v, NEWVIEW) # {}
               \/ Cardinality({i \in PID : Votes(i, v, NEWVIEW) # {}}) >= QSize

(* A quorum of components have signed pre-commit votes for block k of view *)
(* v.                                                                      *)
Precommitted(v, k) ==
    Cardinality({i \in PID : \E r \in Votes(i, v, PRECOMMIT) : r.seq = k})
        >= QSize

(* A component is locked at the end of the prefix of blocks of its view    *)
(* that are committed, whatever order their certificates come in.  It does *)
(* not stop short: if it has signed the new-view message of the view and   *)
(* has voted to commit blocks 1 .. k, block k or a later one is locked.    *)
(* (One that changeView alone has moved to the view keeps the sequence     *)
(* number of an older lock and may not lock anything.)  And it does not    *)
(* skip: if a block of the view is locked, the component has voted for it, *)
(* and it and all blocks before it have pre-commit certificates.           *)
CommittedPrefixLocked ==
    \A n \in PID :
        LET t == node[n].tp
        IN  /\ Votes(n, t.view, NEWVIEW) # {} =>
                  \A k \in SeqNumbers :
                      1 .. k \subseteq {r.seq : r \in Votes(n, t.view, COMMIT)}
                          => t.lockv = t.view /\ t.lockseq >= k
            /\ t.lockv = t.view /\ t.lockh # Genesis =>
                  /\ \E r \in t.signed : /\ r.propv = t.view
                                          /\ r.seq = t.lockseq
                                          /\ r.proph = t.lockh
                  /\ \A k \in 1 .. t.lockseq : Precommitted(t.view, k)

(* The message that replica n adds to its connection to d in a step.       *)
Sends(n, d, type) ==
    /\ Len(node'[n].out[d]) > Len(node[n].out[d])
    /\ Last(node'[n].out[d]).type = type

(* A replica votes for a proposal of the leader only if it has verified,   *)
(* in that view, the justification that the proposal is based on.          *)
VotesVerified ==
    [][\A n, d \in PID :
          LET r == Last(node'[n].out[d]).rdata
              j == node'[n].verifiedJust
          IN  Sends(n, d, "prepare_para") /\ getLeaderOf(r.propv) # n =>
                 /\ j.set
                 /\ [propv |-> j.rdata.propv, justv |-> j.rdata.justv,
                     justh |-> j.rdata.justh]
                       = [propv |-> r.propv, justv |-> r.justv,
                          justh |-> r.justh]]_vars

Slots == [view : 0 .. MaxViews - 1, seq : SeqNumbers]
ExecutedSlots(n) == {[view |-> e.view, seq |-> e.seq] : e \in Executed(n)}

(* With no replica paused and messages faster than timers, every block of  *)
(* every view is executed by some replica, recovery or not.                *)
EverySlotCommitted == <>(Slots \subseteq UNION {ExecutedSlots(n) : n \in PID})

(* "We should now recover the things we missed": under the same            *)
(* circumstances every replica executes every block of every view, also    *)
(* one that a VERIFY message moves to the next view.                       *)
EverySlotExecuted == <>(\A n \in PID : Slots \subseteq ExecutedSlots(n))
=============================================================================
