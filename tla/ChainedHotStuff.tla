-------------------------- MODULE ChainedHotStuff ---------------------------
(***************************************************************************)
(* The replica of Chained HotStuff (class Handler compiled with            *)
(* CHAINED_BASELINE).  A view has one phase: its leader proposes a block   *)
(* with the certificate of an earlier one, and the votes go to the leader  *)
(* of the next view, who makes them into the next certificate.  A block is *)
(* executed when three more blocks have been built on it.                  *)
(*                                                                         *)
(* voteCh ends by starting the next view (prepareCh at the next leader,    *)
(* handleEarlierMessagesCh elsewhere), which comes back to voteCh; the     *)
(* tail call is cut there.                                                 *)
(***************************************************************************)
EXTENDS TrustedCh, Replica

-----------------------------------------------------------------------------
(* Messages and the log.  Each message carries one signature.              *)

MsgNewViewCh(j) == [type |-> "newview_ch", rdata |-> j.rdata, signs |-> j.signs]
MsgPrepareCh(j) == [type |-> "prepare_ch", rdata |-> j.rdata, signs |-> j.signs]
MsgLdrPrepareCh(block, signs) ==
    [type |-> "ldrprepare_ch", block |-> block, signs |-> signs]

(* The three maps are kept like those of Basic HotStuff (Log!store): one   *)
(* message for each signer and view.                                       *)
storeNvCh(s, m) ==
    [s EXCEPT !.log.newviewsCh = store(@, m).msgs]

storePrepCh(s, m) ==
    [s EXCEPT !.log.preparesCh = store(@, m).msgs]

storeLdrPrepCh(s, m) ==
    [s EXCEPT !.log.ldrpreparesCh = store(@, m).msgs]

getPrepareCh(s, v, n) == get(s.log.preparesCh, v, n)

findHighestNvCh(s, v) == findHighestNv(s.log.newviewsCh, v)

firstLdrPrepareCh(s, v) == firstProposal(s.log.ldrpreparesCh, v)

-----------------------------------------------------------------------------
(* Execution.                                                              *)

(* The blocks that have not been executed, from the one of view v down the *)
(* justifications to an executed block or to genesis; `found' is FALSE if  *)
(* a block on the way is missing.  A block is looked up by its view alone, *)
(* it need not have the hash that is certified.                            *)
unexecuted(s, v) ==
    LET upTo[u \in 0 .. v] ==
            IF u \notin DOMAIN s.jblocks
            THEN [found |-> FALSE, views |-> <<>>]
            ELSE IF s.jblocks[u].executed
            THEN [found |-> TRUE, views |-> <<>>]
            ELSE IF u = 0
            THEN [found |-> TRUE, views |-> <<0>>]
            ELSE LET below == upTo[getCView(s.jblocks[u].just)]
                 IN  [below EXCEPT !.views = Append(@, u)]
    IN  upTo[v]

mutant_executeCh_unmarked(s, views) ==
    replyTransactions(
        [s EXCEPT !.executed = @ \o [k \in DOMAIN views |->
                      [view |-> views[k], hash |-> hash_ch(s.jblocks[views[k]])]]],
        FlattenSeq([k \in DOMAIN views |-> s.jblocks[views[k]].trans]))

(* Executes the blocks of the given views; `executed' is a history.        *)
executeCh(s, views) ==
    LET marked(v) == [s.jblocks[v] EXCEPT !.executed = @ \/ v \in Range(views)]
    IN  replyTransactions(
            [s EXCEPT !.jblocks = [v \in DOMAIN @ |-> marked(v)],
                      !.executed = @ \o [k \in DOMAIN views |->
                          [view |-> views[k],
                           hash |-> hash_ch(s.jblocks[views[k]])]]],
            FlattenSeq([k \in DOMAIN views |-> s.jblocks[views[k]].trans]))

tryExecuteCh(s, block0, block1) ==
    LET chain == unexecuted(s, getCView(block1.just))
    IN  IF block0.view = 0 \/ ~chain.found THEN s
        ELSE executeCh(s, chain.views)

-----------------------------------------------------------------------------
(* A view.                                                                 *)

nextView(s, call) == setTimer([s EXCEPT !.view = @ + 1, !.pending = call])

(* The leader of the next view makes a certificate of the votes, whatever  *)
(* they vote for, and starts the view; with too few votes it waits.        *)
checkNewJustCh(s, rdata) ==
    LET signs == getPrepareCh(s, rdata.propv, QSize)
    IN  IF Cardinality(signs) = QSize
        THEN nextView([s EXCEPT !.justNV = Just(rdata, signs)], "prepareCh")
        ELSE s

(* To the leader of the next view, possibly the replica itself.            *)
sendNvCh(s, m) ==
    IF amLeaderOf(s, s.view + 1) THEN storeNvCh(s, m)
    ELSE send(s, keep_from_peers(s, getLeaderOf(s.view + 1)), m)

sendVoteCh(s, block, just) ==
    IF amLeaderOf(s, s.view)
    THEN send(s, remove_from_peers(s), MsgLdrPrepareCh(block, just.signs))
    ELSE IF amLeaderOf(s, s.view + 1) THEN storePrepCh(s, MsgPrepareCh(just))
    ELSE send(s, keep_from_peers(s, getLeaderOf(s.view + 1)),
              MsgPrepareCh(just))

(* Votes for a block if the two blocks before it are known.  The trusted   *)
(* component signs a new-view message in any case; it is sent with a vote. *)
voteCh(s, block) ==
    LET s0    == [s EXCEPT !.jblocks = assign(@, s.view, block)]
        view0 == getCView(block.just)
        view1 == getCView(s0.jblocks[view0].just)
        block0 == s0.jblocks[view0]
        block1 == s0.jblocks[view1]
        r1 == TEEprepare(s.myid, s.tp, block, block0, block1)
        r2 == TEEsign(s.myid, r1.tee)
        s1 == [s0 EXCEPT !.tp = r2.tee]
        s2 == sendNvCh(sendVoteCh(s1, block, r1.just), MsgNewViewCh(r2.just))
        s3 == tryExecuteCh(s2, block0, block1)
    IN  IF view0 \notin DOMAIN s0.jblocks THEN s0
        ELSE IF view1 \notin DOMAIN s0.jblocks THEN s0
        ELSE IF ~r1.just.set THEN s1
        ELSE IF amLeaderOf(s, s.view + 1)
        THEN checkNewJustCh(s3, r1.just.rdata)
        ELSE nextView(s3, "handleEarlierMessagesCh")

mutant_latestJust_kept(s) ==
    IF s.justNV.set THEN s.justNV ELSE findHighestNvCh(s, s.view - 1)

(* The certificate of the last view, or else the highest prepared block    *)
(* reported by a new-view message.                                         *)
latestJust(s) ==
    IF s.justNV.set /\ s.justNV.rdata.propv = s.view - 1
    THEN s.justNV ELSE findHighestNvCh(s, s.view - 1)

createNewBlockCh(s) == JBlock(s.view, s.justNV, NextTrans(s))

prepareCh(s) ==
    LET s1 == [s EXCEPT !.justNV = latestJust(s)]
    IN  voteCh(popTransactions(s1), createNewBlockCh(s1))

mutant_handleEarlierMessagesCh_none(s) == s

(* A stored proposal of the current view that has not been handled.        *)
handleEarlierMessagesCh(s) ==
    LET proposal == firstLdrPrepareCh(s, s.view)
    IN  IF \/ amCurrentLeader(s)
           \/ proposal = {}
           \/ s.view \in DOMAIN s.jblocks
        THEN s
        ELSE voteCh(s, (CHOOSE m \in proposal : TRUE).block)

(* The loop of startNewViewCh: TEEsign until the data signed is a new-view *)
(* message of view v or a later one.  lastStampCh is the counter value at  *)
(* which it is signed.                                                     *)
lastStampCh(t, v) ==
    LET now == Stamp(t.view, t.phase)
    IN  IF now <= Stamp(v, NEWVIEW) THEN Stamp(v, NEWVIEW)
        ELSE IF t.phase = NEWVIEW THEN now ELSE now + 1

TEEsignUpTo(id, t, v) ==
    LET last  == lastStampCh(t, v)
        At(c) == RData(Dummy, (c + 1) \div 2, t.preph, t.prepv,
                       IF c % 2 = 0 THEN NEWVIEW ELSE PREPARE)
    IN  [tee  |-> [t EXCEPT !.view = (last + 2) \div 2,
                            !.phase = IF last % 2 = 0 THEN PREPARE ELSE NEWVIEW,
                            !.signed = @ \cup {At(c) : c \in
                                Stamp(t.view, t.phase) .. last}],
         just |-> Just(At(last), {Signature(id, At(last))})]

(* A leader that enters its view here does not look at its log: it waits   *)
(* for one more new-view message.                                          *)
startNewViewCh(s) ==
    LET r  == TEEsignUpTo(s.myid, s.tp, s.view)
        s1 == sendNvCh([s EXCEPT !.tp = r.tee], MsgNewViewCh(r.just))
    IN  nextView(s1, IF amLeaderOf(s, s.view + 1) THEN "none"
                     ELSE "handleEarlierMessagesCh")

-----------------------------------------------------------------------------
(* Handlers.                                                               *)

maxViewsReached(s) == s.view >= MaxViews

handleNewviewCh(s, m) ==
    LET v == m.rdata.propv
        accepted == /\ isDummy(m.rdata.proph)
                    /\ v + 1 >= s.view
                    /\ m.rdata.phase = NEWVIEW
                    /\ amLeaderOf(s, v + 1)
        ready == /\ v + 1 = s.view
                 /\ store(s.log.newviewsCh, m).size >= QSize
                 /\ s.view \notin DOMAIN s.jblocks
    IN  IF maxViewsReached(s) \/ ~accepted THEN s
        ELSE IF ready THEN prepareCh(storeNvCh(s, m)) ELSE storeNvCh(s, m)

(* The leader's own vote, as its proposal carries it.                      *)
ldrPrepareCh2just(m) ==
    Just(RData(hash_ch(m.block), m.block.view, Genesis, 0, PREPARE), m.signs)

handleLdrPrepareCh(s, m) ==
    LET v    == m.block.view
        just == ldrPrepareCh2just(m)
        s1   == IF amLeaderOf(s, v + 1)
                THEN storePrepCh(s, MsgPrepareCh(just)) ELSE s
    IN  IF \/ maxViewsReached(s)
           \/ v < s.view
           \/ amLeaderOf(s, v)
           \/ ~verify(just.signs, just.rdata)
        THEN s
        ELSE IF v = s.view THEN voteCh(s1, m.block)
        ELSE handleEarlierMessagesCh(storeLdrPrepCh(s1, m))

handlePrepareCh(s, m) ==
    LET v == m.rdata.propv
    IN  IF maxViewsReached(s) THEN s
        ELSE IF v # s.view THEN (IF v > s.view THEN storePrepCh(s, m) ELSE s)
        ELSE IF ~amLeaderOf(s, v + 1) THEN s
        ELSE IF /\ store(s.log.preparesCh, m).size >= QSize
                /\ s.view \in DOMAIN s.jblocks
        THEN checkNewJustCh(storePrepCh(s, m), m.rdata)
        ELSE storePrepCh(s, m)

(* The view starts at 1.  The timer is not armed.                          *)
getStartedCh(s) ==
    LET r  == TEEsign(s.myid, s.tp)
        m  == MsgNewViewCh(r.just)
        s1 == [s EXCEPT !.tp = r.tee, !.view = 1,
                        !.jblocks = assign(@, 0, GenesisBlock)]
    IN  IF amCurrentLeader(s1) THEN handleNewviewCh(s1, m)
        ELSE handleEarlierMessagesCh(
                 send(s1, keep_from_peers(s, getLeaderOf(s.view + 1)), m))

-----------------------------------------------------------------------------
(* The system.                                                             *)

(* The client begins with replica 1 (skipFirst).                           *)
Init ==
    /\ node = [n \in PID |->
                  withFields(ReplicaInit(n, 1),
                       [tp |-> TrustedChInit, jblocks |-> <<>>,
                        justNV |-> NoJust,
                        log |-> [newviewsCh |-> {}, preparesCh |-> {},
                                 ldrpreparesCh |-> {}]])]
    /\ pauses = 0 /\ early = 0

Start(n) ==
    /\ CanStart(n)
    /\ node' = [node EXCEPT ![n] = getStartedCh([@ EXCEPT !.started = TRUE])]
    /\ UNCHANGED <<pauses, early>>

HandleNewviewCh(p, n)    == Receive(p, n, "newview_ch", handleNewviewCh)
HandleLdrPrepareCh(p, n) == Receive(p, n, "ldrprepare_ch", handleLdrPrepareCh)
HandlePrepareCh(p, n)    == Receive(p, n, "prepare_ch", handlePrepareCh)

(* The tail calls.                                                         *)
PrepareCh(n) ==
    /\ node[n].pending = "prepareCh"
    /\ node' = [node EXCEPT ![n] = prepareCh([@ EXCEPT !.pending = "none"])]
    /\ UNCHANGED <<pauses, early>>

HandleEarlierMessagesCh(n) ==
    /\ node[n].pending = "handleEarlierMessagesCh"
    /\ node' = [node EXCEPT
                   ![n] = handleEarlierMessagesCh([@ EXCEPT !.pending = "none"])]
    /\ UNCHANGED <<pauses, early>>

Timeout(n) == TimerExpires(n, startNewViewCh)

Deliver(p, n) ==
    \/ HandleNewviewCh(p, n)
    \/ HandleLdrPrepareCh(p, n)
    \/ HandlePrepareCh(p, n)

Next ==
    \E n \in PID :
        \/ Start(n)
        \/ PrepareCh(n)
        \/ HandleEarlierMessagesCh(n)
        \/ Timeout(n)
        \/ \E p \in PID : Deliver(p, n)
        \/ HandleTransaction(n)
        \/ Pause(n)
        \/ Resume(n)

Spec == Init /\ [][Next]_vars

(* As for Basic HotStuff: event loops run, connections deliver and timers  *)
(* run out; weak fairness is written out with the guards.                  *)
Fairness ==
    \A n \in PID :
        /\ WF_vars(Start(n)) /\ WF_vars(HandleTransaction(n))
        /\ []<>(node[n].pending = "none")
               \/ []<><<PrepareCh(n) \/ HandleEarlierMessagesCh(n)>>_vars
        /\ []<>(~CanTimeout(n)) \/ []<><<Timeout(n)>>_vars
        /\ \A p \in PID :
               []<>(~CanReceive(p, n)) \/ []<><<Deliver(p, n)>>_vars

FairSpec == Spec /\ Fairness

-----------------------------------------------------------------------------
(* Properties.                                                             *)

(* The hash of a block, and what distinguishes it from its parent's.       *)
Entry == [view : Nat, phase : Phase, signers : SUBSET PID, trans : Seq(Nat)]
Chain == Seq(Entry)

(* Hash(false) is not the hash of a block: its set flag is off.            *)
ASSUME UnsetAssumption == Dummy \notin Chain

Executed(n) == {node[n].executed[k] : k \in DOMAIN node[n].executed}

Conflicting(e, f) == ~IsPrefix(e.hash, f.hash) /\ ~IsPrefix(f.hash, e.hash)

(* No two replicas execute conflicting blocks.  This does not hold: views  *)
(* may fail between a block and its successors, voteCh and tryExecuteCh    *)
(* count such successors like those of consecutive views.                  *)
Agreement ==
    \A n, m \in PID : \A e \in Executed(n), f \in Executed(m) :
        ~Conflicting(e, f)

(* The executed blocks of replica n that the blocks of the next two views  *)
(* are built on directly.                                                  *)
ExecutedDirectly(n) ==
    {e \in Executed(n) :
        \A v \in {e.view + 1, e.view + 2} :
            /\ v \in DOMAIN node[n].jblocks
            /\ getCView(node[n].jblocks[v].just) = v - 1}

(* What is executed anywhere in a later view extends a block that no view  *)
(* failed right after, whatever happens before and later: timers run out   *)
(* between any two messages and replicas miss proposals while they are     *)
(* paused.  So no two such blocks conflict.                                *)
DirectAgreement ==
    \A n, m \in PID : \A e \in ExecutedDirectly(n), f \in Executed(m) :
        e.view <= f.view => IsPrefix(e.hash, f.hash)

(* A replica executes a block once, and after the block that it is built   *)
(* on.  tryExecuteCh finds the blocks by their views only, with the        *)
(* comparison of hashes disabled, and stops at the first executed one.     *)
ParentsFirst ==
    \A n \in PID : \A k \in DOMAIN node[n].executed :
        LET e      == node[n].executed[k]
            before == {node[n].executed[i].hash : i \in 1 .. k - 1}
        IN  e.hash \notin before /\ Front(e.hash) \in before \cup {Genesis}

(* Once such a block is executed anywhere, a quorum of trusted components  *)
(* have a block prepared that is built on it, and keep one, although       *)
(* TEEprepare replaces the prepared and the locked block by any it is      *)
(* given.                                                                  *)
DirectPrepared ==
    \A n \in PID : \A e \in ExecutedDirectly(n) :
        Cardinality({i \in PID : IsPrefix(e.hash, node[i].tp.preph)}) >= QSize

(* No transaction is replied twice by a replica.                           *)
RepliedOnce == \A n \in PID : IsInjective(node[n].replied)

StampOf(rdata) == Stamp(rdata.propv, rdata.phase)

Signer == INSTANCE MonotonicSigner
              WITH Signers <- PID, Stamped <- StampOf,
                   counter <- [n \in PID |->
                                  Stamp(node[n].tp.view, node[n].tp.phase)],
                   signed  <- [n \in PID |-> node[n].tp.signed]

(* The trusted components, as the handlers drive them, are monotonic       *)
(* signers.                                                                *)
RefinesSigner == Signer!Spec

(* "We first create a block that extends the highest prepared block": no   *)
(* new-view message the leader has for its view reports a prepared block   *)
(* of a later view than the one the new block is built on, whether the     *)
(* justification comes from votes or from the log and although justNV      *)
(* outlives its view.                                                      *)
HighestParent ==
    [][\A n \in PID :
          \A v \in DOMAIN node'[n].jblocks \ DOMAIN node[n].jblocks :
              v > 0 /\ getLeaderOf(v) = n
              => \A m \in InView(node'[n].log.newviewsCh, v - 1) :
                    m.rdata.justv <= getCView(node'[n].jblocks[v].just)]_vars

(* With no replica paused and messages faster than timers, every replica   *)
(* executes every block that three blocks of later views were built on.    *)
EveryBlockExecuted ==
    <>(\A n \in PID : 0 .. MaxViews - 4 \subseteq {e.view : e \in Executed(n)})
=============================================================================
