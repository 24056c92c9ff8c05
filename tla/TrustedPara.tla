---------------------------- MODULE TrustedPara -----------------------------
(***************************************************************************)
(* The trusted component of Parallel HotStuff (class TrustedPara), its     *)
(* signed data (class RDataPara) and the blocks it votes for (class        *)
(* PBlock).                                                                *)
(*                                                                         *)
(* A view has up to maxBlocksInView blocks, numbered from 1, that are      *)
(* voted for in parallel.  The component keeps a phase for each block, the *)
(* blocks precommitted in its view, the latest prepared block and the      *)
(* locked one: the end of the longest chain of precommitted blocks.        *)
(* `signed' is a history of the data whose signatures have left the        *)
(* component.                                                              *)
(***************************************************************************)
EXTENDS Protocol, FiniteSetsExt

(* The phase of the component itself is NEWVIEW or PARALLEL; PH1_RECOVER   *)
(* and PH1_VERIFY are never set.                                           *)
PARALLEL == 6

RDataPara(proph, propv, justh, justv, phase, seq) ==
    [proph |-> proph, propv |-> propv, justh |-> justh, justv |-> justv,
     phase |-> phase, seq |-> seq]

(* Just(RDataType::RDataPara) and the answer of a component that refuses.  *)
NoJustPara ==
    [set |-> FALSE, rdata |-> RDataPara(Genesis, 0, Genesis, 0, NEWVIEW, 0),
     signs |-> {}]

-----------------------------------------------------------------------------
(* Blocks.  A slot without a block holds NoPBlock.                         *)

PBlock(prevHash, seq, trans) ==
    [prevHash |-> prevHash, seq |-> seq, trans |-> trans]

NoPBlock == PBlock(Genesis, 0, <<>>)

isBlock(b) == b.seq # 0

hash_para(b) == Append(b.prevHash, [seq |-> b.seq, trans |-> b.trans])

(* Block i of a view does not contradict the one before it: it extends it  *)
(* if both are known.                                                      *)
extendsPrevious(blocks, i) ==
    i > 1 /\ isBlock(blocks[i]) /\ isBlock(blocks[i - 1])
        => extends(blocks[i], hash_para(blocks[i - 1]))

-----------------------------------------------------------------------------
(* The component.                                                          *)

TrustedParaInit ==
    [preph |-> Genesis, prepv |-> 0, prepseq |-> 0,
     lockh |-> Genesis, lockv |-> 0, lockseq |-> 0,
     view |-> 0, phase |-> NEWVIEW,
     blockPhases |-> <<>>, precommits |-> <<>>, signed |-> {}]

(* The number of the locked block survives changeView ...                  *)
changeViewTo(t, v) ==
    [t EXCEPT !.view = v, !.phase = NEWVIEW,
              !.blockPhases = <<>>, !.precommits = <<>>]

(* ... but not increment_view.                                             *)
increment_view(t) ==
    [t EXCEPT !.view = @ + 1, !.blockPhases = <<>>, !.precommits = <<>>,
              !.lockseq = 0]

increment_node_phase(t) ==
    IF t.phase = NEWVIEW THEN [t EXCEPT !.phase = PARALLEL]
    ELSE increment_view([t EXCEPT !.phase = NEWVIEW])

blockPhase(t, h) ==
    IF h \in DOMAIN t.blockPhases THEN t.blockPhases[h] ELSE PREPARE

mutant_increment_block_phase_no_wrap(t, h) ==
    [t EXCEPT !.blockPhases = assign(@, h, blockPhase(t, h) + 1)]

increment_block_phase(t, h) ==
    LET next == CASE blockPhase(t, h) = PREPARE   -> PRECOMMIT
                  [] blockPhase(t, h) = PRECOMMIT -> COMMIT
                  [] blockPhase(t, h) = COMMIT    -> PREPARE
    IN  [t EXCEPT !.blockPhases = assign(@, h, next)]

signBlock(id, t, h1, h2, v2, seq) ==
    LET rdata == RDataPara(h1, t.view, h2, v2, blockPhase(t, h1), seq)
    IN  [tee  |-> increment_block_phase([t EXCEPT !.signed = @ \cup {rdata}], h1),
         just |-> Just(rdata, {Signature(id, rdata)})]

Refused(t) == [tee |-> t, just |-> NoJustPara]

TEEsign(id, t) ==
    LET rdata == RDataPara(Dummy, t.view, t.preph, t.prepv, t.phase, t.prepseq)
    IN  [tee  |-> increment_node_phase([t EXCEPT !.signed = @ \cup {rdata}]),
         just |-> Just(rdata, {Signature(id, rdata)})]

(* The loop of startNewViewPara: TEEsign until the data is of a view later *)
(* than v.  The signatures on the way are discarded.                       *)
TEEsignPast(id, t, v) ==
    IF t.view > v THEN TEEsign(id, t)
    ELSE TEEsign(id, increment_view([t EXCEPT !.view = v, !.phase = NEWVIEW]))

(* The justification a leader starts a view with.  With checkHashes, the   *)
(* locked block must be among the hashes or older than the justification.  *)
TEEverifyLeaderQC(t, just, hashes, checkHashes) ==
    LET locked == \/ ~checkHashes
                  \/ just.rdata.justv = 0
                  \/ \E i \in DOMAIN hashes : SameHash(hashes[i], t.lockh)
    IN  IF /\ verify(just.signs, just.rdata)
           /\ t.view = just.rdata.propv
           /\ just.rdata.phase = NEWVIEW
           /\ locked \/ just.rdata.justv > t.lockv
        THEN just ELSE NoJustPara

mutant_updatePrepared_seq(t, rdata) ==
    IF rdata.seq > t.prepseq
    THEN [t EXCEPT !.preph = rdata.proph, !.prepv = rdata.propv,
                   !.prepseq = rdata.seq]
    ELSE t

(* Votes for a block.  Neither the lock nor the phase of the block is      *)
(* looked at.                                                              *)
TEEprepare(id, t, block, just) ==
    IF /\ verify(just.signs, just.rdata)
       /\ t.view = just.rdata.propv
       /\ just.rdata.phase = NEWVIEW
    THEN signBlock(id, t, hash_para(block), just.rdata.justh, just.rdata.justv,
                   block.seq)
    ELSE Refused(t)

updatePrepared(t, rdata) ==
    IF \/ rdata.propv > t.prepv
       \/ rdata.propv = t.prepv /\ rdata.seq > t.prepseq
    THEN [t EXCEPT !.preph = rdata.proph, !.prepv = rdata.propv,
                   !.prepseq = rdata.seq]
    ELSE t

mutant_highestContinuous_gaps(t, blocks) ==
    LET from == IF t.lockv = t.view THEN t.lockseq + 1 ELSE 1
    IN  Max({0} \cup {k \in DOMAIN t.precommits : k >= from})

(* The number up to which the precommitted blocks are a chain, given the   *)
(* blocks that the replica has; the first one is compared with the lock.   *)
highestContinuous(t, blocks) ==
    LET from == IF t.lockv = t.view THEN t.lockseq + 1 ELSE 1
        linked(i) ==
            IF i > from THEN extendsPrevious(blocks, i)
            ELSE i > 1 /\ isBlock(blocks[i]) => extends(blocks[i], t.lockh)
    IN  Max({0} \cup {k \in from .. Max(DOMAIN t.precommits) :
                          \A i \in from .. k :
                              i \in DOMAIN t.precommits /\ linked(i)})

updateLock(t, blocks) ==
    LET seq == highestContinuous(t, blocks)
    IN  IF seq > t.lockseq
        THEN [t EXCEPT !.lockh = t.precommits[seq], !.lockv = t.view,
                       !.lockseq = seq]
        ELSE t

(* Stores a certificate of the prepare or the precommit phase and votes in *)
(* the phase that is next for the block.                                   *)
TEEstore(id, t, just, blocks) ==
    LET rdata == just.rdata
        t1 == updatePrepared(t, rdata)
        t2 == IF rdata.phase = PREPARE THEN t1
              ELSE updateLock([t1 EXCEPT !.precommits =
                                  assign(@, rdata.seq, rdata.proph)], blocks)
    IN  IF /\ Cardinality(just.signs) = QSize
           /\ verify(just.signs, rdata)
           /\ t.view = rdata.propv
           /\ rdata.phase \in {PREPARE, PRECOMMIT}
        THEN signBlock(id, t2, rdata.proph, rdata.justh, rdata.justv, rdata.seq)
        ELSE Refused(t)
=============================================================================
