----------------------------- MODULE TrustedCh ------------------------------
(***************************************************************************)
(* The trusted component of Chained HotStuff (class TrustedCh) and the     *)
(* justified blocks it votes for (class JBlock).                           *)
(*                                                                         *)
(* The component counts in the order NEWVIEW of view 0, PREPARE of view 1, *)
(* NEWVIEW of view 1, PREPARE of view 2, and so on.  As in TrustedFun,     *)
(* `signed' is a history of everything the component has signed.           *)
(***************************************************************************)
EXTENDS Protocol

(* What the block of a justification is: Just::wellFormed...               *)
wellFormedInit(j) ==
    /\ j.rdata.propv = 0 /\ j.rdata.justv = 0
    /\ j.rdata.phase = NEWVIEW
    /\ j.signs = {}

wellFormedNv(j) ==
    /\ ~isDummy(j.rdata.justh)
    /\ j.rdata.phase = NEWVIEW
    /\ Cardinality(j.signs) = 1

wellFormedPrep(j) ==
    /\ ~isDummy(j.rdata.proph)
    /\ j.rdata.phase = PREPARE
    /\ Cardinality(j.signs) = QSize

wellFormed(j) == wellFormedInit(j) \/ wellFormedNv(j) \/ wellFormedPrep(j)

(* View and hash of the block that a justification stands for: the one     *)
(* prepared last for a new-view message, the one voted for otherwise.      *)
getCView(j) ==
    IF wellFormedInit(j) \/ wellFormedNv(j) THEN j.rdata.justv ELSE j.rdata.propv

getCHash(j) ==
    IF wellFormedInit(j) \/ wellFormedNv(j) THEN j.rdata.justh ELSE j.rdata.proph

(* A block of view v.  Its hash commits to the block of its justification, *)
(* the view, the kind and the signers of the justification, and the        *)
(* transactions.  Whether a replica has executed the block (`executed') is *)
(* not part of the hash.                                                   *)
JBlock(v, just, trans) ==
    [view |-> v, just |-> just, trans |-> trans, executed |-> FALSE]

hash_ch(b) ==
    Append(getCHash(b.just),
           [view |-> b.view, phase |-> b.just.rdata.phase,
            signers |-> getSigners(b.just.signs), trans |-> b.trans])

GenesisBlock == JBlock(0, NoJust, <<>>)

-----------------------------------------------------------------------------
(* The component.                                                          *)

TrustedChInit ==
    [lockh |-> hash_ch(GenesisBlock), lockv |-> 0,
     preph |-> hash_ch(GenesisBlock), prepv |-> 0,
     view |-> 0, phase |-> NEWVIEW, signed |-> {}]

(* The position of a (view, phase) pair in the order of the counter.       *)
Stamp(view, phase) == 2 * view - (IF phase = PREPARE THEN 1 ELSE 0)

mutant_increment_same_view(t) ==
    [t EXCEPT !.phase = IF @ = PREPARE THEN NEWVIEW ELSE PREPARE]

increment(t) ==
    IF t.phase = PREPARE
    THEN [t EXCEPT !.phase = NEWVIEW]
    ELSE [t EXCEPT !.phase = PREPARE, !.view = @ + 1]

sign(id, t, h1, h2, v2) ==
    LET rdata == RData(h1, t.view, h2, v2, t.phase)
    IN  [tee  |-> increment([t EXCEPT !.signed = @ \cup {rdata}]),
         just |-> Just(rdata, {Signature(id, rdata)})]

Refuse(t) == [tee |-> t, just |-> NoJust]

TEEsign(id, t) == sign(id, t, Dummy, t.preph, t.prepv)

(* The justification of a block to vote for: one of the previous view.     *)
acceptable(t, just, just0) ==
    /\ verify(just.signs, just.rdata)
    /\ t.view = just.rdata.propv + 1
    /\ wellFormed(just)
    /\ wellFormed(just0)

mutant_adopt_no_prepared(t, block, block0, block1) == t

(* If block extends block0, block0 becomes the prepared block, and if      *)
(* block0 extends block1 as well, block1 the locked one; both whatever the *)
(* component held before.                                                  *)
adopt(t, block, block0, block1) ==
    LET just  == block.just
        just0 == block0.just
        t1    == [t EXCEPT !.preph = getCHash(just), !.prepv = getCView(just)]
    IN  CASE ~SameHash(getCHash(just), hash_ch(block0)) -> t
          [] SameHash(getCHash(just), hash_ch(block0))
                 /\ SameHash(getCHash(just0), hash_ch(block1)) ->
                 [t1 EXCEPT !.lockh = getCHash(just0),
                            !.lockv = getCView(just0)]
          [] OTHER -> t1

safenode(t, just) ==
    SameHash(getCHash(just), t.lockh) \/ getCView(just) > t.lockv

(* Votes for a block, given the two blocks before it.  The phase of the    *)
(* counter is not looked at.  An unsafe block is refused after the         *)
(* prepared and the locked block have been adopted from it.                *)
TEEprepare(id, t, block, block0, block1) ==
    LET t1 == adopt(t, block, block0, block1)
    IN  IF ~acceptable(t, block.just, block0.just) THEN Refuse(t)
        ELSE IF safenode(t1, block.just)
        THEN sign(id, t1, hash_ch(block), Genesis, 0)
        ELSE Refuse(t1)
=============================================================================
