----------------------------- MODULE TrustedFun -----------------------------
(***************************************************************************)
(* The trusted component of Basic HotStuff (class TrustedFun): a counter   *)
(* of (view, phase) pairs, the last prepared and the last locked block,    *)
(* and three calls.  Each call is an operator on the component's state     *)
(* that yields the new state and the justification returned to the host.   *)
(*                                                                         *)
(* The field `signed' is a history of everything the component has signed. *)
(***************************************************************************)
EXTENDS Protocol

(* The constructor.                                                        *)
TrustedFunInit ==
    [lockh |-> Genesis, lockv |-> 0, preph |-> Genesis, prepv |-> 0,
     view |-> 0, phase |-> NEWVIEW, signed |-> {}]

TrustedFunOver(H) ==
    [lockh : H, lockv : Nat, preph : H, prepv : Nat, view : Nat,
     phase : Phase, signed : SUBSET RDataOver(H)]

(* The position of a (view, phase) pair in the order of the counter.       *)
Stamp(view, phase) == 4 * view + phase

(* Faulty variants of definitions, named mutant_..., stand before the      *)
(* definition they vary.  Nothing uses them: each is what a slip in the    *)
(* code would make of the definition, to see that a property notices.      *)

mutant_increment_same_view(t) ==
    IF t.phase = COMMIT
    THEN [t EXCEPT !.phase = NEWVIEW]
    ELSE [t EXCEPT !.phase = @ + 1]

mutant_increment_no_wrap(t) ==
    [t EXCEPT !.phase = @ + 1]

(* The (view, phase) pair after the current one.                           *)
increment(t) ==
    IF t.phase = COMMIT
    THEN [t EXCEPT !.phase = NEWVIEW, !.view = @ + 1]
    ELSE [t EXCEPT !.phase = @ + 1]

mutant_sign_no_increment(id, t, h1, h2, v2) ==
    LET rdata == RData(h1, t.view, h2, v2, t.phase)
    IN  [tee  |-> [t EXCEPT !.signed = @ \cup {rdata}],
         just |-> Just(rdata, {Signature(id, rdata)})]

mutant_sign_after_increment(id, t, h1, h2, v2) ==
    LET u     == increment(t)
        rdata == RData(h1, u.view, h2, v2, u.phase)
    IN  [tee  |-> [u EXCEPT !.signed = @ \cup {rdata}],
         just |-> Just(rdata, {Signature(id, rdata)})]

(* Signs (h1, h2, v2) for the current view and phase, which are then over. *)
sign(id, t, h1, h2, v2) ==
    LET rdata == RData(h1, t.view, h2, v2, t.phase)
    IN  [tee  |-> increment([t EXCEPT !.signed = @ \cup {rdata}]),
         just |-> Just(rdata, {Signature(id, rdata)})]

Refuse(t) == [tee |-> t, just |-> NoJust]

TEEsign(id, t) == sign(id, t, Dummy, t.preph, t.prepv)

TEEverify(j) == verify(j.signs, j.rdata)

mutant_safenode_none(t, rdata) == TRUE

(* The new-view data extends the locked block or a later one.              *)
safenode(t, rdata) ==
    SameHash(rdata.justh, t.lockh) \/ rdata.justv > t.lockv

mutant_TEEprepare_own_justification(id, t, h, j) ==
    IF /\ TEEverify(j)
       /\ t.view = j.rdata.propv
       /\ j.rdata.phase = NEWVIEW
       /\ safenode(t, j.rdata)
    THEN sign(id, t, h, t.preph, t.prepv)
    ELSE Refuse(t)

(* Votes for block h on the strength of the new-view message j.            *)
TEEprepare(id, t, h, j) ==
    IF /\ TEEverify(j)
       /\ t.view = j.rdata.propv
       /\ j.rdata.phase = NEWVIEW
       /\ safenode(t, j.rdata)
    THEN sign(id, t, h, j.rdata.justh, j.rdata.justv)
    ELSE Refuse(t)

mutant_record_prepared(t, rdata) ==
    [t EXCEPT !.preph = rdata.proph, !.prepv = rdata.propv]

(* A stored block becomes both the prepared and the locked one: the        *)
(* condition `if (PH1_PRECOMMIT)' before the second pair of assignments    *)
(* tests a constant that is not zero.                                      *)
record(t, rdata) ==
    [t EXCEPT !.preph = rdata.proph, !.prepv = rdata.propv,
              !.lockh = rdata.proph, !.lockv = rdata.propv]

mutant_storable_no_quorum(t, j) ==
    /\ TEEverify(j)
    /\ t.view = j.rdata.propv
    /\ j.rdata.phase \in {PREPARE, PRECOMMIT}

(* A prepare or a pre-commit certificate of the current view.              *)
storable(t, j) ==
    /\ Cardinality(j.signs) = QSize
    /\ TEEverify(j)
    /\ t.view = j.rdata.propv
    /\ j.rdata.phase \in {PREPARE, PRECOMMIT}

TEEstore(id, t, j) ==
    IF storable(t, j)
    THEN sign(id, record(t, j.rdata), j.rdata.proph, Genesis, 0)
    ELSE Refuse(t)

mutant_lastStamp_too_far(t, v) ==
    IF t.view > v + 1 THEN Stamp(t.view, t.phase) ELSE Stamp(v + 2, NEWVIEW)

(* The loop of Handler::startNewView: TEEsign until the data signed is for *)
(* a view above v.  The last data signed is at lastStamp, everything from  *)
(* the current (view, phase) up to it is signed alike.                     *)
lastStamp(t, v) ==
    IF t.view > v THEN Stamp(t.view, t.phase) ELSE Stamp(v + 1, NEWVIEW)

TEEsignPast(id, t, v) ==
    LET last  == lastStamp(t, v)
        At(s) == RData(Dummy, s \div 4, t.preph, t.prepv, s % 4)
    IN  [tee  |-> [t EXCEPT !.view = (last + 1) \div 4,
                            !.phase = (last + 1) % 4,
                            !.signed = @ \cup {At(s) : s \in
                                Stamp(t.view, t.phase) .. last}],
         just |-> Just(At(last), {Signature(id, At(last))})]
=============================================================================
