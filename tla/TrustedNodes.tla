---------------------------- MODULE TrustedNodes ----------------------------
(***************************************************************************)
(* The trusted components of all replicas, driven by hosts of which        *)
(* nothing is assumed but that they cannot forge signatures: any host may  *)
(* make any call at any time, with any list of signatures that the         *)
(* components have made so far, one of them several times included, or     *)
(* with no signature at all.  What holds here holds for every order in     *)
(* which the handlers of the replicas (module BasicHotStuff) call the      *)
(* components.                                                             *)
(***************************************************************************)
EXTENDS TrustedFun

CONSTANTS
    Hash,       \* all hashes
    Proposed,   \* the hashes hosts ask the components to vote for
    Unsigned,   \* the data hosts present without any signature
    MaxStamp    \* bound: component i signs nothing at or past MaxStamp[i]

ASSUME HashAssumption  == Genesis \in Hash /\ Dummy \in Hash
ASSUME HostAssumption  == Proposed \subseteq Hash /\ Unsigned \subseteq RDataOver(Hash)
ASSUME StampAssumption == MaxStamp \in [PID -> Nat]

VARIABLES
    tee,        \* tee[i]: the state of the component of replica i
    lockers     \* lockers[i]: the replicas whose signatures are in the
                \* certificate that component i has stored last (history)
vars == <<tee, lockers>>

counter == [i \in PID |-> Stamp(tee[i].view, tee[i].phase)]
signed  == [i \in PID |-> tee[i].signed]

(* The replicas that have signed rdata.                                    *)
Voters(rdata) == {i \in PID : rdata \in tee[i].signed}

(* Signs is an array, in which a signature may be repeated: each of its    *)
(* elements is the place in the array with the signature that is there, so *)
(* that the size of the set is that of the array.                          *)
Element(n, i, rdata) == [place |-> n, signer |-> i, rdata |-> rdata]

SignsOf(list, rdata) == {Element(n, list[n], rdata) : n \in DOMAIN list}

(* Lists of signers, up to the size of the array.                          *)
Lists(S) == UNION {[1 .. n -> S] : n \in 1 .. QSize}

(* The justifications hosts can present that verify: lists of signatures   *)
(* of the given data, and none at all.                                     *)
Justifications ==
    {Just(rdata, {}) : rdata \in Unsigned}
        \cup UNION {{Just(rdata, SignsOf(list, rdata)) :
                        list \in Lists(Voters(rdata))} :
                    rdata \in UNION {tee[i].signed : i \in PID}}

Init ==
    /\ tee     = [i \in PID |-> TrustedFunInit]
    /\ lockers = [i \in PID |-> {}]

CallTEEsign(i) ==
    /\ tee' = [tee EXCEPT ![i] = TEEsign(i, @).tee]
    /\ UNCHANGED lockers

(* A call that is refused changes nothing: it is a stuttering step.        *)
CallTEEprepare(i) ==
    \E h \in Proposed, j \in Justifications :
        /\ TEEprepare(i, tee[i], h, j).just.set
        /\ tee' = [tee EXCEPT ![i] = TEEprepare(i, @, h, j).tee]
        /\ UNCHANGED lockers

CallTEEstore(i) ==
    \E j \in Justifications :
        /\ TEEstore(i, tee[i], j).just.set
        /\ tee' = [tee EXCEPT ![i] = TEEstore(i, @, j).tee]
        /\ lockers' = [lockers EXCEPT ![i] = getSigners(j.signs)]

Next ==
    \E i \in PID :
        /\ counter[i] < MaxStamp[i]
        /\ CallTEEsign(i) \/ CallTEEprepare(i) \/ CallTEEstore(i)

Spec == Init /\ [][Next]_vars

-----------------------------------------------------------------------------
(* Properties.                                                             *)

(* Every component's state is well formed.                                 *)
TypeOK ==
    /\ tee \in [PID -> TrustedFunOver(Hash)]
    /\ lockers \in [PID -> SUBSET PID]

StampOf(rdata) == Stamp(rdata.propv, rdata.phase)

(* No component signs two different statements for the same view and       *)
(* phase: `sign' leaves a (view, phase) pair for good once it has used it. *)
SignOnce ==
    \A i \in PID : \A r1, r2 \in tee[i].signed :
        StampOf(r1) = StampOf(r2) => r1 = r2

Certified(rdata) == Cardinality(Voters(rdata)) >= QSize

(* For each view and phase at most one statement can gather the signatures *)
(* of a quorum of different components: two such quorums intersect in a    *)
(* component that would have signed twice.                                 *)
UniqueCertificate ==
    \A i1, i2 \in PID : \A r1 \in tee[i1].signed, r2 \in tee[i2].signed :
        /\ StampOf(r1) = StampOf(r2)
        /\ Certified(r1)
        /\ Certified(r2)
        => r1 = r2

(* Every replica in S has signed the same vote for block h of view v, and  *)
(* there is one in S.                                                      *)
VotedBy(S, h, v) ==
    \E i \in S : \E r \in tee[i].signed :
        /\ r.proph = h /\ r.propv = v
        /\ r.phase \in {PREPARE, PRECOMMIT}
        /\ S \subseteq Voters(r)

CertifiedBlock(h, v) == \E S \in SUBSET PID : Cardinality(S) >= QSize /\ VotedBy(S, h, v)

(* A component is locked on a block only if everybody whose signature is   *)
(* in the certificate it has stored has voted for that block in the view   *)
(* of the lock, and somebody has.  TEEstore counts signatures and not      *)
(* signers: only if the signers are as many as the signatures, which       *)
(* module Log sees to, is the block that of a quorum.  What a component    *)
(* reports as prepared in its new-view messages is the block it is locked  *)
(* on.                                                                     *)
LockBacked ==
    \A i \in PID :
        LET t == tee[i]
        IN  /\ t.preph = t.lockh /\ t.prepv = t.lockv
            /\ \/ lockers[i] = {} /\ t.lockh = Genesis /\ t.lockv = 0
               \/ VotedBy(lockers[i], t.lockh, t.lockv)
            /\ Cardinality(lockers[i]) >= QSize => CertifiedBlock(t.lockh, t.lockv)

(* A component never goes back: its counter never decreases, what it has   *)
(* signed stays signed, and its lock only moves to the same or a later     *)
(* view.                                                                   *)
NeverBack ==
    [][\A i \in PID :
           /\ counter'[i] >= counter[i]
           /\ tee[i].signed \subseteq tee'[i].signed
           /\ tee'[i].lockv >= tee[i].lockv]_vars

Signer == INSTANCE MonotonicSigner
              WITH Signers <- PID, Stamped <- StampOf,
                   counter <- counter, signed <- signed

(* The components implement monotonic signers: each successful call passes *)
(* one value of the counter with one statement, each refused call none.    *)
RefinesSigner == Signer!Spec
=============================================================================
