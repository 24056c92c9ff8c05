------------------------------ MODULE Protocol ------------------------------
(***************************************************************************)
(* What all parts of the replica share: the replica set, quorums, leaders, *)
(* phases, and the data that travels between replicas and their trusted    *)
(* components (Hash, RData, Sign, Signs, Just).                            *)
(*                                                                         *)
(* A hash is modelled injectively by the chain it commits to: the genesis  *)
(* hash is the empty sequence and the hash of a block is the parent's hash *)
(* extended with the block's transactions.  A signature is a record naming *)
(* its signer and the data signed; only `sign' of module TrustedFun makes  *)
(* one, so signatures cannot be forged.                                    *)
(***************************************************************************)
EXTENDS Integers, Sequences, FiniteSets

CONSTANTS
    NumFaults,     \* number of faults tolerated (Handler::numFaults)
    ConstFactor,   \* Total = ConstFactor * NumFaults + 1 (Handler::constFactor)
    Dummy          \* the unset hash Hash(false)

ASSUME FaultAssumption ==
    /\ NumFaults \in Nat \ {0}
    /\ ConstFactor \in Nat \ {0, 1}

-----------------------------------------------------------------------------
(* Replicas, quorums and leaders.                                          *)

Total == ConstFactor * NumFaults + 1
QSize == Total - NumFaults
PID   == 0 .. Total - 1

getLeaderOf(v) == v % Total

-----------------------------------------------------------------------------
(* Phases, in the order in which a trusted component signs them.           *)

NEWVIEW   == 0
PREPARE   == 1
PRECOMMIT == 2
COMMIT    == 3
Phase     == {NEWVIEW, PREPARE, PRECOMMIT, COMMIT}

-----------------------------------------------------------------------------
(* Hashes.  Hash(false) and Hash(true) hold the same bytes and operator==  *)
(* compares the bytes only; the text that is signed includes the set flag, *)
(* so the two differ inside signed data.                                   *)

Genesis == <<>>

ASSUME DummyAssumption == Dummy # Genesis

SameHash(g, h) == g = h \/ {g, h} = {Genesis, Dummy}

isDummy(h) == h = Dummy

(* A block: the hash it extends and its transactions.  It has no view.     *)
Block(prevHash, trans) == [prevHash |-> prevHash, trans |-> trans]
hash(b)                == Append(b.prevHash, b.trans)
extends(b, h)          == SameHash(b.prevHash, h)

-----------------------------------------------------------------------------
(* map[key] = value for a std::map.                                        *)
assign(map, key, value) ==
    [k \in DOMAIN map \cup {key} |-> IF k = key THEN value ELSE map[k]]

-----------------------------------------------------------------------------
(* Signed data and justifications.                                         *)

RData(proph, propv, justh, justv, phase) ==
    [proph |-> proph, propv |-> propv, justh |-> justh, justv |-> justv,
     phase |-> phase]

RDataOver(H) ==
    [proph : H, propv : Nat, justh : H, justv : Nat, phase : Phase]

Signature(i, rdata) == [signer |-> i, rdata |-> rdata]

getSigners(signs) == {k.signer : k \in signs}

(* Every signature is one of the given data; no signature at all verifies. *)
verify(signs, rdata) == \A k \in signs : k.rdata = rdata

Just(rdata, signs) == [set |-> TRUE, rdata |-> rdata, signs |-> signs]

(* Just(): the answer of a trusted component that refuses.                 *)
NoJust ==
    [set |-> FALSE, rdata |-> RData(Genesis, 0, Genesis, 0, NEWVIEW),
     signs |-> {}]
=============================================================================
