-------------------------- MODULE MonotonicSigner ---------------------------
(***************************************************************************)
(* What the trusted components promise, whatever the hosts do with them:   *)
(* each signer owns a counter that only grows, and every value of the      *)
(* counter that has been passed stands on exactly one signed statement.    *)
(* One step of a signer may pass several values, because one handler of    *)
(* the replica may call its trusted component several times.               *)
(***************************************************************************)
EXTENDS Integers

CONSTANTS Signers, Stamped(_)   \* Stamped(r): the counter value r is signed at

VARIABLES counter, signed
vars == <<counter, signed>>

Init ==
    /\ counter = [i \in Signers |-> 0]
    /\ signed  = [i \in Signers |-> {}]

(* Signer i passes the values counter[i] .. counter'[i] - 1 and puts one   *)
(* statement at each of them.                                              *)
SignBatch(i) ==
    LET new == signed'[i] \ signed[i]
    IN  /\ counter'[i] \in Nat
        /\ counter'[i] > counter[i]
        /\ counter' = [counter EXCEPT ![i] = counter'[i]]
        /\ signed'  = [signed EXCEPT ![i] = @ \cup new]
        /\ \A r \in new : Stamped(r) \in counter[i] .. counter'[i] - 1
        /\ \A r1, r2 \in new : Stamped(r1) = Stamped(r2) => r1 = r2
        /\ \A s \in counter[i] .. counter'[i] - 1 :
               \E r \in new : Stamped(r) = s

Next == \E i \in Signers : SignBatch(i)

Spec == Init /\ [][Next]_vars
=============================================================================
