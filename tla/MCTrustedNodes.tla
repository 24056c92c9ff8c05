--------------------------- MODULE MCTrustedNodes ---------------------------
(* TrustedNodes on a small instance: one block besides genesis.  Without a *)
(* signature hosts present a new-view message of view 0 that reports this  *)
(* block as prepared in a later view, so that it passes any lock, and a    *)
(* vote for the block.  One component gets into view 1, one votes with it  *)
(* in view 0, and one only starts view 0.                                  *)
EXTENDS TrustedNodes

CONSTANT A

MCHash     == {Genesis, Dummy, A}
MCProposed == {A}
MCUnsigned == {RData(Dummy, 0, A, 1, NEWVIEW), RData(A, 0, Genesis, 0, PREPARE)}
MCMaxStamp == [i \in PID |-> CASE i = 0 -> Stamp(1, COMMIT)
                               [] i = 1 -> Stamp(0, PRECOMMIT)
                               [] OTHER -> Stamp(0, PREPARE)]
=============================================================================
