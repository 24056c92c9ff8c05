------------------------------ MODULE MCBasic -------------------------------
(***************************************************************************)
(* BasicHotStuff for TLC.                                                  *)
(***************************************************************************)
EXTENDS BasicHotStuff

(* What can still influence a behaviour.  No handler reads an entry of the *)
(* log or a block of a view before its own, an outdated message has no     *)
(* effect on its receiver, and a replica that has stopped receives none.   *)
(* Used as VIEW, so that states that differ in nothing else are explored   *)
(* once.  A replica times out at most once in each view, so a bound on     *)
(* early time-outs above that never binds.  (The last component makes TLC  *)
(* evaluate node completely.)                                              *)
LiveState ==
    <<[n \in PID |->
          [node[n] EXCEPT
              !.log    = [k \in DOMAIN @ |->
                             {m \in @[k] : ~Outdated(n, m)}],
              !.blocks = [v \in DOMAIN @ \cap {node[n].view} |-> @[v]],
              !.out    = [d \in PID |->
                             SelectSeq(@[d], LAMBDA m : /\ ~node[d].stopped
                                                        /\ ~Outdated(d, m))]]],
      pauses, IF MaxEarly < Total * MaxViews THEN early ELSE 0, node = node>>
=============================================================================
