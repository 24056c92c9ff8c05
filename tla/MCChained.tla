----------------------------- MODULE MCChained ------------------------------
(***************************************************************************)
(* ChainedHotStuff for TLC.                                                *)
(***************************************************************************)
EXTENDS ChainedHotStuff

(* What can still influence a behaviour: a replica does not look at votes  *)
(* and proposals of views before its own or at new-view messages of views  *)
(* before the last, it rereads its justification only if it is of the last *)
(* view, an outdated message has no effect, and a replica that has stopped *)
(* receives none.  (The last component makes TLC evaluate node.)           *)
LiveState ==
    <<[n \in PID |->
          [node[n] EXCEPT
              !.log = [k \in DOMAIN @ |-> {m \in @[k] : ~Outdated(n, m)}],
              !.out = [d \in PID |->
                          SelectSeq(@[d], LAMBDA m : /\ ~node[d].stopped
                                                     /\ ~Outdated(d, m))]]],
      pauses, IF MaxEarly < Total * MaxViews THEN early ELSE 0, node = node>>

-----------------------------------------------------------------------------
(* A part of the behaviours of four replicas, in which every other view    *)
(* fails.  The messages of view 1 are in time.  Of the messages of a later *)
(* even view those from or to one replica are late, replicas 1 and 3 in    *)
(* turn, which lead the view after it; those of the odd views are all      *)
(* late.  So each even view certifies a block, and only the next leader    *)
(* learns of it.                                                           *)

InTime(p, n) ==
    LET v == LastView(node[p].out[n][Upcoming(p, n)])
    IN  v = 1 \/ (v % 2 = 0 /\ getLeaderOf(v + 3) \notin {p, n})

CanDeliverInTime(p, n) == CanReceive(p, n) /\ InTime(p, n)

(* A timer runs out when nothing is left to arrive in time and nobody is   *)
(* behind.                                                                 *)
LateNext ==
    \E n \in PID :
        \/ Start(n)
        \/ PrepareCh(n)
        \/ HandleEarlierMessagesCh(n)
        \/ \E p \in PID : CanDeliverInTime(p, n) /\ Deliver(p, n)
        \/ /\ \A q \in PID : node[q].view >= node[n].view
           /\ \A p, q \in PID : ~CanDeliverInTime(p, q)
           /\ Timeout(n)

LateSpec == Init /\ [][LateNext]_vars
=============================================================================
