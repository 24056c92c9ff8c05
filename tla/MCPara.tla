------------------------------- MODULE MCPara -------------------------------
(***************************************************************************)
(* ParaHotStuff for TLC.                                                   *)
(***************************************************************************)
EXTENDS ParaHotStuff

(* What can still influence a behaviour or a property: a replica does not  *)
(* look at messages of views before its own, and no property at signatures *)
(* of views that every running replica has left; one that has stopped      *)
(* receives nothing and looks at nothing any more.  (The last component    *)
(* makes TLC evaluate node.)                                               *)
Running == {n \in PID : ~node[n].stopped}

LiveNode(n) ==
    LET s == [node[n] EXCEPT
                 !.tp.signed = {r \in @ : \E q \in Running :
                                              r.propv >= node[q].view},
                 !.log = [k \in DOMAIN @ |-> {m \in @[k] : ~Outdated(n, m)}],
                 !.out = [d \in PID |->
                             SelectSeq(@[d], LAMBDA m : /\ d \in Running
                                                        /\ ~Outdated(d, m))]]
    IN  IF n \in Running THEN s
        ELSE [s EXCEPT !.log = LogInit, !.isPaused = FALSE,
                       !.pblocks = <<>>, !.transactions = <<>>,
                       !.recoverResponses = <<>>, !.verifiedJust = NoJustPara]

LiveState ==
    <<[n \in PID |-> LiveNode(n)], pauses,
      IF MaxEarly < Total * MaxViews THEN early ELSE 0, node = node>>

-----------------------------------------------------------------------------
(* A part of the behaviours of three replicas, in which messages of every  *)
(* view from or to one of them are late: of the first view to and from the *)
(* next leader, of a later view to and from the leader before.             *)
Late(v) == IF v = 0 THEN getLeaderOf(1) ELSE getLeaderOf(v - 1)

InTime(p, n) ==
    LET v == LastView(node[p].out[n][Upcoming(p, n)])
    IN  v <= node[n].view /\ Late(v) \notin {p, n}

CanDeliverInTime(p, n) == CanReceive(p, n) /\ InTime(p, n)

(* A timer runs out when nothing is left to arrive in time and nobody is   *)
(* behind.                                                                 *)
LateNext ==
    \E n \in PID :
        \/ Start(n)
        \/ HandleTransaction(n)
        \/ StartNewViewPara(n)
        \/ \E p \in PID : CanDeliverInTime(p, n) /\ Deliver(p, n)
        \/ /\ \A q \in PID : node[q].view >= node[n].view
           /\ \A p, q \in PID : ~CanDeliverInTime(p, q)
           /\ Timeout(n)

LateSpec == Init /\ [][LateNext]_vars
=============================================================================
