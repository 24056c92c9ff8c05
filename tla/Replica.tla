------------------------------ MODULE Replica -------------------------------
(***************************************************************************)
(* What the replicas of the three protocols share (class Handler): their   *)
(* connections, the client's messages, the transaction queue, the timer    *)
(* and pausing.                                                            *)
(*                                                                         *)
(* node[n] is the whole state of replica n.  The functions of the Handler  *)
(* are operators from such a record to the record after the call, so that  *)
(* an action is one handler from its first line to its last, with every    *)
(* call it makes.  node[n].out[m] is the connection from n to m: TCP,      *)
(* reliable and in order (external: Salticidae).  Every protocol adds the  *)
(* fields of its own.                                                      *)
(*                                                                         *)
(* Handlers call each other, and some call chains come back to where they  *)
(* began.  Such a chain is cut at a call that is the last thing its caller *)
(* does: the caller notes the call in `pending', and nothing else happens  *)
(* before it is taken up.                                                  *)
(***************************************************************************)
EXTENDS Log, SequencesExt

CONSTANTS
    MaxViews,        \* Handler::maxViews, the number of views to run
    NumInstances,    \* number of transactions the client sends
    MaxTransactions, \* MAX_NUM_TRANSACTIONS, the capacity of a block
    MaxPauses,       \* bound: how often a replica may be paused in total
    MaxEarly,        \* bound: how often a timer may run out although
                     \* messages are on their way
    EarlyAndPauses,  \* bound: whether that may happen in a behaviour in
                     \* which a replica is paused as well
    PromptClient     \* peers' messages arrive only after all of the client's

ASSUME ReplicaAssumption ==
    /\ MaxViews \in Nat \ {0} /\ MaxTransactions \in Nat \ {0}
    /\ NumInstances \in Nat /\ MaxPauses \in Nat /\ MaxEarly \in Nat
    /\ PromptClient \in BOOLEAN /\ EarlyAndPauses \in BOOLEAN

VARIABLES
    node,     \* the replicas
    pauses,   \* pauses so far
    early     \* early time-outs so far
vars == <<node, pauses, early>>

-----------------------------------------------------------------------------
(* The state of a replica when it is constructed, the fields of its        *)
(* protocol left aside.  fromClient is the client's connection: after      *)
(* MsgStart the client sends transaction t to replica                      *)
(* (t - 1 + offset) % Total, so that replica n gets every Total-th.        *)

fromClientTo(n, offset) ==
    LET least == 1 + ((n - offset) % Total)
    IN  [k \in 1 .. (NumInstances + Total - least) \div Total |->
            least + (k - 1) * Total]

ReplicaInit(n, offset) ==
    [myid |-> n, view |-> 0, transactions |-> <<>>, started |-> FALSE,
     isPaused |-> FALSE, stopped |-> FALSE, timer |-> FALSE,
     pending |-> "none", fromClient |-> fromClientTo(n, offset),
     executed |-> <<>>, replied |-> <<>>, out |-> [m \in PID |-> <<>>]]

(* A record with the fields of s and further ones.                         *)
withFields(s, fields) ==
    [k \in DOMAIN s \cup DOMAIN fields |->
        IF k \in DOMAIN fields THEN fields[k] ELSE s[k]]

-----------------------------------------------------------------------------
(* Peers, leaders and the timer.                                           *)

(* multicast_msg: append to the connections to the recipients.             *)
send(s, recipients, m) ==
    [s EXCEPT !.out = [d \in PID |-> IF d \in recipients
                                     THEN Append(s.out[d], m)
                                     ELSE s.out[d]]]

remove_from_peers(s)  == PID \ {s.myid}
keep_from_peers(s, p) == {p} \ {s.myid}
currentLeader(s)      == keep_from_peers(s, getLeaderOf(s.view))
amLeaderOf(s, v)      == s.myid = getLeaderOf(v)
amCurrentLeader(s)    == amLeaderOf(s, s.view)

mutant_timeToStop_late(s) == MaxViews < s.view + 1

timeToStop(s) == MaxViews <= s.view + 1
setTimer(s)   == [s EXCEPT !.timer = TRUE]

-----------------------------------------------------------------------------
(* Transactions.                                                           *)

(* The queued transactions that the next block takes.                      *)
BlockSize(s)  == Min({Len(s.transactions), MaxTransactions})
NextTrans(s)  == SubSeq(s.transactions, 1, BlockSize(s))

mutant_popTransactions_kept(s) == s

popTransactions(s) ==
    [s EXCEPT !.transactions = SubSeq(@, BlockSize(s) + 1, Len(@))]

(* Replies go to the clients that are known, that is after MsgStart.       *)
replyTransactions(s, trans) ==
    IF s.started THEN [s EXCEPT !.replied = @ \o trans] ELSE s

-----------------------------------------------------------------------------
(* Steps.                                                                  *)

(* Replica n can take up a callback.  Nothing at all happens before a cut  *)
(* tail call is taken up: that call and the steps of other replicas        *)
(* commute, and replica n itself is in the middle of a handler.            *)
Idle(n) == ~node[n].stopped /\ \A q \in PID : node[q].pending = "none"

ClientDone == \A n \in PID : node[n].started /\ node[n].fromClient = <<>>

CanStart(n) == Idle(n) /\ ~node[n].started

(* A transaction of the client, known since its MsgStart; a paused replica *)
(* drops it.                                                               *)
HandleTransaction(n) ==
    /\ Idle(n) /\ node[n].started
    /\ node[n].fromClient # <<>>
    /\ node' = [node EXCEPT
                   ![n].fromClient = Tail(@),
                   ![n].transactions = IF node[n].isPaused THEN @
                                       ELSE Append(@, Head(node[n].fromClient))]
    /\ UNCHANGED <<pauses, early>>

(* A message of a view that its receiver has left for good.  Its handler   *)
(* discards it, now or later, because views only grow; only the handlers   *)
(* of the recovery do not look at the view.                                *)
Outdated(n, m) ==
    /\ m.type \notin {"recover_para", "ldrrecover_para"}
    /\ LastView(m) < node[n].view

(* The position of the next message to handle on a non-empty connection    *)
(* from p to n: outdated messages are discarded together with their        *)
(* successor, because a step that only discards one commutes with every    *)
(* other step.                                                             *)
Upcoming(p, n) ==
    LET q == node[p].out[n]
    IN  Min({Len(q)} \cup {k \in DOMAIN q : ~Outdated(n, q[k])})

CanReceive(p, n) ==
    /\ p # n                            \* no replica is a peer of its own
    /\ Idle(n)
    /\ PromptClient => ClientDone
    /\ node[p].out[n] # <<>>

(* A message from p to n arrives; a paused replica drops it.               *)
Receive(p, n, type, handler(_, _)) ==
    /\ CanReceive(p, n)
    /\ LET k == Upcoming(p, n)
           m == node[p].out[n][k]
       IN  /\ m.type = type
           /\ node' = [node EXCEPT
                          ![p].out[n] = SubSeq(@, k + 1, Len(@)),
                          ![n] = IF @.isPaused THEN @ ELSE handler(@, m)]
    /\ UNCHANGED <<pauses, early>>

(* Nothing that matters is on its way, from a prompt client neither, and   *)
(* no other replica is behind n: what holds when a timer runs out while    *)
(* timers, armed at about the same time, leave enough time for every       *)
(* message.                                                                *)
Quiet(n) ==
    /\ PromptClient => ClientDone
    /\ \A q \in PID :
           \/ node[q].stopped
           \/ /\ \A p \in PID : \A k \in DOMAIN node[p].out[q] :
                    Outdated(q, node[p].out[q][k])
              /\ node[q].isPaused \/ node[q].view >= node[n].view

(* A paused replica only re-arms its timer, unless it is time to stop.     *)
CanTimeout(n) ==
    /\ Idle(n) /\ node[n].timer
    /\ \/ Quiet(n)
       \/ early < MaxEarly /\ (EarlyAndPauses \/ pauses = 0)
    /\ timeToStop(node[n]) \/ ~node[n].isPaused

(* The timer's callback.  It is re-armed after every time-out but the last.*)
TimerExpires(n, startNewViewOnTimeout(_)) ==
    /\ CanTimeout(n)
    /\ node' = [node EXCEPT ![n] =
           IF timeToStop(@) THEN [@ EXCEPT !.stopped = TRUE, !.timer = FALSE]
           ELSE startNewViewOnTimeout(@)]
    /\ early' = IF Quiet(n) THEN early ELSE early + 1
    /\ UNCHANGED pauses

(* SIGUSR1 and SIGUSR2.                                                    *)
Pause(n) ==
    /\ Idle(n) /\ ~node[n].isPaused
    /\ pauses < MaxPauses /\ (EarlyAndPauses \/ early = 0)
    /\ node' = [node EXCEPT ![n].isPaused = TRUE]
    /\ pauses' = pauses + 1
    /\ UNCHANGED early

Resume(n) ==
    /\ Idle(n) /\ node[n].isPaused
    /\ node' = [node EXCEPT ![n].isPaused = FALSE]
    /\ UNCHANGED <<pauses, early>>
=============================================================================
