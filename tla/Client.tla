------------------------------- MODULE Client -------------------------------
(***************************************************************************)
(* The client (Client.cpp).  Three threads share the map of transactions   *)
(* and the handle of the sending thread without a lock: the event loop     *)
(* (main), which handles replies; send_thread, which deals transactions    *)
(* out to the replicas; and timeout_thread, which gives up after 15 s      *)
(* without a reply.  The two others end the run by joining send_thread     *)
(* and stopping the event loop.                                            *)
(*                                                                         *)
(* The replicas are an environment here: each may reply to a transaction   *)
(* that was sent, at any time and once (RepliedOnce of the replicas).      *)
(***************************************************************************)
EXTENDS Protocol

CONSTANTS
    NumInstances, \* numInstances, the number of transactions
    SkipFirst,    \* skipFirst: begin with the second connection
    FindMisses    \* what a lookup in the map may do while send_thread inserts
                  \* into it, a data race: whether it misses what it looks for

ASSUME ClientAssumption ==
    /\ NumInstances \in Nat /\ SkipFirst \in BOOLEAN
    /\ FindMisses \subseteq BOOLEAN /\ FALSE \in FindMisses

VARIABLES
    skipFirst,    \* still to skip the first connection
    transid,      \* the next transaction to send
    at,           \* the connection that send_thread has reached
    inserting,    \* send_thread is inside addNewTransaction
    sent,         \* the replica that each transaction was sent to
    transactions, \* number of replies of each transaction
    execTrans,    \* transactions with replies of a quorum
    replies,      \* replies of the replicas, pairs of a replica and a transaction
    handled,      \* the replies that handle_reply was called for (history)
    raced,        \* transactions that handle_reply has looked up while
                  \* send_thread was inserting into the map (history)
    idle,         \* 15 s have passed since the last reply
    joined,       \* a call of send_thread.join() has returned
    stop,         \* ec.stop() was called
    loop,         \* the event loop: "dispatch", "join" (in handle_reply), or
                  \* "end", with which the process ends
    checker       \* timeout_checker: "sleep", "join", "stop", "end"

sending  == <<skipFirst, transid, at, inserting, sent>>
counting == <<transactions, execTrans, replies, handled, raced>>
ending   == <<joined, stop, loop, checker>>
vars == <<sending, counting, idle, ending>>

TIDs == 1 .. NumInstances

Init ==
    /\ skipFirst = SkipFirst /\ transid = 1 /\ at = 0
    /\ inserting = FALSE /\ sent = <<>>
    /\ transactions = <<>> /\ execTrans = {} /\ replies = {}
    /\ handled = {} /\ raced = {}
    /\ idle = FALSE
    /\ joined = FALSE /\ stop = FALSE
    /\ loop = "dispatch" /\ checker = "sleep"

-----------------------------------------------------------------------------
(* send_thread.                                                            *)

Running == loop # "end"
SendingDone == transid > NumInstances

Advance == at' = (at + 1) % Total

mutant_Skip_stays ==
    /\ Running /\ ~SendingDone /\ skipFirst
    /\ skipFirst' = FALSE
    /\ UNCHANGED <<transid, at, inserting, sent, counting, idle, ending>>

(* `if (skipFirst) { skipFirst = false; }'                                 *)
Skip ==
    /\ Running /\ ~SendingDone /\ skipFirst
    /\ skipFirst' = FALSE /\ Advance
    /\ UNCHANGED <<transid, inserting, sent, counting, idle, ending>>

BeginInsert ==
    /\ Running /\ ~SendingDone /\ ~skipFirst /\ ~inserting
    /\ inserting' = TRUE
    /\ UNCHANGED <<skipFirst, transid, at, sent, counting, idle, ending>>

mutant_addNewTransaction_counted(t) ==
    transactions' = [k \in DOMAIN transactions \cup {t} |->
                        IF k = t THEN 1 ELSE transactions[k]]

addNewTransaction(t) ==
    transactions' = [k \in DOMAIN transactions \cup {t} |->
                        IF k = t THEN 0 ELSE transactions[k]]

(* mkTransaction adds the transaction before it is sent.                   *)
Send ==
    /\ Running /\ inserting
    /\ addNewTransaction(transid)
    /\ sent' = Append(sent, at)
    /\ inserting' = FALSE /\ transid' = transid + 1 /\ Advance
    /\ UNCHANGED <<skipFirst, execTrans, replies, handled, raced, idle, ending>>

-----------------------------------------------------------------------------
(* The replicas.                                                           *)

Reply(n, t) ==
    /\ Running /\ t \in DOMAIN sent /\ <<n, t>> \notin replies
    /\ replies' = replies \cup {<<n, t>>}
    /\ UNCHANGED <<sending, transactions, execTrans, handled, raced, idle, ending>>

-----------------------------------------------------------------------------
(* Joining send_thread.  To join it again is an exception, which ends the  *)
(* process; if two threads wait for it at the same time, the second may    *)
(* return as well.                                                         *)

AfterSecondJoin(normally) == IF joined THEN {normally, "end"} ELSE {normally}

-----------------------------------------------------------------------------
(* The event loop.                                                         *)

Misses == IF inserting THEN FindMisses ELSE {FALSE}

updTransaction(t, missed) == IF missed THEN 0 ELSE transactions[t] + 1

mutant_executed_more(t, numReplies, missed) ==
    IF numReplies > QSize /\ ~missed THEN execTrans \cup {t} ELSE execTrans

(* execTrans after reply number numReplies; executed looks t up once more. *)
executed(t, numReplies, missed) ==
    IF numReplies = QSize /\ ~missed THEN execTrans \cup {t} ELSE execTrans

(* Counts a reply.                                                         *)
Count(t) ==
    \E missed, missedAgain \in Misses :
        LET numReplies == updTransaction(t, missed)
        IN  /\ transactions' = IF missed THEN transactions
                               ELSE [transactions EXCEPT ![t] = numReplies]
            /\ execTrans' = executed(t, numReplies, missedAgain)

HandleReply(n, t) ==
    /\ loop = "dispatch" /\ ~stop
    /\ <<n, t>> \in replies \ handled
    /\ handled' = handled \cup {<<n, t>>}
    /\ IF t \in execTrans THEN UNCHANGED <<transactions, execTrans>> ELSE Count(t)
    /\ raced' = IF inserting /\ t \notin execTrans THEN raced \cup {t} ELSE raced
    /\ IF execTrans' # execTrans /\ execTrans' = TIDs
       THEN /\ loop' = IF joined THEN "end" ELSE "join"
            /\ UNCHANGED idle
       ELSE /\ idle' = FALSE
            /\ UNCHANGED loop
    /\ UNCHANGED <<sending, replies, joined, stop, checker>>

(* handle_reply stops the loop.                                            *)
LoopJoined ==
    /\ loop = "join" /\ SendingDone
    /\ joined' = TRUE /\ stop' = TRUE /\ idle' = FALSE
    /\ loop' \in AfterSecondJoin("dispatch")
    /\ UNCHANGED <<sending, counting, checker>>

Sigterm ==
    /\ loop = "dispatch" /\ ~stop
    /\ stop' = TRUE
    /\ UNCHANGED <<sending, counting, idle, joined, loop, checker>>

(* main returns, which ends all threads.                                   *)
Return ==
    /\ loop = "dispatch" /\ stop
    /\ loop' = "end"
    /\ UNCHANGED <<sending, counting, idle, joined, stop, checker>>

-----------------------------------------------------------------------------
(* timeout_thread.                                                         *)

TimePasses ==
    /\ Running /\ ~idle
    /\ idle' = TRUE
    /\ UNCHANGED <<sending, counting, ending>>

mutant_elapsed_since_first == idle /\ handled # {}

elapsed == idle

GiveUp ==
    /\ Running /\ checker = "sleep" /\ elapsed
    /\ IF joined THEN loop' = "end" /\ UNCHANGED checker
       ELSE checker' = "join" /\ UNCHANGED loop
    /\ UNCHANGED <<sending, counting, idle, joined, stop>>

CheckerJoined ==
    /\ Running /\ checker = "join" /\ SendingDone
    /\ joined' = TRUE /\ checker' = "stop"
    /\ loop' \in AfterSecondJoin(loop)
    /\ UNCHANGED <<sending, counting, idle, stop>>

CheckerStops ==
    /\ Running /\ checker = "stop"
    /\ stop' = TRUE /\ checker' = "end"
    /\ UNCHANGED <<sending, counting, idle, joined, loop>>

-----------------------------------------------------------------------------
SendThread == Skip \/ BeginInsert \/ Send
Loop == LoopJoined \/ Return \/ \E n \in PID, t \in TIDs : HandleReply(n, t)
TimeoutThread == GiveUp \/ CheckerJoined \/ CheckerStops

Next ==
    \/ Skip \/ BeginInsert \/ Send
    \/ \E n \in PID, t \in TIDs : Reply(n, t) \/ HandleReply(n, t)
    \/ LoopJoined \/ Sigterm \/ Return
    \/ TimePasses \/ GiveUp \/ CheckerJoined \/ CheckerStops

Spec == Init /\ [][Next]_vars

(* The threads run and time passes; the replicas need not reply.           *)
FairSpec ==
    /\ Spec
    /\ WF_vars(SendThread) /\ WF_vars(Loop) /\ WF_vars(TimeoutThread)
    /\ WF_vars(TimePasses)

-----------------------------------------------------------------------------
(* Properties.                                                             *)

Repliers(t) == {n \in PID : <<n, t>> \in handled}

(* What counts as executed has replies of a quorum of different replicas,  *)
(* although handle_reply counts replies without asking who replied.        *)
CompletedByQuorum == \A t \in execTrans : Cardinality(Repliers(t)) >= QSize

(* The loops of send_transactions deal the transactions out in turn, each  *)
(* to one replica, beginning with the leader of the first view: what the   *)
(* modules of the replicas take for granted (Replica!fromClientTo).        *)
DealtInTurn ==
    \A t \in DOMAIN sent :
        sent[t] = (t - 1 + (IF SkipFirst THEN 1 ELSE 0)) % Total

(* "Once we have received all the replies we want, we stop": a transaction *)
(* counts as executed with the replies of a quorum, and with the last one  *)
(* the event loop stops, unless handle_reply has looked the transaction up *)
(* while send_thread was inserting another: such a lookup may miss, which  *)
(* loses the reply, and in `executed' the transaction.                     *)
StopsUnlessRaced ==
    /\ \A t \in TIDs \ raced : Cardinality(Repliers(t)) >= QSize => t \in execTrans
    /\ NumInstances > 0 /\ execTrans = TIDs => loop # "dispatch" \/ stop

(* The client ends, whether or not the replicas reply, even if both of its *)
(* threads try to end it.                                                  *)
Ends == <>(loop = "end")
=============================================================================
