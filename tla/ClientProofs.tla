---------------------------- MODULE ClientProofs ----------------------------
(***************************************************************************)
(* Theorems about the client, for every number of replicas and of          *)
(* transactions and however its threads interleave: what it counts, how it *)
(* deals out transactions, and when it stops.                              *)
(***************************************************************************)
EXTENDS Client, ProtocolProofs

(* What send_thread has sent is what it has added to the map.              *)
Added ==
    /\ transid \in Nat \ {0} /\ at \in Nat
    /\ sent \in Seq(Nat) /\ Len(sent) = transid - 1
    /\ DOMAIN transactions = 1 .. transid - 1
    /\ inserting => transid <= NumInstances
    /\ \A n, t : <<n, t>> \in replies => n \in PID /\ t \in 1 .. transid - 1

(* The count of a transaction is at most the number of its repliers.       *)
Counted ==
    \A t \in DOMAIN transactions :
        /\ transactions[t] \in Nat
        /\ transactions[t] <= Cardinality(Repliers(t))

(* CompletedByQuorum is not inductive: the reply that completes a quorum   *)
(* relies on the count of the replies before it.                           *)
IInv == Added /\ Counted /\ CompletedByQuorum

-----------------------------------------------------------------------------
(* The repliers of a transaction are finitely many.                        *)
LEMMA RepliersFinite ==
    \A t : IsFiniteSet(Repliers(t)) /\ Cardinality(Repliers(t)) \in Nat
<1>1. IsFiniteSet(PID)
      BY ReplicasFinite
<1>2. ASSUME NEW t
      PROVE  IsFiniteSet(Repliers(t)) /\ Cardinality(Repliers(t)) \in Nat
      BY <1>1, FS_Subset, FS_CardinalityType DEF Repliers
<1>3. QED
      BY <1>2

(* Handling a reply adds a replier to its transaction and changes those of *)
(* no other.                                                               *)
LEMMA ReplierAdded ==
    ASSUME NEW n \in PID, NEW t,
           <<n, t>> \notin handled, handled' = handled \cup {<<n, t>>}
    PROVE  /\ Cardinality(Repliers(t)') = Cardinality(Repliers(t)) + 1
           /\ \A u : u # t => Repliers(u)' = Repliers(u)
<1>1. Repliers(t)' = Repliers(t) \cup {n} /\ n \notin Repliers(t)
      BY DEF Repliers
<1>2. Cardinality(Repliers(t)') = Cardinality(Repliers(t)) + 1
      BY <1>1, RepliersFinite, FS_AddElement
<1>3. \A u : u # t => Repliers(u)' = Repliers(u)
      BY DEF Repliers
<1>4. QED
      BY <1>2, <1>3

-----------------------------------------------------------------------------
(* Nothing is counted before the first transaction.                        *)
LEMMA InitInv == Init => IInv
<1>1. Init => Added
      BY ClientAssumption DEF Init, Added
<1>2. Init => Counted /\ CompletedByQuorum
      BY DEF Init, Counted, CompletedByQuorum
<1>3. QED
      BY <1>1, <1>2 DEF IInv

(* A step that leaves the replies and their counts alone, and the sending  *)
(* thread too, keeps the invariant.                                        *)
LEMMA OtherSteps ==
    ASSUME IInv, UNCHANGED <<transid, at, inserting, sent, counting>>
    PROVE  IInv'
<1>1. \A t : Repliers(t)' = Repliers(t)
      BY DEF counting, Repliers
<1>2. Added'
      BY DEF IInv, Added, counting
<1>3. Counted' /\ CompletedByQuorum'
      BY <1>1 DEF IInv, Counted, CompletedByQuorum, counting
<1>4. QED
      BY <1>2, <1>3 DEF IInv

(* Skipping the first connection leaves the counts alone.                  *)
LEMMA SkipInv == IInv /\ Skip => IInv'
<1> SUFFICES ASSUME IInv, Skip PROVE IInv'
    OBVIOUS
<1>1. \A t : Repliers(t)' = Repliers(t)
      BY DEF Skip, counting, Repliers
<1>2. Added'
  <2>1. (at + 1) % Total \in Nat
        BY QuorumSizes DEF IInv, Added
  <2>2. QED
        BY <2>1 DEF IInv, Added, Skip, Advance, counting
<1>3. Counted' /\ CompletedByQuorum'
      BY <1>1 DEF IInv, Counted, CompletedByQuorum, Skip, counting
<1>4. QED
      BY <1>2, <1>3 DEF IInv

(* So does entering addNewTransaction.                                     *)
LEMMA BeginInsertInv == IInv /\ BeginInsert => IInv'
<1> SUFFICES ASSUME IInv, BeginInsert PROVE IInv'
    OBVIOUS
<1>1. \A t : Repliers(t)' = Repliers(t)
      BY DEF BeginInsert, counting, Repliers
<1>2. Added'
      BY ClientAssumption
      DEF IInv, Added, BeginInsert, SendingDone, counting
<1>3. Counted' /\ CompletedByQuorum'
      BY <1>1 DEF IInv, Counted, CompletedByQuorum, BeginInsert, counting
<1>4. QED
      BY <1>2, <1>3 DEF IInv

(* The entry of a new transaction is zero, and no other entry changes.     *)
LEMMA SendInv == IInv /\ Send => IInv'
<1> SUFFICES ASSUME IInv, Send PROVE IInv'
    OBVIOUS
<1>1. \A t : Repliers(t)' = Repliers(t)
      BY DEF Send, Repliers
<1>2. Added'
  <2>1. (at + 1) % Total \in Nat
        BY QuorumSizes DEF IInv, Added
  <2>2. sent' \in Seq(Nat) /\ Len(sent') = transid
        BY DEF IInv, Added, Send
  <2>3. DOMAIN transactions' = 1 .. transid
        BY DEF IInv, Added, Send, addNewTransaction
  <2>4. \A n, t : <<n, t>> \in replies' => n \in PID /\ t \in 1 .. transid
        BY DEF IInv, Added, Send
  <2>5. QED
        BY <2>1, <2>2, <2>3, <2>4 DEF IInv, Added, Send, Advance
<1>3. Counted'
      BY <1>1, RepliersFinite DEF IInv, Counted, Send, addNewTransaction
<1>4. CompletedByQuorum'
      BY <1>1 DEF IInv, CompletedByQuorum, Send
<1>5. QED
      BY <1>2, <1>3, <1>4 DEF IInv

(* A replica replies to a transaction that has been added.                 *)
LEMMA ReplyInv == ASSUME NEW n \in PID, NEW t \in TIDs, IInv, Reply(n, t)
                  PROVE  IInv'
<1>1. \A u : Repliers(u)' = Repliers(u)
      BY DEF Reply, Repliers
<1>2. Added'
  <2>1. t \in 1 .. transid - 1
        BY DEF IInv, Added, Reply
  <2>2. QED
        BY <2>1 DEF IInv, Added, Reply, sending
<1>3. Counted' /\ CompletedByQuorum'
      BY <1>1 DEF IInv, Counted, CompletedByQuorum, Reply
<1>4. QED
      BY <1>2, <1>3 DEF IInv

(* handle_reply counts a reply of a replica that it has not counted        *)
(* before.                                                                 *)
LEMMA HandleReplyInv ==
    ASSUME NEW n \in PID, NEW t \in TIDs, IInv, HandleReply(n, t)
    PROVE  IInv'
<1>1. /\ Cardinality(Repliers(t)') = Cardinality(Repliers(t)) + 1
      /\ \A u : u # t => Repliers(u)' = Repliers(u)
      BY ReplierAdded DEF HandleReply
<1>2. \A u : /\ Cardinality(Repliers(u)') \in Nat
             /\ Cardinality(Repliers(u)') >= Cardinality(Repliers(u))
      BY <1>1, RepliersFinite
<1>3. t \in DOMAIN transactions
      BY DEF IInv, Added, HandleReply
<1>4. CASE t \in execTrans
  <2>1. UNCHANGED <<transactions, execTrans, replies, sending>>
        BY <1>4 DEF HandleReply
  <2>2. Added'
        BY <2>1 DEF IInv, Added, sending
  <2>3. Counted' /\ CompletedByQuorum'
        BY <1>2, <2>1, RepliersFinite, QuorumSizes DEF IInv, Counted, CompletedByQuorum
  <2>4. QED
        BY <2>2, <2>3 DEF IInv
<1>5. CASE t \notin execTrans
  <2>1. PICK missed \in Misses, missedAgain \in Misses :
            /\ transactions' =
                   IF missed THEN transactions
                   ELSE [transactions EXCEPT ![t] = updTransaction(t, missed)]
            /\ execTrans' = executed(t, updTransaction(t, missed), missedAgain)
        BY <1>5 DEF HandleReply, Count
  <2>2. Added'
        BY <2>1 DEF IInv, Added, HandleReply, sending
  <2>3. Counted'
    <3>1. ASSUME NEW u \in DOMAIN transactions'
          PROVE  /\ transactions'[u] \in Nat
                 /\ transactions'[u] <= Cardinality(Repliers(u)')
      <4>1. u \in DOMAIN transactions /\ transactions[u] \in Nat
               /\ transactions[u] <= Cardinality(Repliers(u))
            BY <2>1 DEF IInv, Counted
      <4>2. CASE missed \/ u # t
            BY <1>2, <2>1, <4>1, <4>2, RepliersFinite
      <4>3. CASE ~missed /\ u = t
            BY <1>1, <1>3, <2>1, <4>1, <4>3, RepliersFinite DEF updTransaction
      <4>4. QED
            BY <4>2, <4>3
    <3>2. QED
          BY <3>1 DEF Counted
  <2>4. CompletedByQuorum'
    <3>1. ASSUME NEW u \in execTrans'
          PROVE  Cardinality(Repliers(u)') >= QSize
      <4>1. CASE u \in execTrans
            BY <1>2, <4>1, RepliersFinite, QuorumSizes DEF IInv, CompletedByQuorum
      <4>2. CASE u \notin execTrans
        <5>1. u = t /\ updTransaction(t, missed) = QSize
              BY <2>1, <4>2 DEF executed
        <5>2. ~missed /\ transactions[t] + 1 = QSize
              BY <5>1, QuorumSizes DEF updTransaction
        <5>3. transactions[t] \in Nat
                 /\ transactions[t] <= Cardinality(Repliers(t))
              BY <1>3 DEF IInv, Counted
        <5>4. QED
              BY <1>1, <5>1, <5>2, <5>3, RepliersFinite, QuorumSizes
      <4>3. QED
            BY <4>1, <4>2
    <3>2. QED
          BY <3>1 DEF CompletedByQuorum
  <2>5. QED
        BY <2>2, <2>3, <2>4 DEF IInv
<1>6. QED
      BY <1>4, <1>5

(* The invariant is inductive.                                             *)
LEMMA NextInv == IInv /\ [Next]_vars => IInv'
<1> SUFFICES ASSUME IInv, [Next]_vars PROVE IInv'
    OBVIOUS
<1>1. CASE Skip
      BY <1>1, SkipInv
<1>2. CASE BeginInsert
      BY <1>2, BeginInsertInv
<1>3. CASE Send
      BY <1>3, SendInv
<1>4. ASSUME NEW n \in PID, NEW t \in TIDs, Reply(n, t)
      PROVE  IInv'
      BY <1>4, ReplyInv
<1>5. ASSUME NEW n \in PID, NEW t \in TIDs, HandleReply(n, t)
      PROVE  IInv'
      BY <1>5, HandleReplyInv
<1>6. CASE \/ LoopJoined \/ Sigterm \/ Return \/ TimePasses
           \/ GiveUp \/ CheckerJoined \/ CheckerStops \/ UNCHANGED vars
  <2>1. UNCHANGED <<transid, at, inserting, sent, counting>>
        BY <1>6 DEF LoopJoined, Sigterm, Return, TimePasses, GiveUp,
                    CheckerJoined, CheckerStops, vars, sending
  <2>2. QED
        BY <2>1, OtherSteps
<1>7. QED
      BY <1>1, <1>2, <1>3, <1>4, <1>5, <1>6 DEF Next

(* What the client counts as executed has replies of a quorum of different *)
(* replicas: handle_reply compares a number of replies with qsize, without *)
(* asking who replied, while send_thread adds entries to the same map.     *)
THEOREM ExecutedByQuorum == Spec => []CompletedByQuorum
<1>1. IInv => CompletedByQuorum
      BY DEF IInv
<1>2. QED
      BY InitInv, NextInv, <1>1, PTL DEF Spec

-----------------------------------------------------------------------------
(* Dealing out.                                                            *)

Skipped == IF SkipFirst /\ ~skipFirst THEN 1 ELSE 0

(* Where send_thread is among the connections.                             *)
InTurn ==
    /\ skipFirst \in BOOLEAN
    /\ skipFirst => SkipFirst /\ ~inserting
    /\ at = (transid - 1 + Skipped) % Total

Dealing == Added /\ InTurn /\ DealtInTurn

(* send_thread starts at the first connection.                             *)
LEMMA InitDealing == Init => Dealing
<1> SUFFICES ASSUME Init PROVE Dealing
    OBVIOUS
<1>1. Added
      BY InitInv DEF IInv
<1>2. InTurn
      BY ClientAssumption, QuorumSizes DEF Init, InTurn, Skipped
<1>3. DealtInTurn
      BY DEF Init, DealtInTurn
<1>4. QED
      BY <1>1, <1>2, <1>3 DEF Dealing

(* Only the loops of send_transactions move on.                            *)
LEMMA NextDealing == IInv /\ Dealing /\ [Next]_vars => Dealing'
<1> SUFFICES ASSUME IInv, Dealing, [Next]_vars PROVE Dealing'
    OBVIOUS
<1>1. Added'
      BY NextInv DEF IInv
<1>2. CASE Skip
  <2>1. Skipped = 0 /\ Skipped' = 1 /\ at = (transid - 1) % Total
        BY <1>2 DEF Skip, Skipped, Dealing, InTurn, Added
  <2>2. (at + 1) % Total = transid % Total
    <3>1. transid - 1 \in Nat /\ (transid - 1) + 1 = transid
          BY DEF Dealing, Added
    <3>2. at + 1 = ((transid - 1) % Total) + 1
          BY <2>1
    <3>3. QED
          BY <3>1, <3>2, QuorumSizes, NextRemainder
  <2>3. InTurn'
    <3>1. transid' - 1 + Skipped' = transid /\ at' = transid % Total
          BY <1>2, <2>1, <2>2 DEF Dealing, Added, Skip, Advance
    <3>2. QED
          BY <1>2, <3>1 DEF Dealing, InTurn, Skip
  <2>4. DealtInTurn'
        BY <1>2 DEF Dealing, DealtInTurn, Skip
  <2>5. QED
        BY <1>1, <2>3, <2>4 DEF Dealing
<1>3. CASE BeginInsert
  <2>1. InTurn'
        BY <1>3 DEF Dealing, InTurn, Skipped, BeginInsert
  <2>2. DealtInTurn'
        BY <1>3 DEF Dealing, DealtInTurn, BeginInsert
  <2>3. QED
        BY <1>1, <2>1, <2>2 DEF Dealing
<1>4. CASE Send
  <2> DEFINE first == IF SkipFirst THEN 1 ELSE 0
  <2>1. /\ ~skipFirst /\ ~skipFirst' /\ Skipped = first /\ Skipped' = first
        /\ at = (transid - 1 + first) % Total
        /\ transid \in Nat \ {0} /\ first \in {0, 1}
        BY <1>4 DEF Dealing, InTurn, Added, Send, Skipped
  <2> HIDE DEF first
  <2>2. (at + 1) % Total = (transid + first) % Total
    <3>1. transid - 1 + first \in Nat
          BY <2>1
    <3>2. ((transid - 1 + first) % Total) + 1 = at + 1
             /\ (transid - 1 + first) + 1 = transid + first
          BY <2>1
    <3>3. QED
          BY <3>1, <3>2, QuorumSizes, NextRemainder
  <2>3. InTurn'
    <3>1. transid' - 1 + Skipped' = transid + first /\ at' = (transid + first) % Total
          BY <1>4, <2>1, <2>2 DEF Send, Advance
    <3>2. QED
          BY <1>4, <2>1, <3>1 DEF Dealing, InTurn, Send
  <2>4. DealtInTurn'
    <3>1. /\ sent \in Seq(Nat) /\ Len(sent) = transid - 1 /\ at \in Nat
          BY DEF Dealing, Added
    <3>2. /\ DOMAIN sent' = 1 .. transid
          /\ \A t \in 1 .. transid - 1 : t \in DOMAIN sent /\ sent'[t] = sent[t]
          /\ sent'[transid] = at
          BY <1>4, <2>1, <3>1 DEF Send
    <3>3. \A t \in DOMAIN sent : sent[t] = (t - 1 + first) % Total
          BY DEF Dealing, DealtInTurn, first
    <3>4. \A t \in DOMAIN sent' : sent'[t] = (t - 1 + first) % Total
          BY <2>1, <3>2, <3>3
    <3>5. QED
          BY <3>4 DEF DealtInTurn, first
  <2>5. QED
        BY <1>1, <2>3, <2>4 DEF Dealing
<1>5. CASE UNCHANGED sending
      BY <1>1, <1>5 DEF Dealing, InTurn, Skipped, DealtInTurn, sending
<1>6. QED
      BY <1>2, <1>3, <1>4, <1>5
      DEF Next, Reply, HandleReply, LoopJoined, Sigterm, Return, TimePasses,
          GiveUp, CheckerJoined, CheckerStops, vars

(* The loops of send_transactions deal the transactions out in turn,       *)
(* beginning with the first leader, whichever connection is skipped.       *)
THEOREM InTurnFromFirstLeader == Spec => []DealtInTurn
<1>1. Dealing => DealtInTurn
      BY DEF Dealing
<1>2. QED
      BY InitInv, NextInv, InitDealing, NextDealing, <1>1, PTL DEF Spec

-----------------------------------------------------------------------------
(* Stopping.                                                               *)

(* If no lookup of it has raced, the count of a transaction is the number  *)
(* of its repliers until that is a quorum, and when all transactions count *)
(* as executed the loop has been stopped or is joining send_thread.        *)
Exact ==
    /\ handled \subseteq replies /\ execTrans \subseteq TIDs
    /\ \A t \in DOMAIN transactions \ (execTrans \cup raced) :
          /\ transactions[t] = Cardinality(Repliers(t))
          /\ transactions[t] < QSize
    /\ NumInstances > 0 /\ execTrans = TIDs => loop # "dispatch" \/ stop

(* No transaction, no reply.                                               *)
LEMMA InitExact == Init => Exact
BY ClientAssumption DEF Init, Exact, TIDs

(* The count of a new transaction is zero, and so are its repliers.        *)
LEMMA SendExact == IInv /\ Exact /\ Send => Exact'
<1> SUFFICES ASSUME IInv, Exact, Send PROVE Exact'
    OBVIOUS
<1>1. \A t : Repliers(t)' = Repliers(t)
      BY DEF Send, Repliers
<1>2. Repliers(transid) = {}
      BY DEF IInv, Added, Exact, Repliers
<1>3. Cardinality(Repliers(transid)) = 0
      BY <1>2, FS_EmptySet
<1>4. ASSUME NEW t \in DOMAIN transactions' \ (execTrans' \cup raced')
      PROVE  transactions'[t] = Cardinality(Repliers(t)') /\ transactions'[t] < QSize
  <2>1. CASE t = transid
        BY <1>1, <1>3, <2>1, QuorumSizes DEF Send, addNewTransaction
  <2>2. CASE t # transid
        BY <1>1, <1>4, <2>2 DEF Send, addNewTransaction, Exact
  <2>3. QED
        BY <2>1, <2>2
<1>5. QED
      BY <1>4 DEF Exact, Send, ending

(* A reply is counted unless its transaction is raced for, and the one     *)
(* that makes the quorum of the last transaction stops the loop.           *)
LEMMA HandleReplyExact ==
    ASSUME IInv, Exact,
           NEW n \in PID, NEW t \in TIDs, HandleReply(n, t)
    PROVE  Exact'
<1>1. /\ Cardinality(Repliers(t)') = Cardinality(Repliers(t)) + 1
      /\ \A u : u # t => Repliers(u)' = Repliers(u)
      BY ReplierAdded DEF HandleReply
<1>2. t \in DOMAIN transactions /\ handled' \subseteq replies'
      BY DEF IInv, Added, Exact, HandleReply
<1>3. CASE t \in execTrans
  <2>1. transactions' = transactions /\ execTrans' = execTrans /\ raced' = raced
        BY <1>3 DEF HandleReply
  <2>2. loop = "dispatch" /\ ~stop
        BY DEF HandleReply
  <2>3. QED
        BY <1>1, <1>2, <1>3, <2>1, <2>2 DEF Exact
<1>4. CASE t \notin execTrans
  <2>1. PICK missed \in Misses, missedAgain \in Misses :
            /\ transactions' =
                   IF missed THEN transactions
                   ELSE [transactions EXCEPT ![t] = updTransaction(t, missed)]
            /\ execTrans' = executed(t, updTransaction(t, missed), missedAgain)
        BY <1>4 DEF HandleReply, Count
  <2>2. /\ execTrans' \subseteq execTrans \cup {t} /\ execTrans \subseteq execTrans'
        /\ DOMAIN transactions' = DOMAIN transactions
        /\ \A u \in DOMAIN transactions : u # t => transactions'[u] = transactions[u]
        BY <2>1 DEF executed
  <2>3. raced' = IF inserting THEN raced \cup {t} ELSE raced
        BY <1>4 DEF HandleReply
  <2>4. ASSUME NEW u \in DOMAIN transactions' \ (execTrans' \cup raced')
        PROVE  transactions'[u] = Cardinality(Repliers(u)') /\ transactions'[u] < QSize
    <3>1. CASE u = t
      <4>1. ~inserting /\ t \notin raced
            BY <2>3, <2>4, <3>1
      <4>2. missed = FALSE /\ missedAgain = FALSE
            BY <4>1 DEF Misses
      <4>3. /\ transactions[t] = Cardinality(Repliers(t)) /\ transactions[t] < QSize
            /\ transactions[t] \in Nat
            BY <1>2, <1>4, <4>1 DEF IInv, Counted, Exact
      <4>4. transactions'[t] = transactions[t] + 1
            BY <1>2, <2>1, <4>2 DEF updTransaction
      <4>5. transactions[t] + 1 # QSize
            BY <2>1, <2>4, <3>1, <4>2 DEF updTransaction, executed
      <4>6. QED
            BY <1>1, <3>1, <4>3, <4>4, <4>5, QuorumSizes
    <3>2. CASE u # t
          BY <1>1, <2>2, <2>3, <2>4, <3>2 DEF Exact
    <3>3. QED
          BY <3>1, <3>2
  <2>5. NumInstances > 0 /\ execTrans' = TIDs => loop' # "dispatch" \/ stop'
        BY <1>4 DEF HandleReply, Exact
  <2>6. execTrans' \subseteq TIDs
        BY <2>2 DEF Exact
  <2>7. QED
        BY <1>2, <2>4, <2>5, <2>6 DEF Exact
<1>5. QED
      BY <1>3, <1>4

(* The counts of transactions that are not raced for stay exact.           *)
LEMMA NextExact == IInv /\ Exact /\ [Next]_vars => Exact'
<1> SUFFICES ASSUME IInv, Exact, [Next]_vars PROVE Exact'
    OBVIOUS
<1>1. CASE Send
      BY <1>1, SendExact
<1>2. ASSUME NEW n \in PID, NEW t \in TIDs, HandleReply(n, t) PROVE Exact'
      BY <1>2, HandleReplyExact
<1>3. ASSUME UNCHANGED <<transactions, execTrans, handled, raced>>,
             replies \subseteq replies', stop => stop',
             loop' = "dispatch" => loop = "dispatch" \/ stop'
      PROVE  Exact'
      BY <1>3 DEF Exact, Repliers
<1>4. ASSUME NEW n \in PID, NEW t \in TIDs, Reply(n, t) PROVE Exact'
      BY <1>3, <1>4 DEF Reply, ending
<1>5. CASE Skip \/ BeginInsert
      BY <1>3, <1>5 DEF Skip, BeginInsert, counting, ending
<1>6. CASE LoopJoined \/ Sigterm \/ Return \/ TimePasses
      BY <1>3, <1>6 DEF LoopJoined, Sigterm, Return, TimePasses, counting, ending
<1>7. CASE GiveUp \/ CheckerJoined \/ CheckerStops \/ UNCHANGED vars
      BY <1>3, <1>7 DEF GiveUp, CheckerJoined, CheckerStops, AfterSecondJoin,
                        vars, counting, ending
<1>8. QED
      BY <1>1, <1>2, <1>4, <1>5, <1>6, <1>7 DEF Next

(* A transaction with repliers has been added, and counted as executed     *)
(* with a quorum of them.                                                  *)
LEMMA ExactStops == IInv /\ Exact => StopsUnlessRaced
<1> SUFFICES ASSUME IInv, Exact, NEW t \in TIDs \ raced,
                    Cardinality(Repliers(t)) >= QSize
             PROVE  t \in execTrans
    BY DEF StopsUnlessRaced, Exact
<1>1. Repliers(t) # {}
      BY FS_EmptySet, QuorumSizes
<1>2. t \in DOMAIN transactions
      BY <1>1 DEF IInv, Added, Exact, Repliers
<1>3. QED
      BY <1>2, QuorumSizes, RepliersFinite DEF Exact

(* "Once we have received all the replies we want, we stop", whatever      *)
(* lookups miss: only transactions that handle_reply has looked up while   *)
(* send_thread was inserting into the map can be waited for in vain.       *)
THEOREM RepliesLostInRacesOnly == Spec => []StopsUnlessRaced
BY InitInv, NextInv, InitExact, NextExact, ExactStops, PTL DEF Spec
=============================================================================
