-------------------------------- MODULE Log --------------------------------
(***************************************************************************)
(* The message log of a replica (class Log), Basic HotStuff part.  A log   *)
(* keeps, for each kind of message and each view, a std::set of messages   *)
(* ordered by their signatures: by their number, then by the signers.  Two *)
(* messages with the same signers are therefore one element of the set.    *)
(* The four maps of votes are treated alike by the code, so the operators  *)
(* below take the map's messages (all views) as a parameter.               *)
(***************************************************************************)
EXTENDS Protocol, FiniteSetsExt

LogInit ==
    [newviews |-> {}, prepares |-> {}, precommits |-> {}, commits |-> {},
     proposals |-> {}]

(* The view under which a message is filed.                                *)
ViewOf(m) ==
    CASE m.type \in {"ldrprepare", "ldrprepare_para"} -> m.just.rdata.propv
      [] m.type = "ldrprepare_ch"                     -> m.block.view
      [] OTHER                                        -> m.rdata.propv

(* The last view in which a handler looks at a message.                    *)
LastView(m) == IF m.type = "newview_ch" THEN ViewOf(m) + 1 ELSE ViewOf(m)

InView(msgs, v) == {m \in msgs : ViewOf(m) = v}

(* Message::operator<, i.e. Signs::operator<: fewer signatures first, then *)
(* lexicographically by signer (signatures are kept in increasing order of *)
(* signer).                                                                *)
Before(m1, m2) ==
    LET s1 == getSigners(m1.signs)
        s2 == getSigners(m2.signs)
    IN  \/ Cardinality(m1.signs) < Cardinality(m2.signs)
        \/ /\ Cardinality(m1.signs) = Cardinality(m2.signs)
           /\ s1 # s2
           /\ Min(SymDiff(s1, s2)) \in s1

(* msgNewViewFrom, msgPrepareFrom, ...: the messages are signed by all the *)
(* signers.                                                                *)
From(msgs, signers) ==
    \E m \in msgs :
        /\ m.signs # {}
        /\ signers \subseteq UNION {getSigners(k.signs) : k \in msgs}

(* storeNv, storePrep, storePc, storeCom, storeProp: the new contents of   *)
(* the map and the number returned, 0 when the signers were already heard  *)
(* from in that view.                                                      *)
store(msgs, m) ==
    LET here == InView(msgs, ViewOf(m))
        twin == \E k \in here : getSigners(k.signs) = getSigners(m.signs)
        new  == IF twin THEN msgs ELSE msgs \cup {m}
    IN  IF From(here, getSigners(m.signs))
        THEN [msgs |-> msgs, size |-> 0]
        ELSE [msgs |-> new, size |-> Cardinality(InView(new, ViewOf(m)))]

mutant_findHighestNv_last(newviews, v) ==
    LET here == InView(newviews, v)
        m    == CHOOSE m \in here : \A k \in here : ~Before(m, k)
    IN  IF here = {} THEN NoJust ELSE Just(m.rdata, m.signs)

(* findHighestNv: the new-view message of view v with the highest prepared *)
(* view; among several, the last one in the order of the set.              *)
findHighestNv(newviews, v) ==
    LET here    == InView(newviews, v)
        highest == {m \in here : \A k \in here : k.rdata.justv <= m.rdata.justv}
        m       == CHOOSE m \in highest : \A k \in highest : ~Before(m, k)
    IN  IF here = {} THEN NoJust ELSE Just(m.rdata, m.signs)

FirstMsg(here) == CHOOSE m \in here : \A k \in here : ~Before(k, m)

(* firstPrepare, firstPrecommit, firstCommit.                              *)
first(msgs, v) ==
    LET here == InView(msgs, v)
    IN  IF here = {} THEN NoJust
        ELSE Just(FirstMsg(here).rdata, FirstMsg(here).signs)

(* firstProposal: the stored proposals of which the first one is taken, as *)
(* a set of at most one.                                                   *)
firstProposal(proposals, v) ==
    LET here == InView(proposals, v)
    IN  IF here = {} THEN {} ELSE {FirstMsg(here)}

(* getNewView, getPrepare, getPrecommit, getCommit: up to n signatures, in *)
(* the order of the set, whatever data they sign.                          *)
get(msgs, v, n) ==
    LET votes == UNION {{m} \X m.signs : m \in InView(msgs, v)}
        Earlier(p, q) == \/ Before(p[1], q[1])
                         \/ p[1] = q[1] /\ p[2].signer < q[2].signer
    IN  {p[2] : p \in {p \in votes :
                           Cardinality({q \in votes : Earlier(q, p)}) < n}}
=============================================================================
