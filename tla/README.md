# A TLA+ model of para-hotstuff

The repository implements three variants of HotStuff in one replica program, chosen at
compile time: *Basic* (`BASIC_BASELINE`), *Chained* (`CHAINED_BASELINE`) and *Parallel*
(`PARALLEL_HOTSTUFF`, several blocks per view and a recovery sub-protocol).  Each variant
relies on a small trusted component that holds a monotonic counter.  A client program sends
transactions and counts replies.  This directory holds TLA+ modules translated from the
source, the TLC configurations that check them, and TLAPS proofs.

## Inventory

| component | state | operations | interacts with |
|---|---|---|---|
| Basic replica (`Handler.cpp` 57-1007) | view, log, blocks per view, transaction queue, timer, paused and started flags | handlers of five peer messages, `MsgStart`, transactions, timer, signals | trusted component (calls), log (calls), peers (messages), client |
| `TrustedFun` | (view, phase) counter, prepared and locked block | `TEEsign`, `TEEprepare`, `TEEstore` | called by its replica only |
| Chained replica (`Handler.cpp` 1014-1405), `JBlock` | view, a block per view with an executed flag, the latest certificate | new-view, leader prepare, prepare, start, timer | as Basic |
| `TrustedCh` | counter, prepared and locked block | `TEEsign`, `TEEprepare` | called by its replica only |
| Parallel replica (`Handler.cpp` 1410-2431), `PBlock` | view, slots of blocks per view, verified justification, answers to recoveries, last executed number | new-view, verify, recover, leader recover, leader prepare, prepare, pre-commit, commit, start, timer | as Basic |
| `TrustedPara`, `RDataPara` | view and phase, a phase per block, precommitted blocks, prepared block, locked prefix | `TEEsign`, `TEEverifyLeaderQC`, `TEEprepare`, `TEEstore`, `changeView` | called by its replica only |
| `Log` | for each kind of message a map from views (and block numbers) to sets of messages | `store*`, `get*`, `first*`, `findHighest*` | called by its replica |
| protocol data (`Hash`, `Block`, `RData`, `Sign(s)`, `Just`, `Proposal`, `Message.h`) | - | hashing, signing, verification, order of messages | everything |
| `Client` | transactions sent, replies counted, transactions executed, three threads | start, send, handle a reply, reply timeout, stop | replicas |
| `Server`, `Nodes`, `NodeInfo`, `KeysFun` | configuration, keys | start-up | I/O only |
| `Stats`, experiment scripts | timings | - | nothing reads them back |
| Salticidae (external) | connections, event loops | deliver, time out | replicas and client |

**Hard behaviours.**  Messages of different senders interleave and messages of a later view
arrive before the view is entered (the log keeps them and `handleEarlierMessages` looks for
them).  Timers race with certificates in flight.  A paused replica (SIGUSR1) drops what it
receives.  Peers' messages may precede the client's `MsgStart`.  Certificates are assembled
from whatever votes are in the log.  The trusted component must stay in step with its
replica although phases are skipped.  Chained: a block is executed when three more are
built on it, and views fail in between.  Parallel: the blocks of a view are certified in any
order and executed in one; a leader may have to recover blocks; a replica follows a VERIFY
message into its view.  Client: three threads share state without a lock.
`PROJECT.json` lists these as hazards, each at its line.

**What makes each part correct.**  Trusted components: they never sign twice for one
(view, phase), never go back, lock only what is certified.  Log: a signer counts once,
the leader extends the highest prepared block.  Replicas: no two replicas execute conflicting
blocks; what is executed stays locked or prepared by a quorum; counted votes agree; execution
follows the chain without gaps; nothing is replied twice; views are executed when the network
is fast enough.  Client: a transaction is complete with replies of a quorum, and the client ends.

## Modules

| module | models |
|---|---|
| `Protocol` | replica set, quorums, leaders, phases, hashes, blocks, signed data, justifications |
| `TrustedFun`, `TrustedCh`, `TrustedPara` | the three trusted components with their blocks and data: each call is an operator from the component's state to its new state and the justification returned |
| `MonotonicSigner` | abstract specification: counters that only grow, exactly one statement per value passed |
| `TrustedNodes` | the Basic trusted components of all replicas under *arbitrary* hosts |
| `TrustedNodesProofs` | theorems about `TrustedNodes` |
| `ProtocolProofs`, `ReplicaProofs` | lemmas about quorums, signatures and leaders; about the log, the connections and the transactions of a replica |
| `Log` | the class `Log`, what the three variants share of it |
| `Replica` | what the three variants of `Handler` share: connections, client messages, transaction queue, timer, pausing |
| `BasicHotStuff`, `ChainedHotStuff`, `ParaHotStuff` | the replicas of a variant, their logs and trusted components, composed |
| `Client` | the client's three threads, with the replicas as an environment that may reply |
| `BasicLedger`, `BasicProofs` | why Basic HotStuff agrees: the inductive invariant; what each call and each handler does to it, and the theorems |
| `BasicReplies` | why Basic HotStuff replies once: the inductive invariant, what each handler does to it, and the theorem |
| `ChainedLedger`, `ChainedProofs` | why Chained HotStuff builds, executes and replies as it does, in the same two parts |
| `ParaProofs` | what holds of Parallel HotStuff for all parameters: the inductive invariant, what each handler does to it, and the theorems |
| `ClientProofs` | theorems about `Client` |
| `MCTrustedNodes`, `MCBasic`, `MCChained`, `MCPara` | instances for TLC (`Client` needs none) |

`Protocol <- TrustedFun <- TrustedNodes <- TrustedNodesProofs`;
`Protocol <- Log <- Replica`; each replica module composes `Replica` with its trusted
component; `BasicHotStuff <- BasicLedger <- BasicProofs <- BasicReplies`; `ChainedHotStuff <- ChainedLedger <- ChainedProofs`;
`ParaHotStuff <- ParaProofs`;
`Protocol <- Client <- ClientProofs`; all proofs use `ProtocolProofs`, those about replicas `ReplicaProofs`.
`TrustedNodes`, `BasicHotStuff` and
`ChainedHotStuff` instantiate `MonotonicSigner` with a refinement mapping: the abstract
counter is the position of (view, phase) in the order in which the component passes them.

Client and replicas meet in two assumptions, each shown on the other side: `Replica` takes it
that transactions are dealt out in turn from the first leader on (`fromClientTo`), which is
`DealtInTurn` of `Client`; `Client` takes it that a replica replies once to a transaction,
which is `RepliedOnce` of the replicas.

Names follow the source.  Operators called `mutant_...` are variants of the definition they
precede, with one slip in them; no specification uses them, they serve to see that each property notices.

### How code becomes TLA+

*Hashes.*  A hash is the chain it commits to (a sequence of what each block hashes), which
models SHA-256 as injective.  `Hash(true)` and `Hash(false)` hold the same bytes and
`operator==` compares the bytes only, while the signed text includes the flag: `SameHash`
and equality differ in the model as well.  A Basic block has no view, so equal transactions on
the same parent give equal hashes; a Chained block hashes its view and justification; a
Parallel block hashes its number.

*Signatures.*  A record of the signer and the data; only `sign` makes one.  `Signs` is an array.
The replicas fill it from their logs, which keep one vote of each signer, so that there a set of
signatures is the same thing.  Hosts of which nothing is assumed (`TrustedNodes`) may fill it as they
like: there each signature stands with its place in the array (`Element`), and one that is repeated
counts as often as it is there, as in `getSize()`.

*Handlers.*  `node[n]` is the state of replica n, and each function of `Handler` is an
operator from that record to the record after the call, so an action is one handler from its
first line to its last, with every call it makes.  `node[n].out[m]` is the connection from n
to m.  `executed`, `replied` and the component's `signed` are histories.

*Tail calls.*  Some chains of calls come back to where they began: `executeRData` ends with
`startNewView`, which may reach `executeRData` again by `handleEarlierMessages`; `voteCh`
ends with `prepareCh` or `handleEarlierMessagesCh`, which vote again; `executeRDataPara` ends
with `startNewViewPara`.  A recursive operator is avoided by cutting such a call: the caller
sets `pending`, and no other step is possible until an action has taken it up.  The call is
the last thing each caller does.

*The loops of the trusted components* (`startNewView...` signs until the counter has come
far enough) are closed forms: `TEEsignPast`, `TEEsignUpTo`.

*The message log.*  The sets are ordered by signers, which decides what `first*`, `get*` and
`findHighest*` return; two messages with equal signers are one element.  The order is part of
the model (`Before`).

*Parallel: `pblocks`* is a `std::map` whose `operator[]` inserts: reading a view makes it a key
(`touch`), which matters where the code compares a view with the number of keys (`hasBlocks`).

*Undefined behaviour.*  `Just::operator==` has no return statement for different signatures.
GCC 12 without optimisation, which is how the Makefile builds, returns false; with
`-O1` it returns true.  `EqualsReturns` is the set of values it may return; `para_blocks`
takes both, the others the first.  In the client, a lookup in a map while another thread
inserts may miss what it looks for (`FindMisses`); the run `client` and the theorems take both outcomes.

*Outdated messages.*  Handlers discard a message of an earlier view and views only
grow, so discarding it commutes with every other step: it is done together with the
receipt of its successor on the connection.  Recovery messages are exempt.

## Runs

All runs use one fault (`NumFaults = 1`), the smallest for which a quorum is not everybody, and
`constFactor` 2: three replicas, quorums of two, so that each phase meets a vote to spare.
`chained_gaps` has `constFactor` 3, the default of the program: four replicas, quorums of three.

| run | instance | shows |
|---|---|---|
| `trusted_nodes` | 3 components, one block besides genesis, all arrays of up to two signatures and two empty ones; one component gets into view 1, one votes with it in view 0, one starts view 0; 208,359 states | `TypeOK`, `SignOnce`, `UniqueCertificate`, `LockBacked`, `NeverBack`, refinement of `MonotonicSigner` |
| `basic_views` | 3 views, 3 transactions, up to three early time-outs at any moment, or one pause at any moment with timers slower than messages, 307,213 states | `Agreement`, `ExecutedLocked`, `NeverAhead`, `VotesMatch`, `RepliedOnce`, `HighestParent`, refinement of `MonotonicSigner` |
| `basic_live` | 2 views, fair, 11,003 states | `TypeOK`, `EveryViewExecuted`, `EveryTransactionReplied` |
| `chained_views` | views 1 to 4, messages may precede `MsgStart`, one pause at any moment, an early time-out, 121,941 states | `ParentsFirst`, `DirectPrepared`, `HighestParent`, refinement of `MonotonicSigner` |
| `chained_live` | views 1 to 4, fair, 87,266 states | `RepliedOnce`, `EveryBlockExecuted` |
| `para_views` | 3 views of one block, an early time-out or one pause at any moment, 319,534 states | `Agreement`, `ExecutedPrepared`, `ViewSupported`, `VotesVerified` |
| `para_blocks` | 3 views of two blocks, the last with a leader that leaves out block 1, either result of `Just::operator==`, 79,587 states | `TypeOK`, `ExecutesInOrder`, `ExecutedPrepared`, `RepliedOnce`, `OneBlockPerSlot`, `CommittedPrefixLocked` |
| `para_recover_live` | 2 views, fair, every leader throws its blocks away and recovers them, 97,335 states | `EverySlotCommitted` |
| `client` | 2 transactions, lookups that race with an insertion miss or not, fair, 48,637 states | `CompletedByQuorum`, `DealtInTurn`, `StopsUnlessRaced`, `Ends` |
| `chained_gaps` | 4 replicas, views 1 to 14, every other view fails | violates `Agreement`, see *Findings* |
| `para_skip` | 2 views, fair | violates `EverySlotExecuted`, see *Findings* |
| `para_restart` | 3 views of two blocks, one replica late in each, every leader recovers, one leaves out block 1 | violates `Agreement`, see *Findings* |

*What the main properties say.*  `Agreement`: the hashes executed anywhere are prefixes of
each other.  `ExecutedLocked` (Basic) and `ExecutedPrepared` (Parallel) say why: a
quorum of components holds a block built on what was executed.  Two quorums share a
component, whose one prepared block is built on both executed blocks, so
`ExecutedPrepared` implies `Agreement`; `para_blocks` checks only the former.
Chained HotStuff does not keep `Agreement`; `DirectPrepared` is `ExecutedPrepared` for the
blocks whose successors are of the next two views (`ExecutedDirectly`), and implies that no two of *these*
conflict (`DirectAgreement`).  `ParentsFirst` says that a replica executes a block once and after its
parent, `ExecutesInOrder` that a replica executes one unbroken chain.  `ViewSupported`
says that a replica is led into a view by a quorum only.  `CommittedPrefixLocked` relates the
lock of a Parallel component to the certificates it has seen, in whatever order and with whatever
gaps: everything up to the first gap is locked, and nothing past it.  (The gap is what matters in
`para_blocks`.  The other condition of the loop in TrustedPara.cpp:181, that a block extends the one
before, never fails there, since a leader chains the blocks of a view.)

`LockBacked` says of a component with an arbitrary host: whoever has a signature in the
certificate that is stored last (`lockers`, a history variable) has voted for the block that is
locked, in the view of the lock.  It does not say that they are a quorum, because `TEEstore`
counts signatures (TrustedFun.cpp:99) and `Signs::verify` (Signs.cpp:57) does not compare
signers: an array with one signature several times locks a block.  If the signers are a quorum, the
block is certified.  In the replicas of Basic HotStuff they always are, by their logs, and `ExecutedLocked`
shows what follows.

`StopsUnlessRaced` says that the client loses a reply in one way only: in a lookup while the other
thread is inserting (Client.cpp:251 against 97).  Every other transaction counts as executed with the
replies of a quorum, and the last one stops the event loop.

*Why the bounds are enough.*  Basic: one view passes all phases; the second shows a leader
that extends (or fails to extend) what the first one prepared, and messages that arrive early;
three views give a replica a lock to hold against a later proposal.  With three
replicas each one leads once.  Chained: view 4 is the first in which a block (that of view
1, on genesis) is executed; a pause and a time-out before it leave replicas that have executed
and replicas with holes.  (In four views every executed block but genesis has its successors
in the next views; `chained_gaps` goes further, with the schedule `LateSpec` of `MCChained` in place of
all schedules.)  Parallel: a second view recovers and verifies blocks
of the first, and one of three verifies a justification against a lock; two blocks per view
are enough for one to overtake the other.  One transaction per block and one per
leader make blocks of different leaders differ, which is what agreement can tell apart.
Where no property speaks of transactions and views alone tell blocks apart
(`chained_views`, the liveness runs of Parallel) there are none.

*Time-outs: `Quiet` and `MaxEarly`.*  `Quiet(n)` says that nothing that matters is on its way
and that no running replica is behind n.  A timer may always run out then; up to `MaxEarly`
times in a behaviour it may also run out at any other moment.  With 0, messages are faster than
timers.  Without `EarlyAndPauses` a behaviour has early time-outs or pauses but not both
(`basic_views`, `para_views`; what is proved about Basic HotStuff has no such bound).

*`PromptClient`.*  With it, peers' messages arrive after all messages of the client; without
it (`chained_views`) they interleave.

*`Byzantine`* is the option of that name: the replicas with this number modulo 4 propose from
block 2 on; 4 is nobody.  `para_blocks` makes it the leader of its last view.  *`ForceRecover`* is the set of outcomes of the random choice that the
option `forceRecover` makes.

*`VIEW LiveState`.*  The safety runs identify states that differ only in log entries
of views left behind, in outdated messages, in messages to replicas that have stopped and, if
time-outs are not bounded, in their number; those of Parallel also states that differ only in
signatures of views that every running replica has left, or in what a stopped replica has stored.
No handler reads these and no property of those
runs depends on them: votes and parents are compared in the current view.  The liveness
runs, in one of which `TypeOK` is checked, use no view.

*Deadlock* is not checked: a replica stops after `maxViews` views, the client ends, and with
bounded counters the trusted components stop too.

*Fairness* (`FairSpec`): each replica eventually handles a pending message on each
connection (an event loop over TCP), takes up its tail call, and a timer that stays expired
fires; the client's messages arrive.  Pausing and resuming are not fair: nobody has to
send a signal.  For handlers the weak-fairness formula is written out with the guard in
place of `ENABLED`, which is the same formula since a handler always changes the state, and
which TLC evaluates much faster.  In `Client` the three threads run (the scheduler of the
operating system) and time passes; replicas need not reply and nobody has to send SIGTERM.

## Proofs

`TrustedNodesProofs` proves, for every `NumFaults >= 1`, `ConstFactor >= 2`, every set of
hashes, every choice of what hosts ask for and present without a signature, and all bounds on the counters:

* `TypeCorrect`, `SigningOnce`, `CertificatesUnique`, `LocksBacked`: the four invariants of
  `trusted_nodes`;
* `ComponentsNeverGoBack`: the action property `NeverBack`;
* `Refinement`: `TrustedNodes` implements `MonotonicSigner`.

*Assumptions*: `FaultAssumption`, `DummyAssumption`, `HashAssumption` (genesis and the
dummy hash are hashes), `HostAssumption` (what hosts present is made of hashes) and
`StampAssumption`, each evaluated by TLC on the runs.

*Argument.*  `SignOnce` is not inductive: a step signs at the current counter value, so
the invariant also says that everything signed lies *below* the counter (`Below`).
`NeverBack` needs that a lock is never of a view the component has not reached
(`LockReached`).  The inductive invariant is
`IInv == TypeOK /\ Below /\ SignOnce /\ LockReached /\ \A i : Backed(i)`, where `Backed` is
`LockBacked` without its last conjunct, which follows (`BackedFact`).  `StepEffect` reduces the
three calls to one notion (`Signs(i)`: component i signs one statement, passes one value and
keeps its lock or takes one that all signers have voted for), and the invariant is proved once for it.
`CertificatesUnique` follows from `SignOnce` and `QuorumsIntersect`, which rests on
`2 * QSize > Total`.  A signature in a justification is one its signer has made, and an array as long
as a quorum has a signer (`StorableFacts`); what a set of signers has voted for stays voted for
(`VotesStay`): together these give `LockBacked`.

`BasicProofs` proves, for every `NumFaults >= 1`, `ConstFactor >= 2`, any number of views,
transactions and pauses, and timers that run out at any moment:

* `NoConflict`: `Agreement`, no two replicas execute conflicting blocks;
* `QuorumStaysLocked`: `ExecutedLocked`;
* `AlwaysAccounted`: the inductive invariant behind both;
* `BuiltOnHighest`: `HighestParent`, what a leader proposes extends the highest prepared block
  that it has a report of;
* `SignersMonotonic`: `RefinesSigner`, the components as the handlers drive them implement
  `MonotonicSigner`;
* `ComponentsKeepStep`: `NeverAhead`, when `PromptClient`;
* `TypesCorrect`: `TypeOK`;
* `RepliesOnce` (in `BasicReplies`): `RepliedOnce`.

These are about `BasicHotStuff` as a whole: all handlers, with the log, the queues, the tail
calls and the closed forms of the signing loops, and no bound of a run.  *Assumptions*:
`FaultAssumption`, `DummyAssumption`, `ReplicaAssumption` (bounds are natural numbers,
options are Booleans) and `UnsetAssumption` (the dummy hash is not the hash of a block).

*Argument.*  `Agreement` speaks of what was executed, but what prevents a conflict
are votes, most of which are in no variable any more.  `Accounted` says that the state can be accounted for by
a ledger `K`: the block proposed in each view, the views in which each component has signed
the hash of a block, the views of which it has stored a certificate, and its view.
It is a part of the invariant under an existential quantifier, not a variable: each step shows
how the ledger may grow (`Leads`).  Everything in the state is sound with respect to it: a signature of a
hash is that of the block proposed in its view, and its signer has voted
(`VoteSound`); a new-view message reports genesis or a block certified in an earlier view
(`ReportSound`); a component is locked on the last block whose certificate it has
stored (`ComponentSound`); a leader logs a signer once per view, so that its certificate is of a quorum
(`LogSound`); an executed block has been stored by a quorum (`ExecutedSound`).  The ledger itself is sound, and the
heart of that is `ChainSound`: while a quorum has stored the certificate of view v0 or
has not left v0 yet (`Open`), every block certified later extends that of v0.  A view certified later
has a voter among the quorum, which had stored the certificate by then, and `safenode`
made it vote for a descendant of its lock or of a block certified since, which extends
that of v0 by induction (`LedgerVote`).  `BasicLedger` states this; `BasicProofs` proves what an entry in
the ledger preserves, what each call of the component enters, and for
each function of `Handler` that it leads to a sound state.

That no component signs two statements for one (view, phase) is not needed, only that it does not
store a certificate of a view after it has left it.  The phase tested in `TEEstore`
does not matter either (see *Limits*): a prepare certificate that locks is as good.

`SignersMonotonic` and `ComponentsKeepStep` follow the counter of the component through the same
functions (`Works`, `Runs`).  A handler signs by calling the component up to three times, or by a
loop; that everything signed lies below the counter (`InOrder`) makes each call pass fresh values and
sign one statement at each of them (`Passes`), and such calls compose.  A component answers only
to data of its own view, and handlers give it data of the replica's view, so that one answer does not
take it past the next new-view phase; on entering a view a replica may skip two phases and answer once
more, which is exactly one view (`Enters`).  `PromptClient` is needed: a replica whose
timer runs out before `MsgStart` is there signs once more, unconditionally, when it is started.

`BuiltOnHighest` needs of the invariant that no proposal of a view is sent to its leader, so that a
leader notes a block of its view only in `prepare`, and that the logged reports are of
certified blocks.  The difficult case is `startNewView`: the leader makes its block from a quorum
of earlier messages, and then logs its own new-view message as well.  That
reports the lock, and `safenode` has just passed, so that it ranks no higher or is of the same block
(`OwnNewviewBuilds`); and it cannot start a second proposal, since it is not the message that completes
the quorum.

`TypesCorrect` is by one lemma for each function of `Handler`.  Only new-view messages sign the unset
hash, and what a refusing component returns is still data of a vote; a view never reaches `MaxViews`,
since `executeRData` and the time-out ask `timeToStop` first, and `handleEarlierMessages` goes
through `executeRData`.

`RepliesOnce` needs that no view is executed twice.  A view that has been left is not, but the last one is not left, and
`executeRData` asks whether the block is there, not whether it was executed.  So the argument is about messages, not views.
The invariant (`AllInLine`) says that the state fits the rounds `R` that the leaders have completed, which are quantified
like the ledger: the block of each view, the views with a quorum of prepare, of pre-commit and of
commit votes at their leader, and the replicas that have taken the commit certificate of a view.
A log keeps one vote of each signer, and a handler goes on only when the vote it has just stored completes the quorum;
since messages of a view are never removed before its end, each quorum is completed once (`Leading`).  So the
leader executes once, and sends the certificate once to each of the others (`OutFits`); once taken from the connection
it is in `R.taken`, and only then does a replica execute, directly or from its log (`ExecutedFits`).  Both kinds of
message, vote and certificate, are told apart by who leads the view (`PrepareFits` and the like).
Transactions are dealt to one replica, and are in its connection, in its queue or in one block that it has
made (`QueuesFit`, `Consistent`).

`ChainedProofs` proves, for every `NumFaults >= 1`, `ConstFactor >= 2`, any number of views,
transactions and pauses, and timers that run out at any moment, from the same assumptions
(`UnsetAssumption` is that of `ChainedHotStuff`):

* `ParentsExecutedFirst`: `ParentsFirst`;
* `QuorumStaysPrepared`: `DirectPrepared`;
* `NoDirectConflict`: `DirectAgreement`, whatever is executed in a later view extends a block whose
  successors are of the next two views;
* `AlwaysAccounted`: the inductive invariant behind them;
* `RepliesOnce`: `RepliedOnce`;
* `BuiltOnHighest`: `HighestParent`;
* `SignersMonotonic`: `RefinesSigner`.

*Argument.*  The ledger of Chained HotStuff has the block of each view, the blocks each component has
adopted (`TEEprepare` was given them and took over what they are built on), those of them it has
voted for, and its view.  `safenode` protects nothing here, since the lock is replaced by the
block that is to be checked.  What does is the leader: a block is
built on the block certified in the view before, or on the highest prepared block that a quorum of
new-view messages reports (`ParentSound`, `Supported`).  When the blocks of views v+1 and v+2 are built on
those of v and v+1, the latter holds a certificate of view v+1: a quorum has adopted the block of v+1,
and with it v as prepared, before leaving that view.  Every later
quorum of reports has one of these, and by induction over the views every later block extends
that of v (`Descent`).  Where a view fails in between, no quorum need have adopted
the successor before it reports, and the argument stops: this is `chained_gaps`.
`ParentsFirst` rests on a second thing: `tryExecuteCh` finds blocks by their views alone, so the
invariant says that the block a replica holds for a view is the one its leader made
and that what is marked as executed is closed under parents.
`SignersMonotonic` goes as for Basic HotStuff.  For `BuiltOnHighest`, a block of a leader arises only in
`prepareCh`: either on the certificate of the view before, and a report of that view is of a
block prepared earlier, or on the maximum of `findHighestNvCh`; and the leader of a
view does not lead the next one, so that the messages it compares do not change in that step.
`RepliesOnce` follows each transaction from the client's connection to the queue, to a block, to the
replies (`Placed`): it is in one of these places, and only in the blocks of the replica that the client
dealt it to.  A block is noted at most with the transactions its leader took from its queue; since the block
of a view is the same everywhere, and its leader has it, the blocks of
the ledger have no transaction in common (`Unrepeated`, `PlacedLedger`), so that executing
blocks once is replying once.

`ParaProofs` proves, for every `NumFaults >= 1`, `ConstFactor >= 2`, any number of views, blocks
per view, transactions and pauses, timers that run out at any moment, any set of forced
recoveries and any replica as the one that leaves out block 1:

* `TypesCorrect`: `TypeOK`;
* `RepliesOnce`: `RepliedOnce`;
* `SlotsExecutedInOrder`: every replica executes the slots of a view without a gap and views in
  ascending order (`SlotsInOrder`: `ExecutesInOrder` without its statement about hashes);
* `VotesOnVerified`: `VotesVerified`, if `Just::operator==` compares what it is meant to
  (`EqualsReturns = {FALSE}`, the build of the Makefile); the others hold for every result of it.

*Assumptions*: `FaultAssumption`, `DummyAssumption`, `ReplicaAssumption`, `ParaAssumption` (there is a
block in a view, and the results of `Just::operator==` and of the random choice are Booleans) and
`UnsetAssumption`.

*Argument.*  A block of a view may be made again after a recovery, may be thrown away by its leader and come back in a
RECOVER response, and may arrive in a proposal, in a VERIFY message or from another replica's
`pblocks`.  The ledger of this invariant therefore gives each transaction the slot it was put
into, once, by the leader that took it from its queue (`Ledgers`).  Everything in the state respects it (`Sound`):
a block, wherever it is, has only the transactions of its slot, each once (`SlotsIn`); what is
in a queue or on the connection of the client is in no slot (`Fresh`); the replies of
a replica are of slots up to `lastExecutedSeq` of its view or of earlier views (`Done`), and what it has
executed last is that slot (`InOrder`).  So each slot is executed once, and with it replied once.
What a handler does to its own replica and to the ledger is `Leads`; since only the transactions of its own
queue get a slot, the other replicas stay sound (`Grows`).  The loops over the blocks of a view (proposing, executing,
catching up) are folds; `LoopExists` and the lemmas after it give the function that a fold
evaluates, and the invariant of the loop is shown for its least failing turn.  `VotesOnVerified` looks at what a step
adds to the connections (`Spoken`): a vote is sent only in `respondToProposalPara`, after the
comparison with `verifiedJust`, and nothing changes that in the rest of the handler.

`ClientProofs` proves, for every number of replicas and transactions, from `FaultAssumption` and
`ClientAssumption`:

* `ExecutedByQuorum`: `CompletedByQuorum`, for every outcome of the data race (`FindMisses`);
* `InTurnFromFirstLeader`: `DealtInTurn`;
* `RepliesLostInRacesOnly`: `StopsUnlessRaced`, with the race.

The client counts replies and remembers no repliers, so the invariant relates the count of a
transaction to the replicas it has heard from (`Counted`: never more than these), which needs
that replies are handled only for
transactions that have been added (`Added`), that an addition, which resets the count, happens once
and before the transaction is sent, and that each reply is handled once.  The count of an
unfinished transaction for which no lookup has raced is exact (`Exact`), which gives the third.  The second needs where
the loop over the replicas stands (`Dealing`).

*Only model-checked*:

* of Basic HotStuff `VotesMatch`, which holds only when peers' messages arrive after all of the client's
  (`PromptClient`), by the order of messages on the connections;
* of Parallel HotStuff `Agreement`, `ExecutedPrepared`, `CommittedPrefixLocked`, `ViewSupported`,
  `OneBlockPerSlot` and what `ExecutesInOrder` says of hashes.  The runs show them within bounds, and they do not hold for
  all values of the constants: with more blocks or views a leader restarts on genesis (`para_restart`), or
  late answers to a recovery start a view that no quorum supports (*Limits*), so there is no
  theorem to prove;
* liveness: TLAPS does not reason about fairness and `ENABLED`.

## Findings

* **Chained HotStuff executes conflicting blocks** (`chained_gaps`).  `tryExecuteCh`
  (Handler.cpp:1115) executes a block when three blocks have been built on it, whatever views failed
  between them, although the gap between a block and its justification stands for "blank blocks"
  (Handler.cpp:1032), and `TEEprepare` (TrustedCh.cpp:69) replaces the lock by that of the block
  it is to check.  So two branches can grow in turns, each on certificates that only the
  next leader knows.  No replica misbehaves in the run; messages are late and timers run
  out.  `DirectPrepared` checks what does hold.
* **A VERIFY message skips executions** (`para_skip`).  It moves a replica to the next view before
  the commit certificates of the last one have arrived; nothing recovers them
  (Handler.cpp:2161, "We should now recover the things we missed").  One consequence is that a client
  may have no quorum of replies for transactions that are committed.

* **A Parallel leader restarts on genesis** (`para_restart`).  A leader that recovers no block
  takes the justification it verified last (Handler.cpp:2089), "QC from the prevoius view"
  (Handler.cpp:2086).  That may be genesis without a signature, which every replica accepts:
  `TEEverifyLeaderQC` and `TEEprepare` verify the signatures there are and count none, and the locked prefix
  is a number of blocks of one view.  So a leader that cannot recover the highest prepared block proposes on genesis,
  also after blocks have been executed.  In the run the recovery fails because the Byzantine leader of the code has
  left out a block, which takes `forceRecover`, the option that makes leaders recover;
  it fails as well when the others do not find the blocks they have (Handler.cpp:2124).  `Agreement`
  of Parallel HotStuff therefore holds within the bounds of `para_views` and not in general.

### Limits of what the code promises

Reading the code for the model also showed cases that the properties above do not cover,
because the code does not aim at them or does not reach its aim.  They are in the model; no run
listed here is about them, and the hazards concerned carry a note.

* `TrustedFun::TEEstore` (TrustedFun.cpp:99) counts signatures and not signers, and `TEEprepare` counts
  none: with one signature repeated, a host gets its component to lock a block that no quorum has
  voted for.  No host in the code does so.
* `TrustedFun::TEEstore` (TrustedFun.cpp:104) tests the constant `PH1_PRECOMMIT` where a phase
  was meant, so that a prepare certificate locks.  `Agreement` holds all the same.
* `Log.cpp:265` compares views with `>=`, and genesis counts as prepared in view 0 like
  the block of view 0: after a pause the order of signers may let a leader extend genesis
  although a new-view message reports the block of view 0.  `HighestParent` speaks of views and holds
  all the same.
* `getStarted` (Handler.cpp:361) arms the timer in the Parallel build only: a Basic
  or Chained replica that misses the end of its first view in a pause waits there.
* A Chained leader that enters its view by a time-out does not look into its log
  (Handler.cpp:1104) and needs one more new-view message; one that times out after it has
  proposed lets its component sign past the next view (Handler.cpp:1087).
* A Parallel leader that restarts without recovered blocks relabels its justification and keeps
  the signatures (Handler.cpp:2094): everybody refuses, if there are any.  `view < pblocks.size()`
  (Handler.cpp:2124, also 1542) is false for the latest views of a replica that has skipped some.
  Each answer to a recovery beyond the quorum starts the view again (Handler.cpp:2073), which is
  why `OneBlockPerSlot` is claimed without forced recoveries.  A replica that missed a proposal
  answers the prepare certificate with a prepare vote (TrustedPara.cpp:93), which does not count.
* In the client, a reply that arrives while the other thread inserts may not be counted
  (Client.cpp:251, 97), so that the client may wait for its time-out although a quorum has replied to
  everything, and two threads may join the sending thread (Client.cpp:230, 184):
  the second join ends the process.

## Not modelled

* Start-up, configuration, key files, statistics, scripts: no protocol logic.
* Serialisation of messages and cryptography.
* The data race of `getStarted`, which the client event context runs on its own thread:
  handlers are atomic in the model, and the start falls between two of them.
* Crashes and restarts: nothing is persisted and the code has no restart.  Broken
  connections: Salticidae reconnects, and what it loses is not under `src/`.
* More than one client, and the hand-over of replies to the client event context.
* The destructor of `timeout_thread` at the end of the client's `main`, which terminates the
  process abnormally in every run in which the thread has not been joined, that is always.
* The statistics that the client's threads print while others write them.

## Plan

1. *Done*: the replicas and trusted components of the three variants, the log, the client;
   proofs for the Basic trusted component, the agreement of Basic HotStuff, what does hold of Chained
   HotStuff, the refinement of the monotonic signer by both, the parents their leaders build on, the replies of
   all three variants, the order of execution and the votes of Parallel HotStuff,
   and the client.
2. `VotesMatch` of Basic HotStuff.
3. The order of votes per block of `TrustedPara`; agreement of Parallel HotStuff as long as no leader restarts on genesis
   because its recovery found nothing.
