# TLA+ models of the blockchain simulator

The repository simulates a small permissioned blockchain: validators agree on
one block per height in rounds of prevotes and precommits, over a deterministic
simulated network, and append it to a ledger with a snapshot on disk. This
directory holds TLA+ modules of that program, TLC configurations that check
small instances of them, and proofs that TLAPS checks for every value of the
constants. `PROJECT.json` lists components, runs, theorems, findings and the
source lines behind every definition.

Paths of the program below are relative to the repository, e.g. `src/ledger.py`.

## 1. Inventory

### Components, their state and operations

| Component | State | Operations |
|---|---|---|
| Consensus (`src/consensus.py`) | `ConsensusState`: height, round, locked and valid block, two vote sets, block store; `VoteSentTracker` | `propose`, `handle_proposal_timeout`, `make_prevote`, `apply_lock`, `make_precommit`, `try_finalize`, `do_round_change`, `schedule_*_timeout` |
| Votes (`src/vote.py`, `src/vote_set.py`) | votes, first one of a (height, round, phase, validator) | `add` (accepted, duplicate, equivocation), `votes`, `has_quorum` |
| Blocks in assembly (`src/block.py`, `src/block_store.py`, `src/block_validator.py`) | headers, bodies by hash | `store_header`, `store_body`, `validate_header`, `validate_block_body` |
| Identities (`src/identity.py`) | validators in index order | `load_validator_keys` |
| Network (`src/network.py`) | pending envelopes, bytes charged per tick, delivered sequences, SEND events not yet written | `send`, `run_next`, `run`, `deliver`, `enqueue`, `block_peer`, `unblock_peer` |
| Scheduler (`src/scheduler.py`) | heap of envelopes, logical time, keys used | `schedule`, `pop`, `cancel`, random generator |
| Event log (`src/event_log.py`) | lines, number and time of the last | `write_event`, `flush`, digest |
| Router (`src/router.py`) | sender registry, context (height, round, phase) | `route`: six guards, REJECT event or callback |
| Fault injector (`src/fault_injector.py`) | probabilities | `apply`: drop, delay, duplicate, reorder |
| Gossip (`src/gossip.py`) | none | `gossip_finalized`: header, body and precommits to all peers |
| Ledger (`src/ledger.py`) | entries by height; snapshot file | `finalize`, `load_snapshot`, reads |
| Execution (`src/executor.py`, `src/transaction.py`, `src/state.py`) | none (pure) | `execute_block`, `Transaction.validate` |
| Scenario runner (`src/scenario.py`) | shared event counter, registered ledgers, results | `load`, `run`, `shutdown`, safety and liveness assertions, `simulate_crash`, `simulate_restart` |
| Crypto, encoding, summary, placeholder runner, dashboard, scripts | none that matters here | pure functions, displays |

### How they interact

Everything runs in one thread. Concurrency is that of the simulated nodes:
consensus functions of different nodes are called in any order, and their only
shared state is the network. `Network` owns a `Scheduler`; `send` queues an
envelope, `run_next` pops in (logical time, insertion sequence) order and puts
an envelope back under a later time when the tick's bandwidth is used up.
Events of the network and of the runner draw numbers from one counter of
`ScenarioRunner`; the router numbers its REJECT events itself. A delivered
header or vote passes `MessageRouter.route` and then reaches the block store or
a vote set. `try_finalize` reads the parent from the ledger, validates the
body, calls `Ledger.finalize` (which writes the snapshot first and the memory
second) and resets the state for the next height. After a crash only the
snapshot is left; `simulate_restart` loads it.

There is no node loop in the repository that calls the consensus functions: the
tests and the scenario drivers do. The drivers roll the fault injector for every
message and receiver and call `send` as often, and for as late a time, as it
says; after a finalization `GossipService` sends header, body and precommits to
every peer in its own name. The models therefore let a caller call any
function whose own guards hold, and name what a caller may be expected to do as
constants of `Consensus`, each of which a guard reads as `Constant => condition`:

| Constant | The caller |
|---|---|
| `Guarded` | asks the tracker before it signs, as the tracker's docstring shows |
| `HeaderFirst` | counts votes for known blocks only (`docs/PROTOCOL_SPEC.md:71`) |
| `ProposalFirst` | calls `make_prevote` for a stored header of the current round |
| `LockFirst` | calls `apply_lock` before `make_precommit` (`docs/PROTOCOL_SPEC.md:66-67`) |
| `OneProposal` | calls `propose` once per round |
| `SyncRound` | sets timers that do not expire from this round on: then no timeout, round change or NIL precommit |

With all of them FALSE and a `SyncRound` beyond `MaxRound`, the caller does what
it likes; a theorem that assumes nothing of the caller covers that.

### What is hard

- Votes of several rounds and nodes that interleave: locks, round changes that
  empty the vote sets, equivocating validators, quorums that need to intersect.
- Timeouts that race late proposals and votes.
- A restart that remembers the ledger and forgets votes and tracker.
- Deferral in the network: order, loss, duplication, starvation, late SEND
  events, numbers and times that several writers of one log choose.
- Header, body and votes as separate messages: dropped, delayed, duplicated,
  overtaken, discarded by a `deliver` that waits for another one, or arriving
  after the receiver changed its round, finalized or crashed. What is refused
  is not sent again, and relayed copies come from the wrong sender.
- A crash or an error between the snapshot file and the memory of a ledger;
  recovery of one entry out of many; nonces that no hash covers.

`PROJECT.json` lists these hazards with their lines and the properties that
would show them going wrong.

### What makes each component correct

- Consensus: `Agreement`, the voting rules it rests on (`SingleVote`,
  `PrecommitHoldsLock`, `PrevoteRespectsLock`, `PolkaExcludesOlderDecision`,
  `LockHasPolka`, `LockMovesForward`), and `Termination`.
- Vote sets: `NoFalseEvidence`, `FinalizedByQuorum`, intersection of quorums.
- Network, scheduler, event log: `NothingLost`, `DeliveredInKeyOrder`,
  `OvertakenOnlyBySmaller`, `BandwidthRespected`, `LateOnlyWhenFull`, `LogIsChronological`,
  `CallCanReturn`, `NoSilentLoss`, `AllDelivered`.
- Fault injector, gossip, router and block store on the way to one validator:
  `FinalizedFirstHand`, `RefusedBodyWasOvertaken`, `QuorumIsNotAwaitedForever`.
- Execution: `ExecutionIsSequential`.
- Ledger: `AppliedOnce`, `HoldsReplay`, `SameHistory`, `DiskKeepsUp`, `NoGap`,
  `NoRollback`.

## 2. Modules

| Module | Contents |
|---|---|
| `VoteSet` | votes, `add`, `has_quorum`, the choice of a hash with a quorum |
| `Consensus` (extends `VoteSet`) | the voting of one height by all correct validators, with faulty ones that show any vote |
| `ConsensusProperties` | properties of it, the inductive invariants `CountInv`, `SlotInv` and `IInv`, fairness |
| `Finality` | abstract: each validator decides at most once and all the same block |
| `ConsensusProofs`, `AgreementProofs` | theorems about `Consensus` |
| `MCConsensus` | its TLC instances |
| `Network` | network, scheduler, event log and counter, REJECT events, events of the drivers |
| `NetworkProperties`, `NetworkProofs`, `MCNetwork` | its properties, theorems, instances |
| `Delivery` | abstract: a message in flight is delivered once, not before it is due, and time moves forward |
| `FaultInjector` | the faults `apply` may draw |
| `Relay` (extends `Network`, `VoteSet`, `FaultInjector`) | how one validator hears of a decided block: proposal, votes, gossip, faults, network, router, block store, vote set |
| `RelayProperties`, `RelayProofs`, `MCRelay` | its properties, theorems, instance |
| `Execution` | `execute_block` as a fold over the body |
| `ExecutionProofs` | what that fold computes, for any body and parent |
| `Ledger` (extends `Execution`) | proposals, finalization, snapshots, crashes over several heights |
| `LedgerProperties`, `LedgerProofs`, `MCLedger` | its properties, theorems, instances |
| `FoldLemmas` | what sums over a set and concatenations of sequences compute, for the proofs about network and ledger |
| `ReplicatedLog` | abstract: one growing chain of which every validator has a growing prefix |

### Consensus

One copy of the state fields per correct validator, and two variables for the
network: `proposed`, the blocks broadcast, and `sent`, the votes broadcast by
correct validators. A message once broadcast may reach a receiver late, out of
order, repeatedly or never; faulty validators may show the votes in `ByzVotes`
to anybody at any time. The fault injector's drops, delays, duplicates and
reorderings are all behaviours of such a network.

Actions and code: `Propose` is `propose`; `ReceiveHeader` and `ReceiveBody` are
routing plus `store_header` and `store_body`; `MakePrevote` is `make_prevote`
with `prevote_block_or_nil`; `HandleProposalTimeout` is
`handle_proposal_timeout`; `ReceivePrevote` and `ReceivePrecommit` are routing,
`Vote.validate` and `VoteSet.add`; `ApplyLock`, `MakePrecommit`,
`DoRoundChange`, `TryFinalize` are the functions of those names, the last one
with `reset_height`; `Restart` is `simulate_crash` with `simulate_restart`.
Hashes are numbers, because the code takes the smallest hash that has a quorum.
A NIL prevote of a timeout is not added to the sender's own set, as in the code.
A timeout may fire in any round before `SyncRound`.

### Network

The queue is the set of keys (time, sequence) of `Scheduler._active`; the SEND
events waiting to be written are those of the queue. `run_next` and `deliver`
are loops: `call` says what the running call waits for, and each pop is a step
(`PopAndDefer`, `PopAndDeliver`, `PopAndFail`). `PopAndFail` is the case in
which `write_event` raises because the number drawn is not the log's next one,
or because a line of another writer is later: the envelope has left the queue,
the counter has moved, nothing is written. `RouteReject` and `WriteNodeEvent`
are those writers: the router, which takes the time that the envelope was sent
for, and the drivers with `simulate_crash` and `simulate_restart`, which write
with any time (one before the last line raises, too). The constants `SharedLog`
and `NodeEvents` say whether there are any. `_write_event` lifts the time of a
late event to that of the network's own last one (`src/network.py:326-330`) and
does not know of other writers, so a node event ahead of the clock costs
messages, and since a failed write leaves the runner's counter ahead of the log,
one failure is followed by others. What remains true is `NoSilentLoss`: there is never more
lost than the numbers missing in the log show.
`BlockPeer` writes an event and does nothing else, which is all that
`block_peer` does, although its docstring (`src/network.py:636`) promises that
messages of the peer are dropped.

### Relay

`Relay` composes the pieces between the validators for one receiver, `Target`,
and one block of round 0. Each of its steps is one step of `Network`, or none,
together with what the senders and the Target do at that moment: `Propose`,
`CastPrecommit` and `GossipFinalized` fill `outbox` with the sends of a
broadcast, one per copy that the fault injector grants, and `SendNext` makes
them one by one; `StartCall`, `Defer` and `DeliverNext` are the network's calls;
`HandleHeader`, `StoreBody`, `RefuseBody` and `HandlePrecommit` are the router,
`store_header`, `store_body` and `VoteSet.add`; `TryFinalize`, `DoRoundChange`
and `Restart` are what ends or empties the Target's state. What the Target makes
itself takes no network hop: `make_precommit` adds the signer's own vote to its
vote set (`src/consensus.py:750`), and a proposer stores header and body of its
block, as the drivers of the tests do. `Propose` and `CastPrecommit` therefore
write `hasHeader`, `hasBody` and `precommits` when the Target is the one who acts,
and send it nothing; in the ordinary case it finalizes with its own vote and
`Threshold - 1` delivered ones. `cargo` is what each
envelope carries, `inbox` the payloads that `run_next` or `deliver` returned and
the driver has not handed on, and `gone` the messages delivered of which nothing
is left at the Target: rejected, refused, forgotten, or popped by a `deliver`
that was waiting for a later one, which returns only that one's payload.

The tests hand a message to the receiver's vote set at the moment of `send`
(`tests/test_t2.py:149`); the model hands it over when the network returns it,
which is what the network and the router are for. What a validator signs, the
block or NIL, and how often, is left open, because the prevotes it has counted
are the matter of `Consensus`. Messages to other receivers, the copies of the
Target's vote among them, carry nothing here (`SendElsewhere`): they have any
sender, size and time and only use up bandwidth.

### Ledger

A block is decided in one step, `Decide`, on the parent of some validator that
is not behind; that a height has one block is the theorem about `Consensus`. A
validator finalizes it in two steps, `Persist` (everything up to `os.replace`)
and `Publish` (the entry in memory, the next height), because `Restart` and
`PersistRaises` may come between. Transactions are records; hashes are
injective, so a block stands for its hash and a state for its state hash. The
state hash does not cover nonces, and neither does the model's block.

## 3. Runs

Each passing run finishes; `CHECK_DEADLOCK FALSE` is there because every model
ends: a height is finalized, the last message is delivered, the last height is
reached.

| Run | Question | Bounds |
|---|---|---|
| `n4_two_rounds` | Do locks keep two rounds from deciding two blocks? | 4 validators, 1 faulty proposer in round 0, a block per round |
| `n4_equivocating_proposer` | Two blocks of one proposer, both voted for by it, against timeouts | 4 validators, 2 blocks, 1 round; 2 of the 3 correct validators can time out before their prevote |
| `n4_silent_proposer` | Does the height end, and by a quorum, when the proposer of round 0 is the silent faulty validator and a correct one forgets its votes? | 4 validators, 2 rounds, the second one synchronous; one validator restarts any number of times before |
| `net_bandwidth` | Loss, order, overtaking, lateness, log order, starvation under deferral | 4 messages of 1 to 3 bytes, ticks of 3 bytes, 1 other event |
| `net_shared_log` | With a router and drivers that write into the log, is a message ever lost without a trace, or delivered out of order? | 3 messages, 2 other events |
| `relay_late_node` | What does a validator need to hear, and is it heard, under drops, delays, copies, full ticks, gossip, a timeout or a crash? | 4 validators, the receiver's own vote among them, 6 messages of 1 or 2 bytes, ticks of 3 bytes, delay and duplicates of at most 1, 2 rounds |
| `ledger_snapshots` | Crashes, failed writes and recoveries at any point; execution against its definition | 2 validators, 3 heights, 6 transactions, bodies of up to 2 |

Why the bounds are enough: four validators are the smallest set with a fault,
and two rounds the smallest number in which a lock matters; the theorems cover
the rest. Messages of 1 to 3 bytes against 3 make a message share, fill or
miss a tick, and four of them defer past two full ticks. Six messages are a
header, a body, the others' three precommits and one more, a copy, a message
elsewhere or the header that gossip repeats; a header of 2 bytes and a body of 1 against
ticks of 3 let the body overtake. Three heights let a
recovered ledger be the base of another block; the six transactions contain a
competing pair, a sequel, a foreign namespace and a bad signature.

The instances of `Consensus` are cut down by action constraints (`MCConsensus`):
a vote is delivered when it will complete a quorum, votes for one hash arrive in
index order, NIL votes, which nobody counts, are not delivered, and a validator
that can vote on what it has does so before others move. What they drop are
orders that no later step can tell apart or deliveries without effect; they do
bound what TLC sees, and the theorems, which are about the unconstrained
specification, do not depend on them. In `n4_silent_proposer` a validator
leaves a round after voting in it, and restarts end with the synchronous round
(`RestartsBeforeSync`): after it nothing is sent again, and a validator that
forgets what it heard cannot finalize.

`relay_late_node` has one too (`OneOrder`): nothing is broadcast twice; the
others precommit once, in the order of their keys, the last one for the block or
NIL, and their precommits are sent at once or dropped, while header and body are
delayed or copied, or both dropped; the Target precommits for the block when it
has it and nothing else to do; one message goes elsewhere, and `deliver` is
called for that one; the Target times out or crashes when it has a header and
another's precommit to lose. The Target is not the proposer in this run;
`RelayProofs`, which is about the unconstrained specification, allows that too.

### Disagreements between documents and code

Four runs on `Consensus` and one on `Network` show that the code does not do
what a document says (see the findings in `PROJECT.json`):

- `n8_configured`: `has_quorum` takes `2 * ((n - 1) // 3) + 1` for every n. With
  the eight validators of `config/validator_keys.json` that is 5 votes of 8, and
  two quorums may share only the two faulty validators: two blocks are final.
- `n4_unknown_header`: `make_precommit` looks at the votes and not at the lock.
  A node that counts votes for a block whose header it lacks precommits without
  a lock, and the next round decides another block.
- `n4_restart_votes_twice`: votes and tracker do not survive a restart.
- `n4_stuck_lock`: `propose` always makes a new block. If one correct node is
  locked on an older block and a faulty one is silent, no later round has a
  quorum. The run is fair; round 1 is synchronous and ends the run, and later
  rounds are like it.
- `net_shared_log_loss`: a REJECT event takes the number that the shared counter
  hands out next, so the next delivery raises and its message is lost.
  `net_shared_log` lets node events be too late for a delivery as well; the
  loss is the same, and its bound is `NoSilentLoss`.

### Fairness

`FairSpec` of `Consensus` asks that a correct validator takes a step of the
voting that stays possible, that blocks of correct proposers and votes for
blocks reach a receiver that stays in their round, and that timeouts before
`SyncRound` fire; from `SyncRound` on none fires. This is the partial synchrony
of `docs/REQUIREMENTS.md:28`: the caller loop is external, and a simulated
network without drops delivers everything it is sent (`AllDelivered`). Nothing
is asked of faulty validators. `FairSpec` of `Network` asks that the driver
calls `run_next` while messages wait, which is the loop of `Network.run`, and
that a running call goes on. `FairRelaySpec` asks that the drivers finish a
broadcast once begun (a loop of calls), drain the network in the same way, hand
on what it returns, and call `try_finalize` when it can succeed, as the drivers
do after each delivery. Nobody has to propose, vote or gossip, and faults are
never asked to stop.

## 4. Proofs

| Theorem | Statement | Assumes |
|---|---|---|
| `TypeCorrect` | `TypeOK` of `Consensus` | nothing beyond the constants' assumptions |
| `FinalityNeedsQuorum`, `LocksNeedQuorum` | what is finalized was precommitted, what is locked was prevoted, by a quorum | nothing: any n, faults, caller, restarts |
| `OneVotePerSlot`, `EvidenceIsTrue` | one vote per slot, no false evidence | `TrackingCaller`; any n and faults |
| `QuorumsMeet` | two quorums share a correct validator | `QuorumsIntersect` |
| `LocksOnlyAdvance` | `LockMovesForward` | `QuorumsIntersect`, `TrackingCaller` |
| `Invariant`, `Safety`, `VotingRules`, `ImplementsFinality` | `IInv`, agreement, the voting rules, refinement of `Finality` | `QuorumsIntersect`, `CarefulCaller` |
| `SafetyOfTheSizes` | agreement | `ThreeFPlusOne` or `EightAndOne`, `CarefulCaller` |
| `DeliveryOrder`, `SmallerOvertakes` | types, order, overtaking, lateness, log order, calls return | nothing |
| `TicksAreNotOvercharged`, `BandwidthIsRespected` | no tick is charged, or delivers, more bytes than the limit | nothing |
| `LossIsVisible` | `NoSilentLoss` | nothing: any writer of the log |
| `NoLoss`, `ImplementsDelivery` | no message is lost, refinement of `Delivery` | no foreign writer in the log |
| `RelayTypes`, `OnlyFirstHandCounts`, `RefusalNeedsFullTicks` | types of `Relay`, `FinalizedFirstHand`, `RefusedBodyWasOvertaken` | the constants' assumptions |
| `RelayRunsTheNetwork`, `RelayKeepsTheNetwork` | `Relay` refines `Network` and `Delivery`; nothing is lost, ticks and order are kept | the constants' assumptions |
| `OneHistory`, `LedgerSafety`, `LedgersNeverRollBack` | one history, equal entries, disk ahead of memory, no gap, no rollback | nothing |
| `DecidedChain`, `LedgerTypes` | the chain is one of accepted bodies; `TypeOK` of `Ledger` | nothing |
| `ExecutesSequentially`, `TransactionsApplyOnce`, `EntriesReplay` | what `execute_block` computes, no transaction twice, entries replay | nothing |
| `ImplementsReplicatedLog` | refinement of `ReplicatedLog` | every validator has a snapshot file |

`QuorumsIntersect` says that two thresholds exceed n by more than the number of
faulty validators. n = 3f + 1 with f faults has it (`ThreeFPlusOneIsEnough`), and
so have the eight configured validators with one fault (`EightAndOneIsEnough`),
but not with the two that `has_quorum` takes for f. `TrackingCaller` is a caller
that asks the tracker before it signs and does not restart in the middle of a
height; `CarefulCaller` also counts votes only for blocks it knows, prevotes
proposals of its round, and locks before it precommits. `OneProposal` and
`SyncRound` are assumed by no theorem. The intersection, the known blocks and
the restart are needed: `n8_configured`, `n4_unknown_header` and
`n4_restart_votes_twice` are counterexamples without each of them. Without
`LockFirst`, `make_precommit` signs for a quorum that no lock remembers, which
is the way `n4_unknown_header` goes wrong too. What `LockFirst` gives is one
step; that the lock still covers the precommit rounds later, when `apply_lock`,
`do_round_change` and `try_finalize` have all had their turn, is
`PrecommitHoldsLock`.

Voting, in three layers, each an inductive invariant on top of the one before.
`CountInv` holds whatever the caller does: a vote that a `VoteSet` counts was
signed or comes from a faulty validator (`CountedStaySigned`), evidence only
grows (`EvidenceStays`), so the quorum behind a lock or a finalized block can
always be shown, and `LockStep` says that a step keeps a lock, makes one,
finalizes or restarts. `SlotInv` adds that every signed vote is in its signer's
tracker: a step signs only for a free slot (`SlotGrowth`), so nobody signs twice.
Here two quorums of one round can be compared, and locks only advance.

Agreement. `Agreement` is not inductive: that nobody has finalized another block
says nothing about votes under way. `IInv` adds that precommits have quorums of
prevotes behind them, that a lock is never older than its holder's last
precommit, and the heart, `PolkaExcludesOlderDecision`: once a round has a quorum
of prevotes for c, no earlier round has decided or can still decide another
block. A step is summarised as `Growth` (votes only grow, in free slots, covered
by locks), and `NoPolkaForAnother` shows by induction over the steps that a
quorum of prevotes against a possible decision would contain a correct validator
whose lock forbids it.

Network. The invariant adds to the properties that everything in the queue is
sent, undelivered and not in the past, that only ticks up to now are charged,
that every delivered message is behind everything that waits, and that a
deferred message has only full ticks between the tick it asked for and the one
it waits at. The bandwidth needs one more invariant (`Accounted`): the sizes of
the messages that the log shows as delivered in a tick add up to no more than
what `_bytes_by_tick` was charged for it. A delivery adds the same size to both
sides, which for the sum is a fact about sums (`SumAdd`). `NoSilentLoss` is about
the difference of the counter and the lines (`LossStep`): a written event moves
both, a REJECT line takes no number of the counter and is not counted, and only
`PopAndFail` loses a message, with a number and without the line.

Relay. Every step of `Relay` satisfies `Next` of `Network` or leaves its
variables alone, once the letters in `outbox` are known to be sendable, so the
network's invariant holds in `Relay` as well. On top of it `RelayInv` says where
the Target's state comes from: a stored header is the Target's own or was
delivered first-hand, each counted precommit is one it has cast itself or was
delivered first-hand, and, as `finalized` outlives both, so does the evidence of
a finalization, because `delivered` and `cast` only grow. For refused bodies it says
that a delivered header of the proposer is stored, in hand or gone
(`HeaderAccounted`), and that whatever is delivered, or returned, ahead of a
message sent before it found only ticks too full for that one (`WaitsForRoom`,
`ReturnedInOrder`): `Inv` of the network gives the fact for one step, and it
stays true because ticks only fill.

Ledger. A recovered validator has one entry and has forgotten those below, so
statements about the entries alone are not inductive. The invariant says that a
history exists, the entry after each decided block computed from the one
before, and that memory, disk and the unpublished entry of every validator are
entries of it. The history is not a variable and needs no recursive definition:
the proof extends it by one entry when a block is decided. Up to here what
`execute_block` computes is left open.

Execution. `ExecutionProofs` shows that the fold of `execute_block` is a run
through the body, one accumulator per position (`FoldIsRun`), and describes each
accumulator by the transactions before it: the nonces are counts, the state is
the last writes, and the run fails at the first transaction that is malformed,
foreign, or not its sender's next (`RunIsDescribed`). The set of transaction
hashes that the code keeps as well never decides: a transaction that repeats has
a nonce that is gone (`AcceptedOnce`). `Sequentially` is the statement of
`ExecutionIsSequential` for one body, `ConcatAccepted` and its neighbours say
that executing two bodies one after the other is executing their concatenation.

On that rests `Chained`, an invariant of the decided blocks alone: each body is
accepted after all bodies below it, and the state signed into each block is that
of the whole history. It is inductive together with the one history, because the
parent a proposer executes on is an entry of that history, and each entry
replays it (`PostReplays`, `ExecuteOnHistory`). `AppliedOnce` and `HoldsReplay`
are consequences.

Induction over data. The library's induction theorems take an operator as a
parameter and cannot be used; `FoldLemmas` states induction for sets of natural
numbers (`Induction`: a set that contains 0 and is closed under successor is
`Nat`), from the least element of a non-empty set. The folds are recursive
functions given by CHOOSE, so each lemma shows first that a function with that
recursion exists on every bounded domain (`SumsExist`, `FlattensExist`,
`FoldsExist`), and for sums that the order of the summands does not matter
(`SumsInAnyOrder`).

Every invariant and action property of the passing runs is stated by a theorem.
Only model-checked are `Termination`, `AllDelivered` and
`QuorumIsNotAwaitedForever`: liveness under fairness is out of the prover's reach.

## 5. Not modelled

- Signatures and hashes as functions (taken as unforgeable and injective),
  canonical encoding, the log file and digests, summary, dashboard and scripts:
  pure functions or displays.
- `Network.enqueue` of envelopes built elsewhere and `Scheduler.cancel`, which no
  caller in `src/` uses; the generator's shuffles, which only tests draw, and the
  reordering that tests do with the fault injector's last decision.
- Two bodies for one header (`BODY_CONFLICT`): no code sends a second one. Bodies
  that fail `validate_block_body` after a quorum has formed are the constant
  `BadBodies` of `Consensus`, which the runs leave empty: `TryFinalize` refuses
  them, and what follows is the standstill of `n4_stuck_lock`.
- The timeout envelopes and their payloads: a timeout is a step that may happen
  at any moment of its round.
- A failing `propose` (a bad pending transaction): who chooses the transactions
  is not in the repository.
- The scenario's assertions, `SCENARIO_END` and `shutdown`, which read the
  ledgers once when everything is over. They compare the entries that ledgers
  hold; `SameHistory` says that these never differ.
- `block_peer` has no effect in the code, so the model gives it none.

`Consensus` of several heights in one model, with the ledger under it, would not
add to what the code keeps apart: `reset_height` empties everything that a
height has, votes and headers of another height are rejected before they touch
any state, and the ledger's heights are in `Ledger`.
