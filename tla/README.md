# TLA+ models of eoscochain

This directory holds TLA+ models of eoscochain, an EOSIO node with an
inter-chain protocol, the TLC configurations that check them on small
instances, and TLAPS proofs of the most important facts. `PROJECT.json` maps
every definition to the source lines it models and lists runs, theorems,
findings and hazards.

## The system

A node receives blocks from peers, keeps the ones that are not yet final in a
tree, follows the best branch, and produces blocks itself when a producer it
hosts has its turn. Which blocks are final is decided by delegated proof of
stake (DPoS): every block confirms a range of earlier blocks, and a block is
irreversible once enough producers confirmed that enough confirmed it.

| Part | Source | State | Operations that change it |
| --- | --- | --- | --- |
| Block header state | `libraries/chain/block_header_state.cpp` | schedules, last blocks produced and implied irreversible blocks per producer, confirmation counts | `generate_next`, `set_confirmed`, `maybe_promote_pending`, `set_new_producers` |
| Schedule proposals | `libraries/chain/controller.cpp` | the proposed schedule in the database | `set_proposed_producers`, `start_block`, `commit_block`, `abort_block` |
| Fork database | `libraries/chain/fork_database.cpp` | a multi-index of block states, its head, the `in_current_chain` marks | `add`, `remove`, `prune`, `set_validity`, `mark_in_current_chain`, `close`, reload |
| Controller | `libraries/chain/controller.cpp` | the head, the chain state with its undo sessions, the reversible blocks | `push_block`, `maybe_switch_forks`, `pop_block`, `apply_block`, `on_irreversible`, `init`, `replay` |
| Block log | `libraries/chain/block_log.cpp` | the file of irreversible blocks | `append` |
| Producer plugin | `plugins/producer_plugin` | watermarks, queues of transactions, production mode | `on_block`, `start_block`, `produce_block`, incoming blocks and transactions |
| Network plugin | `plugins/net_plugin` | sync stage, requested range, peers | handshakes, notices, requests, timeouts |
| Transactions | `controller.cpp`, `transaction_context.cpp`, `apply_context.cpp` | duplicate table, deferred transactions | input, delayed and deferred execution, `onerror`, expiry |
| Resource limits, permissions | `resource_limits.cpp`, `authorization_manager.cpp` | usage, pending limits, permission tree | charging, limit changes, linking |
| Inter-chain protocol | `contracts/icp` | light client of the peer chain, packets, receipts, sequence numbers | `openchannel`, `addblocks`, `sendaction`, `onpacket`, `onreceipt`, `cleanup` |
| Inter-chain token | `contracts/icp.token` | locked amounts, balances | `icptransfer`, `icpreceive`, `icpreceipt`, `icprefund` |
| Relay | `plugins/icp_relay_plugin` | heads of both chains, cached transactions, sessions | signals of the controller, messages of the peer |
| System contracts | `contracts/eosio.*` | stakes, votes, refunds, proposals | actions |

The controller is the centre. `push_block` inserts a block into the fork
database, which computes its header state from its parent's, chooses a new head
and may emit the `irreversible` signal; the controller's handler of that signal
appends to the block log and drops reversible blocks; then the controller moves
its chain state to the new head, by one block or by a fork switch. Plugins
listen to the controller's signals. The main thread runs all of this, so calls
do not interleave with each other, but a process can be killed between any two
of the steps, and blocks arrive in any order.

What makes this hard: producers that leave a schedule and come back, schedules
proposed while another one is pending, fork switches that fail half way, blocks
pruned from one store while another one still refers to them, ties between
branches, and what is found on disk after a crash. `PROJECT.json` lists these
hazards by line, those of the parts not modelled yet included.

## Modules

| Module | Content |
| --- | --- |
| `BlockHeaderState` | header states as records and the four operations as operators |
| `DposChain` | one chain of blocks: start, propose, commit, abort; the DPoS properties |
| `DposHeaderLemmas` | the invariant of header states, and what each operation changes |
| `DposHeaderSteps`, `DposHeaderNext`, `DposHeaderCounts` | that the operations keep the invariant |
| `DposChainProofs` | the inductive invariant of the chain, and the theorems |
| `ForkDatabase` | the fork database as operators on its index, over a fixed tree of blocks |
| `Controller` | one node: blocks, fork switches, irreversibility, replay, crash, restart |
| `MCDposChain`, `MCController` | instances for TLC |

### BlockHeaderState and DposChain

A header state is a record with the C++ field names. `confirm_count`, a vector
of 8-bit counts whose last entry belongs to the block itself, is a function
from block numbers to counts, so that the shift at
`maximum_tracked_dpos_confirmations` is the loss of the smallest number. A
schedule's producers are a set: their order only decides whose slot it is, and
as slots may be missed, any active producer may come next. Hashes, signatures
and Merkle roots are left out.

`DposChain` has one action per step of a block's life in `controller.cpp`.
`begin_block(p, n)` is `start_block` for a header that passed the check in
`block_header_state::next`; `n` is `header.confirmed`, any number of 16 bits
(`0..MaxConfirmed`). The check computes the begin of the confirmed range in 32
bits, and so does `uint32`: for a range longer than the number of the block it
wraps around to a number beyond every block, and the check holds. The node's own
blocks begin their range after the producer plugin's watermark and pass the
check too. `set_proposed_producers` is the call of a contract; calls that the
code answers with -1 change nothing. The code compares lists with their order
and keys; a schedule is a set here, and another list of the same producers may
be proposed, so the comparison restricts nothing. `commit_block` needs the block to become the fork database's head,
as its assertion says; `abort_block` drops the pending block with its database
session. Three history variables record who confirmed a block, how many
producers were scheduled when it was made, and the last block that claimed to
confirm more blocks than its number (`overrun`); no guard reads them. The
confirmers of a block include its own producer, because `set_confirmed` counts
it.

### ForkDatabase and Controller

The tree of blocks that exist in the network is constant: parent, irreversible
number and validity of each block. The index of the fork database is a sequence
in insertion order, since that order breaks the ties of its ordered indices.
`best`, `oldest`, `remove`, `prune` and `fetch_branch_from` are the operations
of the same names, or the ordered index they read.

`Controller` splits `push_block` where durable state changes: `push_block`
inserts (with pruning, the signal and the log), then `extend`, or `pop`, `apply`
and, after an invalid block, `unwind` and `reapply` move the state one block at
a time. `commit_block` is a block produced by the node itself. `crash` kills the
process between two steps and `crash_in_append` inside `on_irreversible`; the
node comes back with `replay_block` and `finish_replay`. `restart` is a clean
shutdown with `close` and a start that reloads the fork database in the order of
its hash. Exceptions are recorded in `failures`, and the node continues the way
the code does.

The chain state is the sequence of blocks applied to it, `committed` the
revision below which chainbase has no undo session left. Chainbase is not in the
repository; `undo` and `commit` follow its use. After a crash the memory-mapped
reversible blocks and the flushed log survive, and the dirty chain state forces
`--replay-blockchain`. A node killed while it wrote to the reversible blocks
finds that database marked as dirty too and has to be started with
`--fix-reversible-blocks` first (`chain_plugin.cpp:510-514`), which copies the
blocks it can read; the model takes all of them to be readable.

`oldest` breaks ties among unmarked blocks by insertion. In the code a block
that was once marked may stay in front of an older one after it was unmarked;
`OldestIsCurrent` shows that there is always a marked block to choose, as long
as no assertion has failed.

Assumptions about the tree are named and evaluated in every run:
`DposAssumption` (the irreversible number is below the block's own number, never
drops along a chain, and of two forks at most one makes the fork's blocks
irreversible) and `ValidAssumption` (producers confirm only what they applied).
The second clause of `DposAssumption` is what the run `dpos_shrink` shows can
fail; the models are separate so that each finding stands alone. Its third
clause is agreement between nodes, which is not established here.

## Runs

| Run | Expected | Question |
| --- | --- | --- |
| `dpos_ranges` | pass | Are confirmations counted once, after the last over-long range, whatever ranges producers confirm, with empty proposals, aborted blocks and a full tracking window? |
| `dpos_rotation` | pass | Is a producer that left the schedule and came back still known to the double-confirmation check, and do schedules follow one another in order? |
| `dpos_quorum` | pass | Do irreversible blocks have a quorum when a quorum is not everybody? |
| `dpos_overrun` | violation | Are confirmations counted once for every range that the header check accepts? |
| `dpos_own_block` | violation | Does a block confirm prior blocks only? |
| `dpos_shrink` | violation | Does every block built on the head become the fork database's head? |
| `controller_forks` | pass | Do state, disk and lookups agree through fork switches, an invalid branch, two crashes and a restart, and does the node settle on the best chain? |
| `fork_db_freed` | violation | Are all blocks older than the irreversible one freed? |
| `controller_replay` | violation | Can a killed node always be started by a replay? |
| `controller_tie` | violation | Do the reversible blocks match the head that a restarted node takes? |
| `controller_partition` | violation | Can the node always leave a branch that parts from the new one right after the irreversible block? |

The three passing DPoS runs share the actions and differ in what they can afford
to vary. `dpos_ranges` lets a block confirm any range of up to seven
blocks that the code accepts, wrapped ones included, with the schedules {}, {alice} and {alice, bob, carol}, eight blocks and a window of
two tracked counts, so that counts fall out of it. `Word` stands for 2^32: TLC's
integers end below it, and any number above `MaxBlock + MaxConfirmed` gives the
same comparisons. Only blocks numbered below `MaxConfirmed` can claim too many,
and the schedule of three starts at block five, so seven is the smallest value
with which a wrapped range counts a producer twice. The other two confirm what
`producer_plugin` confirms: all blocks since the producer's last one, or none
when its watermark is lost. `dpos_rotation` alternates {alice} and {alice, bob}
for eleven blocks; bob's first return after being dropped from the
last-produced table is at block ten. `dpos_quorum` schedules four producers,
where three confirmations and the second smallest implied number decide; ten
blocks are enough for a block made under that schedule to become irreversible.
Interchangeable producers are symmetric. Deadlock is not checked because the
chain ends at `MaxBlock`.

`controller_forks` has fourteen blocks: a trunk of four, a branch `a` that the
node produces itself, the branch `b` that wins and makes blocks irreversible two
at a time once, and a branch `c` with an invalid block in the middle. All
orders of arrival, two crashes and one restart are explored, with one order of
the hashed index (`ForksOrder`, in which the branches are mixed): other orders
break other ties after a restart and are not explored. The branches part
strictly above the irreversible block; parting right after it is the case of
`controller_partition`, whose irreversible numbers come from
`BlockHeaderState` (`PartitionFollowsHeaders` compares them). One restart,
because a second one reaches the state of `controller_tie`. Deadlock is not
checked: a node that has all blocks has nothing left to do.

Liveness (`Converges`) assumes weak fairness of the steps inside `push_block`
and `replay` (the main thread runs them to the end) and strong fairness of the
arrival of valid blocks (peers answer a node that lacks blocks, whatever other
peers send). Crashes and restarts are not fair, and bounded. A node that
refuses to start after an early crash (`controller_replay`) is exempt from
`Converges`, and its failed assertion is the one that `NoAssertionFails` allows.

### What the violations show

Each of these runs states what an assertion, a comment or an option's
description promises, and TLC finds a behaviour in which the code does otherwise.

- `dpos_overrun`: `result.block_num - h.confirmed` wraps around when a header
  claims more blocks than its number. The check for double confirmations holds,
  and the producer is counted again for every tracked block. `confirmed` has 16
  bits, so only the first 65535 blocks of a chain can do this.
- `dpos_own_block`: `block_header.hpp` says that a producer cannot confirm "this"
  block; `set_confirmed` counts the new block's producer for the block itself
  ("confirm the head block too").
- `dpos_shrink`: when a schedule drops a producer, its entry leaves
  `producer_to_last_implied_irb`, and the position that
  `calc_dpos_last_irreversible` reads can hold a smaller number than before. The
  next block then ranks below its parent, and `commit_block`'s assertion fails.
- `fork_db_freed`: `add` prunes one block number per call.
- `controller_replay`: a node killed before the log has its second block is not
  replayed and then refuses to start because of its reversible blocks.
- `controller_tie`: reloading the index changes the order of equals. After an
  invalid block was removed, the fork database and the controller have different
  heads of the same number, and the next start compares only numbers.
- `controller_partition`: the block at which two forks part is pruned because of
  the new head's irreversible number before the old branch is popped. The node
  is left on a block that the next insertion prunes, and then has no head in the
  fork database.

## Proofs

`DposChainProofs` proves for every finite set of producers, any schedules, any
number of blocks and any tracking window:

| Theorem | Statement |
| --- | --- |
| `TypeCorrect` | `Spec => []TypeOK`: in particular no tracked count is zero, so the 8-bit decrement never wraps, and `overrun` is at most `MaxConfirmed` |
| `DistinctConfirmations` | for every block after `overrun`, a tracked count plus the number of distinct confirmers is the quorum the block started with |
| `RememberedConfirmers` | the last-produced table covers every block that an active producer has confirmed, also after it left and came back |
| `QuorumBehindIrreversible` | proposed-irreversible and irreversible blocks after `overrun` have more than two thirds of distinct confirmers, their own producers included |
| `IrreversibleOrder` | irreversible <= proposed irreversible <= head |
| `SchedulesAccepted` | the version assertions of `set_new_producers` never fail, and somebody is always scheduled |
| `ScheduleChanges` | the active schedule changes only to the parent's pending one, and only once the block that made that pending is irreversible |

Up to block `overrun` the facts about confirmers and quorums can fail, as
`dpos_overrun` shows; a chain whose headers never claim more blocks than their
numbers has `overrun` 0, and then they hold for all its blocks.

The inductive invariant `IndInv` says that `HeaderInv` holds of the head, and of
the pending block with the history extended as `commit_block` would extend it.
`HeaderInv` adds to the checked properties what makes them inductive:

- `ConfirmersRemembered`: whoever confirmed block k has a last-produced entry of
  at least k or, having left the schedule, no entry; in the second case k is at
  most `pending_schedule_lib_num` while a schedule is pending. When
  `maybe_promote_pending` brings such a producer back it gives it the
  irreversible number as its last block, which by then has reached
  `pending_schedule_lib_num`, so the producer cannot confirm k again;
- `Counted`: the balance of counts and confirmers, and a quorum behind every
  entry of `producer_to_last_implied_irb`, of which the irreversible number is
  one;
- `Ordered`, `Scheduled`, `VersionFits`: the order of the block numbers, a
  non-empty active schedule, and the version of a proposal.

There is one lemma per header operation (`GenerateNextStep`, `SetConfirmedStep`,
`PromotePreserves`, `SetNewPreserves`), and `NextInd` has one step per action.
`NotYetConfirmed` is where the 32-bit subtraction enters: below the number of the
block it does not wrap, and above it the new block becomes `overrun`, before
which nothing is claimed. `ScheduleChanges` rests on `PendingPromotes`, the same
statement about the pending block.
The assumptions are those named in `BlockHeaderState` and `DposChain`: the
producers are finite and include the system account, schedules are sets of
producers, `MaxBlock` and `MaxTracked` are positive, and a block number and a
confirmed range together fit a word.

Only model-checked: everything about `ForkDatabase` and `Controller`. Liveness is out of TLAPS's reach, as is
induction over the recursive `chain` of `ForkDatabase`; safety of `Controller`
could be proved from assumptions on `Path` and is planned.

## Not modelled

- `fork_database::add(confirmation)` and `bft_irreversible_blocknum`: only
  `unittests/forked_tests.cpp` calls `push_confirmation`, in a node the number
  stays 0.
- Read mode IRREVERSIBLE, snapshots, the block log's index file.
- Execution of transactions: a block is valid or not.
- Virtual machine, serialisation, API, database and wallet plugins, command line
  programs: input and output, or third-party code (see `PROJECT.json`).
- Voting weight and the exchange of the system contract: floating point.

## Plan

1. `ProducerPlugin`: watermarks, production modes and a crash, composed with
   `BlockHeaderState`; then several nodes with fork choice, to examine agreement
   on irreversible blocks (the third clause of `DposAssumption`).
2. `ForkStore`, the light client of `contracts/icp`, over the header states of
   `BlockHeaderState` and Merkle trees as sequences of ids. In this version of
   the source `add_block_header_with_merkle_path` appends the header's own id
   before it compares roots, which headers do not contain.
3. `Icp` on two chains over an abstract light client (verified blocks in order),
   and `IcpToken` composed with it: an abstract specification of a transfer that
   is either executed or released, and the contracts as its refinement.
4. `SyncManager`: stages, chunks, timeouts and lost peers of the network plugin;
   progress as a liveness property.
5. `TransactionQueue`: duplicates, expiry, deferred and failing transactions, in
   the controller and the producer plugin.
6. `Merkle`: the incremental tree against the full one, over bounded inputs.
7. `ResourceLimits`, `Msig`, refunds of `eosio.system`.
8. An abstract specification of the node (a chain whose irreversible prefix only
   grows), and `Controller` as its refinement.
9. Proofs: the safety of `Controller`
   (`StateMatchesHead`, `DurableChain`) from an inductive invariant; sequence
   numbers of `Icp`; conservation in `IcpToken`.
