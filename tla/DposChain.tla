----------------------------- MODULE DposChain -----------------------------
(***************************************************************************)
(* One chain of blocks as controller.cpp builds it: start_block derives    *)
(* the pending block's header state, contracts may propose a producer      *)
(* schedule while it is pending, and the block is committed or aborted.    *)
(* Any producer of the active schedule may take the next turn (the slots   *)
(* between may be missed) and put any number into header.confirmed that    *)
(* block_header_state::next lets through, also one that exceeds the number *)
(* of the block.                                                           *)
(*                                                                         *)
(* A schedule is the set of its producers.  Two lists with the same        *)
(* producers may still differ, in their order or in the signing keys.      *)
(*                                                                         *)
(* While no block is pending, pending and pending_gpo repeat head and gpo. *)
(* confirmers, electorate and overrun are history variables: who confirmed *)
(* a block of the chain, how many producers were scheduled when it was     *)
(* made, and the last block that claimed to confirm more blocks than its   *)
(* number, 0 if there is none.                                             *)
(***************************************************************************)
EXTENDS BlockHeaderState

CONSTANTS Producer,      \* accounts that may be scheduled
          SystemAccount, \* config::system_account_name, the genesis producer
          Schedules,     \* the producer lists contracts propose; {} is not refused
          MaxBlock,      \* bound: blocks are numbered 1..MaxBlock
          MaxConfirmed,  \* the largest uint16_t, the type of header.confirmed
          Word           \* the number of values of a uint32_t

ASSUME ProducerAssumption == IsFiniteSet(Producer) /\ SystemAccount \in Producer
ASSUME SchedulesAssumption == Schedules \subseteq SUBSET Producer
ASSUME MaxBlockAssumption == MaxBlock \in Nat \ {0}
ASSUME WordAssumption == MaxConfirmed \in Nat /\ Word \in Nat /\ MaxBlock + MaxConfirmed < Word

VARIABLES head,          \* header state of the head block
          gpo,           \* proposed schedule in the database as of the head block
          has_pending,   \* whether there is a pending block
          pending,       \* its header state
          pending_gpo,   \* the proposed schedule inside its undo session
          confirmed,     \* header.confirmed of the pending block
          confirmers, electorate, overrun

history == <<confirmers, electorate, overrun>>
vars == <<head, gpo, has_pending, pending, pending_gpo, confirmed, history>>

NoProposal == [block_num |-> 0, schedule |-> [version |-> 0, producers |-> {}]]

genesis ==
  [block_num |-> 1,
   producer |-> SystemAccount,
   producer_to_last_produced |-> [p \in {} |-> 0],
   producer_to_last_implied_irb |-> [p \in {} |-> 0],
   dpos_proposed_irreversible_blocknum |-> 0,
   dpos_irreversible_blocknum |-> 0,
   confirm_count |-> [k \in {} |-> 0],
   active_schedule |-> [version |-> 0, producers |-> {SystemAccount}],
   pending_schedule |-> [version |-> 0, producers |-> {SystemAccount}],
   pending_schedule_lib_num |-> 0]

Init ==
  /\ head = genesis /\ pending = genesis
  /\ gpo = NoProposal /\ pending_gpo = NoProposal
  /\ has_pending = FALSE
  /\ confirmed = 0
  /\ confirmers = [k \in 1..MaxBlock |-> {}]
  /\ electorate = [k \in 1..MaxBlock |-> 0]
  /\ overrun = 0
-----------------------------------------------------------------------------
\* The difference of two block numbers, x, in a uint32_t.
uint32(x) == IF x < 0 THEN x + Word ELSE x

\* Mutant: the range may begin with the producer's own last block.
bug_double_confirm(b, p, n) ==
  p \in DOMAIN b.producer_to_last_produced
    => b.producer_to_last_produced[p] <= uint32(b.block_num + 1 - n)

\* block_header_state::next: the confirmed range begins after the last block
\* this producer made.  The begin of a range that is longer than the number of
\* the block wraps around to a number beyond every block.
no_double_confirm(b, p, n) ==
  p \in DOMAIN b.producer_to_last_produced
    => b.producer_to_last_produced[p] < uint32(b.block_num + 1 - n)

\* The header state of the next block before any new schedule is set.
next_header(b, p, n) == maybe_promote_pending(set_confirmed(generate_next(b, p), n))

was_pending_promoted(b, p, n) == can_promote_pending(set_confirmed(generate_next(b, p), n))

\* There is a proposed schedule, its block is irreversible, and there is room.
can_set_new_producers(b, promoted, g) ==
  /\ g.block_num # 0
  /\ g.block_num <= b.dpos_irreversible_blocknum
  /\ b.pending_schedule.producers = {}
  /\ ~promoted

start_block(p, n) ==
  LET b == next_header(head, p, n)
      set == can_set_new_producers(b, was_pending_promoted(head, p, n), gpo)
  IN  /\ ~has_pending
      /\ head.block_num < MaxBlock
      /\ p \in head.active_schedule.producers
      /\ set => gpo.schedule.version = b.active_schedule.version + 1
      /\ has_pending' = TRUE
      /\ pending' = IF set THEN set_new_producers(b, gpo.schedule) ELSE b
      /\ pending_gpo' = IF set THEN NoProposal ELSE gpo
      /\ confirmed' = n
      /\ UNCHANGED <<head, gpo, history>>

\* The next block is begun: one from a peer, after block_header_state::next has
\* checked its header, or one of this node's, whose range begins after the last
\* block that the producer plugin has signed.
begin_block(p, n) == no_double_confirm(head, p, n) /\ start_block(p, n)

\* Mutant: the version always follows the active schedule.
bug_version_from_active(producers) ==
  /\ has_pending
  /\ pending_gpo.block_num = 0
  /\ pending_gpo' = [block_num |-> head.block_num + 1,
                     schedule |-> [version |-> pending.active_schedule.version + 1,
                                   producers |-> producers]]
  /\ UNCHANGED <<head, gpo, has_pending, pending, confirmed, history>>

\* A contract's call in the pending block.  Calls that return -1 change nothing;
\* the comparisons with the proposed and the current list are among them, but
\* the same producers in another order or with other keys are a new schedule.
set_proposed_producers(producers) ==
  LET base == IF pending.pending_schedule.producers = {} THEN pending.active_schedule
                                                         ELSE pending.pending_schedule
  IN  /\ has_pending
      /\ pending_gpo.block_num # 0 => pending_gpo.block_num = head.block_num + 1
      /\ pending_gpo' = [block_num |-> head.block_num + 1,
                         schedule |-> [version |-> base.version + 1, producers |-> producers]]
      /\ UNCHANGED <<head, gpo, has_pending, pending, confirmed, history>>

\* fork_database::add keeps its blocks by irreversible block number first, so
\* the committed block becomes the head only if that number has not dropped.
becomes_fork_db_head == pending.dpos_irreversible_blocknum >= head.dpos_irreversible_blocknum

\* Block num of producer p confirms the n blocks before it and itself, which
\* set_confirmed counts although block_header.hpp says that a producer cannot
\* confirm "this" block.  The schedule of its parent decides how many
\* confirmations it needs.
AddConfirmer(C, num, p, n) ==
  [k \in DOMAIN C |-> IF k \in (num - n)..num THEN C[k] \cup {p} ELSE C[k]]
AddElectorate(E, parent) ==
  [E EXCEPT ![parent.block_num + 1] = Cardinality(parent.active_schedule.producers)]
AddOverrun(last, num, n) == IF n > num THEN num ELSE last

commit_block ==
  /\ has_pending
  /\ becomes_fork_db_head
  /\ head' = pending
  /\ gpo' = pending_gpo
  /\ has_pending' = FALSE
  /\ confirmers' = AddConfirmer(confirmers, pending.block_num, pending.producer, confirmed)
  /\ electorate' = AddElectorate(electorate, head)
  /\ overrun' = AddOverrun(overrun, pending.block_num, confirmed)
  /\ confirmed' = 0
  /\ UNCHANGED <<pending, pending_gpo>>

\* Also the outcome of a commit_block whose assertion on the new head fails.
abort_block ==
  /\ has_pending
  /\ has_pending' = FALSE
  /\ pending' = head
  /\ pending_gpo' = gpo
  /\ confirmed' = 0
  /\ UNCHANGED <<head, gpo, history>>

Next ==
  \/ \E p \in Producer, n \in 0..MaxConfirmed : begin_block(p, n)
  \/ \E s \in Schedules : set_proposed_producers(s)
  \/ commit_block
  \/ abort_block

Spec == Init /\ [][Next]_vars
-----------------------------------------------------------------------------
BlockNum == 0..MaxBlock
IsMap(m, S, T) == DOMAIN m \subseteq S /\ m \in [DOMAIN m -> T]
ScheduleType == [version : Nat, producers : SUBSET Producer]
ProposalType == [block_num : BlockNum, schedule : ScheduleType]
IsHeaderRecord(b) ==
  DOMAIN b = {"block_num", "producer", "producer_to_last_produced",
              "producer_to_last_implied_irb", "dpos_proposed_irreversible_blocknum",
              "dpos_irreversible_blocknum", "confirm_count", "active_schedule",
              "pending_schedule", "pending_schedule_lib_num"}

IsHeader(b) ==
  /\ IsHeaderRecord(b)
  /\ b.block_num \in 1..MaxBlock
  /\ b.producer \in Producer
  /\ IsMap(b.producer_to_last_produced, Producer, BlockNum)
  /\ IsMap(b.producer_to_last_implied_irb, Producer, BlockNum)
  /\ b.dpos_proposed_irreversible_blocknum \in BlockNum
  /\ b.dpos_irreversible_blocknum \in BlockNum
  /\ IsMap(b.confirm_count, 1..MaxBlock, Nat \ {0})
  /\ b.active_schedule \in ScheduleType
  /\ b.pending_schedule \in ScheduleType
  /\ b.pending_schedule_lib_num \in BlockNum

\* Every variable has its type; in particular no confirmation count that is
\* still tracked is zero, so the uint8_t decremented by set_confirmed never
\* wraps around.  No block numbered beyond a uint16_t claims too long a range.
TypeOK ==
  /\ IsHeader(head) /\ IsHeader(pending)
  /\ gpo \in ProposalType /\ pending_gpo \in ProposalType
  /\ has_pending \in BOOLEAN
  /\ confirmed \in 0..MaxConfirmed
  /\ confirmers \in [1..MaxBlock -> SUBSET Producer]
  /\ electorate \in [1..MaxBlock -> Nat]
  /\ overrun \in BlockNum /\ overrun <= MaxConfirmed

\* k's count, and the distinct producers that confirmed it, its own included,
\* make up the quorum it started with.
Accounted(k) ==
  head.confirm_count[k] + Cardinality(confirmers[k]) = required_confs(electorate[k])

\* set_confirmed counts every producer once, for every block after the last one
\* that claimed more blocks than its number: what is left of a tracked count
\* plus the distinct producers that confirmed the block is the quorum the
\* block started with.  It takes the last-produced table to survive schedule
\* changes in which producers leave and come back.
ConfirmationsAreDistinct ==
  \A k \in DOMAIN head.confirm_count : k > overrun => Accounted(k)

\* "producer ${prod} double-confirming known range" (block_header_state.cpp)
\* otherwise: no header that block_header_state::next accepts counts a producer
\* twice for a block.
KnownRangeConfirmedOnce == \A k \in DOMAIN head.confirm_count : Accounted(k)

\* "A producer cannot confirm "this" block, only prior blocks"
\* (block_header.hpp): the newest block still needs its whole quorum.
OnlyPriorBlocksConfirmed ==
  head.block_num \in DOMAIN head.confirm_count =>
    head.confirm_count[head.block_num] = required_confs(electorate[head.block_num])

\* The check for double confirmations in block_header_state::next covers every
\* block that the next producer, whoever it is, has confirmed on this chain:
\* also one that was dropped from the last-produced table by
\* maybe_promote_pending and was scheduled again later.
ConfirmersAreRemembered ==
  \A p \in head.active_schedule.producers : \A k \in 1..MaxBlock :
    p \in confirmers[k] =>
      /\ p \in DOMAIN head.producer_to_last_produced
      /\ k <= head.producer_to_last_produced[p]

HasQuorum(k) == k > overrun => 3 * Cardinality(confirmers[k]) > 2 * electorate[k]

\* A block number that set_confirmed proposes as irreversible, or that
\* calc_dpos_last_irreversible makes irreversible, names a block that was
\* confirmed by more than two thirds as many distinct producers, its own one
\* included, as were scheduled when it was made; or one up to the last block
\* that claimed more blocks than its number.
IrreversibleHasQuorum ==
  /\ HasQuorum(head.dpos_proposed_irreversible_blocknum)
  /\ HasQuorum(head.dpos_irreversible_blocknum)

\* The irreversible block is at or before the proposed irreversible one.
IrreversibleBehindProposed ==
  /\ head.dpos_irreversible_blocknum <= head.dpos_proposed_irreversible_blocknum
  /\ head.dpos_proposed_irreversible_blocknum <= head.block_num

\* start_block never trips over the assertions of set_new_producers: when the
\* proposed schedule in the database gets its turn, its version is the one
\* after the schedule active by then, whether it was proposed before or
\* after its predecessor became active.
ProposedVersionFits ==
  gpo.block_num # 0 =>
    gpo.schedule.version =
      1 + (IF head.pending_schedule.producers = {} THEN head.active_schedule.version
                                                   ELSE head.pending_schedule.version)

\* There is always somebody to produce: get_scheduled_producer divides by the
\* number of active producers, and the host function that proposes schedules
\* does not refuse an empty one.
SomebodyProduces == head.active_schedule.producers # {}

\* The active schedule changes only to the schedule that was pending in the
\* parent block, and only once the block that made it pending is irreversible.
ActiveScheduleStep ==
  head'.active_schedule # head.active_schedule =>
    /\ head'.active_schedule = head.pending_schedule
    /\ head'.dpos_irreversible_blocknum >= head.pending_schedule_lib_num
    /\ head'.active_schedule.version <= head.active_schedule.version + 1
ScheduleChangesWhenIrreversible == [][ActiveScheduleStep]_vars

\* The assertion of commit_block: a block built on the head becomes the new
\* head of the fork database.
CommittedBlockBecomesHead == has_pending => becomes_fork_db_head
=============================================================================
