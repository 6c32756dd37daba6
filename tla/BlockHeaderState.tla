-------------------------- MODULE BlockHeaderState --------------------------
(***************************************************************************)
(* libraries/chain/block_header_state.cpp: how the header state of a block *)
(* follows from the header state of its parent.  The operators below map a *)
(* header state (a record with the fields of struct block_header_state)    *)
(* to the next one; they have no state of their own.                       *)
(*                                                                         *)
(* A schedule is [version, producers]; producers is a set, the order       *)
(* of the C++ vector only decides whose turn a time slot is, and a slot may *)
(* be skipped, so every active producer may be the next one.  Producers    *)
(* stand for their signing keys and a header for its hash.                 *)
(*                                                                         *)
(* confirm_count is a vector whose last entry belongs to this block and    *)
(* whose earlier entries belong to its ancestors: here it is a function    *)
(* from those block numbers to the confirmations they still need.          *)
(***************************************************************************)
EXTENDS Integers, FiniteSets

CONSTANT MaxTracked   \* config::maximum_tracked_dpos_confirmations

ASSUME MaxTrackedAssumption == MaxTracked \in Nat \ {0}

\* The largest element of a set of integers.
MaxOf(S) == CHOOSE x \in S : \A y \in S : y <= x

\* m[k] = v on a flat_map.
Put(m, k, v) == [x \in DOMAIN m \cup {k} |-> IF x = k THEN v ELSE m[x]]

required_confs(n) == (n * 2) \div 3 + 1

\* The entry at index (size - 1) / 3 of the sorted implied irreversible block
\* numbers: the largest of them with at most (size - 1) / 3 smaller ones.
calc_dpos_last_irreversible(irb) ==
  IF DOMAIN irb = {} THEN 0
  ELSE MaxOf({v \in {irb[p] : p \in DOMAIN irb} :
                Cardinality({p \in DOMAIN irb : irb[p] < v})
                  <= (Cardinality(DOMAIN irb) - 1) \div 3})

\* Mutant: a block implies the irreversibility of its parent.
bug_implies_parent(b, p) == Put(b.producer_to_last_implied_irb, p, b.block_num)

\* A block implies the irreversibility of what its parent proposed.
implied_irb(b, p) ==
  Put(b.producer_to_last_implied_irb, p, b.dpos_proposed_irreversible_blocknum)

\* The counts of the newest MaxTracked - 1 blocks and that of the new block,
\* which needs a quorum of the schedule that was active in its parent.
grow_confirm_count(b) ==
  LET num == b.block_num + 1
      older == {k \in DOMAIN b.confirm_count : k > num - MaxTracked}
  IN  [k \in older \cup {num} |->
         IF k = num THEN required_confs(Cardinality(b.active_schedule.producers))
                    ELSE b.confirm_count[k]]

generate_next(b, p) ==
  [b EXCEPT !.block_num = b.block_num + 1,
            !.producer = p,
            !.producer_to_last_produced = Put(b.producer_to_last_produced, p, b.block_num + 1),
            !.producer_to_last_implied_irb = implied_irb(b, p),
            !.dpos_irreversible_blocknum = calc_dpos_last_irreversible(implied_irb(b, p)),
            !.confirm_count = grow_confirm_count(b)]

\* Mutant: one block more than it may.
bug_confirms_one_more(b, n) ==
  [k \in DOMAIN b.confirm_count |->
     IF k + 1 >= b.block_num - n THEN b.confirm_count[k] - 1 ELSE b.confirm_count[k]]

\* The block confirms itself and the n blocks before it.
decrement(b, n) ==
  [k \in DOMAIN b.confirm_count |->
     IF k >= b.block_num - n THEN b.confirm_count[k] - 1 ELSE b.confirm_count[k]]

\* Mutant: one confirmation short of the quorum is enough.
bug_one_short(b, n) ==
  {k \in DOMAIN b.confirm_count : k >= b.block_num - n /\ decrement(b, n)[k] <= 1}

\* The blocks that got their last confirmation.
completed(b, n) ==
  {k \in DOMAIN b.confirm_count : k >= b.block_num - n /\ decrement(b, n)[k] = 0}

\* Mutant: a count that reached zero is kept.
bug_keeps_zero(b, n) == [b EXCEPT !.confirm_count = decrement(b, n)]

\* The newest completed block becomes the proposed irreversible block, and the
\* counts up to it are dropped.
set_confirmed(b, n) ==
  IF completed(b, n) = {}
  THEN [b EXCEPT !.confirm_count = decrement(b, n)]
  ELSE LET newest == MaxOf(completed(b, n))
       IN  [b EXCEPT !.dpos_proposed_irreversible_blocknum = newest,
                     !.confirm_count = [k \in {k \in DOMAIN b.confirm_count : k > newest} |->
                                          decrement(b, n)[k]]]

\* Mutants: without the test for a pending schedule, and for its block.
bug_promotes_nothing(b) == b.dpos_irreversible_blocknum >= b.pending_schedule_lib_num
bug_promotes_early(b) == b.pending_schedule.producers # {}

can_promote_pending(b) ==
  /\ b.pending_schedule.producers # {}
  /\ b.dpos_irreversible_blocknum >= b.pending_schedule_lib_num

\* Mutant: every producer starts from the irreversible block.
bug_forgets(b, m) == [p \in b.pending_schedule.producers |-> b.dpos_irreversible_blocknum]

\* A producer that was not active before starts from the irreversible block.
carry_over(b, m) ==
  [p \in b.pending_schedule.producers |->
     IF p \in DOMAIN m THEN m[p] ELSE b.dpos_irreversible_blocknum]

maybe_promote_pending(b) ==
  IF can_promote_pending(b)
  THEN [b EXCEPT !.active_schedule = b.pending_schedule,
                 !.pending_schedule = [b.pending_schedule EXCEPT !.producers = {}],
                 !.producer_to_last_produced =
                    Put(carry_over(b, b.producer_to_last_produced), b.producer, b.block_num),
                 !.producer_to_last_implied_irb = carry_over(b, b.producer_to_last_implied_irb)]
  ELSE b

set_new_producers(b, schedule) ==
  [b EXCEPT !.pending_schedule = schedule, !.pending_schedule_lib_num = b.block_num]
=============================================================================
