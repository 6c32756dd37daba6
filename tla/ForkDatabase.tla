---------------------------- MODULE ForkDatabase ----------------------------
(***************************************************************************)
(* libraries/chain/fork_database.cpp: the tree of blocks that are not yet  *)
(* irreversible, as operators on its index.                                *)
(*                                                                         *)
(* The index is a boost multi_index of block states.  It is modelled by    *)
(* the sequence of its blocks in insertion order, because that order       *)
(* breaks the ties of the ordered indices by_lib_block_num and             *)
(* by_block_num.  What never changes about a block (its parent, number and *)
(* irreversible block number) is constant; bft_irreversible_blocknum stays *)
(* 0, as only the unit tests call push_confirmation.                       *)
(***************************************************************************)
EXTENDS Naturals, Sequences, FiniteSets, SequencesExt

CONSTANTS
  Block,      \* the blocks that exist anywhere in the network
  Genesis,
  Parent,     \* header.previous, a function on Block \ {Genesis}
  Irr,        \* dpos_irreversible_blocknum of each block
  HashOrder   \* all blocks, in the order of the hashed index by_block_id

\* The chain that ends with a block, from the genesis block on.
chain[b \in Block] == IF b = Genesis THEN <<b>> ELSE Append(chain[Parent[b]], b)
Path == [b \in Block |-> chain[b]]

Num == [b \in Block |-> Len(Path[b])]

Extends(b, a) == Num[a] <= Num[b] /\ Path[b][Num[a]] = a

\* The first number at which the chains of a and b differ; they must differ.
ForkNum(a, b) ==
  CHOOSE n \in 1..Num[a] : /\ n <= Num[b] /\ Path[a][n] # Path[b][n]
                           /\ \A k \in 1..(n-1) : Path[a][k] = Path[b][k]

Forked(a, b) == ~Extends(a, b) /\ ~Extends(b, a)

ASSUME TreeAssumption ==
  /\ Genesis \in Block /\ Parent \in [Block \ {Genesis} -> Block]
  /\ Irr \in [Block -> Nat]
  /\ ToSet(HashOrder) = Block /\ Len(HashOrder) = Cardinality(Block)

\* What DPoS promises of the blocks: a block is not irreversible in itself, its
\* irreversible block is not older than its parent's, and of two forks at most
\* one is irreversible from the block at which they part.
ASSUME DposAssumption ==
  /\ \A b \in Block : Irr[b] < Num[b]
  /\ \A b \in Block \ {Genesis} : Irr[Parent[b]] <= Irr[b]
  /\ \A a, b \in Block : Forked(a, b) =>
       Irr[a] < ForkNum(a, b) \/ Irr[b] < ForkNum(a, b)

-----------------------------------------------------------------------------
\* The order of by_lib_block_num.
Better(a, b) == Irr[a] > Irr[b] \/ (Irr[a] = Irr[b] /\ Num[a] > Num[b])

\* Mutant: the longest chain wins, whatever it makes irreversible.
bug_longest(index) ==
  index[Min({i \in DOMAIN index : \A j \in DOMAIN index : Num[index[j]] <= Num[index[i]]})]

\* *index.get<by_lib_block_num>().begin()
best(index) ==
  index[Min({i \in DOMAIN index : \A j \in DOMAIN index : ~Better(index[j], index[i])})]

\* *index.get<by_block_num>().begin(), given the blocks with in_current_chain.
\* Among unmarked blocks of the lowest number the first one inserted is taken;
\* in the code one that was marked before may have kept its place in front of it.
\* OldestIsCurrent says that this case does not arise before an assertion fails.
oldest(index, current) ==
  LET lowest == {i \in DOMAIN index : \A j \in DOMAIN index : Num[index[i]] <= Num[index[j]]}
      marked == {i \in lowest : index[i] \in current}
  IN  index[Min(IF marked = {} THEN lowest ELSE marked)]

\* A block and everything built on it leaves the index.
remove(index, h) == SelectSeq(index, LAMBDA b : ~Extends(b, h))

\* The oldest block h leaves the index, and so do the other blocks with its
\* number with everything built on them.
prune(index, h) ==
  SelectSeq(index, LAMBDA b : b # h /\ \A a \in ToSet(index) \ {h} : Num[a] = Num[h] => ~Extends(b, a))

\* Mutant: only the best chain can be extended.
bug_no_forks(index, b) == b \notin ToSet(index) /\ b # Genesis /\ Parent[b] = best(index)

\* add(block): a block that is already known, or whose parent is not, is refused.
linkable(index, b) ==
  /\ b \notin ToSet(index)
  /\ b # Genesis /\ Parent[b] \in ToSet(index)

\* Mutant: the irreversible block itself is pruned too.
bug_prunes_lib(index, h) == Num[h] <= Irr[best(index)]

\* add(block state): after the insertion, is the oldest block to be pruned?
prunes(index, h) == Num[h] < Irr[best(index)]

\* fetch_branch_from: the blocks of each chain above the last common one, or
\* the shorter one's head on both when one chain extends the other.  They are
\* listed from the oldest on; the code collects them from the newest.
fetch_branch_from(a, b) ==
  LET n == CHOOSE n \in 1..Num[a] :
             IF Forked(a, b) THEN n = ForkNum(a, b)
                             ELSE n = (IF Num[a] < Num[b] THEN Num[a] ELSE Num[b])
  IN  [first |-> SubSeq(Path[a], n, Num[a]), second |-> SubSeq(Path[b], n, Num[b])]

\* The blocks with number n and in_current_chain; the first one is returned.
get_block_in_current_chain_by_num(index, current, n) ==
  SelectSeq(index, LAMBDA b : Num[b] = n /\ b \in current)
=============================================================================
