----------------------------- MODULE Controller -----------------------------
(***************************************************************************)
(* libraries/chain/controller.cpp: how a node applies blocks, switches     *)
(* between forks, makes blocks irreversible, stops, crashes and restarts.  *)
(*                                                                         *)
(* The node is single threaded, so push_block runs without interference    *)
(* but it may be killed anywhere.  One action is one block applied or      *)
(* popped, the points between which durable state changes.  Durable are    *)
(* the block log and the database of reversible blocks; the fork database  *)
(* and the chain state survive a clean shutdown only.  An exception leaves *)
(* push_block, is logged by its caller, and the node goes on.              *)
(*                                                                         *)
(* The chain state is modelled by the sequence of blocks whose undo        *)
(* sessions it contains.  The pending block is built and committed in one  *)
(* action, as nothing of it outlives abort_block; DposChain models it.     *)
(* Blocks with an invalid header never enter the fork database and are left *)
(* out.  Read mode IRREVERSIBLE and snapshots are not modelled.             *)
(***************************************************************************)
EXTENDS ForkDatabase

CONSTANTS
  Valid,        \* the blocks whose transactions apply
  Own,          \* the blocks this node produces
  MaxCrashes,   \* bound on crashes
  MaxRestarts   \* bound on clean restarts

ASSUME ControllerAssumption ==
  /\ Genesis \in Valid /\ Valid \subseteq Block /\ Own \subseteq Valid
  /\ MaxCrashes \in Nat /\ MaxRestarts \in Nat

\* Producers confirm what they have applied: what a block makes irreversible
\* is valid.
ASSUME ValidAssumption == \A b \in Block : \A n \in 1..Irr[b] : Path[b][n] \in Valid

VARIABLES
  index,        \* fork_db: the blocks stored, in insertion order
  fork_head,    \* fork_db.head()
  current,      \* the blocks marked in_current_chain
  head,         \* controller_impl::head
  db,           \* the blocks applied to the chain state
  committed,    \* the revision up to which db can no longer be undone
  reversible,   \* reversible_blocks: number -> block
  blog,         \* the block log
  replaying,    \* inside replay()
  phase,        \* where push_block is
  branches,     \* the branches of the fork switch under way
  produced,     \* the blocks of Own that exist already
  failures,     \* the assertions that ever failed
  crashes, restarts

memory == <<index, fork_head, current, head, db, committed>>
vars == <<memory, reversible, blog, replaying, phase, branches, produced, failures, crashes, restarts>>

Stored == ToSet(index)
NoBranches == [first |-> <<>>, second |-> <<>>]

Phases == {"idle", "extend", "pop", "apply", "unwind", "reapply", "refused"}
Failures == {"unlinkable log", "pop", "branch", "commit", "reapply", "replay", "restart", "start"}

Init ==
  /\ index = <<Genesis>> /\ fork_head = Genesis /\ current = {}
  /\ head = Genesis /\ db = <<Genesis>> /\ committed = 1
  /\ reversible = <<>> /\ blog = <<Genesis>>
  /\ replaying = FALSE /\ phase = "idle" /\ branches = NoBranches
  /\ produced = {} /\ failures = {} /\ crashes = 0 /\ restarts = 0

-----------------------------------------------------------------------------
\* Chainbase, external: undo does nothing when no undo session is left, and
\* commit drops the sessions up to a revision.
undo(state, done) == IF Len(state) > done THEN Front(state) ELSE state
commit(state, done, n) == IF n <= done THEN done ELSE IF n <= Len(state) THEN n ELSE Len(state)

\* on_irreversible: a block that is not in the log must extend it.
to_append(h) == Num[h] > Len(blog)
links(h) == Num[h] = Len(blog) + 1 /\ Parent[h] = Last(blog)

\* Mutant: all reversible blocks are dropped, not only those up to h.
bug_drops_reversible(h) ==
  [committed |-> commit(db, committed, Num[h]),
   blog |-> IF to_append(h) THEN Append(blog, h) ELSE blog,
   reversible |-> <<>>]

on_irreversible(h) ==
  [committed |-> commit(db, committed, Num[h]),
   blog |-> IF to_append(h) THEN Append(blog, h) ELSE blog,
   reversible |-> [n \in {n \in DOMAIN reversible : n > Num[h]} |-> reversible[n]]]

\* fork_db.add(b) with the irreversible signal that it may emit.  A block that
\* does not link to the log throws out of the signal, before it is erased.
fork_db_add(b) ==
  LET added == Append(index, b)
      h == oldest(added, current)
      kept == [committed |-> committed, blog |-> blog, reversible |-> reversible]
  IN  IF ~prunes(added, h)
      THEN [index |-> added, log |-> kept, thrown |-> FALSE]
      ELSE IF to_append(h) /\ ~links(h)
      THEN [index |-> added, log |-> kept, thrown |-> TRUE]
      ELSE [index |-> prune(added, h), log |-> on_irreversible(h), thrown |-> FALSE]

\* maybe_switch_forks, up to the first block it pops or applies.
maybe_switch_forks(stored, new_head) ==
  LET switch == fetch_branch_from(new_head, head)
  IN  \/ /\ new_head # Genesis /\ Parent[new_head] = head
         /\ phase' = "extend"
         /\ UNCHANGED <<branches, failures>>
      \/ /\ new_head = head
         /\ UNCHANGED <<phase, branches, failures>>
      \/ /\ new_head # head /\ (new_head = Genesis \/ Parent[new_head] # head)
         /\ IF ToSet(switch.first) \cup ToSet(switch.second) \subseteq stored
            THEN phase' = "pop" /\ branches' = switch /\ UNCHANGED failures
            ELSE failures' = failures \cup {"branch"} /\ UNCHANGED <<phase, branches>>

\* push_block, up to maybe_switch_forks.
accept(b) ==
  \E add \in {fork_db_add(b)} : \E new_head \in {best(add.index)} :
    /\ index' = add.index /\ fork_head' = new_head
    /\ current' = current \cap ToSet(add.index)
    /\ committed' = add.log.committed /\ blog' = add.log.blog /\ reversible' = add.log.reversible
    /\ IF add.thrown
       THEN failures' = failures \cup {"unlinkable log"} /\ UNCHANGED <<phase, branches>>
       ELSE maybe_switch_forks(ToSet(add.index), new_head)
    /\ UNCHANGED <<head, db, replaying, crashes, restarts>>

Ready == phase = "idle" /\ ~replaying

\* A block arrives from a peer, in any order, more than once or never.
push_block(b) ==
  /\ Ready /\ linkable(index, b)
  /\ b \in Own => b \in produced
  /\ accept(b)
  /\ UNCHANGED produced

-----------------------------------------------------------------------------
\* apply_block succeeds when start_block finds the state at the head, the block
\* executes to the id it claims, and reversible_blocks has room for its number.
can_apply(b) ==
  /\ Len(db) = Num[head]
  /\ b \in Valid /\ Parent[b] = head
  /\ replaying \/ Num[b] \notin DOMAIN reversible

Create(blocks, b) ==
  [n \in DOMAIN blocks \cup {Num[b]} |-> IF n = Num[b] THEN b ELSE blocks[n]]

\* apply_block with the mark_in_current_chain that follows it.  Blocks replayed
\* from the log have no undo session.
apply_block(b) ==
  /\ db' = Append(db, b) /\ head' = b
  /\ current' = current \cup {b}
  /\ reversible' = IF replaying THEN reversible ELSE Create(reversible, b)
  /\ committed' = IF replaying /\ Num[b] <= Len(blog) THEN Num[b] ELSE committed
  /\ UNCHANGED <<index, fork_head>>

\* Mutant: the head of the fork database is not chosen again.
bug_keeps_head(b) ==
  /\ index' = remove(index, b)
  /\ current' = current \cap ToSet(index')
  /\ UNCHANGED <<fork_head, head, db, committed, reversible>>

\* set_validity(b, false)
set_invalid(b) ==
  /\ index' = remove(index, b) /\ fork_head' = best(index')
  /\ current' = current \cap ToSet(index')
  /\ UNCHANGED <<head, db, committed, reversible>>

\* The head extends the chain.
extend ==
  /\ phase = "extend"
  /\ phase' = "idle"
  /\ \/ can_apply(fork_head) /\ apply_block(fork_head) /\ UNCHANGED failures
     \/ /\ ~can_apply(fork_head) /\ set_invalid(fork_head)
        /\ failures' = IF replaying THEN failures \cup {"replay"} ELSE failures
  /\ UNCHANGED <<blog, replaying, branches, produced, crashes, restarts>>

\* Mutant: the chain state is not undone.
bug_keeps_state ==
  /\ reversible' = [n \in DOMAIN reversible \ {Num[head]} |-> reversible[n]]
  /\ head' = Parent[head]
  /\ UNCHANGED db

\* Mutant: the popped block stays in the database of reversible blocks.
bug_keeps_popped ==
  /\ head' = Parent[head] /\ db' = undo(db, committed)
  /\ UNCHANGED reversible

pop_block ==
  /\ reversible' = [n \in DOMAIN reversible \ {Num[head]} |-> reversible[n]]
  /\ head' = Parent[head]
  /\ db' = undo(db, committed)

\* Mutant: a block that is undone stays marked.
bug_keeps_mark == UNCHANGED current

\* Mutant: every block loses its mark.
bug_unmarks_all == current' = {}

\* mark_in_current_chain(head, false)
unmark_head == current' = current \ {head}

ForkPoint == Parent[branches.second[1]]

\* One block is marked as not current and popped; in the end the loop goes on
\* with next.  A parent that is not in the fork database throws.
pop_head(next) ==
  /\ unmark_head
  /\ IF Parent[head] \in Stored
     THEN /\ pop_block
          /\ phase' = IF Parent[head] = ForkPoint THEN next ELSE phase
          /\ UNCHANGED <<branches, failures>>
     ELSE /\ failures' = failures \cup {"pop"}
          /\ phase' = "idle" /\ branches' = NoBranches
          /\ UNCHANGED <<reversible, head, db>>
  /\ UNCHANGED <<index, fork_head, committed, blog, replaying, produced, crashes, restarts>>

pop == phase = "pop" /\ pop_head("apply")
unwind == phase = "unwind" /\ pop_head("reapply")

\* The block of a branch that comes after the head.
NextOf(branch) == branch[Num[head] + 2 - Num[branch[1]]]

\* A block of the branch is on the chain; the last one ends the switch.
advance(branch) ==
  /\ apply_block(NextOf(branch))
  /\ IF NextOf(branch) = Last(branch)
     THEN phase' = "idle" /\ branches' = NoBranches
     ELSE UNCHANGED <<phase, branches>>
  /\ UNCHANGED failures

\* The new branch is applied; a block that fails is removed with its successors.
apply ==
  /\ phase = "apply"
  /\ \/ can_apply(NextOf(branches.first)) /\ advance(branches.first)
     \/ /\ ~can_apply(NextOf(branches.first))
        /\ set_invalid(NextOf(branches.first))
        /\ phase' = IF head = ForkPoint THEN "reapply" ELSE "unwind"
        /\ UNCHANGED <<branches, failures>>
  /\ UNCHANGED <<blog, replaying, produced, crashes, restarts>>

\* The old branch is applied again; the code does not expect this to throw.
reapply ==
  /\ phase = "reapply"
  /\ IF can_apply(NextOf(branches.second)) THEN advance(branches.second)
     ELSE /\ failures' = failures \cup {"reapply"}
          /\ phase' = "idle" /\ branches' = NoBranches
          /\ UNCHANGED <<memory, reversible>>
  /\ UNCHANGED <<blog, replaying, produced, crashes, restarts>>

\* This node produces a block on its head: start_block ... commit_block(true).
\* The head is set to that of the fork database before the two are compared.
commit_block(b) ==
  LET add == fork_db_add(b)
      done == ~add.thrown /\ best(add.index) = b /\ Num[b] \notin DOMAIN add.log.reversible
  IN  /\ Ready /\ b \in Own \ produced /\ b \notin Stored
      /\ Parent[b] = head /\ Len(db) = Num[head]
      /\ produced' = produced \cup {b}
      /\ index' = add.index /\ fork_head' = best(add.index)
      /\ current' = (current \cup {b}) \cap ToSet(add.index)
      /\ committed' = add.log.committed /\ blog' = add.log.blog
      /\ head' = IF add.thrown THEN head ELSE best(add.index)
      /\ db' = IF done THEN Append(db, b) ELSE db
      /\ reversible' = IF done THEN Create(add.log.reversible, b) ELSE add.log.reversible
      /\ failures' = IF done THEN failures ELSE failures \cup {"commit"}
      /\ UNCHANGED <<replaying, phase, branches, crashes, restarts>>

-----------------------------------------------------------------------------
\* init: the newest reversible block, or else the end of the log, is the head.
consistent(log, blocks, h) ==
  IF DOMAIN blocks # {}
  THEN Num[h] \in DOMAIN blocks /\ \A n \in DOMAIN blocks : n <= Num[h]
  ELSE Len(log) = Num[h]

\* The process is killed and started again with --replay-blockchain: the chain
\* state and the fork database are those of the genesis block.  init replays
\* only when the log goes beyond the genesis block; otherwise its assertion on
\* the reversible blocks decides at once.
start_replay(log) ==
  /\ index' = <<Genesis>> /\ fork_head' = Genesis /\ current' = {}
  /\ head' = Genesis /\ db' = <<Genesis>> /\ committed' = 1
  /\ blog' = log /\ branches' = NoBranches
  /\ replaying' = (Len(log) > 1)
  /\ IF Len(log) > 1 \/ consistent(log, reversible, Genesis)
     THEN phase' = "idle" /\ UNCHANGED failures
     ELSE phase' = "refused" /\ failures' = failures \cup {"start"}
  /\ UNCHANGED <<reversible, produced>>

crash ==
  /\ phase # "refused" /\ crashes < MaxCrashes
  /\ crashes' = crashes + 1
  /\ start_replay(blog)
  /\ UNCHANGED restarts

\* The process is killed in on_irreversible, between the append to the log and
\* the removal of the reversible blocks.
crash_in_append(b) ==
  LET h == oldest(Append(index, b), current)
  IN  /\ Ready /\ linkable(index, b) /\ (b \in Own => b \in produced)
      /\ crashes < MaxCrashes
      /\ prunes(Append(index, b), h) /\ to_append(h) /\ links(h)
      /\ crashes' = crashes + 1
      /\ start_replay(Append(blog, h))
      /\ UNCHANGED restarts

\* replay(): the blocks of the log, then the reversible ones.
replay_block ==
  /\ phase = "idle" /\ replaying
  /\ \/ Num[head] < Len(blog) /\ accept(blog[Num[head] + 1])
     \/ /\ Num[head] >= Len(blog) /\ Num[head] + 1 \in DOMAIN reversible
        /\ accept(reversible[Num[head] + 1])
  /\ UNCHANGED produced

finish_replay ==
  /\ phase = "idle" /\ replaying
  /\ Num[head] >= Len(blog) /\ Num[head] + 1 \notin DOMAIN reversible
  /\ replaying' = FALSE
  /\ IF consistent(blog, reversible, head)
     THEN UNCHANGED <<phase, failures>>
     ELSE phase' = "refused" /\ failures' = failures \cup {"replay"}
  /\ UNCHANGED <<memory, reversible, blog, branches, produced, crashes, restarts>>

\* close() writes the fork database and then makes its oldest block irreversible,
\* which is allowed now for the irreversible block itself.
close ==
  LET h == oldest(index, current)
  IN  IF Num[h] <= Irr[fork_head] /\ (to_append(h) => links(h)) THEN on_irreversible(h)
      ELSE [committed |-> committed, blog |-> blog, reversible |-> reversible]

close_throws ==
  LET h == oldest(index, current) IN Num[h] <= Irr[fork_head] /\ to_append(h) /\ ~links(h)

\* A clean shutdown and start: the fork database is read in the order of its
\* hashed index, the head is its head, surplus undo sessions are undone.
restart ==
  /\ Ready /\ restarts < MaxRestarts
  /\ restarts' = restarts + 1
  /\ committed' = close.committed /\ blog' = close.blog /\ reversible' = close.reversible
  /\ index' = SelectSeq(HashOrder, LAMBDA b : b \in Stored)
  /\ head' = fork_head
  /\ IF /\ ~close_throws
        /\ consistent(close.blog, close.reversible, fork_head)
        /\ Len(db) >= Num[fork_head]
     THEN db' = SubSeq(db, 1, Num[fork_head]) /\ UNCHANGED <<phase, failures>>
     ELSE phase' = "refused" /\ failures' = failures \cup {"restart"} /\ UNCHANGED db
  /\ UNCHANGED <<fork_head, current, replaying, branches, produced, crashes>>

Step == extend \/ pop \/ apply \/ unwind \/ reapply \/ replay_block \/ finish_replay

Next ==
  \/ \E b \in Block : push_block(b) \/ commit_block(b) \/ crash_in_append(b)
  \/ Step
  \/ crash
  \/ restart

Spec == Init /\ [][Next]_vars

\* Blocks that a correct node may end on: valid chains that exist.
Good(b) == ToSet(Path[b]) \subseteq Valid /\ ToSet(Path[b]) \cap Own \subseteq produced

\* The node does not stop in the middle of push_block or replay, and peers go
\* on sending it valid blocks, whatever else they send.
FairSpec ==
  /\ Spec
  /\ WF_vars(Step)
  /\ SF_vars(\E b \in Block : Good(b) /\ push_block(b))

-----------------------------------------------------------------------------
\* The state variables have the types of the fields they model.
TypeOK ==
  /\ IsInjective(index) /\ Stored \subseteq Block
  /\ fork_head \in Stored /\ current \subseteq Stored
  /\ head \in Block /\ ToSet(db) \subseteq Block /\ committed \in 1..Len(db)
  /\ DOMAIN reversible \subseteq 1..Cardinality(Block)
  /\ \A n \in DOMAIN reversible : reversible[n] \in Block
  /\ ToSet(blog) \subseteq Block
  /\ replaying \in BOOLEAN /\ phase \in Phases
  /\ ToSet(branches.first) \cup ToSet(branches.second) \subseteq Block
  /\ produced \subseteq Own /\ failures \subseteq Failures
  /\ crashes \in 0..MaxCrashes /\ restarts \in 0..MaxRestarts

\* The chain state is that of the head's chain at every step of push_block, of a
\* fork switch, of its reversal and of a replay: pop_block undoes exactly what
\* apply_block did, and nothing that was committed has to be undone.
StateMatchesHead == db = Path[head]

\* What is on disk is a chain, whenever the process is killed: the log and the
\* reversible blocks above it.  Unless it is replaying, they end with the head.
DurableChain ==
  LET last == CHOOSE n \in {Len(blog)} \cup DOMAIN reversible :
                \A k \in {Len(blog)} \cup DOMAIN reversible : k <= n
      end == IF last \in DOMAIN reversible /\ last > Len(blog) THEN reversible[last] ELSE Last(blog)
  IN  /\ Len(Path[end]) = last
      /\ \A n \in 1..last : /\ n <= Len(blog) => Path[end][n] = blog[n]
                            /\ n > Len(blog) => n \in DOMAIN reversible /\ reversible[n] = Path[end][n]
      /\ Ready => end = head

\* Between two calls no block that the fork database keeps is better than the
\* head, also after a switch that failed half way and was reversed.
HeadIsBest == Ready => head \in Stored /\ \A b \in Stored : ~Better(b, head)

\* Between two calls fetch_block_by_number finds every block of the head's chain,
\* in the fork database or the log, and no block above the head.
fetch_block_by_number(n) ==
  LET found == get_block_in_current_chain_by_num(index, current, n)
  IN  IF found # <<>> THEN Head(found) ELSE IF n <= Len(blog) THEN blog[n] ELSE "null"

BlocksByNumber ==
  Ready => \A n \in 1..Cardinality(Block) :
    fetch_block_by_number(n) = IF n <= Num[head] THEN Path[head][n] ELSE "null"

\* When several blocks have the lowest number in the fork database, one of them is
\* marked as current: the block that add prunes next, and makes irreversible, is
\* never chosen by the order in which the blocks were stored.
OldestIsCurrent ==
  LET lowest == {b \in Stored : \A a \in Stored : Num[b] <= Num[a]}
  IN  phase = "idle" => Cardinality(lowest) = 1 \/ lowest \cap current # {}

\* "All blocks older than the last irreversible block are freed after emitting
\* the irreversible signal" (fork_database.hpp).
OlderBlocksFreed == Ready => \A b \in Stored : Num[b] >= Irr[fork_head]

\* A node that was killed can start again from its log and reversible blocks.
ReplayStarts == phase # "refused"

\* What init asserts, "reversible block database is inconsistent with fork
\* database, replay blockchain" otherwise: the newest reversible block is the head.
ReversibleMatchesHead ==
  Ready /\ Num[head] \in DOMAIN reversible => reversible[Num[head]] = head

\* None of the assertions that guard fork switches, commits, the log, a replay
\* and a restart fails, including those that "_should_ never fail".  The only
\* one that may is that of init on the reversible blocks, and only for a node
\* that was killed while its log held nothing but the genesis block.
NoAssertionFails ==
  failures \subseteq (IF crashes > 0 /\ blog = <<Genesis>> THEN {"start"} ELSE {})

\* Whatever the order in which blocks arrive, and after crashes and restarts, the
\* node settles on a chain that no valid chain beats.  A node that refused to
\* start, because it was killed too early (ReplayStarts), is exempt.
Converges ==
  /\ []<>(phase = "refused" \/ Ready)
  /\ <>[](Ready => \A b \in Block : Good(b) => ~Better(b, head))
=============================================================================
