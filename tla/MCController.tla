---------------------------- MODULE MCController ----------------------------
(* Small instances of Controller for TLC.  A tree lists, for each block, its *)
(* parent and its irreversible block number.                                 *)
EXTENDS Controller

CONSTANT Tree

BlockIn == DOMAIN Tree
RootOf == "g1"
ParentIn == [b \in DOMAIN Tree \ {"g1"} |-> Tree[b][1]]
IrrIn == [b \in DOMAIN Tree |-> Tree[b][2]]

\* Two branches a and b part after m4; b wins in the end and removes a.  The
\* branch c leaves b, is longer for a while, and has an invalid block.
Forks ==
  [g1 |-> <<"", 0>>, m2 |-> <<"g1", 1>>, m3 |-> <<"m2", 2>>, m4 |-> <<"m3", 3>>,
   a5 |-> <<"m4", 3>>, a6 |-> <<"a5", 3>>,
   b5 |-> <<"m4", 3>>, b6 |-> <<"b5", 3>>, b7 |-> <<"b6", 5>>, b8 |-> <<"b7", 6>>, b9 |-> <<"b8", 7>>,
   c6 |-> <<"b5", 3>>, c7 |-> <<"c6", 3>>, c8 |-> <<"c7", 3>>]
ForksValid == DOMAIN Forks \ {"c7"}
ForksOwn == {"a5", "a6"}
ForksOrder == <<"c8", "b6", "m3", "a6", "b5", "c6", "g1", "b9", "m4", "a5", "b7", "m2", "c7", "b8">>

\* A signed tree lists, for each block, its parent, its producer and how many
\* blocks it confirms: those since the last block of its producer.  What it
\* makes irreversible follows from its header state.
BHS == INSTANCE BlockHeaderState WITH MaxTracked <- 1024

Four == {"p1", "p2", "p3", "p4"}
GenesisHeader ==
  [block_num |-> 1, producer |-> "p1", active_schedule |-> [version |-> 1, producers |-> Four],
   producer_to_last_produced |-> [p \in Four |-> 0],
   producer_to_last_implied_irb |-> [p \in Four |-> 0],
   dpos_irreversible_blocknum |-> 0, dpos_proposed_irreversible_blocknum |-> 0,
   confirm_count |-> <<>>]

\* Producers p2 and p3 do not see p4's branch before it is longer than theirs,
\* and then move to it; p1 stays on theirs.
Signed ==
  [g1 |-> <<"", "p1", 0>>, m2 |-> <<"g1", "p2", 0>>, m3 |-> <<"m2", "p3", 0>>,
   m4 |-> <<"m3", "p4", 0>>, m5 |-> <<"m4", "p1", 0>>,
   a6 |-> <<"m5", "p2", 3>>, a7 |-> <<"a6", "p3", 3>>, a8 |-> <<"a7", "p2", 1>>,
   a9 |-> <<"a8", "p3", 1>>, a10 |-> <<"a9", "p1", 4>>,
   b6 |-> <<"m5", "p4", 1>>, b7 |-> <<"b6", "p4", 0>>, b8 |-> <<"b7", "p4", 0>>,
   b9 |-> <<"b8", "p4", 0>>, b10 |-> <<"b9", "p4", 0>>, b11 |-> <<"b10", "p2", 2>>,
   b12 |-> <<"b11", "p3", 2>>, b13 |-> <<"b12", "p4", 2>>, b14 |-> <<"b13", "p2", 2>>,
   b15 |-> <<"b14", "p3", 2>>]

header[b \in DOMAIN Signed] ==
  IF b = "g1" THEN GenesisHeader
  ELSE BHS!set_confirmed(BHS!generate_next(header[Signed[b][1]], Signed[b][2]), Signed[b][3])

Partition ==
  [b \in DOMAIN Signed |-> <<Signed[b][1], CASE b = "a10" -> 5 [] b = "b15" -> 10 [] OTHER -> 0>>]
ASSUME PartitionFollowsHeaders ==
  \A b \in DOMAIN Signed : Partition[b][2] = header[b].dpos_irreversible_blocknum
PartitionOrder == <<"g1", "m2", "m3", "m4", "m5", "a6", "a7", "a8", "a9", "a10",
                    "b6", "b7", "b8", "b9", "b10", "b11", "b12", "b13", "b14", "b15">>
=============================================================================
