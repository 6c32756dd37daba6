---------------------------- MODULE MCDposChain ----------------------------
(* Small instances of DposChain for TLC. *)
EXTENDS DposChain, TLC

CONSTANTS eosio, alice, bob, carol, dan

\* One and three producers, and a proposal without any.
Ranges == {{}, {alice}, {alice, bob, carol}}
RangesProducers == {eosio, alice, bob, carol}
RangesSymmetry == Permutations({bob, carol})

\* Bob leaves the schedule, is forgotten, and comes back.
Rotation == {{alice}, {alice, bob}}
RotationProducers == {eosio, alice, bob}

\* Four producers, of which three are a quorum.
Quorums == {{}, {alice, bob, carol, dan}}
QuorumSymmetry == Permutations({alice, bob, carol, dan})

\* Four producers, of which one is dropped.
Shrink == {{alice, bob, carol, dan}, {alice, bob, dan}}
FourProducers == {eosio, alice, bob, carol, dan}

\* All blocks since the producer's last one, which is what producer_plugin
\* confirms when it has a watermark; one that has not produced confirms none.
blocks_to_confirm(p) ==
  IF p \in DOMAIN head.producer_to_last_produced
  THEN head.block_num - head.producer_to_last_produced[p] ELSE 0

\* Producers with watermarks.
EagerNext ==
  \/ \E p \in Producer : begin_block(p, blocks_to_confirm(p))
  \/ \E s \in Schedules : set_proposed_producers(s)
  \/ commit_block
  \/ abort_block

EagerSpec == Init /\ [][EagerNext]_vars

\* Producers that may have lost their watermarks in a restart, and then
\* confirm nothing.
PluginNext ==
  \/ \E p \in Producer : \E n \in {0, blocks_to_confirm(p)} : begin_block(p, n)
  \/ \E s \in Schedules : set_proposed_producers(s)
  \/ commit_block
  \/ abort_block

PluginSpec == Init /\ [][PluginNext]_vars
=============================================================================
