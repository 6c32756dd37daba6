-------------------------- MODULE DposHeaderSteps ---------------------------
(***************************************************************************)
(* maybe_promote_pending and set_new_producers keep the invariant of header *)
(* states.                                                                 *)
(***************************************************************************)
EXTENDS DposHeaderLemmas

\* Promoting the pending schedule keeps the invariant.
LEMMA PromotePreserves ==
  ASSUME NEW b, NEW g, NEW C, NEW E, NEW W, HeaderInv(b, g, C, E, W),
         NEW c, c = maybe_promote_pending(b)
  PROVE  HeaderInv(c, g, C, E, W) /\ c.block_num = b.block_num /\ c.producer = b.producer
<1>1. CASE ~can_promote_pending(b)
  BY <1>1, SMTT(40) DEF maybe_promote_pending
<1>2. CASE can_promote_pending(b)
  <2> DEFINE lp == b.producer_to_last_produced
             irb == b.producer_to_last_implied_irb
             irr == b.dpos_irreversible_blocknum
             new == b.pending_schedule.producers
  <2>1. IsHeader(b) /\ IsHeaderRecord(b)
    BY DEF HeaderInv, IsHeader
  <2>2. /\ IsHeaderRecord(c)
        /\ c.block_num = b.block_num
        /\ c.producer = b.producer
        /\ c.producer_to_last_produced = Put(carry_over(b, lp), b.producer, b.block_num)
        /\ c.producer_to_last_implied_irb = carry_over(b, irb)
        /\ c.dpos_proposed_irreversible_blocknum = b.dpos_proposed_irreversible_blocknum
        /\ c.dpos_irreversible_blocknum = irr
        /\ c.confirm_count = b.confirm_count
        /\ c.active_schedule = b.pending_schedule
        /\ c.pending_schedule = [b.pending_schedule EXCEPT !.producers = {}]
        /\ c.pending_schedule_lib_num = b.pending_schedule_lib_num
    BY <1>2, <2>1, PromoteFields, SMTT(40)
  <2>3. /\ b.pending_schedule \in ScheduleType /\ new # {} /\ new \subseteq Producer
        /\ b.pending_schedule_lib_num <= irr
        /\ b.block_num \in BlockNum /\ irr \in BlockNum /\ b.producer \in Producer
        /\ b.pending_schedule_lib_num \in BlockNum
        /\ BlockNum \subseteq Nat
    BY <1>2, <2>1, MaxBlockAssumption, SMTT(40) DEF can_promote_pending, IsHeader, BlockNum, ScheduleType
  <2>4. IsMap(lp, Producer, BlockNum) /\ IsMap(irb, Producer, BlockNum)
    BY <2>1, SMTT(40) DEF IsHeader
  <2>5. /\ DOMAIN c.producer_to_last_implied_irb = new
        /\ IsMap(c.producer_to_last_implied_irb, Producer, BlockNum)
        /\ \A p \in new : c.producer_to_last_implied_irb[p] = IF p \in DOMAIN irb THEN irb[p] ELSE irr
    <3> HIDE DEF irb, irr
    <3> QED BY <2>2, <2>3, <2>4, SMTT(40) DEF carry_over, IsMap, irr
  <2>6. /\ DOMAIN c.producer_to_last_produced = new \cup {b.producer}
        /\ IsMap(c.producer_to_last_produced, Producer, BlockNum)
        /\ c.producer_to_last_produced[b.producer] = b.block_num
        /\ \A p \in new \ {b.producer} :
             c.producer_to_last_produced[p] = IF p \in DOMAIN lp THEN lp[p] ELSE irr
    <3>1. /\ DOMAIN carry_over(b, lp) = new
          /\ \A p \in new : carry_over(b, lp)[p] = IF p \in DOMAIN lp THEN lp[p] ELSE irr
          /\ \A p \in new : carry_over(b, lp)[p] \in BlockNum
      <4> HIDE DEF lp
      <4> QED BY <2>3, <2>4, SMTT(40) DEF carry_over, IsMap
    <3> HIDE DEF lp, irr, new
    <3> QED BY <2>2, <2>3, <3>1, SMTT(40) DEF Put, IsMap
  <2>7. c.pending_schedule \in ScheduleType /\ c.pending_schedule.producers = {}
    BY <2>2, <2>3, SMTT(40) DEF ScheduleType
  <2>8. IsHeader(c)
    BY <2>1, <2>2, <2>3, <2>5, <2>6, <2>7, SMTT(40) DEF IsHeader
  <2>9. Ordered(c)
    <3>1. Ordered(b)
      BY DEF HeaderInv
    <3>2. ASSUME NEW p \in new
          PROVE c.producer_to_last_implied_irb[p] <= b.dpos_proposed_irreversible_blocknum
      BY <2>5, <3>1, SMTT(40) DEF Ordered
    <3>3. ASSUME NEW p \in new \cup {b.producer}
          PROVE c.producer_to_last_produced[p] <= b.block_num
      <4>1. irr <= b.block_num /\ b.block_num <= b.block_num
        BY <2>1, <2>3, <3>1, MaxBlockAssumption, SMTT(40) DEF Ordered, IsHeader, BlockNum
      <4>2. \A q \in DOMAIN lp : lp[q] <= b.block_num
        BY <3>1, SMTT(40) DEF Ordered
      <4> QED BY <2>6, <4>1, <4>2, SMTT(40)
    <3> QED BY <2>2, <2>5, <2>6, <3>1, <3>2, <3>3, SMTT(40) DEF Ordered
  <2>10. ConfirmersRemembered(c, C)
    <3>1. ConfirmersRemembered(b, C)
      BY SMTT(40) DEF HeaderInv
    <3> SUFFICES ASSUME NEW k \in 1..MaxBlock, NEW p \in C[k],
                        p \in DOMAIN c.producer_to_last_produced
                 PROVE  k <= c.producer_to_last_produced[p]
      BY <2>2, <2>7, <3>1, SMTT(40) DEF ConfirmersRemembered
    <3>2. CASE p = b.producer
      BY <2>6, <3>1, <3>2, SMTT(40) DEF ConfirmersRemembered
    <3>3. CASE p # b.producer /\ p \in DOMAIN lp
      BY <2>6, <3>1, <3>3, SMTT(40) DEF ConfirmersRemembered
    <3>4. CASE p # b.producer /\ p \notin DOMAIN lp
      <4>1. k <= b.pending_schedule_lib_num
        BY <2>3, <3>1, <3>4, SMTT(40) DEF ConfirmersRemembered
      <4>2. c.producer_to_last_produced[p] = irr
        BY <2>6, <3>4, SMTT(40)
      <4> QED BY <2>3, <4>1, <4>2, MaxBlockAssumption, SMTT(40) DEF BlockNum
    <3> QED BY <3>2, <3>3, <3>4, SMTT(40)
  <2>11. Counted(c, C, E, W)
    <3>1. Counted(b, C, E, W)
      BY SMTT(40) DEF HeaderInv
    <3>2. \A p \in new : Quorum(c.producer_to_last_implied_irb[p], C, E, W)
      BY <2>5, <3>1, SMTT(40) DEF Counted
    <3> QED BY <2>2, <2>5, <3>1, <3>2, SMTT(40) DEF Counted
  <2>12. Scheduled(c, C)
    BY <2>2, <2>3, <2>6, SMTT(40) DEF Scheduled
  <2>13. VersionFits(c, g)
    BY <2>2, <2>3, <2>7, SMTT(40) DEF VersionFits, HeaderInv
  <2> QED BY <2>2, <2>8, <2>9, <2>10, <2>11, <2>12, <2>13, SMTT(40) DEF HeaderInv
<1>3. QED
  BY <1>1, <1>2, SMTT(40)

\* So does setting the proposed schedule, whose version is the right one.
LEMMA SetNewPreserves ==
  ASSUME NEW b, NEW g, NEW C, NEW E, NEW W, HeaderInv(b, g, C, E, W),
         can_set_new_producers(b, FALSE, g),
         NEW c, c = set_new_producers(b, g.schedule)
  PROVE  /\ g.schedule.version = b.active_schedule.version + 1
         /\ HeaderInv(c, NoProposal, C, E, W) /\ c.block_num = b.block_num /\ c.producer = b.producer
<1>1. IsHeader(b) /\ IsHeaderRecord(b) /\ g \in ProposalType /\ g.schedule \in ScheduleType
  BY SMTT(40) DEF HeaderInv, IsHeader, ProposalType
<1>2. b.active_schedule.version \in Nat /\ b.block_num \in 1..MaxBlock
  BY <1>1, SMTT(40) DEF IsHeader, ScheduleType
<1>3. g.schedule.version = b.active_schedule.version + 1
  BY <1>2, SMTT(40) DEF can_set_new_producers, HeaderInv, VersionFits
<1>4. /\ IsHeaderRecord(c)
      /\ c.block_num = b.block_num
      /\ c.producer = b.producer
      /\ c.producer_to_last_produced = b.producer_to_last_produced
      /\ c.producer_to_last_implied_irb = b.producer_to_last_implied_irb
      /\ c.dpos_proposed_irreversible_blocknum = b.dpos_proposed_irreversible_blocknum
      /\ c.dpos_irreversible_blocknum = b.dpos_irreversible_blocknum
      /\ c.confirm_count = b.confirm_count
      /\ c.active_schedule = b.active_schedule
      /\ c.pending_schedule = g.schedule
      /\ c.pending_schedule_lib_num = b.block_num
  BY <1>1, SetNewProducersFields, SMTT(40)
<1>5. IsHeader(c)
  BY <1>1, <1>2, <1>4, MaxBlockAssumption, SMTT(40) DEF IsHeader, BlockNum
<1>6. Ordered(c)
  BY <1>2, <1>4, SMTT(40) DEF HeaderInv, Ordered
<1>7. ConfirmersRemembered(c, C)
  BY <1>4, SMTT(40) DEF HeaderInv, ConfirmersRemembered
<1>8. Counted(c, C, E, W) /\ Scheduled(c, C)
  BY <1>4, SMTT(40) DEF HeaderInv, Counted, Scheduled
<1>9. VersionFits(c, NoProposal)
  BY <1>2, <1>3, <1>4, SMTT(40) DEF VersionFits, NoProposal
<1>10. NoProposal \in ProposalType
  BY MaxBlockAssumption, SMTT(40) DEF NoProposal, ProposalType, ScheduleType, BlockNum
<1>11. QED
  BY <1>3, <1>4, <1>5, <1>6, <1>7, <1>8, <1>9, <1>10, SMTT(40) DEF HeaderInv
-----------------------------------------------------------------------------
\* The proposed irreversible block and the counts of c are as they should be.
GoodCounts(h, c, D, F, V) ==
  LET prop == c.dpos_proposed_irreversible_blocknum
  IN  /\ prop \in BlockNum
      /\ h.dpos_proposed_irreversible_blocknum <= prop
      /\ prop <= h.block_num
      /\ Quorum(prop, D, F, V)
      /\ IsMap(c.confirm_count, 1..MaxBlock, Nat \ {0})
      /\ \A k \in DOMAIN c.confirm_count :
           /\ prop < k /\ k <= h.block_num
           /\ k > V => c.confirm_count[k] + Cardinality(D[k]) = required_confs(F[k])

QuorumsImplied(h, D, F, V) ==
  /\ Quorum(h.dpos_irreversible_blocknum, D, F, V)
  /\ \A q \in DOMAIN h.producer_to_last_implied_irb :
       Quorum(h.producer_to_last_implied_irb[q], D, F, V)

\* A header state whose counts are good has the invariant if the one it was
\* made from had all of it but the counts.
LEMMA CountsKeepInvariant ==
  ASSUME NEW h, NEW c, NEW g, NEW D, NEW F, NEW V,
         IsHeader(h), Ordered(h), ConfirmersRemembered(h, D), Scheduled(h, D), VersionFits(h, g),
         QuorumsImplied(h, D, F, V), SameButCounts(h, c), GoodCounts(h, c, D, F, V),
         g \in ProposalType, D \in [1..MaxBlock -> SUBSET Producer], F \in [1..MaxBlock -> Nat],
         V \in BlockNum, V <= MaxConfirmed
  PROVE  HeaderInv(c, g, D, F, V)
<1>1. IsHeader(c)
  BY DEF IsHeader, SameButCounts, GoodCounts
<1>2. ASSUME NEW x \in BlockNum, x <= h.dpos_proposed_irreversible_blocknum
      PROVE  x <= c.dpos_proposed_irreversible_blocknum
  <2>1. /\ h.dpos_proposed_irreversible_blocknum \in BlockNum
        /\ c.dpos_proposed_irreversible_blocknum \in BlockNum
        /\ h.dpos_proposed_irreversible_blocknum <= c.dpos_proposed_irreversible_blocknum
    BY SMTT(40) DEF IsHeader, GoodCounts
  <2> QED BY <1>2, <2>1, MaxBlockAssumption, SMTT(40) DEF BlockNum
<1>3. h.dpos_irreversible_blocknum <= c.dpos_proposed_irreversible_blocknum
  BY <1>2, SMTT(40) DEF Ordered, IsHeader
<1>4. ASSUME NEW q \in DOMAIN h.producer_to_last_implied_irb
      PROVE  h.producer_to_last_implied_irb[q] <= c.dpos_proposed_irreversible_blocknum
  BY <1>2, SMTT(40) DEF Ordered, IsHeader, IsMap
<1>5. Ordered(c)
  BY <1>3, <1>4, SMTT(40) DEF Ordered, SameButCounts, GoodCounts
<1>6. ConfirmersRemembered(c, D)
  BY SMTT(40) DEF ConfirmersRemembered, SameButCounts
<1>7. Counted(c, D, F, V)
  BY SMTT(40) DEF Counted, SameButCounts, GoodCounts, QuorumsImplied
<1>8. Scheduled(c, D)
  BY SMTT(40) DEF Scheduled, SameButCounts
<1>9. VersionFits(c, g)
  BY SMTT(40) DEF VersionFits, SameButCounts
<1>10. QED
  BY <1>1, <1>5, <1>6, <1>7, <1>8, <1>9, SMTT(40) DEF HeaderInv
=============================================================================
