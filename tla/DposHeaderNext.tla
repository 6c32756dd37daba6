--------------------------- MODULE DposHeaderNext ---------------------------
(***************************************************************************)
(* generate_next: but for the counts, the next header state has the        *)
(* invariant, with the history extended by the new block.                  *)
(***************************************************************************)
EXTENDS DposHeaderSteps

\* What had a quorum keeps it as more producers confirm.
LEMMA QuorumKept ==
  ASSUME NEW b, NEW g, NEW C, NEW E, NEW W, NEW p, NEW n, NEW D, NEW F, NEW V,
         Grows(b, g, C, E, W, p, n, D, F, V),
         NEW k \in BlockNum, k <= b.block_num, Quorum(k, C, E, W)
  PROVE  Quorum(k, D, F, V)
<1> CanStart(b, g, C, E, W, p, n)
  BY ZenonT(60) DEF Grows
<1> SUFFICES ASSUME k > V PROVE 3 * Cardinality(D[k]) > 2 * F[k]
  BY DEF Quorum
<1>0. b.block_num \in Nat /\ V \in Nat /\ k \in Nat
  <2>1. b.block_num \in 1..MaxBlock
    BY ZenonT(60) DEF CanStart, HeaderInv, IsHeader
  <2>2. V \in BlockNum
    BY HistoryGrows
  <2> QED BY <2>1, <2>2, MaxBlockAssumption, SMTT(40) DEF BlockNum
<1>1. k \in 1..MaxBlock
  BY <1>0, MaxBlockAssumption, SMTT(40) DEF BlockNum
<1>2. /\ Cardinality(C[k]) \in Nat
      /\ k > V /\ k <= b.block_num + 1 => k > W
      /\ k \in (b.block_num + 1 - n)..(b.block_num + 1) =>
           (k > V => Cardinality(D[k]) = Cardinality(C[k]) + 1)
      /\ k \notin (b.block_num + 1 - n)..(b.block_num + 1) => D[k] = C[k]
      /\ k <= b.block_num => F[k] = E[k]
  BY <1>1, HistoryGrows, SMTT(40)
<1>3. E[k] \in Nat
  BY <1>1, SMTT(40) DEF CanStart, HeaderInv
<1>4. k > W
  BY <1>0, <1>2, SMTT(40)
<1>5. 3 * Cardinality(C[k]) > 2 * E[k]
  BY <1>4, SMTT(40) DEF Quorum
<1>6. QED
  BY <1>2, <1>3, <1>5, SMTT(40)

\* The counts of h match the confirmers.
Balanced(h, C, F, V) ==
  \A k \in DOMAIN h.confirm_count :
    k > V => h.confirm_count[k] + Cardinality(C[k]) = required_confs(F[k])

\* The header state that generate_next returns, before its confirmations.
LEMMA GenerateNextStep ==
  ASSUME NEW b, NEW g, NEW C, NEW E, NEW W, NEW p, NEW n, NEW D, NEW F, NEW V,
         Grows(b, g, C, E, W, p, n, D, F, V),
         NEW c, c = generate_next(b, p)
  PROVE  /\ IsHeader(c)
         /\ Ordered(c)
         /\ Quorum(c.dpos_proposed_irreversible_blocknum, D, F, V)
         /\ QuorumsImplied(c, D, F, V)
         /\ Balanced(c, C, F, V)
         /\ ConfirmersRemembered(c, D)
         /\ Scheduled(c, D)
         /\ VersionFits(c, g)
<1> CanStart(b, g, C, E, W, p, n)
  BY ZenonT(60) DEF Grows
<1> DEFINE num == b.block_num + 1
           lp == b.producer_to_last_produced
           prop == b.dpos_proposed_irreversible_blocknum
           irb == b.producer_to_last_implied_irb
           cc == b.confirm_count
           size == Cardinality(b.active_schedule.producers)
<1>1. /\ HeaderInv(b, g, C, E, W) /\ IsHeader(b) /\ IsHeaderRecord(b) /\ Ordered(b)
      /\ Counted(b, C, E, W) /\ ConfirmersRemembered(b, C) /\ Scheduled(b, C) /\ VersionFits(b, g)
  BY SMTT(40) DEF CanStart, HeaderInv, IsHeader
<1>2. /\ b.block_num \in 1..MaxBlock /\ num \in 1..MaxBlock /\ n \in 0..MaxConfirmed
      /\ p \in b.active_schedule.producers /\ p \in Producer
      /\ prop \in BlockNum /\ num \in BlockNum
      /\ IsMap(lp, Producer, BlockNum) /\ IsMap(irb, Producer, BlockNum)
      /\ IsMap(cc, 1..MaxBlock, Nat \ {0})
  BY <1>1, MaxBlockAssumption, SMTT(40) DEF CanStart, IsHeader, ScheduleType, BlockNum
<1>3. /\ IsHeaderRecord(c)
      /\ c.block_num = num
      /\ c.producer = p
      /\ c.producer_to_last_produced = Put(lp, p, num)
      /\ c.producer_to_last_implied_irb = implied_irb(b, p)
      /\ c.dpos_proposed_irreversible_blocknum = prop
      /\ c.dpos_irreversible_blocknum = calc_dpos_last_irreversible(implied_irb(b, p))
      /\ c.confirm_count = grow_confirm_count(b)
      /\ c.active_schedule = b.active_schedule
      /\ c.pending_schedule = b.pending_schedule
      /\ c.pending_schedule_lib_num = b.pending_schedule_lib_num
  BY <1>1, GenerateNextFields, SMTT(40)
<1>4. /\ DOMAIN c.producer_to_last_produced = DOMAIN lp \cup {p}
      /\ \A q \in DOMAIN lp \cup {p} :
           c.producer_to_last_produced[q] = IF q = p THEN num ELSE lp[q]
      /\ IsMap(c.producer_to_last_produced, Producer, BlockNum)
  <2> HIDE DEF lp, num
  <2> QED BY <1>2, <1>3, SMTT(40) DEF Put, IsMap
<1>5. /\ DOMAIN c.producer_to_last_implied_irb = DOMAIN irb \cup {p}
      /\ \A q \in DOMAIN irb \cup {p} :
           c.producer_to_last_implied_irb[q] = IF q = p THEN prop ELSE irb[q]
      /\ IsMap(c.producer_to_last_implied_irb, Producer, BlockNum)
  <2>1. c.producer_to_last_implied_irb = Put(irb, p, prop)
    BY <1>3, SMTT(40) DEF implied_irb
  <2> HIDE DEF irb, prop
  <2> QED BY <1>2, <2>1, SMTT(40) DEF Put, IsMap
<1>6. PICK r \in DOMAIN c.producer_to_last_implied_irb :
             c.dpos_irreversible_blocknum = c.producer_to_last_implied_irb[r]
  BY <1>3, <1>5, CalcIsImplied, SMTT(40)
<1>7. size \in Nat \ {0} /\ required_confs(size) \in Nat \ {0}
  <2>1. b.active_schedule.producers # {} /\ IsFiniteSet(b.active_schedule.producers)
    BY <1>1, ProducerAssumption, FS_Subset, SMTT(40) DEF Scheduled, IsHeader, ScheduleType
  <2>2. size \in Nat \ {0}
    BY <2>1, FS_CardinalityType, FS_EmptySet, SMTT(40)
  <2> HIDE DEF size
  <2> QED BY <2>2, SMTT(40) DEF required_confs
<1>8. /\ DOMAIN c.confirm_count \subseteq DOMAIN cc \cup {num}
      /\ \A k \in DOMAIN c.confirm_count :
           c.confirm_count[k] = IF k = num THEN required_confs(size) ELSE cc[k]
      /\ IsMap(c.confirm_count, 1..MaxBlock, Nat \ {0})
  <2>1. /\ DOMAIN c.confirm_count \subseteq DOMAIN cc \cup {num}
        /\ \A k \in DOMAIN c.confirm_count :
             c.confirm_count[k] = IF k = num THEN required_confs(size) ELSE cc[k]
        /\ c.confirm_count = [k \in DOMAIN c.confirm_count |-> c.confirm_count[k]]
    BY <1>3, SMTT(40) DEF grow_confirm_count
  <2>2. DOMAIN c.confirm_count \subseteq 1..MaxBlock
    BY <1>2, <2>1, SMTT(40) DEF IsMap
  <2>3. ASSUME NEW k \in DOMAIN c.confirm_count PROVE c.confirm_count[k] \in Nat \ {0}
    BY <1>2, <1>7, <2>1, SMTT(40) DEF IsMap
  <2> QED BY <2>1, <2>2, <2>3, SMTT(40) DEF IsMap
<1>9. c.dpos_irreversible_blocknum \in BlockNum
  BY <1>5, <1>6, SMTT(40) DEF IsMap
<1>10. IsHeader(c)
  BY <1>1, <1>2, <1>3, <1>4, <1>5, <1>8, <1>9, ZenonT(60) DEF IsHeader
<1>11. \A q \in DOMAIN c.producer_to_last_implied_irb : c.producer_to_last_implied_irb[q] <= prop
  <2>1. prop \in Nat /\ \A q \in DOMAIN irb : irb[q] <= prop
    BY <1>1, <1>2, MaxBlockAssumption, SMTT(40) DEF Ordered, BlockNum
  <2> HIDE DEF irb, prop
  <2> QED BY <1>5, <2>1, SMTT(60)
<1>12. Ordered(c)
  <2>1. prop <= num /\ b.pending_schedule_lib_num <= num
    BY <1>1, <1>2, MaxBlockAssumption, SMTT(40) DEF Ordered, IsHeader, BlockNum
  <2>2. ASSUME NEW q \in DOMAIN c.producer_to_last_produced
        PROVE  c.producer_to_last_produced[q] <= num
    <3>1. CASE q = p
      BY <1>2, <1>4, <3>1, SMTT(40)
    <3>2. CASE q # p
      <4>1. q \in DOMAIN lp /\ lp[q] <= b.block_num /\ lp[q] \in Nat
        BY <1>1, <1>2, <1>4, <3>2, MaxBlockAssumption, SMTT(40) DEF Ordered, IsMap, BlockNum
      <4> QED BY <1>2, <1>4, <3>2, <4>1, SMTT(40)
    <3> QED BY <3>1, <3>2, SMTT(40)
  <2>3. ASSUME NEW k \in DOMAIN c.confirm_count
        PROVE  prop < k /\ k <= num
    <3>1. CASE k = num
      BY <1>1, <1>2, <3>1, MaxBlockAssumption, SMTT(40) DEF Ordered, BlockNum
    <3>2. CASE k # num
      <4>1. k \in DOMAIN cc
        BY <1>8, <3>2, SMTT(40)
      <4> QED BY <1>1, <1>2, <4>1, SMTT(40) DEF Ordered, IsMap
    <3> QED BY <3>1, <3>2, SMTT(40)
  <2> QED BY <1>3, <1>6, <1>11, <2>1, <2>2, <2>3, SMTT(40) DEF Ordered
<1>13. Quorum(prop, D, F, V)
  <2>1. prop \in BlockNum /\ prop <= b.block_num /\ Quorum(prop, C, E, W)
    BY <1>1, <1>2, ZenonT(60) DEF Counted, Ordered
  <2> HIDE DEF prop
  <2> QED BY <2>1, QuorumKept, SMTT(40)
<1>14. ASSUME NEW q \in DOMAIN c.producer_to_last_implied_irb
       PROVE  Quorum(c.producer_to_last_implied_irb[q], D, F, V)
  <2>1. CASE q = p
    BY <1>5, <1>13, <2>1, SMTT(40)
  <2>2. CASE q # p
    <3>1. q \in DOMAIN irb /\ irb[q] \in BlockNum /\ Quorum(irb[q], C, E, W)
      BY <1>1, <1>2, <1>5, <2>2, ZenonT(60) DEF Counted, IsMap
    <3>2. irb[q] <= b.block_num
      BY <1>1, <1>2, <3>1, MaxBlockAssumption, SMTT(40) DEF Ordered, BlockNum
    <3>3. Quorum(irb[q], D, F, V)
      BY <3>1, <3>2, QuorumKept, SMTT(40)
    <3> QED BY <1>5, <2>2, <3>1, <3>3, SMTT(40)
  <2> QED BY <2>1, <2>2, SMTT(40)
<1>15. ASSUME NEW k \in DOMAIN c.confirm_count
       PROVE  k > V => c.confirm_count[k] + Cardinality(C[k]) = required_confs(F[k])
  <2>1. CASE k = num
    <3>1. Cardinality(C[num]) = 0 /\ F[num] = size
      BY HistoryGrows, SMTT(40)
    <3> HIDE DEF num, size
    <3> QED BY <1>7, <1>8, <2>1, <3>1, SMTT(40)
  <2>2. CASE k # num
    <3>1. k \in DOMAIN cc /\ c.confirm_count[k] = cc[k]
      BY <1>8, <2>2, SMTT(40)
    <3>2. k \in 1..MaxBlock /\ k <= b.block_num
      BY <1>1, <1>2, <3>1, SMTT(40) DEF IsMap, Ordered
    <3>3. F[k] = E[k] /\ (k > V /\ k <= b.block_num + 1 => k > W)
      BY <3>2, HistoryGrows, SMTT(40)
    <3>4. k <= b.block_num + 1
      BY <1>2, <3>2, SMTT(40)
    <3>5. k > W => cc[k] + Cardinality(C[k]) = required_confs(E[k])
      BY <1>1, <3>1, ZenonT(60) DEF Counted
    <3> QED BY <3>1, <3>3, <3>4, <3>5, SMTT(40)
  <2> QED BY <2>1, <2>2, SMTT(40)
<1>16. ConfirmersRemembered(c, D)
  <2>a. \A k \in 1..MaxBlock :
          /\ k \in (b.block_num + 1 - n)..(b.block_num + 1) => D[k] = C[k] \cup {p}
          /\ k \notin (b.block_num + 1 - n)..(b.block_num + 1) => D[k] = C[k]
    BY HistoryGrows, SMTT(40)
  <2> SUFFICES ASSUME NEW k \in 1..MaxBlock, NEW q \in D[k]
               PROVE  /\ k <= num
                      /\ q \in DOMAIN c.producer_to_last_produced =>
                           k <= c.producer_to_last_produced[q]
                      /\ q \notin DOMAIN c.producer_to_last_produced =>
                           b.pending_schedule.producers = {} \/ k <= b.pending_schedule_lib_num
    BY <1>3, SMTT(40) DEF ConfirmersRemembered
  <2>1. q \in C[k] \/ (q = p /\ k \in (num - n)..num)
    BY <1>2, <2>a, SMTT(40)
  <2>2. k <= num
    BY <1>1, <1>2, <2>1, SMTT(40) DEF ConfirmersRemembered
  <2>3. CASE q = p
    BY <1>4, <2>2, <2>3, SMTT(40)
  <2>4. CASE q # p
    BY <1>1, <1>4, <2>1, <2>2, <2>4, SMTT(40) DEF ConfirmersRemembered
  <2> QED BY <2>3, <2>4, SMTT(40)
<1>17. Scheduled(c, D)
  BY <1>1, <1>2, <1>3, <1>4, SMTT(40) DEF Scheduled
<1>18. VersionFits(c, g)
  BY <1>1, <1>3, ZenonT(60) DEF VersionFits
<1>19. QuorumsImplied(c, D, F, V)
  BY <1>6, <1>14, ZenonT(60) DEF QuorumsImplied
<1>20. Balanced(c, C, F, V)
  BY <1>15, ZenonT(60) DEF Balanced
<1> QED
  BY <1>3, <1>10, <1>12, <1>13, <1>16, <1>17, <1>18, <1>19, <1>20, SMTT(40)
=============================================================================
