-------------------------- MODULE DposChainProofs ---------------------------
(***************************************************************************)
(* The theorems about DposChain, for every set of producers, every set of  *)
(* schedules and every bound, from an inductive invariant that the         *)
(* operations on header states keep.                                       *)
(***************************************************************************)
EXTENDS DposHeaderCounts

\* The inductive invariant: the head satisfies HeaderInv, and so would the
\* pending block if it were committed now.
IndInv ==
  /\ HeaderInv(head, gpo, confirmers, electorate, overrun)
  /\ has_pending \in BOOLEAN
  /\ confirmed \in 0..MaxConfirmed
  /\ ~has_pending => pending = head /\ pending_gpo = gpo
  /\ has_pending =>
       /\ pending.block_num = head.block_num + 1
       /\ HeaderInv(pending, pending_gpo,
                    AddConfirmer(confirmers, pending.block_num, pending.producer, confirmed),
                    AddElectorate(electorate, head),
                    AddOverrun(overrun, pending.block_num, confirmed))
-----------------------------------------------------------------------------
\* The invariant holds at genesis.
LEMMA InitInd == Init => IndInv
<1> SUFFICES ASSUME Init PROVE IndInv
  OBVIOUS
<1>1. genesis.block_num \in 1..MaxBlock
  BY MaxBlockAssumption, SMTT(40) DEF genesis
<1>2. /\ confirmers \in [1..MaxBlock -> SUBSET Producer]
      /\ electorate \in [1..MaxBlock -> Nat]
      /\ \A k \in 1..MaxBlock : confirmers[k] = {}
  BY DEF Init
<1>3. IsHeader(genesis)
  <2>1. IsHeaderRecord(genesis)
    BY DEF genesis, IsHeaderRecord
  <2>2. 0 \in BlockNum /\ SystemAccount \in Producer
    BY ProducerAssumption, MaxBlockAssumption, SMTT(40) DEF BlockNum
  <2>3. /\ IsMap(genesis.producer_to_last_produced, Producer, BlockNum)
        /\ IsMap(genesis.producer_to_last_implied_irb, Producer, BlockNum)
        /\ IsMap(genesis.confirm_count, 1..MaxBlock, Nat \ {0})
    BY DEF genesis, IsMap
  <2>4. genesis.active_schedule \in ScheduleType /\ genesis.pending_schedule \in ScheduleType
    BY <2>2, SMTT(40) DEF genesis, ScheduleType
  <2>5. /\ genesis.producer \in Producer
        /\ genesis.dpos_proposed_irreversible_blocknum \in BlockNum
        /\ genesis.dpos_irreversible_blocknum \in BlockNum
        /\ genesis.pending_schedule_lib_num \in BlockNum
    BY <2>2, SMTT(40) DEF genesis
  <2> QED BY <1>1, <2>1, <2>3, <2>4, <2>5, SMTT(40) DEF IsHeader
<1>4. NoProposal \in ProposalType
  BY MaxBlockAssumption, SMTT(40) DEF NoProposal, ProposalType, ScheduleType, BlockNum
<1>5. Ordered(genesis)
  BY DEF genesis, Ordered
<1>6. ConfirmersRemembered(genesis, confirmers)
  BY <1>2, SMTT(40) DEF ConfirmersRemembered
<1>7. Counted(genesis, confirmers, electorate, overrun)
  BY SMTT(40) DEF Counted, genesis, Quorum, Init
<1>8. Scheduled(genesis, confirmers)
  BY <1>2, SMTT(40) DEF Scheduled, genesis
<1>9. VersionFits(genesis, NoProposal)
  BY SMTT(40) DEF VersionFits, genesis, NoProposal
<1>10. HeaderInv(genesis, NoProposal, confirmers, electorate, overrun)
  <2>1. overrun \in BlockNum /\ overrun <= MaxConfirmed
    BY MaxBlockAssumption, WordAssumption, SMTT(40) DEF Init, BlockNum
  <2> QED BY <1>2, <1>3, <1>4, <1>5, <1>6, <1>7, <1>8, <1>9, <2>1, SMTT(40) DEF HeaderInv
<1>11. 0 \in 0..MaxConfirmed
  BY WordAssumption, SMTT(40)
<1>12. /\ head = genesis /\ pending = genesis /\ gpo = NoProposal /\ pending_gpo = NoProposal
       /\ has_pending = FALSE /\ confirmed = 0
  BY SMTT(40) DEF Init
<1>13. QED
  BY <1>10, <1>11, <1>12, ZenonT(60) DEF IndInv

\* start_block leads from a head with the invariant to a pending block with it.
LEMMA StartInd ==
  ASSUME IndInv, NEW p \in Producer, NEW n \in 0..MaxConfirmed, begin_block(p, n)
  PROVE  IndInv'
<1> DEFINE set(b) == can_set_new_producers(b, was_pending_promoted(head, p, n), gpo)
<1>0. PICK D, F, V, h, c, b : /\ D = AddConfirmer(confirmers, head.block_num + 1, p, n)
                              /\ F = AddElectorate(electorate, head)
                              /\ V = AddOverrun(overrun, head.block_num + 1, n)
                              /\ h = generate_next(head, p)
                              /\ c = set_confirmed(h, n)
                              /\ b = maybe_promote_pending(c)
  OBVIOUS
<1>1. Grows(head, gpo, confirmers, electorate, overrun, p, n, D, F, V)
  <2>1. CanStart(head, gpo, confirmers, electorate, overrun, p, n)
    BY SMTT(40) DEF CanStart, IndInv, begin_block, start_block
  <2> QED BY <1>0, <2>1, ZenonT(60) DEF Grows
<1>2. HeaderInv(c, gpo, D, F, V) /\ c.block_num = head.block_num + 1 /\ c.producer = p
  BY <1>0, <1>1, SetConfirmedStep, SMTT(40)
<1>3. b = next_header(head, p, n)
  BY <1>0, SMTT(40) DEF next_header
<1>4. HeaderInv(b, gpo, D, F, V) /\ b.block_num = c.block_num /\ b.producer = c.producer
  BY <1>0, <1>2, PromotePreserves, SMTT(40)
<1>5. b.block_num = head.block_num + 1 /\ b.producer = p
  BY <1>2, <1>4, SMTT(40)
<1>6. /\ has_pending' = TRUE
      /\ pending' = IF set(b) THEN set_new_producers(b, gpo.schedule) ELSE b
      /\ pending_gpo' = IF set(b) THEN NoProposal ELSE gpo
      /\ confirmed' = n
      /\ UNCHANGED <<head, gpo, confirmers, electorate, overrun>>
  BY <1>3, SMTT(40) DEF begin_block, start_block, history
<1>7. /\ pending'.block_num = head.block_num + 1 /\ pending'.producer = p
      /\ HeaderInv(pending', pending_gpo', D, F, V)
  <2>1. CASE set(b)
    <3>1. can_set_new_producers(b, FALSE, gpo)
      BY <2>1, SMTT(40) DEF can_set_new_producers
    <3>2. PICK e : e = set_new_producers(b, gpo.schedule)
      OBVIOUS
    <3>3. HeaderInv(e, NoProposal, D, F, V) /\ e.block_num = b.block_num /\ e.producer = b.producer
      BY <1>4, <3>1, <3>2, SetNewPreserves, ZenonT(60)
    <3>4. pending' = e /\ pending_gpo' = NoProposal
      BY <1>6, <2>1, <3>2
    <3> QED BY <1>5, <3>3, <3>4, SMTT(40)
  <2>2. CASE ~set(b)
    <3>1. pending' = b /\ pending_gpo' = gpo
      BY <1>6, <2>2
    <3> QED BY <1>4, <1>5, <3>1
  <2> QED BY <2>1, <2>2, SMTT(40)
<1>8. /\ D = AddConfirmer(confirmers', pending'.block_num, pending'.producer, confirmed')
      /\ F = AddElectorate(electorate', head')
      /\ V = AddOverrun(overrun', pending'.block_num, confirmed')
  BY <1>0, <1>6, <1>7
<1>9. HeaderInv(head', gpo', confirmers', electorate', overrun')
  BY <1>6 DEF IndInv
<1>10. confirmed' \in 0..MaxConfirmed
  BY <1>6, SMTT(40)
<1>11. QED
  BY <1>6, <1>7, <1>8, <1>9, <1>10, SMTT(40) DEF IndInv

\* A proposal changes only the proposed schedule of the pending block.
LEMMA ProposeInd ==
  ASSUME IndInv, NEW s \in Schedules, set_proposed_producers(s)
  PROVE  IndInv'
<1> DEFINE D == AddConfirmer(confirmers, pending.block_num, pending.producer, confirmed)
           F == AddElectorate(electorate, head)
           V == AddOverrun(overrun, pending.block_num, confirmed)
           base == IF pending.pending_schedule.producers = {} THEN pending.active_schedule
                                                              ELSE pending.pending_schedule
           prop == [block_num |-> head.block_num + 1,
                    schedule |-> [version |-> base.version + 1, producers |-> s]]
<1>1. /\ has_pending /\ pending_gpo' = prop
      /\ UNCHANGED <<head, gpo, has_pending, pending, confirmed, confirmers, electorate, overrun>>
  BY SMTT(40) DEF set_proposed_producers, history
<1>2. pending.block_num = head.block_num + 1 /\ HeaderInv(pending, pending_gpo, D, F, V)
  BY <1>1, SMTT(40) DEF IndInv
<1> HIDE DEF D, F, V
<1>3. pending.block_num \in BlockNum /\ base \in ScheduleType
  <2>1. IsHeader(pending)
    BY <1>2, ZenonT(60) DEF HeaderInv
  <2> QED BY <2>1, MaxBlockAssumption, SMTT(40) DEF IsHeader, BlockNum
<1>4. prop \in ProposalType
  <2> HIDE DEF base
  <2>1. s \in SUBSET Producer /\ base.version + 1 \in Nat
    BY <1>3, SchedulesAssumption, SMTT(40) DEF ScheduleType
  <2>2. [version |-> base.version + 1, producers |-> s] \in ScheduleType
    BY <2>1, SMTT(40) DEF ScheduleType
  <2>3. head.block_num + 1 \in BlockNum
    BY <1>2, <1>3, SMTT(40)
  <2> QED BY <2>2, <2>3, SMTT(40) DEF ProposalType
<1>5. VersionFits(pending, prop)
  <2>1. base.version \in Nat
    BY <1>3, SMTT(40) DEF ScheduleType
  <2>2. pending.pending_schedule.producers # {} =>
          pending.pending_schedule.version <= pending.active_schedule.version + 1
    BY <1>2, SMTT(40) DEF HeaderInv, VersionFits
  <2>3. prop.schedule.version = 1 + base.version
    BY <2>1, SMTT(40)
  <2>4. base.version = IF pending.pending_schedule.producers = {}
                       THEN pending.active_schedule.version ELSE pending.pending_schedule.version
    BY SMTT(40)
  <2> HIDE DEF prop, base
  <2> QED BY <2>2, <2>3, <2>4, SMTT(40) DEF VersionFits
<1> HIDE DEF prop
<1>6. HeaderInv(pending, prop, D, F, V)
  BY <1>2, <1>4, <1>5, SMTT(40) DEF HeaderInv
<1>7. /\ D = AddConfirmer(confirmers', pending'.block_num, pending'.producer, confirmed')
      /\ F = AddElectorate(electorate', head')
      /\ V = AddOverrun(overrun', pending'.block_num, confirmed')
  BY <1>1, SMTT(40) DEF D, F, V
<1>8. QED
  BY <1>1, <1>2, <1>6, <1>7, SMTT(40) DEF IndInv

\* IndInv is preserved by every step.
LEMMA NextInd == IndInv /\ [Next]_vars => IndInv'
<1> SUFFICES ASSUME IndInv, [Next]_vars PROVE IndInv'
  BY SMTT(40)
<1>0. 0 \in 0..MaxConfirmed
  BY WordAssumption, SMTT(40)
<1>1. ASSUME NEW p \in Producer, NEW n \in 0..MaxConfirmed, begin_block(p, n)
      PROVE  IndInv'
  BY <1>1, StartInd, SMTT(40)
<1>2. ASSUME NEW s \in Schedules, set_proposed_producers(s)
      PROVE  IndInv'
  BY <1>2, ProposeInd, SMTT(40)
<1>3. CASE commit_block
  <2>1. HeaderInv(head', gpo', confirmers', electorate', overrun')
    BY <1>3, SMTT(40) DEF commit_block, IndInv
  <2>2. pending' = head' /\ pending_gpo' = gpo' /\ has_pending' = FALSE /\ confirmed' = 0
    BY <1>3, SMTT(40) DEF commit_block
  <2> QED BY <1>0, <2>1, <2>2, ZenonT(60) DEF IndInv
<1>4. CASE abort_block
  <2>1. HeaderInv(head', gpo', confirmers', electorate', overrun')
    BY <1>4, SMTT(40) DEF abort_block, history, IndInv
  <2>2. pending' = head' /\ pending_gpo' = gpo' /\ has_pending' = FALSE /\ confirmed' = 0
    BY <1>4, SMTT(40) DEF abort_block
  <2> QED BY <1>0, <2>1, <2>2, ZenonT(60) DEF IndInv
<1>5. CASE UNCHANGED vars
  BY <1>5, SMTT(40) DEF vars, history, IndInv
<1>6. QED
  BY <1>1, <1>2, <1>3, <1>4, <1>5, SMTT(40) DEF Next

\* What the runs check follows from the invariant.
LEMMA IndImplies ==
  IndInv => /\ TypeOK /\ ConfirmationsAreDistinct /\ IrreversibleHasQuorum
            /\ IrreversibleBehindProposed /\ ProposedVersionFits /\ SomebodyProduces
            /\ ConfirmersAreRemembered
<1> SUFFICES ASSUME IndInv
             PROVE  /\ TypeOK /\ ConfirmationsAreDistinct /\ IrreversibleHasQuorum
                    /\ IrreversibleBehindProposed /\ ProposedVersionFits /\ SomebodyProduces
                    /\ ConfirmersAreRemembered
  BY SMTT(40)
<1>1. HeaderInv(head, gpo, confirmers, electorate, overrun)
  BY SMTT(40) DEF IndInv
<1>2. IsHeader(pending) /\ pending_gpo \in ProposalType
  BY <1>1, SMTT(40) DEF IndInv, HeaderInv
<1>3. TypeOK
  BY <1>1, <1>2, SMTT(40) DEF TypeOK, IndInv, HeaderInv
<1>4. ConfirmationsAreDistinct
  BY <1>1, ZenonT(60) DEF ConfirmationsAreDistinct, Accounted, HeaderInv, Counted
<1>5. IrreversibleHasQuorum
  BY <1>1, SMTT(40) DEF IrreversibleHasQuorum, HasQuorum, HeaderInv, Counted, Quorum
<1>6. IrreversibleBehindProposed
  BY <1>1, SMTT(40) DEF IrreversibleBehindProposed, HeaderInv, Ordered
<1>7. ProposedVersionFits /\ SomebodyProduces
  BY <1>1, SMTT(40) DEF ProposedVersionFits, SomebodyProduces, HeaderInv, VersionFits, Scheduled
<1>8. ConfirmersAreRemembered
  BY <1>1, SMTT(40) DEF ConfirmersAreRemembered, HeaderInv, ConfirmersRemembered, Scheduled
<1>9. QED
  BY <1>3, <1>4, <1>5, <1>6, <1>7, <1>8, SMTT(40)

\* Every variable keeps its type, so no confirmation count of set_confirmed
\* ever wraps around, and only a block whose number fits a uint16_t can claim
\* more blocks than its number.
THEOREM TypeCorrect == Spec => []TypeOK
BY InitInd, NextInd, IndImplies, PTL DEF Spec

\* set_confirmed never counts a producer twice for a block after the last one
\* that claimed more blocks than its number, for every range that
\* block_header_state::next lets through, whatever schedules are proposed and
\* whoever produces.  Up to that block it may (KnownRangeConfirmedOnce is
\* violated); by TypeCorrect that is never after block MaxConfirmed.
THEOREM DistinctConfirmations == Spec => []ConfirmationsAreDistinct
BY InitInd, NextInd, IndImplies, PTL DEF Spec

\* Whoever may produce the next block, block_header_state::next knows the last
\* block it confirmed, across all the schedules in which it was dropped.
THEOREM RememberedConfirmers == Spec => []ConfirmersAreRemembered
BY InitInd, NextInd, IndImplies, PTL DEF Spec

\* The blocks that generate_next and set_confirmed call irreversible or
\* proposed irreversible have more than two thirds of distinct confirmers, their
\* own producers included, if they come after the last block that claimed more
\* blocks than its number.
THEOREM QuorumBehindIrreversible == Spec => []IrreversibleHasQuorum
BY InitInd, NextInd, IndImplies, PTL DEF Spec

\* The irreversible block never overtakes the proposed one, nor that the head.
THEOREM IrreversibleOrder == Spec => []IrreversibleBehindProposed
BY InitInd, NextInd, IndImplies, PTL DEF Spec

\* The assertions of set_new_producers never fail in start_block, and there is
\* always an active producer.
THEOREM SchedulesAccepted == Spec => [](ProposedVersionFits /\ SomebodyProduces)
BY InitInd, NextInd, IndImplies, PTL DEF Spec
-----------------------------------------------------------------------------
(* Which schedule a block hands on.                                        *)

\* The pending block keeps the head's active schedule or promotes the head's
\* pending one, and only when its own irreversible block allows that.
PendingPromotes ==
  has_pending /\ pending.active_schedule # head.active_schedule =>
    /\ pending.active_schedule = head.pending_schedule
    /\ pending.dpos_irreversible_blocknum >= head.pending_schedule_lib_num
    /\ pending.active_schedule.version <= head.active_schedule.version + 1

\* start_block builds such a block: neither generate_next nor set_confirmed
\* touches a schedule, and set_new_producers only touches the pending one.
LEMMA StartPromotes ==
  ASSUME IndInv, NEW p \in Producer, NEW n \in 0..MaxConfirmed, begin_block(p, n)
  PROVE  PendingPromotes'
<1>0. PICK h, c, b : /\ h = generate_next(head, p)
                     /\ c = set_confirmed(h, n)
                     /\ b = maybe_promote_pending(c)
  OBVIOUS
<1>1. IsHeaderRecord(head) /\ VersionFits(head, gpo)
  BY ZenonT(60) DEF IndInv, HeaderInv, IsHeader
<1>2. /\ IsHeaderRecord(h)
      /\ h.active_schedule = head.active_schedule
      /\ h.pending_schedule = head.pending_schedule
      /\ h.pending_schedule_lib_num = head.pending_schedule_lib_num
  BY <1>0, <1>1, GenerateNextFields, SMTT(40)
<1>3. /\ IsHeaderRecord(c)
      /\ c.active_schedule = head.active_schedule
      /\ c.pending_schedule = head.pending_schedule
      /\ c.pending_schedule_lib_num = head.pending_schedule_lib_num
  <2>1. SameButCounts(h, c)
    BY <1>0, <1>2, SetConfirmedFields, ZenonT(60)
  <2> QED BY <1>2, <2>1, SMTT(40) DEF SameButCounts
<1>4. /\ IsHeaderRecord(b)
      /\ b.active_schedule # head.active_schedule =>
           /\ b.active_schedule = head.pending_schedule
           /\ b.dpos_irreversible_blocknum >= head.pending_schedule_lib_num
           /\ head.pending_schedule.producers # {}
  <2>1. CASE can_promote_pending(c)
    <3>1. /\ IsHeaderRecord(b)
          /\ b.active_schedule = c.pending_schedule
          /\ b.dpos_irreversible_blocknum = c.dpos_irreversible_blocknum
      BY <1>0, <1>3, <2>1, PromoteFields, ZenonT(60)
    <3> QED BY <1>3, <2>1, <3>1, ZenonT(60) DEF can_promote_pending
  <2>2. CASE ~can_promote_pending(c)
    BY <1>0, <1>3, <2>2 DEF maybe_promote_pending
  <2> QED BY <2>1, <2>2, SMTT(40)
<1>5. \/ pending' = b
      \/ pending' = set_new_producers(b, gpo.schedule)
  <2>1. b = next_header(head, p, n)
    BY <1>0 DEF next_header
  <2> QED BY <2>1 DEF begin_block, start_block
<1>6. /\ pending'.active_schedule = b.active_schedule
      /\ pending'.dpos_irreversible_blocknum = b.dpos_irreversible_blocknum
  BY <1>4, <1>5, SetNewProducersFields
<1>7. head' = head
  BY SMTT(40) DEF begin_block, start_block
<1>8. QED
  BY <1>1, <1>4, <1>6, <1>7, SMTT(40) DEF PendingPromotes, VersionFits

\* PendingPromotes is preserved by every step.
LEMMA NextPromotes == IndInv /\ PendingPromotes /\ [Next]_vars => PendingPromotes'
<1> SUFFICES ASSUME IndInv, PendingPromotes, [Next]_vars PROVE PendingPromotes'
  BY SMTT(40)
<1>1. ASSUME NEW p \in Producer, NEW n \in 0..MaxConfirmed, begin_block(p, n)
      PROVE  PendingPromotes'
  BY <1>1, StartPromotes, SMTT(40)
<1>2. ASSUME NEW s \in Schedules, set_proposed_producers(s)
      PROVE  PendingPromotes'
  BY <1>2, SMTT(40) DEF set_proposed_producers, PendingPromotes
<1>3. CASE commit_block
  BY <1>3, SMTT(40) DEF commit_block, PendingPromotes
<1>4. CASE abort_block
  BY <1>4, SMTT(40) DEF abort_block, PendingPromotes
<1>5. CASE UNCHANGED vars
  BY <1>5, SMTT(40) DEF vars, PendingPromotes
<1>6. QED
  BY <1>1, <1>2, <1>3, <1>4, <1>5, SMTT(40) DEF Next

\* Only commit_block changes the head, so PendingPromotes says what the head's
\* active schedule may become.
LEMMA PromotesStep == PendingPromotes /\ [Next]_vars => [ActiveScheduleStep]_vars
<1> SUFFICES ASSUME PendingPromotes, Next PROVE ActiveScheduleStep
  BY SMTT(40)
<1>1. CASE commit_block
  BY <1>1, SMTT(40) DEF commit_block, PendingPromotes, ActiveScheduleStep
<1>2. CASE ~commit_block
  <2>1. head' = head
    BY <1>2, ZenonT(60) DEF Next, begin_block, start_block, set_proposed_producers, abort_block
  <2> QED BY <2>1, SMTT(40) DEF ActiveScheduleStep
<1>3. QED
  BY <1>1, <1>2, SMTT(40)

\* maybe_promote_pending replaces the active schedule only by the pending one,
\* only after the block at which that became pending is irreversible, and
\* never skips a version, whatever is proposed, produced and aborted.
THEOREM ScheduleChanges == Spec => ScheduleChangesWhenIrreversible
<1>1. Init => PendingPromotes
  BY DEF Init, PendingPromotes
<1>2. QED
  BY <1>1, InitInd, NextInd, NextPromotes, PromotesStep, PTL
     DEF Spec, ScheduleChangesWhenIrreversible
=============================================================================
