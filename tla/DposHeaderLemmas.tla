-------------------------- MODULE DposHeaderLemmas --------------------------
(***************************************************************************)
(* The invariant of a header state, what each operation on header states   *)
(* changes, and what the next block adds to the history.                   *)
(***************************************************************************)
EXTENDS DposChain, TLAPS, FiniteSetTheorems, WellFoundedInduction

\* Block k, if it comes after W, has a quorum, given who confirmed it and how
\* many were scheduled.
Quorum(k, C, E, W) == k > W => 3 * Cardinality(C[k]) > 2 * E[k]

\* The block numbers of a header state are in order, and the counts that are
\* still tracked belong to blocks after the proposed irreversible one.
Ordered(b) ==
  /\ b.dpos_irreversible_blocknum <= b.dpos_proposed_irreversible_blocknum
  /\ b.dpos_proposed_irreversible_blocknum <= b.block_num
  /\ b.pending_schedule_lib_num <= b.block_num
  /\ \A p \in DOMAIN b.producer_to_last_implied_irb :
       b.producer_to_last_implied_irb[p] <= b.dpos_proposed_irreversible_blocknum
  /\ \A p \in DOMAIN b.producer_to_last_produced :
       b.producer_to_last_produced[p] <= b.block_num
  /\ \A k \in DOMAIN b.confirm_count :
       b.dpos_proposed_irreversible_blocknum < k /\ k <= b.block_num

\* Nobody has confirmed a block that does not exist yet.  Who confirmed block
\* k and is in the last-produced table has an entry of at least k; who has
\* left it can only return through a schedule that became pending after k.
ConfirmersRemembered(b, C) ==
  \A k \in 1..MaxBlock : \A p \in C[k] :
    /\ k <= b.block_num
    /\ p \in DOMAIN b.producer_to_last_produced => k <= b.producer_to_last_produced[p]
    /\ p \notin DOMAIN b.producer_to_last_produced =>
         b.pending_schedule.producers = {} \/ k <= b.pending_schedule_lib_num

\* Nobody was counted twice, and what is called irreversible has a quorum.
Counted(b, C, E, W) ==
  /\ \A k \in DOMAIN b.confirm_count :
       k > W => b.confirm_count[k] + Cardinality(C[k]) = required_confs(E[k])
  /\ Quorum(b.dpos_proposed_irreversible_blocknum, C, E, W)
  /\ Quorum(b.dpos_irreversible_blocknum, C, E, W)
  /\ \A p \in DOMAIN b.producer_to_last_implied_irb :
       Quorum(b.producer_to_last_implied_irb[p], C, E, W)

\* The active producers are in the last-produced table, except at genesis,
\* when nobody has confirmed anything.
Scheduled(b, C) ==
  /\ b.active_schedule.producers # {}
  /\ \/ b.active_schedule.producers \subseteq DOMAIN b.producer_to_last_produced
     \/ /\ b.active_schedule.producers = {SystemAccount}
        /\ \A k \in 1..MaxBlock : C[k] = {}

VersionFits(b, g) ==
  /\ b.pending_schedule.producers # {} =>
       b.pending_schedule.version <= b.active_schedule.version + 1
  /\ g.block_num # 0 =>
       g.schedule.version = 1 + (IF b.pending_schedule.producers = {}
                                 THEN b.active_schedule.version ELSE b.pending_schedule.version)

HeaderInv(b, g, C, E, W) ==
  /\ IsHeader(b)
  /\ g \in ProposalType
  /\ C \in [1..MaxBlock -> SUBSET Producer]
  /\ E \in [1..MaxBlock -> Nat]
  /\ W \in BlockNum /\ W <= MaxConfirmed
  /\ Ordered(b)
  /\ ConfirmersRemembered(b, C)
  /\ Counted(b, C, E, W)
  /\ Scheduled(b, C)
  /\ VersionFits(b, g)

-----------------------------------------------------------------------------
\* Among the elements of a bounded set of naturals one has no larger element:
\* the sets of larger elements are ordered by inclusion, which is well-founded.
LEMMA MaxExists ==
  ASSUME NEW N \in Nat, NEW S \in SUBSET (0..N), S # {}
  PROVE  \E x \in S : \A y \in S : y <= x
<1> DEFINE Above(x) == {y \in S : y > x}
           R == StrictSubsetOrdering(S)
           T == {Above(x) : x \in S}
<1>1. IsFiniteSet(S)
  <2>1. IsFiniteSet(0..N)
    BY FS_Interval
  <2> QED BY <2>1, FS_Subset, Zenon
<1>2. T \subseteq FiniteSubsetsOf(S)
  BY <1>1, FS_Subset DEF FiniteSubsetsOf
<1>3. T # {}
  BY Zenon
<1>4. IsWellFoundedOn(R, FiniteSubsetsOf(S))
  BY FS_StrictSubsetOrderingWellFounded
<1>5. \E t \in T : \A u \in T : ~ (<<u, t>> \in R)
  <2> HIDE DEF R, T
  <2> QED BY <1>2, <1>3, <1>4, WFMin
<1>6. PICK x \in S : \A u \in T : ~ (<<u, Above(x)>> \in R)
  BY <1>5, Zenon
<1>7. ASSUME NEW y \in S, ~(y <= x) PROVE FALSE
  <2>1. x \in Int /\ y \in Int /\ y > x
    BY <1>7
  <2>2. Above(y) \subseteq Above(x)
    <3> SUFFICES ASSUME NEW z \in S, z > y PROVE z > x
      BY Zenon
    <3> QED BY <2>1
  <2>3. y \in Above(x) /\ y \notin Above(y)
    BY <2>1
  <2>4. <<Above(y), Above(x)>> \in R
    BY <2>2, <2>3 DEF StrictSubsetOrdering
  <2> QED BY <1>6, <2>4, Zenon
<1>8. QED
  BY <1>7

\* MaxOf returns the largest element of a nonempty bounded set of naturals.
LEMMA MaxOfIsMax ==
  ASSUME NEW N \in Nat, NEW S \in SUBSET (0..N), S # {}
  PROVE  MaxOf(S) \in S /\ \A y \in S : y <= MaxOf(S)
BY MaxExists, Zenon DEF MaxOf

\* A nonempty bounded set of naturals has a least element.
LEMMA MinExists ==
  ASSUME NEW N \in Nat, NEW S \in SUBSET (0..N), S # {}
  PROVE  \E x \in S : \A y \in S : x <= y
<1> DEFINE T == {N - x : x \in S}
<1>1. T \in SUBSET (0..N)
  OBVIOUS
<1>2. T # {}
  BY Zenon
<1>3. PICK t \in T : \A y \in T : y <= t
  BY <1>1, <1>2, MaxExists, ZenonT(60)
<1>4. PICK x \in S : t = N - x
  OBVIOUS
<1>5. \A y \in S : x <= y
  BY <1>3, <1>4, SMTT(40)
<1>6. QED
  BY <1>5, Zenon
-----------------------------------------------------------------------------
\* What each step of the header state changes, field by field.
LEMMA GenerateNextFields ==
  ASSUME NEW b, NEW p, IsHeaderRecord(b), NEW g, g = generate_next(b, p)
  PROVE  /\ IsHeaderRecord(g)
         /\ g.block_num = b.block_num + 1
         /\ g.producer = p
         /\ g.producer_to_last_produced = Put(b.producer_to_last_produced, p, b.block_num + 1)
         /\ g.producer_to_last_implied_irb = implied_irb(b, p)
         /\ g.dpos_proposed_irreversible_blocknum = b.dpos_proposed_irreversible_blocknum
         /\ g.dpos_irreversible_blocknum = calc_dpos_last_irreversible(implied_irb(b, p))
         /\ g.confirm_count = grow_confirm_count(b)
         /\ g.active_schedule = b.active_schedule
         /\ g.pending_schedule = b.pending_schedule
         /\ g.pending_schedule_lib_num = b.pending_schedule_lib_num
BY DEF IsHeaderRecord, generate_next

\* c is h but for the counts and the proposed irreversible block.
SameButCounts(h, c) ==
  /\ IsHeaderRecord(c)
  /\ c.block_num = h.block_num
  /\ c.producer = h.producer
  /\ c.producer_to_last_produced = h.producer_to_last_produced
  /\ c.producer_to_last_implied_irb = h.producer_to_last_implied_irb
  /\ c.dpos_irreversible_blocknum = h.dpos_irreversible_blocknum
  /\ c.active_schedule = h.active_schedule
  /\ c.pending_schedule = h.pending_schedule
  /\ c.pending_schedule_lib_num = h.pending_schedule_lib_num

LEMMA SetConfirmedFields ==
  ASSUME NEW b, NEW n, IsHeaderRecord(b), NEW c, c = set_confirmed(b, n)
  PROVE  /\ SameButCounts(b, c)
         /\ completed(b, n) = {} =>
              /\ c.dpos_proposed_irreversible_blocknum = b.dpos_proposed_irreversible_blocknum
              /\ c.confirm_count = decrement(b, n)
         /\ completed(b, n) # {} =>
              /\ c.dpos_proposed_irreversible_blocknum = MaxOf(completed(b, n))
              /\ c.confirm_count =
                   [k \in {k \in DOMAIN b.confirm_count : k > MaxOf(completed(b, n))} |->
                      decrement(b, n)[k]]
BY DEF IsHeaderRecord, set_confirmed, SameButCounts

LEMMA PromoteFields ==
  ASSUME NEW b, IsHeaderRecord(b), can_promote_pending(b),
         NEW c, c = maybe_promote_pending(b)
  PROVE  /\ IsHeaderRecord(c)
         /\ c.block_num = b.block_num
         /\ c.producer = b.producer
         /\ c.producer_to_last_produced =
              Put(carry_over(b, b.producer_to_last_produced), b.producer, b.block_num)
         /\ c.producer_to_last_implied_irb = carry_over(b, b.producer_to_last_implied_irb)
         /\ c.dpos_proposed_irreversible_blocknum = b.dpos_proposed_irreversible_blocknum
         /\ c.dpos_irreversible_blocknum = b.dpos_irreversible_blocknum
         /\ c.confirm_count = b.confirm_count
         /\ c.active_schedule = b.pending_schedule
         /\ c.pending_schedule = [b.pending_schedule EXCEPT !.producers = {}]
         /\ c.pending_schedule_lib_num = b.pending_schedule_lib_num
BY DEF IsHeaderRecord, maybe_promote_pending

LEMMA SetNewProducersFields ==
  ASSUME NEW b, NEW s, IsHeaderRecord(b), NEW c, c = set_new_producers(b, s)
  PROVE  /\ IsHeaderRecord(c)
         /\ c.block_num = b.block_num
         /\ c.producer = b.producer
         /\ c.producer_to_last_produced = b.producer_to_last_produced
         /\ c.producer_to_last_implied_irb = b.producer_to_last_implied_irb
         /\ c.dpos_proposed_irreversible_blocknum = b.dpos_proposed_irreversible_blocknum
         /\ c.dpos_irreversible_blocknum = b.dpos_irreversible_blocknum
         /\ c.confirm_count = b.confirm_count
         /\ c.active_schedule = b.active_schedule
         /\ c.pending_schedule = s
         /\ c.pending_schedule_lib_num = b.block_num
BY DEF IsHeaderRecord, set_new_producers
-----------------------------------------------------------------------------
\* The irreversible block number is one of the implied ones.
LEMMA CalcIsImplied ==
  ASSUME NEW irb, IsMap(irb, Producer, BlockNum), DOMAIN irb # {}
  PROVE  \E p \in DOMAIN irb : calc_dpos_last_irreversible(irb) = irb[p]
<1> DEFINE D == DOMAIN irb
           V == {irb[p] : p \in D}
           Below(v) == {p \in D : irb[p] < v}
           S == {v \in V : Cardinality(Below(v)) <= (Cardinality(D) - 1) \div 3}
<1>1. V \in SUBSET (0..MaxBlock) /\ V # {}
  BY DEF IsMap, BlockNum
<1>2. IsFiniteSet(D)
  BY ProducerAssumption, FS_Subset DEF IsMap
<1>3. Cardinality(D) \in Nat /\ Cardinality(D) # 0
  BY <1>2, FS_CardinalityType, FS_EmptySet, SMTT(40)
<1>4. PICK v \in V : \A w \in V : v <= w
  BY <1>1, MinExists, MaxBlockAssumption, ZenonT(60)
<1>5. Below(v) = {}
  BY <1>1, <1>4, SMTT(40)
<1>6. Cardinality(Below(v)) = 0
  BY <1>5, FS_EmptySet, SMTT(40)
<1>7. v \in S
  BY <1>3, <1>6, SMTT(40)
<1>8. S \in SUBSET (0..MaxBlock) /\ S # {}
  BY <1>1, <1>7, ZenonT(60)
<1>9. MaxOf(S) \in S
  BY <1>8, MaxOfIsMax, MaxBlockAssumption, ZenonT(60)
<1>10. calc_dpos_last_irreversible(irb) = MaxOf(S)
  BY DEF calc_dpos_last_irreversible
<1>11. QED
  BY <1>9, <1>10, ZenonT(60)

\* The situation in which start_block builds a block of producer p on b.
CanStart(b, g, C, E, W, p, n) ==
  /\ HeaderInv(b, g, C, E, W)
  /\ b.block_num < MaxBlock
  /\ p \in b.active_schedule.producers
  /\ n \in 0..MaxConfirmed
  /\ no_double_confirm(b, p, n)

\* Nobody confirms a block a second time, unless the begin of the range wraps.
LEMMA NotYetConfirmed ==
  ASSUME NEW b, NEW g, NEW C, NEW E, NEW W, NEW p, NEW n, CanStart(b, g, C, E, W, p, n),
         n <= b.block_num + 1,
         NEW k \in 1..MaxBlock, k \in (b.block_num + 1 - n)..(b.block_num + 1)
  PROVE  p \notin C[k]
<1>1. b.block_num \in 1..MaxBlock /\ n \in Nat
  BY WordAssumption DEF CanStart, HeaderInv, IsHeader
<1>3. SUFFICES ASSUME p \in C[k] PROVE FALSE
  OBVIOUS
<1>4. p \in DOMAIN b.producer_to_last_produced
  BY <1>3, SMTT(40) DEF CanStart, HeaderInv, Scheduled
<1>5. b.producer_to_last_produced[p] \in Nat
  BY <1>4, MaxBlockAssumption, SMTT(40) DEF CanStart, HeaderInv, IsHeader, IsMap, BlockNum
<1>6. b.producer_to_last_produced[p] < uint32(b.block_num + 1 - n)
  BY <1>4 DEF CanStart, no_double_confirm
<1>7. k <= b.producer_to_last_produced[p]
  BY <1>3, <1>4 DEF CanStart, HeaderInv, ConfirmersRemembered
<1>8. uint32(b.block_num + 1 - n) = b.block_num + 1 - n
  BY <1>1 DEF uint32
<1>9. QED
  BY <1>1, <1>5, <1>6, <1>7, <1>8, SMTT(40)

\* The new block extends the history C, E, W to D, F, V.
Grows(b, g, C, E, W, p, n, D, F, V) ==
  /\ CanStart(b, g, C, E, W, p, n)
  /\ D = AddConfirmer(C, b.block_num + 1, p, n)
  /\ F = AddElectorate(E, b)
  /\ V = AddOverrun(W, b.block_num + 1, n)

\* What the confirmations of the new block add to the history.
LEMMA HistoryGrows ==
  ASSUME NEW b, NEW g, NEW C, NEW E, NEW W, NEW p, NEW n, NEW D, NEW F, NEW V,
         Grows(b, g, C, E, W, p, n, D, F, V)
  PROVE  /\ D \in [1..MaxBlock -> SUBSET Producer]
         /\ F \in [1..MaxBlock -> Nat]
         /\ V \in BlockNum /\ V <= MaxConfirmed
         /\ \A k \in 1..MaxBlock :
              /\ Cardinality(C[k]) \in Nat
              /\ k > V /\ k <= b.block_num + 1 => k > W
              /\ k \in (b.block_num + 1 - n)..(b.block_num + 1) =>
                   /\ D[k] = C[k] \cup {p}
                   /\ k > V => Cardinality(D[k]) = Cardinality(C[k]) + 1
              /\ k \notin (b.block_num + 1 - n)..(b.block_num + 1) => D[k] = C[k]
              /\ k <= b.block_num => F[k] = E[k]
         /\ Cardinality(C[b.block_num + 1]) = 0
         /\ F[b.block_num + 1] = Cardinality(b.active_schedule.producers)
<1> /\ CanStart(b, g, C, E, W, p, n)
    /\ D = AddConfirmer(C, b.block_num + 1, p, n)
    /\ F = AddElectorate(E, b)
    /\ V = AddOverrun(W, b.block_num + 1, n)
  BY ZenonT(60) DEF Grows
<1>1. /\ b.block_num \in 1..MaxBlock /\ b.block_num + 1 \in 1..MaxBlock
      /\ C \in [1..MaxBlock -> SUBSET Producer] /\ E \in [1..MaxBlock -> Nat]
      /\ b.active_schedule.producers \subseteq Producer /\ p \in Producer
      /\ n \in 0..MaxConfirmed
  <2>1. /\ b.block_num \in 1..MaxBlock /\ b.block_num < MaxBlock
        /\ C \in [1..MaxBlock -> SUBSET Producer] /\ E \in [1..MaxBlock -> Nat]
        /\ b.active_schedule \in ScheduleType /\ p \in b.active_schedule.producers
        /\ n \in 0..MaxConfirmed
    BY ZenonT(60) DEF CanStart, HeaderInv, IsHeader
  <2>2. b.active_schedule.producers \subseteq Producer
    BY <2>1, SMTT(40) DEF ScheduleType
  <2> QED BY <2>1, <2>2, MaxBlockAssumption, SMTT(40)
<1>w. /\ MaxConfirmed \in Nat
      /\ W \in Nat /\ W \in BlockNum /\ W <= MaxConfirmed
  <2>1. W \in BlockNum /\ W <= MaxConfirmed
    BY ZenonT(60) DEF CanStart, HeaderInv
  <2> QED BY <2>1, MaxBlockAssumption, WordAssumption, SMTT(40) DEF BlockNum
<1>b. /\ n > b.block_num + 1 => V = b.block_num + 1
      /\ ~(n > b.block_num + 1) => V = W
  BY SMTT(40) DEF AddOverrun
<1>c. V \in BlockNum /\ V <= MaxConfirmed
  BY <1>1, <1>b, <1>w, MaxBlockAssumption, SMTT(40) DEF BlockNum
<1>d. ASSUME NEW k \in 1..MaxBlock, k > V, k <= b.block_num + 1
      PROVE  k > W /\ n <= b.block_num + 1
  BY <1>1, <1>b, <1>d, <1>w, SMTT(40)
<1>2. /\ DOMAIN D = 1..MaxBlock
      /\ \A k \in 1..MaxBlock :
           D[k] = IF k \in (b.block_num + 1 - n)..(b.block_num + 1) THEN C[k] \cup {p} ELSE C[k]
  BY <1>1, SMTT(40) DEF AddConfirmer
<1>a. D \in [1..MaxBlock -> SUBSET Producer]
  <2>1. D = [k \in DOMAIN D |-> D[k]]
    BY SMTT(40) DEF AddConfirmer
  <2>2. ASSUME NEW k \in 1..MaxBlock PROVE D[k] \in SUBSET Producer
    <3>1. D[k] = C[k] \cup {p} \/ D[k] = C[k]
      BY <1>2, ZenonT(60)
    <3> QED BY <1>1, <3>1, SMTT(40)
  <2> QED BY <1>2, <2>1, <2>2, Zenon
<1>3. Cardinality(b.active_schedule.producers) \in Nat
  BY <1>1, ProducerAssumption, FS_Subset, FS_CardinalityType, SMTT(40)
<1>4. F \in [1..MaxBlock -> Nat] /\ F[b.block_num + 1] = Cardinality(b.active_schedule.producers)
  BY <1>1, <1>3, SMTT(40) DEF AddElectorate
<1>5. ASSUME NEW k \in 1..MaxBlock
      PROVE  /\ IsFiniteSet(C[k])
             /\ Cardinality(C[k]) \in Nat
  <2>1. IsFiniteSet(C[k])
    BY <1>1, ProducerAssumption, FS_Subset, SMTT(40)
  <2> QED BY <2>1, FS_CardinalityType, SMTT(40)
<1>6. ASSUME NEW k \in 1..MaxBlock, k \in (b.block_num + 1 - n)..(b.block_num + 1)
      PROVE  D[k] = C[k] \cup {p} /\ (k > V => Cardinality(D[k]) = Cardinality(C[k]) + 1)
  <2>1. D[k] = C[k] \cup {p}
    BY <1>2, <1>6, ZenonT(60)
  <2> SUFFICES ASSUME k > V PROVE Cardinality(D[k]) = Cardinality(C[k]) + 1
    BY <2>1, SMTT(40)
  <2>5. n <= b.block_num + 1
    <3>1. k <= b.block_num + 1
      BY <1>1, <1>6, SMTT(40)
    <3> QED BY <1>d, <3>1, SMTT(40)
  <2>2. p \notin C[k]
    BY <1>6, <2>5, NotYetConfirmed, ZenonT(60)
  <2>3. IsFiniteSet(C[k])
    BY <1>5, SMTT(40)
  <2>4. Cardinality(C[k] \cup {p}) = Cardinality(C[k]) + 1
    BY <2>2, <2>3, FS_AddElement, ZenonT(60)
  <2> QED BY <2>1, <2>4, ZenonT(60)
<1>7. ASSUME NEW k \in 1..MaxBlock, k \notin (b.block_num + 1 - n)..(b.block_num + 1)
      PROVE  D[k] = C[k]
  BY <1>2, <1>7, ZenonT(60)
<1>8. ASSUME NEW k \in 1..MaxBlock, k <= b.block_num
      PROVE  F[k] = E[k]
  BY <1>1, <1>8, SMTT(40) DEF AddElectorate
<1>9. C[b.block_num + 1] = {}
  <2> SUFFICES ASSUME NEW q \in C[b.block_num + 1] PROVE FALSE
    BY SMTT(40)
  <2>1. b.block_num + 1 <= b.block_num
    BY <1>1, SMTT(40) DEF CanStart, HeaderInv, ConfirmersRemembered
  <2> QED BY <1>1, <2>1, SMTT(40)
<1>10. Cardinality(C[b.block_num + 1]) = 0
  BY <1>9, FS_EmptySet
<1>11. QED
  BY <1>a, <1>c, <1>d, <1>4, <1>5, <1>6, <1>7, <1>8, <1>10
=============================================================================
