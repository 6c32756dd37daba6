-------------------------- MODULE DposHeaderCounts --------------------------
(***************************************************************************)
(* set_confirmed completes the invariant: the counts of the confirmed      *)
(* blocks drop by one, and the newest that is complete becomes the         *)
(* proposed irreversible block of the producer.                            *)
(***************************************************************************)
EXTENDS DposHeaderNext

\* A count that set_confirmed decrements stays a number, and the completed
\* blocks are those whose count reaches zero.
LEMMA DecrementedCount ==
  ASSUME NEW b, NEW n \in Nat, b.block_num \in Nat,
         NEW k \in DOMAIN b.confirm_count, k \in Nat, b.confirm_count[k] \in Nat \ {0}
  PROVE  /\ decrement(b, n)[k] \in Nat
         /\ k >= b.block_num - n => decrement(b, n)[k] = b.confirm_count[k] - 1
         /\ ~(k >= b.block_num - n) => decrement(b, n)[k] = b.confirm_count[k]
         /\ k \in completed(b, n) <=> decrement(b, n)[k] = 0
BY DEF decrement, completed

\* top is a completed block, proposed as irreversible in c; only later counts,
\* none of them complete, stay.
Newest(b, n, c, top) ==
  /\ top \in completed(b, n)
  /\ top \in DOMAIN b.confirm_count
  /\ c.dpos_proposed_irreversible_blocknum = top
  /\ c.confirm_count = [k \in DOMAIN c.confirm_count |-> c.confirm_count[k]]
  /\ \A k \in DOMAIN c.confirm_count :
       /\ k \in DOMAIN b.confirm_count
       /\ c.confirm_count[k] = decrement(b, n)[k]
       /\ top < k
       /\ k \notin completed(b, n)

\* Some block is the newest completed one.
LEMMA NewestCompleted ==
  ASSUME NEW b, NEW n, IsHeaderRecord(b), NEW c, c = set_confirmed(b, n),
         DOMAIN b.confirm_count \subseteq 1..MaxBlock, completed(b, n) # {}
  PROVE  \E top : Newest(b, n, c, top)
<1>1. completed(b, n) \subseteq DOMAIN b.confirm_count
  BY DEF completed
<1>2. completed(b, n) \in SUBSET (0..MaxBlock)
  BY <1>1, MaxBlockAssumption
<1>3. PICK top \in completed(b, n) : top = MaxOf(completed(b, n)) /\ \A k \in completed(b, n) : k <= top
  BY <1>2, MaxOfIsMax, MaxBlockAssumption, ZenonT(60)
<1>4. /\ c.dpos_proposed_irreversible_blocknum = top
      /\ c.confirm_count = [k \in {k \in DOMAIN b.confirm_count : k > top} |-> decrement(b, n)[k]]
  BY <1>3, SetConfirmedFields, SMTT(40)
<1>5. top \in 1..MaxBlock
  BY <1>1, SMTT(40)
<1>6. ASSUME NEW k \in DOMAIN c.confirm_count
      PROVE  /\ k \in DOMAIN b.confirm_count
             /\ c.confirm_count[k] = decrement(b, n)[k]
             /\ top < k /\ k \notin completed(b, n)
  <2>1. k \in DOMAIN b.confirm_count /\ k > top /\ c.confirm_count[k] = decrement(b, n)[k]
    BY <1>4
  <2>2. k \in 1..MaxBlock
    BY <2>1
  <2> QED BY <1>3, <1>5, <2>1, <2>2, SMTT(40)
<1>7. c.confirm_count = [k \in DOMAIN c.confirm_count |-> c.confirm_count[k]]
  BY <1>4, SMTT(40)
<1>8. Newest(b, n, c, top)
  BY <1>1, <1>4, <1>6, <1>7, SMTT(40) DEF Newest
<1> QED BY <1>8

\* D is C with one more confirmer for block num and the n blocks before it, at
\* least as far as they come after V.
Confirms(C, D, V, num, n) ==
  \A k \in 1..MaxBlock :
    /\ Cardinality(C[k]) \in Nat
    /\ k \in (num - n)..num => (k > V => Cardinality(D[k]) = Cardinality(C[k]) + 1)
    /\ k \notin (num - n)..num => D[k] = C[k]

\* The counts of h match the confirmers after set_confirmed decrements them.
Decremented(h, n, D, F, V) ==
  \A k \in DOMAIN h.confirm_count :
    k > V => decrement(h, n)[k] + Cardinality(D[k]) = required_confs(F[k])

\* One confirmation more is one count less.
LEMMA CountKept ==
  ASSUME NEW h, NEW n \in Nat, h.block_num \in Nat, NEW C, NEW D, NEW F, NEW V,
         Confirms(C, D, V, h.block_num, n),
         NEW k \in DOMAIN h.confirm_count, k \in 1..MaxBlock, k <= h.block_num, k > V,
         h.confirm_count[k] \in Nat \ {0},
         h.confirm_count[k] + Cardinality(C[k]) = required_confs(F[k])
  PROVE  decrement(h, n)[k] + Cardinality(D[k]) = required_confs(F[k])
<1>0. /\ Cardinality(C[k]) \in Nat /\ k \in Nat
      /\ k \in (h.block_num - n)..h.block_num =>
           (k > V => Cardinality(D[k]) = Cardinality(C[k]) + 1)
      /\ k \notin (h.block_num - n)..h.block_num => D[k] = C[k]
  BY DEF Confirms
<1>1. CASE k >= h.block_num - n
  <2>1. k \in (h.block_num - n)..h.block_num
    BY <1>0, <1>1, SMTT(40)
  <2>2. decrement(h, n)[k] = h.confirm_count[k] - 1
    BY <1>0, <1>1, DecrementedCount, SMTT(40)
  <2> QED BY <1>0, <2>1, <2>2, SMTT(40)
<1>2. CASE ~(k >= h.block_num - n)
  <2>1. k \notin (h.block_num - n)..h.block_num
    BY <1>0, <1>2, SMTT(40)
  <2>2. decrement(h, n)[k] = h.confirm_count[k]
    BY <1>0, <1>2, DecrementedCount, SMTT(40)
  <2> QED BY <1>0, <2>1, <2>2, SMTT(40)
<1> QED BY <1>1, <1>2, SMTT(40)

\* The same for all counts of a header state.
LEMMA BalanceKept ==
  ASSUME NEW h, NEW n \in Nat, NEW C, NEW D, NEW F, NEW V, Confirms(C, D, V, h.block_num, n),
         IsHeader(h), Ordered(h), Balanced(h, C, F, V)
  PROVE  Decremented(h, n, D, F, V)
<1>1. ASSUME NEW k \in DOMAIN h.confirm_count, k > V
      PROVE  decrement(h, n)[k] + Cardinality(D[k]) = required_confs(F[k])
  <2>1. k \in 1..MaxBlock /\ h.confirm_count[k] \in Nat \ {0} /\ h.block_num \in Nat
    BY <1>1, SMTT(40) DEF IsHeader, IsMap
  <2>2. k <= h.block_num
    BY <1>1, SMTT(40) DEF Ordered
  <2>3. h.confirm_count[k] + Cardinality(C[k]) = required_confs(F[k])
    BY <1>1, SMTT(40) DEF Balanced
  <2> QED BY <1>1, <2>1, <2>2, <2>3, CountKept, SMTT(40)
<1> QED BY <1>1, SMTT(40) DEF Decremented

\* If the decremented counts match the confirmers, then the counts that stay
\* are good, and the block that set_confirmed proposes has a quorum.
LEMMA CountsConfirmed ==
  ASSUME NEW h, NEW n \in Nat, NEW D, NEW F, NEW V, NEW c, c = set_confirmed(h, n),
         IsHeader(h), Ordered(h), Quorum(h.dpos_proposed_irreversible_blocknum, D, F, V),
         D \in [1..MaxBlock -> SUBSET Producer], F \in [1..MaxBlock -> Nat],
         Decremented(h, n, D, F, V)
  PROVE  GoodCounts(h, c, D, F, V)
<1>1. /\ IsHeaderRecord(h) /\ h.block_num \in Nat
      /\ h.dpos_proposed_irreversible_blocknum \in BlockNum
      /\ DOMAIN h.confirm_count \subseteq 1..MaxBlock
  BY SMTT(40) DEF IsHeader, IsMap
<1>2. ASSUME NEW k \in DOMAIN h.confirm_count
      PROVE  /\ k \in 1..MaxBlock /\ h.dpos_proposed_irreversible_blocknum < k /\ k <= h.block_num
             /\ decrement(h, n)[k] \in Nat
             /\ k > V => decrement(h, n)[k] + Cardinality(D[k]) = required_confs(F[k])
             /\ k \in completed(h, n) <=> decrement(h, n)[k] = 0
  <2>1. k \in 1..MaxBlock /\ h.confirm_count[k] \in Nat \ {0}
    BY <1>2, SMTT(40) DEF IsHeader, IsMap
  <2>2. h.dpos_proposed_irreversible_blocknum < k /\ k <= h.block_num
    BY <1>2, SMTT(40) DEF Ordered
  <2>3. k > V => decrement(h, n)[k] + Cardinality(D[k]) = required_confs(F[k])
    BY <1>2, SMTT(40) DEF Decremented
  <2> QED BY <1>1, <1>2, <2>1, <2>2, <2>3, DecrementedCount, SMTT(40)
<1>3. ASSUME NEW top \in BlockNum, h.dpos_proposed_irreversible_blocknum <= top,
             top <= h.block_num, Quorum(top, D, F, V),
             c.dpos_proposed_irreversible_blocknum = top,
             c.confirm_count = [k \in DOMAIN c.confirm_count |-> c.confirm_count[k]],
             \A k \in DOMAIN c.confirm_count :
                /\ k \in DOMAIN h.confirm_count
                /\ c.confirm_count[k] = decrement(h, n)[k]
                /\ top < k
                /\ k \notin completed(h, n)
      PROVE  GoodCounts(h, c, D, F, V)
  <2>1. \A k \in DOMAIN c.confirm_count : k \in 1..MaxBlock /\ c.confirm_count[k] \in Nat \ {0}
    BY <1>2, <1>3, SMTT(40)
  <2>2. IsMap(c.confirm_count, 1..MaxBlock, Nat \ {0})
    BY <1>3, <2>1 DEF IsMap
  <2> QED BY <1>2, <1>3, <2>2, SMTT(40) DEF GoodCounts
<1>4. CASE completed(h, n) = {}
  <2>1. /\ c.dpos_proposed_irreversible_blocknum = h.dpos_proposed_irreversible_blocknum
        /\ c.confirm_count = decrement(h, n)
    BY <1>1, <1>4, SetConfirmedFields, ZenonT(60)
  <2>2. /\ DOMAIN c.confirm_count = DOMAIN h.confirm_count
        /\ c.confirm_count = [k \in DOMAIN c.confirm_count |-> c.confirm_count[k]]
    BY <2>1 DEF decrement
  <2>3. /\ h.dpos_proposed_irreversible_blocknum <= h.dpos_proposed_irreversible_blocknum
        /\ h.dpos_proposed_irreversible_blocknum <= h.block_num
    BY <1>1, MaxBlockAssumption, SMTT(40) DEF Ordered, BlockNum
  <2> QED BY <1>1, <1>2, <1>3, <1>4, <2>1, <2>2, <2>3, SMTT(40)
<1>5. CASE completed(h, n) # {}
  <2>0. PICK top : Newest(h, n, c, top)
    BY <1>1, <1>5, NewestCompleted, SMTT(40)
  <2>1. /\ top \in DOMAIN h.confirm_count /\ top \in completed(h, n)
        /\ c.dpos_proposed_irreversible_blocknum = top
        /\ c.confirm_count = [k \in DOMAIN c.confirm_count |-> c.confirm_count[k]]
        /\ \A k \in DOMAIN c.confirm_count :
             /\ k \in DOMAIN h.confirm_count
             /\ c.confirm_count[k] = decrement(h, n)[k]
             /\ top < k
             /\ k \notin completed(h, n)
    BY <2>0, SMTT(40) DEF Newest
  <2>2. /\ top \in 1..MaxBlock /\ h.dpos_proposed_irreversible_blocknum < top /\ top <= h.block_num
        /\ decrement(h, n)[top] = 0
        /\ top > V => decrement(h, n)[top] + Cardinality(D[top]) = required_confs(F[top])
    BY <1>2, <2>1, SMTT(40)
  <2>3. Quorum(top, D, F, V)
    <3> SUFFICES ASSUME top > V PROVE 3 * Cardinality(D[top]) > 2 * F[top]
      BY SMTT(40) DEF Quorum
    <3>1. Cardinality(D[top]) \in Nat /\ F[top] \in Nat
      BY <2>2, ProducerAssumption, FS_Subset, FS_CardinalityType, SMTT(40)
    <3>2. Cardinality(D[top]) = required_confs(F[top])
      BY <2>2, <3>1, SMTT(40)
    <3>3. 3 * required_confs(F[top]) > 2 * F[top]
      BY <3>1, SMTT(40) DEF required_confs
    <3> QED BY <3>2, <3>3, SMTT(40)
  <2>4. top \in BlockNum /\ h.dpos_proposed_irreversible_blocknum <= top
    BY <1>1, <2>2, MaxBlockAssumption, SMTT(40) DEF BlockNum
  <2> QED BY <1>3, <2>1, <2>2, <2>3, <2>4, SMTT(40)
<1> QED BY <1>4, <1>5, SMTT(40)

\* Its confirmations complete the header state of the new block: the counts
\* match the distinct confirmers, and a completed count is a quorum.
LEMMA SetConfirmedStep ==
  ASSUME NEW b, NEW g, NEW C, NEW E, NEW W, NEW p, NEW n, NEW D, NEW F, NEW V,
         Grows(b, g, C, E, W, p, n, D, F, V),
         NEW h, h = generate_next(b, p), NEW c, c = set_confirmed(h, n)
  PROVE  HeaderInv(c, g, D, F, V) /\ c.block_num = b.block_num + 1 /\ c.producer = p
<1> CanStart(b, g, C, E, W, p, n)
  BY ZenonT(60) DEF Grows
<1>1. /\ IsHeader(h) /\ Ordered(h)
      /\ Quorum(h.dpos_proposed_irreversible_blocknum, D, F, V)
      /\ Balanced(h, C, F, V)
  BY GenerateNextStep, ZenonT(60)
<1>2. /\ QuorumsImplied(h, D, F, V)
      /\ ConfirmersRemembered(h, D) /\ Scheduled(h, D) /\ VersionFits(h, g)
  BY GenerateNextStep, ZenonT(60)
<1>3. h.block_num = b.block_num + 1 /\ h.producer = p
  <2>1. IsHeaderRecord(b)
    BY ZenonT(60) DEF CanStart, HeaderInv, IsHeader
  <2> QED BY <2>1, GenerateNextFields, SMTT(40)
<1>4. IsHeaderRecord(h) /\ b.block_num \in Nat /\ n \in Nat /\ g \in ProposalType
  <2>1. HeaderInv(b, g, C, E, W) /\ n \in 0..MaxConfirmed
    BY ZenonT(60) DEF CanStart
  <2>2. IsHeader(b) /\ g \in ProposalType
    BY <2>1, ZenonT(60) DEF HeaderInv
  <2>3. IsHeaderRecord(h) /\ b.block_num \in 1..MaxBlock
    BY <1>1, <2>2, ZenonT(60) DEF IsHeader
  <2> QED BY <2>1, <2>2, <2>3, MaxBlockAssumption, WordAssumption, SMTT(40)
<1>5. /\ D \in [1..MaxBlock -> SUBSET Producer] /\ F \in [1..MaxBlock -> Nat]
      /\ V \in BlockNum /\ V <= MaxConfirmed
      /\ Confirms(C, D, V, h.block_num, n)
  <2>1. Confirms(C, D, V, b.block_num + 1, n)
    <3>1. \A k \in 1..MaxBlock :
            /\ Cardinality(C[k]) \in Nat
            /\ k \in (b.block_num + 1 - n)..(b.block_num + 1) =>
                 (k > V => Cardinality(D[k]) = Cardinality(C[k]) + 1)
            /\ k \notin (b.block_num + 1 - n)..(b.block_num + 1) => D[k] = C[k]
      BY HistoryGrows, SMTT(40)
    <3> QED BY <1>4, <3>1, SMTT(40) DEF Confirms
  <2>2. /\ D \in [1..MaxBlock -> SUBSET Producer] /\ F \in [1..MaxBlock -> Nat]
        /\ V \in BlockNum /\ V <= MaxConfirmed
    BY HistoryGrows, SMTT(40)
  <2> QED BY <1>3, <2>1, <2>2, SMTT(40)
<1>6. Decremented(h, n, D, F, V)
  BY <1>1, <1>4, <1>5, BalanceKept, ZenonT(60)
<1>7. GoodCounts(h, c, D, F, V)
  BY <1>1, <1>4, <1>5, <1>6, CountsConfirmed, ZenonT(60)
<1>8. SameButCounts(h, c)
  BY <1>4, SetConfirmedFields, ZenonT(60)
<1>9. HeaderInv(c, g, D, F, V)
  BY <1>1, <1>2, <1>4, <1>5, <1>7, <1>8, CountsKeepInvariant, ZenonT(60)
<1>10. QED
  BY <1>3, <1>8, <1>9, SMTT(40) DEF SameButCounts
=============================================================================
