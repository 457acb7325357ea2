----------------------- MODULE FindingsPipelineProofs -----------------------
(***************************************************************************)
(* Proofs about BatchAssignment and FindingsPipeline, for every set of     *)
(* digests and sizes, every evidence index and everything miners claim.    *)
(*                                                                         *)
(* First the assignment loop (LoopInv).  Then what rank_candidates does    *)
(* with candidates that can be compared; what a candidate is, as a         *)
(* function of its group; how a failed fix and the order of the groups act *)
(* on the ranking; what merging and grouping make of sound claims; the     *)
(* invariant of the stages (PipelineInv); and the sums of the counts, from *)
(* the reports to the candidates.                                          *)
(***************************************************************************)
EXTENDS FindingsPipeline, DispatchBatchesProofs

(* The loop has given away the first a digests of the order by size.       *)
GaveAway(a) ==
  LET N == Cardinality(Digests)
  IN  /\ sized \in Seq(Digests) /\ Len(sized) = N - a
      /\ \A m \in 1 .. N - a : sized[m] = BySize(Digests, size)[a + m]
      /\ loads = Loads(Digests, size, count)[a]
      /\ batches = BatchesAfter(a, Digests, size, count)

(* The inductive invariant of the loop: it has computed what the functions *)
(* of DispatchBatches say, and is balanced.                                *)
LoopInv ==
  /\ Measured(Digests, size, count)
  /\ \E a \in 0 .. Cardinality(Digests) : GaveAway(a)
  /\ Balanced

LEMMA InitLoop == ASSUME Init PROVE LoopInv
<1>1. PICK n \in 1 .. MaxDigests : size \in [1 .. n -> 1 .. MaxSize]
  BY DEF Init
<1>2. Digests = 1 .. n /\ n \in Nat /\ n >= 1
  BY <1>1, BatchBounds DEF Digests
<1>3. IsFiniteSet(Digests)
  BY <1>2, FS_Interval
<1>4. \A d \in Digests : size[d] \in Nat \ {0}
  BY <1>1, <1>2, BatchBounds
<1>5. count \in Nat \ {0}
  BY BatchBounds DEF Init
<1>6. Measured(Digests, size, count)
  <2>1. Digests \subseteq Int /\ Digests # {}
    BY <1>2
  <2>. QED BY <2>1, <1>3, <1>4, <1>5 DEF Measured
<1>7. GaveAway(0)
  <2>1. ListsBySize(BySize(Digests, size), Digests, size, Cardinality(Digests))
    BY <1>6, Listed
  <2>2. Fills(Loads(Digests, size, count), BySize(Digests, size), size,
              Cardinality(Digests), BatchCount(Digests, count))
    BY <1>6, Loaded
  <2>3. BatchesAfter(0, Digests, size, count) = [b \in 1 .. BatchCount(Digests, count) |-> {}]
    BY <1>6, BatchesGrow
  <2>. QED BY <2>1, <2>2, <2>3 DEF Init, GaveAway, ListsBySize, Fills
<1>8. Balanced
  BY DEF Init, Balanced
<1>9. Cardinality(Digests) \in Nat
  BY <1>3, FS_CardinalityType
<1>. QED BY <1>6, <1>7, <1>8, <1>9 DEF LoopInv

LEMMA AssignLoop == ASSUME LoopInv, Assign PROVE LoopInv'
<1>. DEFINE N == Cardinality(Digests)
            k == BatchCount(Digests, count)
            order == BySize(Digests, size)
            load == Loads(Digests, size, count)
            After(n) == BatchesAfter(n, Digests, size, count)
<1>1. Measured(Digests, size, count) /\ Balanced
  BY DEF LoopInv
<1>2. PICK a \in 0 .. N : GaveAway(a)
  BY DEF LoopInv
<1>3. Fills(load, order, size, N, k) /\ ListsBySize(order, Digests, size, N)
  BY <1>1, Loaded, Listed
<1>4. /\ After(0) = [b \in 1 .. k |-> {}]
      /\ \A n \in 1 .. N : After(n) = [After(n - 1) EXCEPT ![Lightest(load[n - 1])] = @ \cup {order[n]}]
  BY <1>1, BatchesGrow
<1>5. After(a) = [b \in 1 .. k |-> {order[m] : m \in {i \in 1 .. a : Lightest(load[i - 1]) = b}}]
  BY DEF BatchesAfter
<1>6. /\ sized \in Seq(Digests) /\ Len(sized) = N - a
      /\ \A m \in 1 .. N - a : sized[m] = order[a + m]
      /\ loads = load[a] /\ batches = After(a)
  BY <1>2 DEF GaveAway
<1>7. /\ sized # <<>>
      /\ loads' = [loads EXCEPT ![Lightest(loads)] = @ + size[Head(sized)]]
      /\ batches' = [batches EXCEPT ![Lightest(loads)] = @ \cup {Head(sized)}]
      /\ sized' = Tail(sized) /\ size' = size /\ count' = count
  BY DEF Assign
<1>8. Digests' = Digests
  BY <1>7 DEF Digests
<1>. DEFINE next == order[a + 1]
            target == Lightest(loads)
<1>. HIDE DEF N, k, order, load, After
<1>9. /\ N \in Nat /\ a < N /\ a + 1 \in 1 .. N /\ (a + 1) - 1 = a
      /\ Head(sized) = next
      /\ sized' \in Seq(Digests) /\ Len(sized') = N - (a + 1)
      /\ \A m \in 1 .. N - (a + 1) : sized'[m] = order[(a + 1) + m]
  <2>1. N \in Nat /\ Len(sized) # 0
    BY <1>3, <1>6, <1>7 DEF Fills
  <2>2. a < N
    BY <1>6, <2>1
  <2>3. Len(sized') = N - (a + 1) /\ Head(sized) = sized[1] /\ sized' \in Seq(Digests)
    BY <1>6, <1>7, <2>1, <2>2
  <2>4. ASSUME NEW m \in 1 .. N - (a + 1) PROVE sized'[m] = order[(a + 1) + m]
    <3>1. sized'[m] = sized[m + 1]
      BY <1>6, <1>7, <2>1, <2>2
    <3>2. m + 1 \in 1 .. N - a /\ a + (m + 1) = (a + 1) + m
      BY <2>1
    <3>. QED BY <1>6, <3>1, <3>2
  <2>. QED BY <1>6, <2>1, <2>2, <2>3, <2>4
<1>10. loads' = load[a + 1] /\ batches' = After(a + 1)
  <2>1. load[a + 1] = [load[a] EXCEPT ![Lightest(load[a])] = @ + size[order[a + 1]]]
    BY <1>3, <1>9 DEF Fills
  <2>2. After(a + 1) = [After(a) EXCEPT ![Lightest(load[a])] = @ \cup {order[a + 1]}]
    BY <1>4, <1>9
  <2>. QED BY <1>6, <1>7, <1>9, <2>1, <2>2
<1>11. GaveAway(a + 1)'
  BY <1>7, <1>8, <1>9, <1>10 DEF GaveAway, N, order, load, After
<1>12. /\ loads \in [1 .. k -> Nat] /\ target \in 1 .. k
       /\ \A c \in 1 .. k : loads[target] <= loads[c]
  <2>1. load[(a + 1) - 1] = loads
    BY <1>6, <1>9
  <2>. QED BY <1>3, <1>6, <1>9, <2>1 DEF Fills
<1>13. \A d \in Digests : size[d] \in Nat
  BY <1>1 DEF Measured
<1>14. next \in Digests
  BY <1>3, <1>9 DEF ListsBySize
<1>15. DOMAIN batches = 1 .. k
  BY <1>5, <1>6
<1>16. \A b \in 1 .. k : \A d \in batches[b] : d \in Digests /\ size[d] >= size[next]
  <2>. SUFFICES ASSUME NEW b \in 1 .. k, NEW d \in batches[b]
                PROVE  d \in Digests /\ size[d] >= size[next]
    OBVIOUS
  <2>1. PICK m \in 1 .. a : d = order[m]
    BY <1>5, <1>6
  <2>2. m \in 1 .. N /\ m < a + 1
    BY <1>9
  <2>. QED BY <1>3, <1>9, <2>1, <2>2 DEF ListsBySize
<1>17. Balanced'
  <2>. SUFFICES ASSUME NEW b \in 1 .. k, NEW c \in 1 .. k, NEW d \in batches'[b]
                PROVE  loads'[b] - loads'[c] <= size[d]
    BY <1>7, <1>15 DEF Balanced
  <2>. HIDE DEF next, target
  <2>1. /\ loads[b] \in Nat /\ loads[c] \in Nat /\ loads[target] \in Nat /\ size[next] \in Nat
        /\ loads[target] <= loads[c]
    BY <1>12, <1>13, <1>14
  <2>2. /\ loads'[b] = IF b = target THEN loads[b] + size[next] ELSE loads[b]
        /\ loads'[c] = IF c = target THEN loads[c] + size[next] ELSE loads[c]
    BY <1>7, <1>9, <1>12 DEF target
  <2>3. d \in Digests /\ size[d] \in Nat /\ (b = target => size[d] >= size[next])
    <3>1. d \in batches[b] \/ (b = target /\ d = next)
      BY <1>7, <1>9, <1>15 DEF target
    <3>2. CASE d \in batches[b]
      BY <1>13, <1>16, <3>2
    <3>3. CASE b = target /\ d = next
      BY <2>1, <1>14, <3>3
    <3>. QED BY <3>1, <3>2, <3>3
  <2>4. CASE b = target
    BY <2>1, <2>2, <2>3, <2>4
  <2>5. CASE b # target
    <3>1. d \in batches[b]
      BY <1>7, <1>9, <1>15, <2>5 DEF target
    <3>2. loads[b] - loads[c] <= size[d]
      BY <1>1, <1>15, <3>1 DEF Balanced
    <3>. QED BY <2>1, <2>2, <2>3, <2>5, <3>2
  <2>. QED BY <2>4, <2>5
<1>18. Measured(Digests, size, count)'
  BY <1>1, <1>7, <1>8
<1>19. a + 1 \in 0 .. Cardinality(Digests)'
  BY <1>8, <1>9 DEF N
<1>. QED BY <1>11, <1>17, <1>18, <1>19 DEF LoopInv

LEMMA NextLoop == ASSUME LoopInv, [Next]_vars PROVE LoopInv'
<1>1. CASE UNCHANGED vars
  <2>1. \A a : GaveAway(a) => GaveAway(a)'
    BY <1>1 DEF vars, GaveAway, Digests
  <2>. QED BY <1>1, <2>1 DEF vars, LoopInv, Digests, Balanced
<1>. QED BY <1>1, AssignLoop DEF Next

(* What holds when the last digest is given away.                          *)
LEMMA LoopEnds ==
  ASSUME LoopInv, Planned
  PROVE  batches = Batches(Digests, size, count)
<1>. DEFINE N == Cardinality(Digests)
<1>1. PICK a \in 0 .. N : GaveAway(a)
  BY DEF LoopInv
<1>2. N \in Nat
  BY FS_CardinalityType DEF LoopInv, Measured
<1>. HIDE DEF N
<1>3. Len(sized) = N - a
  BY <1>1 DEF GaveAway, N
<1>4. a = N
  BY <1>2, <1>3 DEF Planned
<1>. QED BY <1>1, <1>4 DEF GaveAway, Batches, N

LEMMA LoopLoadsBack == ASSUME LoopInv PROVE PlanLoadsBack
<1>. SUFFICES ASSUME Planned
              PROVE  /\ IsPartition(batches, Digests)
                     /\ \A b \in DOMAIN batches : TotalBytes(batches[b], size) > 0
  BY DEF PlanLoadsBack
<1>1. batches = Batches(Digests, size, count) /\ Measured(Digests, size, count)
  BY LoopEnds DEF LoopInv
<1>2. /\ DOMAIN batches = 1 .. BatchCount(Digests, count)
      /\ IsPartition(batches, Digests)
  BY <1>1, BatchesPartition
<1>3. \A b \in 1 .. BatchCount(Digests, count) : TotalBytes(batches[b], size) > 0
  BY <1>1, NoBatchIsEmpty
<1>. QED BY <1>2, <1>3

(* The mining and the ranking leave the loop alone.                        *)
LEMMA PipelineLoops ==
  ASSUME [PipelineNext]_<<vars, pipeline>>
  PROVE  [Next]_vars
BY DEF PipelineNext, AssignDigest, Mine, MineAgain, Merge, KeepAsItIs, Reconcile, Rank,
   RankFails, Next, plan, vars

(* The loop keeps what it has computed, and stays balanced: the inductive  *)
(* invariant of the assignment of digests to batches.                      *)
THEOREM LoopInvariance == Spec => []LoopInv
<1>1. Init => LoopInv
  BY InitLoop
<1>2. LoopInv /\ [Next]_vars => LoopInv'
  BY NextLoop
<1>. QED BY <1>1, <1>2, PTL DEF Spec

(* The pipeline assigns its digests as BatchAssignment does, so that what  *)
(* is proved of the loop holds in the pipeline.                            *)
THEOREM PipelineLoop == PipelineSpec => Spec
<1>1. PipelineInit => Init
  BY DEF PipelineInit
<1>2. [PipelineNext]_<<vars, pipeline>> => [Next]_vars
  BY PipelineLoops
<1>. QED BY <1>1, <1>2, PTL DEF PipelineSpec, Spec

(* Every digest reaches exactly one miner and no batch is without bytes,   *)
(* whatever the sizes and the number of batches asked for.                 *)
THEOREM LoadsBack == Spec => []PlanLoadsBack
<1>1. LoopInv => PlanLoadsBack
  BY LoopLoadsBack
<1>. QED BY <1>1, LoopInvariance, PTL

(* No batch outweighs another by more than the lightest digest it holds.   *)
THEOREM BatchesBalanced == Spec => []Balanced
<1>1. LoopInv => Balanced
  BY DEF LoopInv
<1>. QED BY <1>1, LoopInvariance, PTL

(* The loop computes the function Batches, which ReflectionRun uses: what  *)
(* is built again is the plan that was built.                              *)
THEOREM LoopComputes == Spec => []LoopComputesBatches
<1>1. LoopInv => LoopComputesBatches
  BY LoopEnds DEF LoopComputesBatches
<1>. QED BY <1>1, LoopInvariance, PTL

(* The same of the plan in the pipeline.                                   *)
THEOREM PipelinePlan ==
  PipelineSpec => [](PlanLoadsBack /\ Balanced /\ LoopComputesBatches)
BY PipelineLoop, LoadsBack, BatchesBalanced, LoopComputes, PTL

-----------------------------------------------------------------------------
(* The ranking of candidates with numbers to compare.                      *)
Comparable(c) ==
  /\ c.score \in Int /\ c.key \in Int
  /\ c.metrics.regressions \in Int /\ c.metrics.firstSeen \in Int

LEMMA BeforeOrders ==
  ASSUME NEW c, NEW d, NEW e, Comparable(c), Comparable(d), Comparable(e)
  PROVE  /\ ~ Before(c, c)
         /\ Before(c, d) => ~ Before(d, c)
         /\ Before(c, d) => Before(c, e) \/ Before(e, d)
         /\ c.key # d.key => Before(c, d) \/ Before(d, c)
BY DEF Comparable, Before

RankPairs(candidates) ==
  {p \in (DOMAIN candidates) \X (DOMAIN candidates) :
      \/ Before(candidates[p[1]], candidates[p[2]])
      \/ /\ ~ Before(candidates[p[2]], candidates[p[1]])
         /\ p[1] < p[2]}

Rankable(candidates, n) ==
  /\ n \in Nat /\ DOMAIN candidates = 1 .. n
  /\ \A i \in 1 .. n : Comparable(candidates[i])

LEMMA RankPairsAre ==
  ASSUME NEW candidates, NEW i \in DOMAIN candidates, NEW j \in DOMAIN candidates
  PROVE  <<i, j>> \in RankPairs(candidates) <=>
           \/ Before(candidates[i], candidates[j])
           \/ ~ Before(candidates[j], candidates[i]) /\ i < j
<1>. DEFINE Earlier(x, y) == \/ Before(candidates[x], candidates[y])
                             \/ ~ Before(candidates[y], candidates[x]) /\ x < y
            places == DOMAIN candidates
<1>1. RankPairs(candidates) = {p \in places \X places : Earlier(p[1], p[2])}
  BY DEF RankPairs
<1>2. <<i, j>> \in places \X places /\ <<i, j>>[1] = i /\ <<i, j>>[2] = j
  OBVIOUS
<1>. HIDE DEF Earlier, places
<1>3. <<i, j>> \in RankPairs(candidates) <=> Earlier(i, j)
  BY <1>1, <1>2
<1>. QED BY <1>3 DEF Earlier

LEMMA RankPairsOrder ==
  ASSUME NEW n, NEW candidates, Rankable(candidates, n)
  PROVE  TotalOn(RankPairs(candidates), 1 .. n)
<1>. DEFINE R == RankPairs(candidates)
            before(i, j) == Before(candidates[i], candidates[j])
<1>1. \A i, j \in 1 .. n : <<i, j>> \in R <=> (before(i, j) \/ (~ before(j, i) /\ i < j))
  BY RankPairsAre DEF Rankable
<1>2. \A i, j, k \in 1 .. n : /\ ~ before(i, i)
                              /\ before(i, j) => ~ before(j, i)
                              /\ before(i, j) => before(i, k) \/ before(k, j)
  BY BeforeOrders DEF Rankable
<1>0. n \in Nat
  BY DEF Rankable
<1>. HIDE DEF R, before
<1>3. \A i \in 1 .. n : <<i, i>> \notin R
  BY <1>0, <1>1, <1>2
<1>4. ASSUME NEW i \in 1 .. n, NEW j \in 1 .. n, NEW k \in 1 .. n,
             <<i, j>> \in R, <<j, k>> \in R
      PROVE  <<i, k>> \in R
  BY <1>0, <1>1, <1>2, <1>4
<1>5. ASSUME NEW i \in 1 .. n, NEW j \in 1 .. n, i # j
      PROVE  <<i, j>> \in R \/ <<j, i>> \in R
  <2>1. i < j \/ j < i
    BY <1>0, <1>5
  <2>. QED BY <1>1, <2>1
<1>. QED BY <1>3, <1>4, <1>5 DEF TotalOn, R

(* The number of candidates that come before candidate i.                  *)
AheadOf(candidates, i) == Cardinality(Ahead(RankPairs(candidates), DOMAIN candidates, i))

(* Candidate i is the one with its number of candidates ahead.             *)
RanksBy(order, candidates, n) ==
  /\ order \in [1 .. n -> 1 .. n]
  /\ Ranked(candidates) = [i \in 1 .. n |-> candidates[order[i]]]
  /\ \A i \in 1 .. n : AheadOf(candidates, order[i]) = i - 1
  /\ \A i \in 1 .. n : AheadOf(candidates, i) \in 0 .. n - 1
  /\ \A i \in 1 .. n : order[AheadOf(candidates, i) + 1] = i

LEMMA RankedIs ==
  ASSUME NEW n, NEW candidates, Rankable(candidates, n)
  PROVE  \E order : RanksBy(order, candidates, n)
<1>. DEFINE R == RankPairs(candidates)
            order == InOrder(1 .. n, R)
<1>0. n \in Nat /\ DOMAIN candidates = 1 .. n
  BY DEF Rankable
<1>1. TotalOn(R, 1 .. n)
  BY RankPairsOrder
<1>2. IsFiniteSet(1 .. n) /\ Cardinality(1 .. n) = n
  BY <1>0, FS_Interval
<1>3. Ranked(candidates) = [i \in 1 .. n |-> candidates[order[i]]]
  <2>1. R = {p \in (1 .. n) \X (1 .. n) :
                 \/ Before(candidates[p[1]], candidates[p[2]])
                 \/ /\ ~ Before(candidates[p[2]], candidates[p[1]])
                    /\ p[1] < p[2]}
    BY <1>0, Zenon DEF RankPairs
  <2>. QED BY <1>0, <2>1, Zenon DEF Ranked
<1>4. \A i : AheadOf(candidates, i) = Cardinality(Ahead(R, 1 .. n, i))
  BY <1>0 DEF AheadOf
<1>. HIDE DEF R
<1>5. /\ order \in [1 .. n -> 1 .. n]
      /\ \A i \in 1 .. n : Cardinality(Ahead(R, 1 .. n, order[i])) = i - 1
      /\ \A i \in 1 .. n : order[Cardinality(Ahead(R, 1 .. n, i)) + 1] = i
  BY <1>1, <1>2, Sorted
<1>6. \A i \in 1 .. n : Cardinality(Ahead(R, 1 .. n, i)) \in 0 .. n - 1
  BY <1>1, <1>2, Places
<1>. HIDE DEF order
<1>7. RanksBy(order, candidates, n)
  <2>1. \A i \in 1 .. n : AheadOf(candidates, order[i]) = i - 1
    BY <1>4, <1>5
  <2>2. \A i \in 1 .. n : AheadOf(candidates, i) \in 0 .. n - 1
    BY <1>4, <1>6
  <2>3. \A i \in 1 .. n : order[AheadOf(candidates, i) + 1] = i
    BY <1>4, <1>5
  <2>. QED BY <1>3, <1>5, <2>1, <2>2, <2>3 DEF RanksBy
<1>. QED BY <1>7

LEMMA NextPlace ==
  ASSUME NEW n \in Nat, NEW a \in 0 .. n - 1
  PROVE  a + 1 \in 1 .. n
OBVIOUS

(* Every candidate is ranked once.                                         *)
LEMMA RankedAll ==
  ASSUME NEW n, NEW candidates, Rankable(candidates, n)
  PROVE  /\ DOMAIN Ranked(candidates) = 1 .. n
         /\ {Ranked(candidates)[i] : i \in 1 .. n} = {candidates[i] : i \in 1 .. n}
<1>1. PICK order : RanksBy(order, candidates, n)
  BY RankedIs
<1>2. /\ order \in [1 .. n -> 1 .. n]
      /\ Ranked(candidates) = [i \in 1 .. n |-> candidates[order[i]]]
  BY <1>1 DEF RanksBy
<1>3. ASSUME NEW i \in 1 .. n PROVE \E j \in 1 .. n : order[j] = i
  <2>1. AheadOf(candidates, i) + 1 \in 1 .. n
    BY <1>1, NextPlace DEF RanksBy, Rankable
  <2>. QED BY <1>1, <2>1 DEF RanksBy
<1>4. {Ranked(candidates)[i] : i \in 1 .. n} = {candidates[order[i]] : i \in 1 .. n}
  BY <1>2
<1>5. {candidates[order[i]] : i \in 1 .. n} = {candidates[i] : i \in 1 .. n}
  <2>1. ASSUME NEW i \in 1 .. n
        PROVE  candidates[i] \in {candidates[order[j]] : j \in 1 .. n}
    BY <1>3
  <2>2. ASSUME NEW j \in 1 .. n
        PROVE  candidates[order[j]] \in {candidates[i] : i \in 1 .. n}
    BY <1>2
  <2>. QED BY <2>1, <2>2, Zenon
<1>. QED BY <1>2, <1>4, <1>5

(* The keys of candidates tell them apart.                                 *)
OwnKeys(candidates, n) ==
  \A i, j \in 1 .. n : candidates[i].key = candidates[j].key => i = j

(* The place of a candidate is found by its key.                           *)
LEMMA PlaceIs ==
  ASSUME NEW n, NEW candidates, Rankable(candidates, n), OwnKeys(candidates, n),
         NEW j \in 1 .. n
  PROVE  Place(candidates[j].key, Ranked(candidates)) = AheadOf(candidates, j) + 1
<1>1. PICK order : RanksBy(order, candidates, n)
  BY RankedIs
<1>. DEFINE b == AheadOf(candidates, j) + 1
            r == Ranked(candidates)
<1>2. b \in 1 .. n
  BY <1>1, NextPlace DEF RanksBy, Rankable
<1>3. order[b] = j
  BY <1>1 DEF RanksBy
<1>4. DOMAIN r = 1 .. n /\ \A i \in 1 .. n : r[i] = candidates[order[i]] /\ order[i] \in 1 .. n
  BY <1>1 DEF RanksBy
<1>5. \A i \in 1 .. n : AheadOf(candidates, order[i]) = i - 1
  BY <1>1 DEF RanksBy
<1>6. r[b].key = candidates[j].key
  BY <1>2, <1>3, <1>4
<1>7. ASSUME NEW i \in 1 .. n, r[i].key = candidates[j].key PROVE i = b
  <2>1. order[i] = j
    BY <1>4, <1>7 DEF OwnKeys
  <2>2. i - 1 = AheadOf(candidates, j)
    BY <1>5, <2>1
  <2>. QED BY <2>2
<1>. HIDE DEF b, r
<1>8. Place(candidates[j].key, r) = b
  BY <1>2, <1>4, <1>6, <1>7 DEF Place
<1>. QED BY <1>8 DEF b, r

-----------------------------------------------------------------------------
(* A finding whose references are the manifest's.                          *)
Sound(f) ==
  /\ IsFiniteSet(f.evidence) /\ f.evidence # {}
  /\ \A e \in f.evidence :
       /\ e.line \in DOMAIN Index /\ e.count \in Nat \ {0}
       /\ e = [line |-> e.line, count |-> e.count, time |-> Time[e.line],
               project |-> Project[Digest(e.line)]]
       /\ Session[Digest(e.line)] = f.session
  /\ f.count = Counts(f.evidence)
  /\ f.sure \in Int
  /\ f.type \in {"failure", "complaint", "correction", "friction"}

Members(members, n) ==
  /\ n \in Nat \ {0} /\ DOMAIN members = 1 .. n /\ Len(members) = n
  /\ \A i \in 1 .. n : Sound(members[i])

LEMMA SoundTimes ==
  ASSUME NEW f, Sound(f), NEW e \in f.evidence
  PROVE  e.time = Time[e.line] /\ e.project = Project[Digest(e.line)] /\ e.time \in Int
<1>1. /\ e.line \in DOMAIN Index
      /\ e = [line |-> e.line, count |-> e.count, time |-> Time[e.line],
              project |-> Project[Digest(e.line)]]
  BY DEF Sound
<1>2. e.time = Time[e.line] /\ e.project = Project[Digest(e.line)]
  BY <1>1
<1>. QED BY <1>1, <1>2, PipelineAssumption

LEMMA SoundCount ==
  ASSUME NEW f, Sound(f)
  PROVE  f.count \in Nat \ {0}
<1>. DEFINE c == [e \in f.evidence |-> e.count]
<1>1. \A e \in f.evidence : c[e] \in Nat \ {0}
  BY DEF Sound
<1>2. IsFiniteSet(f.evidence) /\ f.evidence # {} /\ f.count = SumFunctionOnSet(c, f.evidence)
  BY DEF Sound, Counts, SumFunction
<1>. HIDE DEF c
<1>3. SumFunctionOnSet(c, f.evidence) \in Nat
  BY <1>1, <1>2, SumTyped
<1>4. SumFunctionOnSet(c, f.evidence) > 0
  BY <1>1, <1>2, SumPositive
<1>. QED BY <1>2, <1>3, <1>4

LEMMA OccurrencesAre ==
  ASSUME NEW members, NEW n, Members(members, n)
  PROVE  Occurrences(members) \in Nat \ {0}
<1>. DEFINE c == [i \in 1 .. n |-> members[i].count]
<1>0. n \in Nat \ {0}
  BY DEF Members
<1>1. \A i \in 1 .. n : c[i] \in Nat \ {0}
  BY SoundCount DEF Members
<1>2. Occurrences(members) = SumFunctionOnSet(c, 1 .. n)
  BY DEF Members, Occurrences, SumFunction
<1>3. IsFiniteSet(1 .. n) /\ 1 .. n # {}
  <2>1. n \in Int /\ 1 \in Int /\ 1 \in 1 .. n
    BY <1>0
  <2>. QED BY <2>1, FS_Interval
<1>. HIDE DEF c
<1>4. SumFunctionOnSet(c, 1 .. n) \in Nat
  BY <1>1, <1>3, SumTyped
<1>5. SumFunctionOnSet(c, 1 .. n) > 0
  BY <1>1, <1>3, SumPositive
<1>. QED BY <1>2, <1>4, <1>5

LEMMA MeanIs ==
  ASSUME NEW members, NEW n, Members(members, n),
         NEW values, \A i \in 1 .. n : values[i] \in Int
  PROVE  WeightedMean(members, values) \in Int
<1>. DEFINE c == [i \in 1 .. n |-> members[i].count * values[i]]
            sum == SumFunctionOnSet(c, 1 .. n)
            d == Occurrences(members)
<1>0. n \in Nat \ {0}
  BY DEF Members
<1>1. \A i \in 1 .. n : c[i] \in Int
  BY SoundCount DEF Members
<1>2. \/ WeightedMean(members, values) = Rounded(1000 * sum, d)
      \/ WeightedMean(members, values) = Rounded(1000 * sum, d) - 1
  <2>. DEFINE w == SumFunction([i \in DOMAIN members |-> members[i].count * values[i]])
              down == /\ HalfWay(1000 * w, Occurrences(members))
                      /\ [i \in DOMAIN members |-> <<members[i].count, values[i]>>] \in RoundsDown
  <2>1. w = sum
    BY DEF Members, SumFunction
  <2>2. WeightedMean(members, values)
          = IF down THEN Rounded(1000 * w, Occurrences(members)) - 1
                    ELSE Rounded(1000 * w, Occurrences(members))
    BY Zenon DEF WeightedMean
  <2>. HIDE DEF w, sum, down
  <2>. QED BY <2>1, <2>2
<1>3. IsFiniteSet(1 .. n)
  BY <1>0, FS_Interval
<1>. HIDE DEF c
<1>4. sum \in Int
  BY <1>1, <1>3, SumTyped
<1>5. d \in Nat \ {0}
  BY OccurrencesAre
<1>. HIDE DEF sum, d
<1>6. Rounded(1000 * sum, d) \in Int
  BY <1>4, <1>5 DEF Rounded
<1>. QED BY <1>2, <1>6

LEMMA ReferencesAre ==
  ASSUME NEW members, NEW n, Members(members, n)
  PROVE  /\ IsFiniteSet(References(members)) /\ References(members) # {}
         /\ \A e \in References(members) : \E i \in 1 .. n : e \in members[i].evidence
         /\ \A e \in References(members) : e.time \in Int
<1>. DEFINE P == [i \in 1 .. n |-> members[i].evidence]
            zero == [e \in UNION {P[i] : i \in 1 .. n} |-> 0]
<1>0. n \in Nat \ {0} /\ DOMAIN members = 1 .. n
  BY DEF Members
<1>1. References(members) = UNION {members[i].evidence : i \in 1 .. n}
  BY <1>0 DEF References
<1>2. IsFiniteSet(1 .. n)
  BY <1>0, FS_Interval
<1>3. IsFiniteSet({P[i] : i \in 1 .. n})
  BY <1>2, FiniteImage
<1>4. \A S \in {P[i] : i \in 1 .. n} : IsFiniteSet(S)
  BY DEF Members, Sound
<1>5. IsFiniteSet(UNION {P[i] : i \in 1 .. n})
  BY <1>3, <1>4, FS_UNION
<1>6. UNION {P[i] : i \in 1 .. n} = References(members)
  BY <1>1
<1>7. members[1].evidence # {} /\ 1 \in 1 .. n
  BY <1>0 DEF Members, Sound
<1>8. \A e \in References(members) : \E i \in 1 .. n : e \in members[i].evidence
  BY <1>1
<1>9. \A e \in References(members) : e.time \in Int
  BY <1>8, SoundTimes DEF Members
<1>. QED BY <1>1, <1>5, <1>6, <1>7, <1>8, <1>9

LEMMA MinIs ==
  ASSUME NEW S, IsFiniteSet(S), S \subseteq Int, S # {}
  PROVE  Min(S) \in S
BY Extremes DEF Min

LEMMA FiniteTimes ==
  ASSUME NEW members, NEW n, Members(members, n)
  PROVE  /\ IsFiniteSet({e.time : e \in References(members)})
         /\ {e.time : e \in References(members)} \subseteq Int
         /\ {e.time : e \in References(members)} # {}
<1>. DEFINE R == References(members)
            h == [e \in R |-> e.time]
<1>1. IsFiniteSet(R) /\ R # {} /\ \A e \in R : e.time \in Int
  BY ReferencesAre
<1>. HIDE DEF R
<1>2. IsFiniteSet({h[e] : e \in R})
  BY <1>1, FiniteImage
<1>3. {h[e] : e \in R} = {e.time : e \in R}
  OBVIOUS
<1>. QED BY <1>1, <1>2, <1>3 DEF R

LEMMA ImpactIs ==
  ASSUME NEW f, Sound(f)
  PROVE  Impact(f) \in Int
BY DEF Sound, Impact

-----------------------------------------------------------------------------
(* The candidates that are ranked.                                         *)
LEMMA MetricsAre ==
  ASSUME NEW members, NEW n, Members(members, n), NEW r,
         NEW m, m = Metrics(members, r)
  PROVE  /\ m.occurrences \in Nat /\ m.sessions \in Nat /\ m.projects \in Nat /\ m.days \in Nat
         /\ m.firstSeen \in Int /\ m.confidence \in Int /\ m.impact \in Int
         /\ m.regressions = r
<1>. DEFINE R == References(members)
            times == {e.time : e \in R}
            sessions == {members[i].session : i \in 1 .. n}
            projects == {e.project : e \in R}
            days == {t \div 24 : t \in times}
<1>0. n \in Nat \ {0} /\ DOMAIN members = 1 .. n
  BY DEF Members
<1>1. /\ m.occurrences = Occurrences(members) /\ m.sessions = Cardinality(sessions)
      /\ m.projects = Cardinality(projects) /\ m.days = Cardinality(days)
      /\ m.firstSeen = Min(times) /\ m.regressions = r
      /\ m.confidence = WeightedMean(members, [i \in 1 .. n |-> members[i].sure])
      /\ m.impact = WeightedMean(members, [i \in 1 .. n |-> Impact(members[i])])
  BY <1>0 DEF Metrics
<1>2. IsFiniteSet(R) /\ IsFiniteSet(times) /\ times \subseteq Int /\ times # {}
  BY ReferencesAre, FiniteTimes
<1>3. IsFiniteSet(1 .. n)
  BY <1>0, FS_Interval
<1>. HIDE DEF R, times
<1>4. IsFiniteSet(sessions)
  <2>. DEFINE h == [i \in 1 .. n |-> members[i].session]
  <2>1. IsFiniteSet({h[i] : i \in 1 .. n})
    BY <1>3, FiniteImage
  <2>. QED BY <2>1
<1>5. IsFiniteSet(projects)
  <2>. DEFINE h == [e \in R |-> e.project]
  <2>1. IsFiniteSet({h[e] : e \in R})
    BY <1>2, FiniteImage
  <2>. QED BY <2>1
<1>6. IsFiniteSet(days)
  <2>. DEFINE h == [t \in times |-> t \div 24]
  <2>1. IsFiniteSet({h[t] : t \in times})
    BY <1>2, FiniteImage
  <2>2. {h[t] : t \in times} = days
    OBVIOUS
  <2>. QED BY <2>1, <2>2
<1>. HIDE DEF sessions, projects, days
<1>7. m.sessions \in Nat /\ m.projects \in Nat /\ m.days \in Nat
  BY <1>1, <1>4, <1>5, <1>6, FS_CardinalityType
<1>8. m.firstSeen \in Int
  BY <1>1, <1>2, MinIs
<1>9. m.occurrences \in Nat
  BY <1>1, OccurrencesAre
<1>10. m.confidence \in Int
  <2>1. \A i \in 1 .. n : [j \in 1 .. n |-> members[j].sure][i] \in Int
    BY DEF Members, Sound
  <2>. QED BY <1>1, <2>1, MeanIs
<1>11. m.impact \in Int
  <2>1. \A i \in 1 .. n : [j \in 1 .. n |-> Impact(members[j])][i] \in Int
    BY ImpactIs DEF Members
  <2>. QED BY <1>1, <2>1, MeanIs
<1>. QED BY <1>1, <1>7, <1>8, <1>9, <1>10, <1>11

(* A fix that failed is worth 1.0 points.                                  *)
LEMMA ScoreRises ==
  ASSUME NEW m, NEW o,
         /\ m.occurrences \in Nat /\ m.sessions \in Nat /\ m.projects \in Nat /\ m.days \in Nat
         /\ m.confidence \in Int /\ m.impact \in Int,
         m.regressions \in {0, 1},
         /\ o.occurrences = m.occurrences /\ o.sessions = m.sessions
         /\ o.projects = m.projects /\ o.days = m.days
         /\ o.confidence = m.confidence /\ o.impact = m.impact,
         o.regressions = 0
  PROVE  Score(m) \in Int /\ Score(m) = Score(o) + 1000 * m.regressions
<1>. DEFINE x == 3000 * Least(m.occurrences, 10) + 4000 * Least(m.sessions, 5)
                 + 5000 * Least(m.projects, 3) + 3000 * Least(m.days, 5)
                 + m.confidence + m.impact
<1>1. x \in Int
  BY DEF Least
<1>2. Score(m) = Rounded(x + 10000 * m.regressions, 10)
  BY DEF Score, Least
<1>3. Score(o) = Rounded(x, 10)
  <2>1. Score(o) = Rounded(x + 10000 * Least(0, 1), 10)
    BY DEF Score
  <2>2. x + 10000 * Least(0, 1) = x
    <3>. HIDE DEF x
    <3>. QED BY <1>1 DEF Least
  <2>. QED BY <2>1, <2>2
<1>. HIDE DEF x
<1>4. \A y \in Int : Rounded(y, 10) \in Int /\ Rounded(y + 10000, 10) = Rounded(y, 10) + 1000
  BY DEF Rounded
<1>5. CASE m.regressions = 0
  <2>1. Score(m) = Rounded(x, 10)
    BY <1>1, <1>2, <1>5
  <2>. QED BY <1>1, <1>3, <1>4, <1>5, <2>1
<1>6. CASE m.regressions = 1
  <2>1. Score(m) = Rounded(x + 10000, 10)
    BY <1>1, <1>2, <1>6
  <2>. QED BY <1>1, <1>3, <1>4, <1>6, <2>1
<1>. QED BY <1>5, <1>6

CandidatesOf(groups, failed) ==
  [i \in DOMAIN groups |-> Candidate(groups[i], Regressions(groups[i].key, failed))]

(* Groups of sound findings, each under a key of its own.                  *)
GroupList(groups, n) ==
  /\ n \in Nat /\ DOMAIN groups = 1 .. n
  /\ \A i \in 1 .. n :
       /\ groups[i] = [key |-> groups[i].key, members |-> groups[i].members]
       /\ groups[i].key \in Int
       /\ \E k : Members(groups[i].members, k)
  /\ OwnKeys(groups, n)

LEMMA RegressionsAre ==
  ASSUME NEW key, NEW failed
  PROVE  Regressions(key, failed) \in {0, 1}
BY DEF Regressions

LEMMA CandidateIs ==
  ASSUME NEW g, NEW k, Members(g.members, k), g.key \in Int, NEW r \in {0, 1},
         NEW c, c = Candidate(g, r)
  PROVE  /\ c.key = g.key /\ c.metrics = Metrics(g.members, r)
         /\ c.metrics.regressions = r
         /\ c.metrics.firstSeen = Metrics(g.members, 0).firstSeen
         /\ Score(Metrics(g.members, 0)) \in Int
         /\ c.score = Score(Metrics(g.members, 0)) + 1000 * r
         /\ Comparable(c)
<1>. DEFINE m == Metrics(g.members, r)
            o == Metrics(g.members, 0)
<1>1. c.key = g.key /\ c.metrics = m /\ c.score = Score(m)
  BY DEF Candidate
<1>2. /\ m.occurrences \in Nat /\ m.sessions \in Nat /\ m.projects \in Nat /\ m.days \in Nat
      /\ m.firstSeen \in Int /\ m.confidence \in Int /\ m.impact \in Int
      /\ m.regressions = r
  BY MetricsAre
<1>3. /\ o.occurrences = m.occurrences /\ o.sessions = m.sessions
      /\ o.projects = m.projects /\ o.days = m.days
      /\ o.confidence = m.confidence /\ o.impact = m.impact
      /\ o.firstSeen = m.firstSeen /\ o.regressions = 0
  BY DEF Metrics
<1>. HIDE DEF m, o
<1>4. Score(m) \in Int /\ Score(m) = Score(o) + 1000 * r
  BY <1>2, <1>3, ScoreRises
<1>5. Score(o) \in Int /\ Score(o) = Score(o) + 1000 * o.regressions
  <2>1. o.occurrences \in Nat /\ o.sessions \in Nat /\ o.projects \in Nat /\ o.days \in Nat
    BY <1>2, <1>3
  <2>2. o.confidence \in Int /\ o.impact \in Int /\ o.regressions \in {0, 1}
    BY <1>2, <1>3
  <2>. QED BY <1>3, <2>1, <2>2, ScoreRises
<1>6. Comparable(c)
  <2>1. c.score \in Int /\ c.key \in Int
    BY <1>1, <1>4
  <2>2. c.metrics.regressions \in Int /\ c.metrics.firstSeen \in Int
    BY <1>1, <1>2
  <2>. QED BY <2>1, <2>2 DEF Comparable
<1>7. Metrics(g.members, r) = m /\ Metrics(g.members, 0) = o
  BY DEF m, o
<1>. QED BY <1>1, <1>2, <1>3, <1>4, <1>5, <1>6, <1>7

LEMMA CandidatesAre ==
  ASSUME NEW groups, NEW n, GroupList(groups, n), NEW failed
  PROVE  /\ Rankable(CandidatesOf(groups, failed), n)
         /\ OwnKeys(CandidatesOf(groups, failed), n)
         /\ \A i \in 1 .. n : CandidatesOf(groups, failed)[i].key = groups[i].key
         /\ RankingOf(groups, failed) = Ranked(CandidatesOf(groups, failed))
<1>. DEFINE cs == CandidatesOf(groups, failed)
<1>1. n \in Nat /\ DOMAIN cs = 1 .. n
  BY DEF GroupList, CandidatesOf
<1>2. ASSUME NEW i \in 1 .. n
      PROVE  Comparable(cs[i]) /\ cs[i].key = groups[i].key
  <2>1. PICK k : Members(groups[i].members, k)
    BY DEF GroupList
  <2>2. groups[i].key \in Int
    BY DEF GroupList
  <2>3. cs[i] = Candidate(groups[i], Regressions(groups[i].key, failed))
    BY DEF GroupList, CandidatesOf
  <2>. HIDE DEF cs
  <2>. QED BY <2>1, <2>2, <2>3, CandidateIs, RegressionsAre
<1>3. RankingOf(groups, failed) = Ranked(cs)
  BY DEF RankingOf, CandidatesOf
<1>4. OwnKeys(groups, n)
  BY DEF GroupList
<1>. HIDE DEF cs
<1>5. OwnKeys(cs, n)
  BY <1>2, <1>4 DEF OwnKeys
<1>6. Rankable(cs, n)
  BY <1>1, <1>2 DEF Rankable
<1>. QED BY <1>2, <1>3, <1>5, <1>6 DEF cs

(* Of two candidates, the one that comes before the other although that    *)
(* one's fix failed also does so when it did not.                          *)
LEMMA RisesPast ==
  ASSUME NEW c, NEW d, NEW c0, NEW d0,
         Comparable(c), Comparable(d), Comparable(c0), Comparable(d0),
         c.key = c0.key, d.key = d0.key,
         c.metrics.firstSeen = c0.metrics.firstSeen,
         d.metrics.firstSeen = d0.metrics.firstSeen,
         NEW s \in Int, NEW t \in Int, NEW r \in {0, 1}, NEW q \in {0, 1},
         c.score = s + 1000 * r, d.score = t + 1000,
         c0.score = s + 1000 * q, d0.score = t,
         c.metrics.regressions = r, d.metrics.regressions = 1,
         c0.metrics.regressions = q, d0.metrics.regressions = 0,
         r = q \/ (r = 1 /\ q = 0),
         Before(c, d)
  PROVE  Before(c0, d0)
BY DEF Comparable, Before

(* The other candidates ahead of one are no more when its fix failed.      *)
LEMMA FewerAhead ==
  ASSUME NEW groups, NEW n, GroupList(groups, n), NEW failed, NEW j \in 1 .. n,
         NEW id, id = ClusterId[groups[j].key]
  PROVE  AheadOf(CandidatesOf(groups, failed), j)
           <= AheadOf(CandidatesOf(groups, failed \ {id}), j)
<1>. DEFINE cs == CandidatesOf(groups, failed)
            ds == CandidatesOf(groups, failed \ {id})
            reg(i) == Regressions(groups[i].key, failed)
            reg0(i) == Regressions(groups[i].key, failed \ {id})
            base(i) == Score(Metrics(groups[i].members, 0))
            first(i) == Metrics(groups[i].members, 0).firstSeen
<1>1. Rankable(cs, n) /\ Rankable(ds, n) /\ OwnKeys(cs, n) /\ OwnKeys(ds, n)
  BY CandidatesAre
<1>2. ASSUME NEW i \in 1 .. n
      PROVE  /\ Comparable(cs[i]) /\ Comparable(ds[i])
             /\ cs[i].key = groups[i].key /\ ds[i].key = groups[i].key
             /\ base(i) \in Int
             /\ cs[i].score = base(i) + 1000 * reg(i)
             /\ ds[i].score = base(i) + 1000 * reg0(i)
             /\ cs[i].metrics.regressions = reg(i) /\ ds[i].metrics.regressions = reg0(i)
             /\ cs[i].metrics.firstSeen = first(i) /\ ds[i].metrics.firstSeen = first(i)
             /\ reg(i) \in {0, 1} /\ reg0(i) \in {0, 1}
  <2>1. PICK k : Members(groups[i].members, k)
    BY DEF GroupList
  <2>2. groups[i].key \in Int
    BY DEF GroupList
  <2>3. cs[i] = Candidate(groups[i], reg(i)) /\ ds[i] = Candidate(groups[i], reg0(i))
    BY DEF GroupList, CandidatesOf
  <2>4. reg(i) \in {0, 1} /\ reg0(i) \in {0, 1}
    BY RegressionsAre
  <2>. HIDE DEF cs, ds, reg, reg0
  <2>5. /\ Comparable(cs[i]) /\ cs[i].key = groups[i].key /\ base(i) \in Int
        /\ cs[i].score = base(i) + 1000 * reg(i)
        /\ cs[i].metrics.regressions = reg(i) /\ cs[i].metrics.firstSeen = first(i)
    BY <2>1, <2>2, <2>3, <2>4, CandidateIs
  <2>6. /\ Comparable(ds[i]) /\ ds[i].key = groups[i].key
        /\ ds[i].score = base(i) + 1000 * reg0(i)
        /\ ds[i].metrics.regressions = reg0(i) /\ ds[i].metrics.firstSeen = first(i)
    BY <2>1, <2>2, <2>3, <2>4, CandidateIs
  <2>. QED BY <2>4, <2>5, <2>6
<1>3. CASE id \notin failed
  <2>1. failed \ {id} = failed
    BY <1>3
  <2>2. AheadOf(cs, j) \in Int
    <3>1. PICK order : RanksBy(order, cs, n)
      BY <1>1, RankedIs
    <3>. QED BY <3>1 DEF RanksBy
  <2>. QED BY <2>1, <2>2
<1>4. CASE id \in failed
  <2>1. reg(j) = 1 /\ reg0(j) = 0
    BY <1>4 DEF Regressions
  <2>2. \A i \in 1 .. n : reg(i) = reg0(i) \/ (reg(i) = 1 /\ reg0(i) = 0)
    BY DEF Regressions
  <2>. HIDE DEF cs, ds, reg, reg0, base, first
  <2>3. ASSUME NEW i \in 1 .. n, Before(cs[i], cs[j])
        PROVE  Before(ds[i], ds[j])
    <3>1. /\ Comparable(cs[i]) /\ Comparable(ds[i]) /\ cs[i].key = ds[i].key
          /\ cs[i].score = base(i) + 1000 * reg(i) /\ ds[i].score = base(i) + 1000 * reg0(i)
          /\ cs[i].metrics.regressions = reg(i) /\ ds[i].metrics.regressions = reg0(i)
          /\ cs[i].metrics.firstSeen = ds[i].metrics.firstSeen
          /\ reg(i) \in {0, 1} /\ reg0(i) \in {0, 1} /\ base(i) \in Int
      BY <1>2
    <3>2. /\ Comparable(cs[j]) /\ Comparable(ds[j]) /\ cs[j].key = ds[j].key
          /\ cs[j].score = base(j) + 1000 * reg(j) /\ ds[j].score = base(j) + 1000 * reg0(j)
          /\ cs[j].metrics.regressions = reg(j) /\ ds[j].metrics.regressions = reg0(j)
          /\ cs[j].metrics.firstSeen = ds[j].metrics.firstSeen
          /\ base(j) \in Int
      BY <1>2
    <3>3. cs[j].score = base(j) + 1000 /\ ds[j].score = base(j)
      BY <2>1, <3>2
    <3>. QED BY <2>1, <2>2, <2>3, <3>1, <3>2, <3>3, RisesPast
  <2>4. DOMAIN cs = 1 .. n /\ DOMAIN ds = 1 .. n /\ n \in Nat
    BY <1>1 DEF Rankable
  <2>5. Ahead(RankPairs(cs), 1 .. n, j) \subseteq Ahead(RankPairs(ds), 1 .. n, j)
    <3>. SUFFICES ASSUME NEW i \in 1 .. n, <<i, j>> \in RankPairs(cs)
                  PROVE  <<i, j>> \in RankPairs(ds)
      BY DEF Ahead
    <3>1. i # j
      BY <1>1, RankPairsOrder DEF TotalOn
    <3>2. cs[i].key # cs[j].key
      BY <1>1, <3>1 DEF OwnKeys
    <3>3. Before(cs[i], cs[j])
      <4>1. Before(cs[i], cs[j]) \/ ~ Before(cs[j], cs[i])
        BY <2>4, RankPairsAre
      <4>2. Before(cs[i], cs[j]) \/ Before(cs[j], cs[i])
        BY <1>2, <3>2, BeforeOrders
      <4>. QED BY <4>1, <4>2
    <3>. QED BY <2>3, <2>4, <3>3, RankPairsAre
  <2>6. IsFiniteSet(Ahead(RankPairs(ds), 1 .. n, j))
    <3>1. IsFiniteSet(1 .. n)
      BY <2>4, FS_Interval
    <3>2. Ahead(RankPairs(ds), 1 .. n, j) \subseteq 1 .. n
      BY DEF Ahead
    <3>. QED BY <3>1, <3>2, FS_Subset
  <2>. QED BY <2>4, <2>5, <2>6, FS_Subset DEF AheadOf, cs, ds
<1>. QED BY <1>3, <1>4

(* Whatever the groups: a fix that failed brings its problem no further    *)
(* down the list.                                                          *)
LEMMA RisesInRanking ==
  ASSUME NEW groups, NEW n, GroupList(groups, n), NEW failed, NEW j \in 1 .. n
  PROVE  Place(groups[j].key, RankingOf(groups, failed))
           <= Place(groups[j].key, RankingOf(groups, failed \ {ClusterId[groups[j].key]}))
<1>. DEFINE less == failed \ {ClusterId[groups[j].key]}
<1>1. Place(groups[j].key, RankingOf(groups, failed)) = AheadOf(CandidatesOf(groups, failed), j) + 1
  BY CandidatesAre, PlaceIs
<1>2. Place(groups[j].key, RankingOf(groups, less)) = AheadOf(CandidatesOf(groups, less), j) + 1
  BY CandidatesAre, PlaceIs
<1>3. AheadOf(CandidatesOf(groups, failed), j) <= AheadOf(CandidatesOf(groups, less), j)
  BY FewerAhead
<1>4. AheadOf(CandidatesOf(groups, failed), j) \in Int /\ AheadOf(CandidatesOf(groups, less), j) \in Int
  <2>1. \A f : Rankable(CandidatesOf(groups, f), n)
    BY CandidatesAre
  <2>2. ASSUME NEW f PROVE AheadOf(CandidatesOf(groups, f), j) \in Int
    <3>1. PICK order : RanksBy(order, CandidatesOf(groups, f), n)
      BY <2>1, RankedIs
    <3>. QED BY <3>1 DEF RanksBy
  <2>. QED BY <2>2
<1>. HIDE DEF less
<1>5. Place(groups[j].key, RankingOf(groups, failed)) <= Place(groups[j].key, RankingOf(groups, less))
  BY <1>1, <1>2, <1>3, <1>4
<1>. QED BY <1>5 DEF less

-----------------------------------------------------------------------------
(* The lines a candidate cites, of which the first citation counts, are    *)
(* all its members' lines.                                                 *)
LEMMA LinesAre ==
  ASSUME NEW g, NEW k, Members(g.members, k), NEW r
  PROVE  LinesOf(Candidate(g, r)) = {e.line : e \in References(g.members)}
<1>. DEFINE ms == g.members
            At(i) == {e \in ms[i].evidence : ~ CitedBefore(ms, i, e.line)}
            Kept(i) == {[session |-> ms[i].session, line |-> e.line,
                         kind |-> ms[i].type, count |-> e.count] : e \in At(i)}
<1>0. k \in Nat \ {0} /\ DOMAIN ms = 1 .. k
  BY DEF Members
<1>1. Candidate(g, r).evidence = UNION {Kept(i) : i \in 1 .. k}
  BY <1>0 DEF Candidate, CandidateEvidence
<1>2. References(ms) = UNION {ms[i].evidence : i \in 1 .. k}
  BY <1>0 DEF References
<1>3. ASSUME NEW x \in Candidate(g, r).evidence
      PROVE  x.line \in {e.line : e \in References(ms)}
  <2>1. PICK i \in 1 .. k : x \in Kept(i)
    BY <1>1, <1>3
  <2>2. PICK e \in ms[i].evidence : x.line = e.line
    BY <2>1
  <2>3. e \in References(ms)
    BY <1>2, <2>2
  <2>. QED BY <2>2, <2>3
<1>4. ASSUME NEW e \in References(ms)
      PROVE  e.line \in LinesOf(Candidate(g, r))
  <2>. DEFINE S == {i \in 1 .. k : \E d \in ms[i].evidence : d.line = e.line}
  <2>1. S \subseteq Nat /\ S # {}
    BY <1>0, <1>2, <1>4
  <2>2. PICK i \in S : \A m \in S : i <= m
    BY <2>1, LeastNumber
  <2>3. PICK d \in ms[i].evidence : d.line = e.line
    BY <2>2
  <2>4. i \in 1 .. k
    BY <2>2
  <2>5. ~ CitedBefore(ms, i, d.line)
    <3>. SUFFICES ASSUME NEW h \in 1 .. i - 1, \E c \in ms[h].evidence : c.line = d.line
                  PROVE  FALSE
      BY DEF CitedBefore
    <3>1. h \in 1 .. k
      BY <1>0, <2>4
    <3>2. h \in S
      BY <2>3, <3>1
    <3>3. i <= h
      BY <2>2, <3>2
    <3>. QED BY <1>0, <2>4, <3>3
  <2>6. d \in At(i)
    BY <2>3, <2>5
  <2>. DEFINE x == [session |-> ms[i].session, line |-> d.line,
                    kind |-> ms[i].type, count |-> d.count]
  <2>7. x \in Kept(i)
    BY <2>6
  <2>8. x \in Candidate(g, r).evidence
    <3>. HIDE DEF Kept
    <3>. QED BY <1>1, <2>4, <2>7
  <2>9. x.line = e.line
    BY <2>3
  <2>. QED BY <2>8, <2>9 DEF LinesOf
<1>5. {x.line : x \in Candidate(g, r).evidence} = {e.line : e \in References(ms)}
  BY <1>3, <1>4 DEF LinesOf
<1>. QED BY <1>5 DEF LinesOf

(* What MetricsAreOfTheManifest says of one candidate.                     *)
OfTheManifest(c) ==
    LET digests == {Digest(line) : line \in LinesOf(c)}
        times == {Time[line] : line \in LinesOf(c)}
    IN  /\ c.metrics.sessions = Cardinality({Session[d] : d \in digests})
        /\ c.metrics.projects = Cardinality({Project[d] : d \in digests})
        /\ c.metrics.days = Cardinality({t \div 24 : t \in times})
        /\ c.metrics.firstSeen = Min(times) /\ c.metrics.lastSeen = Max(times)

LEMMA CandidateOfTheManifest ==
  ASSUME NEW g, NEW k, Members(g.members, k), NEW r
  PROVE  OfTheManifest(Candidate(g, r))
<1>. DEFINE ms == g.members
            c == Candidate(g, r)
            R == References(ms)
            lines == LinesOf(c)
            digests == {Digest(line) : line \in lines}
            times == {Time[line] : line \in lines}
<1>0. k \in Nat \ {0} /\ DOMAIN ms = 1 .. k /\ \A i \in 1 .. k : Sound(ms[i])
  BY DEF Members
<1>1. lines = {e.line : e \in R}
  BY LinesAre
<1>2. \A e \in R : \E i \in 1 .. k : e \in ms[i].evidence
  BY ReferencesAre
<1>3. R = UNION {ms[i].evidence : i \in 1 .. k}
  BY <1>0 DEF References
<1>4. \A e \in R : e.time = Time[e.line] /\ e.project = Project[Digest(e.line)]
  BY <1>0, <1>2, SoundTimes
<1>5. c.metrics = Metrics(ms, r)
  BY DEF Candidate
<1>6. /\ c.metrics.sessions = Cardinality({ms[i].session : i \in 1 .. k})
      /\ c.metrics.projects = Cardinality({e.project : e \in R})
      /\ c.metrics.days = Cardinality({t \div 24 : t \in {e.time : e \in R}})
      /\ c.metrics.firstSeen = Min({e.time : e \in R})
      /\ c.metrics.lastSeen = Max({e.time : e \in R})
  BY <1>0, <1>5 DEF Metrics
<1>7. {ms[i].session : i \in 1 .. k} = {Session[d] : d \in digests}
  <2>1. ASSUME NEW i \in 1 .. k
        PROVE  ms[i].session \in {Session[d] : d \in digests}
    <3>1. PICK e \in ms[i].evidence : Session[Digest(e.line)] = ms[i].session
      BY <1>0 DEF Sound
    <3>2. e \in R
      BY <1>3, <3>1
    <3>3. Digest(e.line) \in digests
      BY <1>1, <3>2
    <3>. HIDE DEF digests
    <3>. QED BY <3>1, <3>3
  <2>2. ASSUME NEW d \in digests
        PROVE  Session[d] \in {ms[i].session : i \in 1 .. k}
    <3>1. PICK e \in R : d = Digest(e.line)
      BY <1>1
    <3>2. PICK i \in 1 .. k : e \in ms[i].evidence
      BY <1>2
    <3>3. Session[d] = ms[i].session
      BY <1>0, <3>1, <3>2 DEF Sound
    <3>. QED BY <3>3
  <2>. HIDE DEF digests
  <2>. QED BY <2>1, <2>2
<1>. HIDE DEF R, lines, c, ms
<1>8. {e.project : e \in R} = {Project[d] : d \in digests}
  <2>1. digests = {Digest(e.line) : e \in R}
    BY <1>1
  <2>2. {Project[d] : d \in digests} = {Project[Digest(e.line)] : e \in R}
    BY <2>1
  <2>. HIDE DEF digests
  <2>. QED BY <1>4, <2>2
<1>9. {e.time : e \in R} = times
  <2>1. times = {Time[e.line] : e \in R}
    BY <1>1
  <2>. HIDE DEF times
  <2>. QED BY <1>4, <2>1
<1>10. /\ c.metrics.sessions = Cardinality({Session[d] : d \in digests})
       /\ c.metrics.projects = Cardinality({Project[d] : d \in digests})
       /\ c.metrics.days = Cardinality({t \div 24 : t \in times})
       /\ c.metrics.firstSeen = Min(times) /\ c.metrics.lastSeen = Max(times)
  <2>. HIDE DEF digests, times
  <2>. QED BY <1>6, <1>7, <1>8, <1>9
<1>11. OfTheManifest(c)
  BY <1>10 DEF OfTheManifest, lines
<1>. QED BY <1>11 DEF c

-----------------------------------------------------------------------------
(* The order of the groups.                                                *)
LEMMA SameNumberAhead ==
  ASSUME NEW n, NEW cs, NEW ds, Rankable(cs, n), Rankable(ds, n),
         OwnKeys(cs, n), NEW p \in Bijection(1 .. n, 1 .. n),
         \A j \in 1 .. n : ds[j] = cs[p[j]],
         NEW i \in 1 .. n
  PROVE  AheadOf(ds, i) = AheadOf(cs, p[i])
<1>. DEFINE D == 1 .. n
            A == Ahead(RankPairs(ds), D, i)
            B == Ahead(RankPairs(cs), D, p[i])
            h == [j \in A |-> p[j]]
<1>1. n \in Nat /\ DOMAIN cs = D /\ DOMAIN ds = D
  BY DEF Rankable
<1>2. IsFiniteSet(D)
  <2>1. 1 \in Int /\ n \in Int
    BY <1>1
  <2>. QED BY <2>1, FS_Interval
<1>3. /\ p \in [D -> D] /\ \A j, k \in D : p[j] = p[k] => j = k
      /\ \A k \in D : \E j \in D : p[j] = k
  BY DEF Bijection, Injection, Surjection, IsInjective
<1>4. ASSUME NEW j \in D
      PROVE  <<j, i>> \in RankPairs(ds) <=> <<p[j], p[i]>> \in RankPairs(cs)
  <2>1. CASE j = i
    <3>1. <<j, i>> \notin RankPairs(ds)
      BY <2>1, RankPairsOrder DEF TotalOn
    <3>2. p[j] = p[i] /\ p[i] \in D
      BY <1>3, <2>1
    <3>3. <<p[j], p[i]>> \notin RankPairs(cs)
      BY <3>2, RankPairsOrder DEF TotalOn
    <3>. QED BY <3>1, <3>3
  <2>2. CASE j # i
    <3>1. p[j] \in D /\ p[i] \in D /\ p[j] # p[i]
      BY <1>3, <2>2
    <3>2. cs[p[j]].key # cs[p[i]].key
      BY <3>1 DEF OwnKeys
    <3>3. ds[j].key # ds[i].key
      BY <3>2
    <3>4. Comparable(ds[j]) /\ Comparable(ds[i]) /\ Comparable(cs[p[j]]) /\ Comparable(cs[p[i]])
      BY <3>1 DEF Rankable
    <3>5. <<j, i>> \in RankPairs(ds) <=> Before(ds[j], ds[i])
      <4>1. Before(ds[j], ds[i]) \/ Before(ds[i], ds[j])
        BY <3>3, <3>4, BeforeOrders
      <4>2. Before(ds[j], ds[i]) => ~ Before(ds[i], ds[j])
        BY <3>4, BeforeOrders
      <4>3. <<j, i>> \in RankPairs(ds) <=> (Before(ds[j], ds[i]) \/ (~ Before(ds[i], ds[j]) /\ j < i))
        BY <1>1, RankPairsAre
      <4>. QED BY <4>1, <4>2, <4>3
    <3>6. <<p[j], p[i]>> \in RankPairs(cs) <=> Before(cs[p[j]], cs[p[i]])
      <4>1. Before(cs[p[j]], cs[p[i]]) \/ Before(cs[p[i]], cs[p[j]])
        BY <3>2, <3>4, BeforeOrders
      <4>2. Before(cs[p[j]], cs[p[i]]) => ~ Before(cs[p[i]], cs[p[j]])
        BY <3>4, BeforeOrders
      <4>3. <<p[j], p[i]>> \in RankPairs(cs)
              <=> (Before(cs[p[j]], cs[p[i]]) \/ (~ Before(cs[p[i]], cs[p[j]]) /\ p[j] < p[i]))
        BY <1>1, <3>1, RankPairsAre
      <4>. QED BY <4>1, <4>2, <4>3
    <3>7. Before(ds[j], ds[i]) <=> Before(cs[p[j]], cs[p[i]])
      OBVIOUS
    <3>. QED BY <3>5, <3>6, <3>7
  <2>. QED BY <2>1, <2>2
<1>5. A \subseteq D /\ B \subseteq D /\ \A j \in D : /\ j \in A <=> <<j, i>> \in RankPairs(ds)
                                                     /\ j \in B <=> <<j, p[i]>> \in RankPairs(cs)
  BY DEF Ahead
<1>6. h \in Bijection(A, B)
  <2>1. h \in [A -> B]
    BY <1>3, <1>4, <1>5
  <2>2. \A j, k \in A : h[j] = h[k] => j = k
    BY <1>3, <1>5
  <2>3. ASSUME NEW k \in B PROVE \E j \in A : h[j] = k
    <3>1. PICK j \in D : p[j] = k
      BY <1>3, <1>5
    <3>2. j \in A
      BY <1>4, <1>5, <3>1
    <3>. QED BY <3>1, <3>2
  <2>. HIDE DEF h
  <2>. QED BY <2>1, <2>2, <2>3 DEF Bijection, Injection, Surjection, IsInjective
<1>7. IsFiniteSet(A)
  BY <1>2, <1>5, FS_Subset
<1>. HIDE DEF A, B, h
<1>8. Cardinality(B) = Cardinality(A)
  BY <1>6, <1>7, FS_Bijection DEF ExistsBijection
<1>. QED BY <1>1, <1>8 DEF AheadOf, A, B

LEMMA RankedAlike ==
  ASSUME NEW n, NEW cs, NEW ds, Rankable(cs, n), Rankable(ds, n),
         OwnKeys(cs, n), NEW p \in Bijection(1 .. n, 1 .. n),
         \A j \in 1 .. n : ds[j] = cs[p[j]],
         NEW i \in 1 .. n
  PROVE  Ranked(ds)[i] = Ranked(cs)[i]
<1>1. PICK order : RanksBy(order, cs, n)
  BY RankedIs
<1>2. PICK again : RanksBy(again, ds, n)
  BY RankedIs
<1>3. again[i] \in 1 .. n /\ order[i] \in 1 .. n
  BY <1>1, <1>2 DEF RanksBy
<1>4. p[again[i]] \in 1 .. n
  BY <1>3 DEF Bijection, Injection
<1>5. AheadOf(ds, again[i]) = i - 1
  BY <1>2 DEF RanksBy
<1>6. AheadOf(cs, p[again[i]]) = i - 1
  BY <1>3, <1>5, SameNumberAhead
<1>7. order[AheadOf(cs, p[again[i]]) + 1] = p[again[i]]
  BY <1>1, <1>4 DEF RanksBy
<1>8. order[i] = p[again[i]]
  <2>1. i \in Int /\ (i - 1) + 1 = i
    OBVIOUS
  <2>. QED BY <1>6, <1>7, <2>1
<1>9. Ranked(ds)[i] = ds[again[i]] /\ Ranked(cs)[i] = cs[order[i]]
  BY <1>1, <1>2 DEF RanksBy
<1>. QED BY <1>3, <1>8, <1>9

(* What RankingIgnoresGroupOrder says of a list of groups.                 *)
LEMMA AnyOrderRanksAlike ==
  ASSUME NEW groups, NEW n, GroupList(groups, n), NEW failed,
         NEW others, others \in Reorderings(groups)
  PROVE  RankingOf(others, failed) = RankingOf(groups, failed)
<1>. DEFINE D == 1 .. n
            cs == CandidatesOf(groups, failed)
            ds == CandidatesOf(others, failed)
<1>1. n \in Nat /\ DOMAIN groups = D
  BY DEF GroupList
<1>2. PICK p \in Bijection(D, D) : others = [j \in D |-> groups[p[j]]]
  BY <1>1 DEF Reorderings
<1>3. \A j \in D : p[j] \in D
  BY <1>2 DEF Bijection, Injection
<1>4. \A j, k \in D : p[j] = p[k] => j = k
  BY <1>2 DEF Bijection, Injection, IsInjective
<1>5. DOMAIN others = D /\ \A j \in D : others[j] = groups[p[j]]
  BY <1>2
<1>6. \A j \in D : /\ others[j] = [key |-> others[j].key, members |-> others[j].members]
                    /\ others[j].key \in Int
                    /\ \E k : Members(others[j].members, k)
  BY <1>3, <1>5 DEF GroupList
<1>7. OwnKeys(others, n)
  <2>1. \A j, k \in D : groups[j].key = groups[k].key => j = k
    BY DEF GroupList, OwnKeys
  <2>2. \A j, k \in D : others[j].key = others[k].key => j = k
    <3>. HIDE DEF D
    <3>. QED BY <1>3, <1>4, <1>5, <2>1
  <2>. QED BY <2>2 DEF OwnKeys
<1>8. GroupList(others, n)
  BY <1>1, <1>5, <1>6, <1>7 DEF GroupList
<1>9. Rankable(cs, n) /\ Rankable(ds, n) /\ OwnKeys(cs, n)
  BY <1>8, CandidatesAre
<1>10. RankingOf(groups, failed) = Ranked(cs) /\ RankingOf(others, failed) = Ranked(ds)
  BY <1>8, CandidatesAre
<1>11. ASSUME NEW j \in D PROVE ds[j] = cs[p[j]]
  <2>1. ds[j] = Candidate(others[j], Regressions(others[j].key, failed))
    BY <1>5 DEF CandidatesOf
  <2>2. cs[p[j]] = Candidate(groups[p[j]], Regressions(groups[p[j]].key, failed))
    BY <1>1, <1>3 DEF CandidatesOf
  <2>. QED BY <1>5, <2>1, <2>2
<1>. HIDE DEF cs, ds
<1>12. \A i \in D : Ranked(ds)[i] = Ranked(cs)[i]
  BY <1>2, <1>9, <1>11, RankedAlike
<1>13. DOMAIN Ranked(ds) = D /\ DOMAIN Ranked(cs) = D
  BY <1>9, RankedAll
<1>14. Ranked(ds) = [i \in D |-> Ranked(ds)[i]] /\ Ranked(cs) = [i \in D |-> Ranked(cs)[i]]
  BY <1>1, <1>9, <1>13 DEF Ranked, Rankable
<1>. QED BY <1>10, <1>12, <1>14

-----------------------------------------------------------------------------
(* From the claims to the merged findings.                                 *)
SoundClaim(f) == Sound(f) /\ Key[f.spelling] \in Int

Reportable(claims) == IsFiniteSet(claims) /\ \A f \in claims : SoundClaim(f)

LEMMA AcceptedIsSound ==
  ASSUME NEW f \in Claims, NEW batch, Accepts(f, batch)
  PROVE  SoundClaim(f)
<1>1. /\ f.evidence # {} /\ f.count = Counts(f.evidence)
      /\ \A e \in f.evidence : Cites(e, f.type, batch)
      /\ {Session[Digest(e.line)] : e \in f.evidence} = {f.session}
  BY DEF Accepts
<1>2. /\ Key[f.spelling] \in Int /\ f.sure \in Int
      /\ f.type \in {"failure", "complaint", "correction", "friction"}
      /\ IsFiniteSet(f.evidence)
  BY ClaimsAssumption
<1>3. ASSUME NEW e \in f.evidence
      PROVE  /\ e.line \in DOMAIN Index /\ e.count \in Nat \ {0}
             /\ e = [line |-> e.line, count |-> e.count, time |-> Time[e.line],
                     project |-> Project[Digest(e.line)]]
             /\ Session[Digest(e.line)] = f.session
  <2>1. e.line \in DOMAIN Index /\ e.time = Time[e.line] /\ e.project = Project[Digest(e.line)]
    BY <1>1 DEF Cites
  <2>2. /\ e.count \in Nat \ {0}
        /\ e = [line |-> e.line, count |-> e.count, time |-> e.time, project |-> e.project]
    BY ClaimsAssumption
  <2>3. Session[Digest(e.line)] = f.session
    BY <1>1
  <2>. QED BY <2>1, <2>2, <2>3, Zenon
<1>. QED BY <1>1, <1>2, <1>3 DEF SoundClaim, Sound

(* The finding that the claims like f become.                              *)
LEMMA MergedOne ==
  ASSUME NEW claims, Reportable(claims), NEW f \in claims,
         NEW m, m = MergedOf(Alike(claims, f))
  PROVE  /\ Sound(m) /\ m.key \in Int
         /\ m.key = Key[f.spelling] /\ m.type = f.type /\ m.session = f.session
         /\ m.evidence = UNION {g.evidence : g \in Alike(claims, f)}
<1>. DEFINE alike == Alike(claims, f)
            one == CHOOSE g \in alike : TRUE
            sures == {g.sure : g \in alike}
<1>1. /\ m.key = Key[one.spelling] /\ m.type = one.type /\ m.session = one.session
      /\ m.sure = Max(sures) /\ m.evidence = Evidence(alike)
      /\ m.count = Counts(Evidence(alike))
  BY DEF MergedOf
<1>2. f \in alike /\ alike \subseteq claims
  BY DEF Alike
<1>3. \A g \in alike : Key[g.spelling] = Key[f.spelling] /\ g.type = f.type /\ g.session = f.session
  BY DEF Alike, Cluster
<1>. HIDE DEF alike
<1>4. one \in alike
  BY <1>2
<1>. HIDE DEF one
<1>5. m.key = Key[f.spelling] /\ m.type = f.type /\ m.session = f.session
  BY <1>1, <1>3, <1>4
<1>6. \A g \in alike : Sound(g) /\ Key[g.spelling] \in Int
  BY <1>2 DEF Reportable, SoundClaim
<1>7. IsFiniteSet(alike)
  BY <1>2, FS_Subset DEF Reportable
<1>8. m.evidence = UNION {g.evidence : g \in alike}
  BY <1>1 DEF Evidence
<1>9. IsFiniteSet(m.evidence) /\ m.evidence # {}
  <2>. DEFINE P == [g \in alike |-> g.evidence]
  <2>1. IsFiniteSet({P[g] : g \in alike})
    BY <1>7, FiniteImage
  <2>2. \A S \in {P[g] : g \in alike} : IsFiniteSet(S)
    BY <1>6 DEF Sound
  <2>3. {P[g] : g \in alike} = {g.evidence : g \in alike}
    OBVIOUS
  <2>4. IsFiniteSet(UNION {P[g] : g \in alike})
    BY <2>1, <2>2, FS_UNION
  <2>5. f.evidence \subseteq m.evidence /\ f.evidence # {}
    BY <1>2, <1>6, <1>8 DEF Sound
  <2>. QED BY <1>8, <2>3, <2>4, <2>5
<1>10. ASSUME NEW e \in m.evidence
       PROVE  /\ e.line \in DOMAIN Index /\ e.count \in Nat \ {0}
              /\ e = [line |-> e.line, count |-> e.count, time |-> Time[e.line],
                      project |-> Project[Digest(e.line)]]
              /\ Session[Digest(e.line)] = m.session
  <2>1. PICK g \in alike : e \in g.evidence
    BY <1>8
  <2>2. Sound(g) /\ g.session = m.session
    BY <1>3, <1>5, <1>6
  <2>. QED BY <2>1, <2>2 DEF Sound
<1>11. m.sure \in Int
  <2>. DEFINE s == [g \in alike |-> g.sure]
  <2>1. IsFiniteSet({s[g] : g \in alike})
    BY <1>7, FiniteImage
  <2>2. {s[g] : g \in alike} = sures
    OBVIOUS
  <2>3. sures \subseteq Int /\ sures # {}
    BY <1>2, <1>6 DEF Sound
  <2>. HIDE DEF sures, s
  <2>4. \E x \in sures : \A y \in sures : x >= y
    BY <2>1, <2>2, <2>3, Extremes
  <2>. QED BY <1>1, <2>3, <2>4 DEF Max
<1>12. m.type \in {"failure", "complaint", "correction", "friction"}
  BY <1>2, <1>5, <1>6 DEF Sound
<1>13. m.count = Counts(m.evidence)
  BY <1>1
<1>14. Sound(m)
  BY <1>9, <1>10, <1>11, <1>12, <1>13 DEF Sound
<1>15. m.key \in Int
  BY <1>2, <1>5, <1>6
<1>. QED BY <1>5, <1>8, <1>14, <1>15 DEF alike

LEMMA MergedAll ==
  ASSUME NEW claims, Reportable(claims)
  PROVE  /\ IsFiniteSet(Merged(claims))
         /\ \A m \in Merged(claims) : Sound(m) /\ m.key \in Int
<1>. DEFINE h == [f \in claims |-> MergedOf(Alike(claims, f))]
<1>1. IsFiniteSet({h[f] : f \in claims})
  BY FiniteImage DEF Reportable
<1>2. {h[f] : f \in claims} = Merged(claims)
  BY DEF Merged
<1>3. \A m \in Merged(claims) : Sound(m) /\ m.key \in Int
  BY MergedOne DEF Merged
<1>. QED BY <1>1, <1>2, <1>3

-----------------------------------------------------------------------------
(* From the merged findings to the groups.                                 *)
Lists(seq, S, n) ==
  /\ n \in Nat /\ DOMAIN seq = 1 .. n /\ Len(seq) = n
  /\ ToSet(seq) = S /\ IsInjective(seq)

LEMMA SetToSeqLists ==
  ASSUME NEW S, IsFiniteSet(S)
  PROVE  Lists(SetToSeq(S), S, Cardinality(S))
<1>. DEFINE n == Cardinality(S)
            seq == SetToSeq(S)
<1>1. n \in Nat /\ ExistsBijection(1 .. n, S)
  BY FS_CardinalityType
<1>2. \E f \in [1 .. n -> S] : IsInjective(f)
  BY <1>1 DEF ExistsBijection, Bijection, Injection
<1>3. seq \in [1 .. n -> S] /\ IsInjective(seq)
  BY <1>2 DEF SetToSeq
<1>4. IsFiniteSet(1 .. n) /\ Cardinality(1 .. n) = n
  BY <1>1, FS_Interval
<1>. HIDE DEF seq
<1>5. seq \in Injection(1 .. n, S)
  BY <1>3 DEF Injection
<1>6. seq \in Surjection(1 .. n, S)
  <2>. HIDE DEF n
  <2>1. Cardinality(1 .. n) = Cardinality(S)
    BY <1>4 DEF n
  <2>. QED BY <1>5, <2>1, FS_Injection
<1>7. DOMAIN seq = 1 .. n /\ Len(seq) = n
  BY <1>1, <1>3
<1>8. ToSet(seq) = S
  BY <1>3, <1>6, <1>7 DEF Surjection, ToSet
<1>9. Lists(seq, S, n)
  BY <1>1, <1>3, <1>7, <1>8 DEF Lists
<1>. QED BY <1>9 DEF seq

(* Every finding is in one group, once.                                    *)
Spread(groups, n, F) ==
  /\ \A i \in 1 .. n : IsInjective(groups[i].members)
  /\ F = UNION {ToSet(groups[i].members) : i \in 1 .. n}
  /\ \A i, j \in 1 .. n : i # j => ToSet(groups[i].members) \cap ToSet(groups[j].members) = {}

Grouping(groups, F) ==
  /\ IsFiniteSet(F)
  /\ \E n : GroupList(groups, n) /\ Spread(groups, n, F)

LEMMA ListedMembers ==
  ASSUME NEW S, IsFiniteSet(S), S # {}, \A f \in S : Sound(f)
  PROVE  /\ \E k : Members(SetToSeq(S), k)
         /\ IsInjective(SetToSeq(S)) /\ ToSet(SetToSeq(S)) = S
<1>. DEFINE seq == SetToSeq(S)
            n == Cardinality(S)
<1>1. Lists(seq, S, n)
  BY SetToSeqLists
<1>2. n # 0
  BY FS_EmptySet
<1>. HIDE DEF seq, n
<1>3. \A i \in 1 .. n : seq[i] \in S
  BY <1>1 DEF Lists, ToSet
<1>4. n \in Nat \ {0} /\ DOMAIN seq = 1 .. n /\ Len(seq) = n
  BY <1>1, <1>2 DEF Lists
<1>5. Members(seq, n)
  BY <1>3, <1>4 DEF Members
<1>6. IsInjective(seq) /\ ToSet(seq) = S
  BY <1>1 DEF Lists
<1>. QED BY <1>5, <1>6 DEF seq

LEMMA KeyOrder ==
  ASSUME NEW used, used \subseteq Int
  PROVE  TotalOn({p \in used \X used : p[1] < p[2]}, used)
<1>. DEFINE R == {p \in used \X used : p[1] < p[2]}
<1>1. \A x, y \in used : <<x, y>> \in R <=> x < y
  OBVIOUS
<1>2. \A x \in used : x \in Int
  OBVIOUS
<1>. HIDE DEF R
<1>3. TotalOn(R, used)
  BY <1>1, <1>2 DEF TotalOn
<1>. QED BY <1>3 DEF R

(* The groups a reconciler reports.                                        *)
LEMMA ReconciledGroups ==
  ASSUME IsFiniteSet(findings), \A f \in findings : Sound(f),
         NEW keyed \in [findings -> Slugs]
  PROVE  Grouping(GroupsOf(keyed), findings)
<1>. DEFINE used == {keyed[f] : f \in findings}
            keys == InOrder(used, {p \in used \X used : p[1] < p[2]})
            In(i) == {f \in findings : keyed[f] = keys[i]}
            groups == GroupsOf(keyed)
            n == Cardinality(used)
<1>1. used \subseteq Int
  BY PipelineAssumption
<1>2. IsFiniteSet(used)
  BY FiniteImage
<1>3. TotalOn({p \in used \X used : p[1] < p[2]}, used)
  BY <1>1, KeyOrder
<1>4. n \in Nat
  BY <1>2, FS_CardinalityType
<1>5. groups = [i \in DOMAIN keys |-> [key |-> keys[i], members |-> SetToSeq(In(i))]]
  BY DEF GroupsOf
<1>. HIDE DEF groups, used
<1>. DEFINE R == {p \in used \X used : p[1] < p[2]}
<1>6. keys = InOrder(used, R)
  OBVIOUS
<1>. HIDE DEF R
<1>7. /\ InOrder(used, R) \in [1 .. n -> used]
      /\ \A m \in 1 .. n : Cardinality(Ahead(R, used, InOrder(used, R)[m])) = m - 1
      /\ \A x \in used : InOrder(used, R)[Cardinality(Ahead(R, used, x)) + 1] = x
  BY <1>2, <1>3, Sorted DEF R
<1>8. \A x \in used : Cardinality(Ahead(R, used, x)) \in 0 .. n - 1
  BY <1>2, <1>3, Places DEF R
<1>. HIDE DEF keys, n
<1>9. keys \in [1 .. n -> used] /\ DOMAIN keys = 1 .. n
  BY <1>6, <1>7
<1>10. \A i, j \in 1 .. n : keys[i] = keys[j] => i = j
  <2>1. \A m \in 1 .. n : Cardinality(Ahead(R, used, keys[m])) = m - 1
    BY <1>6, <1>7
  <2>. SUFFICES ASSUME NEW i \in 1 .. n, NEW j \in 1 .. n, keys[i] = keys[j]
                PROVE  i = j
    OBVIOUS
  <2>2. i - 1 = j - 1
    BY <2>1
  <2>. QED BY <1>4, <2>2
<1>11. ASSUME NEW x \in used PROVE \E i \in 1 .. n : keys[i] = x
  <2>1. Cardinality(Ahead(R, used, x)) + 1 \in 1 .. n
    BY <1>4, <1>8, NextPlace
  <2>. QED BY <1>6, <1>7, <2>1
<1>12. DOMAIN groups = 1 .. n
       /\ \A i \in 1 .. n : groups[i] = [key |-> keys[i], members |-> SetToSeq(In(i))]
  BY <1>5, <1>9
<1>13. ASSUME NEW i \in 1 .. n
       PROVE  /\ groups[i].key = keys[i]
              /\ groups[i] = [key |-> groups[i].key, members |-> groups[i].members]
              /\ groups[i].members = SetToSeq(In(i))
  BY <1>12
<1>14. ASSUME NEW i \in 1 .. n
       PROVE  /\ \E k : Members(groups[i].members, k)
              /\ IsInjective(groups[i].members) /\ ToSet(groups[i].members) = In(i)
  <2>1. In(i) \subseteq findings
    OBVIOUS
  <2>2. IsFiniteSet(In(i)) /\ \A f \in In(i) : Sound(f)
    BY <2>1, FS_Subset
  <2>3. PICK f \in findings : keyed[f] = keys[i]
    BY <1>9 DEF used
  <2>4. In(i) # {}
    BY <2>3
  <2>. HIDE DEF In
  <2>. QED BY <1>13, <2>2, <2>4, ListedMembers
<1>15. OwnKeys(groups, n)
  <2>1. \A i \in 1 .. n : groups[i].key = keys[i]
    BY <1>13
  <2>. DEFINE D == 1 .. n
  <2>2. \A i, j \in D : groups[i].key = groups[j].key => i = j
    <3>1. \A i \in D : groups[i].key = keys[i]
      BY <2>1
    <3>2. \A i, j \in D : keys[i] = keys[j] => i = j
      BY <1>10
    <3>. HIDE DEF D
    <3>. QED BY <3>1, <3>2
  <2>. QED BY <2>2 DEF OwnKeys
<1>16. GroupList(groups, n)
  <2>1. \A i \in 1 .. n : groups[i].key \in Int
    BY <1>1, <1>9, <1>13
  <2>. QED BY <1>4, <1>12, <1>13, <1>14, <1>15, <2>1 DEF GroupList
<1>17. findings = UNION {ToSet(groups[i].members) : i \in 1 .. n}
  <2>1. ASSUME NEW f \in findings PROVE \E i \in 1 .. n : f \in ToSet(groups[i].members)
    <3>1. keyed[f] \in used
      BY DEF used
    <3>2. PICK i \in 1 .. n : keys[i] = keyed[f]
      BY <1>11, <3>1
    <3>3. f \in In(i)
      BY <3>2
    <3>. QED BY <1>14, <3>3
  <2>2. ASSUME NEW i \in 1 .. n PROVE ToSet(groups[i].members) \subseteq findings
    BY <1>14
  <2>. QED BY <2>1, <2>2
<1>18. ASSUME NEW i \in 1 .. n, NEW j \in 1 .. n, i # j
       PROVE  ToSet(groups[i].members) \cap ToSet(groups[j].members) = {}
  <2>1. keys[i] # keys[j]
    BY <1>10, <1>18
  <2>2. In(i) \cap In(j) = {}
    BY <2>1
  <2>. QED BY <1>14, <2>2
<1>19. Spread(groups, n, findings)
  BY <1>14, <1>17, <1>18 DEF Spread
<1>. QED BY <1>16, <1>19 DEF Grouping, groups

(* The group of the one finding that needs no reconciler.                  *)
LEMMA KeptGroup ==
  ASSUME IsFiniteSet(findings), \A f \in findings : Sound(f) /\ f.key \in Int,
         Cardinality(findings) <= 1
  PROVE  Grouping(SetToSeq({[key |-> f.key, members |-> <<f>>] : f \in findings}), findings)
<1>. DEFINE group(f) == [key |-> f.key, members |-> <<f>>]
            S == {group(f) : f \in findings}
            n == Cardinality(S)
            groups == SetToSeq(S)
<1>1. IsFiniteSet(S)
  <2>. DEFINE h == [f \in findings |-> group(f)]
  <2>1. IsFiniteSet({h[f] : f \in findings})
    BY FiniteImage
  <2>2. {h[f] : f \in findings} = S
    OBVIOUS
  <2>. QED BY <2>1, <2>2
<1>2. Lists(groups, S, n)
  BY <1>1, SetToSeqLists
<1>3. \A f, g \in findings : f = g
  <2>. SUFFICES ASSUME NEW f \in findings, NEW g \in findings, f # g PROVE FALSE
    OBVIOUS
  <2>1. /\ Cardinality(findings) \in Nat /\ IsFiniteSet(findings \ {f})
        /\ Cardinality(findings \ {f}) = Cardinality(findings) - 1
    BY OneLess
  <2>2. Cardinality(findings \ {f}) # 0
    BY <2>1, FS_EmptySet
  <2>3. Cardinality(findings \ {f}) \in Nat
    BY <2>1, FS_CardinalityType
  <2>. QED BY <2>1, <2>2, <2>3
<1>4. ASSUME NEW i \in 1 .. n
      PROVE  \E f \in findings : groups[i] = group(f)
  <2>1. groups[i] \in S
    BY <1>2 DEF Lists, ToSet
  <2>. QED BY <2>1
<1>5. ASSUME NEW f \in findings PROVE \E i \in 1 .. n : groups[i] = group(f)
  <2>1. group(f) \in ToSet(groups)
    BY <1>2 DEF Lists
  <2>. HIDE DEF group, groups, n
  <2>. QED BY <1>2, <2>1 DEF Lists, ToSet
<1>6. ASSUME NEW f, Sound(f), NEW g, g = group(f)
      PROVE  /\ g.key = f.key /\ g = [key |-> g.key, members |-> g.members]
             /\ Members(g.members, 1) /\ IsInjective(g.members) /\ ToSet(g.members) = {f}
  <2>1. g.members = <<f>> /\ g.key = f.key /\ g = [key |-> g.key, members |-> g.members]
    BY <1>6
  <2>2. Members(<<f>>, 1)
    BY <1>6 DEF Members
  <2>3. DOMAIN <<f>> = {1} /\ <<f>>[1] = f
    OBVIOUS
  <2>4. IsInjective(<<f>>)
    BY <2>3 DEF IsInjective
  <2>5. ToSet(<<f>>) = {f}
    BY <2>3 DEF ToSet
  <2>. QED BY <2>1, <2>2, <2>4, <2>5
<1>7. n \in Nat /\ DOMAIN groups = 1 .. n
  BY <1>2 DEF Lists
<1>. HIDE DEF group, S, n, groups
<1>8. ASSUME NEW i \in 1 .. n, NEW j \in 1 .. n PROVE i = j
  <2>1. groups[i] = groups[j]
    BY <1>3, <1>4
  <2>. QED BY <1>2, <1>7, <2>1 DEF Lists, IsInjective
<1>9. ASSUME NEW i \in 1 .. n
      PROVE  /\ groups[i] = [key |-> groups[i].key, members |-> groups[i].members]
             /\ groups[i].key \in Int
             /\ \E k : Members(groups[i].members, k)
             /\ IsInjective(groups[i].members)
             /\ \E f \in findings : ToSet(groups[i].members) = {f}
  <2>1. PICK f \in findings : groups[i] = group(f)
    BY <1>4
  <2>2. /\ groups[i].key = f.key
        /\ groups[i] = [key |-> groups[i].key, members |-> groups[i].members]
        /\ Members(groups[i].members, 1) /\ IsInjective(groups[i].members)
        /\ ToSet(groups[i].members) = {f}
    BY <1>6, <2>1
  <2>. QED BY <2>2
<1>10. OwnKeys(groups, n)
  BY <1>8 DEF OwnKeys
<1>11. GroupList(groups, n)
  BY <1>7, <1>9, <1>10 DEF GroupList
<1>12. findings = UNION {ToSet(groups[i].members) : i \in 1 .. n}
  <2>1. ASSUME NEW f \in findings PROVE \E i \in 1 .. n : f \in ToSet(groups[i].members)
    <3>1. PICK i \in 1 .. n : groups[i] = group(f)
      BY <1>5
    <3>2. ToSet(groups[i].members) = {f}
      BY <1>6, <3>1
    <3>. QED BY <3>2
  <2>2. ASSUME NEW i \in 1 .. n PROVE ToSet(groups[i].members) \subseteq findings
    BY <1>9
  <2>. QED BY <2>1, <2>2
<1>13. Spread(groups, n, findings)
  BY <1>8, <1>9, <1>12 DEF Spread
<1>14. Grouping(groups, findings)
  BY <1>11, <1>13 DEF Grouping
<1>. QED BY <1>14 DEF groups, S, group

-----------------------------------------------------------------------------
(* The inductive invariant from the reports to the ranking.                *)
PipelineInv ==
  /\ \A b \in DOMAIN reports : reports[b] = Missing \/ Reportable(reports[b])
  /\ stage \in {"merged", "grouped", "ranked"} =>
       /\ \A b \in DOMAIN reports : Reportable(reports[b])
       /\ findings = Merged(Reported)
  /\ stage \in {"grouped", "ranked"} => Grouping(grouped, findings)
  /\ IF stage = "ranked" THEN ranked = RankingOf(grouped, failing) ELSE ranked = <<>>
  /\ \E n : n \in Nat /\ DOMAIN reports = 1 .. n

LEMMA ReportedIs ==
  ASSUME PipelineInv, stage \in {"merged", "grouped", "ranked"}
  PROVE  Reportable(Reported) /\ findings = Merged(Reported)
<1>. DEFINE P == [b \in DOMAIN reports |-> reports[b]]
<1>1. PICK n \in Nat : DOMAIN reports = 1 .. n
  BY DEF PipelineInv
<1>2. IsFiniteSet(DOMAIN reports)
  BY <1>1, FS_Interval
<1>3. \A b \in DOMAIN reports : Reportable(reports[b])
  BY DEF PipelineInv
<1>4. IsFiniteSet({P[b] : b \in DOMAIN reports})
  BY <1>2, FiniteImage
<1>5. {P[b] : b \in DOMAIN reports} = {reports[b] : b \in DOMAIN reports}
  OBVIOUS
<1>6. IsFiniteSet(Reported)
  BY <1>3, <1>4, <1>5, FS_UNION DEF Reported, Reportable
<1>7. \A f \in Reported : SoundClaim(f)
  BY <1>3 DEF Reported, Reportable
<1>8. findings = Merged(Reported)
  BY DEF PipelineInv
<1>. QED BY <1>6, <1>7, <1>8 DEF Reportable

LEMMA InitPipeline ==
  ASSUME PipelineInit
  PROVE  PipelineInv
<1>. DEFINE n == BatchCount(Digests, count)
<1>1. n \in Nat
  <2>1. Measured(Digests, size, count)
    BY InitLoop DEF PipelineInit, LoopInv
  <2>2. n \in 1 .. Cardinality(Digests) /\ Cardinality(Digests) \in Nat
    BY <2>1, Loaded DEF Fills
  <2>. QED BY <2>2
<1>2. reports = [b \in 1 .. n |-> Missing]
  BY DEF PipelineInit
<1>3. stage = "mine" /\ ranked = <<>>
  BY DEF PipelineInit
<1>. HIDE DEF n
<1>. QED BY <1>1, <1>2, <1>3 DEF PipelineInv

LEMMA StepPipeline ==
  ASSUME PipelineInv, [PipelineNext]_<<vars, pipeline>>
  PROVE  PipelineInv'
<1>1. ASSUME UNCHANGED pipeline PROVE PipelineInv'
  BY <1>1 DEF PipelineInv, pipeline, Reported
<1>2. ASSUME NEW b \in DOMAIN reports, Mine(b) PROVE PipelineInv'
  <2>1. PICK claimed \in SUBSET {f \in Claims : Accepts(f, batches[b])} :
            IsFiniteSet(claimed) /\ reports' = [reports EXCEPT ![b] = claimed]
    BY <1>2 DEF Mine
  <2>2. Reportable(claimed)
    BY <2>1, AcceptedIsSound DEF Reportable
  <2>3. /\ stage = "mine" /\ stage' = "mine" /\ ranked' = ranked
        /\ DOMAIN reports' = DOMAIN reports
    BY <1>2, <2>1 DEF Mine
  <2>4. \A c \in DOMAIN reports : reports'[c] = Missing \/ Reportable(reports'[c])
    BY <2>1, <2>2 DEF PipelineInv
  <2>. QED BY <2>3, <2>4 DEF PipelineInv
<1>3. ASSUME NEW b \in DOMAIN reports, MineAgain(b) PROVE PipelineInv'
  BY <1>3 DEF MineAgain, PipelineInv
<1>4. ASSUME Merge PROVE PipelineInv'
  <2>1. /\ stage = "mine" /\ UNCHANGED <<reports, ranked>>
        /\ \A b \in DOMAIN reports : Reportable(reports[b])
    BY <1>4 DEF Merge, PipelineInv
  <2>2. \/ stage' = "merged" /\ findings' = Merged(Reported)
        \/ stage' = "refused"
    BY <1>4 DEF Merge
  <2>. QED BY <2>1, <2>2 DEF PipelineInv, Reported
<1>5. ASSUME stage = "merged", stage' = "grouped", UNCHANGED <<reports, findings, failing, ranked>>,
             Grouping(grouped', findings)
      PROVE  PipelineInv'
  BY <1>5 DEF PipelineInv, Reported
<1>6. ASSUME stage = "merged"
      PROVE  IsFiniteSet(findings) /\ \A f \in findings : Sound(f) /\ f.key \in Int
  BY <1>6, ReportedIs, MergedAll
<1>7. ASSUME KeepAsItIs PROVE PipelineInv'
  BY <1>5, <1>6, <1>7, KeptGroup DEF KeepAsItIs
<1>8. ASSUME Reconcile PROVE PipelineInv'
  BY <1>5, <1>6, <1>8, ReconciledGroups DEF Reconcile
<1>9. ASSUME Rank PROVE PipelineInv'
  BY <1>9 DEF Rank, PipelineInv, Reported
<1>10. ASSUME RankFails PROVE PipelineInv'
  BY <1>10 DEF RankFails, PipelineInv
<1>11. ASSUME AssignDigest PROVE PipelineInv'
  BY <1>1, <1>11 DEF AssignDigest
<1>12. CASE UNCHANGED <<vars, pipeline>>
  BY <1>1, <1>12
<1>. QED BY <1>2, <1>3, <1>4, <1>7, <1>8, <1>9, <1>10, <1>11, <1>12 DEF PipelineNext

(* From the reports to the ranking every stage holds what the one before   *)
(* it makes: claims the manifest backs, their merge, groups that spread it *)
(* out, and the ranking of these groups.                                   *)
THEOREM PipelineInvariance == PipelineSpec => []PipelineInv
<1>1. PipelineInit => PipelineInv
  BY InitPipeline
<1>2. PipelineInv /\ [PipelineNext]_<<vars, pipeline>> => PipelineInv'
  BY StepPipeline
<1>. QED BY <1>1, <1>2, PTL DEF PipelineSpec

-----------------------------------------------------------------------------
(* Sums from the reports to the ranking.                                   *)
LEMMA SumAgrees ==
  ASSUME NEW S, IsFiniteSet(S), NEW f, NEW g, \A x \in S : f[x] \in Int /\ f[x] = g[x]
  PROVE  SumFunctionOnSet(f, S) = SumFunctionOnSet(g, S)
<1>. DEFINE h == [x \in S |-> x]
<1>1. \A x \in S : f[x] \in Int /\ f[x] = g[h[x]]
  OBVIOUS
<1>2. \A x, y \in S : h[x] = h[y] => x = y
  OBVIOUS
<1>3. {h[x] : x \in S} = S
  OBVIOUS
<1>. HIDE DEF h
<1>4. SumFunctionOnSet(f, S) = SumFunctionOnSet(g, {h[x] : x \in S})
  BY <1>1, <1>2, SumMoved
<1>. QED BY <1>3, <1>4

(* What a merged finding says of its lines.                                *)
Observed(m) ==
  {[cluster |-> [key |-> m.key, type |-> m.type, session |-> m.session],
    line |-> e.line, count |-> e.count] : e \in m.evidence}

LEMMA ObservedCounts ==
  ASSUME NEW m, Sound(m), NEW f, \A o \in Observed(m) : f[o] = o.count
  PROVE  /\ IsFiniteSet(Observed(m)) /\ \A o \in Observed(m) : o.count \in Int
         /\ SumFunctionOnSet(f, Observed(m)) = m.count
<1>. DEFINE E == m.evidence
            c == [e \in E |-> e.count]
            cluster == [key |-> m.key, type |-> m.type, session |-> m.session]
            h == [e \in E |-> [cluster |-> cluster, line |-> e.line, count |-> e.count]]
<1>1. IsFiniteSet(E)
  BY DEF Sound
<1>2. \A e \in E : /\ e.count \in Int
                   /\ e = [line |-> e.line, count |-> e.count, time |-> Time[e.line],
                           project |-> Project[Digest(e.line)]]
  BY DEF Sound
<1>3. m.count = SumFunctionOnSet(c, E)
  BY DEF Sound, Counts, SumFunction
<1>4. {h[e] : e \in E} = Observed(m)
  BY DEF Observed
<1>5. \A e \in E : h[e] \in Observed(m)
  BY <1>4
<1>6. \A e \in E : h[e].count = e.count /\ h[e].line = e.line
  OBVIOUS
<1>7. \A e \in E : c[e] = e.count
  OBVIOUS
<1>. HIDE DEF E, c, h
<1>8. \A e \in E : c[e] \in Int /\ c[e] = f[h[e]]
  BY <1>2, <1>5, <1>6, <1>7
<1>9. ASSUME NEW d \in E, NEW e \in E, h[d] = h[e] PROVE d = e
  <2>1. d.line = e.line /\ d.count = e.count
    BY <1>6, <1>9
  <2>2. d = [line |-> d.line, count |-> d.count, time |-> Time[d.line],
             project |-> Project[Digest(d.line)]]
    BY <1>2
  <2>3. e = [line |-> e.line, count |-> e.count, time |-> Time[e.line],
             project |-> Project[Digest(e.line)]]
    BY <1>2
  <2>. QED BY <2>1, <2>2, <2>3, Zenon
<1>10. /\ IsFiniteSet({h[e] : e \in E})
       /\ SumFunctionOnSet(c, E) = SumFunctionOnSet(f, {h[e] : e \in E})
  <2>1. \A d, e \in E : h[d] = h[e] => d = e
    BY <1>9
  <2>. QED BY <1>1, <1>8, <2>1, SumMoved
<1>11. \A o \in Observed(m) : o.count \in Int
  BY <1>2, <1>4, <1>6
<1>. QED BY <1>3, <1>4, <1>10, <1>11

(* The observations of the claims, as in Observations.                     *)
Said(claims) ==
  UNION {{[cluster |-> Cluster(f), line |-> e.line, count |-> e.count] :
             e \in f.evidence} : f \in claims}

LEMMA MergedSaysIt ==
  ASSUME NEW claims, Reportable(claims)
  PROVE  Said(claims) = UNION {Observed(m) : m \in Merged(claims)}
<1>1. ASSUME NEW f \in claims, NEW e \in f.evidence
      PROVE  [cluster |-> Cluster(f), line |-> e.line, count |-> e.count]
               \in UNION {Observed(m) : m \in Merged(claims)}
  <2>. DEFINE m == MergedOf(Alike(claims, f))
  <2>1. m \in Merged(claims)
    BY DEF Merged
  <2>2. f \in Alike(claims, f)
    BY DEF Alike
  <2>3. /\ m.key = Key[f.spelling] /\ m.type = f.type /\ m.session = f.session
        /\ m.evidence = UNION {g.evidence : g \in Alike(claims, f)}
    BY MergedOne
  <2>. HIDE DEF m
  <2>4. e \in m.evidence
    BY <2>2, <2>3
  <2>5. [key |-> m.key, type |-> m.type, session |-> m.session] = Cluster(f)
    BY <2>3 DEF Cluster
  <2>6. [cluster |-> Cluster(f), line |-> e.line, count |-> e.count] \in Observed(m)
    BY <2>4, <2>5 DEF Observed
  <2>. QED BY <2>1, <2>6
<1>2. ASSUME NEW m \in Merged(claims), NEW e \in m.evidence
      PROVE  [cluster |-> [key |-> m.key, type |-> m.type, session |-> m.session],
              line |-> e.line, count |-> e.count] \in Said(claims)
  <2>1. PICK f \in claims : m = MergedOf(Alike(claims, f))
    BY DEF Merged
  <2>2. /\ m.key = Key[f.spelling] /\ m.type = f.type /\ m.session = f.session
        /\ m.evidence = UNION {g.evidence : g \in Alike(claims, f)}
    BY <2>1, MergedOne
  <2>3. PICK g \in Alike(claims, f) : e \in g.evidence
    BY <2>2
  <2>4. g \in claims /\ Cluster(g) = Cluster(f)
    BY DEF Alike
  <2>5. [key |-> m.key, type |-> m.type, session |-> m.session] = Cluster(g)
    BY <2>2, <2>4 DEF Cluster
  <2>. QED BY <2>3, <2>4, <2>5 DEF Said
<1>3. ASSUME NEW x \in Said(claims)
      PROVE  x \in UNION {Observed(m) : m \in Merged(claims)}
  <2>1. PICK f \in claims : \E e \in f.evidence :
                 x = [cluster |-> Cluster(f), line |-> e.line, count |-> e.count]
    BY <1>3 DEF Said
  <2>. QED BY <1>1, <2>1
<1>4. ASSUME NEW m \in Merged(claims), NEW x \in Observed(m)
      PROVE  x \in Said(claims)
  BY <1>2 DEF Observed
<1>. QED BY <1>3, <1>4

(* Findings of one cluster are one finding.                                *)
LEMMA MergedApart ==
  ASSUME NEW claims, Reportable(claims), NEW m \in Merged(claims), NEW q \in Merged(claims),
         m # q
  PROVE  Observed(m) \cap Observed(q) = {}
<1>1. PICK f \in claims : m = MergedOf(Alike(claims, f))
  BY DEF Merged
<1>2. PICK g \in claims : q = MergedOf(Alike(claims, g))
  BY DEF Merged
<1>3. m.key = Key[f.spelling] /\ m.type = f.type /\ m.session = f.session
  BY <1>1, MergedOne
<1>4. q.key = Key[g.spelling] /\ q.type = g.type /\ q.session = g.session
  BY <1>2, MergedOne
<1>5. Cluster(f) # Cluster(g)
  BY <1>1, <1>2 DEF Alike
<1>6. ~ (m.key = q.key /\ m.type = q.type /\ m.session = q.session)
  BY <1>3, <1>4, <1>5 DEF Cluster
<1>. SUFFICES ASSUME NEW o \in Observed(m) \cap Observed(q) PROVE FALSE
  OBVIOUS
<1>7. o.cluster = [key |-> m.key, type |-> m.type, session |-> m.session]
  BY DEF Observed
<1>8. o.cluster = [key |-> q.key, type |-> q.type, session |-> q.session]
  BY DEF Observed
<1>. QED BY <1>6, <1>7, <1>8

(* Merging neither loses a count nor adds one twice.                       *)
LEMMA MergedAccounts ==
  ASSUME NEW claims, Reportable(claims), NEW M, M = Merged(claims)
  PROVE  SumFunction([o \in Said(claims) |-> o.count])
           = SumFunctionOnSet([m \in M |-> m.count], M)
<1>. DEFINE f == [o \in Said(claims) |-> o.count]
            P == [m \in M |-> Observed(m)]
            s == [m \in M |-> SumFunctionOnSet(f, P[m])]
            c == [m \in M |-> m.count]
<1>1. IsFiniteSet(M) /\ \A m \in M : Sound(m)
  BY MergedAll
<1>2. Said(claims) = UNION {P[m] : m \in M}
  BY MergedSaysIt
<1>3. \A m \in M : P[m] = Observed(m)
  OBVIOUS
<1>4. \A m \in M : \A o \in Observed(m) : f[o] = o.count
  BY <1>2, <1>3
<1>5. SumFunction(f) = SumFunctionOnSet(f, UNION {P[m] : m \in M})
  BY <1>2 DEF SumFunction
<1>. HIDE DEF f, P
<1>6. ASSUME NEW m \in M
      PROVE  /\ IsFiniteSet(P[m]) /\ \A x \in P[m] : f[x] \in Int
             /\ SumFunctionOnSet(f, P[m]) = m.count
  <2>1. /\ IsFiniteSet(Observed(m)) /\ \A o \in Observed(m) : o.count \in Int
        /\ SumFunctionOnSet(f, Observed(m)) = m.count
    BY <1>1, <1>4, ObservedCounts
  <2>. QED BY <1>3, <1>4, <2>1
<1>7. \A m, q \in M : m # q => P[m] \cap P[q] = {}
  BY <1>3, MergedApart
<1>8. SumFunctionOnSet(f, UNION {P[m] : m \in M}) = SumFunctionOnSet(s, M)
  <2>1. \A m \in M : IsFiniteSet(P[m]) /\ \A x \in P[m] : f[x] \in Int
    BY <1>6
  <2>2. IsFiniteSet(M)
    BY <1>1
  <2>3. \A j, k \in M : j # k => P[j] \cap P[k] = {}
    BY <1>7
  <2>. QED BY <2>1, <2>2, <2>3, SumParts
<1>9. s = c
  BY <1>6
<1>. QED BY <1>5, <1>8, <1>9 DEF f

(* Grouping neither loses a finding nor counts one twice.                  *)
LEMMA GroupsAccount ==
  ASSUME NEW groups, NEW n, NEW F, IsFiniteSet(F), GroupList(groups, n), Spread(groups, n, F)
  PROVE  SumFunctionOnSet([m \in F |-> m.count], F)
           = SumFunctionOnSet([i \in 1 .. n |-> Occurrences(groups[i].members)], 1 .. n)
<1>. DEFINE D == 1 .. n
            c == [m \in F |-> m.count]
            P == [i \in D |-> ToSet(groups[i].members)]
            s == [i \in D |-> SumFunctionOnSet(c, P[i])]
            t == [i \in D |-> Occurrences(groups[i].members)]
<1>1. n \in Nat /\ \A i \in D : \E k : Members(groups[i].members, k)
  BY DEF GroupList
<1>2. IsFiniteSet(D)
  <2>1. 1 \in Int /\ n \in Int
    BY <1>1
  <2>. QED BY <2>1, FS_Interval
<1>3. /\ \A i \in D : IsInjective(groups[i].members)
      /\ F = UNION {P[i] : i \in D}
      /\ \A i, j \in D : i # j => P[i] \cap P[j] = {}
  BY DEF Spread
<1>4. ASSUME NEW i \in D
      PROVE  /\ IsFiniteSet(P[i]) /\ \A m \in P[i] : c[m] \in Int
             /\ SumFunctionOnSet(c, P[i]) = Occurrences(groups[i].members)
  <2>. DEFINE ms == groups[i].members
  <2>1. PICK k : Members(ms, k)
    BY <1>1
  <2>. DEFINE K == 1 .. k
              x == [j \in K |-> ms[j].count]
  <2>2. P[i] = ToSet(ms)
    OBVIOUS
  <2>3. DOMAIN ms = K /\ k \in Nat
    BY <2>1 DEF Members
  <2>4. IsFiniteSet(K)
    BY <2>3, FS_Interval
  <2>5. \A j \in K : ms[j].count \in Int
    BY <2>1, SoundCount DEF Members
  <2>6. P[i] = {ms[j] : j \in K}
    BY <2>2, <2>3 DEF ToSet
  <2>7. P[i] \subseteq F
    BY <1>3
  <2>8. \A j \in K : ms[j] \in P[i]
    BY <2>6
  <2>9. \A m \in F : c[m] = m.count
    OBVIOUS
  <2>10. \A j \in K : x[j] = ms[j].count
    OBVIOUS
  <2>11. Occurrences(ms) = SumFunctionOnSet(x, K)
    BY <2>3 DEF Occurrences, SumFunction
  <2>12. \A j, l \in K : ms[j] = ms[l] => j = l
    BY <1>3, <2>3 DEF IsInjective
  <2>. HIDE DEF P, c, x, K, ms
  <2>13. \A j \in K : x[j] \in Int /\ x[j] = c[ms[j]]
    BY <2>5, <2>7, <2>8, <2>9, <2>10
  <2>14. /\ IsFiniteSet({ms[j] : j \in K})
         /\ SumFunctionOnSet(x, K) = SumFunctionOnSet(c, {ms[j] : j \in K})
    BY <2>4, <2>12, <2>13, SumMoved
  <2>15. \A m \in P[i] : c[m] \in Int
    BY <2>5, <2>6, <2>7, <2>9
  <2>. QED BY <2>6, <2>11, <2>14, <2>15 DEF ms
<1>. HIDE DEF c, P, D
<1>5. /\ IsFiniteSet(UNION {P[i] : i \in D})
      /\ SumFunctionOnSet(c, UNION {P[i] : i \in D})
           = SumFunctionOnSet([i \in D |-> SumFunctionOnSet(c, P[i])], D)
  <2>1. \A i \in D : IsFiniteSet(P[i]) /\ \A m \in P[i] : c[m] \in Int
    BY <1>4
  <2>2. \A i, j \in D : i # j => P[i] \cap P[j] = {}
    BY <1>3
  <2>. QED BY <1>2, <2>1, <2>2, SumParts
<1>6. s = t
  BY <1>4
<1>. QED BY <1>3, <1>5, <1>6 DEF c, D

(* What RankingAccountsForReports says, for claims and groups of them.     *)
LEMMA CandidatesAccount ==
  ASSUME NEW groups, NEW n, GroupList(groups, n), NEW failed,
         NEW C, C = {RankingOf(groups, failed)[i] : i \in DOMAIN RankingOf(groups, failed)}
  PROVE  /\ SumFunction([c \in C |-> c.metrics.occurrences])
              = SumFunctionOnSet([i \in 1 .. n |-> Occurrences(groups[i].members)], 1 .. n)
         /\ UNION {LinesOf(c) : c \in C}
              = UNION {{e.line : e \in References(groups[i].members)} : i \in 1 .. n}
<1>. DEFINE D == 1 .. n
            cs == CandidatesOf(groups, failed)
            t == [i \in D |-> Occurrences(groups[i].members)]
            u == [c \in C |-> c.metrics.occurrences]
<1>1. n \in Nat /\ DOMAIN groups = D /\ \A i \in D : \E k : Members(groups[i].members, k)
  BY DEF GroupList
<1>2. IsFiniteSet(D)
  <2>1. 1 \in Int /\ n \in Int
    BY <1>1
  <2>. QED BY <2>1, FS_Interval
<1>3. /\ Rankable(cs, n) /\ OwnKeys(cs, n) /\ RankingOf(groups, failed) = Ranked(cs)
  BY CandidatesAre
<1>4. C = {cs[i] : i \in D}
  <2>1. DOMAIN Ranked(cs) = D /\ {Ranked(cs)[i] : i \in D} = {cs[i] : i \in D}
    BY <1>3, RankedAll
  <2>. QED BY <1>3, <2>1
<1>5. ASSUME NEW i \in D
      PROVE  /\ cs[i].metrics.occurrences = Occurrences(groups[i].members)
             /\ Occurrences(groups[i].members) \in Int
             /\ LinesOf(cs[i]) = {e.line : e \in References(groups[i].members)}
  <2>1. PICK k : Members(groups[i].members, k)
    BY <1>1
  <2>. DEFINE r == Regressions(groups[i].key, failed)
  <2>2. cs[i] = Candidate(groups[i], r)
    BY <1>1 DEF CandidatesOf
  <2>3. Candidate(groups[i], r).metrics.occurrences = Occurrences(groups[i].members)
    BY DEF Candidate, Metrics
  <2>4. Occurrences(groups[i].members) \in Int
    BY <2>1, OccurrencesAre
  <2>. HIDE DEF r, cs
  <2>5. LinesOf(Candidate(groups[i], r)) = {e.line : e \in References(groups[i].members)}
    BY <2>1, LinesAre
  <2>. QED BY <2>2, <2>3, <2>4, <2>5
<1>6. \A i, j \in D : cs[i] = cs[j] => i = j
  BY <1>3 DEF OwnKeys
<1>7. \A i \in D : cs[i] \in C
  BY <1>4
<1>8. \A c \in C : u[c] = c.metrics.occurrences
  OBVIOUS
<1>9. \A i \in D : t[i] = Occurrences(groups[i].members)
  OBVIOUS
<1>10. SumFunction(u) = SumFunctionOnSet(u, C)
  BY DEF SumFunction
<1>. HIDE DEF cs, t, u, D
<1>11. \A i \in D : t[i] \in Int /\ t[i] = u[cs[i]]
  BY <1>5, <1>7, <1>8, <1>9
<1>12. /\ IsFiniteSet({cs[i] : i \in D})
       /\ SumFunctionOnSet(t, D) = SumFunctionOnSet(u, {cs[i] : i \in D})
  BY <1>2, <1>6, <1>11, SumMoved
<1>13. UNION {LinesOf(c) : c \in C} = UNION {{e.line : e \in References(groups[i].members)} : i \in D}
  <2>1. UNION {LinesOf(c) : c \in C} = UNION {LinesOf(cs[i]) : i \in D}
    BY <1>4
  <2>2. {LinesOf(cs[i]) : i \in D} = {{e.line : e \in References(groups[i].members)} : i \in D}
    BY <1>5
  <2>. QED BY <2>1, <2>2
<1>. QED BY <1>4, <1>10, <1>12, <1>13 DEF t, u, D

-----------------------------------------------------------------------------
LEMMA RankedGroups ==
  ASSUME PipelineInv, stage = "ranked"
  PROVE  /\ ranked = RankingOf(grouped, failing) /\ IsFiniteSet(findings)
         /\ \E n : GroupList(grouped, n) /\ Spread(grouped, n, findings)
BY DEF PipelineInv, Grouping

LEMMA CandidatesFrom ==
  ASSUME PipelineInv, stage = "ranked", NEW n, GroupList(grouped, n), NEW c \in Candidates
  PROVE  \E i \in 1 .. n : c = Candidate(grouped[i], Regressions(grouped[i].key, failing))
<1>. DEFINE cs == CandidatesOf(grouped, failing)
<1>1. Rankable(cs, n) /\ ranked = Ranked(cs)
  BY RankedGroups, CandidatesAre
<1>2. DOMAIN Ranked(cs) = 1 .. n /\ {Ranked(cs)[i] : i \in 1 .. n} = {cs[i] : i \in 1 .. n}
  BY <1>1, RankedAll
<1>3. \A i \in 1 .. n : cs[i] = Candidate(grouped[i], Regressions(grouped[i].key, failing))
  BY DEF CandidatesOf, GroupList
<1>. HIDE DEF cs
<1>4. c \in {cs[i] : i \in 1 .. n}
  BY <1>1, <1>2 DEF Candidates
<1>. QED BY <1>3, <1>4

(* The numbers of a candidate are those of the manifest, at the lines it   *)
(* cites, for every index, every claim a miner makes and every grouping.   *)
THEOREM MetricsOfTheManifest == PipelineSpec => []MetricsAreOfTheManifest
<1>1. ASSUME PipelineInv PROVE MetricsAreOfTheManifest
  <2>1. ASSUME NEW c \in Candidates PROVE OfTheManifest(c)
    <3>1. CASE stage # "ranked"
      <4>1. ranked = <<>>
        BY <1>1, <3>1 DEF PipelineInv
      <4>. QED BY <4>1 DEF Candidates
    <3>2. CASE stage = "ranked"
      <4>1. PICK n : GroupList(grouped, n)
        BY <1>1, <3>2, RankedGroups
      <4>2. PICK i \in 1 .. n : c = Candidate(grouped[i], Regressions(grouped[i].key, failing))
        BY <1>1, <3>2, <4>1, CandidatesFrom
      <4>3. PICK k : Members(grouped[i].members, k)
        BY <4>1 DEF GroupList
      <4>. QED BY <4>2, <4>3, CandidateOfTheManifest
    <3>. QED BY <3>1, <3>2
  <2>. QED BY <2>1 DEF OfTheManifest, MetricsAreOfTheManifest
<1>. QED BY <1>1, PipelineInvariance, PTL

(* A fix seen to fail never costs its problem a place, whatever the        *)
(* findings, the groups, the ids and the other fixes that failed.          *)
THEOREM RisesWhenFixFailed == PipelineSpec => []FailedFixRises
<1>1. ASSUME PipelineInv PROVE FailedFixRises
  <2>. SUFFICES ASSUME stage = "ranked", NEW c \in Candidates
                PROVE  Place(c.key, ranked)
                         <= Place(c.key, RankingOf(grouped, failing \ {ClusterId[c.key]}))
    BY DEF FailedFixRises
  <2>1. PICK n : GroupList(grouped, n)
    BY <1>1, RankedGroups
  <2>2. PICK i \in 1 .. n : c = Candidate(grouped[i], Regressions(grouped[i].key, failing))
    BY <1>1, <2>1, CandidatesFrom
  <2>3. c.key = grouped[i].key
    BY <2>2 DEF Candidate
  <2>4. ranked = RankingOf(grouped, failing)
    BY <1>1, RankedGroups
  <2>5. Place(grouped[i].key, RankingOf(grouped, failing))
          <= Place(grouped[i].key, RankingOf(grouped, failing \ {ClusterId[grouped[i].key]}))
    BY <2>1, RisesInRanking
  <2>. QED BY <2>3, <2>4, <2>5
<1>. QED BY <1>1, PipelineInvariance, PTL

(* No order of the groups changes the ranking, whatever the groups, the    *)
(* fixes that failed and the side a half-way mean is rounded to.           *)
THEOREM IgnoresGroupOrder == PipelineSpec => []RankingIgnoresGroupOrder
<1>1. ASSUME PipelineInv PROVE RankingIgnoresGroupOrder
  <2>. SUFFICES ASSUME stage = "ranked", NEW groups \in Reorderings(grouped)
                PROVE  RankingOf(groups, failing) = ranked
    BY DEF RankingIgnoresGroupOrder
  <2>1. PICK n : GroupList(grouped, n)
    BY <1>1, RankedGroups
  <2>2. ranked = RankingOf(grouped, failing)
    BY <1>1, RankedGroups
  <2>. QED BY <2>1, <2>2, AnyOrderRanksAlike
<1>. QED BY <1>1, PipelineInvariance, PTL

(* Between the reports and the ranking no occurrence is lost or counted    *)
(* twice and no line is lost or invented.                                  *)
THEOREM AccountsForReports == PipelineSpec => []RankingAccountsForReports
<1>1. ASSUME PipelineInv PROVE RankingAccountsForReports
  <2>. SUFFICES ASSUME stage = "ranked"
                PROVE  /\ SumFunction([c \in Candidates |-> c.metrics.occurrences])
                            = SumFunction([o \in Observations |-> o.count])
                       /\ UNION {LinesOf(c) : c \in Candidates} = {o.line : o \in Observations}
    BY DEF RankingAccountsForReports
  <2>1. Reportable(Reported) /\ findings = Merged(Reported)
    BY <1>1, ReportedIs
  <2>2. ranked = RankingOf(grouped, failing) /\ IsFiniteSet(findings)
    BY <1>1, RankedGroups
  <2>3. PICK n : GroupList(grouped, n) /\ Spread(grouped, n, findings)
    BY <1>1, RankedGroups
  <2>4. Observations = Said(Reported)
    BY DEF Observations, Said
  <2>5. SumFunction([o \in Observations |-> o.count])
          = SumFunctionOnSet([m \in findings |-> m.count], findings)
    BY <2>1, <2>4, MergedAccounts
  <2>6. SumFunctionOnSet([m \in findings |-> m.count], findings)
          = SumFunctionOnSet([i \in 1 .. n |-> Occurrences(grouped[i].members)], 1 .. n)
    BY <2>2, <2>3, GroupsAccount
  <2>7. Candidates = {RankingOf(grouped, failing)[i] : i \in DOMAIN RankingOf(grouped, failing)}
    BY <2>2 DEF Candidates
  <2>8. /\ SumFunction([c \in Candidates |-> c.metrics.occurrences])
              = SumFunctionOnSet([i \in 1 .. n |-> Occurrences(grouped[i].members)], 1 .. n)
        /\ UNION {LinesOf(c) : c \in Candidates}
              = UNION {{e.line : e \in References(grouped[i].members)} : i \in 1 .. n}
    BY <2>3, <2>7, CandidatesAccount
  <2>9. UNION {{e.line : e \in References(grouped[i].members)} : i \in 1 .. n}
          = {o.line : o \in Observations}
    <3>1. Observations = UNION {Observed(m) : m \in findings}
      BY <2>1, <2>4, MergedSaysIt
    <3>2. findings = UNION {ToSet(grouped[i].members) : i \in 1 .. n}
      BY <2>3 DEF Spread
    <3>3. ASSUME NEW i \in 1 .. n, NEW e \in References(grouped[i].members)
          PROVE  e.line \in {o.line : o \in Observations}
      <4>1. PICK j \in DOMAIN grouped[i].members : e \in grouped[i].members[j].evidence
        BY <3>3 DEF References
      <4>. DEFINE m == grouped[i].members[j]
                  o == [cluster |-> [key |-> m.key, type |-> m.type, session |-> m.session],
                        line |-> e.line, count |-> e.count]
      <4>2. m \in findings
        BY <3>2 DEF ToSet
      <4>3. o \in Observed(m)
        BY <4>1 DEF Observed
      <4>4. o \in Observations
        BY <3>1, <4>2, <4>3
      <4>. QED BY <4>4
    <3>4. ASSUME NEW o \in Observations
          PROVE  \E i \in 1 .. n : o.line \in {e.line : e \in References(grouped[i].members)}
      <4>1. PICK m \in findings : o \in Observed(m)
        BY <3>1
      <4>2. PICK e \in m.evidence : o.line = e.line
        BY <4>1 DEF Observed
      <4>3. PICK i \in 1 .. n : m \in ToSet(grouped[i].members)
        BY <3>2
      <4>4. PICK j \in DOMAIN grouped[i].members : m = grouped[i].members[j]
        BY <4>3 DEF ToSet
      <4>5. e \in References(grouped[i].members)
        BY <4>2, <4>4 DEF References
      <4>. QED BY <4>2, <4>5
    <3>. QED BY <3>3, <3>4
  <2>. QED BY <2>5, <2>6, <2>8, <2>9
<1>. QED BY <1>1, PipelineInvariance, PTL
=============================================================================
