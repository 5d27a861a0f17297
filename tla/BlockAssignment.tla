-------------------------- MODULE BlockAssignment --------------------------
(***************************************************************************)
(* Which GPU block each copy of the pipeline goes to                       *)
(* (src/flextensor/strategy/assignment.py).  sizes[i] is what the i-th     *)
(* copy moves; an assignment is a sequence of block ids, from 0.           *)
(***************************************************************************)
EXTENDS LayerStrategy

CONSTANTS ExhaustiveCopies,   \* 12 in the code: more copies are placed greedily
          ExhaustiveBlocks    \* 4 in the code, likewise for the blocks

ASSUME AssignmentAssumption == ExhaustiveCopies \in Nat /\ ExhaustiveBlocks \in Nat

StrictRoundRobin(sizes, n) == [i \in DOMAIN sizes |-> (i - 1) % n]

NeighboursDiffer(a) == \A i \in 1 .. Len(a) - 1 : a[i] # a[i + 1]

(* _calculate_assignment_memory: each block is as large as its largest copy *)
BlockMaxes(sizes, a, n) ==
  [b \in 0 .. n - 1 |-> Max({0} \cup {sizes[i] : i \in {i \in DOMAIN a : a[i] = b}})]
AssignmentMemory(sizes, a, n) == SumOver(0 .. n - 1, LAMBDA b : BlockMaxes(sizes, a, n)[b])

(* calculate_reuse_distance: the mean distance between two uses of a block,
   as a fraction of the number of blocks, at most 1.  The distances within a
   block add up to that between its first and its last use. *)
ReuseDistance(a, target) ==
  LET used   == ToSet(a)
      At(b)  == {i \in DOMAIN a : a[i] = b}
      ideal  == (Len(a) - Cardinality(used)) * target
  IN  IF Len(a) <= target \/ ideal = 0 THEN <<1, 1>>
      ELSE <<Min({SumOver(used, LAMBDA b : Max(At(b)) - Min(At(b))), ideal}), ideal>>

(* the combined score at distribution_weight 0.5, twice, as a fraction *)
CombinedScore(sizes, a, n, target) ==
  LET Mean(whole, saved, dist) == <<saved * dist[2] + dist[1] * whole, whole * dist[2]>>
      all == SumOver(DOMAIN sizes, LAMBDA i : sizes[i])
  IN  Mean(all, all - AssignmentMemory(sizes, a, n), ReuseDistance(a, target))
Below(p, q) == p[1] * q[2] < q[1] * p[2]

(* The best of a sequence of candidates, the first of equals. *)
FirstBest(candidates, score(_)) ==
  LET Keep(best, c) ==
        IF c # << >> /\ (best = << >> \/ Below(score(best), score(c))) THEN c ELSE best
  IN  FoldLeft(Keep, << >>, candidates)

(* generate_valid_assignments visits them in lexicographic order. *)
ValidAssignments(length, target) ==
  {a \in [1 .. length -> 0 .. target - 1] :
     NeighboursDiffer(a) /\ Cardinality(Range(a)) = target}
Before(a, b) ==
  \E i \in DOMAIN a : a[i] < b[i] /\ \A j \in 1 .. i - 1 : a[j] = b[j]

WrapsOnto(a) == Len(a) >= 2 /\ a[Len(a)] = a[1]

(* A best assignment that ends where it begins is dropped for strict round
   robin over the same blocks. *)
BestScored(score) ==
  CHOOSE a \in DOMAIN score : \A b \in DOMAIN score \ {a} :
    \/ Below(score[b], score[a])
    \/ ~Below(score[a], score[b]) /\ Before(a, b)
Unwrapped(a, sizes, target) == IF WrapsOnto(a) THEN StrictRoundRobin(sizes, target) ELSE a
FindAssignmentExhaustive(sizes, n, target) ==
  LET valid == ValidAssignments(Len(sizes), target)
  IN  IF valid = {} THEN << >>
      ELSE Unwrapped(BestScored([a \in valid |-> CombinedScore(sizes, a, n, target)]), sizes, target)

(* The block whose size grows least, the first of equals, blocks still
   unused first; the last copy is moved off the first one's block if it can. *)
LeastGrowth(maxes, size, blocks) ==
  LET Growth(b) == Max({maxes[b], size}) - maxes[b]
  IN  CHOOSE b \in blocks : \A c \in blocks :
        \/ Growth(b) < Growth(c)
        \/ Growth(b) = Growth(c) /\ b <= c
PlaceCopy(sizes, n, target, a) ==
  LET other  == {b \in 0 .. target - 1 : a = << >> \/ b # a[Len(a)]}
      unused == other \ ToSet(a)
  IN  Append(a, LeastGrowth(BlockMaxes(sizes, a, n), sizes[Len(a) + 1],
                            IF unused # {} THEN unused ELSE other))
FindAssignmentGreedy(sizes, n, target) ==
  LET Turned(a) ==
        LET other == {b \in 0 .. target - 1 : b # a[Len(a) - 1] /\ b # a[1]}
        IN  IF WrapsOnto(a) /\ other # {}
            THEN [a EXCEPT ![Len(a)] = LeastGrowth(BlockMaxes(sizes, a, n), sizes[Len(a)], other)]
            ELSE a
  IN  Turned(FoldLeft(LAMBDA s, size : PlaceCopy(sizes, n, target, s), << >>, sizes))

FindAssignmentForBlockCount(sizes, n, target) ==
  IF target > Len(sizes) THEN << >>
  ELSE IF Len(sizes) <= ExhaustiveCopies /\ target <= ExhaustiveBlocks
       THEN FindAssignmentExhaustive(sizes, n, target)
       ELSE FindAssignmentGreedy(sizes, n, target)

(* OptimizedRoundRobinAssignment(min_blocks, n): every number of blocks is
   tried, the best score kept. *)
OrStrict(a, sizes, target) == IF a = << >> THEN StrictRoundRobin(sizes, target) ELSE a
OptimizedRoundRobin(sizes, n, min_blocks) ==
  LET most  == Min({n, Len(sizes)})
      least == Min({min_blocks, most})
  IN  OrStrict(FirstBest([k \in 1 .. most - least + 1 |->
                            FindAssignmentForBlockCount(sizes, n, least + k - 1)],
                         LAMBDA a : CombinedScore(sizes, a, n, Cardinality(ToSet(a)))), sizes, least)

(* an assignment_strategy is its name *)
Assign(strategy, sizes, n) ==
  IF strategy = "Strict" THEN StrictRoundRobin(sizes, n) ELSE OptimizedRoundRobin(sizes, n, 2)

-----------------------------------------------------------------------------
(* _create_block_data of the global strategies, _build_block_data of the
   budget strategies: the copies in the order of their layers, each to the
   block assigned.  Every entry of map moves something. *)
AssignedBlocks(stats, map, strategy, num_blocks) ==
  LET labels == SelectSeq(Labels(stats), LAMBDA l : l \in DOMAIN map)
      Placed(a) == [l \in DOMAIN map |-> a[CHOOSE k \in DOMAIN labels : labels[k] = l]]
  IN  BlockData(stats, map,
        Placed(Assign(strategy, [k \in DOMAIN labels |-> Bytes(map[labels[k]])], num_blocks)))
=============================================================================
