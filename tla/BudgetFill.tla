----------------------------- MODULE BudgetFill -----------------------------
(***************************************************************************)
(* The budget-filling strategies (src/flextensor/strategy/budget_fill.py): *)
(* copy as little as brings the memory within a hard budget, taking first  *)
(* what fits the window of the layer before.                               *)
(*                                                                         *)
(* A candidate is [layer, tensor, fits].  The searches below compute the   *)
(* peak for strict round robin over at most two blocks and build their     *)
(* answer with the real assignment.  An optimiser's answer is any that is  *)
(* no worse than what it was seeded with.                                  *)
(***************************************************************************)
EXTENDS BlockAssignment

IdLess(s, r) == s[1] < r[1] \/ (s[1] = r[1] /\ s[2] < r[2])

(* _rank_candidates; at one bandwidth equal sizes take equal time *)
RankCandidates(stats, scale) ==
  LET Of(i) == LET ts == Large(stats[i].tensors)
               IN  [k \in DOMAIN ts |->
                      [layer |-> i, tensor |-> ts[k],
                       fits |-> BytesToDuration(ts[k].size) * ScaleUnit <= stats[i - 1].dur * scale]]
      Ahead(c, d) ==
        \/ c.fits /\ ~d.fits
        \/ c.fits = d.fits /\ c.tensor.size > d.tensor.size
        \/ c.fits = d.fits /\ c.tensor.size = d.tensor.size /\ IdLess(c.tensor.id, d.tensor.id)
  IN  SortSeq(FlattenSeq([i \in 1 .. Len(stats) - 1 |-> Of(i + 1)]), Ahead)

CandidateBytes(cs) == SumOver(DOMAIN cs, LAMBDA i : cs[i].tensor.size)
LayersOf(cs) == {cs[i].layer : i \in DOMAIN cs}
CandidatesByLayer(cs, i) == SelectSeq(cs, LAMBDA c : c.layer = i)

StrategyMapFromSelection(stats, selected) ==
  [l \in {stats[i - 1].label : i \in LayersOf(selected)} |->
     LET own == CandidatesByLayer(selected, PositionOf(stats, l) + 1)
     IN  [k \in DOMAIN own |-> own[k].tensor]]

FirstSelected(stats, selected) ==
  LET Noted(s, l) == IF l \in ToSet(s) THEN s ELSE Append(s, l)
  IN  FoldLeft(LAMBDA s, c : Noted(s, stats[c.layer - 1].label), << >>, selected)
ResultForSelection(stats, selected, strategy, num_blocks) ==
  LET map == StrategyMapFromSelection(stats, selected)
  IN  IF num_blocks = 0 \/ selected = << >> THEN Result(map, NoBlocks)
      ELSE [Result(map, AssignedBlocks(stats, map, strategy, num_blocks))
              EXCEPT !.order = FirstSelected(stats, selected)]
PeakOf(result, stats) == PeakMemory(result.map, result.block, stats)

SearchBlockCount(num_blocks) == Min({num_blocks, 2})

(* _strict_peak_from_transfer_sizes of a selection *)
StrictPeak(stats, selected, blocks) ==
  LET layers == SelectSeq([i \in DOMAIN stats |-> i], LAMBDA i : i \in LayersOf(selected))
      BlockPeak(sizes) ==
        IF blocks = 0 \/ sizes = << >> THEN 0
        ELSE AssignmentMemory(sizes, StrictRoundRobin(sizes, blocks), blocks)
  IN  Total(stats) - CandidateBytes(selected)
        + BlockPeak([k \in DOMAIN layers |-> CandidateBytes(CandidatesByLayer(selected, layers[k]))])

(* Of the ks whose peak is within the budget, the first that copies least; if
   there is none, the first of the lowest peak. *)
LeastWithin(budget, cost) ==
  LET within == {k \in DOMAIN cost : cost[k].peak <= budget}
      First(ks, f) == CHOOSE k \in ks : \A j \in ks :
                        cost[k][f] < cost[j][f] \/ (cost[k][f] = cost[j][f] /\ k <= j)
  IN  IF within # {} THEN First(within, "copied") ELSE First(DOMAIN cost, "peak")

Prefix(cs, k) == SubSeq(cs, 1, k)
BestRankedPrefix(stats, cs, budget, blocks) ==
  LeastWithin(budget, [k \in 0 .. Len(cs) |->
                         [peak   |-> StrictPeak(stats, Prefix(cs, k), blocks),
                          copied |-> CandidateBytes(Prefix(cs, k))]])

(* BudgetFillGreedyStrategy.compute, for at most 64 candidates: the prefix
   the search over few blocks finds, or the best when all are built *)
NothingToFill(stats, cs, budget) == Total(stats) <= budget \/ cs = << >>
BudgetFillGreedy(stats, cs, strategy, num_blocks, budget) ==
  LET BestBuilt(built) ==
        built[LeastWithin(budget, [k \in DOMAIN built |-> [peak   |-> PeakOf(built[k], stats),
                                                           copied |-> Offloaded(built[k].map)]])]
      FirstOrBest(built, first) ==
        IF PeakOf(built[first], stats) <= budget THEN built[first] ELSE BestBuilt(built)
  IN  IF NothingToFill(stats, cs, budget) THEN Result(EmptyMap, NoBlocks)
      ELSE FirstOrBest([k \in 0 .. Len(cs) |-> ResultForSelection(stats, Prefix(cs, k), strategy, num_blocks)],
                       BestRankedPrefix(stats, cs, budget, SearchBlockCount(num_blocks)))

(* the objective of both optimisers: beyond the budget by how much, else
   what is copied and, of equals, what of it does not fit its window *)
NonFitting(cs) == CandidateBytes(SelectSeq(cs, LAMBDA c : ~c.fits))
SoftObjective(selected, peak, budget) ==
  IF peak > budget THEN <<1, peak, 0>> ELSE <<0, CandidateBytes(selected), NonFitting(selected)>>
AtLeastAsGood(p, q) ==
  \/ p[1] < q[1]
  \/ p[1] = q[1] /\ (p[2] < q[2] \/ (p[2] = q[2] /\ p[3] <= q[3]))

(* BudgetFillTensorDEStrategy.compute: exhaustive up to ExactCandidates *)
ExactCandidates == 4
PickCandidates(cs, mask) == SelectSeq(cs, LAMBDA c : c.tensor.id \in mask)
BudgetFillTensorDE(stats, cs, greedy, strategy, num_blocks, budget) ==
  LET ids == UNION {{t.id : t \in ToSet(greedy.map[l])} : l \in DOMAIN greedy.map}
      Unbeaten(value) ==
        {mask \in DOMAIN value : \A m \in IF Len(cs) <= ExactCandidates THEN DOMAIN value ELSE {ids} :
           AtLeastAsGood(value[mask], value[m])}
      Answers(built) ==
        {built[mask] : mask \in Unbeaten([mask \in DOMAIN built |->
           SoftObjective(PickCandidates(cs, mask), PeakOf(built[mask], stats), budget)])}
  IN  IF NothingToFill(stats, cs, budget) THEN {Result(EmptyMap, NoBlocks)}
      ELSE Answers([mask \in SUBSET {c.tensor.id : c \in ToSet(cs)} |->
                      ResultForSelection(stats, PickCandidates(cs, mask), strategy, num_blocks)])

(* BudgetFillLayerDEStrategy.compute: how many of its ranked candidates each
   layer gives.  With two layers or a plan near the budget the greedy prefix
   is taken as it is. *)
LayerPrefixes(cs) ==
  {take \in [LayersOf(cs) -> 0 .. Len(cs)] :
     \A i \in DOMAIN take : take[i] <= Len(CandidatesByLayer(cs, i))}
SelectForLayers(cs, take) ==
  FlattenSeq([i \in 1 .. Max(DOMAIN take) |->
                IF i \in DOMAIN take THEN Prefix(CandidatesByLayer(cs, i), take[i]) ELSE << >>])
BudgetFillLayerDE(stats, cs, greedy, strategy, num_blocks, budget) ==
  LET blocks  == SearchBlockCount(num_blocks)
      Peak(s) == StrictPeak(stats, s, blocks)
      Value(s) == SoftObjective(s, Peak(s), budget)
      Near(peak) == peak <= budget /\ budget - peak <= 1
      Better(seed) == {take \in LayerPrefixes(cs) : AtLeastAsGood(Value(SelectForLayers(cs, take)), seed)}
      Takes(prefix) ==
        LET own == [i \in LayersOf(cs) |-> Len(CandidatesByLayer(prefix, i))]
        IN  IF Cardinality(LayersOf(cs)) <= 2 \/ Near(Peak(prefix)) THEN {own}
            ELSE Better(Value(SelectForLayers(cs, own)))
      OrGreedy(built) == IF PeakOf(built, stats) <= budget THEN built ELSE greedy
  IN  IF NothingToFill(stats, cs, budget) THEN {Result(EmptyMap, NoBlocks)}
      ELSE {OrGreedy(ResultForSelection(stats, SelectForLayers(cs, take), strategy, num_blocks)) :
            take \in Takes(Prefix(cs, BestRankedPrefix(stats, cs, budget, blocks)))}

(* _prefer_budget_fill_result *)
PreferBudgetFillResult(current, candidate, stats, budget) ==
  LET ok(r) == PeakOf(r, stats) <= budget
  IN  IF ok(candidate) # ok(current) THEN IF ok(candidate) THEN candidate ELSE current
      ELSE IF Offloaded(candidate.map) < Offloaded(current.map) THEN candidate ELSE current
Preferred(currents, candidates, stats, budget) ==
  IF candidates = {} THEN currents
  ELSE {PreferBudgetFillResult(r, c, stats, budget) : r \in currents, c \in candidates}

(* BudgetFillStrategy.compute: every answer the optimisers can give *)
Refined(stats, cs, greedy, strategy, num_blocks, budget, tensor_de) ==
  Preferred(Preferred({greedy}, BudgetFillLayerDE(stats, cs, greedy, strategy, num_blocks, budget),
                      stats, budget),
            IF tensor_de THEN BudgetFillTensorDE(stats, cs, greedy, strategy, num_blocks, budget) ELSE {},
            stats, budget)
BudgetFillStrategy(stats, strategy, num_blocks, scale, budget, tensor_de) ==
  LET cs == RankCandidates(stats, scale)
  IN  IF budget = 0 \/ Len(stats) < 2 THEN {Failure("StrategyComputeError")}
      ELSE Refined(stats, cs, BudgetFillGreedy(stats, cs, strategy, num_blocks, budget),
                   strategy, num_blocks, budget, tensor_de)
=============================================================================
