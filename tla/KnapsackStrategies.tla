------------------------ MODULE KnapsackStrategies ------------------------
(***************************************************************************)
(* The knapsack strategies (src/flextensor/strategy/knapsack.py): for each *)
(* layer, the tensors that can be copied while the layer before computes.  *)
(*                                                                         *)
(* scipy's differential evolution is external; de says how it ended: at    *)
(* the optimum, or (FALSE) with nothing better than the greedy packs it    *)
(* was seeded with, or with NaN.                                           *)
(***************************************************************************)
EXTENDS LayerStrategy

CONSTANT ExactTensors   \* 5 in the code: more tensors are given to the optimiser

ASSUME ExactTensorsAssumption == ExactTensors \in Nat

(* _prepare_merged_layers *)
Merged(stats, group_size) ==
  LET groups == (Len(stats) + group_size - 1) \div group_size
      Group(g) == SubSeq(stats, (g - 1) * group_size + 1, Min({g * group_size, Len(stats)}))
  IN  [g \in 1 .. groups |->
         [label   |-> Group(g)[1].label,
          tensors |-> FlattenSeq([i \in DOMAIN Group(g) |-> Group(g)[i].tensors]),
          dur     |-> SumOver(DOMAIN Group(g), LAMBDA i : Group(g)[i].dur)]]

-----------------------------------------------------------------------------
(* the heaviest of the packs, the first of equals *)
BestPack(ts, packs) ==
  FoldLeft(LAMBDA best, p : IF Weight(ts, p) > Weight(ts, best) THEN p ELSE best, {}, packs)

(* Everything if it fits, nothing if nothing fits, else the best greedy pack,
   which an optimiser's answer replaces only if it fits and weighs as much. *)
Solve(layer, capacity, orders(_), de) ==
  LET Greedy(ts, given) == BestPack(ts, [k \in DOMAIN given |-> GreedyPack(ts, capacity, given[k])])
      Heaviest(ts, fits) == CHOOSE s \in fits : \A r \in fits : Weight(ts, r) <= Weight(ts, s)
      Solved(ts) ==
        IF Bytes(ts) <= capacity THEN ts
        ELSE IF \A i \in DOMAIN ts : ts[i].size > capacity THEN << >>
        ELSE Chosen(ts, IF Len(ts) > ExactTensors /\ de
                        THEN Heaviest(ts, {s \in SUBSET DOMAIN ts : Weight(ts, s) <= capacity})
                        ELSE Greedy(ts, orders(ts)))
  IN  Solved(Large(layer.tensors))

ComputeSolutionBlock(dur, layer, scale, de) ==
  Solve(layer, DurationToBytes(dur, scale), LAMBDA ts : <<Descending(ts), Ascending(ts)>>, de)
(* The capacity is the window, the weights are load times; at one bandwidth
   every tensor has the same ratio, so that order is the listed one. *)
ComputeSolution(dur, layer, scale, de) ==
  Solve(layer, (dur * scale) \div ScaleUnit,
        LAMBDA ts : <<AsListed(ts), Ascending(ts), Descending(ts)>>, de)

ComputeOffloadTensorsBlock(stats, scale, de) ==
  [l \in {stats[i].label : i \in 1 .. Len(stats) - 1} |->
     LET i == PositionOf(stats, l) IN ComputeSolutionBlock(stats[i].dur, stats[i + 1], scale, de)]
ComputeOffloadTensors(stats, scale, de) ==
  [l \in {stats[i].label : i \in 1 .. Len(stats) - 1} |->
     LET i == PositionOf(stats, l) IN ComputeSolution(stats[i].dur, stats[i + 1], scale, de)]

-----------------------------------------------------------------------------
(* The cyclic extension: the idle layers at the end of the forward copy one
   layer of the next forward. *)
CollectExistingTensorIds(map) == UNION {{map[l][i].id : i \in DOMAIN map[l]} : l \in DOMAIN map}

IdleFrom(stats, map) ==
  LET busy == {i \in DOMAIN stats : stats[i].label \in DOMAIN map /\ map[stats[i].label] # << >>}
  IN  Max({0} \cup busy) + 1
AccumulatedDuration(stats, map) ==
  SumOver(IdleFrom(stats, map) .. Len(stats), LAMBDA i : stats[i].dur)

(* Layers are tried from the first until one has a tensor that is copied
   already; the most bytes win, the first of equals. *)
FindBestOffloadOpportunity(stats, existing, available, scale, de) ==
  LET Open(i)  == \A t \in ToSet(stats[i].tensors) : t.id \notin existing
      tried    == {i \in DOMAIN stats : \A j \in 1 .. i : Open(j)}
      Found(i) == ComputeSolution(available + SumOver(1 .. i - 1, LAMBDA j : stats[j].dur),
                                  stats[i], scale, de)
      Heaviest(found) ==
        LET most == Max({0} \cup {Bytes(found[i]) : i \in DOMAIN found})
        IN  IF most = 0 THEN << >> ELSE found[Min({i \in DOMAIN found : Bytes(found[i]) = most})]
  IN  Heaviest([i \in tried |-> Found(i)])

GenerateCyclicStrategy(stats, map, scale, de) ==
  LET idle == IdleFrom(stats, map)
      Extended(best) ==
        IF best = << >> THEN map
        ELSE [l \in DOMAIN map \cup {stats[idle].label} |->
                IF l = stats[idle].label THEN best ELSE map[l]]
  IN  IF idle > Len(stats) THEN map
      ELSE Extended(FindBestOffloadOpportunity(stats, CollectExistingTensorIds(map),
                                               AccumulatedDuration(stats, map), scale, de))

-----------------------------------------------------------------------------
(* The scale that a memory budget asks for *)

(* _compute_offload_for_scale, the total *)
ComputeOffloadForScale(stats, scale) ==
  SumOver(2 .. Len(stats), LAMBDA i :
    Min({DurationToBytes(stats[i - 1].dur, scale), Bytes(stats[i].tensors)}))

EstimateRequiredScale(stats, needed) ==
  LET window == SumOver(1 .. Len(stats) - 1, LAMBDA i : stats[i].dur)
  IN  Max({(needed * 3 * ScaleUnit) \div (2 * window), 10 * ScaleUnit})

(* _compute_optimal_scale with _binary_search_optimal_scale.  Its tolerance
   of a MiB is less than the unit in which sizes are counted here. *)
ComputeOptimalScale(stats, budget, scale) ==
  LET Least(needed, high) ==
        IF needed <= 0 THEN scale
        ELSE IF needed > Total(Tail(stats)) THEN high
        ELSE IF ComputeOffloadForScale(stats, scale) >= needed THEN scale
        ELSE Bisect(scale, high, LAMBDA s : ComputeOffloadForScale(stats, s) >= needed)
      For(needed) == Least(needed, Max({100 * scale, EstimateRequiredScale(stats, needed)}))
  IN  For(Total(stats) - budget)

(* _adjust_scale_for_block_overhead and the same loop of KnapsackStrategy:
   ten times the scale grows with the overshoot, by a twentieth at least;
   the plan of the lowest peak is kept. *)
GrowScale(scale, peak, limit) ==
  Max({(scale * peak) \div limit, (scale * 21) \div 20, scale + 1})
AdjustScaleForBlockOverhead(first, stats, scale, limit, PlanAt(_)) ==
  LET Peak(r) == PeakMemory(r.map, r.block, stats)
      Tried(s, grown, plan) ==
        [scale |-> grown, peak |-> Peak(plan),
         best  |-> IF Peak(plan) < Peak(s.best) THEN plan ELSE s.best]
      At(s, grown) == Tried(s, grown, PlanAt(grown))
      Try(s, round) == IF s.peak <= limit THEN s ELSE At(s, GrowScale(s.scale, s.peak, limit))
  IN  FoldLeft(Try, [scale |-> scale, peak |-> Peak(first), best |-> first],
               [r \in 1 .. 10 |-> r]).best

Adjusted(first, stats, start, budget, PlanAt(_)) ==
  IF first.err # "none" \/ first.block = NoBlocks \/ budget = 0 THEN first
  ELSE AdjustScaleForBlockOverhead(first, stats, start, budget, PlanAt)
KnapsackCompute(stats, num_blocks, scale, budget, MapAt(_)) ==
  LET start == IF budget = 0 THEN scale ELSE ComputeOptimalScale(stats, budget, scale)
  IN  IF budget # 0 /\ Len(stats) < 2 THEN Failure("StrategyComputeError")
      ELSE Adjusted(BuildBlockData(MapAt(start), stats, num_blocks), stats, start, budget,
                    LAMBDA s : BuildBlockData(MapAt(s), stats, num_blocks))

KnapsackStrategy(stats, num_blocks, scale, budget, cyclic, de) ==
  KnapsackCompute(stats, num_blocks, scale, budget, LAMBDA s :
    LET map == ComputeOffloadTensors(stats, s, de)
    IN  IF cyclic THEN GenerateCyclicStrategy(stats, map, s, de) ELSE map)
KnapsackBlockStrategy(stats, num_blocks, scale, budget, de) ==
  KnapsackCompute(stats, num_blocks, scale, budget, LAMBDA s :
    ComputeOffloadTensorsBlock(stats, s, de))

(* AdaptiveKnapsackStrategy picks one by the type of the loader. *)
AdaptiveKnapsackStrategy(stats, num_blocks, scale, budget, blockLoader, cyclic, de) ==
  IF blockLoader THEN KnapsackBlockStrategy(stats, num_blocks, scale, budget, de)
  ELSE KnapsackStrategy(stats, num_blocks, scale, budget, cyclic, de)
=============================================================================
