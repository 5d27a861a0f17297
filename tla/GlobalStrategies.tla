-------------------------- MODULE GlobalStrategies --------------------------
(***************************************************************************)
(* GlobalOffloadStrategy and GlobalTensorSelectionStrategy                 *)
(* (src/flextensor/strategy/global_strategy.py, transfer_window.py).  Both *)
(* plan a pipeline over the layers that have something to copy: each such  *)
(* layer copies for the next one.                                          *)
(***************************************************************************)
EXTENDS BlockAssignment

(* _collect_layer_tensors: what fits the layer before, largest first; the
   first layer keeps everything, and layers with nothing are left out. *)
CollectLayerTensors(stats, scale) ==
  LET Kept(i) ==
        LET ts == Large(stats[i].tensors)
        IN  IF i = 1 THEN ts
            ELSE Chosen(ts, GreedyPack(ts, DurationToBytes(stats[i - 1].dur, scale), Descending(ts)))
  IN  SelectSeq([i \in DOMAIN stats |-> [label |-> stats[i].label, tensors |-> Kept(i)]],
                LAMBDA d : d.tensors # << >>)

(* slip: the first layer is counted as copied *)
NonOffloadedMemoryAll(stats, data) == Total(stats) - SumOver(DOMAIN data, LAMBDA i : Bytes(data[i].tensors))

(* _calculate_non_offloaded_memory counts as copied what is collected, save
   for the first layer. *)
NonOffloadedMemory(stats, data) ==
  Total(stats) - SumOver({i \in DOMAIN data : data[i].label # stats[1].label},
                         LAMBDA i : Bytes(data[i].tensors))

(* _compute_with_assignment_strategy, with the peak it keeps in self.  A
   single collected layer gets a block that nothing is copied to. *)
Planned(stats, data, map, block) ==
  [result |-> Result(map, block), peak |-> BlockBytes(block) + NonOffloadedMemory(stats, data)]
ComputeWithAssignment(stats, data, strategy, num_blocks) ==
  LET slots == {data[i].label : i \in 1 .. Len(data) - 1}
      map   == [l \in slots |-> data[1 + CHOOSE i \in DOMAIN data : data[i].label = l].tensors]
  IN  Planned(stats, data, map,
              IF Len(data) > 1 THEN AssignedBlocks(stats, map, strategy, num_blocks)
              ELSE [BlockData(stats, EmptyMap, EmptyMap) EXCEPT !.sizes = 0 :> Bytes(data[1].tensors)])

(* compute at one scale *)
GlobalOffloadAt(stats, strategy, num_blocks, scale) ==
  LET data == CollectLayerTensors(stats, scale)
  IN  IF data = << >> THEN [result |-> Result(EmptyMap, NoBlocks), peak |-> 0]
      ELSE ComputeWithAssignment(stats, data, strategy, num_blocks)

(* _adjust_scale_for_memory: a scale at which the peak is within the budget,
   by bisection, or the highest one tried. *)
AdjustScaleForMemory(stats, strategy, num_blocks, scale, budget) ==
  LET high == Max({(2 * scale * Total(stats)) \div budget, 100 * scale})
      Fits(at) == at.result.block # NoBlocks /\ at.peak <= budget
  IN  Bisect(scale, high, LAMBDA s : Fits(GlobalOffloadAt(stats, strategy, num_blocks, s)))

(* GlobalOffloadStrategy.compute; the adjusted scale stays in the object. *)
AtScale(s, r) == [result |-> r.result, peak |-> r.peak, scale |-> s]
Rescaled(stats, strategy, num_blocks, s) == AtScale(s, GlobalOffloadAt(stats, strategy, num_blocks, s))
Accepted(first, stats, strategy, num_blocks, scale, budget) ==
  IF budget = 0 \/ first.result.block = NoBlocks \/ first.peak <= budget THEN AtScale(scale, first)
  ELSE Rescaled(stats, strategy, num_blocks,
                AdjustScaleForMemory(stats, strategy, num_blocks, scale, budget))
GlobalOffload(stats, strategy, num_blocks, scale, budget) ==
  Accepted(GlobalOffloadAt(stats, strategy, num_blocks, scale), stats, strategy, num_blocks, scale, budget)

-----------------------------------------------------------------------------
(* GlobalTensorSelectionStrategy.  sizes[i] is what is copied for layer i;
   sel is the set of the positions <<i, k>> of the chosen tensors. *)

(* SingleLayerWindow, GapAwareWindow: the time the copy for layer i has *)
SingleLayerWindow(stats, sizes, i) == IF i = 1 THEN 0 ELSE stats[i - 1].dur
GapAwareWindow(stats, sizes, i) ==
  LET from == Max({1} \cup {k \in 1 .. i - 1 : sizes[k] > 0})
  IN  SumOver(from .. i - 1, LAMBDA j : stats[j].dur)

(* the classification at the head of compute *)
Offloadable(stats, i) == IF i = 1 THEN << >> ELSE Large(stats[i].tensors)
StaticSizes(stats) == [i \in DOMAIN stats |-> Bytes(Offloadable(stats, i))]
StaticGaps(stats) == \E i \in 2 .. Len(stats) : StaticSizes(stats)[i] = 0
Window(stats, sizes, i) ==
  IF StaticGaps(stats) THEN GapAwareWindow(stats, sizes, i) ELSE SingleLayerWindow(stats, sizes, i)
Fixed(stats, scale) ==
  {i \in DOMAIN stats : /\ Offloadable(stats, i) # << >>
                        /\ BytesToDuration(StaticSizes(stats)[i]) * ScaleUnit
                             <= Window(stats, StaticSizes(stats), i) * scale}
Variable(stats, scale) ==
  UNION {{<<i, k>> : k \in DOMAIN Offloadable(stats, i)} : i \in DOMAIN stats \ Fixed(stats, scale)}
SizeOf(stats, v) == Offloadable(stats, v[1])[v[2]].size

SelectedSizes(stats, scale, sel) ==
  [i \in DOMAIN stats |->
     IF i \in Fixed(stats, scale) THEN StaticSizes(stats)[i]
     ELSE SumOver({v \in sel : v[1] = i}, LAMBDA v : SizeOf(stats, v))]

(* the blocks as the objective sees them: slot i copies for the next layer
   that has anything to copy at all *)
NextRealTransfer(stats, i) ==
  LET real == {j \in i + 1 .. Len(stats) : StaticSizes(stats)[j] > 0}
  IN  IF ~StaticGaps(stats) THEN i + 1
      ELSE IF real = {} THEN Len(stats) + 1 ELSE Min(real)
SlotBlocks(stats, strategy, num_blocks) ==
  Assign(strategy, [i \in 1 .. Len(stats) - 1 |-> Bytes(stats[i + 1].tensors)], num_blocks)
SlotMemory(stats, slots, sizes, num_blocks) ==
  SumOver(0 .. num_blocks - 1, LAMBDA b :
    Max({0} \cup {sizes[j] : j \in {NextRealTransfer(stats, i) :
                                      i \in {i \in DOMAIN slots : slots[i] = b}} \cap DOMAIN stats}))

(* what stays, by the objective's account *)
KeptMemory(stats, scale, sel) ==
  Total(stats) - SumOver(Fixed(stats, scale), LAMBDA i : StaticSizes(stats)[i])
               - SumOver(sel, LAMBDA v : SizeOf(stats, v))

(* objective, to be minimised: <<tier, num, den>>.  A plan beyond the budget
   or its windows is of tier 1, measured by the excess; the others by how much
   memory is used and copied at how low a scale. *)
Excess(ratio, at) == <<1, ratio[1] * ScaleUnit, ratio[2] * at>>
Value(peak, loads, all, off, budget, at) ==
  LET limit == IF budget = 0 THEN peak ELSE budget
  IN  IF budget # 0 /\ peak > budget THEN <<1, peak, budget>>
      ELSE IF \E q \in loads : q[1] * ScaleUnit > q[2] * at
           THEN Excess(FoldSet(LAMBDA q, r : IF Below(r, q) THEN q ELSE r, <<1, 1>>, loads), at)
      ELSE <<0, -(2 * peak * all + limit * off), 2 * limit * all * at>>
(* what is copied and the time for it, layer by layer *)
Loads(stats, sizes) == {<<BytesToDuration(sizes[i]), Window(stats, sizes, i)>> :
                          i \in {i \in DOMAIN sizes : sizes[i] > 0}}
Objective(stats, slots, num_blocks, scale, budget, sel, at) ==
  LET sizes == SelectedSizes(stats, scale, sel)
  IN  Value(SlotMemory(stats, slots, sizes, num_blocks) + KeptMemory(stats, scale, sel),
            Loads(stats, sizes), Total(stats), SumOver(sel, LAMBDA v : SizeOf(stats, v)), budget, at)
NoWorse(p, q) == p[1] < q[1] \/ (p[1] = q[1] /\ p[2] * q[3] <= q[2] * p[3])

(* _peak_for_solution leaves the large tensors of the first layer out *)
PeakForSolution(stats, slots, num_blocks, scale, sel) ==
  SlotMemory(stats, slots, SelectedSizes(stats, scale, sel), num_blocks)
    + KeptMemory(stats, scale, sel) - Bytes(Large(stats[1].tensors))

(* _build_feasible_at_scale, generate_conservative_solution: per layer, what
   fits the static window at a scale, smallest or largest first *)
PackedSelection(stats, scale, at, order(_)) ==
  UNION {LET ts  == Offloadable(stats, i)
             cap == DurationToBytes(Window(stats, StaticSizes(stats), i), at)
         IN  {<<i, k>> : k \in GreedyPack(ts, cap, order(ts))} :
         i \in DOMAIN stats \ Fixed(stats, scale)}
FeasibleScale(stats, slots, num_blocks, scale, ub, budget) ==
  LET Within(s) == PeakForSolution(stats, slots, num_blocks, scale,
                                   PackedSelection(stats, scale, s, Ascending)) <= budget
      high  == Min({ub, 20 * scale})
      Unless(found) == IF found = high THEN scale ELSE found
  IN  IF budget = 0 \/ Within(scale) THEN scale ELSE Unless(Bisect(scale, high, Within))

(* differential evolution answers with nothing worse than its seeds, at any
   scale between the bounds; the scale itself is only reported. *)
Seeds(stats, scale, ub, feasible) ==
  {<<PackedSelection(stats, scale, feasible, Ascending), feasible>>,
   <<PackedSelection(stats, scale, ub, Descending), ub>>,
   <<Variable(stats, scale), ub>>}
AtBest(stats, slots, num_blocks, scale, ub, budget, sel) ==
  Objective(stats, slots, num_blocks, scale, budget, sel, Bisect(scale - 1, ub, LAMBDA s :
    Objective(stats, slots, num_blocks, scale, budget, sel, s)[1] = 0))
NoWorseThan(seeds, stats, slots, num_blocks, scale, ub, budget) ==
  {sel \in SUBSET Variable(stats, scale) :
     \A q \in seeds : NoWorse(AtBest(stats, slots, num_blocks, scale, ub, budget, sel), q)}
Selections(stats, slots, num_blocks, scale, ub, budget) ==
  NoWorseThan({Objective(stats, slots, num_blocks, scale, budget, s[1], s[2]) :
                 s \in Seeds(stats, scale, ub, FeasibleScale(stats, slots, num_blocks, scale, ub, budget))},
              stats, slots, num_blocks, scale, ub, budget)

(* _build_pipeline_strategy_map: the first layer copies for the first that is
   offloaded, each offloaded layer for the next. *)
PipelineStrategyMap(stats, tensors) ==
  LET order == SelectSeq([i \in DOMAIN stats |-> i], LAMBDA i : tensors[i] # << >>)
      From(j) == IF j = 1 THEN 1 ELSE order[j - 1]
  IN  [l \in {stats[From(j)].label : j \in DOMAIN order} |->
         tensors[order[CHOOSE j \in DOMAIN order : stats[From(j)].label = l]]]

SelectedMap(stats, scale, sel) ==
  LET own(i) == {k \in DOMAIN Offloadable(stats, i) : <<i, k>> \in sel}
  IN  PipelineStrategyMap(stats, [i \in DOMAIN stats |->
        IF i \in Fixed(stats, scale) THEN Offloadable(stats, i) ELSE Chosen(Offloadable(stats, i), own(i))])

(* GlobalTensorSelectionStrategy.compute: every answer the optimiser can give *)
AllFixed(stats, strategy, num_blocks, map) == Result(map, AssignedBlocks(stats, map, strategy, num_blocks))
InSlots(stats, slots, map) ==
  Result(map, BlockData(stats, map, [l \in DOMAIN map |-> slots[PositionOf(stats, l)]]))
AllSelected(stats, slots, num_blocks, scale, ub, budget) ==
  {InSlots(stats, slots, SelectedMap(stats, scale, sel)) :
     sel \in Selections(stats, slots, num_blocks, scale, ub, budget)}
GlobalTensorSelection(stats, strategy, num_blocks, scale, budget) ==
  LET ub == IF budget = 0 THEN scale ELSE 100 * ScaleUnit
  IN  IF \A i \in DOMAIN stats : Offloadable(stats, i) = << >> THEN {Result(EmptyMap, NoBlocks)}
      ELSE IF Variable(stats, scale) = {}
           THEN {AllFixed(stats, strategy, num_blocks, SelectedMap(stats, scale, {}))}
      ELSE AllSelected(stats, SlotBlocks(stats, strategy, num_blocks), num_blocks, scale, ub, budget)
=============================================================================
