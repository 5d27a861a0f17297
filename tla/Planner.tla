------------------------------ MODULE Planner ------------------------------
(***************************************************************************)
(* From measured layers to a loader: the tensor manager hands what was     *)
(* profiled to a load strategy, trims and rearranges the plan, builds the  *)
(* GPU blocks, and does all of it again when compiled timings arrive       *)
(* (src/flextensor: tensor_manager, gpu_budget, config, strategy.adaptive, *)
(* loaders' block controllers).                                            *)
(*                                                                         *)
(* setup is what the manager was made with.  A layer that was discovered   *)
(* but never timed has duration 0: it is dropped from the statistics, its  *)
(* weights stay on the GPU and the strategies never see them.              *)
(***************************************************************************)
EXTENDS KnapsackStrategies, BudgetFill, GlobalStrategies, TransferRearrange

CONSTANTS Setups,      \* the configurations and models considered
          Available,   \* what the GPU may have free when a plan is made
          MinBudget,   \* MIN_GPU_BUDGET_BYTES
          Retimed      \* compiled durations a replan may bring: label -> time

VARIABLES setup,       \* [kind, loader, model, n, scale, budget, ops, group, cyclic, gap, extra]
          stats,       \* self.stats
          scale,       \* the strategy object's scale
          rearrange,   \* self.rearrange_transfers
          plan,        \* what was loaded last
          phase        \* profiled, loaded, replanned or failed

vars == <<setup, stats, scale, rearrange, plan, phase>>

-----------------------------------------------------------------------------
(* slip: the untimed layers are handed on *)
ComputeLayerStatisticsAll(model) ==
  [i \in DOMAIN model |-> [label |-> i, tensors |-> model[i].tensors, dur |-> model[i].dur]]

(* compute_layer_statistics: an untimed layer is left out *)
ComputeLayerStatistics(model) ==
  SelectSeq([i \in DOMAIN model |-> [label |-> i, tensors |-> model[i].tensors, dur |-> model[i].dur]],
            LAMBDA s : s.dur # 0)

(* compute_strategy_invisible_permanent_gpu_bytes for the block loaders *)
InvisibleBytes(model, layer_stats) ==
  SumOver(DOMAIN model, LAMBDA i : Bytes(model[i].tensors)) - Total(layer_stats)

(* resolve_gpu_budget, then reserve_strategy_invisible_gpu_budget *)
ResolveGpuBudget(budget, available) ==
  IF budget = 0 THEN [err |-> "none", budget |-> 0]
  ELSE IF available < MinBudget THEN [err |-> "RuntimeError", budget |-> 0]
  ELSE [err |-> "none", budget |-> Min({budget, available})]
(* slip: what the strategies do not see is not set aside *)
ReserveNothing(resolved, invisible) == resolved

ReserveInvisible(resolved, invisible) ==
  IF resolved.err # "none" \/ resolved.budget = 0 \/ invisible = 0 THEN resolved
  ELSE IF resolved.budget - invisible < MinBudget THEN [err |-> "RuntimeError", budget |-> 0]
  ELSE [err |-> "none", budget |-> resolved.budget - invisible]

-----------------------------------------------------------------------------
(* tensor_manager_load_strategy.compute for one strategy: every outcome, with
   the peak the strategy claims (0 if it claims none) and the scale it is left
   with.  n is the number of blocks the strategy was built with. *)
AsIs(results, sc) == {[result |-> r, peak |-> 0, scale |-> sc] : r \in results}
Outcomes(kind, s, n, layer_stats, sc, budget) ==
  LET assignment == IF kind \in {"GlobalStrict", "SelectionStrict"} THEN "Strict" ELSE "Optimized"
  IN CASE kind = "AdaptiveKnapsack" ->
            AsIs({AdaptiveKnapsackStrategy(Merged(layer_stats, s.group), n, sc, budget,
                                            s.loader # "strategy", s.cyclic, de) : de \in BOOLEAN}, sc)
       [] kind \in {"GlobalOffload", "GlobalStrict"} ->
            {GlobalOffload(layer_stats, assignment, n, sc, budget)}
       [] kind \in {"Selection", "SelectionStrict"} ->
            AsIs(GlobalTensorSelection(layer_stats, assignment, n, sc, budget), sc)
       [] kind = "BudgetFill" ->
            AsIs(BudgetFillStrategy(layer_stats, assignment, n, sc, budget,
                                     s.kind = "BudgetFill" /\ s.extra), sc)
       [] kind = "Greedy"   -> AsIs({GreedyStrategy(layer_stats, n, sc)}, sc)
       [] kind = "NthLayer" -> AsIs({NthLayerStrategy(layer_stats, n, 2)}, sc)

(* AdaptiveStrategy tries several.  A candidate that raises StrategyComputeError
   is passed over, any other exception ends the computation. *)
BlockCandidates(s, budget) ==
  <<"AdaptiveKnapsack", "GlobalOffload", "GlobalStrict">>
  \o (IF budget = 0 THEN << >> ELSE <<"BudgetFill">>)
  \o (IF s.extra THEN <<"Selection", "SelectionStrict">> ELSE << >>)
NonBlockCandidates == <<"AdaptiveKnapsack">>
Candidates(s, budget) ==
  IF s.kind # "Adaptive" THEN <<s.kind>>
  ELSE IF s.loader = "strategy" THEN NonBlockCandidates ELSE BlockCandidates(s, budget)

(* the least score, the first of equals; "none" of the candidates left is a
   RuntimeError *)
BetterOf(best, r, layer_stats, budget) ==
  IF r.err = "StrategyComputeError" \/ best.err \notin {"none", "RuntimeError"} THEN best
  ELSE IF r.err # "none" \/ best.err = "RuntimeError" THEN r
  ELSE IF ScoreLess(Evaluate(r, layer_stats, budget), Evaluate(best, layer_stats, budget)) THEN r
  ELSE best
Adaptive(candidates, layer_stats, budget) ==
  FoldLeft(LAMBDA bests, cs : {BetterOf(b, c.result, layer_stats, budget) : b \in bests, c \in cs},
           {Failure("RuntimeError")}, candidates)
Settled(s, layer_stats, sc, budget, candidates) ==
  IF s.kind = "Adaptive" THEN AsIs(Adaptive(candidates, layer_stats, budget), sc) ELSE candidates[1]

(* The one candidate for a loader without blocks is built without n_blocks, and
   plans for the default all the same. *)
DefaultBlocks == 4
Compute(s, layer_stats, sc, budget) ==
  LET kinds == Candidates(s, budget)
      n     == IF s.kind = "Adaptive" /\ s.loader = "strategy" THEN DefaultBlocks ELSE s.n
  IN  Settled(s, layer_stats, sc, budget,
              [k \in DOMAIN kinds |-> Outcomes(kinds[k], s, n, layer_stats, sc, budget)])

-----------------------------------------------------------------------------
(* the block controllers: the GPU block sizes, or the exception *)
AllocationBlocks(order, map) ==
  IF \E b \in DOMAIN order : \E l \in ToSet(order[b]) : l \notin DOMAIN map
  THEN [err |-> "KeyError", sizes |-> EmptyMap]
  ELSE [err |-> "none",
        sizes |-> [b \in DOMAIN order |-> Max({Bytes(map[l]) : l \in ToSet(order[b])})]]
RawBlocks(sizes, map, block) ==
  LET copied == {l \in DOMAIN map : map[l] # << >>}
  IN  IF \/ \E l \in DOMAIN block : l \notin copied \/ block[l] \notin DOMAIN sizes
         \/ \E l \in copied : l \notin DOMAIN block
      THEN [err |-> "KeyError", sizes |-> EmptyMap] ELSE [err |-> "none", sizes |-> sizes]

NoPlan == [err |-> "none", map |-> EmptyMap, t2c |-> EmptyMap, block |-> EmptyMap,
           sizes |-> EmptyMap, before |-> EmptyMap, peak |-> 0, moved |-> FALSE]
FailedPlan(err) == [NoPlan EXCEPT !.err = err]

(* _setup_raw_block_loader, _setup_allocation_block_loader: the copies are
   moved, the map and the block orders follow them, and the blocks are made. *)
SetupBlockLoader(s, layer_stats, result, map, moves, peak) ==
  LET data  == result.block
      pos(l) == PositionOf(layer_stats, l)
      label(i) == layer_stats[i].label
      keys == SelectSeq(KeyOrder(result, layer_stats), LAMBDA l : l \in DOMAIN data.t2c)
      Finished(final, t2c, block, built) ==
        IF built.err # "none" THEN FailedPlan(built.err)
        ELSE IF ~Reversible(t2c) THEN FailedPlan("ValueError")
        ELSE [err |-> "none", map |-> final, t2c |-> t2c, block |-> block, sizes |-> built.sizes,
              before |-> data.t2c, peak |-> peak, moved |-> moves]
      Finish(final, t2c, block, order) ==
        Finished(final, t2c, block, IF s.loader = "alloc" THEN AllocationBlocks(order, final)
                                    ELSE RawBlocks(data.sizes, final, block))
      WithBlocks(final, t2c, block) ==
        Finish(final, t2c, block, CreateAllocationOrdered(block, Labels(layer_stats)))
      Rearranged(r) ==
        IF r.err # "none" THEN FailedPlan(r.err)
        ELSE WithBlocks(RemapStrategy(map, [l \in DOMAIN data.t2c |-> label(r.remap[pos(l)])], keys),
                        [l \in {label(i) : i \in DOMAIN r.plan.t2c} |-> label(r.plan.t2c[pos(l)])],
                        [l \in {label(i) : i \in DOMAIN r.plan.block} |-> r.plan.block[pos(l)]])
      ByPosition(f) == [i \in {pos(l) : l \in DOMAIN f} |-> f[label(i)]]
      Positions(f) == [i \in DOMAIN f |-> pos(f[i])]
  IN  IF ~moves THEN Finish(map, data.t2c, data.block, data.order)
      ELSE Rearranged(RearrangeTransfers([t2c   |-> Positions(ByPosition(data.t2c)),
                                          block |-> ByPosition(data.block)],
                                         Positions(keys), Len(layer_stats), s.gap))

(* _compute_strategy_and_build_loader: what may come of it.  Rearranging is
   switched on for good by the first plan that leaves gaps in a model that
   has layers without weights. *)
Loaded(s, layer_stats, c, map, moves) ==
  IF s.loader = "strategy" THEN [NoPlan EXCEPT !.map = map]
  ELSE IF c.result.block = NoBlocks THEN FailedPlan("NoBlockData")
  ELSE SetupBlockLoader(s, layer_stats, c.result, map, moves, c.peak)
Build(s, layer_stats, c, moves) ==
  LET map == RemoveLayersCompound(c.result.map, layer_stats, s.ops)
      rearranged == moves \/ (HasPermanentGaps(layer_stats) /\ HasTransferGaps(map, layer_stats))
  IN  IF c.result.err # "none"
      THEN [plan |-> FailedPlan(c.result.err), scale |-> c.scale, moves |-> moves]
      ELSE [plan  |-> Loaded(s, layer_stats, c, map, rearranged),
            scale |-> c.scale, moves |-> rearranged]
BuildWithin(reserved, s, layer_stats, sc, moves) ==
  IF reserved.err # "none" THEN {[plan |-> FailedPlan(reserved.err), scale |-> sc, moves |-> moves]}
  ELSE {Build(s, layer_stats, c, moves) : c \in Compute(s, layer_stats, sc, reserved.budget)}
Builds(s, layer_stats, sc, moves, available) ==
  BuildWithin(ReserveInvisible(ResolveGpuBudget(s.budget, available), InvisibleBytes(s.model, layer_stats)),
              s, layer_stats, sc, moves)

Init ==
  /\ setup \in Setups
  /\ stats = << >> /\ scale = setup.scale /\ rearrange = setup.moves
  /\ plan = NoPlan /\ phase = "profiled"

Take(new_stats, b, done) ==
  /\ plan' = b.plan /\ scale' = b.scale /\ rearrange' = b.moves
  /\ stats' = IF phase = "loaded" /\ b.plan.err # "none" THEN stats ELSE new_stats
  /\ phase' = IF b.plan.err = "none" THEN done ELSE "failed"
  /\ UNCHANGED setup

PrepareInferMode(available) ==
  /\ phase = "profiled"
  /\ LET new == ComputeLayerStatistics(setup.model)
     IN  \E b \in Builds(setup, new, scale, rearrange, available) : Take(new, b, "loaded")

(* replan_from_compiled_durations: only the durations change, and nothing is
   done when no label is one of the plan's *)
RewriteDurations(layer_stats, compiled) ==
  [i \in DOMAIN layer_stats |->
     IF layer_stats[i].label \in DOMAIN compiled /\ compiled[layer_stats[i].label] > 0
     THEN [layer_stats[i] EXCEPT !.dur = compiled[layer_stats[i].label]] ELSE layer_stats[i]]
Replan(compiled, available) ==
  /\ phase = "loaded" /\ setup.loader # "strategy"
  /\ \E l \in DOMAIN compiled \cap ToSet(Labels(stats)) : compiled[l] > 0
  /\ LET new == RewriteDurations(stats, compiled)
     IN  \E b \in Builds(setup, new, scale, rearrange, available) : Take(new, b, "replanned")

Next ==
  \/ \E available \in Available : PrepareInferMode(available)
  \/ \E compiled \in Retimed, available \in Available : Replan(compiled, available)

Spec == Init /\ [][Next]_vars

-----------------------------------------------------------------------------
(* Properties.  Running: a block loader was built from a plan. *)
Running == phase \in {"loaded", "replanned"} /\ setup.loader # "strategy"

TypeOK ==
  /\ phase \in {"profiled", "loaded", "replanned", "failed"}
  /\ rearrange \in BOOLEAN /\ scale \in Nat \ {0}
  /\ plan.err \in {"none", "KeyError", "NoBlockData", "RuntimeError", "StrategyComputeError", "ValueError"}
  /\ \A i \in DOMAIN stats : stats[i].dur \in Nat \ {0}
  /\ \A l \in DOMAIN plan.t2c : {l, plan.t2c[l]} \subseteq ToSet(Labels(stats))

(* the positions in which a copy occupies its block: from the layer that
   issues it to the last layer whose weights are in it *)
Occupied(l) ==
  LET from == PositionOf(stats, l)
      used == {i \in DOMAIN stats : ToSet(plan.map[l]) \cap ToSet(stats[i].tensors) # {}}
      last == Max(used)
  IN  IF Min(used) <= from THEN (from .. Len(stats)) \cup (1 .. last) ELSE from .. last

(* No copy is issued into a block while a layer still needs what the block
   holds. *)
NoCopyOverwrites ==
  Running => \A l, k \in DOMAIN plan.t2c :
    l # k /\ plan.block[l] = plan.block[k] => Occupied(l) \cap Occupied(k) = {}

(* GlobalTensorSelectionStrategy assigns blocks to layers, not to copies: a
   layer it leaves out altogether breaks the alternation.  (Run
   planner_selection.) *)
LayerLeftOut ==
  /\ setup.kind = "Selection"
  /\ \E i \in DOMAIN stats : Offloadable(stats, i) # << >> /\ stats[i].label \notin Range(plan.t2c)

(* Whatever strategy planned, whatever was rearranged and however often it
   was replanned, the weights of a layer stay in their block until the layer
   has used them. *)
CopiesDoNotOverwrite == LayerLeftOut \/ NoCopyOverwrites

(* The strategy map, the transfer map and the block map went through different
   functions and still speak of the same copies: each has a block that is
   large enough, each is for the layer that owns its weights (the first of a
   group), and no weight is copied twice. *)
MapsAgree ==
  Running =>
    /\ DOMAIN plan.t2c = DOMAIN plan.block
    /\ DOMAIN plan.t2c = {l \in DOMAIN plan.map : plan.map[l] # << >>}
    /\ \A l \in DOMAIN plan.t2c :
         /\ Bytes(plan.map[l]) <= plan.sizes[plan.block[l]]
         /\ LET for == PositionOf(stats, plan.t2c[l])
            IN  \E i \in for .. Min({for + setup.group - 1, Len(stats)}) :
                  plan.map[l][1] \in ToSet(stats[i].tensors)
    /\ \A l, k \in DOMAIN plan.t2c : l # k => ToSet(plan.map[l]) \cap ToSet(plan.map[k]) = {}

(* what the loaded plan keeps on the GPU *)
LoadedBytes ==
  SumOver(DOMAIN plan.sizes, LAMBDA b : plan.sizes[b]) + Total(stats) - Offloaded(plan.map)

(* A plan made for a budget keeps to it, all told, whenever taking the ranked
   tensors one after the other would: neither what the strategies do not see,
   nor the search over two blocks, nor the optimiser, nor the choice among the
   candidates, nor the rearrangement loses a plan that fits. *)
BudgetHonoured ==
  Running /\ setup.kind \in {"Adaptive", "BudgetFill"} /\ setup.budget # 0 =>
    LET cs   == RankCandidates(stats, setup.scale)
        left == setup.budget - InvisibleBytes(setup.model, stats)
        Fits(k) == PeakOf(ResultForSelection(stats, Prefix(cs, k), "Optimized", setup.n), stats) <= left
    IN  (\E k \in 0 .. Len(cs) : Fits(k)) => LoadedBytes <= left

(* The peak by which GlobalOffloadStrategy accepts a scale is the memory its
   plan takes (or more, if the plan copies nothing and a block stays unused),
   provided that the first layer has a weight to copy: its account takes the
   first layer with something to copy for the first layer. *)
ClaimedPeakIsReal ==
  Running /\ plan.peak # 0 /\ Large(stats[1].tensors) # << >> =>
    /\ plan.peak >= LoadedBytes
    /\ DOMAIN plan.t2c # {} => plan.peak = LoadedBytes

(* Rearranging gives every streamed layer at least the time it had, and a plan
   that alternates the blocks properly is not refused for it. *)
TimeToCopy(t2c, l) == Distance(PositionOf(stats, l), PositionOf(stats, t2c[l]), Len(stats))
RearrangingHelps ==
  /\ plan.moved => /\ Range(plan.t2c) = Range(plan.before)
                   /\ \A l \in DOMAIN plan.t2c, k \in DOMAIN plan.before :
                        plan.t2c[l] = plan.before[k] => TimeToCopy(plan.t2c, l) >= TimeToCopy(plan.before, k)
  /\ setup.kind # "Selection" /\ ~(setup.kind = "Adaptive" /\ setup.extra) => plan.err # "ValueError"
=============================================================================
