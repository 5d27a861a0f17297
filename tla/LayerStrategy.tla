--------------------------- MODULE LayerStrategy ---------------------------
(***************************************************************************)
(* What every load strategy is given and what it returns, the planner      *)
(* of the GPU blocks, the score of a plan and the two strategies that need *)
(* nothing else (src/flextensor/strategy: utils, protocol, evaluation,     *)
(* simple; memory_block_planner; memory_transfer_interpolator).            *)
(*                                                                         *)
(* layer_stats is a sequence of [label, tensors, dur]; a tensor is         *)
(* [id, size], its id <<layer, position>>.  A strategy_map takes the label *)
(* of the layer that copies to the sequence of tensors it copies.          *)
(* A result is [err, map, order, block]: err is "none" or the exception,   *)
(* order the keys of map as they were inserted (empty: in layer order),    *)
(* block is NoBlocks or the BlockStrategyData.  Sizes and times are small  *)
(* integers: one byte is copied in one unit of time, which is what the     *)
(* interpolator answers for a benchmark of constant bandwidth.             *)
(***************************************************************************)
EXTENDS Integers, Sequences, SequencesExt, FiniteSetsExt, Functions

CONSTANTS Threshold,    \* threshold_mb: a tensor of at most this size stays
          ScaleUnit     \* a scale is an integer; ScaleUnit stands for 1.0

ASSUME StrategyAssumption == Threshold \in Nat /\ ScaleUnit \in Nat \ {0}

SumOver(S, f(_)) == MapThenSumSet(f, S)
Bytes(ts) == SumOver(DOMAIN ts, LAMBDA i : ts[i].size)
Total(stats) == SumOver(DOMAIN stats, LAMBDA i : Bytes(stats[i].tensors))
Large(ts) == SelectSeq(ts, LAMBDA t : t.size > Threshold)
Labels(stats) == [i \in DOMAIN stats |-> stats[i].label]
PositionOf(stats, label) == CHOOSE i \in DOMAIN stats : stats[i].label = label

(* bytes_to_duration and duration_to_bytes; both raise at zero, which no
   measured duration and no tensor above the threshold is. *)
BytesToDuration(bytes) == bytes
DurationToBytes(dur, scale) == (dur * scale) \div ScaleUnit

(* Bisection on a scale: the least scale above lo that is accepted, if the
   answers are monotone, and hi if none is.  The code's rounds stop at a
   width of a thousandth; here the width is one unit. *)
BisectRounds == 1 .. 14
Bisect(lo, hi, Accepts(_)) ==
  LET Halve(s, round) ==
        LET mid == (s[1] + s[2]) \div 2
        IN  IF s[2] - s[1] <= 1 THEN s ELSE IF Accepts(mid) THEN <<s[1], mid>> ELSE <<mid, s[2]>>
  IN  FoldLeft(Halve, <<lo, hi>>, [r \in BisectRounds |-> r])[2]

NoBlocks == [none |-> TRUE]
EmptyMap == << >>
Result(map, block) == [err |-> "none", map |-> map, order |-> << >>, block |-> block]
Failure(err) == [Result(EmptyMap, NoBlocks) EXCEPT !.err = err]
KeyOrder(result, stats) ==
  IF result.order # << >> THEN result.order
  ELSE SelectSeq(Labels(stats), LAMBDA l : l \in DOMAIN result.map)

Offloaded(map) == SumOver(DOMAIN map, LAMBDA l : Bytes(map[l]))
BlockBytes(block) ==
  IF block = NoBlocks THEN 0 ELSE SumOver(DOMAIN block.sizes, LAMBDA b : block.sizes[b])

(* _compute_peak_memory, _peak_memory and _estimate_peak_gpu_block *)
PeakMemory(map, block, stats) == BlockBytes(block) + Total(stats) - Offloaded(map)

(* compute_label_to_size_map with _filter_zero_sizes_layers *)
LabelToSize(stats, map) ==
  [l \in {l \in DOMAIN map : Bytes(map[l]) > 0} |-> Bytes(map[l])]

(* the layer of the first tensor of each entry stands for the entry *)
TransferToCompute(stats, map) ==
  [l \in {l \in DOMAIN map : Len(map[l]) > 0} |->
     CHOOSE c \in ToSet(Labels(stats)) :
       map[l][1] \in ToSet(stats[PositionOf(stats, c)].tensors)]

(* reverse_transfer_to_compute_map raises on a layer that is copied twice. *)
Reversible(t2c) == IsInjective(t2c)

-----------------------------------------------------------------------------
(* MemoryBlockPlanner: two layers whose copies follow one another may not
   share a block.  Layers are named by their place among the copying ones. *)
Adjacent(i, j) == i - j \in {-1, 1}

(* find_minimum_blocks_sequential: the least colour no coloured neighbour has *)
MinimumBlocks(n) ==
  LET colour[i \in 0 .. n] == IF i > 1 /\ colour[i - 1] = 0 THEN 1 ELSE 0
  IN  IF n = 0 THEN 0 ELSE Max(Range(colour)) + 1

(* slip: the emptiest block, neighbours or not *)
PlaceInEmptiest(blocks, i) ==
  LET best == CHOOSE b \in DOMAIN blocks : \A c \in DOMAIN blocks :
                \/ Len(blocks[b]) > Len(blocks[c])
                \/ Len(blocks[b]) = Len(blocks[c]) /\ b <= c
  IN  [blocks EXCEPT ![best] = Append(@, i)]

(* the block with the fewest layers among those that hold no neighbour *)
PlaceInBlock(blocks, i) ==
  LET free == {b \in DOMAIN blocks : \A j \in ToSet(blocks[b]) : ~Adjacent(i, j)}
      best == CHOOSE b \in free : \A c \in free :
                \/ Len(blocks[b]) < Len(blocks[c])
                \/ Len(blocks[b]) = Len(blocks[c]) /\ b <= c
  IN  [blocks EXCEPT ![best] = Append(@, i)]

OptimizeBlockDistribution(n, num_blocks) ==
  FoldLeft(PlaceInBlock, [b \in 0 .. num_blocks - 1 |-> << >>], [i \in 1 .. n |-> i])

(* BlockStrategyData of a map whose copies go to the blocks blockOf says: in
   a block they are in the order of their layers. *)
BlockData(stats, map, blockOf) ==
  LET In(b) == {l \in DOMAIN blockOf : blockOf[l] = b}
  IN  [size  |-> LabelToSize(stats, map),
       order |-> [b \in Range(blockOf) |-> SelectSeq(Labels(stats), LAMBDA l : l \in In(b))],
       sizes |-> [b \in Range(blockOf) |-> Max({Bytes(map[l]) : l \in In(b)})],
       block |-> blockOf,
       t2c   |-> TransferToCompute(stats, map)]

(* strategy.utils._build_block_data with _prepare_block_strategy: labels are
   those that copy anything *)
DistributedBlocks(map, stats, labels, num_blocks) ==
  LET Placed(blocks) ==
        [l \in ToSet(labels) |->
           CHOOSE b \in DOMAIN blocks : \E i \in ToSet(blocks[b]) : labels[i] = l]
  IN  IF num_blocks < MinimumBlocks(Len(labels)) THEN Failure("ValueError")
      ELSE Result(map, BlockData(stats, map,
                         Placed(OptimizeBlockDistribution(Len(labels), num_blocks))))
BuildBlockData(map, stats, num_blocks) ==
  IF num_blocks <= 0 THEN Result(map, NoBlocks)
  ELSE DistributedBlocks(map, stats,
         SelectSeq(Labels(stats), LAMBDA l : l \in DOMAIN LabelToSize(stats, map)), num_blocks)

(* strategy_has_transfer_gaps *)
HasTransferGaps(map, stats) ==
  /\ Len(stats) > 1 /\ map # EmptyMap
  /\ Cardinality({l \in DOMAIN map : map[l] # << >>}) < Len(stats) - 1
HasPermanentGaps(stats) == \E i \in 2 .. Len(stats) : stats[i].tensors = << >>

-----------------------------------------------------------------------------
(* _greedy_pack, _greedy_knapsack: the positions taken, in the given order *)
GreedyPack(ts, capacity, order) ==
  LET Take(s, i) == IF ts[i].size <= s.left
                    THEN [taken |-> s.taken \cup {i}, left |-> s.left - ts[i].size]
                    ELSE s
  IN  FoldLeft(Take, [taken |-> {}, left |-> capacity], order).taken

AsListed(ts)   == [i \in DOMAIN ts |-> i]
Descending(ts) == SortSeq(AsListed(ts), LAMBDA i, j : ts[i].size > ts[j].size \/ (ts[i].size = ts[j].size /\ i < j))
Ascending(ts)  == SortSeq(AsListed(ts), LAMBDA i, j : ts[i].size < ts[j].size \/ (ts[i].size = ts[j].size /\ i < j))

Weight(ts, taken) == SumOver(taken, LAMBDA i : ts[i].size)
Chosen(ts, taken) ==
  LET kept == SelectSeq(AsListed(ts), LAMBDA i : i \in taken)
  IN  [k \in DOMAIN kept |-> ts[kept[k]]]

-----------------------------------------------------------------------------
(* evaluation.py *)

(* what the copies exceed their windows by, summed over the forward *)
Overhead(map, stats) ==
  LET t2c == TransferToCompute(stats, map)
      Late(t) ==
        LET window == SumOver(PositionOf(stats, t) .. PositionOf(stats, t2c[t]) - 1,
                              LAMBDA j : stats[j].dur)
        IN  Max({0, BytesToDuration(Bytes(map[t])) - window})
  IN  SumOver(DOMAIN t2c, Late)

(* _count_consecutive_violations: neighbours among the layers that copy *)
Violations(map, block, stats) ==
  LET copying == SelectSeq(Labels(stats), LAMBDA l :
                   block # NoBlocks /\ l \in DOMAIN block.block /\ l \in DOMAIN map /\ map[l] # << >>)
  IN  Cardinality({i \in 1 .. Len(copying) - 1 :
                     block.block[copying[i]] = block.block[copying[i + 1]]})

Evaluate(result, stats, budget) ==
  LET peak == PeakMemory(result.map, result.block, stats)
      bad  == Violations(result.map, result.block, stats)
  IN  [peak |-> peak, overhead |-> Overhead(result.map, stats),
       valid |-> bad = 0 /\ (budget = 0 \/ peak <= budget)]

(* StrategyScore.__lt__ *)
ScoreLess(s, r) ==
  IF s.valid # r.valid THEN s.valid
  ELSE IF ~s.valid \/ s.overhead = r.overhead THEN s.peak < r.peak
  ELSE s.overhead < r.overhead

-----------------------------------------------------------------------------
(* simple.py.  upload is the layer that will issue the next copy, time what
   has been computed since it started; the next layer is copied once the
   strategy says so. *)
Uploads(stats, due(_, _)) ==
  LET Step(s, layer) ==
        LET copy == due(s, layer)
        IN  [map    |-> IF copy THEN [l \in DOMAIN s.map \cup {s.upload} |->
                                        IF l = s.upload THEN Large(layer.tensors) ELSE s.map[l]]
                                ELSE s.map,
             upload |-> IF copy THEN layer.label ELSE s.upload,
             time   |-> (IF copy THEN 0 ELSE s.time) + layer.dur,
             count  |-> (IF copy THEN 0 ELSE s.count) + 1]
  IN  FoldLeft(Step, [map |-> EmptyMap, upload |-> stats[1].label, time |-> 0, count |-> 0], stats).map

GreedyMap(stats, scale) ==
  Uploads(stats, LAMBDA s, layer :
    BytesToDuration(Bytes(Large(layer.tensors))) * ScaleUnit < s.time * scale)
NthLayerMap(stats, nth) == Uploads(stats, LAMBDA s, layer : s.count = nth)

GreedyStrategy(stats, num_blocks, scale) ==
  IF stats = << >> THEN Result(EmptyMap, NoBlocks)
  ELSE BuildBlockData(GreedyMap(stats, scale), stats, num_blocks)
NthLayerStrategy(stats, num_blocks, nth) ==
  IF stats = << >> THEN Result(EmptyMap, NoBlocks)
  ELSE BuildBlockData(NthLayerMap(stats, nth), stats, num_blocks)
=============================================================================
