------------------------- MODULE TransferRearrange -------------------------
(***************************************************************************)
(* What is done to a plan after a strategy has made it: entries removed by *)
(* configuration, copies moved to earlier layers, keys and blocks renamed  *)
(* accordingly (src/flextensor/strategy_operations.py).                    *)
(*                                                                         *)
(* A removal operation is [type, n, offset, step, desc, values].  The      *)
(* moves are made on a plan of TransferPlan: t2c and block over positions. *)
(***************************************************************************)
EXTENDS LayerStrategy

Plan(n) == INSTANCE TransferPlan WITH NLayers <- n, Blocks <- {}

-----------------------------------------------------------------------------
(* get_layers_by_*: labels to remove.  Positions in the code are from 0. *)
At(stats, positions) == {stats[i].label : i \in positions \cap DOMAIN stats}
GetLayersByPosition(stats, position) == At(stats, {position + 1})
GetLayersByNames(names) == names
GetLayersByIndices(stats, indices) == At(stats, {i + 1 : i \in indices})
GetLayersByEveryNth(stats, step, offset) ==
  At(stats, {i \in DOMAIN stats : i - 1 >= offset /\ (i - 1 - offset) % step = 0})
GetLayersByRange(stats, count, offset) == At(stats, offset + 1 .. offset + count)
GetLayersByFirstN(stats, count) == At(stats, 1 .. count)
GetLayersByLastN(stats, count) == At(stats, Len(stats) - count + 1 .. Len(stats))

(* The count entries of the map that score highest (lowest if ~most), the
   earlier of equals. *)
Foremost(map, stats, count, most, score(_)) ==
  LET keys == {i \in DOMAIN stats : stats[i].label \in DOMAIN map}
      Ahead(i, j) == \/ IF most THEN score(i) > score(j) ELSE score(i) < score(j)
                     \/ score(i) = score(j) /\ i < j
  IN  At(stats, {j \in keys : Cardinality({i \in keys : Ahead(i, j)}) < count})
GetLayersByTensorCount(map, stats, count, most) ==
  Foremost(map, stats, count, most, LAMBDA i : Len(stats[i].tensors))
GetLayersByDuration(map, stats, count, most) ==
  Foremost(map, stats, count, most, LAMBDA i : stats[i].dur)
GetLayersByMemorySize(map, stats, count, most) ==
  Foremost(map, stats, count, most, LAMBDA i : Bytes(stats[i].tensors))

Removal(map, stats, op) ==
  CASE op.type = "single"      -> GetLayersByPosition(stats, op.n)
    [] op.type = "names"       -> GetLayersByNames(op.values)
    [] op.type = "indices"     -> GetLayersByIndices(stats, op.values)
    [] op.type = "every_nth"   -> GetLayersByEveryNth(stats, op.step, op.offset)
    [] op.type = "range"       -> GetLayersByRange(stats, op.n, op.offset)
    [] op.type = "first_n"     -> GetLayersByFirstN(stats, op.n)
    [] op.type = "last_n"      -> GetLayersByLastN(stats, op.n)
    [] op.type = "largest"     -> GetLayersByTensorCount(map, stats, op.n, TRUE)
    [] op.type = "smallest"    -> GetLayersByTensorCount(map, stats, op.n, FALSE)
    [] op.type = "by_duration" -> GetLayersByDuration(map, stats, op.n, op.desc)
    [] op.type = "by_size"     -> GetLayersByMemorySize(map, stats, op.n, op.desc)

(* each operation sees what the ones before it left *)
RemoveLayersCompound(map, stats, operations) ==
  FoldLeft(LAMBDA m, op : Restrict(m, DOMAIN m \ Removal(m, stats, op)), map, operations)

-----------------------------------------------------------------------------
(* find_previous_compute_position_from_transfer: the last layer before t that
   uses t's block; 0 if there is none *)
PreviousCompute(p, t) ==
  Max({0} \cup {p.t2c[u] : u \in {u \in DOMAIN p.t2c : p.block[u] = p.block[t] /\ p.t2c[u] < t}})

(* slip: the gap is forgotten when there is an earlier use *)
FreeSlotsWithoutGap(p, t, n, gap) ==
  LET c    == p.t2c[t]
      prev == PreviousCompute(p, t)
  IN  {t} \cup ((IF c < prev THEN (1 .. c - 1) \cup (prev .. n) ELSE prev .. c - 1) \ DOMAIN p.t2c)

(* the free positions to which the copy at t may be moved, t itself included *)
FreeSlots(p, t, n, gap) ==
  LET c     == p.t2c[t]
      prev  == PreviousCompute(p, t)
      lower == prev + gap
      range == IF prev = 0 THEN 1 .. c - 1
               ELSE IF c < lower THEN (1 .. c - 1) \cup (lower .. n)
               ELSE lower .. c - 1
  IN  {t} \cup (range \ DOMAIN p.t2c)

(* how many layers compute while the copy runs, if issued at slot *)
Distance(slot, c, n) == IF slot < c THEN c - slot ELSE n - slot + c

Moved(p, from, to) ==
  LET keys == (DOMAIN p.t2c \ {from}) \cup {to}
      Renamed(f) == [k \in keys |-> IF k = to THEN f[from] ELSE f[k]]
  IN  [t2c |-> Renamed(p.t2c), block |-> Renamed(p.block)]

(* rearrange_transfers, the copies taken in the given order: the plan and
   where each copy went.  check_transfer_constraint compares the copy with a
   layer that is before it by construction, so only the overlap can fail. *)
Farthest(slots, c, n) == CHOOSE x \in slots : \A y \in slots : Distance(y, c, n) <= Distance(x, c, n)
MoveTo(s, t, slot) == [plan |-> Moved(s.plan, t, slot), remap |-> [s.remap EXCEPT ![t] = slot]]
Move(s, t, n, gap) == MoveTo(s, t, Farthest(FreeSlots(s.plan, t, n, gap), s.plan.t2c[t], n))
Moves(p, order, n, gap) ==
  LET at[k \in 0 .. Len(order)] ==
        IF k = 0 THEN [plan |-> p, remap |-> [t \in DOMAIN p.t2c |-> t]] ELSE Move(at[k-1], order[k], n, gap)
  IN  at
Checked(moved, p, n) ==
  [err |-> IF p.t2c = EmptyMap \/ Plan(n)!CheckOverlapConstraint(moved.plan) THEN "none" ELSE "ValueError",
   plan |-> moved.plan, remap |-> moved.remap]
RearrangeTransfers(p, order, n, gap) == Checked(Moves(p, order, n, gap)[Len(order)], p, n)

(* slip: the entry is written and the old one left *)
RemapWithoutDeleting(map, remap, order) ==
  FoldLeft(LAMBDA m, k : [l \in DOMAIN m \cup {remap[k]} |-> IF l = remap[k] THEN map[k] ELSE m[l]],
           map, SelectSeq(order, LAMBDA k : k \in DOMAIN map))

(* remap_strategy, key by key: the new key is written, the old one deleted *)
RemapStrategy(map, remap, order) ==
  LET Rename(m, k) ==
        IF k \notin DOMAIN map THEN m
        ELSE LET written == [l \in DOMAIN m \cup {remap[k]} |->
                               IF l = remap[k] THEN map[k] ELSE m[l]]
             IN  IF remap[k] = k THEN written ELSE Restrict(written, DOMAIN written \ {k})
  IN  FoldLeft(Rename, map, order)

CreateAllocationOrdered(block, labels) ==
  [b \in Range(block) |->
     SelectSeq(labels, LAMBDA l : l \in DOMAIN block /\ block[l] = b)]
=============================================================================
