---------------------------- MODULE TransferPlan ----------------------------
(***************************************************************************)
(* The transfer plan a block loader is built with: which layer's weights   *)
(* are copied while which layer computes, and into which GPU block.        *)
(*                                                                         *)
(* A plan is a record                                                      *)
(*   t2c    transfer_to_compute_map: the layer that issues the copy ->     *)
(*          the layer whose weights are copied                             *)
(*   block  label_to_block_id: the layer that issues the copy -> GPU block *)
(* Layers are named by their position in layer_stats, from 1.              *)
(***************************************************************************)
EXTENDS Integers, FiniteSets

CONSTANTS NLayers,      \* len(layer_stats)
          Blocks        \* ids of the GPU blocks

ASSUME NLayersAssumption == NLayers \in Nat \ {0}

Layers == 1 .. NLayers

(* Every plan with one copy per transfer layer and one source per streamed
   layer (reverse_transfer_to_compute_map rejects two). *)
Plans ==
  {p \in UNION {[t2c : [D -> Layers], block : [D -> Blocks]] : D \in SUBSET Layers} :
     \A t, u \in DOMAIN p.t2c : p.t2c[t] = p.t2c[u] => t = u}

Transfers(p) == DOMAIN p.t2c

(* The positions from the copy to the kernel that uses it, wrapping round
   the end of the forward when the kernel belongs to the next one. *)
ExecutionRange(p, t) ==
  IF p.t2c[t] < t THEN {i \in Layers : i >= t \/ i <= p.t2c[t]}
                  ELSE {i \in Layers : t <= i /\ i <= p.t2c[t]}

(* check_overlap_constraint: within a block no copy sits at the position of
   a kernel, and no two execution ranges meet. *)
CheckOverlapConstraint(p) ==
  \A t, u \in Transfers(p) :
    p.block[t] = p.block[u] =>
      /\ p.t2c[u] # t
      /\ t # u => ExecutionRange(p, t) \cap ExecutionRange(p, u) = {}

(* find_transfers_for_preload: the copies issued after the kernel they feed. *)
FindTransfersForPreload(p) == {t \in Transfers(p) : p.t2c[t] < t}

(* What the pipelined strategies produce and rearrange_transfers keeps. *)
ForwardPlans ==
  {p \in Plans : CheckOverlapConstraint(p) /\ FindTransfersForPreload(p) = {}}

(* What a cyclic strategy (KnapsackStrategy(cyclic=True)) may add to them. *)
CheckedPlans == {p \in Plans : CheckOverlapConstraint(p)}
=============================================================================
