---------------------------- MODULE WeightBlocks ----------------------------
(***************************************************************************)
(* The weights a block takes over: profile_block_controller.py, which puts *)
(* every layer of a view profile in turn into one GPU block, and the raw   *)
(* and allocation block controllers of loaders.py, which gather the        *)
(* weights of a label in one host block and empty the tensors.             *)
(*                                                                         *)
(* data[t] is where .data of a tensor points: "host", "gpu", a "slot" of   *)
(* the GPU block, or "blank", an empty tensor; a size is in units of the   *)
(* slots' alignment.                                                       *)
(***************************************************************************)
EXTENDS TensorLoaders

Change(data, S, where) == [t \in Tensors |-> IF t \in S THEN where ELSE data[t]]

-----------------------------------------------------------------------------
(* ProfileBlockController: a prefix for the tensors of two labels or more,
   loaded once, and a region that the labels take turns to fill *)
SharedIds(ids) == {t \in Tensors : Cardinality({l \in Labels : t \in ids[l]}) >= 2}
Slots(ids, l) == ids[l] \ SharedIds(ids)
Bytes(S, size) == MapThenSumSet(LAMBDA t : size[t], S)
ProfileBlockSize(ids, size) ==
  Bytes(SharedIds(ids), size) + Max({Bytes(Slots(ids, l), size) : l \in Labels})
FitsBudget(ids, size, budget) == ProfileBlockSize(ids, size) <= budget

ViewLoader(ids) == Loader("view", ids)
ViewEnter(ld, l) == IF Slots(ld.ids, l) = {} THEN ld ELSE [ld EXCEPT !.at = l]
SlotHolds(ld, t) == t \in SharedIds(ld.ids) \/ (ld.at # 0 /\ t \in Slots(ld.ids, ld.at))

(* prepare_profile_direct_mode_model and teardown: the tensors without a slot
   move to the GPU for good, the others come back, an empty tensor taking the
   place of the one that cannot *)
IntoViews(data, ids, managed) ==
  Change(Change(data, managed \ AllIds(ids), "gpu"), AllIds(ids), "slot")
RestoreOrBlank(data, home, ids, failed) ==
  [t \in Tensors |-> IF t \notin AllIds(ids) THEN data[t] ELSE IF t \in failed THEN "blank" ELSE home[t]]

-----------------------------------------------------------------------------
(* RawBlockController and AllocationBlockController: one pinned host block
   for every label that loads something, named by a negative number *)
HostBlock(l) == -l
HostBlocks(load) == {HostBlock(l) : l \in {l \in Labels : load[l] # {}}}
(* the blocks of the labels before k are filled and their tensors emptied *)
EmptiedBefore(data, load, k) == Change(data, UNION {load[l] : l \in 1..(k - 1)}, "blank")
(* prepare_view_model: what is in a block becomes its slot, the rest moves *)
BlockLoader(ids, load) == [Loader("blocks", ids) EXCEPT !.load = load]
IntoSlots(load) == [t \in Tensors |-> IF t \in AllIds(load) THEN "slot" ELSE "gpu"]
(* _restore_block_loader_tensor_data: back to the views of the host block *)
KeepSlots(data, ld) == data
OutOfSlots(data, ld) == [t \in Tensors |-> IF ld.kind = "blocks" /\ data[t] = "slot" THEN "host" ELSE data[t]]
=============================================================================
