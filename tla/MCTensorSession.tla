---------------------------- MODULE MCTensorSession ----------------------------
(* Small models of a tensor session: three layers and four tensors.  The
   bounds are in TensorSession.cfg. *)
EXTENDS TensorSession

MCTensors == 1..4
MCLabels == 1..3
MCSizes == <<4, 3, 2, 2>>
MCCapacities == [host : {0, 3, 4, 8}, gpu : {0, 2, 4, 8}]

Base ==
  [own |-> <<{1, 2}, {3}, {4}>>, cross |-> <<{}, {}, {}>>, late |-> <<{}, {}, {}>>, rare |-> 0,
   excluded |-> {}, overlap |-> {}, mode |-> "getter", skip |-> FALSE, blocks |-> FALSE,
   pinned |-> TRUE, pinMode |-> "host_register", cudart |-> TRUE, dist |-> <<-1, 1, 1, 1>>,
   size |-> <<1, 1, 1, 2>>, budget |-> 9, profile |-> NoProfile, storage |-> <<1, 2, 3, 4>>]
Shared == [Base EXCEPT !.own = <<{1}, {2, 3}, {4}>>, !.cross = <<{3}, {}, {}>>]

(* saved profiles: 2, 3 and 4 are copied one layer ahead; 3 and 4 may lie in
   one storage *)
Stats == [i \in 1..3 |-> [label |-> i, tensors |-> Base.own[i]]]
SavedLoad == <<{3}, {4}, {2}>>
SavedStrategy ==
  [loader |-> "strategy", load |-> SavedLoad, release |-> ResourceRelease(Base.own, SavedLoad),
   stats |-> Stats, views |-> {}, allocation |-> << >>]
SavedBlocks ==
  [loader |-> "blocks", load |-> SavedLoad, release |-> NoIds, stats |-> Stats,
   views |-> {2, 3, 4}, allocation |-> <<{1, 3}, {2}>>]

MCSetups ==
  {Base,
   [Base EXCEPT !.dist = <<2, 2, 2, 2>>, !.pinMode = "copy"],
   [Shared EXCEPT !.pinned = FALSE],
   [Shared EXCEPT !.skip = TRUE],
   [Base EXCEPT !.rare = 2],
   [Base EXCEPT !.mode = "torch_function", !.late = <<{}, {}, {1}>>],
   [Base EXCEPT !.mode = "torch_function", !.rare = 2],
   [Base EXCEPT !.mode = "torch_function", !.own = <<{1, 3}, {2}, {4}>>, !.cross = <<{}, {}, {3}>>],
   [Shared EXCEPT !.mode = "view"],
   [Base EXCEPT !.mode = "view", !.late = <<{}, {3}, {1}>>],
   [Base EXCEPT !.mode = "view", !.budget = 1],
   [Base EXCEPT !.mode = "view", !.blocks = TRUE, !.excluded = {1}],
   [Base EXCEPT !.overlap = {1}, !.skip = TRUE],
   [Base EXCEPT !.profile = SavedStrategy, !.storage = <<1, 2, 3, 3>>],
   [Base EXCEPT !.profile = SavedStrategy],
   [Base EXCEPT !.profile = SavedStrategy, !.pinMode = "copy"],
   [Base EXCEPT !.profile = SavedStrategy, !.storage = <<1, 1, 2, 3>>],
   [Base EXCEPT !.profile = SavedBlocks, !.blocks = TRUE],
   [Base EXCEPT !.profile = SavedBlocks, !.blocks = TRUE, !.pinMode = "copy"]}
=============================================================================
