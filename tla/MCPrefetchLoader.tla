-------------------------- MODULE MCPrefetchLoader --------------------------
(* Small instances of PrefetchLoader for TLC. *)
EXTENDS PrefetchLoaderInv, TLC

BlockSymmetry == Permutations(Blocks)

(* Cyclic plans that pass check_overlap_constraint and give the preloaded
   block a second user later in the forward. *)
CyclicReusePlans ==
  {p \in CheckedPlans :
     \E t \in FindTransfersForPreload(p), u \in Transfers(p) :
       t # u /\ p.block[t] = p.block[u]}

(* Plans in which a block is written twice per forward. *)
ReusePlans ==
  {p \in ForwardPlans :
     \E t, u \in Transfers(p) : t # u /\ p.block[t] = p.block[u]}

(* Plans with a copy that is preloaded and one that is not. *)
MixedPlans ==
  {p \in CheckedPlans : /\ Cardinality(Transfers(p)) = 2
                        /\ Cardinality(FindTransfersForPreload(p)) = 1}

BothVariants == BOOLEAN
=============================================================================
