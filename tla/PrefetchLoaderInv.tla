-------------------------- MODULE PrefetchLoaderInv --------------------------
(***************************************************************************)
(* The inductive invariant behind NoOverwriteWhileRead and                 *)
(* ReadsOwnWeights, for forward plans and forwards that are joined only    *)
(* at their end.                                                           *)
(***************************************************************************)
EXTENDS PrefetchLoader

InPass == layer # 0

(* The transfer stream, resp. the compute stream, has been told to wait for
   position j of the other one before anything appended from now on. *)
TransferAwaits(s, j) == \E i \in 1 .. Len(s.t) : s.t[i].k = "wait" /\ s.t[i].n >= j
ComputeAwaits(s, i)  == \E j \in 1 .. Len(s.c) : s.c[j].k = "wait" /\ s.c[j].n >= i

(* A wait names operations that were enqueued before it. *)
WaitsBounded(s) ==
  /\ \A j \in 1 .. Len(s.c) : s.c[j].k = "wait" => s.c[j].n <= Len(s.t)
  /\ \A i \in 1 .. Len(s.t) : s.t[i].k = "wait" => s.t[i].n <= Len(s.c)

(* u's copy is at i, awaited before position j of the compute stream, and
   every later copy into the block awaits position j. *)
SourceOf(s, u, i, j) ==
  /\ s.t[i] = [k |-> "copy", n |-> u]
  /\ \E h \in 1 .. (j - 1) : s.c[h].k = "wait" /\ s.c[h].n >= i
  /\ \A m \in (i + 1) .. Len(s.t) :
       s.t[m].k = "copy" /\ plan.block[s.t[m].n] = plan.block[u]
         => \E h \in 1 .. (m - 1) : s.t[h].k = "wait" /\ s.t[h].n >= j

(* Every kernel that reads a block has exactly one copy it can see. *)
ReadsOrdered(s) ==
  \A j \in 1 .. Len(s.c) : s.c[j].k = "read" =>
    \A u \in Transfers(plan) : plan.t2c[u] = s.c[j].n =>
      \E i \in 1 .. Len(s.t) : SourceOf(s, u, i, j)

CopiesOfPlan(s) ==
  \A i \in 1 .. Len(s.t) : s.t[i].k = "copy" => s.t[i].n \in Transfers(plan)

StaticInv(s) == CopiesOfPlan(s) /\ WaitsBounded(s) /\ ReadsOrdered(s)

(* No event in the maps lies ahead of its stream. *)
EventsBounded(s) ==
  \A l \in Layers : s.sched[l] <= Len(s.t) /\ s.computeEv[l] <= Len(s.c)

-----------------------------------------------------------------------------
(* What the host knows inside a forward: L is the layer last entered, and
   out says whether it has been left. *)

(* Kernels of earlier forwards were awaited by the fork. *)
EarlierReadsAwaited(s, base) ==
  /\ s.pending
  /\ TransferAwaits(s, base)

(* Kernels of this forward belong to entered layers. *)
ReadsOfPass(s, L, base, st) ==
  \A j \in (base + 1) .. Len(s.c) :
     s.c[j].k = "read" => /\ s.c[j].n \in 1 .. L
                          /\ s.c[j].n = L => st \in {"launched", "outside"}

(* A kernel whose layer was left is not behind its compute event. *)
ReadsRecorded(s, L, base, st) ==
  \A j \in (base + 1) .. Len(s.c) :
     s.c[j].k = "read" /\ (s.c[j].n < L \/ st = "outside") => s.computeEv[s.c[j].n] >= j

(* last_block_id_to_label_map names the last copy scheduled into a block. *)
SlotsCurrent(s, L) ==
  \A u \in Transfers(plan) : u <= L =>
     s.lastBlock[plan.block[u]] \in {w \in Transfers(plan) :
                             u <= w /\ w <= L /\ plan.block[w] = plan.block[u]}

(* A kernel whose block has been handed on was awaited by the next copy. *)
ReplacedReadsAwaited(s, base) ==
  \A j \in (base + 1) .. Len(s.c), u \in Transfers(plan) :
     /\ s.c[j].k = "read" /\ plan.t2c[u] = s.c[j].n
     /\ s.lastBlock[plan.block[u]] # u
     => TransferAwaits(s, j)

(* The event a transfer is waited by is the position of its copy, the last
   into its block until the block is handed on. *)
CopiesScheduled(s, L) ==
  \A u \in Transfers(plan) : u <= L =>
     LET e == s.sched[WaitLabel(u)]
     IN  /\ e \in 1 .. Len(s.t)
         /\ s.t[e] = [k |-> "copy", n |-> u]
         /\ s.lastBlock[plan.block[u]] = u =>
              (\A m \in (e + 1) .. Len(s.t) :
                 s.t[m].k = "copy" => plan.block[s.t[m].n] # plan.block[u])

(* The compute stream has awaited the copies it is about to need. *)
CopiesAwaited(s, L, st) ==
  \A u \in Transfers(plan) :
     /\ u <= L
     /\ IF reordered THEN plan.t2c[u] <= L ELSE u < L \/ st = "outside"
     => ComputeAwaits(s, s.sched[WaitLabel(u)])

PassInv(s, L, base, st) ==
  /\ EarlierReadsAwaited(s, base)
  /\ ReadsOfPass(s, L, base, st)
  /\ ReadsRecorded(s, L, base, st)
  /\ SlotsCurrent(s, L)
  /\ ReplacedReadsAwaited(s, base)
  /\ CopiesScheduled(s, L)
  /\ CopiesAwaited(s, L, st)

-----------------------------------------------------------------------------
(* The GPU. *)

(* What was executed was allowed to be. *)
WaitsRespected ==
  /\ \A j \in 1 .. cdone : ld.c[j].k = "wait" => ld.c[j].n <= tdone
  /\ \A i \in 1 .. tdone : ld.t[i].k = "wait" => ld.t[i].n <= cdone

(* A block holds what its last executed copy put there. *)
MemIsLastCopy ==
  \A i \in 1 .. tdone : ld.t[i].k = "copy" =>
    \/ mem[plan.block[ld.t[i].n]] = plan.t2c[ld.t[i].n]
    \/ \E m \in (i + 1) .. tdone :
         ld.t[m].k = "copy" /\ plan.block[ld.t[m].n] = plan.block[ld.t[i].n]

(* A layer is being computed only inside a forward. *)
StageShape ==
  /\ stage \in {"entered", "launched"} => InPass
  /\ stage \in {"preload", "closed"} => ~InPass

(* Forward plans preload nothing. *)
NothingPreloaded ==
  /\ plan \in ForwardPlans
  /\ todo = {}
  /\ stage = "preload" => ld.c = <<>> /\ ld.t = <<>>

IInv ==
  /\ TypeOK
  /\ StageShape
  /\ NothingPreloaded
  /\ StaticInv(ld)
  /\ EventsBounded(ld)
  /\ InPass => PassInv(ld, layer, boundary.c, stage)
  /\ WaitsRespected
  /\ MemIsLastCopy
=============================================================================
