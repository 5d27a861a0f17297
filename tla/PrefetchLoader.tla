--------------------------- MODULE PrefetchLoader ---------------------------
(***************************************************************************)
(* The two block loaders of loaders.py, PreallocatedBatchTransferTensor-   *)
(* Loader and its Reordered variant, over the two CUDA streams they drive. *)
(*                                                                         *)
(* The host runs a forward layer by layer: enter(l), the layer's kernels,  *)
(* exit(l).  The loader turns these calls into operations on two FIFO      *)
(* streams which the GPU executes later, at its own pace:                  *)
(*   ld.c   the compute stream:  waits, and the kernels that read weights  *)
(*   ld.t   the transfer stream: waits, and copies into the GPU blocks     *)
(* A CUDA event is the length of its stream when it was recorded: waiting  *)
(* for it is waiting until that many operations of that stream are done.   *)
(*                                                                         *)
(* All that keeps a copy from overwriting weights still in use, and a      *)
(* kernel from reading weights not there yet, are these events.            *)
(***************************************************************************)
EXTENDS TransferPlan, Sequences

CONSTANTS BlockPlans,   \* the plans a loader may be built with
          Variants,     \* subset of BOOLEAN: TRUE is the Reordered loader
          PolicyMode,   \* piecewise_prefetch: "off", "warn" or "error"
          PieceJoins,   \* TRUE: forwards are captured piece by piece
          MaxPasses,    \* bound on the forwards that are started
          MaxBreaks     \* bound on aborts and piece joins together

ASSUME BlockPlansAssumption == BlockPlans \subseteq CheckedPlans
ASSUME VariantsAssumption   == Variants \subseteq BOOLEAN
ASSUME PieceJoinsAssumption == PieceJoins \in BOOLEAN
ASSUME BoundsAssumption     == MaxPasses \in Nat /\ MaxBreaks \in Nat

VARIABLES
  plan,       \* the plan, fixed when the loader is built
  reordered,  \* which of the two classes was built
  ld,         \* loader object and the streams' contents, see LoaderType
  todo,       \* preload(): copies not issued yet
  stage,      \* where the host is
  layer,      \* layer last entered in this forward, 0 outside a forward
  passes,     \* forwards started
  breaks,     \* aborts and piece joins so far
  boundary,   \* history: where the current forward or piece began, see Here
  cdone,      \* operations the GPU has completed on the compute stream
  tdone,      \* operations the GPU has completed on the transfer stream
  mem         \* block -> layer whose weights it holds, 0 for none

hostVars == <<plan, reordered, ld, todo, stage, layer, passes, breaks, boundary>>
gpuVars  == <<cdone, tdone, mem>>
vars     == <<hostVars, gpuVars>>

-----------------------------------------------------------------------------
(* Stream operations.  The argument of a wait is the event, that of a read *)
(* the layer that computes, that of a copy the layer that issued it.       *)

Op == [k : {"wait", "read", "copy"}, n : Nat]

NoEvent == -1
Event   == Nat \cup {NoEvent}

NoEvents   == [l \in Layers |-> NoEvent]
NoLabels   == [l \in Layers |-> 0]
EmptySlots == [b \in Blocks |-> 0]

LoaderType ==
  [c : Seq(Op), t : Seq(Op),
   sched       : [Layers -> Event],              \* scheduled_transfers
   computeEv   : [Layers -> Event],              \* compute_events_map
   lastBlock   : [Blocks -> Transfers(plan) \cup {0}],  \* last_block_id_to_label_map
   pending     : BOOLEAN,                        \* _has_pending_transfer_work
   outstanding : [Layers -> Layers \cup {0}],    \* policy: _outstanding
   waited      : SUBSET Layers]                  \* policy: _waited_this_pass

OnCompute(s, kind, arg)  == [s EXCEPT !.c = Append(@, [k |-> kind, n |-> arg])]
OnTransfer(s, kind, arg) == [s EXCEPT !.t = Append(@, [k |-> kind, n |-> arg])]

(* current_stream().wait_event(transfer_stream.record_event()) *)
JoinTransfer(s) == OnCompute(s, "wait", Len(s.t))

-----------------------------------------------------------------------------
(* The policy's hooks. *)

PolicyEnabled == PolicyMode # "off"

(* Slip: the two labels swapped. *)
OnScheduleSwapped(s, scheduleLabel, computeLabel) ==
  IF PolicyEnabled THEN [s EXCEPT !.outstanding[scheduleLabel] = computeLabel]
                   ELSE s

OnSchedule(s, scheduleLabel, computeLabel) ==
  IF PolicyEnabled THEN [s EXCEPT !.outstanding[computeLabel] = scheduleLabel]
                   ELSE s

(* Slip: on_wait stores a sentinel instead of dropping the entry. *)
OnWaitKeepsEntry(s, computeLabel) ==
  IF PolicyEnabled THEN [s EXCEPT !.outstanding[computeLabel] = NoEvent]
                   ELSE s

OnWait(s, computeLabel) ==
  IF PolicyEnabled THEN [s EXCEPT !.outstanding[computeLabel] = 0,
                                  !.waited = @ \cup {computeLabel}]
                   ELSE s

ResetPolicy(s) == [s EXCEPT !.outstanding = NoLabels, !.waited = {}]

(* The prefetches on_piece_join reports, and raises for in error mode.  At
   the last layer the maps are cleared first and the forward is over, so the
   exception changes nothing else. *)
Broken(s, atLastLayer) ==
  {l \in Layers : s.outstanding[l] # 0 /\ ~(atLastLayer /\ l \in s.waited)}

-----------------------------------------------------------------------------
(* The loader's methods, as functions of its state. *)

(* Slip: compute_events_map survives the boundary. *)
ClearMapsPartly(s) == [s EXCEPT !.sched = NoEvents, !.lastBlock = EmptySlots]

ClearMaps(s) ==
  [s EXCEPT !.sched = NoEvents, !.computeEv = NoEvents, !.lastBlock = EmptySlots]

(* Slip: the flag is cleared and the join forgotten. *)
JoinForgotten(s) == [ClearMaps(s) EXCEPT !.pending = FALSE, !.outstanding = NoLabels]

(* Both end-of-piece paths: join what is pending, drop every event. *)
JoinAndClear(s) ==
  LET joined == IF s.pending THEN [JoinTransfer(s) EXCEPT !.pending = FALSE] ELSE s
  IN  [ClearMaps(joined) EXCEPT !.outstanding = NoLabels]

(* enter, first layer only: recover from a forward that did not finish. *)
Recovering(s) == s.pending \/ s.computeEv # NoEvents

StartPass(s) ==
  LET joined  == IF s.pending \/ s.sched # NoEvents THEN JoinTransfer(s) ELSE s
      cleared == IF Recovering(s)
                   THEN ClearMaps(joined)
                   ELSE [s EXCEPT !.computeEv = NoEvents, !.lastBlock = EmptySlots]
  IN  ResetPolicy([cleared EXCEPT !.pending = FALSE])

(* Slip: the fork waits for an event that is recorded after it. *)
ForkAhead(s) ==
  IF s.pending THEN s
  ELSE [OnTransfer(s, "wait", Len(s.c) + 1) EXCEPT !.pending = TRUE]

(* Bring the transfer stream up to the compute stream, once per session. *)
Fork(s) ==
  IF s.pending THEN s
  ELSE [OnTransfer(s, "wait", Len(s.c)) EXCEPT !.pending = TRUE]

(* Slip: the block is taken over without waiting for its reader. *)
AwaitBlockNever(s, t) == [s EXCEPT !.lastBlock[plan.block[t]] = t]

(* Before a block is overwritten: wait for the kernel that reads it. *)
AwaitBlock(s, t) ==
  LET b    == plan.block[t]
      last == s.lastBlock[b]
      free == IF last # 0 /\ s.computeEv[plan.t2c[last]] # NoEvent
                THEN OnTransfer(s, "wait", s.computeEv[plan.t2c[last]])
                ELSE s
  IN  [free EXCEPT !.lastBlock[b] = t]

(* The label under which the transfer's completion is waited for. *)
WaitLabel(t) == IF reordered THEN plan.t2c[t] ELSE t

ScheduleTransfer(s, t) ==
  LET copied == OnTransfer(AwaitBlock(s, t), "copy", t)
  IN  OnSchedule([copied EXCEPT !.sched[WaitLabel(t)] = Len(copied.t)],
                 t, WaitLabel(t))

(* Slip: only the policy hears of the wait. *)
AwaitTransferNever(s, l) == IF s.sched[l] # NoEvent THEN OnWait(s, l) ELSE s

AwaitTransfer(s, l) ==
  IF s.sched[l] # NoEvent THEN OnWait(OnCompute(s, "wait", s.sched[l]), l) ELSE s

EnterLayer(s, l) ==
  LET forked == Fork(IF l = 1 THEN StartPass(s) ELSE s)
      ready  == IF reordered THEN AwaitTransfer(forked, l) ELSE forked
  IN  IF l \in Transfers(plan) THEN ScheduleTransfer(ready, l) ELSE ready

ExitLayer(s, l) ==
  LET waited   == IF reordered THEN s ELSE AwaitTransfer(s, l)
      recorded == [waited EXCEPT !.computeEv[l] = Len(waited.c)]
  IN  IF l = NLayers THEN JoinAndClear(recorded) ELSE recorded
-----------------------------------------------------------------------------
(* The host.  A forward or piece begins at a length of the compute stream,
   with so many layers of the forward entered and left. *)

LayersLeft == IF stage = "outside" THEN layer ELSE layer - 1
Here(s) == [c |-> Len(s.c), entered |-> layer, left |-> LayersLeft]

Init ==
  /\ plan \in BlockPlans
  /\ reordered \in Variants
  /\ ld = [c |-> <<>>, t |-> <<>>, sched |-> NoEvents, computeEv |-> NoEvents,
           lastBlock |-> EmptySlots, pending |-> FALSE,
           outstanding |-> NoLabels, waited |-> {}]
  /\ todo = FindTransfersForPreload(plan)
  /\ stage = "preload"
  /\ layer = 0
  /\ passes = 0
  /\ breaks = 0
  /\ boundary = [c |-> 0, entered |-> 0, left |-> 0]
  /\ cdone = 0 /\ tdone = 0
  /\ mem = EmptySlots

(* preload, its first loop: one copy per preloaded transfer. *)
PreloadCopy(t) ==
  /\ stage = "preload" /\ t \in todo
  /\ ld' = OnTransfer(ld, "copy", t)
  /\ todo' = todo \ {t}
  /\ UNCHANGED <<plan, reordered, stage, layer, passes, breaks, boundary, gpuVars>>

(* preload, after the loop: wait_stream, then one map entry per transfer. *)
PreloadDone ==
  /\ stage = "preload" /\ todo = {}
  /\ LET preloaded == FindTransfersForPreload(plan)
     IN  ld' = [JoinTransfer(ld) EXCEPT
                  !.lastBlock = [b \in Blocks |->
                     IF \E t \in preloaded : plan.block[t] = b
                       THEN CHOOSE t \in preloaded : plan.block[t] = b
                       ELSE 0],
                  !.sched = [l \in Layers |->
                     IF reordered /\ \E t \in preloaded : plan.t2c[t] = l
                       THEN Len(ld.t) ELSE NoEvent]]
  /\ stage' = "outside"
  /\ UNCHANGED <<plan, reordered, todo, layer, passes, breaks, boundary, gpuVars>>

Enter(l) ==
  /\ stage = "outside" /\ l = layer + 1
  /\ l = 1 => passes < MaxPasses
  /\ ld' = EnterLayer(ld, l)
  /\ stage' = "entered"
  /\ layer' = l
  /\ passes' = IF l = 1 THEN passes + 1 ELSE passes
  /\ boundary' = IF l = 1 THEN Here(ld) ELSE boundary
  /\ UNCHANGED <<plan, reordered, todo, breaks, gpuVars>>

(* The layer's own forward launches its kernels. *)
Launch ==
  /\ stage = "entered"
  /\ ld' = OnCompute(ld, "read", layer)
  /\ stage' = "launched"
  /\ UNCHANGED <<plan, reordered, todo, layer, passes, breaks, boundary, gpuVars>>

(* Also on the way out of an exception raised before any kernel. *)
Exit ==
  /\ stage \in {"entered", "launched"}
  /\ ld' = ExitLayer(ld, layer)
  /\ stage' = "outside"
  /\ layer' = IF layer = NLayers THEN 0 ELSE layer
  /\ UNCHANGED <<plan, reordered, todo, passes, breaks, boundary, gpuVars>>

(* The forward ends early: an exception, or layers that do not run. *)
Abort ==
  /\ layer # 0
  /\ breaks < MaxBreaks /\ breaks' = breaks + 1
  /\ stage' = "outside"
  /\ layer' = 0
  /\ UNCHANGED <<plan, reordered, ld, todo, passes, boundary, gpuVars>>

(* join_after_forward, at the end of a forward, or of a captured piece.  In
   error mode a broken prefetch raises, and the forward with it. *)
JoinAfterForward ==
  /\ stage \in {"outside", "entered", "launched"}
  /\ layer = 0 \/ PieceJoins
  /\ breaks < MaxBreaks /\ breaks' = breaks + 1
  /\ ld' = JoinAndClear(ld)
  /\ boundary' = Here(ld')
  /\ IF PolicyMode = "error" /\ Broken(ld, FALSE) # {}
       THEN stage' = "outside" /\ layer' = 0
       ELSE UNCHANGED <<stage, layer>>
  /\ UNCHANGED <<plan, reordered, todo, passes, gpuVars>>

(* sync_prev_onload, called by an integration ahead of a forward.  A second
   call in a row would only repeat the wait. *)
SyncPrevOnload ==
  /\ stage = "outside" /\ layer = 0
  /\ ld.c = <<>> \/ ld.c[Len(ld.c)] # [k |-> "wait", n |-> Len(ld.t)]
  /\ ld' = JoinTransfer(ld)
  /\ UNCHANGED <<plan, reordered, todo, stage, layer, passes, breaks, boundary, gpuVars>>

(* shutdown: synchronize the transfer stream, then drop the blocks. *)
Shutdown ==
  /\ stage = "outside" /\ layer = 0
  /\ tdone = Len(ld.t)
  /\ stage' = "closed"
  /\ UNCHANGED <<plan, reordered, ld, todo, layer, passes, breaks, boundary, gpuVars>>

-----------------------------------------------------------------------------
(* The GPU: each stream executes its operations in order. *)

NextCompute  == ld.c[cdone + 1]
NextTransfer == ld.t[tdone + 1]

ComputeReady ==
  cdone < Len(ld.c) /\ (NextCompute.k = "wait" => NextCompute.n <= tdone)
TransferReady ==
  tdone < Len(ld.t) /\ (NextTransfer.k = "wait" => NextTransfer.n <= cdone)

ComputeStep ==
  /\ ComputeReady
  /\ cdone' = cdone + 1
  /\ UNCHANGED <<hostVars, tdone, mem>>

TransferStep ==
  /\ TransferReady
  /\ tdone' = tdone + 1
  /\ mem' = IF NextTransfer.k = "copy"
              THEN [mem EXCEPT ![plan.block[NextTransfer.n]] = plan.t2c[NextTransfer.n]]
              ELSE mem
  /\ UNCHANGED <<hostVars, cdone>>

HostStep ==
  \/ \E t \in Layers : PreloadCopy(t)
  \/ PreloadDone
  \/ \E l \in Layers : Enter(l)
  \/ Launch
  \/ Exit
  \/ Abort
  \/ JoinAfterForward
  \/ SyncPrevOnload
  \/ Shutdown

Next == HostStep \/ ComputeStep \/ TransferStep

Spec == Init /\ [][Next]_vars

-----------------------------------------------------------------------------
TypeOK ==
  /\ plan \in BlockPlans
  /\ reordered \in BOOLEAN
  /\ ld \in LoaderType
  /\ todo \subseteq Transfers(plan)
  /\ stage \in {"preload", "outside", "entered", "launched", "closed"}
  /\ layer \in Layers \cup {0}
  /\ passes \in 0 .. MaxPasses
  /\ breaks \in 0 .. MaxBreaks
  /\ boundary \in [c : Nat, entered : Layers \cup {0}, left : Layers \cup {0}]
  /\ cdone \in 0 .. Len(ld.c)
  /\ tdone \in 0 .. Len(ld.t)
  /\ mem \in [Blocks -> Layers \cup {0}]

(* A copy never runs while a kernel reading the same block runs: whenever
   both streams are ready for such a pair, the events the loader recorded
   failed to order them. *)
NoOverwriteWhileRead ==
  \A t \in Transfers(plan), l \in Layers :
    (/\ ComputeReady  /\ NextCompute  = [k |-> "read", n |-> l]
     /\ TransferReady /\ NextTransfer = [k |-> "copy", n |-> t])
    => \A u \in Transfers(plan) : plan.t2c[u] = l => plan.block[u] # plan.block[t]

(* A kernel starts only when its block holds its own layer's weights: the
   copy has completed and no later one has replaced it.  This includes the
   forwards that follow an aborted one. *)
ReadsOwnWeights ==
  \A u \in Transfers(plan) :
    ComputeReady /\ NextCompute = [k |-> "read", n |-> plan.t2c[u]]
      => mem[plan.block[u]] = plan.t2c[u]

(* Copies the compute stream has not been made to wait for are announced by
   _has_pending_transfer_work: without the flag the join before a graph's
   capture_end would be skipped and the capture left unjoined. *)
Covered(pos) == \E j \in 1 .. Len(ld.c) : ld.c[j].k = "wait" /\ ld.c[j].n >= pos

UnjoinedWorkIsPending ==
  stage # "preload" /\ ~ld.pending => \A i \in 1 .. Len(ld.t) :
                      ld.t[i].k = "copy" => Covered(i)

(* The events preload() recorded, in the first forward and before any join:
   the first enter keeps them for the first waits. *)
KeptFromPreload(l) ==
  /\ reordered /\ passes = 1 /\ breaks = 0
  /\ \E t \in FindTransfersForPreload(plan) : plan.t2c[t] = l

(* No event recorded before the current forward or piece is left in the maps,
   for a graph capture may not wait for an event of an earlier session: a
   layer's compute event is there only if the layer was left since, the event
   of a copy only if the copy was issued since.  The first forward of the
   Reordered loader alone also keeps the events of preload(). *)
HandlesOfThisSession ==
  \A l \in Layers : layer # 0 =>
    /\ ld.computeEv[l] # NoEvent => l \in boundary.left + 1 .. LayersLeft
    /\ ld.sched[l] # NoEvent =>
         \/ \E t \in Transfers(plan) : WaitLabel(t) = l /\ t \in boundary.entered + 1 .. layer
         \/ KeptFromPreload(l)

(* Every prefetch a piece join would cut short is known to the policy, so a
   piece that breaks the overlap cannot pass unreported. *)
PolicySeesUnawaitedPrefetch ==
  \A l \in Layers :
    PolicyEnabled /\ layer # 0 /\ ld.sched[l] # NoEvent /\ ~Covered(ld.sched[l])
      => ld.outstanding[l] # 0

(* A forward that reaches its last layer with no piece join in it has lost
   no overlap, so on_piece_join(at_last_layer=True) has nothing to raise. *)
StrictModeNeverFalseRaises ==
  stage \in {"entered", "launched"} /\ layer = NLayers /\ ~PieceJoins
    => Broken(IF reordered THEN ld ELSE AwaitTransfer(ld, NLayers), TRUE) = {}

(* The streams never wait for each other in a circle, whatever the host
   did: as long as something is enqueued, one of them can go on. *)
StreamsNeverDeadlock ==
  cdone < Len(ld.c) \/ tdone < Len(ld.t) => ComputeReady \/ TransferReady
=============================================================================
