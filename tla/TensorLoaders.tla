---------------------------- MODULE TensorLoaders ----------------------------
(***************************************************************************)
(* loaders.py: the tensor loaders that keep GPU copies of host weights,    *)
(* one record for each that a tensor manager builds.  Labels are the       *)
(* layers in the order of a forward.                                       *)
(*                                                                         *)
(*   kind       "none", "warmup", "layer", "view", "strategy" or "blocks"  *)
(*   ids        the tensors of a label; order: the labels as recorded      *)
(*   map        cpu_to_gpu_map: the tensors with a GPU copy                *)
(*   count      _active_counts: the open traps that hold a copy            *)
(*   bound      _original_data of the binder: .data is the GPU copy        *)
(*   rescued    the copies of the rescuer; refs: what it handed out as is  *)
(*   at         the label whose weights the view block holds               *)
(*   load, release, pass   strategy_map, release_strategy_map and          *)
(*              _passthrough_preload_ids                                   *)
(*   sched      scheduled_releases: a label -> the kernels its event covers*)
(*   events     transfer_events: a tensor -> the copies its event covers   *)
(*   uncovered  copies no event has been waited for                        *)
(***************************************************************************)
EXTENDS Integers, FiniteSets, FiniteSetsExt, Functions

CONSTANTS Tensors, Labels
ASSUME LabelsAssumption == Labels # {} /\ IsFiniteSet(Labels) /\ Labels = 1..Cardinality(Labels)
ASSUME TensorsAssumption == Tensors \subseteq Nat /\ IsFiniteSet(Tensors)

NoIds == [l \in Labels |-> {}]
Loader(kind, ids) ==
  [kind |-> kind, ids |-> ids, order |-> << >>, map |-> {}, count |-> [t \in Tensors |-> 0], bound |-> {},
   rescued |-> {}, refs |-> {}, at |-> 0, load |-> NoIds, release |-> NoIds, pass |-> {},
   sched |-> << >>, events |-> << >>, uncovered |-> {}]
NoLoader == Loader("none", NoIds)
AllIds(ids) == UNION {ids[l] : l \in Labels}
Without(f, S) == Restrict(f, DOMAIN f \ S)

-----------------------------------------------------------------------------
(* WarmupDirectTensorLoader and TensorLayerLoader: copies held by the traps
   that are open.  S is what enter came to before it returned or failed. *)
Fresh(ld, S, onGpu) == {t \in S : ld.count[t] = 0 /\ t \notin onGpu}
Retain(ld, S, onGpu) ==
  LET fresh == Fresh(ld, S, onGpu)
      held  == {t \in S : ld.count[t] > 0} \cup fresh
  IN  [ld EXCEPT !.count = [t \in Tensors |-> IF t \in held THEN @[t] + 1 ELSE @[t]],
                 !.map = @ \cup fresh, !.bound = @ \cup fresh]
(* the bound tensors keep their copy *)
ReleaseWithoutRestore(ld, S) ==
  LET last == {t \in S : ld.count[t] = 1}
  IN  [ld EXCEPT !.count = [t \in Tensors |-> IF t \in S /\ @[t] > 0 THEN @[t] - 1 ELSE @[t]],
                 !.map = @ \ last]
Release(ld, S) ==
  LET last == {t \in S : ld.count[t] = 1}
  IN  [ld EXCEPT !.count = [t \in Tensors |-> IF t \in S /\ @[t] > 0 THEN @[t] - 1 ELSE @[t]],
                 !.map = @ \ last, !.bound = @ \ last]

(* the binder refuses a tensor that shares bytes with another managed one *)
CanBind(ld, S, onGpu, overlap) == Fresh(ld, S, onGpu) \cap overlap = {}

WarmupExit(ld, l) == Release(ld, ld.ids[l])
(* TensorLayerLoader.exit: what no trap holds is left to the rescuer *)
LayerExit(ld, l) ==
  [Release(ld, ld.ids[l]) EXCEPT !.refs = @ \cup {t \in ld.ids[l] : ld.count[t] = 0}]

(* UntimedTrapRescuer: what no layer's statistics name is kept on the GPU *)
RescueIds(ids, managed) == managed \ AllIds(ids)
LayerLoader(ids, managed, onGpu) ==
  LET rescue == RescueIds(ids, managed)
  IN  [Loader("layer", ids) EXCEPT !.rescued = rescue \ onGpu, !.refs = rescue \cap onGpu]

-----------------------------------------------------------------------------
(* TensorStrategyLoader *)
(* _compute_preload: what its layer needs before any label loads it, and
   what no timed layer names *)
PreloadUnloaded(order, ids, load, managed) == managed \ AllIds(load)
Preload(order, ids, load, managed) ==
  {t \in managed : \/ t \notin AllIds(ids)
                   \/ \E i \in DOMAIN order : t \in ids[order[i]] /\ \A k \in 1..i : t \notin load[order[k]]}
(* _compute_resource_release_strategy *)
ResourceRelease(ids, load) == [l \in Labels |-> ids[l] \cap AllIds(load)]
StrategyLoader(order, ids, load, release, managed, onGpu) ==
  LET preload == Preload(order, ids, load, managed)
  IN  [Loader("strategy", ids) EXCEPT !.order = order, !.load = load, !.release = release,
         !.map = preload, !.pass = preload \cap onGpu]

(* tensor_id_to_release_label: the last label that releases the tensor *)
ReleaseLabels(ld, S) ==
  {ld.order[Max({i \in DOMAIN ld.order : t \in ld.release[ld.order[i]]})] : t \in S}

(* enter: take back what is scheduled, issue the missing copies, one event
   for all; S is what it came to, the events come after the last copy *)
StrategyEnter(ld, l) ==
  LET flight == ld.uncovered \cup (ld.load[l] \ ld.map)
  IN  IF ld.load[l] = {} THEN ld
      ELSE [ld EXCEPT !.sched = Without(@, ReleaseLabels(ld, ld.load[l])),
                      !.map = @ \cup ld.load[l], !.uncovered = flight,
                      !.events = [t \in DOMAIN @ \cup ld.load[l] |->
                                    IF t \in ld.load[l] THEN flight ELSE @[t]]]
StrategyEnterFails(ld, l, S) ==
  [ld EXCEPT !.sched = Without(@, ReleaseLabels(ld, ld.load[l])),
             !.map = @ \cup S, !.uncovered = @ \cup (S \ ld.map)]

(* get waits for the event of the tensor, once *)
StrategyGet(ld, t) ==
  IF t \in DOMAIN ld.events
  THEN [ld EXCEPT !.uncovered = @ \ ld.events[t], !.events = Without(@, {t})]
  ELSE ld

(* release_memory: the labels whose kernels have all run, and the transfer
   events of what these labels load *)
AllScheduledLabels(ld, running) == DOMAIN ld.sched
PassedLabels(ld, running) == {l \in DOMAIN ld.sched : ld.sched[l] \cap running = {}}
Dropped(ld, running) ==
  UNION {ld.load[l] : l \in PassedLabels(ld, running)} \cap DOMAIN ld.events
StrategyReleaseMemory(ld, running) ==
  LET passed == PassedLabels(ld, running)
      freed  == (ld.map \cap UNION {ld.release[l] : l \in passed}) \ ld.pass
      rest   == Without(ld.sched, passed)
  IN  [ld EXCEPT !.map = @ \ freed, !.uncovered = @ \ freed, !.events = Without(@, Dropped(ld, running)),
                 !.sched = [l \in DOMAIN rest |-> {k \in rest[l] : k[2] \notin freed}]]

(* exit: release_tensors is set; before are the kernels queued so far *)
StrategyExit(ld, l, before, running) ==
  LET released == StrategyReleaseMemory(ld, running)
  IN  IF ld.release[l] = {} THEN released
      ELSE [released EXCEPT !.sched = [k \in DOMAIN @ \cup {l} |-> IF k = l THEN before ELSE @[k]]]
=============================================================================
