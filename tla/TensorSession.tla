---------------------------- MODULE TensorSession ----------------------------
(***************************************************************************)
(* A tensor manager from the model it is given to its shutdown:            *)
(* tensor_manager.py with the traps of trap_tensor_mode.py around every    *)
(* layer.  A discovery finds out which tensors a layer reads, a profile    *)
(* how long it runs, inference keeps the weights of the strategy on the    *)
(* host and copies them for the layers that read them.  Instead of the     *)
(* first two a saved profile may be adopted.                               *)
(*                                                                         *)
(* The read of a weight is a step of its own; the GPU runs the kernels it  *)
(* is given in their order and later.  A setup is the model and the        *)
(* configuration:                                                          *)
(*   own, cross   what a layer owns, and what else it reads                *)
(*   late         the cross reads that depend on data: not in discovery    *)
(*   rare         the layer that a forward may leave out, or 0             *)
(*   excluded     not to be offloaded, or registered under two parents     *)
(*   overlap      parameters that share bytes of a storage                 *)
(*   mode         profile_mode "getter", "view" or "torch_function"        *)
(*   skip         skip_discovery                                           *)
(*   blocks       inference uses a block loader                            *)
(*   pinned, pinMode, cudart   pinned_memory and its mode                  *)
(*   dist         how many layers ahead the strategy copies a tensor, or   *)
(*                -1 for one that stays on the GPU                         *)
(*   size, budget bytes of a tensor, and what the profile block may take   *)
(*   profile, storage   the saved profile to adopt and where a tensor lies *)
(***************************************************************************)
EXTENDS WeightBlocks, HostPinning, StateAdoption

CONSTANTS Setups, Capacities,   \* the setups, and what may be free when a transition is planned
          StorageSizes,         \* bytes of a storage of the adopted model
          MaxForwards,          \* bound: forwards in a phase
          MaxFaults             \* bound: failures in a behaviour

VARIABLES setup, phase, data, managed, observed, trap, pc, passes,
          coll, frozen, ld, prof, running, pins, hist

modelVars == <<setup, data, managed, observed>>
forwardVars == <<trap, pc, passes, running>>
profileVars == <<coll, frozen, prof>>
vars == <<setup, phase, data, managed, observed, trap, pc, passes, coll, frozen,
          ld, prof, running, pins, hist, place, adoption>>

InOrder == [l \in 1..Max(Labels) |-> l]
(* the entries of s that are in S, in their order *)
Kept(s, S) ==
  LET at == {i \in DOMAIN s : s[i] \in S}
  IN  [n \in 1..Cardinality(at) |-> s[CHOOSE i \in at : Cardinality({j \in at : j <= i}) = n]]
NoTrap == [label |-> 0, todo |-> {}, tainted |-> FALSE]
NoProfile == [loader |-> "none", load |-> NoIds, release |-> NoIds, stats |-> << >>,
              views |-> {}, allocation |-> << >>]
Layers == Max(Labels)

(* A setup is made of the model's own tensors; a saved profile names no other,
   and was made for a strategy loader or for a block loader. *)
ProfileTyped(p) ==
  /\ p.load \in [Labels -> SUBSET Tensors] /\ p.release \in [Labels -> SUBSET Tensors]
  /\ p.views \subseteq Tensors
  /\ p.stats \in Seq([label : Labels, tensors : SUBSET Tensors])
ASSUME SetupsAssumption ==
  \A s \in Setups :
    /\ \A reads \in {s.own, s.cross, s.late} : reads \in [Labels -> SUBSET Tensors]
    /\ s.excluded \subseteq Tensors
    /\ s.mode \in {"getter", "view", "torch_function"}
    /\ s.storage \in [Tensors -> DOMAIN StorageSizes] /\ s.size \in [Tensors -> Nat]
    /\ s.profile # NoProfile => s.profile.loader \in {"strategy", "blocks"} /\ ProfileTyped(s.profile)
ASSUME BoundsAssumption == MaxForwards \in Nat /\ MaxFaults \in Nat
ASSUME StoragesAssumption ==
  /\ DOMAIN StorageSizes \subseteq Nat /\ IsFiniteSet(DOMAIN StorageSizes)
  /\ \A s \in DOMAIN StorageSizes : StorageSizes[s] \in Nat
ASSUME CapacitiesAssumption == Capacities \subseteq [host : Nat, gpu : Nat]

ReadsOf(l) == setup.own[l] \cup setup.cross[l] \cup setup.late[l]
OnGpu == {t \in Tensors : data[t] = "gpu"}
Traced == managed \ observed          \* traced_tensors: what was promoted is not
Pinning == pins.mode
Faulty(F) == F # {} => hist.faults < MaxFaults
Fail(h) == [h EXCEPT !.faults = @ + 1]
HasForward == /\ phase \in {"warmup", "profile", "infer"}
              /\ ~(phase = "warmup" /\ setup.mode # "torch_function" /\ ld.kind = "none")

Init ==
  /\ setup \in Setups
  /\ phase = IF setup.profile = NoProfile THEN "new" ELSE "saved"
  /\ data = [t \in Tensors |-> "host"]
  /\ managed = {} /\ observed = {}
  /\ trap = NoTrap /\ pc = 0 /\ passes = 0
  /\ coll = [seen |-> << >>, ids |-> NoIds, timed |-> {}]
  /\ frozen = [known |-> FALSE, ids |-> NoIds]
  /\ ld = NoLoader /\ prof = setup.profile /\ running = {}
  /\ pins = MakeHostPinner(setup.pinned, setup.pinMode, setup.cudart)
  /\ hist = [faults |-> 0, leaked |-> {}, lost |-> {}, dropped |-> {}, incomplete |-> FALSE]
  /\ adoption = NoAdoption
  /\ IF setup.profile = NoProfile THEN place = << >>
     ELSE \E dev \in [DOMAIN StorageSizes -> {"cpu", "gpu"}] :
            place = [s \in DOMAIN StorageSizes |-> [dev |-> dev[s], n |-> StorageSizes[s], pinned |-> FALSE]]

-----------------------------------------------------------------------------
(* initialize_warmup *)
NonOffloaded == setup.excluded
ShouldPinInPreprocess == ~setup.blocks /\ setup.pinned

(* preprocess_model, then the tensors that are not offloaded go to the GPU
   and leave tensors_map; registering may fail after some storages *)
InitializeWarmup ==
  /\ phase = "new"
  /\ pins' = IF ShouldPinInPreprocess THEN PinAll(pins, Tensors) ELSE pins
  /\ data' = Change(data, NonOffloaded, "gpu")
  /\ managed' = Tensors \ NonOffloaded
  /\ phase' = "warmup"
  /\ ld' = IF setup.mode = "torch_function" THEN NoLoader
           ELSE Loader("warmup", [l \in Labels |-> setup.own[l] \cap managed'])
  /\ coll' = IF setup.skip
             THEN [coll EXCEPT !.seen = Kept(InOrder, {l \in Labels : setup.own[l] \cap managed' # {}}),
                               !.ids = [l \in Labels |-> setup.own[l] \cap managed']]
             ELSE coll
  /\ UNCHANGED <<setup, observed, forwardVars, frozen, prof, hist, adoptionVars>>
PreprocessFails ==
  /\ phase = "new" /\ ShouldPinInPreprocess /\ pins.mode = "in_place" /\ hist.faults < MaxFaults
  /\ \E t \in Tensors : pins' = PinAll(pins, {s \in Tensors : s < t})
  /\ hist' = Fail(hist)
  /\ UNCHANGED <<modelVars, phase, forwardVars, profileVars, ld, adoptionVars>>

-----------------------------------------------------------------------------
(* A forward: every label in its order, each in a trap of its own *)
StartForward ==
  /\ HasForward /\ pc = 0 /\ passes < MaxForwards
  /\ pc' = 1
  /\ UNCHANGED <<modelVars, phase, trap, passes, running, profileVars, ld, pins, hist, adoptionVars>>
Skip ==
  /\ pc \in Labels /\ trap = NoTrap /\ pc = setup.rare
  /\ pc' = pc + 1 /\ hist' = [hist EXCEPT !.incomplete = @ \/ ld.load[pc] # {}]
  /\ UNCHANGED <<modelVars, phase, trap, passes, running, profileVars, ld, pins, adoptionVars>>
FinishForward ==
  /\ pc = Layers + 1
  /\ pc' = 0 /\ passes' = passes + 1
  /\ UNCHANGED <<modelVars, phase, trap, running, profileVars, ld, pins, hist, adoptionVars>>

CanEnter(l) ==
  CASE ld.kind = "warmup" -> CanBind(ld, ld.ids[l], {}, setup.overlap)
    [] ld.kind = "layer"  -> CanBind(ld, ld.ids[l], OnGpu, setup.overlap)
    [] OTHER              -> TRUE
LoaderEnter(l) ==
  CASE ld.kind = "warmup"   -> Retain(ld, ld.ids[l], {})
    [] ld.kind = "layer"    -> Retain(ld, ld.ids[l], OnGpu)
    [] ld.kind = "view"     -> ViewEnter(ld, l)
    [] ld.kind = "strategy" -> StrategyEnter(ld, l)
    [] OTHER                -> ld

(* __enter__; discovery needs no loader for what a layer reads, since a trap
   copies every traced argument that is not on the GPU *)
EnterTrap(l) ==
  /\ pc = l /\ trap = NoTrap /\ CanEnter(l)
  /\ trap' = [label |-> l, todo |-> IF phase = "warmup" THEN {} ELSE ReadsOf(l), tainted |-> FALSE]
  /\ ld' = LoaderEnter(l)
  /\ hist' = [hist EXCEPT !.dropped = @ \ ld.load[l]]
  /\ UNCHANGED <<modelVars, phase, pc, passes, running, profileVars, pins, adoptionVars>>

(* the copy of a tensor fails, or the binder refuses one: WarmupTrapDirect
   exits the loader again, the other traps only give the guard back *)
EntersPart(l, S) ==
  CASE ld.kind = "warmup"   -> WarmupExit(Retain(ld, S, {}), l)
    [] ld.kind = "layer"    -> Retain(ld, S, OnGpu)
    [] ld.kind = "strategy" -> StrategyEnterFails(ld, l, S)
EnterFails(l, S) ==
  /\ pc = l /\ trap = NoTrap /\ ld.kind \in {"warmup", "layer", "strategy"}
  /\ ld.kind = "strategy" => ld.load[l] # {} /\ S \subseteq ld.load[l]
  /\ ld.kind # "strategy" => /\ ld.ids[l] # {} /\ S \subseteq ld.ids[l]
                             /\ CanBind(ld, S, IF ld.kind = "layer" THEN OnGpu ELSE {}, setup.overlap)
  /\ hist.faults < MaxFaults
  /\ hist' = CASE ld.kind = "strategy" ->
                    [Fail(hist) EXCEPT !.incomplete = TRUE, !.dropped = @ \cup (S \ ld.map)]
               [] ld.kind = "layer"    -> [Fail(hist) EXCEPT !.leaked = @ \cup Fresh(ld, S, OnGpu)]
               [] OTHER                -> Fail(hist)
  /\ ld' = EntersPart(l, S)
  /\ pc' = 0
  /\ UNCHANGED <<modelVars, phase, trap, passes, running, profileVars, pins, adoptionVars>>

(* What .data holds, and what the loader's get returns: an empty tensor is
   empty in every copy *)
Own(t) == IF t \in hist.lost THEN "blank" ELSE "own"
Plain(t) ==
  CASE t \in ld.bound \/ data[t] = "gpu"                 -> Own(t)
    [] t \notin ld.bound /\ data[t] = "slot" ->
         IF ld.kind = "view" /\ ~SlotHolds(ld, t) THEN "stale" ELSE Own(t)
    [] t \notin ld.bound /\ data[t] \in {"host", "blank"} -> data[t]
LoaderGet(t) ==
  CASE ld.kind = "layer" /\ t \in ld.map \cup ld.rescued -> Own(t)
    [] ld.kind = "layer" /\ t \in ld.refs \ ld.map       -> Plain(t)
    [] ld.kind = "strategy" /\ t \in ld.map ->
         IF t \in StrategyGet(ld, t).uncovered THEN "unwaited" ELSE Own(t)
    [] OTHER -> "none"
ThroughLoader(t) == t \in Traced /\ ld.kind \in {"layer", "strategy"}

(* The getter of a parameter: the loader's copy; a host tensor nobody copied
   for this layer moves to the GPU for good and is no longer traced *)
Promoted(t) ==
  /\ setup.mode # "torch_function" /\ ThroughLoader(t) /\ LoaderGet(t) = "none"
  /\ t \notin ld.bound /\ data[t] \in {"host", "blank"}
Got(t) ==
  IF ThroughLoader(t) /\ LoaderGet(t) # "none" THEN LoaderGet(t)
  ELSE IF Promoted(t) THEN Own(t) ELSE Plain(t)

(* a kernel that is given a host tensor raises *)
Raises == trap.todo # {} /\ Got(Min(trap.todo)) = "host"
Read ==
  /\ trap.todo # {} /\ ~Raises
  /\ LET t     == Min(trap.todo)
         after == IF ThroughLoader(t) /\ ld.kind = "strategy" THEN StrategyGet(ld, t) ELSE ld
         copy  == ThroughLoader(t) /\ ld.kind = "strategy" /\ t \in ld.map \ ld.pass
         kernel == <<trap.label, t>>
     IN  /\ data' = IF Promoted(t) THEN Change(data, {t}, "gpu") ELSE data
         /\ observed' = IF Promoted(t) THEN observed \cup {t} ELSE observed
         /\ trap' = [trap EXCEPT !.todo = @ \ {t}, !.tainted = @ \/ Promoted(t)]
         /\ running' = IF copy THEN running \cup {kernel} ELSE running
         /\ ld' = IF copy THEN [after EXCEPT !.sched = [k \in DOMAIN @ |-> @[k] \ {kernel}]] ELSE after
  /\ UNCHANGED <<setup, managed, phase, pc, passes, profileVars, pins, hist, adoptionVars>>

(* __exit__: the tensors a trap has seen, and its duration unless a read moved
   a weight; the loader's exit always, but in a view profile nothing to do.
   done are the kernels that have run when the scheduled releases are looked
   at: what one of the events covers, or nothing. *)
Seen == IF phase = "warmup" THEN setup.own[trap.label] \cup setup.cross[trap.label]
        ELSE (ReadsOf(trap.label) \ trap.todo) \cup (IF Raises THEN {Min(trap.todo)} ELSE {})
With(seen, l) == IF \E i \in DOMAIN seen : seen[i] = l THEN seen ELSE Append(seen, l)
Recorded(l) ==
  CASE phase = "warmup" ->
         [coll EXCEPT !.seen = With(@, l), !.ids[l] = @ \cup (Seen \cap Traced) \cup ld.ids[l]]
    [] phase = "profile" /\ setup.mode = "torch_function" ->
         [coll EXCEPT !.seen = With(@, l), !.ids[l] = @ \cup (Seen \cap Traced), !.timed = @ \cup {l}]
    [] phase = "profile" /\ setup.mode # "torch_function" ->
         IF trap.tainted THEN coll ELSE [coll EXCEPT !.timed = @ \cup {l}]
    [] OTHER -> coll
LoaderExit(l) ==
  IF ld.kind = "strategy"
  THEN \E done \in {{}} \cup {ld.sched[k] : k \in DOMAIN ld.sched} :
         /\ running' = running \ done
         /\ ld' = StrategyExit(ld, l, running, running')
         /\ hist' = [hist EXCEPT !.dropped = @ \cup (Dropped(ld, running') \cap ld'.uncovered),
                                 !.faults = @ + (IF trap.todo # {} /\ ~Raises THEN 1 ELSE 0),
                                 !.incomplete = @ \/ trap.todo # {}]
  ELSE /\ running' = running
       /\ ld' = CASE ld.kind = "warmup" -> WarmupExit(ld, l)
                  [] ld.kind = "layer"  -> LayerExit(ld, l)
                  [] OTHER              -> ld
       /\ hist' = IF trap.todo # {} /\ ~Raises THEN Fail(hist) ELSE hist
ExitTrap ==
  /\ trap.label # 0 /\ trap.todo = {}
  /\ LoaderExit(trap.label) /\ coll' = Recorded(trap.label)
  /\ trap' = NoTrap /\ pc' = pc + 1
  /\ UNCHANGED <<modelVars, phase, passes, frozen, prof, pins, adoptionVars>>
(* the guard stays taken *)
BodyRaisesKeepsTrap ==
  /\ trap.todo # {} /\ (Raises \/ hist.faults < MaxFaults)
  /\ LoaderExit(trap.label) /\ coll' = Recorded(trap.label)
  /\ pc' = 0
  /\ UNCHANGED <<modelVars, phase, trap, passes, frozen, prof, pins, adoptionVars>>
BodyRaises ==
  /\ trap.todo # {} /\ (Raises \/ hist.faults < MaxFaults)
  /\ LoaderExit(trap.label) /\ coll' = Recorded(trap.label)
  /\ trap' = NoTrap /\ pc' = 0
  /\ UNCHANGED <<modelVars, phase, passes, frozen, prof, pins, adoptionVars>>
TimingFails ==
  /\ phase = "profile" /\ trap.label # 0 /\ trap.todo = {} /\ hist.faults < MaxFaults
  /\ ld' = IF ld.kind = "layer" THEN LayerExit(ld, trap.label) ELSE ld
  /\ hist' = Fail(hist) /\ trap' = NoTrap /\ pc' = 0
  /\ UNCHANGED <<modelVars, phase, passes, running, profileVars, pins, adoptionVars>>

-----------------------------------------------------------------------------
(* initialize_profile.  The statistics of the layers are computed once, the
   first time it is tried. *)
ProfileIds == IF frozen.known THEN frozen.ids ELSE [l \in Labels |-> coll.ids[l] \cap managed]
CanProfile == phase = "warmup" /\ pc = 0 /\ (setup.skip \/ passes > 0)
(* every controller has a block of its own *)
ViewBlock == -(Layers + 1 + Cardinality(pins.lost))
Frozen == [known |-> TRUE, ids |-> ProfileIds]

InitializeProfile ==
  /\ CanProfile
  /\ frozen' = Frozen
  /\ phase' = "profile" /\ passes' = 0
  /\ IF setup.mode # "view"
     THEN /\ ld' = LayerLoader(ProfileIds, managed, OnGpu)
          /\ UNCHANGED <<data, pins>>
     ELSE /\ FitsBudget(ProfileIds, setup.size, setup.budget)
          /\ ld' = ViewLoader(ProfileIds)
          /\ data' = IntoViews(data, ProfileIds, managed)
          /\ pins' = PinViewBlock(pins, ViewBlock)
  /\ UNCHANGED <<setup, managed, observed, trap, pc, running, coll, prof, hist, adoptionVars>>
(* a rescue out of memory, a block over the budget *)
ProfileRefused ==
  /\ CanProfile /\ ~frozen.known
  /\ IF setup.mode = "view" THEN ~FitsBudget(ProfileIds, setup.size, setup.budget) /\ UNCHANGED hist
     ELSE RescueIds(ProfileIds, managed) # {} /\ hist.faults < MaxFaults /\ hist' = Fail(hist)
  /\ frozen' = Frozen
  /\ UNCHANGED <<modelVars, phase, forwardVars, coll, prof, ld, pins, adoptionVars>>
(* the model cannot be prepared for the views: the controller is torn down,
   and its own failures are only logged *)
Home == [t \in Tensors |-> IF t \in hist.lost THEN "blank" ELSE "host"]
ProfileSetupFails ==
  /\ CanProfile /\ setup.mode = "view" /\ hist.faults < MaxFaults
  /\ FitsBudget(ProfileIds, setup.size, setup.budget)
  /\ frozen' = Frozen
  /\ \E failed \in {{}} \cup {{t} : t \in AllIds(ProfileIds)}, stuck \in SUBSET {ViewBlock}, moved \in BOOLEAN :
       /\ data' = RestoreOrBlank(IF moved THEN IntoViews(data, ProfileIds, managed) ELSE data,
                                 Home, ProfileIds, failed)
       /\ pins' = ReleaseView(PinViewBlock(pins, ViewBlock), stuck)
       /\ hist' = [Fail(hist) EXCEPT !.lost = @ \cup failed]
  /\ ld' = NoLoader
  /\ UNCHANGED <<setup, managed, observed, phase, forwardVars, coll, prof, adoptionVars>>

-----------------------------------------------------------------------------
(* prepare_infer_mode and prepare_infer_load_mode *)
(* the layers with a duration, without what was promoted or has left *)
TimedLabels == Kept(coll.seen, coll.timed)
StatIds == [l \in Labels |-> IF l \in coll.timed /\ Contains(coll.seen, l)
                             THEN (coll.ids[l] \cap managed) \ observed ELSE {}]
(* the strategy: a tensor is copied dist layers ahead of each that reads it *)
Ahead(i, d, n) == ((i - 1 - d) % n) + 1
LoadStrategy(order, ids) ==
  [k \in Labels |-> {t \in AllIds(ids) : setup.dist[t] >= 0 /\
     \E i, j \in DOMAIN order : /\ t \in ids[order[i]] /\ order[j] = k
                                /\ j = Ahead(i, setup.dist[t], Len(order))}]
Profile(order, ids) ==
  LET load == LoadStrategy(order, ids)
  IN  [loader |-> IF setup.blocks THEN "blocks" ELSE "strategy", load |-> load,
       release |-> IF setup.blocks THEN NoIds ELSE ResourceRelease(ids, load),
       stats |-> [i \in DOMAIN order |-> [label |-> order[i], tensors |-> ids[order[i]]]],
       views |-> IF setup.blocks THEN AllIds(load) ELSE {}, allocation |-> << >>]
OrderOf(p) == [i \in DOMAIN p.stats |-> p.stats[i].label]
IdsOf(p) == [l \in Labels |-> UNION {p.stats[i].tensors : i \in {i \in DOMAIN p.stats : p.stats[i].label = l}}]
(* a saved profile holds the releases its session computed *)
ASSUME SavedReleasesAssumption ==
  \A s \in Setups : s.profile.loader = "strategy" =>
    s.profile.release = ResourceRelease(IdsOf(s.profile), s.profile.load)

(* _create_loader, and prepare_final_model for a block loader; d and p are
   the weights and the pins as the profile's loader leaves them *)
BuildLoader(pr, d, p, m) ==
  IF pr.loader = "strategy"
  THEN /\ ld' = StrategyLoader(OrderOf(pr), IdsOf(pr), pr.load, pr.release, m, {t \in Tensors : d[t] = "gpu"})
       /\ data' = d /\ pins' = p
  ELSE /\ ld' = BlockLoader(IdsOf(pr), pr.load)
       /\ data' = IntoSlots(pr.load) /\ pins' = PinAll(p, HostBlocks(pr.load))

(* _teardown_profile_block_controller; any other loader is just replaced, and
   the copies that a failed enter left behind stay the tensors' data *)
ViewsBack(failed) == IF ld.kind = "view" THEN RestoreOrBlank(data, Home, ld.ids, failed) ELSE data
AfterProfile(failed) == Change(ViewsBack(failed), ld.bound, "gpu")
CanInfer == phase = "profile" /\ pc = 0 /\ passes > 0 /\ TimedLabels # << >>
InitializeInference ==
  /\ CanInfer
  /\ prof' = Profile(TimedLabels, StatIds)
  /\ \E stuck \in SUBSET pins.view :
       /\ Faulty(stuck) /\ hist' = IF stuck # {} THEN Fail(hist) ELSE hist
       /\ BuildLoader(prof', AfterProfile({}), ReleaseView(pins, stuck), managed)
  /\ phase' = "infer" /\ passes' = 0
  /\ UNCHANGED <<setup, managed, observed, trap, pc, running, coll, frozen, adoptionVars>>
(* what is in the blocks already is not put back *)
InferenceFails ==
  /\ CanInfer /\ hist.faults < MaxFaults
  /\ \/ \E t \in AllIds(ld.ids) :
          /\ ld.kind = "view"
          /\ data' = AfterProfile({t}) /\ hist' = [Fail(hist) EXCEPT !.lost = @ \cup {t}]
          /\ pins' = ReleaseView(pins, {})
     \/ \E k \in Labels :
          LET load == Profile(TimedLabels, StatIds).load
              emptied == IF setup.blocks THEN UNION {load[l] : l \in 1..(k - 1)} ELSE {}
              filled == {b \in HostBlocks(load) : setup.blocks /\ -b < k}
          IN  /\ data' = EmptiedBefore(AfterProfile({}), [l \in Labels |-> load[l] \cap emptied], k)
              /\ hist' = [Fail(hist) EXCEPT !.lost = @ \cup emptied]
              /\ pins' = PinAll(ReleaseView(pins, {}), filled)
  /\ phase' = "broken" /\ ld' = NoLoader
  /\ UNCHANGED <<setup, managed, observed, forwardVars, profileVars, adoptionVars>>

(* initialize_warmup of a restored profile *)
InitializeRestored ==
  /\ phase = "restored"
  /\ BuildLoader(prof, data, pins, managed)
  /\ phase' = "infer"
  /\ UNCHANGED <<setup, managed, observed, forwardVars, profileVars, hist, adoptionVars>>

-----------------------------------------------------------------------------
(* Adopting the saved profile: until a loader is built *)
adoptVars == <<modelVars, phase, forwardVars, profileVars, ld>>
Plan ==
  /\ phase = "saved" /\ ld.kind = "none"
  /\ \E cap \in Capacities : PlanStateAdoption(prof, setup.storage, setup.size, Pinning, cap)
  /\ UNCHANGED <<adoptVars, pins, hist>>
MigrateStorage == phase = "saved" /\ Migrate /\ UNCHANGED <<adoptVars, pins, hist>>
PinStorage ==
  /\ phase = "saved" /\ PinNext
  /\ pins' = PinAll(pins, {Min(adoption.pins)})
  /\ UNCHANGED <<adoptVars, hist>>
AdoptionFails ==
  /\ phase = "saved" /\ hist.faults < MaxFaults /\ (MigrateFails \/ PinFails)
  /\ hist' = Fail(hist) /\ UNCHANGED <<adoptVars, pins>>
(* restore_adopted_state, and what it leaves of the plan *)
RestoreAdopted ==
  /\ phase = "saved" /\ Established(prof, setup.storage, setup.size, Pinning)
  /\ managed' = ManagedTensors(prof)
  /\ data' = [t \in Tensors |-> IF place[setup.storage[t]].dev = "cpu" THEN "host" ELSE "gpu"]
  /\ phase' = "restored" /\ place' = << >> /\ adoption' = NoAdoption
  /\ UNCHANGED <<setup, observed, forwardVars, profileVars, ld, pins, hist>>

-----------------------------------------------------------------------------
(* release_memory, which undoes what is still bound, and shutdown: the weights
   come back from the blocks, the loader goes, and the pins even when the
   loader's end failed; again for the pins that are left *)
Shutdown ==
  /\ pc = 0 /\ adoption.status # "running"
  /\ phase # "down" \/ pins.main # {}
  /\ \E failed \in {{}} \cup {{t} : t \in AllIds(ld.ids)}, stuck \in {{}} \cup {{s} : s \in pins.main \cup pins.view} :
       /\ failed # {} => ld.kind = "view" /\ stuck = {}
       /\ Faulty(failed \cup stuck)
       /\ hist' = [hist EXCEPT !.lost = @ \cup failed,
                     !.faults = @ + (IF failed \cup stuck # {} THEN 1 ELSE 0)]
       /\ data' = OutOfSlots(ViewsBack(failed), ld)
       /\ pins' = ReleaseAll(ReleaseView(pins, stuck), stuck)
  /\ phase' = "down" /\ ld' = NoLoader /\ running' = {}
  /\ UNCHANGED <<setup, managed, observed, trap, pc, passes, profileVars, place, adoption>>
(* the transfer stream cannot be synchronised: the pins stay, for a retry *)
ShutdownFails ==
  /\ pc = 0 /\ ld.kind \in {"strategy", "blocks"} /\ hist.faults < MaxFaults
  /\ data' = OutOfSlots(data, ld) /\ phase' = "broken" /\ hist' = Fail(hist)
  /\ UNCHANGED <<setup, managed, observed, forwardVars, profileVars, ld, pins, adoptionVars>>

Next ==
  \/ InitializeWarmup \/ PreprocessFails
  \/ StartForward \/ Skip \/ FinishForward
  \/ \E l \in Labels : EnterTrap(l) \/ \E S \in SUBSET Tensors : EnterFails(l, S)
  \/ Read \/ ExitTrap \/ BodyRaises \/ TimingFails
  \/ InitializeProfile \/ ProfileRefused \/ ProfileSetupFails
  \/ InitializeInference \/ InferenceFails \/ InitializeRestored
  \/ Plan \/ MigrateStorage \/ PinStorage \/ AdoptionFails \/ RestoreAdopted
  \/ Shutdown \/ ShutdownFails
Spec == Init /\ [][Next]_vars

-----------------------------------------------------------------------------
(* One type invariant for the session. *)
TypeOK ==
  /\ phase \in {"new", "warmup", "profile", "infer", "saved", "restored", "broken", "down"}
  /\ DOMAIN data = Tensors /\ \A t \in Tensors : data[t] \in {"host", "gpu", "slot", "blank"}
  /\ observed \subseteq managed /\ managed \subseteq Tensors
  /\ trap.label \in Labels \cup {0} /\ trap.todo \subseteq Tensors /\ (trap.label # 0 => pc = trap.label)
  /\ pc \in 0..(Layers + 1) /\ passes \in 0..MaxForwards
  /\ ld.kind \in {"none", "warmup", "layer", "view", "strategy", "blocks"}
  /\ ld.map \cup ld.bound \cup ld.rescued \cup ld.refs \cup ld.pass \cup ld.uncovered \subseteq Tensors
  /\ DOMAIN ld.sched \subseteq Labels /\ DOMAIN ld.events \subseteq Tensors
  /\ running \subseteq Labels \X Tensors
  /\ pins.mode \in {"none", "copy", "in_place"}

(* A layer computes with the weights that are its own, whatever was copied,
   borrowed, scheduled and freed for the layers before it.  Four reads are
   known to go wrong: in "torch_function" mode one that discovery did not see,
   that follows a forward whose copies were not all made, whose tensor was
   freed by the release of another layer that reads it, or whose layer was
   recorded after one that runs later, raises; in a view profile one that
   discovery did not see meets another layer's weights; a copy whose event
   release_memory dropped, or that was issued by an enter that failed, is not
   waited for; a weight that was lost is empty. *)
Known(t) == t \in ld.ids[trap.label]
ReadElsewhere(t) == \E l \in Labels \ {trap.label} : t \in ld.ids[l]
RecordedLate(l) == \E i, j \in DOMAIN ld.order : i < j /\ ld.order[j] = l /\ ld.order[i] > l
ReadsOwnWeights ==
  \A t \in trap.todo :
    \/ Got(t) = "own"
    \/ /\ Got(t) = "host" /\ setup.mode = "torch_function"
       /\ ~Known(t) \/ hist.incomplete \/ ReadElsewhere(t) \/ RecordedLate(trap.label)
    \/ Got(t) = "stale" /\ ~Known(t)
    \/ Got(t) = "unwaited" /\ t \in hist.dropped
    \/ Got(t) = "blank" /\ t \in hist.lost

(* What the event of a release covers has run when the copies are freed: a
   kernel given to the GPU finds its copy however late it runs.
   Not so after a forward whose copies were not all made, since the next does
   not take back its releases, and for a tensor that another layer reads too. *)
KernelsKeepTheirCopies ==
  \/ hist.incomplete
  \/ \A k \in {k \in running : {l \in Labels : k[2] \in ld.ids[l]} = {k[1]}} : k[2] \in ld.map

(* The copies a discovery or profile trap makes go with it, however the trap
   ends; only a Trap or TrapDirect that fails on entry leaves them. *)
NoCopyOutlivesTrap ==
  ld.kind \in {"warmup", "layer"} =>
    LET held == IF trap = NoTrap THEN {} ELSE ld.ids[trap.label] \ OnGpu
    IN  ld.map \cup ld.bound \cup {t \in Tensors : ld.count[t] > 0} \subseteq held \cup hist.leaked

(* Without a block to view no weight is in a slot, none is empty unless it was
   lost, and what the plan had offloaded is back on the host at the end. *)
WeightsComeBack ==
  /\ ld.kind \notin {"view", "blocks"} =>
       \A t \in Tensors : data[t] # "slot" /\ (data[t] = "blank" => t \in hist.lost)
  /\ phase = "down" =>
       \A t \in AllIds(prof.load) \ (observed \cup hist.leaked \cup hist.lost) : data[t] = "host"

(* What the strategy copies lies on the host, pinned when pinning is asked for,
   whether this session placed it there or a saved plan was adopted. *)
StorageOf(t) == IF setup.profile = NoProfile THEN t ELSE setup.storage[t]
LoadsFromPinnedHost ==
  ld.kind = "strategy" =>
    \A t \in AllIds(ld.load) \ (observed \cup hist.leaked) :
      (data[t] = "host" \/ t \in hist.lost) /\ (Pinning # "none" => IsPinned(pins, StorageOf(t)))

(* What the driver has registered is in a registry, or lost with a registry
   whose release failed; a session without failures gives all of it back. *)
PinsBalance ==
  /\ pins.driver = pins.main \cup pins.view \cup pins.lost
  /\ phase = "down" /\ hist.faults = 0 => pins.driver = {}
=============================================================================
