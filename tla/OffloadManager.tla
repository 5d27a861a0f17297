---------------------------- MODULE OffloadManager ----------------------------
(***************************************************************************)
(* The lifecycle of one OffloadManager (offload_manager.py) over its       *)
(* TensorManager (tensor_manager.py), its compiled path (CompiledOffload)  *)
(* and the timing collector of its loader (OffloadTiming).                 *)
(*                                                                         *)
(* A named manager belongs to one thread, so every public call is one      *)
(* step; what makes it hard is where a call may fail, and that forwards,   *)
(* suspensions, replans, replays, re-offloads and releases may come in any *)
(* order.  A step of a call takes the state of the manager, a record w, to *)
(* the next; w.err is an exception on its way out.  The fault f of a call  *)
(* names the step of it that raises.                                       *)
(*                                                                         *)
(* Models are <<session, "user">> and the copy made for profiling; every   *)
(* offload is given a new model.  Loaders are numbered as they are built;  *)
(* tm.weights is the loader whose memory the parameters of the model point *)
(* into, 0 their own.                                                      *)
(***************************************************************************)
EXTENDS CompiledOffload, OffloadTiming, FiniteSets

CONSTANTS Configs,      \* what offload may be asked for
          Faults,       \* the steps that may raise
          MaxSessions, MaxFaults, MaxSuspends, MaxPasses  \* bounds

ASSUME BoundsAssumption ==
  {MaxSessions, MaxFaults, MaxSuspends, MaxPasses} \subseteq Nat

(* What a configuration says, as far as the manager looks at it. *)
ConfigType ==
  [compile : {"no", "fn", "external"}, mode : {"view", "getter", "torch_function"},
   block : BOOLEAN, skip : BOOLEAN, reachable : BOOLEAN,
   disc : Nat, prof : Nat, timing : {"off", "eager", "cuda_graph"}]

ASSUME ConfigsAssumption == Configs \subseteq ConfigType

NoModel == <<0, "none">>
Stale   == -1   \* weights copied out of somebody else's blocks

VARIABLES
  om,    \* the manager
  tm,    \* its tensor manager
  comp,  \* its compiled path
  ops,   \* its slot in the registry of the custom ops
  col,   \* the collector of the loader, and the durable store
  user,  \* the caller: sessions, the pass number, the captured graph, faults
  hist   \* history: forwards driven, failed transitions, what was served

vars == <<om, tm, comp, ops, col, user, hist>>

------------------------------------------------------------------------------
(* Steps that may raise. *)

Raise(w) == [w EXCEPT !.err = TRUE]

Then(w, Step(_)) == IF w.err THEN w ELSE Step(w)

(* The value of the steps so far when the fault strikes here. *)
Strike(w, f, name) == IF f = name THEN Raise(w) ELSE w

------------------------------------------------------------------------------
(* The tensor manager. *)

NoConfig == [compile |-> "no", mode |-> "view", block |-> TRUE, skip |-> FALSE,
             reachable |-> TRUE, disc |-> 1, prof |-> 1, timing |-> "off"]

NoTensorManager ==
  [on |-> FALSE, cfg |-> NoConfig, loader |-> 0, kind |-> "none",
   trap |-> "none", restored |-> FALSE, armFirst |-> FALSE, source |-> FALSE,
   suspended |-> 0, weights |-> 0,
   built |-> 0,     \* loaders built so far
   live |-> {}]     \* those that still hold their resources

(* The settings are captured once; a later configuration does not reach    *)
(* the manager that is there.                                              *)
InitializeTensorManager(w, c, f) ==
  IF f = "init" THEN Raise(w)
  ELSE [w EXCEPT !.tm = [NoTensorManager EXCEPT
                           !.on = TRUE, !.cfg = c,
                           !.built = w.tm.built, !.live = w.tm.live]]

Build(t, kind) ==
  [t EXCEPT !.built = @ + 1, !.loader = t.built + 1, !.kind = kind,
            !.live = @ \cup {t.built + 1}]

Drop(t) == [t EXCEPT !.loader = 0, !.kind = "none"]

ShutLoader(t) == [Drop(t) EXCEPT !.live = @ \ {t.loader}]

(* The views of a profile are taken back before the block goes. *)
TeardownProfileBlockController(w) ==
  IF w.tm.kind # "controller" THEN w
  ELSE [w EXCEPT !.tm = [ShutLoader(w.tm) EXCEPT !.weights = 0]]

(* Slip: the loader that is there is forgotten without a shutdown. *)
CreateLoaderOver(w, f) ==
  Strike([w EXCEPT !.tm = [Build(Drop(w.tm), "infer") EXCEPT !.trap = "infer"]],
         f, "create")

(* The trap class changes first, then the old loader goes, then the new    *)
(* one is built; it brings its own collector.                              *)
CreateLoader(w, f) ==
  LET shut == [w EXCEPT !.tm = [ShutLoader(w.tm) EXCEPT !.trap = "infer"]]
      c    == w.tm.cfg
  IN  IF f = "create" THEN Raise(shut)
      ELSE [shut EXCEPT
              !.tm  = Build(shut.tm, "infer"),
              !.col = [NewCollector(c.block /\ c.timing # "off",
                                    c.timing = "cuda_graph")
                         EXCEPT !.durable = w.col.durable]]

(* A loader that is to be replaced after a replan keeps the sources. *)
KeepSources(w) ==
  [w EXCEPT !.tm.source = @ \/ w.tm.armFirst, !.tm.armFirst = FALSE]

(* The parameters become views of the blocks, which were filled from what  *)
(* they held before; other loaders leave them alone.                       *)
PrepareFinalModel(w) ==
  IF w.tm.cfg.block
    THEN [w EXCEPT !.tm.weights = IF @ = 0 THEN w.tm.loader ELSE Stale] ELSE w

(* A restored profile builds its inference loader at once. *)
PrepareInferLoadMode(w, f) == Then(CreateLoader(w, f), KeepSources)

(* The loader of an earlier session is dropped, not shut down. *)
PrepareWarmupMode(w) ==
  [w EXCEPT !.tm = [Drop(w.tm) EXCEPT !.trap = "warmup", !.kind = "warmup"]]

SetModel(w) == [w EXCEPT !.tm.weights = 0]

InitializeWarmup(w, f) ==
  IF w.tm.restored THEN Then(PrepareInferLoadMode(w, f), PrepareFinalModel)
                   ELSE PrepareWarmupMode(w)

(* View mode: the controller copies what the parameters hold now, and      *)
(* patches them; if that fails it is taken down again.  The other modes    *)
(* build a loader and leave the parameters alone.                          *)
InitializeProfile(w, f) ==
  LET view == w.tm.cfg.mode = "view"
      up == Build(w.tm, IF view THEN "controller" ELSE "tensors")
      patched == [up EXCEPT !.trap = "profile",
                            !.weights = IF ~view THEN @
                                        ELSE IF @ = 0 THEN up.loader ELSE Stale]
  IN  IF f # "profile" THEN [w EXCEPT !.tm = patched]
      ELSE IF view THEN Raise(TeardownProfileBlockController([w EXCEPT !.tm = up]))
      ELSE Raise(w)

(* Slip: the profile's views are still in place when the loader is built. *)
PrepareInferModeOverViews(w, f) ==
  Then(CreateLoader(Strike(w, f, "strategy"), f), KeepSources)

PrepareInferMode(w, f) ==
  LET down == Strike(TeardownProfileBlockController(w), f, "strategy")
      make(v) == CreateLoader(v, f)
  IN  Then(Then(down, make), KeepSources)

InitializeInference(w, f) ==
  IF w.tm.restored THEN [w EXCEPT !.tm.restored = FALSE]
  ELSE Then(PrepareInferMode(w, f), PrepareFinalModel)

(* Parameters get their own storage back, then everything is shut down. *)
ShutdownTensorManager(w, f) ==
  LET back == [w EXCEPT !.tm.weights = 0]
      down == TeardownProfileBlockController(back)
  IN  Then(Strike(down, f, "shutdown"),
           LAMBDA v: [v EXCEPT !.tm.live = @ \ {v.tm.loader}])

(* Durations of the compiled units replace those of the profile.  Without  *)
(* durations, or without the original weights, nothing happens; otherwise  *)
(* the old loader goes before the new one is there, and a failure in       *)
(* between leaves no loader to serve from.                                 *)
CanReplan(w, durations, f) == durations /\ w.tm.source /\ f # "nomatch"

RebuildFromSources(w, f) ==
  LET back  == [w EXCEPT !.tm.weights = 0, !.tm.live = @ \ {w.tm.loader}]
      make(v)  == CreateLoader(v, f)
      spent(v) == [PrepareFinalModel(v) EXCEPT !.tm.source = FALSE]
  IN  Then(Then(Strike(back, f, "strategy"), make), spent)

------------------------------------------------------------------------------
(* The compiled path in its manager. *)

(* Substituted units are undone, the loader is taken out of the registry   *)
(* and the sources kept for a replan are dropped.                          *)
TeardownCompiled(w) ==
  [w EXCEPT !.comp = Inactive, !.ops = ClearActiveLoader(@),
            !.tm.armFirst = FALSE, !.tm.source = FALSE]

ResolveActivation(w, c) ==
  IF ~Acceptable(c) THEN Raise(w)
  ELSE [TeardownCompiled(w) EXCEPT !.comp = Activation(c)]

ArmNonDestructiveFirstLoader(w) ==
  [w EXCEPT !.tm.armFirst = @ \/ (w.comp.active /\ w.comp.replan)]

(* Only a loader that preallocates can be driven by the ops. *)
RequireCompiledLoader(w) ==
  IF w.tm.loader # 0 /\ w.tm.kind = "infer" /\ w.tm.cfg.block
    THEN [w EXCEPT !.ops = InstallActiveLoader(@, w.tm.loader)]
    ELSE Raise([w EXCEPT !.ops = ClearActiveLoader(@)])

OnEnterInference(w) ==
  IF ~w.comp.active THEN w
  ELSE Then(RequireCompiledLoader(w),
            LAMBDA v: IF ~v.comp.fn THEN v
                      ELSE [v EXCEPT !.comp.tail = Done(@, "yes"),
                                     !.comp.wrapped = TRUE])

(* Slip: the registry keeps the loader that was replaced. *)
ReinstallNothing(w) == w

(* The loader a replan rebuilds is of the kind that RequireCompiledLoader  *)
(* accepted, so the check of its class never fails here.                   *)
ReinstallCompiledLoader(w) ==
  LET clear == [w EXCEPT !.ops = ClearActiveLoader(@)]
  IN  IF w.tm.loader = 0 THEN Raise(clear)
      ELSE [clear EXCEPT !.ops = InstallActiveLoader(@, w.tm.loader)]

ReplanFromCompiledDurations(w, durations, f) ==
  IF CanReplan(w, durations, f)
    THEN [Then(RebuildFromSources(w, f), ReinstallCompiledLoader)
            EXCEPT !.applied = TRUE]
    ELSE w

(* The passive replan drains the samples of the ops. *)
FinishReplan(w, f) ==
  ReplanFromCompiledDurations([w EXCEPT !.ops = FinishProfiling(@)],
                              w.ops.samples, f)

(* The replan of a captured graph drains the durable store instead; the    *)
(* collector is disarmed before anything can fail.                         *)
FinishManualUpdateReplan(w, f) ==
  LET idle == [w EXCEPT !.om.manual = FALSE,
                        !.col = DrainMeasure(DisarmReplayMeasure(@))]
  IN  ReplanFromCompiledDurations(idle, w.col.durable # <<>>, f)

CompleteReplanTail(w, Finish(_)) ==
  LET end == Finish([w EXCEPT !.applied = FALSE])
  IN  IF end.err
        THEN [end EXCEPT !.comp.tail = Failed(@), !.ops = ClearActiveLoader(@)]
        ELSE [end EXCEPT !.comp.tail = Done(@, IF end.applied THEN "yes" ELSE "no")]

Measures(w) == w.om.cfg.prof

(* One forward of the tail; a failed one raises at every forward. *)
AdvanceTail(w, Finish(_)) ==
  LET t    == w.comp.tail
      tick == Tick(t, Measures(w))
      next == [w EXCEPT !.comp.tail = tick.tail,
                        !.ops = IF tick.record THEN EnableProfiling(@) ELSE @]
  IN  CASE t.state = "FAILED" -> Raise(w)
        [] t.state \in {"IDLE", "DONE"} -> w
        [] t.state \in {"WARMING", "MEASURING"} ->
             IF tick.complete THEN CompleteReplanTail(next, Finish) ELSE next

(* Whatever the tail was, it starts over; with nothing to measure it is    *)
(* over at once.                                                           *)
ArmReplanTail(w, credited, profiling, Finish(_)) ==
  LET t == Arm(credited, profiling)
      armed == [w EXCEPT !.comp.tail = t,
                         !.ops = IF t.state = "MEASURING" /\ profiling
                                   THEN EnableProfiling(@) ELSE @]
  IN  IF t.state = "MEASURING" /\ Measures(w) = 0
        THEN CompleteReplanTail(armed, Finish) ELSE armed

RequestPassiveReplan(w) ==
  IF w.comp.active /\ w.comp.replan
    THEN ArmReplanTail(w, 0, TRUE, LAMBDA v: FinishReplan(v, "none"))
    ELSE w

(* The collector is asked what it can do before anything is reset. *)
BeginManualUpdateReplan(w) ==
  IF /\ w.om.cfg.timing = "cuda_graph"
     /\ w.comp.active /\ w.comp.replan
     /\ w.tm.loader # 0 /\ w.col.enabled /\ w.col.external
    THEN ArmReplanTail([w EXCEPT !.col = ArmReplayMeasure(ResetCollector(DrainMeasure(@))),
                                 !.om.manual = TRUE],
                       WarmupForwards, FALSE,
                       LAMBDA v: FinishManualUpdateReplan(v, "none"))
    ELSE w

------------------------------------------------------------------------------
(* The transitions of the manager. *)

Hooked(o) == <<o.model, o.serial>>

(* Slip: the old hook stays on the model that was left. *)
InstallSecondHook(o) ==
  LET next == [o EXCEPT !.serial = 1 - @]
  IN  [next EXCEPT !.hooks = @ \cup {Hooked(next)}, !.handle = Hooked(next)]

(* The new hook is registered before the old one is removed. *)
InstallStateUpdateHook(o) ==
  LET next == [o EXCEPT !.serial = 1 - @]
  IN  [next EXCEPT !.hooks = (@ \ {o.handle}) \cup {Hooked(next)},
                   !.handle = Hooked(next)]

(* Slip: the old hook is removed first, and the new one may not come. *)
SwapToNewModelHookless(w, model, phase, f) ==
  IF f = "swap"
    THEN Raise([w EXCEPT !.om.hooks = @ \ {w.om.handle}])
    ELSE [w EXCEPT !.om = [InstallStateUpdateHook([w.om EXCEPT !.model = model])
                             EXCEPT !.phase = phase, !.iter = 0]]

(* All of it or none of it: model, hook, phase and count. *)
SwapToNewModel(w, model, phase, f) ==
  IF f = "swap" THEN Raise(w)
  ELSE [w EXCEPT !.om = [InstallStateUpdateHook([w.om EXCEPT !.model = model])
                           EXCEPT !.phase = phase, !.iter = 0]]

UserModel(w) == <<w.om.session, "user">>
ProfileModel(w) == <<w.om.session, "copy">>

TransitionToProfile(w, f) ==
  LET built == InitializeProfile(w, f)
      swap(v) == SwapToNewModel(v, IF v.tm.restored THEN v.om.model ELSE ProfileModel(v),
                                "PROFILING", f)
      enter(v) == [v EXCEPT !.comp = OnEnterProfile(@)]
  IN  Then(Then(built, swap), enter)

(* Discovery and profiling run the eager forwards; with compiled offload   *)
(* the units change to their transparent ones here.                        *)
InstallCompiledForwards(w) ==
  IF w.comp.active THEN [w EXCEPT !.om.forwards = "compiled"] ELSE w

TransitionToInference(w, f) ==
  LET swap(v) == SwapToNewModel(v, UserModel(v), "INFERENCE", f)
  IN  Then(Then(Then(InitializeInference(w, f), swap), InstallCompiledForwards),
           OnEnterInference)

(* Discovery is skipped only when there is a patched module to be found. *)
TransitionToWarmup(w, f) ==
  LET warm == InitializeWarmup(SetModel(w), f)
      swap(v) == SwapToNewModel(v, UserModel(v), "DISCOVERY", f)
      skip == w.om.cfg.skip
      honored(v, h) == [v EXCEPT !.om.honored = h]
  IN  IF w.tm.restored
        THEN Then(Then(warm, LAMBDA v: honored(v, "yes")),
                  LAMBDA v: TransitionToInference(v, f))
        ELSE Then(Then(warm, swap),
                  LAMBDA v: IF ~skip THEN honored(v, "yes")
                            ELSE IF ~v.om.cfg.reachable THEN honored(v, "no")
                            ELSE TransitionToProfile(honored(v, "yes"), f))

Budget(w) ==
  LET c == w.om.cfg
      discovering == ~(c.skip /\ w.om.honored = "yes")
      atLeastOne(n) == IF n = 0 THEN 1 ELSE n
  IN  (IF discovering THEN atLeastOne(c.disc) ELSE 0)
      + atLeastOne(EagerProfilingIters(w.comp, c.prof))
      + ExtraItersBeforeInference(w.comp)

------------------------------------------------------------------------------
(* The public calls, as steps on w. *)

(* Slip: forwards under suspension count in both phases. *)
CountsSuspended(w) == w.comp.warm = 0 \/ w.om.phase # "PROFILING"

(* Suspension and compile warm-ups hold the count back, but only in the    *)
(* profiling phase.                                                        *)
Counts(w) ==
  \/ w.om.phase = "DISCOVERY"
  \/ w.om.phase = "PROFILING" /\ w.tm.suspended = 0 /\ w.comp.warm = 0

DiscoveryDue(w) == w.om.phase = "DISCOVERY" /\ w.om.iter >= w.om.cfg.disc

ProfilingDue(w) ==
  w.om.phase = "PROFILING" /\ w.om.iter >= EagerProfilingIters(w.comp, w.om.cfg.prof)

Count(w, f) ==
  LET counted == [w EXCEPT !.om.iter = @ + 1]
  IN  IF DiscoveryDue(counted) THEN TransitionToProfile(counted, f)
      ELSE IF ProfilingDue(counted) THEN TransitionToInference(counted, f)
      ELSE counted

(* Publishes the pass the handles hold; timing that is off is no failure.  *)
UpdateOffloadTiming(w, gen, capturing) ==
  LET fin == FinalizeReplayPass(w.col, gen, capturing)
  IN  IF ~w.tm.on THEN [w |-> w, ok |-> FALSE]
      ELSE IF w.om.cfg.timing = "off" THEN [w |-> w, ok |-> TRUE]
      ELSE IF w.tm.loader = 0 THEN [w |-> w, ok |-> FALSE]
      ELSE [w |-> [w EXCEPT !.col = fin.col], ok |-> fin.ok]

FailManualUpdateReplan(w) ==
  Raise([w EXCEPT !.om.manual = FALSE, !.col = DisarmReplayMeasure(@),
                  !.comp.tail = Failed(@)])

(* Slip: a replay that could not be published is counted all the same. *)
MeasureRegardless(w, gen, f, capturing) ==
  AdvanceTail(UpdateOffloadTiming(w, gen, capturing).w,
              LAMBDA v: FinishManualUpdateReplan(v, f))

MeasureReplay(w, gen, f, capturing) ==
  LET pub == UpdateOffloadTiming(w, gen, capturing)
  IN  IF pub.ok THEN AdvanceTail(pub.w, LAMBDA v: FinishManualUpdateReplan(v, f))
      ELSE FailManualUpdateReplan(pub.w)

UpdateState(w, gen, f, capturing) ==
  CASE w.om.phase = "NOT_INITIALIZED" -> w
    [] w.om.phase = "INFERENCE" ->
         IF w.om.manual THEN MeasureReplay(w, gen, f, capturing)
                        ELSE AdvanceTail(w, LAMBDA v: FinishReplan(v, f))
    [] w.om.phase = "PROFILING" /\ w.tm.suspended = 0 /\ w.comp.warm > 0 ->
         [w EXCEPT !.comp = AdvanceProfileWarmup(@)]
    [] w.om.phase \in {"DISCOVERY", "PROFILING"} /\ Counts(w) -> Count(w, f)
    [] OTHER -> w

(* The choice that was captured once cannot change under a live manager. *)
SetConfig(w, c) ==
  IF w.tm.on /\ w.tm.cfg.skip # c.skip THEN Raise(w) ELSE [w EXCEPT !.om.cfg = c]

InitManager(w, c, f) ==
  LET set == SetConfig(w, c)
  IN  IF w.om.blocked THEN Raise(w)
      ELSE IF set.err \/ w.tm.on THEN set
      ELSE InitializeTensorManager(set, c, f)

(* Modules are patched with the eager forward. *)
PatchModules(w) ==
  [w EXCEPT !.om.session = @ + 1, !.om.forwards = "eager",
            !.om.model = <<w.om.session + 1, "user">>, !.om.proxy = TRUE]

OffloadModel(w, c, f) ==
  LET resolved == ResolveActivation([w EXCEPT !.om.manual = FALSE], c)
      inited(v) == InitManager(v, c, f)
      patched(v) == PatchModules(ArmNonDestructiveFirstLoader(v))
  IN  Then(Then(Then(resolved, inited), patched), LAMBDA v: TransitionToWarmup(v, f))

(* A manager that could not let go of everything keeps what is left, and   *)
(* takes no further call.                                                  *)
Blocked(w) == Raise([w EXCEPT !.om.blocked = TRUE])

Unmanaged(w) ==
  [w EXCEPT !.tm = [NoTensorManager EXCEPT
                      !.built = IF w.tm.live = {} THEN 0 ELSE w.tm.built,
                      !.live = w.tm.live],
            !.om = [w.om EXCEPT !.phase = "NOT_INITIALIZED", !.forwards = "plain",
                                !.model = NoModel, !.proxy = FALSE, !.takeover = FALSE,
                                !.hooks = @ \ {w.om.handle}, !.handle = <<NoModel, 0>>],
            !.col = NewCollector(FALSE, FALSE)]

(* Memory is released and the tensor manager shut down, both whatever the  *)
(* other does; only then are the forwards restored.                        *)
Release(w, f) ==
  LET torn == TeardownCompiled([w EXCEPT !.om.manual = FALSE])
      down == IF w.tm.on THEN ShutdownTensorManager(torn, f) ELSE torn
  IN  IF w.om.blocked THEN Raise(w)
      ELSE IF down.err \/ (w.tm.on /\ f = "release_memory") THEN Blocked(down)
      ELSE [Unmanaged(down) EXCEPT !.om.honored = "unknown"]

(* Forwards and parameters first; the tensor manager is released only when *)
(* the parameters own their data again, and let go of only when that       *)
(* succeeds.                                                               *)
CleanupFailedStateTakeover(w, g) ==
  LET torn == [TeardownCompiled(w) EXCEPT
                 !.err = FALSE, !.om.hooks = {}, !.om.handle = <<NoModel, 0>>,
                 !.om.forwards = "plain"]
      rebound == IF g = "rebind" THEN torn ELSE [torn EXCEPT !.tm.weights = 0]
      kept == g \in {"rebind", "release_memory"}
      down == IF kept THEN rebound ELSE ShutdownTensorManager(rebound, g)
      gone == [Unmanaged(down) EXCEPT !.om.iter = 0]
      held == [down EXCEPT !.om.blocked = TRUE, !.om.phase = "NOT_INITIALIZED",
                           !.om.iter = 0, !.om.takeover = FALSE]
  IN  Raise(IF kept \/ down.err THEN held ELSE gone)

(* A saved state takes the manager straight to inference. *)
AdoptState(w, f) ==
  LET moved == [w EXCEPT !.om.takeover = TRUE, !.tm.restored = TRUE]
      loaded(v) == PrepareInferLoadMode(v, f)
      patched(v) == PrepareFinalModel(PatchModules(v))
      entered(v) == TransitionToInference(v, f)
  IN  Then(Then(Then(Strike(moved, f, "execute"), loaded), patched), entered)

OffloadFromState(w, c, f, g) ==
  LET resolved == ResolveActivation([w EXCEPT !.om.manual = FALSE], c)
      inited == Then(resolved, LAMBDA v: InitManager(v, c, f))
      adopted == AdoptState(Strike(ArmNonDestructiveFirstLoader(inited), f, "plan"), f)
  IN  IF w.om.blocked \/ w.om.takeover \/ w.om.phase # "NOT_INITIALIZED" THEN Raise(w)
      ELSE IF resolved.err THEN resolved
      ELSE IF inited.err THEN TeardownCompiled(inited)
      ELSE IF adopted.err THEN CleanupFailedStateTakeover(adopted, g)
      ELSE adopted

(* A follower restores the published profile and serves at once. *)
InitializeFromShm(w, c, f) ==
  LET resolved == ResolveActivation([w EXCEPT !.om.cfg = c], c)
      made == Then(resolved, LAMBDA v: InitializeTensorManager(v, c, f))
      restored(v) == [ArmNonDestructiveFirstLoader(v) EXCEPT !.tm.restored = TRUE]
      warmed(v) == InitializeWarmup(v, f)
      patched(v) == InstallCompiledForwards(PatchModules(
                      [v EXCEPT !.tm.restored = FALSE]))
      hooked(v) == [v EXCEPT !.om = [InstallStateUpdateHook(@) EXCEPT
                                       !.phase = "INFERENCE"]]
  IN  Then(Then(Then(Then(Then(made, restored), warmed), patched), OnEnterInference),
           hooked)

------------------------------------------------------------------------------
(* The caller. *)

World == [om |-> om, tm |-> tm, comp |-> comp, ops |-> ops, col |-> col,
          err |-> FALSE, applied |-> FALSE]

Become(w) == /\ om' = w.om /\ tm' = w.tm /\ comp' = w.comp
             /\ ops' = w.ops /\ col' = w.col

NoHistory ==
  [fresh |-> FALSE, driven |-> 0, failures |-> 0, served |-> "none",
   halfway |-> FALSE, rearmed |-> FALSE, dropped |-> {}, from |-> 0]

Init ==
  /\ om = [phase |-> "NOT_INITIALIZED", cfg |-> NoConfig, iter |-> 0,
           honored |-> "unknown", session |-> 0, model |-> NoModel,
           proxy |-> FALSE, forwards |-> "plain", hooks |-> {},
           handle |-> <<NoModel, 0>>, serial |-> 0, manual |-> FALSE,
           blocked |-> FALSE, takeover |-> FALSE]
  /\ tm = NoTensorManager
  /\ comp = Inactive
  /\ ops = NoSlot
  /\ col = NewCollector(FALSE, FALSE)
  /\ user \in [pass : {0}, graph : {0}, due : {FALSE}, faults : {0},
               broken : {FALSE}, hooked : BOOLEAN]
  /\ hist = NoHistory

Faulted(f) == user.faults + (IF f = "none" THEN 0 ELSE 1)

(* A fault that was chosen has to be what strikes, and faults are few. *)
Strikes(f, Call(_)) ==
  /\ Faulted(f) <= MaxFaults
  /\ f # "none" => Call(f).err /\ ~Call("none").err

(* Whether the units compute through the ops; those that were not patched  *)
(* are traps of the caller and go on through the tensor manager.           *)
Transparent(w) == w.om.forwards = "compiled" /\ w.om.cfg.reachable

(* The loader a unit computes through, if it gets one. *)
UnitLoader(w) == IF Transparent(w) THEN w.ops.loader ELSE w.tm.loader

(* What becomes of a forward of the model the proxy stands for: a trap     *)
(* without a loader raises, as do the ops of an armed slot without one,    *)
(* and weights left on the host; what is served is garbage when the        *)
(* parameters point into blocks that this loader does not fill.            *)
Serving(w) ==
  LET l == UnitLoader(w)
      unarmed == Transparent(w) /\ Lookup(w.ops) = "none"
  IN  IF w.om.phase = "DISCOVERY" /\ w.tm.trap = "warmup"
        THEN IF w.tm.kind = "none" THEN "raise" ELSE "ok"
      ELSE IF /\ w.om.phase = "PROFILING" /\ w.comp.wrapped /\ w.om.cfg.reachable
              /\ w.tm.kind # "controller"
        THEN "raise"
      ELSE IF l = 0
        THEN IF unarmed /\ w.tm.weights # 0 THEN "garbage" ELSE "raise"
      ELSE IF l \notin w.tm.live \/ w.tm.weights \notin {0, l} THEN "garbage"
      ELSE IF w.om.phase = "INFERENCE" /\ w.tm.cfg.block /\ w.tm.weights = 0
        THEN "raise"
      ELSE "ok"

(* The events and samples of one pass through the loader. *)
RunPass(w, pass, capturing) ==
  LET timed == w.om.phase = "INFERENCE" /\ w.tm.loader # 0
  IN  [w EXCEPT !.col = IF timed THEN RecordPass(OnPassStart(@, capturing), pass, capturing)
                                 ELSE @,
                !.ops = IF Transparent(w) THEN UnitForward(@, FALSE) ELSE @]

Driving == om.phase \in {"DISCOVERY", "PROFILING"}

(* Passes have a number where their events are timed. *)
PassNumber == IF om.phase = "INFERENCE" /\ col.enabled THEN user.pass + 1 ELSE user.pass

(* The caller runs the model; the hook follows a forward that returned,    *)
(* and a capture whose forward raised leaves the graph there was.          *)
(* While a captured graph is measured, only replays and update_state run.  *)
Forward(f, capturing) ==
  LET served == Serving(World)
      Call(g) == IF served = "raise" THEN Raise(World)
                 ELSE UpdateState(RunPass(World, PassNumber, capturing),
                                  NoGeneration, g, capturing)
      w == Call(f)
      counted == Driving /\ served # "raise" /\ (om.phase = "DISCOVERY" \/ tm.suspended = 0)
  IN  /\ om.phase # "NOT_INITIALIZED" /\ ~user.broken /\ ~om.manual
      /\ capturing => om.phase = "INFERENCE" /\ om.cfg.timing = "cuda_graph"
                         /\ comp.tail.state \in {"IDLE", "DONE"}
      /\ PassNumber <= MaxPasses
      /\ Strikes(f, Call) /\ Become(w)
      /\ user' = [user EXCEPT !.pass = PassNumber, !.faults = Faulted(f),
                              !.graph = IF capturing /\ ~w.err THEN tm.loader ELSE @,
                              !.due = FALSE]
      /\ hist' = [hist EXCEPT !.served = served,
                              !.driven = IF counted THEN @ + 1 ELSE @,
                              !.failures = IF Driving /\ f # "none" THEN @ + 1 ELSE @,
                              !.halfway = @ \/ (Driving /\ f = "swap"),
                              !.dropped = IF Driving /\ f = "swap" THEN @ \cup {w.tm.loader} ELSE @]

(* A forward of a compiled unit that raises leaves its start unmatched. *)
ForwardRaises ==
  /\ om.phase = "INFERENCE" /\ Transparent(World) /\ ops.profiling
  /\ ~user.broken /\ ~om.manual /\ Serving(World) = "ok"
  /\ ops' = UnitForward(ops, TRUE)
  /\ UNCHANGED <<om, tm, comp, col, user, hist>>

Suspend ==
  /\ Driving /\ tm.on /\ tm.suspended < MaxSuspends
  /\ tm' = [tm EXCEPT !.suspended = @ + 1]
  /\ UNCHANGED <<om, comp, ops, col, user, hist>>

Resume ==
  /\ tm.on /\ tm.suspended > 0
  /\ tm' = [tm EXCEPT !.suspended = @ - 1]
  /\ UNCHANGED <<om, comp, ops, col, user, hist>>

(* A fresh session begins to be counted; what the session before left      *)
(* behind is known to be lost.                                             *)
NewSession(w) ==
  hist' = [hist EXCEPT !.fresh = ~w.err /\ w.om.phase \in {"DISCOVERY", "PROFILING"},
                       !.driven = 0, !.failures = 0, !.served = "none",
                       !.halfway = FALSE, !.rearmed = FALSE,
                       !.dropped = (@ \cup {tm.loader}) \cap w.tm.live]

Offload(c, f) ==
  LET Call(g) == OffloadModel(World, c, g)
      w == Call(f)
  IN  /\ om.session < MaxSessions /\ ~om.takeover
      /\ Strikes(f, Call) /\ Become(w)
      /\ user' = [user EXCEPT !.faults = Faulted(f), !.due = FALSE,
                              !.broken = IF Acceptable(c) THEN w.err ELSE @]
      /\ IF w.err /\ ~Acceptable(c) THEN UNCHANGED hist ELSE NewSession(w)

(* A saved profile is read into a manager that has not begun. *)
LoadProfile(c) ==
  LET set == SetConfig(World, c)
      w == IF tm.on THEN set ELSE InitializeTensorManager(set, c, "none")
  IN  /\ om.phase = "NOT_INITIALIZED" /\ om.session < MaxSessions
      /\ ~om.blocked /\ ~user.broken /\ ~set.err
      /\ Become([w EXCEPT !.tm.restored = TRUE])
      /\ UNCHANGED <<user, hist>>

FollowShm(c, f) ==
  LET Call(g) == InitializeFromShm(World, c, g)
      w == Call(f)
  IN  /\ om.session < MaxSessions
      /\ om.phase = "NOT_INITIALIZED" /\ ~tm.on /\ ~user.broken
      /\ Strikes(f, Call) /\ Become(w)
      /\ user' = [user EXCEPT !.faults = Faulted(f), !.broken = w.err]
      /\ NewSession(w)

TakeOver(c, f, g) ==
  LET Call(h) == OffloadFromState(World, c, h, "none")
      w == OffloadFromState(World, c, f, g)
  IN  /\ om.session < MaxSessions /\ ~user.broken
      /\ om.phase = "NOT_INITIALIZED" /\ ~tm.on
      /\ Strikes(f, Call)
      /\ g # "none" => w.om.blocked /\ ~om.blocked
      /\ Become(w)
      /\ user' = [user EXCEPT !.faults = Faulted(f)]
      /\ NewSession(w)

(* A replan is asked for in one of its two forms. *)
RequestStrategyReplan(manual) ==
  LET w == IF manual THEN BeginManualUpdateReplan(World) ELSE RequestPassiveReplan(World)
  IN  /\ om.phase = "INFERENCE" /\ ~user.broken /\ ~om.manual
      /\ manual => user.graph = tm.loader
      /\ Become(w)
      /\ user' = [user EXCEPT !.due = FALSE]
      /\ hist' = [hist EXCEPT !.rearmed = @ \/ comp.tail.state = "FAILED",
                              !.from = IF w.om.manual THEN user.pass ELSE @]

(* The graph that was captured over the current loader is replayed.  A     *)
(* serving hook may publish each replay under its generation.              *)
Replay ==
  LET seen == [World EXCEPT !.col = RecordReplay(@, user.pass + 1)]
  IN  /\ om.phase = "INFERENCE" /\ ~user.broken /\ om.manual
      /\ user.graph = tm.loader /\ ~user.due /\ user.pass < MaxPasses
      /\ Become(IF user.hooked THEN UpdateOffloadTiming(seen, user.pass + 1, FALSE).w
                               ELSE seen)
      /\ user' = [user EXCEPT !.pass = @ + 1, !.due = TRUE]
      /\ UNCHANGED hist

(* After each replay the caller moves the measurement on.  While another   *)
(* stream is under capture the pass cannot be read.                        *)
UpdateAfterReplay(gen, f, capturing) ==
  LET Call(g) == UpdateState(World, gen, g, capturing)
      w == Call(f)
  IN  /\ om.manual /\ user.due /\ ~user.broken
      /\ gen \in {NoGeneration} \cup (IF user.hooked THEN {user.pass} ELSE {})
      /\ Strikes(f, Call) /\ Become(w)
      /\ user' = [user EXCEPT !.due = FALSE, !.faults = Faulted(f)]
      /\ UNCHANGED hist

ReleaseAll(f) ==
  LET Call(g) == Release(World, g)
      w == Call(f)
  IN  /\ om.session > 0 \/ tm.on
      /\ Strikes(f, Call) /\ Become(w)
      /\ user' = [user EXCEPT !.broken = w.err, !.due = FALSE, !.faults = Faulted(f),
                              !.pass = 0, !.graph = 0]
      /\ hist' = [NoHistory EXCEPT !.dropped = hist.dropped \cap w.tm.live]

SetupFaults   == Faults \cap {"none", "init", "plan", "execute", "create", "swap", "profile"}
DriveFaults   == Faults \cap {"none", "strategy", "create", "swap", "profile"}
ReplanFaults  == Faults \cap {"none", "strategy", "create"}
ReleaseFaults == Faults \cap {"none", "release_memory", "shutdown", "rebind"}

Next ==
  \/ \E f \in DriveFaults : Forward(f, FALSE)
  \/ Forward("none", TRUE)
  \/ ForwardRaises
  \/ Suspend
  \/ Resume
  \/ \E c \in Configs, f \in SetupFaults : Offload(c, f)
  \/ \E c \in Configs : LoadProfile(c)
  \/ \E c \in Configs, f \in SetupFaults : FollowShm(c, f)
  \/ \E c \in Configs, f \in SetupFaults, g \in ReleaseFaults : TakeOver(c, f, g)
  \/ \E manual \in BOOLEAN : RequestStrategyReplan(manual)
  \/ Replay
  \/ \E gen \in {NoGeneration, user.pass}, f \in ReplanFaults, capturing \in BOOLEAN :
        UpdateAfterReplay(gen, f, capturing)
  \/ \E f \in ReleaseFaults : ReleaseAll(f)

Spec == Init /\ [][Next]_vars

------------------------------------------------------------------------------
(* Properties. *)

TypeOK ==
  /\ om.phase \in {"NOT_INITIALIZED", "DISCOVERY", "PROFILING", "INFERENCE"}
  /\ om.honored \in {"unknown", "yes", "no"}
  /\ om.forwards \in {"plain", "eager", "compiled"}
  /\ om.iter \in Nat /\ comp.warm \in 0..ProfileWarmups
  /\ tm.loader \in 0..tm.built /\ tm.weights \in {Stale} \cup 0..tm.built
  /\ tm.live \subseteq 1..tm.built
  /\ tm.suspended \in 0..MaxSuspends
  /\ comp.tail.state \in TailStates
  /\ comp.tail.warm \in 0..WarmupForwards /\ comp.tail.measure \in Nat
  /\ ops.loader \in 0..tm.built /\ (ops.loader # 0 => ops.armed)
  /\ Cardinality(om.hooks) <= 1

(* iters_before_inference is the truth: a caller that drives as many       *)
(* forwards as it says, those of the profiling under suspension and one    *)
(* more for every transition that failed not counted, is in inference then *)
(* and not before, whatever the budgets (zero included), the compile       *)
(* warm-ups and a skip of the discovery that was or was not honored.       *)
InferenceAfterBudget ==
  hist.fresh =>
    /\ om.phase = "INFERENCE" => hist.driven = Budget(World) + hist.failures
    /\ Driving => hist.driven < Budget(World) + hist.failures

(* No forward is ever served from blocks that its loader does not fill:    *)
(* after any release, re-offload, replan or failure the units run through  *)
(* the loader whose views the parameters are, or they raise.  (A swap to   *)
(* the next model that failed after the tensor manager had moved on is     *)
(* excepted: the next attempt copies the weights out of the first one's    *)
(* blocks; so is a replan that failed when the caller's own traps, which   *)
(* the registry does not reach, go on through the loader it shut down.)    *)
NeverServesForeignBlocks ==
  hist.served = "garbage" =>
    \/ hist.halfway
    \/ ~om.cfg.reachable /\ (comp.tail.state = "FAILED" \/ hist.rearmed)

(* While a compiled session serves, its slot in the registry, its tensor   *)
(* manager and the parameters agree on one loader that is alive; a replan  *)
(* that failed between the old loader and the new one leaves the tail      *)
(* FAILED.  (A new replan after a failed one hides the failure.  A tensor   *)
(* manager made for an earlier configuration without blocks leaves the     *)
(* session without a loader in the registry: its forwards raise.)          *)
CompiledSessionAgrees ==
  om.phase = "INFERENCE" /\ comp.active /\ ~user.broken /\ ~hist.rearmed =>
    \/ comp.tail.state = "FAILED"
    \/ ~tm.cfg.block /\ ops.loader = 0
    \/ ops.loader = tm.loader /\ ops.loader \in tm.live
       /\ tm.weights \in {tm.loader, Stale}

(* A live manager has exactly one hook that moves it on, and it sits on    *)
(* the model the proxy runs, also after a transition that failed; a        *)
(* manager that was released has none anywhere.                            *)
HookFollowsModel ==
  /\ om.phase # "NOT_INITIALIZED" /\ ~user.broken => om.hooks = {Hooked(om)}
  /\ om.phase = "NOT_INITIALIZED" /\ ~tm.on => om.hooks = {}

(* The durable store of a replan of a captured graph holds one pass for    *)
(* every replay that was counted, each of them of its own and none of      *)
(* before the request; a replay the hook has published is there before it  *)
(* is counted.                                                             *)
MeasureBackedByReplays ==
  om.manual /\ comp.tail.state = "MEASURING" =>
    /\ \A i, j \in 1..Len(col.durable) : i # j => col.durable[i] # col.durable[j]
    /\ \A i \in 1..Len(col.durable) : col.durable[i] > hist.from
    /\ Len(col.durable) = comp.tail.measure
                          + (IF user.due /\ user.hooked THEN 1 ELSE 0)

(* Every loader that holds resources is the one in use, apart from those   *)
(* a re-offload or a failed swap dropped; a manager that let go of its     *)
(* tensor manager left no hook, no compiled forward, no view in the model  *)
(* and no loader in the registry behind, and one that could not let go     *)
(* keeps it.                                                               *)
LoadersAccountedFor ==
  /\ tm.live \subseteq {tm.loader} \cup hist.dropped
  /\ ~tm.on => tm.weights = 0 /\ ops.loader = 0 /\ om.forwards = "plain"
  /\ om.blocked => tm.on
===============================================================================
